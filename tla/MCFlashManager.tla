-------------------------- MODULE MCFlashManager --------------------------
(* Model-checking instances of FlashManager: two sectors of two chunks.    *)
EXTENDS FlashManager

(* An image that ends in the middle of its second sector.                  *)
ImageAB == << <<"a", "b">>, <<"b", "ff">> >>

(* The configurations of the command line: dry runs never commit.          *)
CliConfigs == {c \in FlashConfig : c.finalCommit = ~c.dryRun}

(* A library caller may also switch the commit off: the verify is then all. *)
LibraryConfigs == {c \in FlashConfig : c.verifyAfter /\ ~c.dryRun /\ ~c.finalCommit}

AllConfigs == CliConfigs \cup LibraryConfigs

===========================================================================
