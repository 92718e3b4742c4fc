\* Two callers and the keepalive over a faulty bus, with cancellation at any
\* .await, and disconnect.  A plain send is a retrying send that meets no
\* transient error: it is left to Session_returns, and so is Drop.
SPECIFICATION Spec
CONSTANTS
    Callers = {c1, c2}
    KA = KA
    NoOne = NoOne
    Ops = {"connect", "gated", "retrying", "disconnect", "cancel"}
    VersionOk = TRUE
    MaxAttempts = 2
    QueueDepth = 2
    MaxOps = 3
    MaxTicks = 1
    MaxFaults = 1
SYMMETRY CallerSymmetry
\* disconnect and gated commands join the keepalive under command_lock, and
\* may wait for each other for ever: see Session_deadlock.
CHECK_DEADLOCK FALSE
INVARIANTS
    TypeOK
    OneCommandInFlight
    NoLeakedLock
    OwnOrAbandoned
    DrainResynchronises
    SessionAgreement
    ReconnectRestoresSession
    QuietAfterClose
PROPERTY
    ReconnectIsAtomic
