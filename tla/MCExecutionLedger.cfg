\* Two writers contend for a log of up to MaxContended events, one goes deeper.
SPECIFICATION Spec
CONSTANTS
    Runs = {r1}
    Calls = {c1, c2}
    Approvals = {a1}
    Writers = {w1, w2}
    NoApproval = NoApproval
    NoTxn = NoTxn
    MaxSequence = 6
    MaxContended = 4
SYMMETRY Symmetry
CONSTRAINT SoleWriter
INVARIANTS WellFormed RecoveryIsSound StartedAtMostOnce AskedThenApproved
PROPERTIES LogGrows ImplementsLifecycle
