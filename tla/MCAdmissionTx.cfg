SPECIFICATION Spec
CONSTANTS
    Callers = {c1, c2}
    Keys = {k1, k2, k3}
    MaxDay = 1
    MaxOpen = 1
    MaxDaily = 2
    MaxAttempts = 3
    MaxReconciles = 1
    NoCaller = NoCaller
    NoKey = NoKey
SYMMETRY Symmetry
INVARIANTS
    QuotaAccounted
    OpenPositionsCapped
    AdmittedOnce
    AttemptsPaidFor
PROPERTY AdmitsAtomically
