SPECIFICATION Spec
CONSTANTS
    a1 = a1
    a2 = a2
    w1 = w1
    w2 = w2
    p1 = p1
    p2 = p2
    p3 = p3
    None = None
    Absent = Absent
    Accounts = {a1, a2}
    Windows = {w1, w2}
    Pendings = {p1, p2, p3}
    Setups <- LoginSetups
SYMMETRY Symmetry
INVARIANTS TypeOK AskedOnce SavedReplyResumes KeptForRecovery LocksReleased
PROPERTIES GenerationForward RetiredSilent LoggedOutStays
CHECK_DEADLOCK FALSE
