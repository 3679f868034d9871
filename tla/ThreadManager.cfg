\* Four threads started in any order, joined and started again.
CONSTANT
    Threads = {t1, t2, t3, t4}
SPECIFICATION ManagerSpec
SYMMETRY ThreadSymmetry
INVARIANTS
    IdsInRange
    IdsDifferUnlessRaced
