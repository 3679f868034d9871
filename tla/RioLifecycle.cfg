SPECIFICATION FairSpec
CONSTANTS
    Sessions = {s1, s2}
    CoreCnt = 1
    MaxSends = 1
INVARIANTS ReceiveIsOwned SendsWhenReady
PROPERTIES NoLateRequest LifeSpec Freed AcceptsAgain
CHECK_DEADLOCK FALSE
