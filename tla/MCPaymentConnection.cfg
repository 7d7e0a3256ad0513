\* Three events are published; three failures.  The service may have nothing to do, or end.
CONSTANTS
    p1 = p1  p2 = p2  p3 = p3
    Publishers = {p1, p2, p3}
    Main = Main
    MaxFailures = 3
CHECK_DEADLOCK FALSE
SPECIFICATION FairSpec
INVARIANTS TypeOK  OfflineHasCause SkippedHasCause
PROPERTY LoopComesBack
