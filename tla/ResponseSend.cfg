\* Two io_service threads, a destructor, and up to two sends.
CONSTANTS
    t1 = t1
    t2 = t2
    Destroyer = destroyer
    IoThreads = {t1, t2}
    Threads = {t1, t2, destroyer}
    MaxWritten = 3
    MaxSends = 2
SPECIFICATION FairSpec
CHECK_DEADLOCK FALSE
INVARIANTS
    OneWriteAtATime
    WireIsWhatWasWritten
    CallbacksTellTheTruth
PROPERTIES
    GateSpec
    EverySendIsAnswered
