\* runProgram(code, len, true): reset() by the worker.
SPECIFICATION FairSpec
CONSTANTS
    w1 = w1
    w2 = w2
    Workers <- MCWorkers
    ProgLength = 3
    CallerResets = FALSE
    DoReset = TRUE
INVARIANTS
    InTimeIsFull
PROPERTIES
    SleepReturns
