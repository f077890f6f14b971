\* Genetic.h's getResult: reset() by the caller before every run.
SPECIFICATION FairSpec
CONSTANTS
    w1 = w1
    w2 = w2
    Workers <- MCWorkers
    ProgLength = 3
    CallerResets = TRUE
    DoReset = FALSE
INVARIANTS
    DisjointAccess
PROPERTIES
    PromiseSpec
