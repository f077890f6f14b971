\* The main of src/Cpu: nobody clears the interrupt between two runs.
SPECIFICATION Spec
CONSTANTS
    w1 = w1
    w2 = w2
    Workers <- MCWorkers
    ProgLength = 3
    CallerResets = FALSE
    DoReset = FALSE
INVARIANTS
    OnlyOverdueIsCut
