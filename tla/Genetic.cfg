\* Four species, two of them elite, for one generation.
SPECIFICATION Spec
CONSTANTS
    a = a
    b = b
    Genes <- MCGenes
    RandomDna <- MCRandomDna
    WordBytes = 1
    registerCount = 2
    Expected <- MCExpected
    Result <- MCResult
    Samples = 2
    maxSpecies = 4
    tournamentK = 2
    generations = 1
    MaxLength = 3
CHECK_DEADLOCK FALSE
INVARIANTS
    NeverEmpty
    EliteBreedsUnchanged
    HighElitePersists
    PerfectEndsTraining
