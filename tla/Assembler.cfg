\* Generated lines, labels and odd lines.
SPECIFICATION Spec
CONSTANTS
    WordBytes = 2
    Texts <- MCTexts
CHECK_DEADLOCK FALSE
INVARIANTS
    CodeDoesWhatTextSays
    RegularTextsAssemble
