\* Texts of five to ten parts.
CONSTANTS
    Parts <- MCParts
    MaxParts <- MCMaxParts
SPECIFICATION MessageSpec
CHECK_DEADLOCK FALSE
INVARIANTS
    QueryIsItsPairs
    AttributesAreParsed
    ServerReadsRequest
    ClientReadsResponse
    ContentIsDelimited
    HeaderEndsAtEmptyLine
