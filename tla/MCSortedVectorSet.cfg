CONSTANTS
    SetIds <- MCSetIds
    Keys <- MCKeys
    Vals <- MCVals
    MaxBatch <- MCMaxBatch

SPECIFICATION Spec

VIEW StateView

INVARIANT TypeOK
INVARIANT SortedUnique

PROPERTY Refinement
PROPERTY QueryAnswers
