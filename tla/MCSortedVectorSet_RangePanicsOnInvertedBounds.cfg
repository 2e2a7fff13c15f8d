CONSTANTS
    SetIds <- MCSetIds
    Keys <- MCKeys
    Vals <- MCVals
    MaxBatch <- MCMaxBatch

SPECIFICATION Spec

VIEW StateView

PROPERTY RangePanicsOnInvertedBounds
