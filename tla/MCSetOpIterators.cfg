CONSTANTS
    Keys <- MCKeys
    Vals <- MCVals
    MaxBatch <- MCMaxBatch
    MaxUsize <- MCMaxUsize

SPECIFICATION Spec

INVARIANT SizeHintSound
INVARIANT YieldsOperation
