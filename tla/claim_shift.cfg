CONSTANTS
    Periods <- EdgePeriods
    Lengths <- EdgeLengths
    OldLengths = {9}
    max_vector_size = 2
    Frequencies = {0}
    MaxRequests = 2
    MaxFaults = 0
SPECIFICATION Spec
INVARIANT LengthChecked
