CONSTANTS
    Periods <- EdgePeriods
    Lengths <- EdgeLengths
    OldLengths = {}
    max_vector_size = 2
    Frequencies = {0, 12000000}
    MaxRequests = 3
    MaxFaults = 1
SPECIFICATION Spec
INVARIANTS TypeOK TckTruthful NeverLosesItsPlace
PROPERTIES ImplementsService
