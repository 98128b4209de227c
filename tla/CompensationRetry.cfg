SPECIFICATION CompSpec
CONSTANTS
    CompCalls = {r1, r2}
    CompKeys = {i1}
    Bodies = {b1}
    NoCompCall = NoCompCall
    MaxBuilt = 3
    MaxCompFaults = 1
CHECK_DEADLOCK FALSE
INVARIANT ReusedMeansDifferent
