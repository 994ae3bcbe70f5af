SPECIFICATION Spec
CONSTANTS
    Keys = {k1, k2, k3, k4}
    Limits <- Sizes
    MaxPlans = 6
INVARIANTS WithinLimit OnePlanPerKey 
SYMMETRY KeySymmetry
CHECK_DEADLOCK FALSE
