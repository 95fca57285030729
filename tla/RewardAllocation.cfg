SPECIFICATION Spec
CONSTANTS
    EpsInv = 1000
    Default <- MCDefault
    Inputs <- MCInputs
INVARIANT SelectedIsNeverExpired
INVARIANT StatusAgreesWithPercent
INVARIANT ExtraProofsDoNotMatter
INVARIANT AllocationIsBounded
CHECK_DEADLOCK FALSE
