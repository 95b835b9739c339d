SPECIFICATION StampSpec
CONSTANTS
    Moments <- Until2038
    Later <- June2020
INVARIANTS
    ChangesAreNoticed
    RefusedOnlyForChanges
