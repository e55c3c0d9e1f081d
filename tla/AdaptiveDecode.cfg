SPECIFICATION FairSpec
CONSTANTS
    SelectedCount = 3
    SafeCuts = {1}
    Anchors = {1, 2}
    Slots = {s0, s1}
    First = s0
    MaxAttempts = 2
    MaxShortages = 1
    DecoderReliable = FALSE
INVARIANTS
    RangesConserved
    LeasesAgree
    HandedOnce
    OkCoversAll
PROPERTIES
    Returns
\* The call returns.
CHECK_DEADLOCK FALSE
