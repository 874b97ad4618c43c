SPECIFICATION FairSpec
CONSTANTS
    MaxSegments = 3
    MaxRecords = 4
    MayPause = FALSE
INVARIANTS
    TypeOK
    AcknowledgedIsKept
    ClaimsAreTrue
PROPERTIES
    EvidenceIsForGood
    AbandonedIsPublished
CHECK_DEADLOCK FALSE
