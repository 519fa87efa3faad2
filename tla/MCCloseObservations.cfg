SPECIFICATION Spec
CONSTANTS
    MaxCycle = 2
    MaxFlips = 2
    ConfirmingReads = 2
CHECK_DEADLOCK FALSE
INVARIANTS
    TypeOK
    EndedByItsOwnClose
    EvidenceIsOfAClose
    MemoIsOfAReading
    PostponedReadingIsOld
PROPERTIES
    HeldReadingStands
