\* Resumed any number of times, every seek landing anywhere.
CONSTANTS
    Strides <- MCStrides
    MaxFrames = 20
SPECIFICATION Spec
INVARIANTS
    TypeOK
    TakenExact
    CountAsExpected
    ResumeSlotIsFirst
