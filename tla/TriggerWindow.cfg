SPECIFICATION Spec
CONSTANTS
    Stamp <- MCStamp
    What <- MCWhat
INVARIANTS
    BuyingIntentOpens
    RepeatBonusNeverDecides
PROPERTY OnlyARunCloses
CHECK_DEADLOCK FALSE
