SPECIFICATION FairSpec
CONSTANTS
    u1 = u1
    u2 = u2
    education = education
    retail = retail
    Users = {u1, u2}
    Codes = {education, retail}
    MaxCrashes = 3
    MaxRollbacks = 1
INVARIANTS RecordedIsWhole RollbackRestores AffiliationKept
PROPERTY EndsUnlessTorn
CHECK_DEADLOCK FALSE
