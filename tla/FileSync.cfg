SPECIFICATION FairSpec
CONSTANT MaxContents = 3
INVARIANTS TypeOK SavedIsOnServer RememberedIsTrue
PROPERTY BadgeEnds
CHECK_DEADLOCK FALSE
