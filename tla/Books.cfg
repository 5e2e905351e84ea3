SPECIFICATION Spec
CONSTANTS
  v1 = v1
  v2 = v2
  Same = same
  c1 = c1
  c2 = c2
  Unset = unset
  Codes <- MCCodes
  Values <- MCValues
  FirstTexts <- MCFirstTexts
  MaxLedgers = 3
  MaxActions = 5
  Mixes <- AllMixes
INVARIANTS TypeOK ActiveLedgerOpen ArchivedExplained VisibilityDerived EditMarkDerived
           FieldFollowsItsOnlyEdit SettingFollowsItsOnlyFlip
PROPERTY ReopeningDoesNotActivate
CHECK_DEADLOCK FALSE
