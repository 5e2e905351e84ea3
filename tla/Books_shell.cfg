SPECIFICATION Spec
CONSTANTS
  v1 = v1
  v2 = v2
  Same = same
  c1 = c1
  c2 = c2
  Unset = unset
  Codes <- NoCodes
  Values <- MCValues
  FirstTexts <- MCFirstTexts
  MaxLedgers = 2
  MaxActions = 4
  Mixes <- ShellMixes
INVARIANT NoOrphanInShell
CHECK_DEADLOCK FALSE
