SPECIFICATION Spec
CONSTANTS
  ann = ann
  sam = sam
  samuel = samuel
  theSam = theSam
  e1 = e1
  e2 = e2
  People <- MCPeople
  Names <- MCNames
  Bears <- MCBears
  Expenses <- MCExpenses
  Words = theDinner
  Taps = {t1, t2}
  Wordings <- MCWordings
SYMMETRY Interchangeable
INVARIANT CommitsWhatWasShown
CHECK_DEADLOCK FALSE
