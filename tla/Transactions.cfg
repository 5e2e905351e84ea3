SPECIFICATION Spec
CONSTANTS
  People <- MCPeople
  Offers <- MCOffers
  Times = {1, 2}
  MaxRows = 3
  PageSize = 1
INVARIANTS TypeOK BooksBalance SharesFair SuggestionsSettle WalkShowsOnce WalkSkipsNothing NeverStranded
PROPERTIES OverpaymentNoticed
CHECK_DEADLOCK FALSE
