\* Four messages, two of them of one conversation, a list of two.
CONSTANTS
  Messages = {1, 2, 3, 4}
  From <- MCFrom
  To <- MCTo
  Known = {1, 2, 3}
  PerMilli = 2
  ListLimit = 2
  MaxTime = 2
  MaxFailures = 1
SPECIFICATION Spec
INVARIANTS TypeOK RowIsNewest SidesAgree
PROPERTY MostRecentFirst
