SPECIFICATION MCSpec
CONSTANTS
  Auctions = {1, 2, 3, 4, 5}
  EndTimes = {1, 2}
  Limit = 2
  MaxPage = 2
  Bidders = {me, other}
  Me = me
  MaxBids = 4
  PerPage = 2
  Items <- MCItems
  MaxAmount = 5
  MaxVisits = 2
INVARIANTS CatalogueTypeOK ShownOnce NothingIsMissed AnswersHold SeedIsSound
\* Every auction may have ended and every request be answered.
CHECK_DEADLOCK FALSE
