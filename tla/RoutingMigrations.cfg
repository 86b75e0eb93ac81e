SPECIFICATION Spec
CONSTANTS
  MaxTerms = 2
  Tickets = {t1}
  Null = Null
INVARIANT TypeOK
INVARIANT RestoredIsRouted
INVARIANT LocalIsFirstBest
