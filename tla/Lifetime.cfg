CONSTANTS
  Thread = {t1, t2, t3}
  NMatches = 2
  MaxDbRefs = 2
  Database = Database
SPECIFICATION LifeSpec
INVARIANTS
  LifeTypeOK
  MatchRefsExact
  WholeWhileReferenced
  CopiesOutlive
  OneDestroyer
  NothingLeaks
PROPERTIES
  EventuallyFreed
  ImplementsRegistry
CHECK_DEADLOCK FALSE
