CONSTANTS
  Height = 2
  MaxTop = 1
  MaxSeqno = 2
  MaxDeltas = 2
  Tag = {t1, t2}
  None = None
  Late = {"lines"}
SPECIFICATION FairSpec
INVARIANTS TypeOK StaleIsKnown FetchesAreAnswered
PROPERTIES  Converges
CHECK_DEADLOCK FALSE
