CONSTANTS
  Height = 2
  MaxTop = 1
  MaxSeqno = 3
  MaxDeltas = 2
  Tag = {t1, t2}
  None = None
  Late = {"lines"}
SPECIFICATION SpecScreens
PROPERTIES SwitchIsReported
CHECK_DEADLOCK FALSE
