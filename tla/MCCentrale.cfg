CONSTANTS
  Mains = {m1, m2}
  Personne = Personne
SPECIFICATION FairSpec
INVARIANTS
  TypeOK
  SegmentDuMain
  MemoireRendue
  ServeurArrete
PROPERTIES
  CtrlCFinit
  ExitFinit
CHECK_DEADLOCK FALSE
