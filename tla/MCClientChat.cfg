CONSTANTS
  MaxSessions = 2
  MaxDiffusions = 2
SPECIFICATION FairSpec
INVARIANTS
  TypeOK
  ChatOuvert
  AfficheurOuvert
  AffichageOrdonne
  SansCroisement
  ExitVu
PROPERTIES
  MessageMontre
CHECK_DEADLOCK FALSE
