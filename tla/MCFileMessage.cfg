CONSTANTS
  MAX_CLIENTS = 3
  Sockets = {s1, s2, s3, s4}
  Nul = Nul
SPECIFICATION FairSpec
INVARIANTS
  TypeOK
  PremierArrivePremierServi
  Conservation
  ListeEnTete
PROPERTIES
  ImplementeFileSequentielle
  AttenteFinie
CHECK_DEADLOCK FALSE
