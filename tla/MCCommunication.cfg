CONSTANTS
  MAX_CLIENTS = 2
  MAX_REQUETES = 3
  Connexions = {e1, r1, r2}
  Ecoutes = {e1}
  Fds <- MCFds
SPECIFICATION FairSpec
INVARIANTS
  TypeOK
  OrdreTotal
  DiffusionComplete
  UneReponse
  EntreesVivantes
PROPERTIES
  InscriptionFinie
  ReponseFinie
CHECK_DEADLOCK FALSE
