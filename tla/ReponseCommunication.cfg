CONSTANTS
  MAX_CLIENTS = 2
  MAX_REQUETES = 3
  Connexions = {e1, r1, r2}
  Ecoutes = {e1}
  Fds <- MCFds
SPECIFICATION Spec
SYMMETRY Symetrie
INVARIANTS
  ReponseAttendue
CHECK_DEADLOCK FALSE
