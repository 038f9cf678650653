CONSTANTS
  MAX_CLIENTS = 3
  Sockets = {s1, s2, s3, s4}
  Nul = Nul
SPECIFICATION Spec
SYMMETRY Symetrie
INVARIANTS
  RequeteIntacte
CHECK_DEADLOCK FALSE
