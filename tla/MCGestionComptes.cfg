CONSTANTS
  Appelants = {a, b}
  Pseudos = {p, q}
  Mdps = {m, n}
  Aucun = Aucun
  Fichiers = {f1, f2, f3, f4}
SPECIFICATION Spec
SYMMETRY Symetrie
CONSTRAINT Utile
INVARIANTS
  TypeOK
  CreationsDurables
PROPERTIES
  ImplementeICompte
CHECK_DEADLOCK FALSE
