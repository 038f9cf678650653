CONSTANTS
  Appelants = {a, b}
  Pseudos = {p, q}
  Mdps = {m, n}
  Aucun = Aucun
  Fichiers = {f1, f2, f3, f4}
SPECIFICATION Spec
SYMMETRY Symetrie
INVARIANTS
  ComptesEnregistres
CHECK_DEADLOCK FALSE
