CONSTANTS
  Clients = {a, b}
  Inscrits = {a}
  Personne = Personne
  Pseudos = {p}
  Mdps = {m, mQuitter, mMessage}
  Vide = Vide
  Sortie = Sortie
  AvecQuitter = {mQuitter}
  AvecListe = {}
  AvecMessage = {mMessage}
  Maladroits = {b}
  MAX_UTILISATEURS = 2
  MAX_CLIENTS = 2
  MaxDatagrammes = 1
SPECIFICATION FairSpec
INVARIANTS
  TypeOK
  CroyantsListes
  SuccesVrai
PROPERTIES
  ReponseFinie
CHECK_DEADLOCK FALSE
