CONSTANTS
  Clients = {a}
  Inscrits = {}
  Personne = Personne
  Pseudos = {p}
  Mdps = {m}
  Vide = Vide
  Sortie = Sortie
  AvecQuitter = {}
  AvecListe = {}
  AvecMessage = {}
  Maladroits = {}
  MAX_UTILISATEURS = 2
  MAX_CLIENTS = 2
  MaxDatagrammes = 1
SPECIFICATION FairSpec
PROPERTIES
  FantomesRetires
CHECK_DEADLOCK FALSE
