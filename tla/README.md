# chat-platform: specification, model checking and proofs

TLA+ models of the multi-user chat of this repository: TCP clients, a C server
with a request queue, a request processor started per request, a list of users
in shared memory, a UDP/RMI gateway and an account server. Definitions keep the
(French) names of the source; `PROJECT.json` maps each of them to its lines.

    tlc -workers 2 -config MCFileMessage.cfg MCFileMessage.tla     # a run
    tlapm FileMessageProofs.tla                                    # proofs

## 1. The system

| component | code | state | operations |
|---|---|---|---|
| message queue | `Communication.c`: `FileMessage`, `ClientThread`, `ProcessusRequetes` | `tab_message`, `debut`, `fin`, a mutex, a condition | deposit a request, take the oldest, copy a reply into the array |
| server | `Communication.c` | table `clients`, `mutex_clients`, sockets | accept, register, read a request, remove, broadcast, reply |
| request processor | `Gestion_requete.c` | none of its own; the list of users in shared memory | one process per request: connect, create, disconnect, delete, list, quit; gives up after 3 s |
| gateway | `ClientRMI.java` | one UDP socket | one datagram after another, each an RMI call |
| accounts | `GestionComptes.java` | `listeComptes.txt` | create, delete, check |
| client | `Client_chat.c` | `etat_co`, name and password, two sockets | menu, request and reply (`ThreadPrincipal`); listen and show (`ThreadEcoute`, pipe, `Afficheur_message.c`) |
| central part | `Main.c` | two children, the shared memory | start, `exit`, Ctrl+C |

**How they interact.** A client opens a fresh TCP connection per request, and
one more, for its whole life, on which it only listens. The server starts one
`ClientThread` per connection; it registers the socket in `clients`, waits for
one message, puts it into the queue and ends. `ProcessusRequetes`, a single
thread, takes the requests one by one: a `MESSAGE` is written to every socket of
the table; for anything else it runs `Gestion_requete` with `system()` and
writes its exit status (or the list of users) to the client. `Gestion_requete`
changes the list of users, and asks the gateway by UDP for everything that
concerns accounts. The gateway answers to the port of the process that asked.

**What is hard here.** Client threads against the treating thread on the queue,
with two copies into the array outside the mutex; an index that wraps round and
may catch up with the other; a table that is changed while a broadcast goes
through it; descriptor numbers that are closed before their entry is removed,
and given again; replies and broadcasts on one socket; a timeout that races the
gateway's answer; a gateway that dies; clients that are killed. The hazards,
each with its line and the properties aimed at it, are in `PROJECT.json`.

**What makes each component correct.**

* queue: first come first served, each request served at most once, no request
  lost but in an overflow, nobody waits for ever (`PremierArrivePremierServi`,
  `Conservation`, `AttenteFinie`), damage by copied replies is confined
  (`ListeEnTete`, `ImplementeFileSequentielle`);
* server: broadcasts complete and in one order, replies to whom they belong,
  no dead entries, the table never locked for ever;
* request processing: client and list of users agree, nobody is connected who
  was not authenticated, whoever waits is answered; all of it but for the word
  QUITTER in a name or password and for a queue that overflows;
* accounts: a set with unique names that no call and no crash loses
  (`CreationsDurables`, `ImplementeICompte`), which holds as long as deletions
  meet nothing, and not beyond (`ComptesEnregistres`);
* client display: an open chat has an open file and a reader on it, messages are
  shown in their order and replies whole, the reader ends with the connection;
* central part: each Main has its own shared memory and removes it, no child
  outlives it, `exit` and Ctrl+C come to an end.

## 2. The modules

| module | models | relation |
|---|---|---|
| `FileSequentielle` | what the queue promises: a sequence | abstract specification |
| `FileMessage` | the circular array with its threads, step by step | implements `FileSequentielle` |
| `Communication` | connections, table, broadcast, replies | composed with `FileSequentielle` as its queue |
| `GestionRequete` | a request from the client's menu to the account and back | the queue as a sequence |
| `ICompte` | what the account server promises: a set of accounts | abstract specification |
| `GestionComptes` | its calls on the file, step by step | implements `ICompte` while no deletion overlaps another call |
| `ClientChat` | the two threads of one client, its "pipe" and readers | replies and broadcasts come from outside |
| `Centrale` | `Main` and its two children, signals, shared memory | the children's inside is in the other modules |
| `FileSequentielleProofs`, `FileMessageProofs`, `CommunicationProofs`, `CommunicationInvariants`, `GestionRequeteProofs`, `GestionComptesProofs`, `ClientChatProofs`, `CentraleProofs` | theorems | extend the above |
| `MC*` | symmetry sets and small definitions for TLC | extend the above |

### FileSequentielle and FileMessage

`FileMessage` has one variable per field of the C structure, plus where each
thread is (`thread`, `proc`), the local copy `requete` and `iFin`, the value of
`file->fin` that was read before a copy. A deposit is two steps under the mutex
(`CopierRequete`, `Publier`), because the copies of line 231 and 235 do not take
the mutex and fall between them; a withdrawal is one step (`Prendre`).
`CopierListe` is line 231, `LireFin` and `CopierCode` are line 235.
`pthread_cond_wait` may return without a signal (`ReveilSansSignal`).

`FileSequentielle` says what this amounts to. Its waiting requests are a
sequence `attente`; two of its actions are unusual and both are the code's:
`Deborder`, a deposit that brings the number of requests to `MAX_CLIENTS`, loses
them all (`debut = fin` means empty), and `Achever`, the end of a treatment, may
replace the text of one waiting request. The refinement maps `attente` to the
slots between `debut` and `fin`, the slot of a critical section included.

Histories (`servies`, `rang`, `depots`, `debordements`, `recents`) record what
happened; no guard of the code's steps reads them. Each socket deposits once,
as each `ClientThread` does.

### Communication

A connection is a model value, the server only knows its descriptor `numero`,
the lowest free one. `ouvert` is the server's end, `pair` the client's. `flux`
is what each client was sent. `fil` is where its `ClientThread` is: between
`LireFin` (the socket is closed) and `SupprimerClient` (its entry is removed)
the number may be given to another connection. A broadcast holds
`mutex_clients` and writes to one entry per step, so that threads wait for the
mutex, sockets close and clients leave during it. What `Gestion_requete`
computes is left out: a reply is known by the request it answers. The queue is
that of `FileSequentielle`: its actions are conjuncts of those of the server, so
that what it promises holds of the server by construction (`OrdreEtComptes`). A write to a
connection whose client has gone may or may not fail, as with TCP; `SIGPIPE` is
ignored by the code. Writes never block in the model.

A client's send and the thread's read and deposit are one step, and the socket
of a served request is never closed, as in the code.

### GestionRequete

`etat` is the menu or the operation whose reply a client awaits, `etat_co` its
belief. What is done for a request is its `Branche`: `Gestion_requete` looks for
the words QUITTER, LISTEUTILISATEUR and MESSAGE anywhere in the text
(`strstr`), so that a name or password that contains one of them decides, in
this order, and not the operation. A CONNEXION with a password that contains
QUITTER removes the entry of its name and is answered "0". `AvecQuitter`,
`AvecListe` and `AvecMessage` are the names and passwords that contain the words. `courant` is the request for which `Gestion_requete` awaits the gateway;
a request that needs no gateway is treated in one step. `recu` is the gateway's
answer before it is read, `udp` what the gateway has to read, each datagram with
whether its sender still lives. The timeout may fire at any time until the
answer is read. Actions of the clients are the menu choices, Ctrl+C, and the
reading of a reply or of a broadcast that arrived on the request socket. The
queue overflows as in `FileMessage`: the deposit that fills it loses all that
wait (`Deposer`), and `perdus` remembers whose requests these were.
`trompes` are names of which the list may have lost an entry that is still
believed in: a broadcast was taken for the reply to a request to leave, or a
first request for a request to leave.
The account server is three atomic operations here, each of which may fail with
a `RemoteException` before or after it took effect: a gateway has one call at a
time, and the calls that its end leaves running are the matter of
`GestionComptes`.

Abstractions: a name is a member of `Pseudos`, never the word `SORTIE`, which a
client without account sends as its name when it quits; names and passwords are
one word for the shell that starts `Gestion_requete` (the client refuses `_`,
but neither blanks nor quotes); a name is not empty, no exit status, and none of
the operations that go to the gateway, as a list of users that is copied over a
request is then no request. Names that contain one of the three words never get
into the list. The
ephemeral port of a process that ended is not given to another one while an
answer to it is under way. Which waiting request a reply is copied over is any.
Datagrams are lost only if the gateway is dead or its buffer full.

### ICompte and GestionComptes

RMI runs every call in a thread of its own and the code takes no lock. Calls
overlap when two gateways run (the server does not belong to one of them), or
when a gateway ends during a call and a new one calls. `appel[a]` is a record:
operation, account, the step reached, the files it has open (`lu`, `ecrit`), the
lines in its `BufferedWriter` (`tampon`) and its result.

What makes the code delicate is in three places. The names `listeComptes.txt`
and `tempFile.txt` (`nom`) are apart from the files (`contenu`), so that a call
goes on reading or writing a file that was deleted or renamed. `Copier` only
fills the buffer: `delete` and `renameTo` come before the `try` block closes the
writer, so `Fermer` writes into what is `listeComptes.txt` by then, at its start
and over what a creation may have appended (lines are all of one length in the
model). And the results of `delete` and `renameTo` are not looked at. `Panne`
stops the process at any step: what is in buffers is gone, files stay. A line is
one account, which takes names without a comma (nothing refuses one). A missing
file is the only `IOException`.

Three histories qualify the promises: `risque` (a deletion has overlapped
another call or was cut by a crash), `chevauche` (a deletion overlapped another
call, or two creations of one name did) and `acquis` (accounts that must be
there). `CreationsDurables` is promised without `risque`; `ICompte` is
implemented as long as there was no `chevauche`; its `Panne` admits that a crash
during a deletion loses everything, which is what the code does and
`ComptesEnregistres` exposes. The run's constraint `Utile` leaves out states in
which both histories are true: neither is ever reset, and the two properties say
nothing there or later (`TypeOK` is checked up to there).

### ClientChat

One client process, whose two threads share `openChat`, `pipe_fd` and the hidden
position of `strtok` without a lock. `strtok(s)` is a step, `strtok(NULL)` two
(read the position, then move it), because another call may come in between.
The other parts of a request (`ResteRequete`) are kept only while `ThreadEcoute`
is about to call `strtok(NULL)`, which alone could ask for them.

The reply to LISTEUTILISATEUR is one of `Listes`: two names, or what the code
shows as a list as well, a code (one part) or a broadcast that was read in its
place (two). "2" and "4", and an empty reply, are shown by nobody as a list.
Broadcasts come in any groups (`LireDiffusions`), without anything between them:
of two that are read at once the first is `Colle`, its text with the first word
of the second behind it, and the second is never asked for.

The "pipe" is an ordinary file: `fichiers` are its texts, `pos` the offset of
`pipe_fd`, which `ftruncate` does not move, so that a later write leaves a hole
(`Trou`), and a file may outlive its name. One `Afficheur_message` per
connection of the user opens whatever has the name when its terminal has
started, reads from its own offset, any number of texts at once, and looks at the
first only. `fork` succeeds whatever becomes of the terminal: it may never start,
or its window may be closed (`PerdreAfficheur`), and the client goes on. Of
windows only that of the present connection is closed. The end of the process, by `Sortir`, a write to a closed file or a NULL pointer, leaves file and
readers behind.

Abstractions: broadcasts are distinct and without `_`, a text is shorter than
the reader's buffer and reaches a reader whole (a broadcast that TCP delivers in
two pieces is not modelled), the list of users in a reply has two names, a
request is one text in front and two behind its first `_`. `sleep(1)` promises
nothing.

Histories name what may go wrong: `croise` (the threads' cuts overlapped),
`presses` (the file was emptied before its reader was through), `sautes` (what a
reader found behind another text). The properties say what holds without them;
a lost window is the state `perdu` of its reader.

### Centrale

Each element of `Mains` is one run of `Main`, all with the same port and hence
the same key; `main[m]` is its place, `com[m]` and `rmi[m]` its children: forked,
started (`lance`), serving (`actif`), in `system()`, dead, or waited for.
`interrompu` tells that it is in `gestionnaireSignal`. Three facts of the system
calls carry the module: `system()` ignores SIGINT, `wait(NULL)` takes whichever
child ended, and a child that has not executed its program yet still has Main's
handler, with `pid_communication` 0, so that it signals the group and removes the
memory. Ctrl+C comes at any time and any number of times, Main may be killed,
children may die or fail to get their port.

A signal reaches all processes of the group in one step. Left out: failures of
`fork` and `shmat`, process numbers that are given again, signals sent by anybody
else.

## 3. The runs

| run | instance | shows |
|---|---|---|
| `file` | 3 slots, 4 sockets | all properties of the queue; `FileMessage` implements `FileSequentielle` |
| `file_texte` | same | **violation**: a request is served with a reply's text |
| `file_pleine` | same | **violation**: the server sleeps while all slots hold requests |
| `communication` | table of 2, queue of 3, one listening and two requesting connections | broadcasts, replies, table, liveness |
| `comm_reponse` | same | **violation**: a broadcast is read instead of the reply |
| `comm_ecoute` | same | **violation**: a listening client is left out of a full table |
| `gestion_requete` | 2 clients, 1 name, 3 passwords of which one contains QUITTER and one MESSAGE, a list of 2, a queue of 2 | belief and list agree, authentication, every wait ends |
| `fantomes` | 1 client | **violation**: Ctrl+C leaves the name in the list for ever |
| `comptes` | 2 calls at a time, 2 names, 2 passwords, 4 files | accounts are unique and kept; `GestionComptes` implements `ICompte` |
| `comptes_perdus` | same | **violation**: a deletion loses accounts it has nothing to do with |
| `centrale` | 2 runs of Main on one port | shared memory, children, end by `exit` and Ctrl+C |
| `client` | 2 connections, 2 broadcasts | open chat, order shown, replies shown whole, end of the readers, shown messages |

The violations are disagreements between the code and its own comments or the
README, quoted in `PROJECT.json` under `findings`.

**Bounds and why they are enough.** Three slots and four sockets: the indices
wrap round, the array overflows (three deposits without a withdrawal) and one
more request follows; a socket deposits once. Table of two and three
connections: the table overflows, two requests wait (`MAX_REQUETES = 3`; the
code has one constant for both sizes, and a queue of two would lose its second
request at once; the overflow of the queue itself is the matter of `file`), a descriptor is closed and given again, a
broadcast meets a departure and an arrival. `GestionRequete` takes two clients
of the same name, the case in which removing "the first entry with this name"
could hurt the other; a client that is started again is another member of
`Clients`, so that one of the two may be the restart of the other. Only one of
them (`Inscrits`) has its request socket in the server's table. The list of two
overflows through entries of clients that are gone. The gateway's buffer holds
one datagram, so that a late request fills it and a later one is lost. With
`MAX_CLIENTS = 2` a request waits while another is treated, and can be
overwritten; the second that waits overflows the queue. Only one client
(`Maladroits`) types the passwords with a word in them, the other one shows what
this does to somebody else of the same name. QUITTER and MESSAGE are in
passwords, which take all branches that a name would; `AvecListe` is empty, as
its branch is taken by the operation LISTEUTILISATEUR too and its code is a
failure to every other operation, like that of MESSAGE. The proofs have all of
them.

`comptes`: two calls are what it takes for each of the overlaps; a caller may
call again, so that a third one meets what they left. Two names and passwords
give accounts that share a name, a password or nothing; four files are two named
ones and two that calls still hold. `centrale`: two runs, so that the second
finds memory and port of the first; a run that is started after a killed one is
again the second. `client`: with two connections of the user, the file, the
reader and the offset of the first meet those of the second; two broadcasts
coalesce, or come to different connections.

**Deadlock** is not checked: the instances have finitely many connections,
clients, broadcasts or runs of Main, and stop when all of them have gone.
`Centrale` waits for ever in `wait(NULL)` when the code does, and `CtrlCFinit`
and `ExitFinit` say when it does not. In `GestionComptes` a crash is always
possible, so that nothing ever stops there.

**Fairness.** `FileMessage`: a client thread leaves its critical section, and
`ProcessusRequetes` goes round its loop; nothing obliges a client to send or the
condition to wake up alone. `Communication`: the threads that can run do run.
`GestionRequete`: the loop, the alarm and the clients' reading; nothing is
assumed of the gateway, which may be slow for ever. All of it is weak fairness,
what a scheduler gives a runnable thread; a thread that waits for
`mutex_clients` gets it in `Communication` because the broadcast between two
steps of other threads ends, and each connection asks at most twice. `Centrale`:
a Main that has begun to end takes its next step when it can; nothing obliges a
child to answer, to start or to leave `system()`. `ClientChat`: `ThreadEcoute`
and the readers are one fair action: as long as one of them can do something,
one of them does (this is weaker than fairness of each, and enough, as each soon
waits for the others). The user need not choose anything, no window need be
closed, the server need not send anything. `GestionComptes` has no liveness property.

**Mutants.** Every property of a passing run has a faulty variant of one mapped
definition (in the modules under "Faulty variant"), a bug that is easily made
there, with which TLC finds the property violated.

## 4. What is proved

Every safety property of a passing run is a theorem, and so are both
refinements. The theorems hold for every value of the
constants: any number of slots, sockets, connections, clients, names, calls,
files and runs of `Main`, even infinitely many of those the code does not count.
Each module has at most one assumption, a named `ASSUME`: sizes
are natural numbers, those of buffers positive; a value that stands for nobody
is nobody's; and in `GestionComptesAssumption` there are finitely many names,
since the account list with which the server starts is a file with one line per
name at most.

* `FileSequentielleProofs`: the inductive invariant `IInv` is the type
  invariant, `Rangs` (who waits has deposited, no rank exceeds the number of
  deposits), the order, the account and the place of an overwritten text. Order
  alone is not inductive: a deposit appends a request, and only `Rangs` says
  that its rank is above those that wait. One lemma per action; then
  `InvarianceFile`, `OrdreFile`, `ConservationFile`, `ListeFile`.
* `FileMessageProofs`: its `IInv` is the type invariant with `Sections` (the
  mutex is held exactly by the thread in its critical section), `Dates`,
  `Arrivees`, `Courante` and `Copie`. They say what the unprotected copy needs: the slot `iFin`
  that `ProcessusRequetes` read is, when it is written, either free or that of a
  request that arrived since, so that the copy is an `Achever` of the sequence.
  `TypeCorrect` states that the indices stay in the array, `Raffinement` that
  the array implements the sequence; `Ordre`, `Comptes` and `ListeSurLaSuivante`
  carry the properties of the sequence over to the array.
* `CommunicationProofs`: every action of the server is a step of the sequence or
  leaves it alone, as the module is composed, so that order and account hold of
  the server too (`OrdreEtComptes`).
* `CentraleProofs`: for every number of runs of Main on one port. `IInv` is the
  type invariant (which says that a port has one server) with `SegmentDuMain`,
  `ServeurArrete` and two conjuncts that neither implies. `Rendu`: whose memory
  exists, Main is before its end or was killed, and until `Detacher` has it
  attached; without it a failing `Detacher` or `Supprimer` could leave the
  memory. `Ferme`: from the first wait on one child has been waited for, whoever
  was signalled is dead or was deaf, and a Main has had a gateway; without it the
  second `wait(NULL)` could return because of the wrong child. Three lemmas show
  that a step preserves the types, the memory and the children, one case per
  action, the signal to the group (`Groupe`) being shared by three of them.
  `RienNeReste` follows from `Rendu` although `MemoireRendue` is no conjunct.

* `CommunicationInvariants`: neither `OrdreTotal` nor `UneReponse` is inductive.
  `Descripteurs` says which threads still hold an open socket, and that open
  sockets have distinct numbers, so that the number of a treated request still is
  its client's. `Recus` says that what a client was sent is of requests already
  taken, and of the one under treatment only by a broadcast; what
  `FileSequentielle` proves of the ranks then gives the order. `Table` counts: as
  many entries of a number as connections (`Porteurs`) that registered it and
  hold it or have yet to remove it. `EntreesVivantes` follows from it, and needs
  that only finitely many connections have come so far, which is an invariant
  and not an assumption.
* `GestionRequeteProofs`: `SuccesVrai` needs `Demandes` (a client has at most one
  request, and it is the one whose reply it awaits unless it was overwritten) and
  `Questions` (at most one datagram is of the request under treatment, and an
  answer that was received is of that request and true). `CroyantsListes` is a
  count and not inductive: a departure that a killed client left behind still
  removes an entry later, perhaps that of another client of the name. `Compte` is
  the inequality that survives this: clients with an entry (`Tenants`, those whose
  success is under way included) plus orphaned departures are at most the
  entries. The lemmas on `Positions` say how such counts change when a sequence
  grows, loses an element or has texts overwritten; `FinDeTraitement` is shared by
  all ends of a treatment. A deposit that overflows only takes requests away,
  and clients whose request was lost are in `perdus`; a first request that is
  treated as a departure puts its name among `trompes`, of which the count says
  nothing.
* `GestionComptesProofs`: what a call knows of itself (`Coherent`) holds always;
  what it knows of the files (`Fidele`: the list it reads is still the one with
  the name, its copy is empty until it closes it, its buffer is the list without
  its account) holds while no deletion has met another call (`Tranquille`), as a
  deletion is alone then (`Seule`). `NomLibre` keeps names unique, `AcquisLa` keeps
  accounts. `EffetComptes` says of every step what it does to the set of accounts:
  only the last step of a creation and the last of a deletion change it, although
  the file is absent or empty in between; `Implementation` follows step by
  step. The loop that copies the list is the recursive
  function `Sauf`, whose effect (`SaufEffet`) is proved for every list with an
  induction written out over a set of numbers (`Recurrence`).
* `ClientChatProofs`: `Etapes` ties the flags, the descriptor and the name of the
  file to the step of `ThreadPrincipal`; `Lecteurs` and `Fins` say where the readers
  are: not past the offset of the present file, and past an "exit" only with a
  reason. For the order, `Curseur` says what strtok's shared position is while the
  threads have not met there; `Ordres` puts what was shown, what is in the files
  and the broadcast that is being passed on (`Prochain`) in one row.

**Only model-checked**: liveness, which needs fairness and is out of the
prover's reach: `AttenteFinie`, `InscriptionFinie`, both `ReponseFinie`,
`CtrlCFinit`, `ExitFinit` and `MessageMontre`. The runs that end in a violation
have nothing to prove. TLC checked the inductive invariants on the instances of
the runs before they were proved.

## 5. Not modelled, and the plan

Not modelled: argument and start-up errors, failures of `shmget` other than an
existing key, of `malloc`, `fork` and thread creation, the text of menus and
logs, what is typed wrongly there, truncation of long texts.

Hazards of the code that no property covers; `PROJECT.json` says why:

* `Communication.c:207`, a write that blocks on a client whose user sits at the
  menu: its request socket is in the table and nobody reads it. The write of the
  model never blocks. A permanent block takes a client at its menu, a buffer
  full of broadcasts and a further sender: four connections and as many
  broadcasts as fill the buffer, out of reach of `Communication`'s run.
* `Communication.c:300`, descriptors of answered requests are never closed.
  `UneReponse` relies on that leak (its mutant closes them).
* `GestionComptes.java:66`, a deletion that is carried out after its client was
  told that it timed out.
* `Client_chat.c:389`, broadcasts dropped because they came in one read of the
  listening socket.

Others are in the models and end what a property promises, through a history
or a condition that names them: two creations of one name at once
(`GestionComptes.java:34`, `chevauche`), a signal between two steps of the
start or of the end of Main (`Main.c:118`, `coupe`) or before a child's exec
(`Main.c:68`), crossing cuts (`Client_chat.c:390`, `croise`), a reader that is
too slow (`Client_chat.c:464`, `presses`) or reads several texts at once
(`Afficheur_message.c:19`, `sautes`), a server that is gone
(`Client_chat.c:392`), a close between a test and a write (`Client_chat.c:391`),
the word QUITTER in a name or password (`Gestion_requete.c:235`).

Two lesser ones: Ctrl+C leaves the client's file and its reader
(`Client_chat.c:59`), and of two equal messages in a row the second is not shown
if the reader did not meet the end of the file between them, which makes it
forget the first (`Afficheur_message.c:25`).

Two behaviours contradict the README of the repository and have no run of
their own, as the properties of the passing runs already state what holds instead:
a client may die while it disconnects (`src/README.md:126`; `ChatOuvert` says
when it cannot), `exit` and Ctrl+C may leave a deaf server or wait for ever
(`src/README.md:131`; `ExitFinit`, `CtrlCFinit`, `ServeurArrete`).

Next: what the proofs now allow to state without a bound. The composition of
the guarantees, that a client that reads "0" for its `CREERCOMPTE` finds the account later
(`SuccesVrai` with `CreationsDurables`), and of `GestionRequete`'s queue with
`FileSequentielle`, whose overwritten texts it takes more liberally.
