------------------------------ MODULE ClientFile ------------------------------
(***************************************************************************)
(* The clients known here: imported from Karbon                            *)
(* (packages/services/src/client-import-service.ts) by a job that several  *)
(* presses of a button may start, added and corrected by hand              *)
(* (client-directory-service.ts).  Nothing is locked: an import reads      *)
(* Karbon, then the row, and writes later.  A preview writes nothing and   *)
(* is left out.                                                            *)
(***************************************************************************)
EXTENDS Naturals, FiniteSets

CONSTANTS
  Keys,       \* Karbon keys of clients
  Excluded,   \* those of a contact type the import leaves out
  NoKey,
  Names,      \* legal names; a client's in Karbon is karbonName
  Contacts,   \* Karbon keys of contacts
  Imports,    \* import jobs in flight at once
  Editors,    \* people on a client's page
  MaxClients, \* bound: rows ever made
  MaxEdits,   \* bound: forms opened, imports asked for
  MaxNews,    \* bound: times Karbon changes
  MaxUpsets   \* bound: failed reads and deaths of the worker

ASSUME ClientFileAssumption ==
  /\ NoKey \notin Keys /\ Excluded \subseteq Keys
  /\ {MaxClients, MaxEdits, MaxNews, MaxUpsets} \subseteq Nat

VARIABLES
  karbonName, \* what Karbon calls each client
  book,       \* the contacts Karbon holds for each client
  clients,    \* rows of client
  imports,    \* the import jobs
  editors,    \* what each page shows, or has read
  edits, news, upsets

file == <<karbonName, book, clients, imports, editors, edits, news, upsets>>
vendor == <<karbonName, book, news>>

Upset == upsets < MaxUpsets /\ upsets' = upsets + 1

ClientOf(k) == {c \in clients : c.karbonEntityKey = k}
Known == {c.karbonEntityKey : c \in clients} \ {NoKey}
Store(before, after) == clients' = (clients \ {before}) \union {after}
RowOf(id) == CHOOSE c \in clients : c.clientId = id

(* Client.karbonEntityKey is unique; a legal name is not.                    *)
AddClient(k, legal, mirrored, contacts) ==
  clients' = clients \union
    {[clientId |-> Cardinality(clients) + 1, karbonEntityKey |-> k, legalName |-> legal,
      city |-> IF k = NoKey THEN "typed" ELSE "vendor", karbonFullName |-> mirrored,
      contacts |-> contacts]}

-----------------------------------------------------------------------------
(* A contact is added in Karbon.                                             *)
KarbonNews ==
  /\ news < MaxNews /\ news' = news + 1
  /\ \E k \in Keys, p \in Contacts : p \notin book[k] /\ book' = [book EXCEPT ![k] = @ \union {p}]
  /\ UNCHANGED <<karbonName, clients, imports, editors, edits, upsets>>

-----------------------------------------------------------------------------
(* importClientsFromKarbon: no other may be live, looked up before the job is *)
(* queued.  `told` is what Karbon held of the clients a run found, without    *)
(* those it reports that it could not bring over.                            *)
Off == [at |-> "off", source |-> "CLIENT_LIST", left |-> {}, told |-> {}, key |-> NoKey,
        contacts |-> {}, row |-> {}]
ImportAt(i, place) == imports[i].at = place
ImportTo(i, run) == imports' = [imports EXCEPT ![i] = run]
ImportOnly == UNCHANGED <<vendor, clients, editors, edits, upsets>>

AskImport(i) ==
  /\ imports[i].at \in {"off", "over"} /\ edits < MaxEdits /\ edits' = edits + 1
  /\ \A j \in Imports : imports[j].at \in {"off", "asked", "over"}
  /\ \E source \in {"CLIENT_LIST", "WORK_ITEMS"} :
       ImportTo(i, [Off EXCEPT !.at = "asked", !.source = source])
  /\ UNCHANGED <<vendor, clients, editors, upsets>>

QueueImport(i) ==
  ImportAt(i, "asked") /\ ImportTo(i, [imports[i] EXCEPT !.at = "list"]) /\ ImportOnly

(* fromClientList leaves the excluded types out; fromWorkItems cannot see a   *)
(* type, and finds only those with work.                                     *)
Discover(i) ==
  /\ ImportAt(i, "list")
  /\ \E found \in IF imports[i].source = "CLIENT_LIST" THEN {Keys \ Excluded} ELSE SUBSET Keys :
       ImportTo(i, [imports[i] EXCEPT !.at = "mirror", !.left = found,
                                      !.told = {<<k, book[k]>> : k \in found}])
  /\ ImportOnly

(* refreshKarbonNames, for what the list named.                              *)
Mirror(i) ==
  /\ ImportAt(i, "mirror")
  /\ clients' = {IF imports[i].source = "CLIENT_LIST" /\ c.karbonEntityKey \in imports[i].left
                 THEN [c EXCEPT !.karbonFullName = TRUE] ELSE c : c \in clients}
  /\ ImportTo(i, [imports[i] EXCEPT !.at = "next"])
  /\ UNCHANGED <<vendor, editors, edits, upsets>>

(* As if a client already here needed no reading.                            *)
OnlyNew(i) == imports[i].left \ Known

ToRead(i) == imports[i].left

(* getClient, for one after the other.                                       *)
ReadClient(i) ==
  /\ ImportAt(i, "next")
  /\ \E k \in ToRead(i) :
       ImportTo(i, [imports[i] EXCEPT !.at = "here?", !.left = @ \ {k}, !.key = k, !.contacts = book[k]])
  /\ ImportOnly

Without(told, k) == {t \in told : t[1] # k}

(* One that cannot be read is reported, and the rest go on.                  *)
CannotRead(i) ==
  /\ ImportAt(i, "next") /\ Upset
  /\ \E k \in ToRead(i) : ImportTo(i, [imports[i] EXCEPT !.left = @ \ {k}, !.told = Without(@, k)])
  /\ UNCHANGED <<vendor, clients, editors, edits>>

(* The row with its contacts, if there is one.  Without a name, which work    *)
(* items do not carry either, a new client is reported and not made.         *)
Dealt(i, told) ==
  ImportTo(i, [Off EXCEPT !.at = "next", !.source = imports[i].source, !.left = imports[i].left, !.told = told])

FindClient(i) ==
  /\ ImportAt(i, "here?")
  /\ \/ ImportTo(i, [imports[i] EXCEPT !.at = "write", !.row = ClientOf(imports[i].key)])
     \/ imports[i].source = "WORK_ITEMS" /\ ClientOf(imports[i].key) = {}
        /\ Dealt(i, Without(imports[i].told, imports[i].key))
  /\ ImportOnly

(* backfillFromKarbon: what the row had blank, and the contacts it lacked.    *)
Filled(c, row, contacts) ==
  [c EXCEPT !.city = IF row.city = "blank" THEN "vendor" ELSE @, !.contacts = @ \union contacts]

Backfill(i) ==
  /\ ImportAt(i, "write")
  /\ \E row \in imports[i].row :
       LET c == RowOf(row.clientId) IN Store(c, Filled(c, row, imports[i].contacts))
  /\ Dealt(i, imports[i].told)
  /\ UNCHANGED <<vendor, editors, edits, upsets>>

(* A client somebody else's import made meanwhile ends the run; it is retried *)
(* from the start.                                                           *)
CreateClient(i) ==
  LET k == imports[i].key
  IN  /\ ImportAt(i, "write") /\ imports[i].row = {}
      /\ IF k \in Known THEN ImportTo(i, [Off EXCEPT !.at = "list", !.source = imports[i].source])
                             /\ UNCHANGED clients
         ELSE /\ Cardinality(clients) < MaxClients
              /\ AddClient(k, karbonName[k], imports[i].source = "CLIENT_LIST", imports[i].contacts)
              /\ Dealt(i, imports[i].told)
      /\ UNCHANGED <<vendor, editors, edits, upsets>>

FinishImport(i) ==
  /\ ImportAt(i, "next") /\ ToRead(i) = {}
  /\ ImportTo(i, [imports[i] EXCEPT !.at = "over"])
  /\ ImportOnly

WorkerLost(i) ==
  /\ imports[i].at \notin {"off", "asked", "list", "over"} /\ Upset
  /\ ImportTo(i, [Off EXCEPT !.at = "list", !.source = imports[i].source])
  /\ UNCHANGED <<vendor, clients, editors, edits>>

Importing(i) ==
  \/ AskImport(i) \/ QueueImport(i) \/ Discover(i) \/ Mirror(i) \/ ReadClient(i) \/ CannotRead(i)
  \/ FindClient(i) \/ Backfill(i) \/ CreateClient(i) \/ FinishImport(i) \/ WorkerLost(i)

-----------------------------------------------------------------------------
(* create and update, by hand.  A form carries the whole row as the page      *)
(* showed it.                                                                *)
Closed == [at |-> "closed"]
Editing(e, step) == editors' = [editors EXCEPT ![e] = step]
EditorOnly == UNCHANGED <<vendor, imports, upsets>>

OpenForm(e) ==
  /\ editors[e] = Closed /\ edits < MaxEdits /\ edits' = edits + 1
  /\ \/ \E n \in Names : Editing(e, [at |-> "name?", name |-> n])
     \/ \E c \in clients, how \in {"form", "adopt"} : Editing(e, [at |-> how, row |-> c])
  /\ UNCHANGED clients /\ EditorOnly

FindName(e) ==
  /\ editors[e].at = "name?"
  /\ Editing(e, IF \E c \in clients : c.legalName = editors[e].name THEN Closed
                ELSE [editors[e] EXCEPT !.at = "new"])
  /\ UNCHANGED <<clients, edits>> /\ EditorOnly

AddByHand(e) ==
  /\ editors[e].at = "new" /\ Cardinality(clients) < MaxClients
  /\ AddClient(NoKey, editors[e].name, FALSE, {}) /\ Editing(e, Closed)
  /\ UNCHANGED edits /\ EditorOnly

SaveForm(e) ==
  /\ editors[e].at = "form"
  /\ \E n \in Names, city \in {"blank", "typed", editors[e].row.city} :
       LET c == RowOf(editors[e].row.clientId)
       IN  Store(c, [c EXCEPT !.legalName = n, !.city = city])
  /\ Editing(e, Closed) /\ UNCHANGED edits /\ EditorOnly

(* adoptKarbonLegalName: only if Karbon's name has been read.                *)
AdoptName(e) ==
  /\ editors[e].at = "adopt"
  /\ LET c == RowOf(editors[e].row.clientId)
     IN  IF c.karbonFullName THEN Store(c, [c EXCEPT !.legalName = karbonName[c.karbonEntityKey]])
         ELSE UNCHANGED clients
  /\ Editing(e, Closed) /\ UNCHANGED edits /\ EditorOnly

Correcting(e) == OpenForm(e) \/ FindName(e) \/ AddByHand(e) \/ SaveForm(e) \/ AdoptName(e)

-----------------------------------------------------------------------------
FileInit ==
  /\ karbonName \in [Keys -> Names] /\ book = [k \in Keys |-> {}] /\ news = 0
  /\ clients = {} /\ imports = [i \in Imports |-> Off] /\ editors = [e \in Editors |-> Closed]
  /\ edits = 0 /\ upsets = 0

FileNext ==
  \/ KarbonNews
  \/ \E i \in Imports : Importing(i)
  \/ \E e \in Editors : Correcting(e)

-----------------------------------------------------------------------------
(* run: an import that is over left every client it found, and did not report *)
(* as unread, here with the contacts Karbon had for it then, the clients that *)
(* were here before it included ("The contacts would never have arrived"),    *)
(* whatever another import or a person wrote meanwhile, however often it died. *)
EverybodyArrives ==
  \A i \in Imports : imports[i].at = "over" => \A t \in imports[i].told :
    \E c \in ClientOf(t[1]) : t[2] \subseteq c.contacts
=============================================================================
