-------------------------------- MODULE Intake --------------------------------
(***************************************************************************)
(* How one client's engagements come to be and cease                       *)
(* (packages/services/src/engagement-service.ts): created from a form,     *)
(* rolled forward from a Karbon work item that reaches a configured status *)
(* (apps/worker/src/handlers.ts, POLL_KARBON_TRIGGERS and                  *)
(* ROLL_OVER_ENGAGEMENT, and the webhook route), and deleted.  A rollover  *)
(* is a job under a key of the item and the status; it is run by one       *)
(* worker at a time, may die at any await, and is retried (module          *)
(* JobQueue).  The template of every type is active.                       *)
(***************************************************************************)
EXTENDS Naturals, FiniteSets

CONSTANTS
  Items,        \* Karbon work items of the client
  Triggers,     \* configured statuses
  Types,        \* engagement types
  NeedsYearEnd, \* those whose year-end cannot be guessed
  Forms,        \* requests of people in flight at once
  ThisYear,     \* the current year; years count from 1
  MaxBorn,      \* bound: engagements made
  MaxForms,     \* bound: requests ever made
  MaxRuns,      \* maxAttempts of a rollover job
  MaxMishaps    \* bound: deaths of a process and failed calls to Karbon

ASSUME IntakeAssumption ==
  /\ IsFiniteSet(Triggers) /\ NeedsYearEnd \subseteq Types /\ ThisYear \in Nat \ {0}
  /\ MaxBorn \in Nat /\ MaxForms \in Nat /\ MaxRuns \in Nat \ {0} /\ MaxMishaps \in Nat

VARIABLES
  triggerType, \* the engagement type each trigger is for
  title,       \* the year in each item's title; 0 if deriveTaxYear finds none
  reached,     \* the configured statuses each item passes through
  item,        \* rows of karbon_work_item: unknown, unlinked or linked to the client
  clientKnown, \* the client's Karbon key is known here
  engagements, \* rows of engagement, deleted ones with `gone`
  roll,        \* rollover jobs: the row, its attempt, and what a run has read
  form,        \* what each request is doing
  forms, mishaps

intake == <<triggerType, title, reached, item, clientKnown, engagements, roll, form, forms, mishaps>>
karbonSide == <<triggerType, title, reached>>

Years == 1 .. ThisYear + 2
Nobody == 0
Blank == [at |-> "blank"]

Live == {e \in engagements : ~e.gone}
Born == Cardinality({e \in engagements : e.id # 0})
Exists(id) == \E e \in Live : e.id = id
Change(id, f(_)) == engagements' = {IF e.id = id THEN f(e) ELSE e : e \in engagements}

(* @@unique([clientId, engagementType, taxYear]); the work item is not unique. *)
Taken(type, year) == \E e \in Live : e.type = type /\ e.year = year
Insert(type, year, work, origin) ==
  engagements' = engagements \union
    {[item |-> work, gone |-> FALSE, id |-> Born + 1, type |-> type, year |-> year,
      origin |-> origin, prepared |-> FALSE]}

(* enqueuePreparation, under a key of the engagement, whose status lets it.   *)
(* The scan queued just before it is module Scan.                            *)
QueuePreparation(id) ==
  IF Exists(id) THEN Change(id, LAMBDA e : [e EXCEPT !.prepared = TRUE]) ELSE UNCHANGED engagements

Mishap == mishaps < MaxMishaps /\ mishaps' = mishaps + 1

-----------------------------------------------------------------------------
(* Karbon, and the import.                                                   *)
ImportClient ==
  /\ ~clientKnown /\ clientKnown' = TRUE
  /\ UNCHANGED <<karbonSide, item, engagements, roll, form, forms, mishaps>>

(* syncWorkItem: what it finds is linked if the client's key is known here; a *)
(* link made before is kept.                                                 *)
Linked(i) == IF clientKnown \/ item[i] = "linked" THEN "linked" ELSE "unlinked"

KarbonSync ==
  /\ \E i \in Items : item' = [item EXCEPT ![i] = Linked(i)]
  /\ UNCHANGED <<karbonSide, clientKnown, engagements, roll, form, forms, mishaps>>

(* The hourly poll and the webhook ask under the same key.                   *)
Jobs == Items \X Triggers
Unqueued == [row |-> "none", tries |-> 0, at |-> "start", on |-> Nobody, year |-> 0]

AskRollover ==
  /\ \E j \in Jobs : /\ j[2] \in reached[j[1]] /\ roll[j].row = "none"
                     /\ roll' = [roll EXCEPT ![j].row = "pending"]
  /\ UNCHANGED <<karbonSide, item, clientKnown, engagements, form, forms, mishaps>>

(* PURGE_TEMPORARY_FILES deletes the rows of jobs that succeeded long ago.    *)
PurgeRollover ==
  /\ \E j \in Jobs : roll[j].row = "succeeded" /\ roll' = [roll EXCEPT ![j] = Unqueued]
  /\ UNCHANGED <<karbonSide, item, clientKnown, engagements, form, forms, mishaps>>

-----------------------------------------------------------------------------
(* ROLL_OVER_ENGAGEMENT.                                                     *)
Running(j, place) == roll[j].row = "running" /\ roll[j].at = place
Onward(j, place) == roll' = [roll EXCEPT ![j].at = place]
Ended(j, row) == roll' = [roll EXCEPT ![j] = [Unqueued EXCEPT !.row = row,
                                            !.tries = IF row = "pending" THEN roll[j].tries ELSE 0]]
Failed(j, retryable) ==
  Ended(j, IF retryable /\ roll[j].tries < MaxRuns THEN "pending" ELSE "dead")
Reads(j) == UNCHANGED <<karbonSide, item, clientKnown, engagements, form, forms, mishaps>>

FindItem(j) ==
  /\ roll[j].row = "pending"
  /\ roll' = [roll EXCEPT ![j].row = "running", ![j].tries = @ + 1,
                          ![j].at = IF item[j[1]] = "linked" THEN "rolled?" ELSE "sync"]
  /\ Reads(j)

SyncItem(j) ==
  /\ Running(j, "sync")
  /\ item' = [item EXCEPT ![j[1]] = Linked(j[1])]
  /\ Onward(j, "rolled?")
  /\ UNCHANGED <<karbonSide, clientKnown, engagements, form, forms, mishaps>>

(* Karbon does not answer.                                                   *)
SyncFails(j) ==
  /\ Running(j, "sync") /\ Mishap /\ Failed(j, TRUE)
  /\ UNCHANGED <<karbonSide, item, clientKnown, engagements, form, forms>>

(* As if the year alone told whether an item was rolled.                     *)
NeverRolled(i) == {}

(* propose, and rollForward on what it proposes.  An item without a client    *)
(* blocks; then any engagement of the item answers for it, whatever its year. *)
Rolled(i) == {e \in Live : e.item = i}

FindRolled(j) ==
  /\ Running(j, "rolled?")
  /\ IF item[j[1]] # "linked" THEN Failed(j, FALSE)
     ELSE IF Rolled(j[1]) = {} THEN Onward(j, "previous?")
     ELSE \E e \in Rolled(j[1]) : roll' = [roll EXCEPT ![j].at = "scan", ![j].on = e.id]
  /\ Reads(j)

(* The newest of the type, whatever its year; the title's year comes first.   *)
YearsOf(type) == {e.year : e \in {d \in Live : d.type = type}}
NewestYear(type) == CHOOSE y \in YearsOf(type) : \A z \in YearsOf(type) : z =< y
TaxYear(i, type) ==
  IF title[i] # 0 THEN title[i] ELSE IF YearsOf(type) = {} THEN ThisYear ELSE NewestYear(type) + 1

FindPrevious(j) ==
  LET type == triggerType[j[2]]
      asks == type \in NeedsYearEnd /\ YearsOf(type) = {}
  IN  /\ Running(j, "previous?")
      /\ roll' = [roll EXCEPT ![j].at = IF asks THEN "ask?" ELSE "exists?",
                              ![j].year = TaxYear(j[1], type)]
      /\ Reads(j)

(* The same client, type and year by a different route; otherwise a year-end  *)
(* nobody can be asked for, or a year create refuses, ends it.                *)
FindExisting(j) ==
  /\ \E place \in {"ask?", "exists?"} : Running(j, place)
  /\ \/ \E e \in Live : /\ e.type = triggerType[j[2]] /\ e.year = roll[j].year
                        /\ roll' = [roll EXCEPT ![j].at = "scan", ![j].on = e.id]
     \/ /\ ~Taken(triggerType[j[2]], roll[j].year)
        /\ IF roll[j].at = "ask?" \/ roll[j].year \notin Years THEN Failed(j, FALSE)
           ELSE Onward(j, "create")
  /\ Reads(j)

CreateRolled(j) ==
  /\ Running(j, "create")
  /\ IF Taken(triggerType[j[2]], roll[j].year) THEN Failed(j, FALSE) /\ UNCHANGED engagements
     ELSE /\ Born < MaxBorn
          /\ Insert(triggerType[j[2]], roll[j].year, j[1], "rollover")
          /\ roll' = [roll EXCEPT ![j].at = "scan", ![j].on = Born + 1]
  /\ UNCHANGED <<karbonSide, item, clientKnown, form, forms, mishaps>>

(* As if an engagement that was already there were somebody else's business.  *)
ScanNew(j) == roll[j].tries = 1

ScanDue(j) == TRUE

QueueRolledScan(j) ==
  /\ Running(j, "scan")
  /\ IF ScanDue(j) THEN Onward(j, "prepare") ELSE Ended(j, "succeeded")
  /\ Reads(j)

QueueRolledPreparation(j) ==
  /\ Running(j, "prepare")
  /\ QueuePreparation(roll[j].on) /\ Ended(j, "succeeded")
  /\ UNCHANGED <<karbonSide, item, clientKnown, form, forms, mishaps>>

WorkerDies(j) ==
  /\ roll[j].row = "running" /\ Mishap /\ Failed(j, TRUE)
  /\ UNCHANGED <<karbonSide, item, clientKnown, engagements, form, forms>>

Rolling(j) ==
  \/ FindItem(j) \/ SyncItem(j) \/ FindRolled(j) \/ FindPrevious(j)
  \/ FindExisting(j) \/ CreateRolled(j) \/ QueueRolledScan(j) \/ QueueRolledPreparation(j)

-----------------------------------------------------------------------------
(* createEngagement and deleteEngagement, by people.                         *)
Submit(f, request) ==
  /\ form[f] = Blank /\ forms < MaxForms /\ forms' = forms + 1
  /\ form' = [form EXCEPT ![f] = request]
  /\ UNCHANGED <<karbonSide, item, clientKnown, engagements, roll, mishaps>>
Answer(f) == form' = [form EXCEPT ![f] = Blank]

AskCreate(f) ==
  \E type \in Types, y \in {ThisYear, ThisYear + 1}, i \in Items \union {Nobody} :
    Submit(f, [at |-> "create", type |-> type, year |-> y, item |-> i])

(* An item that is not known here is left unlinked; a second engagement of    *)
(* the type and year is refused by the index.                                *)
Create(f) ==
  /\ form[f].at = "create"
  /\ LET work == IF form[f].item # Nobody /\ item[form[f].item] # "unknown" THEN form[f].item ELSE Nobody
     IN  IF Taken(form[f].type, form[f].year) THEN Answer(f) /\ UNCHANGED engagements
         ELSE /\ Born < MaxBorn
              /\ Insert(form[f].type, form[f].year, work, "hand")
              /\ form' = [form EXCEPT ![f] = [at |-> "scan", on |-> Born + 1]]
  /\ UNCHANGED <<karbonSide, item, clientKnown, roll, forms, mishaps>>

SearchCreated(f) ==
  /\ form[f].at = "scan"
  /\ form' = [form EXCEPT ![f].at = "prepare"]
  /\ UNCHANGED <<karbonSide, item, clientKnown, engagements, roll, forms, mishaps>>

PrepareCreated(f) ==
  /\ form[f].at = "prepare"
  /\ QueuePreparation(form[f].on) /\ Answer(f)
  /\ UNCHANGED <<karbonSide, item, clientKnown, roll, forms, mishaps>>

AskDelete(f) == \E e \in Live : Submit(f, [at |-> "evidence?", on |-> e.id])

(* assertNoSignatureEvidence refuses one that was signed, here or by Adobe;   *)
(* later comes the delete by the id.                                         *)
FindEvidence(f) ==
  /\ form[f].at = "evidence?"
  /\ \/ Exists(form[f].on) /\ form' = [form EXCEPT ![f].at = "delete"]
     \/ Answer(f)
  /\ UNCHANGED <<karbonSide, item, clientKnown, engagements, roll, forms, mishaps>>

Delete(f) ==
  /\ form[f].at = "delete"
  /\ Change(form[f].on, LAMBDA e : [e EXCEPT !.gone = TRUE]) /\ Answer(f)
  /\ UNCHANGED <<karbonSide, item, clientKnown, roll, forms, mishaps>>

RequestDies(f) ==
  /\ form[f] # Blank /\ Mishap /\ Answer(f)
  /\ UNCHANGED <<karbonSide, item, clientKnown, engagements, roll, forms>>

Filling(f) ==
  \/ AskCreate(f) \/ Create(f) \/ SearchCreated(f) \/ PrepareCreated(f)
  \/ AskDelete(f) \/ FindEvidence(f) \/ Delete(f) \/ RequestDies(f)

-----------------------------------------------------------------------------
(* The client may have had an engagement of a type last year.                *)
IntakeInit ==
  /\ triggerType \in [Triggers -> Types] /\ title \in [Items -> {0, ThisYear}]
  /\ reached \in [Items -> SUBSET Triggers \ {{}}]
  /\ item = [i \in Items |-> "unknown"] /\ clientKnown = FALSE
  /\ engagements \in {{}} \union
       {{[item |-> Nobody, gone |-> FALSE, id |-> 0, type |-> t, year |-> ThisYear - 1,
          origin |-> "hand", prepared |-> TRUE]} : t \in Types}
  /\ roll = [j \in Jobs |-> Unqueued] /\ form = [f \in Forms |-> Blank] /\ forms = 0 /\ mishaps = 0

IntakeNext ==
  \/ ImportClient \/ KarbonSync \/ AskRollover \/ PurgeRollover
  \/ \E j \in Jobs : Rolling(j) \/ SyncFails(j) \/ WorkerDies(j)
  \/ \E f \in Forms : Filling(f)

(* The worker goes on; nobody else need.                                     *)
IntakeSpec == IntakeInit /\ [][IntakeNext]_intake /\ WF_intake(\E j \in Jobs : Rolling(j))

-----------------------------------------------------------------------------
(* propose: "One work item means one engagement".  However often its job is   *)
(* retried or asked for again, an item makes one engagement, if one trigger   *)
(* named it or its title its year.  (Two triggers of an item without a year   *)
(* may each find nothing rolled and take the other's engagement for last      *)
(* year's, and two of different types make one each.)                        *)
OneRoute(i) ==
  \/ Cardinality(reached[i]) =< 1
  \/ title[i] # 0 /\ \A s, t \in reached[i] : triggerType[s] = triggerType[t]

RolledOnce ==
  \A i \in Items : OneRoute(i) => Cardinality({e \in Live : e.item = i /\ e.origin = "rollover"}) =< 1

(* ROLL_OVER_ENGAGEMENT: an engagement that started itself does not sit there *)
(* empty: some engagement of its item is prepared in the end, or was deleted, *)
(* though the worker may die right after making it.                          *)
RolledIsPrepared ==
  \A i \in Items :
    (\E e \in engagements : e.item = i /\ e.origin = "rollover")
      ~> (\E e \in engagements : e.item = i /\ (e.prepared \/ e.gone))
=============================================================================
