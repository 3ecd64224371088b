------------------------------ MODULE Publishing ------------------------------
(***************************************************************************)
(* Who administers the system, and the template versions administrators    *)
(* upload, activate and discard (packages/services/src/user-admin-         *)
(* service.ts, template-publish-service.ts), for one template.  Every      *)
(* operation reads first and writes later by id, without a lock; the       *)
(* unique index on a version's number is all the database adds.            *)
(***************************************************************************)
EXTENDS Naturals, FiniteSets

CONSTANTS
  Users,        \* everybody with an account
  Files,        \* uploaded documents, told apart by their bytes
  Tabs,         \* requests in flight at once, each made by somebody
  MaxVersions,  \* bound: rows ever created
  MaxPresses    \* bound: requests ever made

ASSUME PublishingAssumption == MaxVersions \in Nat /\ MaxPresses \in Nat

VARIABLES
  administrators, \* who holds the role
  enabled,        \* whose account is active
  versions,       \* rows of template_version, in the order they were created
  tabs,           \* what each request is doing
  presses

office == <<administrators, enabled, versions, tabs, presses>>

Rows == 1..MaxVersions
NoVersion == [status |-> "NONE"]
Idle == [at |-> "idle"]

(* A deleted row is kept here, so that a property can speak of it. *)
Existing == {v \in Rows : versions[v].status \notin {"NONE", "DELETED"}}
Lifecycle == {"DRAFT", "ACTIVE", "RETIRED", "DELETED"}

Goto(t, request) == tabs' = [tabs EXCEPT ![t] = request]
Done(t) == Goto(t, Idle)
Refuse(t) == Done(t) /\ UNCHANGED <<administrators, enabled, versions, presses>>

(* A request is made by an administrator signed in at that moment. *)
Ask(t, request) ==
  /\ tabs[t] = Idle /\ presses < MaxPresses
  /\ request.by \in administrators \intersect enabled
  /\ presses' = presses + 1
  /\ Goto(t, request)
  /\ UNCHANGED <<administrators, enabled, versions>>

-----------------------------------------------------------------------------
(* uploadDraft: the number after the newest, then the same bytes refused,   *)
(* then the row, which the index refuses if the number was taken meanwhile. *)
Newest == {versions[v].number : v \in Existing}
NextNumber == 1 + (IF Newest = {} THEN 0 ELSE CHOOSE n \in Newest : \A m \in Newest : m =< n)

Upload(t) ==
  \E u \in Users, f \in Files : Ask(t, [at |-> "upload", by |-> u, file |-> f])

ReadTemplate(t) ==
  /\ tabs[t].at = "upload"
  /\ Goto(t, [at |-> "identical?", by |-> tabs[t].by, file |-> tabs[t].file, number |-> NextNumber])
  /\ UNCHANGED <<administrators, enabled, versions, presses>>

FindIdentical(t) ==
  /\ tabs[t].at = "identical?"
  /\ IF \E v \in Existing : versions[v].file = tabs[t].file THEN Refuse(t)
     ELSE /\ Goto(t, [tabs[t] EXCEPT !.at = "create"])
          /\ UNCHANGED <<administrators, enabled, versions, presses>>

(* As if there were no unique index. *)
AnyNumber(number) == TRUE

FreeNumber(number) == \A v \in Existing : versions[v].number # number

CreateVersion(t) ==
  /\ tabs[t].at = "create"
  /\ IF ~FreeNumber(tabs[t].number) THEN Refuse(t)
     ELSE \E v \in Rows :
            /\ versions[v] = NoVersion /\ \A w \in Rows : w < v => versions[w] # NoVersion
            /\ versions' = [versions EXCEPT ![v] =
                 [status |-> "DRAFT", number |-> tabs[t].number, file |-> tabs[t].file,
                  createdBy |-> tabs[t].by, approvedBy |-> {}]]
            /\ Done(t) /\ UNCHANGED <<administrators, enabled, presses>>

-----------------------------------------------------------------------------
(* activate: a draft somebody else uploaded; which version it replaces is   *)
(* read before the transaction that retires that one and activates this.    *)
Activate(t) ==
  \E u \in Users, v \in Existing : Ask(t, [at |-> "activate", by |-> u, on |-> v])

CheckDraft(t) ==
  /\ tabs[t].at = "activate"
  /\ LET v == tabs[t].on
     IN  IF versions[v].status # "DRAFT" \/ versions[v].createdBy = tabs[t].by THEN Refuse(t)
         ELSE /\ Goto(t, [tabs[t] EXCEPT !.at = "current?"])
              /\ UNCHANGED <<administrators, enabled, versions, presses>>

FindCurrent(t) ==
  /\ tabs[t].at = "current?"
  /\ LET active == {v \in Rows : versions[v].status = "ACTIVE"}
     IN  \E current \in {{v} : v \in active} \union (IF active = {} THEN {{}} ELSE {}) :
           Goto(t, [at |-> "publish", by |-> tabs[t].by, on |-> tabs[t].on, current |-> current])
  /\ UNCHANGED <<administrators, enabled, versions, presses>>

(* An update of a row that is gone rolls the transaction back. *)
Publish(t) ==
  /\ tabs[t].at = "publish"
  /\ LET v == tabs[t].on
         current == tabs[t].current
     IN  IF ~(current \union {v} \subseteq Existing) THEN Refuse(t)
         ELSE /\ versions' = [w \in Rows |->
                   IF w = v THEN [versions[v] EXCEPT !.status = "ACTIVE", !.approvedBy = {tabs[t].by}]
                   ELSE IF w \in current THEN [versions[w] EXCEPT !.status = "RETIRED"]
                   ELSE versions[w]]
              /\ Done(t) /\ UNCHANGED <<administrators, enabled, presses>>

(* discardDraft: the status is read, then the row is deleted by its id. *)
Discard(t) ==
  \E u \in Users, v \in Existing : Ask(t, [at |-> "discard", by |-> u, on |-> v])

CheckDiscard(t) ==
  /\ tabs[t].at = "discard"
  /\ IF versions[tabs[t].on].status # "DRAFT" THEN Refuse(t)
     ELSE /\ Goto(t, [tabs[t] EXCEPT !.at = "delete"])
          /\ UNCHANGED <<administrators, enabled, versions, presses>>

DeleteVersion(t) ==
  /\ tabs[t].at = "delete"
  /\ versions' = [versions EXCEPT ![tabs[t].on].status = "DELETED"]
  /\ Done(t) /\ UNCHANGED <<administrators, enabled, presses>>

-----------------------------------------------------------------------------
(* grantRole, revokeRole, setActive. *)
OtherAdministrators(u) == (administrators \intersect enabled) \ {u}

ChangeAccess(t) ==
  \E u \in Users, subject \in Users, how \in {"grant", "revoke", "deactivate", "reactivate"} :
    Ask(t, [at |-> how, by |-> u, on |-> subject])

(* Nobody does this to themselves, nor to the last administrator there is. *)
MayLose(t) ==
  LET u == tabs[t].on
  IN  /\ u # tabs[t].by
      /\ u \in administrators => OtherAdministrators(u) # {}

CheckAccess(t) ==
  /\ tabs[t].at \in {"grant", "revoke", "deactivate", "reactivate"}
  /\ LET u == tabs[t].on
         sound == CASE tabs[t].at = "grant" -> u \notin administrators
                    [] tabs[t].at = "revoke" -> u \in administrators /\ MayLose(t)
                    [] tabs[t].at = "deactivate" -> u \in enabled /\ MayLose(t)
                    [] tabs[t].at = "reactivate" -> u \notin enabled
     IN  IF ~sound THEN Refuse(t)
         ELSE /\ Goto(t, [at |-> "change", by |-> tabs[t].by, on |-> u, how |-> tabs[t].at])
              /\ UNCHANGED <<administrators, enabled, versions, presses>>

(* A role row that is there already, or gone already, fails the write. *)
CommitAccess(t) ==
  /\ tabs[t].at = "change"
  /\ LET u == tabs[t].on
         how == tabs[t].how
     IN  /\ administrators' = CASE how = "grant" -> administrators \union {u}
                                [] how = "revoke" -> administrators \ {u}
                                [] OTHER -> administrators
         /\ enabled' = CASE how = "deactivate" -> enabled \ {u}
                         [] how = "reactivate" -> enabled \union {u}
                         [] OTHER -> enabled
  /\ Done(t) /\ UNCHANGED <<versions, presses>>

-----------------------------------------------------------------------------
OfficeInit ==
  /\ administrators = Users /\ enabled = Users
  /\ versions = [v \in Rows |-> NoVersion]
  /\ tabs = [t \in Tabs |-> Idle] /\ presses = 0

Uploading(t) == Upload(t) \/ ReadTemplate(t) \/ FindIdentical(t) \/ CreateVersion(t)
Activating(t) == Activate(t) \/ CheckDraft(t) \/ FindCurrent(t) \/ Publish(t)
Discarding(t) == Discard(t) \/ CheckDiscard(t) \/ DeleteVersion(t)
Administering(t) == ChangeAccess(t) \/ CheckAccess(t) \/ CommitAccess(t)

OfficeNext == \E t \in Tabs : Uploading(t) \/ Activating(t) \/ Discarding(t) \/ Administering(t)

-----------------------------------------------------------------------------
(* uploadDraft: "Without this, a double submit leaves two identical drafts". *)
(* Two uploads of the same bytes that each looked before the other wrote     *)
(* claim the same number, and the index lets one of them through, as long as *)
(* no draft was discarded between, which gives its number back.              *)
NoTwins ==
  (\A v \in Rows : versions[v].status # "DELETED") =>
    \A v, w \in Existing : versions[v].file = versions[w].file => v = w
=============================================================================
