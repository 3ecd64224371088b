------------------------------ MODULE Connections ------------------------------
(***************************************************************************)
(* A vendor's connection and the two switches that arm the system, edited  *)
(* by administrators while jobs and requests are given their adapters      *)
(* (packages/services/src/integration-connection-service.ts, providers.ts, *)
(* settings.ts).  Everything is read first and used later; the row, the    *)
(* two settings and the environment are read one after the other.          *)
(***************************************************************************)
EXTENDS Naturals, FiniteSets

CONSTANTS
  Secrets,     \* the credentials a vendor requires
  Granted,     \* the one only Adobe's own authorisation hands out
  Admins,      \* requests in flight at once
  MaxOrders,     \* bound: requests ever made
  MaxResolves  \* bound: times a job is given its adapters

ASSUME ConnectionsAssumption == Granted \in Secrets /\ MaxOrders \in Nat /\ MaxResolves \in Nat

VARIABLES
  provider,      \* "KARBON" or "ADOBE_SIGN"
  pinned,      \* the deployment sets TEST_MODE
  connection,  \* the row of integration_connection
  testMode,    \* system_setting test_mode
  sending,     \* system_setting production_sending_enabled
  admins,      \* what each request has read
  job,         \* a job, from the moment its adapters are resolved
  orders, resolves

wiring == <<provider, pinned, connection, testMode, sending, admins, job, orders, resolves>>
switches == <<testMode, sending>>

\* host "production" is one of PRODUCTION_HOSTS, the Karbon default, taken when none is set, among them
Unconnected == [exists |-> FALSE, enabled |-> FALSE, sandbox |-> TRUE, host |-> "none",
          stored |-> {}, checked |-> "never"]
Hosts == IF provider = "KARBON" THEN {"production", "other"} ELSE {"none", "other"}
Free == [at |-> "free"]
Idling == [at |-> "idle", off |-> FALSE, test |-> FALSE, armed |-> FALSE,
           adapter |-> "none", row |-> Unconnected]

Ends(a) == admins' = [admins EXCEPT ![a] = Free]
Moves(a, request) == admins' = [admins EXCEPT ![a] = request]

InTestMode == pinned \/ testMode

-----------------------------------------------------------------------------
(* The buttons of the integrations and settings pages; a form says "leave it"  *)
(* for a secret by leaving it blank.                                         *)
AskAdmin(a) ==
  /\ admins[a] = Free /\ orders < MaxOrders /\ orders' = orders + 1
  /\ \E request \in {"save", "check", "clear", "consent", "test_on", "test_off", "arm", "disarm"} :
       /\ request = "consent" => provider = "ADOBE_SIGN"
       /\ Moves(a, [at |-> request])
  /\ UNCHANGED <<provider, pinned, connection, job, resolves>> /\ UNCHANGED switches

Left(a, at) ==
  /\ admins[a].at = at
  /\ UNCHANGED <<provider, pinned, orders, resolves>>

(* saveIntegrationConnection: Test Mode, then the row.                       *)
ReadTestModeForSave(a) ==
  /\ Left(a, "save") /\ Moves(a, [at |-> "save_row", test |-> InTestMode])
  /\ UNCHANGED <<connection, job>> /\ UNCHANGED switches

ReadRowForSave(a) ==
  /\ Left(a, "save_row")
  /\ Moves(a, [at |-> "saving", test |-> admins[a].test, stored |-> connection.stored])
  /\ UNCHANGED <<connection, job>> /\ UNCHANGED switches

(* Only Adobe's production label is refused under Test Mode: a Karbon one is *)
(* corrected at any time, since the adapter is what holds.                   *)
LabelAllowed(test, sandbox) == provider = "KARBON" \/ sandbox \/ ~test

MayEnable(enabled, stored) == ~enabled \/ stored = Secrets

(* A blank field keeps what was read with the row; a secret that is supplied *)
(* and differs forgets what the last check proved.                           *)
Save(a) ==
  /\ Left(a, "saving")
  /\ \E supplied \in SUBSET Secrets, sandbox, enabled \in BOOLEAN, host \in Hosts :
       LET stored == admins[a].stored \union supplied IN
         /\ LabelAllowed(admins[a].test, sandbox) /\ MayEnable(enabled, stored)
         /\ connection' = [exists |-> TRUE, enabled |-> enabled, sandbox |-> sandbox, host |-> host,
                           stored |-> stored,
                           checked |-> IF supplied = {} THEN connection.checked ELSE "never"]
  /\ Ends(a) /\ UNCHANGED job /\ UNCHANGED switches

RefuseSave(a) ==
  /\ Left(a, "saving") /\ Ends(a) /\ UNCHANGED <<connection, job>> /\ UNCHANGED switches

(* checkConnection: a client is made from the row that was read, asked one   *)
(* read-only question, and the answer written to whatever the row is by then. *)
ReadRowForCheck(a) ==
  /\ Left(a, "check")
  /\ IF connection.exists /\ connection.stored = Secrets
     THEN Moves(a, [at |-> "checking", host |-> connection.host]) ELSE Ends(a)
  /\ UNCHANGED <<connection, job>> /\ UNCHANGED switches

RecordCheck(a) ==
  /\ Left(a, "checking")
  /\ \E ok \in BOOLEAN :
       /\ ok => admins[a].host # "none"
       /\ connection' = [connection EXCEPT !.checked = IF ok THEN "ok" ELSE "failed"]
  /\ Ends(a) /\ UNCHANGED job /\ UNCHANGED switches

(* clearCredentials: "disabled at the same moment".                          *)
Clear(a) ==
  /\ Left(a, "clear")
  /\ connection' = IF connection.exists
                   THEN [connection EXCEPT !.stored = {}, !.enabled = FALSE, !.checked = "never"]
                   ELSE connection
  /\ Ends(a) /\ UNCHANGED job /\ UNCHANGED switches

(* adobeAuthorizeUrl sends somebody to Adobe, if the application has a name  *)
(* there; the callback reads the row again, and exchanges the code.  Consent *)
(* may be refused, and a flow cookie that expired or is another's ends it.   *)
Identified == connection.exists /\ Secrets \ {Granted} \subseteq connection.stored
              /\ connection.host # "none"

LeaveForAdobe(a) ==
  /\ Left(a, "consent")
  /\ IF Identified THEN Moves(a, [at |-> "callback"]) ELSE Ends(a)
  /\ UNCHANGED <<connection, job>> /\ UNCHANGED switches

ReturnFromAdobe(a) ==
  /\ Left(a, "callback")
  /\ \/ Identified /\ Moves(a, [at |-> "exchanging", stored |-> connection.stored])
     \/ Ends(a)
  /\ UNCHANGED <<connection, job>> /\ UNCHANGED switches

StoreGrant(a) ==
  /\ Left(a, "exchanging")
  /\ \/ connection' = [connection EXCEPT !.stored = admins[a].stored \union {Granted}]
     \/ UNCHANGED connection \* Adobe refuses the code, or returns no token
  /\ Ends(a) /\ UNCHANGED job /\ UNCHANGED switches

-----------------------------------------------------------------------------
(* setTestMode: the environment is a floor, and turning it on disarms, in a  *)
(* statement of its own.  A job under way remembers that it was off.          *)
SwitchTestMode(a) ==
  /\ \/ Left(a, "test_on") /\ testMode' = TRUE /\ Moves(a, [at |-> "disarm"]) /\ UNCHANGED job
     \/ Left(a, "test_off") /\ Ends(a)
        /\ IF pinned THEN UNCHANGED <<testMode, job>>
           ELSE testMode' = FALSE /\ job' = IF job = Idling THEN job ELSE [job EXCEPT !.off = TRUE]
  /\ UNCHANGED <<connection, sending>>

(* setProductionSending.                                                     *)
SwitchSending(a) ==
  /\ \/ Left(a, "arm") /\ sending' = (sending \/ ~pinned)
     \/ Left(a, "disarm") /\ sending' = FALSE
  /\ Ends(a) /\ UNCHANGED <<connection, testMode, job>>

-----------------------------------------------------------------------------
(* testModeState: two settings, read one after the other.                    *)
BeginJob ==
  /\ job = Idling /\ resolves < MaxResolves /\ resolves' = resolves + 1
  /\ job' = [Idling EXCEPT !.at = "settings", !.off = ~InTestMode, !.test = InTestMode]
  /\ UNCHANGED <<provider, pinned, connection, admins, orders>> /\ UNCHANGED switches

ReadSending ==
  /\ job.at = "settings"
  /\ job' = [job EXCEPT !.at = "resolving", !.armed = ~job.test /\ sending]
  /\ UNCHANGED <<provider, pinned, connection, admins, orders, resolves>> /\ UNCHANGED switches

(* As if the label were trusted on its own.                                  *)
SandboxLabel(row) == ~row.sandbox

(* "A connection pointing at api.karbonhq.com is production whatever the box *)
(* says"; an Adobe shard says nothing of the kind.  Without a row nothing is *)
(* known to be a sandbox.                                                    *)
IsProduction(row) ==
  \/ ~row.exists \/ ~row.sandbox
  \/ provider = "KARBON" /\ row.host = "production"

Usable(row) == row.enabled /\ row.stored = Secrets

KarbonAdapter(row, test) ==
  CASE test /\ IsProduction(row) /\ Usable(row) -> "read_only"
    [] test /\ IsProduction(row) /\ ~Usable(row) -> "blocked"
    [] ~(test /\ IsProduction(row)) /\ Usable(row) -> "real"
    [] OTHER -> "mock"

AdobeAdapter(row, test) ==
  CASE test /\ IsProduction(row) -> "blocked"
    [] ~(test /\ IsProduction(row)) /\ Usable(row) /\ row.host # "none" -> "real"
    [] OTHER -> "mock"

(* resolveProviders.                                                         *)
Resolve ==
  /\ job.at = "resolving"
  /\ job' = [job EXCEPT !.at = "working", !.row = connection,
                        !.adapter = IF provider = "KARBON" THEN KarbonAdapter(connection, job.test)
                                    ELSE AdobeAdapter(connection, job.test)]
  /\ UNCHANGED <<provider, pinned, connection, admins, orders, resolves>> /\ UNCHANGED switches

FinishJob ==
  /\ job.at = "working" /\ job' = Idling
  /\ UNCHANGED <<provider, pinned, connection, admins, orders, resolves>> /\ UNCHANGED switches

-----------------------------------------------------------------------------
WiringInit ==
  /\ provider \in {"KARBON", "ADOBE_SIGN"} /\ pinned \in BOOLEAN
  /\ connection = Unconnected /\ testMode = TRUE /\ sending = FALSE
  /\ admins = [a \in Admins |-> Free] /\ job = Idling /\ orders = 0 /\ resolves = 0

SavingConnection(a) == ReadTestModeForSave(a) \/ ReadRowForSave(a) \/ Save(a) \/ RefuseSave(a)
CheckingConnection(a) == ReadRowForCheck(a) \/ RecordCheck(a) \/ Clear(a)
Consenting(a) == LeaveForAdobe(a) \/ ReturnFromAdobe(a) \/ StoreGrant(a)
Switching(a) == SwitchTestMode(a) \/ SwitchSending(a)

WiringNext ==
  \/ \E a \in Admins :
       AskAdmin(a) \/ SavingConnection(a) \/ CheckingConnection(a) \/ Consenting(a) \/ Switching(a)
  \/ BeginJob \/ ReadSending \/ Resolve \/ FinishJob

-----------------------------------------------------------------------------
(* "Test Mode becomes a structural guarantee": a job that can write to a     *)
(* connection labelled production, or to a host known to be, or that reads   *)
(* production sending as armed, began or went on at a moment when Test Mode  *)
(* was off; and so never where the deployment pins it, whoever relabels,     *)
(* enables, re-authorises or clears the connection and moves the switches    *)
(* between its reads.                                                        *)
TestModeHolds ==
  \/ job.armed
  \/ /\ job.adapter = "real"
     /\ ~job.row.sandbox \/ (provider = "KARBON" /\ job.row.host = "production")
  => job.off /\ ~pinned
=============================================================================
