------------------------------- MODULE Signers -------------------------------
(***************************************************************************)
(* Who signs one engagement letter: the signers people name, correct,      *)
(* confirm and remove (packages/services/src/participant-service.ts), the  *)
(* copy for signature rendered for them (generation-service.ts), and the   *)
(* participant sets Adobe is given when it is sent (signing-service.ts,    *)
(* packages/integrations/src/adobe-sign/client.ts).  The statuses on the   *)
(* way to READY_TO_SEND and the retries of a send are in modules Drafting, *)
(* Review and Signing.                                                     *)
(***************************************************************************)
EXTENDS Rendering, EngagementStates

CONSTANTS
  Hands,          \* requests about signers that may be in flight
  MaxCorrections, \* bound: requests about signers, and changes of details
  MaxDrafts       \* bound: versions of the letter

ASSUME SignersAssumption == MaxCorrections \in Nat /\ MaxDrafts \in Nat

VARIABLES
  letterType,  \* engagement.engagementType
  stage,       \* engagement.status
  signers,     \* the participant row of each role, or Nobody
  details,     \* what a letter is made from, besides its signers
  drafting,    \* the details a running generation has read, or Resting
  letters,     \* the versions of the letter
  hands,       \* what each request is doing
  posting,     \* the send in progress
  agreement,   \* what Adobe was given
  corrections

mailing == <<letterType, stage, signers, details, drafting, letters, hands, posting, agreement,
             corrections>>

Nobody == [email |-> "none"]
Unasked == [at |-> "rest"]
NoAgreement == [sets |-> <<>>]

Template == IF letterType = "T2" THEN T2Letter ELSE T1JointLetter
Roles == IF letterType = "T2" THEN {"AUTHORIZED_SIGNING_OFFICER", "FIRM_SIGNER"}
         ELSE {"TAXPAYER_1", "TAXPAYER_2", "FIRM_SIGNER"}
Named == {r \in Roles : signers[r] # Nobody}

signingOrder(role) == IF role = "FIRM_SIGNER" THEN 1 ELSE 2

(* findMany by signing order: rows of one order come in any order. *)
Listed ==
  {s \in SetToSeqs({[role |-> r, order |-> signingOrder(r)] : r \in Named}) :
     \A i, j \in DOMAIN s : i < j => s[i].order =< s[j].order}

-----------------------------------------------------------------------------
(* upsert, confirm and remove: what is asked, what is read, what is written. *)
assertEditable ==
  stage \notin {"SENDING_FOR_SIGNATURE", "SENT_FOR_SIGNATURE", "PARTIALLY_SIGNED", "SIGNED", "COMPLETE"}

Take(h, request) == hands' = [hands EXCEPT ![h] = request]

Correct(h) ==
  /\ hands[h] = Unasked /\ corrections < MaxCorrections
  /\ corrections' = corrections + 1
  /\ \E what \in {"upsert", "confirm", "withdraw", "remove"}, role \in Roles, email \in {"", "e1"} :
       /\ what # "upsert" => role \in Named /\ email = ""
       /\ Take(h, [at |-> what, role |-> role, email |-> email])
  /\ UNCHANGED <<letterType, stage, signers, details, drafting, letters, posting, agreement>>

(* confirm reads the row but not the status; there is no address to confirm  *)
(* where none was typed.                                                     *)
Admitted(request) ==
  CASE request.at = "upsert" -> assertEditable
    [] request.at = "remove" -> assertEditable /\ request.role \in Named
    [] request.at = "withdraw" -> request.role \in Named
    [] request.at = "confirm" -> request.role \in Named /\ signers[request.role].email = "e1"

ReadRow(h) ==
  /\ hands[h].at \in {"upsert", "confirm", "withdraw", "remove"}
  /\ Take(h, IF ~Admitted(hands[h]) THEN Unasked
             ELSE [at |-> "write", what |-> hands[h].at, role |-> hands[h].role,
                   email |-> hands[h].email, found |-> hands[h].role \in Named])
  /\ UNCHANGED <<letterType, stage, signers, details, drafting, letters, posting, agreement, corrections>>

(* The row is written by the id that was read, or created: either fails when *)
(* that row has gone, or one of its role has come.                           *)
Written(row, request) ==
  CASE request.what = "upsert" -> [email |-> request.email, confirmed |-> FALSE]
    [] request.what = "remove" -> Nobody
    [] OTHER -> [row EXCEPT !.confirmed = request.what = "confirm"]

(* Those who had found the row will find its id gone. *)
Orphaned(h, request) ==
  IF request.what # "remove" THEN [hands EXCEPT ![h] = Unasked]
  ELSE LET late == {g \in Hands : /\ hands[g].at = "write"
                                  /\ hands[g].role = request.role /\ hands[g].found}
       IN  [g \in Hands |-> IF g \in late THEN Unasked ELSE hands[g]]

WriteRow(h) ==
  /\ hands[h].at = "write"
  /\ LET request == hands[h]
     IN  IF request.found # (request.role \in Named)
         THEN Take(h, Unasked) /\ UNCHANGED signers
         ELSE /\ signers' = [signers EXCEPT ![request.role] = Written(@, request)]
              /\ hands' = Orphaned(h, request)
  /\ UNCHANGED <<letterType, stage, details, drafting, letters, posting, agreement, corrections>>

-----------------------------------------------------------------------------
(* The details: a reviewer settles the compilation, types a value or a name, *)
(* and a change of wording is approved.                                      *)
Wordings == IF letterType = "T2" THEN {"3A. Optional compilation engagement", "4. Responsibilities"}
            ELSE {"Fixed fee of"}

Change ==
  /\ corrections < MaxCorrections /\ corrections' = corrections + 1
  /\ \/ /\ letterType = "T2"
        /\ \E c \in {"yes", "no"} \ {details.compilation} : details' = [details EXCEPT !.compilation = c]
     \/ \E t \in Template.required \union UNION {s.requiredFields : s \in Template.sections} :
          details' = [details EXCEPT !.blank = IF t \in @ THEN @ \ {t} ELSE @ \union {t}]
     \/ details' = [details EXCEPT !.name = IF @ = "another" THEN "legal name" ELSE "another"]
     \/ /\ details.wording = {}
        /\ \E w \in Wordings :
             details' = [details EXCEPT !.wording = {[anchor |-> w, revised |-> "revised"]}]
  /\ UNCHANGED <<letterType, stage, signers, drafting, letters, hands, posting, agreement>>

(* generate: the gate and the values, then the signers and the new version.  *)
evaluateGenerationGate ==
  /\ letterType = "T2" => details.compilation # "unknown"
  /\ requiredFieldTokens(Template, details) \intersect details.blank = {}

ReadDetails ==
  /\ stage \in {"GENERATING", "REGENERATING"} /\ drafting = Unasked /\ Len(letters) < MaxDrafts
  /\ IF evaluateGenerationGate /\ renderDocx(Template, details, "DRAFT", <<>>) # NoDocument
     THEN drafting' = [at |-> "render", read |-> details] /\ UNCHANGED stage
     ELSE stage' = "GENERATION_FAILED" /\ UNCHANGED drafting
  /\ UNCHANGED <<letterType, signers, details, letters, hands, posting, agreement, corrections>>

(* A copy that cannot be rendered is left out; the draft is stored all the   *)
(* same, with the roles and the order of the signers as they were read.      *)
Version(read, rows) ==
  LET draft == renderDocx(Template, read, "DRAFT", <<>>)
  IN  [draft |-> draft, status |-> "DRAFT", signers |-> ToSet(rows),
       copy |-> IF rows = <<>> THEN NoDocument ELSE renderDocx(Template, read, "FOR_SIGNATURE", rows),
       errors |-> validateRenderedDocument(Template, read, draft)]

Superseded(version) ==
  IF version.status = "DRAFT" THEN [version EXCEPT !.status = "SUPERSEDED"] ELSE version

StoreVersion ==
  /\ drafting # Unasked
  /\ \E rows \in Listed :
       letters' = [i \in DOMAIN letters |-> IF i = Len(letters) THEN Superseded(letters[i]) ELSE letters[i]]
                  \o <<Version(drafting.read, rows)>>
  /\ drafting' = Unasked /\ stage' = "REVIEW_REQUIRED"
  /\ UNCHANGED <<letterType, signers, details, hands, posting, agreement, corrections>>

(* Changes are asked for, or a generation that failed is tried again. *)
Regenerate ==
  /\ stage \in {"REVIEW_REQUIRED", "READY_TO_SEND", "GENERATION_FAILED"} /\ Len(letters) < MaxDrafts
  /\ stage' = "REGENERATING"
  /\ UNCHANGED <<letterType, signers, details, drafting, letters, hands, posting, agreement, corrections>>

(* evaluateApprovalGate, of which the conflicts, dates and fees are          *)
(* Preparation's, and the approval that makes a version fit to send.         *)
evaluateApprovalGate(version) ==
  version.draft # NoDocument /\ version.errors = {}

Approve(v) ==
  /\ stage = "REVIEW_REQUIRED" /\ letters[v].status = "DRAFT"
  /\ evaluateApprovalGate(letters[v])
  /\ letters' = [letters EXCEPT ![v].status = "APPROVED"]
  /\ stage' = "READY_TO_SEND"
  /\ UNCHANGED <<letterType, signers, details, drafting, hands, posting, agreement, corrections>>

-----------------------------------------------------------------------------
(* sendForSignature. *)

(* As if only a signer who has come could move a field. *)
SomebodyCame(snapshot, current) == ~(current \subseteq snapshot)

rosterChanged(snapshot, current) == snapshot # current

(* Where the Adobe adapter in hand may send to, Test Mode or not. *)
MaySendTo(testMode, productionSendingEnabled, adobeSignMode) ==
  /\ testMode => adobeSignMode = "sandbox"
  /\ ~testMode => productionSendingEnabled /\ adobeSignMode \notin {"mock", "disabled"}

Roster == {[role |-> r, order |-> signingOrder(r)] : r \in Named}
unfilledSignatureRoles ==
  {anchor.role : anchor \in {a \in Template.anchors : a.required}} \ Named

evaluateSendGate(version) ==
  /\ stage = "READY_TO_SEND"
  /\ version.status = "APPROVED" /\ version.errors = {}
  /\ Named # {} /\ \A r \in Named : signers[r].email = "e1" /\ signers[r].confirmed
  /\ version.copy # NoDocument
  /\ unfilledSignatureRoles = {}
  /\ ~rosterChanged(version.signers, Roster)

PressSend(v) ==
  /\ posting = Unasked /\ agreement = NoAgreement
  /\ \E testMode, enabled \in BOOLEAN, mode \in {"sandbox", "production", "mock", "blocked", "disabled"} :
       /\ evaluateSendGate(letters[v]) /\ MaySendTo(testMode, enabled, mode)
       /\ posting' = [at |-> "read", of |-> v, passed |-> Roster]
  /\ UNCHANGED <<letterType, stage, signers, details, drafting, letters, hands, agreement, corrections>>

(* The signers are read again, after the gate. *)
ReadSigners ==
  /\ posting.at = "read"
  /\ \E rows \in Listed :
       posting' = [at |-> "transition", of |-> posting.of, passed |-> posting.passed, rows |-> rows]
  /\ UNCHANGED <<letterType, stage, signers, details, drafting, letters, hands, agreement, corrections>>

EnterSending ==
  /\ posting.at = "transition"
  /\ IF canTransition(stage, "SENDING_FOR_SIGNATURE")
     THEN posting' = [posting EXCEPT !.at = "create"] /\ stage' = "SENDING_FOR_SIGNATURE"
     ELSE posting' = Unasked /\ UNCHANGED stage
  /\ UNCHANGED <<letterType, signers, details, drafting, letters, hands, agreement, corrections>>

(* One participant set per signer; nobody to sign is refused before Adobe is *)
(* asked, and the engagement is ready to be sent again.                      *)
createAgreement(rows) == orderForAdobeParticipantSets(rows)

Create ==
  /\ posting.at = "create" /\ posting' = Unasked
  /\ IF posting.rows = <<>>
     THEN stage' = "READY_TO_SEND" /\ UNCHANGED <<agreement, letters>>
     ELSE /\ agreement' = [sets |-> createAgreement(posting.rows), of |-> posting.of,
                           passed |-> posting.passed]
          /\ letters' = [letters EXCEPT ![posting.of].status = "SENT_FOR_SIGNATURE"]
          /\ stage' = "SENT_FOR_SIGNATURE"
  /\ UNCHANGED <<letterType, signers, details, drafting, hands, corrections>>

-----------------------------------------------------------------------------
(* Preparation has proposed some of the signers and somebody confirmed them. *)
SignersInit ==
  /\ letterType \in {"T2", "T1_JOINT"} /\ stage = "GENERATING"
  /\ \E named \in SUBSET Roles :
       signers = [r \in Roles |-> IF r \in named THEN [email |-> "e1", confirmed |-> TRUE] ELSE Nobody]
  /\ details = [compilation |-> "unknown", blank |-> {}, name |-> "legal name", wording |-> {},
                services |-> {}]
  /\ drafting = Unasked /\ letters = <<>>
  /\ hands = [h \in Hands |-> Unasked]
  /\ posting = Unasked /\ agreement = NoAgreement /\ corrections = 0

SignersNext ==
  \/ \E h \in Hands : Correct(h) \/ ReadRow(h) \/ WriteRow(h)
  \/ Change \/ ReadDetails \/ StoreVersion \/ Regenerate
  \/ \E v \in DOMAIN letters : Approve(v) \/ PressSend(v)
  \/ ReadSigners \/ EnterSending \/ Create

SignersSpec == SignersInit /\ [][SignersNext]_mailing

-----------------------------------------------------------------------------
SignatureTokens == {anchor.token : anchor \in Template.anchors}

(* What is read of a body, its signature lines and fields left out. *)
ReadOf(body) ==
  [i \in DOMAIN body |-> [tag |-> body[i].tag, box |-> body[i].box, text |->
     {m \in body[i].text : ~(m[1] = "printed" /\ m[2] \in SignatureTokens)}]]

(* Each field of the copy belongs to the set of whoever signs there, and     *)
(* nobody the letter needs is without a field.                               *)
EachSignsTheirOwn(copy, sets) ==
  \A anchor \in {a \in Template.anchors : a.kind # "AUTO_PLACED"} :
    /\ anchor.required => \E i \in DOMAIN sets : sets[i].role = anchor.role
    /\ \A i \in DOMAIN sets :
         sets[i].role = anchor.role <=>
           \E b \in DOMAIN copy : Printed(anchor.token, <<anchor.kind, i>>) \in copy[b].text

(* generate, evaluateSendGate, createAgreement: whatever is edited, drawn up *)
(* again or listed in another order on the way, the copy that goes to Adobe  *)
(* says what the approved draft says, nothing internal among it, and each of *)
(* its fields is for the one Adobe puts in that place, unless the signers    *)
(* were changed while the send was already past its gate.                    *)
SignedAsRead ==
  agreement # NoAgreement /\ agreement.passed = ToSet(agreement.sets) =>
    LET version == letters[agreement.of]
    IN  /\ ReadOf(version.copy) = ReadOf(version.draft)
        /\ \A w \in Template.forbidden : ~Shows(version.copy, w)
        /\ EachSignsTheirOwn(version.copy, agreement.sets)
=============================================================================
