------------------------ MODULE Preparation_proofs ------------------------
(***************************************************************************)
(* What holds of module Preparation for any number of preparations, of     *)
(* rows and of buttons pressed: the types; that a decision stands; that an *)
(* undisturbed preparation asks about what the sources disagree on, and    *)
(* dates by the last answer.                                               *)
(***************************************************************************)
EXTENDS Preparation, FiniteSetTheorems, TLAPS

USE DEF sources, rows, counts

(***************************************************************************)
(* Types.                                                                  *)
(***************************************************************************)
Memory ==
  [client : Names, found : BOOLEAN, free : BOOLEAN, pair : SUBSET Names, row : RowIds \union {0},
   plan : {"leave", "create", "reopen", "refresh"}, fact : {"unknown", "yes", "no"}]
ConflictRow == [status : {"NONE", "UNRESOLVED", "RESOLVED"}, about : SUBSET Names]

(* The type invariant without what only the history needs. *)
Typed ==
  /\ client \in {"k1", "k2"} /\ letter \in {"NONE", "k1", "d"}
  /\ fact \in {"unknown", "yes", "no"}
  /\ karbonRow \in {"NONE", "k1", "k2"}
  /\ signer \in [who : Names, confirmed : BOOLEAN]
  /\ conflicts \in [RowIds -> ConflictRow]
  /\ date \in [result : Results, confirmedBy : {"nobody", "application", "person"}]
  /\ fee \in [amount : {"NONE", "rule", "typed"}, approved : BOOLEAN]
  /\ at \in [Preparers -> Places]
  /\ known \in [Preparers -> Memory]
  /\ person \in {"idle", "confirming_signer", "confirming_date", "approving_fee"}
  /\ alone \subseteq Preparers
  /\ runs \in 0 .. MaxRuns /\ presses \in 0 .. MaxPresses
  /\ \A p \in Preparers : known[p].plan \in {"reopen", "refresh"} => known[p].row \in RowIds
  /\ \A p \in Preparers : known[p].client \in {"NONE", "k1", "k2"}
  /\ \A p \in Preparers : at[p] = "recording" => known[p].client # "NONE"

LEMMA NothingIsMemory == Nothing \in Memory /\ NoRow \in ConflictRow
  BY DEF Nothing, Memory, Names, NoRow, ConflictRow

LEMMA TypedInit == Init => Typed /\ TypeOK
<1>. SUFFICES ASSUME Init PROVE Typed /\ TypeOK
  OBVIOUS
<1>1. /\ known \in [Preparers -> Memory] /\ \A p \in Preparers : known[p] = Nothing
      /\ conflicts \in [RowIds -> ConflictRow]
      /\ at \in [Preparers -> Places] /\ \A p \in Preparers : at[p] = "idle"
  BY NothingIsMemory DEF Init, Places
<1>2. /\ signer \in [who : Names, confirmed : BOOLEAN]
      /\ date \in [result : Results, confirmedBy : {"nobody", "application", "person"}]
      /\ fee \in [amount : {"NONE", "rule", "typed"}, approved : BOOLEAN]
      /\ kept \in [signer : Names, date : Results, pairs : SUBSET SUBSET Names]
  BY DEF Init, Names, Results
<1>3. Typed
  BY <1>1, <1>2, PreparationAssumption DEF Init, Typed, Nothing
<1>4. overlapped \in BOOLEAN
  BY DEF Init
<1>. QED  BY <1>2, <1>3, <1>4 DEF Typed, TypeOK, Memory, ConflictRow

(* A run begins and ends. *)
LEMMA BoundsTyped ==
  ASSUME Typed, NEW p \in Preparers, Begin(p) \/ End(p)
  PROVE  Typed'
<1>. USE DEF Typed
<1>1. CASE Begin(p)
  <2>1. [known[p] EXCEPT !.client = client] \in Memory
    BY DEF Memory, Names
  <2>2. known' \in [Preparers -> Memory]
    BY <1>1, <2>1 DEF Begin
  <2>3. at' \in [Preparers -> Places]
    BY <1>1 DEF Begin, Places
  <2>4. runs' \in 0 .. MaxRuns
    BY <1>1, PreparationAssumption DEF Begin
  <2>5. \A q \in Preparers :
          /\ known'[q].plan = known[q].plan /\ known'[q].row = known[q].row
          /\ known'[q].client \in {known[q].client, client}
          /\ q = p => known'[q].client = client
          /\ q # p => at'[q] = at[q] /\ known'[q] = known[q]
    BY <1>1 DEF Begin, Memory
  <2>6. alone' \subseteq Preparers
    BY <1>1 DEF Begin
  <2>. QED  BY <1>1, <2>2, <2>3, <2>4, <2>5, <2>6 DEF Begin
<1>2. CASE End(p)
  <2>1. known' \in [Preparers -> Memory] /\ at' \in [Preparers -> Places]
    BY <1>2, NothingIsMemory DEF End, Places
  <2>2. \A q \in Preparers : IF q = p THEN known'[q] = Nothing /\ at'[q] = "idle"
                             ELSE known'[q] = known[q] /\ at'[q] = at[q]
    BY <1>2 DEF End
  <2>3. Nothing.plan = "leave" /\ Nothing.client = "NONE"
    BY DEF Nothing
  <2>. QED  BY <1>2, <2>1, <2>2, <2>3 DEF End
<1>. QED  BY <1>1, <1>2

(* What a preparation's step leaves well typed, whatever row it writes. *)
WalksOn ==
  /\ at' \in [Preparers -> Places] /\ known' \in [Preparers -> Memory]
  /\ \A q \in Preparers : known'[q].plan \in {"reopen", "refresh"} => known'[q].row \in RowIds
  /\ \A q \in Preparers : known'[q].client \in {"NONE", "k1", "k2"}
  /\ \A q \in Preparers : at'[q] = "recording" => known'[q].client # "NONE"
  /\ UNCHANGED <<client, letter, fact, person, alone, runs, presses>>

(* What a step of p takes into its memory is memory; nobody else's is touched. *)
LEMMA StepsOn ==
  ASSUME Typed, NEW p \in Preparers, NEW from \in Places, NEW to \in Places \ {"recording"},
         NEW hand \in Memory, Step(p, from, to), known' = [known EXCEPT ![p] = hand],
         hand.plan \in {"reopen", "refresh"} => hand.row \in RowIds,
         hand.client \in {"NONE", "k1", "k2"}
  PROVE  WalksOn
<1>1. \A q \in Preparers : IF q = p THEN known'[q] = hand /\ at'[q] = to
                           ELSE known'[q] = known[q] /\ at'[q] = at[q]
  BY DEF Typed, Step
<1>. QED  BY <1>1 DEF Typed, Step, WalksOn

(* The first half of a run: the client's values, the signer, the conflict. *)
LEMMA EarlyTyped ==
  ASSUME Typed, NEW p \in Preparers,
         \/ RecordKarbonValues(p) \/ FindSigner(p) \/ ProposeSigner(p)
         \/ ReadFields(p) \/ FindConflict(p) \/ RaiseConflict(p)
  PROVE  Typed'
<1>0. known[p] \in Memory /\ known[p].client \in {"NONE", "k1", "k2"} /\ known \in [Preparers -> Memory]
  BY DEF Typed
<1>1. {"recording", "signer", "proposing", "fields", "conflicts", "raising", "facts"} \subseteq Places
  BY DEF Places
<1>2. CASE RecordKarbonValues(p)
  <2>1. known' = [known EXCEPT ![p] = known[p]]
    BY <1>0, <1>2 DEF RecordKarbonValues
  <2>2. karbonRow' \in {"NONE", "k1", "k2"}
    BY <1>0, <1>2 DEF RecordKarbonValues
  <2>3. known[p].plan \in {"reopen", "refresh"} => known[p].row \in RowIds
    BY DEF Typed
  <2>w. WalksOn
    BY <1>0, <1>1, <1>2, <2>1, <2>2, <2>3, StepsOn DEF RecordKarbonValues
  <2>. QED  BY <1>0, <1>1, <1>2, <2>1, <2>2, <2>3, <2>w DEF WalksOn, RecordKarbonValues, Typed
<1>3. CASE FindSigner(p)
  <2>. DEFINE hand == [known[p] EXCEPT !.found = signer.who # "NONE", !.free = ~signer.confirmed]
  <2>1. hand \in Memory /\ known' = [known EXCEPT ![p] = hand]
    BY <1>0, <1>3, ZenonT(40) DEF FindSigner, Typed, Memory
  <2>2. /\ hand.plan \in {"reopen", "refresh"} => hand.row \in RowIds
        /\ hand.client \in {"NONE", "k1", "k2"}
    BY <1>0 DEF Typed, Memory
  <2>. HIDE DEF hand
  <2>w. WalksOn
    BY <1>1, <1>3, <2>1, <2>2, StepsOn DEF FindSigner
  <2>. QED  BY <1>1, <1>3, <2>1, <2>2, <2>w DEF WalksOn, FindSigner, Typed
<1>4. CASE ProposeSigner(p)
  <2>. DEFINE hand == [known[p] EXCEPT !.client = "NONE", !.found = FALSE, !.free = FALSE]
  <2>1. hand \in Memory /\ known' = [known EXCEPT ![p] = hand]
    BY <1>0, <1>4 DEF ProposeSigner, Memory, Names
  <2>2. /\ hand.plan \in {"reopen", "refresh"} => hand.row \in RowIds
        /\ hand.client \in {"NONE", "k1", "k2"}
    BY <1>0 DEF Typed, Memory
  <2>3. signer' \in [who : Names, confirmed : BOOLEAN]
    BY <1>0, <1>4 DEF ProposeSigner, Proposal, Typed, Memory
  <2>. HIDE DEF hand
  <2>w. WalksOn
    BY <1>1, <1>4, <2>1, <2>2, <2>3, StepsOn DEF ProposeSigner
  <2>. QED  BY <1>1, <1>4, <2>1, <2>2, <2>3, <2>w DEF WalksOn, ProposeSigner, Typed
<1>5. CASE ReadFields(p)
  <2>. DEFINE hand == [known[p] EXCEPT !.pair =
                           IF "NONE" \in {karbonRow, letter} THEN {} ELSE {karbonRow, letter}]
  <2>1. hand \in Memory /\ known' = [known EXCEPT ![p] = hand]
    BY <1>0, <1>5, SMTT(30) DEF ReadFields, Memory, Names, Typed
  <2>2. /\ hand.plan \in {"reopen", "refresh"} => hand.row \in RowIds
        /\ hand.client \in {"NONE", "k1", "k2"}
    BY <1>0 DEF Typed, Memory
  <2>. HIDE DEF hand
  <2>w. WalksOn
    BY <1>1, <1>5, <2>1, <2>2, StepsOn DEF ReadFields
  <2>. QED  BY <1>1, <1>5, <2>1, <2>2, <2>w DEF WalksOn, ReadFields, Typed
<1>6. CASE FindConflict(p)
  <2>1. PICK plan \in {"leave", "create", "reopen", "refresh"}, r \in RowIds \union {0} :
          /\ known' = [known EXCEPT ![p] = [known[p] EXCEPT !.plan = plan, !.row = r]]
          /\ plan \in {"reopen", "refresh"} => r \in RowIds
    <3>1. CASE known' = known
      <4>1. known' = [known EXCEPT ![p] = [known[p] EXCEPT !.plan = known[p].plan, !.row = known[p].row]]
        BY <1>0, <3>1 DEF Memory
      <4>2. known[p].plan \in {"reopen", "refresh"} => known[p].row \in RowIds
        BY DEF Typed
      <4>. QED  BY <1>0, <4>1, <4>2 DEF Memory
    <3>2. ASSUME NEW plan \in {"leave", "create", "reopen", "refresh"}, NEW r \in RowIds \union {0},
                 known' = [known EXCEPT ![p].plan = plan, ![p].row = r],
                 plan \in {"reopen", "refresh"} => r \in RowIds
          PROVE  \E plan2 \in {"leave", "create", "reopen", "refresh"}, r2 \in RowIds \union {0} :
                   /\ known' = [known EXCEPT ![p] = [known[p] EXCEPT !.plan = plan2, !.row = r2]]
                   /\ plan2 \in {"reopen", "refresh"} => r2 \in RowIds
      BY <1>0, <3>2
    <3>. QED  BY <1>6, <3>1, <3>2 DEF FindConflict, Rows
  <2>2. conflicts' \in [RowIds -> ConflictRow]
    <3>1. conflicts \in [RowIds -> ConflictRow]
      BY DEF Typed
    <3>. QED  BY <1>6, <3>1, NothingIsMemory DEF FindConflict
  <2>. DEFINE hand == [known[p] EXCEPT !.plan = plan, !.row = r]
  <2>3. /\ hand \in Memory
        /\ hand.plan \in {"reopen", "refresh"} => hand.row \in RowIds
        /\ hand.client \in {"NONE", "k1", "k2"} /\ known' = [known EXCEPT ![p] = hand]
    BY <1>0, <2>1 DEF Memory
  <2>. HIDE DEF hand
  <2>4. Step(p, "conflicts", "raising") /\ UNCHANGED <<karbonRow, signer, date, fee>>
    BY <1>6 DEF FindConflict
  <2>w. WalksOn
    BY <1>1, <2>2, <2>3, <2>4, StepsOn
  <2>. QED  BY <1>1, <2>2, <2>3, <2>4, <2>w, SMTT(30) DEF WalksOn, Typed
<1>7. CASE RaiseConflict(p)
  <2>. DEFINE hand == [known[p] EXCEPT !.pair = {}, !.row = 0, !.plan = "leave"]
  <2>1. /\ hand \in Memory
        /\ hand.plan \in {"reopen", "refresh"} => hand.row \in RowIds
        /\ hand.client \in {"NONE", "k1", "k2"} /\ known' = [known EXCEPT ![p] = hand]
    BY <1>0, <1>7 DEF RaiseConflict, Memory
  <2>2. conflicts' \in [RowIds -> ConflictRow]
    <3>1. conflicts \in [RowIds -> ConflictRow] /\ known[p].pair \in SUBSET Names
      BY <1>0 DEF Typed, Memory
    <3>. DEFINE asked == [status |-> "UNRESOLVED", about |-> known[p].pair]
    <3>2. asked \in ConflictRow
      BY <3>1 DEF ConflictRow
    <3>3. \A r \in RowIds : [conflicts[r] EXCEPT !.about = asked.about] \in ConflictRow
      BY <3>1 DEF ConflictRow
    <3>. QED  BY <1>7, <3>1, <3>2, <3>3 DEF RaiseConflict, Rows
  <2>. HIDE DEF hand
  <2>3. Step(p, "raising", "facts") /\ UNCHANGED <<karbonRow, signer, date, fee>>
    BY <1>7 DEF RaiseConflict
  <2>w. WalksOn
    BY <1>1, <2>1, <2>2, <2>3, StepsOn
  <2>. QED  BY <1>1, <2>1, <2>2, <2>3, <2>w DEF WalksOn, Typed
<1>. QED  BY <1>2, <1>3, <1>4, <1>5, <1>6, <1>7

(* The second half: the facts, the date, the fee, and what is settled. *)
LEMMA LateTyped ==
  ASSUME Typed, NEW p \in Preparers,
         \/ ReadFacts(p) \/ FindDate(p) \/ PutDate(p)
         \/ CalculateFees(p) \/ FindUnsettled(p) \/ Settle(p)
  PROVE  Typed'
<1>0. /\ known[p] \in Memory /\ known[p].client \in {"NONE", "k1", "k2"} /\ known \in [Preparers -> Memory]
      /\ known[p].plan \in {"reopen", "refresh"} => known[p].row \in RowIds
  BY DEF Typed
<1>1. {"facts", "date", "dating", "fees", "done", "settling", "settled"} \subseteq Places
  BY DEF Places
<1>2. CASE ReadFacts(p)
  <2>. DEFINE hand == [known[p] EXCEPT !.fact = fact]
  <2>1. /\ hand \in Memory /\ known' = [known EXCEPT ![p] = hand]
        /\ hand.plan \in {"reopen", "refresh"} => hand.row \in RowIds
        /\ hand.client \in {"NONE", "k1", "k2"}
    BY <1>0, <1>2 DEF ReadFacts, Typed, Memory
  <2>. HIDE DEF hand
  <2>w. WalksOn
    BY <1>1, <1>2, <2>1, StepsOn DEF ReadFacts
  <2>. QED  BY <1>1, <1>2, <2>1, <2>w DEF WalksOn, ReadFacts, Typed
<1>3. CASE FindDate(p)
  <2>. DEFINE hand == [known[p] EXCEPT !.found = date.result # "NONE", !.free = DateIsFree]
  <2>1. /\ hand \in Memory /\ known' = [known EXCEPT ![p] = hand]
        /\ hand.plan \in {"reopen", "refresh"} => hand.row \in RowIds
        /\ hand.client \in {"NONE", "k1", "k2"}
    BY <1>0, <1>3, ZenonT(40) DEF FindDate, Typed, Memory, DateIsFree
  <2>. HIDE DEF hand
  <2>w. WalksOn
    BY <1>1, <1>3, <2>1, StepsOn DEF FindDate
  <2>. QED  BY <1>1, <1>3, <2>1, <2>w DEF WalksOn, FindDate, Typed
<1>4. CASE PutDate(p)
  <2>1. Nothing.plan = "leave" /\ Nothing.client = "NONE"
    BY DEF Nothing
  <2>2. date' \in [result : Results, confirmedBy : {"nobody", "application", "person"}]
    BY <1>0, <1>4 DEF PutDate, Dated, Rule, Results, Typed, Memory
  <2>w. WalksOn
    BY <1>1, <1>4, <2>1, <2>2, NothingIsMemory, StepsOn DEF PutDate
  <2>. QED  BY <1>1, <1>4, <2>1, <2>2, NothingIsMemory, <2>w DEF WalksOn, PutDate, Typed
<1>5. CASE CalculateFees(p)
  <2>1. known' = [known EXCEPT ![p] = known[p]]
    BY <1>0, <1>5 DEF CalculateFees
  <2>2. fee' \in [amount : {"NONE", "rule", "typed"}, approved : BOOLEAN]
    BY <1>5 DEF CalculateFees, Persist
  <2>w. WalksOn
    BY <1>0, <1>1, <1>5, <2>1, <2>2, StepsOn DEF CalculateFees
  <2>. QED  BY <1>0, <1>1, <1>5, <2>1, <2>2, <2>w DEF WalksOn, CalculateFees, Typed
<1>6. CASE FindUnsettled(p)
  <2>. DEFINE hand == [known[p] EXCEPT !.free = date.confirmedBy = "nobody" /\ date.result \notin {"NONE", "blocked"}]
  <2>1. /\ hand \in Memory /\ known' = [known EXCEPT ![p] = hand]
        /\ hand.plan \in {"reopen", "refresh"} => hand.row \in RowIds
        /\ hand.client \in {"NONE", "k1", "k2"}
    BY <1>0, <1>6 DEF FindUnsettled, Typed, Memory
  <2>. HIDE DEF hand
  <2>w. WalksOn
    BY <1>1, <1>6, <2>1, StepsOn DEF FindUnsettled
  <2>. QED  BY <1>1, <1>6, <2>1, <2>w DEF WalksOn, FindUnsettled, Typed
<1>7. CASE Settle(p)
  <2>1. known' = [known EXCEPT ![p] = known[p]]
    BY <1>0, <1>7 DEF Settle
  <2>2. date' \in [result : Results, confirmedBy : {"nobody", "application", "person"}]
    BY <1>7 DEF Settle, Typed
  <2>w. WalksOn
    BY <1>0, <1>1, <1>7, <2>1, <2>2, StepsOn DEF Settle
  <2>. QED  BY <1>0, <1>1, <1>7, <2>1, <2>2, <2>w DEF WalksOn, Settle, Typed
<1>. QED  BY <1>2, <1>3, <1>4, <1>5, <1>6, <1>7

(* The sources, and people. *)
LEMMA OthersTyped ==
  ASSUME Typed, ClientCorrected \/ LetterRead \/ People
  PROVE  Typed'
<1>. USE DEF Typed
<1>1. CASE ClientCorrected \/ LetterRead
  BY <1>1 DEF ClientCorrected, LetterRead, Arrives
<1>2. Press => presses' \in 0 .. MaxPresses
  BY PreparationAssumption DEF Press
<1>3. CASE AnswerFact
  BY <1>2, <1>3 DEF AnswerFact, Press
<1>4. CASE EditSigner
  BY <1>2, <1>4 DEF EditSigner, Press, Names
<1>5. CASE CheckSigner \/ CheckDate \/ CheckFee
  BY <1>2, <1>5 DEF CheckSigner, CheckDate, CheckFee, Press
<1>6. CASE ConfirmSigner \/ ConfirmDate \/ ApproveFee
  BY <1>6, ZenonT(40) DEF ConfirmSigner, ConfirmDate, ApproveFee
<1>7. CASE ResolveConflict
  <2>1. PICK r \in RowIds : conflicts' = [conflicts EXCEPT ![r].status = "RESOLVED"]
    BY <1>7 DEF ResolveConflict, Rows
  <2>2. [conflicts[r] EXCEPT !.status = "RESOLVED"] \in ConflictRow
    BY DEF ConflictRow
  <2>3. conflicts' \in [RowIds -> ConflictRow]
    BY <2>1, <2>2
  <2>. QED  BY <1>2, <1>7, <2>3 DEF ResolveConflict, Press
<1>8. CASE OverrideFee
  BY <1>2, <1>8 DEF OverrideFee, Press, Persist
<1>. QED  BY <1>1, <1>3, <1>4, <1>5, <1>6, <1>7, <1>8 DEF People

Kept == [signer : Names, date : Results, pairs : SUBSET SUBSET Names]

LEMMA TypedStep ==
  ASSUME Typed, kept \in Kept, overlapped \in BOOLEAN, [Next]_vars
  PROVE  Typed' /\ kept' \in Kept /\ overlapped' \in BOOLEAN
<1>1. CASE UNCHANGED vars
  BY <1>1 DEF vars, Typed
<1>2. CASE Next
  <2>1. ASSUME NEW p \in Preparers, Prepare(p) PROVE Typed'
    BY <2>1, BoundsTyped, EarlyTyped, LateTyped DEF Prepare, Stop, Finish, Settled
  <2>2. Typed'
    BY <1>2, <2>1, OthersTyped DEF Next
  <2>3. Decided' \in Kept
    <3>1. Pairs' \in SUBSET SUBSET Names
      BY <2>2 DEF Pairs, Typed, ConflictRow
    <3>2. /\ (IF signer.confirmed THEN signer.who ELSE "NONE")' \in Names
          /\ (IF date.confirmedBy = "nobody" THEN "NONE" ELSE date.result)' \in Results
      BY <2>2 DEF Typed, Names, Results
    <3>. QED  BY <3>1, <3>2 DEF Decided, Kept
  <2>4. kept'  = Decided' \/ kept' = [kept EXCEPT !.pairs = @ \intersect {{karbonRow', letter'}}]
        \/ kept' = [kept EXCEPT !.signer = "NONE"] \/ kept' = kept
    BY <1>2 DEF Next, Keep, KeepUnlessEdited
  <2>5. /\ [kept EXCEPT !.pairs = @ \intersect {{karbonRow', letter'}}] \in Kept
        /\ [kept EXCEPT !.signer = "NONE"] \in Kept
    BY DEF Kept, Names
  <2>6. overlapped' \in BOOLEAN
    BY <1>2, Zenon DEF Next, NoteOverlap
  <2>. QED  BY <2>2, <2>3, <2>4, <2>5, <2>6
<1>. QED  BY <1>1, <1>2

(***************************************************************************)
(* What a step of one preparation changes.                                 *)
(***************************************************************************)
AfterReading == Places \ {"idle", "recording"}

(* A place is reached by the statement before it, and each row is written by one statement. *)
Walked(p) ==
  /\ at[p] # "idle"
  /\ \A q \in Preparers \ {p} : at'[q] = at[q] /\ known'[q] = known[q]
  /\ at'[p] # "recording"
  /\ at'[p] = "proposing" => FindSigner(p)
  /\ at'[p] = "conflicts" => ReadFields(p)
  /\ at'[p] = "raising" => FindConflict(p)
  /\ at'[p] = "date" => ReadFacts(p)
  /\ at'[p] = "dating" => FindDate(p)
  /\ at'[p] \in AfterReading => at[p] \in AfterReading \/ RecordKarbonValues(p)
  /\ at'[p] \in AfterConflicts => at[p] \in AfterConflicts \/ RaiseConflict(p)
  /\ at'[p] \in AfterDates => at[p] \in AfterDates \/ PutDate(p)
  /\ at'[p] # "raising" => known'[p].plan = "leave" \/ (known'[p].plan = known[p].plan /\ at[p] # "raising")
  /\ known'[p].pair \in {{}, known[p].pair} \/ ReadFields(p)
  /\ UNCHANGED <<client, letter, fact, alone>>
  /\ karbonRow' # karbonRow => RecordKarbonValues(p)
  /\ signer' # signer => ProposeSigner(p)
  /\ conflicts' # conflicts => FindConflict(p) \/ RaiseConflict(p)
  /\ date' # date => PutDate(p) \/ Settle(p)

LEMMA HowARunGoes ==
  ASSUME Typed, NEW p \in Preparers, Prepare(p)
  PROVE  Begin(p) \/ (End(p) /\ at[p] # "idle") \/ Walked(p)
<1>0. at \in [Preparers -> Places] /\ known \in [Preparers -> Memory]
  BY DEF Typed
<1>. USE <1>0 DEF Step, Walked, AfterReading, AfterConflicts, AfterDates, Places
<1>1. CASE RecordKarbonValues(p)
  BY <1>1 DEF RecordKarbonValues
<1>2. CASE FindSigner(p)
  BY <1>2 DEF FindSigner, Memory
<1>3. CASE ProposeSigner(p)
  BY <1>3 DEF ProposeSigner, Memory
<1>4. CASE ReadFields(p)
  BY <1>4 DEF ReadFields, Memory
<1>5. CASE FindConflict(p)
  <2>1. \/ known' = known
        \/ \E plan, r : known' = [known EXCEPT ![p].plan = plan, ![p].row = r]
    BY <1>5 DEF FindConflict
  <2>2. known'[p].pair = known[p].pair /\ \A q \in Preparers \ {p} : known'[q] = known[q]
    <3>1. CASE known' = known
      BY <3>1
    <3>2. CASE \E plan, r : known' = [known EXCEPT ![p].plan = plan, ![p].row = r]
      <4>1. PICK plan, r : known' = [known EXCEPT ![p].plan = plan, ![p].row = r]
        BY <3>2
      <4>2. /\ known'[p] = [known[p] EXCEPT !.plan = plan, !.row = r] /\ "pair" \in DOMAIN known[p]
            /\ \A q \in Preparers \ {p} : known'[q] = known[q]
        BY <1>0, <4>1 DEF Memory
      <4>. QED  BY <4>2, Zenon
    <3>. QED  BY <2>1, <3>1, <3>2
  <2>3. Step(p, "conflicts", "raising") /\ UNCHANGED <<karbonRow, signer, date, fee>>
    BY <1>5 DEF FindConflict
  <2>. QED  BY <1>5, <2>2, <2>3
<1>6. CASE RaiseConflict(p)
  BY <1>6 DEF RaiseConflict, Memory
<1>7. CASE ReadFacts(p)
  BY <1>7 DEF ReadFacts, Memory
<1>8. CASE FindDate(p)
  BY <1>8 DEF FindDate, Memory
<1>9. CASE PutDate(p)
  BY <1>9 DEF PutDate, Memory, Nothing
<1>10. CASE CalculateFees(p)
  BY <1>10 DEF CalculateFees
<1>11. CASE FindUnsettled(p)
  BY <1>11 DEF FindUnsettled, Memory
<1>12. CASE Settle(p)
  BY <1>12 DEF Settle
<1>13. CASE Finish(p) \/ Settled(p) \/ Stop(p)
  BY <1>13 DEF Finish, Settled, Stop
<1>. QED  BY <1>1, <1>2, <1>3, <1>4, <1>5, <1>6, <1>7, <1>8, <1>9, <1>10, <1>11, <1>12, <1>13 DEF Prepare

(* What begins or ends is one preparation, with a memory of its own. *)
LEMMA HowARunIsBounded ==
  ASSUME Typed, NEW p \in Preparers, Begin(p) \/ End(p)
  PROVE  /\ \A q \in Preparers \ {p} : at'[q] = at[q] /\ known'[q] = known[q]
         /\ at'[p] = IF Begin(p) THEN "recording" ELSE "idle"
         /\ known'[p].plan \in {"leave", known[p].plan} /\ known'[p].pair \in {{}, known[p].pair}
         /\ Begin(p) => at[p] = "idle" /\ known'[p].client = client
         /\ End(p) => known'[p].plan = "leave"
         /\ UNCHANGED <<client, letter, fact, karbonRow, signer, conflicts, date>>
<1>0. at \in [Preparers -> Places] /\ known \in [Preparers -> Memory] /\ "recording" # "idle"
  BY DEF Typed
<1>1. CASE Begin(p)
  <2>1. ~End(p)
    BY <1>0, <1>1 DEF Begin, End
  <2>. QED  BY <1>0, <1>1, <2>1 DEF Begin, Memory
<1>2. CASE End(p) /\ ~Begin(p)
  BY <1>0, <1>2 DEF End, Nothing
<1>. QED  BY <1>1, <1>2

(***************************************************************************)
(* Nothing that stands for an absent value is ever compared with another.  *)
(***************************************************************************)
Apart ==
  /\ \A r \in RowIds : "NONE" \notin conflicts[r].about
  /\ \A p \in Preparers : "NONE" \notin known[p].pair
  /\ \A p \in Preparers : at[p] # "raising" => known[p].plan = "leave"

LEMMA ApartStep ==
  ASSUME Typed, Apart, [Next]_vars
  PROVE  Apart'
<1>. USE DEF Apart
<1>0. conflicts \in [RowIds -> ConflictRow] /\ known \in [Preparers -> Memory]
  BY DEF Typed
<1>1. ASSUME NEW p \in Preparers, Prepare(p) PROVE Apart'
  <2>1. CASE Begin(p) \/ (End(p) /\ at[p] # "idle")
    <3>1. /\ \A q \in Preparers \ {p} : at'[q] = at[q] /\ known'[q] = known[q]
          /\ known'[p].plan \in {"leave", known[p].plan} /\ known'[p].pair \in {{}, known[p].pair}
          /\ Begin(p) => at[p] = "idle"
          /\ End(p) => known'[p].plan = "leave"
          /\ UNCHANGED conflicts
      BY <2>1, HowARunIsBounded
    <3>2. known'[p].plan = "leave"
      BY <2>1, <3>1
    <3>3. \A q \in Preparers : at'[q] # "raising" => known'[q].plan = "leave"
      BY <3>1, <3>2
    <3>4. \A q \in Preparers : "NONE" \notin known'[q].pair
      BY <3>1
    <3>. QED  BY <3>1, <3>3, <3>4
  <2>2. CASE Walked(p)
    <3>1. ReadFields(p) => "NONE" \notin known'[p].pair
      BY <1>0 DEF ReadFields, Memory
    <3>2. \A q \in Preparers : "NONE" \notin known'[q].pair
      BY <2>2, <3>1 DEF Walked
    <3>3. \A q \in Preparers : at'[q] # "raising" => known'[q].plan = "leave"
      BY <2>2 DEF Walked
    <3>4. ASSUME FindConflict(p) PROVE \A r \in RowIds : "NONE" \notin conflicts'[r].about
      BY <1>0, <3>4 DEF FindConflict, NoRow
    <3>5. ASSUME RaiseConflict(p) PROVE \A r \in RowIds : "NONE" \notin conflicts'[r].about
      BY <1>0, <3>5 DEF RaiseConflict, ConflictRow
    <3>. QED  BY <2>2, <3>2, <3>3, <3>4, <3>5 DEF Walked
  <2>. QED  BY <1>1, <2>1, <2>2, HowARunGoes
<1>2. CASE ClientCorrected \/ LetterRead \/ UNCHANGED vars
  BY <1>2 DEF ClientCorrected, LetterRead, Arrives, vars
<1>3. CASE People
  <2>1. ASSUME ResolveConflict PROVE \A r \in RowIds : conflicts'[r].about = conflicts[r].about
    BY <1>0, <2>1 DEF ResolveConflict, ConflictRow
  <2>2. conflicts' # conflicts => ResolveConflict
    BY <1>3 DEF People, AnswerFact, EditSigner, CheckSigner, ConfirmSigner, CheckDate, ConfirmDate,
                OverrideFee, CheckFee, ApproveFee
  <2>3. UNCHANGED <<at, known>>
    BY <1>3 DEF People, AnswerFact, EditSigner, CheckSigner, ConfirmSigner, CheckDate, ConfirmDate,
                OverrideFee, CheckFee, ApproveFee, ResolveConflict, Press
  <2>. QED  BY <2>1, <2>2, <2>3
<1>. QED  BY <1>1, <1>2, <1>3 DEF Next

(***************************************************************************)
(* Decisions stand.                                                        *)
(***************************************************************************)
(* While a decision that was there when nothing ran stands, nobody who is about to write the *)
(* signer or the date has found it free.                                                     *)
SignerKept == kept.signer # "NONE" =>
  /\ signer = [who |-> kept.signer, confirmed |-> TRUE]
  /\ \A p \in Preparers : at[p] = "proposing" => ~known[p].free
DateKept == kept.date # "NONE" =>
  /\ date.result = kept.date /\ date.confirmedBy # "nobody"
  /\ \A p \in Preparers : at[p] = "dating" => ~known[p].free

(* One row holds the decision about this pair, and nobody is about to open or refresh it. *)
Guarded(r, pair) ==
  /\ conflicts[r] = [status |-> "RESOLVED", about |-> pair]
  /\ \A p \in Preparers :
       /\ at[p] = "conflicts" => known[p].pair = pair
       /\ at[p] = "raising" => known[p].plan \in {"leave", "reopen"}
       /\ at[p] = "raising" /\ known[p].plan = "reopen" => known[p].row # r
PairsKept == \A pair \in kept.pairs : pair = {karbonRow, letter} /\ \E r \in RowIds : Guarded(r, pair)

KeptInv == SignerKept /\ DateKept /\ PairsKept

(* What is decided when nothing runs stands, to begin with. *)
LEMMA KeptAfresh ==
  ASSUME Typed', AllIdle', kept' = Decided'
  PROVE  KeptInv'
<1>0. \A p \in Preparers : at'[p] = "idle"
  BY DEF AllIdle
<1>1. SignerKept'
  BY <1>0 DEF SignerKept, Decided, Typed
<1>2. DateKept'
  BY <1>0 DEF DateKept, Decided, Typed
<1>3. ASSUME NEW pair \in kept'.pairs
      PROVE  pair = {karbonRow', letter'} /\ \E r \in RowIds : Guarded(r, pair)'
  <2>1. pair \in Pairs' /\ pair = {karbonRow', letter'}
    BY <1>3 DEF Decided
  <2>2. PICK r \in RowIds : conflicts'[r].status = "RESOLVED" /\ conflicts'[r].about = pair
    BY <2>1 DEF Pairs
  <2>3. conflicts'[r] = [status |-> "RESOLVED", about |-> pair]
    BY <2>2 DEF Typed, ConflictRow
  <2>. QED  BY <1>0, <2>1, <2>3 DEF Guarded
<1>. QED  BY <1>1, <1>2, <1>3 DEF KeptInv, PairsKept

(* A preparation's step leaves what stands, and what it finds is not free. *)
LEMMA KeptThroughWalks ==
  ASSUME Typed, Apart, KeptInv, kept \in Kept, NEW p \in Preparers, Walked(p),
         kept' = [kept EXCEPT !.pairs = @ \intersect {{karbonRow', letter'}}]
  PROVE  KeptInv'
<1>0. /\ known \in [Preparers -> Memory] /\ conflicts \in [RowIds -> ConflictRow]
      /\ kept'.signer = kept.signer /\ kept'.date = kept.date
      /\ kept'.pairs = kept.pairs \intersect {{karbonRow', letter'}}
  BY DEF Typed, Kept
<1>1. SignerKept'
  <2>. SUFFICES ASSUME kept.signer # "NONE"
                PROVE  /\ signer' = [who |-> kept.signer, confirmed |-> TRUE]
                       /\ \A q \in Preparers : at'[q] = "proposing" => ~known'[q].free
    BY <1>0 DEF SignerKept
  <2>1. /\ signer = [who |-> kept.signer, confirmed |-> TRUE]
        /\ \A q \in Preparers : at[q] = "proposing" => ~known[q].free
    BY DEF KeptInv, SignerKept
  <2>2. ProposeSigner(p) => signer' = signer
    BY <2>1 DEF ProposeSigner, Step
  <2>3. FindSigner(p) => ~known'[p].free
    BY <1>0, <2>1 DEF FindSigner, Memory
  <2>. QED  BY <2>1, <2>2, <2>3 DEF Walked
<1>2. DateKept'
  <2>. SUFFICES ASSUME kept.date # "NONE"
                PROVE  /\ date'.result = kept.date /\ date'.confirmedBy # "nobody"
                       /\ \A q \in Preparers : at'[q] = "dating" => ~known'[q].free
    BY <1>0 DEF DateKept
  <2>1. /\ date.result = kept.date /\ date.confirmedBy # "nobody"
        /\ \A q \in Preparers : at[q] = "dating" => ~known[q].free
    BY DEF KeptInv, DateKept
  <2>2. PutDate(p) \/ Settle(p) => date' = date
    BY <2>1 DEF PutDate, Settle, Step
  <2>3. FindDate(p) => ~known'[p].free
    BY <1>0, <2>1 DEF FindDate, DateIsFree, Memory
  <2>. QED  BY <2>1, <2>2, <2>3 DEF Walked
<1>3. ASSUME NEW pair \in kept'.pairs
      PROVE  pair = {karbonRow', letter'} /\ \E r \in RowIds : Guarded(r, pair)'
  <2>1. pair \in kept.pairs /\ pair = {karbonRow', letter'} /\ pair = {karbonRow, letter}
    BY <1>0, <1>3 DEF KeptInv, PairsKept
  <2>2. PICK r \in RowIds : Guarded(r, pair)
    BY <2>1 DEF KeptInv, PairsKept
  <2>3. "NONE" \notin pair
    BY <2>2 DEF Guarded, Apart
  <2>4. ReadFields(p) => known'[p].pair = pair
    <3>1. (IF "NONE" \in {karbonRow, letter} THEN {} ELSE {karbonRow, letter}) = pair
      BY <2>1, <2>3
    <3>2. ReadFields(p) => known'[p].pair = IF "NONE" \in {karbonRow, letter} THEN {} ELSE {karbonRow, letter}
      BY <1>0 DEF ReadFields, Memory
    <3>. QED  BY <3>1, <3>2
  <2>5. ASSUME FindConflict(p)
        PROVE  /\ known'[p].plan \in {"leave", "reopen"}
               /\ known'[p].plan = "reopen" => known'[p].row # r
               /\ conflicts'[r] = conflicts[r]
    <3>1. known[p].pair = pair /\ known[p].plan = "leave"
      BY <2>2, <2>5 DEF FindConflict, Step, Guarded, Apart
    <3>2. r \in Rows("RESOLVED") /\ r \notin Rows("UNRESOLVED")
      BY <2>2 DEF Rows, Guarded
    <3>3. CASE UNCHANGED known
      BY <2>5, <3>1, <3>2, <3>3 DEF FindConflict
    <3>4. CASE ~UNCHANGED known
      <4>1. PICK s \in Rows("RESOLVED") :
              known' = [known EXCEPT ![p].plan = IF Covers(s, pair) THEN "leave" ELSE "reopen", ![p].row = s]
        BY <2>5, <3>1, <3>2, <3>4 DEF FindConflict
      <4>2. UNCHANGED conflicts
        BY <2>5, <3>4 DEF FindConflict
      <4>3. known'[p].plan = (IF Covers(s, pair) THEN "leave" ELSE "reopen") /\ known'[p].row = s
        BY <1>0, <4>1 DEF Memory
      <4>4. Covers(r, pair)
        BY <2>2 DEF Covers, Guarded
      <4>. QED  BY <4>2, <4>3, <4>4
    <3>. QED  BY <3>3, <3>4
  <2>6. RaiseConflict(p) => conflicts'[r] = conflicts[r]
    <3>. SUFFICES ASSUME RaiseConflict(p) PROVE conflicts'[r] = conflicts[r]
      OBVIOUS
    <3>1. known[p].plan \in {"leave", "reopen"} /\ (known[p].plan = "reopen" => known[p].row # r)
      BY <2>2 DEF RaiseConflict, Step, Guarded
    <3>2. \/ UNCHANGED conflicts
          \/ known[p].plan = "reopen" /\ \E row : conflicts' = [conflicts EXCEPT ![known[p].row] = row]
      BY <3>1 DEF RaiseConflict
    <3>. QED  BY <1>0, <3>1, <3>2
  <2>7. conflicts'[r] = conflicts[r]
    BY <2>5, <2>6 DEF Walked
  <2>8. ASSUME NEW q \in Preparers
        PROVE  /\ at'[q] = "conflicts" => known'[q].pair = pair
               /\ at'[q] = "raising" => known'[q].plan \in {"leave", "reopen"}
               /\ at'[q] = "raising" /\ known'[q].plan = "reopen" => known'[q].row # r
    BY <2>2, <2>4, <2>5 DEF Walked, Guarded
  <2>. QED  BY <2>1, <2>2, <2>7, <2>8, ZenonT(40) DEF Guarded
<1>. QED  BY <1>1, <1>2, <1>3 DEF KeptInv, PairsKept

(* People's actions: what they change of the rows, each by one of them. *)
LEMMA PeopleDecide ==
  ASSUME People
  PROVE  /\ UNCHANGED <<client, letter, karbonRow, at, known, runs>>
         /\ fact' # fact => AnswerFact
         /\ alone' \in {{}, alone} /\ (~AnswerFact => UNCHANGED <<fact, alone>>)
         /\ conflicts' # conflicts => ResolveConflict
         /\ date' # date => ConfirmDate
         /\ signer' # signer => EditSigner \/ ConfirmSigner
         /\ fee' # fee => OverrideFee \/ ApproveFee
<1>. USE DEF Press
<1>1. CASE AnswerFact
  BY <1>1 DEF AnswerFact
<1>2. CASE EditSigner \/ ConfirmSigner
  BY <1>2 DEF EditSigner, ConfirmSigner
<1>3. CASE CheckSigner \/ CheckDate \/ CheckFee
  BY <1>3 DEF CheckSigner, CheckDate, CheckFee
<1>4. CASE ConfirmDate \/ ResolveConflict
  BY <1>4 DEF ConfirmDate, ResolveConflict
<1>5. CASE OverrideFee \/ ApproveFee
  BY <1>5 DEF OverrideFee, ApproveFee
<1>. QED  BY <1>1, <1>2, <1>3, <1>4, <1>5 DEF People

LEMMA KeptThroughPeople ==
  ASSUME Typed, KeptInv, kept \in Kept, People, ~AllIdle, KeepUnlessEdited
  PROVE  KeptInv'
<1>0. /\ UNCHANGED <<letter, karbonRow, at, known>>
      /\ kept'.date = kept.date /\ kept'.pairs = kept.pairs
      /\ kept'.signer # "NONE" => kept'.signer = kept.signer /\ signer' = signer
  BY PeopleDecide DEF KeepUnlessEdited, Kept
<1>1. SignerKept'
  BY <1>0 DEF KeptInv, SignerKept
<1>2. DateKept'
  <2>1. date'.result = date.result /\ (date.confirmedBy # "nobody" => date'.confirmedBy # "nobody")
    BY PeopleDecide DEF ConfirmDate, Typed
  <2>. QED  BY <1>0, <2>1 DEF KeptInv, DateKept
<1>3. PairsKept'
  <2>1. \A r \in RowIds : conflicts[r].status = "RESOLVED" => conflicts'[r] = conflicts[r]
    BY PeopleDecide DEF ResolveConflict, Rows, Typed
  <2>2. \A r \in RowIds, pair \in kept.pairs : Guarded(r, pair) => Guarded(r, pair)'
    BY <1>0, <2>1 DEF Guarded
  <2>. QED  BY <1>0, <2>2 DEF KeptInv, PairsKept
<1>. QED  BY <1>1, <1>2, <1>3 DEF KeptInv

(* Other preparations, and sources that change, leave what a row decides as it is. *)
LEMMA KeptThroughOthers ==
  ASSUME Typed, KeptInv, kept \in Kept,
         kept' = [kept EXCEPT !.pairs = @ \intersect {{karbonRow', letter'}}],
         UNCHANGED <<karbonRow, signer, date, conflicts>>,
         \A q \in Preparers : at'[q] \in {"idle", "recording"} \/ (at'[q] = at[q] /\ known'[q] = known[q])
  PROVE  KeptInv'
<1>0. /\ kept'.signer = kept.signer /\ kept'.date = kept.date
      /\ kept'.pairs = kept.pairs \intersect {{karbonRow', letter'}}
  BY DEF Kept
<1>1. SignerKept' /\ DateKept'
  BY <1>0 DEF KeptInv, SignerKept, DateKept
<1>2. \A r \in RowIds, pair \in kept.pairs : Guarded(r, pair) => Guarded(r, pair)'
  BY DEF Guarded
<1>3. PairsKept'
  BY <1>0, <1>2 DEF KeptInv, PairsKept
<1>. QED  BY <1>1, <1>3 DEF KeptInv

LEMMA KeptStep ==
  ASSUME Typed, Typed', Apart, KeptInv, kept \in Kept, [Next]_vars
  PROVE  KeptInv'
<1>1. CASE UNCHANGED vars
  <2>1. UNCHANGED <<karbonRow, letter, signer, conflicts, date, at, known, kept>>
    BY <1>1 DEF vars
  <2>2. \A r \in RowIds, pair \in kept.pairs : Guarded(r, pair) => Guarded(r, pair)'
    BY <2>1 DEF Guarded
  <2>. QED  BY <2>1, <2>2 DEF KeptInv, SignerKept, DateKept, PairsKept
<1>2. CASE People /\ KeepUnlessEdited
  <2>1. AllIdle => AllIdle' /\ kept' = Decided'
    BY <1>2, PeopleDecide DEF KeepUnlessEdited, AllIdle
  <2>. QED  BY <1>2, <2>1, KeptAfresh, KeptThroughPeople
<1>3. CASE (ClientCorrected \/ LetterRead) /\ Keep
  <2>1. UNCHANGED <<karbonRow, signer, date, conflicts, at, known>>
    BY <1>3 DEF ClientCorrected, LetterRead, Arrives
  <2>. QED  BY <1>3, <2>1, KeptAfresh, KeptThroughOthers DEF Keep
<1>4. ASSUME NEW p \in Preparers, Prepare(p), Keep PROVE KeptInv'
  <2>1. CASE Begin(p) \/ End(p)
    <3>1. /\ UNCHANGED <<karbonRow, signer, date, conflicts>>
          /\ \A q \in Preparers : at'[q] \in {"idle", "recording"} \/ (at'[q] = at[q] /\ known'[q] = known[q])
      BY <2>1, HowARunIsBounded
    <3>. QED  BY <1>4, <3>1, KeptAfresh, KeptThroughOthers DEF Keep
  <2>2. CASE Walked(p)
    BY <1>4, <2>2, KeptAfresh, KeptThroughWalks DEF Keep
  <2>. QED  BY <1>4, <2>1, <2>2, HowARunGoes
<1>. QED  BY <1>1, <1>2, <1>3, <1>4 DEF Next

(***************************************************************************)
(* What is on the table: nothing before the letter is read, and no more    *)
(* than one row as long as no two preparations have run at once.           *)
(***************************************************************************)
Quiet == letter = "NONE" =>
  /\ \A r \in RowIds : conflicts[r].status = "NONE"
  /\ \A p \in Preparers : known[p].pair = {} /\ known[p].plan = "leave"

OneByOne == ~overlapped =>
  /\ \A p, q \in Preparers : p = q \/ at[p] = "idle" \/ at[q] = "idle"
  /\ \A r, s \in RowIds : r = s \/ conflicts[r].status = "NONE" \/ conflicts[s].status = "NONE"
  /\ \A p \in Preparers : at[p] = "raising" /\ known[p].plan = "create" =>
       \A r \in RowIds : conflicts[r].status = "NONE"

(* A row is only opened about a pair that has been read. *)
LEMMA QuietStep ==
  ASSUME Typed, Quiet, [Next]_vars
  PROVE  Quiet'
<1>0. known \in [Preparers -> Memory] /\ conflicts \in [RowIds -> ConflictRow]
  BY DEF Typed
<1>1. CASE letter' # "NONE"
  BY <1>1 DEF Quiet
<1>2. ASSUME letter = "NONE", NEW p \in Preparers, Prepare(p) PROVE Quiet'
  <2>1. /\ \A r \in RowIds : conflicts[r].status = "NONE"
        /\ \A q \in Preparers : known[q].pair = {} /\ known[q].plan = "leave"
    BY <1>2 DEF Quiet
  <2>2. CASE Begin(p) \/ End(p)
    BY <2>1, <2>2, HowARunIsBounded DEF Quiet
  <2>3. CASE Walked(p)
    <3>1. ReadFields(p) => known'[p].pair = {}
      BY <1>0, <1>2 DEF ReadFields, Memory
    <3>2. FindConflict(p) => UNCHANGED <<conflicts, known>>
      <4>1. known[p].pair = {} /\ Cardinality(known[p].pair) = 0
        BY <2>1, FS_EmptySet
      <4>2. Cardinality(known[p].pair) # 1 /\ Cardinality(known[p].pair) # 2
        BY <4>1
      <4>. QED  BY <4>1, <4>2, Zenon DEF FindConflict
    <3>3. RaiseConflict(p) => UNCHANGED conflicts
      BY <2>1 DEF RaiseConflict
    <3>4. known'[p].pair = {} /\ known'[p].plan = "leave"
      BY <2>1, <2>3, <3>1, <3>2 DEF Walked
    <3>. QED  BY <2>1, <2>3, <3>2, <3>3, <3>4 DEF Walked, Quiet
  <2>. QED  BY <1>2, <2>2, <2>3, HowARunGoes
<1>3. CASE letter = "NONE" /\ People
  <2>1. UNCHANGED <<letter, known>> /\ (conflicts' # conflicts => ResolveConflict)
    BY <1>3, PeopleDecide
  <2>2. ~ResolveConflict
    BY <1>3 DEF ResolveConflict, Rows, Quiet
  <2>. QED  BY <2>1, <2>2 DEF Quiet
<1>4. CASE (ClientCorrected /\ letter = "NONE") \/ UNCHANGED vars
  BY <1>4 DEF ClientCorrected, Arrives, vars, Quiet
<1>5. CASE LetterRead \/ (letter # "NONE" /\ Next)
  <2>1. letter' # "NONE"
    <3>1. CASE LetterRead
      BY <3>1 DEF LetterRead
    <3>2. ASSUME letter # "NONE", NEW p \in Preparers, Prepare(p) PROVE letter' = letter
      BY <3>2, HowARunGoes, HowARunIsBounded DEF Walked
    <3>3. People \/ ClientCorrected => letter' = letter
      BY PeopleDecide DEF ClientCorrected
    <3>. QED  BY <1>5, <3>1, <3>2, <3>3 DEF Next
  <2>. QED  BY <1>1, <2>1
<1>. QED  BY <1>2, <1>3, <1>4, <1>5 DEF Next

(* Of preparations that do not overlap only one holds a plan, and it opens a row only where there is none. *)
LEMMA OneByOneStep ==
  ASSUME Typed, Apart, OneByOne, [Next]_vars
  PROVE  OneByOne'
<1>0. known \in [Preparers -> Memory] /\ conflicts \in [RowIds -> ConflictRow] /\ at \in [Preparers -> Places]
  BY DEF Typed
<1>1. ASSUME NEW p \in Preparers, Prepare(p), NoteOverlap, ~overlapped' PROVE OneByOne'
  <2>1. ~overlapped /\ ~Overlaps'
    BY <1>1, Zenon DEF NoteOverlap
  <2>2. /\ \A q, o \in Preparers : q = o \/ at[q] = "idle" \/ at[o] = "idle"
        /\ \A q, o \in Preparers : q = o \/ at'[q] = "idle" \/ at'[o] = "idle"
        /\ \A r, s \in RowIds : r = s \/ conflicts[r].status = "NONE" \/ conflicts[s].status = "NONE"
        /\ at[p] = "raising" /\ known[p].plan = "create" => \A r \in RowIds : conflicts[r].status = "NONE"
    BY <2>1 DEF OneByOne, Overlaps
  <2>3. CASE Begin(p) \/ End(p)
    <3>1. UNCHANGED conflicts /\ \A q \in Preparers : at'[q] = "raising" => at[q] = "raising" /\ known'[q] = known[q]
      BY <2>3, HowARunIsBounded
    <3>. QED  BY <2>1, <2>2, <3>1 DEF OneByOne
  <2>4. CASE Walked(p)
    <3>1. \A q \in Preparers \ {p} : at'[q] = "idle"
      BY <2>2, <2>4 DEF Walked
    <3>2. ASSUME FindConflict(p)
          PROVE  /\ \A r \in RowIds : conflicts'[r].status \in {"NONE", conflicts[r].status}
                 /\ known'[p].plan = "create" =>
                      known'[p].plan = known[p].plan \/ \A r \in RowIds : conflicts'[r].status = "NONE"
      <4>1. CASE UNCHANGED known
        BY <1>0, <3>2, <4>1 DEF FindConflict, NoRow
      <4>2. CASE ~UNCHANGED known
        <5>1. UNCHANGED conflicts
          BY <3>2, <4>2 DEF FindConflict
        <5>2. \/ \E plan, r : known' = [known EXCEPT ![p].plan = plan, ![p].row = r] /\ plan # "create"
              \/ Rows("RESOLVED") = {} /\ Rows("UNRESOLVED") = {}
          <6>1. \/ \E r \in Rows("RESOLVED") : known' = [known EXCEPT
                      ![p].plan = IF Covers(r, known[p].pair) THEN "leave" ELSE "reopen", ![p].row = r]
                \/ \E r \in Rows("UNRESOLVED") : known' = [known EXCEPT ![p].plan = "refresh", ![p].row = r]
                \/ Rows("RESOLVED") = {} /\ Rows("UNRESOLVED") = {}
            BY <3>2, <4>2, Zenon DEF FindConflict
          <6>2. "refresh" # "create" /\ \A r : (IF Covers(r, known[p].pair) THEN "leave" ELSE "reopen") # "create"
            OBVIOUS
          <6>. QED  BY <6>1, <6>2, Zenon
        <5>3. CASE \E plan, r : known' = [known EXCEPT ![p].plan = plan, ![p].row = r] /\ plan # "create"
          <6>1. PICK plan, r : known' = [known EXCEPT ![p].plan = plan, ![p].row = r] /\ plan # "create"
            BY <5>3
          <6>2. known'[p].plan = plan
            BY <1>0, <6>1 DEF Memory
          <6>. QED  BY <5>1, <6>1, <6>2
        <5>4. CASE Rows("RESOLVED") = {} /\ Rows("UNRESOLVED") = {}
          BY <1>0, <5>1, <5>4 DEF Rows, ConflictRow
        <5>. QED  BY <5>2, <5>3, <5>4
      <4>. QED  BY <4>1, <4>2
    <3>3. ASSUME RaiseConflict(p)
          PROVE  \A r, s \in RowIds : r = s \/ conflicts'[r].status = "NONE" \/ conflicts'[s].status = "NONE"
      <4>1. CASE known[p].plan = "create"
        <5>1. PICK q \in RowIds, asked \in ConflictRow : conflicts' = [conflicts EXCEPT ![q] = asked]
          <6>1. [status |-> "UNRESOLVED", about |-> known[p].pair] \in ConflictRow
            BY <1>0 DEF Memory, ConflictRow
          <6>. QED  BY <3>3, <4>1, <6>1 DEF RaiseConflict, Rows
        <5>2. \A r \in RowIds : conflicts[r].status = "NONE"
          BY <2>2, <3>3, <4>1 DEF RaiseConflict, Step
        <5>. QED  BY <1>0, <5>1, <5>2
      <4>2. CASE known[p].plan # "create"
        <5>1. \A r \in RowIds : conflicts[r].status = "NONE" => conflicts'[r].status = "NONE"
          BY <1>0, <3>3, <4>2 DEF RaiseConflict
        <5>. QED  BY <2>2, <5>1
      <4>. QED  BY <4>1, <4>2
    <3>4. \A r, s \in RowIds : r = s \/ conflicts'[r].status = "NONE" \/ conflicts'[s].status = "NONE"
      BY <2>2, <2>4, <3>2, <3>3 DEF Walked
    <3>5. at'[p] = "raising" /\ known'[p].plan = "create" => \A r \in RowIds : conflicts'[r].status = "NONE"
      <4>1. at'[p] = "raising" => FindConflict(p)
        BY <2>4 DEF Walked
      <4>2. FindConflict(p) => known[p].plan = "leave"
        BY DEF FindConflict, Step, Apart
      <4>. QED  BY <3>2, <4>1, <4>2
    <3>6. \A q \in Preparers : at'[q] = "raising" => q = p
      BY <3>1
    <3>. QED  BY <2>2, <3>4, <3>5, <3>6 DEF OneByOne
  <2>. QED  BY <1>1, <2>3, <2>4, HowARunGoes
<1>2. CASE People /\ UNCHANGED overlapped
  <2>1. UNCHANGED <<at, known>> /\ (conflicts' # conflicts => ResolveConflict)
    BY <1>2, PeopleDecide
  <2>2. ASSUME ResolveConflict PROVE \A r \in RowIds : conflicts[r].status = "NONE" <=> conflicts'[r].status = "NONE"
    BY <1>0, <2>2 DEF ResolveConflict, Rows, ConflictRow
  <2>3. \A r \in RowIds : conflicts[r].status = "NONE" <=> conflicts'[r].status = "NONE"
    BY <2>1, <2>2
  <2>. QED  BY <1>2, <2>1, <2>3 DEF OneByOne
<1>3. CASE (ClientCorrected \/ LetterRead) /\ NoteOverlap
  <2>1. UNCHANGED <<conflicts, at, known>>
    BY <1>3 DEF ClientCorrected, LetterRead, Arrives
  <2>2. ~overlapped' => ~overlapped
    BY <1>3, Zenon DEF NoteOverlap
  <2>. QED  BY <2>1, <2>2 DEF OneByOne
<1>4. CASE UNCHANGED vars
  BY <1>4 DEF vars, OneByOne
<1>5. CASE overlapped'
  BY <1>5 DEF OneByOne
<1>. QED  BY <1>1, <1>2, <1>3, <1>4, <1>5 DEF Next

(***************************************************************************)
(* A preparation nothing interferes with.                                  *)
(***************************************************************************)
Contested == {client, letter} \ {"NONE"}
Table == IF "NONE" \in {client, letter} THEN {} ELSE {client, letter}
Disagree == letter # "NONE" /\ Cardinality(Contested) = 2
Asked ==
  IF Disagree THEN \E r \in RowIds : conflicts[r].status # "NONE" /\ conflicts[r].about = Contested
  ELSE Rows("UNRESOLVED") = {}

(* It runs alone, and what it has read or written so far is what the sources say. *)
ByTheSources(p) ==
  /\ at[p] = "recording" => known[p].client = client
  /\ at[p] \in AfterReading => karbonRow = client
  /\ at[p] \in {"conflicts", "raising"} => known[p].pair = Table
  /\ at[p] = "raising" => IF known[p].plan = "leave" THEN Asked ELSE Disagree
  /\ at[p] \in AfterConflicts => Asked
ByTheFact(p) ==
  /\ at[p] \in {"date", "dating"} => known[p].fact = fact
  /\ at[p] = "dating" /\ date.confirmedBy = "nobody" => known[p].free
  /\ at[p] \in AfterDates /\ date.confirmedBy = "nobody" => date.result = Rule(fact)
AloneInv ==
  \A p \in alone :
    (\A q \in Preparers \ {p} : at[q] = "idle") /\ ByTheSources(p) /\ ByTheFact(p)

(* Whoever is alone after a step of p is p. *)
LEMMA AloneIsWhoWalks ==
  ASSUME Typed, AloneInv, NEW p \in Preparers, Prepare(p), NEW q \in alone'
  PROVE  /\ q = p /\ ~End(p) /\ \A r \in Preparers \ {p} : at'[r] = "idle"
         /\ ~Begin(p) => p \in alone
<1>1. CASE Begin(p)
  <2>1. AllIdle /\ q = p
    BY <1>1 DEF Begin
  <2>2. ~End(p)
    BY <1>1 DEF Begin, End, Typed
  <2>. QED  BY <1>1, <2>1, <2>2, HowARunIsBounded DEF AllIdle
<1>2. CASE End(p) /\ at[p] # "idle" /\ ~Begin(p)
  BY <1>2 DEF End, AloneInv, Typed
<1>3. CASE Walked(p) /\ ~Begin(p)
  <2>1. q \in alone /\ at[p] # "idle"
    BY <1>3 DEF Walked
  <2>2. q = p /\ \A r \in Preparers \ {p} : at[r] = "idle"
    BY <2>1 DEF AloneInv, Typed
  <2>3. ~End(p)
    BY <1>3, <2>1, <2>2 DEF Walked, End
  <2>. QED  BY <1>3, <2>1, <2>2, <2>3 DEF Walked
<1>. QED  BY <1>1, <1>2, <1>3, HowARunGoes

LEMMA AloneStep ==
  ASSUME Typed, Typed', Apart, Quiet, Quiet', AloneInv, [Next]_vars
  PROVE  AloneInv'
<1>0. /\ known \in [Preparers -> Memory] /\ conflicts \in [RowIds -> ConflictRow]
      /\ at \in [Preparers -> Places] /\ alone \subseteq Preparers
  BY DEF Typed
<1>1. ASSUME NEW p \in Preparers, Begin(p), NEW q \in alone'
      PROVE  (\A r \in Preparers \ {q} : at'[r] = "idle") /\ ByTheSources(q)' /\ ByTheFact(q)'
  <2>1. q = p /\ \A r \in Preparers \ {p} : at'[r] = "idle"
    BY <1>1, AloneIsWhoWalks DEF Prepare
  <2>2. at'[p] = "recording" /\ known'[p].client = client /\ client' = client
    BY <1>1, HowARunIsBounded
  <2>. QED  BY <2>1, <2>2 DEF ByTheSources, ByTheFact, AfterReading, AfterConflicts, AfterDates
<1>2. ASSUME NEW p \in Preparers, Walked(p), Prepare(p), p \in alone
      PROVE  ByTheSources(p)'
  <2>1. /\ ByTheSources(p) /\ UNCHANGED <<client, letter>>
        /\ Contested' = Contested /\ Table' = Table /\ Disagree' = Disagree
    BY <1>2 DEF AloneInv, Walked, Contested, Table, Disagree
  <2>2. at'[p] \in AfterReading => karbonRow' = client
    BY <2>1, <1>2 DEF ByTheSources, Walked, RecordKarbonValues, Step
  <2>3. at'[p] = "conflicts" => known'[p].pair = Table
    <3>. SUFFICES ASSUME ReadFields(p) PROVE known'[p].pair = Table
      BY <1>2 DEF Walked
    <3>1. karbonRow = client
      BY <2>1 DEF ReadFields, Step, ByTheSources, AfterReading, Places
    <3>. QED  BY <1>0, <3>1 DEF ReadFields, Memory, Table
  <2>4. ASSUME FindConflict(p)
        PROVE  /\ known'[p].pair = Table
               /\ IF known'[p].plan = "leave" THEN Asked' ELSE Disagree
    <3>1. known[p].pair = Table /\ known[p].plan = "leave"
      BY <2>1, <2>4 DEF ByTheSources, FindConflict, Step, Apart
    <3>0. letter = "NONE" => Table = {} /\ ~Disagree /\ Rows("UNRESOLVED")' = {}
      BY <2>1 DEF Table, Disagree, Quiet, Rows
    <3>a. letter # "NONE" => Table = Contested /\ Table # {}
      BY DEF Table, Contested, Typed
    <3>2. CASE Table = {} /\ UNCHANGED <<conflicts, known>>
      BY <2>1, <3>0, <3>1, <3>2, <3>a DEF Asked
    <3>3. CASE Cardinality(Table) = 1 /\ UNCHANGED known
               /\ conflicts' = [r \in RowIds |-> IF r \in Rows("UNRESOLVED") THEN NoRow ELSE conflicts[r]]
      <4>1. Rows("UNRESOLVED")' = {}
        BY <3>3 DEF Rows, NoRow
      <4>2. ~Disagree
        BY <3>3, <3>a DEF Disagree
      <4>. QED  BY <2>1, <3>1, <3>3, <4>1, <4>2 DEF Asked
    <3>4. CASE /\ Cardinality(Table) = 2 /\ UNCHANGED conflicts
               /\ \E plan, r : /\ known' = [known EXCEPT ![p].plan = plan, ![p].row = r]
                               /\ plan = "leave" => r \in Rows("RESOLVED") /\ Covers(r, Table)
      <4>1. PICK plan, r : /\ known' = [known EXCEPT ![p].plan = plan, ![p].row = r]
                           /\ plan = "leave" => r \in Rows("RESOLVED") /\ Covers(r, Table)
        BY <3>4
      <4>2. known'[p].pair = Table /\ known'[p].plan = plan
        BY <1>0, <3>1, <4>1 DEF Memory
      <4>3. Disagree /\ Table = Contested
        BY <3>0, <3>4, <3>a, FS_EmptySet DEF Disagree
      <4>4. plan = "leave" => Asked'
        BY <2>1, <3>4, <4>1, <4>3 DEF Asked, Covers, Rows
      <4>. QED  BY <4>2, <4>3, <4>4
    <3>5. ASSUME Cardinality(Table) = 2, UNCHANGED conflicts,
                 \/ \E r \in Rows("RESOLVED") :
                      known' = [known EXCEPT ![p].plan = IF Covers(r, Table) THEN "leave" ELSE "reopen", ![p].row = r]
                 \/ \E r \in Rows("UNRESOLVED") : known' = [known EXCEPT ![p].plan = "refresh", ![p].row = r]
                 \/ known' = [known EXCEPT ![p].plan = "create", ![p].row = 0]
          PROVE  \E plan, r : /\ known' = [known EXCEPT ![p].plan = plan, ![p].row = r]
                              /\ plan = "leave" => r \in Rows("RESOLVED") /\ Covers(r, Table)
      <4>1. "refresh" # "leave" /\ "create" # "leave" /\ "reopen" # "leave"
        OBVIOUS
      <4>2. ASSUME NEW r \in Rows("RESOLVED"),
                   known' = [known EXCEPT ![p].plan = IF Covers(r, Table) THEN "leave" ELSE "reopen", ![p].row = r]
            PROVE  \E plan, s : /\ known' = [known EXCEPT ![p].plan = plan, ![p].row = s]
                                /\ plan = "leave" => s \in Rows("RESOLVED") /\ Covers(s, Table)
        BY <4>1, <4>2
      <4>. QED  BY <3>5, <4>1, <4>2
    <3>6. \/ Table = {} /\ UNCHANGED <<conflicts, known>>
          \/ /\ Cardinality(Table) = 1 /\ UNCHANGED known
             /\ conflicts' = [r \in RowIds |-> IF r \in Rows("UNRESOLVED") THEN NoRow ELSE conflicts[r]]
          \/ /\ Cardinality(Table) = 2 /\ UNCHANGED conflicts
             /\ \/ \E r \in Rows("RESOLVED") :
                     known' = [known EXCEPT ![p].plan = IF Covers(r, Table) THEN "leave" ELSE "reopen", ![p].row = r]
                \/ \E r \in Rows("UNRESOLVED") : known' = [known EXCEPT ![p].plan = "refresh", ![p].row = r]
                \/ known' = [known EXCEPT ![p].plan = "create", ![p].row = 0]
      BY <2>4, <3>1, Zenon DEF FindConflict
    <3>. QED  BY <3>2, <3>3, <3>4, <3>5, <3>6
  <2>5. ASSUME RaiseConflict(p) PROVE Asked'
    <3>1. known[p].pair = Table /\ IF known[p].plan = "leave" THEN Asked ELSE Disagree
      BY <2>1, <2>5 DEF ByTheSources, RaiseConflict, Step
    <3>2. CASE known[p].plan = "leave"
      BY <2>1, <2>5, <3>1, <3>2 DEF RaiseConflict, Asked, Rows
    <3>3. CASE known[p].plan # "leave"
      <4>0. Table = Contested
        BY <3>1, <3>3 DEF Disagree, Table, Contested, Typed
      <4>1. PICK r \in RowIds : conflicts'[r].status # "NONE" /\ conflicts'[r].about = Contested
        <5>1. CASE known[p].plan = "create"
          BY <1>0, <2>5, <3>1, <4>0, <5>1 DEF RaiseConflict, Rows
        <5>2. CASE known[p].plan \in {"reopen", "refresh"}
          <6>1. known[p].row \in RowIds
            BY <5>2 DEF Typed
          <6>. QED  BY <1>0, <2>5, <3>1, <4>0, <5>2, <6>1 DEF RaiseConflict, ConflictRow
        <5>. QED  BY <1>0, <3>3, <5>1, <5>2 DEF Memory
      <4>. QED  BY <2>1, <3>1, <3>3, <4>1 DEF Asked
    <3>. QED  BY <3>2, <3>3
  <2>6. at'[p] \in AfterConflicts => Asked'
    <3>1. CASE RaiseConflict(p) /\ ~FindConflict(p)
      BY <2>5, <3>1
    <3>2. CASE FindConflict(p)
      BY <3>2, <1>0 DEF FindConflict, Step, AfterConflicts
    <3>3. CASE ~RaiseConflict(p) /\ ~FindConflict(p)
      <4>1. UNCHANGED conflicts
        BY <1>2, <3>3 DEF Walked
      <4>. QED  BY <1>2, <2>1, <3>3, <4>1 DEF Walked, ByTheSources, Asked, Rows
    <3>. QED  BY <3>1, <3>2, <3>3
  <2>. QED  BY <1>2, <2>1, <2>2, <2>3, <2>4, <2>6 DEF ByTheSources, Walked
<1>3. ASSUME NEW p \in Preparers, Walked(p), Prepare(p), p \in alone
      PROVE  ByTheFact(p)'
  <2>1. ByTheFact(p) /\ fact' = fact
    BY <1>3 DEF AloneInv, Walked
  <2>2. at'[p] = "date" => known'[p].fact = fact
    BY <1>0, <1>3 DEF Walked, ReadFacts, Memory
  <2>3. at'[p] = "dating" =>
          known'[p].fact = fact /\ date' = date /\ (date.confirmedBy = "nobody" => known'[p].free)
    BY <1>0, <1>3, <2>1 DEF Walked, FindDate, DateIsFree, Step, ByTheFact, Memory
  <2>4. PutDate(p) => (date'.confirmedBy = "nobody" => date'.result = Rule(fact))
    BY <2>1 DEF PutDate, Step, ByTheFact, Dated, Typed
  <2>5. Settle(p) => (date'.confirmedBy = "nobody" => date' = date)
    BY DEF Settle, Typed
  <2>6. ASSUME at'[p] \in AfterDates, date'.confirmedBy = "nobody" PROVE date'.result = Rule(fact)
    BY <1>3, <2>1, <2>4, <2>5, <2>6 DEF Walked, ByTheFact
  <2>. QED  BY <2>1, <2>2, <2>3, <2>6 DEF ByTheFact
<1>4. ASSUME NEW p \in Preparers, Prepare(p), NEW q \in alone'
      PROVE  (\A r \in Preparers \ {q} : at'[r] = "idle") /\ ByTheSources(q)' /\ ByTheFact(q)'
  <2>1. CASE Begin(p)
    BY <1>1, <1>4, <2>1
  <2>2. CASE ~Begin(p)
    <3>1. q = p /\ ~End(p) /\ p \in alone /\ \A r \in Preparers \ {p} : at'[r] = "idle"
      BY <1>4, <2>2, AloneIsWhoWalks
    <3>2. Walked(p)
      BY <1>4, <2>2, <3>1, HowARunGoes
    <3>. QED  BY <1>2, <1>3, <1>4, <3>1, <3>2
  <2>. QED  BY <2>1, <2>2
<1>5. ASSUME ClientCorrected \/ LetterRead \/ AnswerFact PROVE AloneInv'
  BY <1>5 DEF ClientCorrected, LetterRead, AnswerFact, Arrives, AloneInv
<1>6. ASSUME People, ~AnswerFact PROVE AloneInv'
  <2>1. /\ UNCHANGED <<client, letter, karbonRow, at, known, fact, alone>>
        /\ Contested' = Contested /\ Table' = Table /\ Disagree' = Disagree
    BY <1>6, PeopleDecide DEF Contested, Table, Disagree
  <2>2. Asked => Asked'
    BY <1>0, <1>6, <2>1, PeopleDecide DEF Asked, ResolveConflict, Rows, ConflictRow
  <2>3. date' = date \/ date'.confirmedBy = "person"
    BY <1>6, PeopleDecide DEF ConfirmDate, Typed
  <2>4. ASSUME NEW p \in alone PROVE ByTheSources(p)' /\ ByTheFact(p)'
    <3>1. ByTheSources(p) /\ ByTheFact(p)
      BY <2>4 DEF AloneInv
    <3>2. ByTheSources(p)'
      BY <2>1, <2>2, <3>1 DEF ByTheSources
    <3>3. ByTheFact(p)'
      BY <2>1, <2>3, <3>1 DEF ByTheFact
    <3>. QED  BY <3>2, <3>3
  <2>. QED  BY <2>1, <2>4 DEF AloneInv
<1>7. CASE UNCHANGED vars
  <2>1. UNCHANGED <<client, letter, karbonRow, conflicts, at, known, fact, alone, date>>
    BY <1>7 DEF vars
  <2>. QED  BY <2>1 DEF AloneInv, ByTheSources, ByTheFact, Contested, Table, Disagree, Asked, Rows
<1>. QED  BY <1>4, <1>5, <1>6, <1>7 DEF Next, AloneInv

(***************************************************************************)
(* The theorems.                                                           *)
(***************************************************************************)
Inv ==
  /\ Typed /\ kept \in Kept /\ overlapped \in BOOLEAN
  /\ Apart /\ KeptInv /\ Quiet /\ OneByOne /\ AloneInv

LEMMA Invariant == Spec => []Inv
<1>1. Init => Inv
  <2>. SUFFICES ASSUME Init PROVE Inv
    OBVIOUS
  <2>1. Typed /\ kept \in Kept /\ overlapped \in BOOLEAN
    BY TypedInit DEF TypeOK, Kept
  <2>2. Apart
    BY DEF Init, Apart, NoRow, Nothing
  <2>3. KeptInv /\ AloneInv
    BY DEF Init, KeptInv, SignerKept, DateKept, PairsKept, AloneInv
  <2>4. Quiet /\ OneByOne
    BY DEF Init, Quiet, OneByOne, NoRow, Nothing
  <2>. QED  BY <2>1, <2>2, <2>3, <2>4 DEF Inv
<1>2. Inv /\ [Next]_vars => Inv'
  BY TypedStep, ApartStep, KeptStep, QuietStep, OneByOneStep, AloneStep DEF Inv
<1>. QED  BY <1>1, <1>2, PTL DEF Spec

(* Every variable keeps its type, and a run that is to write a conflict row knows which, for
   any number of preparations and rows. *)
THEOREM TypeCorrect == Spec => []TypeOK
<1>1. Inv => TypeOK
  BY DEF Inv, Typed, Kept, TypeOK, Memory, ConflictRow
<1>. QED  BY <1>1, Invariant, PTL

(* What people had decided when no preparation ran stands through all that begin later, however
   many overlap and wherever they stop. *)
THEOREM PeopleHaveTheLastWord == Spec => []DecisionsStand
<1>1. Inv => DecisionsStand
  <2>. SUFFICES ASSUME Inv, NEW pair \in kept.pairs PROVE pair \in Pairs
    BY DEF DecisionsStand, Inv, KeptInv, SignerKept, DateKept
  <2>1. PICK r \in RowIds : Guarded(r, pair)
    BY DEF Inv, KeptInv, PairsKept
  <2>. QED  BY <2>1 DEF Guarded, Pairs
<1>. QED  BY <1>1, Invariant, PTL

(* After a preparation nothing interfered with, what the sources disagree on has a row about these
   very values, sources that agree leave nothing open, and as long as no two preparations have ever
   run at once no row is open about anything but the values of today. *)
THEOREM DisagreementIsAsked == Spec => []DisagreementAsked
<1>1. Inv => DisagreementAsked
  <2>. SUFFICES ASSUME Inv, NEW p \in alone, at[p] \in AfterConflicts
                PROVE  IF Cardinality(Contested) = 2
                         THEN /\ \E r \in RowIds : conflicts[r].status # "NONE" /\ conflicts[r].about = Contested
                              /\ ~overlapped => \A r \in Rows("UNRESOLVED") : conflicts[r].about = Contested
                         ELSE Rows("UNRESOLVED") = {}
    BY Zenon DEF DisagreementAsked, Contested
  <2>1. Asked
    BY DEF Inv, AloneInv, ByTheSources
  <2>2. letter = "NONE" => Cardinality(Contested) # 2
    <3>1. letter = "NONE" => Contested = {client}
      BY DEF Contested, Inv, Typed
    <3>. QED  BY <3>1, FS_Singleton
  <2>3. CASE Cardinality(Contested) = 2
    <3>1. PICK r \in RowIds : conflicts[r].status # "NONE" /\ conflicts[r].about = Contested
      BY <2>1, <2>2, <2>3 DEF Asked, Disagree
    <3>2. ~overlapped => \A s \in Rows("UNRESOLVED") : s = r
      BY <3>1 DEF Inv, OneByOne, Rows
    <3>. QED  BY <2>3, <3>1, <3>2
  <2>4. CASE Cardinality(Contested) # 2
    BY <2>1, <2>4 DEF Asked, Disagree
  <2>. QED  BY <2>3, <2>4
<1>. QED  BY <1>1, Invariant, PTL

(* After such a preparation a deadline nobody confirmed is the rule's, by the last answer. *)
THEOREM DatedByTheLastAnswer == Spec => []LastAnswerCounts
<1>1. Inv => LastAnswerCounts
  BY DEF Inv, AloneInv, ByTheFact, LastAnswerCounts
<1>. QED  BY <1>1, Invariant, PTL
=============================================================================
