--------------------------- MODULE BackOffice_proofs ---------------------------
(***************************************************************************)
(* What holds of the parts of module BackOffice, and of module Intake, for *)
(* any number of people, requests, rows and crashes.                       *)
(***************************************************************************)
EXTENDS BackOffice, Intake, FiniteSetTheorems, SequenceTheorems, TLAPS

(* A step of the office is a step of one part, and leaves the rest alone. *)
LEMMA OnePartSteps ==
  ASSUME [Next]_vars
  PROVE  /\ OfficeNext \/ UNCHANGED office
         /\ PapersNext \/ UNCHANGED papers
BY DEF Next, vars, Office, Mail, Karbon, Crash, Documents

(***************************************************************************)
(* Publishing.  As long as no version was deleted, the rows are numbered   *)
(* as they come; so a request that read a number, and finds it free, has   *)
(* missed no row since it looked for its file among them.                  *)
(***************************************************************************)
Versions ==
  {NoVersion} \union [status : Lifecycle, number : Nat, file : Files, createdBy : Users, approvedBy : SUBSET Users]
Requests ==
  [at : {"idle"}]
  \union [at : {"upload"}, by : Users, file : Files]
  \union [at : {"identical?", "create"}, by : Users, file : Files, number : Nat]
  \union [at : {"activate", "current?", "discard", "delete"}, by : Users, on : Rows]
  \union [at : {"publish"}, by : Users, on : Rows, current : SUBSET Rows]
  \union [at : {"grant", "revoke", "deactivate", "reactivate"}, by : Users, on : Users]
  \union [at : {"change"}, by : Users, on : Users, how : {"grant", "revoke", "deactivate", "reactivate"}]

NoneDeleted == \A v \in Rows : versions[v].status # "DELETED"
Numbered ==
  /\ \A v \in Existing : versions[v].number = v
  /\ \A v \in Existing, w \in Rows : w < v => w \in Existing
Distinct == \A v, w \in Existing : versions[v].file = versions[w].file => v = w

AboutARow(tab) == tab.at \in {"activate", "current?", "publish", "discard", "delete"}
HasRow(tab) == AboutARow(tab) => versions[tab.on] # NoVersion
Claims(tab) ==
  /\ tab.at \in {"identical?", "create"} => tab.number >= 1 /\ 1 .. tab.number - 1 \subseteq Existing
  /\ tab.at = "create" => \A v \in Existing : v < tab.number => versions[v].file # tab.file

OfficeInv ==
  /\ versions \in [Rows -> Versions] /\ tabs \in [Tabs -> Requests]
  /\ \A t \in Tabs : HasRow(tabs[t])
  /\ NoneDeleted => Numbered /\ Distinct /\ \A t \in Tabs : Claims(tabs[t])

LEMMA OfficeInvInit == OfficeInit => OfficeInv
<1>. SUFFICES ASSUME OfficeInit PROVE OfficeInv
  OBVIOUS
<1>1. Idle \in Requests /\ Idle.at = "idle" /\ NoVersion \in Versions /\ NoVersion.status = "NONE"
  BY DEF Idle, Requests, NoVersion, Versions
<1>2. /\ versions \in [Rows -> Versions] /\ \A v \in Rows : versions[v].status = "NONE"
      /\ tabs \in [Tabs -> Requests] /\ \A t \in Tabs : tabs[t].at = "idle"
  BY <1>1 DEF OfficeInit
<1>3. Existing = {}
  BY <1>2 DEF Existing
<1>. QED  BY <1>2, <1>3 DEF OfficeInv, HasRow, AboutARow, Numbered, Distinct, Claims

(* A finite set of numbers that is not empty has a greatest: the one with   *)
(* the fewest above it.                                                    *)
LEMMA AGreatest ==
  ASSUME NEW S \in SUBSET Nat, IsFiniteSet(S), S # {}
  PROVE  \E n \in S : \A m \in S : m =< n
<1>. DEFINE Above(k) == {x \in S : x > k}
            Counts == {Cardinality(Above(k)) : k \in S}
<1>1. \A k \in S : IsFiniteSet(Above(k)) /\ Cardinality(Above(k)) \in Nat
  BY FS_Subset, FS_CardinalityType
<1>2. Counts \subseteq Nat /\ Counts # {}
  BY <1>1
<1>3. PICK least \in Counts : \A c \in Counts : ~(<<c, least>> \in OpToRel(<, Nat))
  BY <1>2, NatLessThanWellFounded, WFMin
<1>4. PICK n \in S : least = Cardinality(Above(n))
  BY <1>3
<1>5. ASSUME NEW m \in S, m > n PROVE FALSE
  <2>0. \A x \in S : x \in Int
    OBVIOUS
  <2>1. Above(m) \subseteq Above(n) /\ m \in Above(n) /\ m \notin Above(m)
    <3>1. m \in Above(n)
      BY <1>5
    <3>2. ~(m > m) /\ \A x \in S : x > m => x > n
      BY <1>5, <2>0
    <3>. QED  BY <3>1, <3>2
  <2>. DEFINE fewer == Above(m)
              more == Above(n)
  <2>a. fewer \in SUBSET more /\ fewer # more
    BY <2>1
  <2>b. IsFiniteSet(more) /\ Cardinality(fewer) \in Nat /\ Cardinality(more) \in Nat
    BY <1>1, <1>5, <1>4
  <2>c. Cardinality(fewer) \in Counts
    BY <1>5
  <2>d. least = Cardinality(more)
    BY <1>4
  <2>2. fewer \in SUBSET more /\ fewer # more /\ IsFiniteSet(more)
        /\ Cardinality(fewer) \in Nat /\ Cardinality(more) \in Nat
        /\ Cardinality(fewer) \in Counts /\ least = Cardinality(more)
    BY <2>a, <2>b, <2>c, <2>d
  <2>. HIDE DEF Above, fewer, more, Counts
  <2>3. Cardinality(fewer) =< Cardinality(more) /\ Cardinality(fewer) # Cardinality(more)
    BY <2>2, FS_Subset
  <2>4. Cardinality(fewer) < Cardinality(more)
    BY <2>2, <2>3
  <2>5. <<Cardinality(fewer), least>> \in OpToRel(<, Nat)
    BY <2>2, <2>4, Zenon DEF OpToRel
  <2>. QED  BY <1>3, <2>2, <2>5
<1>. QED  BY <1>4, <1>5

(* The number after the newest. *)
LEMMA AfterTheNewest ==
  ASSUME OfficeInv
  PROVE  /\ NextNumber \in Nat
         /\ NoneDeleted => NextNumber >= 1 /\ 1 .. NextNumber - 1 \subseteq Existing
<1>1. MaxVersions \in Nat /\ Existing \subseteq Rows /\ Rows = 1 .. MaxVersions
  BY PublishingAssumption DEF Existing, Rows
<1>2. Newest \in SUBSET Nat
  <2>1. \A v \in Existing : versions[v].number \in Nat
    BY DEF Existing, OfficeInv, Versions, NoVersion
  <2>. QED  BY <2>1 DEF Newest
<1>3. IsFiniteSet(Newest)
  <2>1. IsFiniteSet(Existing)
    <3>1. IsFiniteSet(Rows)
      BY <1>1, FS_Interval, 1 \in Int, MaxVersions \in Int
    <3>. QED  BY <1>1, <3>1, FS_Subset
  <2>. DEFINE f == [v \in Existing |-> versions[v].number]
  <2>2. f \in [Existing -> Newest] /\ \A n \in Newest : \E v \in Existing : f[v] = n
    BY DEF Newest
  <2>3. f \in Surjection(Existing, Newest)
    BY <2>2 DEF Surjection
  <2>. HIDE DEF f
  <2>. QED  BY <2>1, <2>3, FS_Surjection
<1>4. CASE Newest = {}
  BY <1>4 DEF NextNumber
<1>5. CASE Newest # {}
  <2>. DEFINE n == CHOOSE m \in Newest : \A o \in Newest : o =< m
  <2>1. n \in Newest
    BY <1>2, <1>3, <1>5, AGreatest
  <2>2. NextNumber = 1 + n
    BY <1>5 DEF NextNumber
  <2>. HIDE DEF n
  <2>3. n \in Nat
    BY <1>2, <2>1
  <2>4. ASSUME NoneDeleted, NEW m \in 1 .. n PROVE m \in Existing
    <3>1. Numbered
      BY <2>4 DEF OfficeInv
    <3>2. n \in Existing
      BY <2>1, <3>1 DEF Newest, Numbered
    <3>3. m \in Rows /\ (m = n \/ m < n)
      BY <1>1, <2>3, <3>2
    <3>. QED  BY <3>1, <3>2, <3>3 DEF Numbered
  <2>. QED  BY <2>2, <2>3, <2>4
<1>. QED  BY <1>4, <1>5

(* A request moves, and no version does. *)
LEMMA TabMoves ==
  ASSUME OfficeInv, NEW t \in Tabs, NEW tab \in Requests, Goto(t, tab), UNCHANGED versions,
         HasRow(tab), NoneDeleted => Claims(tab)
  PROVE  OfficeInv'
<1>1. tabs' \in [Tabs -> Requests] /\ \A s \in Tabs : tabs'[s] = IF s = t THEN tab ELSE tabs[s]
  BY DEF Goto, OfficeInv
<1>2. \A s \in Tabs : HasRow(tabs[s])'
  BY <1>1 DEF OfficeInv, HasRow, AboutARow
<1>3. NoneDeleted' = NoneDeleted /\ Existing' = Existing
  BY DEF NoneDeleted, Existing
<1>4. ASSUME NoneDeleted, NEW s \in Tabs PROVE Claims(tabs[s])'
  BY <1>1, <1>3, <1>4 DEF OfficeInv, Claims
<1>5. NoneDeleted => Numbered' /\ Distinct'
  BY <1>3 DEF OfficeInv, Numbered, Distinct
<1>. QED  BY <1>1, <1>2, <1>3, <1>4, <1>5 DEF OfficeInv

LEMMA IdleTab == Idle \in Requests /\ HasRow(Idle) /\ Claims(Idle)
BY DEF Idle, Requests, HasRow, AboutARow, Claims

LEMMA RefuseKeeps == ASSUME OfficeInv, NEW t \in Tabs, Refuse(t) PROVE OfficeInv'
<1>1. Goto(t, Idle) /\ UNCHANGED versions
  BY DEF Refuse, Done
<1>. QED  BY <1>1, IdleTab, TabMoves

LEMMA AskingKeeps ==
  ASSUME OfficeInv, NEW t \in Tabs, Upload(t) \/ Activate(t) \/ Discard(t) \/ ChangeAccess(t)
  PROVE  OfficeInv'
<1>1. CASE Upload(t)
  <2>1. PICK u \in Users, f \in Files : Ask(t, [at |-> "upload", by |-> u, file |-> f])
    BY <1>1 DEF Upload
  <2>. DEFINE tab == [at |-> "upload", by |-> u, file |-> f]
  <2>2. tab \in Requests /\ HasRow(tab) /\ Claims(tab) /\ Goto(t, tab) /\ UNCHANGED versions
    BY <2>1 DEF Ask, Requests, HasRow, AboutARow, Claims
  <2>. QED  BY <2>2, TabMoves
<1>2. CASE Activate(t) \/ Discard(t)
  <2>1. PICK u \in Users, v \in Existing, how \in {"activate", "discard"} :
          Ask(t, [at |-> how, by |-> u, on |-> v])
    BY <1>2 DEF Activate, Discard
  <2>. DEFINE tab == [at |-> how, by |-> u, on |-> v]
  <2>2. v \in Rows /\ versions[v] # NoVersion
    BY DEF Existing, NoVersion
  <2>3. tab \in Requests /\ HasRow(tab) /\ Claims(tab) /\ Goto(t, tab) /\ UNCHANGED versions
    BY <2>1, <2>2 DEF Ask, Requests, HasRow, AboutARow, Claims
  <2>. QED  BY <2>3, TabMoves
<1>3. CASE ChangeAccess(t)
  <2>1. PICK u \in Users, subject \in Users, how \in {"grant", "revoke", "deactivate", "reactivate"} :
          Ask(t, [at |-> how, by |-> u, on |-> subject])
    BY <1>3 DEF ChangeAccess
  <2>. DEFINE tab == [at |-> how, by |-> u, on |-> subject]
  <2>2. tab \in Requests /\ HasRow(tab) /\ Claims(tab) /\ Goto(t, tab) /\ UNCHANGED versions
    BY <2>1 DEF Ask, Requests, HasRow, AboutARow, Claims
  <2>. QED  BY <2>2, TabMoves
<1>. QED  BY <1>1, <1>2, <1>3

LEMMA UploadingKeeps ==
  ASSUME OfficeInv, NEW t \in Tabs, ReadTemplate(t) \/ FindIdentical(t)
  PROVE  OfficeInv'
<1>1. tabs[t] \in Requests
  BY DEF OfficeInv
<1>2. CASE ReadTemplate(t)
  <2>. DEFINE tab == [at |-> "identical?", by |-> tabs[t].by, file |-> tabs[t].file, number |-> NextNumber]
  <2>1. tabs[t].by \in Users /\ tabs[t].file \in Files
    BY <1>1, <1>2 DEF ReadTemplate, Requests
  <2>2. Goto(t, tab) /\ UNCHANGED versions
    BY <1>2 DEF ReadTemplate
  <2>3. NextNumber \in Nat
    BY AfterTheNewest
  <2>4. tab \in Requests
    BY <2>1, <2>3 DEF Requests
  <2>5. HasRow(tab)
    BY DEF HasRow, AboutARow
  <2>6. NoneDeleted => Claims(tab)
    BY AfterTheNewest DEF Claims
  <2>. QED  BY <2>2, <2>4, <2>5, <2>6, TabMoves
<1>3. CASE FindIdentical(t)
  <2>1. CASE Refuse(t)
    BY <2>1, RefuseKeeps
  <2>2. CASE ~(\E v \in Existing : versions[v].file = tabs[t].file)
    <3>. DEFINE tab == [tabs[t] EXCEPT !.at = "create"]
    <3>1. Goto(t, tab) /\ UNCHANGED versions /\ tabs[t].at = "identical?"
      BY <1>3, <2>2 DEF FindIdentical
    <3>2. tabs[t] \in [at : {"identical?", "create"}, by : Users, file : Files, number : Nat]
      BY <1>1, <3>1 DEF Requests
    <3>3. /\ tab \in [at : {"identical?", "create"}, by : Users, file : Files, number : Nat]
          /\ tab.at = "create" /\ tab.file = tabs[t].file /\ tab.number = tabs[t].number
      BY <3>2
    <3>. HIDE DEF tab
    <3>4. tab \in Requests /\ HasRow(tab)
      BY <3>3 DEF Requests, HasRow, AboutARow
    <3>5. NoneDeleted => Claims(tab)
      BY <2>2, <3>1, <3>3 DEF OfficeInv, Claims
    <3>. QED  BY <3>1, <3>4, <3>5, TabMoves
  <2>. QED  BY <1>3, <2>1, <2>2 DEF FindIdentical
<1>. QED  BY <1>2, <1>3

(* A new row is the next one; whatever a request had claimed still holds,   *)
(* for the rows below its number were there when it claimed them.          *)
LEMMA CreatingKeeps ==
  ASSUME OfficeInv, NEW t \in Tabs, CreateVersion(t)
  PROVE  OfficeInv'
<1>1. CASE Refuse(t)
  BY <1>1, RefuseKeeps
<1>2. CASE ~Refuse(t)
  <2>. DEFINE new == [status |-> "DRAFT", number |-> tabs[t].number, file |-> tabs[t].file,
                      createdBy |-> tabs[t].by, approvedBy |-> {}]
  <2>1. tabs[t].at = "create" /\ FreeNumber(tabs[t].number)
    BY <1>2 DEF CreateVersion
  <2>2. PICK v \in Rows : /\ versions[v] = NoVersion /\ \A w \in Rows : w < v => versions[w] # NoVersion
                          /\ versions' = [versions EXCEPT ![v] = new] /\ Done(t)
    BY <1>2, <2>1 DEF CreateVersion
  <2>3. /\ versions \in [Rows -> Versions] /\ tabs \in [Tabs -> Requests]
        /\ \A s \in Tabs : HasRow(tabs[s])
    BY DEF OfficeInv
  <2>4. tabs[t].by \in Users /\ tabs[t].file \in Files /\ tabs[t].number \in Nat
    BY <2>1, <2>3 DEF Requests
  <2>5. /\ new \in Versions /\ new # NoVersion /\ new.status = "DRAFT"
        /\ new.number = tabs[t].number /\ new.file = tabs[t].file
    BY <2>4 DEF Versions, Lifecycle, NoVersion
  <2>. HIDE DEF new
  <2>6. /\ versions' \in [Rows -> Versions]
        /\ \A w \in Rows : versions'[w] = IF w = v THEN new ELSE versions[w]
    BY <2>2, <2>3, <2>5
  <2>7. /\ tabs' \in [Tabs -> Requests]
        /\ \A s \in Tabs : tabs'[s] = IF s = t THEN Idle ELSE tabs[s]
    BY <2>2, <2>3, IdleTab DEF Done, Goto
  <2>8. \A s \in Tabs : HasRow(tabs[s])'
    <3>. SUFFICES ASSUME NEW s \in Tabs, AboutARow(tabs'[s]) PROVE versions'[tabs'[s].on] # NoVersion
      BY DEF HasRow, AboutARow
    <3>1. s # t /\ tabs'[s] = tabs[s]
      BY <2>7 DEF AboutARow, Idle
    <3>2. tabs[s].on \in Rows
      BY <2>3, <3>1 DEF AboutARow, Requests
    <3>. QED  BY <2>3, <2>5, <2>6, <3>1, <3>2 DEF HasRow
  <2>9. ASSUME NoneDeleted' PROVE Numbered' /\ Distinct' /\ \A s \in Tabs : Claims(tabs[s])'
    <3>1. NoneDeleted
      BY <2>2, <2>6, <2>9 DEF NoneDeleted, NoVersion
    <3>2. Numbered /\ Distinct /\ \A s \in Tabs : Claims(tabs[s])
      BY <3>1 DEF OfficeInv
    <3>3. Existing' = Existing \union {v} /\ v \notin Existing /\ Existing \subseteq Rows
      BY <2>2, <2>5, <2>6 DEF Existing, NoVersion
    <3>4. \A w \in Rows : w < v => w \in Existing
      BY <2>2, <2>3, <3>1 DEF Existing, NoneDeleted, Versions, Lifecycle, NoVersion
    <3>5. \A w \in Existing : w \in Nat /\ w < v
      <4>1. \A w \in Rows : w \in Nat
        BY DEF Rows
      <4>2. ASSUME NEW w \in Existing, v < w PROVE FALSE
        BY <3>2, <3>3, <4>2, v \in Rows DEF Numbered
      <4>. QED  BY <3>3, <4>1, <4>2, v \in Rows
    <3>6. v \in Nat /\ v >= 1
      BY DEF Rows
    <3>7. tabs[t].number >= 1 /\ 1 .. tabs[t].number - 1 \subseteq Existing
          /\ \A w \in Existing : w < tabs[t].number => versions[w].file # tabs[t].file
      BY <2>1, <3>2 DEF Claims
    <3>8. tabs[t].number = v
      <4>. DEFINE n == tabs[t].number
      <4>1. n \notin Existing
        BY <2>1, <3>2 DEF FreeNumber, Numbered
      <4>2. ~(n < v)
        <5>1. ASSUME n < v PROVE n \in Rows
          BY <5>1, <2>4, <3>6, <3>7, PublishingAssumption DEF Rows
        <5>. QED  BY <3>4, <4>1, <5>1
      <4>3. ASSUME v < n PROVE FALSE
        <5>1. v \in 1 .. n - 1
          BY <4>3, <2>4, <3>6
        <5>. QED  BY <5>1, <3>3, <3>7
      <4>. QED  BY <2>4, <3>6, <4>2, <4>3
    <3>9. Numbered'
      <4>1. \A w \in Existing' : versions'[w].number = w
        BY <2>5, <2>6, <3>2, <3>3, <3>8 DEF Numbered
      <4>2. ASSUME NEW w \in Existing', NEW x \in Rows, x < w PROVE x \in Existing'
        BY <3>2, <3>3, <3>4, <4>2 DEF Numbered
      <4>. QED  BY <4>1, <4>2 DEF Numbered, Rows
    <3>10. Distinct'
      <4>1. \A w \in Existing : versions'[w] = versions[w] /\ versions[w].file # new.file
        BY <2>5, <2>6, <3>3, <3>5, <3>7, <3>8
      <4>2. versions'[v].file = new.file
        BY <2>6
      <4>. QED  BY <3>2, <3>3, <4>1, <4>2 DEF Distinct
    <3>11. ASSUME NEW s \in Tabs PROVE Claims(tabs[s])'
      <4>1. CASE s = t
        BY <2>7, <4>1 DEF Claims, Idle
      <4>2. CASE s # t /\ tabs[s].at \in {"identical?", "create"}
        <5>. DEFINE n == tabs[s].number
        <5>1. tabs'[s] = tabs[s] /\ n \in Nat
          BY <2>3, <2>7, <4>2 DEF Requests
        <5>2. n >= 1 /\ 1 .. n - 1 \subseteq Existing
              /\ (tabs[s].at = "create" => \A w \in Existing : w < n => versions[w].file # tabs[s].file)
          BY <3>2, <4>2 DEF Claims
        <5>3. ~(v < n)
          <6>1. ASSUME v < n PROVE v \in 1 .. n - 1
            BY <3>6, <5>1, <6>1
          <6>. QED  BY <3>3, <5>2, <6>1
        <5>4. \A w \in Existing : versions'[w] = versions[w]
          BY <2>6, <3>3
        <5>. HIDE DEF n
        <5>5. tabs[s].at = "create" => \A w \in Existing' : w < n => versions'[w].file # tabs[s].file
          BY <3>3, <5>2, <5>3, <5>4
        <5>. QED  BY <3>3, <5>1, <5>2, <5>5 DEF Claims, n
      <4>3. CASE s # t /\ tabs[s].at \notin {"identical?", "create"}
        BY <2>7, <4>3 DEF Claims
      <4>. QED  BY <4>1, <4>2, <4>3
    <3>. QED  BY <3>9, <3>10, <3>11
  <2>. QED  BY <2>6, <2>7, <2>8, <2>9 DEF OfficeInv
<1>. QED  BY <1>1, <1>2

(* The rows keep their numbers and files, the newer of them only another    *)
(* status, and the request is over.                                        *)
LEMMA RowsMove ==
  ASSUME OfficeInv, NEW t \in Tabs, Done(t), versions' \in [Rows -> Versions], NoneDeleted' => NoneDeleted,
         \A v \in Rows : versions'[v] = versions[v]
                         \/ /\ versions[v] # NoVersion /\ versions'[v] # NoVersion
                            /\ versions'[v].status = "DELETED"
                               \/ /\ versions'[v].status # "NONE" /\ v \in Existing
                                  /\ versions'[v].number = versions[v].number
                                  /\ versions'[v].file = versions[v].file
  PROVE  OfficeInv'
<1>1. /\ versions \in [Rows -> Versions] /\ tabs \in [Tabs -> Requests]
      /\ \A s \in Tabs : HasRow(tabs[s])
  BY DEF OfficeInv
<1>2. /\ tabs' \in [Tabs -> Requests]
      /\ \A s \in Tabs : tabs'[s] = IF s = t THEN Idle ELSE tabs[s]
  BY <1>1, IdleTab DEF Done, Goto
<1>3. \A s \in Tabs : HasRow(tabs[s])'
  <2>. SUFFICES ASSUME NEW s \in Tabs, AboutARow(tabs'[s]) PROVE versions'[tabs'[s].on] # NoVersion
    BY DEF HasRow, AboutARow
  <2>1. s # t /\ tabs'[s] = tabs[s]
    BY <1>2 DEF AboutARow, Idle
  <2>2. tabs[s].on \in Rows
    BY <1>1, <2>1 DEF AboutARow, Requests
  <2>. QED  BY <1>1, <2>1, <2>2 DEF HasRow
<1>4. ASSUME NoneDeleted' PROVE Numbered' /\ Distinct' /\ \A s \in Tabs : Claims(tabs[s])'
  <2>1. Numbered /\ Distinct /\ \A s \in Tabs : Claims(tabs[s])
    BY <1>4 DEF OfficeInv
  <2>2. \A v \in Rows : versions'[v].status # "DELETED"
    BY <1>4 DEF NoneDeleted
  <2>3. Existing' = Existing
    BY <2>2 DEF Existing
  <2>4. \A v \in Existing : versions'[v].number = versions[v].number /\ versions'[v].file = versions[v].file
    BY <2>2 DEF Existing
  <2>5. \A s \in Tabs : Claims(tabs[s])'
    BY <1>2, <2>1, <2>3, <2>4 DEF Claims, Idle
  <2>. QED  BY <2>1, <2>3, <2>4, <2>5 DEF Numbered, Distinct
<1>. QED  BY <1>2, <1>3, <1>4 DEF OfficeInv

LEMMA ActivatingKeeps ==
  ASSUME OfficeInv, NEW t \in Tabs, CheckDraft(t) \/ FindCurrent(t) \/ Publish(t)
  PROVE  OfficeInv'
<1>0. tabs[t] \in Requests /\ HasRow(tabs[t]) /\ versions \in [Rows -> Versions]
  BY DEF OfficeInv
<1>1. ASSUME Refuse(t) PROVE OfficeInv'
  BY <1>1, RefuseKeeps
<1>2. CASE CheckDraft(t) /\ ~Refuse(t)
  <2>. DEFINE tab == [tabs[t] EXCEPT !.at = "current?"]
  <2>1. Goto(t, tab) /\ UNCHANGED versions /\ tabs[t].at = "activate"
    BY <1>2 DEF CheckDraft
  <2>2. tabs[t] \in [at : {"activate", "current?", "discard", "delete"}, by : Users, on : Rows]
    BY <1>0, <2>1 DEF Requests
  <2>3. /\ tab \in [at : {"activate", "current?", "discard", "delete"}, by : Users, on : Rows]
        /\ tab.at = "current?" /\ tab.on = tabs[t].on
    BY <2>2
  <2>. HIDE DEF tab
  <2>4. tab \in Requests
    BY <2>3 DEF Requests
  <2>5. HasRow(tab) /\ Claims(tab)
    BY <1>0, <2>1, <2>3 DEF HasRow, AboutARow, Claims
  <2>. QED  BY <2>1, <2>4, <2>5, TabMoves
<1>3. CASE FindCurrent(t)
  <2>1. PICK current \in SUBSET Rows :
          Goto(t, [at |-> "publish", by |-> tabs[t].by, on |-> tabs[t].on, current |-> current])
    BY <1>3 DEF FindCurrent
  <2>2. tabs[t].at = "current?" /\ UNCHANGED versions
    BY <1>3 DEF FindCurrent
  <2>3. tabs[t] \in [at : {"activate", "current?", "discard", "delete"}, by : Users, on : Rows]
    BY <1>0, <2>2 DEF Requests
  <2>. DEFINE tab == [at |-> "publish", by |-> tabs[t].by, on |-> tabs[t].on, current |-> current]
  <2>4. tab \in Requests
    BY <2>3 DEF Requests
  <2>5. HasRow(tab) /\ Claims(tab)
    BY <1>0, <2>2 DEF HasRow, AboutARow, Claims
  <2>. QED  BY <2>1, <2>2, <2>4, <2>5, TabMoves
<1>4. CASE Publish(t) /\ ~Refuse(t)
  <2>. DEFINE v == tabs[t].on
              current == tabs[t].current
              on == [versions[v] EXCEPT !.status = "ACTIVE", !.approvedBy = {tabs[t].by}]
              off(w) == [versions[w] EXCEPT !.status = "RETIRED"]
  <2>1. /\ tabs[t].at = "publish" /\ current \union {v} \subseteq Existing /\ Done(t)
        /\ versions' = [w \in Rows |-> IF w = v THEN on ELSE IF w \in current THEN off(w) ELSE versions[w]]
    BY <1>4 DEF Publish
  <2>2. tabs[t].by \in Users
    BY <1>0, <2>1 DEF Requests
  <2>3. \A w \in Existing : w \in Rows /\ versions[w] # NoVersion
          /\ versions[w] \in [status : Lifecycle, number : Nat, file : Files, createdBy : Users, approvedBy : SUBSET Users]
    BY <1>0 DEF Existing, Versions, NoVersion
  <2>4. /\ on \in [status : Lifecycle, number : Nat, file : Files, createdBy : Users, approvedBy : SUBSET Users]
        /\ on.status = "ACTIVE" /\ on.number = versions[v].number /\ on.file = versions[v].file
    BY <2>1, <2>2, <2>3, ZenonT(40) DEF Lifecycle
  <2>5. \A w \in current :
          /\ off(w) \in [status : Lifecycle, number : Nat, file : Files, createdBy : Users, approvedBy : SUBSET Users]
          /\ off(w).status = "RETIRED" /\ off(w).number = versions[w].number /\ off(w).file = versions[w].file
    BY <2>1, <2>3 DEF Lifecycle
  <2>. HIDE DEF on, off
  <2>6. on \in Versions /\ \A w \in current : off(w) \in Versions
    BY <2>4, <2>5 DEF Versions
  <2>7. versions' \in [Rows -> Versions]
    BY <1>0, <2>1, <2>6
  <2>8. on # NoVersion /\ \A w \in current : off(w) # NoVersion
    BY <2>4, <2>5 DEF NoVersion
  <2>9. \A w \in Rows : versions'[w] = versions[w]
                         \/ /\ versions[w] # NoVersion /\ versions'[w] # NoVersion
                            /\ versions'[w].status # "NONE" /\ w \in Existing
                            /\ versions'[w].number = versions[w].number
                            /\ versions'[w].file = versions[w].file
    BY <2>1, <2>3, <2>4, <2>5, <2>8
  <2>10. NoneDeleted' => NoneDeleted
    <3>1. \A w \in Rows : versions[w].status = "DELETED" => w \notin Existing
      BY DEF Existing
    <3>. QED  BY <2>1, <3>1 DEF NoneDeleted
  <2>. QED  BY <2>1, <2>7, <2>9, <2>10, RowsMove
<1>. QED  BY <1>1, <1>2, <1>3, <1>4

LEMMA DiscardingKeeps ==
  ASSUME OfficeInv, NEW t \in Tabs, CheckDiscard(t) \/ DeleteVersion(t)
  PROVE  OfficeInv'
<1>0. tabs[t] \in Requests /\ HasRow(tabs[t]) /\ versions \in [Rows -> Versions]
  BY DEF OfficeInv
<1>1. CASE Refuse(t)
  BY <1>1, RefuseKeeps
<1>2. CASE CheckDiscard(t) /\ ~Refuse(t)
  <2>. DEFINE tab == [tabs[t] EXCEPT !.at = "delete"]
  <2>1. Goto(t, tab) /\ UNCHANGED versions /\ tabs[t].at = "discard"
    BY <1>2 DEF CheckDiscard
  <2>2. tabs[t] \in [at : {"activate", "current?", "discard", "delete"}, by : Users, on : Rows]
    BY <1>0, <2>1 DEF Requests
  <2>3. /\ tab \in [at : {"activate", "current?", "discard", "delete"}, by : Users, on : Rows]
        /\ tab.at = "delete" /\ tab.on = tabs[t].on
    BY <2>2
  <2>. HIDE DEF tab
  <2>4. tab \in Requests
    BY <2>3 DEF Requests
  <2>5. HasRow(tab) /\ Claims(tab)
    BY <1>0, <2>1, <2>3 DEF HasRow, AboutARow, Claims
  <2>. QED  BY <2>1, <2>4, <2>5, TabMoves
<1>3. CASE DeleteVersion(t)
  <2>. DEFINE v == tabs[t].on
              gone == [versions[v] EXCEPT !.status = "DELETED"]
  <2>1. tabs[t].at = "delete" /\ versions' = [versions EXCEPT ![v] = gone] /\ Done(t)
    BY <1>3 DEF DeleteVersion
  <2>2. v \in Rows /\ versions[v] # NoVersion
    BY <1>0, <2>1 DEF Requests, HasRow, AboutARow
  <2>3. versions[v] \in [status : Lifecycle, number : Nat, file : Files, createdBy : Users, approvedBy : SUBSET Users]
    BY <1>0, <2>2 DEF Versions
  <2>4. /\ gone \in [status : Lifecycle, number : Nat, file : Files, createdBy : Users, approvedBy : SUBSET Users]
        /\ gone.status = "DELETED"
    BY <2>3 DEF Lifecycle
  <2>. HIDE DEF gone
  <2>5. gone \in Versions /\ gone # NoVersion
    BY <2>4 DEF Versions, NoVersion
  <2>6. versions' \in [Rows -> Versions] /\ \A w \in Rows : versions'[w] = IF w = v THEN gone ELSE versions[w]
    BY <1>0, <2>1, <2>2, <2>5
  <2>7. ~NoneDeleted'
    BY <2>2, <2>4, <2>6 DEF NoneDeleted
  <2>. HIDE DEF v
  <2>8. \A w \in Rows : versions'[w] = versions[w]
          \/ (versions[w] # NoVersion /\ versions'[w] # NoVersion /\ versions'[w].status = "DELETED")
    BY <2>2, <2>4, <2>5, <2>6
  <2>. QED  BY <2>1, <2>6, <2>7, <2>8, RowsMove
<1>. QED  BY <1>1, <1>2, <1>3

LEMMA AdministeringKeeps ==
  ASSUME OfficeInv, NEW t \in Tabs, CheckAccess(t) \/ CommitAccess(t)
  PROVE  OfficeInv'
<1>0. tabs[t] \in Requests
  BY DEF OfficeInv
<1>1. CASE Refuse(t)
  BY <1>1, RefuseKeeps
<1>2. CASE CheckAccess(t) /\ ~Refuse(t)
  <2>. DEFINE tab == [at |-> "change", by |-> tabs[t].by, on |-> tabs[t].on, how |-> tabs[t].at]
  <2>1. Goto(t, tab) /\ UNCHANGED versions /\ tabs[t].at \in {"grant", "revoke", "deactivate", "reactivate"}
    BY <1>2 DEF CheckAccess
  <2>2. tabs[t].by \in Users /\ tabs[t].on \in Users
    BY <1>0, <2>1 DEF Requests
  <2>3. tab \in Requests /\ HasRow(tab) /\ Claims(tab)
    BY <2>1, <2>2 DEF Requests, HasRow, AboutARow, Claims
  <2>. QED  BY <2>1, <2>3, TabMoves
<1>3. CASE CommitAccess(t)
  <2>1. Goto(t, Idle) /\ UNCHANGED versions
    BY <1>3 DEF CommitAccess, Done
  <2>. QED  BY <2>1, IdleTab, TabMoves
<1>. QED  BY <1>1, <1>2, <1>3

LEMMA OfficeInvStep == ASSUME OfficeInv, [Next]_vars PROVE OfficeInv'
<1>1. CASE UNCHANGED office
  BY <1>1 DEF office, OfficeInv, HasRow, Claims, NoneDeleted, Numbered, Distinct, Existing
<1>2. CASE OfficeNext
  <2>1. PICK t \in Tabs : Uploading(t) \/ Activating(t) \/ Discarding(t) \/ Administering(t)
    BY <1>2 DEF OfficeNext
  <2>. QED
    BY <2>1, AskingKeeps, UploadingKeeps, CreatingKeeps, ActivatingKeeps, DiscardingKeeps, AdministeringKeeps
       DEF Uploading, Activating, Discarding, Administering
<1>. QED  BY <1>1, <1>2, OnePartSteps

(* A double submit leaves no two identical drafts: as long as none was       *)
(* discarded, no two versions of a template have the same bytes, however     *)
(* many uploads ran side by side.                                          *)
THEOREM UploadsMakeNoTwins == Spec => []NoTwins
<1>1. OfficeInv => NoTwins
  BY DEF OfficeInv, NoTwins, NoneDeleted, Distinct
<1>2. Init => OfficeInv
  BY OfficeInvInit DEF Init
<1>. QED  BY <1>1, <1>2, OfficeInvStep, PTL DEF Spec

-----------------------------------------------------------------------------
(***************************************************************************)
(* SourceDocuments.  A scan of which nothing was lost has a row, the file  *)
(* in hand or the rest of its batch for every file of a scope it is done   *)
(* with; and no row, scan or request points at bytes that were dropped     *)
(* before their time: the one copy a request drops is still nobody else's. *)
(***************************************************************************)
RowFields == {"id", "paper", "bytes", "kind", "confirmed", "copy"}
RowShape(d) == d = [f \in RowFields |-> d[f]]
RunFields == {"row", "tries", "at", "scopes", "batch", "considered", "whole", "lost", "file", "on", "verdict", "copy"}
RunShape(run) == run = [f \in RunFields |-> run[f]]
PageFields == {"at", "paper", "bytes", "kind", "copy"}
PageShape(page) == page = [f \in PageFields |-> page[f]]
Shaped ==
  /\ \A d \in documents : RowShape(d)
  /\ scans = [s \in Scans |-> scans[s]] /\ \A s \in Scans : RunShape(scans[s])
  /\ hand.at \in {"find", "attach"} => PageShape(hand)

Known == {d.paper : d \in documents}
Listed == [a \in Asked |-> filed[a] \intersect Readable]
Left(scopes) == {scopes[i] : i \in 1 .. Len(scopes)}
Seen(run, listed, known) ==
  \A a \in DOMAIN listed \ Left(run.scopes) : \A f \in listed[a] \ run.lost :
    f \in run.batch \/ (run.at = "record" /\ run.file = f) \/ f \in known
ScanOk(run, listed, known) ==
  /\ run.row = "running" =>
       /\ run.scopes \in Seq(Areas)
       /\ run.whole => Seen(run, listed, known)
       /\ run.at = "record" /\ run.on # NoRow => run.file \in known
       /\ run.at = "follow" => run.scopes = <<>> /\ run.batch = {}
  /\ run.row = "succeeded" /\ run.whole =>
       \A a \in DOMAIN listed : \A f \in listed[a] \ run.lost : f \in known
FoundOk == found \in Seq(PriorItems)
ScansOk == FoundOk /\ \A s \in Scans : ScanOk(scans[s], Listed, Known)

Safe == stored \union expired
Points(copy, made, safe) == copy = NoCopy \/ (copy \in 1 .. made /\ copy \in safe)
CopiesOk ==
  /\ copies \in Nat /\ expired \subseteq 1 .. copies
  /\ \A d \in documents : Points(d.copy, copies, Safe)
  /\ \A s \in Scans : Points(scans[s].copy, copies, Safe)
  /\ hand.at \in {"find", "attach"} => hand.copy \in 1 .. copies /\ hand.copy \in Safe
  /\ hand.at = "find" => /\ \A d \in documents : d.copy # hand.copy
                         /\ \A s \in Scans : scans[s].copy # hand.copy
  /\ purge.at \in {"delete", "clear"} => \A r \in purge.rows : r[2] \in expired

PapersInv == Shaped /\ ScansOk /\ CopiesOk

LEMMA RestOk ==
  /\ RunShape(Rest) /\ Rest.row = "none" /\ Rest.copy = NoCopy /\ Rest.whole = FALSE
  /\ \A listed, known : ScanOk(Rest, listed, known)
<1>1. RunShape(Rest) /\ Rest.row = "none" /\ Rest.copy = NoCopy /\ Rest.whole = FALSE
  BY DEF Rest, RunShape, RunFields
<1>. QED  BY <1>1 DEF ScanOk

LEMMA PapersInvInit == PapersInit => PapersInv
<1>. SUFFICES ASSUME PapersInit PROVE PapersInv
  OBVIOUS
<1>1. /\ documents = {} /\ stored = {} /\ expired = {} /\ copies = 0
      /\ scans = [s \in Scans |-> Rest] /\ hand.at = "idle" /\ purge.at = "asleep"
  BY DEF PapersInit, NoPage, Resting
<1>2. scans = [s \in Scans |-> scans[s]] /\ \A s \in Scans : scans[s] = Rest
  BY <1>1
<1>3. Shaped
  BY <1>1, <1>2, RestOk DEF Shaped
<1>4. ScansOk
  <2>1. FoundOk
    <3>1. PICK n \in Int : found \in [1 .. n -> PriorItems] /\ n >= 0
      <4>. DEFINE n == IF Cardinality(PriorItems) < ItemLimit THEN Cardinality(PriorItems) ELSE ItemLimit
      <4>1. n \in Nat
        BY FS_CardinalityType, SourceDocumentsAssumption
      <4>2. found \in [1 .. n -> PriorItems]
        BY DEF PapersInit, SomeOf
      <4>. HIDE DEF n
      <4>. QED  BY <4>1, <4>2
    <3>. QED  BY <3>1 DEF FoundOk
  <2>. QED  BY <1>2, <2>1, RestOk DEF ScansOk
<1>5. CopiesOk
  BY <1>1, <1>2, RestOk DEF CopiesOk, Points
<1>. QED  BY <1>3, <1>4, <1>5 DEF PapersInv

(* What rows there are more can only help a scan.                          *)
LEMMA MoreIsKnown ==
  ASSUME NEW run, NEW listed, NEW known, NEW more, known \subseteq more, ScanOk(run, listed, known)
  PROVE  ScanOk(run, listed, more)
BY DEF ScanOk, Seen

(* One scan moves, and the rows cover what they covered.                    *)
LEMMA ScanMoves ==
  ASSUME Shaped, ScansOk, NEW s \in Scans, NEW run, Becomes(s, run), RunShape(run),
         UNCHANGED <<filed, found, hand>>, \A d \in documents' : RowShape(d),
         Known \subseteq Known', ScanOk(run, Listed, Known')
  PROVE  Shaped' /\ ScansOk' /\ \A x \in Scans : scans'[x] = IF x = s THEN run ELSE scans[x]
<1>1. scans = [x \in Scans |-> scans[x]]
  BY DEF Shaped
<1>2. scans' = [x \in Scans |-> IF x = s THEN run ELSE scans[x]]
  BY <1>1 DEF Becomes
<1>3. scans' = [x \in Scans |-> scans'[x]] /\ \A x \in Scans : scans'[x] = IF x = s THEN run ELSE scans[x]
  BY <1>2
<1>4. Shaped'
  BY <1>3 DEF Shaped
<1>. DEFINE more == Known'
<1>5. FoundOk' /\ Listed' = Listed /\ \A x \in Scans : ScanOk(scans[x], Listed, Known)
  BY DEF ScansOk, FoundOk, Listed, Asked
<1>. HIDE DEF more
<1>6. Known \subseteq more /\ ScanOk(run, Listed, more)
  BY DEF more
<1>7. \A x \in Scans : ScanOk(scans[x], Listed, more)
  BY <1>5, <1>6, MoreIsKnown
<1>8. \A x \in Scans : ScanOk(scans'[x], Listed, more)
  BY <1>3, <1>6, <1>7
<1>9. ScansOk'
  BY <1>5, <1>8 DEF ScansOk, more
<1>. QED  BY <1>3, <1>4, <1>9

(* No scan moves.                                                          *)
LEMMA ScansRest ==
  ASSUME Shaped, ScansOk, UNCHANGED <<filed, found, scans>>, \A d \in documents' : RowShape(d),
         hand'.at \in {"find", "attach"} => PageShape(hand'), Known \subseteq Known'
  PROVE  Shaped' /\ ScansOk'
<1>1. Shaped'
  BY DEF Shaped
<1>. DEFINE more == Known'
<1>5. FoundOk' /\ Listed' = Listed /\ \A x \in Scans : ScanOk(scans[x], Listed, Known)
  BY DEF ScansOk, FoundOk, Listed, Asked
<1>. HIDE DEF more
<1>6. Known \subseteq more
  BY DEF more
<1>7. \A x \in Scans : ScanOk(scans[x], Listed, more)
  BY <1>5, <1>6, MoreIsKnown
<1>8. ScansOk'
  BY <1>5, <1>7 DEF ScansOk, more
<1>. QED  BY <1>1, <1>8

(* The copies stay what they are, and one scan moves, keeping its copy or   *)
(* giving it up.                                                           *)
LEMMA CopiesStay ==
  ASSUME CopiesOk, NEW s \in Scans, NEW run, UNCHANGED <<stored, expired, copies, hand, purge, documents>>,
         \A x \in Scans : scans'[x] = IF x = s THEN run ELSE scans[x],
         run.copy \in {NoCopy, scans[s].copy}
  PROVE  CopiesOk'
<1>1. Points(run.copy, copies, Safe)
  BY DEF CopiesOk, Points
<1>2. hand.at = "find" => run.copy # hand.copy
  <2>1. hand.at = "find" => hand.copy \in 1 .. copies /\ copies \in Nat /\ scans[s].copy # hand.copy
    BY DEF CopiesOk
  <2>. QED  BY <2>1 DEF NoCopy
<1>. QED  BY <1>1, <1>2 DEF CopiesOk, Points, Safe

(* A scan that only reads, and forgets the copy in its hands or keeps it.    *)
LEMMA ReadingKeeps ==
  ASSUME PapersInv, NEW s \in Scans, NEW run, Becomes(s, run),
         UNCHANGED <<filed, found, documents, stored, expired, copies, hand, purge>>,
         RunShape(run), run.copy \in {NoCopy, scans[s].copy}, ScanOk(run, Listed, Known)
  PROVE  PapersInv'
<1>1. Shaped /\ ScansOk /\ CopiesOk
  BY DEF PapersInv
<1>2. /\ \A d \in documents' : RowShape(d)
      /\ Known' = Known
  BY <1>1 DEF Shaped, Known
<1>3. Shaped' /\ ScansOk' /\ \A x \in Scans : scans'[x] = IF x = s THEN run ELSE scans[x]
  BY <1>1, <1>2, ScanMoves
<1>4. CopiesOk'
  BY <1>1, <1>3, CopiesStay
<1>. QED  BY <1>3, <1>4 DEF PapersInv

(* A run is over, and its row says so.                                      *)
Over(run, row) ==
  [Rest EXCEPT !.row = row, !.tries = run.tries, !.whole = row = "succeeded" /\ run.whole, !.lost = run.lost]

LEMMA OverIs ==
  ASSUME NEW run, NEW row
  PROVE  /\ RunShape(Over(run, row)) /\ Over(run, row).row = row /\ Over(run, row).copy = NoCopy
         /\ Over(run, row).whole = (row = "succeeded" /\ run.whole) /\ Over(run, row).lost = run.lost
<1>. DEFINE w == row = "succeeded" /\ run.whole
<1>1. Over(run, row) = [Rest EXCEPT !.row = row, !.tries = run.tries, !.whole = w, !.lost = run.lost]
  BY DEF Over
<1>. HIDE DEF w
<1>2. RunShape(Rest) /\ Rest.copy = NoCopy
  BY RestOk
<1>3. /\ RunShape(Over(run, row)) /\ Over(run, row).row = row /\ Over(run, row).copy = NoCopy
      /\ Over(run, row).whole = w /\ Over(run, row).lost = run.lost
  BY <1>1, <1>2 DEF RunShape, RunFields
<1>. QED  BY <1>3 DEF w

LEMMA OverIsOk ==
  ASSUME NEW run, NEW row \in {"pending", "dead"}, NEW listed, NEW known
  PROVE  ScanOk(Over(run, row), listed, known)
BY OverIs DEF ScanOk

LEMMA FailedIs ==
  ASSUME NEW s \in Scans, ScanFailed(s)
  PROVE  \E row \in {"pending", "dead"} : Becomes(s, Over(scans[s], row))
BY DEF ScanFailed, ScanEnds, Over

LEMMA Scopes ==
  /\ Left(<<>>) = {} /\ <<>> \in Seq(Areas)
  /\ \A q \in Seq(Areas) : q # <<>> => Tail(q) \in Seq(Areas) /\ Left(q) \subseteq {Head(q)} \union Left(Tail(q))
<1>1. Left(<<>>) = {} /\ <<>> \in Seq(Areas)
  BY DEF Left
<1>2. ASSUME NEW q \in Seq(Areas), q # <<>>
      PROVE  Tail(q) \in Seq(Areas) /\ Left(q) \subseteq {Head(q)} \union Left(Tail(q))
  <2>1. Tail(q) \in Seq(Areas) /\ Len(q) \in Nat /\ Len(Tail(q)) = Len(q) - 1 /\ Head(q) = q[1]
        /\ \A i \in 1 .. Len(Tail(q)) : Tail(q)[i] = q[i + 1]
    BY <1>2
  <2>2. ASSUME NEW i \in 1 .. Len(q), i # 1 PROVE q[i] \in Left(Tail(q))
    <3>1. i - 1 \in 1 .. Len(Tail(q)) /\ Tail(q)[i - 1] = q[i]
      BY <2>1, <2>2
    <3>. QED  BY <3>1 DEF Left
  <2>. QED  BY <2>1, <2>2 DEF Left
<1>. QED  BY <1>1, <1>2

(* The whole list of scopes leaves nothing out of what is asked for.        *)
LEMMA AllScopes ==
  ASSUME FoundOk, NEW q, q = <<"own">> \o found \o <<"client">>
  PROVE  q \in Seq(Areas) /\ DOMAIN Listed \subseteq Left(q)
<1>. DEFINE first == <<"own">> \o found
<1>1. /\ found \in Seq(Areas) /\ <<"own">> \in Seq(Areas) /\ <<"client">> \in Seq(Areas)
      /\ Len(<<"own">>) = 1 /\ Len(<<"client">>) = 1
  <2>1. PriorItems \subseteq Areas /\ "own" \in Areas /\ "client" \in Areas
    BY DEF Areas
  <2>. QED  BY <2>1 DEF FoundOk
<1>2. /\ first \in Seq(Areas) /\ Len(first) = 1 + Len(found) /\ first[1] = "own"
      /\ \A i \in 1 .. Len(found) : first[i + 1] = found[i]
  BY <1>1
<1>. HIDE DEF first
<1>3. /\ q \in Seq(Areas) /\ Len(q) = Len(first) + 1 /\ q[Len(first) + 1] = "client"
      /\ \A i \in 1 .. Len(first) : q[i] = first[i]
  <2>1. q = first \o <<"client">>
    BY DEF first
  <2>. QED  BY <1>1, <1>2, <2>1
<1>4. Len(found) \in Nat /\ DOMAIN found = 1 .. Len(found)
  BY DEF FoundOk
<1>5. "own" \in Left(q) /\ "client" \in Left(q)
  BY <1>2, <1>3, <1>4 DEF Left
<1>6. ASSUME NEW i \in DOMAIN found PROVE found[i] \in Left(q)
  <2>1. i + 1 \in 1 .. Len(first) /\ q[i + 1] = found[i]
    BY <1>2, <1>3, <1>4
  <2>. QED  BY <1>2, <1>3, <1>4, <2>1 DEF Left
<1>. QED  BY <1>3, <1>5, <1>6 DEF Listed, Asked

LEMMA AskScanKeeps == ASSUME PapersInv, NEW s \in Scans, AskScan(s) PROVE PapersInv'
<1>. DEFINE run == [Rest EXCEPT !.row = "pending"]
<1>1. RunShape(run) /\ run.row = "pending" /\ run.copy = NoCopy
  BY DEF Rest, RunShape, RunFields
<1>2. Becomes(s, run) /\ UNCHANGED <<filed, found, documents, stored, expired, copies, hand, purge>>
  BY DEF AskScan, karbonFiles
<1>. HIDE DEF run
<1>3. ScanOk(run, Listed, Known)
  BY <1>1 DEF ScanOk
<1>. QED  BY <1>1, <1>2, <1>3, ReadingKeeps

LEMMA StartScanKeeps == ASSUME PapersInv, NEW s \in Scans, StartScan(s) PROVE PapersInv'
<1>. DEFINE tries == scans[s].tries + 1
            all == <<"own">> \o found \o <<"client">>
            some == <<"own", "client">>
            run == [Rest EXCEPT !.row = "running", !.tries = tries, !.at = "scope"]
            whole == [run EXCEPT !.scopes = all, !.whole = TRUE]
            part == [run EXCEPT !.scopes = some]
<1>1. UNCHANGED <<filed, found, documents, stored, expired, copies, hand, purge>>
  BY DEF StartScan, ScanReads, karbonFiles
<1>2. Becomes(s, whole) \/ Becomes(s, part)
  BY DEF StartScan
<1>3. all \in Seq(Areas) /\ DOMAIN Listed \subseteq Left(all)
  BY AllScopes DEF PapersInv, ScansOk
<1>4. some \in Seq(Areas)
  BY DEF Areas
<1>. HIDE DEF all, some, tries
<1>5. RunShape(Rest) /\ Rest.copy = NoCopy /\ Rest.whole = FALSE
  BY RestOk
<1>6. /\ RunShape(whole) /\ whole.row = "running" /\ whole.at = "scope" /\ whole.copy = NoCopy
      /\ whole.scopes = all
  BY <1>5, ZenonT(40) DEF RunShape, RunFields
<1>7. /\ RunShape(part) /\ part.row = "running" /\ part.at = "scope" /\ part.copy = NoCopy
      /\ part.scopes = some /\ part.whole = FALSE
  BY <1>5, ZenonT(40) DEF RunShape, RunFields
<1>. HIDE DEF whole, part
<1>8. ScanOk(whole, Listed, Known)
  BY <1>3, <1>6 DEF ScanOk, Seen
<1>9. ScanOk(part, Listed, Known)
  BY <1>4, <1>7 DEF ScanOk
<1>. QED  BY <1>1, <1>2, <1>6, <1>7, <1>8, <1>9, ReadingKeeps

LEMMA ReadScopeKeeps == ASSUME PapersInv, NEW s \in Scans, ReadScope(s) PROVE PapersInv'
<1>. DEFINE old == scans[s]
            listing == filed[Head(old.scopes)] \intersect Readable
<1>1. UNCHANGED <<filed, found, documents, stored, expired, copies, hand, purge>>
  BY DEF ReadScope, ScanReads, karbonFiles
<1>2. old.row = "running" /\ old.at = "scope" /\ old.scopes # <<>> /\ old.batch = {}
  BY DEF ReadScope, ScanAt
<1>3. RunShape(old) /\ ScanOk(old, Listed, Known)
  BY DEF PapersInv, Shaped, ScansOk
<1>4. CASE Becomes(s, [old EXCEPT !.scopes = <<>>, !.whole = FALSE])
  <2>. DEFINE run == [old EXCEPT !.scopes = <<>>, !.whole = FALSE]
  <2>1. /\ RunShape(run) /\ run.row = old.row /\ run.at = old.at /\ run.copy = old.copy
        /\ run.scopes = <<>> /\ run.whole = FALSE
    BY <1>3 DEF RunShape, RunFields
  <2>. HIDE DEF run
  <2>2. ScanOk(run, Listed, Known)
    BY <1>2, <2>1, Scopes DEF ScanOk
  <2>. HIDE DEF old
  <2>3. Becomes(s, run)
    BY <1>4 DEF run
  <2>. QED  BY <1>1, <2>1, <2>2, <2>3, ReadingKeeps DEF old
<1>5. ASSUME NEW take,
             Becomes(s, [old EXCEPT !.scopes = Tail(@), !.batch = take,
                                    !.considered = @ + Cardinality(take), !.whole = @ /\ take = listing])
      PROVE  PapersInv'
  <2>. DEFINE sum == old.considered + Cardinality(take)
              whole == old.whole /\ take = listing
              run == [old EXCEPT !.scopes = Tail(@), !.batch = take, !.considered = sum, !.whole = whole]
  <2>0. Becomes(s, run)
    BY <1>5
  <2>. HIDE DEF sum, whole
  <2>1. /\ RunShape(run) /\ run.row = old.row /\ run.at = old.at /\ run.copy = old.copy
        /\ run.scopes = Tail(old.scopes) /\ run.whole = whole /\ run.batch = take
        /\ run.lost = old.lost
    BY <1>3 DEF RunShape, RunFields
  <2>. HIDE DEF run
  <2>2. /\ run.scopes \in Seq(Areas)
        /\ Left(old.scopes) \subseteq {Head(old.scopes)} \union Left(run.scopes)
    <3>1. old.scopes \in Seq(Areas)
      BY <1>2, <1>3 DEF ScanOk
    <3>. QED  BY <1>2, <2>1, <3>1, Scopes
  <2>3. run.whole => old.whole /\ take = listing
    BY <2>1, Zenon DEF whole
  <2>4. ASSUME run.whole PROVE Seen(run, Listed, Known)
    <3>1. Seen(old, Listed, Known) /\ take = filed[Head(old.scopes)] \intersect Readable
      BY <1>2, <1>3, <2>3, <2>4 DEF ScanOk
    <3>2. DOMAIN Listed \ Left(run.scopes) \subseteq (DOMAIN Listed \ Left(old.scopes)) \union {Head(old.scopes)}
      BY <2>2
    <3>3. Head(old.scopes) \in DOMAIN Listed => Listed[Head(old.scopes)] = take
      BY <3>1 DEF Listed
    <3>. QED  BY <1>2, <2>1, <3>1, <3>2, <3>3 DEF Seen
  <2>5. ScanOk(run, Listed, Known)
    BY <1>2, <2>1, <2>2, <2>4 DEF ScanOk
  <2>. QED  BY <1>1, <2>0, <2>1, <2>5, ReadingKeeps
<1>6. \/ Becomes(s, [old EXCEPT !.scopes = <<>>, !.whole = FALSE])
      \/ \E take \in Takes(listing, ScanLimit - old.considered) :
           Becomes(s, [old EXCEPT !.scopes = Tail(@), !.batch = take,
                                  !.considered = @ + Cardinality(take), !.whole = @ /\ take = listing])
  BY DEF ReadScope
<1>. HIDE DEF old, listing
<1>. QED  BY <1>4, <1>5, <1>6

LEMMA ScopeFailsKeeps == ASSUME PapersInv, NEW s \in Scans, ScopeFails(s) PROVE PapersInv'
<1>. DEFINE old == scans[s]
<1>1. UNCHANGED <<filed, found, documents, stored, expired, copies, hand, purge>>
  BY DEF ScopeFails, ScanReads, karbonFiles
<1>2. old.row = "running" /\ old.at = "scope"
  BY DEF ScopeFails, ScanAt
<1>3. RunShape(old) /\ ScanOk(old, Listed, Known)
  BY DEF PapersInv, Shaped, ScansOk
<1>4. CASE old.scopes # <<>> /\ Becomes(s, [old EXCEPT !.scopes = Tail(@), !.whole = FALSE])
  <2>. DEFINE run == [old EXCEPT !.scopes = Tail(@), !.whole = FALSE]
  <2>0. Becomes(s, run)
    BY <1>4
  <2>1. /\ RunShape(run) /\ run.row = old.row /\ run.at = old.at /\ run.copy = old.copy
        /\ run.scopes = Tail(old.scopes) /\ run.whole = FALSE
    BY <1>3 DEF RunShape, RunFields
  <2>. HIDE DEF run
  <2>2. run.scopes \in Seq(Areas)
    <3>1. old.scopes \in Seq(Areas)
      BY <1>2, <1>3 DEF ScanOk
    <3>. QED  BY <1>4, <2>1, <3>1, Scopes
  <2>3. ScanOk(run, Listed, Known)
    BY <1>2, <2>1, <2>2 DEF ScanOk
  <2>. QED  BY <1>1, <2>0, <2>1, <2>3, ReadingKeeps
<1>5. ASSUME NEW f \in old.batch, Becomes(s, [old EXCEPT !.batch = @ \ {f}, !.whole = FALSE])
      PROVE  PapersInv'
  <2>. DEFINE run == [old EXCEPT !.batch = @ \ {f}, !.whole = FALSE]
  <2>0. Becomes(s, run)
    BY <1>5
  <2>1. /\ RunShape(run) /\ run.row = old.row /\ run.at = old.at /\ run.copy = old.copy
        /\ run.scopes = old.scopes /\ run.whole = FALSE
    BY <1>3 DEF RunShape, RunFields
  <2>. HIDE DEF run
  <2>2. ScanOk(run, Listed, Known)
    BY <1>2, <1>3, <2>1 DEF ScanOk
  <2>. QED  BY <1>1, <2>0, <2>1, <2>2, ReadingKeeps
<1>. QED  BY <1>4, <1>5 DEF ScopeFails, Missed

LEMMA ScanDiesKeeps == ASSUME PapersInv, NEW s \in Scans, ScanDies(s) PROVE PapersInv'
<1>1. UNCHANGED <<filed, found, documents, stored, expired, copies, hand, purge>>
  BY DEF ScanDies, ScanReads, karbonFiles
<1>2. PICK row \in {"pending", "dead"} : Becomes(s, Over(scans[s], row))
  BY FailedIs DEF ScanDies
<1>. DEFINE run == Over(scans[s], row)
<1>3. Becomes(s, run) /\ RunShape(run) /\ run.copy = NoCopy /\ ScanOk(run, Listed, Known)
  BY <1>2, OverIs, OverIsOk
<1>. HIDE DEF run
<1>. QED  BY <1>1, <1>3, ReadingKeeps

LEMMA QueueFollowUpKeeps == ASSUME PapersInv, NEW s \in Scans, QueueFollowUp(s) PROVE PapersInv'
<1>. DEFINE old == scans[s]
            run == Over(old, "succeeded")
<1>1. UNCHANGED <<filed, found, documents, stored, expired, copies, hand, purge>>
  BY DEF QueueFollowUp, karbonFiles
<1>2. old.row = "running" /\ old.at = "follow" /\ Becomes(s, run)
  BY DEF QueueFollowUp, ScanAt, ScanEnds, Over
<1>3. ScanOk(old, Listed, Known)
  BY DEF PapersInv, ScansOk
<1>4. /\ RunShape(run) /\ run.row = "succeeded" /\ run.copy = NoCopy
      /\ (run.whole => old.whole) /\ run.lost = old.lost
  <2>. HIDE DEF old, run
  <2>1. \A before, row : /\ RunShape(Over(before, row)) /\ Over(before, row).row = row
                         /\ Over(before, row).copy = NoCopy
                         /\ Over(before, row).whole = (row = "succeeded" /\ before.whole)
                         /\ Over(before, row).lost = before.lost
    BY OverIs
  <2>2. run = Over(old, "succeeded")
    BY DEF run
  <2>3. /\ RunShape(run) /\ run.row = "succeeded" /\ run.copy = NoCopy
        /\ run.whole = ("succeeded" = "succeeded" /\ old.whole) /\ run.lost = old.lost
    BY <2>1, <2>2, Zenon
  <2>. QED  BY <2>3
<1>. HIDE DEF run, old
<1>5. ASSUME run.whole PROVE \A a \in DOMAIN Listed : \A f \in Listed[a] \ run.lost : f \in Known
  <2>1. Seen(old, Listed, Known) /\ old.scopes = <<>> /\ old.batch = {}
    BY <1>2, <1>3, <1>4, <1>5 DEF ScanOk
  <2>. QED  BY <1>2, <1>4, <2>1, Scopes DEF Seen
<1>6. ScanOk(run, Listed, Known)
  BY <1>4, <1>5 DEF ScanOk
<1>. QED  BY <1>1, <1>2, <1>4, <1>6, ReadingKeeps

(* Rows take the copies there were, or the copy the scan holds.             *)
LEMMA CopiesPass ==
  ASSUME CopiesOk, NEW s \in Scans, NEW run, UNCHANGED <<expired, hand, purge>>,
         copies' \in Nat, copies' >= copies, stored \subseteq stored',
         \A x \in Scans : scans'[x] = IF x = s THEN run ELSE scans[x],
         \A d \in documents' : d.copy \in {NoCopy, scans[s].copy} \/ \E e \in documents : d.copy = e.copy,
         run.copy \in {NoCopy, scans[s].copy} \/ (run.copy = copies + 1 /\ run.copy \in stored' /\ copies' = copies + 1)
  PROVE  CopiesOk'
<1>1. /\ copies \in Nat /\ expired \subseteq 1 .. copies
      /\ \A d \in documents : Points(d.copy, copies, Safe)
      /\ \A x \in Scans : Points(scans[x].copy, copies, Safe)
      /\ hand.at \in {"find", "attach"} => hand.copy \in 1 .. copies /\ hand.copy \in Safe
      /\ hand.at = "find" => /\ \A d \in documents : d.copy # hand.copy
                             /\ \A x \in Scans : scans[x].copy # hand.copy
  BY DEF CopiesOk
<1>2. 1 .. copies \subseteq 1 .. copies' /\ Safe \subseteq Safe'
  BY <1>1 DEF Safe
<1>3. \A c : Points(c, copies, Safe) => Points(c, copies', Safe')
  BY <1>2 DEF Points
<1>4. Points(NoCopy, copies', Safe') /\ Points(run.copy, copies', Safe')
  <2>1. CASE run.copy \in {NoCopy, scans[s].copy}
    BY <1>1, <1>3, <2>1 DEF Points
  <2>2. CASE run.copy = copies + 1 /\ run.copy \in stored' /\ copies' = copies + 1
    BY <1>1, <2>2 DEF Points, Safe
  <2>. QED  BY <2>1, <2>2 DEF Points
<1>5. \A d \in documents' : Points(d.copy, copies', Safe')
  BY <1>1, <1>3, <1>4
<1>6. ASSUME NEW x \in Scans PROVE Points(scans'[x].copy, copies', Safe')
  <2>1. CASE x = s
    BY <1>4, <2>1
  <2>2. CASE x # s
    <3>. DEFINE c == scans[x].copy
    <3>1. Points(c, copies', Safe')
      BY <1>1, <1>3
    <3>2. scans'[x].copy = c
      BY <2>2
    <3>. HIDE DEF c
    <3>. QED  BY <3>1, <3>2 DEF Points
  <2>. QED  BY <2>1, <2>2
<1>7. ASSUME hand.at = "find" PROVE /\ \A d \in documents' : d.copy # hand.copy
                                   /\ \A x \in Scans : scans'[x].copy # hand.copy
  <2>1. hand.copy # NoCopy /\ hand.copy # copies + 1
    BY <1>1, <1>7 DEF NoCopy
  <2>2. /\ \A d \in documents : d.copy # hand.copy
        /\ \A x \in Scans : scans[x].copy # hand.copy
    BY <1>1, <1>7
  <2>. QED  BY <2>1, <2>2
<1>8. hand.at \in {"find", "attach"} => hand.copy \in 1 .. copies' /\ hand.copy \in Safe'
  BY <1>1, <1>2
<1>9. purge.at \in {"delete", "clear"} => \A r \in purge.rows : r[2] \in expired
  BY DEF CopiesOk
<1>10. expired' = expired /\ hand' = hand /\ purge' = purge /\ expired' \subseteq 1 .. copies'
  BY <1>1, <1>2
<1>11. /\ hand'.at = "find" => /\ \A d \in documents' : d.copy # hand'.copy
                               /\ \A x \in Scans : scans'[x].copy # hand'.copy
       /\ hand'.at \in {"find", "attach"} => hand'.copy \in 1 .. copies' /\ hand'.copy \in Safe'
       /\ purge'.at \in {"delete", "clear"} => \A r \in purge'.rows : r[2] \in expired'
  BY <1>7, <1>8, <1>9, <1>10
<1>. QED  BY <1>5, <1>6, <1>10, <1>11 DEF CopiesOk

LEMMA JudgeKeeps == ASSUME PapersInv, NEW s \in Scans, Judge(s) PROVE PapersInv'
<1>. DEFINE old == scans[s]
<1>1. UNCHANGED <<filed, found, documents, expired, hand, purge>>
  BY DEF Judge, karbonFiles
<1>2. old.row = "running" /\ old.at = "scope"
  BY DEF Judge, ScanAt
<1>3. RunShape(old) /\ ScanOk(old, Listed, Known) /\ CopiesOk /\ Shaped /\ ScansOk /\ copies \in Nat
  BY SMTT(30) DEF PapersInv, Shaped, ScansOk, CopiesOk
<1>4. Known' = Known /\ \A d \in documents' : RowShape(d)
  BY <1>1, <1>3, SMTT(30) DEF Known, Shaped
<1>5. PICK f \in old.batch, verdict \in {"unreadable", "refused", "accepted"} :
       LET rest == [old EXCEPT !.batch = @ \ {f}]
           next == [rest EXCEPT !.at = "record", !.file = f, !.verdict = verdict]
           rows == IF RowsOf(f) = {} THEN {NoRow} ELSE {d.id : d \in RowsOf(f)}
       IN  \/ /\ verdict # "accepted" /\ NoPut /\ UNCHANGED slips
              /\ \E id \in rows : Becomes(s, [next EXCEPT !.on = id])
           \/ /\ verdict = "accepted" /\ Put /\ UNCHANGED slips
              /\ \E id \in rows : Becomes(s, [next EXCEPT !.on = id, !.copy = copies + 1])
           \/ verdict = "accepted" /\ Slip /\ NoPut /\ Becomes(s, [rest EXCEPT !.lost = @ \union {f}])
  BY DEF Judge
<1>. DEFINE less == old.batch \ {f}
            more == old.lost \union {f}
            rest == [old EXCEPT !.batch = less]
            next == [rest EXCEPT !.at = "record", !.file = f, !.verdict = verdict]
            rows == IF RowsOf(f) = {} THEN {NoRow} ELSE {d.id : d \in RowsOf(f)}
<1>6. \A id \in rows : id # NoRow => f \in Known
  BY DEF RowsOf, Known
<1>. HIDE DEF less, more, rows
<1>7. ASSUME NEW id \in rows, NEW c,
             (c = old.copy /\ UNCHANGED <<copies, stored>>) \/ (c = copies + 1 /\ Put),
             Becomes(s, [next EXCEPT !.on = id, !.copy = c])
      PROVE  PapersInv'
  <2>. DEFINE run == [next EXCEPT !.on = id, !.copy = c]
  <2>0. Becomes(s, run)
    BY <1>7
  <2>1. /\ RunShape(run) /\ run.row = old.row /\ run.at = "record" /\ run.copy = c /\ run.on = id
        /\ run.scopes = old.scopes /\ run.whole = old.whole /\ run.batch = less /\ run.lost = old.lost
        /\ run.file = f
    BY <1>3 DEF RunShape, RunFields
  <2>. HIDE DEF run
  <2>2. ASSUME run.whole PROVE Seen(run, Listed, Known)
    <3>1. Seen(old, Listed, Known)
      BY <1>2, <1>3, <2>1, <2>2 DEF ScanOk
    <3>. QED  BY <1>2, <2>1, <3>1 DEF Seen, less
  <2>3. run.on # NoRow => run.file \in Known
    BY <1>6, <2>1
  <2>4. ScanOk(run, Listed, Known)
    BY <1>2, <1>3, <2>1, <2>2, <2>3 DEF ScanOk
  <2>5. Shaped' /\ ScansOk' /\ \A x \in Scans : scans'[x] = IF x = s THEN run ELSE scans[x]
    BY <1>1, <1>3, <1>4, <2>0, <2>1, <2>4, ScanMoves
  <2>6. /\ copies' \in Nat /\ copies' >= copies /\ stored \subseteq stored'
        /\ run.copy = old.copy \/ (run.copy = copies + 1 /\ run.copy \in stored' /\ copies' = copies + 1)
    BY <1>3, <1>7, <2>1 DEF Put
  <2>. HIDE DEF rest, next
  <2>7. CopiesOk'
    BY <1>1, <1>3, <2>5, <2>6, CopiesPass
  <2>. QED  BY <2>5, <2>7 DEF PapersInv
<1>8. ASSUME NoPut, Becomes(s, [rest EXCEPT !.lost = more]) PROVE PapersInv'
  <2>. DEFINE run == [rest EXCEPT !.lost = more]
  <2>0. Becomes(s, run) /\ UNCHANGED <<filed, found, documents, stored, expired, copies, hand, purge>>
    BY <1>1, <1>8 DEF NoPut
  <2>1. /\ RunShape(run) /\ run.row = old.row /\ run.at = old.at /\ run.copy = old.copy
        /\ run.scopes = old.scopes /\ run.whole = old.whole /\ run.batch = less /\ run.lost = more
    BY <1>3 DEF RunShape, RunFields
  <2>. HIDE DEF run
  <2>2. ASSUME run.whole PROVE Seen(run, Listed, Known)
    <3>1. Seen(old, Listed, Known)
      BY <1>2, <1>3, <2>1, <2>2 DEF ScanOk
    <3>. QED  BY <1>2, <2>1, <3>1 DEF Seen, less, more
  <2>3. ScanOk(run, Listed, Known)
    BY <1>2, <1>3, <2>1, <2>2, SMTT(30) DEF ScanOk
  <2>. QED  BY <2>0, <2>1, <2>3, ReadingKeeps
<1>9. \/ NoPut /\ \E id \in rows : Becomes(s, [next EXCEPT !.on = id])
      \/ Put /\ \E id \in rows : Becomes(s, [next EXCEPT !.on = id, !.copy = copies + 1])
      \/ NoPut /\ Becomes(s, [rest EXCEPT !.lost = more])
  BY <1>5 DEF less, more, rows
<1>10. \A id \in rows : [next EXCEPT !.on = id] = [next EXCEPT !.on = id, !.copy = old.copy]
  <2>1. RunShape(next) /\ next.copy = old.copy
    BY <1>3 DEF RunShape, RunFields
  <2>. HIDE DEF next
  <2>. QED  BY <2>1 DEF RunShape, RunFields
<1>. HIDE DEF rest, next
<1>11. ASSUME NoPut, NEW id \in rows, Becomes(s, [next EXCEPT !.on = id]) PROVE PapersInv'
  <2>1. Becomes(s, [next EXCEPT !.on = id, !.copy = old.copy])
    BY <1>10, <1>11
  <2>. QED  BY <1>7, <1>11, <2>1 DEF NoPut
<1>12. ASSUME Put, NEW id \in rows, Becomes(s, [next EXCEPT !.on = id, !.copy = copies + 1]) PROVE PapersInv'
  <2>. DEFINE c == copies + 1
  <2>1. Becomes(s, [next EXCEPT !.on = id, !.copy = c]) /\ c = copies + 1
    BY <1>12
  <2>. HIDE DEF c
  <2>. QED  BY <1>7, <1>12, <2>1
<1>. QED  BY <1>8, <1>9, <1>11, <1>12

(* What a scan makes of a row it found. *)
LEMMA AfterIs ==
  ASSUME NEW d, NEW run, RowShape(d)
  PROVE  RowShape(After(d, run)) /\ After(d, run).paper = d.paper /\ After(d, run).copy \in {d.copy, run.copy}
<1>1. \A kind : /\ RowShape(Refused(d, kind)) /\ Refused(d, kind).paper = d.paper
                  /\ Refused(d, kind).copy = d.copy
  BY DEF Refused, RowShape, RowFields
<1>. DEFINE bytes == Bytes(d.paper)
            c == run.copy
            confirmed == IF d.confirmed = "no" THEN "app" ELSE d.confirmed
            row == [d EXCEPT !.kind = TextKind, !.bytes = bytes, !.copy = c, !.confirmed = confirmed]
<1>2. Accepted(d, TextKind, run.copy) = row
  BY DEF Accepted
<1>. HIDE DEF bytes, c, confirmed
<1>3. RowShape(row) /\ row.paper = d.paper /\ row.copy = c
  BY DEF RowShape, RowFields
<1>. HIDE DEF row
<1>. QED  BY <1>1, <1>2, <1>3 DEF After, c

LEMMA NewRowIs ==
  ASSUME NEW f, NEW bytes, NEW kind, NEW confirmed, NEW copy, Attach(f, bytes, kind, confirmed, copy)
  PROVE  \E row : documents' = documents \union {row} /\ RowShape(row) /\ row.paper = f /\ row.copy = copy
<1>. DEFINE id == Cardinality(documents) + 1
            row == [id |-> id, paper |-> f, bytes |-> bytes, kind |-> kind, confirmed |-> confirmed, copy |-> copy]
<1>1. documents' = documents \union {row}
  BY DEF Attach
<1>. HIDE DEF id
<1>2. RowShape(row) /\ row.paper = f /\ row.copy = copy
  BY DEF RowShape, RowFields
<1>. QED  BY <1>1, <1>2

(* Each row becomes one that is about the same file.                        *)
Follows(becomes) ==
  /\ documents' = {becomes[d] : d \in documents}
  /\ \A d \in documents : RowShape(becomes[d]) /\ becomes[d].paper = d.paper

LEMMA RowsFollow ==
  ASSUME NEW becomes, Follows(becomes)
  PROVE  Known' = Known /\ \A d \in documents' : RowShape(d)
<1>1. ASSUME NEW f \in Known PROVE f \in Known'
  <2>1. PICK d \in documents : d.paper = f
    BY DEF Known
  <2>2. becomes[d] \in documents' /\ becomes[d].paper = f
    BY <2>1 DEF Follows
  <2>. QED  BY <2>2 DEF Known
<1>2. ASSUME NEW f \in Known' PROVE f \in Known
  <2>1. PICK d \in documents' : d.paper = f
    BY <1>2 DEF Known
  <2>2. PICK e \in documents : d = becomes[e]
    BY <2>1 DEF Follows
  <2>. QED  BY <2>1, <2>2 DEF Known, Follows
<1>. QED  BY <1>1, <1>2 DEF Follows

LEMMA RecordKeeps == ASSUME PapersInv, NEW s \in Scans, Record(s) PROVE PapersInv'
<1>. DEFINE old == scans[s]
            run == [old EXCEPT !.at = "scope", !.file = NoPaper, !.on = NoRow, !.verdict = "", !.copy = NoCopy]
<1>1. UNCHANGED <<filed, found, stored, expired, copies, hand, purge>>
  BY DEF Record, karbonFiles
<1>2. old.row = "running" /\ old.at = "record"
  BY DEF Record, ScanAt
<1>3. RunShape(old) /\ ScanOk(old, Listed, Known) /\ CopiesOk /\ Shaped /\ ScansOk /\ copies \in Nat
  BY DEF PapersInv, Shaped, ScansOk, CopiesOk
<1>4. CASE ScanFailed(s) /\ UNCHANGED documents
  <2>1. PICK row \in {"pending", "dead"} : Becomes(s, Over(scans[s], row))
    BY <1>4, FailedIs
  <2>. DEFINE over == Over(scans[s], row)
  <2>2. Becomes(s, over) /\ RunShape(over) /\ over.copy = NoCopy /\ ScanOk(over, Listed, Known)
    BY <2>1, OverIs, OverIsOk
  <2>. HIDE DEF over
  <2>. QED  BY <1>1, <1>4, <2>2, ReadingKeeps
<1>5. ASSUME Recorded(s), \A d \in documents' : RowShape(d), Known \subseteq Known', old.file \in Known',
             \A d \in documents' : d.copy = old.copy \/ \E e \in documents : d.copy = e.copy
      PROVE  PapersInv'
  <2>0. Becomes(s, run)
    BY <1>5 DEF Recorded
  <2>1. /\ RunShape(run) /\ run.row = old.row /\ run.at = "scope" /\ run.copy = NoCopy /\ run.on = NoRow
        /\ run.scopes = old.scopes /\ run.whole = old.whole /\ run.batch = old.batch /\ run.lost = old.lost
    BY <1>3 DEF RunShape, RunFields
  <2>. HIDE DEF run
  <2>. DEFINE more == Known'
  <2>. HIDE DEF more
  <2>2. Known \subseteq more /\ old.file \in more
    BY <1>5 DEF more
  <2>3. ASSUME run.whole PROVE Seen(run, Listed, more)
    <3>1. Seen(old, Listed, Known)
      BY <1>2, <1>3, <2>1, <2>3 DEF ScanOk
    <3>. QED  BY <1>2, <2>1, <2>2, <3>1 DEF Seen
  <2>4. ScanOk(run, Listed, more)
    BY <1>2, <1>3, <2>1, <2>3 DEF ScanOk
  <2>5. Shaped' /\ ScansOk' /\ \A x \in Scans : scans'[x] = IF x = s THEN run ELSE scans[x]
    BY <1>1, <1>3, <1>5, <2>0, <2>1, <2>4, ScanMoves DEF more
  <2>6. CopiesOk'
    BY <1>1, <1>3, <1>5, <2>1, <2>5, CopiesPass
  <2>. QED  BY <2>5, <2>6 DEF PapersInv
<1>6. CASE old.on # NoRow /\ Recorded(s) /\ Amend(old.on, LAMBDA d : After(d, old))
  <2>. DEFINE becomes == [d \in documents |-> IF d.id = old.on THEN After(d, old) ELSE d]
  <2>1. documents' = {becomes[d] : d \in documents}
    BY <1>6 DEF Amend
  <2>2. \A d \in documents : /\ RowShape(becomes[d]) /\ becomes[d].paper = d.paper
                             /\ becomes[d].copy \in {d.copy, old.copy}
    BY <1>3, AfterIs DEF Shaped
  <2>. HIDE DEF becomes, old
  <2>3. Known' = Known /\ \A d \in documents' : RowShape(d)
    BY <2>1, <2>2, RowsFollow DEF Follows
  <2>4. old.file \in Known
    BY <1>2, <1>3, <1>6 DEF ScanOk
  <2>5. \A d \in documents' : d.copy = old.copy \/ \E e \in documents : d.copy = e.copy
    BY <2>1, <2>2
  <2>. QED  BY <1>5, <1>6, <2>3, <2>4, <2>5
<1>7. ASSUME Recorded(s), NEW kind, NEW confirmed, Attach(old.file, Bytes(old.file), kind, confirmed, old.copy)
      PROVE  PapersInv'
  <2>. HIDE DEF old
  <2>1. PICK row : documents' = documents \union {row} /\ RowShape(row) /\ row.paper = old.file /\ row.copy = old.copy
    BY <1>7, NewRowIs
  <2>2. \A d \in documents' : RowShape(d)
    BY <1>3, <2>1 DEF Shaped
  <2>3. Known \subseteq Known' /\ old.file \in Known'
    BY <2>1 DEF Known
  <2>. QED  BY <1>5, <1>7, <2>1, <2>2, <2>3
<1>8. \/ ScanFailed(s) /\ UNCHANGED documents
      \/ /\ Recorded(s) /\ old.on # NoRow /\ Amend(old.on, LAMBDA d : After(d, old))
      \/ /\ Recorded(s)
         /\ Attach(old.file, Bytes(old.file), KindOf(old.verdict),
                   IF old.verdict = "accepted" THEN "app" ELSE "no", old.copy)
  BY DEF Record
<1>. HIDE DEF old
<1>. QED  BY <1>4, <1>6, <1>7, <1>8

LEMMA FinishScanKeeps == ASSUME PapersInv, NEW s \in Scans, FinishScan(s) PROVE PapersInv'
<1>. DEFINE old == scans[s]
            run == [old EXCEPT !.at = "follow"]
<1>1. UNCHANGED <<filed, found, stored, expired, copies, hand, purge>> /\ Becomes(s, run)
  BY DEF FinishScan, karbonFiles
<1>2. old.row = "running" /\ old.at = "scope" /\ old.scopes = <<>> /\ old.batch = {}
  BY DEF FinishScan, ScanAt
<1>3. RunShape(old) /\ ScanOk(old, Listed, Known) /\ CopiesOk /\ Shaped /\ ScansOk /\ copies \in Nat
  BY DEF PapersInv, Shaped, ScansOk, CopiesOk
<1>4. PICK f \in {g \in Readable : HasText(g)} \union {NoPaper} :
       documents' = {IF d.paper = f /\ f # NoPaper /\ d.confirmed = "no" THEN [d EXCEPT !.confirmed = "app"]
                     ELSE d : d \in documents}
  BY DEF FinishScan
<1>. DEFINE becomes == [d \in documents |->
              IF d.paper = f /\ f # NoPaper /\ d.confirmed = "no" THEN [d EXCEPT !.confirmed = "app"] ELSE d]
<1>5. documents' = {becomes[d] : d \in documents}
  BY <1>4
<1>6. \A d \in documents : RowShape(becomes[d]) /\ becomes[d].paper = d.paper /\ becomes[d].copy = d.copy
  BY <1>3 DEF Shaped, RowShape, RowFields
<1>7. /\ RunShape(run) /\ run.row = old.row /\ run.at = "follow" /\ run.copy = old.copy
      /\ run.scopes = old.scopes /\ run.whole = old.whole /\ run.batch = old.batch /\ run.lost = old.lost
  BY <1>3 DEF RunShape, RunFields
<1>. HIDE DEF becomes, run
<1>8. Known' = Known /\ \A d \in documents' : RowShape(d)
  BY <1>5, <1>6, RowsFollow DEF Follows
<1>9. \A d \in documents' : \E e \in documents : d.copy = e.copy
  BY <1>5, <1>6
<1>10. ASSUME run.whole PROVE Seen(run, Listed, Known)
  <2>1. Seen(old, Listed, Known)
    BY <1>2, <1>3, <1>7, <1>10 DEF ScanOk
  <2>. QED  BY <1>2, <1>7, <2>1 DEF Seen
<1>11. ScanOk(run, Listed, Known)
  BY <1>2, <1>7, <1>10 DEF ScanOk
<1>. HIDE DEF old
<1>12. Shaped' /\ ScansOk' /\ \A x \in Scans : scans'[x] = IF x = s THEN run ELSE scans[x]
  BY <1>1, <1>3, <1>7, <1>8, <1>11, ScanMoves
<1>13. run.copy \in {NoCopy, scans[s].copy}
  BY <1>7 DEF old
<1>14. CopiesOk'
  BY <1>1, <1>3, <1>9, <1>12, <1>13, CopiesPass
<1>. QED  BY <1>12, <1>14 DEF PapersInv

(* What is stored or expired stays so, and the rows and scans keep to it.    *)
LEMMA CopiesKeep ==
  ASSUME CopiesOk, UNCHANGED scans, copies' \in Nat, copies' >= copies, Safe \subseteq Safe', expired' \subseteq 1 .. copies',
         \A d \in documents' : Points(d.copy, copies', Safe'),
         hand'.at \in {"find", "attach"} => hand'.copy \in 1 .. copies' /\ hand'.copy \in Safe',
         hand'.at = "find" => /\ \A d \in documents' : d.copy # hand'.copy
                              /\ \A s \in Scans : scans[s].copy # hand'.copy,
         purge'.at \in {"delete", "clear"} => \A r \in purge'.rows : r[2] \in expired'
  PROVE  CopiesOk'
<1>1. \A s \in Scans : Points(scans[s].copy, copies, Safe) /\ copies \in Nat
  BY DEF CopiesOk
<1>2. \A s \in Scans : Points(scans'[s].copy, copies', Safe')
  BY <1>1 DEF Points
<1>. QED  BY <1>2 DEF CopiesOk

(* A copy no one has made yet is nobody's.                                  *)
LEMMA NewCopy ==
  ASSUME CopiesOk, Put
  PROVE  /\ copies' = copies + 1 /\ copies' \in Nat /\ copies' >= copies /\ copies' >= 1 /\ copies' \in stored'
         /\ expired \subseteq 1 .. copies'
         /\ \A c : Points(c, copies, Safe) => Points(c, copies', stored' \union expired) /\ c # copies'
<1>1. copies \in Nat /\ copies' = copies + 1 /\ stored' = stored \union {copies + 1} /\ expired \subseteq 1 .. copies
  BY DEF CopiesOk, Put
<1>. QED  BY <1>1 DEF Points, Safe, NoCopy

LEMMA AskUploadKeeps == ASSUME PapersInv, AskUpload PROVE PapersInv'
<1>1. Shaped /\ ScansOk /\ CopiesOk /\ Put /\ UNCHANGED <<filed, found, documents, expired, scans, purge>>
  BY DEF PapersInv, AskUpload, HandOnly, karbonFiles
<1>2. PICK f \in Readable, k \in Kinds, imported \in BOOLEAN :
       hand' = [at |-> "find", paper |-> IF imported THEN f ELSE NoPaper, bytes |-> Bytes(f),
                kind |-> k, copy |-> copies + 1]
  BY DEF AskUpload
<1>3. PageShape(hand') /\ hand'.copy = copies + 1
  <2>. DEFINE paper == IF imported THEN f ELSE NoPaper
              bytes == Bytes(f)
              c == copies + 1
  <2>1. hand' = [at |-> "find", paper |-> paper, bytes |-> bytes, kind |-> k, copy |-> c]
    BY <1>2
  <2>. HIDE DEF paper, bytes, c
  <2>2. PageShape(hand') /\ hand'.copy = c
    BY <2>1 DEF PageShape, PageFields
  <2>. QED  BY <2>2 DEF c
<1>4. Shaped' /\ ScansOk'
  <2>1. \A d \in documents' : RowShape(d)
    BY <1>1 DEF Shaped
  <2>2. Known' = Known
    BY <1>1 DEF Known
  <2>. QED  BY <1>1, <1>3, <2>1, <2>2, ScansRest
<1>5. /\ copies' = copies + 1 /\ copies' \in Nat /\ copies' \in stored' /\ expired \subseteq 1 .. copies'
      /\ \A c : Points(c, copies, Safe) => Points(c, copies', stored' \union expired) /\ c # copies'
  BY <1>1, NewCopy
<1>6. Safe' = stored' \union expired /\ Safe \subseteq Safe' /\ copies \in Nat
  BY <1>1 DEF Safe, Put, CopiesOk
<1>7. /\ \A d \in documents : Points(d.copy, copies, Safe)
      /\ \A s \in Scans : Points(scans[s].copy, copies, Safe)
  BY <1>1 DEF CopiesOk
<1>8. copies' >= copies /\ copies' \in 1 .. copies' /\ hand'.copy = copies' /\ hand'.copy \in Safe'
  BY <1>1, <1>3, <1>5, <1>6, NewCopy
<1>9. /\ \A d \in documents' : d.copy # hand'.copy /\ Points(d.copy, copies', Safe')
      /\ \A s \in Scans : scans[s].copy # hand'.copy
  BY <1>1, <1>5, <1>6, <1>7, <1>8
<1>10. purge'.at \in {"delete", "clear"} => \A r \in purge'.rows : r[2] \in expired'
  BY <1>1 DEF CopiesOk
<1>11. hand'.copy \in 1 .. copies' /\ expired' \subseteq 1 .. copies'
  BY <1>1, <1>5, <1>8
<1>12. CopiesOk'
  BY <1>1, <1>5, <1>6, <1>8, <1>9, <1>10, <1>11, CopiesKeep
<1>. QED  BY <1>4, <1>12 DEF PapersInv

(* The copies do not change, though what points at them may.                *)
LEMMA PointersMove ==
  ASSUME PapersInv, UNCHANGED <<filed, found, scans, expired, copies>>, \A d \in documents' : RowShape(d),
         Known \subseteq Known', Safe \subseteq Safe',
         \A d \in documents' : Points(d.copy, copies, Safe),
         hand'.at \in {"find", "attach"} => PageShape(hand') /\ hand'.copy \in 1 .. copies /\ hand'.copy \in Safe',
         hand'.at = "find" => hand' = hand /\ \A d \in documents' : d.copy # hand.copy,
         purge'.at \in {"delete", "clear"} => \A r \in purge'.rows : r[2] \in expired
  PROVE  PapersInv'
<1>1. Shaped /\ ScansOk /\ CopiesOk
  BY DEF PapersInv
<1>2. Shaped' /\ ScansOk'
  BY <1>1, ScansRest
<1>3. \A d \in documents' : Points(d.copy, copies', Safe')
  BY DEF Points
<1>4. copies' \in Nat /\ copies' >= copies /\ expired' \subseteq 1 .. copies'
  BY <1>1 DEF CopiesOk
<1>5. hand'.at = "find" => /\ \A d \in documents' : d.copy # hand'.copy
                           /\ \A s \in Scans : scans[s].copy # hand'.copy
  BY <1>1 DEF CopiesOk
<1>6. CopiesOk'
  BY <1>1, <1>3, <1>4, <1>5, CopiesKeep
<1>. QED  BY <1>2, <1>6 DEF PapersInv

LEMMA FindTwinKeeps == ASSUME PapersInv, FindTwin PROVE PapersInv'
<1>1. Shaped /\ CopiesOk /\ hand.at = "find" /\ UNCHANGED <<filed, found, documents, expired, copies, scans, purge>>
  BY DEF PapersInv, FindTwin, HandOnly, karbonFiles
<1>2. PageShape(hand)
  BY <1>1 DEF Shaped
<1>3. (\A d \in documents' : RowShape(d)) /\ Known' = Known
  BY <1>1 DEF Shaped, Known
<1>4. /\ \A d \in documents : Points(d.copy, copies, Safe) /\ d.copy # hand.copy
      /\ \A s \in Scans : Points(scans[s].copy, copies, Safe) /\ scans[s].copy # hand.copy
      /\ hand.copy \in 1 .. copies /\ hand.copy \in Safe
      /\ purge.at \in {"delete", "clear"} => \A r \in purge.rows : r[2] \in expired
      /\ copies \in Nat /\ expired \subseteq 1 .. copies
  BY <1>1 DEF CopiesOk
<1>5. CASE hand' = [hand EXCEPT !.at = "attach"] /\ UNCHANGED stored
  <2>1. PageShape(hand') /\ hand'.copy = hand.copy /\ hand'.at = "attach"
    BY <1>2, <1>5 DEF PageShape, PageFields
  <2>2. Safe' = Safe
    BY <1>1, <1>5 DEF Safe
  <2>. QED  BY <1>1, <1>3, <1>4, <2>1, <2>2, PointersMove
<1>6. ASSUME NEW d \in documents, stored' = stored \ {hand.copy}, hand' = NoPage
      PROVE  PapersInv'
  <2>1. hand'.at = "idle"
    BY <1>6 DEF NoPage
  <2>2. \A c : Points(c, copies, Safe) /\ c # hand.copy => Points(c, copies, Safe')
    BY <1>1, <1>6 DEF Points, Safe
  <2>3. Shaped' /\ ScansOk'
    BY <1>1, <1>3, <2>1, ScansRest DEF PapersInv
  <2>4. /\ \A e \in documents : Points(e.copy, copies, Safe')
        /\ \A s \in Scans : Points(scans[s].copy, copies, Safe')
    BY <1>4, <2>2
  <2>5. CopiesOk'
    BY <1>1, <1>4, <2>1, <2>4 DEF CopiesOk
  <2>. QED  BY <2>3, <2>5 DEF PapersInv
<1>. QED  BY <1>5, <1>6 DEF FindTwin, Dropped

LEMMA AttachByHandKeeps == ASSUME PapersInv, AttachByHand PROVE PapersInv'
<1>1. /\ Shaped /\ CopiesOk /\ hand.at = "attach"
      /\ UNCHANGED <<filed, found, stored, expired, copies, scans, purge>>
  BY DEF PapersInv, AttachByHand, HandOnly, karbonFiles
<1>2. /\ \A d \in documents : Points(d.copy, copies, Safe) /\ RowShape(d)
      /\ hand.copy \in 1 .. copies /\ hand.copy \in Safe
      /\ purge.at \in {"delete", "clear"} => \A r \in purge.rows : r[2] \in expired
  BY <1>1 DEF CopiesOk, Shaped
<1>3. Safe' = Safe
  BY <1>1 DEF Safe
<1>4. CASE hand' = NoPage /\ UNCHANGED documents
  <2>1. hand'.at = "idle" /\ Known' = Known
    BY <1>4 DEF NoPage, Known
  <2>. QED  BY <1>1, <1>2, <1>3, <1>4, <2>1, PointersMove
<1>5. ASSUME NEW confirmed, Attach(hand.paper, hand.bytes, hand.kind, confirmed, hand.copy), hand' = NoPage
      PROVE  PapersInv'
  <2>. DEFINE f == hand.paper
              bytes == hand.bytes
              kind == hand.kind
              c == hand.copy
  <2>1. Attach(f, bytes, kind, confirmed, c)
    BY <1>5
  <2>2. Points(c, copies, Safe)
    BY <1>2 DEF Points
  <2>. HIDE DEF f, bytes, kind, c
  <2>3. PICK row : documents' = documents \union {row} /\ RowShape(row) /\ row.paper = f /\ row.copy = c
    BY <2>1, NewRowIs
  <2>4. /\ \A d \in documents' : RowShape(d) /\ Points(d.copy, copies, Safe)
        /\ Known \subseteq Known'
    BY <1>2, <2>2, <2>3 DEF Known
  <2>5. hand'.at = "idle"
    BY <1>5 DEF NoPage
  <2>. QED  BY <1>1, <1>2, <1>3, <2>4, <2>5, PointersMove
<1>. QED  BY <1>4, <1>5 DEF AttachByHand

LEMMA UseCandidateKeeps == ASSUME PapersInv, UseCandidate PROVE PapersInv'
<1>1. Shaped /\ CopiesOk /\ UNCHANGED <<filed, found, stored, expired, copies, scans, hand, purge>>
  BY DEF PapersInv, UseCandidate, HandOnly, karbonFiles
<1>2. PICK d \in documents : Amend(d.id, LAMBDA r : [r EXCEPT !.confirmed = "user"])
  BY DEF UseCandidate
<1>. DEFINE becomes == [e \in documents |-> IF e.id = d.id THEN [e EXCEPT !.confirmed = "user"] ELSE e]
<1>3. documents' = {becomes[e] : e \in documents}
  BY <1>2 DEF Amend
<1>4. \A e \in documents : RowShape(becomes[e]) /\ becomes[e].paper = e.paper /\ becomes[e].copy = e.copy
  BY <1>1 DEF Shaped, RowShape, RowFields
<1>. HIDE DEF becomes
<1>5. Known' = Known /\ \A e \in documents' : RowShape(e)
  BY <1>3, <1>4, RowsFollow DEF Follows
<1>6. Safe' = Safe /\ \A e \in documents' : \E o \in documents : e.copy = o.copy
  BY <1>1, <1>3, <1>4 DEF Safe
<1>7. /\ \A e \in documents : Points(e.copy, copies, Safe)
      /\ hand.at \in {"find", "attach"} => PageShape(hand) /\ hand.copy \in 1 .. copies /\ hand.copy \in Safe
      /\ hand.at = "find" => \A e \in documents : e.copy # hand.copy
      /\ purge.at \in {"delete", "clear"} => \A r \in purge.rows : r[2] \in expired
  BY <1>1 DEF Shaped, CopiesOk
<1>8. /\ \A e \in documents' : Points(e.copy, copies, Safe)
      /\ hand.at = "find" => \A e \in documents' : e.copy # hand.copy
  BY <1>6, <1>7
<1>. QED  BY <1>1, <1>5, <1>6, <1>7, <1>8, PointersMove

(* Nothing but the page, the purge and expired bytes change.                *)
LEMMA SweepingKeeps ==
  ASSUME PapersInv, UNCHANGED <<filed, found, documents, expired, copies, scans>>, Safe \subseteq Safe',
         hand' = hand \/ hand'.at = "idle",
         purge'.at \in {"delete", "clear"} => \A r \in purge'.rows : r[2] \in expired
  PROVE  PapersInv'
<1>1. Shaped /\ CopiesOk
  BY DEF PapersInv
<1>2. (\A d \in documents' : RowShape(d)) /\ Known' = Known
  BY <1>1 DEF Shaped, Known
<1>3. /\ \A e \in documents : Points(e.copy, copies, Safe)
      /\ hand.at \in {"find", "attach"} => PageShape(hand) /\ hand.copy \in 1 .. copies /\ hand.copy \in Safe
      /\ hand.at = "find" => \A e \in documents : e.copy # hand.copy
  BY <1>1 DEF Shaped, CopiesOk
<1>4. /\ hand'.at \in {"find", "attach"} => PageShape(hand') /\ hand'.copy \in 1 .. copies /\ hand'.copy \in Safe'
      /\ hand'.at = "find" => hand' = hand /\ \A d \in documents' : d.copy # hand.copy
  BY <1>3
<1>. QED  BY <1>2, <1>3, <1>4, PointersMove

LEMMA HandDiesKeeps == ASSUME PapersInv, HandDies PROVE PapersInv'
<1>1. UNCHANGED <<filed, found, documents, stored, expired, copies, scans, purge>> /\ hand'.at = "idle"
  BY DEF HandDies, HandOnly, karbonFiles, NoPage
<1>2. Safe' = Safe /\ (purge.at \in {"delete", "clear"} => \A r \in purge.rows : r[2] \in expired)
  BY <1>1 DEF Safe, PapersInv, CopiesOk
<1>. QED  BY <1>1, <1>2, SweepingKeeps

LEMMA ExpireKeeps == ASSUME PapersInv, Expire PROVE PapersInv'
<1>1. /\ Shaped /\ ScansOk /\ CopiesOk /\ UNCHANGED <<filed, found, documents, stored, copies, scans, hand, purge>>
      /\ copies \in Nat
  BY DEF PapersInv, Expire, karbonFiles, CopiesOk
<1>2. PICK c \in 1 .. copies : expired = 1 .. c - 1 /\ expired' = 1 .. c
  BY DEF Expire
<1>3. expired \subseteq expired' /\ expired' \subseteq 1 .. copies
  BY <1>1, <1>2
<1>4. Safe \subseteq Safe'
  BY <1>1, <1>3 DEF Safe
<1>5. Shaped' /\ ScansOk'
  <2>1. (\A d \in documents' : RowShape(d)) /\ Known' = Known
    BY <1>1 DEF Shaped, Known
  <2>2. hand'.at \in {"find", "attach"} => PageShape(hand')
    BY <1>1 DEF Shaped
  <2>. QED  BY <1>1, <2>1, <2>2, ScansRest
<1>6. /\ \A d \in documents' : Points(d.copy, copies', Safe')
      /\ hand'.at \in {"find", "attach"} => hand'.copy \in 1 .. copies' /\ hand'.copy \in Safe'
      /\ hand'.at = "find" => /\ \A d \in documents' : d.copy # hand'.copy
                              /\ \A s \in Scans : scans[s].copy # hand'.copy
      /\ purge'.at \in {"delete", "clear"} => \A r \in purge'.rows : r[2] \in expired'
  BY <1>1, <1>3, <1>4 DEF CopiesOk, Points
<1>7. CopiesOk'
  BY <1>1, <1>3, <1>4, <1>6, CopiesKeep
<1>. QED  BY <1>5, <1>7 DEF PapersInv

LEMMA PurgingKeeps == ASSUME PapersInv, Purging \/ PurgeDies PROVE PapersInv'
<1>1. UNCHANGED <<filed, found, expired, copies, scans, hand>>
  BY DEF Purging, PurgeDies, SelectExpired, DeleteBytes, ClearReference, DropExpired, PurgeOnly, karbonFiles
<1>2. /\ Shaped /\ CopiesOk
      /\ purge.at \in {"delete", "clear"} => \A r \in purge.rows : r[2] \in expired
  BY DEF PapersInv, CopiesOk
<1>3. CASE SelectExpired
  <2>. DEFINE rows == {<<d.id, d.copy>> : d \in {e \in documents : Selected(e)}}
  <2>1. purge' = [at |-> "delete", rows |-> rows] /\ UNCHANGED <<documents, stored>>
    BY <1>3 DEF SelectExpired
  <2>2. \A r \in rows : r[2] \in expired
    BY DEF Selected
  <2>. HIDE DEF rows
  <2>3. Safe' = Safe /\ \A r \in purge'.rows : r[2] \in expired
    BY <1>1, <2>1, <2>2 DEF Safe
  <2>. QED  BY <1>1, <2>1, <2>3, SweepingKeeps
<1>4. CASE DeleteBytes
  <2>1. PICK r \in purge.rows : /\ stored' = stored \ {r[2]} \/ UNCHANGED stored
                                /\ purge' = [at |-> "clear", rows |-> purge.rows \ {r}, row |-> r[1]]
    BY <1>4 DEF DeleteBytes
  <2>2. \A q \in purge.rows : q[2] \in expired
    BY <1>2, <1>4 DEF DeleteBytes
  <2>3. Safe \subseteq Safe'
    BY <1>1, <2>1, <2>2 DEF Safe
  <2>4. \A q \in purge'.rows : q[2] \in expired
    BY <2>1, <2>2
  <2>. QED  BY <1>1, <1>4, <2>3, <2>4, SweepingKeeps DEF DeleteBytes
<1>5. CASE ClearReference
  <2>1. Amend(purge.row, LAMBDA d : [d EXCEPT !.copy = NoCopy]) /\ UNCHANGED stored
        /\ purge' = [at |-> "delete", rows |-> purge.rows] /\ purge.at = "clear"
    BY <1>5 DEF ClearReference
  <2>. DEFINE becomes == [e \in documents |-> IF e.id = purge.row THEN [e EXCEPT !.copy = NoCopy] ELSE e]
  <2>2. documents' = {becomes[e] : e \in documents}
    BY <2>1 DEF Amend
  <2>3. \A e \in documents : /\ RowShape(becomes[e]) /\ becomes[e].paper = e.paper
                             /\ becomes[e].copy \in {NoCopy, e.copy}
    BY <1>2 DEF Shaped, RowShape, RowFields
  <2>. HIDE DEF becomes
  <2>4. Known' = Known /\ \A e \in documents' : RowShape(e)
    BY <2>2, <2>3, RowsFollow DEF Follows
  <2>5. \A e \in documents' : e.copy = NoCopy \/ \E o \in documents : e.copy = o.copy
    BY <2>2, <2>3
  <2>6. /\ \A e \in documents : Points(e.copy, copies, Safe)
        /\ hand.at \in {"find", "attach"} => PageShape(hand) /\ hand.copy \in 1 .. copies /\ hand.copy \in Safe
        /\ hand.at = "find" => \A e \in documents : e.copy # hand.copy
    BY <1>2 DEF Shaped, CopiesOk
  <2>7. hand.at = "find" => hand.copy # NoCopy
    <3>1. \A n \in Nat : \A c \in 1 .. n : c # 0
      OBVIOUS
    <3>. QED  BY <1>2, <2>6, <3>1 DEF CopiesOk, NoCopy
  <2>8. /\ \A e \in documents' : Points(e.copy, copies, Safe)
        /\ hand.at = "find" => \A e \in documents' : e.copy # hand.copy
    BY <2>5, <2>6, <2>7 DEF Points
  <2>9. Safe' = Safe /\ \A r \in purge'.rows : r[2] \in expired
    BY <1>1, <1>2, <2>1 DEF Safe
  <2>. QED  BY <1>1, <2>4, <2>6, <2>8, <2>9, PointersMove
<1>6. CASE DropExpired
  <2>1. stored' = stored \ expired /\ purge'.at = "asleep" /\ UNCHANGED documents
    BY <1>6 DEF DropExpired, Resting
  <2>2. Safe \subseteq Safe'
    BY <1>1, <2>1 DEF Safe
  <2>. QED  BY <1>1, <2>1, <2>2, SweepingKeeps
<1>7. CASE PurgeDies
  <2>1. purge'.at = "asleep" /\ UNCHANGED <<documents, stored>>
    BY <1>7 DEF PurgeDies, Resting
  <2>2. Safe' = Safe
    BY <1>1, <2>1 DEF Safe
  <2>. QED  BY <1>1, <2>1, <2>2, SweepingKeeps
<1>. QED  BY <1>3, <1>4, <1>5, <1>6, <1>7 DEF Purging

LEMMA PapersInvStep == ASSUME PapersInv, [Next]_vars PROVE PapersInv'
<1>1. CASE UNCHANGED papers
  <2>1. UNCHANGED <<filed, found, documents, stored, expired, copies, scans, hand, purge>>
    BY <1>1 DEF papers, karbonFiles
  <2>2. Safe' = Safe /\ (purge.at \in {"delete", "clear"} => \A r \in purge.rows : r[2] \in expired)
    BY <2>1 DEF Safe, PapersInv, CopiesOk
  <2>. QED  BY <2>1, <2>2, SweepingKeeps
<1>2. CASE Scanning
  BY <1>2, StartScanKeeps, ReadScopeKeeps, JudgeKeeps, RecordKeeps, FinishScanKeeps, QueueFollowUpKeeps
     DEF Scanning, ScanGoesOn
<1>3. CASE \E s \in Scans : AskScan(s) \/ ScopeFails(s) \/ ScanDies(s)
  BY <1>3, AskScanKeeps, ScopeFailsKeeps, ScanDiesKeeps
<1>4. CASE Attaching
  BY <1>4, AskUploadKeeps, FindTwinKeeps, AttachByHandKeeps, UseCandidateKeeps, HandDiesKeeps DEF Attaching
<1>5. CASE Expire \/ Purging \/ PurgeDies
  BY <1>5, ExpireKeeps, PurgingKeeps
<1>. QED  BY <1>1, <1>2, <1>3, <1>4, <1>5, OnePartSteps DEF PapersNext

(* A scan that says it is complete left a row for every .docx and .pdf file   *)
(* of the engagement's own work item, of those of last year's it was given   *)
(* and of the client itself, but for those whose bytes it could not store,   *)
(* whatever other scans, people and the purge did meanwhile, and however     *)
(* often its worker died.  A file without text has a row like any other.     *)
THEOREM CompleteScansSawAll == Spec => []CompleteMeansSeen
<1>1. PapersInv => CompleteMeansSeen
  <2>. SUFFICES ASSUME PapersInv, NEW s \in Scans, scans[s].row = "succeeded", scans[s].whole,
                       NEW a \in Asked, NEW f \in (filed[a] \intersect Readable) \ scans[s].lost
                PROVE  RowsOf(f) # {}
    BY DEF CompleteMeansSeen
  <2>1. a \in DOMAIN Listed /\ f \in Listed[a] \ scans[s].lost
    BY DEF Listed
  <2>2. f \in Known
    BY <2>1 DEF PapersInv, ScansOk, ScanOk
  <2>. QED  BY <2>2 DEF Known, RowsOf
<1>2. Init => PapersInv
  BY PapersInvInit DEF Init
<1>. QED  BY <1>1, <1>2, PapersInvStep, PTL DEF Spec

(* A working copy whose retention is not over stays readable as long as a    *)
(* row points at it.                                                       *)
THEOREM CopiesAreKept == Spec => []KeptWhileNeeded
<1>1. PapersInv => KeptWhileNeeded
  BY DEF PapersInv, CopiesOk, Points, Safe, KeptWhileNeeded
<1>2. Init => PapersInv
  BY PapersInvInit DEF Init
<1>. QED  BY <1>1, <1>2, PapersInvStep, PTL DEF Spec

(***************************************************************************)
(* Intake.  An item that one trigger names is rolled by one job, which     *)
(* makes an engagement only after it found none of the item, and nobody    *)
(* else makes one in between; where the title tells the year, and every    *)
(* trigger the type, no two engagements of both are there at once.         *)
(***************************************************************************)
EngagementFields == {"item", "gone", "id", "type", "year", "origin", "prepared"}
JobFields == {"row", "tries", "at", "on", "year"}
Whole(e) == e = [f \in EngagementFields |-> e[f]] /\ e.gone \in BOOLEAN

Sole(i) == \A s, t \in reached[i] : s = t
Made(i) == {e \in Live : e.item = i /\ e.origin = "rollover"}
Looked == {"previous?", "ask?", "exists?", "create"}

Origin(e) ==
  e.origin = "rollover" =>
    /\ e.item \in Items /\ \E g \in reached[e.item] : e.type = triggerType[g]
    /\ title[e.item] # 0 => e.year = title[e.item]

EngagementsOk ==
  /\ \A e \in engagements : Whole(e) /\ Origin(e)
  /\ \A d, e \in Live : d.type = e.type /\ d.year = e.year => d = e
  /\ \A i \in Items : Sole(i) => \A d, e \in Made(i) : d = e

JobOk(j) ==
  /\ roll[j].row # "none" \/ roll[j].at # "start" => j[2] \in reached[j[1]]
  /\ roll[j].at \in {"ask?", "exists?", "create"} /\ title[j[1]] # 0 => roll[j].year = title[j[1]]
  /\ roll[j].at \in Looked /\ Sole(j[1]) => Made(j[1]) = {}

IntakeInv ==
  /\ reached \in [Items -> SUBSET Triggers]
  /\ roll = [j \in Jobs |-> [f \in JobFields |-> roll[j][f]]]
  /\ EngagementsOk
  /\ \A j \in Jobs : JobOk(j)

LEMMA IntakeInvInit == IntakeInit => IntakeInv
<1>. SUFFICES ASSUME IntakeInit PROVE IntakeInv
  OBVIOUS
<1>1. roll = [j \in Jobs |-> Unqueued] /\ Unqueued = [f \in JobFields |-> Unqueued[f]]
  BY DEF IntakeInit, Unqueued, JobFields
<1>2. \A j \in Jobs : roll[j].row = "none" /\ roll[j].at = "start"
  BY <1>1 DEF Unqueued
<1>3. \A e \in engagements : Whole(e) /\ Origin(e)
  <2>1. CASE engagements = {}
    BY <2>1
  <2>2. CASE engagements # {}
    <3>1. PICK t \in Types : engagements =
                 {[item |-> Nobody, gone |-> FALSE, id |-> 0, type |-> t, year |-> ThisYear - 1,
                   origin |-> "hand", prepared |-> TRUE]}
      BY <2>2 DEF IntakeInit
    <3>. DEFINE first == [item |-> Nobody, gone |-> FALSE, id |-> 0, type |-> t, year |-> ThisYear - 1,
                          origin |-> "hand", prepared |-> TRUE]
    <3>2. Whole(first) /\ first.origin = "hand"
      BY DEF Whole, EngagementFields
    <3>3. engagements = {first}
      BY <3>1
    <3>. HIDE DEF first
    <3>. QED  BY <3>2, <3>3 DEF Origin
  <2>. QED  BY <2>1, <2>2
<1>4. \A d, e \in engagements : d = e
  BY DEF IntakeInit
<1>5. EngagementsOk
  BY <1>3, <1>4 DEF EngagementsOk, Live, Made
<1>6. \A j \in Jobs : JobOk(j)
  BY <1>2 DEF JobOk, Looked
<1>7. roll = [j \in Jobs |-> [f \in JobFields |-> roll[j][f]]]
  BY <1>1
<1>8. reached \in [Items -> SUBSET Triggers]
  BY DEF IntakeInit
<1>. QED  BY <1>5, <1>6, <1>7, <1>8 DEF IntakeInv

(* Rows keep what they are of, and none comes back. *)
Kept(d, e) ==
  /\ Whole(d) /\ d.item = e.item /\ d.type = e.type /\ d.year = e.year /\ d.origin = e.origin
  /\ e.gone => d.gone

LEMMA AmendedRows ==
  ASSUME EngagementsOk, UNCHANGED karbonSide, NEW F,
         \A e \in engagements : Kept(F[e], e), engagements' = {F[e] : e \in engagements}
  PROVE  EngagementsOk' /\ \A i : Made(i) = {} => Made(i)' = {}
<1>1. \A d \in engagements' : Whole(d) /\ \E e \in engagements : d = F[e] /\ Kept(F[e], e)
  BY DEF Kept
<1>2. \A d \in Live' : \E e \in Live : d = F[e] /\ Kept(F[e], e)
  BY <1>1 DEF Live, Kept, Whole
<1>3. \A d \in engagements' : Whole(d)' /\ Origin(d)'
  BY <1>1 DEF EngagementsOk, Origin, Kept, karbonSide, Whole
<1>4. \A i : \A d \in Made(i)' : \E e \in Made(i) : d = F[e]
  BY <1>2 DEF Made, Kept
<1>5. \A i : Sole(i)' <=> Sole(i)
  BY DEF Sole, karbonSide
<1>6. \A d, e \in Live' : d.type = e.type /\ d.year = e.year => d = e
  BY <1>2 DEF EngagementsOk, Kept
<1>. QED  BY <1>3, <1>4, <1>5, <1>6 DEF EngagementsOk

Prepares(F) == F = [e \in engagements |-> [e EXCEPT !.prepared = TRUE]]
Deletes(F) == F = [e \in engagements |-> [e EXCEPT !.gone = TRUE]]
Replaced(id, F) == engagements' = {IF e.id = id THEN F[e] ELSE e : e \in engagements}

LEMMA ChangedRows ==
  ASSUME EngagementsOk, UNCHANGED karbonSide, NEW id, NEW F,
         Prepares(F) \/ Deletes(F), Replaced(id, F)
  PROVE  EngagementsOk' /\ \A i : Made(i) = {} => Made(i)' = {}
<1>. DEFINE G == [e \in engagements |-> IF e.id = id THEN F[e] ELSE e]
<1>1. \A e \in engagements : Whole(e)
  BY DEF EngagementsOk
<1>2. \A e \in engagements : Kept(e, e) /\ Kept([e EXCEPT !.prepared = TRUE], e) /\ Kept([e EXCEPT !.gone = TRUE], e)
  BY <1>1 DEF Kept, Whole, EngagementFields
<1>3. \A e \in engagements : Kept(G[e], e)
  BY <1>2 DEF Prepares, Deletes
<1>4. engagements' = {G[e] : e \in engagements}
  BY DEF Replaced
<1>. HIDE DEF G
<1>. QED  BY <1>3, <1>4, AmendedRows

(* A new row is of a type and year that no row has. *)
LEMMA InsertedRow ==
  ASSUME EngagementsOk, UNCHANGED karbonSide,
         NEW type, NEW year, NEW work, NEW origin, ~Taken(type, year), Insert(type, year, work, origin),
         origin = "rollover" =>
           /\ work \in Items /\ \E g \in reached[work] : type = triggerType[g]
           /\ title[work] # 0 => year = title[work]
           /\ Sole(work) => Made(work) = {}
  PROVE  /\ EngagementsOk'
         /\ \A i : Made(i)' # Made(i) => i = work /\ origin = "rollover"
<1>. DEFINE new == [item |-> work, gone |-> FALSE, id |-> Born + 1, type |-> type, year |-> year,
                   origin |-> origin, prepared |-> FALSE]
<1>1. /\ new.item = work /\ new.gone = FALSE /\ new.type = type /\ new.year = year /\ new.origin = origin
      /\ Whole(new)
  BY DEF Whole, EngagementFields
<1>2. engagements' = engagements \union {new}
  BY DEF Insert
<1>. HIDE DEF new
<1>3. Live' = Live \union {new}
  BY <1>1, <1>2 DEF Live
<1>4. \A e \in engagements' : Whole(e)' /\ Origin(e)'
  BY <1>1, <1>2 DEF EngagementsOk, Origin, karbonSide, Whole
<1>5. \A d, e \in Live' : d.type = e.type /\ d.year = e.year => d = e
  BY <1>1, <1>3 DEF EngagementsOk, Taken
<1>6. \A i : Made(i)' = IF i = work /\ origin = "rollover" THEN Made(i) \union {new} ELSE Made(i)
  BY <1>1, <1>3 DEF Made
<1>7. \A i \in Items : Sole(i)' => \A d, e \in Made(i)' : d = e
  BY <1>6 DEF EngagementsOk, Sole, karbonSide
<1>. QED  BY <1>4, <1>5, <1>6, <1>7 DEF EngagementsOk

(* Only one job rolls an item that one trigger names. *)
LEMMA OnlyJob ==
  ASSUME NEW j \in Jobs, NEW k \in Jobs, j # k, j[1] = k[1], Sole(j[1]),
         j[2] \in reached[j[1]], k[2] \in reached[k[1]]
  PROVE  FALSE
BY DEF Jobs, Sole

LEMMA JobsRest ==
  ASSUME IntakeInv, UNCHANGED <<karbonSide, roll>>, EngagementsOk',
         \A j \in Jobs : Made(j[1]) = {} => Made(j[1])' = {}
  PROVE  IntakeInv'
BY DEF IntakeInv, JobOk, karbonSide, Sole

(* One job moves, and no row is made. *)
LEMMA JobMoves ==
  ASSUME IntakeInv, UNCHANGED karbonSide, EngagementsOk',
         \A i \in Items : Made(i) = {} => Made(i)' = {},
         NEW j \in Jobs, NEW r, roll' = [roll EXCEPT ![j] = r], r = [f \in JobFields |-> r[f]],
         \/ r.at = "start" /\ (r.row # "none" => j[2] \in reached[j[1]])
         \/ /\ j[2] \in reached[j[1]]
            /\ r.at \in {"ask?", "exists?", "create"} /\ title[j[1]] # 0 => r.year = title[j[1]]
            /\ r.at \in Looked /\ Sole(j[1]) => Made(j[1])' = {}
  PROVE  IntakeInv'
<1>1. roll' = [k \in Jobs |-> IF k = j THEN r ELSE roll[k]]
  BY DEF IntakeInv
<1>2. roll' = [k \in Jobs |-> [f \in JobFields |-> roll'[k][f]]]
  BY <1>1, SMTT(30) DEF IntakeInv
<1>3. JobOk(j)'
  BY <1>1 DEF JobOk, Looked, karbonSide, Sole
<1>4. ASSUME NEW k \in Jobs, k # j PROVE JobOk(k)'
  <2>1. JobOk(k) /\ roll'[k] = roll[k] /\ k[1] \in Items
    BY <1>1, <1>4 DEF IntakeInv, Jobs
  <2>2. UNCHANGED <<title, reached>> /\ (Made(k[1]) = {} => Made(k[1])' = {})
    BY <2>1 DEF karbonSide
  <2>. QED  BY <2>1, <2>2 DEF JobOk, Sole
<1>. QED  BY <1>2, <1>3, <1>4 DEF IntakeInv, karbonSide

LEMMA IntakeInvStep == ASSUME IntakeInv, [IntakeNext]_intake PROVE IntakeInv'
<1>1. EngagementsOk /\ \A j \in Jobs : JobOk(j) /\ roll[j] = [f \in JobFields |-> roll[j][f]]
  BY DEF IntakeInv
<1>2. ASSUME UNCHANGED engagements, UNCHANGED karbonSide
      PROVE  EngagementsOk' /\ \A i : Made(i)' = Made(i)
  BY <1>1, <1>2 DEF EngagementsOk, Made, Live, Origin, Whole, Sole, karbonSide
<1>3. ASSUME UNCHANGED <<engagements, roll, karbonSide>> PROVE IntakeInv'
  BY <1>2, <1>3, JobsRest
<1>4. ASSUME NEW j \in Jobs, UNCHANGED karbonSide, UNCHANGED engagements,
             NEW row, NEW tries, roll' = [roll EXCEPT ![j] = [Unqueued EXCEPT !.row = row, !.tries = tries]],
             row # "none" => j[2] \in reached[j[1]]
      PROVE  IntakeInv'
  <2>. DEFINE r == [Unqueued EXCEPT !.row = row, !.tries = tries]
  <2>1. r = [f \in JobFields |-> r[f]] /\ r.at = "start" /\ r.row = row /\ roll' = [roll EXCEPT ![j] = r]
    BY <1>4 DEF Unqueued, JobFields
  <2>. HIDE DEF r
  <2>. QED  BY <2>1, <1>2, <1>4, JobMoves
<1>5. ASSUME NEW j \in Jobs, NEW retryable \in BOOLEAN, UNCHANGED karbonSide, UNCHANGED engagements,
             Failed(j, retryable), roll[j].row # "none"
      PROVE  IntakeInv'
  BY <1>1, <1>4, <1>5 DEF Failed, Ended, JobOk
<1>6. CASE UNCHANGED intake
  BY <1>3, <1>6 DEF intake, karbonSide
<1>7. CASE ImportClient \/ KarbonSync
  BY <1>3, <1>7 DEF ImportClient, KarbonSync, karbonSide
<1>8. CASE AskRollover
  <2>1. PICK j \in Jobs : j[2] \in reached[j[1]] /\ roll[j].row = "none" /\ roll' = [roll EXCEPT ![j].row = "pending"]
    BY <1>8 DEF AskRollover
  <2>. DEFINE r == [roll[j] EXCEPT !.row = "pending"]
  <2>2. r = [f \in JobFields |-> r[f]] /\ r.at = roll[j].at /\ r.year = roll[j].year /\ roll' = [roll EXCEPT ![j] = r]
    BY <1>1, <2>1 DEF JobFields
  <2>. HIDE DEF r
  <2>3. UNCHANGED <<karbonSide, engagements>>
    BY <1>8 DEF AskRollover, karbonSide
  <2>. QED  BY <2>1, <2>2, <2>3, <1>1, <1>2, JobMoves DEF JobOk
<1>9. CASE PurgeRollover
  <2>1. PICK j \in Jobs : roll' = [roll EXCEPT ![j] = Unqueued]
    BY <1>9 DEF PurgeRollover
  <2>2. Unqueued = [f \in JobFields |-> Unqueued[f]] /\ Unqueued.at = "start" /\ Unqueued.row = "none"
    BY DEF Unqueued, JobFields
  <2>3. UNCHANGED <<karbonSide, engagements>>
    BY <1>9 DEF PurgeRollover, karbonSide
  <2>. QED  BY <2>1, <2>2, <2>3, <1>2, JobMoves
<1>10. ASSUME NEW j \in Jobs, SyncFails(j) \/ WorkerDies(j) PROVE IntakeInv'
  BY <1>5, <1>10 DEF SyncFails, WorkerDies, Running, karbonSide
<1>11. ASSUME NEW j \in Jobs, UNCHANGED karbonSide, UNCHANGED engagements, NEW r, roll' = [roll EXCEPT ![j] = r],
              r = [f \in JobFields |-> r[f]], j[2] \in reached[j[1]],
              r.at \in {"ask?", "exists?", "create"} /\ title[j[1]] # 0 => r.year = title[j[1]],
              r.at \in Looked /\ Sole(j[1]) => Made(j[1]) = {}
       PROVE  IntakeInv'
  BY <1>2, <1>11, JobMoves
<1>12. ASSUME NEW j \in Jobs, roll[j].row # "none", NEW place, Onward(j, place), UNCHANGED karbonSide,
              UNCHANGED engagements,
              place \in {"ask?", "exists?", "create"} /\ title[j[1]] # 0 => roll[j].year = title[j[1]],
              place \in Looked /\ Sole(j[1]) => Made(j[1]) = {}
       PROVE  IntakeInv'
  <2>. DEFINE r == [roll[j] EXCEPT !.at = place]
  <2>1. r = [f \in JobFields |-> r[f]] /\ r.at = place /\ r.year = roll[j].year /\ roll' = [roll EXCEPT ![j] = r]
    BY <1>1, <1>12 DEF JobFields, Onward
  <2>. HIDE DEF r
  <2>. QED  BY <2>1, <1>1, <1>11, <1>12 DEF JobOk
<1>13. ASSUME NEW j \in Jobs, FindItem(j) PROVE IntakeInv'
  <2>. DEFINE r == [roll[j] EXCEPT !.row = "running", !.tries = @ + 1,
                                   !.at = IF item[j[1]] = "linked" THEN "rolled?" ELSE "sync"]
  <2>1. r = [f \in JobFields |-> r[f]] /\ r.at \in {"rolled?", "sync"} /\ roll' = [roll EXCEPT ![j] = r]
    BY <1>1, <1>13 DEF JobFields, FindItem
  <2>2. UNCHANGED karbonSide /\ UNCHANGED engagements /\ j[2] \in reached[j[1]]
    BY <1>1, <1>13 DEF FindItem, Reads, JobOk
  <2>. HIDE DEF r
  <2>. QED  BY <2>1, <2>2, <1>11 DEF Looked
<1>14. ASSUME NEW j \in Jobs, SyncItem(j) PROVE IntakeInv'
  BY <1>12, <1>14 DEF SyncItem, Running, Looked
<1>15. ASSUME NEW j \in Jobs, FindRolled(j) PROVE IntakeInv'
  <2>1. UNCHANGED karbonSide /\ UNCHANGED engagements /\ roll[j].row = "running"
    BY <1>15 DEF FindRolled, Reads, Running
  <2>2. CASE Failed(j, FALSE)
    BY <2>1, <2>2, <1>5
  <2>3. CASE Rolled(j[1]) = {} /\ Onward(j, "previous?")
    BY <2>1, <2>3, <1>12 DEF Rolled, Made
  <2>4. CASE \E e \in Rolled(j[1]) : roll' = [roll EXCEPT ![j].at = "scan", ![j].on = e.id]
    <3>1. PICK e : roll' = [roll EXCEPT ![j].at = "scan", ![j].on = e.id]
      BY <2>4
    <3>. DEFINE r == [roll[j] EXCEPT !.at = "scan", !.on = e.id]
    <3>2. r = [f \in JobFields |-> r[f]] /\ r.at = "scan" /\ roll' = [roll EXCEPT ![j] = r]
      BY <1>1, <3>1 DEF JobFields
    <3>. HIDE DEF r
    <3>. QED  BY <1>1, <2>1, <3>2, <1>11 DEF Looked, JobOk
  <2>. QED  BY <2>2, <2>3, <2>4, <1>15 DEF FindRolled
<1>16. ASSUME NEW j \in Jobs, FindPrevious(j) PROVE IntakeInv'
  <2>1. PICK place \in {"ask?", "exists?"} :
          roll' = [roll EXCEPT ![j].at = place, ![j].year = TaxYear(j[1], triggerType[j[2]])]
    BY <1>16 DEF FindPrevious
  <2>. DEFINE r == [roll[j] EXCEPT !.at = place, !.year = TaxYear(j[1], triggerType[j[2]])]
  <2>2. /\ r = [f \in JobFields |-> r[f]] /\ r.at = place /\ roll' = [roll EXCEPT ![j] = r]
        /\ title[j[1]] # 0 => r.year = title[j[1]]
    BY <1>1, <2>1 DEF JobFields, TaxYear
  <2>3. UNCHANGED karbonSide /\ UNCHANGED engagements /\ roll[j].row = "running" /\ roll[j].at = "previous?"
    BY <1>16 DEF FindPrevious, Reads, Running
  <2>. HIDE DEF r
  <2>. QED  BY <1>1, <2>2, <2>3, <1>11 DEF JobOk, Looked
<1>17. ASSUME NEW j \in Jobs, FindExisting(j) PROVE IntakeInv'
  <2>1. UNCHANGED karbonSide /\ UNCHANGED engagements /\ roll[j].row = "running" /\ roll[j].at \in {"ask?", "exists?"}
    BY <1>17 DEF FindExisting, Reads, Running
  <2>2. CASE Failed(j, FALSE)
    BY <2>1, <2>2, <1>5
  <2>3. CASE Onward(j, "create")
    BY <1>1, <2>1, <2>3, <1>12 DEF JobOk, Looked
  <2>4. CASE \E e \in Live : roll' = [roll EXCEPT ![j].at = "scan", ![j].on = e.id]
    <3>1. PICK e : roll' = [roll EXCEPT ![j].at = "scan", ![j].on = e.id]
      BY <2>4
    <3>. DEFINE r == [roll[j] EXCEPT !.at = "scan", !.on = e.id]
    <3>2. r = [f \in JobFields |-> r[f]] /\ r.at = "scan" /\ roll' = [roll EXCEPT ![j] = r]
      BY <1>1, <3>1 DEF JobFields
    <3>. HIDE DEF r
    <3>. QED  BY <1>1, <2>1, <3>2, <1>11 DEF Looked, JobOk
  <2>. QED  BY <2>2, <2>3, <2>4, <1>17 DEF FindExisting
<1>18. ASSUME NEW j \in Jobs, CreateRolled(j) PROVE IntakeInv'
  <2>1. UNCHANGED karbonSide /\ roll[j].row = "running" /\ roll[j].at = "create" /\ j[2] \in reached[j[1]]
        /\ j[1] \in Items
    BY <1>1, <1>18 DEF CreateRolled, Running, JobOk, karbonSide, Jobs
  <2>2. CASE Failed(j, FALSE) /\ UNCHANGED engagements
    BY <2>1, <2>2, <1>5
  <2>3. CASE /\ ~Taken(triggerType[j[2]], roll[j].year)
             /\ Insert(triggerType[j[2]], roll[j].year, j[1], "rollover")
             /\ roll' = [roll EXCEPT ![j].at = "scan", ![j].on = Born + 1]
    <3>0. /\ \E g \in reached[j[1]] : triggerType[j[2]] = triggerType[g]
          /\ title[j[1]] # 0 => roll[j].year = title[j[1]]
          /\ Sole(j[1]) => Made(j[1]) = {}
      BY <1>1, <2>1 DEF JobOk, Looked
    <3>1. /\ EngagementsOk'
          /\ \A i : Made(i)' # Made(i) => i = j[1]
      BY <1>1, <2>1, <2>3, <3>0, InsertedRow
    <3>. DEFINE r == [roll[j] EXCEPT !.at = "scan", !.on = Born + 1]
    <3>2. r = [f \in JobFields |-> r[f]] /\ r.at = "scan" /\ roll' = [roll EXCEPT ![j] = r]
      BY <1>1, <2>3 DEF JobFields
    <3>. HIDE DEF r
    <3>3. roll' = [k \in Jobs |-> IF k = j THEN r ELSE roll[k]]
      BY <3>2 DEF IntakeInv
    <3>4. roll' = [k \in Jobs |-> [f \in JobFields |-> roll'[k][f]]]
      BY <1>1, <3>2, <3>3, ZenonT(40)
    <3>5. JobOk(j)'
      BY <2>1, <3>2, <3>3 DEF JobOk, Looked, karbonSide
    <3>6. ASSUME NEW k \in Jobs, k # j PROVE JobOk(k)'
      <4>1. JobOk(k) /\ roll'[k] = roll[k]
        BY <1>1, <3>3, <3>6
      <4>2. roll[k].at \in Looked => k[2] \in reached[k[1]]
        BY <4>1 DEF JobOk, Looked
      <4>3. roll[k].at \in Looked /\ Sole(k[1]) => Made(k[1])' = {}
        BY <2>1, <3>1, <3>6, <4>1, <4>2, OnlyJob DEF JobOk
      <4>. QED  BY <2>1, <4>1, <4>3 DEF JobOk, karbonSide, Sole
    <3>. QED  BY <2>1, <3>1, <3>4, <3>5, <3>6 DEF IntakeInv, karbonSide
  <2>. QED  BY <2>2, <2>3, <1>18 DEF CreateRolled
<1>19. ASSUME NEW j \in Jobs, QueueRolledScan(j) PROVE IntakeInv'
  BY <1>1, <1>12, <1>19 DEF QueueRolledScan, ScanDue, Running, Reads, Looked
<1>20. ASSUME NEW id, NEW F, UNCHANGED karbonSide, Prepares(F) \/ Deletes(F), Replaced(id, F)
       PROVE  EngagementsOk' /\ \A i : Made(i) = {} => Made(i)' = {}
  BY <1>1, <1>20, ChangedRows
<1>21. ASSUME NEW id, QueuePreparation(id), UNCHANGED karbonSide
       PROVE  EngagementsOk' /\ \A i : Made(i) = {} => Made(i)' = {}
  <2>1. CASE UNCHANGED engagements
    BY <1>2, <1>21, <2>1
  <2>2. CASE engagements' = {IF e.id = id THEN [e EXCEPT !.prepared = TRUE] ELSE e : e \in engagements}
    <3>. DEFINE F == [e \in engagements |-> [e EXCEPT !.prepared = TRUE]]
    <3>1. Replaced(id, F)
      BY <2>2 DEF Replaced
    <3>2. Prepares(F)
      BY DEF Prepares
    <3>. HIDE DEF F
    <3>. QED  BY <1>20, <1>21, <3>1, <3>2
  <2>. QED  BY <1>21, <2>1, <2>2 DEF QueuePreparation, Change
<1>22. ASSUME NEW id, Change(id, LAMBDA e : [e EXCEPT !.gone = TRUE]), UNCHANGED karbonSide
       PROVE  EngagementsOk' /\ \A i : Made(i) = {} => Made(i)' = {}
  <2>. DEFINE F == [e \in engagements |-> [e EXCEPT !.gone = TRUE]]
  <2>1. Replaced(id, F)
    BY <1>22 DEF Change, Replaced
  <2>2. UNCHANGED karbonSide /\ Deletes(F)
    BY <1>22 DEF Deletes
  <2>. HIDE DEF F
  <2>. QED  BY <1>20, <2>1, <2>2
<1>23. ASSUME NEW j \in Jobs, QueueRolledPreparation(j) PROVE IntakeInv'
  <2>1. UNCHANGED karbonSide /\ QueuePreparation(roll[j].on) /\ roll[j].row = "running"
    BY <1>23 DEF QueueRolledPreparation, Running, karbonSide
  <2>. DEFINE r == [Unqueued EXCEPT !.row = "succeeded", !.tries = 0]
  <2>2. r = [f \in JobFields |-> r[f]] /\ r.at = "start"
    BY DEF Unqueued, JobFields
  <2>3. roll' = [roll EXCEPT ![j] = r] /\ j[2] \in reached[j[1]]
    BY <1>1, <1>23, <2>1 DEF QueueRolledPreparation, Ended, JobOk
  <2>. HIDE DEF r
  <2>. QED  BY <2>1, <2>2, <2>3, <1>21, JobMoves
<1>24. ASSUME NEW f \in Forms, Create(f) PROVE IntakeInv'
  <2>1. UNCHANGED <<karbonSide, roll>>
    BY <1>24 DEF Create, karbonSide
  <2>2. CASE UNCHANGED engagements
    BY <1>3, <2>1, <2>2
  <2>3. CASE \E work : ~Taken(form[f].type, form[f].year) /\ Insert(form[f].type, form[f].year, work, "hand")
    BY <1>1, <2>1, <2>3, InsertedRow, JobsRest
  <2>. QED  BY <2>2, <2>3, <1>24 DEF Create
<1>25. ASSUME NEW f \in Forms, PrepareCreated(f) \/ Delete(f) PROVE IntakeInv'
  <2>1. UNCHANGED <<karbonSide, roll>>
    BY <1>25 DEF PrepareCreated, Delete, karbonSide
  <2>. QED  BY <2>1, <1>21, <1>22, <1>25, JobsRest DEF PrepareCreated, Delete
<1>26. ASSUME NEW f \in Forms, \/ AskCreate(f) \/ SearchCreated(f) \/ AskDelete(f) \/ FindEvidence(f) \/ RequestDies(f)
       PROVE  IntakeInv'
  BY <1>3, <1>26 DEF AskCreate, SearchCreated, AskDelete, FindEvidence, RequestDies, Submit, karbonSide
<1>. QED
  BY <1>6, <1>7, <1>8, <1>9, <1>10, <1>13, <1>14, <1>15, <1>16, <1>17, <1>18, <1>19, <1>23, <1>24, <1>25, <1>26
     DEF IntakeNext, Rolling, Filling

(* "One work item means one engagement": an item that one trigger names, or whose title and
   triggers tell the year and the type, makes one engagement, however often it is asked for. *)
THEOREM ItemsRollOnce == IntakeSpec => []RolledOnce
<1>1. IntakeInv => RolledOnce
  <2>. SUFFICES ASSUME IntakeInv, NEW i \in Items, OneRoute(i) PROVE Cardinality(Made(i)) =< 1
    BY DEF RolledOnce, Made
  <2>1. \A d, e \in Made(i) : d = e
    <3>1. CASE Cardinality(reached[i]) =< 1
      <4>1. ASSUME NEW s \in reached[i], NEW t \in reached[i], s # t PROVE FALSE
        <5>1. IsFiniteSet(reached[i])
          BY FS_Subset, IntakeAssumption DEF IntakeInv
        <5>2. IsFiniteSet({s}) /\ Cardinality({s}) = 1
          BY FS_Singleton
        <5>3. Cardinality({s} \union {t}) = 2 /\ {s} \union {t} \subseteq reached[i]
          BY <4>1, <5>2, FS_AddElement
        <5>4. 2 =< Cardinality(reached[i])
          BY <5>1, <5>3, FS_Subset
        <5>. QED  BY <3>1, <5>1, <5>4, FS_CardinalityType
      <4>. QED  BY <4>1 DEF IntakeInv, EngagementsOk, Sole
    <3>2. CASE title[i] # 0 /\ \A s, t \in reached[i] : triggerType[s] = triggerType[t]
      BY <3>2 DEF IntakeInv, EngagementsOk, Made, Live, Origin
    <3>. QED  BY <3>1, <3>2 DEF OneRoute
  <2>2. CASE Made(i) = {}
    BY <2>2, FS_EmptySet
  <2>3. ASSUME NEW e, Made(i) = {e} PROVE Cardinality(Made(i)) =< 1
    <3>1. Cardinality({e}) = 1
      BY FS_Singleton
    <3>. QED  BY <2>3, <3>1
  <2>. QED  BY <2>1, <2>2, <2>3
<1>2. IntakeInv /\ [IntakeNext]_intake => IntakeInv'
  BY IntakeInvStep
<1>. QED  BY <1>1, <1>2, IntakeInvInit, PTL DEF IntakeSpec
=============================================================================
