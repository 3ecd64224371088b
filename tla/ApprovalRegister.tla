-------------------------- MODULE ApprovalRegister --------------------------
(***************************************************************************)
(* What the firm promises of its letters: each is made once and never      *)
(* rewritten, is approved by somebody who did not produce it, and goes to  *)
(* a client, for Adobe to have signed or signed on paper, only after that. *)
(* Drafts, gates, statuses and processes are Review's business.            *)
(***************************************************************************)
CONSTANTS Letters, Authors, Approvers, NoAuthor

VARIABLES
  author,   \* who produced each letter, or NoAuthor if there is none yet
  approved, \* pairs of a letter and the person who approved it
  gone      \* letters that went to the client

register == <<author, approved, gone>>

Init ==
  /\ author = [v \in Letters |-> NoAuthor]
  /\ approved = {} /\ gone = {}

Make(v) ==
  /\ author[v] = NoAuthor
  /\ \E a \in Authors : author' = [author EXCEPT ![v] = a]
  /\ UNCHANGED <<approved, gone>>

Approve(v, a) ==
  /\ author[v] \notin {NoAuthor, a}
  /\ approved' = approved \union {<<v, a>>}
  /\ UNCHANGED <<author, gone>>

Send(v) ==
  /\ \E a \in Approvers : <<v, a>> \in approved
  /\ gone' = gone \union {v}
  /\ UNCHANGED <<author, approved>>

Next == \E v \in Letters : Make(v) \/ Send(v) \/ \E a \in Approvers : Approve(v, a)

Spec == Init /\ [][Next]_register
=============================================================================
