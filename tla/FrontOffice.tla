------------------------------ MODULE FrontOffice ------------------------------
(***************************************************************************)
(* The rules at work, the vendors' connections, the Karbon client, the     *)
(* clients' file, the annual rollout and the signers of a letter side by   *)
(* side.  They share no row that is written, so a behaviour looks at one   *)
(* of them: an interleaving shows nothing that each alone does not.        *)
(***************************************************************************)
EXTENDS Rules, Connections, KarbonClient, ClientFile, Rollout, Signers

VARIABLE desk \* the part this behaviour is about

vars == <<enquiry, wiring, client, file, rollout, mailing, desk>>

Init ==
  /\ desk \in {"rules", "wiring", "karbon", "file", "rollout", "signers"}
  /\ asked \in IF desk = "rules" THEN Questions ELSE {CHOOSE q \in DateQuestions : TRUE}
  /\ answer = None
  /\ WiringInit /\ (desk # "wiring" => provider = "KARBON" /\ pinned)
  /\ ClientInit /\ (desk # "karbon" => record = "Contact" /\ items = <<>> /\ call = Quiet)
  /\ FileInit /\ RolloutInit
  /\ SignersInit /\ (desk # "signers" => letterType = "T2" /\ Named = {})

At(here) == desk = here /\ UNCHANGED desk

Answering == At("rules") /\ RulesNext /\ UNCHANGED <<wiring, client, file, rollout, mailing>>
Wiring == At("wiring") /\ WiringNext /\ UNCHANGED <<enquiry, client, file, rollout, mailing>>
Calling == At("karbon") /\ ClientNext /\ UNCHANGED <<enquiry, wiring, file, rollout, mailing>>
Registering == At("file") /\ FileNext /\ UNCHANGED <<enquiry, wiring, client, rollout, mailing>>
RollingOut == At("rollout") /\ RolloutNext /\ UNCHANGED <<enquiry, wiring, client, file, mailing>>
Naming == At("signers") /\ SignersNext /\ UNCHANGED <<enquiry, wiring, client, file, rollout>>

Spec == Init /\ [][Answering \/ Wiring \/ Calling \/ Registering \/ RollingOut \/ Naming]_vars
=============================================================================
