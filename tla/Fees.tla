--------------------------------- MODULE Fees ---------------------------------
(***************************************************************************)
(* Which pricing rule applies and what fee it makes                        *)
(* (packages/pricing/src/rule-resolution.ts, engine.ts).  Money is in      *)
(* cents, a percentage in ten-thousandths of one per cent; None is a       *)
(* missing amount.  Advice that changes no figure (warnings) is left out.  *)
(***************************************************************************)
EXTENDS Integers, Sequences, SequencesExt

CONSTANT None

Levels == <<"GLOBAL", "ENGAGEMENT_TYPE", "PARTNER_OR_GROUP", "CLIENT", "ONE_TIME_OVERRIDE">>

levelSpecificity(level) == CHOOSE i \in 1..Len(Levels) : Levels[i] = level

(* What the pricing page stores: every level has its scope and every method  *)
(* its value, which is not negative; a field the rule does not use is empty. *)
Storable(rule) ==
  /\ rule.level \in ToSet(Levels) /\ rule.id \in Int
  /\ rule.effectiveFrom \in Int
  /\ rule.effectiveTo # None => rule.effectiveTo \in Int /\ rule.effectiveTo >= rule.effectiveFrom
  /\ rule.level = "GLOBAL" => rule.engagementType = None
  /\ rule.level = "ENGAGEMENT_TYPE" => rule.engagementType # None
  /\ rule.level = "PARTNER_OR_GROUP" <=> ~(rule.partnerUserId = None /\ rule.clientGroup = None)
  /\ rule.level \in {"CLIENT", "ONE_TIME_OVERRIDE"} <=> rule.clientId # None
  /\ rule.method \in {"NO_INCREASE", "PERCENTAGE", "FIXED_AMOUNT", "EXACT_TARGET"}
  /\ IF rule.method = "PERCENTAGE" THEN rule.percentage \in Nat ELSE rule.percentage = None
  /\ IF rule.method = "FIXED_AMOUNT" THEN rule.fixedAmount \in Nat ELSE rule.fixedAmount = None
  /\ IF rule.method = "EXACT_TARGET" THEN rule.exactTarget \in Nat ELSE rule.exactTarget = None

(* Does a rule speak about this engagement, on the day it is asked about? *)
isApplicable(rule, context) ==
  /\ rule.isActive
  /\ rule.effectiveFrom =< context.asOf
  /\ rule.effectiveTo = None \/ rule.effectiveTo >= context.asOf
  /\ rule.feeKind \in {None, context.feeKind}
  /\ rule.engagementType \in {None, context.engagementType}
  /\ \/ rule.level = "GLOBAL"
     \/ rule.level = "ENGAGEMENT_TYPE" /\ rule.engagementType = context.engagementType
     \/ rule.level = "PARTNER_OR_GROUP"
        /\ \/ rule.partnerUserId # None /\ rule.partnerUserId = context.partnerUserId
           \/ rule.clientGroup # None /\ rule.clientGroup = context.clientGroup
     \/ rule.level \in {"CLIENT", "ONE_TIME_OVERRIDE"} /\ rule.clientId = context.clientId

(* The reducer: the most specific level, then the latest start, then the id. *)
Outranks(candidate, best) ==
  LET score == levelSpecificity(candidate.level)
      bestScore == levelSpecificity(best.level)
  IN  \/ score > bestScore
      \/ score = bestScore /\ candidate.effectiveFrom > best.effectiveFrom
      \/ score = bestScore /\ candidate.effectiveFrom = best.effectiveFrom /\ candidate.id > best.id

(* The rules in the order the database gave them: the best one so far takes  *)
(* on the next that applies. None if none applies.                           *)
resolveRule(rules, context) ==
  LET best[n \in 0..Len(rules)] ==
        IF n = 0 THEN None
        ELSE IF isApplicable(rules[n], context)
                  /\ (best[n - 1] # None => Outranks(rules[n], best[n - 1]))
             THEN rules[n] ELSE best[n - 1]
  IN  best[Len(rules)]

(* toDecimalPlaces, half away from zero. *)
HalfUp(number, divisor) ==
  LET size == IF number < 0 THEN -number ELSE number
      half == (size \div divisor) + (IF 2 * (size % divisor) >= divisor THEN 1 ELSE 0)
  IN  IF number < 0 THEN -half ELSE half

roundUpToNearest5(cents) == ((cents + 499) \div 500) * 500

(* In ten-thousandths of one per cent; nothing is a percentage of zero. *)
percentageChange(from, to) == IF from = 0 THEN None ELSE HalfUp((to - from) * 1000000, from)

Blocked == [isBlocked |-> TRUE, unroundedFee |-> None, roundedFee |-> None,
            requiredApproval |-> "NONE"]

(* What the rule makes of last year's fee. *)
Priced(rule, previousFee) ==
  CASE rule.method = "EXACT_TARGET" -> rule.exactTarget
    [] rule.method = "NO_INCREASE" -> previousFee
    [] rule.method = "PERCENTAGE" ->
         IF rule.percentage = None THEN None
         ELSE previousFee + HalfUp(previousFee * rule.percentage, 1000000)
    [] rule.method = "FIXED_AMOUNT" ->
         IF rule.fixedAmount = None THEN None ELSE previousFee + rule.fixedAmount
    [] OTHER -> None

(* That, or the amount somebody typed over it. *)
Unrounded(rule, previousFee, override) ==
  IF override # None THEN override
  ELSE IF previousFee = None /\ rule.method # "EXACT_TARGET" THEN None
  ELSE Priced(rule, previousFee)

(* As if the change were judged on the fee before it is rounded up. *)
ApprovalBeforeRounding(previousFee, rounded, unrounded, threshold) ==
  IF previousFee = None THEN "NONE"
  ELSE LET rise == percentageChange(previousFee, unrounded)
       IN  IF unrounded < previousFee THEN "FEE_DECREASE"
           ELSE IF rise # None /\ rise > threshold THEN "FEE_HIGH_INCREASE" ELSE "NONE"

Approval(previousFee, rounded, unrounded, threshold) ==
  IF previousFee = None THEN "NONE"
  ELSE LET rise == percentageChange(previousFee, rounded)
       IN  IF rounded < previousFee THEN "FEE_DECREASE"
           ELSE IF rounded # previousFee /\ rise # None /\ rise > threshold THEN "FEE_HIGH_INCREASE"
           ELSE "NONE"

calculateFee(rule, previousFee, override, threshold) ==
  LET unrounded == Unrounded(rule, previousFee, override)
      rounded == IF rule.skipRounding THEN unrounded ELSE roundUpToNearest5(unrounded)
  IN  IF unrounded = None THEN Blocked
      ELSE IF unrounded < 0 THEN Blocked
      ELSE [isBlocked |-> FALSE, unroundedFee |-> unrounded, roundedFee |-> rounded,
            requiredApproval |-> Approval(previousFee, rounded, unrounded, threshold)]
=============================================================================
