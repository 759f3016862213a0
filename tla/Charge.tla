-------------------------------- MODULE Charge --------------------------------
(***************************************************************************)
(* What billing promises for a request, whoever carries it out: money is   *)
(* held, then owed once a receipt was accepted, then charged, exactly once *)
(* and for exactly the cost of that receipt; or it is returned, which for  *)
(* a request that owes takes a human to decide.                            *)
(***************************************************************************)
EXTENDS Integers

CONSTANTS Requests, Receipts, Cost, Deposit, NoReceipt

VARIABLES
  stage,     (* how far each request got                                    *)
  owes,      (* the receipt a request owes for                              *)
  balance    (* the user's money                                            *)

vars == <<stage, owes, balance>>

Init ==
  /\ stage = [r \in Requests |-> "none"]
  /\ owes = [r \in Requests |-> NoReceipt]
  /\ balance = Deposit

(* stage[r] moves from one of `from' to `to'.                              *)
Step(r, from, to) ==
  /\ stage[r] \in from
  /\ stage' = [stage EXCEPT ![r] = to]

Hold(r) == Step(r, {"none"}, "held") /\ UNCHANGED <<owes, balance>>

Owe(r, rc) ==
  /\ Step(r, {"held"}, "owed")
  /\ owes' = [owes EXCEPT ![r] = rc]
  /\ UNCHANGED balance

Collect(r) ==
  /\ Step(r, {"owed"}, "charged")
  /\ balance' = balance - Cost[owes[r]]
  /\ UNCHANGED owes

Park(r)   == Step(r, {"owed"}, "parked") /\ UNCHANGED <<owes, balance>>
Reopen(r) == Step(r, {"parked"}, "owed") /\ UNCHANGED <<owes, balance>>
Waive(r)  == Step(r, {"parked"}, "returned") /\ UNCHANGED <<owes, balance>>
Return(r) == Step(r, {"held"}, "returned") /\ UNCHANGED <<owes, balance>>

Next ==
  \E r \in Requests :
    \/ Hold(r) \/ Collect(r) \/ Park(r) \/ Reopen(r) \/ Waive(r)
    \/ Return(r)
    \/ \E rc \in Receipts : Owe(r, rc)

Spec == Init /\ [][Next]_vars

(* What is owed is collected, or parked for a human to look at; what is    *)
(* held does not stay held.                                                *)
Fairness ==
  \A r \in Requests :
    /\ WF_vars(Collect(r) \/ Park(r))
    /\ WF_vars(Return(r) \/ \E rc \in Receipts : Owe(r, rc))

FairSpec == Spec /\ Fairness
=============================================================================
