------------------------------ MODULE MCBilling ------------------------------
(* Values of Billing's CONSTANTS for TLC: one request that two callers     *)
(* signal and two lanes of one worker settle.                              *)
EXTENDS Billing, TLC

CONSTANTS a, bad

(* Both lanes in one worker process, or each in a process of its own.      *)
SameWorker == [l \in Lanes |-> CHOOSE w \in Workers : TRUE]
OwnWorker == [l \in Lanes |-> l]

(* a costs more than the hold, upstream more than the estimate; bad is the *)
(* poison receipt.                                                         *)
MCCost     == [rc \in Receipts |-> IF rc = a THEN 3 ELSE 1]
MCUpstream == [rc \in Receipts |-> IF rc = a THEN 2 ELSE 1]
MCReserve  == [r \in Requests |-> 2]

Alike == Permutations(Lanes) \cup Permutations(Callers)
-----------------------------------------------------------------------------
(* What was accepted is settled or dead in the end, and what nobody serves *)
(* any more is released: no hold of a user stays for ever, unless a human  *)
(* is to decide.                                                           *)
NothingStaysOpen == SettlementEnds /\ HoldsAreResolved
=============================================================================
