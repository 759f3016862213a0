------------------------------ MODULE Schedule ------------------------------
(***************************************************************************)
(* The order in which the gateway tries the channels of a route: tiers of  *)
(* priority from high to low, and within a tier a weighted draw without    *)
(* replacement.  The generator yields a number below one; a draw is the    *)
(* middle of one of the tier's units of weight, counted in halves.         *)
(***************************************************************************)
EXTENDS Integers, Sequences, FiniteSets, SequencesExt

CONSTANTS Channels, Weights, Priorities

ScheduleAssumption ==
  /\ IsFiniteSet(Channels) /\ Weights \subseteq Int /\ Priorities \subseteq Int

VARIABLES
  row,      (* [Channels -> priority and weight of the candidate]           *)
  waiting,  (* the candidates not yet ordered, as the query returned them   *)
  pool,     (* the tier being drawn from                                    *)
  ordered   (* the order so far                                             *)

vars == <<row, waiting, pool, ordered>>

Init ==
  /\ row \in [Channels -> [priority : Priorities, weight : Weights]]
  /\ waiting \in SetToSeqs(Channels)
  /\ pool = <<>> /\ ordered = <<>>

TopTier == {c \in ToSet(waiting) :
             \A d \in ToSet(waiting) : row[c].priority >= row[d].priority}
(* The next tier, in the order of the rows.                                *)
NextTier ==
  /\ pool = <<>> /\ waiting # <<>>
  /\ pool' = SelectSeq(waiting, LAMBDA c : c \in TopTier)
  /\ waiting' = SelectSeq(waiting, LAMBDA c : c \notin TopTier)
  /\ UNCHANGED <<row, ordered>>

Share(c) == IF row[c].weight > 1 THEN row[c].weight ELSE 1
Before(i) == FoldLeft(LAMBDA n, c : n + Share(c), 0, SubSeq(pool, 1, i))
Draws == {2 * k + 1 : k \in 0..(Before(Len(pool)) - 1)}

(* The loop takes the weights off until nothing is left, the last          *)
(* candidate without asking.                                               *)
Picked(draw) ==
  CHOOSE i \in 1..Len(pool) :
    /\ draw <= 2 * Before(i) \/ i = Len(pool)
    /\ \A j \in 1..(i - 1) : draw > 2 * Before(j)

Take(i) ==
  /\ ordered' = Append(ordered, pool[i]) /\ pool' = RemoveAt(pool, i)
  /\ UNCHANGED <<row, waiting>>
Pick == pool # <<>> /\ \E draw \in Draws : Take(Picked(draw))

Next == NextTier \/ Pick
Spec == Init /\ [][Next]_vars /\ WF_vars(Next)

-----------------------------------------------------------------------------
TypeOK ==
  /\ row \in [Channels -> [priority : Priorities, weight : Weights]]
  /\ \A s \in {waiting, pool, ordered} :
       ToSet(s) \subseteq Channels /\ Len(s) <= Cardinality(Channels)

(* Nothing is lost and nothing doubled: every candidate is in one place.   *)
EachOnce ==
  LET all == waiting \o pool \o ordered IN
  Len(all) = Cardinality(Channels) /\ ToSet(all) = Channels

(* A candidate of a higher priority comes before every one of a lower one, *)
(* whatever the weights are.                                               *)
TiersInOrder ==
  \A i, j \in 1..Len(ordered) :
    row[ordered[i]].priority > row[ordered[j]].priority => i < j

(* schedule.ts:3: the weight is the share of first places, a weight of     *)
(* zero or less counts as one: of the draws of a tier, as many take a      *)
(* candidate as it has weight.                                             *)
ShareIsWeight ==
  \A i \in 1..Len(pool) :
    Cardinality({d \in Draws : Picked(d) = i}) =
      (IF row[pool[i]].weight <= 0 THEN 1 ELSE row[pool[i]].weight)

=============================================================================
