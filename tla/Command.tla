------------------------------ MODULE Command ------------------------------
(***************************************************************************)
(* What a money command of the administrator promises: under one operation *)
(* id it is applied at most once, with the arguments of one of the         *)
(* requests that carry the id, or not at all.                              *)
(***************************************************************************)
EXTENDS Integers

CONSTANTS Ids, Args, Accounts, None

(* VARIABLES: the arguments each id was applied with, and the money.       *)
VARIABLES applied, money

Init == applied = [i \in Ids |-> None] /\ money \in [Accounts -> Int]

Apply(i, a) ==
  /\ applied[i] = None /\ applied' = [applied EXCEPT ![i] = a]
  /\ money' = [money EXCEPT ![a.on] = @ + a.amount]

(* The traffic spends what it spends.                                      *)
Spend(x) == money' = [money EXCEPT ![x] = @ - 1] /\ UNCHANGED applied

Next == \/ \E i \in Ids, a \in Args : Apply(i, a)
        \/ \E x \in Accounts : Spend(x)

Spec == Init /\ [][Next]_<<applied, money>>
=============================================================================
