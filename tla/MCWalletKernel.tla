--------------------------- MODULE MCWalletKernel ---------------------------
(* Instances of WalletKernel for TLC.                                      *)
EXTENDS WalletKernel, TLC

CONSTANTS ann, bob, out, rev, k1, k2

(* Holds, what ends them, and postings that compete with    *)
(* them for a balance, a shard, a key or an account that is being frozen.  *)
MCShardOf == [r \in Refs |-> IF r = k1 THEN 0 ELSE 1]
MCStart == [a \in Accounts |->
  CASE a = ann -> 2 [] a = bob -> 0 [] a = <<out, 0>> -> -4 [] a \in {<<rev, 0>>, <<rev, 1>>} -> 1
    [] OTHER -> 0]
Do(verb, ref, from, to, amount) ==
  [verb |-> verb, ref |-> ref, from |-> from, to |-> to, amount |-> amount, cash |-> FALSE]
MCCommands ==
  {Do("authorize", k1, ann, None, 2), Do("settle", k1, None, rev, 1), Do("release", k1, None, None, 0),
   Do("refund", k2, ann, out, 1), Do("credit_line", k2, ann, None, 1), Do("transfer", k1, rev, bob, 2),
   [Do("transfer", k2, ann, rev, 1) EXCEPT !.cash = TRUE], Do("credit", k2, out, ann, 1),
   Do("freeze", k1, ann, None, 1), Do("freeze", k2, rev, None, 1)}

Alike == Permutations(Callers)
=============================================================================
