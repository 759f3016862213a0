---------------------------- MODULE AtomicWallet ----------------------------
(***************************************************************************)
(* What the wallet package promises: every command of a caller happens at  *)
(* one instant or not at all.  A command moves money between accounts by a *)
(* posting whose legs cancel, holds a part of an account, or ends a hold.  *)
(* The operators below say what a command touches, when it is refused and  *)
(* what it writes, given the rows it sees; WalletKernel says how the       *)
(* transactions of the package come to see them.  An account that is not   *)
(* there yet is one with nothing in it; one currency.                      *)
(***************************************************************************)
EXTENDS Integers, Sequences, FiniteSets, FiniteSetsExt, Functions

CONSTANTS
  Users, Codes,        (* owners of accounts, and the internal accounts     *)
  Shards,              (* rows an internal account is split into            *)
  Refs, ShardOf,       (* business keys, and the shard a key hashes to      *)
  Commands,            (* records [verb, ref, from, to, amount, cash]       *)
  Start,               (* balance of each account at the beginning          *)
  None

Internal == Codes \X (0..Shards - 1)
Accounts == Users \cup Internal
Audits == {"credit_line", "freeze"}
Postings == {"credit", "refund", "transfer", "settle"} \cup Audits
Verbs == Postings \cup {"authorize", "release"}

ASSUME WalletAssumption ==
  /\ Shards \in Nat \ {0} /\ ShardOf \in [Refs -> 0..Shards - 1]
  /\ Users \cap Internal = {} /\ Users \cap Codes = {} /\ None \notin Users
  /\ Start \in [Accounts -> Int] /\ \A u \in Users : Start[u] >= 0
  /\ Commands \subseteq [verb : Verbs, ref : Refs, from : Users \cup Codes \cup {None},
                         to : Users \cup Codes \cup {None}, amount : Nat, cash : BOOLEAN]
  /\ \A cmd \in Commands :
       /\ cmd.verb \in {"refund", "credit_line", "authorize"} => cmd.from \in Users
       /\ cmd.verb = "credit" => cmd.from \in Codes /\ cmd.to \in Users
       /\ cmd.verb \in {"refund", "settle"} => cmd.to \in Codes
       /\ cmd.verb = "transfer" => {cmd.from, cmd.to} \subseteq Users \cup Codes /\ cmd.from # cmd.to
       /\ cmd.verb = "freeze" => cmd.from \in Users \cup Codes

VARIABLES
  row,       (* wallet_accounts: [Accounts -> balance, inFlight, limit, frozen] *)
  auth,      (* wallet_authorizations by key                                *)
  ledger,    (* wallet_transactions with their legs, in the order of the ids*)
  late       (* the holds whose expires_at has passed                       *)

tables == <<row, auth, ledger, late>>

NoHold == [st |-> "none", user |-> None, amount |-> 0, settled |-> 0, by |-> None, over |-> None]

Init ==
  /\ row = [a \in Accounts |-> [balance |-> Start[a], inFlight |-> 0, limit |-> 0, frozen |-> FALSE]]
  /\ auth = [r \in Refs |-> NoHold] /\ ledger = <<>> /\ late = {}

-----------------------------------------------------------------------------
(* The rows of a command.                                                  *)

RowsOf(x) == IF x \in Users THEN {x} ELSE {x} \X (0..Shards - 1)
OneRow(x, ref) == IF x \in Users THEN x ELSE <<x, ShardOf[ref]>>
Holder(cmd) == IF cmd.verb \in {"settle", "release"} THEN auth[cmd.ref].user ELSE cmd.from

Touched(cmd) ==
  CASE cmd.verb \in {"credit", "refund"} -> {OneRow(cmd.from, cmd.ref), OneRow(cmd.to, cmd.ref)}
    [] cmd.verb = "transfer" -> RowsOf(cmd.from) \cup RowsOf(cmd.to)
    [] cmd.verb = "freeze" -> RowsOf(cmd.from)
    [] cmd.verb = "settle" -> {Holder(cmd), OneRow(cmd.to, cmd.ref)}
    [] OTHER -> {Holder(cmd)}

-----------------------------------------------------------------------------
(* Guards.                                                                 *)

TotalOf(rows, x) == SumFunction([a \in RowsOf(x) |-> rows[a].balance])

(* availableToSpend: a command for cash only leaves the credit line alone. *)
Available(cmd, r) == r.balance - r.inFlight + (IF cmd.cash THEN 0 ELSE r.limit)

NoGuard(cmd, rows) ==   \* mutant: a transfer is not checked
  CASE cmd.verb \in {"refund", "authorize"} -> Available(cmd, rows[cmd.from]) >= cmd.amount
    [] OTHER -> TRUE
Covered(cmd, rows) ==
  CASE cmd.verb \in {"refund", "authorize"} -> Available(cmd, rows[cmd.from]) >= cmd.amount
    [] cmd.verb = "transfer" -> IF cmd.from \in Users THEN Available(cmd, rows[cmd.from]) >= cmd.amount
                                ELSE TotalOf(rows, cmd.from) >= cmd.amount
    [] cmd.verb = "credit_line" -> rows[cmd.from].balance + cmd.amount >= rows[cmd.from].inFlight
    [] OTHER -> TRUE

Unchecked(cmd) == cmd.verb \notin {"freeze", "release", "authorize", "refund", "transfer"} /\ \E a \in Touched(cmd) : row[a].frozen
                    \* mutant: not every verb looks at the status
Frozen(cmd) == cmd.verb \notin {"freeze", "release"} /\ \E a \in Touched(cmd) : row[a].frozen

(* The unique indexes on the business key.                                 *)
Posted(cmd) == {i \in DOMAIN ledger : ledger[i].cmd.ref = cmd.ref /\ ledger[i].cmd.verb = cmd.verb}
Taken(cmd) ==
  CASE cmd.verb = "authorize" -> auth[cmd.ref].st # "none"
    [] cmd.verb \in {"settle", "release"} -> FALSE
    [] OTHER -> Posted(cmd) # {}

-----------------------------------------------------------------------------
(* The legs of a posting.  A transfer out of an internal account empties   *)
(* its shards one after the other, beginning with the shard of the key.    *)

Least(x, y) == IF x < y THEN x ELSE y
Positive(x) == IF x > 0 THEN x ELSE 0
Place(s, first) == IF s >= first THEN s - first ELSE s - first + Shards
Ahead(s, first) == {t \in 0..Shards - 1 : Place(t, first) < Place(s, first)}

Debit(cmd, rows, a) ==
  IF a \in Users THEN cmd.amount
  ELSE LET spare == [s \in 0..Shards - 1 |-> Positive(rows[<<cmd.from, s>>].balance)]
       IN  Least(spare[a[2]], Positive(cmd.amount - SumFunctionOnSet(spare, Ahead(a[2], ShardOf[cmd.ref]))))

Moves(cmd, rows, a) ==
  IF cmd.verb \in Audits THEN 0
  ELSE IF a = OneRow(cmd.to, cmd.ref) THEN cmd.amount
  ELSE IF cmd.verb # "transfer" THEN -cmd.amount
  ELSE IF a \in RowsOf(cmd.from) THEN -Debit(cmd, rows, a) ELSE 0

(* Freezing all shards of an account is recorded by the first of them.     *)
Recorded(cmd) == IF cmd.verb = "freeze" /\ cmd.from \in Codes THEN {<<cmd.from, 0>>} ELSE Touched(cmd)

Legs(cmd, rows) ==
  [a \in Recorded(cmd) |-> [amount |-> Moves(cmd, rows, a), after |-> rows[a].balance + Moves(cmd, rows, a)]]

-----------------------------------------------------------------------------
(* What a command writes, from the rows it saw.                            *)

Held(cmd) ==
  CASE cmd.verb = "authorize" -> cmd.amount
    [] cmd.verb \in {"settle", "release"} -> -auth[cmd.ref].amount
    [] OTHER -> 0

After(cmd, rows, a) ==
  [balance  |-> IF cmd.verb \in Postings \ Audits THEN rows[a].balance + Moves(cmd, rows, a) ELSE rows[a].balance,
   inFlight |-> IF a = Holder(cmd) THEN rows[a].inFlight + Held(cmd) ELSE rows[a].inFlight,
   limit    |-> IF cmd.verb = "credit_line" THEN cmd.amount ELSE rows[a].limit,
   frozen   |-> IF cmd.verb = "freeze" THEN cmd.amount = 1 ELSE rows[a].frozen]

Write(cmd, rows) ==
  /\ row' = [a \in Accounts |-> IF a \in Touched(cmd) THEN After(cmd, rows, a) ELSE row[a]]
  /\ auth' = [auth EXCEPT ![cmd.ref] =
       CASE cmd.verb = "authorize" -> [NoHold EXCEPT !.st = "active", !.user = cmd.from,
                                                    !.amount = cmd.amount, !.by = cmd]
         [] cmd.verb = "settle" -> [@ EXCEPT !.st = "settled", !.settled = cmd.amount]
         [] cmd.verb = "release" -> [@ EXCEPT !.st = "released", !.over = cmd]
         [] OTHER -> @]
  /\ ledger' = IF cmd.verb \in Postings THEN Append(ledger, [cmd |-> cmd, legs |-> Legs(cmd, rows)])
               ELSE ledger
  /\ UNCHANGED late

(* A hold can be ended while it is active, and settled up to its amount.   *)
Endable(cmd) ==
  cmd.verb \in {"settle", "release"} =>
    auth[cmd.ref].st = "active" /\ (cmd.verb = "settle" => cmd.amount <= auth[cmd.ref].amount)

-----------------------------------------------------------------------------
Look(S) == [a \in S |-> row[a]]

Apply(cmd) ==
  /\ Endable(cmd) /\ ~Frozen(cmd) /\ Covered(cmd, Look(Touched(cmd)))
  /\ ~Taken(cmd) /\ Write(cmd, Look(Touched(cmd)))

(* Holds that are over without an answer of their owner are given up.      *)
HeldBy(u, S) == SumFunctionOnSet([r \in Refs |-> auth[r].amount], {r \in S : auth[r].user = u})
Holders(S) == {auth[r].user : r \in S}
Expired(S, rows) ==
  /\ row' = [a \in Accounts |-> IF a \in Holders(S)
                                THEN [rows[a] EXCEPT !.inFlight = @ - HeldBy(a, S)] ELSE row[a]]
  /\ auth' = [r \in Refs |-> IF r \in S THEN [auth[r] EXCEPT !.st = "expired"] ELSE auth[r]]
  /\ UNCHANGED <<ledger, late>>

GiveUp(S) == S # {} /\ S \subseteq late /\ (\A r \in S : auth[r].st = "active") /\ Expired(S, Look(Holders(S)))

TimePasses(r) == auth[r].st = "active" /\ r \notin late /\ late' = late \cup {r} /\ UNCHANGED <<row, auth, ledger>>

Next ==
  \/ \E cmd \in Commands : Apply(cmd)
  \/ \E S \in SUBSET Refs : GiveUp(S)
  \/ \E r \in Refs : TimePasses(r)

Spec == Init /\ [][Next]_tables
=============================================================================
