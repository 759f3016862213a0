------------------------------- MODULE Ledger -------------------------------
(***************************************************************************)
(* The verbs of the wallet as database transactions: what they look up     *)
(* before they begin, the rows they lock one after the other, and what     *)
(* they write when they have them all.  They write absolute values that    *)
(* they computed from the rows as they were when they locked them.  The    *)
(* statement that locks several accounts has no ORDER BY, so it meets its  *)
(* rows in any order; the database breaks a cycle of waiting transactions  *)
(* by rolling one of them back.  Accounts exist and are not frozen.        *)
(***************************************************************************)
EXTENDS Integers, Sequences, FiniteSets, FiniteSetsExt

CONSTANTS
  Users, Keys,      (* disjoint: a key names both a command and its hold    *)
  Calls,
  Commands,         (* records [verb, key, user, amount, over]              *)
  Deposit, Limit    (* what every user starts with                          *)

Outside == "outside"
Revenue == "platform_revenue"
Accounts == Users \cup {Outside, Revenue}
Verbs == {"credit", "refund", "transfer", "line", "authorize", "settle", "release"}

LedgerAssumption ==
  /\ Commands \subseteq [verb : Verbs, key : Keys, user : Users, amount : Nat, over : BOOLEAN]
  /\ Deposit \in Nat /\ Limit \in Nat /\ Keys \cap Accounts = {}

VARIABLES
  acct,      (* [Accounts -> balance, inFlight, limit]                      *)
  holds,     (* [Keys -> row of wallet_authorizations]                      *)
  posted,    (* wallet_transactions: records [kind, key, user, amount]      *)
  calls      (* [Calls -> step, command, statements left, rows locked, the  *)
             (*           accounts as they were then, answer]               *)

vars == <<acct, holds, posted, calls>>

Row(balance, limit) == [balance |-> balance, inFlight |-> 0, limit |-> limit]
NoHold == [st |-> "none", user |-> "none", amount |-> 0]

Init ==
  /\ acct = [a \in Accounts |-> IF a \in Users THEN Row(Deposit, Limit)
               ELSE Row(IF a = Outside THEN -Deposit * Cardinality(Users) ELSE 0, 0)]
  /\ holds = [k \in Keys |-> NoHold]
  /\ posted = {}
  /\ calls = [c \in Calls |-> [pc |-> "new", cmd |-> "none", todo |-> <<>>, held |-> {},
                               seen |-> acct, answer |-> "none"]]

Opens(cmd) == cmd.verb \in {"credit", "refund", "transfer", "line", "authorize"}
Holder(cmd) == IF Opens(cmd) THEN cmd.user ELSE holds[cmd.key].user
Counterparty(cmd) == IF cmd.verb \in {"credit", "refund"} THEN Outside ELSE Revenue

(* The locking statements of a verb.                                       *)
Statements(cmd) ==
  CASE cmd.verb \in {"credit", "refund", "transfer"} -> <<{cmd.user, Counterparty(cmd)}>>
    [] cmd.verb \in {"line", "authorize"} -> <<{cmd.user}>>
    [] cmd.verb = "settle" -> <<{cmd.key}, {Holder(cmd)}, {Holder(cmd), Revenue}>>
    [] cmd.verb = "release" -> <<{cmd.key}, {Holder(cmd)}>>

-----------------------------------------------------------------------------
(* The answer to a key that is there already.                              *)

Prior(cmd) ==
  IF cmd.verb = "authorize"
  THEN IF holds[cmd.key].st = "none" THEN {} ELSE {holds[cmd.key]}
  ELSE {p \in posted : p.kind = cmd.verb /\ p.key = cmd.key}

SameCommand(cmd) == \A p \in Prior(cmd) : p.user = Holder(cmd) /\ p.amount = cmd.amount
Replay(cmd) == IF SameCommand(cmd) THEN "replayed" ELSE "conflict"

Answer(c, a) ==
  calls' = [calls EXCEPT ![c] = [@ EXCEPT !.pc = "done", !.todo = <<>>, !.held = {}, !.answer = a]]

(* The look-up before the transaction.                                     *)
Begin(c, cmd) ==
  /\ calls[c].pc = "new"
  /\ calls' = [calls EXCEPT ![c] =
       IF Opens(cmd) /\ Prior(cmd) # {}
       THEN [@ EXCEPT !.pc = "done", !.cmd = cmd, !.answer = Replay(cmd)]
       ELSE IF ~Opens(cmd) /\ holds[cmd.key].st = "none"
       THEN [@ EXCEPT !.pc = "done", !.cmd = cmd, !.answer = "missing"]
       ELSE [@ EXCEPT !.pc = "open", !.cmd = cmd, !.todo = Statements(cmd)]]
  /\ UNCHANGED <<acct, holds, posted>>

-----------------------------------------------------------------------------
(* Locks.                                                                  *)

Unlocked(x) == TRUE   \* mutant: a select without FOR UPDATE
FreeRow(x) == \A d \in Calls : x \notin calls[d].held
Wanted(c) == IF calls[c].todo = <<>> THEN {} ELSE Head(calls[c].todo) \ calls[c].held

(* A hold that is over, or too small, ends the call at its first lock.     *)
Over(c) ==
  LET cmd == calls[c].cmd IN
  /\ ~Opens(cmd) /\ cmd.key \in calls[c].held
  /\ \/ holds[cmd.key].st # "active"
     \/ cmd.verb = "settle" /\ cmd.amount > holds[cmd.key].amount

Lock(c, x) ==
  /\ calls[c].pc = "open" /\ x \in Wanted(c) /\ ~Over(c) /\ FreeRow(x)
  /\ LET held == calls[c].held \cup {x} IN
     calls' = [calls EXCEPT ![c] =
       [@ EXCEPT !.held = held,
                 !.todo = IF Head(@) \subseteq held THEN Tail(@) ELSE @,
                 !.seen = IF x \in Accounts THEN [@ EXCEPT ![x] = acct[x]] ELSE @]]
  /\ UNCHANGED <<acct, holds, posted>>

Conclude(c) ==
  LET cmd == calls[c].cmd
      st == holds[cmd.key].st
  IN  /\ calls[c].pc = "open" /\ Over(c)
      /\ Answer(c, CASE cmd.verb = "settle" /\ st = "settled" -> Replay(cmd)
                     [] cmd.verb = "release" /\ st = "released" -> "replayed"
                     [] OTHER -> "refused")
      /\ UNCHANGED <<acct, holds, posted>>

(* Everyone in D waits for somebody in D.                                  *)
Stuck(D) ==
  \A c \in D : Wanted(c) # {} /\ \A x \in Wanted(c) : \E d \in D \ {c} : x \in calls[d].held

RollBack(c) ==
  /\ \E D \in SUBSET Calls : c \in D /\ Stuck(D)
  /\ Answer(c, "aborted") /\ UNCHANGED <<acct, holds, posted>>

-----------------------------------------------------------------------------
(* The end of a transaction that holds its locks.                          *)

Available(row) == row.balance + row.limit - row.inFlight

Permitted(cmd, row) ==
  /\ cmd.verb \in {"refund", "transfer", "authorize"} => cmd.over \/ Available(row) >= cmd.amount
  /\ cmd.verb = "line" => row.balance + cmd.amount >= row.inFlight

(* What moves from the counterparty to the user, and what is held of him.  *)
Gain(cmd) ==
  CASE cmd.verb = "credit" -> cmd.amount
    [] cmd.verb \in {"refund", "transfer", "settle"} -> -cmd.amount
    [] OTHER -> 0
HeldMore(cmd) ==
  CASE cmd.verb = "authorize" -> cmd.amount
    [] cmd.verb \in {"settle", "release"} -> -holds[cmd.key].amount
    [] OTHER -> 0

Write(c) ==
  LET cmd == calls[c].cmd
      u == Holder(cmd)
      was == calls[c].seen
  IN  /\ acct' = [a \in Accounts |->
           CASE a = u -> [balance |-> was[u].balance + Gain(cmd),
                          inFlight |-> was[u].inFlight + HeldMore(cmd),
                          limit |-> IF cmd.verb = "line" THEN cmd.amount ELSE was[u].limit]
             [] a = Counterparty(cmd) /\ a \in calls[c].held ->
                  [was[a] EXCEPT !.balance = @ - Gain(cmd)]
             [] OTHER -> acct[a]]
      /\ holds' = [holds EXCEPT ![cmd.key] =
           CASE cmd.verb = "authorize" -> [st |-> "active", user |-> u, amount |-> cmd.amount]
             [] cmd.verb = "settle" -> [@ EXCEPT !.st = "settled"]
             [] cmd.verb = "release" -> [@ EXCEPT !.st = "released"]
             [] OTHER -> @]
      /\ posted' = IF cmd.verb \in {"authorize", "release"} THEN posted
                   ELSE posted \cup {[kind |-> cmd.verb, key |-> cmd.key, user |-> u, amount |-> cmd.amount]}

(* The guard comes before the unique index, which setCreditLimit takes for *)
(* a replay without comparing.                                             *)
Duplicate(cmd) == Opens(cmd) /\ Prior(cmd) # {}

Commit(c) ==
  LET cmd == calls[c].cmd IN
  /\ calls[c].pc = "open" /\ calls[c].todo = <<>>
  /\ IF ~Permitted(cmd, calls[c].seen[Holder(cmd)])
     THEN Answer(c, "refused") /\ UNCHANGED <<acct, holds, posted>>
     ELSE IF Duplicate(cmd)
     THEN /\ Answer(c, IF cmd.verb = "line" THEN "replayed" ELSE Replay(cmd))
          /\ UNCHANGED <<acct, holds, posted>>
     ELSE Write(c) /\ Answer(c, "applied")

Serve(c) ==
  Commit(c) \/ Conclude(c) \/ RollBack(c) \/ \E x \in Accounts \cup Keys : Lock(c, x)
Next == \E c \in Calls : Serve(c) \/ \E cmd \in Commands : Begin(c, cmd)

Spec == Init /\ [][Next]_vars

-----------------------------------------------------------------------------
(* Properties.                                                             *)

Answers == {"none", "applied", "replayed", "conflict", "missing", "refused", "aborted"}

(* The types; a call that is not open has no locks, and no row has two.    *)
TypeOK ==
  /\ acct \in [Accounts -> [balance : Int, inFlight : Nat, limit : Nat]]
  /\ \A k \in Keys : holds[k].st \in {"none", "active", "settled", "released"}
  /\ \A c \in Calls : calls[c].answer \in Answers /\ (calls[c].pc # "open" => calls[c].held = {})
  /\ \A c, d \in Calls : c # d => calls[c].held \cap calls[d].held = {}

(* No update is lost, though every write is absolute: an account's balance *)
(* is what the posted transactions moved, and what it holds is its holds.  *)
Books ==
  /\ \A u \in Users :
       /\ acct[u].balance = Deposit +
            MapThenSumSet(LAMBDA p : Gain([verb |-> p.kind, amount |-> p.amount]), {p \in posted : p.user = u})
       /\ acct[u].inFlight =
            MapThenSumSet(LAMBDA k : holds[k].amount,
                          {k \in Keys : holds[k].user = u /\ holds[k].st = "active"})
  /\ MapThenSumSet(LAMBDA a : acct[a].balance, Accounts) = 0

(* One key, one transaction of a kind; a hold is settled at most once and  *)
(* never for more than it held.                                            *)
OncePerKey ==
  /\ \A p, q \in posted : p.kind = q.kind /\ p.key = q.key => p = q
  /\ \A c, d \in Calls :
       c # d /\ calls[c].answer = "applied" /\ calls[d].answer = "applied" =>
         <<calls[c].cmd.verb, calls[c].cmd.key>> # <<calls[d].cmd.verb, calls[d].cmd.key>>
  /\ \A p \in posted : p.kind = "settle" => holds[p.key].st = "settled" /\ p.amount <= holds[p.key].amount

(* Credit and balance cover what is held of a user without overages,       *)
(* whatever is authorized, spent and granted at the same time.             *)
Covered ==
  \A u \in Users : (\A cmd \in Commands : cmd.over => cmd.user # u) => Available(acct[u]) >= 0

(* wallet.ts: a repeated command gets the first answer, a different one of *)
(* the same key is refused: who is told yes finds his command carried out. *)
AnsweredIsApplied ==
  \A c \in Calls :
    calls[c].answer \in {"applied", "replayed"} =>
      LET cmd == calls[c].cmd IN
      IF cmd.verb = "release" THEN holds[cmd.key].st = "released"
      ELSE Prior(cmd) # {} /\ SameCommand(cmd)

(* wallet.repo.ts: accounts are locked in one global order, so that        *)
(* transactions never wait for each other in a cycle.                      *)
NoDeadlock == \A D \in SUBSET Calls : D # {} => ~Stuck(D)

=============================================================================
