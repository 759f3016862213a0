-------------------------------- MODULE Wakeup --------------------------------
(***************************************************************************)
(* How the worker process finds the bills to settle: notifications of the  *)
(* database (wakeup.ts) whose bursts are run as one batch, drains that     *)
(* repeat while there is a full batch, a periodic sweep that makes up for  *)
(* lost notifications, the batch itself (run-once.ts), and the orderly     *)
(* stop (index.ts).  What settling a bill does is module Billing's.        *)
(* Faults (lost notifications, connections, queries, whole processes) and  *)
(* stops are drawn from a bounded stock.                                   *)
(***************************************************************************)
EXTENDS Integers, FiniteSets, FiniteSetsExt

CONSTANTS
  Bills, Workers,
  Batch,         (* batchSize                                               *)
  Guard,         (* the most rounds of one drain (1000)                     *)
  Sweeps,        (* bound: sweeps of a worker that may run at once          *)
  Faults, MaxFaults   (* the kinds of faults, and bound: how many           *)

WakeupAssumption ==
  /\ Batch \in Nat \ {0} /\ Guard \in Nat \ {0} /\ MaxFaults \in Nat
  /\ "wake" \notin Sweeps

VARIABLES
  bill,      (* [Bills -> status, next_settlement_at passed, owner, token]  *)
  state,     (* [Workers -> up, stopping, returned, closed, gone]           *)
  listening, (* [Workers -> LISTEN holds]                                   *)
  batch,     (* [Workers -> [slot -> step, its claims, their number]]       *)
  again,     (* [Workers -> pending of the coalescing runner]               *)
  drain,     (* [Workers -> [the bill that was announced -> a drain]]       *)
  stray,     (* [Workers -> claims whose batch has thrown]                  *)
  faults     (* how many faults there were                                  *)

vars == <<bill, state, listening, batch, again, drain, stray, faults>>

Slots == {"wake"} \cup Sweeps
Idle == [pc |-> "idle", claims |-> {}, got |-> 0]
NoDrain == [pc |-> "off", n |-> 0, left |-> 0, full |-> TRUE]

Init ==
  /\ bill = [b \in Bills |-> [st |-> "none", due |-> TRUE, owner |-> "none", token |-> 0]]
  /\ state = [w \in Workers |-> "up"]
  /\ listening = [w \in Workers |-> TRUE]
  /\ batch = [w \in Workers |-> [x \in Slots |-> Idle]]
  /\ again = [w \in Workers |-> FALSE]
  /\ drain = [w \in Workers |-> [b \in Bills |-> NoDrain]]
  /\ stray = [w \in Workers |-> {}]
  /\ faults = 0

Alive(w) == state[w] # "gone"
Fault(kind) == kind \in Faults /\ faults < MaxFaults /\ faults' = faults + 1

-----------------------------------------------------------------------------
(* Bills and notifications.                                                *)

(* The signal commits, then everyone who listens is told, or nobody is.    *)
Commit(b) ==
  /\ bill[b].st = "none"
  /\ bill' = [bill EXCEPT ![b].st = "pending"]
  /\ \/ /\ drain' = [w \in Workers |-> IF listening[w]
              THEN [drain[w] EXCEPT ![b] = [NoDrain EXCEPT !.pc = "count", !.left = Guard]]
              ELSE drain[w]]
        /\ UNCHANGED faults
     \/ Fault("lost") /\ UNCHANGED drain
  /\ UNCHANGED <<state, listening, batch, again, stray>>

Due(b) ==
  /\ bill[b].st = "retry" /\ ~bill[b].due
  /\ bill' = [bill EXCEPT ![b].due = TRUE]
  /\ UNCHANGED <<state, listening, batch, again, drain, stray, faults>>

Returned(b) == [bill[b] EXCEPT !.st = "retry", !.due = TRUE, !.owner = "none"]

(* requeueExpiredClaims: the owner is gone, its batch has thrown and       *)
(* renews no more, or the renewals failed.                                 *)
Renewed(b) ==
  \E w \in Workers, x \in Slots : <<b, bill[b].token>> \in batch[w][x].claims
Expire(b) ==
  /\ bill[b].st = "processing" /\ \E w \in Workers : state[w] = "up"
  /\ IF Renewed(b) THEN Fault("expire") ELSE UNCHANGED faults
  /\ bill' = [bill EXCEPT ![b] = Returned(b)]
  /\ UNCHANGED <<state, listening, batch, again, drain, stray>>

-----------------------------------------------------------------------------
(* A batch, by the sweep or by the coalescing runner.                      *)

Sweep(w, x) ==
  /\ state[w] = "up" /\ x \in Sweeps /\ batch[w][x].pc = "idle"
  /\ batch' = [batch EXCEPT ![w][x] = [Idle EXCEPT !.pc = "claim"]]
  /\ UNCHANGED <<bill, state, listening, again, drain, stray, faults>>

Claimable == {b \in Bills : bill[b].st = "pending" \/ (bill[b].st = "retry" /\ bill[b].due)}

(* The oldest first; those that never failed before those that did.        *)
Chosen(S) ==
  /\ S \subseteq Claimable /\ Cardinality(S) = Min({Batch, Cardinality(Claimable)})
  /\ (\E b \in S : bill[b].st = "retry") =>
        \A b \in Claimable : bill[b].st = "pending" => b \in S

(* What follows a batch: the runner runs once more if it was asked to, and *)
(* the drain that waits goes on.                                           *)
Rounds(w, x) ==
  drain' = [drain EXCEPT ![w] = [b \in Bills |->
    IF x = "wake" /\ @[b].pc = "wait"
    THEN [@[b] EXCEPT !.pc = "after", !.full = batch[w][x].got = Batch] ELSE @[b]]]

EndBatch(w, x) ==
  LET more == x = "wake" /\ again[w] IN
  /\ Rounds(w, x)
  /\ batch' = [batch EXCEPT ![w][x] = [Idle EXCEPT !.pc = IF more THEN "claim" ELSE "idle"]]
  /\ again' = [again EXCEPT ![w] = @ /\ ~more]

NextToken(b) == bill[b].token + 1

Claim(w, x) ==
  /\ Alive(w) /\ batch[w][x].pc = "claim"
  /\ \E S \in SUBSET Bills : Chosen(S) /\
       IF S = {} THEN EndBatch(w, x) /\ UNCHANGED bill
       ELSE /\ bill' = [b \in Bills |-> IF b \in S
                 THEN [st |-> "processing", due |-> TRUE, owner |-> w, token |-> NextToken(b)]
                 ELSE bill[b]]
            /\ batch' = [batch EXCEPT ![w][x] =
                 [pc |-> "work", claims |-> {<<b, NextToken(b)>> : b \in S},
                  got |-> Cardinality(S)]]
            /\ UNCHANGED <<again, drain>>
  /\ UNCHANGED <<state, listening, stray, faults>>

(* processClaim: settled, or to be retried, unless the claim was lost.     *)
Outcome(c) ==
  LET b == c[1]
      kept == bill[b].st = "processing" /\ bill[b].token = c[2]
  IN  \/ bill' = [bill EXCEPT ![b] = IF kept THEN [@ EXCEPT !.st = "settled"] ELSE @]
         /\ UNCHANGED faults
      \/ kept /\ bill' = [bill EXCEPT ![b] = [Returned(b) EXCEPT !.due = FALSE]] /\ Fault("fail")

Process(w, x, c) ==
  /\ Alive(w) /\ c \in batch[w][x].claims /\ Outcome(c)
  /\ batch' = [batch EXCEPT ![w][x].claims = @ \ {c}]
  /\ UNCHANGED <<state, listening, again, drain, stray>>

ProcessStray(w, c) ==
  /\ Alive(w) /\ c \in stray[w] /\ Outcome(c)
  /\ stray' = [stray EXCEPT ![w] = @ \ {c}]
  /\ UNCHANGED <<state, listening, batch, again, drain>>

BatchEnds(w, x) ==
  /\ batch[w][x].pc = "work" /\ batch[w][x].claims = {} /\ EndBatch(w, x)
  /\ UNCHANGED <<bill, state, listening, stray, faults>>

-----------------------------------------------------------------------------
(* The drain of a notification.                                            *)

(* pendingCount counts what waits for its time as well.                    *)
Waiting == Cardinality({b \in Bills : bill[b].st \in {"pending", "retry"}})

Count(w, b) ==
  /\ drain[w][b].pc = "count"
  /\ drain' = [drain EXCEPT ![w][b] =
       IF Waiting = 0 THEN NoDrain ELSE [@ EXCEPT !.pc = "run", !.n = Waiting]]
  /\ UNCHANGED <<bill, state, listening, batch, again, stray, faults>>

(* coalescedRun.                                                           *)
Run(w, b) ==
  /\ drain[w][b].pc = "run"
  /\ IF batch[w]["wake"].pc = "idle"
     THEN /\ batch' = [batch EXCEPT ![w]["wake"] = [Idle EXCEPT !.pc = "claim"]]
          /\ drain' = [drain EXCEPT ![w][b].pc = "wait"]
          /\ UNCHANGED again
     ELSE /\ again' = [again EXCEPT ![w] = TRUE]
          /\ drain' = [drain EXCEPT ![w][b].pc = "after"]
          /\ UNCHANGED batch
  /\ UNCHANGED <<bill, state, listening, stray, faults>>

After(w, b) ==
  /\ drain[w][b].pc = "after"
  /\ drain' = [drain EXCEPT ![w][b] =
       IF @.n < Batch \/ @.left = 1 THEN NoDrain
       ELSE [NoDrain EXCEPT !.pc = "count", !.left = drain[w][b].left - 1]]
  /\ UNCHANGED <<bill, state, listening, batch, again, stray, faults>>

-----------------------------------------------------------------------------
(* The connection, errors of the database, and the end of the process.     *)

Disconnect(w) ==
  /\ Alive(w) /\ listening[w] /\ Fault("disconnect")
  /\ listening' = [listening EXCEPT ![w] = FALSE]
  /\ UNCHANGED <<bill, state, batch, again, drain, stray>>

Reconnect(w) ==
  /\ state[w] \in {"up", "stopping", "returned"} /\ ~listening[w]
  /\ listening' = [listening EXCEPT ![w] = TRUE]
  /\ UNCHANGED <<bill, state, batch, again, drain, stray, faults>>

Gone(w) ==
  /\ state' = [state EXCEPT ![w] = "gone"]
  /\ listening' = [listening EXCEPT ![w] = FALSE]
  /\ batch' = [batch EXCEPT ![w] = [x \in Slots |-> Idle]]
  /\ again' = [again EXCEPT ![w] = FALSE]
  /\ drain' = [drain EXCEPT ![w] = [b \in Bills |-> NoDrain]]
  /\ stray' = [stray EXCEPT ![w] = {}]

(* The loop of a sweep logs an error; the other claims of the batch are    *)
(* still worked on, and nobody renews them.                                *)
SweepThrows(w, x) ==
  /\ x \in Sweeps /\ batch[w][x].pc # "idle" /\ Fault("db")
  /\ stray' = [stray EXCEPT ![w] = @ \cup batch[w][x].claims]
  /\ batch' = [batch EXCEPT ![w][x] = Idle]
  /\ UNCHANGED <<bill, state, listening, again, drain>>

(* Nobody catches what a drain or its batch throws: the process ends.      *)
WakeThrows(w) ==
  /\ Fault("db")
  /\ batch[w]["wake"].pc # "idle" \/ \E b \in Bills : drain[w][b].pc = "count"
  /\ Gone(w) /\ UNCHANGED bill

Killed(w) == Alive(w) /\ Fault("kill") /\ Gone(w) /\ UNCHANGED bill

Start(w) ==
  /\ state[w] = "gone" /\ state' = [state EXCEPT ![w] = "up"]
  /\ UNCHANGED <<bill, listening, batch, again, drain, stray, faults>>

-----------------------------------------------------------------------------
(* stop(): the timers are cleared; the batches of the sweeps are waited    *)
(* for, or the grace runs out; the claims are returned; the listener is    *)
(* closed; the process exits.                                              *)

Stop(w) ==
  /\ state[w] = "up" /\ Fault("stop")
  /\ state' = [state EXCEPT ![w] = "stopping"]
  /\ UNCHANGED <<bill, listening, batch, again, drain, stray>>

Waited(w) == TRUE   \* the batches have ended, or the grace has

ReturnClaims(w) ==
  /\ state[w] = "stopping" /\ Waited(w)
  /\ \/ /\ bill' = [b \in Bills |-> IF bill[b].st = "processing" /\ bill[b].owner = w
                                    THEN Returned(b) ELSE bill[b]]
        /\ UNCHANGED faults
     \/ Fault("db") /\ UNCHANGED bill
  /\ state' = [state EXCEPT ![w] = "returned"]
  /\ UNCHANGED <<listening, batch, again, drain, stray>>

Close(w) ==
  /\ state[w] = "returned"
  /\ state' = [state EXCEPT ![w] = "closed"]
  /\ listening' = [listening EXCEPT ![w] = FALSE]
  /\ UNCHANGED <<bill, batch, again, drain, stray, faults>>

Exit(w) == state[w] = "closed" /\ Gone(w) /\ UNCHANGED <<bill, faults>>

-----------------------------------------------------------------------------
Next ==
  \/ \E b \in Bills : Commit(b) \/ Due(b) \/ Expire(b)
  \/ \E w \in Workers :
       \/ \E x \in Slots :
            \/ Sweep(w, x) \/ Claim(w, x) \/ BatchEnds(w, x) \/ SweepThrows(w, x)
            \/ \E c \in batch[w][x].claims : Process(w, x, c)
       \/ \E c \in stray[w] : ProcessStray(w, c)
       \/ \E b \in Bills : Count(w, b) \/ Run(w, b) \/ After(w, b)
       \/ Disconnect(w) \/ Reconnect(w) \/ WakeThrows(w) \/ Killed(w) \/ Start(w)
       \/ Stop(w) \/ ReturnClaims(w) \/ Close(w) \/ Exit(w)

Spec == Init /\ [][Next]_vars

(* Timers fire, queries answer, the process is started again (compose);    *)
(* connections need not come back, and no new notification comes.          *)
Fairness ==
  /\ \A b \in Bills : WF_vars(Due(b)) /\ WF_vars(Expire(b))
  /\ \A w \in Workers :
       /\ \A x \in Slots :
            /\ WF_vars(Sweep(w, x)) /\ WF_vars(Claim(w, x)) /\ WF_vars(BatchEnds(w, x))
            /\ WF_vars(\E c \in batch[w][x].claims : Process(w, x, c))
       /\ \A b \in Bills :
            WF_vars(Count(w, b)) /\ WF_vars(Run(w, b)) /\ WF_vars(After(w, b))
       /\ WF_vars(Start(w)) /\ WF_vars(ReturnClaims(w)) /\ WF_vars(Close(w))
       /\ WF_vars(Exit(w))

-----------------------------------------------------------------------------
(* Properties.                                                             *)

(* Every variable keeps its type, and only a process that lives has work.  *)
TypeOK ==
  /\ \A b \in Bills :
       /\ bill[b].st \in {"none", "pending", "processing", "retry", "settled"}
       /\ bill[b].st = "processing" => bill[b].owner \in Workers
  /\ \A w \in Workers :
       /\ state[w] \in {"up", "stopping", "returned", "closed", "gone"}
       /\ listening[w] => state[w] \in {"up", "stopping", "returned"}
       /\ \A x \in Slots : batch[w][x].claims # {} => Alive(w) /\ batch[w][x].pc = "work"
       /\ \A b \in Bills : drain[w][b].pc # "off" => Alive(w) /\ drain[w][b].left \in 1 .. Guard
  /\ faults \in 0 .. MaxFaults

(* The runner remembers a wake-up only while the batch runs that will see  *)
(* to it: otherwise every later one would wait for a batch there is not.   *)
AgainHasBatch == \A w \in Workers : again[w] => batch[w]["wake"].pc # "idle"

(* One claim is worked on by one batch: a bill is never in two batches     *)
(* with the same token, whatever was returned, expired or thrown.          *)
OneBatchPerClaim ==
  \A w, v \in Workers, x, y \in Slots :
    <<w, x>> # <<v, y>> => batch[w][x].claims \cap batch[v][y].claims = {}

(* What is pending is settled, though notifications are lost, processes    *)
(* die, and claims expire: the sweep makes up for it.                      *)
EverySettled == \A b \in Bills : bill[b].st = "pending" ~> bill[b].st = "settled"

(* wakeup.ts: while the database is away the sweep goes on.                *)
OutageSurvived == \A w \in Workers : Alive(w)

=============================================================================
