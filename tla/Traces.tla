------------------------------- MODULE Traces -------------------------------
(***************************************************************************)
(* Spans on their way to the database.  A receiver keeps them in a bounded *)
(* queue and writes them in batches, one at a time: on a timer, when a     *)
(* batch is full, and when it is told to stop.  The table has a partition  *)
(* a day: the receiver makes those it needs and remembers them, a worker   *)
(* makes those of the next days and removes those that are too old.        *)
(***************************************************************************)
EXTENDS Integers, Sequences

CONSTANTS
  Max, BatchMax,          (* the queue's limit; spans a write takes         *)
  Retention, Lookahead,   (* days that are kept; days made in advance       *)
  MaxPush,                (* spans a request brings                         *)
  MaxSpans, LastDay,      (* bounds: spans received, the last day           *)
  MaxFaults               (* bound: writes that fail, workers lost          *)

TracesAssumption ==
  /\ Max \in Nat \ {0} /\ BatchMax \in 1..Max /\ MaxPush \in Nat \ {0}
  /\ {Retention, Lookahead, MaxSpans, LastDay, MaxFaults} \subseteq Nat

Days == 0..(LastDay + Lookahead)
Ids == 1..MaxSpans

VARIABLES
  today,
  queue, got,   (* the spans that wait, how many were received              *)
  fate,         (* [Ids -> what became of it], the counters of the batcher  *)
  flush,        (* the write under way: its spans, the days still to ensure *)
  life,         (* the receiver: up, closing, ending or gone                *)
  memo,         (* days whose partition this process has ensured            *)
  part,         (* [Days -> none, attached to the table, detached]          *)
  round,        (* the worker's maintenance: its cutoff and what is left    *)
  faults

receiver == <<queue, got, fate, flush, life, memo>>
vars == <<today, receiver, part, round, faults>>

NoFlush == [st |-> "idle", batch |-> << >>, need |-> {}, open |-> TRUE]
NoRound == [st |-> "idle", cutoff |-> 0, make |-> {}, drop |-> {}, at |-> 0]
Running == [st |-> "up", before |-> 0, seen |-> 0]

Init ==
  /\ today = 0 /\ queue = << >> /\ got = 0 /\ fate = [i \in Ids |-> "new"]
  /\ flush = NoFlush /\ life = Running /\ memo = {}
  /\ part = [d \in Days |-> "none"] /\ round = NoRound /\ faults = 0

DaysOf(batch) == {batch[i].day : i \in DOMAIN batch}
IdsOf(batch) == {batch[i].id : i \in DOMAIN batch}
Least(a, b) == IF a < b THEN a ELSE b
Mark(f, ids, what) == [i \in Ids |-> IF i \in ids THEN what ELSE f[i]]

-----------------------------------------------------------------------------
(* The receiver.  flush takes a batch off the queue and asks the database  *)
(* in the same turn; it does nothing while another one is under way.       *)

TakesFrom(q) == SubSeq(q, 1, Least(BatchMax, Len(q)))
Rest(q) == SubSeq(q, Len(TakesFrom(q)) + 1, Len(q))
Begun(q) ==
  LET batch == TakesFrom(q)
      need == DaysOf(batch) \ memo IN
  [st |-> IF need = {} THEN "insert" ELSE "ensure", batch |-> batch,
   need |-> need, open |-> life.st # "ending"]
May(q, f) == f.st = "idle" /\ q # << >>

TooMany(q) == Len(q) > Max
Newest(q, n) == SubSeq(q, 1, Max)   \* mutant: what comes last is dropped
Oldest(q, n) == SubSeq(q, n + 1, Len(q))

(* push: a full queue loses its oldest; a full batch is written.           *)
Push(rows) ==
  LET all == queue \o rows
      over == Len(all) - Max
      q == IF TooMany(all) THEN Oldest(all, over) ELSE all
      goes == Len(q) >= BatchMax /\ May(q, flush) IN
  /\ life.st # "gone" /\ got + Len(rows) <= MaxSpans
  /\ got' = got + Len(rows)
  /\ fate' = Mark(Mark(fate, IdsOf(all), "overflow"), IdsOf(q), "waits")
  /\ queue' = (IF goes THEN Rest(q) ELSE q)
  /\ flush' = (IF goes THEN Begun(q) ELSE flush)
  /\ UNCHANGED <<today, life, memo, part, round, faults>>

Receive ==
  \E n \in 1..MaxPush : \E ds \in [1..n -> 0..today] :
    Push([i \in 1..n |-> [id |-> got + i, day |-> ds[i]]])

Timer ==
  /\ life.st = "up" /\ May(queue, flush)
  /\ flush' = Begun(queue) /\ queue' = Rest(queue)
  /\ UNCHANGED <<today, got, fate, life, memo, part, round, faults>>

(* ensureDailyPartition: "create if not exists" finds a table that was     *)
(* detached, and leaves it so.                                             *)
Ensure ==
  /\ flush.st = "ensure" /\ flush.open
  /\ \E d \in flush.need :
       LET left == flush.need \ {d} IN
       /\ part' = [part EXCEPT ![d] = IF @ = "none" THEN "attached" ELSE @]
       /\ memo' = memo \cup {d}
       /\ flush' = [flush EXCEPT !.need = left, !.open = life.st # "ending",
                                 !.st = IF left = {} THEN "insert" ELSE "ensure"]
  /\ UNCHANGED <<today, queue, got, fate, life, round, faults>>

Released(f) == NoFlush

(* The write is over.  A queue that is full again starts the next one; who *)
(* closes the batcher then looks whether the queue is any shorter.         *)
Ended(what) ==
  LET idle == IF what = "failed" THEN Released(flush) ELSE NoFlush
      more == Len(queue) >= BatchMax /\ May(queue, idle)
      q == IF more THEN Rest(queue) ELSE queue
      f == IF more THEN Begun(queue) ELSE idle
      again == life.st = "closing" /\ May(q, f) /\ Len(q) # life.before IN
  /\ fate' = Mark(fate, IdsOf(flush.batch), what)
  /\ queue' = (IF again THEN Rest(q) ELSE q)
  /\ flush' = (IF again THEN Begun(q) ELSE f)
  /\ life' = (IF again THEN [life EXCEPT !.before = Len(q)]
              ELSE IF life.st = "closing" THEN [life EXCEPT !.st = "closed"] ELSE life)
  /\ UNCHANGED <<today, got, memo, part, round>>

Insert ==
  /\ flush.st = "insert" /\ flush.open
  /\ \A d \in DaysOf(flush.batch) : part[d] = "attached"
  /\ Ended("written") /\ UNCHANGED faults

(* No partition for a row, or a pool that is closed.                       *)
Refused ==
  /\ flush.st # "idle"
  /\ \/ ~flush.open
     \/ flush.st = "insert" /\ \E d \in DaysOf(flush.batch) : part[d] # "attached"
  /\ Ended("failed") /\ UNCHANGED faults

WriteFails ==
  /\ flush.st # "idle" /\ flush.open /\ faults < MaxFaults /\ faults' = faults + 1
  /\ Ended("failed")

(* shutdown: the timer is cleared and the loop of close begins.            *)
Shutdown ==
  LET goes == May(queue, flush) IN
  /\ life.st = "up"
  /\ life' = [st |-> IF goes THEN "closing" ELSE "closed", before |-> Len(queue), seen |-> got]
  /\ flush' = (IF goes THEN Begun(queue) ELSE flush)
  /\ queue' = (IF goes THEN Rest(queue) ELSE queue)
  /\ UNCHANGED <<today, got, fate, memo, part, round, faults>>

EndPool ==
  /\ life.st = "closed" /\ life' = [life EXCEPT !.st = "ending"]
  /\ UNCHANGED <<today, queue, got, fate, flush, memo, part, round, faults>>

Exit ==
  /\ life.st = "ending" /\ flush.st = "idle"
  /\ life' = [life EXCEPT !.st = "gone"] /\ queue' = << >>
  /\ fate' = Mark(fate, IdsOf(queue), "lost")
  /\ UNCHANGED <<today, got, flush, memo, part, round, faults>>

-----------------------------------------------------------------------------
(* The worker, one at a time under an advisory lock.                       *)

Tick ==
  /\ today < LastDay /\ today' = today + 1
  /\ UNCHANGED <<receiver, part, round, faults>>

StartRound ==
  /\ round.st = "idle"
  /\ round' = [st |-> "make", cutoff |-> today - Retention,
               make |-> today..(today + Lookahead), drop |-> {}, at |-> 0]
  /\ UNCHANGED <<today, receiver, part, faults>>

Expired(cutoff) == {d \in Days : part[d] = "attached" /\ d < cutoff}

(* The partitions of the next days, one statement each; then those that    *)
(* are attached are listed.                                                *)
Make ==
  /\ round.st = "make"
  /\ IF round.make = {}
     THEN round' = [round EXCEPT !.st = "drop", !.drop = Expired(round.cutoff)] /\ UNCHANGED part
     ELSE \E d \in round.make :
            /\ part' = [part EXCEPT ![d] = IF @ = "none" THEN "attached" ELSE @]
            /\ round' = [round EXCEPT !.make = @ \ {d}]
  /\ UNCHANGED <<today, receiver, faults>>

Detach ==
  /\ round.st = "drop"
  /\ \E d \in round.drop :
       /\ part' = [part EXCEPT ![d] = "detached"]
       /\ round' = [round EXCEPT !.st = "detached", !.drop = @ \ {d}, !.at = d]
  /\ UNCHANGED <<today, receiver, faults>>

Drop ==
  /\ round.st = "detached" /\ round' = [round EXCEPT !.st = "drop"]
  /\ part' = [part EXCEPT ![round.at] = "none"]
  /\ UNCHANGED <<today, receiver, faults>>

EndRound ==
  /\ round.st = "drop" /\ round.drop = {} /\ round' = NoRound
  /\ UNCHANGED <<today, receiver, part, faults>>

WorkerDies ==
  /\ round.st # "idle" /\ faults < MaxFaults /\ faults' = faults + 1 /\ round' = NoRound
  /\ UNCHANGED <<today, receiver, part>>

-----------------------------------------------------------------------------
Serve == Ensure \/ Insert \/ Refused
Maintain == Make \/ Detach \/ Drop \/ EndRound

Next ==
  \/ Receive \/ Timer \/ Serve \/ WriteFails \/ Shutdown \/ EndPool \/ Exit
  \/ Tick \/ StartRound \/ Maintain \/ WorkerDies

Spec == Init /\ [][Next]_vars

-----------------------------------------------------------------------------
(* Shapes; and the receiver holds no more than its limit and one batch.    *)
Span == [id : Ids, day : Days]
TypeOK ==
  /\ today \in 0..LastDay /\ got \in 0..MaxSpans /\ faults \in 0..MaxFaults
  /\ queue \in Seq(Span) /\ Len(queue) <= Max
  /\ fate \in [Ids -> {"new", "waits", "written", "overflow", "failed", "lost"}]
  /\ flush.st \in {"idle", "ensure", "insert"} /\ flush.batch \in Seq(Span)
  /\ Len(flush.batch) <= BatchMax /\ flush.need \subseteq Days
  /\ life.st \in {"up", "closing", "closed", "ending", "gone"}
  /\ memo \subseteq Days /\ part \in [Days -> {"none", "attached", "detached"}]
  /\ round.st \in {"idle", "make", "drop", "detached"}

(* What the counters say of every span is true: one that is said to wait   *)
(* is in the queue or in the write under way, in the order of its arrival, *)
(* and what a full queue lost came before all that wait.                   *)
Accounted ==
  /\ IdsOf(flush.batch \o queue) = {i \in Ids : fate[i] = "waits"}
  /\ \A i, j \in DOMAIN (flush.batch \o queue) :
       i < j => (flush.batch \o queue)[i].id < (flush.batch \o queue)[j].id
  /\ \A i \in Ids, j \in IdsOf(queue) : fate[i] = "overflow" => i < j

(* No maintenance takes away a day that is to be kept, however long the    *)
(* round lasts: the limit is that of the day it began.                     *)
RecentDaysStay ==
  \A d \in Days : part[d] = "attached" /\ d >= today - Retention => part'[d] = "attached"

(* batcher.ts: who closes the batcher gives the rest up only when writes   *)
(* fail.  Until then, what had been received is written.                   *)
DrainedOnStop ==
  life.st = "gone" /\ (\A i \in Ids : fate[i] # "failed")
    => \A i \in 1..life.seen : fate[i] \in {"written", "overflow"}

(* partition.ts: maintenance that was interrupted can be repeated: a round *)
(* that is over leaves no table of an expired day behind.                  *)
NothingLeftBehind ==
  round.st = "drop" /\ round.drop = {} => \A d \in Days : part[d] # "detached"
=============================================================================
