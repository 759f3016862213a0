----------------------------- MODULE MCLiveness -----------------------------
(***************************************************************************)
(* What must happen in the end, for TLC: the components whose work is      *)
(* bound to finish, each under the fairness its module assumes.  They      *)
(* share no state, so a behaviour is about one of them: part says which    *)
(* and never changes, and the others stay as they begin.  Variables of one *)
(* name have others here.                                                  *)
(***************************************************************************)
EXTENDS Integers, TLC

CONSTANTS Parts, none

VARIABLES part,
  now, tasks, bills, submits, upstream, rounds,  (* Generation *)
  pc, at, answer, tokens, started, timer, tries, bill, lost,  (* Pipeline *)
  store, cred, calls, counted, probes, last, revived, races,  (* Breaker *)
  order, making, session, credits, note, failed,  (* Payments *)
  fact, event, job, received, sent, blame, deaths,  (* Notify *)
  pending, state, listening, batch, again, drain, stray, outages  (* Wakeup *)

vars ==
  <<part, now, tasks, bills, submits, upstream, rounds, pc, at, answer, tokens, started,
    timer, tries, bill, lost, store, cred, calls, counted, probes, last, revived, races, order,
    making, session, credits, note, failed, fact, event, job, received, sent, blame, deaths,
    pending, state, listening, batch, again, drain, stray, outages>>
-----------------------------------------------------------------------------
(* A task of a polled provider and two rounds of workers.                  *)
Tasks ==
  INSTANCE Generation WITH Tasks <- {"t"}, Polled <- {"t"}, Rounds <- {"w1", "w2"}, Batch <- 1,
    TTL <- 2, Grace <- 1, MinLease <- 1, MaxTime <- 4, NoReceipt <- none,
    NoTask <- none

(* A streamed call over two models and two channels.                       *)
Call ==
  INSTANCE Pipeline WITH Route <- <<<<"a", "b">>, <<"b">>>>, Stream <- TRUE, Lease <- 3,
    Interval <- 1, MaxRenewals <- 3, Attempts <- 3, MaxFaults <- 2, NoChannel <- none,
    faults <- lost

(* Two calls of a channel that the first failure opens.                    *)
Channel ==
  INSTANCE Breaker WITH Calls <- {"c1", "c2"}, Outcomes <- {"ok", "trip"},
    Threshold <- 1, Window <- 1, Cooldown <- 1, DeadThreshold <- 2, DeadWindow <- 1,
    MaxAttempts <- 1, CasRetries <- 1, MaxVersion <- 2, MaxFaults <- 0, Deadline <- 1,
    Delay <- 99, faults <- races

(* Two orders, of which one is named by its session, two notifications.    *)
Order ==
  INSTANCE Payments WITH Orders <- {"o1", "o2"}, Notes <- {"n1", "n2"}, Named <- {"o1"},
    MaxFaults <- 2, row <- order, faults <- failed

(* Two events, one written with its change, and two workers.               *)
Outbox ==
  INSTANCE Notify WITH Events <- {"dead", "low"}, InTransaction <- {"low"},
    Channels <- {"mail", "hook"}, Workers <- {"w1", "w2"}, MaxAttempts <- 2, MaxFaults <- 2,
    Wants <- [e \in {"dead", "low"} |-> IF e = "dead" THEN {"mail", "hook"} ELSE {"mail"}],
    row <- event, tries <- sent, faults <- deaths

(* Two bills and one worker, whatever goes wrong.                          *)
Worker ==
  INSTANCE Wakeup WITH Bills <- {"b1", "b2"}, Workers <- {"w"}, Batch <- 1, Guard <- 1,
    Sweeps <- {"s"}, MaxFaults <- 1,
    Faults <- {"lost", "fail", "expire", "disconnect", "db", "kill", "stop"},
    bill <- pending, faults <- outages

ASSUME /\ Tasks!GenerationAssumption /\ Call!PipelineAssumption
       /\ Channel!BreakerAssumption /\ Order!PaymentsAssumption /\ Outbox!NotifyAssumption
       /\ Worker!WakeupAssumption
-----------------------------------------------------------------------------
Kept ==
  /\ part # "generation" => UNCHANGED <<now, tasks, bills, submits, upstream, rounds>>
  /\ part # "pipeline" => UNCHANGED <<pc, at, answer, tokens, started, timer, tries, bill, lost>>
  /\ part # "breaker" => UNCHANGED <<store, cred, calls, counted, probes, last, revived, races>>
  /\ part # "payments" => UNCHANGED <<order, making, session, credits, note, failed>>
  /\ part # "notify" => UNCHANGED <<fact, event, job, received, sent, blame, deaths>>
  /\ part # "wakeup" => UNCHANGED <<pending, state, listening, batch, again, drain, stray, outages>>

Init ==
  /\ part \in Parts
  /\ Tasks!Init /\ Call!Init /\ Channel!Init /\ Order!Init /\ Outbox!Init /\ Worker!Init

Next ==
  /\ \/ part = "generation" /\ Tasks!Next
     \/ part = "pipeline" /\ Call!Next
     \/ part = "breaker" /\ Channel!Next
     \/ part = "payments" /\ Order!Next
     \/ part = "notify" /\ Outbox!Next
     \/ part = "wakeup" /\ Worker!Next
  /\ UNCHANGED part /\ Kept

(* The fairness of the component a behaviour is about, of those that serve *)
(* requests and of those that work on what was handed over.                *)
RequestsSpec ==
  /\ Init /\ [][Next]_vars
  /\ \/ part = "generation" /\ Tasks!Fairness
     \/ part = "pipeline" /\ Call!Fairness
     \/ part = "breaker" /\ Channel!Fairness
WorkSpec ==
  /\ Init /\ [][Next]_vars
  /\ \/ part = "payments" /\ Order!Fairness
     \/ part = "notify" /\ Outbox!Fairness
     \/ part = "wakeup" /\ Worker!Fairness
-----------------------------------------------------------------------------
(* Who waits for an answer gets it, and what was held for a request does   *)
(* not stay held: tasks and their bills, the bill of a call whose gateway  *)
(* died, a channel that was shut out.                                      *)
RequestsEnd ==
  /\ part = "generation" => Tasks!TasksEnd
  /\ part = "pipeline" => Call!BillEnds
  /\ part = "breaker" => Channel!ChannelReturns

(* What was handed over is worked off, though workers die and messages are *)
(* lost: a paid order is credited, an event is closed, a pending bill is   *)
(* settled.                                                                *)
WorkIsDone ==
  /\ part = "payments" => Order!PaidIsCredited
  /\ part = "notify" => Outbox!EveryEventClosed
  /\ part = "wakeup" => Worker!EverySettled
=============================================================================
