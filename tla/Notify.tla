-------------------------------- MODULE Notify --------------------------------
(***************************************************************************)
(* The outbox of alerts: who writes an event, in the transaction of the    *)
(* fact it tells of or after it, and the dispatch by several workers, each *)
(* claiming one event at a time under a lease that nobody renews,          *)
(* delivering it to all channels at once, recording those that accepted    *)
(* it, and closing the claim.  A claim whose lease is over is worth        *)
(* nothing, but what it delivers is delivered.                             *)
(***************************************************************************)
EXTENDS Integers, FiniteSets

CONSTANTS
  Events, InTransaction,   (* those that commit with their fact             *)
  Channels, Wants,         (* [Events -> the channels that asked for them]  *)
  Workers,
  MaxAttempts,             (* 3                                             *)
  MaxFaults                (* bound: leases that run out, lost answers,     *)
                           (* refusals, and processes that die              *)

NotifyAssumption ==
  /\ InTransaction \subseteq Events /\ Wants \in [Events -> SUBSET Channels]
  /\ MaxAttempts \in Nat \ {0} /\ MaxFaults \in Nat /\ IsFiniteSet(Workers)

VARIABLES
  fact,      (* [Events -> no, told, untold]: what happened, and is to tell *)
  row,       (* [Events -> the row of notify_outbox]                        *)
  job,       (* [Workers -> the claim that is worked on]                    *)
  received,  (* [Events -> [Channels -> how often it got there]]            *)
  tries,     (* [Events -> how often a delivery was begun]                  *)
  blame,     (* [Events -> claims and answers that were lost]               *)
  faults

vars == <<fact, row, job, received, tries, blame, faults>>

NoClaim == 0
Idle == [pc |-> "idle", event |-> "none", token |-> 0, open |-> {}, ok |-> {}, bad |-> {}]

Init ==
  /\ fact = [e \in Events |-> "no"]
  /\ row = [e \in Events |-> [st |-> "none", attempts |-> 0, delivered |-> {}, due |-> TRUE,
                              claim |-> NoClaim, live |-> FALSE, last |-> 0]]
  /\ job = [w \in Workers |-> Idle]
  /\ received = [e \in Events |-> [c \in Channels |-> 0]]
  /\ tries = [e \in Events |-> 0] /\ blame = tries
  /\ faults = 0

Fault == faults < MaxFaults /\ faults' = faults + 1
Blamed(e) == Fault /\ blame' = [blame EXCEPT ![e] = @ + 1]

-----------------------------------------------------------------------------
(* The event is written once, whoever writes it again (dedupe_key).        *)

Insert(e) == row' = [row EXCEPT ![e].st = "pending"]

Happen(e) ==
  /\ fact[e] = "no"
  /\ IF e \in InTransaction
     THEN fact' = [fact EXCEPT ![e] = "told"] /\ Insert(e)
     ELSE fact' = [fact EXCEPT ![e] = "untold"] /\ UNCHANGED row
  /\ UNCHANGED <<job, received, tries, blame, faults>>

(* The callback of the settlement inserts afterwards; its error is         *)
(* swallowed, and its process may die first.                               *)
Tell(e) ==
  /\ fact[e] = "untold" /\ fact' = [fact EXCEPT ![e] = "told"]
  /\ \/ Insert(e) /\ UNCHANGED faults
     \/ Fault /\ UNCHANGED row
  /\ UNCHANGED <<job, received, tries, blame>>

-----------------------------------------------------------------------------
(* Claims.                                                                 *)

Unclaimed(e) == row[e].claim = NoClaim   \* mutant: a claim is never taken over
Free(e) == row[e].claim = NoClaim \/ ~row[e].live

Claim(w, e) ==
  /\ job[w] = Idle
  /\ row[e].st = "pending" /\ row[e].attempts < MaxAttempts /\ row[e].due /\ Free(e)
  /\ LET token == row[e].last + 1
         to == Wants[e] \ row[e].delivered
     IN  /\ row' = [row EXCEPT ![e].claim = token, ![e].last = token, ![e].live = TRUE]
         /\ job' = [job EXCEPT ![w] = [Idle EXCEPT !.event = e, !.token = token, !.open = to,
                      !.pc = IF to = {} THEN "complete" ELSE "deliver"]]
         /\ tries' = [tries EXCEPT ![e] = IF to = {} THEN @ ELSE @ + 1]
  /\ UNCHANGED <<fact, received, blame, faults>>

LeaseEnds(e) ==
  /\ row[e].live
  /\ \/ \E w \in Workers : job[w].event = e /\ job[w].token = row[e].claim /\ Blamed(e)
     \/ /\ \A w \in Workers : job[w].event = e => job[w].token # row[e].claim
        /\ UNCHANGED <<blame, faults>>
  /\ row' = [row EXCEPT ![e].live = FALSE]
  /\ UNCHANGED <<fact, job, received, tries>>

AnyClaim(w) == row[job[w].event].st = "pending"   \* mutant: without the fence
Holds(w) ==
  LET r == row[job[w].event] IN r.st = "pending" /\ r.claim = job[w].token /\ r.live

-----------------------------------------------------------------------------
(* The deliveries of a claim, all at once: it arrives and is acknowledged, *)
(* it does not arrive, or it arrives and the answer is lost.               *)
Deliver(w, c) ==
  LET e == job[w].event IN
  /\ job[w].pc = "deliver" /\ c \in job[w].open
  /\ \/ /\ received' = [received EXCEPT ![e][c] = @ + 1]
        /\ job' = [job EXCEPT ![w].open = @ \ {c}, ![w].ok = @ \cup {c}]
        /\ UNCHANGED <<blame, faults>>
     \/ /\ job' = [job EXCEPT ![w].open = @ \ {c}, ![w].bad = @ \cup {c}]
        /\ \/ Fault /\ UNCHANGED <<received, blame>>
           \/ Blamed(e) /\ received' = [received EXCEPT ![e][c] = @ + 1]
  /\ UNCHANGED <<fact, row, tries>>

(* recordDeliveredChannels; without success there is nothing to record and *)
(* no question whether the claim holds.                                    *)
Progress(w) == job[w].ok

SomeOk(w) == job[w].ok # {}   \* mutant: one channel is enough
AllOk(w) == job[w].bad = {}

Record(w) ==
  LET e == job[w].event IN
  /\ job[w].pc = "deliver" /\ job[w].open = {}
  /\ IF job[w].ok # {} /\ ~Holds(w)
     THEN job' = [job EXCEPT ![w] = Idle] /\ UNCHANGED row
     ELSE /\ row' = [row EXCEPT ![e].delivered = @ \cup Progress(w)]
          /\ job' = [job EXCEPT ![w].pc = IF AllOk(w) THEN "complete" ELSE "fail"]
  /\ UNCHANGED <<fact, received, tries, blame, faults>>

Complete(w) ==
  LET e == job[w].event IN
  /\ job[w].pc = "complete"
  /\ row' = IF Holds(w) THEN [row EXCEPT ![e].st = "done", ![e].attempts = @ + 1,
                                         ![e].claim = NoClaim, ![e].live = FALSE]
            ELSE row
  /\ job' = [job EXCEPT ![w] = Idle]
  /\ UNCHANGED <<fact, received, tries, blame, faults>>

GiveUp(n) == n + 1 >= MaxAttempts
FailClaim(w) ==
  LET e == job[w].event IN
  /\ job[w].pc = "fail"
  /\ row' = IF Holds(w) THEN [row EXCEPT ![e].st = IF GiveUp(row[e].attempts) THEN "done" ELSE @,
                                         ![e].attempts = @ + 1, ![e].due = GiveUp(row[e].attempts),
                                         ![e].claim = NoClaim, ![e].live = FALSE]
            ELSE row
  /\ job' = [job EXCEPT ![w] = Idle]
  /\ UNCHANGED <<fact, received, tries, blame, faults>>

Due(e) ==
  /\ row[e].st = "pending" /\ ~row[e].due
  /\ row' = [row EXCEPT ![e].due = TRUE]
  /\ UNCHANGED <<fact, job, received, tries, blame, faults>>

(* The process dies, or a transaction of the loop throws: the claim stays. *)
Die(w) ==
  /\ job[w] # Idle /\ Blamed(job[w].event)
  /\ job' = [job EXCEPT ![w] = Idle]
  /\ UNCHANGED <<fact, row, received, tries>>

Next ==
  \/ \E e \in Events : Happen(e) \/ Tell(e) \/ LeaseEnds(e) \/ Due(e)
  \/ \E w \in Workers :
       \/ \E e \in Events : Claim(w, e)
       \/ \E c \in Channels : Deliver(w, c)
       \/ Record(w) \/ Complete(w) \/ FailClaim(w) \/ Die(w)

Spec == Init /\ [][Next]_vars

(* The loop comes round, deliveries time out, leases and backoffs end.     *)
Fairness ==
  /\ \A e \in Events :
       /\ WF_vars(Tell(e)) /\ WF_vars(LeaseEnds(e)) /\ WF_vars(Due(e))
       /\ WF_vars(\E w \in Workers : Claim(w, e))
  /\ \A w \in Workers :
       /\ \A c \in Channels : WF_vars(Deliver(w, c))
       /\ WF_vars(Record(w)) /\ WF_vars(Complete(w)) /\ WF_vars(FailClaim(w))

-----------------------------------------------------------------------------
(* Properties.                                                             *)

(* Every variable keeps its type; the columns of a claim are filled only   *)
(* while the event is pending (notify_outbox_claim_ck), and an event that  *)
(* is pending has attempts left.                                           *)
TypeOK ==
  /\ \A e \in Events :
       /\ row[e].st \in {"none", "pending", "done"} /\ row[e].delivered \subseteq Wants[e]
       /\ row[e].claim # NoClaim => row[e].st = "pending"
       /\ row[e].attempts \in 0 .. MaxAttempts
       /\ row[e].st = "pending" => row[e].attempts < MaxAttempts
       /\ row[e].st = "none" => fact[e] # "told" \/ e \notin InTransaction
  /\ \A w \in Workers : job[w].pc \in {"idle", "deliver", "complete", "fail"}
  /\ faults \in 0 .. MaxFaults

(* A channel gets an event again only for a claim or an answer that was    *)
(* lost: what others refused is no reason.                                 *)
ResentOnlyAfterLoss ==
  \A e \in Events, c \in Channels : received[e][c] <= 1 + blame[e]

(* An event is closed when all who want it have got it, or after the last  *)
(* attempt, whoever closes it and whatever claims came in between.         *)
ClosedIsDelivered ==
  \A e \in Events : row[e].st = "done" =>
    \/ row[e].attempts = MaxAttempts
    \/ \A c \in Wants[e] : received[e][c] > 0

(* What one worker has recorded as delivered, another cannot close as      *)
(* failed: the last worker to claim an event is the one to close it.       *)
LastClaimCounts ==
  \A e \in Events, w \in Workers :
    job[w].event = e /\ job[w].pc \in {"complete", "fail"} /\ job'[w] = Idle
      /\ row'[e].attempts # row[e].attempts => job[w].token = row[e].last

(* Every event that was written is closed, though workers die and leases   *)
(* run out.                                                                *)
EveryEventClosed == \A e \in Events : row[e].st = "pending" ~> row[e].st = "done"

=============================================================================
