------------------------------ MODULE Pipeline ------------------------------
(***************************************************************************)
(* One request in the gateway, from admission to its last signal: runChat  *)
(* with its loop over candidates and channels, attemptStream with the      *)
(* lease it keeps alive, attemptNonStream, and signalSucceededWithRetry.   *)
(* The bill is here as far as the gateway touches it; recovery and the     *)
(* settlement consumer act on it too (module Billing).  A signal may fail  *)
(* before it takes effect, or its answer may be lost.                      *)
(* Time passes in ticks: the lease runs Lease ticks, the timer of a stream *)
(* renews it every Interval ticks.  Which channels are left out because of *)
(* dead credentials or an open breaker is decided elsewhere.               *)
(***************************************************************************)
EXTENDS Integers, Sequences

CONSTANTS
  Route,         (* per candidate model, the channels in their order        *)
  Stream,        (* body.stream                                             *)
  Lease,         (* authorizationTtlMs in ticks                             *)
  Interval,      (* renewIntervalMs: a third of it                          *)
  MaxRenewals,   (* 100 in the code                                         *)
  Attempts,      (* SIGNAL_FINALIZE_ATTEMPTS                                *)
  MaxFaults, NoChannel

PipelineAssumption ==
  /\ Route \in Seq(Seq(STRING)) /\ NoChannel \notin STRING
  /\ Stream \in BOOLEAN
  /\ Lease \in Nat /\ Interval \in Nat \ {0} /\ Interval < Lease
  /\ MaxRenewals \in Nat /\ Attempts \in Nat \ {0} /\ MaxFaults \in Nat

VARIABLES
  pc, at,    (* where the call is: its step; candidate and channel          *)
  answer,    (* what the client got: nothing yet, the product, or an error  *)
  tokens,    (* whether its reservation of tokens per minute is held        *)
  started,   (* leaseStarted                                                *)
  timer,     (* of the stream: alive, renewals sent, ticks to the next, how *)
             (* many in a row did not reach the bill, and what was left of  *)
             (* the lease before those                                      *)
  tries,     (* of the last signal                                          *)
  bill,      (* status, lease, channel with the exposure, receipt's channel *)
  faults

call == <<pc, at, answer, tokens, started, timer, tries>>
vars == <<call, bill, faults>>

Open == {"authorized", "in_flight"}
Accepted == {"settlement_pending", "processing", "settled"}
Errors == {"rejected", "refused", "4xx", "failed", "unsettled", "broken"}

NoTimer == [alive |-> FALSE, sent |-> 0, next |-> Interval, lost |-> 0,
            from |-> 0]

Init ==
  /\ pc = "admit" /\ at = [cand |-> 1, chan |-> 1] /\ answer = "none"
  /\ tokens = FALSE /\ started = FALSE /\ timer = NoTimer /\ tries = 0
  /\ bill = [status |-> "none", lease |-> 0, channel |-> NoChannel,
             charged |-> NoChannel]
  /\ faults = 0

Channel == Route[at.cand][at.chan]
Goto(step) == pc' = step
Answer(a) == answer' = a /\ Goto("over")

Fault == faults < MaxFaults /\ faults' = faults + 1

-----------------------------------------------------------------------------
(* Admission.                                                              *)

(* admitKey: the windows of key and user; what is refused here has nothing *)
(* reserved.                                                               *)
Admit ==
  /\ pc = "admit"
  /\ \/ Goto("quote") /\ tokens' = TRUE /\ UNCHANGED answer
     \/ Answer("rejected") /\ UNCHANGED tokens
  /\ UNCHANGED <<at, started, timer, tries, bill, faults>>

(* buildQuote refuses, or finds no model: the tokens are given back.       *)
Quote ==
  /\ pc = "quote"
  /\ \/ Goto("model") /\ UNCHANGED <<answer, tokens>>
     \/ Answer("refused") /\ tokens' = FALSE
  /\ UNCHANGED <<at, started, timer, tries, bill, faults>>

(* reserveModelDims: refused, the call throws as it is.                    *)
ReserveModel ==
  /\ pc = "model"
  /\ \/ Goto("authorize") /\ UNCHANGED answer
     \/ Answer("rejected")
  /\ UNCHANGED <<at, tokens, started, timer, tries, bill, faults>>

Authorize ==
  /\ pc = "authorize"
  /\ \/ /\ Goto("channel")
        /\ bill' = [bill EXCEPT !.status = "authorized", !.lease = Lease]
        /\ UNCHANGED <<answer, tokens>>
     \/ Answer("refused") /\ tokens' = FALSE /\ UNCHANGED bill
  /\ UNCHANGED <<at, started, timer, tries, faults>>

(* The answer of authorize is lost after it took effect: for this call it  *)
(* is a refusal.                                                           *)
AuthorizeUnanswered ==
  /\ pc = "authorize" /\ Fault
  /\ bill' = [bill EXCEPT !.status = "authorized", !.lease = Lease]
  /\ Answer("refused") /\ tokens' = FALSE
  /\ UNCHANGED <<at, started, timer, tries>>

-----------------------------------------------------------------------------
(* The loop.                                                               *)

NextChannel == at' = [at EXCEPT !.chan = @ + 1]
NextCandidate == at' = [cand |-> at.cand + 1, chan |-> 1]

(* The channel is over its own limit, or out of budget.                    *)
Skip ==
  /\ pc = "channel" /\ at.cand <= Len(Route) /\ at.chan <= Len(Route[at.cand])
  /\ NextChannel
  /\ UNCHANGED <<pc, answer, tokens, started, timer, tries, bill, faults>>

(* The limiter (which fails closed), the routing or a signal throws: the   *)
(* call ends as it is, with nothing given back.                            *)
Break ==
  /\ pc = "channel" /\ Fault
  /\ Answer("broken")
  /\ UNCHANGED <<at, tokens, started, timer, tries, bill>>

EndOfChannels ==
  /\ pc = "channel" /\ at.cand <= Len(Route) /\ at.chan > Len(Route[at.cand])
  /\ NextCandidate
  /\ UNCHANGED <<pc, answer, tokens, started, timer, tries, bill, faults>>

EndOfCandidates ==
  /\ pc = "channel" /\ at.cand > Len(Route)
  /\ Goto("fail") /\ tokens' = FALSE
  /\ UNCHANGED <<at, answer, started, timer, tries, bill, faults>>

(* startChannel: the exposure moves to this channel, and the first time    *)
(* the lease starts.  The bill must still be open: reserveChannel throws   *)
(* otherwise.                                                              *)
Reserve(b) == [b EXCEPT !.channel = Channel]

StartChannel ==
  /\ pc = "channel" /\ at.cand <= Len(Route) /\ at.chan <= Len(Route[at.cand])
  /\ IF bill.status \in Open
       THEN /\ Goto("attempt") /\ started' = TRUE
            /\ bill' = IF started THEN Reserve(bill)
                       ELSE [Reserve(bill) EXCEPT !.status = "in_flight",
                                                  !.lease = Lease]
            /\ UNCHANGED answer
       ELSE Answer("broken") /\ UNCHANGED <<started, bill>>
  /\ UNCHANGED <<at, tokens, timer, tries, faults>>

(* dispatchFailure: another channel may help, or another model, or nothing *)
(* does because it is the client's fault.                                  *)
AttemptFails ==
  /\ pc = "attempt"
  /\ \/ NextChannel /\ Goto("channel") /\ UNCHANGED tokens
     \/ NextCandidate /\ Goto("channel") /\ UNCHANGED tokens
     \/ Goto("passthrough") /\ tokens' = FALSE /\ UNCHANGED at
  /\ UNCHANGED <<answer, started, timer, tries, bill, faults>>

(* passthrough4xx and releaseAndFail signal before they answer; when the   *)
(* signal throws, the answer is another error.                             *)
Released == IF bill.status \in Open
              THEN [bill EXCEPT !.status = "released", !.channel = NoChannel]
              ELSE bill

GiveBack ==
  /\ pc \in {"passthrough", "fail"}
  /\ \/ bill' = Released /\ Answer(IF pc = "fail" THEN "failed" ELSE "4xx")
        /\ UNCHANGED faults
     \/ bill' \in {bill, Released} /\ Answer("broken") /\ Fault
  /\ UNCHANGED <<at, tokens, started, timer, tries>>

-----------------------------------------------------------------------------
(* A stream comes online and the client has it; a timer keeps the lease.   *)
Online ==
  /\ pc = "attempt" /\ Stream
  /\ Goto("streaming") /\ answer' = "product"
  /\ timer' = [NoTimer EXCEPT !.alive = TRUE,
                   !.from = IF bill.status \in Open THEN bill.lease ELSE 0]
  /\ UNCHANGED <<at, tokens, started, tries, bill, faults>>

EndAndStopTimer ==   \* mutant: stops the timer before the last signal
  /\ pc = "streaming"
  /\ Goto("finalize") /\ timer' = [timer EXCEPT !.alive = FALSE]
  /\ UNCHANGED <<at, answer, tokens, started, tries, bill, faults>>

StreamEnds ==
  /\ pc = "streaming"
  /\ Goto("finalize")
  /\ UNCHANGED <<at, answer, tokens, started, timer, tries, bill, faults>>

MayRenew == timer.sent < MaxRenewals

Renew ==
  /\ timer.alive /\ timer.next = 0 /\ MayRenew
  /\ LET sent == [timer EXCEPT !.sent = @ + 1, !.next = Interval] IN
     \/ /\ bill.status = "in_flight"
        /\ bill' = [bill EXCEPT !.lease = Lease]
        /\ timer' = [sent EXCEPT !.lost = 0, !.from = Lease]
        /\ UNCHANGED faults
     \/ bill.status # "in_flight" /\ timer' = sent /\ UNCHANGED <<bill, faults>>
     \/ timer' = [sent EXCEPT !.lost = @ + 1] /\ UNCHANGED bill /\ Fault
  /\ UNCHANGED <<pc, at, answer, tokens, started, tries>>

(* The answer of a request without a stream is complete.                   *)
Complete ==
  /\ pc = "attempt" /\ ~Stream
  /\ Goto("finalize")
  /\ UNCHANGED <<at, answer, tokens, started, timer, tries, bill, faults>>

(* signalSucceededWithRetry, one try: accepted, or answered with what was  *)
(* accepted before; or a conflict or an error, with or without effect.     *)
Charged == IF bill.status \in Open
             THEN [bill EXCEPT !.status = "settlement_pending",
                               !.charged = Channel]
             ELSE bill

Confirmed == \/ bill.status \in Open
             \/ /\ bill.status \in {"settlement_pending", "settled"}
                /\ bill.charged = Channel

Finalized(ok) ==
  IF Stream
    THEN Goto("over") /\ UNCHANGED answer /\ timer' = [timer EXCEPT !.alive = FALSE]
    ELSE Answer(IF ok THEN "product" ELSE "unsettled") /\ UNCHANGED timer

Finalize ==
  /\ pc = "finalize"
  /\ tries' = tries + 1
  /\ \/ Confirmed /\ bill' = Charged /\ Finalized(TRUE) /\ UNCHANGED faults
     \/ /\ \/ ~Confirmed /\ UNCHANGED <<bill, faults>>
           \/ bill' \in {bill, Charged} /\ Fault
        /\ IF tries + 1 = Attempts THEN Finalized(FALSE)
           ELSE UNCHANGED <<pc, answer, timer>>
  /\ UNCHANGED <<at, tokens, started>>

(* The gateway process dies: the lease is all that is left.                *)
Die ==
  /\ pc \notin {"over", "dead"}
  /\ pc' = "dead" /\ timer' = [timer EXCEPT !.alive = FALSE]
  /\ answer' = IF answer = "none" THEN "broken" ELSE answer
  /\ UNCHANGED <<at, tokens, started, tries, bill, faults>>

-----------------------------------------------------------------------------
(* The others.                                                             *)

RecoverAuthorized ==   \* mutant: leaves out what has started
  /\ bill.status = "authorized" /\ bill.lease = 0
  /\ bill' = Released
  /\ UNCHANGED <<call, faults>>

Recover ==
  /\ bill.status \in Open /\ bill.lease = 0
  /\ bill' = Released
  /\ UNCHANGED <<call, faults>>

Settle ==
  /\ \/ bill.status = "settlement_pending"
        /\ bill' = [bill EXCEPT !.status = "processing"]
     \/ bill.status = "processing"
        /\ bill' = [bill EXCEPT !.status = "settled", !.channel = NoChannel]
  /\ UNCHANGED <<call, faults>>

(* The worker takes the tokens out of the reservation when it settles, or  *)
(* they expire.                                                            *)
TokensGo ==
  /\ tokens /\ pc \in {"over", "dead"}
  /\ tokens' = FALSE
  /\ UNCHANGED <<pc, at, answer, started, timer, tries, bill, faults>>

(* A timer that is due fires before more time passes.                      *)
Tick ==
  /\ bill.lease > 0
  /\ ~(timer.alive /\ timer.next = 0 /\ MayRenew)
  /\ bill' = [bill EXCEPT !.lease = @ - 1]
  /\ timer' = IF timer.alive /\ timer.next > 0
                THEN [timer EXCEPT !.next = @ - 1] ELSE timer
  /\ UNCHANGED <<pc, at, answer, tokens, started, tries, faults>>

Attempt == \/ StartChannel \/ Skip \/ Break \/ EndOfChannels \/ EndOfCandidates
           \/ AttemptFails \/ GiveBack \/ Online \/ Complete \/ Finalize

Next == \/ Admit \/ Quote \/ ReserveModel \/ Authorize
        \/ AuthorizeUnanswered \/ Attempt
        \/ StreamEnds \/ Renew \/ Die \/ Recover \/ Settle \/ TokensGo \/ Tick

Spec == Init /\ [][Next]_vars

(* Upstream may stream for ever: nothing is assumed of StreamEnds, and the *)
(* gateway may die, so nothing is assumed of it either, but for its timer. *)
Fairness == WF_vars(Tick) /\ WF_vars(Renew) /\ WF_vars(Recover)

-----------------------------------------------------------------------------
(* Properties.                                                             *)

(* Every variable keeps its type.                                          *)
TypeOK ==
  /\ pc \in {"admit", "quote", "model", "authorize", "channel", "attempt",
             "passthrough", "fail", "streaming", "finalize", "over", "dead"}
  /\ at \in [cand : Nat, chan : Nat]
  /\ answer \in {"none", "product"} \cup Errors
  /\ tokens \in BOOLEAN /\ started \in BOOLEAN
  /\ timer \in [alive : BOOLEAN, sent : 0 .. MaxRenewals, next : 0 .. Interval, lost : Nat,
               from : 0 .. Lease]
  /\ tries \in 0 .. Attempts /\ faults \in 0 .. MaxFaults
  /\ bill \in [status : {"none", "released"} \cup Open \cup Accepted,
               lease : 0 .. Lease, channel : STRING \cup {NoChannel},
               charged : STRING \cup {NoChannel}]

(* A client that got an error of the upstream, or of the channels, has     *)
(* nothing reserved and is not charged; the tokens have been given back.   *)
FailedLeavesNothing ==
  answer \in {"4xx", "failed"} =>
    /\ bill.status = "released" /\ bill.channel = NoChannel
    /\ ~tokens

(* The channel that is charged is the one whose budget holds the exposure, *)
(* after any number of channels and models were tried.                     *)
ChargedWhereReserved ==
  bill.status \in {"settlement_pending", "processing"} =>
    bill.charged = bill.channel

(* A stream keeps its bill until its last signal got through, or was given *)
(* up: however long it is, its retries included.  Except when it came      *)
(* online with no more than an interval of the lease left (the first       *)
(* renewal waits for one), when renewals fail for as long as the lease     *)
(* runs, or when there have been too many.                                 *)
ServedIsCharged ==
  answer = "product" /\ Stream /\ bill.status = "released" =>
    \/ (timer.lost + 1) * Interval >= timer.from
    \/ timer.sent >= MaxRenewals
    \/ pc = "dead" \/ tries = Attempts

(* No bill stays open for ever, even when the stream never ends.           *)
BillEnds == bill.status \in Open ~> bill.status \notin Open

(* attempt-nonstream.ts: what is not delivered is not settled.             *)
UndeliveredIsFree == answer = "unsettled" => bill.status # "settled"

=============================================================================
