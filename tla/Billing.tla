------------------------------- MODULE Billing -------------------------------
(***************************************************************************)
(* The life of one LLM request's money: the eight-state row of             *)
(* billing_requests, the wallet hold and the reservation row behind it,    *)
(* and the channel budget it occupies, as they are moved by                *)
(*   - the gateway and the generation poller (authorize, reserveChannel    *)
(*     and the four signals),                                              *)
(*   - the settlement lanes of the workers (claim, settle, fail),          *)
(*   - the recover loop, a worker shutting down, and an administrator      *)
(*     reviewing dead rows.                                                *)
(* A database transaction is one action, except that what it reads without *)
(* a lock is read in an action of its own, before the transaction commits. *)
(* Time is per row: a lease or a claim is a number of ticks left.          *)
(***************************************************************************)
EXTENDS Integers, FiniteSets, Functions

CONSTANTS
  Requests,      (* billing requests of one user, one currency             *)
  Receipts,      (* usage receipts a caller may report                     *)
  Poison,        (* receipts whose settlement fails whatever is retried    *)
  Channels,      (* upstream channels                                      *)
  Callers,       (* concurrent callers of signal and reserveChannel        *)
  Workers,       (* worker processes (WORKER_OWNER_ID)                     *)
  Lanes,         (* concurrent processClaim executions                     *)
  Owner,         (* the worker each lane runs in                           *)
  Reserve,       (* amount an authorization holds; 0: the free fast path   *)
  Cost,          (* calculatedAmount of a receipt                          *)
  UpstreamCost,  (* upstreamCost of a receipt                              *)
  Exposures,     (* upstream cost estimates reserveChannel is called with  *)
  Deposit,       (* the user's opening balance                             *)
  CreditLimit,   (* the user's credit line                                 *)
  Stock,         (* opening upstream budget of a channel                   *)
  Threshold,     (* upstream_threshold of a channel                        *)
  MaxAttempts,   (* settlement attempts before a row is dead               *)
  LeaseTicks,    (* length of an authorization or stream lease             *)
  ClaimTicks,    (* length of a settlement claim                           *)
  MaxRevision,   (* bound: no voluntary lease renewal from this revision on*)
  MaxFaults,     (* bound: crashes, stalls and shutdowns of workers        *)
  MaxReviews,    (* bound: decisions an administrator takes on dead rows   *)
  Nobody, NoReceipt, NoChannel

ASSUME BillingAssumption ==
  /\ Poison \subseteq Receipts
  /\ Owner \in [Lanes -> Workers]
  /\ Reserve \in [Requests -> Nat]
  /\ Cost \in [Receipts -> Nat]
  /\ UpstreamCost \in [Receipts -> Nat]
  /\ Exposures \subseteq Nat
  /\ Deposit \in Nat /\ CreditLimit \in Nat /\ Stock \in Nat
  /\ Threshold \in Nat
  /\ MaxAttempts \in Nat \ {0}
  /\ LeaseTicks \in Nat \ {0} /\ ClaimTicks \in Nat \ {0}
  /\ MaxRevision \in Nat /\ MaxFaults \in Nat /\ MaxReviews \in Nat
  /\ Nobody \notin Workers
  /\ NoReceipt \notin Receipts
  /\ NoChannel \notin Channels

(* Sums over the requests make sense: however many there are, a behaviour  *)
(* up to any moment has only finitely many.                                *)
ASSUME RequestsAreFinite == IsFiniteSet(Requests)

VARIABLES
  bill,      (* billing_requests, one row per request                       *)
  hold,      (* status of the wallet authorization (billing, requestId)     *)
  resv,      (* status of the billing_reservations row                      *)
  usage,     (* requests with a row in usage_logs                           *)
  paid,      (* what the wallet has posted against the user for a request   *)
  wallet,    (* the user's account: balance and inFlight                    *)
  stock,     (* channels: upstream budget, reserved exposure, enabled       *)
  calls,     (* request.succeeded calls in progress                         *)
  picks,     (* reserveChannel calls in progress                            *)
  jobs,      (* the claim each settlement lane is working on                *)
  desk,      (* the dead row, with its revision, an administrator looks at  *)
  faults, reviews

moneyVars == <<hold, resv, usage, paid, wallet, stock>>
envVars   == <<faults, reviews>>
vars == <<bill, hold, resv, usage, paid, wallet, stock,
          calls, picks, jobs, desk, faults, reviews>>

-----------------------------------------------------------------------------
(* The status vocabulary of billing_requests.                              *)

Open     == {"authorized", "in_flight"}
Queued   == {"settlement_pending", "retry_wait"}
Unsettled == Open \cup Queued \cup {"processing", "dead"}
Terminal == {"settled", "released"}
Statuses == {"none"} \cup Unsettled \cup Terminal

Row == [status     : Statuses,
        revision   : Nat,
        lease      : 0 .. LeaseTicks,          \* ticks to lease_expires_at
        attempts   : Nat,
        backoff    : BOOLEAN,                  \* next_settlement_at lies ahead
        owner      : Workers \cup {Nobody},
        token      : Nat,
        until      : 0 .. ClaimTicks,          \* ticks to claim_until
        receipt    : Receipts \cup {NoReceipt},
        channel    : Channels \cup {NoChannel},
        exposure   : Nat]                      \* channel_reserved_amount

NewRow == [status |-> "none", revision |-> 0,
           lease |-> 0, attempts |-> 0, backoff |-> FALSE,
           owner |-> Nobody, token |-> 0, until |-> 0,
           receipt |-> NoReceipt, channel |-> NoChannel, exposure |-> 0]

IdleCall == [pc |-> "idle"]
IdlePick == [pc |-> "idle"]
IdleJob  == [pc |-> "idle"]
NoCase   == [open |-> FALSE]

(* A row moved by a compare-and-set: the new status, the next revision.    *)
Moved(row, to) == [row EXCEPT !.status = to, !.revision = @ + 1]

(* ... and the claim columns cleared.                                      *)
Unclaimed(row) == [row EXCEPT !.owner = Nobody, !.token = 0, !.until = 0]

(* Back in the queue, to be claimed again at once (requeue, abandon) or    *)
(* after a backoff (a failed attempt).                                     *)
Requeued(row, later) ==
  [Unclaimed(Moved(row, "retry_wait")) EXCEPT !.backoff = later]

(* What the user may still commit: balance + credit - holds.               *)
Available == wallet.balance + CreditLimit - wallet.inFlight

-----------------------------------------------------------------------------
Init ==
  /\ bill   = [r \in Requests |-> NewRow]
  /\ hold   = [r \in Requests |-> "none"]
  /\ resv   = [r \in Requests |-> "none"]
  /\ usage  = {}
  /\ paid   = [r \in Requests |-> 0]
  /\ wallet = [balance |-> Deposit, inFlight |-> 0]
  /\ stock  = [ch \in Channels |->
                 [budget |-> Stock, reserved |-> 0, enabled |-> TRUE]]
  /\ calls  = [c \in Callers |-> IdleCall]
  /\ picks  = [c \in Callers |-> IdlePick]
  /\ jobs   = [l \in Lanes |-> IdleJob]
  /\ desk   = NoCase
  /\ faults = 0
  /\ reviews = 0

-----------------------------------------------------------------------------
(* Money moved by the transactions below.                                  *)

(* A free request has no funding plan: no hold, no reservation row.        *)
Funded(r) == Reserve[r] > 0

(* assertCanDebit.                                                         *)
CanHold(r) == Available >= Reserve[r]

(* commitFunding: wallet.authorize and the reservation row.                *)
TakeHold(r) ==
  IF Funded(r)
    THEN /\ CanHold(r)
         /\ hold'   = [hold EXCEPT ![r] = "active"]
         /\ resv'   = [resv EXCEPT ![r] = "active"]
         /\ wallet' = [wallet EXCEPT !.inFlight = @ + Reserve[r]]
    ELSE UNCHANGED <<hold, resv, wallet>>

(* The exposure a row has on a channel is given back; the guarded UPDATE   *)
(* refuses to take more than the channel has reserved.                     *)
CanFreeExposure(r) ==
  bill[r].channel # NoChannel =>
    stock[bill[r].channel].reserved >= bill[r].exposure

Freed(r) ==
  IF bill[r].channel = NoChannel THEN stock
  ELSE [stock EXCEPT ![bill[r].channel].reserved = @ - bill[r].exposure]

(* releaseAllReservations: every active reservation row of the request is  *)
(* released with its wallet hold, and they must add up to the amount the   *)
(* row says was reserved; then the channel exposure.                       *)
ReleaseHoldOnly(r) ==   \* mutant: forgets markReleased
  /\ Funded(r) => resv[r] = "active" /\ hold[r] = "active"
  /\ CanFreeExposure(r)
  /\ hold'   = [hold EXCEPT ![r] = "released"]
  /\ wallet' = [wallet EXCEPT !.inFlight = @ - Reserve[r]]
  /\ stock'  = Freed(r)
  /\ UNCHANGED <<resv, usage, paid>>

ReleaseAll(r) ==
  /\ Funded(r) => resv[r] = "active" /\ hold[r] = "active"
  /\ CanFreeExposure(r)
  /\ IF Funded(r)
       THEN /\ hold'   = [hold EXCEPT ![r] = "released"]
            /\ resv'   = [resv EXCEPT ![r] = "released"]
            /\ wallet' = [wallet EXCEPT !.inFlight = @ - Reserve[r]]
       ELSE UNCHANGED <<hold, resv, wallet>>
  /\ stock'  = Freed(r)
  /\ UNCHANGED <<usage, paid>>

-----------------------------------------------------------------------------
(* The gateway: authorization and signals.                                 *)

(* authorize: the wallet must cover the full reservation; one transaction  *)
(* inserts the row, the hold and the reservation.  A second call with the  *)
(* same requestId is a replay and changes nothing.                         *)
Authorize(r) ==
  /\ bill[r].status = "none"
  /\ bill' = [bill EXCEPT ![r] =
                [@ EXCEPT !.status = "authorized", !.lease = LeaseTicks]]
  /\ TakeHold(r)
  /\ UNCHANGED <<usage, paid, stock, calls, picks, jobs, desk>>
  /\ UNCHANGED envVars

(* upstream.started: also accepted again while in flight; it restarts the  *)
(* lease.  upstream_started_at is set exactly when the row leaves          *)
(* authorized this way, so the status stands for it.                       *)
StartUpstream(r) ==
  /\ bill[r].status \in Open
  /\ bill[r].status = "in_flight" => bill[r].revision < MaxRevision
  /\ bill' = [bill EXCEPT ![r] =
                [Moved(@, "in_flight") EXCEPT !.lease = LeaseTicks]]
  /\ UNCHANGED moneyVars /\ UNCHANGED <<calls, picks, jobs, desk>>
  /\ UNCHANGED envVars

(* lease.renewed: any caller, and an expired lease too, as long as the row *)
(* is still in flight.                                                     *)
RenewLease(r) ==
  /\ bill[r].status = "in_flight"
  /\ bill[r].revision < MaxRevision
  /\ bill' = [bill EXCEPT ![r] =
                [Moved(@, "in_flight") EXCEPT !.lease = LeaseTicks]]
  /\ UNCHANGED moneyVars /\ UNCHANGED <<calls, picks, jobs, desk>>
  /\ UNCHANGED envVars

(* request.succeeded, step 1: the row is read outside the transaction.     *)
(* The same receipt on a pending or settled row is a replay; any other row *)
(* that is no longer open is a conflict.                                   *)
IsReplayByStatus(r, rc) ==   \* mutant: does not compare receipts
  bill[r].status \in {"settlement_pending", "settled"}

IsReplay(r, rc) ==
  bill[r].status \in {"settlement_pending", "settled"} /\ bill[r].receipt = rc

SucceedRead(c, r, rc) ==
  /\ calls[c].pc = "idle"
  /\ bill[r].status # "none"
  /\ calls' = [calls EXCEPT ![c] =
       [pc |-> IF IsReplay(r, rc) THEN "replayed"
               ELSE IF bill[r].status \in Open THEN "cas" ELSE "conflict",
        req |-> r, receipt |-> rc]]
  /\ UNCHANGED bill /\ UNCHANGED moneyVars
  /\ UNCHANGED <<picks, jobs, desk>> /\ UNCHANGED envVars

(* Step 2: the compare-and-set that records the receipt.                   *)
SucceedCas(c) ==
  LET r == calls[c].req IN
  /\ calls[c].pc = "cas"
  /\ IF bill[r].status \in Open
       THEN /\ bill' = [bill EXCEPT ![r] =
                          [Moved(@, "settlement_pending") EXCEPT
                             !.receipt = calls[c].receipt, !.lease = 0]]
            /\ calls' = [calls EXCEPT ![c].pc = "changed"]
       ELSE /\ calls' = [calls EXCEPT ![c].pc = "reread"]
            /\ UNCHANGED bill
  /\ UNCHANGED moneyVars
  /\ UNCHANGED <<picks, jobs, desk>> /\ UNCHANGED envVars

(* Step 3, after a lost compare-and-set: read again to tell a replay from  *)
(* a conflict.                                                             *)
SucceedReread(c) ==
  /\ calls[c].pc = "reread"
  /\ calls' = [calls EXCEPT ![c].pc =
       IF IsReplay(calls[c].req, calls[c].receipt) THEN "replayed"
       ELSE "conflict"]
  /\ UNCHANGED bill /\ UNCHANGED moneyVars
  /\ UNCHANGED <<picks, jobs, desk>> /\ UNCHANGED envVars

(* The caller gets its answer, or gives up before it.                      *)
CallEnds(c) ==
  /\ calls[c].pc # "idle"
  /\ calls' = [calls EXCEPT ![c] = IdleCall]
  /\ UNCHANGED bill /\ UNCHANGED moneyVars
  /\ UNCHANGED <<picks, jobs, desk>> /\ UNCHANGED envVars

SignalFailed(r) ==
  /\ bill[r].status \in Open
  /\ bill' = [bill EXCEPT ![r] = [Moved(@, "released") EXCEPT !.lease = 0]]
  /\ ReleaseAll(r)
  /\ UNCHANGED <<calls, picks, jobs, desk>> /\ UNCHANGED envVars

-----------------------------------------------------------------------------
(* reserveChannel.                                                         *)

(* The row is read without a lock.  A row that is no longer open is        *)
(* refused, a covered exposure needs no change; otherwise the caller goes  *)
(* on with what it read.                                                   *)
PickRead(c, r, ch, amount) ==
  /\ picks[c].pc = "idle"
  /\ bill[r].status \in Open
  /\ ~(bill[r].channel = ch /\ amount <= bill[r].exposure)
  /\ picks' = [picks EXCEPT ![c] =
       [pc |-> "commit", req |-> r, channel |-> ch, amount |-> amount,
        seenChannel |-> bill[r].channel, seenExposure |-> bill[r].exposure]]
  /\ UNCHANGED bill /\ UNCHANGED moneyVars
  /\ UNCHANGED <<calls, jobs, desk>> /\ UNCHANGED envVars

(* What the call adds to the target channel: the difference on the same    *)
(* channel, the whole amount on another one.                               *)
Delta(p) == IF p.channel = p.seenChannel THEN p.amount - p.seenExposure
            ELSE p.amount

Room(p) == stock[p.channel].budget - stock[p.channel].reserved >= Delta(p)

OldCovered(p) ==
  p.seenChannel \notin {p.channel, NoChannel} =>
    stock[p.seenChannel].reserved >= p.seenExposure

StillAsSeen(p) ==
  /\ bill[p.req].status \in Open
  /\ bill[p.req].channel = p.seenChannel
  /\ bill[p.req].exposure = p.seenExposure

(* The transaction: reserve on the target, give back the old channel's     *)
(* exposure, and claim the row if it is still as it was read.              *)
PickCommit(c) ==
  LET p == picks[c] IN
  /\ p.pc = "commit"
  /\ Room(p) /\ OldCovered(p) /\ StillAsSeen(p)
  /\ stock' = [ch \in Channels |->
       CASE ch = p.channel -> [stock[ch] EXCEPT !.reserved = @ + Delta(p)]
         [] ch # p.channel /\ ch = p.seenChannel ->
              [stock[ch] EXCEPT !.reserved = @ - p.seenExposure]
         [] OTHER -> stock[ch]]
  /\ bill' = [bill EXCEPT ![p.req] =
                [@ EXCEPT !.channel = p.channel, !.exposure = p.amount]]
  /\ picks' = [picks EXCEPT ![c] = IdlePick]
  /\ UNCHANGED <<hold, resv, usage, paid, wallet, calls, jobs, desk>>
  /\ UNCHANGED envVars

(* Refused for lack of budget, or rolled back because the row or the old   *)
(* channel changed under it, or the caller died.                           *)
PickAborts(c) ==
  /\ picks[c].pc = "commit"
  /\ picks' = [picks EXCEPT ![c] = IdlePick]
  /\ UNCHANGED bill /\ UNCHANGED moneyVars
  /\ UNCHANGED <<calls, jobs, desk>> /\ UNCHANGED envVars

-----------------------------------------------------------------------------
(* Settlement lanes.                                                       *)

(* claimPending: one due row becomes this worker's, under a new token.     *)
(* The token is the revision of the claim: revisions of a row never repeat,*)
(* as the random UUIDs of the code do not.                                 *)
Claim(l, r) ==
  /\ jobs[l].pc = "idle"
  /\ bill[r].status \in Queued /\ ~bill[r].backoff
  /\ bill' = [bill EXCEPT ![r] =
                [Moved(@, "processing") EXCEPT
                   !.attempts = bill[r].attempts + 1, !.owner = Owner[l],
                   !.token = bill[r].revision + 1, !.until = ClaimTicks]]
  /\ jobs' = [jobs EXCEPT ![l] =
       [pc |-> "claimed", req |-> r, token |-> bill[r].revision + 1,
        revision |-> bill[r].revision + 1,
        attempt |-> bill[r].attempts + 1, receipt |-> bill[r].receipt,
        fatal |-> FALSE]]
  /\ UNCHANGED moneyVars /\ UNCHANGED <<calls, picks, desk>>
  /\ UNCHANGED envVars

(* The five-tuple every settlement write and re-read is conditioned on.    *)
HeldByMyWorker(l) ==   \* mutant: neither token nor revision
  /\ jobs[l].pc # "idle"
  /\ LET row == bill[jobs[l].req] IN
       row.status = "processing" /\ row.owner = Owner[l] /\ row.until > 0

Holds(l) ==
  /\ jobs[l].pc # "idle"
  /\ LET row == bill[jobs[l].req] IN
       /\ row.status = "processing"
       /\ row.owner = Owner[l]
       /\ row.token = jobs[l].token
       /\ row.revision = jobs[l].revision
       /\ row.until > 0

(* renewClaims: extends a live claim; a claim that ran out is not revived. *)
RenewClaimOnTop(l) ==   \* mutant: counts from the old expiry, not from now
  /\ jobs[l].pc # "idle"
  /\ bill[jobs[l].req].status = "processing"
  /\ bill[jobs[l].req].token = jobs[l].token
  /\ bill[jobs[l].req].until \in 1 .. ClaimTicks - 1
  /\ bill' = [bill EXCEPT ![jobs[l].req].until = @ + ClaimTicks]
  /\ UNCHANGED moneyVars /\ UNCHANGED <<calls, picks, jobs, desk>>
  /\ UNCHANGED envVars

RenewClaim(l) ==
  /\ jobs[l].pc # "idle"
  /\ LET row == bill[jobs[l].req] IN
       /\ row.status = "processing" /\ row.owner = Owner[l]
       /\ row.token = jobs[l].token
       /\ row.until > 0 /\ row.until < ClaimTicks
  /\ bill' = [bill EXCEPT ![jobs[l].req].until = ClaimTicks]
  /\ UNCHANGED moneyVars /\ UNCHANGED <<calls, picks, jobs, desk>>
  /\ UNCHANGED envVars

(* settleClaim opens its transaction and checks the claim: a lost claim    *)
(* (settled by someone else, or taken over) ends the job without an error. *)
SettleVerify(l) ==
  /\ jobs[l].pc = "claimed"
  /\ jobs' = [jobs EXCEPT ![l] =
                IF Holds(l) THEN [@ EXCEPT !.pc = "verified"] ELSE IdleJob]
  /\ UNCHANGED bill /\ UNCHANGED moneyVars
  /\ UNCHANGED <<calls, picks, desk>> /\ UNCHANGED envVars

(* allocateSettlement for one source: the hold pays up to its amount, the  *)
(* rest is collected as an overage, without regard to the balance.         *)
Consume(r, rc) == IF Cost[rc] < Reserve[r] THEN Cost[rc] ELSE Reserve[r]
NoOverage(r, rc) == 0   \* mutant: keeps the hold, forgives the rest
Overage(r, rc) == Cost[rc] - Consume(r, rc)

(* The wallet after consume and overage were settled: the whole hold goes. *)
ChargedKeepingRest(r, rc) ==   \* mutant: the unused rest stays in flight
  [balance  |-> wallet.balance - Consume(r, rc) - Overage(r, rc),
   inFlight |-> wallet.inFlight - Consume(r, rc)]
Charged(r, rc) ==
  [balance  |-> wallet.balance - Consume(r, rc) - Overage(r, rc),
   inFlight |-> wallet.inFlight - Reserve[r]]

(* deductBudgetAndMaybeBreak, after the exposure was freed.                *)
Deducted(s, ch, amount) ==
  IF ch = NoChannel THEN s
  ELSE [s EXCEPT ![ch] =
          [budget   |-> s[ch].budget - amount,
           reserved |-> s[ch].reserved,
           enabled  |-> s[ch].enabled /\ s[ch].budget - amount > Threshold]]

(* A receipt that no retry can settle: none or poison, or a cost reported  *)
(* for a request that holds no money at all.                               *)
Unpayable(r, rc) == rc \notin Receipts \ Poison \/ (~Funded(r) /\ Cost[rc] > 0)

(* The settlement commits.  A zero consumption releases the hold instead   *)
(* of settling it.                                                         *)
SettleCommit(l) ==
  LET r  == jobs[l].req
      rc == jobs[l].receipt IN
  /\ jobs[l].pc = "verified"
  /\ Holds(l)
  /\ ~Unpayable(r, rc)
  /\ Funded(r) => resv[r] = "active" /\ hold[r] = "active"
  /\ r \notin usage
  /\ CanFreeExposure(r)
  /\ IF Funded(r)
       THEN /\ hold' = [hold EXCEPT ![r] =
                          IF Consume(r, rc) = 0 THEN "released" ELSE "settled"]
            /\ resv' = [resv EXCEPT ![r] = "settled"]
       ELSE UNCHANGED <<hold, resv>>
  /\ wallet' = Charged(r, rc)
  /\ paid'   = [paid EXCEPT ![r] = @ + Consume(r, rc) + Overage(r, rc)]
  /\ usage'  = usage \cup {r}
  /\ stock'  = Deducted(Freed(r), bill[r].channel, UpstreamCost[rc])
  /\ bill'   = [bill EXCEPT ![r] = Unclaimed(Moved(@, "settled"))]
  /\ jobs'   = [jobs EXCEPT ![l] = IdleJob]
  /\ UNCHANGED <<calls, picks, desk>> /\ UNCHANGED envVars

(* The transaction throws and rolls back.  The error is of the dead-letter *)
(* family if the receipt can never settle, or if the claim was lost after  *)
(* it was verified; anything else is transient.                            *)
SettleThrows(l, fatal) ==
  /\ jobs[l].pc \in {"claimed", "verified"}
  /\ fatal => \/ Unpayable(jobs[l].req, jobs[l].receipt)
              \/ jobs[l].pc = "verified" /\ ~Holds(l)
  /\ jobs' = [jobs EXCEPT ![l] = [@ EXCEPT !.pc = "failed", !.fatal = fatal]]
  /\ UNCHANGED bill /\ UNCHANGED moneyVars
  /\ UNCHANGED <<calls, picks, desk>> /\ UNCHANGED envVars

(* settleFailurePolicy.                                                    *)
GoesDead(job) == job.fatal \/ job.attempt >= MaxAttempts

(* finishFailure: dead or back to the queue, if the claim still holds.     *)
Finish(l, won) ==
  /\ jobs[l].pc = "failed"
  /\ IF won
       THEN bill' = [bill EXCEPT ![jobs[l].req] =
                       IF GoesDead(jobs[l])
                         THEN Unclaimed(Moved(@, "dead"))
                         ELSE Requeued(@, TRUE)]
       ELSE UNCHANGED bill
  /\ jobs' = [jobs EXCEPT ![l] = IdleJob]
  /\ UNCHANGED moneyVars /\ UNCHANGED <<calls, picks, desk>>
  /\ UNCHANGED envVars

FinishUnchecked(l) == Finish(l, TRUE)   \* mutant: no compare-and-set
FinishFailure(l) == Finish(l, Holds(l))

(* The process dies, or the failure could not be recorded: the row keeps   *)
(* its claim.                                                              *)
LaneDies(l) ==
  /\ jobs[l].pc # "idle"
  /\ faults < MaxFaults
  /\ jobs' = [jobs EXCEPT ![l] = IdleJob]
  /\ faults' = faults + 1
  /\ UNCHANGED bill /\ UNCHANGED moneyVars
  /\ UNCHANGED <<calls, picks, desk, reviews>>

(* abandonOwnedClaims, at the end of a shutdown: every claim of the worker *)
(* goes back, while a job that outlived the grace period may still run.    *)
Abandon(w) ==
  /\ \E r \in Requests : bill[r].status = "processing" /\ bill[r].owner = w
  /\ faults < MaxFaults
  /\ bill' = [r \in Requests |->
                IF bill[r].status = "processing" /\ bill[r].owner = w
                  THEN Requeued(bill[r], FALSE) ELSE bill[r]]
  /\ faults' = faults + 1
  /\ UNCHANGED moneyVars /\ UNCHANGED <<calls, picks, jobs, desk, reviews>>

-----------------------------------------------------------------------------
(* Recovery.                                                               *)

RecoverAny(r) ==   \* mutant: looks at the lease, not at the status
  /\ bill[r].status \in Unsettled /\ bill[r].lease = 0
  /\ bill' = [bill EXCEPT ![r] = Moved(@, "released")]
  /\ ReleaseAll(r)
  /\ UNCHANGED <<calls, picks, jobs, desk>> /\ UNCHANGED envVars

RecoverReleased(r) ==
  /\ bill[r].status \in Open /\ bill[r].lease = 0
  /\ bill' = [bill EXCEPT ![r] = Moved(@, "released")]
  /\ ReleaseAll(r)
  /\ UNCHANGED <<calls, picks, jobs, desk>> /\ UNCHANGED envVars

(* recover 3: a claim that ran out goes back to the queue.                 *)
RequeueWithAttemptsLeft(r) ==   \* mutant: not after the last attempt
  /\ bill[r].status = "processing" /\ bill[r].until = 0
  /\ bill[r].attempts < MaxAttempts
  /\ bill' = [bill EXCEPT ![r] = Requeued(@, FALSE)]
  /\ UNCHANGED moneyVars /\ UNCHANGED <<calls, picks, jobs, desk>>
  /\ UNCHANGED envVars

RequeueExpired(r) ==
  /\ bill[r].status = "processing" /\ bill[r].until = 0
  /\ bill' = [bill EXCEPT ![r] = Requeued(@, FALSE)]
  /\ UNCHANGED moneyVars /\ UNCHANGED <<calls, picks, jobs, desk>>
  /\ UNCHANGED envVars

-----------------------------------------------------------------------------
(* Time.                                                                   *)

LeaseElapses(r) ==
  /\ bill[r].status \in Open /\ bill[r].lease > 0
  /\ bill' = [bill EXCEPT ![r].lease = @ - 1]
  /\ UNCHANGED moneyVars /\ UNCHANGED <<calls, picks, jobs, desk>>
  /\ UNCHANGED envVars

(* A claim runs out although a lane still works on it only as a fault.     *)
Worked(r) == \E l \in Lanes : jobs[l].pc # "idle" /\ jobs[l].req = r /\ Holds(l)

ClaimElapses(r) ==
  /\ bill[r].status = "processing" /\ bill[r].until > 0
  /\ IF bill[r].until = 1 /\ Worked(r)
       THEN faults < MaxFaults /\ faults' = faults + 1
       ELSE UNCHANGED faults
  /\ bill' = [bill EXCEPT ![r].until = @ - 1]
  /\ UNCHANGED moneyVars /\ UNCHANGED <<calls, picks, jobs, desk, reviews>>

BackoffElapses(r) ==
  /\ bill[r].status = "retry_wait" /\ bill[r].backoff
  /\ bill' = [bill EXCEPT ![r].backoff = FALSE]
  /\ UNCHANGED moneyVars /\ UNCHANGED <<calls, picks, jobs, desk>>
  /\ UNCHANGED envVars

-----------------------------------------------------------------------------
(* Review of dead rows, decided on the revision that was looked at.        *)

ReviewOpens(r) ==
  /\ ~desk.open /\ reviews < MaxReviews
  /\ bill[r].status = "dead"
  /\ desk' = [open |-> TRUE, req |-> r, revision |-> bill[r].revision]
  /\ reviews' = reviews + 1
  /\ UNCHANGED bill /\ UNCHANGED moneyVars
  /\ UNCHANGED <<calls, picks, jobs, faults>>

AsReviewed == /\ desk.open
              /\ bill[desk.req].status = "dead"
              /\ bill[desk.req].revision = desk.revision

ReviewRetries ==
  /\ AsReviewed
  /\ bill' = [bill EXCEPT ![desk.req] =
                [Moved(@, "retry_wait") EXCEPT !.attempts = 0]]
  /\ UNCHANGED moneyVars /\ UNCHANGED <<calls, picks, jobs, desk>>
  /\ UNCHANGED envVars

ReviewAbandons ==
  /\ AsReviewed
  /\ bill' = [bill EXCEPT ![desk.req] =
                Unclaimed(Moved(@, "released"))]
  /\ ReleaseAll(desk.req)
  /\ UNCHANGED <<calls, picks, jobs, desk>> /\ UNCHANGED envVars

ReviewCloses ==
  /\ desk.open
  /\ desk' = NoCase
  /\ UNCHANGED bill /\ UNCHANGED moneyVars
  /\ UNCHANGED <<calls, picks, jobs>> /\ UNCHANGED envVars

-----------------------------------------------------------------------------
Gateway ==
  \/ \E r \in Requests : \/ Authorize(r) \/ StartUpstream(r) \/ RenewLease(r)
                         \/ SignalFailed(r)
  \/ \E c \in Callers :
       \/ \E r \in Requests, rc \in Receipts : SucceedRead(c, r, rc)
       \/ SucceedCas(c) \/ SucceedReread(c) \/ CallEnds(c)
       \/ \E r \in Requests, ch \in Channels, amount \in Exposures :
            PickRead(c, r, ch, amount)
       \/ PickCommit(c) \/ PickAborts(c)

Settlement ==
  \/ \E l \in Lanes :
       \/ \E r \in Requests : Claim(l, r)
       \/ RenewClaim(l) \/ SettleVerify(l) \/ SettleCommit(l)
       \/ \E fatal \in BOOLEAN : SettleThrows(l, fatal)
       \/ FinishFailure(l) \/ LaneDies(l)
  \/ \E w \in Workers : Abandon(w)

Recovery ==
  \E r \in Requests : \/ RecoverReleased(r) \/ RequeueExpired(r)
                      \/ LeaseElapses(r) \/ ClaimElapses(r)
                      \/ BackoffElapses(r)

Review ==
  \/ \E r \in Requests : ReviewOpens(r)
  \/ ReviewRetries \/ ReviewAbandons \/ ReviewCloses

Next == Gateway \/ Settlement \/ Recovery \/ Review

Spec == Init /\ [][Next]_vars

(* Fairness: the loops of the workers run again and again and every lane   *)
(* finishes the job it has, so does time; callers, administrators, faults  *)
(* and lease renewals are free to stop.                                    *)
Fairness ==
  /\ \A l \in Lanes :
       /\ WF_vars(\E r \in Requests : Claim(l, r))
       /\ WF_vars(SettleVerify(l))
       /\ WF_vars(SettleCommit(l) \/ \E fatal \in BOOLEAN : SettleThrows(l, fatal))
       /\ WF_vars(FinishFailure(l))
  /\ \A r \in Requests :
       /\ WF_vars(RecoverReleased(r)) /\ WF_vars(RequeueExpired(r))
       /\ WF_vars(LeaseElapses(r)) /\ WF_vars(ClaimElapses(r))
       /\ WF_vars(BackoffElapses(r))

FairSpec == Spec /\ Fairness

-----------------------------------------------------------------------------
(* Properties.                                                             *)

HoldStates == {"none", "active", "settled", "released"}

Calls == {IdleCall} \cup
  [pc : {"cas", "reread", "changed", "replayed", "conflict"},
   req : Requests, receipt : Receipts]

Picks == {IdlePick} \cup
  [pc : {"commit"}, req : Requests, channel : Channels, amount : Exposures,
   seenChannel : Channels \cup {NoChannel}, seenExposure : Nat]

Jobs == {IdleJob} \cup
  [pc : {"claimed", "verified", "failed"}, req : Requests, token : Nat,
   revision : Nat, attempt : Nat, receipt : Receipts \cup {NoReceipt},
   fatal : BOOLEAN]

Budgets == [budget : Int, reserved : Nat, enabled : BOOLEAN]

(* Every column, hold, call and job keeps its type.  In particular no      *)
(* channel's reserved exposure is ever taken below zero and no timer runs  *)
(* past its length.                                                        *)
TypeOK ==
  /\ bill \in [Requests -> Row]
  /\ hold \in [Requests -> HoldStates]
  /\ resv \in [Requests -> HoldStates]
  /\ usage \subseteq Requests
  /\ paid \in [Requests -> Nat]
  /\ wallet \in [balance : Int, inFlight : Int]
  /\ stock \in [Channels -> Budgets]
  /\ calls \in [Callers -> Calls]
  /\ picks \in [Callers -> Picks]
  /\ jobs \in [Lanes -> Jobs]
  /\ desk \in {NoCase} \cup [open : {TRUE}, req : Requests, revision : Nat]
  /\ faults \in Nat /\ reviews \in Nat

(* No update is ever refused by a CHECK constraint of the table, which     *)
(* would undo the transaction around it: exactly a processing row carries  *)
(* a claim, and a row that went past the open statuses has a receipt.      *)
SchemaChecks ==
  \A r \in Requests :
    /\ bill[r].status = "processing" <=> bill[r].owner # Nobody
    /\ bill[r].status = "processing" <=> bill[r].token # 0
    /\ bill[r].status \in Queued \cup {"processing", "settled", "dead"} =>
         bill[r].receipt # NoReceipt

(* Money follows the row: while a request is unsettled (dead included) its *)
(* wallet hold and its reservation row are both active; a settled or       *)
(* released request has neither, and they ended the same way.  A free      *)
(* request never holds anything.                                           *)
MoneyFollowsStatus ==
  \A r \in Requests :
    /\ resv[r] = CASE ~Funded(r) \/ bill[r].status = "none" -> "none"
                   [] bill[r].status \in Unsettled /\ Funded(r) -> "active"
                   [] bill[r].status \in Terminal /\ Funded(r) -> bill[r].status
    /\ hold[r] = IF /\ resv[r] = "settled"
                    /\ Consume(r, bill[r].receipt) = 0
                   THEN "released" ELSE resv[r]

(* A request is charged the cost of the receipt on its row, once, when it  *)
(* is settled, and nothing otherwise: whatever lanes lost their claim,     *)
(* failed half-way or were retried.  usage_logs says the same.             *)
ChargedOnce ==
  \A r \in Requests :
    /\ paid[r] = IF bill[r].status = "settled" THEN Cost[bill[r].receipt] ELSE 0
    /\ r \in usage <=> bill[r].status = "settled"

(* No two lanes could both commit the same request now, in the same worker *)
(* or not.                                                                 *)
OneCommitter ==
  \A k, l \in Lanes :
    Holds(k) /\ Holds(l) /\ jobs[k].req = jobs[l].req => k = l

(* A caller told that its receipt was taken (or had been taken before) is  *)
(* told the truth, for ever: the receipt on the row is its own.            *)
AcceptedMeansRecorded ==
  \A c \in Callers :
    calls[c].pc \in {"changed", "replayed"} =>
      bill[calls[c].req].receipt = calls[c].receipt

(* The wallet: inFlight is the sum of the active holds, and the balance is *)
(* the deposit less what was charged.                                      *)
WalletBooks ==
  /\ wallet.inFlight = SumFunctionOnSet(Reserve, {r \in Requests : hold[r] = "active"})
  /\ wallet.balance = Deposit - SumFunctionOnSet(paid, Requests)

(* The user may be committed beyond balance and credit line only by what   *)
(* was collected over a hold.                                              *)
OverdraftIsOverage ==
  LET charged == {r \in Requests : bill[r].status = "settled"} IN
  Available >= -SumFunctionOnSet([r \in charged |-> Overage(r, bill[r].receipt)], charged)

(* A channel's reserved exposure is the sum over the unsettled requests    *)
(* that chose it (no exposure is orphaned by a lost race of reserveChannel *)
(* against a switch, a release or a settlement), its budget the stock less *)
(* the real costs.                                                         *)
On(ch, statuses) ==
  {r \in Requests : bill[r].channel = ch /\ bill[r].status \in statuses}

ChannelBooks ==
  \A ch \in Channels :
    LET open == On(ch, Unsettled)
        charged == On(ch, {"settled"})
    IN /\ stock[ch].reserved = SumFunctionOnSet([r \in open |-> bill[r].exposure], open)
       /\ stock[ch].budget =
            Stock - SumFunctionOnSet([r \in charged |-> UpstreamCost[bill[r].receipt]], charged)

(* A channel is promised more than it has only when real costs came out    *)
(* above their estimates, and by no more than that.                        *)
Underestimate(r) ==
  IF UpstreamCost[bill[r].receipt] > bill[r].exposure
    THEN UpstreamCost[bill[r].receipt] - bill[r].exposure ELSE 0

OversoldByUnderestimates ==
  \A ch \in Channels :
    LET charged == On(ch, {"settled"}) IN
    stock[ch].reserved - stock[ch].budget <=
      SumFunctionOnSet([r \in charged |-> Underestimate(r)], charged)

(* All money is booked where the statuses say: holds, charges and channels *)
(* add up, and nothing is owed or promised that was not underestimated.    *)
MoneyIsBooked ==
  /\ MoneyFollowsStatus /\ WalletBooks /\ OverdraftIsOverage
  /\ ChannelBooks /\ OversoldByUnderestimates

(* A settled or released row never changes again, in no column: a lane     *)
(* that lost its claim and a late signal leave no trace.                   *)
TerminalIsFinal ==
  [][\A r \in Requests : bill[r].status \in Terminal => bill'[r] = bill[r]]_vars

(* Once a receipt was accepted the request is never released behind the    *)
(* settlement's back: only from dead, and the receipt stays the same.      *)
AcceptedIsNotForgotten ==
  [][\A r \in Requests :
       bill[r].receipt # NoReceipt =>
         /\ bill'[r].receipt = bill[r].receipt
         /\ bill'[r].status = "released" => bill[r].status \in {"dead", "released"}
    ]_vars

(* A request that was accepted for settlement is settled, or parked as     *)
(* dead for a human, or was released by one.                               *)
SettlementEnds ==
  \A r \in Requests :
    bill[r].status \in Queued \cup {"processing"} ~>
      bill[r].status \in Terminal \cup {"dead"}

(* No hold stays for ever on a request nobody serves any more: an          *)
(* authorization or stream that its gateway abandoned is released by the   *)
(* recover loop, so every hold is resolved or waits for a human.           *)
HoldsAreResolved ==
  \A r \in Requests :
    hold[r] = "active" ~> (hold[r] # "active" \/ bill[r].status = "dead")

(* The whole implements the promise of module Charge: the eight states are *)
(* its six stages, and every compare-and-set is one of its steps or none.  *)
Stage(status) ==
  CASE status = "none" -> "none"
    [] status \in Open -> "held"
    [] status \in Queued \cup {"processing"} -> "owed"
    [] status = "dead" -> "parked"
    [] status = "settled" -> "charged"
    [] status = "released" -> "returned"

Promise == INSTANCE Charge WITH
  stage   <- [r \in Requests |-> Stage(bill[r].status)],
  owes    <- [r \in Requests |-> bill[r].receipt],
  balance <- wallet.balance

KeepsThePromise == Promise!FairSpec
=============================================================================
