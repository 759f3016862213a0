---------------------------- MODULE BillingProofs ----------------------------
(***************************************************************************)
(* What holds of module Billing for every value of its constants: types,   *)
(* the money properties, the books, and that it implements Charge.  The    *)
(* money properties follow from what a step can do to one request's row    *)
(* and money: lemma StepEffects says that in seven cases, and they are     *)
(* proved from the cases alone.                                            *)
(***************************************************************************)
EXTENDS Billing, Sums

-----------------------------------------------------------------------------
(* The operators that make a new row out of an old one.                    *)

(* A moved row is a row; only its status and its revision differ.          *)
LEMMA MovedRow ==
  ASSUME NEW row \in Row, NEW to \in Statuses
  PROVE  /\ Moved(row, to) \in Row
         /\ Moved(row, to).status = to
         /\ Moved(row, to).revision = row.revision + 1
         /\ Moved(row, to).receipt = row.receipt
         /\ Moved(row, to).channel = row.channel
         /\ Moved(row, to).exposure = row.exposure
         /\ Moved(row, to).until = row.until
<1>1. row.revision + 1 \in Nat
  BY DEF Row
<1>2. [row EXCEPT !.revision = row.revision + 1] \in Row
  BY <1>1 DEF Row
<1>3. Moved(row, to) \in Row
  BY <1>2 DEF Moved, Row
<1> QED
  BY <1>3 DEF Moved, Row

(* Clearing the claim columns leaves a row, and the other columns alone.   *)
LEMMA UnclaimedRow ==
  ASSUME NEW row \in Row
  PROVE  /\ Unclaimed(row) \in Row
         /\ Unclaimed(row).status = row.status
         /\ Unclaimed(row).revision = row.revision
         /\ Unclaimed(row).receipt = row.receipt
         /\ Unclaimed(row).channel = row.channel
         /\ Unclaimed(row).exposure = row.exposure
<1>1. [row EXCEPT !.owner = Nobody, !.token = 0] \in Row
  BY DEF Row
<1>2. 0 \in 0 .. ClaimTicks
  BY BillingAssumption DEF BillingAssumption
<1>3. Unclaimed(row) \in Row
  BY <1>1, <1>2 DEF Unclaimed, Row
<1> QED
  BY <1>3 DEF Unclaimed, Row

(* A requeued row waits in the queue with the next revision.               *)
LEMMA RequeuedRow ==
  ASSUME NEW row \in Row, NEW later \in BOOLEAN
  PROVE  /\ Requeued(row, later) \in Row
         /\ Requeued(row, later).status = "retry_wait"
         /\ Requeued(row, later).revision = row.revision + 1
         /\ Requeued(row, later).receipt = row.receipt
         /\ Requeued(row, later).channel = row.channel
         /\ Requeued(row, later).exposure = row.exposure
<1> DEFINE moved == Moved(row, "retry_wait")
           free  == Unclaimed(moved)
<1>1. "retry_wait" \in Statuses
  BY DEF Statuses, Unsettled, Queued
<1>2. /\ moved \in Row /\ moved.status = "retry_wait"
      /\ moved.revision = row.revision + 1 /\ moved.receipt = row.receipt
      /\ moved.channel = row.channel /\ moved.exposure = row.exposure
  BY <1>1, MovedRow
<1> HIDE DEF moved
<1>3. /\ free \in Row /\ free.status = "retry_wait"
      /\ free.revision = row.revision + 1 /\ free.receipt = row.receipt
      /\ free.channel = row.channel /\ free.exposure = row.exposure
  BY <1>2, UnclaimedRow
<1>4. Requeued(row, later) = [free EXCEPT !.backoff = later]
  BY DEF Requeued, moved
<1> HIDE DEF free
<1> QED
  BY <1>3, <1>4 DEF Row

-----------------------------------------------------------------------------
(* Types.                                                                  *)

(* A top-up asks for more than the row was seen to hold.  Together with    *)
(* the guards of the updates it keeps every reserved exposure a natural    *)
(* number.                                                                 *)
TopUpsGrow ==
  \A c \in Callers :
    picks[c].pc = "commit" /\ picks[c].channel = picks[c].seenChannel =>
      picks[c].amount > picks[c].seenExposure

(* The types hold at first.                                                *)
LEMMA InitTypes == Init => TypeOK /\ TopUpsGrow
<1> SUFFICES ASSUME Init PROVE TypeOK /\ TopUpsGrow
  OBVIOUS
<1>1. NewRow \in Row
  BY BillingAssumption DEF BillingAssumption, NewRow, Row, Statuses, Unsettled, Open, Queued
<1>2. bill \in [Requests -> Row]
  BY <1>1 DEF Init
<1>3. stock \in [Channels -> Budgets]
  BY BillingAssumption DEF BillingAssumption, Init, Budgets
<1>4. /\ calls \in [Callers -> Calls] /\ picks \in [Callers -> Picks]
      /\ jobs \in [Lanes -> Jobs]
  BY DEF Init, Calls, Picks, Jobs
<1>5. /\ hold \in [Requests -> HoldStates] /\ resv \in [Requests -> HoldStates]
      /\ paid \in [Requests -> Nat]
      /\ wallet \in [balance : Int, inFlight : Int]
      /\ usage \subseteq Requests
      /\ faults \in Nat /\ reviews \in Nat
  BY BillingAssumption DEF BillingAssumption, Init, HoldStates
<1>6. desk \in {NoCase} \cup [open : {TRUE}, req : Requests, revision : Nat]
  BY DEF Init
<1>7. TypeOK
  BY <1>2, <1>3, <1>4, <1>5, <1>6 DEF TypeOK
<1>8. TopUpsGrow
  BY DEF Init, TopUpsGrow, IdlePick
<1> QED
  BY <1>7, <1>8

(* Releasing a request's money keeps the types.                            *)
LEMMA ReleaseAllTypes ==
  ASSUME TypeOK, NEW r \in Requests, ReleaseAll(r)
  PROVE  /\ hold' \in [Requests -> HoldStates]
         /\ resv' \in [Requests -> HoldStates]
         /\ wallet' \in [balance : Int, inFlight : Int]
         /\ stock' \in [Channels -> Budgets]
         /\ UNCHANGED <<usage, paid>>
<1>1. /\ hold' \in [Requests -> HoldStates]
      /\ resv' \in [Requests -> HoldStates]
  BY DEF ReleaseAll, TypeOK, HoldStates
<1>2. wallet' \in [balance : Int, inFlight : Int]
  BY BillingAssumption DEF BillingAssumption, ReleaseAll, TypeOK
<1>3. Freed(r) \in [Channels -> Budgets]
  <2>1. CASE bill[r].channel = NoChannel
    BY <2>1 DEF Freed, TypeOK
  <2>2. CASE bill[r].channel # NoChannel
    <3> DEFINE ch == bill[r].channel
    <3>1. /\ ch \in Channels /\ bill[r].exposure \in Nat
      BY <2>2 DEF TypeOK, Row
    <3>2. stock[ch] \in Budgets /\ stock[ch].reserved >= bill[r].exposure
      BY <2>2, <3>1 DEF TypeOK, ReleaseAll, CanFreeExposure
    <3>3. [stock[ch] EXCEPT !.reserved = @ - bill[r].exposure] \in Budgets
      BY <3>1, <3>2 DEF Budgets
    <3> QED
      BY <2>2, <3>1, <3>3 DEF Freed, TypeOK
  <2> QED
    BY <2>1, <2>2
<1> QED
  BY <1>1, <1>2, <1>3 DEF ReleaseAll

(* A caller, a pick or a job that is not idle has all its fields.          *)
LEMMA BusyFields ==
  ASSUME TypeOK
  PROVE  /\ \A c \in Callers : calls[c].pc # "idle" =>
              /\ calls[c].req \in Requests /\ calls[c].receipt \in Receipts
         /\ \A c \in Callers : picks[c].pc # "idle" =>
              picks[c] \in Picks \ {IdlePick}
         /\ \A l \in Lanes : jobs[l].pc # "idle" =>
              /\ jobs[l].req \in Requests
              /\ jobs[l].token \in Nat /\ jobs[l].revision \in Nat
              /\ jobs[l].attempt \in Nat
              /\ jobs[l].receipt \in Receipts \cup {NoReceipt}
<1>1. \A c \in Callers : calls[c].pc # "idle" =>
        /\ calls[c].req \in Requests /\ calls[c].receipt \in Receipts
  BY DEF TypeOK, Calls, IdleCall
<1>2. \A c \in Callers : picks[c].pc # "idle" => picks[c] \in Picks \ {IdlePick}
  BY DEF TypeOK, IdlePick
<1>3. \A l \in Lanes : jobs[l].pc # "idle" =>
        /\ jobs[l].req \in Requests
        /\ jobs[l].token \in Nat /\ jobs[l].revision \in Nat
        /\ jobs[l].attempt \in Nat
        /\ jobs[l].receipt \in Receipts \cup {NoReceipt}
  BY DEF TypeOK, Jobs, IdleJob
<1> QED
  BY <1>1, <1>2, <1>3

(* The gateway's own actions keep the types.                               *)
LEMMA GatewayTypes ==
  ASSUME TypeOK, NEW r \in Requests,
         Authorize(r) \/ StartUpstream(r) \/ RenewLease(r) \/ SignalFailed(r)
  PROVE  TypeOK' /\ UNCHANGED picks
<1>1. /\ bill \in [Requests -> Row] /\ bill[r] \in Row
      /\ LeaseTicks \in 0 .. LeaseTicks /\ 0 \in 0 .. LeaseTicks
  BY BillingAssumption DEF BillingAssumption, TypeOK
<1>2. CASE Authorize(r)
  <2>1. [bill[r] EXCEPT !.status = "authorized", !.lease = LeaseTicks] \in Row
    BY <1>1 DEF Row, Statuses, Unsettled, Open
  <2>2. bill' \in [Requests -> Row]
    BY <1>1, <1>2, <2>1 DEF Authorize
  <2>3. /\ hold' \in [Requests -> HoldStates]
        /\ resv' \in [Requests -> HoldStates]
    BY <1>2 DEF Authorize, TakeHold, TypeOK, HoldStates
  <2>4. wallet' \in [balance : Int, inFlight : Int]
    <3>1. /\ wallet \in [balance : Int, inFlight : Int]
          /\ Reserve[r] \in Nat
      BY BillingAssumption DEF BillingAssumption, TypeOK
    <3>2. \/ wallet' = wallet
          \/ wallet' = [wallet EXCEPT !.inFlight = wallet.inFlight + Reserve[r]]
      BY <1>2 DEF Authorize, TakeHold
    <3> QED
      BY <3>1, <3>2
  <2> QED
    BY <1>2, <2>2, <2>3, <2>4 DEF Authorize, TypeOK, envVars
<1>3. CASE StartUpstream(r) \/ RenewLease(r)
  <2>1. "in_flight" \in Statuses
    BY DEF Statuses, Unsettled, Open
  <2>2. Moved(bill[r], "in_flight") \in Row
    BY <1>1, <2>1, MovedRow
  <2>3. [Moved(bill[r], "in_flight") EXCEPT !.lease = LeaseTicks] \in Row
    BY <1>1, <2>2 DEF Row
  <2>4. bill' \in [Requests -> Row]
    BY <1>1, <1>3, <2>3 DEF StartUpstream, RenewLease
  <2> QED
    BY <1>3, <2>4 DEF StartUpstream, RenewLease, TypeOK, moneyVars, envVars
<1>4. CASE SignalFailed(r)
  <2>1. "released" \in Statuses
    BY DEF Statuses, Terminal
  <2>2. Moved(bill[r], "released") \in Row
    BY <1>1, <2>1, MovedRow
  <2>3. [Moved(bill[r], "released") EXCEPT !.lease = 0] \in Row
    BY <1>1, <2>2 DEF Row
  <2>4. bill' \in [Requests -> Row]
    BY <1>1, <1>4, <2>3 DEF SignalFailed
  <2>5. ReleaseAll(r)
    BY <1>4 DEF SignalFailed
  <2> QED
    BY <1>4, <2>4, <2>5, ReleaseAllTypes DEF SignalFailed, TypeOK, envVars
<1> QED
  BY <1>2, <1>3, <1>4 DEF Authorize, StartUpstream, RenewLease, SignalFailed

(* So do the steps of request.succeeded.                                   *)
LEMMA SucceedTypes ==
  ASSUME TypeOK, NEW c \in Callers,
         \/ \E r \in Requests, rc \in Receipts : SucceedRead(c, r, rc)
         \/ SucceedCas(c) \/ SucceedReread(c) \/ CallEnds(c)
  PROVE  TypeOK' /\ UNCHANGED picks
<1> USE BusyFields
<1>1. ASSUME NEW r \in Requests, NEW rc \in Receipts, SucceedRead(c, r, rc)
      PROVE  TypeOK' /\ UNCHANGED picks
  <2>1. calls' \in [Callers -> Calls]
    BY <1>1 DEF SucceedRead, TypeOK, Calls
  <2> QED
    BY <1>1, <2>1 DEF SucceedRead, TypeOK, moneyVars, envVars
<1>2. CASE SucceedCas(c)
  <2> DEFINE r == calls[c].req
  <2>1. r \in Requests /\ calls[c].receipt \in Receipts /\ bill[r] \in Row
    BY <1>2 DEF SucceedCas, TypeOK
  <2>2. Moved(bill[r], "settlement_pending") \in Row
    BY <2>1, MovedRow DEF Statuses, Unsettled, Queued
  <2>3. 0 \in 0 .. LeaseTicks
    BY BillingAssumption DEF BillingAssumption
  <2>4. [Moved(bill[r], "settlement_pending") EXCEPT
           !.receipt = calls[c].receipt, !.lease = 0] \in Row
    BY <2>1, <2>2, <2>3 DEF Row
  <2>5. bill' \in [Requests -> Row]
    BY <1>2, <2>1, <2>4 DEF SucceedCas, TypeOK
  <2>6. calls' \in [Callers -> Calls]
    BY <1>2, <2>1 DEF SucceedCas, TypeOK, Calls, IdleCall
  <2> QED
    BY <1>2, <2>5, <2>6 DEF SucceedCas, TypeOK, moneyVars, envVars
<1>3. CASE SucceedReread(c)
  <2>1. calls' \in [Callers -> Calls]
    BY <1>3 DEF SucceedReread, TypeOK, Calls, IdleCall
  <2> QED
    BY <1>3, <2>1 DEF SucceedReread, TypeOK, moneyVars, envVars
<1>4. CASE CallEnds(c)
  <2>1. calls' \in [Callers -> Calls]
    BY <1>4 DEF CallEnds, TypeOK, Calls
  <2> QED
    BY <1>4, <2>1 DEF CallEnds, TypeOK, moneyVars, envVars
<1> QED
  BY <1>1, <1>2, <1>3, <1>4

(* reserveChannel keeps the types: the guards keep both channels' reserved *)
(* exposure natural.                                                       *)
LEMMA PickTypes ==
  ASSUME TypeOK, TopUpsGrow, NEW c \in Callers,
         \/ \E r \in Requests, ch \in Channels, amount \in Exposures :
              PickRead(c, r, ch, amount)
         \/ PickCommit(c) \/ PickAborts(c)
  PROVE  TypeOK' /\ TopUpsGrow'
<1>1. ASSUME NEW r \in Requests, NEW ch \in Channels, NEW amount \in Exposures,
             PickRead(c, r, ch, amount)
      PROVE  TypeOK' /\ TopUpsGrow'
  <2> DEFINE p == [pc |-> "commit", req |-> r, channel |-> ch, amount |-> amount,
                   seenChannel |-> bill[r].channel,
                   seenExposure |-> bill[r].exposure]
  <2>1. bill[r].channel \in Channels \cup {NoChannel} /\ bill[r].exposure \in Nat
    BY DEF TypeOK, Row
  <2>2. p \in Picks
    BY <2>1 DEF Picks
  <2>3. picks' = [picks EXCEPT ![c] = p]
    BY <1>1 DEF PickRead
  <2>4. p.channel = p.seenChannel => p.amount > p.seenExposure
    BY <1>1, <2>1, BillingAssumption DEF BillingAssumption, PickRead
  <2> HIDE DEF p
  <2>5. picks' \in [Callers -> Picks]
    BY <2>2, <2>3 DEF TypeOK
  <2>6. TopUpsGrow'
    BY <2>3, <2>4 DEF TopUpsGrow, TypeOK
  <2> QED
    BY <1>1, <2>5, <2>6 DEF PickRead, TypeOK, moneyVars, envVars
<1>2. CASE PickCommit(c)
  <2> DEFINE p == picks[c]
             r == p.req
  <2>1. /\ r \in Requests /\ p.channel \in Channels /\ p.amount \in Nat
        /\ p.seenChannel \in Channels \cup {NoChannel} /\ p.seenExposure \in Nat
        /\ p.pc = "commit"
    BY <1>2, BillingAssumption, BusyFields DEF BillingAssumption, PickCommit, Picks
  <2>2. Delta(p) \in Nat
    BY <1>2, <2>1 DEF TopUpsGrow, Delta
  <2>3. \A ch \in Channels : stock'[ch] \in Budgets
    <3> TAKE ch \in Channels
    <3>1. stock[ch] \in Budgets
      BY DEF TypeOK
    <3>2. CASE ch = p.channel
      <4>1. stock'[ch] = [stock[ch] EXCEPT !.reserved = stock[ch].reserved + Delta(p)]
        BY <1>2, <3>2 DEF PickCommit
      <4> QED
        BY <2>2, <3>1, <4>1 DEF Budgets
    <3>3. CASE ch # p.channel /\ ch = p.seenChannel
      <4>1. stock'[ch] = [stock[ch] EXCEPT !.reserved = stock[ch].reserved - p.seenExposure]
        BY <1>2, <3>3 DEF PickCommit
      <4>2. stock[ch].reserved >= p.seenExposure
        BY <1>2, <3>3, BillingAssumption DEF BillingAssumption, PickCommit, OldCovered
      <4> QED
        BY <2>1, <3>1, <4>1, <4>2 DEF Budgets
    <3>4. CASE ch # p.channel /\ ch # p.seenChannel
      BY <1>2, <3>1, <3>4 DEF PickCommit
    <3> QED
      BY <3>2, <3>3, <3>4
  <2>4. stock' \in [Channels -> Budgets]
    BY <1>2, <2>3 DEF PickCommit
  <2>5. [bill[r] EXCEPT !.channel = p.channel, !.exposure = p.amount] \in Row
    <3>1. bill[r] \in Row
      BY <2>1 DEF TypeOK
    <3>2. [bill[r] EXCEPT !.channel = p.channel] \in Row
      BY <2>1, <3>1 DEF Row
    <3>3. [[bill[r] EXCEPT !.channel = p.channel] EXCEPT !.exposure = p.amount] \in Row
      BY <2>1, <3>2 DEF Row
    <3> QED
      BY <3>3
  <2>6. bill' \in [Requests -> Row]
    BY <1>2, <2>1, <2>5 DEF PickCommit, TypeOK
  <2>7. picks' \in [Callers -> Picks] /\ TopUpsGrow'
    BY <1>2 DEF PickCommit, TypeOK, TopUpsGrow, Picks, IdlePick
  <2> QED
    BY <1>2, <2>4, <2>6, <2>7 DEF PickCommit, TypeOK, envVars
<1>3. CASE PickAborts(c)
  <2>1. picks' \in [Callers -> Picks] /\ TopUpsGrow'
    BY <1>3 DEF PickAborts, TypeOK, TopUpsGrow, Picks, IdlePick
  <2> QED
    BY <1>3, <2>1 DEF PickAborts, TypeOK, moneyVars, envVars
<1> QED
  BY <1>1, <1>2, <1>3

(* A claim keeps the types.                                                *)
LEMMA ClaimTypes ==
  ASSUME TypeOK, NEW l \in Lanes, NEW r \in Requests, Claim(l, r)
  PROVE  TypeOK' /\ UNCHANGED picks
<1> DEFINE moved == Moved(bill[r], "processing")
           held  == [moved EXCEPT !.attempts = bill[r].attempts + 1,
                       !.owner = Owner[l], !.token = bill[r].revision + 1, !.until = ClaimTicks]
           job   == [pc |-> "claimed", req |-> r, token |-> bill[r].revision + 1,
                     revision |-> bill[r].revision + 1,
                     attempt |-> bill[r].attempts + 1,
                     receipt |-> bill[r].receipt, fatal |-> FALSE]
<1>1. /\ bill[r] \in Row /\ bill[r].revision + 1 \in Nat
      /\ bill[r].attempts + 1 \in Nat
      /\ bill[r].receipt \in Receipts \cup {NoReceipt}
  BY DEF TypeOK, Row
<1>2. Owner[l] \in Workers \cup {Nobody} /\ ClaimTicks \in 0 .. ClaimTicks
  BY BillingAssumption DEF BillingAssumption
<1>3. moved \in Row
  BY <1>1, MovedRow DEF Statuses, Unsettled
<1>4. held \in Row
  <2> HIDE DEF moved
  <2>1. [moved EXCEPT !.attempts = bill[r].attempts + 1] \in Row
    BY <1>1, <1>3 DEF Row
  <2>2. [[moved EXCEPT !.attempts = bill[r].attempts + 1]
           EXCEPT !.owner = Owner[l]] \in Row
    BY <1>2, <2>1 DEF Row
  <2>3. [[[moved EXCEPT !.attempts = bill[r].attempts + 1]
           EXCEPT !.owner = Owner[l]]
           EXCEPT !.token = bill[r].revision + 1] \in Row
    BY <1>1, <2>2 DEF Row
  <2> QED
    BY <1>2, <2>3 DEF Row
<1>5. job \in Jobs
  BY <1>1 DEF Jobs
<1>6. bill' = [bill EXCEPT ![r] = held] /\ jobs' = [jobs EXCEPT ![l] = job]
  BY DEF Claim
<1> HIDE DEF held, job
<1>7. bill' \in [Requests -> Row] /\ jobs' \in [Lanes -> Jobs]
  BY <1>4, <1>5, <1>6 DEF TypeOK
<1> QED
  BY <1>7 DEF Claim, TypeOK, moneyVars, envVars

(* So does a settlement, which only runs on a receipt that has a cost.     *)
LEMMA SettleCommitTypes ==
  ASSUME TypeOK, NEW l \in Lanes, SettleCommit(l)
  PROVE  TypeOK' /\ UNCHANGED picks
<1> DEFINE r  == jobs[l].req
           rc == jobs[l].receipt
<1>1. /\ r \in Requests /\ rc \in Receipts /\ bill[r] \in Row
      /\ bill[r].channel \in Channels \cup {NoChannel}
      /\ bill[r].exposure \in Nat
  <2>1. r \in Requests /\ bill[r] \in Row
    BY BusyFields DEF SettleCommit, TypeOK
  <2>2. rc \in Receipts
    BY DEF SettleCommit, Unpayable
  <2> QED
    BY <2>1, <2>2 DEF Row
<1>2. /\ Cost[rc] \in Nat /\ UpstreamCost[rc] \in Nat /\ Reserve[r] \in Nat
      /\ Threshold \in Nat
  BY <1>1, BillingAssumption DEF BillingAssumption
<1>3. Consume(r, rc) \in Nat /\ Overage(r, rc) \in Nat
  BY <1>2 DEF Consume, Overage
<1>4. /\ hold' \in [Requests -> HoldStates]
      /\ resv' \in [Requests -> HoldStates]
  BY <1>1 DEF SettleCommit, TypeOK, HoldStates
<1>5. wallet' \in [balance : Int, inFlight : Int]
  <2>1. wallet' = [balance  |-> wallet.balance - Consume(r, rc) - Overage(r, rc),
                   inFlight |-> wallet.inFlight - Reserve[r]]
    BY DEF SettleCommit, Charged
  <2>2. wallet.balance \in Int /\ wallet.inFlight \in Int
    BY DEF TypeOK
  <2> QED
    BY <1>2, <1>3, <2>1, <2>2
<1>6. paid' \in [Requests -> Nat]
  <2>1. paid' = [paid EXCEPT ![r] = paid[r] + Consume(r, rc) + Overage(r, rc)]
    BY DEF SettleCommit
  <2> QED
    BY <1>1, <1>3, <2>1 DEF TypeOK
<1>7. usage' \subseteq Requests
  BY <1>1 DEF SettleCommit, TypeOK
<1>8. stock' \in [Channels -> Budgets]
  <2> DEFINE ch == bill[r].channel
  <2>1. stock' = Deducted(Freed(r), ch, UpstreamCost[rc])
    BY DEF SettleCommit
  <2>2. CASE ch = NoChannel
    BY <2>1, <2>2 DEF Deducted, Freed, TypeOK
  <2>3. CASE ch # NoChannel
    <3> DEFINE free == [stock[ch] EXCEPT !.reserved = stock[ch].reserved - bill[r].exposure]
    <3>1. ch \in Channels /\ stock \in [Channels -> Budgets]
      BY <1>1, <2>3 DEF TypeOK
    <3>2. Freed(r) = [stock EXCEPT ![ch] = free]
      BY <2>3 DEF Freed
    <3>3. stock[ch].reserved >= bill[r].exposure
      BY <2>3 DEF SettleCommit, CanFreeExposure
    <3>4. free \in Budgets
      BY <1>1, <3>1, <3>3 DEF Budgets
    <3> HIDE DEF free
    <3>5. Freed(r) \in [Channels -> Budgets] /\ Freed(r)[ch] = free
      BY <3>1, <3>2, <3>4
    <3> DEFINE on == free.enabled /\ free.budget - UpstreamCost[rc] > Threshold
               deducted == [budget   |-> free.budget - UpstreamCost[rc],
                            reserved |-> free.reserved, enabled |-> on]
    <3>6. deducted \in Budgets
      <4>1. on \in BOOLEAN
        OBVIOUS
      <4> HIDE DEF on
      <4> QED
        BY <1>2, <3>4, <4>1 DEF Budgets
    <3>7. stock' = [Freed(r) EXCEPT ![ch] = deducted]
      BY <2>1, <2>3, <3>5 DEF Deducted
    <3> HIDE DEF deducted
    <3> QED
      BY <3>1, <3>5, <3>6, <3>7
  <2> QED
    BY <2>2, <2>3
<1>9. bill' \in [Requests -> Row]
  <2>1. Moved(bill[r], "settled") \in Row
    BY <1>1, MovedRow DEF Statuses, Terminal
  <2>2. Unclaimed(Moved(bill[r], "settled")) \in Row
    BY <2>1, UnclaimedRow
  <2> QED
    BY <1>1, <2>2 DEF SettleCommit, TypeOK
<1>10. jobs' \in [Lanes -> Jobs]
  BY DEF SettleCommit, TypeOK, Jobs
<1> QED
  BY <1>4, <1>5, <1>6, <1>7, <1>8, <1>9, <1>10 DEF SettleCommit, TypeOK, envVars

(* The other steps of the lanes keep the types.                            *)
LEMMA LaneTypes ==
  ASSUME TypeOK, NEW l \in Lanes,
         \/ RenewClaim(l) \/ SettleVerify(l) \/ FinishFailure(l) \/ LaneDies(l)
         \/ \E fatal \in BOOLEAN : SettleThrows(l, fatal)
  PROVE  TypeOK' /\ UNCHANGED picks
<1> DEFINE r == jobs[l].req
<1>1. /\ jobs[l] \in Jobs /\ IdleJob \in Jobs
      /\ jobs[l].pc # "idle" => r \in Requests /\ bill[r] \in Row
  BY BusyFields DEF TypeOK, Jobs
<1>2. CASE RenewClaim(l)
  <2>1. /\ r \in Requests /\ bill[r] \in Row /\ ClaimTicks \in 0 .. ClaimTicks
        /\ bill' = [bill EXCEPT ![r] = [bill[r] EXCEPT !.until = ClaimTicks]]
    BY <1>1, <1>2, BillingAssumption DEF BillingAssumption, RenewClaim
  <2>2. [bill[r] EXCEPT !.until = ClaimTicks] \in Row
    BY <2>1 DEF Row
  <2>3. bill' \in [Requests -> Row]
    BY <2>1, <2>2 DEF TypeOK
  <2> QED
    BY <1>2, <2>3 DEF RenewClaim, TypeOK, moneyVars, envVars
<1>3. CASE SettleVerify(l)
  <2>1. jobs' \in [Lanes -> Jobs]
    BY <1>1, <1>3 DEF SettleVerify, TypeOK, Jobs, IdleJob
  <2> QED
    BY <1>3, <2>1 DEF SettleVerify, TypeOK, moneyVars, envVars
<1>4. CASE FinishFailure(l)
  <2>1. r \in Requests /\ bill[r] \in Row
    BY <1>1, <1>4 DEF FinishFailure, Finish
  <2>2. Requeued(bill[r], TRUE) \in Row
    BY <2>1, RequeuedRow
  <2>3. Moved(bill[r], "dead") \in Row
    BY <2>1, MovedRow DEF Statuses, Unsettled
  <2>4. Unclaimed(Moved(bill[r], "dead")) \in Row
    BY <2>3, UnclaimedRow
  <2>5. bill' \in [Requests -> Row]
    BY <1>4, <2>1, <2>2, <2>4 DEF FinishFailure, Finish, TypeOK
  <2>6. jobs' \in [Lanes -> Jobs]
    BY <1>1, <1>4 DEF FinishFailure, Finish, TypeOK
  <2> QED
    BY <1>4, <2>5, <2>6 DEF FinishFailure, Finish, TypeOK, moneyVars, envVars
<1>5. CASE LaneDies(l)
  <2>1. jobs' \in [Lanes -> Jobs] /\ faults' \in Nat
    BY <1>1, <1>5 DEF LaneDies, TypeOK
  <2> QED
    BY <1>5, <2>1 DEF LaneDies, TypeOK, moneyVars
<1>6. ASSUME NEW fatal \in BOOLEAN, SettleThrows(l, fatal)
      PROVE  TypeOK' /\ UNCHANGED picks
  <2>1. [jobs[l] EXCEPT !.pc = "failed"] \in Jobs \ {IdleJob}
    <3>1. jobs[l] \in Jobs \ {IdleJob}
      <4>1. jobs[l].pc \in {"claimed", "verified"}
        BY <1>6 DEF SettleThrows
      <4>2. IdleJob.pc = "idle"
        BY DEF IdleJob
      <4> QED
        BY <1>1, <4>1, <4>2
    <3>2. jobs[l] \in [pc : {"claimed", "verified", "failed"}, req : Requests,
                       token : Nat, revision : Nat, attempt : Nat,
                       receipt : Receipts \cup {NoReceipt}, fatal : BOOLEAN]
      BY <3>1 DEF Jobs
    <3>3. [jobs[l] EXCEPT !.pc = "failed"].pc # IdleJob.pc
      BY <3>2 DEF IdleJob
    <3>4. [jobs[l] EXCEPT !.pc = "failed"] \in Jobs
      BY <3>2 DEF Jobs
    <3> QED
      BY <3>3, <3>4
  <2>2. [[jobs[l] EXCEPT !.pc = "failed"] EXCEPT !.fatal = fatal] \in Jobs
    BY <2>1 DEF Jobs, IdleJob
  <2>3. jobs' \in [Lanes -> Jobs]
    BY <1>6, <2>2 DEF SettleThrows, TypeOK
  <2> QED
    BY <1>6, <2>3 DEF SettleThrows, TypeOK, moneyVars, envVars
<1> QED
  BY <1>2, <1>3, <1>4, <1>5, <1>6

(* An open case is about a request.                                        *)
LEMMA OpenCase ==
  ASSUME TypeOK, desk.open
  PROVE  desk.req \in Requests
<1>1. CASE desk = NoCase
  <2>1. desk.open = FALSE
    BY <1>1 DEF NoCase
  <2> QED
    BY <2>1, Zenon
<1>2. CASE desk # NoCase
  BY <1>2 DEF TypeOK
<1> QED
  BY <1>1, <1>2

(* A shutdown, recovery, the clocks and the review keep the types.         *)
LEMMA UpkeepTypes ==
  ASSUME TypeOK,
         (\E w \in Workers : Abandon(w)) \/ Recovery \/ Review
  PROVE  TypeOK' /\ UNCHANGED picks
<1>1. ASSUME NEW w \in Workers, Abandon(w)
      PROVE  TypeOK' /\ UNCHANGED picks
  <2>1. \A r \in Requests : bill[r] \in Row /\ Requeued(bill[r], FALSE) \in Row
    BY RequeuedRow DEF TypeOK
  <2>2. bill' \in [Requests -> Row]
    BY <1>1, <2>1 DEF Abandon
  <2>3. faults' \in Nat
    BY <1>1 DEF Abandon, TypeOK
  <2> QED
    BY <1>1, <2>2, <2>3 DEF Abandon, TypeOK, moneyVars
<1>2. ASSUME NEW r \in Requests, RecoverReleased(r)
      PROVE  TypeOK' /\ UNCHANGED picks
  <2>1. Moved(bill[r], "released") \in Row
    BY MovedRow DEF TypeOK, Statuses, Terminal
  <2>2. bill' \in [Requests -> Row]
    BY <1>2, <2>1 DEF RecoverReleased, TypeOK
  <2>3. ReleaseAll(r)
    BY <1>2 DEF RecoverReleased
  <2> QED
    BY <1>2, <2>2, <2>3, ReleaseAllTypes DEF RecoverReleased, TypeOK, envVars
<1>3. ASSUME NEW r \in Requests, RequeueExpired(r)
      PROVE  TypeOK' /\ UNCHANGED picks
  <2>1. Requeued(bill[r], FALSE) \in Row
    BY RequeuedRow DEF TypeOK
  <2>2. bill' \in [Requests -> Row]
    BY <1>3, <2>1 DEF RequeueExpired, TypeOK
  <2> QED
    BY <1>3, <2>2 DEF RequeueExpired, TypeOK, moneyVars, envVars
<1>4. ASSUME NEW r \in Requests,
             LeaseElapses(r) \/ ClaimElapses(r) \/ BackoffElapses(r)
      PROVE  TypeOK' /\ UNCHANGED picks
  <2>1. bill[r] \in Row
    BY DEF TypeOK
  <2>2. bill' \in [Requests -> Row]
    <3>1. CASE LeaseElapses(r)
      <4>1. [bill[r] EXCEPT !.lease = bill[r].lease - 1] \in Row
        BY <2>1, <3>1, BillingAssumption DEF BillingAssumption, LeaseElapses, Row
      <4> QED
        BY <3>1, <4>1 DEF LeaseElapses, TypeOK
    <3>2. CASE ClaimElapses(r)
      <4>1. [bill[r] EXCEPT !.until = bill[r].until - 1] \in Row
        BY <2>1, <3>2, BillingAssumption DEF BillingAssumption, ClaimElapses, Row
      <4> QED
        BY <3>2, <4>1 DEF ClaimElapses, TypeOK
    <3>3. CASE BackoffElapses(r)
      <4>1. [bill[r] EXCEPT !.backoff = FALSE] \in Row
        BY <2>1 DEF Row
      <4> QED
        BY <3>3, <4>1 DEF BackoffElapses, TypeOK
    <3> QED
      BY <1>4, <3>1, <3>2, <3>3
  <2>3. faults' \in Nat
    BY <1>4 DEF LeaseElapses, ClaimElapses, BackoffElapses, TypeOK, envVars
  <2> QED
    BY <1>4, <2>2, <2>3
       DEF LeaseElapses, ClaimElapses, BackoffElapses, TypeOK, moneyVars, envVars
<1>5. ASSUME NEW r \in Requests, ReviewOpens(r)
      PROVE  TypeOK' /\ UNCHANGED picks
  <2>1. /\ desk' \in {NoCase} \cup [open : {TRUE}, req : Requests, revision : Nat]
        /\ reviews' \in Nat
    BY <1>5 DEF ReviewOpens, TypeOK, Row
  <2> QED
    BY <1>5, <2>1 DEF ReviewOpens, TypeOK, moneyVars
<1>6. CASE ReviewRetries
  <2>1. desk.req \in Requests /\ bill[desk.req] \in Row
    BY <1>6, OpenCase DEF ReviewRetries, AsReviewed, TypeOK
  <2>2. Moved(bill[desk.req], "retry_wait") \in Row
    BY <2>1, MovedRow DEF Statuses, Unsettled, Queued
  <2>3. [Moved(bill[desk.req], "retry_wait") EXCEPT !.attempts = 0] \in Row
    BY <2>2 DEF Row
  <2>4. bill' \in [Requests -> Row]
    BY <1>6, <2>1, <2>3 DEF ReviewRetries, TypeOK
  <2> QED
    BY <1>6, <2>4 DEF ReviewRetries, TypeOK, moneyVars, envVars
<1>7. CASE ReviewAbandons
  <2>1. desk.req \in Requests /\ bill[desk.req] \in Row
    BY <1>7, OpenCase DEF ReviewAbandons, AsReviewed, TypeOK
  <2>2. Moved(bill[desk.req], "released") \in Row
    BY <2>1, MovedRow DEF Statuses, Terminal
  <2>3. Unclaimed(Moved(bill[desk.req], "released")) \in Row
    BY <2>2, UnclaimedRow
  <2>4. bill' \in [Requests -> Row]
    BY <1>7, <2>1, <2>3 DEF ReviewAbandons, TypeOK
  <2>5. ReleaseAll(desk.req)
    BY <1>7 DEF ReviewAbandons
  <2> QED
    BY <1>7, <2>1, <2>4, <2>5, ReleaseAllTypes DEF ReviewAbandons, TypeOK, envVars
<1>8. CASE ReviewCloses
  BY <1>8 DEF ReviewCloses, TypeOK, moneyVars, envVars
<1> QED
  BY <1>1, <1>2, <1>3, <1>4, <1>5, <1>6, <1>7, <1>8 DEF Recovery, Review

(* Every step keeps the types and the strengthening.                       *)
LEMMA StepTypes ==
  ASSUME TypeOK, TopUpsGrow, [Next]_vars
  PROVE  TypeOK' /\ TopUpsGrow'
<1>1. TypeOK' /\ UNCHANGED picks => TypeOK' /\ TopUpsGrow'
  BY DEF TopUpsGrow
<1>2. CASE Gateway
  BY <1>1, <1>2, GatewayTypes, SucceedTypes, PickTypes DEF Gateway
<1>3. CASE Settlement
  BY <1>1, <1>3, ClaimTypes, LaneTypes, SettleCommitTypes, UpkeepTypes
     DEF Settlement
<1>4. CASE Recovery \/ Review
  BY <1>1, <1>4, UpkeepTypes
<1>5. CASE UNCHANGED vars
  BY <1>5 DEF vars, TypeOK, TopUpsGrow
<1> QED
  BY <1>2, <1>3, <1>4, <1>5 DEF Next

(* Every reachable state has its types, for any number of requests,        *)
(* callers, lanes and workers: no update of billing.repo and channel.repo  *)
(* takes a channel's reserved exposure below zero.                         *)
THEOREM TypesHold == Spec => [](TypeOK /\ TopUpsGrow)
<1>1. Init => TypeOK /\ TopUpsGrow
  BY InitTypes
<1>2. TypeOK /\ TopUpsGrow /\ [Next]_vars => (TypeOK /\ TopUpsGrow)'
  BY StepTypes
<1> QED
  BY <1>1, <1>2, PTL DEF Spec

-----------------------------------------------------------------------------
(* What a step does, as far as money is concerned.                         *)

(* The row may move inside its stage: same receipt, a revision that does   *)
(* not fall, and no change at all once the stage is final.                 *)
RowKept(r) ==
  /\ Stage(bill'[r].status) = Stage(bill[r].status)
  /\ bill'[r].receipt = bill[r].receipt
  /\ bill'[r].revision >= bill[r].revision
  /\ bill[r].status \in Terminal => bill'[r] = bill[r]

(* No other row changes.                                                   *)
OnlyRow(r) == \A q \in Requests \ {r} : bill'[q] = bill[q]

(* The channel a row chose and what it is reckoned to cost there.          *)
ChannelKept(r) ==
  bill'[r].channel = bill[r].channel /\ bill'[r].exposure = bill[r].exposure

(* An open row chooses a channel, or another, and what it occupies is      *)
(* taken from what the one has left and given back to the other.           *)
Occupied(r, ch) == IF bill[r].channel = ch THEN bill[r].exposure ELSE 0

Rerouted(r) ==
  /\ bill[r].status \in Open /\ bill'[r].status = bill[r].status /\ OnlyRow(r)
  /\ \A ch \in Channels :
       /\ stock'[ch].budget = stock[ch].budget
       /\ stock'[ch].reserved = stock[ch].reserved - Occupied(r, ch) + Occupied(r, ch)'
       /\ \/ stock'[ch].reserved <= stock[ch].reserved
          \/ stock'[ch].reserved <= stock[ch].budget

(* One row moves from a status in `from' to `to'; the others stay.         *)
Moves(r, from, to) ==
  /\ bill[r].status \in from /\ ChannelKept(r)
  /\ bill'[r].status = to
  /\ bill'[r].revision >= bill[r].revision
  /\ OnlyRow(r)

Quiet ==
  /\ \A r \in Requests : RowKept(r)
  /\ UNCHANGED <<hold, resv, usage, paid, wallet>>
  /\ \/ UNCHANGED stock /\ \A r \in Requests : ChannelKept(r)
     \/ \E r \in Requests : Rerouted(r)

Taken(r) ==
  /\ Moves(r, {"none"}, "authorized")
  /\ bill'[r].receipt = bill[r].receipt
  /\ TakeHold(r)
  /\ UNCHANGED <<usage, paid, stock>>

Accepted(r) ==
  /\ Moves(r, Open, "settlement_pending")
  /\ bill'[r].receipt \in Receipts
  /\ bill'[r].revision > bill[r].revision
  /\ UNCHANGED <<hold, resv, usage, paid, wallet, stock>>

Settled(r) ==
  LET rc == bill[r].receipt IN
  /\ Moves(r, {"processing"}, "settled")
  /\ bill'[r].receipt = rc /\ rc \in Receipts
  /\ IF Funded(r)
       THEN /\ hold' = [hold EXCEPT ![r] =
                          IF Consume(r, rc) = 0 THEN "released" ELSE "settled"]
            /\ resv' = [resv EXCEPT ![r] = "settled"]
       ELSE UNCHANGED <<hold, resv>>
  /\ wallet' = Charged(r, rc)
  /\ paid'   = [paid EXCEPT ![r] = @ + Consume(r, rc) + Overage(r, rc)]
  /\ usage'  = usage \cup {r}
  /\ stock'  = Deducted(Freed(r), bill[r].channel, UpstreamCost[rc])

(* Dead, or back from the dead.                                            *)
Parked(r) ==
  /\ Moves(r, {"processing"}, "dead") \/ Moves(r, {"dead"}, "retry_wait")
  /\ bill'[r].receipt = bill[r].receipt
  /\ UNCHANGED <<hold, resv, usage, paid, wallet, stock>>

Released(r) ==
  /\ Moves(r, Open \cup {"dead"}, "released")
  /\ bill'[r].receipt = bill[r].receipt
  /\ ReleaseAll(r)

Effect(r) == \/ Taken(r) \/ Accepted(r) \/ Settled(r) \/ Parked(r)
             \/ Released(r)

(* A lane's claim: its token is the revision it made, which no later row   *)
(* goes back to; while the row is still at that revision it carries the    *)
(* receipt the lane works with; no two lanes have the same token.          *)
Claims ==
  /\ \A l \in Lanes :
       jobs[l].pc # "idle" =>
         LET row == bill[jobs[l].req] IN
         /\ jobs[l].token = jobs[l].revision
         /\ jobs[l].revision <= row.revision
         /\ jobs[l].revision = row.revision => jobs[l].receipt = row.receipt
  /\ \A k, l \in Lanes :
       /\ k # l /\ jobs[k].pc # "idle" /\ jobs[l].pc # "idle"
       /\ jobs[k].req = jobs[l].req
       => jobs[k].token # jobs[l].token

(* The stages, status by status.                                           *)
LEMMA Stages ==
  /\ Stage("none") = "none" /\ Stage("dead") = "parked"
  /\ Stage("settled") = "charged" /\ Stage("released") = "returned"
  /\ \A s \in Open : Stage(s) = "held"
  /\ \A s \in Queued \cup {"processing"} : Stage(s) = "owed"
BY DEF Stage, Open, Queued

(* A step that only changes one row, inside its stage, is quiet.           *)
LEMMA OneRowKept ==
  ASSUME TypeOK, NEW r \in Requests, OnlyRow(r),
         bill'[r].receipt = bill[r].receipt,
         bill'[r].revision >= bill[r].revision,
         Stage(bill'[r].status) = Stage(bill[r].status),
         bill[r].status \notin Terminal, UNCHANGED moneyVars, ChannelKept(r)
  PROVE  Quiet
<1>1. \A q \in Requests : bill[q].revision \in Nat
  BY DEF TypeOK, Row
<1>2. ASSUME NEW q \in Requests PROVE RowKept(q)
  <2>1. CASE q = r
    BY <2>1 DEF RowKept
  <2>2. CASE q # r
    BY <1>1, <2>2 DEF RowKept, OnlyRow
  <2> QED
    BY <2>1, <2>2
<1>3. \A q \in Requests : ChannelKept(q)
  BY DEF ChannelKept, OnlyRow
<1> QED
  BY <1>2, <1>3 DEF Quiet, moneyVars

(* A step that leaves the rows and the money alone is quiet.               *)
LEMMA NoRowChanged ==
  ASSUME TypeOK, UNCHANGED bill, UNCHANGED moneyVars
  PROVE  Quiet
<1>1. \A q \in Requests : bill[q].revision \in Nat
  BY DEF TypeOK, Row
<1> QED
  BY <1>1 DEF Quiet, RowKept, ChannelKept, moneyVars

(* The gateway's actions, one by one.                                      *)
LEMMA GatewayEffects ==
  ASSUME TypeOK, NEW r \in Requests,
         Authorize(r) \/ StartUpstream(r) \/ RenewLease(r) \/ SignalFailed(r)
  PROVE  Quiet \/ Effect(r)
<1>1. bill[r] \in Row /\ bill[r].revision \in Nat
  BY DEF TypeOK, Row
<1>2. CASE Authorize(r)
  <2> DEFINE row == [bill[r] EXCEPT !.status = "authorized", !.lease = LeaseTicks]
  <2>1. /\ row.status = "authorized" /\ row.receipt = bill[r].receipt
        /\ row.channel = bill[r].channel /\ row.exposure = bill[r].exposure
        /\ row.revision = bill[r].revision
    BY <1>1 DEF Row
  <2>2. bill' = [bill EXCEPT ![r] = row] /\ bill[r].status \in {"none"}
    BY <1>2 DEF Authorize
  <2> HIDE DEF row
  <2>3. Moves(r, {"none"}, "authorized") /\ bill'[r] = row
    BY <1>1, <2>1, <2>2 DEF Moves, ChannelKept, OnlyRow, TypeOK
  <2> QED
    BY <1>2, <2>1, <2>3 DEF Authorize, Effect, Taken
<1>3. CASE StartUpstream(r) \/ RenewLease(r)
  <2> DEFINE moved == Moved(bill[r], "in_flight")
             row == [moved EXCEPT !.lease = LeaseTicks]
  <2>1. /\ moved \in Row /\ moved.status = "in_flight"
        /\ moved.receipt = bill[r].receipt
        /\ moved.channel = bill[r].channel /\ moved.exposure = bill[r].exposure
        /\ moved.revision = bill[r].revision + 1
    BY <1>1, MovedRow DEF Statuses, Unsettled, Open
  <2>2. bill' = [bill EXCEPT ![r] = row] /\ bill[r].status \in Open
    BY <1>3 DEF StartUpstream, RenewLease, Open
  <2> HIDE DEF moved
  <2>3. /\ row.status = "in_flight" /\ row.receipt = bill[r].receipt
        /\ row.channel = bill[r].channel /\ row.exposure = bill[r].exposure
        /\ row.revision = bill[r].revision + 1
    BY <2>1 DEF Row
  <2> HIDE DEF row
  <2>4. /\ Stage(row.status) = Stage(bill[r].status)
        /\ bill[r].status \notin Terminal
    BY <2>2, <2>3, Stages DEF Open, Terminal
  <2>5. UNCHANGED moneyVars
    BY <1>3 DEF StartUpstream, RenewLease
  <2>6. bill'[r] = row /\ OnlyRow(r)
    BY <2>2 DEF OnlyRow, ChannelKept, TypeOK
  <2> QED
    BY <1>1, <2>3, <2>4, <2>5, <2>6, OneRowKept DEF ChannelKept
<1>4. CASE SignalFailed(r)
  <2> DEFINE moved == Moved(bill[r], "released")
             row == [moved EXCEPT !.lease = 0]
  <2>1. /\ moved \in Row /\ moved.status = "released"
        /\ moved.receipt = bill[r].receipt
        /\ moved.channel = bill[r].channel /\ moved.exposure = bill[r].exposure
        /\ moved.revision = bill[r].revision + 1
    BY <1>1, MovedRow DEF Statuses, Terminal
  <2>2. /\ bill' = [bill EXCEPT ![r] = row]
        /\ bill[r].status \in Open \cup {"dead"}
    BY <1>4 DEF SignalFailed
  <2> HIDE DEF moved
  <2>3. /\ row.status = "released" /\ row.receipt = bill[r].receipt
        /\ row.channel = bill[r].channel /\ row.exposure = bill[r].exposure
        /\ row.revision = bill[r].revision + 1
    BY <2>1 DEF Row
  <2> HIDE DEF row
  <2>4. Moves(r, Open \cup {"dead"}, "released") /\ bill'[r] = row
    BY <1>1, <2>2, <2>3 DEF Moves, ChannelKept, OnlyRow, TypeOK
  <2> QED
    BY <1>4, <2>3, <2>4 DEF SignalFailed, Effect, Released
<1> QED
  BY <1>2, <1>3, <1>4

(* reserveChannel reroutes the row it read.                                *)
LEMMA PickReroutes ==
  ASSUME TypeOK, NEW c \in Callers, PickCommit(c)
  PROVE  Quiet
<1>0. PICK p, r : p = picks[c] /\ r = p.req
  OBVIOUS
<1> DEFINE row == [bill[r] EXCEPT !.channel = p.channel, !.exposure = p.amount]
<1>1. /\ r \in Requests /\ bill[r] \in Row /\ bill[r].revision \in Nat
      /\ p.channel \in Channels /\ p.amount \in Nat
      /\ p.seenChannel \in Channels \cup {NoChannel} /\ p.seenExposure \in Nat
      /\ NoChannel \notin Channels
  <2>1. p \in Picks \ {IdlePick}
    BY <1>0 DEF PickCommit, TypeOK, IdlePick
  <2>2. /\ r \in Requests /\ p.channel \in Channels /\ p.amount \in Exposures
        /\ p.seenChannel \in Channels \cup {NoChannel} /\ p.seenExposure \in Nat
    BY <1>0, <2>1 DEF Picks
  <2> QED
    BY <2>2, BillingAssumption DEF TypeOK, Row, BillingAssumption
<1>2. /\ bill' = [bill EXCEPT ![r] = row] /\ bill[r].status \in Open
      /\ bill[r].channel = p.seenChannel /\ bill[r].exposure = p.seenExposure
      /\ UNCHANGED <<hold, resv, usage, paid, wallet>>
  BY <1>0 DEF PickCommit, StillAsSeen
<1>3. /\ row.status = bill[r].status /\ row.receipt = bill[r].receipt
      /\ row.revision = bill[r].revision
      /\ row.channel = p.channel /\ row.exposure = p.amount
  BY <1>1 DEF Row
<1> HIDE DEF row
<1>4. bill'[r] = row /\ OnlyRow(r)
  BY <1>1, <1>2 DEF OnlyRow, TypeOK
<1>5. ASSUME NEW q \in Requests PROVE RowKept(q)
  <2>1. CASE q = r
    BY <1>1, <1>2, <1>3, <1>4, <2>1 DEF RowKept, Open, Terminal
  <2>2. CASE q # r
    BY <1>4, <2>2 DEF RowKept, OnlyRow, TypeOK, Row
  <2> QED
    BY <2>1, <2>2
<1>6. ASSUME NEW ch \in Channels
      PROVE  /\ stock'[ch].budget = stock[ch].budget
             /\ stock'[ch].reserved = stock[ch].reserved - Occupied(r, ch) + Occupied(r, ch)'
             /\ \/ stock'[ch].reserved <= stock[ch].reserved
                \/ stock'[ch].reserved <= stock[ch].budget
  <2> DEFINE s == stock[ch]
  <2>1. s \in Budgets /\ s.reserved \in Int /\ s.budget \in Int
    BY DEF TypeOK, Budgets
  <2>2. /\ Occupied(r, ch) = IF p.seenChannel = ch THEN p.seenExposure ELSE 0
        /\ Occupied(r, ch)' = IF p.channel = ch THEN p.amount ELSE 0
    <3>1. bill'[r].channel = p.channel /\ bill'[r].exposure = p.amount
      BY <1>3, <1>4
    <3>2. Occupied(r, ch)' = IF bill'[r].channel = ch THEN bill'[r].exposure ELSE 0
      BY DEF Occupied
    <3> QED
      BY <1>2, <3>1, <3>2 DEF Occupied
  <2>3. CASE ch = p.channel
    <3>1. /\ stock'[ch] = [s EXCEPT !.reserved = s.reserved + Delta(p)]
          /\ s.budget - s.reserved >= Delta(p)
      BY <1>0, <2>3 DEF PickCommit, Room
    <3>2. Delta(p) = p.amount - Occupied(r, ch) /\ Delta(p) \in Int
      BY <1>1, <2>2, <2>3 DEF Delta
    <3>3. stock'[ch].reserved = s.reserved + Delta(p) /\ stock'[ch].budget = s.budget
      BY <2>1, <3>1 DEF Budgets
    <3>4. Occupied(r, ch) \in Int /\ Occupied(r, ch)' = p.amount
      BY <1>1, <2>2, <2>3
    <3> QED
      BY <2>1, <3>1, <3>2, <3>3, <3>4, <1>1
  <2>4. CASE ch # p.channel /\ ch = p.seenChannel
    <3>1. stock'[ch] = [s EXCEPT !.reserved = s.reserved - p.seenExposure]
      BY <1>0, <2>4 DEF PickCommit
    <3>2. stock'[ch].reserved = s.reserved - p.seenExposure /\ stock'[ch].budget = s.budget
      BY <2>1, <3>1 DEF Budgets
    <3>3. Occupied(r, ch) = p.seenExposure /\ Occupied(r, ch)' = 0
      BY <2>2, <2>4
    <3> QED
      BY <1>1, <2>1, <3>2, <3>3
  <2>5. CASE ch # p.channel /\ ch # p.seenChannel
    <3>1. stock'[ch] = s
      BY <1>0, <2>5 DEF PickCommit
    <3>2. Occupied(r, ch) = 0 /\ Occupied(r, ch)' = 0
      BY <2>2, <2>5
    <3> QED
      BY <2>1, <3>1, <3>2
  <2> QED
    BY <2>3, <2>4, <2>5
<1>7. Rerouted(r)
  BY <1>2, <1>3, <1>4, <1>6 DEF Rerouted
<1> QED
  BY <1>1, <1>2, <1>5, <1>7 DEF Quiet

(* request.succeeded and reserveChannel.                                   *)
LEMMA CallerEffects ==
  ASSUME TypeOK, NEW c \in Callers,
         \/ \E r \in Requests, rc \in Receipts : SucceedRead(c, r, rc)
         \/ SucceedCas(c) \/ SucceedReread(c) \/ CallEnds(c)
         \/ \E r \in Requests, ch \in Channels, amount \in Exposures :
              PickRead(c, r, ch, amount)
         \/ PickCommit(c) \/ PickAborts(c)
  PROVE  Quiet \/ \E r \in Requests : Effect(r)
<1>1. CASE SucceedCas(c) /\ bill[calls[c].req].status \in Open
  <2> DEFINE r == calls[c].req
             moved == Moved(bill[r], "settlement_pending")
             row == [moved EXCEPT !.receipt = calls[c].receipt, !.lease = 0]
  <2>1. /\ r \in Requests /\ calls[c].receipt \in Receipts /\ bill[r] \in Row
        /\ bill[r].revision \in Nat
    BY <1>1, BusyFields DEF SucceedCas, TypeOK, Row
  <2>2. /\ moved \in Row /\ moved.status = "settlement_pending"
        /\ moved.revision = bill[r].revision + 1
        /\ moved.channel = bill[r].channel /\ moved.exposure = bill[r].exposure
    BY <2>1, MovedRow DEF Statuses, Unsettled, Queued
  <2>3. bill' = [bill EXCEPT ![r] = row]
    BY <1>1 DEF SucceedCas
  <2> HIDE DEF moved
  <2>4. /\ row.status = "settlement_pending" /\ row.receipt \in Receipts
        /\ row.revision = bill[r].revision + 1
        /\ row.channel = bill[r].channel /\ row.exposure = bill[r].exposure
    BY <2>1, <2>2 DEF Row
  <2> HIDE DEF row
  <2>5. Moves(r, Open, "settlement_pending") /\ bill'[r] = row
    BY <1>1, <2>1, <2>3, <2>4 DEF Moves, ChannelKept, OnlyRow, TypeOK
  <2>6. Accepted(r)
    BY <1>1, <2>1, <2>4, <2>5 DEF SucceedCas, Accepted, moneyVars
  <2> QED
    BY <2>1, <2>6 DEF Effect
<1>2. CASE PickCommit(c)
  BY <1>2, PickReroutes
<1>3. CASE ~PickCommit(c) /\ ~(SucceedCas(c) /\ bill[calls[c].req].status \in Open)
  <2>1. UNCHANGED bill /\ UNCHANGED moneyVars
    BY <1>3 DEF SucceedRead, SucceedCas, SucceedReread, CallEnds, PickRead,
                PickAborts
  <2> QED
    BY <2>1, NoRowChanged
<1> QED
  BY <1>1, <1>2, <1>3

(* The lanes.  A lane that still holds its claim settles with the receipt  *)
(* that is on the row.                                                     *)
LEMMA LaneEffects ==
  ASSUME TypeOK, Claims, NEW l \in Lanes,
         \/ \E r \in Requests : Claim(l, r)
         \/ RenewClaim(l) \/ SettleVerify(l) \/ SettleCommit(l)
         \/ \E fatal \in BOOLEAN : SettleThrows(l, fatal)
         \/ FinishFailure(l) \/ LaneDies(l)
  PROVE  Quiet \/ \E r \in Requests : Effect(r)
<1> DEFINE r == jobs[l].req
<1>1. jobs[l].pc # "idle" =>
        r \in Requests /\ bill[r] \in Row /\ bill[r].revision \in Nat
  BY BusyFields DEF TypeOK, Row
<1>2. ASSUME NEW q \in Requests, Claim(l, q)
      PROVE  Quiet
  <2> DEFINE moved == Moved(bill[q], "processing")
             row == [moved EXCEPT !.attempts = bill[q].attempts + 1,
                       !.owner = Owner[l], !.token = bill[q].revision + 1,
                       !.until = ClaimTicks]
  <2>1. bill[q] \in Row /\ bill[q].revision \in Nat
    BY DEF TypeOK, Row
  <2>2. /\ moved \in Row /\ moved.status = "processing"
        /\ moved.receipt = bill[q].receipt
        /\ moved.channel = bill[q].channel /\ moved.exposure = bill[q].exposure
        /\ moved.revision = bill[q].revision + 1
    BY <2>1, MovedRow DEF Statuses, Unsettled
  <2>3. bill' = [bill EXCEPT ![q] = row] /\ bill[q].status \in Queued
    BY <1>2 DEF Claim
  <2> HIDE DEF moved
  <2>4. /\ row.status = "processing" /\ row.receipt = bill[q].receipt
        /\ row.channel = bill[q].channel /\ row.exposure = bill[q].exposure
        /\ row.revision = bill[q].revision + 1
    BY <2>2 DEF Row
  <2> HIDE DEF row
  <2>5. /\ Stage(row.status) = Stage(bill[q].status)
        /\ bill[q].status \notin Terminal
    BY <2>3, <2>4, Stages DEF Queued, Terminal
  <2>6. UNCHANGED moneyVars
    BY <1>2 DEF Claim
  <2>7. bill'[q] = row /\ OnlyRow(q)
    BY <2>3 DEF OnlyRow, ChannelKept, TypeOK
  <2> QED
    BY <2>1, <2>4, <2>5, <2>6, <2>7, OneRowKept DEF ChannelKept
<1>3. CASE RenewClaim(l)
  <2> DEFINE row == [bill[r] EXCEPT !.until = ClaimTicks]
  <2>1. /\ r \in Requests /\ bill' = [bill EXCEPT ![r] = row]
        /\ bill[r].status = "processing"
        /\ UNCHANGED moneyVars
    BY <1>1, <1>3 DEF RenewClaim
  <2>2. /\ row.status = bill[r].status /\ row.receipt = bill[r].receipt
        /\ row.channel = bill[r].channel /\ row.exposure = bill[r].exposure
        /\ row.revision = bill[r].revision /\ bill[r].revision \in Nat
    BY <1>1, <1>3 DEF RenewClaim, Row
  <2> HIDE DEF row
  <2>3. bill'[r] = row /\ OnlyRow(r)
    BY <2>1 DEF OnlyRow, ChannelKept, TypeOK
  <2> QED
    BY <2>1, <2>2, <2>3, OneRowKept DEF Terminal, ChannelKept
<1>4. CASE SettleCommit(l)
  <2> DEFINE rc == bill[r].receipt
             row == Unclaimed(Moved(bill[r], "settled"))
  <2>1. r \in Requests /\ bill[r] \in Row /\ bill[r].revision \in Nat
    BY <1>1, <1>4 DEF SettleCommit
  <2>2. /\ Moved(bill[r], "settled") \in Row
        /\ Moved(bill[r], "settled").status = "settled"
        /\ Moved(bill[r], "settled").receipt = rc
        /\ Moved(bill[r], "settled").channel = bill[r].channel
        /\ Moved(bill[r], "settled").exposure = bill[r].exposure
        /\ Moved(bill[r], "settled").revision = bill[r].revision + 1
    BY <2>1, MovedRow DEF Statuses, Terminal
  <2>3. /\ row.status = "settled" /\ row.receipt = rc
        /\ row.channel = bill[r].channel /\ row.exposure = bill[r].exposure
        /\ row.revision = bill[r].revision + 1
    BY <2>2, UnclaimedRow
  <2>4. jobs[l].receipt = rc
    BY <1>4 DEF SettleCommit, Holds, Claims
  <2>5. rc \in Receipts
    BY <1>4, <2>4 DEF SettleCommit, Unpayable
  <2>6. bill' = [bill EXCEPT ![r] = row] /\ bill[r].status \in {"processing"}
    BY <1>4 DEF SettleCommit, Holds
  <2> HIDE DEF row
  <2>7. Moves(r, {"processing"}, "settled") /\ bill'[r] = row
    BY <2>1, <2>3, <2>6 DEF Moves, ChannelKept, OnlyRow, TypeOK
  <2>8. Settled(r)
    BY <1>4, <2>3, <2>4, <2>5, <2>7 DEF SettleCommit, Settled
  <2> QED
    BY <2>1, <2>8 DEF Effect
<1>5. CASE FinishFailure(l) /\ Holds(l)
  <2>1. /\ r \in Requests /\ bill[r] \in Row /\ bill[r].revision \in Nat
        /\ bill[r].status = "processing"
        /\ UNCHANGED moneyVars
    BY <1>1, <1>5 DEF FinishFailure, Finish, Holds
  <2>2. CASE GoesDead(jobs[l])
    <3> DEFINE row == Unclaimed(Moved(bill[r], "dead"))
    <3>1. /\ Moved(bill[r], "dead") \in Row
          /\ Moved(bill[r], "dead").status = "dead"
          /\ Moved(bill[r], "dead").receipt = bill[r].receipt
          /\ Moved(bill[r], "dead").channel = bill[r].channel
          /\ Moved(bill[r], "dead").exposure = bill[r].exposure
          /\ Moved(bill[r], "dead").revision = bill[r].revision + 1
      BY <2>1, MovedRow DEF Statuses, Unsettled
    <3>2. /\ row.status = "dead" /\ row.receipt = bill[r].receipt
          /\ row.channel = bill[r].channel /\ row.exposure = bill[r].exposure
          /\ row.revision = bill[r].revision + 1
      BY <3>1, UnclaimedRow
    <3>3. bill' = [bill EXCEPT ![r] = row]
      BY <1>5, <2>2 DEF FinishFailure, Finish
    <3> HIDE DEF row
    <3>4. Moves(r, {"processing"}, "dead") /\ bill'[r] = row
      BY <2>1, <3>2, <3>3 DEF Moves, ChannelKept, OnlyRow, TypeOK
    <3>5. Parked(r)
      BY <2>1, <3>2, <3>4 DEF Parked, moneyVars
    <3> QED
      BY <2>1, <3>5 DEF Effect
  <2>3. CASE ~GoesDead(jobs[l])
    <3> DEFINE row == Requeued(bill[r], TRUE)
    <3>1. /\ row.status = "retry_wait" /\ row.receipt = bill[r].receipt
          /\ row.channel = bill[r].channel /\ row.exposure = bill[r].exposure
          /\ row.revision = bill[r].revision + 1
      BY <2>1, RequeuedRow
    <3>2. bill' = [bill EXCEPT ![r] = row]
      BY <1>5, <2>3 DEF FinishFailure, Finish
    <3> HIDE DEF row
    <3>3. /\ Stage(row.status) = Stage(bill[r].status)
          /\ bill[r].status \notin Terminal
      BY <2>1, <3>1, Stages DEF Queued, Terminal
    <3>4. bill'[r] = row /\ OnlyRow(r)
      BY <2>1, <3>2 DEF OnlyRow, ChannelKept, TypeOK
    <3> QED
      BY <2>1, <3>1, <3>3, <3>4, OneRowKept DEF ChannelKept
  <2> QED
    BY <2>2, <2>3
<1>6. CASE \/ SettleVerify(l) \/ LaneDies(l)
           \/ FinishFailure(l) /\ ~Holds(l)
           \/ \E fatal \in BOOLEAN : SettleThrows(l, fatal)
  <2>1. UNCHANGED bill /\ UNCHANGED moneyVars
    BY <1>6 DEF SettleVerify, LaneDies, FinishFailure, Finish, SettleThrows
  <2> QED
    BY <2>1, NoRowChanged
<1> QED
  BY <1>2, <1>3, <1>4, <1>5, <1>6

(* A shutdown puts back all the claims of a worker at once.                *)
LEMMA AbandonEffects ==
  ASSUME TypeOK, NEW w \in Workers, Abandon(w)
  PROVE  Quiet
<1>1. ASSUME NEW r \in Requests PROVE RowKept(r)
  <2>1. bill[r] \in Row /\ bill[r].revision \in Nat
    BY DEF TypeOK, Row
  <2>2. CASE bill[r].status = "processing" /\ bill[r].owner = w
    <3>1. bill'[r] = Requeued(bill[r], FALSE)
      BY <2>2 DEF Abandon
    <3>2. /\ bill'[r].status = "retry_wait" /\ bill'[r].receipt = bill[r].receipt
          /\ bill'[r].channel = bill[r].channel /\ bill'[r].exposure = bill[r].exposure
          /\ bill'[r].revision = bill[r].revision + 1
      BY <2>1, <3>1, RequeuedRow
    <3> QED
      BY <2>1, <2>2, <3>2, Stages DEF RowKept, Queued, Terminal
  <2>3. CASE ~(bill[r].status = "processing" /\ bill[r].owner = w)
    <3>1. bill'[r] = bill[r]
      BY <2>3 DEF Abandon
    <3> QED
      BY <2>1, <3>1 DEF RowKept
  <2> QED
    BY <2>2, <2>3
<1>2. \A r \in Requests : ChannelKept(r)
  <2> SUFFICES ASSUME NEW r \in Requests PROVE ChannelKept(r)
    OBVIOUS
  <2>1. bill[r] \in Row /\ bill'[r] \in {bill[r], Requeued(bill[r], FALSE)}
    BY DEF Abandon, TypeOK
  <2> QED
    BY <2>1, RequeuedRow DEF ChannelKept
<1> QED
  BY <1>1, <1>2 DEF Quiet, Abandon, moneyVars

(* Recovery and the clocks.                                                *)
LEMMA RecoveryEffects ==
  ASSUME TypeOK, NEW r \in Requests,
         \/ RecoverReleased(r) \/ RequeueExpired(r)
         \/ LeaseElapses(r) \/ ClaimElapses(r) \/ BackoffElapses(r)
  PROVE  Quiet \/ Effect(r)
<1>1. bill[r] \in Row /\ bill[r].revision \in Nat
  BY DEF TypeOK, Row
<1>2. CASE RecoverReleased(r)
  <2>1. bill'[r] = Moved(bill[r], "released") /\ OnlyRow(r)
    BY <1>2 DEF RecoverReleased, OnlyRow, TypeOK
  <2>2. /\ bill'[r].status = "released" /\ bill'[r].receipt = bill[r].receipt
        /\ bill'[r].channel = bill[r].channel /\ bill'[r].exposure = bill[r].exposure
        /\ bill'[r].revision = bill[r].revision + 1
    BY <1>1, <2>1, MovedRow DEF Statuses, Terminal
  <2>3. Moves(r, Open \cup {"dead"}, "released")
    BY <1>1, <1>2, <2>1, <2>2 DEF Moves, ChannelKept, RecoverReleased
  <2> QED
    BY <1>2, <2>2, <2>3 DEF RecoverReleased, Released, Effect
<1>3. CASE RequeueExpired(r)
  <2>1. bill'[r] = Requeued(bill[r], FALSE) /\ OnlyRow(r)
    BY <1>3 DEF RequeueExpired, OnlyRow, TypeOK
  <2>2. /\ bill'[r].status = "retry_wait" /\ bill'[r].receipt = bill[r].receipt
        /\ bill'[r].channel = bill[r].channel /\ bill'[r].exposure = bill[r].exposure
        /\ bill'[r].revision = bill[r].revision + 1
    BY <1>1, <2>1, RequeuedRow
  <2>3. /\ Stage(bill'[r].status) = Stage(bill[r].status)
        /\ bill[r].status \notin Terminal
    BY <1>3, <2>2, Stages DEF RequeueExpired, Queued, Terminal
  <2>4. UNCHANGED moneyVars
    BY <1>3 DEF RequeueExpired
  <2>5. bill'[r].revision >= bill[r].revision
    BY <1>1, <2>2
  <2> QED
    BY <2>1, <2>2, <2>3, <2>4, <2>5, OneRowKept DEF ChannelKept
<1>4. CASE LeaseElapses(r) \/ ClaimElapses(r) \/ BackoffElapses(r)
  <2>1. /\ \/ bill'[r] = [bill[r] EXCEPT !.lease = bill[r].lease - 1]
           \/ bill'[r] = [bill[r] EXCEPT !.until = bill[r].until - 1]
           \/ bill'[r] = [bill[r] EXCEPT !.backoff = FALSE]
        /\ OnlyRow(r)
    BY <1>4 DEF LeaseElapses, ClaimElapses, BackoffElapses, OnlyRow, TypeOK
  <2>2. /\ bill'[r].status = bill[r].status
        /\ bill'[r].receipt = bill[r].receipt
        /\ bill'[r].channel = bill[r].channel /\ bill'[r].exposure = bill[r].exposure
        /\ bill'[r].revision = bill[r].revision
    BY <1>1, <2>1 DEF Row
  <2>3. bill[r].status \notin Terminal
    BY <1>4 DEF LeaseElapses, ClaimElapses, BackoffElapses, Open, Terminal
  <2>4. UNCHANGED moneyVars
    BY <1>4 DEF LeaseElapses, ClaimElapses, BackoffElapses
  <2> QED
    BY <1>1, <2>1, <2>2, <2>3, <2>4, OneRowKept DEF ChannelKept
<1> QED
  BY <1>2, <1>3, <1>4

(* The review of dead rows.                                                *)
LEMMA ReviewEffects ==
  ASSUME TypeOK, Review
  PROVE  Quiet \/ \E r \in Requests : Effect(r)
<1> DEFINE r == desk.req
<1>1. CASE ReviewRetries
  <2>1. r \in Requests /\ bill[r] \in Row /\ bill[r].revision \in Nat
    BY <1>1, OpenCase DEF ReviewRetries, AsReviewed, TypeOK, Row
  <2> DEFINE moved == Moved(bill[r], "retry_wait")
  <2>2. /\ moved \in Row /\ moved.status = "retry_wait"
        /\ moved.receipt = bill[r].receipt
        /\ moved.channel = bill[r].channel /\ moved.exposure = bill[r].exposure
        /\ moved.revision = bill[r].revision + 1
    BY <2>1, MovedRow DEF Statuses, Unsettled, Queued
  <2>3. bill'[r] = [moved EXCEPT !.attempts = 0] /\ OnlyRow(r)
    BY <1>1, <2>1 DEF ReviewRetries, OnlyRow, TypeOK
  <2> HIDE DEF moved
  <2>4. /\ bill'[r].status = "retry_wait" /\ bill'[r].receipt = bill[r].receipt
        /\ bill'[r].channel = bill[r].channel /\ bill'[r].exposure = bill[r].exposure
        /\ bill'[r].revision = bill[r].revision + 1
    BY <2>2, <2>3 DEF Row
  <2>5. Moves(r, {"dead"}, "retry_wait")
    BY <1>1, <2>1, <2>3, <2>4 DEF Moves, ChannelKept, ReviewRetries, AsReviewed
  <2> QED
    BY <1>1, <2>1, <2>4, <2>5 DEF ReviewRetries, Parked, Effect, moneyVars
<1>2. CASE ReviewAbandons
  <2>1. r \in Requests /\ bill[r] \in Row /\ bill[r].revision \in Nat
    BY <1>2, OpenCase DEF ReviewAbandons, AsReviewed, TypeOK, Row
  <2>2. /\ Moved(bill[r], "released") \in Row
        /\ Moved(bill[r], "released").status = "released"
        /\ Moved(bill[r], "released").receipt = bill[r].receipt
        /\ Moved(bill[r], "released").channel = bill[r].channel
        /\ Moved(bill[r], "released").exposure = bill[r].exposure
        /\ Moved(bill[r], "released").revision = bill[r].revision + 1
    BY <2>1, MovedRow DEF Statuses, Terminal
  <2>3. bill'[r] = Unclaimed(Moved(bill[r], "released")) /\ OnlyRow(r)
    BY <1>2, <2>1 DEF ReviewAbandons, OnlyRow, TypeOK
  <2>4. /\ bill'[r].status = "released" /\ bill'[r].receipt = bill[r].receipt
        /\ bill'[r].channel = bill[r].channel /\ bill'[r].exposure = bill[r].exposure
        /\ bill'[r].revision = bill[r].revision + 1
    BY <2>2, <2>3, UnclaimedRow
  <2>5. Moves(r, Open \cup {"dead"}, "released")
    BY <1>2, <2>1, <2>3, <2>4 DEF Moves, ChannelKept, ReviewAbandons, AsReviewed
  <2> QED
    BY <1>2, <2>1, <2>4, <2>5 DEF ReviewAbandons, Released, Effect
<1>3. CASE (\E q \in Requests : ReviewOpens(q)) \/ ReviewCloses
  <2>1. UNCHANGED bill /\ UNCHANGED moneyVars
    BY <1>3 DEF ReviewOpens, ReviewCloses
  <2> QED
    BY <2>1, NoRowChanged
<1> QED
  BY <1>1, <1>2, <1>3 DEF Review

(* Every step is one of the seven cases.                                   *)
LEMMA StepEffects ==
  ASSUME TypeOK, Claims, [Next]_vars
  PROVE  Quiet \/ \E r \in Requests : Effect(r)
<1>1. CASE Gateway
  BY <1>1, GatewayEffects, CallerEffects DEF Gateway
<1>2. CASE Settlement
  BY <1>2, LaneEffects, AbandonEffects DEF Settlement
<1>3. CASE Recovery
  BY <1>3, RecoveryEffects DEF Recovery
<1>4. CASE Review
  BY <1>4, ReviewEffects
<1>5. CASE UNCHANGED vars
  BY <1>5, NoRowChanged DEF vars, moneyVars
<1> QED
  BY <1>1, <1>2, <1>3, <1>4, <1>5 DEF Next

-----------------------------------------------------------------------------
(* Claims are never confused.                                              *)

(* A row's revision does not fall, and its receipt only changes with it.   *)
LEMMA RevisionsGrow ==
  ASSUME TypeOK, Claims, [Next]_vars, NEW r \in Requests
  PROVE  /\ bill'[r].revision >= bill[r].revision
         /\ bill'[r].receipt # bill[r].receipt =>
              bill'[r].revision > bill[r].revision
<1>1. bill[r].revision \in Nat
  BY DEF TypeOK, Row
<1>2. CASE Quiet
  BY <1>2 DEF Quiet, RowKept
<1>3. ASSUME NEW q \in Requests, Effect(q)
      PROVE  /\ bill'[r].revision >= bill[r].revision
             /\ bill'[r].receipt # bill[r].receipt =>
                  bill'[r].revision > bill[r].revision
  <2>1. CASE q = r
    BY <1>3, <2>1 DEF Effect, Taken, Accepted, Settled, Parked, Released, Moves
  <2>2. CASE q # r
    <3>1. bill'[r] = bill[r]
      BY <1>3, <2>2
         DEF Effect, Taken, Accepted, Settled, Parked, Released, Moves, OnlyRow
    <3> QED
      BY <1>1, <3>1
  <2> QED
    BY <2>1, <2>2
<1> QED
  BY <1>2, <1>3, StepEffects

(* A lane ends its job, keeps it, or claims a row for a new one.           *)
JobKept(l) ==
  \/ jobs'[l].pc = "idle"
  \/ /\ jobs[l].pc # "idle"
     /\ jobs'[l].req = jobs[l].req /\ jobs'[l].token = jobs[l].token
     /\ jobs'[l].revision = jobs[l].revision
     /\ jobs'[l].receipt = jobs[l].receipt

(* A lane that keeps its job keeps what it claimed; a new job is a claim.  *)
LEMMA JobsKept ==
  ASSUME TypeOK, [Next]_vars
  PROVE  \/ \A l \in Lanes : JobKept(l)
         \/ \E l \in Lanes, r \in Requests : Claim(l, r)
<1> USE DEF JobKept
<1>1. UNCHANGED jobs => \A l \in Lanes : JobKept(l)
  OBVIOUS
<1>2. CASE Gateway
  BY <1>1, <1>2
     DEF Gateway, Authorize, StartUpstream, RenewLease, SignalFailed,
         SucceedRead, SucceedCas, SucceedReread, CallEnds,
         PickRead, PickCommit, PickAborts
<1>3. CASE Recovery \/ Review
  BY <1>1, <1>3
     DEF Recovery, RecoverReleased, RequeueExpired, LeaseElapses, ClaimElapses,
         BackoffElapses, Review, ReviewOpens, ReviewRetries, ReviewAbandons,
         ReviewCloses
<1>4. CASE UNCHANGED vars
  BY <1>1, <1>4 DEF vars
<1>5. ASSUME NEW w \in Workers, Abandon(w)
      PROVE  \A l \in Lanes : JobKept(l)
  BY <1>1, <1>5 DEF Abandon
<1>6. ASSUME NEW l \in Lanes,
             \/ RenewClaim(l) \/ SettleVerify(l) \/ SettleCommit(l)
             \/ \E fatal \in BOOLEAN : SettleThrows(l, fatal)
             \/ FinishFailure(l) \/ LaneDies(l)
      PROVE  \A k \in Lanes : JobKept(k)
  <2>1. CASE RenewClaim(l)
    BY <1>1, <2>1 DEF RenewClaim
  <2>2. CASE SettleCommit(l) \/ FinishFailure(l) \/ LaneDies(l)
    <3>1. jobs' = [jobs EXCEPT ![l] = IdleJob]
      BY <2>2 DEF SettleCommit, FinishFailure, Finish, LaneDies
    <3> QED
      BY <3>1 DEF IdleJob, TypeOK
  <2>3. CASE SettleVerify(l)
    <3>1. \/ jobs' = [jobs EXCEPT ![l] = IdleJob]
          \/ jobs' = [jobs EXCEPT ![l] = [jobs[l] EXCEPT !.pc = "verified"]]
      BY <2>3 DEF SettleVerify
    <3>2. jobs[l].pc # "idle"
      BY <2>3 DEF SettleVerify
    <3> QED
      BY <3>1, <3>2 DEF IdleJob, TypeOK, Jobs
  <2>4. ASSUME NEW fatal \in BOOLEAN, SettleThrows(l, fatal)
        PROVE  \A k \in Lanes : JobKept(k)
    <3>1. jobs' = [jobs EXCEPT ![l] = [jobs[l] EXCEPT !.pc = "failed", !.fatal = fatal]]
      BY <2>4 DEF SettleThrows
    <3>2. jobs[l].pc # "idle"
      BY <2>4 DEF SettleThrows
    <3> QED
      BY <3>1, <3>2 DEF IdleJob, TypeOK, Jobs
  <2> QED
    BY <1>6, <2>1, <2>2, <2>3, <2>4
<1> QED
  BY <1>2, <1>3, <1>4, <1>5, <1>6 DEF Next, Settlement

(* A new claim has a token that no lane has seen.                          *)
LEMMA ClaimsKept ==
  ASSUME TypeOK, TypeOK', Claims, [Next]_vars
  PROVE  Claims'
<1>1. \A r \in Requests :
        /\ bill[r].revision \in Nat /\ bill'[r].revision \in Nat
        /\ bill'[r].revision >= bill[r].revision
        /\ bill'[r].receipt # bill[r].receipt =>
             bill'[r].revision > bill[r].revision
  <2>1. bill' \in [Requests -> Row] /\ bill \in [Requests -> Row]
    BY DEF TypeOK
  <2> QED
    BY <2>1, RevisionsGrow DEF Row
<1>2. CASE \A l \in Lanes : JobKept(l)
  <2>1. \A l \in Lanes : jobs'[l].pc # "idle" =>
          /\ jobs[l].req \in Requests /\ jobs[l].revision \in Nat
    BY <1>2, BusyFields DEF JobKept
  <2> QED
    BY <1>1, <1>2, <2>1 DEF Claims, JobKept
<1>3. ASSUME NEW l \in Lanes, NEW r \in Requests, Claim(l, r)
      PROVE  Claims'
  <2>1. /\ jobs'[l].pc = "claimed" /\ jobs'[l].req = r
        /\ jobs'[l].token = bill[r].revision + 1
        /\ jobs'[l].revision = bill[r].revision + 1
        /\ jobs'[l].receipt = bill[r].receipt
        /\ \A k \in Lanes \ {l} : jobs'[k] = jobs[k]
    BY <1>3 DEF Claim, TypeOK
  <2>2. /\ bill'[r].revision = bill[r].revision + 1
        /\ bill'[r].receipt = bill[r].receipt
    <3> DEFINE moved == Moved(bill[r], "processing")
    <3>1. /\ moved \in Row /\ moved.receipt = bill[r].receipt
          /\ moved.revision = bill[r].revision + 1
      BY MovedRow DEF TypeOK, Statuses, Unsettled
    <3>2. bill'[r] = [moved EXCEPT !.attempts = bill[r].attempts + 1,
                        !.owner = Owner[l], !.token = bill[r].revision + 1,
                        !.until = ClaimTicks]
      BY <1>3 DEF Claim, TypeOK
    <3> HIDE DEF moved
    <3> QED
      BY <3>1, <3>2 DEF Row
  <2>3. \A k \in Lanes : jobs[k].pc # "idle" =>
          /\ jobs[k].req \in Requests /\ jobs[k].revision \in Nat
    BY BusyFields
  <2>4. \A k \in Lanes \ {l} : jobs'[k].pc # "idle" =>
          LET row == bill'[jobs'[k].req] IN
          /\ jobs'[k].token = jobs'[k].revision
          /\ jobs'[k].revision <= row.revision
          /\ jobs'[k].revision = row.revision => jobs'[k].receipt = row.receipt
    BY <1>1, <2>1, <2>3 DEF Claims
  <2>5. \A k \in Lanes \ {l} :
          jobs'[k].pc # "idle" /\ jobs'[k].req = r =>
            jobs'[k].token < bill[r].revision + 1
    BY <1>1, <2>1, <2>3 DEF Claims
  <2>6. \A j, k \in Lanes \ {l} :
          /\ j # k /\ jobs'[j].pc # "idle" /\ jobs'[k].pc # "idle"
          /\ jobs'[j].req = jobs'[k].req
          => jobs'[j].token # jobs'[k].token
    BY <2>1 DEF Claims
  <2> QED
    BY <1>1, <2>1, <2>2, <2>4, <2>5, <2>6 DEF Claims
<1> QED
  BY <1>2, <1>3, JobsKept

(* No two lanes, in one worker or in two, can both commit a request: a     *)
(* requeued, abandoned or retried claim leaves at most one valid token.    *)
THEOREM CommittersAreUnique ==
  TypeOK /\ Claims => OneCommitter
BY DEF OneCommitter, Claims, Holds

-----------------------------------------------------------------------------
(* Receipts and money.                                                     *)

(* A row has a receipt exactly since request.succeeded was accepted.       *)
RowSense ==
  \A r \in Requests :
    /\ bill[r].status \in {"none"} \cup Open => bill[r].receipt = NoReceipt
    /\ bill[r].status \in Queued \cup {"processing", "dead", "settled"} =>
         bill[r].receipt \in Receipts

Step == Quiet \/ \E r \in Requests : Effect(r)

(* Statuses in one stage ask for the same money.                           *)
LEMMA SameStage ==
  ASSUME NEW s \in Statuses, NEW t \in Statuses, Stage(s) = Stage(t)
  PROVE  /\ s = "none" <=> t = "none"
         /\ s \in Open <=> t \in Open
         /\ s \in Queued \cup {"processing"} <=> t \in Queued \cup {"processing"}
         /\ s = "dead" <=> t = "dead"
         /\ s = "settled" <=> t = "settled"
         /\ s = "released" <=> t = "released"
BY Stages DEF Statuses, Unsettled, Terminal, Open, Queued

(* What a step leaves of a row it is not about.                            *)
LEMMA OtherRows ==
  ASSUME NEW r \in Requests, Effect(r), NEW q \in Requests \ {r}
  PROVE  bill'[q] = bill[q]
BY DEF Effect, Taken, Accepted, Settled, Parked, Released, Moves, OnlyRow

(* A step keeps the receipts and statuses of the rows consistent.          *)
LEMMA RowSenseKept ==
  ASSUME TypeOK, TypeOK', RowSense, Step
  PROVE  RowSense'
<1>1. \A r \in Requests : bill[r].status \in Statuses /\ bill'[r].status \in Statuses
  BY DEF TypeOK, Row
<1>2. CASE Quiet
  BY <1>1, <1>2, SameStage DEF Quiet, RowKept, RowSense
<1>3. ASSUME NEW r \in Requests, Effect(r)
      PROVE  RowSense'
  <2>1. /\ bill'[r].status \in {"none"} \cup Open => bill'[r].receipt = NoReceipt
        /\ bill'[r].status \in Queued \cup {"processing", "dead", "settled"} =>
             bill'[r].receipt \in Receipts
    BY <1>3 DEF Effect, Taken, Accepted, Settled, Parked, Released, Moves,
                RowSense, Open, Queued
  <2> QED
    BY <1>3, <2>1, OtherRows DEF RowSense
<1> QED
  BY <1>2, <1>3 DEF Step

(* The hold and the reservation row move with the row.                     *)
LEMMA MoneyKept ==
  ASSUME TypeOK, TypeOK', RowSense, MoneyFollowsStatus, Step
  PROVE  MoneyFollowsStatus'
<1> DEFINE
      Follows(row, rv, hd, r) ==
        /\ ~Funded(r) \/ row.status = "none" => rv = "none"
        /\ Funded(r) /\ row.status \in Unsettled => rv = "active"
        /\ Funded(r) /\ row.status \in Terminal => rv = row.status
        /\ hd = IF rv = "settled" /\ Consume(r, row.receipt) = 0
                THEN "released" ELSE rv
<1>1. /\ bill \in [Requests -> Row] /\ bill' \in [Requests -> Row]
      /\ hold \in [Requests -> HoldStates] /\ resv \in [Requests -> HoldStates]
      /\ \A r \in Requests : bill[r].status \in Statuses /\ bill'[r].status \in Statuses
  BY DEF TypeOK, Row
<1>2. \A r \in Requests : Follows(bill[r], resv[r], hold[r], r)
  BY <1>1 DEF MoneyFollowsStatus, Statuses, Unsettled, Terminal, Open, Queued
<1>3. CASE Quiet
  <2>1. ASSUME NEW r \in Requests
        PROVE  Follows(bill'[r], resv[r], hold[r], r)
    <3>1. CASE bill[r].status \in Terminal
      BY <1>2, <1>3, <3>1 DEF Quiet, RowKept
    <3>2. CASE bill[r].status \notin Terminal
      <4>1. /\ bill[r].status = "none" <=> bill'[r].status = "none"
            /\ bill[r].status \in Unsettled <=> bill'[r].status \in Unsettled
            /\ bill'[r].status \notin Terminal
            /\ bill'[r].receipt = bill[r].receipt
        BY <1>1, <1>3, <3>2, SameStage DEF Quiet, RowKept, Unsettled, Terminal
      <4>2. Follows(bill[r], resv[r], hold[r], r)
        BY <1>2
      <4> QED
        BY <3>2, <4>1, <4>2
    <3> QED
      BY <3>1, <3>2
  <2> QED
    BY <1>1, <1>3, <2>1
       DEF Quiet, MoneyFollowsStatus, Statuses, Unsettled, Terminal, Open, Queued
<1>4. ASSUME NEW r \in Requests, Effect(r)
      PROVE  MoneyFollowsStatus'
  <2>1. Follows(bill'[r], resv'[r], hold'[r], r)
    <3>1. CASE Taken(r)
      BY <1>1, <1>2, <3>1
         DEF Taken, Moves, TakeHold, Unsettled, Terminal, Open, Queued
    <3>2. CASE Accepted(r) \/ Parked(r)
      BY <1>1, <1>2, <3>2
         DEF Accepted, Parked, Moves, Unsettled, Terminal, Open, Queued
    <3>3. CASE Settled(r)
      BY <1>1, <1>2, <3>3
         DEF Settled, Moves, Unsettled, Terminal, Open, Queued
    <3>4. CASE Released(r)
      BY <1>1, <1>2, <3>4
         DEF Released, Moves, ReleaseAll, Unsettled, Terminal, Open, Queued
    <3> QED
      BY <1>4, <3>1, <3>2, <3>3, <3>4 DEF Effect
  <2>2. \A q \in Requests \ {r} :
          bill'[q] = bill[q] /\ hold'[q] = hold[q] /\ resv'[q] = resv[q]
    <3>1. \A q \in Requests \ {r} : bill'[q] = bill[q]
      BY <1>4, OtherRows
    <3>2. \A q \in Requests \ {r} : hold'[q] = hold[q] /\ resv'[q] = resv[q]
      BY <1>1, <1>4 DEF Effect, Taken, Accepted, Settled, Parked, Released,
                        TakeHold, ReleaseAll
    <3> QED
      BY <3>1, <3>2
  <2>3. \A q \in Requests : Follows(bill'[q], resv'[q], hold'[q], q)
    BY <1>2, <2>1, <2>2
  <2> QED
    BY <1>1, <2>3
       DEF MoneyFollowsStatus, Statuses, Unsettled, Terminal, Open, Queued
<1> QED
  BY <1>3, <1>4 DEF Step

(* The charge and the usage row come with the settlement only.             *)
LEMMA ChargeKept ==
  ASSUME TypeOK, TypeOK', RowSense, ChargedOnce, Step
  PROVE  ChargedOnce'
<1>1. /\ paid \in [Requests -> Nat]
      /\ \A r \in Requests : bill[r].status \in Statuses /\ bill'[r].status \in Statuses
  BY DEF TypeOK, Row
<1>2. CASE Quiet
  BY <1>1, <1>2, SameStage DEF Quiet, RowKept, ChargedOnce
<1>3. ASSUME NEW r \in Requests, Effect(r)
      PROVE  ChargedOnce'
  <2>1. \A q \in Requests \ {r} :
          bill'[q] = bill[q] /\ paid'[q] = paid[q] /\ (q \in usage' <=> q \in usage)
    <3>1. \A q \in Requests \ {r} : bill'[q] = bill[q]
      BY <1>3, OtherRows
    <3>2. \A q \in Requests \ {r} : paid'[q] = paid[q] /\ (q \in usage' <=> q \in usage)
      BY <1>1, <1>3 DEF Effect, Taken, Accepted, Settled, Parked, Released, ReleaseAll
    <3> QED
      BY <3>1, <3>2
  <2>2. /\ paid'[r] = IF bill'[r].status = "settled" THEN Cost[bill'[r].receipt] ELSE 0
        /\ r \in usage' <=> bill'[r].status = "settled"
    <3>1. CASE Settled(r)
      <4> DEFINE rc == bill[r].receipt
      <4>1. Cost[rc] \in Nat /\ Reserve[r] \in Nat
        BY <3>1, BillingAssumption DEF BillingAssumption, Settled
      <4>2. Consume(r, rc) + Overage(r, rc) = Cost[rc]
        BY <4>1 DEF Consume, Overage
      <4>3. Consume(r, rc) \in Int /\ Overage(r, rc) \in Int
        BY <4>1 DEF Consume, Overage
      <4>4. paid[r] = 0
        BY <3>1 DEF Settled, Moves, ChargedOnce
      <4>5. paid'[r] = paid[r] + Consume(r, rc) + Overage(r, rc)
        BY <1>1, <3>1 DEF Settled
      <4>6. paid'[r] = Cost[rc]
        BY <4>2, <4>3, <4>4, <4>5
      <4> QED
        BY <3>1, <4>6 DEF Settled, Moves
    <3>2. CASE Taken(r) \/ Accepted(r) \/ Parked(r) \/ Released(r)
      BY <1>1, <3>2 DEF Taken, Accepted, Parked, Released, ReleaseAll, Moves,
                        Open, ChargedOnce
    <3> QED
      BY <1>3, <3>1, <3>2 DEF Effect
  <2> QED
    BY <2>1, <2>2 DEF ChargedOnce
<1> QED
  BY <1>2, <1>3 DEF Step

-----------------------------------------------------------------------------
(* Theorems of the specification.                                          *)

(* A caller told that its receipt was taken holds the row's receipt.       *)
LEMMA ReceiptsStay ==
  ASSUME TypeOK, RowSense, Step, NEW r \in Requests,
         bill[r].receipt # NoReceipt
  PROVE  /\ bill'[r].receipt = bill[r].receipt
         /\ bill'[r].status = "released" => bill[r].status \in {"dead", "released"}
<1>1. bill[r].status \notin {"none"} \cup Open
  BY DEF RowSense
<1>2. CASE Quiet
  <2>1. bill'[r].status = "released" => bill[r].status = "released"
    <3>1. bill[r].status \in Statuses
      BY DEF TypeOK, Row
    <3>2. Stage(bill'[r].status) = Stage(bill[r].status)
      BY <1>2 DEF Quiet, RowKept
    <3> QED
      BY <3>1, <3>2, SameStage DEF Statuses, Terminal
  <2> QED
    BY <1>2, <2>1 DEF Quiet, RowKept
<1>3. ASSUME NEW q \in Requests, Effect(q)
      PROVE  /\ bill'[r].receipt = bill[r].receipt
             /\ bill'[r].status = "released" => bill[r].status \in {"dead", "released"}
  <2>1. CASE q = r
    BY <1>1, <1>3, <2>1 DEF Effect, Taken, Accepted, Settled, Parked, Released, Moves
  <2>2. CASE q # r
    <3>1. bill'[r] = bill[r]
      BY <1>3, <2>2, OtherRows
    <3>2. bill[r].status = "released" => bill[r].status \in {"dead", "released"}
      OBVIOUS
    <3> QED
      BY <3>1, <3>2
  <2> QED
    BY <2>1, <2>2
<1> QED
  BY <1>2, <1>3 DEF Step

(* Only request.succeeded touches its calls.                               *)
LEMMA CallsChange ==
  ASSUME [Next]_vars
  PROVE  UNCHANGED calls \/ \E d \in Callers :
           \/ SucceedCas(d) \/ SucceedReread(d) \/ CallEnds(d)
           \/ \E r \in Requests, rc \in Receipts : SucceedRead(d, r, rc)
<1>1. CASE Gateway
  BY <1>1 DEF Gateway, Authorize, StartUpstream, RenewLease, SignalFailed,
              PickRead, PickCommit, PickAborts
<1>2. CASE Settlement
  BY <1>2 DEF Settlement, Claim, RenewClaim, SettleVerify, SettleCommit,
              SettleThrows, FinishFailure, Finish, LaneDies, Abandon
<1>3. CASE Recovery \/ Review
  BY <1>3
     DEF Recovery, RecoverReleased, RequeueExpired, LeaseElapses, ClaimElapses,
         BackoffElapses, Review, ReviewOpens, ReviewRetries, ReviewAbandons,
         ReviewCloses
<1>4. CASE UNCHANGED vars
  BY <1>4 DEF vars
<1> QED
  BY <1>1, <1>2, <1>3, <1>4 DEF Next

(* No step makes an answer that request.succeeded gave untrue.             *)
LEMMA AnswersKept ==
  ASSUME TypeOK, RowSense, Step, AcceptedMeansRecorded, [Next]_vars
  PROVE  AcceptedMeansRecorded'
<1> SUFFICES ASSUME NEW c \in Callers, calls'[c].pc \in {"changed", "replayed"}
             PROVE  bill'[calls'[c].req].receipt = calls'[c].receipt
  BY DEF AcceptedMeansRecorded
<1>1. NoReceipt \notin Receipts
  BY BillingAssumption DEF BillingAssumption
<1>2. CASE calls'[c] = calls[c]
  <2>1. /\ bill[calls[c].req].receipt = calls[c].receipt
        /\ calls[c].req \in Requests /\ calls[c].receipt \in Receipts
    BY <1>2, BusyFields DEF AcceptedMeansRecorded
  <2>2. bill'[calls[c].req].receipt = bill[calls[c].req].receipt
    BY <1>1, <2>1, ReceiptsStay
  <2> QED
    BY <1>2, <2>1, <2>2
<1>3. ASSUME NEW r \in Requests, NEW rc \in Receipts, SucceedRead(c, r, rc)
      PROVE  bill'[calls'[c].req].receipt = calls'[c].receipt
  BY <1>3 DEF SucceedRead, IsReplay, TypeOK
<1>4. CASE SucceedCas(c)
  <2> DEFINE r == calls[c].req
             moved == Moved(bill[r], "settlement_pending")
  <2>1. r \in Requests
    BY <1>4, BusyFields DEF SucceedCas
  <2>2. /\ bill[r].status \in Open
        /\ calls'[c].req = r /\ calls'[c].receipt = calls[c].receipt
        /\ bill'[r] = [moved EXCEPT !.receipt = calls[c].receipt, !.lease = 0]
    <3>1. calls[c] \in [pc : {"cas", "reread", "changed", "replayed", "conflict"},
                        req : Requests, receipt : Receipts]
      BY <1>4 DEF SucceedCas, TypeOK, Calls, IdleCall
    <3>2. CASE bill[r].status \in Open
      <4>1. calls' = [calls EXCEPT ![c] = [calls[c] EXCEPT !.pc = "changed"]]
        BY <1>4, <3>2 DEF SucceedCas
      <4>2. bill'[r] = [moved EXCEPT !.receipt = calls[c].receipt, !.lease = 0]
        BY <1>4, <2>1, <3>2 DEF SucceedCas, TypeOK
      <4> QED
        BY <3>1, <3>2, <4>1, <4>2 DEF TypeOK
    <3>3. CASE bill[r].status \notin Open
      <4>1. calls' = [calls EXCEPT ![c] = [calls[c] EXCEPT !.pc = "reread"]]
        BY <1>4, <3>3 DEF SucceedCas
      <4> QED
        BY <3>1, <4>1 DEF TypeOK
    <3> QED
      BY <3>2, <3>3
  <2>3. moved \in Row
    BY <2>1, MovedRow DEF TypeOK, Statuses, Unsettled, Queued
  <2> HIDE DEF moved
  <2> QED
    BY <2>2, <2>3 DEF Row
<1>5. CASE SucceedReread(c)
  BY <1>5, BusyFields DEF SucceedReread, IsReplay, TypeOK, Calls
<1>6. CASE CallEnds(c)
  BY <1>6 DEF CallEnds, IdleCall, TypeOK
<1>7. CASE /\ calls'[c] # calls[c]
           /\ ~SucceedCas(c) /\ ~SucceedReread(c) /\ ~CallEnds(c)
           /\ \A r \in Requests, rc \in Receipts : ~SucceedRead(c, r, rc)
  <2>1. \A d \in Callers :
          \/ SucceedCas(d) \/ SucceedReread(d) \/ CallEnds(d)
          \/ \E r \in Requests, rc \in Receipts : SucceedRead(d, r, rc)
          => d = c \/ calls'[c] = calls[c]
    BY DEF SucceedRead, SucceedCas, SucceedReread, CallEnds, TypeOK
  <2>2. UNCHANGED calls \/ \E d \in Callers :
          \/ SucceedCas(d) \/ SucceedReread(d) \/ CallEnds(d)
          \/ \E r \in Requests, rc \in Receipts : SucceedRead(d, r, rc)
    BY CallsChange
  <2> QED
    BY <1>7, <2>1, <2>2
<1> QED
  BY <1>2, <1>3, <1>4, <1>5, <1>6, <1>7

(* What is always true, together.                                          *)
Safe ==
  /\ TypeOK /\ TopUpsGrow /\ Claims /\ RowSense
  /\ MoneyFollowsStatus /\ ChargedOnce /\ AcceptedMeansRecorded

(* It is true at first, and every step keeps it.                           *)
LEMMA InitSafe == Init => Safe
<1> SUFFICES ASSUME Init PROVE Safe
  OBVIOUS
<1>1. TypeOK /\ TopUpsGrow
  BY InitTypes
<1>2. Claims
  BY DEF Init, Claims, IdleJob
<1>3. RowSense /\ ChargedOnce
  BY DEF Init, NewRow, RowSense, ChargedOnce, Open, Queued
<1>4. MoneyFollowsStatus
  BY DEF Init, NewRow, MoneyFollowsStatus, Unsettled, Terminal, Open, Queued
<1>5. AcceptedMeansRecorded
  BY DEF Init, IdleCall, AcceptedMeansRecorded
<1> QED
  BY <1>1, <1>2, <1>3, <1>4, <1>5 DEF Safe

(* Every step keeps the inductive invariant.                               *)
LEMMA StepSafe == Safe /\ [Next]_vars => Safe'
<1> SUFFICES ASSUME Safe, [Next]_vars PROVE Safe'
  OBVIOUS
<1> USE DEF Safe
<1>1. TypeOK' /\ TopUpsGrow'
  BY StepTypes
<1>2. Step
  BY StepEffects DEF Step
<1> QED
  BY <1>1, <1>2, ClaimsKept, RowSenseKept, MoneyKept, ChargeKept, AnswersKept

(* So it holds in every reachable state.                                   *)
THEOREM SafeHolds == Spec => []Safe
BY InitSafe, StepSafe, PTL DEF Spec

(* The hold and the reservation row of every request, funded or free, are  *)
(* where the row's status says, whatever the interleaving.                 *)
THEOREM MoneyAlwaysFollows == Spec => []MoneyFollowsStatus
<1>1. Safe => MoneyFollowsStatus
  BY DEF Safe
<1> QED
  BY <1>1, SafeHolds, PTL

(* No request is ever charged twice, or anything but its receipt's cost.   *)
THEOREM AlwaysChargedOnce == Spec => []ChargedOnce
<1>1. Safe => ChargedOnce
  BY DEF Safe
<1> QED
  BY <1>1, SafeHolds, PTL

(* At any time at most one lane can commit a request.                      *)
THEOREM AlwaysOneCommitter == Spec => []OneCommitter
<1>1. Safe => OneCommitter
  BY CommittersAreUnique DEF Safe
<1> QED
  BY <1>1, SafeHolds, PTL

(* A caller's "changed" or "replayed" answer stays true.                   *)
THEOREM AnswersAreTrue == Spec => []AcceptedMeansRecorded
<1>1. Safe => AcceptedMeansRecorded
  BY DEF Safe
<1> QED
  BY <1>1, SafeHolds, PTL

(* A settled or released row is never written again.                       *)
THEOREM FinalRowsStay == Spec => TerminalIsFinal
<1>1. Safe /\ [Next]_vars =>
        [\A r \in Requests : bill[r].status \in Terminal => bill'[r] = bill[r]]_vars
  <2> SUFFICES ASSUME Safe, [Next]_vars, NEW r \in Requests,
                      bill[r].status \in Terminal
               PROVE  bill'[r] = bill[r]
    OBVIOUS
  <2>1. Step
    BY StepEffects DEF Safe, Step
  <2>2. CASE Quiet
    BY <2>2 DEF Quiet, RowKept
  <2>3. ASSUME NEW q \in Requests, Effect(q)
        PROVE  bill'[r] = bill[r]
    <3>1. q # r
      BY <2>3 DEF Effect, Taken, Accepted, Settled, Parked, Released, Moves,
                  Terminal, Open
    <3> QED
      BY <2>3, <3>1, OtherRows
  <2> QED
    BY <2>1, <2>2, <2>3 DEF Step
<1> QED
  BY <1>1, SafeHolds, PTL DEF Spec, TerminalIsFinal

(* An accepted receipt stays, and only a human lets its request go free.   *)
THEOREM ReceiptsAreKept == Spec => AcceptedIsNotForgotten
<1>1. Safe /\ [Next]_vars =>
        [\A r \in Requests :
           bill[r].receipt # NoReceipt =>
             /\ bill'[r].receipt = bill[r].receipt
             /\ bill'[r].status = "released" =>
                  bill[r].status \in {"dead", "released"}]_vars
  BY StepEffects, ReceiptsStay DEF Safe, Step
<1> QED
  BY <1>1, SafeHolds, PTL DEF Spec, AcceptedIsNotForgotten

-----------------------------------------------------------------------------
(* The CHECK constraints of the table.                                     *)

(* The claim columns of a row are set exactly while it is processing.      *)
ClaimFits(row) ==
  /\ row.status = "processing" <=> row.owner # Nobody
  /\ row.status = "processing" <=> row.token # 0

ClaimsFit == \A r \in Requests : ClaimFits(bill[r])

(* A move between two statuses that carry no claim; clearing the claim;    *)
(* taking one.                                                             *)
LEMMA FitMoves ==
  ASSUME NEW row \in Row, NEW to \in Statuses \ {"processing"}
  PROVE  /\ ClaimFits(row) /\ row.status # "processing" => ClaimFits(Moved(row, to))
         /\ ClaimFits(Unclaimed(Moved(row, to)))
BY DEF ClaimFits, Moved, Unclaimed, Row

LEMMA FitRequeue ==
  ASSUME NEW row \in Row, NEW later \in BOOLEAN
  PROVE  ClaimFits(Requeued(row, later))
<1> DEFINE free == Unclaimed(Moved(row, "retry_wait"))
<1>1. "retry_wait" \in Statuses \ {"processing"}
  BY DEF Statuses, Unsettled, Queued
<1>2. free \in Row /\ ClaimFits(free)
  BY <1>1, FitMoves, MovedRow, UnclaimedRow
<1>3. Requeued(row, later) = [free EXCEPT !.backoff = later]
  BY DEF Requeued
<1> HIDE DEF free
<1> QED
  BY <1>2, <1>3 DEF ClaimFits, Row

(* An update of one row leaves the others as they were.                    *)
LEMMA FitUpdate ==
  ASSUME TypeOK, ClaimsFit, NEW r \in Requests, NEW row,
         bill' = [bill EXCEPT ![r] = row], ClaimFits(row)
  PROVE  ClaimsFit'
BY DEF TypeOK, ClaimsFit

(* The gateway moves rows that carry no claim.                             *)
LEMMA GatewayFits ==
  ASSUME TypeOK, ClaimsFit, Gateway
  PROVE  ClaimsFit'
<1>1. \A r \in Requests : bill[r] \in Row /\ ClaimFits(bill[r])
  BY DEF TypeOK, ClaimsFit
<1>2. ASSUME NEW r \in Requests, NEW row, NEW to \in Statuses \ {"processing"},
             bill[r].status # "processing",
             \/ row = Moved(bill[r], to)
             \/ \E t \in 0 .. LeaseTicks : row = [Moved(bill[r], to) EXCEPT !.lease = t]
             \/ \E t \in 0 .. LeaseTicks, rc \in Receipts :
                  row = [Moved(bill[r], to) EXCEPT !.receipt = rc, !.lease = t]
      PROVE  ClaimFits(row)
  <2>1. Moved(bill[r], to) \in Row /\ ClaimFits(Moved(bill[r], to))
    BY <1>1, <1>2, MovedRow, FitMoves
  <2> QED
    BY <1>2, <2>1 DEF ClaimFits, Row
<1>3. 0 \in 0 .. LeaseTicks /\ LeaseTicks \in 0 .. LeaseTicks
  BY BillingAssumption DEF BillingAssumption
<1>4. {"in_flight", "settlement_pending", "released"} \subseteq Statuses \ {"processing"}
  BY DEF Statuses, Unsettled, Open, Queued, Terminal
<1>5. ASSUME NEW r \in Requests, Authorize(r) PROVE ClaimsFit'
  <2> DEFINE row == [bill[r] EXCEPT !.status = "authorized", !.lease = LeaseTicks]
  <2>1. bill' = [bill EXCEPT ![r] = row]
    BY <1>5 DEF Authorize
  <2>2. ClaimFits(row)
    BY <1>1, <1>5 DEF Authorize, ClaimFits, Row
  <2> QED
    BY <2>1, <2>2, FitUpdate
<1>6. ASSUME NEW r \in Requests, StartUpstream(r) \/ RenewLease(r) PROVE ClaimsFit'
  <2> DEFINE row == [Moved(bill[r], "in_flight") EXCEPT !.lease = LeaseTicks]
  <2>1. bill' = [bill EXCEPT ![r] = row] /\ bill[r].status # "processing"
    BY <1>6 DEF StartUpstream, RenewLease, Open
  <2>2. ClaimFits(row)
    BY <1>2, <1>3, <1>4, <2>1
  <2> QED
    BY <2>1, <2>2, FitUpdate
<1>7. ASSUME NEW r \in Requests, SignalFailed(r) PROVE ClaimsFit'
  <2> DEFINE row == [Moved(bill[r], "released") EXCEPT !.lease = 0]
  <2>1. bill' = [bill EXCEPT ![r] = row] /\ bill[r].status # "processing"
    BY <1>7 DEF SignalFailed, Open
  <2>2. ClaimFits(row)
    BY <1>2, <1>3, <1>4, <2>1
  <2> QED
    BY <2>1, <2>2, FitUpdate
<1>8. ASSUME NEW c \in Callers, SucceedCas(c) PROVE ClaimsFit'
  <2> DEFINE r   == calls[c].req
             row == [Moved(bill[r], "settlement_pending") EXCEPT
                       !.receipt = calls[c].receipt, !.lease = 0]
  <2>1. r \in Requests /\ calls[c].receipt \in Receipts
    BY <1>8, BusyFields DEF SucceedCas
  <2>2. CASE bill[r].status \in Open
    <3>1. bill' = [bill EXCEPT ![r] = row] /\ bill[r].status # "processing"
      BY <1>8, <2>2 DEF SucceedCas, Open
    <3>2. ClaimFits(row)
      BY <1>2, <1>3, <1>4, <2>1, <3>1
    <3> QED
      BY <2>1, <3>1, <3>2, FitUpdate
  <2>3. CASE bill[r].status \notin Open
    BY <1>8, <2>3 DEF SucceedCas, ClaimsFit
  <2> QED
    BY <2>2, <2>3
<1>9. ASSUME NEW c \in Callers, PickCommit(c) PROVE ClaimsFit'
  <2> DEFINE p   == picks[c]
             row == [bill[p.req] EXCEPT !.channel = p.channel, !.exposure = p.amount]
  <2>1. p.req \in Requests
    BY <1>9, BusyFields DEF PickCommit, Picks, IdlePick
  <2>2. bill' = [bill EXCEPT ![p.req] = row]
    BY <1>9 DEF PickCommit
  <2>3. ClaimFits(row)
    BY <1>1, <2>1 DEF ClaimFits, Row
  <2> QED
    BY <2>1, <2>2, <2>3, FitUpdate
<1>10. ASSUME NEW c \in Callers,
              \/ \E r \in Requests, rc \in Receipts : SucceedRead(c, r, rc)
              \/ SucceedReread(c) \/ CallEnds(c)
              \/ \E r \in Requests, ch \in Channels, amount \in Exposures :
                   PickRead(c, r, ch, amount)
              \/ PickAborts(c)
       PROVE  ClaimsFit'
  BY <1>10 DEF SucceedRead, SucceedReread, CallEnds, PickRead, PickAborts, ClaimsFit
<1> QED
  BY <1>5, <1>6, <1>7, <1>8, <1>9, <1>10 DEF Gateway

(* A lane takes a claim under its worker's name and a token that is not    *)
(* zero, and clears both with the status.                                  *)
LEMMA SettlementFits ==
  ASSUME TypeOK, ClaimsFit, Settlement
  PROVE  ClaimsFit'
<1>1. \A r \in Requests : bill[r] \in Row /\ ClaimFits(bill[r])
  BY DEF TypeOK, ClaimsFit
<1>2. {"settled", "dead", "retry_wait"} \subseteq Statuses \ {"processing"}
  BY DEF Statuses, Unsettled, Queued, Terminal
<1>3. ASSUME NEW l \in Lanes, NEW r \in Requests, Claim(l, r) PROVE ClaimsFit'
  <2> DEFINE row == [Moved(bill[r], "processing") EXCEPT
                       !.attempts = bill[r].attempts + 1, !.owner = Owner[l],
                       !.token = bill[r].revision + 1, !.until = ClaimTicks]
  <2>1. bill' = [bill EXCEPT ![r] = row]
    BY <1>3 DEF Claim
  <2>2. Owner[l] # Nobody /\ bill[r].revision \in Nat
    BY <1>1, BillingAssumption DEF BillingAssumption, Row
  <2>3. bill[r].revision + 1 # 0
    BY <2>2
  <2>4. Moved(bill[r], "processing") \in Row /\ Moved(bill[r], "processing").status = "processing"
    BY <1>1, MovedRow DEF Statuses, Unsettled
  <2>5. row.status = "processing" /\ row.owner # Nobody /\ row.token # 0
    BY <2>2, <2>3, <2>4 DEF Row
  <2>6. ClaimFits(row)
    BY <2>5 DEF ClaimFits
  <2> QED
    BY <2>1, <2>6, FitUpdate
<1>4. ASSUME NEW l \in Lanes, RenewClaim(l) PROVE ClaimsFit'
  <2> DEFINE r   == jobs[l].req
             row == [bill[r] EXCEPT !.until = ClaimTicks]
  <2>1. r \in Requests /\ bill' = [bill EXCEPT ![r] = row]
    BY <1>4, BusyFields DEF RenewClaim
  <2>2. ClaimFits(row)
    BY <1>1, <2>1 DEF ClaimFits, Row
  <2> QED
    BY <2>1, <2>2, FitUpdate
<1>5. ASSUME NEW l \in Lanes, SettleCommit(l) PROVE ClaimsFit'
  <2> DEFINE r == jobs[l].req
  <2>1. r \in Requests /\ bill' = [bill EXCEPT ![r] = Unclaimed(Moved(bill[r], "settled"))]
    BY <1>5, BusyFields DEF SettleCommit
  <2>2. ClaimFits(Unclaimed(Moved(bill[r], "settled")))
    BY <1>1, <1>2, <2>1, FitMoves
  <2> QED
    BY <2>1, <2>2, FitUpdate
<1>6. ASSUME NEW r \in Requests, NEW later \in BOOLEAN
      PROVE  ClaimFits(Requeued(bill[r], later))
  BY <1>1, FitRequeue
<1>7. ASSUME NEW l \in Lanes, FinishFailure(l) PROVE ClaimsFit'
  <2> DEFINE r   == jobs[l].req
             row == IF GoesDead(jobs[l]) THEN Unclaimed(Moved(bill[r], "dead"))
                    ELSE Requeued(bill[r], TRUE)
  <2>1. r \in Requests
    BY <1>7, BusyFields DEF FinishFailure, Finish
  <2>2. ClaimFits(row)
    BY <1>1, <1>2, <1>6, <2>1, FitMoves
  <2>3. CASE Holds(l)
    <3>1. bill' = [bill EXCEPT ![r] = row]
      BY <1>7, <2>3 DEF FinishFailure, Finish
    <3> QED
      BY <2>1, <2>2, <3>1, FitUpdate
  <2>4. CASE ~Holds(l)
    BY <1>7, <2>4 DEF FinishFailure, Finish, ClaimsFit
  <2> QED
    BY <2>3, <2>4
<1>8. ASSUME NEW w \in Workers, Abandon(w) PROVE ClaimsFit'
  <2>1. bill' = [r \in Requests |->
                   IF bill[r].status = "processing" /\ bill[r].owner = w
                     THEN Requeued(bill[r], FALSE) ELSE bill[r]]
    BY <1>8 DEF Abandon
  <2> QED
    BY <1>1, <1>6, <2>1 DEF ClaimsFit
<1>9. ASSUME NEW l \in Lanes,
             \/ SettleVerify(l) \/ LaneDies(l)
             \/ \E fatal \in BOOLEAN : SettleThrows(l, fatal)
      PROVE  ClaimsFit'
  BY <1>9 DEF SettleVerify, LaneDies, SettleThrows, ClaimsFit
<1> QED
  BY <1>3, <1>4, <1>5, <1>7, <1>8, <1>9 DEF Settlement

(* Recovery clears the claims that ran out; time moves no claim column but *)
(* the expiry.                                                             *)
LEMMA RecoveryFits ==
  ASSUME TypeOK, ClaimsFit, Recovery
  PROVE  ClaimsFit'
<1> PICK r \in Requests : \/ RecoverReleased(r) \/ RequeueExpired(r)
                          \/ LeaseElapses(r) \/ ClaimElapses(r) \/ BackoffElapses(r)
  BY DEF Recovery
<1>1. bill[r] \in Row /\ ClaimFits(bill[r])
  BY DEF TypeOK, ClaimsFit
<1>2. {"released", "retry_wait"} \subseteq Statuses \ {"processing"}
  BY DEF Statuses, Unsettled, Queued, Terminal
<1>3. CASE RecoverReleased(r)
  <2>1. bill' = [bill EXCEPT ![r] = Moved(bill[r], "released")] /\ bill[r].status # "processing"
    BY <1>3 DEF RecoverReleased, Open
  <2>2. ClaimFits(Moved(bill[r], "released"))
    BY <1>1, <1>2, <2>1, FitMoves
  <2> QED
    BY <2>1, <2>2, FitUpdate
<1>4. CASE RequeueExpired(r)
  <2>1. bill' = [bill EXCEPT ![r] = Requeued(bill[r], FALSE)]
    BY <1>4 DEF RequeueExpired
  <2>2. ClaimFits(Requeued(bill[r], FALSE))
    BY <1>1, FitRequeue
  <2> QED
    BY <2>1, <2>2, FitUpdate
<1>5. CASE LeaseElapses(r)
  <2> DEFINE row == [bill[r] EXCEPT !.lease = bill[r].lease - 1]
  <2>1. bill' = [bill EXCEPT ![r] = row]
    BY <1>1, <1>5 DEF LeaseElapses, TypeOK
  <2>2. ClaimFits(row)
    BY <1>1 DEF ClaimFits, Row
  <2> QED
    BY <2>1, <2>2, FitUpdate
<1>6. CASE ClaimElapses(r)
  <2> DEFINE row == [bill[r] EXCEPT !.until = bill[r].until - 1]
  <2>1. bill' = [bill EXCEPT ![r] = row]
    BY <1>1, <1>6 DEF ClaimElapses, TypeOK
  <2>2. ClaimFits(row)
    BY <1>1 DEF ClaimFits, Row
  <2> QED
    BY <2>1, <2>2, FitUpdate
<1>7. CASE BackoffElapses(r)
  <2> DEFINE row == [bill[r] EXCEPT !.backoff = FALSE]
  <2>1. bill' = [bill EXCEPT ![r] = row]
    BY <1>1, <1>7 DEF BackoffElapses, TypeOK
  <2>2. ClaimFits(row)
    BY <1>1 DEF ClaimFits, Row
  <2> QED
    BY <2>1, <2>2, FitUpdate
<1> QED
  BY <1>3, <1>4, <1>5, <1>6, <1>7

(* A dead row carries no claim when an administrator moves it on.          *)
LEMMA ReviewFits ==
  ASSUME TypeOK, ClaimsFit, Review
  PROVE  ClaimsFit'
<1>1. {"released", "retry_wait"} \subseteq Statuses \ {"processing"}
  BY DEF Statuses, Unsettled, Queued, Terminal
<1>2. CASE ReviewRetries
  <2> DEFINE r   == desk.req
             row == [Moved(bill[r], "retry_wait") EXCEPT !.attempts = 0]
  <2>1. r \in Requests /\ bill[r] \in Row /\ ClaimFits(bill[r]) /\ bill[r].status = "dead"
    BY <1>2, OpenCase DEF ReviewRetries, AsReviewed, TypeOK, ClaimsFit
  <2>2. bill' = [bill EXCEPT ![r] = row]
    BY <1>2 DEF ReviewRetries
  <2>3. Moved(bill[r], "retry_wait") \in Row /\ ClaimFits(Moved(bill[r], "retry_wait"))
    BY <1>1, <2>1, MovedRow, FitMoves
  <2>4. ClaimFits(row)
    BY <2>3 DEF ClaimFits, Row
  <2> QED
    BY <2>1, <2>2, <2>4, FitUpdate
<1>3. CASE ReviewAbandons
  <2> DEFINE r == desk.req
  <2>1. r \in Requests /\ bill[r] \in Row
    BY <1>3, OpenCase DEF ReviewAbandons, AsReviewed, TypeOK
  <2>2. bill' = [bill EXCEPT ![r] = Unclaimed(Moved(bill[r], "released"))]
    BY <1>3 DEF ReviewAbandons
  <2>3. ClaimFits(Unclaimed(Moved(bill[r], "released")))
    BY <1>1, <2>1, FitMoves
  <2> QED
    BY <2>1, <2>2, <2>3, FitUpdate
<1>4. CASE (\E r \in Requests : ReviewOpens(r)) \/ ReviewCloses
  BY <1>4 DEF ReviewOpens, ReviewCloses, ClaimsFit
<1> QED
  BY <1>2, <1>3, <1>4 DEF Review

(* No update is refused by a CHECK constraint: a processing row and no     *)
(* other carries a claim, and a row past the open statuses its receipt.    *)
THEOREM ChecksNeverFail == Spec => []SchemaChecks
<1>1. Init => ClaimsFit
  BY DEF Init, NewRow, ClaimsFit, ClaimFits
<1>2. TypeOK /\ ClaimsFit /\ [Next]_vars => ClaimsFit'
  <2> SUFFICES ASSUME TypeOK, ClaimsFit, [Next]_vars PROVE ClaimsFit'
    OBVIOUS
  <2>1. CASE UNCHANGED vars
    BY <2>1 DEF vars, ClaimsFit
  <2> QED
    BY <2>1, GatewayFits, SettlementFits, RecoveryFits, ReviewFits DEF Next
<1>3. Safe /\ ClaimsFit => SchemaChecks
  BY BillingAssumption DEF Safe, RowSense, ClaimsFit, ClaimFits, SchemaChecks, BillingAssumption
<1>4. Safe => TypeOK
  BY DEF Safe
<1> QED
  BY <1>1, <1>2, <1>3, <1>4, SafeHolds, PTL DEF Spec

-----------------------------------------------------------------------------
(* Billing implements Charge.                                              *)

(* The mapped stages and receipts, one request at a time.                  *)
LEMMA StagesMove ==
  ASSUME TypeOK, NEW r \in Requests, Effect(r)
  PROVE  /\ [q \in Requests |-> Stage(bill[q].status)]' =
              [[q \in Requests |-> Stage(bill[q].status)]
                 EXCEPT ![r] = Stage(bill'[r].status)]
         /\ [q \in Requests |-> bill[q].receipt]' =
              [[q \in Requests |-> bill[q].receipt] EXCEPT ![r] = bill'[r].receipt]
BY OtherRows

(* A step of Billing is a step of Charge or leaves it unchanged.           *)
LEMMA StepRefines ==
  ASSUME TypeOK, Step
  PROVE  [Promise!Next]_(Promise!vars)
<1> DEFINE stage == [q \in Requests |-> Stage(bill[q].status)]
           owes  == [q \in Requests |-> bill[q].receipt]
<1>1. CASE Quiet
  <2>1. stage' = stage /\ owes' = owes
    BY <1>1 DEF Quiet, RowKept
  <2> QED
    BY <1>1, <2>1 DEF Quiet, Promise!vars
<1>2. ASSUME NEW r \in Requests, Effect(r)
      PROVE  Promise!Next
  <2>1. /\ stage' = [stage EXCEPT ![r] = Stage(bill'[r].status)]
        /\ owes' = [owes EXCEPT ![r] = bill'[r].receipt]
    BY <1>2, StagesMove
  <2>2. stage[r] = Stage(bill[r].status) /\ owes[r] = bill[r].receipt
    OBVIOUS
  <2>3. bill'[r].receipt = bill[r].receipt => owes' = owes
    BY <2>1, <2>2
  <2> HIDE DEF stage, owes
  <2>4. CASE Taken(r)
    <3>1. wallet'.balance = wallet.balance
      BY <2>4 DEF Taken, TakeHold, TypeOK
    <3>2. Promise!Hold(r)
      BY <2>1, <2>2, <2>3, <2>4, <3>1, Stages
         DEF Taken, Moves, Open, Promise!Hold, Promise!Step, stage, owes
    <3> QED
      BY <3>2 DEF Promise!Next
  <2>5. CASE Accepted(r)
    <3>1. PICK rc \in Receipts : rc = bill'[r].receipt
      BY <2>5 DEF Accepted
    <3>2. Promise!Owe(r, rc)
      BY <2>1, <2>2, <2>5, <3>1, Stages
         DEF Accepted, Moves, Queued, Promise!Owe, Promise!Step, stage, owes
    <3> QED
      BY <3>2 DEF Promise!Next
  <2>6. CASE Settled(r)
    <3> DEFINE rc == bill[r].receipt
    <3>1. wallet'.balance = wallet.balance - Cost[rc]
      <4>1. wallet'.balance = wallet.balance - Consume(r, rc) - Overage(r, rc)
        BY <2>6 DEF Settled, Charged
      <4>2. /\ Cost[rc] \in Nat /\ Reserve[r] \in Nat /\ wallet.balance \in Int
        <5>1. rc \in Receipts
          BY <2>6 DEF Settled
        <5> QED
          BY <5>1, BillingAssumption DEF BillingAssumption, TypeOK
      <4> QED
        BY <4>1, <4>2 DEF Consume, Overage
    <3>2. Promise!Collect(r)
      BY <2>1, <2>2, <2>3, <2>6, <3>1, Stages
         DEF Settled, Moves, Promise!Collect, Promise!Step, stage, owes
    <3> QED
      BY <3>2 DEF Promise!Next
  <2>7. CASE Parked(r)
    <3>1. Promise!Park(r) \/ Promise!Reopen(r)
      BY <2>1, <2>2, <2>3, <2>7, Stages
         DEF Parked, Moves, Queued, Promise!Park, Promise!Reopen, Promise!Step,
             stage, owes
    <3> QED
      BY <3>1 DEF Promise!Next
  <2>8. CASE Released(r)
    <3>1. wallet'.balance = wallet.balance
      BY <2>8 DEF Released, ReleaseAll, TypeOK
    <3>2. Promise!Return(r) \/ Promise!Waive(r)
      BY <2>1, <2>2, <2>3, <2>8, <3>1, Stages
         DEF Released, Moves, Promise!Return, Promise!Waive, Promise!Step,
             stage, owes
    <3> QED
      BY <3>2 DEF Promise!Next
  <2> QED
    BY <1>2, <2>4, <2>5, <2>6, <2>7, <2>8 DEF Effect
<1> QED
  BY <1>1, <1>2 DEF Step

(* The eight-state row with its lanes, loops, signals and reviews is an    *)
(* implementation of Charge: hold, owe, collect once, or give back.        *)
THEOREM BillingKeepsCharge == Spec => Promise!Spec
<1>1. Init => Promise!Init
  BY Stages DEF Init, NewRow, Promise!Init
<1>2. Safe /\ [Next]_vars => [Promise!Next]_(Promise!vars)
  BY StepEffects, StepRefines DEF Safe, Step
<1> QED
  BY <1>1, <1>2, SafeHolds, PTL DEF Spec, Promise!Spec

-----------------------------------------------------------------------------
(* The books.                                                              *)

(* What each request holds of the wallet and was charged over its hold;    *)
(* what it occupies of a channel, has cost there, and was underestimated.  *)
Held == [r \in Requests |-> IF hold[r] = "active" THEN Reserve[r] ELSE 0]
Over == [r \in Requests |-> IF bill[r].status = "settled" THEN Overage(r, bill[r].receipt) ELSE 0]
Occupies(ch) == [r \in Requests |-> IF r \in On(ch, Unsettled) THEN bill[r].exposure ELSE 0]
Costs(ch) == [r \in Requests |-> IF r \in On(ch, {"settled"}) THEN UpstreamCost[bill[r].receipt] ELSE 0]
Under(ch) == [r \in Requests |-> IF r \in On(ch, {"settled"}) THEN Underestimate(r) ELSE 0]

Total(f) == SumFunctionOnSet(f, Requests)

MoneyBooks ==
  /\ wallet.inFlight = Total(Held)
  /\ wallet.balance = Deposit - Total(paid)
  /\ Available >= -Total(Over)

BudgetBooks ==
  \A ch \in Channels :
    /\ stock[ch].reserved = Total(Occupies(ch))
    /\ stock[ch].budget = Stock - Total(Costs(ch))
    /\ stock[ch].reserved - stock[ch].budget <= Total(Under(ch))

(* A request that is not there yet has no channel.                         *)
Unrouted == \A r \in Requests : bill[r].status = "none" => bill[r].channel = NoChannel

(* The terms are numbers.                                                  *)
LEMMA Terms ==
  ASSUME TypeOK, RowSense
  PROVE  /\ \A r \in Requests : Held[r] \in Nat /\ paid[r] \in Nat /\ Over[r] \in Nat
         /\ \A ch \in Channels, r \in Requests :
              Occupies(ch)[r] \in Nat /\ Costs(ch)[r] \in Nat /\ Under(ch)[r] \in Nat
<1>1. ASSUME NEW rc \in Receipts, NEW r \in Requests
      PROVE  Overage(r, rc) \in Nat /\ Cost[rc] \in Nat /\ UpstreamCost[rc] \in Nat /\ Reserve[r] \in Nat
  BY BillingAssumption DEF BillingAssumption, Overage, Consume
<1>2. \A r \in Requests : /\ bill[r].exposure \in Nat /\ paid[r] \in Nat /\ Reserve[r] \in Nat
                          /\ bill[r].status = "settled" => bill[r].receipt \in Receipts
  BY BillingAssumption DEF TypeOK, Row, RowSense, BillingAssumption
<1>3. \A r \in Requests : Held[r] \in Nat /\ paid[r] \in Nat
  BY <1>2 DEF Held
<1>4. \A r \in Requests : Over[r] \in Nat
  BY <1>1, <1>2 DEF Over
<1>5. ASSUME NEW ch \in Channels, NEW r \in Requests
      PROVE  Occupies(ch)[r] \in Nat /\ Costs(ch)[r] \in Nat /\ Under(ch)[r] \in Nat
  <2>1. Occupies(ch)[r] \in Nat
    BY <1>2 DEF Occupies
  <2>2. r \in On(ch, {"settled"}) => UpstreamCost[bill[r].receipt] \in Nat
    BY <1>1, <1>2 DEF On
  <2>3. Costs(ch)[r] \in Nat
    BY <2>2 DEF Costs
  <2>4. Under(ch)[r] \in Nat
    BY <1>2, <2>2 DEF Under, Underestimate
  <2> QED
    BY <2>1, <2>3, <2>4
<1> QED
  BY <1>3, <1>4, <1>5

(* A total moves with the one term that does.                              *)
LEMMA TotalMoves ==
  ASSUME NEW f, NEW e, NEW r \in Requests,
         \A q \in Requests : f[q] \in Int /\ e[q] \in Int, \A q \in Requests \ {r} : e[q] = f[q]
  PROVE  Total(e) = Total(f) - f[r] + e[r]
BY RequestsAreFinite, SumChange DEF Total

(* The hold of a row, by its status.                                       *)
LEMMA HoldOf ==
  ASSUME TypeOK, MoneyFollowsStatus, NEW r \in Requests
  PROVE  /\ ~Funded(r) \/ bill[r].status = "none" => hold[r] = "none"
         /\ Funded(r) /\ bill[r].status \in Unsettled => hold[r] = "active"
<1>1. bill[r].status \in Statuses
  BY DEF TypeOK, Row
<1> QED
  BY <1>1 DEF MoneyFollowsStatus, Statuses, Unsettled, Terminal, Open, Queued

(* A step moves the money of one request, and the wallet by as much.       *)
LEMMA MoneyMoves ==
  ASSUME TypeOK, RowSense, MoneyFollowsStatus, ChargedOnce, NEW r \in Requests, Effect(r), TypeOK', RowSense'
  PROVE  /\ \A q \in Requests \ {r} : Held'[q] = Held[q] /\ paid'[q] = paid[q] /\ Over'[q] = Over[q]
         /\ wallet'.inFlight = wallet.inFlight - Held[r] + Held'[r]
         /\ wallet'.balance = wallet.balance + paid[r] - paid'[r]
         /\ \/ Available' >= 0
            \/ Available' >= Available + Over[r] - Over'[r]
<1> DEFINE rc == bill[r].receipt
<1>1. /\ wallet.balance \in Int /\ wallet.inFlight \in Int /\ wallet \in [balance : Int, inFlight : Int]
      /\ Reserve[r] \in Nat /\ CreditLimit \in Nat
      /\ Held[r] \in Nat /\ paid[r] \in Nat /\ Over[r] \in Nat
      /\ Held'[r] \in Nat /\ paid'[r] \in Nat /\ Over'[r] \in Nat
      /\ Available = wallet.balance + CreditLimit - wallet.inFlight
      /\ Available' = wallet'.balance + CreditLimit - wallet'.inFlight
      /\ hold \in [Requests -> HoldStates] /\ paid \in [Requests -> Nat]
  <2>1. /\ Held[r] \in Nat /\ paid[r] \in Nat /\ Over[r] \in Nat
    BY Terms
  <2>2. Held'[r] \in Nat /\ paid'[r] \in Nat
    BY BillingAssumption DEF BillingAssumption, Held, TypeOK
  <2>3. bill'[r].status = "settled" => bill'[r].receipt \in Receipts
    BY DEF RowSense
  <2>4. \A rd \in Receipts : Overage(r, rd) \in Nat
    BY BillingAssumption DEF BillingAssumption, Overage, Consume
  <2>5. Over'[r] \in Nat
    BY <2>3, <2>4 DEF Over
  <2> QED
    BY <2>1, <2>2, <2>5, BillingAssumption DEF BillingAssumption, TypeOK, Available
<1>2. ASSUME NEW q \in Requests \ {r}
      PROVE  Held'[q] = Held[q] /\ paid'[q] = paid[q] /\ Over'[q] = Over[q]
  <2>1. bill'[q] = bill[q]
    BY OtherRows
  <2>2. hold'[q] = hold[q] /\ paid'[q] = paid[q]
    BY <1>1 DEF Effect, Taken, Accepted, Settled, Parked, Released, TakeHold, ReleaseAll
  <2> QED
    BY <2>1, <2>2 DEF Held, Over
<1>3. CASE Taken(r)
  <2>1. /\ hold[r] = "none" /\ Held[r] = 0 /\ paid'[r] = paid[r]
        /\ Over[r] = 0 /\ Over'[r] = 0
    BY <1>3, HoldOf DEF Taken, Moves, Held, Over
  <2>2. CASE Funded(r)
    <3>1. /\ Held'[r] = Reserve[r] /\ Available >= Reserve[r]
          /\ wallet' = [wallet EXCEPT !.inFlight = wallet.inFlight + Reserve[r]]
      BY <1>1, <1>3, <2>2 DEF Taken, TakeHold, CanHold, Held
    <3>2. wallet'.inFlight = wallet.inFlight + Reserve[r] /\ wallet'.balance = wallet.balance
      BY <1>1, <3>1
    <3> QED
      BY <1>1, <1>2, <2>1, <3>1, <3>2
  <2>3. CASE ~Funded(r)
    <3>1. hold'[r] = "none" /\ wallet' = wallet /\ Held'[r] = 0
      BY <1>3, <2>1, <2>3 DEF Taken, TakeHold, Held
    <3> QED
      BY <1>1, <1>2, <2>1, <3>1
  <2> QED
    BY <2>2, <2>3
<1>4. CASE Accepted(r) \/ Parked(r)
  <2>1. /\ hold' = hold /\ wallet' = wallet /\ paid' = paid
        /\ bill[r].status # "settled" /\ bill'[r].status # "settled"
    BY <1>4 DEF Accepted, Parked, Moves, Open
  <2>2. Held'[r] = Held[r] /\ Over[r] = 0 /\ Over'[r] = 0
    BY <2>1 DEF Held, Over
  <2> QED
    BY <1>1, <1>2, <2>1, <2>2
<1>5. CASE Settled(r)
  <2>1. /\ bill[r].status = "processing" /\ bill'[r].status = "settled" /\ bill'[r].receipt = rc
        /\ rc \in Receipts /\ wallet' = Charged(r, rc)
        /\ paid' = [paid EXCEPT ![r] = paid[r] + Consume(r, rc) + Overage(r, rc)]
    BY <1>5 DEF Settled, Moves
  <2>2. Over[r] = 0 /\ Over'[r] = Overage(r, rc)
    BY <2>1 DEF Over
  <2>3. /\ wallet'.balance = wallet.balance - Consume(r, rc) - Overage(r, rc)
        /\ wallet'.inFlight = wallet.inFlight - Reserve[r]
        /\ paid'[r] = paid[r] + Consume(r, rc) + Overage(r, rc)
    BY <1>1, <2>1 DEF Charged
  <2>4. Consume(r, rc) \in Nat /\ Overage(r, rc) \in Nat /\ Consume(r, rc) <= Reserve[r]
    BY <2>1, BillingAssumption DEF BillingAssumption, Overage, Consume
  <2>5. Held[r] = Reserve[r] /\ Held'[r] = 0
    <3>1. CASE Funded(r)
      <4>1. hold[r] = "active"
        BY <2>1, <3>1, HoldOf DEF Unsettled
      <4>2. hold'[r] \in {"released", "settled"}
        BY <1>1, <1>5, <3>1 DEF Settled
      <4> QED
        BY <4>1, <4>2 DEF Held
    <3>2. CASE ~Funded(r)
      <4>1. hold[r] = "none" /\ hold'[r] = "none" /\ Reserve[r] = 0
        BY <1>1, <1>5, <3>2, HoldOf DEF Settled, Funded
      <4> QED
        BY <4>1 DEF Held
    <3> QED
      BY <3>1, <3>2
  <2> HIDE DEF rc
  <2> QED
    BY <1>1, <1>2, <2>2, <2>3, <2>4, <2>5
<1>6. CASE Released(r)
  <2>1. /\ bill[r].status # "settled" /\ bill'[r].status = "released" /\ paid' = paid
        /\ bill[r].status \in Unsettled
    BY <1>6 DEF Released, Moves, ReleaseAll, Open, Unsettled
  <2>2. Over[r] = 0 /\ Over'[r] = 0
    BY <2>1 DEF Over
  <2>3. CASE Funded(r)
    <3>1. /\ hold[r] = "active" /\ hold'[r] = "released"
          /\ wallet' = [wallet EXCEPT !.inFlight = wallet.inFlight - Reserve[r]]
      BY <1>1, <1>6, <2>3 DEF Released, ReleaseAll
    <3>2. Held[r] = Reserve[r] /\ Held'[r] = 0
      BY <3>1 DEF Held
    <3>3. wallet'.inFlight = wallet.inFlight - Reserve[r] /\ wallet'.balance = wallet.balance
      BY <1>1, <3>1
    <3> QED
      BY <1>1, <1>2, <2>1, <2>2, <3>2, <3>3
  <2>4. CASE ~Funded(r)
    <3>1. hold[r] = "none" /\ hold'[r] = "none" /\ wallet' = wallet
      BY <1>6, <2>4, HoldOf DEF Released, ReleaseAll
    <3>2. Held[r] = 0 /\ Held'[r] = 0
      BY <3>1 DEF Held
    <3> QED
      BY <1>1, <1>2, <2>1, <2>2, <3>1, <3>2
  <2> QED
    BY <2>3, <2>4
<1> QED
  BY <1>3, <1>4, <1>5, <1>6 DEF Effect

(* Every step keeps the wallet's books.                                    *)
LEMMA MoneyBooksKept ==
  ASSUME TypeOK, RowSense, MoneyFollowsStatus, ChargedOnce, MoneyBooks, Step, TypeOK', RowSense'
  PROVE  MoneyBooks'
<1>1. /\ \A r \in Requests : Held[r] \in Int /\ paid[r] \in Int /\ Over[r] \in Int
      /\ \A r \in Requests : Held'[r] \in Int /\ paid'[r] \in Int /\ Over'[r] \in Int
      /\ \A r \in Requests : Over'[r] \in Nat
  <2>1. \A r \in Requests : Held[r] \in Nat /\ paid[r] \in Nat /\ Over[r] \in Nat
    BY Terms
  <2>2. \A r \in Requests : Held'[r] \in Nat /\ paid'[r] \in Nat
    BY BillingAssumption DEF BillingAssumption, Held, TypeOK
  <2>3. \A r \in Requests : bill'[r].status = "settled" => bill'[r].receipt \in Receipts
    BY DEF RowSense
  <2>4. \A r \in Requests, rc \in Receipts : Overage(r, rc) \in Nat
    BY BillingAssumption DEF BillingAssumption, Overage, Consume
  <2>5. \A r \in Requests : Over'[r] \in Nat
    BY <2>3, <2>4 DEF Over
  <2> QED
    BY <2>1, <2>2, <2>5
<1>2. /\ Total(Held)' = SumFunctionOnSet(Held', Requests) /\ Total(paid)' = SumFunctionOnSet(paid', Requests)
      /\ Total(Over)' = SumFunctionOnSet(Over', Requests)
      /\ Total(Held) = SumFunctionOnSet(Held, Requests) /\ Total(paid) = SumFunctionOnSet(paid, Requests)
      /\ Total(Over) = SumFunctionOnSet(Over, Requests)
  BY DEF Total
<1>3. /\ Total(Held) \in Int /\ Total(paid) \in Int /\ Total(Over) \in Int /\ Total(Over)' \in Nat
  BY <1>1, <1>2, RequestsAreFinite, SumType, SumNat
<1>4. CASE Quiet
  <2>1. wallet' = wallet /\ Held' = Held /\ paid' = paid /\ Available' = Available
    BY <1>4 DEF Quiet, Held, Available
  <2>2. \A r \in Requests : Over'[r] = Over[r]
    <3> SUFFICES ASSUME NEW r \in Requests PROVE Over'[r] = Over[r]
      OBVIOUS
    <3>1. bill[r].status \in Statuses /\ bill'[r].status \in Statuses
      BY DEF TypeOK, Row
    <3>2. Stage(bill'[r].status) = Stage(bill[r].status) /\ bill'[r].receipt = bill[r].receipt
      BY <1>4 DEF Quiet, RowKept
    <3>3. bill'[r].status = "settled" <=> bill[r].status = "settled"
      BY <3>1, <3>2, SameStage
    <3> QED
      BY <3>2, <3>3 DEF Over
  <2>3. Total(Over)' = Total(Over)
    BY <1>2, <2>2, RequestsAreFinite, SumCongruent
  <2> QED
    BY <2>1, <2>3 DEF MoneyBooks, Total
<1>5. ASSUME NEW r \in Requests, Effect(r)
      PROVE  MoneyBooks'
  <2>1. /\ \A q \in Requests \ {r} : Held'[q] = Held[q] /\ paid'[q] = paid[q] /\ Over'[q] = Over[q]
        /\ wallet'.inFlight = wallet.inFlight - Held[r] + Held'[r]
        /\ wallet'.balance = wallet.balance + paid[r] - paid'[r]
        /\ \/ Available' >= 0
           \/ Available' >= Available + Over[r] - Over'[r]
    BY <1>5, MoneyMoves
  <2>2. Total(Held)' = Total(Held) - Held[r] + Held'[r]
    <3>1. PICK f, e : f = Held /\ e = Held'
      OBVIOUS
    <3>2. /\ \A q \in Requests : f[q] \in Int /\ e[q] \in Int
          /\ \A q \in Requests \ {r} : e[q] = f[q]
      BY <1>1, <2>1, <3>1
    <3>3. SumFunctionOnSet(e, Requests) = SumFunctionOnSet(f, Requests) - f[r] + e[r]
      BY <3>2, RequestsAreFinite, SumChange
    <3> QED
      BY <1>2, <3>1, <3>3
  <2>3. Total(paid)' = Total(paid) - paid[r] + paid'[r]
    BY <1>1, <1>2, <2>1, RequestsAreFinite, SumChange
  <2>4. Total(Over)' = Total(Over) - Over[r] + Over'[r]
    BY <1>1, <1>2, <2>1, RequestsAreFinite, SumChange
  <2>5. wallet'.inFlight = Total(Held)'
    <3>1. wallet.inFlight = Total(Held) /\ Held[r] \in Int /\ Held'[r] \in Int
      BY <1>1 DEF MoneyBooks
    <3> QED
      BY <1>3, <2>1, <2>2, <3>1
  <2>6. wallet'.balance = Deposit - Total(paid)'
    <3>1. wallet.balance = Deposit - Total(paid) /\ Deposit \in Int /\ paid[r] \in Int /\ paid'[r] \in Int
      BY <1>1, BillingAssumption DEF MoneyBooks, BillingAssumption
    <3> QED
      BY <1>3, <2>1, <2>3, <3>1
  <2>7. Available' >= -Total(Over)'
    <3>1. Available \in Int /\ Available' \in Int /\ Over[r] \in Int /\ Over'[r] \in Int
      BY <1>1, BillingAssumption DEF Available, TypeOK, BillingAssumption
    <3>2. Available >= -Total(Over)
      BY DEF MoneyBooks
    <3> QED
      BY <1>3, <2>1, <2>4, <3>1, <3>2
  <2> QED
    BY <2>5, <2>6, <2>7 DEF MoneyBooks
<1> QED
  BY <1>4, <1>5 DEF Step

(* The books are the sums of the properties.                               *)
LEMMA BooksAreSums ==
  ASSUME TypeOK, RowSense, MoneyBooks
  PROVE  WalletBooks /\ OverdraftIsOverage
<1>1. \A r \in Requests : Held[r] \in Nat /\ Over[r] \in Nat
  BY Terms
<1>2. SumFunctionOnSet(Reserve, {r \in Requests : hold[r] = "active"}) = Total(Held)
  <2> DEFINE T == {r \in Requests : hold[r] = "active"}
  <2>1. \A r \in Requests : Held[r] = IF r \in T THEN Reserve[r] ELSE 0
    BY DEF Held
  <2>2. \A r \in T : Reserve[r] \in Int
    BY BillingAssumption DEF BillingAssumption
  <2>3. T \in SUBSET Requests
    OBVIOUS
  <2> HIDE DEF T
  <2>4. SumFunctionOnSet(Reserve, T) = SumFunctionOnSet(Held, Requests)
    BY <2>1, <2>2, <2>3, RequestsAreFinite, SumWhere
  <2> QED
    BY <2>4 DEF Total, T
<1>3. WalletBooks
  BY <1>2 DEF WalletBooks, MoneyBooks, Total
<1>4. OverdraftIsOverage
  <2> DEFINE T == {r \in Requests : bill[r].status = "settled"}
             f == [r \in T |-> Overage(r, bill[r].receipt)]
  <2>1. \A r \in Requests : Over[r] = IF r \in T THEN f[r] ELSE 0
    BY DEF Over
  <2>2. \A r \in T : f[r] \in Int
    BY <1>1, <2>1
  <2>3. T \in SUBSET Requests
    OBVIOUS
  <2>4. (Available >= -SumFunctionOnSet(f, T)) = OverdraftIsOverage
    BY DEF OverdraftIsOverage
  <2> HIDE DEF T, f
  <2>5. SumFunctionOnSet(f, T) = SumFunctionOnSet(Over, Requests)
    BY <2>1, <2>2, <2>3, RequestsAreFinite, SumWhere
  <2> QED
    BY <2>4, <2>5 DEF MoneyBooks, Total
<1> QED
  BY <1>3, <1>4

(* A row that a step is not about occupies and has cost what it did.       *)
LEMMA SameOnChannels ==
  ASSUME NEW q \in Requests, NEW ch,
         bill'[q].channel = bill[q].channel, bill'[q].exposure = bill[q].exposure,
         bill'[q].status \in Unsettled <=> bill[q].status \in Unsettled,
         bill'[q].status = "settled" <=> bill[q].status = "settled",
         bill[q].status = "settled" => bill'[q].receipt = bill[q].receipt
  PROVE  /\ Occupies(ch)'[q] = Occupies(ch)[q] /\ Costs(ch)'[q] = Costs(ch)[q]
         /\ Under(ch)'[q] = Under(ch)[q]
BY DEF Occupies, Costs, Under, On, Underestimate

(* The numbers of a channel move by what one row does there, and it is     *)
(* promised more than it has only as far as a row was underestimated.      *)
MovesOn(r, ch) ==
  /\ \A q \in Requests \ {r} : /\ Occupies(ch)'[q] = Occupies(ch)[q] /\ Costs(ch)'[q] = Costs(ch)[q]
                               /\ Under(ch)'[q] = Under(ch)[q]
  /\ stock'[ch].reserved = stock[ch].reserved - Occupies(ch)[r] + Occupies(ch)'[r]
  /\ stock'[ch].budget = stock[ch].budget + Costs(ch)[r] - Costs(ch)'[r]
  /\ \/ stock'[ch].reserved - stock'[ch].budget <= 0
     \/ stock'[ch].reserved - stock'[ch].budget
          <= stock[ch].reserved - stock[ch].budget - Under(ch)[r] + Under(ch)'[r]

(* What a row is to a channel.                                             *)
LEMMA OnFacts ==
  ASSUME NEW r \in Requests, NEW ch
  PROVE  /\ Occupies(ch)[r] = IF bill[r].channel = ch /\ bill[r].status \in Unsettled THEN bill[r].exposure ELSE 0
         /\ bill[r].status # "settled" => Costs(ch)[r] = 0 /\ Under(ch)[r] = 0
         /\ bill[r].status = "settled" =>
              /\ Costs(ch)[r] = IF bill[r].channel = ch THEN UpstreamCost[bill[r].receipt] ELSE 0
              /\ Under(ch)[r] = IF bill[r].channel = ch THEN Underestimate(r) ELSE 0
         /\ Occupies(ch)'[r] = IF bill'[r].channel = ch /\ bill'[r].status \in Unsettled THEN bill'[r].exposure ELSE 0
         /\ bill'[r].status # "settled" => Costs(ch)'[r] = 0 /\ Under(ch)'[r] = 0
         /\ bill'[r].status = "settled" =>
              /\ Costs(ch)'[r] = IF bill'[r].channel = ch THEN UpstreamCost[bill'[r].receipt] ELSE 0
              /\ Under(ch)'[r] = IF bill'[r].channel = ch
                                 THEN IF UpstreamCost[bill'[r].receipt] > bill'[r].exposure
                                      THEN UpstreamCost[bill'[r].receipt] - bill'[r].exposure ELSE 0
                                 ELSE 0
BY DEF Occupies, Costs, Under, On, Underestimate

(* Rerouting moves the row on the channels.                                *)
LEMMA RerouteMoves ==
  ASSUME TypeOK, TypeOK', NEW r \in Requests, Rerouted(r), NEW ch \in Channels
  PROVE  MovesOn(r, ch)
<1>1. \A q \in Requests \ {r} : /\ Occupies(ch)'[q] = Occupies(ch)[q] /\ Costs(ch)'[q] = Costs(ch)[q]
                                /\ Under(ch)'[q] = Under(ch)[q]
  <2> SUFFICES ASSUME NEW q \in Requests \ {r}
               PROVE  /\ Occupies(ch)'[q] = Occupies(ch)[q] /\ Costs(ch)'[q] = Costs(ch)[q]
                      /\ Under(ch)'[q] = Under(ch)[q]
    OBVIOUS
  <2>1. bill'[q] = bill[q]
    BY DEF Rerouted, OnlyRow
  <2> QED
    BY <2>1, SameOnChannels
<1>2. /\ stock[ch].reserved \in Int /\ stock[ch].budget \in Int
      /\ stock'[ch].reserved \in Int /\ stock'[ch].budget \in Int
      /\ bill[r].exposure \in Nat /\ bill'[r].exposure \in Nat
  BY DEF TypeOK, Budgets, Row
<1>3. /\ bill[r].status \in Unsettled /\ bill'[r].status \in Unsettled
      /\ bill[r].status # "settled" /\ bill'[r].status # "settled"
  BY DEF Rerouted, Unsettled, Open
<1>4. /\ Occupies(ch)[r] = Occupied(r, ch) /\ Occupies(ch)'[r] = Occupied(r, ch)'
      /\ Costs(ch)[r] = 0 /\ Costs(ch)'[r] = 0 /\ Under(ch)[r] = 0 /\ Under(ch)'[r] = 0
      /\ Occupied(r, ch) \in Int /\ Occupied(r, ch)' \in Int
  BY <1>2, <1>3, OnFacts DEF Occupied
<1>5. /\ stock'[ch].budget = stock[ch].budget
      /\ stock'[ch].reserved = stock[ch].reserved - Occupied(r, ch) + Occupied(r, ch)'
      /\ \/ stock'[ch].reserved <= stock[ch].reserved
         \/ stock'[ch].reserved <= stock[ch].budget
  BY DEF Rerouted
<1> QED
  BY <1>1, <1>2, <1>4, <1>5 DEF MovesOn

(* So does everything else that happens to one row.                        *)
LEMMA EffectMoves ==
  ASSUME TypeOK, RowSense, Unrouted, TypeOK', NEW r \in Requests, Effect(r), NEW ch \in Channels
  PROVE  MovesOn(r, ch)
<1>1. \A q \in Requests \ {r} : /\ Occupies(ch)'[q] = Occupies(ch)[q] /\ Costs(ch)'[q] = Costs(ch)[q]
                                /\ Under(ch)'[q] = Under(ch)[q]
  <2> SUFFICES ASSUME NEW q \in Requests \ {r}
               PROVE  /\ Occupies(ch)'[q] = Occupies(ch)[q] /\ Costs(ch)'[q] = Costs(ch)[q]
                      /\ Under(ch)'[q] = Under(ch)[q]
    OBVIOUS
  <2>1. bill'[q] = bill[q]
    BY OtherRows
  <2> QED
    BY <2>1, SameOnChannels
<1>2. /\ stock \in [Channels -> Budgets] /\ stock[ch] \in Budgets
      /\ stock[ch].reserved \in Int /\ stock[ch].budget \in Int
      /\ bill[r].exposure \in Nat /\ bill[r].channel \in Channels \cup {NoChannel} /\ NoChannel \notin Channels
  BY BillingAssumption DEF TypeOK, Budgets, Row, BillingAssumption
<1>3. bill'[r].channel = bill[r].channel /\ bill'[r].exposure = bill[r].exposure
  BY DEF Effect, Taken, Accepted, Settled, Parked, Released, Moves, ChannelKept
<1>4. CASE Taken(r)
  <2>1. /\ bill[r].channel = NoChannel /\ stock' = stock
        /\ bill[r].status # "settled" /\ bill'[r].status # "settled"
    BY <1>4 DEF Taken, Moves, Unrouted
  <2>2. /\ Occupies(ch)[r] = 0 /\ Occupies(ch)'[r] = 0
        /\ Costs(ch)[r] = 0 /\ Costs(ch)'[r] = 0 /\ Under(ch)[r] = 0 /\ Under(ch)'[r] = 0
    BY <1>2, <1>3, <2>1, OnFacts
  <2> QED
    BY <1>1, <1>2, <2>1, <2>2 DEF MovesOn
<1>5. CASE Accepted(r) \/ Parked(r)
  <2>1. /\ stock' = stock /\ bill[r].status \in Unsettled /\ bill'[r].status \in Unsettled
        /\ bill[r].status # "settled" /\ bill'[r].status # "settled"
    BY <1>5 DEF Accepted, Parked, Moves, Unsettled, Open, Queued
  <2>2. /\ Occupies(ch)[r] = Occupies(ch)'[r] /\ Occupies(ch)[r] \in Int
        /\ Costs(ch)[r] = 0 /\ Costs(ch)'[r] = 0 /\ Under(ch)[r] = 0 /\ Under(ch)'[r] = 0
    BY <1>2, <1>3, <2>1, OnFacts
  <2> QED
    BY <1>1, <1>2, <2>1, <2>2 DEF MovesOn
<1>6. CASE Released(r)
  <2>1. /\ stock' = Freed(r) /\ bill[r].status \in Unsettled /\ bill'[r].status \notin Unsettled
        /\ bill[r].status # "settled" /\ bill'[r].status # "settled"
    BY <1>6 DEF Released, Moves, ReleaseAll, Unsettled, Open, Queued
  <2>2. /\ Occupies(ch)'[r] = 0 /\ Costs(ch)[r] = 0 /\ Costs(ch)'[r] = 0
        /\ Under(ch)[r] = 0 /\ Under(ch)'[r] = 0
        /\ Occupies(ch)[r] = IF bill[r].channel = ch THEN bill[r].exposure ELSE 0
    BY <2>1, OnFacts
  <2>3. /\ stock'[ch].reserved = stock[ch].reserved - Occupies(ch)[r]
        /\ stock'[ch].budget = stock[ch].budget
    BY <1>2, <2>1, <2>2 DEF Freed, Budgets
  <2>4. Occupies(ch)[r] \in Nat
    BY <1>2, <2>2
  <2> QED
    BY <1>1, <1>2, <2>2, <2>3, <2>4 DEF MovesOn
<1>7. CASE Settled(r)
  <2> DEFINE cost == UpstreamCost[bill[r].receipt]
  <2>1. /\ stock' = Deducted(Freed(r), bill[r].channel, cost)
        /\ bill[r].status = "processing" /\ bill'[r].status = "settled"
        /\ bill'[r].receipt = bill[r].receipt /\ cost \in Nat
    BY <1>7, BillingAssumption DEF Settled, Moves, BillingAssumption
  <2>2. /\ Costs(ch)[r] = 0 /\ Under(ch)[r] = 0 /\ Occupies(ch)'[r] = 0
        /\ Occupies(ch)[r] = IF bill[r].channel = ch THEN bill[r].exposure ELSE 0
        /\ Costs(ch)'[r] = IF bill[r].channel = ch THEN cost ELSE 0
        /\ Under(ch)'[r] = IF bill[r].channel = ch /\ cost > bill[r].exposure THEN cost - bill[r].exposure ELSE 0
    BY <1>3, <2>1, OnFacts DEF Unsettled, Open, Queued
  <2> HIDE DEF cost
  <2>3. CASE bill[r].channel = ch
    <3> DEFINE s == Freed(r)
    <3>1. /\ s[ch].reserved = stock[ch].reserved - bill[r].exposure
          /\ s[ch].budget = stock[ch].budget
          /\ s \in [Channels -> [budget : Int, reserved : Int, enabled : BOOLEAN]]
      BY <1>2, <2>3 DEF Freed, Budgets
    <3>2. stock' = Deducted(s, ch, cost)
      BY <2>1, <2>3
    <3> HIDE DEF s
    <3>3. stock'[ch].reserved = s[ch].reserved /\ stock'[ch].budget = s[ch].budget - cost
      BY <1>2, <3>1, <3>2 DEF Deducted
    <3>4. /\ stock'[ch].reserved = stock[ch].reserved - bill[r].exposure
          /\ stock'[ch].budget = stock[ch].budget - cost
      BY <3>1, <3>3
    <3> QED
      BY <1>1, <1>2, <2>1, <2>2, <2>3, <3>4 DEF MovesOn
  <2>4. CASE bill[r].channel # ch
    <3>1. stock'[ch] = stock[ch]
      BY <1>2, <2>1, <2>4 DEF Freed, Deducted
    <3> QED
      BY <1>1, <1>2, <2>2, <2>4, <3>1 DEF MovesOn
  <2> QED
    BY <2>3, <2>4
<1> QED
  BY <1>4, <1>5, <1>6, <1>7 DEF Effect

(* A step that moves no row moves none on a channel.                       *)
LEMMA QuietChannels ==
  ASSUME TypeOK, TypeOK', Quiet, NEW ch \in Channels
  PROVE  \/ \E r \in Requests : MovesOn(r, ch)
         \/ /\ stock'[ch] = stock[ch]
            /\ \A q \in Requests : /\ Occupies(ch)'[q] = Occupies(ch)[q] /\ Costs(ch)'[q] = Costs(ch)[q]
                                   /\ Under(ch)'[q] = Under(ch)[q]
<1>1. CASE \E r \in Requests : Rerouted(r)
  BY <1>1, RerouteMoves
<1>2. CASE UNCHANGED stock /\ \A r \in Requests : ChannelKept(r)
  <2>1. ASSUME NEW q \in Requests
        PROVE  /\ Occupies(ch)'[q] = Occupies(ch)[q] /\ Costs(ch)'[q] = Costs(ch)[q]
               /\ Under(ch)'[q] = Under(ch)[q]
    <3>1. bill[q].status \in Statuses /\ bill'[q].status \in Statuses
      BY DEF TypeOK, Row
    <3>2. Stage(bill'[q].status) = Stage(bill[q].status) /\ bill'[q].receipt = bill[q].receipt
      BY DEF Quiet, RowKept
    <3>3. /\ bill'[q].status = "settled" <=> bill[q].status = "settled"
          /\ bill'[q].status \in Unsettled <=> bill[q].status \in Unsettled
      BY <3>1, <3>2, SameStage DEF Unsettled
    <3> QED
      BY <1>2, <3>2, <3>3, SameOnChannels DEF ChannelKept
  <2> QED
    BY <1>2, <2>1
<1> QED
  BY <1>1, <1>2 DEF Quiet

(* The books of a channel follow.                                          *)
LEMMA ChannelAdds ==
  ASSUME TypeOK, RowSense, BudgetBooks, TypeOK', RowSense', NEW ch \in Channels,
         \/ \E r \in Requests : MovesOn(r, ch)
         \/ /\ stock'[ch] = stock[ch]
            /\ \A q \in Requests : /\ Occupies(ch)'[q] = Occupies(ch)[q] /\ Costs(ch)'[q] = Costs(ch)[q]
                                   /\ Under(ch)'[q] = Under(ch)[q]
  PROVE  /\ stock'[ch].reserved = Total(Occupies(ch))'
         /\ stock'[ch].budget = Stock - Total(Costs(ch))'
         /\ stock'[ch].reserved - stock'[ch].budget <= Total(Under(ch))'
<1>1. PICK o, o1, c, c1, u, u1 :
        /\ o = Occupies(ch) /\ o1 = Occupies(ch)' /\ c = Costs(ch) /\ c1 = Costs(ch)'
        /\ u = Under(ch) /\ u1 = Under(ch)'
  OBVIOUS
<1>2. /\ Total(Occupies(ch)) = Total(o) /\ Total(Occupies(ch))' = Total(o1)
      /\ Total(Costs(ch)) = Total(c) /\ Total(Costs(ch))' = Total(c1)
      /\ Total(Under(ch)) = Total(u) /\ Total(Under(ch))' = Total(u1)
  BY <1>1 DEF Total
<1>3. \A q \in Requests : o[q] \in Nat /\ c[q] \in Nat /\ u[q] \in Nat
  BY <1>1, Terms
<1>4. \A q \in Requests : o1[q] \in Nat /\ c1[q] \in Nat /\ u1[q] \in Nat
  <2> SUFFICES ASSUME NEW q \in Requests PROVE o1[q] \in Nat /\ c1[q] \in Nat /\ u1[q] \in Nat
    OBVIOUS
  <2>1. /\ bill'[q].exposure \in Nat
        /\ bill'[q].status = "settled" => UpstreamCost[bill'[q].receipt] \in Nat
    BY BillingAssumption DEF BillingAssumption, TypeOK, Row, RowSense
  <2> QED
    BY <1>1, <2>1, OnFacts
<1>5. /\ Total(o) \in Int /\ Total(c) \in Int /\ Total(u) \in Nat /\ Total(u1) \in Nat
  BY <1>3, <1>4, RequestsAreFinite, SumType, SumNat DEF Total
<1>6. /\ stock[ch].reserved = Total(o) /\ stock[ch].budget = Stock - Total(c)
      /\ stock[ch].reserved - stock[ch].budget <= Total(u)
  BY <1>2 DEF BudgetBooks
<1>7. /\ stock[ch].reserved \in Int /\ stock[ch].budget \in Int /\ Stock \in Int
      /\ stock'[ch].reserved \in Int /\ stock'[ch].budget \in Int
  BY BillingAssumption DEF TypeOK, Budgets, BillingAssumption
<1>8. /\ stock'[ch].reserved = Total(o1) /\ stock'[ch].budget = Stock - Total(c1)
      /\ stock'[ch].reserved - stock'[ch].budget <= Total(u1)
  <2>1. ASSUME NEW r \in Requests, MovesOn(r, ch)
        PROVE  /\ stock'[ch].reserved = Total(o1) /\ stock'[ch].budget = Stock - Total(c1)
               /\ stock'[ch].reserved - stock'[ch].budget <= Total(u1)
    <3>1. /\ \A q \in Requests \ {r} : o1[q] = o[q] /\ c1[q] = c[q] /\ u1[q] = u[q]
          /\ stock'[ch].reserved = stock[ch].reserved - o[r] + o1[r]
          /\ stock'[ch].budget = stock[ch].budget + c[r] - c1[r]
          /\ \/ stock'[ch].reserved - stock'[ch].budget <= 0
             \/ stock'[ch].reserved - stock'[ch].budget
                  <= stock[ch].reserved - stock[ch].budget - u[r] + u1[r]
      BY <1>1, <2>1 DEF MovesOn
    <3>2. Total(o1) = Total(o) - o[r] + o1[r]
      <4>1. /\ \A q \in Requests : o[q] \in Int /\ o1[q] \in Int
            /\ \A q \in Requests \ {r} : o1[q] = o[q]
        BY <1>3, <1>4, <3>1
      <4> QED
        BY <4>1, TotalMoves
    <3>3. Total(c1) = Total(c) - c[r] + c1[r]
      <4>1. /\ \A q \in Requests : c[q] \in Int /\ c1[q] \in Int
            /\ \A q \in Requests \ {r} : c1[q] = c[q]
        BY <1>3, <1>4, <3>1
      <4> QED
        BY <4>1, TotalMoves
    <3>4. Total(u1) = Total(u) - u[r] + u1[r]
      <4>1. /\ \A q \in Requests : u[q] \in Int /\ u1[q] \in Int
            /\ \A q \in Requests \ {r} : u1[q] = u[q]
        BY <1>3, <1>4, <3>1
      <4> QED
        BY <4>1, TotalMoves
    <3>5. o[r] \in Int /\ o1[r] \in Int /\ c[r] \in Int /\ c1[r] \in Int /\ u[r] \in Int /\ u1[r] \in Int
      BY <1>3, <1>4
    <3>6. stock'[ch].reserved = Total(o1) /\ stock'[ch].budget = Stock - Total(c1)
      BY <1>5, <1>6, <1>7, <3>1, <3>2, <3>3, <3>5
    <3>7. stock'[ch].reserved - stock'[ch].budget <= Total(u1)
      <4> DEFINE d == stock[ch].reserved - stock[ch].budget
                 d1 == stock'[ch].reserved - stock'[ch].budget
      <4>1. d \in Int /\ d1 \in Int /\ d <= Total(u) /\ Total(u) \in Int /\ Total(u1) \in Int /\ Total(u1) >= 0
        BY <1>5, <1>6, <1>7
      <4>2. d1 <= 0 \/ d1 <= d - u[r] + u1[r]
        BY <3>1
      <4> HIDE DEF d, d1
      <4>3. d1 <= Total(u1)
        BY <3>4, <3>5, <4>1, <4>2
      <4> QED
        BY <4>3 DEF d1
    <3> QED
      BY <3>6, <3>7
  <2>2. ASSUME stock'[ch] = stock[ch], \A q \in Requests : o1[q] = o[q] /\ c1[q] = c[q] /\ u1[q] = u[q]
        PROVE  /\ stock'[ch].reserved = Total(o1) /\ stock'[ch].budget = Stock - Total(c1)
               /\ stock'[ch].reserved - stock'[ch].budget <= Total(u1)
    <3>1. Total(o1) = Total(o) /\ Total(c1) = Total(c) /\ Total(u1) = Total(u)
      BY <2>2, RequestsAreFinite, SumCongruent DEF Total
    <3> QED
      BY <1>6, <2>2, <3>1
  <2> QED
    BY <1>1, <2>1, <2>2
<1> QED
  BY <1>2, <1>8

(* Every step keeps the books of the channels.                             *)
LEMMA BudgetBooksKept ==
  ASSUME TypeOK, RowSense, Unrouted, BudgetBooks, Step, TypeOK', RowSense'
  PROVE  BudgetBooks' /\ Unrouted'
<1>1. ASSUME NEW ch \in Channels
      PROVE  /\ stock'[ch].reserved = Total(Occupies(ch))'
             /\ stock'[ch].budget = Stock - Total(Costs(ch))'
             /\ stock'[ch].reserved - stock'[ch].budget <= Total(Under(ch))'
  <2>1. \/ \E r \in Requests : MovesOn(r, ch)
        \/ /\ stock'[ch] = stock[ch]
           /\ \A q \in Requests : /\ Occupies(ch)'[q] = Occupies(ch)[q] /\ Costs(ch)'[q] = Costs(ch)[q]
                                  /\ Under(ch)'[q] = Under(ch)[q]
    BY QuietChannels, EffectMoves DEF Step
  <2> QED
    BY <2>1, ChannelAdds
<1>2. ASSUME NEW q \in Requests, bill'[q].status = "none" PROVE bill'[q].channel = NoChannel
  <2>1. bill[q].status \in Statuses /\ bill'[q].status \in Statuses
    BY DEF TypeOK, Row
  <2>2. CASE Quiet
    <3>1. bill[q].status = "none"
      BY <1>2, <2>1, <2>2, SameStage DEF Quiet, RowKept
    <3>2. CASE UNCHANGED stock /\ \A r \in Requests : ChannelKept(r)
      BY <3>1, <3>2 DEF Unrouted, ChannelKept
    <3>3. CASE \E r \in Requests : Rerouted(r)
      <4>1. bill'[q] = bill[q]
        BY <3>1, <3>3 DEF Rerouted, OnlyRow, Open
      <4> QED
        BY <3>1, <4>1 DEF Unrouted
    <3> QED
      BY <2>2, <3>2, <3>3 DEF Quiet
  <2>3. ASSUME NEW r \in Requests, Effect(r) PROVE bill'[q].channel = NoChannel
    <3>1. q # r
      BY <1>2, <2>3 DEF Effect, Taken, Accepted, Settled, Parked, Released, Moves
    <3>2. bill'[q] = bill[q]
      BY <2>3, <3>1, OtherRows
    <3> QED
      BY <1>2, <3>2 DEF Unrouted
  <2> QED
    BY <2>2, <2>3 DEF Step
<1> QED
  BY <1>1, <1>2 DEF BudgetBooks, Unrouted

(* The books of the channels are the sums of the properties.               *)
LEMMA BudgetsAreSums ==
  ASSUME TypeOK, RowSense, BudgetBooks
  PROVE  ChannelBooks /\ OversoldByUnderestimates
<1>1. ASSUME NEW ch \in Channels, NEW T \in SUBSET Requests, NEW f, NEW e,
             \A r \in Requests : e[r] = IF r \in T THEN f[r] ELSE 0, \A r \in Requests : e[r] \in Nat
      PROVE  SumFunctionOnSet(f, T) = Total(e)
  <2>1. \A r \in T : f[r] \in Int
    BY <1>1
  <2> QED
    BY <1>1, <2>1, RequestsAreFinite, SumWhere DEF Total
<1>2. ASSUME NEW ch \in Channels
      PROVE  LET open == On(ch, Unsettled)
                 charged == On(ch, {"settled"})
             IN /\ SumFunctionOnSet([r \in open |-> bill[r].exposure], open) = Total(Occupies(ch))
                /\ SumFunctionOnSet([r \in charged |-> UpstreamCost[bill[r].receipt]], charged) = Total(Costs(ch))
                /\ SumFunctionOnSet([r \in charged |-> Underestimate(r)], charged) = Total(Under(ch))
  <2> DEFINE open == On(ch, Unsettled)
             charged == On(ch, {"settled"})
  <2>1. open \in SUBSET Requests /\ charged \in SUBSET Requests
    BY DEF On
  <2>2. \A r \in Requests : Occupies(ch)[r] \in Nat /\ Costs(ch)[r] \in Nat /\ Under(ch)[r] \in Nat
    BY Terms
  <2>3. \A r \in Requests :
          /\ Occupies(ch)[r] = IF r \in open THEN [q \in open |-> bill[q].exposure][r] ELSE 0
          /\ Costs(ch)[r] = IF r \in charged THEN [q \in charged |-> UpstreamCost[bill[q].receipt]][r] ELSE 0
          /\ Under(ch)[r] = IF r \in charged THEN [q \in charged |-> Underestimate(q)][r] ELSE 0
    BY DEF Occupies, Costs, Under
  <2> HIDE DEF open, charged
  <2>4. SumFunctionOnSet([r \in open |-> bill[r].exposure], open) = Total(Occupies(ch))
    BY <1>1, <2>1, <2>2, <2>3
  <2>5. SumFunctionOnSet([r \in charged |-> UpstreamCost[bill[r].receipt]], charged) = Total(Costs(ch))
    BY <1>1, <2>1, <2>2, <2>3
  <2>6. SumFunctionOnSet([r \in charged |-> Underestimate(r)], charged) = Total(Under(ch))
    BY <1>1, <2>1, <2>2, <2>3
  <2> QED
    BY <2>4, <2>5, <2>6 DEF open, charged
<1>3. ChannelBooks
  BY <1>2 DEF ChannelBooks, BudgetBooks
<1>4. OversoldByUnderestimates
  BY <1>2 DEF OversoldByUnderestimates, BudgetBooks
<1> QED
  BY <1>3, <1>4

(* In the beginning nothing is held, charged or reserved.                  *)
LEMMA InitBooks == Init => MoneyBooks /\ BudgetBooks /\ Unrouted
<1> SUFFICES ASSUME Init PROVE MoneyBooks /\ BudgetBooks /\ Unrouted
  OBVIOUS
<1>1. \A r \in Requests : bill[r] = NewRow /\ hold[r] = "none" /\ paid[r] = 0
  BY DEF Init
<1>2. \A r \in Requests : Held[r] = 0 /\ Over[r] = 0
  BY <1>1 DEF Held, Over, NewRow
<1>3. \A ch \in Channels, r \in Requests : Occupies(ch)[r] = 0 /\ Costs(ch)[r] = 0 /\ Under(ch)[r] = 0
  BY <1>1 DEF Occupies, Costs, Under, On, NewRow, Unsettled, Open, Queued
<1>4. Total(Held) = 0 /\ Total(Over) = 0 /\ Total(paid) = 0
  BY <1>1, <1>2, RequestsAreFinite, SumZero DEF Total
<1>5. MoneyBooks
  BY <1>4, BillingAssumption DEF Init, MoneyBooks, Available, BillingAssumption
<1>6. ASSUME NEW ch \in Channels
      PROVE  /\ stock[ch].reserved = Total(Occupies(ch)) /\ stock[ch].budget = Stock - Total(Costs(ch))
             /\ stock[ch].reserved - stock[ch].budget <= Total(Under(ch))
  <2>1. Total(Occupies(ch)) = 0 /\ Total(Costs(ch)) = 0 /\ Total(Under(ch)) = 0
    BY <1>3, RequestsAreFinite, SumZero DEF Total
  <2>2. stock[ch].reserved = 0 /\ stock[ch].budget = Stock /\ Stock \in Nat
    BY BillingAssumption DEF Init, BillingAssumption
  <2> QED
    BY <2>1, <2>2
<1> QED
  BY <1>1, <1>5, <1>6 DEF BudgetBooks, Unrouted, NewRow

(* Every step keeps them.                                                  *)
LEMMA StepBooks ==
  Safe /\ MoneyBooks /\ BudgetBooks /\ Unrouted /\ [Next]_vars => (MoneyBooks /\ BudgetBooks /\ Unrouted)'
<1> SUFFICES ASSUME Safe, MoneyBooks, BudgetBooks, Unrouted, [Next]_vars
             PROVE  MoneyBooks' /\ BudgetBooks' /\ Unrouted'
  OBVIOUS
<1>1. Safe'
  BY StepSafe
<1>2. /\ TypeOK /\ RowSense /\ MoneyFollowsStatus /\ ChargedOnce /\ Claims
      /\ TypeOK' /\ RowSense'
  BY <1>1 DEF Safe
<1>3. Step
  BY <1>2, StepEffects DEF Step
<1> QED
  BY <1>2, <1>3, MoneyBooksKept, BudgetBooksKept

(* So they hold in every reachable state.                                  *)
THEOREM BooksHold == Spec => [](Safe /\ MoneyBooks /\ BudgetBooks /\ Unrouted)
<1>1. Init => Safe /\ MoneyBooks /\ BudgetBooks /\ Unrouted
  BY InitSafe, InitBooks
<1>2. (Safe /\ MoneyBooks /\ BudgetBooks /\ Unrouted) /\ [Next]_vars
        => (Safe /\ MoneyBooks /\ BudgetBooks /\ Unrouted)'
  BY StepSafe, StepBooks
<1> QED
  BY <1>1, <1>2, PTL DEF Spec

(* The wallet's in-flight amount and balance are always those sums, and a  *)
(* user never owes more than his credit and what was used over a hold,     *)
(* however many requests there are and however they interleave.            *)
THEOREM WalletAlwaysAddsUp == Spec => [](WalletBooks /\ OverdraftIsOverage)
<1>1. Safe /\ MoneyBooks => WalletBooks /\ OverdraftIsOverage
  BY BooksAreSums DEF Safe
<1> QED
  BY <1>1, BooksHold, PTL

(* No reserved exposure is orphaned, and no cost is lost, whichever races  *)
(* reserveChannel loses; a channel is promised more than it has only by    *)
(* what was underestimated.                                                *)
THEOREM ChannelsAlwaysAddUp == Spec => [](ChannelBooks /\ OversoldByUnderestimates)
<1>1. Safe /\ BudgetBooks => ChannelBooks /\ OversoldByUnderestimates
  BY BudgetsAreSums DEF Safe
<1> QED
  BY <1>1, BooksHold, PTL

(* Together: whatever signals, lanes, reviews and crashes do, for any      *)
(* number of requests of the wallet and of channels they use.              *)
THEOREM MoneyIsAlwaysBooked == Spec => []MoneyIsBooked
<1>1. Safe => MoneyFollowsStatus
  BY DEF Safe
<1> QED
  BY <1>1, SafeHolds, WalletAlwaysAddsUp, ChannelsAlwaysAddUp, PTL DEF MoneyIsBooked
=============================================================================
