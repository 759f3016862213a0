------------------------------ MODULE Admission ------------------------------
(***************************************************************************)
(* How a request is let in: billing.authorize with the steps its           *)
(* transaction takes in READ COMMITTED isolation.  Calls of one user take  *)
(* turns under an advisory lock; nothing else does: a settlement, a        *)
(* release, another user of the same subscription or the end of the        *)
(* subscription may come between any two reads.                            *)
(* What happens to an admitted request is module Billing's; here it ends   *)
(* in one step that returns its shares.  One day, one currency, and one    *)
(* subscription that keys may be bound to; an organisation's other members *)
(* draw on it within a limit of their own.                                 *)
(***************************************************************************)
EXTENDS Integers, FiniteSets, Functions

CONSTANTS
  Requests, Users, Keys, Callers,
  User, Key,     (* whose request it is, and the API key it came with      *)
  Bound,         (* whether that key is bound to the subscription          *)
  Fallback,      (* allow_payg_fallback of the key                         *)
  UserLimit, KeyLimit,  (* daily spend limits, or NoLimit                  *)
  MemberLimit,   (* a member's daily share of the subscription; NoLimit:   *)
                 (* the owner, or a member without one                     *)
  Quota,         (* quota_amount of the subscription                       *)
  Deposit, CreditLimit,  (* of each user's wallet                          *)
  Estimates,     (* conservative estimates a call may come with            *)
  Freeze,        (* fixed reservation policy: the amount frozen; 0: full   *)
  Costs,         (* what a settlement may charge                           *)
  Prices,        (* what a purchase may cost                               *)
  NoLimit, Free

(* An API key is of one user.                                              *)
AdmissionAssumption ==
  /\ IsFiniteSet(Requests)
  /\ User \in [Requests -> Users] /\ Key \in [Requests -> Keys]
  /\ \A q, r \in Requests : Key[q] = Key[r] => User[q] = User[r]
  /\ Bound \in [Requests -> BOOLEAN] /\ Fallback \in [Requests -> BOOLEAN]
  /\ NoLimit \notin Nat
  /\ UserLimit \in [Users -> Nat \cup {NoLimit}]
  /\ KeyLimit \in [Keys -> Nat \cup {NoLimit}]
  /\ MemberLimit \in [Users -> Nat \cup {NoLimit}]
  /\ Quota \in Nat /\ Freeze \in Nat
  /\ Deposit \in [Users -> Nat] /\ CreditLimit \in [Users -> Nat]
  /\ Estimates \subseteq Nat /\ Costs \subseteq Nat
  /\ Prices \subseteq Nat \ {0}
  /\ Free \notin Callers

VARIABLES
  rows,      (* billing_requests with the reservations behind each          *)
  sub,       (* the subscription: active, used, reserved                    *)
  wallets,   (* per user: balance and inFlight                              *)
  locks,     (* per user: the call that holds the advisory lock, or Free    *)
  calls,     (* authorize calls in progress                                 *)
  missed     (* history: requests that settled between the two reads of     *)
             (* somebody's limit check, and so are in neither               *)

vars == <<rows, sub, wallets, locks, calls, missed>>

Row == [status : {"none", "open", "settled", "released"},
        est  : Nat,          \* estimated_exposure_amount, and the fingerprint
        plan : Nat,          \* active or settled share of the subscription
        payg : Nat,          \* ... and of the wallet
        cost : Nat]          \* amount in usage_logs
NewRow == [status |-> "none", est |-> 0, plan |-> 0, payg |-> 0, cost |-> 0]

IdleCall == [pc |-> "idle"]

Init ==
  /\ rows    = [r \in Requests |-> NewRow]
  /\ sub     = [active |-> TRUE, used |-> 0, reserved |-> 0]
  /\ wallets = [u \in Users |-> [balance |-> Deposit[u], inFlight |-> 0]]
  /\ locks   = [u \in Users |-> Free]
  /\ calls   = [c \in Callers |-> IdleCall]
  /\ missed  = {}

-----------------------------------------------------------------------------
Least(x, y) == IF x <= y THEN x ELSE y
AtLeastZero(x) == IF x >= 0 THEN x ELSE 0

Open(r) == rows[r].status = "open"
Settled(r) == rows[r].status = "settled"

(* The requests a limit adds up.                                           *)
Within(r, scope) ==
  CASE scope = "user" -> {q \in Requests : User[q] = User[r]}
    [] scope = "key"  -> {q \in Requests : Key[q] = Key[r]}
    [] scope = "member" -> {q \in Requests : User[q] = User[r] /\ Bound[q]}

Limit(r, scope) ==
  CASE scope = "user" -> UserLimit[User[r]]
    [] scope = "key"  -> KeyLimit[Key[r]]
    [] scope = "member" -> MemberLimit[User[r]]

(* sumSettledSpend and sumExposure.                                        *)
Spent(S) == SumFunctionOnSet([q \in Requests |-> rows[q].cost], {q \in S : Settled(q)})
Exposure(S) == SumFunctionOnSet([q \in Requests |-> rows[q].est], {q \in S : Open(q)})

(* The order of the two reads: assertDailyLimit asks for the spending      *)
(* first, the probe of the subscription for the exposure.                  *)
ReadsSpentFirst(scope) == scope # "member"

Available(u) == wallets[u].balance + CreditLimit[u] - wallets[u].inFlight

(* The full estimate, or a fixed amount for requests that only the wallet  *)
(* pays for.                                                               *)
FundingTarget(r, est) ==
  IF Bound[r] \/ est = 0 \/ Freeze = 0 THEN est ELSE Freeze

-----------------------------------------------------------------------------
(* The call leaves its transaction, if it was in one, with an answer.      *)
Answered == {"granted", "replayed", "refused"}

Leave(c, answer) ==
  /\ calls' = [calls EXCEPT ![c] =
                 [pc |-> answer, req |-> @.req, est |-> @.est]]
  /\ locks' = [u \in Users |-> IF locks[u] = c THEN Free ELSE locks[u]]

(* replayOf: an earlier authorization with the same fingerprint, still     *)
(* open, is answered as it stands; any other is a conflict.                *)
ReplayOf(r, est) == rows[r].status = "open" /\ rows[r].est = est

(* The fast path, before the transaction.                                  *)
Call(c, r, est) ==
  /\ calls[c].pc = "idle"
  /\ calls' = [calls EXCEPT ![c] =
       [pc |-> IF rows[r].status = "none" THEN "waiting"
               ELSE IF ReplayOf(r, est) THEN "replayed" ELSE "refused",
        req |-> r, est |-> est]]
  /\ UNCHANGED <<rows, sub, wallets, locks, missed>>

(* advisoryLockAuthorizeUser.                                              *)
EnterWithoutTurn(c) ==   \* mutant: no lock
  LET u == User[calls[c].req] IN
  /\ calls[c].pc = "waiting"
  /\ locks' = [locks EXCEPT ![u] = c]
  /\ calls' = [calls EXCEPT ![c].pc = "entered"]
  /\ UNCHANGED <<rows, sub, wallets, missed>>

Enter(c) ==
  LET u == User[calls[c].req] IN
  /\ calls[c].pc = "waiting"
  /\ locks[u] = Free
  /\ locks' = [locks EXCEPT ![u] = c]
  /\ calls' = [calls EXCEPT ![c].pc = "entered"]
  /\ UNCHANGED <<rows, sub, wallets, missed>>

(* Which limit is checked next, if any: the user's, then the key's; after  *)
(* them the funding is planned, which is nothing at all for a free request.*)
CheckFrom(c, scopes) ==
  LET r == calls[c].req
      limited == {s \in scopes : Limit(r, s) # NoLimit} IN
  /\ UNCHANGED locks
  /\ calls' = [calls EXCEPT ![c] =
       IF limited # {}
         THEN [pc |-> "first", req |-> r, est |-> @.est, room |-> 0, seen |-> 0,
               scope |-> IF "user" \in limited THEN "user" ELSE "key"]
         ELSE IF FundingTarget(r, @.est) = 0
         THEN [pc |-> "commit", req |-> r, est |-> @.est, plan |-> 0, payg |-> 0]
         ELSE [pc |-> IF Bound[r] THEN "snapshot" ELSE "wallet",
               req |-> r, est |-> @.est, plan |-> 0]]

(* The row is looked up again now that the user's other calls are done.    *)
Reread(c) ==
  LET r == calls[c].req IN
  /\ calls[c].pc = "entered"
  /\ IF rows[r].status = "none" THEN CheckFrom(c, {"user", "key"})
     ELSE Leave(c, IF ReplayOf(r, calls[c].est) THEN "replayed" ELSE "refused")
  /\ UNCHANGED <<rows, sub, wallets, missed>>

(* A limit check reads the settled spending and the exposure of the other  *)
(* open requests in two statements.                                        *)
ReadOnce(c, spent) ==
  LET S == Within(calls[c].req, calls[c].scope) IN
  IF spent THEN Spent(S) ELSE Exposure(S \ {calls[c].req})

ReadFirst(c) ==
  /\ calls[c].pc = "first"
  /\ calls' = [calls EXCEPT ![c] =
       [@ EXCEPT !.pc = "second",
                 !.seen = ReadOnce(c, ReadsSpentFirst(calls[c].scope))]]
  /\ UNCHANGED <<rows, sub, wallets, locks, missed>>

Total(c) ==
  calls[c].seen + ReadOnce(c, ~ReadsSpentFirst(calls[c].scope))

(* assertDailySpendLimit.                                                  *)
CheckLimit(c) ==
  /\ calls[c].pc = "second" /\ calls[c].scope \in {"user", "key"}
  /\ IF Total(c) + calls[c].est > Limit(calls[c].req, calls[c].scope)
       THEN Leave(c, "refused")
       ELSE CheckFrom(c, IF calls[c].scope = "user" THEN {"key"} ELSE {})
  /\ UNCHANGED <<rows, sub, wallets, missed>>

-----------------------------------------------------------------------------
(* planFunding: how much each source is to bear, without moving anything.  *)

(* The subscription bears what it has available; what it cannot goes to    *)
(* the wallet, if the key allows that.                                     *)
PlanShare(c, available) ==
  LET r == calls[c].req
      est == calls[c].est
      plan == Least(available, est) IN
  IF plan < est /\ ~Fallback[r] THEN Leave(c, "refused")
  ELSE /\ UNCHANGED locks
       /\ calls' = [calls EXCEPT ![c] =
            IF plan = est
              THEN [pc |-> "commit", req |-> r, est |-> est, plan |-> plan, payg |-> 0]
              ELSE [pc |-> "wallet", req |-> r, est |-> est, plan |-> plan]]

Room == AtLeastZero(Quota - sub.used - sub.reserved)

Snapshot(c) ==
  LET r == calls[c].req IN
  /\ calls[c].pc = "snapshot"
  /\ IF ~sub.active THEN Leave(c, "refused")
     ELSE IF Limit(r, "member") = NoLimit THEN PlanShare(c, Room)
     ELSE /\ UNCHANGED locks
          /\ calls' = [calls EXCEPT ![c] =
               [pc |-> "first", req |-> r, est |-> @.est, room |-> Room,
                seen |-> 0, scope |-> "member"]]
  /\ UNCHANGED <<rows, sub, wallets, missed>>

CheckMember(c) ==
  /\ calls[c].pc = "second" /\ calls[c].scope = "member"
  /\ PlanShare(c, Least(calls[c].room,
                        AtLeastZero(Limit(calls[c].req, "member") - Total(c))))
  /\ UNCHANGED <<rows, sub, wallets, missed>>

(* The wallet has to bear all of the rest.                                 *)
ProbeWallet(c) ==
  LET r == calls[c].req
      rest == FundingTarget(r, calls[c].est) - calls[c].plan IN
  /\ calls[c].pc = "wallet"
  /\ IF Available(User[r]) < rest THEN Leave(c, "refused")
     ELSE /\ UNCHANGED locks
          /\ calls' = [calls EXCEPT ![c] =
               [pc |-> "commit", req |-> r, est |-> @.est, plan |-> @.plan,
                payg |-> rest]]
  /\ UNCHANGED <<rows, sub, wallets, missed>>

-----------------------------------------------------------------------------
(* The row is inserted and the shares are taken, each under a guard of its *)
(* own: tryReserveQuota, and assertCanDebit on the locked account.  One    *)
(* that fails rolls the whole transaction back.                            *)
QuotaAsProbed(c) == sub.active   \* mutant: trusts the snapshot
CanReserveQuota(c) ==
  calls[c].plan > 0 =>
    sub.active /\ Quota - sub.used - sub.reserved >= calls[c].plan

CanDebit(c) ==
  calls[c].payg > 0 => Available(User[calls[c].req]) >= calls[c].payg

Commit(c) ==
  LET r == calls[c].req IN
  /\ calls[c].pc = "commit"
  /\ IF rows[r].status = "none" /\ CanReserveQuota(c) /\ CanDebit(c)
       THEN /\ rows' = [rows EXCEPT ![r] =
                          [status |-> "open", est |-> calls[c].est,
                           plan |-> calls[c].plan, payg |-> calls[c].payg,
                           cost |-> 0]]
            /\ sub' = [sub EXCEPT !.reserved = @ + calls[c].plan]
            /\ wallets' = [wallets EXCEPT ![User[r]].inFlight = @ + calls[c].payg]
            /\ Leave(c, "granted")
       ELSE /\ Leave(c, "refused")
            /\ UNCHANGED <<rows, sub, wallets>>
  /\ UNCHANGED missed

(* The caller takes its answer, or dies half-way: its connection closes,   *)
(* the transaction is rolled back and the lock is free.                    *)
HangUp(c) ==
  /\ calls[c].pc # "idle"
  /\ calls' = [calls EXCEPT ![c] = IdleCall]
  /\ locks' = [u \in Users |-> IF locks[u] = c THEN Free ELSE locks[u]]
  /\ UNCHANGED <<rows, sub, wallets, missed>>

-----------------------------------------------------------------------------
(* The end of a request.                                                   *)

(* allocateSettlement: the subscription pays first, then the wallet's hold;*)
(* the rest is collected from the balance.                                 *)
FromPlan(r, cost) == Least(cost, rows[r].plan)

(* trySettleQuota and tryReleaseQuota refuse what the row does not have.   *)
QuotaAllows(reserved, consumed) ==
  /\ sub.reserved >= reserved
  /\ sub.used + consumed + (sub.reserved - reserved) <= Quota

Settle(r, cost) ==
  /\ Open(r)
  /\ rows[r].plan + rows[r].payg = 0 => cost = 0
  /\ rows[r].plan > 0 => QuotaAllows(rows[r].plan, FromPlan(r, cost))
  /\ rows' = [rows EXCEPT ![r].status = "settled", ![r].cost = cost]
  /\ sub'  = [sub EXCEPT
                !.reserved = @ - rows[r].plan,
                !.used = @ + FromPlan(r, cost)]
  /\ wallets' = [wallets EXCEPT ![User[r]] =
                   [balance  |-> @.balance - (cost - FromPlan(r, cost)),
                    inFlight |-> @.inFlight - rows[r].payg]]
  /\ missed' =
       IF \E c \in Callers :
            /\ calls[c].pc = "second" /\ ReadsSpentFirst(calls[c].scope)
            /\ r \in Within(calls[c].req, calls[c].scope)
         THEN missed \cup {r} ELSE missed
  /\ UNCHANGED <<locks, calls>>

Release(r) ==
  /\ Open(r)
  /\ rows[r].plan > 0 => sub.reserved >= rows[r].plan
  /\ rows' = [rows EXCEPT ![r].status = "released"]
  /\ sub' = [sub EXCEPT !.reserved = @ - rows[r].plan]
  /\ wallets' = [wallets EXCEPT ![User[r]].inFlight = @ - rows[r].payg]
  /\ UNCHANGED <<locks, calls, missed>>

(* A plan or a pack is bought: a transfer out of the wallet, in cash (what *)
(* is held is not to be spent, the credit line neither).                   *)
Purchase(u, price) ==
  /\ wallets[u].balance - wallets[u].inFlight >= price
  /\ wallets' = [wallets EXCEPT ![u].balance = @ - price]
  /\ UNCHANGED <<rows, sub, locks, calls, missed>>

(* The subscription lapses, is cancelled or is replaced by another; used   *)
(* and reserved stay for the requests in flight.                           *)
SubscriptionEnds ==
  /\ sub.active
  /\ sub' = [sub EXCEPT !.active = FALSE]
  /\ UNCHANGED <<rows, wallets, locks, calls, missed>>

-----------------------------------------------------------------------------
Proceed(c) == \/ Reread(c) \/ ReadFirst(c) \/ CheckLimit(c)
              \/ Snapshot(c) \/ CheckMember(c) \/ ProbeWallet(c) \/ Commit(c)

Next ==
  \/ \E c \in Callers :
       \/ \E r \in Requests, est \in Estimates : Call(c, r, est)
       \/ Enter(c) \/ Proceed(c) \/ HangUp(c)
  \/ \E r \in Requests : Release(r) \/ \E cost \in Costs : Settle(r, cost)
  \/ \E u \in Users, price \in Prices : Purchase(u, price)
  \/ SubscriptionEnds

Spec == Init /\ [][Next]_vars

-----------------------------------------------------------------------------
(* Properties.                                                             *)

Calls ==
  {IdleCall}
  \cup [pc : {"waiting", "entered"} \cup Answered, req : Requests, est : Estimates]
  \cup [pc : {"first", "second"}, req : Requests, est : Estimates, room : Nat,
        seen : Nat, scope : {"user", "key", "member"}]
  \cup [pc : {"snapshot", "wallet"}, req : Requests, est : Estimates, plan : Nat]
  \cup [pc : {"commit"}, req : Requests, est : Estimates, plan : Nat, payg : Nat]

(* Every variable keeps its type: no reservation of the subscription is    *)
(* ever given back twice.                                                  *)
TypeOK ==
  /\ rows \in [Requests -> Row]
  /\ sub \in [active : BOOLEAN, used : Nat, reserved : Nat]
  /\ wallets \in [Users -> [balance : Int, inFlight : Int]]
  /\ locks \in [Users -> Callers \cup {Free}]
  /\ calls \in [Callers -> Calls]
  /\ missed \subseteq Requests

OpenOf(u) == {r \in Requests : User[r] = u /\ Open(r)}
SettledOf(u) == {r \in Requests : User[r] = u /\ Settled(r)}

(* What a set of requests has reserved of the subscription, and used.      *)
Shares(S) == SumFunctionOnSet([r \in Requests |-> rows[r].plan], S)
Used(S) == SumFunctionOnSet([r \in Requests |-> FromPlan(r, rows[r].cost)], S)

(* The subscription is never promised twice, whoever of its users asks at  *)
(* the same time and whatever their probes saw; what it has reserved are   *)
(* exactly the shares of open requests, so that the guarded update of no   *)
(* settlement and no release is ever refused.                              *)
QuotaBooks ==
  /\ sub.used + sub.reserved <= Quota
  /\ sub.reserved = Shares({r \in Requests : Open(r)})
  /\ sub.used = Used({r \in Requests : Settled(r)})

(* A wallet's holds are covered by its balance and credit line, except for *)
(* what settlements collected beyond the shares.                           *)
Overage(r) ==
  AtLeastZero(rows[r].cost - FromPlan(r, rows[r].cost) - rows[r].payg)

HoldsAreCovered ==
  \A u \in Users :
    /\ wallets[u].inFlight = SumFunctionOnSet([r \in Requests |-> rows[r].payg], OpenOf(u))
    /\ Available(u) >= 0 - SumFunctionOnSet([r \in Requests |-> Overage(r)], SettledOf(u))

(* A member takes out of the organisation's subscription no more than the  *)
(* member's limit, open shares included, although a settlement may come    *)
(* between the two reads: it is counted twice then, never not at all.      *)
MemberStaysWithinShare ==
  \A u \in Users :
    MemberLimit[u] # NoLimit => Shares(OpenOf(u)) + Used(SettledOf(u)) <= MemberLimit[u]

(* What the requests share is covered by what there is, whoever asks at    *)
(* the same time: by the subscription, by a member's part of it and by the *)
(* wallets.                                                                *)
SharesAreCovered == TypeOK /\ QuotaBooks /\ HoldsAreCovered /\ MemberStaysWithinShare

(* The daily limits of user and key hold over spending and exposure up to  *)
(* what settlements charged beyond the estimates, and up to the requests   *)
(* that settled while somebody's check was between its two reads.          *)
Excused(r) == IF r \in missed THEN rows[r].cost
              ELSE AtLeastZero(rows[r].cost - rows[r].est)

DailyLimitsUpToRaces ==
  \A r \in Requests, scope \in {"user", "key"} :
    LET S == Within(r, scope) IN
      Limit(r, scope) # NoLimit =>
        Spent(S) + Exposure(S) <=
          Limit(r, scope)
            + SumFunctionOnSet([q \in Requests |-> Excused(q)], {q \in S : Settled(q)})

(* Whoever is told that a request is authorized asked for the amount that  *)
(* is on its row: a replay never answers for another call's amount.        *)
AnswersAgree ==
  \A c \in Callers :
    calls[c].pc \in {"granted", "replayed"} =>
      /\ rows[calls[c].req].status # "none"
      /\ rows[calls[c].req].est = calls[c].est

(* Requests that enter together do not get more out of the daily limits    *)
(* than those the check passed before, and a replay is answered like the   *)
(* request it repeats.                                                     *)
LimitsAreShared == DailyLimitsUpToRaces /\ AnswersAgree

(* authorize.ts and daily-limit.ts: settled plus in flight plus this one   *)
(* must not exceed the daily limit.  What a settlement charged above the   *)
(* estimate of its request comes on top and is not held against it.        *)
DailyLimitHolds ==
  \A r \in Requests :
    LET S == Within(r, "user")
        Beyond == [q \in Requests |-> AtLeastZero(rows[q].cost - rows[q].est)] IN
      UserLimit[User[r]] # NoLimit =>
        Spent(S) + Exposure(S)
          <= UserLimit[User[r]] + SumFunctionOnSet(Beyond, {q \in S : Settled(q)})
=============================================================================
