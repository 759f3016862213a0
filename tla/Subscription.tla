----------------------------- MODULE Subscription -----------------------------
(***************************************************************************)
(* The subscriptions of one user: bought, renewed, upgraded, cancelled and *)
(* filled up with packs, each in a transaction that locks the row it works *)
(* on, while keys are bound to them and requests hold and use their quota. *)
(* A transaction is two steps, the locked read and the commit, and others  *)
(* run in between; the quota primitives are single statements that wait    *)
(* for the lock.  A row is active until somebody writes otherwise: time    *)
(* alone does not change its status.                                       *)
(***************************************************************************)
EXTENDS Integers, FiniteSets, FiniteSetsExt

CONSTANTS
  Plans, Price, Quota, Rank,      (* [Plans -> Nat]; Rank is sortOrder       *)
  PackPrice, PackQuota,
  Period,                         (* periodDays of every plan               *)
  Ops, Kinds,                     (* transactions, and what they may be     *)
  Keys, Requests, Amount,         (* Amount: what a request reserves        *)
  Cash,                           (* the user's balance at first            *)
  MaxSubs, MaxNow                 (* bounds: rows, and the clock            *)

SubscriptionAssumption ==
  /\ Price \in [Plans -> Nat \ {0}] /\ Quota \in [Plans -> Nat \ {0}]
  /\ Rank \in [Plans -> Nat] /\ PackPrice \in Nat \ {0} /\ PackQuota \in Nat
  /\ Kinds \subseteq {"purchase", "renew", "change", "cancel", "pack"}
  /\ Period \in Nat \ {0} /\ Amount \in Nat \ {0} /\ Cash \in Nat

VARIABLES
  now, cash,
  subs,      (* [ids -> row of user_subscriptions]                          *)
  key,       (* [Keys -> creation step, subscription]                       *)
  req,       (* [Requests -> step, subscription]                            *)
  op         (* [Ops -> step, kind, row it locks, plan, row as it was read] *)

vars == <<now, cash, subs, key, req, op>>

Ids == 1 .. MaxSubs
NoSub == 0
NoRow == [st |-> "none", plan |-> "none", end |-> 0, quota |-> 0, used |-> 0,
          reserved |-> 0, price |-> 0, credit |-> 0, next |-> NoSub]

Init ==
  /\ now = 0 /\ cash = Cash
  /\ subs = [s \in Ids |-> NoRow]
  /\ key = [k \in Keys |-> [pc |-> "none", sub |-> NoSub]]
  /\ req = [r \in Requests |-> [pc |-> "new", sub |-> NoSub]]
  /\ op = [o \in Ops |-> [pc |-> "idle", kind |-> "none", sub |-> NoSub,
                          plan |-> "none", row |-> NoRow]]

Active(s) == s \in Ids /\ subs[s].st = "active"
Usable(s) == Active(s) /\ subs[s].end > now
Locked(s) == \E o \in Ops : op[o].pc = "open" /\ op[o].sub = s
Left(row) == row.quota - row.used - row.reserved
NewId == Cardinality({s \in Ids : subs[s].st # "none"}) + 1

-----------------------------------------------------------------------------
(* What a transaction reads.                                               *)

Open(o, kind, s, plan) ==
  /\ op[o].pc = "idle" /\ kind \in Kinds /\ NewId \in Ids
  /\ op' = [op EXCEPT ![o] = [pc |-> "open", kind |-> kind, sub |-> s, plan |-> plan,
                              row |-> IF s = NoSub THEN NoRow ELSE subs[s]]]
  /\ UNCHANGED <<now, cash, subs, key, req>>

(* expireLapsedSubscriptions locks the lapsed row; there must be no other. *)
Purchase(o, p) ==
  /\ \A s \in Ids : ~Usable(s)
  /\ \A s \in Ids : Active(s) => ~Locked(s)
  /\ LET lapsed == {s \in Ids : Active(s)} IN
     Open(o, "purchase", IF lapsed = {} THEN NoSub ELSE CHOOSE s \in lapsed : TRUE, p)

Renew(o, s) == Active(s) /\ ~Locked(s) /\ Open(o, "renew", s, subs[s].plan)
Change(o, s, p) ==
  Active(s) /\ ~Locked(s) /\ Rank[p] > Rank[subs[s].plan] /\ Open(o, "change", s, p)
Pack(o, s) == Usable(s) /\ ~Locked(s) /\ Open(o, "pack", s, "none")

-----------------------------------------------------------------------------
(* How it commits, or is rolled back as a whole.                           *)

Done(o) == op' = [op EXCEPT ![o].pc = "done"]
Row(plan, start) ==
  [NoRow EXCEPT !.st = "active", !.plan = plan, !.end = start + Period,
                !.quota = Quota[plan], !.price = Price[plan]]

(* user_subscriptions_one_active_uq: what is active besides the row that   *)
(* this transaction ends.                                                  *)
NoIndex(s) == TRUE   \* mutant: without the unique index
OnlyOne(s) == \A t \in Ids : Active(t) => t = s

(* casTransitionStatus, insertSubscription and rebindCredentials.          *)
Replace(o, start, credit) ==
  LET s == op[o].sub
      new == NewId
  IN  /\ OnlyOne(s)
      /\ subs' = [t \in Ids |-> CASE t = new -> Row(op[o].plan, start)
                    [] t = s -> [subs[s] EXCEPT !.st = "expired", !.credit = credit, !.next = new]
                    [] OTHER -> subs[t]]
      /\ key' = [k \in Keys |-> IF key[k].pc = "bound" /\ key[k].sub = s
                                THEN [key[k] EXCEPT !.sub = new] ELSE key[k]]

CommitPurchase(o) ==
  LET s == op[o].sub
      price == Price[op[o].plan]
  IN  /\ op[o].pc = "open" /\ op[o].kind = "purchase"
      /\ OnlyOne(s) /\ cash >= price /\ cash' = cash - price
      /\ subs' = [t \in Ids |-> CASE t = NewId -> Row(op[o].plan, now)
                    [] t = s -> [subs[s] EXCEPT !.st = "expired"]
                    [] OTHER -> subs[t]]
      /\ Done(o) /\ UNCHANGED <<now, key, req>>

(* renewalStart: what is paid for early begins when the old period ends.   *)
CommitRenew(o) ==
  /\ op[o].pc = "open" /\ op[o].kind = "renew"
  /\ LET price == Price[op[o].plan] IN cash >= price /\ cash' = cash - price
  /\ Replace(o, Max({subs[op[o].sub].end, now}), 0)
  /\ Done(o) /\ UNCHANGED <<now, req>>

(* remainingValue of the row that was read under the lock.                 *)
RemainingValue(row) == (row.price * Left(row)) \div row.quota

CommitChange(o) ==
  LET credit == RemainingValue(op[o].row)
      diff == Max({0, Price[op[o].plan] - credit})
  IN  /\ op[o].pc = "open" /\ op[o].kind = "change"
      /\ cash >= diff /\ cash' = cash - diff
      /\ Replace(o, now, credit)
      /\ Done(o) /\ UNCHANGED <<now, req>>

CommitPack(o) ==
  /\ op[o].pc = "open" /\ op[o].kind = "pack"
  /\ cash >= PackPrice /\ cash' = cash - PackPrice
  /\ subs' = [subs EXCEPT ![op[o].sub].quota = @ + PackQuota]
  /\ Done(o) /\ UNCHANGED <<now, key, req>>

Rollback(o) ==
  /\ op[o].pc = "open" /\ Done(o) /\ UNCHANGED <<now, cash, subs, key, req>>

(* One compare-and-set; what is left is forfeit.                           *)
Cancel(o, s) ==
  /\ op[o].pc = "idle" /\ "cancel" \in Kinds /\ Active(s) /\ ~Locked(s)
  /\ subs' = [subs EXCEPT ![s].st = "cancelled"]
  /\ Done(o) /\ UNCHANGED <<now, cash, key, req>>

-----------------------------------------------------------------------------
(* Keys: the subscription is looked at before the key is inserted.         *)

CheckKey(k, s) ==
  /\ key[k].pc = "none" /\ Usable(s)
  /\ key' = [key EXCEPT ![k] = [pc |-> "checked", sub |-> s]]
  /\ UNCHANGED <<now, cash, subs, req, op>>

InsertKey(k) ==
  /\ key[k].pc = "checked"
  /\ key' = [key EXCEPT ![k].pc = "bound"]
  /\ UNCHANGED <<now, cash, subs, req, op>>

-----------------------------------------------------------------------------
(* Requests: the binding and the row are read, then the quota is reserved. *)

Resolve(r, k) ==
  /\ req[r].pc = "new" /\ key[k].pc = "bound" /\ Usable(key[k].sub)
  /\ req' = [req EXCEPT ![r] = [pc |-> "resolved", sub |-> key[k].sub]]
  /\ UNCHANGED <<now, cash, subs, key, op>>

TryReserve(s) == subs[s].st = "active" /\ Left(subs[s]) >= Amount

Reserve(r) ==
  LET s == req[r].sub IN
  /\ req[r].pc = "resolved" /\ ~Locked(s)
  /\ IF TryReserve(s)
     THEN /\ subs' = [subs EXCEPT ![s].reserved = @ + Amount]
          /\ req' = [req EXCEPT ![r].pc = "held"]
     ELSE /\ req' = [req EXCEPT ![r].pc = IF Active(s) THEN "exhausted" ELSE "inactive"]
          /\ UNCHANGED subs
  /\ UNCHANGED <<now, cash, key, op>>

Owed(r) == req[r].pc = "held"
Consumed == 0 .. Amount

(* trySettleQuota and tryReleaseQuota, whatever the status is by then.     *)
Return(r, used) ==
  LET s == req[r].sub IN
  /\ Owed(r) /\ ~Locked(s)
  /\ subs[s].reserved >= Amount
  /\ subs[s].used + used + (subs[s].reserved - Amount) <= subs[s].quota
  /\ subs' = [subs EXCEPT ![s].reserved = @ - Amount, ![s].used = @ + used]
  /\ req' = [req EXCEPT ![r].pc = "over"]
  /\ UNCHANGED <<now, cash, key, op>>

Tick == now < MaxNow /\ now' = now + 1 /\ UNCHANGED <<cash, subs, key, req, op>>

Next ==
  \/ Tick
  \/ \E o \in Ops :
       \/ \E p \in Plans : Purchase(o, p) \/ \E s \in Ids : Change(o, s, p)
       \/ \E s \in Ids : Renew(o, s) \/ Pack(o, s) \/ Cancel(o, s)
       \/ CommitPurchase(o) \/ CommitRenew(o) \/ CommitChange(o) \/ CommitPack(o)
       \/ Rollback(o)
  \/ \E k \in Keys : InsertKey(k) \/ \E s \in Ids : CheckKey(k, s)
  \/ \E r \in Requests :
       \/ \E k \in Keys : Resolve(r, k)
       \/ Reserve(r) \/ \E n \in Consumed : Return(r, n)

Spec == Init /\ [][Next]_vars

-----------------------------------------------------------------------------
(* Properties.                                                             *)

(* Every variable keeps its type; an open transaction works on the row as  *)
(* it read it, unless it is there to end it.                               *)
TypeOK ==
  /\ now \in 0 .. MaxNow /\ cash \in 0 .. Cash
  /\ \A s \in Ids :
       /\ subs[s].st \in {"none", "active", "expired", "cancelled"}
       /\ subs[s].used \in Nat /\ subs[s].reserved \in Nat /\ Left(subs[s]) \in Nat
  /\ \A o \in Ops : op[o].pc = "open" /\ op[o].sub # NoSub => op[o].row = subs[op[o].sub]

(* A subscription holds exactly what its requests under way have reserved, *)
(* renewed, replaced or cancelled as it may be.                            *)
HeldByRequests ==
  \A s \in Ids :
    subs[s].reserved = Amount * Cardinality({r \in Requests : req[r].pc = "held" /\ req[r].sub = s})

(* One active subscription for a user, with purchases and renewals at the  *)
(* same time and lapsed rows that still say active.                        *)
OneActive == Cardinality({s \in Ids : Active(s)}) <= 1

(* An upgrade gives no credit for what is used, not even by requests that  *)
(* were under way and settle afterwards: credit and use share the price.   *)
NothingPaidTwice ==
  \A s \in Ids :
    subs[s].credit * subs[s].quota + subs[s].price * subs[s].used <= subs[s].price * subs[s].quota

(* credential.repo.ts: who has paid does not find his key refused.         *)
NoKeyLeftBehind ==
  \A k \in Keys : key[k].pc = "bound" => subs[key[k].sub].next = NoSub

(* requirements.md: what is left when a subscription ends is gone for good.*)
LapsedForfeits ==
  [][\A s \in Ids : subs'[s].credit # subs[s].credit => subs[s].end > now]_vars
=============================================================================
