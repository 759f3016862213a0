-------------------------- MODULE AdmissionProofs ---------------------------
(***************************************************************************)
(* What pays for requests is shared by them: the subscription is not       *)
(* promised twice, a member stays within his share, holds are covered by   *)
(* the wallet, and the daily limits are kept up to the requests that       *)
(* settled while somebody read them.  For every number of requests, users, *)
(* keys and calls.                                                         *)
(*                                                                         *)
(* A call reads in several statements, and what it concludes is used later.*)
(* The invariant says what each conclusion is still worth when it is used: *)
(* what was seen of a limit is not less than what is left of it, because   *)
(* nobody but the call adds to it as long as it has the lock of its user,  *)
(* and a settlement moves an amount from one read to the other, so that it *)
(* is seen twice, or is missed and recorded as such.                       *)
(***************************************************************************)
EXTENDS Admission, Sums

(* What a row adds to each of the sums.                                    *)
CostOf(w) == IF w.status = "settled" THEN w.cost ELSE 0
EstOf(w) == IF w.status = "open" THEN w.est ELSE 0
ShareOf(w) == IF w.status = "open" THEN w.plan ELSE 0
UsedOf(w) == IF w.status = "settled" THEN Least(w.cost, w.plan) ELSE 0
HeldOf(w) == IF w.status = "open" THEN w.payg ELSE 0
OverOf(w) ==
  IF w.status = "settled" THEN AtLeastZero(w.cost - Least(w.cost, w.plan) - w.payg) ELSE 0
ExcusedOf(w, m) ==
  IF w.status = "settled" THEN IF m THEN w.cost ELSE AtLeastZero(w.cost - w.est) ELSE 0

Cost == [q \in Requests |-> CostOf(rows[q])]
Est == [q \in Requests |-> EstOf(rows[q])]
Share == [q \in Requests |-> ShareOf(rows[q])]
UsedUp == [q \in Requests |-> UsedOf(rows[q])]
Held == [q \in Requests |-> HeldOf(rows[q])]
Over == [q \in Requests |-> OverOf(rows[q])]
Pardon == [q \in Requests |-> ExcusedOf(rows[q], q \in missed)]

CostIn(S) == SumFunctionOnSet(Cost, S)
EstIn(S) == SumFunctionOnSet(Est, S)
ShareIn(S) == SumFunctionOnSet(Share, S)
UsedIn(S) == SumFunctionOnSet(UsedUp, S)
HeldIn(S) == SumFunctionOnSet(Held, S)
OverIn(S) == SumFunctionOnSet(Over, S)
ExcusedIn(S) == SumFunctionOnSet(Pardon, S)

(* What counts against a daily limit, and against a member's share.        *)
Weight(S) == CostIn(S) - ExcusedIn(S) + EstIn(S)
TakenIn(S) == ShareIn(S) + UsedIn(S)

Of(u) == {r \in Requests : User[r] = u}
Daily == {"user", "key"}

(* The books, as sums over all rows.                                       *)
RowsFit == \A r \in Requests : rows[r].plan <= rows[r].est /\ (rows[r].plan > 0 => Bound[r])

QuotaInv ==
  /\ sub.used + sub.reserved <= Quota
  /\ sub.reserved = ShareIn(Requests) /\ sub.used = UsedIn(Requests)

WalletInv ==
  \A u \in Users :
    wallets[u].inFlight = HeldIn(Of(u)) /\ Available(u) >= 0 - OverIn(Of(u))

MemberInv == \A u \in Users : MemberLimit[u] # NoLimit => TakenIn(Of(u)) <= MemberLimit[u]

DailyInv ==
  \A r \in Requests, s \in Daily :
    Limit(r, s) # NoLimit => Weight(Within(r, s)) <= Limit(r, s)

(* A call that is past the lock has the lock, and its request is new.      *)
Past == {"first", "second", "snapshot", "wallet", "commit"}
Inside == Past \cup {"entered"}

Locked(c, k) == k.pc \in Inside => locks[User[k.req]] = c
New(k) == k.pc \in Past => rows[k.req].status = "none"

(* What is planned is no more than was asked for, and only a bound key     *)
(* draws on the subscription.                                              *)
Fits(k) ==
  /\ k.pc \in {"first", "second"} =>
       Limit(k.req, k.scope) # NoLimit /\ (k.scope = "member" => Bound[k.req])
  /\ k.pc = "snapshot" => k.plan = 0 /\ Bound[k.req]
  /\ k.pc \in {"wallet", "commit"} => k.plan <= k.est /\ (k.plan > 0 => Bound[k.req])

(* After the first of two reads: what was seen is no less than what is     *)
(* still to be counted of it.                                              *)
SeenEnough(k) ==
  k.pc = "second" =>
    LET S == Within(k.req, k.scope) IN
      IF k.scope = "member" THEN ShareIn(S) <= k.seen ELSE CostIn(S) - ExcusedIn(S) <= k.seen

(* The limits that a call has passed, and that have room for it.           *)
Passed(k) ==
  IF k.pc \in {"snapshot", "wallet", "commit"} THEN Daily
  ELSE IF k.pc \notin {"first", "second"} THEN {}
  ELSE IF k.scope = "member" THEN Daily
  ELSE IF k.scope = "key" THEN {"user"} ELSE {}

HasRoom(r, est, s) == Limit(r, s) # NoLimit => Weight(Within(r, s)) + est <= Limit(r, s)
DayRoom(k) == \A s \in Passed(k) : HasRoom(k.req, k.est, s)

(* What is planned of the subscription fits the member's share.            *)
ShareRoom(k) ==
  k.pc \in {"wallet", "commit"} /\ MemberLimit[User[k.req]] # NoLimit =>
    TakenIn(Of(User[k.req])) + k.plan <= MemberLimit[User[k.req]]

Told(k) ==
  k.pc \in {"granted", "replayed"} =>
    rows[k.req].status # "none" /\ rows[k.req].est = k.est

Fine(k) == New(k) /\ Fits(k) /\ SeenEnough(k) /\ DayRoom(k) /\ ShareRoom(k) /\ Told(k)
CallsInv == \A c \in Callers : Locked(c, calls[c]) /\ Fine(calls[c])

Books == RowsFit /\ QuotaInv /\ WalletInv /\ MemberInv /\ DailyInv
Inv == TypeOK /\ Books /\ CallsInv

-----------------------------------------------------------------------------
(* Sums.                                                                   *)

(* Every term of a sum is a natural number.                                *)
LEMMA TermTypes ==
  ASSUME NEW w \in Row, NEW m \in BOOLEAN
  PROVE  /\ CostOf(w) \in Nat /\ EstOf(w) \in Nat /\ ShareOf(w) \in Nat /\ UsedOf(w) \in Nat
         /\ HeldOf(w) \in Nat /\ OverOf(w) \in Nat /\ ExcusedOf(w, m) \in Nat
         /\ ExcusedOf(w, m) <= CostOf(w) /\ UsedOf(w) <= CostOf(w)
BY DEF Row, CostOf, EstOf, ShareOf, UsedOf, HeldOf, OverOf, ExcusedOf, Least, AtLeastZero

(* The functions that are added up.                                        *)
LEMMA TermFunctions ==
  ASSUME rows \in [Requests -> Row]
  PROVE  /\ Cost \in [Requests -> Nat] /\ Est \in [Requests -> Nat]
         /\ Share \in [Requests -> Nat] /\ UsedUp \in [Requests -> Nat]
         /\ Held \in [Requests -> Nat] /\ Over \in [Requests -> Nat]
         /\ Pardon \in [Requests -> Nat]
<1> SUFFICES ASSUME NEW q \in Requests
             PROVE  /\ CostOf(rows[q]) \in Nat /\ EstOf(rows[q]) \in Nat
                    /\ ShareOf(rows[q]) \in Nat /\ UsedOf(rows[q]) \in Nat
                    /\ HeldOf(rows[q]) \in Nat /\ OverOf(rows[q]) \in Nat
                    /\ ExcusedOf(rows[q], q \in missed) \in Nat
  BY DEF Cost, Est, Share, UsedUp, Held, Over, Pardon
<1>1. rows[q] \in Row /\ (q \in missed) \in BOOLEAN
  OBVIOUS
<1> QED
  BY <1>1, TermTypes

(* A sum of natural numbers over some of the requests is one.              *)
LEMMA SumOfNat ==
  ASSUME AdmissionAssumption, NEW f \in [Requests -> Nat], NEW S \in SUBSET Requests
  PROVE  IsFiniteSet(S) /\ SumFunctionOnSet(f, S) \in Nat
<1>1. IsFiniteSet(S)
  BY FS_Subset DEF AdmissionAssumption
<1>2. \A q \in S : f[q] \in Nat
  OBVIOUS
<1> QED
  BY <1>1, <1>2, SumNat

(* Each sum is a natural number.                                           *)
LEMMA SumTypes ==
  ASSUME AdmissionAssumption, rows \in [Requests -> Row], NEW S \in SUBSET Requests
  PROVE  /\ CostIn(S) \in Nat /\ EstIn(S) \in Nat /\ ShareIn(S) \in Nat /\ UsedIn(S) \in Nat
         /\ HeldIn(S) \in Nat /\ OverIn(S) \in Nat /\ ExcusedIn(S) \in Nat
<1>1. \A f \in [Requests -> Nat] : SumFunctionOnSet(f, S) \in Nat
  BY SumOfNat
<1> QED
  BY <1>1, TermFunctions DEF CostIn, EstIn, ShareIn, UsedIn, HeldIn, OverIn, ExcusedIn

(* When one term changes, a sum changes by as much, if it has the term.    *)
LEMMA SumStepsBy ==
  ASSUME AdmissionAssumption, NEW f \in [Requests -> Nat], NEW e \in [Requests -> Nat],
         NEW r \in Requests, \A q \in Requests \ {r} : e[q] = f[q], NEW S \in SUBSET Requests
  PROVE  SumFunctionOnSet(e, S) = SumFunctionOnSet(f, S) + (IF r \in S THEN e[r] - f[r] ELSE 0)
<1>1. IsFiniteSet(S) /\ SumFunctionOnSet(f, S) \in Nat /\ SumFunctionOnSet(e, S) \in Nat
  BY SumOfNat
<1>2. CASE r \in S
  <2>1. \A q \in S : f[q] \in Int /\ e[q] \in Int
    OBVIOUS
  <2>2. SumFunctionOnSet(e, S) = SumFunctionOnSet(f, S) - f[r] + e[r]
    BY <1>1, <1>2, <2>1, SumChange
  <2> QED
    BY <1>1, <1>2, <2>1, <2>2
<1>3. CASE r \notin S
  <2>1. \A q \in S : e[q] = f[q]
    BY <1>3
  <2>2. SumFunctionOnSet(e, S) = SumFunctionOnSet(f, S)
    BY <1>1, <2>1, SumCongruent
  <2> QED
    BY <1>1, <1>3, <2>2
<1> QED
  BY <1>2, <1>3

(* A step that changes the row of one request changes each sum by what     *)
(* that row adds to it.                                                    *)
LEMMA SumsMove ==
  ASSUME AdmissionAssumption, rows \in [Requests -> Row], rows' \in [Requests -> Row],
         NEW r \in Requests, \A q \in Requests \ {r} : rows'[q] = rows[q],
         \A q \in Requests \ {r} : q \in missed' <=> q \in missed, NEW S \in SUBSET Requests
  PROVE  /\ CostIn(S)' = CostIn(S) + (IF r \in S THEN CostOf(rows'[r]) - CostOf(rows[r]) ELSE 0)
         /\ EstIn(S)' = EstIn(S) + (IF r \in S THEN EstOf(rows'[r]) - EstOf(rows[r]) ELSE 0)
         /\ ShareIn(S)' = ShareIn(S) + (IF r \in S THEN ShareOf(rows'[r]) - ShareOf(rows[r]) ELSE 0)
         /\ UsedIn(S)' = UsedIn(S) + (IF r \in S THEN UsedOf(rows'[r]) - UsedOf(rows[r]) ELSE 0)
         /\ HeldIn(S)' = HeldIn(S) + (IF r \in S THEN HeldOf(rows'[r]) - HeldOf(rows[r]) ELSE 0)
         /\ OverIn(S)' = OverIn(S) + (IF r \in S THEN OverOf(rows'[r]) - OverOf(rows[r]) ELSE 0)
         /\ ExcusedIn(S)' =
              ExcusedIn(S) + (IF r \in S THEN ExcusedOf(rows'[r], r \in missed')
                                              - ExcusedOf(rows[r], r \in missed) ELSE 0)
<1> DEFINE By(f, e) ==
      SumFunctionOnSet(e, S) = SumFunctionOnSet(f, S) + (IF r \in S THEN e[r] - f[r] ELSE 0)
<1>1. \A f, e \in [Requests -> Nat] : (\A q \in Requests \ {r} : e[q] = f[q]) => By(f, e)
  BY SumStepsBy
<1>2. /\ Cost' \in [Requests -> Nat] /\ Est' \in [Requests -> Nat]
      /\ Share' \in [Requests -> Nat] /\ UsedUp' \in [Requests -> Nat]
      /\ Held' \in [Requests -> Nat] /\ Over' \in [Requests -> Nat]
      /\ Pardon' \in [Requests -> Nat]
  <2> SUFFICES ASSUME NEW q \in Requests
               PROVE  /\ CostOf(rows'[q]) \in Nat /\ EstOf(rows'[q]) \in Nat
                      /\ ShareOf(rows'[q]) \in Nat /\ UsedOf(rows'[q]) \in Nat
                      /\ HeldOf(rows'[q]) \in Nat /\ OverOf(rows'[q]) \in Nat
                      /\ ExcusedOf(rows'[q], q \in missed') \in Nat
    BY DEF Cost, Est, Share, UsedUp, Held, Over, Pardon
  <2>1. rows'[q] \in Row /\ (q \in missed') \in BOOLEAN
    OBVIOUS
  <2> QED
    BY <2>1, TermTypes
<1>3. \A q \in Requests \ {r} :
        /\ Cost'[q] = Cost[q] /\ Est'[q] = Est[q] /\ Share'[q] = Share[q]
        /\ UsedUp'[q] = UsedUp[q] /\ Held'[q] = Held[q] /\ Over'[q] = Over[q]
  BY DEF Cost, Est, Share, UsedUp, Held, Over
<1>4. ASSUME NEW q \in Requests \ {r} PROVE Pardon'[q] = Pardon[q]
  BY DEF Pardon, ExcusedOf
<1>5. /\ By(Cost, Cost') /\ By(Est, Est') /\ By(Share, Share') /\ By(UsedUp, UsedUp')
      /\ By(Held, Held') /\ By(Over, Over') /\ By(Pardon, Pardon')
  <2> HIDE DEF By
  <2> QED
    BY <1>1, <1>2, <1>3, <1>4, TermFunctions
<1>6. /\ Cost'[r] = CostOf(rows'[r]) /\ Cost[r] = CostOf(rows[r])
      /\ Est'[r] = EstOf(rows'[r]) /\ Est[r] = EstOf(rows[r])
      /\ Share'[r] = ShareOf(rows'[r]) /\ Share[r] = ShareOf(rows[r])
      /\ UsedUp'[r] = UsedOf(rows'[r]) /\ UsedUp[r] = UsedOf(rows[r])
      /\ Held'[r] = HeldOf(rows'[r]) /\ Held[r] = HeldOf(rows[r])
      /\ Over'[r] = OverOf(rows'[r]) /\ Over[r] = OverOf(rows[r])
      /\ Pardon'[r] = ExcusedOf(rows'[r], r \in missed')
      /\ Pardon[r] = ExcusedOf(rows[r], r \in missed)
  BY DEF Cost, Est, Share, UsedUp, Held, Over, Pardon
<1> QED
  BY <1>5, <1>6 DEF CostIn, EstIn, ShareIn, UsedIn, HeldIn, OverIn, ExcusedIn

(* A step that leaves the rows leaves the sums.                            *)
LEMMA SumsStay ==
  ASSUME rows' = rows, missed' = missed, NEW S
  PROVE  /\ CostIn(S)' = CostIn(S) /\ EstIn(S)' = EstIn(S) /\ ShareIn(S)' = ShareIn(S)
         /\ UsedIn(S)' = UsedIn(S) /\ HeldIn(S)' = HeldIn(S) /\ OverIn(S)' = OverIn(S)
         /\ ExcusedIn(S)' = ExcusedIn(S)
<1>1. /\ Cost' = Cost /\ Est' = Est /\ Share' = Share /\ UsedUp' = UsedUp
      /\ Held' = Held /\ Over' = Over /\ Pardon' = Pardon
  BY DEF Cost, Est, Share, UsedUp, Held, Over, Pardon
<1> QED
  BY <1>1 DEF CostIn, EstIn, ShareIn, UsedIn, HeldIn, OverIn, ExcusedIn

-----------------------------------------------------------------------------
(* Scopes and calls.                                                       *)

(* What a scope is: whose requests are added up, and to which limit.       *)
LEMMA Scopes ==
  ASSUME AdmissionAssumption, NEW r \in Requests
  PROVE  /\ Within(r, "user") = Of(User[r])
         /\ Within(r, "key") = {q \in Requests : Key[q] = Key[r]}
         /\ Within(r, "member") = {q \in Requests : User[q] = User[r] /\ Bound[q]}
         /\ Limit(r, "user") = UserLimit[User[r]] /\ Limit(r, "key") = KeyLimit[Key[r]]
         /\ Limit(r, "member") = MemberLimit[User[r]]
         /\ User[r] \in Users /\ Key[r] \in Keys
BY DEF AdmissionAssumption, Within, Limit, Of

(* The requests of a scope are of the same user, who has to wait for his   *)
(* turn; the others in it have the same scope and the same limit.          *)
LEMMA ScopeIsOfUser ==
  ASSUME AdmissionAssumption, NEW r \in Requests, NEW s \in {"user", "key", "member"}
  PROVE  /\ Within(r, s) \in SUBSET Of(User[r]) /\ Within(r, s) \in SUBSET Requests
         /\ Limit(r, s) # NoLimit => Limit(r, s) \in Nat
         /\ s \in Daily =>
              \A q \in Requests : q \in Within(r, s) =>
                Within(q, s) = Within(r, s) /\ Limit(q, s) = Limit(r, s)
<1>0. ASSUME NEW q \in Requests
      PROVE  /\ Within(q, "user") = Of(User[q])
             /\ Within(q, "key") = {p \in Requests : Key[p] = Key[q]}
             /\ Limit(q, "user") = UserLimit[User[q]] /\ Limit(q, "key") = KeyLimit[Key[q]]
             /\ User[q] \in Users /\ Key[q] \in Keys
  BY Scopes
<1>1. CASE s = "user"
  <2>1. Limit(r, "user") # NoLimit => Limit(r, "user") \in Nat
    BY <1>0 DEF AdmissionAssumption
  <2>2. \A q \in Of(User[r]) : User[q] = User[r] /\ q \in Requests
    BY DEF Of
  <2>3. \A q \in Of(User[r]) :
          Within(q, "user") = Within(r, "user") /\ Limit(q, "user") = Limit(r, "user")
    BY <1>0, <2>2
  <2> QED
    BY <1>0, <1>1, <2>1, <2>2, <2>3
<1>2. CASE s = "key"
  <2>1. Limit(r, "key") # NoLimit => Limit(r, "key") \in Nat
    BY <1>0 DEF AdmissionAssumption
  <2>2. \A q \in Within(r, "key") : q \in Requests /\ Key[q] = Key[r] /\ q \in Of(User[r])
    BY <1>0 DEF AdmissionAssumption, Of
  <2>3. ASSUME NEW q \in Within(r, "key")
        PROVE  Within(q, "key") = Within(r, "key") /\ Limit(q, "key") = Limit(r, "key")
    <3>1. q \in Requests /\ Key[q] = Key[r]
      BY <2>2
    <3>2. /\ Within(q, "key") = {p \in Requests : Key[p] = Key[r]}
          /\ Limit(q, "key") = KeyLimit[Key[r]]
      BY <1>0, <3>1
    <3> QED
      BY <1>0, <3>2
  <2>4. Of(User[r]) \in SUBSET Requests
    BY DEF Of
  <2> QED
    BY <1>2, <2>1, <2>2, <2>3, <2>4
<1>3. CASE s = "member"
  BY <1>3, Scopes DEF AdmissionAssumption, Of, Daily
<1> QED
  BY <1>1, <1>2, <1>3

(* What a call in progress knows, by its step.                             *)
LEMMA CallShape ==
  ASSUME NEW k \in Calls
  PROVE  /\ k.pc \in {"idle", "waiting", "entered"} \cup Past \cup Answered
         /\ k.pc # "idle" => k.req \in Requests /\ k.est \in Estimates
         /\ k.pc \in {"waiting", "entered"} \cup Answered =>
              k \in [pc : {"waiting", "entered"} \cup Answered, req : Requests, est : Estimates]
         /\ k.pc \in {"first", "second"} =>
              k \in [pc : {"first", "second"}, req : Requests, est : Estimates, room : Nat,
                     seen : Nat, scope : {"user", "key", "member"}]
         /\ k.pc \in {"snapshot", "wallet"} =>
              k \in [pc : {"snapshot", "wallet"}, req : Requests, est : Estimates, plan : Nat]
         /\ k.pc = "commit" =>
              k \in [pc : {"commit"}, req : Requests, est : Estimates, plan : Nat, payg : Nat]
BY DEF Calls, IdleCall, Answered, Past

(* A call that does not hold a lock and is not told anything has nothing   *)
(* to be kept true for it.                                                 *)
LEMMA FineOutside ==
  ASSUME NEW k, k.pc \in {"idle", "waiting", "entered", "refused"}
  PROVE  Fine(k)
BY DEF Fine, New, Fits, SeenEnough, DayRoom, Passed, ShareRoom, Told, Past

(* Steps of a call that change no row, no book and no lock of another.     *)
Quiet == UNCHANGED <<rows, sub, wallets, missed>>
LocksKept(c) ==
  /\ locks' \in [Users -> Callers \cup {Free}]
  /\ \A d \in Callers \ {c}, u \in Users : locks[u] = d => locks'[u] = d
Becomes(c, k) == calls' = [calls EXCEPT ![c] = k]
CallerStep(c) ==
  /\ Quiet /\ LocksKept(c)
  /\ \E k \in Calls : Becomes(c, k) /\ Locked(c, k)' /\ Fine(k)

(* As long as the rows stay, what is fine stays so.                        *)
LEMMA FineStays ==
  ASSUME rows' = rows, missed' = missed, NEW k
  PROVE  Fine(k)' <=> Fine(k)
<1>1. \A S : Weight(S)' = Weight(S) /\ TakenIn(S)' = TakenIn(S)
  BY SumsStay DEF Weight, TakenIn
<1>2. New(k)' <=> New(k)
  BY DEF New
<1>3. Fits(k)' <=> Fits(k)
  BY DEF Fits
<1>4. SeenEnough(k)' <=> SeenEnough(k)
  <2> DEFINE S == Within(k.req, k.scope)
  <2>1. ShareIn(S)' = ShareIn(S) /\ CostIn(S)' = CostIn(S) /\ ExcusedIn(S)' = ExcusedIn(S)
    BY SumsStay
  <2> QED
    BY <2>1 DEF SeenEnough
<1>5. DayRoom(k)' <=> DayRoom(k)
  BY <1>1 DEF DayRoom, HasRoom
<1>6. ShareRoom(k)' <=> ShareRoom(k)
  BY <1>1 DEF ShareRoom
<1>7. Told(k)' <=> Told(k)
  BY DEF Told
<1> QED
  BY <1>2, <1>3, <1>4, <1>5, <1>6, <1>7 DEF Fine

(* Such a step keeps the invariant.                                        *)
LEMMA CallerStepKeeps ==
  ASSUME AdmissionAssumption, Inv, NEW c \in Callers, CallerStep(c)
  PROVE  Inv'
<1>1. PICK k \in Calls : Becomes(c, k) /\ Locked(c, k)' /\ Fine(k)
  BY DEF CallerStep
<1>2. rows' = rows /\ sub' = sub /\ wallets' = wallets /\ missed' = missed
  BY DEF CallerStep, Quiet
<1>3. TypeOK'
  BY <1>1, <1>2 DEF Inv, TypeOK, CallerStep, LocksKept, Becomes
<1>4. Books'
  <2>1. \A S : Weight(S)' = Weight(S) /\ TakenIn(S)' = TakenIn(S)
    BY <1>2, SumsStay DEF Weight, TakenIn
  <2>2. RowsFit' /\ MemberInv' /\ DailyInv'
    BY <1>2, <2>1 DEF Inv, Books, RowsFit, MemberInv, DailyInv
  <2>3. QuotaInv'
    BY <1>2, SumsStay DEF Inv, Books, QuotaInv
  <2>4. WalletInv'
    BY <1>2, SumsStay DEF Inv, Books, WalletInv, Available
  <2> QED
    BY <2>2, <2>3, <2>4 DEF Books
<1>5. CallsInv'
  <2> SUFFICES ASSUME NEW d \in Callers PROVE Locked(d, calls[d])' /\ Fine(calls[d])'
    BY DEF CallsInv
  <2>1. CASE d = c
    <3>1. calls'[d] = k
      BY <1>1, <2>1 DEF Becomes, Inv, TypeOK
    <3>2. Fine(k)'
      BY <1>1, <1>2, FineStays
    <3> QED
      BY <1>1, <2>1, <3>1, <3>2 DEF Locked
  <2>2. CASE d # c
    <3>1. calls'[d] = calls[d] /\ calls[d] \in Calls
      BY <1>1, <2>2 DEF Becomes, Inv, TypeOK
    <3>2. PICK j : j = calls[d]
      OBVIOUS
    <3>3. Locked(d, j) /\ Fine(j) /\ j \in Calls
      BY <3>1, <3>2 DEF Inv, CallsInv
    <3>4. Fine(j)'
      BY <1>2, <3>3, FineStays
    <3>5. Locked(d, j)'
      <4> SUFFICES ASSUME j.pc \in Inside PROVE locks'[User[j.req]] = d
        BY DEF Locked
      <4>1. j.req \in Requests
        BY <3>3, CallShape DEF Inside, Past
      <4>2. locks[User[j.req]] = d /\ User[j.req] \in Users
        BY <3>3, <4>1, Scopes DEF Locked
      <4> QED
        BY <2>2, <4>2 DEF CallerStep, LocksKept
    <3> QED
      BY <3>1, <3>2, <3>4, <3>5
  <2> QED
    BY <2>1, <2>2
<1> QED
  BY <1>3, <1>4, <1>5 DEF Inv

-----------------------------------------------------------------------------
(* The two reads.                                                          *)

(* What the statements add up are the sums of the terms.                   *)
LEMMA ReadsAreSums ==
  ASSUME AdmissionAssumption, rows \in [Requests -> Row], NEW S \in SUBSET Requests
  PROVE  Spent(S) = CostIn(S) /\ Exposure(S) = EstIn(S)
<1>0. IsFiniteSet(S)
  BY FS_Subset DEF AdmissionAssumption
<1>1. Spent(S) = CostIn(S)
  <2> DEFINE f == [q \in Requests |-> rows[q].cost]
             T == {q \in S : Settled(q)}
  <2>1. T \in SUBSET S /\ \A q \in T : f[q] \in Int
    BY DEF Row
  <2>2. \A q \in S : Cost[q] = IF q \in T THEN f[q] ELSE 0
    BY DEF Cost, CostOf, Settled
  <2>3. SumFunctionOnSet(f, T) = SumFunctionOnSet(Cost, S)
    <3> HIDE DEF f, T
    <3> QED
      BY <1>0, <2>1, <2>2, SumWhere
  <2> QED
    BY <2>3 DEF Spent, CostIn
<1>2. Exposure(S) = EstIn(S)
  <2> DEFINE f == [q \in Requests |-> rows[q].est]
             T == {q \in S : Open(q)}
  <2>1. T \in SUBSET S /\ \A q \in T : f[q] \in Int
    BY DEF Row
  <2>2. \A q \in S : Est[q] = IF q \in T THEN f[q] ELSE 0
    BY DEF Est, EstOf, Open
  <2>3. SumFunctionOnSet(f, T) = SumFunctionOnSet(Est, S)
    <3> HIDE DEF f, T
    <3> QED
      BY <1>0, <2>1, <2>2, SumWhere
  <2> QED
    BY <2>3 DEF Exposure, EstIn
<1> QED
  BY <1>1, <1>2

(* A request that is not open does not count for the exposure.             *)
LEMMA WithoutSelf ==
  ASSUME AdmissionAssumption, rows \in [Requests -> Row], NEW S \in SUBSET Requests,
         NEW r \in Requests, rows[r].status = "none"
  PROVE  EstIn(S \ {r}) = EstIn(S)
<1>0. CASE r \in S
  <2>1. IsFiniteSet(S) /\ Est \in [Requests -> Nat] /\ Est[r] = 0
    BY TermFunctions, FS_Subset DEF AdmissionAssumption, Est, EstOf
  <2>2. \A q \in S : Est[q] \in Int
    BY <2>1
  <2>3. SumFunctionOnSet(Est, S) = Est[r] + SumFunctionOnSet(Est, S \ {r})
    BY <1>0, <2>1, <2>2, SumSplit
  <2>4. EstIn(S \ {r}) \in Nat
    BY SumTypes
  <2> QED
    BY <2>1, <2>3, <2>4 DEF EstIn
<1>1. CASE r \notin S
  <2>1. S \ {r} = S
    BY <1>1
  <2> QED
    BY <2>1
<1> QED
  BY <1>0, <1>1

(* What each of the two reads returns.                                     *)
LEMMA ReadOnceIs ==
  ASSUME AdmissionAssumption, rows \in [Requests -> Row], NEW c,
         calls[c].req \in Requests, calls[c].scope \in {"user", "key", "member"},
         rows[calls[c].req].status = "none"
  PROVE  /\ ReadOnce(c, TRUE) = CostIn(Within(calls[c].req, calls[c].scope))
         /\ ReadOnce(c, FALSE) = EstIn(Within(calls[c].req, calls[c].scope))
<1>1. PICK r, S : r = calls[c].req /\ S = Within(calls[c].req, calls[c].scope)
  OBVIOUS
<1>2. r \in Requests /\ S \in SUBSET Requests /\ rows[r].status = "none"
  BY <1>1, ScopeIsOfUser
<1>3. Spent(S) = CostIn(S) /\ Exposure(S \ {r}) = EstIn(S \ {r})
  BY <1>2, ReadsAreSums
<1>4. EstIn(S \ {r}) = EstIn(S)
  BY <1>2, WithoutSelf
<1> QED
  BY <1>1, <1>3, <1>4 DEF ReadOnce

(* A term that is nowhere larger adds up to no more.                       *)
LEMMA SumsCompare ==
  ASSUME AdmissionAssumption, rows \in [Requests -> Row], RowsFit, NEW S \in SUBSET Requests
  PROVE  /\ ExcusedIn(S) <= CostIn(S) /\ UsedIn(S) <= CostIn(S) /\ ShareIn(S) <= EstIn(S)
<1>1. IsFiniteSet(S)
  BY FS_Subset DEF AdmissionAssumption
<1>2. ASSUME NEW f \in [Requests -> Nat], NEW e \in [Requests -> Nat],
             \A q \in Requests : f[q] <= e[q]
      PROVE  SumFunctionOnSet(f, S) <= SumFunctionOnSet(e, S)
  <2>1. \A q \in S : f[q] \in Int /\ e[q] \in Int /\ f[q] <= e[q]
    BY <1>2
  <2> QED
    BY <1>1, <2>1, SumMonotone
<1>3. ASSUME NEW q \in Requests
      PROVE  /\ Pardon[q] <= Cost[q] /\ UsedUp[q] <= Cost[q] /\ Share[q] <= Est[q]
  <2>1. rows[q] \in Row /\ (q \in missed) \in BOOLEAN /\ rows[q].plan <= rows[q].est
    BY DEF RowsFit
  <2>2. ExcusedOf(rows[q], q \in missed) <= CostOf(rows[q]) /\ UsedOf(rows[q]) <= CostOf(rows[q])
    BY <2>1, TermTypes
  <2>3. ShareOf(rows[q]) <= EstOf(rows[q])
    BY <2>1 DEF ShareOf, EstOf
  <2> QED
    BY <2>2, <2>3 DEF Pardon, Cost, UsedUp, Share, Est
<1> QED
  BY <1>2, <1>3, TermFunctions DEF ExcusedIn, CostIn, UsedIn, ShareIn, EstIn

(* Only the bound keys of a member draw on the subscription.               *)
LEMMA MembersDraw ==
  ASSUME AdmissionAssumption, rows \in [Requests -> Row], RowsFit, NEW r \in Requests
  PROVE  TakenIn(Of(User[r])) = TakenIn(Within(r, "member"))
<1> DEFINE S == Of(User[r])
           T == Within(r, "member")
<1>1. /\ IsFiniteSet(S) /\ IsFiniteSet(S \ T) /\ T \in SUBSET S /\ T \in SUBSET Requests
      /\ S \ T \in SUBSET Requests /\ S \in SUBSET Requests
  BY FS_Subset, ScopeIsOfUser DEF AdmissionAssumption, Of
<1>2. \A q \in S \ T : q \in Requests /\ ~Bound[q]
  BY Scopes DEF Of
<1>3. \A q \in S \ T : Share[q] = 0 /\ UsedUp[q] = 0
  <2> SUFFICES ASSUME NEW q \in S \ T PROVE Share[q] = 0 /\ UsedUp[q] = 0
    OBVIOUS
  <2>1. q \in Requests /\ rows[q] \in Row /\ rows[q].plan = 0
    BY <1>2 DEF RowsFit, Row, AdmissionAssumption
  <2> QED
    BY <2>1 DEF Share, UsedUp, ShareOf, UsedOf, Least, Row
<1> HIDE DEF S, T
<1>4. SumFunctionOnSet(Share, S \ T) = 0 /\ SumFunctionOnSet(UsedUp, S \ T) = 0
  BY <1>1, <1>3, SumZero
<1>5. \A f \in [Requests -> Nat] :
        SumFunctionOnSet(f, S) = SumFunctionOnSet(f, T) + SumFunctionOnSet(f, S \ T)
  <2> SUFFICES ASSUME NEW f \in [Requests -> Nat]
               PROVE SumFunctionOnSet(f, S) = SumFunctionOnSet(f, T) + SumFunctionOnSet(f, S \ T)
    OBVIOUS
  <2>1. \A q \in S : f[q] \in Int
    BY <1>1
  <2> QED
    BY <1>1, <2>1, SumParts
<1>6. ShareIn(S) = ShareIn(T) /\ UsedIn(S) = UsedIn(T)
  <2>1. ShareIn(T) \in Nat /\ UsedIn(T) \in Nat
    BY <1>1, SumTypes
  <2> QED
    BY <1>4, <1>5, <2>1, TermFunctions DEF ShareIn, UsedIn
<1> QED
  BY <1>6 DEF TakenIn, S, T

-----------------------------------------------------------------------------
(* The steps of a call.                                                    *)

(* The invariant of the call that moves, for its record.                   *)
LEMMA OfCall ==
  ASSUME AdmissionAssumption, Inv, NEW c \in Callers
  PROVE  /\ calls[c] \in Calls /\ Locked(c, calls[c]) /\ Fine(calls[c])
         /\ rows \in [Requests -> Row] /\ Books
         /\ locks \in [Users -> Callers \cup {Free}]
         /\ calls[c].pc # "idle" =>
              calls[c].req \in Requests /\ calls[c].est \in Estimates /\ calls[c].est \in Nat
<1>1. calls[c] \in Calls
  BY DEF Inv, TypeOK
<1>2. calls[c].pc # "idle" => calls[c].req \in Requests /\ calls[c].est \in Estimates
  BY <1>1, CallShape
<1> QED
  BY <1>1, <1>2 DEF Inv, CallsInv, TypeOK, AdmissionAssumption

(* The locks of others are kept when a call gives up its own.              *)
LEMMA GivesUp ==
  ASSUME AdmissionAssumption, Inv, NEW c \in Callers,
         locks' = [u \in Users |-> IF locks[u] = c THEN Free ELSE locks[u]]
  PROVE  LocksKept(c)
BY DEF LocksKept, Inv, TypeOK

(* A step that touches no lock keeps the locks of the others.              *)
LEMMA HoldsOn ==
  ASSUME AdmissionAssumption, Inv, NEW c, locks' = locks
  PROVE  LocksKept(c)
BY DEF LocksKept, Inv, TypeOK

(* A call that leaves with an answer.                                      *)
LEMMA LeaveSteps ==
  ASSUME AdmissionAssumption, Inv, NEW c \in Callers, calls[c].pc # "idle", Quiet,
         NEW answer \in {"replayed", "refused"}, Leave(c, answer),
         answer = "replayed" =>
           rows[calls[c].req].status # "none" /\ rows[calls[c].req].est = calls[c].est
  PROVE  CallerStep(c)
<1>0. PICK k : k = [pc |-> answer, req |-> calls[c].req, est |-> calls[c].est]
  OBVIOUS
<1>1. k \in Calls
  BY <1>0, OfCall DEF Calls, Answered
<1>2. Becomes(c, k)
  BY <1>0 DEF Leave, Becomes, Inv, TypeOK
<1>3. LocksKept(c)
  BY GivesUp DEF Leave
<1>4. Locked(c, k)'
  BY <1>0 DEF Locked, Inside, Past
<1>5. Fine(k)
  <2>1. CASE answer = "refused"
    BY <1>0, <2>1, FineOutside
  <2>2. CASE answer = "replayed"
    BY <1>0, <2>2 DEF Fine, New, Fits, SeenEnough, DayRoom, Passed, ShareRoom, Told, Past
  <2> QED
    BY <2>1, <2>2
<1> QED
  BY <1>1, <1>2, <1>3, <1>4, <1>5 DEF CallerStep

(* A call that goes on inside its transaction.                             *)
LEMMA GoesOn ==
  ASSUME AdmissionAssumption, Inv, NEW c \in Callers, calls[c].pc \in Inside, Quiet,
         UNCHANGED locks, NEW k \in Calls, k.req = calls[c].req, Becomes(c, k), Fine(k)
  PROVE  CallerStep(c)
<1>1. Locked(c, k)'
  BY OfCall DEF Locked
<1>2. LocksKept(c)
  BY HoldsOn
<1> QED
  BY <1>1, <1>2 DEF CallerStep

(* A request that calls waits for the lock, or is answered at once: only   *)
(* its own call changes.                                                   *)
LEMMA CallIsStep ==
  ASSUME AdmissionAssumption, Inv, NEW c \in Callers, NEW r \in Requests, NEW est \in Estimates,
         Call(c, r, est)
  PROVE  CallerStep(c)
<1>0. PICK k : k = [pc |-> IF rows[r].status = "none" THEN "waiting"
                          ELSE IF ReplayOf(r, est) THEN "replayed" ELSE "refused",
                    req |-> r, est |-> est]
  OBVIOUS
<1>1. k \in Calls /\ Becomes(c, k)
  BY <1>0 DEF Calls, Answered, Call, Becomes
<1>2. Quiet /\ LocksKept(c)
  BY HoldsOn DEF Call, Quiet
<1>3. Locked(c, k)'
  BY <1>0 DEF Locked, Inside, Past
<1>4. Fine(k)
  BY <1>0 DEF Fine, New, Fits, SeenEnough, DayRoom, Passed, ShareRoom, Told, Past, ReplayOf
<1> QED
  BY <1>1, <1>2, <1>3, <1>4 DEF CallerStep

(* Taking the lock of its user, a call is the only one inside.             *)
LEMMA EnterIsStep ==
  ASSUME AdmissionAssumption, Inv, NEW c \in Callers, Enter(c)
  PROVE  CallerStep(c)
<1>0. PICK k : k = [calls[c] EXCEPT !.pc = "entered"]
  OBVIOUS
<1>1. /\ calls[c] \in [pc : {"waiting", "entered"} \cup Answered, req : Requests, est : Estimates]
      /\ calls[c].req \in Requests
  BY OfCall, CallShape DEF Enter
<1>2. k \in Calls /\ Becomes(c, k) /\ k.pc = "entered" /\ k.req = calls[c].req
  BY <1>0, <1>1 DEF Calls, Enter, Becomes
<1>3. User[calls[c].req] \in Users
  BY <1>1, Scopes
<1>4. locks' = [locks EXCEPT ![User[calls[c].req]] = c] /\ locks[User[calls[c].req]] = Free
  BY DEF Enter
<1>5. LocksKept(c)
  BY <1>3, <1>4, OfCall DEF LocksKept, AdmissionAssumption
<1>6. Locked(c, k)'
  BY <1>2, <1>3, <1>4, OfCall DEF Locked
<1>7. Fine(k)
  BY <1>2, FineOutside
<1> QED
  BY <1>2, <1>5, <1>6, <1>7 DEF CallerStep, Enter, Quiet

(* A caller that hangs up gives up what it held and counts on nothing.     *)
LEMMA HangUpIsStep ==
  ASSUME AdmissionAssumption, Inv, NEW c \in Callers, HangUp(c)
  PROVE  CallerStep(c)
<1>1. IdleCall \in Calls /\ Becomes(c, IdleCall)
  BY DEF Calls, HangUp, Becomes
<1>2. LocksKept(c) /\ Quiet
  BY GivesUp DEF HangUp, Quiet
<1>3. Locked(c, IdleCall)' /\ Fine(IdleCall)
  BY FineOutside DEF Locked, IdleCall, Inside, Past
<1> QED
  BY <1>1, <1>2, <1>3 DEF CallerStep

(* The next check, when the limits that are not checked any more have room.*)
LEMMA CheckFromSteps ==
  ASSUME AdmissionAssumption, Inv, NEW c \in Callers, calls[c].pc \in Inside, Quiet,
         NEW scopes \in {{"user", "key"}, {"key"}, {}}, CheckFrom(c, scopes),
         rows[calls[c].req].status = "none",
         \A s \in Daily \ scopes : HasRoom(calls[c].req, calls[c].est, s)
  PROVE  CallerStep(c)
<1> DEFINE r == calls[c].req
           est == calls[c].est
           limited == {s \in scopes : Limit(r, s) # NoLimit}
<1>1. r \in Requests /\ est \in Estimates /\ est \in Nat /\ calls[c].pc # "idle"
  BY OfCall DEF Inside, Past
<1>2. UNCHANGED locks
  BY DEF CheckFrom
<1>3. \A s \in Daily \ limited : HasRoom(r, est, s)
  BY DEF HasRoom
<1>4. MemberInv /\ User[r] \in Users
  BY <1>1, Scopes DEF Inv, Books
<1>5. TakenIn(Of(User[r])) \in Nat
  <2>1. Of(User[r]) \in SUBSET Requests
    BY DEF Of
  <2> QED
    BY <2>1, OfCall, SumTypes DEF TakenIn
<1>6. CASE limited # {}
  <2> DEFINE k == [pc |-> "first", req |-> r, est |-> est, room |-> 0, seen |-> 0,
                   scope |-> IF "user" \in limited THEN "user" ELSE "key"]
  <2>1. k \in Calls /\ Becomes(c, k)
    BY <1>1, <1>6 DEF Calls, CheckFrom, Becomes, Inv, TypeOK
  <2>2. k.scope \in limited
    BY <1>6
  <2>3. New(k) /\ Fits(k) /\ SeenEnough(k) /\ ShareRoom(k) /\ Told(k)
    BY <2>2 DEF New, Fits, SeenEnough, ShareRoom, Told
  <2>4. DayRoom(k)
    <3>1. CASE "user" \in limited
      BY <3>1 DEF DayRoom, Passed
    <3>2. CASE "user" \notin limited
      <4>1. Passed(k) = {"user"}
        BY <3>2 DEF Passed
      <4>2. HasRoom(r, est, "user")
        BY <1>3, <3>2 DEF Daily
      <4> QED
        BY <4>1, <4>2 DEF DayRoom
    <3> QED
      BY <3>1, <3>2
  <2>5. k.req = calls[c].req /\ Fine(k)
    BY <2>3, <2>4 DEF Fine
  <2> HIDE DEF k
  <2> QED
    BY <1>2, <2>1, <2>5, GoesOn
<1>7. CASE limited = {} /\ FundingTarget(r, est) = 0
  <2> DEFINE k == [pc |-> "commit", req |-> r, est |-> est, plan |-> 0, payg |-> 0]
  <2>1. k \in Calls /\ Becomes(c, k)
    BY <1>1, <1>7 DEF Calls, CheckFrom, Becomes, Inv, TypeOK
  <2>2. New(k) /\ Fits(k) /\ SeenEnough(k) /\ Told(k)
    BY <1>1 DEF New, Fits, SeenEnough, Told
  <2>3. DayRoom(k)
    BY <1>3, <1>7 DEF DayRoom, Passed
  <2>4. ShareRoom(k)
    BY <1>4, <1>5 DEF ShareRoom, MemberInv, AdmissionAssumption
  <2>5. k.req = calls[c].req /\ Fine(k)
    BY <2>2, <2>3, <2>4 DEF Fine
  <2> HIDE DEF k
  <2> QED
    BY <1>2, <2>1, <2>5, GoesOn
<1>8. CASE limited = {} /\ FundingTarget(r, est) # 0
  <2> DEFINE k == [pc |-> IF Bound[r] THEN "snapshot" ELSE "wallet",
                   req |-> r, est |-> est, plan |-> 0]
  <2>1. k \in Calls /\ Becomes(c, k)
    BY <1>1, <1>8 DEF Calls, CheckFrom, Becomes, Inv, TypeOK
  <2>2. New(k) /\ Fits(k) /\ SeenEnough(k) /\ Told(k)
    BY <1>1 DEF New, Fits, SeenEnough, Told, AdmissionAssumption
  <2>3. DayRoom(k)
    BY <1>3, <1>8 DEF DayRoom, Passed
  <2>4. ShareRoom(k)
    BY <1>4, <1>5 DEF ShareRoom, MemberInv, AdmissionAssumption
  <2>5. k.req = calls[c].req /\ Fine(k)
    BY <2>2, <2>3, <2>4 DEF Fine
  <2> HIDE DEF k
  <2> QED
    BY <1>2, <2>1, <2>5, GoesOn
<1> QED
  BY <1>6, <1>7, <1>8

(* Inside the lock the row is read again: the call goes on with the limits *)
(* only if nobody has opened it since.                                     *)
LEMMA RereadIsStep ==
  ASSUME AdmissionAssumption, Inv, NEW c \in Callers, Reread(c)
  PROVE  CallerStep(c)
<1>1. Quiet /\ calls[c].pc = "entered" /\ calls[c].pc \in Inside
  BY DEF Reread, Quiet, Inside
<1>2. CASE rows[calls[c].req].status = "none"
  <2>1. CheckFrom(c, {"user", "key"})
    BY <1>2 DEF Reread
  <2>2. Daily \ {"user", "key"} = {}
    BY DEF Daily
  <2> QED
    BY <1>1, <1>2, <2>1, <2>2, CheckFromSteps
<1>3. CASE rows[calls[c].req].status # "none"
  <2> DEFINE answer == IF ReplayOf(calls[c].req, calls[c].est) THEN "replayed" ELSE "refused"
  <2>1. Leave(c, answer)
    BY <1>3 DEF Reread
  <2>2. answer = "replayed" =>
          rows[calls[c].req].status # "none" /\ rows[calls[c].req].est = calls[c].est
    BY DEF ReplayOf
  <2>3. answer \in {"replayed", "refused"}
    OBVIOUS
  <2> HIDE DEF answer
  <2> QED
    BY <1>1, <2>1, <2>2, <2>3, LeaveSteps
<1> QED
  BY <1>2, <1>3

(* What the first read of a check saw is no less than what is still to be  *)
(* counted of it.                                                          *)
LEMMA ReadFirstIsStep ==
  ASSUME AdmissionAssumption, Inv, NEW c \in Callers, ReadFirst(c)
  PROVE  CallerStep(c)
<1> DEFINE r == calls[c].req
           scope == calls[c].scope
           W == Within(r, scope)
<1>1. PICK seen : seen = ReadOnce(c, ReadsSpentFirst(scope))
  OBVIOUS
<1>2. PICK k : k = [calls[c] EXCEPT !.pc = "second", !.seen = seen]
  OBVIOUS
<1>3. /\ calls[c].pc = "first" /\ calls[c].pc # "idle" /\ calls[c].pc \in Inside
      /\ UNCHANGED locks /\ Quiet
  BY DEF ReadFirst, Inside, Past, Quiet
<1>4. /\ calls[c] \in [pc : {"first", "second"}, req : Requests, est : Estimates, room : Nat,
                       seen : Nat, scope : {"user", "key", "member"}]
      /\ Fine(calls[c]) /\ rows \in [Requests -> Row] /\ RowsFit
  BY <1>3, OfCall, CallShape DEF Books
<1>5. r \in Requests /\ scope \in {"user", "key", "member"} /\ rows[r].status = "none"
  BY <1>3, <1>4 DEF Fine, New, Past
<1>6. W \in SUBSET Requests
  BY <1>5, ScopeIsOfUser
<1>7. /\ CostIn(W) \in Nat /\ EstIn(W) \in Nat /\ ShareIn(W) \in Nat /\ ExcusedIn(W) \in Nat
      /\ ShareIn(W) <= EstIn(W)
  BY <1>4, <1>6, SumTypes, SumsCompare
<1>8. seen = IF scope = "member" THEN EstIn(W) ELSE CostIn(W)
  BY <1>1, <1>4, <1>5, ReadOnceIs DEF ReadsSpentFirst
<1>9. seen \in Nat
  BY <1>7, <1>8
<1>10. k \in Calls /\ Becomes(c, k)
  BY <1>1, <1>2, <1>4, <1>9 DEF Calls, ReadFirst, Becomes
<1>11. k.pc = "second" /\ k.req = r /\ k.est = calls[c].est /\ k.scope = scope /\ k.seen = seen
  BY <1>2, <1>4
<1>12. SeenEnough(k)
  BY <1>7, <1>8, <1>11 DEF SeenEnough
<1>13. New(k) /\ Fits(k) /\ ShareRoom(k) /\ Told(k)
  BY <1>3, <1>4, <1>5, <1>11 DEF Fine, New, Fits, ShareRoom, Told
<1>14. DayRoom(k)
  <2>1. Passed(k) = Passed(calls[c])
    BY <1>3, <1>11 DEF Passed
  <2> QED
    BY <1>4, <1>11, <2>1 DEF Fine, DayRoom
<1> QED
  BY <1>3, <1>10, <1>11, <1>12, <1>13, <1>14, GoesOn DEF Fine

(* What a call in its second read knows: the total of both reads is no     *)
(* less than what counts against the limit.                                *)
LEMMA TotalIsEnough ==
  ASSUME AdmissionAssumption, Inv, NEW c \in Callers, calls[c].pc = "second"
  PROVE  /\ Total(c) \in Nat
         /\ calls[c].scope \in Daily => Weight(Within(calls[c].req, calls[c].scope)) <= Total(c)
         /\ calls[c].scope = "member" => TakenIn(Of(User[calls[c].req])) <= Total(c)
<1> DEFINE r == calls[c].req
           scope == calls[c].scope
           W == Within(r, scope)
<1>1. /\ calls[c] \in [pc : {"first", "second"}, req : Requests, est : Estimates, room : Nat,
                       seen : Nat, scope : {"user", "key", "member"}]
      /\ Fine(calls[c]) /\ rows \in [Requests -> Row] /\ RowsFit
  BY OfCall, CallShape DEF Books
<1>2. r \in Requests /\ scope \in {"user", "key", "member"} /\ rows[r].status = "none"
  BY <1>1 DEF Fine, New, Past
<1>3. W \in SUBSET Requests
  BY <1>2, ScopeIsOfUser
<1>4. /\ CostIn(W) \in Nat /\ EstIn(W) \in Nat /\ ShareIn(W) \in Nat /\ ExcusedIn(W) \in Nat
      /\ UsedIn(W) \in Nat /\ UsedIn(W) <= CostIn(W)
  BY <1>1, <1>3, SumTypes, SumsCompare
<1>5. Total(c) = calls[c].seen + (IF scope = "member" THEN CostIn(W) ELSE EstIn(W))
  BY <1>1, <1>2, ReadOnceIs DEF Total, ReadsSpentFirst
<1>6. calls[c].seen \in Nat
  BY <1>1
<1>7. IF scope = "member" THEN ShareIn(W) <= calls[c].seen
      ELSE CostIn(W) - ExcusedIn(W) <= calls[c].seen
  BY <1>1 DEF Fine, SeenEnough
<1>8. scope \in Daily => Weight(W) <= Total(c)
  BY <1>4, <1>5, <1>6, <1>7 DEF Weight, Daily
<1>9. scope = "member" => TakenIn(Of(User[r])) <= Total(c)
  <2>1. scope = "member" => TakenIn(Of(User[r])) = TakenIn(W)
    BY <1>1, <1>2, MembersDraw
  <2> QED
    BY <1>4, <1>5, <1>6, <1>7, <2>1 DEF TakenIn
<1> QED
  BY <1>4, <1>5, <1>6, <1>8, <1>9

(* A call that passes a daily limit has room in it for its estimate.       *)
LEMMA CheckLimitIsStep ==
  ASSUME AdmissionAssumption, Inv, NEW c \in Callers, CheckLimit(c)
  PROVE  CallerStep(c)
<1> DEFINE r == calls[c].req
           scope == calls[c].scope
           est == calls[c].est
<1>1. /\ calls[c].pc = "second" /\ calls[c].pc # "idle" /\ calls[c].pc \in Inside
      /\ calls[c].pc \in Past /\ Quiet /\ scope \in Daily
  BY DEF CheckLimit, Inside, Past, Quiet, Daily
<1>2. /\ Fine(calls[c]) /\ r \in Requests /\ est \in Nat
      /\ rows[r].status = "none"
  BY <1>1, OfCall DEF Fine, New
<1>3. CASE Total(c) + est > Limit(r, scope)
  BY <1>1, <1>3, LeaveSteps DEF CheckLimit
<1>4. CASE ~(Total(c) + est > Limit(r, scope))
  <2> DEFINE scopes == IF scope = "user" THEN {"key"} ELSE {}
  <2>1. CheckFrom(c, scopes)
    BY <1>4 DEF CheckLimit
  <2>2. Limit(r, scope) # NoLimit
    BY <1>1, <1>2 DEF Fine, Fits
  <2>3. Limit(r, scope) \in Nat /\ Within(r, scope) \in SUBSET Requests
    BY <1>1, <1>2, <2>2, ScopeIsOfUser DEF Daily
  <2>4. Weight(Within(r, scope)) <= Total(c) /\ Total(c) \in Nat
    BY <1>1, TotalIsEnough
  <2>5. Weight(Within(r, scope)) \in Int
    BY <2>3, OfCall, SumTypes DEF Weight
  <2>6. HasRoom(r, est, scope)
    BY <1>2, <1>4, <2>3, <2>4, <2>5 DEF HasRoom
  <2>7. scope = "key" => HasRoom(r, est, "user")
    BY <1>1, <1>2 DEF Fine, DayRoom, Passed
  <2>8. \A s \in Daily \ scopes : HasRoom(r, est, s)
    BY <1>1, <2>6, <2>7 DEF Daily
  <2>9. scopes \in {{"user", "key"}, {"key"}, {}}
    OBVIOUS
  <2> HIDE DEF scopes
  <2> QED
    BY <1>1, <1>2, <2>1, <2>8, <2>9, CheckFromSteps
<1> QED
  BY <1>3, <1>4

(* The subscription's part is planned within what it has available.        *)
LEMMA PlanShareSteps ==
  ASSUME AdmissionAssumption, Inv, NEW c \in Callers, calls[c].pc \in Past, Quiet,
         NEW available \in Nat, PlanShare(c, available), Bound[calls[c].req],
         \A s \in Daily : HasRoom(calls[c].req, calls[c].est, s),
         MemberLimit[User[calls[c].req]] # NoLimit =>
           \A p \in Nat : p <= available =>
             TakenIn(Of(User[calls[c].req])) + p <= MemberLimit[User[calls[c].req]]
  PROVE  CallerStep(c)
<1> DEFINE r == calls[c].req
           est == calls[c].est
<1>1. PICK plan : plan = Least(available, est)
  OBVIOUS
<1>2. /\ calls[c].pc # "idle" /\ calls[c].pc \in Inside /\ Fine(calls[c])
      /\ r \in Requests /\ est \in Estimates /\ est \in Nat /\ rows[r].status = "none"
  BY OfCall DEF Inside, Past, Fine, New
<1>3. plan \in Nat /\ plan <= est /\ plan <= available
  BY <1>1, <1>2 DEF Least
<1>4. CASE plan < est /\ ~Fallback[r]
  BY <1>1, <1>2, <1>4, LeaveSteps DEF PlanShare
<1>5. CASE ~(plan < est /\ ~Fallback[r])
  <2>1. PICK k : k = IF plan = est
                       THEN [pc |-> "commit", req |-> r, est |-> est, plan |-> plan, payg |-> 0]
                       ELSE [pc |-> "wallet", req |-> r, est |-> est, plan |-> plan]
    OBVIOUS
  <2>2. UNCHANGED locks /\ Becomes(c, k)
    BY <1>1, <1>5, <2>1 DEF PlanShare, Becomes
  <2>3. k \in Calls
    BY <1>2, <1>3, <2>1 DEF Calls
  <2>4. k.pc \in {"wallet", "commit"} /\ k.req = r /\ k.est = est /\ k.plan = plan
    BY <2>1
  <2>5. New(k) /\ Fits(k) /\ SeenEnough(k) /\ Told(k)
    BY <1>2, <1>3, <2>4 DEF New, Fits, SeenEnough, Told
  <2>6. DayRoom(k)
    BY <2>4 DEF DayRoom, Passed
  <2>7. ShareRoom(k)
    BY <1>3, <2>4 DEF ShareRoom
  <2> QED
    BY <1>2, <2>2, <2>3, <2>4, <2>5, <2>6, <2>7, GoesOn DEF Fine
<1> QED
  BY <1>4, <1>5

(* What the subscription has left is a number.                             *)
LEMMA RoomIsNat ==
  ASSUME AdmissionAssumption, Inv
  PROVE  Room \in Nat
BY DEF AdmissionAssumption, Inv, TypeOK, Room, AtLeastZero

(* What a call plans to take from the subscription is within its estimate, *)
(* and with no share to check it goes on to the wallet.                    *)
LEMMA SnapshotIsStep ==
  ASSUME AdmissionAssumption, Inv, NEW c \in Callers, Snapshot(c)
  PROVE  CallerStep(c)
<1> DEFINE r == calls[c].req
           est == calls[c].est
<1>1. /\ calls[c].pc = "snapshot" /\ calls[c].pc # "idle" /\ calls[c].pc \in Inside
      /\ calls[c].pc \in Past /\ Quiet
  BY DEF Snapshot, Inside, Past, Quiet
<1>2. /\ Fine(calls[c]) /\ r \in Requests /\ est \in Estimates /\ Bound[r]
      /\ rows[r].status = "none" /\ \A s \in Daily : HasRoom(r, est, s)
  BY <1>1, OfCall DEF Fine, New, Fits, DayRoom, Passed
<1>3. Limit(r, "member") = MemberLimit[User[r]]
  BY <1>2, Scopes
<1>4. CASE ~sub.active
  BY <1>1, <1>4, LeaveSteps DEF Snapshot
<1>5. CASE sub.active /\ Limit(r, "member") = NoLimit
  BY <1>1, <1>2, <1>3, <1>5, RoomIsNat, PlanShareSteps DEF Snapshot
<1>6. CASE sub.active /\ Limit(r, "member") # NoLimit
  <2>1. PICK k : k = [pc |-> "first", req |-> r, est |-> est, room |-> Room,
                      seen |-> 0, scope |-> "member"]
    OBVIOUS
  <2>2. k \in Calls /\ Becomes(c, k) /\ UNCHANGED locks
    BY <1>2, <1>6, <2>1, RoomIsNat DEF Calls, Snapshot, Becomes
  <2>3. New(k) /\ Fits(k) /\ SeenEnough(k) /\ ShareRoom(k) /\ Told(k)
    BY <1>2, <1>6, <2>1 DEF New, Fits, SeenEnough, ShareRoom, Told
  <2>4. DayRoom(k)
    BY <1>2, <2>1 DEF DayRoom, Passed
  <2>5. k.req = r /\ Fine(k)
    BY <2>1, <2>3, <2>4 DEF Fine
  <2> QED
    BY <1>1, <2>2, <2>5, GoesOn
<1> QED
  BY <1>4, <1>5, <1>6

(* A call that passes the check of a member's share has planned what fits  *)
(* the share.                                                              *)
LEMMA CheckMemberIsStep ==
  ASSUME AdmissionAssumption, Inv, NEW c \in Callers, CheckMember(c)
  PROVE  CallerStep(c)
<1> DEFINE r == calls[c].req
           est == calls[c].est
           u == User[r]
<1>1. /\ calls[c].pc = "second" /\ calls[c].scope = "member" /\ calls[c].pc # "idle"
      /\ calls[c].pc \in Past /\ Quiet
  BY DEF CheckMember, Past, Quiet
<1>2. /\ calls[c] \in [pc : {"first", "second"}, req : Requests, est : Estimates, room : Nat,
                       seen : Nat, scope : {"user", "key", "member"}]
      /\ Fine(calls[c]) /\ MemberInv /\ rows \in [Requests -> Row]
  BY <1>1, OfCall, CallShape DEF Books
<1>3. r \in Requests /\ u \in Users /\ Limit(r, "member") = MemberLimit[u]
  BY <1>2, Scopes
<1>4. /\ Bound[r] /\ Limit(r, "member") # NoLimit
      /\ \A s \in Daily : HasRoom(r, est, s)
  BY <1>1, <1>2 DEF Fine, Fits, DayRoom, Passed
<1>5. MemberLimit[u] \in Nat /\ TakenIn(Of(u)) <= MemberLimit[u]
  BY <1>2, <1>3, <1>4 DEF MemberInv, AdmissionAssumption
<1>6. TakenIn(Of(u)) \in Nat
  <2>1. Of(u) \in SUBSET Requests
    BY DEF Of
  <2> QED
    BY <1>2, <2>1, SumTypes DEF TakenIn
<1>7. Total(c) \in Nat /\ TakenIn(Of(u)) <= Total(c)
  BY <1>1, TotalIsEnough
<1>8. PICK available : available = Least(calls[c].room, AtLeastZero(Limit(r, "member") - Total(c)))
  OBVIOUS
<1>9. available \in Nat /\ \A p \in Nat : p <= available => TakenIn(Of(u)) + p <= MemberLimit[u]
  BY <1>2, <1>3, <1>5, <1>6, <1>7, <1>8 DEF Least, AtLeastZero
<1>10. PlanShare(c, available)
  BY <1>8 DEF CheckMember
<1> QED
  BY <1>1, <1>4, <1>9, <1>10, PlanShareSteps

(* The probe of the wallet changes no share and no limit, whatever it      *)
(* sees: the debit decides.                                                *)
LEMMA ProbeWalletIsStep ==
  ASSUME AdmissionAssumption, Inv, NEW c \in Callers, ProbeWallet(c)
  PROVE  CallerStep(c)
<1> DEFINE r == calls[c].req
           est == calls[c].est
           plan == calls[c].plan
           rest == FundingTarget(r, est) - plan
<1>1. /\ calls[c].pc = "wallet" /\ calls[c].pc # "idle" /\ calls[c].pc \in Inside
      /\ calls[c].pc \in Past /\ Quiet
  BY DEF ProbeWallet, Inside, Past, Quiet
<1>2. /\ calls[c] \in [pc : {"snapshot", "wallet"}, req : Requests, est : Estimates, plan : Nat]
      /\ Fine(calls[c]) /\ est \in Nat
  BY <1>1, OfCall, CallShape
<1>3. CASE Available(User[r]) < rest
  BY <1>1, <1>3, LeaveSteps DEF ProbeWallet
<1>4. CASE ~(Available(User[r]) < rest)
  <2>1. plan <= est /\ (plan > 0 => Bound[r]) /\ plan \in Nat
    BY <1>1, <1>2 DEF Fine, Fits
  <2>2. rest \in Nat
    BY <1>2, <2>1 DEF FundingTarget, AdmissionAssumption
  <2>3. PICK k : k = [pc |-> "commit", req |-> r, est |-> est, plan |-> plan, payg |-> rest]
    OBVIOUS
  <2>4. Becomes(c, k) /\ UNCHANGED locks
    BY <1>4, <2>3 DEF ProbeWallet, Becomes
  <2>5. k \in Calls
    BY <1>2, <2>1, <2>2, <2>3 DEF Calls
  <2>6. New(k) /\ Fits(k) /\ SeenEnough(k) /\ ShareRoom(k) /\ Told(k)
    BY <1>1, <1>2, <2>1, <2>3 DEF Fine, New, Fits, SeenEnough, ShareRoom, Told
  <2>7. DayRoom(k)
    BY <1>1, <1>2, <2>3 DEF Fine, DayRoom, Passed
  <2>8. k.req = r
    BY <2>3
  <2> QED
    BY <1>1, <2>4, <2>5, <2>6, <2>7, <2>8, GoesOn DEF Fine
<1> QED
  BY <1>3, <1>4

(* The commit, when it is granted.                                         *)
Grants(c) ==
  calls[c].pc = "commit" /\ rows[calls[c].req].status = "none" /\ CanReserveQuota(c) /\ CanDebit(c)

(* A commit that the subscription or the wallet refuses leaves everything  *)
(* as it was.                                                              *)
LEMMA RefusedIsStep ==
  ASSUME AdmissionAssumption, Inv, NEW c \in Callers, Commit(c), ~Grants(c)
  PROVE  CallerStep(c)
<1>1. calls[c].pc # "idle" /\ Quiet /\ Leave(c, "refused")
  BY DEF Commit, Grants, Quiet
<1> QED
  BY <1>1, LeaveSteps

-----------------------------------------------------------------------------
(* Steps that change a row.                                                *)

(* What a call has concluded stays true when another user is granted a     *)
(* request.                                                                *)
LEMMA FineApart ==
  ASSUME AdmissionAssumption, rows \in [Requests -> Row], rows' \in [Requests -> Row],
         NEW r \in Requests, rows[r].status = "none",
         \A q \in Requests \ {r} : rows'[q] = rows[q], missed' = missed,
         NEW k \in Calls, Fine(k), k.pc \in Past => User[k.req] # User[r]
  PROVE  Fine(k)'
<1>1. ASSUME NEW S \in SUBSET Requests, r \notin S
      PROVE  /\ CostIn(S)' = CostIn(S) /\ EstIn(S)' = EstIn(S) /\ ShareIn(S)' = ShareIn(S)
             /\ UsedIn(S)' = UsedIn(S) /\ ExcusedIn(S)' = ExcusedIn(S)
  BY <1>1, SumsMove, SumTypes
<1>2. CASE k.pc \in Past
  <2>1. k.req \in Requests /\ k.req # r /\ rows'[k.req] = rows[k.req]
    BY <1>2, CallShape DEF Past
  <2>2. Of(User[k.req]) \in SUBSET Requests /\ r \notin Of(User[k.req])
    BY <1>2 DEF Of
  <2>3. ASSUME NEW s \in {"user", "key", "member"}
        PROVE  Within(k.req, s) \in SUBSET Requests /\ r \notin Within(k.req, s)
    BY <2>1, <2>2, ScopeIsOfUser
  <2>4. New(k)' /\ Fits(k)' /\ Told(k)'
    BY <1>2, <2>1 DEF Fine, New, Fits, Told, Past
  <2>5. SeenEnough(k)'
    <3> SUFFICES ASSUME k.pc = "second" PROVE SeenEnough(k)'
      BY DEF SeenEnough
    <3>1. k.scope \in {"user", "key", "member"}
      BY CallShape
    <3> DEFINE W == Within(k.req, k.scope)
    <3>2. ShareIn(W)' = ShareIn(W) /\ CostIn(W)' = CostIn(W) /\ ExcusedIn(W)' = ExcusedIn(W)
      BY <1>1, <2>3, <3>1
    <3> QED
      BY <3>2 DEF Fine, SeenEnough
  <2>6. DayRoom(k)'
    <3> SUFFICES ASSUME NEW s \in Passed(k) PROVE HasRoom(k.req, k.est, s)'
      BY DEF DayRoom
    <3>1. s \in {"user", "key", "member"}
      BY DEF Passed, Daily
    <3>2. Weight(Within(k.req, s))' = Weight(Within(k.req, s))
      BY <1>1, <2>3, <3>1 DEF Weight
    <3> QED
      BY <3>2 DEF Fine, DayRoom, HasRoom
  <2>7. ShareRoom(k)'
    <3>1. TakenIn(Of(User[k.req]))' = TakenIn(Of(User[k.req]))
      BY <1>1, <2>2 DEF TakenIn
    <3> QED
      BY <3>1 DEF Fine, ShareRoom
  <2> QED
    BY <2>4, <2>5, <2>6, <2>7 DEF Fine
<1>3. CASE k.pc \notin Past
  <2>1. k.pc \in {"granted", "replayed"} =>
          k.req \in Requests /\ k.req # r /\ rows'[k.req] = rows[k.req]
    BY CallShape DEF Fine, Told
  <2> QED
    BY <1>3, <2>1 DEF Fine, New, Fits, SeenEnough, DayRoom, Passed, ShareRoom, Told, Past
<1> QED
  BY <1>2, <1>3

(* ... and when a request ends, which makes the sums no larger; except for *)
(* the spending, for which the call has to count the request as missed.    *)
LEMMA FineLess ==
  ASSUME AdmissionAssumption, rows \in [Requests -> Row],
         NEW r \in Requests, rows[r].status = "open", rows'[r].status # "none",
         rows'[r].est = rows[r].est, \A q \in Requests \ {r} : rows'[q] = rows[q],
         \A S \in SUBSET Requests :
           /\ Weight(S)' \in Int /\ Weight(S) \in Int /\ Weight(S)' <= Weight(S)
           /\ TakenIn(S)' \in Int /\ TakenIn(S) \in Int /\ TakenIn(S)' <= TakenIn(S)
           /\ ShareIn(S)' \in Int /\ ShareIn(S) \in Int /\ ShareIn(S)' <= ShareIn(S),
         NEW k \in Calls, Fine(k),
         k.pc = "second" /\ k.scope \in Daily =>
           CostIn(Within(k.req, k.scope))' - ExcusedIn(Within(k.req, k.scope))' <= k.seen
  PROVE  Fine(k)'
<1>1. k.pc # "idle" => k.req \in Requests /\ k.est \in Nat
  BY CallShape DEF AdmissionAssumption
<1>2. k.pc \in Past => k.req \in Requests /\ rows'[k.req] = rows[k.req]
  BY <1>1 DEF Fine, New, Past
<1>3. New(k)' /\ Fits(k)'
  BY <1>2 DEF Fine, New, Fits
<1>4. Told(k)'
  BY <1>1 DEF Fine, Told
<1>5. SeenEnough(k)'
  <2> SUFFICES ASSUME k.pc = "second" PROVE SeenEnough(k)'
    BY DEF SeenEnough
  <2>1. k.scope \in {"user", "key", "member"} /\ k.seen \in Nat /\ k.req \in Requests
    BY CallShape
  <2>2. CASE k.scope = "member"
    <3> DEFINE W == Within(k.req, k.scope)
    <3>1. W \in SUBSET Requests
      BY <2>1, ScopeIsOfUser
    <3>2. ShareIn(W)' \in Int /\ ShareIn(W) \in Int /\ ShareIn(W)' <= ShareIn(W)
      BY <3>1
    <3>3. ShareIn(W) <= k.seen
      BY <2>2 DEF Fine, SeenEnough
    <3>4. ShareIn(W)' <= k.seen
      BY <2>1, <3>2, <3>3
    <3> QED
      BY <2>2, <3>4 DEF SeenEnough
  <2>3. CASE k.scope \in Daily
    BY <2>3 DEF SeenEnough, Daily
  <2> QED
    BY <2>1, <2>2, <2>3 DEF Daily
<1>6. DayRoom(k)'
  <2> SUFFICES ASSUME NEW s \in Passed(k), Limit(k.req, s) # NoLimit
               PROVE  Weight(Within(k.req, s))' + k.est <= Limit(k.req, s)
    BY DEF DayRoom, HasRoom
  <2>1. s \in {"user", "key", "member"} /\ k.pc # "idle"
    BY DEF Passed, Daily
  <2>2. Within(k.req, s) \in SUBSET Requests /\ Limit(k.req, s) \in Nat
    BY <1>1, <2>1, ScopeIsOfUser
  <2>3. Weight(Within(k.req, s)) + k.est <= Limit(k.req, s)
    BY DEF Fine, DayRoom, HasRoom
  <2>4. /\ Weight(Within(k.req, s))' \in Int /\ Weight(Within(k.req, s)) \in Int
        /\ Weight(Within(k.req, s))' <= Weight(Within(k.req, s))
    BY <2>2
  <2> QED
    BY <1>1, <2>1, <2>2, <2>3, <2>4
<1>7. ShareRoom(k)'
  <2> SUFFICES ASSUME k.pc \in {"wallet", "commit"}, MemberLimit[User[k.req]] # NoLimit
               PROVE  TakenIn(Of(User[k.req]))' + k.plan <= MemberLimit[User[k.req]]
    BY DEF ShareRoom
  <2>1. k.plan \in Nat /\ User[k.req] \in Users /\ MemberLimit[User[k.req]] \in Nat
    BY <1>1, CallShape, Scopes DEF AdmissionAssumption
  <2>2. TakenIn(Of(User[k.req])) + k.plan <= MemberLimit[User[k.req]]
    BY DEF Fine, ShareRoom
  <2>3. Of(User[k.req]) \in SUBSET Requests
    BY DEF Of
  <2>4. /\ TakenIn(Of(User[k.req]))' \in Int /\ TakenIn(Of(User[k.req])) \in Int
        /\ TakenIn(Of(User[k.req]))' <= TakenIn(Of(User[k.req]))
    BY <2>3
  <2> QED
    BY <2>1, <2>2, <2>4
<1> QED
  BY <1>3, <1>4, <1>5, <1>6, <1>7 DEF Fine

(* How each step moves the sums.                                           *)
LEMMA GrantMoves ==
  ASSUME AdmissionAssumption, rows \in [Requests -> Row], NEW r \in Requests,
         NEW est \in Nat, NEW plan \in Nat, NEW payg \in Nat, rows[r].status = "none",
         rows' = [rows EXCEPT ![r] = [status |-> "open", est |-> est, plan |-> plan,
                                      payg |-> payg, cost |-> 0]],
         missed' = missed, NEW S \in SUBSET Requests
  PROVE  /\ rows' \in [Requests -> Row]
         /\ Weight(S)' = Weight(S) + (IF r \in S THEN est ELSE 0)
         /\ TakenIn(S)' = TakenIn(S) + (IF r \in S THEN plan ELSE 0)
         /\ ShareIn(S)' = ShareIn(S) + (IF r \in S THEN plan ELSE 0)
         /\ UsedIn(S)' = UsedIn(S) /\ OverIn(S)' = OverIn(S)
         /\ HeldIn(S)' = HeldIn(S) + (IF r \in S THEN payg ELSE 0)
<1>1. rows' \in [Requests -> Row] /\ \A q \in Requests \ {r} : rows'[q] = rows[q]
  BY DEF Row
<1>2. /\ CostOf(rows[r]) = 0 /\ EstOf(rows[r]) = 0 /\ ShareOf(rows[r]) = 0
      /\ UsedOf(rows[r]) = 0 /\ HeldOf(rows[r]) = 0 /\ OverOf(rows[r]) = 0
      /\ ExcusedOf(rows[r], r \in missed) = 0
  BY DEF CostOf, EstOf, ShareOf, UsedOf, HeldOf, OverOf, ExcusedOf
<1>3. /\ CostOf(rows'[r]) = 0 /\ EstOf(rows'[r]) = est /\ ShareOf(rows'[r]) = plan
      /\ UsedOf(rows'[r]) = 0 /\ HeldOf(rows'[r]) = payg /\ OverOf(rows'[r]) = 0
      /\ ExcusedOf(rows'[r], r \in missed') = 0
  BY DEF CostOf, EstOf, ShareOf, UsedOf, HeldOf, OverOf, ExcusedOf
<1>4. /\ CostIn(S)' = CostIn(S) + (IF r \in S THEN 0 - 0 ELSE 0)
      /\ EstIn(S)' = EstIn(S) + (IF r \in S THEN est - 0 ELSE 0)
      /\ ShareIn(S)' = ShareIn(S) + (IF r \in S THEN plan - 0 ELSE 0)
      /\ UsedIn(S)' = UsedIn(S) + (IF r \in S THEN 0 - 0 ELSE 0)
      /\ HeldIn(S)' = HeldIn(S) + (IF r \in S THEN payg - 0 ELSE 0)
      /\ OverIn(S)' = OverIn(S) + (IF r \in S THEN 0 - 0 ELSE 0)
      /\ ExcusedIn(S)' = ExcusedIn(S) + (IF r \in S THEN 0 - 0 ELSE 0)
  <2>1. \A q \in Requests \ {r} : q \in missed' <=> q \in missed
    OBVIOUS
  <2> QED
    BY <1>1, <1>2, <1>3, <2>1, SumsMove
<1>5. /\ CostIn(S) \in Nat /\ EstIn(S) \in Nat /\ ShareIn(S) \in Nat /\ UsedIn(S) \in Nat
      /\ HeldIn(S) \in Nat /\ OverIn(S) \in Nat /\ ExcusedIn(S) \in Nat
  BY SumTypes
<1> QED
  BY <1>1, <1>4, <1>5 DEF Weight, TakenIn

(* A settlement moves a row's shares out of what is open; what counts      *)
(* against a limit does not grow beyond what is excused.                   *)
LEMMA SettleMoves ==
  ASSUME AdmissionAssumption, rows \in [Requests -> Row], NEW r \in Requests, NEW cost \in Nat,
         Open(r), rows' \in [Requests -> Row], \A q \in Requests \ {r} : rows'[q] = rows[q],
         rows'[r].status = "settled", rows'[r].est = rows[r].est, rows'[r].plan = rows[r].plan,
         rows'[r].payg = rows[r].payg, rows'[r].cost = cost,
         missed' = missed \/ missed' = missed \cup {r}, NEW S \in SUBSET Requests
  PROVE  /\ Weight(S)' \in Int /\ Weight(S) \in Int /\ Weight(S)' <= Weight(S)
         /\ ShareIn(S)' = ShareIn(S) - (IF r \in S THEN rows[r].plan ELSE 0)
         /\ UsedIn(S)' = UsedIn(S) + (IF r \in S THEN FromPlan(r, cost) ELSE 0)
         /\ HeldIn(S)' = HeldIn(S) - (IF r \in S THEN rows[r].payg ELSE 0)
         /\ OverIn(S)' = OverIn(S) + (IF r \in S
              THEN AtLeastZero(cost - FromPlan(r, cost) - rows[r].payg) ELSE 0)
         /\ r \notin S \/ r \in missed' =>
              CostIn(S)' - ExcusedIn(S)' = CostIn(S) - ExcusedIn(S)
<1> DEFINE pardon == IF r \in missed' THEN cost ELSE AtLeastZero(cost - rows[r].est)
           over == AtLeastZero(cost - FromPlan(r, cost) - rows[r].payg)
<1>2. rows[r].est \in Nat /\ rows[r].plan \in Nat /\ rows[r].payg \in Nat
  BY DEF Row
<1>3. /\ CostOf(rows[r]) = 0 /\ EstOf(rows[r]) = rows[r].est /\ ShareOf(rows[r]) = rows[r].plan
      /\ UsedOf(rows[r]) = 0 /\ HeldOf(rows[r]) = rows[r].payg /\ OverOf(rows[r]) = 0
      /\ ExcusedOf(rows[r], r \in missed) = 0
  BY DEF Open, CostOf, EstOf, ShareOf, UsedOf, HeldOf, OverOf, ExcusedOf
<1>4. /\ CostOf(rows'[r]) = cost /\ EstOf(rows'[r]) = 0 /\ ShareOf(rows'[r]) = 0
      /\ UsedOf(rows'[r]) = FromPlan(r, cost) /\ HeldOf(rows'[r]) = 0
      /\ OverOf(rows'[r]) = over /\ ExcusedOf(rows'[r], r \in missed') = pardon
  BY <1>2 DEF CostOf, EstOf, ShareOf, UsedOf, HeldOf, OverOf, ExcusedOf, FromPlan
<1>5. /\ pardon \in Int /\ over \in Int /\ FromPlan(r, cost) \in Int
      /\ cost - pardon <= rows[r].est /\ (r \in missed' => pardon = cost)
  BY <1>2 DEF AtLeastZero, FromPlan, Least
<1> HIDE DEF pardon, over
<1>6. /\ CostIn(S)' = CostIn(S) + (IF r \in S THEN cost - 0 ELSE 0)
      /\ EstIn(S)' = EstIn(S) + (IF r \in S THEN 0 - rows[r].est ELSE 0)
      /\ ShareIn(S)' = ShareIn(S) + (IF r \in S THEN 0 - rows[r].plan ELSE 0)
      /\ UsedIn(S)' = UsedIn(S) + (IF r \in S THEN FromPlan(r, cost) - 0 ELSE 0)
      /\ HeldIn(S)' = HeldIn(S) + (IF r \in S THEN 0 - rows[r].payg ELSE 0)
      /\ OverIn(S)' = OverIn(S) + (IF r \in S THEN over - 0 ELSE 0)
      /\ ExcusedIn(S)' = ExcusedIn(S) + (IF r \in S THEN pardon - 0 ELSE 0)
  <2>1. \A q \in Requests \ {r} : q \in missed' <=> q \in missed
    OBVIOUS
  <2> QED
    BY <1>3, <1>4, <2>1, SumsMove
<1>7. /\ CostIn(S) \in Nat /\ EstIn(S) \in Nat /\ ShareIn(S) \in Nat /\ UsedIn(S) \in Nat
      /\ HeldIn(S) \in Nat /\ OverIn(S) \in Nat /\ ExcusedIn(S) \in Nat
  BY SumTypes
<1>8. /\ Weight(S)' \in Int /\ Weight(S) \in Int /\ Weight(S)' <= Weight(S)
  BY <1>2, <1>5, <1>6, <1>7 DEF Weight
<1>9. r \notin S \/ r \in missed' => CostIn(S)' - ExcusedIn(S)' = CostIn(S) - ExcusedIn(S)
  BY <1>5, <1>6, <1>7
<1>10. /\ ShareIn(S)' = ShareIn(S) - (IF r \in S THEN rows[r].plan ELSE 0)
       /\ UsedIn(S)' = UsedIn(S) + (IF r \in S THEN FromPlan(r, cost) ELSE 0)
       /\ HeldIn(S)' = HeldIn(S) - (IF r \in S THEN rows[r].payg ELSE 0)
       /\ OverIn(S)' = OverIn(S) + (IF r \in S THEN over ELSE 0)
  BY <1>2, <1>5, <1>6, <1>7
<1> QED
  BY <1>8, <1>9, <1>10 DEF over

(* A release takes a row's shares out of what is open, and nothing else.   *)
LEMMA ReleaseMoves ==
  ASSUME AdmissionAssumption, rows \in [Requests -> Row], NEW r \in Requests,
         Open(r), rows' = [rows EXCEPT ![r].status = "released"],
         missed' = missed, NEW S \in SUBSET Requests
  PROVE  /\ rows' \in [Requests -> Row]
         /\ Weight(S)' \in Int /\ Weight(S) \in Int /\ Weight(S)' <= Weight(S)
         /\ ShareIn(S)' = ShareIn(S) - (IF r \in S THEN rows[r].plan ELSE 0)
         /\ UsedIn(S)' = UsedIn(S) /\ OverIn(S)' = OverIn(S)
         /\ HeldIn(S)' = HeldIn(S) - (IF r \in S THEN rows[r].payg ELSE 0)
         /\ CostIn(S)' = CostIn(S) /\ ExcusedIn(S)' = ExcusedIn(S)
<1>1. rows' \in [Requests -> Row] /\ \A q \in Requests \ {r} : rows'[q] = rows[q]
  BY DEF Row
<1>2. /\ rows[r].est \in Nat /\ rows[r].plan \in Nat /\ rows[r].payg \in Nat
      /\ rows'[r].status = "released"
  BY DEF Row
<1>3. /\ CostOf(rows[r]) = 0 /\ EstOf(rows[r]) = rows[r].est /\ ShareOf(rows[r]) = rows[r].plan
      /\ UsedOf(rows[r]) = 0 /\ HeldOf(rows[r]) = rows[r].payg /\ OverOf(rows[r]) = 0
      /\ ExcusedOf(rows[r], r \in missed) = 0
  BY DEF Open, CostOf, EstOf, ShareOf, UsedOf, HeldOf, OverOf, ExcusedOf
<1>4. /\ CostOf(rows'[r]) = 0 /\ EstOf(rows'[r]) = 0 /\ ShareOf(rows'[r]) = 0
      /\ UsedOf(rows'[r]) = 0 /\ HeldOf(rows'[r]) = 0 /\ OverOf(rows'[r]) = 0
      /\ ExcusedOf(rows'[r], r \in missed') = 0
  BY <1>2 DEF CostOf, EstOf, ShareOf, UsedOf, HeldOf, OverOf, ExcusedOf
<1>6. /\ CostIn(S)' = CostIn(S) + (IF r \in S THEN 0 - 0 ELSE 0)
      /\ EstIn(S)' = EstIn(S) + (IF r \in S THEN 0 - rows[r].est ELSE 0)
      /\ ShareIn(S)' = ShareIn(S) + (IF r \in S THEN 0 - rows[r].plan ELSE 0)
      /\ UsedIn(S)' = UsedIn(S) + (IF r \in S THEN 0 - 0 ELSE 0)
      /\ HeldIn(S)' = HeldIn(S) + (IF r \in S THEN 0 - rows[r].payg ELSE 0)
      /\ OverIn(S)' = OverIn(S) + (IF r \in S THEN 0 - 0 ELSE 0)
      /\ ExcusedIn(S)' = ExcusedIn(S) + (IF r \in S THEN 0 - 0 ELSE 0)
  <2>1. \A q \in Requests \ {r} : q \in missed' <=> q \in missed
    OBVIOUS
  <2> QED
    BY <1>1, <1>3, <1>4, <2>1, SumsMove
<1>7. /\ CostIn(S) \in Nat /\ EstIn(S) \in Nat /\ ShareIn(S) \in Nat /\ UsedIn(S) \in Nat
      /\ HeldIn(S) \in Nat /\ OverIn(S) \in Nat /\ ExcusedIn(S) \in Nat
  BY SumTypes
<1> QED
  BY <1>1, <1>2, <1>6, <1>7 DEF Weight

(* The requests of a user.                                                 *)
LEMMA OwnRequests ==
  ASSUME AdmissionAssumption, NEW r \in Requests, NEW u
  PROVE  Of(u) \in SUBSET Requests /\ (r \in Of(u) <=> User[r] = u) /\ User[r] \in Users
BY DEF Of, AdmissionAssumption

(* The other calls keep their locks when one leaves.                       *)
LEMMA OthersLocked ==
  ASSUME AdmissionAssumption, Inv, NEW c \in Callers, LocksKept(c),
         NEW d \in Callers \ {c}, NEW k, k = calls[d], k.pc \in Inside
  PROVE  locks'[User[k.req]] = d
<1>1. k \in Calls /\ locks[User[k.req]] = d
  BY OfCall DEF Locked
<1>2. User[k.req] \in Users
  BY <1>1, CallShape, Scopes DEF Inside, Past
<1> QED
  BY <1>1, <1>2 DEF LocksKept

(* A commit that is granted keeps the books: the limits it passed have     *)
(* room, the quota allows its share, the wallet its hold.                  *)
LEMMA GrantKeeps ==
  ASSUME AdmissionAssumption, Inv, NEW c \in Callers, Commit(c), Grants(c)
  PROVE  Inv'
<1>1. PICK r, est, plan, payg :
        r = calls[c].req /\ est = calls[c].est /\ plan = calls[c].plan /\ payg = calls[c].payg
  OBVIOUS
<1>2. /\ calls[c] \in [pc : {"commit"}, req : Requests, est : Estimates, plan : Nat, payg : Nat]
      /\ Fine(calls[c]) /\ locks[User[r]] = c /\ Books
  BY <1>1, OfCall, CallShape DEF Grants, Locked, Inside, Past
<1>3. /\ r \in Requests /\ est \in Estimates /\ est \in Nat /\ plan \in Nat /\ payg \in Nat
      /\ rows[r].status = "none" /\ rows \in [Requests -> Row] /\ User[r] \in Users
  BY <1>1, <1>2, OfCall, Scopes DEF Grants, AdmissionAssumption
<1>4. /\ rows' = [rows EXCEPT ![r] = [status |-> "open", est |-> est, plan |-> plan,
                                      payg |-> payg, cost |-> 0]]
      /\ sub' = [sub EXCEPT !.reserved = @ + plan]
      /\ wallets' = [wallets EXCEPT ![User[r]].inFlight = @ + payg]
      /\ missed' = missed /\ Leave(c, "granted")
  BY <1>1 DEF Commit, Grants
<1>5. /\ rows' \in [Requests -> Row]
      /\ \A S \in SUBSET Requests :
           /\ Weight(S)' = Weight(S) + (IF r \in S THEN est ELSE 0)
           /\ TakenIn(S)' = TakenIn(S) + (IF r \in S THEN plan ELSE 0)
           /\ ShareIn(S)' = ShareIn(S) + (IF r \in S THEN plan ELSE 0)
           /\ UsedIn(S)' = UsedIn(S) /\ OverIn(S)' = OverIn(S)
           /\ HeldIn(S)' = HeldIn(S) + (IF r \in S THEN payg ELSE 0)
  BY <1>3, <1>4, GrantMoves
<1>6. PICK k : k = [pc |-> "granted", req |-> r, est |-> est]
  OBVIOUS
<1>7. k \in Calls /\ Becomes(c, k) /\ LocksKept(c)
  BY <1>1, <1>3, <1>4, <1>6, GivesUp DEF Leave, Becomes, Calls, Answered
<1>8. /\ plan <= est /\ (plan > 0 => Bound[r]) /\ \A s \in Daily : HasRoom(r, est, s)
      /\ MemberLimit[User[r]] # NoLimit => TakenIn(Of(User[r])) + plan <= MemberLimit[User[r]]
  BY <1>1, <1>2 DEF Fine, Fits, DayRoom, Passed, ShareRoom
<1>9. /\ plan > 0 => Quota - sub.used - sub.reserved >= plan
      /\ payg > 0 => Available(User[r]) >= payg
  BY <1>1 DEF Grants, CanReserveQuota, CanDebit
<1>10. /\ sub \in [active : BOOLEAN, used : Nat, reserved : Nat]
       /\ wallets \in [Users -> [balance : Int, inFlight : Int]]
       /\ calls \in [Callers -> Calls] /\ missed \subseteq Requests
  BY DEF Inv, TypeOK
<1>11. TypeOK'
  <2>1. sub' \in [active : BOOLEAN, used : Nat, reserved : Nat]
    BY <1>3, <1>4, <1>10
  <2>2. wallets' \in [Users -> [balance : Int, inFlight : Int]]
    BY <1>3, <1>4, <1>10
  <2>3. calls' \in [Callers -> Calls]
    BY <1>7, <1>10 DEF Becomes
  <2> QED
    BY <1>4, <1>5, <1>7, <1>10, <2>1, <2>2, <2>3 DEF TypeOK, LocksKept
<1>12. RowsFit'
  BY <1>2, <1>3, <1>4, <1>8 DEF Books, RowsFit
<1>13. QuotaInv'
  <2>1. sub'.used = sub.used /\ sub'.reserved = sub.reserved + plan
    BY <1>4, <1>10
  <2>2. ShareIn(Requests)' = ShareIn(Requests) + plan /\ UsedIn(Requests)' = UsedIn(Requests)
    BY <1>3, <1>5
  <2>3. sub.used + (sub.reserved + plan) <= Quota
    BY <1>2, <1>3, <1>9, <1>10 DEF Books, QuotaInv, AdmissionAssumption
  <2> QED
    BY <1>2, <2>1, <2>2, <2>3 DEF Books, QuotaInv
<1>14. WalletInv'
  <2> SUFFICES ASSUME NEW u \in Users
               PROVE  /\ wallets'[u].inFlight = HeldIn(Of(u))'
                      /\ Available(u)' >= 0 - OverIn(Of(u))'
    BY DEF WalletInv
  <2>1. /\ wallets[u].inFlight = HeldIn(Of(u)) /\ Available(u) >= 0 - OverIn(Of(u))
        /\ Available(u) \in Int /\ wallets[u].balance \in Int /\ wallets[u].inFlight \in Int
    BY <1>2, <1>10 DEF Books, WalletInv, Available, AdmissionAssumption
  <2>2. /\ HeldIn(Of(u))' = HeldIn(Of(u)) + (IF User[r] = u THEN payg ELSE 0)
        /\ OverIn(Of(u))' = OverIn(Of(u)) /\ OverIn(Of(u)) \in Nat /\ HeldIn(Of(u)) \in Nat
    BY <1>3, <1>5, OwnRequests, SumTypes
  <2>3. CASE User[r] = u
    <3>1. /\ wallets'[u].inFlight = wallets[u].inFlight + payg
          /\ wallets'[u].balance = wallets[u].balance
      BY <1>3, <1>4, <1>10, <2>3
    <3>2. Available(u)' = Available(u) - payg
      BY <1>3, <2>1, <3>1 DEF Available, AdmissionAssumption
    <3>3. Available(u) - payg >= 0 - OverIn(Of(u))
      BY <1>3, <1>9, <2>1, <2>2, <2>3
    <3> QED
      BY <2>1, <2>2, <2>3, <3>1, <3>2, <3>3
  <2>4. CASE User[r] # u
    <3>1. wallets'[u] = wallets[u]
      BY <1>3, <1>4, <1>10, <2>4
    <3> QED
      BY <2>1, <2>2, <2>4, <3>1 DEF Available
  <2> QED
    BY <2>3, <2>4
<1>15. MemberInv'
  <2> SUFFICES ASSUME NEW u \in Users, MemberLimit[u] # NoLimit
               PROVE  TakenIn(Of(u))' <= MemberLimit[u]
    BY DEF MemberInv
  <2>1. TakenIn(Of(u)) <= MemberLimit[u] /\ TakenIn(Of(u)) \in Nat
    BY <1>2, <1>3, OwnRequests, SumTypes DEF Books, MemberInv, TakenIn
  <2>2. TakenIn(Of(u))' = TakenIn(Of(u)) + (IF User[r] = u THEN plan ELSE 0)
    BY <1>3, <1>5, OwnRequests
  <2> QED
    BY <1>8, <2>1, <2>2
<1>16. DailyInv'
  <2> SUFFICES ASSUME NEW q \in Requests, NEW s \in Daily, Limit(q, s) # NoLimit
               PROVE  Weight(Within(q, s))' <= Limit(q, s)
    BY DEF DailyInv
  <2>1. Within(q, s) \in SUBSET Requests /\ Weight(Within(q, s)) <= Limit(q, s)
    BY <1>2, ScopeIsOfUser DEF Books, DailyInv, Daily
  <2>2. Weight(Within(q, s)) \in Int
    BY <1>3, <2>1, SumTypes DEF Weight
  <2>3. Weight(Within(q, s))' = Weight(Within(q, s)) + (IF r \in Within(q, s) THEN est ELSE 0)
    BY <1>5, <2>1
  <2>4. CASE r \in Within(q, s)
    <3>1. Within(r, s) = Within(q, s) /\ Limit(r, s) = Limit(q, s)
      BY <1>3, <2>4, ScopeIsOfUser DEF Daily
    <3>2. Weight(Within(r, s)) + est <= Limit(r, s)
      BY <1>8, <3>1 DEF HasRoom
    <3> QED
      BY <2>3, <2>4, <3>1, <3>2
  <2>5. CASE r \notin Within(q, s)
    BY <2>1, <2>2, <2>3, <2>5
  <2> QED
    BY <2>4, <2>5
<1>17. CallsInv'
  <2> SUFFICES ASSUME NEW d \in Callers PROVE Locked(d, calls[d])' /\ Fine(calls[d])'
    BY DEF CallsInv
  <2>1. CASE d = c
    <3>1. calls'[d] = k
      BY <1>7, <1>10, <2>1 DEF Becomes
    <3>2. rows'[r].status = "open" /\ rows'[r].est = est
      BY <1>3, <1>4
    <3>3. k.pc = "granted" /\ k.req = r /\ k.est = est
      BY <1>6
    <3>4. Fine(k)'
      BY <3>2, <3>3 DEF Fine, New, Fits, SeenEnough, DayRoom, Passed, ShareRoom, Told, Past
    <3>5. Locked(d, k)'
      BY <3>3 DEF Locked, Inside, Past
    <3> QED
      BY <3>1, <3>4, <3>5
  <2>2. CASE d # c
    <3>1. PICK j : j = calls[d]
      OBVIOUS
    <3>2. calls'[d] = j
      BY <1>7, <1>10, <2>2, <3>1 DEF Becomes
    <3>3. Locked(d, j) /\ Fine(j) /\ j \in Calls
      BY <3>1, OfCall
    <3>4. j.pc \in Past => User[j.req] # User[r]
      BY <1>2, <2>2, <3>3 DEF Locked, Inside
    <3>5. \A q \in Requests \ {r} : rows'[q] = rows[q]
      BY <1>4, <1>3
    <3>6. Fine(j)'
      BY <1>3, <1>4, <1>5, <3>3, <3>4, <3>5, FineApart
    <3>7. Locked(d, j)'
      BY <1>7, <2>2, <3>1, OthersLocked DEF Locked
    <3> QED
      BY <3>2, <3>6, <3>7
  <2> QED
    BY <2>1, <2>2
<1> QED
  BY <1>11, <1>12, <1>13, <1>14, <1>15, <1>16, <1>17 DEF Inv, Books

(* The end of a request: what it held is given back, and it counts for no  *)
(* more than before.                                                       *)
LEMMA EndKeepsCalls ==
  ASSUME AdmissionAssumption, Inv, NEW r \in Requests, Open(r), UNCHANGED <<locks, calls>>,
         rows'[r].status # "none", rows'[r].est = rows[r].est,
         \A q \in Requests \ {r} : rows'[q] = rows[q],
         \A S \in SUBSET Requests :
           /\ Weight(S)' \in Int /\ Weight(S) \in Int /\ Weight(S)' <= Weight(S)
           /\ TakenIn(S)' \in Int /\ TakenIn(S) \in Int /\ TakenIn(S)' <= TakenIn(S)
           /\ ShareIn(S)' \in Int /\ ShareIn(S) \in Int /\ ShareIn(S)' <= ShareIn(S),
         \A d \in Callers : calls[d].pc = "second" /\ calls[d].scope \in Daily =>
           \A S \in SUBSET Requests : S = Within(calls[d].req, calls[d].scope) =>
             CostIn(S)' - ExcusedIn(S)' = CostIn(S) - ExcusedIn(S)
  PROVE  CallsInv' /\ MemberInv' /\ DailyInv'
<1>1. rows \in [Requests -> Row] /\ Books
  BY DEF Inv, TypeOK
<1>2. CallsInv'
  <2> SUFFICES ASSUME NEW d \in Callers PROVE Locked(d, calls[d])' /\ Fine(calls[d])'
    BY DEF CallsInv
  <2>1. PICK j : j = calls[d]
    OBVIOUS
  <2>2. Locked(d, j) /\ Fine(j) /\ j \in Calls
    BY <2>1, OfCall
  <2>3. j.pc = "second" /\ j.scope \in Daily =>
          CostIn(Within(j.req, j.scope))' - ExcusedIn(Within(j.req, j.scope))' <= j.seen
    <3> SUFFICES ASSUME j.pc = "second", j.scope \in Daily
                 PROVE  CostIn(Within(j.req, j.scope))' -
                          ExcusedIn(Within(j.req, j.scope))' <= j.seen
      OBVIOUS
    <3>1. PICK S : S = Within(j.req, j.scope)
      OBVIOUS
    <3>2. S \in SUBSET Requests
      BY <2>2, <3>1, CallShape, ScopeIsOfUser
    <3>3. CostIn(S)' - ExcusedIn(S)' = CostIn(S) - ExcusedIn(S)
      BY <2>1, <3>1, <3>2
    <3>4. CostIn(S) - ExcusedIn(S) <= j.seen
      BY <2>2, <3>1 DEF Fine, SeenEnough, Daily
    <3> QED
      BY <3>1, <3>3, <3>4
  <2>4. rows[r].status = "open"
    BY DEF Open
  <2>5. Fine(j)'
    BY <1>1, <2>2, <2>3, <2>4, FineLess
  <2>6. Locked(d, j)'
    BY <2>2 DEF Locked
  <2> QED
    BY <2>1, <2>5, <2>6
<1>3. MemberInv'
  <2> SUFFICES ASSUME NEW u \in Users, MemberLimit[u] # NoLimit
               PROVE  TakenIn(Of(u))' <= MemberLimit[u]
    BY DEF MemberInv
  <2>1. TakenIn(Of(u)) <= MemberLimit[u] /\ Of(u) \in SUBSET Requests /\ MemberLimit[u] \in Nat
    BY <1>1, OwnRequests DEF Books, MemberInv, AdmissionAssumption
  <2>2. TakenIn(Of(u))' \in Int /\ TakenIn(Of(u)) \in Int /\ TakenIn(Of(u))' <= TakenIn(Of(u))
    BY <2>1
  <2> QED
    BY <2>1, <2>2
<1>4. DailyInv'
  <2> SUFFICES ASSUME NEW q \in Requests, NEW s \in Daily, Limit(q, s) # NoLimit
               PROVE  Weight(Within(q, s))' <= Limit(q, s)
    BY DEF DailyInv
  <2>1. /\ Within(q, s) \in SUBSET Requests /\ Weight(Within(q, s)) <= Limit(q, s)
        /\ Limit(q, s) \in Nat
    BY <1>1, ScopeIsOfUser DEF Books, DailyInv, Daily
  <2>2. /\ Weight(Within(q, s))' \in Int /\ Weight(Within(q, s)) \in Int
        /\ Weight(Within(q, s))' <= Weight(Within(q, s))
    BY <2>1
  <2> QED
    BY <2>1, <2>2
<1> QED
  BY <1>2, <1>3, <1>4

(* A settlement keeps the books, and what every call in between knows.     *)
LEMMA SettleKeeps ==
  ASSUME AdmissionAssumption, Inv, NEW r \in Requests, NEW cost \in Costs, Settle(r, cost)
  PROVE  Inv'
<1>1. PICK row, part : row = rows[r] /\ part = FromPlan(r, cost)
  OBVIOUS
<1>2. /\ Open(r) /\ UNCHANGED <<locks, calls>>
      /\ rows' = [rows EXCEPT ![r].status = "settled", ![r].cost = cost]
      /\ missed' = missed \/ missed' = missed \cup {r}
      /\ sub' = [sub EXCEPT !.reserved = @ - row.plan, !.used = @ + part]
      /\ wallets' = [wallets EXCEPT ![User[r]] =
                       [balance |-> @.balance - (cost - part), inFlight |-> @.inFlight - row.payg]]
      /\ row.plan > 0 => sub.reserved >= row.plan
  BY <1>1 DEF Settle, QuotaAllows
<1>3. /\ rows \in [Requests -> Row] /\ Books /\ User[r] \in Users
      /\ sub \in [active : BOOLEAN, used : Nat, reserved : Nat]
      /\ wallets \in [Users -> [balance : Int, inFlight : Int]]
      /\ calls \in [Callers -> Calls] /\ missed \subseteq Requests
      /\ locks \in [Users -> Callers \cup {Free}]
  BY OwnRequests DEF Inv, TypeOK
<1>4. /\ row.plan \in Nat /\ row.payg \in Nat /\ cost \in Nat
      /\ part \in Nat /\ part <= row.plan /\ part <= cost
  <2>1. row \in Row /\ cost \in Nat
    BY <1>1, <1>3 DEF AdmissionAssumption
  <2> QED
    BY <1>1, <2>1 DEF Row, FromPlan, Least
<1>5. PICK over : over = AtLeastZero(cost - part - row.payg)
  OBVIOUS
<1>6. over \in Nat /\ over >= cost - part - row.payg
  BY <1>4, <1>5 DEF AtLeastZero
<1>7. rows' \in [Requests -> Row] /\
      \A S \in SUBSET Requests :
        /\ Weight(S)' \in Int /\ Weight(S) \in Int /\ Weight(S)' <= Weight(S)
        /\ ShareIn(S)' = ShareIn(S) - (IF r \in S THEN row.plan ELSE 0)
        /\ UsedIn(S)' = UsedIn(S) + (IF r \in S THEN part ELSE 0)
        /\ HeldIn(S)' = HeldIn(S) - (IF r \in S THEN row.payg ELSE 0)
        /\ OverIn(S)' = OverIn(S) + (IF r \in S THEN over ELSE 0)
        /\ r \notin S \/ r \in missed' =>
             CostIn(S)' - ExcusedIn(S)' = CostIn(S) - ExcusedIn(S)
  <2>1. /\ cost \in Nat /\ Open(r) /\ (missed' = missed \/ missed' = missed \cup {r})
        /\ rows' = [rows EXCEPT ![r].status = "settled", ![r].cost = cost]
        /\ rows \in [Requests -> Row]
    BY <1>2, <1>3, <1>4
  <2>2. /\ rows' \in [Requests -> Row] /\ \A q \in Requests \ {r} : rows'[q] = rows[q]
        /\ rows'[r].status = "settled" /\ rows'[r].est = rows[r].est
        /\ rows'[r].plan = rows[r].plan /\ rows'[r].payg = rows[r].payg /\ rows'[r].cost = cost
    BY <2>1 DEF Row
  <2>3. ASSUME NEW S \in SUBSET Requests
        PROVE  /\ Weight(S)' \in Int /\ Weight(S) \in Int /\ Weight(S)' <= Weight(S)
               /\ ShareIn(S)' = ShareIn(S) - (IF r \in S THEN rows[r].plan ELSE 0)
               /\ UsedIn(S)' = UsedIn(S) + (IF r \in S THEN FromPlan(r, cost) ELSE 0)
               /\ HeldIn(S)' = HeldIn(S) - (IF r \in S THEN rows[r].payg ELSE 0)
               /\ OverIn(S)' = OverIn(S) + (IF r \in S
                    THEN AtLeastZero(cost - FromPlan(r, cost) - rows[r].payg) ELSE 0)
               /\ r \notin S \/ r \in missed' =>
                    CostIn(S)' - ExcusedIn(S)' = CostIn(S) - ExcusedIn(S)
    BY <2>1, <2>2, SettleMoves
  <2> QED
    BY <1>1, <1>5, <2>2, <2>3
<1>8. \A S \in SUBSET Requests :
        /\ ShareIn(S) \in Nat /\ UsedIn(S) \in Nat /\ HeldIn(S) \in Nat /\ OverIn(S) \in Nat
  BY <1>3, SumTypes
<1>9. CallsInv' /\ MemberInv' /\ DailyInv'
  <2>1. /\ rows'[r].status # "none" /\ rows'[r].est = rows[r].est
        /\ \A q \in Requests \ {r} : rows'[q] = rows[q]
    BY <1>2, <1>3 DEF Row
  <2>2. ASSUME NEW S \in SUBSET Requests
        PROVE  /\ TakenIn(S)' \in Int /\ TakenIn(S) \in Int /\ TakenIn(S)' <= TakenIn(S)
               /\ ShareIn(S)' \in Int /\ ShareIn(S) \in Int /\ ShareIn(S)' <= ShareIn(S)
    BY <1>4, <1>7, <1>8 DEF TakenIn
  <2>3. ASSUME NEW d \in Callers, calls[d].pc = "second", calls[d].scope \in Daily,
               NEW S \in SUBSET Requests, S = Within(calls[d].req, calls[d].scope)
        PROVE  CostIn(S)' - ExcusedIn(S)' = CostIn(S) - ExcusedIn(S)
    <3>1. r \in S => r \in missed'
      BY <2>3 DEF Settle, ReadsSpentFirst, Daily
    <3> QED
      BY <1>7, <3>1
  <2> QED
    BY <1>2, <1>7, <2>1, <2>2, <2>3, EndKeepsCalls
<1>10. /\ sub'.used = sub.used + part /\ sub'.reserved = sub.reserved - row.plan
       /\ sub'.active = sub.active
  BY <1>2, <1>3
<1>11. TypeOK'
  <2>1. sub' \in [active : BOOLEAN, used : Nat, reserved : Nat]
    <3>1. sub.used + part \in Nat /\ sub.reserved - row.plan \in Nat
      BY <1>2, <1>3, <1>4
    <3>2. sub' = [active |-> sub.active, used |-> sub.used + part,
                  reserved |-> sub.reserved - row.plan]
      BY <1>2, <1>3
    <3> QED
      BY <1>3, <3>1, <3>2
  <2>2. wallets' \in [Users -> [balance : Int, inFlight : Int]]
    BY <1>2, <1>3, <1>4
  <2> QED
    BY <1>2, <1>3, <1>7, <2>1, <2>2 DEF TypeOK
<1>12. RowsFit'
  BY <1>2, <1>3 DEF Books, RowsFit, Row
<1>13. QuotaInv'
  BY <1>3, <1>4, <1>7, <1>8, <1>10 DEF Books, QuotaInv, AdmissionAssumption
<1>14. WalletInv'
  <2> SUFFICES ASSUME NEW u \in Users
               PROVE  /\ wallets'[u].inFlight = HeldIn(Of(u))'
                      /\ Available(u)' >= 0 - OverIn(Of(u))'
    BY DEF WalletInv
  <2>1. /\ wallets[u].inFlight = HeldIn(Of(u)) /\ Available(u) >= 0 - OverIn(Of(u))
        /\ Available(u) \in Int /\ wallets[u].balance \in Int /\ wallets[u].inFlight \in Int
    BY <1>3 DEF Books, WalletInv, Available, AdmissionAssumption
  <2>2. /\ HeldIn(Of(u))' = HeldIn(Of(u)) - (IF User[r] = u THEN row.payg ELSE 0)
        /\ OverIn(Of(u))' = OverIn(Of(u)) + (IF User[r] = u THEN over ELSE 0)
        /\ OverIn(Of(u)) \in Nat /\ HeldIn(Of(u)) \in Nat
    BY <1>7, <1>8, OwnRequests
  <2>3. CASE User[r] = u
    <3>1. /\ wallets'[u].inFlight = wallets[u].inFlight - row.payg
          /\ wallets'[u].balance = wallets[u].balance - (cost - part)
      BY <1>2, <1>3, <2>3
    <3>2. Available(u)' = Available(u) - (cost - part) + row.payg
      BY <1>4, <2>1, <3>1 DEF Available, AdmissionAssumption
    <3>3. Available(u) - (cost - part) + row.payg >= 0 - (OverIn(Of(u)) + over)
      BY <1>4, <1>6, <2>1, <2>2
    <3> QED
      BY <2>1, <2>2, <2>3, <3>1, <3>2, <3>3
  <2>4. CASE User[r] # u
    <3>1. wallets'[u] = wallets[u]
      BY <1>2, <1>3, <2>4
    <3> QED
      BY <2>1, <2>2, <2>4, <3>1 DEF Available
  <2> QED
    BY <2>3, <2>4
<1> QED
  BY <1>9, <1>11, <1>12, <1>13, <1>14 DEF Inv, Books

(* A release keeps the books, and what every call in between knows.        *)
LEMMA ReleaseKeeps ==
  ASSUME AdmissionAssumption, Inv, NEW r \in Requests, Release(r)
  PROVE  Inv'
<1>1. PICK row : row = rows[r]
  OBVIOUS
<1>2. /\ Open(r) /\ UNCHANGED <<locks, calls, missed>>
      /\ rows' = [rows EXCEPT ![r].status = "released"]
      /\ sub' = [sub EXCEPT !.reserved = @ - row.plan]
      /\ wallets' = [wallets EXCEPT ![User[r]].inFlight = @ - row.payg]
      /\ row.plan > 0 => sub.reserved >= row.plan
  BY <1>1 DEF Release
<1>3. /\ rows \in [Requests -> Row] /\ Books /\ User[r] \in Users
      /\ sub \in [active : BOOLEAN, used : Nat, reserved : Nat]
      /\ wallets \in [Users -> [balance : Int, inFlight : Int]]
      /\ calls \in [Callers -> Calls] /\ missed \subseteq Requests
      /\ locks \in [Users -> Callers \cup {Free}]
  BY OwnRequests DEF Inv, TypeOK
<1>4. row.plan \in Nat /\ row.payg \in Nat
  BY <1>1, <1>3 DEF Row
<1>5. rows' \in [Requests -> Row] /\
      \A S \in SUBSET Requests :
        /\ Weight(S)' \in Int /\ Weight(S) \in Int /\ Weight(S)' <= Weight(S)
        /\ ShareIn(S)' = ShareIn(S) - (IF r \in S THEN row.plan ELSE 0)
        /\ UsedIn(S)' = UsedIn(S) /\ OverIn(S)' = OverIn(S)
        /\ HeldIn(S)' = HeldIn(S) - (IF r \in S THEN row.payg ELSE 0)
        /\ CostIn(S)' = CostIn(S) /\ ExcusedIn(S)' = ExcusedIn(S)
  BY <1>1, <1>2, <1>3, ReleaseMoves
<1>6. \A S \in SUBSET Requests :
        /\ ShareIn(S) \in Nat /\ UsedIn(S) \in Nat /\ HeldIn(S) \in Nat /\ OverIn(S) \in Nat
  BY <1>3, SumTypes
<1>7. CallsInv' /\ MemberInv' /\ DailyInv'
  <2>1. /\ rows'[r].status # "none" /\ rows'[r].est = rows[r].est
        /\ \A q \in Requests \ {r} : rows'[q] = rows[q]
    BY <1>2, <1>3 DEF Row
  <2>2. ASSUME NEW S \in SUBSET Requests
        PROVE  /\ TakenIn(S)' \in Int /\ TakenIn(S) \in Int /\ TakenIn(S)' <= TakenIn(S)
               /\ ShareIn(S)' \in Int /\ ShareIn(S) \in Int /\ ShareIn(S)' <= ShareIn(S)
    BY <1>4, <1>5, <1>6 DEF TakenIn
  <2>3. \A S \in SUBSET Requests : CostIn(S)' - ExcusedIn(S)' = CostIn(S) - ExcusedIn(S)
    BY <1>5
  <2> QED
    BY <1>2, <1>5, <2>1, <2>2, <2>3, EndKeepsCalls
<1>8. TypeOK'
  <2>1. sub' \in [active : BOOLEAN, used : Nat, reserved : Nat]
    BY <1>2, <1>3, <1>4
  <2>2. wallets' \in [Users -> [balance : Int, inFlight : Int]]
    BY <1>2, <1>3, <1>4
  <2> QED
    BY <1>2, <1>3, <1>5, <2>1, <2>2 DEF TypeOK
<1>9. RowsFit'
  BY <1>2, <1>3 DEF Books, RowsFit, Row
<1>10. QuotaInv'
  <2>1. sub'.used = sub.used /\ sub'.reserved = sub.reserved - row.plan
    BY <1>2, <1>3
  <2> QED
    BY <1>3, <1>4, <1>5, <1>6, <2>1 DEF Books, QuotaInv, AdmissionAssumption
<1>11. WalletInv'
  <2> SUFFICES ASSUME NEW u \in Users
               PROVE  /\ wallets'[u].inFlight = HeldIn(Of(u))'
                      /\ Available(u)' >= 0 - OverIn(Of(u))'
    BY DEF WalletInv
  <2>1. /\ wallets[u].inFlight = HeldIn(Of(u)) /\ Available(u) >= 0 - OverIn(Of(u))
        /\ Available(u) \in Int /\ wallets[u].balance \in Int /\ wallets[u].inFlight \in Int
    BY <1>3 DEF Books, WalletInv, Available, AdmissionAssumption
  <2>2. /\ HeldIn(Of(u))' = HeldIn(Of(u)) - (IF User[r] = u THEN row.payg ELSE 0)
        /\ OverIn(Of(u))' = OverIn(Of(u)) /\ OverIn(Of(u)) \in Nat /\ HeldIn(Of(u)) \in Nat
    BY <1>5, <1>6, OwnRequests
  <2>3. CASE User[r] = u
    <3>1. /\ wallets'[u].inFlight = wallets[u].inFlight - row.payg
          /\ wallets'[u].balance = wallets[u].balance
      BY <1>2, <1>3, <2>3
    <3>2. Available(u)' = Available(u) + row.payg
      BY <1>4, <2>1, <3>1 DEF Available, AdmissionAssumption
    <3> QED
      BY <1>4, <2>1, <2>2, <2>3, <3>1, <3>2
  <2>4. CASE User[r] # u
    <3>1. wallets'[u] = wallets[u]
      BY <1>2, <1>3, <2>4
    <3> QED
      BY <2>1, <2>2, <2>4, <3>1 DEF Available
  <2> QED
    BY <2>3, <2>4
<1> QED
  BY <1>7, <1>8, <1>9, <1>10, <1>11 DEF Inv, Books

(* A purchase leaves the holds covered: it spends what is in the wallet    *)
(* and not held.                                                           *)
LEMMA PurchaseKeeps ==
  ASSUME AdmissionAssumption, Inv, NEW u \in Users, NEW price \in Prices, Purchase(u, price)
  PROVE  Inv'
<1>1. /\ wallets[u].balance - wallets[u].inFlight >= price
      /\ wallets' = [wallets EXCEPT ![u].balance = @ - price]
      /\ rows' = rows /\ sub' = sub /\ locks' = locks /\ calls' = calls /\ missed' = missed
  BY DEF Purchase
<1>2. /\ price \in Nat /\ wallets \in [Users -> [balance : Int, inFlight : Int]] /\ WalletInv
      /\ rows \in [Requests -> Row]
  BY DEF AdmissionAssumption, Inv, TypeOK, Books
<1>3. TypeOK'
  BY <1>1, <1>2 DEF Inv, TypeOK
<1>4. \A S : Weight(S)' = Weight(S) /\ TakenIn(S)' = TakenIn(S)
  BY <1>1, SumsStay DEF Weight, TakenIn
<1>5. RowsFit' /\ MemberInv' /\ DailyInv'
  BY <1>1, <1>4 DEF Inv, Books, RowsFit, MemberInv, DailyInv
<1>6. QuotaInv'
  BY <1>1, SumsStay DEF Inv, Books, QuotaInv
<1>7. WalletInv'
  <2> SUFFICES ASSUME NEW v \in Users
               PROVE  /\ wallets'[v].inFlight = HeldIn(Of(v))'
                      /\ Available(v)' >= 0 - OverIn(Of(v))'
    BY DEF WalletInv
  <2>1. HeldIn(Of(v))' = HeldIn(Of(v)) /\ OverIn(Of(v))' = OverIn(Of(v))
    BY <1>1, SumsStay
  <2>2. wallets[v].inFlight = HeldIn(Of(v)) /\ Available(v) >= 0 - OverIn(Of(v))
    BY <1>2 DEF WalletInv
  <2>3. CASE v = u
    <3>1. OverIn(Of(v)) \in Nat
      BY <1>2, SumTypes DEF Of
    <3>2. /\ wallets'[v].inFlight = wallets[v].inFlight
          /\ wallets'[v].balance = wallets[v].balance - price
      BY <1>1, <1>2, <2>3
    <3>3. Available(v)' >= 0
      BY <1>1, <1>2, <2>3, <3>2 DEF Available, AdmissionAssumption
    <3>4. Available(v)' \in Int
      BY <1>2, <3>2 DEF Available, AdmissionAssumption
    <3> QED
      BY <2>1, <2>2, <3>1, <3>2, <3>3, <3>4
  <2>4. CASE v # u
    <3>1. wallets'[v] = wallets[v]
      BY <1>1, <1>2, <2>4
    <3> QED
      BY <2>1, <2>2, <3>1 DEF Available
  <2> QED
    BY <2>3, <2>4
<1>8. CallsInv'
  <2> SUFFICES ASSUME NEW d \in Callers PROVE Locked(d, calls[d])' /\ Fine(calls[d])'
    BY DEF CallsInv
  <2>1. PICK j : j = calls[d]
    OBVIOUS
  <2>2. Locked(d, j) /\ Fine(j)
    BY <2>1, OfCall
  <2>3. Fine(j)' /\ Locked(d, j)'
    BY <1>1, <2>2, FineStays DEF Locked
  <2> QED
    BY <1>1, <2>1, <2>3
<1> QED
  BY <1>3, <1>5, <1>6, <1>7, <1>8 DEF Inv, Books

(* A step that touches only the state of the subscription.                 *)
LEMMA EndsKeeps ==
  ASSUME AdmissionAssumption, Inv,
         sub' = sub \/ sub' = [sub EXCEPT !.active = FALSE],
         UNCHANGED <<rows, wallets, locks, calls, missed>>
  PROVE  Inv'
<1>1. TypeOK' /\ sub'.used = sub.used /\ sub'.reserved = sub.reserved
  BY DEF Inv, TypeOK
<1>2. \A S : Weight(S)' = Weight(S) /\ TakenIn(S)' = TakenIn(S)
  BY SumsStay DEF Weight, TakenIn
<1>3. RowsFit' /\ MemberInv' /\ DailyInv'
  BY <1>2 DEF Inv, Books, RowsFit, MemberInv, DailyInv
<1>4. QuotaInv'
  BY <1>1, SumsStay DEF Inv, Books, QuotaInv
<1>5. WalletInv'
  BY SumsStay DEF Inv, Books, WalletInv, Available
<1>6. CallsInv'
  <2> SUFFICES ASSUME NEW d \in Callers PROVE Locked(d, calls[d])' /\ Fine(calls[d])'
    BY DEF CallsInv
  <2>1. PICK j : j = calls[d]
    OBVIOUS
  <2>2. Locked(d, j) /\ Fine(j)
    BY <2>1, OfCall
  <2>3. Fine(j)' /\ Locked(d, j)'
    BY <2>2, FineStays DEF Locked
  <2> QED
    BY <2>1, <2>3
<1> QED
  BY <1>1, <1>3, <1>4, <1>5, <1>6 DEF Inv, Books

-----------------------------------------------------------------------------
(* Every step.                                                             *)

(* Nothing is added up before the first request.                           *)
LEMMA InitInv ==
  ASSUME AdmissionAssumption, Init
  PROVE  Inv
<1>1. /\ rows \in [Requests -> Row] /\ \A r \in Requests : rows[r] = NewRow
      /\ sub = [active |-> TRUE, used |-> 0, reserved |-> 0] /\ missed = {}
      /\ \A c \in Callers : calls[c] = IdleCall
      /\ \A u \in Users : wallets[u] = [balance |-> Deposit[u], inFlight |-> 0]
  BY DEF Init, Row, NewRow
<1>2. ASSUME NEW S \in SUBSET Requests
      PROVE  /\ CostIn(S) = 0 /\ EstIn(S) = 0 /\ ShareIn(S) = 0 /\ UsedIn(S) = 0
             /\ HeldIn(S) = 0 /\ OverIn(S) = 0 /\ ExcusedIn(S) = 0
  <2>1. IsFiniteSet(S)
    BY FS_Subset DEF AdmissionAssumption
  <2>2. \A q \in S :
          /\ Cost[q] = 0 /\ Est[q] = 0 /\ Share[q] = 0 /\ UsedUp[q] = 0
          /\ Held[q] = 0 /\ Over[q] = 0 /\ Pardon[q] = 0
    BY <1>1 DEF NewRow, Cost, CostOf, Est, EstOf, Share, ShareOf, UsedUp, UsedOf, Held, HeldOf,
                Over, OverOf, Pardon, ExcusedOf
  <2> QED
    BY <2>1, <2>2, SumZero DEF CostIn, EstIn, ShareIn, UsedIn, HeldIn, OverIn, ExcusedIn
<1>3. \A S \in SUBSET Requests : Weight(S) = 0 /\ TakenIn(S) = 0
  BY <1>2 DEF Weight, TakenIn
<1>4. TypeOK
  BY <1>1 DEF Init, TypeOK, Calls, AdmissionAssumption
<1>5. RowsFit
  BY <1>1 DEF RowsFit, NewRow
<1>6. QuotaInv
  BY <1>1, <1>2 DEF QuotaInv, AdmissionAssumption
<1>7. \A u : Of(u) \in SUBSET Requests
  BY DEF Of
<1>8. WalletInv
  <2> SUFFICES ASSUME NEW u \in Users
               PROVE  wallets[u].inFlight = HeldIn(Of(u)) /\ Available(u) >= 0 - OverIn(Of(u))
    BY DEF WalletInv
  <2>1. wallets[u] = [balance |-> Deposit[u], inFlight |-> 0]
    BY DEF Init
  <2>2. wallets[u].inFlight = 0 /\ wallets[u].balance = Deposit[u]
    BY <2>1
  <2>3. HeldIn(Of(u)) = 0 /\ OverIn(Of(u)) = 0
    BY <1>2, <1>7
  <2>4. Deposit[u] \in Nat /\ CreditLimit[u] \in Nat
    BY DEF AdmissionAssumption
  <2> QED
    BY <2>2, <2>3, <2>4 DEF Available
<1>9. MemberInv
  BY <1>3, <1>7 DEF MemberInv, AdmissionAssumption
<1>10. DailyInv
  <2> SUFFICES ASSUME NEW r \in Requests, NEW s \in Daily, Limit(r, s) # NoLimit
               PROVE  Weight(Within(r, s)) <= Limit(r, s)
    BY DEF DailyInv
  <2>1. Within(r, s) \in SUBSET Requests /\ Limit(r, s) \in Nat
    BY ScopeIsOfUser DEF Daily
  <2> QED
    BY <1>3, <2>1
<1>11. CallsInv
  <2> SUFFICES ASSUME NEW c \in Callers PROVE Locked(c, calls[c]) /\ Fine(calls[c])
    BY DEF CallsInv
  <2>1. calls[c].pc = "idle"
    BY <1>1 DEF IdleCall
  <2> QED
    BY <2>1, FineOutside DEF Locked, Inside, Past
<1> QED
  BY <1>4, <1>5, <1>6, <1>8, <1>9, <1>10, <1>11 DEF Inv, Books

(* Every step keeps the invariant.                                         *)
LEMMA StepInv ==
  ASSUME AdmissionAssumption, Inv, [Next]_vars
  PROVE  Inv'
<1>1. ASSUME NEW c \in Callers, NEW r \in Requests, NEW est \in Estimates, Call(c, r, est)
      PROVE  Inv'
  BY <1>1, CallIsStep, CallerStepKeeps
<1>2. ASSUME NEW c \in Callers, Enter(c) PROVE Inv'
  BY <1>2, EnterIsStep, CallerStepKeeps
<1>3. ASSUME NEW c \in Callers, HangUp(c) PROVE Inv'
  BY <1>3, HangUpIsStep, CallerStepKeeps
<1>4. ASSUME NEW c \in Callers, Proceed(c) PROVE Inv'
  <2>1. CASE Reread(c)
    BY <2>1, RereadIsStep, CallerStepKeeps
  <2>2. CASE ReadFirst(c)
    BY <2>2, ReadFirstIsStep, CallerStepKeeps
  <2>3. CASE CheckLimit(c)
    BY <2>3, CheckLimitIsStep, CallerStepKeeps
  <2>4. CASE Snapshot(c)
    BY <2>4, SnapshotIsStep, CallerStepKeeps
  <2>5. CASE CheckMember(c)
    BY <2>5, CheckMemberIsStep, CallerStepKeeps
  <2>6. CASE ProbeWallet(c)
    BY <2>6, ProbeWalletIsStep, CallerStepKeeps
  <2>7. CASE Commit(c) /\ ~Grants(c)
    BY <2>7, RefusedIsStep, CallerStepKeeps
  <2>8. CASE Commit(c) /\ Grants(c)
    BY <2>8, GrantKeeps
  <2> QED
    BY <1>4, <2>1, <2>2, <2>3, <2>4, <2>5, <2>6, <2>7, <2>8 DEF Proceed
<1>5. ASSUME NEW r \in Requests, Release(r) PROVE Inv'
  BY <1>5, ReleaseKeeps
<1>6. ASSUME NEW r \in Requests, NEW cost \in Costs, Settle(r, cost) PROVE Inv'
  BY <1>6, SettleKeeps
<1>7. ASSUME NEW u \in Users, NEW price \in Prices, Purchase(u, price) PROVE Inv'
  BY <1>7, PurchaseKeeps
<1>8. CASE SubscriptionEnds
  BY <1>8, EndsKeeps DEF SubscriptionEnds
<1>9. CASE UNCHANGED vars
  BY <1>9, EndsKeeps DEF vars
<1> QED
  BY <1>1, <1>2, <1>3, <1>4, <1>5, <1>6, <1>7, <1>8, <1>9 DEF Next

-----------------------------------------------------------------------------
(* What the invariant says of the books as they are stated.                *)

(* Sums over open or settled requests are sums of the terms.               *)
LEMMA BooksAreSums ==
  ASSUME AdmissionAssumption, rows \in [Requests -> Row], NEW S \in SUBSET Requests,
         NEW T \in SUBSET S
  PROVE  /\ T = {q \in S : Open(q)} =>
              /\ Shares(T) = ShareIn(S)
              /\ SumFunctionOnSet([q \in Requests |-> rows[q].payg], T) = HeldIn(S)
         /\ T = {q \in S : Settled(q)} =>
              /\ Used(T) = UsedIn(S)
              /\ SumFunctionOnSet([q \in Requests |-> Overage(q)], T) = OverIn(S)
              /\ SumFunctionOnSet([q \in Requests |-> Excused(q)], T) = ExcusedIn(S)
<1>0. IsFiniteSet(S)
  BY FS_Subset DEF AdmissionAssumption
<1>1. ASSUME NEW f, NEW e, \A q \in S : e[q] = IF q \in T THEN f[q] ELSE 0, e \in [Requests -> Nat]
      PROVE  SumFunctionOnSet(f, T) = SumFunctionOnSet(e, S)
  <2>1. \A q \in T : f[q] \in Int
    BY <1>1
  <2> QED
    BY <1>0, <1>1, <2>1, SumWhere
<1>2. ASSUME NEW q \in Requests
      PROVE  /\ rows[q].plan \in Nat /\ rows[q].payg \in Nat /\ rows[q].cost \in Nat
             /\ rows[q].est \in Nat
  BY DEF Row
<1>3. ASSUME T = {q \in S : Open(q)}
      PROVE  /\ Shares(T) = ShareIn(S)
             /\ SumFunctionOnSet([q \in Requests |-> rows[q].payg], T) = HeldIn(S)
  <2>1. PICK f, g : f = [q \in Requests |-> rows[q].plan] /\ g = [q \in Requests |-> rows[q].payg]
    OBVIOUS
  <2>2. ASSUME NEW q \in S
        PROVE  /\ Share[q] = IF q \in T THEN f[q] ELSE 0
               /\ Held[q] = IF q \in T THEN g[q] ELSE 0
    BY <1>3, <2>1 DEF Share, ShareOf, Held, HeldOf, Open
  <2>3. SumFunctionOnSet(f, T) = SumFunctionOnSet(Share, S)
    BY <1>1, <2>2, TermFunctions
  <2>4. SumFunctionOnSet(g, T) = SumFunctionOnSet(Held, S)
    BY <1>1, <2>2, TermFunctions
  <2> QED
    BY <2>1, <2>3, <2>4 DEF Shares, ShareIn, HeldIn
<1>4. ASSUME T = {q \in S : Settled(q)}
      PROVE  /\ Used(T) = UsedIn(S)
             /\ SumFunctionOnSet([q \in Requests |-> Overage(q)], T) = OverIn(S)
             /\ SumFunctionOnSet([q \in Requests |-> Excused(q)], T) = ExcusedIn(S)
  <2>1. PICK f, g, h :
          /\ f = [q \in Requests |-> FromPlan(q, rows[q].cost)]
          /\ g = [q \in Requests |-> Overage(q)] /\ h = [q \in Requests |-> Excused(q)]
    OBVIOUS
  <2>2. ASSUME NEW q \in S PROVE UsedUp[q] = IF q \in T THEN f[q] ELSE 0
    BY <1>4, <2>1 DEF UsedUp, UsedOf, FromPlan, Settled
  <2>3. ASSUME NEW q \in S PROVE Over[q] = IF q \in T THEN g[q] ELSE 0
    BY <1>4, <2>1 DEF Over, OverOf, Overage, FromPlan, Settled
  <2>4. ASSUME NEW q \in S PROVE Pardon[q] = IF q \in T THEN h[q] ELSE 0
    BY <1>4, <2>1 DEF Pardon, ExcusedOf, Excused, Settled
  <2>5. SumFunctionOnSet(f, T) = SumFunctionOnSet(UsedUp, S)
    BY <1>1, <2>2, TermFunctions
  <2>6. SumFunctionOnSet(g, T) = SumFunctionOnSet(Over, S)
    BY <1>1, <2>3, TermFunctions
  <2>7. SumFunctionOnSet(h, T) = SumFunctionOnSet(Pardon, S)
    BY <1>1, <2>4, TermFunctions
  <2> QED
    BY <2>1, <2>5, <2>6, <2>7 DEF Used, UsedIn, OverIn, ExcusedIn
<1> QED
  BY <1>3, <1>4

(* The books, stated over the rows as the runs state them.                 *)
LEMMA InvImpliesHolds ==
  ASSUME AdmissionAssumption, Inv
  PROVE  QuotaBooks /\ HoldsAreCovered /\ MemberStaysWithinShare
<1>1. rows \in [Requests -> Row] /\ Books
  BY DEF Inv, TypeOK
<1>2. QuotaBooks
  <2>1. /\ Shares({r \in Requests : Open(r)}) = ShareIn(Requests)
        /\ Used({r \in Requests : Settled(r)}) = UsedIn(Requests)
    BY <1>1, BooksAreSums
  <2> QED
    BY <1>1, <2>1 DEF Books, QuotaInv, QuotaBooks
<1>3. ASSUME NEW u
      PROVE  /\ Shares(OpenOf(u)) = ShareIn(Of(u))
             /\ SumFunctionOnSet([q \in Requests |-> rows[q].payg], OpenOf(u)) = HeldIn(Of(u))
             /\ Used(SettledOf(u)) = UsedIn(Of(u))
             /\ SumFunctionOnSet([q \in Requests |-> Overage(q)], SettledOf(u)) = OverIn(Of(u))
  <2>1. /\ Of(u) \in SUBSET Requests
        /\ OpenOf(u) = {q \in Of(u) : Open(q)} /\ SettledOf(u) = {q \in Of(u) : Settled(q)}
        /\ OpenOf(u) \in SUBSET Of(u) /\ SettledOf(u) \in SUBSET Of(u)
    BY DEF Of, OpenOf, SettledOf
  <2> QED
    BY <1>1, <2>1, BooksAreSums
<1>4. HoldsAreCovered
  BY <1>1, <1>3 DEF Books, WalletInv, HoldsAreCovered
<1>5. MemberStaysWithinShare
  BY <1>1, <1>3 DEF Books, MemberInv, TakenIn, MemberStaysWithinShare
<1> QED
  BY <1>2, <1>4, <1>5

(* The limits, stated over the rows as the runs state them.                *)
LEMMA InvImpliesLimits ==
  ASSUME AdmissionAssumption, Inv
  PROVE  LimitsAreShared
<1>1. rows \in [Requests -> Row] /\ Books
  BY DEF Inv, TypeOK
<1>2. DailyLimitsUpToRaces
  <2> SUFFICES ASSUME NEW r \in Requests, NEW s \in {"user", "key"}, Limit(r, s) # NoLimit
               PROVE  Spent(Within(r, s)) + Exposure(Within(r, s)) <=
                        Limit(r, s) + SumFunctionOnSet([q \in Requests |-> Excused(q)],
                                                       {q \in Within(r, s) : Settled(q)})
    BY DEF DailyLimitsUpToRaces
  <2>1. PICK S, T : S = Within(r, s) /\ T = {q \in S : Settled(q)}
    OBVIOUS
  <2>2. S \in SUBSET Requests /\ T \in SUBSET S /\ Limit(r, s) \in Nat
    BY <2>1, ScopeIsOfUser
  <2>3. /\ Spent(S) = CostIn(S) /\ Exposure(S) = EstIn(S)
        /\ SumFunctionOnSet([q \in Requests |-> Excused(q)], T) = ExcusedIn(S)
    BY <1>1, <2>1, <2>2, ReadsAreSums, BooksAreSums
  <2>4. Weight(S) <= Limit(r, s)
    BY <1>1, <2>1 DEF Books, DailyInv, Daily
  <2>5. CostIn(S) \in Nat /\ EstIn(S) \in Nat /\ ExcusedIn(S) \in Nat
    BY <1>1, <2>2, SumTypes
  <2>6. CostIn(S) + EstIn(S) <= Limit(r, s) + ExcusedIn(S)
    BY <2>2, <2>4, <2>5 DEF Weight
  <2> QED
    BY <2>1, <2>3, <2>6
<1>3. AnswersAgree
  <2> SUFFICES ASSUME NEW c \in Callers, calls[c].pc \in {"granted", "replayed"}
               PROVE  /\ rows[calls[c].req].status # "none"
                      /\ rows[calls[c].req].est = calls[c].est
    BY DEF AnswersAgree
  <2> QED
    BY OfCall DEF Fine, Told
<1> QED
  BY <1>2, <1>3 DEF LimitsAreShared

(* What an open request has reserved is there to be given back or used, so *)
(* that the guarded updates of a settlement and of a release go through.   *)
NothingIsRefused ==
  \A r \in Requests : Open(r) =>
    /\ sub.reserved >= rows[r].plan
    /\ \A cost \in Nat : QuotaAllows(rows[r].plan, FromPlan(r, cost))

(* What a row has of the subscription is part of what is reserved there,   *)
(* so neither ending is refused.                                           *)
LEMMA InvImpliesAllowed ==
  ASSUME AdmissionAssumption, Inv
  PROVE  NothingIsRefused
<1> SUFFICES ASSUME NEW r \in Requests, Open(r), NEW cost \in Nat
             PROVE  sub.reserved >= rows[r].plan /\ QuotaAllows(rows[r].plan, FromPlan(r, cost))
  BY DEF NothingIsRefused
<1>1. /\ rows \in [Requests -> Row] /\ QuotaInv /\ IsFiniteSet(Requests)
      /\ sub \in [active : BOOLEAN, used : Nat, reserved : Nat]
  BY DEF Inv, Books, TypeOK, AdmissionAssumption
<1>2. rows[r].plan \in Nat /\ Share[r] = rows[r].plan
  BY <1>1 DEF Row, Share, ShareOf, Open
<1>3. sub.reserved >= rows[r].plan
  <2>1. {r} \in SUBSET Requests /\ Share \in [Requests -> Nat]
    BY <1>1, TermFunctions
  <2>2. SumFunctionOnSet(Share, {r}) <= SumFunctionOnSet(Share, Requests)
    BY <1>1, <2>1, SumPartOfNat
  <2>3. SumFunctionOnSet(Share, {r}) = Share[r]
    BY <2>1, SumSingle
  <2> QED
    BY <1>1, <1>2, <2>2, <2>3 DEF QuotaInv, ShareIn
<1>4. FromPlan(r, cost) \in Nat /\ FromPlan(r, cost) <= rows[r].plan
  BY <1>2 DEF FromPlan, Least
<1>5. Quota \in Nat /\ sub.used + sub.reserved <= Quota
  BY <1>1 DEF QuotaInv, AdmissionAssumption
<1> QED
  BY <1>1, <1>2, <1>3, <1>4, <1>5 DEF QuotaAllows

-----------------------------------------------------------------------------
(* Theorems.                                                               *)

(* Types are kept, and with them the books and what every call knows.      *)
THEOREM AdmissionKeepsInv ==
  ASSUME AdmissionAssumption
  PROVE  Spec => []Inv
<1>1. Init => Inv
  BY InitInv
<1>2. Inv /\ [Next]_vars => Inv'
  BY StepInv
<1> QED
  BY <1>1, <1>2, PTL DEF Spec

(* The subscription is never promised twice, a member stays within his     *)
(* share, and what wallets hold is covered by balance and credit line up   *)
(* to what settlements charged beyond the shares: whatever the probes saw, *)
(* whoever asked at the same time, and whenever the subscription ended.    *)
THEOREM SharesStayCovered ==
  ASSUME AdmissionAssumption
  PROVE  Spec => []SharesAreCovered
<1>1. Inv => SharesAreCovered
  BY InvImpliesHolds DEF Inv, SharesAreCovered
<1> QED
  BY <1>1, AdmissionKeepsInv, PTL

(* The daily limits of users and keys hold up to what was charged beyond   *)
(* the estimates and to the requests that settled between the two reads of *)
(* a check; and a replay answers for the amount that was asked for.        *)
THEOREM LimitsStayShared ==
  ASSUME AdmissionAssumption
  PROVE  Spec => []LimitsAreShared
<1>1. Inv => LimitsAreShared
  BY InvImpliesLimits
<1> QED
  BY <1>1, AdmissionKeepsInv, PTL

(* No settlement and no release is ever refused by the subscription.       *)
THEOREM EndingsAreAllowed ==
  ASSUME AdmissionAssumption
  PROVE  Spec => []NothingIsRefused
<1>1. Inv => NothingIsRefused
  BY InvImpliesAllowed
<1> QED
  BY <1>1, AdmissionKeepsInv, PTL
=============================================================================
