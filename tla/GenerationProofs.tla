-------------------------- MODULE GenerationProofs --------------------------
(***************************************************************************)
(* Nobody gets a product uncharged, nobody is charged for none, and what   *)
(* was decided stays, for any number of tasks and of rounds that overlap   *)
(* and die.  A round keeps between its steps only what cannot be undone by *)
(* another: that a row exists or has ended, that the product is made, that *)
(* a receipt was accepted (Forward); so what it knows stays true, and the  *)
(* rest is said of each task for itself (TaskOK).                          *)
(***************************************************************************)
EXTENDS Generation, FiniteSetTheorems, NaturalsInduction, WellFoundedInduction, TLAPS

(* The row follows the submission, a receipt says that there is a product, *)
(* and a submission loses its reservation only when the lease has run out. *)
TaskOK(t) ==
  /\ submits[t] = "new" => bills[t].status = "none"
  /\ submits[t] # "over" => tasks[t].status = "none"
  /\ submits[t] \in {"new", "authorized", "submitting"} => upstream[t] = "nothing"
  /\ t \in Polled /\ (submits[t] = "inserting" \/ tasks[t].status # "none")
       => upstream[t] # "nothing"
  /\ bills[t].status \in Uncharged => bills[t].receipt = NoReceipt
  /\ bills[t].status \in Due \cup {"settled"} => bills[t].receipt # NoReceipt
  /\ bills[t].receipt # NoReceipt => upstream[t] = "made"
  /\ tasks[t].status = "succeeded" => bills[t].receipt # NoReceipt
  /\ submits[t] \in {"submitting", "inserting"} =>
       \/ bills[t].status = "in_flight"
       \/ /\ bills[t].status = "released" /\ bills[t].lease <= now
          /\ bills[t].receipt = NoReceipt

Succeeding == {"succeeded", "charge", "finish"}
Driving == Succeeding \cup {"error", "running", "failed", "release"}

(* What a round has seen of the tasks it holds.                            *)
RoundOK(w) ==
  /\ \A t \in rounds[w].todo : tasks[t].status # "none"
  /\ rounds[w].pc = "expired" => \A t \in rounds[w].todo : tasks[t].status \in Ended
  /\ rounds[w].pc = "tasks" => rounds[w].todo \subseteq Polled
  /\ rounds[w].pc = "execute" => rounds[w].todo \cap Polled = {}
  /\ rounds[w].pc \in Driving => rounds[w].task # NoTask /\ tasks[rounds[w].task].status # "none"
  /\ rounds[w].pc \in Driving =>
       IF rounds[w].task \in Polled THEN rounds[w].todo \subseteq Polled
       ELSE rounds[w].todo \cap Polled = {}
  /\ rounds[w].pc \in Succeeding => upstream[rounds[w].task] = "made"
  /\ rounds[w].pc = "finish" => bills[rounds[w].task].receipt # NoReceipt
  /\ rounds[w].pc = "release" => tasks[rounds[w].task].status \in Ended

GInv == TypeOK /\ (\A t \in Tasks : TaskOK(t)) /\ (\A w \in Rounds : RoundOK(w))

(* What no step undoes.                                                    *)
ForwardAt(t) ==
  /\ tasks[t].status # "none" => tasks'[t].status # "none"
  /\ tasks[t].status \in Ended => tasks'[t] = tasks[t]
  /\ upstream[t] = "made" => upstream'[t] = "made"
  /\ bills[t].receipt # NoReceipt => bills'[t].receipt = bills[t].receipt
Forward == \A t \in Tasks : ForwardAt(t)

-----------------------------------------------------------------------------
(* The operators.                                                          *)

LEMMA MinIs == ASSUME NEW x \in Int, NEW y \in Int PROVE Min({x, y}) = IF x <= y THEN x ELSE y
<1> DEFINE Least(m) == m \in {x, y} /\ \A z \in {x, y} : m <= z
<1>1. Min({x, y}) = CHOOSE m : Least(m) BY DEF Min
<1>2. Least(IF x <= y THEN x ELSE y) OBVIOUS
<1>3. Least(Min({x, y}))
  <2> HIDE DEF Least
  <2> QED BY <1>1, <1>2
<1> QED BY <1>3

LEMMA UntilIs ==
  ASSUME GenerationAssumption, NEW x \in Int
  PROVE  Until(x) = IF x <= MaxTime THEN x ELSE MaxTime
BY MinIs DEF Until, GenerationAssumption

(* A bounded set of numbers that is not empty has its largest in it.       *)
LEMMA MaxIsIn == ASSUME NEW n \in Nat, NEW S \in SUBSET (0 .. n), S # {} PROVE Max(S) \in S
<1> DEFINE T == {k \in Nat : n - k \in S}
<1> DEFINE Most(m) == m \in S /\ \A z \in S : m >= z
<1>1. T \subseteq Nat /\ T # {}
  <2>1. PICK x \in S : TRUE OBVIOUS
  <2>2. x \in 0 .. n /\ n - x \in Nat /\ n - (n - x) = x BY <2>1
  <2>3. n - x \in T BY <2>2
  <2> QED BY <2>3
<1>2. \E x \in T : \A y \in T : ~(<<y, x>> \in OpToRel(<, Nat))
  BY <1>1, NatLessThanWellFounded, WFMin, Zenon
<1>3. PICK x \in T : \A y \in T : ~(y < x) BY <1>1, <1>2 DEF OpToRel
<1>4. n - x \in S /\ x \in Nat OBVIOUS
<1>5. Most(n - x)
  <2> SUFFICES ASSUME NEW z \in S PROVE n - x >= z BY <1>4
  <2>1. z \in 0 .. n /\ n - z \in Nat /\ n - (n - z) = z OBVIOUS
  <2>2. n - z \in T BY <2>1
  <2>3. ~(n - z < x) BY <1>3, <2>2
  <2> QED BY <1>4, <2>1, <2>3
<1>6. Max(S) = CHOOSE k : Most(k) BY DEF Max
<1>7. Most(Max(S))
  <2> HIDE DEF Most
  <2> QED BY <1>5, <1>6
<1> QED BY <1>7

RoundRow ==
  [pc : {"idle", "expired", "tasks", "error", "running", "failed", "release",
         "succeeded", "charge", "finish", "polled", "execute"},
   todo : SUBSET Tasks, task : Tasks \cup {NoTask}, page : 0 .. MaxTime, owes : SUBSET Polled]

LEMMA CursorIsATime ==
  ASSUME GenerationAssumption, TypeOK, NEW page \in SUBSET Tasks
  PROVE  NextCursor(page) \in 0 .. MaxTime
<1>1. \A t \in Tasks : tasks[t].created \in 0 .. MaxTime BY DEF TypeOK, Row
<1>2. CASE page = {}
  <2>1. Cardinality(page) = 0 BY <1>2, FS_EmptySet
  <2> QED BY <2>1 DEF NextCursor, GenerationAssumption
<1>3. CASE page # {}
  <2> DEFINE S == {tasks[t].created : t \in page}
  <2>1. S \in SUBSET (0 .. MaxTime) /\ S # {} BY <1>1, <1>3
  <2>2. Max(S) \in S BY <2>1, MaxIsIn DEF GenerationAssumption
  <2> QED BY <2>1, <2>2 DEF NextCursor, GenerationAssumption
<1> QED BY <1>2, <1>3

-----------------------------------------------------------------------------
(* What is kept when something else changes.                               *)

LEMMA RoundStays ==
  ASSUME TypeOK, Forward, NEW w \in Rounds, RoundOK(w), rounds'[w] = rounds[w]
  PROVE  RoundOK(w)'
<1>1. rounds[w].todo \subseteq Tasks /\ rounds[w].task \in Tasks \cup {NoTask} BY DEF TypeOK
<1> QED BY <1>1 DEF RoundOK, Forward, ForwardAt, Driving, Succeeding

SameTask(t) ==
  tasks'[t] = tasks[t] /\ bills'[t] = bills[t] /\ submits'[t] = submits[t]
  /\ upstream'[t] = upstream[t]

LEMMA TaskStays ==
  ASSUME NEW t \in Tasks, TaskOK(t), SameTask(t), now' = now
  PROVE  TaskOK(t)' /\ ForwardAt(t)
BY DEF TaskOK, SameTask, ForwardAt

(* A step of one task beside the rounds.                                   *)
LEMMA OneTask ==
  ASSUME GInv, NEW t \in Tasks, \A x \in Tasks \ {t} : SameTask(x), now' = now,
         rounds' = rounds, TypeOK', TaskOK(t)', ForwardAt(t)
  PROVE  GInv' /\ Forward
<1>1. \A x \in Tasks : TaskOK(x)' /\ ForwardAt(x) BY TaskStays DEF GInv
<1>2. Forward BY <1>1 DEF Forward
<1>3. \A w \in Rounds : RoundOK(w)' BY <1>2, RoundStays DEF GInv
<1> QED BY <1>1, <1>2, <1>3 DEF GInv

(* A step of a round, at one task or none.                                 *)
LEMMA OneRound ==
  ASSUME GInv, NEW w \in Rounds, NEW t \in Tasks \cup {NoTask},
         \A x \in Tasks \ {t} : SameTask(x), now' = now,
         \A v \in Rounds \ {w} : rounds'[v] = rounds[v],
         TypeOK', t \in Tasks => TaskOK(t)' /\ ForwardAt(t), RoundOK(w)'
  PROVE  GInv' /\ Forward
<1>1. \A x \in Tasks : TaskOK(x)' /\ ForwardAt(x) BY TaskStays DEF GInv
<1>2. Forward BY <1>1 DEF Forward
<1>3. \A v \in Rounds : RoundOK(v)' BY <1>2, RoundStays DEF GInv
<1> QED BY <1>1, <1>2, <1>3 DEF GInv

LEMMA RoundMoves ==
  ASSUME TypeOK, NEW w \in Rounds, NEW next \in RoundRow, rounds' = [rounds EXCEPT ![w] = next]
  PROVE  /\ rounds' \in [Rounds -> RoundRow] /\ rounds'[w] = next
         /\ \A v \in Rounds \ {w} : rounds'[v] = rounds[v]
BY DEF TypeOK, RoundRow

LEMMA RoundParts ==
  ASSUME TypeOK, NEW w \in Rounds
  PROVE  /\ rounds \in [Rounds -> RoundRow] /\ rounds[w] \in RoundRow
         /\ rounds[w].todo \subseteq Tasks /\ rounds[w].task \in Tasks \cup {NoTask}
BY DEF TypeOK, RoundRow

(* What a signal may make of a bill.                                       *)
LEMMA ReleasedIs ==
  ASSUME TypeOK, NEW t \in Tasks, bills' \in {Released(t), bills}
  PROVE  /\ bills' \in [Tasks -> Bill] /\ \A x \in Tasks \ {t} : bills'[x] = bills[x]
         /\ bills'[t].receipt = bills[t].receipt /\ bills'[t].lease = bills[t].lease
         /\ \/ bills'[t].status = bills[t].status
            \/ bills'[t].status = "released" /\ bills[t].status \in {"authorized", "in_flight"}
BY DEF TypeOK, Bill, Released, Uncharged, Due

LEMMA RenewedIs ==
  ASSUME GenerationAssumption, TypeOK, NEW t \in Tasks, bills' \in {Renewed(t, LeaseUntil(t)), bills}
  PROVE  /\ bills' \in [Tasks -> Bill] /\ \A x \in Tasks \ {t} : bills'[x] = bills[x]
         /\ bills'[t].receipt = bills[t].receipt /\ bills'[t].status = bills[t].status
         /\ bills'[t].lease = bills[t].lease \/ tasks[t].expires <= bills'[t].lease
<1>1. tasks[t].expires \in 0 .. MaxTime /\ now \in 1 .. MaxTime BY DEF TypeOK, Row
<1>2. LeaseUntil(t) \in Nat /\ tasks[t].expires <= LeaseUntil(t)
  BY <1>1 DEF LeaseUntil, Larger, GenerationAssumption
<1>3. Until(LeaseUntil(t)) \in 0 .. MaxTime /\ tasks[t].expires <= Until(LeaseUntil(t))
  BY <1>1, <1>2, UntilIs DEF GenerationAssumption
<1> DEFINE l == Until(LeaseUntil(t))
<1> HIDE DEF l
<1>4. bills' \in {IF bills[t].status = "in_flight" THEN [bills EXCEPT ![t].lease = l] ELSE bills,
                  bills}
  BY DEF Renewed, l
<1>5. l \in 0 .. MaxTime /\ tasks[t].expires <= l BY <1>3 DEF l
<1> QED BY <1>4, <1>5 DEF TypeOK, Bill

LEMMA AcceptedIs ==
  ASSUME TypeOK, NEW t \in Tasks, bills' \in {Accepted(t), bills}
  PROVE  /\ bills' \in [Tasks -> Bill] /\ \A x \in Tasks \ {t} : bills'[x] = bills[x]
         /\ bills'[t].lease = bills[t].lease
         /\ \/ bills'[t] = bills[t]
            \/ /\ Accepts(t) /\ bills'[t].status = "settlement_pending" /\ bills'[t].receipt = now
BY DEF TypeOK, Bill, Accepted, Accepts, Uncharged, Due

-----------------------------------------------------------------------------
LEMMA InitGInv == ASSUME GenerationAssumption, Init PROVE GInv
<1> USE DEF Init, IdleRound
<1>1. TypeOK
  <2>1. now \in 1 .. MaxTime BY DEF GenerationAssumption
  <2>2. tasks \in [Tasks -> Row] BY DEF Row, Active, Ended, GenerationAssumption
  <2>3. bills \in [Tasks -> Bill] BY DEF Bill, Uncharged, Due, GenerationAssumption
  <2>4. rounds \in [Rounds -> RoundRow] BY DEF RoundRow, GenerationAssumption
  <2> QED BY <2>1, <2>2, <2>3, <2>4 DEF TypeOK, RoundRow
<1>2. \A t \in Tasks : TaskOK(t) BY DEF TaskOK, Uncharged, Due, Active
<1>3. \A w \in Rounds : RoundOK(w) BY DEF RoundOK, Driving, Succeeding
<1> QED BY <1>1, <1>2, <1>3 DEF GInv

(* The steps of the gateway.                                               *)
LEMMA GatewayStep ==
  ASSUME GenerationAssumption, GInv, NEW t \in Tasks, Gateway(t) PROVE GInv' /\ Forward
<1>1. TypeOK /\ TaskOK(t) /\ now \in 1 .. MaxTime /\ tasks[t] \in Row /\ bills[t] \in Bill
  BY DEF GInv, TypeOK
<1> DEFINE u == Until(now + TTL + Grace)
<1>2. u \in 0 .. MaxTime /\ (now + TTL + Grace <= MaxTime => u = now + TTL + Grace)
  BY <1>1, UntilIs DEF GenerationAssumption
<1> HIDE DEF u
<1>3. CASE Authorize(t)
  <2>1. /\ submits[t] = "new" /\ submits' = [submits EXCEPT ![t] = "authorized"]
        /\ bills' = [bills EXCEPT ![t].status = "authorized", ![t].lease = u]
        /\ UNCHANGED <<now, tasks, upstream, rounds>>
    BY <1>3 DEF Authorize, u
  <2>2. bills' \in [Tasks -> Bill] BY <1>1, <1>2, <2>1 DEF TypeOK, Bill, Uncharged
  <2>3. TypeOK' BY <1>1, <2>1, <2>2 DEF TypeOK
  <2>4. \A x \in Tasks \ {t} : SameTask(x) BY <1>1, <2>1 DEF SameTask, TypeOK
  <2>5. bills'[t].status = "authorized" /\ bills'[t].receipt = bills[t].receipt
    BY <1>1, <2>1 DEF TypeOK, Bill
  <2>6. submits'[t] = "authorized" BY <1>1, <2>1 DEF TypeOK
  <2>7. TaskOK(t)' BY <1>1, <2>1, <2>5, <2>6 DEF TaskOK, Uncharged, Due, Active
  <2>8. ForwardAt(t) BY <2>1, <2>5 DEF ForwardAt
  <2> QED BY <2>1, <2>3, <2>4, <2>7, <2>8, OneTask
<1>4. CASE Start(t)
  <2>1. /\ submits[t] = "authorized" /\ bills[t].status = "authorized"
        /\ now + TTL + Grace <= MaxTime
        /\ submits' = [submits EXCEPT ![t] = IF t \in Polled THEN "submitting" ELSE "inserting"]
        /\ bills' = [bills EXCEPT ![t].status = "in_flight", ![t].lease = u]
        /\ UNCHANGED <<now, tasks, upstream, rounds>>
    BY <1>4 DEF Start, u
  <2>2. bills' \in [Tasks -> Bill] BY <1>1, <1>2, <2>1 DEF TypeOK, Bill, Uncharged
  <2>3. TypeOK' BY <1>1, <2>1, <2>2 DEF TypeOK
  <2>4. \A x \in Tasks \ {t} : SameTask(x) BY <1>1, <2>1 DEF SameTask, TypeOK
  <2>5. bills'[t].status = "in_flight" /\ bills'[t].receipt = bills[t].receipt
        /\ bills'[t].lease = now + TTL + Grace
    BY <1>1, <1>2, <2>1 DEF TypeOK, Bill
  <2>6. submits'[t] = IF t \in Polled THEN "submitting" ELSE "inserting"
    BY <1>1, <2>1 DEF TypeOK
  <2>7. TaskOK(t)' BY <1>1, <2>1, <2>5, <2>6 DEF TaskOK, Uncharged, Due, Active
  <2>8. ForwardAt(t) BY <2>1, <2>5 DEF ForwardAt
  <2> QED BY <2>1, <2>3, <2>4, <2>7, <2>8, OneTask
<1>5. CASE Submit(t)
  <2>1. submits[t] = "submitting" /\ tasks[t].status = "none" /\ upstream[t] = "nothing"
        /\ UNCHANGED <<now, tasks, rounds>>
    BY <1>1, <1>5 DEF Submit, TaskOK
  <2>2. CASE /\ submits' = [submits EXCEPT ![t] = "inserting"]
             /\ upstream' = [upstream EXCEPT ![t] = "working"] /\ UNCHANGED bills
    <3>1. TypeOK' BY <1>1, <2>1, <2>2 DEF TypeOK
    <3>2. \A x \in Tasks \ {t} : SameTask(x) BY <2>1, <2>2 DEF SameTask
    <3>3. submits'[t] = "inserting" /\ upstream'[t] = "working" BY <1>1, <2>2 DEF TypeOK
    <3>4. TaskOK(t)' BY <1>1, <2>1, <2>2, <3>3 DEF TaskOK
    <3>5. ForwardAt(t) BY <2>1, <2>2, <3>3 DEF ForwardAt
    <3> QED BY <2>1, <3>1, <3>2, <3>4, <3>5, OneTask
  <2>3. CASE /\ submits' = [submits EXCEPT ![t] = "over"]
             /\ bills' = Released(t) /\ UNCHANGED upstream
    <3>1. /\ bills' \in [Tasks -> Bill] /\ \A x \in Tasks \ {t} : bills'[x] = bills[x]
          /\ bills'[t].receipt = bills[t].receipt /\ bills'[t].lease = bills[t].lease
          /\ \/ bills'[t].status = bills[t].status
             \/ bills'[t].status = "released" /\ bills[t].status \in {"authorized", "in_flight"}
      BY <1>1, <2>3, ReleasedIs
    <3>2. TypeOK' BY <1>1, <2>1, <2>3, <3>1 DEF TypeOK
    <3>3. \A x \in Tasks \ {t} : SameTask(x) BY <2>1, <2>3, <3>1 DEF SameTask
    <3>4. submits'[t] = "over" BY <1>1, <2>3 DEF TypeOK
    <3>5. TaskOK(t)' BY <1>1, <2>1, <2>3, <3>1, <3>4 DEF TaskOK, Uncharged, Due, Active
    <3>6. ForwardAt(t) BY <2>1, <2>3, <3>1 DEF ForwardAt
    <3> QED BY <2>1, <3>2, <3>3, <3>5, <3>6, OneTask
  <2> QED BY <1>5, <2>2, <2>3 DEF Submit
<1>6. CASE Insert(t)
  <2>1. /\ submits[t] = "inserting" /\ submits' = [submits EXCEPT ![t] = "over"]
        /\ tasks' = [tasks EXCEPT ![t] = [status |-> "queued", created |-> now, expires |-> now + TTL]]
        /\ now + TTL <= MaxTime /\ UNCHANGED <<now, bills, upstream, rounds>>
    BY <1>6 DEF Insert
  <2>2. tasks[t].status = "none"
    BY <1>1, <2>1 DEF TaskOK
  <2>4. now + TTL \in 0 .. MaxTime
    BY <1>1, <2>1 DEF GenerationAssumption
  <2>5. tasks' \in [Tasks -> Row] BY <1>1, <2>1, <2>4 DEF TypeOK, Row, Active
  <2>6. TypeOK' BY <1>1, <2>1, <2>5 DEF TypeOK
  <2>7. \A x \in Tasks \ {t} : SameTask(x) BY <2>1 DEF SameTask
  <2>8. /\ submits'[t] = "over" /\ tasks'[t].status = "queued" /\ tasks'[t].expires = now + TTL
    BY <1>1, <2>1 DEF TypeOK
  <2>9. TaskOK(t)' BY <1>1, <2>1, <2>2, <2>4, <2>8 DEF TaskOK, Active
  <2>10. ForwardAt(t) BY <2>1, <2>2, <2>8 DEF ForwardAt, Ended
  <2> QED BY <2>1, <2>6, <2>7, <2>9, <2>10, OneTask
<1>7. CASE SubmitEnds(t)
  <2>1. /\ submits[t] \in {"authorized", "submitting", "inserting"}
        /\ submits' = [submits EXCEPT ![t] = "over"]
        /\ UNCHANGED <<now, tasks, bills, upstream, rounds>>
    BY <1>7 DEF SubmitEnds
  <2>2. TypeOK' BY <1>1, <2>1 DEF TypeOK
  <2>3. \A x \in Tasks \ {t} : SameTask(x) BY <2>1 DEF SameTask
  <2>4. submits'[t] = "over" BY <1>1, <2>1 DEF TypeOK
  <2>5. TaskOK(t)' BY <1>1, <2>1, <2>4 DEF TaskOK
  <2>6. ForwardAt(t) BY <2>1 DEF ForwardAt
  <2> QED BY <2>1, <2>2, <2>3, <2>5, <2>6, OneTask
<1> QED BY <1>3, <1>4, <1>5, <1>6, <1>7 DEF Gateway

(* The provider, the ledger and recovery.                                  *)
LEMMA OutsideStep ==
  ASSUME GenerationAssumption, GInv, NEW t \in Tasks,
         ProviderEnds(t) \/ LedgerMoves(t) \/ Recover(t)
  PROVE  GInv' /\ Forward
<1>1. TypeOK /\ TaskOK(t) /\ now \in 1 .. MaxTime /\ tasks[t] \in Row /\ bills[t] \in Bill
  BY DEF GInv, TypeOK
<1>2. CASE ProviderEnds(t)
  <2>1. PICK s \in {"made", "broken"} :
          /\ upstream[t] = "working" /\ upstream' = [upstream EXCEPT ![t] = s]
          /\ UNCHANGED <<now, tasks, bills, submits, rounds>>
    BY <1>2 DEF ProviderEnds
  <2>2. TypeOK' BY <1>1, <2>1 DEF TypeOK
  <2>3. \A x \in Tasks \ {t} : SameTask(x) BY <1>1, <2>1 DEF SameTask, TypeOK
  <2>4. upstream'[t] = s BY <1>1, <2>1 DEF TypeOK
  <2>5. TaskOK(t)' BY <1>1, <2>1, <2>4 DEF TaskOK
  <2>6. ForwardAt(t) BY <2>1 DEF ForwardAt
  <2> QED BY <2>1, <2>2, <2>3, <2>5, <2>6, OneTask
<1>3. CASE LedgerMoves(t)
  <2>1. PICK s \in {"processing", "settled", "retry_wait", "dead", "released"} :
          /\ bills' = [bills EXCEPT ![t].status = s] /\ bills[t].status \in Due
          /\ UNCHANGED <<now, tasks, submits, upstream, rounds>>
    BY <1>3 DEF LedgerMoves, Due
  <2>2. bills' \in [Tasks -> Bill] BY <1>1, <2>1 DEF TypeOK, Bill, Due
  <2>3. TypeOK' BY <1>1, <2>1, <2>2 DEF TypeOK
  <2>4. \A x \in Tasks \ {t} : SameTask(x) BY <1>1, <2>1 DEF SameTask, TypeOK
  <2>5. bills'[t].status = s /\ bills'[t].receipt = bills[t].receipt
        /\ bills'[t].lease = bills[t].lease
    BY <1>1, <2>1 DEF TypeOK, Bill
  <2>6. bills[t].receipt # NoReceipt /\ submits[t] \notin {"new", "submitting", "inserting"}
    BY <1>1, <2>1 DEF TaskOK, Due
  <2>7. TaskOK(t)' BY <1>1, <2>1, <2>5, <2>6 DEF TaskOK, Uncharged, Due, Active
  <2>8. ForwardAt(t) BY <2>1, <2>5 DEF ForwardAt
  <2> QED BY <2>1, <2>3, <2>4, <2>7, <2>8, OneTask
<1>4. CASE Recover(t)
  <2>1. /\ bills[t].status \in {"authorized", "in_flight"} /\ bills[t].lease <= now
        /\ bills' = [bills EXCEPT ![t].status = "released"]
        /\ UNCHANGED <<now, tasks, submits, upstream, rounds>>
    BY <1>4 DEF Recover
  <2>2. bills' \in [Tasks -> Bill] BY <1>1, <2>1 DEF TypeOK, Bill
  <2>3. TypeOK' BY <1>1, <2>1, <2>2 DEF TypeOK
  <2>4. \A x \in Tasks \ {t} : SameTask(x) BY <1>1, <2>1 DEF SameTask, TypeOK
  <2>5. bills'[t].status = "released" /\ bills'[t].receipt = bills[t].receipt
        /\ bills'[t].lease = bills[t].lease
    BY <1>1, <2>1 DEF TypeOK, Bill
  <2>6. submits[t] # "new" /\ bills[t].receipt = NoReceipt
    BY <1>1, <2>1 DEF TaskOK, Uncharged
  <2>7. TaskOK(t)' BY <1>1, <2>1, <2>5, <2>6 DEF TaskOK, Uncharged, Due
  <2>8. ForwardAt(t) BY <2>1, <2>5 DEF ForwardAt
  <2> QED BY <2>1, <2>3, <2>4, <2>7, <2>8, OneTask
<1> QED BY <1>2, <1>3, <1>4

LEMMA TickStep ==
  ASSUME GenerationAssumption, GInv, Tick PROVE GInv' /\ Forward
<1>1. TypeOK /\ now \in 1 .. MaxTime /\ now < MaxTime /\ now' = now + 1
      /\ UNCHANGED <<tasks, bills, submits, upstream, rounds>>
  BY DEF GInv, TypeOK, Tick
<1>2. TypeOK'
  <2>1. now' \in 1 .. MaxTime BY <1>1 DEF GenerationAssumption
  <2> QED BY <1>1, <2>1 DEF TypeOK
<1>3. Forward BY <1>1 DEF Forward, ForwardAt
<1>4. ASSUME NEW t \in Tasks PROVE TaskOK(t)'
  <2>1. TaskOK(t) BY DEF GInv
  <2>2. bills[t].lease \in Int BY <1>1 DEF TypeOK, Bill, GenerationAssumption
  <2>3. bills[t].lease <= now => bills[t].lease <= now' BY <1>1, <2>2 DEF GenerationAssumption
  <2> QED BY <1>1, <2>1, <2>3 DEF TaskOK
<1>5. \A w \in Rounds : RoundOK(w)' BY <1>1, <1>3, RoundStays DEF GInv
<1> QED BY <1>2, <1>3, <1>4, <1>5 DEF GInv

-----------------------------------------------------------------------------
(* The steps of a round.                                                   *)

(* One that changes nothing but what the round knows.                      *)
LEMMA RoundOnly ==
  ASSUME GenerationAssumption, GInv, NEW w \in Rounds, NEW next \in RoundRow,
         rounds' = [rounds EXCEPT ![w] = next], UNCHANGED <<now, tasks, bills, submits, upstream>>,
         RoundOK(w)'
  PROVE  GInv' /\ Forward
<1>1. TypeOK BY DEF GInv
<1>2. /\ rounds' \in [Rounds -> RoundRow] /\ \A v \in Rounds \ {w} : rounds'[v] = rounds[v]
  BY <1>1, RoundMoves
<1>3. TypeOK' BY <1>1, <1>2 DEF TypeOK, RoundRow
<1>4. \A x \in Tasks : SameTask(x) BY DEF SameTask
<1>5. NoTask \notin Tasks BY DEF GenerationAssumption
<1> QED BY <1>2, <1>3, <1>4, <1>5, OneRound

LEMMA OverStep ==
  ASSUME GenerationAssumption, GInv, NEW w \in Rounds, EndRound(w) \/ Die(w)
  PROVE  GInv' /\ Forward
<1>1. rounds' = [rounds EXCEPT ![w] = IdleRound] /\ UNCHANGED <<now, tasks, bills, submits, upstream>>
  BY DEF EndRound, Die
<1>2. IdleRound \in RoundRow BY DEF IdleRound, RoundRow, GenerationAssumption
<1>3. rounds'[w] = IdleRound BY <1>1, <1>2, RoundMoves DEF GInv
<1>4. RoundOK(w)' BY <1>3 DEF RoundOK, IdleRound, Driving, Succeeding
<1> QED BY <1>1, <1>2, <1>4, RoundOnly

LEMMA BeginStep ==
  ASSUME GenerationAssumption, GInv, NEW w \in Rounds, Begin(w)
  PROVE  GInv' /\ Forward
<1>1. TypeOK BY DEF GInv
<1> DEFINE o == {t \in Polled : tasks[t].status \in Active} \ Overdue
<1> DEFINE next == [IdleRound EXCEPT !.pc = "expired", !.todo = Overdue, !.owes = o]
<1>2. /\ tasks' = [t \in Tasks |-> IF t \in Overdue
                     THEN [tasks[t] EXCEPT !.status = "expired"] ELSE tasks[t]]
      /\ rounds' = [rounds EXCEPT ![w] = next]
      /\ UNCHANGED <<now, bills, submits, upstream>>
  BY DEF Begin
<1>3. o \in SUBSET Polled OBVIOUS
<1> HIDE DEF o
<1>4. /\ next \in RoundRow /\ next.pc = "expired" /\ next.todo = Overdue /\ Overdue \subseteq Tasks
  <2>1. IdleRound \in RoundRow BY DEF IdleRound, RoundRow, GenerationAssumption
  <2>2. Overdue \in SUBSET Tasks BY DEF Overdue
  <2> QED BY <1>3, <2>1, <2>2 DEF RoundRow
<1> HIDE DEF next
<1>5. /\ rounds' \in [Rounds -> RoundRow] /\ rounds'[w] = next
      /\ \A v \in Rounds \ {w} : rounds'[v] = rounds[v]
  BY <1>1, <1>2, <1>4, RoundMoves
<1>6. ASSUME NEW t \in Tasks
      PROVE  /\ tasks'[t] \in Row
             /\ t \in Overdue => tasks[t].status \in Active /\ tasks'[t].status = "expired"
             /\ t \notin Overdue => tasks'[t] = tasks[t]
  BY <1>1, <1>2 DEF TypeOK, Row, Overdue, Ended
<1>7. TypeOK'
  <2>1. tasks' \in [Tasks -> Row] BY <1>2, <1>6
  <2> QED BY <1>1, <1>2, <1>5, <2>1 DEF TypeOK, RoundRow
<1>8. \A t \in Tasks : TaskOK(t)' BY <1>2, <1>6 DEF GInv, TaskOK, Active
<1>9. Forward BY <1>2, <1>6 DEF Forward, ForwardAt, Active, Ended
<1>10. RoundOK(w)' BY <1>4, <1>5, <1>6 DEF RoundOK, Driving, Succeeding, Ended
<1>11. \A v \in Rounds : RoundOK(v)' BY <1>1, <1>5, <1>9, <1>10, RoundStays DEF GInv
<1> QED BY <1>7, <1>8, <1>9, <1>11 DEF GInv

LEMMA ListPolledStep ==
  ASSUME GenerationAssumption, GInv, NEW w \in Rounds, ListPolled(w)
  PROVE  GInv' /\ Forward
<1>1. TypeOK BY DEF GInv
<1>2. PICK page \in SUBSET Listed(w) :
        /\ rounds' = [rounds EXCEPT ![w].pc = IF page = {} THEN "polled" ELSE "tasks",
                                    ![w].todo = page, ![w].page = NextCursor(page)]
        /\ UNCHANGED <<now, tasks, bills, submits, upstream>>
  BY DEF ListPolled
<1>3. \A t \in page : t \in Tasks /\ t \in Polled /\ tasks[t].status \in Active
  BY <1>1 DEF Listed, GenerationAssumption
<1> DEFINE c == NextCursor(page)
<1>4. c \in 0 .. MaxTime BY <1>1, <1>3, CursorIsATime
<1> DEFINE pc == IF page = {} THEN "polled" ELSE "tasks"
<1> DEFINE next == [rounds[w] EXCEPT !.pc = pc, !.todo = page, !.page = c]
<1> HIDE DEF c
<1>5. next \in RoundRow /\ next.pc = pc /\ next.todo = page
  BY <1>1, <1>3, <1>4, RoundParts DEF RoundRow
<1>6. rounds' = [rounds EXCEPT ![w] = next] BY <1>1, <1>2, RoundParts DEF c, RoundRow
<1> HIDE DEF next
<1>7. rounds'[w] = next BY <1>1, <1>5, <1>6, RoundMoves
<1>8. RoundOK(w)' BY <1>2, <1>3, <1>5, <1>7 DEF RoundOK, Driving, Succeeding, Active
<1> QED BY <1>2, <1>5, <1>6, <1>8, RoundOnly

(* A round takes up a task of its page.                                    *)
LEMMA QueryStep ==
  ASSUME GenerationAssumption, GInv, NEW w \in Rounds, Query(w)
  PROVE  GInv' /\ Forward
<1>1. TypeOK /\ RoundOK(w) /\ rounds[w].pc = "tasks" BY DEF GInv, Query
<1>2. PICK t \in rounds[w].todo : \E a \in Answers(t) :
        rounds' = [rounds EXCEPT ![w].pc = IF a = "missing" THEN "tasks" ELSE a,
                                 ![w].task = IF a = "missing" THEN NoTask ELSE t,
                                 ![w].todo = @ \ {t}, ![w].owes = @ \ {t}]
  BY DEF Query
<1> PICK answer \in Answers(t) :
      rounds' = [rounds EXCEPT ![w].pc = IF answer = "missing" THEN "tasks" ELSE answer,
                               ![w].task = IF answer = "missing" THEN NoTask ELSE t,
                               ![w].todo = @ \ {t}, ![w].owes = @ \ {t}]
  BY <1>2
<1>3. UNCHANGED <<now, tasks, bills, submits, upstream>> BY DEF Query
<1>4. t \in Tasks /\ t \in Polled /\ tasks[t].status # "none" /\ rounds[w].todo \subseteq Polled
  BY <1>1, RoundParts DEF RoundOK
<1>5. upstream[t] \in {"working", "made", "broken"}
  BY <1>1, <1>4 DEF GInv, TaskOK, TypeOK
<1>6. /\ answer \in {"error", "missing", "running", "succeeded", "failed"}
      /\ answer = "succeeded" => upstream[t] = "made"
  BY <1>5 DEF Answers
<1> DEFINE pc == IF answer = "missing" THEN "tasks" ELSE answer
<1> DEFINE task == IF answer = "missing" THEN NoTask ELSE t
<1> DEFINE next == [rounds[w] EXCEPT !.pc = pc, !.task = task, !.todo = @ \ {t}, !.owes = @ \ {t}]
<1>7. next.pc = pc /\ next.task = task /\ next.todo = rounds[w].todo \ {t}
  BY <1>1, RoundParts DEF RoundRow
<1>8. next \in RoundRow BY <1>1, <1>4, <1>6, RoundParts DEF RoundRow
<1>9. rounds' = [rounds EXCEPT ![w] = next] BY <1>1, <1>2, RoundParts DEF RoundRow
<1> HIDE DEF next
<1>10. rounds'[w] = next BY <1>1, <1>8, <1>9, RoundMoves
<1>11. RoundOK(w)'
  BY <1>1, <1>3, <1>4, <1>6, <1>7, <1>10, RoundParts
  DEF RoundOK, Driving, Succeeding, GenerationAssumption
<1> QED BY <1>3, <1>8, <1>9, <1>11, RoundOnly

LEMMA ListExecutedStep ==
  ASSUME GenerationAssumption, GInv, NEW w \in Rounds, ListExecuted(w)
  PROVE  GInv' /\ Forward
<1>1. TypeOK BY DEF GInv
<1>2. PICK page \in SUBSET ToExecute :
        rounds' = [rounds EXCEPT ![w].pc = "execute", ![w].todo = page]
  BY DEF ListExecuted
<1>3. UNCHANGED <<now, tasks, bills, submits, upstream>> BY DEF ListExecuted
<1>4. \A t \in page : t \in Tasks \ Polled /\ tasks[t].status # "none" BY DEF ToExecute
<1> DEFINE next == [rounds[w] EXCEPT !.pc = "execute", !.todo = page]
<1>5. next \in RoundRow /\ next.pc = "execute" /\ next.todo = page
  BY <1>1, <1>4, RoundParts DEF RoundRow
<1>6. rounds' = [rounds EXCEPT ![w] = next] BY <1>1, <1>2, RoundParts DEF RoundRow
<1> HIDE DEF next
<1>7. rounds'[w] = next BY <1>1, <1>5, <1>6, RoundMoves
<1>8. RoundOK(w)' BY <1>3, <1>4, <1>5, <1>7 DEF RoundOK, Driving, Succeeding
<1> QED BY <1>3, <1>5, <1>6, <1>8, RoundOnly

LEMMA NextTaskIs ==
  ASSUME GenerationAssumption, GInv, NEW w \in Rounds, rounds[w].pc \in Driving,
         rounds' = NextTask(w),
         \A x \in Tasks : tasks[x].status # "none" => tasks'[x].status # "none"
  PROVE  /\ rounds' \in [Rounds -> RoundRow]
         /\ \A v \in Rounds \ {w} : rounds'[v] = rounds[v]
         /\ RoundOK(w)'
<1>1. TypeOK /\ RoundOK(w) BY DEF GInv
<1> DEFINE pc == IF rounds[w].task \in Polled THEN "tasks" ELSE "execute"
<1> DEFINE next == [rounds[w] EXCEPT !.pc = pc, !.task = NoTask]
<1>2. next \in RoundRow /\ next.pc = pc /\ next.todo = rounds[w].todo
  BY <1>1, RoundParts DEF RoundRow
<1>3. rounds' = [rounds EXCEPT ![w] = next] BY <1>1, RoundParts DEF RoundRow, NextTask
<1> HIDE DEF next
<1>4. /\ rounds' \in [Rounds -> RoundRow] /\ rounds'[w] = next
      /\ \A v \in Rounds \ {w} : rounds'[v] = rounds[v]
  BY <1>1, <1>2, <1>3, RoundMoves
<1>5. RoundOK(w)' BY <1>1, <1>2, <1>4, RoundParts DEF RoundOK, Driving, Succeeding
<1> QED BY <1>4, <1>5

LEMMA GotoIs ==
  ASSUME TypeOK, NEW w \in Rounds, NEW to \in {"release", "charge", "finish"},
         rounds' = Goto(w, to)
  PROVE  /\ rounds' \in [Rounds -> RoundRow]
         /\ \A v \in Rounds \ {w} : rounds'[v] = rounds[v]
         /\ rounds'[w].pc = to /\ rounds'[w].task = rounds[w].task
         /\ rounds'[w].todo = rounds[w].todo
<1> DEFINE next == [rounds[w] EXCEPT !.pc = to]
<1>1. next \in RoundRow /\ next.pc = to /\ next.todo = rounds[w].todo /\ next.task = rounds[w].task
  BY RoundParts DEF RoundRow
<1>2. rounds' = [rounds EXCEPT ![w] = next] BY RoundParts DEF RoundRow, Goto
<1> HIDE DEF next
<1> QED BY <1>1, <1>2, RoundMoves

(* What a round that drives a task knows of it.                            *)
LEMMA DrivenTask ==
  ASSUME GInv, NEW w \in Rounds, rounds[w].pc \in Driving
  PROVE  /\ TypeOK /\ RoundOK(w)
         /\ \E t \in Tasks : /\ t = rounds[w].task /\ TaskOK(t) /\ tasks[t] \in Row /\ bills[t] \in Bill
                            /\ tasks[t].status # "none" /\ submits[t] = "over"
<1>1. rounds[w].task \in Tasks /\ tasks[rounds[w].task].status # "none"
  BY RoundParts DEF GInv, RoundOK
<1>2. submits[rounds[w].task] \in {"new", "authorized", "submitting", "inserting", "over"}
  BY <1>1 DEF GInv, TypeOK
<1> QED BY <1>1, <1>2 DEF GInv, TypeOK, TaskOK

LEMMA ReleaseExpiredStep ==
  ASSUME GenerationAssumption, GInv, NEW w \in Rounds, ReleaseExpired(w)
  PROVE  GInv' /\ Forward
<1>1. TypeOK /\ RoundOK(w) BY DEF GInv
<1>2. PICK t \in rounds[w].todo :
        bills' \in {Released(t), bills} /\ rounds' = [rounds EXCEPT ![w].todo = @ \ {t}]
  BY DEF ReleaseExpired
<1>3. rounds[w].pc = "expired" /\ UNCHANGED <<now, tasks, submits, upstream>>
  BY DEF ReleaseExpired
<1>4. t \in Tasks /\ tasks[t].status \in Ended BY <1>1, <1>3, RoundParts DEF RoundOK
<1>5. TaskOK(t) /\ submits[t] = "over"
  <2>1. submits[t] \in {"new", "authorized", "submitting", "inserting", "over"}
    BY <1>4 DEF GInv, TypeOK
  <2> QED BY <1>4, <2>1 DEF GInv, TaskOK, Ended
<1> DEFINE next == [rounds[w] EXCEPT !.todo = @ \ {t}]
<1>6. next \in RoundRow /\ next.pc = "expired" /\ next.todo = rounds[w].todo \ {t}
  BY <1>1, <1>3, RoundParts DEF RoundRow
<1>7. rounds' = [rounds EXCEPT ![w] = next] BY <1>1, <1>2, RoundParts DEF RoundRow
<1> HIDE DEF next
<1>8. /\ rounds' \in [Rounds -> RoundRow] /\ rounds'[w] = next
      /\ \A v \in Rounds \ {w} : rounds'[v] = rounds[v]
  BY <1>1, <1>6, <1>7, RoundMoves
<1>9. RoundOK(w)' BY <1>1, <1>3, <1>6, <1>8 DEF RoundOK, Driving, Succeeding
<1>10. /\ bills' \in [Tasks -> Bill] /\ \A x \in Tasks \ {t} : bills'[x] = bills[x]
       /\ bills'[t].receipt = bills[t].receipt /\ bills'[t].lease = bills[t].lease
       /\ \/ bills'[t].status = bills[t].status
          \/ bills'[t].status = "released" /\ bills[t].status \in {"authorized", "in_flight"}
  BY <1>1, <1>2, <1>4, ReleasedIs
<1>11. TypeOK' BY <1>1, <1>3, <1>8, <1>10 DEF TypeOK, RoundRow
<1>12. \A x \in Tasks \ {t} : SameTask(x) BY <1>3, <1>10 DEF SameTask
<1>13. TaskOK(t)' BY <1>3, <1>4, <1>5, <1>10 DEF TaskOK, Uncharged, Due, Active, Ended
<1>14. ForwardAt(t) BY <1>3, <1>10 DEF ForwardAt
<1> QED BY <1>3, <1>4, <1>8, <1>9, <1>11, <1>12, <1>13, <1>14, OneRound

LEMMA ReleaseFailedStep ==
  ASSUME GenerationAssumption, GInv, NEW w \in Rounds, ReleaseFailed(w)
  PROVE  GInv' /\ Forward
<1>1. rounds[w].pc = "release" /\ rounds[w].pc \in Driving BY DEF ReleaseFailed, Driving
<1>2. PICK t \in Tasks : t = rounds[w].task /\ TaskOK(t) /\ submits[t] = "over"
  BY <1>1, DrivenTask
<1>3. TypeOK /\ tasks[t].status \in Ended BY <1>1, <1>2 DEF RoundOK, GInv
<1>4. bills' \in {Released(t), bills} /\ rounds' = NextTask(w)
      /\ UNCHANGED <<now, tasks, submits, upstream>>
  BY <1>2 DEF ReleaseFailed
<1>5. /\ rounds' \in [Rounds -> RoundRow] /\ \A v \in Rounds \ {w} : rounds'[v] = rounds[v]
      /\ RoundOK(w)'
  BY <1>1, <1>4, NextTaskIs
<1>6. /\ bills' \in [Tasks -> Bill] /\ \A x \in Tasks \ {t} : bills'[x] = bills[x]
      /\ bills'[t].receipt = bills[t].receipt /\ bills'[t].lease = bills[t].lease
      /\ \/ bills'[t].status = bills[t].status
         \/ bills'[t].status = "released" /\ bills[t].status \in {"authorized", "in_flight"}
  BY <1>2, <1>3, <1>4, ReleasedIs
<1>7. TypeOK' BY <1>3, <1>4, <1>5, <1>6 DEF TypeOK, RoundRow
<1>8. \A x \in Tasks \ {t} : SameTask(x) BY <1>4, <1>6 DEF SameTask
<1>9. TaskOK(t)' BY <1>2, <1>3, <1>4, <1>6 DEF TaskOK, Uncharged, Due, Active, Ended
<1>10. ForwardAt(t) BY <1>4, <1>6 DEF ForwardAt
<1> QED BY <1>2, <1>4, <1>5, <1>7, <1>8, <1>9, <1>10, OneRound

(* The lease is renewed, and a task that runs is said to run.              *)
LEMMA RenewStep ==
  ASSUME GenerationAssumption, GInv, NEW w \in Rounds, Renew(w)
  PROVE  GInv' /\ Forward
<1>1. rounds[w].pc \in {"error", "running"} /\ rounds[w].pc \in Driving BY DEF Renew, Driving
<1>2. PICK t \in Tasks :
        t = rounds[w].task /\ TaskOK(t) /\ tasks[t] \in Row /\ bills[t] \in Bill
        /\ tasks[t].status # "none" /\ submits[t] = "over"
  BY <1>1, DrivenTask
<1>3. TypeOK BY DEF GInv
<1>4. /\ tasks' = IF rounds[w].pc = "running" /\ tasks[t].status = "queued"
                    THEN [tasks EXCEPT ![t].status = "running"] ELSE tasks
      /\ bills' \in {Renewed(t, LeaseUntil(t)), bills}
      /\ rounds' = NextTask(w) /\ UNCHANGED <<now, submits, upstream>>
  BY <1>2 DEF Renew
<1>5. /\ tasks' \in [Tasks -> Row] /\ \A x \in Tasks \ {t} : tasks'[x] = tasks[x]
      /\ tasks'[t].expires = tasks[t].expires
      /\ \/ tasks'[t] = tasks[t]
         \/ tasks[t].status \in Active /\ tasks'[t].status = "running"
  BY <1>3, <1>4 DEF TypeOK, Row, Active
<1>6. /\ bills' \in [Tasks -> Bill] /\ \A x \in Tasks \ {t} : bills'[x] = bills[x]
      /\ bills'[t].receipt = bills[t].receipt /\ bills'[t].status = bills[t].status
      /\ bills'[t].lease = bills[t].lease \/ tasks[t].expires <= bills'[t].lease
  BY <1>3, <1>4, RenewedIs
<1>7. /\ rounds' \in [Rounds -> RoundRow] /\ \A v \in Rounds \ {w} : rounds'[v] = rounds[v]
      /\ RoundOK(w)'
  <2>1. \A x \in Tasks : tasks[x].status # "none" => tasks'[x].status # "none" BY <1>5
  <2> QED BY <1>1, <1>4, <2>1, NextTaskIs
<1>8. TypeOK' BY <1>3, <1>4, <1>5, <1>6, <1>7 DEF TypeOK, RoundRow
<1>9. \A x \in Tasks \ {t} : SameTask(x) BY <1>4, <1>5, <1>6 DEF SameTask
<1>10. TaskOK(t)' BY <1>2, <1>4, <1>5, <1>6 DEF TaskOK, Active
<1>11. ForwardAt(t) BY <1>4, <1>5, <1>6 DEF ForwardAt, Active, Ended
<1> QED BY <1>4, <1>7, <1>8, <1>9, <1>10, <1>11, OneRound

LEMMA EndFailedStep ==
  ASSUME GenerationAssumption, GInv, NEW w \in Rounds, EndFailed(w)
  PROVE  GInv' /\ Forward
<1>1. rounds[w].pc = "failed" /\ rounds[w].pc \in Driving BY DEF EndFailed, Driving
<1>2. PICK t \in Tasks :
        t = rounds[w].task /\ TaskOK(t) /\ tasks[t] \in Row /\ bills[t] \in Bill
        /\ tasks[t].status # "none" /\ submits[t] = "over"
  BY <1>1, DrivenTask
<1>3. TypeOK /\ RoundOK(w) BY DEF GInv
<1>4. /\ tasks' = CasTerminal(t, "failed")
      /\ rounds' = IF tasks[t].status \in Active THEN Goto(w, "release") ELSE NextTask(w)
      /\ UNCHANGED <<now, bills, submits, upstream>>
  BY <1>2 DEF EndFailed
<1>5. /\ tasks' \in [Tasks -> Row] /\ \A x \in Tasks \ {t} : tasks'[x] = tasks[x]
      /\ tasks[t].status \in Active => tasks'[t].status = "failed"
      /\ tasks[t].status \notin Active => tasks'[t] = tasks[t]
  BY <1>3, <1>4 DEF TypeOK, Row, Active, Ended, CasTerminal
<1>6. \A x \in Tasks : tasks[x].status # "none" => tasks'[x].status # "none" BY <1>5
<1>7. /\ rounds' \in [Rounds -> RoundRow] /\ \A v \in Rounds \ {w} : rounds'[v] = rounds[v]
      /\ RoundOK(w)'
  <2>1. CASE tasks[t].status \in Active
    <3>1. /\ rounds' \in [Rounds -> RoundRow] /\ \A v \in Rounds \ {w} : rounds'[v] = rounds[v]
          /\ rounds'[w].pc = "release" /\ rounds'[w].task = t /\ rounds'[w].todo = rounds[w].todo
      BY <1>2, <1>3, <1>4, <2>1, GotoIs
    <3>2. rounds[w].todo \subseteq Tasks /\ t # NoTask
      BY <1>3, RoundParts DEF GenerationAssumption
    <3>3. RoundOK(w)'
      BY <1>1, <1>2, <1>3, <1>5, <1>6, <2>1, <3>1, <3>2 DEF RoundOK, Driving, Succeeding, Ended
    <3> QED BY <3>1, <3>3
  <2>2. CASE tasks[t].status \notin Active BY <1>1, <1>4, <1>6, <2>2, NextTaskIs
  <2> QED BY <2>1, <2>2
<1>8. TypeOK' BY <1>3, <1>4, <1>5, <1>7 DEF TypeOK, RoundRow
<1>9. \A x \in Tasks \ {t} : SameTask(x) BY <1>4, <1>5 DEF SameTask
<1>10. TaskOK(t)' BY <1>2, <1>4, <1>5 DEF TaskOK, Active
<1>11. ForwardAt(t) BY <1>2, <1>4, <1>5 DEF ForwardAt, Active, Ended
<1> QED BY <1>4, <1>7, <1>8, <1>9, <1>10, <1>11, OneRound

LEMMA FinishStep ==
  ASSUME GenerationAssumption, GInv, NEW w \in Rounds, Finish(w)
  PROVE  GInv' /\ Forward
<1>1. rounds[w].pc = "finish" /\ rounds[w].pc \in Driving BY DEF Finish, Driving, Succeeding
<1>2. PICK t \in Tasks :
        t = rounds[w].task /\ TaskOK(t) /\ tasks[t] \in Row /\ bills[t] \in Bill
        /\ tasks[t].status # "none" /\ submits[t] = "over"
  BY <1>1, DrivenTask
<1>3. TypeOK /\ RoundOK(w) /\ bills[t].receipt # NoReceipt BY <1>1, <1>2 DEF GInv, RoundOK
<1>4. /\ tasks' = CasTerminal(t, "succeeded") /\ rounds' = NextTask(w)
      /\ UNCHANGED <<now, bills, submits, upstream>>
  BY <1>2 DEF Finish
<1>5. /\ tasks' \in [Tasks -> Row] /\ \A x \in Tasks \ {t} : tasks'[x] = tasks[x]
      /\ tasks[t].status \in Active => tasks'[t].status = "succeeded"
      /\ tasks[t].status \notin Active => tasks'[t] = tasks[t]
  BY <1>3, <1>4 DEF TypeOK, Row, Active, Ended, CasTerminal
<1>6. \A x \in Tasks : tasks[x].status # "none" => tasks'[x].status # "none" BY <1>5
<1>7. /\ rounds' \in [Rounds -> RoundRow] /\ \A v \in Rounds \ {w} : rounds'[v] = rounds[v]
      /\ RoundOK(w)'
  BY <1>1, <1>4, <1>6, NextTaskIs
<1>8. TypeOK' BY <1>3, <1>4, <1>5, <1>7 DEF TypeOK, RoundRow
<1>9. \A x \in Tasks \ {t} : SameTask(x) BY <1>4, <1>5 DEF SameTask
<1>10. TaskOK(t)' BY <1>2, <1>3, <1>4, <1>5 DEF TaskOK, Active
<1>11. ForwardAt(t) BY <1>2, <1>4, <1>5 DEF ForwardAt, Active, Ended
<1> QED BY <1>4, <1>7, <1>8, <1>9, <1>10, <1>11, OneRound

LEMMA ReadStatusStep ==
  ASSUME GenerationAssumption, GInv, NEW w \in Rounds, ReadStatus(w)
  PROVE  GInv' /\ Forward
<1>1. rounds[w].pc = "succeeded" /\ rounds[w].pc \in Driving
  BY DEF ReadStatus, Driving, Succeeding
<1>2. PICK t \in Tasks :
        t = rounds[w].task /\ TaskOK(t) /\ tasks[t] \in Row /\ bills[t] \in Bill
        /\ tasks[t].status # "none" /\ submits[t] = "over"
  BY <1>1, DrivenTask
<1>3. TypeOK /\ RoundOK(w) /\ upstream[t] = "made" BY <1>1, <1>2 DEF GInv, RoundOK, Succeeding
<1> DEFINE to == IF bills[t].status \in {"settlement_pending", "settled"} THEN "finish" ELSE "charge"
<1>4. rounds' = Goto(w, to) /\ UNCHANGED <<now, tasks, bills, submits, upstream>>
  BY <1>2 DEF ReadStatus
<1>5. to = "finish" => bills[t].receipt # NoReceipt BY <1>2 DEF TaskOK, Due
<1>6. to \in {"finish", "charge"} OBVIOUS
<1> HIDE DEF to
<1>7. /\ rounds' \in [Rounds -> RoundRow] /\ \A v \in Rounds \ {w} : rounds'[v] = rounds[v]
      /\ rounds'[w].pc = to /\ rounds'[w].task = t /\ rounds'[w].todo = rounds[w].todo
  BY <1>2, <1>3, <1>4, <1>6, GotoIs
<1>8. t # NoTask BY DEF GenerationAssumption
<1>9. RoundOK(w)'
  BY <1>1, <1>2, <1>3, <1>4, <1>5, <1>6, <1>7, <1>8 DEF RoundOK, Driving, Succeeding
<1>10. TypeOK' BY <1>3, <1>4, <1>7 DEF TypeOK, RoundRow
<1>11. \A x \in Tasks : SameTask(x) BY <1>4 DEF SameTask
<1>12. TaskOK(t)' /\ ForwardAt(t) BY <1>2, <1>4, <1>11, TaskStays
<1> QED BY <1>4, <1>7, <1>9, <1>10, <1>11, <1>12, OneRound

LEMMA ChargeStep ==
  ASSUME GenerationAssumption, GInv, NEW w \in Rounds, Charge(w)
  PROVE  GInv' /\ Forward
<1>1. rounds[w].pc = "charge" /\ rounds[w].pc \in Driving BY DEF Charge, Driving, Succeeding
<1>2. PICK t \in Tasks :
        t = rounds[w].task /\ TaskOK(t) /\ tasks[t] \in Row /\ bills[t] \in Bill
        /\ tasks[t].status # "none" /\ submits[t] = "over"
  BY <1>1, DrivenTask
<1>3. TypeOK /\ RoundOK(w) /\ upstream[t] = "made" BY <1>1, <1>2 DEF GInv, RoundOK, Succeeding
<1>4. /\ bills' \in {Accepted(t), bills} /\ UNCHANGED <<now, tasks, submits, upstream>>
      /\ \/ rounds' = NextTask(w)
         \/ rounds' = Goto(w, "finish") /\ bills' = Accepted(t) /\ (Accepts(t) \/ Replayed(t))
  BY <1>2 DEF Charge
<1>5. now \in Nat /\ now # NoReceipt BY <1>3 DEF TypeOK, GenerationAssumption
<1>6. /\ bills' \in [Tasks -> Bill] /\ \A x \in Tasks \ {t} : bills'[x] = bills[x]
      /\ bills'[t].lease = bills[t].lease
      /\ \/ bills'[t] = bills[t]
         \/ Accepts(t) /\ bills'[t].status = "settlement_pending" /\ bills'[t].receipt = now
  BY <1>3, <1>4, AcceptedIs
<1>7. Accepts(t) => bills[t].receipt = NoReceipt BY <1>2 DEF TaskOK, Accepts, Uncharged
<1>8. rounds' = Goto(w, "finish") /\ bills' = Accepted(t) /\ (Accepts(t) \/ Replayed(t)) =>
        bills'[t].receipt # NoReceipt
  BY <1>2, <1>3, <1>5 DEF TypeOK, Bill, Accepted, Accepts, Replayed
<1>9. /\ rounds' \in [Rounds -> RoundRow] /\ \A v \in Rounds \ {w} : rounds'[v] = rounds[v]
      /\ RoundOK(w)'
  <2>1. CASE rounds' = NextTask(w) BY <1>1, <1>4, <2>1, NextTaskIs
  <2>2. CASE rounds' = Goto(w, "finish") /\ bills' = Accepted(t) /\ (Accepts(t) \/ Replayed(t))
    <3>1. /\ rounds' \in [Rounds -> RoundRow] /\ \A v \in Rounds \ {w} : rounds'[v] = rounds[v]
          /\ rounds'[w].pc = "finish" /\ rounds'[w].task = t /\ rounds'[w].todo = rounds[w].todo
      BY <1>2, <1>3, <2>2, GotoIs
    <3>2. t # NoTask BY DEF GenerationAssumption
    <3>3. RoundOK(w)'
      BY <1>1, <1>2, <1>3, <1>4, <1>8, <2>2, <3>1, <3>2 DEF RoundOK, Driving, Succeeding
    <3> QED BY <3>1, <3>3
  <2> QED BY <1>4, <2>1, <2>2
<1>10. TypeOK' BY <1>3, <1>4, <1>6, <1>9 DEF TypeOK, RoundRow
<1>11. \A x \in Tasks \ {t} : SameTask(x) BY <1>4, <1>6 DEF SameTask
<1>12. TaskOK(t)' BY <1>2, <1>3, <1>4, <1>5, <1>6 DEF TaskOK, Uncharged, Due, Active
<1>13. ForwardAt(t) BY <1>4, <1>6, <1>7 DEF ForwardAt
<1> QED BY <1>4, <1>9, <1>10, <1>11, <1>12, <1>13, OneRound

(* A worker carries out a task: what it made stays made.                   *)
LEMMA ExecuteStep ==
  ASSUME GenerationAssumption, GInv, NEW w \in Rounds, Execute(w)
  PROVE  GInv' /\ Forward
<1>1. TypeOK /\ RoundOK(w) /\ rounds[w].pc = "execute" BY DEF GInv, Execute
<1>2. PICK t \in rounds[w].todo, answer \in {"succeeded", "failed", "missing"} :
        /\ rounds' = [rounds EXCEPT ![w].pc = IF answer = "missing" THEN "execute" ELSE answer,
                                    ![w].task = IF answer = "missing" THEN NoTask ELSE t,
                                    ![w].todo = @ \ {t}]
        /\ upstream' = IF answer = "succeeded" THEN [upstream EXCEPT ![t] = "made"] ELSE upstream
        /\ UNCHANGED <<now, tasks, bills, submits>>
  BY DEF Execute
<1>3. t \in Tasks /\ tasks[t].status # "none" BY <1>1, RoundParts DEF RoundOK
<1>4. TaskOK(t) /\ submits[t] = "over"
  <2>1. submits[t] \in {"new", "authorized", "submitting", "inserting", "over"}
    BY <1>1, <1>3 DEF TypeOK
  <2> QED BY <1>3, <2>1 DEF GInv, TaskOK
<1> DEFINE pc == IF answer = "missing" THEN "execute" ELSE answer
<1> DEFINE task == IF answer = "missing" THEN NoTask ELSE t
<1> DEFINE next == [rounds[w] EXCEPT !.pc = pc, !.task = task, !.todo = @ \ {t}]
<1>5. next \in RoundRow /\ next.pc = pc /\ next.task = task /\ next.todo = rounds[w].todo \ {t}
  BY <1>1, <1>3, RoundParts DEF RoundRow
<1>6. rounds' = [rounds EXCEPT ![w] = next] BY <1>1, <1>2, RoundParts DEF RoundRow
<1> HIDE DEF next
<1>7. /\ rounds' \in [Rounds -> RoundRow] /\ rounds'[w] = next
      /\ \A v \in Rounds \ {w} : rounds'[v] = rounds[v]
  BY <1>1, <1>5, <1>6, RoundMoves
<1>8. /\ upstream' \in [Tasks -> {"nothing", "working", "made", "broken"}]
      /\ \A x \in Tasks \ {t} : upstream'[x] = upstream[x]
      /\ upstream'[t] = IF answer = "succeeded" THEN "made" ELSE upstream[t]
  BY <1>1, <1>2, <1>3 DEF TypeOK
<1>9. TypeOK' BY <1>1, <1>2, <1>7, <1>8 DEF TypeOK, RoundRow
<1>10. \A x \in Tasks \ {t} : SameTask(x) BY <1>2, <1>8 DEF SameTask
<1>11. TaskOK(t)' BY <1>2, <1>3, <1>4, <1>8 DEF TaskOK
<1>12. ForwardAt(t) BY <1>2, <1>8 DEF ForwardAt
<1>13. t # NoTask BY <1>3 DEF GenerationAssumption
<1>14. RoundOK(w)'
  <2>1. answer = "missing" \/ answer = "failed" \/ answer = "succeeded" BY <1>2
  <2>2. rounds[w].todo \cap Polled = {} /\ t \notin Polled BY <1>1, <1>2 DEF RoundOK
  <2> QED BY <1>1, <1>2, <1>3, <1>5, <1>7, <1>8, <1>13, <2>1, <2>2 DEF RoundOK, Driving, Succeeding
<1> QED BY <1>2, <1>3, <1>7, <1>9, <1>10, <1>11, <1>12, <1>14, OneRound

-----------------------------------------------------------------------------
LEMMA StepGInv ==
  ASSUME GenerationAssumption, GInv, [Next]_vars PROVE GInv' /\ Forward
<1>1. CASE UNCHANGED vars
  <2>1. Forward BY <1>1 DEF vars, Forward, ForwardAt
  <2>2. \A t \in Tasks : TaskOK(t)' BY <1>1, TaskStays DEF vars, SameTask, GInv
  <2>3. \A w \in Rounds : RoundOK(w)' BY <1>1, <2>1, RoundStays DEF vars, GInv
  <2>4. TypeOK' BY <1>1 DEF vars, TypeOK, GInv
  <2> QED BY <2>1, <2>2, <2>3, <2>4 DEF GInv
<1>2. ASSUME NEW t \in Tasks,
             Gateway(t) \/ ProviderEnds(t) \/ LedgerMoves(t) \/ Recover(t)
      PROVE  GInv' /\ Forward
  BY <1>2, GatewayStep, OutsideStep
<1>3. ASSUME NEW w \in Rounds, Begin(w) \/ Proceed(w) \/ Die(w)
      PROVE  GInv' /\ Forward
  BY <1>3, BeginStep, ReleaseExpiredStep, ListPolledStep, QueryStep, RenewStep, EndFailedStep,
     ReleaseFailedStep, ReadStatusStep, ChargeStep, FinishStep, ListExecutedStep, ExecuteStep,
     OverStep
  DEF Proceed
<1>4. CASE Tick BY <1>4, TickStep
<1> QED BY <1>1, <1>2, <1>3, <1>4 DEF Next

(* The invariant, for every number of tasks, rounds and ticks.             *)
THEOREM GInvHolds == ASSUME GenerationAssumption PROVE Spec => []GInv
<1>1. Init => GInv BY InitGInv
<1>2. GInv /\ [Next]_vars => GInv' BY StepGInv
<1> QED BY <1>1, <1>2, PTL DEF Spec

(* Every variable of the generation tasks keeps its type.                  *)
THEOREM GenerationTypes == ASSUME GenerationAssumption PROVE Spec => []TypeOK
<1>1. GInv => TypeOK BY DEF GInv
<1> QED BY <1>1, GInvHolds, PTL

(* A task only succeeds when the ledger holds its receipt, and the ledger  *)
(* only accepts one for a product that was made, whatever rounds overlap.  *)
THEOREM ProductsAreCharged == ASSUME GenerationAssumption PROVE Spec => []ChargedForProduct
<1>1. GInv => ChargedForProduct BY DEF GInv, TaskOK, ChargedForProduct
<1> QED BY <1>1, GInvHolds, PTL

(* What has ended stays as it ended, and the first receipt stays.          *)
THEOREM DecisionsStand == ASSUME GenerationAssumption PROVE Spec => DecisionStands
<1>1. GInv /\ [Next]_vars => [Decided]_vars
  BY StepGInv DEF Forward, ForwardAt, Decided
<1> QED BY <1>1, GInvHolds, PTL DEF Spec, DecisionStands

(* A task whose bill no step touches keeps its cover: its end stays where  *)
(* it is, and a step that ends it leaves nothing to cover.                 *)
LEMMA BillStays ==
  ASSUME TypeOK, NEW t \in Tasks, bills'[t] = bills[t], tasks'[t].expires = tasks[t].expires,
         tasks[t].status = "none" => tasks'[t].status = "none"
  PROVE  KeepsCover(t)
BY DEF KeepsCover, Live, Covered, Active

(* What has no row, or has ended, or has its receipt, needs no lease.      *)
LEMMA NothingToCover ==
  ASSUME NEW t \in Tasks, tasks'[t].status \notin Active \/ bills'[t].receipt # NoReceipt
  PROVE  KeepsCover(t)
BY DEF KeepsCover, Live, Covered

LEMMA CoverStep ==
  ASSUME GenerationAssumption, GInv, [Next]_vars PROVE CoverStays
<1>1. TypeOK BY DEF GInv
<1>2. ASSUME UNCHANGED <<tasks, bills>> PROVE CoverStays
  BY <1>1, <1>2, BillStays DEF CoverStays
<1>3. ASSUME NEW t \in Tasks, Authorize(t) \/ Start(t) \/ Submit(t), NEW x \in Tasks PROVE KeepsCover(x)
  <2>1. CASE x = t
    <3>1. tasks[t].status = "none" /\ tasks' = tasks
      BY <1>3 DEF Authorize, Start, Submit, GInv, TaskOK
    <3> QED BY <2>1, <3>1, NothingToCover DEF Active
  <2>2. CASE x # t
    <3>1. bills'[x] = bills[x] /\ tasks' = tasks
      BY <1>1, <1>3, <2>2 DEF Authorize, Start, Submit, Released, TypeOK
    <3> QED BY <1>1, <3>1, BillStays
  <2> QED BY <2>1, <2>2
<1>4. ASSUME NEW t \in Tasks, Insert(t), NEW x \in Tasks PROVE KeepsCover(x)
  <2>1. /\ bills' = bills /\ now' = now /\ submits[t] = "inserting" /\ now \in Int
        /\ tasks' = [tasks EXCEPT ![t] = [status |-> "queued", created |-> now, expires |-> now + TTL]]
    BY <1>1, <1>4 DEF Insert, TypeOK
  <2>2. CASE x = t
    <3>1. /\ tasks'[t].expires = now + TTL /\ tasks[t].status = "none"
          /\ bills[t].status = "in_flight" \/ bills[t].lease <= now
      BY <1>1, <2>1 DEF TypeOK, GInv, TaskOK
    <3>2. bills[t].lease \in Int /\ TTL \in Nat \ {0}
      BY <1>1 DEF TypeOK, Bill, GenerationAssumption
    <3>3. bills[t].lease >= now + TTL => bills[t].status = "in_flight"
      BY <2>1, <3>1, <3>2
    <3> QED BY <2>1, <2>2, <3>1, <3>3 DEF KeepsCover, Live, Covered, Active
  <2>3. CASE x # t
    <3>1. tasks'[x] = tasks[x] BY <1>1, <2>1, <2>3 DEF TypeOK
    <3> QED BY <1>1, <2>1, <3>1, BillStays
  <2> QED BY <2>2, <2>3
<1>5. ASSUME NEW t \in Tasks, LedgerMoves(t), NEW x \in Tasks PROVE KeepsCover(x)
  <2>1. tasks' = tasks /\ bills[t].status \in Due BY <1>5 DEF LedgerMoves, Due
  <2>2. PICK s : bills' = [bills EXCEPT ![t].status = s] BY <1>5 DEF LedgerMoves
  <2>3. CASE x = t
    <3>1. bills'[t].receipt # NoReceipt
      BY <1>1, <2>1, <2>2 DEF TypeOK, Bill, GInv, TaskOK
    <3> QED BY <2>3, <3>1, NothingToCover
  <2>4. CASE x # t
    <3>1. bills'[x] = bills[x] BY <1>1, <2>2, <2>4 DEF TypeOK
    <3> QED BY <1>1, <2>1, <3>1, BillStays
  <2> QED BY <2>3, <2>4
<1>6. ASSUME NEW t \in Tasks, Recover(t), NEW x \in Tasks PROVE KeepsCover(x)
  <2>1. /\ tasks' = tasks /\ now' = now /\ bills[t].lease <= now
        /\ bills' = [bills EXCEPT ![t].status = "released"] /\ bills[t].status \in Uncharged
    BY <1>6 DEF Recover, Uncharged
  <2>2. CASE x = t
    <3>1. bills'[t].lease = bills[t].lease /\ bills[t].receipt = NoReceipt
      BY <1>1, <2>1 DEF TypeOK, Bill, GInv, TaskOK
    <3>2. bills[t].lease \in Int /\ tasks[t].expires \in Int /\ now \in Int
      BY <1>1 DEF TypeOK, Bill, Row, GenerationAssumption
    <3> QED BY <2>1, <2>2, <3>1, <3>2 DEF KeepsCover, Live, Covered, Active
  <2>3. CASE x # t
    <3>1. bills'[x] = bills[x] BY <1>1, <2>1, <2>3 DEF TypeOK
    <3> QED BY <1>1, <2>1, <3>1, BillStays
  <2> QED BY <2>2, <2>3
<1>7. ASSUME NEW w \in Rounds, Begin(w), NEW x \in Tasks PROVE KeepsCover(x)
  <2>1. /\ bills' = bills /\ tasks'[x].expires = tasks[x].expires
        /\ tasks[x].status = "none" => tasks'[x].status = "none"
    BY <1>1, <1>7 DEF Begin, Overdue, Active, TypeOK, Row
  <2> QED BY <1>1, <2>1, BillStays
<1>8. ASSUME NEW w \in Rounds, EndFailed(w) \/ Finish(w), NEW x \in Tasks PROVE KeepsCover(x)
  <2>1. PICK s : /\ bills' = bills
                 /\ tasks' = tasks \/ /\ tasks' = [tasks EXCEPT ![rounds[w].task].status = s]
                                      /\ tasks[rounds[w].task].status \in Active
    BY <1>8 DEF EndFailed, Finish, CasTerminal
  <2>2. /\ tasks'[x].expires = tasks[x].expires
        /\ tasks[x].status = "none" => tasks'[x].status = "none"
    BY <1>1, <2>1 DEF TypeOK, Row, Active
  <2> QED BY <1>1, <2>1, <2>2, BillStays
<1>9. ASSUME NEW w \in Rounds, ReleaseExpired(w) \/ ReleaseFailed(w), NEW x \in Tasks PROVE KeepsCover(x)
  <2>1. PICK t \in Tasks : tasks[t].status \in Ended /\ bills' \in {Released(t), bills} /\ tasks' = tasks
    <3>1. CASE ReleaseExpired(w)
      BY <3>1, RoundParts DEF ReleaseExpired, GInv, RoundOK
    <3>2. CASE ReleaseFailed(w)
      <4>1. rounds[w].task \in Tasks /\ tasks[rounds[w].task].status \in Ended
        BY <1>1, <3>2, RoundParts DEF ReleaseFailed, GInv, RoundOK, Driving
      <4> QED BY <3>2, <4>1 DEF ReleaseFailed
    <3> QED BY <1>9, <3>1, <3>2
  <2>2. CASE x = t BY <2>1, <2>2, NothingToCover DEF Active, Ended
  <2>3. CASE x # t
    <3>1. bills'[x] = bills[x] BY <1>1, <2>1, <2>3, ReleasedIs
    <3> QED BY <1>1, <2>1, <3>1, BillStays
  <2> QED BY <2>2, <2>3
<1>10. ASSUME NEW w \in Rounds, Renew(w), NEW x \in Tasks PROVE KeepsCover(x)
  <2>1. PICK t \in Tasks : t = rounds[w].task /\ tasks[t].status # "none"
    <3>1. rounds[w].pc \in Driving BY <1>10 DEF Renew, Driving
    <3> QED BY <3>1, DrivenTask
  <2>2. PICK l \in Int : /\ l = Until(LeaseUntil(t)) /\ l >= tasks[t].expires
    <3>1. tasks[t].expires \in 0 .. MaxTime /\ now \in 1 .. MaxTime
      BY <1>1 DEF TypeOK, Row
    <3>2. LeaseUntil(t) \in Nat /\ tasks[t].expires <= LeaseUntil(t)
      BY <3>1 DEF LeaseUntil, Larger, GenerationAssumption
    <3> QED BY <3>1, <3>2, UntilIs DEF GenerationAssumption
  <2>3. /\ now' = now
        /\ tasks' = tasks \/ tasks' = [tasks EXCEPT ![t].status = "running"]
        /\ \/ bills' = bills
           \/ bills[t].status = "in_flight" /\ bills' = [bills EXCEPT ![t].lease = l]
    BY <1>10, <2>1, <2>2 DEF Renew, Renewed
  <2>4. /\ tasks'[x].expires = tasks[x].expires
        /\ tasks[x].status = "none" => tasks'[x].status = "none"
    BY <1>1, <2>1, <2>3 DEF TypeOK, Row
  <2>5. CASE bills'[x] = bills[x] BY <1>1, <2>4, <2>5, BillStays
  <2>6. CASE x = t /\ bills[t].status = "in_flight" /\ bills' = [bills EXCEPT ![t].lease = l]
    <3>1. bills'[t].status = "in_flight" /\ bills'[t].lease = l
      BY <1>1, <2>6 DEF TypeOK, Bill
    <3> QED BY <2>2, <2>4, <2>6, <3>1 DEF KeepsCover, Covered
  <2>7. bills'[x] = bills[x] \/ (x = t /\ bills[t].status = "in_flight"
                                /\ bills' = [bills EXCEPT ![t].lease = l])
    BY <1>1, <2>3 DEF TypeOK
  <2> QED BY <2>5, <2>6, <2>7
<1>11. ASSUME NEW w \in Rounds, Charge(w), NEW x \in Tasks PROVE KeepsCover(x)
  <2>1. PICK t \in Tasks : t = rounds[w].task
    <3>1. rounds[w].pc \in Driving BY <1>11 DEF Charge, Driving, Succeeding
    <3> QED BY <3>1, DrivenTask
  <2>2. bills' \in {Accepted(t), bills} /\ tasks' = tasks BY <1>11, <2>1 DEF Charge
  <2>3. /\ \A y \in Tasks \ {t} : bills'[y] = bills[y]
        /\ bills'[t] = bills[t] \/ bills'[t].receipt = now
    BY <1>1, <2>2, AcceptedIs
  <2>4. CASE bills'[x] = bills[x] BY <1>1, <2>2, <2>4, BillStays
  <2>5. CASE bills'[x].receipt = now
    <3>1. now # NoReceipt BY <1>1 DEF TypeOK, GenerationAssumption
    <3> QED BY <2>5, <3>1, NothingToCover
  <2> QED BY <2>3, <2>4, <2>5
<1>12. ASSUME NEW t \in Tasks, SubmitEnds(t) \/ ProviderEnds(t) PROVE UNCHANGED <<tasks, bills>>
  BY <1>12 DEF SubmitEnds, ProviderEnds
<1>13. ASSUME NEW w \in Rounds,
              \/ ListPolled(w) \/ Query(w) \/ ReadStatus(w) \/ ListExecuted(w) \/ Execute(w)
              \/ EndRound(w) \/ Die(w)
       PROVE  UNCHANGED <<tasks, bills>>
  BY <1>13 DEF ListPolled, Query, ReadStatus, ListExecuted, Execute, EndRound, Die
<1>14. CASE UNCHANGED vars \/ Tick BY <1>2, <1>14 DEF vars, Tick
<1>15. ASSUME NEW t \in Tasks, Gateway(t) \/ ProviderEnds(t) \/ LedgerMoves(t) \/ Recover(t)
       PROVE  CoverStays
  BY <1>2, <1>3, <1>4, <1>5, <1>6, <1>12, <1>15 DEF Gateway, CoverStays
<1>16. ASSUME NEW w \in Rounds, Begin(w) \/ Proceed(w) \/ Die(w) PROVE CoverStays
  BY <1>2, <1>7, <1>8, <1>9, <1>10, <1>11, <1>13, <1>16 DEF Proceed, CoverStays
<1> QED BY <1>14, <1>15, <1>16 DEF Next

(* Recovery does not take a lease that covers its task, and every lease    *)
(* that is renewed does: only a submission longer than the grace leaves a  *)
(* task uncovered, and only until the first renewal.                       *)
THEOREM LeasesOutliveTasks == ASSUME GenerationAssumption PROVE Spec => HoldOutlivesTask
<1>1. GInv /\ [Next]_vars => [CoverStays]_vars BY CoverStep
<1> QED BY <1>1, GInvHolds, PTL DEF Spec, HoldOutlivesTask

-----------------------------------------------------------------------------
(* The pages of a round.  It owes a question to every task that was active *)
(* when it began; what it still owes is on its page, or was created after  *)
(* its cursor, or has a twin that ended the page before it.                *)
Paging(w) ==
  rounds[w].pc = "tasks" \/ (rounds[w].pc \in Driving /\ rounds[w].task \in Polled)

Ahead(w, t) ==
  t \in rounds[w].todo \/ tasks[t].created > rounds[w].page \/ Twin(t)

PagesOK(w) ==
  /\ \A t \in rounds[w].owes : tasks[t].status # "none"
  /\ rounds[w].pc = "expired" => rounds[w].page = 0
  /\ Paging(w) => \A t \in rounds[w].owes : tasks[t].status \in Active => Ahead(w, t)
  /\ rounds[w].pc = "polled" => \A t \in rounds[w].owes : tasks[t].status \in Active => Twin(t)

Dated == \A t \in Tasks : tasks[t].status # "none" => tasks[t].created >= 1

PInv == Dated /\ \A w \in Rounds : PagesOK(w)

(* A row keeps its time of creation, and is not active again.              *)
Steady(t) ==
  tasks[t].status # "none" =>
    /\ tasks'[t].status # "none" /\ tasks'[t].created = tasks[t].created
    /\ tasks'[t].status \in Active => tasks[t].status \in Active

LEMMA RowsAreSteady ==
  ASSUME GenerationAssumption, GInv, Dated, [Next]_vars
  PROVE  Dated' /\ \A t \in Tasks : Steady(t)
<1>1. tasks \in [Tasks -> Row] /\ now \in 1 .. MaxTime
  BY DEF GInv, TypeOK
<1>2. ASSUME NEW x \in Tasks, Insert(x) PROVE Dated' /\ \A t \in Tasks : Steady(t)
  <2>1. tasks[x].status = "none"
    BY <1>2 DEF Insert, GInv, TaskOK
  <2>2. tasks'[x].created = now /\ \A t \in Tasks \ {x} : tasks'[t] = tasks[t]
    BY <1>1, <1>2 DEF Insert
  <2> QED
    BY <1>1, <2>1, <2>2 DEF Dated, Steady
<1>3. ASSUME \A t \in Tasks :
               \/ tasks'[t] = tasks[t]
               \/ /\ tasks[t].status \in Active /\ tasks'[t].created = tasks[t].created
                  /\ tasks'[t].status # "none"
      PROVE  Dated' /\ \A t \in Tasks : Steady(t)
  BY <1>3 DEF Dated, Steady, Active
<1>4. ASSUME NEW w \in Rounds, Begin(w) PROVE Dated' /\ \A t \in Tasks : Steady(t)
  BY <1>1, <1>3, <1>4 DEF Begin, Overdue, Row
<1>5. ASSUME NEW w \in Rounds, Renew(w) \/ EndFailed(w) \/ Finish(w)
      PROVE  Dated' /\ \A t \in Tasks : Steady(t)
  <2>1. PICK x \in Tasks : x = rounds[w].task
    <3>1. rounds[w].pc \in Driving
      BY <1>5 DEF Renew, EndFailed, Finish, Driving, Succeeding
    <3> QED
      BY <3>1, DrivenTask
  <2>2. \/ tasks' = tasks
        \/ /\ tasks[x].status \in Active
           /\ \E st \in {"running", "failed", "succeeded"} : tasks' = [tasks EXCEPT ![x].status = st]
    BY <1>5, <2>1 DEF Renew, EndFailed, Finish, CasTerminal, Active
  <2> QED
    BY <1>1, <1>3, <2>2 DEF Row
<1>6. CASE UNCHANGED tasks
  BY <1>3, <1>6
<1>7. ASSUME NEW t \in Tasks,
             \/ Authorize(t) \/ Start(t) \/ Submit(t) \/ SubmitEnds(t) \/ ProviderEnds(t)
             \/ LedgerMoves(t) \/ Recover(t)
      PROVE  UNCHANGED tasks
  BY <1>7 DEF Authorize, Start, Submit, SubmitEnds, ProviderEnds, LedgerMoves, Recover
<1>8. ASSUME NEW w \in Rounds,
             \/ ReleaseExpired(w) \/ ListPolled(w) \/ Query(w) \/ ReleaseFailed(w) \/ ReadStatus(w)
             \/ Charge(w) \/ ListExecuted(w) \/ Execute(w) \/ EndRound(w) \/ Die(w)
      PROVE  UNCHANGED tasks
  BY <1>8 DEF ReleaseExpired, ListPolled, Query, ReleaseFailed, ReadStatus, Charge, ListExecuted,
              Execute, EndRound, Die
<1> QED
  BY <1>2, <1>4, <1>5, <1>6, <1>7, <1>8 DEF Next, Gateway, Proceed, Tick, vars

(* A twin stays one.                                                       *)
LEMMA TwinsStay ==
  ASSUME GenerationAssumption, \A t \in Tasks : Steady(t), NEW t \in Tasks,
         tasks[t].status # "none", Twin(t)
  PROVE  Twin(t)'
<1>1. PICK x \in Polled \ {t} : tasks[x].status # "none" /\ tasks[x].created = tasks[t].created
  BY DEF Twin
<1>2. x \in Tasks /\ Steady(x) /\ Steady(t)
  BY DEF GenerationAssumption
<1> QED
  BY <1>1, <1>2 DEF Twin, Steady

(* A round that turns no page and gives up nothing it owes.                *)
LEMMA PagesStay ==
  ASSUME GenerationAssumption, TypeOK, \A t \in Tasks : Steady(t), NEW w \in Rounds, PagesOK(w),
         rounds'[w].owes \subseteq rounds[w].owes, rounds'[w].page = rounds[w].page,
         Paging(w)' => Paging(w) /\ \A t \in rounds'[w].owes :
                                      t \in rounds[w].todo => t \in rounds'[w].todo,
         rounds'[w].pc \in {"expired", "polled"} => rounds[w].pc = rounds'[w].pc
  PROVE  PagesOK(w)'
<1>1. \A t \in rounds[w].owes : t \in Tasks /\ tasks[t].status # "none" /\ Steady(t)
  BY DEF TypeOK, PagesOK, GenerationAssumption
<1>2. (\A t \in rounds[w].owes : tasks[t].status # "none")'
  BY <1>1 DEF Steady
<1>3. (rounds[w].pc = "expired" => rounds[w].page = 0)'
  BY DEF PagesOK
<1>4. ASSUME Paging(w)', NEW t \in rounds'[w].owes, tasks'[t].status \in Active PROVE Ahead(w, t)'
  <2>1. t \in Tasks /\ tasks[t].status # "none" /\ tasks[t].status \in Active /\ Ahead(w, t)
    BY <1>1, <1>4 DEF Steady, PagesOK
  <2>2. CASE t \in rounds[w].todo
    BY <1>4, <2>2 DEF Ahead
  <2>3. CASE tasks[t].created > rounds[w].page
    BY <1>1, <1>4, <2>1, <2>3 DEF Ahead, Steady
  <2>4. CASE Twin(t)
    <3>1. Twin(t)'
      BY <2>1, <2>4, TwinsStay
    <3> QED
      BY <3>1 DEF Ahead
  <2> QED
    BY <2>1, <2>2, <2>3, <2>4 DEF Ahead
<1>5. ASSUME rounds'[w].pc = "polled", NEW t \in rounds'[w].owes, tasks'[t].status \in Active
      PROVE  Twin(t)'
  <2>1. t \in Tasks /\ tasks[t].status # "none" /\ tasks[t].status \in Active /\ Twin(t)
    BY <1>1, <1>5 DEF Steady, PagesOK
  <2> QED
    BY <2>1, TwinsStay
<1> QED
  BY <1>2, <1>3, <1>4, <1>5 DEF PagesOK

(* A round that begins, or is over.                                        *)
LEMMA BeginPages ==
  ASSUME GenerationAssumption, TypeOK, \A t \in Tasks : Steady(t), NEW w \in Rounds,
         Begin(w) \/ EndRound(w) \/ Die(w)
  PROVE  PagesOK(w)'
<1>1. CASE EndRound(w) \/ Die(w)
  <2>1. rounds'[w] = IdleRound
    BY <1>1 DEF EndRound, Die, TypeOK
  <2> QED
    BY <2>1 DEF PagesOK, IdleRound, Paging, Driving, Succeeding
<1>2. CASE Begin(w)
  <2> DEFINE o == {t \in Polled : tasks[t].status \in Active} \ Overdue
  <2>1. /\ rounds'[w].pc = "expired" /\ rounds'[w].page = 0 /\ rounds'[w].owes = o
    BY <1>2 DEF Begin, TypeOK, IdleRound
  <2>2. \A t \in o : t \in Tasks /\ tasks[t].status # "none"
    BY DEF Active, GenerationAssumption
  <2>3. \A t \in o : tasks'[t].status # "none"
    BY <2>2 DEF Steady
  <2> QED
    BY <2>1, <2>3 DEF PagesOK, Paging, Driving, Succeeding
<1> QED
  BY <1>1, <1>2

(* The next page: a task that is owed and not on it is younger than all    *)
(* that are, or as old as the last of them.                                *)
LEMMA TurnPage ==
  ASSUME GenerationAssumption, GInv, Dated, NEW w \in Rounds, PagesOK(w), ListPolled(w)
  PROVE  PagesOK(w)'
<1>1. TypeOK /\ tasks \in [Tasks -> Row] /\ rounds[w].owes \subseteq Polled /\ Polled \subseteq Tasks
  BY DEF GInv, TypeOK, GenerationAssumption
<1>2. PICK page \in SUBSET Listed(w) :
        /\ Oldest(Listed(w), page)
        /\ rounds' = [rounds EXCEPT ![w].pc = IF page = {} THEN "polled" ELSE "tasks",
                                    ![w].todo = page, ![w].page = NextCursor(page)]
  BY DEF ListPolled
<1>3. /\ tasks' = tasks /\ rounds[w].todo = {} /\ rounds[w].pc \in {"expired", "tasks"}
      /\ rounds'[w].pc = (IF page = {} THEN "polled" ELSE "tasks") /\ rounds'[w].todo = page
      /\ rounds'[w].page = NextCursor(page) /\ rounds'[w].owes = rounds[w].owes
  <2>1. tasks' = tasks /\ rounds[w].todo = {} /\ rounds[w].pc \in {"expired", "tasks"}
    BY DEF ListPolled
  <2>2. PICK c, pc : c = NextCursor(page) /\ pc = IF page = {} THEN "polled" ELSE "tasks"
    OBVIOUS
  <2>3. rounds' = [rounds EXCEPT ![w].pc = pc, ![w].todo = page, ![w].page = c]
    BY <1>2, <2>2
  <2>4. rounds \in [Rounds -> RoundRow]
    BY <1>1, RoundParts
  <2>5. /\ rounds'[w].pc = pc /\ rounds'[w].todo = page /\ rounds'[w].page = c
        /\ rounds'[w].owes = rounds[w].owes
    BY <2>3, <2>4 DEF RoundRow
  <2> QED
    BY <2>1, <2>2, <2>5
<1>4. \A t \in Polled : Twin(t)' <=> Twin(t)
  BY <1>3 DEF Twin
<1>5. ASSUME NEW t \in rounds[w].owes, tasks[t].status \in Active
      PROVE  Twin(t) \/ t \in Listed(w)
  <2>1. CASE rounds[w].pc = "expired"
    BY <1>1, <1>5, <2>1 DEF PagesOK, Dated, Listed, Row, Active
  <2>2. CASE rounds[w].pc = "tasks"
    BY <1>1, <1>3, <1>5, <2>2 DEF PagesOK, Paging, Ahead, Listed
  <2> QED
    BY <1>3, <2>1, <2>2
<1>6. ASSUME NEW t \in Listed(w) \ page
      PROVE  page # {} /\ (tasks[t].created > NextCursor(page) \/ Twin(t))
  <2>1. IsFiniteSet(Listed(w))
    BY FS_Subset DEF Listed, GenerationAssumption
  <2>2. /\ IsFiniteSet(page) /\ Cardinality(page) \in Nat /\ Cardinality(Listed(w)) \in Nat
        /\ Cardinality(page) < Cardinality(Listed(w))
    BY <1>6, <2>1, FS_Subset, FS_CardinalityType
  <2>3. Batch \in Nat \ {0}
    BY DEF GenerationAssumption
  <2>4. Cardinality(page) = Batch
    <3>1. Min({Batch, Cardinality(Listed(w))}) =
            IF Batch <= Cardinality(Listed(w)) THEN Batch ELSE Cardinality(Listed(w))
      BY <2>2, <2>3, MinIs
    <3>2. Cardinality(page) = Min({Batch, Cardinality(Listed(w))})
      BY <1>2 DEF Oldest
    <3> QED
      BY <2>2, <2>3, <3>1, <3>2
  <2>5. page # {}
    BY <2>3, <2>4, FS_EmptySet
  <2> DEFINE S == {tasks[x].created : x \in page}
  <2>6. page \subseteq Polled /\ \A x \in page : tasks[x].status \in Active
    BY DEF Listed
  <2>7. S \in SUBSET (0 .. MaxTime) /\ S # {}
    BY <1>1, <2>5, <2>6 DEF Row
  <2>8. NextCursor(page) = Max(S) /\ Max(S) \in S
    <3>1. Max(S) \in S
      BY <2>7, MaxIsIn DEF GenerationAssumption
    <3>2. ~(Cardinality(page) < Batch)
      BY <2>3, <2>4
    <3>3. NextCursor(page) = Max({tasks[x].created : x \in page})
      BY <3>2, Zenon DEF NextCursor
    <3> QED
      BY <3>1, <3>3
  <2>9. PICK x \in page : NextCursor(page) = tasks[x].created
    BY <2>8
  <2>10. tasks[x].created <= tasks[t].created
    BY <1>2, <1>6 DEF Oldest
  <2>11. x \in Polled \ {t} /\ tasks[x].status # "none" /\ t \in Tasks
    BY <1>1, <1>6, <2>6 DEF Active, Listed
  <2>12. tasks[x].created \in Int /\ tasks[t].created \in Int
    BY <1>1, <2>11 DEF Row
  <2> QED
    BY <2>5, <2>9, <2>10, <2>11, <2>12 DEF Twin
<1>7. \A t \in rounds'[w].owes : tasks'[t].status # "none"
  BY <1>3 DEF PagesOK
<1>8. ASSUME NEW t \in rounds[w].owes, tasks[t].status \in Active
      PROVE  /\ Twin(t) \/ t \in page \/ tasks[t].created > NextCursor(page)
             /\ page = {} => Twin(t)
  BY <1>5, <1>6, <1>8
<1>9. (Paging(w) => \A t \in rounds[w].owes : tasks[t].status \in Active => Ahead(w, t))'
  BY <1>1, <1>3, <1>4, <1>8 DEF Ahead
<1>10. (rounds[w].pc = "polled" => \A t \in rounds[w].owes : tasks[t].status \in Active => Twin(t))'
  BY <1>1, <1>3, <1>4, <1>8
<1> QED
  BY <1>3, <1>7, <1>9, <1>10 DEF PagesOK

(* The other steps of a round turn no page.                                *)
LEMMA OtherSteps ==
  ASSUME GenerationAssumption, GInv, \A t \in Tasks : Steady(t), NEW w \in Rounds, PagesOK(w),
         \/ ReleaseExpired(w) \/ Query(w) \/ Renew(w) \/ EndFailed(w) \/ ReleaseFailed(w)
         \/ ReadStatus(w) \/ Charge(w) \/ Finish(w) \/ ListExecuted(w) \/ Execute(w)
  PROVE  PagesOK(w)'
<1>1. TypeOK /\ RoundOK(w) /\ rounds \in [Rounds -> RoundRow]
  BY RoundParts DEF GInv
<1>2. CASE ReleaseExpired(w)
  <2>1. /\ rounds'[w].pc = "expired" /\ rounds[w].pc = "expired"
        /\ rounds'[w].owes = rounds[w].owes /\ rounds'[w].page = rounds[w].page
    BY <1>1, <1>2 DEF ReleaseExpired, RoundRow
  <2>2. ~Paging(w)'
    BY <2>1 DEF Paging, Driving, Succeeding
  <2> QED
    BY <1>1, <2>1, <2>2, PagesStay
<1>3. CASE Query(w)
  <2>1. PICK t \in rounds[w].todo : \E a \in Answers(t) :
          rounds' = [rounds EXCEPT ![w].pc = IF a = "missing" THEN "tasks" ELSE a,
                                   ![w].task = IF a = "missing" THEN NoTask ELSE t,
                                   ![w].todo = @ \ {t}, ![w].owes = @ \ {t}]
    BY <1>3 DEF Query
  <2>2. Paging(w)
    BY <1>3 DEF Query, Paging
  <2>3. /\ rounds'[w].page = rounds[w].page /\ rounds'[w].owes = rounds[w].owes \ {t}
        /\ rounds'[w].todo = rounds[w].todo \ {t}
    BY <1>1, <2>1 DEF RoundRow
  <2>4. t \in Polled /\ upstream[t] \in {"working", "made", "broken"}
    <3>1. t \in Tasks /\ t \in Polled /\ tasks[t].status # "none"
      BY <1>1, <1>3, RoundParts DEF RoundOK, Query
    <3> QED
      BY <1>1, <3>1 DEF GInv, TaskOK, TypeOK
  <2>5. rounds'[w].pc \in {"tasks", "error", "running", "succeeded", "failed"}
    BY <1>1, <2>1, <2>4 DEF RoundRow, Answers
  <2> QED
    BY <1>1, <2>2, <2>3, <2>5, PagesStay
<1>4. CASE Renew(w) \/ EndFailed(w) \/ ReleaseFailed(w) \/ ReadStatus(w) \/ Charge(w) \/ Finish(w)
  <2>1. rounds[w].pc \in Driving
    BY <1>4 DEF Renew, EndFailed, ReleaseFailed, ReadStatus, Charge, Finish, Driving, Succeeding
  <2>2. rounds' = NextTask(w) \/ \E to \in {"release", "finish", "charge"} : rounds' = Goto(w, to)
    BY <1>4 DEF Renew, EndFailed, ReleaseFailed, ReadStatus, Charge, Finish
  <2>3. /\ rounds'[w].page = rounds[w].page /\ rounds'[w].owes = rounds[w].owes
        /\ rounds'[w].todo = rounds[w].todo /\ rounds'[w].pc \notin {"expired", "polled"}
        /\ Paging(w)' => rounds[w].task \in Polled
    <3>1. CASE rounds' = NextTask(w)
      BY <1>1, <3>1 DEF NextTask, RoundRow, Paging, Driving, Succeeding, GenerationAssumption
    <3>2. ASSUME NEW to \in {"release", "finish", "charge"}, rounds' = Goto(w, to)
          PROVE  /\ rounds'[w].page = rounds[w].page /\ rounds'[w].owes = rounds[w].owes
                 /\ rounds'[w].todo = rounds[w].todo /\ rounds'[w].pc = to
                 /\ rounds'[w].task = rounds[w].task
      BY <1>1, <3>2 DEF Goto, RoundRow
    <3> QED
      BY <2>2, <3>1, <3>2 DEF Paging
  <2>4. Paging(w)' => Paging(w)
    BY <2>1, <2>3 DEF Paging
  <2> QED
    BY <1>1, <2>3, <2>4, PagesStay
<1>5. CASE ListExecuted(w)
  <2>1. PICK page : rounds' = [rounds EXCEPT ![w].pc = "execute", ![w].todo = page]
    BY <1>5 DEF ListExecuted
  <2>2. /\ rounds'[w].pc = "execute" /\ rounds'[w].owes = rounds[w].owes
        /\ rounds'[w].page = rounds[w].page
    BY <1>1, <2>1 DEF RoundRow
  <2>3. ~Paging(w)'
    BY <2>2 DEF Paging, Driving, Succeeding
  <2> QED
    BY <1>1, <2>2, <2>3, PagesStay
<1>6. CASE Execute(w)
  <2>1. PICK t \in rounds[w].todo, a \in {"succeeded", "failed", "missing"} :
          rounds' = [rounds EXCEPT ![w].pc = IF a = "missing" THEN "execute" ELSE a,
                                   ![w].task = IF a = "missing" THEN NoTask ELSE t,
                                   ![w].todo = @ \ {t}]
    BY <1>6 DEF Execute
  <2>2. t \notin Polled
    BY <1>1, <1>6 DEF Execute, RoundOK
  <2>3. /\ rounds'[w].owes = rounds[w].owes /\ rounds'[w].page = rounds[w].page
        /\ rounds'[w].pc = (IF a = "missing" THEN "execute" ELSE a)
        /\ rounds'[w].task = (IF a = "missing" THEN NoTask ELSE t)
    BY <1>1, <2>1 DEF RoundRow
  <2>4. ~Paging(w)' /\ rounds'[w].pc \notin {"expired", "polled"}
    BY <2>2, <2>3 DEF Paging, Driving, Succeeding
  <2> QED
    BY <1>1, <2>3, <2>4, PagesStay
<1> QED
  BY <1>2, <1>3, <1>4, <1>5, <1>6

(* Every step keeps it: of the round itself, and of all the others.        *)
LEMMA StepPInv ==
  ASSUME GenerationAssumption, GInv, PInv, [Next]_vars
  PROVE  PInv'
<1>1. Dated' /\ \A t \in Tasks : Steady(t)
  BY RowsAreSteady DEF PInv
<1>2. TypeOK /\ \A w \in Rounds : PagesOK(w)
  BY DEF GInv, PInv
<1>3. ASSUME NEW w \in Rounds, rounds'[w] = rounds[w] PROVE PagesOK(w)'
  BY <1>1, <1>2, <1>3, PagesStay DEF Paging
<1>4. ASSUME NEW w \in Rounds, Begin(w) \/ Proceed(w) \/ Die(w) PROVE PagesOK(w)'
  BY <1>1, <1>2, <1>4, BeginPages, TurnPage, OtherSteps DEF Proceed, PInv
<1>5. ASSUME NEW v \in Rounds, Begin(v) \/ Proceed(v) \/ Die(v), NEW w \in Rounds \ {v}
      PROVE  rounds'[w] = rounds[w]
  BY <1>2, <1>5 DEF Begin, Proceed, Die, ReleaseExpired, ListPolled, Query, Renew, EndFailed,
       ReleaseFailed, ReadStatus, Charge, Finish, ListExecuted, Execute, EndRound, NextTask, Goto, TypeOK
<1>6. ASSUME UNCHANGED rounds PROVE PInv'
  BY <1>1, <1>3, <1>6 DEF PInv
<1>7. ASSUME NEW t \in Tasks, Gateway(t) \/ ProviderEnds(t) \/ LedgerMoves(t) \/ Recover(t)
      PROVE  UNCHANGED rounds
  BY <1>7 DEF Gateway, Authorize, Start, Submit, Insert, SubmitEnds, ProviderEnds, LedgerMoves, Recover
<1> QED
  BY <1>1, <1>3, <1>4, <1>5, <1>6, <1>7 DEF Next, Tick, vars, PInv

(* However many pages there are, and whatever happens between them, a      *)
(* round asks for every task that was active when it began and still is,   *)
(* unless another one was created at the same time.                        *)
THEOREM NoPageSkips == ASSUME GenerationAssumption PROVE Spec => []NoneIsSkipped
<1>1. Init => PInv
  BY DEF Init, PInv, Dated, PagesOK, IdleRound, Paging, Driving, Succeeding
<1>2. GInv /\ PInv /\ [Next]_vars => PInv'
  BY StepPInv
<1>3. PInv => NoneIsSkipped
  BY DEF PInv, PagesOK, NoneIsSkipped, Missed
<1> QED
  BY <1>1, <1>2, <1>3, GInvHolds, PTL DEF Spec

=============================================================================
