---------------------------- MODULE NotifyProofs ----------------------------
(***************************************************************************)
(* An alert is closed when all who want it have it or the attempts are     *)
(* over, it is sent again only for a claim or an answer that was lost, and *)
(* the last claim counts, for any number of events, channels and workers.  *)
(* A lost lease is paid for once: the worker that held it may still send   *)
(* what it has open, and the claim that follows may send it too.  So every *)
(* copy a channel got is one that was blamed, or the one that is recorded  *)
(* or held by the worker in charge (Balance).                              *)
(***************************************************************************)
EXTENDS Notify, FiniteSetTheorems, TLAPS

RowType ==
  [st : {"none", "pending", "done"}, attempts : 0 .. MaxAttempts, delivered : SUBSET Channels,
   due : BOOLEAN, claim : Nat, live : BOOLEAN, last : Nat]
JobType ==
  [pc : {"idle", "deliver", "complete", "fail"}, event : Events \cup {"none"}, token : Nat,
   open : SUBSET Channels, ok : SUBSET Channels, bad : SUBSET Channels]

Types ==
  /\ fact \in [Events -> {"no", "told", "untold"}] /\ row \in [Events -> RowType]
  /\ job \in [Workers -> JobType] /\ received \in [Events -> [Channels -> Nat]]
  /\ blame \in [Events -> Nat] /\ faults \in 0 .. MaxFaults

AllGot(e) == \A c \in Wants[e] : received[e][c] > 0

(* An event is written once, and closed for a reason.                      *)
RowOK(e) ==
  /\ fact[e] # "told" => row[e].st = "none"
  /\ fact[e] = "untold" => e \notin InTransaction
  /\ fact[e] = "told" /\ e \in InTransaction => row[e].st # "none"
  /\ row[e].st = "none" => row[e].attempts = 0
  /\ row[e].claim # NoClaim => row[e].st = "pending" /\ row[e].claim = row[e].last
  /\ row[e].st = "pending" => row[e].attempts < MaxAttempts
  /\ row[e].delivered \subseteq Wants[e] /\ \A c \in row[e].delivered : received[e][c] > 0
  /\ row[e].st = "done" => row[e].attempts = MaxAttempts \/ AllGot(e)

(* The worker in charge of an event.                                       *)
InCharge(w, e) ==
  /\ job[w].pc # "idle" /\ job[w].event = e
  /\ row[e].st = "pending" /\ row[e].claim = job[w].token /\ row[e].live

(* What a worker has found out, and what is recorded of it.                *)
JobOK(w) ==
  LET e == job[w].event j == job[w] IN
  IF j.pc = "idle" THEN j = Idle
  ELSE /\ e \in Events /\ row[e].st # "none" /\ j.token \in 1 .. row[e].last
       /\ j.open \cup j.ok \cup j.bad \subseteq Wants[e] /\ j.open \cap j.ok = {}
       /\ \A c \in j.ok : received[e][c] > 0
       /\ j.pc = "deliver" => \A c \in Wants[e] : received[e][c] > 0 \/ c \in j.open \cup j.bad
       /\ j.pc # "deliver" => j.open = {}
       /\ j.pc = "complete" => AllGot(e)
       /\ InCharge(w, e) => /\ j.open \cap row[e].delivered = {}
                            /\ j.pc # "deliver" => j.ok \subseteq row[e].delivered

Apart ==
  \A v, w \in Workers :
    job[v].pc # "idle" /\ job[v].event = job[w].event /\ job[v].token = job[w].token => v = w

(* Those that have lost their claim and may still send to c.               *)
Stale(e, c) ==
  {w \in Workers : job[w].event = e /\ c \in job[w].open /\ ~InCharge(w, e)}
Recorded(e, c) ==
  c \in row[e].delivered \/ \E w \in Workers : InCharge(w, e) /\ c \in job[w].ok
Balance(e, c) ==
  received[e][c] + Cardinality(Stale(e, c)) <= blame[e] + (IF Recorded(e, c) THEN 1 ELSE 0)

NInv ==
  /\ Types /\ (\A e \in Events : RowOK(e)) /\ (\A w \in Workers : JobOK(w)) /\ Apart
  /\ \A e \in Events, c \in Channels : Balance(e, c)

-----------------------------------------------------------------------------
LEMMA InitNInv == ASSUME NotifyAssumption, Init PROVE NInv
<1> USE DEF Init, Idle
<1>1. Types
  <2>1. row \in [Events -> RowType] BY DEF RowType, NoClaim, NotifyAssumption
  <2>2. job \in [Workers -> JobType] BY DEF JobType
  <2>3. blame \in [Events -> Nat] /\ faults \in 0 .. MaxFaults BY DEF NotifyAssumption
  <2> QED BY <2>1, <2>2, <2>3 DEF Types
<1>2. \A e \in Events : RowOK(e) BY DEF RowOK, NoClaim
<1>3. \A w \in Workers : JobOK(w) BY DEF JobOK
<1>4. Apart BY DEF Apart
<1>5. ASSUME NEW e \in Events, NEW c \in Channels PROVE Balance(e, c)
  <2>1. Stale(e, c) = {} BY DEF Stale
  <2>2. Cardinality(Stale(e, c)) = 0 BY <2>1, FS_EmptySet
  <2> QED BY <2>2 DEF Balance
<1> QED BY <1>1, <1>2, <1>3, <1>4, <1>5 DEF NInv

(* The numbers of a balance are numbers.                                   *)
LEMMA StaleIsFinite ==
  ASSUME NotifyAssumption, NEW e, NEW c
  PROVE  IsFiniteSet(Stale(e, c)) /\ Cardinality(Stale(e, c)) \in Nat
<1>1. Stale(e, c) \subseteq Workers BY DEF Stale
<1> QED BY <1>1, FS_Subset, FS_CardinalityType DEF NotifyAssumption

LEMMA Numbers ==
  ASSUME NotifyAssumption, Types, NEW e \in Events, NEW c \in Channels
  PROVE  received[e][c] \in Nat /\ blame[e] \in Nat /\ Cardinality(Stale(e, c)) \in Nat
BY StaleIsFinite DEF Types

(* One worker is in charge of an event, and its claim is the last one.     *)
LEMMA OneInCharge ==
  ASSUME NInv, NEW e \in Events, NEW v \in Workers, NEW w \in Workers,
         InCharge(v, e), InCharge(w, e)
  PROVE  v = w
BY DEF NInv, Apart, InCharge

LEMMA NobodyInCharge ==
  ASSUME NInv, NEW e \in Events, row[e].claim = NoClaim \/ ~row[e].live, NEW w \in Workers
  PROVE  ~InCharge(w, e)
BY DEF NInv, JobOK, InCharge, NoClaim, Types, RowType, JobType

-----------------------------------------------------------------------------
(* A step about the event e, as far as the others go.                      *)

Of(w, e) == job[w].event = e \/ job[w] = Idle
OnlyEvent(e) ==
  \A f \in Events \ {e} : fact'[f] = fact[f] /\ row'[f] = row[f] /\ received'[f] = received[f]
                          /\ blame'[f] = blame[f]

(* The event itself: what was found out of it stays true.                  *)
Forward(e) ==
  /\ row[e].st # "none" => row'[e].st # "none"
  /\ row[e].last <= row'[e].last
  /\ \A c \in Channels : received[e][c] <= received'[e][c]

(* A worker that does nothing comes in charge of nothing.                  *)
StaysAs(w, e) ==
  job'[w] = job[w] /\ (InCharge(w, e)' => InCharge(w, e) /\ row'[e].delivered = row[e].delivered)

LEMMA JobStays ==
  ASSUME NotifyAssumption, Types, Types', NEW e \in Events, NEW w \in Workers, JobOK(w),
         OnlyEvent(e), Forward(e), StaysAs(w, e)
  PROVE  JobOK(w)'
<1> DEFINE f == job[w].event
<1>1. CASE job[w].pc = "idle" BY <1>1 DEF JobOK, StaysAs, Idle
<1>2. CASE job[w].pc # "idle" /\ f # e
  <2>1. f \in Events \ {e} BY <1>2 DEF JobOK
  <2>2. /\ row'[f] = row[f] /\ received'[f] = received[f] /\ job'[w] = job[w]
    BY <2>1 DEF OnlyEvent, StaysAs
  <2> QED BY <1>2, <2>2 DEF JobOK, InCharge, AllGot
<1>3. CASE job[w].pc # "idle" /\ f = e
  <2>1. /\ row[e] \in RowType /\ row'[e] \in RowType /\ job[w] \in JobType
        /\ Wants[e] \subseteq Channels /\ \A c \in Channels : received[e][c] \in Nat
        /\ \A c \in Channels : received'[e][c] \in Nat
    BY DEF Types, NotifyAssumption
  <2>2. job'[w] = job[w] /\ (InCharge(w, e)' => InCharge(w, e) /\ row'[e].delivered = row[e].delivered)
    BY DEF StaysAs
  <2>3. \A c \in Channels : received[e][c] > 0 => received'[e][c] > 0 BY <2>1 DEF Forward
  <2>4. job[w].token \in 1 .. row[e].last => job[w].token \in 1 .. row'[e].last
    BY <2>1 DEF Forward, RowType, JobType
  <2>5. job[w].ok \subseteq Channels BY <2>1 DEF JobType
  <2> QED BY <1>3, <2>1, <2>2, <2>3, <2>4, <2>5 DEF JobOK, AllGot, Forward
<1> QED BY <1>1, <1>2, <1>3

LEMMA OtherEvents ==
  ASSUME NInv, NEW e \in Events, OnlyEvent(e), NEW f \in Events \ {e},
         \A w \in Workers : job'[w] = job[w] \/ (Of(w, e) /\ Of(w, e)')
  PROVE  RowOK(f)' /\ \A c \in Channels : Balance(f, c)'
<1>1. fact'[f] = fact[f] /\ row'[f] = row[f] /\ received'[f] = received[f] /\ blame'[f] = blame[f]
  BY DEF OnlyEvent
<1>2. RowOK(f)' BY <1>1 DEF NInv, RowOK, AllGot
<1>3. ASSUME NEW w \in Workers
      PROVE  /\ InCharge(w, f)' <=> InCharge(w, f)
             /\ \A c : (job'[w].event = f /\ c \in job'[w].open)
                         <=> (job[w].event = f /\ c \in job[w].open)
             /\ InCharge(w, f) => job'[w] = job[w]
  BY <1>1 DEF InCharge, Of, Idle
<1>4. ASSUME NEW c \in Channels PROVE Balance(f, c)'
  <2>1. Stale(f, c)' = Stale(f, c) BY <1>3 DEF Stale
  <2>2. Recorded(f, c)' <=> Recorded(f, c) BY <1>1, <1>3 DEF Recorded
  <2> QED BY <1>1, <2>1, <2>2 DEF NInv, Balance
<1> QED BY <1>2, <1>4

LEMMA OneEvent ==
  ASSUME NotifyAssumption, NInv, NEW e \in Events, OnlyEvent(e), Forward(e), Types', Apart',
         \A w \in Workers : StaysAs(w, e) \/ (Of(w, e) /\ Of(w, e)' /\ JobOK(w)'),
         RowOK(e)', \A c \in Channels : Balance(e, c)'
  PROVE  NInv'
<1>1. \A w \in Workers : JobOK(w)' BY JobStays DEF NInv
<1>2. \A w \in Workers : job'[w] = job[w] \/ (Of(w, e) /\ Of(w, e)') BY DEF StaysAs
<1>3. \A f \in Events \ {e} : RowOK(f)' /\ \A c \in Channels : Balance(f, c)'
  BY <1>2, OtherEvents
<1> QED BY <1>1, <1>3 DEF NInv

(* Nobody's charge changes, nothing is sent and nothing forgotten.         *)
LEMMA BalanceStays ==
  ASSUME NotifyAssumption, Types, Types', NEW e \in Events, NEW c \in Channels, Balance(e, c),
         Stale(e, c)' = Stale(e, c), Recorded(e, c) => Recorded(e, c)',
         received'[e][c] = received[e][c], blame[e] <= blame'[e]
  PROVE  Balance(e, c)'
<1>1. /\ received[e][c] \in Nat /\ blame[e] \in Nat /\ Cardinality(Stale(e, c)) \in Nat
      /\ blame'[e] \in Nat
  BY Numbers DEF Types
<1> QED BY <1>1 DEF Balance

(* Nobody is in charge before or after, and no worker moves.               *)
LEMMA RowOnly ==
  ASSUME NotifyAssumption, NInv, NEW e \in Events, OnlyEvent(e), Forward(e), Types',
         job' = job, RowOK(e)', received' = received, blame[e] <= blame'[e],
         row'[e].delivered = row[e].delivered,
         \A w \in Workers : InCharge(w, e)' <=> InCharge(w, e)
  PROVE  NInv'
<1>1. \A w \in Workers : StaysAs(w, e) BY DEF StaysAs
<1>2. Apart' BY DEF NInv, Apart
<1>3. ASSUME NEW c \in Channels PROVE Balance(e, c)'
  <2>1. Stale(e, c)' = Stale(e, c) BY DEF Stale
  <2>2. Recorded(e, c) => Recorded(e, c)' BY DEF Recorded
  <2> QED BY <2>1, <2>2, BalanceStays DEF NInv
<1> QED BY <1>1, <1>2, <1>3, OneEvent

LEMMA InsertIs ==
  ASSUME NotifyAssumption, NInv, NEW e \in Events, fact[e] # "told", Insert(e),
         fact' = [fact EXCEPT ![e] = "told"], UNCHANGED <<job, received, blame>>,
         faults' \in 0 .. MaxFaults
  PROVE  NInv'
<1>1. Types /\ RowOK(e) /\ row[e] \in RowType /\ row[e].st = "none"
  BY DEF NInv, Types, RowOK
<1>2. row' \in [Events -> RowType] BY <1>1 DEF Insert, Types, RowType
<1>3. /\ row'[e] = [row[e] EXCEPT !.st = "pending"]
      /\ \A f \in Events \ {e} : row'[f] = row[f]
  BY <1>1 DEF Insert, Types
<1>4. /\ row'[e].st = "pending" /\ row'[e].attempts = row[e].attempts
      /\ row'[e].claim = row[e].claim /\ row'[e].live = row[e].live
      /\ row'[e].last = row[e].last /\ row'[e].delivered = row[e].delivered
  BY <1>1, <1>3 DEF RowType
<1>5. Types' BY <1>1, <1>2 DEF Types
<1>6. OnlyEvent(e) BY <1>1, <1>3 DEF OnlyEvent, Types
<1>7. Forward(e) BY <1>1, <1>4 DEF Forward, RowType, Types
<1>8. row[e].claim = NoClaim BY <1>1 DEF RowOK
<1>9. RowOK(e)'
  <2>1. fact'[e] = "told" BY <1>1 DEF Types
  <2>2. row[e].attempts < MaxAttempts BY <1>1 DEF RowOK, NotifyAssumption
  <2> QED BY <1>1, <1>4, <1>8, <2>1, <2>2 DEF RowOK
<1>10. \A w \in Workers : ~InCharge(w, e)' /\ ~InCharge(w, e)
  BY <1>1, <1>4, <1>8, NobodyInCharge DEF InCharge, NInv, JobOK
<1>11. blame[e] <= blame'[e] BY <1>1 DEF Types
<1> QED BY <1>4, <1>5, <1>6, <1>7, <1>9, <1>10, <1>11, RowOnly

LEMMA HappenStep ==
  ASSUME NotifyAssumption, NInv, NEW e \in Events, Happen(e) \/ Tell(e)
  PROVE  NInv'
<1>1. Types /\ RowOK(e) /\ fact[e] # "told" BY DEF NInv, Happen, Tell
<1>2. faults' \in 0 .. MaxFaults BY <1>1 DEF Happen, Tell, Fault, Types, NotifyAssumption
<1>3. CASE Insert(e) /\ fact' = [fact EXCEPT ![e] = "told"] /\ UNCHANGED <<job, received, blame>>
  BY <1>1, <1>2, <1>3, InsertIs
<1>4. CASE /\ e \notin InTransaction
           /\ \/ fact' = [fact EXCEPT ![e] = "untold"]
              \/ fact' = [fact EXCEPT ![e] = "told"]
           /\ UNCHANGED <<row, job, received, blame>>
  <2>1. Types' BY <1>1, <1>2, <1>4 DEF Types
  <2>2. OnlyEvent(e) BY <1>1, <1>4 DEF OnlyEvent, Types
  <2>3. Forward(e) BY <1>1, <1>4 DEF Forward, Types, RowType
  <2>4. row[e].st = "none" BY <1>1 DEF RowOK
  <2>5. RowOK(e)'
    <3>1. row'[e] = row[e] /\ received'[e] = received[e] BY <1>4
    <3>2. RowOK(e) /\ e \notin InTransaction BY <1>1, <1>4
    <3> QED BY <2>4, <3>1, <3>2 DEF RowOK, AllGot
  <2>6. \A w \in Workers : InCharge(w, e)' <=> InCharge(w, e) BY <1>4 DEF InCharge
  <2>7. blame[e] <= blame'[e] BY <1>1, <1>4 DEF Types
  <2> QED BY <1>4, <2>1, <2>2, <2>3, <2>5, <2>6, <2>7, RowOnly
<1>5. Tell(e) => e \notin InTransaction BY <1>1 DEF Tell, RowOK
<1> QED BY <1>3, <1>4, <1>5 DEF Happen, Tell

LEMMA DueStep ==
  ASSUME NotifyAssumption, NInv, NEW e \in Events, Due(e)
  PROVE  NInv'
<1>1. Types /\ RowOK(e) /\ row[e] \in RowType BY DEF NInv, Types
<1>2. /\ row' = [row EXCEPT ![e].due = TRUE] /\ UNCHANGED <<fact, job, received, blame, faults>>
  BY DEF Due
<1>3. row' \in [Events -> RowType] BY <1>1, <1>2 DEF Types, RowType
<1>4. /\ row'[e].st = row[e].st /\ row'[e].attempts = row[e].attempts
      /\ row'[e].claim = row[e].claim /\ row'[e].live = row[e].live
      /\ row'[e].last = row[e].last /\ row'[e].delivered = row[e].delivered
      /\ \A f \in Events \ {e} : row'[f] = row[f]
  BY <1>1, <1>2 DEF Types, RowType
<1>5. Types' BY <1>1, <1>2, <1>3 DEF Types
<1>6. OnlyEvent(e) BY <1>2, <1>4 DEF OnlyEvent
<1>7. Forward(e) BY <1>1, <1>2, <1>4 DEF Forward, RowType, Types
<1>8. RowOK(e)' BY <1>1, <1>2, <1>4 DEF RowOK, AllGot
<1>9. \A w \in Workers : InCharge(w, e)' <=> InCharge(w, e) BY <1>2, <1>4 DEF InCharge
<1>10. blame[e] <= blame'[e] BY <1>1, <1>2 DEF Types
<1> QED BY <1>2, <1>4, <1>5, <1>6, <1>7, <1>8, <1>9, <1>10, RowOnly

(* The lease of a claim runs out: who held it is blamed for what it may    *)
(* still send, or for what it has not recorded.                            *)
LEMMA LeaseEndsStep ==
  ASSUME NotifyAssumption, NInv, NEW e \in Events, LeaseEnds(e)
  PROVE  NInv'
<1>1. Types /\ RowOK(e) /\ row[e] \in RowType /\ row[e].live BY DEF NInv, Types, LeaseEnds
<1>2. /\ row' = [row EXCEPT ![e].live = FALSE] /\ UNCHANGED <<fact, job, received>>
      /\ \/ blame' = [blame EXCEPT ![e] = @ + 1]
         \/ /\ blame' = blame
            /\ \A w \in Workers : job[w].event = e => job[w].token # row[e].claim
      /\ faults' \in 0 .. MaxFaults
  BY <1>1 DEF LeaseEnds, Blamed, Fault, Types, NotifyAssumption
<1>3. row' \in [Events -> RowType] BY <1>1, <1>2 DEF Types, RowType
<1>4. /\ row'[e].st = row[e].st /\ row'[e].attempts = row[e].attempts
      /\ row'[e].claim = row[e].claim /\ ~row'[e].live
      /\ row'[e].last = row[e].last /\ row'[e].delivered = row[e].delivered
      /\ \A f \in Events \ {e} : row'[f] = row[f]
  BY <1>1, <1>2 DEF Types, RowType
<1>5. /\ blame' \in [Events -> Nat] /\ \A f \in Events \ {e} : blame'[f] = blame[f]
      /\ blame[e] \in Nat /\ blame'[e] \in {blame[e], blame[e] + 1}
  <2>1. blame \in [Events -> Nat] BY <1>1 DEF Types
  <2>2. CASE blame' = [blame EXCEPT ![e] = @ + 1] BY <2>1, <2>2
  <2>3. CASE blame' = blame BY <2>1, <2>3
  <2> QED BY <1>2, <2>2, <2>3
<1>6. Types' BY <1>1, <1>2, <1>3, <1>5 DEF Types
<1>7. OnlyEvent(e) BY <1>2, <1>4, <1>5 DEF OnlyEvent
<1>8. Forward(e) BY <1>1, <1>2, <1>4 DEF Forward, RowType, Types
<1>9. RowOK(e)' BY <1>1, <1>2, <1>4 DEF RowOK, AllGot
<1>10. \A w \in Workers : ~InCharge(w, e)' BY <1>4 DEF InCharge
<1>11. \A w \in Workers : StaysAs(w, e) BY <1>2, <1>10 DEF StaysAs
<1>12. Apart' BY <1>2 DEF NInv, Apart
<1>13. ASSUME NEW c \in Channels PROVE Balance(e, c)'
  <2>1. CASE \E w \in Workers : InCharge(w, e)
    <3>1. PICK w \in Workers : InCharge(w, e) BY <2>1
    <3>2. blame'[e] = blame[e] + 1
      BY <1>1, <1>2, <3>1 DEF InCharge, Types
    <3>3. \A v \in Workers : InCharge(v, e) => v = w BY <3>1, OneInCharge
    <3>4. JobOK(w) /\ w \notin Stale(e, c) BY <3>1 DEF NInv, Stale
    <3>5. Balance(e, c) BY DEF NInv
    <3>6. received[e][c] \in Nat /\ Cardinality(Stale(e, c)) \in Nat /\ IsFiniteSet(Stale(e, c))
      BY <1>1, Numbers, StaleIsFinite
    <3>7. CASE c \in job[w].open
      <4>1. Stale(e, c)' = Stale(e, c) \cup {w}
        BY <1>2, <1>10, <3>1, <3>3, <3>7 DEF Stale, InCharge
      <4>2. Cardinality(Stale(e, c)') = Cardinality(Stale(e, c)) + 1
        BY <3>4, <3>6, <4>1, FS_AddElement
      <4>3. c \notin job[w].ok BY <3>1, <3>4, <3>7 DEF JobOK, InCharge
      <4>4. Recorded(e, c) => Recorded(e, c)' BY <1>4, <3>3, <4>3 DEF Recorded
      <4> QED BY <1>2, <1>5, <3>2, <3>5, <3>6, <4>2, <4>4 DEF Balance
    <3>8. CASE c \notin job[w].open
      <4>1. Stale(e, c)' = Stale(e, c) BY <1>2, <1>10, <3>3, <3>8 DEF Stale
      <4> QED BY <1>2, <1>5, <3>2, <3>5, <3>6, <4>1 DEF Balance
    <3> QED BY <3>7, <3>8
  <2>2. CASE \A w \in Workers : ~InCharge(w, e)
    <3>1. Stale(e, c)' = Stale(e, c) BY <1>2, <1>10, <2>2 DEF Stale
    <3>2. Recorded(e, c) => Recorded(e, c)' BY <1>4, <2>2 DEF Recorded
    <3>3. Balance(e, c) BY DEF NInv
    <3> QED BY <1>1, <1>2, <1>5, <1>6, <3>1, <3>2, <3>3, BalanceStays
  <2> QED BY <2>1, <2>2
<1> QED BY <1>6, <1>7, <1>8, <1>9, <1>11, <1>12, <1>13, OneEvent

-----------------------------------------------------------------------------
LEMMA ClaimStep ==
  ASSUME NotifyAssumption, NInv, NEW w \in Workers, NEW e \in Events, Claim(w, e)
  PROVE  NInv'
<1> DEFINE token == row[e].last + 1
<1> DEFINE to == Wants[e] \ row[e].delivered
<1> DEFINE pc == IF to = {} THEN "complete" ELSE "deliver"
<1> DEFINE next == [Idle EXCEPT !.event = e, !.token = token, !.open = to, !.pc = pc]
<1>1. Types /\ RowOK(e) /\ row[e] \in RowType BY DEF NInv, Types
<1>2. /\ job[w] = Idle /\ row[e].st = "pending" /\ Free(e)
      /\ row' = [row EXCEPT ![e].claim = token, ![e].last = token, ![e].live = TRUE]
      /\ job' = [job EXCEPT ![w] = next] /\ UNCHANGED <<fact, received, blame, faults>>
  BY DEF Claim
<1>3. token \in Nat /\ token > row[e].last /\ token # NoClaim BY <1>1 DEF RowType, NoClaim
<1>4. to \in SUBSET Channels /\ to \subseteq Wants[e] BY DEF NotifyAssumption
<1>5. /\ next \in JobType /\ next.pc = pc /\ next.event = e /\ next.token = token
      /\ next.open = to /\ next.ok = {} /\ next.bad = {}
  <2> HIDE DEF token, to
  <2> QED BY <1>3, <1>4 DEF JobType, Idle
<1> HIDE DEF next
<1>6. job' \in [Workers -> JobType] /\ job'[w] = next /\ \A v \in Workers \ {w} : job'[v] = job[v]
  BY <1>1, <1>2, <1>5 DEF Types
<1>7. /\ row' \in [Events -> RowType] /\ \A f \in Events \ {e} : row'[f] = row[f]
      /\ row'[e].st = "pending" /\ row'[e].attempts = row[e].attempts
      /\ row'[e].delivered = row[e].delivered
      /\ row'[e].claim = token /\ row'[e].last = token /\ row'[e].live
  <2> HIDE DEF token
  <2> QED BY <1>1, <1>2, <1>3 DEF Types, RowType
<1> HIDE DEF token
<1>8. Types' BY <1>1, <1>2, <1>6, <1>7 DEF Types
<1>9. OnlyEvent(e) BY <1>2, <1>7 DEF OnlyEvent
<1>10. Forward(e) BY <1>1, <1>2, <1>3, <1>7 DEF Forward, Types, RowType
<1>11. RowOK(e)' BY <1>1, <1>2, <1>7 DEF RowOK, AllGot
<1>12. \A v \in Workers : ~InCharge(v, e) BY <1>2, NobodyInCharge DEF Free
<1>13. ASSUME NEW v \in Workers \ {w} PROVE ~InCharge(v, e)' /\ StaysAs(v, e)
  <2>1. job'[v] = job[v] /\ JobOK(v) /\ job[v] \in JobType BY <1>1, <1>6 DEF NInv, Types
  <2>2. job[v].pc # "idle" /\ job[v].event = e => job[v].token # token
    BY <1>1, <1>3, <2>1 DEF JobOK, JobType, RowType
  <2>3. ~InCharge(v, e)' BY <1>7, <2>1, <2>2 DEF InCharge
  <2> QED BY <2>1, <2>3 DEF StaysAs
<1>14. ASSUME NEW c \in Wants[e] \ to PROVE received[e][c] > 0
  BY <1>1 DEF RowOK
<1>15. JobOK(w)'
  <2>1. \A c \in Wants[e] : received'[e][c] > 0 \/ c \in to BY <1>2, <1>14
  <2>2. to = {} => AllGot(e)' BY <1>2, <2>1 DEF AllGot
  <2>3. token \in 1 .. row'[e].last BY <1>3, <1>7 DEF NoClaim
  <2>4. to \cap row'[e].delivered = {} BY <1>7
  <2> HIDE DEF to
  <2> QED BY <1>4, <1>5, <1>6, <1>7, <2>1, <2>2, <2>3, <2>4 DEF JobOK
<1>16. Of(w, e) /\ Of(w, e)' BY <1>2, <1>5, <1>6 DEF Of
<1>17. Apart'
  <2>1. ASSUME NEW v \in Workers \ {w}, job[v].pc # "idle", job[v].event = e
        PROVE  job[v].token # token
    BY <1>1, <1>3, <2>1 DEF NInv, JobOK, Types, JobType, RowType
  <2>2. ASSUME NEW v \in Workers \ {w}, job[v].pc = "idle" PROVE job[v].token = 0
    BY <2>2 DEF NInv, JobOK, Idle
  <2> QED BY <1>3, <1>5, <1>6, <2>1, <2>2 DEF NInv, Apart, NoClaim
<1>18. InCharge(w, e)' BY <1>5, <1>6, <1>7 DEF InCharge
<1>19. ASSUME NEW c \in Channels PROVE Balance(e, c)'
  <2>1. w \notin Stale(e, c) /\ w \notin Stale(e, c)' BY <1>2, <1>18 DEF Stale, Idle
  <2>2. Stale(e, c)' = Stale(e, c) BY <1>6, <1>12, <1>13, <2>1 DEF Stale
  <2>3. Recorded(e, c) => Recorded(e, c)' BY <1>7, <1>12 DEF Recorded
  <2>4. blame[e] <= blame'[e] BY <1>1, <1>2 DEF Types
  <2> QED BY <1>1, <1>2, <1>8, <2>2, <2>3, <2>4, BalanceStays DEF NInv
<1> QED BY <1>8, <1>9, <1>10, <1>11, <1>13, <1>15, <1>16, <1>17, <1>19, OneEvent

(* A delivery ends: c got it or not, and the worker believes it or not.    *)
LEMMA DeliverStep ==
  ASSUME NotifyAssumption, NInv, NEW w \in Workers, NEW c \in Channels, Deliver(w, c)
  PROVE  NInv'
<1>1. Types /\ JobOK(w) /\ job[w] \in JobType /\ job[w].pc = "deliver" /\ c \in job[w].open
  BY DEF NInv, Types, Deliver
<1>2. PICK e \in Events : e = job[w].event BY <1>1 DEF JobOK
<1>3. row[e] \in RowType /\ RowOK(e) /\ Wants[e] \subseteq Channels /\ c \in Wants[e]
  BY <1>1, <1>2 DEF NInv, Types, JobOK, NotifyAssumption
<1>4. UNCHANGED <<fact, row>> BY DEF Deliver
<1>5. PICK n \in {0, 1}, b \in {0, 1}, good \in BOOLEAN :
        /\ good => n = 1
        /\ ~good => n = b
        /\ received' = [received EXCEPT ![e][c] = @ + n]
        /\ blame' = [blame EXCEPT ![e] = @ + b]
        /\ job' = IF good THEN [job EXCEPT ![w].open = @ \ {c}, ![w].ok = @ \cup {c}]
                  ELSE [job EXCEPT ![w].open = @ \ {c}, ![w].bad = @ \cup {c}]
        /\ faults' \in 0 .. MaxFaults
  <2>1. CASE /\ received' = [received EXCEPT ![e][c] = @ + 1]
             /\ job' = [job EXCEPT ![w].open = @ \ {c}, ![w].ok = @ \cup {c}]
             /\ UNCHANGED <<blame, faults>>
    <3>1. blame' = [blame EXCEPT ![e] = @ + 0] BY <1>1, <2>1 DEF Types
    <3>2. faults' \in 0 .. MaxFaults BY <1>1, <2>1 DEF Types
    <3> QED BY <2>1, <3>1, <3>2
  <2>2. CASE /\ job' = [job EXCEPT ![w].open = @ \ {c}, ![w].bad = @ \cup {c}]
             /\ Fault /\ UNCHANGED <<received, blame>>
    <3>1. blame' = [blame EXCEPT ![e] = @ + 0] BY <1>1, <2>2 DEF Types
    <3>2. received' = [received EXCEPT ![e][c] = @ + 0] BY <1>1, <2>2 DEF Types
    <3>3. faults' \in 0 .. MaxFaults BY <1>1, <2>2 DEF Types, Fault, NotifyAssumption
    <3> QED BY <2>2, <3>1, <3>2, <3>3
  <2>3. CASE /\ job' = [job EXCEPT ![w].open = @ \ {c}, ![w].bad = @ \cup {c}]
             /\ Blamed(e) /\ received' = [received EXCEPT ![e][c] = @ + 1]
    <3>1. faults' \in 0 .. MaxFaults BY <1>1, <2>3 DEF Types, Blamed, Fault, NotifyAssumption
    <3> QED BY <2>3, <3>1 DEF Blamed
  <2> QED BY <1>2, <2>1, <2>2, <2>3 DEF Deliver
<1>6. /\ received' \in [Events -> [Channels -> Nat]]
      /\ \A f \in Events \ {e} : received'[f] = received[f]
      /\ \A d \in Channels \ {c} : received'[e][d] = received[e][d]
      /\ received[e][c] \in Nat /\ received'[e][c] = received[e][c] + n
  BY <1>1, <1>5 DEF Types
<1>7. /\ blame' \in [Events -> Nat] /\ \A f \in Events \ {e} : blame'[f] = blame[f]
      /\ blame[e] \in Nat /\ blame'[e] = blame[e] + b
  BY <1>1, <1>5 DEF Types
<1>8. /\ job' \in [Workers -> JobType] /\ \A v \in Workers \ {w} : job'[v] = job[v]
      /\ job'[w].pc = "deliver" /\ job'[w].event = e /\ job'[w].token = job[w].token
      /\ job'[w].open = job[w].open \ {c}
      /\ job'[w].ok = IF good THEN job[w].ok \cup {c} ELSE job[w].ok
      /\ job'[w].bad = IF good THEN job[w].bad ELSE job[w].bad \cup {c}
  <2>1. job \in [Workers -> JobType] BY <1>1 DEF Types
  <2>2. CASE good BY <1>1, <1>2, <1>5, <2>1, <2>2 DEF JobType
  <2>3. CASE ~good BY <1>1, <1>2, <1>5, <2>1, <2>3 DEF JobType
  <2> QED BY <2>2, <2>3
<1>9. Types' BY <1>1, <1>4, <1>5, <1>6, <1>7, <1>8 DEF Types
<1>10. OnlyEvent(e) BY <1>4, <1>6, <1>7 DEF OnlyEvent
<1>11. Forward(e)
  <2>1. \A d \in Channels : received[e][d] <= received'[e][d] BY <1>1, <1>6 DEF Types
  <2> QED BY <1>3, <1>4, <2>1 DEF Forward, RowType
<1>12. \A d \in Channels : received[e][d] > 0 => received'[e][d] > 0 BY <1>1, <1>6 DEF Types
<1>13. RowOK(e)' BY <1>3, <1>4, <1>12 DEF RowOK, AllGot
<1>14. \A v \in Workers : InCharge(v, e)' <=> InCharge(v, e)
  BY <1>1, <1>2, <1>4, <1>8 DEF InCharge
<1>15. JobOK(w)'
  <2>1. good => received'[e][c] > 0 BY <1>5, <1>6
  <2>2. \A d \in job'[w].ok : received'[e][d] > 0
    BY <1>1, <1>2, <1>8, <1>12, <2>1 DEF JobOK, JobType
  <2>3. \A d \in Wants[e] : received'[e][d] > 0 \/ d \in job'[w].open \cup job'[w].bad
    BY <1>1, <1>2, <1>3, <1>8, <1>12, <2>1 DEF JobOK
  <2>4. job'[w].open \cup job'[w].ok \cup job'[w].bad \subseteq Wants[e]
        /\ job'[w].open \cap job'[w].ok = {}
    BY <1>1, <1>2, <1>3, <1>8 DEF JobOK
  <2>5. InCharge(w, e)' => job'[w].open \cap row'[e].delivered = {}
    BY <1>1, <1>2, <1>4, <1>8, <1>14 DEF JobOK
  <2> QED BY <1>1, <1>2, <1>4, <1>8, <2>2, <2>3, <2>4, <2>5 DEF JobOK
<1>16. \A v \in Workers : StaysAs(v, e) \/ (Of(v, e) /\ Of(v, e)' /\ JobOK(v)')
  BY <1>2, <1>4, <1>8, <1>14, <1>15 DEF StaysAs, Of
<1>17. Apart' BY <1>1, <1>2, <1>8 DEF NInv, Apart
<1>18. ASSUME NEW d \in Channels \ {c} PROVE Balance(e, d)'
  <2>1. Stale(e, d)' = Stale(e, d) BY <1>2, <1>8, <1>14 DEF Stale
  <2>2. Recorded(e, d) => Recorded(e, d)' BY <1>4, <1>8, <1>14 DEF Recorded
  <2>3. blame[e] <= blame'[e] BY <1>7
  <2> QED BY <1>1, <1>6, <1>9, <2>1, <2>2, <2>3, BalanceStays DEF NInv
<1>19. Balance(e, c)'
  <2>1. Balance(e, c) BY DEF NInv
  <2>2. Cardinality(Stale(e, c)) \in Nat /\ IsFiniteSet(Stale(e, c)) BY StaleIsFinite
  <2>3. CASE InCharge(w, e)
    <3>1. Stale(e, c)' = Stale(e, c) BY <1>8, <1>14, <2>3 DEF Stale
    <3>2. ~Recorded(e, c)
      <4>1. \A v \in Workers : InCharge(v, e) => v = w BY <2>3, OneInCharge
      <4>2. c \notin row[e].delivered /\ c \notin job[w].ok BY <1>1, <1>2, <2>3 DEF JobOK
      <4> QED BY <4>1, <4>2 DEF Recorded
    <3>3. good => Recorded(e, c)' BY <1>8, <1>14, <2>3 DEF Recorded
    <3> QED BY <1>5, <1>6, <1>7, <2>1, <2>2, <3>1, <3>2, <3>3 DEF Balance
  <2>4. CASE ~InCharge(w, e)
    <3>1. w \in Stale(e, c) BY <1>1, <1>2, <2>4 DEF Stale
    <3>2. Stale(e, c)' = Stale(e, c) \ {w} BY <1>8, <1>14 DEF Stale
    <3>3. Cardinality(Stale(e, c)') = Cardinality(Stale(e, c)) - 1
      BY <2>2, <3>1, <3>2, FS_RemoveElement
    <3>4. Recorded(e, c) <=> Recorded(e, c)' BY <1>4, <1>8, <1>14, <2>4 DEF Recorded
    <3> QED BY <1>5, <1>6, <1>7, <2>1, <2>2, <3>3, <3>4 DEF Balance
  <2> QED BY <2>3, <2>4
<1> QED BY <1>9, <1>10, <1>11, <1>13, <1>16, <1>17, <1>18, <1>19, OneEvent

-----------------------------------------------------------------------------
(* A worker that is done with an event and has nothing to send any more    *)
(* lets go of it, closing its claim if it still holds it.                  *)
LEMMA LetsGo ==
  ASSUME NotifyAssumption, NInv, NEW w \in Workers, NEW e \in Events, job[w].event = e,
         job[w].pc # "idle", job[w].open = {}, job' = [job EXCEPT ![w] = Idle],
         UNCHANGED <<fact, received, blame, faults>>, row' \in [Events -> RowType],
         \A f \in Events \ {e} : row'[f] = row[f],
         \/ row' = row /\ ~InCharge(w, e)
         \/ /\ job[w].pc # "deliver" /\ InCharge(w, e)
            /\ row'[e].st # "none" /\ row'[e].claim = NoClaim /\ ~row'[e].live
            /\ row'[e].last = row[e].last /\ row'[e].delivered = row[e].delivered /\ RowOK(e)'
  PROVE  NInv'
<1>1. Types /\ RowOK(e) /\ JobOK(w) /\ row[e] \in RowType /\ job[w] \in JobType
  BY DEF NInv, Types
<1>2. Idle \in JobType BY DEF Idle, JobType
<1>3. /\ job' \in [Workers -> JobType] /\ job'[w] = Idle
      /\ \A v \in Workers \ {w} : job'[v] = job[v]
  BY <1>1, <1>2 DEF Types
<1>4. Types' BY <1>1, <1>3 DEF Types
<1>5. OnlyEvent(e) BY DEF OnlyEvent
<1>6. Forward(e) BY <1>1 DEF Forward, Types, RowType
<1>7. RowOK(e)' BY <1>1 DEF RowOK, AllGot
<1>8. \A v \in Workers : InCharge(v, e)' <=> InCharge(v, e) /\ v # w
  <2>1. ~InCharge(w, e)' BY <1>3 DEF InCharge, Idle
  <2>2. ASSUME NEW v \in Workers \ {w} PROVE InCharge(v, e)' <=> InCharge(v, e)
    <3>1. CASE row' = row BY <1>3, <3>1 DEF InCharge
    <3>2. CASE InCharge(w, e) /\ ~row'[e].live
      BY <3>2, OneInCharge DEF InCharge
    <3> QED BY <3>1, <3>2
  <2> QED BY <2>1, <2>2
<1>9. JobOK(w)' /\ Of(w, e) /\ Of(w, e)' BY <1>3 DEF JobOK, Of, Idle
<1>10. \A v \in Workers \ {w} : StaysAs(v, e) BY <1>3, <1>8 DEF StaysAs
<1>11. Apart'
  <2>1. \A v \in Workers : job'[v].pc # "idle" => v # w /\ job'[v] = job[v]
    BY <1>3 DEF Idle
  <2>2. \A v \in Workers : job[v].pc # "idle" => job[v].token # 0
    BY <1>1 DEF NInv, JobOK, Types, JobType, RowType
  <2> QED BY <1>3, <2>1, <2>2 DEF NInv, Apart, Idle
<1>12. ASSUME NEW c \in Channels PROVE Balance(e, c)'
  <2>1. Stale(e, c)' = Stale(e, c) BY <1>3, <1>8 DEF Stale, Idle
  <2>2. Recorded(e, c) => Recorded(e, c)'
    <3>1. CASE c \in row[e].delivered BY <3>1 DEF Recorded
    <3>2. CASE InCharge(w, e) /\ c \in job[w].ok
      <4>1. c \in row[e].delivered BY <1>1, <3>2 DEF JobOK
      <4> QED BY <4>1 DEF Recorded
    <3>3. CASE \E v \in Workers \ {w} : InCharge(v, e) /\ c \in job[v].ok
      BY <1>3, <1>8, <3>3 DEF Recorded
    <3> QED BY <3>1, <3>2, <3>3 DEF Recorded
  <2>3. blame[e] <= blame'[e] BY <1>1 DEF Types
  <2> QED BY <1>1, <1>4, <2>1, <2>2, <2>3, BalanceStays DEF NInv
<1> QED BY <1>4, <1>5, <1>6, <1>7, <1>9, <1>10, <1>11, <1>12, OneEvent

LEMMA RowMoves ==
  ASSUME Types, NEW e \in Events, NEW next \in RowType, row' = [row EXCEPT ![e] = next]
  PROVE  row' \in [Events -> RowType] /\ row'[e] = next /\ \A f \in Events \ {e} : row'[f] = row[f]
BY DEF Types

LEMMA CloseStep ==
  ASSUME NotifyAssumption, NInv, NEW w \in Workers, Complete(w) \/ FailClaim(w)
  PROVE  NInv'
<1>1. Types /\ JobOK(w) /\ job[w] \in JobType /\ job[w].pc \in {"complete", "fail"}
  BY DEF NInv, Types, Complete, FailClaim
<1>2. PICK e \in Events : e = job[w].event BY <1>1 DEF JobOK
<1>3. row[e] \in RowType /\ RowOK(e) /\ job[w].open = {} BY <1>1, <1>2 DEF NInv, Types, JobOK
<1>4. Holds(w) <=> InCharge(w, e) BY <1>1, <1>2 DEF Holds, InCharge
<1>5. job' = [job EXCEPT ![w] = Idle] /\ UNCHANGED <<fact, received, blame, faults>>
  BY DEF Complete, FailClaim
<1>6. CASE ~Holds(w)
  <2>1. row' = row BY <1>6 DEF Complete, FailClaim
  <2> QED BY <1>1, <1>2, <1>3, <1>4, <1>5, <1>6, <2>1, LetsGo DEF Types
<1>7. CASE Complete(w) /\ Holds(w)
  <2>1. /\ row' = [row EXCEPT ![e].st = "done", ![e].attempts = @ + 1, ![e].claim = NoClaim,
                              ![e].live = FALSE]
        /\ row[e].st = "pending" /\ job[w].pc = "complete"
    BY <1>2, <1>7 DEF Complete, Holds
  <2>2. row[e].attempts + 1 \in 0 .. MaxAttempts
    BY <1>3, <2>1 DEF RowOK, RowType, NotifyAssumption
  <2>3. /\ row' \in [Events -> RowType] /\ \A f \in Events \ {e} : row'[f] = row[f]
        /\ row'[e].st = "done" /\ row'[e].claim = NoClaim /\ ~row'[e].live
        /\ row'[e].last = row[e].last /\ row'[e].delivered = row[e].delivered
    <3> DEFINE n == row[e].attempts + 1
    <3> HIDE DEF n
    <3>1. row' = [row EXCEPT ![e].st = "done", ![e].attempts = n, ![e].claim = NoClaim,
                             ![e].live = FALSE]
      BY <2>1 DEF n
    <3>2. n \in 0 .. MaxAttempts BY <2>2 DEF n
    <3> DEFINE next == [row[e] EXCEPT !.st = "done", !.attempts = n, !.claim = 0, !.live = FALSE]
    <3>3. /\ next \in RowType /\ next.st = "done" /\ next.claim = 0 /\ ~next.live
          /\ next.last = row[e].last /\ next.delivered = row[e].delivered
      BY <1>3, <3>2 DEF RowType
    <3>4. row' = [row EXCEPT ![e] = next] BY <1>1, <3>1 DEF Types, NoClaim
    <3> HIDE DEF next
    <3> QED BY <1>1, <3>3, <3>4, RowMoves DEF NoClaim
  <2>4. AllGot(e)' BY <1>1, <1>2, <1>5, <2>1 DEF JobOK, AllGot
  <2>5. RowOK(e)' BY <1>3, <1>5, <2>1, <2>3, <2>4 DEF RowOK
  <2> QED BY <1>1, <1>2, <1>3, <1>4, <1>5, <1>7, <2>3, <2>5, LetsGo
<1>8. CASE FailClaim(w) /\ Holds(w)
  <2> DEFINE over == GiveUp(row[e].attempts)
  <2> DEFINE n == row[e].attempts + 1
  <2>1. /\ row' = [row EXCEPT ![e].st = IF over THEN "done" ELSE @, ![e].attempts = n,
                              ![e].due = over, ![e].claim = NoClaim, ![e].live = FALSE]
        /\ row[e].st = "pending"
    BY <1>2, <1>8 DEF FailClaim, Holds
  <2>2. n \in 0 .. MaxAttempts /\ over \in BOOLEAN /\ (over => n = MaxAttempts)
        /\ (~over => n < MaxAttempts)
    BY <1>3, <2>1 DEF RowOK, RowType, GiveUp, NotifyAssumption
  <2> HIDE DEF n, over
  <2>3. /\ row' \in [Events -> RowType] /\ \A f \in Events \ {e} : row'[f] = row[f]
        /\ row'[e].st = IF over THEN "done" ELSE "pending"
        /\ row'[e].attempts = n
        /\ row'[e].claim = NoClaim /\ ~row'[e].live
        /\ row'[e].last = row[e].last /\ row'[e].delivered = row[e].delivered
    <3> DEFINE st == IF over THEN "done" ELSE row[e].st
    <3> DEFINE next == [row[e] EXCEPT !.st = st, !.attempts = n, !.due = over, !.claim = 0,
                                      !.live = FALSE]
    <3>1. st \in {"pending", "done"} /\ st = IF over THEN "done" ELSE "pending" BY <2>1
    <3> HIDE DEF st
    <3>2. /\ next \in RowType /\ next.st = st /\ next.attempts = n /\ next.claim = 0 /\ ~next.live
          /\ next.last = row[e].last /\ next.delivered = row[e].delivered
      BY <1>3, <2>2, <3>1 DEF RowType
    <3>3. row' = [row EXCEPT ![e] = next] BY <1>1, <2>1 DEF Types, NoClaim, st
    <3> HIDE DEF next
    <3> QED BY <1>1, <3>1, <3>2, <3>3, RowMoves DEF NoClaim
  <2>4. RowOK(e)' BY <1>3, <1>5, <2>1, <2>2, <2>3 DEF RowOK, AllGot
  <2> QED BY <1>1, <1>2, <1>3, <1>4, <1>5, <1>8, <2>3, <2>4, LetsGo
<1> QED BY <1>6, <1>7, <1>8

(* What was delivered is recorded, by the worker that is in charge.        *)
LEMMA RecordStep ==
  ASSUME NotifyAssumption, NInv, NEW w \in Workers, Record(w)
  PROVE  NInv'
<1>1. Types /\ JobOK(w) /\ job[w] \in JobType /\ job[w].pc = "deliver" /\ job[w].open = {}
  BY DEF NInv, Types, Record
<1>2. PICK e \in Events : e = job[w].event BY <1>1 DEF JobOK
<1>3. row[e] \in RowType /\ RowOK(e) BY DEF NInv, Types
<1>4. Holds(w) <=> InCharge(w, e) BY <1>1, <1>2 DEF Holds, InCharge
<1>5. UNCHANGED <<fact, received, blame, faults>> BY DEF Record
<1>6. CASE job[w].ok # {} /\ ~Holds(w)
  <2>1. job' = [job EXCEPT ![w] = Idle] /\ row' = row BY <1>6 DEF Record
  <2> QED BY <1>1, <1>2, <1>4, <1>5, <1>6, <2>1, LetsGo DEF Types
<1>7. CASE job[w].ok = {} \/ Holds(w)
  <2> DEFINE pc == IF AllOk(w) THEN "complete" ELSE "fail"
  <2> DEFINE d == row[e].delivered \cup job[w].ok
  <2>1. /\ row' = [row EXCEPT ![e].delivered = @ \cup job[w].ok]
        /\ job' = [job EXCEPT ![w].pc = pc]
    BY <1>2, <1>7 DEF Record, Progress
  <2>2. /\ job' \in [Workers -> JobType] /\ \A v \in Workers \ {w} : job'[v] = job[v]
        /\ job'[w].pc = pc /\ job'[w].event = e /\ job'[w].token = job[w].token
        /\ job'[w].open = {} /\ job'[w].ok = job[w].ok /\ job'[w].bad = job[w].bad
    <3>1. pc \in {"complete", "fail"} OBVIOUS
    <3> HIDE DEF pc
    <3> QED BY <1>1, <1>2, <2>1, <3>1 DEF Types, JobType
  <2>3. /\ row' \in [Events -> RowType] /\ \A f \in Events \ {e} : row'[f] = row[f]
        /\ row'[e].st = row[e].st /\ row'[e].attempts = row[e].attempts
        /\ row'[e].claim = row[e].claim /\ row'[e].live = row[e].live
        /\ row'[e].last = row[e].last /\ row'[e].delivered = d
    <3>1. d \in SUBSET Channels BY <1>1, <1>3 DEF RowType, JobType
    <3>2. row' = [row EXCEPT ![e].delivered = d] BY <1>1, <2>1 DEF Types
    <3> HIDE DEF d
    <3> QED BY <1>1, <1>3, <3>1, <3>2 DEF Types, RowType
  <2>4. Types' BY <1>1, <1>5, <2>2, <2>3 DEF Types
  <2>5. OnlyEvent(e) BY <1>5, <2>3 DEF OnlyEvent
  <2>6. Forward(e) BY <1>1, <1>3, <1>5, <2>3 DEF Forward, Types, RowType
  <2>7. RowOK(e)' BY <1>1, <1>2, <1>3, <1>5, <2>3 DEF RowOK, JobOK, AllGot
  <2>8. \A v \in Workers : InCharge(v, e)' <=> InCharge(v, e)
    BY <1>1, <1>2, <2>2, <2>3 DEF InCharge
  <2>9. ASSUME NEW v \in Workers \ {w} PROVE StaysAs(v, e)
    <3>1. InCharge(v, e) => d = row[e].delivered
      BY <1>4, <1>7, OneInCharge
    <3> QED BY <2>2, <2>3, <2>8, <3>1 DEF StaysAs
  <2>10. JobOK(w)'
    <3>1. AllOk(w) => AllGot(e)' BY <1>1, <1>2, <1>5 DEF JobOK, AllOk, AllGot
    <3>2. job[w].ok \subseteq d OBVIOUS
    <3>3. \A c \in job[w].ok : received'[e][c] > 0 BY <1>1, <1>2, <1>5 DEF JobOK
    <3>4. job[w].token \in 1 .. row'[e].last /\ row'[e].st # "none"
      BY <1>1, <1>2, <2>3 DEF JobOK
    <3>5. job[w].ok \cup job[w].bad \subseteq Wants[e] BY <1>1, <1>2 DEF JobOK
    <3> QED BY <2>2, <2>3, <3>1, <3>2, <3>3, <3>4, <3>5 DEF JobOK
  <2>11. Of(w, e) /\ Of(w, e)' BY <1>2, <2>2 DEF Of
  <2>12. Apart' BY <1>1, <1>2, <2>2 DEF NInv, Apart
  <2>13. ASSUME NEW c \in Channels PROVE Balance(e, c)'
    <3>1. Stale(e, c)' = Stale(e, c) BY <1>1, <2>2, <2>8 DEF Stale
    <3>2. Recorded(e, c) => Recorded(e, c)' BY <2>2, <2>3, <2>8 DEF Recorded
    <3>3. blame[e] <= blame'[e] BY <1>1, <1>5 DEF Types
    <3> QED BY <1>1, <1>5, <2>4, <3>1, <3>2, <3>3, BalanceStays DEF NInv
  <2> QED BY <2>4, <2>5, <2>6, <2>7, <2>9, <2>10, <2>11, <2>12, <2>13, OneEvent
<1> QED BY <1>6, <1>7

(* A worker dies with its claim.                                           *)
LEMMA DieStep ==
  ASSUME NotifyAssumption, NInv, NEW w \in Workers, Die(w)
  PROVE  NInv'
<1>1. Types /\ JobOK(w) /\ job[w] \in JobType /\ job[w] # Idle /\ job[w].pc # "idle"
  BY DEF NInv, Types, Die, JobOK
<1>2. PICK e \in Events : e = job[w].event BY <1>1 DEF JobOK
<1>3. /\ UNCHANGED <<fact, row, received>> /\ job' = [job EXCEPT ![w] = Idle]
      /\ blame' = [blame EXCEPT ![e] = @ + 1] /\ faults' \in 0 .. MaxFaults
  BY <1>1, <1>2 DEF Die, Blamed, Fault, Types, NotifyAssumption
<1>4. /\ job' \in [Workers -> JobType] /\ job'[w] = Idle
      /\ \A v \in Workers \ {w} : job'[v] = job[v]
  BY <1>1, <1>3 DEF Types, Idle, JobType
<1>5. /\ blame' \in [Events -> Nat] /\ blame[e] \in Nat /\ blame'[e] = blame[e] + 1
      /\ \A f \in Events \ {e} : blame'[f] = blame[f]
  BY <1>1, <1>3 DEF Types
<1>6. Types' BY <1>1, <1>3, <1>4, <1>5 DEF Types
<1>7. OnlyEvent(e) BY <1>3, <1>5 DEF OnlyEvent
<1>8. Forward(e) BY <1>1, <1>3 DEF Forward, Types, RowType
<1>9. RowOK(e)' BY <1>3 DEF NInv, RowOK, AllGot
<1>10. \A v \in Workers : InCharge(v, e)' <=> InCharge(v, e) /\ v # w
  BY <1>3, <1>4 DEF InCharge, Idle
<1>11. \A v \in Workers \ {w} : StaysAs(v, e) BY <1>3, <1>4, <1>10 DEF StaysAs
<1>12. JobOK(w)' /\ Of(w, e) /\ Of(w, e)' BY <1>2, <1>4 DEF JobOK, Of, Idle
<1>13. Apart'
  <2>1. \A v \in Workers : job'[v].pc # "idle" => v # w /\ job'[v] = job[v]
    BY <1>4 DEF Idle
  <2>2. \A v \in Workers : job[v].pc # "idle" => job[v].token # 0
    BY <1>1 DEF NInv, JobOK, Types, JobType, RowType
  <2> QED BY <1>4, <2>1, <2>2 DEF NInv, Apart, Idle
<1>14. ASSUME NEW c \in Channels PROVE Balance(e, c)'
  <2>1. Stale(e, c)' = Stale(e, c) \ {w} BY <1>4, <1>10 DEF Stale, Idle
  <2>2. IsFiniteSet(Stale(e, c)) /\ received[e][c] \in Nat /\ Cardinality(Stale(e, c)) \in Nat
    BY <1>1, StaleIsFinite, Numbers
  <2>3. Cardinality(Stale(e, c)') \in Nat /\ Cardinality(Stale(e, c)') <= Cardinality(Stale(e, c))
    <3>1. CASE w \in Stale(e, c)
      <4>1. Cardinality(Stale(e, c)') = Cardinality(Stale(e, c)) - 1 /\ Cardinality(Stale(e, c)) > 0
        BY <2>1, <2>2, <3>1, FS_RemoveElement, FS_EmptySet
      <4> QED BY <2>2, <4>1
    <3>2. CASE w \notin Stale(e, c) BY <2>1, <2>2, <3>2
    <3> QED BY <3>1, <3>2
  <2>4. Balance(e, c) BY DEF NInv
  <2> QED BY <1>3, <1>5, <2>2, <2>3, <2>4 DEF Balance
<1> QED BY <1>6, <1>7, <1>8, <1>9, <1>11, <1>12, <1>13, <1>14, OneEvent

-----------------------------------------------------------------------------
LEMMA StepNInv == ASSUME NotifyAssumption, NInv, [Next]_vars PROVE NInv'
<1>1. CASE UNCHANGED vars
  <2> USE <1>1 DEF vars
  <2>1. Types' BY DEF NInv, Types
  <2>2. \A e \in Events : RowOK(e)' BY DEF NInv, RowOK, AllGot
  <2>3. \A w \in Workers : JobOK(w)' BY DEF NInv, JobOK, InCharge, AllGot
  <2>4. Apart' BY DEF NInv, Apart
  <2>5. \A e \in Events, c \in Channels : Balance(e, c)'
    BY DEF NInv, Balance, Stale, Recorded, InCharge
  <2> QED BY <2>1, <2>2, <2>3, <2>4, <2>5 DEF NInv
<1>2. ASSUME NEW e \in Events, Happen(e) \/ Tell(e) \/ LeaseEnds(e) \/ Due(e) PROVE NInv'
  BY <1>2, HappenStep, LeaseEndsStep, DueStep
<1>3. ASSUME NEW w \in Workers, NEW e \in Events, Claim(w, e) PROVE NInv'
  BY <1>3, ClaimStep
<1>4. ASSUME NEW w \in Workers, NEW c \in Channels, Deliver(w, c) PROVE NInv'
  BY <1>4, DeliverStep
<1>5. ASSUME NEW w \in Workers, Record(w) \/ Complete(w) \/ FailClaim(w) \/ Die(w) PROVE NInv'
  BY <1>5, RecordStep, CloseStep, DieStep
<1> QED BY <1>1, <1>2, <1>3, <1>4, <1>5 DEF Next

(* The invariant, for any number of events, channels, workers and faults.  *)
THEOREM NInvHolds == ASSUME NotifyAssumption PROVE Spec => []NInv
<1>1. Init => NInv BY InitNInv
<1>2. NInv /\ [Next]_vars => NInv' BY StepNInv
<1> QED BY <1>1, <1>2, PTL DEF Spec

(* Every variable of the outbox keeps its type, and the columns of a claim *)
(* are filled only while the event is pending.                             *)
THEOREM NotifyTypes == ASSUME NotifyAssumption PROVE Spec => []TypeOK
<1>1. NInv => TypeOK
  <2> SUFFICES ASSUME NInv PROVE TypeOK OBVIOUS
  <2>1. \A e \in Events :
          /\ row[e].st \in {"none", "pending", "done"} /\ row[e].delivered \subseteq Wants[e]
          /\ row[e].claim # NoClaim => row[e].st = "pending"
          /\ row[e].attempts \in 0 .. MaxAttempts
          /\ row[e].st = "pending" => row[e].attempts < MaxAttempts
          /\ row[e].st = "none" => fact[e] # "told" \/ e \notin InTransaction
    BY DEF NInv, RowOK, Types, RowType
  <2>2. \A w \in Workers : job[w].pc \in {"idle", "deliver", "complete", "fail"}
    BY DEF NInv, Types, JobType
  <2> QED BY <2>1, <2>2 DEF TypeOK, NInv, Types
<1> QED BY <1>1, NInvHolds, PTL

(* An event is closed when all who want it have got it, or after the last  *)
(* attempt, whoever closes it and whatever claims came in between.         *)
THEOREM ClosedMeansDelivered == ASSUME NotifyAssumption PROVE Spec => []ClosedIsDelivered
<1>1. NInv => ClosedIsDelivered BY DEF NInv, RowOK, AllGot, ClosedIsDelivered
<1> QED BY <1>1, NInvHolds, PTL

(* Nobody gets an alert again without a claim or an answer that was lost.  *)
THEOREM OneCopyButForLosses == ASSUME NotifyAssumption PROVE Spec => []ResentOnlyAfterLoss
<1>1. ASSUME NotifyAssumption, NInv, NEW e \in Events, NEW c \in Channels
      PROVE  received[e][c] <= 1 + blame[e]
  BY <1>1, Numbers DEF NInv, Balance
<1>2. NotifyAssumption /\ NInv => ResentOnlyAfterLoss BY <1>1 DEF ResentOnlyAfterLoss
<1> QED BY <1>2, NInvHolds, PTL

(* A worker whose claim was taken over changes nothing that the new one    *)
(* relies on: the last worker to claim an event closes it.                 *)
THEOREM TheLastClaimCounts == ASSUME NotifyAssumption PROVE Spec => [][LastClaimCounts]_vars
<1>1. NInv /\ [Next]_vars => [LastClaimCounts]_vars
  <2> SUFFICES ASSUME NInv, Next, NEW e \in Events, NEW w \in Workers, job[w].event = e,
                      job[w].pc \in {"complete", "fail"}, job'[w] = Idle,
                      row'[e].attempts # row[e].attempts
               PROVE  job[w].token = row[e].last
    BY DEF LastClaimCounts
  <2>1. job'[w] # job[w] BY DEF Idle
  <2>2. ASSUME NEW v \in Workers, v # w, job' = [job EXCEPT ![v] = job'[v]] PROVE FALSE
    BY <2>1, <2>2 DEF NInv, Types
  <2>3. CASE Complete(w) \/ FailClaim(w)
    <3>1. Holds(w) BY <2>3 DEF Complete, FailClaim
    <3>2. RowOK(e) /\ row[e].claim = job[w].token /\ job[w].token # NoClaim
      BY <3>1 DEF Holds, NInv, JobOK, NoClaim, Types, RowType, JobType
    <3> QED BY <3>2 DEF RowOK
  <2>4. CASE Die(w) BY <2>4 DEF Die
  <2> QED
    <3>1. \A f \in Events : (Happen(f) \/ Tell(f) \/ LeaseEnds(f) \/ Due(f)) => job' = job
      BY DEF Happen, Tell, LeaseEnds, Due
    <3>2. ASSUME NEW v \in Workers, NEW f \in Events, Claim(v, f) PROVE v # w /\ job' = [job EXCEPT ![v] = job'[v]]
      BY <3>2 DEF Claim, NInv, Types, Idle
    <3>3. ASSUME NEW v \in Workers, NEW c \in Channels, Deliver(v, c) PROVE v # w /\ job' = [job EXCEPT ![v] = job'[v]]
      BY <3>3 DEF Deliver, NInv, Types
    <3>4. ASSUME NEW v \in Workers, Record(v) PROVE v # w /\ job' = [job EXCEPT ![v] = job'[v]]
      BY <3>4 DEF Record, NInv, Types
    <3>5. ASSUME NEW v \in Workers, v # w, Complete(v) \/ FailClaim(v) \/ Die(v)
          PROVE  job' = [job EXCEPT ![v] = job'[v]]
      BY <3>5 DEF Complete, FailClaim, Die, NInv, Types
    <3> QED BY <2>1, <2>2, <2>3, <2>4, <3>1, <3>2, <3>3, <3>4, <3>5 DEF Next
<1> QED BY <1>1, NInvHolds, PTL DEF Spec

=============================================================================
