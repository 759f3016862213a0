----------------------------- MODULE Generation -----------------------------
(***************************************************************************)
(* Asynchronous generation tasks: the gateway authorizes and registers a   *)
(* task, rounds of the workers' poller drive it to its end and tell the    *)
(* ledger.  Rounds overlap: every worker process has a timer of its own,   *)
(* and a timer starts a round while the last one still runs.  A round may  *)
(* die between any two of its steps.                                       *)
(* The ledger is seen from here through the status of the bill, the        *)
(* receipt it accepted and its lease; module Billing has the rest.  Time   *)
(* is a clock of MaxTime ticks, beyond which no lease reaches.             *)
(***************************************************************************)
EXTENDS Integers, FiniteSets, FiniteSetsExt

CONSTANTS
  Tasks,
  Polled,        (* the tasks of kinds that are polled upstream; a worker   *)
                 (* executes the others itself                              *)
  Rounds,        (* rounds that may be in progress at the same time         *)
  Batch,         (* rows on a page                                          *)
  TTL, Grace,    (* taskTtlMs, leaseGraceMs, in ticks                       *)
  MinLease,      (* config.leaseMs of the poller                            *)
  MaxTime, NoReceipt, NoTask

GenerationAssumption ==
  /\ IsFiniteSet(Tasks) /\ Polled \subseteq Tasks
  /\ Batch \in Nat \ {0} /\ TTL \in Nat \ {0} /\ MinLease \in Nat \ {0}
  /\ Grace \in Nat
  /\ MaxTime \in Nat \ {0} /\ NoReceipt \notin Nat /\ NoTask \notin Tasks

VARIABLES
  now,
  tasks,     (* generation_tasks rows                                       *)
  bills,     (* billing_requests rows, as far as tasks go                   *)
  submits,   (* submitGeneration calls                                      *)
  upstream,  (* what the provider has made of a task                        *)
  rounds

vars == <<now, tasks, bills, submits, upstream, rounds>>

Active   == {"queued", "running"}
Ended    == {"succeeded", "failed", "expired"}
Uncharged == {"none", "authorized", "in_flight"}
Due      == {"settlement_pending", "processing", "retry_wait", "dead"}

Row  == [status : {"none"} \cup Active \cup Ended,
         created : 0 .. MaxTime, expires : 0 .. MaxTime]
Bill == [status : Uncharged \cup Due \cup {"settled", "released"},
         receipt : (0 .. MaxTime) \cup {NoReceipt},   \* told by its duration
         lease : 0 .. MaxTime]

IdleRound == [pc |-> "idle", todo |-> {}, task |-> NoTask, page |-> 0, owes |-> {}]

Init ==
  /\ now = 1
  /\ tasks = [t \in Tasks |-> [status |-> "none", created |-> 0, expires |-> 0]]
  /\ bills = [t \in Tasks |->
                [status |-> "none", receipt |-> NoReceipt, lease |-> 0]]
  /\ submits  = [t \in Tasks |-> "new"]
  /\ upstream = [t \in Tasks |-> "nothing"]
  /\ rounds = [w \in Rounds |-> IdleRound]

-----------------------------------------------------------------------------
(* The ledger's signals, as one step each.                                 *)
Larger(x, y) == IF x >= y THEN x ELSE y

Released(t) == IF bills[t].status \in {"authorized", "in_flight"}
                 THEN [bills EXCEPT ![t].status = "released"] ELSE bills

Until(time) == Min({time, MaxTime})
Renewed(t, time) == IF bills[t].status = "in_flight"
                      THEN [bills EXCEPT ![t].lease = Until(time)] ELSE bills

(* request.succeeded: the receipt carries the time since the task was      *)
(* created, so the one a later round builds is another receipt.            *)
Replayed(t) == /\ bills[t].status \in {"settlement_pending", "settled"}
               /\ bills[t].receipt = now
Accepts(t) == bills[t].status \in {"authorized", "in_flight"}

Accepted(t) == IF Accepts(t)
                 THEN [bills EXCEPT ![t].status = "settlement_pending",
                                    ![t].receipt = now]
                 ELSE bills

(* What the consumer of the ledger and the review of dead rows do.         *)
LedgerMoves(t) ==
  /\ \/ bills[t].status \in {"settlement_pending", "retry_wait"}
        /\ bills' = [bills EXCEPT ![t].status = "processing"]
     \/ bills[t].status = "processing"
        /\ \E s \in {"settled", "retry_wait", "dead"} :
             bills' = [bills EXCEPT ![t].status = s]
     \/ bills[t].status = "dead"
        /\ \E s \in {"retry_wait", "released"} :
             bills' = [bills EXCEPT ![t].status = s]
  /\ UNCHANGED <<now, tasks, submits, upstream, rounds>>

(* recover: the lease of an open request ran out.                          *)
Recover(t) ==
  /\ bills[t].status \in {"authorized", "in_flight"}
  /\ bills[t].lease <= now
  /\ bills' = [bills EXCEPT ![t].status = "released"]
  /\ UNCHANGED <<now, tasks, submits, upstream, rounds>>

-----------------------------------------------------------------------------
(* submitGeneration, in the gateway.                                       *)

Authorize(t) ==
  /\ submits[t] = "new"
  /\ submits' = [submits EXCEPT ![t] = "authorized"]
  /\ bills' = [bills EXCEPT ![t].status = "authorized",
                            ![t].lease = Until(now + TTL + Grace)]
  /\ UNCHANGED <<now, tasks, upstream, rounds>>

(* The channel is reserved and the lease starts; a task that a worker is   *)
(* to execute goes to the insert, any other to the provider.               *)
Start(t) ==
  /\ submits[t] = "authorized" /\ bills[t].status = "authorized"
  /\ now + TTL + Grace <= MaxTime                                  \* bound
  /\ submits' = [submits EXCEPT ![t] =
                   IF t \in Polled THEN "submitting" ELSE "inserting"]
  /\ bills' = [bills EXCEPT ![t].status = "in_flight",
                            ![t].lease = Until(now + TTL + Grace)]
  /\ UNCHANGED <<now, tasks, upstream, rounds>>

(* The provider takes the task; or no channel will, and all is released.   *)
Submit(t) ==
  /\ submits[t] = "submitting"
  /\ \/ /\ submits'  = [submits EXCEPT ![t] = "inserting"]
        /\ upstream' = [upstream EXCEPT ![t] = "working"]
        /\ UNCHANGED bills
     \/ /\ submits' = [submits EXCEPT ![t] = "over"]
        /\ bills' = Released(t)
        /\ UNCHANGED upstream
  /\ UNCHANGED <<now, tasks, rounds>>

(* The task ends TTL from now, however long the submission has taken; the  *)
(* lease still counts from its start, and may have run out meanwhile.      *)
Insert(t) ==
  /\ submits[t] = "inserting"
  /\ now + TTL <= MaxTime                                          \* bound
  /\ submits' = [submits EXCEPT ![t] = "over"]
  /\ tasks' = [tasks EXCEPT ![t] = [status |-> "queued", created |-> now,
                                    expires |-> now + TTL]]
  /\ UNCHANGED <<now, bills, upstream, rounds>>

(* The insert fails, or the gateway dies: nothing is released here, the    *)
(* provider may be at work.                                                *)
SubmitEnds(t) ==
  /\ submits[t] \in {"authorized", "submitting", "inserting"}
  /\ submits' = [submits EXCEPT ![t] = "over"]
  /\ UNCHANGED <<now, tasks, bills, upstream, rounds>>

(* The provider finishes a task it was given.                              *)
ProviderEnds(t) ==
  /\ upstream[t] = "working"
  /\ \E s \in {"made", "broken"} : upstream' = [upstream EXCEPT ![t] = s]
  /\ UNCHANGED <<now, tasks, bills, submits, rounds>>

-----------------------------------------------------------------------------
(* pollGenerationTasks.                                                    *)

(* casTerminal.                                                            *)
Terminated(t, status) == [tasks EXCEPT ![t].status = status]   \* mutant
CasTerminal(t, status) ==
  IF tasks[t].status \in Active
    THEN [tasks EXCEPT ![t].status = status] ELSE tasks

NextTask(w) ==
  [rounds EXCEPT ![w].pc = IF rounds[w].task \in Polled THEN "tasks" ELSE "execute",
                 ![w].task = NoTask]

Goto(w, pc) == [rounds EXCEPT ![w].pc = pc]

(* 1. expireOverdue, in one statement, and then a signal for every row.    *)
Overdue == {t \in Tasks : tasks[t].status \in Active /\ tasks[t].expires <= now}

Begin(w) ==
  /\ rounds[w].pc = "idle"
  /\ tasks' = [t \in Tasks |-> IF t \in Overdue
                 THEN [tasks[t] EXCEPT !.status = "expired"] ELSE tasks[t]]
  /\ rounds' = [rounds EXCEPT ![w] =
       [IdleRound EXCEPT !.pc = "expired", !.todo = Overdue,
          !.owes = {t \in Polled : tasks[t].status \in Active} \ Overdue]]
  /\ UNCHANGED <<now, bills, submits, upstream>>

ReleaseExpired(w) ==
  /\ rounds[w].pc = "expired"
  /\ \E t \in rounds[w].todo :
       /\ bills' \in {Released(t), bills}          \* an error is only noted
       /\ rounds' = [rounds EXCEPT ![w].todo = @ \ {t}]
  /\ UNCHANGED <<now, tasks, submits, upstream>>

(* 2. Pages of polled tasks by creation time, each after the last one's    *)
(* time stamp; a short page is the last.                                   *)
Oldest(S, page) ==
  /\ page \subseteq S
  /\ Cardinality(page) = Min({Batch, Cardinality(S)})
  /\ \A x \in page, y \in S \ page : tasks[x].created <= tasks[y].created

Listed(w) == {t \in Polled : tasks[t].status \in Active
                             /\ tasks[t].created > rounds[w].page}

NextCursor(page) == IF Cardinality(page) < Batch THEN MaxTime
                    ELSE Max({tasks[t].created : t \in page})

ListPolled(w) ==
  /\ \/ rounds[w].pc = "expired" \/ rounds[w].pc = "tasks"
  /\ rounds[w].todo = {}
  /\ \E page \in SUBSET Listed(w) :
       /\ Oldest(Listed(w), page)
       /\ rounds' = [rounds EXCEPT
            ![w].pc = IF page = {} THEN "polled" ELSE "tasks",
            ![w].todo = page,
            ![w].page = NextCursor(page)]
  /\ UNCHANGED <<now, tasks, bills, submits, upstream>>

(* queryTask, or the row of its channel is gone.                           *)
Answers(t) == {"error", "missing"}
  \cup CASE upstream[t] = "working" -> {"running"}
         [] upstream[t] = "made"    -> {"succeeded"}
         [] upstream[t] = "broken"  -> {"failed"}

Query(w) ==
  /\ rounds[w].pc = "tasks"
  /\ \E t \in rounds[w].todo :
       /\ \A x \in rounds[w].todo : tasks[t].created <= tasks[x].created
       /\ \E answer \in Answers(t) :
            rounds' = [rounds EXCEPT
              ![w].pc = IF answer = "missing" THEN "tasks" ELSE answer,
              ![w].task = IF answer = "missing" THEN NoTask ELSE t,
              ![w].todo = @ \ {t}, ![w].owes = @ \ {t}]
  /\ UNCHANGED <<now, tasks, bills, submits, upstream>>

BriefLease(t) == now + MinLease   \* mutant: for a round, not for the task

(* The lease reaches beyond the end of the task; an error is only noted.   *)
LeaseUntil(t) == now + Larger(tasks[t].expires - now + Grace, MinLease)

Renew(w) ==
  LET t == rounds[w].task IN
  /\ rounds[w].pc \in {"error", "running"}
  /\ tasks' = IF rounds[w].pc = "running" /\ tasks[t].status = "queued"
                THEN [tasks EXCEPT ![t].status = "running"] ELSE tasks
  /\ bills' \in {Renewed(t, LeaseUntil(t)), bills}
  /\ rounds' = NextTask(w)
  /\ UNCHANGED <<now, submits, upstream>>

(* settleFailed: the row first, and only who ended it signals.             *)
EndFailed(w) ==
  LET t == rounds[w].task IN
  /\ rounds[w].pc = "failed"
  /\ tasks' = CasTerminal(t, "failed")
  /\ rounds' = IF tasks[t].status \in Active THEN Goto(w, "release")
               ELSE NextTask(w)
  /\ UNCHANGED <<now, bills, submits, upstream>>

ReleaseFailed(w) ==
  /\ rounds[w].pc = "release"
  /\ bills' \in {Released(rounds[w].task), bills}
  /\ rounds' = NextTask(w)
  /\ UNCHANGED <<now, tasks, submits, upstream>>

(* settleSucceeded: the bill is looked at, the receipt is sent unless the  *)
(* bill is beyond that, and only then the row ends.                        *)
ReadStatus(w) ==
  LET t == rounds[w].task IN
  /\ rounds[w].pc = "succeeded"
  /\ rounds' = Goto(w, IF bills[t].status \in {"settlement_pending", "settled"}
                         THEN "finish" ELSE "charge")
  /\ UNCHANGED <<now, tasks, bills, submits, upstream>>

(* Refused or lost, the task stays for the next round; the signal may have *)
(* been accepted even when its answer is lost.                             *)
ChargeAnyway(w) ==   \* mutant: terminal whatever the signal said
  LET t == rounds[w].task IN
  /\ rounds[w].pc = "charge"
  /\ bills' = Accepted(t)
  /\ rounds' = Goto(w, "finish")
  /\ UNCHANGED <<now, tasks, submits, upstream>>

Charge(w) ==
  LET t == rounds[w].task IN
  /\ rounds[w].pc = "charge"
  /\ \/ /\ bills' = Accepted(t)
        /\ rounds' = IF Accepts(t) \/ Replayed(t) THEN Goto(w, "finish")
                     ELSE NextTask(w)
     \/ /\ bills' \in {Accepted(t), bills}
        /\ rounds' = NextTask(w)
  /\ UNCHANGED <<now, tasks, submits, upstream>>

Finish(w) ==
  /\ rounds[w].pc = "finish"
  /\ tasks' = CasTerminal(rounds[w].task, "succeeded")
  /\ rounds' = NextTask(w)
  /\ UNCHANGED <<now, bills, submits, upstream>>

(* 3. The oldest tasks that a worker is to execute; nothing claims them,   *)
(* another round may be executing the same ones.                           *)
ToExecute == {t \in Tasks \ Polled : tasks[t].status = "queued"}

ListExecuted(w) ==
  /\ rounds[w].pc = "polled"
  /\ \E page \in SUBSET ToExecute :
       /\ Oldest(ToExecute, page)
       /\ rounds' = [rounds EXCEPT ![w].pc = "execute", ![w].todo = page]
  /\ UNCHANGED <<now, tasks, bills, submits, upstream>>

(* executeTask blocks until the product is there or it failed.             *)
Execute(w) ==
  /\ rounds[w].pc = "execute"
  /\ \E t \in rounds[w].todo, answer \in {"succeeded", "failed", "missing"} :
       /\ rounds' = [rounds EXCEPT
            ![w].pc = IF answer = "missing" THEN "execute" ELSE answer,
            ![w].task = IF answer = "missing" THEN NoTask ELSE t,
            ![w].todo = @ \ {t}]
       /\ upstream' = IF answer = "succeeded"
                        THEN [upstream EXCEPT ![t] = "made"] ELSE upstream
  /\ UNCHANGED <<now, tasks, bills, submits>>

EndRound(w) ==
  /\ rounds[w].pc = "execute" /\ rounds[w].todo = {}
  /\ rounds' = [rounds EXCEPT ![w] = IdleRound]
  /\ UNCHANGED <<now, tasks, bills, submits, upstream>>

(* The process dies, or the database fails in a step that is not guarded.  *)
Die(w) ==
  /\ rounds[w].pc # "idle"
  /\ rounds' = [rounds EXCEPT ![w] = IdleRound]
  /\ UNCHANGED <<now, tasks, bills, submits, upstream>>

-----------------------------------------------------------------------------
Tick ==
  /\ now < MaxTime
  /\ now' = now + 1
  /\ UNCHANGED <<tasks, bills, submits, upstream, rounds>>

Gateway(t) == \/ Authorize(t) \/ Start(t) \/ Submit(t) \/ Insert(t)
              \/ SubmitEnds(t)

Proceed(w) == \/ ReleaseExpired(w) \/ ListPolled(w) \/ Query(w) \/ Renew(w)
              \/ EndFailed(w) \/ ReleaseFailed(w) \/ ReadStatus(w) \/ Charge(w)
              \/ Finish(w) \/ ListExecuted(w) \/ Execute(w) \/ EndRound(w)

Next ==
  \/ \E t \in Tasks : \/ Gateway(t) \/ ProviderEnds(t)
                       \/ LedgerMoves(t) \/ Recover(t)
  \/ \E w \in Rounds : Begin(w) \/ Proceed(w) \/ Die(w)
  \/ Tick

Spec == Init /\ [][Next]_vars

(* The timer of some worker keeps starting rounds, however often they die. *)
Fairness ==
  /\ WF_vars(Tick)
  /\ \A w \in Rounds : WF_vars(Begin(w)) /\ WF_vars(Proceed(w))
  /\ \A t \in Tasks : WF_vars(Recover(t)) /\ WF_vars(Submit(t) \/ Insert(t))

-----------------------------------------------------------------------------
(* Properties.                                                             *)

(* Every variable keeps its type.                                          *)
TypeOK ==
  /\ now \in 1 .. MaxTime
  /\ tasks \in [Tasks -> Row] /\ bills \in [Tasks -> Bill]
  /\ submits \in [Tasks -> {"new", "authorized", "submitting", "inserting", "over"}]
  /\ upstream \in [Tasks -> {"nothing", "working", "made", "broken"}]
  /\ rounds \in [Rounds ->
       [pc : {"idle", "expired", "tasks", "error", "running", "failed", "release",
              "succeeded", "charge", "finish", "polled", "execute"},
        todo : SUBSET Tasks, task : Tasks \cup {NoTask},
        page : 0 .. MaxTime, owes : SUBSET Polled]]

(* Nobody gets a product without having been charged: a task only succeeds *)
(* once the ledger holds its receipt; and nobody is charged for a product  *)
(* that the provider did not make.                                         *)
ChargedForProduct ==
  \A t \in Tasks :
    /\ tasks[t].status = "succeeded" => bills[t].receipt # NoReceipt
    /\ bills[t].receipt # NoReceipt => upstream[t] = "made"

(* While a task may still succeed, recovery does not take a reservation    *)
(* that covers it, through queries that fail, channels that are gone and   *)
(* rounds that die.  It covers the task from the insert on if the lease    *)
(* still reaches its end then, and otherwise from the first lease that a   *)
(* round renews; nothing covers a late task before that.                   *)
Live(t) == tasks[t].status \in Active /\ now < tasks[t].expires

Covered(t) == \/ bills[t].receipt # NoReceipt
              \/ bills[t].status = "in_flight" /\ bills[t].lease >= tasks[t].expires

KeepsCover(t) ==
  /\ Live(t)'
  /\ \/ Live(t) /\ Covered(t)
     \/ tasks[t].status = "none" /\ bills[t].lease >= tasks'[t].expires
     \/ bills'[t].lease # bills[t].lease
  => Covered(t)'

CoverStays == \A t \in Tasks : KeepsCover(t)
HoldOutlivesTask == [][CoverStays]_vars

(* What the gateway says of its lease, that it covers the task: it does    *)
(* not when the submission outlasts the grace (section 8 of the README).   *)
LeaseCoversTask == \A t \in Tasks : Live(t) => Covered(t)

(* What has been decided stays: no round turns a task that ended into      *)
(* anything else, and no later receipt replaces the one that was accepted, *)
(* although overlapping rounds send different ones.                        *)
Decided ==
  \A t \in Tasks :
    /\ tasks[t].status \in Ended => tasks'[t] = tasks[t]
    /\ bills[t].receipt # NoReceipt => bills'[t].receipt = bills[t].receipt
DecisionStands == [][Decided]_vars

(* A round that has gone through its pages asked for every task that was   *)
(* active all along, unless it was created together with another one.      *)
Twin(t) == \E x \in Polled \ {t} : tasks[x].status # "none"
                                   /\ tasks[x].created = tasks[t].created
Missed(w) == IF rounds[w].pc = "polled"
               THEN {t \in rounds[w].owes : tasks[t].status \in Active} ELSE {}

NoneIsSkipped == \A w \in Rounds, t \in Tasks : t \in Missed(w) => Twin(t)

(* Every task ends, and every reservation is charged or given back, however*)
(* often rounds die.                                                       *)
TasksEnd ==
  \A t \in Tasks :
    /\ tasks[t].status \in Active ~> tasks[t].status \in Ended
    /\ bills[t].status = "in_flight" ~> bills[t].status # "in_flight"

=============================================================================
