------------------------------ MODULE MCGateway ------------------------------
(***************************************************************************)
(* The components a request passes in the gateway, for TLC: asynchronous   *)
(* tasks (Generation as it is), and again with other tasks; a call of the  *)
(* pipeline, the breaker, the limiter, the catalogue and the order of      *)
(* channels.  They share no state, so a behaviour is about one of them:    *)
(* part says which and never changes, the variables of Generation stay as  *)
(* they begin and those of the others are at rest.  Rounds are also the    *)
(* calls or requests that are interchangeable in their part.               *)
(***************************************************************************)
EXTENDS Generation, SequencesExt, TLC

CONSTANTS Parts, p1, p2, t1, t2, none

VARIABLES part,
  pc, at, answer, tokens, started, timer, tries, bill, faults,  (* Pipeline *)
  store, cred, calls, counted, probes, last, revived,       (* Breaker     *)
  minute, window, reserved, actual, hash, projected, used,  (* RateLimit   *)
  provider, mapping, channel, bound, call, req, edits, approved, barred,
                                                            (* Catalog     *)
  row, waiting, pool, ordered                               (* Schedule    *)

allVars ==
  <<vars, part, pc, at, answer, tokens, started, timer, tries, bill, faults, store, cred,
    calls, counted, probes, last, revived, minute, window, reserved, actual, hash, projected, used, provider, mapping, channel, bound, call, req, edits,
    approved, barred, row, waiting, pool, ordered>>

Symmetry == Permutations(Rounds) \cup Permutations({t1, t2})
-----------------------------------------------------------------------------
(* Generation.  Two overlapping rounds of the worker ask a provider that   *)
(* is polled (the constants of this module) or carry out the call          *)
(* themselves; one round goes over two tasks in pages of one.              *)
Executing == INSTANCE Generation WITH Polled <- {}, MaxTime <- 5
TwoTasks == Tasks \cup {t2}
Paging ==
  INSTANCE Generation WITH Tasks <- TwoTasks, Polled <- TwoTasks, Rounds <- {"w"}, MaxTime <- 4

(* Pipeline.  Two models, of which the first is on two channels, and one   *)
(* of them has the second as well.                                         *)
MCRoute == <<<<"a", "b">>, <<"b">>>>
Streaming ==
  INSTANCE Pipeline WITH Route <- MCRoute, Stream <- TRUE, Lease <- 3, Interval <- 1,
    MaxRenewals <- 4, Attempts <- 3, MaxFaults <- 4, NoChannel <- none
Answering ==
  INSTANCE Pipeline WITH Route <- MCRoute, Stream <- FALSE, Lease <- 3, Interval <- 1,
    MaxRenewals <- 4, Attempts <- 3, MaxFaults <- 2, NoChannel <- none

(* Breaker.  Two calls of a channel; the first failures open it.  Quick    *)
(* ones, which report at once, and slow ones, which may take so long that  *)
(* the state they read has expired.                                        *)
Breaking ==
  INSTANCE Breaker WITH Calls <- Rounds, Outcomes <- {"ok", "trip", "soft"}, Threshold <- 2,
    Window <- 1, Cooldown <- 2, DeadThreshold <- 2, DeadWindow <- 1, MaxAttempts <- 2,
    CasRetries <- 2, Deadline <- 1, Delay <- 0, MaxVersion <- 3, MaxFaults <- 1
Reporting ==
  INSTANCE Breaker WITH Calls <- Rounds, Outcomes <- {"ok", "trip"}, Threshold <- 2,
    Window <- 1, Cooldown <- 1, DeadThreshold <- 2, DeadWindow <- 1, MaxAttempts <- 2,
    CasRetries <- 2, Deadline <- 1, Delay <- 99, MaxVersion <- 2, MaxFaults <- 0

(* RateLimit.  Two requests of a key and caps of tokens, on two channels   *)
(* while a minute ends, and on one for so many minutes that reservations   *)
(* expire; three requests, two keys and caps of calls.                     *)
KeyOne == [r \in {"r1", "r2"} |-> "key1"]
KeyTwo == [r \in {"r1", "r2", "r3"} |-> IF r = "r3" THEN "key2" ELSE "key1"]
Estimates == [r \in {"r1", "r2", "r3"} |-> IF r = "r1" THEN 2 ELSE 1]
PairEstimates == [r \in {"r1", "r2"} |-> IF r = "r1" THEN 2 ELSE 1]
OneDims == {"key1", "user", "model", "ch1"}
TokenDims == OneDims \cup {"ch2"}
PairCap(d) == IF d \in {"key1", "user"} THEN 3 ELSE IF d = "model" THEN 0 ELSE 2
CallDims == {"key1", "key2", "user", "model", "ch1"}
Tokens ==
  INSTANCE RateLimit WITH Requests <- {"r1", "r2"}, KeyOf <- KeyOne, User <- "user",
    Model <- "model", Channels <- {"ch1", "ch2"}, Estimate <- PairEstimates,
    TokenCap <- [d \in TokenDims |-> PairCap(d)], CallCap <- [d \in TokenDims |-> 0],
    Excess <- 0, Minute <- 1, Keep <- 2, MaxNow <- 1, now <- minute
Expiring ==
  INSTANCE RateLimit WITH Requests <- {"r1", "r2"}, KeyOf <- KeyOne, User <- "user",
    Model <- "model", Channels <- {"ch1"}, Estimate <- PairEstimates,
    TokenCap <- [d \in OneDims |-> PairCap(d)], CallCap <- [d \in OneDims |-> 0],
    Excess <- 1, Minute <- 1, Keep <- 2, MaxNow <- 3, now <- minute
Counts ==
  INSTANCE RateLimit WITH Requests <- {"r1", "r2", "r3"}, KeyOf <- KeyTwo, User <- "user",
    Model <- "model", Channels <- {"ch1"}, Estimate <- Estimates,
    TokenCap <- [d \in CallDims |-> 0],
    CallCap <- [d \in CallDims |-> IF d = "user" THEN 2 ELSE IF d \in {"ch1", "key1"} THEN 1 ELSE 0],
    Excess <- 0, Minute <- 2, Keep <- 2, MaxNow <- 2, now <- minute

(* Catalog.  Two online imports or drafts over an empty or half filled     *)
(* shelf; a request while names are drafted, created and put on the shelf  *)
(* or taken off; requests while channels come and go; three replacements   *)
(* of the bindings of two names.                                           *)
Names == {"e1", "e2"}
Reals == {"m1", "m2"}
Channels == {"c1", "c2"}
SoldAs(n, m) == [there |-> TRUE, status |-> "on", real |-> m]
NotSold == [there |-> FALSE, status |-> "off", real |-> CHOOSE m \in Reals : TRUE]
Bare(cs) ==
  [provider |-> FALSE, mapping |-> [n \in Names |-> NotSold],
   channel |-> [c \in cs |-> [there |-> FALSE, status |-> 1, models |-> Reals]], bound |-> {}]
Halves(cs) ==
  {Bare(cs), [Bare(cs) EXCEPT !.mapping["e1"] = SoldAs("e1", "m1")]}
Filled(real, bindings) ==
  [provider |-> TRUE, mapping |-> [n \in Names |-> SoldAs(n, real[n])],
   channel |-> [c \in Channels |-> [there |-> TRUE, status |-> 0, models |-> Reals]],
   bound |-> bindings]
(* One name is sold, the other is a draft or free.                         *)
DraftStock ==
  {[provider |-> TRUE,
    mapping |-> [n \in Names |-> IF n = "e1" THEN SoldAs(n, "m1")
                                ELSE [there |-> b, status |-> "off", real |-> "m1"]],
    channel |-> [c \in {"c1"} |-> [there |-> TRUE, status |-> 0, models |-> {"m1"}]],
    bound |-> {<<"e1", "c1">>}] : b \in BOOLEAN}
SameReal == [n \in Names |-> "m1"]
Full == {Filled(SameReal, {<<"e1", "c1">>, <<"e1", "c2">>}),
         Filled([n \in Names |-> IF n = "e1" THEN "m1" ELSE "m2"], {<<"e1", "c1">>, <<"e2", "c2">>})}
Shared == {Filled(SameReal, {<<"e1", "c1">>, <<"e2", "c1">>, <<"e2", "c2">>})}

Importing ==
  INSTANCE Catalog WITH Names <- Names, Reals <- Reals, Channels <- {"c1"}, Source <- "c1",
    Calls <- Rounds, Requests <- {}, Kinds <- {"import", "draft", "create", "add"},
    Editable <- {"model", "shelf"}, Limits <- {Reals}, Stock <- Halves({"c1"}), MaxEdits <- 1
Drafting ==
  INSTANCE Catalog WITH Names <- Names, Reals <- {"m1"}, Channels <- {"c1"}, Source <- "c1",
    Calls <- Rounds, Requests <- {"r"}, Kinds <- {"draft", "create", "import"},
    Editable <- {"shelf"}, Limits <- {{"m1"}}, Stock <- DraftStock, MaxEdits <- 1
Routing ==
  INSTANCE Catalog WITH Names <- Names, Reals <- Reals, Channels <- Channels, Source <- "c1",
    Calls <- {}, Requests <- Rounds, Kinds <- {}, Editable <- {"channel", "limit"},
    Limits <- {Reals, {"m2"}}, Stock <- Full, MaxEdits <- 2
Binding ==
  INSTANCE Catalog WITH Names <- Names, Reals <- Reals, Channels <- Channels, Source <- "c1",
    Calls <- Rounds \cup {"i3"}, Requests <- {}, Kinds <- {"bind"}, Editable <- {},
    Limits <- {Reals}, Stock <- Shared, MaxEdits <- 0

(* Schedule.  Every order of three candidates.                             *)
Ordering ==
  INSTANCE Schedule WITH Channels <- {"a", "b", "c"}, Weights <- {-1, 0, 1, 3},
    Priorities <- {1, 2}

ASSUME /\ GenerationAssumption /\ Executing!GenerationAssumption
       /\ Paging!GenerationAssumption
       /\ Streaming!PipelineAssumption /\ Answering!PipelineAssumption
       /\ Breaking!BreakerAssumption /\ Reporting!BreakerAssumption
       /\ Tokens!RateLimitAssumption /\ Expiring!RateLimitAssumption
       /\ Counts!RateLimitAssumption
       /\ Importing!CatalogAssumption /\ Drafting!CatalogAssumption
       /\ Routing!CatalogAssumption /\ Binding!CatalogAssumption /\ Ordering!ScheduleAssumption
-----------------------------------------------------------------------------
Pipelines == {"streaming", "answering"}
Breakers == {"breaker", "reporting"}
Limiters == {"tokens", "expiring", "counts"}
Shelves == {"importing", "drafting", "routing", "binding"}

AtRest ==
  /\ part \notin Pipelines =>
       /\ pc = none /\ at = none /\ answer = none /\ tokens = none /\ started = none
       /\ timer = none /\ tries = none /\ bill = none
  /\ part \notin Pipelines \cup Breakers => faults = none
  /\ part \notin Breakers =>
       /\ store = none /\ cred = none /\ counted = none /\ probes = none /\ last = none
       /\ revived = none
  /\ part \notin Limiters \cup Breakers => calls = none
  /\ part \notin Limiters =>
       /\ minute = none /\ window = none /\ reserved = none /\ actual = none /\ hash = none
       /\ projected = none /\ used = none
  /\ part \notin Shelves =>
       /\ provider = none /\ mapping = none /\ channel = none /\ bound = none /\ call = none
       /\ req = none /\ edits = none /\ approved = none /\ barred = none
  /\ part # "ordering" => row = none /\ waiting = none /\ pool = none /\ ordered = none

Kept ==
  /\ part \notin {"polling", "executing", "paging"} => UNCHANGED vars
  /\ part \notin Pipelines => UNCHANGED <<pc, at, answer, tokens, started, timer, tries, bill>>
  /\ part \notin Pipelines \cup Breakers => UNCHANGED faults
  /\ part \notin Breakers => UNCHANGED <<store, cred, counted, probes, last, revived>>
  /\ part \notin Limiters \cup Breakers => UNCHANGED calls
  /\ part \notin Limiters =>
       UNCHANGED <<minute, window, reserved, actual, hash, projected, used>>
  /\ part \notin Shelves =>
       UNCHANGED <<provider, mapping, channel, bound, call, req, edits, approved, barred>>
  /\ part # "ordering" => UNCHANGED <<row, waiting, pool, ordered>>

MCInit ==
  /\ part \in Parts
  /\ part # "paging" => Init
  /\ \/ part \in {"polling", "executing"}
     \/ part = "paging" /\ Paging!Init
     \/ part = "streaming" /\ Streaming!Init
     \/ part = "answering" /\ Answering!Init
     \/ part = "breaker" /\ Breaking!Init
     \/ part = "reporting" /\ Reporting!Init
     \/ part = "tokens" /\ Tokens!Init
     \/ part = "expiring" /\ Expiring!Init
     \/ part = "counts" /\ Counts!Init
     \/ part = "importing" /\ Importing!Init
     \/ part = "drafting" /\ Drafting!Init
     \/ part = "routing" /\ Routing!Init
     \/ part = "binding" /\ Binding!Init
     \/ part = "ordering" /\ Ordering!Init
  /\ AtRest

MCNext ==
  /\ \/ part = "polling" /\ Next
     \/ part = "executing" /\ Executing!Next
     \/ part = "paging" /\ Paging!Next
     \/ part = "streaming" /\ Streaming!Next
     \/ part = "answering" /\ Answering!Next
     \/ part = "breaker" /\ Breaking!Next
     \/ part = "reporting" /\ Reporting!Next
     \/ part = "tokens" /\ Tokens!Next
     \/ part = "expiring" /\ Expiring!Next
     \/ part = "counts" /\ Counts!Next
     \/ part = "importing" /\ Importing!Next
     \/ part = "drafting" /\ Drafting!Next
     \/ part = "routing" /\ Routing!Next
     \/ part = "binding" /\ Binding!Next
     \/ part = "ordering" /\ Ordering!Next
  /\ UNCHANGED part /\ Kept

MCSpec == MCInit /\ [][MCNext]_allVars
-----------------------------------------------------------------------------
(* A request that failed leaves neither a hold nor reserved tokens, one    *)
(* that was served is charged, and on the channel that was reserved for it.*)
(* No round goes past a task that was there when it began, unless another  *)
(* was created with it.                                                    *)
CallsAreBilled ==
  /\ part = "polling" => TypeOK
  /\ part = "paging" => Paging!NoneIsSkipped /\ Paging!ChargedForProduct
  /\ part = "streaming" =>
       /\ Streaming!TypeOK /\ Streaming!FailedLeavesNothing
       /\ Streaming!ChargedWhereReserved /\ Streaming!ServedIsCharged
  /\ part = "answering" => Answering!FailedLeavesNothing /\ Answering!ChargedWhereReserved

(* The upstream is spared what it cannot take.  No failure of the window   *)
(* is lost to a write made at the same time, and one call at a time probes *)
(* an open breaker.  What the counters of tokens hold is what the requests *)
(* under way have reserved, used tokens are booked once, and no cap is     *)
(* exceeded by what was let in.                                            *)
UpstreamIsSpared ==
  /\ part = "breaker" => Breaking!TypeOK /\ Breaking!NoneLostButToThePast /\ Breaking!OneProbe
  /\ part = "reporting" => Reporting!TypeOK /\ Reporting!NoneLostButToThePast /\ Reporting!OneProbe
  /\ part = "tokens" =>
       Tokens!TypeOK /\ Tokens!ReservedIsHeld /\ Tokens!BookedOnce /\ Tokens!CapsHold
  /\ part = "expiring" =>
       /\ Expiring!TypeOK /\ Expiring!ReservedIsHeld /\ Expiring!BookedOnce
       /\ Expiring!CapsHold
  /\ part = "counts" => Counts!CallsHold

(* What an import put on the shelf is bound to a channel, an import leaves *)
(* nothing by halves, drafts wait for approval, neither a model nor a      *)
(* channel that is off from a request's arrival on serves it, and replaced *)
(* bindings are gone.  Of its channels every one is tried once, tiers in   *)
(* the order of their priority, and within a tier each draw falls on a     *)
(* channel by its share of the weight.                                     *)
SoldAsOffered ==
  /\ part = "importing" =>
       Importing!TypeOK /\ Importing!ImportedIsBound /\ Importing!NothingHalfImported
  /\ part = "drafting" => Drafting!DraftsAwaitApproval /\ Drafting!OffStaysOff
  /\ part = "routing" => Routing!OffStaysOff
  /\ part = "binding" => Binding!OldBindingsAreGone
  /\ part = "ordering" =>
       Ordering!TypeOK /\ Ordering!EachOnce /\ Ordering!TiersInOrder /\ Ordering!ShareIsWeight

(* What others have settled stays: the hold of a task whose lease reaches  *)
(* its end, which a submission within the grace and every renewal sees to; *)
(* the period an open breaker stays open, which only a probe ends; and     *)
(* rows that the drafts of the dictionary found.                           *)
OthersAreHeeded ==
  [][/\ part = "polling" => CoverStays
     /\ part = "paging" => Paging!CoverStays
     /\ part = "breaker" => Breaking!OpenEnds /\ Breaking!ProbeCloses
     /\ part = "importing" => Importing!DraftLeavesAlone
     /\ part = "drafting" => Drafting!DraftLeavesAlone]_allVars
=============================================================================
