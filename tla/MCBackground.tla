---------------------------- MODULE MCBackground ----------------------------
(***************************************************************************)
(* What runs beside the requests, for TLC: the notifications (Notify as it *)
(* is) and wake-ups of the workers, the receiver of traces, and the prices *)
(* and exchange rates that administrators change meanwhile.  They share no *)
(* state, so a behaviour is about one of them: part says which and never   *)
(* changes, the variables of Notify stay as they begin and those of the    *)
(* others are at rest.  part of Traces is table here.                      *)
(***************************************************************************)
EXTENDS Notify, Sequences, TLC

CONSTANTS Parts, w1, w2, none

VARIABLES part, call, lost,
  today, queue, got, fate, flush, life, memo, table, round,   (* Traces *)
  bill, state, listening, batch, again, drain, stray,         (* Wakeup *)
  model, card, bound, admin, changes, req, had,               (* Rating *)
  rates, config, cache, loading, made, now, seen, newest      (* Fx     *)

allVars ==
  <<vars, part, call, lost, today, queue, got, fate, flush, life, memo, table, round, bill,
    state, listening, batch, again, drain, stray, model, card, bound, admin, changes, req,
    had, rates, config, cache, loading, made, now, seen, newest>>

Symmetry == Permutations(Workers)
-----------------------------------------------------------------------------
(* Traces.  A queue of two, spans of days that are kept or not.            *)
Receiver ==
  INSTANCE Traces WITH Max <- 2, BatchMax <- 2, Retention <- 0, Lookahead <- 1, MaxPush <- 2,
    MaxSpans <- 4, LastDay <- 1, MaxFaults <- 1, part <- table, faults <- lost

(* Notify.  One event that two channels want, two workers.                 *)
MCWants == [e \in Events |-> Channels]

(* Wakeup.  Two bills, one worker, whatever goes wrong twice.              *)
Waking ==
  INSTANCE Wakeup WITH Bills <- Workers, Workers <- {"w"}, Batch <- 1, Guard <- 1,
    Sweeps <- {"s1"}, MaxFaults <- 2,
    Faults <- {"lost", "fail", "expire", "disconnect", "db", "kill", "stop"},
    faults <- lost

(* Rating.  A model that is priced by the token and one by the image.      *)
NoTable == [k \in {} |-> 0]
PriceRow(in, out, hit, write, unit, by, prices, free) ==
  [in |-> in, out |-> out, hit |-> hit, write |-> write, unit |-> unit, by |-> by, floor |-> 1,
   param |-> none, table |-> prices, free |-> free, on |-> TRUE]
Usage(in, hit, write, out, units) ==
  [in |-> in, hit |-> hit, write |-> write, out |-> out, units |-> units]

Sorts == {"chat", "image"}
Priced ==
  [m \in Sorts |->
     IF m = "chat" THEN PriceRow(2, 3, 1, 4, 0, "token", NoTable, FALSE)
     ELSE PriceRow(0, 0, 0, 0, 2, "image", ("small" :> 1) @@ ("large" :> 3), FALSE)]
Gratis ==
  [m \in Sorts |->
     IF m = "chat" THEN PriceRow(0, 0, 0, 0, 0, "token", NoTable, TRUE)
     ELSE PriceRow(0, 0, 0, 0, 0, "image", NoTable, TRUE)]
SomeUsages == {Usage(2, 1, 0, 1, 1), Usage(2, 1, 1, 1, 2), Usage(1, 2, 0, 0, 1)}

(* Prices change while a request is under way, also of free models; then   *)
(* the cards and their coefficients.                                       *)
Pricing ==
  INSTANCE Rating WITH Models <- Sorts, Main <- "chat", Fallbacks <- <<"image">>, Cards <- {"c1"},
    Admins <- {w1, w2}, None <- none, Rows <- Priced,
    Patches <- {[in |-> 1, hit |-> 3], [write |-> 0], [unit |-> 0]},
    Imports <- {[in |-> 1, out |-> 1, hit |-> 0, write |-> 0]}, Coefficients <- {2},
    ModelRows <- [c \in {"c1"} |-> [m \in Sorts |-> none]],
    GroupRows <- [c \in {"c1"} |-> [m \in Sorts |-> none]],
    PerMillion <- 2, One <- 2, Limit <- 60, InputBound <- 2, OutputCap <- 1, Asked <- 2,
    Key <- "small", MaxChanges <- 2,
    Usages <- {Usage(i, h, w, o, n) : i \in {0, 2, 3}, h \in 0..2, w \in {-1, 0, 1, 2},
                                      o \in 0..1, n \in 1..2}
Giving ==
  INSTANCE Rating WITH Models <- Sorts, Main <- "chat", Fallbacks <- <<"image">>, Cards <- {"c1"},
    Admins <- {w1, w2}, None <- none, Rows <- Gratis,
    Patches <- {[free |-> TRUE], [out |-> 2], [unit |-> 1]},
    Imports <- {[in |-> 0, out |-> 0, hit |-> 0, write |-> 1],
                [in |-> 1, out |-> 0, hit |-> 0, write |-> 0]},
    Coefficients <- {2}, ModelRows <- [c \in {"c1"} |-> [m \in Sorts |-> none]],
    GroupRows <- [c \in {"c1"} |-> [m \in Sorts |-> none]],
    PerMillion <- 2, One <- 2, Limit <- 60, InputBound <- 2, OutputCap <- 1, Asked <- 2,
    Key <- "small", MaxChanges <- 3, Usages <- SomeUsages
Carding ==
  INSTANCE Rating WITH Models <- Sorts, Main <- "chat", Fallbacks <- <<"image">>,
    Cards <- {"c1", "c2"}, Admins <- {w1, w2}, None <- none, Rows <- Priced, Patches <- {},
    Imports <- {}, Coefficients <- {1, 2},
    ModelRows <- [c \in {"c1", "c2"} |->
                    [m \in Sorts |-> IF c = "c1" /\ m = "chat" THEN 1 ELSE none]],
    GroupRows <- [c \in {"c1", "c2"} |-> [m \in Sorts |-> IF c = "c1" THEN 3 ELSE none]],
    PerMillion <- 2, One <- 2, Limit <- 60, InputBound <- 2, OutputCap <- 1, Asked <- 2,
    Key <- "large", MaxChanges <- 3, Usages <- SomeUsages

(* Fx.  Two calls at a time with all an administrator can do; with fewer,  *)
(* a gateway that keeps what it read.                                      *)
Desk ==
  INSTANCE Fx WITH Calls <- {w1, w2}, Gateways <- {}, None <- none, Values <- {7},
    Margins <- {3}, Wants <- {"state", "refresh", "force", "override", "clear", "margin"},
    Fresh <- 1, Kept <- 2, MaxRows <- 2, MaxTime <- 1, MaxCalls <- 3
Gate ==
  INSTANCE Fx WITH Calls <- {w1, w2}, Gateways <- {"g"}, None <- none, Values <- {7},
    Margins <- {3}, Wants <- {"state", "override"}, Fresh <- 1, Kept <- 2,
    MaxRows <- 2, MaxTime <- 2, MaxCalls <- 2

ASSUME /\ Receiver!TracesAssumption /\ NotifyAssumption /\ Waking!WakeupAssumption
       /\ Pricing!RatingAssumption /\ Giving!RatingAssumption /\ Carding!RatingAssumption
       /\ Desk!FxAssumption /\ Gate!FxAssumption
-----------------------------------------------------------------------------
Ratings == {"pricing", "giving", "carding"}
Fxs == {"desk", "gate"}

AtRest ==
  /\ part # "traces" =>
       /\ today = none /\ queue = none /\ got = none /\ fate = none /\ flush = none
       /\ life = none /\ memo = none /\ table = none /\ round = none
  /\ part # "wakeup" =>
       /\ bill = none /\ state = none /\ listening = none /\ batch = none /\ again = none
       /\ drain = none /\ stray = none
  /\ part \notin {"traces", "wakeup"} => lost = none
  /\ part \notin Ratings =>
       /\ model = none /\ card = none /\ bound = none /\ admin = none /\ changes = none
       /\ req = none /\ had = none
  /\ part \notin Fxs =>
       /\ rates = none /\ config = none /\ call = none /\ cache = none /\ loading = none
       /\ made = none /\ now = none /\ seen = none /\ newest = none

Kept ==
  /\ part # "notify" => UNCHANGED vars
  /\ part # "traces" =>
       UNCHANGED <<today, queue, got, fate, flush, life, memo, table, round>>
  /\ part # "wakeup" => UNCHANGED <<bill, state, listening, batch, again, drain, stray>>
  /\ part \notin {"traces", "wakeup"} => UNCHANGED lost
  /\ part \notin Ratings => UNCHANGED <<model, card, bound, admin, changes, req, had>>
  /\ part \notin Fxs =>
       UNCHANGED <<rates, config, call, cache, loading, made, now, seen, newest>>

MCInit ==
  /\ part \in Parts /\ Init
  /\ \/ part = "traces" /\ Receiver!Init
     \/ part = "notify"
     \/ part = "wakeup" /\ Waking!Init
     \/ part = "pricing" /\ Pricing!Init
     \/ part = "giving" /\ Giving!Init
     \/ part = "carding" /\ Carding!Init
     \/ part = "desk" /\ Desk!Init
     \/ part = "gate" /\ Gate!Init
  /\ AtRest

(* All but the receiver come to an end: what happens is bounded.           *)
Ended == part # "traces" /\ UNCHANGED allVars

MCNext ==
  \/ /\ \/ part = "traces" /\ Receiver!Next
        \/ part = "notify" /\ Next
        \/ part = "wakeup" /\ Waking!Next
        \/ part = "pricing" /\ Pricing!Next
        \/ part = "giving" /\ Giving!Next
        \/ part = "carding" /\ Carding!Next
        \/ part = "desk" /\ Desk!Next
        \/ part = "gate" /\ Gate!Next
     /\ UNCHANGED part /\ Kept
  \/ Ended

MCSpec == MCInit /\ [][MCNext]_allVars
-----------------------------------------------------------------------------
(* Work that several processes or rounds share is done for one claim at a  *)
(* time and not lost: a claim is in one batch, a channel gets an event     *)
(* again only after a loss, and every span is counted for what became of   *)
(* it.                                                                     *)
WorkIsAccounted ==
  /\ part = "wakeup" => Waking!TypeOK /\ Waking!AgainHasBatch /\ Waking!OneBatchPerClaim
  /\ part = "notify" => TypeOK /\ ResentOnlyAfterLoss
  /\ part = "traces" => Receiver!TypeOK /\ Receiver!Accounted

(* Who has lost his claim changes nothing that others rely on: only the    *)
(* last worker to claim an event closes it, and a round of maintenance     *)
(* that lasts over midnight takes away no day that is to be kept.          *)
LateWorkIsHarmless ==
  [][/\ part = "notify" => LastClaimCounts
     /\ part = "traces" => Receiver!RecentDaysStay]_allVars

(* What a request settles is priced as it was quoted, whatever prices,     *)
(* cards and coefficients become meanwhile, and was held for it, but for   *)
(* what writing to the cache costs above the input price, which free       *)
(* models charge too.  An exchange rate put in force by hand stays until   *)
(* somebody clears it or writes back what he read before it, and receipts  *)
(* carry a rate that was recently the newest.                              *)
PricesHold ==
  /\ part = "pricing" =>
       /\ Pricing!TypeOK /\ Pricing!HoldCoversButForWrites /\ Pricing!EveryTokenPricedOnce
       /\ Pricing!QuotedPricesSettle
  /\ part = "giving" => Giving!FreeButForWrites /\ Giving!QuotedPricesSettle
  /\ part = "carding" => Carding!CoefficientInEffect /\ Carding!HoldCoversButForWrites
  /\ part = "desk" => Desk!TypeOK /\ Desk!OverrideStaysUnlessRaced
  /\ part = "gate" => Gate!TypeOK /\ Gate!ReceiptsCarryRecentRates
=============================================================================
