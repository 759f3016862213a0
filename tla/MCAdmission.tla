----------------------------- MODULE MCAdmission -----------------------------
(***************************************************************************)
(* How several requests share what pays for them, for TLC: Admission, and  *)
(* the books of Billing for requests of one wallet, on one channel or      *)
(* none.  A behaviour is about one of them: part says which and never      *)
(* changes, the variables of Admission stay as they begin and those of     *)
(* Billing are at rest.                                                    *)
(***************************************************************************)
EXTENDS Admission, TLC

CONSTANTS Parts, c1, c2, r1, r2, r3, a1, a2, none

VARIABLES part,
  bill, hold, resv, usage, paid, wallet, stock, signals, picks, jobs, desk, faults, reviews
                                                              (* Billing   *)

bills ==
  <<bill, hold, resv, usage, paid, wallet, stock, signals, picks, jobs, desk, faults, reviews>>
allVars == <<vars, part, bills>>

Symmetry == Permutations({c1, c2}) \cup Permutations({r1, r2, r3}) \cup Permutations({a1, a2})
-----------------------------------------------------------------------------
(* Admission.  limits: three requests of one user, two of them with one    *)
(* key, that are paid from the wallet within daily limits.  quotas: a      *)
(* subscription whose owner has one request in it and a member two, of     *)
(* which one may not fall back on the wallet.                              *)
MCUser ==
  [r \in Requests |->
     CASE r \in {a1, a2, "a3"} -> "ann" [] r \in {"m1", "m2"} -> "mem" [] OTHER -> "own"]
MCKey ==
  [r \in Requests |->
     CASE r \in {a1, a2} -> "k1" [] r = "a3" -> "k2" [] r \in {"m1", "m2"} -> "k3" [] OTHER -> "k4"]
MCBound == [r \in Requests |-> MCUser[r] # "ann"]
MCFallback == [r \in Requests |-> r \in {"m2", "o1"}]
MCUserLimit == [u \in Users |-> IF u = "ann" THEN 3 ELSE none]
MCKeyLimit == [k \in Keys |-> IF k = "k1" THEN 2 ELSE none]
MCMemberLimit == [u \in Users |-> IF u = "mem" THEN 2 ELSE none]
MCDeposit == [u \in Users |-> 2]
MCCreditLimit == [u \in Users |-> IF u = "ann" THEN 2 ELSE 0]

(* What is asked for and charged in each of the two; only in the second is *)
(* there a subscription to end, and somebody who buys another.             *)
Asked == IF part = "limits" THEN {a1, a2, "a3"} ELSE {"m1", "m2", "o1"}
Amounts == IF part = "limits" THEN {1, 2} ELSE {2}
Charges == IF part = "limits" THEN {0, 1, 2} ELSE {0, 1, 3}
Buyers == IF part = "limits" THEN {} ELSE {"mem"}
Sharing ==
  /\ \A c \in Callers : calls'[c] # IdleCall => calls'[c].req \in Asked /\ calls'[c].est \in Amounts
  /\ \A r \in Asked : rows'[r].cost \in Charges
  /\ rows' = rows => \A u \in Users \ Buyers : wallets'[u] = wallets[u]
  /\ part = "limits" => sub'.active

Alike == {r1, r2, r3}

(* Billing.  Three requests of one wallet; a receipt that costs more than  *)
(* the hold and one that costs less.                                       *)
CostOf == [rc \in {"a", "b"} |-> IF rc = "a" THEN 3 ELSE 1]
UpstreamOf == [rc \in {"a", "b"} |-> IF rc = "a" THEN 1 ELSE 2]
Wallet ==
  INSTANCE Billing WITH Requests <- Alike, Receipts <- {"a", "b"}, Poison <- {},
    Channels <- {}, Callers <- {c1}, Workers <- {"w"}, Lanes <- {"l"}, Owner <- [l \in {"l"} |-> "w"],
    Reserve <- [r \in Alike |-> 2], Cost <- CostOf, UpstreamCost <- UpstreamOf, Exposures <- {},
    Deposit <- 3, CreditLimit <- 1, Stock <- 3, Threshold <- 0, MaxAttempts <- 1, LeaseTicks <- 1,
    ClaimTicks <- 1, MaxRevision <- 0, MaxFaults <- 1, MaxReviews <- 0, Nobody <- none,
    NoReceipt <- none, NoChannel <- none,
    calls <- signals

(* Two requests on one channel, of which one holds nothing.                *)
Fleet ==
  INSTANCE Billing WITH Requests <- {"r1", "r2"}, Receipts <- {"a", "b"}, Poison <- {},
    Channels <- {"ch"}, Callers <- {c1}, Workers <- {"w"}, Lanes <- {"l"}, Owner <- [l \in {"l"} |-> "w"],
    Reserve <- [r \in {"r1", "r2"} |-> IF r = "r2" THEN 0 ELSE 2], Cost <- CostOf,
    UpstreamCost <- UpstreamOf, Exposures <- {1, 2}, Deposit <- 3, CreditLimit <- 1, Stock <- 3,
    Threshold <- 0, MaxAttempts <- 1, LeaseTicks <- 1, ClaimTicks <- 1, MaxRevision <- 0,
    MaxFaults <- 0, MaxReviews <- 0, Nobody <- none, NoReceipt <- none, NoChannel <- none,
    calls <- signals

(* One request for which two callers try two channels.                     *)
Trying ==
  INSTANCE Billing WITH Requests <- {"r1"}, Receipts <- {"a"}, Poison <- {},
    Channels <- {"ch1", "ch2"}, Callers <- {c1, c2}, Workers <- {"w"}, Lanes <- {"l"},
    Owner <- [l \in {"l"} |-> "w"], Reserve <- [r \in {"r1"} |-> 2], Cost <- [rc \in {"a"} |-> 3],
    UpstreamCost <- [rc \in {"a"} |-> 2], Exposures <- {1, 2}, Deposit <- 2, CreditLimit <- 1,
    Stock <- 3, Threshold <- 0, MaxAttempts <- 1, LeaseTicks <- 1, ClaimTicks <- 1,
    MaxRevision <- 0, MaxFaults <- 0, MaxReviews <- 0, Nobody <- none, NoReceipt <- none,
    NoChannel <- none, calls <- signals

ASSUME AdmissionAssumption
ASSUME /\ Wallet!BillingAssumption /\ Fleet!BillingAssumption /\ Trying!BillingAssumption
       /\ Wallet!RequestsAreFinite /\ Fleet!RequestsAreFinite /\ Trying!RequestsAreFinite
-----------------------------------------------------------------------------
Admissions == {"limits", "quotas"}

AtRest ==
  part \in Admissions =>
    /\ bill = none /\ hold = none /\ resv = none /\ usage = none /\ paid = none
    /\ wallet = none /\ stock = none /\ signals = none /\ picks = none /\ jobs = none
    /\ desk = none /\ faults = none /\ reviews = none

Kept ==
  /\ part \notin Admissions => UNCHANGED vars
  /\ part \in Admissions => UNCHANGED bills

MCInit ==
  /\ part \in Parts /\ Init
  /\ \/ part \in Admissions
     \/ part = "wallet" /\ Wallet!Init
     \/ part = "fleet" /\ Fleet!Init
     \/ part = "trying" /\ Trying!Init
  /\ AtRest

MCNext ==
  /\ \/ part \in Admissions /\ Next /\ Sharing
     \/ part = "wallet" /\ Wallet!Next
     \/ part = "fleet" /\ Fleet!Next
     \/ part = "trying" /\ Trying!Next
  /\ UNCHANGED part /\ Kept

MCSpec == MCInit /\ [][MCNext]_allVars
-----------------------------------------------------------------------------
(* Several requests of one wallet or one channel: the balance is the       *)
(* deposit less what was settled, what is in flight is what the open       *)
(* requests hold, a channel's exposure is that of its unsettled requests,  *)
(* and what is below the credit limit or above a budget is only what was   *)
(* used above its hold or its estimate.                                    *)
BooksBalance ==
  /\ part = "wallet" => Wallet!MoneyIsBooked
  /\ part = "fleet" => Fleet!MoneyIsBooked
  /\ part = "trying" => Trying!MoneyIsBooked /\ Trying!AcceptedMeansRecorded
=============================================================================
