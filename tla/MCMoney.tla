------------------------------- MODULE MCMoney -------------------------------
(***************************************************************************)
(* The components that move money outside of a request's billing, for TLC: *)
(* the commands of administrators (Operations as it is), the wallet of the *)
(* service, top-up orders, redemption codes and commissions.  They share   *)
(* no state, so a behaviour is about one of them: part says which and      *)
(* never changes, the variables of Operations stay as they begin and those *)
(* of the others are at rest.  The row of Payments is order here.          *)
(***************************************************************************)
EXTENDS Operations, TLC

CONSTANTS Parts, c1, c2, c3, o1, o2   (* o1, o2: operations, or users *)

VARIABLES part,
  acct, holds, posted, calls,                                      (* Ledger *)
  order, making, session, credits, note, faults,                 (* Payments *)
  code, usedCount, claimed, booked, window, time, begun,           (* Redeem *)
  today, lastRun, spend, open, paid, rate, active, honest, run (* Commission *)

allVars ==
  <<vars, part, acct, holds, posted, calls, order, making, session, credits, note, faults, code, usedCount,
    claimed, booked, window, time, begun, today, lastRun, spend, open, paid, rate, active,
    honest, run>>

Symmetry == Permutations(Calls) \cup Permutations(Ids)
-----------------------------------------------------------------------------
(* Ledger.  Two users; commands for the same balance, hold or key.         *)
Cmd(verb, key, user, amount) ==
  [verb |-> verb, key |-> key, user |-> user, amount |-> amount, over |-> FALSE]
LedgerCommands ==
  {Cmd("authorize", "k1", "u1", 2), Cmd("authorize", "k1", "u2", 2), Cmd("authorize", "k2", "u1", 1),
   Cmd("settle", "k1", "u1", 1), Cmd("settle", "k1", "u1", 3), Cmd("release", "k1", "u1", 0),
   Cmd("transfer", "k3", "u1", 2), Cmd("credit", "k2", "u1", 1), Cmd("credit", "k2", "u2", 1),
   Cmd("refund", "k2", "u1", 1), [Cmd("authorize", "k2", "u2", 4) EXCEPT !.over = TRUE],
   Cmd("settle", "k2", "u2", 4), Cmd("line", "k3", "u1", 0), Cmd("line", "k4", "u1", 1)}
Book ==
  INSTANCE Ledger WITH Users <- {"u1", "u2"}, Keys <- {"k1", "k2", "k3", "k4"},
    Commands <- LedgerCommands, Deposit <- 2, Limit <- 1

(* Operations.  Two commands of administrators, sent by three calls.       *)
Ask(verb, on, amount, voucher) ==
  [verb |-> verb, on |-> on, amount |-> amount, voucher |-> voucher]
MCArgs ==
  {Ask("recharge", "channel", 1, TRUE), Ask("adjust", "channel", -2, FALSE),
   Ask("charge", "user", -2, FALSE)}

(* Payments.  Two orders, of which the channel names one by its session,   *)
(* and three notifications.                                                *)
Cashier ==
  INSTANCE Payments WITH Orders <- {"p1", "p2"}, Notes <- Calls, Named <- {"p1"}, MaxFaults <- 2,
    row <- order

(* Redeem.  A code that expires, one that does not, and a guess.           *)
Redemption ==
  INSTANCE Redeem WITH Codes <- {"x", "y", "guess"}, Batch <- {"x", "y"}, Users <- Ids, Calls <- {c1, c2}, call <- calls,
    Expiry <- [x \in {"x", "y", "guess"} |-> IF x = "x" THEN 2 ELSE 0],
    PerMinuteLimit <- 2, MaxTime <- 2, MaxCalls <- 3, MaxFaults <- 1

(* Commission.  Rates that change, bans; then a window of three days.      *)
Paying ==
  INSTANCE Commission WITH LastDay <- 3, Window <- 2, Runs <- {c1, c2}, Settlements <- {"s"},
    Rates <- {1, 2}, MaxSpend <- 1, MaxDown <- 2, MaxFaults <- 0, Bans <- TRUE
Looking ==
  INSTANCE Commission WITH LastDay <- 5, Window <- 3, Runs <- {c1, c2}, Settlements <- {"s"},
    Rates <- {1}, MaxSpend <- 1, MaxDown <- 2, MaxFaults <- 1, Bans <- FALSE

ASSUME /\ OperationsAssumption /\ Book!LedgerAssumption /\ Cashier!PaymentsAssumption
       /\ Redemption!RedeemAssumption
       /\ Paying!CommissionAssumption /\ Looking!CommissionAssumption
-----------------------------------------------------------------------------
Commissions == {"paying", "looking"}

AtRest ==
  /\ part # "ledger" => acct = None /\ holds = None /\ posted = None
  /\ part \notin {"ledger", "redeem"} => calls = None
  /\ part # "payments" =>
       order = None /\ making = None /\ session = None /\ credits = None /\ note = None
  /\ part \notin {"payments", "redeem"} \cup Commissions => faults = None
  /\ part # "redeem" =>
       /\ code = None /\ usedCount = None /\ claimed = None /\ booked = None
       /\ window = None /\ time = None /\ begun = None
  /\ part \notin Commissions =>
       /\ today = None /\ lastRun = None /\ spend = None /\ open = None /\ paid = None
       /\ rate = None /\ active = None /\ honest = None /\ run = None

Kept ==
  /\ part # "operations" => UNCHANGED vars
  /\ part # "ledger" => UNCHANGED <<acct, holds, posted>>
  /\ part \notin {"ledger", "redeem"} => UNCHANGED calls
  /\ part # "payments" => UNCHANGED <<order, making, session, credits, note>>
  /\ part \notin {"payments", "redeem"} \cup Commissions => UNCHANGED faults
  /\ part # "redeem" => UNCHANGED <<code, usedCount, claimed, booked, window, time, begun>>
  /\ part \notin Commissions =>
       UNCHANGED <<today, lastRun, spend, open, paid, rate, active, honest, run>>

MCInit ==
  /\ part \in Parts /\ Init
  /\ \/ part = "operations"
     \/ part = "ledger" /\ Book!Init
     \/ part = "payments" /\ Cashier!Init
     \/ part = "redeem" /\ Redemption!Init
     \/ part = "paying" /\ Paying!Init
     \/ part = "looking" /\ Looking!Init
  /\ AtRest

(* The calls of these are spent at some time; the others go on for ever.   *)
Ended == part \in {"ledger", "payments", "redeem"} /\ UNCHANGED allVars

MCNext ==
  \/ /\ \/ part = "operations" /\ Next
        \/ part = "ledger" /\ Book!Next
        \/ part = "payments" /\ Cashier!Next
        \/ part = "redeem" /\ Redemption!Next
        \/ part = "paying" /\ Paying!Next
        \/ part = "looking" /\ Looking!Next
     /\ UNCHANGED part /\ Kept
  \/ Ended

MCSpec == MCInit /\ [][MCNext]_allVars
-----------------------------------------------------------------------------
(* The wallet of the service: no update is lost though every write is an   *)
(* absolute value, a key is used once, what is held is covered, and who is *)
(* told yes finds his command carried out; an administrator is told what   *)
(* the first execution of his command left, and the statement of a channel *)
(* explains its budget.                                                    *)
LedgerIsSound ==
  /\ part = "ledger" =>
       Book!TypeOK /\ Book!Books /\ Book!OncePerKey /\ Book!Covered /\ Book!AnsweredIsApplied
  /\ part = "operations" =>
       TypeOK /\ ToldIsStored /\ StatementReads /\ TracesKept

(* Who paid, redeemed a code or brought a customer is credited, and nobody *)
(* else: the status of an order is what the wallet has, a code is used by  *)
(* the one who has its credit, and commissions are paid for spending that  *)
(* is there, of every day that has left the window.                        *)
CreditedIsEarned ==
  /\ part = "payments" => Cashier!TypeOK /\ Cashier!StatusIsMoney /\ Cashier!AckedIsCredited
  /\ part = "redeem" =>
       Redemption!TypeOK /\ Redemption!UsedIsCredited /\ Redemption!RefusalsAreTrue
  /\ part = "paying" => Paying!TypeOK /\ Paying!PaidForSpending
  /\ part = "looking" => Looking!NoDayForgotten

(* Nothing is paid twice: a redemption answers with a credit that was not  *)
(* there, and a day that was paid is not paid again, whatever its rate.    *)
PaidOnce ==
  [][/\ part = "redeem" => Redemption!AnsweredOnce
     /\ part = "paying" => Paying!DayIsPaidOnce]_allVars
=============================================================================
