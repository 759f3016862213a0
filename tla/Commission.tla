---------------------------- MODULE Commission -----------------------------
(***************************************************************************)
(* The daily commission of one inviter.  What his invitees spent is in     *)
(* usage_logs, where a row bears the time its settlement's transaction     *)
(* began and appears when that commits.  Workers run the task every hour:  *)
(* each run sums the last BACKFILL_DAYS finished days, one after another,  *)
(* and credits each under a key of its own, so that a day is paid once     *)
(* however many workers run, stop half-way and start again.                *)
(***************************************************************************)
EXTENDS Integers

CONSTANTS
  LastDay,          (* bound: the days that are looked at                   *)
  Window,           (* BACKFILL_DAYS                                        *)
  Runs, Settlements,  (* workers; settlements under way at the same time    *)
  Rates, MaxSpend,  (* commission rates; bound on a day's spending          *)
  MaxDown,          (* the longest time, in days, without a full run        *)
  MaxFaults,        (* bound: workers lost and credits that fail            *)
  Bans,             (* whether inviters and relations are banned            *)
  None

Days == 1 .. LastDay

CommissionAssumption ==
  /\ {LastDay, Window, MaxSpend, MaxDown, MaxFaults} \subseteq Nat /\ Window > 0
  /\ Rates # {} /\ Rates \subseteq Nat /\ Bans \in BOOLEAN

VARIABLES
  today, lastRun,   (* lastRun: the day on which a full run began last      *)
  spend,            (* [Days -> what is committed in usage_logs for a day]  *)
  open,             (* [Settlements -> day its transaction began on]        *)
  paid,             (* [Days -> what the wallet has under the day's key]    *)
  rate, active, honest,  (* marketing_settings; users.status; referrals.status *)
  run,              (* [Runs -> step, the day it began on, day, sum, rate]  *)
  faults

world == <<today, lastRun, spend, open, rate, active, honest>>
vars == <<world, paid, run, faults>>

Idle == [pc |-> "idle", began |-> 0, day |-> 0, sum |-> 0, rate |-> 0, whole |-> TRUE]

Init ==
  /\ today = 1 /\ lastRun = 1
  /\ spend = [d \in Days |-> 0] /\ open = [s \in Settlements |-> None]
  /\ paid = [d \in Days |-> None] /\ rate \in Rates /\ active = TRUE /\ honest = TRUE
  /\ run = [r \in Runs |-> Idle] /\ faults = 0

-----------------------------------------------------------------------------
(* The world around the task.                                              *)

(* A settlement begins, and its row appears with the day it began on.      *)
Begins(s) ==
  /\ open[s] = None /\ open' = [open EXCEPT ![s] = today]
  /\ UNCHANGED <<today, lastRun, spend, rate, active, honest, paid, run, faults>>

Commits(s) ==
  LET d == open[s] IN
  /\ d # None /\ open' = [open EXCEPT ![s] = None]
  /\ \/ spend[d] < MaxSpend /\ spend' = [spend EXCEPT ![d] = @ + 1]
     \/ UNCHANGED spend
  /\ UNCHANGED <<today, lastRun, rate, active, honest, paid, run, faults>>

(* Assumed: no settlement lasts a day, and no worker is away longer than   *)
(* MaxDown days.                                                           *)
Midnight ==
  /\ today < LastDay /\ today - lastRun < MaxDown
  /\ \A s \in Settlements : open[s] \in {None, today}
  /\ today' = today + 1
  /\ UNCHANGED <<lastRun, spend, open, rate, active, honest, paid, run, faults>>

(* updateSettings, setRelationStatus and the ban of a user.                *)
Administer ==
  /\ \/ rate' \in Rates /\ UNCHANGED <<active, honest>>
     \/ Bans /\ active' = ~active /\ UNCHANGED <<rate, honest>>
     \/ Bans /\ honest' = ~honest /\ UNCHANGED <<rate, active>>
  /\ UNCHANGED <<today, lastRun, spend, open, paid, run, faults>>

-----------------------------------------------------------------------------
(* runReferralCommissionOnce.                                              *)

Set(r, step) == run' = [run EXCEPT ![r] = step]

First(t) == IF t - Window < 1 THEN 1 ELSE t - Window
Last(t) == t - 1

(* A run of a switched-off commission, or one with no day to look at, is   *)
(* over at once.                                                           *)
StartRun(r) ==
  /\ run[r] = Idle
  /\ IF rate = 0 \/ First(today) > Last(today)
     THEN lastRun' = today /\ UNCHANGED run
     ELSE /\ Set(r, [Idle EXCEPT !.pc = "sum", !.began = today, !.day = First(today), !.rate = rate])
          /\ UNCHANGED lastRun
  /\ UNCHANGED <<today, spend, open, rate, active, honest, paid, faults>>

(* The next day, or the end of the run.                                    *)
Onward(r, whole) ==
  IF run[r].day < Last(run[r].began)
  THEN /\ Set(r, [run[r] EXCEPT !.pc = "sum", !.day = @ + 1, !.whole = whole])
       /\ UNCHANGED lastRun
  ELSE /\ Set(r, Idle)
       /\ lastRun' = IF whole /\ run[r].began > lastRun THEN run[r].began ELSE lastRun

(* sumInviteeSpendByInviter: one statement, of what is committed.          *)
Sum(r) ==
  /\ run[r].pc = "sum"
  /\ IF honest /\ spend[run[r].day] > 0
     THEN /\ Set(r, [run[r] EXCEPT !.pc = "check", !.sum = spend[run[r].day]])
          /\ UNCHANGED lastRun
     ELSE Onward(r, run[r].whole)
  /\ UNCHANGED <<today, spend, open, rate, active, honest, paid, faults>>

Check(r) ==
  /\ run[r].pc = "check"
  /\ IF active THEN Set(r, [run[r] EXCEPT !.pc = "credit"]) /\ UNCHANGED lastRun
               ELSE Onward(r, run[r].whole)
  /\ UNCHANGED <<today, spend, open, rate, active, honest, paid, faults>>

ByAmount(d, amount) ==   \* mutant: the amount is part of the key
  [paid EXCEPT ![d] = amount]
(* Another amount under a key that is there is a conflict and changes      *)
(* nothing, and the error is only logged.                                  *)
Keyed(d, amount) == [paid EXCEPT ![d] = IF @ = None THEN amount ELSE @]

Credit(r) ==
  /\ run[r].pc = "credit"
  /\ paid' = Keyed(run[r].day, [sum |-> run[r].sum, rate |-> run[r].rate])
  /\ Onward(r, run[r].whole)
  /\ UNCHANGED <<today, spend, open, rate, active, honest, faults>>

(* The wallet is not reached, and the run goes on with the next day.       *)
CreditFails(r) ==
  /\ run[r].pc = "credit" /\ faults < MaxFaults /\ faults' = faults + 1
  /\ Onward(r, FALSE)
  /\ UNCHANGED <<today, spend, open, rate, active, honest, paid>>

Dies(r) ==
  /\ run[r] # Idle /\ faults < MaxFaults /\ faults' = faults + 1
  /\ Set(r, Idle) /\ UNCHANGED <<world, paid>>

Next ==
  \/ \E s \in Settlements : Begins(s) \/ Commits(s)
  \/ Midnight \/ Administer
  \/ \E r \in Runs : StartRun(r) \/ Sum(r) \/ Check(r) \/ Credit(r) \/ CreditFails(r) \/ Dies(r)

Spec == Init /\ [][Next]_vars

-----------------------------------------------------------------------------
(* Properties.                                                             *)

TypeOK ==
  /\ today \in Days /\ lastRun \in 1 .. today /\ rate \in Rates
  /\ active \in BOOLEAN /\ honest \in BOOLEAN /\ faults \in 0 .. MaxFaults
  /\ \A d \in Days : spend[d] \in 0 .. MaxSpend /\ (d > today => spend[d] = 0)
  /\ \A s \in Settlements : open[s] = None \/ open[s] \in Days
  /\ \A r \in Runs : /\ run[r].pc \in {"idle", "sum", "check", "credit"}
                     /\ run[r] # Idle => run[r].day \in run[r].began - Window .. run[r].began - 1

(* The day's key: once it is paid, no run of any worker, at a new rate or  *)
(* with a new sum, pays the day again.                                     *)
DayIsPaidOnce == \A d \in Days : paid[d] # None => paid'[d] = paid[d]

(* A day is paid after it is over, for spending that is there.             *)
PaidForSpending ==
  \A d \in Days : paid[d] # None => d < today /\ paid[d].sum \in 1 .. spend[d]

(* Runs that are half done, failed or missed for as long as the window are *)
(* made up for: a day that has left the window is paid.                    *)
NoDayForgotten ==
  \A d \in Days : d + Window < today /\ spend[d] > 0 => paid[d] # None

=============================================================================
