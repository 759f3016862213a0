---------------------------- MODULE Operations -----------------------------
(***************************************************************************)
(* The administrator's money commands: a channel is recharged or adjusted, *)
(* a user is given or charged an amount.  Each request carries an          *)
(* operation id; createOperationsUseCase inserts a placeholder for it in   *)
(* the transaction of the command, and the unique index makes a second     *)
(* request of the same id wait until that transaction ends: it then        *)
(* replays the receipt, or takes over.  Processes die and clients repeat   *)
(* a request whose answer they have not seen.                              *)
(***************************************************************************)
EXTENDS Integers, SequencesExt, Sums

CONSTANTS
  Ids, Calls,      (* operation ids; requests served at the same time       *)
  Args,            (* what may be asked: verb, account, amount, voucher     *)
  Start, Line,     (* money of each account; how far a user may go below 0  *)
  Threshold,       (* a channel at or below it is taken out of service      *)
  MaxSpend, MaxDeaths,   (* bounds: steps of the traffic, processes lost    *)
  None

Accounts == {"channel", "user"}

OperationsAssumption ==
  /\ Start \in Nat /\ Line \in Nat /\ Threshold \in Int
  /\ MaxSpend \in Nat /\ MaxDeaths \in Nat
  /\ \A a \in Args : /\ a.on \in Accounts /\ a.amount \in Int /\ a.voucher \in BOOLEAN
                     /\ a.voucher => a.verb = "recharge"
  /\ None \notin Calls /\ None \notin [args : Args, receipt : Int]

VARIABLES
  row,       (* [Ids -> committed row of ledger_operations: args, receipt]  *)
  holder,    (* [Ids -> the call whose placeholder is not committed]        *)
  money,     (* [Accounts -> upstream_budget and the user's balance]        *)
  lock,      (* [Accounts -> the call whose transaction updated the row]    *)
  broken,    (* the channel's status is 3                                   *)
  recharges, (* committed rows of channel_recharges, by id                  *)
  vouchers,  (* ids for which a voucher is stored                           *)
  audited,   (* ids with a row of audit_logs                                *)
  call,      (* [Calls -> step, id, args, receipt]                          *)
  spent, deaths

tables == <<row, money, broken, recharges, vouchers, audited>>
vars == <<tables, holder, lock, call, spent, deaths>>

Idle == [pc |-> "idle", id |-> None, args |-> None, receipt |-> None]

Init ==
  /\ row = [i \in Ids |-> None] /\ holder = [i \in Ids |-> None]
  /\ money = [x \in Accounts |-> Start] /\ lock = [x \in Accounts |-> None]
  /\ broken = FALSE /\ recharges = << >> /\ vouchers = {} /\ audited = {}
  /\ call = [c \in Calls |-> Idle] /\ spent = 0 /\ deaths = 0

To(c, pc) == call' = [call EXCEPT ![c].pc = pc]
At(c, pc) == call[c].pc = pc
Quiet == UNCHANGED <<spent, deaths>>

-----------------------------------------------------------------------------
(* A request arrives: of a new command, or the repetition of one.          *)

Receive(c, i, a) ==
  /\ call[c] = Idle
  /\ call' = [call EXCEPT ![c] = [pc |-> IF a.voucher THEN "saving" ELSE "asked",
                                  id |-> i, args |-> a, receipt |-> None]]
  /\ Quiet /\ UNCHANGED <<tables, holder, lock>>

(* The voucher is stored first, outside of the transaction.                *)
SaveVoucher(c) ==
  /\ At(c, "saving") /\ To(c, "asked")
  /\ vouchers' = vouchers \cup {call[c].id}
  /\ Quiet /\ UNCHANGED <<row, money, broken, recharges, audited, holder, lock>>

(* insertPlaceholder: waits while another transaction holds the id.        *)
Free(i) == holder[i] = None /\ row[i] = None

Place(c) ==
  LET i == call[c].id IN
  /\ At(c, "asked") /\ Free(i)
  /\ holder' = [holder EXCEPT ![i] = c] /\ To(c, "placed")
  /\ Quiet /\ UNCHANGED <<tables, lock>>

Same(r, a) == r.args = a

(* The id is taken: the receipt of the first time, or a conflict.          *)
Replay(c) ==
  LET r == row[call[c].id] IN
  /\ At(c, "asked") /\ r # None /\ Same(r, call[c].args)
  /\ call' = [call EXCEPT ![c].pc = "committed", ![c].receipt = r.receipt]
  /\ Quiet /\ UNCHANGED <<tables, holder, lock>>

Conflict(c) ==
  LET r == row[call[c].id] IN
  /\ At(c, "asked") /\ r # None /\ ~Same(r, call[c].args)
  /\ To(c, "conflict") /\ Quiet /\ UNCHANGED <<tables, holder, lock>>

-----------------------------------------------------------------------------
(* The command itself, in the same transaction.                            *)

(* rechargeBudget and credit have no guard; an adjustment of the channel   *)
(* must not end below zero, a charge to the user not below its line.       *)
Allowed(a, m) == CASE a.verb = "adjust" -> m + a.amount >= 0
                   [] a.verb = "charge" -> m + a.amount >= -Line
                   [] OTHER -> TRUE

Unlocked(x) == TRUE   \* mutant: the balance is read and then written
RowFree(x) == lock[x] = None

(* The update takes the row's lock; the new balance is for the receipt.    *)
Update(c) ==
  LET a == call[c].args IN
  /\ At(c, "placed") /\ RowFree(a.on) /\ Allowed(a, money[a.on])
  /\ lock' = [lock EXCEPT ![a.on] = c]
  /\ call' = [call EXCEPT ![c].pc = "updated", ![c].receipt = money[a.on] + a.amount]
  /\ Quiet /\ UNCHANGED <<tables, holder>>

Release(c) ==
  /\ holder' = [i \in Ids |-> IF holder[i] = c THEN None ELSE holder[i]]
  /\ lock' = [x \in Accounts |-> IF lock[x] = c THEN None ELSE lock[x]]

(* insufficient_budget: the transaction is rolled back.                    *)
Refuse(c) ==
  LET a == call[c].args IN
  /\ At(c, "placed") /\ RowFree(a.on) /\ ~Allowed(a, money[a.on])
  /\ Release(c) /\ To(c, "refused") /\ Quiet /\ UNCHANGED tables

InTransaction(i, a) == IF a.on = "user" THEN audited \cup {i} ELSE audited

(* insertRecharge, the audit of a user's command, saveReceipt, commit.     *)
Commit(c) ==
  LET a == call[c].args i == call[c].id IN
  /\ At(c, "updated")
  /\ money' = [money EXCEPT ![a.on] = call[c].receipt]
  /\ broken' = (broken /\ a.verb # "recharge")
  /\ recharges' = IF a.on = "channel"
       THEN Append(recharges, [id |-> i, amount |-> a.amount, after |-> call[c].receipt,
                               voucher |-> a.voucher])
       ELSE recharges
  /\ audited' = InTransaction(i, a)
  /\ row' = [row EXCEPT ![i] = [args |-> a, receipt |-> call[c].receipt]]
  /\ Release(c) /\ To(c, "committed") /\ Quiet /\ UNCHANGED vouchers

(* recordAudit of a channel's command, at a replay too; its failure is     *)
(* only logged.                                                            *)
Audit(c) ==
  /\ At(c, "committed") /\ To(c, "done")
  /\ \/ call[c].args.on = "channel" /\ audited' = audited \cup {call[c].id}
     \/ UNCHANGED audited
  /\ Quiet /\ UNCHANGED <<row, money, broken, recharges, vouchers, holder, lock>>

(* The answer arrives and the call is over.                                *)
Answer(c) ==
  /\ call[c].pc \in {"done", "refused", "conflict"}
  /\ call' = [call EXCEPT ![c] = Idle]
  /\ Quiet /\ UNCHANGED <<tables, holder, lock>>

(* The process is lost, and with it an open transaction.                   *)
Die(c) ==
  /\ call[c] # Idle /\ deaths < MaxDeaths /\ deaths' = deaths + 1
  /\ Release(c) /\ call' = [call EXCEPT ![c] = Idle] /\ UNCHANGED <<tables, spent>>

(* deductBudgetAndMaybeBreak, of a settlement: waits for the lock.         *)
Deduct ==
  /\ RowFree("channel") /\ spent < MaxSpend /\ spent' = spent + 1
  /\ money' = [money EXCEPT !["channel"] = @ - 1]
  /\ broken' = (broken \/ money'["channel"] <= Threshold)
  /\ UNCHANGED <<row, recharges, vouchers, audited, holder, lock, call, deaths>>

Serve(c) == \/ SaveVoucher(c) \/ Place(c) \/ Replay(c) \/ Conflict(c) \/ Update(c)
            \/ Refuse(c) \/ Commit(c) \/ Audit(c) \/ Answer(c)

Next == \/ \E c \in Calls, i \in Ids, a \in Args : Receive(c, i, a)
        \/ \E c \in Calls : Serve(c) \/ Die(c)
        \/ Deduct

Spec == Init /\ [][Next]_vars

-----------------------------------------------------------------------------
(* Properties.                                                             *)

Steps == {"idle", "saving", "asked", "placed", "updated", "committed", "done",
          "refused", "conflict"}

(* Types; a placeholder and a locked row belong to a call that is in the   *)
(* transaction of that id and that account.                                *)
TypeOK ==
  /\ \A i \in Ids :
       /\ row[i] # None => row[i].args \in Args /\ row[i].receipt \in Int
       /\ holder[i] # None =>
            row[i] = None /\ call[holder[i]].id = i /\ call[holder[i]].pc \in {"placed", "updated"}
  /\ \A x \in Accounts :
       /\ money[x] \in Int
       /\ lock[x] # None => At(lock[x], "updated") /\ call[lock[x]].args.on = x
  /\ broken \in BOOLEAN /\ vouchers \subseteq Ids /\ audited \subseteq Ids
  /\ \A c \in Calls : call[c].pc \in Steps
  /\ spent \in 0 .. MaxSpend /\ deaths \in 0 .. MaxDeaths

(* However often a command is sent, by clients that repeat it at the same  *)
(* time or after a lost answer, it moves the money once, by its amount.    *)
Once == INSTANCE Command
  WITH applied <- [i \in Ids |-> IF row[i] = None THEN None ELSE row[i].args]
AppliedOnce == Once!Spec

(* What a client is told is what the first execution left: a command with  *)
(* the same arguments, and the balance it led to.                          *)
ToldIsStored ==
  \A c \in Calls : call[c].pc \in {"committed", "done"} =>
    row[call[c].id] = [args |-> call[c].args, receipt |-> call[c].receipt]

Total(s) == SumFunctionOnSet([k \in DOMAIN s |-> s[k].amount], DOMAIN s)

(* The statement of a channel explains its budget: its rows and what the   *)
(* traffic spent add up, and from one row's balance to the next the budget *)
(* only fell.                                                              *)
After(s, k) == IF k = 0 THEN Start ELSE s[k].after
BudgetFalls ==
  \A k \in DOMAIN recharges : recharges[k].after - recharges[k].amount <= After(recharges, k - 1)
StatementReads == money["channel"] = Start + Total(recharges) - spent /\ BudgetFalls

(* A user's command and its audit are there together or not at all; a      *)
(* recharge that names a voucher has one stored.                           *)
TracesKept ==
  /\ \A i \in Ids : row[i] # None /\ row[i].args.on = "user" => i \in audited
  /\ \A i \in audited : row[i] # None
  /\ \A k \in DOMAIN recharges : recharges[k].voucher => recharges[k].id \in vouchers

-----------------------------------------------------------------------------
(* Proofs, for every number of ids, calls and commands.  What makes it     *)
(* work is that the placeholder of an id and the lock of a balance belong  *)
(* to one open transaction each: the balance a transaction has computed is *)
(* still the one it commits, and nobody else commits its id.               *)

Rows == [args : Args, receipt : Int]
Recharges == [id : Ids, amount : Int, after : Int, voucher : BOOLEAN]

CallRows ==
  [pc : Steps, id : Ids \cup {None}, args : Args \cup {None}, receipt : Int \cup {None}]

Types ==
  /\ row \in [Ids -> Rows \cup {None}] /\ holder \in [Ids -> Calls \cup {None}]
  /\ money \in [Accounts -> Int] /\ lock \in [Accounts -> Calls \cup {None}]
  /\ broken \in BOOLEAN /\ recharges \in Seq(Recharges)
  /\ vouchers \subseteq Ids /\ audited \subseteq Ids
  /\ call \in [Calls -> CallRows]
  /\ spent \in 0 .. MaxSpend /\ deaths \in 0 .. MaxDeaths

(* A call that was received has an id and a command.                       *)
CallsAsk == \A c \in Calls : call[c] = Idle \/ (call[c].id \in Ids /\ call[c].args \in Args)

Placed(c) == call[c].pc \in {"placed", "updated"}

(* The placeholder of an id: who has it is in the transaction of that id,  *)
(* and the other way round; there is no committed row beside it.           *)
HoldersPlace ==
  \A i \in Ids, c \in Calls : holder[i] = c <=> Placed(c) /\ call[c].id = i
HeldIsOpen == \A i \in Ids : holder[i] # None => row[i] = None

(* The lock of a balance: who has it has computed what the balance will be.*)
LocksUpdate ==
  \A x \in Accounts, c \in Calls : lock[x] = c <=> At(c, "updated") /\ call[c].args.on = x
Computed ==
  \A c \in Calls : At(c, "updated") =>
    call[c].receipt = money[call[c].args.on] + call[c].args.amount

(* The voucher is there before the command begins.                         *)
VouchersFirst ==
  \A c \in Calls : call[c].pc \in {"asked", "placed", "updated"} /\ call[c].args.voucher =>
    call[c].id \in vouchers

Committed == \A c \in Calls : call[c].pc \in {"committed", "done"} => row[call[c].id] # None

(* The last balance of the statement is not below the budget.              *)
FellSince == money["channel"] <= After(recharges, Len(recharges))

OInv ==
  /\ Types /\ CallsAsk /\ HoldersPlace /\ HeldIsOpen /\ LocksUpdate /\ Computed
  /\ Committed /\ ToldIsStored /\ VouchersFirst /\ TracesKept /\ BudgetFalls /\ FellSince

-----------------------------------------------------------------------------
(* It holds at the start, when nothing was asked.                          *)
LEMMA InitOInv == ASSUME OperationsAssumption, Init PROVE OInv
<1> USE DEF Init, Idle
<1>1. Types
  <2>1. call \in [Calls -> CallRows] BY DEF CallRows, Steps
  <2>2. recharges \in Seq(Recharges) BY DEF Recharges
  <2>3. spent \in 0 .. MaxSpend /\ deaths \in 0 .. MaxDeaths BY DEF OperationsAssumption
  <2>4. money \in [Accounts -> Int] BY DEF OperationsAssumption
  <2> QED BY <2>1, <2>2, <2>3, <2>4 DEF Types
<1>2. CallsAsk BY DEF CallsAsk
<1>3. HoldersPlace /\ HeldIsOpen /\ LocksUpdate /\ Computed
  BY DEF HoldersPlace, HeldIsOpen, LocksUpdate, Computed, Placed, At, OperationsAssumption
<1>4. Committed /\ ToldIsStored /\ VouchersFirst BY DEF Committed, ToldIsStored, VouchersFirst
<1>5. TracesKept /\ BudgetFalls BY DEF TracesKept, BudgetFalls
<1>6. FellSince BY DEF FellSince, After, Accounts, OperationsAssumption
<1> QED BY <1>1, <1>2, <1>3, <1>4, <1>5, <1>6 DEF OInv

(* The balance the statement ends with is a number, with no row as well.   *)
LEMMA LastIsInt == ASSUME OperationsAssumption, Types PROVE After(recharges, Len(recharges)) \in Int
<1>1. CASE Len(recharges) = 0 BY <1>1 DEF After, OperationsAssumption
<1>2. CASE Len(recharges) # 0
  <2>1. Len(recharges) \in 1 .. Len(recharges) BY <1>2 DEF Types
  <2>2. recharges[Len(recharges)] \in Recharges BY <2>1 DEF Types
  <2> QED BY <1>2, <2>2 DEF After, Recharges
<1> QED BY <1>1, <1>2

(* The steps of a call outside of its transaction.                         *)
LEMMA ReceiveStep ==
  ASSUME OperationsAssumption, OInv, NEW c \in Calls, NEW i \in Ids, NEW a \in Args, Receive(c, i, a)
  PROVE  OInv'
<1> USE DEF Receive, OInv, tables, Quiet
<1>1. Types' BY DEF Types, CallRows, Steps
<1>2. CallsAsk' BY DEF CallsAsk, Types
<1>3. HoldersPlace' /\ HeldIsOpen' /\ LocksUpdate' /\ Computed'
  BY DEF HoldersPlace, HeldIsOpen, LocksUpdate, Computed, Placed, At, Idle, Types
<1>4. Committed' /\ ToldIsStored' BY DEF Committed, ToldIsStored, Types
<1>5. VouchersFirst' BY DEF VouchersFirst, Types, OperationsAssumption
<1>6. TracesKept' /\ BudgetFalls' /\ FellSince' BY DEF TracesKept, BudgetFalls, FellSince, After
<1> QED BY <1>1, <1>2, <1>3, <1>4, <1>5, <1>6

(* The voucher is stored before the placeholder is asked for.              *)
LEMMA SaveStep ==
  ASSUME OperationsAssumption, OInv, NEW c \in Calls, SaveVoucher(c) PROVE OInv'
<1> USE DEF SaveVoucher, OInv, tables, Quiet, To, At
<1>1. call[c].id \in Ids BY DEF CallsAsk, Idle
<1>2. Types' BY <1>1 DEF Types, CallRows, Steps
<1>3. CallsAsk' BY DEF CallsAsk, Idle, Types
<1>4. HoldersPlace' /\ HeldIsOpen' /\ LocksUpdate' /\ Computed'
  BY DEF HoldersPlace, HeldIsOpen, LocksUpdate, Computed, Placed, Types
<1>5. Committed' /\ ToldIsStored' /\ VouchersFirst' BY DEF Committed, ToldIsStored, VouchersFirst, Types
<1>6. TracesKept' /\ BudgetFalls' /\ FellSince' BY DEF TracesKept, BudgetFalls, FellSince, After
<1> QED BY <1>2, <1>3, <1>4, <1>5, <1>6

(* A repetition is told what is stored, or that the id is taken.           *)
LEMMA ReplayStep ==
  ASSUME OperationsAssumption, OInv, NEW c \in Calls, Replay(c) PROVE OInv'
<1> DEFINE i == call[c].id
<1> DEFINE told == [call[c] EXCEPT !.pc = "committed", !.receipt = row[i].receipt]
<1> USE DEF OInv
<1>1. /\ At(c, "asked") /\ row[i] # None /\ row[i].args = call[c].args
      /\ call' = [call EXCEPT ![c] = told]
      /\ UNCHANGED <<tables, holder, lock, spent, deaths>>
  BY DEF Replay, Same, Quiet, Types
<1>2. i \in Ids /\ call[c].args \in Args BY <1>1 DEF CallsAsk, Idle, At
<1>3. row[i] \in Rows BY <1>1, <1>2 DEF Types
<1>4. /\ told.pc = "committed" /\ told.id = i /\ told.args = call[c].args
      /\ told.receipt = row[i].receipt /\ told.receipt \in Int
      /\ told \in CallRows
  <2>1. call[c] \in CallRows BY DEF Types
  <2>2. row[i].receipt \in Int BY <1>3 DEF Rows
  <2> QED BY <2>1, <2>2 DEF CallRows, Steps
<1> HIDE DEF told
<1>5. /\ call'[c] = told /\ \A d \in Calls \ {c} : call'[d] = call[d]
      /\ \A d \in Calls : Placed(d)' <=> Placed(d)
  BY <1>1, <1>4 DEF Types, Placed, At
<1>6. Types' BY <1>1, <1>4 DEF Types, tables
<1>7. CallsAsk' BY <1>2, <1>4, <1>5 DEF CallsAsk
<1>8. HoldersPlace' /\ HeldIsOpen' BY <1>1, <1>4, <1>5 DEF HoldersPlace, HeldIsOpen, tables
<1>9. LocksUpdate' /\ Computed' BY <1>1, <1>4, <1>5 DEF LocksUpdate, Computed, tables, At
<1>10. Committed' BY <1>1, <1>4, <1>5 DEF Committed, tables
<1>11. ToldIsStored' BY <1>1, <1>3, <1>4, <1>5 DEF ToldIsStored, tables, Rows
<1>12. VouchersFirst' BY <1>1, <1>4, <1>5 DEF VouchersFirst, tables
<1>13. TracesKept' /\ BudgetFalls' /\ FellSince'
  BY <1>1 DEF TracesKept, BudgetFalls, FellSince, After, tables
<1> QED BY <1>6, <1>7, <1>8, <1>9, <1>10, <1>11, <1>12, <1>13

(* A conflict leaves everything to the command that has the id.            *)
LEMMA ConflictStep ==
  ASSUME OperationsAssumption, OInv, NEW c \in Calls, Conflict(c) PROVE OInv'
<1> USE DEF OInv
<1>1. /\ At(c, "asked") /\ call' = [call EXCEPT ![c].pc = "conflict"]
      /\ UNCHANGED <<tables, holder, lock, spent, deaths>>
  BY DEF Conflict, Same, Quiet, To
<1> USE DEF At, tables
<1>2. Types' BY <1>1 DEF Types, CallRows, Steps
<1>3. CallsAsk' BY <1>1 DEF CallsAsk, Idle, Types
<1>4. HoldersPlace' /\ HeldIsOpen' /\ LocksUpdate' /\ Computed'
  BY <1>1 DEF HoldersPlace, HeldIsOpen, LocksUpdate, Computed, Placed, Types
<1>5. Committed' /\ ToldIsStored' /\ VouchersFirst'
  BY <1>1 DEF Committed, ToldIsStored, VouchersFirst, Types
<1>6. TracesKept' /\ BudgetFalls' /\ FellSince'
  BY <1>1 DEF TracesKept, BudgetFalls, FellSince, After
<1> QED BY <1>2, <1>3, <1>4, <1>5, <1>6

(* The audit of a command that was carried out.                            *)
LEMMA AuditStep ==
  ASSUME OperationsAssumption, OInv, NEW c \in Calls, Audit(c) PROVE OInv'
<1> USE DEF Audit, OInv, Quiet, To, At
<1>1. call[c].id \in Ids /\ row[call[c].id] # None
  BY DEF CallsAsk, Idle, Committed
<1>2. Types' BY <1>1 DEF Types, CallRows, Steps
<1>3. CallsAsk' BY DEF CallsAsk, Idle, Types
<1>4. HoldersPlace' /\ HeldIsOpen' /\ LocksUpdate' /\ Computed'
  BY DEF HoldersPlace, HeldIsOpen, LocksUpdate, Computed, Placed, Types
<1>5. Committed' /\ ToldIsStored' /\ VouchersFirst' BY DEF Committed, ToldIsStored, VouchersFirst, Types
<1>6. TracesKept' BY <1>1 DEF TracesKept
<1>7. BudgetFalls' /\ FellSince' BY DEF BudgetFalls, FellSince, After
<1> QED BY <1>2, <1>3, <1>4, <1>5, <1>6, <1>7

(* The answer takes nothing with it but the call.                          *)
LEMMA AnswerStep ==
  ASSUME OperationsAssumption, OInv, NEW c \in Calls, Answer(c) PROVE OInv'
<1> USE DEF Answer, OInv, tables, Quiet, At
<1>1. Types' BY DEF Types, CallRows, Steps, Idle
<1>2. CallsAsk' BY DEF CallsAsk, Types
<1>3. HoldersPlace' /\ HeldIsOpen' /\ LocksUpdate' /\ Computed'
  BY DEF HoldersPlace, HeldIsOpen, LocksUpdate, Computed, Placed, Idle, Types
<1>4. Committed' /\ ToldIsStored' /\ VouchersFirst' BY DEF Committed, ToldIsStored, VouchersFirst, Idle, Types
<1>5. TracesKept' /\ BudgetFalls' /\ FellSince' BY DEF TracesKept, BudgetFalls, FellSince, After
<1> QED BY <1>1, <1>2, <1>3, <1>4, <1>5

(* The placeholder goes in where there is none and no row.                 *)
LEMMA PlaceStep ==
  ASSUME OperationsAssumption, OInv, NEW c \in Calls, Place(c) PROVE OInv'
<1> USE DEF Place, Free, OInv, tables, Quiet, To, At
<1>1. call[c].id \in Ids BY DEF CallsAsk, Idle
<1>2. Types' BY <1>1 DEF Types, CallRows, Steps
<1>3. CallsAsk' BY DEF CallsAsk, Idle, Types
<1>4. HoldersPlace' BY <1>1 DEF HoldersPlace, Placed, Types, OperationsAssumption
<1>5. HeldIsOpen' BY <1>1 DEF HeldIsOpen, Types
<1>6. LocksUpdate' /\ Computed' BY DEF LocksUpdate, Computed, Types
<1>7. Committed' /\ ToldIsStored' /\ VouchersFirst' BY DEF Committed, ToldIsStored, VouchersFirst, Types
<1>8. TracesKept' /\ BudgetFalls' /\ FellSince' BY DEF TracesKept, BudgetFalls, FellSince, After
<1> QED BY <1>2, <1>3, <1>4, <1>5, <1>6, <1>7, <1>8

-----------------------------------------------------------------------------
(* The transaction.  The update takes the lock and computes the balance.   *)
LEMMA UpdateStep ==
  ASSUME OperationsAssumption, OInv, NEW c \in Calls, Update(c) PROVE OInv'
<1> DEFINE a == call[c].args
<1> DEFINE next == [call[c] EXCEPT !.pc = "updated", !.receipt = money[a.on] + a.amount]
<1> USE DEF OInv
<1>1. /\ At(c, "placed") /\ lock[a.on] = None
      /\ lock' = [lock EXCEPT ![a.on] = c] /\ call' = [call EXCEPT ![c] = next]
      /\ UNCHANGED <<tables, holder, spent, deaths>>
  BY DEF Update, RowFree, Quiet, Types
<1>2. call[c].id \in Ids /\ a \in Args BY <1>1 DEF CallsAsk, Idle, At
<1>3. a.on \in Accounts /\ a.amount \in Int BY <1>2 DEF OperationsAssumption
<1>4. /\ next.pc = "updated" /\ next.id = call[c].id /\ next.args = a
      /\ next.receipt = money[a.on] + a.amount /\ next.receipt \in Int /\ next \in CallRows
  <2>1. call[c] \in CallRows /\ money[a.on] \in Int BY <1>3 DEF Types
  <2>2. PICK n \in Int : n = money[a.on] + a.amount BY <1>3, <2>1
  <2>3. next = [call[c] EXCEPT !.pc = "updated", !.receipt = n] BY <2>2
  <2> HIDE DEF next
  <2> QED BY <2>1, <2>2, <2>3 DEF CallRows, Steps
<1> HIDE DEF next
<1>5. /\ call'[c] = next /\ \A d \in Calls \ {c} : call'[d] = call[d]
      /\ \A d \in Calls : Placed(d)' <=> Placed(d)
  BY <1>1, <1>4 DEF Types, Placed, At
<1>6. lock'[a.on] = c /\ \A x \in Accounts \ {a.on} : lock'[x] = lock[x]
  BY <1>1, <1>3 DEF Types
<1>7. Types' BY <1>1, <1>3, <1>4 DEF Types, tables
<1>8. CallsAsk' BY <1>2, <1>4, <1>5 DEF CallsAsk
<1>9. HoldersPlace' /\ HeldIsOpen' BY <1>1, <1>4, <1>5 DEF HoldersPlace, HeldIsOpen, tables
<1>10. LocksUpdate'
  <2>1. \A d \in Calls : ~(At(d, "updated") /\ call[d].args.on = a.on)
    BY <1>1, <1>3 DEF LocksUpdate, OperationsAssumption
  <2> QED BY <1>1, <1>3, <1>4, <1>5, <1>6, <2>1 DEF LocksUpdate, At
<1>11. Computed' BY <1>1, <1>4, <1>5 DEF Computed, tables, At
<1>12. Committed' /\ ToldIsStored' BY <1>1, <1>4, <1>5 DEF Committed, ToldIsStored, tables
<1>13. VouchersFirst' BY <1>1, <1>4, <1>5 DEF VouchersFirst, tables, At
<1>14. TracesKept' /\ BudgetFalls' /\ FellSince'
  BY <1>1 DEF TracesKept, BudgetFalls, FellSince, After, tables
<1> QED BY <1>7, <1>8, <1>9, <1>10, <1>11, <1>12, <1>13, <1>14

(* A transaction that is rolled back leaves the others what they had.      *)
LEMMA EndStep ==
  ASSUME OperationsAssumption, OInv, NEW c \in Calls, NEW next \in CallRows,
         Release(c), call' = [call EXCEPT ![c] = next], UNCHANGED <<tables, spent>>,
         deaths' \in 0 .. MaxDeaths, next = Idle \/ (next.id \in Ids /\ next.args \in Args),
         next.pc \in {"idle", "refused"}
  PROVE  OInv'
<1> USE DEF OInv
<1>1. call'[c] = next /\ \A d \in Calls \ {c} : call'[d] = call[d] BY DEF Types
<1>2. \A i \in Ids : holder'[i] = IF holder[i] = c THEN None ELSE holder[i] BY DEF Release
<1>3. \A x \in Accounts : lock'[x] = IF lock[x] = c THEN None ELSE lock[x] BY DEF Release
<1>4. Types' BY <1>1 DEF Types, Release, tables
<1>5. CallsAsk' BY <1>1 DEF CallsAsk
<1>6. HoldersPlace' BY <1>1, <1>2 DEF HoldersPlace, Placed, OperationsAssumption
<1>7. HeldIsOpen' BY <1>2 DEF HeldIsOpen, tables
<1>8. LocksUpdate' BY <1>1, <1>3 DEF LocksUpdate, At, OperationsAssumption
<1>9. Computed' BY <1>1 DEF Computed, At, tables
<1>10. Committed' /\ ToldIsStored' BY <1>1 DEF Committed, ToldIsStored, tables
<1>11. VouchersFirst' BY <1>1 DEF VouchersFirst, tables
<1>12. TracesKept' /\ BudgetFalls' /\ FellSince'
  BY DEF TracesKept, BudgetFalls, FellSince, After, tables
<1> QED BY <1>4, <1>5, <1>6, <1>7, <1>8, <1>9, <1>10, <1>11, <1>12

(* A refused command is rolled back with its placeholder.                  *)
LEMMA RefuseStep ==
  ASSUME OperationsAssumption, OInv, NEW c \in Calls, Refuse(c) PROVE OInv'
<1> DEFINE next == [call[c] EXCEPT !.pc = "refused"]
<1>1. /\ At(c, "placed") /\ Release(c) /\ call' = [call EXCEPT ![c] = next]
      /\ UNCHANGED <<tables, spent, deaths>>
  BY DEF Refuse, To, Quiet, OInv, Types
<1>2. call[c] \in CallRows /\ deaths \in 0 .. MaxDeaths BY DEF OInv, Types
<1>3. call[c].id \in Ids /\ call[c].args \in Args BY <1>1 DEF OInv, CallsAsk, Idle, At
<1>4. next \in CallRows /\ next.pc = "refused" /\ next.id = call[c].id /\ next.args = call[c].args
  BY <1>2 DEF CallRows, Steps
<1> HIDE DEF next
<1> QED BY <1>1, <1>2, <1>3, <1>4, EndStep

(* So is the open transaction of a process that is lost.                   *)
LEMMA DieStep ==
  ASSUME OperationsAssumption, OInv, NEW c \in Calls, Die(c) PROVE OInv'
<1>1. Idle \in CallRows /\ Idle.pc = "idle" BY DEF Idle, CallRows, Steps
<1>2. deaths' \in 0 .. MaxDeaths BY DEF Die, OInv, Types, OperationsAssumption
<1>3. Release(c) /\ call' = [call EXCEPT ![c] = Idle] /\ UNCHANGED <<tables, spent>> BY DEF Die
<1> QED BY <1>1, <1>2, <1>3, EndStep

(* A settlement takes from the budget of a channel whose row is free.      *)
LEMMA DeductStep == ASSUME OperationsAssumption, OInv, Deduct PROVE OInv'
<1> USE DEF Deduct, OInv
<1>1. money["channel"] \in Int /\ "channel" \in Accounts BY DEF Types, Accounts
<1>2. /\ money'["channel"] = money["channel"] - 1
      /\ \A x \in Accounts \ {"channel"} : money'[x] = money[x]
  BY <1>1 DEF Types
<1>3. Types' BY <1>1 DEF Types, OperationsAssumption
<1>4. CallsAsk' /\ HoldersPlace' /\ HeldIsOpen' /\ LocksUpdate'
  BY DEF CallsAsk, HoldersPlace, Placed, HeldIsOpen, LocksUpdate, At
<1>5. Computed'
  <2>1. \A d \in Calls : At(d, "updated") => call[d].args.on # "channel"
    BY <1>1 DEF LocksUpdate, RowFree, OperationsAssumption
  <2>2. \A d \in Calls : At(d, "updated") => call[d].args.on \in Accounts
    BY DEF CallsAsk, At, Idle, OperationsAssumption
  <2> QED BY <1>2, <2>1, <2>2 DEF Computed, At
<1>6. Committed' /\ ToldIsStored' /\ VouchersFirst' BY DEF Committed, ToldIsStored, VouchersFirst
<1>7. TracesKept' /\ BudgetFalls' BY DEF TracesKept, BudgetFalls, After
<1>8. FellSince'
  <2>1. After(recharges, Len(recharges)) \in Int BY LastIsInt
  <2> QED BY <1>1, <1>2, <2>1 DEF FellSince, After
<1> QED BY <1>3, <1>4, <1>5, <1>6, <1>7, <1>8

(* The commit stores what the transaction has computed under its locks.    *)
LEMMA CommitStep ==
  ASSUME OperationsAssumption, OInv, NEW c \in Calls, Commit(c) PROVE OInv'
<1> DEFINE a == call[c].args
<1> DEFINE i == call[c].id
<1> DEFINE n == call[c].receipt
<1> DEFINE new == [id |-> i, amount |-> a.amount, after |-> n, voucher |-> a.voucher]
<1> USE DEF OInv
<1>1. /\ At(c, "updated") /\ money' = [money EXCEPT ![a.on] = n]
      /\ recharges' = (IF a.on = "channel" THEN Append(recharges, new) ELSE recharges)
      /\ audited' = (IF a.on = "user" THEN audited \cup {i} ELSE audited)
      /\ row' = [row EXCEPT ![i] = [args |-> a, receipt |-> n]]
      /\ broken' \in BOOLEAN /\ Release(c) /\ call' = [call EXCEPT ![c].pc = "committed"]
      /\ UNCHANGED <<vouchers, spent, deaths>>
  BY DEF Commit, InTransaction, To, Quiet
<1>2. i \in Ids /\ a \in Args /\ a.on \in Accounts /\ a.amount \in Int /\ a.voucher \in BOOLEAN
  BY <1>1 DEF CallsAsk, Idle, At, OperationsAssumption
<1>3. n = money[a.on] + a.amount /\ n \in Int /\ money[a.on] \in Int
  BY <1>1, <1>2 DEF Computed, Types
<1>4. row[i] = None /\ \A d \in Calls \ {c} : Placed(d) => call[d].id # i
  BY <1>1, <1>2 DEF HoldersPlace, HeldIsOpen, Placed, At, OperationsAssumption
<1>5. \A d \in Calls \ {c} : At(d, "updated") => call[d].args.on # a.on
  BY <1>1, <1>2 DEF LocksUpdate, At
<1>6. /\ call'[c].pc = "committed" /\ call'[c].id = i /\ call'[c].args = a
      /\ call'[c].receipt = n /\ \A d \in Calls \ {c} : call'[d] = call[d]
  BY <1>1 DEF Types, CallRows
<1>7. /\ row'[i] = [args |-> a, receipt |-> n] /\ row'[i] \in Rows /\ row'[i] # None
      /\ \A j \in Ids \ {i} : row'[j] = row[j]
  BY <1>1, <1>2, <1>3 DEF Types, Rows, OperationsAssumption
<1>8. money'[a.on] = n /\ \A x \in Accounts \ {a.on} : money'[x] = money[x]
  BY <1>1, <1>2 DEF Types
<1>9. \A j \in Ids : holder'[j] = IF holder[j] = c THEN None ELSE holder[j] BY <1>1 DEF Release
<1>10. \A x \in Accounts : lock'[x] = IF lock[x] = c THEN None ELSE lock[x] BY <1>1 DEF Release
<1>11. recharges \in Seq(Recharges) /\ new \in Recharges BY <1>2, <1>3 DEF Types, Recharges
<1> HIDE DEF new
<1>12. Types'
  <2>1. row' \in [Ids -> Rows \cup {None}] BY <1>1, <1>2, <1>3 DEF Types, Rows
  <2>2. money' \in [Accounts -> Int] BY <1>1, <1>3 DEF Types
  <2>3. holder' \in [Ids -> Calls \cup {None}] /\ lock' \in [Accounts -> Calls \cup {None}]
    BY <1>1 DEF Types, Release
  <2>4. recharges' \in Seq(Recharges) BY <1>1, <1>11
  <2>5. call' \in [Calls -> CallRows] BY <1>1 DEF Types, CallRows, Steps
  <2> QED BY <1>1, <1>2, <2>1, <2>2, <2>3, <2>4, <2>5 DEF Types
<1>13. CallsAsk' BY <1>2, <1>6 DEF CallsAsk
<1>14. HoldersPlace' BY <1>6, <1>9 DEF HoldersPlace, Placed, OperationsAssumption
<1>15. HeldIsOpen' BY <1>1, <1>2, <1>7, <1>9 DEF HeldIsOpen, HoldersPlace, Placed, At
<1>16. LocksUpdate' BY <1>6, <1>10 DEF LocksUpdate, At, OperationsAssumption
<1>17. Computed'
  <2> SUFFICES ASSUME NEW d \in Calls, At(d, "updated")'
               PROVE  (call[d].receipt = money[call[d].args.on] + call[d].args.amount)'
    BY DEF Computed
  <2>1. d # c /\ call'[d] = call[d] /\ At(d, "updated") BY <1>6 DEF At
  <2>2. call[d].args.on \in Accounts \ {a.on}
    BY <1>5, <2>1 DEF CallsAsk, At, Idle, OperationsAssumption
  <2> QED BY <1>8, <2>1, <2>2 DEF Computed
<1>18. Committed' BY <1>2, <1>6, <1>7 DEF Committed, CallsAsk, Idle
<1>19. ToldIsStored'
  <2> SUFFICES ASSUME NEW d \in Calls, d # c, call[d].pc \in {"committed", "done"}
               PROVE  row'[call[d].id] = [args |-> call[d].args, receipt |-> call[d].receipt]
    BY <1>6, <1>7 DEF ToldIsStored
  <2>1. call[d].id \in Ids \ {i} BY <1>4 DEF Committed, CallsAsk, Idle
  <2> QED BY <1>7, <2>1 DEF ToldIsStored
<1>20. VouchersFirst' BY <1>1, <1>6 DEF VouchersFirst
<1>21. TracesKept'
  <2>1. \A j \in Ids : row'[j] # None /\ row'[j].args.on = "user" => j \in audited'
    BY <1>1, <1>7 DEF TracesKept
  <2>2. \A j \in audited' : row'[j] # None BY <1>1, <1>7 DEF TracesKept, Types
  <2>3. \A k \in DOMAIN recharges' : recharges'[k].voucher => recharges'[k].id \in vouchers'
    <3>1. a.voucher => i \in vouchers BY <1>1 DEF VouchersFirst, At
    <3>2. new.voucher = a.voucher /\ new.id = i BY DEF new
    <3> QED BY <1>1, <1>11, <3>1, <3>2 DEF TracesKept
  <2> QED BY <2>1, <2>2, <2>3 DEF TracesKept
<1>22. new.after = n /\ new.amount = a.amount BY DEF new
<1>23. BudgetFalls'
  <2>1. CASE a.on # "channel" BY <1>1, <2>1 DEF BudgetFalls, After
  <2>2. CASE a.on = "channel"
    <3>1. recharges' = Append(recharges, new) BY <1>1, <2>2
    <3> SUFFICES ASSUME NEW k \in DOMAIN recharges'
                 PROVE  recharges'[k].after - recharges'[k].amount <= After(recharges', k - 1)
      BY DEF BudgetFalls
    <3>2. CASE k \in DOMAIN recharges
      <4>1. recharges'[k] = recharges[k] /\ After(recharges', k - 1) = After(recharges, k - 1)
        BY <1>11, <3>1, <3>2 DEF After
      <4> QED BY <3>2, <4>1 DEF BudgetFalls
    <3>3. CASE k = Len(recharges) + 1
      <4>1. recharges'[k] = new /\ After(recharges', k - 1) = After(recharges, Len(recharges))
        BY <1>11, <3>1, <3>3 DEF After
      <4>2. n - a.amount = money["channel"] BY <1>2, <1>3, <2>2
      <4> QED BY <1>22, <4>1, <4>2 DEF FellSince
    <3> QED BY <1>11, <3>1, <3>2, <3>3
  <2> QED BY <2>1, <2>2
<1>24. FellSince'
  <2>1. CASE a.on # "channel"
    BY <1>1, <1>2, <1>8, <2>1 DEF FellSince, After, Accounts
  <2>2. CASE a.on = "channel"
    <3>1. recharges' = Append(recharges, new) BY <1>1, <2>2
    <3>2. After(recharges', Len(recharges')) = n BY <1>11, <1>22, <3>1 DEF After
    <3> QED BY <1>3, <1>8, <2>2, <3>2 DEF FellSince
  <2> QED BY <2>1, <2>2
<1> QED BY <1>12, <1>13, <1>14, <1>15, <1>16, <1>17, <1>18, <1>19, <1>20, <1>21, <1>23, <1>24

-----------------------------------------------------------------------------
(* Every step of every call, and of the traffic, keeps the invariant.      *)
LEMMA StepOInv == ASSUME OperationsAssumption, OInv, [Next]_vars PROVE OInv'
<1>1. CASE UNCHANGED vars
  BY <1>1 DEF vars, tables, OInv, Types, CallsAsk, HoldersPlace, Placed, HeldIsOpen, LocksUpdate,
       At, Computed, Committed, ToldIsStored, VouchersFirst, TracesKept, BudgetFalls, FellSince, After
<1>2. ASSUME NEW c \in Calls, NEW i \in Ids, NEW a \in Args, Receive(c, i, a) PROVE OInv'
  BY <1>2, ReceiveStep
<1>3. ASSUME NEW c \in Calls, Serve(c) \/ Die(c) PROVE OInv'
  BY <1>3, SaveStep, PlaceStep, ReplayStep, ConflictStep, UpdateStep, RefuseStep, CommitStep,
     AuditStep, AnswerStep, DieStep DEF Serve
<1>4. CASE Deduct BY <1>4, DeductStep
<1> QED BY <1>1, <1>2, <1>3, <1>4 DEF Next

(* Placeholders and locks have one owner each, what was computed under     *)
(* them is still right, and what was told, audited and stored agrees.      *)
THEOREM OInvHolds == ASSUME OperationsAssumption PROVE Spec => []OInv
<1>1. Init => OInv BY InitOInv
<1>2. OInv /\ [Next]_vars => OInv' BY StepOInv
<1> QED BY <1>1, <1>2, PTL DEF Spec

(* Every variable keeps its type, and placeholders and locks belong to a   *)
(* call that is in the transaction of that id and that account.            *)
THEOREM OperationsTypes == ASSUME OperationsAssumption PROVE Spec => []TypeOK
<1>1. OInv => TypeOK
  <2> SUFFICES ASSUME OInv PROVE TypeOK OBVIOUS
  <2>1. ASSUME NEW i \in Ids
        PROVE  /\ row[i] # None => row[i].args \in Args /\ row[i].receipt \in Int
               /\ holder[i] # None =>
                    /\ row[i] = None /\ call[holder[i]].id = i
                    /\ call[holder[i]].pc \in {"placed", "updated"}
    BY DEF OInv, Types, Rows, HoldersPlace, HeldIsOpen, Placed
  <2>2. ASSUME NEW x \in Accounts
        PROVE  /\ money[x] \in Int
               /\ lock[x] # None => At(lock[x], "updated") /\ call[lock[x]].args.on = x
    BY DEF OInv, Types, LocksUpdate
  <2>3. \A c \in Calls : call[c].pc \in Steps BY DEF OInv, Types, CallRows
  <2> QED BY <2>1, <2>2, <2>3 DEF TypeOK, OInv, Types
<1> QED BY <1>1, OInvHolds, PTL

(* What a client is told is what the first execution of its command left.  *)
THEOREM AnswersAreStored == ASSUME OperationsAssumption PROVE Spec => []ToldIsStored
<1>1. OInv => ToldIsStored BY DEF OInv
<1> QED BY <1>1, OInvHolds, PTL

(* A user's command has its audit, nothing else has one, and a recharge    *)
(* with a voucher has one stored.                                          *)
THEOREM TracesAreKept == ASSUME OperationsAssumption PROVE Spec => []TracesKept
<1>1. OInv => TracesKept BY DEF OInv
<1> QED BY <1>1, OInvHolds, PTL

(* Between two rows of the statement of a channel its budget only falls.   *)
THEOREM StatementFalls == ASSUME OperationsAssumption PROVE Spec => []BudgetFalls
<1>1. OInv => BudgetFalls BY DEF OInv
<1> QED BY <1>1, OInvHolds, PTL

-----------------------------------------------------------------------------
(* The sum of a statement.                                                 *)
Sum == money["channel"] = Start + Total(recharges) - spent

(* Its rows add up to a number, and another row adds its amount.           *)
LEMMA TotalGrows ==
  ASSUME NEW s \in Seq(Recharges), NEW e \in Recharges
  PROVE  Total(s) \in Int /\ Total(Append(s, e)) = Total(s) + e.amount
<1> DEFINE t == Append(s, e)
           n == Len(s) + 1
           f == [k \in DOMAIN s |-> s[k].amount]
           g == [k \in DOMAIN t |-> t[k].amount]
<1>1. /\ DOMAIN s = 1 .. Len(s) /\ DOMAIN t = 1 .. n /\ Len(s) \in Nat
      /\ \A k \in 1 .. Len(s) : t[k] = s[k] /\ s[k] \in Recharges
      /\ t[n] = e
  OBVIOUS
<1>2. /\ \A k \in 1 .. Len(s) : g[k] = f[k] /\ f[k] \in Int
      /\ g[n] = e.amount /\ g[n] \in Int
  BY <1>1 DEF Recharges
<1>3. IsFiniteSet(1 .. Len(s)) /\ n \notin 1 .. Len(s) /\ 1 .. n = (1 .. Len(s)) \cup {n}
  <2>1. PICK m \in Nat : m = Len(s)
    BY <1>1
  <2>2. IsFiniteSet(1 .. m)
    BY FS_Interval
  <2>3. m + 1 \notin 1 .. m /\ 1 .. m + 1 = (1 .. m) \cup {m + 1}
    OBVIOUS
  <2> QED
    BY <2>1, <2>2, <2>3
<1>4. Total(s) = SumFunctionOnSet(f, 1 .. Len(s)) /\ Total(t) = SumFunctionOnSet(g, 1 .. n)
  BY <1>1 DEF Total
<1> HIDE DEF f, g, n, t
<1>5. SumFunctionOnSet(f, 1 .. Len(s)) \in Int
  BY <1>2, <1>3, SumType
<1>6. SumFunctionOnSet(g, 1 .. Len(s)) = SumFunctionOnSet(f, 1 .. Len(s))
  BY <1>2, <1>3, SumCongruent
<1>7. \A k \in (1 .. Len(s)) \cup {n} : g[k] \in Int
  BY <1>2
<1>8. SumFunctionOnSet(g, (1 .. Len(s)) \cup {n}) = SumFunctionOnSet(g, 1 .. Len(s)) + g[n]
  BY <1>3, <1>7, SumAdd
<1>9. Total(s) \in Int /\ Total(t) = Total(s) + e.amount
  BY <1>2, <1>3, <1>4, <1>5, <1>6, <1>8
<1> QED
  BY <1>9 DEF t

(* No recharge, no sum.                                                    *)
LEMMA SumBegins == ASSUME OperationsAssumption, Init PROVE Sum
<1>1. recharges = << >> /\ money["channel"] = Start /\ spent = 0
  BY DEF Init, Accounts
<1>2. Total(recharges) = 0
  BY <1>1, SumEmpty DEF Total
<1> QED
  BY <1>1, <1>2 DEF Sum, OperationsAssumption

(* A commit adds to the balance what it adds to the statement.             *)
LEMMA CommitAdds ==
  ASSUME OperationsAssumption, OInv, Sum, NEW c \in Calls, Commit(c)
  PROVE  Sum'
<1> DEFINE a == call[c].args
<1>1. /\ At(c, "updated") /\ money' = [money EXCEPT ![a.on] = call[c].receipt] /\ spent' = spent
      /\ recharges' = (IF a.on = "channel"
            THEN Append(recharges, [id |-> call[c].id, amount |-> a.amount,
                                    after |-> call[c].receipt, voucher |-> a.voucher])
            ELSE recharges)
  BY DEF Commit, Quiet
<1>2. /\ a \in Args /\ a.on \in Accounts /\ a.amount \in Int /\ a.voucher \in BOOLEAN
      /\ call[c].id \in Ids
  BY <1>1 DEF OInv, CallsAsk, Idle, At, OperationsAssumption
<1>3. /\ call[c].receipt = money[a.on] + a.amount /\ call[c].receipt \in Int
      /\ money \in [Accounts -> Int] /\ recharges \in Seq(Recharges) /\ spent \in Int /\ Start \in Int
  BY <1>1, <1>2 DEF OInv, Computed, Types, OperationsAssumption
<1>4. CASE a.on # "channel"
  BY <1>1, <1>2, <1>3, <1>4 DEF Sum, Accounts
<1>5. CASE a.on = "channel"
  <2>1. PICK e \in Recharges :
          e = [id |-> call[c].id, amount |-> a.amount, after |-> call[c].receipt, voucher |-> a.voucher]
    BY <1>2, <1>3 DEF Recharges
  <2>2. recharges' = Append(recharges, e) /\ e.amount = a.amount
    BY <1>1, <1>5, <2>1
  <2>3. Total(recharges) \in Int /\ Total(recharges') = Total(recharges) + a.amount
    BY <1>3, <2>2, TotalGrows
  <2>4. money'["channel"] = money["channel"] + a.amount /\ money["channel"] \in Int
    BY <1>1, <1>2, <1>3, <1>5
  <2>5. spent' = spent /\ spent \in Int /\ Start \in Int /\ a.amount \in Int
    BY <1>1, <1>2, <1>3
  <2>6. money["channel"] = Start + Total(recharges) - spent
    BY DEF Sum
  <2>7. money'["channel"] = Start + Total(recharges') - spent'
    <3> HIDE DEF a
    <3> QED
      BY <2>3, <2>4, <2>5, <2>6
  <2> QED
    BY <2>7 DEF Sum
<1> QED
  BY <1>4, <1>5

(* A settlement takes off what is spent; no other step touches the two.    *)
LEMMA SumStays ==
  ASSUME OperationsAssumption, OInv, Sum, [Next]_vars
  PROVE  Sum'
<1>1. ASSUME UNCHANGED <<money, recharges, spent>> PROVE Sum'
  BY <1>1 DEF Sum, Total
<1>2. ASSUME NEW c \in Calls, Commit(c) PROVE Sum'
  BY <1>2, CommitAdds
<1>3. CASE Deduct
  <2>1. /\ money'["channel"] = money["channel"] - 1 /\ spent' = spent + 1 /\ recharges' = recharges
        /\ money["channel"] \in Int /\ spent \in Int /\ Start \in Int
    BY <1>3 DEF Deduct, OInv, Types, Accounts, OperationsAssumption
  <2>2. Total(recharges') = Total(recharges)
    BY <2>1
  <2>3. Total(recharges) \in Int
    <3>1. recharges \in Seq(Recharges)
      BY DEF OInv, Types
    <3>2. CASE recharges = << >>
      <4>1. DOMAIN recharges = {}
        BY <3>2
      <4> QED
        BY <4>1, SumEmpty DEF Total
    <3>3. CASE recharges # << >>
      <4>1. recharges[1] \in Recharges
        BY <3>1, <3>3
      <4> QED
        BY <3>1, <4>1, TotalGrows
    <3> QED
      BY <3>2, <3>3
  <2> QED
    BY <2>1, <2>2, <2>3 DEF Sum
<1>4. ASSUME NEW c \in Calls, NEW i \in Ids, NEW a \in Args, Receive(c, i, a) PROVE Sum'
  BY <1>1, <1>4 DEF Receive, Quiet, tables
<1>5. ASSUME NEW c \in Calls,
             \/ SaveVoucher(c) \/ Place(c) \/ Replay(c) \/ Conflict(c) \/ Update(c)
             \/ Refuse(c) \/ Audit(c) \/ Answer(c) \/ Die(c)
      PROVE  Sum'
  BY <1>1, <1>5 DEF SaveVoucher, Place, Replay, Conflict, Update, Refuse, Audit, Answer, Die,
                    Quiet, tables
<1>6. CASE UNCHANGED vars
  BY <1>1, <1>6 DEF vars, tables
<1> QED
  BY <1>2, <1>3, <1>4, <1>5, <1>6 DEF Next, Serve

(* The statement of a channel explains its budget, to the last recharge    *)
(* and the last settlement.                                                *)
THEOREM StatementsAddUp == ASSUME OperationsAssumption PROVE Spec => []StatementReads
<1>1. Init => Sum
  BY SumBegins
<1>2. OInv /\ Sum /\ [Next]_vars => Sum'
  BY SumStays
<1>3. OInv /\ Sum => StatementReads
  BY DEF OInv, StatementReads, Sum
<1> QED
  BY <1>1, <1>2, <1>3, OInvHolds, PTL DEF Spec

-----------------------------------------------------------------------------
(* The commands implement Command: a commit applies the command of its id  *)
(* with the amount it asks for, a deduction spends, and no other step      *)
(* moves money or stores a row.                                            *)
Applied == [i \in Ids |-> IF row[i] = None THEN None ELSE row[i].args]

(* With no committed row nothing is applied.                               *)
LEMMA InitIsMapped == ASSUME OperationsAssumption, Init PROVE Once!Init
BY DEF Init, Once!Init, OperationsAssumption

(* A commit is Command's application of an id that was not applied.        *)
LEMMA CommitApplies ==
  ASSUME OperationsAssumption, OInv, NEW c \in Calls, Commit(c)
  PROVE  \E i \in Ids, a \in Args : Once!Apply(i, a)
<1> DEFINE a == call[c].args
<1> DEFINE i == call[c].id
<1> DEFINE n == call[c].receipt
<1>1. /\ At(c, "updated") /\ money' = [money EXCEPT ![a.on] = n]
      /\ row' = [row EXCEPT ![i] = [args |-> a, receipt |-> n]]
  BY DEF Commit
<1>2. i \in Ids /\ a \in Args /\ a.on \in Accounts
  BY <1>1 DEF OInv, CallsAsk, Idle, At, OperationsAssumption
<1>3. n = money[a.on] + a.amount /\ n \in Int
  BY <1>1, <1>2 DEF OInv, Computed, Types, OperationsAssumption
<1>4. row[i] = None
  BY <1>1, <1>2 DEF OInv, HoldersPlace, HeldIsOpen, Placed, At, OperationsAssumption
<1>5. row \in [Ids -> Rows \cup {None}] /\ money \in [Accounts -> Int] BY DEF OInv, Types
<1>6. [args |-> a, receipt |-> n] # None BY <1>2, <1>3 DEF OperationsAssumption
<1>7. Applied' = [Applied EXCEPT ![i] = a] BY <1>1, <1>2, <1>5, <1>6 DEF Applied
<1>8. money' = [money EXCEPT ![a.on] = @ + a.amount] BY <1>1, <1>2, <1>3, <1>5
<1>9. Applied[i] = None BY <1>2, <1>4 DEF Applied
<1>10. PICK j \in Ids, b \in Args : j = i /\ b = a BY <1>2
<1>11. Once!Apply(j, b) BY <1>7, <1>8, <1>9, <1>10 DEF Once!Apply, Applied
<1> QED BY <1>11

(* However often a command is sent, it moves the money once, by its amount. *)
THEOREM CommandsApplyOnce == ASSUME OperationsAssumption PROVE Spec => AppliedOnce
<1>1. Init => Once!Init BY InitIsMapped
<1>2. OInv /\ [Next]_vars => [Once!Next]_<<Applied, money>>
  <2> SUFFICES ASSUME OInv, [Next]_vars PROVE [Once!Next]_<<Applied, money>>
    OBVIOUS
  <2>1. ASSUME NEW c \in Calls, Commit(c) PROVE Once!Next
    <3>1. \E i \in Ids, a \in Args : Once!Apply(i, a) BY <2>1, CommitApplies
    <3> QED BY <3>1 DEF Once!Next
  <2>2. CASE Deduct
    <3>1. money' = [money EXCEPT !["channel"] = @ - 1] /\ UNCHANGED row BY <2>2 DEF Deduct
    <3> QED BY <3>1 DEF Once!Next, Once!Spend, Accounts
  <2>3. ASSUME NEW c \in Calls, NEW i \in Ids, NEW a \in Args, Receive(c, i, a)
        PROVE  UNCHANGED <<row, money>>
    BY <2>3 DEF Receive, tables
  <2>4. ASSUME NEW c \in Calls,
               \/ SaveVoucher(c) \/ Place(c) \/ Replay(c) \/ Conflict(c) \/ Update(c)
               \/ Refuse(c) \/ Audit(c) \/ Answer(c) \/ Die(c)
        PROVE  UNCHANGED <<row, money>>
    BY <2>4 DEF SaveVoucher, Place, Replay, Conflict, Update, Refuse, Audit, Answer, Die, tables
  <2>5. CASE UNCHANGED vars BY <2>5 DEF vars, tables, Applied
  <2>6. UNCHANGED <<row, money>> => UNCHANGED <<Applied, money>> BY DEF Applied
  <2> QED BY <2>1, <2>2, <2>3, <2>4, <2>5, <2>6 DEF Next, Serve
<1>3. [Once!Next]_<<Applied, money>> =>
        [Once!Next]_<<[i \in Ids |-> IF row[i] = None THEN None ELSE row[i].args], money>>
  BY DEF Applied
<1> QED BY <1>1, <1>2, <1>3, OInvHolds, PTL DEF Spec, AppliedOnce, Once!Spec

=============================================================================
