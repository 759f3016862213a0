---------------------------- MODULE WalletKernel ----------------------------
(***************************************************************************)
(* The wallet package as it runs: each call looks its key up, opens a      *)
(* transaction, locks its hold and its accounts, judges the rows it read   *)
(* under the locks and writes absolute values.  A transaction is rolled    *)
(* back and tried again when the database says so.  The worker's scan      *)
(* gives up the holds whose time is over, passing by those that are        *)
(* locked.  The accounts of a call are locked in one step: the cycles that *)
(* their order can cause are the subject of Ledger.                        *)
(***************************************************************************)
EXTENDS AtomicWallet

CONSTANTS
  Callers, Scan,    (* calls from outside, and the worker's scan            *)
  MaxTries,         (* how often runTx tries                                *)
  ScanLimit         (* holds that one scan takes                            *)

ASSUME KernelAssumption ==
  Scan \notin Callers /\ MaxTries \in Nat \ {0} /\ ScanLimit \in Nat \ {0}

VARIABLE calls
  (* [Callers \cup {Scan} -> step, command, tries, what was late when the   *)
  (* transaction began, the holds it locked, the accounts it locked as they *)
  (* were read then, answer and receipt]                                    *)

vars == <<row, auth, ledger, late, calls>>

NoCommand == [verb |-> "none", ref |-> None, from |-> None, to |-> None, amount |-> 0, cash |-> FALSE]
Nothing == [id |-> 0, from |-> 0, to |-> 0]
NoRows == [a \in {} |-> 0]
Idle == [pc |-> "new", cmd |-> NoCommand, tries |-> 0, clock |-> {}, refs |-> {},
         seen |-> NoRows, answer |-> "none", receipt |-> Nothing]

KInit == Init /\ calls = [c \in Callers \cup {Scan} |-> Idle]

Answer(c, a, r) ==
  calls' = [calls EXCEPT ![c] = [@ EXCEPT !.pc = "done", !.refs = {}, !.seen = NoRows,
                                          !.answer = a, !.receipt = r]]
Refuse(c, a) == Answer(c, a, Nothing) /\ UNCHANGED tables

-----------------------------------------------------------------------------
(* What a repetition is told: the receipt of the first, if the command is  *)
(* the same; a hold that expired is a release of any reason.               *)

LegsTotal(legs, x) == SumFunction([a \in RowsOf(x) \cap DOMAIN legs |-> legs[a].after])
OwnLeg(cmd, legs) == CASE cmd.verb = "credit" -> legs[cmd.to].after
                       [] cmd.verb \in {"refund", "settle"} -> legs[Holder(cmd)].after
                       [] OTHER -> 0

(* The receipt of a posting, from its legs.                                *)
ReceiptOf(cmd, i, legs) ==
  IF cmd.verb = "transfer" THEN [id |-> i, from |-> LegsTotal(legs, cmd.from), to |-> LegsTotal(legs, cmd.to)]
  ELSE [id |-> i, from |-> OwnLeg(cmd, legs), to |-> 0]

First(cmd) == IF cmd.verb = "authorize" THEN auth[cmd.ref].by ELSE ledger[CHOOSE i \in Posted(cmd) : TRUE].cmd

Replay(c) ==
  LET cmd == calls[c].cmd IN
  IF cmd.verb = "release"
  THEN IF auth[cmd.ref].st = "released" /\ auth[cmd.ref].over # cmd THEN Answer(c, "conflict", Nothing)
       ELSE Answer(c, "replayed", Nothing)
  ELSE IF First(cmd) # cmd THEN Answer(c, "conflict", Nothing)
  ELSE IF cmd.verb = "authorize" THEN Answer(c, "replayed", Nothing)
  ELSE LET i == CHOOSE j \in Posted(cmd) : TRUE
       IN  Answer(c, "replayed", ReceiptOf(cmd, i, ledger[i].legs))

-----------------------------------------------------------------------------
(* The look-up before the transaction; settle and release have none.       *)
Begin(c, cmd) ==
  /\ calls[c].pc = "new"
  /\ calls' = [calls EXCEPT ![c] = [@ EXCEPT !.cmd = cmd, !.clock = late,
       !.pc = IF Taken(cmd) THEN "found" ELSE "open"]]
  /\ UNCHANGED tables

Found(c) == calls[c].pc = "found" /\ Replay(c) /\ UNCHANGED tables

FreeHold(r) == \A d \in Callers \cup {Scan} : r \notin calls[d].refs

(* lockAuthorization of settle, the conditional update of release.         *)
TakeHold(c) ==
  LET cmd == calls[c].cmd
      hold == auth[cmd.ref]
  IN  /\ calls[c].pc = "open" /\ calls[c].refs = {} /\ cmd.verb \in {"settle", "release"}
      /\ FreeHold(cmd.ref)
      /\ CASE hold.st = "none" -> Refuse(c, "missing")
           [] hold.st = "active" ->
                IF cmd.verb = "settle" /\ cmd.ref \in calls[c].clock THEN Refuse(c, "ended")
                ELSE IF cmd.verb = "settle" /\ cmd.amount > hold.amount THEN Refuse(c, "refused")
                ELSE /\ calls' = [calls EXCEPT ![c].refs = {cmd.ref}]
                     /\ UNCHANGED tables
           [] OTHER ->
                IF hold.st \in (IF cmd.verb = "settle" THEN {"settled"} ELSE {"released", "expired"})
                THEN Replay(c) /\ UNCHANGED tables
                ELSE Refuse(c, "ended")

(* The scan takes holds that are late and that nobody has locked.          *)
Overdue == {r \in late : auth[r].st = "active" /\ FreeHold(r)}
StartScan ==
  /\ calls[Scan].pc = "new" /\ Overdue # {}
  /\ \E S \in SUBSET Overdue :
       /\ Cardinality(S) = Least(ScanLimit, Cardinality(Overdue))
       /\ calls' = [calls EXCEPT ![Scan] = [@ EXCEPT !.pc = "open", !.refs = S]]
  /\ UNCHANGED tables

Wanted(c) == IF c = Scan THEN Holders(calls[c].refs) ELSE Touched(calls[c].cmd)

AnyRow(a) == TRUE   \* mutant: accounts are read without FOR UPDATE
FreeRow(a) == \A d \in Callers \cup {Scan} : a \notin DOMAIN calls[d].seen

HasHold(c) == c = Scan \/ calls[c].cmd.verb \in {"settle", "release"} => calls[c].refs # {}

LockRows(c) ==
  /\ calls[c].pc = "open" /\ calls[c].seen = NoRows /\ HasHold(c)
  /\ \A a \in Wanted(c) : FreeRow(a)
  /\ IF c # Scan /\ Frozen(calls[c].cmd) THEN Refuse(c, "frozen")
     ELSE /\ calls' = [calls EXCEPT ![c].seen = Look(Wanted(c))]
          /\ UNCHANGED tables

(* The guard comes first, then the insert that meets the unique index.     *)
Commit(c) ==
  LET cmd == calls[c].cmd IN
  /\ c # Scan /\ calls[c].pc = "open" /\ calls[c].seen # NoRows
  /\ IF ~Covered(cmd, calls[c].seen) THEN Refuse(c, "refused")
     ELSE IF Taken(cmd) THEN Replay(c) /\ UNCHANGED tables
     ELSE /\ Write(cmd, calls[c].seen)
          /\ Answer(c, "applied", IF cmd.verb \in Postings
                                  THEN ReceiptOf(cmd, Len(ledger) + 1, Legs(cmd, calls[c].seen))
                                  ELSE Nothing)

FinishScan ==
  /\ calls[Scan].pc = "open" /\ calls[Scan].seen # NoRows
  /\ Expired(calls[Scan].refs, calls[Scan].seen)
  /\ calls' = [calls EXCEPT ![Scan] = [@ EXCEPT !.pc = "new", !.refs = {}, !.seen = NoRows]]

(* The database rolls a transaction back; runTx begins it again.           *)
RollBack(c) ==
  /\ calls[c].pc = "open" /\ UNCHANGED tables
  /\ IF c = Scan THEN calls' = [calls EXCEPT ![c] = [@ EXCEPT !.pc = "new", !.refs = {}, !.seen = NoRows]]
     ELSE IF calls[c].tries + 1 < MaxTries
     THEN calls' = [calls EXCEPT ![c] = [@ EXCEPT !.refs = {}, !.seen = NoRows,
                                                     !.tries = calls[c].tries + 1, !.clock = late]]
     ELSE Answer(c, "failed", Nothing)

KTimePasses(r) == TimePasses(r) /\ UNCHANGED calls

Serve(c) == Found(c) \/ TakeHold(c) \/ LockRows(c) \/ Commit(c)
ScanStep == StartScan \/ LockRows(Scan) \/ FinishScan

KNext ==
  \/ \E c \in Callers : Serve(c) \/ RollBack(c) \/ \E cmd \in Commands : Begin(c, cmd)
  \/ ScanStep \/ RollBack(Scan)
  \/ \E r \in Refs : KTimePasses(r)

KSpec == KInit /\ [][KNext]_vars

-----------------------------------------------------------------------------
(* Properties.                                                             *)

(* The types; nobody keeps a lock beyond his transaction, and no row has   *)
(* two owners.                                                             *)
TypeOK ==
  /\ row \in [Accounts -> [balance : Int, inFlight : Nat, limit : Nat, frozen : BOOLEAN]]
  /\ \A r \in Refs : auth[r].st \in {"none", "active", "settled", "released", "expired"}
  /\ \A c \in Callers \cup {Scan} :
       /\ calls[c].pc \in {"new", "found", "open", "done"}
       /\ calls[c].pc # "open" => calls[c].refs = {} /\ calls[c].seen = NoRows
  /\ \A c, d \in Callers \cup {Scan} : c # d =>
       calls[c].refs \cap calls[d].refs = {} /\ DOMAIN calls[c].seen \cap DOMAIN calls[d].seen = {}

(* README.md, chapter 6: the legs of a posting cancel, the legs of an      *)
(* account make up its balance and end in it, and what it holds is the sum *)
(* of its active holds, though every write is an absolute value.           *)
Books ==
  /\ \A i \in DOMAIN ledger :
       SumFunction([a \in DOMAIN ledger[i].legs |-> ledger[i].legs[a].amount]) = 0
  /\ \A a \in Accounts :
       LET on == {i \in DOMAIN ledger : a \in DOMAIN ledger[i].legs}
       IN  /\ row[a].balance = Start[a] + SumFunction([i \in on |-> ledger[i].legs[a].amount])
           /\ on # {} => row[a].balance = ledger[Max(on)].legs[a].after
           /\ row[a].inFlight = HeldBy(a, {r \in Refs : auth[r].st = "active"})

(* README.md, chapter 6: balance and credit line cover what is held; a     *)
(* hold cannot be undercut by a refund, a transfer or a smaller line.      *)
NeverOverspent == \A u \in Users : row[u].balance + row[u].limit - row[u].inFlight >= 0

(* freeze.ts: no money moves on a frozen account, its line stays, and      *)
(* nothing new is held of it, not even by a call that began before it was  *)
(* frozen.                                                                 *)
FrozenStands ==
  [][\A a \in Accounts : row[a].frozen =>
       /\ row'[a].balance = row[a].balance /\ row'[a].limit = row[a].limit
       /\ \A r \in Refs : auth[r].st = "none" /\ auth'[r].st # "none" => auth'[r].user # a]_vars

Agreed(c) == calls[c].answer \in {"applied", "replayed"}

(* README.md, chapter 7: a repetition gets the receipt of the first, what- *)
(* ever happened to the account since, and for all shards of an internal   *)
(* account; another command under the same key never gets one.             *)
OneReceiptPerKey ==
  \A c, d \in Callers :
    Agreed(c) /\ Agreed(d) /\ calls[c].cmd.ref = calls[d].cmd.ref /\ calls[c].cmd.verb = calls[d].cmd.verb =>
      /\ calls[c].receipt = calls[d].receipt
      /\ calls[c].cmd = calls[d].cmd \/ auth[calls[c].cmd.ref].st = "expired"

(* README.md, chapters 6 and 7: the legs of a posting cancel and make up   *)
(* the balances, what an account holds is the sum of its active holds, no  *)
(* user is overspent, and two callers told yes under one key have one      *)
(* receipt, though every write is an absolute value.                       *)
WalletIsSound == TypeOK /\ Books /\ NeverOverspent /\ OneReceiptPerKey

(* Who is told yes finds his command carried out, at some one instant of   *)
(* the atomic wallet.                                                      *)
KernelIsAtomic == Spec

=============================================================================
