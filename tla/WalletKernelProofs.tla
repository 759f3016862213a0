------------------------- MODULE WalletKernelProofs -------------------------
(***************************************************************************)
(* The wallet package, for every set of users, shards, keys, callers and   *)
(* commands.                                                               *)
(*                                                                         *)
(* First, it implements the atomic wallet: each commit writes what the     *)
(* command does to the tables as they are at that instant.  The invariant  *)
(* KInv says why: what a transaction read under its locks is still there   *)
(* when it writes, because whoever writes a row or a hold has it locked.   *)
(*                                                                         *)
(* Then, what the tables and the callers' answers say is sound             *)
(* (KernelIsSound).  WInv is the invariant of the atomic wallet: its books *)
(* are sums over the holds and the entries, and a command changes each of  *)
(* them by what it moves.  KSound adds the keys and what callers were told.*)
(***************************************************************************)
EXTENDS WalletKernel, Sums

Calls == Callers \cup {Scan}

HoldType ==
  [st : {"none", "active", "settled", "released", "expired"}, user : Users \cup {None}, amount : Nat,
   settled : Nat, by : Commands \cup {None}, over : Commands \cup {None}]

HoldsOK ==
  /\ auth \in [Refs -> HoldType] /\ late \subseteq Refs
  /\ \A r \in Refs : auth[r].st # "none" => auth[r].user \in Users

Shape(v) ==
  v \in [pc : {v.pc}, cmd : {v.cmd}, tries : {v.tries}, clock : {v.clock}, refs : {v.refs},
         seen : {v.seen}, answer : {v.answer}, receipt : {v.receipt}]

(* What a call that locked its hold may rely on.                           *)
HoldKept(c) ==
  /\ calls[c].refs \subseteq Refs /\ \A r \in calls[c].refs : auth[r].st = "active"
  /\ c = Scan => calls[c].refs \subseteq late
  /\ c # Scan /\ calls[c].refs # {} =>
       /\ calls[c].refs = {calls[c].cmd.ref} /\ calls[c].cmd.verb \in {"settle", "release"}
       /\ Endable(calls[c].cmd)

(* What a call that locked its accounts may rely on.                       *)
RowsKept(c) ==
  calls[c].seen # NoRows =>
    calls[c].seen = Look(Wanted(c)) /\ HasHold(c) /\ (c # Scan => ~Frozen(calls[c].cmd))

CallOK(c) ==
  /\ Shape(calls[c])
  /\ calls[c].pc # "open" => calls[c].refs = {} /\ calls[c].seen = NoRows
  /\ c # Scan /\ calls[c].pc # "new" => calls[c].cmd \in Commands
  /\ HoldKept(c) /\ RowsKept(c)

Apart ==
  \A c, d \in Calls : c # d =>
    calls[c].refs \cap calls[d].refs = {} /\ DOMAIN calls[c].seen \cap DOMAIN calls[d].seen = {}

KInv == HoldsOK /\ DOMAIN calls = Calls /\ (\A c \in Calls : CallOK(c)) /\ Apart

-----------------------------------------------------------------------------
(* The rows a command touches are accounts.                                *)
LEMMA TouchedIsAccounts ==
  ASSUME WalletAssumption, NEW cmd \in Commands,
         cmd.verb \in {"settle", "release"} => auth[cmd.ref].user \in Users
  PROVE  Touched(cmd) \subseteq Accounts
<1>1. \A x \in Users \cup Codes : OneRow(x, cmd.ref) \in Accounts /\ RowsOf(x) \subseteq Accounts
  BY DEF WalletAssumption, OneRow, RowsOf, Accounts, Internal
<1>2. cmd.verb \in Verbs BY DEF WalletAssumption
<1>3. CASE cmd.verb \in {"credit", "refund"}
  BY <1>1, <1>3 DEF Touched, WalletAssumption
<1>4. CASE cmd.verb \in {"transfer", "freeze"}
  BY <1>1, <1>4 DEF Touched, WalletAssumption
<1>5. CASE cmd.verb = "settle"
  <2>1. Holder(cmd) \in Accounts BY <1>5 DEF Holder, Accounts
  <2> QED BY <1>1, <1>5, <2>1 DEF Touched, WalletAssumption
<1>6. CASE cmd.verb \in {"release", "credit_line", "authorize"}
  <2>1. Holder(cmd) \in Accounts BY <1>6 DEF Holder, Accounts, WalletAssumption
  <2> QED BY <1>6, <2>1 DEF Touched
<1> QED BY <1>2, <1>3, <1>4, <1>5, <1>6 DEF Verbs, Postings, Audits

(* A command writes the rows it touches and the hold it names.             *)
LEMMA WriteFrame ==
  ASSUME WalletAssumption, HoldsOK, NEW cmd \in Commands, NEW rows, Write(cmd, rows), Endable(cmd),
         cmd.verb = "authorize" => auth[cmd.ref].st = "none"
  PROVE  /\ \A a \in Accounts \ Touched(cmd) : row'[a] = row[a]
         /\ \A r \in Refs : r # cmd.ref => auth'[r] = auth[r]
         /\ auth[cmd.ref].st = "active" /\ cmd.verb \notin {"settle", "release"}
              => auth'[cmd.ref] = auth[cmd.ref]
         /\ late' = late /\ HoldsOK'
<1>1. cmd.ref \in Refs /\ cmd.amount \in Nat /\ cmd.verb \in Verbs BY DEF WalletAssumption
<1> DEFINE new == CASE cmd.verb = "authorize" -> [NoHold EXCEPT !.st = "active", !.user = cmd.from,
                                                    !.amount = cmd.amount, !.by = cmd]
         [] cmd.verb = "settle" -> [auth[cmd.ref] EXCEPT !.st = "settled", !.settled = cmd.amount]
         [] cmd.verb = "release" -> [auth[cmd.ref] EXCEPT !.st = "released", !.over = cmd]
         [] OTHER -> auth[cmd.ref]
<1>2. auth' = [auth EXCEPT ![cmd.ref] = new] BY DEF Write
<1>3. \A r \in Refs : r # cmd.ref => auth'[r] = auth[r] BY <1>1, <1>2 DEF HoldsOK
<1>4. auth'[cmd.ref] = new BY <1>1, <1>2 DEF HoldsOK
<1>5. new \in HoldType /\ (new.st # "none" => new.user \in Users)
  <2> DEFINE opened == [NoHold EXCEPT !.st = "active", !.user = cmd.from, !.amount = cmd.amount, !.by = cmd]
             settled == [auth[cmd.ref] EXCEPT !.st = "settled", !.settled = cmd.amount]
             released == [auth[cmd.ref] EXCEPT !.st = "released", !.over = cmd]
  <2>0. auth[cmd.ref] \in HoldType BY <1>1 DEF HoldsOK
  <2>1. CASE cmd.verb = "authorize"
    <3>1. cmd.from \in Users BY <2>1 DEF WalletAssumption
    <3>2. opened \in HoldType /\ opened.user \in Users BY <1>1, <3>1 DEF NoHold, HoldType
    <3>3. new = opened BY <2>1
    <3> HIDE DEF new, opened
    <3> QED BY <3>2, <3>3
  <2>2. CASE cmd.verb = "settle"
    <3>2. settled \in HoldType /\ settled.user = auth[cmd.ref].user BY <1>1, <2>0 DEF HoldType
    <3>3. new = settled BY <2>2
    <3>4. auth[cmd.ref].user \in Users BY <1>1, <2>2 DEF HoldsOK, Endable
    <3> HIDE DEF new, settled
    <3> QED BY <3>2, <3>3, <3>4
  <2>3. CASE cmd.verb = "release"
    <3>2. released \in HoldType /\ released.user = auth[cmd.ref].user BY <1>1, <2>0 DEF HoldType
    <3>3. new = released BY <2>3
    <3>4. auth[cmd.ref].user \in Users BY <1>1, <2>3 DEF HoldsOK, Endable
    <3> HIDE DEF new, released
    <3> QED BY <3>2, <3>3, <3>4
  <2>4. CASE cmd.verb \notin {"authorize", "settle", "release"}
    <3>1. new = auth[cmd.ref] BY <2>4
    <3>2. auth[cmd.ref].st # "none" => auth[cmd.ref].user \in Users BY <1>1 DEF HoldsOK
    <3> HIDE DEF new
    <3> QED BY <2>0, <3>1, <3>2
  <2> QED BY <2>1, <2>2, <2>3, <2>4
<1>6. HoldsOK'
  <2>1. auth' \in [Refs -> HoldType] BY <1>1, <1>2, <1>5 DEF HoldsOK
  <2>2. \A r \in Refs : auth'[r].st # "none" => auth'[r].user \in Users
    BY <1>3, <1>4, <1>5 DEF HoldsOK
  <2>3. late' \subseteq Refs BY DEF HoldsOK, Write
  <2> QED BY <2>1, <2>2, <2>3 DEF HoldsOK, HoldType
<1>7. auth[cmd.ref].st = "active" /\ cmd.verb \notin {"settle", "release"} => auth'[cmd.ref] = auth[cmd.ref]
  <2> SUFFICES ASSUME auth[cmd.ref].st = "active", cmd.verb \notin {"settle", "release"}
               PROVE  auth'[cmd.ref] = auth[cmd.ref]
    OBVIOUS
  <2>1. cmd.verb # "authorize" OBVIOUS
  <2> QED BY <1>4, <2>1
<1>8. \A a \in Accounts \ Touched(cmd) : row'[a] = row[a] BY DEF Write
<1>9. late' = late BY DEF Write
<1> QED BY <1>3, <1>6, <1>7, <1>8, <1>9

(* Giving holds up writes the rows of their holders and these holds.       *)
LEMMA ExpiredFrame ==
  ASSUME HoldsOK, NEW S \in SUBSET Refs, \A r \in S : auth[r].st = "active",
         NEW rows, Expired(S, rows)
  PROVE  /\ \A a \in Accounts \ Holders(S) : row'[a] = row[a]
         /\ \A r \in Refs \ S : auth'[r] = auth[r]
         /\ late' = late /\ HoldsOK'
<1>1. \A r \in Refs : auth'[r] = IF r \in S THEN [auth[r] EXCEPT !.st = "expired"] ELSE auth[r]
  BY DEF Expired
<1>2. \A r \in Refs : auth'[r] \in HoldType /\ (auth'[r].user = auth[r].user)
  BY <1>1 DEF HoldsOK, HoldType
<1>3. auth' \in [Refs -> HoldType] BY <1>2 DEF Expired
<1>4. \A r \in Refs : auth'[r].st # "none" => auth'[r].user \in Users
  <2> TAKE r \in Refs
  <2>1. auth'[r].st # "none" => auth[r].st # "none" BY <1>1
  <2> QED BY <1>2, <2>1 DEF HoldsOK
<1>5. \A a \in Accounts \ Holders(S) : row'[a] = row[a] BY DEF Expired
<1> QED BY <1>1, <1>3, <1>4, <1>5 DEF Expired, HoldsOK, HoldType

(* A call keeps what it relies on when nobody writes what it has locked.   *)
LEMMA Undisturbed ==
  ASSUME WalletAssumption, HoldsOK, NEW d \in Calls, CallOK(d), calls'[d] = calls[d],
         \A a \in DOMAIN calls[d].seen : a \in Accounts => row'[a] = row[a],
         \A r \in calls[d].refs : auth'[r] = auth[r], late \subseteq late'
  PROVE  CallOK(d)'
<1>1. HoldKept(d)' BY DEF CallOK, HoldKept, Endable
<1>2. RowsKept(d)'
  <2> SUFFICES ASSUME calls[d].seen # NoRows PROVE RowsKept(d)'
    BY DEF RowsKept
  <2>1. calls[d].seen = Look(Wanted(d)) /\ HasHold(d) /\ (d # Scan => ~Frozen(calls[d].cmd))
    BY DEF CallOK, RowsKept
  <2>2. DOMAIN calls[d].seen = Wanted(d) BY <2>1 DEF Look
  <2>3. HasHold(d)' BY <2>1 DEF HasHold
  <2>4. CASE d = Scan
    <3>1. Wanted(d) \subseteq Accounts /\ calls[d].refs \subseteq Refs
      BY <2>4 DEF Wanted, Holders, CallOK, HoldKept, HoldsOK, Accounts
    <3>2. Wanted(d)' = Wanted(d) BY <2>4 DEF Wanted, Holders
    <3>3. Look(Wanted(d))' = Look(Wanted(d)) BY <2>2, <3>1, <3>2 DEF Look
    <3> QED BY <2>1, <2>3, <2>4, <3>3 DEF RowsKept
  <2>5. CASE d # Scan
    <3> DEFINE cmd == calls[d].cmd
    <3>1. cmd \in Commands /\ cmd.ref \in Refs BY <2>5 DEF CallOK, WalletAssumption
    <3>2. cmd.verb \in {"settle", "release"} => calls[d].refs = {cmd.ref} /\ auth'[cmd.ref] = auth[cmd.ref]
      BY <2>1, <2>5 DEF HasHold, CallOK, HoldKept
    <3>3. cmd.verb \in {"settle", "release"} => auth[cmd.ref].user \in Users
      BY <2>5, <3>1, <3>2 DEF CallOK, HoldKept, HoldsOK
    <3>4. Touched(cmd) \subseteq Accounts BY <3>1, <3>3, TouchedIsAccounts
    <3>5. Holder(cmd)' = Holder(cmd) BY <3>2 DEF Holder
    <3>6. Touched(cmd)' = Touched(cmd) BY <3>5 DEF Touched
    <3>7. Wanted(d) = Touched(cmd) /\ Wanted(d)' = Touched(cmd) BY <2>5, <3>6 DEF Wanted
    <3>8. \A a \in Touched(cmd) : row'[a] = row[a] BY <2>2, <3>4, <3>7
    <3>9. Look(Wanted(d))' = Look(Wanted(d)) BY <3>7, <3>8 DEF Look
    <3>10. ~Frozen(cmd)' BY <2>1, <2>5, <3>6, <3>8 DEF Frozen
    <3> QED BY <2>1, <2>3, <2>5, <3>9, <3>10 DEF RowsKept
  <2> QED BY <2>4, <2>5
<1> QED BY <1>1, <1>2 DEF CallOK, Shape

(* Locks stay apart when a call gives its own up or takes free ones.       *)
LEMMA StillApart ==
  ASSUME Apart, NEW c \in Calls, \A d \in Calls : d # c => calls'[d] = calls[d],
         \A d \in Calls : d # c => calls'[c].refs \cap calls[d].refs = {}
                                   /\ DOMAIN calls'[c].seen \cap DOMAIN calls[d].seen = {}
  PROVE  Apart'
<1> SUFFICES ASSUME NEW d \in Calls, NEW e \in Calls, d # e
             PROVE  /\ calls'[d].refs \cap calls'[e].refs = {}
                    /\ DOMAIN calls'[d].seen \cap DOMAIN calls'[e].seen = {}
  BY DEF Apart, Calls
<1>1. CASE d = c BY <1>1
<1>2. CASE e = c
  <2>1. calls'[d] = calls[d] BY <1>2
  <2>2. calls'[c].refs \cap calls[d].refs = {} /\ DOMAIN calls'[c].seen \cap DOMAIN calls[d].seen = {} BY <1>2
  <2> QED BY <1>2, <2>1, <2>2
<1>3. CASE d # c /\ e # c
  <2>1. calls'[d] = calls[d] /\ calls'[e] = calls[e] BY <1>3
  <2> QED BY <2>1 DEF Apart
<1> QED BY <1>1, <1>2, <1>3

(* The record of a call that is answered.                                  *)
LEMMA Closed ==
  ASSUME NEW w, Shape(w), NEW a, NEW r
  PROVE  LET v == [w EXCEPT !.pc = "done", !.refs = {}, !.seen = NoRows, !.answer = a, !.receipt = r]
         IN  v.pc = "done" /\ v.cmd = w.cmd /\ v.refs = {} /\ v.seen = NoRows /\ Shape(v)
BY DEF Shape

(* A call that is answered has no locks and keeps its command.             *)
LEMMA Answered ==
  ASSUME Apart, DOMAIN calls = Calls, NEW c \in Callers, c # Scan, CallOK(c), calls[c].pc # "new",
         NEW a, NEW r, Answer(c, a, r)
  PROVE  CallOK(c)' /\ Apart' /\ DOMAIN calls' = Calls /\ \A d \in Calls : d # c => calls'[d] = calls[d]
<1> DEFINE v == [calls[c] EXCEPT !.pc = "done", !.refs = {}, !.seen = NoRows, !.answer = a, !.receipt = r]
<1>1. calls' = [calls EXCEPT ![c] = v] BY DEF Answer
<1>2. c \in Calls BY DEF Calls
<1>3. v.pc = "done" /\ v.cmd = calls[c].cmd /\ v.refs = {} /\ v.seen = NoRows /\ Shape(v)
  BY Closed DEF CallOK
<1>4. calls'[c] = v /\ DOMAIN calls' = Calls /\ \A d \in Calls : d # c => calls'[d] = calls[d]
  BY <1>1, <1>2
<1>5. Apart'
  <2> HIDE DEF v
  <2>1. DOMAIN calls'[c].seen = {} /\ calls'[c].refs = {} BY <1>3, <1>4 DEF NoRows
  <2> QED BY <1>2, <1>4, <2>1, StillApart
<1>6. CallOK(c)'
  <2> HIDE DEF v
  <2>1. Shape(calls[c])' BY <1>3, <1>4 DEF Shape
  <2>2. calls'[c].refs = {} /\ calls'[c].seen = NoRows /\ calls'[c].pc = "done" /\ calls'[c].cmd = calls[c].cmd
    BY <1>3, <1>4
  <2> QED BY <2>1, <2>2 DEF CallOK, HoldKept, RowsKept
<1> QED BY <1>4, <1>5, <1>6

(* A replay is an answer.                                                  *)
LEMMA ReplayAnswers ==
  ASSUME NEW c \in Callers, Replay(c)
  PROVE  \E a, r : Answer(c, a, r)
BY DEF Replay

-----------------------------------------------------------------------------
(* Steps that leave the tables alone.                                      *)

LEMMA QuietStep ==
  ASSUME WalletAssumption, KInv, UNCHANGED tables, NEW c \in Calls, DOMAIN calls' = Calls,
         \A d \in Calls : d # c => calls'[d] = calls[d], CallOK(c)', Apart'
  PROVE  KInv'
<1>1. \A d \in Calls : d # c => CallOK(d)'
  <2> SUFFICES ASSUME NEW d \in Calls, d # c PROVE CallOK(d)' OBVIOUS
  <2> QED BY Undisturbed DEF KInv, tables
<1>2. HoldsOK' BY DEF KInv, HoldsOK, tables, HoldType
<1> QED BY <1>1, <1>2 DEF KInv

LEMMA QuietAnswer ==
  ASSUME WalletAssumption, KernelAssumption, KInv, NEW c \in Callers, calls[c].pc # "new",
         UNCHANGED tables, NEW a, NEW r, Answer(c, a, r)
  PROVE  KInv'
<1>1. c \in Calls /\ c # Scan BY DEF Calls, KernelAssumption
<1> QED BY <1>1, Answered, QuietStep DEF KInv

LEMMA QuietRefuse ==
  ASSUME WalletAssumption, KernelAssumption, KInv, NEW c \in Callers, calls[c].pc # "new",
         NEW a, Refuse(c, a)
  PROVE  KInv'
BY QuietAnswer DEF Refuse

LEMMA QuietReplay ==
  ASSUME WalletAssumption, KernelAssumption, KInv, NEW c \in Callers, calls[c].pc # "new",
         UNCHANGED tables, Replay(c)
  PROVE  KInv'
<1>1. PICK a, r : Answer(c, a, r) BY ReplayAnswers
<1> QED BY <1>1, QuietAnswer

(* The record of a call that changes some of its fields.                   *)
LEMMA Begun ==
  ASSUME NEW w, Shape(w), NEW x, NEW y, NEW p
  PROVE  LET v == [w EXCEPT !.cmd = x, !.clock = y, !.pc = p]
         IN  v.pc = p /\ v.cmd = x /\ v.refs = w.refs /\ v.seen = w.seen /\ Shape(v)
BY DEF Shape

LEMMA BeginStep ==
  ASSUME WalletAssumption, KernelAssumption, KInv, NEW c \in Callers, NEW cmd \in Commands, Begin(c, cmd)
  PROVE  KInv'
<1>1. c \in Calls /\ c # Scan BY DEF Calls, KernelAssumption
<1> DEFINE p == IF Taken(cmd) THEN "found" ELSE "open"
           v == [calls[c] EXCEPT !.cmd = cmd, !.clock = late, !.pc = p]
<1>2. calls' = [calls EXCEPT ![c] = v] /\ UNCHANGED tables /\ calls[c].pc = "new" BY DEF Begin
<1>3. Shape(calls[c]) /\ calls[c].refs = {} /\ calls[c].seen = NoRows BY <1>1, <1>2 DEF KInv, CallOK
<1> HIDE DEF p
<1>4. v.pc = p /\ v.cmd = cmd /\ v.refs = {} /\ v.seen = NoRows /\ Shape(v)
  <2> DEFINE w == calls[c]
  <2>1. Shape(w) /\ w.refs = {} /\ w.seen = NoRows BY <1>3
  <2> HIDE DEF w
  <2>2. LET u == [w EXCEPT !.cmd = cmd, !.clock = late, !.pc = p]
        IN  u.pc = p /\ u.cmd = cmd /\ u.refs = w.refs /\ u.seen = w.seen /\ Shape(u)
    BY <2>1, Begun
  <2> USE DEF w
  <2> QED BY <2>1, <2>2
<1> HIDE DEF v
<1>5. calls'[c] = v /\ DOMAIN calls' = Calls /\ \A d \in Calls : d # c => calls'[d] = calls[d]
  BY <1>1, <1>2 DEF KInv
<1>6. Apart'
  <2>1. DOMAIN calls'[c].seen = {} /\ calls'[c].refs = {} BY <1>4, <1>5 DEF NoRows
  <2>2. Apart BY DEF KInv
  <2> QED BY <1>1, <1>5, <2>1, <2>2, StillApart
<1>7. CallOK(c)'
  <2>1. Shape(calls[c])' BY <1>4, <1>5 DEF Shape
  <2>2. calls'[c].refs = {} /\ calls'[c].seen = NoRows /\ calls'[c].cmd \in Commands BY <1>4, <1>5
  <2> QED BY <2>1, <2>2 DEF CallOK, HoldKept, RowsKept
<1> QED BY <1>1, <1>2, <1>5, <1>6, <1>7, QuietStep

LEMMA RefsTaken ==
  ASSUME NEW w, Shape(w), NEW x
  PROVE  LET v == [w EXCEPT !.refs = x]
         IN  v.pc = w.pc /\ v.cmd = w.cmd /\ v.refs = x /\ v.seen = w.seen /\ Shape(v)
BY DEF Shape

LEMMA TakeHoldStep ==
  ASSUME WalletAssumption, KernelAssumption, KInv, NEW c \in Callers, TakeHold(c)
  PROVE  KInv'
<1> DEFINE cmd == calls[c].cmd
<1>1. c \in Calls /\ c # Scan BY DEF Calls, KernelAssumption
<1>2. calls[c].pc = "open" /\ calls[c].refs = {} /\ cmd.verb \in {"settle", "release"} /\ FreeHold(cmd.ref)
  BY DEF TakeHold
<1>3. CallOK(c) /\ cmd \in Commands /\ cmd.ref \in Refs BY <1>1, <1>2 DEF KInv, CallOK, WalletAssumption
<1>4. CASE \E a : Refuse(c, a) BY <1>2, <1>4, QuietRefuse
<1>5. CASE Replay(c) /\ UNCHANGED tables BY <1>2, <1>5, QuietReplay
<1>6. CASE /\ auth[cmd.ref].st = "active" /\ (cmd.verb = "settle" => ~(cmd.amount > auth[cmd.ref].amount))
           /\ calls' = [calls EXCEPT ![c].refs = {cmd.ref}] /\ UNCHANGED tables
  <2> DEFINE v == [calls[c] EXCEPT !.refs = {cmd.ref}]
  <2>1. calls' = [calls EXCEPT ![c] = v] BY <1>6
  <2>2. Shape(calls[c]) BY <1>3 DEF CallOK
  <2>3. v.pc = "open" /\ v.cmd = cmd /\ v.refs = {cmd.ref} /\ v.seen = calls[c].seen /\ Shape(v)
    BY <1>2, <2>2, RefsTaken
  <2> HIDE DEF v
  <2>4. calls'[c] = v /\ DOMAIN calls' = Calls /\ \A d \in Calls : d # c => calls'[d] = calls[d]
    BY <1>1, <2>1 DEF KInv
  <2>5. calls[c].seen = NoRows BY <1>1, <1>2, <1>3 DEF CallOK, RowsKept, HasHold
  <2>6. Apart'
    <3>1. DOMAIN calls'[c].seen = {} BY <2>3, <2>4, <2>5 DEF NoRows
    <3>2. \A d \in Calls : d # c => calls'[c].refs \cap calls[d].refs = {}
      BY <1>2, <2>3, <2>4 DEF FreeHold, Calls
    <3>3. Apart BY DEF KInv
    <3> QED BY <1>1, <2>4, <3>1, <3>2, <3>3, StillApart
  <2>7. Endable(cmd)
    <3>1. auth[cmd.ref].amount \in Nat /\ cmd.amount \in Nat BY <1>3 DEF KInv, HoldsOK, HoldType, WalletAssumption
    <3> QED BY <1>6, <3>1 DEF Endable
  <2>8. CallOK(c)'
    <3>1. Shape(calls[c])' BY <2>3, <2>4 DEF Shape
    <3>2. HoldKept(c)'
      <4>1. Endable(cmd)' BY <1>6, <2>7 DEF Endable, tables
      <4> QED BY <1>1, <1>2, <1>3, <1>6, <2>3, <2>4, <4>1 DEF HoldKept, tables
    <3>3. RowsKept(c)' BY <2>3, <2>4, <2>5 DEF RowsKept
    <3> QED BY <1>3, <2>3, <2>4, <3>1, <3>2, <3>3 DEF CallOK
  <2> QED BY <1>1, <1>6, <2>4, <2>6, <2>8, QuietStep
<1>7. \/ \E a : Refuse(c, a)
      \/ Replay(c) /\ UNCHANGED tables
      \/ /\ auth[cmd.ref].st = "active" /\ (cmd.verb = "settle" => ~(cmd.amount > auth[cmd.ref].amount))
         /\ calls' = [calls EXCEPT ![c].refs = {cmd.ref}] /\ UNCHANGED tables
  <2>1. CASE auth[cmd.ref].st = "none"
    <3>1. Refuse(c, "missing") BY <2>1 DEF TakeHold
    <3> QED BY <3>1
  <2>2. CASE auth[cmd.ref].st = "active"
    <3>1. \/ Refuse(c, "ended") \/ Refuse(c, "refused")
          \/ /\ (cmd.verb = "settle" => ~(cmd.amount > auth[cmd.ref].amount))
             /\ calls' = [calls EXCEPT ![c].refs = {cmd.ref}] /\ UNCHANGED tables
      BY <2>2 DEF TakeHold
    <3> QED BY <2>2, <3>1
  <2>3. CASE auth[cmd.ref].st \notin {"none", "active"}
    <3>1. Refuse(c, "ended") \/ (Replay(c) /\ UNCHANGED tables) BY <2>3 DEF TakeHold
    <3> QED BY <3>1
  <2> QED BY <2>1, <2>2, <2>3
<1> QED BY <1>4, <1>5, <1>6, <1>7

(* The record of a call that locked its accounts.                          *)
LEMMA RowsTaken ==
  ASSUME NEW w, Shape(w), NEW x
  PROVE  LET v == [w EXCEPT !.seen = x]
         IN  v.pc = w.pc /\ v.cmd = w.cmd /\ v.refs = w.refs /\ v.seen = x /\ Shape(v)
BY DEF Shape

LEMMA LockRowsStep ==
  ASSUME WalletAssumption, KernelAssumption, KInv, NEW c \in Calls, LockRows(c)
  PROVE  KInv'
<1>1. calls[c].pc = "open" /\ HasHold(c) /\ \A a \in Wanted(c) : FreeRow(a) BY DEF LockRows
<1>2. CASE c # Scan /\ Frozen(calls[c].cmd)
  <2>1. c \in Callers /\ Refuse(c, "frozen") BY <1>2 DEF LockRows, Calls
  <2> QED BY <1>1, <2>1, QuietRefuse
<1>3. CASE ~(c # Scan /\ Frozen(calls[c].cmd))
  <2> DEFINE v == [calls[c] EXCEPT !.seen = Look(Wanted(c))]
  <2>1. calls' = [calls EXCEPT ![c] = v] /\ UNCHANGED tables BY <1>3 DEF LockRows
  <2>2. CallOK(c) BY DEF KInv
  <2>3. v.pc = "open" /\ v.cmd = calls[c].cmd /\ v.refs = calls[c].refs /\ v.seen = Look(Wanted(c)) /\ Shape(v)
    <3> DEFINE w == calls[c]
               x == Look(Wanted(c))
    <3>1. Shape(w) /\ w.pc = "open" BY <1>1, <2>2 DEF CallOK
    <3> HIDE DEF w, x
    <3>2. LET u == [w EXCEPT !.seen = x]
          IN  u.pc = w.pc /\ u.cmd = w.cmd /\ u.refs = w.refs /\ u.seen = x /\ Shape(u)
      BY <3>1, RowsTaken
    <3>3. v = [w EXCEPT !.seen = x] BY DEF v, w, x
    <3> HIDE DEF v
    <3>4. v.pc = "open" /\ v.cmd = w.cmd /\ v.refs = w.refs /\ v.seen = x /\ Shape(v) BY <3>1, <3>2, <3>3
    <3> QED BY <3>4 DEF w, x
  <2> HIDE DEF v
  <2>4. calls'[c] = v /\ DOMAIN calls' = Calls /\ \A d \in Calls : d # c => calls'[d] = calls[d]
    BY <2>1 DEF KInv
  <2>5. Apart'
    <3>1. DOMAIN calls'[c].seen = Wanted(c) BY <2>3, <2>4 DEF Look
    <3>2. \A d \in Calls : d # c => calls'[c].refs \cap calls[d].refs = {} BY <2>3, <2>4 DEF KInv, Apart
    <3>3. \A d \in Calls : d # c => DOMAIN calls'[c].seen \cap DOMAIN calls[d].seen = {}
      BY <1>1, <3>1 DEF FreeRow, Calls
    <3>4. Apart BY DEF KInv
    <3> QED BY <2>4, <3>2, <3>3, <3>4, StillApart
  <2>6. CallOK(c)'
    <3>1. Shape(calls[c])' BY <2>3, <2>4 DEF Shape
    <3>2. HoldKept(c)'
      <4>1. calls'[c].cmd = calls[c].cmd /\ calls'[c].refs = calls[c].refs BY <2>3, <2>4
      <4>2. auth' = auth /\ late' = late BY <2>1 DEF tables
      <4>3. Endable(calls[c].cmd)' <=> Endable(calls[c].cmd) BY <4>1, <4>2 DEF Endable
      <4> QED BY <2>2, <4>1, <4>2, <4>3 DEF CallOK, HoldKept
    <3>3. HasHold(c)' BY <1>1, <2>3, <2>4 DEF HasHold
    <3>4. Wanted(c)' = Wanted(c)
      <4>1. calls'[c].cmd = calls[c].cmd /\ calls'[c].refs = calls[c].refs BY <2>3, <2>4
      <4>2. auth' = auth BY <2>1 DEF tables
      <4>3. Holders(calls[c].refs)' = Holders(calls[c].refs) BY <4>1, <4>2 DEF Holders
      <4>4. Holder(calls[c].cmd)' = Holder(calls[c].cmd) BY <4>1, <4>2 DEF Holder
      <4>5. Touched(calls[c].cmd)' = Touched(calls[c].cmd) BY <4>1, <4>4 DEF Touched
      <4> QED BY <4>3, <4>5 DEF Wanted
    <3>5. Look(Wanted(c))' = Look(Wanted(c)) BY <2>1, <3>4 DEF Look, tables
    <3>6. calls'[c].seen = Look(Wanted(c)) BY <2>3, <2>4
    <3>7. (c # Scan => ~Frozen(calls[c].cmd))' BY <1>3, <2>1, <2>3, <2>4 DEF Frozen, Touched, Holder, tables
    <3>8. RowsKept(c)' BY <3>3, <3>5, <3>6, <3>7 DEF RowsKept
    <3> QED BY <1>1, <2>2, <2>3, <2>4, <3>1, <3>2, <3>8 DEF CallOK
  <2> QED BY <2>1, <2>4, <2>5, <2>6, QuietStep
<1> QED BY <1>2, <1>3

(* The record of the scan while it runs.                                   *)
LEMMA ScanRecord ==
  ASSUME NEW w, Shape(w), NEW x, NEW p
  PROVE  LET v == [w EXCEPT !.pc = p, !.refs = x]
         IN  v.pc = p /\ v.refs = x /\ v.seen = w.seen /\ Shape(v)
BY DEF Shape

LEMMA StartScanStep ==
  ASSUME WalletAssumption, KernelAssumption, KInv, StartScan
  PROVE  KInv'
<1>1. Scan \in Calls /\ calls[Scan].pc = "new" BY DEF Calls, StartScan
<1>2. PICK S \in SUBSET Overdue : calls' = [calls EXCEPT ![Scan] = [@ EXCEPT !.pc = "open", !.refs = S]]
  BY DEF StartScan
<1>3. UNCHANGED tables BY DEF StartScan
<1> DEFINE v == [calls[Scan] EXCEPT !.pc = "open", !.refs = S]
<1>4. calls' = [calls EXCEPT ![Scan] = v] BY <1>2
<1>5. CallOK(Scan) BY <1>1 DEF KInv
<1>6. v.pc = "open" /\ v.refs = S /\ v.seen = calls[Scan].seen /\ Shape(v) BY <1>5, ScanRecord DEF CallOK
<1> HIDE DEF v
<1>7. calls'[Scan] = v /\ DOMAIN calls' = Calls /\ \A d \in Calls : d # Scan => calls'[d] = calls[d]
  BY <1>1, <1>4 DEF KInv
<1>8. calls[Scan].seen = NoRows BY <1>1, <1>5 DEF CallOK
<1>9. S \subseteq Refs /\ S \subseteq late /\ \A r \in S : auth[r].st = "active" /\ FreeHold(r)
  BY DEF Overdue, KInv, HoldsOK
<1>10. Apart'
  <2>1. DOMAIN calls'[Scan].seen = {} BY <1>6, <1>7, <1>8 DEF NoRows
  <2>2. \A d \in Calls : d # Scan => calls'[Scan].refs \cap calls[d].refs = {}
    BY <1>6, <1>7, <1>9 DEF FreeHold, Calls
  <2>3. Apart BY DEF KInv
  <2> QED BY <1>1, <1>7, <2>1, <2>2, <2>3, StillApart
<1>11. CallOK(Scan)'
  <2>1. Shape(calls[Scan])' BY <1>6, <1>7 DEF Shape
  <2>2. HoldKept(Scan)' BY <1>3, <1>6, <1>7, <1>9 DEF HoldKept, tables
  <2>3. RowsKept(Scan)' BY <1>6, <1>7, <1>8 DEF RowsKept
  <2> QED BY <1>6, <1>7, <2>1, <2>2, <2>3 DEF CallOK
<1> QED BY <1>1, <1>3, <1>7, <1>10, <1>11, QuietStep

(* A call without locks relies on nothing.                                 *)
LEMMA Unlocked ==
  ASSUME KInv, NEW c \in Calls, DOMAIN calls' = Calls, \A d \in Calls : d # c => calls'[d] = calls[d],
         calls'[c].refs = {}, calls'[c].seen = NoRows, Shape(calls'[c]),
         c # Scan => calls'[c].cmd \in Commands
  PROVE  CallOK(c)' /\ Apart'
<1>1. Apart'
  <2>1. DOMAIN calls'[c].seen = {} BY DEF NoRows
  <2>2. Apart BY DEF KInv
  <2> QED BY <2>1, <2>2, StillApart
<1>2. CallOK(c)' BY DEF CallOK, HoldKept, RowsKept, Shape
<1> QED BY <1>1, <1>2

LEMMA RollBackStep ==
  ASSUME WalletAssumption, KernelAssumption, KInv, NEW c \in Calls, RollBack(c)
  PROVE  KInv'
<1>1. calls[c].pc = "open" /\ UNCHANGED tables BY DEF RollBack
<1>2. CallOK(c) BY DEF KInv
<1>3. CASE c = Scan
  <2> DEFINE v == [calls[c] EXCEPT !.pc = "new", !.refs = {}, !.seen = NoRows]
  <2>1. calls' = [calls EXCEPT ![c] = v] BY <1>3 DEF RollBack
  <2>2. v.refs = {} /\ v.seen = NoRows /\ Shape(v) BY <1>2 DEF CallOK, Shape
  <2> HIDE DEF v
  <2>3. calls'[c] = v /\ DOMAIN calls' = Calls /\ \A d \in Calls : d # c => calls'[d] = calls[d]
    BY <2>1 DEF KInv
  <2>4. CallOK(c)' /\ Apart' BY <1>3, <2>2, <2>3, Unlocked
  <2> QED BY <1>1, <2>3, <2>4, QuietStep
<1>4. CASE c # Scan /\ calls[c].tries + 1 < MaxTries
  <2> DEFINE v == [calls[c] EXCEPT !.refs = {}, !.seen = NoRows, !.tries = calls[c].tries + 1, !.clock = late]
  <2>1. calls' = [calls EXCEPT ![c] = v] BY <1>4 DEF RollBack
  <2>2. v.refs = {} /\ v.seen = NoRows /\ Shape(v) /\ v.cmd = calls[c].cmd BY <1>2 DEF CallOK, Shape
  <2> HIDE DEF v
  <2>3. calls'[c] = v /\ DOMAIN calls' = Calls /\ \A d \in Calls : d # c => calls'[d] = calls[d]
    BY <2>1 DEF KInv
  <2>4. calls'[c].cmd \in Commands BY <1>1, <1>2, <1>4, <2>2, <2>3 DEF CallOK
  <2>5. CallOK(c)' /\ Apart' BY <2>2, <2>3, <2>4, Unlocked
  <2> QED BY <1>1, <2>3, <2>5, QuietStep
<1>5. CASE c # Scan /\ ~(calls[c].tries + 1 < MaxTries)
  <2>1. c \in Callers /\ Answer(c, "failed", Nothing) BY <1>5 DEF RollBack, Calls
  <2> QED BY <1>1, <2>1, QuietAnswer
<1> QED BY <1>3, <1>4, <1>5

(* A call that finds its hold, or its key, taken is answered.              *)
LEMMA FoundStep ==
  ASSUME WalletAssumption, KernelAssumption, KInv, NEW c \in Callers, Found(c)
  PROVE  KInv'
BY QuietReplay DEF Found

LEMMA TimeStep ==
  ASSUME WalletAssumption, KInv, NEW r \in Refs, KTimePasses(r)
  PROVE  KInv'
<1>1. UNCHANGED <<row, auth, ledger, calls>> /\ late' = late \cup {r} BY DEF KTimePasses, TimePasses
<1>2. \A d \in Calls : CallOK(d)'
  <2> TAKE d \in Calls
  <2> QED BY <1>1, Undisturbed DEF KInv
<1>3. HoldsOK' BY <1>1 DEF KInv, HoldsOK, HoldType
<1>4. Apart' BY <1>1 DEF KInv, Apart
<1> QED BY <1>1, <1>2, <1>3, <1>4 DEF KInv

-----------------------------------------------------------------------------
(* Steps that write.  What a call commits is what its command does now.    *)
LEMMA CommitStep ==
  ASSUME WalletAssumption, KernelAssumption, KInv, NEW c \in Callers, Commit(c)
  PROVE  KInv' /\ [Next]_tables
<1> DEFINE cmd == calls[c].cmd
           rows == calls[c].seen
<1>1. c \in Calls /\ c # Scan /\ calls[c].pc = "open" /\ rows # NoRows BY DEF Calls, Commit
<1>2. CallOK(c) /\ cmd \in Commands /\ cmd.ref \in Refs BY <1>1 DEF KInv, CallOK, WalletAssumption
<1>3. rows = Look(Touched(cmd)) /\ HasHold(c) /\ ~Frozen(cmd) BY <1>1, <1>2 DEF CallOK, RowsKept, Wanted
<1>4. cmd.verb \in {"settle", "release"} => calls[c].refs = {cmd.ref} /\ Endable(cmd)
  BY <1>1, <1>2, <1>3 DEF CallOK, HoldKept, HasHold
<1>5. Endable(cmd) BY <1>4 DEF Endable
<1>6. CASE Refuse(c, "refused") BY <1>1, <1>6, QuietRefuse DEF Refuse
<1>7. CASE Replay(c) /\ UNCHANGED tables BY <1>1, <1>7, QuietReplay
<1>8. CASE Covered(cmd, rows) /\ ~Taken(cmd) /\ Write(cmd, rows) /\ \E r : Answer(c, "applied", r)
  <2>1. cmd.verb = "authorize" => auth[cmd.ref].st = "none" BY <1>8 DEF Taken
  <2>2. /\ \A a \in Accounts \ Touched(cmd) : row'[a] = row[a]
        /\ \A r \in Refs : r # cmd.ref => auth'[r] = auth[r]
        /\ auth[cmd.ref].st = "active" /\ cmd.verb \notin {"settle", "release"} => auth'[cmd.ref] = auth[cmd.ref]
        /\ late' = late /\ HoldsOK'
    <3>1. HoldsOK BY DEF KInv
    <3> HIDE DEF cmd, rows
    <3> QED BY <1>2, <1>5, <1>8, <2>1, <3>1, WriteFrame
  <2>3. Apart /\ DOMAIN calls = Calls BY DEF KInv
  <2>4. CallOK(c)' /\ Apart' /\ DOMAIN calls' = Calls /\ \A d \in Calls : d # c => calls'[d] = calls[d]
    <3>1. PICK r : Answer(c, "applied", r) BY <1>8
    <3> QED BY <1>1, <1>2, <2>3, <3>1, Answered
  <2>5. ASSUME NEW d \in Calls, d # c PROVE CallOK(d)'
    <3>1. CallOK(d) /\ HoldsOK /\ calls'[d] = calls[d] BY <2>4, <2>5 DEF KInv
    <3>2. DOMAIN rows = Touched(cmd) BY <1>3 DEF Look
    <3>3. \A a \in DOMAIN calls[d].seen : a \in Accounts => row'[a] = row[a]
      BY <1>1, <2>2, <2>3, <2>5, <3>2 DEF Apart
    <3>4. \A r \in calls[d].refs : auth'[r] = auth[r]
      <4> TAKE r \in calls[d].refs
      <4>1. r \in Refs /\ auth[r].st = "active" BY <3>1 DEF CallOK, HoldKept
      <4>2. CASE r = cmd.ref
        <5>1. cmd.verb \notin {"settle", "release"} BY <1>1, <1>4, <2>3, <2>5, <4>2 DEF Apart
        <5> QED BY <2>2, <4>1, <4>2, <5>1
      <4>3. CASE r # cmd.ref BY <2>2, <4>1, <4>3
      <4> QED BY <4>2, <4>3
    <3> QED BY <2>2, <3>1, <3>3, <3>4, Undisturbed
  <2>6. KInv' BY <2>2, <2>4, <2>5 DEF KInv
  <2>7. Apply(cmd) BY <1>3, <1>5, <1>8 DEF Apply
  <2> QED BY <1>2, <2>6, <2>7 DEF Next
<1>9. UNCHANGED tables => [Next]_tables OBVIOUS
<1>10. \/ Refuse(c, "refused")
       \/ Replay(c) /\ UNCHANGED tables
       \/ Covered(cmd, rows) /\ ~Taken(cmd) /\ Write(cmd, rows) /\ \E r : Answer(c, "applied", r)
  BY DEF Commit
<1> QED BY <1>6, <1>7, <1>8, <1>9, <1>10 DEF Refuse

(* The holds the scan gives up are the late, active ones it locked.        *)
LEMMA FinishScanStep ==
  ASSUME WalletAssumption, KernelAssumption, KInv, FinishScan
  PROVE  KInv' /\ [Next]_tables
<1> DEFINE S == calls[Scan].refs
           rows == calls[Scan].seen
<1>1. Scan \in Calls /\ rows # NoRows /\ Expired(S, rows) BY DEF Calls, FinishScan
<1>2. CallOK(Scan) /\ HoldsOK /\ Apart /\ DOMAIN calls = Calls BY <1>1 DEF KInv
<1>3. rows = Look(Holders(S)) /\ S # {} BY <1>1, <1>2 DEF CallOK, RowsKept, Wanted, HasHold
<1>4. S \in SUBSET Refs /\ S \subseteq late /\ \A r \in S : auth[r].st = "active" BY <1>2 DEF CallOK, HoldKept
<1>5. /\ \A a \in Accounts \ Holders(S) : row'[a] = row[a]
      /\ \A r \in Refs \ S : auth'[r] = auth[r]
      /\ late' = late /\ HoldsOK'
  <2> HIDE DEF S, rows
  <2> QED BY <1>1, <1>2, <1>4, ExpiredFrame
<1> DEFINE v == [calls[Scan] EXCEPT !.pc = "new", !.refs = {}, !.seen = NoRows]
<1>6. calls' = [calls EXCEPT ![Scan] = v] BY DEF FinishScan
<1>7. v.refs = {} /\ v.seen = NoRows /\ Shape(v) BY <1>2 DEF CallOK, Shape
<1> HIDE DEF v
<1>8. calls'[Scan] = v /\ DOMAIN calls' = Calls /\ \A d \in Calls : d # Scan => calls'[d] = calls[d]
  BY <1>1, <1>2, <1>6
<1>9. CallOK(Scan)' /\ Apart' BY <1>1, <1>7, <1>8, Unlocked
<1>10. ASSUME NEW d \in Calls, d # Scan PROVE CallOK(d)'
  <2>1. CallOK(d) /\ calls'[d] = calls[d] BY <1>8, <1>10 DEF KInv
  <2>2. DOMAIN rows = Holders(S) BY <1>3 DEF Look
  <2>3. \A a \in DOMAIN calls[d].seen : a \in Accounts => row'[a] = row[a]
    BY <1>1, <1>2, <1>5, <1>10, <2>2 DEF Apart
  <2>4. \A r \in calls[d].refs : auth'[r] = auth[r]
    BY <1>1, <1>2, <1>5, <1>10, <2>1 DEF Apart, CallOK, HoldKept
  <2> QED BY <1>2, <1>5, <2>1, <2>3, <2>4, Undisturbed
<1>11. KInv' BY <1>5, <1>8, <1>9, <1>10 DEF KInv
<1>12. GiveUp(S) BY <1>1, <1>3, <1>4 DEF GiveUp
<1> QED BY <1>4, <1>11, <1>12 DEF Next

-----------------------------------------------------------------------------
(* Every step keeps the invariant and is a step of the atomic wallet, or   *)
(* leaves the tables alone.                                                *)
LEMMA KernelStep ==
  ASSUME WalletAssumption, KernelAssumption, KInv, [KNext]_vars
  PROVE  KInv' /\ [Next]_tables
<1>1. CASE \E c \in Callers : Serve(c) \/ RollBack(c) \/ \E cmd \in Commands : Begin(c, cmd)
  <2>1. PICK c \in Callers : Serve(c) \/ RollBack(c) \/ \E cmd \in Commands : Begin(c, cmd) BY <1>1
  <2>2. c \in Calls /\ c # Scan BY DEF Calls, KernelAssumption
  <2>3. CASE Found(c) BY <2>3, FoundStep DEF Found
  <2>4. CASE TakeHold(c)
    <3>1. UNCHANGED tables BY <2>4 DEF TakeHold, Refuse
    <3> QED BY <2>4, <3>1, TakeHoldStep
  <2>5. CASE LockRows(c)
    <3>1. UNCHANGED tables BY <2>5 DEF LockRows, Refuse
    <3> QED BY <2>2, <2>5, <3>1, LockRowsStep
  <2>6. CASE Commit(c) BY <2>6, CommitStep
  <2>7. CASE RollBack(c) BY <2>2, <2>7, RollBackStep DEF RollBack
  <2>8. CASE \E cmd \in Commands : Begin(c, cmd)
    <3>1. UNCHANGED tables BY <2>8 DEF Begin
    <3> QED BY <2>8, <3>1, BeginStep
  <2> QED BY <2>1, <2>3, <2>4, <2>5, <2>6, <2>7, <2>8 DEF Serve
<1>2. CASE StartScan BY <1>2, StartScanStep DEF StartScan
<1>3. CASE LockRows(Scan)
  <2>1. UNCHANGED tables BY <1>3 DEF LockRows, Refuse
  <2> QED BY <1>3, <2>1, LockRowsStep DEF Calls
<1>4. CASE FinishScan BY <1>4, FinishScanStep
<1>5. CASE RollBack(Scan) BY <1>5, RollBackStep DEF RollBack, Calls
<1>6. CASE \E r \in Refs : KTimePasses(r) BY <1>6, TimeStep DEF KTimePasses, Next
<1>7. CASE UNCHANGED vars
  <2>1. UNCHANGED tables /\ calls' = calls BY <1>7 DEF vars, tables
  <2>2. \A d \in Calls : CallOK(d)'
    <3> TAKE d \in Calls
    <3> QED BY <2>1, Undisturbed DEF KInv, tables
  <2>3. HoldsOK' BY <2>1 DEF KInv, HoldsOK, HoldType, tables
  <2>4. Apart' BY <2>1 DEF KInv, Apart
  <2> QED BY <2>1, <2>2, <2>3, <2>4 DEF KInv
<1> QED BY <1>1, <1>2, <1>3, <1>4, <1>5, <1>6, <1>7 DEF KNext, ScanStep

LEMMA KernelInit == ASSUME KInit PROVE KInv
<1>1. HoldsOK BY DEF KInit, Init, HoldsOK, HoldType, NoHold
<1>2. \A c \in Calls : calls[c] = Idle BY DEF KInit, Calls
<1>3. Shape(Idle) /\ Idle.pc = "new" /\ Idle.refs = {} /\ Idle.seen = NoRows BY DEF Idle, Shape
<1>4. \A c \in Calls : CallOK(c)
  <2> TAKE c \in Calls
  <2>1. calls[c] = Idle BY <1>2
  <2> QED BY <1>3, <2>1 DEF CallOK, HoldKept, RowsKept
<1>5. Apart BY <1>2, <1>3 DEF Apart, NoRows
<1>6. DOMAIN calls = Calls BY DEF KInit, Calls
<1> QED BY <1>1, <1>4, <1>5, <1>6 DEF KInv

(* The wallet package implements the atomic wallet: a call that is told    *)
(* yes was carried out at one instant, whatever else ran, was rolled back, *)
(* or was given up by the scan at the same time.                           *)
THEOREM KernelImplementsAtomic ==
  ASSUME WalletAssumption, KernelAssumption
  PROVE  KSpec => KernelIsAtomic
<1>1. KInit => KInv /\ Init BY KernelInit DEF KInit
<1>2. KInv /\ [KNext]_vars => KInv' /\ [Next]_tables BY KernelStep
<1> QED BY <1>1, <1>2, PTL DEF KSpec, KernelIsAtomic, Spec

(* What a step of the atomic wallet does to a frozen account.              *)
Stands(a) ==
  row[a].frozen =>
    /\ row'[a].balance = row[a].balance /\ row'[a].limit = row[a].limit
    /\ \A r \in Refs : auth[r].st = "none" /\ auth'[r].st # "none" => auth'[r].user # a

LEMMA AtomicStands ==
  ASSUME WalletAssumption, HoldsOK, [Next]_tables, NEW a \in Accounts
  PROVE  Stands(a)
<1> SUFFICES ASSUME row[a].frozen PROVE Stands(a) BY DEF Stands
<1>1. CASE \E cmd \in Commands : Apply(cmd)
  <2>1. PICK cmd \in Commands : Apply(cmd) BY <1>1
  <2> DEFINE rows == Look(Touched(cmd))
  <2>2. Write(cmd, rows) /\ ~Frozen(cmd) /\ Endable(cmd) BY <2>1 DEF Apply
  <2>3. cmd.verb = "authorize" => auth[cmd.ref].st = "none" BY <2>1 DEF Apply, Taken
  <2>4. cmd.ref \in Refs /\ cmd.verb \in Verbs BY DEF WalletAssumption
  <2>5. \A b \in Accounts : row'[b] = IF b \in Touched(cmd) THEN After(cmd, rows, b) ELSE row[b]
    BY <2>2 DEF Write
  <2>6. a \in Touched(cmd) => cmd.verb \in {"freeze", "release"} BY <2>2 DEF Frozen
  <2>7. row'[a].balance = row[a].balance /\ row'[a].limit = row[a].limit
    <3>1. CASE a \in Touched(cmd)
      <4>1. row'[a] = After(cmd, rows, a) /\ rows[a] = row[a] BY <2>5, <3>1 DEF Look
      <4> QED BY <2>6, <3>1, <4>1 DEF After, Postings, Audits
    <3>2. CASE a \notin Touched(cmd) BY <2>5, <3>2
    <3> QED BY <3>1, <3>2
  <2>8. ASSUME NEW r \in Refs, auth[r].st = "none", auth'[r].st # "none" PROVE auth'[r].user # a
    <3>1. r = cmd.ref BY <2>2, <2>4, <2>8 DEF Write, HoldsOK
    <3>2. cmd.verb = "authorize"
      <4>1. cmd.verb \notin {"settle", "release"} BY <2>2, <2>8, <3>1 DEF Endable
      <4>2. CASE cmd.verb # "authorize"
        <5>1. auth'[cmd.ref] = auth[cmd.ref] BY <2>2, <2>4, <4>1, <4>2 DEF Write, HoldsOK
        <5> QED BY <2>8, <3>1, <5>1
      <4> QED BY <4>2
    <3>3. auth'[cmd.ref].user = cmd.from BY <2>2, <2>4, <3>2 DEF Write, HoldsOK, NoHold
    <3>4. cmd.from \in Touched(cmd) BY <3>2 DEF Touched, Holder
    <3> QED BY <2>6, <3>1, <3>2, <3>3, <3>4
  <2> QED BY <2>7, <2>8 DEF Stands
<1>2. CASE \E S \in SUBSET Refs : GiveUp(S)
  <2>1. PICK S \in SUBSET Refs : GiveUp(S) BY <1>2
  <2>2. Expired(S, Look(Holders(S))) /\ \A r \in S : auth[r].st = "active" BY <2>1 DEF GiveUp
  <2>3. row'[a].balance = row[a].balance /\ row'[a].limit = row[a].limit
    <3>1. CASE a \in Holders(S)
      <4> DEFINE old == Look(Holders(S))[a]
      <4>1. row'[a] = [old EXCEPT !.inFlight = @ - HeldBy(a, S)] BY <2>2, <3>1 DEF Expired
      <4>2. old = row[a] BY <3>1 DEF Look
      <4> HIDE DEF old
      <4> QED BY <4>1, <4>2
    <3>2. CASE a \notin Holders(S) BY <2>2, <3>2 DEF Expired
    <3> QED BY <3>1, <3>2
  <2>4. \A r \in Refs : auth[r].st = "none" => auth'[r] = auth[r] BY <2>2 DEF Expired
  <2> QED BY <2>3, <2>4 DEF Stands
<1>3. CASE \E r \in Refs : TimePasses(r) BY <1>3 DEF TimePasses, Stands
<1>4. CASE UNCHANGED tables BY <1>4 DEF tables, Stands
<1> QED BY <1>1, <1>2, <1>3, <1>4 DEF Next

(* No balance and no line of a frozen account changes, and nothing new is  *)
(* held of it, by a call that began before or after it was frozen.         *)
THEOREM FrozenAccountStands ==
  ASSUME WalletAssumption, KernelAssumption
  PROVE  KSpec => FrozenStands
<1>1. KInit => KInv BY KernelInit
<1>2. KInv /\ [KNext]_vars => KInv' BY KernelStep
<1>3. KInv /\ [KNext]_vars => \A a \in Accounts : Stands(a) BY KernelStep, AtomicStands DEF KInv
<1> DEFINE All == \A a \in Accounts : Stands(a)
<1>4. KInv /\ [KNext]_vars => [All]_vars BY <1>3
<1>5. [][All]_vars => FrozenStands BY DEF FrozenStands, Stands
<1> HIDE DEF All
<1> QED BY <1>1, <1>2, <1>4, <1>5, PTL DEF KSpec

-----------------------------------------------------------------------------
(* The legs of a posting cancel.                                           *)

(* An entry's rows are numbers; a limit is never negative.                 *)
RowsOK == row \in [Accounts -> [balance : Int, inFlight : Int, limit : Nat, frozen : BOOLEAN]]

ShardsOf == 0..Shards - 1

LEMMA ShardsFinite ==
  ASSUME WalletAssumption
  PROVE  IsFiniteSet(ShardsOf) /\ \A x : IsFiniteSet(RowsOf(x)) /\ IsFiniteSet({x} \X ShardsOf)
<1>1. IsFiniteSet(ShardsOf)
  BY FS_Interval DEF WalletAssumption, ShardsOf
<1>2. ASSUME NEW x PROVE IsFiniteSet({x} \X ShardsOf) /\ IsFiniteSet({x})
  BY <1>1, FS_Singleton, FS_Product
<1> QED
  BY <1>1, <1>2 DEF RowsOf, ShardsOf

(* The shards are numbered from any first of them, each number once.       *)
LEMMA Places ==
  ASSUME WalletAssumption, NEW first \in ShardsOf
  PROVE  /\ \A s \in ShardsOf : Place(s, first) \in ShardsOf
         /\ \A s, t \in ShardsOf : Place(s, first) = Place(t, first) => s = t
         /\ \A m \in ShardsOf : \E s \in ShardsOf : Place(s, first) = m
<1>1. \A s \in ShardsOf : Place(s, first) \in ShardsOf
  BY DEF WalletAssumption, ShardsOf, Place
<1>2. \A s, t \in ShardsOf : Place(s, first) = Place(t, first) => s = t
  BY DEF WalletAssumption, ShardsOf, Place
<1>3. ASSUME NEW m \in ShardsOf PROVE \E s \in ShardsOf : Place(s, first) = m
  <2> DEFINE s == IF m + first < Shards THEN m + first ELSE m + first - Shards
  <2>1. s \in ShardsOf /\ Place(s, first) = m
    BY DEF WalletAssumption, ShardsOf, Place
  <2> QED
    BY <2>1
<1> QED
  BY <1>1, <1>2, <1>3

(* What a transfer takes from the shards, one after the other, is its      *)
(* amount or all that there is.                                            *)
Takes(spare, amount, first) ==
  [s \in ShardsOf |-> Least(spare[s], Positive(amount - SumFunctionOnSet(spare, Ahead(s, first))))]

LEMMA TakesAddUp ==
  ASSUME WalletAssumption, NEW first \in ShardsOf, NEW amount \in Nat, NEW spare \in [ShardsOf -> Nat]
  PROVE  /\ Takes(spare, amount, first) \in [ShardsOf -> Nat]
         /\ SumFunctionOnSet(Takes(spare, amount, first), ShardsOf)
              = Least(amount, SumFunctionOnSet(spare, ShardsOf))
<1> DEFINE d == Takes(spare, amount, first)
           F(m) == {t \in ShardsOf : Place(t, first) < m}
           Both(m) == SumFunctionOnSet(d, F(m)) = Least(amount, SumFunctionOnSet(spare, F(m)))
           K == {m \in Nat : m <= Shards => Both(m)}
<1>p. /\ \A s \in ShardsOf : Place(s, first) \in Nat /\ Place(s, first) < Shards
      /\ \A s, t \in ShardsOf : Place(s, first) = Place(t, first) => s = t
  <2>1. \A s \in ShardsOf : Place(s, first) \in ShardsOf
    BY Places
  <2>2. \A s, t \in ShardsOf : Place(s, first) = Place(t, first) => s = t
    BY Places
  <2>3. \A s \in ShardsOf : s \in Nat /\ s < Shards
    BY DEF ShardsOf, WalletAssumption
  <2> QED
    BY <2>1, <2>2, <2>3
<1>0. \A T \in SUBSET ShardsOf : IsFiniteSet(T)
  BY ShardsFinite, FS_Subset
<1>1. \A T \in SUBSET ShardsOf : SumFunctionOnSet(spare, T) \in Nat
  BY <1>0, SumNat
<1>2. d \in [ShardsOf -> Nat]
  <2>1. ASSUME NEW s \in ShardsOf PROVE d[s] \in Nat
    <3>1. Ahead(s, first) \in SUBSET ShardsOf
      BY DEF Ahead, ShardsOf
    <3>2. SumFunctionOnSet(spare, Ahead(s, first)) \in Nat
      BY <1>1, <3>1
    <3> QED
      BY <3>2 DEF Takes, Least, Positive
  <2> QED
    BY <2>1 DEF Takes
<1>3. 0 \in K
  <2>1. F(0) = {}
    BY <1>p
  <2>2. SumFunctionOnSet(d, {}) = 0 /\ SumFunctionOnSet(spare, {}) = 0
    BY SumEmpty
  <2>3. Least(amount, 0) = 0
    BY DEF Least
  <2>4. Both(0)
    BY <2>1, <2>2, <2>3
  <2> QED
    BY <2>4
<1>4. ASSUME NEW m \in K PROVE m + 1 \in K
  <2> SUFFICES ASSUME m + 1 <= Shards PROVE Both(m + 1)
    BY <1>4
  <2>1. m \in ShardsOf /\ Both(m)
    BY <1>4 DEF WalletAssumption, ShardsOf
  <2>2. PICK s \in ShardsOf : Place(s, first) = m
    BY <2>1, Places
  <2>3. F(m + 1) = F(m) \cup {s} /\ s \notin F(m) /\ F(m) = Ahead(s, first) /\ F(m) \in SUBSET ShardsOf
    <3>2. \A t \in ShardsOf : Place(t, first) < m + 1 <=> Place(t, first) < m \/ t = s
      BY <1>4, <2>2, <1>p
    <3> QED
      BY <2>2, <3>2 DEF Ahead, ShardsOf
  <2> DEFINE G == F(m)
  <2>4. IsFiniteSet(G) /\ s \notin G /\ (\A t \in G \cup {s} : spare[t] \in Int /\ d[t] \in Int)
    BY <1>0, <1>2, <2>3
  <2>5. d[s] = Least(spare[s], Positive(amount - SumFunctionOnSet(spare, G)))
    BY <2>3 DEF Takes
  <2>6. SumFunctionOnSet(d, G) = Least(amount, SumFunctionOnSet(spare, G))
    BY <2>1
  <2>7. SumFunctionOnSet(spare, G) \in Nat /\ spare[s] \in Nat
    BY <1>1, <2>3
  <2> HIDE DEF G, d
  <2>8. SumFunctionOnSet(spare, G \cup {s}) = SumFunctionOnSet(spare, G) + spare[s]
    BY <2>4, SumAdd
  <2>9. SumFunctionOnSet(d, G \cup {s}) = SumFunctionOnSet(d, G) + d[s]
    BY <2>4, SumAdd
  <2>10. SumFunctionOnSet(d, G \cup {s}) = Least(amount, SumFunctionOnSet(spare, G \cup {s}))
    BY <2>5, <2>6, <2>7, <2>8, <2>9 DEF Least, Positive
  <2> QED
    BY <2>3, <2>10 DEF G
<1>5. K = Nat
  <2> HIDE DEF K
  <2>1. K \in SUBSET Nat
    BY DEF K
  <2> QED
    BY <1>3, <1>4, <2>1, NatInduct
<1>6. F(Shards) = ShardsOf
  BY <1>p
<1> HIDE DEF d, F
<1>7. Both(Shards)
  BY <1>5 DEF WalletAssumption
<1> QED
  BY <1>2, <1>6, <1>7 DEF d

(* The rows of a command are finitely many accounts, and what the rows of  *)
(* two accounts are.                                                       *)
LEMMA RowsOfTwo ==
  ASSUME WalletAssumption, NEW x \in Users \cup Codes, NEW y \in Users \cup Codes, x # y
  PROVE  RowsOf(x) \cap RowsOf(y) = {}
<1>1. CASE x \in Users /\ y \in Users
  BY <1>1 DEF RowsOf
<1>2. CASE x \in Users /\ y \in Codes
  BY <1>2 DEF RowsOf, WalletAssumption, Internal
<1>3. CASE x \in Codes /\ y \in Users
  BY <1>3 DEF RowsOf, WalletAssumption, Internal
<1>4. CASE x \in Codes /\ y \in Codes
  BY <1>4 DEF RowsOf, WalletAssumption
<1> QED
  BY <1>1, <1>2, <1>3, <1>4

(* The row picked of an owner is one of his rows.                          *)
LEMMA OneOfRows ==
  ASSUME WalletAssumption, NEW x \in Users \cup Codes, NEW ref \in Refs
  PROVE  OneRow(x, ref) \in RowsOf(x) /\ RowsOf(x) \subseteq Accounts /\ ShardOf[ref] \in ShardsOf
BY DEF OneRow, RowsOf, WalletAssumption, Accounts, Internal, ShardsOf

(* A command moves finitely many accounts.                                 *)
LEMMA TouchedFinite ==
  ASSUME WalletAssumption, NEW cmd \in Commands
  PROVE  /\ IsFiniteSet(Touched(cmd)) /\ IsFiniteSet(Recorded(cmd)) /\ Recorded(cmd) \subseteq Touched(cmd)
<1>1. ASSUME NEW x, NEW y PROVE IsFiniteSet({x}) /\ IsFiniteSet({x, y})
  <2>1. IsFiniteSet({x}) /\ IsFiniteSet({x} \cup {y})
    BY FS_Singleton, FS_AddElement
  <2>2. {x} \cup {y} = {x, y}
    OBVIOUS
  <2> QED
    BY <2>1, <2>2
<1>2. \A x, y : IsFiniteSet(RowsOf(x)) /\ IsFiniteSet(RowsOf(x) \cup RowsOf(y))
  BY ShardsFinite, FS_Union
<1>3. IsFiniteSet(Touched(cmd))
  BY <1>1, <1>2 DEF Touched
<1>4. CASE cmd.verb = "freeze" /\ cmd.from \in Codes
  <2>1. <<cmd.from, 0>> \in Touched(cmd)
    BY <1>4 DEF Touched, RowsOf, WalletAssumption
  <2>2. Recorded(cmd) = {<<cmd.from, 0>>}
    BY <1>4 DEF Recorded
  <2> QED
    BY <1>1, <1>3, <2>1, <2>2
<1>5. CASE ~(cmd.verb = "freeze" /\ cmd.from \in Codes)
  BY <1>3, <1>5 DEF Recorded
<1> QED
  BY <1>4, <1>5

(* What leaves an account by a transfer.                                   *)
LEMMA DebitsAddUp ==
  ASSUME WalletAssumption, RowsOK, NEW cmd \in Commands, cmd.verb = "transfer", NEW rows,
         \A a \in RowsOf(cmd.from) : rows[a] = row[a], Covered(cmd, rows)
  PROVE  /\ \A a \in RowsOf(cmd.from) : Debit(cmd, rows, a) \in Nat
         /\ SumFunctionOnSet([a \in RowsOf(cmd.from) |-> -Debit(cmd, rows, a)], RowsOf(cmd.from)) = -cmd.amount
<1> DEFINE out == [a \in RowsOf(cmd.from) |-> -Debit(cmd, rows, a)]
<1>1. cmd.from \in Users \cup Codes /\ cmd.amount \in Nat /\ cmd.ref \in Refs
  BY DEF WalletAssumption
<1>2. CASE cmd.from \in Users
  <2>1. RowsOf(cmd.from) = {cmd.from} /\ Debit(cmd, rows, cmd.from) = cmd.amount
    BY <1>2 DEF RowsOf, Debit
  <2>2. out[cmd.from] = -cmd.amount
    BY <2>1
  <2>4. out[cmd.from] \in Int
    BY <1>1, <2>2
  <2> HIDE DEF out
  <2>3. SumFunctionOnSet(out, {cmd.from}) = -cmd.amount
    BY <2>2, <2>4, SumSingle
  <2> QED
    BY <1>1, <2>1, <2>3 DEF out
<1>3. CASE cmd.from \notin Users
  <2> DEFINE first == ShardOf[cmd.ref]
             spare == [s \in ShardsOf |-> Positive(rows[<<cmd.from, s>>].balance)]
             kept == [s \in ShardsOf |-> rows[<<cmd.from, s>>].balance]
             d == Takes(spare, cmd.amount, first)
             g == [s \in ShardsOf |-> <<cmd.from, s>>]
             e == [s \in ShardsOf |-> -d[s]]
  <2>1. cmd.from \in Codes /\ RowsOf(cmd.from) = {cmd.from} \X ShardsOf /\ first \in ShardsOf
    BY <1>1, <1>3, OneOfRows DEF RowsOf, ShardsOf
  <2>2. RowsOf(cmd.from) = {g[s] : s \in ShardsOf}
    BY <2>1
  <2>3. \A s \in ShardsOf : rows[<<cmd.from, s>>].balance \in Int
    <3>1. \A s \in ShardsOf : <<cmd.from, s>> \in RowsOf(cmd.from) /\ <<cmd.from, s>> \in Accounts
      BY <1>1, <2>1, OneOfRows
    <3> QED
      BY <3>1 DEF RowsOK
  <2>4. /\ spare \in [ShardsOf -> Nat] /\ kept \in [ShardsOf -> Int]
        /\ \A s \in ShardsOf : kept[s] <= spare[s]
    BY <2>3 DEF Positive
  <2>5. SumFunctionOnSet(kept, ShardsOf) <= SumFunctionOnSet(spare, ShardsOf)
        /\ SumFunctionOnSet(spare, ShardsOf) \in Nat /\ SumFunctionOnSet(kept, ShardsOf) \in Int
    <3> HIDE DEF spare, kept
    <3> QED
      BY <2>4, ShardsFinite, SumMonotone, SumNat, SumType
  <2>6. \A s, t \in ShardsOf : g[s] = g[t] => s = t
    OBVIOUS
  <2>7. SumFunctionOnSet(kept, ShardsOf) = TotalOf(rows, cmd.from)
    <3> DEFINE f == [a \in RowsOf(cmd.from) |-> rows[a].balance]
    <3>1. \A s \in ShardsOf : kept[s] = f[g[s]] /\ kept[s] \in Int
      BY <2>2, <2>4
    <3> HIDE DEF kept, g, f
    <3>2. SumFunctionOnSet(f, {g[s] : s \in ShardsOf}) = SumFunctionOnSet(kept, ShardsOf)
      BY <3>1, <2>6, ShardsFinite, SumImage
    <3>3. TotalOf(rows, cmd.from) = SumFunctionOnSet(f, RowsOf(cmd.from))
      BY DEF TotalOf, SumFunction, FoldFunction, SumFunctionOnSet, f
    <3> QED
      BY <2>2, <3>2, <3>3
  <2>8. TotalOf(rows, cmd.from) >= cmd.amount
    BY <1>3 DEF Covered
  <2>9. d \in [ShardsOf -> Nat] /\ SumFunctionOnSet(d, ShardsOf) = cmd.amount
    <3>1. d \in [ShardsOf -> Nat] /\ SumFunctionOnSet(d, ShardsOf) = Least(cmd.amount, SumFunctionOnSet(spare, ShardsOf))
      <4> HIDE DEF spare
      <4> QED
        BY <1>1, <2>1, <2>4, TakesAddUp
    <3> HIDE DEF d, spare, kept
    <3> QED
      BY <1>1, <2>5, <2>7, <2>8, <3>1 DEF Least
  <2>10. \A s \in ShardsOf : Debit(cmd, rows, <<cmd.from, s>>) = d[s]
    BY <1>1, <2>1 DEF Debit, Takes, ShardsOf, WalletAssumption, Internal
  <2>11. \A s \in ShardsOf : e[s] = out[g[s]] /\ e[s] \in Int
    BY <2>1, <2>9, <2>10
  <2>12. SumFunctionOnSet(out, RowsOf(cmd.from)) = SumFunctionOnSet(e, ShardsOf)
    <3> HIDE DEF e, g, out
    <3>1. SumFunctionOnSet(out, {g[s] : s \in ShardsOf}) = SumFunctionOnSet(e, ShardsOf)
      BY <2>6, <2>11, ShardsFinite, SumImage
    <3> QED
      BY <2>2, <3>1
  <2>13. SumFunctionOnSet(e, ShardsOf) = -SumFunctionOnSet(d, ShardsOf)
    <3> HIDE DEF d
    <3>1. IsFiniteSet(ShardsOf) /\ \A s \in ShardsOf : d[s] \in Int /\ e[s] = -d[s]
      BY <2>9, ShardsFinite
    <3> HIDE DEF e
    <3> QED
      BY <3>1, SumNegated
  <2> QED
    BY <2>1, <2>9, <2>10, <2>12, <2>13
<1> QED
  BY <1>2, <1>3

(* The debits and credits of every posting cancel.                         *)
LEMMA LegsCancel ==
  ASSUME WalletAssumption, RowsOK, NEW cmd \in Commands, cmd.verb \in Postings, NEW rows,
         \A a \in Touched(cmd) : rows[a] = row[a],
         cmd.verb = "settle" => Holder(cmd) \in Users, Covered(cmd, rows)
  PROVE  /\ \A a \in Touched(cmd) : Moves(cmd, rows, a) \in Int
         /\ SumFunctionOnSet([a \in Recorded(cmd) |-> Moves(cmd, rows, a)], Recorded(cmd)) = 0
<1> DEFINE m == [a \in Recorded(cmd) |-> Moves(cmd, rows, a)]
<1>1. cmd.amount \in Nat /\ cmd.ref \in Refs
  BY DEF WalletAssumption
<1>2. CASE cmd.verb \in Audits
  <2>1. \A a \in Recorded(cmd) : m[a] = 0
    BY <1>2 DEF Moves
  <2> HIDE DEF m
  <2>2. SumFunctionOnSet(m, Recorded(cmd)) = 0
    BY <2>1, TouchedFinite, SumZero
  <2>3. \A a \in Touched(cmd) : Moves(cmd, rows, a) = 0
    BY <1>2 DEF Moves
  <2> QED
    BY <2>2, <2>3 DEF m
<1>3. CASE cmd.verb \in {"credit", "refund", "settle"}
  <2> DEFINE x == IF cmd.verb = "settle" THEN Holder(cmd) ELSE OneRow(cmd.from, cmd.ref)
             y == OneRow(cmd.to, cmd.ref)
  <2>1. Touched(cmd) = {x, y} /\ Recorded(cmd) = {x, y}
    BY <1>3 DEF Touched, Recorded
  <2>2. x # y
    BY <1>1, <1>3 DEF OneRow, WalletAssumption, Internal
  <2>3. Moves(cmd, rows, y) = cmd.amount /\ Moves(cmd, rows, x) = -cmd.amount
    BY <1>3, <2>2 DEF Moves, Audits
  <2>4. m[x] = -cmd.amount /\ m[y] = cmd.amount /\ m[x] \in Int /\ m[y] \in Int
    BY <1>1, <2>1, <2>3
  <2> HIDE DEF x, y, m
  <2>5. SumFunctionOnSet(m, {x, y}) = m[x] + m[y]
    BY <2>2, <2>4, SumPair
  <2> QED
    BY <1>1, <2>1, <2>3, <2>4, <2>5 DEF m
<1>4. CASE cmd.verb = "transfer"
  <2> DEFINE A == RowsOf(cmd.from)
             B == RowsOf(cmd.to)
             y == OneRow(cmd.to, cmd.ref)
             out == [a \in A |-> -Debit(cmd, rows, a)]
  <2>1. cmd.from \in Users \cup Codes /\ cmd.to \in Users \cup Codes /\ cmd.from # cmd.to
    BY <1>4 DEF WalletAssumption
  <2>2. Touched(cmd) = A \cup B /\ Recorded(cmd) = A \cup B
    BY <1>4 DEF Touched, Recorded
  <2>3. A \cap B = {} /\ y \in B
    BY <1>1, <2>1, RowsOfTwo, OneOfRows
  <2>4. (\A a \in A : Debit(cmd, rows, a) \in Nat) /\ SumFunctionOnSet(out, A) = -cmd.amount
    BY <1>4, <2>2, DebitsAddUp
  <2>5. /\ \A a \in A : Moves(cmd, rows, a) = -Debit(cmd, rows, a)
        /\ \A a \in B \ {y} : Moves(cmd, rows, a) = 0
        /\ Moves(cmd, rows, y) = cmd.amount
    BY <1>4, <2>3 DEF Moves, Audits
  <2>6. \A a \in A \cup B : Moves(cmd, rows, a) \in Int
    <3>1. \A a \in A : Moves(cmd, rows, a) \in Int
      BY <2>4, <2>5
    <3>2. \A a \in B : Moves(cmd, rows, a) \in Int
      BY <1>1, <2>5
    <3> QED
      BY <3>1, <3>2
  <2>7. IsFiniteSet(A) /\ IsFiniteSet(B) /\ IsFiniteSet(A \cup B) /\ (A \cup B) \ A = B
    BY <2>2, <2>3, ShardsFinite, TouchedFinite
  <2>8. (\A a \in A : m[a] = out[a]) /\ (\A a \in A \cup B : m[a] \in Int)
        /\ m[y] = cmd.amount /\ (\A a \in B \ {y} : m[a] = 0)
    BY <2>2, <2>3, <2>5, <2>6
  <2> HIDE DEF m, out, A, B, y
  <2>9. SumFunctionOnSet(m, A) = -cmd.amount
    BY <2>4, <2>7, <2>8, SumCongruent
  <2>10. SumFunctionOnSet(m, B) = cmd.amount
    BY <1>1, <2>3, <2>7, <2>8, SumOnly
  <2>11. SumFunctionOnSet(m, A \cup B) = SumFunctionOnSet(m, A) + SumFunctionOnSet(m, (A \cup B) \ A)
    BY <2>7, <2>8, SumParts
  <2>12. SumFunctionOnSet(m, Recorded(cmd)) = 0
    <3>1. SumFunctionOnSet(m, (A \cup B) \ A) = cmd.amount
      BY <2>7, <2>10
    <3>2. SumFunctionOnSet(m, A \cup B) = 0
      BY <1>1, <2>9, <2>11, <3>1
    <3> QED
      BY <2>2, <3>2
  <2> QED
    BY <2>2, <2>6, <2>12 DEF m
<1> QED
  BY <1>2, <1>3, <1>4 DEF Postings, Audits

-----------------------------------------------------------------------------
(* The invariant of the atomic wallet: the types, the books, and what is   *)
(* held of users is covered.                                               *)

Leg == [amount : Int, after : Int]
Entries == [cmd : Commands, legs : UNION {[S -> Leg] : S \in SUBSET Accounts}]
LedgerOK == ledger \in Seq(Entries) /\ \A i \in DOMAIN ledger : ledger[i].cmd.verb \in Postings

Active == {r \in Refs : auth[r].st = "active"}
Cancels(e) == SumFunction([a \in DOMAIN e.legs |-> e.legs[a].amount]) = 0
On(a) == {i \in DOMAIN ledger : a \in DOMAIN ledger[i].legs}
Moved(a) == SumFunction([i \in On(a) |-> ledger[i].legs[a].amount])
AccountOK(a) ==
  /\ row[a].balance = Start[a] + Moved(a)
  /\ On(a) # {} => row[a].balance = ledger[Max(On(a))].legs[a].after
  /\ row[a].inFlight = HeldBy(a, Active)

WInv ==
  /\ HoldsOK /\ RowsOK /\ LedgerOK /\ IsFiniteSet(Active)
  /\ \A i \in DOMAIN ledger : Cancels(ledger[i])
  /\ \A a \in Accounts : AccountOK(a)
  /\ NeverOverspent

(* The sum over a function is the sum over its domain.                     *)
LEMMA SumOfFunction == ASSUME NEW f PROVE SumFunction(f) = SumFunctionOnSet(f, DOMAIN f)
BY DEF SumFunction, FoldFunction, SumFunctionOnSet

(* The invariant says that the books are right.                            *)
LEMMA WInvIsBooks == ASSUME WInv PROVE Books
BY DEF WInv, Books, Cancels, AccountOK, On, Moved, Active

(* What an account holds by some of its holds is not negative.             *)
LEMMA HeldIsNat ==
  ASSUME HoldsOK, NEW S \in SUBSET Refs, IsFiniteSet(S), NEW u
  PROVE  HeldBy(u, S) \in Nat
<1> DEFINE f == [r \in Refs |-> auth[r].amount]
           T == {r \in S : auth[r].user = u}
<1>1. IsFiniteSet(T) /\ \A r \in T : f[r] \in Nat
  BY FS_Subset DEF HoldsOK, HoldType
<1> HIDE DEF f, T
<1>2. SumFunctionOnSet(f, T) \in Nat
  BY <1>1, SumNat
<1> QED
  BY <1>2 DEF HeldBy, f, T

(* A posting of a command of the package.                                  *)
LEMMA ApplyFacts ==
  ASSUME WalletAssumption, HoldsOK, RowsOK, NEW cmd \in Commands, Apply(cmd), NEW rows, rows = Look(Touched(cmd))
  PROVE  /\ Touched(cmd) \subseteq Accounts /\ \A a \in Touched(cmd) : rows[a] = row[a]
         /\ Endable(cmd) /\ Covered(cmd, rows) /\ Write(cmd, rows)
         /\ cmd.verb = "authorize" => auth[cmd.ref].st = "none"
         /\ cmd.verb \in {"settle", "release"} => auth[cmd.ref].st = "active" /\ Holder(cmd) \in Users
         /\ cmd.ref \in Refs /\ cmd.amount \in Nat /\ cmd.verb \in Verbs
         /\ HoldsOK'
<1>1. cmd.ref \in Refs /\ cmd.amount \in Nat /\ cmd.verb \in Verbs
  BY DEF WalletAssumption
<1>2. Endable(cmd) /\ Covered(cmd, rows) /\ Write(cmd, rows) /\ ~Taken(cmd)
  BY DEF Apply
<1>3. cmd.verb \in {"settle", "release"} => auth[cmd.ref].st = "active" /\ auth[cmd.ref].user \in Users
  BY <1>1, <1>2 DEF Endable, HoldsOK
<1>4. cmd.verb = "authorize" => auth[cmd.ref].st = "none"
  BY <1>2 DEF Taken
<1>5. Touched(cmd) \subseteq Accounts
  BY <1>3, TouchedIsAccounts
<1>6. HoldsOK'
  BY <1>2, <1>4, WriteFrame
<1>7. \A a \in Touched(cmd) : rows[a] = row[a]
  BY DEF Look
<1> QED
  BY <1>1, <1>2, <1>3, <1>4, <1>5, <1>6, <1>7 DEF Holder

(* What a command does to the numbers of an account.                       *)
LEMMA ApplyRows ==
  ASSUME WalletAssumption, HoldsOK, RowsOK, NEW cmd \in Commands, Apply(cmd), NEW rows, rows = Look(Touched(cmd))
  PROVE  /\ RowsOK'
         /\ \A a \in Accounts \ Touched(cmd) : row'[a] = row[a]
         /\ \A a \in Touched(cmd) :
              /\ row'[a].balance = row[a].balance + (IF cmd.verb \in Postings THEN Moves(cmd, rows, a) ELSE 0)
              /\ row'[a].inFlight = row[a].inFlight + (IF a = Holder(cmd) THEN Held(cmd) ELSE 0)
              /\ row'[a].limit = IF cmd.verb = "credit_line" THEN cmd.amount ELSE row[a].limit
         /\ cmd.verb \in Postings => \A a \in Touched(cmd) : Moves(cmd, rows, a) \in Int
         /\ Held(cmd) \in Int
<1>1. /\ Touched(cmd) \subseteq Accounts /\ \A a \in Touched(cmd) : rows[a] = row[a]
      /\ Endable(cmd) /\ Covered(cmd, rows) /\ Write(cmd, rows)
      /\ cmd.verb \in {"settle", "release"} => auth[cmd.ref].st = "active" /\ Holder(cmd) \in Users
      /\ cmd.ref \in Refs /\ cmd.amount \in Nat /\ cmd.verb \in Verbs
  BY ApplyFacts
<1>2. row' = [a \in Accounts |-> IF a \in Touched(cmd) THEN After(cmd, rows, a) ELSE row[a]]
  BY <1>1 DEF Write
<1>3. cmd.verb \in Postings => \A a \in Touched(cmd) : Moves(cmd, rows, a) \in Int
  BY <1>1, LegsCancel
<1>4. Held(cmd) \in Int
  <2>1. auth[cmd.ref].amount \in Nat
    BY <1>1 DEF HoldsOK, HoldType
  <2> QED
    BY <1>1, <2>1 DEF Held
<1>5. ASSUME NEW a \in Touched(cmd)
      PROVE  /\ row'[a].balance = row[a].balance + (IF cmd.verb \in Postings THEN Moves(cmd, rows, a) ELSE 0)
             /\ row'[a].inFlight = row[a].inFlight + (IF a = Holder(cmd) THEN Held(cmd) ELSE 0)
             /\ row'[a].limit = (IF cmd.verb = "credit_line" THEN cmd.amount ELSE row[a].limit)
             /\ row'[a] \in [balance : Int, inFlight : Int, limit : Nat, frozen : BOOLEAN]
  <2>1. row'[a] = After(cmd, rows, a) /\ rows[a] = row[a] /\ a \in Accounts
    BY <1>1, <1>2
  <2>2. row[a] \in [balance : Int, inFlight : Int, limit : Nat, frozen : BOOLEAN]
    BY <2>1 DEF RowsOK
  <2>3. cmd.verb \in Audits => Moves(cmd, rows, a) = 0
    BY DEF Moves
  <2>4. row'[a].balance = row[a].balance + (IF cmd.verb \in Postings THEN Moves(cmd, rows, a) ELSE 0)
    BY <1>3, <2>1, <2>2, <2>3 DEF After
  <2>5. row'[a].balance \in Int
    BY <1>3, <2>2, <2>4
  <2>6. /\ row'[a].inFlight = row[a].inFlight + (IF a = Holder(cmd) THEN Held(cmd) ELSE 0)
        /\ row'[a].limit = (IF cmd.verb = "credit_line" THEN cmd.amount ELSE row[a].limit)
        /\ row'[a].frozen = (IF cmd.verb = "freeze" THEN cmd.amount = 1 ELSE row[a].frozen)
    BY <1>4, <2>1, <2>2 DEF After
  <2>7. row'[a].frozen \in BOOLEAN
    BY <2>2, <2>6
  <2>8. row'[a] = [balance |-> row'[a].balance, inFlight |-> row'[a].inFlight, limit |-> row'[a].limit, frozen |-> row'[a].frozen]
    BY <2>1 DEF After
  <2>9. row'[a].inFlight \in Int /\ row'[a].limit \in Nat
    BY <1>1, <1>4, <2>2, <2>6
  <2> DEFINE b == row'[a].balance
             f == row'[a].inFlight
             l == row'[a].limit
             z == row'[a].frozen
  <2>10. row'[a] \in [balance : Int, inFlight : Int, limit : Nat, frozen : BOOLEAN]
    <3>1. row'[a] = [balance |-> b, inFlight |-> f, limit |-> l, frozen |-> z]
      BY <2>8
    <3>2. b \in Int /\ f \in Int /\ l \in Nat /\ z \in BOOLEAN
      BY <2>5, <2>7, <2>9
    <3> HIDE DEF b, f, l, z
    <3> QED
      BY <3>1, <3>2
  <2> QED
    BY <2>4, <2>6, <2>10
<1>6. \A a \in Accounts \ Touched(cmd) : row'[a] = row[a]
  BY <1>2
<1>7. RowsOK'
  <2>1. \A a \in Accounts : row'[a] \in [balance : Int, inFlight : Int, limit : Nat, frozen : BOOLEAN]
    BY <1>5, <1>6 DEF RowsOK
  <2>2. DOMAIN row' = Accounts /\ row' = [a \in Accounts |-> row'[a]]
    BY <1>2
  <2> QED
    BY <2>1, <2>2 DEF RowsOK
<1> QED
  BY <1>3, <1>4, <1>5, <1>6, <1>7

(* What is held of an account changes by what the command holds of it.     *)
LEMMA ApplyHeld ==
  ASSUME WalletAssumption, HoldsOK, RowsOK, IsFiniteSet(Active), NEW cmd \in Commands, Apply(cmd), NEW a \in Accounts
  PROVE  /\ IsFiniteSet(Active)' /\ HeldBy(a, Active) \in Nat
         /\ HeldBy(a, Active)' = HeldBy(a, Active) + (IF a \in Touched(cmd) /\ a = Holder(cmd) THEN Held(cmd) ELSE 0)
<1> DEFINE rows == Look(Touched(cmd))
           ref == cmd.ref
           f == [r \in Refs |-> auth[r].amount]
           g == [r \in Refs |-> auth'[r].amount]
           T == {r \in Active : auth[r].user = a}
           U == {r \in Active' : auth'[r].user = a}
           d == IF a \in Touched(cmd) /\ a = Holder(cmd) THEN Held(cmd) ELSE 0
<1>1. /\ Write(cmd, rows) /\ Endable(cmd) /\ HoldsOK' /\ ref \in Refs /\ cmd.amount \in Nat /\ cmd.verb \in Verbs
      /\ cmd.verb = "authorize" => auth[ref].st = "none"
      /\ cmd.verb \in {"settle", "release"} => auth[ref].st = "active" /\ Holder(cmd) \in Users
  BY ApplyFacts
<1>2. HeldBy(a, Active) = SumFunctionOnSet(f, T) /\ HeldBy(a, Active)' = SumFunctionOnSet(g, U)
  BY DEF HeldBy
<1>3. T \in SUBSET Refs /\ IsFiniteSet(T) /\ (\A r \in T : f[r] \in Nat) /\ SumFunctionOnSet(f, T) \in Nat
  <2>1. T \in SUBSET Active
    OBVIOUS
  <2>2. Active \in SUBSET Refs
    BY DEF Active
  <2>3. IsFiniteSet(T) /\ \A r \in T : f[r] \in Nat
    BY <2>1, <2>2, FS_Subset DEF HoldsOK, HoldType
  <2> HIDE DEF f, T
  <2> QED
    BY <2>1, <2>2, <2>3, SumNat
<1>4. \A r \in Refs : r # ref => auth'[r] = auth[r]
  BY <1>1, WriteFrame
<1>5. CASE cmd.verb = "authorize"
  <2>1. auth'[ref].st = "active" /\ auth'[ref].user = cmd.from /\ auth'[ref].amount = cmd.amount
    BY <1>1, <1>5 DEF Write, HoldsOK, NoHold
  <2>2. Active' = Active \cup {ref} /\ ref \notin Active
    BY <1>1, <1>4, <1>5, <2>1 DEF Active
  <2>3. IsFiniteSet(Active)'
    BY <2>2, FS_AddElement
  <2>4. d = IF a = cmd.from THEN cmd.amount ELSE 0
    BY <1>5 DEF Holder, Held, Touched
  <2>5. \A r \in T : f[r] = g[r]
    BY <1>3, <1>4, <2>2
  <2>6. SumFunctionOnSet(g, T) = SumFunctionOnSet(f, T)
    <3> HIDE DEF f, g, T
    <3> QED
      BY <1>3, <2>5, SumCongruent
  <2>7. CASE a = cmd.from
    <3>1. U = T \cup {ref} /\ ref \notin T /\ g[ref] = cmd.amount
      BY <1>1, <1>4, <2>1, <2>2, <2>7 DEF Active
    <3> HIDE DEF f, g, T, U
    <3>2. \A r \in T \cup {ref} : g[r] \in Int
      <4>1. \A r \in T : g[r] \in Int
        BY <1>3, <2>5
      <4> QED
        BY <1>1, <3>1, <4>1
    <3>3. SumFunctionOnSet(g, T \cup {ref}) = SumFunctionOnSet(g, T) + g[ref]
      BY <1>3, <3>1, <3>2, SumAdd
    <3> QED
      BY <1>2, <1>3, <2>3, <2>4, <2>6, <2>7, <3>1, <3>3
  <2>8. CASE a # cmd.from
    <3>1. U = T
      BY <1>4, <2>1, <2>2, <2>8 DEF Active
    <3> HIDE DEF f, g, T, U
    <3> QED
      BY <1>2, <1>3, <2>3, <2>4, <2>6, <2>8, <3>1
  <2> QED
    BY <2>7, <2>8
<1>6. CASE cmd.verb \in {"settle", "release"}
  <2>1. auth'[ref].st \in {"settled", "released"} /\ auth'[ref].amount = auth[ref].amount
        /\ auth'[ref].user = auth[ref].user
    <3>1. auth[ref] \in HoldType
      BY <1>1 DEF HoldsOK
    <3> QED
      BY <1>1, <1>6, <3>1 DEF Write, HoldsOK, HoldType
  <2>2. Active' = Active \ {ref} /\ ref \in Active
    BY <1>1, <1>4, <1>6, <2>1 DEF Active
  <2>3. IsFiniteSet(Active)'
    BY <2>2, FS_RemoveElement
  <2>4. d = IF a = auth[ref].user THEN -auth[ref].amount ELSE 0
    BY <1>6 DEF Holder, Held, Touched
  <2>5. \A r \in T : f[r] = g[r]
    BY <1>1, <1>3, <1>4, <2>1
  <2>6. U = T \ {ref} /\ U \in SUBSET T /\ IsFiniteSet(U)
    <3>1. U = T \ {ref}
      BY <1>4, <2>2 DEF Active
    <3> QED
      BY <1>3, <3>1, FS_Subset
  <2>7. SumFunctionOnSet(g, U) = SumFunctionOnSet(f, U)
    <3> HIDE DEF f, g, T, U
    <3> QED
      BY <2>5, <2>6, SumCongruent
  <2>8. CASE a = auth[ref].user
    <3>0. ref \in T /\ f[ref] = auth[ref].amount
      BY <1>1, <2>2, <2>8
    <3> HIDE DEF f, g, T, U
    <3>1. ref \in T /\ f[ref] = auth[ref].amount /\ \A r \in T : f[r] \in Int
      BY <1>3, <3>0
    <3>2. SumFunctionOnSet(f, T) = f[ref] + SumFunctionOnSet(f, T \ {ref})
      BY <1>3, <3>1, SumSplit
    <3>3. SumFunctionOnSet(f, T \ {ref}) \in Int
      <4>1. \A r \in T \ {ref} : f[r] \in Int
        BY <3>1
      <4> QED
        BY <2>6, <4>1, SumType
    <3>4. f[ref] \in Int
      BY <3>1
    <3>5. SumFunctionOnSet(g, U) = SumFunctionOnSet(f, T) - f[ref]
      BY <2>6, <2>7, <3>2, <3>3, <3>4
    <3> QED
      BY <1>2, <1>3, <2>3, <2>4, <2>8, <3>1, <3>4, <3>5
  <2>9. CASE a # auth[ref].user
    <3>1. U = T
      BY <2>6, <2>9
    <3> HIDE DEF f, g, T, U
    <3> QED
      BY <1>2, <1>3, <2>3, <2>4, <2>7, <2>9, <3>1
  <2> QED
    BY <2>8, <2>9
<1>7. CASE cmd.verb \notin {"authorize", "settle", "release"}
  <2>1. auth' = auth
    BY <1>1, <1>7 DEF Write, HoldsOK
  <2>2. Active' = Active /\ d = 0
    BY <1>7, <2>1 DEF Active, Held
  <2>3. g = f /\ U = T
    BY <2>1, <2>2
  <2> HIDE DEF f, g, T, U
  <2> QED
    BY <1>2, <1>3, <2>2, <2>3
<1> QED
  BY <1>5, <1>6, <1>7

(* One entry more.                                                         *)
LEMMA Appended ==
  ASSUME NEW X, NEW s \in Seq(X), NEW e \in X, NEW t, t = Append(s, e)
  PROVE  /\ t \in Seq(X) /\ Len(t) = Len(s) + 1 /\ DOMAIN t = DOMAIN s \cup {Len(s) + 1}
         /\ Len(s) + 1 \notin DOMAIN s /\ (\A i \in DOMAIN s : i \in Nat /\ i <= Len(s) /\ t[i] = s[i])
         /\ t[Len(s) + 1] = e /\ Len(s) \in Nat
OBVIOUS

(* The entries that move an account are finitely many.                     *)
LEMMA IndicesFinite == ASSUME LedgerOK, NEW a PROVE IsFiniteSet(On(a))
<1>1. DOMAIN ledger = 1..Len(ledger) /\ Len(ledger) \in Nat
  BY DEF LedgerOK
<1>2. IsFiniteSet(DOMAIN ledger)
  BY <1>1, FS_Interval
<1> QED
  BY <1>2, FS_Subset DEF On

(* What was moved of an account is a number.                               *)
LEMMA MovedIsInt == ASSUME LedgerOK, NEW a PROVE Moved(a) \in Int
<1> DEFINE f == [i \in On(a) |-> ledger[i].legs[a].amount]
<1>1. \A i \in On(a) : f[i] \in Int
  <2> TAKE i \in On(a)
  <2>1. ledger[i] \in Entries /\ a \in DOMAIN ledger[i].legs
    BY DEF On, LedgerOK
  <2> QED
    BY <2>1 DEF Entries, Leg
<1>2. Moved(a) = SumFunctionOnSet(f, On(a))
  BY SumOfFunction DEF Moved
<1> HIDE DEF f
<1> QED
  BY <1>1, <1>2, IndicesFinite, SumType

(* The last entry of a set of entries that a later one joins.              *)
LEMMA LastOne ==
  ASSUME NEW S \in SUBSET Nat, NEW n \in Nat, \A i \in S : i < n
  PROVE  Max(S \cup {n}) = n
<1> DEFINE M == S \cup {n}
<1>1. n \in M /\ \A y \in M : n >= y
  OBVIOUS
<1>2. \A m \in M : (\A y \in M : m >= y) => m = n
  BY <1>1
<1> HIDE DEF M
<1>3. Max(M) = CHOOSE x \in M : \A y \in M : x >= y
  BY DEF Max
<1>4. (CHOOSE x \in M : \A y \in M : x >= y) \in M /\ \A y \in M : (CHOOSE x \in M : \A y2 \in M : x >= y2) >= y
  BY <1>1, Zenon
<1> QED
  BY <1>2, <1>3, <1>4 DEF M

(* A finite set of numbers has a last one.                                 *)
LEMMA HasLast ==
  ASSUME NEW S \in SUBSET Nat, IsFiniteSet(S), S # {}
  PROVE  Max(S) \in S
<1> DEFINE K == {n \in Nat : \A T \in SUBSET S : Cardinality(T) = n /\ T # {} => \E x \in T : \A y \in T : x >= y}
<1>1. 0 \in K
  BY FS_Subset, FS_EmptySet
<1>2. ASSUME NEW n \in K PROVE n + 1 \in K
  <2> SUFFICES ASSUME NEW T \in SUBSET S, Cardinality(T) = n + 1, T # {}
               PROVE  \E x \in T : \A y \in T : x >= y
    BY <1>2
  <2>1. IsFiniteSet(T) /\ n \in Nat
    BY <1>2, FS_Subset
  <2>2. PICK z : z \in T
    OBVIOUS
  <2>3. Cardinality(T \ {z}) = n
    BY <2>1, <2>2, CardRemove
  <2>4. CASE T \ {z} = {}
    BY <2>2, <2>4
  <2>5. CASE T \ {z} # {}
    <3>1. PICK x \in T \ {z} : \A y \in T \ {z} : x >= y
      BY <1>2, <2>3, <2>5
    <3>2. CASE z >= x
      BY <2>2, <3>1, <3>2
    <3>3. CASE ~(z >= x)
      BY <2>2, <3>1, <3>3
    <3> QED
      BY <3>2, <3>3
  <2> QED
    BY <2>4, <2>5
<1>3. K = Nat
  <2> HIDE DEF K
  <2>1. K \in SUBSET Nat
    BY DEF K
  <2> QED
    BY <1>1, <1>2, <2>1, NatInduct
<1>4. \E x \in S : \A y \in S : x >= y
  BY <1>3, FS_CardinalityType
<1> QED
  BY <1>4 DEF Max

(* The books after a command.                                              *)
LEMMA ApplyLedger ==
  ASSUME WalletAssumption, WInv, NEW cmd \in Commands, Apply(cmd)
  PROVE  /\ LedgerOK' /\ (\A i \in DOMAIN ledger' : Cancels(ledger'[i]))
         /\ \A a \in Accounts :
              /\ row'[a].balance = Start[a] + Moved(a)'
              /\ On(a)' # {} => row'[a].balance = ledger'[Max(On(a)')].legs[a].after
<1> DEFINE rows == Look(Touched(cmd))
<1>1. /\ Touched(cmd) \subseteq Accounts /\ (\A a \in Touched(cmd) : rows[a] = row[a])
      /\ Covered(cmd, rows) /\ Write(cmd, rows)
      /\ (cmd.verb \in {"settle", "release"} => Holder(cmd) \in Users)
      /\ cmd.verb \in Verbs
  BY ApplyFacts DEF WInv
<1>2. /\ RowsOK' /\ (\A a \in Accounts \ Touched(cmd) : row'[a] = row[a])
      /\ \A a \in Touched(cmd) :
           row'[a].balance = row[a].balance + (IF cmd.verb \in Postings THEN Moves(cmd, rows, a) ELSE 0)
      /\ (cmd.verb \in Postings => \A a \in Touched(cmd) : Moves(cmd, rows, a) \in Int)
  BY ApplyRows DEF WInv
<1>3. \A a \in Accounts : row[a].balance \in Int /\ Moved(a) \in Int /\ Start[a] \in Int
                          /\ AccountOK(a) /\ IsFiniteSet(On(a))
  BY MovedIsInt, IndicesFinite DEF WInv, RowsOK, WalletAssumption
<1>4. LedgerOK /\ \A i \in DOMAIN ledger : Cancels(ledger[i])
  BY DEF WInv
<1>5. CASE cmd.verb \notin Postings
  <2>1. ledger' = ledger
    BY <1>1, <1>5 DEF Write
  <2>2. \A a \in Accounts : row'[a].balance = row[a].balance
    BY <1>2, <1>3, <1>5
  <2>3. \A a \in Accounts : On(a)' = On(a) /\ Moved(a)' = Moved(a)
    BY <2>1 DEF On, Moved
  <2>4. LedgerOK'
    BY <1>4, <2>1 DEF LedgerOK, Entries, Leg
  <2>5. \A i \in DOMAIN ledger' : Cancels(ledger'[i])
    BY <1>4, <2>1
  <2> QED
    BY <1>3, <2>1, <2>2, <2>3, <2>4, <2>5 DEF AccountOK
<1>6. CASE cmd.verb \in Postings
  <2> DEFINE legs == Legs(cmd, rows)
             e == [cmd |-> cmd, legs |-> legs]
             n == Len(ledger) + 1
  <2>1. ledger' = Append(ledger, e)
    BY <1>1, <1>6 DEF Write
  <2>2. Recorded(cmd) \subseteq Touched(cmd)
    BY TouchedFinite
  <2>3. /\ DOMAIN legs = Recorded(cmd)
        /\ \A a \in Recorded(cmd) : legs[a].amount = Moves(cmd, rows, a)
                                    /\ legs[a].after = row[a].balance + Moves(cmd, rows, a)
    BY <1>1, <2>2 DEF Legs
  <2>4. legs \in [Recorded(cmd) -> Leg]
    <3>1. \A a \in Recorded(cmd) : row[a].balance \in Int /\ Moves(cmd, rows, a) \in Int /\ rows[a] = row[a]
      BY <1>1, <1>2, <1>3, <1>6, <2>2
    <3> QED
      BY <3>1 DEF Legs, Leg
  <2>5. e \in Entries
    <3>1. legs \in UNION {[S -> Leg] : S \in SUBSET Accounts}
      <4>1. Recorded(cmd) \in SUBSET Accounts
        BY <1>1, <2>2
      <4> HIDE DEF legs
      <4> QED
        BY <2>4, <4>1
    <3> HIDE DEF legs
    <3> QED
      BY <3>1 DEF Entries
  <2>6. Cancels(e)
    <3> DEFINE m == [a \in Recorded(cmd) |-> Moves(cmd, rows, a)]
    <3>1. SumFunctionOnSet(m, Recorded(cmd)) = 0
      BY <1>1, <1>6, LegsCancel DEF WInv
    <3>2. [a \in DOMAIN legs |-> legs[a].amount] = m
      BY <2>3
    <3>3. e.legs = legs /\ DOMAIN m = Recorded(cmd)
      OBVIOUS
    <3> HIDE DEF m, e, legs
    <3> QED
      BY <3>1, <3>2, <3>3, SumOfFunction DEF Cancels
  <2>7. e.cmd = cmd /\ e.legs = legs
    OBVIOUS
  <2> HIDE DEF e, legs
  <2>8. /\ ledger' \in Seq(Entries) /\ DOMAIN ledger' = DOMAIN ledger \cup {n}
        /\ n \notin DOMAIN ledger /\ (\A i \in DOMAIN ledger : i \in Nat /\ i < n /\ ledger'[i] = ledger[i])
        /\ ledger'[n] = e /\ n \in Nat
    <3>1. ledger \in Seq(Entries)
      BY <1>4 DEF LedgerOK
    <3> QED
      BY <2>1, <2>5, <3>1, Appended
  <2> HIDE DEF n
  <2>9. LedgerOK'
    <3>1. \A i \in DOMAIN ledger' : ledger'[i].cmd.verb \in Postings
      BY <1>4, <1>6, <2>7, <2>8 DEF LedgerOK
    <3> QED
      BY <2>8, <3>1 DEF LedgerOK, Entries, Leg
  <2>10. \A i \in DOMAIN ledger' : Cancels(ledger'[i])
    BY <1>4, <2>6, <2>8
  <2>11. ASSUME NEW a \in Accounts
         PROVE  /\ row'[a].balance = Start[a] + Moved(a)'
                /\ On(a)' # {} => row'[a].balance = ledger'[Max(On(a)')].legs[a].after
    <3> DEFINE f == [i \in On(a) |-> ledger[i].legs[a].amount]
               g == [i \in On(a)' |-> ledger'[i].legs[a].amount]
    <3>1. Moved(a) = SumFunctionOnSet(f, On(a)) /\ Moved(a)' = SumFunctionOnSet(g, On(a)')
      <4>1. DOMAIN f = On(a) /\ DOMAIN g = On(a)' /\ Moved(a) = SumFunction(f) /\ Moved(a)' = SumFunction(g)
        BY DEF Moved
      <4> HIDE DEF f, g
      <4> QED
        BY <4>1, SumOfFunction
    <3>2. CASE a \in Recorded(cmd)
      <4>1. On(a)' = On(a) \cup {n} /\ n \notin On(a)
        BY <2>3, <2>7, <2>8, <3>2 DEF On
      <4>2. \A i \in On(a) : f[i] = g[i] /\ f[i] \in Int
        <5> SUFFICES ASSUME NEW i \in On(a) PROVE f[i] = g[i] /\ f[i] \in Int
          OBVIOUS
        <5>1. i \in DOMAIN ledger /\ a \in DOMAIN ledger[i].legs
          BY DEF On
        <5>2. ledger[i] \in Entries
          BY <1>4, <5>1 DEF LedgerOK
        <5>3. ledger[i].legs[a].amount \in Int
          BY <5>1, <5>2 DEF Entries, Leg
        <5> QED
          BY <2>8, <4>1, <5>1, <5>3
      <4>3. g[n] = Moves(cmd, rows, a) /\ Moves(cmd, rows, a) \in Int
        BY <1>2, <1>6, <2>2, <2>3, <2>7, <2>8, <3>2, <4>1
      <4>4. SumFunctionOnSet(g, On(a)') = SumFunctionOnSet(f, On(a)) + Moves(cmd, rows, a)
        <5> HIDE DEF f, g
        <5>1. SumFunctionOnSet(g, On(a)) = SumFunctionOnSet(f, On(a))
          BY <1>3, <4>2, SumCongruent
        <5>2. \A i \in On(a) \cup {n} : g[i] \in Int
          BY <4>2, <4>3
        <5>3. SumFunctionOnSet(g, On(a) \cup {n}) = SumFunctionOnSet(g, On(a)) + g[n]
          BY <1>3, <4>1, <5>2, SumAdd
        <5> QED
          BY <4>1, <4>3, <5>1, <5>3
      <4>5. row'[a].balance = row[a].balance + Moves(cmd, rows, a)
        BY <1>2, <1>6, <2>2, <3>2
      <4>6. row[a].balance = Start[a] + Moved(a)
        BY <1>3 DEF AccountOK
      <4>7. row'[a].balance = Start[a] + Moved(a)'
        BY <1>3, <3>1, <4>3, <4>4, <4>5, <4>6
      <4>8. Max(On(a)') = n
        <5>1. On(a) \in SUBSET Nat /\ \A i \in On(a) : i < n
          BY <2>8 DEF On
        <5> QED
          BY <2>8, <4>1, <5>1, LastOne
      <4>9. ledger'[n].legs[a].after = row[a].balance + Moves(cmd, rows, a)
        BY <2>3, <2>7, <2>8, <3>2
      <4> QED
        BY <4>5, <4>7, <4>8, <4>9
    <3>3. CASE a \notin Recorded(cmd)
      <4>1. On(a)' = On(a)
        BY <2>3, <2>7, <2>8, <3>3 DEF On
      <4>2. \A i \in On(a) : ledger'[i] = ledger[i]
        BY <2>8 DEF On
      <4>3. f = g
        BY <4>1, <4>2
      <4>4. row'[a].balance = row[a].balance
        <5>1. CASE a \in Touched(cmd)
          <6>1. cmd.verb = "freeze"
            BY <3>3, <5>1 DEF Recorded
          <6>2. Moves(cmd, rows, a) = 0
            BY <6>1 DEF Moves, Audits
          <6> QED
            BY <1>2, <1>3, <5>1, <6>2
        <5>2. CASE a \notin Touched(cmd)
          BY <1>2, <5>2
        <5> QED
          BY <5>1, <5>2
      <4>5. On(a) # {} => Max(On(a)) \in On(a)
        <5> SUFFICES ASSUME On(a) # {} PROVE Max(On(a)) \in On(a)
          OBVIOUS
        <5>1. On(a) \in SUBSET Nat
          BY <2>8 DEF On
        <5> QED
          BY <1>3, <5>1, HasLast
      <4> HIDE DEF f, g
      <4> QED
        BY <1>3, <3>1, <4>1, <4>2, <4>3, <4>4, <4>5 DEF AccountOK
    <3> QED
      BY <3>2, <3>3
  <2> QED
    BY <2>9, <2>10, <2>11
<1> QED
  BY <1>5, <1>6

(* A command leaves what is held of a user covered.                        *)
LEMMA ApplyCovers ==
  ASSUME WalletAssumption, WInv, NEW cmd \in Commands, Apply(cmd), NEW u \in Users
  PROVE  row'[u].balance + row'[u].limit - row'[u].inFlight >= 0
<1> DEFINE rows == Look(Touched(cmd))
<1>1. /\ Touched(cmd) \subseteq Accounts /\ (\A a \in Touched(cmd) : rows[a] = row[a])
      /\ Endable(cmd) /\ Covered(cmd, rows)
      /\ (cmd.verb \in {"settle", "release"} => auth[cmd.ref].st = "active" /\ Holder(cmd) \in Users)
      /\ cmd.ref \in Refs /\ cmd.amount \in Nat /\ cmd.verb \in Verbs
  BY ApplyFacts DEF WInv
<1>2. /\ (\A a \in Accounts \ Touched(cmd) : row'[a] = row[a])
      /\ \A a \in Touched(cmd) :
           /\ row'[a].balance = row[a].balance + (IF cmd.verb \in Postings THEN Moves(cmd, rows, a) ELSE 0)
           /\ row'[a].inFlight = row[a].inFlight + (IF a = Holder(cmd) THEN Held(cmd) ELSE 0)
           /\ row'[a].limit = IF cmd.verb = "credit_line" THEN cmd.amount ELSE row[a].limit
  BY ApplyRows DEF WInv
<1>3. /\ u \in Accounts /\ row[u].balance \in Int /\ row[u].inFlight \in Int /\ row[u].limit \in Nat
      /\ row[u].balance + row[u].limit - row[u].inFlight >= 0
  <2>1. u \in Accounts
    BY DEF Accounts
  <2> QED
    BY <2>1 DEF WInv, RowsOK, NeverOverspent
<1>4. CASE u \notin Touched(cmd)
  BY <1>2, <1>3, <1>4
<1>5. CASE u \in Touched(cmd)
  <2> DEFINE b == row[u].balance
             h == row[u].inFlight
             l == row[u].limit
             m == IF cmd.verb \in Postings THEN Moves(cmd, rows, u) ELSE 0
             k == IF u = Holder(cmd) THEN Held(cmd) ELSE 0
  <2>1. /\ row'[u].balance = b + m /\ row'[u].inFlight = h + k
        /\ row'[u].limit = (IF cmd.verb = "credit_line" THEN cmd.amount ELSE l)
    BY <1>2, <1>5
  <2>2. rows[u] = row[u]
    BY <1>1, <1>5
  <2>3. u \notin Internal /\ u \notin Codes
    BY DEF WalletAssumption
  <2>4. auth[cmd.ref].amount \in Nat
    BY <1>1 DEF WInv, HoldsOK, HoldType
  <2>5. \A x \in Codes : OneRow(x, cmd.ref) # u /\ u \notin RowsOf(x)
    BY <1>1, <2>3 DEF OneRow, RowsOf, Internal, WalletAssumption
  <2>6. CASE cmd.verb = "credit"
    <3>1. cmd.from \in Codes /\ cmd.to \in Users
      BY <2>6 DEF WalletAssumption
    <3>2. u = OneRow(cmd.to, cmd.ref)
      BY <1>5, <2>5, <2>6, <3>1 DEF Touched
    <3>3. m = cmd.amount /\ k = 0
      BY <2>3, <2>6, <3>1, <3>2 DEF Moves, Postings, Audits, Holder, Held
    <3> HIDE DEF m, k
    <3> QED
      BY <1>1, <1>3, <2>1, <2>6, <3>3
  <2>7. CASE cmd.verb = "refund"
    <3>1. cmd.from \in Users /\ cmd.to \in Codes
      BY <2>7 DEF WalletAssumption
    <3>2. u = cmd.from /\ u # OneRow(cmd.to, cmd.ref)
      BY <1>5, <2>5, <2>7, <3>1 DEF Touched, OneRow
    <3>3. m = -cmd.amount /\ k = 0
      BY <2>7, <3>2 DEF Moves, Postings, Audits, Held
    <3>4. b - h + l >= cmd.amount
      <4>1. Available(cmd, rows[u]) >= cmd.amount
        BY <1>1, <2>7, <3>2 DEF Covered
      <4>2. Available(cmd, rows[u]) <= b - h + l
        BY <1>3, <2>2 DEF Available
      <4>3. Available(cmd, rows[u]) \in Int
        BY <1>3, <2>2 DEF Available
      <4> HIDE DEF rows
      <4> QED
        BY <1>1, <1>3, <4>1, <4>2, <4>3
    <3> HIDE DEF m, k
    <3> QED
      BY <1>1, <1>3, <2>1, <2>7, <3>3, <3>4
  <2>8. CASE cmd.verb = "transfer"
    <3>1. cmd.from \in Users \cup Codes /\ cmd.to \in Users \cup Codes /\ cmd.from # cmd.to
      BY <2>8 DEF WalletAssumption
    <3>2. k = 0
      BY <2>8 DEF Held
    <3>3. CASE u = cmd.to
      <4>1. u = OneRow(cmd.to, cmd.ref)
        BY <3>3 DEF OneRow
      <4>2. m = cmd.amount
        BY <2>8, <4>1 DEF Moves, Postings, Audits
      <4> HIDE DEF m, k
      <4> QED
        BY <1>1, <1>3, <2>1, <2>8, <3>2, <4>2
    <3>4. CASE u # cmd.to
      <4>1. u \in RowsOf(cmd.from) /\ u \notin RowsOf(cmd.to)
        BY <1>5, <2>5, <2>8, <3>1, <3>4 DEF Touched, RowsOf
      <4>2. u = cmd.from /\ u # OneRow(cmd.to, cmd.ref)
        BY <2>5, <3>1, <3>4, <4>1 DEF RowsOf, OneRow
      <4>3. m = -cmd.amount
        BY <2>8, <4>1, <4>2 DEF Moves, Postings, Audits, Debit
      <4>4. b - h + l >= cmd.amount
        <5>1. Available(cmd, rows[u]) >= cmd.amount
          BY <1>1, <2>8, <4>2 DEF Covered
        <5>2. Available(cmd, rows[u]) <= b - h + l
          BY <1>3, <2>2 DEF Available
        <5>3. Available(cmd, rows[u]) \in Int
          BY <1>3, <2>2 DEF Available
        <5> HIDE DEF rows
        <5> QED
          BY <1>1, <1>3, <5>1, <5>2, <5>3
      <4> HIDE DEF m, k
      <4> QED
        BY <1>1, <1>3, <2>1, <2>8, <3>2, <4>3, <4>4
    <3> QED
      BY <3>3, <3>4
  <2>9. CASE cmd.verb = "settle"
    <3>1. cmd.to \in Codes
      BY <2>9 DEF WalletAssumption
    <3>2. u = Holder(cmd) /\ u # OneRow(cmd.to, cmd.ref)
      BY <1>5, <2>5, <2>9, <3>1 DEF Touched
    <3>3. m = -cmd.amount /\ k = -auth[cmd.ref].amount
      BY <2>9, <3>2 DEF Moves, Postings, Audits, Held
    <3>4. cmd.amount <= auth[cmd.ref].amount
      BY <1>1, <2>9 DEF Endable
    <3> HIDE DEF m, k
    <3> QED
      BY <1>1, <1>3, <2>1, <2>4, <2>9, <3>3, <3>4
  <2>10. CASE cmd.verb = "authorize"
    <3>1. u = cmd.from /\ u = Holder(cmd)
      BY <1>5, <2>10 DEF Touched, Holder
    <3>2. m = 0 /\ k = cmd.amount
      BY <2>10, <3>1 DEF Postings, Audits, Held
    <3>3. b - h + l >= cmd.amount
      <4>1. Available(cmd, rows[u]) >= cmd.amount
        BY <1>1, <2>10, <3>1 DEF Covered
      <4>2. Available(cmd, rows[u]) <= b - h + l
        BY <1>3, <2>2 DEF Available
      <4>3. Available(cmd, rows[u]) \in Int
        BY <1>3, <2>2 DEF Available
      <4> HIDE DEF rows
      <4> QED
        BY <1>1, <1>3, <4>1, <4>2, <4>3
    <3> HIDE DEF m, k
    <3> QED
      BY <1>1, <1>3, <2>1, <2>10, <3>2, <3>3
  <2>11. CASE cmd.verb = "release"
    <3>1. m = 0 /\ u = Holder(cmd)
      BY <1>5, <2>11 DEF Postings, Audits, Touched
    <3>2. k = -auth[cmd.ref].amount
      BY <2>11, <3>1 DEF Held
    <3> HIDE DEF m, k
    <3> QED
      BY <1>1, <1>3, <2>1, <2>4, <2>11, <3>1, <3>2
  <2>12. CASE cmd.verb = "credit_line"
    <3>1. m = 0 /\ k = 0
      BY <2>12 DEF Moves, Postings, Audits, Held
    <3>2. u = cmd.from
      BY <1>5, <2>12 DEF Touched, Holder
    <3>3. b + cmd.amount >= h
      BY <1>1, <2>2, <2>12, <3>2 DEF Covered
    <3> HIDE DEF m, k
    <3> QED
      BY <1>1, <1>3, <2>1, <2>12, <3>1, <3>3
  <2>13. CASE cmd.verb = "freeze"
    <3>1. m = 0 /\ k = 0
      BY <2>13 DEF Moves, Postings, Audits, Held
    <3> HIDE DEF m, k
    <3> QED
      BY <1>3, <2>1, <2>13, <3>1
  <2> QED
    BY <1>1, <2>6, <2>7, <2>8, <2>9, <2>10, <2>11, <2>12, <2>13 DEF Verbs, Postings, Audits
<1> QED
  BY <1>4, <1>5

(* There is an account: an owner in a command has one.                     *)
LEMMA AccountsThere ==
  ASSUME WalletAssumption, HoldsOK, RowsOK, NEW cmd \in Commands, Apply(cmd)
  PROVE  Accounts # {}
<1>1. Touched(cmd) \subseteq Accounts /\ cmd.ref \in Refs /\ cmd.verb \in Verbs
  BY ApplyFacts
<1>2. Touched(cmd) # {}
  <2>1. cmd.verb \in {"transfer", "freeze"} => OneRow(cmd.from, cmd.ref) \in RowsOf(cmd.from)
    BY <1>1, OneOfRows DEF WalletAssumption
  <2> QED
    BY <1>1, <2>1 DEF Touched
<1> QED
  BY <1>1, <1>2

(* A command keeps the invariant.                                          *)
LEMMA ApplyStep ==
  ASSUME WalletAssumption, WInv, NEW cmd \in Commands, Apply(cmd)
  PROVE  WInv'
<1> DEFINE rows == Look(Touched(cmd))
<1>1. HoldsOK' /\ RowsOK' /\ Touched(cmd) \subseteq Accounts
      /\ (\A a \in Accounts \ Touched(cmd) : row'[a] = row[a])
      /\ (\A a \in Touched(cmd) : row'[a].inFlight = row[a].inFlight + (IF a = Holder(cmd) THEN Held(cmd) ELSE 0))
  BY ApplyFacts, ApplyRows DEF WInv
<1>2. IsFiniteSet(Active)'
  <2>1. PICK u : u \in Accounts
    BY AccountsThere DEF WInv
  <2> QED
    BY <2>1, ApplyHeld DEF WInv
<1>3. ASSUME NEW a \in Accounts PROVE row'[a].inFlight = HeldBy(a, Active)'
  <2>1. row[a].inFlight = HeldBy(a, Active)
    BY DEF WInv, AccountOK
  <2>2. HeldBy(a, Active)' = HeldBy(a, Active) + (IF a \in Touched(cmd) /\ a = Holder(cmd) THEN Held(cmd) ELSE 0)
        /\ HeldBy(a, Active) \in Nat
    BY ApplyHeld DEF WInv
  <2> QED
    BY <1>1, <2>1, <2>2
<1>4. /\ LedgerOK' /\ (\A i \in DOMAIN ledger' : Cancels(ledger'[i]))
      /\ \A a \in Accounts :
           /\ row'[a].balance = Start[a] + Moved(a)'
           /\ On(a)' # {} => row'[a].balance = ledger'[Max(On(a)')].legs[a].after
  BY ApplyLedger
<1>5. \A a \in Accounts : AccountOK(a)'
  BY <1>3, <1>4 DEF AccountOK
<1>6. NeverOverspent'
  BY ApplyCovers DEF NeverOverspent
<1>7. (\A i \in DOMAIN ledger : Cancels(ledger[i]))'
  BY <1>4
<1> QED
  BY <1>1, <1>2, <1>4, <1>5, <1>6, <1>7 DEF WInv

(* Giving holds up keeps the invariant.                                    *)
LEMMA GiveUpStep ==
  ASSUME WalletAssumption, WInv, NEW S \in SUBSET Refs, GiveUp(S)
  PROVE  WInv'
<1> DEFINE rows == Look(Holders(S))
           f == [r \in Refs |-> auth[r].amount]
           g == [r \in Refs |-> auth'[r].amount]
<1>1. Expired(S, rows) /\ \A r \in S : auth[r].st = "active"
  BY DEF GiveUp
<1>2. HoldsOK /\ RowsOK /\ LedgerOK /\ IsFiniteSet(Active)
  BY DEF WInv
<1>3. HoldsOK'
  BY <1>1, <1>2, ExpiredFrame
<1>4. ledger' = ledger /\ \A r \in Refs : auth'[r] = IF r \in S THEN [auth[r] EXCEPT !.st = "expired"] ELSE auth[r]
  BY <1>1 DEF Expired
<1>5. \A r \in Refs : auth'[r].amount = auth[r].amount /\ auth'[r].user = auth[r].user
  <2> TAKE r \in Refs
  <2>1. auth[r] \in HoldType
    BY <1>2 DEF HoldsOK
  <2> DEFINE h == auth[r]
  <2>2. h \in HoldType /\ (auth'[r] = h \/ auth'[r] = [h EXCEPT !.st = "expired"])
    BY <1>4, <2>1
  <2>3. auth'[r].amount = h.amount /\ auth'[r].user = h.user
    <3> HIDE DEF h
    <3> QED
      BY <2>2 DEF HoldType
  <2> QED
    BY <2>3
<1>6. Active' = Active \ S /\ S \in SUBSET Active /\ IsFiniteSet(S) /\ IsFiniteSet(Active)'
  <2>1. \A r \in S : auth'[r].st = "expired"
    BY <1>2, <1>4 DEF HoldsOK, HoldType
  <2>2. Active' = Active \ S /\ S \in SUBSET Active
    BY <1>1, <1>4, <2>1 DEF Active
  <2> QED
    BY <1>2, <2>2, FS_Subset
<1>7. \A u : HeldBy(u, S) \in Nat /\ HeldBy(u, Active) \in Nat
  <2>1. Active \in SUBSET Refs
    BY DEF Active
  <2> QED
    BY <1>2, <1>6, <2>1, HeldIsNat
<1>8. ASSUME NEW u PROVE HeldBy(u, Active)' = HeldBy(u, Active) - HeldBy(u, S)
  <2> DEFINE T == {r \in Active : auth[r].user = u}
             U == {r \in Active' : auth'[r].user = u}
             V == {r \in S : auth[r].user = u}
  <2>1. /\ HeldBy(u, Active) = SumFunctionOnSet(f, T) /\ HeldBy(u, Active)' = SumFunctionOnSet(g, U)
        /\ HeldBy(u, S) = SumFunctionOnSet(f, V)
    BY DEF HeldBy
  <2>2. g = f
    BY <1>5
  <2>3. U = T \ V /\ V \in SUBSET T /\ IsFiniteSet(T) /\ \A r \in T : f[r] \in Int
    <3>1. IsFiniteSet(T)
      BY <1>2, FS_Subset
    <3>2. Active \in SUBSET Refs /\ Active' \in SUBSET Refs
      BY <1>6 DEF Active
    <3>3. \A r \in T : f[r] \in Int
      BY <1>2, <3>2 DEF HoldsOK, HoldType
    <3>4. U = T \ V /\ V \in SUBSET T
      BY <1>5, <1>6, <3>2
    <3> QED
      BY <3>1, <3>3, <3>4
  <2> HIDE DEF f, g, T, U, V
  <2>4. SumFunctionOnSet(f, T) = SumFunctionOnSet(f, V) + SumFunctionOnSet(f, T \ V)
    BY <2>3, SumParts
  <2>5. SumFunctionOnSet(f, T \ V) \in Int
    <3>1. IsFiniteSet(T \ V) /\ \A r \in T \ V : f[r] \in Int
      BY <2>3, FS_Subset
    <3> QED
      BY <3>1, SumType
  <2>6. SumFunctionOnSet(f, V) \in Nat
    BY <1>7, <2>1
  <2>7. SumFunctionOnSet(g, U) = SumFunctionOnSet(f, T \ V)
    BY <2>2, <2>3
  <2>8. SumFunctionOnSet(g, U) = SumFunctionOnSet(f, T) - SumFunctionOnSet(f, V)
    BY <2>4, <2>5, <2>6, <2>7
  <2> QED
    BY <2>1, <2>8
<1>9. \A u : u \notin Holders(S) => HeldBy(u, S) = 0
  <2> SUFFICES ASSUME NEW u, u \notin Holders(S) PROVE HeldBy(u, S) = 0
    OBVIOUS
  <2>1. {r \in S : auth[r].user = u} = {}
    BY DEF Holders
  <2>2. SumFunctionOnSet(f, {}) = 0
    BY SumEmpty
  <2> QED
    BY <2>1, <2>2 DEF HeldBy
<1>10. ASSUME NEW a \in Accounts
       PROVE  /\ row'[a] = [row[a] EXCEPT !.inFlight = row[a].inFlight - HeldBy(a, S)]
              /\ row[a] \in [balance : Int, inFlight : Int, limit : Nat, frozen : BOOLEAN]
  <2>1. row[a] \in [balance : Int, inFlight : Int, limit : Nat, frozen : BOOLEAN]
    BY <1>2 DEF RowsOK
  <2>2. CASE a \in Holders(S)
    <3>1. rows[a] = row[a]
      BY <2>2 DEF Look
    <3>2. row'[a] = [rows[a] EXCEPT !.inFlight = @ - HeldBy(a, S)]
      BY <1>1, <2>2 DEF Expired
    <3> HIDE DEF rows
    <3> QED
      BY <2>1, <3>1, <3>2
  <2>3. CASE a \notin Holders(S)
    <3>1. row'[a] = row[a]
      BY <1>1, <2>3 DEF Expired
    <3>2. HeldBy(a, S) = 0
      BY <1>9, <2>3
    <3> QED
      BY <2>1, <3>1, <3>2
  <2> QED
    BY <2>1, <2>2, <2>3
<1>11. \A a \in Accounts :
         /\ row'[a].balance = row[a].balance /\ row'[a].limit = row[a].limit
         /\ row'[a].inFlight = row[a].inFlight - HeldBy(a, S)
         /\ row'[a] \in [balance : Int, inFlight : Int, limit : Nat, frozen : BOOLEAN]
  <2> TAKE a \in Accounts
  <2> DEFINE h == HeldBy(a, S)
             v == row[a]
  <2>1. h \in Nat
    BY <1>7
  <2>2. row'[a] = [v EXCEPT !.inFlight = v.inFlight - h]
        /\ v \in [balance : Int, inFlight : Int, limit : Nat, frozen : BOOLEAN]
    BY <1>10
  <2> HIDE DEF h, v
  <2>3. /\ row'[a].balance = v.balance /\ row'[a].limit = v.limit /\ row'[a].inFlight = v.inFlight - h
        /\ row'[a] \in [balance : Int, inFlight : Int, limit : Nat, frozen : BOOLEAN]
    BY <2>1, <2>2
  <2> QED
    BY <2>3 DEF h, v
<1>12. RowsOK'
  <2>1. row' = [a \in Accounts |-> row'[a]]
    BY <1>1 DEF Expired
  <2> QED
    BY <1>11, <2>1 DEF RowsOK
<1>13. \A a \in Accounts : AccountOK(a)'
  <2> TAKE a \in Accounts
  <2>1. AccountOK(a)
    BY DEF WInv
  <2>2. On(a)' = On(a) /\ Moved(a)' = Moved(a)
    BY <1>4 DEF On, Moved
  <2>3. row'[a].inFlight = HeldBy(a, Active)'
    BY <1>8, <1>11, <2>1 DEF AccountOK
  <2> QED
    BY <1>4, <1>11, <2>1, <2>2, <2>3 DEF AccountOK
<1>14. NeverOverspent'
  <2> SUFFICES ASSUME NEW u \in Users PROVE row'[u].balance + row'[u].limit - row'[u].inFlight >= 0
    BY DEF NeverOverspent
  <2>1. u \in Accounts /\ row[u].balance + row[u].limit - row[u].inFlight >= 0
    BY DEF Accounts, WInv, NeverOverspent
  <2>2. HeldBy(u, S) \in Nat
    BY <1>7
  <2>3. row[u].balance \in Int /\ row[u].limit \in Nat /\ row[u].inFlight \in Int
    BY <1>10, <2>1
  <2>4. /\ row'[u].balance = row[u].balance /\ row'[u].limit = row[u].limit
        /\ row'[u].inFlight = row[u].inFlight - HeldBy(u, S)
    BY <1>11, <2>1
  <2> QED
    BY <2>1, <2>2, <2>3, <2>4
<1>15. LedgerOK' /\ (\A i \in DOMAIN ledger : Cancels(ledger[i]))'
  BY <1>4 DEF WInv, LedgerOK, Entries, Leg
<1> QED
  BY <1>3, <1>6, <1>12, <1>13, <1>14, <1>15 DEF WInv

(* In the beginning nothing is written and nothing is held.                *)
LEMMA WInit == ASSUME WalletAssumption, Init PROVE WInv
<1>1. HoldsOK
  BY DEF Init, HoldsOK, HoldType, NoHold
<1>2. RowsOK
  BY DEF Init, RowsOK, WalletAssumption
<1>3. LedgerOK /\ DOMAIN ledger = {}
  BY DEF Init, LedgerOK
<1>4. Active = {} /\ IsFiniteSet(Active)
  BY FS_EmptySet DEF Init, Active, NoHold
<1>5. ASSUME NEW a \in Accounts PROVE AccountOK(a)
  <2>1. On(a) = {}
    BY <1>3 DEF On
  <2>2. Moved(a) = 0
    BY <2>1, SumEmpty, SumOfFunction DEF Moved
  <2>3. HeldBy(a, Active) = 0
    <3>1. {r \in Active : auth[r].user = a} = {}
      BY <1>4
    <3> QED
      BY <3>1, SumEmpty DEF HeldBy
  <2> QED
    BY <2>1, <2>2, <2>3 DEF Init, AccountOK, WalletAssumption
<1>6. NeverOverspent
  BY DEF Init, NeverOverspent, WalletAssumption, Accounts
<1> QED
  BY <1>1, <1>2, <1>3, <1>4, <1>5, <1>6 DEF WInv

(* A step that only lets holds become late keeps the invariant.            *)
LEMMA WKept == ASSUME WInv, UNCHANGED <<row, auth, ledger>>, late' \subseteq Refs PROVE WInv'
<1>1. HoldsOK'
  BY DEF WInv, HoldsOK, HoldType
<1>2. Active' = Active
  BY DEF Active
<1>3. \A a \in Accounts : HeldBy(a, Active)' = HeldBy(a, Active) /\ On(a)' = On(a) /\ Moved(a)' = Moved(a)
  BY <1>2 DEF HeldBy, On, Moved
<1>4. \A a \in Accounts : AccountOK(a)'
  BY <1>3 DEF WInv, AccountOK
<1>5. RowsOK' /\ LedgerOK' /\ (\A i \in DOMAIN ledger : Cancels(ledger[i]))' /\ NeverOverspent'
  BY DEF WInv, RowsOK, LedgerOK, Entries, Leg, NeverOverspent
<1> QED
  BY <1>1, <1>2, <1>4, <1>5 DEF WInv

(* Every step of the atomic wallet keeps the invariant.                    *)
LEMMA WStep == ASSUME WalletAssumption, WInv, [Next]_tables PROVE WInv'
<1>1. CASE \E cmd \in Commands : Apply(cmd)
  BY <1>1, ApplyStep
<1>2. CASE \E S \in SUBSET Refs : GiveUp(S)
  BY <1>2, GiveUpStep
<1>3. CASE \E r \in Refs : TimePasses(r)
  <2>1. UNCHANGED <<row, auth, ledger>> /\ late' \subseteq Refs
    BY <1>3 DEF TimePasses, WInv, HoldsOK
  <2> QED
    BY <2>1, WKept
<1>4. CASE UNCHANGED tables
  <2>1. UNCHANGED <<row, auth, ledger>> /\ late' \subseteq Refs
    BY <1>4 DEF tables, WInv, HoldsOK
  <2> QED
    BY <2>1, WKept
<1> QED
  BY <1>1, <1>2, <1>3, <1>4 DEF Next

-----------------------------------------------------------------------------
(* Keys: one posting for a key and a verb, and a hold is settled when its  *)
(* settlement is posted.                                                   *)

OnceOnly ==
  \A i, j \in DOMAIN ledger : ledger[i].cmd.ref = ledger[j].cmd.ref /\ ledger[i].cmd.verb = ledger[j].cmd.verb => i = j
SettledIsPosted ==
  \A r \in Refs : auth[r].st = "settled" <=>
    \E i \in DOMAIN ledger : ledger[i].cmd.verb = "settle" /\ ledger[i].cmd.ref = r
KeysOK == OnceOnly /\ SettledIsPosted

(* What no step takes back.                                                *)
Grows ==
  /\ \A i \in DOMAIN ledger : i \in DOMAIN ledger' /\ ledger'[i] = ledger[i]
  /\ \A r \in Refs :
       /\ auth[r].st # "none" => auth'[r].st # "none" /\ auth'[r].user = auth[r].user /\ auth'[r].by = auth[r].by
       /\ auth[r].st \notin {"none", "active"} => auth'[r] = auth[r]

(* The hold of a command after it.                                         *)
LEMMA ApplyHold ==
  ASSUME WalletAssumption, WInv, NEW cmd \in Commands, Apply(cmd)
  PROVE  /\ \A r \in Refs : r # cmd.ref => auth'[r] = auth[r]
         /\ cmd.verb \notin {"authorize", "settle", "release"} => auth' = auth
         /\ cmd.verb = "authorize" => auth[cmd.ref].st = "none" /\ auth'[cmd.ref].st = "active" /\ auth'[cmd.ref].by = cmd
         /\ cmd.verb \in {"settle", "release"} =>
              /\ auth[cmd.ref].st = "active" /\ auth'[cmd.ref].st = (IF cmd.verb = "settle" THEN "settled" ELSE "released")
              /\ auth'[cmd.ref].user = auth[cmd.ref].user /\ auth'[cmd.ref].by = auth[cmd.ref].by
         /\ cmd.verb = "release" => auth'[cmd.ref].over = cmd
<1> DEFINE rows == Look(Touched(cmd))
           h == auth[cmd.ref]
<1>1. /\ Write(cmd, rows) /\ Endable(cmd) /\ HoldsOK' /\ cmd.ref \in Refs /\ cmd.verb \in Verbs
      /\ cmd.verb = "authorize" => auth[cmd.ref].st = "none"
      /\ cmd.verb \in {"settle", "release"} => auth[cmd.ref].st = "active"
  BY ApplyFacts DEF WInv
<1>2. \A r \in Refs : r # cmd.ref => auth'[r] = auth[r]
  BY <1>1, WriteFrame DEF WInv
<1>3. HoldsOK /\ h \in HoldType
  BY <1>1 DEF WInv, HoldsOK
<1>4. CASE cmd.verb = "authorize"
  <2>1. auth'[cmd.ref] = [NoHold EXCEPT !.st = "active", !.user = cmd.from, !.amount = cmd.amount, !.by = cmd]
    BY <1>1, <1>3, <1>4 DEF Write, HoldsOK
  <2>2. auth'[cmd.ref].st = "active" /\ auth'[cmd.ref].by = cmd
    BY <2>1 DEF NoHold
  <2> QED
    BY <1>1, <1>2, <1>4, <2>2
<1>5. CASE cmd.verb = "settle"
  <2>1. auth'[cmd.ref] = [h EXCEPT !.st = "settled", !.settled = cmd.amount]
    BY <1>1, <1>3, <1>5 DEF Write, HoldsOK
  <2> HIDE DEF h
  <2>2. auth'[cmd.ref].st = "settled" /\ auth'[cmd.ref].user = h.user /\ auth'[cmd.ref].by = h.by
    BY <1>3, <2>1 DEF HoldType
  <2> QED
    BY <1>1, <1>2, <1>5, <2>2 DEF h
<1>6. CASE cmd.verb = "release"
  <2>1. auth'[cmd.ref] = [h EXCEPT !.st = "released", !.over = cmd]
    BY <1>1, <1>3, <1>6 DEF Write, HoldsOK
  <2> HIDE DEF h
  <2>2. auth'[cmd.ref].st = "released" /\ auth'[cmd.ref].over = cmd
        /\ auth'[cmd.ref].user = h.user /\ auth'[cmd.ref].by = h.by
    BY <1>3, <2>1 DEF HoldType
  <2> QED
    BY <1>1, <1>2, <1>6, <2>2 DEF h
<1>7. CASE cmd.verb \notin {"authorize", "settle", "release"}
  <2>1. auth' = auth
    BY <1>1, <1>3, <1>7 DEF Write, HoldsOK
  <2> QED
    BY <1>1, <1>7, <2>1
<1> QED
  BY <1>4, <1>5, <1>6, <1>7

(* The ledger after a command.                                             *)
LEMMA ApplyEntry ==
  ASSUME WalletAssumption, WInv, NEW cmd \in Commands, Apply(cmd)
  PROVE  /\ cmd.verb \notin Postings => ledger' = ledger
         /\ cmd.verb \in Postings =>
              /\ DOMAIN ledger' = DOMAIN ledger \cup {Len(ledger) + 1} /\ Len(ledger) + 1 \notin DOMAIN ledger
              /\ \A i \in DOMAIN ledger : ledger'[i] = ledger[i]
              /\ ledger'[Len(ledger) + 1] = [cmd |-> cmd, legs |-> Legs(cmd, Look(Touched(cmd)))]
<1>1. /\ cmd.verb \notin Postings => ledger' = ledger
      /\ cmd.verb \in Postings => ledger' = Append(ledger, [cmd |-> cmd, legs |-> Legs(cmd, Look(Touched(cmd)))])
  BY DEF Apply, Write
<1> DEFINE e == [cmd |-> cmd, legs |-> Legs(cmd, Look(Touched(cmd)))]
           Any == Entries \cup {e}
<1>2. ledger \in Seq(Any) /\ e \in Any
  <2>1. ledger \in Seq(Entries)
    BY DEF WInv, LedgerOK
  <2> QED
    BY <2>1
<1> HIDE DEF e, Any
<1>3. cmd.verb \in Postings =>
        /\ DOMAIN ledger' = DOMAIN ledger \cup {Len(ledger) + 1} /\ Len(ledger) + 1 \notin DOMAIN ledger
        /\ \A i \in DOMAIN ledger : ledger'[i] = ledger[i]
        /\ ledger'[Len(ledger) + 1] = e
  <2> SUFFICES ASSUME cmd.verb \in Postings
               PROVE  /\ DOMAIN ledger' = DOMAIN ledger \cup {Len(ledger) + 1} /\ Len(ledger) + 1 \notin DOMAIN ledger
                      /\ \A i \in DOMAIN ledger : ledger'[i] = ledger[i]
                      /\ ledger'[Len(ledger) + 1] = e
    OBVIOUS
  <2>1. ledger' = Append(ledger, e)
    BY <1>1 DEF e
  <2> QED
    BY <1>2, <2>1, Appended
<1> QED
  BY <1>1, <1>3 DEF e

(* What a step of the atomic wallet takes back, and what its keys say.     *)
LEMMA GrowsStep == ASSUME WalletAssumption, WInv, [Next]_tables PROVE Grows
<1>1. CASE \E cmd \in Commands : Apply(cmd)
  <2>1. PICK cmd \in Commands : Apply(cmd)
    BY <1>1
  <2>2. \A i \in DOMAIN ledger : i \in DOMAIN ledger' /\ ledger'[i] = ledger[i]
    BY <2>1, ApplyEntry
  <2>3. \A r \in Refs :
       /\ auth[r].st # "none" => auth'[r].st # "none" /\ auth'[r].user = auth[r].user /\ auth'[r].by = auth[r].by
       /\ auth[r].st \notin {"none", "active"} => auth'[r] = auth[r]
    BY <2>1, ApplyHold
  <2> QED
    BY <2>2, <2>3 DEF Grows
<1>2. CASE \E S \in SUBSET Refs : GiveUp(S)
  <2>1. PICK S \in SUBSET Refs : GiveUp(S)
    BY <1>2
  <2>2. ledger' = ledger /\ (\A r \in S : auth[r].st = "active")
        /\ \A r \in Refs : auth'[r] = IF r \in S THEN [auth[r] EXCEPT !.st = "expired"] ELSE auth[r]
    BY <2>1 DEF GiveUp, Expired
  <2>3. ASSUME NEW r \in Refs
        PROVE  /\ auth[r].st # "none" => auth'[r].st # "none" /\ auth'[r].user = auth[r].user /\ auth'[r].by = auth[r].by
               /\ auth[r].st \notin {"none", "active"} => auth'[r] = auth[r]
    <3>1. CASE r \in S
      <4> DEFINE h == auth[r]
      <4>1. h \in HoldType /\ auth'[r] = [h EXCEPT !.st = "expired"] /\ h.st = "active"
        BY <2>2, <3>1 DEF WInv, HoldsOK
      <4> HIDE DEF h
      <4>2. auth'[r].st = "expired" /\ auth'[r].user = h.user /\ auth'[r].by = h.by
        BY <4>1 DEF HoldType
      <4> QED
        BY <4>1, <4>2 DEF h
    <3>2. CASE r \notin S
      BY <2>2, <3>2
    <3> QED
      BY <3>1, <3>2
  <2> QED
    BY <2>2, <2>3 DEF Grows
<1>3. CASE UNCHANGED <<auth, ledger>>
  BY <1>3 DEF Grows
<1> QED
  BY <1>1, <1>2, <1>3 DEF Next, TimePasses, tables

(* Every step of the atomic wallet keeps the keys.                         *)
LEMMA KeysStep == ASSUME WalletAssumption, WInv, KeysOK, [Next]_tables PROVE KeysOK'
<1>1. CASE \E cmd \in Commands : Apply(cmd)
  <2>1. PICK cmd \in Commands : Apply(cmd)
    BY <1>1
  <2>2. cmd.ref \in Refs /\ cmd.verb \in Verbs /\ ~Taken(cmd)
    BY <2>1 DEF WalletAssumption, Apply
  <2>3. /\ \A r \in Refs : r # cmd.ref => auth'[r] = auth[r]
        /\ cmd.verb \notin {"authorize", "settle", "release"} => auth' = auth
        /\ cmd.verb = "authorize" => auth[cmd.ref].st = "none" /\ auth'[cmd.ref].st = "active"
        /\ cmd.verb \in {"settle", "release"} =>
             auth[cmd.ref].st = "active" /\ auth'[cmd.ref].st = IF cmd.verb = "settle" THEN "settled" ELSE "released"
    BY <2>1, ApplyHold
  <2>4. CASE cmd.verb \notin Postings
    <3>1. ledger' = ledger
      BY <2>1, <2>4, ApplyEntry
    <3>2. \A r \in Refs : auth'[r].st = "settled" <=> auth[r].st = "settled"
      BY <2>2, <2>3, <2>4 DEF Postings, Audits, Verbs
    <3>3. OnceOnly'
      BY <3>1 DEF KeysOK, OnceOnly
    <3>4. SettledIsPosted'
      BY <3>1, <3>2 DEF KeysOK, SettledIsPosted
    <3> QED
      BY <3>3, <3>4 DEF KeysOK
  <2>5. CASE cmd.verb \in Postings
    <3> DEFINE n == Len(ledger) + 1
               e == [cmd |-> cmd, legs |-> Legs(cmd, Look(Touched(cmd)))]
    <3>1. /\ DOMAIN ledger' = DOMAIN ledger \cup {n} /\ n \notin DOMAIN ledger
          /\ (\A i \in DOMAIN ledger : ledger'[i] = ledger[i]) /\ ledger'[n] = e
      BY <2>1, <2>5, ApplyEntry
    <3>2. e.cmd = cmd
      OBVIOUS
    <3> HIDE DEF n, e
    <3>3. \A i \in DOMAIN ledger : ~(ledger[i].cmd.ref = cmd.ref /\ ledger[i].cmd.verb = cmd.verb)
      <4>1. CASE cmd.verb = "settle"
        BY <2>2, <2>3, <4>1 DEF KeysOK, SettledIsPosted
      <4>2. CASE cmd.verb # "settle"
        <5>1. Posted(cmd) = {}
          BY <2>2, <2>5, <4>2 DEF Taken, Postings, Audits
        <5> QED
          BY <5>1 DEF Posted
      <4> QED
        BY <4>1, <4>2
    <3>4. OnceOnly'
      BY <3>1, <3>2, <3>3 DEF KeysOK, OnceOnly
    <3>5. ASSUME NEW r \in Refs
          PROVE  auth'[r].st = "settled" <=>
                   \E i \in DOMAIN ledger' : ledger'[i].cmd.verb = "settle" /\ ledger'[i].cmd.ref = r
      <4>1. auth[r].st = "settled" <=> \E i \in DOMAIN ledger : ledger[i].cmd.verb = "settle" /\ ledger[i].cmd.ref = r
        BY DEF KeysOK, SettledIsPosted
      <4>2. (\E i \in DOMAIN ledger' : ledger'[i].cmd.verb = "settle" /\ ledger'[i].cmd.ref = r)
              <=> \/ \E i \in DOMAIN ledger : ledger[i].cmd.verb = "settle" /\ ledger[i].cmd.ref = r
                  \/ cmd.verb = "settle" /\ cmd.ref = r
        BY <3>1, <3>2
      <4>3. auth'[r].st = "settled" <=> auth[r].st = "settled" \/ (cmd.verb = "settle" /\ cmd.ref = r)
        BY <2>2, <2>3, <2>5 DEF Postings, Audits
      <4> QED
        BY <4>1, <4>2, <4>3
    <3>6. SettledIsPosted'
      BY <3>5 DEF SettledIsPosted
    <3> QED
      BY <3>4, <3>6 DEF KeysOK
  <2> QED
    BY <2>4, <2>5
<1>2. CASE \E S \in SUBSET Refs : GiveUp(S)
  <2>1. PICK S \in SUBSET Refs : GiveUp(S)
    BY <1>2
  <2>2. ledger' = ledger /\ (\A r \in S : auth[r].st = "active")
        /\ \A r \in Refs : auth'[r] = IF r \in S THEN [auth[r] EXCEPT !.st = "expired"] ELSE auth[r]
    BY <2>1 DEF GiveUp, Expired
  <2>3. \A r \in Refs : auth'[r].st = "settled" <=> auth[r].st = "settled"
    BY <2>2 DEF WInv, HoldsOK, HoldType
  <2>4. OnceOnly'
    BY <2>2 DEF KeysOK, OnceOnly
  <2>5. SettledIsPosted'
    BY <2>2, <2>3 DEF KeysOK, SettledIsPosted
  <2> QED
    BY <2>4, <2>5 DEF KeysOK
<1>3. CASE UNCHANGED <<auth, ledger>>
  BY <1>3 DEF KeysOK, OnceOnly, SettledIsPosted
<1> QED
  BY <1>1, <1>2, <1>3 DEF Next, TimePasses, tables

-----------------------------------------------------------------------------
(* What a call was told.                                                   *)

(* Whoever is told yes finds his command in the tables, and his receipt is *)
(* the one of its posting.                                                 *)
Told(c) ==
  LET cmd == calls[c].cmd IN
  /\ cmd \in Commands
  /\ cmd.verb \in Postings =>
       \E i \in DOMAIN ledger : ledger[i].cmd = cmd /\ calls[c].receipt = ReceiptOf(cmd, i, ledger[i].legs)
  /\ cmd.verb \notin Postings => calls[c].receipt = Nothing
  /\ cmd.verb = "authorize" => auth[cmd.ref].st # "none" /\ auth[cmd.ref].by = cmd
  /\ cmd.verb = "release" =>
       auth[cmd.ref].st = "expired" \/ (auth[cmd.ref].st = "released" /\ auth[cmd.ref].over = cmd)

Known(cmd) == cmd.verb \notin {"settle", "release"} /\ Taken(cmd)

ToldOK(c) ==
  /\ calls[c].pc \in {"new", "found", "open", "done"}
  /\ c \in Callers /\ Agreed(c) => calls[c].pc = "done" /\ Told(c)
  /\ c \in Callers /\ calls[c].pc = "found" => Known(calls[c].cmd)

(* A key that is taken stays taken, a receipt stays the same.              *)
LEMMA KnownKept ==
  ASSUME WalletAssumption, Grows, NEW cmd \in Commands, Known(cmd)
  PROVE  Known(cmd)'
<1>1. cmd.ref \in Refs
  BY DEF WalletAssumption
<1>2. CASE cmd.verb = "authorize"
  BY <1>1, <1>2 DEF Known, Taken, Grows
<1>3. CASE cmd.verb # "authorize"
  <2>1. PICK i : i \in Posted(cmd)
    BY <1>3 DEF Known, Taken
  <2>2. i \in DOMAIN ledger' /\ ledger'[i] = ledger[i]
    BY <2>1 DEF Posted, Grows
  <2>3. i \in Posted(cmd)'
    BY <2>1, <2>2 DEF Posted
  <2> QED
    BY <1>3, <2>3 DEF Known, Taken
<1> QED
  BY <1>2, <1>3

(* The receipt of a posting stays the same.                                *)
LEMMA ReceiptKept ==
  ASSUME WalletAssumption, KeysOK, Grows, NEW cmd \in Commands, NEW i \in DOMAIN ledger, ledger[i].cmd = cmd
  PROVE  ReceiptOf(cmd, i, ledger[i].legs)' = ReceiptOf(cmd, i, ledger[i].legs)
<1>1. ledger'[i] = ledger[i] /\ cmd.ref \in Refs
  BY DEF Grows, WalletAssumption
<1>2. cmd.verb = "settle" => auth[cmd.ref].st = "settled"
  BY <1>1 DEF KeysOK, SettledIsPosted
<1>3. cmd.verb = "settle" => Holder(cmd)' = Holder(cmd)
  BY <1>1, <1>2 DEF Grows, Holder
<1>4. cmd.verb = "refund" => Holder(cmd)' = Holder(cmd)
  BY DEF Holder
<1>5. OwnLeg(cmd, ledger[i].legs)' = OwnLeg(cmd, ledger[i].legs)
  BY <1>1, <1>3, <1>4 DEF OwnLeg
<1>6. \A x : LegsTotal(ledger[i].legs, x)' = LegsTotal(ledger[i].legs, x)
  BY <1>1 DEF LegsTotal
<1> QED
  BY <1>1, <1>5, <1>6 DEF ReceiptOf

(* What a call was told stays true while others go on.                     *)
LEMMA ToldKept ==
  ASSUME WalletAssumption, KeysOK, Grows, NEW c \in Calls, ToldOK(c), calls'[c] = calls[c],
         c \in Callers /\ calls[c].pc = "found" => calls[c].cmd \in Commands
  PROVE  ToldOK(c)'
<1> DEFINE cmd == calls[c].cmd
<1>1. c \in Callers /\ calls[c].pc = "found" => Known(cmd)'
  BY KnownKept DEF ToldOK
<1>2. ASSUME c \in Callers, Agreed(c) PROVE Told(c)'
  <2>1. Told(c)
    BY <1>2 DEF ToldOK
  <2>2. cmd \in Commands /\ cmd.ref \in Refs
    BY <2>1 DEF Told, WalletAssumption
  <2>3. ASSUME cmd.verb \in Postings
        PROVE  \E i \in DOMAIN ledger' : ledger'[i].cmd = cmd /\ calls'[c].receipt = ReceiptOf(cmd, i, ledger[i].legs)'
    <3>1. PICK i \in DOMAIN ledger : ledger[i].cmd = cmd /\ calls[c].receipt = ReceiptOf(cmd, i, ledger[i].legs)
      BY <2>1, <2>3 DEF Told
    <3>2. i \in DOMAIN ledger' /\ ledger'[i] = ledger[i]
      BY DEF Grows
    <3>3. ReceiptOf(cmd, i, ledger[i].legs)' = ReceiptOf(cmd, i, ledger[i].legs)
      <4> DEFINE x == cmd
      <4>1. x \in Commands /\ ledger[i].cmd = x /\ x' = x
        BY <2>2, <3>1
      <4>2. ASSUME NEW y \in Commands, ledger[i].cmd = y
            PROVE  ReceiptOf(y, i, ledger[i].legs)' = ReceiptOf(y, i, ledger[i].legs)
        BY <4>2, ReceiptKept
      <4> QED
        BY <4>1, <4>2 DEF ReceiptOf, OwnLeg, LegsTotal, Holder
    <3> QED
      BY <3>1, <3>2, <3>3
  <2>4. cmd.verb = "authorize" => auth'[cmd.ref].st # "none" /\ auth'[cmd.ref].by = cmd
    BY <2>1, <2>2 DEF Told, Grows
  <2>5. cmd.verb = "release" =>
          auth'[cmd.ref].st = "expired" \/ (auth'[cmd.ref].st = "released" /\ auth'[cmd.ref].over = cmd)
    BY <2>1, <2>2 DEF Told, Grows
  <2> QED
    BY <2>1, <2>2, <2>3, <2>4, <2>5 DEF Told
<1> QED
  BY <1>1, <1>2 DEF ToldOK, Agreed

(* Who is answered is done.                                                *)
LEMMA AnswerIs ==
  ASSUME DOMAIN calls = Calls, NEW c \in Callers, Shape(calls[c]), NEW a, NEW r, Answer(c, a, r)
  PROVE  /\ calls'[c].pc = "done" /\ calls'[c].cmd = calls[c].cmd
         /\ calls'[c].answer = a /\ calls'[c].receipt = r
         /\ \A d \in Calls : d # c => calls'[d] = calls[d]
<1> DEFINE w == calls[c]
           v == [w EXCEPT !.pc = "done", !.refs = {}, !.seen = NoRows, !.answer = a, !.receipt = r]
<1>1. calls' = [calls EXCEPT ![c] = v] /\ c \in Calls
  BY DEF Answer, Calls
<1>2. calls'[c] = v /\ \A d \in Calls : d # c => calls'[d] = calls[d]
  BY <1>1
<1>3. Shape(w)
  OBVIOUS
<1> HIDE DEF w
<1>4. v.pc = "done" /\ v.cmd = w.cmd /\ v.answer = a /\ v.receipt = r
  BY <1>3 DEF Shape
<1> QED
  BY <1>2, <1>4 DEF w

(* Who is told no was told nothing that could be wrong.                    *)
LEMMA RefusedTold ==
  ASSUME DOMAIN calls = Calls, NEW c \in Callers, Shape(calls[c]), NEW a, NEW r, Answer(c, a, r),
         a \notin {"applied", "replayed"}
  PROVE  ToldOK(c)'
<1>1. calls'[c].pc = "done" /\ calls'[c].answer = a
  BY AnswerIs
<1> QED
  BY <1>1 DEF ToldOK, Agreed

(* A replay tells what the first was told.                                 *)
LEMMA ReplayTold ==
  ASSUME WalletAssumption, KeysOK, DOMAIN calls = Calls, NEW c \in Callers, Shape(calls[c]),
         calls[c].cmd \in Commands, UNCHANGED tables, Replay(c),
         \/ Known(calls[c].cmd)
         \/ calls[c].cmd.verb = "settle" /\ auth[calls[c].cmd.ref].st = "settled"
         \/ calls[c].cmd.verb = "release" /\ auth[calls[c].cmd.ref].st \in {"released", "expired"}
  PROVE  ToldOK(c)'
<1> DEFINE cmd == calls[c].cmd
<1>1. cmd.ref \in Refs /\ cmd.verb \in Verbs
  BY DEF WalletAssumption
<1>2. CASE Answer(c, "conflict", Nothing)
  BY <1>2, RefusedTold
<1>3. CASE cmd.verb = "release" /\ ~Answer(c, "conflict", Nothing)
  <2>1. Answer(c, "replayed", Nothing) /\ ~(auth[cmd.ref].st = "released" /\ auth[cmd.ref].over # cmd)
    BY <1>3 DEF Replay
  <2>2. auth[cmd.ref].st \in {"released", "expired"}
    BY <1>3 DEF Known
  <2>3. calls'[c].pc = "done" /\ calls'[c].cmd = cmd /\ calls'[c].receipt = Nothing
    BY <2>1, AnswerIs
  <2>4. auth' = auth
    BY DEF tables
  <2>5. Told(c)'
    BY <1>3, <2>1, <2>2, <2>3, <2>4 DEF Told, Postings, Audits
  <2> QED
    BY <2>3, <2>5 DEF ToldOK
<1>4. CASE cmd.verb = "authorize" /\ ~Answer(c, "conflict", Nothing)
  <2>1. Answer(c, "replayed", Nothing) /\ auth[cmd.ref].by = cmd
    BY <1>4 DEF Replay, First
  <2>2. auth[cmd.ref].st # "none"
    BY <1>4 DEF Known, Taken
  <2>3. calls'[c].pc = "done" /\ calls'[c].cmd = cmd /\ calls'[c].receipt = Nothing
    BY <2>1, AnswerIs
  <2>4. auth' = auth
    BY DEF tables
  <2>5. Told(c)'
    BY <1>4, <2>1, <2>2, <2>3, <2>4 DEF Told, Postings, Audits
  <2> QED
    BY <2>3, <2>5 DEF ToldOK
<1>5. CASE cmd.verb \in Postings /\ ~Answer(c, "conflict", Nothing)
  <2>0. cmd.verb \notin {"release", "authorize"}
    BY <1>5 DEF Postings, Audits
  <2>1. Posted(cmd) # {}
    <3>1. CASE cmd.verb = "settle"
      BY <1>1, <3>1 DEF Known, KeysOK, SettledIsPosted, Posted
    <3>2. CASE cmd.verb # "settle"
      BY <1>5, <2>0, <3>2 DEF Known, Taken
    <3> QED
      BY <3>1, <3>2
  <2>2. PICK i \in Posted(cmd) : i = CHOOSE j \in Posted(cmd) : TRUE
    BY <2>1
  <2>3. First(cmd) = cmd /\ Answer(c, "replayed", ReceiptOf(cmd, i, ledger[i].legs))
    BY <1>5, <2>0, <2>2 DEF Replay
  <2>4. ledger[i].cmd = cmd /\ i \in DOMAIN ledger
    BY <2>0, <2>2, <2>3 DEF First, Posted
  <2>5. /\ calls'[c].pc = "done" /\ calls'[c].cmd = cmd
        /\ calls'[c].receipt = ReceiptOf(cmd, i, ledger[i].legs)
    BY <2>3, AnswerIs
  <2>6. ReceiptOf(cmd, i, ledger[i].legs)' = ReceiptOf(cmd, i, ledger[i].legs)
    <3>1. Grows
      BY DEF Grows, tables
    <3>2. ASSUME NEW y \in Commands, ledger[i].cmd = y
          PROVE  ReceiptOf(y, i, ledger[i].legs)' = ReceiptOf(y, i, ledger[i].legs)
      BY <2>4, <3>1, <3>2, ReceiptKept
    <3> QED
      BY <2>4, <2>5, <3>2 DEF ReceiptOf, OwnLeg, LegsTotal, Holder
  <2>7. ledger' = ledger
    BY DEF tables
  <2>8. Told(c)'
    BY <1>5, <2>0, <2>4, <2>5, <2>6, <2>7 DEF Told
  <2> QED
    BY <2>5, <2>8 DEF ToldOK
<1> QED
  BY <1>1, <1>2, <1>3, <1>4, <1>5 DEF Verbs

(* A call that goes on without an answer.                                  *)
LEMMA GoingOn ==
  ASSUME NEW c \in Calls, ToldOK(c), calls[c].pc \in {"new", "found", "open"},
         calls'[c].answer = calls[c].answer, calls'[c].pc \in {"new", "open"} \/ (calls'[c].pc = "found" /\ Known(calls[c].cmd)')
  PROVE  ToldOK(c)'
BY DEF ToldOK, Agreed

(* What a call needs to be judged.                                         *)
LEMMA CallerFacts ==
  ASSUME WalletAssumption, KernelAssumption, KInv, NEW c \in Callers
  PROVE  /\ c \in Calls /\ c # Scan /\ Shape(calls[c]) /\ DOMAIN calls = Calls
         /\ calls[c].pc # "new" => calls[c].cmd \in Commands
BY DEF Calls, KernelAssumption, KInv, CallOK

(* A commit tells what it wrote.                                           *)
LEMMA CommitTold ==
  ASSUME WalletAssumption, KernelAssumption, KInv, WInv, KeysOK, NEW c \in Callers, ToldOK(c), Commit(c)
  PROVE  ToldOK(c)'
<1> DEFINE cmd == calls[c].cmd
           rows == calls[c].seen
           n == Len(ledger) + 1
           told == IF cmd.verb \in Postings THEN ReceiptOf(cmd, n, Legs(cmd, rows)) ELSE Nothing
<1>1. /\ c \in Calls /\ c # Scan /\ Shape(calls[c]) /\ DOMAIN calls = Calls
      /\ calls[c].pc = "open" /\ rows # NoRows /\ cmd \in Commands
  BY CallerFacts DEF Commit
<1>2. rows = Look(Touched(cmd)) /\ HasHold(c) /\ ~Frozen(cmd)
  BY <1>1 DEF KInv, CallOK, RowsKept, Wanted
<1>3. Endable(cmd)
  BY <1>1, <1>2 DEF KInv, CallOK, HoldKept, HasHold, Endable
<1>4. CASE Answer(c, "refused", Nothing)
  BY <1>1, <1>4, RefusedTold
<1>5. CASE Taken(cmd) /\ Replay(c) /\ UNCHANGED tables
  <2>1. Known(cmd)
    BY <1>5 DEF Known, Taken
  <2> QED
    BY <1>1, <1>5, <2>1, ReplayTold
<1>6. CASE Covered(cmd, rows) /\ ~Taken(cmd) /\ Write(cmd, rows) /\ Answer(c, "applied", told)
  <2>1. Apply(cmd)
    BY <1>2, <1>3, <1>6 DEF Apply
  <2>2. calls'[c].pc = "done" /\ calls'[c].cmd = cmd /\ calls'[c].receipt = told
    <3> HIDE DEF told
    <3> QED
      BY <1>1, <1>6, AnswerIs
  <2>3. /\ cmd.verb = "authorize" => auth'[cmd.ref].st = "active" /\ auth'[cmd.ref].by = cmd
        /\ cmd.verb = "release" => auth'[cmd.ref].st = "released" /\ auth'[cmd.ref].over = cmd
        /\ cmd.verb \in {"settle", "release"} => auth'[cmd.ref].user = auth[cmd.ref].user
    BY <1>1, <2>1, ApplyHold
  <2>4. ASSUME cmd.verb \in Postings
        PROVE  \E i \in DOMAIN ledger' : ledger'[i].cmd = cmd /\ told = ReceiptOf(cmd, i, ledger[i].legs)'
    <3>1. n \in DOMAIN ledger' /\ ledger'[n] = [cmd |-> cmd, legs |-> Legs(cmd, rows)]
      BY <1>1, <1>2, <2>1, <2>4, ApplyEntry
    <3>2. PICK legs : legs = Legs(cmd, rows)
      OBVIOUS
    <3>3. PICK k : k = n
      OBVIOUS
    <3>4. ledger'[k].cmd = cmd /\ ledger'[k].legs = legs /\ k \in DOMAIN ledger'
      BY <3>1, <3>2, <3>3
    <3>5. PICK m : m = cmd
      OBVIOUS
    <3>6. ReceiptOf(m, k, legs)' = ReceiptOf(m, k, legs)
      <4>1. m.verb = "settle" => Holder(m)' = Holder(m)
        BY <2>3, <3>5 DEF Holder
      <4>2. m.verb = "refund" => Holder(m)' = Holder(m)
        BY DEF Holder
      <4> QED
        BY <4>1, <4>2 DEF ReceiptOf, OwnLeg, LegsTotal
    <3>7. told = ReceiptOf(m, k, legs)
      BY <2>4, <3>2, <3>3, <3>5
    <3>8. ReceiptOf(cmd, k, ledger[k].legs)' = ReceiptOf(m, k, legs)'
      BY <2>2, <3>4, <3>5 DEF ReceiptOf, OwnLeg, LegsTotal, Holder
    <3> QED
      BY <3>4, <3>6, <3>7, <3>8
  <2>5. Told(c)'
    <3>1. cmd.verb \notin Postings => told = Nothing
      OBVIOUS
    <3> HIDE DEF told
    <3>2. cmd.verb \in Postings =>
            \E i \in DOMAIN ledger' : ledger'[i].cmd = calls'[c].cmd
              /\ calls'[c].receipt = ReceiptOf(calls[c].cmd, i, ledger[i].legs)'
      BY <2>2, <2>4
    <3> QED
      BY <1>1, <2>2, <2>3, <3>1, <3>2 DEF Told
  <2> QED
    BY <2>2, <2>5 DEF ToldOK
<1> QED
  BY <1>4, <1>5, <1>6 DEF Commit, Refuse

(* A call that takes its hold is turned away, or goes on with no answer.   *)
LEMMA TakeHoldTold ==
  ASSUME WalletAssumption, KernelAssumption, KInv, KeysOK, NEW c \in Callers, ToldOK(c), TakeHold(c)
  PROVE  ToldOK(c)'
<1> DEFINE cmd == calls[c].cmd
<1>1. /\ c \in Calls /\ Shape(calls[c]) /\ DOMAIN calls = Calls
      /\ calls[c].pc = "open" /\ cmd \in Commands /\ cmd.verb \in {"settle", "release"}
  BY CallerFacts DEF TakeHold
<1>2. CASE \E a \in {"missing", "ended", "refused"} : Answer(c, a, Nothing)
  BY <1>1, <1>2, RefusedTold
<1>3. CASE calls' = [calls EXCEPT ![c].refs = {cmd.ref}]
  <2> DEFINE w == calls[c]
             v == [w EXCEPT !.refs = {cmd.ref}]
  <2>1. calls'[c] = v
    BY <1>1, <1>3
  <2>2. Shape(w)
    BY <1>1
  <2> HIDE DEF w
  <2>3. v.pc = w.pc /\ v.answer = w.answer
    BY <2>2 DEF Shape
  <2> HIDE DEF v
  <2>4. calls'[c].pc = "open" /\ calls'[c].answer = calls[c].answer
    BY <1>1, <2>1, <2>3 DEF w
  <2> QED
    BY <1>1, <2>4, GoingOn
<1>4. CASE Replay(c) /\ UNCHANGED tables /\ auth[cmd.ref].st \in (IF cmd.verb = "settle" THEN {"settled"} ELSE {"released", "expired"})
  BY <1>1, <1>4, ReplayTold
<1>5. CASE auth[cmd.ref].st = "none"
  <2>1. Refuse(c, "missing")
    BY <1>5 DEF TakeHold
  <2> QED
    BY <1>2, <2>1 DEF Refuse
<1>6. CASE auth[cmd.ref].st = "active"
  BY <1>2, <1>3, <1>6 DEF TakeHold, Refuse
<1>7. CASE auth[cmd.ref].st \notin {"none", "active"}
  <2>1. \/ Replay(c) /\ UNCHANGED tables /\ auth[cmd.ref].st \in (IF cmd.verb = "settle" THEN {"settled"} ELSE {"released", "expired"})
        \/ Refuse(c, "ended")
    BY <1>7 DEF TakeHold
  <2> QED
    BY <1>2, <1>4, <2>1 DEF Refuse
<1> QED
  BY <1>5, <1>6, <1>7

(* A call that begins has no answer yet; its key is in the tables or not.  *)
LEMMA BeginTold ==
  ASSUME WalletAssumption, KernelAssumption, KInv, NEW c \in Callers, ToldOK(c), NEW cmd \in Commands, Begin(c, cmd)
  PROVE  ToldOK(c)'
<1> DEFINE w == calls[c]
           p == IF Taken(cmd) THEN "found" ELSE "open"
           v == [w EXCEPT !.cmd = cmd, !.clock = late, !.pc = p]
<1>1. c \in Calls /\ Shape(calls[c]) /\ DOMAIN calls = Calls /\ calls[c].pc = "new"
  BY CallerFacts DEF Begin
<1>2. calls'[c] = v /\ UNCHANGED tables
  BY <1>1 DEF Begin
<1>3. Shape(w)
  BY <1>1
<1>4. p \in {"found", "open"} /\ (p = "found" => Taken(cmd))
  OBVIOUS
<1> HIDE DEF w, p
<1>5. v.pc = p /\ v.answer = w.answer /\ v.cmd = cmd
  BY <1>3 DEF Shape
<1> HIDE DEF v
<1>6. calls'[c].pc = p /\ calls'[c].answer = calls[c].answer /\ calls'[c].cmd = cmd
  BY <1>2, <1>5 DEF w
<1>7. p = "found" => Known(cmd)'
  BY <1>2, <1>4 DEF Known, Taken, Posted, tables
<1>8. p = "found" => Known(calls[c].cmd)'
  BY <1>6, <1>7 DEF Known, Taken, Posted
<1> QED
  BY <1>1, <1>4, <1>6, <1>8, GoingOn

(* A call that locks its accounts goes on, or is told they are frozen.     *)
LEMMA LockRowsTold ==
  ASSUME WalletAssumption, KernelAssumption, KInv, NEW c \in Calls, ToldOK(c), LockRows(c)
  PROVE  ToldOK(c)'
<1>1. Shape(calls[c]) /\ DOMAIN calls = Calls /\ calls[c].pc = "open"
  BY DEF LockRows, KInv, CallOK
<1>2. CASE c # Scan /\ Answer(c, "frozen", Nothing)
  <2>1. c \in Callers
    BY <1>2 DEF Calls
  <2> QED
    BY <1>1, <1>2, <2>1, RefusedTold
<1>3. CASE calls' = [calls EXCEPT ![c].seen = Look(Wanted(c))]
  <2> DEFINE w == calls[c]
             x == Look(Wanted(c))
             v == [w EXCEPT !.seen = x]
  <2>1. calls'[c] = v
    BY <1>1, <1>3
  <2>2. Shape(w)
    BY <1>1
  <2> HIDE DEF w, x
  <2>3. v.pc = w.pc /\ v.answer = w.answer
    BY <2>2 DEF Shape
  <2> HIDE DEF v
  <2>4. calls'[c].pc = "open" /\ calls'[c].answer = calls[c].answer
    BY <1>1, <2>1, <2>3 DEF w
  <2> QED
    BY <1>1, <2>4, GoingOn
<1> QED
  BY <1>2, <1>3 DEF LockRows, Refuse

(* A call that is rolled back starts again, or is told that it failed.     *)
LEMMA RollBackTold ==
  ASSUME WalletAssumption, KernelAssumption, KInv, NEW c \in Calls, ToldOK(c), RollBack(c)
  PROVE  ToldOK(c)'
<1> DEFINE w == calls[c]
           v == [w EXCEPT !.pc = "new", !.refs = {}, !.seen = NoRows]
           u == [w EXCEPT !.refs = {}, !.seen = NoRows, !.tries = w.tries + 1, !.clock = late]
<1>1. Shape(calls[c]) /\ DOMAIN calls = Calls /\ calls[c].pc = "open"
  BY DEF RollBack, KInv, CallOK
<1>2. CASE c # Scan /\ Answer(c, "failed", Nothing)
  <2>1. c \in Callers
    BY <1>2 DEF Calls
  <2> QED
    BY <1>1, <1>2, <2>1, RefusedTold
<1>3. CASE calls'[c] \in {u, v}
  <2>1. Shape(w) /\ w.pc = "open"
    BY <1>1
  <2> HIDE DEF w
  <2>2. v.pc = "new" /\ v.answer = w.answer /\ u.pc = "open" /\ u.answer = w.answer
    BY <2>1 DEF Shape
  <2> HIDE DEF u, v
  <2>3. calls'[c].pc \in {"new", "open"} /\ calls'[c].answer = calls[c].answer
    BY <1>3, <2>2 DEF w
  <2> QED
    BY <1>1, <2>3, GoingOn
<1>4. calls'[c] \in {u, v} \/ (c # Scan /\ Answer(c, "failed", Nothing))
  BY <1>1 DEF RollBack
<1> QED
  BY <1>2, <1>3, <1>4

(* The scan for late holds is told nothing.                                *)
LEMMA ScanTold ==
  ASSUME WalletAssumption, KernelAssumption, KInv, ToldOK(Scan), StartScan \/ FinishScan
  PROVE  ToldOK(Scan)'
<1>1. calls'[Scan].pc \in {"new", "open"}
  <2> DEFINE w == calls[Scan]
  <2>1. Shape(w) /\ DOMAIN calls = Calls /\ Scan \in Calls
    BY DEF KInv, CallOK, Calls
  <2>2. CASE StartScan
    <3>1. PICK S : calls' = [calls EXCEPT ![Scan] = [w EXCEPT !.pc = "open", !.refs = S]]
      BY <2>2 DEF StartScan
    <3>2. calls'[Scan] = [w EXCEPT !.pc = "open", !.refs = S]
      BY <2>1, <3>1
    <3> HIDE DEF w
    <3> QED
      BY <2>1, <3>2 DEF Shape
  <2>3. CASE FinishScan
    <3>1. calls' = [calls EXCEPT ![Scan] = [w EXCEPT !.pc = "new", !.refs = {}, !.seen = NoRows]]
      BY <2>3 DEF FinishScan
    <3>2. calls'[Scan] = [w EXCEPT !.pc = "new", !.refs = {}, !.seen = NoRows]
      BY <2>1, <3>1
    <3> HIDE DEF w
    <3> QED
      BY <2>1, <3>2 DEF Shape
  <2> QED
    BY <2>2, <2>3
<1> QED
  BY <1>1 DEF ToldOK, KernelAssumption

(* The invariant of the kernel: its locks, its tables, its keys, and what  *)
(* its callers were told.                                                  *)
KSound == KInv /\ WInv /\ KeysOK /\ \A c \in Calls : ToldOK(c)

(* A step of one call leaves the others alone.                             *)
LEMMA OthersWait ==
  ASSUME DOMAIN calls = Calls, KernelAssumption, NEW c \in Calls,
         Serve(c) \/ RollBack(c) \/ (\E cmd \in Commands : Begin(c, cmd)) \/ (c = Scan /\ ScanStep)
  PROVE  \A d \in Calls : d # c => calls'[d] = calls[d]
<1>1. (\E v : calls' = [calls EXCEPT ![c] = v]) => \A d \in Calls : d # c => calls'[d] = calls[d]
  OBVIOUS
<1>2. (\E a, r : Answer(c, a, r)) => \E v : calls' = [calls EXCEPT ![c] = v]
  BY DEF Answer
<1>3. Replay(c) => \E a, r : Answer(c, a, r)
  BY DEF Replay
<1>4. ASSUME Found(c) \/ TakeHold(c) PROVE \E v : calls' = [calls EXCEPT ![c] = v]
  <2>1. CASE \E a : Refuse(c, a)
    BY <1>2, <2>1 DEF Refuse
  <2>2. CASE Replay(c)
    BY <1>2, <1>3, <2>2
  <2>3. CASE calls' = [calls EXCEPT ![c].refs = {calls[c].cmd.ref}]
    BY <2>3
  <2> QED
    BY <1>4, <2>1, <2>2, <2>3 DEF Found, TakeHold
<1>5. ASSUME LockRows(c) PROVE \E v : calls' = [calls EXCEPT ![c] = v]
  BY <1>2, <1>5 DEF LockRows, Refuse
<1>6. ASSUME Commit(c) PROVE \E v : calls' = [calls EXCEPT ![c] = v]
  BY <1>2, <1>3, <1>6 DEF Commit, Refuse
<1>7. ASSUME RollBack(c) PROVE \E v : calls' = [calls EXCEPT ![c] = v]
  BY <1>2, <1>7 DEF RollBack
<1>8. ASSUME \E cmd \in Commands : Begin(c, cmd) PROVE \E v : calls' = [calls EXCEPT ![c] = v]
  BY <1>8 DEF Begin
<1>9. ASSUME c = Scan, StartScan \/ FinishScan PROVE \E v : calls' = [calls EXCEPT ![c] = v]
  BY <1>9 DEF StartScan, FinishScan
<1> QED
  BY <1>1, <1>4, <1>5, <1>6, <1>7, <1>8, <1>9 DEF Serve, ScanStep

(* What callers were told stays true.                                      *)
LEMMA ToldStep ==
  ASSUME WalletAssumption, KernelAssumption, KSound, [KNext]_vars
  PROVE  \A c \in Calls : ToldOK(c)'
<1>1. KInv' /\ [Next]_tables /\ KInv /\ WInv /\ KeysOK /\ DOMAIN calls = Calls
  BY KernelStep DEF KSound, KInv
<1>2. Grows
  BY <1>1, GrowsStep
<1>3. ASSUME NEW c \in Calls, calls'[c] = calls[c] PROVE ToldOK(c)'
  <2>1. ToldOK(c) /\ (c \in Callers /\ calls[c].pc = "found" => calls[c].cmd \in Commands)
    BY <1>1, CallerFacts DEF KSound
  <2> QED
    BY <1>1, <1>2, <1>3, <2>1, ToldKept
<1>4. ASSUME NEW c \in Calls, ToldOK(c)', \A d \in Calls : d # c => calls'[d] = calls[d]
      PROVE  \A d \in Calls : ToldOK(d)'
  BY <1>3, <1>4
<1>5. CASE \E c \in Callers : Serve(c) \/ RollBack(c) \/ \E cmd \in Commands : Begin(c, cmd)
  <2>1. PICK c \in Callers : Serve(c) \/ RollBack(c) \/ \E cmd \in Commands : Begin(c, cmd)
    BY <1>5
  <2>2. /\ c \in Calls /\ c # Scan /\ Shape(calls[c]) /\ ToldOK(c)
        /\ calls[c].pc # "new" => calls[c].cmd \in Commands
    BY <1>1, CallerFacts DEF KSound
  <2>3. \A d \in Calls : d # c => calls'[d] = calls[d]
    <3>1. Serve(c) \/ RollBack(c) \/ (\E cmd \in Commands : Begin(c, cmd)) \/ (c = Scan /\ ScanStep)
      BY <2>1
    <3> QED
      BY <1>1, <2>2, <3>1, OthersWait
  <2>4. CASE Found(c)
    <3>1. Known(calls[c].cmd) /\ Replay(c) /\ UNCHANGED tables
      BY <2>2, <2>4 DEF Found, ToldOK
    <3>2. ToldOK(c)'
      BY <1>1, <2>2, <2>4, <3>1, ReplayTold DEF Found
    <3> QED
      BY <1>4, <2>2, <2>3, <3>2
  <2>5. CASE TakeHold(c)
    BY <1>1, <1>4, <2>2, <2>3, <2>5, TakeHoldTold
  <2>6. CASE LockRows(c)
    BY <1>1, <1>4, <2>2, <2>3, <2>6, LockRowsTold
  <2>7. CASE Commit(c)
    BY <1>1, <1>4, <2>2, <2>3, <2>7, CommitTold
  <2>8. CASE RollBack(c)
    BY <1>1, <1>4, <2>2, <2>3, <2>8, RollBackTold
  <2>9. CASE \E cmd \in Commands : Begin(c, cmd)
    BY <1>1, <1>4, <2>2, <2>3, <2>9, BeginTold
  <2> QED
    BY <2>1, <2>4, <2>5, <2>6, <2>7, <2>8, <2>9 DEF Serve
<1>6. CASE ScanStep \/ RollBack(Scan)
  <2>1. Scan \in Calls /\ ToldOK(Scan) /\ Shape(calls[Scan])
    BY <1>1 DEF KSound, Calls, KInv, CallOK
  <2>2. \A d \in Calls : d # Scan => calls'[d] = calls[d]
    <3>1. Serve(Scan) \/ RollBack(Scan) \/ (\E cmd \in Commands : Begin(Scan, cmd)) \/ (Scan = Scan /\ ScanStep)
      BY <1>6
    <3> QED
      BY <1>1, <2>1, <3>1, OthersWait
  <2>3. ToldOK(Scan)'
    BY <1>1, <1>6, <2>1, ScanTold, LockRowsTold, RollBackTold DEF ScanStep
  <2> QED
    BY <1>4, <2>1, <2>2, <2>3
<1>7. CASE calls' = calls
  BY <1>3, <1>7
<1> QED
  BY <1>5, <1>6, <1>7 DEF KNext, KTimePasses, vars

(* Every step of the package keeps the whole invariant.                    *)
LEMMA KSoundStep ==
  ASSUME WalletAssumption, KernelAssumption, KSound, [KNext]_vars
  PROVE  KSound'
<1>1. KInv' /\ [Next]_tables
  BY KernelStep DEF KSound
<1>2. WInv' /\ KeysOK'
  BY <1>1, WStep, KeysStep DEF KSound
<1> QED
  BY <1>1, <1>2, ToldStep DEF KSound

(* In the beginning the whole invariant holds.                             *)
LEMMA KSoundInit == ASSUME WalletAssumption, KernelAssumption, KInit PROVE KSound
<1>1. KInv /\ WInv
  BY KernelInit, WInit DEF KInit
<1>2. KeysOK
  BY DEF KInit, Init, KeysOK, OnceOnly, SettledIsPosted, NoHold
<1>3. \A c \in Calls : ToldOK(c)
  <2>1. \A c \in Calls : calls[c] = Idle
    BY DEF KInit, Calls
  <2>2. Idle.pc = "new" /\ Idle.answer = "none"
    BY DEF Idle
  <2> QED
    BY <2>1, <2>2 DEF ToldOK, Agreed
<1> QED
  BY <1>1, <1>2, <1>3 DEF KSound

(* The whole invariant says that the wallet is sound.                      *)
LEMMA SoundIsSound == ASSUME WalletAssumption, KSound PROVE WalletIsSound
<1>1. TypeOK
  <2>1. row \in [Accounts -> [balance : Int, inFlight : Nat, limit : Nat, frozen : BOOLEAN]]
    <3>1. \A a \in Accounts : row[a] \in [balance : Int, inFlight : Int, limit : Nat, frozen : BOOLEAN]
                              /\ row[a].inFlight \in Nat
      <4> TAKE a \in Accounts
      <4>1. Active \in SUBSET Refs
        BY DEF Active
      <4> QED
        BY <4>1, HeldIsNat DEF KSound, WInv, AccountOK, RowsOK
    <3>2. \A a \in Accounts : row[a] \in [balance : Int, inFlight : Nat, limit : Nat, frozen : BOOLEAN]
      BY <3>1
    <3> QED
      BY <3>2 DEF KSound, WInv, RowsOK
  <2>2. \A r \in Refs : auth[r].st \in {"none", "active", "settled", "released", "expired"}
    BY DEF KSound, WInv, HoldsOK, HoldType
  <2> QED
    BY <2>1, <2>2 DEF TypeOK, KSound, KInv, CallOK, Apart, ToldOK, Calls
<1>2. Books /\ NeverOverspent
  BY WInvIsBooks DEF KSound, WInv
<1>3. OneReceiptPerKey
  <2> SUFFICES ASSUME NEW c \in Callers, NEW d \in Callers, Agreed(c), Agreed(d),
                      calls[c].cmd.ref = calls[d].cmd.ref, calls[c].cmd.verb = calls[d].cmd.verb
               PROVE  /\ calls[c].receipt = calls[d].receipt
                      /\ calls[c].cmd = calls[d].cmd \/ auth[calls[c].cmd.ref].st = "expired"
    BY DEF OneReceiptPerKey
  <2>1. Told(c) /\ Told(d)
    BY DEF KSound, ToldOK, Calls
  <2>2. calls[c].cmd \in Commands /\ calls[c].cmd.verb \in Verbs
    BY <2>1 DEF Told, WalletAssumption
  <2>3. CASE calls[c].cmd.verb \in Postings
    <3>1. PICK i \in DOMAIN ledger :
            ledger[i].cmd = calls[c].cmd /\ calls[c].receipt = ReceiptOf(calls[c].cmd, i, ledger[i].legs)
      BY <2>1, <2>3 DEF Told
    <3>2. PICK j \in DOMAIN ledger :
            ledger[j].cmd = calls[d].cmd /\ calls[d].receipt = ReceiptOf(calls[d].cmd, j, ledger[j].legs)
      BY <2>1, <2>3 DEF Told
    <3>3. i = j
      BY <3>1, <3>2 DEF KSound, KeysOK, OnceOnly
    <3> QED
      BY <3>1, <3>2, <3>3
  <2>4. CASE calls[c].cmd.verb = "authorize"
    BY <2>1, <2>4 DEF Told, Postings, Audits
  <2>5. CASE calls[c].cmd.verb = "release"
    BY <2>1, <2>5 DEF Told, Postings, Audits
  <2> QED
    BY <2>2, <2>3, <2>4, <2>5 DEF Verbs
<1> QED
  BY <1>1, <1>2, <1>3 DEF WalletIsSound

(* The legs of every posting cancel and make up the balances, what an      *)
(* account holds is the sum of its active holds, no user is overspent, and *)
(* all who are told yes under a key have one receipt, for any number of    *)
(* users, shards, keys, callers and commands.                              *)
THEOREM KernelIsSound ==
  ASSUME WalletAssumption, KernelAssumption
  PROVE  KSpec => []WalletIsSound
<1>1. KInit => KSound
  BY KSoundInit
<1>2. KSound /\ [KNext]_vars => KSound'
  BY KSoundStep
<1>3. KSound => WalletIsSound
  BY SoundIsSound
<1> QED
  BY <1>1, <1>2, <1>3, PTL DEF KSpec

=============================================================================
