------------------------------ MODULE Payments ------------------------------
(***************************************************************************)
(* Top-up orders: the row is inserted before the channel is called, the    *)
(* session's number is filled in afterwards, and the channel reports a     *)
(* payment as often as it likes, to several processes at a time, until it  *)
(* is told success.  Meanwhile the user's list closes orders that are      *)
(* overdue and an administrator closes others.  The transaction that       *)
(* credits an order locks its row with its first update; what it read of   *)
(* the order before is not looked at again, only compared.                 *)
(***************************************************************************)
EXTENDS Integers, FiniteSets

CONSTANTS
  Orders, Notes,    (* Notes: notifications served at the same time         *)
  Named,            (* the orders whose channel gives them another number   *)
  MaxFaults         (* bound: processes lost and transactions that fail     *)

PaymentsAssumption == Named \subseteq Orders /\ MaxFaults \in Nat

VARIABLES
  row,       (* [Orders -> status and number of the payment_orders row]     *)
  making,    (* [Orders -> step of createTopupOrder]                        *)
  session,   (* [Orders -> the channel: none, open, paid, acknowledged]     *)
  credits,   (* [Orders -> what the wallet has for its key, 0 or 1]         *)
  note,      (* [Notes -> step, order, answer]                              *)
  faults

vars == <<row, making, session, credits, note, faults>>

Idle == [pc |-> "idle", order |-> "none"]

Init ==
  /\ row = [o \in Orders |-> [st |-> "none", number |-> "own"]]
  /\ making = [o \in Orders |-> "new"] /\ session = [o \in Orders |-> "none"]
  /\ credits = [o \in Orders |-> 0] /\ note = [n \in Notes |-> Idle] /\ faults = 0

Fault == faults < MaxFaults /\ faults' = faults + 1
NoFault == UNCHANGED faults

-----------------------------------------------------------------------------
(* createTopupOrder.                                                       *)

Insert(o) ==
  /\ making[o] = "new"
  /\ row' = [row EXCEPT ![o].st = "created"]
  /\ making' = [making EXCEPT ![o] = "calling"]
  /\ NoFault /\ UNCHANGED <<session, credits, note>>

(* The channel opens a session, and its answer arrives or is lost.         *)
Open(o) ==
  /\ making[o] = "calling" /\ session[o] = "none"
  /\ session' = [session EXCEPT ![o] = "open"]
  /\ \/ making' = [making EXCEPT ![o] = "opened"] /\ NoFault
     \/ making' = [making EXCEPT ![o] = "failed"] /\ Fault
  /\ UNCHANGED <<row, credits, note>>

Unreachable(o) ==
  /\ making[o] = "calling" /\ making' = [making EXCEPT ![o] = "failed"]
  /\ Fault /\ UNCHANGED <<row, session, credits, note>>

CloseFailed(o) ==
  /\ making[o] = "failed" /\ making' = [making EXCEPT ![o] = "over"]
  /\ row' = [row EXCEPT ![o].st = IF @ = "created" THEN "closed" ELSE @]
  /\ NoFault /\ UNCHANGED <<session, credits, note>>

(* attachProviderOrderId, of an order that is still created; its failure   *)
(* is only logged.                                                         *)
Attach(o) ==
  /\ making[o] = "opened" /\ making' = [making EXCEPT ![o] = "returned"]
  /\ \/ /\ row' = [row EXCEPT ![o].number =
               IF o \in Named /\ row[o].st = "created" THEN "session" ELSE @]
        /\ NoFault
     \/ Fault /\ UNCHANGED row
  /\ UNCHANGED <<session, credits, note>>

Die(o) ==
  /\ making[o] \in {"calling", "opened", "failed"} /\ making' = [making EXCEPT ![o] = "over"]
  /\ Fault /\ UNCHANGED <<row, session, credits, note>>

-----------------------------------------------------------------------------
(* The user and the administrator.                                         *)

Pay(o) ==
  /\ making[o] = "returned" /\ session[o] = "open"
  /\ session' = [session EXCEPT ![o] = "paid"]
  /\ NoFault /\ UNCHANGED <<row, making, credits, note>>

AnyOpen(o) == row[o].st # "none"   \* mutant: closes whatever the status is
Closable(o) == row[o].st = "created"

(* expireOverdue by the list, closeOrder by an administrator: at any time. *)
Close(o) ==
  /\ Closable(o) /\ row' = [row EXCEPT ![o].st = "closed"]
  /\ NoFault /\ UNCHANGED <<making, session, credits, note>>

-----------------------------------------------------------------------------
(* handleNotify.                                                           *)

Deliver(n, o) ==
  /\ note[n] = Idle /\ session[o] \in {"paid", "acknowledged"}
  /\ note' = [note EXCEPT ![n] = [pc |-> "received", order |-> o]]
  /\ NoFault /\ UNCHANGED <<row, making, session, credits>>

Found(o) == row[o].st # "none"   (* by number, or by the order id while there is none *)

To(n, pc) == note' = [note EXCEPT ![n].pc = pc]

Look(n) ==
  LET o == note[n].order IN
  /\ note[n].pc = "received"
  /\ To(n, IF ~Found(o) THEN "fail" ELSE IF row[o].st = "credited" THEN "success" ELSE "crediting")
  /\ NoFault /\ UNCHANGED <<row, making, session, credits>>

(* From the update that locks the row to the commit: the wallet takes a    *)
(* key it has for a repetition.                                            *)
Credit(n) ==
  LET o == note[n].order IN
  /\ row' = [row EXCEPT ![o].st = "credited"] /\ credits' = [credits EXCEPT ![o] = 1]
  /\ To(n, "success") /\ NoFault

MarkPaid(n) ==
  LET o == note[n].order IN
  /\ note[n].pc = "crediting"
  /\ IF row[o].st = "created" THEN Credit(n)
     ELSE To(n, "reread") /\ NoFault /\ UNCHANGED <<row, credits>>
  /\ UNCHANGED <<making, session>>

Reading(st) ==
  CASE st = "credited" -> "success" [] st = "closed" -> "reviving" [] OTHER -> "fail"
Reread(n) ==
  /\ note[n].pc = "reread" /\ To(n, Reading(row[note[n].order].st))
  /\ NoFault /\ UNCHANGED <<row, making, session, credits>>

Revive(n) ==
  LET o == note[n].order IN
  /\ note[n].pc = "reviving"
  /\ IF row[o].st = "closed" THEN Credit(n)
     ELSE To(n, "fail") /\ NoFault /\ UNCHANGED <<row, credits>>
  /\ UNCHANGED <<making, session>>

(* The transaction is rolled back: a deadlock, a lost connection.          *)
SayNo == "fail"
Fail(n) ==
  /\ note[n].pc \in {"crediting", "reread", "reviving"} /\ To(n, SayNo) /\ Fault
  /\ UNCHANGED <<row, making, session, credits>>

Reply(n) ==
  LET o == note[n].order IN
  /\ note[n].pc \in {"success", "fail"}
  /\ session' = [session EXCEPT ![o] = IF note[n].pc = "success" THEN "acknowledged" ELSE @]
  /\ note' = [note EXCEPT ![n] = Idle]
  /\ NoFault /\ UNCHANGED <<row, making, credits>>

(* The process dies, or the answer does not arrive.                        *)
Lose(n) ==
  /\ note[n] # Idle /\ note' = [note EXCEPT ![n] = Idle] /\ Fault
  /\ UNCHANGED <<row, making, session, credits>>

Serve(n) == Look(n) \/ MarkPaid(n) \/ Reread(n) \/ Revive(n) \/ Reply(n)
Next ==
  \/ \E o \in Orders :
       \/ Insert(o) \/ Open(o) \/ Unreachable(o) \/ CloseFailed(o) \/ Attach(o) \/ Die(o)
       \/ Pay(o) \/ Close(o)
  \/ \E n \in Notes : Serve(n) \/ Fail(n) \/ Lose(n) \/ \E o \in Orders : Deliver(n, o)

Spec == Init /\ [][Next]_vars

(* A channel repeats a notification until it is acknowledged.              *)
Repeat(o) == session[o] = "paid" /\ \E n \in Notes : Deliver(n, o)
Fairness ==
  /\ \A n \in Notes : WF_vars(Serve(n))
  /\ \A o \in Orders : SF_vars(Repeat(o))

-----------------------------------------------------------------------------
(* Properties.                                                             *)

(* The types; a session the user could pay has a row to be credited by.    *)
TypeOK ==
  /\ \A o \in Orders : session[o] # "none" => row[o].st # "none"
  /\ \A o \in Orders :
       /\ row[o].st \in {"none", "created", "credited", "closed"} /\ row[o].number \in {"own", "session"}
       /\ making[o] \in {"new", "calling", "opened", "failed", "returned", "over"}
       /\ session[o] \in {"none", "open", "paid", "acknowledged"} /\ credits[o] \in {0, 1}
  /\ \A n \in Notes : note[n] = Idle \/ note[n].order \in Orders
  /\ faults \in 0 .. MaxFaults

(* The status of an order and the wallet agree, with orders closed, paid   *)
(* and reported in any order; nobody is credited who has not paid.         *)
StatusIsMoney ==
  \A o \in Orders :
    /\ row[o].st = "credited" <=> credits[o] = 1
    /\ credits[o] = 1 => session[o] \in {"paid", "acknowledged"}

(* A channel that was told to stop reporting has been credited.            *)
AckedIsCredited == \A o \in Orders : session[o] = "acknowledged" => credits[o] = 1

(* Who has paid is credited, closed order or lost number as it may be.     *)
PaidIsCredited == \A o \in Orders : session[o] = "paid" ~> credits[o] = 1

=============================================================================
