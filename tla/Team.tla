-------------------------------- MODULE Team --------------------------------
(***************************************************************************)
(* The members of one organisation: invited by its owner, joining under    *)
(* the lock of the row of its subscription, removed again, while that      *)
(* subscription is renewed, given more seats, cancelled or lapses.  Who    *)
(* accepts is four steps: the look at the invitation, the statement that   *)
(* picks the row of the subscription and may have to wait for its lock,    *)
(* the count under the lock, and the commit.  The owner holds a seat and   *)
(* cannot be removed; an organisation is never given a smaller number of   *)
(* seats, and when its subscription is over for good nobody joins it.      *)
(***************************************************************************)
EXTENDS Integers, FiniteSets, FiniteSetsExt

CONSTANTS
  Users, Invitations, Calls,
  Seats,            (* the quantity of the first subscription              *)
  MaxSeats, MaxRows (* bounds: the quantity, and the rows that follow      *)

TeamAssumption ==
  Seats \in Nat \ {0} /\ MaxSeats \in Nat /\ MaxRows \in Nat

VARIABLES
  member,  (* [Users -> none, active, left]                                *)
  inv,     (* [Invitations -> status, user, whether it has expired]        *)
  sub,     (* the latest subscription: row, status, seats, whether lapsed  *)
  call     (* [Calls -> step, invitation, row]                             *)

vars == <<member, inv, sub, call>>

NoRow == 0
Idle == [pc |-> "idle", inv |-> "none", row |-> NoRow]

Init ==
  /\ member = [u \in Users |-> "none"]
  /\ inv = [i \in Invitations |-> [st |-> "none", user |-> "none", expired |-> FALSE]]
  /\ sub = [row |-> 1, st |-> "active", seats |-> Seats, lapsed |-> FALSE]
  /\ call = [c \in Calls |-> Idle]

Members == 1 + Cardinality({u \in Users : member[u] = "active"})
Open(i) == inv[i].st = "pending" /\ ~inv[i].expired
Pending == Cardinality({i \in Invitations : Open(i)})
Usable == sub.st = "active" /\ ~sub.lapsed

Say(c, answer) == call' = [call EXCEPT ![c].pc = answer]

-----------------------------------------------------------------------------
(* The owner invites: what it reads is not locked until it inserts.        *)

PendingCap == Min({Max({sub.seats - Members, 1}) * 2, 20})

CheckInvite(c, i, u) ==
  /\ call[c].pc = "idle" /\ inv[i].st = "none"
  /\ Usable /\ Members < sub.seats /\ Pending < PendingCap
  /\ \A d \in Calls : call[d].inv # i
  /\ call' = [call EXCEPT ![c] = [Idle EXCEPT !.pc = "inviting", !.inv = i]]
  /\ inv' = [inv EXCEPT ![i].user = u]
  /\ UNCHANGED <<member, sub>>

InsertInvitation(c) ==
  /\ call[c].pc = "inviting"
  /\ inv' = [inv EXCEPT ![call[c].inv].st = "pending"]
  /\ Say(c, "invited") /\ UNCHANGED <<member, sub>>

(* Compare-and-set of the status; an expired invitation can be revoked.    *)
Revoke(i) ==
  /\ inv[i].st = "pending"
  /\ inv' = [inv EXCEPT ![i].st = "revoked"] /\ UNCHANGED <<member, sub, call>>

Remove(u) ==
  /\ member[u] = "active"
  /\ member' = [member EXCEPT ![u] = "left"] /\ UNCHANGED <<inv, sub, call>>

-----------------------------------------------------------------------------
(* The invited user accepts.                                               *)

LookUp(c, i) ==
  /\ call[c].pc = "idle" /\ Open(i)
  /\ call' = [call EXCEPT ![c] = [Idle EXCEPT !.pc = "found", !.inv = i]]
  /\ UNCHANGED <<member, inv, sub>>

(* lockActiveOrgSubscription: the row is chosen from the snapshot of the   *)
(* statement, and when it had to wait its conditions are tested again on   *)
(* that row only.                                                          *)
Aim(c) ==
  /\ call[c].pc = "found"
  /\ IF Usable THEN call' = [call EXCEPT ![c].pc = "waiting", ![c].row = sub.row]
               ELSE Say(c, "no_subscription")
  /\ UNCHANGED <<member, inv, sub>>

Locked == \E c \in Calls : call[c].pc = "counted"

TakeSeat(c) ==
  /\ call[c].pc = "waiting" /\ ~Locked
  /\ Say(c, CASE sub.row # call[c].row \/ sub.st # "active" -> "no_subscription"
              [] Members >= sub.seats -> "seats_full"
              [] OTHER -> "counted")
  /\ UNCHANGED <<member, inv, sub>>

Flips(i) == Open(i)

JoinAnyway(c) ==   \* mutant: the member stays when the flip finds no row
  LET i == call[c].inv IN
  /\ call[c].pc = "counted"
  /\ inv' = [inv EXCEPT ![i].st = IF Flips(i) THEN "accepted" ELSE @]
  /\ member' = [member EXCEPT ![inv[i].user] = "active"]
  /\ Say(c, "joined") /\ UNCHANGED sub

(* insertOrReviveMember, then the flip of the invitation: no row, no       *)
(* member.                                                                 *)
Join(c) ==
  LET i == call[c].inv IN
  /\ call[c].pc = "counted"
  /\ IF Flips(i)
     THEN /\ inv' = [inv EXCEPT ![i].st = "accepted"]
          /\ member' = [member EXCEPT ![inv[i].user] = "active"]
          /\ Say(c, "joined")
     ELSE Say(c, "invitation_invalid") /\ UNCHANGED <<member, inv>>
  /\ UNCHANGED sub

Abandon(c) ==
  /\ call[c].pc \in {"found", "waiting", "counted"}
  /\ Say(c, "failed") /\ UNCHANGED <<member, inv, sub>>

-----------------------------------------------------------------------------
(* The subscription: each transaction that ends its row locks it.          *)

Shrink == 1 .. MaxSeats   \* mutant: fewer seats than before
Grow == sub.seats .. MaxSeats

(* A renewal keeps the number of seats, a change may raise it.             *)
Replace(n) ==
  /\ sub.st = "active" /\ ~Locked /\ sub.row < MaxRows
  /\ n \in Grow
  /\ sub' = [row |-> sub.row + 1, st |-> "active", seats |-> n, lapsed |-> FALSE]
  /\ UNCHANGED <<member, inv, call>>

End ==
  /\ sub.st = "active" /\ ~Locked
  /\ sub' = [sub EXCEPT !.st = "ended"] /\ UNCHANGED <<member, inv, call>>

Lapse ==
  /\ ~sub.lapsed /\ sub' = [sub EXCEPT !.lapsed = TRUE]
  /\ UNCHANGED <<member, inv, call>>

Expire(i) ==
  /\ Open(i) /\ inv' = [inv EXCEPT ![i].expired = TRUE]
  /\ UNCHANGED <<member, sub, call>>

Next ==
  \/ \E c \in Calls :
       \/ \E i \in Invitations : LookUp(c, i) \/ \E u \in Users : CheckInvite(c, i, u)
       \/ InsertInvitation(c) \/ Aim(c) \/ TakeSeat(c) \/ Join(c) \/ Abandon(c)
  \/ \E i \in Invitations : Revoke(i) \/ Expire(i)
  \/ \E u \in Users : Remove(u)
  \/ \E n \in 1 .. MaxSeats : Replace(n)
  \/ End \/ Lapse

Spec == Init /\ [][Next]_vars

-----------------------------------------------------------------------------
(* Properties.                                                             *)

(* Every variable keeps its type, and no two calls hold the lock.          *)
TypeOK ==
  /\ member \in [Users -> {"none", "active", "left"}]
  /\ \A i \in Invitations : inv[i].st \in {"none", "pending", "accepted", "revoked"}
  /\ sub.row \in 1 .. MaxRows /\ sub.seats \in 1 .. MaxSeats
  /\ Cardinality({c \in Calls : call[c].pc = "counted"}) <= 1

(* org.repo.ts: the members never outnumber the seats, with users who      *)
(* accept at the same time, come back after they were removed, or accept   *)
(* while the subscription is changed.                                      *)
MembersFitSeats == Members <= sub.seats

(* An invitation lets in one user, once, and not after it was revoked or   *)
(* has expired: what became of it is final.                                *)
InvitationSettled ==
  \A i \in Invitations : inv[i].st \in {"accepted", "revoked"} => inv'[i].st = inv[i].st

(* Who joins does so through an invitation of his own that was open.       *)
InvitedJoins ==
  \A u \in Users : member[u] # "active" /\ member'[u] = "active" =>
    \E i \in Invitations : Open(i) /\ inv[i].user = u /\ inv'[i].st = "accepted"

(* org.service.ts: who is told that the organisation has no subscription   *)
(* any more is told so because it has none.                                *)
NoneMeansNone ==
  [][\A c \in Calls : call[c].pc # "no_subscription" /\ call'[c].pc = "no_subscription"
       => ~Usable]_vars
=============================================================================
