------------------------------- MODULE Signup -------------------------------
(***************************************************************************)
(* How an account comes to be: by a code that is mailed to an address, or  *)
(* by the answer of a platform.  A challenge is committed first and mailed *)
(* afterwards; a delivery that fails withdraws it, a process that dies     *)
(* leaves it, and until its cooldown is over nobody may ask again.  The    *)
(* account is committed next, then its gift, then the reward of who        *)
(* invited it, each in a transaction of its own.                           *)
(***************************************************************************)
EXTENDS Integers

CONSTANTS
  Calls, Ids,      (* requests at the same time; rows of identity_challenges *)
  MaxTries,        (* attempts of a challenge                                *)
  MaxFaults        (* bound: processes lost, mails and wallets that fail     *)

Accounts == {"mail", "platform"}

SignupAssumption ==
  MaxTries \in Nat \ {0} /\ MaxFaults \in Nat

VARIABLES
  ch,        (* [Ids -> state, attempts, cooled, the mail that carries it]  *)
  noted,     (* deliverIps: the request whose address the next mail names   *)
  account, gifted,   (* [Accounts -> BOOLEAN] rows of users, wallet credits *)
  related, bonus,    (* the referral's row, the rewards that were paid      *)
  call, faults

vars == <<ch, noted, account, gifted, related, bonus, call, faults>>

NoOne == "nobody"
Blank == [st |-> "none", tries |-> 0, cooled |-> FALSE, for |-> NoOne, mail |-> "unsent"]
Idle == [pc |-> "idle", for |-> "mail", id |-> "none"]

Init ==
  /\ ch = [i \in Ids |-> Blank] /\ noted = NoOne
  /\ account = [a \in Accounts |-> FALSE] /\ gifted = [a \in Accounts |-> FALSE]
  /\ related = FALSE /\ bonus = {} /\ call = [c \in Calls |-> Idle] /\ faults = 0

At(c, pc) == call[c].pc = pc
To(c, pc) == call' = [call EXCEPT ![c].pc = pc]
Fine == UNCHANGED faults
Fault == faults < MaxFaults /\ faults' = faults + 1
books == <<account, gifted, related, bonus>>

Live(i) == ch[i].st = "live"
Usable(i) == Live(i) /\ ch[i].tries < MaxTries
Over(i) == [ch EXCEPT ![i] = Blank]   (* consumed or aborted: never looked at again *)

-----------------------------------------------------------------------------
(* register: the address is not taken, and a code is issued for it.        *)

Register(c) ==
  /\ call[c] = Idle /\ ~account["mail"]
  /\ To(c, "asked") /\ Fine /\ UNCHANGED <<ch, noted, books>>

(* issue: the request's address is kept under the email, and then the      *)
(* challenge begins.                                                       *)
Note(c) ==
  /\ At(c, "asked") /\ noted' = c /\ To(c, "begin")
  /\ Fine /\ UNCHANGED <<ch, books>>

Replaced == [i \in Ids |-> Blank]

(* beginChallenge, under the advisory lock of the address; the unique      *)
(* index admits one live challenge.                                        *)
Begin(c) ==
  /\ At(c, "begin") /\ \A i \in Ids : Live(i) => ch[i].cooled
  /\ IF \E i \in Ids : Replaced[i].st = "live"
     THEN To(c, "cooldown") /\ UNCHANGED ch
     ELSE \E i \in Ids :
            /\ ~Live(i) /\ \A d \in Calls : call[d].id # i
            /\ ch' = [Replaced EXCEPT ![i] = [Blank EXCEPT !.st = "live", !.for = c]]
            /\ call' = [call EXCEPT ![c] = [@ EXCEPT !.pc = "deliver", !.id = i]]
  /\ Fine /\ UNCHANGED <<noted, books>>

TooSoon(c) ==
  /\ At(c, "begin") /\ \E i \in Ids : Live(i) /\ ~ch[i].cooled
  /\ To(c, "cooldown") /\ Fine /\ UNCHANGED <<ch, noted, books>>

(* The mail names the request that was kept last; the code in it is of no  *)
(* use when another challenge took its place.                              *)
Deliver(c) ==
  /\ At(c, "deliver") /\ call' = [call EXCEPT ![c] = Idle]
  /\ ch' = IF Live(call[c].id) THEN [ch EXCEPT ![call[c].id].mail = noted] ELSE ch
  /\ noted' = NoOne
  /\ Fine /\ UNCHANGED books

DeliveryFails(c) ==
  /\ At(c, "deliver") /\ To(c, "unsent") /\ noted' = NoOne
  /\ Fault /\ UNCHANGED <<ch, books>>

(* abortChallenge, whose failure is swallowed.                             *)
Withdraw(c) ==
  LET i == call[c].id IN
  /\ At(c, "unsent") /\ To(c, "failed")
  /\ \/ ch' = (IF Live(i) THEN Over(i) ELSE ch) /\ Fine
     \/ UNCHANGED ch /\ Fault
  /\ UNCHANGED <<noted, books>>

(* Time: the cooldown ends, and later the code expires, *)
(* as one that has no attempt left.                                        *)
Cool(i) ==
  /\ Live(i) /\ ~ch[i].cooled /\ ch' = [ch EXCEPT ![i].cooled = TRUE]
  /\ Fine /\ UNCHANGED <<noted, books, call>>

Expire(i) ==
  /\ Usable(i) /\ ch[i].cooled
  /\ ch' = [ch EXCEPT ![i].tries = MaxTries]
  /\ Fine /\ UNCHANGED <<noted, books, call>>

-----------------------------------------------------------------------------
(* verifyRegistration.                                                     *)

(* One statement counts the attempt and, when the code is right, uses it   *)
(* up.                                                                     *)
VerifyRight(c, i) ==
  /\ call[c] = Idle /\ Usable(i) /\ ch[i].mail # "unsent"
  /\ ch' = Over(i)
  /\ To(c, "insert") /\ Fine /\ UNCHANGED <<noted, books>>

VerifyWrong(c, i) ==
  /\ call[c] = Idle /\ Usable(i)
  /\ ch' = [ch EXCEPT ![i].tries = @ + 1]
  /\ Fine /\ UNCHANGED <<noted, books, call>>

(* callback: the account is looked up and, when there is none, inserted.   *)
Callback(c) ==
  /\ call[c] = Idle
  /\ call' = [call EXCEPT ![c] = [@ EXCEPT !.for = "platform",
                                    !.pc = IF account["platform"] THEN "session" ELSE "insert"]]
  /\ Fine /\ UNCHANGED <<ch, noted, books>>

Rewarded(c) == "gift"
Insert(c) ==
  LET a == call[c].for IN
  /\ At(c, "insert") /\ ~account[a]
  /\ account' = [account EXCEPT ![a] = TRUE] /\ To(c, Rewarded(c))
  /\ Fine /\ UNCHANGED <<ch, noted, gifted, related, bonus>>

(* The unique index: the driver's error is the cause of the one that is    *)
(* caught, whose own code is looked at; it is thrown on.                   *)
InsertConflicts(c) ==
  /\ At(c, "insert") /\ account[call[c].for]
  /\ To(c, "error") /\ Fine /\ UNCHANGED <<ch, noted, books>>

-----------------------------------------------------------------------------
(* The gift, the reward, the session.                                      *)

NextStep(c) == IF call[c].for = "mail" THEN "refer" ELSE "session"
Gift(c) ==
  /\ At(c, "gift") /\ To(c, NextStep(c))
  /\ gifted' = [gifted EXCEPT ![call[c].for] = TRUE]
  /\ Fine /\ UNCHANGED <<ch, noted, account, related, bonus>>

GiftFails(c) ==
  /\ At(c, "gift") /\ To(c, NextStep(c))
  /\ Fault /\ UNCHANGED <<ch, noted, books>>

Both == related' = TRUE /\ bonus' = {"inviter", "invitee"}

(* applyReferral, of a registration that names an inviter: the relation    *)
(* and both rewards are one transaction, whose failure is swallowed.       *)
Refer(c) ==
  /\ At(c, "refer") /\ To(c, "session")
  /\ \/ Both /\ Fine
     \/ UNCHANGED <<related, bonus>> /\ Fine   (* no inviter is named       *)
     \/ UNCHANGED <<related, bonus>> /\ Fault
  /\ UNCHANGED <<ch, noted, account, gifted>>

Answer(c) ==
  /\ call[c].pc \in {"cooldown", "failed", "session", "error"}
  /\ call' = [call EXCEPT ![c] = Idle]
  /\ Fine /\ UNCHANGED <<ch, noted, books>>

(* The process is lost with all its requests and what it noted.            *)
Crash ==
  /\ call # [c \in Calls |-> Idle] /\ call' = [c \in Calls |-> Idle] /\ noted' = NoOne
  /\ Fault /\ UNCHANGED <<ch, books>>

Serve(c) ==
  \/ Note(c) \/ Begin(c) \/ TooSoon(c) \/ Deliver(c) \/ DeliveryFails(c) \/ Withdraw(c)
  \/ Insert(c) \/ InsertConflicts(c) \/ Gift(c) \/ GiftFails(c) \/ Refer(c) \/ Answer(c)

Next ==
  \/ \E c \in Calls : Register(c) \/ Serve(c) \/ Callback(c)
  \/ Crash
  \/ \E i \in Ids : Cool(i) \/ Expire(i)
  \/ \E c \in Calls, i \in Ids : VerifyRight(c, i) \/ VerifyWrong(c, i)

Spec == Init /\ [][Next]_vars

-----------------------------------------------------------------------------
(* Properties.                                                             *)

TypeOK ==
  /\ \A i \in Ids :
       ch[i].st \in {"none", "live"} /\ ch[i].tries \in 0 .. MaxTries
  /\ \A i, j \in Ids : Live(i) /\ Live(j) => i = j
  /\ noted \in Calls \cup {NoOne} /\ bonus \subseteq {"inviter", "invitee"}
  /\ \A c \in Calls : call[c].pc \in {"idle", "asked", "begin", "deliver", "unsent", "failed",
                        "cooldown", "insert", "gift", "refer", "session", "error"}
  /\ faults \in 0 .. MaxFaults

(* Both sides of an invitation are rewarded or neither, with the relation, *)
(* and only for an account that is there.                                  *)
RewardedTogether ==
  /\ bonus = IF related THEN {"inviter", "invitee"} ELSE {}
  /\ related => account["mail"]

(* A gift is missing only when something was lost: an account that has     *)
(* none is about to get it, or a fault of its own took it.                 *)
GiftsAccounted ==
  /\ \A a \in Accounts : gifted[a] => account[a]
  /\ \A a \in Accounts : account[a] /\ ~gifted[a] =>
       faults > 0 \/ \E c \in Calls : At(c, "gift") /\ call[c].for = a

(* oauth.service.ts: a login that finds the account inserted by another    *)
(* looks it up again.                                                      *)
FoundOrCreated == \A c \in Calls : call[c].for = "platform" => ~At(c, "error")

=============================================================================
