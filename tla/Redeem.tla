------------------------------- MODULE Redeem -------------------------------
(***************************************************************************)
(* Redeem codes.  An administrator makes a batch of codes in one           *)
(* transaction and may revoke a code; users redeem codes, several requests *)
(* at a time on several replicas.  A redemption counts the attempt in      *)
(* Redis, then runs one transaction: it takes the code with one            *)
(* conditional update, which locks the row until the transaction ends, and *)
(* credits the wallet under the code's own key.  A process may die, and a  *)
(* credit may fail, at any point of it.                                    *)
(***************************************************************************)
EXTENDS Integers, FiniteSets

CONSTANTS
  Codes, Batch,          (* Batch: the codes made; the others are guesses   *)
  Users, Calls,          (* Calls: redemptions served at the same time      *)
  Expiry,                (* [Codes -> the time the code expires, 0: never]  *)
  PerMinuteLimit,        (* attempts of a user that one window lets through *)
  MaxTime, MaxCalls,     (* bounds: the clock, the redemptions begun        *)
  MaxFaults              (* bound: processes lost and credits that fail     *)

RedeemAssumption ==
  /\ Batch \subseteq Codes
  /\ Expiry \in [Codes -> Nat] /\ PerMinuteLimit \in Nat \ {0}
  /\ MaxTime \in Nat /\ MaxCalls \in Nat /\ MaxFaults \in Nat

VARIABLES
  code,      (* [Codes -> status and usedBy of the redeem_codes row]        *)
  usedCount, (* used_count of the batch's row                               *)
  claimed,   (* [Codes -> the call whose open transaction took the row]     *)
  booked,    (* [Codes -> the user that has the credit of its wallet key]   *)
  window,    (* [Users -> the Redis counter: attempts, and whether it ends] *)
  call,      (* [Calls -> pc, user, code, time read, credit made, answer]   *)
  time, begun, faults

vars == <<code, usedCount, claimed, booked, window, call, time, begun, faults>>

Nobody == "nobody"
Idle == [pc |-> "idle", user |-> Nobody, code |-> "none", at |-> 0, ans |-> "none"]

Init ==
  /\ code = [c \in Codes |-> [st |-> "absent", by |-> Nobody]]
  /\ usedCount = 0 /\ claimed = [c \in Codes |-> Nobody]
  /\ booked = [c \in Codes |-> Nobody]
  /\ window = [u \in Users |-> [n |-> 0, ttl |-> FALSE]]
  /\ call = [k \in Calls |-> Idle]
  /\ time = 1 /\ begun = 0 /\ faults = 0

Fault == faults < MaxFaults /\ faults' = faults + 1
Set(k, pc, ans) == call' = [call EXCEPT ![k].pc = pc, ![k].ans = ans]

-----------------------------------------------------------------------------
(* The administrator.                                                      *)

(* insertBatchWithCodes: the batch and all its codes, or nothing.          *)
CreateBatch ==
  /\ \A c \in Codes : code[c].st = "absent"
  /\ code' = [c \in Codes |-> [code[c] EXCEPT !.st = IF c \in Batch THEN "unused" ELSE @]]
  /\ usedCount' = 0
  /\ UNCHANGED <<claimed, booked, window, call, time, begun, faults>>

(* revokeCode, 0 to 2; of any other code it answers 404 and changes nothing *)
Revoke(c) ==
  /\ code[c].st = "unused" /\ claimed[c] = Nobody
  /\ code' = [code EXCEPT ![c].st = "revoked"]
  /\ UNCHANGED <<usedCount, claimed, booked, window, call, time, begun, faults>>

-----------------------------------------------------------------------------
(* redeem.                                                                 *)

(* The fixed-window script: the first hit of a window sets its end.        *)
Hit(u) ==
  window' = [window EXCEPT ![u] = [n |-> @.n + 1, ttl |-> @.ttl \/ @.n = 0]]

(* Nobody can send a code of the batch before it was made.                 *)
Begin(k, u, c) ==
  /\ c \in Batch => code[c].st /= "absent"
  /\ call[k].pc = "idle" /\ begun < MaxCalls /\ begun' = begun + 1
  /\ \/ /\ Hit(u) /\ UNCHANGED faults
        /\ call' = [call EXCEPT ![k] = [Idle EXCEPT !.user = u, !.code = c,
             !.pc = IF window'[u].n > PerMinuteLimit THEN "done" ELSE "counted",
             !.ans = IF window'[u].n > PerMinuteLimit THEN "redeem_rate_limited" ELSE "none"]]
     \/ /\ Fault /\ UNCHANGED window
        /\ call' = [call EXCEPT ![k] = [Idle EXCEPT !.user = u, !.code = c,
                      !.pc = "done", !.ans = "rate_counter_unavailable"]]
  /\ UNCHANGED <<code, usedCount, claimed, booked, time>>

(* The transaction begins and the update is sent, with the time read now.  *)
Send(k) ==
  /\ call[k].pc = "counted"
  /\ call' = [call EXCEPT ![k].pc = "sent", ![k].at = time]
  /\ UNCHANGED <<code, usedCount, claimed, booked, window, time, begun, faults>>

Fits(k, c) == code[c].st = "unused" /\ (Expiry[c] = 0 \/ Expiry[c] > call[k].at)

(* claim: the update waits for the transaction that holds the row and then *)
(* looks at what that left.  A row it takes is its own until it ends.      *)
Claim(k) ==
  LET c == call[k].code IN
  /\ call[k].pc = "sent" /\ claimed[c] = Nobody
  /\ IF Fits(k, c)
       THEN claimed' = [claimed EXCEPT ![c] = k] /\ Set(k, "claimed", "none")
       ELSE UNCHANGED claimed /\ Set(k, "missed", "none")
  /\ UNCHANGED <<code, usedCount, booked, window, time, begun, faults>>

(* findByCodeHash after a claim that took nothing: a later statement, which *)
(* sees what was committed since.                                          *)
Classify(k) ==
  LET st == code[call[k].code].st IN
  /\ call[k].pc = "missed"
  /\ Set(k, "done", CASE st = "absent"  -> "invalid_code"
                      [] st = "revoked" -> "code_revoked"
                      [] st = "used"    -> "code_already_used"
                      [] OTHER          -> "code_expired")
  /\ UNCHANGED <<code, usedCount, claimed, booked, window, time, begun, faults>>

(* wallet.credit in the same transaction: a key that is booked is replayed *)
(* for its own user and refused to another.                                *)
Credit(k) ==
  LET c == call[k].code IN
  /\ call[k].pc = "claimed" /\ UNCHANGED faults
  /\ IF booked[c] \in {Nobody, call[k].user}
       THEN Set(k, "credited", "none") /\ UNCHANGED claimed
       ELSE /\ Set(k, "done", "error")
            /\ claimed' = [claimed EXCEPT ![c] = Nobody]
  /\ UNCHANGED <<code, usedCount, booked, window, time, begun>>
(* The credit fails: the error leaves the transaction, which rolls back.   *)
CreditFails(k) ==
  /\ call[k].pc = "claimed" /\ Fault
  /\ claimed' = [claimed EXCEPT ![call[k].code] = Nobody]
  /\ Set(k, "done", "error")
  /\ UNCHANGED <<code, usedCount, booked, window, time, begun>>

(* The commit shows the code's new status and the credit together.         *)
Commit(k) ==
  LET c == call[k].code IN
  /\ call[k].pc = "credited"
  /\ code' = [code EXCEPT ![c] = [st |-> "used", by |-> call[k].user]]
  /\ booked' = [booked EXCEPT ![c] = call[k].user]
  /\ claimed' = [claimed EXCEPT ![c] = Nobody]
  /\ Set(k, "done", "ok")
  /\ UNCHANGED <<usedCount, window, time, begun, faults>>

(* The process dies: what was not committed never happened.                *)
Dies(k) ==
  /\ call[k].pc \in {"counted", "sent", "missed", "claimed", "credited"} /\ Fault
  /\ claimed' = [c \in Codes |-> IF claimed[c] = k THEN Nobody ELSE claimed[c]]
  /\ Set(k, "done", "lost")
  /\ UNCHANGED <<code, usedCount, booked, window, time, begun>>

(* The caller comes again, or another one takes its place.                 *)
Again(k) ==
  /\ call[k].pc = "done" /\ begun < MaxCalls
  /\ call' = [call EXCEPT ![k] = Idle]
  /\ UNCHANGED <<code, usedCount, claimed, booked, window, time, begun, faults>>

-----------------------------------------------------------------------------
Tick ==
  /\ time < MaxTime /\ time' = time + 1
  /\ UNCHANGED <<code, usedCount, claimed, booked, window, call, begun, faults>>

(* Redis drops a counter whose end was set.                                *)
WindowEnds(u) ==
  /\ window[u].ttl /\ window' = [window EXCEPT ![u] = [n |-> 0, ttl |-> FALSE]]
  /\ UNCHANGED <<code, usedCount, claimed, booked, call, time, begun, faults>>

Serve(k) ==
  Send(k) \/ Claim(k) \/ Classify(k) \/ Credit(k) \/ CreditFails(k) \/ Commit(k)

Next ==
  \/ CreateBatch \/ Tick
  \/ \E c \in Codes : Revoke(c)
  \/ \E k \in Calls, u \in Users, c \in Codes : Begin(k, u, c)
  \/ \E k \in Calls : Serve(k) \/ Dies(k) \/ Again(k)
  \/ \E u \in Users : WindowEnds(u)

Spec == Init /\ [][Next]_vars

-----------------------------------------------------------------------------
TypeOK ==
  /\ code \in [Codes -> [st : {"absent", "unused", "used", "revoked"},
                         by : Users \cup {Nobody}]]
  /\ usedCount \in Nat /\ claimed \in [Codes -> Calls \cup {Nobody}]
  /\ booked \in [Codes -> Users \cup {Nobody}]
  /\ window \in [Users -> [n : 0..MaxCalls, ttl : BOOLEAN]]
  /\ \A k \in Calls : /\ call[k].pc \in {"idle", "counted", "sent", "missed",
                                         "claimed", "credited", "done"}
                      /\ call[k].user \in Users \cup {Nobody} /\ call[k].at \in 0..MaxTime
  /\ time \in 1..MaxTime /\ begun \in 0..MaxCalls /\ faults \in 0..MaxFaults

(* A code is used by a user exactly when that user has its credit, across  *)
(* failed credits, lost processes and revocations: nobody's code is spent  *)
(* for nothing, and nobody is credited for a code that can be used again   *)
(* or that was withdrawn (the transaction of redeem, revokeCode).          *)
UsedIsCredited ==
  \A c \in Codes : booked[c] = IF code[c].st = "used" THEN code[c].by ELSE Nobody

(* A redemption answers with a credit only when it made it: of all the     *)
(* requests that send a code, at once or one after the other, the commit   *)
(* of one finds the key unbooked (claim's status 0).                       *)
AnsweredOnce ==
  \A k \in Calls :
    call[k].ans = "none" /\ call'[k].ans = "ok" => booked[call[k].code] = Nobody

(* What a refused user is told is so: a code said to be used is used, one  *)
(* said to be revoked is revoked, and one said to be expired was past its  *)
(* expiry when the user asked, whoever else was redeeming it (redeem's     *)
(* second read, after the update that waited).                             *)
RefusalsAreTrue ==
  \A k \in Calls :
    LET c == call[k].code IN
    /\ call[k].ans = "code_already_used" => code[c].st = "used"
    /\ call[k].ans = "code_revoked" => code[c].st = "revoked"
    /\ call[k].ans = "code_expired" => Expiry[c] /= 0 /\ Expiry[c] <= time

(* The console's "used" of a batch is the number of its used codes.        *)
UsedCountIsUsed ==
  usedCount = Cardinality({c \in Codes : code[c].st = "used"})
=============================================================================
