------------------------------- MODULE Breaker -------------------------------
(***************************************************************************)
(* What keeps requests off a channel that is ill: CircuitBreaker and       *)
(* DeadCredentialTracker over a shared store, as chat and chatStream use   *)
(* them.  A call loads a state, decides, and tries to replace what it saw  *)
(* by compare-and-set; between the two, others do the same.  The store     *)
(* forgets a key when its TTL has run out, a read that fails counts as     *)
(* "nothing known", and a compare-and-set may be done although its answer  *)
(* is lost.                                                                *)
(* Times are relative: ages of failures, ticks left of a cooldown or TTL.  *)
(* A stream that breaks after its first frame counts one more failure; so  *)
(* does any other call that was admitted as long ago.                      *)
(***************************************************************************)
EXTENDS Integers, Sequences, SequencesExt

CONSTANTS
  Calls,         (* requests for one channel, in any process                *)
  Outcomes,      (* what an attempt may end in: "ok"; "trip" (5xx, network, *)
                 (* timeout); "soft" (429, 4xx, aborted); "dead" (401, 403) *)
  Threshold, Window, Cooldown,     (* failureThreshold, windowMs, cooldownMs *)
  DeadThreshold, DeadWindow,       (* of the credential                     *)
  MaxAttempts,   (* maxAttempts of withRetry                                *)
  CasRetries,    (* CAS_MAX_RETRIES                                         *)
  Deadline,      (* deadlineMs of a call, all its attempts together         *)
  Delay,         (* ticks that admitting or recording may take              *)
  MaxVersion, MaxFaults            (* bounds of the model: no new call on a *)
                                   (* state of MaxVersion; failing commands *)

BreakerAssumption ==
  /\ Outcomes \subseteq {"ok", "trip", "soft", "dead"}
  /\ Threshold \in Nat \ {0} /\ Window \in Nat \ {0} /\ Cooldown \in Nat \ {0}
  /\ DeadThreshold \in Nat \ {0} /\ DeadWindow \in Nat \ {0}
  /\ MaxAttempts \in Nat \ {0} /\ CasRetries \in Nat \ {0}
  /\ Deadline \in Nat /\ Delay \in Nat /\ MaxVersion \in Nat /\ MaxFaults \in Nat

VARIABLES
  store,     (* state of the breaker                                        *)
  cred,      (* state of the credential                                     *)
  calls,     (* [Calls -> step, attempts, and of the write under way: what  *)
             (* it replaces, with what, for how long, how often tried]      *)
  counted,   (* ages of the failures written down since the breaker closed  *)
  probes,    (* calls that won the right to probe in this half-open period  *)
  last,      (* how store last changed: by whom, doing what                 *)
  revived,   (* it holds what was written over a state that had expired     *)
  faults

vars == <<store, cred, calls, counted, probes, last, revived, faults>>

(* No key in the store reads as closed, or valid, with version 0.          *)
Closed == [state |-> "closed", fails |-> <<>>, cool |-> 0, version |-> 0, ttl |-> 0]
Valid == [status |-> "valid", n |-> 0, since |-> 0, version |-> 0, ttl |-> 0]

Idle == [pc |-> "idle", attempts |-> 0, probe |-> FALSE, base |-> 0,
         next |-> Closed, nextCred |-> Valid, age |-> 0, life |-> 0, tries |-> 0,
         gone |-> FALSE]   \* what the write is to replace has expired

Init ==
  /\ store = Closed /\ cred = Valid /\ calls = [c \in Calls |-> Idle]
  /\ counted = <<>> /\ probes = 0 /\ last = "nobody" /\ revived = FALSE /\ faults = 0

Fault == faults < MaxFaults /\ faults' = faults + 1
At(c, pc) == calls[c].pc = pc
Step(c, pc) ==
  calls' = [calls EXCEPT ![c] = [Idle EXCEPT !.pc = pc, !.attempts = calls[c].attempts,
                               !.probe = calls[c].probe, !.life = calls[c].life]]

(* A read: of what is there, or of nothing when it fails.                  *)
Reads(present, nothing, seen) ==
  \/ seen = present /\ UNCHANGED faults
  \/ seen = nothing /\ present # nothing /\ Fault

StateTTL == Cooldown + Window

-----------------------------------------------------------------------------
(* Writing to the breaker.                                                 *)

(* Three compare-and-sets are tried, then the failure is let go.           *)
Again(c, pc, end) ==
  IF calls[c].tries + 1 = CasRetries THEN Step(c, end)
  ELSE calls' = [calls EXCEPT ![c].tries = @ + 1, ![c].pc = pc, ![c].base = 0,
                   ![c].next = Closed, ![c].nextCred = Valid, ![c].gone = FALSE]

(* The call remembers what it saw and what it wants instead.               *)
Prepare(c, pc, seen, next) ==
  calls' = [calls EXCEPT ![c].pc = pc, ![c].base = seen.version, ![c].next = next]

Matches(c) == store.version = calls[c].base

Write(c) ==
  LET next == calls[c].next IN
  /\ store' = [next EXCEPT !.version = calls[c].base + 1, !.ttl = StateTTL]
  /\ last' = IF calls[c].probe THEN "probe" ELSE "other"
  /\ counted' = IF store.state = "closed" /\ next.state = "closed"
                  THEN Append(counted, calls[c].age) ELSE <<>>
  /\ probes' = IF next.state # "half-open" THEN 0
               ELSE IF store.state = "half-open" THEN probes + 1 ELSE 1
  /\ revived' = (next.state = "closed" /\ (revived \/ calls[c].gone))

(* compareAndSet: done, refused, or the answer is lost either way.         *)
Cas(c, done, refused) ==
  \/ Matches(c) /\ Write(c) /\ done /\ UNCHANGED faults
  \/ ~Matches(c) /\ refused /\ UNCHANGED <<store, last, counted, probes, revived, faults>>
  \/ Matches(c) /\ Write(c) /\ refused /\ Fault
  \/ Matches(c) /\ refused /\ UNCHANGED <<store, last, counted, probes, revived>> /\ Fault

-----------------------------------------------------------------------------
(* admitRequest: canRequest of the breaker, then of the credential.        *)

CanRequest(c) ==
  /\ At(c, "idle") /\ store.version < MaxVersion /\ cred.version < MaxVersion
  /\ \E seen \in {store, Closed} :
       /\ Reads(store, Closed, seen)
       /\ \/ seen.state = "closed" /\ Step(c, "credential")
          \/ /\ seen.state = "open" /\ seen.cool = 0
             /\ Prepare(c, "probe", seen, [seen EXCEPT !.state = "half-open"])
  /\ UNCHANGED <<store, cred, counted, probes, last, revived>>

(* The cooldown is over: the winner probes, the losers are refused.        *)
Probe(c) ==
  /\ At(c, "probe")
  /\ Cas(c, calls' = [calls EXCEPT ![c] = [Idle EXCEPT !.pc = "credential",
                                                       !.probe = TRUE]],
            calls' = [calls EXCEPT ![c] = Idle])
  /\ UNCHANGED cred

(* A probe that is refused for its credential leaves the breaker as it is. *)
CheckCredential(c) ==
  /\ At(c, "credential")
  /\ \E seen \in {cred, Valid} :
       /\ Reads(cred, Valid, seen)
       /\ calls' = [calls EXCEPT ![c] =
            IF seen.status = "valid" THEN [@ EXCEPT !.pc = "attempt"] ELSE Idle]
  /\ UNCHANGED <<store, cred, counted, probes, last, revived>>

-----------------------------------------------------------------------------
(* The attempt, and what is recorded of it.                                *)

Attempt(c) ==
  /\ At(c, "attempt")
  /\ \E out \in Outcomes :
       calls' = [calls EXCEPT ![c].attempts = @ + 1, ![c].age = 0, ![c].tries = 0,
         ![c].pc = CASE out = "ok" -> "succeeded" [] out = "trip" -> "failed"
                     [] out = "dead" -> "died" [] out = "soft" -> "over"]
  /\ UNCHANGED <<store, cred, counted, probes, last, revived, faults>>

(* recordSuccess: only what is half-open is closed.                        *)
RecordSuccess(c) ==
  /\ At(c, "succeeded")
  /\ \E seen \in {store, Closed} :
       /\ Reads(store, Closed, seen)
       /\ IF seen.state = "half-open"
            THEN Prepare(c, "close", seen, Closed)
            ELSE Step(c, "thankful")
  /\ UNCHANGED <<store, cred, counted, probes, last, revived>>

Close(c) ==
  /\ At(c, "close")
  /\ Cas(c, Step(c, "thankful"), Step(c, "thankful"))
  /\ UNCHANGED cred

(* recordFailure, from the time it was called: nothing more when open, and *)
(* open again when half-open.                                              *)
Opened(age) == [Closed EXCEPT !.state = "open",
                  !.cool = IF age < Cooldown THEN Cooldown - age ELSE 0]

After(s, age) ==
  LET recent == SelectSeq(s.fails, LAMBDA a : a - age <= Window)
  IN  IF s.state = "half-open" \/ Len(recent) + 1 >= Threshold THEN Opened(age)
      ELSE [s EXCEPT !.fails = Append(recent, age)]

RecordFailure(c) ==
  /\ At(c, "failed")
  /\ \E seen \in {store, Closed} :
       /\ Reads(store, Closed, seen)
       /\ IF seen.state = "open" THEN Step(c, "retry")
          ELSE Prepare(c, "count", seen, After(seen, calls[c].age))
  /\ UNCHANGED <<store, cred, counted, probes, last, revived>>

Count(c) ==
  /\ At(c, "count")
  /\ Cas(c, Step(c, "retry"),
            Again(c, "failed", "retry"))
  /\ UNCHANGED cred

(* withRetry tries the channel again without asking for admission.         *)
Retry(c) ==
  /\ At(c, "retry")
  /\ \/ calls[c].attempts < MaxAttempts /\ Step(c, "attempt")
     \/ Step(c, "over")
  /\ UNCHANGED <<store, cred, counted, probes, last, revived, faults>>

-----------------------------------------------------------------------------
(* The credential: the same discipline.                                    *)

MatchesCred(c) == cred.version = calls[c].base
WriteCred(c) == cred' = [calls[c].nextCred EXCEPT !.version = calls[c].base + 1,
                                                 !.ttl = 2 * DeadWindow]

CasCred(c, done, refused) ==
  \/ MatchesCred(c) /\ WriteCred(c) /\ done
  \/ ~MatchesCred(c) /\ refused /\ UNCHANGED cred

PrepareCred(c, pc, next) ==
  calls' = [calls EXCEPT ![c].pc = pc, ![c].base = cred.version, ![c].nextCred = next]

(* Failures in a row: each within the window of the one before.            *)
RecordDead(c) ==
  /\ At(c, "died")
  /\ LET n == IF cred.n > 0 /\ cred.since - calls[c].age <= DeadWindow
                THEN cred.n + 1 ELSE 1 IN
     PrepareCred(c, "countDead",
       [cred EXCEPT !.n = n, !.since = calls[c].age,
          !.status = IF n >= DeadThreshold THEN "invalid" ELSE @])
  /\ UNCHANGED <<store, cred, counted, probes, last, revived, faults>>

CountDead(c) ==
  /\ At(c, "countDead")
  /\ CasCred(c, Step(c, "over"),
             Again(c, "died", "over"))
  /\ UNCHANGED <<store, counted, probes, last, revived, faults>>

Thank(c) ==
  /\ At(c, "thankful")
  /\ IF cred.status = "valid" /\ cred.n = 0
       THEN Step(c, "over") ELSE PrepareCred(c, "clear", Valid)
  /\ UNCHANGED <<store, cred, counted, probes, last, revived, faults>>

Clear(c) ==
  /\ At(c, "clear")
  /\ CasCred(c, Step(c, "over"), Step(c, "over"))
  /\ UNCHANGED <<store, counted, probes, last, revived, faults>>

-----------------------------------------------------------------------------
(* A call is over, or its process dies anywhere.                           *)
Leave(c) ==
  /\ ~At(c, "idle")
  /\ calls' = [calls EXCEPT ![c] = Idle]
  /\ UNCHANGED <<store, cred, counted, probes, last, revived, faults>>

Less(n) == IF n > 0 THEN n - 1 ELSE 0
Forgotten == StateTTL + 1      (* ages beyond this are all the same              *)
More(n) == IF n < Forgotten THEN n + 1 ELSE n
Older(s) == [s EXCEPT !.fails = [i \in DOMAIN @ |-> More(@[i])], !.cool = Less(@)]

Recording == {"probe", "credential", "succeeded", "close", "failed", "count",
              "died", "countDead", "thankful", "clear"}

Late(c) == calls[c].pc \in {"attempt", "retry"} /\ calls[c].life = Deadline

Expires(s) == s.version > 0 /\ s.ttl = 0
Outlived(c) == /\ calls[c].pc \in {"probe", "close", "count"} /\ calls[c].base > 0
               /\ Expires([store EXCEPT !.ttl = Less(@)])

(* Time passes.  The deadline aborts a call, which counts as no failure.   *)
Tick ==
  /\ \A c \in Calls : calls[c].pc \in Recording => calls[c].age < Delay
  /\ LET s == [Older(store) EXCEPT !.ttl = Less(@)] IN
     IF Expires(s)
       THEN /\ store' = Closed /\ counted' = <<>> /\ probes' = 0 /\ last' = "expiry"
            /\ revived' = FALSE
       ELSE /\ store' = s /\ UNCHANGED <<probes, last, revived>>
            /\ counted' = SelectSeq([i \in DOMAIN counted |-> counted[i] + 1],
                                    LAMBDA a : a <= Window)
  /\ LET d == [cred EXCEPT !.ttl = Less(@),
                           !.since = IF cred.n > 0 THEN More(@) ELSE 0] IN
     cred' = IF d.version > 0 /\ d.ttl = 0 THEN Valid ELSE d
  /\ calls' = [c \in Calls |->
       IF Late(c) THEN [Idle EXCEPT !.pc = "over"]
       ELSE [calls[c] EXCEPT
               !.gone = @ \/ Outlived(c),
               !.next = IF At(c, "count") THEN Older(@) ELSE @,
               !.nextCred.since = IF At(c, "countDead") THEN More(@) ELSE @,
               !.age = IF calls[c].pc \in Recording THEN More(@) ELSE @,
               !.life = IF calls[c].pc \in {"attempt", "retry"} THEN @ + 1 ELSE @]]
  /\ UNCHANGED faults

CallStep(c) ==
  \/ CanRequest(c) \/ Probe(c) \/ CheckCredential(c) \/ Attempt(c)
  \/ RecordSuccess(c) \/ Close(c) \/ RecordFailure(c) \/ Count(c) \/ Retry(c)
  \/ RecordDead(c) \/ CountDead(c) \/ Thank(c) \/ Clear(c) \/ Leave(c)

Next == Tick \/ \E c \in Calls : CallStep(c)

Spec == Init /\ [][Next]_vars

(* Only time is fair: any call may stop anywhere, and none need come.      *)
Fairness == WF_vars(Tick)

-----------------------------------------------------------------------------
(* Properties.                                                             *)

Pcs == {"idle", "probe", "credential", "attempt", "succeeded", "close", "failed",
        "count", "retry", "died", "countDead", "thankful", "clear", "over"}

(* Every variable keeps its type; a closed breaker holds fewer failures    *)
(* than the threshold, and only an open one has a cooldown ahead.          *)
TypeOK ==
  /\ store.state \in {"closed", "open", "half-open"}
  /\ Len(store.fails) < Threshold /\ (store.fails # <<>> => store.state = "closed")
  /\ store.cool \in 0 .. Cooldown /\ (store.cool > 0 => store.state = "open")
  /\ store.version \in Nat /\ store.ttl \in 0 .. StateTTL
  /\ cred.status \in {"valid", "invalid"} /\ cred.n \in Nat
  /\ \A c \in Calls : calls[c].pc \in Pcs /\ calls[c].tries \in 0 .. CasRetries
  /\ faults \in 0 .. MaxFaults

(* No failure that was written down is lost to another writer: as soon as  *)
(* the threshold is reached within a window the breaker is not closed.     *)
NoFailureLost ==
  store.state = "closed" => Len(SelectSeq(counted, LAMBDA a : a <= Window)) < Threshold

(* That much is so but for a writer that read the state before its key     *)
(* expired, whose write may pass for one over what has come since.         *)
NoneLostButToThePast == ~revived => NoFailureLost

(* Each time the cooldown runs out, one call in all processes gets the     *)
(* right to probe.                                                         *)
OneProbe == probes <= 1

(* What is open stays for its whole cooldown: neither the TTL nor a late   *)
(* answer of a request from before closes it.                              *)
OpenEnds ==
  store.state = "open" /\ store'.state # "open" => store.cool = 0

(* However its probes end, refused, answered with 429, dead or lost, the   *)
(* channel is asked again.                                                 *)
Admits == store.state = "closed" \/ (store.state = "open" /\ store.cool = 0)
ChannelReturns == ~Admits ~> Admits

(* A half-open breaker closes because its probe succeeded, never by the    *)
(* late success of a call from before it opened: the deadline of a call is *)
(* shorter than the cooldown (120 s and 300 s), by more than recording     *)
(* takes.  A call that was admitted because it could not read the state    *)
(* may close it too.                                                       *)
ProbeCloses ==
  store.state = "half-open" /\ store'.state = "closed" =>
    last' \in {"probe", "expiry"} \/ faults > 0

=============================================================================
