-------------------------------- MODULE Relay --------------------------------
(***************************************************************************)
(* One streamed call of the upstream client: attempts on one channel until *)
(* a first chunk has arrived, then the relay of the upstream's events to   *)
(* the client with a scanner at its side, and the one report it ends with. *)
(* The end of the upstream, a broken connection, silence, an abort and a   *)
(* client that leaves race to end it.  Times are nondeterministic: silence *)
(* is long enough whenever the relay is open.                              *)
(***************************************************************************)
EXTENDS Integers, Sequences

CONSTANTS
  MaxAttempts, EmptyRetries,   (* retry.maxAttempts, emptyCompletionRetries *)
  Signals,                     (* causes an abort may have: cancel, drain   *)
  MaxChunks, MaxBeats          (* bounds: chunks relayed, heartbeats        *)

RelayAssumption ==
  /\ MaxAttempts \in Nat \ {0} /\ EmptyRetries \in Nat
  /\ Signals \subseteq {"cancel", "drain"} /\ MaxChunks \in Nat \ {0} /\ MaxBeats \in Nat

VARIABLES
  pc, tries, empties,   (* withRetry: its step, calls made, empty answers   *)
  expired, sig,         (* the deadline has fired; the cause of an abort    *)
  bodies,               (* attempts whose response body is open             *)
  scan,                 (* SseScanner: what it has seen; inside an event    *)
  wire, beats,          (* what was sent to the client; heartbeats          *)
  left,                 (* the client has gone                              *)
  report,               (* the "done" event                                 *)
  faults,               (* reasons the breaker was given for a failure      *)
  decisive              (* what the gateway heard first                     *)

retry == <<pc, tries, empties, expired, sig>>
relay == <<scan, wire, beats, left, report, decisive>>
vars == <<retry, bodies, relay, faults>>

Nothing == [done |-> FALSE, final |-> FALSE, error |-> FALSE, usage |-> FALSE, inside |-> FALSE]

NoReport == [term |-> "open", usage |-> FALSE]

Init ==
  /\ pc = "call" /\ tries = 1 /\ empties = 0 /\ expired = FALSE /\ sig = "none"
  /\ bodies = {} /\ scan = Nothing /\ wire = << >> /\ beats = 0 /\ left = FALSE
  /\ report = NoReport /\ faults = {} /\ decisive = "none"

Aborted == expired \/ sig # "none"
First(what) == decisive' = (IF decisive = "none" THEN what ELSE decisive)
Charge(reasons) == faults' = faults \cup reasons

-----------------------------------------------------------------------------
(* withRetry and its attempts.                                             *)

KeptOpen == bodies   \* mutant: a body that nobody reads is not cancelled
Released == bodies \ {tries}

MayRetry(retryable, empty) ==
  tries < MaxAttempts /\ (retryable \/ (empty /\ empties < EmptyRetries))

(* An attempt fails: the error may be one to retry, an empty answer may be *)
(* asked for again a number of times.                                      *)
Failed(retryable, empty, trip) ==
  LET again == MayRetry(retryable, empty) IN
  /\ Charge(IF trip THEN {"attempt"} ELSE {})
  /\ empties' = (IF again /\ empty THEN empties + 1 ELSE empties)
  /\ IF again THEN pc' = "sleep" /\ UNCHANGED decisive
     ELSE pc' = "over" /\ First("failed")
  /\ UNCHANGED <<tries, expired, sig, scan, wire, beats, left, report>>

CallFails ==
  /\ pc = "call" /\ UNCHANGED bodies
  /\ \E retryable, trip \in BOOLEAN : Failed(retryable, FALSE, trip)

Answered ==
  /\ pc = "call" /\ pc' = "peek" /\ bodies' = bodies \cup {tries}
  /\ UNCHANGED <<tries, empties, expired, sig, relay, faults>>

(* peekFirstChunk: nothing at all, an error as the first event, or nothing *)
(* within the time for it.                                                 *)
Empty == pc = "peek" /\ bodies' = Released /\ Failed(FALSE, TRUE, FALSE)
FirstIsError ==
  /\ pc = "peek" /\ bodies' = Released
  /\ \E retryable, trip \in BOOLEAN : Failed(retryable, FALSE, trip)
NoFirstByte == pc = "peek" /\ bodies' = Released /\ Failed(TRUE, FALSE, TRUE)

AttemptAborted ==
  /\ pc \in {"call", "peek"} /\ Aborted /\ bodies' = Released
  /\ Failed(FALSE, FALSE, FALSE)

Allowed == ~Aborted

Wake ==
  /\ pc = "sleep"
  /\ IF Allowed THEN pc' = "call" /\ tries' = tries + 1 /\ UNCHANGED decisive
     ELSE pc' = "over" /\ First("failed") /\ UNCHANGED tries
  /\ UNCHANGED <<empties, expired, sig, bodies, scan, wire, beats, left, report, faults>>

Deadline ==
  /\ pc \in {"call", "peek", "sleep"} /\ ~expired /\ expired' = TRUE
  /\ UNCHANGED <<pc, tries, empties, sig, bodies, relay, faults>>

Abort ==
  /\ pc # "over" /\ sig = "none" /\ \E cause \in Signals : sig' = cause
  /\ UNCHANGED <<pc, tries, empties, expired, bodies, relay, faults>>

(* The first chunk is there: chatStream returns the relay's stream.        *)
Begin ==
  /\ pc = "peek" /\ pc' = "relay"
  /\ UNCHANGED <<tries, empties, expired, sig, bodies, relay, faults>>

-----------------------------------------------------------------------------
(* relayStream: one of its ways to end is the first, and report.          *)

Pumped == TRUE                (* the gateway's pump reads at once            *)

Seen(kind) ==
  [scan EXCEPT !.inside = kind = "part", !.done = @ \/ kind = "done",
               !.final = @ \/ kind = "final", !.usage = @ \/ kind = "usage",
               !.error = @ \/ kind = "error"]

(* transform: a chunk is an event, or the first part of one that the next  *)
(* chunk completes; peek has looked at the first.                          *)
Chunk ==
  /\ pc = "relay" /\ Pumped /\ Len(wire) < MaxChunks
  /\ \E kind \in {"part", "content", "usage", "final", "error", "done"} :
       /\ wire = << >> => kind # "error"
       /\ wire' = Append(wire, kind) /\ scan' = Seen(kind)
  /\ First("first")
  /\ UNCHANGED <<retry, bodies, beats, left, report, faults>>

AtBoundary == ~scan.inside

Heartbeat ==
  /\ pc = "relay" /\ wire # << >> /\ AtBoundary /\ beats < MaxBeats
  /\ beats' = beats + 1 /\ wire' = Append(wire, "beat")
  /\ UNCHANGED <<retry, bodies, scan, left, report, faults, decisive>>

Report(term) == [term |-> term, usage |-> scan.usage]
NotOurs == {"client_disconnect", "server_draining", "none"}
Blameless == NotOurs

(* finished := TRUE, the body is read to its end or cancelled, and "done"  *)
(* is the last event; any other reason than these trips the breaker.       *)
Finish(term, extra) ==
  /\ pc = "relay" /\ pc' = "over" /\ wire' = wire \o extra
  /\ report' = Report(term) /\ First("success")
  /\ Charge(IF term \in Blameless THEN {} ELSE {term})
  /\ bodies' = bodies \ {tries}
  /\ UNCHANGED <<tries, empties, expired, sig, scan, beats>>

Injected == <<"frame", "DONE">>

MadeUp == <<"DONE">>

(* flush: the upstream has ended.                                          *)
Eof ==
  /\ wire # << >> /\ UNCHANGED left
  /\ \/ scan.done /\ Finish(IF scan.error THEN "upstream_error" ELSE "none", << >>)
     \/ ~scan.done /\ scan.final /\ ~scan.error /\ Finish("none", MadeUp)
     \/ ~scan.done /\ scan.error /\ Finish("upstream_error", MadeUp)
     \/ ~scan.done /\ ~scan.final /\ ~scan.error /\ Finish("upstream_truncated", Injected)

Cause == IF sig = "drain" THEN "server_draining"
         ELSE IF sig = "cancel" THEN "request_cancelled" ELSE "upstream_disconnected"

(* The pipe rejects: the connection broke, or the signal was aborted.      *)
Broken == UNCHANGED left /\ Finish(Cause, Injected)
PipeAborted == sig # "none" /\ UNCHANGED left /\ Finish(Cause, Injected)

Silence == wire # << >> /\ UNCHANGED left /\ Finish("inactivity", Injected)

(* cancel: the client leaves; a stream that was complete is a success.     *)
Leave ==
  /\ decisive # "none" /\ ~left /\ left' = TRUE
  /\ Finish(IF ~(scan.done \/ (scan.final /\ ~scan.error)) THEN "client_disconnect"
            ELSE IF scan.error THEN "upstream_error" ELSE "none", << >>)

(* What the gateway writes on the receipt of a stream without usage.       *)
Attribution(term) ==
  IF term = "none" THEN "usage_missing_completed"
  ELSE IF term \in {"client_disconnect", "request_cancelled"} THEN "client_disconnect"
  ELSE IF term = "server_draining" THEN term
  ELSE IF term = "inactivity" THEN "inactivity_timeout" ELSE "upstream_error_partial"

Progress == \/ CallFails \/ Answered \/ Empty \/ FirstIsError \/ NoFirstByte \/ Begin
            \/ AttemptAborted \/ Wake

Next ==
  \/ Progress \/ Deadline \/ Abort \/ Chunk \/ Heartbeat
  \/ Eof \/ Broken \/ PipeAborted \/ Silence \/ Leave

Spec == Init /\ [][Next]_vars

-----------------------------------------------------------------------------
(* Shapes.                                                                 *)
TypeOK ==
  /\ pc \in {"call", "peek", "sleep", "relay", "over"} /\ tries \in 1..MaxAttempts
  /\ empties \in 0..EmptyRetries /\ expired \in BOOLEAN /\ sig \in Signals \cup {"none"}
  /\ bodies \subseteq 1..MaxAttempts /\ scan \in [DOMAIN Nothing -> BOOLEAN]
  /\ Len(wire) <= MaxChunks + MaxBeats + 2 /\ beats \in 0..MaxBeats
  /\ left \in BOOLEAN /\ report.usage \in BOOLEAN
  /\ decisive \in {"none", "first", "failed", "success"}

(* Whatever ends an attempt, its connection is given back before the next  *)
(* attempt, and none is left open by a call that is over.                  *)
NoBodyLeaks == bodies \subseteq {tries} /\ (pc \in {"call", "sleep", "over"} => bodies = {})

(* A stream that is reported, and billed, as complete ended so for the     *)
(* client who stayed: with the sentinel, and without an error.             *)
CompleteIsWhole ==
  report.term = "none" /\ ~left =>
    /\ \E i \in DOMAIN wire : wire[i] \in {"done", "DONE"}
    /\ \A i \in DOMAIN wire : wire[i] \notin {"error", "frame"}

(* A heartbeat never comes between two parts of an event.                  *)
BeatsBetweenEvents ==
  \A i \in 1..(Len(wire) - 1) : wire[i] = "part" => wire[i + 1] # "beat"

(* The breaker is not told of a failure when the client left a stream that *)
(* was in order, nor when this gateway cut it to shut down.                *)
FaultsAreTheChannels ==
  \/ left /\ ~scan.error
  \/ sig = "drain" /\ report.term \notin {"inactivity", "upstream_error", "upstream_truncated"}
  => faults \subseteq {"attempt"}

(* An estimate says truly why it is one: complete streams had their end,   *)
(* and the user is named only when it was the user who left or cancelled.  *)
LabelsAreTrue ==
  report.term # "open" /\ ~report.usage =>
    /\ Attribution(report.term) = "usage_missing_completed" => scan.done \/ scan.final
    /\ Attribution(report.term) = "client_disconnect" => left \/ sig = "cancel"

(* Once its deadline is over or it is aborted, a call asks the upstream no *)
(* more, not even after it has slept.                                      *)
AbortedIsQuiet == Aborted => tries' = tries

(* relay-stream.ts: the upstream's [DONE] is the authority on success.     *)
DoneIsSuccess == report.term # "open" /\ scan.done /\ ~scan.error => report.term = "none"

=============================================================================
