------------------------------ MODULE Upstream ------------------------------
(***************************************************************************)
(* How an unstreamed request meets the providers.  The gateway tries the   *)
(* models of its quotation in turn, and of each the channels that are      *)
(* enabled, in the order of their priority.  On a channel the upstream     *)
(* client makes up to MaxAttempts attempts under three timers; a failure   *)
(* is classified once, and its flags decide about retries, about the next  *)
(* channel, and about the key: refused keys are counted for each host, and *)
(* the channel is taken out of the routing for good.  Meanwhile providers  *)
(* revoke keys and administrators replace them.  The breaker, billing and  *)
(* the limits of a channel are subjects of other modules.                  *)
(***************************************************************************)
EXTENDS Integers, Sequences, FiniteSets, SequencesExt

CONSTANTS
  Channels,
  Host,          (* of a channel: the key of its credential's state         *)
  Protocol,      (* of a channel: openai, anthropic or gemini               *)
  Priority,      (* of a channel                                            *)
  Models,        (* the quotation: a sequence of sets of channels           *)
  Requests,
  Replies,       (* what a provider may answer to a key that is valid       *)
  Timers,        (* subset of connect, total, deadline                      *)
  MaxAttempts, EmptyRetries, Threshold,
  MaxKeys,       (* bound: keys of a channel                                *)
  MaxEdits       (* bound: changes of a channel's status by administrators  *)

UpstreamAssumption ==
  /\ Models \in Seq(SUBSET Channels)
  /\ MaxAttempts \in Nat \ {0} /\ EmptyRetries \in Nat /\ Threshold \in Nat \ {0}
  /\ Timers \subseteq {"connect", "total", "deadline"}
  /\ \A r \in Replies : r.status = 200 \/ r.form = "json"

VARIABLES
  status,    (* of a channel: 0 enabled, 1 disabled, 4 its key is dead      *)
  key,       (* of a channel: the number of its key                         *)
  valid,     (* the keys the providers accept                               *)
  cred,      (* of a host: consecutive refusals, and whether it is invalid  *)
  alerts,    (* the channels' deaths told to the administrators             *)
  edits,
  req        (* of a request: where it is                                   *)

vars == <<status, key, valid, cred, alerts, edits, req>>
Hosts == {Host[c] : c \in Channels}

NoErr == [code |-> "none", status |-> 0, retry |-> FALSE, trip |-> FALSE, dead |-> FALSE]
Err(code, s) == [NoErr EXCEPT !.code = code, !.status = s]
Transient(code, s) == [Err(code, s) EXCEPT !.retry = TRUE, !.trip = TRUE]

-----------------------------------------------------------------------------
(* The classification of errors.                                           *)

Own(code, r) == IF r.code = "" THEN code ELSE r.code
QuotaExhausted(r) == r.code = "insufficient_quota" \/ r.text = "quota"

TooMany(r) ==
  IF QuotaExhausted(r) THEN Err("quota_exhausted", 429)
  ELSE [Err("rate_limited", 429) EXCEPT !.retry = TRUE]

Unauthorized(r) ==
  LET dead == r.status = 401 \/ r.text = "key"
      code == IF r.status = 401 THEN "invalid_api_key" ELSE "forbidden" IN
  [Err(IF dead THEN code ELSE Own(code, r), r.status) EXCEPT !.dead = dead]

classifyHttpError(r) ==
  CASE r.status >= 500 -> Transient(Own("upstream_error", r), r.status)
    [] r.status = 429 -> TooMany(r)
    [] r.status \in {401, 403} -> Unauthorized(r)
    [] r.status = 408 -> Transient(Own("timeout", r), 408)
    [] r.text = "overflow" -> Err("context_overflow", r.status)
    [] r.status = 400 -> Err(Own("invalid_request", r), 400)
    [] r.status = 404 -> Err(Own("model_not_found", r), 404)
    [] r.status = 413 -> Err(Own("payload_too_large", r), 413)
    [] OTHER -> Err(Own("http_error", r), r.status)

(* An error object in a body with status 200.                              *)
classifyBodyOnlyError(r) ==
  CASE QuotaExhausted(r) -> Err("quota_exhausted", 0)
    [] r.text = "rate" -> [Err("rate_limited", 0) EXCEPT !.retry = TRUE]
    [] r.text = "key" -> [Err("invalid_api_key", 0) EXCEPT !.dead = TRUE]
    [] r.text = "overflow" -> Err("context_overflow", 0)
    [] OTHER -> Transient("upstream_error", 0)

(* What a provider's adapter makes of it.                                  *)
Anthropic(e, r) ==
  CASE r.code = "authentication_error" -> [e EXCEPT !.code = "invalid_api_key", !.dead = TRUE]
    [] r.code = "permission_error" -> [e EXCEPT !.code = "forbidden"]
    [] r.code = "not_found_error" -> [e EXCEPT !.code = "model_not_found"]
    [] r.code = "rate_limit_error" -> [e EXCEPT !.code = "rate_limited"]
    [] r.code = "overloaded_error" -> [e EXCEPT !.code = "upstream_overloaded", !.retry = TRUE]
    [] OTHER -> e
Gemini(e, r) ==
  CASE r.status \in {401, 403} -> [e EXCEPT !.code = "invalid_api_key", !.dead = r.status = 401]
    [] r.status = 429 -> [e EXCEPT !.code = "rate_limited"]
    [] OTHER -> e
mapError(c, r) ==
  CASE Protocol[c] = "anthropic" -> Anthropic(classifyHttpError(r), r)
    [] Protocol[c] = "gemini" -> Gemini(classifyHttpError(r), r)
    [] OTHER -> classifyHttpError(r)

Switchable ==
  {"upstream_error", "network", "timeout", "rate_limited", "quota_exhausted", "circuit_open",
   "dead_credential", "invalid_api_key", "forbidden", "empty_completion", "invalid_response",
   "invalid_config"}

-----------------------------------------------------------------------------
(* One attempt: what becomes of a reply whose body was read whole, or up   *)
(* to where a timer stopped the reader.                                    *)

Good(got) == [ok |-> TRUE, got |-> got, err |-> NoErr, empty |-> FALSE]
Bad(e) == [ok |-> FALSE, got |-> "none", err |-> e, empty |-> FALSE]
Blank == [Bad(Err("empty_completion", 0)) EXCEPT !.empty = TRUE]

(* A native answer is translated before it is looked at for an error, and  *)
(* the translation has no place for one.  Bytes are read, but the result   *)
(* of the call has only a parsed body.                                     *)
Parsed(c, r) ==
  CASE r.body = "answer" -> Good("answer")
    [] r.body = "junk" -> Bad(Err("invalid_response", 0))
    [] Protocol[c] = "openai" -> Bad(classifyBodyOnlyError(r))
    [] OTHER -> Good("hollow")
Whole(c, r) ==
  CASE r.status >= 400 -> Bad(mapError(c, r))
    [] r.body = "blank" -> Blank
    [] r.form = "bytes" -> Good("hollow")
    [] OTHER -> Parsed(c, r)
Cut(c, r, some) ==
  CASE r.status >= 400 -> Bad(mapError(c, IF some THEN r ELSE [r EXCEPT !.code = "", !.text = ""]))
    [] ~some -> Blank
    [] r.form = "bytes" -> Good("hollow")
    [] OTHER -> Bad(Err("invalid_response", 0))

(* A provider refuses a key it has revoked.                                *)
Refusal(c) == [status |-> 401, form |-> "json", body |-> "error", text |-> "key",
               code |-> IF Protocol[c] = "anthropic" THEN "authentication_error" ELSE ""]
RepliesTo(c, k) == IF <<c, k>> \in valid THEN Replies ELSE {Refusal(c)}

-----------------------------------------------------------------------------

NoReply == [status |-> 0, form |-> "none", body |-> "none", text |-> "", code |-> ""]

(* cause: what the provider said in the last attempt; left: the channels   *)
(* that were not tried when a model was given up.                          *)
Idle == [pc |-> "route", cand |-> 1, list |-> << >>, tries |-> 0, empties |-> 0, over |-> FALSE,
         last |-> Bad(NoErr), fate |-> "none", cause |-> NoReply, answer |-> "none", left |-> {}]

Init ==
  /\ status = [c \in Channels |-> 0]
  /\ key = [c \in Channels |-> 1]
  /\ valid = {<<c, 1>> : c \in Channels}
  /\ cred = [h \in Hosts |-> [count |-> 0, invalid |-> FALSE]]
  /\ alerts = [c \in Channels |-> 0]
  /\ edits = 0
  /\ req = [r \in Requests |-> Idle]

Becomes(r, x) == req' = [req EXCEPT ![r] = x]
At(r, pc) == req[r].pc = pc

(* Tiers of priority, each in an order drawn by weight.                    *)
Routes(S) == {s \in SetToSeqs(S) : \A i, j \in DOMAIN s : i < j => Priority[s[i]] >= Priority[s[j]]}

Route(r) ==
  /\ At(r, "route")
  /\ IF req[r].cand > Len(Models)
     THEN Becomes(r, [req[r] EXCEPT !.pc = "told",
            !.answer = IF req[r].last.err.code \in {"none", "rate_limited"} THEN "503" ELSE "502"])
     ELSE \E list \in Routes({c \in Models[req[r].cand] : status[c] = 0}) :
            Becomes(r, [req[r] EXCEPT !.pc = "call", !.left = {},
                        !.list = [i \in DOMAIN list |-> [ch |-> list[i], key |-> key[list[i]]]]])
  /\ UNCHANGED <<status, key, valid, cred, alerts, edits>>

(* The next channel, unless its host's credential is held to be invalid.   *)
Refused == Bad([Err("dead_credential", 0) EXCEPT !.dead = TRUE])
NextModel(q) == q.cand + 1
Call(r) ==
  /\ At(r, "call")
  /\ LET q == req[r] IN
     IF q.list = << >> THEN Becomes(r, [q EXCEPT !.pc = "route", !.cand = NextModel(q)])
     ELSE IF cred[Host[Head(q.list).ch]].invalid
     THEN Becomes(r, [q EXCEPT !.pc = "dispatch", !.last = Refused, !.fate = "none",
                               !.cause = NoReply, !.tries = 0])
     ELSE Becomes(r, [q EXCEPT !.pc = "attempt", !.tries = 1, !.empties = 0, !.over = FALSE])
  /\ UNCHANGED <<status, key, valid, cred, alerts, edits>>

Counted(h) ==
  [count |-> cred[h].count + 1, invalid |-> cred[h].invalid \/ cred[h].count + 1 >= Threshold]

(* withRetry after an outcome.                                             *)
MayRetry(q, o) ==
  \/ o.err.retry /\ q.tries < MaxAttempts
  \/ o.empty /\ q.empties < EmptyRetries /\ q.tries < MaxAttempts

(* fate is how the attempt ended: whole, cut, reset, or the timer's name.  *)
Ends(r, o, fate, over, x) ==
  LET q == [req[r] EXCEPT !.last = o, !.fate = fate, !.over = over, !.cause = x]
      h == Host[Head(q.list).ch] IN
  /\ cred' = [cred EXCEPT ![h] = IF o.ok THEN [count |-> 0, invalid |-> FALSE]
                                 ELSE IF o.err.dead THEN Counted(h) ELSE @]
  /\ Becomes(r, IF o.ok THEN [q EXCEPT !.pc = "told", !.answer = "ok"]
                ELSE IF MayRetry(q, o)
                THEN [q EXCEPT !.pc = "wait", !.empties = IF o.empty THEN @ + 1 ELSE @]
                ELSE [q EXCEPT !.pc = "dispatch"])
  /\ UNCHANGED <<status, key, valid, alerts, edits>>

Now(r) == Head(req[r].list)
Answered(r) ==
  /\ At(r, "attempt")
  /\ \E x \in RepliesTo(Now(r).ch, Now(r).key) : Ends(r, Whole(Now(r).ch, x), "whole", FALSE, x)

(* A timer fires while the body is read; what has come is taken for all.   *)
BodyCut(r) ==
  /\ At(r, "attempt")
  /\ \E t \in Timers \ {"connect"}, some \in BOOLEAN, x \in RepliesTo(Now(r).ch, Now(r).key) :
       Ends(r, Cut(Now(r).ch, x, some), "cut", t = "deadline", x)

(* No answer in time, or a broken connection.                              *)
NoAnswer(r) ==
  /\ At(r, "attempt")
  /\ \/ Ends(r, Bad(Transient("network", 0)), "reset", FALSE, NoReply)
     \/ \E t \in Timers :
          Ends(r, Bad(IF t = "deadline" THEN Err("aborted", 0) ELSE Transient("timeout", 0)),
               t, t = "deadline", NoReply)

Again(r) ==
  /\ At(r, "wait") /\ ~req[r].over
  /\ Becomes(r, [req[r] EXCEPT !.pc = "attempt", !.tries = @ + 1])
  /\ UNCHANGED <<status, key, valid, cred, alerts, edits>>

(* The deadline passes during the pause: the last outcome stands.          *)
GiveUp(q) == [q EXCEPT !.pc = "dispatch", !.over = TRUE]
Deadline(r) ==
  /\ "deadline" \in Timers /\ At(r, "wait") /\ ~req[r].over
  /\ Becomes(r, GiveUp(req[r]))
  /\ UNCHANGED <<status, key, valid, cred, alerts, edits>>
Late(r) ==
  /\ At(r, "wait") /\ req[r].over
  /\ Becomes(r, GiveUp(req[r]))
  /\ UNCHANGED <<status, key, valid, cred, alerts, edits>>

(* markDeadCredential, in one transaction with its notification.           *)
DyingAny(c) == TRUE   \* mutant
Dying(c) == status[c] = 0
MarkDead(c, dead) ==
  IF dead /\ Dying(c)
  THEN status' = [status EXCEPT ![c] = 4] /\ alerts' = [alerts EXCEPT ![c] = @ + 1]
  ELSE UNCHANGED <<status, alerts>>

Dispatch(r) ==
  /\ At(r, "dispatch")
  /\ LET q == req[r]
         e == q.last.err
         rest == {q.list[i].ch : i \in 2..Len(q.list)} IN
     /\ MarkDead(Now(r).ch, e.dead)
     /\ Becomes(r,
          IF e.code \in Switchable THEN [q EXCEPT !.pc = "call", !.list = Tail(@)]
          ELSE IF e.status \in 400..499 THEN [q EXCEPT !.pc = "told", !.answer = "4xx", !.left = rest]
          ELSE [q EXCEPT !.pc = "route", !.cand = NextModel(q), !.left = rest])
  /\ UNCHANGED <<key, valid, cred, edits>>

Request(r) ==
  \/ Route(r) \/ Call(r) \/ Answered(r) \/ BodyCut(r) \/ NoAnswer(r)
  \/ Again(r) \/ Deadline(r) \/ Late(r) \/ Dispatch(r)

-----------------------------------------------------------------------------
(* Providers and administrators.                                           *)

Revoke(c) ==
  /\ <<c, key[c]>> \in valid /\ key[c] < MaxKeys
  /\ valid' = valid \ {<<c, key[c]>>}
  /\ UNCHANGED <<status, key, cred, alerts, edits, req>>

(* A new key also enables the channel; the host's state is not touched.    *)
Replace(c) ==
  /\ <<c, key[c]>> \notin valid
  /\ key' = [key EXCEPT ![c] = @ + 1]
  /\ valid' = valid \cup {<<c, key[c] + 1>>}
  /\ status' = [status EXCEPT ![c] = 0]
  /\ UNCHANGED <<cred, alerts, edits, req>>

Edit(c) ==
  /\ edits < MaxEdits /\ edits' = edits + 1
  /\ \E s \in {0, 1} : s # status[c] /\ status' = [status EXCEPT ![c] = s]
  /\ UNCHANGED <<key, valid, cred, alerts, req>>

AllTold == /\ \A r \in Requests : At(r, "told")
           /\ UNCHANGED vars

Next ==
  \/ \E r \in Requests : Request(r)
  \/ \E c \in Channels : Revoke(c) \/ Replace(c) \/ Edit(c)
  \/ AllTold

Spec == Init /\ [][Next]_vars

-----------------------------------------------------------------------------
(* Properties.                                                             *)

TypeOK ==
  /\ status \in [Channels -> {0, 1, 4}] /\ key \in [Channels -> 1..MaxKeys]
  /\ valid \subseteq Channels \X (1..MaxKeys)
  /\ DOMAIN cred = Hosts /\ edits \in 0..MaxEdits
  /\ \A c \in Channels : alerts[c] \in Nat
  /\ \A r \in Requests :
       /\ req[r].pc \in {"route", "call", "attempt", "wait", "dispatch", "told"}
       /\ req[r].cand \in 1..Len(Models) + 1
       /\ req[r].tries \in 0..MaxAttempts /\ req[r].empties \in 0..EmptyRetries
       /\ req[r].pc \in {"attempt", "wait", "dispatch"} => req[r].list # << >>

(* A reply that says that the request itself is at fault.                  *)
RequestFault(x) ==
  \/ x.status \in {400, 404, 413}
  \/ x.text = "overflow" /\ x.status \in 400..499 \ {401, 403, 408, 429}

(* switchable.ts, classify.ts: a fault of the request is told as it is, at *)
(* once: no retry, no other channel or model, and nothing held against the *)
(* channel.                                                                *)
FaultEnds ==
  \A r \in Requests :
    At(r, "attempt") /\ req'[r].pc # "attempt" /\ RequestFault(req'[r].cause)
      => /\ req'[r].pc = "dispatch" /\ cred' = cred /\ ~req'[r].last.err.trip
FaultIsTold ==
  \A r \in Requests :
    At(r, "dispatch") /\ req[r].fate = "whole" /\ RequestFault(req[r].cause) /\ req'[r] # req[r]
      => req'[r].answer = "4xx" /\ status' = status

(* requirements 5.16: a channel is taken out only when a provider refused  *)
(* a key of its host; a permission, a limit or a fault of the provider is  *)
(* no reason, whatever the order of the answers of the requests in flight. *)
RefusedKeyDies ==
  \A c \in Channels : status'[c] = 4 /\ status[c] # 4
    => \E d \in Channels, k \in 1..MaxKeys :
         Host[d] = Host[c] /\ k <= key[d] /\ <<d, k>> \notin valid

(* channel.repo.ts: of the requests that find a key dead one tells it, and *)
(* none of them undoes what an administrator has set.                      *)
DeathIsTold ==
  \A c \in Channels : /\ alerts'[c] # alerts[c] => status[c] = 0 /\ status'[c] = 4
                      /\ status'[c] = 4 /\ status[c] # 4 => alerts'[c] = alerts[c] + 1

(* with-retry.ts: once the deadline has passed nothing is sent again.      *)
NothingAfterDeadline == \A r \in Requests : At(r, "attempt") => ~req[r].over

(* chat.ts #6643: what an openai provider's JSON makes a success is an     *)
(* answer: no error object, no unfinished or empty body.                   *)
SuccessIsAnAnswer ==
  \A r \in Requests :
    req[r].answer = "ok" /\ req[r].cause.form = "json" /\ Protocol[Now(r).ch] = "openai"
      => req[r].last.got = "answer" /\ req[r].cause.body = "answer" /\ req[r].fate = "whole"

(* Claims of the documents and comments that the code does not keep.       *)

(* types.ts: bytes of a modality's endpoint reach the client.              *)
BytesAreDelivered ==
  \A r \in Requests : req[r].answer = "ok" /\ req[r].cause.form = "bytes" => req[r].last.got # "hollow"

(* chat.ts #6643: an error object in a body with 200 is a failure.         *)
ErrorsInBodiesFail == \A r \in Requests : req[r].answer = "ok" => req[r].cause.body # "error"

=============================================================================
