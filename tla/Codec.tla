------------------------------- MODULE Codec --------------------------------
(***************************************************************************)
(* A streamed answer on its way from a provider to a client.  A converter  *)
(* turns the provider's events into canonical frames (OpenAI's), the first *)
(* of which is looked at before the answer begins; the relay scans the     *)
(* frames, closes the stream and gives the verdict that billing uses; an   *)
(* encoder turns the frames into the client's own protocol.  The stages    *)
(* are pipes that keep the order, so one event goes through all of them in *)
(* one step.  The provider keeps to its protocol, but may report an error  *)
(* or be cut off at any point.                                             *)
(***************************************************************************)
EXTENDS Integers, Sequences, FiniteSets, SequencesExt

CONSTANTS
  Providers,     (* subset of claude, gemini, openai                        *)
  Clients,       (* subset of claude, gemini, responses, completions, chat  *)
  Texts,         (* pieces of text, of thought, of a tool's arguments       *)
  Reports,       (* usage reports of the provider                           *)
  MaxEvents,     (* bound: events of the provider before its end            *)
  MaxTools       (* bound: tools called                                     *)

CodecAssumption ==
  /\ Providers \subseteq {"claude", "gemini", "openai"}
  /\ Clients \subseteq {"claude", "gemini", "responses", "completions", "chat"}
  /\ "" \notin Texts /\ MaxEvents \in Nat /\ MaxTools \in Nat
  /\ \A u \in Reports : u \in [in : Nat, read : Nat, write : Nat, more : Nat, out : Nat]

VARIABLES
  provider, client,
  base,      (* index of the provider's first tool block                    *)
  stage,     (* where the provider is in its protocol                       *)
  sent,      (* the events it sent                                          *)
  conv,      (* the converter's variables                                   *)
  peek,      (* whether the first chunk let the answer begin                *)
  scan,      (* what the relay's scanner has seen                           *)
  verdict,   (* what the relay reports at the end                           *)
  enc,       (* the encoder's variables                                     *)
  got        (* the events the client was sent                              *)

vars == <<provider, client, base, stage, sent, conv, peek, scan, verdict, enc, got>>

(* Nothing is -1 where the code has null or no field.                      *)
NoReport == [in |-> -1, read |-> 0, write |-> 0, more |-> 0, out |-> -1]
NoUsage == [in |-> -1, cached |-> 0, write |-> 0, out |-> -1]

(* An event of a provider or a client, and a canonical frame.              *)
Ev(k) == [k |-> k, x |-> "", i |-> 0, stop |-> "", use |-> NoReport]
Text(k, x) == [Ev(k) EXCEPT !.x = x]
At(k, i, x) == [Ev(k) EXCEPT !.i = i, !.x = x]
Fin(k, stop, use) == [Ev(k) EXCEPT !.stop = stop, !.use = use]

If(b, s) == IF b THEN s ELSE << >>

-----------------------------------------------------------------------------
(* The Claude converter.                                                   *)

Total(u) == u.in + u.read + u.write + u.more
claudeUsageToUsage(u) ==
  [in |-> Total(u), cached |-> IF u.read < Total(u) THEN u.read ELSE Total(u),
   write |-> u.write + u.more, out |-> u.out]

ClaudeStart == [in |-> 0, cached |-> 0, write |-> 0, out |-> -1,
                tools |-> << >>, told |-> FALSE]

STOP_REASON_MAP(stop) ==
  CASE stop = "max_tokens" -> "length" [] stop = "tool_use" -> "tool_calls"
    [] stop = "refusal" -> "content_filter" [] OTHER -> "stop"

UsageOf(s) == IF s.out >= 0 /\ s.in > 0
                THEN [in |-> s.in, cached |-> s.cached, write |-> s.write, out |-> s.out]
                ELSE NoUsage

Slot(s, i) == CHOOSE n \in DOMAIN s.tools : s.tools[n] = i

(* message_delta with the reports of both sides, of the output, or none.   *)
DeltaUsage(s, u) ==
  LET v == claudeUsageToUsage(u) IN
  IF u.out < 0 THEN s
  ELSE IF u.in < 0 THEN [s EXCEPT !.out = u.out]
  ELSE [s EXCEPT !.in = v.in, !.cached = v.cached, !.write = v.write, !.out = u.out]

ArgsByBlock(s, e) == At("args", e.i, e.x)   \* mutant: the block's index is the slot
ArgsFrame(s, e) == At("args", Slot(s, e.i) - 1, e.x)

ClaudeIn(s, e) ==
  CASE e.k = "message_start" ->
         <<IF e.use.in < 0 THEN s
           ELSE LET v == claudeUsageToUsage(e.use) IN
                [s EXCEPT !.in = v.in, !.cached = v.cached, !.write = v.write],
           <<Ev("role")>> >>
    [] e.k = "tool" ->
         <<[s EXCEPT !.tools = Append(@, e.i)], <<At("tool", Len(s.tools), "")>> >>
    [] e.k = "args" -> <<s, If(e.i \in ToSet(s.tools), <<ArgsFrame(s, e)>>)>>
    [] e.k \in {"text", "thought"} -> <<s, <<Text(e.k, e.x)>> >>
    [] e.k = "message_delta" ->
         LET d == DeltaUsage(s, e.use) IN
         IF e.stop = "" THEN <<d, << >> >>
         ELSE <<[d EXCEPT !.told = TRUE],
                <<Fin("finish", STOP_REASON_MAP(e.stop), UsageOf(d))>> >>
    [] e.k = "message_stop" -> <<s, <<Ev("done")>> >>
    [] e.k = "error" -> <<s, <<Ev("error"), Ev("done")>> >>

ClaudeFlush(s) ==
  If(~s.told /\ UsageOf(s) /= NoUsage, <<Fin("finish", "stop", UsageOf(s))>>)
    \o <<Ev("done")>>

-----------------------------------------------------------------------------
(* The Gemini converter: its only variable is whether it has started.      *)

FINISH_MAP(stop) ==
  CASE stop = "MAX_TOKENS" -> "length" [] stop \in {"SAFETY", "RECITATION"} -> "content_filter"
    [] OTHER -> "stop"

(* geminiUsageToUsage as the stream passes it on: thoughts are output, and *)
(* the cached share is left out.                                           *)
GeminiUsage(u) == IF u.in < 0 THEN NoUsage
                  ELSE [in |-> u.in, cached |-> 0, write |-> 0, out |-> u.out + u.more]

PartText(e) == If(e.x /= "", <<Text("text", e.x)>>)

GeminiIn(s, e) ==
  LET role == If(~s, <<Ev("role")>>) IN
  <<TRUE,
    CASE e.k = "error" -> role \o <<Ev("error"), Ev("done")>>
      [] e.k = "call" -> role
      [] OTHER ->
           role \o PartText(e)
             \o (IF e.stop /= ""
                   THEN <<Fin("finish", FINISH_MAP(e.stop), GeminiUsage(e.use)), Ev("done")>>
                   ELSE If(e.use.in >= 0, <<Fin("usage", "", GeminiUsage(e.use))>>))>>

-----------------------------------------------------------------------------
(* An OpenAI provider's frames are canonical already.                      *)
Same(s, e) ==
  LET use == IF e.use.in < 0 THEN NoUsage
             ELSE [in |-> e.use.in, cached |-> e.use.read, write |-> e.use.write,
                   out |-> e.use.out] IN
  <<s, <<[e EXCEPT !.use = use]>> >>

Convert(p, s, e) ==
  CASE p = "claude" -> ClaudeIn(s, e) [] p = "gemini" -> GeminiIn(s, e)
    [] OTHER -> Same(s, e)
ConvertEnd(p, s) ==
  CASE p = "claude" -> ClaudeFlush(s) [] p = "gemini" -> <<Ev("done")>> [] OTHER -> << >>

-----------------------------------------------------------------------------
(* The relay: the scanner, and the end of the stream.                      *)

ScanStart == [done |-> FALSE, term |-> FALSE, err |-> FALSE, use |-> NoUsage]

Scan(s, f) ==
  [done |-> s.done \/ f.k = "done", term |-> s.term \/ f.k = "finish",
   err |-> s.err \/ f.k = "error",
   use |-> IF f.k \in {"finish", "usage"} /\ f.use.in >= 0 THEN f.use ELSE s.use]

Judged(s) == IF s.err /\ (s.done \/ ~s.term) THEN "upstream_error"
             ELSE IF s.done \/ s.term THEN "complete" ELSE "truncated"
RelayEnd(s) ==
  IF s.done THEN << >>
  ELSE If(~s.term /\ ~s.err, <<Ev("error")>>) \o <<Ev("done")>>

-----------------------------------------------------------------------------
(* The Claude encoder.                                                     *)

EncStart == [started |-> FALSE, open |-> FALSE, tools |-> << >>, item |-> FALSE,
             in |-> 0, out |-> 0, cached |-> 0, write |-> 0, fin |-> ""]

Counted(s, f) ==
  IF f.k \in {"finish", "usage"} /\ f.use.in >= 0
    THEN [s EXCEPT !.in = f.use.in, !.out = f.use.out, !.cached = f.use.cached,
                   !.write = f.use.write]
    ELSE s
Told(s) == [in |-> s.in, read |-> s.cached, write |-> s.write, more |-> 0, out |-> s.out]

claudeStopOf(fin) ==
  CASE fin = "length" -> "max_tokens" [] fin = "tool_calls" -> "tool_use"
    [] fin = "content_filter" -> "refusal" [] OTHER -> "end_turn"

KeepTool(s, f) == [s EXCEPT !.tools = Append(@, f.i)]

ClaudeOut(s, f) ==
  LET start == If(~s.started, <<Ev("message_start")>>)
      opens == ~s.open /\ (f.k = "role" \/ (f.k = "text" /\ f.x /= ""))
      fresh == f.k \in {"tool", "args"} /\ f.i \notin ToSet(s.tools)
      t == Counted([s EXCEPT !.started = TRUE, !.open = @ \/ opens,
                             !.fin = IF f.k = "finish" THEN f.stop ELSE @], f) IN
  CASE f.k = "done" ->
         <<[s EXCEPT !.fin = IF @ = "" THEN "end_turn" ELSE @],
           <<Fin("message_delta", claudeStopOf(s.fin), Told(s))>>
             \o If(s.open, <<Ev("block_stop")>>)
             \o [n \in DOMAIN s.tools |-> At("block_stop", s.tools[n] + 1, "")]
             \o <<Ev("message_stop")>> >>
    [] f.k = "error" -> <<s, <<Ev("error")>> >>
    [] OTHER ->
         <<IF fresh THEN KeepTool(t, f) ELSE t,
           start \o If(opens, <<Ev("block_start")>>)
             \o If(f.k = "text" /\ f.x /= "", <<Text("text", f.x)>>)
             \o If(fresh, <<At("block_start", f.i + 1, "")>>)
             \o If(f.k = "args" /\ f.x /= "", <<At("args", f.i + 1, f.x)>>)>>

ClaudeEnd(s) ==
  If(s.started, <<Fin("message_delta", claudeStopOf(s.fin),
                      [NoReport EXCEPT !.in = s.in, !.out = s.out]),
                  Ev("message_stop")>>)

-----------------------------------------------------------------------------
(* The Gemini, Responses and Completions encoders; chat has none.          *)

geminiFinishOf(fin) ==
  CASE fin = "length" -> "MAX_TOKENS" [] fin = "content_filter" -> "SAFETY" [] OTHER -> "STOP"

(* A tool's name comes with its first piece, and later pieces have none.   *)
GeminiOut(s, f) ==
  <<Counted([s EXCEPT !.fin = IF f.k = "finish" THEN f.stop ELSE @], f),
    CASE f.k = "done" -> <<Fin("part", geminiFinishOf(s.fin),
                               [NoReport EXCEPT !.in = s.in, !.out = s.out])>>
      [] f.k = "error" -> <<Ev("error")>>
      [] f.k = "text" -> If(f.x /= "", <<Text("text", f.x)>>)
      [] f.k = "tool" -> <<At("call", f.i, "")>>
      [] OTHER -> << >> >>
GeminiEnd(s) == <<Fin("part", geminiFinishOf(s.fin), NoReport)>>

ResponsesOut(s, f) ==
  LET start == If(~s.started, <<Ev("created")>>) IN
  IF f.k = "done"
    THEN <<s, If(s.started, <<Ev("text_done"), Ev("item_done"), Fin("completed", "", Told(s))>>)>>
    ELSE <<Counted([s EXCEPT !.started = TRUE, !.item = @ \/ (f.k = "text" /\ f.x /= "")], f),
           start \o If(f.k = "error", <<Ev("failed")>>)
             \o If(f.k = "text" /\ f.x /= "",
                   If(~s.item, <<Ev("item_added")>>) \o <<Text("text", f.x)>>)>>
ResponsesEnd(s) == If(s.started, <<Fin("completed", "", NoReport)>>)

CompletionsOut(f) ==
  CASE f.k = "done" -> <<f>>
    [] f.k = "text" -> If(f.x /= "", <<Text("text", f.x)>>)
    [] f.k = "finish" -> <<Fin("finish", f.stop, NoReport)>>
    [] OTHER -> << >>

Encode(c, s, f) ==
  CASE c = "claude" -> ClaudeOut(s, f) [] c = "gemini" -> GeminiOut(s, f)
    [] c = "responses" -> ResponsesOut(s, f)
    [] c = "completions" -> <<s, CompletionsOut(f)>> [] OTHER -> <<s, <<f>> >>
EncodeEnd(c, s) ==
  CASE c = "claude" -> ClaudeEnd(s) [] c = "gemini" -> GeminiEnd(s)
    [] c = "responses" -> ResponsesEnd(s) [] OTHER -> << >>

(* Frames through an encoder: its variables and all it sent.               *)
EncodeAll(c, s, fs) ==
  FoldLeft(LAMBDA acc, f : LET r == Encode(c, acc[1], f) IN <<r[1], acc[2] \o r[2]>>,
           <<s, << >> >>, fs)

-----------------------------------------------------------------------------
Init ==
  /\ provider \in Providers /\ client \in Clients /\ base \in {1, 2}
  /\ stage = "new" /\ sent = << >> /\ peek = "first"
  /\ conv = CASE provider = "claude" -> ClaudeStart [] provider = "gemini" -> FALSE
              [] OTHER -> "none"
  /\ scan = ScanStart /\ verdict = "none" /\ enc = EncStart /\ got = << >>

(* An event goes through the converter, the look at the first chunk, the   *)
(* scanner and the encoder.                                                *)
Pass(e, next) ==
  LET r == Convert(provider, conv, e)
      fs == r[2]
      all == EncodeAll(client, enc, fs) IN
  /\ peek /= "refused" /\ verdict = "none" /\ Len(sent) < MaxEvents
  /\ sent' = Append(sent, e) /\ stage' = next /\ conv' = r[1]
  /\ IF peek = "first" /\ fs /= << >> /\ fs[1].k = "error"
       THEN peek' = "refused" /\ UNCHANGED <<scan, enc, got>>
       ELSE /\ peek' = IF fs = << >> THEN peek ELSE "passed"
            /\ scan' = FoldLeft(Scan, scan, fs)
            /\ enc' = all[1] /\ got' = got \o all[2]
  /\ UNCHANGED <<provider, client, base, verdict>>

NTools == Cardinality({n \in DOMAIN sent : sent[n].k = "tool"})
OutOnly(u) == [NoReport EXCEPT !.out = u.out]

(* To OpenAI and Gemini the cached tokens are part of the input.           *)
Inclusive == {u \in Reports : u.read <= u.in}

(* message_start, blocks, message_delta, message_stop.                     *)
ClaudeSends ==
  /\ provider = "claude"
  /\ \/ /\ stage = "new"
        /\ \E u \in Reports \cup {NoReport} :
             Pass([Ev("message_start") EXCEPT !.use = u], "open")
     \/ /\ stage = "open"
        /\ \/ \E k \in {"text", "thought"}, x \in Texts : Pass(Text(k, x), "open")
           \/ NTools < MaxTools /\ Pass(At("tool", base + NTools, ""), "open")
           \/ \E x \in Texts : NTools > 0 /\ Pass(At("args", base + NTools - 1, x), "open")
           \/ \E u \in Reports :
                Pass([Ev("message_delta") EXCEPT !.use = OutOnly(u)], "open")
           \/ \E stop \in {"end_turn", "max_tokens", "tool_use", "refusal"},
                 u \in Reports \cup {OutOnly(v) : v \in Reports} \cup {NoReport} :
                Pass(Fin("message_delta", stop, u), "stopped")
     \/ stage = "stopped" /\ Pass(Ev("message_stop"), "ended")

(* Parts with text or a call, the last with a reason; reports in any.      *)
GeminiSends ==
  /\ provider = "gemini" /\ stage \in {"new", "open"}
  /\ \E u \in Inclusive \cup {NoReport} :
       \/ \E x \in Texts : Pass([Text("text", x) EXCEPT !.use = u], "open")
       \/ \E x \in Texts \cup {""}, stop \in {"STOP", "MAX_TOKENS", "SAFETY"} :
            Pass([Fin("text", stop, u) EXCEPT !.x = x], "ended")
       \/ NTools < MaxTools /\ Pass([Ev("call") EXCEPT !.use = NoReport], "open")

OpenAISends ==
  /\ provider = "openai"
  /\ \/ stage = "new" /\ Pass(Ev("role"), "open")
     \/ /\ stage = "open"
        /\ \/ \E x \in Texts : Pass(Text("text", x), "open")
           \/ NTools < MaxTools /\ Pass(At("tool", NTools, ""), "open")
           \/ \E x \in Texts : NTools > 0 /\ Pass(At("args", NTools - 1, x), "open")
           \/ \E stop \in {"stop", "length", "tool_calls", "content_filter"},
                 u \in Inclusive \cup {NoReport} : Pass(Fin("finish", stop, u), "stopped")
     \/ stage = "stopped" /\ \/ \E u \in Inclusive : Pass(Fin("usage", "", u), "stopped")
                             \/ Pass(Ev("done"), "ended")

ReportsError == stage \in {"new", "open", "stopped"} /\ Pass(Ev("error"), "failed")

(* The provider closes the stream: both flushes, then the encoder's.       *)
Eof ==
  LET fs == ConvertEnd(provider, conv)
      s == FoldLeft(Scan, scan, fs)
      all == EncodeAll(client, enc, fs \o RelayEnd(s)) IN
  /\ verdict = "none" /\ peek /= "refused"
  /\ IF peek = "first" /\ fs = << >>
       THEN peek' = "refused" /\ UNCHANGED <<scan, enc, got, verdict>>
       ELSE /\ peek' = "passed" /\ scan' = s /\ verdict' = Judged(s) /\ enc' = all[1]
            /\ got' = got \o all[2] \o EncodeEnd(client, all[1])
  /\ UNCHANGED <<provider, client, base, stage, sent, conv>>

Next == ClaudeSends \/ GeminiSends \/ OpenAISends \/ ReportsError \/ Eof

Spec == Init /\ [][Next]_vars
-----------------------------------------------------------------------------
Pieces(s) == LET t == SelectSeq(s, LAMBDA e : e.k = "text" /\ e.x /= "")
             IN  [n \in DOMAIN t |-> t[n].x]
Over == verdict /= "none"
Complete == stage \in {"stopped", "ended"}
Kinds(s) == {s[n].k : n \in DOMAIN s}
Stops(s) == SelectSeq(s, LAMBDA e : e.stop /= "")

TypeOK ==
  /\ stage \in {"new", "open", "stopped", "ended", "failed"}
  /\ peek \in {"first", "passed", "refused"}
  /\ verdict \in {"none", "complete", "upstream_error", "truncated"}
  /\ scan.use \in [in : Int, cached : Nat, write : Nat, out : Int]
  /\ scan.use.cached <= IF scan.use.in < 0 THEN 0 ELSE scan.use.in
  /\ \A n \in DOMAIN got : got[n].x \in Texts \cup {""}

(* The client has every piece of text, in order, as soon as it was sent,   *)
(* whatever the two protocols are.                                         *)
TextArrives == peek = "passed" => Pieces(got) = Pieces(sent)

(* A client that is sent tool calls gets the arguments of each call, piece *)
(* by piece and under the call's own position (the converter's map of      *)
(* blocks, the encoder's map of slots).                                    *)
ToolsArrive ==
  LET args(s, first) == LET t == SelectSeq(s, LAMBDA e : e.k = "args")
                        IN  [n \in DOMAIN t |-> <<t[n].i - first, t[n].x>>] IN
  peek = "passed" /\ provider \in {"claude", "openai"} /\ client \in {"claude", "chat"} =>
    args(got, IF client = "claude" THEN 1 ELSE 0)
      = args(sent, IF provider = "claude" THEN base ELSE 0)

(* A Claude client is told of a block once, and before the block's first   *)
(* piece.                                                                  *)
BlocksAreOpened ==
  client = "claude" =>
    /\ \A m, n \in DOMAIN got :
         got[m].k = "block_start" /\ got[n].k = "block_start" /\ got[m].i = got[n].i => m = n
    /\ \A n \in DOMAIN got : got[n].k \in {"text", "args"} =>
         \E m \in 1..(n - 1) : got[m].k = "block_start" /\ got[m].i = got[n].i

(* What the words of the three protocols mean.                             *)
Meaning(stop) ==
  CASE stop \in {"max_tokens", "length", "MAX_TOKENS"} -> "length"
    [] stop \in {"tool_use", "tool_calls"} -> "tools"
    [] stop \in {"refusal", "content_filter", "SAFETY"} -> "refused"
    [] OTHER -> "natural"

(* The reason a complete answer ended for is the reason its client reads,  *)
(* except that Gemini has no word for a tool call.                         *)
FinishMeansTheSame ==
  Over /\ Complete /\ client \in {"claude", "chat", "completions", "gemini"} =>
    LET s == Meaning(Stops(sent)[1].stop)
        t == Meaning(Stops(got)[Len(Stops(got))].stop) IN
    t = IF client = "gemini" /\ s = "tools" THEN "natural" ELSE s

(* The tokens billed for a complete answer are those its provider reported *)
(* last: all of the input, the cached part of it and the output (the       *)
(* converter's sums, the scanner's last usage).                            *)
Sides(n) == {m \in 1..n : sent[m].use.in >= 0}
Outs(n) == {m \in 1..n : sent[m].use.out >= 0}
LastOf(S) == sent[CHOOSE m \in S : \A n \in S : n <= m].use
UsageIsBilled ==
  LET n == Len(sent) IN
  Over /\ Complete /\ Sides(n) /= {}
    /\ (\E m \in Outs(n) : sent[m].k /= "message_start")
    /\ (provider = "claude" => Stops(sent)[1].use.out >= 0 /\ Total(LastOf(Sides(n))) > 0) =>
    LET u == LastOf(Sides(n)) IN
    /\ scan.use.in = IF provider = "claude" THEN Total(u) ELSE u.in
    /\ scan.use.out = LastOf(Outs(n)).out + IF provider = "gemini" THEN u.more ELSE 0
    /\ provider /= "gemini" => scan.use.cached = u.read

(* A client whose protocol has an error is told of one when the provider   *)
(* reports it or the relay finds the answer truncated.                     *)
ErrorIsTold ==
  peek = "passed" /\ client /= "completions" /\ (stage = "failed" \/ verdict = "truncated")
    => Kinds(got) \cap {"error", "failed"} /= {}

(* No client waits for an end that does not come: the last event of a      *)
(* stream that had any is its protocol's end.                              *)
NobodyIsLeftWaiting ==
  Over /\ sent /= << >> =>
    LET last == got[Len(got)] IN
    CASE client = "claude" -> last.k = "message_stop"
      [] client = "gemini" -> last.k = "part" /\ last.stop /= ""
      [] client = "responses" -> last.k \in {"completed", "failed"}
      [] OTHER -> last.k = "done"

-----------------------------------------------------------------------------
(* A Claude client is told the end once: the stop at the end of the stream *)
(* is for streams that had no end of their own.                            *)
EndsOnce ==
  client = "claude" =>
    \A m, n \in DOMAIN got : got[m].k = "message_stop" /\ got[n].k = "message_stop" => m = n

(* A stream that was cut off is found truncated by the relay.              *)
CutIsTruncated ==
  Over /\ stage \in {"new", "open"} => verdict = "truncated"

(* A truncated answer is not presented as a success.                       *)
CutIsNoSuccess ==
  verdict = "truncated" => "completed" \notin Kinds(got)

=============================================================================
