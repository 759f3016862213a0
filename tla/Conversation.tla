---------------------------- MODULE Conversation ----------------------------
(***************************************************************************)
(* A conversation with tools through the gateway.  The client keeps the    *)
(* history in its own form (chat, claude, gemini or responses) and sends   *)
(* all of it with every turn.  The gateway turns it into its canonical     *)
(* form, the chat form, and that into the form of the provider that serves *)
(* this turn; the next turn may be served by another.  The answer comes    *)
(* back the same way, the client carries out the calls in it and adds what *)
(* they gave.                                                              *)
(*                                                                         *)
(* A text is a sequence of words, and a word is the number of its saying.  *)
(* The argument of a call is its number, and what it gives is that number  *)
(* again, written as JSON or not.  Streams are the subject of Codec.       *)
(***************************************************************************)
EXTENDS Integers, Sequences, FiniteSets, SequencesExt

CONSTANTS
  Clients,     (* subset of chat, claude, gemini, responses                 *)
  Providers,   (* subset of openai, anthropic, gemini                       *)
  Forms,       (* how clients write: subset of string, parts, image         *)
  Plain,       (* whether a tool may give text that is no JSON              *)
  Beside,      (* the clients that put words beside what tools gave         *)
  ToolChoices, (* subset of auto, required, named, none                     *)
  Answers,     (* the calls of an answer: sequences of names                *)
  MaxSends     (* bound: turns                                              *)

ConversationAssumption ==
  /\ Clients \subseteq {"chat", "claude", "gemini", "responses"}
  /\ Providers \subseteq {"openai", "anthropic", "gemini"}
  /\ Forms \subseteq {"string", "parts", "image"} /\ Plain \in BOOLEAN
  /\ Beside \subseteq {"chat", "claude"} /\ MaxSends \in Nat
  /\ ToolChoices \subseteq {"auto", "required", "named", "none"}
  /\ <<>> \in Answers

VARIABLES
  client,
  history,   (* the client's messages, in its own form                      *)
  choice,    (* of a tool, as the client writes it                          *)
  said,      (* who said which word                                         *)
  made,      (* the calls made                                              *)
  given,     (* the calls whose results were given                          *)
  shown,     (* the pictures shown                                          *)
  via,       (* the provider of this turn                                   *)
  view,      (* what it was sent: the messages, and the choice of a tool    *)
  sends, pc

vars == <<client, history, choice, said, made, given, shown, via, view, sends, pc>>

-----------------------------------------------------------------------------
(* Messages.  A content is a string or an array of parts.                  *)

Part == [t |-> "text", v |-> << >>, id |-> "", name |-> "", str |-> FALSE, json |-> TRUE]
Text(v) == [Part EXCEPT !.v = v]
Str(v) == [str |-> TRUE, parts |-> <<Text(v)>>]
Arr(parts) == [str |-> FALSE, parts |-> parts]
Message(role, content) ==
  [role |-> role, content |-> content, calls |-> << >>, id |-> "", json |-> TRUE]

Map(f(_), s) == [i \in DOMAIN s |-> f(s[i])]
Of(types, parts) == SelectSeq(parts, LAMBDA p : p.t \in types)
Words(parts) == FlattenSeq(Map(LAMBDA p : p.v, Of({"text"}, parts)))
AllText(parts) == \A i \in DOMAIN parts : parts[i].t = "text"

(* asArray: a string is no array.                                          *)
AsArray(c) == IF c.str THEN << >> ELSE c.parts
Joined(parts) == IF AllText(parts) THEN Str(Words(parts)) ELSE Arr(parts)

-----------------------------------------------------------------------------
(* The codec of Claude's messages.                                         *)

claudeContentToChat(c) == Joined(AsArray(c))

ToolOf(p) == [Message("tool", claudeContentToChat([str |-> p.str, parts |-> <<Text(p.v)>>]))
                EXCEPT !.id = p.id, !.json = p.json]
ClaudeMessage(m) ==
  LET parts == AsArray(m.content)
      results == Of({"tool_result"}, parts)
      rest == SelectSeq(parts, LAMBDA p : p.t # "tool_result") IN
  IF results # << >>
  THEN Map(ToolOf, results)
         \o (IF rest = << >> THEN << >> ELSE <<Message(m.role, Joined(rest))>>)
  ELSE <<[Message(m.role, claudeContentToChat(m.content))
            EXCEPT !.calls = IF m.role = "assistant" THEN Of({"tool_use"}, parts) ELSE << >>]>>
claudeRequestToChat(h) == FlattenSeq(Map(ClaudeMessage, h))

chatContentToClaude(c) ==
  IF c.str THEN IF Words(c.parts) = << >> THEN << >> ELSE c.parts
  ELSE Map(LAMBDA p : CASE p.t = "text" -> p
                        [] p.t = "image_url" -> [p EXCEPT !.t = "image"]
                        [] OTHER -> Text(<< >>), c.parts)

Use(p) == [p EXCEPT !.t = "tool_use"]
ClaudeResult(m) ==
  [Part EXCEPT !.t = "tool_result", !.v = Words(m.content.parts), !.json = m.json, !.str = TRUE,
               !.id = m.id]
ToClaude(m) ==
  CASE m.role = "tool" -> Message("user", Arr(<<ClaudeResult(m)>>))
    [] m.role = "assistant" -> Message("assistant", Arr(chatContentToClaude(m.content) \o Map(Use, m.calls)))
    [] OTHER -> Message("user", Arr(chatContentToClaude(m.content)))
chatRequestToClaude(ms) == Map(ToClaude, ms)

Answered(text, calls) == [Message("assistant", Str(text)) EXCEPT !.calls = calls]
claudeResponseToChat(parts) == Answered(Words(parts), Of({"tool_use"}, parts))

Said1(text) == IF text = << >> THEN << >> ELSE <<Text(text)>>
chatResponseToClaude(a) ==
  Message("assistant", Arr(Said1(Words(a.content.parts)) \o Map(Use, a.calls)))

-----------------------------------------------------------------------------
(* The codec of Gemini's contents: calls have no ids there, and what a     *)
(* function gave is told by the function's name.                           *)

Fresh(i) == "call_g" \o ToString(i - 1)
Named(calls) == [i \in DOMAIN calls |-> [calls[i] EXCEPT !.t = "tool_use", !.id = Fresh(i)]]

GeminiMessage(m) ==
  LET parts == m.content.parts
      responses == Of({"functionResponse"}, parts) IN
  IF responses # << >>
  THEN Map(LAMBDA p : [Message("tool", Str(p.v)) EXCEPT !.id = p.name], responses)
  ELSE <<[Message(IF m.role = "model" THEN "assistant" ELSE "user", Joined(parts))
            EXCEPT !.calls = IF m.role = "model" THEN Named(Of({"functionCall"}, parts)) ELSE << >>]>>
geminiRequestToChat(h) == FlattenSeq(Map(GeminiMessage, h))

chatContentToParts(c) ==
  IF c.str THEN IF Words(c.parts) = << >> THEN << >> ELSE c.parts
  ELSE Map(LAMBDA p : IF p.t = "text" THEN p ELSE Text(<< >>), c.parts)

Call(p) == [p EXCEPT !.t = "functionCall", !.id = ""]
Unless(b, v) == IF b THEN v ELSE << >>
ToGemini(m) ==
  CASE m.role = "tool" ->
         Message("user", Arr(<<[Part EXCEPT !.t = "functionResponse", !.name = m.id,
                                            !.v = Unless(m.json, Words(m.content.parts))]>>))
    [] m.role = "assistant" -> Message("model", Arr(chatContentToParts(m.content) \o Map(Call, m.calls)))
    [] OTHER -> Message("user", Arr(chatContentToParts(m.content)))
chatRequestToGemini(ms) == Map(ToGemini, ms)

(* The ids count the parts of the answer, the text included.               *)
geminiResponseToChat(parts) ==
  Answered(Words(parts),
           LET all == Named(parts) IN
           SelectSeq([i \in DOMAIN all |-> [all[i] EXCEPT !.t = parts[i].t]],
                     LAMBDA p : p.t = "functionCall"))
chatResponseToGemini(a) ==
  Message("model", Arr(Said1(Words(a.content.parts)) \o Map(Call, a.calls)))

-----------------------------------------------------------------------------
(* The form of responses has only texts.                                   *)
responsesRequestToChat(h) == Map(LAMBDA m : Message(m.role, Str(Words(m.content.parts))), h)
chatResponseToResponses(a) == Message("assistant", Str(Words(a.content.parts)))

(* The choice of a tool; "" is no choice, with which providers may call.   *)
ChoiceIn(c) ==
  CASE client = "chat" -> c
    [] client = "claude" -> IF c = "none" THEN "" ELSE c
    [] client = "gemini" -> IF c \in {"auto", "named"} THEN c ELSE ""
    [] OTHER -> ""
ChoiceOut(p, c) == IF p = "anthropic" /\ c = "none" THEN "" ELSE c

-----------------------------------------------------------------------------
Init ==
  /\ client \in Clients
  /\ history = << >> /\ choice = "auto"
  /\ said = << >> /\ made = << >> /\ given = << >> /\ shown = << >>
  /\ via = "" /\ view = [messages |-> << >>, choice |-> ""]
  /\ sends = 0 /\ pc = "ask"

Written(form, v) ==
  CASE form = "string" /\ client # "gemini" -> Str(v)
    [] form = "image" -> Arr(<<Text(v), [Part EXCEPT !.v = v,
         !.t = CASE client = "chat" -> "image_url" [] client = "claude" -> "image" [] OTHER -> "inlineData"]>>)
    [] OTHER -> Arr(<<Text(v)>>)

(* The user says something.                                                *)
Ask(form, c) ==
  /\ pc = "ask" /\ sends < MaxSends
  /\ ~(client = "responses" /\ form = "image")
  /\ LET word == Len(said) + 1 IN
     /\ history' = Append(history, Message("user", Written(form, <<word>>)))
     /\ said' = Append(said, [who |-> "user", word |-> word])
     /\ shown' = IF form = "image" THEN Append(shown, word) ELSE shown
  /\ choice' = c /\ pc' = "ready"
  /\ UNCHANGED <<client, made, given, via, view, sends>>

(* The client gives what the calls of the last answer gave.                *)
Due == SubSeq(made, Len(given) + 1, Len(made))
CallsHeld(m) == IF client = "chat" THEN m.calls ELSE Of({"tool_use", "functionCall"}, m.content.parts)
Gave(p, json, str) == [p EXCEPT !.t = IF client = "gemini" THEN "functionResponse" ELSE "tool_result",
                                !.json = json, !.str = str]
Reported(results, extra) ==
  LET text == IF extra = << >> THEN << >> ELSE <<Text(extra)>> IN
  IF client = "chat"
  THEN Map(LAMBDA p : [Message("tool", Str(p.v)) EXCEPT !.id = p.id, !.json = p.json], results)
         \o (IF extra = << >> THEN << >> ELSE <<Message("user", Str(extra))>>)
  ELSE <<Message("user", Arr(results \o text))>>
Report(json, str, beside) ==
  /\ pc = "tools"
  /\ beside => client \in Beside
  /\ ~json => Plain /\ client # "gemini"
  /\ str => client = "claude" /\ "string" \in Forms
  /\ LET word == Len(said) + 1
         results == Map(LAMBDA p : Gave(p, json, str), CallsHeld(Last(history))) IN
     /\ history' = history \o Reported(results, IF beside THEN <<word>> ELSE << >>)
     /\ said' = IF beside THEN Append(said, [who |-> "user", word |-> word]) ELSE said
     /\ given' = given \o Map(LAMBDA p : p.v[1], results)
  /\ pc' = "ready"
  /\ UNCHANGED <<client, choice, made, shown, via, view, sends>>

Canonical(h) ==
  CASE client = "claude" -> claudeRequestToChat(h)
    [] client = "gemini" -> geminiRequestToChat(h)
    [] client = "responses" -> responsesRequestToChat(h)
    [] OTHER -> h
Native(p, ms) ==
  CASE p = "anthropic" -> chatRequestToClaude(ms)
    [] p = "gemini" -> chatRequestToGemini(ms)
    [] OTHER -> ms
Send(p) ==
  /\ pc = "ready" /\ sends < MaxSends
  /\ via' = p
  /\ view' = [messages |-> Native(p, Canonical(history)), choice |-> ChoiceOut(p, ChoiceIn(choice))]
  /\ sends' = sends + 1 /\ pc' = "sent"
  /\ UNCHANGED <<client, history, choice, said, made, given, shown>>

(* A provider answers with a word, calls, or both, and numbers its calls;  *)
(* Gemini does not.                                                        *)
NewCalls(names) ==
  [i \in DOMAIN names |->
     [Part EXCEPT !.t = IF via = "gemini" THEN "functionCall" ELSE "tool_use", !.name = names[i],
                  !.v = <<Len(made) + i>>,
                  !.id = IF via = "gemini" THEN "" ELSE "id" \o ToString(Len(made) + i)]]
FromProvider(text, calls) ==
  CASE via = "anthropic" -> claudeResponseToChat(Said1(text) \o calls)
    [] via = "gemini" -> geminiResponseToChat(Said1(text) \o calls)
    [] OTHER -> Answered(text, calls)
ToClient(a) ==
  CASE client = "claude" -> chatResponseToClaude(a)
    [] client = "gemini" -> chatResponseToGemini(a)
    [] client = "responses" -> chatResponseToResponses(a)
    [] OTHER -> a
Reply(names, speaks) ==
  /\ pc = "sent"
  /\ names = << >> => speaks
  /\ client = "responses" => names = << >>
  /\ LET word == Len(said) + 1
         calls == NewCalls(names) IN
     /\ history' = Append(history, ToClient(FromProvider(IF speaks THEN <<word>> ELSE << >>, calls)))
     /\ said' = IF speaks THEN Append(said, [who |-> "assistant", word |-> word]) ELSE said
     /\ made' = made \o Map(LAMBDA p : [name |-> p.name, no |-> p.v[1]], calls)
  /\ pc' = IF names = << >> THEN "ask" ELSE "tools"
  /\ UNCHANGED <<client, choice, given, shown, via, view, sends>>

Over == sends = MaxSends /\ pc # "sent" /\ UNCHANGED vars

Next ==
  \/ \E form \in Forms, c \in ToolChoices : Ask(form, c)
  \/ \E json, str, beside \in BOOLEAN : Report(json, str, beside)
  \/ \E p \in Providers : Send(p)
  \/ \E names \in Answers, speaks \in BOOLEAN : Reply(names, speaks)
  \/ Over

Spec == Init /\ [][Next]_vars

-----------------------------------------------------------------------------
(* Properties: what a provider is sent means what was said and done.       *)

TypeOK ==
  /\ client \in Clients /\ sends \in 0..MaxSends
  /\ pc \in {"ask", "ready", "sent", "tools"}
  /\ via \in Providers \cup {""} /\ (pc = "sent" => via \in Providers)
  /\ Len(given) <= Len(made)
  /\ \A i \in DOMAIN history : history[i].role \in {"user", "assistant", "model", "tool"}
  /\ pc = "tools" => Len(CallsHeld(Last(history))) = Len(Due)

Sent == pc = "sent"
CallsIn(m) == IF via = "openai" THEN m.calls ELSE Of({"tool_use", "functionCall"}, m.content.parts)
ResultsIn(m) ==
  IF via # "openai" THEN Of({"tool_result", "functionResponse"}, m.content.parts)
  ELSE IF m.role = "tool" THEN <<[Part EXCEPT !.v = Words(m.content.parts), !.id = m.id]>> ELSE << >>
SaidIn(m) ==
  IF m.role = "tool" THEN << >>
  ELSE Map(LAMBDA w : [who |-> IF m.role = "model" THEN "assistant" ELSE m.role, word |-> w],
           Words(m.content.parts))
All(f(_)) == FlattenSeq(Map(f, view.messages))

(* 4.5: whoever serves a turn, every call made so far reaches it, once, in *)
(* order, with its name and its argument.                                  *)
CallsReach ==
  Sent => Map(LAMBDA p : <<p.name, p.v>>, All(CallsIn)) = Map(LAMBDA c : <<c.name, <<c.no>>>>, made)

(* What a Claude client wrote as a string instead of an array of parts:    *)
(* messages, and results of tools.                                         *)
WordsInStrings ==
  {w \in 1..Len(said) : client = "claude" /\ \E i \in DOMAIN history :
                  history[i].content.str /\ history[i].content.parts[1].v = <<w>>}
ResultsInStrings ==
  {n \in ToSet(given) : client = "claude" /\ \E i \in DOMAIN history : \E p \in ToSet(history[i].content.parts) :
                  p.t = "tool_result" /\ p.str /\ p.v = <<n>>}

(* Every word that no Claude client wrote as a string reaches it, in       *)
(* order, from the one who said it, and is not lost with those beside it.  *)
WordsReach ==
  Sent => All(SaidIn) = SelectSeq(said, LAMBDA w : w.word \notin WordsInStrings)

(* What a tool gave, and no Claude client wrote as a string, reaches it    *)
(* unchanged.                                                              *)
ResultsArrive ==
  Map(LAMBDA p : p.v, All(ResultsIn)) = Map(LAMBDA n : <<n>>, given)
ResultsReach ==
  Sent /\ via # "gemini" =>
    Map(LAMBDA p : p.v, All(ResultsIn))
      = Map(LAMBDA n : IF n \in ResultsInStrings THEN << >> ELSE <<n>>, given)

(* Results stand right behind the calls they answer, one for each, and are *)
(* told apart by the calls' ids; by names where there are no ids.          *)
Follows(k(_), c(_)) ==
  \A i \in DOMAIN view.messages :
    LET calls == CallsIn(view.messages[i]) IN
    \A j \in DOMAIN calls :
      /\ i + j \in DOMAIN view.messages
      /\ LET results == ResultsIn(view.messages[i + j]) IN
         /\ Len(results) = 1 /\ k(results[1]) = c(calls[j])
         /\ via # "gemini" => \A l \in DOMAIN calls : c(calls[l]) = c(calls[j]) => l = j
Id(p) == p.id
Name(p) == p.name
AnswersFollow == IF via = "gemini" THEN Follows(Name, Name) ELSE Follows(Id, Id)
AnswersReach ==
  Sent /\ (client = "gemini" <=> via = "gemini") => AnswersFollow

(* A chat client's pictures reach the providers that take links.           *)
PicturesArrive ==
  Map(LAMBDA p : p.v[1], All(LAMBDA m : Of({"image_url", "image"}, m.content.parts))) = shown
PicturesReach == Sent /\ client = "chat" /\ via # "gemini" => PicturesArrive

(* Whether and which tool must be called reaches the provider.             *)
ChoiceReaches == Sent => view.choice = choice

(* Claims that the code does not keep.                                     *)

(* claude-chat.ts: a Claude message becomes a chat message with its words. *)
ClaudeWordsReach == Sent /\ client = "claude" => All(SaidIn) = said
(* claude-chat.test.ts: results of tools are mapped both ways.             *)
ClaudeResultsReach == Sent /\ client = "claude" => ResultsArrive
(* defensive-matrix.test.ts: a tool's message becomes a functionResponse.  *)
GeminiResultsReach == Sent /\ via = "gemini" => ResultsArrive
(* gemini-chat.test.ts: a functionResponse has the name of its function.   *)
GeminiAnswersFollow == Sent /\ via = "gemini" => AnswersFollow
(* gemini-chat.test.ts: a functionResponse answers a call by its id.       *)
GeminiClientsAnswersFollow == Sent /\ client = "gemini" => AnswersFollow
(* claude-chat.ts: pictures of Claude's clients are kept as they are.      *)
ClaudePicturesReach == Sent /\ client = "claude" /\ via = "anthropic" => PicturesArrive
=============================================================================
