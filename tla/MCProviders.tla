----------------------------- MODULE MCProviders -----------------------------
(***************************************************************************)
(* The client of the providers (packages/ai), for TLC: requests and their  *)
(* channels, the relay of one stream, the conversion of its events, and    *)
(* the conversion of conversations.  They share no state, so a behaviour   *)
(* is about one of them: part says which and never changes, and the        *)
(* variables of the others are at rest.                                    *)
(***************************************************************************)
EXTENDS Integers, Sequences, FiniteSets, SequencesExt, TLC

CONSTANTS Parts, r1, r2, none

VARIABLES part,
  status, key, valid, cred, alerts, edits, req,                      (* Upstream *)
  pc, tries, empties, expired, sig, bodies, scan, wire, beats, left,
  report, faults, decisive,                                          (* Relay *)
  provider, client, base, stage, sent, conv, peek, verdict, enc, got,   (* Codec *)
  history, choice, said, made, given, shown, via, view, sends        (* Conversation *)

vars ==
  <<part, status, key, valid, cred, alerts, edits, req, pc, tries, empties, expired, sig,
    bodies, scan, wire, beats, left, report, faults, decisive, provider, client, base, stage,
    sent, conv, peek, verdict, enc, got, history, choice, said, made, given, shown, via, view,
    sends>>

Symmetry == Permutations({r1, r2})
-----------------------------------------------------------------------------
(* Upstream.  One request over two models, three channels and two hosts    *)
(* meets every kind of answer; two requests meet a refused key on two      *)
(* channels of one host.                                                   *)
Reply(s, form, body, text, code) ==
  [status |-> s, form |-> form, body |-> body, text |-> text, code |-> code]
Error(s, text, code) == Reply(s, "json", "error", text, code)
Answer == Reply(200, "json", "answer", "", "")
AllReplies ==
  {Answer, Reply(200, "json", "blank", "", ""), Reply(200, "json", "junk", "", ""),
   Reply(200, "bytes", "bytes", "", ""),
   Error(200, "", ""), Error(200, "rate", ""), Error(200, "quota", ""), Error(200, "overflow", ""),
   Error(400, "", ""), Error(400, "overflow", ""), Error(403, "", ""), Error(404, "", "not_found_error"),
   Error(408, "", ""), Error(413, "", ""), Error(422, "overflow", ""), Error(429, "", "rate_limit_error"),
   Error(429, "quota", ""), Error(500, "", ""), Error(529, "", "overloaded_error")}
Three == {"c1", "c2", "c3"}
Pair == {"c1", "c2"}

Serving ==
  INSTANCE Upstream WITH Channels <- Three,
    Host <- [c \in Three |-> IF c = "c3" THEN "b" ELSE "a"],
    Protocol <- [c \in Three |-> IF c = "c3" THEN "anthropic" ELSE "openai"],
    Priority <- [c \in Three |-> IF c = "c1" THEN 1 ELSE 0],
    Models <- <<Pair, {"c3"}>>, Requests <- {"r"}, Replies <- AllReplies,
    Timers <- {"connect", "total", "deadline"}, MaxAttempts <- 2, EmptyRetries <- 1,
    Threshold <- 2, MaxKeys <- 1, MaxEdits <- 1
Refusing ==
  INSTANCE Upstream WITH Channels <- Pair, Host <- [c \in Pair |-> "a"],
    Protocol <- [c \in Pair |-> "openai"], Priority <- [c \in Pair |-> 0], Models <- <<Pair>>,
    Requests <- {r1, r2}, Replies <- {Answer, Error(403, "", "")}, Timers <- {},
    MaxAttempts <- 1, EmptyRetries <- 0, Threshold <- 2, MaxKeys <- 2, MaxEdits <- 1

Relaying ==
  INSTANCE Relay WITH MaxAttempts <- 3, EmptyRetries <- 1, Signals <- {"cancel", "drain"},
    MaxChunks <- 3, MaxBeats <- 1

(* Codec.  Streams of every provider to clients of other protocols; then   *)
(* reports of usage, one of which has more cached than other input.        *)
AllProviders == {"claude", "gemini", "openai"}
OneReport == {[in |-> 2, read |-> 1, write |-> 0, more |-> 1, out |-> 1]}
TwoReports == OneReport \cup {[in |-> 1, read |-> 2, write |-> 1, more |-> 0, out |-> 3]}
Coding ==
  INSTANCE Codec WITH Providers <- AllProviders, Clients <- {"claude", "gemini", "responses"}, Texts <- {"a", "b"},
    Reports <- OneReport, MaxEvents <- 5, MaxTools <- 1
Counting ==
  INSTANCE Codec WITH Providers <- AllProviders, Clients <- {"claude", "gemini", "chat", "completions"},
    Texts <- {"a"}, Reports <- TwoReports, MaxEvents <- 5, MaxTools <- 2

(* Conversation.  Every protocol of a client to every protocol of a        *)
(* provider, the provider changing between turns; Claude clients that      *)
(* write strings are in an instance of their own.                          *)
Kinds == {"openai", "anthropic", "gemini"}
TwoCalls == {<<>>, <<"f">>, <<"f", "g">>}
Chatting ==
  INSTANCE Conversation WITH Clients <- {"chat"}, Providers <- Kinds,
    Forms <- {"string", "parts", "image"}, Plain <- TRUE, Beside <- {"chat"},
    ToolChoices <- {"auto", "named"}, Answers <- {<<>>, <<"f", "g">>}, MaxSends <- 3
Native ==
  INSTANCE Conversation WITH Clients <- {"claude", "gemini"}, Providers <- Kinds,
    Forms <- {"parts", "image"}, Plain <- TRUE, Beside <- {"claude"},
    ToolChoices <- {"auto", "named"}, Answers <- TwoCalls, MaxSends <- 3
Strings ==
  INSTANCE Conversation WITH Clients <- {"claude"}, Providers <- Kinds,
    Forms <- {"string", "parts"}, Plain <- TRUE, Beside <- {"claude"}, ToolChoices <- {"auto"},
    Answers <- {<<>>, <<"f", "g">>}, MaxSends <- 3
Responses ==
  INSTANCE Conversation WITH Clients <- {"responses"}, Providers <- Kinds,
    Forms <- {"string", "parts"}, Plain <- FALSE, Beside <- {}, ToolChoices <- {"auto"},
    Answers <- {<<>>}, MaxSends <- 4

ASSUME /\ Serving!UpstreamAssumption /\ Refusing!UpstreamAssumption
       /\ Relaying!RelayAssumption
       /\ Coding!CodecAssumption /\ Counting!CodecAssumption
       /\ Chatting!ConversationAssumption /\ Native!ConversationAssumption
       /\ Strings!ConversationAssumption /\ Responses!ConversationAssumption
-----------------------------------------------------------------------------
Upstreams == {"serving", "refusing"}
Codecs == {"coding", "counting"}
Conversations == {"chatting", "native", "strings", "responses"}

AtRest ==
  /\ part \notin Upstreams =>
       /\ status = none /\ key = none /\ valid = none /\ cred = none /\ alerts = none
       /\ edits = none /\ req = none
  /\ part # "relaying" =>
       /\ tries = none /\ empties = none /\ expired = none /\ sig = none /\ bodies = none
       /\ wire = none /\ beats = none /\ left = none /\ report = none /\ faults = none
       /\ decisive = none
  /\ part \notin Codecs \cup {"relaying"} => scan = none
  /\ part \notin Codecs =>
       /\ provider = none /\ base = none /\ stage = none /\ sent = none /\ conv = none
       /\ peek = none /\ verdict = none /\ enc = none /\ got = none
  /\ part \notin Codecs \cup Conversations => client = none
  /\ part \notin Conversations \cup {"relaying"} => pc = none
  /\ part \notin Conversations =>
       /\ history = none /\ choice = none /\ said = none /\ made = none /\ given = none
       /\ shown = none /\ via = none /\ view = none /\ sends = none

Kept ==
  /\ part \notin Upstreams => UNCHANGED <<status, key, valid, cred, alerts, edits, req>>
  /\ part # "relaying" =>
       UNCHANGED <<tries, empties, expired, sig, bodies, wire, beats, left, report, faults, decisive>>
  /\ part \notin Codecs \cup {"relaying"} => UNCHANGED scan
  /\ part \notin Codecs =>
       UNCHANGED <<provider, base, stage, sent, conv, peek, verdict, enc, got>>
  /\ part \notin Codecs \cup Conversations => UNCHANGED client
  /\ part \notin Conversations \cup {"relaying"} => UNCHANGED pc
  /\ part \notin Conversations =>
       UNCHANGED <<history, choice, said, made, given, shown, via, view, sends>>

Init ==
  /\ part \in Parts
  /\ \/ part = "serving" /\ Serving!Init
     \/ part = "refusing" /\ Refusing!Init
     \/ part = "relaying" /\ Relaying!Init
     \/ part = "coding" /\ Coding!Init
     \/ part = "counting" /\ Counting!Init
     \/ part = "chatting" /\ Chatting!Init
     \/ part = "native" /\ Native!Init
     \/ part = "strings" /\ Strings!Init
     \/ part = "responses" /\ Responses!Init
  /\ AtRest

(* A stream that has ended does nothing any more; all else goes on.        *)
Ended == part \in Codecs \cup {"relaying"} /\ UNCHANGED vars

Next ==
  \/ /\ \/ part = "serving" /\ Serving!Next
        \/ part = "refusing" /\ Refusing!Next
        \/ part = "relaying" /\ Relaying!Next
        \/ part = "coding" /\ Coding!Next
        \/ part = "counting" /\ Counting!Next
        \/ part = "chatting" /\ Chatting!Next
        \/ part = "native" /\ Native!Next
        \/ part = "strings" /\ Strings!Next
        \/ part = "responses" /\ Responses!Next
     /\ UNCHANGED part /\ Kept
  \/ Ended

Spec == Init /\ [][Next]_vars
-----------------------------------------------------------------------------
(* No request is sent again after its deadline, what is given out as a     *)
(* success is an answer, no connection stays open, what is reported as     *)
(* complete was whole for its client, and only its own faults are held     *)
(* against a channel.                                                      *)
CallsAreSound ==
  /\ part = "serving" =>
       Serving!TypeOK /\ Serving!NothingAfterDeadline /\ Serving!SuccessIsAnAnswer
  /\ part = "relaying" =>
       /\ Relaying!TypeOK /\ Relaying!NoBodyLeaks /\ Relaying!CompleteIsWhole
       /\ Relaying!BeatsBetweenEvents /\ Relaying!FaultsAreTheChannels
       /\ Relaying!LabelsAreTrue

(* Whatever the two protocols are, a client has every piece of the text,   *)
(* is told of errors and of the end, and the tokens billed are those the   *)
(* provider reported last.  Between Claude's protocol and OpenAI's chat,   *)
(* either way or unchanged, so does every piece of a tool's arguments.     *)
StreamsAreConverted ==
  /\ part = "coding" =>
       /\ Coding!TextArrives /\ Coding!ToolsArrive /\ Coding!BlocksAreOpened
       /\ Coding!ErrorIsTold /\ Coding!NobodyIsLeftWaiting
  /\ part = "counting" =>
       /\ Counting!TypeOK /\ Counting!UsageIsBilled /\ Counting!FinishMeansTheSame
       /\ Counting!TextArrives /\ Counting!ToolsArrive


(* A fault of the request ends it and is told; a channel is taken out only *)
(* for a refused key of its host, and told of once; an aborted call asks   *)
(* the provider no more.                                                   *)
FaultsFindTheirOwner ==
  [][/\ part = "serving" => Serving!FaultEnds /\ Serving!FaultIsTold /\ Serving!RefusedKeyDies
     /\ part = "refusing" => Refusing!RefusedKeyDies /\ Refusing!DeathIsTold
     /\ part = "relaying" => Relaying!AbortedIsQuiet]_vars
=============================================================================
