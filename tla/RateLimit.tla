------------------------------ MODULE RateLimit ------------------------------
(***************************************************************************)
(* The limiter over Redis: the sliding window of requests per minute and   *)
(* the counters of tokens per minute, with the gateway that reserves and   *)
(* releases (gate.ts, runChat) and the worker that books what was used.    *)
(* Every script is atomic.  Tokens are reserved in the counters of the     *)
(* minute they are reserved in, used tokens are booked in the minute of    *)
(* the settlement; the hash of a request remembers what it reserved, and   *)
(* expires.  Counters of past minutes are read by nobody.                  *)
(* A release or a booking may fail; a booking may be repeated.             *)
(***************************************************************************)
EXTENDS Integers, FiniteSets, FiniteSetsExt

CONSTANTS
  Requests,
  KeyOf,         (* [Requests -> credential dimension]                      *)
  User,          (* their user                                              *)
  Model,         (* the model they ask for                                  *)
  Channels,      (* where it is served, each tried at most twice            *)
  Estimate,      (* [Requests -> estimatedTokens]                           *)
  Excess,        (* bound: by how much the use reported may be above it     *)
  TokenCap, CallCap,   (* [dimensions -> tpmLimit and rpmLimit, 0 for none] *)
  Minute,        (* WINDOW_MS and the length of a minute, in ticks          *)
  Keep,          (* minutes until a reservation expires (600 s)             *)
  MaxNow         (* bound: the clock                                        *)

Keys == {KeyOf[r] : r \in Requests}
Dims == Keys \cup {User, Model} \cup Channels

RateLimitAssumption ==
  /\ Estimate \in [Requests -> Nat] /\ Excess \in Nat /\ TokenCap \in [Dims -> Nat]
  /\ CallCap \in [Dims -> Nat]
  /\ Minute \in Nat \ {0} /\ Keep \in Nat \ {0} /\ MaxNow \in Nat

VARIABLES
  now,
  window,    (* [Dims -> [member -> when]]: the ZSETs                       *)
  reserved, actual,   (* [minutes \X Dims -> Nat]                           *)
  hash,      (* [Requests -> its reservations, minutes until they expire]   *)
  projected, (* requests with a mark that they were booked                  *)
  calls,     (* [Requests -> step, channel, how often channels were tried]  *)
  used       (* [Requests -> tokens used, settlement minute, reservations   *)
             (* it had then]                                                *)

vars == <<now, window, reserved, actual, hash, projected, calls, used>>

Minutes == 0 .. (MaxNow \div Minute)
NoUse == [tokens |-> 0, at |-> -1, held |-> {}]
Empty == [x \in {} |-> 0]

Init ==
  /\ now = 0 /\ window = [d \in Dims |-> Empty]
  /\ reserved = [k \in Minutes \X Dims |-> 0] /\ actual = reserved
  /\ hash = [r \in Requests |-> [held |-> {}, ttl |-> 0]]
  /\ projected = {}
  /\ calls = [r \in Requests |-> [pc |-> "new", tried |-> [c \in Channels |-> 0]]]
  /\ used = [r \in Requests |-> NoUse]

ThisMinute == now \div Minute
At(r, pc) == calls[r].pc = pc
Goto(r, pc) == calls' = [calls EXCEPT ![r].pc = pc]

-----------------------------------------------------------------------------
(* The scripts.                                                            *)

(* CHECK_ALL_SCRIPT: all windows have room, or nothing is counted.  A      *)
(* request that is there already only moves.                               *)
Within(d) == {m \in DOMAIN window[d] : window[d][m] > now - Minute}
Called(r, ds) ==
  [d \in Dims |-> IF d \in ds
     THEN [m \in Within(d) \cup {r} |-> IF m = r THEN now ELSE window[d][m]]
     ELSE window[d]]
Limited(cap, ds) == {d \in ds : cap[d] > 0}
MayCall(ds) == \A d \in Limited(CallCap, ds) : Cardinality(Within(d)) < CallCap[d]

(* RESERVE_TPM_SCRIPT: all counters have room; what the request has        *)
(* reserved already is tested but not added again.                         *)
Counters(ds) == {ThisMinute} \X Limited(TokenCap, ds)
OwnOnly(r, ds) ==   \* mutant: what others have reserved does not count
  \A k \in Counters(ds) : actual[k] + Estimate[r] <= TokenCap[k[2]]

MayReserve(r, ds) ==
  \A k \in Counters(ds) : actual[k] + reserved[k] + Estimate[r] <= TokenCap[k[2]]

Added(r, ds) == Counters(ds) \ hash[r].held

Reserve(r, ds) ==
  /\ reserved' = [k \in DOMAIN reserved |->
                    IF k \in Added(r, ds) THEN reserved[k] + Estimate[r] ELSE reserved[k]]
  /\ hash' = [hash EXCEPT ![r] = [held |-> @.held \cup Counters(ds),
                ttl |-> IF Counters(ds) = {} THEN @.ttl ELSE Keep]]

(* RELEASE_TPM_SCRIPT, and the first half of BACKFILL_TPM_SCRIPT.          *)
Release(r) ==
  /\ reserved' = [k \in DOMAIN reserved |->
       IF k \in hash[r].held THEN Max({0, reserved[k] - Estimate[r]}) ELSE reserved[k]]
  /\ hash' = [hash EXCEPT ![r] = [held |-> {}, ttl |-> 0]]

-----------------------------------------------------------------------------
(* The gateway.                                                            *)

(* admitKey: credential and user, windows first.  A refusal by the tokens  *)
(* leaves the call counted.                                                *)
Admit(r) ==
  /\ At(r, "new")
  /\ LET ds == {KeyOf[r], User} IN
     \/ /\ ~MayCall(ds) /\ Goto(r, "over")
        /\ UNCHANGED <<window, reserved, hash>>
     \/ /\ MayCall(ds) /\ window' = Called(r, Limited(CallCap, ds))
        /\ \/ MayReserve(r, ds) /\ Reserve(r, ds) /\ Goto(r, "admitted")
           \/ ~MayReserve(r, ds) /\ Goto(r, "over") /\ UNCHANGED <<reserved, hash>>
  /\ UNCHANGED <<now, actual, projected, used>>

(* reserveModelDims, with the limit of the user: a refusal releases        *)
(* nothing.                                                                *)
ReserveModel(r) ==
  /\ At(r, "admitted")
  /\ \/ MayReserve(r, {Model}) /\ Reserve(r, {Model}) /\ Goto(r, "routed")
     \/ ~MayReserve(r, {Model}) /\ Goto(r, "refused") /\ UNCHANGED <<reserved, hash>>
  /\ UNCHANGED <<now, window, actual, projected, used>>

(* tryChannel; a channel may be tried again for another model.             *)
TryChannel(r, c) ==
  /\ At(r, "routed") /\ calls[r].tried[c] < 2
  /\ LET tried == [calls[r].tried EXCEPT ![c] = @ + 1] IN
     \/ /\ ~MayCall({c}) /\ calls' = [calls EXCEPT ![r].tried = tried]
        /\ UNCHANGED <<window, reserved, hash>>
     \/ /\ MayCall({c}) /\ window' = Called(r, Limited(CallCap, {c}))
        /\ \/ /\ MayReserve(r, {c}) /\ Reserve(r, {c})
              /\ calls' = [calls EXCEPT ![r] = [pc |-> c, tried |-> tried]]
           \/ /\ ~MayReserve(r, {c}) /\ calls' = [calls EXCEPT ![r].tried = tried]
              /\ UNCHANGED <<reserved, hash>>
  /\ UNCHANGED <<now, actual, projected, used>>

(* The channel fails: what was reserved for it stays until the end.        *)
ChannelFails(r) ==
  /\ calls[r].pc \in Channels /\ used[r] = NoUse
  /\ Goto(r, "routed")
  /\ UNCHANGED <<now, window, reserved, actual, hash, projected, used>>

(* No channel is left, or the client is at fault: releaseTpm, which may    *)
(* fail without a word.                                                    *)
Fail(r) ==
  /\ calls[r].pc \in {"admitted", "routed"} \cup Channels /\ used[r] = NoUse
  /\ Goto(r, "over")
  /\ Release(r) \/ UNCHANGED <<reserved, hash>>
  /\ UNCHANGED <<now, window, actual, projected, used>>

-----------------------------------------------------------------------------
(* The worker settles, with the tokens the provider reports, and projects. *)

BookedOn(r) == {KeyOf[r], calls[r].pc}

Settle(r) ==
  /\ calls[r].pc \in Channels /\ used[r] = NoUse
  /\ \E n \in 0 .. Estimate[r] + Excess :
       used' = [used EXCEPT ![r] = [tokens |-> n, at |-> ThisMinute, held |-> hash[r].held]]
  /\ UNCHANGED <<now, window, reserved, actual, hash, projected, calls>>

NotBooked(r) == r \notin projected

(* backfillTpm, at once or never; it may be sent twice.                    *)
Backfill(r) ==
  /\ used[r].at = ThisMinute /\ NotBooked(r)
  /\ Release(r) /\ projected' = projected \cup {r}
  /\ actual' = [k \in DOMAIN actual |->
       IF k[1] = ThisMinute /\ k[2] \in BookedOn(r) THEN actual[k] + used[r].tokens
       ELSE actual[k]]
  /\ UNCHANGED <<now, window, calls, used>>

(* Reservations expire by the minute.  Nobody reads the counters of one    *)
(* that is over: the model clears them.                                    *)
Current(counters) ==
  [k \in DOMAIN counters |-> IF k[1] = (now + 1) \div Minute THEN counters[k] ELSE 0]

Tick ==
  /\ now < MaxNow /\ now' = now + 1
  /\ reserved' = Current(reserved) /\ actual' = Current(actual)
  /\ hash' = IF (now + 1) % Minute # 0 THEN hash
             ELSE [r \in Requests |-> IF hash[r].ttl > 1
                     THEN [hash[r] EXCEPT !.ttl = @ - 1] ELSE [held |-> {}, ttl |-> 0]]
  /\ UNCHANGED <<window, projected, calls, used>>

Next ==
  \/ Tick
  \/ \E r \in Requests :
       \/ Admit(r) \/ ReserveModel(r) \/ ChannelFails(r) \/ Fail(r)
       \/ Settle(r) \/ Backfill(r)
       \/ \E c \in Channels : TryChannel(r, c)

Spec == Init /\ [][Next]_vars

-----------------------------------------------------------------------------
(* Properties.                                                             *)

SumOver(S, f(_)) == MapThenSumSet(f, S)

(* Every variable keeps its type, and only counters of capped dimensions   *)
(* and of minutes that have begun are reserved in.                         *)
TypeOK ==
  /\ now \in 0 .. MaxNow
  /\ \A d \in Dims : DOMAIN window[d] \subseteq Requests
  /\ reserved \in [Minutes \X Dims -> Nat] /\ actual \in [Minutes \X Dims -> Nat]
  /\ \A r \in Requests :
       /\ hash[r].held \subseteq (0 .. ThisMinute) \X Limited(TokenCap, Dims)
       /\ hash[r].ttl \in 0 .. Keep /\ (hash[r].held # {} => hash[r].ttl > 0)
       /\ used[r].tokens \in 0 .. Estimate[r] + Excess
  /\ projected \subseteq Requests

(* The counters of this minute hold what the requests that are under way   *)
(* have reserved in it, no more and no less: whatever failed over, was     *)
(* tried twice, released late, expired or booked.                          *)
ReservedIsHeld ==
  \A d \in Dims :
    LET k == <<ThisMinute, d>>
    IN  reserved[k] = SumOver({r \in Requests : k \in hash[r].held},
                              LAMBDA r : Estimate[r])

(* What a request used is booked once, in the minute of its settlement, on *)
(* its credential and the channel that served it.                          *)
BookedOnce ==
  \A d \in Dims :
    actual[<<ThisMinute, d>>] =
      SumOver({r \in projected : used[r].at = ThisMinute /\ d \in BookedOn(r)},
              LAMBDA r : used[r].tokens)

(* Within a minute a capped dimension is not used beyond its cap, except   *)
(* by what a request used above its estimate, and by requests that came    *)
(* over from an earlier minute or whose reservation there is gone.         *)
CapHolds(d) ==
  LET k == <<ThisMinute, d>>
      here == {r \in Requests : used[r].at = ThisMinute /\ k \in used[r].held}
      open == {r \in Requests : k \in hash[r].held /\ r \notin here}
  IN  TokenCap[d] > 0 =>
        SumOver(here, LAMBDA r : IF d \in Channels /\ calls[r].pc # d THEN 0
                                 ELSE Min({used[r].tokens, Estimate[r]}))
          + SumOver(open, LAMBDA r : Estimate[r])
          <= TokenCap[d]

(* Of credentials and channels.                                            *)
CapsHold == \A d \in Keys \cup Channels : CapHolds(d)

(* run-chat.ts: the cap of the user holds of itself, and no key gets past  *)
(* it.                                                                     *)
UserCapHolds == CapHolds(User)

(* No more requests than the cap pass a dimension in any Minute ticks.     *)
CallsHold ==
  \A d \in Dims : CallCap[d] > 0 =>
    Cardinality({r \in DOMAIN window[d] : window[d][r] > now - Minute}) <= CallCap[d]
=============================================================================
