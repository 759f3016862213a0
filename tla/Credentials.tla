---------------------------- MODULE Credentials ----------------------------
(***************************************************************************)
(* The API keys and the app of one user: created, changed, rotated and     *)
(* ended by calls that look at the row, then write it in a transaction,    *)
(* while an administrator patches keys, subscriptions are renewed and the  *)
(* gateway looks credentials up for every request.                         *)
(***************************************************************************)
EXTENDS Integers

CONSTANTS
  Calls, Kinds,        (* calls of the console, and what they may be         *)
  AdminMay,            (* what an administrator patches                      *)
  Limits, Ends,        (* spending limits; ends of validity, points in time  *)
  Asks,                (* patches the owner sends                            *)
  TokenLife,           (* JWT_TOKEN_TTL_SECONDS                              *)
  MaxKeys, MaxSubs, MaxSecrets, MaxNow    (* bounds                          *)

NoSub == 0
NoKey == 0
Never == 0             (* expires_at is null                                 *)
Keep == -1             (* the field is not in the patch                      *)

ASSUME CredentialsAssumption ==
  /\ Kinds \subseteq {"create", "patch", "revoke", "rotate", "disable", "secret"}
  /\ AdminMay \subseteq {"limit", "disable", "enable"}
  /\ MaxKeys \in Nat /\ MaxSubs \in Nat \ {0} /\ MaxSecrets \in Nat \ {0} /\ MaxNow \in Nat
  /\ Limits \subseteq Nat /\ Ends \subseteq 1 .. MaxNow /\ TokenLife \in Nat
  /\ Asks \subseteq [limit : Limits \cup {Keep}, end : Ends \cup {Never, Keep}]

VARIABLES
  now, banned,
  sub,       (* the subscription of the user: its number, and whether lapsed *)
  key,       (* [ids -> row of api_keys; root: the first key it descends from;
                enabled: an administrator enabled it again]                  *)
  app,       (* the row of apps; secrets are numbered as they are made       *)
  tokens,    (* the ends of the tokens that were issued                      *)
  call,      (* [Calls -> step, kind, target, row as it was read]            *)
  told       (* what callers were told is over                               *)

vars == <<now, banned, sub, key, app, tokens, call, told>>

KeyIds == 1 .. MaxKeys
NoRow == [st |-> "none", limit |-> 0, end |-> Never, sub |-> NoSub, root |-> NoKey,
          enabled |-> FALSE]
NoAsk == [limit |-> Keep, end |-> Keep]
Idle == [pc |-> "idle", kind |-> "none", id |-> NoKey, row |-> NoRow, ask |-> NoAsk,
         secret |-> 1]

Init ==
  /\ now = 0 /\ banned = FALSE
  /\ sub = [id |-> 1, lapsed |-> FALSE]
  /\ key = [k \in KeyIds |-> NoRow]
  /\ app = [st |-> "active", secret |-> 1, made |-> 1]
  /\ tokens = {}
  /\ call = [c \in Calls |-> Idle]
  /\ told = [ended |-> {}, rotated |-> {}, secrets |-> {}, app |-> FALSE]

Usable(s) == s = sub.id /\ ~sub.lapsed
NextKey(n) == key[n].st = "none" /\ \A m \in KeyIds : m < n => key[m].st # "none"

-----------------------------------------------------------------------------
(* What a call reads before its transaction.  A key that is absent or      *)
(* revoked ends the call with 404 or 409.                                  *)

Open(c, kind, id, row, pc, ask) ==
  /\ call[c].pc = "idle" /\ kind \in Kinds
  /\ call' = [call EXCEPT ![c] = [pc |-> pc, kind |-> kind, id |-> id, row |-> row,
                                  ask |-> ask, secret |-> app.secret]]
  /\ UNCHANGED <<now, banned, sub, key, app, tokens, told>>

Create(c, limit, end, s) ==
  /\ s = NoSub \/ Usable(s)
  /\ end = Never \/ end > now
  /\ Open(c, "create", NoKey,
          [NoRow EXCEPT !.st = "active", !.limit = limit, !.end = end, !.sub = s],
          "ready", NoAsk)

(* The route turns an end of null into a field that is not there; a patch  *)
(* with no field left cannot be built into a statement.                    *)
Sent(ask) == IF ask.end = Never THEN [ask EXCEPT !.end = Keep] ELSE ask
Patch(c, k, ask) ==
  /\ key[k].st = "active" /\ (ask.end \in Ends => ask.end > now)
  /\ Sent(ask) # NoAsk
  /\ Open(c, "patch", k, key[k], "ready", ask)

Revoke(c, k) == key[k].st = "active" /\ Open(c, "revoke", k, key[k], "ready", NoAsk)
Rotate(c, k) == key[k].st = "active" /\ Open(c, "rotate", k, key[k], "looked", NoAsk)

(* The source of money is validated again; the key falls back to balance.  *)
Recheck(c) ==
  /\ call[c].pc = "looked"
  /\ LET s == IF Usable(call[c].row.sub) THEN call[c].row.sub ELSE NoSub
         row == [call[c].row EXCEPT !.sub = s]
     IN  call' = [call EXCEPT ![c] = [call[c] EXCEPT !.pc = "ready", !.row = row]]
  /\ UNCHANGED <<now, banned, sub, key, app, tokens, told>>

Disable(c) == app.st = "active" /\ Open(c, "disable", NoKey, NoRow, "ready", NoAsk)
NewSecret(c) == Open(c, "secret", NoKey, NoRow, "ready", NoAsk)

-----------------------------------------------------------------------------
(* The transaction of each, which compares and sets or is rolled back.     *)

At(c, kind) == call[c].pc = "ready" /\ call[c].kind = kind
End(c, how) == call' = [call EXCEPT ![c] = [@ EXCEPT !.pc = how]]
Lost(c) ==
  /\ call[c].pc = "ready" /\ call[c].kind \in {"patch", "revoke", "rotate", "disable"}
  /\ IF call[c].kind = "disable" THEN app.st # "active" ELSE key[call[c].id].st # "active"
  /\ End(c, "refused") /\ UNCHANGED <<now, banned, sub, key, app, tokens, told>>

InsertKey(c) ==
  /\ At(c, "create")
  /\ \E n \in KeyIds : NextKey(n) /\ key' = [key EXCEPT ![n] = [call[c].row EXCEPT !.root = n]]
  /\ End(c, "done") /\ UNCHANGED <<now, banned, sub, app, tokens, told>>

Patched(row, ask) ==
  [row EXCEPT !.limit = IF ask.limit = Keep THEN @ ELSE ask.limit,
              !.end = IF ask.end = Keep THEN @ ELSE ask.end]

AnyOf(c) == key[call[c].id].st # "none"             \* mutant: without the status
StillActive(c) == key[call[c].id].st = "active"

Overwrite(c) ==                 \* mutant: writes back the row that was read
  /\ At(c, "patch")
  /\ key' = [key EXCEPT ![call[c].id] = Patched(call[c].row, Sent(call[c].ask))]
  /\ End(c, "done") /\ UNCHANGED <<now, banned, sub, app, tokens, told>>
PatchKey(c) ==
  /\ At(c, "patch") /\ StillActive(c)
  /\ key' = [key EXCEPT ![call[c].id] = Patched(@, Sent(call[c].ask))]
  /\ End(c, "done") /\ UNCHANGED <<now, banned, sub, app, tokens, told>>

RevokeKey(c) ==
  LET k == call[c].id IN
  /\ At(c, "revoke") /\ StillActive(c)
  /\ key' = [key EXCEPT ![k].st = "revoked"]
  /\ told' = [told EXCEPT !.ended = @ \cup {k}]
  /\ End(c, "done") /\ UNCHANGED <<now, banned, sub, app, tokens>>

(* The new key takes the settings of the row that was read.                *)
RotateKey(c) ==
  LET k == call[c].id IN
  /\ At(c, "rotate") /\ StillActive(c)
  /\ \E n \in KeyIds :
       /\ NextKey(n)
       /\ key' = [key EXCEPT ![k].st = "revoked",
                             ![n] = [call[c].row EXCEPT !.enabled = FALSE]]
  /\ told' = [told EXCEPT !.rotated = @ \cup {k}]
  /\ End(c, "done") /\ UNCHANGED <<now, banned, sub, app, tokens>>

DisableApp(c) ==
  /\ At(c, "disable") /\ app.st = "active"
  /\ app' = [app EXCEPT !.st = "disabled"]
  /\ told' = [told EXCEPT !.app = TRUE]
  /\ End(c, "done") /\ UNCHANGED <<now, banned, sub, key, tokens>>

WithSecret(row, s) == [row EXCEPT !.secret = s, !.made = s]

(* The row is locked, then written whatever its secret is by now.          *)
RotateSecret(c) ==
  /\ At(c, "secret") /\ app.made < MaxSecrets
  /\ app' = WithSecret(app, app.made + 1)
  /\ told' = [told EXCEPT !.secrets = @ \cup {app.secret, call[c].secret}]
  /\ End(c, "done") /\ UNCHANGED <<now, banned, sub, key, tokens>>

-----------------------------------------------------------------------------
(* The administrator, the subscription, the gateway, the clock.            *)

(* One statement, whatever the status; revoked_at stays as it is.          *)
AdminPatch(k) ==
  /\ key[k].st # "none"
  /\ \/ /\ "limit" \in AdminMay
        /\ \E l \in Limits \ {key[k].limit} : key' = [key EXCEPT ![k].limit = l]
        /\ UNCHANGED told
     \/ /\ "disable" \in AdminMay /\ key[k].st = "active"
        /\ key' = [key EXCEPT ![k].st = "revoked"]
        /\ told' = [told EXCEPT !.ended = @ \cup {k}]
     \/ /\ "enable" \in AdminMay /\ key[k].st = "revoked"
        /\ key' = [key EXCEPT ![k].st = "active", ![k].enabled = TRUE]
        /\ told' = [told EXCEPT !.ended = @ \ {k}, !.rotated = @ \ {k}]
  /\ UNCHANGED <<now, banned, sub, app, tokens, call>>

SetStatus(b) == banned' = b /\ b # banned /\ UNCHANGED <<now, sub, key, app, tokens, call, told>>

Lapse ==
  /\ ~sub.lapsed /\ sub' = [sub EXCEPT !.lapsed = TRUE]
  /\ UNCHANGED <<now, banned, key, app, tokens, call, told>>

(* A renewal rebinds the credentials in its transaction.                   *)
Renew ==
  /\ sub.id < MaxSubs /\ sub' = [id |-> sub.id + 1, lapsed |-> FALSE]
  /\ key' = [k \in KeyIds |-> IF key[k].sub = sub.id
                              THEN [key[k] EXCEPT !.sub = sub.id + 1] ELSE key[k]]
  /\ UNCHANGED <<now, banned, app, tokens, call, told>>

(* findActiveKeyByKeyHash, findActiveAppById: one statement per request.   *)
KeyPasses(k) ==
  key[k].st = "active" /\ ~banned /\ (key[k].end = Never \/ key[k].end > now)
TokenPasses(end) == end > now /\ app.st = "active" /\ ~banned

CurrentSecret(s) == s = app.secret
ExchangePasses(s) == CurrentSecret(s) /\ app.st = "active"

(* A client that exchanges a secret for a token.                           *)
Exchange(s) ==
  /\ ExchangePasses(s) /\ now + TokenLife \notin tokens
  /\ tokens' = tokens \cup {now + TokenLife}
  /\ UNCHANGED <<now, banned, sub, key, app, call, told>>

Tick == now < MaxNow /\ now' = now + 1 /\ UNCHANGED <<banned, sub, key, app, tokens, call, told>>

Next ==
  \/ \E c \in Calls :
       \/ \E l \in Limits, e \in Ends \cup {Never}, s \in {NoSub, sub.id} : Create(c, l, e, s)
       \/ \E k \in KeyIds : Revoke(c, k) \/ Rotate(c, k) \/ \E a \in Asks : Patch(c, k, a)
       \/ Recheck(c) \/ Disable(c) \/ NewSecret(c) \/ Lost(c)
       \/ InsertKey(c) \/ PatchKey(c) \/ RevokeKey(c) \/ RotateKey(c)
       \/ DisableApp(c) \/ RotateSecret(c)
  \/ \E k \in KeyIds : AdminPatch(k)
  \/ \E b \in BOOLEAN : SetStatus(b)
  \/ Lapse \/ Renew \/ \E s \in 1 .. MaxSecrets : Exchange(s)
  \/ Tick

Spec == Init /\ [][Next]_vars

-----------------------------------------------------------------------------
(* Properties.                                                             *)

RowType ==
  [st : {"none", "active", "revoked"}, limit : Limits \cup {0}, end : Ends \cup {Never},
   sub : 0 .. MaxSubs, root : 0 .. MaxKeys, enabled : BOOLEAN]
CallType ==
  [pc : {"idle", "looked", "ready", "done", "refused"}, kind : Kinds \cup {"none"},
   id : 0 .. MaxKeys, row : RowType, ask : Asks \cup {NoAsk}, secret : 1 .. MaxSecrets]

TypeOK ==
  /\ now \in 0 .. MaxNow /\ banned \in BOOLEAN
  /\ sub \in [id : 1 .. MaxSubs, lapsed : BOOLEAN]
  /\ key \in [KeyIds -> RowType] /\ call \in [Calls -> CallType]
  /\ app \in [st : {"active", "disabled"}, secret : 1 .. MaxSecrets, made : 1 .. MaxSecrets]
  /\ told \in [ended : SUBSET KeyIds, rotated : SUBSET KeyIds, secrets : SUBSET (1 .. MaxSecrets),
               app : BOOLEAN]

Kin(k, l) == key[k].root = key[l].root
Revived(k) == \E m \in KeyIds : Kin(k, m) /\ key[m].enabled

(* Of a key and all the keys it was rotated into, one is in force, however *)
(* many rotations, patches and revocations run at once; only an            *)
(* administrator who enables an old one makes it two.                      *)
OneInForce ==
  \A k, l \in KeyIds :
    key[k].st = "active" /\ key[l].st = "active" /\ k # l => ~Kin(k, l) \/ Revived(k)

(* Who was told that a key is revoked is not left with a successor that a  *)
(* rotation made of it at the same moment.                                 *)
RevocationEndsLineage ==
  \A k \in told.ended, l \in KeyIds : Kin(k, l) /\ ~Revived(k) => key[l].st # "active"

(* What a caller was told is over no longer passes the gateway: a revoked  *)
(* or rotated key, the tokens of a disabled app, a secret that a rotation  *)
(* replaced.                                                               *)
ToldIsOver ==
  /\ \A k \in told.ended \cup told.rotated : ~KeyPasses(k)
  /\ told.app => \A t \in tokens : ~TokenPasses(t)
  /\ \A s \in told.secrets : ~ExchangePasses(s)

(* keys.service.ts:60: the new key inherits the settings of the old one,   *)
(* those it has when it is replaced.                                       *)
SettingsInherited ==
  [][\A c \in Calls, n \in KeyIds :
       At(c, "rotate") /\ call'[c].pc = "done" /\ key[n].st = "none" /\ key'[n].st = "active"
       => /\ key'[n].limit = key[call[c].id].limit
          /\ key'[n].end = key[call[c].id].end]_vars

(* keys.ts:50 takes null as an end of validity; api-contract.md:173 lets   *)
(* the owner change it: after the patch the key has what was asked for.    *)
PatchedAsAsked ==
  [][\A c \in Calls :
       At(c, "patch") /\ call'[c].pc = "done" /\ call[c].ask.end # Keep
       => key'[call[c].id].end = call[c].ask.end]_vars

(* credential.repo.ts:139: who has renewed finds the keys bound to what    *)
(* was paid for.                                                           *)
RotatedFollowsRenewal ==
  \A k \in KeyIds : key[k].st = "active" /\ key[k].root # k => key[k].sub \in {NoSub, sub.id}
=============================================================================
