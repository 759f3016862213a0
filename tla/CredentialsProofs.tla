------------------------- MODULE CredentialsProofs -------------------------
(***************************************************************************)
(* One key of a lineage is in force, and what was reported as over is over,*)
(* for every number of keys, calls and secrets.  A call may rely on little *)
(* between its read and its transaction: that the key it read exists and   *)
(* keeps its root.  What is left is the comparison in each transaction.    *)
(***************************************************************************)
EXTENDS Credentials, TLAPS

Exists(k) == k \in KeyIds /\ key[k].st # "none"

Rooted ==
  \A k \in KeyIds :
    IF key[k].st = "none" THEN key[k] = NoRow ELSE Exists(key[k].root)

OnKey == {"patch", "revoke", "rotate"}
CallsOK ==
  \A c \in Calls : call[c].pc \in {"looked", "ready"} =>
    /\ call[c].kind \in OnKey =>
         /\ Exists(call[c].id) /\ call[c].row.root = key[call[c].id].root
         /\ call[c].row.st = "active"
    /\ call[c].kind = "create" => call[c].row.st = "active" /\ ~call[c].row.enabled

KeysOver == \A k \in told.ended \cup told.rotated : key[k].st = "revoked"
AppOver == told.app => app.st = "disabled"
SecretsOver ==
  /\ app.secret = app.made
  /\ \A c \in Calls : call[c].secret <= app.made
  /\ \A s \in told.secrets : s < app.made

CInv ==
  TypeOK /\ Rooted /\ CallsOK /\ KeysOver /\ AppOver /\ SecretsOver
         /\ OneInForce /\ RevocationEndsLineage

-----------------------------------------------------------------------------
(* What is over does not pass the gateway.                                 *)
THEOREM OverDoesNotPass == ASSUME CInv PROVE ToldIsOver
<1>1. \A k \in told.ended \cup told.rotated : ~KeyPasses(k)
  BY DEF CInv, KeysOver, KeyPasses
<1>2. told.app => \A t \in tokens : ~TokenPasses(t)
  BY DEF CInv, AppOver, TokenPasses
<1>3. \A s \in told.secrets : ~ExchangePasses(s)
  BY DEF CInv, SecretsOver, TypeOK, ExchangePasses, CurrentSecret
<1> QED BY <1>1, <1>2, <1>3 DEF ToldIsOver

(* Initially no key exists and nothing is over.                            *)
THEOREM InitCInv == ASSUME CredentialsAssumption, Init PROVE CInv
<1> USE DEF Init
<1>1. NoRow \in RowType BY DEF CredentialsAssumption, NoRow, RowType, NoSub, NoKey, Never
<1>2. Idle \in CallType
  BY <1>1 DEF CredentialsAssumption, Idle, CallType, NoKey
<1>3. TypeOK
  <2>1. key \in [KeyIds -> RowType] BY <1>1
  <2>4. call \in [Calls -> CallType] BY <1>2
  <2>2. now \in 0 .. MaxNow BY DEF CredentialsAssumption
  <2>6. banned \in BOOLEAN BY Zenon
  <2>5. sub \in [id : 1 .. MaxSubs, lapsed : BOOLEAN] BY DEF CredentialsAssumption
  <2>3. app \in [st : {"active", "disabled"}, secret : 1 .. MaxSecrets, made : 1 .. MaxSecrets]
    BY DEF CredentialsAssumption
  <2> QED BY <2>1, <2>2, <2>3, <2>4, <2>5, <2>6 DEF TypeOK
<1>4. Rooted /\ CallsOK BY DEF Rooted, CallsOK, NoRow, Idle
<1>5. KeysOver /\ AppOver /\ SecretsOver BY DEF KeysOver, AppOver, SecretsOver, Idle
<1>6. OneInForce /\ RevocationEndsLineage BY DEF OneInForce, RevocationEndsLineage, NoRow
<1> QED BY <1>3, <1>4, <1>5, <1>6 DEF CInv

-----------------------------------------------------------------------------
(* What an action leaves of the keys.                                      *)

Same(k) ==
  key'[k].st = key[k].st /\ key'[k].root = key[k].root /\ key'[k].enabled = key[k].enabled

(* An action that touches neither status nor root keeps what lineages say. *)
LEMMA SameKeepsLineages ==
  ASSUME OneInForce, RevocationEndsLineage, told'.ended = told.ended, told.ended \subseteq KeyIds,
         \A k \in KeyIds : Same(k)
  PROVE  OneInForce' /\ RevocationEndsLineage'
<1>1. \A k, l \in KeyIds : Kin(k, l)' <=> Kin(k, l) BY DEF Kin, Same
<1>2. \A k \in KeyIds : Revived(k)' <=> Revived(k) BY <1>1 DEF Revived, Same
<1> QED BY <1>1, <1>2 DEF OneInForce, RevocationEndsLineage, Same

(* A key that ends is the one of its lineage, or an administrator has      *)
(* enabled another.                                                        *)
LEMMA EndKeepsLineages ==
  ASSUME OneInForce, RevocationEndsLineage, told.ended \subseteq KeyIds,
         NEW k \in KeyIds, key[k].st = "active", key'[k].st = "revoked",
         key'[k].root = key[k].root, key'[k].enabled = key[k].enabled,
         \A l \in KeyIds \ {k} : Same(l), told'.ended = told.ended \cup {k}
  PROVE  OneInForce' /\ RevocationEndsLineage'
<1>1. \A j, l \in KeyIds : Kin(j, l)' <=> Kin(j, l) BY DEF Kin, Same
<1>2. \A l \in KeyIds : Revived(l)' <=> Revived(l) BY <1>1 DEF Revived, Same
<1>3. \A l \in KeyIds : key'[l].st = "active" => key[l].st = "active" /\ l # k BY DEF Same
<1>4. OneInForce' BY <1>1, <1>2, <1>3 DEF OneInForce
<1>5. \A l \in KeyIds : Kin(k, l)' /\ ~Revived(k)' => key'[l].st # "active"
  BY <1>1, <1>2, <1>3 DEF OneInForce
<1>6. \A j \in told.ended, l \in KeyIds : Kin(j, l)' /\ ~Revived(j)' => key'[l].st # "active"
  BY <1>1, <1>2, <1>3 DEF RevocationEndsLineage
<1> QED BY <1>4, <1>5, <1>6 DEF RevocationEndsLineage

(* A key that is enabled again excuses its lineage.                        *)
LEMMA EnableKeepsLineages ==
  ASSUME OneInForce, RevocationEndsLineage, told.ended \subseteq KeyIds,
         NEW k \in KeyIds, key'[k].enabled, key'[k].root = key[k].root,
         \A l \in KeyIds \ {k} : Same(l), told'.ended \subseteq told.ended
  PROVE  OneInForce' /\ RevocationEndsLineage'
<1>1. \A j, l \in KeyIds : Kin(j, l)' <=> Kin(j, l) BY DEF Kin, Same
<1>2. \A l \in KeyIds : Revived(l) => Revived(l)' BY <1>1 DEF Revived, Same
<1>3. \A l \in KeyIds : Kin(l, k) => Revived(l)' BY <1>1 DEF Revived
<1>4. \A j, l \in KeyIds : Kin(j, l) <=> Kin(l, j) BY DEF Kin
<1>5. OneInForce'
  <2> SUFFICES ASSUME NEW j \in KeyIds, NEW l \in KeyIds, key'[j].st = "active",
                      key'[l].st = "active", j # l, Kin(j, l), ~Revived(j)'
               PROVE  FALSE
    BY <1>1 DEF OneInForce
  <2>1. j # k /\ l # k BY <1>3, <1>4 DEF Kin
  <2> QED BY <2>1, <1>2 DEF OneInForce, Same
<1>6. RevocationEndsLineage'
  <2> SUFFICES ASSUME NEW j \in told.ended, NEW l \in KeyIds, Kin(j, l), ~Revived(j)',
                      key'[l].st = "active"
               PROVE  FALSE
    BY <1>1 DEF RevocationEndsLineage
  <2>1. l # k BY <1>3
  <2> QED BY <2>1, <1>2 DEF RevocationEndsLineage, Same
<1> QED BY <1>5, <1>6

(* A key that is made begins a lineage that nothing belonged to.           *)
LEMMA NewKeepsLineages ==
  ASSUME OneInForce, RevocationEndsLineage, Rooted, told.ended \subseteq KeyIds,
         \A j \in told.ended : key[j].st # "none",
         NEW n \in KeyIds, key[n].st = "none", key'[n].root = n,
         \A l \in KeyIds \ {n} : Same(l), told'.ended = told.ended
  PROVE  OneInForce' /\ RevocationEndsLineage'
<1>1. \A l \in KeyIds \ {n} : key[l].st # "none" => key[l].root \in KeyIds \ {n}
  BY DEF Rooted, Exists
<1>2. \A l \in KeyIds \ {n} : key[l].st # "none" => ~Kin(n, l)' /\ ~Kin(l, n)'
  BY <1>1 DEF Kin, Same
<1>3. \A j, l \in KeyIds \ {n} : Kin(j, l)' <=> Kin(j, l) BY DEF Kin, Same
<1>4. \A l \in KeyIds \ {n} : key[l].st # "none" /\ Revived(l) => Revived(l)'
  <2> SUFFICES ASSUME NEW l \in KeyIds \ {n}, key[l].st # "none", Revived(l) PROVE Revived(l)'
    OBVIOUS
  <2>1. PICK m \in KeyIds : Kin(l, m) /\ key[m].enabled BY DEF Revived
  <2>2. m # n BY <2>1 DEF Rooted, NoRow
  <2> QED BY <2>1, <2>2, <1>3 DEF Revived, Same
<1>5. \A j, l \in KeyIds : key'[j].st = "active" /\ key'[l].st = "active" /\ j # l
        => ~Kin(j, l)' \/ Revived(j)'
  BY <1>2, <1>3, <1>4 DEF OneInForce, Same
<1>6. \A j \in told.ended, l \in KeyIds : Kin(j, l)' /\ ~Revived(j)' => key'[l].st # "active"
  BY <1>2, <1>3, <1>4 DEF RevocationEndsLineage, Same
<1> QED BY <1>5, <1>6 DEF OneInForce, RevocationEndsLineage

(* A rotation hands the one key in force over.                             *)
LEMMA RotateKeepsLineages ==
  ASSUME OneInForce, RevocationEndsLineage, Rooted, told.ended \subseteq KeyIds,
         \A j \in told.ended : key[j].st # "none",
         NEW k \in KeyIds, NEW n \in KeyIds, key[k].st = "active", key[n].st = "none",
         key'[k].st = "revoked", key'[k].root = key[k].root, key'[k].enabled = key[k].enabled,
         key'[n].root = key[k].root,
         \A l \in KeyIds \ {k, n} : Same(l), told'.ended = told.ended
  PROVE  OneInForce' /\ RevocationEndsLineage'
<1>1. \A j, l \in KeyIds \ {n} : Kin(j, l)' <=> Kin(j, l) BY DEF Kin, Same
<1>2. \A l \in KeyIds \ {n} : (Kin(n, l)' <=> Kin(k, l)) /\ (Kin(l, n)' <=> Kin(l, k))
  BY DEF Kin, Same
<1>3. ~key[n].enabled BY DEF Rooted, NoRow
<1>4. \A l \in KeyIds \ {n} : Revived(l) => Revived(l)'
  <2> SUFFICES ASSUME NEW l \in KeyIds \ {n}, Revived(l) PROVE Revived(l)' OBVIOUS
  <2>1. PICK m \in KeyIds : Kin(l, m) /\ key[m].enabled BY DEF Revived
  <2>2. m # n BY <2>1, <1>3
  <2> QED BY <2>1, <2>2, <1>1 DEF Revived, Same
<1>5. Revived(k)' => Revived(n)' BY DEF Revived, Kin
<1>6. k # n OBVIOUS
<1>7. \A l \in KeyIds \ {n} : key'[l].st = "active" => key[l].st = "active" /\ l # k
  BY <1>6 DEF Same
<1>8. \A l \in KeyIds \ {n} : key'[l].st = "active" /\ Kin(l, k) => Revived(l)'
  BY <1>4, <1>6, <1>7 DEF OneInForce
<1>9. \A l \in KeyIds \ {n} : Kin(l, k) /\ Revived(l)' => Revived(n)'
  BY <1>5, <1>6, <1>1 DEF Revived, Kin
<1>10. OneInForce'
  <2> SUFFICES ASSUME NEW j \in KeyIds, NEW l \in KeyIds, key'[j].st = "active",
                      key'[l].st = "active", j # l, Kin(j, l)'
               PROVE  Revived(j)'
    BY DEF OneInForce
  <2>1. CASE j = n
    BY <2>1, <1>2, <1>6, <1>8, <1>9 DEF Kin
  <2>2. CASE l = n
    BY <2>2, <1>2, <1>8
  <2>3. CASE j # n /\ l # n
    BY <2>3, <1>1, <1>4, <1>7 DEF OneInForce
  <2> QED BY <2>1, <2>2, <2>3
<1>11. RevocationEndsLineage'
  <2> SUFFICES ASSUME NEW j \in told.ended, NEW l \in KeyIds, Kin(j, l)', key'[l].st = "active"
               PROVE  Revived(j)'
    BY DEF RevocationEndsLineage
  <2>1. j \in KeyIds \ {n} OBVIOUS
  <2>2. CASE l = n
    <3>1. Kin(j, k) BY <2>1, <2>2, <1>2
    <3> QED BY <2>1, <3>1, <1>4 DEF RevocationEndsLineage
  <2>3. CASE l # n
    BY <2>1, <2>3, <1>1, <1>4, <1>7 DEF RevocationEndsLineage
  <2> QED BY <2>2, <2>3
<1> QED BY <1>10, <1>11

-----------------------------------------------------------------------------
(* What calls rely on, and what the roots say, is kept by whoever leaves   *)
(* the keys that exist where they are.                                     *)

RootsStay ==
  \A k \in KeyIds : key[k].st # "none" => key'[k].st # "none" /\ key'[k].root = key[k].root

CallKept(c) ==
  \/ call'[c].pc \in {"done", "refused"}
  \/ /\ call'[c].pc \in {"looked", "ready"} => call[c].pc \in {"looked", "ready"}
     /\ call'[c].kind = call[c].kind /\ call'[c].id = call[c].id
     /\ call'[c].row.root = call[c].row.root /\ call'[c].row.st = call[c].row.st
     /\ call'[c].row.enabled = call[c].row.enabled

(* A call that goes on relies on what it relied on before.                 *)
LEMMA CallsKeep ==
  ASSUME CallsOK, RootsStay, \A c \in Calls : CallKept(c)
  PROVE  CallsOK'
<1> SUFFICES ASSUME NEW c \in Calls, call'[c].pc \in {"looked", "ready"}
             PROVE  /\ call'[c].kind \in OnKey =>
                         /\ call'[c].id \in KeyIds /\ key'[call'[c].id].st # "none"
                         /\ call'[c].row.root = key'[call'[c].id].root
                         /\ call'[c].row.st = "active"
                    /\ call'[c].kind = "create" => call'[c].row.st = "active" /\ ~call'[c].row.enabled
  BY DEF CallsOK, OnKey, Exists
<1>1. /\ call[c].pc \in {"looked", "ready"}
      /\ call'[c].kind = call[c].kind /\ call'[c].id = call[c].id
      /\ call'[c].row.root = call[c].row.root /\ call'[c].row.st = call[c].row.st
      /\ call'[c].row.enabled = call[c].row.enabled
  BY DEF CallKept
<1>2. CASE call[c].kind \in OnKey
  BY <1>1, <1>2 DEF CallsOK, RootsStay, Exists, OnKey
<1>3. CASE call[c].kind = "create"
  BY <1>1, <1>3 DEF CallsOK, OnKey
<1> QED BY <1>1, <1>2, <1>3

(* A key that appears has a root that exists.                              *)
LEMMA RootedKeep ==
  ASSUME Rooted, RootsStay,
         \A k \in KeyIds : key[k].st = "none" =>
           \/ key'[k] = key[k]
           \/ key'[k].st # "none" /\ (key'[k].root = k \/ Exists(key'[k].root))
  PROVE  Rooted'
<1> SUFFICES ASSUME NEW k \in KeyIds
             PROVE  IF key'[k].st = "none" THEN key'[k] = NoRow
                    ELSE key'[k].root \in KeyIds /\ key'[key'[k].root].st # "none"
  BY DEF Rooted, Exists
<1>1. \A r : Exists(r) => r \in KeyIds /\ key'[r].st # "none" BY DEF Exists, RootsStay
<1>2. CASE key[k].st = "none" /\ key'[k] = key[k]
  BY <1>2 DEF Rooted
<1>3. CASE key[k].st = "none" /\ key'[k] # key[k]
  BY <1>1, <1>3 DEF Exists
<1>4. CASE key[k].st # "none"
  BY <1>1, <1>4 DEF Rooted, RootsStay
<1> QED BY <1>2, <1>3, <1>4

(* The rest of the state than keys, calls and the app says nothing.        *)
LEMMA QuietKeeps ==
  ASSUME CInv, TypeOK', UNCHANGED <<app, told>>, \A k \in KeyIds : Same(k),
         \A k \in KeyIds : key[k].st = "none" => key'[k] = key[k],
         \A c \in Calls : CallKept(c) /\ call'[c].secret = call[c].secret
  PROVE  CInv'
<1> USE DEF CInv
<1>1. told.ended \subseteq KeyIds /\ told.rotated \subseteq KeyIds BY DEF TypeOK
<1>2. OneInForce' /\ RevocationEndsLineage' BY <1>1, SameKeepsLineages
<1>3. RootsStay BY DEF RootsStay, Same
<1>4. CallsOK' BY <1>3, CallsKeep
<1>5. Rooted' BY <1>3, RootedKeep
<1>6. KeysOver' /\ AppOver' BY <1>1 DEF KeysOver, AppOver, Same
<1>7. SecretsOver' BY DEF SecretsOver
<1> QED BY <1>2, <1>4, <1>5, <1>6, <1>7

-----------------------------------------------------------------------------
(* A call that begins: it relies on the row it has just read.              *)
LEMMA OpenStep ==
  ASSUME CredentialsAssumption, CInv, NEW c \in Calls, NEW kind, NEW id \in 0 .. MaxKeys,
         NEW row \in RowType, NEW pc \in {"looked", "ready"}, NEW ask \in Asks \cup {NoAsk},
         Open(c, kind, id, row, pc, ask),
         kind \in OnKey => Exists(id) /\ row.root = key[id].root /\ row.st = "active",
         kind = "create" => row.st = "active" /\ ~row.enabled
  PROVE  CInv'
<1> USE DEF CInv, Open
<1>1. app.secret \in 1 .. MaxSecrets BY DEF TypeOK, CredentialsAssumption
<1>2. [pc |-> pc, kind |-> kind, id |-> id, row |-> row, ask |-> ask, secret |-> app.secret]
        \in CallType
  BY <1>1 DEF CallType
<1>3. TypeOK'
  <2>1. call' \in [Calls -> CallType] BY <1>2 DEF TypeOK
  <2> QED BY <2>1 DEF TypeOK
<1>4. CallsOK'
  <2> SUFFICES ASSUME NEW d \in Calls, call'[d].pc \in {"looked", "ready"}
               PROVE  /\ call'[d].kind \in OnKey =>
                           /\ Exists(call'[d].id) /\ call'[d].row.root = key[call'[d].id].root
                           /\ call'[d].row.st = "active"
                      /\ call'[d].kind = "create" => call'[d].row.st = "active" /\ ~call'[d].row.enabled
    BY DEF CallsOK, OnKey, Exists
  <2>1. CASE d = c BY <2>1 DEF TypeOK
  <2>2. CASE d # c
    <3>1. call'[d] = call[d] BY <2>2 DEF TypeOK
    <3> QED BY <3>1 DEF CallsOK
  <2> QED BY <2>1, <2>2
<1>5. \A d \in Calls : call'[d].secret \in {call[d].secret, app.secret} BY DEF TypeOK
<1>6. SecretsOver' BY <1>5 DEF SecretsOver, TypeOK
<1>7. Rooted' /\ KeysOver' /\ AppOver' BY DEF Rooted, Exists, KeysOver, AppOver
<1>8. OneInForce' /\ RevocationEndsLineage'
  BY DEF OneInForce, RevocationEndsLineage, Kin, Revived
<1> QED BY <1>3, <1>4, <1>6, <1>7, <1>8

-----------------------------------------------------------------------------
(* A call that ends changes its step only.                                 *)
LEMMA EndType ==
  ASSUME TypeOK, NEW c \in Calls, NEW how \in {"done", "refused"}, End(c, how)
  PROVE  /\ call' \in [Calls -> CallType]
         /\ \A d \in Calls : CallKept(d) /\ call'[d].secret = call[d].secret
<1>1. call[c] \in CallType BY DEF TypeOK
<1>2. [call[c] EXCEPT !.pc = how] \in CallType BY <1>1 DEF CallType
<1>3. call' = [call EXCEPT ![c] = [call[c] EXCEPT !.pc = how]] BY DEF End
<1>4. call' \in [Calls -> CallType] BY <1>2, <1>3 DEF TypeOK
<1>5. \A d \in Calls : d # c => call'[d] = call[d] BY <1>3 DEF TypeOK
<1>6. call'[c].pc = how /\ call'[c].secret = call[c].secret BY <1>1, <1>3 DEF TypeOK, CallType
<1> QED BY <1>4, <1>5, <1>6 DEF CallKept

(* What is known of a key that a call is about to write.                   *)
LEMMA Relied ==
  ASSUME CInv, NEW c \in Calls, call[c].pc \in {"looked", "ready"}, call[c].kind \in OnKey
  PROVE  /\ call[c].id \in KeyIds /\ key[call[c].id].st # "none"
         /\ key[call[c].id] \in RowType /\ call[c].row \in RowType
         /\ call[c].row.root = key[call[c].id].root /\ call[c].row.st = "active"
BY DEF CInv, CallsOK, Exists, TypeOK, CallType

(* A key is inserted for the first time.                                   *)
LEMMA InsertStep ==
  ASSUME CredentialsAssumption, CInv, NEW c \in Calls, InsertKey(c)
  PROVE  CInv'
<1> USE DEF InsertKey, At
<1>1. PICK n \in KeyIds :
        NextKey(n) /\ key' = [key EXCEPT ![n] = [call[c].row EXCEPT !.root = n]]
  OBVIOUS
<1>2. key[n].st = "none" BY <1>1 DEF NextKey
<1>3. call[c].row \in RowType /\ call[c].row.st = "active" /\ ~call[c].row.enabled
  BY DEF CInv, CallsOK, TypeOK, CallType
<1>4. n \in 0 .. MaxKeys BY DEF KeyIds, CredentialsAssumption
<1>5. [call[c].row EXCEPT !.root = n] \in RowType BY <1>3, <1>4 DEF RowType
<1>6. key' \in [KeyIds -> RowType] BY <1>1, <1>5 DEF CInv, TypeOK
<1>7. key'[n].st = "active" /\ key'[n].root = n BY <1>1, <1>3 DEF CInv, TypeOK, RowType
<1>8. \A l \in KeyIds \ {n} : key'[l] = key[l] BY <1>1 DEF CInv, TypeOK
<1>9. call' \in [Calls -> CallType] /\ \A d \in Calls : CallKept(d) /\ call'[d].secret = call[d].secret
  BY EndType DEF CInv
<1>10. TypeOK' BY <1>6, <1>9 DEF CInv, TypeOK
<1>11. RootsStay BY <1>2, <1>8 DEF RootsStay
<1>12. CallsOK' BY <1>9, <1>11, CallsKeep DEF CInv
<1>13. Rooted' BY <1>7, <1>8, <1>11, RootedKeep DEF CInv
<1>14. told.ended \subseteq KeyIds /\ told.rotated \subseteq KeyIds BY DEF CInv, TypeOK
<1>15. \A j \in told.ended : key[j].st # "none" BY DEF CInv, KeysOver
<1>16. OneInForce' /\ RevocationEndsLineage'
  BY <1>2, <1>7, <1>8, <1>14, <1>15, NewKeepsLineages DEF CInv, Same
<1>17. KeysOver' /\ AppOver' BY <1>2, <1>8, <1>14 DEF CInv, KeysOver, AppOver
<1>18. SecretsOver' BY <1>9 DEF CInv, SecretsOver
<1> QED BY <1>10, <1>12, <1>13, <1>16, <1>17, <1>18 DEF CInv

(* A patch writes settings of a key in force.                              *)
LEMMA PatchStep ==
  ASSUME CredentialsAssumption, CInv, NEW c \in Calls, PatchKey(c)
  PROVE  CInv'
<1> DEFINE k == call[c].id
           ask == Sent(call[c].ask)
<1>1. k \in KeyIds /\ key[k].st # "none" /\ key[k] \in RowType
  BY Relied DEF PatchKey, At, OnKey
<1>2. call[c].ask \in Asks \cup {NoAsk} BY DEF CInv, TypeOK, CallType
<1>3. ask \in [limit : Limits \cup {Keep}, end : Ends \cup {Keep}]
  BY <1>2 DEF CredentialsAssumption, Sent, NoAsk
<1>4. Patched(key[k], ask) \in RowType
  BY <1>1, <1>3 DEF Patched, RowType
<1>5. key' = [key EXCEPT ![k] = Patched(key[k], ask)] BY DEF PatchKey
<1>6. key' \in [KeyIds -> RowType] BY <1>4, <1>5 DEF CInv, TypeOK
<1>7. Same(k)
  BY <1>1, <1>5 DEF Same, Patched, RowType, CInv, TypeOK
<1>8. \A l \in KeyIds \ {k} : key'[l] = key[l] BY <1>5 DEF CInv, TypeOK
<1>9. call' \in [Calls -> CallType] /\ \A d \in Calls : CallKept(d) /\ call'[d].secret = call[d].secret
  BY EndType DEF CInv, PatchKey
<1>10. TypeOK' BY <1>6, <1>9 DEF CInv, TypeOK, PatchKey
<1>11. \A l \in KeyIds : Same(l) /\ (key[l].st = "none" => key'[l] = key[l])
  BY <1>1, <1>7, <1>8 DEF Same
<1> QED BY <1>9, <1>10, <1>11, QuietKeeps DEF PatchKey

(* A key in force is ended, by its owner or by an administrator.           *)
LEMMA EndKeyStep ==
  ASSUME CInv, TypeOK', NEW k \in KeyIds, key[k].st = "active",
         key' = [key EXCEPT ![k].st = "revoked"], told' = [told EXCEPT !.ended = @ \cup {k}],
         UNCHANGED app, \A d \in Calls : CallKept(d) /\ call'[d].secret = call[d].secret
  PROVE  CInv'
<1>1. key'[k].st = "revoked" /\ key'[k].root = key[k].root /\ key'[k].enabled = key[k].enabled
  BY DEF CInv, TypeOK, RowType
<1>2. \A l \in KeyIds \ {k} : key'[l] = key[l] BY DEF CInv, TypeOK
<1>3. /\ told'.ended = told.ended \cup {k} /\ told'.rotated = told.rotated
      /\ told'.secrets = told.secrets /\ told'.app = told.app
  BY DEF CInv, TypeOK
<1>4. RootsStay BY <1>1, <1>2 DEF RootsStay
<1>5. CallsOK' BY <1>4, CallsKeep DEF CInv
<1>6. Rooted' BY <1>2, <1>4, RootedKeep DEF CInv
<1>7. told.ended \subseteq KeyIds /\ told.rotated \subseteq KeyIds BY DEF CInv, TypeOK
<1>8. OneInForce' /\ RevocationEndsLineage'
  BY <1>1, <1>2, <1>3, <1>7, EndKeepsLineages DEF CInv, Same
<1>9. KeysOver' BY <1>1, <1>2, <1>3, <1>7 DEF CInv, KeysOver
<1>10. AppOver' /\ SecretsOver' BY <1>3 DEF CInv, AppOver, SecretsOver
<1> QED BY <1>5, <1>6, <1>8, <1>9, <1>10 DEF CInv

(* The owner revokes.                                                      *)
LEMMA RevokeStep ==
  ASSUME CInv, NEW c \in Calls, RevokeKey(c)
  PROVE  CInv'
<1> DEFINE k == call[c].id
<1>1. k \in KeyIds /\ key[k].st = "active" /\ key[k] \in RowType
  BY Relied DEF RevokeKey, At, OnKey, StillActive
<1>2. key' = [key EXCEPT ![k].st = "revoked"] /\ told' = [told EXCEPT !.ended = @ \cup {k}]
  BY DEF RevokeKey
<1>3. call' \in [Calls -> CallType] /\ \A d \in Calls : CallKept(d) /\ call'[d].secret = call[d].secret
  BY EndType DEF CInv, RevokeKey
<1>4. key' \in [KeyIds -> RowType] BY <1>1, <1>2 DEF CInv, TypeOK, RowType
<1>5. told' \in [ended : SUBSET KeyIds, rotated : SUBSET KeyIds, secrets : SUBSET (1 .. MaxSecrets),
                 app : BOOLEAN]
  BY <1>1, <1>2 DEF CInv, TypeOK
<1>6. TypeOK' BY <1>3, <1>4, <1>5 DEF CInv, TypeOK, RevokeKey
<1> HIDE DEF k
<1> QED BY <1>1, <1>2, <1>3, <1>6, EndKeyStep DEF RevokeKey

(* The owner rotates: one key is ended and its heir is inserted.           *)
LEMMA RotateStep ==
  ASSUME CredentialsAssumption, CInv, NEW c \in Calls, RotateKey(c)
  PROVE  CInv'
<1> DEFINE k == call[c].id
           heir == [call[c].row EXCEPT !.enabled = FALSE]
<1>1. /\ k \in KeyIds /\ key[k].st = "active" /\ key[k] \in RowType
      /\ call[c].row \in RowType /\ call[c].row.root = key[k].root /\ call[c].row.st = "active"
  BY Relied DEF RotateKey, At, OnKey, StillActive
<1>2. PICK n \in KeyIds : NextKey(n) /\ key' = [key EXCEPT ![k].st = "revoked", ![n] = heir]
  BY DEF RotateKey
<1>3. key[n].st = "none" /\ n # k BY <1>1, <1>2 DEF NextKey
<1>4. heir \in RowType /\ heir.st = "active" /\ heir.root = key[k].root
  BY <1>1 DEF RowType
<1>5. key' \in [KeyIds -> RowType]
  BY <1>1, <1>2, <1>3, <1>4 DEF CInv, TypeOK, RowType
<1>6. key'[n] = heir BY <1>2, <1>3 DEF CInv, TypeOK
<1>7. key'[k].st = "revoked" /\ key'[k].root = key[k].root /\ key'[k].enabled = key[k].enabled
  BY <1>1, <1>2, <1>3 DEF CInv, TypeOK, RowType
<1>8. \A l \in KeyIds \ {k, n} : key'[l] = key[l] BY <1>2 DEF CInv, TypeOK
<1>9. call' \in [Calls -> CallType] /\ \A d \in Calls : CallKept(d) /\ call'[d].secret = call[d].secret
  BY EndType DEF CInv, RotateKey
<1>10. /\ told'.ended = told.ended /\ told'.rotated = told.rotated \cup {k}
       /\ told'.secrets = told.secrets /\ told'.app = told.app
  BY DEF CInv, TypeOK, RotateKey
<1>11. told' \in [ended : SUBSET KeyIds, rotated : SUBSET KeyIds, secrets : SUBSET (1 .. MaxSecrets),
                  app : BOOLEAN]
  BY <1>1 DEF CInv, TypeOK, RotateKey
<1>12. TypeOK' BY <1>5, <1>9, <1>11 DEF CInv, TypeOK, RotateKey
<1>13. RootsStay BY <1>1, <1>3, <1>7, <1>8 DEF RootsStay
<1>14. CallsOK' BY <1>9, <1>13, CallsKeep DEF CInv
<1>15. Exists(key[k].root) BY <1>1 DEF CInv, Rooted
<1>16. \A l \in KeyIds : key[l].st = "none" =>
         \/ key'[l] = key[l]
         \/ key'[l].st # "none" /\ (key'[l].root = l \/ Exists(key'[l].root))
  BY <1>1, <1>4, <1>6, <1>8, <1>15
<1>17. Rooted' BY <1>13, <1>16, RootedKeep DEF CInv
<1>18. told.ended \subseteq KeyIds /\ told.rotated \subseteq KeyIds BY DEF CInv, TypeOK
<1>19. \A j \in told.ended : key[j].st # "none" BY DEF CInv, KeysOver
<1>20. OneInForce' /\ RevocationEndsLineage'
  <2>1. \A l \in KeyIds \ {k, n} : Same(l) BY <1>8 DEF Same
  <2>2. key'[n].root = key[k].root BY <1>4, <1>6
  <2> HIDE DEF k, heir
  <2> QED
    BY <1>1, <1>3, <1>7, <1>10, <1>18, <1>19, <2>1, <2>2, RotateKeepsLineages DEF CInv
<1>21. KeysOver'
  <2> SUFFICES ASSUME NEW j \in told.ended \cup told.rotated \cup {k} PROVE key'[j].st = "revoked"
    BY <1>10 DEF KeysOver
  <2>1. CASE j = k BY <2>1, <1>7
  <2>2. CASE j # k
    <3>1. key[j].st = "revoked" /\ j \in KeyIds BY <2>2, <1>18 DEF CInv, KeysOver
    <3> QED BY <3>1, <2>2, <1>3, <1>8
  <2> QED BY <2>1, <2>2
<1>22. AppOver' /\ SecretsOver' BY <1>9, <1>10 DEF CInv, AppOver, SecretsOver, RotateKey
<1> QED BY <1>12, <1>14, <1>17, <1>20, <1>21, <1>22 DEF CInv

(* The app is disabled, or its secret replaced: the keys do not change.    *)
LEMMA AppStep ==
  ASSUME CredentialsAssumption, CInv, NEW c \in Calls, DisableApp(c) \/ RotateSecret(c)
  PROVE  CInv'
<1>1. End(c, "done") /\ UNCHANGED <<now, banned, sub, key, tokens>>
  BY DEF DisableApp, RotateSecret
<1>2. call' \in [Calls -> CallType] /\ \A d \in Calls : CallKept(d) /\ call'[d].secret = call[d].secret
  BY <1>1, EndType DEF CInv
<1>3. call[c].secret \in 1 .. MaxSecrets BY DEF CInv, TypeOK, CallType
<1>4. told'.ended = told.ended /\ told'.rotated = told.rotated
  BY DEF CInv, TypeOK, DisableApp, RotateSecret
<1>5. \A k \in KeyIds : Same(k) BY <1>1 DEF Same
<1>6. told.ended \subseteq KeyIds BY DEF CInv, TypeOK
<1>7. OneInForce' /\ RevocationEndsLineage' BY <1>4, <1>5, <1>6, SameKeepsLineages DEF CInv
<1>8. RootsStay BY <1>1 DEF RootsStay
<1>9. CallsOK' BY <1>2, <1>8, CallsKeep DEF CInv
<1>10. Rooted' BY <1>1, <1>8, RootedKeep DEF CInv
<1>11. KeysOver' BY <1>1, <1>4 DEF CInv, KeysOver
<1>12. CASE DisableApp(c)
  <2>1. app' = [app EXCEPT !.st = "disabled"] /\ told' = [told EXCEPT !.app = TRUE]
    BY <1>12 DEF DisableApp
  <2>2. TypeOK' BY <1>1, <1>2, <2>1 DEF CInv, TypeOK
  <2>3. AppOver' BY <2>1 DEF CInv, AppOver, TypeOK
  <2>4. SecretsOver' BY <1>2, <2>1 DEF CInv, SecretsOver, TypeOK
  <2> QED BY <1>7, <1>9, <1>10, <1>11, <2>2, <2>3, <2>4 DEF CInv
<1>13. CASE RotateSecret(c)
  <2>1. /\ app' = [app EXCEPT !.secret = app.made + 1, !.made = app.made + 1]
        /\ app.made < MaxSecrets
        /\ told' = [told EXCEPT !.secrets = @ \cup {app.secret, call[c].secret}]
    BY <1>13 DEF RotateSecret, WithSecret
  <2>2. call[c].secret <= app.made /\ app.secret = app.made BY DEF CInv, SecretsOver
  <2>3. TypeOK'
    <3>1. app' \in [st : {"active", "disabled"}, secret : 1 .. MaxSecrets, made : 1 .. MaxSecrets]
      <4>1. app \in [st : {"active", "disabled"}, secret : 1 .. MaxSecrets, made : 1 .. MaxSecrets]
        BY DEF CInv, TypeOK
      <4>2. app.made + 1 \in 1 .. MaxSecrets BY <2>1, <4>1 DEF CredentialsAssumption
      <4> QED BY <2>1, <4>1, <4>2
    <3>2. app.secret \in 1 .. MaxSecrets BY DEF CInv, TypeOK
    <3>3. told' \in [ended : SUBSET KeyIds, rotated : SUBSET KeyIds, secrets : SUBSET (1 .. MaxSecrets),
                     app : BOOLEAN]
      BY <1>3, <2>1, <3>2 DEF CInv, TypeOK
    <3> QED BY <1>1, <1>2, <3>1, <3>3 DEF CInv, TypeOK
  <2>4. AppOver' BY <2>1 DEF CInv, AppOver, TypeOK
  <2>5. SecretsOver'
    <3>1. told'.secrets = told.secrets \cup {app.secret, call[c].secret}
      BY <2>1 DEF CInv, TypeOK
    <3>2. app'.secret = app.made + 1 /\ app'.made = app.made + 1 BY <2>1 DEF CInv, TypeOK
    <3>3. app.made \in Nat /\ told.secrets \subseteq Nat BY DEF CInv, TypeOK
    <3>4. \A d \in Calls : call[d].secret \in Nat BY DEF CInv, TypeOK, CallType
    <3> QED BY <1>2, <1>3, <2>2, <3>1, <3>2, <3>3, <3>4 DEF CInv, SecretsOver
  <2> QED BY <1>7, <1>9, <1>10, <1>11, <2>3, <2>4, <2>5 DEF CInv
<1> QED BY <1>12, <1>13

-----------------------------------------------------------------------------
(* The calls of the console begin with what they read.                     *)
LEMMA BeginStep ==
  ASSUME CredentialsAssumption, CInv, NEW c \in Calls,
         \/ \E l \in Limits, e \in Ends \cup {Never}, s \in {NoSub, sub.id} : Create(c, l, e, s)
         \/ \E k \in KeyIds : Revoke(c, k) \/ Rotate(c, k) \/ \E a \in Asks : Patch(c, k, a)
         \/ Disable(c) \/ NewSecret(c)
  PROVE  CInv'
<1>1. NoRow \in RowType BY DEF CredentialsAssumption, NoRow, RowType, NoSub, NoKey, Never
<1>2. NoKey \in 0 .. MaxKeys /\ KeyIds \subseteq 0 .. MaxKeys
  BY DEF CredentialsAssumption, NoKey, KeyIds
<1>3. ASSUME NEW l \in Limits, NEW e \in Ends \cup {Never}, NEW s \in {NoSub, sub.id}, Create(c, l, e, s)
      PROVE  CInv'
  <2> DEFINE row == [NoRow EXCEPT !.st = "active", !.limit = l, !.end = e, !.sub = s]
  <2>1. s \in 0 .. MaxSubs BY DEF CInv, TypeOK, CredentialsAssumption, NoSub
  <2>2. row \in RowType /\ row.st = "active" /\ ~row.enabled
    BY <1>1, <2>1 DEF RowType, NoRow
  <2>3. Open(c, "create", NoKey, row, "ready", NoAsk) BY <1>3 DEF Create
  <2> HIDE DEF row
  <2> QED BY <1>2, <2>2, <2>3, OpenStep DEF OnKey
<1>4. ASSUME NEW k \in KeyIds, NEW kind \in OnKey, NEW pc \in {"looked", "ready"},
             NEW ask \in Asks \cup {NoAsk}, key[k].st = "active", Open(c, kind, k, key[k], pc, ask)
      PROVE  CInv'
  <2>1. key[k] \in RowType /\ Exists(k) BY <1>4 DEF CInv, TypeOK, Exists
  <2>2. kind # "create" /\ k \in 0 .. MaxKeys BY <1>2 DEF OnKey
  <2>3. key[k].root = key[k].root /\ key[k].st = "active" BY <1>4
  <2> QED BY <1>4, <2>1, <2>2, <2>3, OpenStep
<1>5. ASSUME NEW k \in KeyIds, Revoke(c, k) PROVE CInv'
  BY <1>4, <1>5 DEF Revoke, OnKey
<1>6. ASSUME NEW k \in KeyIds, Rotate(c, k) PROVE CInv'
  BY <1>4, <1>6 DEF Rotate, OnKey
<1>7. ASSUME NEW k \in KeyIds, NEW a \in Asks, Patch(c, k, a) PROVE CInv'
  BY <1>4, <1>7 DEF Patch, OnKey
<1>8. CASE Disable(c)
  BY <1>1, <1>2, <1>8, OpenStep DEF Disable, OnKey
<1>9. CASE NewSecret(c)
  BY <1>1, <1>2, <1>9, OpenStep DEF NewSecret, OnKey
<1> QED BY <1>3, <1>5, <1>6, <1>7, <1>8, <1>9

(* The source of money of a rotation, a transaction that lost.             *)
LEMMA CallStep ==
  ASSUME CredentialsAssumption, CInv, NEW c \in Calls, Recheck(c) \/ Lost(c)
  PROVE  CInv'
<1>1. UNCHANGED <<now, banned, sub, key, app, tokens, told>> BY DEF Recheck, Lost
<1>2. \A k \in KeyIds : Same(k) /\ key'[k] = key[k] BY <1>1 DEF Same
<1>3. CASE Recheck(c)
  <2> DEFINE s == IF Usable(call[c].row.sub) THEN call[c].row.sub ELSE NoSub
             row == [call[c].row EXCEPT !.sub = s]
             next == [call[c] EXCEPT !.pc = "ready", !.row = row]
  <2>1. call[c] \in CallType /\ call[c].row \in RowType BY DEF CInv, TypeOK, CallType
  <2>2. s \in 0 .. MaxSubs BY <2>1 DEF RowType, NoSub, CredentialsAssumption
  <2>3. row \in RowType BY <2>1, <2>2 DEF RowType
  <2>4. next \in CallType BY <2>1, <2>3 DEF CallType
  <2>5. call' = [call EXCEPT ![c] = next]
    BY <1>3 DEF Recheck
  <2>6. call' \in [Calls -> CallType] BY <2>4, <2>5 DEF CInv, TypeOK
  <2>7. CallKept(c) /\ call'[c].secret = call[c].secret
    BY <1>3, <2>1, <2>5 DEF CInv, TypeOK, CallKept, Recheck, CallType, RowType
  <2>8. \A d \in Calls \ {c} : call'[d] = call[d] BY <2>5 DEF CInv, TypeOK
  <2>9. \A d \in Calls : CallKept(d) /\ call'[d].secret = call[d].secret
    BY <2>7, <2>8 DEF CallKept
  <2>10. TypeOK' BY <1>1, <2>6 DEF CInv, TypeOK
  <2> QED BY <1>1, <1>2, <2>9, <2>10, QuietKeeps
<1>4. CASE Lost(c)
  <2>1. call' \in [Calls -> CallType] /\ \A d \in Calls : CallKept(d) /\ call'[d].secret = call[d].secret
    BY <1>4, EndType DEF CInv, Lost
  <2>2. TypeOK' BY <1>1, <2>1 DEF CInv, TypeOK
  <2> QED BY <1>1, <1>2, <2>1, <2>2, QuietKeeps
<1> QED BY <1>3, <1>4

(* An administrator sets a limit, ends a key or enables it again.          *)
LEMMA AdminStep ==
  ASSUME CredentialsAssumption, CInv, NEW k \in KeyIds, AdminPatch(k)
  PROVE  CInv'
<1>1. UNCHANGED <<now, banned, sub, app, tokens, call>> /\ key[k].st # "none" BY DEF AdminPatch
<1>2. \A d \in Calls : CallKept(d) /\ call'[d].secret = call[d].secret BY <1>1 DEF CallKept
<1>3. key[k] \in RowType BY DEF CInv, TypeOK
<1>4. ASSUME NEW l \in Limits, key' = [key EXCEPT ![k].limit = l], UNCHANGED told
      PROVE  CInv'
  <2>1. TypeOK' BY <1>1, <1>3, <1>4 DEF CInv, TypeOK, RowType
  <2>2. \A j \in KeyIds : Same(j) /\ (key[j].st = "none" => key'[j] = key[j])
    BY <1>1, <1>3, <1>4 DEF CInv, TypeOK, RowType, Same
  <2> QED BY <1>1, <1>2, <1>4, <2>1, <2>2, QuietKeeps
<1>5. ASSUME key[k].st = "active", key' = [key EXCEPT ![k].st = "revoked"],
             told' = [told EXCEPT !.ended = @ \cup {k}]
      PROVE  CInv'
  <2>1. key' \in [KeyIds -> RowType] BY <1>3, <1>5 DEF CInv, TypeOK, RowType
  <2>2. told' \in [ended : SUBSET KeyIds, rotated : SUBSET KeyIds, secrets : SUBSET (1 .. MaxSecrets),
                   app : BOOLEAN]
    BY <1>5 DEF CInv, TypeOK
  <2>3. TypeOK' BY <1>1, <2>1, <2>2 DEF CInv, TypeOK
  <2> QED BY <1>1, <1>2, <1>5, <2>3, EndKeyStep
<1>6. ASSUME key[k].st = "revoked", key' = [key EXCEPT ![k].st = "active", ![k].enabled = TRUE],
             told' = [told EXCEPT !.ended = @ \ {k}, !.rotated = @ \ {k}]
      PROVE  CInv'
  <2>1. key' \in [KeyIds -> RowType] BY <1>3, <1>6 DEF CInv, TypeOK, RowType
  <2>2. /\ told'.ended = told.ended \ {k} /\ told'.rotated = told.rotated \ {k}
        /\ told'.secrets = told.secrets /\ told'.app = told.app
    BY <1>6 DEF CInv, TypeOK
  <2>3. told' \in [ended : SUBSET KeyIds, rotated : SUBSET KeyIds, secrets : SUBSET (1 .. MaxSecrets),
                   app : BOOLEAN]
    BY <1>6 DEF CInv, TypeOK
  <2>4. TypeOK' BY <1>1, <2>1, <2>3 DEF CInv, TypeOK
  <2>5. key'[k].st = "active" /\ key'[k].enabled /\ key'[k].root = key[k].root
    BY <1>3, <1>6 DEF CInv, TypeOK, RowType
  <2>6. \A l \in KeyIds \ {k} : key'[l] = key[l] /\ Same(l) BY <1>6 DEF CInv, TypeOK, Same
  <2>7. told.ended \subseteq KeyIds /\ told.rotated \subseteq KeyIds BY DEF CInv, TypeOK
  <2>8. OneInForce' /\ RevocationEndsLineage'
    BY <2>2, <2>5, <2>6, <2>7, EnableKeepsLineages DEF CInv
  <2>9. RootsStay BY <2>5, <2>6 DEF RootsStay
  <2>10. CallsOK' BY <1>2, <2>9, CallsKeep DEF CInv
  <2>11. Rooted' BY <1>1, <2>6, <2>9, RootedKeep DEF CInv
  <2>12. KeysOver' BY <2>2, <2>6, <2>7 DEF CInv, KeysOver
  <2>13. AppOver' /\ SecretsOver' BY <1>1, <2>2 DEF CInv, AppOver, SecretsOver
  <2> QED BY <2>4, <2>8, <2>10, <2>11, <2>12, <2>13 DEF CInv
<1> QED BY <1>4, <1>5, <1>6 DEF AdminPatch

(* Bans, subscriptions, tokens and the clock end no key.                   *)
LEMMA OutsideStep ==
  ASSUME CredentialsAssumption, CInv,
         \/ \E b \in BOOLEAN : SetStatus(b)
         \/ Lapse \/ Renew \/ (\E s \in 1 .. MaxSecrets : Exchange(s)) \/ Tick \/ UNCHANGED vars
  PROVE  CInv'
<1>1. UNCHANGED <<app, call, told>>
  BY DEF SetStatus, Lapse, Renew, Exchange, Tick, vars
<1>2. \A d \in Calls : CallKept(d) /\ call'[d].secret = call[d].secret BY <1>1 DEF CallKept
<1>3. banned' \in BOOLEAN
  BY Zenon DEF CInv, TypeOK, SetStatus, Lapse, Renew, Exchange, Tick, vars
<1>4. now' \in 0 .. MaxNow
  BY DEF CInv, TypeOK, CredentialsAssumption, SetStatus, Lapse, Renew, Exchange, Tick, vars
<1>5. CASE Renew
  <2>1. sub' = [id |-> sub.id + 1, lapsed |-> FALSE] /\ sub.id + 1 \in 1 .. MaxSubs
    BY <1>5 DEF Renew, CInv, TypeOK, CredentialsAssumption
  <2>2. key' = [k \in KeyIds |-> IF key[k].sub = sub.id
                                 THEN [key[k] EXCEPT !.sub = sub.id + 1] ELSE key[k]]
    BY <1>5 DEF Renew
  <2>3. \A k \in KeyIds : key[k] \in RowType BY DEF CInv, TypeOK
  <2>4. \A k \in KeyIds : [key[k] EXCEPT !.sub = sub.id + 1] \in RowType
    BY <2>1, <2>3 DEF RowType
  <2>5. key' \in [KeyIds -> RowType] BY <2>2, <2>3, <2>4
  <2>6. TypeOK' BY <1>1, <1>3, <1>4, <2>1, <2>5 DEF CInv, TypeOK
  <2>7. \A k \in KeyIds : Same(k) BY <2>2, <2>3 DEF Same, RowType
  <2>8. \A k \in KeyIds : key[k].st = "none" => key'[k] = key[k]
    <3>1. sub.id # NoSub BY DEF CInv, TypeOK, NoSub
    <3> QED BY <2>2, <3>1 DEF CInv, Rooted, NoRow
  <2> QED BY <1>1, <1>2, <2>6, <2>7, <2>8, QuietKeeps
<1>6. CASE ~Renew
  <2>1. UNCHANGED key BY <1>6 DEF SetStatus, Lapse, Exchange, Tick, vars
  <2>2. sub' \in [id : 1 .. MaxSubs, lapsed : BOOLEAN]
    BY <1>6 DEF CInv, TypeOK, SetStatus, Lapse, Exchange, Tick, vars
  <2>3. TypeOK' BY <1>1, <1>3, <1>4, <2>1, <2>2 DEF CInv, TypeOK
  <2>4. \A k \in KeyIds : Same(k) /\ key'[k] = key[k] BY <2>1 DEF Same
  <2> QED BY <1>1, <1>2, <2>3, <2>4, QuietKeeps
<1> QED BY <1>5, <1>6

-----------------------------------------------------------------------------
(* Every step keeps the invariant.                                         *)
THEOREM StepCInv == ASSUME CredentialsAssumption, CInv, [Next]_vars PROVE CInv'
<1>1. CASE \E c \in Calls :
             \/ \E l \in Limits, e \in Ends \cup {Never}, s \in {NoSub, sub.id} : Create(c, l, e, s)
             \/ \E k \in KeyIds : Revoke(c, k) \/ Rotate(c, k) \/ \E a \in Asks : Patch(c, k, a)
             \/ Disable(c) \/ NewSecret(c)
  BY <1>1, BeginStep
<1>2. CASE \E c \in Calls : Recheck(c) \/ Lost(c)
  BY <1>2, CallStep
<1>3. CASE \E c \in Calls : InsertKey(c)
  BY <1>3, InsertStep
<1>4. CASE \E c \in Calls : PatchKey(c)
  BY <1>4, PatchStep
<1>5. CASE \E c \in Calls : RevokeKey(c)
  BY <1>5, RevokeStep
<1>6. CASE \E c \in Calls : RotateKey(c)
  BY <1>6, RotateStep
<1>7. CASE \E c \in Calls : DisableApp(c) \/ RotateSecret(c)
  BY <1>7, AppStep
<1>8. CASE \E k \in KeyIds : AdminPatch(k)
  BY <1>8, AdminStep
<1>9. CASE \/ \E b \in BOOLEAN : SetStatus(b)
           \/ Lapse \/ Renew \/ (\E s \in 1 .. MaxSecrets : Exchange(s)) \/ Tick \/ UNCHANGED vars
  BY <1>9, OutsideStep
<1> QED BY <1>1, <1>2, <1>3, <1>4, <1>5, <1>6, <1>7, <1>8, <1>9 DEF Next

(* Of a key and the keys it was rotated into, one at most is in force.     *)
THEOREM CredentialsLineages ==
  ASSUME CredentialsAssumption
  PROVE  Spec => []OneInForce
<1>1. Init => CInv BY InitCInv
<1>2. CInv /\ [Next]_vars => CInv' BY StepCInv
<1>3. CInv => OneInForce BY DEF CInv
<1> QED BY <1>1, <1>2, <1>3, PTL DEF Spec

(* A key told to be revoked or disabled takes with it every key it was     *)
(* rotated into: none of them is in force again.                           *)
THEOREM RevocationsEndLineages ==
  ASSUME CredentialsAssumption
  PROVE  Spec => []RevocationEndsLineage
<1>1. Init => CInv BY InitCInv
<1>2. CInv /\ [Next]_vars => CInv' BY StepCInv
<1>3. CInv => RevocationEndsLineage BY DEF CInv
<1> QED BY <1>1, <1>2, <1>3, PTL DEF Spec

(* What a caller was told is over does not pass the gateway again.         *)
THEOREM CredentialsOver == ASSUME CredentialsAssumption PROVE Spec => []ToldIsOver
<1>1. Init => CInv BY InitCInv
<1>2. CInv /\ [Next]_vars => CInv' BY StepCInv
<1>3. CInv => ToldIsOver BY OverDoesNotPass
<1> QED BY <1>1, <1>2, <1>3, PTL DEF Spec

(* The state has its types.                                                *)
THEOREM CredentialsTypes == ASSUME CredentialsAssumption PROVE Spec => []TypeOK
<1>1. Init => CInv BY InitCInv
<1>2. CInv /\ [Next]_vars => CInv' BY StepCInv
<1>3. CInv => TypeOK BY DEF CInv
<1> QED BY <1>1, <1>2, <1>3, PTL DEF Spec

=============================================================================
