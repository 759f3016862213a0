------------------------------ MODULE Catalog -------------------------------
(***************************************************************************)
(* The shelf: which external names are sold, as which real model, and      *)
(* through which channels.  Administrators fill it by importing a source's *)
(* catalogue, by hand, and by importing channels; they bind channels to    *)
(* names, edit and retire.  The gateway quotes a request from the mapping  *)
(* of its external name and then, in a second statement, asks for the      *)
(* channels of the mapping's real model.                                   *)
(*                                                                         *)
(* Under READ COMMITTED a call reads what is committed at each statement.  *)
(* Its own writes are applied at its commit: rows it locked or inserted    *)
(* make the others wait until then, and an insert of a key that was        *)
(* committed meanwhile fails and rolls everything back.                    *)
(***************************************************************************)
EXTENDS Naturals, Sequences, FiniteSets

CONSTANTS
  Names,      (* external names: model_mappings_external_name_uq            *)
  Reals,      (* real models                                                *)
  Channels,   (* channels by their name: channels_name_uq                   *)
  Source,     (* the channel that the online catalogue creates              *)
  Calls, Requests,
  Kinds,      (* which calls administrators make                            *)
  Editable,   (* which single-statement edits they make                     *)
  Limits,     (* the model white lists a channel can have                   *)
  Stock,      (* the shelves the system may start with                      *)
  MaxEdits    (* bound: single-statement edits                              *)

CatalogAssumption ==
  /\ Source \in Channels /\ MaxEdits \in Nat
  /\ Kinds \subseteq {"import", "draft", "create", "bind", "add"}
  /\ Editable \subseteq {"model", "shelf", "channel", "limit"}
  /\ Limits \subseteq SUBSET Reals /\ Reals \in Limits

VARIABLES
  provider,  (* whether the source's provider row exists                    *)
  mapping,   (* [Names -> there, status (on or off), real]                  *)
  channel,   (* [Channels -> there, status (0, 1 or 4), models]             *)
  bound,     (* model_channels: pairs of name and channel                   *)
  call,      (* [Calls -> kind, stage, what it was asked, what it read]     *)
  req,       (* [Requests -> stage, name, quoted real, route, tried]        *)
  edits,
  approved,  (* history: names put on the shelf other than by a draft       *)
  barred     (* history: [Requests -> names and channels off since it came] *)

vars == <<provider, mapping, channel, bound, call, req, edits, approved, barred>>
shelf == <<provider, mapping, channel, bound>>

NoRow == [there |-> FALSE, status |-> "off", real |-> CHOOSE m \in Reals : TRUE]
Row(m, s) == [there |-> TRUE, status |-> s, real |-> m]
NewChannel == [there |-> TRUE, status |-> 0, models |-> Reals]
Idle == [kind |-> "none", stage |-> "idle", what |-> {}, key |-> FALSE,
         channels |-> {}, saw |-> {}, left |-> {}]
Fresh == [stage |-> "new", name |-> "none", real |-> "none", route |-> {}, tried |-> <<>>]

Init ==
  /\ \E s \in Stock : /\ provider = s.provider /\ mapping = s.mapping
                      /\ channel = s.channel /\ bound = s.bound
                      /\ approved = {n \in Names : s.mapping[n].status = "on"}
  /\ call = [i \in Calls |-> Idle]
  /\ req = [r \in Requests |-> Fresh]
  /\ barred = [r \in Requests |-> {}] /\ edits = 0

Stage(i, s) == call' = [call EXCEPT ![i].stage = s]
(* Names and channels that a commit switches on are barred to nobody.      *)
Unbar(on) == barred' = [r \in Requests |-> barred[r] \ on]

-----------------------------------------------------------------------------
(* Calls that read first.                                                  *)

(* A call asks for pairs of a name and a real model (an import), for one   *)
(* (create), for a name and its channels (bind), or for a channel and the  *)
(* names it serves (add).                                                  *)
Ask(i) ==
  /\ call[i].stage = "idle"
  /\ \E k \in Kinds, ns \in SUBSET Names, cs \in SUBSET Channels, key \in BOOLEAN :
     \E f \in [ns -> Reals] :
       /\ k \in {"import", "draft"} => ns # {} /\ cs = {}
       /\ k # "import" => ~key
       /\ k = "create" => Cardinality(ns) = 1 /\ cs = {}
       /\ k = "bind" => Cardinality(ns) = 1
       /\ k = "add" => Cardinality(cs) = 1
       /\ k \in {"bind", "add"} => \A n \in ns : f[n] = NoRow.real
       /\ call' = [call EXCEPT ![i] =
            [kind |-> k, stage |-> "asked", what |-> {<<n, f[n]>> : n \in ns}, key |-> key,
             channels |-> cs, saw |-> {}, left |-> ns]]
  /\ UNCHANGED <<shelf, req, edits, approved, barred>>

Asked(i, k) == call[i].kind = k /\ call[i].stage = "asked"

(* import: provider and channel are looked up; a first import needs a key. *)
(* saw: what was found, with the names as they are read one after another. *)
Begin(i) ==
  /\ call[i].stage = "asked" /\ call[i].kind \in {"import", "draft"}
  /\ IF call[i].kind = "import" /\ ~channel[Source].there /\ ~call[i].key
     THEN Stage(i, "refused")
     ELSE call' = [call EXCEPT ![i].stage = "reading",
                     ![i].saw = {<<"provider", provider>>, <<"channel", channel[Source].there>>}]
  /\ UNCHANGED <<shelf, req, edits, approved, barred>>

(* findByExternalName of one model; the name of another real model ends an *)
(* online import.                                                          *)
Read(i) ==
  /\ call[i].stage = "reading"
  /\ \E p \in call[i].what :
       LET n == p[1]  left == call[i].left \ {n} IN
       /\ n \in call[i].left
       /\ IF call[i].kind = "import" /\ mapping[n].there /\ mapping[n].real # p[2]
          THEN Stage(i, "refused")
          ELSE call' = [call EXCEPT ![i].left = left,
                          ![i].saw = @ \cup {<<n, mapping[n].there>>},
                          ![i].stage = IF left = {} THEN "ready" ELSE @]
  /\ UNCHANGED <<shelf, req, edits, approved, barred>>

Missed(i) == {p \in call[i].what : <<p[1], FALSE>> \in call[i].saw}
(* The unique indexes at commit: whatever was found missing still is.      *)
Unique(i) ==
  /\ \A p \in Missed(i) : ~mapping[p[1]].there
  /\ call[i].kind = "import" =>
       /\ <<"provider", FALSE>> \in call[i].saw => ~provider
       /\ <<"channel", FALSE>> \in call[i].saw => ~channel[Source].there
InsertAll(i, s) ==
  mapping' = [n \in Names |->
    IF \E p \in Missed(i) : p[1] = n
    THEN Row((CHOOSE p \in Missed(i) : p[1] = n)[2], s) ELSE mapping[n]]

(* An online import: provider and channel if they were missing, mappings   *)
(* on the shelf, prices of those that exist, and every one bound.          *)
CommitImport(i) ==
  /\ call[i].kind = "import" /\ call[i].stage = "ready" /\ Unique(i)
  /\ provider' = TRUE
  /\ channel' = [channel EXCEPT ![Source] = IF @.there THEN @ ELSE NewChannel]
  /\ InsertAll(i, "on")
  /\ bound' = bound \cup {<<p[1], Source>> : p \in call[i].what}
  /\ approved' = approved \cup {p[1] : p \in Missed(i)}
  /\ Unbar({p[1] : p \in Missed(i)} \cup IF channel[Source].there THEN {} ELSE {Source})
  /\ Stage(i, "done") /\ UNCHANGED <<req, edits>>

(* An import from the dictionary: drafts of what is new, the rest skipped. *)
CommitDraft(i) ==
  /\ call[i].kind = "draft" /\ call[i].stage = "ready" /\ Unique(i)
  /\ InsertAll(i, "off") /\ Stage(i, "done")
  /\ UNCHANGED <<provider, channel, bound, req, edits, approved, barred>>

(* 23505: the whole transaction is rolled back.                            *)
Conflict(i) ==
  /\ call[i].stage = "ready" /\ call[i].kind \in {"import", "draft", "create"} /\ ~Unique(i)
  /\ Stage(i, "refused")
  /\ UNCHANGED <<shelf, req, edits, approved, barred>>

(* models.create: looked up, then inserted in a transaction of its own.    *)
Look(i) ==
  /\ Asked(i, "create")
  /\ \E p \in call[i].what :
       IF mapping[p[1]].there THEN Stage(i, "refused")
       ELSE call' = [call EXCEPT ![i].stage = "ready", ![i].saw = {<<p[1], FALSE>>}]
  /\ UNCHANGED <<shelf, req, edits, approved, barred>>
Create(i) ==
  /\ call[i].kind = "create" /\ call[i].stage = "ready" /\ Unique(i)
  /\ InsertAll(i, "on") /\ approved' = approved \cup {p[1] : p \in call[i].what}
  /\ Unbar({p[1] : p \in call[i].what})
  /\ Stage(i, "done") /\ UNCHANGED <<provider, channel, bound, req, edits>>

-----------------------------------------------------------------------------
(* bindChannels: delete, then insert, in one transaction.                  *)

Name(i) == (CHOOSE p \in call[i].what : TRUE)[1]
Of(n) == {b \in bound : b[1] = n}
Wanted(i) == {<<Name(i), c>> : c \in call[i].channels}
Binding(i) == call[i].kind = "bind" /\ call[i].stage = "deleted"

(* The rows the delete sees are those committed when it starts.            *)
Delete(i) ==
  /\ Asked(i, "bind")
  /\ IF ~mapping[Name(i)].there THEN Stage(i, "refused")
     ELSE call' = [call EXCEPT ![i].stage = "deleting", ![i].saw = Of(Name(i))]
  /\ UNCHANGED <<shelf, req, edits, approved, barred>>
(* It waits for the rows that another transaction deletes; rows that were  *)
(* inserted meanwhile, or again, it does not see.                          *)
Deleted(i) ==
  /\ call[i].kind = "bind" /\ call[i].stage = "deleting"
  /\ \A j \in Calls : Binding(j) => call[j].saw \cap call[i].saw = {}
  /\ Stage(i, "deleted")
  /\ UNCHANGED <<shelf, req, edits, approved, barred>>
(* At the commit the rows it deleted are gone for those who wait for them. *)
Bound(i) ==
  call' = [j \in Calls |->
    IF j = i THEN [call[j] EXCEPT !.stage = "done"]
    ELSE IF call[j].kind = "bind" /\ call[j].stage = "deleting"
         THEN [call[j] EXCEPT !.saw = @ \ call[i].saw] ELSE call[j]]
(* The insert meets its own deletes, but not a row of somebody else; a     *)
(* channel that does not exist fails the foreign key.                      *)
CanInsert(i) == /\ (bound \ call[i].saw) \cap Wanted(i) = {}
                /\ \A c \in call[i].channels : channel[c].there
InsertOnly(i) ==   \* mutant: the delete is forgotten
  /\ Binding(i) /\ CanInsert(i)
  /\ bound' = bound \cup Wanted(i)
  /\ Bound(i) /\ UNCHANGED <<provider, mapping, channel, req, edits, approved, barred>>
Insert(i) ==
  /\ Binding(i) /\ CanInsert(i)
  /\ bound' = (bound \ call[i].saw) \cup Wanted(i)
  /\ Bound(i) /\ UNCHANGED <<provider, mapping, channel, req, edits, approved, barred>>
InsertFails(i) ==
  /\ Binding(i) /\ ~CanInsert(i)
  /\ Stage(i, "refused") /\ UNCHANGED <<shelf, req, edits, approved, barred>>

-----------------------------------------------------------------------------
(* channels.import, one item: the name is looked up, then the channel is   *)
(* inserted and bound to those of its models that have a mapping.          *)

New(i) == CHOOSE c \in call[i].channels : TRUE
LookChannel(i) ==
  /\ Asked(i, "add")
  /\ Stage(i, IF provider /\ ~channel[New(i)].there THEN "ready" ELSE "refused")
  /\ UNCHANGED <<shelf, req, edits, approved, barred>>
Add(i) ==
  /\ call[i].kind = "add" /\ call[i].stage = "ready"
  /\ IF channel[New(i)].there THEN Stage(i, "refused") /\ UNCHANGED <<shelf, barred>>
     ELSE /\ channel' = [channel EXCEPT ![New(i)] = NewChannel]
          /\ bound' = bound \cup {b \in {p[1] : p \in call[i].what} \X {New(i)} : mapping[b[1]].there}
          /\ Stage(i, "done") /\ Unbar({New(i)}) /\ UNCHANGED <<provider, mapping>>
  /\ UNCHANGED <<req, edits, approved>>

-----------------------------------------------------------------------------
(* Edits of one statement.                                                 *)

Editing(what) == what \in Editable /\ edits < MaxEdits /\ edits' = edits + 1

(* models.update of the real model                                         *)
Rename(n, m) ==
  /\ Editing("model") /\ mapping[n].there /\ mapping[n].real # m
  /\ mapping' = [mapping EXCEPT ![n].real = m]
  /\ UNCHANGED <<provider, channel, bound, call, req, approved, barred>>
(* models.update of the status, and retire                                 *)
Shelve(n, s) ==
  /\ Editing("shelf") /\ mapping[n].there /\ mapping[n].status # s
  /\ mapping' = [mapping EXCEPT ![n].status = s]
  /\ approved' = IF s = "on" THEN approved \cup {n} ELSE approved
  /\ Unbar(IF s = "on" THEN {n} ELSE {})
  /\ UNCHANGED <<provider, channel, bound, call, req>>
(* channels.update of the status (a new key switches it on), and retire    *)
Switch(c, s) ==
  /\ Editing("channel") /\ channel[c].there /\ channel[c].status # s
  /\ channel' = [channel EXCEPT ![c].status = s]
  /\ Unbar(IF s = 0 THEN {c} ELSE {})
  /\ UNCHANGED <<provider, mapping, bound, call, req, approved>>
(* channels.update of the white list                                       *)
Restrict(c, ms) ==
  /\ Editing("limit") /\ channel[c].there /\ channel[c].models # ms
  /\ channel' = [channel EXCEPT ![c].models = ms]
  /\ UNCHANGED <<provider, mapping, bound, call, req, approved, barred>>

-----------------------------------------------------------------------------
(* A request at the gateway.                                               *)

Arrive(r) ==
  /\ req[r].stage = "new"
  /\ \E n \in Names : req' = [req EXCEPT ![r].stage = "arrived", ![r].name = n]
  /\ barred' = [barred EXCEPT ![r] = {c \in Channels : channel[c].status # 0}
                                    \cup {n \in Names : mapping[n].status = "off"}]
  /\ UNCHANGED <<shelf, call, edits, approved>>

(* buildQuote: only what is on the shelf.                                  *)
Quote(r) ==
  /\ req[r].stage = "arrived"
  /\ LET row == mapping[req[r].name] IN
     req' = [req EXCEPT ![r] =
       IF row.there /\ row.status = "on" THEN [@ EXCEPT !.stage = "quoted", !.real = row.real]
       ELSE [@ EXCEPT !.stage = "refused"]]
  /\ UNCHANGED <<shelf, call, edits, approved, barred>>

(* findRouteCandidates: a row per binding of a mapping of the real model   *)
Candidates(m) == {b \in bound : mapping[b[1]].real = m /\ channel[b[2]].status = 0}
Route(r) ==
  /\ req[r].stage = "quoted"
  /\ req' = [req EXCEPT ![r].stage = "routed", ![r].route = Candidates(req[r].real)]
  /\ UNCHANGED <<shelf, call, edits, approved, barred>>

(* The next candidate: it serves, it is passed over (limits, budget), or   *)
(* it fails so that another is tried; a dead credential switches it off.   *)
(* Other failures are final.                                               *)
Try(r) ==
  /\ req[r].stage = "routed"
  /\ \E b \in req[r].route, out \in {"serves", "skipped", "fails", "dead", "ends"} :
       /\ req' = [req EXCEPT ![r].route = @ \ {b},
                    ![r].tried = IF out = "skipped" THEN @ ELSE Append(@, b),
                    ![r].stage = CASE out = "serves" -> "done" [] out = "ends" -> "failed"
                                   [] OTHER -> @]
       /\ channel' = IF out = "dead" /\ channel[b[2]].status = 0
                     THEN [channel EXCEPT ![b[2]].status = 4] ELSE channel
  /\ UNCHANGED <<provider, mapping, bound, call, edits, approved, barred>>
GiveUp(r) ==
  /\ req[r].stage = "routed" /\ req[r].route = {}
  /\ req' = [req EXCEPT ![r].stage = "failed"]
  /\ UNCHANGED <<shelf, call, edits, approved, barred>>

-----------------------------------------------------------------------------
Administer ==
  \E i \in Calls : \/ Ask(i) \/ Begin(i) \/ Read(i) \/ CommitImport(i) \/ CommitDraft(i)
                   \/ Conflict(i) \/ Look(i) \/ Create(i) \/ Delete(i) \/ Deleted(i)
                   \/ Insert(i) \/ InsertFails(i) \/ LookChannel(i) \/ Add(i)
Edit ==
  \/ \E n \in Names, m \in Reals : Rename(n, m)
  \/ \E n \in Names, s \in {"on", "off"} : Shelve(n, s)
  \/ \E c \in Channels, s \in {0, 1} : Switch(c, s)
  \/ \E c \in Channels, ms \in Limits : Restrict(c, ms)
Serve ==
  \E r \in Requests : Arrive(r) \/ Quote(r) \/ Route(r) \/ Try(r) \/ GiveUp(r)

Next == Administer \/ Edit \/ Serve
Spec == Init /\ [][Next]_vars

-----------------------------------------------------------------------------
TypeOK ==
  /\ provider \in BOOLEAN /\ edits \in 0..MaxEdits
  /\ mapping \in [Names -> [there : BOOLEAN, status : {"on", "off"}, real : Reals]]
  /\ channel \in [Channels -> [there : BOOLEAN, status : {0, 1, 4}, models : SUBSET Reals]]
  /\ \A b \in bound : b[1] \in Names /\ mapping[b[1]].there /\ channel[b[2]].there
  /\ \A r \in Requests : /\ req[r].stage \in {"new", "arrived", "quoted", "routed",
                                            "done", "failed", "refused"}
                         /\ req[r].route \subseteq Names \X Channels
  /\ approved \subseteq Names /\ barred \in [Requests -> SUBSET (Names \cup Channels)]

(* An online import that succeeded has bound every model it was asked for, *)
(* the ones that somebody else had created before as well                  *)
(* (catalog.service import; no bindChannels in the run).                   *)
ImportedIsBound ==
  \A i \in Calls : call[i].kind = "import" /\ call[i].stage = "done" =>
    channel[Source].there /\ \A p \in call[i].what : <<p[1], Source>> \in bound

(* An import that is refused has left nothing of it behind: whatever is    *)
(* there was there at the start or belongs to a call that succeeded.       *)
NothingHalfImported ==
  provider => \/ \E s \in Stock : s.provider
              \/ \E i \in Calls : call[i].kind = "import" /\ call[i].stage = "done"

(* A draft is not sold before somebody has approved it: a name that is     *)
(* quoted was on the shelf at the start, created there, imported from an   *)
(* online source, or put there by an edit; a draft or a repeated draft of  *)
(* it does not do it.                                                      *)
Asking(r) == req[r].stage \in {"new", "arrived", "refused"}
DraftsAwaitApproval == \A r \in Requests : Asking(r) \/ req[r].name \in approved

(* A dictionary import leaves existing mappings alone, also those that     *)
(* appeared after it had looked.                                           *)
DraftLeavesAlone ==
  \A i \in Calls : call[i].kind = "draft" /\ call[i].stage = "ready" /\ call'[i].stage = "done"
    => \A n \in Names : mapping[n].there => mapping'[n] = mapping[n]

(* What was off when a request arrived, and has not been switched on       *)
(* since, does not serve it: neither the model it names nor a channel,     *)
(* so that quote and route are not older than the request.                 *)
OffStaysOff ==
  \A r \in Requests :
    /\ Asking(r) \/ req[r].name \notin barred[r]
    /\ \A k \in DOMAIN req[r].tried : req[r].tried[k][2] \notin barred[r]

(* Once a binding of a name has succeeded and no other is on its way, the  *)
(* name has no binding that nobody who succeeded asked for                 *)
(* (replaceModelChannels; only bindings in the run).                       *)
OldBindingsAreGone ==
  \A i \in Calls : call[i].kind = "bind" /\ call[i].stage = "done" =>
    \A b \in bound : b[1] = Name(i) =>
      \E j \in Calls : call[j].kind = "bind" /\ call[j].stage = "done" /\ b \in Wanted(j)

-----------------------------------------------------------------------------
(* What the repository says and the code does not do.                      *)

(* models.service.ts:8: binding replaces all bindings of the model.        *)
BindReplaces ==
  [][\A i \in Calls : call[i].kind = "bind" /\ call[i].stage # "done" /\ call'[i].stage = "done"
       => {b \in bound' : b[1] = Name(i)} = Wanted(i)]_vars

(* catalog.service.ts:400: an import that meets an existing mapping        *)
(* confirms the price of the same real model.                              *)
ConfirmedForItsModel ==
  [][\A i \in Calls : call[i].kind = "import" /\ call[i].stage = "ready" /\ call'[i].stage = "done"
       => \A p \in call[i].what : mapping'[p[1]].real = p[2]]_vars

=============================================================================
