--------------------------------- MODULE Fx ---------------------------------
(***************************************************************************)
(* The exchange rate (admin-api fx.service.ts, repository fx.repo.ts): a   *)
(* table of rates that only grows, a configuration row that says whether a *)
(* manual rate is in force and how large the margin is, the calls of the   *)
(* administrators, each a sequence of single statements, and the gateways, *)
(* which keep what they read for a while.                                  *)
(***************************************************************************)
EXTENDS Integers, Sequences, FiniteSetsExt, TLC

CONSTANTS Calls,      \* the calls under way at the same time
          Gateways, None,
          Values,     \* the rates an administrator or the source may give
          Margins,
          Wants,      \* the operations called
          Fresh,      \* FX_AUTO_TTL_MS
          Kept,       \* FX_CACHE_MS
          MaxRows, MaxTime, MaxCalls \* bounds: rows, time and the calls made

FxAssumption == {Fresh, Kept, MaxRows, MaxTime, MaxCalls} \subseteq Nat /\ None \notin Calls

VARIABLES rates,   \* fx_rates
          config,  \* the row of system_configs
          call, cache, loading, made, now,
          seen,    \* whether an override was put in force and nobody asked to clear it since:
                  \* "none", "raced" (another call had read the configuration), "alone"
          newest   \* the newest row of either mode, at every moment
vars == <<rates, config, call, cache, loading, made, now, seen, newest>>

Idle == [pc |-> "idle"]
Empty == [mode |-> "auto", margin |-> 0, override |-> None, fetched |-> None]

Merge(old, next) == [f \in DOMAIN old |-> IF f \in DOMAIN next THEN next[f] ELSE old[f]]

-----------------------------------------------------------------------------
(* The rate in force: the last manual row while the configuration says so, *)
(* else the last automatic one.                                            *)

LastOf(mode) ==
  LET ids == {i \in DOMAIN rates : rates[i].mode = mode}
  IN IF ids = {} THEN None ELSE Max(ids)

Manual(c) == c.mode = "override" /\ c.override # None

(* c is the configuration a statement read before the one that reads the row. *)
InForce(c) ==
  IF Manual(c) /\ LastOf("override") # None THEN LastOf("override") ELSE LastOf("auto")

applyBuffer(base, margin) == base * (100 + margin)

-----------------------------------------------------------------------------
(* The calls *)

Goto(p, fields) == call' = [call EXCEPT ![p] = fields @@ @]

Stale(fetched) == fetched = None \/ now - fetched > Fresh
StillFresh(fetched) == fetched # None /\ now - fetched < Fresh

Ended == [pc |-> "answer"]

Start(p, want) ==
  /\ call[p] = Idle /\ made < MaxCalls
  /\ made' = made + 1
  /\ call' = [call EXCEPT ![p] = [want |-> want, next |-> <<>>, read |-> Empty, base |-> None, shown |-> None,
       pc |-> CASE want = "state" -> "look" [] want = "refresh" -> "recheck" [] want = "force" -> "fetch"
                [] want = "override" -> "insert" [] OTHER -> "merge"]]
  /\ seen' = IF want = "clear" THEN "none" ELSE seen
  /\ UNCHANGED <<rates, config, cache, loading, now>>

Does(p, pc) == call[p] # Idle /\ call[p].pc = pc

(* loadCurrent reads the configuration, then the row; state starts with it and every call ends with it. *)
LoadMode(p) ==
  /\ Does(p, "look") \/ Does(p, "show")
  /\ Goto(p, [pc |-> IF call[p].pc = "look" THEN "row" ELSE "shownRow", mode |-> config])
  /\ UNCHANGED <<rates, config, cache, loading, made, now, seen>>

Look(p) ==
  /\ Does(p, "row")
  /\ Goto(p, [pc |-> "judge", base |-> InForce(call[p].mode)])
  /\ UNCHANGED <<rates, config, cache, loading, made, now, seen>>

Judge(p) ==
  /\ Does(p, "judge")
  /\ Goto(p, [pc |-> CASE config.mode = "auto" /\ call[p].base = None -> "fetch"
                       [] config.mode = "auto" /\ call[p].base # None /\ Stale(config.fetched) -> "recheck"
                       [] OTHER -> "answer"])
  /\ UNCHANGED <<rates, config, cache, loading, made, now, seen>>

(* doRefresh without force: a row that is fresh is left alone. *)
Recheck(p) ==
  /\ Does(p, "recheck")
  /\ Goto(p, IF StillFresh(config.fetched) THEN Ended ELSE [pc |-> "fetch"])
  /\ UNCHANGED <<rates, config, cache, loading, made, now, seen>>

(* The source gives a rate or fails; only the administrator who asked for it is told.  *)
Fetch(p) ==
  /\ Does(p, "fetch")
  /\ \/ \E v \in Values : Goto(p, [pc |-> "insert", base |-> v])
     \/ Goto(p, IF call[p].want \in {"state", "clear"} THEN Ended ELSE [pc |-> "failed"])
  /\ UNCHANGED <<rates, config, cache, loading, made, now, seen>>

Origin(p) == IF call[p].want = "override" THEN "override" ELSE "auto"
Given(p) == IF call[p].want = "override" THEN Values ELSE {call[p].base}

Insert(p) ==
  /\ Does(p, "insert") /\ Len(rates) < MaxRows
  /\ \E v \in Given(p) :
       /\ rates' = Append(rates, [mode |-> Origin(p), rate |-> v])
       /\ Goto(p, [pc |-> "merge", base |-> v])
  /\ UNCHANGED <<config, cache, loading, made, now, seen>>

(* What a call writes into the configuration. *)
Written(p) ==
  CASE call[p].want = "override" -> {[mode |-> "override", override |-> call[p].base, fetched |-> now]}
    [] call[p].want = "clear" /\ call[p].base = None ->
         {[mode |-> "auto", override |-> None, fetched |-> None]}
    [] call[p].want = "margin" -> {[margin |-> m] : m \in Margins}
    [] OTHER -> {[fetched |-> now]}

(* writeConfig: read the row and merge, in one statement; write all of it, in another. *)
ReadConfig(p) ==
  /\ Does(p, "merge")
  /\ \E w \in Written(p) : Goto(p, [pc |-> "write", read |-> config, next |-> w])
  /\ UNCHANGED <<rates, config, cache, loading, made, now, seen>>

(* A cleared override is fetched for at once. *)
WriteConfig(p) ==
  /\ Does(p, "write")
  /\ config' = Merge(call[p].read, call[p].next)
  /\ Goto(p, IF call[p].want = "clear" /\ call[p].base = None THEN [pc |-> "fetch"] ELSE Ended)
  /\ LET others == {call[q] : q \in {q \in Calls \ {p} : call[q] # Idle}} IN
     seen' = CASE call[p].want # "override" \/ \E c \in others : c.want = "clear" -> seen
               [] seen = "alone" \/ \A c \in others : c.pc # "write" -> "alone"
               [] OTHER -> "raced"
  /\ UNCHANGED <<rates, cache, loading, made, now>>

(* currentState: the configuration, then the row in force. *)
Conclude(p) ==
  /\ Does(p, "answer")
  /\ Goto(p, [pc |-> "show", read |-> config])
  /\ UNCHANGED <<rates, config, cache, loading, made, now, seen>>

Effective(row, c) ==
  IF row = None THEN None
  ELSE IF c.mode = "override" THEN rates[row].rate * 100 ELSE applyBuffer(rates[row].rate, c.margin)

Show(p) ==
  /\ Does(p, "shownRow")
  /\ LET row == InForce(call[p].mode)
     IN Goto(p, [pc |-> "done", shown |-> [row |-> row, effective |-> Effective(row, call[p].read)]])
  /\ UNCHANGED <<rates, config, cache, loading, made, now, seen>>

End(p) ==
  /\ call[p] # Idle /\ call[p].pc \in {"done", "failed"}
  /\ call' = [call EXCEPT ![p] = Idle]
  /\ UNCHANGED <<rates, config, cache, loading, made, now, seen>>

-----------------------------------------------------------------------------
(* The gateways read for a receipt: from what they keep, or the row in force. *)

Keep(g) == cache[g] # None /\ now - cache[g].at < Kept

LoadForGateway(g) ==
  /\ ~Keep(g) /\ loading[g] = None
  /\ loading' = [loading EXCEPT ![g] = config]
  /\ UNCHANGED <<rates, config, call, cache, made, now, seen>>

Snapshot(g) ==
  /\ loading[g] # None
  /\ cache' = [cache EXCEPT ![g] = [at |-> now, row |-> InForce(loading[g])]]
  /\ loading' = [loading EXCEPT ![g] = None]
  /\ UNCHANGED <<rates, config, call, made, now, seen>>

Tick ==
  /\ now < MaxTime
  /\ now' = now + 1
  /\ UNCHANGED <<rates, config, call, cache, loading, made, seen>>

-----------------------------------------------------------------------------
Init ==
  /\ rates = <<>> /\ config = Empty
  /\ call = [p \in Calls |-> Idle]
  /\ cache = [g \in Gateways |-> None] /\ loading = [g \in Gateways |-> None]
  /\ made = 0 /\ now = 0
  /\ seen = "none"
  /\ newest = [t \in 0..MaxTime |-> {None}]

Step ==
  \/ \E p \in Calls, w \in Wants : Start(p, w)
  \/ \E p \in Calls :
       \/ LoadMode(p) \/ Look(p) \/ Judge(p) \/ Recheck(p) \/ Fetch(p) \/ Insert(p) \/ ReadConfig(p)
       \/ WriteConfig(p) \/ Conclude(p) \/ Show(p) \/ End(p)
  \/ \E g \in Gateways : LoadForGateway(g) \/ Snapshot(g)
  \/ Tick

Next ==
  /\ Step
  /\ newest' = [newest EXCEPT ![now'] = @ \cup {LastOf("auto")', LastOf("override")'}]

Spec == Init /\ [][Next]_vars

-----------------------------------------------------------------------------
(* Properties *)

(* A manual rate is in force only with a row that carries it; a call in a step has what it reads. *)
TypeOK ==
  /\ config.mode \in {"auto", "override"} /\ config.margin \in Margins \cup {0}
  /\ seen \in {"none", "raced", "alone"}
  /\ config.mode = "override" => config.override # None /\ LastOf("override") # None
  /\ \A p \in Calls : call[p] # Idle /\ call[p].pc = "done" =>
       (call[p].shown.row # None <=> call[p].shown.effective # None)

(* An override that was put in force stays until somebody clears it, whatever refreshes and *)
(* other changes are under way, but for calls that had read the configuration and had it to *)
(* write when the override was written.                                                     *)
OverrideStaysUnlessRaced == seen = "alone" => config.mode = "override"

(* A gateway puts into its receipts a row that was the newest of its kind no longer ago than *)
(* it keeps what it read.                                                                    *)
ReceiptsCarryRecentRates ==
  \A g \in Gateways : Keep(g) =>
    \E t \in 0..now : now - t < Kept /\ cache[g].row \in newest[t]

(* Claims that the code does not keep when two calls interleave.                            *)

(* fx.service.ts:60: an override is in force until it is cleared.                           *)
OverrideStays == seen # "none" => config.mode = "override"
(* fx.service.ts:8: the margin is not put on a manual rate.                                 *)
MarginNotOnOverride ==
  \A p \in Calls :
    (call[p] # Idle /\ call[p].pc = "done" /\ call[p].shown.row # None
       /\ rates[call[p].shown.row].mode = "override")
      => call[p].shown.effective = rates[call[p].shown.row].rate * 100
=============================================================================
