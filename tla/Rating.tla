------------------------------- MODULE Rating -------------------------------
(***************************************************************************)
(* The price of one request: administrators change the rows of the model   *)
(* mappings and of the rate cards while a request reads them one statement *)
(* at a time (build-quote.ts), is held for the most it may cost            *)
(* (calculate.ts, pricing.ts), is answered by one of the candidates of its *)
(* quote, and is settled from a receipt that carries the quoted prices     *)
(* (receipt.ts, amounts.ts).                                               *)
(*                                                                         *)
(* Money is counted in whole units of 1 / (PerMillion * One) yuan, and One *)
(* is the coefficient 1.0, so that nothing is rounded, as in the code.     *)
(***************************************************************************)
EXTENDS Integers, Sequences, SequencesExt, FiniteSetsExt

CONSTANTS Models, Main, Fallbacks, Cards, Admins, None,
          Rows,         \* the mapping rows at the start
          Patches,      \* what an administrator may ask to change
          Imports,      \* the prices a catalogue import may confirm
          Coefficients, \* the global coefficients a card may be given
          ModelRows, GroupRows, \* the coefficient rows nobody edits, per card
          PerMillion, One, Limit,
          InputBound, OutputCap, Asked, Key, \* what the request declares
          Usages,       \* what an upstream may report
          MaxChanges    \* bound on the changes of the administrators

RatingAssumption ==
  /\ Main \in Models /\ Fallbacks \in Seq(Models)
  /\ {PerMillion, One, Limit} \subseteq Nat \ {0}
  /\ {InputBound, OutputCap, Asked, MaxChanges} \subseteq Nat

VARIABLES model, card, bound, admin, changes, req,
          had           \* the cards the user had since the request began, and what they gave
vars == <<model, card, bound, admin, changes, req, had>>

Gone == [kind |-> "gone"]
Idle == [kind |-> "idle"]
Prices == {"in", "out", "hit", "write", "unit"}

Patched(row, patch) ==
  [f \in DOMAIN row |-> IF f \in DOMAIN patch THEN patch[f] ELSE row[f]]

-----------------------------------------------------------------------------
(* The coefficient of a mapping: model before group before global.         *)

pickCoefficient(snapshot, m) ==
  CASE snapshot = Gone -> One
    [] snapshot # Gone /\ snapshot.model[m] # None -> snapshot.model[m]
    [] snapshot # Gone /\ snapshot.model[m] = None /\ snapshot.group[m] # None -> snapshot.group[m]
    [] OTHER -> IF snapshot.global = None THEN One ELSE snapshot.global

(* The unit price: the flat price, or the variant the request's key names. *)
FlatPrice(row) == IF row.param = None THEN row.unit ELSE row.param
settleUnitPrice(row) ==
  IF Key \in DOMAIN row.table THEN row.table[Key] ELSE FlatPrice(row)

(* The units the request declares, lifted to the floor of the mapping.     *)
unitsUpperBoundOf(row) == IF row.by = "token" THEN 0 ELSE Max({Asked, row.floor})

Candidate(m, row, snapshot) ==
  [mapping |-> m, in |-> row.in, out |-> row.out, hit |-> row.hit, write |-> row.write,
   unit |-> settleUnitPrice(row), units |-> unitsUpperBoundOf(row),
   coefficient |-> pickCoefficient(snapshot, m)]

-----------------------------------------------------------------------------
(* The two formulas. *)

NonNeg(n) == Max({n, 0})

(* calcAmount: three parts of the input that exclude one another.          *)
calcAmount(c, u, coefficient) ==
  LET hit == Min({NonNeg(u.hit), u.in})
      write == Min({NonNeg(u.write), u.in - hit})
      plain == u.in - hit - write
      writePrice == IF c.write > 0 THEN c.write ELSE c.in
      tokens == c.in * plain + c.hit * hit + writePrice * write + c.out * u.out
  IN NonNeg((tokens + c.unit * u.units * PerMillion) * NonNeg(coefficient))

(* estimateMaxCost, as calculateRequired calls it: it does not pass the price of a write. *)
estimateMaxCost(c) ==
  (Max({c.in, c.hit}) * InputBound + c.out * OutputCap + c.unit * c.units * PerMillion) * c.coefficient

Refused == -1

Charged(candidates) ==
  \E i \in DOMAIN candidates :
    \/ candidates[i].in > 0 \/ candidates[i].out > 0
    \/ candidates[i].hit > 0 \/ candidates[i].unit > 0

(* calculateRequired: the dearest candidate, refused and never cut down when it passes the limit. *)
calculateRequired(candidates, free) ==
  LET dearest == Max({estimateMaxCost(candidates[i]) : i \in DOMAIN candidates})
  IN CASE free -> IF Charged(candidates) THEN Refused ELSE 0
       [] ~free /\ \E i \in DOMAIN candidates : candidates[i].coefficient <= 0 -> Refused
       [] ~free /\ dearest = 0 -> Refused
       [] OTHER -> IF dearest > Limit THEN Refused ELSE dearest

-----------------------------------------------------------------------------
(* Administrators *)

NoPrice(row) == \A f \in Prices : row[f] = 0
freePriceConsistent(row) == ~row.free \/ NoPrice(row)
isFreeByPrice(p) == p.in = 0 /\ p.out = 0 /\ p.hit = 0

Change == changes < MaxChanges /\ changes' = changes + 1

(* update reads the row, judges the merged row, and writes only the patch.  *)
BeginUpdate(a, m, patch) ==
  /\ admin[a] = Idle /\ Change
  /\ freePriceConsistent(Patched(model[m], patch))
  /\ admin' = [admin EXCEPT ![a] = [kind |-> "update", model |-> m, patch |-> patch]]
  /\ UNCHANGED <<model, card, bound, req>>

FinishUpdate(a) ==
  /\ admin[a] # Idle
  /\ model' = [model EXCEPT ![admin[a].model] = Patched(@, admin[a].patch)]
  /\ admin' = [admin EXCEPT ![a] = Idle]
  /\ UNCHANGED <<card, bound, changes, req>>

(* A catalogue import of a known model: its token prices, and whether they make it free. *)
Import(m, prices) ==
  /\ Change
  /\ model' = [model EXCEPT ![m] = Patched(Patched(@, prices), [free |-> isFreeByPrice(prices)])]
  /\ UNCHANGED <<card, bound, admin, req>>

Retire(m) ==
  /\ Change
  /\ model' = [model EXCEPT ![m].on = FALSE]
  /\ UNCHANGED <<card, bound, admin, req>>

UpdateCard(c, on, coefficient) ==
  /\ card[c] # Gone /\ Change
  /\ card' = [card EXCEPT ![c].on = on, ![c].global = coefficient]
  /\ UNCHANGED <<model, bound, admin, req>>

(* The user is given another card, one that is there and enabled, or none. *)
Bind(c) ==
  /\ c # None => card[c] # Gone /\ card[c].on
  /\ Change
  /\ bound' = c
  /\ UNCHANGED <<model, card, admin, req>>

(* A card nobody has is deleted: the foreign key of the users refuses it at the end too. *)
RemoveCard(c) ==
  /\ card[c] # Gone /\ bound # c /\ Change
  /\ card' = [card EXCEPT ![c] = Gone]
  /\ UNCHANGED <<model, bound, admin, req>>

-----------------------------------------------------------------------------
(* The request *)

Ask(fields) == req' = Patched(req, fields)

(* What a card says of the mappings. *)
Snapshot(rows, c) ==
  IF c = None \/ rows[c] = Gone THEN Gone
  ELSE [global |-> rows[c].global, model |-> ModelRows[c], group |-> GroupRows[c]]

(* What the user is promised: the most particular of the coefficients of the card. *)
IsGiven(coefficient) == coefficient # None
Promised(rows, c, m) ==
  LET given == IF c = None THEN <<>>
               ELSE SelectSeq(<<ModelRows[c][m], GroupRows[c][m], rows[c].global>>, IsGiven)
  IN IF given = <<>> THEN One ELSE Head(given)
Given(rows, cards) ==
  LET there == {c \in cards : c = None \/ rows[c] # Gone}
  IN [m \in Models |-> {Promised(rows, c, m) : c \in there}]

Refuse == Ask([phase |-> "refused"])

ReadMain ==
  /\ req.phase = "main"
  /\ IF model[Main].on
     THEN Ask([phase |-> "fallbacks", chain |-> <<[mapping |-> Main, row |-> model[Main]]>>])
     ELSE Refuse
  /\ UNCHANGED <<model, card, bound, admin, changes>>

OnShelf(m) == model[m].on

ReadFallbacks ==
  /\ req.phase = "fallbacks"
  /\ LET found == SelectSeq(Fallbacks, OnShelf)
         rest == [i \in DOMAIN found |-> [mapping |-> found[i], row |-> model[found[i]]]]
     IN Ask([phase |-> "user", chain |-> req.chain \o rest])
  /\ UNCHANGED <<model, card, bound, admin, changes>>

ReadUser ==
  /\ req.phase = "user"
  /\ Ask([phase |-> IF bound = None THEN "quote" ELSE "card", card |-> bound])
  /\ UNCHANGED <<model, card, bound, admin, changes>>

ReadCard ==
  /\ req.phase = "card"
  /\ CASE card[req.card] = Gone -> Ask([phase |-> "quote", deleted |-> TRUE])
       [] card[req.card] # Gone /\ card[req.card].on -> Ask([phase |-> "rows"])
       [] OTHER -> Refuse
  /\ UNCHANGED <<model, card, bound, admin, changes>>

(* The rows of a card that went between the two statements are not there. *)
ReadRows ==
  /\ req.phase = "rows"
  /\ Ask([phase |-> "quote", snapshot |-> Snapshot(card, req.card), deleted |-> card[req.card] = Gone])
  /\ UNCHANGED <<model, card, bound, admin, changes>>

Quote(chain, snapshot) ==
  [i \in DOMAIN chain |-> Candidate(chain[i].mapping, chain[i].row, snapshot)]

Authorize ==
  /\ req.phase = "quote"
  /\ LET quote == Quote(req.chain, req.snapshot)
         free == \A i \in DOMAIN req.chain : req.chain[i].row.free
         required == calculateRequired(quote, free)
     IN IF required = Refused THEN Refuse
        ELSE Ask([phase |-> "held", quote |-> quote, free |-> free, required |-> required])
  /\ UNCHANGED <<model, card, bound, admin, changes>>

(* The receipt: the prices of the candidate that answered, the usage it reported, *)
(* and the units of the answer, which is priced by token or by unit.              *)
RepricedReceipt(c, u) ==
  Patched(c, [in |-> model[c.mapping].in, out |-> model[c.mapping].out])
buildReceipt(c, u) == c

Answer(i, u) ==
  /\ req.phase = "held"
  /\ i \in DOMAIN req.quote
  /\ Ask([phase |-> "answered", receipt |-> buildReceipt(req.quote[i], u),
          usage |-> Patched(u, IF req.quote[i].units = 0 THEN [units |-> 0] ELSE [units |-> u.units])])
  /\ UNCHANGED <<model, card, bound, admin, changes>>

validateReceipt(quote, receipt, u) ==
  /\ u.hit <= u.in
  /\ \E i \in DOMAIN quote :
       \A f \in {"mapping", "in", "out", "hit", "unit", "coefficient"} : quote[i][f] = receipt[f]

Settle ==
  /\ req.phase = "answered"
  /\ IF validateReceipt(req.quote, req.receipt, req.usage)
     THEN Ask([phase |-> "settled",
               amount |-> calcAmount(req.receipt, req.usage, req.receipt.coefficient),
               cost |-> calcAmount(req.receipt, req.usage, One)])
     ELSE Ask([phase |-> "dead"])
  /\ UNCHANGED <<model, card, bound, admin, changes>>

-----------------------------------------------------------------------------
Asking ==
  [phase |-> "main", chain |-> <<>>, card |-> None, snapshot |-> Gone, deleted |-> FALSE,
   quote |-> <<>>, free |-> FALSE, required |-> 0, receipt |-> None, usage |-> None,
   amount |-> 0, cost |-> 0]

Init ==
  /\ model = Rows
  /\ card = [c \in Cards |-> [on |-> TRUE, global |-> Max(Coefficients)]]
  /\ bound \in Cards \cup {None}
  /\ admin = [a \in Admins |-> Idle]
  /\ changes = 0
  /\ req = Asking
  /\ had = [cards |-> {bound}, given |-> Given(card, {bound})]

Step ==
  \/ \E a \in Admins, m \in Models, p \in Patches : BeginUpdate(a, m, p)
  \/ \E a \in Admins : FinishUpdate(a)
  \/ \E m \in Models, p \in Imports : Import(m, p)
  \/ \E m \in Models : Retire(m)
  \/ \E c \in Cards, on \in BOOLEAN, k \in Coefficients : UpdateCard(c, on, k)
  \/ \E c \in Cards \cup {None} : Bind(c)
  \/ \E c \in Cards : RemoveCard(c)
  \/ ReadMain \/ ReadFallbacks \/ ReadUser \/ ReadCard \/ ReadRows \/ Authorize
  \/ \E i \in 1..(1 + Len(Fallbacks)), u \in Usages : Answer(i, u)
  \/ Settle

Next ==
  /\ Step
  /\ had' = IF req.phase \in {"main", "fallbacks", "user", "card", "rows"}
            THEN LET cards == had.cards \cup {bound'}
                 IN [cards |-> cards,
                     given |-> [m \in Models |-> had.given[m] \cup Given(card', cards)[m]]]
            ELSE had

Spec == Init /\ [][Next]_vars

-----------------------------------------------------------------------------
(* Properties *)

Phases == {"main", "fallbacks", "user", "card", "rows", "quote", "held", "refused",
           "answered", "settled", "dead"}

(* The rows keep non-negative prices (the CHECK of model_mappings), a request is in one of *)
(* its phases, and what it holds, pays and costs is never negative.                        *)
TypeOK ==
  /\ \A m \in Models : \A f \in Prices : model[m][f] >= 0
  /\ bound \in Cards \cup {None} /\ (bound # None => card[bound] # Gone)
  /\ req.phase \in Phases
  /\ {req.required, req.amount, req.cost} \subseteq Nat
  /\ req.phase \in {"held", "answered", "settled"} => req.required <= Limit

Within(u, c) == u.in <= InputBound /\ u.out <= OutputCap /\ u.units <= c.units

(* What writing to the cache costs above the dearer of the two input prices, which the      *)
(* estimate goes by.                                                                        *)
WriteSurplus(c, u) ==
  NonNeg(c.write - Max({c.in, c.hit})) * Min({NonNeg(u.write), u.in}) * c.coefficient

(* Whichever candidate answers, what is settled was held, for a usage within what the       *)
(* request declared and but for the surplus of what is written to the cache.                *)
Declared == req.phase = "settled" /\ Within(req.usage, req.receipt)
HoldCoversButForWrites ==
  Declared /\ ~req.free => req.amount <= req.required + WriteSurplus(req.receipt, req.usage)

(* Reference: each token of the input has one price, that of the hit, the write or the      *)
(* plain token it is, and a write without a price of its own is a plain token.              *)
PriceOfToken(c, u, t, unpriced) ==
  CASE t <= u.hit -> c.hit
    [] t > u.hit /\ t <= u.hit + u.write -> IF c.write > 0 THEN c.write ELSE unpriced
    [] OTHER -> c.in
Reference(c, u, coefficient, unpriced) ==
  LET PriceOf(t) == PriceOfToken(c, u, t, unpriced)
  IN (MapThenSumSet(PriceOf, 1..u.in) + c.out * u.out + c.unit * u.units * PerMillion) * coefficient

(* The user and the channel are charged every token of the answer once, the user with the   *)
(* coefficient, the channel without.                                                        *)
EveryTokenPricedOnce ==
  req.phase = "settled" =>
    /\ req.amount = Reference(req.receipt, req.usage, req.receipt.coefficient, req.receipt.in)
    /\ req.cost = Reference(req.receipt, req.usage, One, req.receipt.in)

(* Changing prices while a request is under way never makes its receipt a poisoned one:     *)
(* only a usage that contradicts itself does.                                               *)
QuotedPricesSettle == req.phase = "dead" => req.usage.hit > req.usage.in

(* A quote that holds nothing settles nothing but what is written to the cache.             *)
FreeButForWrites ==
  req.phase = "settled" /\ req.free => req.amount = WriteSurplus(req.receipt, req.usage)

(* The coefficient of a candidate is one that a card the user had since the request began   *)
(* gave meanwhile, by the rows of the model, the group and the card in this order. A card   *)
(* that is deleted between the statements that read it gives 1.                             *)
CoefficientInEffect ==
  \A i \in DOMAIN req.quote :
    \/ req.quote[i].coefficient \in had.given[req.quote[i].mapping]
    \/ req.deleted /\ req.quote[i].coefficient = One

(* Claims that the code does not keep: the price of a write is passed neither to the        *)
(* estimate nor to the check of a free quote.                                               *)

(* pricing.ts:82: the estimate takes the dearest price of the input, writes included.       *)
HoldCovers == Declared /\ ~req.free => req.amount <= req.required
(* calculate.ts:5: a free quote whose settlement would charge is refused.                   *)
FreeCostsNothing == req.phase = "settled" /\ req.free => req.amount = 0
=============================================================================
