----------------------------- MODULE CostLedger -----------------------------
(***************************************************************************)
(* The vendor cost ledger of the local console: the calculator of          *)
(* intake/costs and the endpoints of local_console/api/costs.py through    *)
(* which the console's pages reach it.                                     *)
(*                                                                         *)
(* Every page uses the one calculator of the process.  Its methods do not  *)
(* await, so a request is one step, and it keeps everything in memory.     *)
(* The calculator also changes and deletes what the pages can only add to; *)
(* those operations interleave with the pages' freely.                     *)
(*                                                                         *)
(* Amounts are natural numbers (cents); the totals of a scenario are       *)
(* absent until its first line item.  Of assumptions and snapshots only    *)
(* their number is kept, so that updating an assumption is no step; of the *)
(* frequencies, that one of them is charged once.  Confidence and risk are *)
(* their places in the orders that compare them, the best being 0; a risk  *)
(* that is unknown and one that is uncertain have the same place.          *)
(***************************************************************************)
EXTENDS Integers, Sequences, FiniteSetsExt, SequencesExt

CONSTANTS
  Scenario,    \* bound: scenario ids the process hands out
  Provider,    \* kinds of provider
  Entry,       \* bound: line items anyone enters
  Frequency,   \* how often an item is charged; OneTime is one of them
  OneTime,
  MaxItems,    \* bound: line items of a scenario
  MaxNotes,    \* bound: assumptions of a scenario, and snapshots
  MaxReceipts  \* bound: receipts

Confidence == 0..4  \* VERIFIED .. UNKNOWN
Risk       == 0..3  \* LOW .. UNCERTAIN and UNKNOWN
Unknown    == [confidence |-> 4, risk |-> 3]

ASSUME LedgerConstants ==
  /\ Entry \subseteq [provider : Provider, frequency : Frequency, quantity : Nat,
                      unit_price : Nat, confidence : Confidence, risk : Risk]
  /\ OneTime \in Frequency
  /\ MaxItems \in Nat /\ MaxNotes \in Nat /\ MaxReceipts \in Nat

VARIABLES
  scenarios,  \* _scenarios: NoScenario where it has no entry
  snapshots,  \* how many _snapshots has; no scenario ever holds one
  receipts,   \* _receipts, in the order they were made
  reply       \* the answer to the last request, and whether it changed anything

ledger == <<scenarios, snapshots, receipts, reply>>

Item == [provider : Provider, frequency : Frequency, amount : Nat,
         confidence : Confidence, risk : Risk]

\* The line item of an entry: its total is computed once and kept.
ItemOf(e) ==
  [provider |-> e.provider, frequency |-> e.frequency,
   amount |-> e.quantity * e.unit_price, confidence |-> e.confidence, risk |-> e.risk]

NoScenario == [known |-> FALSE]
NoTotals   == [priced |-> FALSE]
Priced     == [monthly : Nat, oneTime : Nat, all : Nat]

\* What _scenarios and _receipts hold.
ScenarioRow == [items : Seq(Item), assumptions : 0..MaxNotes,
                quality : [confidence : Confidence, risk : Risk],
                totals : Priced \cup {NoTotals}]
Receipt == [scenario : Scenario, totals : Priced, items : Seq(Item),
            providers : Nat, breakdown : [Provider -> Nat]]

Reply(answer, changed) == [answer |-> answer, changed |-> changed]
Replies == [answer : {"none", "created", "updated", "deleted", "refused", "error"},
            changed : BOOLEAN]

LedgerInit ==
  /\ scenarios = [s \in Scenario |-> NoScenario]
  /\ snapshots = 0
  /\ receipts = <<>>
  /\ reply = Reply("none", FALSE)

Known(s) == scenarios[s] # NoScenario

NewScenario ==
  [items |-> <<>>, assumptions |-> 0, quality |-> Unknown, totals |-> NoTotals]

Store(s, sc) == scenarios' = [scenarios EXCEPT ![s] = sc]

\* POST /costs/scenarios
CreateScenario(s) ==
  /\ ~Known(s)
  /\ Store(s, NewScenario)
  /\ reply' = Reply("created", TRUE)
  /\ UNCHANGED <<snapshots, receipts>>

\* delete_scenario; the receipts made of it stay.
DeleteScenario(s) ==
  /\ Known(s)
  /\ Store(s, NoScenario)
  /\ reply' = Reply("deleted", TRUE)
  /\ UNCHANGED <<snapshots, receipts>>

\* A request for a scenario the process does not know, or with a provider, a
\* frequency, a confidence, a risk or a kind of source that is none, as those
\* of the example that costs.html loads, is answered with 400.
Refuse ==
  /\ reply' = Reply("refused", FALSE)
  /\ UNCHANGED <<scenarios, snapshots, receipts>>

-----------------------------------------------------------------------------
(* Line items and totals                                                   *)

Counted(totals, item) ==
  [monthly |-> totals.monthly + IF item.frequency = OneTime THEN 0 ELSE item.amount,
   oneTime |-> totals.oneTime + IF item.frequency = OneTime THEN item.amount ELSE 0,
   all     |-> totals.all + item.amount]

Zero == [monthly |-> 0, oneTime |-> 0, all |-> 0]

Worse(quality, item) ==
  [confidence |-> Max({quality.confidence, item.confidence}),
   risk       |-> Max({quality.risk, item.risk})]

\* _recalculate_scenario_quality: the worst of the items is sought from what
\* the scenario has, which is the worst there is from the start.
Quality(sc) ==
  IF sc.items = <<>> THEN Unknown ELSE FoldLeft(Worse, sc.quality, sc.items)

\* Mutant: the loop starts from the totals the scenario has.
Recalculated_Carried(sc) ==
  [sc EXCEPT !.totals = FoldLeft(Counted, IF @ = NoTotals THEN Zero ELSE @, sc.items),
             !.quality = Quality(sc)]

\* _recalculate_scenario_totals
Recalculated(sc) ==
  [sc EXCEPT !.totals = FoldLeft(Counted, Zero, sc.items), !.quality = Quality(sc)]

\* How every change of the line items ends.
ChangeItems(s, items, answer) ==
  /\ Store(s, Recalculated([scenarios[s] EXCEPT !.items = items]))
  /\ reply' = Reply(answer, TRUE)
  /\ UNCHANGED <<snapshots, receipts>>

\* The item is in the scenario, and its totals are new, when the endpoint puts
\* the answer together, which fails: it asks the item for a created_at.
AddLineItem(s, e) ==
  /\ Known(s) /\ Len(scenarios[s].items) < MaxItems
  /\ ChangeItems(s, Append(scenarios[s].items, ItemOf(e)), "error")

UpdateLineItem(s, i, e) ==
  /\ Known(s) /\ i \in DOMAIN scenarios[s].items
  /\ ChangeItems(s, [scenarios[s].items EXCEPT ![i] = ItemOf(e)], "updated")

\* The items but for the one with the id, which none may have.
Without(items, i) == IF i \in DOMAIN items THEN RemoveAt(items, i) ELSE items

\* The totals are counted again even if no item went: a scenario that never had
\* an item has totals after it.
DeleteLineItem(s, i) ==
  /\ Known(s)
  /\ ChangeItems(s, Without(scenarios[s].items, i), "deleted")

\* POST /costs/scenarios/{id}/line-items
PostLineItem(s) == Refuse \/ \E e \in Entry : AddLineItem(s, e)

-----------------------------------------------------------------------------
(* Assumptions and snapshots                                               *)

AddAssumption(s) ==
  /\ Known(s) /\ scenarios[s].assumptions < MaxNotes
  /\ Store(s, [scenarios[s] EXCEPT !.assumptions = @ + 1])
  /\ reply' = Reply("created", TRUE)
  /\ UNCHANGED <<snapshots, receipts>>

\* With an id that no assumption has, nothing changes.
DeleteAssumption(s) ==
  /\ Known(s) /\ scenarios[s].assumptions > 0
  /\ Store(s, [scenarios[s] EXCEPT !.assumptions = @ - 1])
  /\ reply' = Reply("deleted", TRUE)
  /\ UNCHANGED <<snapshots, receipts>>

\* POST /costs/scenarios/{id}/assumptions
PostAssumption(s) == Refuse \/ AddAssumption(s)

AddSnapshot ==
  /\ snapshots < MaxNotes
  /\ snapshots' = snapshots + 1
  /\ reply' = Reply("created", TRUE)
  /\ UNCHANGED <<scenarios, receipts>>

\* POST /costs/snapshots
PostSnapshot == Refuse \/ AddSnapshot

-----------------------------------------------------------------------------
(* Receipts                                                                *)

\* Mutant: a provider's entry is replaced, not added to.
CountedBy_Last(breakdown, item) == [breakdown EXCEPT ![item.provider] = item.amount]

CountedBy(breakdown, item) == [breakdown EXCEPT ![item.provider] = @ + item.amount]

Breakdown(items) == FoldLeft(CountedBy, [p \in Provider |-> 0], items)

\* items is history: the line items the scenario had.
ReceiptOf(s) ==
  LET sc == scenarios[s] IN
  [scenario |-> s, totals |-> sc.totals, items |-> sc.items,
   providers |-> sc.totals.monthly + sc.totals.oneTime,
   breakdown |-> Breakdown(sc.items)]

\* Mutant: a scenario without totals gets a receipt without them.
GenerateReceipt_Unpriced(s) ==
  /\ Known(s) /\ Len(receipts) < MaxReceipts
  /\ receipts' = Append(receipts, [scenario |-> s, totals |-> scenarios[s].totals,
                                   items |-> scenarios[s].items, providers |-> 0,
                                   breakdown |-> Breakdown(scenarios[s].items)])
  /\ reply' = Reply("created", TRUE)
  /\ UNCHANGED <<scenarios, snapshots>>

GenerateReceipt(s) ==
  /\ Known(s) /\ scenarios[s].totals # NoTotals
  /\ Len(receipts) < MaxReceipts
  /\ receipts' = Append(receipts, ReceiptOf(s))
  /\ reply' = Reply("created", TRUE)
  /\ UNCHANGED <<scenarios, snapshots>>

\* The same for a scenario without totals, which cannot be added up.
ReceiptFails(s) ==
  /\ Known(s) /\ scenarios[s].totals = NoTotals
  /\ reply' = Reply("error", FALSE)
  /\ UNCHANGED <<scenarios, snapshots, receipts>>

\* POST /costs/receipts
PostReceipt(s) == Refuse \/ GenerateReceipt(s) \/ ReceiptFails(s)

\* The process ends and another one starts.
Restart ==
  /\ scenarios' = [s \in Scenario |-> NoScenario]
  /\ snapshots' = 0
  /\ receipts' = <<>>
  /\ reply' = Reply("none", FALSE)

LedgerNext ==
  \/ \E s \in Scenario :
       \/ CreateScenario(s) \/ PostLineItem(s) \/ PostAssumption(s) \/ PostReceipt(s)
       \/ DeleteScenario(s) \/ DeleteAssumption(s)
       \/ \E i \in 1..MaxItems :
            DeleteLineItem(s, i) \/ \E e \in Entry : UpdateLineItem(s, i, e)
  \/ PostSnapshot \/ Restart

LedgerSpec == LedgerInit /\ [][LedgerNext]_ledger

-----------------------------------------------------------------------------
(* Properties                                                              *)

\* Types.  A receipt has totals: no scenario without them gets one.
LedgerTypeOK ==
  /\ scenarios \in [Scenario -> ScenarioRow \cup {NoScenario}]
  /\ snapshots \in 0..MaxNotes
  /\ receipts \in Seq(Receipt)
  /\ reply \in Replies

\* What the items with P cost together.
Cost(items, P(_)) ==
  MapThenSumSet(LAMBDA i : items[i].amount, {i \in DOMAIN items : P(items[i])})

\* The totals a list of items should have.
TrueTotals(items) ==
  [monthly |-> Cost(items, LAMBDA item : item.frequency # OneTime),
   oneTime |-> Cost(items, LAMBDA item : item.frequency = OneTime),
   all     |-> Cost(items, LAMBDA item : TRUE)]

\* A scenario has totals as soon as it has an item, and they are those of its
\* items; it never looks better than any of them.
IsCounted(sc) ==
  /\ sc.items # <<>> => sc.totals # NoTotals
  /\ sc.totals # NoTotals => sc.totals = TrueTotals(sc.items)
  /\ \A i \in DOMAIN sc.items :
       /\ sc.quality.confidence >= sc.items[i].confidence
       /\ sc.quality.risk >= sc.items[i].risk

\* "Totals auto-calculated": however line items are added, replaced and
\* deleted, a scenario's totals count each item it has now once, on the right
\* side of monthly and one-time, and stay, at zero, when the last is deleted.
TotalsMatchItems == \A s \in Scenario : Known(s) => IsCounted(scenarios[s])

\* The receipt states the totals of its items, and its breakdown by provider
\* accounts for all that it calls provider costs.
IsSnapshot(r) ==
  /\ r.totals = TrueTotals(r.items)
  /\ r.providers = r.totals.all
  /\ \A p \in Provider :
       r.breakdown[p] = Cost(r.items, LAMBDA item : item.provider = p)

\* A receipt is the scenario as it was: it states the totals of the items of
\* that moment, whatever was added, replaced or deleted since, the scenario
\* itself included.
ReceiptsAreSnapshots == \A i \in DOMAIN receipts : IsSnapshot(receipts[i])

\* "CostEstimateLineItem.created_at defaults to utc_now()": a request that
\* changed the ledger is not answered with an error.
ChangeIsAnswered == reply.changed => reply.answer # "error"

=============================================================================
