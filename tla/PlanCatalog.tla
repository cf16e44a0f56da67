----------------------------- MODULE PlanCatalog -----------------------------
(***************************************************************************)
(* The catalog of plans as a copy of the payment gateway's prices: catalog *)
(* events, delivered at least once and in any order, each applied by a     *)
(* webhook request that reads rows, changes its copies and writes them     *)
(* back whole; the reconciliation an administrator starts, which lists the *)
(* prices and applies them one by one; and what a plan gives its accounts  *)
(* (SubscriptionAccessPolicy).                                             *)
(*                                                                         *)
(* Time is counted in ticks, two to the second; the gateway stamps events  *)
(* with the second they happen in, the server reads its clock in ticks.    *)
(***************************************************************************)
EXTENDS Naturals, Sequences

CONSTANTS
    Handlers,       \* webhook requests that may be in flight at once
    Prices,         \* prices of the gateway
    Products,       \* its products
    ProductOf,      \* the product of a price
    PaidCodes,      \* codes of plans other than "free"
    None,           \* no plan, no price; the code of a price that does not parse
    Trials,         \* trial_days a price may carry
    MaxEvents, MaxTime, MaxOutages, MaxReconciliations      \* bounds

ASSUME CatalogAssumption ==
    /\ ProductOf \in [Prices -> Products]
    /\ "free" \notin PaidCodes /\ None \notin PaidCodes \cup Prices \cup {"free"}
    /\ Trials \subseteq Nat
    /\ {MaxEvents, MaxTime, MaxOutages, MaxReconciliations} \subseteq Nat

VARIABLES
    plans,      \* the plans table, by code
    claimed,    \* processed_gateway_events
    handler,    \* webhook requests in flight
    sync,       \* the reconciliation; its stamps are history
    prices, products, events,   \* the gateway, and what it has emitted
    now,        \* the clock
    outages,    \* how much of the bound is used up
    \* History variables, read by the properties only:
    settled,    \* events whose dispatch returned
    reached,    \* the plans each event concerned when its request read them
    raced,      \* two requests have been in flight at once
    quiet       \* nothing else has moved since the reconciliation listed

vars == <<plans, claimed, handler, sync, prices, products, events, now, outages,
          settled, reached, raced, quiet>>
gateway == <<prices, products, events>>
requests == <<claimed, handler, settled, reached>>

-----------------------------------------------------------------------------
Codes == PaidCodes \cup {"free"}
Times == 0 .. MaxTime
SecondOf(t) == 2 * (t \div 2)
EventIds == 1 .. MaxEvents

(* A price carries an amount above 0; name, interval and capabilities are  *)
(* copied like trial_days and left out.                                    *)
Plan == [code : Codes, amount : {0, 1}, trial : Trials \cup {0}, ref : Prices,
         product : Products, offered : BOOLEAN, eventAt : Times]
ASSUME NoneIsNoPlan == None \notin Plan
Price == [state : {"none", "active", "inactive", "deleted"},
          code : Codes \cup {None}, trial : Trials \cup {0}, moved : BOOLEAN]
Entry == [price : Prices, code : Codes, trial : Trials, offered : BOOLEAN]
Event == [kind : {"entry_changed"}, at : Times, entry : Entry]
           \cup [kind : {"ignored"}, at : Times]
           \cup [kind : {"entry_retired"}, at : Times, price : Prices]
           \cup [kind : {"product_changed"}, at : Times, product : Products,
                 offered : BOOLEAN]
           \cup [kind : {"product_retired"}, at : Times, product : Products]
(* An entity with "fresh" was never saved: its id is in no row. *)
Entity == [plan : Plan, fresh : BOOLEAN]

Handler == [pc : {"idle", "save", "release"}, event : 0 .. MaxEvents,
            todo : SUBSET Entity]
Idle == [pc |-> "idle", event |-> 0, todo |-> {}]
Resting == [pc |-> "idle", entries |-> {}, at |-> 0, todo |-> {}, runs |-> 0,
            stamps |-> {}]

TypeOK ==
    /\ plans \in [Codes -> Plan \cup {None}]
    /\ \A c \in Codes : plans[c] # None => plans[c].code = c
    /\ \A c, d \in Codes :                      \* the two unique indexes
          plans[c] # None /\ plans[d] # None /\ plans[c].ref = plans[d].ref
             => c = d
    /\ claimed \subseteq EventIds /\ settled \subseteq claimed
    /\ handler \in [Handlers -> Handler]
    /\ \A h \in Handlers :
          /\ handler[h].pc # "idle" => handler[h].event \in claimed
          /\ handler[h].pc = "save" <=> handler[h].todo # {}
    /\ sync.pc \in {"idle", "stamp", "next", "save", "done"}
    /\ sync.entries \subseteq Entry /\ sync.todo \subseteq Entity
    /\ sync.stamps \subseteq Times
    /\ prices \in [Prices -> Price]
    /\ products \in [Products -> {"active", "inactive", "deleted"}]
    /\ events \in Seq(Event) /\ Len(events) <= MaxEvents
    /\ reached \in [EventIds -> SUBSET Codes]
    /\ now \in Times /\ outages \in 0 .. MaxOutages
    /\ raced \in BOOLEAN /\ quiet \in BOOLEAN

NoPrice == {[state |-> "none", code |-> None, trial |-> 0, moved |-> FALSE]}
NewPrice == [state : {"active"}, code : Codes \cup {None}, trial : Trials,
             moved : {FALSE}]

Init ==
    /\ plans = [c \in Codes |-> None]       \* before the first deployment
    /\ claimed = {} /\ settled = {} /\ reached = [i \in EventIds |-> {}]
    /\ handler = [h \in Handlers |-> Idle]
    /\ sync = Resting
    /\ prices \in [Prices -> NoPrice \cup NewPrice]     \* some exist already
    /\ products = [x \in Products |-> "active"]
    /\ events = <<>>
    /\ now = 0 /\ outages = 0
    /\ raced = FALSE /\ quiet = FALSE

-----------------------------------------------------------------------------
(* The gateway: prices and products change, and every change is an event.  *)

Emit(e) ==
    /\ Len(events) < MaxEvents
    /\ events' = Append(events, e)
    /\ quiet' = FALSE
    /\ UNCHANGED <<plans, requests, sync, now, outages, raced>>

EntryOf(p, price) == [price |-> p, code |-> price.code, trial |-> price.trial,
                      offered |-> price.state = "active"]
(* Wrong metadata of any kind (code, name, capabilities, trial, amount) is *)
(* one case, a price without a code: it yields no event and is not listed. *)
Parses(price) == price.code # None
ChangedEvent(p, price) ==
    IF Parses(price)
    THEN [kind |-> "entry_changed", at |-> SecondOf(now),
          entry |-> EntryOf(p, price)]
    ELSE [kind |-> "ignored", at |-> SecondOf(now)]

PriceTo(p, price) ==
    /\ prices' = [prices EXCEPT ![p] = price]
    /\ Emit(ChangedEvent(p, price))
    /\ UNCHANGED products

CreatePrice(p) ==
    /\ prices[p].state = "none"
    /\ \E price \in NewPrice : PriceTo(p, price)

(* One update edits the metadata, archives the price or unarchives it; the *)
(* event carries all of the price whatever was edited.                     *)
UpdatePrice(p) ==
    LET price == prices[p]
    IN  /\ price.state \in {"active", "inactive"}
        /\ \/ \E st \in {"active", "inactive"} :
                 PriceTo(p, [price EXCEPT !.state = st])
           \/ \E c \in (Codes \cup {None}) \ {price.code} :
                 PriceTo(p, [price EXCEPT !.code = c, !.moved = TRUE])
           \/ \E d \in Trials \ {price.trial} :
                 PriceTo(p, [price EXCEPT !.trial = d])

DeletePrice(p) ==
    /\ prices[p].state \in {"active", "inactive"}
    /\ prices' = [prices EXCEPT ![p].state = "deleted"]
    /\ Emit([kind |-> "entry_retired", at |-> SecondOf(now), price |-> p])
    /\ UNCHANGED products

UpdateProduct(x) ==
    /\ products[x] # "deleted"
    /\ \E st \in {"active", "inactive"} :
          products' = [products EXCEPT ![x] = st]
    /\ Emit([kind |-> "product_changed", at |-> SecondOf(now), product |-> x,
             offered |-> products'[x] = "active"])
    /\ UNCHANGED prices

(* A product with prices cannot be deleted at the gateway. *)
DeleteProduct(x) ==
    /\ products[x] # "deleted"
    /\ \A p \in Prices :
          ProductOf[p] = x => prices[p].state \in {"none", "deleted"}
    /\ products' = [products EXCEPT ![x] = "deleted"]
    /\ Emit([kind |-> "product_retired", at |-> SecondOf(now), product |-> x])
    /\ UNCHANGED prices

Tick ==
    /\ now < MaxTime
    /\ now' = now + 1
    /\ UNCHANGED <<plans, requests, sync, gateway, outages, raced, quiet>>

-----------------------------------------------------------------------------
(* SyncPlanCatalogEntry: from the rows it reads, the entities it will save.*)

Stored == {plans[c] : c \in Codes} \ {None}

(* Fault: the free plan's trial is copied like any other's. *)
GuardFreeAmount(plan) ==
    IF plan.code = "free" THEN [plan EXCEPT !.offered = TRUE, !.amount = 0]
                          ELSE plan
(* The free plan stays offered, for nothing, without a trial. *)
GuardFreePlan(plan) ==
    IF plan.code = "free"
    THEN [plan EXCEPT !.offered = TRUE, !.amount = 0, !.trial = 0]
    ELSE plan

Copied(entry, at) ==
    GuardFreePlan([code |-> entry.code, amount |-> 1, trial |-> entry.trial,
                   ref |-> entry.price, product |-> ProductOf[entry.price],
                   offered |-> entry.offered, eventAt |-> at])

(* Fault: no event is too old. *)
NeverStale(plan, at) == FALSE
IsStale(plan, at) == at < plan.eventAt

(* Fault: any price of the plan retires it. *)
AnyReference(plan, entry) == TRUE
(* A retirement counts only from the price the plan is linked to. *)
Linked(plan, entry) == entry.offered \/ plan.ref = entry.price

EntryChanged(entry, at, ignoreStaleness) ==
    LET existing == plans[entry.code]
        applied == [plan |-> Copied(entry, at), fresh |-> existing = None]
    IN  IF \/ existing = None
           \/ /\ ignoreStaleness \/ ~IsStale(existing, at)
              /\ Linked(existing, entry)
        THEN {applied} ELSE {}

Withdrawn(found, at, offered) ==
    {[plan |-> [plan EXCEPT !.offered = offered, !.eventAt = at],
      fresh |-> FALSE] :
         plan \in {p \in found : /\ ~IsStale(p, at)
                                 /\ p.code = "free" => offered}}
EntryRetired(price, at) ==
    Withdrawn({p \in Stored : p.ref = price}, at, FALSE)
ProductOfferingChanged(x, at, offered) ==
    Withdrawn({p \in Stored : p.product = x}, at, offered)
ProductRetired(x, at) == ProductOfferingChanged(x, at, FALSE)

Applied(e) ==
    CASE e.kind = "entry_changed" -> EntryChanged(e.entry, e.at, FALSE)
      [] e.kind = "entry_retired" -> EntryRetired(e.price, e.at)
      [] e.kind = "product_changed" ->
            ProductOfferingChanged(e.product, e.at, e.offered)
      [] e.kind = "product_retired" -> ProductRetired(e.product, e.at)

(* History: the plans an event is about, of those in the table.  A         *)
(* retirement that finds none is dropped (sync_plan_catalog_entry.ts:153), *)
(* one from another price is not about the plan (DA-1), and none is about  *)
(* the free plan.                                                          *)
Concerned(e) ==
    {c \in Codes :
        \/ /\ e.kind = "entry_changed" /\ e.entry.code = c
           /\ e.entry.offered \/ plans[c] = None \/ plans[c].ref = e.entry.price
        \/ /\ e.kind = "entry_retired" /\ c # "free"
           /\ plans[c] # None /\ plans[c].ref = e.price
        \/ /\ e.kind \in {"product_changed", "product_retired"}
           /\ plans[c] # None /\ plans[c].product = e.product
           /\ c = "free" => e.kind = "product_changed" /\ e.offered}

(* Fault: there is no unique index on the price reference. *)
RefusedByCode(entity) == entity.fresh /\ plans[entity.plan.code] # None
(* The two unique indexes of the table, looked at by an insert and by any  *)
(* save.                                                                   *)
CodeTaken(plan) == plans[plan.code] # None
ReferenceTaken(plan) == \E p \in Stored : p.code # plan.code /\ p.ref = plan.ref
(* The row is found by the entity's id; both unique indexes may refuse it, *)
(* which is logged and swallowed.                                          *)
Refused(entity) ==
    \/ entity.fresh /\ CodeTaken(entity.plan)
    \/ ReferenceTaken(entity.plan)
SaveRow(entity) ==
    plans' = IF Refused(entity) THEN plans
             ELSE [plans EXCEPT ![entity.plan.code] = entity.plan]

-----------------------------------------------------------------------------
(* A webhook request: claim and read, save one plan after the other.  The  *)
(* claim and the read are one step: nothing but a delivery of the same     *)
(* event looks at the claim.  What becomes of an event whose duplicate is  *)
(* answered while its first delivery fails is GatewayBilling's subject.    *)

Busy(h) == handler[h].pc # "idle"
Syncing == sync.pc \notin {"idle", "done"}

(* Every entity is one read of the request; without any there is nothing   *)
(* to save and the request is over.                                        *)
GoOn(h, i, todo) ==
    IF todo = {}
    THEN /\ handler' = [handler EXCEPT ![h] = Idle]
         /\ settled' = settled \cup {i}
    ELSE /\ handler' = [handler EXCEPT
               ![h] = [pc |-> "save", event |-> i, todo |-> todo]]
         /\ UNCHANGED settled

Claim(h, i) ==
    /\ ~Busy(h) /\ i \notin claimed
    /\ events[i].kind # "ignored"
    /\ claimed' = claimed \cup {i}
    /\ GoOn(h, i, Applied(events[i]))
    /\ reached' = [reached EXCEPT ![i] = Concerned(events[i])]
    /\ raced' = (raced \/ Syncing \/ \E g \in Handlers : Busy(g))
    /\ quiet' = FALSE
    /\ UNCHANGED <<plans, sync, gateway, now, outages>>

Save(h) ==
    /\ handler[h].pc = "save"
    /\ \E entity \in handler[h].todo :
          /\ SaveRow(entity)
          /\ GoOn(h, handler[h].event, handler[h].todo \ {entity})
    /\ UNCHANGED <<claimed, sync, gateway, now, outages, reached, raced, quiet>>

(* The database fails a save: what is saved stays, the claim is  *)
(* released and the event comes again.                                     *)
DispatchFails(h) ==
    /\ handler[h].pc = "save"
    /\ outages < MaxOutages
    /\ outages' = outages + 1
    /\ handler' = [handler EXCEPT ![h].pc = "release", ![h].todo = {}]
    /\ UNCHANGED <<plans, claimed, sync, gateway, now, settled, reached, raced,
                   quiet>>
Release(h) ==
    /\ handler[h].pc = "release"
    /\ claimed' = claimed \ {handler[h].event}
    /\ handler' = [handler EXCEPT ![h] = Idle]
    /\ UNCHANGED <<plans, sync, gateway, now, outages, settled, reached, raced,
                   quiet>>

-----------------------------------------------------------------------------
(* ReconcilePlanCatalogFromGateway: list, read the clock, apply each entry.*)

Listed == {EntryOf(p, prices[p]) :
              p \in {q \in Prices : /\ prices[q].state \in {"active", "inactive"}
                                    /\ Parses(prices[q])}}

SyncTo(pc, entries, todo) ==
    sync' = [sync EXCEPT
                !.pc = IF pc = "next" /\ entries = {} THEN "done" ELSE pc,
                !.entries = entries, !.todo = todo]

List ==
    /\ ~Syncing /\ sync.runs < MaxReconciliations
    /\ sync' = [sync EXCEPT !.pc = "stamp", !.entries = Listed, !.runs = @ + 1]
    /\ raced' = (raced \/ \E h \in Handlers : Busy(h))
    /\ quiet' = (\A h \in Handlers : ~Busy(h))
    /\ UNCHANGED <<plans, requests, gateway, now, outages>>

Stamp ==
    /\ sync.pc = "stamp"
    /\ sync' = [sync EXCEPT !.pc = IF sync.entries = {} THEN "done" ELSE "next",
                            !.at = now, !.stamps = @ \cup {now}]
    /\ UNCHANGED <<plans, requests, gateway, now, outages, raced, quiet>>

ReconcileLookup ==
    /\ sync.pc = "next"
    /\ \E entry \in sync.entries :
          LET todo == EntryChanged(entry, sync.at, TRUE)
          IN  SyncTo(IF todo = {} THEN "next" ELSE "save",
                     sync.entries \ {entry}, todo)
    /\ UNCHANGED <<plans, requests, gateway, now, outages, raced, quiet>>

ReconcileSave ==
    /\ sync.pc = "save"
    /\ \E entity \in sync.todo : SaveRow(entity)
    /\ SyncTo("next", sync.entries, {})
    /\ UNCHANGED <<requests, gateway, now, outages, raced, quiet>>

(* The gateway or the database fails; nothing is taken back. *)
ReconcileFails ==
    /\ sync.pc \in {"next", "save"}
    /\ outages < MaxOutages
    /\ outages' = outages + 1
    /\ sync' = [sync EXCEPT !.pc = "idle", !.entries = {}, !.todo = {}]
    /\ UNCHANGED <<plans, requests, gateway, now, raced, quiet>>

-----------------------------------------------------------------------------
Gateway == \/ \E p \in Prices : CreatePrice(p) \/ UpdatePrice(p) \/ DeletePrice(p)
           \/ \E x \in Products : UpdateProduct(x) \/ DeleteProduct(x)
Webhook(h) == \/ Save(h) \/ DispatchFails(h) \/ Release(h)
              \/ \E i \in DOMAIN events : Claim(h, i)
Reconciliation == \/ List \/ Stamp \/ ReconcileLookup \/ ReconcileSave
                  \/ ReconcileFails

Next == \/ Gateway \/ Tick \/ Reconciliation
        \/ \E h \in Handlers : Webhook(h)

Spec == Init /\ [][Next]_vars

-----------------------------------------------------------------------------
(* What a plan gives: the subscription opened at registration, and access. *)

Status == {"trialing", "active", "past_due", "canceled"}
(* EnsureFreeSubscription; a paid plan's month and a trial are Month and   *)
(* trial_days ticks long here, and None is a null date.                    *)
Month == 1
Create(plan, t) ==
    [plan |-> plan, status |-> IF plan.trial > 0 THEN "trialing" ELSE "active",
     trialEnd |-> IF plan.trial > 0 THEN t + plan.trial ELSE None,
     periodEnd |-> IF plan.trial > 0 \/ plan.amount = 0 THEN None ELSE t + Month,
     graceEnd |-> None]

Until(end, t) == end # None /\ t <= end
(* SubscriptionAccessPolicy.resolve: access, and the plan whose            *)
(* capabilities hold.                                                      *)
Resolve(s, freePlan, t) ==
    LET ofPlan(access) == [access |-> access, plan |-> s.plan]
    IN  CASE s.status = "trialing" -> ofPlan(Until(s.trialEnd, t))
          [] s.status = "active" ->
                ofPlan(s.periodEnd = None \/ Until(s.periodEnd, t))
          [] s.status = "past_due" -> ofPlan(Until(s.graceEnd, t))
          [] s.status = "canceled" ->
                IF Until(s.periodEnd, t) THEN ofPlan(TRUE)
                ELSE [access |-> TRUE, plan |-> freePlan]

EntitlementOf(s, t) ==
    IF plans["free"] = None THEN [access |-> FALSE, plan |-> None]
    ELSE Resolve(s, plans["free"], t)

(* Once there, the free plan is always offered, and an account that        *)
(* registers on it, at whatever moment of a synchronization, has access    *)
(* for ever and may buy nothing to keep it (guardFreePlan, I-2 and S-3;    *)
(* EnsureFreeSubscription; SubscriptionAccessPolicy).                      *)
FreeNeverRunsOut ==
    LET free == plans["free"]
    IN  free # None =>
          /\ free.offered
          /\ \A t \in now .. MaxTime + Month + 1 :
                EntitlementOf(Create(free, now), t) = [access |-> TRUE, plan |-> free]

(* The plan carries what the price says. *)
Mirrors(plan, entry) == plan = Copied(entry, plan.eventAt)

Claiming(c) == {p \in Prices : prices[p].state = "active" /\ prices[p].code = c}

(* A reconciliation beside which nothing moves leaves every plan that has  *)
(* one active price linked to it and equal to it, whatever was lost        *)
(* before and in whatever order the prices are listed; a paid plan whose   *)
(* own price is archived is retired (applyReconciledEntry, DA-1).  Prices  *)
(* whose code was edited are excepted: see R-11.                           *)
ReconciliationHeals ==
    sync.pc = "done" /\ quiet =>
       \A c \in Codes : \A p \in Prices :
          prices[p].code = c /\ ~prices[p].moved =>
             /\ Claiming(c) = {p} =>
                   plans[c] # None /\ Mirrors(plans[c], EntryOf(p, prices[p]))
             /\ c # "free" /\ Claiming(c) = {} /\ prices[p].state = "inactive"
                /\ plans[c] # None /\ plans[c].ref = p => ~plans[c].offered

(* What an event says of a plan. *)
Says(e, plan) ==
    IF e.kind = "entry_changed" THEN Mirrors(plan, e.entry)
    ELSE plan.offered = (e.kind = "product_changed" /\ e.offered)

(* Where requests do not overlap, the plans that the newest event of all   *)
(* found go on saying what it says: no older event, late one, duplicate or *)
(* failed attempt undoes it, only a reconciliation no older (isStale).     *)
(* This is no promise about plans it did not find: a deletion that         *)
(* overtakes the creation of its price is dropped and the price then sold. *)
(* A change whose price had its code edited may be refused: see R-11.      *)
MirrorsNewest ==
    LET last == Len(events)
        e == events[last]
    IN  /\ last \in settled /\ ~raced
        /\ \A i \in 1 .. last - 1 : events[i].at < e.at
        /\ e.kind = "entry_changed" => ~prices[e.entry.price].moved
        => \A c \in reached[last] :
              /\ plans[c] # None
              /\ \/ /\ plans[c].eventAt \in sync.stamps
                    /\ plans[c].eventAt >= e.at
                 \/ Says(e, plans[c])
=============================================================================
