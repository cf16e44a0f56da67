------------------------- MODULE EntitlementProofs -------------------------
(***************************************************************************)
(* Proofs about what is sold and what is let in.                           *)
(*                                                                         *)
(* PlanCatalog, for every number of webhook requests, prices, products,    *)
(* plans, events, failures and reconciliations: its types, the guard of    *)
(* the free plan, that an undisturbed reconciliation heals, and that       *)
(* without overlap what the newest event changed stays.                    *)
(*                                                                         *)
(* RequestIntake, for every number of connections, users and addresses and *)
(* every table of routes, tools and policies: its types, the bound on      *)
(* bursts, that nothing runs for a caller who was not let in, and that the *)
(* server of an MCP request is closed once.                                *)
(*                                                                         *)
(* CsvImport, for every limit and every table: what an import commits is   *)
(* the table it was sent, or nothing.                                      *)
(***************************************************************************)
EXTENDS PlanCatalog, RequestIntake, FiniteSetTheorems, TLAPS

-----------------------------------------------------------------------------
(* Types.                                                                  *)

Sync == [pc : {"idle", "stamp", "next", "save", "done"}, entries : SUBSET Entry,
         at : Times, todo : SUBSET Entity, runs : Nat, stamps : SUBSET Times]

GatewayTyped ==
    /\ prices \in [Prices -> Price]
    /\ \A p \in Prices : IF prices[p].state = "none" THEN ~Parses(prices[p])
                                                    ELSE prices[p].trial \in Trials
    /\ products \in [Products -> {"active", "inactive", "deleted"}]
    /\ events \in Seq(Event) /\ Len(events) <= MaxEvents
    /\ now \in Times /\ outages \in 0 .. MaxOutages
    /\ raced \in BOOLEAN /\ quiet \in BOOLEAN

(* The table, with its two unique indexes.                                 *)
PlansTyped ==
    /\ plans \in [Codes -> Plan \cup {None}]
    /\ \A c \in Codes : plans[c] # None => plans[c].code = c
    /\ \A c, d \in Codes :
          plans[c] # None /\ plans[d] # None /\ plans[c].ref = plans[d].ref => c = d

(* A request in flight holds the claim of its event, alone.                *)
Holds(q) ==
    /\ q \in Handler
    /\ q.pc # "idle" => q.event \in claimed \ settled
    /\ q.pc = "save" <=> q.todo # {}
RequestsTyped ==
    /\ claimed \subseteq EventIds /\ settled \subseteq claimed
    /\ handler \in [Handlers -> Handler] /\ \A h \in Handlers : Holds(handler[h])
    /\ \A g, h \in Handlers :
          g # h /\ Busy(g) /\ Busy(h) => handler[g].event # handler[h].event

TypeInv == GatewayTyped /\ PlansTyped /\ RequestsTyped /\ sync \in Sync

-----------------------------------------------------------------------------
(* What is stored or about to be saved keeps the guard of the free plan,   *)
(* and names, of a price whose code nobody edited, the code it has.        *)

FreeOK(plan) == plan.code = "free" => plan.offered /\ plan.amount = 0 /\ plan.trial = 0
Honest(p, c) == prices[p].state # "none" /\ (prices[p].moved \/ prices[p].code = c)
Sound(plan) == FreeOK(plan) /\ Honest(plan.ref, plan.code)

SoundInv ==
    /\ \A c \in Codes : plans[c] # None => Sound(plans[c])
    /\ \A h \in Handlers : \A x \in handler[h].todo : Sound(x.plan)
    /\ \A x \in sync.todo : Sound(x.plan)
    /\ \A e \in sync.entries : Honest(e.price, e.code)
    /\ \A i \in DOMAIN events :
          events[i].kind = "entry_changed" => Honest(events[i].entry.price, events[i].entry.code)

-----------------------------------------------------------------------------
(* A reconciliation beside which nothing moves: what is applied of the     *)
(* list stays healed.                                                      *)

Current(p) == EntryOf(p, prices[p])
Healed(p) ==
    LET c == prices[p].code
    IN  ~prices[p].moved =>
          /\ Claiming(c) = {p} => /\ plans[c] # None /\ plans[c].ref = p
                                  /\ Mirrors(plans[c], Current(p))
          /\ c # "free" /\ Claiming(c) = {} /\ prices[p].state = "inactive"
             /\ plans[c] # None /\ plans[c].ref = p => ~plans[c].offered

(* Healed but for the entries still to come and the one being saved.       *)
HealedBut(S) == \A p \in Prices : Current(p) \in Listed \ S => Healed(p)

QuietInv ==
    /\ \A h \in Handlers : ~Busy(h)
    /\ sync.pc = "stamp" => sync.entries = Listed
    /\ sync.pc \in {"next", "save", "done"} => sync.entries \subseteq Listed
    /\ sync.pc \in {"next", "done"} => HealedBut(sync.entries)
    /\ sync.pc = "save" => \E e \in Listed \ sync.entries :
          /\ sync.todo = EntryChanged(e, sync.at, TRUE)
          /\ HealedBut(sync.entries \cup {e})

HealInv ==
    /\ sync.pc = "done" => sync.entries = {}
    /\ quiet => QuietInv

-----------------------------------------------------------------------------
(* Without overlap: the newest change of all.                              *)

(* A plan is dated by an event or by a reconciliation.                     *)
Dated(plan) ==
    \/ plan.eventAt \in sync.stamps
    \/ \E i \in DOMAIN events : plan.eventAt = events[i].at
DatesInv ==
    /\ claimed \subseteq DOMAIN events
    /\ \A i \in DOMAIN events : events[i].at <= now
    /\ sync.pc \in {"next", "save"} => sync.at \in sync.stamps
    /\ sync.pc = "save" => \A x \in sync.todo : x.plan.eventAt = sync.at
    /\ \A c \in Codes : plans[c] # None => Dated(plans[c])
    /\ \A h \in Handlers : \A x \in handler[h].todo : Dated(x.plan)

SerialInv ==
    ~raced => /\ \A g, h \in Handlers : Busy(g) /\ Busy(h) => g = h
              /\ \A h \in Handlers : Busy(h) => ~Syncing

LastEvent == Len(events)
(* The newest event of all, if it is one that MirrorsNewest speaks of.     *)
Newest(e) ==
    /\ LastEvent # 0 /\ e = events[LastEvent]
    /\ \A i \in 1 .. LastEvent - 1 : events[i].at < e.at
    /\ e.kind = "entry_changed" => ~prices[e.entry.price].moved

Shows(plan, e) ==
    /\ plan # None /\ plan.eventAt >= e.at
    /\ plan.eventAt \in sync.stamps \/ Says(e, plan)

(* Once it is settled the plans it reached show it, no request in flight   *)
(* is about to write them, and a reconciliation in flight has a stamp no   *)
(* older.                                                                  *)
Kept(c, e) ==
    /\ \A q \in Plan \cup {None} : q = plans[c] => Shows(q, e)
    /\ \A h \in Handlers : \A x \in handler[h].todo : x.plan.code # c
Settled(e) ==
    /\ \A c \in reached[LastEvent] : Kept(c, e)
    /\ sync.pc \in {"next", "save"} => sync.at >= e.at

(* What the request that works on it is about to save says what it says,   *)
(* and no unique index refuses it; saving one leaves the others so.        *)
Fit(x, e) ==
    /\ x.plan.eventAt = e.at /\ Says(e, x.plan)
    /\ x.fresh <=> plans[x.plan.code] = None
    /\ \A d \in Codes \ {x.plan.code} : plans[d] # None => plans[d].ref # x.plan.ref
Unlike(todo) ==
    /\ \A x, y \in todo : x.plan.code = y.plan.code => x = y
    /\ \/ \A x, y \in todo : x = y
       \/ \A x \in todo : plans[x.plan.code] # None /\ plans[x.plan.code].ref = x.plan.ref
Saving(h, e) ==
    /\ \A x \in handler[h].todo : x \in Entity /\ Fit(x, e)
    /\ Unlike(handler[h].todo)
    /\ \A c \in reached[LastEvent] :
          \/ \E x \in handler[h].todo : x.plan.code = c
          \/ \A q \in Plan \cup {None} : q = plans[c] => Shows(q, e)
ReachedOK == reached \in [EventIds -> SUBSET Codes]
NewestInv ==
    \A e \in Event : ~raced /\ Newest(e) =>
       /\ LastEvent \in settled => Settled(e)
       /\ \A h \in Handlers : handler[h].pc = "save" /\ handler[h].event = LastEvent => Saving(h, e)

-----------------------------------------------------------------------------
(* Facts about the helpers.                                                *)

LEMMA SecondsAreTimes ==
    ASSUME NEW t \in Times
    PROVE  SecondOf(t) \in Times
<1>1. t \in Nat /\ t <= MaxTime /\ MaxTime \in Nat
  BY CatalogAssumption DEF Times
<1>2. 2 * (t \div 2) \in Nat /\ 2 * (t \div 2) <= t
  BY <1>1
<1> QED
  BY <1>1, <1>2 DEF SecondOf, Times

LEMMA EntryTyped ==
    ASSUME NEW p \in Prices, NEW price \in Price, Parses(price), price.trial \in Trials
    PROVE  /\ EntryOf(p, price) \in Entry
           /\ EntryOf(p, price).price = p /\ EntryOf(p, price).code = price.code
           /\ EntryOf(p, price).offered <=> price.state = "active"
<1>1. price.code \in Codes
  BY DEF Price, Parses
<1>2. PICK offered : offered = (price.state = "active")
  OBVIOUS
<1>3. EntryOf(p, price) = [price |-> p, code |-> price.code, trial |-> price.trial,
                           offered |-> offered]
  BY <1>2, Zenon DEF EntryOf
<1>4. EntryOf(p, price) \in Entry
  BY <1>1, <1>2, <1>3 DEF Entry
<1>5. EntryOf(p, price).price = p /\ EntryOf(p, price).code = price.code
  BY <1>3
<1>6. EntryOf(p, price).offered = (price.state = "active")
  BY Zenon DEF EntryOf
<1> QED
  BY <1>4, <1>5, <1>6

(* A copied plan is that of its price, but for what the free plan keeps.   *)
LEMMA CopiedTyped ==
    ASSUME NEW e \in Entry, NEW at \in Times
    PROVE  /\ Copied(e, at) \in Plan
           /\ Copied(e, at).code = e.code /\ Copied(e, at).ref = e.price
           /\ Copied(e, at).eventAt = at /\ FreeOK(Copied(e, at))
           /\ e.code # "free" => (Copied(e, at).offered <=> e.offered)
<1>1. /\ e.code \in Codes /\ e.trial \in Trials \cup {0} /\ e.price \in Prices
      /\ e.offered \in BOOLEAN /\ ProductOf[e.price] \in Products
  BY CatalogAssumption DEF Entry
<1>2. PICK plan : plan = [code |-> e.code, amount |-> 1, trial |-> e.trial, ref |-> e.price,
                          product |-> ProductOf[e.price], offered |-> e.offered, eventAt |-> at]
  OBVIOUS
<1>3. plan \in Plan
  BY <1>1, <1>2 DEF Plan
<1>4. Copied(e, at) = GuardFreePlan(plan)
  BY <1>2 DEF Copied
<1>5. CASE e.code = "free"
  <2>1. PICK free : free = [plan EXCEPT !.offered = TRUE, !.amount = 0, !.trial = 0]
    OBVIOUS
  <2>2. Copied(e, at) = free
    BY <1>2, <1>4, <1>5, <2>1 DEF GuardFreePlan
  <2>3. /\ free \in Plan /\ free.code = e.code /\ free.ref = e.price /\ free.eventAt = at
        /\ free.offered /\ free.amount = 0 /\ free.trial = 0
    BY <1>2, <1>3, <2>1 DEF Plan
  <2> QED
    BY <1>5, <2>2, <2>3 DEF FreeOK
<1>6. CASE e.code # "free"
  <2>1. GuardFreePlan(plan) = plan
    BY <1>2, <1>6 DEF GuardFreePlan
  <2> QED
    BY <1>2, <1>3, <1>4, <1>6, <2>1 DEF FreeOK
<1> QED
  BY <1>5, <1>6

LEMMA ChangedTyped ==
    ASSUME NEW e \in Entry, NEW at \in Times, NEW ignore \in BOOLEAN
    PROVE  /\ EntryChanged(e, at, ignore) \subseteq Entity
           /\ \A x \in EntryChanged(e, at, ignore) :
                 x.plan = Copied(e, at) /\ (x.fresh <=> plans[e.code] = None)
           /\ \A x, y \in EntryChanged(e, at, ignore) : x = y
<1>1. PICK x : x = [plan |-> Copied(e, at), fresh |-> plans[e.code] = None]
  OBVIOUS
<1>2. EntryChanged(e, at, ignore) \subseteq {x}
  BY <1>1 DEF EntryChanged
<1>3. (plans[e.code] = None) \in BOOLEAN
  OBVIOUS
<1>4. x \in Entity /\ x.plan = Copied(e, at) /\ (x.fresh <=> plans[e.code] = None)
  BY <1>1, <1>3, CopiedTyped DEF Entity
<1> QED
  BY <1>2, <1>4

LEMMA WithdrawnTyped ==
    ASSUME NEW found \in SUBSET Plan, NEW at \in Times, NEW offered \in BOOLEAN
    PROVE  /\ Withdrawn(found, at, offered) \subseteq Entity
           /\ \A x \in Withdrawn(found, at, offered) :
                 /\ ~x.fresh
                 /\ \E p \in found : /\ x.plan.code = p.code /\ x.plan.ref = p.ref
                                     /\ x.plan.amount = p.amount /\ x.plan.trial = p.trial
                                     /\ x.plan.code = "free" => x.plan.offered
<1>1. ASSUME NEW x \in Withdrawn(found, at, offered)
      PROVE  /\ x \in Entity /\ ~x.fresh
             /\ \E p \in found : /\ x.plan.code = p.code /\ x.plan.ref = p.ref
                                 /\ x.plan.amount = p.amount /\ x.plan.trial = p.trial
                                 /\ x.plan.code = "free" => x.plan.offered
  <2>1. PICK p \in found :
           /\ p.code = "free" => offered
           /\ x = [plan |-> [p EXCEPT !.offered = offered, !.eventAt = at], fresh |-> FALSE]
    BY DEF Withdrawn
  <2>2. PICK q : q = [p EXCEPT !.offered = offered, !.eventAt = at]
    OBVIOUS
  <2>3. /\ q \in Plan /\ q.code = p.code /\ q.ref = p.ref /\ q.amount = p.amount
        /\ q.trial = p.trial /\ (q.offered <=> offered)
    BY <2>2 DEF Plan
  <2>4. x.plan = q /\ ~x.fresh /\ x \in Entity
    BY <2>1, <2>2, <2>3 DEF Entity
  <2> QED
    BY <2>1, <2>3, <2>4
<1> QED
  BY <1>1

LEMMA EventFields ==
    ASSUME NEW e \in Event
    PROVE  /\ e.at \in Times
           /\ e.kind \in {"entry_changed", "ignored", "entry_retired", "product_changed",
                          "product_retired"}
           /\ e.kind = "entry_changed" => e.entry \in Entry
           /\ e.kind = "product_changed" => e.offered \in BOOLEAN
BY DEF Event

LEMMA StoredTyped ==
    ASSUME PlansTyped
    PROVE  Stored \subseteq Plan /\ \A p \in Stored : \E c \in Codes : p = plans[c] /\ p # None
BY DEF PlansTyped, Stored

(* What an event makes of the plans: the copy of its entry, or stored      *)
(* plans with another offer.                                               *)
LEMMA AppliedTyped ==
    ASSUME PlansTyped, NEW e \in Event, e.kind # "ignored"
    PROVE  /\ Applied(e) \subseteq Entity
           /\ \A x \in Applied(e) :
                 \/ /\ e.kind = "entry_changed"
                    /\ x.plan.code = e.entry.code /\ x.plan.ref = e.entry.price /\ FreeOK(x.plan)
                 \/ \E c \in Codes :
                       /\ plans[c] # None
                       /\ x.plan.code = plans[c].code /\ x.plan.ref = plans[c].ref
                       /\ FreeOK(plans[c]) => FreeOK(x.plan)
<1>1. CASE e.kind = "entry_changed"
  <2>1. Applied(e) = EntryChanged(e.entry, e.at, FALSE) /\ e.entry \in Entry /\ e.at \in Times
    BY <1>1, EventFields DEF Applied
  <2>2. /\ EntryChanged(e.entry, e.at, FALSE) \subseteq Entity
        /\ \A x \in EntryChanged(e.entry, e.at, FALSE) : x.plan = Copied(e.entry, e.at)
    BY <2>1, ChangedTyped
  <2>3. /\ Copied(e.entry, e.at).code = e.entry.code /\ Copied(e.entry, e.at).ref = e.entry.price
        /\ FreeOK(Copied(e.entry, e.at))
    BY <2>1, CopiedTyped
  <2> QED
    BY <1>1, <2>1, <2>2, <2>3
<1>2. CASE e.kind # "entry_changed"
  <2>1. PICK found \in SUBSET Stored, offered \in BOOLEAN :
           Applied(e) = Withdrawn(found, e.at, offered)
    <3>1. CASE e.kind = "entry_retired"
      BY <3>1 DEF Applied, EntryRetired
    <3>2. CASE e.kind = "product_changed"
      BY <3>2, EventFields DEF Applied, ProductOfferingChanged
    <3>3. CASE e.kind = "product_retired"
      BY <3>3 DEF Applied, ProductRetired, ProductOfferingChanged
    <3> QED
      BY <1>2, <3>1, <3>2, <3>3, EventFields
  <2>2. e.at \in Times /\ found \in SUBSET Plan
    BY <2>1, StoredTyped, EventFields
  <2>3. /\ Withdrawn(found, e.at, offered) \subseteq Entity
        /\ \A x \in Withdrawn(found, e.at, offered) :
              \E p \in found : /\ x.plan.code = p.code /\ x.plan.ref = p.ref
                               /\ x.plan.amount = p.amount /\ x.plan.trial = p.trial
                               /\ x.plan.code = "free" => x.plan.offered
    BY <2>2, WithdrawnTyped
  <2>4. \A p \in found : \E c \in Codes : p = plans[c] /\ plans[c] # None
    BY <2>1, StoredTyped
  <2> QED
    BY <2>1, <2>3, <2>4 DEF FreeOK
<1> QED
  BY <1>1, <1>2

LEMMA ListedTyped ==
    ASSUME GatewayTyped
    PROVE  /\ Listed \subseteq Entry
           /\ \A e \in Listed : \E p \in Prices :
                 /\ prices[p].state \in {"active", "inactive"} /\ Parses(prices[p])
                 /\ e = Current(p)
<1>1. ASSUME NEW e \in Listed
      PROVE  /\ e \in Entry
             /\ \E p \in Prices : /\ prices[p].state \in {"active", "inactive"}
                                  /\ Parses(prices[p]) /\ e = Current(p)
  <2>1. PICK p \in Prices : /\ prices[p].state \in {"active", "inactive"} /\ Parses(prices[p])
                            /\ e = EntryOf(p, prices[p])
    BY DEF Listed
  <2>2. prices[p] \in Price /\ prices[p].trial \in Trials
    BY <2>1 DEF GatewayTyped
  <2> QED
    BY <2>1, <2>2, EntryTyped DEF Current
<1> QED
  BY <1>1

LEMMA SavedTyped ==
    ASSUME PlansTyped, NEW x \in Entity, SaveRow(x)
    PROVE  /\ PlansTyped'
           /\ \A c \in Codes : plans'[c] = plans[c] \/ (c = x.plan.code /\ plans'[c] = x.plan)
<1>1. x.plan \in Plan /\ x.plan.code \in Codes
  BY DEF Entity, Plan
<1>2. CASE Refused(x)
  BY <1>2 DEF SaveRow, PlansTyped
<1>3. CASE ~Refused(x)
  <2>1. plans' = [plans EXCEPT ![x.plan.code] = x.plan]
    BY <1>3 DEF SaveRow
  <2>2. \A c \in Codes : plans[c] # None /\ plans[c].ref = x.plan.ref => c = x.plan.code
    BY <1>3 DEF Refused, ReferenceTaken, Stored, PlansTyped
  <2>3. plans'[x.plan.code] = x.plan /\ \A c \in Codes \ {x.plan.code} : plans'[c] = plans[c]
    BY <1>1, <2>1 DEF PlansTyped
  <2> QED
    BY <1>1, <2>1, <2>2, <2>3 DEF PlansTyped
<1> QED
  BY <1>2, <1>3

-----------------------------------------------------------------------------
(* Types, action by action.                                                *)

LEMMA ChangedEventTyped ==
    ASSUME GatewayTyped, NEW p \in Prices, NEW price \in Price, price.trial \in Trials
    PROVE  /\ ChangedEvent(p, price) \in Event
           /\ ChangedEvent(p, price).kind = "entry_changed"
                 => /\ Parses(price) /\ ChangedEvent(p, price).entry.price = p
                    /\ ChangedEvent(p, price).entry.code = price.code
<1>1. SecondOf(now) \in Times
  BY SecondsAreTimes DEF GatewayTyped
<1>2. CASE Parses(price)
  <2>1. ChangedEvent(p, price) = [kind |-> "entry_changed", at |-> SecondOf(now),
                                  entry |-> EntryOf(p, price)]
    BY <1>2 DEF ChangedEvent
  <2> QED
    BY <1>1, <1>2, <2>1, EntryTyped DEF Event
<1>3. CASE ~Parses(price)
  <2>1. ChangedEvent(p, price) = [kind |-> "ignored", at |-> SecondOf(now)]
    BY <1>3 DEF ChangedEvent
  <2> QED
    BY <1>1, <2>1 DEF Event
<1> QED
  BY <1>2, <1>3

LEMMA EmitTyped ==
    ASSUME TypeInv, NEW e \in Event, Emit(e),
           prices' \in [Prices -> Price],
           \A p \in Prices : IF prices'[p].state = "none" THEN ~Parses(prices'[p])
                                                    ELSE prices'[p].trial \in Trials,
           products' \in [Products -> {"active", "inactive", "deleted"}]
    PROVE  TypeInv'
<1>1. /\ UNCHANGED <<plans, claimed, handler, settled, sync, now, outages, raced>>
      /\ quiet' = FALSE /\ events' = Append(events, e) /\ Len(events) < MaxEvents
  BY DEF Emit, requests
<1>2. events' \in Seq(Event) /\ Len(events') <= MaxEvents
  <2>1. MaxEvents \in Nat
    BY CatalogAssumption
  <2> QED
    BY <1>1, <2>1 DEF TypeInv, GatewayTyped
<1>3. GatewayTyped'
  BY <1>1, <1>2 DEF TypeInv, GatewayTyped
<1> QED
  BY <1>1, <1>3 DEF TypeInv, PlansTyped, RequestsTyped, Holds, Busy

LEMMA PriceToTyped ==
    ASSUME TypeInv, NEW p \in Prices, NEW price \in Price, price.trial \in Trials,
           price.state # "none", PriceTo(p, price)
    PROVE  TypeInv'
<1>1. /\ prices' = [prices EXCEPT ![p] = price] /\ Emit(ChangedEvent(p, price))
      /\ products' = products
  BY DEF PriceTo
<1>2. ChangedEvent(p, price) \in Event
  BY ChangedEventTyped DEF TypeInv
<1>3. /\ prices' \in [Prices -> Price]
      /\ \A q \in Prices : IF prices'[q].state = "none" THEN ~Parses(prices'[q])
                                                  ELSE prices'[q].trial \in Trials
  BY <1>1 DEF TypeInv, GatewayTyped
<1> QED
  BY <1>1, <1>2, <1>3, EmitTyped DEF TypeInv, GatewayTyped

LEMMA UpdatesKeepFields ==
    ASSUME GatewayTyped, NEW p \in Prices, UpdatePrice(p)
    PROVE  \E price \in Price :
              /\ PriceTo(p, price) /\ price.trial \in Trials /\ price.state # "none"
              /\ price.moved \/ (price.code = prices[p].code /\ (price.moved <=> prices[p].moved))
<1>1. /\ prices[p] \in Price /\ prices[p].state \in {"active", "inactive"}
      /\ prices[p].trial \in Trials
  BY DEF UpdatePrice, GatewayTyped
<1>2. CASE \E st \in {"active", "inactive"} : PriceTo(p, [prices[p] EXCEPT !.state = st])
  <2>1. PICK st \in {"active", "inactive"} : PriceTo(p, [prices[p] EXCEPT !.state = st])
    BY <1>2
  <2>2. PICK price : price = [prices[p] EXCEPT !.state = st]
    OBVIOUS
  <2>3. /\ price \in Price /\ price.trial = prices[p].trial /\ price.state = st
        /\ price.code = prices[p].code /\ (price.moved <=> prices[p].moved)
    BY <1>1, <2>1, <2>2 DEF Price
  <2> QED
    BY <1>1, <2>1, <2>2, <2>3
<1>3. CASE \E c \in (Codes \cup {None}) \ {prices[p].code} :
              PriceTo(p, [prices[p] EXCEPT !.code = c, !.moved = TRUE])
  <2>1. PICK c \in (Codes \cup {None}) \ {prices[p].code} :
           PriceTo(p, [prices[p] EXCEPT !.code = c, !.moved = TRUE])
    BY <1>3
  <2>2. PICK price : price = [prices[p] EXCEPT !.code = c, !.moved = TRUE]
    OBVIOUS
  <2>3. /\ price \in Price /\ price.trial = prices[p].trial /\ price.state = prices[p].state
        /\ price.moved
    BY <1>1, <2>1, <2>2 DEF Price
  <2> QED
    BY <1>1, <2>1, <2>2, <2>3
<1>4. CASE \E d \in Trials \ {prices[p].trial} : PriceTo(p, [prices[p] EXCEPT !.trial = d])
  <2>1. PICK d \in Trials \ {prices[p].trial} : PriceTo(p, [prices[p] EXCEPT !.trial = d])
    BY <1>4
  <2>2. PICK price : price = [prices[p] EXCEPT !.trial = d]
    OBVIOUS
  <2>3. /\ price \in Price /\ price.trial = d /\ price.state = prices[p].state
        /\ price.code = prices[p].code /\ (price.moved <=> prices[p].moved)
    BY <1>1, <2>1, <2>2 DEF Price
  <2> QED
    BY <1>1, <2>1, <2>2, <2>3
<1> QED
  BY <1>2, <1>3, <1>4 DEF UpdatePrice

LEMMA GatewayTypes ==
    ASSUME TypeInv, Gateway
    PROVE  TypeInv'
<1>1. ASSUME NEW p \in Prices, CreatePrice(p) PROVE TypeInv'
  <2>1. PICK price \in NewPrice : PriceTo(p, price)
    BY <1>1 DEF CreatePrice
  <2>2. price \in Price /\ price.trial \in Trials /\ price.state # "none"
    BY DEF NewPrice, Price
  <2> QED
    BY <2>1, <2>2, PriceToTyped
<1>2. ASSUME NEW p \in Prices, UpdatePrice(p) PROVE TypeInv'
  BY <1>2, UpdatesKeepFields, PriceToTyped DEF TypeInv
<1>3. SecondOf(now) \in Times /\ prices \in [Prices -> Price]
      /\ products \in [Products -> {"active", "inactive", "deleted"}]
  BY SecondsAreTimes DEF TypeInv, GatewayTyped
<1>4. ASSUME NEW p \in Prices, DeletePrice(p) PROVE TypeInv'
  <2>1. PICK e : e = [kind |-> "entry_retired", at |-> SecondOf(now), price |-> p]
    OBVIOUS
  <2>2. e \in Event
    BY <1>3, <2>1 DEF Event
  <2>3. /\ prices' \in [Prices -> Price]
        /\ \A q \in Prices : IF prices'[q].state = "none" THEN ~Parses(prices'[q])
                                                    ELSE prices'[q].trial \in Trials
    <3>1. prices[p] \in Price /\ prices[p].trial \in Trials
      BY <1>4 DEF DeletePrice, TypeInv, GatewayTyped
    <3>2. PICK price : price = [prices[p] EXCEPT !.state = "deleted"]
      OBVIOUS
    <3>3. price \in Price /\ price.trial \in Trials /\ price.state = "deleted"
      BY <3>1, <3>2 DEF Price
    <3>4. prices' = [prices EXCEPT ![p] = price]
      BY <1>4, <3>2 DEF DeletePrice
    <3> QED
      BY <1>3, <3>3, <3>4 DEF TypeInv, GatewayTyped
  <2> QED
    BY <1>3, <1>4, <2>1, <2>2, <2>3, EmitTyped DEF DeletePrice
<1>5. ASSUME NEW x \in Products, UpdateProduct(x) PROVE TypeInv'
  <2>1. PICK st \in {"active", "inactive"} : products' = [products EXCEPT ![x] = st]
    BY <1>5 DEF UpdateProduct
  <2>2. PICK e : e = [kind |-> "product_changed", at |-> SecondOf(now), product |-> x,
                      offered |-> products'[x] = "active"]
    OBVIOUS
  <2>3. e \in Event
    BY <1>3, <2>2 DEF Event
  <2>4. Emit(e) /\ prices' = prices
    BY <1>5, <2>2 DEF UpdateProduct
  <2> QED
    BY <1>3, <2>1, <2>3, <2>4, EmitTyped DEF TypeInv, GatewayTyped
<1>6. ASSUME NEW x \in Products, DeleteProduct(x) PROVE TypeInv'
  <2>1. PICK e : e = [kind |-> "product_retired", at |-> SecondOf(now), product |-> x]
    OBVIOUS
  <2>2. e \in Event
    BY <1>3, <2>1 DEF Event
  <2> QED
    BY <1>3, <1>6, <2>1, <2>2, EmitTyped DEF DeleteProduct, TypeInv, GatewayTyped
<1> QED
  BY <1>1, <1>2, <1>4, <1>5, <1>6 DEF Gateway

LEMMA IdleTyped == Idle \in Handler /\ Idle.pc = "idle" /\ Idle.todo = {}
<1>1. 0 \in 0 .. MaxEvents
  BY CatalogAssumption
<1> QED
  BY <1>1 DEF Idle, Handler

(* A request goes on with the event it holds alone.                        *)
LEMMA GoOnTyped ==
    ASSUME RequestsTyped, NEW h \in Handlers, NEW i \in EventIds, NEW todo \in SUBSET Entity,
           GoOn(h, i, todo), claimed \subseteq claimed', claimed' \subseteq EventIds,
           i \in claimed', i \notin settled,
           \A g \in Handlers \ {h} : Busy(g) => handler[g].event # i
    PROVE  /\ RequestsTyped'
           /\ handler' = [handler EXCEPT ![h] = handler'[h]]
           /\ handler'[h].todo = todo
<1>1. i \in 0 .. MaxEvents
  BY CatalogAssumption DEF EventIds
<1>2. CASE todo = {}
  <2>1. handler' = [handler EXCEPT ![h] = Idle] /\ settled' = settled \cup {i}
    BY <1>2 DEF GoOn
  <2>2. /\ handler'[h] = Idle /\ \A g \in Handlers \ {h} : handler'[g] = handler[g]
        /\ handler' \in [Handlers -> Handler]
    BY <2>1, IdleTyped DEF RequestsTyped
  <2>3. \A g \in Handlers : Holds(handler[g])'
    BY <2>1, <2>2, IdleTyped DEF RequestsTyped, Holds, Busy
  <2> QED
    BY <1>2, <2>1, <2>2, <2>3, IdleTyped DEF RequestsTyped, Busy
<1>3. CASE todo # {}
  <2>1. PICK q : q = [pc |-> "save", event |-> i, todo |-> todo]
    OBVIOUS
  <2>2. handler' = [handler EXCEPT ![h] = q] /\ settled' = settled
    BY <1>3, <2>1 DEF GoOn
  <2>3. q \in Handler /\ q.pc = "save" /\ q.event = i /\ q.todo = todo
    BY <1>1, <2>1 DEF Handler
  <2>4. /\ handler'[h] = q /\ \A g \in Handlers \ {h} : handler'[g] = handler[g]
        /\ handler' \in [Handlers -> Handler]
    BY <2>2, <2>3 DEF RequestsTyped
  <2>5. \A g \in Handlers : Holds(handler[g])'
    BY <1>3, <2>2, <2>3, <2>4 DEF RequestsTyped, Holds
  <2> QED
    BY <2>2, <2>3, <2>4, <2>5 DEF RequestsTyped, Busy
<1> QED
  BY <1>2, <1>3

LEMMA ClaimTyped ==
    ASSUME TypeInv, NEW h \in Handlers, NEW i \in DOMAIN events, Claim(h, i)
    PROVE  /\ TypeInv' /\ Applied(events[i]) \subseteq Entity
           /\ handler' = [handler EXCEPT ![h] = handler'[h]]
           /\ handler'[h].todo = Applied(events[i])
<1>1. /\ UNCHANGED <<plans, sync, prices, products, events, now, outages>>
      /\ ~Busy(h) /\ i \notin claimed /\ events[i].kind # "ignored"
      /\ claimed' = claimed \cup {i} /\ GoOn(h, i, Applied(events[i]))
      /\ raced' \in BOOLEAN /\ quiet' = FALSE
  BY DEF Claim, gateway
<1>2. events[i] \in Event /\ i \in EventIds
  BY CatalogAssumption DEF TypeInv, GatewayTyped, EventIds
<1>3. Applied(events[i]) \subseteq Entity
  BY <1>1, <1>2, AppliedTyped DEF TypeInv
<1>4. \A g \in Handlers : Busy(g) => handler[g].event # i
  BY <1>1 DEF TypeInv, RequestsTyped, Holds, Busy
<1>5. /\ RequestsTyped' /\ handler' = [handler EXCEPT ![h] = handler'[h]]
      /\ handler'[h].todo = Applied(events[i])
  BY <1>1, <1>2, <1>3, <1>4, GoOnTyped DEF TypeInv, RequestsTyped
<1> QED
  BY <1>1, <1>3, <1>5 DEF TypeInv, GatewayTyped, PlansTyped

LEMMA SaveTyped ==
    ASSUME TypeInv, NEW h \in Handlers, Save(h)
    PROVE  /\ TypeInv'
           /\ \E x \in handler[h].todo :
                 /\ x \in Entity /\ SaveRow(x)
                 /\ handler' = [handler EXCEPT ![h] = handler'[h]]
                 /\ handler'[h].todo = handler[h].todo \ {x}
<1>1. /\ UNCHANGED <<claimed, sync, prices, products, events, now, outages, raced, quiet>>
      /\ handler[h].pc = "save"
  BY DEF Save, gateway
<1>2. PICK x \in handler[h].todo :
         SaveRow(x) /\ GoOn(h, handler[h].event, handler[h].todo \ {x})
  BY DEF Save
<1>3. /\ handler[h] \in Handler /\ handler[h].event \in claimed \ settled
      /\ claimed \subseteq EventIds
  BY <1>1 DEF TypeInv, RequestsTyped, Holds
<1>4. x \in Entity /\ handler[h].todo \ {x} \subseteq Entity
  BY <1>3 DEF Handler
<1>5. \A g \in Handlers \ {h} : Busy(g) => handler[g].event # handler[h].event
  BY <1>1 DEF TypeInv, RequestsTyped, Busy
<1>6. /\ RequestsTyped' /\ handler' = [handler EXCEPT ![h] = handler'[h]]
      /\ handler'[h].todo = handler[h].todo \ {x}
  BY <1>1, <1>2, <1>3, <1>4, <1>5, GoOnTyped DEF TypeInv
<1>7. PlansTyped'
  BY <1>2, <1>4, SavedTyped DEF TypeInv
<1> QED
  BY <1>1, <1>2, <1>4, <1>6, <1>7 DEF TypeInv, GatewayTyped

LEMMA FailureTyped ==
    ASSUME TypeInv, NEW h \in Handlers, DispatchFails(h) \/ Release(h)
    PROVE  /\ TypeInv'
           /\ handler' = [handler EXCEPT ![h] = handler'[h]] /\ handler'[h].todo = {}
<1>1. UNCHANGED <<plans, sync, prices, products, events, now, settled, raced, quiet>>
  BY DEF DispatchFails, Release, gateway
<1>2. handler \in [Handlers -> Handler] /\ Holds(handler[h]) /\ handler[h] \in Handler
  BY DEF TypeInv, RequestsTyped, Holds
<1>3. CASE DispatchFails(h)
  <2>1. PICK q : q = [handler[h] EXCEPT !.pc = "release", !.todo = {}]
    OBVIOUS
  <2>2. handler' = [handler EXCEPT ![h] = q] /\ claimed' = claimed /\ handler[h].pc = "save"
    BY <1>2, <1>3, <2>1 DEF DispatchFails
  <2>3. q \in Handler /\ q.pc = "release" /\ q.todo = {} /\ q.event = handler[h].event
    BY <1>2, <2>1 DEF Handler
  <2>4. /\ handler'[h] = q /\ \A g \in Handlers \ {h} : handler'[g] = handler[g]
        /\ handler' \in [Handlers -> Handler]
    BY <1>2, <2>2, <2>3
  <2>5. RequestsTyped'
    BY <1>1, <1>2, <2>2, <2>3, <2>4 DEF TypeInv, RequestsTyped, Holds, Busy
  <2>6. outages' \in 0 .. MaxOutages
    BY <1>3, CatalogAssumption DEF DispatchFails, TypeInv, GatewayTyped
  <2> QED
    BY <1>1, <2>2, <2>3, <2>4, <2>5, <2>6 DEF TypeInv, GatewayTyped, PlansTyped
<1>4. CASE Release(h)
  <2>1. /\ handler' = [handler EXCEPT ![h] = Idle] /\ claimed' = claimed \ {handler[h].event}
        /\ outages' = outages /\ handler[h].pc = "release"
    BY <1>4 DEF Release
  <2>2. /\ handler'[h] = Idle /\ \A g \in Handlers \ {h} : handler'[g] = handler[g]
        /\ handler' \in [Handlers -> Handler]
    BY <1>2, <2>1, IdleTyped
  <2>3. \A g \in Handlers \ {h} : Busy(g) => handler[g].event # handler[h].event
    BY <2>1 DEF TypeInv, RequestsTyped, Busy
  <2>4. handler[h].event \notin settled
    BY <1>2, <2>1 DEF Holds
  <2>5. RequestsTyped'
    BY <1>1, <2>1, <2>2, <2>3, <2>4, IdleTyped DEF TypeInv, RequestsTyped, Holds, Busy
  <2> QED
    BY <1>1, <2>1, <2>2, <2>5, IdleTyped DEF TypeInv, GatewayTyped, PlansTyped
<1> QED
  BY <1>3, <1>4

(* The reconciliation: nothing but its own record, and a save.             *)
LEMMA SyncToFields ==
    ASSUME sync \in Sync, NEW pc \in {"next", "save"}, NEW left \in SUBSET Entry,
           NEW todo \in SUBSET Entity, SyncTo(pc, left, todo)
    PROVE  /\ sync' \in Sync /\ sync'.entries = left /\ sync'.todo = todo
           /\ sync'.at = sync.at /\ sync'.stamps = sync.stamps
           /\ sync'.pc = IF pc = "next" /\ left = {} THEN "done" ELSE pc
BY DEF SyncTo, Sync

LEMMA ListTyped ==
    ASSUME TypeInv, List
    PROVE  /\ TypeInv' /\ sync'.pc = "stamp" /\ sync'.entries = Listed
           /\ sync'.todo = sync.todo /\ sync'.stamps = sync.stamps
<1>1. /\ UNCHANGED <<plans, claimed, handler, settled, prices, products, events, now, outages>>
      /\ sync' = [sync EXCEPT !.pc = "stamp", !.entries = Listed, !.runs = @ + 1]
      /\ raced' \in BOOLEAN /\ quiet' \in BOOLEAN
  BY DEF List, requests, gateway
<1>2. Listed \subseteq Entry
  BY ListedTyped DEF TypeInv
<1>3. /\ sync' \in Sync /\ sync'.pc = "stamp" /\ sync'.entries = Listed
      /\ sync'.todo = sync.todo /\ sync'.stamps = sync.stamps
  <2>1. sync \in Sync /\ sync.runs \in Nat /\ sync.runs + 1 \in Nat
    BY DEF TypeInv, Sync
  <2>2. PICK runs \in Nat : runs = sync.runs + 1
    BY <2>1
  <2>3. PICK left \in SUBSET Entry : left = Listed
    BY <1>2
  <2>4. sync' = [sync EXCEPT !.pc = "stamp", !.entries = left, !.runs = runs]
    BY <1>1, <2>2, <2>3
  <2> QED
    BY <2>1, <2>3, <2>4 DEF Sync
<1> QED
  BY <1>1, <1>3 DEF TypeInv, GatewayTyped, PlansTyped, RequestsTyped, Holds, Busy

LEMMA StampTyped ==
    ASSUME TypeInv, Stamp
    PROVE  /\ TypeInv' /\ sync'.entries = sync.entries /\ sync'.todo = sync.todo
           /\ sync'.pc = IF sync.entries = {} THEN "done" ELSE "next"
           /\ sync'.at = now /\ sync'.stamps = sync.stamps \cup {now} /\ sync.pc = "stamp"
<1>1. /\ UNCHANGED <<plans, claimed, handler, settled, prices, products, events, now, outages,
                     raced, quiet>>
      /\ sync' = [sync EXCEPT !.pc = IF sync.entries = {} THEN "done" ELSE "next", !.at = now,
                              !.stamps = @ \cup {now}]
      /\ sync.pc = "stamp"
  BY DEF Stamp, requests, gateway
<1>2. /\ sync' \in Sync /\ sync'.entries = sync.entries /\ sync'.todo = sync.todo
      /\ sync'.pc = IF sync.entries = {} THEN "done" ELSE "next"
      /\ sync'.at = now /\ sync'.stamps = sync.stamps \cup {now}
  <2>1. PICK stamps \in SUBSET Times : stamps = sync.stamps \cup {now}
    BY DEF TypeInv, GatewayTyped, Sync
  <2>2. PICK pc \in {"done", "next"} : pc = IF sync.entries = {} THEN "done" ELSE "next"
    OBVIOUS
  <2>3. sync' = [sync EXCEPT !.pc = pc, !.at = now, !.stamps = stamps]
    BY <1>1, <2>1, <2>2
  <2>4. sync \in Sync /\ now \in Times
    BY DEF TypeInv, GatewayTyped
  <2> QED
    BY <2>1, <2>2, <2>3, <2>4 DEF Sync
<1> QED
  BY <1>1, <1>2 DEF TypeInv, GatewayTyped, PlansTyped, RequestsTyped, Holds, Busy

LEMMA LookupTyped ==
    ASSUME TypeInv, ReconcileLookup
    PROVE  /\ TypeInv' /\ sync.pc = "next"
           /\ \E e \in sync.entries :
                 /\ sync'.todo = EntryChanged(e, sync.at, TRUE)
                 /\ sync'.entries = sync.entries \ {e} /\ sync'.at = sync.at
                 /\ sync'.stamps = sync.stamps
                 /\ sync'.pc = IF sync'.todo # {} THEN "save"
                               ELSE IF sync'.entries = {} THEN "done" ELSE "next"
<1>1. /\ UNCHANGED <<plans, claimed, handler, settled, prices, products, events, now, outages,
                     raced, quiet>>
      /\ sync.pc = "next"
  BY DEF ReconcileLookup, requests, gateway
<1>2. PICK e \in sync.entries :
         SyncTo(IF EntryChanged(e, sync.at, TRUE) = {} THEN "next" ELSE "save",
                sync.entries \ {e}, EntryChanged(e, sync.at, TRUE))
  BY DEF ReconcileLookup
<1>3. sync \in Sync /\ e \in Entry /\ sync.at \in Times /\ sync.entries \subseteq Entry
  BY DEF TypeInv, Sync
<1>4. EntryChanged(e, sync.at, TRUE) \subseteq Entity
  BY <1>3, ChangedTyped
<1>5. PICK pc \in {"next", "save"} :
         pc = IF EntryChanged(e, sync.at, TRUE) = {} THEN "next" ELSE "save"
  OBVIOUS
<1>6. /\ sync' \in Sync /\ sync'.entries = sync.entries \ {e}
      /\ sync'.todo = EntryChanged(e, sync.at, TRUE) /\ sync'.at = sync.at
      /\ sync'.stamps = sync.stamps
      /\ sync'.pc = IF pc = "next" /\ sync.entries \ {e} = {} THEN "done" ELSE pc
  <2>1. SyncTo(pc, sync.entries \ {e}, EntryChanged(e, sync.at, TRUE))
    BY <1>2, <1>5
  <2>2. sync.entries \ {e} \in SUBSET Entry
    BY <1>3
  <2> QED
    BY <1>3, <1>4, <2>1, <2>2, SyncToFields
<1>7. TypeInv'
  BY <1>1, <1>6 DEF TypeInv, GatewayTyped, PlansTyped, RequestsTyped, Holds, Busy
<1> QED
  BY <1>1, <1>5, <1>6, <1>7

LEMMA ReconcileSaveTyped ==
    ASSUME TypeInv, ReconcileSave
    PROVE  /\ TypeInv' /\ sync.pc = "save"
           /\ \E x \in sync.todo : x \in Entity /\ SaveRow(x)
           /\ sync'.todo = {} /\ sync'.entries = sync.entries
           /\ sync'.at = sync.at /\ sync'.stamps = sync.stamps
           /\ sync'.pc = IF sync.entries = {} THEN "done" ELSE "next"
<1>1. /\ UNCHANGED <<claimed, handler, settled, prices, products, events, now, outages,
                     raced, quiet>>
      /\ sync.pc = "save" /\ SyncTo("next", sync.entries, {})
  BY DEF ReconcileSave, requests, gateway
<1>2. PICK x \in sync.todo : SaveRow(x)
  BY DEF ReconcileSave
<1>3. sync \in Sync /\ x \in Entity /\ sync.entries \subseteq Entry
  BY DEF TypeInv, Sync
<1>4. /\ sync' \in Sync /\ sync'.entries = sync.entries /\ sync'.todo = {}
      /\ sync'.at = sync.at /\ sync'.stamps = sync.stamps
      /\ sync'.pc = IF sync.entries = {} THEN "done" ELSE "next"
  BY <1>1, <1>3, SyncToFields
<1>5. PlansTyped'
  BY <1>2, <1>3, SavedTyped DEF TypeInv
<1> QED
  BY <1>1, <1>2, <1>3, <1>4, <1>5 DEF TypeInv, GatewayTyped, RequestsTyped, Holds, Busy

LEMMA ReconcileFailsTyped ==
    ASSUME TypeInv, ReconcileFails
    PROVE  /\ TypeInv' /\ sync'.pc = "idle" /\ sync'.entries = {} /\ sync'.todo = {}
           /\ sync'.stamps = sync.stamps
<1>1. /\ UNCHANGED <<plans, claimed, handler, settled, prices, products, events, now, raced,
                     quiet>>
      /\ sync' = [sync EXCEPT !.pc = "idle", !.entries = {}, !.todo = {}]
  BY DEF ReconcileFails, requests, gateway
<1>2. /\ sync' \in Sync /\ sync'.pc = "idle" /\ sync'.entries = {} /\ sync'.todo = {}
      /\ sync'.stamps = sync.stamps
  BY <1>1 DEF TypeInv, Sync
<1>3. outages' \in 0 .. MaxOutages
  BY CatalogAssumption DEF ReconcileFails, TypeInv, GatewayTyped
<1> QED
  BY <1>1, <1>2, <1>3 DEF TypeInv, GatewayTyped, PlansTyped, RequestsTyped, Holds, Busy

LEMMA TickTyped ==
    ASSUME TypeInv, Tick
    PROVE  TypeInv'
<1>1. /\ UNCHANGED <<plans, claimed, handler, settled, sync, prices, products, events, outages,
                     raced, quiet>>
      /\ now' \in Times
  BY CatalogAssumption DEF Tick, requests, gateway, TypeInv, GatewayTyped, Times
<1> QED
  BY <1>1 DEF TypeInv, GatewayTyped, PlansTyped, RequestsTyped, Holds, Busy

LEMMA TypeStep == TypeInv /\ [Next]_vars => TypeInv'
<1> SUFFICES ASSUME TypeInv, [Next]_vars PROVE TypeInv'
  OBVIOUS
<1>1. CASE UNCHANGED vars
  BY <1>1 DEF vars, TypeInv, GatewayTyped, PlansTyped, RequestsTyped, Holds, Busy
<1>2. CASE Reconciliation
  BY <1>2, ListTyped, StampTyped, LookupTyped, ReconcileSaveTyped, ReconcileFailsTyped
     DEF Reconciliation
<1>3. ASSUME NEW h \in Handlers, Webhook(h) PROVE TypeInv'
  BY <1>3, SaveTyped, FailureTyped, ClaimTyped DEF Webhook
<1> QED
  BY <1>1, <1>2, <1>3, GatewayTypes, TickTyped DEF Next

LEMMA InitTyped == Init => TypeInv
<1> SUFFICES ASSUME Init PROVE TypeInv
  OBVIOUS
<1>1. GatewayTyped
  <2>1. 0 \in Times /\ 0 \in 0 .. MaxOutages /\ MaxEvents \in Nat
    BY CatalogAssumption DEF Times
  <2>2. ASSUME NEW q \in NoPrice \cup NewPrice
        PROVE  /\ q \in Price
               /\ IF q.state = "none" THEN ~Parses(q) ELSE q.trial \in Trials
    <3>1. CASE q \in NoPrice
      <4>1. q = [state |-> "none", code |-> None, trial |-> 0, moved |-> FALSE]
        BY <3>1 DEF NoPrice
      <4>2. q \in Price
        BY <4>1 DEF Price
      <4> QED
        BY <4>1, <4>2 DEF Parses
    <3>2. CASE q \in NewPrice
      BY <3>2 DEF NewPrice, Price, Parses
    <3> QED
      BY <3>1, <3>2
  <2>3. prices \in [Prices -> NoPrice \cup NewPrice]
    BY DEF Init
  <2>4. \A p \in Prices : prices[p] \in NoPrice \cup NewPrice
    BY <2>3
  <2>5. /\ prices \in [Prices -> Price]
        /\ \A p \in Prices : IF prices[p].state = "none" THEN ~Parses(prices[p])
                                                    ELSE prices[p].trial \in Trials
    BY <2>2, <2>3, <2>4
  <2>6. events \in Seq(Event) /\ Len(events) = 0
    BY DEF Init
  <2>7. products \in [Products -> {"active", "inactive", "deleted"}]
    BY DEF Init
  <2>8. now \in Times /\ outages \in 0 .. MaxOutages /\ raced \in BOOLEAN /\ quiet \in BOOLEAN
    BY <2>1 DEF Init
  <2>9. Len(events) <= MaxEvents
    BY <2>1, <2>6
  <2> QED
    BY <2>5, <2>6, <2>7, <2>8, <2>9 DEF GatewayTyped
<1>2. PlansTyped /\ RequestsTyped
  BY IdleTyped DEF Init, PlansTyped, RequestsTyped, Holds, Busy
<1>3. sync \in Sync
  BY CatalogAssumption DEF Init, Resting, Sync, Times
<1> QED
  BY <1>1, <1>2, <1>3 DEF TypeInv

LEMMA TypeAlways == Spec => []TypeInv
BY InitTyped, TypeStep, PTL DEF Spec

-----------------------------------------------------------------------------
(* Soundness: the free plan's guard, and whose price a plan names.         *)

(* What a step may not do to the prices, for names to stay right.          *)
KeepsNames == \A p \in Prices, c \in Codes : Honest(p, c) => Honest(p, c)'

LEMMA SoundPlans ==
    ASSUME KeepsNames
    PROVE  \A q \in Plan : Sound(q) => Sound(q)'
BY DEF KeepsNames, Sound, FreeOK, Plan

LEMMA SamePrices == UNCHANGED prices => KeepsNames
BY DEF KeepsNames, Honest

(* What is stored, about to be saved, listed or emitted is typed.          *)
LEMMA SoundTyped ==
    ASSUME TypeInv
    PROVE  /\ \A c \in Codes : plans[c] # None => plans[c] \in Plan
           /\ \A h \in Handlers : \A x \in handler[h].todo : x.plan \in Plan
           /\ \A x \in sync.todo : x.plan \in Plan
           /\ \A e \in sync.entries : e.price \in Prices /\ e.code \in Codes
           /\ \A i \in DOMAIN events :
                 /\ events[i] \in Event
                 /\ events[i].kind = "entry_changed"
                       => events[i].entry.price \in Prices /\ events[i].entry.code \in Codes
<1>1. \A c \in Codes : plans[c] # None => plans[c] \in Plan
  BY DEF TypeInv, PlansTyped
<1>2. \A h \in Handlers : \A x \in handler[h].todo : x.plan \in Plan
  BY DEF TypeInv, RequestsTyped, Handler, Entity
<1>3. \A x \in sync.todo : x.plan \in Plan
  BY DEF TypeInv, Sync, Entity
<1>4. \A e \in sync.entries : e.price \in Prices /\ e.code \in Codes
  BY DEF TypeInv, Sync, Entry
<1>5. \A i \in DOMAIN events : events[i] \in Event
  BY DEF TypeInv, GatewayTyped
<1>6. \A e \in Event : e.kind = "entry_changed" => e.entry.price \in Prices /\ e.entry.code \in Codes
  BY EventFields DEF Entry
<1> QED
  BY <1>1, <1>2, <1>3, <1>4, <1>5, <1>6

LEMMA EmitSound ==
    ASSUME TypeInv, SoundInv, KeepsNames, NEW e \in Event, Emit(e),
           e.kind = "entry_changed" => Honest(e.entry.price, e.entry.code)'
    PROVE  SoundInv'
<1>1. /\ UNCHANGED <<plans, handler, sync>>
      /\ events' = Append(events, e)
  BY DEF Emit, requests
<1>2. \A c \in Codes : plans[c] # None => Sound(plans[c])'
  BY <1>1, SoundTyped, SoundPlans DEF SoundInv, Sound, Honest, FreeOK
<1>3. \A h \in Handlers : \A x \in handler[h].todo : Sound(x.plan)'
  BY SoundTyped, SoundPlans DEF SoundInv
<1>4. \A x \in sync.todo : Sound(x.plan)'
  BY SoundTyped, SoundPlans DEF SoundInv
<1>5. \A f \in sync.entries : Honest(f.price, f.code)'
  BY SoundTyped DEF SoundInv, KeepsNames
<1>6. ASSUME NEW i \in DOMAIN events', events'[i].kind = "entry_changed"
      PROVE  Honest(events[i].entry.price, events[i].entry.code)'
  <2>1. events \in Seq(Event)
    BY DEF TypeInv, GatewayTyped
  <2>2. CASE i = Len(events) + 1
    BY <1>1, <1>6, <2>1, <2>2 DEF Honest
  <2>3. CASE i # Len(events) + 1
    <3>1. i \in DOMAIN events /\ events'[i] = events[i]
      BY <1>1, <2>1, <2>3
    <3> QED
      BY <1>6, <3>1, SoundTyped DEF SoundInv, KeepsNames, Honest
  <2> QED
    BY <2>2, <2>3
<1> QED
  BY <1>1, <1>2, <1>3, <1>4, <1>5, <1>6 DEF SoundInv, Sound, Honest

LEMMA PriceToSound ==
    ASSUME TypeInv, SoundInv, NEW p \in Prices, NEW price \in Price, price.trial \in Trials,
           price.state # "none", PriceTo(p, price),
           \/ prices[p].state = "none" \/ price.moved
           \/ price.code = prices[p].code /\ (price.moved <=> prices[p].moved)
    PROVE  SoundInv'
<1>1. /\ prices' = [prices EXCEPT ![p] = price] /\ Emit(ChangedEvent(p, price))
      /\ prices \in [Prices -> Price]
  BY DEF PriceTo, TypeInv, GatewayTyped
<1>2. prices'[p] = price /\ \A q \in Prices \ {p} : prices'[q] = prices[q]
  BY <1>1
<1>3. KeepsNames
  BY <1>2 DEF KeepsNames, Honest
<1>4. /\ ChangedEvent(p, price) \in Event
      /\ ChangedEvent(p, price).kind = "entry_changed"
            => /\ ChangedEvent(p, price).entry.price = p
               /\ ChangedEvent(p, price).entry.code = price.code
  BY ChangedEventTyped DEF TypeInv
<1>5. PICK e \in Event : e = ChangedEvent(p, price)
  BY <1>4
<1>6. e.kind = "entry_changed" => Honest(e.entry.price, e.entry.code)'
  BY <1>2, <1>4, <1>5 DEF Honest
<1> QED
  BY <1>1, <1>3, <1>5, <1>6, EmitSound

LEMMA GatewaySound ==
    ASSUME TypeInv, SoundInv, Gateway
    PROVE  SoundInv'
<1>1. ASSUME NEW p \in Prices, CreatePrice(p) PROVE SoundInv'
  <2>1. PICK price \in NewPrice : PriceTo(p, price)
    BY <1>1 DEF CreatePrice
  <2>2. price \in Price /\ price.trial \in Trials /\ price.state # "none"
    BY DEF NewPrice, Price
  <2> QED
    BY <1>1, <2>1, <2>2, PriceToSound DEF CreatePrice
<1>2. ASSUME NEW p \in Prices, UpdatePrice(p) PROVE SoundInv'
  BY <1>2, UpdatesKeepFields, PriceToSound DEF TypeInv
<1>3. SecondOf(now) \in Times /\ prices \in [Prices -> Price]
      /\ products \in [Products -> {"active", "inactive", "deleted"}]
  BY SecondsAreTimes DEF TypeInv, GatewayTyped
<1>4. ASSUME NEW p \in Prices, DeletePrice(p) PROVE SoundInv'
  <2>1. PICK e : e = [kind |-> "entry_retired", at |-> SecondOf(now), price |-> p]
    OBVIOUS
  <2>2. e \in Event /\ e.kind # "entry_changed"
    BY <1>3, <2>1 DEF Event
  <2>3. PICK price : price = [prices[p] EXCEPT !.state = "deleted"]
    OBVIOUS
  <2>4. price.state = "deleted" /\ price.code = prices[p].code /\ price.moved = prices[p].moved
    BY <1>3, <2>3 DEF Price
  <2>5. prices' = [prices EXCEPT ![p] = price]
    BY <1>4, <2>3 DEF DeletePrice
  <2>6. KeepsNames
    BY <1>3, <2>4, <2>5 DEF KeepsNames, Honest
  <2> QED
    BY <1>4, <2>1, <2>2, <2>6, EmitSound DEF DeletePrice
<1>5. ASSUME NEW x \in Products, UpdateProduct(x) PROVE SoundInv'
  <2>1. PICK e : e = [kind |-> "product_changed", at |-> SecondOf(now), product |-> x,
                      offered |-> products'[x] = "active"]
    OBVIOUS
  <2>2. e \in Event /\ e.kind # "entry_changed"
    BY <1>3, <2>1 DEF Event
  <2>3. Emit(e) /\ prices' = prices
    BY <1>5, <2>1 DEF UpdateProduct
  <2> QED
    BY <2>2, <2>3, SamePrices, EmitSound
<1>6. ASSUME NEW x \in Products, DeleteProduct(x) PROVE SoundInv'
  <2>1. PICK e : e = [kind |-> "product_retired", at |-> SecondOf(now), product |-> x]
    OBVIOUS
  <2>2. e \in Event /\ e.kind # "entry_changed"
    BY <1>3, <2>1 DEF Event
  <2>3. Emit(e) /\ prices' = prices
    BY <1>6, <2>1 DEF DeleteProduct
  <2> QED
    BY <2>2, <2>3, SamePrices, EmitSound
<1> QED
  BY <1>1, <1>2, <1>4, <1>5, <1>6 DEF Gateway

(* A request writes what it decided on, and decides on sound plans.        *)
LEMMA WebhookSound ==
    ASSUME TypeInv, SoundInv, NEW h \in Handlers, Webhook(h)
    PROVE  SoundInv'
<1>1. handler \in [Handlers -> Handler]
  BY DEF TypeInv, RequestsTyped
<1>2. ASSUME NEW i \in DOMAIN events, Claim(h, i) PROVE SoundInv'
  <2>1. UNCHANGED <<plans, sync, prices, events>> /\ events[i].kind # "ignored"
    BY <1>2 DEF Claim, gateway
  <2>2. /\ Applied(events[i]) \subseteq Entity
        /\ handler' = [handler EXCEPT ![h] = handler'[h]]
        /\ handler'[h].todo = Applied(events[i])
    BY <1>2, ClaimTyped
  <2>3. events[i] \in Event /\ PlansTyped
    BY SoundTyped DEF TypeInv
  <2>4. \A x \in Applied(events[i]) : Sound(x.plan)
    BY <2>1, <2>3, AppliedTyped DEF SoundInv, Sound
  <2>5. \A g \in Handlers : \A x \in handler'[g].todo : Sound(x.plan)
    BY <1>1, <2>2, <2>4 DEF SoundInv
  <2> QED
    BY <2>1, <2>5 DEF SoundInv, Sound, Honest, FreeOK
<1>3. CASE Save(h)
  <2>1. UNCHANGED <<sync, prices, events>>
    BY <1>3 DEF Save, gateway
  <2>2. PICK x \in handler[h].todo :
           /\ x \in Entity /\ SaveRow(x)
           /\ handler' = [handler EXCEPT ![h] = handler'[h]]
           /\ handler'[h].todo = handler[h].todo \ {x}
    BY <1>3, SaveTyped
  <2>3. Sound(x.plan)
    BY <2>2 DEF SoundInv
  <2>4. \A c \in Codes : plans'[c] # None => Sound(plans'[c])
    BY <2>2, <2>3, SavedTyped DEF TypeInv, SoundInv
  <2>5. \A g \in Handlers : \A y \in handler'[g].todo : Sound(y.plan)
    BY <1>1, <2>2 DEF SoundInv
  <2> QED
    BY <2>1, <2>4, <2>5 DEF SoundInv, Sound, Honest, FreeOK
<1>4. CASE DispatchFails(h) \/ Release(h)
  <2>1. UNCHANGED <<plans, sync, prices, events>>
    BY <1>4 DEF DispatchFails, Release, gateway
  <2>2. handler' = [handler EXCEPT ![h] = handler'[h]] /\ handler'[h].todo = {}
    BY <1>4, FailureTyped
  <2>3. \A g \in Handlers : \A y \in handler'[g].todo : Sound(y.plan)
    BY <1>1, <2>2 DEF SoundInv
  <2> QED
    BY <2>1, <2>3 DEF SoundInv, Sound, Honest, FreeOK
<1> QED
  BY <1>2, <1>3, <1>4 DEF Webhook

LEMMA ReconciliationSound ==
    ASSUME TypeInv, SoundInv, Reconciliation
    PROVE  SoundInv'
<1>1. UNCHANGED <<handler, prices, events>>
  BY DEF Reconciliation, List, Stamp, ReconcileLookup, ReconcileSave, ReconcileFails, requests,
         gateway
<1>2. ASSUME \A c \in Codes : plans'[c] # None => Sound(plans'[c]),
             \A x \in sync'.todo : Sound(x.plan),
             \A e \in sync'.entries : Honest(e.price, e.code)
      PROVE  SoundInv'
  BY <1>1, <1>2 DEF SoundInv, Sound, Honest, FreeOK
<1>3. CASE List
  <2>1. plans' = plans /\ sync'.entries = Listed /\ sync'.todo = sync.todo
    BY <1>3, ListTyped DEF List
  <2>2. ASSUME NEW e \in Listed PROVE Honest(e.price, e.code)
    <3>1. PICK p \in Prices : /\ prices[p].state \in {"active", "inactive"}
                              /\ Parses(prices[p]) /\ e = Current(p)
      BY ListedTyped DEF TypeInv
    <3>2. e.price = p /\ e.code = prices[p].code
      BY <3>1 DEF Current, EntryOf
    <3> QED
      BY <3>1, <3>2 DEF Honest
  <2> QED
    BY <1>2, <2>1, <2>2 DEF SoundInv
<1>4. CASE Stamp
  BY <1>2, <1>4, StampTyped DEF Stamp, SoundInv
<1>5. CASE ReconcileLookup
  <2>1. PICK e \in sync.entries : /\ sync'.todo = EntryChanged(e, sync.at, TRUE)
                                  /\ sync'.entries = sync.entries \ {e}
    BY <1>5, LookupTyped
  <2>2. plans' = plans /\ e \in Entry /\ sync.at \in Times
    BY <1>5 DEF ReconcileLookup, TypeInv, Sync
  <2>3. \A x \in EntryChanged(e, sync.at, TRUE) : x.plan = Copied(e, sync.at)
    BY <2>2, ChangedTyped
  <2>4. Sound(Copied(e, sync.at))
    BY <2>2, CopiedTyped DEF Sound, SoundInv
  <2> QED
    BY <1>2, <2>1, <2>2, <2>3, <2>4 DEF SoundInv
<1>6. CASE ReconcileSave
  <2>1. PICK x \in sync.todo : x \in Entity /\ SaveRow(x)
    BY <1>6, ReconcileSaveTyped
  <2>2. sync'.todo = {} /\ sync'.entries = sync.entries
    BY <1>6, ReconcileSaveTyped
  <2>3. \A c \in Codes : plans'[c] # None => Sound(plans'[c])
    BY <2>1, SavedTyped DEF TypeInv, SoundInv
  <2> QED
    BY <1>2, <2>2, <2>3 DEF SoundInv
<1>7. CASE ReconcileFails
  BY <1>2, <1>7, ReconcileFailsTyped DEF ReconcileFails, SoundInv
<1> QED
  BY <1>3, <1>4, <1>5, <1>6, <1>7 DEF Reconciliation

LEMMA SoundStep == TypeInv /\ SoundInv /\ [Next]_vars => SoundInv'
<1> SUFFICES ASSUME TypeInv, SoundInv, [Next]_vars PROVE SoundInv'
  OBVIOUS
<1>1. CASE UNCHANGED vars \/ Tick
  <2>1. UNCHANGED <<plans, handler, sync, prices, events>>
    BY <1>1 DEF vars, Tick, requests, gateway
  <2> QED
    BY <2>1 DEF SoundInv, Sound, Honest, FreeOK
<1> QED
  BY <1>1, GatewaySound, WebhookSound, ReconciliationSound DEF Next

LEMMA InitSound == Init => SoundInv
BY DEF Init, SoundInv, Idle, Resting

LEMMA SoundAlways == Spec => [](TypeInv /\ SoundInv)
BY InitTyped, TypeStep, InitSound, SoundStep, PTL DEF Spec

-----------------------------------------------------------------------------
(* An undisturbed reconciliation heals.                                    *)

(* What Healed says, with the plan of the price's code named.              *)
HealedBy(row, p) ==
    ~prices[p].moved =>
       /\ Claiming(prices[p].code) = {p} => /\ row # None /\ row.ref = p
                                            /\ Mirrors(row, Current(p))
       /\ prices[p].code # "free" /\ Claiming(prices[p].code) = {}
          /\ prices[p].state = "inactive" /\ row # None /\ row.ref = p => ~row.offered

LEMMA HealedByRow == \A p \in Prices : Healed(p) <=> HealedBy(plans[prices[p].code], p)
BY DEF Healed, HealedBy

(* With the prices as they are, what is listed and healed depends on the   *)
(* rows alone.                                                             *)
LEMMA SameList ==
    ASSUME UNCHANGED prices
    PROVE  /\ Listed' = Listed
           /\ \A p \in Prices : Current(p)' = Current(p)
           /\ \A p \in Prices : \A row : HealedBy(row, p)' <=> HealedBy(row, p)
<1>1. Listed' = Listed
  BY DEF Listed, Parses, EntryOf
<1>2. \A p \in Prices : Current(p)' = Current(p)
  BY DEF Current
<1>3. ASSUME NEW p \in Prices, NEW row PROVE HealedBy(row, p)' <=> HealedBy(row, p)
  <2>1. \A c : Claiming(c)' = Claiming(c)
    BY DEF Claiming
  <2> QED
    BY <1>2, <2>1 DEF HealedBy
<1> QED
  BY <1>1, <1>2, <1>3

LEMMA HealedAfter ==
    ASSUME UNCHANGED prices
    PROVE  \A p \in Prices : Healed(p)' <=> HealedBy(plans'[prices[p].code], p)
<1> SUFFICES ASSUME NEW p \in Prices
             PROVE  Healed(p)' <=> HealedBy(plans'[prices[p].code], p)
  OBVIOUS
<1>1. HealedBy(plans[prices[p].code], p)' <=> Healed(p)'
  BY DEF Healed, HealedBy
<1>2. PICK row : row = plans'[prices[p].code]
  OBVIOUS
<1>3. HealedBy(row, p)' <=> HealedBy(row, p)
  BY SameList
<1>4. HealedBy(row, p)' <=> HealedBy(plans[prices[p].code], p)'
  BY <1>2 DEF HealedBy
<1> QED
  BY <1>1, <1>2, <1>3, <1>4

(* A listed entry is that of one price.                                    *)
LEMMA EntryOfOne ==
    ASSUME TypeInv, NEW e \in Listed
    PROVE  /\ e \in Entry /\ e.price \in Prices /\ e = Current(e.price)
           /\ e.code = prices[e.price].code /\ prices[e.price].state \in {"active", "inactive"}
           /\ e.offered <=> prices[e.price].state = "active"
           /\ \A p \in Prices : Current(p) = e => p = e.price
<1>1. PICK p \in Prices : /\ prices[p].state \in {"active", "inactive"} /\ Parses(prices[p])
                          /\ e = Current(p)
  BY ListedTyped DEF TypeInv
<1>2. e \in Entry
  BY ListedTyped DEF TypeInv
<1>3. e.price = p /\ e.code = prices[p].code /\ e.offered = (prices[p].state = "active")
  BY <1>1, Zenon DEF Current, EntryOf
<1>4. \A q \in Prices : Current(q).price = q
  BY DEF Current, EntryOf
<1> QED
  BY <1>1, <1>2, <1>3, <1>4

(* Nothing is applied of an archived price its plan is not linked to.      *)
LEMMA NothingToHeal ==
    ASSUME TypeInv, NEW e \in Listed, NEW at \in Times, EntryChanged(e, at, TRUE) = {}
    PROVE  Healed(e.price)
<1>1. plans[e.code] # None /\ ~e.offered /\ plans[e.code].ref # e.price
  BY DEF EntryChanged, Linked
<1>2. /\ e.price \in Prices /\ e.code = prices[e.price].code
      /\ prices[e.price].state # "active"
  BY <1>1, EntryOfOne
<1>3. Claiming(prices[e.price].code) # {e.price}
  BY <1>2 DEF Claiming
<1> QED
  BY <1>1, <1>2, <1>3, HealedByRow DEF HealedBy

(* A save of the reconciliation heals its entry and breaks no other.       *)
LEMMA SaveHeals ==
    ASSUME TypeInv, SoundInv, NEW e \in Listed, NEW at \in Times,
           NEW x \in EntryChanged(e, at, TRUE), SaveRow(x), UNCHANGED prices
    PROVE  /\ HealedBy(plans'[e.code], e.price)
           /\ \A p \in Prices : Healed(p) => HealedBy(plans'[prices[p].code], p)
<1>1. /\ e \in Entry /\ e.price \in Prices /\ e = Current(e.price)
      /\ e.code = prices[e.price].code /\ e.code \in Codes
      /\ prices[e.price].state \in {"active", "inactive"}
      /\ e.offered <=> prices[e.price].state = "active"
  BY EntryOfOne DEF Entry
<1>2. x \in Entity /\ x.plan = Copied(e, at) /\ (x.fresh <=> plans[e.code] = None)
  BY <1>1, ChangedTyped
<1>3. /\ Copied(e, at) \in Plan /\ Copied(e, at).code = e.code /\ Copied(e, at).ref = e.price
      /\ Copied(e, at).eventAt = at
      /\ e.code # "free" => (Copied(e, at).offered <=> e.offered)
  BY <1>1, CopiedTyped
<1>4. plans[e.code] = None \/ e.offered \/ plans[e.code].ref = e.price
  BY DEF EntryChanged, Linked
<1>5. ~prices[e.price].moved => ~Refused(x)
  <2>1. ~(x.fresh /\ CodeTaken(x.plan))
    BY <1>2, <1>3 DEF CodeTaken
  <2>2. ASSUME NEW q \in Stored, q.code # e.code, q.ref = e.price PROVE prices[e.price].moved
    <3>1. PICK c \in Codes : q = plans[c] /\ plans[c] # None
      BY DEF Stored
    <3>2. Honest(q.ref, q.code)
      BY <3>1 DEF SoundInv, Sound
    <3> QED
      BY <1>1, <2>2, <3>2 DEF Honest
  <2> QED
    BY <1>2, <1>3, <2>1, <2>2 DEF Refused, ReferenceTaken
<1>6. CASE Refused(x)
  <2>1. plans' = plans /\ prices[e.price].moved
    BY <1>5, <1>6 DEF SaveRow
  <2> QED
    BY <2>1, HealedByRow DEF HealedBy
<1>7. CASE ~Refused(x)
  <2>1. plans' = [plans EXCEPT ![e.code] = Copied(e, at)]
    BY <1>2, <1>3, <1>7 DEF SaveRow
  <2>2. plans'[e.code] = Copied(e, at) /\ \A c \in Codes \ {e.code} : plans'[c] = plans[c]
    BY <1>1, <2>1 DEF TypeInv, PlansTyped
  <2>3. Copied(e, at) # None
    BY <1>3, NoneIsNoPlan
  <2>4. Mirrors(Copied(e, at), e)
    BY <1>3 DEF Mirrors
  <2>5. HealedBy(Copied(e, at), e.price)
    BY <1>1, <1>3, <2>3, <2>4 DEF HealedBy
  <2>6. ASSUME NEW p \in Prices, Healed(p)
        PROVE  HealedBy(plans'[prices[p].code], p)
    <3>1. HealedBy(plans[prices[p].code], p)
      BY <2>6, HealedByRow
    <3>2. CASE p = e.price
      BY <1>1, <2>2, <2>5, <3>2
    <3>3. CASE prices[p].code # e.code
      <4>1. CASE prices[p].code \in Codes
        BY <2>2, <3>1, <3>3, <4>1
      <4>2. CASE prices[p].code \notin Codes
        <5>1. plans'[prices[p].code] = plans[prices[p].code]
          BY <2>1, <4>2 DEF TypeInv, PlansTyped
        <5> QED
          BY <3>1, <5>1
      <4> QED
        BY <4>1, <4>2
    <3>4. CASE p # e.price /\ prices[p].code = e.code
      <4>1. ASSUME ~prices[p].moved, Claiming(e.code) = {p} PROVE FALSE
        <5>1. plans[e.code] # None /\ plans[e.code].ref = p
          BY <3>1, <3>4, <4>1 DEF HealedBy
        <5>2. e.offered
          BY <1>4, <3>4, <5>1
        <5>3. e.price \in Claiming(e.code)
          BY <1>1, <5>2 DEF Claiming
        <5> QED
          BY <3>4, <4>1, <5>3
      <4> QED
        BY <1>3, <2>2, <3>4, <4>1 DEF HealedBy
    <3> QED
      BY <3>2, <3>3, <3>4
  <2> QED
    BY <2>2, <2>5, <2>6
<1> QED
  BY <1>6, <1>7

(* The steps of the reconciliation, one by one.                            *)
LEMMA ReconciliationQuiet ==
    ASSUME TypeInv, SoundInv, HealInv, Reconciliation
    PROVE  HealInv'
<1>1. UNCHANGED <<handler, prices>>
  BY DEF Reconciliation, List, Stamp, ReconcileLookup, ReconcileSave, ReconcileFails, requests,
         gateway
<1>2. /\ Listed' = Listed
      /\ \A p \in Prices : Current(p)' = Current(p)
      /\ \A p \in Prices : \A row : HealedBy(row, p)' <=> HealedBy(row, p)
  BY <1>1, SameList
<1>3. CASE List
  <2>1. sync'.pc = "stamp" /\ sync'.entries = Listed
    BY <1>3, ListTyped
  <2>2. quiet' => \A h \in Handlers : ~Busy(h)
    BY <1>3 DEF List
  <2> QED
    BY <1>1, <1>2, <2>1, <2>2 DEF HealInv, QuietInv, Busy
<1>4. CASE Stamp
  <2>1. /\ sync.pc = "stamp" /\ sync'.entries = sync.entries
        /\ sync'.pc = IF sync.entries = {} THEN "done" ELSE "next"
        /\ quiet' = quiet
    BY <1>4, StampTyped DEF Stamp
  <2>2. quiet => sync.entries = Listed /\ \A h \in Handlers : ~Busy(h)
    BY <2>1 DEF HealInv, QuietInv
  <2> QED
    BY <1>1, <1>2, <2>1, <2>2 DEF HealInv, QuietInv, HealedBut, Busy
<1>5. CASE ReconcileLookup
  <2>1. quiet' = quiet /\ plans' = plans /\ sync.pc = "next"
    BY <1>5 DEF ReconcileLookup
  <2>2. PICK e \in sync.entries :
           /\ sync'.todo = EntryChanged(e, sync.at, TRUE)
           /\ sync'.entries = sync.entries \ {e} /\ sync'.at = sync.at
           /\ sync'.pc = IF sync'.todo # {} THEN "save"
                         ELSE IF sync'.entries = {} THEN "done" ELSE "next"
    BY <1>5, LookupTyped
  <2>3. ASSUME quiet PROVE QuietInv'
    <3>1. /\ \A h \in Handlers : ~Busy(h)
          /\ sync.entries \subseteq Listed /\ HealedBut(sync.entries)
      BY <2>1, <2>3 DEF HealInv, QuietInv
    <3>2. sync.at \in Times /\ e \in Listed
      BY <3>1 DEF TypeInv, Sync
    <3>3. \A p \in Prices : Healed(p) => Healed(p)'
      BY <1>1, <2>1, HealedByRow, HealedAfter
    <3>4. CASE sync'.todo # {}
      <4>1. EntryChanged(e, sync.at, TRUE)' = EntryChanged(e, sync.at, TRUE)
        BY <2>1, <2>2 DEF EntryChanged
      <4>2. HealedBut(sync.entries \cup {e})'
        BY <1>2, <2>2, <3>1, <3>3 DEF HealedBut
      <4> QED
        BY <1>1, <1>2, <2>2, <3>1, <3>2, <3>4, <4>1, <4>2 DEF QuietInv, Busy
    <3>5. CASE sync'.todo = {}
      <4>1. Healed(e.price)
        BY <2>2, <3>2, <3>5, NothingToHeal
      <4>2. \A p \in Prices : Current(p) = e => p = e.price
        BY <3>2, EntryOfOne
      <4>3. \A p \in Prices : Current(p) \in Listed \ sync'.entries => Healed(p)
        BY <2>2, <3>1, <4>1, <4>2 DEF HealedBut
      <4>4. HealedBut(sync.entries)'
        BY <1>2, <3>3, <4>3 DEF HealedBut
      <4> QED
        BY <1>1, <1>2, <2>2, <3>1, <3>5, <4>4 DEF QuietInv, Busy
    <3> QED
      BY <3>4, <3>5
  <2> QED
    BY <2>1, <2>2, <2>3 DEF HealInv
<1>6. CASE ReconcileSave
  <2>1. /\ quiet' = quiet /\ sync.pc = "save" /\ sync'.entries = sync.entries
        /\ sync'.pc = IF sync.entries = {} THEN "done" ELSE "next"
    BY <1>6, ReconcileSaveTyped DEF ReconcileSave
  <2>2. PICK x \in sync.todo : x \in Entity /\ SaveRow(x)
    BY <1>6, ReconcileSaveTyped
  <2>3. ASSUME quiet PROVE QuietInv'
    <3>1. (\A h \in Handlers : ~Busy(h)) /\ sync.entries \subseteq Listed
      BY <2>1, <2>3 DEF HealInv, QuietInv
    <3>2. PICK e \in Listed \ sync.entries : /\ sync.todo = EntryChanged(e, sync.at, TRUE)
                                             /\ HealedBut(sync.entries \cup {e})
      BY <2>1, <2>3 DEF HealInv, QuietInv
    <3>3. sync.at \in Times
      BY DEF TypeInv, Sync
    <3>4. /\ HealedBy(plans'[e.code], e.price)
          /\ \A p \in Prices : Healed(p) => HealedBy(plans'[prices[p].code], p)
      BY <1>1, <2>2, <3>2, <3>3, SaveHeals
    <3>5. e.price \in Prices /\ e.code = prices[e.price].code
          /\ \A p \in Prices : Current(p) = e => p = e.price
      BY EntryOfOne
    <3>6. ASSUME NEW p \in Prices, Current(p) \in Listed \ sync.entries PROVE Healed(p)'
      <4>1. HealedBy(plans'[prices[p].code], p)
        BY <3>2, <3>4, <3>5, <3>6 DEF HealedBut
      <4>2. Healed(p)' <=> HealedBy(plans'[prices[p].code], p)
        BY <1>1, HealedAfter
      <4> QED
        BY <4>1, <4>2
    <3>7. HealedBut(sync.entries)'
      BY <1>2, <2>1, <3>6 DEF HealedBut
    <3> QED
      BY <1>1, <1>2, <2>1, <3>1, <3>7 DEF QuietInv, Busy
  <2> QED
    BY <2>1, <2>3 DEF HealInv
<1>7. CASE ReconcileFails
  <2>1. quiet' = quiet /\ sync'.pc = "idle"
    BY <1>7, ReconcileFailsTyped DEF ReconcileFails
  <2> QED
    BY <1>1, <2>1 DEF HealInv, QuietInv, Busy
<1> QED
  BY <1>3, <1>4, <1>5, <1>6, <1>7 DEF Reconciliation

LEMMA HealStep == TypeInv /\ SoundInv /\ HealInv /\ [Next]_vars => HealInv'
<1> SUFFICES ASSUME TypeInv, SoundInv, HealInv, [Next]_vars PROVE HealInv'
  OBVIOUS
<1>1. CASE UNCHANGED vars \/ Tick
  <2>1. UNCHANGED <<plans, handler, sync, prices, quiet>>
    BY <1>1 DEF vars, Tick, requests, gateway
  <2>2. /\ Listed' = Listed
        /\ \A p \in Prices : Current(p)' = Current(p)
        /\ \A p \in Prices : \A row : HealedBy(row, p)' <=> HealedBy(row, p)
    BY <2>1, SameList
  <2>3. \A p \in Prices : Healed(p)' <=> Healed(p)
    BY <2>1, HealedByRow, HealedAfter
  <2>4. \A S : HealedBut(S)' <=> HealedBut(S)
    BY <2>2, <2>3 DEF HealedBut
  <2>5. \A e : EntryChanged(e, sync.at, TRUE)' = EntryChanged(e, sync.at, TRUE)
    BY <2>1 DEF EntryChanged
  <2> QED
    BY <2>1, <2>2, <2>4, <2>5 DEF HealInv, QuietInv, Busy
<1>2. CASE Gateway
  <2>1. quiet' = FALSE /\ sync' = sync
    BY <1>2 DEF Gateway, CreatePrice, UpdatePrice, DeletePrice, UpdateProduct, DeleteProduct,
                PriceTo, Emit
  <2> QED
    BY <2>1 DEF HealInv
<1>3. ASSUME NEW h \in Handlers, Webhook(h) PROVE HealInv'
  <2>1. CASE \E i \in DOMAIN events : Claim(h, i)
    <3>1. quiet' = FALSE /\ sync' = sync
      BY <2>1 DEF Claim
    <3> QED
      BY <3>1 DEF HealInv
  <2>2. CASE Save(h) \/ DispatchFails(h) \/ Release(h)
    <3>1. quiet' = quiet /\ sync' = sync /\ Busy(h)
      BY <2>2 DEF Save, DispatchFails, Release, Busy
    <3> QED
      BY <3>1 DEF HealInv, QuietInv
  <2> QED
    BY <1>3, <2>1, <2>2 DEF Webhook
<1> QED
  BY <1>1, <1>2, <1>3, ReconciliationQuiet DEF Next

LEMMA InitHeal == Init => HealInv
BY DEF Init, HealInv, Resting

LEMMA HealAlways == Spec => [](TypeInv /\ SoundInv /\ HealInv)
BY InitTyped, TypeStep, InitSound, SoundStep, InitHeal, HealStep, PTL DEF Spec

-----------------------------------------------------------------------------
(* Without overlap the newest change wins: dates, and turns.               *)

LEMMA GatewayEmits ==
    ASSUME TypeInv, Gateway
    PROVE  \E e \in Event : Emit(e) /\ e.at <= now
<1>1. SecondOf(now) \in Times /\ SecondOf(now) <= now
  <2>1. now \in Nat /\ now \in Times
    BY CatalogAssumption DEF TypeInv, GatewayTyped, Times
  <2>2. 2 * (now \div 2) <= now
    BY <2>1
  <2> QED
    BY <2>1, <2>2, SecondsAreTimes DEF SecondOf
<1>2. ASSUME NEW p \in Prices, NEW price \in Price, price.trial \in Trials, PriceTo(p, price)
      PROVE  \E e \in Event : Emit(e) /\ e.at <= now
  <2>1. ChangedEvent(p, price) \in Event /\ Emit(ChangedEvent(p, price))
    BY <1>2, ChangedEventTyped DEF PriceTo, TypeInv
  <2>2. ChangedEvent(p, price).at = SecondOf(now)
    BY DEF ChangedEvent
  <2> QED
    BY <1>1, <2>1, <2>2
<1>3. ASSUME NEW p \in Prices, CreatePrice(p)
      PROVE  \E e \in Event : Emit(e) /\ e.at <= now
  <2>1. PICK price \in NewPrice : PriceTo(p, price)
    BY <1>3 DEF CreatePrice
  <2>2. price \in Price /\ price.trial \in Trials
    BY DEF NewPrice, Price
  <2> QED
    BY <1>2, <2>1, <2>2
<1>4. ASSUME NEW p \in Prices, UpdatePrice(p)
      PROVE  \E e \in Event : Emit(e) /\ e.at <= now
  BY <1>2, <1>4, UpdatesKeepFields DEF TypeInv
<1>5. ASSUME NEW p \in Prices, DeletePrice(p)
      PROVE  \E e \in Event : Emit(e) /\ e.at <= now
  <2>1. PICK e : e = [kind |-> "entry_retired", at |-> SecondOf(now), price |-> p]
    OBVIOUS
  <2>2. e \in Event /\ e.at <= now
    BY <1>1, <2>1 DEF Event
  <2> QED
    BY <1>5, <2>1, <2>2 DEF DeletePrice
<1>6. ASSUME NEW x \in Products, UpdateProduct(x)
      PROVE  \E e \in Event : Emit(e) /\ e.at <= now
  <2>1. PICK e : e = [kind |-> "product_changed", at |-> SecondOf(now), product |-> x,
                      offered |-> products'[x] = "active"]
    OBVIOUS
  <2>2. e \in Event /\ e.at <= now
    BY <1>1, <2>1 DEF Event
  <2> QED
    BY <1>6, <2>1, <2>2 DEF UpdateProduct
<1>7. ASSUME NEW x \in Products, DeleteProduct(x)
      PROVE  \E e \in Event : Emit(e) /\ e.at <= now
  <2>1. PICK e : e = [kind |-> "product_retired", at |-> SecondOf(now), product |-> x]
    OBVIOUS
  <2>2. e \in Event /\ e.at <= now
    BY <1>1, <2>1 DEF Event
  <2> QED
    BY <1>7, <2>1, <2>2 DEF DeleteProduct
<1> QED
  BY <1>3, <1>4, <1>5, <1>6, <1>7 DEF Gateway

(* What an event makes of the plans has its date and was no older.         *)
LEMMA AppliedDates ==
    ASSUME PlansTyped, NEW e \in Event, e.kind # "ignored"
    PROVE  \A x \in Applied(e) :
              /\ x.plan.eventAt = e.at
              /\ x.plan.code \in Codes
              /\ plans[x.plan.code] = None \/ plans[x.plan.code].eventAt <= e.at
<1>1. CASE e.kind = "entry_changed"
  <2>1. Applied(e) = EntryChanged(e.entry, e.at, FALSE) /\ e.entry \in Entry /\ e.at \in Times
    BY <1>1, EventFields DEF Applied
  <2>2. \A x \in EntryChanged(e.entry, e.at, FALSE) : x.plan = Copied(e.entry, e.at)
    BY <2>1, ChangedTyped
  <2>5. /\ Copied(e.entry, e.at).code = e.entry.code /\ Copied(e.entry, e.at).eventAt = e.at
        /\ e.entry.code \in Codes
    <3>1. e.entry.code \in Codes
      BY <2>1 DEF Entry
    <3> QED
      BY <2>1, <3>1, CopiedTyped
  <2>3. EntryChanged(e.entry, e.at, FALSE) # {}
           => plans[e.entry.code] = None \/ ~(e.at < plans[e.entry.code].eventAt)
    BY DEF EntryChanged, IsStale
  <2>4. plans[e.entry.code] # None => plans[e.entry.code].eventAt \in Nat /\ e.at \in Nat
    BY <2>1, <2>5, CatalogAssumption DEF PlansTyped, Plan, Times
  <2>6. ASSUME NEW x \in EntryChanged(e.entry, e.at, FALSE)
        PROVE  /\ x.plan.eventAt = e.at
               /\ x.plan.code \in Codes
               /\ plans[x.plan.code] = None \/ plans[x.plan.code].eventAt <= e.at
    <3>1. x.plan.eventAt = e.at /\ x.plan.code = e.entry.code
      BY <2>2, <2>5
    <3>2. plans[e.entry.code] = None \/ plans[e.entry.code].eventAt <= e.at
      <4>1. SUFFICES ASSUME plans[e.entry.code] # None
                     PROVE  plans[e.entry.code].eventAt <= e.at
        OBVIOUS
      <4>2. EntryChanged(e.entry, e.at, FALSE) # {}
        OBVIOUS
      <4>3. ~(e.at < plans[e.entry.code].eventAt)
        BY <2>3, <4>1, <4>2
      <4>4. plans[e.entry.code].eventAt \in Nat /\ e.at \in Nat
        BY <2>4, <4>1
      <4> QED
        BY <4>3, <4>4
    <3> QED
      BY <2>5, <3>1, <3>2
  <2> QED
    BY <2>1, <2>6
<1>2. CASE e.kind # "entry_changed"
  <2>1. PICK found \in SUBSET Stored, offered \in BOOLEAN :
           Applied(e) = Withdrawn(found, e.at, offered)
    <3>1. CASE e.kind = "entry_retired"
      BY <3>1 DEF Applied, EntryRetired
    <3>2. CASE e.kind = "product_changed"
      BY <3>2, EventFields DEF Applied, ProductOfferingChanged
    <3>3. CASE e.kind = "product_retired"
      BY <3>3 DEF Applied, ProductRetired, ProductOfferingChanged
    <3> QED
      BY <1>2, <3>1, <3>2, <3>3, EventFields
  <2>2. ASSUME NEW x \in Withdrawn(found, e.at, offered)
        PROVE  /\ x.plan.eventAt = e.at
               /\ x.plan.code \in Codes
               /\ plans[x.plan.code] = None \/ plans[x.plan.code].eventAt <= e.at
    <3>1. PICK p \in found :
             /\ ~(e.at < p.eventAt)
             /\ x = [plan |-> [p EXCEPT !.offered = offered, !.eventAt = e.at], fresh |-> FALSE]
      BY DEF Withdrawn, IsStale
    <3>2. PICK c \in Codes : p = plans[c] /\ p # None /\ p \in Plan /\ p.code = c
      BY <2>1, StoredTyped DEF PlansTyped
    <3>3. PICK q : q = [p EXCEPT !.offered = offered, !.eventAt = e.at]
      OBVIOUS
    <3>4. q.code = c /\ q.eventAt = e.at
      BY <3>2, <3>3 DEF Plan
    <3>5. x.plan = q
      BY <3>1, <3>3
    <3>6. p.eventAt \in Nat /\ e.at \in Nat
      BY <3>2, EventFields, CatalogAssumption DEF Plan, Times
    <3> QED
      BY <3>1, <3>2, <3>4, <3>5, <3>6
  <2> QED
    BY <2>1, <2>2
<1> QED
  BY <1>1, <1>2

(* Dates are kept wherever events and stamps only grow in number.          *)
LEMMA DatedStays ==
    ASSUME TypeInv, NEW plan, Dated(plan), sync.stamps \subseteq sync'.stamps,
           events' = events \/ \E e : events' = Append(events, e)
    PROVE  Dated(plan)'
<1>1. \A i \in DOMAIN events : i \in DOMAIN events' /\ events'[i] = events[i]
  BY DEF TypeInv, GatewayTyped
<1> QED
  BY <1>1 DEF Dated

LEMMA GatewayDates ==
    ASSUME TypeInv, DatesInv, Gateway
    PROVE  DatesInv'
<1>1. PICK e \in Event : Emit(e) /\ e.at <= now
  BY GatewayEmits
<1>2. UNCHANGED <<plans, claimed, handler, sync, now>> /\ events' = Append(events, e)
  BY <1>1 DEF Emit, requests
<1>3. events \in Seq(Event)
  BY DEF TypeInv, GatewayTyped
<1>4. \A i \in DOMAIN events' : events'[i].at <= now
  BY <1>1, <1>2, <1>3 DEF DatesInv
<1>5. DOMAIN events \subseteq DOMAIN events'
  BY <1>2, <1>3
<1>6. \A plan : Dated(plan) => Dated(plan)'
  BY <1>2, DatedStays
<1>7. \A c \in Codes : plans'[c] # None => Dated(plans[c])'
  BY <1>2, <1>6 DEF DatesInv
<1>8. \A h \in Handlers : \A x \in handler[h].todo : Dated(x.plan)'
  BY <1>6 DEF DatesInv
<1> QED
  BY <1>2, <1>4, <1>5, <1>7, <1>8 DEF DatesInv, Dated
LEMMA WebhookDates ==
    ASSUME TypeInv, DatesInv, NEW h \in Handlers, Webhook(h)
    PROVE  DatesInv'
<1>1. handler \in [Handlers -> Handler] /\ events \in Seq(Event)
  BY DEF TypeInv, RequestsTyped, GatewayTyped
<1>2. UNCHANGED <<sync, events, now>>
  BY DEF Webhook, Save, DispatchFails, Release, Claim, gateway
<1>3. ASSUME claimed' \subseteq DOMAIN events,
             \A c \in Codes : plans'[c] # None => Dated(plans'[c]),
             \A g \in Handlers : \A x \in handler'[g].todo : Dated(x.plan)
      PROVE  DatesInv'
  BY <1>2, <1>3 DEF DatesInv, Dated
<1>4. ASSUME NEW i \in DOMAIN events, Claim(h, i) PROVE DatesInv'
  <2>1. /\ plans' = plans /\ claimed' = claimed \cup {i} /\ events[i].kind # "ignored"
        /\ PlansTyped /\ events[i] \in Event
    BY <1>1, <1>4 DEF Claim, TypeInv
  <2>2. /\ handler' = [handler EXCEPT ![h] = handler'[h]]
        /\ handler'[h].todo = Applied(events[i])
    BY <1>4, ClaimTyped
  <2>3. \A x \in Applied(events[i]) : x.plan.eventAt = events[i].at
    BY <2>1, AppliedDates
  <2>4. \A x \in Applied(events[i]) : Dated(x.plan)
    BY <2>3 DEF Dated
  <2>5. \A g \in Handlers : \A x \in handler'[g].todo : Dated(x.plan)
    BY <1>1, <2>2, <2>4 DEF DatesInv
  <2> QED
    BY <1>3, <2>1, <2>5 DEF DatesInv
<1>5. CASE Save(h)
  <2>1. claimed' = claimed
    BY <1>5 DEF Save
  <2>2. PICK x \in handler[h].todo :
           /\ x \in Entity /\ SaveRow(x)
           /\ handler' = [handler EXCEPT ![h] = handler'[h]]
           /\ handler'[h].todo = handler[h].todo \ {x}
    BY <1>5, SaveTyped
  <2>3. \A c \in Codes : plans'[c] # None => Dated(plans'[c])
    BY <2>2, SavedTyped DEF TypeInv, DatesInv
  <2>4. \A g \in Handlers : \A y \in handler'[g].todo : Dated(y.plan)
    BY <1>1, <2>2 DEF DatesInv
  <2> QED
    BY <1>3, <2>1, <2>3, <2>4 DEF DatesInv
<1>6. CASE DispatchFails(h) \/ Release(h)
  <2>1. plans' = plans /\ claimed' \subseteq claimed
    BY <1>6 DEF DispatchFails, Release
  <2>2. handler' = [handler EXCEPT ![h] = handler'[h]] /\ handler'[h].todo = {}
    BY <1>6, FailureTyped
  <2>3. \A g \in Handlers : \A y \in handler'[g].todo : Dated(y.plan)
    BY <1>1, <2>2 DEF DatesInv
  <2> QED
    BY <1>3, <2>1, <2>3 DEF DatesInv
<1> QED
  BY <1>4, <1>5, <1>6 DEF Webhook

LEMMA ReconciliationDates ==
    ASSUME TypeInv, DatesInv, Reconciliation
    PROVE  DatesInv'
<1>1. UNCHANGED <<claimed, handler, events, now>>
  BY DEF Reconciliation, List, Stamp, ReconcileLookup, ReconcileSave, ReconcileFails, requests,
         gateway
<1>2. ASSUME sync.stamps \subseteq sync'.stamps,
             sync'.pc \in {"next", "save"} => sync'.at \in sync'.stamps,
             sync'.pc = "save" => \A x \in sync'.todo : x.plan.eventAt = sync'.at,
             \A c \in Codes : plans'[c] # None => Dated(plans'[c])
      PROVE  DatesInv'
  BY <1>1, <1>2 DEF DatesInv, Dated
<1>3. CASE List
  BY <1>2, <1>3, ListTyped DEF List, DatesInv
<1>4. CASE Stamp
  BY <1>2, <1>4, StampTyped DEF Stamp, DatesInv
<1>5. CASE ReconcileLookup
  <2>1. plans' = plans /\ sync.pc = "next"
    BY <1>5 DEF ReconcileLookup
  <2>2. PICK e \in sync.entries :
           /\ sync'.todo = EntryChanged(e, sync.at, TRUE)
           /\ sync'.at = sync.at /\ sync'.stamps = sync.stamps
    BY <1>5, LookupTyped
  <2>3. e \in Entry /\ sync.at \in Times
    BY DEF TypeInv, Sync
  <2>4. \A x \in EntryChanged(e, sync.at, TRUE) : x.plan.eventAt = sync.at
    <3>1. \A x \in EntryChanged(e, sync.at, TRUE) : x.plan = Copied(e, sync.at)
      BY <2>3, ChangedTyped
    <3>2. Copied(e, sync.at).eventAt = sync.at
      BY <2>3, CopiedTyped
    <3> QED
      BY <3>1, <3>2
  <2> QED
    BY <1>2, <2>1, <2>2, <2>4 DEF DatesInv
<1>6. CASE ReconcileSave
  <2>1. /\ sync.pc = "save" /\ sync'.at = sync.at /\ sync'.stamps = sync.stamps
        /\ sync'.pc \in {"next", "done"}
    BY <1>6, ReconcileSaveTyped
  <2>2. PICK x \in sync.todo : x \in Entity /\ SaveRow(x)
    BY <1>6, ReconcileSaveTyped
  <2>3. Dated(x.plan)
    BY <2>1, <2>2 DEF DatesInv, Dated
  <2>4. \A c \in Codes : plans'[c] # None => Dated(plans'[c])
    BY <2>2, <2>3, SavedTyped DEF TypeInv, DatesInv
  <2> QED
    BY <1>2, <2>1, <2>4 DEF DatesInv
<1>7. CASE ReconcileFails
  BY <1>2, <1>7, ReconcileFailsTyped DEF ReconcileFails, DatesInv
<1> QED
  BY <1>3, <1>4, <1>5, <1>6, <1>7 DEF Reconciliation

LEMMA DatesStep == TypeInv /\ DatesInv /\ [Next]_vars => DatesInv'
<1> SUFFICES ASSUME TypeInv, DatesInv, [Next]_vars PROVE DatesInv'
  OBVIOUS
<1>1. CASE UNCHANGED vars
  BY <1>1 DEF vars, DatesInv, Dated
<1>2. CASE Tick
  <2>1. UNCHANGED <<plans, claimed, handler, sync, events>> /\ now' = now + 1
    BY <1>2 DEF Tick, requests, gateway
  <2>2. now \in Nat /\ \A i \in DOMAIN events : events[i].at \in Nat
    BY SoundTyped, EventFields, CatalogAssumption DEF TypeInv, GatewayTyped, Times
  <2>3. \A i \in DOMAIN events : events[i].at <= now'
    BY <2>1, <2>2 DEF DatesInv
  <2> QED
    BY <2>1, <2>3 DEF DatesInv, Dated
<1> QED
  BY <1>1, <1>2, GatewayDates, WebhookDates, ReconciliationDates DEF Next

(* While nothing has overlapped yet, nothing overlaps.                     *)
LEMMA SerialStep == TypeInv /\ SerialInv /\ [Next]_vars => SerialInv'
<1> SUFFICES ASSUME TypeInv, SerialInv, [Next]_vars, ~raced'
             PROVE  /\ \A g, h \in Handlers : Busy(g)' /\ Busy(h)' => g = h
                    /\ \A h \in Handlers : Busy(h)' => ~Syncing'
  BY DEF SerialInv
<1>1. handler \in [Handlers -> Handler]
  BY DEF TypeInv, RequestsTyped
<1>2. CASE UNCHANGED <<handler, sync, raced>>
  BY <1>2 DEF SerialInv, Busy, Syncing
<1>3. ASSUME NEW h \in Handlers, Webhook(h)
      PROVE  /\ \A g, k \in Handlers : Busy(g)' /\ Busy(k)' => g = k
             /\ \A k \in Handlers : Busy(k)' => ~Syncing'
  <2>1. sync' = sync
    BY <1>3 DEF Webhook, Save, DispatchFails, Release, Claim
  <2>2. \A g \in Handlers \ {h} : handler'[g] = handler[g]
    <3>1. handler' = [handler EXCEPT ![h] = handler'[h]]
      BY <1>3, SaveTyped, FailureTyped, ClaimTyped DEF Webhook
    <3> QED
      BY <1>1, <3>1
  <2>3. CASE \E i \in DOMAIN events : Claim(h, i)
    <3>1. ~raced /\ ~Syncing /\ \A g \in Handlers : ~Busy(g)
      BY <2>3 DEF Claim
    <3> QED
      BY <2>1, <2>2, <3>1 DEF Busy, Syncing
  <2>4. CASE Save(h) \/ DispatchFails(h) \/ Release(h)
    <3>1. raced' = raced /\ Busy(h)
      BY <2>4 DEF Save, DispatchFails, Release, Busy
    <3> QED
      BY <2>1, <2>2, <3>1 DEF SerialInv, Busy, Syncing
  <2> QED
    BY <1>3, <2>3, <2>4 DEF Webhook
<1>4. CASE Reconciliation
  <2>1. handler' = handler
    BY <1>4 DEF Reconciliation, List, Stamp, ReconcileLookup, ReconcileSave, ReconcileFails,
                requests
  <2>2. CASE List
    <3>1. ~raced /\ \A g \in Handlers : ~Busy(g)
      BY <2>2 DEF List
    <3> QED
      BY <2>1, <3>1 DEF Busy
  <2>3. CASE Stamp \/ ReconcileLookup \/ ReconcileSave \/ ReconcileFails
    <3>1. Syncing /\ raced' = raced
      BY <2>3 DEF Stamp, ReconcileLookup, ReconcileSave, ReconcileFails, Syncing
    <3> QED
      BY <2>1, <3>1 DEF SerialInv, Busy
  <2> QED
    BY <1>4, <2>2, <2>3 DEF Reconciliation
<1>5. CASE Gateway
  <2>1. UNCHANGED <<handler, sync, raced>>
    BY <1>5, GatewayEmits DEF Emit, requests
  <2> QED
    BY <1>2, <2>1
<1>6. CASE Tick \/ UNCHANGED vars
  <2>1. UNCHANGED <<handler, sync, raced>>
    BY <1>6 DEF Tick, vars, requests
  <2> QED
    BY <1>2, <2>1
<1> QED
  BY <1>3, <1>4, <1>5, <1>6 DEF Next

(* What the newest event of all is, when MirrorsNewest speaks of it.       *)
LEMMA LastTyped ==
    ASSUME TypeInv, SoundInv, NEW e \in Event, Newest(e)
    PROVE  /\ LastEvent \in DOMAIN events /\ e = events[LastEvent]
           /\ e.at \in Times /\ e.at \in Nat
           /\ e.kind = "entry_changed" =>
                 /\ e.entry \in Entry /\ e.entry.code \in Codes /\ e.entry.price \in Prices
                 /\ prices[e.entry.price].code = e.entry.code
<1>1. LastEvent \in DOMAIN events /\ e = events[LastEvent]
  BY DEF Newest, LastEvent, TypeInv, GatewayTyped
<1>2. e.at \in Times /\ (e.kind = "entry_changed" => e.entry \in Entry)
  BY <1>1, EventFields
<1>3. e.kind = "entry_changed" => e.entry.code \in Codes /\ e.entry.price \in Prices
  BY <1>2 DEF Entry
<1>4. e.kind = "entry_changed" => Honest(e.entry.price, e.entry.code)
  BY <1>1 DEF SoundInv
<1>5. e.at \in Nat
  BY <1>2, CatalogAssumption DEF Times
<1> QED
  BY <1>1, <1>2, <1>3, <1>4, <1>5 DEF Honest, Newest

LEMMA NewestSame ==
    ASSUME UNCHANGED <<prices, events>>
    PROVE  LastEvent' = LastEvent /\ \A e \in Event : Newest(e)' <=> Newest(e)
BY DEF Newest, LastEvent

LEMMA ShowsStays ==
    ASSUME sync.stamps \subseteq sync'.stamps, NEW q, NEW e, Shows(q, e)
    PROVE  Shows(q, e)'
BY DEF Shows, Says, Mirrors

(* Steps that leave the plans alone and take no request further.           *)
LEMMA NewestStays ==
    ASSUME TypeInv, NewestInv, UNCHANGED <<plans, handler, prices, events, settled, reached, raced>>,
           sync.stamps \subseteq sync'.stamps,
           sync'.pc \in {"next", "save"} =>
              \/ sync.pc \in {"next", "save"} /\ sync'.at = sync.at
              \/ \A e \in Event : Newest(e) => sync'.at >= e.at
    PROVE  NewestInv'
<1> SUFFICES ASSUME NEW e \in Event, ~raced, Newest(e)
             PROVE  /\ LastEvent \in settled => Settled(e)'
                    /\ \A h \in Handlers : handler[h].pc = "save" /\ handler[h].event = LastEvent
                                                => Saving(h, e)'
  BY NewestSame DEF NewestInv
<1>0. LastEvent' = LastEvent /\ reached' = reached
  BY NewestSame
<1>1. ASSUME LastEvent \in settled PROVE Settled(e)'
  <2>1. Settled(e)
    BY <1>1 DEF NewestInv
  <2>2. ASSUME NEW c \in reached[LastEvent] PROVE Kept(c, e)'
    <3>1. Kept(c, e)
      BY <2>1 DEF Settled
    <3>2. \A q \in Plan \cup {None} : q = plans[c] => Shows(q, e)'
      BY <3>1, ShowsStays DEF Kept
    <3> QED
      BY <3>1, <3>2 DEF Kept
  <2>3. sync'.pc \in {"next", "save"} => sync'.at >= e.at
    BY <2>1 DEF Settled
  <2> QED
    BY <1>0, <2>2, <2>3 DEF Settled
<1>2. ASSUME NEW h \in Handlers, handler[h].pc = "save", handler[h].event = LastEvent
      PROVE  Saving(h, e)'
  <2>1. Saving(h, e)
    BY <1>2 DEF NewestInv
  <2>2. \A q \in Plan \cup {None} : Shows(q, e) => Shows(q, e)'
    BY ShowsStays
  <2>3. \A x \in handler[h].todo : Fit(x, e)'
    BY <2>1 DEF Saving, Fit, Says, Mirrors
  <2>4. Unlike(handler[h].todo)'
    BY <2>1 DEF Saving, Unlike
  <2> QED
    BY <1>0, <2>1, <2>2, <2>3, <2>4 DEF Saving
<1> QED
  BY <1>1, <1>2

(* An event that was just emitted has been claimed by no one.              *)
LEMMA GatewayNewest ==
    ASSUME TypeInv, DatesInv, Gateway
    PROVE  NewestInv'
<1>1. PICK e \in Event : Emit(e)
  BY GatewayEmits
<1>2. UNCHANGED <<claimed, handler, settled>> /\ events' = Append(events, e)
  BY <1>1 DEF Emit, requests
<1>3. LastEvent' \notin claimed
  BY <1>2 DEF LastEvent, TypeInv, GatewayTyped, DatesInv
<1>4. LastEvent' \notin settled' /\ \A h \in Handlers : handler'[h].pc = "save" => handler'[h].event # LastEvent'
  BY <1>2, <1>3 DEF TypeInv, RequestsTyped, Holds
<1> QED
  BY <1>4 DEF NewestInv

LEMMA ReconciliationNewest ==
    ASSUME TypeInv, SoundInv, DatesInv, SerialInv, NewestInv, ReachedOK, Reconciliation
    PROVE  NewestInv'
<1>1. CASE List
  <2>1. UNCHANGED <<plans, handler, prices, events, settled, reached>> /\ (~raced' => ~raced)
    BY <1>1 DEF List, requests, gateway
  <2>2. sync'.pc = "stamp" /\ sync'.stamps = sync.stamps
    BY <1>1, ListTyped
  <2>3. CASE raced'
    BY <2>3 DEF NewestInv
  <2>4. CASE ~raced'
    <3>1. raced' = FALSE /\ raced = FALSE
      BY <1>1, <2>1, <2>4, ListTyped DEF TypeInv, GatewayTyped
    <3> QED
      BY <2>1, <2>2, <3>1, NewestStays
  <2> QED
    BY <2>3, <2>4
<1>2. CASE Stamp
  <2>1. UNCHANGED <<plans, handler, prices, events, settled, reached, raced>>
    BY <1>2 DEF Stamp, requests, gateway
  <2>2. sync'.at = now /\ sync.stamps \subseteq sync'.stamps
    BY <1>2, StampTyped
  <2>3. ASSUME NEW e \in Event, Newest(e) PROVE now >= e.at
    <3>1. e.at <= now /\ e.at \in Nat /\ now \in Nat
      BY <2>3, LastTyped, CatalogAssumption DEF DatesInv, TypeInv, GatewayTyped, Times
    <3> QED
      BY <3>1
  <2> QED
    BY <2>1, <2>2, <2>3, NewestStays
<1>3. CASE ReconcileLookup
  <2>1. UNCHANGED <<plans, handler, prices, events, settled, reached, raced>> /\ sync.pc = "next"
    BY <1>3 DEF ReconcileLookup, requests, gateway
  <2>2. sync'.at = sync.at /\ sync'.stamps = sync.stamps
    BY <1>3, LookupTyped
  <2> QED
    BY <2>1, <2>2, NewestStays
<1>4. CASE ReconcileSave
  <2>1. UNCHANGED <<handler, prices, events, settled, reached, raced>>
    BY <1>4 DEF ReconcileSave, requests, gateway
  <2>2. sync.pc = "save" /\ sync'.at = sync.at /\ sync'.stamps = sync.stamps
    BY <1>4, ReconcileSaveTyped
  <2>3. PICK x \in sync.todo : x \in Entity /\ SaveRow(x)
    BY <1>4, ReconcileSaveTyped
  <2>4. x.plan.eventAt = sync.at /\ sync.at \in sync.stamps /\ x.plan \in Plan
    BY <2>2, <2>3 DEF DatesInv, Entity
  <2>5. SUFFICES ASSUME NEW e \in Event, ~raced, Newest(e)
                 PROVE  /\ LastEvent \in settled => Settled(e)'
                        /\ \A h \in Handlers : handler[h].pc # "save"
    BY <2>1, NewestSame DEF NewestInv
  <2>6. \A h \in Handlers : handler[h].pc # "save"
    BY <2>2, <2>5 DEF SerialInv, Busy, Syncing
  <2>7. ASSUME LastEvent \in settled PROVE Settled(e)'
    <3>1. Settled(e) /\ LastEvent' = LastEvent
      BY <2>1, <2>5, <2>7, NewestSame DEF NewestInv
    <3>2. reached'[LastEvent] = reached[LastEvent] /\ reached[LastEvent] \subseteq Codes
      BY <2>1, <2>7 DEF ReachedOK, TypeInv, RequestsTyped
    <3>3. Shows(x.plan, e)
      BY <2>2, <2>4, <3>1, NoneIsNoPlan DEF Settled, Shows
    <3>4. ASSUME NEW c \in reached[LastEvent] PROVE Kept(c, e)'
      <4>1. Kept(c, e) /\ c \in Codes
        BY <3>1, <3>2 DEF Settled
      <4>2. plans'[c] = plans[c] \/ plans'[c] = x.plan
        BY <2>3, <4>1, SavedTyped DEF TypeInv
      <4>3. \A q \in Plan \cup {None} : q = plans'[c] => Shows(q, e)'
        BY <2>2, <3>3, <4>1, <4>2, ShowsStays DEF Kept
      <4> QED
        BY <2>1, <4>1, <4>3 DEF Kept
    <3> QED
      BY <2>2, <3>1, <3>2, <3>4 DEF Settled
  <2> QED
    BY <2>6, <2>7
<1>5. CASE ReconcileFails
  <2>1. UNCHANGED <<plans, handler, prices, events, settled, reached, raced>>
    BY <1>5 DEF ReconcileFails, requests, gateway
  <2>2. sync'.pc = "idle" /\ sync'.stamps = sync.stamps
    BY <1>5, ReconcileFailsTyped
  <2> QED
    BY <2>1, <2>2, NewestStays
<1> QED
  BY <1>1, <1>2, <1>3, <1>4, <1>5 DEF Reconciliation

(* A plan younger than the newest event has its date from a stamp.         *)
LEMMA YoungerIsStamped ==
    ASSUME TypeInv, SoundInv, DatesInv, NEW e \in Event, Newest(e),
           NEW c \in Codes, plans[c] # None, e.at < plans[c].eventAt
    PROVE  Shows(plans[c], e)
<1>1. plans[c] \in Plan /\ plans[c].eventAt \in Nat
  BY SoundTyped, CatalogAssumption DEF TypeInv, PlansTyped, Plan, Times
<1>2. LastEvent \in DOMAIN events /\ e = events[LastEvent] /\ e.at \in Nat
  BY LastTyped
<1>3. \A j \in DOMAIN events : events[j].at <= e.at
  <2>1. TAKE j \in DOMAIN events
  <2>2. DOMAIN events = 1 .. LastEvent /\ LastEvent \in Nat /\ events[j].at \in Nat
    BY SoundTyped, EventFields, CatalogAssumption DEF LastEvent, TypeInv, GatewayTyped, Times
  <2>3. CASE j = LastEvent
    BY <1>2, <2>3
  <2>4. CASE j # LastEvent
    <3>1. j \in 1 .. LastEvent - 1
      BY <2>2, <2>4
    <3> QED
      BY <1>2, <2>2, <3>1 DEF Newest
  <2> QED
    BY <2>3, <2>4
<1>4. plans[c].eventAt \in sync.stamps
  <2>1. Dated(plans[c])
    BY DEF DatesInv
  <2>2. ASSUME NEW j \in DOMAIN events, plans[c].eventAt = events[j].at PROVE FALSE
    BY <1>1, <1>2, <1>3, <2>2
  <2> QED
    BY <2>1, <2>2 DEF Dated
<1> QED
  BY <1>1, <1>2, <1>4 DEF Shows

(* What the newest event makes of the plans it reaches fits it.            *)
LEMMA ChangeFits ==
    ASSUME TypeInv, SoundInv, NEW e \in Event, Newest(e), e.kind = "entry_changed"
    PROVE  /\ \A x \in Applied(e) : Fit(x, e)
           /\ Unlike(Applied(e))
           /\ \A c \in Concerned(e) : \/ \E x \in Applied(e) : x.plan.code = c
                                      \/ plans[c] # None /\ e.at < plans[c].eventAt
<1>1. /\ e.entry \in Entry /\ e.at \in Times /\ e.entry.code \in Codes /\ e.entry.price \in Prices
      /\ prices[e.entry.price].code = e.entry.code
  BY LastTyped
<1>2. Applied(e) = EntryChanged(e.entry, e.at, FALSE)
  BY DEF Applied
<1>3. /\ \A y \in Applied(e) :
            y.plan = Copied(e.entry, e.at) /\ (y.fresh <=> plans[e.entry.code] = None)
      /\ \A y, z \in Applied(e) : y = z
  <2>1. FALSE \in BOOLEAN
    OBVIOUS
  <2>2. /\ \A y \in EntryChanged(e.entry, e.at, FALSE) :
              y.plan = Copied(e.entry, e.at) /\ (y.fresh <=> plans[e.entry.code] = None)
        /\ \A y, z \in EntryChanged(e.entry, e.at, FALSE) : y = z
    BY <1>1, <2>1, ChangedTyped, Zenon
  <2> QED
    BY <1>2, <2>2
<1>4. /\ Copied(e.entry, e.at).code = e.entry.code /\ Copied(e.entry, e.at).ref = e.entry.price
      /\ Copied(e.entry, e.at).eventAt = e.at
  BY <1>1, CopiedTyped
<1>5. ASSUME NEW x \in Applied(e) PROVE Fit(x, e)
  <2>1. x.plan = Copied(e.entry, e.at) /\ (x.fresh <=> plans[x.plan.code] = None)
    BY <1>3, <1>4
  <2>2. Says(e, x.plan)
    BY <1>4, <2>1 DEF Says, Mirrors
  <2>3. ASSUME NEW d \in Codes, d # e.entry.code, plans[d] # None, plans[d].ref = e.entry.price
        PROVE  FALSE
    <3>1. Honest(plans[d].ref, plans[d].code) /\ plans[d].code = d
      BY <2>3 DEF SoundInv, Sound, TypeInv, PlansTyped
    <3> QED
      BY <1>1, <2>3, <3>1 DEF Honest, Newest
  <2> QED
    BY <1>4, <2>1, <2>2, <2>3 DEF Fit
<1>6. ASSUME NEW c \in Concerned(e), Applied(e) = {}
      PROVE  plans[c] # None /\ e.at < plans[c].eventAt
  <2>1. c = e.entry.code /\ (e.entry.offered \/ plans[c] = None \/ plans[c].ref = e.entry.price)
    BY DEF Concerned
  <2> QED
    BY <1>2, <1>6, <2>1 DEF EntryChanged, Linked, IsStale
<1>7. ASSUME NEW c \in Concerned(e), NEW x \in Applied(e) PROVE x.plan.code = c
  BY <1>3, <1>4 DEF Concerned
<1> QED
  BY <1>3, <1>5, <1>6, <1>7 DEF Unlike

Turned(p, at, offered) == [plan |-> [p EXCEPT !.offered = offered, !.eventAt = at], fresh |-> FALSE]

LEMMA TurnedTyped ==
    ASSUME NEW p \in Plan, NEW at \in Times, NEW offered \in BOOLEAN
    PROVE  /\ Turned(p, at, offered).plan.code = p.code /\ Turned(p, at, offered).plan.ref = p.ref
           /\ Turned(p, at, offered).plan.eventAt = at
           /\ Turned(p, at, offered).plan.offered = offered /\ ~Turned(p, at, offered).fresh
<1>1. PICK q : q = [p EXCEPT !.offered = offered, !.eventAt = at]
  OBVIOUS
<1>2. q.code = p.code /\ q.ref = p.ref /\ q.eventAt = at /\ q.offered = offered
  BY <1>1 DEF Plan
<1>3. Turned(p, at, offered) = [plan |-> q, fresh |-> FALSE]
  BY <1>1 DEF Turned
<1> QED
  BY <1>2, <1>3

LEMMA WithdrawnTurns ==
    ASSUME NEW S, NEW at, NEW offered
    PROVE  /\ \A x \in Withdrawn(S, at, offered) : \E p \in S : x = Turned(p, at, offered)
           /\ \A p \in S : ~IsStale(p, at) /\ (p.code = "free" => offered)
                 => Turned(p, at, offered) \in Withdrawn(S, at, offered)
BY DEF Withdrawn, Turned

LEMMA WithdrawalFits ==
    ASSUME TypeInv, NEW e \in Event, e.kind \notin {"entry_changed", "ignored"}
    PROVE  /\ \A x \in Applied(e) : Fit(x, e)
           /\ Unlike(Applied(e))
           /\ \A c \in Concerned(e) : \/ \E x \in Applied(e) : x.plan.code = c
                                      \/ plans[c] # None /\ e.at < plans[c].eventAt
<1>1. PICK Of \in SUBSET Stored, offered \in BOOLEAN :
         /\ Applied(e) = Withdrawn(Of, e.at, offered)
         /\ offered <=> e.kind = "product_changed" /\ e.offered
         /\ \A c \in Concerned(e) : plans[c] # None /\ plans[c] \in Of /\ (c = "free" => offered)
  <2>0. e.kind \in {"entry_retired", "product_changed", "product_retired"}
    BY EventFields
  <2>1. ASSUME NEW c \in Concerned(e) PROVE c \in Codes /\ plans[c] # None /\ plans[c] \in Stored
    BY DEF Concerned, Stored
  <2>2. CASE e.kind = "entry_retired"
    <3>1. Applied(e) = Withdrawn({p \in Stored : p.ref = e.price}, e.at, FALSE)
      BY <2>2 DEF Applied, EntryRetired
    <3>2. \A c \in Concerned(e) : plans[c].ref = e.price /\ c # "free"
      BY <2>2 DEF Concerned
    <3> QED
      BY <2>1, <2>2, <3>1, <3>2
  <2>3. CASE e.kind = "product_changed"
    <3>1. Applied(e) = Withdrawn({p \in Stored : p.product = e.product}, e.at, e.offered)
      BY <2>3 DEF Applied, ProductOfferingChanged
    <3>2. \A c \in Concerned(e) : plans[c].product = e.product /\ (c = "free" => e.offered)
      BY <2>3 DEF Concerned
    <3>3. e.offered \in BOOLEAN
      BY <2>3, EventFields
    <3> QED
      BY <2>1, <2>3, <3>1, <3>2, <3>3
  <2>4. CASE e.kind = "product_retired"
    <3>1. Applied(e) = Withdrawn({p \in Stored : p.product = e.product}, e.at, FALSE)
      BY <2>4 DEF Applied, ProductRetired, ProductOfferingChanged
    <3>2. \A c \in Concerned(e) : plans[c].product = e.product /\ c # "free"
      BY <2>4 DEF Concerned
    <3> QED
      BY <2>1, <2>4, <3>1, <3>2
  <2> QED
    BY <2>0, <2>2, <2>3, <2>4
<1>2. ASSUME NEW p \in Of
      PROVE  p \in Plan /\ p.code \in Codes /\ p = plans[p.code] /\ p # None
  <2>1. PICK c \in Codes : p = plans[c] /\ plans[c] # None
    BY DEF Stored
  <2> QED
    BY <2>1 DEF TypeInv, PlansTyped
<1>3. \A x \in Applied(e) : \E p \in Of : x = Turned(p, e.at, offered)
  BY <1>1, WithdrawnTurns
<1>7. \A p \in Of : LET x == Turned(p, e.at, offered)
                    IN  /\ x.plan.code = p.code /\ x.plan.ref = p.ref
                        /\ x.plan.eventAt = e.at /\ x.plan.offered = offered /\ ~x.fresh
  BY <1>1, <1>2, EventFields, TurnedTyped
<1>4. ASSUME NEW x \in Applied(e) PROVE Fit(x, e)
  <2>1. PICK p \in Of : /\ x.plan.code = p.code /\ x.plan.ref = p.ref
                        /\ x.plan.eventAt = e.at /\ x.plan.offered = offered /\ ~x.fresh
    BY <1>3, <1>7
  <2>2. Says(e, x.plan)
    BY <1>1, <2>1 DEF Says
  <2>3. p.code \in Codes /\ p = plans[p.code] /\ p # None
    BY <1>2
  <2>4. \A d \in Codes : plans[d] # None /\ plans[d].ref = plans[p.code].ref => d = p.code
    BY <2>3 DEF TypeInv, PlansTyped
  <2> QED
    BY <2>1, <2>2, <2>3, <2>4 DEF Fit
<1>5. Unlike(Applied(e))
  <2>1. ASSUME NEW x \in Applied(e), NEW y \in Applied(e), x.plan.code = y.plan.code PROVE x = y
    <3>1. PICK p \in Of : x = Turned(p, e.at, offered) /\ x.plan.code = p.code
      BY <1>3, <1>7
    <3>2. PICK q \in Of : y = Turned(q, e.at, offered) /\ y.plan.code = q.code
      BY <1>3, <1>7
    <3>3. p = q
      BY <1>2, <2>1, <3>1, <3>2
    <3> QED
      BY <3>1, <3>2, <3>3
  <2>2. ASSUME NEW x \in Applied(e)
        PROVE  plans[x.plan.code] # None /\ plans[x.plan.code].ref = x.plan.ref
    <3>1. PICK p \in Of : x.plan.code = p.code /\ x.plan.ref = p.ref
      BY <1>3, <1>7
    <3> QED
      BY <1>2, <3>1
  <2> QED
    BY <2>1, <2>2 DEF Unlike
<1>6. ASSUME NEW c \in Concerned(e), ~(plans[c] # None /\ e.at < plans[c].eventAt)
      PROVE  \E x \in Applied(e) : x.plan.code = c
  <2>1. PICK p \in Of : p = plans[c] /\ (c = "free" => offered)
    BY <1>1
  <2>2. c \in Codes /\ plans[c] # None
    BY <1>1 DEF Concerned
  <2>3. p.code = c
    BY <2>1, <2>2 DEF TypeInv, PlansTyped
  <2>4. ~IsStale(p, e.at)
    BY <1>6, <2>1, <2>2 DEF IsStale
  <2>5. Turned(p, e.at, offered) \in Applied(e)
    BY <1>1, <2>1, <2>3, <2>4, WithdrawnTurns
  <2> QED
    BY <1>7, <2>1, <2>3, <2>5
<1> QED
  BY <1>4, <1>5, <1>6

(* A claim: of the newest event, which finds a row no newer or one stamped *)
(* by a reconciliation, or of an older one, which leaves the rows alone.   *)
LEMMA ClaimNewest ==
    ASSUME TypeInv, SoundInv, DatesInv, SerialInv, NewestInv, ReachedOK,
           NEW h \in Handlers, NEW i \in DOMAIN events, Claim(h, i)
    PROVE  NewestInv'
<1>1. /\ UNCHANGED <<plans, sync, prices, events>> /\ ~Busy(h) /\ i \notin claimed
      /\ events[i].kind # "ignored" /\ GoOn(h, i, Applied(events[i]))
      /\ reached' = [reached EXCEPT ![i] = Concerned(events[i])]
  BY DEF Claim, gateway
<1>2. /\ handler' = [handler EXCEPT ![h] = handler'[h]] /\ handler'[h].todo = Applied(events[i])
      /\ Applied(events[i]) \subseteq Entity
  BY ClaimTyped
<1>3. handler \in [Handlers -> Handler] /\ \A g \in Handlers : Holds(handler[g])
  BY DEF TypeInv, RequestsTyped
<1>4. /\ \A g \in Handlers \ {h} : handler'[g] = handler[g]
      /\ settled' \subseteq settled \cup {i}
      /\ Applied(events[i]) # {} => settled' = settled /\ handler'[h].event = i
      /\ Applied(events[i]) = {} => handler'[h] = Idle
  BY <1>1, <1>2, <1>3 DEF GoOn
<1>12. i \in EventIds
  BY CatalogAssumption DEF TypeInv, GatewayTyped, EventIds
<1> SUFFICES ASSUME NEW e \in Event, ~raced', Newest(e)
             PROVE  /\ LastEvent \in settled' => Settled(e)'
                    /\ \A g \in Handlers : handler'[g].pc = "save" /\ handler'[g].event = LastEvent
                                                => Saving(g, e)'
  BY <1>1, NewestSame DEF NewestInv
<1>5. ~raced /\ ~Syncing /\ \A g \in Handlers : ~Busy(g)
  BY DEF Claim
<1>6. /\ LastEvent \in DOMAIN events /\ e = events[LastEvent] /\ e.at \in Times /\ e.at \in Nat
      /\ LastEvent' = LastEvent
  BY <1>1, LastTyped, NewestSame
<1>7. \A g \in Handlers \ {h} : handler'[g].pc = "idle" /\ handler'[g].todo = {}
  BY <1>3, <1>4, <1>5 DEF Busy, Holds
<1>8. sync'.pc \notin {"next", "save"}
  BY <1>1, <1>5 DEF Syncing
<1>9. \A q \in Plan \cup {None}, f \in Event : Shows(q, f) => Shows(q, f)'
  BY <1>1, ShowsStays
<1>10. CASE i = LastEvent
  <2>1. LastEvent \notin settled
    BY <1>1, <1>10 DEF TypeInv, RequestsTyped
  <2>2. /\ \A x \in Applied(e) : Fit(x, e)
        /\ Unlike(Applied(e))
        /\ \A c \in Concerned(e) : \/ \E x \in Applied(e) : x.plan.code = c
                                   \/ plans[c] # None /\ e.at < plans[c].eventAt
    BY <1>1, <1>6, <1>10, ChangeFits, WithdrawalFits
  <2>3. reached'[LastEvent'] = Concerned(e) /\ Concerned(e) \subseteq Codes
    BY <1>1, <1>6, <1>10, <1>12 DEF ReachedOK, Concerned
  <2>4. ASSUME NEW c \in Concerned(e), ~\E x \in Applied(e) : x.plan.code = c
        PROVE  \A q \in Plan \cup {None} : q = plans'[c] => Shows(q, e)'
    <3>1. c \in Codes /\ plans[c] # None /\ e.at < plans[c].eventAt
      BY <2>2, <2>3, <2>4
    <3>2. Shows(plans[c], e)
      BY <3>1, YoungerIsStamped
    <3> QED
      BY <1>1, <1>9, <3>2
  <2>5. CASE Applied(e) = {}
    <3>1. handler'[h] = Idle
      BY <1>4, <1>6, <1>10, <2>5
    <3>2. \A g \in Handlers : handler'[g].pc = "idle" /\ handler'[g].todo = {}
      BY <1>7, <3>1, IdleTyped
    <3>3. \A c \in Concerned(e) : Kept(c, e)'
      BY <2>4, <2>5, <3>2 DEF Kept
    <3> QED
      BY <1>8, <2>3, <3>2, <3>3 DEF Settled
  <2>6. CASE Applied(e) # {}
    <3>1. settled' = settled
      BY <1>4, <1>6, <1>10, <2>6
    <3>2. handler'[h].todo = Applied(e) /\ Applied(e) \subseteq Entity
      BY <1>2, <1>6, <1>10
    <3>3. \A x \in Applied(e) : Fit(x, e)'
      BY <1>1, <2>2 DEF Fit, Says, Mirrors
    <3>4. Unlike(handler[h].todo)'
      BY <1>1, <2>2, <3>2 DEF Unlike
    <3>5. Saving(h, e)'
      BY <2>3, <2>4, <3>2, <3>3, <3>4 DEF Saving
    <3> QED
      BY <1>7, <2>1, <3>1, <3>5
  <2> QED
    BY <2>5, <2>6
<1>11. CASE i # LastEvent
  <2>1. \A g \in Handlers : handler'[g].pc = "save" => handler'[g].event # LastEvent
    <3>1. handler'[h].pc = "save" => handler'[h].event = i
      BY <1>1, <1>3, IdleTyped DEF GoOn
    <3> QED
      BY <1>7, <1>11, <3>1
  <2>2. ASSUME LastEvent \in settled' PROVE Settled(e)'
    <3>1. LastEvent \in settled /\ Settled(e)
      BY <1>4, <1>5, <1>11, <2>2 DEF NewestInv
    <3>2. /\ reached'[LastEvent'] = reached[LastEvent] /\ reached[LastEvent] \subseteq Codes
      BY <1>1, <1>6, <1>11, <1>12, <3>1 DEF ReachedOK, TypeInv, RequestsTyped
    <3>3. events[i].at < e.at /\ events[i] \in Event /\ events[i].at \in Nat
      <4>1. DOMAIN events = 1 .. LastEvent /\ LastEvent \in Nat
        BY DEF LastEvent, TypeInv, GatewayTyped
      <4>2. i \in 1 .. LastEvent - 1
        BY <1>11, <4>1
      <4>3. events[i] \in Event /\ events[i].at \in Nat
        BY SoundTyped, EventFields, CatalogAssumption DEF Times
      <4> QED
        BY <4>2, <4>3 DEF Newest
    <3>4. ASSUME NEW c \in reached[LastEvent] PROVE Kept(c, e)'
      <4>1. Kept(c, e) /\ plans[c] \in Plan \cup {None}
        BY <3>1, <3>2 DEF Settled, TypeInv, PlansTyped
      <4>2. plans[c] # None /\ plans[c].eventAt >= e.at
        BY <4>1 DEF Kept, Shows
      <4>3. ASSUME NEW x \in Applied(events[i]), x.plan.code = c PROVE FALSE
        <5>1. plans[c] = None \/ plans[c].eventAt <= events[i].at
          BY <1>1, <3>3, <4>3, AppliedDates DEF TypeInv
        <5>2. plans[c].eventAt \in Nat
          BY <4>1, <4>2, CatalogAssumption DEF Plan, Times
        <5> QED
          BY <1>6, <3>3, <4>2, <5>1, <5>2
      <4>4. \A g \in Handlers : \A x \in handler'[g].todo : x.plan.code # c
        BY <1>2, <1>7, <4>3
      <4>5. \A q \in Plan \cup {None} : q = plans'[c] => Shows(q, e)'
        BY <1>1, <1>9, <4>1 DEF Kept
      <4> QED
        BY <4>4, <4>5 DEF Kept
    <3> QED
      BY <1>8, <3>2, <3>4 DEF Settled
  <2> QED
    BY <2>1, <2>2
<1> QED
  BY <1>10, <1>11

(* What fits is saved, and leaves the rest fit.                            *)
LEMMA SavedFits ==
    ASSUME TypeInv, NEW h \in Handlers, NEW e \in Event, Saving(h, e),
           NEW x \in handler[h].todo, SaveRow(x), sync' = sync,
           NEW rest, rest = handler[h].todo \ {x}
    PROVE  /\ plans' = [plans EXCEPT ![x.plan.code] = x.plan]
           /\ x.plan.code \in Codes /\ x.plan \in Plan
           /\ \A y \in rest : Fit(y, e)'
           /\ Unlike(rest)'
<1>1. x \in Entity /\ x.plan \in Plan /\ x.plan.code \in Codes /\ Fit(x, e) /\ Unlike(handler[h].todo)
  BY DEF Saving, Entity, Plan
<1>2. ~Refused(x)
  <2>1. ~(x.fresh /\ CodeTaken(x.plan))
    BY <1>1 DEF Fit, CodeTaken
  <2>2. ASSUME NEW q \in Stored, q.code # x.plan.code, q.ref = x.plan.ref PROVE FALSE
    <3>1. PICK c \in Codes : q = plans[c] /\ plans[c] # None
      BY DEF Stored
    <3>2. q.code = c
      BY <3>1 DEF TypeInv, PlansTyped
    <3> QED
      BY <1>1, <2>2, <3>1, <3>2 DEF Fit
  <2> QED
    BY <2>1, <2>2 DEF Refused, ReferenceTaken
<1>3. plans' = [plans EXCEPT ![x.plan.code] = x.plan]
  BY <1>2 DEF SaveRow
<1>4. plans'[x.plan.code] = x.plan /\ \A d \in Codes \ {x.plan.code} : plans'[d] = plans[d]
  BY <1>1, <1>3 DEF TypeInv, PlansTyped
<1>5. ASSUME NEW y \in handler[h].todo \ {x}
      PROVE  /\ y.plan.code \in Codes \ {x.plan.code} /\ Fit(y, e)
             /\ plans[x.plan.code] # None /\ plans[x.plan.code].ref = x.plan.ref
             /\ plans[y.plan.code] # None /\ plans[y.plan.code].ref = y.plan.ref
  <2>1. y \in Entity /\ y.plan.code \in Codes /\ Fit(y, e) /\ y # x
    BY DEF Saving, Entity, Plan
  <2> QED
    BY <1>1, <2>1 DEF Unlike
<1>6. ASSUME NEW y \in handler[h].todo \ {x} PROVE Fit(y, e)'
  <2>1. /\ y.plan.code \in Codes \ {x.plan.code} /\ Fit(y, e)
        /\ plans[x.plan.code] # None /\ plans[x.plan.code].ref = x.plan.ref
    BY <1>5
  <2>2. y.fresh <=> plans'[y.plan.code] = None
    BY <1>4, <2>1 DEF Fit
  <2>3. x.plan.ref # y.plan.ref
    BY <1>1, <2>1 DEF Fit
  <2>4. \A d \in Codes \ {y.plan.code} : plans'[d] # None => plans'[d].ref # y.plan.ref
    BY <1>4, <2>1, <2>3 DEF Fit
  <2>5. y.plan.eventAt = e.at /\ Says(e, y.plan)'
    BY <2>1 DEF Fit, Says, Mirrors
  <2> QED
    BY <2>2, <2>4, <2>5 DEF Fit
<1>7. Unlike(rest)'
  <2>1. \A y, z \in handler[h].todo \ {x} : y.plan.code = z.plan.code => y = z
    BY <1>1 DEF Unlike
  <2>2. \A y \in handler[h].todo \ {x} : plans'[y.plan.code] # None /\ plans'[y.plan.code].ref = y.plan.ref
    BY <1>4, <1>5
  <2> QED
    BY <2>1, <2>2 DEF Unlike
<1> QED
  BY <1>1, <1>3, <1>6, <1>7

(* A save: of the newest event, which nothing refuses, or of another plan. *)
LEMMA SaveNewest ==
    ASSUME TypeInv, SoundInv, DatesInv, SerialInv, NewestInv, ReachedOK, NEW h \in Handlers, Save(h)
    PROVE  NewestInv'
<1>1. /\ UNCHANGED <<sync, prices, events, reached, raced>> /\ handler[h].pc = "save"
  BY DEF Save, gateway
<1>2. PICK x \in handler[h].todo :
         SaveRow(x) /\ GoOn(h, handler[h].event, handler[h].todo \ {x})
  BY DEF Save
<1>3. handler \in [Handlers -> Handler] /\ \A g \in Handlers : Holds(handler[g])
  BY DEF TypeInv, RequestsTyped
<1>4. x \in Entity /\ x.plan \in Plan /\ handler[h].event \notin settled
  BY <1>1, <1>2, <1>3 DEF Handler, Entity, Holds
<1>5. /\ \A g \in Handlers \ {h} : handler'[g] = handler[g]
      /\ handler'[h].todo = handler[h].todo \ {x}
      /\ handler[h].todo \ {x} = {} =>
            handler'[h] = Idle /\ settled' = settled \cup {handler[h].event}
      /\ handler[h].todo \ {x} # {} =>
            settled' = settled /\ handler'[h].event = handler[h].event
  BY <1>2, <1>3, IdleTyped DEF GoOn
<1> SUFFICES ASSUME NEW e \in Event, ~raced, Newest(e)
             PROVE  /\ LastEvent \in settled' => Settled(e)'
                    /\ \A g \in Handlers : handler'[g].pc = "save" /\ handler'[g].event = LastEvent
                                                => Saving(g, e)'
  BY <1>1, NewestSame DEF NewestInv
<1>6. e.at \in Times /\ e.at \in Nat /\ LastEvent' = LastEvent /\ LastEvent \in EventIds
  BY <1>1, LastTyped, NewestSame, CatalogAssumption DEF TypeInv, GatewayTyped, EventIds
<1>14. reached'[LastEvent'] = reached[LastEvent] /\ reached[LastEvent] \subseteq Codes
  BY <1>1, <1>6 DEF ReachedOK
<1>7. ~Syncing /\ \A g \in Handlers \ {h} : handler[g].pc = "idle" /\ handler[g].todo = {}
  BY <1>1, <1>3 DEF SerialInv, Busy, Holds
<1>8. \A g \in Handlers \ {h} : handler'[g].pc = "idle" /\ handler'[g].todo = {}
  BY <1>5, <1>7
<1>9. sync'.pc \notin {"next", "save"}
  BY <1>1, <1>7 DEF Syncing
<1>10. \A q \in Plan \cup {None} : Shows(q, e) => Shows(q, e)'
  BY <1>1, ShowsStays
<1>11. \A c \in Codes : plans'[c] = plans[c] \/ (c = x.plan.code /\ plans'[c] = x.plan)
  BY <1>2, <1>4, SavedTyped DEF TypeInv
<1>12. CASE handler[h].event = LastEvent
  <2>1. Saving(h, e)
    BY <1>1, <1>12 DEF NewestInv
  <2>0. PICK rest : rest = handler[h].todo \ {x}
    OBVIOUS
  <2>2. /\ plans' = [plans EXCEPT ![x.plan.code] = x.plan] /\ x.plan.code \in Codes
        /\ \A y \in rest : Fit(y, e)'
        /\ Unlike(rest)'
    BY <1>1, <1>2, <2>0, <2>1, SavedFits
  <2>3. plans'[x.plan.code] = x.plan /\ \A c \in Codes \ {x.plan.code} : plans'[c] = plans[c]
    BY <2>2 DEF TypeInv, PlansTyped
  <2>4. Shows(x.plan, e)
    BY <1>4, <1>6, <2>1, NoneIsNoPlan DEF Saving, Fit, Shows
  <2>5. ASSUME NEW c \in reached[LastEvent], ~\E y \in handler[h].todo \ {x} : y.plan.code = c
        PROVE  \A q \in Plan \cup {None} : q = plans'[c] => Shows(q, e)'
    <3>1. CASE c = x.plan.code
      BY <1>4, <1>10, <2>3, <2>4, <3>1
    <3>2. CASE c # x.plan.code
      <4>1. \A q \in Plan \cup {None} : q = plans[c] => Shows(q, e)
        BY <2>1, <2>5, <3>2 DEF Saving
      <4> QED
        BY <1>10, <1>14, <2>3, <3>2, <4>1
    <3> QED
      BY <3>1, <3>2
  <2>6. CASE handler[h].todo \ {x} = {}
    <3>1. \A g \in Handlers : handler'[g].pc = "idle" /\ handler'[g].todo = {}
      BY <1>5, <1>8, <2>6, IdleTyped
    <3>2. \A c \in reached[LastEvent] : Kept(c, e)'
      BY <2>5, <2>6, <3>1 DEF Kept
    <3> QED
      BY <1>9, <1>14, <3>1, <3>2 DEF Settled
  <2>7. CASE handler[h].todo \ {x} # {}
    <3>1. LastEvent \notin settled'
      BY <1>4, <1>5, <1>12, <2>7
    <3>2. Unlike(handler[h].todo)'
      BY <1>5, <2>0, <2>2 DEF Unlike
    <3>3. \A y \in handler'[h].todo : y \in Entity /\ Fit(y, e)'
      BY <1>5, <2>0, <2>1, <2>2 DEF Saving
    <3>4. Saving(h, e)'
      BY <1>5, <1>14, <2>5, <3>2, <3>3 DEF Saving
    <3> QED
      BY <1>8, <3>1, <3>4
  <2> QED
    BY <2>6, <2>7
<1>13. CASE handler[h].event # LastEvent
  <2>1. \A g \in Handlers : handler'[g].pc = "save" => handler'[g].event # LastEvent
    BY <1>5, <1>8, <1>13, IdleTyped
  <2>2. ASSUME LastEvent \in settled' PROVE Settled(e)'
    <3>1. Settled(e)
      BY <1>5, <1>13, <2>2 DEF NewestInv
    <3>2. ASSUME NEW c \in reached[LastEvent] PROVE Kept(c, e)'
      <4>1. Kept(c, e) /\ c \in Codes
        BY <1>14, <3>1 DEF Settled
      <4>2. plans'[c] = plans[c]
        BY <1>2, <1>11, <4>1 DEF Kept
      <4>3. \A q \in Plan \cup {None} : q = plans'[c] => Shows(q, e)'
        BY <1>10, <4>1, <4>2 DEF Kept
      <4>4. \A g \in Handlers : \A y \in handler'[g].todo : y.plan.code # c
        BY <1>5, <1>8, <4>1 DEF Kept
      <4> QED
        BY <4>3, <4>4 DEF Kept
    <3> QED
      BY <1>9, <1>14, <3>2 DEF Settled
  <2> QED
    BY <2>1, <2>2
<1> QED
  BY <1>12, <1>13

LEMMA FailureNewest ==
    ASSUME TypeInv, NewestInv, NEW h \in Handlers, DispatchFails(h) \/ Release(h)
    PROVE  NewestInv'
<1>1. UNCHANGED <<plans, sync, prices, events, settled, reached, raced>>
  BY DEF DispatchFails, Release, gateway
<1>2. handler' = [handler EXCEPT ![h] = handler'[h]] /\ handler'[h].todo = {} /\ TypeInv'
  BY FailureTyped
<1>3. handler \in [Handlers -> Handler]
  BY DEF TypeInv, RequestsTyped
<1>4. /\ \A g \in Handlers \ {h} : handler'[g] = handler[g]
      /\ handler'[h].pc # "save"
  <2>1. \A g \in Handlers \ {h} : handler'[g] = handler[g]
    BY <1>2, <1>3
  <2>2. handler'[h].pc = "save" <=> handler'[h].todo # {}
    BY <1>2 DEF TypeInv, RequestsTyped, Holds
  <2> QED
    BY <1>2, <2>1, <2>2
<1> SUFFICES ASSUME NEW e \in Event, ~raced, Newest(e)
             PROVE  /\ LastEvent \in settled => Settled(e)'
                    /\ \A g \in Handlers : handler'[g].pc = "save" /\ handler'[g].event = LastEvent
                                                => Saving(g, e)'
  BY <1>1, NewestSame DEF NewestInv
<1>7. LastEvent' = LastEvent /\ reached' = reached
  BY <1>1, NewestSame
<1>8. \A q \in Plan \cup {None} : Shows(q, e) => Shows(q, e)'
  BY <1>1, ShowsStays
<1>5. ASSUME LastEvent \in settled PROVE Settled(e)'
  <2>1. Settled(e)
    BY <1>5 DEF NewestInv
  <2>2. ASSUME NEW c \in reached[LastEvent] PROVE Kept(c, e)'
    <3>1. Kept(c, e)
      BY <2>1 DEF Settled
    <3>2. \A q \in Plan \cup {None} : q = plans'[c] => Shows(q, e)'
      BY <1>1, <1>8, <3>1 DEF Kept
    <3>3. \A g \in Handlers : \A y \in handler'[g].todo : y.plan.code # c
      BY <1>2, <1>4, <3>1 DEF Kept
    <3> QED
      BY <3>2, <3>3 DEF Kept
  <2>3. sync'.pc \in {"next", "save"} => sync'.at >= e.at
    BY <1>1, <2>1 DEF Settled
  <2> QED
    BY <1>7, <2>2, <2>3 DEF Settled
<1>6. ASSUME NEW g \in Handlers, handler'[g].pc = "save", handler'[g].event = LastEvent
      PROVE  Saving(g, e)'
  <2>1. Saving(g, e) /\ handler'[g] = handler[g]
    BY <1>4, <1>6 DEF NewestInv
  <2>2. \A x \in handler[g].todo : Fit(x, e)'
    BY <1>1, <2>1 DEF Saving, Fit, Says, Mirrors
  <2>3. Unlike(handler[g].todo)'
    BY <1>1, <2>1 DEF Saving, Unlike
  <2> QED
    BY <1>1, <1>7, <1>8, <2>1, <2>2, <2>3 DEF Saving
<1> QED
  BY <1>5, <1>6

LEMMA ReachedStep == TypeInv /\ ReachedOK /\ [Next]_vars => ReachedOK'
<1> SUFFICES ASSUME TypeInv, ReachedOK, [Next]_vars PROVE ReachedOK'
  OBVIOUS
<1>1. ASSUME NEW h \in Handlers, NEW i \in DOMAIN events, Claim(h, i) PROVE ReachedOK'
  <2>1. reached' = [reached EXCEPT ![i] = Concerned(events[i])]
    BY <1>1 DEF Claim
  <2>2. Concerned(events[i]) \in SUBSET Codes
    BY DEF Concerned
  <2> QED
    BY <2>1, <2>2 DEF ReachedOK
<1>2. CASE Gateway
  <2>1. reached' = reached
    BY <1>2, GatewayEmits DEF Emit, requests
  <2> QED
    BY <2>1 DEF ReachedOK
<1>3. CASE Reconciliation \/ Tick \/ UNCHANGED vars
  <2>1. reached' = reached
    BY <1>3 DEF Reconciliation, List, Stamp, ReconcileLookup, ReconcileSave, ReconcileFails,
                Tick, vars, requests
  <2> QED
    BY <2>1 DEF ReachedOK
<1>4. ASSUME NEW h \in Handlers, Save(h) \/ DispatchFails(h) \/ Release(h) PROVE ReachedOK'
  <2>1. reached' = reached
    BY <1>4 DEF Save, DispatchFails, Release
  <2> QED
    BY <2>1 DEF ReachedOK
<1> QED
  BY <1>1, <1>2, <1>3, <1>4 DEF Next, Webhook

LEMMA NewestStep ==
    TypeInv /\ SoundInv /\ DatesInv /\ SerialInv /\ NewestInv /\ ReachedOK /\ [Next]_vars => NewestInv'
<1> SUFFICES ASSUME TypeInv, SoundInv, DatesInv, SerialInv, NewestInv, ReachedOK, [Next]_vars
             PROVE  NewestInv'
  OBVIOUS
<1>1. CASE UNCHANGED vars \/ Tick
  <2>1. UNCHANGED <<plans, handler, sync, prices, events, settled, reached, raced>>
    BY <1>1 DEF vars, Tick, requests, gateway
  <2> QED
    BY <2>1, NewestStays
<1> QED
  BY <1>1, GatewayNewest, ReconciliationNewest, ClaimNewest, SaveNewest, FailureNewest
     DEF Next, Webhook

LEMMA InitNewest == Init => DatesInv /\ SerialInv /\ NewestInv /\ ReachedOK
<1> SUFFICES ASSUME Init PROVE DatesInv /\ SerialInv /\ NewestInv /\ ReachedOK
  OBVIOUS
<1>1. events = <<>> /\ claimed = {} /\ sync.pc = "idle" /\ raced = FALSE
  BY DEF Init, Resting
<1>5. handler = [h \in Handlers |-> Idle]
  BY DEF Init
<1>2. \A h \in Handlers : handler[h].todo = {} /\ handler[h].pc = "idle"
  BY <1>5, IdleTyped
<1>3. \A c \in Codes : plans[c] = None
  BY DEF Init
<1>4. ReachedOK
  BY DEF Init, ReachedOK
<1> QED
  BY <1>1, <1>2, <1>3, <1>4 DEF DatesInv, SerialInv, NewestInv, Newest, LastEvent, Busy

LEMMA NewestAlways ==
    Spec => [](TypeInv /\ SoundInv /\ DatesInv /\ SerialInv /\ NewestInv /\ ReachedOK)
BY InitTyped, TypeStep, InitSound, SoundStep, InitNewest, DatesStep, SerialStep, NewestStep,
   ReachedStep, PTL DEF Spec

-----------------------------------------------------------------------------
(* The theorems.                                                           *)

LEMMA TypesFollow == TypeInv /\ ReachedOK => TypeOK
<1> SUFFICES ASSUME TypeInv, ReachedOK PROVE TypeOK
  OBVIOUS
<1>1. /\ sync.pc \in {"idle", "stamp", "next", "save", "done"}
      /\ sync.entries \subseteq Entry /\ sync.todo \subseteq Entity
      /\ sync.stamps \subseteq Times
  BY DEF TypeInv, Sync
<1>2. \A h \in Handlers : /\ handler[h].pc # "idle" => handler[h].event \in claimed
                          /\ handler[h].pc = "save" <=> handler[h].todo # {}
  BY DEF TypeInv, RequestsTyped, Holds
<1> QED
  BY <1>1, <1>2 DEF TypeOK, TypeInv, GatewayTyped, PlansTyped, RequestsTyped, ReachedOK

(* A plan that keeps the free plan's guard gives access for ever.          *)
LEMMA FreeFollows == TypeInv /\ SoundInv => FreeNeverRunsOut
<1> SUFFICES ASSUME TypeInv, SoundInv, plans["free"] # None
             PROVE  /\ plans["free"].offered
                    /\ \A t : EntitlementOf(Create(plans["free"], now), t)
                                 = [access |-> TRUE, plan |-> plans["free"]]
  BY DEF FreeNeverRunsOut
<1> DEFINE free == plans["free"]
<1>1. free \in Plan /\ free.code = "free"
  BY DEF TypeInv, PlansTyped, Codes
<1>2. free.offered /\ free.amount = 0 /\ free.trial = 0
  BY <1>1 DEF SoundInv, Sound, FreeOK, Codes
<1>3. Create(free, now).plan = free /\ Create(free, now).status = "active"
      /\ Create(free, now).periodEnd = None
  BY <1>2 DEF Create
<1>4. ASSUME NEW t, NEW s, s.plan = free, s.status = "active", s.periodEnd = None
      PROVE  Resolve(s, free, t) = [access |-> TRUE, plan |-> free]
  <2>1. (s.periodEnd = None \/ Until(s.periodEnd, t)) = TRUE
    BY <1>4
  <2>2. Resolve(s, free, t) = [access |-> s.periodEnd = None \/ Until(s.periodEnd, t),
                               plan |-> s.plan]
    BY <1>4 DEF Resolve
  <2> QED
    BY <1>4, <2>1, <2>2
<1>5. \A t : EntitlementOf(Create(free, now), t) = [access |-> TRUE, plan |-> free]
  BY <1>3, <1>4 DEF EntitlementOf
<1> QED
  BY <1>2, <1>5

LEMMA HealingFollows == TypeInv /\ HealInv => ReconciliationHeals
<1> SUFFICES ASSUME TypeInv, HealInv, sync.pc = "done", quiet,
                    NEW c \in Codes, NEW p \in Prices, prices[p].code = c, ~prices[p].moved
             PROVE  /\ Claiming(c) = {p} =>
                          plans[c] # None /\ Mirrors(plans[c], EntryOf(p, prices[p]))
                    /\ c # "free" /\ Claiming(c) = {} /\ prices[p].state = "inactive"
                       /\ plans[c] # None /\ plans[c].ref = p => ~plans[c].offered
  BY DEF ReconciliationHeals
<1>1. \A q \in Prices : Current(q) \in Listed => Healed(q)
  BY DEF HealInv, QuietInv, HealedBut
<1>2. Parses(prices[p])
  BY CatalogAssumption DEF Parses, Codes
<1>3. Claiming(c) = {p} => prices[p].state = "active"
  BY DEF Claiming
<1>4. prices[p].state \in {"active", "inactive"} => Current(p) \in Listed
  BY <1>2 DEF Listed, Current
<1>5. prices[p].state \in {"active", "inactive"} => HealedBy(plans[c], p)
  BY <1>1, <1>4, HealedByRow
<1> QED
  BY <1>3, <1>5 DEF HealedBy, Current

LEMMA NewestFollows == TypeInv /\ SoundInv /\ NewestInv /\ ReachedOK => MirrorsNewest
<1> SUFFICES ASSUME TypeInv, SoundInv, NewestInv, ReachedOK, LastEvent \in settled, ~raced,
                    NEW e, e = events[LastEvent],
                    \A i \in 1 .. LastEvent - 1 : events[i].at < e.at,
                    e.kind = "entry_changed" => ~prices[e.entry.price].moved,
                    NEW c \in reached[LastEvent]
             PROVE  /\ plans[c] # None
                    /\ \/ plans[c].eventAt \in sync.stamps /\ plans[c].eventAt >= e.at
                       \/ Says(e, plans[c])
  BY DEF MirrorsNewest, LastEvent
<1>1. LastEvent # 0 /\ e \in Event /\ LastEvent \in EventIds
  <2>1. LastEvent \in 1 .. MaxEvents
    BY DEF TypeInv, RequestsTyped, EventIds
  <2>2. events \in Seq(Event) /\ LastEvent \in Nat /\ MaxEvents \in Nat
    BY CatalogAssumption DEF LastEvent, TypeInv, GatewayTyped
  <2>3. LastEvent # 0
    BY <2>1, <2>2
  <2>4. LastEvent \in DOMAIN events
    BY <2>2, <2>3 DEF LastEvent
  <2> QED
    BY <2>1, <2>2, <2>3, <2>4 DEF EventIds
<1>2. Newest(e)
  BY <1>1 DEF Newest
<1>3. Settled(e)
  BY <1>1, <1>2 DEF NewestInv
<1>4. plans[c] \in Plan \cup {None}
  BY <1>1 DEF ReachedOK, TypeInv, PlansTyped
<1> QED
  BY <1>3, <1>4 DEF Settled, Kept, Shows

(* At every moment the tables, the requests in flight, the reconciliation  *)
(* and the gateway are of their types; two plans share neither code nor    *)
(* price (TypeOK).                                                         *)
THEOREM TypeCorrect == Spec => []TypeOK
BY NewestAlways, TypesFollow, PTL

(* Whatever the gateway says of it, in whatever order, however often and   *)
(* through whichever of the two ways, the free plan stays offered and an   *)
(* account that registers on it has access for ever (FreeNeverRunsOut).    *)
THEOREM FreeCorrect == Spec => []FreeNeverRunsOut
BY SoundAlways, FreeFollows, PTL

(* A reconciliation beside which nothing moves leaves every plan with one  *)
(* active price equal to it, and retires a paid plan whose own price is    *)
(* archived, whatever was lost before and in whatever order the prices are *)
(* listed (ReconciliationHeals).                                           *)
THEOREM HealCorrect == Spec => []ReconciliationHeals
BY HealAlways, HealingFollows, PTL

(* While requests have not overlapped, the plans that the newest event of  *)
(* all found go on saying what it says, or have the stamp of a             *)
(* reconciliation no older: late and repeated events, failed attempts and  *)
(* any number of reconciliations do not undo it (MirrorsNewest).  Of plans *)
(* it did not find, created by an older event that came after it, it says  *)
(* nothing: there the code loses it.                                       *)
THEOREM NewestCorrect == Spec => []MirrorsNewest
BY NewestAlways, NewestFollows, PTL

-----------------------------------------------------------------------------
(* The limiter.                                                            *)

Keys == {l[1] : l \in Limited}

(* The attempts one limit let through, and whether there is an entry that  *)
(* counts them: its window began with the last but count - 1 of them, and  *)
(* the last but one attempt too many for a window reaches back a window    *)
(* from its beginning, or from now when there is no entry.                 *)
Counts(times, policy, counting, entry, t) ==
    LET n == Len(times)
        first == n + 1 - (IF entry.count <= policy.max THEN entry.count ELSE policy.max)
    IN  /\ times \in Seq(Nat)
        /\ \A i \in 1 .. n : times[i] <= t
        /\ \A i, j \in 1 .. n : i <= j => times[i] <= times[j]
        /\ \A i, j \in 1 .. n : j - i + 1 = 2 * policy.max
                                  => times[j] - times[i] >= policy.window
        /\ IF counting
           THEN /\ entry.window = policy.window /\ 1 <= first /\ times[first] = entry.start
                /\ first > policy.max
                     => times[first - policy.max] + policy.window <= entry.start
           ELSE n + 1 > policy.max => times[n + 1 - policy.max] + policy.window <= t

Counted(key, policy) ==
    Counts(admitted[key], policy, key \in DOMAIN entries, entries[key], clock)

EntriesOK ==
    /\ DOMAIN entries \subseteq Keys
    /\ IsFiniteSet(DOMAIN entries) /\ Cardinality(DOMAIN entries) <= MaxTracked
    /\ \A k \in DOMAIN entries :
          entries[k] \in [count : Nat \ {0}, start : 0 .. clock, window : Nat]

LimiterInv ==
    /\ clock \in Nat /\ EntriesOK
    /\ DOMAIN admitted = Keys
    /\ \A l \in Limited : Counted(l[1], l[2])

-----------------------------------------------------------------------------
(* The requests.                                                           *)

AllFacts == ({"is"} \X {"session", "account", "grant", "access"})
            \cup ({"has", "enters with"} \X Capabilities)

Request == [phase : Phases, route : Routes \cup {Mcp, Nowhere}, user : Users \cup {NoValue},
            source : {"header", "cookie", NoValue}, sameSite : BOOLEAN,
            saw : SUBSET AllFacts, held : SUBSET Capabilities, calls : SUBSET Tools,
            opens : {0, 1}, closes : {0, 1}, closing : SUBSET {"pull", "cancel"}]

WorldOK ==
    /\ session \in [Users -> BOOLEAN] /\ account \in [Users -> BOOLEAN]
    /\ grant \in [Users -> BOOLEAN] /\ access \in [Users -> BOOLEAN]
    /\ granted \in [Users -> SUBSET Capabilities]

(* What a caller has been asked for by the time it is where it is.         *)
Verified(r) ==
    /\ r.user \in Users
    /\ r.source = "cookie" => ~r.route.unsafe \/ r.sameSite
Known(r) == /\ <<"is", "session">> \in r.saw /\ <<"is", "account">> \in r.saw
            /\ r.route.adminOnly => r.user \in Admins
Let(r) ==
    \/ r.user \in Admins
    \/ /\ r.route.open \/ <<"is", "access">> \in r.saw
       /\ r.route.needs = NoValue
             \/ <<IF r.route.open THEN "has" ELSE "enters with", r.route.needs>> \in r.saw
Passed(r) ==
    /\ r.phase = "verifying" => Verified(r)
    /\ r.phase = "finding" => Verified(r) /\ <<"is", "session">> \in r.saw
    /\ r.phase = "entitling" /\ r.route # Mcp => Verified(r) /\ Known(r)
    /\ r.phase = "limiting" => Verified(r) /\ Known(r) /\ Let(r)
    /\ r.phase \in {"handling", "importing"} /\ RequiresAuth(r.route)
         => Verified(r) /\ Known(r) /\ Let(r)

(* The same of the MCP endpoint.                                           *)
Granted(r) == /\ r.user \in Users
              /\ <<"is", "grant">> \in r.saw /\ <<"is", "account">> \in r.saw
Enters(r) == /\ r.user \in Admins \/ <<"enters with", "ai_assistant">> \in r.saw
             /\ \A k \in r.held : <<"enters with", k>> \in r.saw
McpPassed(r) ==
    /\ r.phase = "resolving" => r.user \in Users
    /\ r.phase = "entitling" /\ r.route = Mcp => Granted(r)
    /\ r.phase \in {"connecting", "streaming", "closing"}
         => /\ Granted(r) /\ Enters(r)
            /\ \A tool \in r.calls : ToolAllowed(r, tool)

(* The server made for a request, and who is still to close it.            *)
ServerOK(r) ==
    CASE r.phase = "streaming" -> r.opens = 1 /\ r.closes = 0
      [] r.phase = "closing"   -> r.opens = 1 /\ r.closing # {}
      [] r.phase = "idle"      -> r.opens = r.closes
      [] OTHER                 -> r.opens = 0 /\ r.closes = 0

(* Before its server there are no capabilities and no calls of tools.      *)
Untouched(r) == r.phase \notin {"connecting", "streaming", "closing"}
                => r.held = {} /\ r.calls = {}

RequestOK(r) ==
    /\ r \in Request
    /\ r.phase # "idle" => r.route \in Routes \cup {Mcp}
    /\ r.source # NoValue => r.user \in Users
    /\ Facts(r.user) \subseteq r.saw
    /\ Passed(r) /\ McpPassed(r) /\ ServerOK(r) /\ Untouched(r)

RequestsOK == /\ req \in [Callers -> Request]
              /\ \A c \in Callers : RequestOK(req[c])

IntakeInv == LimiterInv /\ WorldOK /\ RequestsOK
-----------------------------------------------------------------------------
(* The log of one limit.                                                   *)

LimitEntry == [count : Nat \ {0}, start : Nat, window : Nat]

(* Time passes, or the entry is given up once its window is over.          *)
LEMMA LogRests ==
    ASSUME NEW times, NEW policy, NEW counting, NEW entry, NEW t \in Nat, NEW u \in Nat, t <= u,
           policy.max \in Nat \ {0}, policy.window \in Nat \ {0},
           counting => entry \in LimitEntry, Counts(times, policy, counting, entry, t)
    PROVE  /\ Counts(times, policy, counting, entry, u)
           /\ counting /\ Expired(entry, u) => Counts(times, policy, FALSE, entry, u)
<1> DEFINE n == Len(times)
           k == IF entry.count <= policy.max THEN entry.count ELSE policy.max
           m == n + 1 - policy.max
<1>1. /\ times \in Seq(Nat) /\ n \in Nat
      /\ \A i \in 1 .. n : times[i] \in Nat /\ times[i] <= t
      /\ \A i, j \in 1 .. n : i <= j => times[i] <= times[j]
    BY DEF Counts
<1>2. \A i \in 1 .. n : times[i] <= u
    BY <1>1
<1>3. n + 1 > policy.max => m \in 1 .. n
    BY <1>1
<1>4. ASSUME ~counting, n + 1 > policy.max PROVE times[m] + policy.window <= u
    <2>1. times[m] + policy.window <= t
        BY <1>4 DEF Counts
    <2>2. times[m] \in Nat
        BY <1>1, <1>3, <1>4
    <2>. HIDE DEF m
    <2>. QED
        BY <2>1, <2>2
<1>5. Counts(times, policy, counting, entry, u)
    BY <1>2, <1>4 DEF Counts
<1>6. ASSUME counting, Expired(entry, u), n + 1 > policy.max
      PROVE  times[m] + policy.window <= u
    <2>1. k \in 1 .. policy.max /\ entry.start \in Nat
        BY <1>6 DEF LimitEntry
    <2>2. entry.window = policy.window /\ 1 <= n + 1 - k /\ times[n + 1 - k] = entry.start
        BY <1>6 DEF Counts
    <2>3. entry.start + policy.window <= u
        BY <1>6, <2>1, <2>2 DEF Expired
    <2>4. m \in 1 .. n /\ times[m] \in Nat
        BY <1>1, <1>3, <1>6
    <2>. HIDE DEF k
    <2>5. n + 1 - k \in 1 .. n /\ m <= n + 1 - k
        BY <1>1, <2>1, <2>2
    <2>6. times[m] <= entry.start
        BY <1>1, <2>2, <2>4, <2>5
    <2>. HIDE DEF m
    <2>. QED
        BY <2>1, <2>3, <2>4, <2>6
<1>. QED
    BY <1>2, <1>5, <1>6 DEF Counts

(* Another attempt is let through: it begins a window, or the window it    *)
(* falls into has let through fewer than it may.                           *)
LEMMA LogGrows ==
    ASSUME NEW times, NEW policy, NEW counting, NEW entry, NEW t \in Nat,
           policy.max \in Nat \ {0}, policy.window \in Nat \ {0},
           counting => entry \in LimitEntry /\ entry.start <= t,
           Counts(times, policy, counting, entry, t), NEW new,
           IF counting /\ ~Expired(entry, t)
           THEN new = [entry EXCEPT !.count = entry.count + 1] /\ entry.count < policy.max
           ELSE new = [count |-> 1, start |-> t, window |-> policy.window]
    PROVE  Counts(Append(times, t), policy, TRUE, new, t)
<1> DEFINE n == Len(times)
           log == Append(times, t)
           max == policy.max
           w == policy.window
<1>1. /\ n \in Nat /\ max \in Nat \ {0} /\ w \in Nat \ {0}
      /\ \A i \in 1 .. n : times[i] \in Nat /\ times[i] <= t
      /\ \A i, j \in 1 .. n : i <= j => times[i] <= times[j]
      /\ \A i, j \in 1 .. n : j - i + 1 = 2 * max => times[j] - times[i] >= w
    BY DEF Counts
<1>2. /\ log \in Seq(Nat) /\ Len(log) = n + 1 /\ log[n + 1] = t
      /\ \A i \in 1 .. n : log[i] = times[i]
    BY DEF Counts
<1>. HIDE DEF log, n, max, w
<1>3. \A i \in 1 .. n + 1 : i \in 1 .. n \/ i = n + 1
    BY <1>1
<1>4. \A i \in 1 .. n + 1 : log[i] \in Nat /\ log[i] <= t
    BY <1>1, <1>2, <1>3
<1>5. \A i, j \in 1 .. n + 1 : i <= j => log[i] <= log[j]
    <2>1. SUFFICES ASSUME NEW i \in 1 .. n + 1, NEW j \in 1 .. n + 1, i <= j
                   PROVE  log[i] <= log[j]
        OBVIOUS
    <2>2. CASE j = n + 1
        BY <1>2, <1>4, <2>2
    <2>3. CASE j \in 1 .. n
        <3>1. i \in 1 .. n
            BY <1>1, <2>1, <2>3
        <3>. QED
            BY <1>1, <1>2, <2>1, <2>3, <3>1
    <2>. QED
        BY <1>3, <2>2, <2>3
(* It is enough to look at the rows of attempts that the last one ends.    *)
<1>6. ASSUME NEW m \in Int, m <= n + 1 - max, n + 1 > max => m >= n + 2 - 2 * max,
             m >= 1 => times[m] + w <= t
      PROVE  \A i, j \in 1 .. n + 1 : j - i + 1 = 2 * max => log[j] - log[i] >= w
    <2>1. SUFFICES ASSUME NEW i \in 1 .. n + 1, NEW j \in 1 .. n + 1, j - i + 1 = 2 * max
                   PROVE  log[j] - log[i] >= w
        OBVIOUS
    <2>2. CASE j = n + 1
        <3>1. i = n + 2 - 2 * max /\ n + 1 > max
            BY <1>1, <2>1, <2>2
        <3>2. i <= m /\ i \in 1 .. n /\ m \in 1 .. n
            BY <1>1, <1>6, <3>1
        <3>3. times[i] <= times[m] /\ times[i] \in Nat /\ times[m] \in Nat
            BY <1>1, <3>2
        <3>4. times[m] + w <= t
            BY <1>6, <3>2
        <3>5. log[i] = times[i] /\ log[j] = t
            BY <1>2, <2>2, <3>2
        <3>. QED
            BY <1>1, <3>3, <3>4, <3>5
    <2>3. CASE j \in 1 .. n
        <3>1. i \in 1 .. n
            BY <1>1, <2>1, <2>3
        <3>. QED
            BY <1>1, <1>2, <2>1, <2>3, <3>1
    <2>. QED
        BY <1>3, <2>2, <2>3
<1>7. CASE counting /\ ~Expired(entry, t)
    <2> DEFINE k == entry.count
               p == n + 1 - k
    <2>1. /\ k \in Nat \ {0} /\ k < max /\ entry.start \in Nat /\ entry.start <= t
          /\ new.count = k + 1 /\ new.start = entry.start /\ new.window = entry.window
        BY <1>7 DEF LimitEntry, max
    <2>2. (IF entry.count <= policy.max THEN entry.count ELSE policy.max) = k
        BY <1>1, <2>1 DEF max
    <2>3. /\ entry.window = w /\ 1 <= p /\ times[p] = entry.start
          /\ p > max => times[p - max] + w <= entry.start
        BY <1>7, <2>2 DEF Counts, n, w, max
    <2>. HIDE DEF k
    <2>4. p \in 1 .. n /\ (p > max => p - max \in 1 .. n)
        BY <1>1, <2>1, <2>3
    <2>5. p - max >= 1 => times[p - max] + w <= t
        <3>1. SUFFICES ASSUME p - max >= 1 PROVE times[p - max] + w <= t
            OBVIOUS
        <3>2. p > max
            BY <1>1, <2>1, <3>1
        <3>3. times[p - max] \in Nat /\ times[p - max] + w <= entry.start
            BY <1>1, <2>3, <2>4, <3>2
        <3>. QED
            BY <1>1, <2>1, <3>3
    <2>6. p - max \in Int /\ p - max <= n + 1 - max /\ p - max >= n + 2 - 2 * max
        BY <1>1, <2>1
    <2>7. \A i, j \in 1 .. n + 1 : j - i + 1 = 2 * max => log[j] - log[i] >= w
        BY <1>6, <2>5, <2>6
    <2>8. /\ (n + 1) + 1 - (k + 1) = p /\ k + 1 <= max
          /\ p > max => log[p - max] + w <= entry.start
        <3>1. (n + 1) + 1 - (k + 1) = p /\ k + 1 <= max
            BY <1>1, <2>1
        <3>. HIDE DEF p
        <3>2. p > max => log[p - max] + w <= entry.start
            BY <1>2, <2>3, <2>4
        <3>. QED
            BY <3>1, <3>2
    <2>9. log[p] = entry.start
        BY <1>2, <2>3, <2>4
    <2>10. Len(log) + 1 - (IF new.count <= policy.max THEN new.count ELSE policy.max) = p
        BY <1>2, <2>1, <2>8 DEF max
    <2>. HIDE DEF p
    <2>. QED
        BY <1>2, <1>4, <1>5, <2>1, <2>3, <2>4, <2>7, <2>8, <2>9, <2>10 DEF Counts, max, w, log
<1>8. CASE ~(counting /\ ~Expired(entry, t))
    <2> DEFINE m == n + 1 - max
    <2>1. n + 1 > max => times[m] + w <= t
        <3>1. Counts(times, policy, FALSE, entry, t)
            <4>1. CASE counting
                <5>1. Expired(entry, t) /\ entry \in LimitEntry /\ t <= t
                    BY <1>8, <4>1
                <5>. QED
                    BY <4>1, <5>1, LogRests
            <4>2. CASE ~counting
                BY <4>2 DEF Counts
            <4>. QED
                BY <4>1, <4>2
        <3>. QED
            BY <3>1 DEF Counts, n, max, w
    <2>2. n + 1 > max => m \in 1 .. n /\ times[m] \in Nat
        BY <1>1
    <2>3. new.count = 1 /\ new.start = t /\ new.window = w
        BY <1>8 DEF w
    <2>4. m \in Int /\ m <= n + 1 - max /\ m >= n + 2 - 2 * max /\ (m >= 1 => n + 1 > max)
        BY <1>1
    <2>5. \A i, j \in 1 .. n + 1 : j - i + 1 = 2 * max => log[j] - log[i] >= w
        BY <1>6, <2>1, <2>4
    <2>6. n + 1 > max => log[m] + w <= t
        BY <1>2, <2>1, <2>2
    <2>7. Len(log) + 1 - (IF new.count <= policy.max THEN new.count ELSE policy.max) = n + 1
        BY <1>1, <1>2, <2>3 DEF max
    <2>8. 1 <= n + 1 /\ n + 1 \in 1 .. n + 1
        BY <1>1
    <2> DEFINE first == Len(log) + 1 - (IF new.count <= policy.max THEN new.count
                                                                 ELSE policy.max)
    <2>9. first = n + 1 /\ 1 <= first
        BY <2>7, <2>8
    <2>10. log[first] = new.start
        BY <1>2, <2>3, <2>9
    <2>. HIDE DEF first
    <2>11. first > policy.max => log[first - policy.max] + policy.window <= new.start
        <3>1. SUFFICES ASSUME first > policy.max
                       PROVE  log[first - policy.max] + policy.window <= new.start
            OBVIOUS
        <3>2. first - policy.max = m
            BY <1>1, <2>9 DEF max
        <3>3. log[m] + w <= t
            BY <2>6, <2>9, <3>1 DEF max
        <3>. HIDE DEF m
        <3>. QED
            BY <2>3, <3>2, <3>3 DEF w
    <2>. HIDE DEF m
    <2>. QED
        BY <1>2, <1>4, <1>5, <2>3, <2>5, <2>9, <2>10, <2>11 DEF Counts, first, max, w, log
<1>. QED
    BY <1>7, <1>8

(* An attempt beyond what its window may let through only counts.          *)
LEMMA LogFull ==
    ASSUME NEW times, NEW policy, NEW entry, NEW t, NEW new,
           policy.max \in Nat \ {0}, entry \in LimitEntry, entry.count >= policy.max,
           new = [entry EXCEPT !.count = entry.count + 1],
           Counts(times, policy, TRUE, entry, t)
    PROVE  Counts(times, policy, TRUE, new, t)
<1>1. /\ new.count = entry.count + 1 /\ new.start = entry.start
      /\ new.window = entry.window /\ entry.count \in Nat
    BY DEF LimitEntry
<1>2. /\ ~(new.count <= policy.max)
      /\ entry.count <= policy.max => entry.count = policy.max
    BY <1>1
<1>. QED
    BY <1>1, <1>2 DEF Counts
-----------------------------------------------------------------------------
(* The limiter as a whole.                                                 *)

LEMMA LimiterConstants ==
    /\ MaxTracked \in Nat \ {0}
    /\ \A l \in Limited : l[2].window \in Nat \ {0} /\ l[2].max \in Nat \ {0}
    /\ \A l, m \in Limited : l[1] = m[1] => l = m
    /\ \A l \in Limited : l[1] \in Keys
BY TrackedAssumption, LimitAssumption DEF Keys

(* Time passes, and what the limiter holds stays.                          *)
LEMMA LimiterRests ==
    ASSUME LimiterInv, UNCHANGED limits, clock' \in Nat, clock <= clock'
    PROVE  LimiterInv'
<1>1. entries' = entries /\ admitted' = admitted /\ clock \in Nat
    BY DEF limits, LimiterInv
<1>2. EntriesOK'
    BY <1>1 DEF LimiterInv, EntriesOK
<1>3. ASSUME NEW l \in Limited PROVE Counted(l[1], l[2])'
    <2>1. Counts(admitted[l[1]], l[2], l[1] \in DOMAIN entries, entries[l[1]], clock)
        BY DEF LimiterInv, Counted
    <2>2. l[1] \in DOMAIN entries => entries[l[1]] \in LimitEntry
        BY <1>1 DEF LimiterInv, EntriesOK, LimitEntry
    <2>3. Counts(admitted[l[1]], l[2], l[1] \in DOMAIN entries, entries[l[1]], clock')
        BY <1>1, <2>1, <2>2, LimiterConstants, LogRests
    <2>. QED
        BY <1>1, <2>3 DEF Counted
<1>. QED
    BY <1>1, <1>2, <1>3 DEF LimiterInv

LEMMA Purged ==
    ASSUME NEW e, NEW t
    PROVE  /\ DOMAIN PurgeExpired(e, t) = {k \in DOMAIN e : ~Expired(e[k], t)}
           /\ \A k \in DOMAIN PurgeExpired(e, t) : PurgeExpired(e, t)[k] = e[k]
BY DEF PurgeExpired, Restrict

(* What an attempt under key does to the entries: those of other keys stay *)
(* or, their windows over, go; its own counts it.                          *)
Live(key) == key \in DOMAIN entries /\ ~Expired(entries[key], clock)
Moved(key, policy, after, allowed) ==
    /\ DOMAIN after \subseteq Keys
    /\ IsFiniteSet(DOMAIN after) /\ Cardinality(DOMAIN after) <= MaxTracked
    /\ \A k \in DOMAIN after :
          k # key => k \in DOMAIN entries /\ after[k] = entries[k]
    /\ \A k \in DOMAIN entries :
          k \in DOMAIN after \/ (k # key /\ Expired(entries[k], clock))
    /\ key \in DOMAIN after
          => IF Live(key)
             THEN /\ allowed <=> entries[key].count + 1 <= policy.max
                  /\ after[key] = [entries[key] EXCEPT !.count = entries[key].count + 1]
             ELSE /\ allowed
                  /\ after[key] = [count |-> 1, start |-> clock, window |-> policy.window]
    /\ key \notin DOMAIN after => ~allowed

LEMMA ConsumeMoves ==
    ASSUME LimiterInv, NEW key \in Keys, NEW policy, NEW d, d = Consume(entries, key, policy, clock)
    PROVE  Moved(key, policy, d.entries, d.allowed)
<1>1. /\ DOMAIN entries \subseteq Keys /\ IsFiniteSet(DOMAIN entries)
      /\ Cardinality(DOMAIN entries) <= MaxTracked /\ MaxTracked \in Nat
      /\ Cardinality(DOMAIN entries) \in Nat
    BY LimiterConstants, FS_CardinalityType DEF LimiterInv, EntriesOK
<1> DEFINE w == NewWindow(policy, clock)
<1>w. w = [count |-> 1, start |-> clock, window |-> policy.window]
    BY DEF NewWindow
<1>. HIDE DEF w
<1>2. CASE key \in DOMAIN entries /\ Expired(entries[key], clock)
    <2>1. d = [entries |-> PutEntry(entries, key, w), allowed |-> TRUE]
        BY <1>2 DEF Consume, ConsumeExisting, w
    <2>2. d.entries = PutEntry(entries, key, w) /\ d.allowed
        BY <2>1
    <2>3. /\ DOMAIN d.entries = DOMAIN entries \cup {key} /\ d.entries[key] = w
          /\ \A k \in DOMAIN entries : k # key => d.entries[k] = entries[k]
        BY <2>2 DEF PutEntry
    <2>. QED
        BY <1>1, <1>2, <1>w, <2>2, <2>3 DEF Moved, Live
<1>3. CASE key \in DOMAIN entries /\ ~Expired(entries[key], clock)
    <2>1. d = [entries |-> [entries EXCEPT ![key].count = entries[key].count + 1],
               allowed |-> entries[key].count + 1 <= policy.max]
        BY <1>3 DEF Consume, ConsumeExisting
    <2> DEFINE fits == entries[key].count + 1 <= policy.max
    <2>. HIDE DEF fits
    <2>2. d.entries = [entries EXCEPT ![key].count = entries[key].count + 1]
          /\ d.allowed = fits
        BY <2>1 DEF fits
    <2>3. DOMAIN d.entries = DOMAIN entries
        BY <2>2
    <2>4. /\ d.entries[key] = [entries[key] EXCEPT !.count = entries[key].count + 1]
          /\ \A k \in DOMAIN entries : k # key => d.entries[k] = entries[k]
        BY <1>3, <2>2
    <2>. QED
        <3>1. d.allowed <=> entries[key].count + 1 <= policy.max
            BY <2>2 DEF fits
        <3>. QED
            BY <1>1, <1>3, <2>3, <2>4, <3>1 DEF Moved, Live
<1>4. CASE key \notin DOMAIN entries
    <2> DEFINE kept == IF Full(entries) THEN PurgeExpired(entries, clock) ELSE entries
    <2>1. /\ DOMAIN kept \subseteq DOMAIN entries
          /\ \A k \in DOMAIN kept : kept[k] = entries[k]
          /\ \A k \in DOMAIN entries : k \in DOMAIN kept \/ Expired(entries[k], clock)
        BY Purged
    <2>2. d = IF Full(kept) THEN [entries |-> kept, allowed |-> FALSE]
              ELSE [entries |-> PutEntry(kept, key, w), allowed |-> TRUE]
        BY <1>4 DEF Consume, ConsumeNew, w
    <2>. HIDE DEF kept
    <2>3. /\ IsFiniteSet(DOMAIN kept) /\ Cardinality(DOMAIN kept) \in Nat
          /\ Cardinality(DOMAIN kept) <= Cardinality(DOMAIN entries)
        BY <1>1, <2>1, FS_Subset, FS_CardinalityType
    <2>4. CASE Full(kept)
        <3>1. d.entries = kept /\ ~d.allowed
            BY <2>2, <2>4
        <3>. QED
            BY <1>1, <1>4, <2>1, <2>3, <3>1 DEF Moved, Live
    <2>5. CASE ~Full(kept)
        <3>1. d.entries = PutEntry(kept, key, w) /\ d.allowed
            BY <2>2, <2>5
        <3>2. /\ DOMAIN d.entries = DOMAIN kept \cup {key} /\ d.entries[key] = w
              /\ \A k \in DOMAIN kept : k # key => d.entries[k] = kept[k]
            BY <3>1 DEF PutEntry
        <3>3. IsFiniteSet(DOMAIN d.entries) /\ Cardinality(DOMAIN d.entries) <= MaxTracked
            <4>1. key \notin DOMAIN kept
                BY <1>4, <2>1
            <4>2. /\ IsFiniteSet(DOMAIN kept \cup {key})
                  /\ Cardinality(DOMAIN kept \cup {key}) = Cardinality(DOMAIN kept) + 1
                BY <2>3, <4>1, FS_AddElement
            <4>3. Cardinality(DOMAIN kept) < MaxTracked
                BY <1>1, <2>3, <2>5 DEF Full
            <4>. QED
                BY <1>1, <2>3, <3>2, <4>2, <4>3
        <3>. QED
            BY <1>1, <1>4, <1>w, <2>1, <3>1, <3>2, <3>3 DEF Moved, Live
    <2>. QED
        BY <2>4, <2>5
<1>. QED
    BY <1>2, <1>3, <1>4

LEMMA AttemptKeeps ==
    ASSUME LimiterInv, clock' = clock, NEW key, NEW policy, <<key, policy>> \in Limited,
           Attempted(key, policy, key)
    PROVE  LimiterInv'
<1> DEFINE d == Consume(entries, key, policy, clock)
<1>1. /\ entries' = d.entries
      /\ admitted' = IF d.allowed THEN [admitted EXCEPT ![key] = Append(@, clock)] ELSE admitted
    BY DEF Attempted, Attempt
<1>2. key \in Keys /\ policy.window \in Nat \ {0} /\ policy.max \in Nat \ {0} /\ clock \in Nat
      /\ DOMAIN admitted = Keys
    <2>1. PICK l \in Limited : l = <<key, policy>>
        OBVIOUS
    <2>2. l[1] = key /\ l[2] = policy
        BY <2>1
    <2>. QED
        BY <2>2, LimiterConstants DEF LimiterInv
<1>3. PICK allowed : /\ Moved(key, policy, entries', allowed)
                     /\ admitted' = IF allowed THEN [admitted EXCEPT ![key] = Append(@, clock)]
                                     ELSE admitted
    BY <1>1, <1>2, ConsumeMoves
<1>. HIDE DEF d
<1>4. \A k \in DOMAIN entries : entries[k] \in LimitEntry /\ entries[k].start <= clock
    BY <1>2 DEF LimiterInv, EntriesOK, LimitEntry
<1>5. EntriesOK'
    <2>1. ASSUME NEW k \in DOMAIN entries', k # key
          PROVE  entries'[k] \in [count : Nat \ {0}, start : 0 .. clock, window : Nat]
        BY <1>3, <2>1 DEF Moved, LimiterInv, EntriesOK
    <2>2. ASSUME key \in DOMAIN entries'
          PROVE  entries'[key] \in [count : Nat \ {0}, start : 0 .. clock, window : Nat]
        <3>1. CASE Live(key)
            <4>1. entries[key] \in [count : Nat \ {0}, start : 0 .. clock, window : Nat]
                BY <3>1 DEF Live, LimiterInv, EntriesOK
            <4>2. entries'[key] = [entries[key] EXCEPT !.count = entries[key].count + 1]
                BY <1>3, <2>2, <3>1 DEF Moved
            <4>. QED
                BY <4>1, <4>2
        <3>2. CASE ~Live(key)
            <4>1. entries'[key] = [count |-> 1, start |-> clock, window |-> policy.window]
                BY <1>3, <2>2, <3>2 DEF Moved
            <4>. QED
                BY <1>2, <4>1
        <3>. QED
            BY <3>1, <3>2
    <2>. QED
        BY <1>3, <2>1, <2>2 DEF Moved, EntriesOK
<1>6. DOMAIN admitted' = Keys
    BY <1>2, <1>3
<1>7. ASSUME NEW l \in Limited, l[1] # key PROVE Counted(l[1], l[2])'
    <2>1. /\ Counts(admitted[l[1]], l[2], l[1] \in DOMAIN entries, entries[l[1]], clock)
          /\ l[1] \in DOMAIN entries => entries[l[1]] \in LimitEntry
        BY <1>4 DEF LimiterInv, Counted
    <2>2. admitted'[l[1]] = admitted[l[1]]
        BY <1>2, <1>3, <1>7, LimiterConstants
    <2>3. CASE l[1] \in DOMAIN entries'
        <3>1. l[1] \in DOMAIN entries /\ entries'[l[1]] = entries[l[1]]
            BY <1>3, <1>7, <2>3 DEF Moved
        <3>. QED
            BY <2>1, <2>2, <2>3, <3>1 DEF Counted
    <2>4. CASE l[1] \notin DOMAIN entries'
        <3>1. Counts(admitted[l[1]], l[2], FALSE, entries[l[1]], clock)
            <4>1. CASE l[1] \in DOMAIN entries
                <5>1. Expired(entries[l[1]], clock) /\ clock <= clock
                    BY <1>2, <1>3, <2>4, <4>1 DEF Moved
                <5>. QED
                    BY <1>2, <2>1, <4>1, <5>1, LimiterConstants, LogRests
            <4>2. CASE l[1] \notin DOMAIN entries
                BY <2>1, <4>2 DEF Counts
            <4>. QED
                BY <4>1, <4>2
        <3>. QED
            BY <2>2, <2>4, <3>1 DEF Counted, Counts
    <2>. QED
        BY <2>3, <2>4
<1>8. Counted(key, policy)'
    <2> DEFINE times == admitted[key]
    <2>1. Counts(times, policy, key \in DOMAIN entries, entries[key], clock)
        <3>1. PICK l \in Limited : l = <<key, policy>>
            OBVIOUS
        <3>2. l[1] = key /\ l[2] = policy
            BY <3>1
        <3>. QED
            BY <3>2 DEF LimiterInv, Counted
    <2>2. CASE allowed
        <3>1. admitted'[key] = Append(times, clock) /\ key \in DOMAIN entries'
            BY <1>2, <1>3, <2>2 DEF Moved
        <3>2. Counts(Append(times, clock), policy, TRUE, entries'[key], clock)
            <4>1. CASE Live(key)
                <5>1. /\ entries'[key] = [entries[key] EXCEPT !.count = entries[key].count + 1]
                      /\ entries[key].count + 1 <= policy.max /\ entries[key].count \in Nat
                    BY <1>3, <1>4, <2>2, <3>1, <4>1 DEF Moved, Live, LimitEntry
                <5>2. entries[key].count < policy.max
                    BY <1>2, <5>1
                <5>. QED
                    BY <1>2, <1>4, <2>1, <4>1, <5>1, <5>2, LogGrows DEF Live
            <4>2. CASE ~Live(key)
                <5>1. entries'[key] = [count |-> 1, start |-> clock, window |-> policy.window]
                    BY <1>3, <3>1, <4>2 DEF Moved
                <5>. QED
                    BY <1>2, <1>4, <2>1, <4>2, <5>1, LogGrows DEF Live
            <4>. QED
                BY <4>1, <4>2
        <3>. QED
            BY <3>1, <3>2 DEF Counted, Counts
    <2>3. CASE ~allowed
        <3>1. admitted'[key] = times
            BY <1>3, <2>3
        <3>2. CASE key \in DOMAIN entries'
            <4>1. /\ Live(key)
                  /\ entries'[key] = [entries[key] EXCEPT !.count = entries[key].count + 1]
                  /\ ~(entries[key].count + 1 <= policy.max)
                BY <1>3, <2>3, <3>2 DEF Moved
            <4>2. entries[key] \in LimitEntry /\ entries[key].count >= policy.max
                BY <1>2, <1>4, <4>1 DEF Live, LimitEntry
            <4>3. Counts(times, policy, TRUE, entries'[key], clock)
                <5>1. Counts(times, policy, TRUE, entries[key], clock)
                    BY <2>1, <4>1 DEF Live, Counts
                <5> DEFINE entry == entries[key]
                <5>2. /\ entry \in LimitEntry /\ entry.count >= policy.max
                      /\ entries'[key] = [entry EXCEPT !.count = entry.count + 1]
                      /\ Counts(times, policy, TRUE, entry, clock)
                    BY <4>1, <4>2, <5>1
                <5>. HIDE DEF times, entry
                <5>. QED
                    BY <1>2, <5>2, LogFull
            <4>. QED
                BY <3>1, <3>2, <4>3 DEF Counted, Counts
        <3>3. CASE key \notin DOMAIN entries'
            <4>1. key \notin DOMAIN entries
                BY <1>3, <3>3 DEF Moved
            <4>. QED
                BY <2>1, <3>1, <3>3, <4>1 DEF Counted, Counts
        <3>. QED
            BY <3>2, <3>3
    <2>. QED
        BY <2>2, <2>3
<1>9. ASSUME NEW l \in Limited, l[1] = key PROVE l[2] = policy
    <2>1. PICK m \in Limited : m = <<key, policy>>
        OBVIOUS
    <2>2. l = m
        BY <1>9, <2>1, LimiterConstants
    <2>. QED
        BY <2>1, <2>2
<1>10. \A l \in Limited : Counted(l[1], l[2])'
    BY <1>7, <1>8, <1>9
<1>. QED
    BY <1>2, <1>5, <1>6, <1>10 DEF LimiterInv
-----------------------------------------------------------------------------
(* The facts.                                                              *)

LEMMA FactShapes ==
    /\ \A f \in {"session", "account", "grant", "access"} : <<"is", f>> \in AllFacts
    /\ \A k \in Capabilities : <<"has", k>> \in AllFacts /\ <<"enters with", k>> \in AllFacts
BY DEF AllFacts

LEMMA FactsOf ==
    ASSUME WorldOK, NEW u \in Users
    PROVE  /\ Facts(u) \subseteq AllFacts
           /\ session[u] => <<"is", "session">> \in Facts(u)
           /\ account[u] => <<"is", "account">> \in Facts(u)
           /\ grant[u] => <<"is", "grant">> \in Facts(u)
           /\ access[u] => <<"is", "access">> \in Facts(u)
           /\ \A k \in granted[u] : <<"has", k>> \in Facts(u)
           /\ access[u] => \A k \in granted[u] : <<"enters with", k>> \in Facts(u)
<1> DEFINE stands(g) == CASE g = "session" -> session[u]
                          [] g = "account" -> account[u]
                          [] g = "grant"   -> grant[u]
                          [] g = "access"  -> access[u]
           standing == {g \in {"session", "account", "grant", "access"} : stands(g)}
           is == {<<"is", f>> : f \in standing}
           has == {<<"has", k>> : k \in granted[u]}
           enters == {<<"enters with", k>> : k \in IF access[u] THEN granted[u] ELSE {}}
<1>1. u # NoValue
    BY LimitAssumption
<1>2. Facts(u) = is \cup has \cup enters
    BY <1>1 DEF Facts
<1>3. /\ session[u] \in BOOLEAN /\ account[u] \in BOOLEAN /\ grant[u] \in BOOLEAN
      /\ access[u] \in BOOLEAN /\ granted[u] \subseteq Capabilities
    BY DEF WorldOK
<1>4. /\ stands("session") = session[u] /\ stands("account") = account[u]
      /\ stands("grant") = grant[u] /\ stands("access") = access[u]
    OBVIOUS
<1>5. /\ standing \subseteq {"session", "account", "grant", "access"}
      /\ session[u] => "session" \in standing
      /\ account[u] => "account" \in standing
      /\ grant[u] => "grant" \in standing
      /\ access[u] => "access" \in standing
    <2>. HIDE DEF stands
    <2>. QED
        BY <1>4
<1>. HIDE DEF standing
<1>6. is \subseteq AllFacts /\ has \subseteq AllFacts /\ enters \subseteq AllFacts
    <2>1. is \subseteq AllFacts
        BY <1>5, FactShapes
    <2>2. has \subseteq AllFacts
        BY <1>3, FactShapes
    <2>3. enters \subseteq AllFacts
        BY <1>3, FactShapes
    <2>. QED
        BY <2>1, <2>2, <2>3
<1>7. \A f \in standing : <<"is", f>> \in is
    OBVIOUS
<1>8. \A k \in granted[u] : <<"has", k>> \in has
    OBVIOUS
<1>9. access[u] => \A k \in granted[u] : <<"enters with", k>> \in enters
    OBVIOUS
<1>. HIDE DEF is, has, enters
<1>. QED
    BY <1>2, <1>5, <1>6, <1>7, <1>8, <1>9

LEMMA NoFacts == Facts(NoValue) = {}
BY DEF Facts

(* One connection moves on, to a request that is right.                    *)
LEMMA OneRequest ==
    ASSUME RequestsOK, WorldOK, UNCHANGED world, NEW c \in Callers, NEW r, RequestOK(r),
           req' = [req EXCEPT ![c] = r]
    PROVE  RequestsOK' /\ WorldOK'
<1>1. \A u : Facts(u)' = Facts(u)
    BY DEF world, Facts
<1>2. \A d \in Callers : req'[d] = IF d = c THEN r ELSE req[d]
    BY DEF RequestsOK
<1>3. \A d \in Callers : RequestOK(req'[d])
    BY <1>2 DEF RequestsOK
<1>4. \A d \in Callers : RequestOK(req[d])'
    BY <1>1, <1>3 DEF RequestOK
<1>5. req' \in [Callers -> Request]
    BY DEF RequestsOK, RequestOK
<1>6. WorldOK'
    BY DEF WorldOK, world
<1>. QED
    BY <1>4, <1>5, <1>6 DEF RequestsOK

LEMMA RequestsRest ==
    ASSUME RequestsOK, WorldOK, UNCHANGED <<req, world>>
    PROVE  RequestsOK' /\ WorldOK'
<1>1. \A u : Facts(u)' = Facts(u)
    BY DEF world, Facts
<1>2. \A d \in Callers : RequestOK(req[d])'
    BY <1>1 DEF RequestsOK, RequestOK
<1>. QED
    BY <1>2 DEF RequestsOK, WorldOK, world

(* An answer leaves an idle connection, its server closed.                 *)
LEMMA Answered ==
    ASSUME RequestsOK, WorldOK, UNCHANGED world, NEW c \in Callers, NEW statuses,
           Answer(c, statuses), req[c].phase \notin {"streaming", "closing"}
    PROVE  RequestsOK' /\ WorldOK'
<1> DEFINE r == [IdleConnection EXCEPT !.opens = req[c].opens, !.closes = req[c].closes]
<1>1. /\ req[c].opens \in {0, 1} /\ req[c].closes \in {0, 1} /\ req[c].opens = req[c].closes
    BY DEF RequestsOK, RequestOK, Request, ServerOK
<1>2. /\ r.phase = "idle" /\ r.user = NoValue /\ r.source = NoValue /\ r.saw = {}
      /\ r.opens = req[c].opens /\ r.closes = req[c].closes /\ r.held = {} /\ r.calls = {}
    BY DEF IdleConnection
<1>3. req' = [req EXCEPT ![c] = r]
    BY DEF Answer
<1>4. r \in Request
    <2>1. IdleConnection \in Request
        BY DEF IdleConnection, Request, Phases
    <2>. HIDE DEF IdleConnection
    <2>. QED
        BY <1>1, <2>1 DEF Request
<1>. HIDE DEF r
<1>5. RequestOK(r)
    BY <1>1, <1>2, <1>4, NoFacts DEF RequestOK, Passed, McpPassed, ServerOK, Untouched
<1>. QED
    BY <1>3, <1>5, OneRequest

(* The request moves to another phase, and nothing else of it changes.     *)
LEMMA Moves ==
    ASSUME RequestsOK, WorldOK, UNCHANGED world, NEW c \in Callers, NEW phase \in Phases,
           To(c, phase), req[c].phase \notin {"idle", "connecting", "streaming", "closing"},
           phase \notin {"streaming", "closing"},
           Passed([req[c] EXCEPT !.phase = phase]), McpPassed([req[c] EXCEPT !.phase = phase])
    PROVE  RequestsOK' /\ WorldOK'
<1> DEFINE r == [req[c] EXCEPT !.phase = phase]
<1>1. req[c] \in Request /\ RequestOK(req[c])
    BY DEF RequestsOK
<1>2. /\ r \in Request /\ r.phase = phase /\ r.route = req[c].route /\ r.user = req[c].user
      /\ r.source = req[c].source /\ r.saw = req[c].saw /\ r.opens = req[c].opens
      /\ r.closes = req[c].closes /\ r.held = req[c].held /\ r.calls = req[c].calls
    BY <1>1 DEF Request
<1>3. Passed(r) /\ McpPassed(r)
    OBVIOUS
<1>4. req' = [req EXCEPT ![c] = r]
    BY DEF To, RequestsOK
<1>. HIDE DEF r
<1>5. RequestOK(r)
    BY <1>1, <1>2, <1>3 DEF RequestOK, ServerOK, Untouched
<1>. QED
    BY <1>4, <1>5, OneRequest

-----------------------------------------------------------------------------
(* One lemma per action.                                                   *)

LEMMA LimiterStays ==
    ASSUME LimiterInv, UNCHANGED limits, UNCHANGED clock
    PROVE  LimiterInv'
<1>1. clock' \in Nat /\ clock <= clock'
    BY DEF LimiterInv
<1>. QED
    BY <1>1, LimiterRests

LEMMA ChangeKeeps ==
    ASSUME IntakeInv, Change
    PROVE  IntakeInv'
<1>1. PICK u \in Users :
        /\ \/ /\ session[u] /\ session' = [session EXCEPT ![u] = FALSE]
              /\ UNCHANGED <<account, grant, access, granted>>
           \/ /\ account[u] /\ account' = [account EXCEPT ![u] = FALSE]
              /\ UNCHANGED <<session, grant, access, granted>>
           \/ /\ grant[u] /\ grant' = [grant EXCEPT ![u] = FALSE]
              /\ UNCHANGED <<session, account, access, granted>>
           \/ /\ u \notin Admins /\ access' = [access EXCEPT ![u] = ~@]
              /\ UNCHANGED <<session, account, grant, granted>>
           \/ /\ u \notin Admins
              /\ \E k \in granted[u] : granted' = [granted EXCEPT ![u] = @ \ {k}]
              /\ UNCHANGED <<session, account, grant, access>>
        /\ Witnessed(u)
    BY DEF Change
<1>2. LimiterInv'
    BY LimiterStays DEF Change, IntakeInv
<1>3. WorldOK'
    <2>1. WorldOK
        BY DEF IntakeInv
    <2>2. CASE UNCHANGED granted
        BY <1>1, <2>1, <2>2 DEF WorldOK
    <2>3. CASE /\ \E k \in granted[u] : granted' = [granted EXCEPT ![u] = @ \ {k}]
               /\ UNCHANGED <<session, account, grant, access>>
        BY <2>1, <2>3 DEF WorldOK
    <2>. QED
        BY <1>1, <2>2, <2>3
<1>4. ASSUME NEW v \in Users, v # u PROVE Facts(v)' = Facts(v)
    <2>1. /\ session'[v] = session[v] /\ account'[v] = account[v] /\ grant'[v] = grant[v]
          /\ access'[v] = access[v] /\ granted'[v] = granted[v]
        BY <1>1, <1>4 DEF IntakeInv, WorldOK
    <2>. QED
        BY <2>1 DEF Facts
<1>5. Facts(u)' \subseteq AllFacts
    <2>1. granted'[u] \subseteq Capabilities
        BY <1>3 DEF WorldOK
    <2>2. ASSUME NEW f \in Facts(u)'
          PROVE  \/ \E g \in {"session", "account", "grant", "access"} : f = <<"is", g>>
                 \/ \E k \in granted'[u] : f = <<"has", k>> \/ f = <<"enters with", k>>
        BY <2>2 DEF Facts
    <2>. QED
        BY <2>1, <2>2, FactShapes
<1>6. Facts(NoValue)' = {}
    BY DEF Facts
<1>7. ASSUME NEW c \in Callers PROVE req'[c] \in Request /\ RequestOK(req[c])'
    <2> DEFINE r == req[c]
               s == req'[c]
    <2>1. r \in Request /\ RequestOK(r)
        BY DEF IntakeInv, RequestsOK
    <2>2. s = IF r.user = u THEN [r EXCEPT !.saw = @ \cup Facts(u)'] ELSE r
        BY <1>1 DEF Witnessed
    <2>3. CASE r.user = u
        <3>1. /\ s \in Request /\ s.phase = r.phase /\ s.route = r.route /\ s.user = r.user
              /\ s.source = r.source /\ s.sameSite = r.sameSite /\ s.held = r.held
              /\ s.calls = r.calls /\ s.opens = r.opens /\ s.closes = r.closes
              /\ s.closing = r.closing /\ s.saw = r.saw \cup Facts(u)'
            BY <1>5, <2>1, <2>2, <2>3 DEF Request
        <3>. HIDE DEF r, s
        <3>2. Passed(s)
            BY <2>1, <3>1 DEF RequestOK, Passed, Verified, Known, Let
        <3>3. McpPassed(s)
            BY <2>1, <3>1 DEF RequestOK, McpPassed, Granted, Enters, ToolAllowed
        <3>4. ServerOK(s) /\ Untouched(s)
            BY <2>1, <3>1 DEF RequestOK, ServerOK, Untouched
        <3>5. /\ s.phase # "idle" => s.route \in Routes \cup {Mcp}
              /\ s.source # NoValue => s.user \in Users
            BY <2>1, <3>1 DEF RequestOK
        <3>6. Facts(u)' \subseteq s.saw /\ s.user = u
            BY <2>3, <3>1
        <3>. HIDE DEF Facts
        <3>7. Facts(req[c].user)' \subseteq s.saw
            BY <3>6 DEF s
        <3>. QED
            BY <3>1, <3>2, <3>3, <3>4, <3>5, <3>7 DEF RequestOK, s
    <2>4. CASE r.user # u
        <3>1. s = r
            BY <2>2, <2>4
        <3>2. \A v : v = r.user => Facts(v)' \subseteq r.saw
            <4>1. r.user \in Users \/ r.user = NoValue
                BY <2>1 DEF Request
            <4>. QED
                BY <1>4, <1>6, <2>1, <2>4, <4>1 DEF RequestOK
        <3>3. Facts(req[c].user)' \subseteq req'[c].saw
            BY <3>1, <3>2
        <3>. QED
            BY <2>1, <3>1, <3>3 DEF RequestOK
    <2>. QED
        BY <2>3, <2>4
<1>8. req' \in [Callers -> Request]
    <2>1. req' = [c \in Callers |-> req'[c]]
        BY <1>1 DEF Witnessed
    <2>. QED
        BY <1>7, <2>1
<1>. QED
    BY <1>2, <1>3, <1>7, <1>8 DEF IntakeInv, RequestsOK

LEMMA TickKeeps ==
    ASSUME IntakeInv, ClockTicks
    PROVE  IntakeInv'
<1>1. clock' \in Nat /\ clock <= clock'
    BY DEF ClockTicks, IntakeInv, LimiterInv
<1>2. LimiterInv'
    BY <1>1, LimiterRests DEF ClockTicks, IntakeInv
<1>. QED
    BY <1>2, RequestsRest DEF ClockTicks, IntakeInv

(* A request whose record is new.                                          *)
LEMMA Begun ==
    ASSUME WorldOK, NEW route \in Routes \cup {Mcp}, NEW u \in Users \cup {NoValue},
           NEW source \in {"header", "cookie", NoValue}, source # NoValue => u \in Users,
           NEW r, r = [IdleConnection EXCEPT !.phase = "parsing", !.route = route, !.user = u,
                                             !.source = source, !.saw = Facts(u)]
    PROVE  RequestOK(r) /\ RequestOK([r EXCEPT !.phase = "draining"])
<1> DEFINE s == [r EXCEPT !.phase = "draining"]
<1>1. Facts(u) \subseteq AllFacts
    <2>1. CASE u \in Users
        BY <2>1, FactsOf
    <2>2. CASE u = NoValue
        BY <2>2, NoFacts
    <2>. QED
        BY <2>1, <2>2
<1>2. /\ IdleConnection \in Request /\ IdleConnection.opens = 0 /\ IdleConnection.closes = 0
      /\ IdleConnection.held = {} /\ IdleConnection.calls = {}
    BY DEF IdleConnection, Request, Phases
<1>. HIDE DEF IdleConnection
<1>3. /\ r \in Request /\ r.phase = "parsing" /\ r.route = route /\ r.user = u
      /\ r.source = source /\ r.saw = Facts(u) /\ r.opens = 0 /\ r.closes = 0
      /\ r.held = {} /\ r.calls = {}
    BY <1>1, <1>2 DEF Request, Phases
<1>4. /\ s \in Request /\ s.phase = "draining" /\ s.route = route /\ s.user = u
      /\ s.source = source /\ s.saw = Facts(u) /\ s.opens = 0 /\ s.closes = 0
      /\ s.held = {} /\ s.calls = {}
    BY <1>3 DEF Request, Phases
<1>. HIDE DEF s
<1>5. RequestOK(r) /\ RequestOK(s)
    BY <1>3, <1>4 DEF RequestOK, Passed, McpPassed, ServerOK, Untouched
<1>. QED
    BY <1>5 DEF s

LEMMA ArriveKeeps ==
    ASSUME IntakeInv, NEW c \in Callers, NEW route \in Routes, NEW u \in Users \cup {NoValue},
           NEW source \in {"header", "cookie", NoValue}, source # NoValue => u \in Users,
           Arrive(c, route, u, source)
    PROVE  IntakeInv'
<1> DEFINE r == [IdleConnection EXCEPT !.phase = "parsing", !.route = route, !.user = u,
                                       !.source = source, !.saw = Facts(u)]
           s == [r EXCEPT !.phase = "draining"]
<1>1. UNCHANGED world /\ UNCHANGED clock
    BY DEF Arrive
<1>2. RequestOK(r) /\ RequestOK(s)
    <2>. HIDE DEF r
    <2>1. r = [IdleConnection EXCEPT !.phase = "parsing", !.route = route, !.user = u,
                                     !.source = source, !.saw = Facts(u)]
        BY DEF r
    <2>. QED
        BY <2>1, Begun DEF IntakeInv
<1>3. \/ UNCHANGED limits /\ req' = [req EXCEPT ![c] = r]
      \/ /\ route.peerPolicy # NoPolicy
         /\ \E peer \in Peers, hop \in Peers \cup {NoValue} :
              LET key == RateKey(route, CallerIp(peer, hop))
              IN  /\ Attempted(key, route.peerPolicy,
                        RateKey(route, IF TrustedProxy /\ hop # NoValue THEN hop ELSE peer))
                  /\ req' = [req EXCEPT ![c] = IF Attempt(key, route.peerPolicy).allowed
                                               THEN r ELSE s]
    BY DEF Arrive
<1>. HIDE DEF r, s
<1>4. CASE UNCHANGED limits /\ req' = [req EXCEPT ![c] = r]
    BY <1>1, <1>2, <1>4, LimiterStays, OneRequest DEF IntakeInv
<1>5. ASSUME route.peerPolicy # NoPolicy, NEW peer \in Peers, NEW hop \in Peers \cup {NoValue},
             Attempted(RateKey(route, CallerIp(peer, hop)), route.peerPolicy,
                 RateKey(route, IF TrustedProxy /\ hop # NoValue THEN hop ELSE peer)),
             req' = [req EXCEPT ![c] =
                        IF Attempt(RateKey(route, CallerIp(peer, hop)), route.peerPolicy).allowed
                        THEN r ELSE s]
      PROVE  IntakeInv'
    <2> DEFINE from == CallerIp(peer, hop)
    <2>1. from = IF TrustedProxy /\ hop # NoValue THEN hop ELSE peer
        BY DEF CallerIp
    <2>2. from \in Peers
        BY <2>1
    <2>3. Attempted(RateKey(route, from), route.peerPolicy, RateKey(route, from))
        BY <1>5, <2>1
    <2>. HIDE DEF from
    <2>4. <<RateKey(route, from), route.peerPolicy>> \in Limited
        BY <1>5, <2>2 DEF Limited
    <2>5. LimiterInv'
        BY <1>1, <2>3, <2>4, AttemptKeeps DEF IntakeInv
    <2>6. req' = [req EXCEPT ![c] = r] \/ req' = [req EXCEPT ![c] = s]
        BY <1>5
    <2>7. RequestsOK' /\ WorldOK'
        BY <1>1, <1>2, <2>6, OneRequest DEF IntakeInv
    <2>. QED
        BY <2>5, <2>7 DEF IntakeInv
<1>. QED
    BY <1>3, <1>4, <1>5

(* What the lemmas on the handlers' steps start from.                      *)
LEMMA AtOnce ==
    ASSUME IntakeInv, NEW c \in Callers
    PROVE  /\ RequestsOK /\ WorldOK /\ LimiterInv /\ req[c] \in Request /\ RequestOK(req[c])
           /\ req[c].phase # "idle" /\ req[c].route # Mcp => req[c].route \in Routes
BY DEF IntakeInv, RequestsOK, RequestOK

LEMMA DrainKeeps ==
    ASSUME IntakeInv, NEW c \in Callers, Drain(c)
    PROVE  IntakeInv'
<1>1. /\ req[c].phase = "draining" /\ Answer(c, {429, 500})
      /\ UNCHANGED world /\ UNCHANGED limits /\ UNCHANGED clock
    BY DEF Drain, At
<1>. QED
    BY <1>1, AtOnce, LimiterStays, Answered DEF IntakeInv

LEMMA ParseKeeps ==
    ASSUME IntakeInv, NEW c \in Callers, Parse(c)
    PROVE  IntakeInv'
<1> DEFINE r == req[c]
<1>1. /\ r.phase = "parsing" /\ r.route # Mcp
      /\ UNCHANGED world /\ UNCHANGED limits /\ UNCHANGED clock
    BY DEF Parse, At
<1>2. LimiterInv'
    BY <1>1, LimiterStays DEF IntakeInv
<1>3. ASSUME NEW statuses, Answer(c, statuses) PROVE IntakeInv'
    BY <1>1, <1>2, <1>3, AtOnce, Answered DEF IntakeInv
<1>4. CASE ~RequiresAuth(r.route) /\ To(c, "handling")
    <2> DEFINE s == [req[c] EXCEPT !.phase = "handling"]
    <2>1. s.phase = "handling" /\ s.route = r.route
        BY AtOnce DEF Request
    <2>2. Passed(s) /\ McpPassed(s)
        BY <1>4, <2>1 DEF Passed, McpPassed
    <2>3. "handling" \in Phases
        BY DEF Phases
    <2>. HIDE DEF s
    <2>. QED
        BY <1>1, <1>2, <1>4, <2>2, <2>3, AtOnce, Moves DEF IntakeInv, s
<1>5. ASSUME NEW originAllowed \in BOOLEAN, Credential(r), ~CrossSite(r, originAllowed),
             req' = [req EXCEPT ![c].phase = "verifying", ![c].sameSite = originAllowed]
      PROVE  IntakeInv'
    <2> DEFINE s == [req[c] EXCEPT !.phase = "verifying", !.sameSite = originAllowed]
    <2>1. req' = [req EXCEPT ![c] = s]
        BY <1>5, AtOnce DEF RequestsOK, Request
    <2>2. /\ s \in Request /\ s.phase = "verifying" /\ s.sameSite = originAllowed
          /\ s.route = r.route /\ s.user = r.user /\ s.source = r.source /\ s.saw = r.saw
          /\ s.opens = r.opens /\ s.closes = r.closes /\ s.held = r.held /\ s.calls = r.calls
        BY AtOnce DEF Request, Phases
    <2>. HIDE DEF s, r
    <2>3. RequestOK(r)
        BY AtOnce DEF r
    <2>4. r.source # NoValue /\ r.user \in Users
        BY <1>5, <2>3 DEF Credential, RequestOK, NoValue
    <2>5. s.source = "cookie" => ~s.route.unsafe \/ s.sameSite
        BY <1>5, <2>2 DEF CrossSite
    <2>6. RequestOK(s)
        BY <1>1, <2>2, <2>3, <2>4, <2>5 DEF RequestOK, Passed, Verified, McpPassed, ServerOK,
                                                  Untouched
    <2>. QED
        BY <1>1, <1>2, <2>1, <2>6, AtOnce, OneRequest DEF IntakeInv
<1>. QED
    BY <1>3, <1>4, <1>5 DEF Parse

LEMMA VerifySessionKeeps ==
    ASSUME IntakeInv, NEW c \in Callers, VerifySession(c)
    PROVE  IntakeInv'
<1> DEFINE s == [req[c] EXCEPT !.phase = "finding"]
<1>1. /\ req[c].phase = "verifying" /\ UNCHANGED world /\ UNCHANGED limits /\ UNCHANGED clock
      /\ IF session[req[c].user] THEN To(c, "finding") ELSE Answer(c, {401})
    BY DEF VerifySession, At
<1>2. LimiterInv'
    BY <1>1, LimiterStays DEF IntakeInv
<1>3. CASE Answer(c, {401})
    BY <1>1, <1>2, <1>3, AtOnce, Answered DEF IntakeInv
<1>4. CASE session[req[c].user] /\ To(c, "finding")
    <2>1. /\ s.phase = "finding" /\ s.route = req[c].route /\ s.user = req[c].user
          /\ s.source = req[c].source /\ s.saw = req[c].saw /\ s.sameSite = req[c].sameSite
        BY AtOnce DEF Request
    <2>2. Verified(req[c]) /\ req[c].user \in Users /\ Facts(req[c].user) \subseteq req[c].saw
        BY <1>1, AtOnce DEF RequestOK, Passed, Verified
    <2>3. <<"is", "session">> \in req[c].saw
        BY <1>4, <2>2, AtOnce, FactsOf
    <2>. HIDE DEF s
    <2>4. Passed(s) /\ McpPassed(s)
        BY <2>1, <2>2, <2>3 DEF Passed, McpPassed, Verified
    <2>5. "finding" \in Phases
        BY DEF Phases
    <2>. QED
        BY <1>1, <1>2, <1>4, <2>4, <2>5, AtOnce, Moves DEF IntakeInv, s
<1>. QED
    BY <1>1, <1>3, <1>4

LEMMA FindUserKeeps ==
    ASSUME IntakeInv, NEW c \in Callers, FindUser(c)
    PROVE  IntakeInv'
<1> DEFINE r == req[c]
<1>1. /\ r.phase = "finding" /\ r.route # Mcp
      /\ UNCHANGED world /\ UNCHANGED limits /\ UNCHANGED clock
    BY DEF FindUser, At
<1>2. LimiterInv'
    BY <1>1, LimiterStays DEF IntakeInv
<1>3. ASSUME NEW statuses, Answer(c, statuses) PROVE IntakeInv'
    BY <1>1, <1>2, <1>3, AtOnce, Answered DEF IntakeInv
<1>4. ASSUME account[r.user], r.route.adminOnly => IsAdmin(r),
             To(c, IF NeedsEntitlement(r) THEN "entitling" ELSE "limiting")
      PROVE  IntakeInv'
    <2> DEFINE phase == IF NeedsEntitlement(r) THEN "entitling" ELSE "limiting"
               s == [req[c] EXCEPT !.phase = phase]
    <2>1. /\ s.phase = phase /\ s.route = r.route /\ s.user = r.user
          /\ s.source = r.source /\ s.saw = r.saw /\ s.sameSite = r.sameSite
        BY AtOnce DEF Request
    <2>2. /\ Verified(r) /\ <<"is", "session">> \in r.saw
          /\ r.user \in Users /\ Facts(r.user) \subseteq r.saw
        BY <1>1, AtOnce DEF RequestOK, Passed, Verified
    <2>3. <<"is", "account">> \in r.saw
        BY <1>4, <2>2, AtOnce, FactsOf
    <2>4. phase \in {"entitling", "limiting"} /\ phase \in Phases
        BY DEF Phases
    <2>5. phase = "limiting" => r.user \in Admins \/ (r.route.open /\ r.route.needs = NoValue)
        BY DEF NeedsEntitlement, NeedsPlatformAccess, IsAdmin
    <2>6. To(c, phase)
        BY <1>4
    <2>. HIDE DEF s, phase, r
    <2>7. Passed(s) /\ McpPassed(s)
        BY <1>1, <1>4, <2>1, <2>2, <2>3, <2>4, <2>5
            DEF Passed, McpPassed, Verified, Known, Let, IsAdmin
    <2>. QED
        BY <1>1, <1>2, <2>4, <2>6, <2>7, AtOnce, Moves DEF IntakeInv, s, r
<1>. QED
    BY <1>3, <1>4 DEF FindUser

LEMMA AdmitKeeps ==
    ASSUME IntakeInv, NEW c \in Callers, Admit(c)
    PROVE  IntakeInv'
<1> DEFINE r == req[c]
           key == RateKey(r.route, r.user)
           policy == r.route.userPolicy
<1>1. /\ r.phase \in {"limiting", "entitling"} /\ r.route # Mcp
      /\ r.phase = "entitling" => Entitled(r)
      /\ UNCHANGED world /\ UNCHANGED clock
      /\ \/ UNCHANGED limits
         \/ policy # NoPolicy /\ Attempted(key, policy, key)
      /\ \/ \E phase \in {"handling", "draining"} : To(c, phase)
         \/ Answer(c, {429})
    BY DEF Admit, At
<1>2. r.route \in Routes /\ r.user \in Users /\ Verified(r) /\ Known(r)
      /\ Facts(r.user) \subseteq r.saw
    BY <1>1, AtOnce DEF RequestOK, Passed, Verified
<1>3. Let(r)
    <2>1. CASE r.phase = "limiting"
        BY <2>1, AtOnce DEF RequestOK, Passed
    <2>2. CASE r.phase = "entitling"
        <3>1. Entitled(r)
            BY <1>1, <2>2
        <3>2. /\ access[r.user] => <<"is", "access">> \in r.saw
              /\ \A k \in granted[r.user] : <<"has", k>> \in r.saw
              /\ access[r.user] => \A k \in granted[r.user] : <<"enters with", k>> \in r.saw
            BY <1>2, AtOnce, FactsOf
        <3>. QED
            BY <3>1, <3>2
                DEF Let, Entitled, HasPlatformAccess, Allows, NeedsPlatformAccess
    <2>. QED
        BY <1>1, <2>1, <2>2
<1>4. LimiterInv'
    <2>1. CASE UNCHANGED limits
        BY <1>1, <2>1, LimiterStays DEF IntakeInv
    <2>2. CASE policy # NoPolicy /\ Attempted(key, policy, key)
        <3>1. <<key, policy>> \in Limited
            BY <1>2, <2>2 DEF Limited
        <3>. HIDE DEF key, policy
        <3>. QED
            BY <1>1, <2>2, <3>1, AttemptKeeps DEF IntakeInv
    <2>. QED
        BY <1>1, <2>1, <2>2
<1>5. CASE Answer(c, {429})
    BY <1>1, <1>4, <1>5, AtOnce, Answered DEF IntakeInv
<1>6. ASSUME NEW phase \in {"handling", "draining"}, To(c, phase) PROVE IntakeInv'
    <2> DEFINE s == [req[c] EXCEPT !.phase = phase]
    <2>1. /\ s.phase = phase /\ s.route = r.route /\ s.user = r.user
          /\ s.source = r.source /\ s.saw = r.saw /\ s.sameSite = r.sameSite
        BY AtOnce DEF Request
    <2>2. phase \in Phases
        BY DEF Phases
    <2>. HIDE DEF s, r
    <2>3. Passed(s) /\ McpPassed(s)
        BY <1>2, <1>3, <2>1 DEF Passed, McpPassed, Verified, Known, Let
    <2>. QED
        BY <1>1, <1>4, <1>6, <2>2, <2>3, AtOnce, Moves DEF IntakeInv, s, r
<1>. QED
    BY <1>1, <1>5, <1>6

LEMMA ForbidKeeps ==
    ASSUME IntakeInv, NEW c \in Callers, Forbid(c)
    PROVE  IntakeInv'
<1>1. /\ req[c].phase = "entitling" /\ Answer(c, {403})
      /\ UNCHANGED world /\ UNCHANGED limits /\ UNCHANGED clock
    BY DEF Forbid, At
<1>. QED
    BY <1>1, AtOnce, LimiterStays, Answered DEF IntakeInv

LEMMA HandleKeeps ==
    ASSUME IntakeInv, NEW c \in Callers, Handle(c)
    PROVE  IntakeInv'
<1> DEFINE s == [req[c] EXCEPT !.phase = "importing"]
<1>1. /\ req[c].phase = "handling" /\ UNCHANGED world /\ UNCHANGED limits /\ UNCHANGED clock
      /\ \/ Answer(c, {200, 204} \cup ErrorCodes)
         \/ To(c, "importing")
    BY DEF Handle, At
<1>2. LimiterInv'
    BY <1>1, LimiterStays DEF IntakeInv
<1>3. CASE Answer(c, {200, 204} \cup ErrorCodes)
    BY <1>1, <1>2, <1>3, AtOnce, Answered DEF IntakeInv
<1>4. CASE To(c, "importing")
    <2>1. /\ s.phase = "importing" /\ s.route = req[c].route /\ s.user = req[c].user
          /\ s.source = req[c].source /\ s.saw = req[c].saw /\ s.sameSite = req[c].sameSite
        BY AtOnce DEF Request
    <2>2. "importing" \in Phases /\ RequestOK(req[c])
        BY AtOnce DEF Phases
    <2>. HIDE DEF s
    <2>3. Passed(s) /\ McpPassed(s)
        BY <1>1, <2>1, <2>2 DEF RequestOK, Passed, McpPassed, Verified, Known, Let
    <2>. QED
        BY <1>1, <1>2, <1>4, <2>2, <2>3, AtOnce, Moves DEF IntakeInv, s
<1>. QED
    BY <1>1, <1>3, <1>4

LEMMA ImportKeeps ==
    ASSUME IntakeInv, NEW c \in Callers, Import(c)
    PROVE  IntakeInv'
BY LimiterStays, RequestsRest DEF Import, IntakeInv

LEMMA ImportAnsweredKeeps ==
    ASSUME IntakeInv, NEW c \in Callers, ImportAnswered(c)
    PROVE  IntakeInv'
<1>1. PICK statuses : Answer(c, statuses)
    BY DEF ImportAnswered
<1>2. /\ req[c].phase = "importing"
      /\ UNCHANGED world /\ UNCHANGED limits /\ UNCHANGED clock
    BY DEF ImportAnswered, At
<1>. QED
    BY <1>1, <1>2, AtOnce, LimiterStays, Answered DEF IntakeInv


LEMMA McpArriveKeeps ==
    ASSUME IntakeInv, NEW c \in Callers, NEW u \in Users \cup {NoValue},
           NEW source \in {"header", "cookie", NoValue}, source # NoValue => u \in Users,
           McpArrive(c, u, source)
    PROVE  IntakeInv'
<1> DEFINE r == [IdleConnection EXCEPT !.phase = "parsing", !.route = Mcp, !.user = u,
                                       !.source = source, !.saw = Facts(u)]
<1>1. /\ req' = [req EXCEPT ![c] = r]
      /\ UNCHANGED world /\ UNCHANGED limits /\ UNCHANGED clock
    BY DEF McpArrive
<1>2. r = [IdleConnection EXCEPT !.phase = "parsing", !.route = Mcp, !.user = u,
                                 !.source = source, !.saw = Facts(u)]
    OBVIOUS
<1>. HIDE DEF r
<1>3. RequestOK(r)
    BY <1>2, Begun DEF IntakeInv
<1>. QED
    BY <1>1, <1>3, LimiterStays, OneRequest DEF IntakeInv

LEMMA McpParseKeeps ==
    ASSUME IntakeInv, NEW c \in Callers, McpParse(c)
    PROVE  IntakeInv'
<1> DEFINE s == [req[c] EXCEPT !.phase = "resolving"]
<1>1. /\ req[c].phase = "parsing" /\ UNCHANGED world /\ UNCHANGED limits /\ UNCHANGED clock
      /\ \/ \E statuses : Answer(c, statuses)
         \/ req[c].source # NoValue /\ To(c, "resolving")
    BY DEF McpParse, AtMcp
<1>2. LimiterInv'
    BY <1>1, LimiterStays DEF IntakeInv
<1>3. ASSUME NEW statuses, Answer(c, statuses) PROVE IntakeInv'
    BY <1>1, <1>2, <1>3, AtOnce, Answered DEF IntakeInv
<1>4. CASE req[c].source # NoValue /\ To(c, "resolving")
    <2>1. s.phase = "resolving" /\ s.user = req[c].user /\ "resolving" \in Phases
        BY AtOnce DEF Request, Phases
    <2>2. req[c].user \in Users
        BY <1>4, AtOnce DEF RequestOK
    <2>. HIDE DEF s
    <2>3. Passed(s) /\ McpPassed(s)
        BY <2>1, <2>2 DEF Passed, McpPassed
    <2>. QED
        BY <1>1, <1>2, <1>4, <2>1, <2>3, AtOnce, Moves DEF IntakeInv, s
<1>. QED
    BY <1>1, <1>3, <1>4

LEMMA McpResolveKeeps ==
    ASSUME IntakeInv, NEW c \in Callers, McpResolve(c)
    PROVE  IntakeInv'
<1> DEFINE r == req[c]
           u == r.user
           key == McpKey(u)
<1>1. /\ r.phase = "resolving" /\ r.route = Mcp /\ UNCHANGED world /\ UNCHANGED clock
      /\ \/ UNCHANGED limits
         \/ Attempted(key, McpPolicy, key)
      /\ \/ \E statuses : Answer(c, statuses)
         \/ /\ grant[u] /\ account[u]
            /\ To(c, IF u \in Admins THEN "connecting" ELSE "entitling")
    BY DEF McpResolve, AtMcp
<1>2. u \in Users /\ Facts(u) \subseteq r.saw
    BY <1>1, AtOnce DEF RequestOK, McpPassed
<1>3. LimiterInv'
    <2>1. CASE UNCHANGED limits
        BY <1>1, <2>1, LimiterStays DEF IntakeInv
    <2>2. CASE Attempted(key, McpPolicy, key)
        <3>1. <<key, McpPolicy>> \in Limited
            BY <1>2 DEF Limited
        <3>. HIDE DEF key
        <3>. QED
            BY <1>1, <2>2, <3>1, AttemptKeeps DEF IntakeInv
    <2>. QED
        BY <1>1, <2>1, <2>2
<1>4. ASSUME NEW statuses, Answer(c, statuses) PROVE IntakeInv'
    BY <1>1, <1>3, <1>4, AtOnce, Answered DEF IntakeInv
<1>5. ASSUME grant[u], account[u], To(c, IF u \in Admins THEN "connecting" ELSE "entitling")
      PROVE  IntakeInv'
    <2> DEFINE phase == IF u \in Admins THEN "connecting" ELSE "entitling"
               s == [req[c] EXCEPT !.phase = phase]
    <2>1. /\ s.phase = phase /\ s.route = r.route /\ s.user = u /\ s.source = r.source
          /\ s.saw = r.saw /\ s.held = r.held /\ s.calls = r.calls
          /\ r.held \subseteq Capabilities
        BY AtOnce DEF Request
    <2>2. /\ phase \in {"connecting", "entitling"} /\ phase \in Phases
          /\ phase = "connecting" => u \in Admins
        BY DEF Phases
    <2>3. <<"is", "grant">> \in r.saw /\ <<"is", "account">> \in r.saw
        BY <1>2, <1>5, AtOnce, FactsOf
    <2>4. r.held = {} /\ r.calls = {}
        BY <1>1, AtOnce DEF RequestOK, Untouched
    <2>5. To(c, phase)
        BY <1>5
    <2>. HIDE DEF s, phase, r, u
    <2>6. Passed(s) /\ McpPassed(s)
        BY <1>1, <1>2, <2>1, <2>2, <2>3, <2>4 DEF Passed, McpPassed, Granted, Enters
    <2>. QED
        BY <1>1, <1>3, <2>2, <2>5, <2>6, AtOnce, Moves DEF IntakeInv, s, r, u
<1>. QED
    BY <1>1, <1>4, <1>5

LEMMA McpEntitleKeeps ==
    ASSUME IntakeInv, NEW c \in Callers, McpEntitle(c)
    PROVE  IntakeInv'
<1> DEFINE r == req[c]
           u == r.user
<1>1. /\ r.phase = "entitling" /\ r.route = Mcp
      /\ UNCHANGED world /\ UNCHANGED limits /\ UNCHANGED clock
      /\ \/ Answer(c, Forbidden)
         \/ /\ access[u] /\ "ai_assistant" \in granted[u]
            /\ req' = [req EXCEPT ![c].phase = "connecting", ![c].held = granted[u]]
    BY DEF McpEntitle, AtMcp, HasPlatformAccess, Allows
<1>2. LimiterInv'
    BY <1>1, LimiterStays DEF IntakeInv
<1>3. CASE Answer(c, Forbidden)
    BY <1>1, <1>2, <1>3, AtOnce, Answered DEF IntakeInv
<1>4. CASE /\ access[u] /\ "ai_assistant" \in granted[u]
           /\ req' = [req EXCEPT ![c].phase = "connecting", ![c].held = granted[u]]
    <2> DEFINE s == [req[c] EXCEPT !.phase = "connecting", !.held = granted[u]]
    <2>1. req' = [req EXCEPT ![c] = s]
        BY <1>4, AtOnce DEF RequestsOK, Request
    <2>2. u \in Users /\ Granted(r) /\ Facts(u) \subseteq r.saw
        BY <1>1, AtOnce DEF RequestOK, McpPassed, Granted
    <2>3. granted[u] \subseteq Capabilities
        BY <2>2, AtOnce DEF WorldOK
    <2>4. /\ s \in Request /\ s.phase = "connecting" /\ s.held = granted[u]
          /\ s.route = r.route /\ s.user = u /\ s.source = r.source /\ s.saw = r.saw
          /\ s.calls = r.calls /\ s.opens = r.opens /\ s.closes = r.closes
        BY <2>3, AtOnce DEF Request, Phases
    <2>5. \A k \in granted[u] : <<"enters with", k>> \in r.saw
        BY <1>4, <2>2, AtOnce, FactsOf
    <2>6. RequestOK(r) /\ r.calls = {}
        BY <1>1, AtOnce DEF RequestOK, Untouched
    <2>. HIDE DEF s, r, u
    <2>7. McpPassed(s)
        BY <1>4, <2>2, <2>4, <2>5, <2>6 DEF McpPassed, Granted, Enters, ToolAllowed
    <2>8. RequestOK(s)
        BY <1>1, <2>2, <2>4, <2>6, <2>7 DEF RequestOK, Passed, ServerOK, Untouched, u
    <2>. QED
        BY <1>1, <1>2, <2>1, <2>8, AtOnce, OneRequest DEF IntakeInv
<1>. QED
    BY <1>1, <1>3, <1>4


LEMMA McpServeKeeps ==
    ASSUME IntakeInv, NEW c \in Callers, McpServe(c)
    PROVE  IntakeInv'
<1> DEFINE r == req[c]
           gone == [IdleConnection EXCEPT !.opens = 1, !.closes = 1]
           s == [req[c] EXCEPT !.phase = "streaming", !.opens = 1]
<1>1. /\ r.phase = "connecting" /\ r.route = Mcp
      /\ UNCHANGED world /\ UNCHANGED limits /\ UNCHANGED clock
      /\ \/ req' = [req EXCEPT ![c] = gone]
         \/ req' = [req EXCEPT ![c] = s]
    BY AtOnce DEF McpServe, AtMcp, RequestsOK, Request
<1>2. LimiterInv'
    BY <1>1, LimiterStays DEF IntakeInv
<1>3. RequestOK(gone)
    <2>1. /\ IdleConnection \in Request /\ IdleConnection.phase = "idle"
          /\ IdleConnection.user = NoValue /\ IdleConnection.source = NoValue
          /\ IdleConnection.saw = {} /\ IdleConnection.held = {} /\ IdleConnection.calls = {}
        BY DEF IdleConnection, Request, Phases
    <2>. HIDE DEF IdleConnection
    <2>2. /\ gone \in Request /\ gone.phase = "idle" /\ gone.user = NoValue
          /\ gone.source = NoValue /\ gone.saw = {} /\ gone.held = {} /\ gone.calls = {}
          /\ gone.opens = 1 /\ gone.closes = 1
        BY <2>1 DEF Request
    <2>. HIDE DEF gone
    <2>. QED
        BY <2>2, NoFacts DEF RequestOK, Passed, McpPassed, ServerOK, Untouched
<1>4. RequestOK(s)
    <2>1. RequestOK(r) /\ r.closes = 0
        BY <1>1, AtOnce DEF RequestOK, ServerOK
    <2>2. /\ s \in Request /\ s.phase = "streaming" /\ s.route = r.route /\ s.user = r.user
          /\ s.source = r.source /\ s.saw = r.saw /\ s.held = r.held /\ s.calls = r.calls
          /\ s.opens = 1 /\ s.closes = r.closes
        BY AtOnce DEF Request, Phases
    <2>. HIDE DEF r, s
    <2>. QED
        BY <1>1, <2>1, <2>2
            DEF RequestOK, Passed, McpPassed, Granted, Enters, ToolAllowed, ServerOK, Untouched
<1>. HIDE DEF gone, s
<1>. QED
    BY <1>1, <1>2, <1>3, <1>4, AtOnce, OneRequest DEF IntakeInv

(* A stream's request with other calls of tools, or ending.                *)
LEMMA Streams ==
    ASSUME RequestsOK, WorldOK, UNCHANGED world, NEW c \in Callers, req[c].phase = "streaming",
           NEW s \in Request, req' = [req EXCEPT ![c] = s],
           s.route = req[c].route, s.user = req[c].user, s.source = req[c].source,
           s.saw = req[c].saw, s.held = req[c].held, s.opens = req[c].opens,
           s.closes = req[c].closes, \A tool \in s.calls : ToolAllowed(req[c], tool),
           s.phase \in {"streaming", "closing"}, s.phase = "closing" => s.closing # {}
    PROVE  RequestsOK' /\ WorldOK'
<1>1. RequestOK(req[c])
    BY DEF RequestsOK
<1>2. Passed(s)
    BY DEF Passed
<1>3. McpPassed(s)
    BY <1>1 DEF RequestOK, McpPassed, Granted, Enters, ToolAllowed
<1>4. ServerOK(s) /\ Untouched(s)
    BY <1>1 DEF RequestOK, ServerOK, Untouched
<1>5. RequestOK(s)
    BY <1>1, <1>2, <1>3, <1>4 DEF RequestOK
<1>. QED
    BY <1>5, OneRequest

LEMMA StreamingCalls ==
    ASSUME IntakeInv, NEW c \in Callers, req[c].phase = "streaming"
    PROVE  /\ req[c].calls \subseteq Tools /\ req[c].user \in Users
           /\ \A tool \in req[c].calls : ToolAllowed(req[c], tool)
BY AtOnce DEF RequestOK, McpPassed, Granted, Request

LEMMA CallToolKeeps ==
    ASSUME IntakeInv, NEW c \in Callers, NEW tool \in Tools, CallTool(c, tool)
    PROVE  IntakeInv'
<1> DEFINE key == ToolKey(tool, req[c].user)
<1>1. /\ req[c].phase = "streaming" /\ UNCHANGED world /\ UNCHANGED clock
      /\ \/ UNCHANGED limits
         \/ tool.policy # NoPolicy /\ Attempted(key, tool.policy, key)
      /\ \/ req' = [req EXCEPT ![c].calls = @ \cup {tool}] /\ ToolAllowed(req[c], tool)
         \/ req' = [req EXCEPT ![c].calls = @]
    BY DEF CallTool, AtMcp
<1>2. LimiterInv'
    <2>1. CASE UNCHANGED limits
        BY <1>1, <2>1, LimiterStays DEF IntakeInv
    <2>2. CASE tool.policy # NoPolicy /\ Attempted(key, tool.policy, key)
        <3>1. <<key, tool.policy>> \in Limited
            BY <1>1, <2>2, StreamingCalls DEF Limited
        <3>. HIDE DEF key
        <3>. QED
            BY <1>1, <2>2, <3>1, AttemptKeeps DEF IntakeInv
    <2>. QED
        BY <1>1, <2>1, <2>2
<1>3. PICK calls \in SUBSET Tools : /\ req' = [req EXCEPT ![c].calls = calls]
                                    /\ \A t \in calls : ToolAllowed(req[c], t)
    <2>1. CASE req' = [req EXCEPT ![c].calls = @ \cup {tool}] /\ ToolAllowed(req[c], tool)
        <3> DEFINE more == req[c].calls \cup {tool}
        <3>1. more \in SUBSET Tools /\ \A t \in more : ToolAllowed(req[c], t)
            BY <1>1, <2>1, StreamingCalls
        <3>2. req' = [req EXCEPT ![c].calls = more]
            BY <2>1
        <3>. QED
            BY <3>1, <3>2
    <2>2. CASE req' = [req EXCEPT ![c].calls = @]
        <3>1. req' = [req EXCEPT ![c].calls = req[c].calls]
            BY <2>2
        <3>. QED
            BY <1>1, <3>1, StreamingCalls
    <2>. QED
        BY <1>1, <2>1, <2>2
<1> DEFINE s == [req[c] EXCEPT !.calls = calls]
<1>4. /\ s \in Request /\ s.phase = req[c].phase /\ s.route = req[c].route
      /\ s.user = req[c].user /\ s.source = req[c].source /\ s.saw = req[c].saw
      /\ s.held = req[c].held /\ s.opens = req[c].opens /\ s.closes = req[c].closes
      /\ s.calls = calls
    BY AtOnce DEF Request
<1>5. req' = [req EXCEPT ![c] = s]
    BY <1>3
<1>. HIDE DEF s
<1>. QED
    BY <1>1, <1>2, <1>3, <1>4, <1>5, AtOnce, Streams DEF IntakeInv

LEMMA ToolReturnsKeeps ==
    ASSUME IntakeInv, NEW c \in Callers, ToolReturns(c)
    PROVE  IntakeInv'
<1>1. /\ req[c].phase = "streaming" /\ UNCHANGED world /\ UNCHANGED limits /\ UNCHANGED clock
      /\ \E tool \in req[c].calls : req' = [req EXCEPT ![c].calls = @ \ {tool}]
    BY DEF ToolReturns, AtMcp
<1>2. LimiterInv'
    BY <1>1, LimiterStays DEF IntakeInv
<1>3. PICK calls \in SUBSET Tools : /\ req' = [req EXCEPT ![c].calls = calls]
                                    /\ \A t \in calls : ToolAllowed(req[c], t)
    <2>1. PICK tool \in req[c].calls : req' = [req EXCEPT ![c].calls = @ \ {tool}]
        BY <1>1
    <2> DEFINE fewer == req[c].calls \ {tool}
    <2>2. fewer \in SUBSET Tools /\ \A t \in fewer : ToolAllowed(req[c], t)
        BY <1>1, StreamingCalls
    <2>3. req' = [req EXCEPT ![c].calls = fewer]
        BY <2>1
    <2>. QED
        BY <2>2, <2>3
<1> DEFINE s == [req[c] EXCEPT !.calls = calls]
<1>4. /\ s \in Request /\ s.phase = req[c].phase /\ s.route = req[c].route
      /\ s.user = req[c].user /\ s.source = req[c].source /\ s.saw = req[c].saw
      /\ s.held = req[c].held /\ s.opens = req[c].opens /\ s.closes = req[c].closes
      /\ s.calls = calls
    BY AtOnce DEF Request
<1>5. req' = [req EXCEPT ![c] = s]
    BY <1>3
<1>. HIDE DEF s
<1>. QED
    BY <1>1, <1>2, <1>3, <1>4, <1>5, AtOnce, Streams DEF IntakeInv

LEMMA StreamStopsKeeps ==
    ASSUME IntakeInv, NEW c \in Callers, StreamEnds(c) \/ StreamFails(c)
    PROVE  IntakeInv'
<1>1. /\ req[c].phase = "streaming" /\ UNCHANGED world /\ UNCHANGED limits /\ UNCHANGED clock
      /\ \E closers \in (SUBSET {"pull", "cancel"}) \ {{}} :
            req' = [req EXCEPT ![c].phase = "closing", ![c].closing = closers]
    BY DEF StreamEnds, StreamFails, AtMcp
<1>2. LimiterInv'
    BY <1>1, LimiterStays DEF IntakeInv
<1>3. PICK closers \in (SUBSET {"pull", "cancel"}) \ {{}} :
            req' = [req EXCEPT ![c].phase = "closing", ![c].closing = closers]
    BY <1>1
<1> DEFINE s == [req[c] EXCEPT !.phase = "closing", !.closing = closers]
<1>e. closers # {} /\ closers \in SUBSET {"pull", "cancel"} /\ "closing" \in Phases
    BY DEF Phases
<1>4. /\ s \in Request /\ s.phase = "closing" /\ s.closing = closers /\ s.route = req[c].route
      /\ s.user = req[c].user /\ s.source = req[c].source /\ s.saw = req[c].saw
      /\ s.held = req[c].held /\ s.opens = req[c].opens /\ s.closes = req[c].closes
      /\ s.calls = req[c].calls
    BY <1>e, AtOnce DEF Request
<1>5. req' = [req EXCEPT ![c] = s]
    BY <1>3, AtOnce DEF RequestsOK, Request
<1>. HIDE DEF s
<1>6. \A tool \in s.calls : ToolAllowed(req[c], tool)
    BY <1>1, <1>4, StreamingCalls
<1>. QED
    BY <1>1, <1>2, <1>e, <1>4, <1>5, <1>6, AtOnce, Streams DEF IntakeInv

LEMMA CloseOnceKeeps ==
    ASSUME IntakeInv, NEW c \in Callers, NEW closer \in {"pull", "cancel"}, CloseOnce(c, closer)
    PROVE  IntakeInv'
<1> DEFINE r == req[c]
           s == [req[c] EXCEPT !.closing = @ \ {closer}, !.closes = CloseServer(req[c])]
           gone == [IdleConnection EXCEPT !.opens = s.opens, !.closes = s.closes]
<1>1. /\ r.phase = "closing" /\ r.route = Mcp
      /\ UNCHANGED world /\ UNCHANGED limits /\ UNCHANGED clock
      /\ req' = [req EXCEPT ![c] = IF s.closing # {} THEN s ELSE gone]
    BY DEF CloseOnce, AtMcp
<1>2. LimiterInv'
    BY <1>1, LimiterStays DEF IntakeInv
<1>3. RequestOK(r) /\ r \in Request /\ r.opens = 1 /\ CloseServer(r) = 1
    BY <1>1, AtOnce DEF RequestOK, Request, ServerOK, CloseServer
<1>4. /\ s \in Request /\ s.phase = "closing" /\ s.route = r.route /\ s.user = r.user
      /\ s.source = r.source /\ s.saw = r.saw /\ s.held = r.held /\ s.calls = r.calls
      /\ s.opens = 1 /\ s.closes = 1
    BY <1>1, <1>3 DEF Request, Phases
<1>. HIDE DEF r, s
<1>5. s.closing # {} => RequestOK(s)
    BY <1>1, <1>3, <1>4
        DEF RequestOK, Passed, McpPassed, Granted, Enters, ToolAllowed, ServerOK, Untouched
<1>6. RequestOK(gone)
    <2>1. /\ IdleConnection \in Request /\ IdleConnection.phase = "idle"
          /\ IdleConnection.user = NoValue /\ IdleConnection.source = NoValue
          /\ IdleConnection.saw = {} /\ IdleConnection.held = {} /\ IdleConnection.calls = {}
        BY DEF IdleConnection, Request, Phases
    <2>. HIDE DEF IdleConnection
    <2>2. /\ gone \in Request /\ gone.phase = "idle" /\ gone.user = NoValue
          /\ gone.source = NoValue /\ gone.saw = {} /\ gone.held = {} /\ gone.calls = {}
          /\ gone.opens = 1 /\ gone.closes = 1
        BY <1>4, <2>1 DEF Request
    <2>. HIDE DEF gone
    <2>. QED
        BY <2>2, NoFacts DEF RequestOK, Passed, McpPassed, ServerOK, Untouched
<1>. HIDE DEF gone
<1>7. \/ req' = [req EXCEPT ![c] = s] /\ RequestOK(s)
      \/ req' = [req EXCEPT ![c] = gone] /\ RequestOK(gone)
    BY <1>1, <1>5, <1>6
<1>. QED
    BY <1>1, <1>2, <1>7, AtOnce, OneRequest DEF IntakeInv

-----------------------------------------------------------------------------
(* The invariant of the gate.                                              *)

LEMMA IntakeStarts ==
    ASSUME IntakeInit
    PROVE  IntakeInv
<1>1. WorldOK
    BY DEF IntakeInit, WorldOK
<1>2. LimiterInv
    <2>1. DOMAIN entries = {} /\ clock = 0 /\ DOMAIN admitted = Keys
          /\ \A k \in Keys : admitted[k] = <<>>
        BY DEF IntakeInit, NoEntries, Keys
    <2>2. EntriesOK
        BY <2>1, LimiterConstants, FS_EmptySet DEF EntriesOK
    <2>3. ASSUME NEW l \in Limited PROVE Counted(l[1], l[2])
        <3>1. admitted[l[1]] = <<>> /\ l[2].max \in Nat \ {0}
            BY <2>1, LimiterConstants
        <3> DEFINE key == l[1]
                   policy == l[2]
                   times == admitted[key]
        <3>2. times = <<>> /\ Len(times) = 0 /\ times \in Seq(Nat)
            BY <3>1
        <3>3. ~(Len(times) + 1 > policy.max) /\ 1 .. Len(times) = {}
            BY <3>1, <3>2
        <3>4. key \notin DOMAIN entries
            BY <2>1
        <3>. HIDE DEF key, policy, times
        <3>5. Counts(times, policy, key \in DOMAIN entries, entries[key], clock)
            BY <3>2, <3>3, <3>4 DEF Counts
        <3>. QED
            BY <3>5 DEF Counted, key, policy, times
    <2>. QED
        BY <2>1, <2>2, <2>3 DEF LimiterInv
<1>3. RequestsOK
    <2>1. /\ IdleConnection \in Request /\ IdleConnection.phase = "idle"
          /\ IdleConnection.user = NoValue /\ IdleConnection.source = NoValue
          /\ IdleConnection.saw = {} /\ IdleConnection.held = {} /\ IdleConnection.calls = {}
          /\ IdleConnection.opens = 0 /\ IdleConnection.closes = 0
        BY DEF IdleConnection, Request, Phases
    <2>2. RequestOK(IdleConnection)
        <3>. HIDE DEF IdleConnection
        <3>. QED
            BY <2>1, NoFacts DEF RequestOK, Passed, McpPassed, ServerOK, Untouched
    <2>3. req = [c \in Callers |-> IdleConnection]
        BY DEF IntakeInit
    <2>. HIDE DEF IdleConnection
    <2>. QED
        BY <2>1, <2>2, <2>3 DEF RequestsOK
<1>. QED
    BY <1>1, <1>2, <1>3 DEF IntakeInv

LEMMA StepKeeps ==
    ASSUME IntakeInv, NEW c \in Callers, Step(c)
    PROVE  IntakeInv'
<1>1. ASSUME NEW route \in Routes, NEW u \in Users, NEW source \in {"header", "cookie"},
             Arrive(c, route, u, source)
      PROVE  IntakeInv'
    BY <1>1, ArriveKeeps
<1>2. ASSUME NEW route \in Routes, Arrive(c, route, NoValue, NoValue) PROVE IntakeInv'
    BY <1>2, ArriveKeeps
<1>3. CASE Drain(c)
    BY <1>3, DrainKeeps
<1>4. CASE Parse(c)
    BY <1>4, ParseKeeps
<1>5. CASE VerifySession(c)
    BY <1>5, VerifySessionKeeps
<1>6. CASE FindUser(c)
    BY <1>6, FindUserKeeps
<1>7. CASE Admit(c)
    BY <1>7, AdmitKeeps
<1>8. CASE Forbid(c)
    BY <1>8, ForbidKeeps
<1>9. CASE Handle(c)
    BY <1>9, HandleKeeps
<1>10. CASE Import(c)
    BY <1>10, ImportKeeps
<1>11. CASE ImportAnswered(c)
    BY <1>11, ImportAnsweredKeeps
<1>12. ASSUME NEW u \in Users, McpArrive(c, u, "header") PROVE IntakeInv'
    BY <1>12, McpArriveKeeps
<1>13. CASE McpArrive(c, NoValue, NoValue)
    BY <1>13, McpArriveKeeps
<1>14. CASE McpParse(c)
    BY <1>14, McpParseKeeps
<1>15. CASE McpResolve(c)
    BY <1>15, McpResolveKeeps
<1>16. CASE McpEntitle(c)
    BY <1>16, McpEntitleKeeps
<1>17. CASE McpServe(c)
    BY <1>17, McpServeKeeps
<1>18. ASSUME NEW tool \in Tools, CallTool(c, tool) PROVE IntakeInv'
    BY <1>18, CallToolKeeps
<1>19. CASE ToolReturns(c)
    BY <1>19, ToolReturnsKeeps
<1>20. CASE StreamEnds(c) \/ StreamFails(c)
    BY <1>20, StreamStopsKeeps
<1>21. ASSUME NEW closer \in {"pull", "cancel"}, CloseOnce(c, closer) PROVE IntakeInv'
    BY <1>21, CloseOnceKeeps
<1>. QED
    BY <1>1, <1>2, <1>3, <1>4, <1>5, <1>6, <1>7, <1>8, <1>9, <1>10, <1>11, <1>12, <1>13,
       <1>14, <1>15, <1>16, <1>17, <1>18, <1>19, <1>20, <1>21 DEF Step

LEMMA IntakeRests ==
    ASSUME IntakeInv, UNCHANGED intakeVars
    PROVE  IntakeInv'
<1>1. UNCHANGED <<req, world>> /\ UNCHANGED limits /\ UNCHANGED clock
    BY DEF intakeVars, world, limits
<1>. QED
    BY <1>1, LimiterStays, RequestsRest DEF IntakeInv

LEMMA IntakeHolds == IntakeSpec => []IntakeInv
<1>1. IntakeInit => IntakeInv
    BY IntakeStarts
<1>2. IntakeInv /\ [IntakeNext]_intakeVars => IntakeInv'
    <2>1. SUFFICES ASSUME IntakeInv, [IntakeNext]_intakeVars PROVE IntakeInv'
        OBVIOUS
    <2>2. ASSUME NEW c \in Callers, Step(c) PROVE IntakeInv'
        BY <2>1, <2>2, StepKeeps
    <2>3. CASE Change
        BY <2>1, <2>3, ChangeKeeps
    <2>4. CASE ClockTicks
        BY <2>1, <2>4, TickKeeps
    <2>5. CASE UNCHANGED intakeVars
        BY <2>1, <2>5, IntakeRests
    <2>. QED
        BY <2>1, <2>2, <2>3, <2>4, <2>5 DEF IntakeNext
<1>. QED
    BY <1>1, <1>2, PTL DEF IntakeSpec

(* Whatever comes and goes, the requests, the limiter's map and log and    *)
(* what the database says have their types, and the limiter never tracks   *)
(* more keys than its cap (in_memory_rate_limiter.ts:86).                  *)
THEOREM IntakeTypeCorrect == IntakeSpec => []IntakeTypeOK
<1>1. IntakeInv => IntakeTypeOK
    <2>1. SUFFICES ASSUME IntakeInv PROVE IntakeTypeOK
        OBVIOUS
    <2>2. ASSUME NEW c \in Callers
          PROVE  /\ req[c].phase \in Phases /\ req[c].closes \in 0 .. 2
                 /\ req[c].calls \subseteq Tools
        BY <2>1, AtOnce DEF Request
    <2>3. ASSUME NEW l \in Limited PROVE admitted[l[1]] \in Seq(Nat)
        BY <2>1 DEF IntakeInv, LimiterInv, Counted, Counts
    <2>. QED
        BY <2>1, <2>2, <2>3 DEF IntakeInv, LimiterInv, EntriesOK, WorldOK, IntakeTypeOK
<1>. QED
    BY <1>1, IntakeHolds, PTL

(* For every table of routes and tools, every policy and every cap: no     *)
(* peer and no user is let through twice the policy's attempts within one  *)
(* window, however the keys of others come, expire and are purged.         *)
THEOREM BurstCorrect == IntakeSpec => []BurstIsBounded
<1>1. IntakeInv => BurstIsBounded
    <2>1. SUFFICES ASSUME IntakeInv, NEW limit \in Limited,
                          NEW i \in DOMAIN admitted[limit[1]], NEW j \in DOMAIN admitted[limit[1]],
                          j - i + 1 = 2 * limit[2].max
                   PROVE  admitted[limit[1]][j] - admitted[limit[1]][i] >= limit[2].window
        BY DEF BurstIsBounded
    <2> DEFINE times == admitted[limit[1]]
    <2>2. Counts(times, limit[2], limit[1] \in DOMAIN entries, entries[limit[1]], clock)
        BY <2>1 DEF IntakeInv, LimiterInv, Counted
    <2>. HIDE DEF times
    <2>3. /\ times \in Seq(Nat)
          /\ \A a, b \in 1 .. Len(times) : b - a + 1 = 2 * limit[2].max
                                             => times[b] - times[a] >= limit[2].window
        BY <2>2 DEF Counts
    <2>4. i \in 1 .. Len(times) /\ j \in 1 .. Len(times)
        <3>1. i \in DOMAIN times /\ j \in DOMAIN times
            BY <2>1 DEF times
        <3>. QED
            BY <2>3, <3>1
    <2>. QED
        BY <2>1, <2>3, <2>4 DEF times
<1>. QED
    BY <1>1, IntakeHolds, PTL

(* No interleaving of the awaits of a request with the loss of a session,  *)
(* an account, a grant, platform access or a capability lets code of a     *)
(* route or a tool run for a caller of whom its demands never held.        *)
THEOREM GateCorrect == IntakeSpec => []HandledOnlyIfAdmitted
<1>1. IntakeInv => HandledOnlyIfAdmitted
    <2>1. SUFFICES ASSUME IntakeInv PROVE HandledOnlyIfAdmitted
        OBVIOUS
    <2>2. ASSUME NEW c \in Callers, req[c].phase \in {"handling", "importing"},
                 RequiresAuth(req[c].route)
          PROVE  Verified(req[c]) /\ Known(req[c]) /\ Let(req[c])
        BY <2>1, <2>2, AtOnce DEF RequestOK, Passed
    <2>3. ASSUME NEW c \in Callers, req[c].phase \in {"connecting", "streaming", "closing"}
          PROVE  /\ Granted(req[c]) /\ Enters(req[c])
                 /\ \A tool \in req[c].calls : ToolAllowed(req[c], tool)
        BY <2>1, <2>3, AtOnce DEF RequestOK, McpPassed
    <2>. QED
        BY <2>2, <2>3 DEF HandledOnlyIfAdmitted, Verified, Known, Let, Granted, Enters,
                          ToolAllowed
<1>. QED
    BY <1>1, IntakeHolds, PTL

(* However the end of a stream, its failure and the client's leaving come  *)
(* together, the server of a request is closed once and not before.        *)
THEOREM ServerCorrect == IntakeSpec => []ServerClosedOnce
<1>1. IntakeInv => ServerClosedOnce
    <2>1. SUFFICES ASSUME IntakeInv, NEW c \in Callers
                   PROVE  /\ req[c].closes <= req[c].opens
                          /\ req[c].phase = "streaming" => req[c].closes = 0
                          /\ req[c].phase = "idle" => req[c].closes = req[c].opens
        BY DEF ServerClosedOnce
    <2>2. ServerOK(req[c]) /\ req[c].closes \in {0, 1} /\ req[c].opens \in {0, 1}
        BY <2>1, AtOnce DEF RequestOK, Request
    <2>. QED
        BY <2>2 DEF ServerOK
<1>. QED
    BY <1>1, IntakeHolds, PTL

-----------------------------------------------------------------------------
(* The body of an import.                                                  *)

Text == Seq(Bytes)
Record == Seq(Text)
Values == {BuildRecordValues(header, record) : header \in Record, record \in Record}

Sheet == [at : {"field", "bare", "quoted", "closed", "cr"}, field : Text, fields : Record,
             records : Seq(Record), sent : Nat, end : {"open", "sent", "broken"}]
Reader == [header : Record, row : Nat, total : Nat, fields : Record, field : Text,
           quoted : BOOLEAN, quotePending : BOOLEAN, crPending : BOOLEAN, rejected : BOOLEAN]
Batch == [rows : Nat, written : Seq(Values), failures : Seq(Nat),
          state : {"reading", "imported", "rejected"}, committed : Seq(Values)]

(* The reader knows the records that are complete by their number and      *)
(* their header, and the open one by its fields.                           *)
Knows(d, r) ==
    /\ r.field = d.field /\ r.fields = d.fields /\ ~r.rejected
    /\ d.records = <<>> => r.row = 1 /\ r.header = <<>>
    /\ d.records # <<>> => r.row = Len(d.records) /\ r.header = d.records[1]

(* Between two bytes it is where the caller is.                            *)
Follows(d, r) ==
    /\ Knows(d, r) /\ r.total = d.sent
    /\ r.quoted <=> d.at \in {"quoted", "closed"}
    /\ r.quotePending <=> d.at = "closed"
    /\ r.crPending <=> d.at = "cr"
    /\ d.at = "field" => d.field = <<>>
    /\ d.at = "bare" => d.field # <<>>

Healthy(d) == ~Oversized(d) /\ (d.records # <<>> => HasRequired(d))

(* What the batch makes of the complete records.                           *)
Progress(d, b) ==
    /\ b.state = "reading" /\ b.committed = <<>>
    /\ b.rows = IF d.records = <<>> THEN 0 ELSE Len(d.records) - 1
    /\ b.failures = <<>> => b.written = TableRows(d)
    /\ Len(b.failures) < MaxReported /\ Reports(b.failures, InvalidRows(d))

-----------------------------------------------------------------------------
(* Sequences.                                                              *)

LEMMA Longer ==
    ASSUME NEW S, NEW s \in Seq(S), NEW x \in S
    PROVE  /\ Append(s, x) \in Seq(S) /\ Len(Append(s, x)) = Len(s) + 1 /\ Len(s) \in Nat
           /\ Append(s, x) # <<>> /\ Append(s, x)[Len(s) + 1] = x
           /\ \A i \in 1 .. Len(s) : Append(s, x)[i] = s[i]
           /\ Range(Append(s, x)) = Range(s) \cup {x}
<1>1. /\ Append(s, x) \in Seq(S) /\ Len(Append(s, x)) = Len(s) + 1 /\ Len(s) \in Nat
      /\ Append(s, x)[Len(s) + 1] = x
      /\ \A i \in 1 .. Len(s) : Append(s, x)[i] = s[i]
    OBVIOUS
<1> DEFINE t == Append(s, x)
<1>2. DOMAIN s = 1 .. Len(s) /\ DOMAIN t = 1 .. Len(s) + 1
    BY <1>1
<1>3. t # <<>>
    BY <1>1
<1>. HIDE DEF t
<1>4. 1 .. Len(s) + 1 = (1 .. Len(s)) \cup {Len(s) + 1}
    BY <1>1
<1>5. Range(t) = Range(s) \cup {x}
    BY <1>1, <1>2, <1>4 DEF Range, t
<1>. QED
    BY <1>1, <1>3, <1>5 DEF t

LEMMA NothingIn ==
    /\ Range(<<>>) = {} /\ ~TooLarge(<<>>)
    /\ <<>> \in Text /\ <<>> \in Record
<1>1. Range(<<>>) = {}
    BY DEF Range
<1>2. Len(<<>>) = 0 /\ MaxColumns \in Nat
    BY CsvAssumption
<1>. QED
    BY <1>1, <1>2 DEF TooLarge, Text, Record

LEMMA CsvBounds ==
    /\ MaxImportBytes \in Nat \ {0} /\ MaxFieldBytes \in Nat \ {0} /\ MaxRows \in Nat \ {0}
    /\ MaxReported \in Nat \ {0} /\ MaxColumns \in Nat /\ Columns \in Nat /\ Columns >= 2
    /\ Letter \notin {"comma", "quote", "cr", "lf"}
BY CsvAssumption

-----------------------------------------------------------------------------
(* The report.                                                             *)

LEMMA ReportIsAll ==
    ASSUME NEW failures \in Seq(Nat), NEW rows, Reports(failures, rows),
           Len(failures) < MaxReported
    PROVE  Range(failures) = rows
<1>1. Len(failures) # MaxReported
    BY CsvBounds
<1>2. /\ Range(failures) \subseteq rows
      /\ \A n \in rows \ Range(failures) : Len(failures) = MaxReported
    BY DEF Reports
<1>. QED
    BY <1>1, <1>2

LEMMA ReportGrows ==
    ASSUME NEW failures \in Seq(Nat), NEW rows \in SUBSET Nat, NEW n \in Nat,
           Reports(failures, rows), Len(failures) < MaxReported, \A m \in rows : m < n
    PROVE  Reports(Append(failures, n), rows \cup {n})
<1> DEFINE longer == Append(failures, n)
<1>1. /\ longer \in Seq(Nat) /\ Len(longer) = Len(failures) + 1 /\ Len(failures) \in Nat
      /\ longer[Len(failures) + 1] = n
      /\ \A i \in 1 .. Len(failures) : longer[i] = failures[i]
      /\ Range(longer) = Range(failures) \cup {n}
    BY Longer
<1>2. Range(failures) = rows
    BY ReportIsAll
<1>3. DOMAIN failures = 1 .. Len(failures) /\ DOMAIN longer = 1 .. Len(failures) + 1
    BY <1>1
<1>. HIDE DEF longer
<1>4. \A i \in 1 .. Len(failures) : failures[i] \in Nat /\ failures[i] < n
    BY <1>2, <1>3 DEF Range
<1>5. ASSUME NEW i \in DOMAIN longer, NEW j \in DOMAIN longer, i < j
      PROVE  longer[i] < longer[j]
    <2>1. i \in 1 .. Len(failures) /\ (j \in 1 .. Len(failures) \/ j = Len(failures) + 1)
        BY <1>1, <1>3, <1>5
    <2>2. CASE j = Len(failures) + 1
        BY <1>1, <1>4, <2>1, <2>2
    <2>3. CASE j \in 1 .. Len(failures)
        BY <1>1, <1>3, <1>5, <2>1, <2>3 DEF Reports
    <2>. QED
        BY <2>1, <2>2, <2>3
<1>6. Len(longer) <= MaxReported
    BY <1>1, CsvBounds
<1>7. Range(longer) = rows \cup {n}
    BY <1>1, <1>2
<1>8. Reports(longer, rows \cup {n})
    BY <1>5, <1>6, <1>7 DEF Reports
<1>. QED
    BY <1>8 DEF longer

(* A report of something is no report of nothing.                          *)
LEMMA ReportNames ==
    ASSUME NEW failures \in Seq(Nat), NEW rows, Reports(failures, rows), failures # <<>>
    PROVE  rows # {}
<1>1. 1 \in DOMAIN failures
    OBVIOUS
<1>. QED
    BY <1>1 DEF Reports, Range
-----------------------------------------------------------------------------
(* The caller.                                                             *)

LEMMA SheetEnds ==
    ASSUME NEW d \in Sheet
    PROVE  /\ EndField(d) \in Sheet /\ EndField(d).at = "field"
           /\ EndField(d).field = <<>> /\ EndField(d).fields = Append(d.fields, d.field)
           /\ EndField(d).records = d.records /\ EndField(d).sent = d.sent
           /\ EndField(d).end = d.end
           /\ EndRecord(d) \in Sheet /\ EndRecord(d).at = "field"
           /\ EndRecord(d).field = <<>> /\ EndRecord(d).fields = <<>>
           /\ EndRecord(d).records = Append(d.records, Append(d.fields, d.field))
           /\ EndRecord(d).sent = d.sent /\ EndRecord(d).end = d.end
<1> DEFINE more == Append(d.fields, d.field)
           e == EndField(d)
           f == EndRecord(d)
<1>1. /\ d.field \in Text /\ d.fields \in Record /\ d.records \in Seq(Record)
    BY DEF Sheet
<1>2. more \in Record
    BY <1>1, Longer DEF Record
<1>3. Append(d.records, more) \in Seq(Record)
    BY <1>1, <1>2
<1>4. e = [d EXCEPT !.at = "field", !.field = <<>>, !.fields = more]
    BY DEF EndField
<1>. HIDE DEF more, e
<1>5. /\ e \in Sheet /\ e.at = "field" /\ e.field = <<>> /\ e.fields = more
      /\ e.records = d.records /\ e.sent = d.sent /\ e.end = d.end
    BY <1>2, <1>4, NothingIn DEF Sheet
<1>6. f = [e EXCEPT !.fields = <<>>, !.records = Append(d.records, more)]
    BY <1>5 DEF EndRecord, e
<1>. HIDE DEF f
<1>7. /\ f \in Sheet /\ f.at = "field" /\ f.field = <<>> /\ f.fields = <<>>
      /\ f.records = Append(d.records, more) /\ f.sent = d.sent /\ f.end = d.end
    BY <1>3, <1>5, <1>6, NothingIn DEF Sheet
<1>. QED
    BY <1>5, <1>7 DEF more, e, f

LEMMA SheetSays ==
    ASSUME NEW d \in Sheet, NEW b \in Bytes, NEW at \in {"bare", "quoted"}
    PROVE  /\ Say(d, b, at) \in Sheet /\ Say(d, b, at).at = at
           /\ Say(d, b, at).field = Append(d.field, b) /\ Say(d, b, at).fields = d.fields
           /\ Say(d, b, at).records = d.records /\ Say(d, b, at).sent = d.sent
           /\ Say(d, b, at).end = d.end
<1>1. Append(d.field, b) \in Text
    BY DEF Sheet, Text
<1>. QED
    BY <1>1 DEF Sheet, Say

(* What a byte may be, and mean.                                           *)
LEMMA SentCases ==
    ASSUME NEW d \in Sheet, NEW b \in Bytes, NEW e \in Sent(d, b)
    PROVE  \/ /\ d.at = "field" /\ b = "quote" /\ e = [d EXCEPT !.at = "quoted"]
           \/ /\ d.at \in {"field", "bare"} /\ b = Letter /\ e = Say(d, b, "bare")
           \/ /\ d.at \in {"field", "bare", "closed"}
              /\ \/ b = "comma" /\ e = EndField(d)
                 \/ b = "lf" /\ e = EndRecord(d)
                 \/ b = "cr" /\ e = [d EXCEPT !.at = "cr"]
           \/ /\ d.at = "quoted" /\ b = "quote" /\ e = [d EXCEPT !.at = "closed"]
           \/ /\ d.at = "quoted" /\ b # "quote" /\ e = Say(d, b, "quoted")
           \/ /\ d.at = "closed" /\ b = "quote" /\ e = Say(d, b, "quoted")
           \/ /\ d.at = "cr" /\ b = "lf" /\ e = EndRecord(d)
BY CsvBounds DEF Sent, Bytes, Sheet

-----------------------------------------------------------------------------
(* The reader.                                                             *)

LEMMA Pushed ==
    ASSUME NEW r \in Reader, NEW b \in Bytes, ~r.rejected
    PROVE  IF Len(r.field) + 1 > MaxFieldBytes
           THEN Push(r, b).rejected /\ Push(r, b) \in Reader
           ELSE Push(r, b) = [r EXCEPT !.field = Append(r.field, b)]
BY DEF Push, Reject, Reader

LEMMA FieldFinal ==
    ASSUME NEW s \in Reader, ~s.rejected
    PROVE  LET x == FinalizeField(s)
           IN  IF Len(s.fields) + 1 > MaxColumns
               THEN x \in Reader /\ x.rejected
               ELSE /\ x \in Reader /\ x.field = <<>> /\ x.fields = Append(s.fields, s.field)
                    /\ x.header = s.header /\ x.row = s.row /\ x.total = s.total
                    /\ x.quoted = s.quoted /\ x.quotePending = s.quotePending
                    /\ x.crPending = s.crPending /\ x.rejected = s.rejected
<1> DEFINE more == Append(s.fields, s.field)
           x == FinalizeField(s)
<1>1. more \in Record
    BY Longer DEF Reader, Record
<1>2. x = IF Len(s.fields) + 1 > MaxColumns THEN [s EXCEPT !.rejected = TRUE]
          ELSE [s EXCEPT !.fields = more, !.field = <<>>]
    BY DEF FinalizeField, Reject
<1>. HIDE DEF more, x
<1>3. CASE Len(s.fields) + 1 > MaxColumns
    BY <1>2, <1>3 DEF Reader, x
<1>4. CASE ~(Len(s.fields) + 1 > MaxColumns)
    <2>1. x = [s EXCEPT !.fields = more, !.field = <<>>]
        BY <1>2, <1>4
    <2>2. /\ x \in Reader /\ x.field = <<>> /\ x.fields = more
          /\ x.header = s.header /\ x.row = s.row /\ x.total = s.total
          /\ x.quoted = s.quoted /\ x.quotePending = s.quotePending
          /\ x.crPending = s.crPending /\ x.rejected = s.rejected
        BY <1>1, <2>1, NothingIn DEF Reader
    <2>. QED
        BY <1>4, <2>2 DEF x, more
<1>. QED
    BY <1>3, <1>4

LEMMA RecordFinal ==
    ASSUME NEW s \in Reader, ~s.rejected
    PROVE  LET x == FinalizeRecord(s)
               record == Append(s.fields, s.field)
           IN  /\ x \in Reader
               /\ IF \/ Len(s.fields) + 1 > MaxColumns
                     \/ s.header = <<>> /\ Required \notin Range(record)
                  THEN x.rejected
                  ELSE /\ x.field = <<>> /\ x.total = s.total /\ ~x.rejected
                       /\ x.quoted = s.quoted /\ x.quotePending = s.quotePending
                       /\ x.crPending = s.crPending
                       /\ IF s.header = <<>>
                          THEN x.header = record /\ x.fields = <<>> /\ x.row = s.row
                          ELSE x.header = s.header /\ x.fields = record /\ x.row = s.row + 1
<1> DEFINE f == FinalizeField(s)
           x == FinalizeRecord(s)
           record == Append(s.fields, s.field)
<1>1. CASE Len(s.fields) + 1 > MaxColumns
    <2>1. f \in Reader /\ f.rejected
        BY <1>1, FieldFinal
    <2>2. x = f
        BY <2>1 DEF FinalizeRecord
    <2>. QED
        BY <1>1, <2>1, <2>2
<1>2. CASE ~(Len(s.fields) + 1 > MaxColumns)
    <2>1. /\ f \in Reader /\ f.field = <<>> /\ f.fields = record
          /\ f.header = s.header /\ f.row = s.row /\ f.total = s.total
          /\ f.quoted = s.quoted /\ f.quotePending = s.quotePending
          /\ f.crPending = s.crPending /\ ~f.rejected
        BY <1>2, FieldFinal
    <2>2. x = IF f.header = <<>>
              THEN IF Required \in Range(f.fields)
                   THEN [f EXCEPT !.header = f.fields, !.fields = <<>>]
                   ELSE [f EXCEPT !.rejected = TRUE]
              ELSE [f EXCEPT !.row = f.row + 1]
        BY <2>1 DEF FinalizeRecord, Reject, NoHeader
    <2>. HIDE DEF f, x, record
    <2>3. CASE f.header = <<>> /\ Required \in Range(f.fields)
        <3>1. x = [f EXCEPT !.header = f.fields, !.fields = <<>>]
            BY <2>2, <2>3
        <3>2. x \in Reader
            BY <2>1, <3>1, NothingIn DEF Reader
        <3>. QED
            BY <1>2, <2>1, <2>3, <3>1, <3>2 DEF Reader, x, record
    <2>4. CASE f.header = <<>> /\ Required \notin Range(f.fields)
        <3>1. x = [f EXCEPT !.rejected = TRUE]
            BY <2>2, <2>4
        <3>2. x \in Reader /\ x.rejected
            BY <2>1, <3>1 DEF Reader
        <3>. QED
            BY <1>2, <2>1, <2>4, <3>2 DEF x, record
    <2>5. CASE f.header # <<>>
        <3>1. x = [f EXCEPT !.row = f.row + 1] /\ f.row + 1 \in Nat
            BY <2>1, <2>2, <2>5 DEF Reader
        <3>2. x \in Reader
            BY <2>1, <3>1 DEF Reader
        <3>. QED
            BY <1>2, <2>1, <2>5, <3>1, <3>2 DEF Reader, x, record
    <2>. QED
        BY <2>3, <2>4, <2>5
<1>. QED
    BY <1>1, <1>2


(* Outside quotes, or just after a closing one.                            *)
LEMMA ByteUnquoted ==
    ASSUME NEW r \in Reader, NEW b \in Bytes, ~r.rejected, r.total + 1 <= MaxImportBytes,
           r.crPending => b = "lf", r.quotePending => b # "quote", r.quoted => r.quotePending
    PROVE  \E s \in Reader :
              /\ s.field = r.field /\ s.fields = r.fields /\ s.header = r.header
              /\ s.row = r.row /\ s.total = r.total + 1
              /\ ~s.rejected /\ ~s.quoted /\ ~s.quotePending /\ ~s.crPending
              /\ b = "quote" /\ s.field = <<>> => Byte(r, b) = [s EXCEPT !.quoted = TRUE]
              /\ b = "comma" => Byte(r, b) = FinalizeField(s)
              /\ b = "cr" => Byte(r, b) = [s EXCEPT !.crPending = TRUE]
              /\ b = "lf" => Byte(r, b) = FinalizeRecord(s)
              /\ b = Letter => Byte(r, b) = Push(s, b)
<1> DEFINE t == [r EXCEPT !.total = r.total + 1]
           c == [t EXCEPT !.crPending = FALSE]
           s == IF c.quotePending THEN [c EXCEPT !.quotePending = FALSE, !.quoted = FALSE] ELSE c
<1>1. r.total + 1 \in Nat
    BY DEF Reader
<1>2. /\ t \in Reader /\ t.field = r.field /\ t.fields = r.fields /\ t.header = r.header
      /\ t.row = r.row /\ t.total = r.total + 1 /\ t.rejected = r.rejected
      /\ t.quoted = r.quoted /\ t.quotePending = r.quotePending
      /\ t.crPending = r.crPending
    BY <1>1 DEF Reader
<1>. HIDE DEF t
<1>3. /\ c \in Reader /\ c.field = r.field /\ c.fields = r.fields /\ c.header = r.header
      /\ c.row = r.row /\ c.total = r.total + 1 /\ c.rejected = r.rejected
      /\ c.quoted = r.quoted /\ c.quotePending = r.quotePending /\ c.crPending = FALSE
    BY <1>2 DEF Reader
<1>4. SettleCr(t, b) = c
    BY <1>2 DEF SettleCr
<1>. HIDE DEF c
<1>5. /\ s \in Reader /\ s.field = r.field /\ s.fields = r.fields /\ s.header = r.header
      /\ s.row = r.row /\ s.total = r.total + 1 /\ ~s.rejected
      /\ ~s.quoted /\ ~s.quotePending /\ ~s.crPending
    <2>1. CASE c.quotePending
        BY <1>3, <2>1 DEF Reader
    <2>2. CASE ~c.quotePending
        BY <1>3, <2>2
    <2>. QED
        BY <2>1, <2>2
<1>6. SettleQuote(c) = s
    BY DEF SettleQuote
<1>. HIDE DEF s
<1>7. /\ ~(r.total + 1 > MaxImportBytes) /\ ~c.rejected /\ ~(c.quotePending /\ b = "quote")
    BY <1>1, <1>3, CsvBounds
<1>8. Byte(r, b) = CASE b = "quote" /\ s.field = <<>> -> [s EXCEPT !.quoted = TRUE]
                     [] b = "comma"                   -> FinalizeField(s)
                     [] b = "cr"                      -> [s EXCEPT !.crPending = TRUE]
                     [] b = "lf"                      -> FinalizeRecord(s)
                     [] OTHER                         -> Push(s, b)
    <2>1. Byte(r, b) = LET c1 == SettleCr(t, b)
                           s1 == SettleQuote(c1)
                       IN  IF r.total + 1 > MaxImportBytes \/ c1.rejected THEN Reject(r)
                           ELSE IF c1.quotePending /\ b = "quote"
                           THEN Push([c1 EXCEPT !.quotePending = FALSE], "quote")
                           ELSE IF s1.quoted
                           THEN IF b = "quote" THEN [s1 EXCEPT !.quotePending = TRUE]
                                ELSE Push(s1, b)
                           ELSE CASE b = "quote" /\ s1.field = <<>> -> [s1 EXCEPT !.quoted = TRUE]
                                  [] b = "comma"                   -> FinalizeField(s1)
                                  [] b = "cr"                      -> [s1 EXCEPT !.crPending = TRUE]
                                  [] b = "lf"                      -> FinalizeRecord(s1)
                                  [] OTHER                         -> Push(s1, b)
        BY DEF Byte, t
    <2>. QED
        BY <1>4, <1>5, <1>6, <1>7, <2>1
<1>9. /\ b = "quote" /\ s.field = <<>> => Byte(r, b) = [s EXCEPT !.quoted = TRUE]
      /\ b = "comma" => Byte(r, b) = FinalizeField(s)
      /\ b = "cr" => Byte(r, b) = [s EXCEPT !.crPending = TRUE]
      /\ b = "lf" => Byte(r, b) = FinalizeRecord(s)
      /\ b = Letter => Byte(r, b) = Push(s, b)
    BY <1>8, CsvBounds
<1>. QED
    BY <1>5, <1>9

(* Inside quotes.                                                          *)
LEMMA ByteQuoted ==
    ASSUME NEW r \in Reader, NEW b \in Bytes, ~r.rejected, r.total + 1 <= MaxImportBytes,
           ~r.crPending, r.quoted
    PROVE  \E s \in Reader :
              /\ s.field = r.field /\ s.fields = r.fields /\ s.header = r.header
              /\ s.row = r.row /\ s.total = r.total + 1
              /\ ~s.rejected /\ s.quoted /\ ~s.quotePending /\ ~s.crPending
              /\ r.quotePending /\ b = "quote" => Byte(r, b) = Push(s, b)
              /\ ~r.quotePending /\ b = "quote"
                   => Byte(r, b) = [s EXCEPT !.quotePending = TRUE]
              /\ ~r.quotePending /\ b # "quote" => Byte(r, b) = Push(s, b)
<1> DEFINE t == [r EXCEPT !.total = r.total + 1]
           c == [t EXCEPT !.crPending = FALSE]
           s == [c EXCEPT !.quotePending = FALSE]
<1>1. r.total + 1 \in Nat
    BY DEF Reader
<1>2. /\ t \in Reader /\ t.field = r.field /\ t.fields = r.fields /\ t.header = r.header
      /\ t.row = r.row /\ t.total = r.total + 1 /\ t.rejected = r.rejected
      /\ t.quoted = r.quoted /\ t.quotePending = r.quotePending
      /\ t.crPending = r.crPending
    BY <1>1 DEF Reader
<1>. HIDE DEF t
<1>3. /\ c \in Reader /\ c.field = r.field /\ c.fields = r.fields /\ c.header = r.header
      /\ c.row = r.row /\ c.total = r.total + 1 /\ c.rejected = r.rejected
      /\ c.quoted = r.quoted /\ c.quotePending = r.quotePending /\ c.crPending = FALSE
    BY <1>2 DEF Reader
<1>4. SettleCr(t, b) = c
    BY <1>2 DEF SettleCr
<1>. HIDE DEF c
<1>5. /\ s \in Reader /\ s.field = r.field /\ s.fields = r.fields /\ s.header = r.header
      /\ s.row = r.row /\ s.total = r.total + 1 /\ ~s.rejected
      /\ s.quoted /\ ~s.quotePending /\ ~s.crPending
    BY <1>3 DEF Reader
<1>6. ~c.quotePending => SettleQuote(c) = c /\ c = s
    BY <1>3 DEF SettleQuote, Reader
<1>7. ~(r.total + 1 > MaxImportBytes) /\ ~c.rejected
    BY <1>1, <1>3, CsvBounds
<1>8. c.quotePending /\ b = "quote" => Byte(r, b) = Push(s, b)
    BY <1>4, <1>7 DEF Byte, t
<1>9. ~c.quotePending => Byte(r, b) = IF b = "quote" THEN [s EXCEPT !.quotePending = TRUE]
                                      ELSE Push(s, b)
    <2>. HIDE DEF s
    <2>. QED
        BY <1>4, <1>5, <1>6, <1>7 DEF Byte, t
<1>. HIDE DEF s
<1>. QED
    BY <1>3, <1>5, <1>8, <1>9

(* The bytes of a table between two ends leave the reader rejected, or  *)
(* where the caller is.                                                    *)
LEMMA ByteSays ==
    ASSUME NEW d \in Sheet, NEW r \in Reader, NEW b \in Bytes, Follows(d, r),
           NEW e \in Sheet, r.total + 1 <= MaxImportBytes,
           \/ /\ d.at = "field" /\ b = "quote" /\ e = [d EXCEPT !.at = "quoted"]
           \/ /\ d.at \in {"field", "bare"} /\ b = Letter /\ e = Say(d, b, "bare")
           \/ /\ d.at \in {"field", "bare", "closed"} /\ b = "cr" /\ e = [d EXCEPT !.at = "cr"]
           \/ /\ d.at = "quoted" /\ b = "quote" /\ e = [d EXCEPT !.at = "closed"]
           \/ /\ d.at = "quoted" /\ b # "quote" /\ e = Say(d, b, "quoted")
           \/ /\ d.at = "closed" /\ b = "quote" /\ e = Say(d, b, "quoted")
    PROVE  LET x == Byte(r, b)
           IN  /\ x \in Reader
               /\ e.records = d.records /\ e.fields = d.fields /\ e.end = d.end
               /\ e.sent = d.sent
               /\ x.rejected => Len(e.field) > MaxFieldBytes
               /\ ~x.rejected => /\ Follows([e EXCEPT !.sent = d.sent + 1], x)
                                 /\ x.row = r.row /\ x.header = r.header
                                 /\ e.field = d.field \/ Len(e.field) <= MaxFieldBytes
<1> DEFINE f == [e EXCEPT !.sent = d.sent + 1]
           x == Byte(r, b)
<1>1. /\ Knows(d, r) /\ ~r.rejected /\ r.total = d.sent /\ d.sent \in Nat /\ d.sent + 1 \in Nat
      /\ r.field = d.field /\ r.fields = d.fields
    BY DEF Follows, Knows, Sheet
<1>2. /\ e.records = d.records /\ e.fields = d.fields /\ e.end = d.end /\ e.sent = d.sent
    <2>1. ASSUME NEW at \in {"bare", "quoted"}, e = Say(d, b, at)
          PROVE  /\ e.records = d.records /\ e.fields = d.fields /\ e.end = d.end
                 /\ e.sent = d.sent
        BY <2>1, SheetSays
    <2>2. ASSUME NEW at, e = [d EXCEPT !.at = at]
          PROVE  /\ e.records = d.records /\ e.fields = d.fields /\ e.end = d.end
                 /\ e.sent = d.sent
        BY <2>2 DEF Sheet
    <2>. QED
        BY <2>1, <2>2
<1>3. /\ f \in Sheet /\ f.at = e.at /\ f.field = e.field /\ f.fields = e.fields
      /\ f.records = e.records /\ f.sent = d.sent + 1
    BY <1>1 DEF Sheet
(* What the reader has to be for the byte it was sent.                     *)
<1>4. ASSUME NEW y \in Reader, y.field = e.field, y.fields = r.fields, y.header = r.header,
             y.row = r.row, y.total = r.total + 1, ~y.rejected,
             y.quoted <=> e.at \in {"quoted", "closed"}, y.quotePending <=> e.at = "closed",
             y.crPending <=> e.at = "cr", e.at = "bare" => e.field # <<>>, e.at # "field"
      PROVE  Follows(f, y)
    <2>. HIDE DEF f
    <2>. QED
        BY <1>1, <1>2, <1>3, <1>4 DEF Follows, Knows
<1>5. ASSUME NEW s \in Reader, s.field = r.field, s.fields = r.fields, s.header = r.header,
             s.row = r.row, s.total = r.total + 1, ~s.rejected, ~s.quotePending, ~s.crPending,
             x = Push(s, b), NEW at \in {"bare", "quoted"}, e = Say(d, b, at),
             s.quoted <=> at = "quoted"
      PROVE  /\ x \in Reader
             /\ x.rejected => Len(e.field) > MaxFieldBytes
             /\ ~x.rejected => /\ Follows(f, x) /\ x.row = r.row /\ x.header = r.header
                               /\ Len(e.field) <= MaxFieldBytes
    <2>1. /\ e.at = at /\ e.field = Append(d.field, b)
        BY <1>5, SheetSays
    <2>2. /\ Len(e.field) = Len(d.field) + 1 /\ Len(e.field) \in Nat /\ e.field # <<>>
          /\ e.field \in Text
        BY <2>1, Longer DEF Sheet, Text
    <2>3. CASE Len(s.field) + 1 > MaxFieldBytes
        <3>1. x.rejected /\ x \in Reader
            BY <1>5, <2>3, Pushed
        <3>. QED
            BY <1>1, <1>5, <2>2, <2>3, <3>1
    <2>4. CASE ~(Len(s.field) + 1 > MaxFieldBytes)
        <3>1. x = [s EXCEPT !.field = Append(s.field, b)]
            BY <1>5, <2>4, Pushed
        <3>2. x = [s EXCEPT !.field = e.field]
            BY <1>1, <1>5, <2>1, <3>1
        <3>. HIDE DEF x, f
        <3>3. /\ x \in Reader /\ x.field = e.field /\ x.fields = r.fields
              /\ x.header = r.header /\ x.row = r.row /\ x.total = r.total + 1
              /\ ~x.rejected /\ (x.quoted <=> at = "quoted") /\ ~x.quotePending
              /\ ~x.crPending
            BY <1>5, <2>2, <3>2 DEF Reader
        <3>4. Follows(f, x)
            BY <1>4, <2>1, <2>2, <3>3
        <3>5. Len(e.field) <= MaxFieldBytes
            BY <1>1, <1>5, <2>2, <2>4, CsvBounds
        <3>. QED
            BY <3>3, <3>4, <3>5
    <2>. QED
        BY <2>3, <2>4
<1>6. CASE d.at \in {"field", "bare"} /\ b = Letter /\ e = Say(d, b, "bare")
    <2>1. PICK s \in Reader :
              /\ s.field = r.field /\ s.fields = r.fields /\ s.header = r.header
              /\ s.row = r.row /\ s.total = r.total + 1
              /\ ~s.rejected /\ ~s.quoted /\ ~s.quotePending /\ ~s.crPending
              /\ x = Push(s, b)
        BY <1>1, <1>6, ByteUnquoted, CsvBounds DEF Follows
    <2>. HIDE DEF x, f
    <2>. QED
        BY <1>2, <1>5, <1>6, <2>1 DEF x, f
<1>7. CASE d.at \in {"quoted", "closed"} /\ e = Say(d, b, "quoted")
           /\ (d.at = "closed" <=> b = "quote")
    <2>1. PICK s \in Reader :
              /\ s.field = r.field /\ s.fields = r.fields /\ s.header = r.header
              /\ s.row = r.row /\ s.total = r.total + 1
              /\ ~s.rejected /\ s.quoted /\ ~s.quotePending /\ ~s.crPending
              /\ x = Push(s, b)
        BY <1>1, <1>7, ByteQuoted DEF Follows
    <2>. HIDE DEF x, f
    <2>. QED
        BY <1>2, <1>5, <1>7, <2>1 DEF x, f
<1>8. CASE d.at = "field" /\ b = "quote" /\ e = [d EXCEPT !.at = "quoted"]
    <2>1. e.at = "quoted" /\ e.field = d.field
        BY <1>8 DEF Sheet
    <2>2. PICK s \in Reader :
              /\ s.field = r.field /\ s.fields = r.fields /\ s.header = r.header
              /\ s.row = r.row /\ s.total = r.total + 1
              /\ ~s.rejected /\ ~s.quoted /\ ~s.quotePending /\ ~s.crPending
              /\ x = [s EXCEPT !.quoted = TRUE]
        BY <1>1, <1>8, ByteUnquoted DEF Follows
    <2>. HIDE DEF x, f
    <2>3. /\ x \in Reader /\ x.field = e.field /\ x.fields = r.fields
          /\ x.header = r.header /\ x.row = r.row /\ x.total = r.total + 1
          /\ ~x.rejected /\ x.quoted /\ ~x.quotePending /\ ~x.crPending
        BY <1>1, <2>1, <2>2 DEF Reader
    <2>4. Follows(f, x)
        BY <1>4, <2>1, <2>3
    <2>. QED
        BY <1>2, <2>1, <2>3, <2>4 DEF x, f
<1>9. CASE d.at = "quoted" /\ b = "quote" /\ e = [d EXCEPT !.at = "closed"]
    <2>1. e.at = "closed" /\ e.field = d.field
        BY <1>9 DEF Sheet
    <2>2. PICK s \in Reader :
              /\ s.field = r.field /\ s.fields = r.fields /\ s.header = r.header
              /\ s.row = r.row /\ s.total = r.total + 1
              /\ ~s.rejected /\ s.quoted /\ ~s.quotePending /\ ~s.crPending
              /\ x = [s EXCEPT !.quotePending = TRUE]
        BY <1>1, <1>9, ByteQuoted DEF Follows
    <2>. HIDE DEF x, f
    <2>3. /\ x \in Reader /\ x.field = e.field /\ x.fields = r.fields
          /\ x.header = r.header /\ x.row = r.row /\ x.total = r.total + 1
          /\ ~x.rejected /\ x.quoted /\ x.quotePending /\ ~x.crPending
        BY <1>1, <2>1, <2>2 DEF Reader
    <2>4. Follows(f, x)
        BY <1>4, <2>1, <2>3
    <2>. QED
        BY <1>2, <2>1, <2>3, <2>4 DEF x, f
<1>10. CASE d.at \in {"field", "bare", "closed"} /\ b = "cr" /\ e = [d EXCEPT !.at = "cr"]
    <2>1. e.at = "cr" /\ e.field = d.field
        BY <1>10 DEF Sheet
    <2>2. PICK s \in Reader :
              /\ s.field = r.field /\ s.fields = r.fields /\ s.header = r.header
              /\ s.row = r.row /\ s.total = r.total + 1
              /\ ~s.rejected /\ ~s.quoted /\ ~s.quotePending /\ ~s.crPending
              /\ x = [s EXCEPT !.crPending = TRUE]
        BY <1>1, <1>10, ByteUnquoted DEF Follows
    <2>. HIDE DEF x, f
    <2>3. /\ x \in Reader /\ x.field = e.field /\ x.fields = r.fields
          /\ x.header = r.header /\ x.row = r.row /\ x.total = r.total + 1
          /\ ~x.rejected /\ ~x.quoted /\ ~x.quotePending /\ x.crPending
        BY <1>1, <2>1, <2>2 DEF Reader
    <2>4. Follows(f, x)
        BY <1>4, <2>1, <2>3
    <2>. QED
        BY <1>2, <2>1, <2>3, <2>4 DEF x, f
<1>. QED
    BY <1>6, <1>7, <1>8, <1>9, <1>10

-----------------------------------------------------------------------------
(* What is too large.                                                      *)

LEMMA Sizes ==
    ASSUME NEW d
    PROVE  ~Oversized(d) <=> /\ ~(d.sent > MaxImportBytes) /\ ~(Len(d.records) - 1 > MaxRows)
                             /\ \A record \in Range(d.records) : ~TooLarge(record)
                             /\ ~TooLarge(d.fields) /\ ~(Len(d.field) > MaxFieldBytes)
BY DEF Oversized

LEMMA LargerRecord ==
    ASSUME NEW record \in Record, NEW field \in Text
    PROVE  /\ Len(Append(record, field)) > MaxColumns => TooLarge(Append(record, field))
           /\ ~TooLarge(Append(record, field))
                <=> /\ ~TooLarge(record) /\ ~(Len(field) > MaxFieldBytes)
                    /\ ~(Len(record) + 1 > MaxColumns)
<1> DEFINE more == Append(record, field)
<1>1. /\ Len(more) = Len(record) + 1 /\ Len(record) \in Nat /\ MaxColumns \in Nat
      /\ Range(more) = Range(record) \cup {field}
    BY Longer, CsvBounds DEF Record
<1>. HIDE DEF more
<1>2. ~TooLarge(more) <=> /\ ~TooLarge(record) /\ ~(Len(field) > MaxFieldBytes)
                          /\ ~(Len(record) + 1 > MaxColumns)
    BY <1>1 DEF TooLarge
<1>3. Len(more) > MaxColumns => TooLarge(more)
    BY DEF TooLarge
<1>. QED
    BY <1>2, <1>3 DEF more

-----------------------------------------------------------------------------
(* A record is complete.                                                   *)

(* What stays of the rows when a record is added.                          *)
LEMMA RowsGrow ==
    ASSUME NEW d \in Sheet, NEW e \in Sheet, NEW record \in Record, d.records # <<>>,
           e.records = Append(d.records, record)
    PROVE  LET n == Len(d.records) + 1
           IN  /\ n \in Nat /\ Len(e.records) = n /\ e.records # <<>>
               /\ e.records[1] = d.records[1] /\ e.records[n] = record
               /\ Row(e, n) = BuildRecordValues(d.records[1], record) /\ Row(e, n) \in Values
               /\ InvalidRows(d) \in SUBSET Nat /\ \A m \in InvalidRows(d) : m < n
               /\ InvalidRows(e) = IF Valid(Row(e, n)) THEN InvalidRows(d)
                                   ELSE InvalidRows(d) \cup {n}
               /\ TableRows(d) \in Seq(Values)
               /\ TableRows(e) = Append(TableRows(d), Row(e, n))
               /\ Len(TableRows(d)) = n - 2 /\ (HasRequired(e) <=> HasRequired(d))
<1> DEFINE n == Len(d.records) + 1
<1>1. /\ d.records \in Seq(Record) /\ e.records \in Seq(Record)
      /\ Len(d.records) \in Nat \ {0}
    BY DEF Sheet
<1>2. /\ n \in Nat /\ Len(e.records) = n /\ e.records # <<>> /\ e.records[n] = record
      /\ \A i \in 1 .. n - 1 : e.records[i] = d.records[i]
    BY <1>1, Longer
<1>3. e.records[1] = d.records[1] /\ d.records[1] \in Record
    BY <1>1, <1>2
<1>4. \A i \in 2 .. n - 1 : Row(e, i) = Row(d, i)
    BY <1>1, <1>2, <1>3 DEF Row
<1>5. Row(e, n) = BuildRecordValues(d.records[1], record) /\ Row(e, n) \in Values
    BY <1>2, <1>3 DEF Row, Values
<1>6. \A i \in 2 .. n - 1 : Row(d, i) \in Values
    BY <1>1, <1>3 DEF Row, Values
<1>7. InvalidRows(d) = {m \in 2 .. n - 1 : ~Valid(Row(d, m))}
    BY <1>1 DEF InvalidRows
<1>8. InvalidRows(e) = {m \in 2 .. n : ~Valid(Row(e, m))}
    BY <1>2 DEF InvalidRows
<1>9. TableRows(d) = [i \in 1 .. n - 2 |-> Row(d, i + 1)]
    BY <1>1 DEF TableRows
<1>10. TableRows(e) = [i \in 1 .. n - 1 |-> Row(e, i + 1)]
    BY <1>2 DEF TableRows
<1>11. n >= 2
    BY <1>1
<1>12. HasRequired(e) <=> HasRequired(d)
    BY <1>2, <1>3 DEF HasRequired
<1>. HIDE DEF n
<1>13. InvalidRows(d) \in SUBSET Nat /\ \A m \in InvalidRows(d) : m < n
    BY <1>2, <1>7
<1>14. 2 .. n = (2 .. n - 1) \cup {n} /\ n \notin 2 .. n - 1
    BY <1>2, <1>11
<1>15. InvalidRows(e) = IF Valid(Row(e, n)) THEN InvalidRows(d) ELSE InvalidRows(d) \cup {n}
    BY <1>4, <1>7, <1>8, <1>14
<1>16. \A i \in 1 .. n - 2 : Row(d, i + 1) \in Values /\ Row(e, i + 1) = Row(d, i + 1)
    BY <1>2, <1>4, <1>6
<1>17. TableRows(d) \in Seq(Values) /\ Len(TableRows(d)) = n - 2
    BY <1>2, <1>9, <1>11, <1>16
<1>18. TableRows(e) = Append(TableRows(d), Row(e, n))
    <2> DEFINE rows == TableRows(d)
               more == Append(rows, Row(e, n))
    <2>1. /\ more \in Seq(Values) /\ Len(more) = n - 1 /\ more[n - 1] = Row(e, n)
          /\ \A i \in 1 .. n - 2 : more[i] = rows[i]
        BY <1>2, <1>5, <1>17, Longer
    <2>2. \A i \in 1 .. n - 2 : rows[i] = Row(e, i + 1)
        BY <1>9, <1>16
    <2>. HIDE DEF rows, more
    <2>3. \A i \in 1 .. n - 1 : more[i] = Row(e, i + 1)
        <3>1. SUFFICES ASSUME NEW i \in 1 .. n - 1 PROVE more[i] = Row(e, i + 1)
            OBVIOUS
        <3>2. CASE i = n - 1
            <4>1. i + 1 = n
                BY <1>2, <3>2
            <4>. QED
                BY <2>1, <3>2, <4>1
        <3>3. CASE i \in 1 .. n - 2
            BY <2>1, <2>2, <3>3
        <3>. QED
            BY <1>2, <1>11, <3>2, <3>3
    <2>4. more = [i \in 1 .. n - 1 |-> more[i]]
        BY <2>1
    <2>5. more = [i \in 1 .. n - 1 |-> Row(e, i + 1)]
        BY <2>3, <2>4
    <2>. QED
        BY <1>10, <2>5 DEF more, rows
<1>. QED
    BY <1>2, <1>3, <1>5, <1>12, <1>13, <1>15, <1>17, <1>18 DEF n

(* The first record is the header and no row.                              *)
LEMMA RowsBegin ==
    ASSUME NEW d \in Sheet, Len(d.records) \in {0, 1}
    PROVE  InvalidRows(d) = {} /\ TableRows(d) = <<>>
<1>1. 2 .. Len(d.records) = {} /\ 1 .. Len(d.records) - 1 = {}
    <2>1. CASE Len(d.records) = 0
        BY <2>1
    <2>2. CASE Len(d.records) = 1
        BY <2>2
    <2>. QED
        BY <2>1, <2>2
<1>2. InvalidRows(d) = {}
    BY <1>1 DEF InvalidRows
<1>3. TableRows(d) = [i \in {} |-> Row(d, i + 1)]
    BY <1>1 DEF TableRows
<1>. QED
    BY <1>2, <1>3

LEMMA EmptyReport == Reports(<<>>, {})
BY NothingIn, CsvBounds DEF Reports


(* The batch applies a row: it goes on, or gives up over a full report or  *)
(* too many rows.                                                          *)
LEMMA RowApplied ==
    ASSUME NEW d \in Sheet, NEW e \in Sheet, NEW record \in Record, d.records # <<>>,
           e.records = Append(d.records, record), NEW b \in Batch, Progress(d, b),
           Len(d.records) - 1 <= MaxRows, NEW n, n = Len(d.records) + 1,
           NEW x, x = AppliedRow(b, n, Row(e, n))
    PROVE  /\ x \in Batch /\ x.committed = <<>> /\ x.state \in {"reading", "rejected"}
           /\ x.state = "reading" => Progress(e, x) /\ Len(e.records) - 1 <= MaxRows
           /\ x.state = "rejected" => \/ Len(e.records) - 1 > MaxRows
                                      \/ Len(x.failures) = MaxReported
           /\ Len(e.records) - 1 <= MaxRows => Reports(x.failures, InvalidRows(e))
<1> DEFINE a == [b EXCEPT !.rows = b.rows + 1]
           more == Append(b.failures, n)
           f == [a EXCEPT !.failures = more]
           row == Row(e, n)
           rows == Append(b.written, row)
           w == [a EXCEPT !.written = rows]
<1>1. /\ n \in Nat /\ Len(e.records) = n /\ e.records # <<>> /\ row \in Values
      /\ InvalidRows(d) \in SUBSET Nat /\ \A m \in InvalidRows(d) : m < n
      /\ InvalidRows(e) = IF Valid(row) THEN InvalidRows(d) ELSE InvalidRows(d) \cup {n}
      /\ TableRows(e) = Append(TableRows(d), row)
    BY RowsGrow
<1>2. /\ b.rows = n - 2 /\ b.rows \in Nat /\ b.rows + 1 = n - 1 /\ b.rows + 1 \in Nat
      /\ b.failures \in Seq(Nat) /\ b.written \in Seq(Values)
      /\ b.state = "reading" /\ b.committed = <<>> /\ Len(b.failures) < MaxReported
      /\ b.failures = <<>> => b.written = TableRows(d)
      /\ Reports(b.failures, InvalidRows(d))
    <2>1. Len(d.records) \in Nat
        BY DEF Sheet
    <2>2. b.rows = Len(d.records) - 1 /\ b.rows \in Nat
        BY DEF Progress, Batch
    <2>3. /\ b.rows = n - 2 /\ b.rows + 1 = n - 1 /\ b.rows + 1 \in Nat
        BY <2>1, <2>2
    <2>. QED
        BY <2>2, <2>3 DEF Progress, Batch
<1>3. /\ more \in Seq(Nat) /\ Len(more) = Len(b.failures) + 1 /\ Len(b.failures) \in Nat
      /\ more # <<>> /\ rows \in Seq(Values)
    <2>1. /\ more \in Seq(Nat) /\ Len(more) = Len(b.failures) + 1 /\ Len(b.failures) \in Nat
          /\ more # <<>>
        BY <1>1, <1>2, Longer
    <2>2. rows \in Seq(Values)
        BY <1>1, <1>2, Longer
    <2>. QED
        BY <2>1, <2>2
<1>4. Reports(more, InvalidRows(d) \cup {n})
    BY <1>1, <1>2, ReportGrows
<1>5. x = IF a.rows > MaxRows THEN Rejected(f)
          ELSE IF ~Valid(row) THEN IF Len(f.failures) >= MaxReported THEN Rejected(f) ELSE f
          ELSE IF b.failures # <<>> THEN a
          ELSE w
    BY <1>2 DEF AppliedRow, Batch
<1>. HIDE DEF more, row, rows
<1>6. /\ a \in Batch /\ a.rows = n - 1 /\ a.failures = b.failures /\ a.written = b.written
      /\ a.state = "reading" /\ a.committed = <<>>
    BY <1>2 DEF Batch
<1>. HIDE DEF a
<1>7. /\ f \in Batch /\ f.rows = n - 1 /\ f.failures = more /\ f.written = b.written
      /\ f.state = "reading" /\ f.committed = <<>>
    BY <1>2, <1>3, <1>6 DEF Batch
<1>8. /\ w \in Batch /\ w.rows = n - 1 /\ w.failures = b.failures /\ w.written = rows
      /\ w.state = "reading" /\ w.committed = <<>>
    BY <1>2, <1>3, <1>6 DEF Batch
<1>. HIDE DEF f, w
<1>9. /\ Rejected(f) \in Batch /\ Rejected(f).state = "rejected" /\ Rejected(f).failures = more
      /\ Rejected(f).committed = <<>>
    BY <1>7 DEF Rejected, Batch
<1>10. n - 1 \in Nat /\ MaxRows \in Nat /\ MaxReported \in Nat
    BY <1>2, CsvBounds
<1>11. CASE n - 1 > MaxRows
    BY <1>1, <1>5, <1>6, <1>9, <1>10, <1>11
<1>12. CASE ~(n - 1 > MaxRows) /\ ~Valid(row)
    <2>1. Reports(more, InvalidRows(e))
        BY <1>1, <1>4, <1>12
    <2>2. CASE Len(more) >= MaxReported
        <3>1. x = Rejected(f)
            BY <1>5, <1>6, <1>7, <1>12, <2>2
        <3>2. Len(more) = MaxReported
            BY <1>2, <1>3, <1>10, <2>2
        <3>. QED
            BY <1>9, <2>1, <3>1, <3>2
    <2>3. CASE ~(Len(more) >= MaxReported)
        <3>1. x = f
            BY <1>5, <1>6, <1>7, <1>12, <2>3
        <3>2. Progress(e, f)
            <4>1. Len(f.failures) < MaxReported
                BY <1>3, <1>7, <1>10, <2>3
            <4>2. f.rows = Len(e.records) - 1 /\ f.failures # <<>>
                BY <1>1, <1>3, <1>7
            <4>. QED
                BY <1>1, <1>7, <2>1, <4>1, <4>2 DEF Progress
        <3>. QED
            BY <1>1, <1>7, <1>10, <1>12, <2>1, <3>1, <3>2
    <2>. QED
        BY <2>2, <2>3
<1>13. CASE ~(n - 1 > MaxRows) /\ Valid(row)
    <2>1. InvalidRows(e) = InvalidRows(d)
        BY <1>1, <1>13
    <2>2. CASE b.failures # <<>>
        <3>1. x = a
            BY <1>5, <1>6, <1>13, <2>2
        <3>2. Progress(e, a)
            BY <1>1, <1>2, <1>6, <2>1, <2>2 DEF Progress
        <3>. QED
            BY <1>1, <1>2, <1>6, <1>10, <1>13, <2>1, <3>1, <3>2
    <2>3. CASE b.failures = <<>>
        <3>1. x = w
            BY <1>5, <1>6, <1>13, <2>3
        <3>2. rows = TableRows(e)
            BY <1>1, <1>2, <2>3 DEF rows
        <3>3. Progress(e, w)
            BY <1>1, <1>2, <1>8, <2>1, <3>2 DEF Progress
        <3>. QED
            BY <1>1, <1>2, <1>8, <1>10, <1>13, <2>1, <3>1, <3>3
    <2>. QED
        BY <2>2, <2>3
<1>. QED
    BY <1>11, <1>12, <1>13

(* What the end of a record keeps of the agreement of caller, reader and   *)
(* batch.                                                                  *)
RecordAgreed(s, e, y, c) ==
    /\ c \in Batch /\ c.committed = <<>> /\ c.state \in {"reading", "rejected"}
    /\ e.records # <<>> /\ y \in Reader
    /\ HasRequired(e) /\ ~Oversized(e) => Reports(c.failures, InvalidRows(e))
    /\ c.state = "rejected" => \/ Oversized(e) \/ ~HasRequired(e)
                               \/ Len(c.failures) = MaxReported
    /\ c.state = "reading" /\ e.sent <= MaxImportBytes
         => /\ Healthy(e) /\ Progress(e, c) /\ Knows(e, y)
            /\ y.total = s.total /\ y.quoted = s.quoted
            /\ y.quotePending = s.quotePending /\ y.crPending = s.crPending

(* A record ends, for the caller, the reader and the batch, after a byte   *)
(* or with the body.                                                       *)
LEMMA RecordEnds ==
    ASSUME NEW d \in Sheet, NEW s \in Reader, NEW b \in Batch, Healthy(d), Progress(d, b),
           Knows(d, s), NEW e \in Sheet,
           e.records = Append(d.records, Append(d.fields, d.field)),
           e.fields = <<>>, e.field = <<>>, NEW before \in Reader, before.row = s.row,
           NEW x, x = FinalizeRecord(s), NEW y, y = Yielded(before, x),
           NEW c, c = Consumed(b, before, x)
    PROVE  RecordAgreed(s, e, y, c)
<1> DEFINE record == Append(d.fields, d.field)
<1>1. /\ s.field = d.field /\ s.fields = d.fields /\ ~s.rejected
      /\ d.records = <<>> => s.row = 1 /\ s.header = <<>>
      /\ d.records # <<>> => s.row = Len(d.records) /\ s.header = d.records[1]
    BY DEF Knows
<1>2. /\ d.field \in Text /\ d.fields \in Record /\ d.records \in Seq(Record)
      /\ e.sent \in Nat /\ MaxImportBytes \in Nat /\ MaxRows \in Nat
    BY CsvBounds DEF Sheet
<1>3. record \in Record
    <2>1. d.fields \in Seq(Text)
        BY <1>2 DEF Record
    <2>2. record \in Seq(Text)
        BY <1>2, <2>1, Longer
    <2>. QED
        BY <2>2 DEF Record
<1>4. /\ e.records # <<>> /\ Range(e.records) = Range(d.records) \cup {record}
      /\ Len(e.records) = Len(d.records) + 1 /\ Len(d.records) \in Nat
    <2>1. e.records = Append(d.records, record)
        OBVIOUS
    <2>. HIDE DEF record
    <2>. QED
        BY <1>2, <1>3, <2>1, Longer
<1>5. /\ \A q \in Range(d.records) : ~TooLarge(q)
      /\ ~TooLarge(d.fields) /\ ~(Len(d.field) > MaxFieldBytes)
      /\ Len(d.records) - 1 <= MaxRows /\ (d.records # <<>> => HasRequired(d))
    BY <1>2, <1>4, Sizes DEF Healthy
<1>6. /\ x \in Reader
      /\ IF \/ Len(d.fields) + 1 > MaxColumns
            \/ s.header = <<>> /\ Required \notin Range(record)
         THEN x.rejected
         ELSE /\ x.field = <<>> /\ x.total = s.total /\ ~x.rejected
              /\ x.quoted = s.quoted /\ x.quotePending = s.quotePending
              /\ x.crPending = s.crPending
              /\ IF s.header = <<>>
                 THEN x.header = record /\ x.fields = <<>> /\ x.row = s.row
                 ELSE x.header = s.header /\ x.fields = record /\ x.row = s.row + 1
    BY <1>1, RecordFinal
<1>7. TooLarge(record) <=> Len(d.fields) + 1 > MaxColumns
    BY <1>2, <1>5, LargerRecord
<1>8. TooLarge(record) => Oversized(e)
    BY <1>4, Sizes
<1>9. ~TooLarge(record) => /\ Len(e.records) - 1 <= MaxRows /\ e.sent <= MaxImportBytes
                                 => ~Oversized(e)
                           /\ ~Oversized(e) => Len(e.records) - 1 <= MaxRows
    <2>1. ~(Len(e.field) > MaxFieldBytes) /\ ~TooLarge(e.fields)
        BY NothingIn, CsvBounds
    <2>2. ~TooLarge(record) => \A q \in Range(e.records) : ~TooLarge(q)
        BY <1>4, <1>5
    <2>3. /\ Len(e.records) - 1 <= MaxRows <=> ~(Len(e.records) - 1 > MaxRows)
          /\ e.sent <= MaxImportBytes <=> ~(e.sent > MaxImportBytes)
        BY <1>2, <1>4
    <2>. HIDE DEF record
    <2>. QED
        BY <2>1, <2>2, <2>3, Sizes
<1>10. /\ b.state = "reading" /\ b.committed = <<>> /\ Rejected(b) \in Batch
       /\ Rejected(b).state = "rejected" /\ Rejected(b).committed = <<>>
       /\ Rejected(b).failures = b.failures
    BY DEF Progress, Rejected, Batch
<1>11. s.header = <<>> <=> d.records = <<>>
    <2>1. d.records # <<>> => d.records[1] # <<>>
        BY <1>5, NothingIn DEF HasRequired
    <2>. QED
        BY <1>1, <2>1
<1>12. y \in Reader /\ (x.row <= before.row => y = x)
       /\ (x.row > before.row => /\ y.fields = <<>> /\ y.field = x.field /\ y.header = x.header
                                 /\ y.row = x.row /\ y.total = x.total /\ y.quoted = x.quoted
                                 /\ y.quotePending = x.quotePending
                                 /\ y.crPending = x.crPending /\ y.rejected = x.rejected)
    <2>1. before.row \in Nat /\ x.row \in Nat
        BY <1>6 DEF Reader
    <2>2. CASE x.row > before.row
        <3>1. y = [x EXCEPT !.fields = <<>>]
            BY <2>2 DEF Yielded
        <3>2. y \in Reader
            BY <1>6, <3>1, NothingIn DEF Reader
        <3>. QED
            BY <1>6, <2>1, <2>2, <3>1, <3>2 DEF Reader
    <2>3. CASE ~(x.row > before.row)
        BY <1>6, <2>1, <2>3 DEF Yielded
    <2>. QED
        BY <2>2, <2>3
<1>. HIDE DEF record
<1>13. CASE x.rejected
    <2>1. c = Rejected(b)
        BY <1>13 DEF Consumed
    <2>2. TooLarge(record) \/ (s.header = <<>> /\ Required \notin Range(record))
        BY <1>6, <1>7, <1>13
    <2>3. Oversized(e) \/ ~HasRequired(e)
        <3>1. CASE TooLarge(record)
            BY <1>8, <3>1
        <3>2. CASE s.header = <<>> /\ Required \notin Range(record)
            <4>1. d.records = <<>>
                BY <1>11, <3>2
            <4>2. e.records[1] = record
                <5>1. d.records = <<>> /\ Len(d.records) = 0
                    BY <4>1
                <5>. QED
                    BY <1>2, <1>3, <5>1, Longer DEF record
            <4>. QED
                BY <3>2, <4>2 DEF HasRequired
        <3>. QED
            BY <2>2, <3>1, <3>2
    <2>. QED
        BY <1>4, <1>10, <1>12, <2>1, <2>3 DEF RecordAgreed
<1>14. CASE ~x.rejected /\ d.records = <<>>
    <2>1. /\ x.field = <<>> /\ x.total = s.total /\ x.quoted = s.quoted
          /\ x.quotePending = s.quotePending /\ x.crPending = s.crPending
          /\ x.header = record /\ x.fields = <<>> /\ x.row = 1 /\ before.row = 1
          /\ ~TooLarge(record) /\ Required \in Range(record)
        BY <1>1, <1>6, <1>7, <1>11, <1>14
    <2>2. c = b /\ y = x
        BY <1>12, <1>14, <2>1 DEF Consumed
    <2>3. Len(d.records) = 0 /\ Len(e.records) = 1 /\ e.records[1] = record
        <3>1. Len(d.records) = 0
            BY <1>14
        <3>. QED
            BY <1>2, <1>3, <1>4, <3>1, Longer DEF record
    <2>4. HasRequired(e)
        BY <1>4, <2>1, <2>3 DEF HasRequired
    <2>5. /\ InvalidRows(e) = {} /\ TableRows(e) = <<>>
          /\ InvalidRows(d) = {} /\ TableRows(d) = <<>>
        BY <2>3, RowsBegin
    <2>6. Progress(e, c)
        BY <1>4, <1>14, <2>2, <2>3, <2>5 DEF Progress
    <2>7. Knows(e, y)
        BY <1>4, <1>14, <2>1, <2>2, <2>3 DEF Knows
    <2>8. e.sent <= MaxImportBytes => Healthy(e)
        BY <1>2, <1>9, <2>1, <2>3, <2>4 DEF Healthy
    <2>. QED
        BY <1>4, <1>10, <1>12, <2>1, <2>2, <2>6, <2>7, <2>8 DEF Progress, RecordAgreed
<1>15. CASE ~x.rejected /\ d.records # <<>>
    <2>1. /\ x.field = <<>> /\ x.total = s.total /\ x.quoted = s.quoted
          /\ x.quotePending = s.quotePending /\ x.crPending = s.crPending
          /\ x.header = d.records[1] /\ x.fields = record /\ x.row = Len(d.records) + 1
          /\ before.row = Len(d.records) /\ x.row > before.row /\ ~TooLarge(record)
        BY <1>1, <1>4, <1>6, <1>7, <1>11, <1>15
    <2> DEFINE n == Len(d.records) + 1
    <2>2. /\ Row(e, n) = BuildRecordValues(d.records[1], record)
          /\ e.records[1] = d.records[1] /\ (HasRequired(e) <=> HasRequired(d))
        <3>1. e.records = Append(d.records, record)
            BY DEF record
        <3>. QED
            BY <1>3, <1>15, <3>1, RowsGrow
    <2>3. c = AppliedRow(b, n, Row(e, n))
        BY <1>15, <2>1, <2>2 DEF Consumed
    <2>. HIDE DEF n
    <2>4. /\ c \in Batch /\ c.committed = <<>> /\ c.state \in {"reading", "rejected"}
          /\ c.state = "reading" => Progress(e, c) /\ Len(e.records) - 1 <= MaxRows
          /\ c.state = "rejected" => \/ Len(e.records) - 1 > MaxRows
                                     \/ Len(c.failures) = MaxReported
          /\ Len(e.records) - 1 <= MaxRows => Reports(c.failures, InvalidRows(e))
        BY <1>3, <1>5, <1>15, <2>3, RowApplied DEF n, record
    <2>5. HasRequired(e)
        BY <1>5, <1>15, <2>2
    <2>6. Knows(e, y)
        BY <1>4, <1>12, <1>15, <2>1, <2>2 DEF Knows
    <2>7. Len(e.records) - 1 > MaxRows => Oversized(e)
        BY Sizes
    <2>8. c.state = "reading" /\ e.sent <= MaxImportBytes => Healthy(e)
        BY <1>9, <2>1, <2>4, <2>5 DEF Healthy
    <2>9. ~Oversized(e) => Reports(c.failures, InvalidRows(e))
        BY <1>9, <2>1, <2>4
    <2>. QED
        BY <1>4, <1>12, <2>1, <2>4, <2>6, <2>7, <2>8, <2>9 DEF RecordAgreed
<1>. QED
    BY <1>13, <1>14, <1>15


-----------------------------------------------------------------------------
(* A byte.                                                                 *)

LEMMA SameRecords ==
    ASSUME NEW d, NEW e, e.records = d.records, NEW b
    PROVE  /\ HasRequired(e) <=> HasRequired(d)
           /\ InvalidRows(e) = InvalidRows(d)
           /\ Progress(e, b) <=> Progress(d, b)
<1>1. HasRequired(e) <=> HasRequired(d)
    BY DEF HasRequired
<1>2. InvalidRows(e) = InvalidRows(d)
    BY DEF InvalidRows, Row
<1>3. TableRows(e) = TableRows(d)
    BY DEF TableRows, Row
<1>. QED
    BY <1>1, <1>2, <1>3 DEF Progress

LEMMA YieldedType ==
    ASSUME NEW before, NEW after \in Reader
    PROVE  /\ Yielded(before, after) \in Reader
           /\ after.row = before.row => Yielded(before, after) = after
<1>1. [after EXCEPT !.fields = <<>>] \in Reader
    BY NothingIn DEF Reader
<1>2. after.row \in Nat
    BY DEF Reader
<1>. QED
    BY <1>1, <1>2 DEF Yielded

LEMMA SentTypes ==
    ASSUME NEW d \in Sheet, NEW k \in Bytes, NEW f \in Sent(d, k)
    PROVE  /\ f \in Sheet /\ f.sent = d.sent /\ f.end = d.end
           /\ [f EXCEPT !.sent = @ + 1] \in Sheet
<1>1. f \in Sheet /\ f.sent = d.sent /\ f.end = d.end
    <2>1. ASSUME NEW at \in {"bare", "quoted"}, f = Say(d, k, at)
          PROVE  f \in Sheet /\ f.sent = d.sent /\ f.end = d.end
        BY <2>1, SheetSays
    <2>2. ASSUME NEW at \in {"quoted", "closed", "cr"}, f = [d EXCEPT !.at = at]
          PROVE  f \in Sheet /\ f.sent = d.sent /\ f.end = d.end
        BY <2>2 DEF Sheet
    <2>3. CASE f \in {EndField(d), EndRecord(d)}
        BY <2>3, SheetEnds
    <2>4. \/ \E at \in {"bare", "quoted"} : f = Say(d, k, at)
          \/ \E at \in {"quoted", "closed", "cr"} : f = [d EXCEPT !.at = at]
          \/ f \in {EndField(d), EndRecord(d)}
        BY SentCases
    <2>. QED
        BY <2>1, <2>2, <2>3, <2>4
<1>2. f.sent + 1 \in Nat
    BY <1>1 DEF Sheet
<1>. QED
    BY <1>1, <1>2 DEF Sheet

(* The reader refuses a byte, and the batch gives up.                      *)
LEMMA ByteRefused ==
    ASSUME NEW d, NEW b \in Batch, Progress(d, b), NEW before, NEW after, after.rejected,
           NEW c, c = Consumed(b, before, after)
    PROVE  c \in Batch /\ c.committed = <<>> /\ c.state = "rejected" /\ c.failures = b.failures
<1>1. c = [b EXCEPT !.state = "rejected", !.written = <<>>]
    BY DEF Consumed, Rejected
<1>. QED
    BY <1>1 DEF Progress, Batch

(* What ImportIsTheTable says of a caller and a batch.                     *)
Told(d, b) ==
    /\ b.state = "imported" => Acceptable(d) /\ b.committed = TableRows(d)
    /\ b.state = "rejected" => ~Acceptable(d) /\ b.committed = <<>>
    /\ b.state = "rejected" /\ d.end = "open" =>
           \/ Oversized(d)
           \/ d.records # <<>> /\ ~HasRequired(d)
           \/ Len(b.failures) = MaxReported
    /\ HasRequired(d) /\ ~Oversized(d) => Reports(b.failures, InvalidRows(d))

(* As long as the body is read, the caller, the reader and the batch are   *)
(* in step; and whatever became of the import, the caller is told of it.   *)
InStep(d, r, b) ==
    /\ d \in Sheet /\ r \in Reader /\ b \in Batch
    /\ b.state = "reading" => d.end = "open" /\ Healthy(d) /\ Follows(d, r) /\ Progress(d, b)
    /\ Told(d, b)

(* What a byte keeps of the agreement of caller, reader and batch.         *)
Agreed(e, y, c) ==
    /\ e \in Sheet /\ y \in Reader /\ c \in Batch
    /\ c.committed = <<>> /\ c.state \in {"reading", "rejected"}
    /\ c.state = "reading" => Healthy(e) /\ Follows(e, y) /\ Progress(e, c)
    /\ c.state = "rejected" => \/ Oversized(e)
                               \/ e.records # <<>> /\ ~HasRequired(e)
                               \/ Len(c.failures) = MaxReported
    /\ HasRequired(e) /\ ~Oversized(e) => Reports(c.failures, InvalidRows(e))

LEMMA ByteInStep ==
    ASSUME NEW d, NEW r, NEW b, InStep(d, r, b), b.state = "reading", NEW k \in Bytes,
           NEW f \in Sent(d, k), NEW e, e = [f EXCEPT !.sent = @ + 1], NEW y, NEW c,
           y = Yielded(r, Byte(r, k)), c = Consumed(b, r, Byte(r, k))
    PROVE  InStep(e, y, c)
<1> /\ d \in Sheet /\ r \in Reader /\ b \in Batch
    /\ d.end = "open" /\ Healthy(d) /\ Follows(d, r) /\ Progress(d, b)
    BY DEF InStep
<1>. SUFFICES e.end = d.end /\ Agreed(e, y, c)
    <2>. SUFFICES ASSUME e.end = d.end, Agreed(e, y, c) PROVE InStep(e, y, c)
        OBVIOUS
    <2>. ~Acceptable(e)
        BY DEF Acceptable
    <2>. QED
        BY DEF Agreed, InStep, Told
<1> SUFFICES ASSUME NEW x, x = Byte(r, k), y = Yielded(r, x), c = Consumed(b, r, x)
             PROVE  e.end = d.end /\ Agreed(e, y, c)
    OBVIOUS
<1>1. /\ f \in Sheet /\ e \in Sheet /\ f.sent = d.sent /\ f.end = d.end
    BY SentTypes
<1>2. /\ e.at = f.at /\ e.field = f.field /\ e.fields = f.fields /\ e.records = f.records
      /\ e.sent = d.sent + 1 /\ e.end = d.end /\ e = [f EXCEPT !.sent = d.sent + 1]
    BY <1>1 DEF Sheet
<1>3. /\ Knows(d, r) /\ ~r.rejected /\ r.total = d.sent /\ d.sent \in Nat /\ r.row \in Nat
      /\ d.sent + 1 \in Nat /\ MaxImportBytes \in Nat
    BY CsvBounds DEF Follows, Knows, Sheet, Reader
<1>4. /\ b.state = "reading" /\ b.committed = <<>> /\ Reports(b.failures, InvalidRows(d))
    BY DEF Progress
<1>5. CASE r.total + 1 > MaxImportBytes
    <2>1. x = [r EXCEPT !.rejected = TRUE]
        BY <1>5 DEF Byte, Reject
    <2>2. x \in Reader /\ x.rejected
        BY <2>1 DEF Reader
    <2>3. y \in Reader
        BY <2>2, YieldedType
    <2>4. c \in Batch /\ c.committed = <<>> /\ c.state = "rejected"
        BY <2>2, ByteRefused
    <2>5. Oversized(e)
        BY <1>2, <1>3, <1>5, Sizes
    <2>. QED
        BY <1>1, <1>2, <2>3, <2>4, <2>5 DEF Agreed
<1>6. CASE r.total + 1 <= MaxImportBytes
    <2>. DEFINE Same == /\ ~(Len(d.records) - 1 > MaxRows) /\ ~TooLarge(d.fields)
                        /\ \A record \in Range(d.records) : ~TooLarge(record)
    <2>7. ~(e.sent > MaxImportBytes) /\ Same
        <3>1. Same
            BY Sizes DEF Healthy
        <3>. QED
            BY <1>2, <1>3, <1>6, <3>1
    <2>1. CASE \/ /\ d.at = "field" /\ k = "quote" /\ f = [d EXCEPT !.at = "quoted"]
               \/ /\ d.at \in {"field", "bare"} /\ k = Letter /\ f = Say(d, k, "bare")
               \/ /\ d.at \in {"field", "bare", "closed"} /\ k = "cr"
                  /\ f = [d EXCEPT !.at = "cr"]
               \/ /\ d.at = "quoted" /\ k = "quote" /\ f = [d EXCEPT !.at = "closed"]
               \/ /\ d.at = "quoted" /\ k # "quote" /\ f = Say(d, k, "quoted")
               \/ /\ d.at = "closed" /\ k = "quote" /\ f = Say(d, k, "quoted")
        <3>1. /\ x \in Reader /\ f.records = d.records /\ f.fields = d.fields
              /\ x.rejected => Len(f.field) > MaxFieldBytes
              /\ ~x.rejected => /\ Follows(e, x) /\ x.row = r.row
                                /\ f.field = d.field \/ Len(f.field) <= MaxFieldBytes
            BY <1>1, <1>2, <1>6, <2>1, ByteSays
        <3>2. y \in Reader
            BY <3>1, YieldedType
        <3>3. CASE x.rejected
            <4>1. c \in Batch /\ c.committed = <<>> /\ c.state = "rejected"
                BY <3>3, ByteRefused
            <4>2. Oversized(e)
                BY <1>2, <3>1, <3>3, Sizes
            <4>. QED
                BY <1>1, <1>2, <3>2, <4>1, <4>2 DEF Agreed
        <3>4. CASE ~x.rejected
            <4>1. y = x /\ c = b
                BY <1>3, <3>1, <3>4, YieldedType DEF Consumed
            <4>2. /\ HasRequired(e) <=> HasRequired(d)
                  /\ InvalidRows(e) = InvalidRows(d) /\ (Progress(e, b) <=> Progress(d, b))
                BY <1>2, <3>1, SameRecords
            <4>3. ~(Len(f.field) > MaxFieldBytes)
                <5>1. Len(f.field) \in Nat /\ MaxFieldBytes \in Nat
                    BY <1>1, CsvBounds DEF Sheet, Text
                <5>2. ~(Len(d.field) > MaxFieldBytes)
                    BY Sizes DEF Healthy
                <5>. QED
                    BY <3>1, <3>4, <5>1, <5>2
            <4>4. ~Oversized(e)
                <5>1. e.records = d.records /\ e.fields = d.fields /\ e.field = f.field
                    BY <1>2, <3>1
                <5>. QED
                    BY <2>7, <4>3, <5>1, Sizes
            <4>5. Healthy(e)
                BY <1>2, <3>1, <4>2, <4>4 DEF Healthy
            <4>. QED
                BY <1>1, <1>2, <1>4, <3>1, <3>2, <3>4, <4>1, <4>2, <4>5 DEF Agreed
        <3>. QED
            BY <3>3, <3>4
    <2>2. CASE d.at \in {"field", "bare", "closed"} /\ k = "comma" /\ f = EndField(d)
        <3>1. PICK s \in Reader :
                  /\ s.field = r.field /\ s.fields = r.fields /\ s.header = r.header
                  /\ s.row = r.row /\ s.total = r.total + 1
                  /\ ~s.rejected /\ ~s.quoted /\ ~s.quotePending /\ ~s.crPending
                  /\ x = FinalizeField(s)
            BY <1>3, <1>6, <2>2, ByteUnquoted DEF Follows
        <3>2. /\ f.at = "field" /\ f.field = <<>> /\ f.fields = Append(d.fields, d.field)
              /\ f.records = d.records
            BY <2>2, SheetEnds
        <3>3. /\ s.field = d.field /\ s.fields = d.fields /\ d.fields \in Record
              /\ d.field \in Text /\ s.header = r.header /\ s.row = r.row
            BY <1>3, <3>1 DEF Knows, Sheet
        <3>4. CASE Len(d.fields) + 1 > MaxColumns
            <4>1. x \in Reader /\ x.rejected
                BY <3>1, <3>3, <3>4, FieldFinal
            <4>2. y \in Reader
                BY <4>1, YieldedType
            <4>3. c \in Batch /\ c.committed = <<>> /\ c.state = "rejected"
                BY <4>1, ByteRefused
            <4>4. TooLarge(e.fields)
                BY <1>2, <3>2, <3>3, <3>4, LargerRecord
            <4>5. Oversized(e)
                BY <4>4, Sizes
            <4>. QED
                BY <1>1, <1>2, <4>2, <4>3, <4>5 DEF Agreed
        <3>5. CASE ~(Len(d.fields) + 1 > MaxColumns)
            <4>1. /\ x \in Reader /\ x.field = <<>> /\ x.fields = f.fields
                  /\ x.header = r.header /\ x.row = r.row /\ x.total = d.sent + 1
                  /\ ~x.quoted /\ ~x.quotePending /\ ~x.crPending /\ ~x.rejected
                <5>1. /\ x \in Reader /\ x.field = <<>> /\ x.fields = Append(s.fields, s.field)
                      /\ x.header = s.header /\ x.row = s.row /\ x.total = s.total
                      /\ x.quoted = s.quoted /\ x.quotePending = s.quotePending
                      /\ x.crPending = s.crPending /\ x.rejected = s.rejected
                    BY <3>1, <3>3, <3>5, FieldFinal
                <5>. QED
                    BY <1>3, <3>1, <3>2, <3>3, <5>1
            <4>2. y = x /\ c = b
                BY <1>3, <4>1, YieldedType DEF Consumed
            <4>3. /\ HasRequired(e) <=> HasRequired(d)
                  /\ InvalidRows(e) = InvalidRows(d) /\ (Progress(e, b) <=> Progress(d, b))
                BY <1>2, <3>2, SameRecords
            <4>4. Follows(e, x)
                BY <1>2, <1>3, <3>2, <4>1 DEF Follows, Knows
            <4>5. ~TooLarge(d.fields) /\ ~(Len(d.field) > MaxFieldBytes)
                BY Sizes DEF Healthy
            <4>6. ~TooLarge(e.fields)
                BY <1>2, <3>2, <3>3, <3>5, <4>5, LargerRecord
            <4>7. ~(Len(e.field) > MaxFieldBytes)
                BY <1>2, <3>2, CsvBounds
            <4>8. ~Oversized(e)
                <5>1. e.records = d.records
                    BY <1>2, <3>2
                <5>. QED
                    BY <2>7, <4>6, <4>7, <5>1, Sizes
            <4>9. Healthy(e)
                BY <1>2, <3>2, <4>3, <4>8 DEF Healthy
            <4>. QED
                BY <1>1, <1>2, <1>4, <4>1, <4>2, <4>3, <4>4, <4>9 DEF Agreed
        <3>. QED
            BY <3>4, <3>5
    <2>3. CASE d.at \in {"field", "bare", "closed", "cr"} /\ k = "lf" /\ f = EndRecord(d)
        <3>1. PICK s \in Reader :
                  /\ s.field = r.field /\ s.fields = r.fields /\ s.header = r.header
                  /\ s.row = r.row /\ s.total = r.total + 1
                  /\ ~s.rejected /\ ~s.quoted /\ ~s.quotePending /\ ~s.crPending
                  /\ x = FinalizeRecord(s)
            BY <1>3, <1>6, <2>3, ByteUnquoted DEF Follows
        <3>2. /\ f.at = "field" /\ f.field = <<>> /\ f.fields = <<>>
              /\ f.records = Append(d.records, Append(d.fields, d.field))
            BY <2>3, SheetEnds
        <3>3. Knows(d, s)
            BY <1>3, <3>1 DEF Knows
        <3>4. /\ c \in Batch /\ c.committed = <<>> /\ c.state \in {"reading", "rejected"}
              /\ e.records # <<>> /\ y \in Reader
              /\ HasRequired(e) /\ ~Oversized(e) => Reports(c.failures, InvalidRows(e))
              /\ c.state = "rejected" => \/ Oversized(e) \/ ~HasRequired(e)
                                         \/ Len(c.failures) = MaxReported
              /\ c.state = "reading" /\ e.sent <= MaxImportBytes
                   => /\ Healthy(e) /\ Progress(e, c) /\ Knows(e, y)
                      /\ y.total = s.total /\ y.quoted = s.quoted
                      /\ y.quotePending = s.quotePending /\ y.crPending = s.crPending
            <4>1. /\ e.records = Append(d.records, Append(d.fields, d.field))
                  /\ e.fields = <<>> /\ e.field = <<>> /\ r.row = s.row
                BY <1>2, <3>1, <3>2
            <4>2. RecordAgreed(s, e, y, c)
                BY <1>1, <3>1, <3>3, <4>1, RecordEnds
            <4>. QED
                BY <4>2 DEF RecordAgreed
        <3>5. e.sent <= MaxImportBytes
            BY <1>2, <1>3, <1>6
        <3>6. c.state = "reading" => Healthy(e) /\ Progress(e, c) /\ Follows(e, y)
            BY <1>2, <1>3, <3>1, <3>2, <3>4, <3>5 DEF Follows
        <3>. QED
            BY <1>1, <1>2, <3>4, <3>6 DEF Agreed
    <2>. QED
        BY <2>1, <2>2, <2>3, SentCases
<1>. QED
    BY <1>3, <1>5, <1>6


-----------------------------------------------------------------------------
(* The end of the body.                                                    *)

LEMMA BatchEnds ==
    ASSUME NEW e \in Sheet, e.end = "sent", NEW c \in Batch, c.committed = <<>>,
           c.state \in {"reading", "rejected"},
           HasRequired(e) /\ ~Oversized(e) => Reports(c.failures, InvalidRows(e)),
           c.state = "rejected" => \/ Oversized(e) \/ ~HasRequired(e)
                                   \/ Len(c.failures) = MaxReported,
           c.state = "reading" => Healthy(e) /\ Progress(e, c) /\ e.records # <<>>
    PROVE  Ended(c) \in Batch /\ Ended(c).state # "reading" /\ Told(e, Ended(c))
<1> DEFINE z == Ended(c)
<1>1. c.failures \in Seq(Nat) /\ c.written \in Seq(Values)
    BY DEF Batch
<1>2. CASE c.state = "rejected" \/ c.failures # <<>>
    <2>1. z = [c EXCEPT !.state = "rejected", !.written = <<>>]
        BY <1>2 DEF Ended, Rejected
    <2>. HIDE DEF z
    <2>2. /\ z \in Batch /\ z.state = "rejected" /\ z.committed = <<>>
          /\ z.failures = c.failures
        BY <2>1 DEF Batch
    <2>3. ~Acceptable(e)
        <3>1. SUFFICES ASSUME Acceptable(e) PROVE FALSE
            OBVIOUS
        <3>2. HasRequired(e) /\ ~Oversized(e) /\ InvalidRows(e) = {}
            BY <3>1 DEF Acceptable
        <3>3. c.failures = <<>>
            BY <1>1, <3>2, ReportNames
        <3>4. c.state = "rejected" /\ Len(c.failures) = MaxReported
            BY <1>2, <3>2, <3>3
        <3>5. Len(c.failures) = 0
            BY <3>3
        <3>. QED
            BY <3>4, <3>5, CsvBounds
    <2>. QED
        BY <2>2, <2>3 DEF z, Told
<1>3. CASE c.state = "reading" /\ c.failures = <<>>
    <2>1. z = [c EXCEPT !.state = "imported", !.written = <<>>, !.committed = c.written]
        BY <1>3 DEF Ended
    <2>. HIDE DEF z
    <2>2. /\ z \in Batch /\ z.state = "imported" /\ z.committed = c.written
          /\ z.failures = c.failures
        BY <1>1, <2>1 DEF Batch
    <2>3. /\ c.written = TableRows(e) /\ HasRequired(e) /\ ~Oversized(e)
          /\ Reports(c.failures, InvalidRows(e)) /\ Len(c.failures) < MaxReported
        BY <1>3 DEF Healthy, Progress
    <2>4. InvalidRows(e) = {}
        BY <1>1, <1>3, <2>3, ReportIsAll, NothingIn
    <2>5. Acceptable(e)
        BY <2>3, <2>4 DEF Acceptable
    <2>. QED
        BY <2>2, <2>3, <2>5 DEF z, Told
<1>. QED
    BY <1>2, <1>3

LEMMA BodyEnds ==
    ASSUME NEW d \in Sheet, NEW r \in Reader, NEW b \in Batch, Healthy(d), Follows(d, r),
           Progress(d, b), Complete(d), NEW e, e = [Closed(d) EXCEPT !.end = "sent"],
           NEW x, x = AtEnd(r), NEW y, y = Yielded(r, x), NEW c, c = Consumed(b, r, x)
    PROVE  /\ e \in Sheet /\ e.end = "sent" /\ y \in Reader
           /\ Ended(c) \in Batch /\ Ended(c).state # "reading" /\ Told(e, Ended(c))
<1> DEFINE t == [r EXCEPT !.crPending = FALSE]
           s == [t EXCEPT !.quotePending = FALSE, !.quoted = FALSE]
<1>1. /\ Knows(d, r) /\ ~r.rejected /\ r.field = d.field /\ r.fields = d.fields
      /\ ~r.crPending /\ d.sent \in Nat /\ MaxImportBytes \in Nat
      /\ d.fields \in Record /\ d.records \in Seq(Record)
    BY CsvBounds DEF Follows, Knows, Complete, Sheet
<1>2. SettleCr(r, "none") = t
    BY <1>1 DEF SettleCr
<1>3. /\ s \in Reader /\ s.field = r.field /\ s.fields = r.fields /\ s.header = r.header
      /\ s.row = r.row /\ s.total = r.total /\ ~s.rejected
    BY <1>1 DEF Reader
<1>4. x = IF s.rejected THEN s
          ELSE IF s.field # <<>> \/ s.fields # <<>> THEN FinalizeRecord(s)
          ELSE IF s.header = <<>> THEN Reject(s)
          ELSE s
    BY <1>2 DEF AtEnd, NoHeader
<1>. HIDE DEF t, s
<1>5. /\ b.state = "reading" /\ b.committed = <<>> /\ Reports(b.failures, InvalidRows(d))
    BY DEF Progress
<1>6. Closed(d) \in Sheet => /\ e \in Sheet /\ e.end = "sent"
                                /\ e.records = Closed(d).records /\ e.sent = Closed(d).sent
                                /\ e.fields = Closed(d).fields /\ e.field = Closed(d).field
    BY DEF Sheet
<1>7. CASE d.at = "field" /\ d.fields = <<>>
    <2>1. Closed(d) = d /\ s.field = <<>> /\ s.fields = <<>>
        BY <1>1, <1>3, <1>7 DEF Closed, Follows
    <2>2. /\ e \in Sheet /\ e.end = "sent" /\ e.records = d.records /\ e.sent = d.sent
          /\ e.fields = d.fields /\ e.field = d.field
        BY <1>6, <2>1
    <2>3. /\ HasRequired(e) <=> HasRequired(d)
          /\ InvalidRows(e) = InvalidRows(d) /\ (Progress(e, b) <=> Progress(d, b))
        BY <2>2, SameRecords
    <2>4. ~Oversized(e)
        <3>1. ~Oversized(d)
            BY DEF Healthy
        <3>. QED
            BY <2>2, <3>1 DEF Oversized
    <2>5. CASE d.records = <<>>
        <3>1. x = [s EXCEPT !.rejected = TRUE]
            BY <1>1, <1>3, <1>4, <2>1, <2>5 DEF Knows, Reject
        <3>2. x \in Reader /\ x.rejected
            BY <1>3, <3>1 DEF Reader
        <3>3. y \in Reader
            BY <3>2, YieldedType
        <3>4. /\ c \in Batch /\ c.committed = <<>> /\ c.state = "rejected"
              /\ ~HasRequired(e)
            BY <2>2, <2>5, <3>2, ByteRefused DEF HasRequired
        <3>. QED
            BY <2>2, <3>3, <3>4, BatchEnds
    <2>6. CASE d.records # <<>>
        <3>1. HasRequired(d) /\ r.header = d.records[1]
            BY <1>1, <2>6 DEF Healthy, Knows
        <3>2. s.header # <<>>
            BY <1>3, <3>1, NothingIn DEF HasRequired
        <3>3. x = s
            BY <1>3, <1>4, <2>1, <3>2
        <3>4. y = s /\ c = b
            <4>1. s.row \in Nat
                BY <1>3 DEF Reader
            <4>. QED
                BY <1>3, <3>3, <4>1, YieldedType DEF Consumed
        <3>5. Healthy(e)
            BY <2>3, <2>4, <3>1 DEF Healthy
        <3>. QED
            BY <1>3, <1>5, <2>2, <2>3, <2>6, <3>4, <3>5, BatchEnds
    <2>. QED
        BY <2>5, <2>6
<1>8. CASE ~(d.at = "field" /\ d.fields = <<>>)
    <2>1. Closed(d) = EndRecord(d)
        BY <1>8 DEF Closed
    <2>2. /\ e \in Sheet /\ e.end = "sent" /\ e.sent = d.sent
          /\ e.records = Append(d.records, Append(d.fields, d.field))
          /\ e.fields = <<>> /\ e.field = <<>>
        BY <1>6, <2>1, SheetEnds
    <2>3. d.fields # <<>>
        <3>1. Len(d.fields) + 1 >= Columns
            BY <1>8 DEF Complete
        <3>2. d.fields = <<>> => Len(d.fields) = 0
            OBVIOUS
        <3>. QED
            BY <3>1, <3>2, CsvBounds
    <2>4. x = FinalizeRecord(s)
        BY <1>1, <1>3, <1>4, <2>3
    <2>5. Knows(d, s)
        BY <1>1, <1>3 DEF Knows
    <2>6. RecordAgreed(s, e, y, c)
        BY <1>3, <2>2, <2>4, <2>5, RecordEnds
    <2>7. e.sent <= MaxImportBytes
        <3>1. ~(d.sent > MaxImportBytes)
            BY Sizes DEF Healthy
        <3>. QED
            BY <1>1, <2>2, <3>1
    <2>8. /\ c \in Batch /\ c.committed = <<>> /\ c.state \in {"reading", "rejected"}
          /\ e.records # <<>> /\ y \in Reader
          /\ HasRequired(e) /\ ~Oversized(e) => Reports(c.failures, InvalidRows(e))
          /\ c.state = "rejected" => \/ Oversized(e) \/ ~HasRequired(e)
                                     \/ Len(c.failures) = MaxReported
          /\ c.state = "reading" => Healthy(e) /\ Progress(e, c)
        BY <2>6, <2>7 DEF RecordAgreed
    <2>. QED
        BY <2>2, <2>8, BatchEnds
<1>. QED
    BY <1>7, <1>8


-----------------------------------------------------------------------------
CsvInv == InStep(doc, reader, batch)

LEMMA StartInStep == InStep(NoDoc, NewReader, NewBatch)
<1>1. /\ NoDoc \in Sheet /\ NewReader \in Reader /\ NewBatch \in Batch
    BY NothingIn DEF NoDoc, NewReader, NewBatch, NoHeader, Sheet, Reader, Batch, Text, Record
<1>2. /\ NoDoc.records = <<>> /\ NoDoc.fields = <<>> /\ NoDoc.field = <<>> /\ NoDoc.sent = 0
      /\ NoDoc.at = "field" /\ NoDoc.end = "open" /\ Len(NoDoc.records) = 0
      /\ Len(NoDoc.field) = 0
    BY DEF NoDoc
<1>3. InvalidRows(NoDoc) = {} /\ TableRows(NoDoc) = <<>>
    BY <1>1, <1>2, RowsBegin
<1>4. Healthy(NoDoc)
    BY <1>2, NothingIn, Sizes, CsvBounds DEF Healthy
<1>5. Follows(NoDoc, NewReader)
    BY <1>2 DEF Follows, Knows, NewReader, NoHeader
<1>6. /\ NewBatch.state = "reading" /\ NewBatch.committed = <<>> /\ NewBatch.rows = 0
      /\ NewBatch.failures = <<>> /\ NewBatch.written = <<>> /\ Len(NewBatch.failures) = 0
    BY DEF NewBatch
<1>7. Progress(NoDoc, NewBatch)
    BY <1>2, <1>3, <1>6, EmptyReport, CsvBounds DEF Progress
<1>8. Told(NoDoc, NewBatch)
    BY <1>3, <1>6, EmptyReport DEF Told
<1>. QED
    BY <1>1, <1>2, <1>4, <1>5, <1>7, <1>8 DEF InStep

LEMMA EndInStep ==
    ASSUME NEW d, NEW r, NEW b, InStep(d, r, b), b.state = "reading", Complete(d), NEW e,
           e = [Closed(d) EXCEPT !.end = "sent"], NEW y, NEW z,
           y = Yielded(r, AtEnd(r)), z = Ended(Consumed(b, r, AtEnd(r)))
    PROVE  InStep(e, y, z)
<1>1. /\ d \in Sheet /\ r \in Reader /\ b \in Batch
      /\ d.end = "open" /\ Healthy(d) /\ Follows(d, r) /\ Progress(d, b)
    BY DEF InStep
<1>2. e \in Sheet /\ y \in Reader /\ z \in Batch /\ z.state # "reading" /\ Told(e, z)
    BY <1>1, BodyEnds
<1>. QED
    BY <1>2 DEF InStep

LEMMA BreakInStep ==
    ASSUME NEW d, NEW r, NEW b, InStep(d, r, b), b.state = "reading"
    PROVE  InStep([d EXCEPT !.end = "broken"], r, Rejected(b))
<1> DEFINE e == [d EXCEPT !.end = "broken"]
           z == Rejected(b)
<1>1. d \in Sheet /\ r \in Reader /\ b \in Batch /\ Progress(d, b)
    BY DEF InStep
<1>2. /\ e \in Sheet /\ e.end = "broken" /\ e.records = d.records
    BY <1>1 DEF Sheet
<1>3. /\ z \in Batch /\ z.state = "rejected" /\ z.committed = <<>> /\ z.failures = b.failures
    BY <1>1 DEF Rejected, Batch, Progress
<1>. HIDE DEF e, z
<1>4. ~Acceptable(e)
    BY <1>2 DEF Acceptable
<1>5. InvalidRows(e) = InvalidRows(d)
    BY <1>2, SameRecords
<1>6. Told(e, z)
    BY <1>1, <1>2, <1>3, <1>4, <1>5 DEF Told, Progress
<1>. QED
    BY <1>1, <1>2, <1>3, <1>6 DEF e, z, InStep

LEMMA CsvStep ==
    CsvInv /\ [CsvNext]_csvVars => CsvInv'
<1> SUFFICES ASSUME CsvInv, [CsvNext]_csvVars PROVE InStep(doc', reader', batch')
    BY DEF CsvInv
<1>1. InStep(doc, reader, batch)
    BY DEF CsvInv
<1>2. ASSUME NEW k \in Bytes, SendByte(k) PROVE InStep(doc', reader', batch')
    <2>1. PICK f \in Sent(doc, k) : doc' = [f EXCEPT !.sent = @ + 1]
        BY <1>2 DEF SendByte
    <2>2. /\ batch.state = "reading" /\ reader' = Yielded(reader, Byte(reader, k))
          /\ batch' = Consumed(batch, reader, Byte(reader, k))
        BY <1>2 DEF SendByte
    <2>. QED
        BY <1>1, <2>1, <2>2, ByteInStep
<1>3. CASE EndBody
    BY <1>1, <1>3, EndInStep DEF EndBody
<1>4. CASE BreakBody
    BY <1>1, <1>4, BreakInStep DEF BreakBody
<1>5. CASE UNCHANGED csvVars
    BY <1>1, <1>5 DEF csvVars
<1>. QED
    BY <1>2, <1>3, <1>4, <1>5 DEF CsvNext

LEMMA ImportTold == CsvInv => ImportIsTheTable
BY DEF CsvInv, InStep, Told, ImportIsTheTable

(* However a table is quoted and broken into lines, and whatever goes      *)
(* wrong on the way, an import commits exactly the rows the caller sent,   *)
(* or nothing; it gives up early only over a flaw no further byte mends,   *)
(* and reports the first rows at fault (streaming_csv_reader.ts,           *)
(* import_runner.ts).                                                      *)
THEOREM CsvCorrect == CsvSpec => []ImportIsTheTable
<1>1. CsvInit => CsvInv
    BY StartInStep DEF CsvInit, CsvInv
<1>. QED
    BY <1>1, CsvStep, ImportTold, PTL DEF CsvSpec

=============================================================================
