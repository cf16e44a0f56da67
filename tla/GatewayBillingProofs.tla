------------------------ MODULE GatewayBillingProofs ------------------------
(***************************************************************************)
(* GatewayBilling's invariants, for any number of checkouts, plans, events *)
(* and webhook requests in flight.  The bounds of the model are constants  *)
(* of the theorems too.                                                    *)
(***************************************************************************)
EXTENDS GatewayBilling, TLAPS

(* What a handler in flight knows: its event was claimed and is not settled*)
(* yet; what it is about to save would be accepted.                        *)
HandlerOK(h) ==
    /\ handler[h] \in Handler
    /\ handler[h].pc = "idle" => handler[h] = Idle
    /\ handler[h].pc # "idle" => handler[h].event \in claimed \ settled
    /\ handler[h].pc = "save" => WellFormed(handler[h].entity)

(* A gateway subscription was started by a session that was paid.          *)
GatewayOK ==
    /\ gw \in [Checkouts -> [st : {"none", "live", "ended"}, period : Dates]]
    /\ \A c \in Checkouts : gw[c].st # "none" =>
          gw[c].period # 0 /\ checkout[c].pc \in {"paid", "completed"}

EventsOK ==
    /\ events \in Seq(Event) /\ Len(events) <= MaxEvents
    /\ \A i \in 1 .. Len(events) : events[i].id = i

TablesOK ==
    /\ row \in Subscription /\ WellFormed(row)
    /\ claimed \subseteq 1 .. Len(events) /\ acked \subseteq 1 .. Len(events)
    /\ settled \subseteq claimed
    /\ outages \in 0 .. MaxOutages /\ losses \in 0 .. MaxLosses
    /\ effects \in [EventIds -> Nat]

Opened == {"open", "paid", "completed"}
(* Every session is charged to the customer the row is bound to, and so is *)
(* every event; no row a handler carries names another.                    *)
CustomerOK ==
    /\ checkout \in [Checkouts -> Session]
    /\ \A c \in Checkouts : checkout[c].pc \in Opened =>
          checkout[c].customer = row.customer /\ row.customer # None
    /\ \A i \in 1 .. Len(events) : events[i].customer = row.customer
    /\ \A h \in Handlers : handler[h].pc = "save" => handler[h].entity.customer = row.customer

(* An event leaves nothing behind until its dispatch has returned; no two  *)
(* requests work on one event.                                             *)
OnceOK ==
    /\ \A e \in EventIds : effects[e] <= 1 /\ (e \notin settled => effects[e] = 0)
    /\ \A g, h \in Handlers : g # h /\ handler[g].pc # "idle"
                                 => handler[g].event # handler[h].event

BillingInv ==
    /\ EventsOK /\ TablesOK /\ GatewayOK /\ CustomerOK /\ OnceOK
    /\ handler \in [Handlers -> Handler] /\ \A h \in Handlers : HandlerOK(h)

-----------------------------------------------------------------------------
LEMMA IdleHandler == Idle \in Handler /\ Idle.pc = "idle" /\ Idle.event = 0
  BY BillingAssumption DEF Idle, Handler, Dates, FreeSubscription, Subscription, References, Effects

LEMMA InitBilling == Init => BillingInv
<1> SUFFICES ASSUME Init PROVE BillingInv
  OBVIOUS
<1>1. EventsOK
  BY BillingAssumption DEF Init, EventsOK
<1>2. TablesOK
  BY BillingAssumption
     DEF Init, TablesOK, FreeSubscription, Subscription, WellFormed, References, Dates
<1>3. GatewayOK
  BY BillingAssumption DEF Init, GatewayOK, Dates
<1>4. CustomerOK
  BY IdleHandler DEF Init, CustomerOK, Opened, Session, References
<1>5. OnceOK
  BY IdleHandler DEF Init, OnceOK, EventIds
<1>6. handler \in [Handlers -> Handler] /\ \A h \in Handlers : HandlerOK(h)
  BY IdleHandler DEF Init, HandlerOK
<1> QED
  BY <1>1, <1>2, <1>3, <1>4, <1>5, <1>6 DEF BillingInv

(* Events: what is appended, and that what there was stays.                *)
LEMMA EmitAppends ==
  ASSUME BillingInv, NEW c \in Checkouts, NEW kind \in Kinds, NEW period \in EventIds,
         Emit(c, kind, period), checkout[c].pc \in Opened
  PROVE  /\ EventsOK' /\ Len(events') = Len(events) + 1
         /\ \A i \in 1 .. Len(events) : events'[i] = events[i]
         /\ events'[Len(events')].customer = row.customer
         /\ events'[Len(events')].kind = kind /\ events'[Len(events')].ref = c
<1> DEFINE id == Len(events) + 1
<1>1. PICK at \in 1 .. MaxTime :
         events' = Append(events, [id |-> id, kind |-> kind, ref |-> c, at |-> at,
                                   customer |-> checkout[c].customer, period |-> period])
  BY DEF Emit
<1> DEFINE e == [id |-> id, kind |-> kind, ref |-> c, at |-> at,
                 customer |-> checkout[c].customer, period |-> period]
<1>2. /\ events \in Seq(Event) /\ Len(events) \in Nat /\ id \in EventIds /\ at \in EventIds
      /\ id <= MaxEvents
  BY BillingAssumption DEF BillingInv, EventsOK, Emit, EventIds
<1>3. checkout[c].customer \in Checkouts /\ checkout[c].customer = row.customer
  BY DEF BillingInv, CustomerOK, Session, References
<1>4. e \in Event
  BY <1>2, <1>3 DEF Event
<1> HIDE DEF e
<1>5. /\ events' \in Seq(Event) /\ Len(events') = id /\ events'[id] = e
      /\ \A i \in 1 .. Len(events) : events'[i] = events[i]
  BY <1>1, <1>2, <1>4 DEF e
<1>6. e.id = id /\ e.customer = row.customer /\ e.kind = kind /\ e.ref = c
  BY <1>3 DEF e
<1>7. EventsOK'
  BY <1>2, <1>5, <1>6 DEF BillingInv, EventsOK
<1> QED
  BY <1>5, <1>6, <1>7

LEMMA EmitKeeps ==
  ASSUME BillingInv, EventsOK', GatewayOK', Len(events') = Len(events) + 1,
         \A i \in 1 .. Len(events) : events'[i] = events[i],
         events'[Len(events')].customer = row.customer,
         checkout' \in [Checkouts -> Session],
         \A c \in Checkouts : checkout'[c].pc \in Opened =>
            checkout[c].pc \in Opened /\ checkout'[c].customer = checkout[c].customer,
         UNCHANGED <<row, claimed, handler, acked, outages, losses, history>>
  PROVE  BillingInv'
<1>1. Len(events) \in Nat
  BY DEF BillingInv, EventsOK
<1>2. TablesOK'
  BY <1>1 DEF BillingInv, TablesOK, history
<1>3. CustomerOK'
  BY <1>1 DEF BillingInv, CustomerOK
<1>4. OnceOK' /\ handler' \in [Handlers -> Handler] /\ \A h \in Handlers : HandlerOK(h)'
  BY DEF BillingInv, OnceOK, HandlerOK, history
<1> QED
  BY <1>2, <1>3, <1>4 DEF BillingInv

LEMMA PayStep ==
  ASSUME BillingInv, NEW c \in Checkouts, Pay(c)
  PROVE  BillingInv'
<1> DEFINE id == Len(events) + 1
<1>1. id \in EventIds /\ id # 0 /\ id \in Dates
  BY BillingAssumption DEF BillingInv, EventsOK, Pay, Emit, EventIds, Dates
<1>2. gw'[c].period = id /\ gw'[c].st = "live"
  BY DEF BillingInv, GatewayOK, Pay
<1>3. Emit(c, IF checkout[c].trial THEN "trialing" ELSE "active", id)
  BY <1>2 DEF Pay
<1>4. checkout[c].pc \in Opened /\ (IF checkout[c].trial THEN "trialing" ELSE "active") \in Kinds
  BY DEF Pay, Opened, Kinds
<1>5. /\ EventsOK' /\ Len(events') = Len(events) + 1
      /\ \A i \in 1 .. Len(events) : events'[i] = events[i]
      /\ events'[Len(events')].customer = row.customer
  BY <1>1, <1>3, <1>4, EmitAppends
<1>6. /\ checkout' \in [Checkouts -> Session] /\ checkout'[c].pc = "paid"
      /\ checkout'[c].customer = checkout[c].customer
      /\ \A d \in Checkouts : d # c => checkout'[d] = checkout[d]
  BY DEF BillingInv, CustomerOK, Pay, Session
<1>7. GatewayOK'
  BY <1>1, <1>6 DEF BillingInv, GatewayOK, Pay
<1> QED
  BY <1>4, <1>5, <1>6, <1>7, EmitKeeps DEF Pay

LEMMA CompleteStep ==
  ASSUME BillingInv, NEW c \in Checkouts, CompleteSession(c)
  PROVE  BillingInv'
<1> DEFINE id == Len(events) + 1
<1>1. id \in EventIds
  BY BillingAssumption DEF BillingInv, EventsOK, CompleteSession, Emit, EventIds
<1>2. checkout[c].pc \in Opened /\ "checkout" \in Kinds
  BY DEF CompleteSession, Opened, Kinds
<1>3. /\ EventsOK' /\ Len(events') = Len(events) + 1
      /\ \A i \in 1 .. Len(events) : events'[i] = events[i]
      /\ events'[Len(events')].customer = row.customer
  BY <1>1, <1>2, EmitAppends DEF CompleteSession
<1>4. /\ checkout' \in [Checkouts -> Session] /\ checkout'[c].pc = "completed"
      /\ checkout'[c].customer = checkout[c].customer
      /\ \A d \in Checkouts : d # c => checkout'[d] = checkout[d]
  BY DEF BillingInv, CustomerOK, CompleteSession, Session
<1>5. GatewayOK'
  BY <1>4 DEF BillingInv, GatewayOK, CompleteSession
<1> QED
  BY <1>2, <1>3, <1>4, <1>5, EmitKeeps DEF CompleteSession

LEMMA GatewayStepStep ==
  ASSUME BillingInv, NEW c \in Checkouts, GatewayStep(c)
  PROVE  BillingInv'
<1> DEFINE id == Len(events) + 1
<1>1. PICK kind \in Steps :
         /\ gw' = [gw EXCEPT
                ![c].st = IF kind \in {"ended", "canceled"} THEN "ended" ELSE @,
                ![c].period = IF kind = "active" THEN Len(events) + 1 ELSE @]
         /\ Emit(c, kind, gw'[c].period)
  BY DEF GatewayStep
<1>2. id \in EventIds /\ id # 0 /\ id \in Dates /\ kind \in Kinds
  BY <1>1, BillingAssumption DEF BillingInv, EventsOK, Emit, EventIds, Dates, Kinds
<1>3. gw[c].st = "live" /\ gw[c].period # 0 /\ checkout[c].pc \in Opened /\ gw[c].period \in Dates
  BY DEF BillingInv, GatewayOK, GatewayStep, Opened
<1>4. /\ gw' \in [Checkouts -> [st : {"none", "live", "ended"}, period : Dates]]
      /\ gw'[c].period \in {id, gw[c].period}
      /\ \A d \in Checkouts : d # c => gw'[d] = gw[d]
  BY <1>1, <1>2, <1>3 DEF BillingInv, GatewayOK
<1>5. gw'[c].period \in EventIds
  BY <1>2, <1>3, <1>4, BillingAssumption DEF Dates, EventIds
<1>6. /\ EventsOK' /\ Len(events') = Len(events) + 1
      /\ \A i \in 1 .. Len(events) : events'[i] = events[i]
      /\ events'[Len(events')].customer = row.customer
  BY <1>1, <1>2, <1>3, <1>5, EmitAppends
<1>7. GatewayOK'
  BY <1>3, <1>4, <1>5 DEF BillingInv, GatewayOK, GatewayStep, EventIds
<1> QED
  BY <1>6, <1>7, EmitKeeps DEF GatewayStep, BillingInv, CustomerOK

LEMMA CheckoutReadStep ==
  ASSUME BillingInv, NEW c \in Checkouts, CheckoutRead(c)
  PROVE  BillingInv'
<1>1. /\ checkout' \in [Checkouts -> Session]
      /\ checkout'[c].pc \in {"link", "open"} /\ checkout[c].pc = "idle"
      /\ checkout'[c].pc = "open" => row.customer # None
      /\ checkout'[c].customer = row.customer
      /\ \A d \in Checkouts : d # c => checkout'[d] = checkout[d]
  <2>1. PICK trial \in BOOLEAN :
          checkout' = [checkout EXCEPT ![c] =
             [pc |-> IF row.customer = None THEN "link" ELSE "open",
              customer |-> row.customer, trial |-> trial]]
    BY DEF CheckoutRead, OffersTrial
  <2>2. checkout[c].pc = "idle" /\ row.customer \in References
        /\ checkout \in [Checkouts -> Session]
    BY DEF BillingInv, TablesOK, CustomerOK, CheckoutRead, Subscription
  <2> QED
    BY <2>1, <2>2 DEF Session
<1>2. CustomerOK'
  BY <1>1 DEF BillingInv, CustomerOK, CheckoutRead, Opened, gateway
<1>3. GatewayOK'
  BY <1>1 DEF BillingInv, GatewayOK, CheckoutRead, gateway
<1>4. EventsOK' /\ TablesOK' /\ OnceOK'
  BY DEF BillingInv, EventsOK, TablesOK, OnceOK, CheckoutRead, gateway, history
<1>5. handler' \in [Handlers -> Handler] /\ \A h \in Handlers : HandlerOK(h)'
  BY DEF BillingInv, HandlerOK, CheckoutRead, history
<1> QED
  BY <1>2, <1>3, <1>4, <1>5 DEF BillingInv

(* The one place where the row gets a customer; no session was open and no *)
(* event emitted while it had none.                                        *)
LEMMA CheckoutLinkStep ==
  ASSUME BillingInv, NEW c \in Checkouts, CheckoutLink(c)
  PROVE  BillingInv'
<1>1. /\ row' \in Subscription /\ row'.customer # None
      /\ row'.status = row.status /\ row'.trial = row.trial /\ row'.grace = row.grace
      /\ row.customer # None => row'.customer = row.customer
  BY BillingAssumption DEF BillingInv, TablesOK, CheckoutLink, LinkIfAbsent, Subscription, References
<1>2. /\ checkout' \in [Checkouts -> Session] /\ checkout'[c].pc = "open"
      /\ checkout[c].pc = "link" /\ checkout'[c].customer = row'.customer
      /\ \A d \in Checkouts : d # c => checkout'[d] = checkout[d]
  <2>1. row'.customer \in References /\ checkout \in [Checkouts -> Session]
    BY <1>1 DEF Subscription, BillingInv, CustomerOK
  <2>2. checkout' = [checkout EXCEPT ![c].pc = "open", ![c].customer = row'.customer]
    BY DEF CheckoutLink, LinkIfAbsent
  <2>3. checkout[c].pc = "link"
    BY DEF CheckoutLink
  <2> QED
    BY <2>1, <2>2, <2>3 DEF Session
<1>3. ASSUME NEW i \in 1 .. Len(events)
      PROVE  row.customer # None
  <2>1. events[i] \in Event
    BY DEF BillingInv, EventsOK
  <2>2. events[i].customer \in Checkouts
    BY <2>1 DEF Event
  <2> QED
    BY <2>2, BillingAssumption DEF BillingInv, CustomerOK
<1>4. ASSUME NEW h \in Handlers, handler[h].pc = "save"
      PROVE  row.customer # None
  BY <1>3, <1>4 DEF BillingInv, HandlerOK, TablesOK
<1>5. CustomerOK'
  BY <1>1, <1>2, <1>3, <1>4 DEF BillingInv, CustomerOK, CheckoutLink, Opened, gateway
<1>6. GatewayOK'
  BY <1>2 DEF BillingInv, GatewayOK, CheckoutLink, gateway
<1>7. EventsOK' /\ OnceOK'
  BY DEF BillingInv, EventsOK, OnceOK, CheckoutLink, gateway, history
<1>8. TablesOK'
  BY <1>1 DEF BillingInv, TablesOK, WellFormed, CheckoutLink, gateway, history
<1>9. handler' \in [Handlers -> Handler] /\ \A h \in Handlers : HandlerOK(h)'
  BY DEF BillingInv, HandlerOK, CheckoutLink, history
<1> QED
  BY <1>5, <1>6, <1>7, <1>8, <1>9 DEF BillingInv

-----------------------------------------------------------------------------
(* A webhook request: the three ways its dispatch goes on, and how it ends.*)
InFlight(h) == handler[h].pc # "idle"

(* What can be saved in place of s, and names the same customer.           *)
Savable(t, s) == t \in Subscription /\ WellFormed(t) /\ t.customer = s.customer

LEMMA EventKnown ==
  ASSUME BillingInv, NEW h \in Handlers, InFlight(h)
  PROVE  /\ handler[h].event \in 1 .. Len(events) /\ handler[h].event \in EventIds
         /\ handler[h].event \in claimed /\ handler[h].event \notin settled
         /\ EventOf(h) \in Event /\ EventOf(h).customer = row.customer
         /\ row.customer \in Checkouts
<1>1. /\ handler[h].event \in 1 .. Len(events) /\ handler[h].event \in claimed \ settled
      /\ Len(events) \in Nat /\ Len(events) <= MaxEvents
  <2>1. handler[h].event \in claimed \ settled
    BY DEF BillingInv, HandlerOK, InFlight
  <2>2. claimed \subseteq 1 .. Len(events)
    BY DEF BillingInv, TablesOK
  <2>3. Len(events) \in Nat /\ Len(events) <= MaxEvents
    BY DEF BillingInv, EventsOK
  <2> QED
    BY <2>1, <2>2, <2>3
<1>2. EventOf(h) \in Event /\ EventOf(h).customer = row.customer
  BY <1>1 DEF BillingInv, EventsOK, CustomerOK, EventOf
<1>3. handler[h].event \in EventIds
  BY <1>1, BillingAssumption DEF EventIds
<1> QED
  BY <1>1, <1>2, <1>3 DEF Event

(* The tables are left alone, and h stays at its event.                    *)
LEMMA HandlerMoves ==
  ASSUME BillingInv, NEW h \in Handlers, InFlight(h), NEW t \in Handler,
         handler' = [handler EXCEPT ![h] = t], t.pc # "idle",
         t.event = handler[h].event,
         t.pc = "save" => WellFormed(t.entity) /\ t.entity.customer = row.customer,
         UNCHANGED row \/ Savable(row', row),
         UNCHANGED <<claimed, checkout, gateway, acked, settled, effects>>,
         outages' \in 0 .. MaxOutages, losses' \in 0 .. MaxLosses
  PROVE  BillingInv'
<1>1. handler' \in [Handlers -> Handler] /\ handler'[h] = t
      /\ \A g \in Handlers : g # h => handler'[g] = handler[g]
  BY DEF BillingInv
<1>2. \A g \in Handlers : HandlerOK(g)'
  BY <1>1 DEF BillingInv, HandlerOK, InFlight
<1>3. OnceOK'
  BY <1>1 DEF BillingInv, OnceOK, InFlight
<1>4. CustomerOK'
  BY <1>1 DEF BillingInv, CustomerOK, Savable, gateway
<1>5. EventsOK' /\ TablesOK' /\ GatewayOK'
  BY DEF BillingInv, EventsOK, TablesOK, GatewayOK, Savable, WellFormed, gateway
<1> QED
  BY <1>1, <1>2, <1>3, <1>4, <1>5 DEF BillingInv

LEMMA GoToStep ==
  ASSUME BillingInv, NEW h \in Handlers, InFlight(h),
         NEW pc \in {"cancel", "pastdue", "announce", "emit", "release"}, GoTo(h, pc),
         UNCHANGED row \/ Savable(row', row),
         UNCHANGED <<claimed, checkout, gateway, effects>>,
         outages' \in 0 .. MaxOutages, losses' \in 0 .. MaxLosses
  PROVE  BillingInv'
<1> DEFINE t == [handler[h] EXCEPT !.pc = pc]
<1>1. t \in Handler /\ t.pc = pc /\ t.event = handler[h].event
  BY DEF BillingInv, Handler
<1>2. handler' = [handler EXCEPT ![h] = t] /\ UNCHANGED <<acked, settled>>
  BY DEF GoTo
<1> QED
  BY <1>1, <1>2, HandlerMoves

LEMMA ToSaveStep ==
  ASSUME BillingInv, NEW h \in Handlers, InFlight(h), NEW entity \in Subscription,
         NEW effect \in Effects, ToSave(h, entity, effect), WellFormed(entity),
         entity.customer = row.customer,
         UNCHANGED <<row, claimed, checkout, gateway, outages, losses, effects>>
  PROVE  BillingInv'
<1> DEFINE t == [handler[h] EXCEPT !.pc = "save", !.entity = entity, !.effect = effect]
<1>1. /\ t \in Handler /\ t.pc = "save" /\ t.event = handler[h].event
      /\ t.entity = entity
  BY DEF BillingInv, Handler
<1>2. handler' = [handler EXCEPT ![h] = t] /\ UNCHANGED <<acked, settled>>
  BY DEF ToSave, BillingInv
<1>3. outages' \in 0 .. MaxOutages /\ losses' \in 0 .. MaxLosses
  BY DEF BillingInv, TablesOK
<1> QED
  BY <1>1, <1>2, <1>3, HandlerMoves

(* The event is settled in the step that may leave its one effect.         *)
LEMMA DoneStep ==
  ASSUME BillingInv, NEW h \in Handlers, InFlight(h), Done(h),
         \/ UNCHANGED effects
         \/ effects' = [effects EXCEPT ![handler[h].event] = @ + 1],
         UNCHANGED row \/ Savable(row', row),
         UNCHANGED <<claimed, checkout, gateway, outages, losses>>
  PROVE  BillingInv'
<1> DEFINE e == handler[h].event
<1>1. e \in EventIds /\ e \in claimed /\ e \notin settled /\ e \in 1 .. Len(events)
  BY EventKnown
<1>2. /\ handler' \in [Handlers -> Handler] /\ handler'[h] = Idle
      /\ \A g \in Handlers : g # h => handler'[g] = handler[g]
      /\ settled' = settled \cup {e} /\ acked' = acked \cup {e}
  BY IdleHandler DEF BillingInv, Done
<1>3. \A g \in Handlers : g # h => handler[g].event # e
  BY DEF BillingInv, OnceOK, InFlight
<1>4. \A g \in Handlers : HandlerOK(g)'
  BY <1>2, <1>3, IdleHandler DEF BillingInv, HandlerOK
<1>5. \A f \in EventIds : f # e => effects'[f] = effects[f]
  BY <1>1 DEF BillingInv, TablesOK
<1>6. effects' \in [EventIds -> Nat] /\ effects'[e] <= 1
  BY <1>1 DEF BillingInv, TablesOK, OnceOK
<1>7. \A g \in Handlers : handler[g].pc # "idle" => handler[g].event \in EventIds
  BY EventKnown DEF InFlight
<1>8. OnceOK'
  <2>1. \A f \in EventIds : effects'[f] <= 1 /\ (f \notin settled' => effects'[f] = 0)
    BY <1>2, <1>5, <1>6 DEF BillingInv, OnceOK
  <2>2. \A g \in EventIds : g # 0
    BY DEF EventIds
  <2> QED
    BY <1>2, <1>7, <2>1, <2>2, IdleHandler DEF BillingInv, OnceOK
<1>9. EventsOK' /\ GatewayOK' /\ CustomerOK'
  BY <1>2, IdleHandler DEF BillingInv, EventsOK, GatewayOK, CustomerOK, Savable, gateway
<1>10. TablesOK'
  BY <1>1, <1>2, <1>6 DEF BillingInv, TablesOK, Savable, WellFormed, gateway
<1> QED
  BY <1>2, <1>4, <1>8, <1>9, <1>10 DEF BillingInv

-----------------------------------------------------------------------------
LEMMA EventDates ==
  ASSUME NEW e \in Event
  PROVE  /\ e.id \in Dates /\ e.id # 0 /\ e.at \in Dates /\ e.period \in Dates
         /\ e.ref \in References /\ e.customer \in References
  BY BillingAssumption DEF Event, EventIds, Dates, References

LEMMA Activates ==
  ASSUME NEW s \in Subscription, NEW e \in Event
  PROVE  /\ Savable(Activate(s, e), s)
         /\ \A p \in PaidPlans : Savable(Activate(ChangePlan(s, p), e), s)
<1>1. 0 \in Dates
  BY BillingAssumption DEF Dates
<1>2. ASSUME NEW t \in Subscription
      PROVE  Savable(Activate(t, e), t)
  BY <1>1, EventDates DEF Savable, Activate, Subscription, WellFormed
<1>3. ASSUME NEW p \in PaidPlans
      PROVE  ChangePlan(s, p) \in Subscription /\ ChangePlan(s, p).customer = s.customer
  BY <1>1 DEF ChangePlan, Subscription
<1> QED
  BY <1>2, <1>3 DEF Savable

LEMMA StartsTrial ==
  ASSUME NEW s \in Subscription, NEW e \in Event, NEW p \in PaidPlans
  PROVE  Savable(StartTrialUntil(ChangePlan(s, p), e), s)
<1>1. 0 \in Dates
  BY BillingAssumption DEF Dates
<1>2. ASSUME NEW t \in Subscription
      PROVE  Savable(StartTrialUntil(t, e), t)
  BY <1>1, EventDates DEF Savable, StartTrialUntil, Subscription, WellFormed
<1>3. ChangePlan(s, p) \in Subscription /\ ChangePlan(s, p).customer = s.customer
  BY <1>1 DEF ChangePlan, Subscription
<1> QED
  BY <1>2, <1>3 DEF Savable

LEMMA Cancels ==
  ASSUME NEW s \in Subscription, NEW e \in Event
  PROVE  Savable(CanceledBy(s, e), s)
<1> DEFINE until == CASE s.status = "past_due" -> s.grace
                      [] s.status # "past_due" /\ s.period # 0 -> s.period
                      [] OTHER -> IF s.trial # 0 THEN s.trial ELSE e.id
<1>1. until \in Dates
  BY EventDates DEF Subscription
<1>2. CanceledBy(s, e) = [s EXCEPT !.status = "canceled", !.eventAt = e.at, !.period = until]
  BY DEF CanceledBy, Subscription
<1> HIDE DEF until
<1> QED
  BY <1>1, <1>2, EventDates DEF Savable, Subscription, WellFormed

LEMMA FallsDue ==
  ASSUME NEW s \in Subscription, WellFormed(s), NEW e \in Event
  PROVE  Savable(PastDue(s, e), s)
  BY EventDates DEF Savable, PastDue, Subscription, WellFormed

-----------------------------------------------------------------------------
LEMMA ClaimStep ==
  ASSUME BillingInv, NEW h \in Handlers, NEW e \in DOMAIN events, Claim(h, e)
  PROVE  BillingInv'
<1> DEFINE t == [handler[h] EXCEPT !.pc = "dispatch", !.event = e]
<1>1. e \in 1 .. Len(events) /\ Len(events) \in Nat /\ Len(events) <= MaxEvents
  BY DEF BillingInv, EventsOK
<1>2. e \in Dates /\ e # 0 /\ e \notin claimed
  BY <1>1, BillingAssumption DEF Dates, Claim, Claimable
<1>3. t \in Handler /\ t.pc = "dispatch" /\ t.event = e
  BY <1>2 DEF BillingInv, Handler
<1>4. /\ handler' \in [Handlers -> Handler] /\ handler'[h] = t
      /\ \A g \in Handlers : g # h => handler'[g] = handler[g]
  BY <1>3 DEF BillingInv, Claim
<1>5. TablesOK'
  BY <1>1 DEF BillingInv, TablesOK, Claim, gateway, history
<1>6. claimed' = claimed \cup {e} /\ settled' = settled /\ settled \subseteq claimed
  BY DEF Claim, history, BillingInv, TablesOK
<1>7. \A g \in Handlers : HandlerOK(g)'
  BY <1>2, <1>3, <1>4, <1>6 DEF BillingInv, HandlerOK
<1>8. \A g \in Handlers : g # h => handler[g].event # e
  BY <1>2, IdleHandler DEF BillingInv, HandlerOK
<1>9. OnceOK'
  BY <1>3, <1>4, <1>8 DEF BillingInv, OnceOK, Claim, history
<1>10. EventsOK' /\ GatewayOK' /\ CustomerOK'
  BY <1>3, <1>4 DEF BillingInv, EventsOK, GatewayOK, CustomerOK, Claim, gateway
<1> QED
  BY <1>4, <1>5, <1>7, <1>9, <1>10 DEF BillingInv

LEMMA DuplicateStep ==
  ASSUME BillingInv, NEW h \in Handlers, NEW e \in DOMAIN events, Duplicate(h, e)
  PROVE  BillingInv'
<1>1. e \in 1 .. Len(events)
  BY DEF BillingInv, EventsOK
<1>2. TablesOK'
  BY <1>1 DEF BillingInv, TablesOK, Duplicate, gateway, history
<1>3. EventsOK' /\ GatewayOK' /\ CustomerOK' /\ OnceOK'
  BY DEF BillingInv, EventsOK, GatewayOK, CustomerOK, OnceOK, Duplicate, gateway, history
<1>4. handler' \in [Handlers -> Handler] /\ \A g \in Handlers : HandlerOK(g)'
  BY DEF BillingInv, HandlerOK, Duplicate, history
<1> QED
  BY <1>2, <1>3, <1>4 DEF BillingInv

LEMMA RowSavable == BillingInv => row \in Subscription /\ WellFormed(row) /\ Savable(row, row)
  BY DEF BillingInv, TablesOK, Savable

LEMMA SavesStep ==
  ASSUME BillingInv, NEW h \in Handlers, InFlight(h), NEW t, Savable(t, row),
         NEW effect \in Effects, ToSave(h, t, effect) \/ Announced(h, t, effect),
         UNCHANGED <<row, claimed, checkout, gateway, outages, losses, effects>>
  PROVE  BillingInv'
<1>1. "none" \in Effects
  BY DEF Effects
<1> QED
  BY <1>1, ToSaveStep DEF Savable, Announced

LEMMA DispatchStep ==
  ASSUME BillingInv, NEW h \in Handlers, Dispatch(h)
  PROVE  BillingInv'
<1> DEFINE e == EventOf(h)
           Kept == UNCHANGED <<row, claimed, checkout, gateway, outages, losses, effects>>
<1>1. InFlight(h) /\ Kept /\ e \in Event /\ row.customer \in Checkouts /\ e.customer = row.customer
  BY EventKnown DEF Dispatch, InFlight
<1>2. row \in Subscription /\ WellFormed(row) /\ Savable(row, row)
  BY RowSavable
<1>3. ASSUME Done(h) PROVE BillingInv'
  BY <1>1, <1>3, DoneStep
<1>4. ASSUME NEW pc \in {"cancel", "pastdue", "announce"}, GoTo(h, pc) PROVE BillingInv'
  <2>1. outages' \in 0 .. MaxOutages /\ losses' \in 0 .. MaxLosses
    BY <1>1 DEF BillingInv, TablesOK
  <2> QED
    BY <1>1, <1>4, <2>1, GoToStep
<1>5. ASSUME NEW t, Savable(t, row), NEW effect \in Effects,
             ToSave(h, t, effect) \/ Announced(h, t, effect)
      PROVE  BillingInv'
  BY <1>1, <1>5, SavesStep
<1>6. {"none", "plan_changed", "renewed"} \subseteq Effects
  BY DEF Effects
<1> HIDE DEF e, Kept
<1>7. ASSUME BindGatewayCustomer(h) PROVE BillingInv'
  <2>1. Savable(LinkCustomer(row, e.customer), row)
    BY <1>1, <1>2 DEF LinkCustomer, Savable, Subscription, WellFormed
  <2> QED
    BY <1>3, <1>5, <1>6, <1>7, <2>1 DEF BindGatewayCustomer, e
<1>8. ASSUME SyncSubscription(h) PROVE BillingInv'
  <2>1. Savable(Activate(row, e), row)
        /\ \A p \in PaidPlans : Savable(Activate(ChangePlan(row, p), e), row)
                             /\ Savable(StartTrialUntil(ChangePlan(row, p), e), row)
    BY <1>1, <1>2, Activates, StartsTrial
  <2>2. \A p \in ResolvePlan : p # None => p \in PaidPlans
    BY DEF ResolvePlan
  <2> QED
    BY <1>3, <1>4, <1>5, <1>6, <1>8, <2>1, <2>2 DEF SyncSubscription, e
<1>9. ASSUME SubscriptionEnded(h) \/ TrialWillEnd(h) \/ PaymentFailed(h) PROVE BillingInv'
  BY <1>3, <1>4, <1>9 DEF SubscriptionEnded, TrialWillEnd, PaymentFailed
<1> QED
  BY <1>7, <1>8, <1>9 DEF Dispatch

LEMMA CancelStep ==
  ASSUME BillingInv, NEW h \in Handlers, CancelSubscription(h)
  PROVE  BillingInv'
<1>1. InFlight(h) /\ EventOf(h) \in Event
  BY EventKnown DEF CancelSubscription, InFlight
<1>2. Savable(row, row) /\ Savable(CanceledBy(row, EventOf(h)), row)
  BY <1>1, RowSavable, Cancels
<1>3. {"none", "canceled"} \subseteq Effects
  BY DEF Effects
<1>4. \/ Done(h) \/ ToSave(h, row, "none")
      \/ ToSave(h, CanceledBy(row, EventOf(h)), "canceled")
  BY DEF CancelSubscription
<1>5. UNCHANGED <<row, claimed, checkout, gateway, outages, losses, effects>>
  BY DEF CancelSubscription
<1> QED
  BY <1>1, <1>2, <1>3, <1>4, <1>5, DoneStep, SavesStep

LEMMA PastDueStep ==
  ASSUME BillingInv, NEW h \in Handlers, MarkSubscriptionPastDue(h)
  PROVE  BillingInv'
<1>1. InFlight(h) /\ EventOf(h) \in Event
  BY EventKnown DEF MarkSubscriptionPastDue, InFlight
<1>2. Savable(PastDue(row, EventOf(h)), row)
  BY <1>1, RowSavable, FallsDue
<1>3. "payment_failed" \in Effects
  BY DEF Effects
<1>4. UNCHANGED <<row, claimed, checkout, gateway, outages, losses, effects>>
  BY DEF MarkSubscriptionPastDue
<1>5. outages' \in 0 .. MaxOutages /\ losses' \in 0 .. MaxLosses
  BY <1>4 DEF BillingInv, TablesOK
<1>6. GoTo(h, "release") \/ ToSave(h, PastDue(row, EventOf(h)), "payment_failed")
  BY DEF MarkSubscriptionPastDue
<1> QED
  BY <1>1, <1>2, <1>3, <1>4, <1>5, <1>6, GoToStep, SavesStep

LEMMA AnnounceStep ==
  ASSUME BillingInv, NEW h \in Handlers, AnnounceTrialEnding(h) \/ DispatchDomainEvent(h)
  PROVE  BillingInv'
<1>1. /\ InFlight(h) /\ Done(h)
      /\ UNCHANGED <<row, claimed, checkout, gateway, outages, losses>>
  BY DEF AnnounceTrialEnding, DispatchDomainEvent, InFlight
<1>2. \/ UNCHANGED effects
      \/ effects' = [effects EXCEPT ![handler[h].event] = @ + 1]
  BY DEF AnnounceTrialEnding, DispatchDomainEvent, Recorded
<1> QED
  BY <1>1, <1>2, DoneStep

LEMMA FailsStep ==
  ASSUME BillingInv, NEW h \in Handlers, DispatchFails(h)
  PROVE  BillingInv'
<1>1. InFlight(h) /\ GoTo(h, "release")
  BY DEF DispatchFails, InFlight
<1>2. outages' \in 0 .. MaxOutages /\ losses' \in 0 .. MaxLosses
  BY BillingAssumption DEF BillingInv, TablesOK, DispatchFails
<1>3. UNCHANGED <<row, claimed, checkout, gateway, effects>>
  BY DEF DispatchFails
<1> QED
  BY <1>1, <1>2, <1>3, GoToStep

(* save writes every column of the entity; the customer is the row's still.*)
LEMMA SaveStep ==
  ASSUME BillingInv, NEW h \in Handlers, Save(h)
  PROVE  BillingInv'
<1>1. InFlight(h) /\ row' = handler[h].entity
      /\ UNCHANGED <<claimed, checkout, gateway, outages, losses, effects>>
  BY DEF Save, InFlight
<1>2. /\ handler[h] \in Handler /\ WellFormed(handler[h].entity)
      /\ handler[h].entity.customer = row.customer
  BY DEF BillingInv, CustomerOK, HandlerOK, Save
<1>3. Savable(row', row)
  BY <1>1, <1>2 DEF Savable, Handler
<1>4. outages' \in 0 .. MaxOutages /\ losses' \in 0 .. MaxLosses
  BY <1>1 DEF BillingInv, TablesOK
<1>5. GoTo(h, "emit") \/ Done(h)
  BY DEF Save
<1> QED
  BY <1>1, <1>3, <1>4, <1>5, GoToStep, DoneStep

(* An event whose claim is released has left nothing behind.               *)
LEMMA ReleaseStep ==
  ASSUME BillingInv, NEW h \in Handlers, Release(h) \/ ReleaseFails(h)
  PROVE  BillingInv'
<1> DEFINE e == handler[h].event
<1>1. /\ e \in EventIds /\ e \in claimed /\ e \notin settled
      /\ handler[h].pc = "release" /\ InFlight(h)
  BY EventKnown DEF Release, ReleaseFails, InFlight
<1>2. /\ handler' \in [Handlers -> Handler] /\ handler'[h] = Idle
      /\ \A g \in Handlers : g # h => handler'[g] = handler[g]
  BY IdleHandler DEF BillingInv, Release, ReleaseFails
<1>3. UNCHANGED <<row, checkout, gateway, acked, settled, effects, outages>>
  BY DEF Release, ReleaseFails, history
<1>4. claimed' = claimed \ {e} \/ claimed' = claimed
  BY DEF Release, ReleaseFails, Unclaim
<1>5. losses' \in 0 .. MaxLosses
  BY BillingAssumption DEF BillingInv, TablesOK, Release, ReleaseFails
<1>6. \A g \in Handlers : g # h => handler[g].event # e
  BY <1>1 DEF BillingInv, OnceOK
<1>7. \A g \in Handlers : HandlerOK(g)'
  BY <1>2, <1>3, <1>4, <1>6, IdleHandler DEF BillingInv, HandlerOK
<1>8. TablesOK'
  BY <1>1, <1>3, <1>4, <1>5 DEF BillingInv, TablesOK, gateway
<1>9. \A g \in Handlers : handler[g].pc # "idle" => handler[g].event # 0
  BY EventKnown DEF InFlight, EventIds
<1>10. OnceOK'
  BY <1>2, <1>3, <1>9, IdleHandler DEF BillingInv, OnceOK
<1>11. EventsOK' /\ GatewayOK' /\ CustomerOK'
  BY <1>2, <1>3, IdleHandler DEF BillingInv, EventsOK, GatewayOK, CustomerOK, gateway
<1> QED
  BY <1>2, <1>7, <1>8, <1>10, <1>11 DEF BillingInv

LEMMA CrashStep ==
  ASSUME BillingInv, Crash
  PROVE  BillingInv'
<1>1. /\ handler' \in [Handlers -> Handler]
      /\ \A h \in Handlers : handler'[h] = Idle
  BY IdleHandler DEF Crash
<1>2. /\ checkout' \in [Checkouts -> Session]
      /\ \A c \in Checkouts :
            \/ checkout'[c] = checkout[c]
            \/ checkout[c].pc = "link" /\ checkout'[c].pc = "idle"
  BY DEF BillingInv, CustomerOK, Crash, Session
<1>3. EventsOK' /\ GatewayOK' /\ CustomerOK'
  BY <1>1, <1>2, IdleHandler
     DEF BillingInv, EventsOK, GatewayOK, CustomerOK, Crash, gateway, Opened
<1>4. TablesOK' /\ OnceOK'
  BY <1>1, IdleHandler, BillingAssumption
     DEF BillingInv, TablesOK, OnceOK, Crash, gateway, history
<1>5. \A h \in Handlers : HandlerOK(h)'
  BY <1>1, IdleHandler DEF HandlerOK
<1> QED
  BY <1>1, <1>3, <1>4, <1>5 DEF BillingInv

LEMMA BillingStep == BillingInv /\ [Next]_vars => BillingInv'
<1> SUFFICES ASSUME BillingInv, [Next]_vars PROVE BillingInv'
  OBVIOUS
<1>1. ASSUME NEW h \in Handlers, Work(h) PROVE BillingInv'
  BY <1>1, DispatchStep, CancelStep, PastDueStep, AnnounceStep, SaveStep, ReleaseStep DEF Work
<1>2. CASE UNCHANGED vars
  BY <1>2 DEF BillingInv, EventsOK, TablesOK, GatewayOK, CustomerOK, OnceOK, HandlerOK,
              vars, gateway, history
<1> QED
  BY <1>1, <1>2, CheckoutReadStep, CheckoutLinkStep, PayStep, CompleteStep, GatewayStepStep,
     FailsStep, ReleaseStep, ClaimStep, DuplicateStep, CrashStep DEF Next, Delivery

LEMMA BillingAlways == Spec => []BillingInv
  BY InitBilling, BillingStep, PTL DEF Spec

(* TypeOK: the row can always be saved again, and a handler in flight holds*)
(* the claim of its event.                                                 *)
THEOREM TypeCorrect == Spec => []TypeOK
<1>1. BillingInv => TypeOK
  <2> SUFFICES ASSUME BillingInv PROVE TypeOK
    OBVIOUS
  <2>1. Len(events) \in Nat /\ 1 .. Len(events) \subseteq EventIds /\ DOMAIN events = 1 .. Len(events)
    BY BillingAssumption DEF BillingInv, EventsOK, EventIds
  <2>2. claimed \subseteq EventIds /\ acked \subseteq EventIds
    BY <2>1 DEF BillingInv, TablesOK
  <2>3. \A i \in DOMAIN events : events[i] \in Event /\ events[i].id = i
    BY <2>1 DEF BillingInv, EventsOK
  <2> QED
    BY <2>2, <2>3 DEF BillingInv, TypeOK, TablesOK, GatewayOK, CustomerOK, HandlerOK
<1> QED
  BY <1>1, BillingAlways, PTL

(* AppliedOnce: however often an event is delivered and retried, one       *)
(* request at a time works on it and it leaves at most one effect.         *)
THEOREM AppliedOnceCorrect == Spec => []AppliedOnce
<1>1. BillingInv => AppliedOnce
  BY DEF BillingInv, OnceOK, AppliedOnce
<1> QED
  BY <1>1, BillingAlways, PTL

(* SessionsShareCustomer: every session ever opened belongs to the customer*)
(* the row is bound to; concurrent checkouts, webhooks holding older copies*)
(* of the row and crashes never rebind it.                                 *)
THEOREM CustomerCorrect == Spec => []SessionsShareCustomer
<1>1. BillingInv => SessionsShareCustomer
  BY DEF BillingInv, CustomerOK, Opened, SessionsShareCustomer
<1> QED
  BY <1>1, BillingAlways, PTL

-----------------------------------------------------------------------------
(* One webhook request of the account at a time: between its reads and its *)
(* save nobody else writes the row but a checkout, and that only a customer*)
(* where there was none.                                                   *)
Ended(ref) == ref # None /\ gw[ref].st = "ended"
EndKinds == {"canceled", "ended"}

CancelsFollow ==
    /\ row.status = "canceled" => Ended(row.ref)
    /\ \A i \in 1 .. Len(events) : events[i].kind \in EndKinds => Ended(events[i].ref)
    /\ \A h \in Handlers :
          /\ handler[h].pc = "cancel" =>
                row.ref = EventOf(h).ref /\ EventOf(h).kind \in EndKinds
          /\ handler[h].pc = "save" /\ handler[h].entity.status = "canceled" =>
                Ended(handler[h].entity.ref)

LEMMA EndedStays ==
  ASSUME BillingInv, [Next]_vars, NEW ref \in References, Ended(ref)
  PROVE  Ended(ref)'
<1>1. ref \in Checkouts /\ gw[ref].st = "ended"
  BY DEF Ended, References
<1>2. ASSUME NEW c \in Checkouts, Pay(c) PROVE gw'[ref] = gw[ref]
  BY <1>1, <1>2 DEF Pay, BillingInv, GatewayOK
<1>3. ASSUME NEW c \in Checkouts, GatewayStep(c) PROVE gw'[ref] = gw[ref]
  BY <1>1, <1>3 DEF GatewayStep, BillingInv, GatewayOK
<1>4. UNCHANGED gw => gw'[ref] = gw[ref]
  OBVIOUS
<1>5. gw'[ref] = gw[ref]
  BY <1>2, <1>3, <1>4
     DEF Next, CheckoutRead, CheckoutLink, CompleteSession, Work, Dispatch, CancelSubscription,
         MarkSubscriptionPastDue, AnnounceTrialEnding, Save, DispatchDomainEvent, Release,
         DispatchFails, ReleaseFails, Delivery, Claim, Duplicate, Crash, gateway, vars
<1> QED
  BY <1>1, <1>5 DEF Ended

(* Neither the row nor a handler changes.                                  *)
LEMMA OthersFollow ==
  ASSUME BillingInv, CancelsFollow, [Next]_vars, UNCHANGED handler,
         row'.status = row.status, row'.ref = row.ref,
         Len(events') >= Len(events), Len(events') \in Nat,
         \A i \in 1 .. Len(events) : events'[i] = events[i],
         \A i \in 1 .. Len(events') : i \notin 1 .. Len(events) =>
            (events'[i].kind \in EndKinds => Ended(events[i].ref)')
  PROVE  CancelsFollow'
<1>1. row.ref \in References /\ \A h \in Handlers : handler[h].entity.ref \in References
  BY DEF BillingInv, TablesOK, Subscription, Handler
<1>2. ASSUME NEW i \in 1 .. Len(events) PROVE events[i].ref \in References
  <2>1. events[i] \in Event
    BY DEF BillingInv, EventsOK
  <2> QED
    BY <2>1, EventDates
<1>3. row'.status = "canceled" => Ended(row.ref)'
  BY <1>1, EndedStays DEF CancelsFollow
<1>4. ASSUME NEW i \in 1 .. Len(events'), events'[i].kind \in EndKinds PROVE Ended(events[i].ref)'
  BY <1>2, <1>4, EndedStays DEF CancelsFollow
<1>5. ASSUME NEW h \in Handlers
      PROVE  /\ handler'[h].pc = "cancel" =>
                   row'.ref = EventOf(h)'.ref /\ EventOf(h)'.kind \in EndKinds
             /\ handler'[h].pc = "save" /\ handler'[h].entity.status = "canceled" =>
                   Ended(handler[h].entity.ref)'
  <2>1. handler[h].pc = "cancel" => EventOf(h)' = EventOf(h)
    BY EventKnown DEF InFlight, EventOf
  <2> QED
    BY <1>1, <2>1, EndedStays DEF CancelsFollow
<1> QED
  BY <1>3, <1>4, <1>5 DEF CancelsFollow

LEMMA GatewayFollows ==
  ASSUME BillingInv, CancelsFollow, [Next]_vars, NEW c \in Checkouts,
         Pay(c) \/ CompleteSession(c) \/ GatewayStep(c)
  PROVE  CancelsFollow'
<1>1. c # None
  BY BillingAssumption
<1>2. PICK kind \in Kinds, period \in EventIds :
         /\ Emit(c, kind, period) /\ checkout[c].pc \in Opened
         /\ kind \in EndKinds => gw'[c].st = "ended"
  <2>1. CASE Pay(c)
    <3>1. gw'[c].period = Len(events) + 1 /\ Len(events) + 1 \in EventIds
      BY <2>1, BillingAssumption DEF Pay, BillingInv, GatewayOK, EventsOK, Emit, EventIds
    <3>2. /\ {"trialing", "active"} \subseteq Kinds /\ {"trialing", "active"} \cap EndKinds = {}
          /\ checkout[c].pc \in Opened
      BY <2>1 DEF Kinds, EndKinds, Pay, Opened
    <3> QED
      BY <2>1, <3>1, <3>2 DEF Pay
  <2>2. CASE CompleteSession(c)
    <3>1. Len(events) + 1 \in EventIds
      BY <2>2, BillingAssumption DEF CompleteSession, BillingInv, EventsOK, Emit, EventIds
    <3>2. "checkout" \in Kinds /\ "checkout" \notin EndKinds /\ checkout[c].pc \in Opened
      BY <2>2 DEF Kinds, EndKinds, CompleteSession, Opened
    <3> QED
      BY <2>2, <3>1, <3>2 DEF CompleteSession
  <2>3. CASE GatewayStep(c)
    <3>1. PICK kind \in Steps :
         /\ gw' = [gw EXCEPT
                ![c].st = IF kind \in {"ended", "canceled"} THEN "ended" ELSE @,
                ![c].period = IF kind = "active" THEN Len(events) + 1 ELSE @]
         /\ Emit(c, kind, gw'[c].period)
      BY <2>3 DEF GatewayStep
    <3>2. Len(events) + 1 \in EventIds /\ kind \in Kinds
      BY <3>1, BillingAssumption DEF BillingInv, EventsOK, Emit, EventIds, Kinds
    <3>3. gw[c].period \in EventIds /\ checkout[c].pc \in Opened /\ gw[c].period \in Dates
      <4>1. gw[c].period \in Dates /\ gw[c].period # 0 /\ checkout[c].pc \in Opened
        BY <2>3 DEF BillingInv, GatewayOK, GatewayStep, Opened
      <4> QED
        BY <4>1, BillingAssumption DEF Dates, EventIds
    <3>4. gw'[c].period \in EventIds /\ (kind \in EndKinds => gw'[c].st = "ended")
      BY <3>1, <3>2, <3>3 DEF BillingInv, GatewayOK, EndKinds
    <3> QED
      BY <3>1, <3>2, <3>3, <3>4
  <2> QED
    BY <2>1, <2>2, <2>3
<1>3. /\ EventsOK' /\ Len(events') = Len(events) + 1
      /\ \A i \in 1 .. Len(events) : events'[i] = events[i]
      /\ events'[Len(events')].kind = kind /\ events'[Len(events')].ref = c
  BY <1>2, EmitAppends
<1>4. Len(events) \in Nat
  BY DEF BillingInv, EventsOK
<1>5. \A i \in 1 .. Len(events') : i \notin 1 .. Len(events) =>
         (events'[i].kind \in EndKinds => Ended(events[i].ref)')
  BY <1>1, <1>2, <1>3, <1>4 DEF Ended
<1>6. UNCHANGED <<row, handler>>
  BY DEF Pay, CompleteSession, GatewayStep
<1> QED
  BY <1>3, <1>4, <1>5, <1>6, OthersFollow

LEMMA CheckoutFollows ==
  ASSUME BillingInv, CancelsFollow, [Next]_vars, NEW c \in Checkouts,
         CheckoutRead(c) \/ CheckoutLink(c)
  PROVE  CancelsFollow'
<1>1. row'.status = row.status /\ row'.ref = row.ref
  BY DEF CheckoutRead, CheckoutLink, LinkIfAbsent, BillingInv, TablesOK, Subscription
<1>2. UNCHANGED <<handler, events>> /\ Len(events) \in Nat
  BY DEF CheckoutRead, CheckoutLink, gateway, BillingInv, EventsOK
<1> QED
  BY <1>1, <1>2, OthersFollow

OneRequest == \A g, h \in Handlers : g = h

(* A step of the only request: what it leaves in the row and in its hands. *)
LEMMA RequestFollows ==
  ASSUME OneRequest, CancelsFollow, NEW h \in Handlers, UNCHANGED gateway,
         row'.status = "canceled" => Ended(row'.ref),
         handler'[h].pc = "cancel" =>
            row'.ref = EventOf(h)'.ref /\ EventOf(h)'.kind \in EndKinds,
         handler'[h].pc = "save" /\ handler'[h].entity.status = "canceled" =>
            Ended(handler'[h].entity.ref)
  PROVE  CancelsFollow'
  BY DEF OneRequest, CancelsFollow, Ended, gateway

LEMMA DoneFollows ==
  ASSUME OneRequest, BillingInv, CancelsFollow, NEW h \in Handlers,
         UNCHANGED <<gateway, row>>, handler' = [handler EXCEPT ![h] = Idle]
  PROVE  CancelsFollow'
<1>1. handler'[h].pc = "idle"
  BY IdleHandler DEF BillingInv
<1> QED
  BY <1>1, RequestFollows DEF CancelsFollow

LEMMA MovesFollow ==
  ASSUME OneRequest, BillingInv, CancelsFollow, NEW h \in Handlers,
         NEW pc \in {"cancel", "pastdue", "announce", "emit", "release"}, GoTo(h, pc),
         UNCHANGED <<gateway, row>>,
         pc = "cancel" => row.ref = EventOf(h).ref /\ EventOf(h).kind \in EndKinds
  PROVE  CancelsFollow'
<1>1. handler'[h].pc = pc /\ handler'[h].event = handler[h].event
  BY DEF GoTo, BillingInv, Handler
<1>2. EventOf(h)' = EventOf(h)
  BY <1>1 DEF EventOf, gateway
<1> QED
  BY <1>1, <1>2, RequestFollows DEF CancelsFollow

LEMMA SavesFollow ==
  ASSUME OneRequest, BillingInv, CancelsFollow, NEW h \in Handlers, NEW t \in Subscription,
         NEW effect, ToSave(h, t, effect) \/ Announced(h, t, effect),
         UNCHANGED <<gateway, row>>, t.status = "canceled" => Ended(t.ref)
  PROVE  CancelsFollow'
<1>1. handler'[h].pc = "save" /\ handler'[h].entity = t
  BY DEF ToSave, Announced, BillingInv, Handler
<1> QED
  BY <1>1, RequestFollows DEF CancelsFollow

LEMMA DispatchFollows ==
  ASSUME OneRequest, BillingInv, CancelsFollow, NEW h \in Handlers, Dispatch(h)
  PROVE  CancelsFollow'
<1> DEFINE e == EventOf(h)
<1>1. InFlight(h) /\ e \in Event /\ row \in Subscription
  BY EventKnown DEF Dispatch, InFlight, BillingInv, TablesOK
<1>2. UNCHANGED <<gateway, row>>
  BY DEF Dispatch
<1>3. ASSUME Done(h) PROVE CancelsFollow'
  BY <1>2, <1>3, DoneFollows DEF Done
<1>4. ASSUME NEW pc \in {"pastdue", "announce"}, GoTo(h, pc) PROVE CancelsFollow'
  BY <1>2, <1>4, MovesFollow
<1>5. ASSUME GoTo(h, "cancel"), Terminable(e), e.kind \in EndKinds PROVE CancelsFollow'
  BY <1>2, <1>5, MovesFollow DEF Terminable, Referenced
<1>6. ASSUME NEW t, Savable(t, row), t.status # "canceled", NEW effect,
             ToSave(h, t, effect) \/ Announced(h, t, effect)
      PROVE  CancelsFollow'
  BY <1>2, <1>6, SavesFollow DEF Savable
<1>7. /\ "canceled" \in EndKinds /\ "ended" \in EndKinds
  BY DEF EndKinds
<1> HIDE DEF e
<1>8. ASSUME BindGatewayCustomer(h) PROVE CancelsFollow'
  <2>1. /\ LinkCustomer(row, e.customer) \in Subscription
        /\ LinkCustomer(row, e.customer).status = row.status
        /\ LinkCustomer(row, e.customer).ref = row.ref
    BY <1>1, EventDates DEF LinkCustomer, Subscription
  <2>2. ASSUME ToSave(h, LinkCustomer(row, e.customer), "none") PROVE CancelsFollow'
    BY <1>2, <2>1, <2>2, SavesFollow DEF CancelsFollow
  <2> QED
    BY <1>3, <1>8, <2>2 DEF BindGatewayCustomer, e
<1>9. ASSUME SyncSubscription(h) PROVE CancelsFollow'
  <2>1. ASSUME NEW s \in Subscription
        PROVE  /\ Savable(Activate(s, e), s) /\ Activate(s, e).status # "canceled"
               /\ \A p \in PaidPlans :
                     /\ Savable(Activate(ChangePlan(s, p), e), s)
                     /\ Activate(ChangePlan(s, p), e).status # "canceled"
                     /\ Savable(StartTrialUntil(ChangePlan(s, p), e), s)
                     /\ StartTrialUntil(ChangePlan(s, p), e).status # "canceled"
    BY <1>1, Activates, StartsTrial DEF Activate, ChangePlan, StartTrialUntil, Subscription
  <2>2. \A p \in ResolvePlan : p # None => p \in PaidPlans
    BY DEF ResolvePlan
  <2> QED
    BY <1>1, <1>3, <1>5, <1>6, <1>7, <1>9, <2>1, <2>2 DEF SyncSubscription, e
<1>10. ASSUME SubscriptionEnded(h) \/ TrialWillEnd(h) \/ PaymentFailed(h) PROVE CancelsFollow'
  BY <1>3, <1>4, <1>5, <1>7, <1>10 DEF SubscriptionEnded, TrialWillEnd, PaymentFailed, e
<1> QED
  BY <1>8, <1>9, <1>10 DEF Dispatch

LEMMA CancelFollows ==
  ASSUME OneRequest, BillingInv, CancelsFollow, NEW h \in Handlers, CancelSubscription(h)
  PROVE  CancelsFollow'
<1> DEFINE e == EventOf(h)
<1>1. InFlight(h) /\ e \in Event /\ row \in Subscription /\ handler[h].event \in 1 .. Len(events)
  BY EventKnown DEF CancelSubscription, InFlight, BillingInv, TablesOK
<1>2. UNCHANGED <<gateway, row>>
  BY DEF CancelSubscription
<1>3. row.ref = e.ref /\ Ended(e.ref)
  BY <1>1 DEF CancelsFollow, CancelSubscription, EventOf
<1>4. CanceledBy(row, e) \in Subscription /\ CanceledBy(row, e).ref = row.ref
  BY <1>1, Cancels DEF Savable, CanceledBy, Subscription
<1>5. Done(h) \/ ToSave(h, row, "none") \/ ToSave(h, CanceledBy(row, e), "canceled")
  BY DEF CancelSubscription
<1>6. ASSUME Done(h) PROVE CancelsFollow'
  BY <1>2, <1>6, DoneFollows DEF Done
<1> QED
  BY <1>1, <1>2, <1>3, <1>4, <1>5, <1>6, SavesFollow

LEMMA WorkFollows ==
  ASSUME OneRequest, BillingInv, CancelsFollow, NEW h \in Handlers,
         \/ MarkSubscriptionPastDue(h) \/ AnnounceTrialEnding(h)
         \/ DispatchDomainEvent(h) \/ DispatchFails(h)
         \/ Release(h) \/ ReleaseFails(h)
  PROVE  CancelsFollow'
<1>1. UNCHANGED <<gateway, row>>
  BY DEF MarkSubscriptionPastDue, AnnounceTrialEnding, DispatchDomainEvent, DispatchFails,
         Release, ReleaseFails
<1>2. ASSUME MarkSubscriptionPastDue(h) PROVE CancelsFollow'
  <2>1. EventOf(h) \in Event /\ row \in Subscription /\ WellFormed(row)
    BY <1>2, EventKnown DEF MarkSubscriptionPastDue, InFlight, BillingInv, TablesOK
  <2>2. PastDue(row, EventOf(h)) \in Subscription /\ PastDue(row, EventOf(h)).status # "canceled"
    BY <2>1, FallsDue DEF Savable, PastDue, Subscription
  <2> QED
    BY <1>1, <1>2, <2>2, MovesFollow, SavesFollow DEF MarkSubscriptionPastDue
<1>3. ASSUME DispatchFails(h) PROVE CancelsFollow'
  BY <1>1, <1>3, MovesFollow DEF DispatchFails
<1>4. ASSUME \/ AnnounceTrialEnding(h) \/ DispatchDomainEvent(h)
             \/ Release(h) \/ ReleaseFails(h)
      PROVE  CancelsFollow'
  BY <1>1, <1>4, DoneFollows
     DEF AnnounceTrialEnding, DispatchDomainEvent, Release, ReleaseFails, Done
<1> QED
  BY <1>2, <1>3, <1>4

LEMMA SaveFollows ==
  ASSUME OneRequest, BillingInv, CancelsFollow, NEW h \in Handlers, Save(h)
  PROVE  CancelsFollow'
<1>1. row' = handler[h].entity /\ handler[h].pc = "save" /\ UNCHANGED gateway
  BY DEF Save
<1>2. handler'[h].pc \in {"emit", "idle"}
  BY IdleHandler DEF Save, GoTo, Done, BillingInv, Handler
<1> QED
  BY <1>1, <1>2, RequestFollows DEF CancelsFollow

LEMMA DeliveryFollows ==
  ASSUME OneRequest, BillingInv, CancelsFollow, NEW h \in Handlers, NEW e, Delivery(h, e)
  PROVE  CancelsFollow'
<1>1. UNCHANGED <<gateway, row>>
  BY DEF Delivery, Claim, Duplicate
<1>2. handler'[h].pc \in {"dispatch", "idle"}
  BY IdleHandler DEF Delivery, Claim, Duplicate, BillingInv, Handler
<1> QED
  BY <1>1, <1>2, RequestFollows DEF CancelsFollow

LEMMA CancelsFollowStep ==
  ASSUME OneRequest
  PROVE  BillingInv /\ CancelsFollow /\ [Next]_vars => CancelsFollow'
<1> SUFFICES ASSUME BillingInv, CancelsFollow, [Next]_vars PROVE CancelsFollow'
  OBVIOUS
<1>1. CASE UNCHANGED vars
  BY <1>1 DEF vars, CancelsFollow, Ended, EventOf, gateway
<1>2. CASE Crash
  <2>1. \A h \in Handlers : handler'[h].pc = "idle"
    BY <1>2, IdleHandler DEF Crash
  <2> QED
    BY <1>2, <2>1 DEF Crash, CancelsFollow, Ended, gateway
<1>3. ASSUME NEW h \in Handlers, Work(h) PROVE CancelsFollow'
  BY <1>3, DispatchFollows, CancelFollows, WorkFollows, SaveFollows DEF Work
<1> QED
  BY <1>1, <1>2, <1>3, CheckoutFollows, GatewayFollows, WorkFollows, DeliveryFollows DEF Next

(* CanceledMeansEnded, for webhooks of the account handled one at a time:  *)
(* only the end of the gateway subscription the row follows cancels it.    *)
(* With two in flight it fails (ResubscriptionSurvives).                   *)
THEOREM CanceledCorrect ==
  ASSUME OneRequest
  PROVE  Spec => []CanceledMeansEnded
<1>1. Init => CancelsFollow
  BY IdleHandler DEF Init, CancelsFollow, FreeSubscription
<1>2. CancelsFollow => CanceledMeansEnded
  BY DEF CancelsFollow, CanceledMeansEnded, Ended
<1> QED
  BY <1>1, <1>2, CancelsFollowStep, BillingAlways, PTL DEF Spec
=============================================================================
