--------------------------- MODULE GatewayBilling ---------------------------
(***************************************************************************)
(* One account's subscription row and the payment gateway's webhooks: the  *)
(* gateway delivers each event at least once and in any order, requests    *)
(* claim an event in processed_gateway_events, read the row, and write all *)
(* of it back; checkouts of the same account run beside them.              *)
(*                                                                         *)
(* Identities stand for dates and references: a checkout names the gateway *)
(* subscription paid through it and the gateway customer it created, and a *)
(* period, trial or grace end is the number of the event that set it.      *)
(***************************************************************************)
EXTENDS Naturals, Sequences

CONSTANTS
    Checkouts,          \* CreateCheckoutSession requests of the account
    Handlers,           \* webhook requests that may be in flight at once
    PaidPlans,          \* plans with a gateway price
    None,               \* a null reference
    Steps,              \* bound: kinds of event a live subscription emits
    MaxEvents, MaxTime, \* bounds: gateway events and their times,
    MaxOutages, MaxLosses   \* failed dispatches, claims left behind

ASSUME BillingAssumption ==
    /\ MaxEvents \in Nat /\ MaxTime \in 1 .. MaxEvents
    /\ MaxOutages \in Nat /\ MaxLosses \in Nat
    /\ None \notin Checkouts \cup PaidPlans /\ "free" \notin PaidPlans
    /\ Steps \subseteq {"active", "canceled", "other", "ended",
                        "trial_will_end", "payment_failed"}

VARIABLES
    row,        \* the account's row of subscriptions
    claimed,    \* processed_gateway_events
    handler,    \* webhook requests in flight
    checkout,   \* checkout requests, then the sessions they opened
    gw,         \* the gateway's subscriptions
    events,     \* what the gateway has emitted
    acked,      \* events the gateway got a 2xx for
    outages, losses,    \* how much of the bounds is used up
    \* History variables, read by the properties only:
    settled,    \* events whose dispatch returned
    effects     \* domain events each gateway event gave rise to

vars == <<row, claimed, handler, checkout, gw, events, acked, outages, losses,
          settled, effects>>
gateway == <<gw, events>>
history == <<settled, effects>>

-----------------------------------------------------------------------------
References == Checkouts \cup {None}
EventIds == 1 .. MaxEvents
Dates == 0 .. MaxEvents        \* 0 is null

Subscription ==
    [plan : PaidPlans \cup {"free"},
     status : {"trialing", "active", "past_due", "canceled"},
     period : Dates, trial : Dates, grace : Dates,
     ref : References, customer : References, eventAt : Dates]

Kinds == {"checkout", "trialing", "active", "canceled", "other", "ended",
          "trial_will_end", "payment_failed"}
Event == [id : EventIds, kind : Kinds, ref : Checkouts, customer : Checkouts,
          at : EventIds, period : EventIds]

(* What a saved change is announced as: the domain event of the same name. *)
Effects == {"none", "plan_changed", "renewed", "canceled", "payment_failed"}
Handler == [pc : {"idle", "dispatch", "cancel", "pastdue", "announce",
                  "save", "emit", "release"},
            event : Dates, entity : Subscription, effect : Effects]

FreeSubscription ==
    [plan |-> "free", status |-> "active", period |-> 0, trial |-> 0,
     grace |-> 0, ref |-> None, customer |-> None, eventAt |-> 0]
Idle == [pc |-> "idle", event |-> 0, entity |-> FreeSubscription,
         effect |-> "none"]

(* A checkout and the session it opens: the customer it charges, and       *)
(* whether it offers a trial.                                              *)
Session == [pc : {"idle", "link", "open", "paid", "completed"},
            customer : References, trial : BOOLEAN]

(* The refinements of subscriptionSchema, which an entity must satisfy to  *)
(* be saved.                                                               *)
WellFormed(s) == /\ s.status = "trialing" => s.trial # 0
                 /\ s.status = "past_due" => s.grace # 0

TypeOK ==
    /\ row \in Subscription /\ WellFormed(row)
    /\ claimed \subseteq EventIds /\ acked \subseteq EventIds
    /\ settled \subseteq claimed
    /\ handler \in [Handlers -> Handler]
    /\ \A h \in Handlers :
          handler[h].pc # "idle" => handler[h].event \in claimed
    /\ checkout \in [Checkouts -> Session]
    /\ gw \in [Checkouts -> [st : {"none", "live", "ended"}, period : Dates]]
    /\ \A i \in DOMAIN events : events[i] \in Event /\ events[i].id = i
    /\ outages \in 0 .. MaxOutages /\ losses \in 0 .. MaxLosses
    /\ effects \in [EventIds -> Nat]

Init ==
    /\ row = FreeSubscription       \* EnsureFreeSubscription at registration
    /\ claimed = {} /\ acked = {} /\ settled = {}
    /\ handler = [h \in Handlers |-> Idle]
    /\ checkout = [c \in Checkouts |->
                      [pc |-> "idle", customer |-> None, trial |-> FALSE]]
    /\ gw = [c \in Checkouts |-> [st |-> "none", period |-> 0]]
    /\ events = <<>>
    /\ outages = 0 /\ losses = 0
    /\ effects = [e \in EventIds |-> 0]

-----------------------------------------------------------------------------
(* Checkout.                                                               *)

Live(s) == s.ref # None /\ s.status \in {"trialing", "active", "past_due"}

(* The first trial, if the plan has trial_days. *)
OffersTrial(s) == IF s.trial = 0 THEN BOOLEAN ELSE {FALSE}

CheckoutRead(c) ==
    /\ checkout[c].pc = "idle" /\ ~Live(row)
    /\ \E trial \in OffersTrial(row) :
          checkout' = [checkout EXCEPT ![c] =
             [pc |-> IF row.customer = None THEN "link" ELSE "open",
              customer |-> row.customer, trial |-> trial]]
    /\ UNCHANGED <<row, claimed, handler, gateway, acked, outages, losses,
                   history>>

(* Fault: the customer just created is used whoever linked first. *)
LinkOverwriting(c) ==
    /\ row' = [row EXCEPT !.customer = c]
    /\ checkout' = [checkout EXCEPT ![c].pc = "open", ![c].customer = c]
(* The customer created at the gateway is linked only if none is. *)
LinkIfAbsent(c) ==
    /\ row' = [row EXCEPT !.customer = IF @ = None THEN c ELSE @]
    /\ checkout' = [checkout EXCEPT ![c].pc = "open",
                                    ![c].customer = row'.customer]

CheckoutLink(c) ==
    /\ checkout[c].pc = "link"
    /\ LinkIfAbsent(c)
    /\ UNCHANGED <<claimed, handler, gateway, acked, outages, losses, history>>

-----------------------------------------------------------------------------
(* The gateway.  Events of one second carry the same time.                 *)

LastTime == IF events = <<>> THEN 1 ELSE events[Len(events)].at

Emit(c, kind, period) ==
    LET id == Len(events) + 1
    IN  /\ id <= MaxEvents
        /\ \E at \in {LastTime, LastTime + 1} \cap 1 .. MaxTime :
              events' = Append(events,
                 [id |-> id, kind |-> kind, ref |-> c, at |-> at,
                  customer |-> checkout[c].customer, period |-> period])

(* The session is paid: the subscription starts, with a trial if offered, *)
(* and the session completes.                                             *)
Pay(c) ==
    /\ checkout[c].pc = "open"
    /\ checkout' = [checkout EXCEPT ![c].pc = "paid"]
    /\ gw' = [gw EXCEPT ![c] = [st |-> "live", period |-> Len(events) + 1]]
    /\ Emit(c, IF checkout[c].trial THEN "trialing" ELSE "active",
            gw'[c].period)
    /\ UNCHANGED <<row, claimed, handler, acked, outages, losses, history>>
CompleteSession(c) ==
    /\ checkout[c].pc = "paid"
    /\ checkout' = [checkout EXCEPT ![c].pc = "completed"]
    /\ Emit(c, "checkout", Len(events) + 1)
    /\ UNCHANGED <<row, claimed, handler, gw, acked, outages, losses, history>>

(* A live subscription renews, changes, fails to be paid, or ends. *)
GatewayStep(c) ==
    /\ gw[c].st = "live"
    /\ \E kind \in Steps :
          /\ gw' = [gw EXCEPT
                ![c].st = IF kind \in {"ended", "canceled"} THEN "ended"
                                                            ELSE @,
                ![c].period = IF kind = "active" THEN Len(events) + 1 ELSE @]
          /\ Emit(c, kind, gw'[c].period)
    /\ UNCHANGED <<row, claimed, handler, checkout, acked, outages, losses,
                   history>>

-----------------------------------------------------------------------------
(* A webhook request: claim, then dispatch.                                *)

(* Fault: the unique event id is not looked at. *)
ClaimableAlways(e) == TRUE
Claimable(e) == e \notin claimed

Claim(h, e) ==
    /\ handler[h] = Idle /\ e \notin acked /\ Claimable(e)
    /\ claimed' = claimed \cup {e}
    /\ handler' = [handler EXCEPT ![h].pc = "dispatch", ![h].event = e]
    /\ UNCHANGED <<row, checkout, gateway, acked, outages, losses, history>>

(* A delivery that finds the claim taken is answered 2xx at once. *)
Duplicate(h, e) ==
    /\ handler[h] = Idle /\ e \notin acked /\ e \in claimed
    /\ acked' = acked \cup {e}
    /\ UNCHANGED <<row, claimed, handler, checkout, gateway, outages, losses,
                   history>>

EventOf(h) == events[handler[h].event]

GoTo(h, pc) ==
    /\ handler' = [handler EXCEPT ![h].pc = pc]
    /\ UNCHANGED <<acked, settled>>
ToSave(h, entity, effect) ==
    /\ handler' = [handler EXCEPT ![h].pc = "save", ![h].entity = entity,
                                  ![h].effect = effect]
    /\ UNCHANGED <<acked, settled>>
Done(h) ==
    /\ handler' = [handler EXCEPT ![h] = Idle]
    /\ acked' = acked \cup {handler[h].event}
    /\ settled' = settled \cup {handler[h].event}

Fresh(e) == row.eventAt <= e.at

Referenced(e) == row.ref = e.ref
Resolved(e) == Referenced(e) \/ row.customer = e.customer
(* Fault: a termination falls back on the customer too. *)
TerminableByCustomer(e) == Resolved(e) /\ Fresh(e)
Terminable(e) == Referenced(e) /\ Fresh(e)

LinkableTo(s, customer) == s.customer \in {None, customer}
LinkCustomer(s, customer) == [s EXCEPT !.customer = customer]

BindGatewayCustomer(h) ==
    LET e == EventOf(h)
    IN  /\ e.kind = "checkout"
        /\ IF LinkableTo(row, e.customer)
           THEN ToSave(h, LinkCustomer(row, e.customer), "none")
           ELSE Done(h)

Activate(s, e) ==
    [s EXCEPT !.status = "active", !.grace = 0, !.period = e.period,
              !.ref = e.ref, !.eventAt = e.at]

MayTrial(s) == s.trial = 0
StartTrialUntil(s, e) ==
    [s EXCEPT !.status = "trialing", !.trial = e.id, !.period = 0,
              !.ref = e.ref, !.eventAt = e.at]

ChangePlan(s, plan) == [s EXCEPT !.plan = plan, !.grace = 0]

Changed(s, t) == s.plan # t.plan \/ s.status # t.status \/ s.period # t.period

(* The plan of the event's price, which may be unknown. *)
ResolvePlan == PaidPlans \cup {None}

(* What the save is announced as, if it changes what a reader sees. *)
Announced(h, t, effect) ==
    ToSave(h, t, IF Changed(row, t) THEN effect ELSE "none")

SyncSubscription(h) ==
    LET e == EventOf(h)
    IN  \/ /\ e.kind = "canceled"
           /\ IF Terminable(e) THEN GoTo(h, "cancel") ELSE Done(h)
        \/ /\ e.kind = "other"
           /\ Done(h)
        \/ /\ e.kind \in {"trialing", "active"}
           /\ ~(Resolved(e) /\ Fresh(e))
           /\ Done(h)
        \/ /\ e.kind = "trialing" /\ Resolved(e) /\ Fresh(e) /\ MayTrial(row)
           /\ \E p \in ResolvePlan :
                 IF p = None THEN Done(h)
                 ELSE Announced(h, StartTrialUntil(ChangePlan(row, p), e),
                                "plan_changed")
        \/ /\ e.kind = "active" \/ (e.kind = "trialing" /\ ~MayTrial(row))
           /\ Resolved(e) /\ Fresh(e)
           /\ Done(h)               \* the event names no period's end
        \/ /\ e.kind = "active" \/ (e.kind = "trialing" /\ ~MayTrial(row))
           /\ Resolved(e) /\ Fresh(e)
           /\ \E p \in ResolvePlan :
                 IF p \in {None, row.plan}
                 THEN Announced(h, Activate(row, e), "renewed")
                 ELSE Announced(h, Activate(ChangePlan(row, p), e),
                                "plan_changed")

SubscriptionEnded(h) ==
    LET e == EventOf(h)
    IN  /\ e.kind = "ended"
        /\ IF Terminable(e) THEN GoTo(h, "cancel") ELSE Done(h)

TrialWillEnd(h) ==
    LET e == EventOf(h)
    IN  /\ e.kind = "trial_will_end"
        /\ IF Resolved(e) THEN GoTo(h, "announce") ELSE Done(h)

PaymentFailed(h) ==
    LET e == EventOf(h)
    IN  /\ e.kind = "payment_failed"
        /\ IF Terminable(e) /\ row.status # "canceled"
           THEN GoTo(h, "pastdue") ELSE Done(h)

Dispatch(h) ==
    /\ handler[h].pc = "dispatch"
    /\ \/ BindGatewayCustomer(h) \/ SyncSubscription(h)
       \/ SubscriptionEnded(h) \/ TrialWillEnd(h) \/ PaymentFailed(h)
    /\ UNCHANGED <<row, claimed, checkout, gateway, outages, losses, effects>>

-----------------------------------------------------------------------------
(* The use cases below read the row again, by account.                     *)

CanceledBy(s, e) ==
    [s EXCEPT !.status = "canceled", !.eventAt = e.at,
              !.period = CASE s.status = "past_due" -> s.grace
                           [] s.status # "past_due" /\ @ # 0 -> @
                           [] OTHER -> IF s.trial # 0 THEN s.trial ELSE e.id]

CancelSubscription(h) ==
    LET e == EventOf(h)
    IN  /\ handler[h].pc = "cancel"
        /\ CASE row.plan = "free" -> Done(h)       \* perpetual
             [] row.plan # "free" /\ row.status = "canceled" ->
                   ToSave(h, row, "none")
             [] OTHER -> ToSave(h, CanceledBy(row, e), "canceled")
        /\ UNCHANGED <<row, claimed, checkout, gateway, outages, losses,
                       effects>>

(* Fault: the grace period is not set. *)
PastDueForever(s, e) == [s EXCEPT !.status = "past_due", !.eventAt = e.at]
PastDue(s, e) ==
    [s EXCEPT !.status = "past_due", !.eventAt = e.at,
              !.grace = IF s.status = "past_due" THEN @ ELSE e.id]

(* markPastDue throws for a subscription canceled in the meantime. *)
MarkSubscriptionPastDue(h) ==
    /\ handler[h].pc = "pastdue"
    /\ IF row.status = "canceled" THEN GoTo(h, "release")
       ELSE ToSave(h, PastDue(row, EventOf(h)), "payment_failed")
    /\ UNCHANGED <<row, claimed, checkout, gateway, outages, losses, effects>>

AnnounceTrialEnding(h) ==
    /\ handler[h].pc = "announce"
    /\ effects' = IF row.status = "trialing"
                  THEN [effects EXCEPT ![handler[h].event] = @ + 1]
                  ELSE effects
    /\ Done(h)
    /\ UNCHANGED <<row, claimed, checkout, gateway, outages, losses>>

(* save writes every column of the entity. *)
Save(h) ==
    /\ handler[h].pc = "save"
    /\ row' = handler[h].entity
    /\ IF handler[h].effect # "none" THEN GoTo(h, "emit") ELSE Done(h)
    /\ UNCHANGED <<claimed, checkout, gateway, outages, losses, effects>>

(* The entry each domain event's handler makes of the saved subscription. *)
AccessUntil(s) == IF s.status = "trialing" THEN s.trial ELSE s.period

PlanChangedEntry(s) ==
    [type |-> "plan_changed", status |-> s.status, until |-> AccessUntil(s)]
RenewedEntry(s) ==
    [type |-> "renewed", status |-> "active", until |-> s.period]
CanceledEntry(s) ==
    [type |-> "canceled", status |-> "canceled", until |-> s.period]
(* With the grace period just computed, which is not the row's when the    *)
(* subscription was past due already.                                      *)
PaymentFailedEntry(e) ==
    [type |-> "payment_failed", status |-> "past_due", until |-> e.id]

EntryOf(h) ==
    LET effect == handler[h].effect
        s == handler[h].entity
    IN  CASE effect = "plan_changed" -> PlanChangedEntry(s)
          [] effect = "renewed" -> RenewedEntry(s)
          [] effect = "canceled" -> CanceledEntry(s)
          [] effect = "payment_failed" -> PaymentFailedEntry(EventOf(h))

(* subscriptionHistoryEntrySchema: what an entry must satisfy. *)
Recordable(entry) ==
    CASE entry.type = "plan_changed" -> TRUE
      [] entry.type = "renewed" -> entry.status = "active"
      [] entry.type = "canceled" -> entry.status = "canceled"
      [] entry.type = "payment_failed" -> entry.status = "past_due"
                                             /\ entry.until # 0

(* subscription_history_entries, of which only the number matters.         *)
Recorded(e) == effects' = [effects EXCEPT ![e] = @ + 1]

(* The handlers log their failures and return: an entry that cannot be     *)
(* recorded is lost.                                                       *)
DispatchDomainEvent(h) ==
    /\ handler[h].pc = "emit"
    /\ IF Recordable(EntryOf(h)) THEN Recorded(handler[h].event)
                                 ELSE UNCHANGED effects
    /\ Done(h)
    /\ UNCHANGED <<row, claimed, checkout, gateway, outages, losses>>

(* The database fails a read or a save. *)
DispatchFails(h) ==
    /\ handler[h].pc \in {"dispatch", "cancel", "pastdue", "announce", "save"}
    /\ outages < MaxOutages
    /\ outages' = outages + 1
    /\ GoTo(h, "release")
    /\ UNCHANGED <<row, claimed, checkout, gateway, losses, effects>>

(* Fault: the claim outlives the failure. *)
UnclaimNothing(e) == claimed' = claimed
Unclaim(e) == claimed' = claimed \ {e}

Release(h) ==
    /\ handler[h].pc = "release"
    /\ Unclaim(handler[h].event)
    /\ handler' = [handler EXCEPT ![h] = Idle]
    /\ UNCHANGED <<row, checkout, gateway, acked, outages, losses, history>>

(* The delete that releases the claim fails as well. *)
ReleaseFails(h) ==
    /\ handler[h].pc = "release"
    /\ losses < MaxLosses
    /\ losses' = losses + 1
    /\ handler' = [handler EXCEPT ![h] = Idle]
    /\ UNCHANGED <<row, claimed, checkout, gateway, acked, outages, history>>

(* Requests die where they stand; their claims stay. *)
Crash ==
    /\ losses < MaxLosses
    /\ losses' = losses + 1
    /\ handler' = [h \in Handlers |-> Idle]
    /\ checkout' = [c \in Checkouts |->
          IF checkout[c].pc = "link" THEN [checkout[c] EXCEPT !.pc = "idle"]
                                     ELSE checkout[c]]
    /\ UNCHANGED <<row, claimed, gateway, acked, outages, history>>

-----------------------------------------------------------------------------
Delivery(h, e) == Claim(h, e) \/ Duplicate(h, e)
Work(h) == \/ Dispatch(h) \/ CancelSubscription(h)
           \/ MarkSubscriptionPastDue(h) \/ AnnounceTrialEnding(h)
           \/ Save(h) \/ DispatchDomainEvent(h) \/ Release(h)

Next ==
    \/ \E c \in Checkouts : \/ CheckoutRead(c) \/ CheckoutLink(c)
                            \/ Pay(c) \/ CompleteSession(c) \/ GatewayStep(c)
    \/ \E h \in Handlers : \/ Work(h) \/ DispatchFails(h) \/ ReleaseFails(h)
                           \/ \E e \in DOMAIN events : Delivery(h, e)
    \/ Crash

(* A request goes on until it has answered, and the gateway retries what   *)
(* it has no 2xx for.                                                      *)
Fairness ==
    /\ \A h \in Handlers : WF_vars(Work(h))
    /\ \A e \in EventIds :
          WF_vars(e \in DOMAIN events /\ \E h \in Handlers : Delivery(h, e))

Spec == Init /\ [][Next]_vars /\ Fairness

-----------------------------------------------------------------------------
(* However often an event is delivered and its dispatch retried, one       *)
(* request at a time works on it, and it leaves at most one history entry  *)
(* and one notification (ProcessGatewayWebhook, the claim).                *)
AppliedOnce ==
    /\ \A g, h \in Handlers :
          g # h /\ handler[g].pc # "idle"
             => handler[g].event # handler[h].event
    /\ \A e \in EventIds : effects[e] <= 1

(* Every session ever opened belongs to the customer the row is bound to,  *)
(* so its events find the account; concurrent checkouts, webhooks holding  *)
(* older copies of the row and crashes never rebind it.                    *)
SessionsShareCustomer ==
    \A c \in Checkouts : checkout[c].pc \in {"open", "paid", "completed"}
                            => checkout[c].customer = row.customer

(* Only the end of the gateway subscription the row follows cancels it: not*)
(* an abandoned checkout's, not a superseded subscription's.               *)
CanceledMeansEnded ==
    row.status = "canceled" => row.ref # None /\ gw[row.ref].st = "ended"

(* Unless a claim was left behind by a crash or a failed release, every    *)
(* event is applied in the end, across failures and retries.               *)
EveryEventApplied ==
    \A e \in EventIds : e \in DOMAIN events ~> e \in settled \/ losses > 0
=============================================================================
