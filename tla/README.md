# Formal models of the Sogio API

Sogio is a backend for holiday rentals (TypeScript on Bun, PostgreSQL through Drizzle). It runs as one
process; handlers suspend at each `await`, so what interleaves is their database statements, on
connections of a pool, under READ COMMITTED. Nothing below `SELECT`, `UPDATE`, `INSERT` and the handful
of explicit transactions is serialised. Events between modules are dispatched synchronously inside the use
case (`InMemoryEventDispatcher`). Two timers run in the process: notification delivery and the hourly cleanup.

That shape decides the models: **one action is one statement together with the synchronous code up to the
next `await`**; a request in flight is a record with a program counter and what it has read; a crash takes all
such records and the in-memory state with it and leaves the tables.

## Inventory

| Part | State | Operations | What is hard |
|---|---|---|---|
| Delegated access (OAuth for assistants, `auth/…/delegated_access`) | app registrations, consents, authorization requests, codes, credential pairs in rotation chains, in-memory grace cache | register, authorize, decide, exchange, refresh, revoke token, disconnect, list apps, verify a bearer, purge | concurrent rotation, replay, bulk revocation against inserts, reconnect on the same row, purge against consent, what a code stays bound to |
| Accounts (`auth`) | users, sessions, reset requests, external sign-in requests, linked identities | register, sign in and out, change and reset the password, external sign-in, delete the account, hourly cleanup | sign-in against password change, overlapping recoveries, quota over time, races for one identity |
| Notification outbox (`notification`, timer in `index.ts`) | notifications with attempts and lease, preferences | enqueue, claim a batch, deliver, mark read, set a preference, purge | send and save are not atomic, a failing save aborts a batch, crash with leased rows |
| Gateway billing (`billing`) | one subscription row per user, processed events, history entries, gateway customer | checkout, webhook events, cancel, past due, trial end | duplicates, reordering, whole-row saves, claims left behind, two checkouts |
| Plan catalog and access policy (`billing`) | plans | catalog events, reconciliation, access decision | order, partial saves, swallowed errors |
| Stays (`booking`) | stays, tenants | book, update, cancel, import, calendar and dashboard queries | policy then insert, whole-row save, event after save |
| Properties and settings (`property_management`, `backoffice`) | properties (soft delete), settings, application settings | create, update, delete with cascade, import | limits counted under advisory locks, whole-row saves, soft delete under a partial unique index |
| Finance ledger (`finance`) | ledger entries | record, delete, import; handlers of stay events | entries that cannot be created (amount 0), price changes |
| External booking sources (`booking`) | calendar addresses | create, update, delete, reconcile against the calendars | three reads of a world that moves |
| Request intake (`core`) | rate limiter map, MCP servers, CSV reader, import runner | limits, body, authentication, entitlement, handler; MCP tools; streaming import | cap on keys, four awaits between request and handler, two continuations that close one server, delimiters at a boundary |
| Transactions and dispatch (`core`) | transaction context, handlers of events | run a handler inside or outside a transaction | which executor a repository joins |
| Marketing waitlist, user preferences | independent rows | create, update | nothing beyond unique indexes |

How they meet: registration and external sign-in dispatch `UserCreated` (billing starts the Free
subscription) and `IdentityLinked` (notification enqueues); billing dispatches payment failures and trial
ends to notification; booking dispatches `StayBooked`, `StayCanceled`, `StayImported`, which finance turns into
ledger entries; `DeleteProperty` calls booking's occupancy port inside one transaction that the repositories
join through `currentExecutor()`; property management asks billing for the limit of the plan; the HTTP adapter asks
auth for the session and billing for the entitlement before any of this runs; deleting a user cascades over foreign
keys into every table.

`PROJECT.json` lists each part with its status and the hazards of the code at their lines. Reviewing a
hazard, look for the properties it names; the ones without a property carry the reason.

## Modules

Each `MC…` module and `.cfg` gives the module of its name an instance for TLC: constants, scenarios, symmetry. Each
`…Proofs` module extends the module of its name and holds its theorems. The theorems of `CalendarDates` are in
`StayBookingProofs` and those of `Pages` in `NotificationOutboxProofs`, the modules whose runs evaluate their assumptions.
`EntitlementProofs` holds what is sold and what is let in: the theorems of `PlanCatalog`, `RequestIntake` and `CsvImport`.

`DelegatedAccess` — the tables of the OAuth flow and one `task` per request. Bulk updates
(`revokeFamily`, `revokeAllByConsent`) are two actions, the snapshot and the writes, because rows that commit
in between are not visited and a row locked by an open rotation makes the statement wait. A rotation is the
only transaction (`r_commit`). Tokens and digests are the ids of their rows. `MCDelegatedAccess` instantiates
it from the empty database and from the state after a first connection.

`AuthorizationServer` — what such a grant carries, before `DelegatedAccess` follows its rows: registration with its
redirect URIs, `/authorize` with its redirected errors, the consent screen, the decision, PKCE and the exchange, and
the purge of unused registrations as snapshot and deletion with its cascade, the deletion of an account with its cascade, and
the sweeps of expired rows that `list_connected_apps.ts` sets off. A presented URI is the five parts that the URL parser and the
comparison tell apart: scheme, host, port, path with query, and the rest (userinfo, fragment). Whether a user may connect, a
denial and the refusals for other reasons are nondeterministic. There is one scope, so no property is about scopes;
the screen's two reads are one step; all dangerous or malformed schemes are one; the `state` a client sends and
gets back and the limits at `/token` are left out.

`NotificationOutbox` — rows, the sequence `due` in the order in which `claimDue` takes them, the `running`
guard and the batch of each tick (the claimed rows are read back in any order, as the last select of `claimDue` has no
`ORDER BY`), and the preference that decides whether a notification is enqueued at all.
`NotificationLifecycle` is the abstract specification: a notification that was asked for is queued once or not wanted,
settles once, is read only after it was sent and stays read, until its account goes. The outbox implements it by the
mapping at the end of the module (`LifecycleHolds`).

`GatewayBilling` — the subscription row of one account, the claims, webhook requests with the copy of the row
they have read, checkouts, the entries of the history (an entry that cannot be recorded is lost without
an error, as in the code), and the gateway: what it has emitted and what was acknowledged. Dates are numbers of
events. `MCGatewayBilling` adds symmetry and the property that the resubscription run refutes.

`PlanCatalog` — the plans as a copy of the gateway's prices. A webhook request claims its event and reads the
plans it concerns in one step, as nothing can be told apart between, then saves them one by one, each the whole row it
read; a save that would repeat a code or a price reference is swallowed. The reconciliation lists the prices, then
applies them one by one beside the webhooks. Metadata that does not parse is the code `None`; amounts are positive;
names and single capabilities are left out. What a plan grants (`SubscriptionAccessPolicy`) is a set of operators.

`StayBooking` — the stays of one property, revenue and refund per stay, and requests. Transactions (deletion and
import) keep their writes to themselves until they commit (`Seen`, `done`). The ledger handlers are actions of
the request that dispatches the event. `Listed` is the query of the calendar, from which `NoDoubleBooking` reads who is in
the property at one instant; `raced` is history: the pairs of stays of which one was written while the other had passed
its check and was not written yet. `overlapped` tells whether two requests have been in flight at once.

`PropertyDesk` — the properties of one owner and everything that hangs on them: settings, calendar sources, ledger
entries recorded by hand, and the application settings, which the code builds the same way. Creations and imports
read the limit of the plan, then count under an advisory lock per owner; settings count under one per property. The
reconciliation reads properties, feeds and stays in three steps while all of it changes; a feed is the set of days
it reports. `Watch` records beside every step of a reconciliation what has held since it began. Identifiers are UUIDs, so
a property is never taken for a row or for the name of a lock (`DeskAssumption`). An import of ledger entries writes rows
of one property; the code's may name several, which it loads as their first rows come. What a deletion does to stays is
in `StayBooking`.

`Accounts` — users with a counter of passwords for the hash, sessions, reset tokens, sign-in requests, links.
Creation with an identity and deletion are transactions, one action each: with the unique indexes, what another
request can see of them is their commit or nothing.

`RequestIntake` — one record per connection that goes through the adapter's order of guards, with an await between any
two, for routes and for `/mcp`; it extends `RateLimiter` (operators on the limiter's map), `CsvImport` (the streaming
reader byte by byte, with the import runner and its transaction) and `RouteTable` (the server's routes, tools and
preflight answers as data; the assumption `RouteAssumption`, which TLC evaluates, asks of every route it is given that
the declarations agree with each other). Route limits keyed by something other than the address or the user, and the schemas
of the inputs, are left out. Its specification is `IntakeSpec`; `ClockTicks` moves the limiter's clock. `admitted` is
history: the instants at which each limit let its caller through, kept under who made the attempt and not under the key
the code computes. `LimitAssumption` says that a key counts one caller at one limit and that a limit lets something through.
One body is read at a time (`BringsTable`), in the theorems too: `doc`, `reader` and `batch` are one each, where the code's
are locals of the request. The run sets `Alone`, which lets a table come only with the first request of a behaviour and
nothing move beside it (`Quiet`); the theorems hold for either value of it.

`CsvImport` follows three readings of one body: `doc`, what the bytes mean to the caller who encodes a table by RFC 4180;
`reader`, the variables of `readCsvRecordStream`; `batch`, those of `ImportRunner.run`. `ImportIsTheTable` compares the
first with the last. Only bodies that encode a table are sent, possibly broken off: one that comes to a clean end inside
a quoted field, which the reader takes for a complete record (streaming_csv_reader.ts:208-225), is outside the model.

`CalendarDates` — no state: the day a record names, the instant of a wall clock in a time zone (`atWallClock`, which
looks the offset up twice), the check times of a property, and the month the dashboard adds up. Instants are minutes, a
zone is a function from instants to offsets, the months are any increasing sequence of instants. Its assumptions
compare the operators with what they should compute on bounded inputs (`DatesAssumption`, `ClockAssumption`); `MCStayBooking`
extends it so that TLC evaluates them.

`Pages` — no state either: the paged lists of movements, settings, notifications and subscription history. A query orders
rows by its columns and leaves equal rows to the database, so an answer is one of a set; the page and the count are
read in parallel and may see different tables. `MCNotificationOutbox` extends it.

Each definition that stands for code is listed with its lines under `map` in `PROJECT.json`. Operators
marked "Fault" are mutations of the definition next to them: a plausible bug that the property named in
`mutants` must notice. They are used by nothing else.

## Runs

| Run | Question | What it shows |
|---|---|---|
| `delegated_access` | two requests on the credentials of one connection; and, from nothing, one code, consent granted, used, revoked, granted again | chains never fork; a revoked family has no live member unless a rotation committed inside the statement; the grace cache hands out the recorded successor; a disconnection is final for the credentials before it, except those inserted inside its window; a code is claimed once |
| `authorization_server` | two requests that register, authorize, decide, exchange and purge | browsers are sent to a registered place (on loopback up to port, userinfo and fragment), what is issued belongs to the app, URI, verifier and user of the approved request, references hold, and a purge takes a consent only if it came in after the purge had looked; also while requests and codes expire and are swept between the steps of a decision and an exchange |
| `authorization_port` (violation) | is the loopback port all that may differ, as the comment on `redirectUriMatches` says | no: userinfo and fragment are not compared |
| `notification_outbox` | two notifications, overlapping ticks, one crash, one failed save | duplicates only after a lost outcome, the abstract life holds, every row settles |
| `billing_sequential` | one webhook at a time, events late, repeated and failing | only the end of the followed subscription cancels, every event applied |
| `billing_overlap` | two webhooks at once, crash, two checkouts | one effect per event, one customer for every session, whole rows stay well-formed |
| `billing_resubscription` (violation) | a late "ended" of the old subscription beside the event that links the new one | the new one is canceled |
| `plan_catalog` | two webhooks and a reconciliation over prices that may claim one plan | the Free plan stays free, unlimited and on sale whatever happens; a reconciliation beside which nothing moves leaves every plan that one active price claims equal to it, unless the code of that price was edited; without overlap the plans that the newest event found when it was handled go on saying what it says. A deletion that overtakes the creation of its price finds no plan and is dropped, and the price stays on sale: no property promises otherwise |
| `stay_booking` | two requests of every kind, one at a time while the clock runs and one fails, or beside each other | two live stays come to share an instant only if one was written between the check and the write of the other; that they then do is why the pair is named (`raced`). As long as no two requests have overlapped, deletion is total and stays and ledger are in step |
| `property_desk` | two requests at once, one of which may die, in eight scenarios | limits hold under overlapping creations and imports, deletions are final unless an update was in flight over them, the reconciliation names no stay that was booked, or absent from the feed, throughout |
| `accounts` | two requests at once, one of which may die, in seven scenarios | old sessions end with the password, open tokens and their number are bounded, no account without a way in, cleanup spares valid sessions |
| `request_intake` | two connections to guarded routes and to `/mcp`, sessions and entitlements changing under them, every short table as an import body | fewer than twice the limit in any window, nothing handled that no instant admitted, MCP servers closed exactly once, an import commits the table its sender meant or nothing |

### Bounds

Two requests in flight are enough for every race listed: each involves a reader or writer pair on one row; the
third party in a few of them (a purge, a timer, the gateway) is an action of its own. Row ids are never reused,
so a table's size bounds the number of inserts of a behaviour: three credentials give a chain with a rotated,
a current and a raced member; two stays are a pair that overlaps; three gateway events are a
start, a change and an end. Clocks have just enough instants for every limit to be crossed and not crossed
(`MaxTime`), failures are bounded by `MaxFailures`, `MaxCrashes`, `MaxOutages`, `MaxLosses`.

- `accounts`, `property_desk`: `Budgets` says how often each operation may start, and TLC takes one scenario per
  behaviour (the comments of the MC modules name them). The recovery limit is 2 instead of 3, the limit of settings 1,
  the property limit of the plan moves between 1 and 2; time is counted in the smallest unit that keeps the
  order of the limits.
- `delegated_access`: from a first connection, credentials go through three rows, and a rotated one outlives its grace window.
  From nothing there are two, and nothing happens between the first instant and the last, when everything may have
  expired. In the last instant of either a handler begins beside another only if that one has made its checks (`FewBegin`);
  every other order of two handlers is that of the first instant.
- `authorization_server`: two apps, one user, one request, one code, two credentials; two verifiers; a URI on the user's machine,
  one that differs from it in port and fragment, and two ports of a remote host. With one app only there is one instant
  more, so that what was issued at 1 has expired, and the second remote port is registered too (`Small`). A code that
  reaches the wrong app, URI or verifier needs no more than one of each kind beside the right one.
- `plan_catalog`: two prices of one product, codes `free` and one paid, two events, three instants of which two share a
  second (so a tie in the gateway's stamps happens), one outage, one reconciliation.
- `notification_outbox`: one type a user may turn off and one that always goes out, two ticks, two attempts.
- `stay_booking`: four instants, prices 0, 1 and 2: a stay without revenue, and two amounts that differ; a stay with more
  than two reverted is not canceled again (`MaxRefund`), in any run. Two requests overlap in a smaller world (`Small`): the
  first instant, one price, no failure, no second cancellation and no request that only saves the property, as the
  check of a booking looks at none of these; two stays over three instants can overlap, touch, and be apart.
- `request_intake`: a member and an administrator; sign-in, an import, `/auth/me` (open to blocked users) and a staff
  route, two tools; limits scaled to a window of two and one or two attempts, so that window edges and denials
  occur; a cap of two tracked keys, which four arrivals exceed; bodies of up to ten bytes over five
  kinds of byte, two columns, two rows, a field limit of two bytes.

`CHECK_DEADLOCK FALSE` is set in every run: the bounds make each system stop, and so does the real one when
nobody calls it.

### Fairness

Safety properties assume none. `EverySettles` assumes that time passes for every row (`Elapse`) and that the
interval timer keeps firing and a run goes on (`Tick`): `setInterval` in `index.ts` and a mail provider
that answers. The code sets no time limit on the mail call; if the provider never answers, `running` stays true and
nothing is delivered any more. `EveryEventApplied` assumes that a request goes on until it has answered and
that the gateway redelivers what it got no success for, which is what its webhooks do for days.

### What holds only without overlap, and why

Some properties are checked for requests that do not overlap because the code does not protect them otherwise and no
document of the repository says it does: a booking beside a deletion leaves a live stay on a deleted
property; an update that read a stay before its cancellation makes it
live again (`saveStay` writes the whole row); two webhooks that read the same row lose one update.

Where requests do overlap, history variables exempt exactly what the code leaves open. Two bookings may both pass the
policy before either is inserted (`book_stay.ts:91-93`, no index refuses the second): in `StayBooking`, `raced` names those
pairs, and `NoDoubleBooking` says that no other pair shares an instant. In `Accounts`,
a sign-in that compared the old password and inserts its session after `revokeAllForUser` keeps it, and
two overlapping recoveries both leave an open token and may exceed the quota, which `RecoveryIsBounded` exempts by
the flag `raced`. In `AuthorizationServer`, `raced` holds, for every purge under way, the consents inserted
since it looked. In `PropertyDesk`, `late` holds what was deleted under an update in flight, which `DeletionSticks`
exempts: the whole-row save of `UpdateProperty` clears the deletion, and that of a setting restores its content.
In `PlanCatalog`, `raced` and the reconciliation's stamps mark the plans `MirrorsNewest` says nothing about, and `reached` those it speaks of:
the plans that the newest event concerned when its request read the table. A retirement that comes before the event which
links its price reaches none (`sync_plan_catalog_entry.ts:153`) and is lost even without overlap; as a deleted price is not
listed, no reconciliation withdraws the plan. A crash
between the claim of a webhook event and its dispatch leaves the claim behind, and the event is never applied:
`EveryEventApplied` exempts the losses counted.

## Proofs

Every invariant and every action property that a run checks is a theorem, and so is the refinement of the abstract life of a
notification, one for one request at a time as in its run (`CanceledCorrect`); only the two liveness properties stay with TLC. TLAPS proves the theorems below for every value of the
constants: any number of users, apps, stays, prices, rows of every table, routes, connections and requests in flight, and any
limits, budgets and bounds. Each argument is the same: an inductive
invariant, stronger than the property, with one lemma per action that says the action keeps it. What the proofs assume of the constants is named in
the module that declares them (`…Assumption`): limits and times are natural numbers, and the null value is none of
the values it stands in for. TLC evaluates these assumptions in every run.

### Delegated access

- `TypeCorrect`: `Spec => []TypeOK`. `TypeInv` adds to the types that a handler's locals are of the kind its program
  counter promises, that rows referenced exist, and what the history variables contain. The proof has one lemma
  per request kind, one step per action.
- `ChainCorrect`: chains never fork. `ChainNeverForks` alone is not inductive: a rotation between its
  conditional `UPDATE` and its commit has superseded nothing yet. `LockInv` says that such a
  rotation holds a row nobody else holds, that row is still rotatable and its successor's id is unused.
- `DisconnectCorrect`: `DisconnectInv` follows a cascade through its two halves: while it runs, the live
  credentials of the consent are in its snapshot or were inserted since.
- `FamilyCorrect`: `FamilyInv` is the same argument for `revokeFamily`.
- `GraceCorrect`: `GraceInv` ties a cache entry, and a handler about to write one, to the row that was superseded.
- `CodeCorrect`: `CodeInv` says that a code some handler has claimed can no longer be claimed.

`SafetyInv` is their conjunction with `TypeInv`. Most actions are *quiet*: they insert no credential, revive none, and put
no handler in a state the invariants mention. `QuietOrNoisy` proves that every step is quiet or one of a few named
ones; each invariant then has one lemma for quiet steps and one per noisy step.

### Authorization server

Assumed: `None` is no code, bounds are naturals, redirect URIs are records of their five parts.

- `TypeCorrect`: the foreign keys hold through every purge, account deletion and sweep. `TypeInv` adds what a handler has filled in by the time it gets
  to its program counter.
- `GrantsCorrect` (`GrantsAreBound`): not inductive, as it speaks of redirects and credentials only. `Carried` says of every row and every
  handler of the chain (request, code, exchange, credential) what it carries of the one before, back to a registered
  URI, which it equals but for port, userinfo and fragment on loopback; `MintsOnce` says that a claimed code is in the hands of one exchange or has minted one credential.
- `RowsKeepWhatTheyCarry`: no step changes what a row carries, and requests and codes leave only with their application, with the
  account or once expired. It makes the two invariants above cheap: they have to be
  looked at only where a row is inserted or a handler moves on.
- `PurgeCorrect` (`ConsentedAppsStay`): `PurgeWindow` adds that an app on the list of a purge under way is too old and that a
  consent to it is in `raced` of that purge.

### Accounts

- `TypeCorrect`, `AccessCorrect` (`NoAccountWithoutAccess`): types, unique indexes and foreign keys, proved together.
- `OldSessionsCorrect` (`OldSessionsEnd`): inductive as it stands, given those.
- `RecoveryCorrect` (`RecoveryIsBounded`): one open token and the quota over a sliding window. `IssuesAlone` says that a
  recovery about to issue a token has left none open, `RoomLeft` that one which passed the quota still has room in its
  window, `Swept` that what the cleanup deleted lies outside every window still to be asked for; `Overlaps` ties the flag
  `raced` to the recoveries in flight.
- `CleanupCorrect` (`CleanupSparesTheValid`): an action property, from the types.

### Notification outbox

- `TypeCorrect`, `DuplicatesCorrect` (`DuplicateNeedsLostOutcome`): `OutboxInv` says that one run is active at a time
  (`OneRun`), what its batch knows of the rows still holds when it settles them (`BatchOK`), and which emails the losses
  account for (`EmailsOK`).
- `LifecycleCorrect` (`LifecycleHolds`): the outbox implements `NotificationLifecycle`. Initial states map to initial states and
  each action maps to a step of the abstract life or to a stutter, one lemma each, using `OutboxInv` for what a run
  carries in its batch. The abstract specification has no fairness; that every row settles stays with TLC.

### Gateway billing

- `TypeCorrect`, `AppliedOnceCorrect` (`AppliedOnce`), `CustomerCorrect` (`SessionsShareCustomer`): any number of webhooks
  and checkouts at once. `OnceOK` says that no two requests work on one event and that it has no effect before its dispatch
  has returned; `CustomerOK` that sessions, events and the copies requests hold name the customer the row is bound to.
- `CanceledCorrect` (`CanceledMeansEnded`), from `OneRequest`, one webhook of the account at a time beside any number of
  checkouts. `CancelsFollow` says that a request about to cancel has the end of the row's own subscription in hand.
  Without the hypothesis it is false, as `billing_resubscription` shows.

### Plan catalog

- `TypeCorrect`: two plans never share a code or a price, and requests in flight hold their claims alone.
- `FreeCorrect` (`FreeNeverRunsOut`): `SoundInv` says of every plan stored or about to be saved that it keeps the guard of
  the Free plan.
- `HealCorrect` (`ReconciliationHeals`): any number of prices per plan, beside events lost or applied in any order before. Two
  things are needed. `SoundInv` also says that whatever is stored, listed or under way names, of a price whose code
  nobody edited, the code it has: so no unique index refuses a save of the reconciliation for such a price (a refusal is
  swallowed and would leave the plan wrong). `HealInv` follows the listing entry by entry: while nothing else moves, every
  listed price but those still to come and the one being saved is healed, and a later save breaks no earlier one.
- `NewestCorrect` (`MirrorsNewest`): any number of events and reconciliations, one after the other. `DatesInv` says that a
  plan is dated by an event or by a stamp, so whatever makes the newest event look stale is the stamp of a
  reconciliation no older. `NewestInv` says that once the event is settled every plan it reached shows it, no request is about
  to write those plans, and a reconciliation in flight is stamped no earlier; while it is being saved, that each plan it
  reached shows it already or is still to be saved, by a save no index refuses (`Fit`, `Unlike`). `SoundInv` is needed again,
  for a price whose code nobody edited to be in no other plan. The stamps of all reconciliations are kept as history: the run has one, and with the latest stamp alone
  the property would be false of two.

### Stays

- `TypeCorrect`, `DoubleBookingCorrect` (`NoDoubleBooking`): any number of requests at once. `ApartInv` says that two live stays
  which share an instant are in `raced`, and that what a request has found free (`Cleared`) is free of every live stay
  but those written since, which its own write then puts in `raced`; an import also keeps its own batch apart.
- `NoOverlapInTurn`: as long as no two requests have overlapped, `raced` stays empty, so no two live stays share an instant.
- `DeletionCorrect` (`DeletionIsTotal`), `LedgerCorrect` (`LedgerInStep`): as long as no two requests have overlapped
  (`overlapped`), because the code protects no more (see above). `InTurn` adds that then one request at most is in flight,
  so whatever moves, moves alone (`Alone`). Any number of stays, requests in turn,
  instants and failures. `BookingInv` says for each kind of request what it knows of the stays it works on at each of its
  statements (`Booking`, `Canceling`, `Updating`, `Deleting`, `Importing`): a deletion, for instance, has every stay that was
  not over among those canceled, about to be or still to do. `LedgerInv` says what revenue and refund are while an event is on its way.

### Properties, their settings, and the reconciliation

Assumed: limits and budgets are natural numbers, every value has a type, `None` is no identifier, and properties, rows and the
names of locks differ.

- `TypeCorrect`: the unique indexes and foreign keys too. `RequestOK` says of every request in flight what it carries
  (`Shape`), which lock it holds (`Locked`), what the tables still hold of what it has read (`Stands`), and what its count is
  still worth (`Within`); two requests never hold one lock, nor batches with a row in common.
- `LimitsCorrect` (`LimitsHold`): not inductive, as between the count and the insert the limit is a promise. `Within` says that
  who holds the lock of an owner has counted everything but what a late update brought back, its own batch included, and
  that at the insert there is room for one more. Without the lock, a second creation would break it.
- `ReconcileCorrect` (`ReconcileAnswers`): `ReconOK` follows what must be reported through the three reads: its property is
  still to be read, or was read and the day is in the feed, or it is in the answer; what must not be reported is
  in neither feed nor answer.
- `DeletionCorrect` (`DeletionSticks`): an action property, from `Stands`: an update about to save a row that is no longer live
  is one of those `late` names.

### Request intake

Assumed: `LimitAssumption`, `RouteAssumption` and the limits of an import (`CsvAssumption`: at least two columns, every limit
positive).

- `IntakeTypeCorrect` (`IntakeTypeOK`): the requests, the limiter and what the database says of the users, with the cap on tracked keys: a new key is tracked only below it, if need be after a
  purge.
- `BurstCorrect` (`BurstIsBounded`): any policies, keys and arrivals, the purge at the cap and the denial beyond it included. The
  property speaks of the log of one caller, the limiter of a count and a start. `Counts` relates them: while there is an entry,
  its window began with the last but `count - 1` attempt of the log, and the attempt `max` before that one is a window
  older; when there is none, the last `max` attempts reach back a window from now. Each of the ways in which an entry may
  move (count, begin again, be purged, be refused) keeps that.
- `GateCorrect` (`HandledOnlyIfAdmitted`): `Passed` and `McpPassed` say, for every place between two awaits, which facts
  about the caller the request has seen by then; what its database loses later takes none of them back.
- `ServerCorrect` (`ServerClosedOnce`): `ServerOK` says in which places a request has a server, and that one whose stream is
  over still has someone to close it.

### The body of an import

- `CsvCorrect` (`ImportIsTheTable`): for every table, of any size, every quoting and line end of RFC 4180, broken off or
  whole, and every limit. The property compares a caller who writes whole records with a reader
  that sees one byte at a time, so no induction over the table is needed: both advance with the byte. `InStep` says that
  between two bytes they are at the same place (`Follows`: the same field, the same record, a quote or a CR pending exactly
  where the caller just wrote one), that nothing is too large and the header has what it needs (`Healthy`), and that
  the batch has written the rows so far or reports those at fault (`Progress`). `ByteInStep` has one case for each meaning of
  a byte, `RecordEnds` the end of a record, by a byte or by the body, for all three.

### Dates and pages

Of `CalendarDates`, for every day, offset and check time, and with no assumption on constants:

- `ClockIsKept`, `SkippedClockMoves`: around one change of a zone's offset, the instant for a clock the zone shows has that
  clock; a clock it skips comes out one stretch earlier or later.
- `ImportedStayIsOrdered`, `SameDayTurnover`: instants of imported stays are ordered as their days and times are, for
  every zone, any number of changes included, that moves by less than what lies between the times. Both rest on the lemma
  `LaterClockIsLater`.
- `MonthsMeetAtMidnight`, `FirstDayCountsTwice`: two months share nothing but the instant at which they meet, and share that.

Of `Pages`, for any number of rows and any limit:

- `HasNextUntilTheLastRow`, `EveryPositionOnOnePage`: following `has_next` visits every position of a listing once.
- `OneListing`, `InboxPagesStay`: where the order tells any two rows apart, as that of the inbox does, a listing is
  the same in every query. The proof looks at the least position at which two listings differ.
- `TiedRowsMayHide`: where it does not, exchanging two equal rows at the end of a page is a listing too.

### Only model-checked

- Liveness (`EverySettles`, `EveryEventApplied`): ENABLED and fairness are out of the prover's reach.
- What the violation run refutes.

No module declares a RECURSIVE operator.

## Findings

`billing_resubscription` is a run of its own, and `PROJECT.json` quotes the test that promises otherwise: the
resubscription is canceled. So is `authorization_port`: the comment on `redirectUriMatches` calls the loopback port the single
loosening, but the comparison leaves out userinfo and fragment as well. The other disagreements between the code and its comments that the models met:

- `revoke_consent.ts:13-15` says that valid credentials stop immediately. A credential inserted between the snapshot
  and the writes of `revokeAllByConsent` survives, and is usable again after a reconnection; `DisconnectFence`
  exempts it by `raced`.
- The comment of `revoke_token.ts` on access tokens: revoking one stamps the row, which also holds the refresh token.
- `consent_expiry_policy.ts:16` says that `granted_at` is never reset by a reconnection, and `revive` writes it
  (`consent_postgres_repository.ts:101`).
- `decide_authorization_request.controller.ts:42-43` says that the redirect is built from the registered URI. It is the one
  presented at `/authorize`, whose loopback port may differ; `RedirectsStayRegistered` says what does hold.
- A repeated payment failure announces a grace deadline other than the stored one (`mark_subscription_past_due.ts:50`).
- A stay of price 0 is saved although its ledger entry throws, and its property can then never be deleted
  (`ledger_entry.ts:63`), while `delete_property.controller.ts:47` gives a checked-in guest as the only refusal.
- An update of a stay's price does not reach the ledger; a later cancellation reverts the new price, not the revenue.
- Catalog: an event between the listing and the stamp of a reconciliation is taken for old; a retirement that overtakes
  the link of its price is dropped; a conflict of codes is swallowed and its event counts as processed;
  `product.updated` puts a retired plan on sale again; of two active prices of one code the last listed wins.
- `get_dashboard_overview.mcp_tool.ts:11` says that the monthly revenue covers the month the day falls in. It includes the
  first instant of the next (`ledger_entry_postgres_repository.ts:125`), where an entry imported for the first of that
  month stands (`FirstDayCountsTwice`), and does not subtract refunds.
- `calendar_date.test.ts:59` asks that midnight stay on the calendar day of the owner. West of UTC, where clocks go forward
  at midnight (as in São Paulo until 2018), the first guess is the change itself and the instant is 23:00 of the day
  before, one of the two outcomes of `SkippedClockMoves`.
- `list_financial_movements.mcp_tool.ts:38` tells an assistant to page with `has_next` before it concludes that an entry is
  absent. The pages are ordered by `created_at` alone (`ledger_entry_postgres_repository.ts:159`), which all entries imported
  for one day share, so an entry may be on no page (`TiedRowsMayHide`).

## Not modelled

Dependency injection, OpenAPI pages and SQL migrations (wiring or generated); the clients of Stripe, Google,
Resend and the locks (only what they may answer); the waitlist and user preferences (independent rows); tenants as
rows and the codes of entrances; the portal session and `GrantPlan`, which no route calls; the pages of
stays; wording, locale and the payloads of messages; headers of
answers. A restart of the process inside a window of the rate limiter, which forgets all windows, is not a step.
Preflight answers are operators that an assumption checks against the table, not actions.

## Plan

What is left, in the order in which it matters:

1. Abstract specifications: a rotation chain as a sequence of holders that `DelegatedAccess` implements; a
   subscription's life that `GatewayBilling` implements when requests do not overlap.
2. Tenants and entrance codes beside a stay.
