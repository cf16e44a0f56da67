---------------------------- MODULE PropertyDesk ----------------------------
(***************************************************************************)
(* The properties of one owner and what hangs on them: settings, external  *)
(* calendars and ledger entries, with the application settings of the      *)
(* backoffice, which are built the same way. Requests of the owner overlap *)
(* and may die; each action is one statement with the code up to the next. *)
(* A request that its first read refuses (PropertyOwnershipPolicy: absent, *)
(* somebody else's or deleted) changes nothing and is no step.             *)
(*                                                                         *)
(* Two advisory locks matter: one per owner for the count of properties,   *)
(* one per property for the count of settings. A transaction holds its     *)
(* lock until it commits, throws or dies; what it has inserted is in done  *)
(* and seen by nobody else.                                                *)
(***************************************************************************)
EXTENDS Naturals, FiniteSets

CONSTANTS
    Props, Rows,    \* identifiers new rows may get
    Keys,           \* keys of settings
    Texts,          \* what a row says; as the address of a calendar, a text
                    \* stands for the day on which that calendar is booked
    TypeOf,         \* the type whose values a text belongs to
    Tasks,          \* requests that may be in flight at once
    Quotas,         \* values max_properties may take as the plan changes
    MaxSettings,    \* MAX_ACTIVE_PROPERTY_SETTINGS
    None,
    Budgets,        \* bound: how often each operation may start
    MaxFailures     \* bound: requests killed half way

Kinds == {"setting", "source", "app", "entry"}
Operations == ({"create", "update", "delete", "import"}
                  \X (Kinds \cup {"property"}))
              \cup {<<"reconcile", "source">>, <<"change", "quota">>,
                    <<"change", "stays">>}

ASSUME DeskAssumption ==
    /\ MaxSettings \in Nat /\ MaxFailures \in Nat
    /\ Quotas \subseteq Nat /\ Quotas # {}
    /\ TypeOf \in [Texts -> {"string", "number"}]
    /\ Budgets \subseteq [Operations -> Nat]
    /\ None \notin Props \cup Rows \cup Keys \cup Texts
    \* identifiers are UUIDs
    /\ Props \cap Rows = {} /\ {"none", "owner"} \cap Props = {}

VARIABLES
    quota,          \* the owner's max_properties now
    prop,           \* properties table
    row,            \* the tables of Kinds
    stays,          \* days on which a pending stay of a property begins
    task,           \* requests in flight
    recon,          \* a reconciliation, and its answer
    left, failures, \* what remains of the bounds
    highest,        \* history: the largest quota so far
    late,           \* history: deleted while an update that had read them
                    \* was in flight
    watch           \* history: what has held since recon began

vars == <<quota, prop, row, stays, task, recon, left, failures, highest,
          late, watch>>
tables == <<prop, row, late>>
others == <<quota, highest, stays, recon>>

-----------------------------------------------------------------------------
Types == {"string", "number"}
(* The value of a setting is a text, and its type a column of its own.     *)
Row == [st : {"none", "live", "deleted"}, kind : Kinds \cup {"none"},
        of : Props \cup {None}, key : Keys \cup {None},
        text : Texts \cup {None}, type : Types \cup {None}]
NoRow == [st |-> "none", kind |-> "none", of |-> None, key |-> None,
          text |-> None, type |-> None]

Task == [pc : {"idle", "rows", "lock", "count", "insert", "find", "write"},
         op : {"none", "create", "update", "delete", "import"},
         on : Kinds \cup {"none", "property"}, p : Props \cup {None},
         r : Rows \cup {None}, key : Keys \cup {None},
         text : Texts \cup {None}, retype : BOOLEAN, quota : Nat,
         lock : {"none", "owner"} \cup Props, done : SUBSET (Props \cup Rows)]
Idle == [pc |-> "idle", op |-> "none", on |-> "none", p |-> None, r |-> None,
         key |-> None, text |-> None, retype |-> FALSE, quota |-> 0, lock |-> "none",
         done |-> {}]

Bookings == Props \X Texts
Recon == [pc : {"idle", "reading", "answered"}, todo : SUBSET Props,
          read : SUBSET Props, feed : SUBSET Bookings,
          answer : SUBSET Bookings]
NoRecon == [pc |-> "idle", todo |-> {}, read |-> {}, feed |-> {},
            answer |-> {}]

Live == {p \in Props : prop[p] = "live"}
Active(kind, p) ==
    {r \in Rows : row[r].st = "live" /\ row[r].kind = kind /\ row[r].of = p}
Typed(kind) == kind \in {"setting", "app"}

TypeOK ==
    /\ quota \in Quotas /\ highest \in Quotas /\ quota <= highest
    /\ prop \in [Props -> {"none", "live", "deleted"}]
    /\ row \in [Rows -> Row] /\ stays \in [Props -> SUBSET Texts]
    /\ task \in [Tasks -> Task] /\ recon \in Recon
    /\ left \in [Operations -> Nat] /\ failures \in 0 .. MaxFailures
    /\ late \subseteq Props \cup Rows
    /\ watch \in [steady : SUBSET Bookings, booked : SUBSET Bookings,
                  silent : SUBSET Bookings]
    \* unique indexes and foreign keys
    /\ \A r \in Rows : row[r].of # None => prop[row[r].of] # "none"
    /\ \A r, s \in Rows :
          /\ r # s /\ row[r].kind = row[s].kind
          /\ row[r].key # None /\ row[r].key = row[s].key
          => \/ row[r].kind = "setting"
                /\ (row[r].of # row[s].of \/ "deleted" \in {row[r].st, row[s].st})
             \/ row[r].kind \notin {"setting", "app"}
    \* a value is of the type of its row: one patch may change the type under
    \* another that changes the value alone (refineSettingValueForType)
    /\ \A r \in Rows : row[r].st = "live" /\ Typed(row[r].kind)
                         => row[r].type = TypeOf[row[r].text]
    \* a lock has one holder
    /\ \A t, u \in Tasks :
          t # u /\ task[t].lock # "none" => task[t].lock # task[u].lock

Init ==
    /\ quota \in Quotas /\ highest = quota
    /\ prop = [p \in Props |-> "none"] /\ row = [r \in Rows |-> NoRow]
    /\ stays = [p \in Props |-> {}]
    /\ task = [t \in Tasks |-> Idle] /\ recon = NoRecon
    /\ left \in Budgets /\ failures = 0 /\ late = {}
    /\ watch = [steady |-> {}, booked |-> {}, silent |-> {}]

-----------------------------------------------------------------------------
Pending == UNION {task[t].done : t \in Tasks}
NewProps == {p \in Props : prop[p] = "none"} \ Pending
NewRows == {r \in Rows : row[r].st = "none"} \ Pending
(* Any unused identifier will do. *)
NewProp == CHOOSE p \in NewProps : TRUE
NewRow == CHOOSE r \in NewRows : TRUE

Spend(op, on) ==
    /\ left[<<op, on>>] > 0
    /\ left' = [left EXCEPT ![<<op, on>>] = @ - 1]
Begin(t, op, on, pc, fields) ==
    /\ task[t].pc = "idle" /\ Spend(op, on)
    /\ task' = [task EXCEPT ![t] = [fields EXCEPT !.op = op, !.on = on,
                                                  !.pc = pc]]
    /\ UNCHANGED <<tables, others, failures>>
At(t, op, on, pc) ==
    /\ task[t].op = op /\ task[t].on = on /\ task[t].pc = pc
    /\ UNCHANGED <<others, left, failures>>
GoTo(t, pc) == task' = [task EXCEPT ![t].pc = pc]
End(t) == task' = [task EXCEPT ![t] = Idle]

(* Deleted while another request is about to write what it has read. *)
Overtaken(x) ==
    \E u \in Tasks : /\ task[u].op = "update" /\ task[u].pc = "write"
                     /\ x \in {task[u].p, task[u].r}
                     /\ task[u].on = "property" <=> x \in Props

-----------------------------------------------------------------------------
(* CreateProperty and ImportBatchProperties. The quota is read before the  *)
(* transaction; every row of an import is counted under the same lock.     *)

CreateProperty(t) ==
    NewProps # {}
    /\ Begin(t, "create", "property", "lock", [Idle EXCEPT !.quota = quota])
ImportProperties(t) ==
    Begin(t, "import", "property", "rows", [Idle EXCEPT !.quota = quota])

Adding(t, pc) ==
    \E op \in {"create", "import"} : At(t, op, "property", pc)

(* Fault: nobody waits for the lock. *)
FreeAlways(t, l) == TRUE
(* pg_advisory_xact_lock: reentrant, waits for other transactions.         *)
Free(t, l) == \A u \in Tasks \ {t} : task[u].lock # l

LockOwner(t) ==
    /\ Adding(t, "lock") /\ Free(t, "owner")
    /\ task' = [task EXCEPT ![t].lock = "owner", ![t].pc = "count"]
    /\ UNCHANGED tables

CountFromUser(t) == Cardinality(Live) + Cardinality(task[t].done)

EnsureWithinQuota(t) ==
    /\ Adding(t, "count")
    /\ IF CountFromUser(t) >= task[t].quota THEN End(t) ELSE GoTo(t, "insert")
    /\ UNCHANGED tables

InsertProperty(t) ==
    /\ Adding(t, "insert") /\ NewProps # {}
    /\ \/ /\ task[t].op = "create"
          /\ prop' = [prop EXCEPT ![NewProp] = "live"] /\ End(t)
       \/ /\ task[t].op = "import"
          /\ task' = [task EXCEPT ![t].done = @ \cup {NewProp},
                                  ![t].pc = "rows"]
          /\ UNCHANGED prop
    /\ UNCHANGED <<row, late>>

(* The next record of the file is valid. *)
ImportPropertyRow(t) ==
    /\ At(t, "import", "property", "rows") /\ NewProps # {}
    /\ GoTo(t, "lock")
    /\ UNCHANGED tables

(* ImportRunner: the file ends, or a record is invalid and the rest of the *)
(* file is only validated before the transaction is taken back.            *)
ImportPropertiesCommit(t) ==
    /\ At(t, "import", "property", "rows") /\ task[t].done # {}
    /\ prop' = [p \in Props |-> IF p \in task[t].done THEN "live"
                                                      ELSE prop[p]]
    /\ End(t)
    /\ UNCHANGED <<row, late>>
ImportReject(t) ==
    /\ \E on \in {"property", "entry"} : At(t, "import", on, "rows")
    /\ End(t)
    /\ UNCHANGED tables

-----------------------------------------------------------------------------
(* UpdateProperty and DeleteProperty load the property, check who owns it  *)
(* and save the whole row, deleted_at included. The stays that a deletion  *)
(* cancels are the subject of StayBooking.                                 *)

UpdateProperty(t) ==
    \E p \in Live : Begin(t, "update", "property", "write",
                          [Idle EXCEPT !.p = p])
DeleteProperty(t) ==
    \E p \in Live : Begin(t, "delete", "property", "write",
                          [Idle EXCEPT !.p = p])

SaveProperty(t) ==
    /\ \/ At(t, "update", "property", "write")
          /\ prop' = [prop EXCEPT ![task[t].p] = "live"]
          /\ UNCHANGED late
       \/ At(t, "delete", "property", "write")
          /\ prop' = [prop EXCEPT ![task[t].p] = "deleted"]
          /\ late' = IF Overtaken(task[t].p) THEN late \cup {task[t].p}
                                             ELSE late
    /\ End(t)
    /\ UNCHANGED row

-----------------------------------------------------------------------------
(* Settings, calendars, ledger entries and application settings: one       *)
(* handler per operation and kind, of one form. All but the last check the *)
(* property first.                                                         *)

Create(t, on, pc, p, key, text) ==
    /\ NewRows # {}
    /\ Begin(t, "create", on, pc,
             [Idle EXCEPT !.p = p, !.key = key, !.text = text])
CreateSetting(t) ==
    \E p \in Live, key \in Keys, text \in Texts :
       Create(t, "setting", "find", p, key, text)
CreateApp(t) ==
    \E key \in Keys, text \in Texts : Create(t, "app", "find", None, key, text)
CreateSource(t) ==
    \E p \in Live, text \in Texts : Create(t, "source", "insert", p, None, text)
RecordEntry(t) ==
    \E p \in Live, text \in Texts : Create(t, "entry", "insert", p, None, text)

(* A patch may give a value alone, or a value and its type.                *)
Patch(t, on, r, text, retype) ==
    /\ row[r].kind = on
    /\ Begin(t, "update", on, "find", [Idle EXCEPT !.p = row[r].of, !.r = r,
                                         !.text = text, !.retype = retype])
Owned(r) == row[r].of \in Live
UpdateSetting(t) ==
    \E r \in Rows, text \in Texts, retype \in BOOLEAN :
       Owned(r) /\ Patch(t, "setting", r, text, retype)
UpdateApp(t) ==
    \E r \in Rows, text \in Texts, retype \in BOOLEAN :
       Patch(t, "app", r, text, retype)
UpdateSource(t) ==
    \E r \in Rows, text \in Texts :
       Owned(r) /\ Patch(t, "source", r, text, FALSE)

Delete(t, on, r) ==
    /\ row[r].kind = on
    /\ Begin(t, "delete", on, "find", [Idle EXCEPT !.p = row[r].of, !.r = r])
DeleteSetting(t) == \E r \in Rows : Owned(r) /\ Delete(t, "setting", r)
DeleteApp(t) == \E r \in Rows : Delete(t, "app", r)
DeleteSource(t) == \E r \in Rows : Owned(r) /\ Delete(t, "source", r)
DeleteEntry(t) == \E r \in Rows : Owned(r) /\ Delete(t, "entry", r)

FindByKey(t) ==
    \E on \in {"setting", "app"} :
       /\ At(t, "create", on, "find")
       /\ IF \E r \in Active(on, task[t].p) : row[r].key = task[t].key
          THEN End(t)
          ELSE GoTo(t, IF on = "setting" THEN "lock" ELSE "insert")
       /\ UNCHANGED tables

LockProperty(t) ==
    /\ At(t, "create", "setting", "lock") /\ Free(t, task[t].p)
    /\ task' = [task EXCEPT ![t].lock = task[t].p, ![t].pc = "count"]
    /\ UNCHANGED tables

CountActiveSettings(t) ==
    /\ At(t, "create", "setting", "count")
    /\ IF Cardinality(Active("setting", task[t].p)) >= MaxSettings
       THEN End(t) ELSE GoTo(t, "insert")
    /\ UNCHANGED tables

(* Unique indexes: (property_id, key) where deleted_at is null; key, of    *)
(* deleted application settings as well.                                   *)
Taken(on, p, key) ==
    \E r \in Rows :
       /\ row[r].kind = on /\ row[r].key = key
       /\ \/ on = "setting" /\ row[r].of = p /\ row[r].st = "live"
          \/ on = "app"

Insert(t, on) ==
    /\ At(t, "create", on, "insert") /\ NewRows # {}
    /\ row' = [row EXCEPT ![NewRow] =
                  [st |-> "live", kind |-> on, of |-> task[t].p,
                   key |-> task[t].key, text |-> task[t].text,
                   type |-> IF Typed(on) THEN TypeOf[task[t].text] ELSE None]]
    /\ End(t)
    /\ UNCHANGED <<prop, late>>
(* The index refuses the row: ConflictError. *)
Conflict(t) ==
    \E on \in {"setting", "app"} :
       /\ At(t, "create", on, "insert") /\ Taken(on, task[t].p, task[t].key)
       /\ End(t)
       /\ UNCHANGED tables

InsertSetting(t) ==
    ~Taken("setting", task[t].p, task[t].key) /\ Insert(t, "setting")
InsertApp(t) == ~Taken("app", None, task[t].key) /\ Insert(t, "app")
InsertSource(t) == Insert(t, "source")
InsertEntry(t) == Insert(t, "entry")

(* Fault: a deleted row is found as well. *)
FoundAnyway(r) == row[r].st # "none"
Found(r) == row[r].st = "live"

(* The entity refuses a value that is not of its type. *)
Refused(t) == /\ task[t].op = "update" /\ Typed(task[t].on)
              /\ ~task[t].retype
              /\ TypeOf[task[t].text] # row[task[t].r].type

FindById(t) ==
    \E op \in {"update", "delete"}, on \in Kinds :
       /\ At(t, op, on, "find") /\ task[t].r # None
       /\ IF Found(task[t].r) /\ ~Refused(t) THEN GoTo(t, "write") ELSE End(t)
       /\ UNCHANGED tables

(* Fault: only the columns of the patch are written. *)
PatchedColumns(d, w) ==
    [d EXCEPT !.text = w.text,
              !.type = IF w.retype THEN TypeOf[w.text] ELSE @]
(* All of value, type and description as the patched entity has them;      *)
(* deleted_at is left alone.                                               *)
Written(d, w) ==
    [d EXCEPT !.text = w.text,
              !.type = IF Typed(w.on) THEN TypeOf[w.text] ELSE @]

UpdateRow(t, on) ==
    /\ At(t, "update", on, "write")
    /\ row' = [row EXCEPT ![task[t].r] = Written(@, task[t])]
    /\ End(t)
    /\ UNCHANGED <<prop, late>>
WriteSetting(t) == UpdateRow(t, "setting")
WriteApp(t) == UpdateRow(t, "app")
WriteSource(t) == UpdateRow(t, "source")

Redacted(d) == [d EXCEPT !.text = None]
(* Of the four kinds only the setting is redacted. *)
SoftDeleted(d) ==
    [(IF d.kind = "setting" THEN Redacted(d) ELSE d) EXCEPT !.st = "deleted"]

DeleteRow(t, on) ==
    /\ At(t, "delete", on, "write")
    /\ row' = [row EXCEPT ![task[t].r] = SoftDeleted(@)]
    /\ late' = IF Overtaken(task[t].r) THEN late \cup {task[t].r} ELSE late
    /\ End(t)
    /\ UNCHANGED prop
RemoveSetting(t) == DeleteRow(t, "setting")
RemoveApp(t) == DeleteRow(t, "app")
RemoveSource(t) == DeleteRow(t, "source")
(* A ledger entry is saved, whole but for its property.                    *)
RemoveEntry(t) == DeleteRow(t, "entry")

(* ImportBatchLedgerEntries keeps the property it has loaded for the rest  *)
(* of the file, and writes in the transaction of the import.  Bound: the   *)
(* rows of a file are of one property.                                     *)
ImportEntries(t) ==
    \E p \in Live : Begin(t, "import", "entry", "rows", [Idle EXCEPT !.p = p])
ImportEntryRow(t) ==
    /\ At(t, "import", "entry", "rows") /\ NewRows # {}
    /\ task' = [task EXCEPT ![t].done = @ \cup {NewRow}]
    /\ UNCHANGED tables
ImportEntriesCommit(t) ==
    /\ At(t, "import", "entry", "rows") /\ task[t].done # {}
    /\ row' = [r \in Rows |-> IF r \in task[t].done
                              THEN [NoRow EXCEPT !.st = "live", !.kind = "entry",
                                                 !.of = task[t].p]
                              ELSE row[r]]
    /\ End(t)
    /\ UNCHANGED <<prop, late>>

(* A statement fails or the process dies: a transaction is rolled back.    *)
Die(t) ==
    /\ task[t].pc # "idle" /\ failures < MaxFailures
    /\ failures' = failures + 1
    /\ End(t)
    /\ UNCHANGED <<tables, others, left>>

-----------------------------------------------------------------------------
(* ReconcileExternalBookings: the properties, then for each the calendars  *)
(* and their feeds, then the pending stays; what a feed reports on a day   *)
(* no stay begins is unreconciled.                                         *)

ReconcileStart ==
    /\ recon.pc = "idle" /\ Spend("reconcile", "source")
    /\ recon' = [NoRecon EXCEPT !.pc = "reading", !.todo = Live]
    /\ UNCHANGED <<tables, task, quota, highest, stays, failures>>

(* Fault: calendars that were disconnected are read too. *)
FeedOfAll(p) ==
    {row[r].text : r \in {s \in Rows : row[s].kind = "source"
                                          /\ row[s].of = p}}
Sources(p) == Active("source", p)
Feed(p) == {row[r].text : r \in Sources(p)}

ReconcileSources ==
    /\ recon.pc = "reading"
    /\ \E p \in recon.todo :
          recon' = [recon EXCEPT !.todo = @ \ {p}, !.read = @ \cup {p},
                                 !.feed = @ \cup ({p} \X Feed(p))]
    /\ UNCHANGED <<tables, task, left, quota, highest, stays, failures>>

ReconcileStays ==
    /\ recon.pc = "reading"
    /\ \E p \in recon.read :
          recon' = [recon EXCEPT !.read = @ \ {p},
                       !.answer = @ \cup {b \in recon.feed : b[1] = p /\
                                             b[2] \notin stays[p]}]
    /\ UNCHANGED <<tables, task, left, quota, highest, stays, failures>>

ReconcileAnswer ==
    /\ recon.pc = "reading" /\ recon.todo \cup recon.read = {}
    /\ recon' = [recon EXCEPT !.pc = "answered"]
    /\ UNCHANGED <<tables, task, left, quota, highest, stays, failures>>

-----------------------------------------------------------------------------
(* The plan of the owner changes; a stay is booked, canceled or over.      *)
ChangeQuota ==
    /\ Spend("change", "quota")
    /\ quota' \in Quotas
    /\ highest' = IF quota' > highest THEN quota' ELSE highest
    /\ UNCHANGED <<tables, task, stays, recon, failures>>
ChangeStays ==
    /\ Spend("change", "stays")
    /\ \E p \in Live, d \in Texts :
          stays' = [stays EXCEPT ![p] = IF d \in @ THEN @ \ {d}
                                                  ELSE @ \cup {d}]
    /\ UNCHANGED <<tables, task, quota, highest, recon, failures>>

(* What a reconciliation may rely on: bookings reported throughout by an   *)
(* active calendar of a live property and not met by a stay, days booked   *)
(* throughout, days no calendar reported throughout.                       *)
Reported == {b \in Bookings : \E r \in Active("source", b[1]) :
                                 row[r].text = b[2]}
Watch ==
    watch' = IF recon'.pc # "reading" THEN watch
             ELSE IF recon.pc = "idle"
             THEN [steady |-> {b \in Reported : b[1] \in Live
                                  /\ b[2] \notin stays[b[1]]},
                   booked |-> {b \in Bookings : b[2] \in stays[b[1]]},
                   silent |-> Bookings \ Reported]
             ELSE [steady |-> {b \in watch.steady : /\ b \in Reported'
                                  /\ b[1] \in Live' /\ b[2] \notin stays'[b[1]]},
                   booked |-> {b \in watch.booked : b[2] \in stays'[b[1]]},
                   silent |-> watch.silent \ Reported']

Step ==
    \/ \E t \in Tasks :
          \/ CreateProperty(t) \/ ImportProperties(t) \/ LockOwner(t)
          \/ EnsureWithinQuota(t) \/ InsertProperty(t)
          \/ ImportPropertyRow(t) \/ ImportPropertiesCommit(t)
          \/ ImportReject(t)
          \/ UpdateProperty(t) \/ DeleteProperty(t) \/ SaveProperty(t)
          \/ CreateSetting(t) \/ CreateApp(t) \/ CreateSource(t)
          \/ RecordEntry(t) \/ FindByKey(t) \/ LockProperty(t)
          \/ CountActiveSettings(t) \/ Conflict(t)
          \/ InsertSetting(t) \/ InsertApp(t) \/ InsertSource(t)
          \/ InsertEntry(t)
          \/ UpdateSetting(t) \/ UpdateApp(t) \/ UpdateSource(t)
          \/ DeleteSetting(t) \/ DeleteApp(t) \/ DeleteSource(t)
          \/ DeleteEntry(t) \/ FindById(t)
          \/ WriteSetting(t) \/ WriteApp(t) \/ WriteSource(t)
          \/ RemoveSetting(t) \/ RemoveApp(t) \/ RemoveSource(t)
          \/ RemoveEntry(t)
          \/ ImportEntries(t) \/ ImportEntryRow(t) \/ ImportEntriesCommit(t)
          \/ Die(t)
    \/ ReconcileStart \/ ReconcileSources \/ ReconcileStays
    \/ ReconcileAnswer \/ ChangeQuota \/ ChangeStays

Next == Step /\ Watch
Spec == Init /\ [][Next]_vars

-----------------------------------------------------------------------------
(* However creations and imports overlap and the plan changes, the owner   *)
(* never has more properties than the plan ever allowed, but for one that  *)
(* a late update brought back; and no property more active settings than   *)
(* MAX_ACTIVE_PROPERTY_SETTINGS (saveNewWithinQuota, PropertySetting       *)
(* PostgresRepository.save).                                               *)
LimitsHold ==
    /\ Cardinality(Live \ late) <= highest
    /\ \A p \in Props : Cardinality(Active("setting", p)) <= MaxSettings

(* What is deleted stays deleted, and a deleted setting stays redacted,    *)
(* unless an update had read it before: the update of a property then      *)
(* brings the property back, the update of a setting its content. A        *)
(* deleted row of the other kinds never comes back at all.                 *)
DeletionSticks ==
    [][/\ \A p \in Props \ late :
             prop[p] = "deleted" => prop'[p] = "deleted"
       /\ \A r \in Rows : row[r].st = "deleted" => row'[r].st = "deleted"
       /\ \A r \in Rows \ late' :
             row'[r].st = "deleted" /\ row'[r].kind = "setting"
                => row'[r].text = None]_vars

(* A reconciliation reports what an active calendar of a live property     *)
(* reported all along without a stay beginning that day; it reports        *)
(* nothing that no calendar reported, or that was booked, all along,       *)
(* whatever changed while it read table after table.                       *)
ReconcileAnswers ==
    recon.pc = "answered" =>
       /\ watch.steady \subseteq recon.answer
       /\ recon.answer \cap (watch.booked \cup watch.silent) = {}
=============================================================================
