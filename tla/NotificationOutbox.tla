------------------------- MODULE NotificationOutbox -------------------------
(***************************************************************************)
(* The notification outbox: handlers queue rows unless the user turned the *)
(* type off, a timer in the process claims due rows in batches and delivers*)
(* them one by one over e-mail, users mark what was sent as read, and      *)
(* purging a user takes the rows with it.                                  *)
(*                                                                         *)
(* Time is the order in which rows fall due: due lists the rows whose      *)
(* next_attempt_at has passed, earliest first, which is the order claimDue *)
(* takes them in.  A claim or a retry moves next_attempt_at into the       *)
(* future, so the row leaves due until Elapse puts it back; that may happen*)
(* while the run that claimed it is still going (the lease is 5 minutes).  *)
(***************************************************************************)
EXTENDS Naturals, Sequences, SequencesExt

CONSTANTS
    Notes,              \* what happens: a user and a notification type each
    Runs,               \* timer ticks that may be in flight at once
    MaxAttempts,        \* MAX_DELIVERY_ATTEMPTS
    BatchSize,          \* NOTIFICATION_DELIVERY_BATCH_SIZE
    MaxCrashes, MaxOutages   \* bounds: process crashes, failed saves

(* NOTIFICATION_TYPE_REGISTRY: the types, and whether one may be turned    *)
(* off.  Every type is delivered over the only channel, e-mail.            *)
TypeRegistry == [subscription_payment_failed |-> [optional |-> FALSE],
                 subscription_trial_ending   |-> [optional |-> TRUE],
                 identity_linked             |-> [optional |-> FALSE]]

Owner(n) == n[1]
Type(n) == n[2]
Users == {Owner(n) : n \in Notes}
Optional == {n \in Notes : TypeRegistry[Type(n)].optional}

ASSUME OutboxAssumption ==
    /\ \A n \in Notes : Type(n) \in DOMAIN TypeRegistry
    /\ MaxAttempts \in Nat \ {0} /\ BatchSize \in Nat \ {0}
    /\ MaxCrashes \in Nat /\ MaxOutages \in Nat

VARIABLES
    row,        \* notifications table
    turnedOff,  \* notification_preferences: the rows with enabled = false
    due,        \* rows whose next_attempt_at has passed, oldest first
    purged,     \* users deleted on request
    running,    \* the timer's guard
    run,        \* what each tick still has to do with the batch it claimed
    task,       \* handler or request in flight for a notification
    crashes, outages,   \* how much of the bounds is used up
    \* History variables, read by the properties only:
    emails,     \* messages the mail provider accepted
    lost        \* of those, how many the table did not learn about

vars == <<row, turnedOff, due, purged, running, run, task, crashes, outages,
          emails, lost>>

-----------------------------------------------------------------------------
Snapshot == [note : Notes, st : {"pending", "sent", "failed"},
             attempts : 0 .. MaxAttempts, read : BOOLEAN]
Row == [st : {"none", "pending", "sent", "failed", "gone"},
        attempts : 0 .. MaxAttempts, read : BOOLEAN]
NoRow == [st |-> "none", attempts |-> 0, read |-> FALSE]
Idle == [pc |-> "idle", batch |-> <<>>]
(* A suspended handler, with the row MarkNotificationRead has loaded. *)
Task == [pc : {"idle", "create", "read"}, seen : Row]
NoTask == [pc |-> "idle", seen |-> NoRow]

TypeOK ==
    /\ row \in [Notes -> Row]
    /\ \A i \in DOMAIN due : due[i] \in Notes /\ row[due[i]].st = "pending"
    /\ IsInjective(due)
    /\ turnedOff \subseteq Optional
    /\ purged \subseteq Users
    /\ running \in BOOLEAN
    /\ \A w \in Runs :
          /\ run[w].pc \in {"idle", "deliver", "save"}
          /\ run[w].batch \in Seq(Snapshot)
          /\ run[w].pc = "idle" <=> run[w].batch = <<>>
    /\ task \in [Notes -> Task]
    /\ crashes \in 0 .. MaxCrashes /\ outages \in 0 .. MaxOutages
    /\ \A n \in Notes : emails[n] \in Nat /\ lost[n] \in Nat

Init ==
    /\ row = [n \in Notes |-> NoRow]
    /\ turnedOff = {}
    /\ due = <<>>
    /\ purged = {}
    /\ running = FALSE
    /\ run = [w \in Runs |-> Idle]
    /\ task = [n \in Notes |-> NoTask]
    /\ crashes = 0 /\ outages = 0
    /\ emails = [n \in Notes |-> 0] /\ lost = [n \in Notes |-> 0]

-----------------------------------------------------------------------------
(* Preferences.  The update reads the user's preferences and upserts on    *)
(* (user, type, channel): it carries nothing it read, so it is one step.   *)
(* A type that is not optional is refused.                                 *)

MayTurnOff(n) == TypeRegistry[Type(n)].optional

ChangeTo(n, enabled) ==
    IF enabled THEN turnedOff \ {n} ELSE turnedOff \cup {n}
SavePreference(n, enabled) == turnedOff' = ChangeTo(n, enabled)

UpdatePreference(n, enabled) ==
    /\ MayTurnOff(n) /\ Owner(n) \notin purged
    /\ SavePreference(n, enabled)
    /\ UNCHANGED <<row, due, purged, running, run, task, crashes,
                  outages,
                   emails, lost>>

IsEnabled(n) == TypeRegistry[Type(n)].optional => n \notin turnedOff

-----------------------------------------------------------------------------
(* Queueing.  The service reads the preferences, then inserts.  An unknown *)
(* type or an invalid payload ends the handler before it writes; what the  *)
(* insert throws the handler swallows.                                     *)

Notify(n) ==
    /\ task[n] = NoTask /\ row[n].st = "none" /\ Owner(n) \notin purged
    /\ IsEnabled(n)
    /\ task' = [task EXCEPT ![n].pc = "create"]
    /\ UNCHANGED <<row, turnedOff, due, purged, running, run, crashes,
                  outages,
                   emails, lost>>

(* user_id references users: inserting for a purged user throws. *)
Insert(n) == row' = IF Owner(n) \in purged THEN row
                    ELSE [row EXCEPT ![n].st = "pending"]

SaveMany(n) ==
    /\ task[n].pc = "create"
    /\ Insert(n)
    /\ task' = [task EXCEPT ![n] = NoTask]
    /\ UNCHANGED <<turnedOff, due, purged, running, run, crashes, outages,
                  emails, lost>>

(* next_attempt_at passes: of a new row, a scheduled one, a retry, or the  *)
(* lease of a claimed one.                                                 *)
Elapse(n) ==
    /\ row[n].st = "pending"
    /\ ~Contains(due, n)
    /\ due' = Append(due, n)
    /\ UNCHANGED <<row, turnedOff, purged, running, run, task, crashes,
                  outages,
                   emails, lost>>

-----------------------------------------------------------------------------
(* One delivery run.                                                       *)

(* The rows of ns leave due; the others stay in their order.               *)
Leave(ns) ==
    LET stay == {i \in DOMAIN due : due[i] \notin ns}
    IN  \E at \in [1 .. Cardinality(stay) -> stay] :
           /\ \A i, j \in DOMAIN at : i < j => at[i] < at[j]
           /\ due' = [i \in DOMAIN at |-> due[at[i]]]

Claimed(n) == [note |-> n, st |-> row[n].st, attempts |-> row[n].attempts,
               read |-> row[n].read]

(* Fault: ticks overlap. *)
MayStartAlways(w) == run[w] = Idle
MayStart(w) == run[w] = Idle /\ ~running

(* The oldest are claimed; what reads them back does not order them.       *)
ClaimDue(w) ==
    LET size == IF Len(due) < BatchSize THEN Len(due) ELSE BatchSize
    IN  /\ MayStart(w)
        /\ due # <<>>
        /\ running' = TRUE
        /\ \E at \in Injection(1 .. size, 1 .. size) :
              run' = [run EXCEPT ![w] =
                 [pc |-> "deliver",
                  batch |-> [i \in 1 .. size |-> Claimed(due[at[i]])]]]
        /\ due' = SubSeq(due, size + 1, Len(due))
        /\ UNCHANGED <<row, turnedOff, purged, task, crashes, outages,
                      emails, lost>>

(* Fault: one attempt too many. *)
MarkFailedLate(s) ==
    [s EXCEPT !.attempts = @ + 1,
              !.st = IF s.attempts + 1 > MaxAttempts THEN "failed"
                                                     ELSE "pending"]
MarkFailed(s) ==
    [s EXCEPT !.attempts = @ + 1,
              !.st = IF s.attempts + 1 >= MaxAttempts THEN "failed"
                                                      ELSE "pending"]
MarkSent(s) == [s EXCEPT !.st = "sent"]

Settled(w, s) ==
    run' = [run EXCEPT ![w].pc = "save", ![w].batch[1] = s]

(* What deliver may do: the provider accepts; it does not, or there is no  *)
(* channel or nothing to render; or it accepts and the answer is lost.     *)
SettleHead(w, s) ==
    \/ /\ Settled(w, MarkSent(s))
       /\ emails' = [emails EXCEPT ![s.note] = @ + 1]
       /\ UNCHANGED lost
    \/ /\ Settled(w, MarkFailed(s))
       /\ UNCHANGED <<emails, lost>>
    \/ /\ Settled(w, MarkFailed(s))
       /\ emails' = [emails EXCEPT ![s.note] = @ + 1]
       /\ lost' = [lost EXCEPT ![s.note] = @ + 1]

Deliver(w) ==
    /\ run[w].pc = "deliver"
    /\ SettleHead(w, Head(run[w].batch))
    /\ UNCHANGED <<row, turnedOff, due, purged, running, task,
                  crashes, outages>>

NextOf(batch) == IF Len(batch) = 1 THEN Idle
                 ELSE [pc |-> "deliver", batch |-> Tail(batch)]

(* The row takes every field of the snapshot the run has carried along. *)
SaveHead(w) ==
    LET s == Head(run[w].batch)
    IN  /\ run[w].pc = "save"
        /\ Owner(s.note) \notin purged
        /\ row' = [row EXCEPT ![s.note] =
              [st |-> s.st, attempts |-> s.attempts, read |-> s.read]]
        /\ Leave({s.note})
        /\ run' = [run EXCEPT ![w] = NextOf(run[w].batch)]
        /\ running' = (Len(run[w].batch) > 1)
        /\ UNCHANGED <<turnedOff, purged, task, crashes, outages,
                      emails, lost>>

(* A delivery that succeeded and is not yet in the table is lost. *)
LostWith(ws) ==
    lost' = [n \in Notes |->
        IF \E w \in ws : /\ run[w].pc = "save"
                         /\ Head(run[w].batch).note = n
                         /\ Head(run[w].batch).st = "sent"
        THEN lost[n] + 1 ELSE lost[n]]

(* Fault: no finally around the run. *)
AbortRunStuck(w) ==
    /\ run' = [run EXCEPT ![w] = Idle]
    /\ UNCHANGED running
    /\ LostWith({w})
AbortRun(w) ==
    /\ run' = [run EXCEPT ![w] = Idle]
    /\ running' = FALSE
    /\ LostWith({w})

(* The save throws and takes the rest of the batch with it: the upsert of  *)
(* a purged user's row breaks the foreign key, or the database is down.    *)
SaveFails(w) ==
    /\ run[w].pc = "save"
    /\ \/ /\ Owner(Head(run[w].batch).note) \in purged
          /\ UNCHANGED outages
       \/ /\ outages < MaxOutages
          /\ outages' = outages + 1
    /\ AbortRun(w)
    /\ UNCHANGED <<row, turnedOff, due, purged, task, crashes, emails>>

-----------------------------------------------------------------------------
(* The inbox.                                                              *)

(* Fault: the status is not looked at. *)
ReadableAlways(n) == row[n].st # "none" /\ row[n].st # "gone"
Readable(n) == row[n].st = "sent"

MarkReadFind(n) ==
    /\ task[n] = NoTask /\ Readable(n)
    /\ task' = [task EXCEPT ![n] = [pc |-> "read", seen |-> row[n]]]
    /\ UNCHANGED <<row, turnedOff, due, purged, running, run, crashes,
                  outages,
                   emails, lost>>

(* A whole-row upsert as well. *)
MarkReadSave(n) ==
    /\ task[n].pc = "read"
    /\ row' = IF Owner(n) \in purged THEN row
              ELSE [row EXCEPT ![n] = [task[n].seen EXCEPT !.read = TRUE]]
    /\ task' = [task EXCEPT ![n] = NoTask]
    /\ UNCHANGED <<turnedOff, due, purged, running, run, crashes, outages,
                  emails, lost>>

(* inboxScope: every type of the registry can be rendered. *)
Inbox(u) == {n \in Notes : Owner(n) = u /\ row[n].st = "sent"}

MarkAllRead(u) ==
    /\ row' = [n \in Notes |-> IF n \in Inbox(u)
                               THEN [row[n] EXCEPT !.read = TRUE] ELSE row[n]]
    /\ UNCHANGED <<turnedOff, due, purged, running, run, task, crashes,
                  outages,
                   emails, lost>>

(* Deleting the user cascades to the rows and the preferences. *)
CascadeRows(u) ==
    row' = [n \in Notes |-> IF Owner(n) = u THEN [NoRow EXCEPT !.st = "gone"]
                                            ELSE row[n]]

PurgeUser(u) ==
    /\ u \notin purged
    /\ purged' = purged \cup {u}
    /\ CascadeRows(u)
    /\ turnedOff' = {n \in turnedOff : Owner(n) # u}
    /\ Leave({n \in Notes : Owner(n) = u})
    /\ UNCHANGED <<running, run, task, crashes, outages,
                  emails, lost>>

(* Every run and handler dies where it stands; rows and leases survive. *)
Crash ==
    /\ crashes < MaxCrashes
    /\ crashes' = crashes + 1
    /\ run' = [w \in Runs |-> Idle]
    /\ running' = FALSE
    /\ task' = [n \in Notes |-> NoTask]
    /\ LostWith(Runs)
    /\ UNCHANGED <<row, turnedOff, due, purged, outages, emails>>

-----------------------------------------------------------------------------
Tick(w) == ClaimDue(w) \/ Deliver(w) \/ SaveHead(w) \/ SaveFails(w)

Next ==
    \/ \E n \in Notes : \/ \E b \in BOOLEAN : UpdatePreference(n, b)
                        \/ Notify(n) \/ SaveMany(n) \/ Elapse(n)
                        \/ MarkReadFind(n) \/ MarkReadSave(n)
    \/ \E w \in Runs : Tick(w)
    \/ \E u \in Users : MarkAllRead(u) \/ PurgeUser(u)
    \/ Crash

(* Time passes for every row, the interval timer keeps firing, and a run   *)
(* that has started goes on: deliver settles one way or the other.         *)
Fairness ==
    /\ \A n \in Notes : WF_vars(Elapse(n))
    /\ WF_vars(\E w \in Runs : Tick(w))

Spec == Init /\ [][Next]_vars /\ Fairness

-----------------------------------------------------------------------------
(* What the inbox shows as sent did reach the provider, and a user gets    *)
(* the same notification again only for an outcome the table never learnt: *)
(* the provider's answer, the save or the process was lost between deliver *)
(* and save (deliver_pending_notifications.ts).                            *)
DuplicateNeedsLostOutcome ==
    \A n \in Notes : /\ row[n].st = "sent" => emails[n] > 0
                     /\ emails[n] <= lost[n] + 1

(* Under retries, overlapping readers, purges and crashes each notification*)
(* goes through the life the module promises: it is queued only for a user *)
(* who did not have it turned off when its event was handled (whatever the *)
(* preferences become while the insert is under way), settles once, what a *)
(* user has read stays read although every save rewrites the whole row; a  *)
(* handler suspended across the purge of its user brings no row back.      *)
Lifecycle == INSTANCE NotificationLifecycle
                 WITH status <- [n \in Notes |->
                          IF row[n].st # "none" THEN row[n].st
                          ELSE IF Owner(n) \in purged THEN "gone"
                          ELSE IF task[n].pc = "create" THEN "asked"
                          ELSE "none"],
                      unwanted <- turnedOff,
                      read <- {n \in Notes : row[n].read}
LifecycleHolds == Lifecycle!Spec

(* No notification stays pending: not behind failing ones in the order of  *)
(* claimDue, not behind an aborted batch, not after a crash.               *)
EverySettles ==
    \A n \in Notes : row[n].st = "pending" ~> row[n].st # "pending"
=============================================================================
