---------------------------- MODULE RateLimiter ----------------------------
(***************************************************************************)
(* The fixed-window limiter every route, user and tool shares              *)
(* (core/infra/rate_limit/in_memory_rate_limiter.ts), as operators on its  *)
(* map of entries: key |-> [count, start, window].  A policy is a record   *)
(* [window, max].                                                          *)
(***************************************************************************)
EXTENDS Integers, FiniteSets, Functions

CONSTANT MaxTracked     \* maxTrackedKeys

ASSUME TrackedAssumption == MaxTracked \in Nat \ {0}

NoEntries == [k \in {} |-> [count |-> 0, start |-> 0, window |-> 0]]

Expired(entry, now) == now - entry.start >= entry.window

NewWindow(policy, now) == [count |-> 1, start |-> now, window |-> policy.window]

PutEntry(entries, key, entry) ==
    [k \in DOMAIN entries \union {key} |-> IF k = key THEN entry ELSE entries[k]]

(* A denied attempt counts as well.                                        *)
ConsumeExisting(entries, key, policy, now) ==
    IF Expired(entries[key], now)
    THEN [entries |-> PutEntry(entries, key, NewWindow(policy, now)), allowed |-> TRUE]
    ELSE LET count == entries[key].count + 1
         IN  [entries |-> [entries EXCEPT ![key].count = count],
              allowed |-> count <= policy.max]

PurgeExpired(entries, now) ==
    Restrict(entries, {k \in DOMAIN entries : ~Expired(entries[k], now)})

(* Fault: one key too many. *)
FullLater(entries) == Cardinality(DOMAIN entries) > MaxTracked
Full(entries) == Cardinality(DOMAIN entries) >= MaxTracked

(* At capacity a new key is refused; an entry in its window is never given *)
(* up for it.                                                              *)
ConsumeNew(entries, key, policy, now) ==
    LET kept == IF Full(entries) THEN PurgeExpired(entries, now) ELSE entries
    IN  IF Full(kept)
        THEN [entries |-> kept, allowed |-> FALSE]
        ELSE [entries |-> PutEntry(kept, key, NewWindow(policy, now)), allowed |-> TRUE]

Consume(entries, key, policy, now) ==
    IF key \in DOMAIN entries
    THEN ConsumeExisting(entries, key, policy, now)
    ELSE ConsumeNew(entries, key, policy, now)

=============================================================================
