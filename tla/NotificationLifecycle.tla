----------------------- MODULE NotificationLifecycle -----------------------
(***************************************************************************)
(* What the notification module promises about one notification, whatever  *)
(* worker runs, retries, readers and crashes do underneath: it is asked for*)
(* only while its user wants it, queued once, settles once as sent or      *)
(* failed, can be read only after it was sent, stays read, and disappears  *)
(* only with its user.                                                     *)
(***************************************************************************)
CONSTANTS Notes,
          Optional      \* those a user may turn off

VARIABLES
    status,     \* "none", "asked", "pending", "sent", "failed" or "gone"
    unwanted,   \* the notifications their user has turned off
    read        \* the notifications their user has read

lifecycleVars == <<status, unwanted, read>>

Init == /\ status = [n \in Notes |-> "none"]
        /\ unwanted = {}
        /\ read = {}

Move(n, from, to) == /\ status[n] = from
                     /\ status' = [status EXCEPT ![n] = to]

Prefer(n) == /\ n \in Optional
             /\ unwanted' \in {unwanted \cup {n}, unwanted \ {n}}
             /\ UNCHANGED <<status, read>>

Ask(n) == /\ n \notin unwanted
          /\ Move(n, "none", "asked")
          /\ UNCHANGED <<unwanted, read>>

(* The process dies before anything is stored. *)
Forget(S) == /\ \A n \in S : status[n] = "asked"
             /\ status' = [n \in Notes |-> IF n \in S THEN "none"
                                                      ELSE status[n]]
             /\ UNCHANGED <<unwanted, read>>

Enqueue(n) == /\ Move(n, "asked", "pending")
              /\ UNCHANGED <<unwanted, read>>

Settle(n) == /\ \E outcome \in {"sent", "failed"} :
                   Move(n, "pending", outcome)
             /\ UNCHANGED <<unwanted, read>>

Read(S) == /\ \A n \in S : status[n] = "sent"
           /\ read' = read \cup S
           /\ UNCHANGED <<status, unwanted>>

Purge(S) == /\ status' = [n \in Notes |-> IF n \in S THEN "gone"
                                                     ELSE status[n]]
            /\ unwanted' = unwanted \ S
            /\ read' = read \ S

Next == \/ \E n \in Notes : Prefer(n) \/ Ask(n) \/ Enqueue(n) \/ Settle(n)
        \/ \E S \in SUBSET Notes : Forget(S) \/ Read(S) \/ Purge(S)

Spec == Init /\ [][Next]_lifecycleVars
=============================================================================
