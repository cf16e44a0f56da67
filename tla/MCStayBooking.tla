---------------------------- MODULE MCStayBooking ---------------------------
(* Two requests in turn, one of which may fail, with every price and a     *)
(* longer clock; and two that overlap, in a smaller world: the first       *)
(* instant, one price, no failure, no request that only saves the property *)
(* and no stay canceled twice.                                             *)
EXTENDS StayBooking, CalendarDates, TLC   \* and what CalendarDates assumes

Symmetry == Permutations(Stays) \cup Permutations(Requests)

Small == /\ now = 0 /\ failures = 0
         /\ \A r \in Requests : req[r].kind # "property"
         /\ \A s \in Stays : refund[s] < MaxRefund
         /\ \A table \in {stay} \cup {req[r].rows : r \in Requests} :
               \A s \in Stays : table[s].st # "none" => /\ table[s].price = 1
                                                       /\ table[s].out < MaxTime

MCSpec == Init /\ [][Next /\ (overlapped => Small)']_vars
=============================================================================
