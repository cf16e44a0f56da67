------------------------------- MODULE Pages -------------------------------
(***************************************************************************)
(* The paged lists: movements, notifications, subscription history and     *)
(* settings. Each list runs two or three queries in parallel, every one on *)
(* the rows it finds: the page itself, how many rows there are, and of     *)
(* notifications how many are unread.                                      *)
(*                                                                         *)
(* PostgreSQL orders the rows by the columns it is given and rows that are *)
(* equal in these as it likes, in each query anew: an order is a set of    *)
(* pairs, a listing is any numbering of the rows that respects it.         *)
(***************************************************************************)
EXTENDS Integers, FiniteSets

MaxPage == 10000
MaxLimit == 100
Inputs == [page : 1 .. MaxPage, limit : 1 .. MaxLimit]

(* calculatePaginationMetadata *)
TotalPages(limit, total) == (total + limit - 1) \div limit
Metadata(in, total) ==
    [page |-> in.page, limit |-> in.limit, total |-> total,
     total_pages |-> TotalPages(in.limit, total),
     has_next |-> in.page < TotalPages(in.limit, total),
     has_previous |-> in.page > 1]

(***************************************************************************)
(* ORDER BY, LIMIT and OFFSET                                              *)
(***************************************************************************)

Listings(rows, order) ==
    {at \in [rows -> 1 .. Cardinality(rows)] :
       /\ \A a, b \in rows : at[a] = at[b] => a = b
       /\ \A n \in 1 .. Cardinality(rows) : \E a \in rows : at[a] = n
       /\ \A a, b \in rows : <<a, b>> \in order => at[a] < at[b]}

Offset(in) == (in.page - 1) * in.limit
OnPage(position, in) == Offset(in) < position /\ position <= Offset(in) + in.limit
PageOf(rows, at, in) == {r \in rows : OnPage(at[r], in)}

Answers(rows, counted, order, in) ==
    {[data |-> PageOf(rows, at, in), pagination |-> Metadata(in, Cardinality(counted))] :
       at \in Listings(rows, order)}

(* Newest first, and nothing else.                                         *)
NewestFirst(rows) == {p \in rows \X rows : p[1].created_at > p[2].created_at}

(***************************************************************************)
(* The lists; "then" is the table as the count finds it.                   *)
(***************************************************************************)

Owned(property, user) == property.user = user /\ ~property.deleted

Unbounded == -1
Movements(entries, property, start, end) ==
    {e \in entries : /\ e.property = property.id /\ ~e.deleted
                     /\ start # Unbounded => start <= e.created_at
                     /\ end # Unbounded => e.created_at <= end}
FindByPropertyId(entries, then, property, start, end, in) ==
    LET rows == Movements(entries, property, start, end)
    IN  Answers(rows, Movements(then, property, start, end), NewestFirst(rows), in)
FindPropertyFinancialMovements(entries, then, property, user, start, end, in) ==
    IF Owned(property, user)
    THEN FindByPropertyId(entries, then, property, start, end, in)
    ELSE {}

SettingsOf(settings, property) ==
    {s \in settings : s.property = property.id /\ ~s.deleted}
ListPropertySettings(settings, then, property, user, in) ==
    LET rows == SettingsOf(settings, property)
    IN  IF Owned(property, user)
        THEN Answers(rows, SettingsOf(then, property), NewestFirst(rows), in)
        ELSE {}

Kept(rows) == {r \in rows : ~r.deleted}
ListAppSettings(settings, then, in) ==
    Answers(Kept(settings), Kept(then), NewestFirst(Kept(settings)), in)

(* desc(occurred_at), desc(created_at), desc(id) *)
HistoryOrder(rows) ==
    {p \in rows \X rows :
       LET a == p[1]  b == p[2]
       IN  \/ a.occurred_at > b.occurred_at
           \/ /\ a.occurred_at = b.occurred_at
              /\ \/ a.created_at > b.created_at
                 \/ a.created_at = b.created_at /\ a.id > b.id}
HistoryOfUser(entries, then, user, in) ==
    LET ofUser(table) == {e \in table : e.user = user}
    IN  Answers(ofUser(entries), ofUser(then), HistoryOrder(ofUser(entries)), in)

InboxOrder(rows) ==
    {p \in rows \X rows :
       \/ p[1].created_at > p[2].created_at
       \/ p[1].created_at = p[2].created_at /\ p[1].id > p[2].id}
InboxScope(table, user) ==
    {n \in table : n.user = user /\ n.sent /\ n.inboxType /\ ~n.deleted}
InboxOfUser(table, then, later, user, in) ==
    LET rows == InboxScope(table, user)
    IN  {[data |-> answer.data, pagination |-> answer.pagination,
          unread_count |-> Cardinality({n \in InboxScope(later, user) : ~n.read})] :
            answer \in Answers(rows, InboxScope(then, user), InboxOrder(rows), in)}

(* What has no text in the language of the user is left out of the page.   *)
ListNotifications(table, then, later, user, in) ==
    {[answer EXCEPT !.data = {n \in @ : n.renders}] :
       answer \in InboxOfUser(table, then, later, user, in)}

(***************************************************************************)
(* Bounded inputs                                                          *)
(***************************************************************************)

(* The pages are as many as the rows need, and has_next ends at the last.  *)
ASSUME MetadataAssumption ==
    \A limit \in 1 .. 4, total \in 0 .. 9, page \in 1 .. 10 :
       LET meta == Metadata([page |-> page, limit |-> limit], total)
       IN  /\ (meta.total_pages - 1) * limit < total \/ total = 0
           /\ total <= meta.total_pages * limit
           /\ meta.has_next <=> page * limit < total

(* Four rows of which two were created at the same time: the inbox has one *)
(* listing and its pages show each row once, the movements have two.       *)
ASSUME ListingAssumption ==
    LET row(id, created) ==
            [id |-> id, created_at |-> created, user |-> "u", property |-> "p",
             sent |-> TRUE, inboxType |-> TRUE, deleted |-> FALSE,
             read |-> id = 1, renders |-> TRUE]
        rows == {row(1, 1), row(2, 2), row(3, 2), row(4, 3)}
        at(page) == [page |-> page, limit |-> 2]
        inbox(page) == ListNotifications(rows, rows, rows, "u", at(page))
        property == [id |-> "p", user |-> "u", deleted |-> FALSE]
        movements(page) == FindPropertyFinancialMovements(rows, rows, property, "u",
                                                          Unbounded, Unbounded, at(page))
    IN  /\ Cardinality(inbox(1)) = 1 /\ Cardinality(inbox(2)) = 1
        /\ \A a \in inbox(1), b \in inbox(2) :
              /\ a.data \cap b.data = {} /\ a.data \cup b.data = rows
              /\ a.unread_count = 3
        /\ \E a \in movements(1), b \in movements(2) : a.data \cap b.data # {}
        /\ FindPropertyFinancialMovements(rows, rows, property, "v",
                                          Unbounded, Unbounded, at(1)) = {}

=============================================================================
