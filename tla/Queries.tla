------------------------------ MODULE Queries ------------------------------
(***************************************************************************)
(* What a user reads of payments while others pay: the account statement,  *)
(* page by page (GetStatementQuery), the list of sent payments             *)
(* (ListPaymentsQuery) and one payment (GetPaymentQuery).                  *)
(*                                                                         *)
(* The statement is no snapshot.  Every page is a request of its own, and  *)
(* within one request the rows and their total are two concurrent reads.   *)
(* Rows are sorted by createdAt alone, which a saga stamps before it       *)
(* commits: a row may appear anywhere among rows already shown, and rows   *)
(* with one stamp come in any order, a different one each time.            *)
(*                                                                         *)
(* Payments are those of Payments: a row and both its ledger entries       *)
(* appear together and stay.  So the entries of an account are named by    *)
(* their payments.                                                         *)
(***************************************************************************)
EXTENDS Integers, SequencesExt

CONSTANTS
    Payments,   \* the payments that sagas may record
    Accounts,
    From, To,   \* sender and receiver of each payment
    Readers,    \* whose account may be read; NoAccount for a user without one
    Windows,    \* the filters: createdAt from .. to
    Limits,     \* page sizes a client asks for
    ListLimits, \* lengths of the list a client asks for, negative ones too
    Cap,        \* 100: no answer holds more rows
    MaxNow,     \* bound: the last instant
    NoAccount,
    None        \* not stamped, not read, undefined

VARIABLES
    now,
    stamp,      \* createdAt of each payment's row and of its ledger entries
    recorded,   \* the payments whose transaction has committed
    reader,     \* the account of the user who reads
    pc,         \* the next call of the request in progress, or "idle"
    filter,     \* the window and the page size of the walk
    page,
    rows, total,\* what the two reads of this page have returned
    shown,      \* the entries of all pages of the walk so far
    announced,  \* hasNext of the previous page
    base,       \* history: the matching entries when the walk began
    listed,     \* the answer of the last list
    opened      \* the payment last asked for and what the answer says of it

others == <<now, stamp, recorded, reader>>
walk == <<filter, page, rows, total, shown, announced, base>>
vars == <<now, stamp, recorded, reader, pc, filter, page, rows, total, shown, announced,
          base, listed, opened>>

Instant == 0..MaxNow
Window == [from : Instant, to : Instant]

ASSUME QueriesAssumption ==
    /\ From \in [Payments -> Accounts] /\ To \in [Payments -> Accounts]
    /\ \A p \in Payments : From[p] # To[p]
    /\ NoAccount \notin Accounts /\ Readers \subseteq Accounts \cup {NoAccount}
    /\ None \notin Instant /\ None \notin Payments
    /\ MaxNow \in Nat /\ Cap \in Nat \ {0}
    /\ Windows \subseteq Window
    /\ Limits \subseteq Nat \ {0}
    /\ ListLimits \subseteq Int
-----------------------------------------------------------------------------
(* What a query selects *)

\* WHERE accountId = the reader's AND createdAt within the window.
Matching == {p \in recorded : /\ reader \in {From[p], To[p]}
                              /\ stamp[p].entry >= filter.window.from
                              /\ stamp[p].entry <= filter.window.to}

Sent == {p \in recorded : From[p] = reader}

\* Mutant of Newest: ORDER BY createdAt.
Oldest(S, column) ==
    {s \in SetToSeqs(S) : \A i, j \in DOMAIN s :
        i < j => stamp[s[i]][column] <= stamp[s[j]][column]}

\* ORDER BY createdAt DESC: any order of the rows that keeps to the column.
Newest(S, column) ==
    {s \in SetToSeqs(S) : \A i, j \in DOMAIN s :
        i < j => stamp[s[i]][column] >= stamp[s[j]][column]}

Least(m, n) == IF m < n THEN m ELSE n
\* Mutant of Take: the limit as the client gives it.
TakeUncapped == filter.limit

Take == Least(filter.limit, Cap)

\* Mutant of Skip: pages counted from zero.
SkipFromZero == page * filter.limit

Skip == (page - 1) * filter.limit

\* `skip, take' of findMany.
Page(s) == SubSeq(s, Skip + 1, Least(Skip + Take, Len(s)))

\* `take' alone, of which a negative one means the last rows of the order.
First(s, n) == IF n >= 0 THEN SubSeq(s, 1, Least(n, Len(s)))
               ELSE SubSeq(s, Len(s) - Least(-n, Len(s)) + 1, Len(s))

HasNext == page * Take < total
TotalPages == (total + Take - 1) \div Take

\* Mutant of IsParty: only who was paid.
IsReceiver(p) == reader = To[p]

IsParty(p) == reader \in {From[p], To[p]}
-----------------------------------------------------------------------------
Stamps == [row : Instant \cup {None}, entry : Instant \cup {None}]
Answers == {"none", "OUTGOING", "INCOMING", "not found", "forbidden"}

\* No row is visible without its stamps, no page is longer than the cap, and the
\* rest has the shape its code gives it.
TypeOK ==
    /\ now \in Instant
    /\ stamp \in [Payments -> Stamps]
    /\ recorded \subseteq {p \in Payments : None \notin {stamp[p].row, stamp[p].entry}}
    /\ reader \in Readers
    /\ pc \in {"idle", "account", "read", "list", "findPayment", "findParty"}
    /\ filter \in [window : Windows, limit : Limits] \cup {None}
    /\ page \in Nat \ {0}
    /\ rows \in Seq(Payments) \cup {None}
    /\ rows # None => Len(rows) <= Cap
    /\ total \in Nat \cup {None}
    /\ shown \in Seq(Payments) /\ announced \in BOOLEAN
    /\ base \subseteq Payments /\ listed \in Seq(Payments)
    /\ opened \in [payment : Payments \cup {None}, listed : BOOLEAN, answer : Answers]

Init ==
    /\ now = 0
    /\ stamp = [p \in Payments |-> [row |-> None, entry |-> None]]
    /\ recorded = {}
    /\ reader \in Readers
    /\ pc = "idle"
    /\ filter = None /\ page = 1 /\ rows = None /\ total = None
    /\ shown = <<>> /\ announced = FALSE /\ base = {}
    /\ listed = <<>>
    /\ opened = [payment |-> None, listed |-> FALSE, answer |-> "none"]
-----------------------------------------------------------------------------
(* The sagas, in the module Payments *)

\* createdAt is the default of its column, set by the inserts 6a and 6e.
Stamp(p, column) ==
    /\ stamp[p][column] = None
    /\ column = "entry" => stamp[p].row # None
    /\ stamp' = [stamp EXCEPT ![p][column] = now]
    /\ UNCHANGED <<now, recorded, reader, pc, walk, listed, opened>>

Record(p) ==
    /\ p \notin recorded /\ stamp[p].entry # None
    /\ recorded' = recorded \cup {p}
    /\ UNCHANGED <<now, stamp, reader, pc, walk, listed, opened>>

Pass ==
    /\ now < MaxNow /\ now' = now + 1
    /\ UNCHANGED <<stamp, recorded, reader, pc, walk, listed, opened>>
-----------------------------------------------------------------------------
(* The statement *)

\* What a client no longer looks at is forgotten.
ForgetWalk ==
    /\ filter' = None /\ page' = 1 /\ rows' = None /\ total' = None
    /\ shown' = <<>> /\ announced' = FALSE /\ base' = {}
ForgetOpened == opened' = [payment |-> None, listed |-> FALSE, answer |-> "none"]

\* A client asks for the first page.
Walk ==
    /\ pc = "idle" /\ pc' = "account"
    /\ \E w \in Windows, l \in Limits : filter' = [window |-> w, limit |-> l]
    /\ page' = 1 /\ rows' = None /\ total' = None
    /\ shown' = <<>> /\ announced' = FALSE
    /\ UNCHANGED others
    /\ base' = Matching'
    /\ listed' = <<>> /\ ForgetOpened

\* findByUserId: 404 without an account, which ends every request alike.
FindAccount ==
    /\ pc = "account"
    /\ \/ reader # NoAccount /\ pc' = "read" /\ UNCHANGED walk
       \/ reader = NoAccount /\ pc' = "idle" /\ ForgetWalk
    /\ UNCHANGED <<others, listed, opened>>

ReadRows ==
    /\ pc = "read" /\ rows = None
    /\ \E s \in Newest(Matching, "entry") : rows' = Page(s)
    /\ UNCHANGED <<others, pc, filter, page, total, shown, announced, base, listed, opened>>

\* Mutant of ReadTotal: count() without the filter.
ReadTotalUnfiltered ==
    /\ pc = "read" /\ total = None
    /\ total' = Cardinality({p \in recorded : IsParty(p)})
    /\ UNCHANGED <<others, pc, filter, page, rows, shown, announced, base, listed, opened>>

ReadTotal ==
    /\ pc = "read" /\ total = None
    /\ total' = Cardinality(Matching)
    /\ UNCHANGED <<others, pc, filter, page, rows, shown, announced, base, listed, opened>>

\* Promise.all has both: the page is answered, and a client whose page says
\* hasNext asks for the next one.
Answered == pc = "read" /\ rows # None /\ total # None

Turn ==
    /\ Answered /\ HasNext
    /\ pc' = "account"
    /\ page' = page + 1 /\ rows' = None /\ total' = None
    /\ shown' = shown \o rows /\ announced' = TRUE
    /\ UNCHANGED <<others, filter, base, listed, opened>>

Close ==
    /\ Answered /\ ~HasNext
    /\ pc' = "idle" /\ ForgetWalk
    /\ UNCHANGED <<others, listed, opened>>
-----------------------------------------------------------------------------
(* The list, and one payment *)

AskList ==
    /\ pc = "idle" /\ pc' = "list"
    /\ listed' = <<>> /\ ForgetOpened
    /\ UNCHANGED <<others, walk>>

\* The controller caps the limit, the repository takes it as it is.
List ==
    /\ pc = "list" /\ pc' = "idle"
    /\ \/ reader = NoAccount /\ UNCHANGED listed
       \/ /\ reader # NoAccount
          /\ \E s \in Newest(Sent, "row"), n \in ListLimits :
                listed' = First(s, Least(n, Cap))
    /\ UNCHANGED <<others, walk, opened>>

\* GET /payments/:id, the id taken from a list or from anywhere.
Open(p) ==
    /\ pc = "idle" /\ pc' = "findPayment"
    /\ opened' = [payment |-> p, listed |-> p \in ToSet(listed), answer |-> "none"]
    /\ UNCHANGED <<others, walk, listed>>

FindPayment ==
    /\ pc = "findPayment"
    /\ IF opened.payment \in recorded
       THEN pc' = "findParty" /\ UNCHANGED opened
       ELSE pc' = "idle" /\ opened' = [opened EXCEPT !.answer = "not found"]
    /\ UNCHANGED <<others, walk, listed>>

FindParty ==
    /\ pc = "findParty" /\ pc' = "idle"
    /\ LET p == opened.payment
       IN  opened' = [opened EXCEPT !.answer =
              IF reader = NoAccount THEN "not found"
              ELSE IF ~IsParty(p) THEN "forbidden"
              ELSE IF From[p] = reader THEN "OUTGOING" ELSE "INCOMING"]
    /\ UNCHANGED <<others, walk, listed>>

\* A call fails: 500, and the client begins again if he likes.
CallFails ==
    /\ pc # "idle" /\ pc' = "idle"
    /\ ForgetWalk
    /\ UNCHANGED <<others, listed, opened>>

Next ==
    \/ Pass
    \/ \E p \in Payments :
          Stamp(p, "row") \/ Stamp(p, "entry") \/ Record(p) \/ Open(p)
    \/ Walk \/ FindAccount \/ ReadRows \/ ReadTotal \/ Turn \/ Close
    \/ AskList \/ List \/ FindPayment \/ FindParty \/ CallFails

Spec == Init /\ [][Next]_vars
-----------------------------------------------------------------------------
(* Properties *)

\* The walk has seen its last page.  A limit above the cap is out of the
\* question here: the page is cut to the cap, the rows to skip are not.
Walked == Answered /\ ~HasNext /\ filter.limit <= Cap
Seen == shown \o rows

\* However sagas commit between and within the pages, and however equal stamps
\* are sorted, a walk to the last page has shown every entry there was when it
\* began, unless it shows by itself that something came between: an entry
\* twice, or one that is newer than the walk.
CompleteOrTold ==
    Walked => \/ base \subseteq ToSet(Seen)
              \/ ~IsInjective(Seen)
              \/ ~(ToSet(Seen) \subseteq base)

\* A walk nobody commits into is exact: every entry once, the newest first, on
\* as many pages as the answer announces - provided no two entries share a
\* stamp.
QuietWalkIsExact ==
    Walked /\ base = Matching =>
        /\ Len(Seen) = Cardinality(base)
        /\ page = IF base = {} THEN 1 ELSE TotalPages
        /\ (\A p, q \in base : stamp[p].entry = stamp[q].entry => p = q) =>
              \A i, j \in DOMAIN Seen :
                 i < j => stamp[Seen[i]].entry > stamp[Seen[j]].entry

\* A page announced by hasNext has rows, whatever happens until it is read.
AnnouncedPageHasRows ==
    announced /\ rows # None /\ filter.limit <= Cap => rows # <<>>

\* A payment a list has shown can be opened at any time after, and the answer
\* agrees that the reader sent it.
ListedCanBeOpened == opened.listed => opened.answer \in {"none", "OUTGOING"}
=============================================================================
