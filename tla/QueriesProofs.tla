--------------------------- MODULE QueriesProofs ---------------------------
(* What holds of Queries for every set of payments, windows and limits, and for *)
(* every cap: the pages of a walk, whatever sagas commit between them.          *)
EXTENDS Queries, FiniteSetTheorems, SequenceTheorems, TLAPS

-----------------------------------------------------------------------------
(* The invariant, in parts *)

Walking == pc \in {"account", "read"}

\* Without a walk nothing is left of one, and a page begins with nothing read.
ControlInv ==
    /\ IsFiniteSet(recorded)
    /\ \A p \in Payments : stamp[p].entry # None => stamp[p].row # None
    /\ Walking => filter \in [window : Windows, limit : Limits]
    /\ pc # "read" => rows = None /\ total = None
    /\ ~Walking => ~announced

\* What a list has shown stays sent by its reader.
ListInv ==
    /\ ToSet(listed) \subseteq Sent
    /\ opened.listed => opened.payment \in Sent /\ opened.answer \in {"none", "OUTGOING"}

\* The entries only grow in number, so a total read earlier is at most theirs.
AnnouncedInv ==
    Walking =>
        /\ base \subseteq Matching
        /\ total # None =>
              Cardinality(base) <= total /\ total <= Cardinality(Matching)
        /\ announced => (page - 1) * Take < Cardinality(Matching)
        /\ announced /\ rows # None /\ filter.limit <= Cap => rows # <<>>

\* Every page takes its share of at least the entries of the beginning.
CompleteInv ==
    Walking /\ filter.limit <= Cap =>
        /\ Len(shown) >= Least(Skip, Cardinality(base))
        /\ rows # None => Skip + Len(rows) >= Least(Skip + Take, Cardinality(base))

\* Of entries with the stamps `at'.
Newer(at, S, p) == {q \in S : at[q].entry > at[p].entry}
Distinct(at, S) == \A p, q \in S : at[p].entry = at[q].entry => p = q

\* Entry i has i - 1 newer ones in its page and `before' on the pages before.
Ranked(at, s, before, S) ==
    \A i \in DOMAIN s : s[i] \in S /\ Cardinality(Newer(at, S, s[i])) = before + i - 1

\* As long as nobody commits, each page shows exactly its share, and each entry
\* stands at its rank.
QuietInv ==
    Walking /\ filter.limit <= Cap /\ base = Matching =>
        /\ Len(shown) = Skip
        /\ page > 1 => Skip < Cardinality(base)
        /\ total # None => total = Cardinality(base)
        /\ rows # None => Skip + Len(rows) =
              IF Cardinality(base) < Skip THEN Skip ELSE Least(Skip + Take, Cardinality(base))
        /\ Distinct(stamp, base) =>
              /\ Ranked(stamp, shown, 0, base)
              /\ rows # None => Ranked(stamp, rows, Skip, base)

QueriesInv ==
    TypeOK /\ ControlInv /\ ListInv /\ AnnouncedInv /\ CompleteInv /\ QuietInv
-----------------------------------------------------------------------------
(* What the selections return *)

\* Any order of a finite set of rows holds each of them once.
LEMMA NewestGives ==
    ASSUME IsFiniteSet(recorded), NEW S, S \subseteq recorded, NEW c, NEW s \in Newest(S, c)
    PROVE  /\ s \in Seq(S) /\ Len(s) = Cardinality(S) /\ Cardinality(S) \in Nat
           /\ DOMAIN s = 1..Cardinality(S)
           /\ s \in Injection(1..Cardinality(S), S)
           /\ ToSet(s) = S
           /\ \A i, j \in DOMAIN s : i < j => stamp[s[i]][c] >= stamp[s[j]][c]
  <1> DEFINE n == Cardinality(S)
  <1>1. IsFiniteSet(S)
    BY FS_Subset
  <1>2. n \in Nat
    BY <1>1, FS_CardinalityType
  <1>3. s \in [1..n -> S] /\ \A i, j \in 1..n : i # j => s[i] # s[j]
    BY DEF Newest, SetToSeqs
  <1>4. \A i, j \in DOMAIN s : i < j => stamp[s[i]][c] >= stamp[s[j]][c]
    BY DEF Newest
  <1>5. s \in Injection(1..n, S)
    BY <1>3 DEF Injection, IsInjective
  <1>6. IsFiniteSet(1..n) /\ Cardinality(1..n) = n
    BY <1>2, FS_Interval
  <1> HIDE DEF n
  <1>7. s \in Surjection(1..n, S)
    BY <1>1, <1>5, <1>6, FS_Injection DEF n
  <1>8. ToSet(s) = S
    BY <1>3, <1>7 DEF ToSet, Surjection
  <1>9. s \in Seq(S) /\ Len(s) = n
    BY <1>2, <1>3
  <1> QED BY <1>2, <1>3, <1>4, <1>5, <1>8, <1>9 DEF n

\* The arithmetic of a page: up to the cap, skip and take are multiples of the limit.
LEMMA PagingTypes ==
    ASSUME filter \in [window : Windows, limit : Limits], page \in Nat \ {0}
    PROVE  /\ filter.limit \in Nat \ {0} /\ Cap \in Nat \ {0} /\ page - 1 \in Nat
           /\ Take \in Nat \ {0} /\ Take <= Cap /\ Take <= filter.limit
           /\ filter.limit <= Cap => Take = filter.limit
           /\ Skip \in Nat
           /\ page * Take \in Nat /\ (page - 1) * Take \in Nat
           /\ (page - 1) * Take <= Skip
           /\ filter.limit <= Cap => Skip = (page - 1) * Take /\ Skip + Take = page * Take
  <1> DEFINE l == filter.limit
             k == page - 1
  <1>1. l \in Nat \ {0} /\ Cap \in Nat \ {0} /\ k \in Nat /\ page = k + 1
    <2>1. filter.limit \in Limits
      OBVIOUS
    <2>2. page - 1 \in Nat /\ page = (page - 1) + 1
      OBVIOUS
    <2> QED BY <2>1, <2>2, QueriesAssumption
  <1>2. Take \in Nat \ {0} /\ Take <= Cap /\ Take <= l /\ (l <= Cap => Take = l)
    BY <1>1 DEF Take, Least
  <1>3. Skip = k * l
    BY DEF Skip
  <1> HIDE DEF l, k
  <1>4. PICK t \in Nat : t = Take
    BY <1>2
  <1>5. PICK e \in Nat : l = t + e
    <2>1. l - t \in Nat /\ l = t + (l - t)
      BY <1>1, <1>2, <1>4
    <2> QED BY <2>1
  <1>6. /\ k * l \in Nat /\ k * t \in Nat /\ k * e \in Nat
        /\ (k + 1) * t = k * t + t
        /\ k * (t + e) = k * t + k * e
    BY <1>1
  <1>7. k * t <= k * l
    BY <1>5, <1>6
  <1> QED BY <1>1, <1>2, <1>3, <1>4, <1>6, <1>7 DEF l, k

\* A page holds what is left after the rows to skip, up to its limit.
LEMMA PageGives ==
    ASSUME filter \in [window : Windows, limit : Limits], page \in Nat \ {0},
           NEW S, NEW s \in Seq(S)
    PROVE  /\ Page(s) \in Seq(S)
           /\ Len(Page(s)) \in Nat /\ Len(Page(s)) <= Cap
           /\ Skip + Len(Page(s)) =
                IF Len(s) < Skip THEN Skip ELSE Least(Skip + Take, Len(s))
           /\ \A i \in 1..Len(Page(s)) : Skip + i \in 1..Len(s) /\ Page(s)[i] = s[Skip + i]
  <1>1. Skip \in Nat /\ Take \in Nat \ {0} /\ Take <= Cap /\ Cap \in Nat
    BY PagingTypes
  <1> DEFINE m == Skip + 1
             n == Least(Skip + Take, Len(s))
  <1>2. Len(s) \in Nat /\ DOMAIN s = 1..Len(s)
    BY LenProperties
  <1>3. m \in Int /\ n \in Int /\ n <= Len(s) /\ n <= Skip + Take
    BY <1>1, <1>2 DEF Least
  <1>4. \A i \in m..n : s[i] \in S
    BY <1>1, <1>2, <1>3, ElementOfSeq
  <1>5. Page(s) = SubSeq(s, m, n)
    BY DEF Page
  <1>6. n = IF Skip + Take < Len(s) THEN Skip + Take ELSE Len(s)
    BY DEF Least
  <1> HIDE DEF n
  <1>7. /\ Page(s) \in Seq(S)
        /\ Len(Page(s)) = IF m <= n THEN n - m + 1 ELSE 0
        /\ \A i \in 1..n - m + 1 : Page(s)[i] = s[m + i - 1]
    BY <1>3, <1>4, <1>5, SubSeqProperties
  <1>8. Skip + Len(Page(s)) = IF Len(s) < Skip THEN Skip ELSE n
    <2>1. CASE m <= n
      BY <2>1, <1>1, <1>2, <1>3, <1>7
    <2>2. CASE ~(m <= n)
      <3>1. n = Len(s)
        BY <2>2, <1>1, <1>6
      <3>2. Len(Page(s)) = 0
        BY <2>2, <1>7
      <3> QED BY <2>2, <3>1, <3>2, <1>1, <1>2
    <2> QED BY <2>1, <2>2
  <1>9. ASSUME NEW i \in 1..Len(Page(s))
        PROVE  Skip + i \in 1..Len(s) /\ Page(s)[i] = s[Skip + i]
    <2>1. m <= n /\ i \in 1..n - m + 1 /\ m + i - 1 = Skip + i
      BY <1>1, <1>3, <1>7
    <2> QED BY <2>1, <1>1, <1>2, <1>3, <1>7
  <1> QED BY <1>1, <1>2, <1>3, <1>6, <1>7, <1>8, <1>9 DEF n

\* The list is part of its order.
LEMMA FirstGives ==
    ASSUME NEW S, NEW s \in Seq(S), NEW n \in Int
    PROVE  First(s, n) \in Seq(S)
  <1>1. Len(s) \in Nat
    BY LenProperties
  <1>2. CASE n >= 0
    <2> DEFINE k == Least(n, Len(s))
    <2>1. k \in Int /\ k <= Len(s)
      BY <1>1 DEF Least
    <2>2. \A i \in 1..k : s[i] \in S
      BY <1>1, <2>1, ElementOfSeq
    <2> HIDE DEF k
    <2>3. SubSeq(s, 1, k) \in Seq(S)
      BY <2>1, <2>2, SubSeqProperties
    <2> QED BY <1>2, <2>3 DEF First, k
  <1>3. CASE n < 0
    <2> DEFINE k == Len(s) - Least(-n, Len(s)) + 1
    <2>1. k \in Int /\ k >= 1 /\ Len(s) \in Int
      BY <1>1, <1>3 DEF Least
    <2>2. \A i \in k..Len(s) : s[i] \in S
      BY <1>1, <2>1, ElementOfSeq
    <2> HIDE DEF k
    <2>3. SubSeq(s, k, Len(s)) \in Seq(S)
      BY <2>1, <2>2, SubSeqProperties
    <2> QED BY <1>3, <2>3 DEF First, k
  <1> QED BY <1>2, <1>3
-----------------------------------------------------------------------------
(* Type correctness *)

\* Nothing is recorded, read or asked for at first.
LEMMA InitTyped == Init => TypeOK /\ ControlInv
  <1> SUFFICES ASSUME Init PROVE TypeOK /\ ControlInv
    OBVIOUS
  <1>1. 0 \in Instant
    BY QueriesAssumption DEF Instant
  <1>2. opened \in [payment : Payments \cup {None}, listed : BOOLEAN, answer : Answers]
    BY DEF Init, Answers
  <1>3. stamp \in [Payments -> Stamps] /\ \A p \in Payments : stamp[p].entry = None
    BY DEF Init, Stamps
  <1>4. shown \in Seq(Payments) /\ listed \in Seq(Payments) /\ page \in Nat \ {0}
    BY DEF Init
  <1>5. TypeOK
    BY <1>1, <1>2, <1>3, <1>4 DEF Init, TypeOK
  <1>6. ControlInv
    BY <1>3, FS_EmptySet DEF Init, ControlInv, Walking
  <1> QED BY <1>5, <1>6

\* A stamp is given once, the row's before the entry's.
LEMMA StampTyped ==
    ASSUME TypeOK, ControlInv, NEW p \in Payments, NEW column \in {"row", "entry"},
           Stamp(p, column)
    PROVE  TypeOK' /\ ControlInv'
  <1>1. stamp' \in [Payments -> Stamps]
    BY DEF TypeOK, Stamp, Stamps
  <1>2. /\ \A q \in Payments : stamp[q].row # None =>
              stamp'[q].row = stamp[q].row /\ stamp'[q].row # None
        /\ \A q \in Payments : stamp[q].entry # None =>
              stamp'[q].entry = stamp[q].entry /\ stamp'[q].entry # None
        /\ \A q \in Payments : stamp'[q].entry # None =>
              stamp[q].entry # None \/ (q = p /\ stamp'[q].row # None)
    BY QueriesAssumption DEF TypeOK, Stamp, Stamps
  <1>3. recorded' = recorded /\ recorded' \subseteq {q \in Payments : None \notin {stamp'[q].row, stamp'[q].entry}}
    BY <1>2 DEF TypeOK, Stamp
  <1>4. TypeOK'
    BY <1>1, <1>3 DEF TypeOK, Stamp, walk
  <1>5. ControlInv'
    BY <1>2, <1>3 DEF ControlInv, Walking, Stamp, walk
  <1> QED BY <1>4, <1>5

\* A row becomes visible with both its stamps.
LEMMA RecordTyped ==
    ASSUME TypeOK, ControlInv, NEW p \in Payments, Record(p)
    PROVE  TypeOK' /\ ControlInv'
  <1>1. IsFiniteSet(recorded \cup {p})
    BY FS_AddElement DEF ControlInv
  <1>2. stamp[p].row # None /\ stamp[p].entry # None
    BY DEF ControlInv, Record
  <1>3. TypeOK'
    BY <1>2 DEF TypeOK, Record, walk
  <1>4. ControlInv'
    BY <1>1 DEF ControlInv, Walking, Record, walk
  <1> QED BY <1>3, <1>4

\* A request that ends leaves nothing of the walk.
LEMMA ForgetTyped ==
    ASSUME TypeOK, ControlInv, ForgetWalk, pc' = "idle",
           UNCHANGED <<now, stamp, recorded, reader, listed, opened>>
    PROVE  TypeOK' /\ ControlInv'
  <1>1. shown' \in Seq(Payments) /\ page' \in Nat \ {0}
    BY DEF ForgetWalk
  <1>2. TypeOK'
    BY <1>1 DEF TypeOK, ForgetWalk
  <1>3. ControlInv'
    BY DEF ControlInv, Walking, ForgetWalk
  <1> QED BY <1>2, <1>3

\* The pages of the statement.
LEMMA WalkTyped ==
    ASSUME TypeOK, ControlInv, Walk \/ FindAccount \/ ReadRows \/ ReadTotal \/ Turn \/ Close
    PROVE  TypeOK' /\ ControlInv'
  <1>1. CASE Walk
    <2>1. shown' \in Seq(Payments) /\ listed' \in Seq(Payments) /\ page' \in Nat \ {0}
      BY <1>1 DEF Walk
    <2>2. filter' \in [window : Windows, limit : Limits]
      BY <1>1 DEF Walk
    <2>3. base' \subseteq Payments
      BY <1>1 DEF Walk, others, Matching, TypeOK
    <2>4. opened' \in [payment : Payments \cup {None}, listed : BOOLEAN, answer : Answers]
      BY <1>1 DEF Walk, ForgetOpened, Answers
    <2>5. UNCHANGED others /\ pc' = "account" /\ rows' = None /\ total' = None
          /\ announced' = FALSE
      BY <1>1 DEF Walk
    <2>6. TypeOK'
      BY <2>1, <2>2, <2>3, <2>4, <2>5 DEF TypeOK, others
    <2>7. ControlInv'
      BY <2>2, <2>5 DEF ControlInv, Walking, others
    <2> QED BY <2>6, <2>7
  <1>2. CASE FindAccount
    <2>1. CASE reader # NoAccount
      <3>1. UNCHANGED <<others, walk, listed, opened>> /\ pc = "account" /\ pc' = "read"
        BY <1>2, <2>1 DEF FindAccount
      <3>2. TypeOK'
        BY <3>1 DEF TypeOK, others, walk
      <3>3. ControlInv'
        BY <3>1 DEF ControlInv, Walking, others, walk
      <3> QED BY <3>2, <3>3
    <2>2. CASE reader = NoAccount
      BY <1>2, <2>2, ForgetTyped DEF FindAccount, others
    <2> QED BY <2>1, <2>2
  <1>3. CASE ReadRows
    <2>1. PICK s \in Newest(Matching, "entry") : rows' = Page(s)
      BY <1>3 DEF ReadRows
    <2>2. Matching \subseteq recorded /\ IsFiniteSet(recorded)
      BY DEF Matching, ControlInv
    <2>3. s \in Seq(Matching)
      BY <2>2, NewestGives
    <2>4. Matching \subseteq Payments
      BY <2>2 DEF TypeOK
    <2>5. s \in Seq(Payments)
      BY <2>3, <2>4, SeqMonotonic
    <2>6. filter \in [window : Windows, limit : Limits] /\ page \in Nat \ {0} /\ pc = "read"
      BY <1>3 DEF ReadRows, ControlInv, Walking, TypeOK
    <2>7. rows' \in Seq(Payments) /\ Len(rows') <= Cap
      BY <2>1, <2>5, <2>6, PageGives
    <2>8. TypeOK'
      BY <1>3, <2>7 DEF ReadRows, others, TypeOK
    <2>9. ControlInv'
      BY <1>3, <2>6 DEF ReadRows, others, ControlInv, Walking
    <2> QED BY <2>8, <2>9
  <1>4. CASE ReadTotal
    <2>1. Cardinality(Matching) \in Nat
      <3>1. Matching \subseteq recorded /\ IsFiniteSet(recorded)
        BY DEF Matching, ControlInv
      <3> QED BY <3>1, FS_Subset, FS_CardinalityType
    <2>2. TypeOK'
      BY <1>4, <2>1 DEF ReadTotal, others, TypeOK
    <2>3. ControlInv'
      BY <1>4 DEF ReadTotal, others, ControlInv, Walking
    <2> QED BY <2>2, <2>3
  <1>5. CASE Turn
    <2>1. shown \o rows \in Seq(Payments)
      BY <1>5, ConcatProperties DEF Turn, Answered, TypeOK
    <2>2. page + 1 \in Nat \ {0}
      BY DEF TypeOK
    <2>3. TypeOK'
      BY <1>5, <2>1, <2>2 DEF Turn, others, TypeOK
    <2>4. ControlInv'
      BY <1>5 DEF Turn, Answered, others, ControlInv, Walking
    <2> QED BY <2>3, <2>4
  <1>6. CASE Close
    BY <1>6, ForgetTyped DEF Close, others
  <1> QED BY <1>1, <1>2, <1>3, <1>4, <1>5, <1>6

\* The list and the one payment.
LEMMA OpenTyped ==
    ASSUME TypeOK, ControlInv,
           AskList \/ List \/ (\E p \in Payments : Open(p)) \/ FindPayment \/ FindParty
    PROVE  TypeOK' /\ ControlInv'
  <1>c. ASSUME UNCHANGED <<others, walk>>, ~Walking, ~Walking', pc # "read", pc' # "read"
        PROVE  ControlInv'
    BY <1>c DEF ControlInv, others, walk
  <1>t. ASSUME UNCHANGED <<others, walk>>, listed' \in Seq(Payments),
               pc' \in {"idle", "list", "findPayment", "findParty"},
               opened' \in [payment : Payments \cup {None}, listed : BOOLEAN, answer : Answers]
        PROVE  TypeOK'
    BY <1>t DEF TypeOK, others, walk
  <1>1. CASE AskList
    <2>1. listed' \in Seq(Payments)
      BY <1>1 DEF AskList
    <2>2. opened' \in [payment : Payments \cup {None}, listed : BOOLEAN, answer : Answers]
      BY <1>1 DEF AskList, ForgetOpened, Answers
    <2> QED BY <1>1, <1>c, <1>t, <2>1, <2>2 DEF AskList, Walking
  <1>2. CASE List
    <2>1. listed' \in Seq(Payments)
      <3>1. CASE listed' = listed
        BY <3>1 DEF TypeOK
      <3>2. CASE \E s \in Newest(Sent, "row"), n \in ListLimits :
                    listed' = First(s, Least(n, Cap))
        <4>1. PICK s \in Newest(Sent, "row"), n \in ListLimits :
                  listed' = First(s, Least(n, Cap))
          BY <3>2
        <4>2. Least(n, Cap) \in Int
          BY QueriesAssumption DEF Least
        <4>3. Sent \subseteq recorded /\ Sent \subseteq Payments /\ IsFiniteSet(recorded)
          BY DEF Sent, ControlInv, TypeOK
        <4>4. s \in Seq(Sent)
          BY <4>3, NewestGives
        <4>5. s \in Seq(Payments)
          BY <4>3, <4>4, SeqMonotonic
        <4> QED BY <4>1, <4>2, <4>5, FirstGives
      <3> QED BY <1>2, <3>1, <3>2 DEF List
    <2> QED BY <1>2, <1>c, <1>t, <2>1 DEF List, Walking, TypeOK
  <1>3. CASE \E p \in Payments : Open(p)
    <2>1. PICK p \in Payments : Open(p)
      BY <1>3
    <2>2. opened' \in [payment : Payments \cup {None}, listed : BOOLEAN, answer : Answers]
      BY <2>1 DEF Open, Answers
    <2> QED BY <2>1, <2>2, <1>c, <1>t DEF Open, Walking, TypeOK
  <1>4. CASE FindPayment
    <2>1. opened' \in [payment : Payments \cup {None}, listed : BOOLEAN, answer : Answers]
      BY <1>4 DEF FindPayment, Answers, TypeOK
    <2> QED BY <1>4, <2>1, <1>c, <1>t DEF FindPayment, Walking, TypeOK
  <1>5. CASE FindParty
    <2>1. opened' \in [payment : Payments \cup {None}, listed : BOOLEAN, answer : Answers]
      BY <1>5 DEF FindParty, Answers, TypeOK
    <2> QED BY <1>5, <2>1, <1>c, <1>t DEF FindParty, Walking, TypeOK
  <1> QED BY <1>1, <1>2, <1>3, <1>4, <1>5

\* Every step keeps the shape.
LEMMA StepTyped ==
    ASSUME TypeOK, ControlInv, [Next]_vars
    PROVE  TypeOK' /\ ControlInv'
  <1>1. CASE UNCHANGED vars
    <2>1. TypeOK'
      BY <1>1 DEF TypeOK, vars
    <2>2. ControlInv'
      BY <1>1 DEF ControlInv, Walking, vars
    <2> QED BY <2>1, <2>2
  <1>2. CASE Pass
    <2>1. now + 1 \in Instant
      BY <1>2, QueriesAssumption DEF Pass, TypeOK, Instant
    <2>2. TypeOK'
      BY <1>2, <2>1 DEF Pass, TypeOK, walk
    <2>3. ControlInv'
      BY <1>2 DEF Pass, ControlInv, Walking, walk
    <2> QED BY <2>2, <2>3
  <1>3. CASE CallFails
    BY <1>3, ForgetTyped DEF CallFails, others
  <1> QED BY <1>1, <1>2, <1>3, StampTyped, RecordTyped, WalkTyped, OpenTyped DEF Next

\* The shape of the state, for any constants: above all that no row is visible
\* before both its stamps are there, and no page is longer than the cap.
THEOREM TypeInvariant == Spec => [](TypeOK /\ ControlInv)
  <1> QED BY InitTyped, StepTyped, PTL DEF Spec

\* Rows, requests and pages keep their shape.
THEOREM TypeCorrect == Spec => []TypeOK
  BY TypeInvariant, PTL
-----------------------------------------------------------------------------
(* What a list has shown *)

\* Rows only come, and none changes its stamps once it is visible.
LEMMA RowsStay ==
    ASSUME TypeOK, [Next]_vars
    PROVE  /\ recorded \subseteq recorded' /\ reader' = reader
           /\ \A p \in recorded : stamp'[p] = stamp[p]
           /\ Sent \subseteq Sent'
  <1> USE DEF others, walk
  <1>1. CASE UNCHANGED <<stamp, recorded, reader>>
    BY <1>1 DEF Sent
  <1>2. ASSUME NEW p \in Payments, NEW column \in {"row", "entry"}, Stamp(p, column)
        PROVE  /\ recorded' = recorded /\ reader' = reader
               /\ \A q \in recorded : stamp'[q] = stamp[q]
    BY <1>2 DEF Stamp, TypeOK
  <1>3. ASSUME NEW p \in Payments, Record(p)
        PROVE  recorded \subseteq recorded' /\ UNCHANGED <<stamp, reader>>
    BY <1>3 DEF Record
  <1>4. \/ UNCHANGED <<stamp, recorded, reader>>
        \/ \E p \in Payments : Stamp(p, "row") \/ Stamp(p, "entry") \/ Record(p)
    BY DEF Next, vars, Pass, Open, Walk, FindAccount, ReadRows, ReadTotal, Turn, Close,
           AskList, List, FindPayment, FindParty, CallFails
  <1>5. /\ recorded \subseteq recorded' /\ reader' = reader
        /\ \A p \in recorded : stamp'[p] = stamp[p]
    BY <1>1, <1>2, <1>3, <1>4
  <1> QED BY <1>5 DEF Sent

\* Every step keeps what was listed among what the reader sent.
LEMMA ListStep ==
    ASSUME TypeOK, ControlInv, ListInv, [Next]_vars
    PROVE  ListInv'
  <1> USE DEF others, walk
  <1>0. Sent \subseteq Sent' /\ recorded \subseteq recorded' /\ reader' = reader
    BY RowsStay
  <1>1. CASE UNCHANGED <<listed, opened>>
    BY <1>0, <1>1 DEF ListInv
  <1>2. CASE Walk \/ AskList
    <2>1. listed' = <<>> /\ opened'.listed = FALSE
      BY <1>2 DEF Walk, AskList, ForgetOpened
    <2>2. ToSet(listed') = {}
      BY <2>1 DEF ToSet
    <2> QED BY <2>1, <2>2 DEF ListInv
  <1>3. CASE List
    <2>1. opened' = opened
      BY <1>3 DEF List
    <2>2. CASE listed' = listed
      BY <1>0, <2>1, <2>2 DEF ListInv
    <2>3. CASE \E s \in Newest(Sent, "row"), n \in ListLimits : listed' = First(s, Least(n, Cap))
      <3>1. PICK s \in Newest(Sent, "row"), n \in ListLimits : listed' = First(s, Least(n, Cap))
        BY <2>3
      <3>2. Least(n, Cap) \in Int
        BY QueriesAssumption DEF Least
      <3>3. Sent \subseteq recorded /\ IsFiniteSet(recorded)
        BY DEF Sent, ControlInv
      <3>4. listed' \in Seq(Sent)
        BY <3>1, <3>2, <3>3, NewestGives, FirstGives
      <3>5. ToSet(listed') \subseteq Sent
        BY <3>4, LenProperties, ElementOfSeq DEF ToSet
      <3> QED BY <1>0, <2>1, <3>5 DEF ListInv
    <2> QED BY <1>3, <2>2, <2>3 DEF List
  <1>4. ASSUME NEW p \in Payments, Open(p)
        PROVE  ListInv'
    BY <1>0, <1>4 DEF Open, ListInv
  <1>5. CASE FindPayment
    <2>1. listed' = listed /\ opened'.listed = opened.listed
          /\ opened'.payment = opened.payment
          /\ (opened.payment \in recorded => opened' = opened)
      BY <1>5 DEF FindPayment, TypeOK
    <2>2. Sent \subseteq recorded
      BY DEF Sent
    <2> QED BY <1>0, <2>1, <2>2 DEF ListInv
  <1>6. CASE FindParty
    <2>1. listed' = listed /\ opened'.listed = opened.listed
          /\ opened'.payment = opened.payment
      BY <1>6 DEF FindParty, TypeOK
    <2>2. ASSUME opened.listed
          PROVE  opened'.answer = "OUTGOING"
      <3>1. opened.payment \in recorded /\ From[opened.payment] = reader
        BY <2>2 DEF ListInv, Sent
      <3>2. reader # NoAccount /\ IsParty(opened.payment)
        BY <3>1, QueriesAssumption DEF TypeOK, IsParty
      <3> QED BY <1>6, <3>1, <3>2 DEF FindParty, TypeOK
    <2> QED BY <1>0, <2>1, <2>2 DEF ListInv
  <1>7. ASSUME NEW p \in Payments, Stamp(p, "row") \/ Stamp(p, "entry") \/ Record(p)
        PROVE  UNCHANGED <<listed, opened>>
    BY <1>7 DEF Stamp, Record
  <1>8. CASE Pass \/ FindAccount \/ ReadRows \/ ReadTotal \/ Turn \/ Close \/ CallFails
    BY <1>1, <1>8 DEF Pass, FindAccount, ReadRows, ReadTotal, Turn, Close, CallFails
  <1>9. CASE UNCHANGED vars
    BY <1>1, <1>9 DEF vars
  <1> QED BY <1>1, <1>2, <1>3, <1>4, <1>5, <1>6, <1>7, <1>8, <1>9 DEF Next

\* Nothing is listed at first.
LEMMA InitListed == Init => ListInv
  <1>1. Init => listed = <<>> /\ opened.listed = FALSE
    BY DEF Init
  <1>2. Init => ToSet(listed) = {}
    BY <1>1 DEF ToSet
  <1> QED BY <1>1, <1>2 DEF ListInv

\* A payment that a list has shown can be opened ever after, as one the reader
\* sent: no later step takes it out of what he may see.
THEOREM ListedOpens == Spec => []ListedCanBeOpened
  <1>1. ListInv => ListedCanBeOpened
    BY DEF ListInv, ListedCanBeOpened
  <1> QED BY <1>1, InitListed, ListStep, TypeInvariant, PTL DEF Spec
-----------------------------------------------------------------------------
(* Entries by rank.  Sorted rows are compared pairwise, pages are cut from     *)
(* different sorts: what one entry keeps from sort to sort is the number of    *)
(* entries newer than it.                                                      *)

\* Where no two stamps are equal, entry k of any sorted sequence has k - 1 newer.
LEMMA RankOf ==
    ASSUME IsFiniteSet(recorded), NEW S, S \subseteq recorded,
           \A p \in S : stamp[p].entry \in Int,
           Distinct(stamp, S), NEW s \in Newest(S, "entry"), NEW k \in 1..Len(s)
    PROVE  s[k] \in S /\ Cardinality(Newer(stamp, S, s[k])) = k - 1
  <1> DEFINE n == Len(s)
             N == Newer(stamp, S, s[k])
             f == [i \in 1..k - 1 |-> s[i]]
  <1>1. /\ n \in Nat /\ DOMAIN s = 1..n /\ \A i \in 1..n : s[i] \in S
        /\ \A i, j \in 1..n : s[i] = s[j] => i = j
        /\ \A p \in S : \E i \in 1..n : s[i] = p
        /\ \A i, j \in 1..n : i < j => stamp[s[i]].entry >= stamp[s[j]].entry
    <2>1. /\ s \in Seq(S) /\ Len(s) = Cardinality(S) /\ Cardinality(S) \in Nat
          /\ DOMAIN s = 1..Cardinality(S) /\ s \in Injection(1..Cardinality(S), S)
          /\ ToSet(s) = S
          /\ \A i, j \in DOMAIN s : i < j => stamp[s[i]].entry >= stamp[s[j]].entry
      BY NewestGives
    <2> QED BY <2>1 DEF Injection, IsInjective, ToSet
  <1> HIDE DEF n
  <1>2. k \in 1..n
    BY DEF n
  <1>3. ASSUME NEW i \in 1..n
        PROVE  s[i] \in N <=> i < k
    <2>1. CASE i < k
      <3>1. stamp[s[i]].entry >= stamp[s[k]].entry /\ s[i] # s[k]
        BY <1>1, <1>2, <2>1
      <3>2. stamp[s[i]].entry # stamp[s[k]].entry
        BY <1>1, <1>2, <3>1 DEF Distinct
      <3> QED BY <1>1, <1>2, <2>1, <3>1, <3>2 DEF Newer
    <2>2. CASE i = k
      BY <1>1, <1>2, <2>2 DEF Newer
    <2>3. CASE i > k
      BY <1>1, <1>2, <2>3 DEF Newer
    <2> QED BY <1>1, <1>2, <2>1, <2>2, <2>3
  <1>4. \A p \in N : p \in S
    BY DEF Newer
  <1> HIDE DEF N
  <1>5. f \in Bijection(1..k - 1, N)
    <2>1. \A i \in 1..k - 1 : i \in 1..n /\ i < k
      BY <1>1, <1>2
    <2>2. f \in [1..k - 1 -> N]
      BY <1>3, <2>1
    <2>3. \A i, j \in 1..k - 1 : f[i] = f[j] => i = j
      BY <1>1, <2>1
    <2>4. ASSUME NEW p \in N
          PROVE  \E i \in 1..k - 1 : f[i] = p
      <3>1. PICK i \in 1..n : s[i] = p
        BY <1>1, <1>4
      <3>2. i \in 1..k - 1
        BY <1>1, <1>2, <1>3, <3>1
      <3> QED BY <3>1, <3>2
    <2> QED BY <2>2, <2>3, <2>4 DEF Bijection, Injection, Surjection, IsInjective
  <1>6. IsFiniteSet(1..k - 1) /\ Cardinality(1..k - 1) = k - 1
    <2>1. 1 \in Int /\ k - 1 \in Int /\ k - 1 >= 0
      BY <1>1, <1>2
    <2>2. /\ IsFiniteSet(1..k - 1)
          /\ Cardinality(1..k - 1) = IF 1 > k - 1 THEN 0 ELSE (k - 1) - 1 + 1
      BY <2>1, FS_Interval
    <2> QED BY <2>1, <2>2
  <1>7. ExistsBijection(1..k - 1, N)
    BY <1>5 DEF ExistsBijection
  <1>8. Cardinality(N) = k - 1
    BY <1>6, <1>7, FS_Bijection
  <1> QED BY <1>1, <1>2, <1>8 DEF N

\* Ranks depend on the stamps of the entries alone.
LEMMA RankedStays ==
    ASSUME NEW at1, NEW at2, NEW S, \A p \in S : at2[p] = at1[p]
    PROVE  /\ Distinct(at2, S) <=> Distinct(at1, S)
           /\ \A s, n : Ranked(at1, s, n, S) => Ranked(at2, s, n, S)
  <1>1. \A p \in S : Newer(at2, S, p) = Newer(at1, S, p)
    BY DEF Newer
  <1> QED BY <1>1 DEF Ranked, Distinct

\* Pages whose entries have consecutive ranks, put together.
LEMMA RankedConcat ==
    ASSUME NEW T, NEW s \in Seq(T), NEW t \in Seq(T), NEW at, NEW S,
           Ranked(at, s, 0, S), Ranked(at, t, Len(s), S)
    PROVE  Ranked(at, s \o t, 0, S)
  <1>1. /\ Len(s) \in Nat /\ Len(t) \in Nat /\ s \o t \in Seq(T)
        /\ DOMAIN s = 1..Len(s) /\ DOMAIN t = 1..Len(t)
        /\ DOMAIN (s \o t) = 1..(Len(s) + Len(t))
        /\ \A i \in 1..Len(s) + Len(t) :
              (s \o t)[i] = IF i <= Len(s) THEN s[i] ELSE t[i - Len(s)]
    BY LenProperties, ConcatProperties
  <1>2. ASSUME NEW i \in DOMAIN (s \o t)
        PROVE  (s \o t)[i] \in S /\ Cardinality(Newer(at, S, (s \o t)[i])) = 0 + i - 1
    <2>1. CASE i <= Len(s)
      <3>1. i \in DOMAIN s /\ (s \o t)[i] = s[i]
        BY <1>1, <2>1
      <3> QED BY <3>1 DEF Ranked
    <2>2. CASE ~(i <= Len(s))
      <3>1. i - Len(s) \in DOMAIN t /\ (s \o t)[i] = t[i - Len(s)]
            /\ Len(s) + (i - Len(s)) - 1 = 0 + i - 1
        BY <1>1, <2>2
      <3> QED BY <3>1 DEF Ranked
    <2> QED BY <2>1, <2>2
  <1> QED BY <1>2 DEF Ranked
-----------------------------------------------------------------------------
(* The walk *)

WalkInv == AnnouncedInv /\ CompleteInv /\ QuietInv

\* While a walk goes on, entries are added to those it selects and none is lost.
LEMMA MatchingGrows ==
    ASSUME TypeOK, ControlInv, [Next]_vars, filter' = filter
    PROVE  /\ Matching \subseteq Matching'
           /\ Matching \subseteq recorded
           /\ IsFiniteSet(Matching) /\ IsFiniteSet(Matching')
           /\ Cardinality(Matching) \in Nat /\ Cardinality(Matching') \in Nat
           /\ Cardinality(Matching) <= Cardinality(Matching')
  <1>1. Matching \subseteq Matching'
    BY RowsStay DEF Matching
  <1>2. IsFiniteSet(recorded) /\ IsFiniteSet(recorded')
    BY StepTyped DEF ControlInv
  <1>3. Matching \subseteq recorded /\ Matching' \subseteq recorded'
    BY DEF Matching
  <1>4. IsFiniteSet(Matching) /\ IsFiniteSet(Matching')
    BY <1>2, <1>3, FS_Subset
  <1> QED BY <1>1, <1>3, <1>4, FS_Subset, FS_CardinalityType

\* The steps by what they do to the walk.
LEMMA WalkSteps ==
    ASSUME [Next]_vars
    PROVE  \/ ~Walking'
           \/ Walk \/ ReadRows \/ ReadTotal \/ Turn
           \/ UNCHANGED walk /\ Walking
  <1> USE DEF others, Walking
  <1>1. ASSUME NEW p \in Payments,
               Stamp(p, "row") \/ Stamp(p, "entry") \/ Record(p)
        PROVE  UNCHANGED walk /\ pc' = pc
    BY <1>1 DEF Stamp, Record
  <1>2. CASE Pass \/ UNCHANGED vars
    BY <1>2 DEF Pass, vars, walk
  <1>3. ASSUME NEW p \in Payments, Open(p)
        PROVE  ~Walking'
    BY <1>3 DEF Open
  <1>4. CASE AskList \/ List \/ FindPayment \/ FindParty \/ Close \/ CallFails
    BY <1>4 DEF AskList, List, FindPayment, FindParty, Close, CallFails
  <1>5. CASE FindAccount
    BY <1>5 DEF FindAccount
  <1> QED BY <1>1, <1>2, <1>3, <1>4, <1>5 DEF Next

\* What every page rests on.
LEMMA WalkBounds ==
    ASSUME TypeOK, ControlInv, AnnouncedInv, Walking
    PROVE  /\ IsFiniteSet(Matching) /\ IsFiniteSet(base)
           /\ Cardinality(Matching) \in Nat /\ Cardinality(base) \in Nat
           /\ Cardinality(base) <= Cardinality(Matching)
           /\ base \subseteq Matching /\ Matching \subseteq recorded
           /\ filter \in [window : Windows, limit : Limits] /\ page \in Nat \ {0}
  <1>1. IsFiniteSet(recorded) /\ Matching \subseteq recorded /\ base \subseteq Matching
    BY DEF ControlInv, AnnouncedInv, Matching
  <1>2. IsFiniteSet(Matching)
    BY <1>1, FS_Subset
  <1>3. IsFiniteSet(base) /\ Cardinality(base) <= Cardinality(Matching)
    BY <1>1, <1>2, FS_Subset
  <1> QED BY <1>1, <1>2, <1>3, FS_CardinalityType DEF ControlInv, TypeOK, Walking

\* The first page: nothing shown, nothing announced.
LEMMA WalkBegins ==
    ASSUME TypeOK, ControlInv, Walk
    PROVE  WalkInv'
  <1>1. /\ pc' = "account" /\ page' = 1 /\ rows' = None /\ total' = None
        /\ shown' = <<>> /\ announced' = FALSE
        /\ UNCHANGED <<now, stamp, recorded, reader>>
        /\ base' = Matching'
        /\ filter' \in [window : Windows, limit : Limits]
    BY DEF Walk, others
  <1>2. Len(shown') = 0 /\ DOMAIN shown' = {}
    BY <1>1
  <1>3. AnnouncedInv'
    BY <1>1 DEF AnnouncedInv
  <1>4. Cardinality(base') \in Nat
    <2>1. Matching' \subseteq recorded /\ IsFiniteSet(recorded)
      BY <1>1 DEF Matching, ControlInv
    <2> QED BY <1>1, <2>1, FS_Subset, FS_CardinalityType
  <1>5. Skip' = 0
    <2>1. filter'.limit \in Nat
      BY <1>1, QueriesAssumption
    <2> QED BY <1>1, <2>1 DEF Skip
  <1>6. CompleteInv'
    BY <1>1, <1>2, <1>4, <1>5 DEF CompleteInv, Least
  <1>7. Ranked(stamp', shown', 0, base')
    BY <1>2 DEF Ranked
  <1>8. QuietInv'
    BY <1>1, <1>2, <1>5, <1>7 DEF QuietInv
  <1> QED BY <1>3, <1>6, <1>8 DEF WalkInv

\* Between the calls of a walk sagas commit; if none does, the ranks stay.
LEMMA WalkWaits ==
    ASSUME TypeOK, ControlInv, WalkInv, [Next]_vars, UNCHANGED walk, Walking
    PROVE  WalkInv'
  <1>1. UNCHANGED <<filter, page, rows, total, shown, announced, base>>
    BY DEF walk
  <1>2. /\ Matching \subseteq Matching'
        /\ Cardinality(Matching) \in Nat /\ Cardinality(Matching') \in Nat
        /\ Cardinality(Matching) <= Cardinality(Matching')
    BY <1>1, MatchingGrows
  <1>3. /\ base \subseteq Matching /\ Matching \subseteq recorded
        /\ filter \in [window : Windows, limit : Limits] /\ page \in Nat \ {0}
    BY WalkBounds DEF WalkInv
  <1>4. Take' = Take /\ Skip' = Skip
    BY <1>1 DEF Take, Skip
  <1>5. (page - 1) * Take \in Nat
    BY <1>3, PagingTypes
  <1>6. AnnouncedInv'
    <2>1. total # None => total \in Nat
      BY DEF TypeOK
    <2> QED BY <1>1, <1>2, <1>3, <1>4, <1>5, <2>1 DEF AnnouncedInv, WalkInv
  <1>7. CompleteInv'
    BY <1>1, <1>4 DEF CompleteInv, WalkInv
  <1>8. ASSUME base' = Matching'
        PROVE  /\ base = Matching
               /\ Distinct(stamp', base) <=> Distinct(stamp, base)
               /\ \A s, n : Ranked(stamp, s, n, base) => Ranked(stamp', s, n, base)
    <2>1. base = Matching
      BY <1>1, <1>2, <1>3, <1>8
    <2>2. \A p \in base : stamp'[p] = stamp[p]
      BY <1>3, RowsStay
    <2> QED BY <2>1, <2>2, RankedStays
  <1>9. QuietInv'
    BY <1>1, <1>4, <1>8 DEF QuietInv, WalkInv
  <1> QED BY <1>6, <1>7, <1>9 DEF WalkInv

\* A page, cut from any sort of the entries there are.
LEMMA RowsRead ==
    ASSUME TypeOK, ControlInv, WalkInv, ReadRows
    PROVE  WalkInv'
  <1> DEFINE m == Cardinality(Matching)
             b == Cardinality(base)
             r == Len(rows')
  <1>1. /\ UNCHANGED <<now, stamp, recorded, reader, pc, filter, page, total, shown,
                       announced, base>>
        /\ Walking /\ rows = None
    BY DEF ReadRows, others, Walking
  <1>2. /\ Matching' = Matching /\ Take' = Take /\ Skip' = Skip
        /\ Walking' = Walking
    BY <1>1 DEF Matching, Take, Skip, Walking
  <1>3. /\ m \in Nat /\ b \in Nat /\ b <= m
        /\ base \subseteq Matching /\ Matching \subseteq recorded
        /\ filter \in [window : Windows, limit : Limits] /\ page \in Nat \ {0}
    BY <1>1, WalkBounds DEF WalkInv
  <1>4. PICK s \in Newest(Matching, "entry") : rows' = Page(s)
    BY DEF ReadRows
  <1>5. s \in Seq(Matching) /\ Len(s) = m /\ IsFiniteSet(recorded)
    BY <1>3, NewestGives DEF ControlInv
  <1>6. /\ rows' \in Seq(Matching) /\ r \in Nat
        /\ Skip + r = IF m < Skip THEN Skip ELSE Least(Skip + Take, m)
        /\ \A i \in 1..r : Skip + i \in 1..Len(s) /\ rows'[i] = s[Skip + i]
    BY <1>3, <1>4, <1>5, PageGives
  <1>7. /\ Skip \in Nat /\ Take \in Nat \ {0}
        /\ filter.limit <= Cap => Skip = (page - 1) * Take
    BY <1>3, PagingTypes
  <1>8. AnnouncedInv'
    <2>1. ASSUME announced, filter.limit <= Cap
          PROVE  rows' # <<>>
      <3>1. Skip < m
        BY <1>1, <1>7, <2>1 DEF AnnouncedInv, WalkInv
      <3>2. r > 0
        BY <1>3, <1>6, <1>7, <3>1 DEF Least
      <3>3. Len(<<>>) = 0
        OBVIOUS
      <3> QED BY <3>2, <3>3
    <2> QED BY <1>1, <1>2, <2>1 DEF AnnouncedInv, WalkInv
  <1>9. CompleteInv'
    <2>1. Skip + r >= Least(Skip + Take, b)
      <3> HIDE DEF m, b, r
      <3> QED BY <1>3, <1>6, <1>7 DEF Least
    <2> QED BY <1>1, <1>2, <2>1 DEF CompleteInv, WalkInv
  <1>10. ASSUME Distinct(stamp, base), base = Matching
         PROVE  Ranked(stamp, rows', Skip, base)
    <2>1. \A p \in Matching : stamp[p].entry \in Int
      BY <1>3, QueriesAssumption DEF TypeOK, Stamps, Instant
    <2>2. DOMAIN rows' = 1..r
      BY <1>6, LenProperties
    <2>3. Distinct(stamp, Matching)
      BY <1>10
    <2>4. \A k \in 1..Len(s) :
             s[k] \in Matching /\ Cardinality(Newer(stamp, Matching, s[k])) = k - 1
      BY <1>3, <1>5, <2>1, <2>3, RankOf
    <2>5. ASSUME NEW i \in 1..r
          PROVE  rows'[i] \in base /\ Cardinality(Newer(stamp, base, rows'[i])) = Skip + i - 1
      <3>1. PICK k \in 1..Len(s) : k = Skip + i /\ rows'[i] = s[k]
        BY <1>6
      <3>2. s[k] \in Matching /\ Cardinality(Newer(stamp, Matching, s[k])) = k - 1
        BY <2>4
      <3>3. rows'[i] \in base /\ Cardinality(Newer(stamp, base, rows'[i])) = k - 1
        BY <1>10, <3>1, <3>2
      <3>4. k - 1 = Skip + i - 1
        BY <1>7, <3>1
      <3> QED BY <3>3, <3>4
    <2> QED BY <2>2, <2>5 DEF Ranked
  <1>11. QuietInv'
    <2>1. base = Matching => b = m
      OBVIOUS
    <2> HIDE DEF m, b, r
    <2>2. ASSUME base = Matching
          PROVE  Skip + r = IF b < Skip THEN Skip ELSE Least(Skip + Take, b)
      BY <1>6, <2>1, <2>2
    <2> QED BY <1>1, <1>2, <1>10, <2>2 DEF QuietInv, WalkInv, b, r
  <1> QED BY <1>8, <1>9, <1>11 DEF WalkInv

\* The total is that of the entries there are.
LEMMA TotalRead ==
    ASSUME TypeOK, ControlInv, WalkInv, ReadTotal
    PROVE  WalkInv'
  <1>1. /\ UNCHANGED <<now, stamp, recorded, reader, pc, filter, page, rows, shown,
                       announced, base>>
        /\ Walking /\ total' = Cardinality(Matching)
    BY DEF ReadTotal, others, Walking
  <1>2. /\ Matching' = Matching /\ Take' = Take /\ Skip' = Skip
        /\ Walking' = Walking
    BY <1>1 DEF Matching, Take, Skip, Walking
  <1>3. Cardinality(Matching) \in Nat /\ Cardinality(base) <= Cardinality(Matching)
    BY <1>1, WalkBounds DEF WalkInv
  <1>4. AnnouncedInv'
    BY <1>1, <1>2, <1>3 DEF AnnouncedInv, WalkInv
  <1>5. CompleteInv'
    BY <1>1, <1>2 DEF CompleteInv, WalkInv
  <1>6. QuietInv'
    BY <1>1, <1>2 DEF QuietInv, WalkInv
  <1> QED BY <1>4, <1>5, <1>6 DEF WalkInv

\* Only a full page announces another.
LEMMA PageTurns ==
    ASSUME TypeOK, ControlInv, WalkInv, Turn
    PROVE  WalkInv'
  <1> DEFINE m == Cardinality(Matching)
             b == Cardinality(base)
             r == Len(rows)
             h == Len(shown)
  <1>1. /\ UNCHANGED <<now, stamp, recorded, reader, filter, base>>
        /\ Walking /\ rows # None /\ total # None /\ page * Take < total
        /\ pc' = "account" /\ page' = page + 1 /\ rows' = None /\ total' = None
        /\ shown' = shown \o rows /\ announced' = TRUE
    BY DEF Turn, Answered, HasNext, others, Walking
  <1>2. Matching' = Matching /\ Take' = Take
    BY <1>1 DEF Matching, Take
  <1>3. /\ m \in Nat /\ b \in Nat /\ base \subseteq Matching
        /\ filter \in [window : Windows, limit : Limits] /\ page \in Nat \ {0}
    BY <1>1, WalkBounds DEF WalkInv
  <1>4. /\ Skip \in Nat /\ Take \in Nat \ {0} /\ page * Take \in Nat
        /\ filter.limit <= Cap => Skip + Take = page * Take /\ filter.limit = Take
    BY <1>3, PagingTypes
  <1>5. /\ rows \in Seq(Payments) /\ shown \in Seq(Payments) /\ total \in Nat
    BY <1>1 DEF TypeOK
  <1>6. r \in Nat /\ h \in Nat /\ Len(shown') = h + r
    BY <1>1, <1>5, ConcatProperties, LenProperties
  <1>7. (page' - 1) * Take' = page * Take
    BY <1>1, <1>2, <1>3
  <1>8. filter.limit <= Cap => Skip' = page * Take
    BY <1>1, <1>3, <1>4 DEF Skip
  <1>9. AnnouncedInv'
    <2>1. page * Take < m
      BY <1>1, <1>3, <1>4, <1>5 DEF AnnouncedInv, WalkInv
    <2> QED BY <1>1, <1>2, <1>3, <1>7, <2>1 DEF AnnouncedInv
  <1>10. CompleteInv'
    <2>1. ASSUME filter.limit <= Cap
          PROVE  h + r >= Least(page * Take, b)
      <3>1. h >= Least(Skip, b) /\ Skip + r >= Least(Skip + Take, b)
        BY <1>1, <2>1 DEF CompleteInv, WalkInv
      <3>2. Skip + Take = page * Take
        BY <1>4, <2>1
      <3> HIDE DEF h, r, b
      <3> QED BY <1>3, <1>4, <1>6, <3>1, <3>2 DEF Least
    <2> QED BY <1>1, <1>6, <1>8, <2>1 DEF CompleteInv
  <1>11. ASSUME filter.limit <= Cap, base = Matching
         PROVE  /\ h + r = page * Take /\ page * Take < b
                /\ Distinct(stamp, base) => Ranked(stamp, shown \o rows, 0, base)
    <2>1. /\ h = Skip /\ total = b
          /\ Skip + r = IF b < Skip THEN Skip ELSE Least(Skip + Take, b)
          /\ Distinct(stamp, base) =>
                Ranked(stamp, shown, 0, base) /\ Ranked(stamp, rows, Skip, base)
      BY <1>1, <1>11 DEF QuietInv, WalkInv
    <2>2. h + r = page * Take /\ page * Take < b
      <3>1. Skip + Take = page * Take /\ page * Take < b
        BY <1>1, <1>4, <1>11, <2>1
      <3> HIDE DEF h, r, b
      <3> QED BY <1>3, <1>4, <1>6, <2>1, <3>1 DEF Least
    <2>3. Distinct(stamp, base) => Ranked(stamp, shown \o rows, 0, base)
      BY <1>5, <2>1, RankedConcat
    <2> QED BY <2>2, <2>3
  <1>12. QuietInv'
    BY <1>1, <1>2, <1>6, <1>8, <1>11 DEF QuietInv
  <1> QED BY <1>9, <1>10, <1>12 DEF WalkInv

\* Every step of readers and sagas keeps the invariant of the walk.
LEMMA WalkStep ==
    ASSUME TypeOK, ControlInv, WalkInv, [Next]_vars
    PROVE  WalkInv'
  <1>1. CASE ~Walking'
    BY <1>1 DEF WalkInv, AnnouncedInv, CompleteInv, QuietInv
  <1> QED BY <1>1, WalkSteps, WalkBegins, WalkWaits, RowsRead, TotalRead, PageTurns

\* No walk at first.
LEMMA InitWalk == Init => WalkInv
  BY DEF Init, WalkInv, AnnouncedInv, CompleteInv, QuietInv, Walking

\* Every walk, at every one of its calls: enough shown so far, and exactly the
\* right entries if nobody commits.
THEOREM WalkInvariant == Spec => []WalkInv
  <1> QED BY InitWalk, WalkStep, TypeInvariant, PTL DEF Spec

\* hasNext is a promise that no commit can break: the next page has rows.
THEOREM AnnouncedPages == Spec => []AnnouncedPageHasRows
  <1>1. TypeOK /\ ControlInv /\ WalkInv => AnnouncedPageHasRows
    BY DEF ControlInv, WalkInv, AnnouncedInv, AnnouncedPageHasRows, Walking
  <1> QED BY <1>1, WalkInvariant, TypeInvariant, PTL

\* As many different entries of a finite set as it has are all of it.
LEMMA AllOfThem ==
    ASSUME NEW T, NEW s \in Seq(T), NEW S, IsFiniteSet(S), Len(s) >= Cardinality(S),
           IsInjective(s), ToSet(s) \subseteq S
    PROVE  S \subseteq ToSet(s)
  <1> DEFINE D == 1..Len(s)
  <1>1. Len(s) \in Nat /\ DOMAIN s = D /\ s \in [D -> T]
    BY LenProperties
  <1>2. s \in Injection(D, S)
    BY <1>1 DEF Injection, ToSet
  <1>3. IsFiniteSet(D) /\ Cardinality(D) = Len(s)
    <2>1. 1 \in Int /\ Len(s) \in Int
      BY <1>1
    <2>2. IsFiniteSet(D) /\ Cardinality(D) = IF 1 > Len(s) THEN 0 ELSE Len(s) - 1 + 1
      BY <2>1, FS_Interval
    <2> HIDE DEF D
    <2> QED BY <1>1, <2>2
  <1>4. Cardinality(S) \in Nat
    BY FS_CardinalityType
  <1> HIDE DEF D
  <1>5. Cardinality(D) <= Cardinality(S)
        /\ (Cardinality(D) = Cardinality(S) <=> s \in Surjection(D, S))
    BY <1>2, FS_Injection
  <1>6. s \in Surjection(D, S)
    BY <1>1, <1>3, <1>4, <1>5
  <1> QED BY <1>1, <1>6 DEF Surjection, ToSet

\* What the two reads of a last page say of the whole walk.
LEMMA AtTheEnd ==
    ASSUME TypeOK, ControlInv, WalkInv, Walked
    PROVE  /\ Walking /\ filter.limit <= Cap /\ rows # None /\ total # None
           /\ rows \in Seq(Payments) /\ shown \in Seq(Payments) /\ total \in Nat
           /\ Len(rows) \in Nat /\ Len(shown) \in Nat
           /\ Seen \in Seq(Payments) /\ Len(Seen) = Len(shown) + Len(rows)
           /\ total <= Skip + Take /\ Skip \in Nat /\ Take \in Nat \ {0}
           /\ Skip = (page - 1) * Take /\ page \in Nat \ {0}
           /\ IsFiniteSet(base) /\ Cardinality(base) \in Nat
  <1>1. Walking /\ filter.limit <= Cap /\ rows # None /\ total # None
        /\ ~(page * Take < total)
    BY DEF Walked, Answered, HasNext, Walking
  <1>2. rows \in Seq(Payments) /\ shown \in Seq(Payments) /\ total \in Nat
    BY <1>1 DEF TypeOK
  <1>3. IsFiniteSet(base) /\ Cardinality(base) \in Nat
        /\ filter \in [window : Windows, limit : Limits] /\ page \in Nat \ {0}
    BY <1>1, WalkBounds DEF WalkInv
  <1>4. /\ Skip \in Nat /\ Take \in Nat \ {0} /\ page * Take \in Nat
        /\ Skip = (page - 1) * Take /\ Skip + Take = page * Take
    BY <1>1, <1>3, PagingTypes
  <1>5. Seen \in Seq(Payments) /\ Len(Seen) = Len(shown) + Len(rows)
    BY <1>2, ConcatProperties DEF Seen
  <1>6. Len(rows) \in Nat /\ Len(shown) \in Nat
    BY <1>2, LenProperties
  <1> QED BY <1>1, <1>2, <1>3, <1>4, <1>5, <1>6

\* However sagas commit between the pages and between the reads of one page, and
\* whatever order equal stamps come in, a walk to the last page misses no entry
\* without showing some entry twice or one that is newer than the walk: the pages
\* hold at least as many rows as there were entries.
THEOREM CompleteWalks == Spec => []CompleteOrTold
  <1>1. ASSUME TypeOK, ControlInv, WalkInv
        PROVE  CompleteOrTold
    <2> SUFFICES ASSUME Walked, IsInjective(Seen), ToSet(Seen) \subseteq base
                 PROVE  base \subseteq ToSet(Seen)
      BY DEF CompleteOrTold
    <2> DEFINE b == Cardinality(base)
               r == Len(rows)
               h == Len(shown)
    <2>1. /\ Walking /\ filter.limit <= Cap /\ rows # None /\ total # None
          /\ Seen \in Seq(Payments) /\ Len(Seen) = h + r /\ r \in Nat /\ h \in Nat
          /\ total \in Nat /\ total <= Skip + Take /\ Skip \in Nat /\ Take \in Nat
          /\ IsFiniteSet(base) /\ b \in Nat
      BY <1>1, AtTheEnd
    <2>2. b <= total /\ h >= Least(Skip, b) /\ Skip + r >= Least(Skip + Take, b)
      BY <1>1, <2>1 DEF WalkInv, AnnouncedInv, CompleteInv
    <2>3. h + r >= b
      <3> HIDE DEF b, r, h
      <3> QED BY <2>1, <2>2 DEF Least
    <2> QED BY <2>1, <2>3, AllOfThem
  <1> QED BY <1>1, WalkInvariant, TypeInvariant, PTL

\* The number of pages, ceil(n / t), is the page that holds the last entry.
LEMMA LastPage ==
    ASSUME NEW n \in Nat, NEW t \in Nat \ {0}, NEW k \in Nat, k * t < n, n <= k * t + t
    PROVE  (n + t - 1) \div t = k + 1
  <1> DEFINE x == n + t - 1
             q == x \div t
  <1>1. x \in Nat /\ k * t \in Nat
    OBVIOUS
  <1>2. q \in Int /\ t * q <= x /\ x < t * q + t
    BY <1>1
  <1>3. k * t + t <= x /\ x < k * t + t + t
    BY <1>1
  <1> HIDE DEF q, x
  <1>4. CASE q < k + 1
    <2>1. PICK e \in Nat : k = q + e
      <3>1. k - q \in Nat /\ k = q + (k - q)
        BY <1>2, <1>4
      <3> QED BY <3>1
    <2>2. k * t = t * q + t * e /\ t * e \in Nat /\ t * q \in Int
      BY <1>2, <2>1
    <2> QED BY <1>1, <1>2, <1>3, <2>2
  <1>5. CASE q > k + 1
    <2>1. PICK e \in Nat : q = k + 2 + e
      <3>1. q - k - 2 \in Nat /\ q = k + 2 + (q - k - 2)
        BY <1>2, <1>5
      <3> QED BY <3>1
    <2>2. t * q = k * t + t + t + t * e /\ t * e \in Nat /\ t * q \in Int
      BY <1>2, <2>1
    <2> QED BY <1>1, <1>2, <1>3, <2>2
  <1> QED BY <1>2, <1>4, <1>5 DEF q, x

\* The rank of an entry decides its place: among different stamps a lower rank is
\* a newer entry.
LEMMA RanksOrder ==
    ASSUME NEW at, NEW S, IsFiniteSet(S), \A p \in S : at[p].entry \in Int,
           NEW s, NEW i \in Nat, NEW j \in Nat, i \in DOMAIN s, j \in DOMAIN s,
           Ranked(at, s, 0, S), i < j
    PROVE  at[s[i]].entry > at[s[j]].entry
  <1>1. /\ s[i] \in S /\ Cardinality(Newer(at, S, s[i])) = i - 1
        /\ s[j] \in S /\ Cardinality(Newer(at, S, s[j])) = j - 1
    BY DEF Ranked
  <1>2. CASE at[s[i]].entry <= at[s[j]].entry
    <2>1. Newer(at, S, s[j]) \subseteq Newer(at, S, s[i])
      BY <1>1, <1>2 DEF Newer
    <2>2. IsFiniteSet(Newer(at, S, s[i]))
      BY FS_Subset DEF Newer
    <2>3. Cardinality(Newer(at, S, s[j])) <= Cardinality(Newer(at, S, s[i]))
      BY <2>1, <2>2, FS_Subset
    <2> QED BY <1>1, <2>3
  <1> QED BY <1>1, <1>2

\* A walk nobody commits into shows every entry once, on the announced number of
\* pages, and strictly from the newest to the oldest where no two share a stamp.
THEOREM QuietWalks == Spec => []QuietWalkIsExact
  <1>1. ASSUME TypeOK, ControlInv, WalkInv
        PROVE  QuietWalkIsExact
    <2> SUFFICES ASSUME Walked, base = Matching
                 PROVE  /\ Len(Seen) = Cardinality(base)
                        /\ page = IF base = {} THEN 1 ELSE TotalPages
                        /\ Distinct(stamp, base) =>
                              \A i, j \in DOMAIN Seen :
                                 i < j => stamp[Seen[i]].entry > stamp[Seen[j]].entry
      BY DEF QuietWalkIsExact, Distinct
    <2> DEFINE b == Cardinality(base)
               r == Len(rows)
               h == Len(shown)
    <2>1. /\ Walking /\ filter.limit <= Cap /\ rows # None /\ total # None
          /\ rows \in Seq(Payments) /\ shown \in Seq(Payments)
          /\ Seen \in Seq(Payments) /\ Len(Seen) = h + r /\ r \in Nat /\ h \in Nat
          /\ total \in Nat /\ total <= Skip + Take /\ Skip \in Nat /\ Take \in Nat \ {0}
          /\ Skip = (page - 1) * Take /\ page \in Nat \ {0}
          /\ IsFiniteSet(base) /\ b \in Nat
      BY <1>1, AtTheEnd
    <2>2. /\ h = Skip /\ (page > 1 => Skip < b) /\ total = b
          /\ Skip + r = IF b < Skip THEN Skip ELSE Least(Skip + Take, b)
          /\ Distinct(stamp, base) =>
                Ranked(stamp, shown, 0, base) /\ Ranked(stamp, rows, Skip, base)
      BY <1>1, <2>1 DEF WalkInv, QuietInv
    <2>3. page = 1 => Skip = 0
      BY <2>1
    <2>4. h + r = b
      <3>1. Skip <= b
        BY <2>1, <2>2, <2>3
      <3> HIDE DEF b, r, h
      <3> QED BY <2>1, <2>2, <3>1 DEF Least
    <2>5. page = IF base = {} THEN 1 ELSE TotalPages
      <3>1. b = 0 <=> base = {}
        BY <2>1, FS_EmptySet
      <3>2. CASE base = {}
        BY <2>1, <2>2, <3>1, <3>2
      <3>3. CASE base # {}
        <4>1. page - 1 \in Nat /\ (page - 1) * Take < b /\ b <= (page - 1) * Take + Take
          BY <2>1, <2>2, <2>3, <3>1, <3>3
        <4>2. (b + Take - 1) \div Take = (page - 1) + 1
          BY <2>1, <4>1, LastPage
        <4> QED BY <2>1, <2>2, <3>3, <4>2 DEF TotalPages
      <3> QED BY <3>2, <3>3
    <2>6. ASSUME Distinct(stamp, base), NEW i \in DOMAIN Seen, NEW j \in DOMAIN Seen, i < j
          PROVE  stamp[Seen[i]].entry > stamp[Seen[j]].entry
      <3>1. Ranked(stamp, Seen, 0, base)
        BY <2>1, <2>2, <2>6, RankedConcat DEF Seen
      <3>2. \A p \in base : stamp[p].entry \in Int
        BY <1>1, <2>1, WalkBounds, QueriesAssumption DEF WalkInv, TypeOK, Stamps, Instant
      <3>3. i \in Nat /\ j \in Nat
        BY <2>1, LenProperties
      <3> QED BY <2>1, <2>6, <3>1, <3>2, <3>3, RanksOrder
    <2> QED BY <2>1, <2>4, <2>5, <2>6
  <1> QED BY <1>1, WalkInvariant, TypeInvariant, PTL
=============================================================================
