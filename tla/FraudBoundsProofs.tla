------------------------- MODULE FraudBoundsProofs -------------------------
(***************************************************************************)
(* What the frequency and the volume rule of Fraud let pass, for any       *)
(* number of requests, any commands, thresholds and instants.              *)
(*                                                                         *)
(* The bounds count, beside the rows that a rule did not notice, the       *)
(* pending handlers: those that have read, whose rule did not fire, and    *)
(* whose row is not yet written.  A handler becomes pending only when the  *)
(* rows there are leave room for its own; its row, once written, only      *)
(* takes the place the handler held.                                       *)
(*                                                                         *)
(* SumOf is a fold over a set.  The first part proves, by a minimal        *)
(* counterexample instead of an induction, that the recurrence of the fold *)
(* has one solution, in whatever order the rows are taken.                 *)
(***************************************************************************)
EXTENDS FraudProofs

(* Least elements *)

\* Among subsets of a finite set one is minimal.
LEMMA LeastSet ==
    ASSUME NEW S, IsFiniteSet(S), NEW B, B \subseteq SUBSET S, B # {}
    PROVE  \E T \in B : \A U \in B : U \subseteq T => U = T
  <1>1. IsWellFoundedOn(StrictSubsetOrdering(S), SUBSET S)
    BY FS_StrictSubsetOrderingWellFounded, FS_FiniteSubsetsOfFinite
  <1>2. PICK T \in B : \A U \in B : ~(<<U, T>> \in StrictSubsetOrdering(S))
    BY <1>1, WFMin
  <1>3. \A U \in B : <<U, T>> \in (SUBSET S) \X (SUBSET S) /\ <<U, T>>[1] = U /\ <<U, T>>[2] = T
    OBVIOUS
  <1> QED BY <1>2, <1>3 DEF StrictSubsetOrdering

\* A set of naturals has a least element: what induction is replaced by.
LEMMA LeastNatural ==
    ASSUME NEW B, B \subseteq Nat, B # {}
    PROVE  \E n \in B : \A m \in B : n <= m
  <1>1. PICK b \in B : TRUE
    OBVIOUS
  <1> DEFINE All == 0 .. b
             Below == {0 .. m : m \in B \cap (0 .. b)}
  <1>2. b \in Nat /\ b \in B \cap (0 .. b)
    BY <1>1
  <1>3. IsFiniteSet(All)
    BY <1>2, FS_Interval
  <1>7. Below \subseteq SUBSET All
    BY <1>2
  <1>8. Below # {}
    BY <1>2
  <1> HIDE DEF Below, All
  <1>4. PICK T \in Below : \A U \in Below : U \subseteq T => U = T
    BY <1>3, <1>7, <1>8, LeastSet
  <1>5. PICK n \in B \cap (0 .. b) : T = 0 .. n
    BY <1>4 DEF Below
  <1>6. ASSUME NEW m \in B, m < n PROVE FALSE
    <2>1. m \in Nat /\ n \in Nat /\ m \in 0 .. b
      BY <1>5, <1>6, <1>2
    <2>2. 0 .. m \in Below
      BY <1>6, <2>1 DEF Below
    <2>3. 0 .. m \subseteq 0 .. n /\ n \in 0 .. n /\ n \notin 0 .. m
      BY <1>6, <2>1
    <2> QED BY <1>4, <1>5, <2>2, <2>3
  <1> QED BY <1>5, <1>6

-----------------------------------------------------------------------------
(* Sums *)

Chosen(s) == CHOOSE x \in s : TRUE

\* The recurrence that a sum over the subsets of S solves.
IsSum(f, S) ==
    f = [s \in SUBSET S |-> IF s = {} THEN 0
                            ELSE Chosen(s).amount + f[s \ {Chosen(s)}]]

\* The fold is the solution CHOOSE finds of its recurrence.
LEMMA SumIsSolution ==
    ASSUME NEW S PROVE SumOf(S) = (CHOOSE f : IsSum(f, S))[S]
  BY DEF SumOf, MapThenSumSet, MapThenFoldSet, IsSum, Chosen

\* The recurrence has a solution on the subsets of every finite set.
LEMMA SumExists ==
    ASSUME NEW S, IsFiniteSet(S) PROVE \E f : IsSum(f, S)
  <1> DEFINE Value(f, s) == IF s = {} THEN 0 ELSE Chosen(s).amount + f[s \ {Chosen(s)}]
             UpTo(f, n) == \A s \in SUBSET S : Cardinality(s) <= n => f[s] = Value(f, s)
             Bad == {n \in Nat : ~ \E f : UpTo(f, n)}
  <1>1. \A s \in SUBSET S : IsFiniteSet(s) /\ Cardinality(s) \in Nat /\ Cardinality(s) <= Cardinality(S)
    BY FS_Subset, FS_CardinalityType
  <1>2. \A s \in SUBSET S : s # {} =>
           /\ Chosen(s) \in s
           /\ s \ {Chosen(s)} \in SUBSET S
           /\ Cardinality(s \ {Chosen(s)}) = Cardinality(s) - 1
           /\ Cardinality(s) # 0
    <2> SUFFICES ASSUME NEW s \in SUBSET S, s # {}
                 PROVE  /\ Chosen(s) \in s
                        /\ s \ {Chosen(s)} \in SUBSET S
                        /\ Cardinality(s \ {Chosen(s)}) = Cardinality(s) - 1
                        /\ Cardinality(s) # 0
      OBVIOUS
    <2>1. Chosen(s) \in s
      BY DEF Chosen
    <2> QED BY <1>1, <2>1, FS_RemoveElement, FS_EmptySet
  <1>3. ASSUME NEW n \in Bad, \A m \in Bad : n <= m PROVE FALSE
    <2>0. n \in Nat /\ ~ \E f : UpTo(f, n)
      OBVIOUS
    <2>9. n # 0 => n - 1 \in Nat /\ ~(n <= n - 1)
      BY <2>0
    <2>1. CASE n = 0
      <3>1. \A s \in SUBSET S : Cardinality(s) <= n => s = {}
        <4> SUFFICES ASSUME NEW s \in SUBSET S, Cardinality(s) <= n, s # {} PROVE FALSE
          OBVIOUS
        <4>1. Cardinality(s) \in Nat /\ Cardinality(s) # 0
          BY <1>1, <1>2
        <4> QED BY <2>1, <4>1
      <3> DEFINE g == [s \in SUBSET S |-> 0]
      <3>2. UpTo(g, n)
        BY <3>1
      <3> QED BY <3>2, <2>0
    <2>2. CASE n # 0
      <3>1. n - 1 \in Nat /\ n - 1 \notin Bad
        <4> HIDE DEF Bad
        <4> QED BY <1>3, <2>9, <2>2
      <3>2. PICK f : UpTo(f, n - 1)
        BY <3>1
      <3> DEFINE g == [s \in SUBSET S |-> IF Cardinality(s) < n THEN f[s]
                                          ELSE Chosen(s).amount + f[s \ {Chosen(s)}]]
      <3>3. ASSUME NEW s \in SUBSET S, Cardinality(s) <= n PROVE g[s] = Value(g, s)
        <4>1. CASE s = {}
          <5>1. Cardinality(s) = 0
            BY <4>1, FS_EmptySet
          <5>2. Cardinality(s) <= n - 1 /\ Cardinality(s) < n
            BY <5>1, <2>0, <2>2
          <5>3. g[s] = f[s] /\ f[s] = 0
            BY <5>2, <3>2, <4>1
          <5> QED BY <5>3, <4>1
        <4>2. CASE s # {}
          <5>1. /\ s \ {Chosen(s)} \in SUBSET S
                /\ Cardinality(s \ {Chosen(s)}) < n
            BY <1>1, <1>2, <3>3, <4>2, <2>0
          <5>2. g[s \ {Chosen(s)}] = f[s \ {Chosen(s)}]
            BY <5>1
          <5>3. g[s] = Chosen(s).amount + f[s \ {Chosen(s)}]
            <6>1. CASE Cardinality(s) < n
              <7>1. Cardinality(s) <= n - 1
                BY <6>1, <1>1, <2>0
              <7> QED BY <7>1, <6>1, <3>2, <4>2
            <6>2. CASE ~(Cardinality(s) < n)
              BY <6>2
            <6> QED BY <6>1, <6>2
          <5> QED BY <5>2, <5>3, <4>2
        <4> QED BY <4>1, <4>2
      <3> HIDE DEF g, Value
      <3>4. UpTo(g, n)
        BY <3>3
      <3> QED BY <3>4, <2>0
    <2> QED BY <2>1, <2>2
  <1>4. Bad \subseteq Nat
    OBVIOUS
  <1>5. Cardinality(S) \in Nat /\ Cardinality(S) \notin Bad
    <2> HIDE DEF Bad
    <2> QED BY <1>1, <1>3, <1>4, LeastNatural
  <1>6. PICK f : UpTo(f, Cardinality(S))
    BY <1>5
  <1>7. \A s \in SUBSET S : f[s] = Value(f, s)
    BY <1>6, <1>1
  <1> DEFINE h == [s \in SUBSET S |-> f[s]]
  <1>8. \A s \in SUBSET S : s # {} => h[s \ {Chosen(s)}] = f[s \ {Chosen(s)}]
    OBVIOUS
  <1>9. h = [s \in SUBSET S |-> IF s = {} THEN 0 ELSE Chosen(s).amount + h[s \ {Chosen(s)}]]
    BY <1>7, <1>8
  <1> QED BY <1>9 DEF IsSum

\* Two solutions agree wherever both are defined.
LEMMA SumsAgree ==
    ASSUME NEW S, IsFiniteSet(S), NEW T \in SUBSET S, NEW f, NEW g, IsSum(f, S), IsSum(g, T)
    PROVE  \A s \in SUBSET T : f[s] = g[s]
  <1> DEFINE Bad == {s \in SUBSET T : f[s] # g[s]}
  <1>1. ASSUME NEW s \in Bad, \A u \in Bad : u \subseteq s => u = s PROVE FALSE
    <2>1. s \in SUBSET T /\ s \in SUBSET S /\ f[s] # g[s]
      OBVIOUS
    <2>2. /\ f[s] = IF s = {} THEN 0 ELSE Chosen(s).amount + f[s \ {Chosen(s)}]
          /\ g[s] = IF s = {} THEN 0 ELSE Chosen(s).amount + g[s \ {Chosen(s)}]
      BY <2>1 DEF IsSum
    <2>3. s # {} /\ Chosen(s) \in s
      BY <2>1, <2>2 DEF Chosen
    <2>4. s \ {Chosen(s)} \notin Bad
      BY <1>1, <2>3
    <2> QED BY <2>1, <2>2, <2>3, <2>4
  <1>2. IsFiniteSet(T) /\ Bad \subseteq SUBSET T
    BY FS_Subset
  <1>3. Bad = {}
    <2> HIDE DEF Bad
    <2> QED BY <1>1, <1>2, LeastSet
  <1> QED BY <1>3

\* SumOf follows the recurrence of MapThenFoldSet.
LEMMA SumOfParts ==
    ASSUME NEW S, IsFiniteSet(S)
    PROVE  SumOf(S) = IF S = {} THEN 0 ELSE Chosen(S).amount + SumOf(S \ {Chosen(S)})
  <1> DEFINE f == CHOOSE h : IsSum(h, S)
             T == S \ {Chosen(S)}
             g == CHOOSE h : IsSum(h, T)
  <1>1. IsFiniteSet(T) /\ T \in SUBSET S
    BY FS_Subset
  <1>2. IsSum(f, S)
    BY SumExists
  <1>3. IsSum(g, T)
    <2> HIDE DEF T
    <2> QED BY <1>1, SumExists
  <1>4. SumOf(S) = f[S] /\ SumOf(T) = g[T]
    BY SumIsSolution
  <1> HIDE DEF f, g
  <1>5. f[S] = IF S = {} THEN 0 ELSE Chosen(S).amount + f[T]
    BY <1>2 DEF IsSum
  <1>6. f[T] = g[T]
    <2> HIDE DEF T
    <2> QED BY <1>1, <1>2, <1>3, SumsAgree
  <1> QED BY <1>4, <1>5, <1>6

\* The order in which a sum takes the rows does not matter.
LEMMA SumRemove ==
    ASSUME NEW S, IsFiniteSet(S), \A x \in S : x.amount \in Nat
    PROVE  /\ SumOf(S) \in Nat
           /\ \A x \in S : SumOf(S) = x.amount + SumOf(S \ {x})
  <1> DEFINE Good(T) == /\ SumOf(T) \in Nat
                        /\ \A x \in T : SumOf(T) = x.amount + SumOf(T \ {x})
             Bad == {T \in SUBSET S : ~Good(T)}
  <1>1. ASSUME NEW T \in Bad, \A U \in Bad : U \subseteq T => U = T PROVE FALSE
    <2>1. T \in SUBSET S /\ ~Good(T) /\ IsFiniteSet(T)
      BY FS_Subset
    <2>2. SumOf(T) = IF T = {} THEN 0 ELSE Chosen(T).amount + SumOf(T \ {Chosen(T)})
      BY <2>1, SumOfParts
    <2>3. T # {}
      BY <2>1, <2>2
    <2> DEFINE y == Chosen(T)
    <2>4. y \in T
      BY <2>3 DEF Chosen
    <2> HIDE DEF y, Good
    <2>5. \A x \in T : Good(T \ {x})
      <3> SUFFICES ASSUME NEW x \in T PROVE Good(T \ {x})
        OBVIOUS
      <3>1. T \ {x} \notin Bad
        BY <1>1
      <3> QED BY <3>1, <2>1
    <2>6. SumOf(T) = y.amount + SumOf(T \ {y}) /\ SumOf(T \ {y}) \in Nat /\ y.amount \in Nat
      BY <2>1, <2>2, <2>3, <2>4, <2>5 DEF y, Good
    <2>7. SumOf(T) \in Nat
      BY <2>6
    <2>8. ASSUME NEW x \in T PROVE SumOf(T) = x.amount + SumOf(T \ {x})
      <3>1. CASE x = y
        BY <3>1, <2>6
      <3>2. CASE x # y
        <4>1. x \in T \ {y} /\ y \in T \ {x} /\ (T \ {y}) \ {x} = (T \ {x}) \ {y}
          BY <3>2, <2>4
        <4>2. SumOf(T \ {y}) = x.amount + SumOf((T \ {y}) \ {x})
          BY <4>1, <2>4, <2>5 DEF Good
        <4>3. SumOf(T \ {x}) = y.amount + SumOf((T \ {x}) \ {y}) /\ SumOf(T \ {x}) \in Nat
          BY <4>1, <2>5 DEF Good
        <4>4. x.amount \in Nat /\ y.amount \in Nat
          BY <2>1, <2>4
        <4>5. SumOf((T \ {y}) \ {x}) \in Nat
          <5> DEFINE U == (T \ {y}) \ {x}
          <5>1. U \in SUBSET S /\ U \subseteq T /\ U # T
            BY <2>1, <2>4
          <5>2. U \notin Bad
            BY <1>1, <5>1
          <5> QED BY <5>1, <5>2 DEF Good
        <4> HIDE DEF Bad
        <4> QED BY <4>1, <4>2, <4>3, <4>4, <4>5, <2>6
      <3> QED BY <3>1, <3>2
    <2> QED BY <2>1, <2>7, <2>8 DEF Good
  <1>2. Bad \subseteq SUBSET S
    OBVIOUS
  <1>3. Bad = {}
    <2> HIDE DEF Bad
    <2> QED BY <1>1, <1>2, LeastSet
  <1> QED BY <1>3

\* One row more adds its amount.
LEMMA SumAdd ==
    ASSUME NEW S, IsFiniteSet(S), NEW x, x \notin S, \A y \in S \cup {x} : y.amount \in Nat
    PROVE  /\ SumOf(S) \in Nat /\ SumOf(S \cup {x}) \in Nat
           /\ SumOf(S \cup {x}) = SumOf(S) + x.amount
  <1> DEFINE T == S \cup {x}
  <1>1. IsFiniteSet(T) /\ x \in T /\ T \ {x} = S /\ x.amount \in Nat
    BY FS_AddElement
  <1>2. SumOf(S) \in Nat
    BY SumRemove
  <1>4. \A y \in T : y.amount \in Nat
    OBVIOUS
  <1> HIDE DEF T
  <1>3. SumOf(T) \in Nat /\ SumOf(T) = x.amount + SumOf(T \ {x})
    BY <1>1, <1>4, SumRemove
  <1>5. SumOf(T \ {x}) = SumOf(S)
    BY <1>1
  <1>6. SumOf(T) = SumOf(S) + x.amount
    BY <1>1, <1>2, <1>3, <1>5
  <1> QED BY <1>2, <1>3, <1>6 DEF T

\* More rows never add up to less.
LEMMA SumMonotone ==
    ASSUME NEW T, IsFiniteSet(T), NEW S \in SUBSET T, \A x \in T : x.amount \in Nat
    PROVE  SumOf(S) \in Nat /\ SumOf(T) \in Nat /\ SumOf(S) <= SumOf(T)
  <1> DEFINE Bad == {U \in SUBSET T : S \subseteq U /\ ~(SumOf(S) <= SumOf(U))}
  <1>1. \A U \in SUBSET T : IsFiniteSet(U) /\ SumOf(U) \in Nat
    <2> SUFFICES ASSUME NEW U \in SUBSET T PROVE IsFiniteSet(U) /\ SumOf(U) \in Nat
      OBVIOUS
    <2>1. IsFiniteSet(U) /\ \A x \in U : x.amount \in Nat
      BY FS_Subset
    <2> QED BY <2>1, SumRemove
  <1>2. ASSUME NEW U \in Bad, \A V \in Bad : V \subseteq U => V = U PROVE FALSE
    <2>1. U \in SUBSET T /\ S \subseteq U /\ ~(SumOf(S) <= SumOf(U))
      OBVIOUS
    <2>2. PICK x \in U : x \notin S
      BY <2>1, <1>1
    <2>3. SumOf(U) = x.amount + SumOf(U \ {x})
      BY <1>1, <2>1, SumRemove
    <2>4. SumOf(S) <= SumOf(U \ {x})
      BY <1>2, <2>1, <2>2
    <2>5. x.amount \in Nat /\ SumOf(S) \in Nat /\ SumOf(U \ {x}) \in Nat
      BY <1>1, <2>1
    <2> QED BY <2>1, <2>3, <2>4, <2>5
  <1>3. Bad = {}
    <2>1. Bad \subseteq SUBSET T
      OBVIOUS
    <2> HIDE DEF Bad
    <2> QED BY <1>2, <2>1, LeastSet
  <1>4. T \notin Bad
    BY <1>3
  <1> QED BY <1>1, <1>4
-----------------------------------------------------------------------------
(* The invariant *)

\* A request has one row, and no more run than may.
OneRowInv == \A x, y \in analyses : x.id = y.id => x = y
Running == {q \in Requests : pc[q] \in InFlight}
RunningInv == Cardinality(Running) <= MaxInFlight

Ran == [HIGH_FREQUENCY |-> {"sum", "receivers"}, UNUSUAL_AMOUNT |-> {"receivers"}]

\* The handlers whose rule f did not fire and whose row may still join those of
\* s in a window that starts at t.
Pending(s, t, window, f) ==
    {r \in Requests :
        /\ pc[r] \in Ran[f] \cup {"save"} /\ cmd[r].sender = s /\ f \notin draft[r].factors
        /\ pc[r] \in Ran[f] => now <= t + window
        /\ pc[r] = "save" => draft[r].at >= t /\ draft[r].at <= t + window}

\* Who has found less than the threshold runs at the same time as all others
\* that have.
FrequencyInv ==
    \A s \in Accounts, t \in Instants :
        Cardinality(Unnoticed(s, t, FrequencyWindow, "HIGH_FREQUENCY"))
        + Cardinality(Pending(s, t, FrequencyWindow, "HIGH_FREQUENCY"))
            < FrequencyThreshold + MaxInFlight

\* What goes unnoticed, and how much it leaves for the pending ones: the last of
\* them to read the volume found room for its own amount, each other one needs
\* no more than the limit.
Slipped(s, t) ==
    {x \in Unnoticed(s, t, VolumeWindow, "UNUSUAL_AMOUNT") : Decision(x.factors) # "BLOCKED"}
Spending(s, t) == Pending(s, t, VolumeWindow, "UNUSUAL_AMOUNT")
Room(sum, P, commands) ==
    IF P = {} THEN sum <= MaxInFlight * VolumeLimit
    ELSE \E r \in P : sum + commands[r].amount + (Cardinality(P) - 1) * VolumeLimit
                           <= MaxInFlight * VolumeLimit
VolumeInv ==
    \A s \in Accounts, t \in Instants :
        /\ \A r \in Spending(s, t) : cmd[r].amount <= VolumeLimit
        /\ Room(SumOf(Slipped(s, t)), Spending(s, t), cmd)

VolumeJudged(r) ==
    Judged(r, "UNUSUAL_AMOUNT", IsTooMuch(cmd[r].sender, now, cmd[r].amount),
              IsTooMuch(cmd[r].sender, draft[r].begun, cmd[r].amount))

\* What the read of the volume has found.
VolumeHistoryInv ==
    \A r \in Requests :
        /\ pc[r] \in {"count", "sum"} => "UNUSUAL_AMOUNT" \notin draft[r].factors
        /\ (pc[r] \in {"receivers", "save"} /\ r \notin overtaken) => VolumeJudged(r)

BoundsInv == OneRowInv /\ RunningInv /\ FrequencyInv /\ VolumeInv /\ VolumeHistoryInv

-----------------------------------------------------------------------------
(* What a step does to the rows and to the pending handlers *)

\* A set that gains at most one element, its size.
LEMMA GrowsByOne ==
    ASSUME NEW S, IsFiniteSet(S), NEW x, NEW T, T \subseteq S \cup {x}
    PROVE  /\ IsFiniteSet(T) /\ Cardinality(T) \in Nat /\ Cardinality(S) \in Nat
           /\ Cardinality(T) <= Cardinality(S) + 1
  <1> DEFINE U == S \cup {x}
  <1>1. IsFiniteSet(U) /\ Cardinality(U) = IF x \in S THEN Cardinality(S) ELSE Cardinality(S) + 1
    BY FS_AddElement
  <1>2. T \in SUBSET U
    OBVIOUS
  <1> HIDE DEF U
  <1>3. IsFiniteSet(T) /\ Cardinality(T) <= Cardinality(U)
    BY <1>1, <1>2, FS_Subset
  <1>4. Cardinality(T) \in Nat /\ Cardinality(S) \in Nat
    BY <1>3, FS_CardinalityType
  <1> QED BY <1>1, <1>3, <1>4

\* A handler that writes its row has none yet.
LEMMA SavedIsNew ==
    ASSUME FraudInv, NEW r \in Requests, Save(r) \/ SaveUnacknowledged(r)
    PROVE  \A x \in analyses : x.id # r
  <1>1. pc[r] = "save"
    BY SaveGives
  <1> QED BY <1>1 DEF FraudInv, RowInv

\* The saga replaces one row by one that differs in the receiver paid.
LEMMA PayReplaces ==
    ASSUME FraudInv, OneRowInv, NEW r \in Requests, Pay(r)
    PROVE  \/ analyses' = analyses
           \/ \E x \in analyses, y \in Analysis :
                 /\ analyses' = (analyses \ {x}) \cup {y} /\ y \notin analyses \ {x}
                 /\ y.id = x.id /\ y.sender = x.sender /\ y.amount = x.amount
                 /\ y.factors = x.factors /\ y.at = x.at
  <1> DEFINE row(x) == IF x.id = r THEN [x EXCEPT !.paid = cmd[r].receiver] ELSE x
  <1>1. analyses' = {row(x) : x \in analyses} /\ analyses' \subseteq Analysis
    BY PayGives
  <1>2. \A x \in analyses : /\ row(x).id = x.id /\ row(x).sender = x.sender
                            /\ row(x).amount = x.amount /\ row(x).factors = x.factors
                            /\ row(x).at = x.at /\ (x.id # r => row(x) = x)
    BY DEF FraudInv, TypeOK, Analysis
  <1> HIDE DEF row
  <1>3. CASE \A x \in analyses : x.id # r
    BY <1>1, <1>2, <1>3
  <1>4. CASE \E x \in analyses : x.id = r
    <2>1. PICK x \in analyses : x.id = r
      BY <1>4
    <2>2. \A z \in analyses \ {x} : z.id # r
      BY <2>1 DEF OneRowInv
    <2>3. analyses' = (analyses \ {x}) \cup {row(x)} /\ row(x) \in Analysis
      BY <1>1, <1>2, <2>2
    <2>4. row(x) \notin analyses \ {x}
      BY <1>2, <2>1, <2>2
    <2> QED BY <1>2, <2>1, <2>3, <2>4
  <1> QED BY <1>3, <1>4

\* No analysis has two rows.
LEMMA OneRowStep ==
    ASSUME FraudInv, OneRowInv, [Next]_vars PROVE OneRowInv'
  <1>1. CASE analyses' = analyses
    BY <1>1 DEF OneRowInv
  <1>2. ASSUME NEW r \in Requests, Save(r) \/ SaveUnacknowledged(r) PROVE OneRowInv'
    <2>1. analyses' = analyses \cup {Saved(r)} /\ Saved(r).id = r
      BY <1>2, SaveGives DEF Saved
    <2> QED BY <1>2, <2>1, SavedIsNew DEF OneRowInv
  <1>3. ASSUME NEW r \in Requests, Pay(r) PROVE OneRowInv'
    <2>1. CASE \E x \in analyses, y \in Analysis :
                 analyses' = (analyses \ {x}) \cup {y} /\ y.id = x.id
      BY <2>1 DEF OneRowInv
    <2> QED BY <1>1, <1>3, <2>1, PayReplaces
  <1>4. ASSUME NEW r \in Requests, Step(r) PROVE OneRowInv'
    <2>1. CASE ~(Save(r) \/ SaveUnacknowledged(r) \/ Pay(r))
      <3>1. analyses' = analyses
        BY <1>4, <2>1 DEF Step, Receive, CountRecent, SumRecent, FindReceivers, SaveEvents,
                          PayFails, CallFails, Crash
      <3> QED BY <1>1, <3>1
    <2> QED BY <1>2, <1>3, <2>1
  <1>5. CASE Pass \/ UNCHANGED vars
    BY <1>1, <1>5 DEF Pass, vars
  <1> QED BY <1>4, <1>5 DEF Next

\* No more handlers run than may.
LEMMA RunningStep ==
    ASSUME FraudInv, RunningInv, [Next]_vars PROVE RunningInv'
  <1>t. TypeOK /\ IsFiniteSet(Requests) /\ IsFiniteSet(Running) /\ IsFiniteSet(Running')
        /\ Cardinality(Running) \in Nat /\ Cardinality(Running') \in Nat /\ MaxInFlight \in Nat
    <2>1. IsFiniteSet(Requests) /\ Running \subseteq Requests /\ Running' \subseteq Requests
      BY FraudAssumption DEF Running
    <2> QED BY <2>1, FS_Subset, FS_CardinalityType, FraudAssumption DEF FraudInv
  <1>1. CASE Running' \subseteq Running
    <2>1. Cardinality(Running') <= Cardinality(Running)
      BY <1>1, <1>t, FS_Subset
    <2> QED BY <2>1, <1>t DEF RunningInv
  <1>2. ASSUME NEW r \in Requests, Receive(r) PROVE RunningInv'
    <2>1. Cardinality(Running) < MaxInFlight /\ pc' = [pc EXCEPT ![r] = "count"]
      BY <1>2 DEF Receive, Running, Goto
    <2>2. Running' \subseteq Running \cup {r}
      BY <2>1, <1>t DEF Running, TypeOK
    <2>3. Cardinality(Running') <= Cardinality(Running) + 1
      BY <2>2, <1>t, GrowsByOne
    <2> QED BY <2>1, <2>3, <1>t DEF RunningInv
  <1>3. ASSUME NEW r \in Requests, Step(r), ~Receive(r) PROVE RunningInv'
    <2>1. /\ pc[r] \in InFlight
          /\ \E l : pc' = [pc EXCEPT ![r] = l]
      BY <1>3 DEF Step, CountRecent, SumRecent, FindReceivers, Save, SaveUnacknowledged, Insert,
                  SaveEvents, Pay, PayFails, CallFails, Crash, Reply, Goto, InFlight, Reading
    <2>2. Running' \subseteq Running
      BY <2>1, <1>t DEF Running, TypeOK
    <2> QED BY <2>2, <1>1
  <1>4. CASE Pass \/ UNCHANGED vars
    BY <1>1, <1>4 DEF Pass, vars, Running
  <1> QED BY <1>2, <1>3, <1>4 DEF Next

\* A handler becomes pending on a rule when it reads and the rule does not fire.
LEMMA PendingStep ==
    ASSUME FraudInv, NEW r \in Requests, Step(r),
           NEW s, NEW t \in Instants, NEW w \in Nat, NEW f \in {"HIGH_FREQUENCY", "UNUSUAL_AMOUNT"}
    PROVE  /\ \A q \in Pending(s, t, w, f)' :
                 \/ q \in Pending(s, t, w, f)
                 \/ /\ q = r /\ s = cmd[r].sender /\ now <= t + w
                    /\ \/ f = "HIGH_FREQUENCY" /\ pc[r] = "count" /\ ~IsFrequent(s, now)
                       \/ f = "UNUSUAL_AMOUNT" /\ pc[r] = "sum" /\ ~IsTooMuch(s, now, cmd[r].amount)
           /\ pc[r] = "save" => r \notin Pending(s, t, w, f)'
  <1>t. TypeOK /\ now \in Nat /\ t \in Nat
    BY FraudAssumption DEF FraudInv, TypeOK
  <1>r. Ran[f] \subseteq {"sum", "receivers"}
    BY DEF Ran
  <1>1. ASSUME NEW q \in Requests \ {r} PROVE q \in Pending(s, t, w, f)' <=> q \in Pending(s, t, w, f)
    <2>1. pc'[q] = pc[q] /\ cmd'[q] = cmd[q] /\ draft'[q] = draft[q] /\ now' = now
      BY StepOfOthers
    <2> QED BY <2>1 DEF Pending
  <1>2. CASE CountRecent(r) \/ SumRecent(r) \/ FindReceivers(r)
    <2>1. cmd' = cmd /\ now' = now /\ draft[r] \in Draft /\ draft'[r] \in Draft
      BY <1>2, ReadGives DEF FraudInv, ControlInv, Reading, CountRecent, SumRecent, FindReceivers
    <2>2. CASE /\ pc[r] = "count" /\ pc' = [pc EXCEPT ![r] = "sum"]
               /\ draft'[r].factors = draft[r].factors \cup
                     {x \in {"HIGH_FREQUENCY"} : IsFrequent(cmd[r].sender, now)}
      BY <1>1, <1>t, <2>1, <2>2 DEF Pending, Ran, TypeOK
    <2>3. CASE /\ pc[r] = "sum" /\ pc' = [pc EXCEPT ![r] = "receivers"]
               /\ draft'[r].factors = draft[r].factors \cup
                     {x \in {"UNUSUAL_AMOUNT"} : IsTooMuch(cmd[r].sender, now, cmd[r].amount)}
      BY <1>1, <1>t, <2>1, <2>3 DEF Pending, Ran, TypeOK
    <2>4. CASE /\ pc[r] = "receivers" /\ pc' = [pc EXCEPT ![r] = "save"]
               /\ draft'[r].at = now
               /\ draft'[r].factors = draft[r].factors \cup
                     {x \in {"REPEATED_RECEIVER"} : IsRepeated(cmd[r].sender, now, cmd[r].receiver)}
      BY <1>1, <1>t, <2>1, <2>4 DEF Pending, Ran, TypeOK
    <2> QED BY <1>2, <2>2, <2>3, <2>4, ReadGives
  <1>3. CASE ~(CountRecent(r) \/ SumRecent(r) \/ FindReceivers(r))
    <2>1. pc'[r] \notin {"sum", "receivers", "save"}
      BY <1>3, <1>t DEF Step, Receive, Save, SaveUnacknowledged, Insert, SaveEvents, Pay,
                        PayFails, CallFails, Crash, Reply, Goto, TypeOK
    <2>2. r \notin Pending(s, t, w, f)'
      BY <2>1, <1>r DEF Pending
    <2> QED BY <1>1, <2>2 DEF Pending
  <1> QED BY <1>2, <1>3

\* Time makes nobody pending.
LEMMA PendingOfPass ==
    ASSUME FraudInv, Pass \/ UNCHANGED vars,
           NEW s, NEW t \in Instants, NEW w \in Nat, NEW f \in {"HIGH_FREQUENCY", "UNUSUAL_AMOUNT"}
    PROVE  Pending(s, t, w, f)' \subseteq Pending(s, t, w, f)
  <1>1. now \in Nat /\ t \in Nat /\ now' \in Nat /\ now <= now'
        /\ pc' = pc /\ cmd' = cmd /\ draft' = draft
    BY FraudAssumption DEF FraudInv, TypeOK, Pass, vars
  <1> QED BY <1>1 DEF Pending

\* A row that goes unnoticed is that of a pending handler.
LEMMA SavedWasPending ==
    ASSUME FraudInv, NEW r \in Requests, Save(r) \/ SaveUnacknowledged(r),
           NEW s, NEW t \in Instants, NEW w \in Nat, NEW f \in {"HIGH_FREQUENCY", "UNUSUAL_AMOUNT"}
    PROVE  \/ Unnoticed(s, t, w, f)' = Unnoticed(s, t, w, f)
           \/ /\ Unnoticed(s, t, w, f)' = Unnoticed(s, t, w, f) \cup {Saved(r)}
              /\ r \in Pending(s, t, w, f)
  <1>1. /\ pc[r] = "save" /\ analyses' = analyses \cup {Saved(r)}
        /\ Saved(r).sender = cmd[r].sender /\ Saved(r).at = draft[r].at
        /\ Saved(r).factors = draft[r].factors
    BY SaveGives DEF Saved
  <1>2. pc[r] \notin Ran[f]
    BY <1>1 DEF Ran
  <1>3. CASE Saved(r).sender = s /\ f \notin Saved(r).factors /\ Saved(r).at >= t /\ Saved(r).at <= t + w
    BY <1>1, <1>2, <1>3 DEF Unnoticed, Pending
  <1>4. CASE ~(Saved(r).sender = s /\ f \notin Saved(r).factors /\ Saved(r).at >= t /\ Saved(r).at <= t + w)
    BY <1>1, <1>4 DEF Unnoticed
  <1> QED BY <1>3, <1>4

\* What the bounds count is finite, and what they add up are naturals.
LEMMA Counts ==
    ASSUME FraudInv, NEW s, NEW t, NEW w, NEW f \in {"HIGH_FREQUENCY", "UNUSUAL_AMOUNT"}
    PROVE  /\ IsFiniteSet(Unnoticed(s, t, w, f)) /\ IsFiniteSet(Pending(s, t, w, f))
           /\ Cardinality(Unnoticed(s, t, w, f)) \in Nat
           /\ Cardinality(Pending(s, t, w, f)) \in Nat
           /\ Cardinality(Pending(s, t, w, f)) <= Cardinality(Running)
           /\ Cardinality(Running) \in Nat
           /\ \A x \in Unnoticed(s, t, w, f) : x.amount \in Nat
  <1>1. IsFiniteSet(analyses) /\ Unnoticed(s, t, w, f) \subseteq analyses
    BY DEF FraudInv, RowInv, Unnoticed
  <1>2. Pending(s, t, w, f) \subseteq Running /\ Running \subseteq Requests /\ IsFiniteSet(Requests)
    BY FraudAssumption DEF Pending, Running, InFlight, Reading, Ran
  <1>3. IsFiniteSet(Unnoticed(s, t, w, f)) /\ IsFiniteSet(Running)
    BY <1>1, <1>2, FS_Subset
  <1>4. IsFiniteSet(Pending(s, t, w, f)) /\ Cardinality(Pending(s, t, w, f)) <= Cardinality(Running)
    BY <1>2, <1>3, FS_Subset
  <1>5. \A x \in Unnoticed(s, t, w, f) : x.amount \in Nat
    BY <1>1 DEF FraudInv, TypeOK, Analysis
  <1> QED BY <1>3, <1>4, <1>5, FS_CardinalityType
-----------------------------------------------------------------------------
(* The frequency rule *)

\* The three ways in which a step moves unnoticed rows and pending handlers.
LEMMA CountsMove ==
    ASSUME NEW U, IsFiniteSet(U), NEW P, IsFiniteSet(P), NEW V, NEW Q,
           \/ V \subseteq U /\ Q \subseteq P
           \/ \E x, r : V \subseteq U \cup {x} /\ r \in P /\ Q \subseteq P \ {r}
           \/ \E x, y : V = (U \ {x}) \cup {y} /\ x \in U /\ Q \subseteq P
    PROVE  /\ Cardinality(V) \in Nat /\ Cardinality(Q) \in Nat
           /\ Cardinality(V) + Cardinality(Q) <= Cardinality(U) + Cardinality(P)
  <1>1. Cardinality(U) \in Nat /\ Cardinality(P) \in Nat
    BY FS_CardinalityType
  <1>2. ASSUME Q \subseteq P PROVE Cardinality(Q) \in Nat /\ Cardinality(Q) <= Cardinality(P)
    BY <1>2, FS_Subset, FS_CardinalityType
  <1>3. CASE V \subseteq U /\ Q \subseteq P
    <2>1. Cardinality(V) \in Nat /\ Cardinality(V) <= Cardinality(U)
      BY <1>3, FS_Subset, FS_CardinalityType
    <2> QED BY <1>1, <1>2, <1>3, <2>1
  <1>4. ASSUME NEW x, NEW r \in P, V \subseteq U \cup {x}, Q \subseteq P \ {r}
        PROVE  /\ Cardinality(V) \in Nat /\ Cardinality(Q) \in Nat
               /\ Cardinality(V) + Cardinality(Q) <= Cardinality(U) + Cardinality(P)
    <2>1. Cardinality(V) \in Nat /\ Cardinality(V) <= Cardinality(U) + 1
      BY <1>4, GrowsByOne
    <2>2. IsFiniteSet(P \ {r}) /\ Cardinality(P \ {r}) = Cardinality(P) - 1
      BY FS_RemoveElement
    <2>3. Cardinality(Q) \in Nat /\ Cardinality(Q) <= Cardinality(P \ {r})
      BY <1>4, <2>2, FS_Subset, FS_CardinalityType
    <2> QED BY <1>1, <2>1, <2>2, <2>3
  <1>5. ASSUME NEW x \in U, NEW y, V = (U \ {x}) \cup {y}, Q \subseteq P
        PROVE  /\ Cardinality(V) \in Nat /\ Cardinality(Q) \in Nat
               /\ Cardinality(V) + Cardinality(Q) <= Cardinality(U) + Cardinality(P)
    <2>1. IsFiniteSet(U \ {x}) /\ Cardinality(U \ {x}) = Cardinality(U) - 1
      BY FS_RemoveElement
    <2> DEFINE W == U \ {x}
    <2>3. IsFiniteSet(W) /\ V \subseteq W \cup {y}
      BY <1>5, <2>1
    <2> HIDE DEF W
    <2>4. Cardinality(V) \in Nat /\ Cardinality(V) <= Cardinality(W) + 1
      BY <2>3, GrowsByOne
    <2>2. Cardinality(V) \in Nat /\ Cardinality(V) <= Cardinality(U \ {x}) + 1
      BY <2>4 DEF W
    <2> QED BY <1>1, <1>2, <1>5, <2>1, <2>2
  <1> QED BY <1>3, <1>4, <1>5

\* What a step does to the rows that a rule did not notice and to the pending
\* handlers: one of these saves its row, or a row gets its payment.
RuleEffect(U, V, P, Q) ==
    \/ V = U /\ \A q \in P : cmd'[q] = cmd[q]
    \/ /\ cmd' = cmd
       /\ \E r \in P : /\ V = U \cup {Saved(r)} /\ Saved(r) \notin U
                      /\ cmd[r] \in Command /\ r \notin Q
    \/ /\ cmd' = cmd
       /\ \E x \in U, y \in Analysis :
             /\ V = (U \ {x}) \cup {y} /\ y \notin U \ {x}
             /\ y.amount = x.amount /\ y.factors = x.factors

\* Every step has such an effect, on either rule.
LEMMA RuleStep ==
    ASSUME FraudInv, OneRowInv, [Next]_vars,
           NEW s, NEW t \in Instants, NEW w \in Nat, NEW f \in {"HIGH_FREQUENCY", "UNUSUAL_AMOUNT"}
    PROVE  RuleEffect(Unnoticed(s, t, w, f), Unnoticed(s, t, w, f)',
                      Pending(s, t, w, f), Pending(s, t, w, f)')
  <1> SUFFICES ASSUME NEW U, U = Unnoticed(s, t, w, f), NEW V, V = Unnoticed(s, t, w, f)',
                      NEW P, P = Pending(s, t, w, f), NEW Q, Q = Pending(s, t, w, f)'
               PROVE  RuleEffect(U, V, P, Q)
    OBVIOUS
  <1> USE DEF RuleEffect
  <1>u. U = Unnoticed(s, t, w, f) /\ V = Unnoticed(s, t, w, f)'
    OBVIOUS
  <1>p. P = Pending(s, t, w, f) /\ Q = Pending(s, t, w, f)'
    OBVIOUS
  <1>1. CASE analyses' = analyses /\ cmd' = cmd
    BY <1>1, <1>u DEF Unnoticed
  <1>2. ASSUME NEW r \in Requests, Receive(r)
        PROVE  V = U /\ \A q \in P : cmd'[q] = cmd[q]
    <2>1. pc[r] = "idle" /\ analyses' = analyses /\ \A q \in Requests \ {r} : cmd'[q] = cmd[q]
      BY <1>2, StepOfOthers, ReceiveGives DEF Step
    <2>2. V = U /\ r \notin P /\ P \subseteq Requests
      BY <2>1, <1>u, <1>p DEF Unnoticed, Pending, Ran
    <2> QED BY <2>1, <2>2
  <1>3. ASSUME NEW r \in Requests, Save(r) \/ SaveUnacknowledged(r)
        PROVE  /\ cmd' = cmd /\ cmd[r] \in Command /\ Saved(r) \notin U
               /\ \/ V = U
                  \/ V = U \cup {Saved(r)} /\ r \in P /\ r \notin Q
    <2>1. cmd' = cmd /\ pc[r] = "save"
      BY <1>3, SaveGives
    <2>2. cmd[r] \in Command
      BY <2>1, FraudAssumption DEF FraudInv, ControlInv
    <2>3. r \notin Q
      BY <1>3, <1>p, <2>1, PendingStep DEF Step
    <2>4. Saved(r) \notin U
      BY <1>3, <1>u, SavedIsNew DEF Saved, Unnoticed
    <2> QED BY <1>3, <2>1, <2>2, <2>3, <2>4, <1>u, <1>p, SavedWasPending
  <1>4. ASSUME NEW r \in Requests, Pay(r)
        PROVE  /\ cmd' = cmd
               /\ \/ V = U
                  \/ \E x \in U, y \in Analysis :
                       /\ V = (U \ {x}) \cup {y} /\ y \notin U \ {x}
                       /\ y.amount = x.amount /\ y.factors = x.factors
    <2>1. cmd' = cmd
      BY <1>4, PayGives
    <2>2. CASE analyses' = analyses
      BY <2>1, <2>2, <1>u DEF Unnoticed
    <2>3. ASSUME NEW x \in analyses, NEW y \in Analysis,
                 analyses' = (analyses \ {x}) \cup {y}, y \notin analyses \ {x},
                 y.sender = x.sender, y.amount = x.amount, y.factors = x.factors, y.at = x.at
          PROVE  \/ V = U
                 \/ /\ x \in U /\ V = (U \ {x}) \cup {y} /\ y \notin U \ {x}
                    /\ y.amount = x.amount /\ y.factors = x.factors
      <3>1. CASE x \in U
        BY <2>3, <3>1, <1>u DEF Unnoticed
      <3>2. CASE x \notin U
        BY <2>3, <3>2, <1>u DEF Unnoticed
      <3> QED BY <3>1, <3>2
    <2>4. \/ analyses' = analyses
          \/ \E x \in analyses, y \in Analysis :
                 /\ analyses' = (analyses \ {x}) \cup {y} /\ y \notin analyses \ {x}
                 /\ y.sender = x.sender /\ y.amount = x.amount
                 /\ y.factors = x.factors /\ y.at = x.at
      BY <1>4, PayReplaces
    <2> QED BY <2>1, <2>2, <2>3, <2>4
  <1>5. ASSUME NEW r \in Requests, Step(r),
               ~Receive(r), ~Save(r), ~SaveUnacknowledged(r), ~Pay(r)
        PROVE  analyses' = analyses /\ cmd' = cmd
    BY <1>5 DEF Step, CountRecent, SumRecent, FindReceivers, SaveEvents, PayFails, CallFails, Crash
  <1>6. CASE Pass \/ UNCHANGED vars
    BY <1>1, <1>6 DEF Pass, vars
  <1>7. CASE \E r \in Requests : Step(r)
    <2>1. PICK r \in Requests : Step(r)
      BY <1>7
    <2>2. CASE Receive(r)
      BY <1>2, <2>2
    <2>3. CASE Save(r) \/ SaveUnacknowledged(r)
      BY <1>3, <2>3
    <2>4. CASE Pay(r)
      BY <1>4, <2>4
    <2> QED BY <1>1, <1>5, <2>1, <2>2, <2>3, <2>4
  <1> QED BY <1>6, <1>7 DEF Next

\* Whoever becomes pending has counted, and found less than the threshold.
LEMMA NewlyPending ==
    ASSUME FraudInv, [Next]_vars, NEW s \in Accounts, NEW t \in Instants, NEW w \in Nat,
           NEW f \in {"HIGH_FREQUENCY", "UNUSUAL_AMOUNT"},
           ~(Pending(s, t, w, f)' \subseteq Pending(s, t, w, f))
    PROVE  \E r \in Requests :
              /\ s = cmd[r].sender /\ cmd[r] \in Command /\ now <= t + w
              /\ \/ f = "HIGH_FREQUENCY" /\ ~IsFrequent(s, now)
                 \/ f = "UNUSUAL_AMOUNT" /\ ~IsTooMuch(s, now, cmd[r].amount)
              /\ Pending(s, t, w, f)' \subseteq Pending(s, t, w, f) \cup {r}
              /\ r \in Pending(s, t, w, f)'
              /\ UNCHANGED <<analyses, cmd>>
  <1>1. PICK r \in Requests : Step(r)
    BY PendingOfPass DEF Next
  <1>2. /\ s = cmd[r].sender /\ now <= t + w /\ pc[r] \in {"count", "sum"}
        /\ \/ f = "HIGH_FREQUENCY" /\ ~IsFrequent(s, now)
           \/ f = "UNUSUAL_AMOUNT" /\ ~IsTooMuch(s, now, cmd[r].amount)
        /\ Pending(s, t, w, f)' \subseteq Pending(s, t, w, f) \cup {r}
        /\ r \in Pending(s, t, w, f)'
    <2>1. PICK q \in Pending(s, t, w, f)' : q \notin Pending(s, t, w, f)
      OBVIOUS
    <2>2. \A p \in Pending(s, t, w, f)' :
             \/ p \in Pending(s, t, w, f)
             \/ /\ p = r /\ s = cmd[r].sender /\ now <= t + w
                /\ \/ f = "HIGH_FREQUENCY" /\ pc[r] = "count" /\ ~IsFrequent(s, now)
                   \/ f = "UNUSUAL_AMOUNT" /\ pc[r] = "sum" /\ ~IsTooMuch(s, now, cmd[r].amount)
      BY <1>1, PendingStep
    <2> QED BY <2>1, <2>2
  <1>3. UNCHANGED <<analyses, cmd>>
    BY <1>1, <1>2 DEF Step, Receive, CountRecent, SumRecent, FindReceivers, Save, SaveUnacknowledged,
                      Insert, SaveEvents, Pay, PayFails, CallFails, Crash
  <1>4. cmd[r] \in Command
    BY <1>2, FraudAssumption DEF FraudInv, ControlInv
  <1> QED BY <1>2, <1>3, <1>4

\* A window that ends later than now holds no more than what is recent.
LEMMA UnnoticedIsRecent ==
    ASSUME FraudInv, NEW s, NEW t \in Instants, NEW w \in Nat, NEW f, now <= t + w
    PROVE  Unnoticed(s, t, w, f) \subseteq Recent(s, now, w)
  <1>1. now \in Nat /\ t \in Nat /\ \A x \in analyses : x.at \in Nat
    BY FraudAssumption DEF FraudInv, TypeOK, Analysis
  <1> QED BY <1>1 DEF Unnoticed, Recent

\* The bound on counts is kept.
LEMMA FrequencyStep ==
    ASSUME FraudInv, OneRowInv, FrequencyInv, RunningInv', [Next]_vars PROVE FrequencyInv'
  <1> SUFFICES ASSUME NEW s \in Accounts, NEW t \in Instants
               PROVE  Cardinality(Unnoticed(s, t, 10, "HIGH_FREQUENCY")')
                      + Cardinality(Pending(s, t, 10, "HIGH_FREQUENCY")')
                          < FrequencyThreshold + MaxInFlight
    BY DEF FrequencyInv, FrequencyWindow
  <1>0. PICK f \in {"HIGH_FREQUENCY", "UNUSUAL_AMOUNT"}, w \in Nat : f = "HIGH_FREQUENCY" /\ w = 10
    OBVIOUS
  <1> DEFINE U == Unnoticed(s, t, w, f)
             P == Pending(s, t, w, f)
  <1>1. /\ IsFiniteSet(U) /\ IsFiniteSet(P) /\ Cardinality(U) \in Nat /\ Cardinality(P) \in Nat
        /\ FrequencyThreshold \in Nat /\ MaxInFlight \in Nat
    BY Counts, FraudAssumption
  <1>2. Cardinality(U) + Cardinality(P) < FrequencyThreshold + MaxInFlight
    BY <1>0 DEF FrequencyInv, FrequencyWindow
  <1>3. CASE P' \subseteq P
    <2>5. RuleEffect(U, U', P, P')
      BY RuleStep
    <2> HIDE DEF U, P
    <2>1. \/ U' = U
          \/ \E r \in P : U' = U \cup {Saved(r)} /\ r \notin P'
          \/ \E x \in U, y \in Analysis : U' = (U \ {x}) \cup {y}
      BY <2>5 DEF RuleEffect
    <2>4. \/ U' \subseteq U /\ P' \subseteq P
          \/ \E x, r : U' \subseteq U \cup {x} /\ r \in P /\ P' \subseteq P \ {r}
          \/ \E x, y : U' = (U \ {x}) \cup {y} /\ x \in U /\ P' \subseteq P
      <3>1. CASE \E r \in P : U' = U \cup {Saved(r)} /\ r \notin P'
        BY <1>3, <3>1
      <3>2. CASE \E x \in U, y \in Analysis : U' = (U \ {x}) \cup {y}
        BY <1>3, <3>2
      <3> QED BY <1>3, <2>1, <3>1, <3>2
    <2>2. /\ Cardinality(U') \in Nat /\ Cardinality(P') \in Nat
          /\ Cardinality(U') + Cardinality(P') <= Cardinality(U) + Cardinality(P)
      BY <1>1, <2>4, CountsMove
    <2>3. Cardinality(U') + Cardinality(P') < FrequencyThreshold + MaxInFlight
      BY <1>1, <1>2, <2>2
    <2> QED BY <1>0, <2>3 DEF U, P
  <1>4. CASE ~(P' \subseteq P)
    <2>1. ~IsFrequent(s, now) /\ now <= t + 10 /\ analyses' = analyses
      BY <1>0, <1>4, NewlyPending
    <2>2. Cardinality(Recent(s, now, 10)) < FrequencyThreshold
      <3>1. IsFiniteSet(Recent(s, now, 10)) /\ Cardinality(Recent(s, now, 10)) \in Nat
        BY RecentFinite DEF FraudInv, RowInv
      <3> QED BY <1>1, <2>1, <3>1 DEF IsFrequent, FrequencyWindow
    <2>3. Cardinality(U) <= Cardinality(Recent(s, now, 10)) /\ Cardinality(Recent(s, now, 10)) \in Nat
      <3>1. U \subseteq Recent(s, now, 10)
        BY <1>0, <2>1, UnnoticedIsRecent
      <3>2. IsFiniteSet(Recent(s, now, 10)) /\ Cardinality(Recent(s, now, 10)) \in Nat
        BY RecentFinite DEF FraudInv, RowInv
      <3> HIDE DEF U
      <3> QED BY <3>1, <3>2, FS_Subset
    <2>4. U' = U
      BY <2>1 DEF Unnoticed
    <2>5. Cardinality(P') \in Nat /\ Cardinality(P') <= MaxInFlight
      <3>1. P' \subseteq Running' /\ Running' \subseteq Requests
        BY DEF Pending, Running, InFlight, Reading, Ran
      <3>2. IsFiniteSet(Running')
        BY <3>1, FraudAssumption, FS_Subset
      <3> HIDE DEF P
      <3>3. Cardinality(P') \in Nat /\ Cardinality(P') <= Cardinality(Running') /\ Cardinality(Running') \in Nat
        BY <3>1, <3>2, FS_Subset, FS_CardinalityType
      <3> QED BY <1>1, <3>3 DEF RunningInv
    <2> HIDE DEF U, P
    <2>6. Cardinality(U') + Cardinality(P') < FrequencyThreshold + MaxInFlight
      BY <1>1, <2>2, <2>3, <2>4, <2>5
    <2> QED BY <1>0, <2>6 DEF U, P
  <1> QED BY <1>3, <1>4
-----------------------------------------------------------------------------
(* The volume rule *)

\* What is needed of multiplication.
LEMMA Multiples ==
    ASSUME NEW l \in Nat, NEW a \in Nat, NEW b \in Nat
    PROVE  /\ a * l \in Nat /\ (a + 1) * l = a * l + l
           /\ a <= b => a * l <= b * l
  <1>1. a * l \in Nat /\ b * l \in Nat /\ (a + 1) * l = a * l + l
    OBVIOUS
  <1>2. ASSUME a <= b PROVE a * l <= b * l
    <2>1. PICK d \in Nat : b = a + d
      <3>1. b - a \in Nat /\ b = a + (b - a)
        BY <1>2
      <3> QED BY <3>1
    <2>2. b * l = a * l + d * l /\ d * l \in Nat
      BY <2>1
    <2> QED BY <1>1, <2>2
  <1> QED BY <1>1, <1>2

\* Room is left when pending handlers end otherwise than by writing their row.
LEMMA RoomKept ==
    ASSUME NEW P, IsFiniteSet(P), NEW c, \A r \in P : c[r].amount \in Nat /\ c[r].amount <= VolumeLimit,
           NEW m \in Nat, Room(m, P, c), NEW n \in Nat, n <= m, NEW Q \in SUBSET P,
           NEW d, \A q \in P : d[q] = c[q]
    PROVE  Room(n, Q, d)
  <1> DEFINE L == VolumeLimit
             k == Cardinality(P)
             j == Cardinality(Q)
             All == MaxInFlight * L
  <1>1. /\ L \in Nat /\ MaxInFlight \in Nat /\ All \in Nat
        /\ k \in Nat /\ j \in Nat /\ j <= k /\ (P # {} => k # 0) /\ (Q # {} => j # 0)
    <2>1. L \in Nat /\ MaxInFlight \in Nat
      BY FraudAssumption
    <2>2. IsFiniteSet(Q) /\ j <= k
      BY FS_Subset
    <2> QED BY <2>1, <2>2, Multiples, FS_CardinalityType, FS_EmptySet
  <1>2. CASE P = {}
    BY <1>2, <1>1 DEF Room
  <1>3. CASE P # {}
    <2>1. PICK p \in P : m + c[p].amount + (k - 1) * L <= All
      BY <1>3 DEF Room
    <2>2. k - 1 \in Nat /\ (k - 1) * L \in Nat /\ c[p].amount \in Nat
      BY <1>1, <1>3, <2>1, Multiples
    <2>3. CASE Q = {}
      <3>1. n <= All
        BY <1>1, <2>1, <2>2
      <3> QED BY <2>3, <3>1 DEF Room
    <2>4. CASE p \in Q
      <3>1. j - 1 \in Nat /\ j - 1 <= k - 1
        BY <1>1, <2>4
      <3>2. (j - 1) * L \in Nat /\ (j - 1) * L <= (k - 1) * L
        BY <1>1, <2>2, <3>1, Multiples
      <3> HIDE DEF L, All, j, k
      <3>3. n + c[p].amount + (j - 1) * L <= All
        BY <1>1, <2>1, <2>2, <3>2
      <3>4. n + d[p].amount + (j - 1) * L <= All
        BY <3>3
      <3> QED BY <2>4, <3>4 DEF Room, L, All, j
    <2>5. CASE Q # {} /\ p \notin Q
      <3>1. PICK q \in Q : TRUE
        BY <2>5
      <3>2. IsFiniteSet(P \ {p}) /\ Cardinality(P \ {p}) = k - 1
        BY FS_RemoveElement
      <3>3. j <= k - 1
        <4>1. Q \subseteq P \ {p}
          BY <2>5
        <4> QED BY <3>2, <4>1, FS_Subset
      <3>4. j - 1 \in Nat /\ (j - 1) * L \in Nat /\ (j - 1) * L + L <= (k - 1) * L
        <4>1. j - 1 \in Nat /\ j \in Nat /\ (j - 1) + 1 = j
          BY <1>1, <2>5
        <4>2. (j - 1) * L \in Nat /\ ((j - 1) + 1) * L = (j - 1) * L + L
          BY <1>1, <4>1, Multiples
        <4>3. j * L <= (k - 1) * L
          BY <1>1, <2>2, <3>3, Multiples
        <4> QED BY <4>1, <4>2, <4>3
      <3>5. c[q].amount \in Nat /\ c[q].amount <= L /\ d[q] = c[q]
        BY <3>1
      <3> HIDE DEF L, All, j, k
      <3>6. n + c[q].amount + (j - 1) * L <= All
        BY <1>1, <2>1, <2>2, <3>4, <3>5
      <3>7. n + d[q].amount + (j - 1) * L <= All
        BY <3>5, <3>6
      <3> QED BY <2>5, <3>7 DEF Room, L, All, j
    <2> QED BY <2>3, <2>4, <2>5
  <1> QED BY <1>2, <1>3

\* Nor is it exceeded when one of them writes its row.
LEMMA RoomTaken ==
    ASSUME NEW P, IsFiniteSet(P), NEW c, \A r \in P : c[r].amount \in Nat /\ c[r].amount <= VolumeLimit,
           NEW m \in Nat, Room(m, P, c), NEW r \in P
    PROVE  Room(m + c[r].amount, P \ {r}, c)
  <1> DEFINE L == VolumeLimit
             k == Cardinality(P)
             All == MaxInFlight * L
             Q == P \ {r}
             a == c[r].amount
  <1>1. /\ L \in Nat /\ MaxInFlight \in Nat /\ All \in Nat /\ a \in Nat /\ a <= L
        /\ k \in Nat /\ IsFiniteSet(Q) /\ Cardinality(Q) = k - 1 /\ k - 1 \in Nat
        /\ (Q # {} => k - 1 # 0)
    <2>1. L \in Nat /\ MaxInFlight \in Nat
      BY FraudAssumption
    <2>2. IsFiniteSet(Q) /\ Cardinality(Q) = k - 1
      BY FS_RemoveElement
    <2>3. Cardinality(Q) \in Nat /\ k \in Nat
      BY <2>2, FS_CardinalityType
    <2>4. Q # {} => Cardinality(Q) # 0
      BY <2>2, FS_EmptySet
    <2> QED BY <2>1, <2>2, <2>3, <2>4, Multiples
  <1>2. PICK p \in P : m + c[p].amount + (k - 1) * L <= All
    BY DEF Room
  <1>3. (k - 1) * L \in Nat /\ c[p].amount \in Nat
    BY <1>1, <1>2, Multiples
  <1>4. CASE Q = {}
    <2>1. p = r
      BY <1>4
    <2>2. m + a <= All
      BY <2>1, <1>1, <1>2, <1>3
    <2> QED BY <1>4, <2>2 DEF Room
  <1>5. CASE Q # {}
    <2>1. k - 2 \in Nat /\ (k - 2) + 1 = k - 1 /\ (k - 1) - 1 = k - 2
      BY <1>1, <1>5
    <2>2. (k - 2) * L \in Nat /\ (k - 1) * L = (k - 2) * L + L
      BY <1>1, <2>1, Multiples
    <2>3. PICK q \in Q : m + a + c[q].amount <= m + c[p].amount + L /\ c[q].amount \in Nat
      <3>1. CASE p = r
        <4>1. PICK q \in Q : TRUE
          BY <1>5
        <4>2. c[q].amount \in Nat /\ c[q].amount <= L
          BY <4>1
        <4> QED BY <3>1, <4>1, <4>2, <1>1
      <3>2. CASE p # r
        <4>1. p \in Q /\ c[p].amount \in Nat
          BY <3>2
        <4> QED BY <4>1, <1>1
      <3> QED BY <3>1, <3>2
    <2> HIDE DEF L, All, k, Q, a
    <2>4. m + a + c[q].amount + (k - 2) * L <= All
      BY <1>1, <1>2, <1>3, <2>2, <2>3
    <2>5. m + a + c[q].amount + (Cardinality(Q) - 1) * L <= All
      BY <1>1, <2>1, <2>4
    <2> QED BY <1>5, <2>3, <2>5 DEF Room, L, All, Q, a
  <1> QED BY <1>4, <1>5

\* Rows that differ in who was paid add up to the same.
LEMMA SumReplaced ==
    ASSUME NEW S, IsFiniteSet(S), NEW x \in S, NEW y, y \notin S \ {x}, y.amount = x.amount,
           \A z \in S : z.amount \in Nat
    PROVE  SumOf((S \ {x}) \cup {y}) = SumOf(S)
  <1> DEFINE T == S \ {x}
  <1>1. IsFiniteSet(T) /\ \A z \in T \cup {y} : z.amount \in Nat
    BY FS_RemoveElement
  <1>2. SumOf(S) = x.amount + SumOf(T)
    BY SumRemove
  <1> HIDE DEF T
  <1>3. y \notin T
    BY DEF T
  <1>4. SumOf(T) \in Nat /\ SumOf(T \cup {y}) = SumOf(T) + y.amount
    BY <1>1, <1>3, SumAdd
  <1>5. x.amount \in Nat
    OBVIOUS
  <1> QED BY <1>2, <1>4, <1>5 DEF T

Unblocked(U) == {x \in U : Decision(x.factors) # "BLOCKED"}

\* What the unnoticed rows add up to grows by no more than the amount of the
\* handler that ceases to be pending.
LEMMA VolumeEffect ==
    ASSUME NEW U, IsFiniteSet(U), \A x \in U : x.amount \in Nat, NEW V, NEW P, NEW Q, Q \subseteq P,
           RuleEffect(U, V, P, Q)
    PROVE  \/ SumOf(Unblocked(V)) = SumOf(Unblocked(U)) /\ \A q \in P : cmd'[q] = cmd[q]
           \/ \E r \in P : /\ SumOf(Unblocked(V)) = SumOf(Unblocked(U)) + cmd[r].amount
                          /\ Q \subseteq P \ {r} /\ cmd' = cmd
  <1>1. IsFiniteSet(Unblocked(U)) /\ \A x \in Unblocked(U) : x.amount \in Nat
    BY FS_Subset DEF Unblocked
  <1>2. ASSUME NEW r \in P, V = U \cup {Saved(r)}, Saved(r) \notin U, cmd[r] \in Command,
               r \notin Q, cmd' = cmd
        PROVE  \/ SumOf(Unblocked(V)) = SumOf(Unblocked(U)) /\ cmd' = cmd
               \/ /\ SumOf(Unblocked(V)) = SumOf(Unblocked(U)) + cmd[r].amount
                  /\ Q \subseteq P \ {r} /\ cmd' = cmd
    <2>1. Saved(r).amount = cmd[r].amount /\ cmd[r].amount \in Nat
      BY <1>2 DEF Saved, Command
    <2>2. CASE Decision(Saved(r).factors) = "BLOCKED"
      <3>1. Unblocked(V) = Unblocked(U)
        BY <1>2, <2>2 DEF Unblocked
      <3> QED BY <1>2, <3>1
    <2>3. CASE Decision(Saved(r).factors) # "BLOCKED"
      <3>1. Unblocked(V) = Unblocked(U) \cup {Saved(r)} /\ Saved(r) \notin Unblocked(U)
        BY <1>2, <2>3 DEF Unblocked
      <3>2. \A x \in Unblocked(U) \cup {Saved(r)} : x.amount \in Nat
        BY <1>1, <2>1
      <3>3. SumOf(Unblocked(U) \cup {Saved(r)}) = SumOf(Unblocked(U)) + Saved(r).amount
        BY <1>1, <3>1, <3>2, SumAdd
      <3>4. Q \subseteq P \ {r}
        BY <1>2
      <3> QED BY <1>2, <2>1, <3>1, <3>3, <3>4
    <2> QED BY <2>2, <2>3
  <1>3. ASSUME NEW x \in U, NEW y \in Analysis, V = (U \ {x}) \cup {y}, y \notin U \ {x},
               y.amount = x.amount, y.factors = x.factors
        PROVE  SumOf(Unblocked(V)) = SumOf(Unblocked(U))
    <2>1. CASE Decision(x.factors) = "BLOCKED"
      <3>1. Unblocked(V) = Unblocked(U)
        BY <1>3, <2>1 DEF Unblocked
      <3> QED BY <3>1
    <2>2. CASE Decision(x.factors) # "BLOCKED"
      <3>1. /\ Unblocked(V) = (Unblocked(U) \ {x}) \cup {y}
            /\ x \in Unblocked(U) /\ y \notin Unblocked(U) \ {x}
        BY <1>3, <2>2 DEF Unblocked
      <3>2. SumOf((Unblocked(U) \ {x}) \cup {y}) = SumOf(Unblocked(U))
        BY <1>1, <1>3, <3>1, SumReplaced
      <3> QED BY <3>1, <3>2
    <2> QED BY <2>1, <2>2
  <1>4. CASE V = U /\ \A q \in P : cmd'[q] = cmd[q]
    BY <1>4
  <1>5. CASE /\ cmd' = cmd
             /\ \E r \in P : /\ V = U \cup {Saved(r)} /\ Saved(r) \notin U
                            /\ cmd[r] \in Command /\ r \notin Q
    BY <1>2, <1>5
  <1>6. CASE /\ cmd' = cmd
             /\ \E x \in U, y \in Analysis :
                   /\ V = (U \ {x}) \cup {y} /\ y \notin U \ {x}
                   /\ y.amount = x.amount /\ y.factors = x.factors
    BY <1>3, <1>6
  <1> QED BY <1>4, <1>5, <1>6 DEF RuleEffect

\* Pending handlers have a command, with an amount.
LEMMA PendingCommands ==
    ASSUME FraudInv, NEW s, NEW t, NEW w, NEW f \in {"HIGH_FREQUENCY", "UNUSUAL_AMOUNT"}
    PROVE  \A q \in Pending(s, t, w, f) : cmd[q].amount \in Nat
  <1>1. \A q \in Pending(s, t, w, f) : q \in Requests /\ pc[q] # "idle"
    BY DEF Pending, Ran
  <1>2. \A q \in Requests : pc[q] # "idle" => cmd[q] \in Command
    BY FraudAssumption DEF FraudInv, ControlInv
  <1> QED BY <1>1, <1>2 DEF Command

\* A payment the rule lets pass fits under the limit together with what is
\* recent, and so with what went unnoticed.
LEMMA NewlySpending ==
    ASSUME FraudInv, NEW s, NEW t \in Instants, NEW a \in Nat, now <= t + VolumeWindow,
           ~IsTooMuch(s, now, a)
    PROVE  SumOf(Slipped(s, t)) \in Nat /\ SumOf(Slipped(s, t)) + a <= VolumeLimit
  <1> DEFINE T == {x \in Recent(s, now, VolumeWindow) : Decision(x.factors) # "BLOCKED"}
  <1>1. IsFiniteSet(T) /\ \A x \in T : x.amount \in Nat
    <2>1. T \subseteq analyses /\ IsFiniteSet(analyses)
      BY DEF Recent, FraudInv, RowInv
    <2>2. \A x \in analyses : x.amount \in Nat
      BY DEF FraudInv, TypeOK, Analysis
    <2> HIDE DEF T
    <2> QED BY <2>1, <2>2, FS_Subset
  <1>2. Slipped(s, t) \subseteq T
    <2>1. VolumeWindow \in Nat
      BY DEF VolumeWindow
    <2>2. Unnoticed(s, t, VolumeWindow, "UNUSUAL_AMOUNT") \subseteq Recent(s, now, VolumeWindow)
      BY <2>1, UnnoticedIsRecent
    <2> QED BY <2>2 DEF Slipped
  <1>3. SumOf(T) + a <= VolumeLimit
    <2>1. Volume(s, now) = SumOf(T)
      BY DEF Volume
    <2> HIDE DEF T
    <2>2. SumOf(T) \in Nat /\ VolumeLimit \in Nat
      BY <1>1, SumRemove, FraudAssumption
    <2> QED BY <2>1, <2>2 DEF IsTooMuch
  <1> HIDE DEF T
  <1>4. SumOf(Slipped(s, t)) \in Nat /\ SumOf(T) \in Nat /\ SumOf(Slipped(s, t)) <= SumOf(T)
    BY <1>1, <1>2, SumMonotone
  <1> QED BY <1>3, <1>4, FraudAssumption

\* The bound on sums is kept.
LEMMA VolumeStep ==
    ASSUME FraudInv, OneRowInv, VolumeInv, RunningInv', [Next]_vars PROVE VolumeInv'
  <1> SUFFICES ASSUME NEW s \in Accounts, NEW t \in Instants
               PROVE  /\ \A r \in Spending(s, t)' : cmd'[r].amount <= VolumeLimit
                      /\ Room(SumOf(Slipped(s, t)'), Spending(s, t)', cmd')
    BY DEF VolumeInv, Room
  <1>0. PICK f \in {"HIGH_FREQUENCY", "UNUSUAL_AMOUNT"}, w \in Nat : f = "UNUSUAL_AMOUNT" /\ w = VolumeWindow
    BY DEF VolumeWindow
  <1> DEFINE U == Unnoticed(s, t, w, f)
             P == Pending(s, t, w, f)
  <1>s. /\ Spending(s, t) = P /\ Spending(s, t)' = P'
        /\ Slipped(s, t) = Unblocked(U) /\ Slipped(s, t)' = Unblocked(U')
    BY <1>0 DEF Spending, Slipped, Unblocked
  <1>1. /\ IsFiniteSet(U) /\ IsFiniteSet(P) /\ \A x \in U : x.amount \in Nat
        /\ \A q \in P : cmd[q].amount \in Nat
        /\ VolumeLimit \in Nat /\ MaxInFlight \in Nat
    BY Counts, PendingCommands, FraudAssumption
  <1>2. /\ \A q \in P : cmd[q].amount <= VolumeLimit
        /\ Room(SumOf(Unblocked(U)), P, cmd)
    BY <1>s DEF VolumeInv
  <1>3. SumOf(Unblocked(U)) \in Nat
    <2>1. IsFiniteSet(Unblocked(U)) /\ \A x \in Unblocked(U) : x.amount \in Nat
      BY <1>1, FS_Subset DEF Unblocked
    <2> HIDE DEF U
    <2> QED BY <2>1, SumRemove
  <1>4. CASE P' \subseteq P
    <2>1. RuleEffect(U, U', P, P')
      BY RuleStep
    <2> HIDE DEF U, P
    <2>2. \/ SumOf(Unblocked(U')) = SumOf(Unblocked(U)) /\ \A q \in P : cmd'[q] = cmd[q]
          \/ \E r \in P : /\ SumOf(Unblocked(U')) = SumOf(Unblocked(U)) + cmd[r].amount
                         /\ P' \subseteq P \ {r} /\ cmd' = cmd
      BY <1>1, <1>4, <2>1, VolumeEffect
    <2>3. \A q \in P : cmd'[q] = cmd[q]
      BY <2>2
    <2>4. CASE SumOf(Unblocked(U')) = SumOf(Unblocked(U))
      <3>1. Room(SumOf(Unblocked(U')), P', cmd')
        BY <1>1, <1>2, <1>3, <1>4, <2>3, <2>4, RoomKept
      <3> QED BY <1>s, <1>2, <1>4, <2>3, <3>1
    <2>5. ASSUME NEW r \in P, SumOf(Unblocked(U')) = SumOf(Unblocked(U)) + cmd[r].amount,
                 P' \subseteq P \ {r}, cmd' = cmd
          PROVE  Room(SumOf(Unblocked(U')), P', cmd')
      <3> DEFINE R == P \ {r}
                 m == SumOf(Unblocked(U)) + cmd[r].amount
      <3>1. Room(m, R, cmd)
        BY <1>1, <1>2, <1>3, RoomTaken
      <3>2. m \in Nat /\ IsFiniteSet(R) /\ \A q \in R : cmd[q].amount \in Nat /\ cmd[q].amount <= VolumeLimit
        BY <1>1, <1>2, <1>3, FS_RemoveElement
      <3>3. SumOf(Unblocked(U')) = m /\ P' \in SUBSET R /\ \A q \in R : cmd'[q] = cmd[q]
        BY <2>5
      <3> HIDE DEF R, m
      <3> QED BY <3>1, <3>2, <3>3, RoomKept
    <2> QED BY <1>s, <1>2, <1>4, <2>2, <2>3, <2>4, <2>5
  <1>5. CASE ~(P' \subseteq P)
    <2>1. PICK r \in Requests :
             /\ s = cmd[r].sender /\ cmd[r] \in Command /\ now <= t + w
             /\ ~IsTooMuch(s, now, cmd[r].amount)
             /\ P' \subseteq P \cup {r} /\ r \in P' /\ analyses' = analyses /\ cmd' = cmd
      BY <1>0, <1>5, NewlyPending
    <2>2. cmd[r].amount \in Nat
      BY <2>1 DEF Command
    <2>3. U' = U
      BY <2>1 DEF Unnoticed
    <2>4. SumOf(Unblocked(U)) + cmd[r].amount <= VolumeLimit
      BY <1>0, <1>s, <2>1, <2>2, NewlySpending
    <2>5. Cardinality(P') \in Nat /\ Cardinality(P') <= MaxInFlight /\ Cardinality(P') # 0
      <3>1. P' \subseteq Running' /\ Running' \subseteq Requests
        BY DEF Pending, Running, InFlight, Reading, Ran
      <3>2. IsFiniteSet(Running')
        BY <3>1, FraudAssumption, FS_Subset
      <3> HIDE DEF P
      <3>3. IsFiniteSet(P') /\ Cardinality(P') <= Cardinality(Running')
        BY <3>1, <3>2, FS_Subset
      <3>4. Cardinality(P') \in Nat /\ Cardinality(Running') \in Nat /\ Cardinality(P') # 0
        BY <2>1, <3>2, <3>3, FS_CardinalityType, FS_EmptySet
      <3> QED BY <1>1, <3>3, <3>4 DEF RunningInv
    <2> HIDE DEF U, P
    <2>6. cmd[r].amount <= VolumeLimit
      BY <1>1, <1>3, <2>2, <2>4
    <2>7. SumOf(Unblocked(U)) + cmd[r].amount + (Cardinality(P') - 1) * VolumeLimit
             <= MaxInFlight * VolumeLimit
      <3> DEFINE j == Cardinality(P')
      <3>1. j - 1 \in Nat /\ (j - 1) + 1 = j
        BY <2>5
      <3>2. /\ (j - 1) * VolumeLimit \in Nat /\ j * VolumeLimit = (j - 1) * VolumeLimit + VolumeLimit
            /\ j * VolumeLimit <= MaxInFlight * VolumeLimit /\ MaxInFlight * VolumeLimit \in Nat
        BY <1>1, <2>5, <3>1, Multiples
      <3> HIDE DEF j
      <3>3. SumOf(Unblocked(U)) + cmd[r].amount + (j - 1) * VolumeLimit <= MaxInFlight * VolumeLimit
        BY <1>1, <1>3, <2>2, <2>4, <3>2
      <3> QED BY <3>3 DEF j
    <2>8. Room(SumOf(Unblocked(U')), P', cmd')
      BY <2>1, <2>3, <2>7 DEF Room
    <2> QED BY <1>s, <1>2, <2>1, <2>6, <2>8
  <1> QED BY <1>4, <1>5
-----------------------------------------------------------------------------
(* What a handler nobody overtook has found out about the volume *)

\* Of the same rows, a later window exceeds the limit only if an earlier one does.
LEMMA VolumeShrinks ==
    ASSUME FraudInv, NEW s, NEW t \in Nat, NEW u \in Nat, t <= u, NEW a \in Nat, IsTooMuch(s, u, a)
    PROVE  IsTooMuch(s, t, a)
  <1> DEFINE S == {x \in Recent(s, u, VolumeWindow) : Decision(x.factors) # "BLOCKED"}
             T == {x \in Recent(s, t, VolumeWindow) : Decision(x.factors) # "BLOCKED"}
  <1>1. S \subseteq T
    <2>1. VolumeWindow \in Nat /\ TypeOK /\ IsFiniteSet(analyses)
      BY DEF VolumeWindow, FraudInv, RowInv
    <2>2. Recent(s, u, VolumeWindow) \subseteq Recent(s, t, VolumeWindow)
      BY <2>1, WindowShrinks
    <2> QED BY <2>2
  <1>2. IsFiniteSet(T) /\ \A x \in T : x.amount \in Nat
    <2>1. T \subseteq analyses /\ IsFiniteSet(analyses)
      BY DEF Recent, FraudInv, RowInv
    <2>2. \A x \in analyses : x.amount \in Nat
      BY DEF FraudInv, TypeOK, Analysis
    <2> HIDE DEF T
    <2> QED BY <2>1, <2>2, FS_Subset
  <1>3. Volume(s, u) = SumOf(S) /\ Volume(s, t) = SumOf(T)
    BY DEF Volume
  <1> HIDE DEF S, T
  <1>4. SumOf(S) \in Nat /\ SumOf(T) \in Nat /\ SumOf(S) <= SumOf(T)
    BY <1>1, <1>2, SumMonotone
  <1> QED BY <1>3, <1>4, FraudAssumption DEF IsTooMuch

\* What was judged right stays so until a row of the sender is written.
LEMMA VolumeJudgementKept ==
    ASSUME FraudInv, NEW r \in Requests, cmd[r] \in Command,
           NEW u \in Nat, now' = u, now <= u, draft[r].begun \in Nat,
           cmd'[r] = cmd[r], draft'[r] = draft[r],
           \A x : x.sender = cmd[r].sender => (x \in analyses <=> x \in analyses'),
           VolumeJudged(r)
    PROVE  VolumeJudged(r)'
  <1> DEFINE s == cmd[r].sender
             a == cmd[r].amount
             b == draft[r].begun
  <1>1. now \in Nat /\ a \in Nat
    BY FraudAssumption DEF FraudInv, TypeOK, Command
  <1>2. IsTooMuch(s, u, a) => IsTooMuch(s, now, a)
    BY <1>1, VolumeShrinks
  <1>3. ASSUME NEW t \in Nat
        PROVE  {x \in {x \in analyses' : x.sender = s /\ x.at >= t - VolumeWindow} :
                       Decision(x.factors) # "BLOCKED"}
                   = {x \in {x \in analyses : x.sender = s /\ x.at >= t - VolumeWindow} :
                       Decision(x.factors) # "BLOCKED"}
    OBVIOUS
  <1>4. IsTooMuch(cmd[r].sender, now, cmd[r].amount)' <=> IsTooMuch(s, u, a)
    BY <1>3 DEF IsTooMuch, Volume, Recent
  <1>5. IsTooMuch(cmd[r].sender, draft[r].begun, cmd[r].amount)' <=> IsTooMuch(s, b, a)
    BY <1>3 DEF IsTooMuch, Volume, Recent
  <1> QED BY <1>2, <1>4, <1>5 DEF VolumeJudged, Judged

\* So every step keeps it, but for the requests it overtakes.
LEMMA VolumeHistoryStep ==
    ASSUME FraudInv, VolumeHistoryInv, [Next]_vars PROVE VolumeHistoryInv'
  <1>t. TypeOK /\ now \in Nat
    BY FraudAssumption DEF FraudInv, TypeOK
  <1>j. ASSUME NEW q \in Requests, pc[q] \in Reading
        PROVE  /\ cmd[q] \in Command /\ draft[q].begun \in Nat /\ draft[q].begun <= now
               /\ draft[q] \in Draft
    BY <1>j, FraudAssumption DEF FraudInv, ControlInv, Draft, Reading
  <1>o. ASSUME NEW q \in Requests, pc'[q] = pc[q], cmd'[q] = cmd[q], draft'[q] = draft[q],
               now' \in Nat, now <= now',
               (q \notin overtaken' /\ pc[q] \in Reading) =>
                  /\ q \notin overtaken
                  /\ \A x : x.sender = cmd[q].sender => (x \in analyses <=> x \in analyses')
        PROVE  /\ pc'[q] \in {"count", "sum"} => "UNUSUAL_AMOUNT" \notin draft'[q].factors
               /\ (pc'[q] \in {"receivers", "save"} /\ q \notin overtaken') => VolumeJudged(q)'
    <2>1. pc'[q] \in {"count", "sum"} => "UNUSUAL_AMOUNT" \notin draft'[q].factors
      BY <1>o DEF VolumeHistoryInv
    <2>2. ASSUME pc'[q] \in {"receivers", "save"}, q \notin overtaken' PROVE VolumeJudged(q)'
      <3>1. pc[q] \in Reading
        BY <1>o, <2>2 DEF Reading
      <3>2. VolumeJudged(q)
        BY <1>o, <2>2, <3>1 DEF VolumeHistoryInv
      <3> QED BY <1>o, <1>j, <2>2, <3>1, <3>2, VolumeJudgementKept
    <2> QED BY <2>1, <2>2
  <1>1. CASE Pass \/ UNCHANGED vars
    <2>1. /\ now' \in Nat /\ now <= now'
          /\ UNCHANGED <<analyses, cmd, pc, draft, overtaken>>
      BY <1>1, <1>t, FraudAssumption DEF Pass, vars
    <2>2. ASSUME NEW q \in Requests
          PROVE  /\ pc'[q] \in {"count", "sum"} => "UNUSUAL_AMOUNT" \notin draft'[q].factors
                 /\ (pc'[q] \in {"receivers", "save"} /\ q \notin overtaken') => VolumeJudged(q)'
      BY <1>o, <2>1
    <2> QED BY <2>2 DEF VolumeHistoryInv
  <1>2. ASSUME NEW r \in Requests, Step(r) PROVE VolumeHistoryInv'
    <2>1. ASSUME NEW q \in Requests \ {r}
          PROVE  /\ pc'[q] \in {"count", "sum"} => "UNUSUAL_AMOUNT" \notin draft'[q].factors
                 /\ (pc'[q] \in {"receivers", "save"} /\ q \notin overtaken') => VolumeJudged(q)'
      <3>1. /\ pc'[q] = pc[q] /\ cmd'[q] = cmd[q] /\ draft'[q] = draft[q] /\ now' = now
            /\ (q \notin overtaken' /\ pc[q] \in Reading) =>
                  /\ q \notin overtaken
                  /\ \A x : x.sender = cmd[q].sender => (x \in analyses <=> x \in analyses')
        BY <1>2, StepOfOthers
      <3> QED BY <1>t, <1>o, <3>1
    <2>2. /\ pc'[r] \in {"count", "sum"} => "UNUSUAL_AMOUNT" \notin draft'[r].factors
          /\ (pc'[r] \in {"receivers", "save"} /\ r \notin overtaken') => VolumeJudged(r)'
      <3>1. CASE Receive(r)
        <4>1. \A c \in Commands : "UNUSUAL_AMOUNT" \notin CommandFactors(c)
          BY DEF CommandFactors
        <4> QED BY <3>1, <4>1, <1>t, ReceiveGives DEF TypeOK
      <3>2. CASE CountRecent(r) \/ SumRecent(r) \/ FindReceivers(r)
        <4> DEFINE s == cmd[r].sender
                   a == cmd[r].amount
        <4>1. /\ UNCHANGED <<analyses, now, cmd, overtaken>> /\ draft'[r].begun = draft[r].begun
          BY <3>2, ReadGives
        <4>2. pc[r] \in Reading
          BY <3>2 DEF CountRecent, SumRecent, FindReceivers, Reading
        <4>3. /\ cmd[r] \in Command /\ draft[r].begun \in Nat /\ draft[r].begun <= now /\ a \in Nat
          BY <4>2, <1>j DEF Command
        <4>4. IsTooMuch(s, now, a) => IsTooMuch(s, draft[r].begun, a)
          BY <1>t, <4>3, VolumeShrinks
        <4>5. /\ IsTooMuch(cmd[r].sender, now, cmd[r].amount)' <=> IsTooMuch(s, now, a)
              /\ IsTooMuch(cmd[r].sender, draft[r].begun, cmd[r].amount)'
                    <=> IsTooMuch(s, draft[r].begun, a)
          BY <4>1 DEF IsTooMuch, Volume, Recent
        <4>6. CASE /\ pc[r] = "count" /\ pc' = [pc EXCEPT ![r] = "sum"]
                   /\ draft'[r].factors = draft[r].factors \cup
                         {x \in {"HIGH_FREQUENCY"} : IsFrequent(cmd[r].sender, now)}
          BY <1>t, <4>6 DEF VolumeHistoryInv, TypeOK
        <4>7. CASE /\ pc[r] = "sum" /\ pc' = [pc EXCEPT ![r] = "receivers"]
                   /\ draft'[r].factors = draft[r].factors \cup
                         {x \in {"UNUSUAL_AMOUNT"} : IsTooMuch(cmd[r].sender, now, cmd[r].amount)}
          <5>1. "UNUSUAL_AMOUNT" \notin draft[r].factors
            BY <4>7 DEF VolumeHistoryInv
          <5>2. "UNUSUAL_AMOUNT" \in draft'[r].factors <=> IsTooMuch(s, now, a)
            BY <4>7, <5>1
          <5>3. VolumeJudged(r)'
            BY <4>4, <4>5, <5>2 DEF VolumeJudged, Judged
          <5> QED BY <1>t, <4>7, <5>3 DEF TypeOK
        <4>8. CASE /\ pc[r] = "receivers" /\ pc' = [pc EXCEPT ![r] = "save"]
                   /\ draft'[r].factors = draft[r].factors \cup
                         {x \in {"REPEATED_RECEIVER"} : IsRepeated(cmd[r].sender, now, cmd[r].receiver)}
          <5>1. "UNUSUAL_AMOUNT" \in draft'[r].factors <=> "UNUSUAL_AMOUNT" \in draft[r].factors
            BY <4>8
          <5>2. r \notin overtaken => VolumeJudged(r)
            BY <4>8 DEF VolumeHistoryInv
          <5>3. r \notin overtaken' => VolumeJudged(r)'
            BY <4>1, <4>5, <5>1, <5>2 DEF VolumeJudged, Judged
          <5> QED BY <1>t, <4>8, <5>3 DEF TypeOK
        <4> QED BY <3>2, <4>6, <4>7, <4>8, ReadGives
      <3>3. CASE ~Receive(r) /\ ~(CountRecent(r) \/ SumRecent(r) \/ FindReceivers(r))
        BY <1>2, <3>3, <1>t DEF Step, Save, SaveUnacknowledged, Insert, SaveEvents, Pay,
                                PayFails, CallFails, Crash, Reply, Goto, TypeOK
      <3> QED BY <3>1, <3>2, <3>3
    <2> QED BY <2>1, <2>2 DEF VolumeHistoryInv
  <1> QED BY <1>1, <1>2 DEF Next
-----------------------------------------------------------------------------
\* Nobody runs and no row is there at first.
LEMMA InitBounds == Init => BoundsInv
  <1> SUFFICES ASSUME Init PROVE BoundsInv
    OBVIOUS
  <1>1. \A s, t, w, f : Unnoticed(s, t, w, f) = {}
    BY DEF Init, Unnoticed
  <1>2. \A s, t, w : \A f \in {"HIGH_FREQUENCY", "UNUSUAL_AMOUNT"} : Pending(s, t, w, f) = {}
    BY DEF Init, Pending, Ran
  <1>3. Running = {}
    BY DEF Init, Running, InFlight, Reading
  <1>4. MaxInFlight \in Nat /\ VolumeLimit \in Nat /\ FrequencyThreshold \in Nat \ {0}
    BY FraudAssumption
  <1>5. RunningInv
    BY <1>3, <1>4, FS_EmptySet DEF RunningInv
  <1>6. FrequencyInv
    BY <1>1, <1>2, <1>4, FS_EmptySet DEF FrequencyInv
  <1>7. VolumeInv
    <2>1. \A s, t : Spending(s, t) = {} /\ Slipped(s, t) = {}
      BY <1>1, <1>2 DEF Spending, Slipped
    <2>2. SumOf({}) = 0
      BY FS_EmptySet, SumOfParts
    <2>3. 0 <= MaxInFlight * VolumeLimit
      BY <1>4, Multiples
    <2> QED BY <2>1, <2>2, <2>3 DEF VolumeInv, Room
  <1>8. OneRowInv /\ VolumeHistoryInv
    BY DEF Init, OneRowInv, VolumeHistoryInv
  <1> QED BY <1>5, <1>6, <1>7, <1>8 DEF BoundsInv

\* All the bounds together: what the unnoticed rows and the pending handlers
\* come to never exceeds what overlapping reads can let pass.
THEOREM BoundsInvariant == Spec => [](FraudInv /\ BoundsInv)
  <1>1. Init => BoundsInv
    BY InitBounds
  <1>2. FraudInv /\ BoundsInv /\ [Next]_vars => BoundsInv'
    BY OneRowStep, RunningStep, FrequencyStep, VolumeStep, VolumeHistoryStep DEF BoundsInv
  <1> QED BY <1>1, <1>2, FraudInvariant, PTL DEF Spec

\* Unless a row of its sender was written while it was reading, an analysis
\* decides on the volume of the day as if it were one step.
THEOREM VolumeJudgement == Spec => []VolumeIsJudgedRight
  <1>1. BoundsInv => VolumeIsJudgedRight
    BY DEF BoundsInv, VolumeHistoryInv, VolumeIsJudgedRight, VolumeJudged
  <1> QED BY <1>1, BoundsInvariant, PTL

\* However requests overtake each other, fewer analyses of ten minutes slip past
\* the frequency rule than the threshold and the requests at a time together.
THEOREM FrequencyOvershoot == Spec => []FrequencyOvershootBounded
  <1>1. FraudInv /\ BoundsInv => FrequencyOvershootBounded
    <2> SUFFICES ASSUME FraudInv, BoundsInv, NEW s \in Accounts, NEW t \in Instants
                 PROVE  Cardinality(Unnoticed(s, t, FrequencyWindow, "HIGH_FREQUENCY"))
                            < FrequencyThreshold + MaxInFlight
      BY DEF FrequencyOvershootBounded
    <2>1. Cardinality(Unnoticed(s, t, FrequencyWindow, "HIGH_FREQUENCY"))
          + Cardinality(Pending(s, t, FrequencyWindow, "HIGH_FREQUENCY"))
              < FrequencyThreshold + MaxInFlight
      BY DEF BoundsInv, FrequencyInv
    <2>2. /\ Cardinality(Unnoticed(s, t, FrequencyWindow, "HIGH_FREQUENCY")) \in Nat
          /\ Cardinality(Pending(s, t, FrequencyWindow, "HIGH_FREQUENCY")) \in Nat
      BY Counts
    <2> QED BY <2>1, <2>2, FraudAssumption
  <1> QED BY <1>1, BoundsInvariant, PTL

\* What goes unnoticed in a day is at most the limit for each request that can
\* run at the same time, although every one of them may read the volume before
\* any of them has written its row.
THEOREM VolumeOvershoot == Spec => []VolumeOvershootBounded
  <1>1. FraudInv /\ BoundsInv => VolumeOvershootBounded
    <2> SUFFICES ASSUME FraudInv, BoundsInv, NEW s \in Accounts, NEW t \in Instants
                 PROVE  SumOf(Slipped(s, t)) <= MaxInFlight * VolumeLimit
      BY DEF VolumeOvershootBounded, Slipped
    <2> DEFINE n == SumOf(Slipped(s, t))
               P == Spending(s, t)
    <2>1. Room(n, P, cmd)
      BY DEF BoundsInv, VolumeInv
    <2>2. IsFiniteSet(P) /\ \A q \in P : cmd[q].amount \in Nat
      BY Counts, PendingCommands DEF Spending
    <2>3. n \in Nat
      <3>1. /\ IsFiniteSet(Unnoticed(s, t, VolumeWindow, "UNUSUAL_AMOUNT"))
            /\ \A x \in Unnoticed(s, t, VolumeWindow, "UNUSUAL_AMOUNT") : x.amount \in Nat
        BY Counts
      <3>2. IsFiniteSet(Slipped(s, t)) /\ \A x \in Slipped(s, t) : x.amount \in Nat
        BY <3>1, FS_Subset DEF Slipped
      <3> QED BY <3>2, SumRemove
    <2>4. \A q \in P : cmd[q].amount <= VolumeLimit
      BY DEF BoundsInv, VolumeInv
    <2> HIDE DEF n, P
    <2>5. Room(n, {}, cmd)
      BY <2>1, <2>2, <2>3, <2>4, RoomKept
    <2> QED BY <2>5 DEF Room, n
  <1> QED BY <1>1, BoundsInvariant, PTL
=============================================================================
