------------------------- MODULE ShiftPlannerProofs -------------------------
(***************************************************************************)
(* Proofs about ShiftPlanner, for every calendar and every plan.  The      *)
(* arithmetic of working hours is three recursive functions; that each has *)
(* the values its equation says, and what these values are, is proved by   *)
(* induction: the natural numbers are well founded, so a set of them that  *)
(* is closed under the step of an induction has no least gap.              *)
(***************************************************************************)
EXTENDS ShiftPlanner, WellFoundedInduction, FiniteSetTheorems, TLAPS

-----------------------------------------------------------------------------
(* Induction over natural numbers, with sets for predicates.               *)

(* A set of natural numbers has a least element.                           *)
LEMMA LeastNatural ==
  ASSUME NEW T, T \subseteq Nat, T # {}
  PROVE  \E x \in T : \A y \in T : x <= y
<1> DEFINE R == OpToRel(<, Nat)
<1>1. IsWellFoundedOn(R, Nat)
  BY NatLessThanWellFounded
<1> HIDE DEF R
<1>2. PICK x \in T : \A y \in T : ~ (<<y, x>> \in R)
  BY <1>1, WFMin
<1>3. \A y \in T : <<y, x>> \in R <=> y < x
  BY DEF R, OpToRel
<1>4. x \in Nat /\ \A y \in T : y \in Nat /\ ~(y < x)
  BY <1>2, <1>3
<1> QED
  BY <1>4

(* What holds of 0 and is handed on from each number up to n to the next.  *)
LEMMA UpTo ==
  ASSUME NEW n \in Nat, NEW T, 0 \in T, \A i \in 1 .. n : i - 1 \in T => i \in T
  PROVE  0 .. n \subseteq T
<1> DEFINE gaps == (0 .. n) \ T
<1> SUFFICES ASSUME gaps # {} PROVE FALSE
  OBVIOUS
<1>1. PICK x \in gaps : \A y \in gaps : x <= y
  <2>1. gaps \subseteq Nat
    OBVIOUS
  <2> HIDE DEF gaps
  <2> QED
    BY <2>1, LeastNatural
<1>2. x \in 1 .. n /\ x - 1 \in 0 .. n
  BY <1>1
<1> QED
  BY <1>1, <1>2

(* The same from n down.                                                   *)
LEMMA DownFrom ==
  ASSUME NEW n \in Nat, NEW T, n \in T, \A i \in 0 .. n - 1 : i + 1 \in T => i \in T
  PROVE  0 .. n \subseteq T
<1> DEFINE U == {i \in 0 .. n : n - i \in T}
<1>1. 0 .. n \subseteq U
  <2>1. 0 \in U
    OBVIOUS
  <2>2. ASSUME NEW i \in 1 .. n, i - 1 \in U PROVE i \in U
    <3>1. n - i \in 0 .. n - 1 /\ (n - i) + 1 = n - (i - 1)
      OBVIOUS
    <3> QED
      BY <2>2, <3>1
  <2> HIDE DEF U
  <2> QED
    BY <2>1, <2>2, UpTo
<1>2. ASSUME NEW i \in 0 .. n PROVE i \in T
  <2>1. n - i \in U /\ n - (n - i) = i
    BY <1>1
  <2> QED
    BY <2>1
<1> QED
  BY <1>2

(* A recursion whose every step stays in S has a solution.                 *)
IsRecursion(n, S, base, step) ==
  n \in Nat /\ base \in S /\ step \in [1 .. n -> [S -> S]]

LEMMA RecursionHasSolution ==
  ASSUME NEW n, NEW S, NEW base, NEW step, IsRecursion(n, S, base, step)
  PROVE  \E g \in [0 .. n -> S] : g[0] = base /\ \A i \in 1 .. n : g[i] = step[i][g[i - 1]]
<1> DEFINE Solutions(m) ==
             {g \in [0 .. m -> S] : g[0] = base /\ \A i \in 1 .. m : g[i] = step[i][g[i - 1]]}
           T == {m \in 0 .. n : Solutions(m) # {}}
<1> n \in Nat /\ base \in S /\ step \in [1 .. n -> [S -> S]]
  BY DEF IsRecursion
<1>1. 0 \in T
  <2>1. [i \in 0 .. 0 |-> base] \in Solutions(0)
    OBVIOUS
  <2> QED
    BY <2>1
<1>2. ASSUME NEW m \in 1 .. n, m - 1 \in T PROVE m \in T
  <2>1. PICK g \in Solutions(m - 1) : TRUE
    BY <1>2
  <2> DEFINE h == [i \in 0 .. m |-> IF i = m THEN step[m][g[m - 1]] ELSE g[i]]
  <2>2. step[m][g[m - 1]] \in S
    OBVIOUS
  <2>3. h \in [0 .. m -> S]
    BY <2>2
  <2>4. h[0] = base
    BY <2>1
  <2>5. ASSUME NEW i \in 1 .. m PROVE h[i] = step[i][h[i - 1]]
    <3>1. h[i - 1] = g[i - 1]
      OBVIOUS
    <3>2. CASE i = m
      BY <3>1, <3>2
    <3>3. CASE i # m
      <4>1. i \in 1 .. m - 1
        BY <3>3
      <4>2. h[i] = g[i]
        BY <3>3
      <4> QED
        BY <2>1, <3>1, <4>1, <4>2
    <3> QED
      BY <3>2, <3>3
  <2>6. h \in Solutions(m)
    BY <2>3, <2>4, <2>5
  <2> QED
    BY <2>6
<1>3. n \in T
  <2> HIDE DEF Solutions, T
  <2>1. 0 .. n \subseteq T
    BY <1>1, <1>2, UpTo
  <2> QED
    BY <2>1
<1> QED
  BY <1>3

-----------------------------------------------------------------------------
(* Days and ticks.                                                         *)

LEMMA DayArithmetic ==
  ASSUME NEW t \in Nat
  PROVE  /\ DayOf(t) \in Nat /\ t % DayLength \in Nat /\ t % DayLength < DayLength
         /\ StartOf(DayOf(t)) + (t % DayLength) = t
BY CalendarAssumption DEF DayOf, StartOf

LEMMA StartOfDay ==
  ASSUME NEW d \in Nat
  PROVE  /\ StartOf(d) \in Nat /\ StartOf(d + 1) = StartOf(d) + DayLength
         /\ \A k \in Nat : k < DayLength =>
              DayOf(StartOf(d) + k) = d /\ (StartOf(d) + k) % DayLength = k
BY CalendarAssumption DEF StartOf, DayOf

LEMMA StartsAscend ==
  ASSUME NEW d \in Nat, NEW e \in Nat, d <= e
  PROVE  StartOf(d) <= StartOf(e)
BY CalendarAssumption DEF StartOf

LEMMA SameDay ==
  ASSUME NEW t \in Nat, NEW d \in Nat, StartOf(d) <= t, t < StartOf(d + 1)
  PROVE  DayOf(t) = d
BY CalendarAssumption DEF StartOf, DayOf

LEMMA DayBounds ==
  ASSUME NEW t \in Nat
  PROVE  /\ DayOf(t) \in Nat
         /\ StartOf(DayOf(t)) <= t /\ t < StartOf(DayOf(t) + 1)
<1> DEFINE d == DayOf(t)
<1>1. d \in Nat /\ (t % DayLength) \in Nat /\ (t % DayLength) < DayLength
      /\ StartOf(d) + (t % DayLength) = t
  BY DayArithmetic
<1> HIDE DEF d
<1>2. StartOf(d) \in Nat /\ StartOf(d + 1) = StartOf(d) + DayLength /\ DayLength \in Nat
  BY <1>1, StartOfDay, CalendarAssumption
<1>3. StartOf(d) <= t /\ t < StartOf(d + 1)
  BY <1>1, <1>2
<1> QED
  BY <1>1, <1>3 DEF d

LEMMA ModRange ==
  ASSUME NEW m \in Nat, NEW n \in Nat \ {0}
  PROVE  m % n \in 0 .. n - 1
OBVIOUS

(* Min takes the least element.                                            *)
LEMMA MinIsLeast ==
  ASSUME NEW T, T \subseteq Nat, T # {}
  PROVE  Min(T) \in T /\ \A y \in T : Min(T) <= y
<1>1. \E x \in T : \A y \in T : x <= y
  BY LeastNatural
<1> QED
  BY <1>1 DEF Min

-----------------------------------------------------------------------------
(* The intervals of a day lie in the day, one after the other, and cover   *)
(* the ticks that are worked on it.                                        *)

LEMMA SlotFacts ==
  ASSUME NEW u \in Users, NEW d \in Nat
  PROVE  /\ SlotsOn(u, d) \in Seq(SlotSet)
         /\ \A i \in 1 .. Len(SlotsOn(u, d)) :
              /\ SlotsOn(u, d)[i] \in SlotSet
              /\ SlotsOn(u, d)[i].start < SlotsOn(u, d)[i].end
              /\ SlotsOn(u, d)[i].end <= DayLength
              /\ \A j \in 1 .. i - 1 : SlotsOn(u, d)[j].start <= SlotsOn(u, d)[i].start
<1> DEFINE k == (d % Len(Slots[u])) + 1
<1>1. k \in 1 .. Len(Slots[u]) /\ Slots[u] \in Seq(Seq(SlotSet))
  <2>1. Slots[u] \in Seq(Seq(SlotSet)) /\ Slots[u] # <<>>
    BY CalendarAssumption
  <2>2. Len(Slots[u]) \in Nat \ {0}
    BY <2>1
  <2> DEFINE r == d % Len(Slots[u])
  <2>3. r \in 0 .. Len(Slots[u]) - 1
    BY <2>2, ModRange
  <2> HIDE DEF r
  <2>4. r + 1 \in 1 .. Len(Slots[u])
    BY <2>2, <2>3
  <2> QED
    BY <2>1, <2>4 DEF r
<1>2. SlotsOn(u, d) = <<>> \/ SlotsOn(u, d) = Slots[u][k]
  BY DEF SlotsOn
<1> HIDE DEF k
<1>3. Slots[u][k] \in Seq(SlotSet) /\ k \in DOMAIN Slots[u]
  BY <1>1
<1>4. \A i \in DOMAIN Slots[u][k] :
        /\ Slots[u][k][i] \in SlotSet
        /\ Slots[u][k][i].start < Slots[u][k][i].end
        /\ Slots[u][k][i].end <= DayLength
        /\ \A j \in 1 .. i - 1 : Slots[u][k][j].start <= Slots[u][k][i].start
  BY <1>3, CalendarAssumption
<1>5. CASE SlotsOn(u, d) = Slots[u][k]
  <2> DEFINE slots == Slots[u][k]
  <2>1. DOMAIN slots = 1 .. Len(slots)
    BY <1>3
  <2> QED
    BY <1>3, <1>4, <1>5, <2>1
<1>6. CASE SlotsOn(u, d) = <<>>
  <2>1. 1 .. Len(<<>>) = {} /\ <<>> \in Seq(SlotSet)
    OBVIOUS
  <2> QED
    BY <1>6, <2>1
<1> QED
  BY <1>2, <1>5, <1>6

LEMMA IntervalFacts ==
  ASSUME NEW u \in Users, NEW t \in Nat
  PROVE  /\ IntervalsOn(u, t) \in Seq(SlotSet)
         /\ \A i \in 1 .. Len(IntervalsOn(u, t)) :
              /\ IntervalsOn(u, t)[i] \in SlotSet
              /\ IntervalsOn(u, t)[i].start < IntervalsOn(u, t)[i].end
              /\ StartOf(DayOf(t)) <= IntervalsOn(u, t)[i].start
              /\ IntervalsOn(u, t)[i].end <= StartOf(DayOf(t) + 1)
              /\ \A j \in 1 .. i - 1 :
                   IntervalsOn(u, t)[j].start <= IntervalsOn(u, t)[i].start
<1> DEFINE d     == DayOf(t)
           slots == SlotsOn(u, d)
           ivs   == [i \in DOMAIN slots |-> [start |-> StartOf(d) + slots[i].start,
                                             end   |-> StartOf(d) + slots[i].end]]
<1>1. d \in Nat /\ StartOf(d) \in Nat /\ StartOf(d + 1) = StartOf(d) + DayLength
  BY DayArithmetic, StartOfDay
<1>2. /\ slots \in Seq(SlotSet)
      /\ \A i \in 1 .. Len(slots) :
           /\ slots[i] \in SlotSet
           /\ slots[i].start < slots[i].end
           /\ slots[i].end <= DayLength
           /\ \A j \in 1 .. i - 1 : slots[j].start <= slots[i].start
  BY <1>1, SlotFacts
<1>3. IntervalsOn(u, t) = ivs
  BY DEF IntervalsOn
<1> HIDE DEF d, slots
<1>4. ivs \in Seq(SlotSet) /\ Len(ivs) = Len(slots)
  <2>1. \A i \in 1 .. Len(slots) : ivs[i] \in SlotSet
    BY <1>1, <1>2 DEF SlotSet
  <2>2. Len(slots) \in Nat /\ DOMAIN ivs = 1 .. Len(slots)
    BY <1>2
  <2>3. ivs \in [1 .. Len(slots) -> SlotSet]
    BY <2>1, <2>2
  <2> HIDE DEF ivs
  <2>4. ivs \in Seq(SlotSet)
    BY <2>2, <2>3
  <2> QED
    BY <2>2, <2>4
<1>5. \A i \in 1 .. Len(slots) :
        /\ ivs[i] \in SlotSet
        /\ ivs[i].start = StartOf(d) + slots[i].start
        /\ ivs[i].end = StartOf(d) + slots[i].end
        /\ slots[i].start \in Nat /\ slots[i].end \in Nat
  BY <1>1, <1>2 DEF SlotSet
<1> HIDE DEF ivs
<1>6. ASSUME NEW i \in 1 .. Len(ivs)
      PROVE  /\ ivs[i] \in SlotSet
             /\ ivs[i].start < ivs[i].end
             /\ StartOf(d) <= ivs[i].start
             /\ ivs[i].end <= StartOf(d + 1)
             /\ \A j \in 1 .. i - 1 : ivs[j].start <= ivs[i].start
  <2>1. i \in 1 .. Len(slots) /\ DayLength \in Nat /\ Len(slots) \in Nat
    BY <1>2, <1>4, CalendarAssumption
  <2>2. ASSUME NEW j \in 1 .. i - 1 PROVE ivs[j].start <= ivs[i].start
    <3>1. j \in 1 .. Len(slots) /\ slots[j].start <= slots[i].start
      BY <1>2, <2>1
    <3>2. /\ ivs[j].start = StartOf(d) + slots[j].start
          /\ ivs[i].start = StartOf(d) + slots[i].start
          /\ slots[j].start \in Nat /\ slots[i].start \in Nat
      BY <1>5, <2>1, <3>1
    <3> QED
      BY <1>1, <3>1, <3>2
  <2>3. /\ ivs[i].start = StartOf(d) + slots[i].start
        /\ ivs[i].end = StartOf(d) + slots[i].end
        /\ slots[i].start \in Nat /\ slots[i].end \in Nat
        /\ slots[i].start < slots[i].end /\ slots[i].end <= DayLength
    BY <1>2, <1>5, <2>1
  <2>4. /\ ivs[i].start < ivs[i].end
        /\ StartOf(d) <= ivs[i].start
        /\ ivs[i].end <= StartOf(d + 1)
    BY <1>1, <2>1, <2>3
  <2> QED
    BY <1>5, <2>1, <2>2, <2>4
<1> QED
  BY <1>3, <1>4, <1>6 DEF d

(* The intervals depend on the day alone.                                  *)
LEMMA IntervalsOfDay ==
  ASSUME NEW u \in Users, NEW t \in Nat, NEW x \in Nat, DayOf(x) = DayOf(t)
  PROVE  IntervalsOn(u, x) = IntervalsOn(u, t)
BY DEF IntervalsOn

LEMMA WorksWithin ==
  ASSUME NEW u \in Users, NEW t \in Nat
  PROVE  Works(u, t) <=> Within(t, IntervalsOn(u, t))
<1> DEFINE d     == DayOf(t)
           slots == SlotsOn(u, d)
           ivs   == [i \in DOMAIN slots |-> [start |-> StartOf(d) + slots[i].start,
                                             end   |-> StartOf(d) + slots[i].end]]
<1>1. d \in Nat /\ StartOf(d) \in Nat /\ t % DayLength \in Nat
      /\ StartOf(d) + (t % DayLength) = t
  BY DayArithmetic, StartOfDay
<1>2. \A i \in DOMAIN slots : slots[i] \in SlotSet
  BY <1>1, SlotFacts
<1>3. IntervalsOn(u, t) = ivs
  BY DEF IntervalsOn
<1> HIDE DEF d, slots
<1>4. \A i \in DOMAIN slots :
        /\ slots[i].start <= t % DayLength <=> ivs[i].start <= t
        /\ t % DayLength < slots[i].end <=> t < ivs[i].end
  BY <1>1, <1>2 DEF SlotSet
<1>5. DOMAIN ivs = DOMAIN slots
  OBVIOUS
<1>6. Works(u, t) <=> \E i \in DOMAIN slots : slots[i].start <= t % DayLength /\ t % DayLength < slots[i].end
  BY DEF Works, d, slots
<1> HIDE DEF ivs
<1> QED
  BY <1>3, <1>4, <1>5, <1>6 DEF Within

-----------------------------------------------------------------------------
(* nextAllowedUtc.                                                         *)

LEMMA CursorFacts ==
  ASSUME NEW t \in Nat, NEW i \in Nat
  PROVE  /\ Cursor(t, i) \in Nat
         /\ DayOf(Cursor(t, i)) = DayOf(t) + i
         /\ Cursor(t, i) < Cursor(t, i + 1)
         /\ Cursor(t, i + 1) = StartOf(DayOf(t) + (i + 1))
         /\ StartOf(DayOf(Cursor(t, i)) + 1) = Cursor(t, i + 1)
         /\ t <= Cursor(t, i)
<1> DEFINE d == DayOf(t)
<1>1. d \in Nat /\ StartOf(d) <= t /\ t < StartOf(d + 1)
  BY DayBounds
<1>2. DayLength \in Nat \ {0}
  BY CalendarAssumption
<1> HIDE DEF d
<1>3. /\ d + i \in Nat /\ d + (i + 1) \in Nat /\ (d + i) + 1 = d + (i + 1)
      /\ i # 0 => d + 1 <= d + i
  BY <1>1
<1>4. /\ StartOf(d + i) \in Nat /\ StartOf(d + (i + 1)) = StartOf(d + i) + DayLength
      /\ DayOf(StartOf(d + i)) = d + i
  <2>1. DayOf(StartOf(d + i) + 0) = d + i /\ StartOf(d + i) \in Nat
    BY <1>2, <1>3, StartOfDay
  <2>2. StartOf((d + i) + 1) = StartOf(d + i) + DayLength
    BY <1>3, StartOfDay
  <2> QED
    BY <1>3, <2>1, <2>2
<1>5. Cursor(t, i + 1) = StartOf(d + (i + 1))
  BY DEF Cursor, d
<1>6. CASE i = 0
  <2>1. Cursor(t, i) = t /\ DayOf(t) = d + i
    BY <1>1, <1>6 DEF Cursor, d
  <2>2. d + (i + 1) = d + 1
    BY <1>1, <1>6
  <2> QED
    BY <1>1, <1>5, <2>1, <2>2 DEF d
<1>7. CASE i # 0
  <2>1. Cursor(t, i) = StartOf(d + i)
    BY <1>7 DEF Cursor, d
  <2>2. StartOf(d + 1) <= StartOf(d + i)
    BY <1>1, <1>3, <1>7, StartsAscend
  <2>3. StartOf(d + 1) \in Nat
    BY <1>1, StartOfDay
  <2>4. t <= StartOf(d + i) /\ StartOf(d + i) < StartOf(d + (i + 1))
    BY <1>1, <1>2, <1>4, <2>2, <2>3
  <2> QED
    BY <1>3, <1>4, <1>5, <2>1, <2>4 DEF d
<1> QED
  BY <1>6, <1>7

LEMMA StartsAfterType ==
  ASSUME NEW u \in Users, NEW x \in Nat
  PROVE  StartsAfter(x, IntervalsOn(u, x)) \subseteq Nat
<1> DEFINE ivs == IntervalsOn(u, x)
<1>1. DOMAIN ivs = 1 .. Len(ivs) /\ \A i \in 1 .. Len(ivs) : ivs[i] \in SlotSet
  BY IntervalFacts
<1> HIDE DEF ivs
<1>2. \A i \in DOMAIN ivs : ivs[i].start \in Nat
  BY <1>1 DEF SlotSet
<1>3. StartsAfter(x, ivs) \subseteq Nat
  BY <1>2 DEF StartsAfter
<1> QED
  BY <1>3 DEF ivs

(* The recursion of the search has the values that its equation says.      *)
LEMMA SearchFacts ==
  ASSUME NEW u \in Users, NEW t \in Nat
  PROVE  /\ Search(u, t) \in [0 .. MaxDays -> Nat]
         /\ Search(u, t)[MaxDays] = t
         /\ \A i \in 0 .. MaxDays - 1 :
              LET x   == Cursor(t, i)
                  ivs == IntervalsOn(u, x)
              IN Search(u, t)[i] = IF Within(x, ivs) THEN x
                                   ELSE IF StartsAfter(x, ivs) # {} THEN Min(StartsAfter(x, ivs))
                                   ELSE Search(u, t)[i + 1]
<1> DEFINE Day(i, later) ==
             LET ivs == IntervalsOn(u, Cursor(t, i)) IN
             IF Within(Cursor(t, i), ivs) THEN Cursor(t, i)
             ELSE IF StartsAfter(Cursor(t, i), ivs) # {} THEN Min(StartsAfter(Cursor(t, i), ivs))
             ELSE later
           step == [k \in 1 .. MaxDays |-> [y \in Nat |-> Day(MaxDays - k, y)]]
<1>1. MaxDays \in Nat
  BY CalendarAssumption
<1>2. ASSUME NEW i \in Nat, NEW y \in Nat PROVE Day(i, y) \in Nat
  <2>1. Cursor(t, i) \in Nat
    BY CursorFacts
  <2>2. StartsAfter(Cursor(t, i), IntervalsOn(u, Cursor(t, i))) \subseteq Nat
    BY <2>1, StartsAfterType
  <2> QED
    BY <2>1, <2>2, MinIsLeast
<1> HIDE DEF Day
<1>3. step \in [1 .. MaxDays -> [Nat -> Nat]]
  BY <1>1, <1>2
<1> HIDE DEF step
<1>4. PICK g \in [0 .. MaxDays -> Nat] :
        g[0] = t /\ \A k \in 1 .. MaxDays : g[k] = step[k][g[k - 1]]
  <2>1. IsRecursion(MaxDays, Nat, t, step)
    BY <1>1, <1>3 DEF IsRecursion
  <2> QED
    BY <2>1, RecursionHasSolution
<1> DEFINE h == [i \in 0 .. MaxDays |-> g[MaxDays - i]]
<1>5. h = [i \in 0 .. MaxDays |-> IF i = MaxDays THEN t ELSE Day(i, h[i + 1])]
  <2>1. ASSUME NEW i \in 0 .. MaxDays PROVE h[i] = IF i = MaxDays THEN t ELSE Day(i, h[i + 1])
    <3>1. CASE i = MaxDays
      BY <1>1, <1>4, <3>1
    <3>2. CASE i # MaxDays
      <4>1. /\ MaxDays - i \in 1 .. MaxDays /\ MaxDays - (MaxDays - i) = i
            /\ i + 1 \in 0 .. MaxDays /\ MaxDays - (i + 1) = (MaxDays - i) - 1
            /\ (MaxDays - i) - 1 \in 0 .. MaxDays
        BY <1>1, <3>2
      <4>2. h[i] = step[MaxDays - i][g[(MaxDays - i) - 1]]
        BY <1>4, <4>1
      <4>3. h[i + 1] = g[(MaxDays - i) - 1] /\ g[(MaxDays - i) - 1] \in Nat
        BY <4>1
      <4>4. step[MaxDays - i][g[(MaxDays - i) - 1]] = Day(MaxDays - (MaxDays - i), g[(MaxDays - i) - 1])
        BY <4>1, <4>3 DEF step
      <4> QED
        BY <3>2, <4>1, <4>2, <4>3, <4>4
    <3> QED
      BY <3>1, <3>2
  <2> QED
    BY <2>1
<1> HIDE DEF h
<1> DEFINE s == Search(u, t)
<1>6. s = [i \in 0 .. MaxDays |-> IF i = MaxDays THEN t ELSE Day(i, s[i + 1])]
  BY <1>5 DEF Search, Day
<1> HIDE DEF s
<1>7. s[MaxDays] = t /\ DOMAIN s = 0 .. MaxDays
  BY <1>1, <1>6
<1>8. \A i \in 0 .. MaxDays - 1 : s[i] = Day(i, s[i + 1])
  BY <1>1, <1>6
<1>9. s \in [0 .. MaxDays -> Nat]
  <2> DEFINE T == {i \in 0 .. MaxDays : s[i] \in Nat}
  <2>1. MaxDays \in T
    BY <1>1, <1>7
  <2>2. ASSUME NEW i \in 0 .. MaxDays - 1, i + 1 \in T PROVE i \in T
    <3>1. i \in Nat /\ i \in 0 .. MaxDays /\ s[i + 1] \in Nat
      BY <1>1, <2>2
    <3>2. s[i] = Day(i, s[i + 1])
      BY <1>8
    <3> QED
      BY <1>2, <3>1, <3>2
  <2>3. 0 .. MaxDays \subseteq T
    <3> HIDE DEF T
    <3> QED
      BY <1>1, <2>1, <2>2, DownFrom
  <2> QED
    BY <1>6, <2>3
<1> QED
  BY <1>7, <1>8, <1>9 DEF Day, s

(* What is looked at on the day of x: the next working tick of that day.   *)
LEMMA NextOfDay ==
  ASSUME NEW u \in Users, NEW x \in Nat
  PROVE  LET ivs == IntervalsOn(u, x)
             e   == StartOf(DayOf(x) + 1)
             m   == Min(StartsAfter(x, ivs))
         IN /\ Within(x, ivs) <=> Works(u, x)
            /\ ~ Within(x, ivs) /\ StartsAfter(x, ivs) # {} =>
                 m \in x .. e - 1 /\ Works(u, m) /\ \A y \in x .. m - 1 : ~ Works(u, y)
            /\ ~ Within(x, ivs) /\ StartsAfter(x, ivs) = {} =>
                 \A y \in x .. e - 1 : ~ Works(u, y)
<1> DEFINE d   == DayOf(x)
           ivs == IntervalsOn(u, x)
           e   == StartOf(d + 1)
           S   == StartsAfter(x, ivs)
           m   == Min(S)
<1>1. d \in Nat /\ StartOf(d) <= x /\ x < e /\ StartOf(d) \in Nat /\ e \in Nat
  BY DayBounds, StartOfDay
<1>2. DOMAIN ivs = 1 .. Len(ivs)
      /\ \A i \in DOMAIN ivs : /\ ivs[i].start \in Nat /\ ivs[i].end \in Nat
                               /\ ivs[i].start < ivs[i].end
                               /\ StartOf(d) <= ivs[i].start /\ ivs[i].end <= e
  <2>1. DOMAIN ivs = 1 .. Len(ivs) /\ \A i \in 1 .. Len(ivs) :
          /\ ivs[i] \in SlotSet /\ ivs[i].start < ivs[i].end
          /\ StartOf(d) <= ivs[i].start /\ ivs[i].end <= e
    BY IntervalFacts
  <2> HIDE DEF ivs, d, e
  <2> QED
    BY <2>1 DEF SlotSet
<1>3. \A y \in x .. e - 1 : y \in Nat /\ DayOf(y) = d
  BY <1>1, SameDay
<1>4. \A y \in x .. e - 1 : Works(u, y) <=> \E i \in DOMAIN ivs : ivs[i].start <= y /\ y < ivs[i].end
  <2>1. \A y \in x .. e - 1 : Works(u, y) <=> Within(y, ivs)
    BY <1>3, WorksWithin, IntervalsOfDay
  <2> QED
    BY <2>1 DEF Within
<1>5. Within(x, ivs) <=> Works(u, x)
  BY WorksWithin
<1>6. S = {s \in {ivs[i].start : i \in DOMAIN ivs} : s > x}
  BY DEF StartsAfter
<1>7. Within(x, ivs) <=> \E i \in DOMAIN ivs : ivs[i].start <= x /\ x < ivs[i].end
  BY DEF Within
<1>8. S \subseteq Nat
  BY StartsAfterType
<1> HIDE DEF d, ivs, e, S
<1>9. ASSUME ~ Within(x, ivs), NEW y \in x .. e - 1, Works(u, y)
      PROVE  \E s \in S : s <= y
  <2>1. PICK i \in DOMAIN ivs : ivs[i].start <= y /\ y < ivs[i].end
    BY <1>4, <1>9
  <2>2. ivs[i].start > x
    BY <1>1, <1>2, <1>7, <1>9, <2>1
  <2> QED
    BY <1>6, <2>1, <2>2
<1>10. ASSUME ~ Within(x, ivs), S # {}
       PROVE  m \in x .. e - 1 /\ Works(u, m) /\ \A y \in x .. m - 1 : ~ Works(u, y)
  <2>1. m \in S /\ m \in Nat /\ \A y \in S : m <= y
    BY <1>8, <1>10, MinIsLeast
  <2> HIDE DEF m
  <2>2. PICK i \in DOMAIN ivs : m = ivs[i].start /\ m > x
    BY <1>6, <2>1
  <2>3. m \in x .. e - 1 /\ m < ivs[i].end
    BY <1>1, <1>2, <2>1, <2>2
  <2>4. Works(u, m)
    BY <1>4, <2>1, <2>2, <2>3
  <2>5. ASSUME NEW y \in x .. m - 1, Works(u, y) PROVE FALSE
    <3>1. y \in x .. e - 1 /\ y < m /\ y \in Nat
      BY <1>1, <2>1, <2>3
    <3>2. PICK s \in S : s <= y
      BY <1>9, <1>10, <2>5, <3>1
    <3>3. s \in Nat /\ m <= s
      BY <1>8, <2>1
    <3> QED
      BY <2>1, <3>1, <3>2, <3>3
  <2> QED
    BY <2>3, <2>4, <2>5
<1>11. ASSUME ~ Within(x, ivs), S = {} PROVE \A y \in x .. e - 1 : ~ Works(u, y)
  BY <1>9, <1>11
<1> HIDE DEF m
<1>12. /\ ~ Within(x, ivs) /\ S # {} =>
            m \in x .. e - 1 /\ Works(u, m) /\ \A y \in x .. m - 1 : ~ Works(u, y)
       /\ ~ Within(x, ivs) /\ S = {} => \A y \in x .. e - 1 : ~ Works(u, y)
  BY <1>10, <1>11
<1> QED
  BY <1>5, <1>12 DEF d, ivs, e, S, m

(* y is the first tick from x on and before h that u works, or none if     *)
(* there is no such tick.                                                  *)
IsFirstWorked(u, x, h, none, y) ==
  IF \E z \in x .. h - 1 : Works(u, z)
  THEN Works(u, y) /\ x <= y /\ y < h /\ \A z \in x .. y - 1 : ~ Works(u, z)
  ELSE y = none

LEMMA FirstWorkedSplit ==
  ASSUME NEW u, NEW x \in Nat, NEW e \in Nat, NEW h \in Nat, x <= e, e <= h,
         NEW none \in Nat, NEW y \in Nat
  PROVE  /\ (\A z \in x .. e - 1 : ~ Works(u, z)) /\ IsFirstWorked(u, e, h, none, y)
              => IsFirstWorked(u, x, h, none, y)
         /\ y \in x .. e - 1 /\ Works(u, y) /\ (\A z \in x .. y - 1 : ~ Works(u, z))
              => IsFirstWorked(u, x, h, none, y)
<1>1. ASSUME \A z \in x .. e - 1 : ~ Works(u, z), IsFirstWorked(u, e, h, none, y)
      PROVE  IsFirstWorked(u, x, h, none, y)
  <2>1. (\E z \in x .. h - 1 : Works(u, z)) <=> (\E z \in e .. h - 1 : Works(u, z))
    <3>1. \A z \in x .. h - 1 : z \in x .. e - 1 \/ z \in e .. h - 1
      OBVIOUS
    <3>2. \A z \in e .. h - 1 : z \in x .. h - 1
      OBVIOUS
    <3> QED
      BY <1>1, <3>1, <3>2
  <2>2. \A z \in x .. y - 1 : z \in x .. e - 1 \/ z \in e .. y - 1
    OBVIOUS
  <2>3. e <= y => x <= y
    OBVIOUS
  <2> QED
    BY <1>1, <2>1, <2>2, <2>3 DEF IsFirstWorked
<1>2. ASSUME y \in x .. e - 1, Works(u, y), \A z \in x .. y - 1 : ~ Works(u, z)
      PROVE  IsFirstWorked(u, x, h, none, y)
  <2>1. y \in x .. h - 1 /\ x <= y /\ y < h
    BY <1>2
  <2> QED
    BY <1>2, <2>1 DEF IsFirstWorked
<1> QED
  BY <1>1, <1>2

(* nextAllowedUtc gives the first working tick of the days it searches,    *)
(* and the request itself when there is none (scheduler.service.ts:74).    *)
THEOREM NextAllowedIsFirstWorked ==
  ASSUME NEW u \in Users, NEW t \in Nat
  PROVE  /\ NextAllowed(u, t) \in Nat
         /\ IsFirstWorked(u, t, Horizon(t), t, NextAllowed(u, t))
<1> DEFINE s == Search(u, t)
           T == {i \in 0 .. MaxDays : IsFirstWorked(u, Cursor(t, i), Horizon(t), t, s[i])}
<1>1. MaxDays \in Nat /\ MaxDays # 0
  BY CalendarAssumption
<1>2. s \in [0 .. MaxDays -> Nat] /\ s[MaxDays] = t
  BY SearchFacts
<1>3. Cursor(t, MaxDays) = Horizon(t) /\ Horizon(t) \in Nat
  BY <1>1, CursorFacts DEF Cursor, Horizon
<1>4. MaxDays \in T
  <2>1. Cursor(t, MaxDays) .. Horizon(t) - 1 = {}
    BY <1>3
  <2> QED
    BY <1>1, <1>2, <2>1 DEF IsFirstWorked
<1>5. ASSUME NEW i \in 0 .. MaxDays - 1, i + 1 \in T PROVE i \in T
  <2> DEFINE x   == Cursor(t, i)
             e   == Cursor(t, i + 1)
             ivs == IntervalsOn(u, x)
             S   == StartsAfter(x, ivs)
  <2>1. i \in Nat /\ i \in 0 .. MaxDays /\ i + 1 \in Nat /\ i + 1 <= MaxDays
    BY <1>1
  <2>2. x \in Nat /\ e \in Nat /\ x < e /\ StartOf(DayOf(x) + 1) = e
    BY <2>1, CursorFacts
  <2>3. e <= Horizon(t)
    <3>1. DayOf(t) \in Nat
      BY DayArithmetic
    <3>2. DayOf(t) + (i + 1) <= DayOf(t) + MaxDays /\ DayOf(t) + (i + 1) \in Nat /\ DayOf(t) + MaxDays \in Nat
      BY <1>1, <2>1, <3>1
    <3>3. StartOf(DayOf(t) + (i + 1)) <= StartOf(DayOf(t) + MaxDays)
      BY <3>2, StartsAscend
    <3> QED
      BY <2>1, <3>3, CursorFacts DEF Horizon
  <2>4. s[i] \in Nat /\ s[i + 1] \in Nat
    BY <1>2, <2>1
  <2>5. s[i] = IF Within(x, ivs) THEN x ELSE IF S # {} THEN Min(S) ELSE s[i + 1]
    BY SearchFacts
  <2>6. /\ Within(x, ivs) <=> Works(u, x)
        /\ ~ Within(x, ivs) /\ S # {} =>
             Min(S) \in x .. e - 1 /\ Works(u, Min(S)) /\ \A y \in x .. Min(S) - 1 : ~ Works(u, y)
        /\ ~ Within(x, ivs) /\ S = {} => \A y \in x .. e - 1 : ~ Works(u, y)
    BY <2>2, NextOfDay
  <2>7. IsFirstWorked(u, e, Horizon(t), t, s[i + 1])
    BY <1>5
  <2> HIDE DEF x, e, ivs, S, s
  <2>8. /\ (\A z \in x .. e - 1 : ~ Works(u, z)) /\ IsFirstWorked(u, e, Horizon(t), t, s[i])
             => IsFirstWorked(u, x, Horizon(t), t, s[i])
        /\ s[i] \in x .. e - 1 /\ Works(u, s[i]) /\ (\A z \in x .. s[i] - 1 : ~ Works(u, z))
             => IsFirstWorked(u, x, Horizon(t), t, s[i])
    <3>1. x <= e
      BY <2>2
    <3> QED
      BY <1>3, <2>2, <2>3, <2>4, <3>1, FirstWorkedSplit
  <2>9. IsFirstWorked(u, x, Horizon(t), t, s[i])
    <3>1. CASE Within(x, ivs)
      <4>1. s[i] = x /\ Works(u, s[i]) /\ s[i] \in x .. e - 1 /\ x .. s[i] - 1 = {}
        BY <2>2, <2>5, <2>6, <3>1
      <4> QED
        BY <2>8, <4>1
    <3>2. CASE ~ Within(x, ivs) /\ S # {}
      BY <2>5, <2>6, <2>8, <3>2
    <3>3. CASE ~ Within(x, ivs) /\ S = {}
      BY <2>5, <2>6, <2>7, <2>8, <3>3
    <3> QED
      BY <3>1, <3>2, <3>3
  <2> QED
    BY <2>1, <2>9 DEF x
<1>6. 0 .. MaxDays \subseteq T
  <2> HIDE DEF T
  <2> QED
    BY <1>1, <1>4, <1>5, DownFrom
<1>7. Cursor(t, 0) = t /\ 0 \in 0 .. MaxDays
  BY <1>1 DEF Cursor
<1> QED
  BY <1>2, <1>6, <1>7 DEF NextAllowed

(* The request is never moved back.                                        *)
LEMMA NextAllowedNotBefore ==
  ASSUME NEW u \in Users, NEW t \in Nat
  PROVE  NextAllowed(u, t) \in Nat /\ t <= NextAllowed(u, t)
BY NextAllowedIsFirstWorked DEF IsFirstWorked

LEMMA WeekdayComesBack ==
  ASSUME NEW m \in Nat \ {0}, NEW d \in Nat, NEW k \in 0 .. m - 1
  PROVE  \E e \in Nat : d < e /\ e < d + 2 * m /\ e % m = k
<1> DEFINE q == d \div m
           r == d % m
           e == ((q + 1) * m) + k
<1>1. q \in Nat /\ r \in 0 .. m - 1 /\ d = (q * m) + r
  OBVIOUS
<1> HIDE DEF q, r
<1>2. (q + 1) * m = (q * m) + m /\ q * m \in Nat
  BY <1>1
<1>3. e \in Nat /\ d < e /\ e < d + 2 * m
  BY <1>1, <1>2
<1>4. e % m = k
  BY <1>1
<1> QED
  BY <1>3, <1>4

(* A user with some working hours in the week and no days off is always    *)
(* given a working tick, if the search goes through two weeks: the         *)
(* fallback to the request as it is never happens to them.                 *)
THEOREM HoursAreAlwaysFound ==
  ASSUME NEW u \in Users, NEW t \in Nat, OffDates[u] = {},
         NEW k \in DOMAIN Slots[u], Slots[u][k] # <<>>, 2 * Len(Slots[u]) <= MaxDays
  PROVE  Works(u, NextAllowed(u, t))
<1> DEFINE d == DayOf(t)
           m == Len(Slots[u])
<1>1. d \in Nat /\ MaxDays \in Nat
  BY DayBounds, CalendarAssumption
<1>2. Slots[u] \in Seq(Seq(SlotSet)) /\ Slots[u] # <<>>
  BY CalendarAssumption
<1>3. m \in Nat \ {0} /\ k \in 1 .. m /\ Slots[u][k] \in Seq(SlotSet)
  BY <1>2
<1> HIDE DEF d, m
<1>4. PICK e \in Nat : d < e /\ e < d + 2 * m /\ e % m = k - 1
  <2>1. k - 1 \in 0 .. m - 1
    BY <1>3
  <2> QED
    BY <1>1, <1>3, <2>1, WeekdayComesBack
<1>5. SlotsOn(u, e) = Slots[u][k]
  <2>1. (e % m) + 1 = k
    BY <1>3, <1>4
  <2> QED
    BY <2>1 DEF SlotsOn, m
<1>6. 1 \in DOMAIN SlotsOn(u, e) /\ SlotsOn(u, e)[1].start \in Nat
      /\ SlotsOn(u, e)[1].start < SlotsOn(u, e)[1].end /\ SlotsOn(u, e)[1].start < DayLength
  <2>1. 1 \in 1 .. Len(SlotsOn(u, e)) /\ SlotsOn(u, e) \in Seq(SlotSet)
    BY <1>3, <1>5
  <2>2. /\ SlotsOn(u, e)[1] \in SlotSet /\ SlotsOn(u, e)[1].end <= DayLength
        /\ SlotsOn(u, e)[1].start < SlotsOn(u, e)[1].end
    BY <2>1, SlotFacts
  <2> DEFINE s == SlotsOn(u, e)[1]
  <2>3. s.start \in Nat /\ s.end \in Nat /\ DayLength \in Nat
    BY <2>2, CalendarAssumption DEF SlotSet
  <2> QED
    BY <2>1, <2>2, <2>3
<1> DEFINE k0 == SlotsOn(u, e)[1].start
           x  == StartOf(e) + k0
<1>7. DayOf(x) = e /\ x % DayLength = k0 /\ x \in Nat /\ StartOf(e) <= x /\ x < StartOf(e + 1)
  <2>1. k0 \in Nat /\ k0 < DayLength
    BY <1>6
  <2> HIDE DEF k0
  <2>2. StartOf(e) \in Nat /\ StartOf(e + 1) = StartOf(e) + DayLength /\ DayLength \in Nat
    BY StartOfDay, CalendarAssumption
  <2>3. DayOf(StartOf(e) + k0) = e /\ (StartOf(e) + k0) % DayLength = k0
    BY <2>1, StartOfDay
  <2> QED
    BY <2>1, <2>2, <2>3
<1>8. Works(u, x)
  <2> HIDE DEF x
  <2>1. k0 <= k0
    BY <1>6
  <2> QED
    BY <1>6, <1>7, <2>1 DEF Works
<1>9. x \in t .. Horizon(t) - 1
  <2> HIDE DEF x
  <2>1. t < StartOf(d + 1) /\ d + 1 \in Nat /\ d + 1 <= e
    <3>1. t < StartOf(d + 1)
      BY DayBounds DEF d
    <3> QED
      BY <1>1, <1>4, <3>1
  <2>2. e + 1 \in Nat /\ d + MaxDays \in Nat /\ e + 1 <= d + MaxDays
    BY <1>1, <1>3, <1>4 DEF m
  <2>3. StartOf(d + 1) <= StartOf(e) /\ StartOf(e + 1) <= StartOf(d + MaxDays)
    BY <2>1, <2>2, StartsAscend
  <2>4. /\ StartOf(d + 1) \in Nat /\ StartOf(e) \in Nat /\ StartOf(e + 1) \in Nat
        /\ StartOf(d + MaxDays) \in Nat
    BY <2>1, <2>2, StartOfDay
  <2>5. Horizon(t) = StartOf(d + MaxDays)
    BY DEF Horizon, d
  <2> QED
    BY <1>7, <2>1, <2>3, <2>4, <2>5
<1> HIDE DEF x
<1> QED
  BY <1>8, <1>9, NextAllowedIsFirstWorked DEF IsFirstWorked

-----------------------------------------------------------------------------
(* The working time between two moments.                                   *)

LEMMA WorkedType ==
  ASSUME NEW u, NEW a \in Nat, NEW b \in Nat
  PROVE  IsFiniteSet(WorkedTicks(u, a, b)) /\ Worked(u, a, b) \in Nat
<1>1. IsFiniteSet(a .. b - 1)
  BY FS_Interval
<1>2. WorkedTicks(u, a, b) \subseteq a .. b - 1
  BY DEF WorkedTicks
<1>3. IsFiniteSet(WorkedTicks(u, a, b))
  BY <1>1, <1>2, FS_Subset
<1> QED
  BY <1>3, FS_CardinalityType DEF Worked

(* Working time adds up.                                                   *)
LEMMA WorkedAddsUp ==
  ASSUME NEW u, NEW a \in Nat, NEW b \in Nat, NEW c \in Nat, a <= b, b <= c
  PROVE  Worked(u, a, c) = Worked(u, a, b) + Worked(u, b, c)
<1> DEFINE S == WorkedTicks(u, a, b)
           T == WorkedTicks(u, b, c)
<1>1. WorkedTicks(u, a, c) = S \cup T
  BY DEF WorkedTicks
<1>2. S \cap T = {}
  BY DEF WorkedTicks
<1>3. IsFiniteSet(S) /\ IsFiniteSet(T) /\ Cardinality(S) \in Nat /\ Cardinality(T) \in Nat
  BY WorkedType DEF Worked
<1> HIDE DEF S, T
<1>4. Cardinality(S \cup T) = Cardinality(S) + Cardinality(T)
  <2>1. Cardinality(S \cup T) = Cardinality(S) + Cardinality(T) - Cardinality(S \cap T)
    BY <1>3, FS_Union
  <2>2. Cardinality(S \cap T) = 0
    BY <1>2, FS_EmptySet
  <2> QED
    BY <1>3, <2>1, <2>2
<1> QED
  BY <1>1, <1>4 DEF Worked, S, T

LEMMA NothingWorked ==
  ASSUME NEW u, NEW a \in Nat, NEW b \in Nat, \A z \in a .. b - 1 : ~ Works(u, z)
  PROVE  Worked(u, a, b) = 0
<1>1. WorkedTicks(u, a, b) = {}
  BY DEF WorkedTicks
<1> QED
  BY <1>1, FS_EmptySet DEF Worked

LEMMA AllWorked ==
  ASSUME NEW u, NEW a \in Nat, NEW b \in Nat, a <= b, \A z \in a .. b - 1 : Works(u, z)
  PROVE  Worked(u, a, b) = b - a
<1>1. WorkedTicks(u, a, b) = a .. b - 1
  BY DEF WorkedTicks
<1>2. Cardinality(a .. b - 1) = b - a
  <2>1. b - 1 \in Int /\ a \in Int
    OBVIOUS
  <2>2. Cardinality(a .. b - 1) = IF a > b - 1 THEN 0 ELSE (b - 1) - a + 1
    BY <2>1, FS_Interval
  <2> QED
    BY <2>2
<1> QED
  BY <1>1, <1>2 DEF Worked

-----------------------------------------------------------------------------
(* addDurationWithinWorkingHours.                                          *)

WorkSet == [at : Nat, left : Nat, done : BOOLEAN]

LEMMA WorkIntervalType ==
  ASSUME NEW w \in WorkSet, NEW iv \in SlotSet
  PROVE  WorkInterval(w, iv) \in WorkSet
<1> DEFINE from == IF w.at > iv.start THEN w.at ELSE iv.start
<1>1. w.at \in Nat /\ w.left \in Nat /\ iv.start \in Nat /\ iv.end \in Nat
  BY DEF WorkSet, SlotSet
<1>2. from \in Nat
  BY <1>1
<1>3. WorkInterval(w, iv) = IF w.done \/ from >= iv.end THEN w
                           ELSE IF iv.end - from >= w.left
                           THEN [w EXCEPT !.at = from + w.left, !.done = TRUE]
                           ELSE [w EXCEPT !.at = iv.end, !.left = @ - (iv.end - from)]
  BY DEF WorkInterval
<1> HIDE DEF from
<1>4. CASE w.done \/ from >= iv.end
  BY <1>3, <1>4
<1>5. CASE ~ (w.done \/ from >= iv.end) /\ iv.end - from >= w.left
  <2>1. from + w.left \in Nat
    BY <1>1, <1>2
  <2> QED
    BY <1>3, <1>5, <2>1 DEF WorkSet
<1>6. CASE ~ (w.done \/ from >= iv.end) /\ ~ (iv.end - from >= w.left)
  <2>1. w.left - (iv.end - from) \in Nat
    BY <1>1, <1>2, <1>6
  <2> QED
    BY <1>1, <1>3, <1>6, <2>1 DEF WorkSet
<1> QED
  BY <1>4, <1>5, <1>6

(* The recursion over the intervals of a day has the values its equation   *)
(* says.                                                                   *)
LEMMA WorkIntervalsFacts ==
  ASSUME NEW w \in WorkSet, NEW ivs \in Seq(SlotSet)
  PROVE  /\ WorkIntervals(w, ivs) \in [0 .. Len(ivs) -> WorkSet]
         /\ WorkIntervals(w, ivs)[0] = w
         /\ \A i \in 1 .. Len(ivs) :
              WorkIntervals(w, ivs)[i] = WorkInterval(WorkIntervals(w, ivs)[i - 1], ivs[i])
<1> DEFINE n    == Len(ivs)
           step == [i \in 1 .. n |-> [v \in WorkSet |-> WorkInterval(v, ivs[i])]]
<1>1. n \in Nat /\ \A i \in 1 .. n : ivs[i] \in SlotSet
  OBVIOUS
<1> HIDE DEF n
<1>2. step \in [1 .. n -> [WorkSet -> WorkSet]]
  BY <1>1, WorkIntervalType
<1>3. IsRecursion(n, WorkSet, w, step)
  BY <1>1, <1>2 DEF IsRecursion
<1>4. \A i \in 1 .. n : \A v \in WorkSet : step[i][v] = WorkInterval(v, ivs[i])
  OBVIOUS
<1> HIDE DEF step
<1>5. PICK g \in [0 .. n -> WorkSet] : g[0] = w /\ \A i \in 1 .. n : g[i] = step[i][g[i - 1]]
  BY <1>3, RecursionHasSolution
<1>6. g = [i \in 0 .. n |-> IF i = 0 THEN w ELSE WorkInterval(g[i - 1], ivs[i])]
  <2>1. ASSUME NEW i \in 0 .. n PROVE g[i] = IF i = 0 THEN w ELSE WorkInterval(g[i - 1], ivs[i])
    <3>1. CASE i = 0
      BY <1>5, <3>1
    <3>2. CASE i # 0
      <4>1. i \in 1 .. n /\ i - 1 \in 0 .. n
        BY <1>1, <3>2
      <4>2. g[i - 1] \in WorkSet
        BY <4>1
      <4> QED
        BY <1>4, <1>5, <3>2, <4>1, <4>2
    <3> QED
      BY <3>1, <3>2
  <2> QED
    BY <2>1
<1> DEFINE s == WorkIntervals(w, ivs)
<1>7. s = [i \in 0 .. n |-> IF i = 0 THEN w ELSE WorkInterval(s[i - 1], ivs[i])]
  BY <1>6 DEF WorkIntervals, n
<1> HIDE DEF s
<1>8. s[0] = w /\ \A i \in 1 .. n : s[i] = WorkInterval(s[i - 1], ivs[i])
  BY <1>1, <1>7
<1>9. 0 .. n \subseteq {i \in 0 .. n : s[i] \in WorkSet}
  <2> DEFINE T == {i \in 0 .. n : s[i] \in WorkSet}
  <2>1. 0 \in T
    BY <1>1, <1>8
  <2>2. ASSUME NEW i \in 1 .. n, i - 1 \in T PROVE i \in T
    BY <1>1, <1>8, <2>2, WorkIntervalType
  <2> HIDE DEF T
  <2>3. 0 .. n \subseteq T
    BY <1>1, <2>1, <2>2, UpTo
  <2> QED
    BY <2>3 DEF T
<1>10. s \in [0 .. n -> WorkSet]
  BY <1>7, <1>9
<1> QED
  BY <1>8, <1>10 DEF n, s

LEMMA WorkDayType ==
  ASSUME NEW u \in Users, NEW w \in WorkSet
  PROVE  WorkDay(u, w) \in WorkSet
<1> DEFINE ivs == IntervalsOn(u, w.at)
           v   == WorkIntervals(w, ivs)[Len(ivs)]
<1>1. w.at \in Nat
  BY DEF WorkSet
<1>2. ivs \in Seq(SlotSet)
  BY <1>1, IntervalFacts
<1>3. v \in WorkSet
  <2>1. Len(ivs) \in 0 .. Len(ivs)
    BY <1>2
  <2>2. WorkIntervals(w, ivs) \in [0 .. Len(ivs) -> WorkSet]
    BY <1>2, WorkIntervalsFacts
  <2> QED
    BY <2>1, <2>2
<1>4. StartOf(DayOf(w.at) + 1) \in Nat
  <2>1. DayOf(w.at) \in Nat /\ DayOf(w.at) + 1 \in Nat
    BY <1>1, DayBounds
  <2> QED
    BY <2>1, StartOfDay
<1>5. WorkDay(u, w) = IF v.done THEN v ELSE [v EXCEPT !.at = StartOf(DayOf(w.at) + 1)]
  BY DEF WorkDay
<1> HIDE DEF v
<1> QED
  BY <1>3, <1>4, <1>5 DEF WorkSet

(* The same for the recursion over the days.                               *)
LEMMA WorkDaysFacts ==
  ASSUME NEW u \in Users, NEW t \in Nat, NEW length \in Nat
  PROVE  /\ WorkDays(u, t, length) \in [0 .. MaxDays -> WorkSet]
         /\ WorkDays(u, t, length)[0] = [at |-> t, left |-> length, done |-> length = 0]
         /\ \A i \in 1 .. MaxDays :
              WorkDays(u, t, length)[i] = WorkDay(u, WorkDays(u, t, length)[i - 1])
<1> DEFINE base == [at |-> t, left |-> length, done |-> length = 0]
           step == [i \in 1 .. MaxDays |-> [v \in WorkSet |-> WorkDay(u, v)]]
<1>1. MaxDays \in Nat /\ base \in WorkSet
  BY CalendarAssumption DEF WorkSet
<1>2. step \in [1 .. MaxDays -> [WorkSet -> WorkSet]]
  BY <1>1, WorkDayType
<1> HIDE DEF base
<1>3. IsRecursion(MaxDays, WorkSet, base, step)
  BY <1>1, <1>2 DEF IsRecursion
<1>4. \A i \in 1 .. MaxDays : \A v \in WorkSet : step[i][v] = WorkDay(u, v)
  OBVIOUS
<1> HIDE DEF step
<1>5. PICK g \in [0 .. MaxDays -> WorkSet] :
        g[0] = base /\ \A i \in 1 .. MaxDays : g[i] = step[i][g[i - 1]]
  BY <1>3, RecursionHasSolution
<1>6. g = [i \in 0 .. MaxDays |-> IF i = 0 THEN base ELSE WorkDay(u, g[i - 1])]
  <2>1. ASSUME NEW i \in 0 .. MaxDays PROVE g[i] = IF i = 0 THEN base ELSE WorkDay(u, g[i - 1])
    <3>1. CASE i = 0
      BY <1>5, <3>1
    <3>2. CASE i # 0
      <4>1. i \in 1 .. MaxDays /\ i - 1 \in 0 .. MaxDays
        BY <1>1, <3>2
      <4>2. g[i - 1] \in WorkSet
        BY <4>1
      <4> QED
        BY <1>4, <1>5, <3>2, <4>1, <4>2
    <3> QED
      BY <3>1, <3>2
  <2> QED
    BY <2>1
<1> DEFINE s == WorkDays(u, t, length)
<1>7. s = [i \in 0 .. MaxDays |-> IF i = 0 THEN base ELSE WorkDay(u, s[i - 1])]
  BY <1>6 DEF WorkDays, base
<1> HIDE DEF s
<1>8. s[0] = base /\ \A i \in 1 .. MaxDays : s[i] = WorkDay(u, s[i - 1])
  BY <1>1, <1>7
<1>9. 0 .. MaxDays \subseteq {i \in 0 .. MaxDays : s[i] \in WorkSet}
  <2> DEFINE T == {i \in 0 .. MaxDays : s[i] \in WorkSet}
  <2>1. 0 \in T
    BY <1>1, <1>8
  <2>2. ASSUME NEW i \in 1 .. MaxDays, i - 1 \in T PROVE i \in T
    BY <1>1, <1>8, <2>2, WorkDayType
  <2> HIDE DEF T
  <2>3. 0 .. MaxDays \subseteq T
    BY <1>1, <2>1, <2>2, UpTo
  <2> QED
    BY <2>3 DEF T
<1>10. s \in [0 .. MaxDays -> WorkSet]
  BY <1>7, <1>9
<1> QED
  BY <1>8, <1>10 DEF s, base

(* The ticks worked on the day of x.                                       *)
LEMMA WorkedOfDay ==
  ASSUME NEW u \in Users, NEW x \in Nat, NEW y \in Nat,
         StartOf(DayOf(x)) <= y, y < StartOf(DayOf(x) + 1)
  PROVE  Works(u, y) <=> \E i \in 1 .. Len(IntervalsOn(u, x)) :
                            IntervalsOn(u, x)[i].start <= y /\ y < IntervalsOn(u, x)[i].end
<1>1. DayOf(x) \in Nat
  BY DayBounds
<1>2. DayOf(y) = DayOf(x)
  BY <1>1, SameDay
<1>3. IntervalsOn(u, y) = IntervalsOn(u, x)
  BY <1>2, IntervalsOfDay
<1>4. Works(u, y) <=> Within(y, IntervalsOn(u, x))
  BY <1>3, WorksWithin
<1>5. DOMAIN IntervalsOn(u, x) = 1 .. Len(IntervalsOn(u, x))
  BY IntervalFacts
<1> QED
  BY <1>4, <1>5 DEF Within

(* What w holds of a work of the given length that begins at t, and that   *)
(* has come to h or not so far.                                            *)
IsWorkOf(u, t, length, h, w) ==
  /\ w \in WorkSet /\ t <= w.at /\ w.at <= h
  /\ w.done => /\ Worked(u, t, w.at) = length
               /\ length > 0 => t < w.at /\ Works(u, w.at - 1)
  /\ ~ w.done => w.left > 0 /\ w.left + Worked(u, t, w.at) = length

LEMMA IntervalWorked ==
  ASSUME NEW u \in Users, NEW x \in Nat, NEW t \in Nat, NEW length \in Nat, NEW w,
         IsWorkOf(u, t, length, StartOf(DayOf(x) + 1), w), ~ w.done,
         StartOf(DayOf(x)) <= w.at,
         NEW i \in 1 .. Len(IntervalsOn(u, x)),
         \A j \in 1 .. i - 1 : IntervalsOn(u, x)[j].end <= w.at
  PROVE  LET v == WorkInterval(w, IntervalsOn(u, x)[i])
         IN /\ IsWorkOf(u, t, length, StartOf(DayOf(x) + 1), v)
            /\ ~ v.done => /\ StartOf(DayOf(x)) <= v.at
                           /\ \A j \in 1 .. i : IntervalsOn(u, x)[j].end <= v.at
<1> DEFINE ivs  == IntervalsOn(u, x)
           a    == StartOf(DayOf(x))
           e    == StartOf(DayOf(x) + 1)
           iv   == ivs[i]
           from == IF w.at > iv.start THEN w.at ELSE iv.start
           v    == WorkInterval(w, iv)
<1>1. a \in Nat /\ e \in Nat
  <2>1. DayOf(x) \in Nat
    BY DayBounds
  <2>2. DayOf(x) + 1 \in Nat
    BY <2>1
  <2> QED
    BY <2>1, <2>2, StartOfDay
<1>2. /\ Len(ivs) \in Nat /\ i \in 1 .. Len(ivs)
      /\ \A k \in 1 .. Len(ivs) :
           /\ ivs[k].start \in Nat /\ ivs[k].end \in Nat
           /\ ivs[k].start < ivs[k].end /\ a <= ivs[k].start /\ ivs[k].end <= e
           /\ \A j \in 1 .. k - 1 : ivs[j].start <= ivs[k].start
  <2>1. /\ ivs \in Seq(SlotSet) /\ i \in 1 .. Len(ivs)
        /\ \A k \in 1 .. Len(ivs) :
           /\ ivs[k] \in SlotSet
           /\ ivs[k].start < ivs[k].end /\ a <= ivs[k].start /\ ivs[k].end <= e
           /\ \A j \in 1 .. k - 1 : ivs[j].start <= ivs[k].start
    BY IntervalFacts
  <2> HIDE DEF ivs, a, e
  <2> QED
    BY <2>1 DEF SlotSet
<1>3. \A y \in Nat : a <= y /\ y < e =>
        (Works(u, y) <=> \E k \in 1 .. Len(ivs) : ivs[k].start <= y /\ y < ivs[k].end)
  BY WorkedOfDay
<1>4. /\ w \in WorkSet /\ w.at \in Nat /\ w.left \in Nat /\ t <= w.at /\ w.at <= e
      /\ w.left > 0 /\ w.left + Worked(u, t, w.at) = length /\ a <= w.at
      /\ \A j \in 1 .. i - 1 : ivs[j].end <= w.at
  BY DEF IsWorkOf, WorkSet
<1>5. v = IF from >= iv.end THEN w
          ELSE IF iv.end - from >= w.left
          THEN [w EXCEPT !.at = from + w.left, !.done = TRUE]
          ELSE [w EXCEPT !.at = iv.end, !.left = @ - (iv.end - from)]
  BY DEF WorkInterval
<1>6. v \in WorkSet
  <2>1. iv \in SlotSet
    BY IntervalFacts
  <2> QED
    BY <1>4, <2>1, WorkIntervalType
<1> HIDE DEF ivs, a, e, v
<1>7. iv.start \in Nat /\ iv.end \in Nat /\ iv.start < iv.end /\ a <= iv.start /\ iv.end <= e
  BY <1>2
<1>8. /\ from \in Nat /\ w.at <= from /\ iv.start <= from
      /\ from = w.at \/ from = iv.start
  BY <1>4, <1>7
<1> HIDE DEF from
<1>9. Worked(u, w.at, from) = 0
  <2>1. ASSUME NEW z \in w.at .. from - 1, Works(u, z) PROVE FALSE
    <3> HIDE DEF iv
    <3>1. z \in Nat /\ w.at <= z /\ z < from
      BY <1>4, <1>8
    <3>2. from = iv.start
      BY <1>4, <1>8, <3>1
    <3>3. z < iv.start /\ a <= z /\ z < e
      BY <1>1, <1>4, <1>7, <3>1, <3>2
    <3>4. PICK k \in 1 .. Len(ivs) : ivs[k].start <= z /\ z < ivs[k].end
      BY <1>3, <2>1, <3>1, <3>3
    <3>5. ivs[k].start \in Nat /\ ivs[k].end \in Nat
      BY <1>2
    <3>6. ~ (k \in 1 .. i - 1)
      BY <1>4, <3>1, <3>4, <3>5
    <3>7. k = i \/ i \in 1 .. k - 1
      BY <1>2, <3>6
    <3>8. iv.start <= ivs[k].start
      BY <1>2, <1>7, <3>7 DEF iv
    <3> QED
      BY <1>7, <3>1, <3>3, <3>4, <3>5, <3>8
  <2> QED
    BY <1>4, <1>8, <2>1, NothingWorked
<1> HIDE DEF iv
<1>10. ASSUME NEW p \in Nat, from <= p, p <= iv.end
       PROVE  /\ Worked(u, t, p) = Worked(u, t, w.at) + (p - from)
              /\ \A z \in from .. p - 1 : Works(u, z)
  <2>1. \A z \in from .. p - 1 : Works(u, z)
    <3> SUFFICES ASSUME NEW z \in from .. p - 1 PROVE Works(u, z)
      OBVIOUS
    <3>1. z \in Nat /\ from <= z /\ z < p
      BY <1>8, <1>10
    <3>2. a <= z /\ z < e /\ iv.start <= z /\ z < iv.end
      BY <1>1, <1>7, <1>8, <1>10, <3>1
    <3> QED
      BY <1>2, <1>3, <3>1, <3>2 DEF iv
  <2>2. Worked(u, from, p) = p - from
    BY <1>8, <1>10, <2>1, AllWorked
  <2>3. Worked(u, w.at, p) = Worked(u, w.at, from) + Worked(u, from, p)
    BY <1>4, <1>8, <1>10, WorkedAddsUp
  <2>4. Worked(u, t, p) = Worked(u, t, w.at) + Worked(u, w.at, p)
    <3>1. w.at <= p
      BY <1>4, <1>8, <1>10
    <3> QED
      BY <1>4, <3>1, WorkedAddsUp
  <2>5. Worked(u, t, w.at) \in Nat
    BY <1>4, WorkedType
  <2> QED
    BY <1>8, <1>9, <1>10, <2>1, <2>2, <2>3, <2>4, <2>5
<1>11. Worked(u, t, w.at) \in Nat
  BY <1>4, WorkedType
<1>12. /\ IsWorkOf(u, t, length, e, v)
       /\ ~ v.done => a <= v.at /\ \A j \in 1 .. i : ivs[j].end <= v.at
  <2>1. CASE from >= iv.end
    <3>1. v = w /\ from = w.at /\ iv.end <= w.at
      BY <1>5, <1>7, <1>8, <2>1
    <3>2. IsWorkOf(u, t, length, e, v)
      BY <3>1 DEF e
    <3>3. \A j \in 1 .. i : j = i \/ j \in 1 .. i - 1
      BY <1>2
    <3> QED
      BY <1>4, <3>1, <3>2, <3>3 DEF iv
  <2>2. CASE ~ (from >= iv.end) /\ iv.end - from >= w.left
    <3> DEFINE p == from + w.left
    <3>1. p \in Nat /\ from < p /\ p <= iv.end /\ p - from = w.left
      BY <1>4, <1>7, <1>8, <2>2
    <3>2. v.at = p /\ v.done
      BY <1>4, <1>5, <2>2 DEF WorkSet
    <3> HIDE DEF p
    <3>3. from <= p /\ p - 1 \in from .. p - 1 /\ t < p /\ p <= e
      <4>1. from <= p /\ p - 1 \in from .. p - 1
        BY <1>8, <3>1
      <4>2. t < p
        BY <1>4, <1>8, <3>1
      <4>3. p <= e
        BY <1>1, <1>7, <3>1
      <4> QED
        BY <4>1, <4>2, <4>3
    <3>4. Worked(u, t, p) = Worked(u, t, w.at) + (p - from) /\ Works(u, p - 1)
      BY <1>10, <3>1, <3>3
    <3>5. Worked(u, t, p) = length
      BY <1>4, <1>11, <3>1, <3>4
    <3>6. t <= p
      BY <3>1, <3>3
    <3> QED
      BY <1>6, <3>2, <3>3, <3>4, <3>5, <3>6 DEF IsWorkOf
  <2>3. CASE ~ (from >= iv.end) /\ ~ (iv.end - from >= w.left)
    <3> DEFINE p == iv.end
    <3>1. p \in Nat /\ from <= p /\ p <= iv.end /\ t <= p /\ p <= e /\ a <= p /\ w.at <= p
      BY <1>1, <1>4, <1>7, <1>8, <2>3
    <3>2. v.at = p /\ ~ v.done /\ v.left = w.left - (p - from)
      BY <1>4, <1>5, <2>3 DEF WorkSet
    <3>3. Worked(u, t, p) = Worked(u, t, w.at) + (p - from)
      BY <1>10, <3>1
    <3>4. v.left > 0
      BY <1>4, <1>7, <1>8, <2>3, <3>2
    <3> HIDE DEF p
    <3>5. v.left + Worked(u, t, p) = length
      BY <1>4, <1>8, <1>11, <3>1, <3>2, <3>3
    <3>6. IsWorkOf(u, t, length, e, v)
      BY <1>6, <3>1, <3>2, <3>4, <3>5 DEF IsWorkOf
    <3>7. \A j \in 1 .. i : ivs[j].end <= p
      <4>1. \A j \in 1 .. i : j = i \/ j \in 1 .. i - 1
        BY <1>2
      <4>2. \A j \in 1 .. i - 1 : ivs[j].end <= p
        <5> SUFFICES ASSUME NEW j \in 1 .. i - 1 PROVE ivs[j].end <= p
          OBVIOUS
        <5>1. ivs[j].end \in Nat /\ ivs[j].end <= w.at
          BY <1>2, <1>4
        <5> QED
          BY <1>4, <3>1, <5>1
      <4>3. ivs[i].end <= p
        BY <1>7, <3>1 DEF p, iv
      <4> QED
        BY <4>1, <4>2, <4>3
    <3> QED
      BY <3>1, <3>2, <3>6, <3>7
  <2> QED
    BY <2>1, <2>2, <2>3
<1> QED
  BY <1>12 DEF ivs, a, e, v, iv

(* The work that is done is left alone.                                    *)
LEMMA DoneStaysDone ==
  ASSUME NEW u \in Users, NEW w \in WorkSet, w.done
  PROVE  WorkDay(u, w) = w
<1> DEFINE ivs == IntervalsOn(u, w.at)
           s   == WorkIntervals(w, ivs)
           T   == {i \in 0 .. Len(ivs) : s[i] = w}
<1>1. ivs \in Seq(SlotSet) /\ Len(ivs) \in Nat
  <2>1. w.at \in Nat
    BY DEF WorkSet
  <2>2. ivs \in Seq(SlotSet)
    BY <2>1, IntervalFacts
  <2> HIDE DEF ivs
  <2> QED
    BY <2>2
<1>2. s[0] = w /\ \A i \in 1 .. Len(ivs) : s[i] = WorkInterval(s[i - 1], ivs[i])
  BY <1>1, WorkIntervalsFacts
<1> HIDE DEF ivs, s
<1>3. 0 \in T
  BY <1>1, <1>2
<1>4. ASSUME NEW i \in 1 .. Len(ivs), i - 1 \in T PROVE i \in T
  <2>1. s[i] = WorkInterval(w, ivs[i])
    BY <1>2, <1>4
  <2>2. WorkInterval(w, ivs[i]) = w
    BY DEF WorkInterval
  <2> QED
    BY <1>1, <2>1, <2>2
<1>5. 0 .. Len(ivs) \subseteq T
  <2> HIDE DEF T
  <2> QED
    BY <1>1, <1>3, <1>4, UpTo
<1>6. s[Len(ivs)] = w
  BY <1>1, <1>5
<1> QED
  BY <1>6 DEF WorkDay, ivs, s

(* A day takes the work to its end, or to the start of the next day.       *)
LEMMA DayWorked ==
  ASSUME NEW u \in Users, NEW t \in Nat, NEW length \in Nat, NEW w,
         IsWorkOf(u, t, length, w.at, w), ~ w.done
  PROVE  LET e == StartOf(DayOf(w.at) + 1)
             v == WorkDay(u, w)
         IN IsWorkOf(u, t, length, e, v) /\ (~ v.done => v.at = e)
<1> DEFINE x   == w.at
           a   == StartOf(DayOf(x))
           e   == StartOf(DayOf(x) + 1)
           ivs == IntervalsOn(u, x)
           s   == WorkIntervals(w, ivs)
           n   == Len(ivs)
           T   == {i \in 0 .. n :
                     /\ IsWorkOf(u, t, length, e, s[i])
                     /\ ~ s[i].done => /\ a <= s[i].at
                                       /\ \A j \in 1 .. i : ivs[j].end <= s[i].at}
<1>1. w \in WorkSet /\ x \in Nat /\ t <= x
  BY DEF IsWorkOf, WorkSet
<1>2. a \in Nat /\ e \in Nat /\ a <= x /\ x < e
  <2>1. DayOf(x) \in Nat /\ a <= x /\ x < e
    BY <1>1, DayBounds
  <2>2. DayOf(x) + 1 \in Nat
    BY <2>1
  <2> QED
    BY <2>1, <2>2, StartOfDay
<1>3. ivs \in Seq(SlotSet)
  BY <1>1, IntervalFacts
<1>4. /\ s \in [0 .. n -> WorkSet] /\ s[0] = w
      /\ \A i \in 1 .. n : s[i] = WorkInterval(s[i - 1], ivs[i])
  BY <1>1, <1>3, WorkIntervalsFacts
<1>5. n \in Nat
  <2> HIDE DEF ivs
  <2> QED
    BY <1>3
<1>6. 0 \in T
  <2>1. IsWorkOf(u, t, length, e, w)
    <3> HIDE DEF e
    <3>1. w.at <= e
      BY <1>1, <1>2
    <3> QED
      BY <3>1 DEF IsWorkOf
  <2>2. 1 .. 0 = {}
    OBVIOUS
  <2> HIDE DEF e, s, n, ivs, a
  <2> QED
    BY <1>2, <1>4, <1>5, <2>1, <2>2
<1>7. ASSUME NEW i \in 1 .. n, i - 1 \in T PROVE i \in T
  <2> DEFINE p == s[i - 1]
  <2>1. IsWorkOf(u, t, length, e, p) /\ (~ p.done => a <= p.at /\ \A j \in 1 .. i - 1 : ivs[j].end <= p.at)
    BY <1>7
  <2>2. s[i] = WorkInterval(p, ivs[i]) /\ i \in 0 .. n
    BY <1>4, <1>5
  <2>3. CASE p.done
    <3>1. s[i] = p
      BY <2>2, <2>3 DEF WorkInterval
    <3> HIDE DEF s, n, ivs, a, e
    <3> QED
      BY <2>1, <2>2, <2>3, <3>1
  <2>4. CASE ~ p.done
    <3> HIDE DEF s, T
    <3>1. /\ IsWorkOf(u, t, length, e, WorkInterval(p, ivs[i]))
          /\ ~ WorkInterval(p, ivs[i]).done =>
               /\ a <= WorkInterval(p, ivs[i]).at
               /\ \A j \in 1 .. i : ivs[j].end <= WorkInterval(p, ivs[i]).at
      BY <1>1, <2>1, <2>4, IntervalWorked
    <3> HIDE DEF n, ivs, a, e, p
    <3> QED
      BY <2>2, <3>1 DEF T
  <2> QED
    BY <2>3, <2>4
<1>8. 0 .. n \subseteq T
  <2> HIDE DEF T, n
  <2> QED
    BY <1>5, <1>6, <1>7, UpTo
<1> DEFINE v == s[n]
<1>9. /\ IsWorkOf(u, t, length, e, v)
      /\ ~ v.done => a <= v.at /\ \A j \in 1 .. n : ivs[j].end <= v.at
  BY <1>5, <1>8
<1>10. WorkDay(u, w) = IF v.done THEN v ELSE [v EXCEPT !.at = e]
  BY DEF WorkDay
<1>11. \A z \in a .. e - 1 : Works(u, z) <=> \E k \in 1 .. n : ivs[k].start <= z /\ z < ivs[k].end
  <2>1. \A z \in Nat : a <= z /\ z < e =>
          (Works(u, z) <=> \E k \in 1 .. n : ivs[k].start <= z /\ z < ivs[k].end)
    BY <1>1, WorkedOfDay
  <2>2. \A z \in a .. e - 1 : z \in Nat /\ a <= z /\ z < e
    <3> HIDE DEF a, e
    <3> QED
      BY <1>2
  <2> HIDE DEF a, e, n, ivs
  <2> QED
    BY <2>1, <2>2
<1>12. \A k \in 1 .. n : ivs[k].end \in Nat
  <2>1. \A k \in 1 .. n : ivs[k] \in SlotSet
    BY <1>1, IntervalFacts
  <2> HIDE DEF ivs, n
  <2> QED
    BY <2>1 DEF SlotSet
<1> HIDE DEF x, a, e, ivs, s, n, T, v
<1>13. CASE v.done
  BY <1>9, <1>10, <1>13 DEF e, x
<1>14. CASE ~ v.done
  <2>1. /\ v \in WorkSet /\ v.at \in Nat /\ v.left \in Nat /\ t <= v.at /\ v.at <= e
        /\ v.left > 0 /\ v.left + Worked(u, t, v.at) = length /\ a <= v.at
        /\ \A j \in 1 .. n : ivs[j].end <= v.at
    BY <1>9, <1>14 DEF IsWorkOf, WorkSet
  <2>2. Worked(u, v.at, e) = 0
    <3>1. ASSUME NEW z \in v.at .. e - 1, Works(u, z) PROVE FALSE
      <4>1. z \in a .. e - 1 /\ v.at <= z
        BY <1>2, <2>1
      <4>2. PICK k \in 1 .. n : ivs[k].start <= z /\ z < ivs[k].end
        BY <1>11, <3>1, <4>1
      <4>3. ivs[k].end <= v.at /\ ivs[k].end \in Nat
        BY <1>12, <2>1
      <4> QED
        BY <2>1, <4>1, <4>2, <4>3
    <3> QED
      BY <1>2, <2>1, <3>1, NothingWorked
  <2>3. Worked(u, t, e) = Worked(u, t, v.at) + Worked(u, v.at, e)
    BY <1>2, <2>1, WorkedAddsUp
  <2>4. Worked(u, t, v.at) \in Nat
    BY <2>1, WorkedType
  <2>5. Worked(u, t, e) = Worked(u, t, v.at)
    BY <2>2, <2>3, <2>4
  <2> DEFINE q == [v EXCEPT !.at = e]
  <2>6. q \in WorkSet /\ q.at = e /\ q.left = v.left /\ q.done = v.done
    BY <1>2, <2>1 DEF WorkSet
  <2>7. t <= e /\ e <= e
    BY <1>2, <2>1
  <2> HIDE DEF q
  <2>8. IsWorkOf(u, t, length, e, q)
    BY <1>14, <2>1, <2>5, <2>6, <2>7 DEF IsWorkOf
  <2>9. WorkDay(u, w) = q
    BY <1>10, <1>14 DEF q
  <2> QED
    BY <2>6, <2>8, <2>9 DEF e, x
<1> QED
  BY <1>13, <1>14

LEMMA HorizonFacts ==
  ASSUME NEW t \in Nat
  PROVE  /\ Horizon(t) \in Nat /\ t < Horizon(t) /\ Cursor(t, MaxDays) = Horizon(t)
<1>1. MaxDays \in Nat /\ MaxDays # 0
  BY CalendarAssumption
<1>2. DayOf(t) \in Nat /\ t < StartOf(DayOf(t) + 1)
  BY DayBounds
<1> DEFINE d == DayOf(t)
<1> HIDE DEF d
<1>3. d + 1 \in Nat /\ d + MaxDays \in Nat /\ d + 1 <= d + MaxDays
  BY <1>1, <1>2 DEF d
<1>4. StartOf(d + 1) <= StartOf(d + MaxDays) /\ StartOf(d + 1) \in Nat /\ StartOf(d + MaxDays) \in Nat
  BY <1>3, StartsAscend, StartOfDay
<1>5. Horizon(t) = StartOf(d + MaxDays) /\ Cursor(t, MaxDays) = StartOf(d + MaxDays)
  BY <1>1 DEF Horizon, Cursor, d
<1>6. t < StartOf(d + 1)
  BY <1>2 DEF d
<1> QED
  BY <1>4, <1>5, <1>6

(* addDurationWithinWorkingHours ends after exactly the working time it    *)
(* adds, with a tick that is worked; when the days it goes through have    *)
(* less, it adds the length as it is (scheduler.service.ts:110).           *)
THEOREM AddDurationIsExact ==
  ASSUME NEW u \in Users, NEW t \in Nat, NEW length \in Nat
  PROVE  /\ AddDuration(u, t, length) \in Nat /\ t <= AddDuration(u, t, length)
         /\ IF Worked(u, t, Horizon(t)) >= length
            THEN /\ Worked(u, t, AddDuration(u, t, length)) = length
                 /\ length > 0 => Works(u, AddDuration(u, t, length) - 1)
            ELSE AddDuration(u, t, length) = t + length
<1> DEFINE s == WorkDays(u, t, length)
           T == {i \in 0 .. MaxDays : /\ IsWorkOf(u, t, length, Cursor(t, i), s[i])
                                      /\ ~ s[i].done => s[i].at = Cursor(t, i)}
<1>1. MaxDays \in Nat
  BY CalendarAssumption
<1>2. /\ s \in [0 .. MaxDays -> WorkSet]
      /\ s[0] = [at |-> t, left |-> length, done |-> length = 0]
      /\ \A i \in 1 .. MaxDays : s[i] = WorkDay(u, s[i - 1])
  BY WorkDaysFacts
<1> HIDE DEF s
<1>3. 0 \in T
  <2>1. Cursor(t, 0) = t /\ 0 \in 0 .. MaxDays
    BY <1>1 DEF Cursor
  <2>2. Worked(u, t, t) = 0
    <3>1. t .. t - 1 = {}
      OBVIOUS
    <3> QED
      BY <3>1, NothingWorked
  <2>3. s[0] \in WorkSet /\ s[0].at = t /\ s[0].left = length /\ (s[0].done <=> length = 0) /\ t <= t
    <3>1. s[0] \in WorkSet
      BY <1>2, <2>1
    <3>2. s[0].at = t /\ s[0].left = length
      BY <1>2
    <3>3. s[0].done <=> length = 0
      <4>1. s[0].done = (length = 0)
        BY <1>2
      <4> QED
        BY <4>1
    <3> QED
      BY <3>1, <3>2, <3>3
  <2>4. IsWorkOf(u, t, length, t, s[0])
    BY <2>2, <2>3 DEF IsWorkOf
  <2> QED
    BY <2>1, <2>3, <2>4
<1>4. ASSUME NEW i \in 1 .. MaxDays, i - 1 \in T PROVE i \in T
  <2> DEFINE w == s[i - 1]
             x == Cursor(t, i - 1)
             e == Cursor(t, i)
  <2>1. i - 1 \in Nat /\ (i - 1) + 1 = i /\ i \in 0 .. MaxDays /\ i - 1 \in 0 .. MaxDays
    BY <1>1
  <2>2. x \in Nat /\ x < e /\ e \in Nat /\ StartOf(DayOf(x) + 1) = e
    <3>1. i \in Nat
      BY <2>1
    <3> QED
      BY <2>1, <3>1, CursorFacts
  <2>3. IsWorkOf(u, t, length, x, w) /\ (~ w.done => w.at = x)
    BY <1>4
  <2>4. s[i] = WorkDay(u, w)
    BY <1>2
  <2>5. w \in WorkSet /\ w.at \in Nat
    BY <2>3 DEF IsWorkOf, WorkSet
  <2> HIDE DEF w, x, e, T
  <2>6. CASE w.done
    <3>1. s[i] = w
      BY <2>4, <2>5, <2>6, DoneStaysDone
    <3>2. w.at <= e
      BY <2>2, <2>3, <2>5 DEF IsWorkOf
    <3>3. IsWorkOf(u, t, length, e, s[i])
      BY <2>3, <3>1, <3>2 DEF IsWorkOf
    <3> QED
      BY <2>1, <2>6, <3>1, <3>3 DEF T, e
  <2>7. CASE ~ w.done
    <3>1. IsWorkOf(u, t, length, w.at, w)
      BY <2>3, <2>7
    <3>2. IsWorkOf(u, t, length, e, s[i]) /\ (~ s[i].done => s[i].at = e)
      BY <2>2, <2>3, <2>4, <2>7, <3>1, DayWorked
    <3> QED
      BY <2>1, <3>2 DEF T, e
  <2> QED
    BY <2>6, <2>7
<1>5. 0 .. MaxDays \subseteq T
  <2> HIDE DEF T
  <2> QED
    BY <1>1, <1>3, <1>4, UpTo
<1> DEFINE w == s[MaxDays]
           h == Horizon(t)
<1>6. IsWorkOf(u, t, length, h, w) /\ (~ w.done => w.at = h) /\ h \in Nat /\ t <= h
  <2>1. MaxDays \in T
    BY <1>1, <1>5
  <2>2. Cursor(t, MaxDays) = h /\ h \in Nat /\ t < h
    BY HorizonFacts
  <2> HIDE DEF h
  <2> QED
    BY <2>1, <2>2
<1>7. AddDuration(u, t, length) = IF w.done THEN w.at ELSE t + length
  BY DEF AddDuration, s
<1> HIDE DEF w, h
<1>8. w.at \in Nat /\ w.left \in Nat /\ t <= w.at /\ w.at <= h
  BY <1>6 DEF IsWorkOf, WorkSet
<1>9. CASE w.done
  <2>1. Worked(u, t, h) = Worked(u, t, w.at) + Worked(u, w.at, h)
    BY <1>6, <1>8, WorkedAddsUp
  <2>2. Worked(u, w.at, h) \in Nat
    BY <1>6, <1>8, WorkedType
  <2>3. Worked(u, t, w.at) = length /\ (length > 0 => Works(u, w.at - 1))
    BY <1>6, <1>9 DEF IsWorkOf
  <2>4. Worked(u, t, h) >= length
    BY <2>1, <2>2, <2>3
  <2> QED
    BY <1>7, <1>8, <1>9, <2>3, <2>4 DEF h
<1>10. CASE ~ w.done
  <2>1. w.left > 0 /\ w.left + Worked(u, t, h) = length
    BY <1>6, <1>10 DEF IsWorkOf
  <2>2. Worked(u, t, h) \in Nat
    BY <1>6, WorkedType
  <2>3. ~ (Worked(u, t, h) >= length)
    BY <1>8, <2>1, <2>2
  <2>4. AddDuration(u, t, length) = t + length /\ t + length \in Nat /\ t <= t + length
    BY <1>7, <1>10
  <2> QED
    BY <2>3, <2>4 DEF h
<1> QED
  BY <1>9, <1>10

-----------------------------------------------------------------------------
(* The plan that a call works on is a plan again.                          *)

ShiftOf == {s \in ShiftSet : s.start <= s.end}

(* One shift moved behind the one before it.                               *)
Moved(s, prev) == [s EXCEPT !.start = prev.end, !.end = IF @ < prev.end THEN prev.end + 1 ELSE @]

LEMMA MovedType ==
  ASSUME NEW s \in ShiftOf, NEW prev \in ShiftOf
  PROVE  Moved(s, prev) \in ShiftOf
<1>1. s.user \in Users /\ s.start \in Nat /\ s.end \in Nat /\ prev.end \in Nat
  BY DEF ShiftOf, ShiftSet
<1> DEFINE e == IF s.end < prev.end THEN prev.end + 1 ELSE s.end
<1>2. e \in Nat /\ prev.end <= e
  BY <1>1
<1>3. Moved(s, prev) = [s EXCEPT !.start = prev.end, !.end = e]
  BY DEF Moved
<1> HIDE DEF e
<1>4. s \in ShiftSet
  BY DEF ShiftOf
<1> DEFINE q == [s EXCEPT !.start = prev.end, !.end = e]
<1>5. q \in ShiftSet /\ q.start = prev.end /\ q.end = e
  BY <1>1, <1>2, <1>4 DEF ShiftSet
<1> QED
  BY <1>2, <1>3, <1>5 DEF ShiftOf

LEMMA SerializedFacts ==
  ASSUME NEW p \in Plans
  PROVE  /\ Serialized(p) \in Seq(ShiftSet)
         /\ Len(Serialized(p)) = Len(p) /\ 1 \in DOMAIN Serialized(p)
         /\ \A i \in DOMAIN Serialized(p) : Serialized(p)[i].start <= Serialized(p)[i].end
<1> DEFINE n         == Len(p)
           S         == ShiftOf
           Fix(i, q) == IF p[i].start >= q.end THEN p[i] ELSE Moved(p[i], q)
           step      == [k \in 1 .. n - 1 |-> [q \in S |-> Fix(k + 1, q)]]
<1>1. n \in Nat /\ n >= 1 /\ DOMAIN p = 1 .. n /\ \A i \in 1 .. n : p[i] \in S
  <2>1. p \in Seq(ShiftSet) /\ p # <<>> /\ \A i \in DOMAIN p : p[i].start <= p[i].end
    BY PlanAssumption
  <2>2. n \in Nat /\ n >= 1 /\ DOMAIN p = 1 .. n
    BY <2>1
  <2>3. \A i \in 1 .. n : p[i] \in ShiftSet
    BY <2>1
  <2> HIDE DEF n
  <2> QED
    BY <2>1, <2>2, <2>3 DEF ShiftOf
<1>2. ASSUME NEW i \in 1 .. n, NEW q \in S PROVE Fix(i, q) \in S
  <2>1. p[i] \in S
    BY <1>1
  <2> QED
    BY <2>1, MovedType
<1> HIDE DEF n, S, Fix
<1>3. step \in [1 .. n - 1 -> [S -> S]]
  <2>1. \A k \in 1 .. n - 1 : k + 1 \in 1 .. n
    BY <1>1
  <2> QED
    BY <1>2, <2>1
<1>4. \A k \in 1 .. n - 1 : \A q \in S : step[k][q] = Fix(k + 1, q)
  OBVIOUS
<1>5. IsRecursion(n - 1, S, p[1], step)
  <2>1. n - 1 \in Nat /\ p[1] \in S
    BY <1>1
  <2> HIDE DEF step
  <2> QED
    BY <1>3, <2>1 DEF IsRecursion
<1> HIDE DEF step
<1>6. PICK g \in [0 .. n - 1 -> S] :
        g[0] = p[1] /\ \A k \in 1 .. n - 1 : g[k] = step[k][g[k - 1]]
  BY <1>5, RecursionHasSolution
<1> DEFINE h == [i \in DOMAIN p |-> g[i - 1]]
<1>7. h = [i \in DOMAIN p |-> IF i = 1 \/ p[i].start >= h[i - 1].end THEN p[i] ELSE Moved(p[i], h[i - 1])]
  <2>1. ASSUME NEW i \in DOMAIN p
        PROVE  h[i] = IF i = 1 \/ p[i].start >= h[i - 1].end THEN p[i] ELSE Moved(p[i], h[i - 1])
    <3>1. CASE i = 1
      BY <1>6, <3>1
    <3>2. CASE i # 1
      <4>1. /\ i - 1 \in 1 .. n - 1 /\ (i - 1) + 1 = i /\ i - 1 \in DOMAIN p
            /\ (i - 1) - 1 \in 0 .. n - 1
        BY <1>1, <3>2
      <4>2. h[i] = g[i - 1] /\ h[i - 1] = g[(i - 1) - 1] /\ g[(i - 1) - 1] \in S
        BY <1>6, <4>1
      <4>3. g[i - 1] = Fix(i, g[(i - 1) - 1])
        BY <1>4, <1>6, <4>1, <4>2
      <4> QED
        BY <3>2, <4>2, <4>3 DEF Fix
    <3> QED
      BY <3>1, <3>2
  <2> QED
    BY <2>1
<1> HIDE DEF h
<1> DEFINE s == Serialized(p)
<1>8. s = [i \in DOMAIN p |-> IF i = 1 \/ p[i].start >= s[i - 1].end THEN p[i] ELSE Moved(p[i], s[i - 1])]
  BY <1>7 DEF Serialized, Moved
<1> HIDE DEF s
<1>9. DOMAIN s = 1 .. n
  BY <1>1, <1>8
<1>10. s[1] \in S /\ \A i \in 2 .. n : s[i] = Fix(i, s[i - 1])
  <2>1. 1 \in DOMAIN p /\ \A i \in 2 .. n : i \in DOMAIN p /\ i # 1
    BY <1>1
  <2>2. s[1] = p[1]
    BY <1>8, <2>1
  <2>3. \A i \in 2 .. n : s[i] = Fix(i, s[i - 1])
    BY <1>8, <2>1 DEF Fix
  <2> QED
    BY <1>1, <2>2, <2>3
<1>11. \A i \in 1 .. n : s[i] \in S
  <2> DEFINE T == {k \in 0 .. n - 1 : s[k + 1] \in S}
  <2>1. n - 1 \in Nat
    BY <1>1
  <2>2. 0 \in T
    BY <2>1, <1>10
  <2>3. ASSUME NEW k \in 1 .. n - 1, k - 1 \in T PROVE k \in T
    <3>1. /\ k + 1 \in 2 .. n /\ (k + 1) - 1 = k /\ (k - 1) + 1 = k
          /\ k + 1 \in 1 .. n /\ k \in 0 .. n - 1
      BY <1>1
    <3>2. s[k] \in S
      BY <2>3, <3>1
    <3>3. s[k + 1] = Fix(k + 1, s[k])
      BY <1>10, <3>1
    <3>4. s[k + 1] \in S
      BY <1>2, <3>1, <3>2, <3>3
    <3> QED
      BY <3>1, <3>4
  <2>4. 0 .. n - 1 \subseteq T
    <3> HIDE DEF T
    <3> QED
      BY <2>1, <2>2, <2>3, UpTo
  <2>5. \A i \in 1 .. n : i - 1 \in 0 .. n - 1 /\ (i - 1) + 1 = i
    BY <1>1
  <2> QED
    BY <2>4, <2>5
<1>12. \A i \in 1 .. n : s[i] \in ShiftSet /\ s[i].start <= s[i].end
  BY <1>11 DEF S, ShiftOf
<1>13. s \in Seq(ShiftSet)
  <2>1. s \in [1 .. n -> ShiftSet]
    BY <1>8, <1>9, <1>12
  <2> QED
    BY <1>1, <2>1
<1>14. Len(s) = n /\ 1 \in 1 .. n
  BY <1>1, <1>9, <1>13
<1> QED
  BY <1>9, <1>12, <1>13, <1>14 DEF n, s

-----------------------------------------------------------------------------
(* Max of a finite set of natural numbers, and of two numbers.             *)

LEMMA FiniteIsBounded ==
  ASSUME NEW S, S \subseteq Nat, IsFiniteSet(S)
  PROVE  \E b \in Nat : \A y \in S : y <= b
<1>1. PICK seq \in Seq(S) : \A y \in S : \E k \in 1 .. Len(seq) : seq[k] = y
  BY DEF IsFiniteSet
<1> DEFINE n == Len(seq)
           T == {k \in 0 .. n : \E b \in Nat : \A j \in 1 .. k : seq[j] <= b}
<1>2. n \in Nat /\ \A k \in 1 .. n : seq[k] \in Nat
  <2>1. n \in Nat /\ \A k \in 1 .. n : seq[k] \in S
    BY <1>1
  <2> QED
    BY <2>1
<1> HIDE DEF n
<1>3. 0 \in T
  BY <1>2
<1>4. ASSUME NEW k \in 1 .. n, k - 1 \in T PROVE k \in T
  <2>1. PICK b \in Nat : \A j \in 1 .. k - 1 : seq[j] <= b
    BY <1>4
  <2>2. \A j \in 1 .. k : seq[j] \in Nat /\ (j = k \/ j \in 1 .. k - 1)
    BY <1>2
  <2>3. seq[k] \in Nat
    BY <1>2
  <2>4. PICK m \in Nat : b <= m /\ seq[k] <= m
    <3> DEFINE m == IF b <= seq[k] THEN seq[k] ELSE b
    <3>1. m \in Nat /\ b <= m /\ seq[k] <= m
      BY <2>3
    <3> QED
      BY <3>1
  <2>5. \A j \in 1 .. k : seq[j] <= m
    BY <2>1, <2>2, <2>4
  <2> QED
    BY <1>2, <2>5
<1>5. 0 .. n \subseteq T
  <2> HIDE DEF T
  <2> QED
    BY <1>2, <1>3, <1>4, UpTo
<1>6. PICK b \in Nat : \A j \in 1 .. n : seq[j] <= b
  <2>1. n \in T
    <3> HIDE DEF T
    <3> QED
      BY <1>2, <1>5
  <2> QED
    BY <2>1
<1> QED
  BY <1>1, <1>6 DEF n

LEMMA MaxIsGreatest ==
  ASSUME NEW S, S \subseteq Nat, IsFiniteSet(S), S # {}
  PROVE  Max(S) \in S /\ \A y \in S : y <= Max(S)
<1>1. PICK b \in Nat : \A y \in S : y <= b
  BY FiniteIsBounded
<1> DEFINE T == {b - y : y \in S}
<1>2. T \subseteq Nat /\ T # {}
  <2>1. \A y \in S : b - y \in Nat
    BY <1>1
  <2> QED
    BY <2>1
<1>3. PICK m \in T : \A z \in T : m <= z
  <2> HIDE DEF T
  <2> QED
    BY <1>2, LeastNatural
<1>4. PICK x \in S : m = b - x
  BY <1>3
<1>5. \A y \in S : x >= y
  <2> SUFFICES ASSUME NEW y \in S PROVE x >= y
    OBVIOUS
  <2>1. m <= b - y
    BY <1>3
  <2> QED
    BY <1>1, <1>4, <2>1
<1>6. Max(S) \in S /\ \A y \in S : Max(S) >= y
  BY <1>5 DEF Max
<1> QED
  BY <1>6

LEMMA MaxOfTwo ==
  ASSUME NEW a \in Nat, NEW b \in Nat, a <= b
  PROVE  Max({a, b}) = b
<1>1. b \in {a, b} /\ \A y \in {a, b} : b >= y
  OBVIOUS
<1>2. Max({a, b}) \in {a, b} /\ \A y \in {a, b} : Max({a, b}) >= y
  BY <1>1 DEF Max
<1> QED
  BY <1>2

-----------------------------------------------------------------------------
(* The inductive invariant.                                                *)

(* A call is placed behind its earlier rows, which are in order.           *)
PlacedInOrder ==
  /\ ShiftsAreSerial
  /\ \A r \in rows : r.no < call[r.call].next /\ r.end <= call[r.call].prevEnd
  /\ \A c \in Calls :
       /\ call[c].pc = "idle" => call[c].next = 1
       /\ call[c].pc \in {"recheck", "create"} => call[c].prevEnd <= call[c].at

(* Shifts and rows are where the calendar of their user puts them.         *)
FittedToCalendar ==
  /\ \A c \in Calls : call[c].pc \in {"recheck", "create"} =>
       /\ call[c].at = NextAllowed(Shift(c).user, call[c].asked)
       /\ call[c].till = AddDuration(Shift(c).user, call[c].at, Length(c))
  /\ \A r \in rows : /\ r.start = NextAllowed(r.user, r.asked)
                     /\ r.end = AddDuration(r.user, r.start, r.length)

(* A shift about to be created, and neither pushed nor raced, overlaps no  *)
(* row of its user.                                                        *)
ClearOfRows ==
  /\ DoubleBookedOnlyByPushOrRace
  /\ \A c \in Calls :
       /\ call[c].pc = "recheck" => call[c].pushed
       /\ call[c].pc = "create" /\ ~ call[c].pushed /\ ~ call[c].raced =>
            \A r \in rows : r.user = Shift(c).user => ~ Overlaps(r, call[c].at, call[c].till)

IInv ==
  /\ TypeOK /\ IsFiniteSet(rows)
  /\ PlacedInOrder /\ FittedToCalendar /\ ClearOfRows

LEMMA InitIInv == Init => IInv
<1> SUFFICES ASSUME Init PROVE IInv
  OBVIOUS
<1>1. rows = {} /\ call = [c \in Calls |-> NoCall]
  BY DEF Init
<1>2. NoCall \in CallSet
  <2>1. <<>> \in Seq(ShiftSet)
    OBVIOUS
  <2> QED
    BY <2>1 DEF NoCall, CallSet
<1>3. \A c \in Calls : /\ call[c] = NoCall /\ call[c].pc = "idle" /\ call[c].plan = <<>>
                       /\ call[c].at = 0 /\ call[c].till = 0 /\ call[c].next = 1
  BY <1>1 DEF NoCall
<1>4. DOMAIN <<>> = {}
  OBVIOUS
<1>5. TypeOK
  BY <1>1, <1>2, <1>3, <1>4 DEF TypeOK
<1>6. IsFiniteSet(rows)
  BY <1>1, FS_EmptySet
<1> QED
  BY <1>1, <1>3, <1>5, <1>6 DEF IInv, PlacedInOrder, FittedToCalendar, ClearOfRows,
                                ShiftsAreSerial, DoubleBookedOnlyByPushOrRace

(* The shift at hand is a shift.                                           *)
LEMMA ShiftType ==
  ASSUME TypeOK, NEW c \in Calls, call[c].pc \in {"place", "recheck", "create"}
  PROVE  /\ Shift(c).user \in Users /\ Shift(c).start \in Nat /\ Shift(c).end \in Nat
         /\ Length(c) \in Nat
<1>1. call[c] \in CallSet /\ call[c].next \in DOMAIN call[c].plan
      /\ \A i \in DOMAIN call[c].plan : call[c].plan[i].start <= call[c].plan[i].end
  BY DEF TypeOK
<1>2. call[c].plan \in Seq(ShiftSet)
  BY <1>1 DEF CallSet
<1>3. Shift(c) \in ShiftSet /\ Shift(c).start <= Shift(c).end
  BY <1>1, <1>2 DEF Shift
<1> QED
  BY <1>3 DEF ShiftSet, Length

(* Where a shift goes that is asked for at some time.                      *)
LEMMA FitFacts ==
  ASSUME TypeOK, NEW c \in Calls, call[c].pc = "place", NEW asked \in Nat
  PROVE  LET fit == Fit(c, asked) IN
         /\ fit.asked = asked
         /\ fit.at = NextAllowed(Shift(c).user, asked)
         /\ fit.till = AddDuration(Shift(c).user, fit.at, Length(c))
         /\ fit.at \in Nat /\ fit.till \in Nat /\ asked <= fit.at /\ fit.at <= fit.till
<1> DEFINE u     == Shift(c).user
           n     == Length(c)
           start == NextAllowed(u, asked)
           till  == AddDuration(u, start, n)
<1>1. u \in Users /\ n \in Nat
  BY ShiftType
<1>2. start \in Nat /\ asked <= start
  BY <1>1, NextAllowedNotBefore
<1>3. till \in Nat /\ start <= till
  BY <1>1, <1>2, AddDurationIsExact
<1>4. Fit(c, asked) = [asked |-> asked, at |-> start, till |-> Max({start, till})]
  BY DEF Fit
<1> HIDE DEF start, till
<1>5. Max({start, till}) = till
  BY <1>2, <1>3, MaxOfTwo
<1> QED
  BY <1>2, <1>3, <1>4, <1>5 DEF start, till

(* What the invariant says of the state v of one call.                     *)
CallInv(v) ==
  LET s == v.plan[v.next] IN
  /\ v \in CallSet /\ v.at <= v.till
  /\ v.pc = "idle" => v.next = 1
  /\ v.pc \in {"place", "recheck", "create"} => v.next \in DOMAIN v.plan
  /\ \A i \in DOMAIN v.plan : v.plan[i].start <= v.plan[i].end
  /\ v.pc \in {"recheck", "create"} => /\ v.prevEnd <= v.at
                                       /\ v.at = NextAllowed(s.user, v.asked)
                                       /\ v.till = AddDuration(s.user, v.at, s.end - s.start)
  /\ v.pc = "recheck" => v.pushed
  /\ v.pc = "create" /\ ~ v.pushed /\ ~ v.raced =>
       \A r \in rows : r.user = s.user => ~ Overlaps(r, v.at, v.till)

LEMMA CallInvHolds ==
  ASSUME IInv, NEW c \in Calls
  PROVE  CallInv(call[c])
BY DEF IInv, TypeOK, PlacedInOrder, FittedToCalendar, ClearOfRows, CallInv, Shift, Length

(* A step of one call that inserts no row.                                 *)
LEMMA OneCallMoves ==
  ASSUME IInv, NEW c \in Calls, NEW v, CallInv(v),
         v.next = call[c].next, v.prevEnd = call[c].prevEnd,
         rows' = rows, call' = [call EXCEPT ![c] = v]
  PROVE  IInv'
<1>1. /\ rows \subseteq RowSet /\ (\A r \in rows : r.start <= r.end) /\ call \in [Calls -> CallSet]
      /\ IsFiniteSet(rows)
      /\ \A d \in Calls : CallInv(call[d])
  BY CallInvHolds DEF IInv, TypeOK
<1>2. /\ call' \in [Calls -> CallSet] /\ call'[c] = v
      /\ \A d \in Calls : d # c => call'[d] = call[d]
  BY <1>1 DEF CallInv
<1>3. \A d \in Calls : CallInv(call'[d])
  BY <1>1, <1>2
<1>4. \A d \in Calls : call'[d].next = call[d].next /\ call'[d].prevEnd = call[d].prevEnd
  BY <1>2
<1>5. TypeOK'
  BY <1>1, <1>2, <1>3 DEF TypeOK, CallInv
<1>6. PlacedInOrder'
  <2>1. ShiftsAreSerial'
    BY DEF IInv, PlacedInOrder, ShiftsAreSerial
  <2>2. \A r \in rows : r.call \in Calls
    BY <1>1 DEF RowSet
  <2>3. \A r \in rows' : r.no < call'[r.call].next /\ r.end <= call'[r.call].prevEnd
    BY <1>4, <2>2 DEF IInv, PlacedInOrder
  <2>4. \A d \in Calls : /\ call'[d].pc = "idle" => call'[d].next = 1
                         /\ call'[d].pc \in {"recheck", "create"} => call'[d].prevEnd <= call'[d].at
    BY <1>3 DEF CallInv
  <2> QED
    BY <2>1, <2>3, <2>4 DEF PlacedInOrder
<1>7. FittedToCalendar'
  <2>1. \A r \in rows' : /\ r.start = NextAllowed(r.user, r.asked)
                         /\ r.end = AddDuration(r.user, r.start, r.length)
    BY DEF IInv, FittedToCalendar
  <2> QED
    BY <1>3, <2>1 DEF FittedToCalendar, CallInv, Shift, Length
<1>8. ClearOfRows'
  <2>1. DoubleBookedOnlyByPushOrRace'
    BY DEF IInv, ClearOfRows, DoubleBookedOnlyByPushOrRace, DoubleBooked, Overlaps
  <2> QED
    BY <1>3, <2>1 DEF ClearOfRows, CallInv, Shift
<1> QED
  BY <1>1, <1>5, <1>6, <1>7, <1>8 DEF IInv

LEMMA BeginPlanKeeps ==
  ASSUME IInv, NEW c \in Calls, BeginPlan(c)
  PROVE  IInv'
<1>1. PICK p \in Plans : call' = [call EXCEPT ![c].pc = "place", ![c].plan = Serialized(p)]
  BY DEF BeginPlan
<1> DEFINE v == [call[c] EXCEPT !.pc = "place", !.plan = Serialized(p)]
<1>2. /\ call[c] \in CallSet /\ call[c].at <= call[c].till /\ call[c].next = 1
      /\ rows' = rows /\ call \in [Calls -> CallSet]
  BY DEF IInv, TypeOK, PlacedInOrder, BeginPlan
<1>3. call' = [call EXCEPT ![c] = v]
  BY <1>1, <1>2
<1>4. /\ Serialized(p) \in Seq(ShiftSet) /\ 1 \in DOMAIN Serialized(p)
      /\ \A i \in DOMAIN Serialized(p) : Serialized(p)[i].start <= Serialized(p)[i].end
  BY SerializedFacts
<1>5. v \in CallSet /\ v.pc = "place" /\ v.plan = Serialized(p)
      /\ v.next = call[c].next /\ v.prevEnd = call[c].prevEnd /\ v.at <= v.till
  BY <1>2, <1>4 DEF CallSet
<1> HIDE DEF v
<1>6. CallInv(v)
  BY <1>2, <1>4, <1>5 DEF CallInv
<1> QED
  BY <1>2, <1>3, <1>5, <1>6, OneCallMoves

LEMMA RecheckKeeps ==
  ASSUME IInv, NEW c \in Calls, Recheck(c)
  PROVE  IInv'
<1> DEFINE q == IF \E r \in rows : /\ r.task = TaskOf[c]
                                   /\ Overlaps(r, call[c].at, call[c].till)
                THEN "thrown" ELSE "create"
           v == [call[c] EXCEPT !.pc = q]
<1>1. /\ CallInv(call[c]) /\ call \in [Calls -> CallSet] /\ rows' = rows
      /\ call[c].pc = "recheck" /\ call' = [call EXCEPT ![c].pc = q]
  BY CallInvHolds DEF IInv, TypeOK, Recheck
<1>2. q \in {"thrown", "create"}
  OBVIOUS
<1> HIDE DEF q
<1>3. call' = [call EXCEPT ![c] = v]
  BY <1>1
<1>4. call[c] \in CallSet /\ call[c].pushed
  BY <1>1 DEF CallInv
<1>5. /\ v \in CallSet /\ v.pc = q /\ v.plan = call[c].plan /\ v.next = call[c].next
      /\ v.prevEnd = call[c].prevEnd /\ v.asked = call[c].asked
      /\ v.at = call[c].at /\ v.till = call[c].till
      /\ v.pushed = call[c].pushed /\ v.raced = call[c].raced
  BY <1>2, <1>4 DEF CallSet
<1> HIDE DEF v
<1>6. CallInv(v)
  BY <1>1, <1>2, <1>4, <1>5 DEF CallInv
<1> QED
  BY <1>1, <1>3, <1>5, <1>6, OneCallMoves

LEMMA PlaceKeeps ==
  ASSUME IInv, NEW c \in Calls, Place(c)
  PROVE  IInv'
<1> DEFINE first     == Fit(c, SerialStart(c))
           conflicts == UserOverlaps(c, first)
           later     == Max({r.end : r \in conflicts}) + 1
           fit       == IF conflicts = {} THEN first ELSE Fit(c, later)
           q         == IF conflicts = {} THEN "create" ELSE "recheck"
           v         == [call[c] EXCEPT !.pc = q, !.asked = fit.asked, !.at = fit.at, !.till = fit.till,
                                        !.pushed = conflicts # {}, !.raced = FALSE]
<1>1. /\ CallInv(call[c]) /\ call \in [Calls -> CallSet] /\ rows' = rows /\ TypeOK
      /\ call[c].pc = "place" /\ call[c].next \in DOMAIN call[c].plan
      /\ rows \subseteq RowSet /\ IsFiniteSet(rows)
  BY CallInvHolds DEF IInv, TypeOK, Place
<1>2. call' = [call EXCEPT ![c] = v]
  <2>1. call' = [call EXCEPT ![c].pc = q, ![c].asked = fit.asked, ![c].at = fit.at,
                             ![c].till = fit.till, ![c].pushed = conflicts # {}, ![c].raced = FALSE]
    BY DEF Place
  <2> HIDE DEF q, fit, conflicts
  <2> QED
    BY <1>1, <2>1
<1>3. call[c] \in CallSet /\ call[c].prevEnd \in Nat
  BY <1>1 DEF CallInv, CallSet
<1>4. SerialStart(c) \in Nat /\ call[c].prevEnd <= SerialStart(c)
  <2>1. Shift(c).start \in Nat
    BY <1>1, ShiftType
  <2> QED
    BY <1>3, <2>1 DEF SerialStart
<1>5. /\ first.asked = SerialStart(c)
      /\ first.at = NextAllowed(Shift(c).user, first.asked)
      /\ first.till = AddDuration(Shift(c).user, first.at, Length(c))
      /\ first.at \in Nat /\ first.till \in Nat
      /\ first.asked <= first.at /\ first.at <= first.till
  BY <1>1, <1>4, FitFacts
<1> HIDE DEF first
<1>6. conflicts \subseteq rows /\ \A r \in rows : r.user = Shift(c).user /\ r \notin conflicts
                                     => ~ Overlaps(r, first.at, first.till)
  BY DEF UserOverlaps
<1>7. \A r \in conflicts : r.end \in Nat /\ first.at < r.end
  BY <1>1, <1>5 DEF UserOverlaps, Overlaps, RowSet
<1> HIDE DEF conflicts
<1>8. /\ fit.asked \in Nat /\ call[c].prevEnd <= fit.at
      /\ fit.at = NextAllowed(Shift(c).user, fit.asked)
      /\ fit.till = AddDuration(Shift(c).user, fit.at, Length(c))
      /\ fit.at \in Nat /\ fit.till \in Nat /\ fit.at <= fit.till
  <2>1. CASE conflicts = {}
    <3>1. fit = first
      BY <2>1
    <3> HIDE DEF fit
    <3>2. call[c].prevEnd <= first.at
      BY <1>3, <1>4, <1>5
    <3> QED
      BY <1>4, <1>5, <3>1, <3>2
  <2>2. CASE conflicts # {}
    <3> DEFINE ends == {r.end : r \in conflicts}
    <3>1. ends \subseteq Nat /\ ends # {} /\ \A y \in ends : first.at < y
      BY <1>7, <2>2
    <3>2. IsFiniteSet(ends)
      <4>1. IsFiniteSet(conflicts)
        BY <1>1, <1>6, FS_Subset
      <4> DEFINE f == [r \in conflicts |-> r.end]
      <4>2. f \in Surjection(conflicts, ends)
        BY DEF Surjection
      <4> HIDE DEF f, ends
      <4> QED
        BY <4>1, <4>2, FS_Surjection
    <3> HIDE DEF ends
    <3>3. Max(ends) \in ends
      BY <3>1, <3>2, MaxIsGreatest
    <3>4. later \in Nat /\ first.at < later
      <4>1. Max(ends) \in Nat /\ first.at < Max(ends)
        BY <3>1, <3>3
      <4>2. later = Max(ends) + 1
        BY DEF ends
      <4> HIDE DEF later
      <4> QED
        BY <1>5, <4>1, <4>2
    <3>5. fit = Fit(c, later)
      BY <2>2
    <3> HIDE DEF fit, later
    <3>6. /\ fit.asked = later
          /\ fit.at = NextAllowed(Shift(c).user, later)
          /\ fit.till = AddDuration(Shift(c).user, fit.at, Length(c))
          /\ fit.at \in Nat /\ fit.till \in Nat /\ later <= fit.at /\ fit.at <= fit.till
      BY <1>1, <3>4, <3>5, FitFacts
    <3>7. call[c].prevEnd <= fit.at
      BY <1>3, <1>4, <1>5, <3>4, <3>6
    <3> QED
      BY <3>4, <3>6, <3>7
  <2> QED
    BY <2>1, <2>2
<1>9. conflicts = {} => fit = first
  OBVIOUS
<1> HIDE DEF fit
<1>10. /\ v \in CallSet /\ v.pc = q /\ v.plan = call[c].plan /\ v.next = call[c].next
       /\ v.prevEnd = call[c].prevEnd /\ v.asked = fit.asked
       /\ v.at = fit.at /\ v.till = fit.till /\ v.raced = FALSE
       /\ v.pushed = (conflicts # {})
  <2>1. q \in {"create", "recheck"} /\ (conflicts # {}) \in BOOLEAN
    OBVIOUS
  <2> DEFINE b == conflicts # {}
  <2> HIDE DEF q, b
  <2>2. b \in BOOLEAN
    BY DEF b
  <2> DEFINE x == [call[c] EXCEPT !.pc = q, !.asked = fit.asked, !.at = fit.at, !.till = fit.till,
                                  !.pushed = b, !.raced = FALSE]
  <2>3. /\ x \in CallSet /\ x.pc = q /\ x.plan = call[c].plan /\ x.next = call[c].next
        /\ x.prevEnd = call[c].prevEnd /\ x.asked = fit.asked
        /\ x.at = fit.at /\ x.till = fit.till /\ x.raced = FALSE /\ x.pushed = b
    BY <1>3, <1>8, <2>1, <2>2 DEF CallSet
  <2>4. v = x
    BY DEF b
  <2> HIDE DEF v, x
  <2> QED
    BY <2>3, <2>4 DEF b
<1>11. Shift(c) = v.plan[v.next] /\ Length(c) = v.plan[v.next].end - v.plan[v.next].start
  <2> HIDE DEF v
  <2> QED
    BY <1>10 DEF Shift, Length
<1> HIDE DEF v
<1>12. /\ v.at <= v.till /\ v.prevEnd <= v.at /\ v.next \in DOMAIN v.plan
       /\ \A i \in DOMAIN v.plan : v.plan[i].start <= v.plan[i].end
       /\ v.at = NextAllowed(v.plan[v.next].user, v.asked)
       /\ v.till = AddDuration(v.plan[v.next].user, v.at, v.plan[v.next].end - v.plan[v.next].start)
  BY <1>1, <1>8, <1>10, <1>11 DEF CallInv
<1>13. v.pc # "idle" /\ (v.pc = "recheck" => v.pushed) /\ (~ v.pushed => conflicts = {})
  BY <1>10
<1>14. ~ v.pushed => \A r \in rows : r.user = v.plan[v.next].user => ~ Overlaps(r, v.at, v.till)
  BY <1>6, <1>9, <1>10, <1>11, <1>13
<1>15. CallInv(v)
  BY <1>10, <1>12, <1>13, <1>14 DEF CallInv
<1> QED
  BY <1>1, <1>2, <1>10, <1>15, OneCallMoves

(* The row that call c inserts.                                            *)
NewRow(c) ==
  [call |-> c, no |-> call[c].next, task |-> TaskOf[c], user |-> Shift(c).user,
   asked |-> call[c].asked, start |-> call[c].at, end |-> call[c].till,
   length |-> Length(c), pushed |-> call[c].pushed, raced |-> call[c].raced]

(* What Create leaves of the other calls, and of its own.                  *)
LEMMA CreateFacts ==
  ASSUME IInv, NEW c \in Calls, Create(c)
  PROVE  /\ rows' = rows \cup {NewRow(c)}
         /\ NewRow(c) \in RowSet
         /\ call' \in [Calls -> CallSet]
         /\ \A d \in Calls : d # c =>
              /\ call'[d].pc = call[d].pc /\ call'[d].plan = call[d].plan
              /\ call'[d].next = call[d].next /\ call'[d].prevEnd = call[d].prevEnd
              /\ call'[d].asked = call[d].asked /\ call'[d].at = call[d].at
              /\ call'[d].till = call[d].till /\ call'[d].pushed = call[d].pushed
              /\ call[d].pc \in {"recheck", "create"} => call'[d].raced
         /\ call'[c].pc \in {"done", "place"} /\ call'[c].plan = call[c].plan
         /\ call'[c].next = call[c].next + 1 /\ call'[c].prevEnd = call[c].till
         /\ call'[c].at = call[c].at /\ call'[c].till = call[c].till
         /\ call'[c].pc = "place" => call'[c].next \in DOMAIN call[c].plan
<1>1. /\ call \in [Calls -> CallSet] /\ \A d \in Calls : call[d] \in CallSet
      /\ call[c].pc = "create" /\ TypeOK /\ call[c].next \in DOMAIN call[c].plan
  BY DEF IInv, TypeOK, Create
<1>2. rows' = rows \cup {NewRow(c)}
  BY DEF Create, NewRow
<1>3. NewRow(c) \in RowSet
  <2>1. Shift(c).user \in Users /\ Length(c) \in Nat
    BY <1>1, ShiftType
  <2>2. /\ call[c].next \in Nat /\ call[c].asked \in Nat /\ call[c].at \in Nat
        /\ call[c].till \in Nat /\ call[c].pushed \in BOOLEAN /\ call[c].raced \in BOOLEAN
    BY <1>1 DEF CallSet
  <2>3. TaskOf[c] \in {TaskOf[d] : d \in Calls}
    OBVIOUS
  <2> QED
    BY <2>1, <2>2, <2>3 DEF NewRow, RowSet
<1> DEFINE Other(d) == [call[d] EXCEPT !.raced = @ \/ call[d].pc \in {"recheck", "create"}]
           q        == IF call[c].pc = "create" /\ call[c].next = Len(call[c].plan)
                       THEN "done" ELSE "place"
           own      == [call[c] EXCEPT !.next = @ + 1, !.prevEnd = call[c].till, !.pc = q]
<1>4. call' = [d \in Calls |-> IF d # c THEN Other(d) ELSE own]
  BY DEF Create
<1>5. ASSUME NEW d \in Calls
      PROVE  /\ Other(d) \in CallSet
             /\ Other(d).pc = call[d].pc /\ Other(d).plan = call[d].plan
             /\ Other(d).next = call[d].next /\ Other(d).prevEnd = call[d].prevEnd
             /\ Other(d).asked = call[d].asked /\ Other(d).at = call[d].at
             /\ Other(d).till = call[d].till /\ Other(d).pushed = call[d].pushed
             /\ call[d].pc \in {"recheck", "create"} => Other(d).raced
  <2> DEFINE b == call[d].raced \/ call[d].pc \in {"recheck", "create"}
  <2>1. b \in BOOLEAN /\ (call[d].pc \in {"recheck", "create"} => b)
    OBVIOUS
  <2>2. Other(d) = [call[d] EXCEPT !.raced = b]
    OBVIOUS
  <2> HIDE DEF b, Other
  <2>3. call[d] \in CallSet
    BY <1>1
  <2> DEFINE x == [call[d] EXCEPT !.raced = b]
  <2>4. /\ x \in CallSet
        /\ x.pc = call[d].pc /\ x.plan = call[d].plan
        /\ x.next = call[d].next /\ x.prevEnd = call[d].prevEnd
        /\ x.asked = call[d].asked /\ x.at = call[d].at
        /\ x.till = call[d].till /\ x.pushed = call[d].pushed /\ x.raced = b
    BY <2>1, <2>3 DEF CallSet
  <2> HIDE DEF x
  <2> QED
    BY <2>1, <2>2, <2>4 DEF x
<1>6. q \in {"done", "place"}
  OBVIOUS
<1>7. q = "place" => call[c].next + 1 \in DOMAIN call[c].plan
  <2>1. call[c].plan \in Seq(ShiftSet)
    BY <1>1 DEF CallSet
  <2>2. call[c].next # Len(call[c].plan) => call[c].next + 1 \in DOMAIN call[c].plan
    BY <1>1, <2>1
  <2> QED
    BY <1>1, <2>2
<1> HIDE DEF q
<1>8. /\ own \in CallSet /\ own.pc = q /\ own.plan = call[c].plan
      /\ own.next = call[c].next + 1 /\ own.prevEnd = call[c].till
      /\ own.at = call[c].at /\ own.till = call[c].till
  <2> DEFINE n == call[c].next + 1
             e == call[c].till
  <2>1. n \in Nat /\ e \in Nat /\ call[c] \in CallSet
    BY <1>1 DEF CallSet
  <2>2. own = [call[c] EXCEPT !.next = n, !.prevEnd = e, !.pc = q]
    OBVIOUS
  <2> HIDE DEF n, e, own
  <2> DEFINE x == [call[c] EXCEPT !.next = n, !.prevEnd = e, !.pc = q]
  <2>3. /\ x \in CallSet /\ x.pc = q /\ x.plan = call[c].plan
        /\ x.next = n /\ x.prevEnd = e /\ x.at = call[c].at /\ x.till = call[c].till
    BY <1>6, <2>1 DEF CallSet
  <2> HIDE DEF x
  <2> QED
    BY <2>2, <2>3 DEF x, n, e
<1> HIDE DEF own, Other
<1>9. call' \in [Calls -> CallSet]
  BY <1>4, <1>5, <1>8
<1>10. call'[c] = own /\ \A d \in Calls : d # c => call'[d] = Other(d)
  BY <1>4
<1> QED
  BY <1>2, <1>3, <1>5, <1>6, <1>7, <1>8, <1>9, <1>10

LEMMA CreateKeeps ==
  ASSUME IInv, NEW c \in Calls, Create(c)
  PROVE  IInv'
<1> DEFINE new == NewRow(c)
<1>1. /\ TypeOK /\ PlacedInOrder /\ FittedToCalendar /\ ClearOfRows /\ IsFiniteSet(rows)
      /\ call[c].pc = "create" /\ CallInv(call[c])
      /\ rows \subseteq RowSet /\ call \in [Calls -> CallSet]
  BY CallInvHolds DEF IInv, TypeOK, Create
<1>2. /\ rows' = rows \cup {new} /\ new \in RowSet /\ call' \in [Calls -> CallSet]
      /\ \A d \in Calls : d # c =>
           /\ call'[d].pc = call[d].pc /\ call'[d].plan = call[d].plan
           /\ call'[d].next = call[d].next /\ call'[d].prevEnd = call[d].prevEnd
           /\ call'[d].asked = call[d].asked /\ call'[d].at = call[d].at
           /\ call'[d].till = call[d].till /\ call'[d].pushed = call[d].pushed
           /\ call[d].pc \in {"recheck", "create"} => call'[d].raced
      /\ call'[c].pc \in {"done", "place"} /\ call'[c].plan = call[c].plan
      /\ call'[c].next = call[c].next + 1 /\ call'[c].prevEnd = call[c].till
      /\ call'[c].at = call[c].at /\ call'[c].till = call[c].till
      /\ call'[c].pc = "place" => call'[c].next \in DOMAIN call[c].plan
  BY CreateFacts
<1>3. /\ new.call = c /\ new.no = call[c].next /\ new.user = Shift(c).user
      /\ new.asked = call[c].asked /\ new.start = call[c].at /\ new.end = call[c].till
      /\ new.length = Length(c) /\ new.pushed = call[c].pushed /\ new.raced = call[c].raced
  BY DEF NewRow
<1> HIDE DEF new
<1>4. \A d \in Calls : call[d] \in CallSet /\ call'[d] \in CallSet
  BY <1>1, <1>2
<1>5. /\ call[c].next \in Nat /\ call[c].prevEnd \in Nat /\ call[c].at \in Nat /\ call[c].till \in Nat
      /\ call[c].prevEnd <= call[c].at /\ call[c].at <= call[c].till
  BY <1>1, <1>4 DEF CallSet, CallInv
<1>6. TypeOK'
  <2>1. \A r \in rows' : r \in RowSet /\ r.start <= r.end
    BY <1>1, <1>2, <1>3, <1>5 DEF TypeOK
  <2>2. ASSUME NEW d \in Calls
        PROVE  /\ call'[d].pc \in {"place", "recheck", "create"} => call'[d].next \in DOMAIN call'[d].plan
               /\ \A i \in DOMAIN call'[d].plan : call'[d].plan[i].start <= call'[d].plan[i].end
               /\ call'[d].at <= call'[d].till
    <3>1. CASE d = c
      BY <1>1, <1>2, <3>1 DEF TypeOK
    <3>2. CASE d # c
      BY <1>1, <1>2, <3>2 DEF TypeOK
    <3> QED
      BY <3>1, <3>2
  <2> QED
    BY <1>2, <2>1, <2>2 DEF TypeOK
<1>7. IsFiniteSet(rows')
  BY <1>1, <1>2, FS_AddElement
<1>8. \A r \in rows : /\ r.call \in Calls /\ r.no \in Nat /\ r.start \in Nat /\ r.end \in Nat
                      /\ r.no < call[r.call].next /\ r.end <= call[r.call].prevEnd
  BY <1>1 DEF RowSet, PlacedInOrder
<1>9. PlacedInOrder'
  <2>1. ShiftsAreSerial'
    <3> SUFFICES ASSUME NEW q \in rows', NEW r \in rows', q.call = r.call, q.no < r.no
                 PROVE  q.end <= r.start
      BY DEF ShiftsAreSerial
    <3>1. CASE q \in rows /\ r \in rows
      BY <1>1, <3>1 DEF PlacedInOrder, ShiftsAreSerial
    <3>2. CASE q \in rows /\ r = new
      BY <1>3, <1>5, <1>8, <3>2
    <3>3. CASE q = new /\ r \in rows
      BY <1>3, <1>5, <1>8, <3>3
    <3>4. CASE q = new /\ r = new
      BY <1>3, <1>5, <3>4
    <3> QED
      BY <1>2, <3>1, <3>2, <3>3, <3>4
  <2>2. ASSUME NEW r \in rows' PROVE r.no < call'[r.call].next /\ r.end <= call'[r.call].prevEnd
    <3>1. CASE r = new
      BY <1>2, <1>3, <1>5, <3>1
    <3>2. CASE r \in rows /\ r.call = c
      BY <1>2, <1>5, <1>8, <3>2
    <3>3. CASE r \in rows /\ r.call # c
      BY <1>2, <1>8, <3>3
    <3> QED
      BY <1>2, <3>1, <3>2, <3>3
  <2>3. ASSUME NEW d \in Calls
        PROVE  /\ call'[d].pc = "idle" => call'[d].next = 1
               /\ call'[d].pc \in {"recheck", "create"} => call'[d].prevEnd <= call'[d].at
    <3>1. CASE d = c
      BY <1>2, <3>1
    <3>2. CASE d # c
      BY <1>1, <1>2, <3>2 DEF PlacedInOrder
    <3> QED
      BY <3>1, <3>2
  <2> QED
    BY <2>1, <2>2, <2>3 DEF PlacedInOrder
<1>10. FittedToCalendar'
  <2>1. ASSUME NEW r \in rows'
        PROVE  /\ r.start = NextAllowed(r.user, r.asked)
               /\ r.end = AddDuration(r.user, r.start, r.length)
    <3>1. CASE r = new
      BY <1>1, <1>3, <3>1 DEF FittedToCalendar
    <3>2. CASE r \in rows
      BY <1>1, <3>2 DEF FittedToCalendar
    <3> QED
      BY <1>2, <3>1, <3>2
  <2>2. ASSUME NEW d \in Calls, call'[d].pc \in {"recheck", "create"}
        PROVE  /\ call'[d].at = NextAllowed(Shift(d)'.user, call'[d].asked)
               /\ call'[d].till = AddDuration(Shift(d)'.user, call'[d].at, Length(d)')
    <3>1. d # c
      BY <1>2, <2>2
    <3>2. Shift(d)' = Shift(d) /\ Length(d)' = Length(d)
      BY <1>2, <3>1 DEF Shift, Length
    <3> QED
      BY <1>1, <1>2, <2>2, <3>1, <3>2 DEF FittedToCalendar
  <2> QED
    BY <2>1, <2>2 DEF FittedToCalendar
<1>11. ClearOfRows'
  <2>1. \A r \in rows : r.user = new.user /\ ~ new.pushed /\ ~ new.raced
                           => ~ (r.start < new.end /\ r.end > new.start)
    BY <1>1, <1>3 DEF ClearOfRows, Overlaps
  <2>2. DoubleBookedOnlyByPushOrRace'
    <3> SUFFICES ASSUME NEW q \in rows', NEW r \in rows', DoubleBooked(q, r)
                 PROVE  q.pushed \/ r.pushed \/ q.raced \/ r.raced
      BY DEF DoubleBookedOnlyByPushOrRace, DoubleBooked, Overlaps
    <3>1. q # r /\ q.user = r.user /\ q.start < r.end /\ q.end > r.start
      BY DEF DoubleBooked, Overlaps
    <3>2. CASE q \in rows /\ r \in rows
      BY <1>1, <3>2 DEF ClearOfRows, DoubleBookedOnlyByPushOrRace
    <3>3. CASE q \in rows /\ r = new
      BY <2>1, <3>1, <3>3
    <3>4. CASE q = new /\ r \in rows
      <4>1. r.start < new.end /\ r.end > new.start
        BY <1>3, <1>5, <1>8, <3>1, <3>4
      <4> QED
        BY <2>1, <3>1, <3>4, <4>1
    <3> QED
      BY <1>2, <3>1, <3>2, <3>3, <3>4
  <2>3. ASSUME NEW d \in Calls, call'[d].pc = "recheck" PROVE call'[d].pushed
    <3>1. d # c
      BY <1>2, <2>3
    <3> QED
      BY <1>1, <1>2, <2>3, <3>1 DEF ClearOfRows
  <2>4. \A d \in Calls : ~ (call'[d].pc = "create" /\ ~ call'[d].raced)
    <3> SUFFICES ASSUME NEW d \in Calls, call'[d].pc = "create", ~ call'[d].raced PROVE FALSE
      OBVIOUS
    <3>1. d # c
      BY <1>2
    <3> QED
      BY <1>2, <3>1
  <2> QED
    BY <2>2, <2>3, <2>4 DEF ClearOfRows
<1> QED
  BY <1>6, <1>7, <1>9, <1>10, <1>11 DEF IInv

LEMMA NextIInv == IInv /\ [Next]_vars => IInv'
<1> SUFFICES ASSUME IInv, [Next]_vars PROVE IInv'
  OBVIOUS
<1>1. CASE UNCHANGED vars
  BY <1>1 DEF vars, IInv, TypeOK, PlacedInOrder, FittedToCalendar, ClearOfRows, ShiftsAreSerial,
              DoubleBookedOnlyByPushOrRace, DoubleBooked, Overlaps, Shift, Length
<1>2. ASSUME NEW c \in Calls, BeginPlan(c) PROVE IInv'
  BY <1>2, BeginPlanKeeps
<1>3. ASSUME NEW c \in Calls, Place(c) PROVE IInv'
  BY <1>3, PlaceKeeps
<1>4. ASSUME NEW c \in Calls, Recheck(c) PROVE IInv'
  BY <1>4, RecheckKeeps
<1>5. ASSUME NEW c \in Calls, Create(c) PROVE IInv'
  BY <1>5, CreateKeeps
<1> QED
  BY <1>1, <1>2, <1>3, <1>4, <1>5 DEF Next

LEMMA InvariantHolds == Spec => []IInv
<1>1. Init => IInv
  BY InitIInv
<1>2. IInv /\ [Next]_vars => IInv'
  BY NextIInv
<1> QED
  BY <1>1, <1>2, PTL DEF Spec

-----------------------------------------------------------------------------
(* A call places a shift of its plan, and no shift ends before it starts   *)
(* (scheduleFromShifts).                                                   *)
THEOREM TypeCorrect == Spec => []TypeOK
<1>1. IInv => TypeOK
  BY DEF IInv
<1> QED
  BY <1>1, InvariantHolds, PTL

(* Every row starts at the first working tick that its user has from the   *)
(* time it was asked for, within the days nextAllowedUtc searches.         *)
THEOREM PlacedWell == Spec => []PlacedAtFirstWorkingTick
<1>1. IInv => PlacedAtFirstWorkingTick
  <2> SUFFICES ASSUME IInv, NEW r \in rows
               PROVE  IF \E t \in r.asked .. Horizon(r.asked) - 1 : Works(r.user, t)
                      THEN /\ Works(r.user, r.start) /\ r.asked <= r.start
                           /\ \A t \in r.asked .. r.start - 1 : ~ Works(r.user, t)
                      ELSE r.start = r.asked
    BY DEF PlacedAtFirstWorkingTick
  <2>1. r.user \in Users /\ r.asked \in Nat
    BY DEF IInv, TypeOK, RowSet
  <2>2. r.start = NextAllowed(r.user, r.asked)
    BY DEF IInv, FittedToCalendar
  <2>3. IsFirstWorked(r.user, r.asked, Horizon(r.asked), r.asked, r.start)
    BY <2>1, <2>2, NextAllowedIsFirstWorked
  <2> QED
    BY <2>3 DEF IsFirstWorked
<1> QED
  BY <1>1, InvariantHolds, PTL

(* Every row holds exactly the working time that was planned for it, as    *)
(* far as the days addDurationWithinWorkingHours goes through have it.     *)
THEOREM TimeKept == Spec => []GivenItsWorkingTime
<1>1. IInv => GivenItsWorkingTime
  <2> SUFFICES ASSUME IInv, NEW r \in rows
               PROVE  IF Worked(r.user, r.start, Horizon(r.start)) >= r.length
                      THEN /\ Worked(r.user, r.start, r.end) = r.length
                           /\ r.length > 0 => Works(r.user, r.end - 1)
                      ELSE r.end = r.start + r.length
    BY DEF GivenItsWorkingTime
  <2>1. r.user \in Users /\ r.start \in Nat /\ r.length \in Nat
    BY DEF IInv, TypeOK, RowSet
  <2>2. r.end = AddDuration(r.user, r.start, r.length)
    BY DEF IInv, FittedToCalendar
  <2>3. IF Worked(r.user, r.start, Horizon(r.start)) >= r.length
        THEN /\ Worked(r.user, r.start, AddDuration(r.user, r.start, r.length)) = r.length
             /\ r.length > 0 => Works(r.user, AddDuration(r.user, r.start, r.length) - 1)
        ELSE AddDuration(r.user, r.start, r.length) = r.start + r.length
    BY <2>1, AddDurationIsExact
  <2> QED
    BY <2>2, <2>3
<1> QED
  BY <1>1, InvariantHolds, PTL

(* "Respect serial": no shift of a call starts before the one before it    *)
(* ends, whoever works them and however far they are pushed.               *)
THEOREM InSeries == Spec => []ShiftsAreSerial
<1>1. IInv => ShiftsAreSerial
  BY DEF IInv, PlacedInOrder
<1> QED
  BY <1>1, InvariantHolds, PTL

(* Only a push or a race between the look-up of the overlaps and the       *)
(* insertion books a user twice.                                           *)
THEOREM BookedOnce == Spec => []DoubleBookedOnlyByPushOrRace
<1>1. IInv => DoubleBookedOnlyByPushOrRace
  BY DEF IInv, ClearOfRows
<1> QED
  BY <1>1, InvariantHolds, PTL

=============================================================================
