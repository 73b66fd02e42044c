----------------------------- MODULE TermUI_proofs -----------------------------
(***************************************************************************)
(* Theorems about the dashboard, for every set of monitors, answers and      *)
(* queries, every width of the bars and every number of fetches.             *)
(***************************************************************************)
EXTENDS TermUI, SequenceTheorems, FiniteSetTheorems, TLAPS

-----------------------------------------------------------------------------
(* What Pick keeps of a sequence.                                           *)

(* The rank of a member counts from 1 to the size of the set, in order, and  *)
(* every number in between is the rank of one: Nth is its inverse.           *)
LEMMA RankProperties ==
  ASSUME NEW n \in Nat, NEW I \in SUBSET (1 .. n)
  PROVE  /\ IsFiniteSet(I) /\ Cardinality(I) \in 0 .. n
         /\ \A i \in I : Rank(I, i) \in 1 .. Cardinality(I)
         /\ \A i, j \in I : i < j => Rank(I, i) < Rank(I, j)
<1>1. IsFiniteSet(I) /\ Cardinality(I) \in Nat /\ Cardinality(I) <= n
  <2>1. IsFiniteSet(1 .. n) /\ Cardinality(1 .. n) = n
    BY FS_Interval
  <2> QED BY <2>1, FS_Subset, FS_CardinalityType
<1> DEFINE Upto(i) == {j \in I : j <= i}
<1>2. \A i \in I : IsFiniteSet(Upto(i)) /\ Cardinality(Upto(i)) \in 1 .. Cardinality(I)
  <2> SUFFICES ASSUME NEW i \in I
               PROVE  IsFiniteSet(Upto(i)) /\ Cardinality(Upto(i)) \in 1 .. Cardinality(I)
    OBVIOUS
  <2>1. Upto(i) \subseteq I /\ i \in Upto(i)
    OBVIOUS
  <2> HIDE DEF Upto
  <2>2. /\ IsFiniteSet(Upto(i)) /\ Cardinality(Upto(i)) <= Cardinality(I)
        /\ Cardinality(Upto(i)) \in Nat
    BY <1>1, <2>1, FS_Subset, FS_CardinalityType
  <2>3. Cardinality(Upto(i)) # 0
    BY <2>1, <2>2, FS_EmptySet
  <2> QED BY <1>1, <2>2, <2>3
<1>3. \A i, j \in I : i < j => Cardinality(Upto(i)) < Cardinality(Upto(j))
  <2> SUFFICES ASSUME NEW i \in I, NEW j \in I, i < j
               PROVE  Cardinality(Upto(i)) < Cardinality(Upto(j))
    OBVIOUS
  <2>0. (\A l \in I : l <= i => l <= j) /\ j <= j /\ ~(j <= i)
    OBVIOUS
  <2>1. Upto(i) \subseteq Upto(j) /\ j \in Upto(j) /\ j \notin Upto(i)
    BY <2>0, Zenon
  <2>2. IsFiniteSet(Upto(j)) /\ IsFiniteSet(Upto(i))
    BY <1>2
  <2> HIDE DEF Upto
  <2>3. Upto(i) # Upto(j)
    BY <2>1
  <2> QED BY <2>1, <2>2, <2>3, FS_Subset, FS_CardinalityType
<1> QED BY <1>1, <1>2, <1>3 DEF Rank

LEMMA NthProperties ==
  ASSUME NEW n \in Nat, NEW I \in SUBSET (1 .. n)
  PROVE  /\ \A k \in 1 .. Cardinality(I) : Nth(I, k) \in I /\ Rank(I, Nth(I, k)) = k
         /\ \A i \in I : Nth(I, Rank(I, i)) = i
         /\ \A k, l \in 1 .. Cardinality(I) : k < l => Nth(I, k) < Nth(I, l)
<1> DEFINE c == Cardinality(I)
           f == [i \in I |-> Rank(I, i)]
<1>1. /\ IsFiniteSet(I) /\ c \in 0 .. n
      /\ \A i \in I : Rank(I, i) \in 1 .. c
      /\ \A i, j \in I : i < j => Rank(I, i) < Rank(I, j)
  BY RankProperties
<1>2. \A i, j \in I : Rank(I, i) = Rank(I, j) => i = j
  <2> SUFFICES ASSUME NEW i \in I, NEW j \in I, i # j PROVE Rank(I, i) # Rank(I, j)
    OBVIOUS
  <2>1. i < j \/ j < i
    OBVIOUS
  <2> QED BY <1>1, <2>1
<1>3. f \in Injection(I, 1 .. c)
  BY <1>1, <1>2 DEF Injection, IsInjective
<1>4. \A k \in 1 .. c : \E i \in I : Rank(I, i) = k
  <2>1. IsFiniteSet(1 .. c) /\ Cardinality(1 .. c) = c
    BY <1>1, FS_Interval
  <2>2. f \in Surjection(I, 1 .. c)
    BY <1>3, <2>1, FS_Injection
  <2> QED BY <2>2 DEF Surjection
<1>5. \A k \in 1 .. c : Nth(I, k) \in I /\ Rank(I, Nth(I, k)) = k
  BY <1>4 DEF Nth
<1>6. \A i \in I : Nth(I, Rank(I, i)) = i
  BY <1>1, <1>2, <1>5
<1>7. ASSUME NEW k \in 1 .. c, NEW l \in 1 .. c, k < l PROVE Nth(I, k) < Nth(I, l)
  <2> DEFINE a == Nth(I, k)
             b == Nth(I, l)
  <2>1. a \in I /\ b \in I /\ Rank(I, a) = k /\ Rank(I, b) = l
    BY <1>5
  <2> HIDE DEF a, b
  <2>2. a # b /\ ~(b < a)
    BY <1>1, <1>7, <2>1
  <2>3. a < b
    BY <2>1, <2>2
  <2> QED BY <2>3 DEF a, b
<1> QED BY <1>5, <1>6, <1>7

LEMMA FunctionIsSeq ==
  ASSUME NEW S, NEW n \in Nat, NEW f \in [1 .. n -> S]
  PROVE  f \in Seq(S) /\ Len(f) = n
<1>1. f \in Seq(S)
  BY SeqDef
<1>2. Len(f) \in Nat /\ DOMAIN f = 1 .. Len(f)
  BY <1>1, LenProperties
<1>3. 1 .. n = 1 .. Len(f)
  BY <1>2
<1>4. ~(n < Len(f)) /\ ~(Len(f) < n)
  BY <1>2, <1>3
<1> QED BY <1>1, <1>2, <1>4

(* Pick yields a sequence of members of s, as many as places were given.    *)
LEMMA PickProperties ==
  ASSUME NEW S, NEW s \in Seq(S), NEW I \in SUBSET (1 .. Len(s))
  PROVE  /\ Pick(s, I) \in Seq(S)
         /\ Len(Pick(s, I)) = Cardinality(I) /\ Cardinality(I) \in 0 .. Len(s)
         /\ \A k \in 1 .. Cardinality(I) : Pick(s, I)[k] = s[Nth(I, k)]
         /\ \A k \in 1 .. Cardinality(I) : Nth(I, k) \in I
<1>1. Len(s) \in Nat /\ s \in [1 .. Len(s) -> S]
  BY LenProperties
<1>2. Cardinality(I) \in 0 .. Len(s)
  BY <1>1, RankProperties
<1>3. \A k \in 1 .. Cardinality(I) : Nth(I, k) \in I
  BY <1>1, NthProperties
<1>4. \A k \in 1 .. Cardinality(I) : s[Nth(I, k)] \in S
  BY <1>1, <1>3
<1>5. Pick(s, I) \in [1 .. Cardinality(I) -> S]
  BY <1>4 DEF Pick
<1>6. Pick(s, I) \in Seq(S) /\ Len(Pick(s, I)) = Cardinality(I)
  BY <1>2, <1>5, FunctionIsSeq
<1> QED BY <1>2, <1>3, <1>6 DEF Pick

-----------------------------------------------------------------------------
(* The list on the screen and the selection in it.                          *)

Cards == [name : Names, recent : Seq(Checks)]

(* The selection stands on a card of vis and, if that has bars, on one.      *)
Fits(s, vis) ==
  s = NoSel \/ /\ s \in [mon : Nat, check : Nat]
               /\ s.mon < Len(vis)
               /\ s.check = 0 \/ s.check < ShownCount(vis[s.mon + 1])

Placed == Fits(sel, Visible(health, query))

IInv == TypeOK /\ Placed

LEMMA HealthIsSeq ==
  ASSUME NEW h \in Dashboards \union {<<>>} PROVE h \in Seq(Cards)
<1>1. <<>> \in Seq(Cards)
  BY EmptySeq
<1>2. Dashboards \subseteq Seq(Cards)
  BY DashboardsAssumption DEF Cards
<1> QED BY <1>1, <1>2

(* Whatever the filter says, what is visible is a list of cards.            *)
LEMMA VisibleType ==
  ASSUME NEW h \in Seq(Cards), NEW q PROVE Visible(h, q) \in Seq(Cards)
<1> DEFINE I == {i \in DOMAIN h : h[i].name \in q[1]}
<1>1. I \in SUBSET (1 .. Len(h))
  BY LenProperties
<1> HIDE DEF I
<1>2. Pick(h, I) \in Seq(Cards)
  BY <1>1, PickProperties
<1> QED BY <1>2 DEF Visible, I

(* How much of a card is shown: no more than it has, nor than fits, and      *)
(* nothing only of a card without checks.                                    *)
LEMMA CardProperties ==
  ASSUME NEW m \in Cards
  PROVE  /\ m.recent \in Seq(Checks) /\ Len(m.recent) \in Nat
         /\ BarStart(m) \in Nat /\ ShownCount(m) \in Nat
         /\ ShownCount(m) = 0 <=> Len(m.recent) = 0
         /\ BarStart(m) + ShownCount(m) = Len(m.recent)
         /\ ShownCount(m) = IF Len(m.recent) > BarLen THEN BarLen ELSE Len(m.recent)
<1>1. m.recent \in Seq(Checks)
  BY DEF Cards
<1>2. Len(m.recent) \in Nat
  BY <1>1, LenProperties
<1> DEFINE n == Len(m.recent)
<1> HIDE DEF n
<1>3. /\ (IF n > BarLen THEN n - BarLen ELSE 0) \in Nat
      /\ n - (IF n > BarLen THEN n - BarLen ELSE 0) \in Nat
      /\ n - (IF n > BarLen THEN n - BarLen ELSE 0) = 0 <=> n = 0
      /\ n - (IF n > BarLen THEN n - BarLen ELSE 0) = IF n > BarLen THEN BarLen ELSE n
  BY <1>2, BarLenAssumption DEF n
<1> QED BY <1>1, <1>2, <1>3 DEF BarStart, ShownCount, n

LEMMA LastCheckFits ==
  ASSUME NEW m \in Cards
  PROVE  LastCheck(m) \in Nat /\ (LastCheck(m) = 0 \/ LastCheck(m) < ShownCount(m))
BY CardProperties DEF LastCheck

LEMMA NearestFits ==
  ASSUME NEW m \in Cards, NEW c \in Int
  PROVE  Nearest(c, m) \in Nat /\ (Nearest(c, m) = 0 \/ Nearest(c, m) < ShownCount(m))
BY CardProperties DEF Nearest

(* Clamping makes any selection fit, wherever the moves before it led.      *)
LEMMA ClampFits ==
  ASSUME NEW vis \in Seq(Cards), NEW s, s = NoSel \/ s \in [mon : Nat, check : Int]
  PROVE  Fits(Clamp(s, vis), vis)
<1>1. CASE s = NoSel \/ s.mon >= Len(vis)
  BY <1>1 DEF Clamp, Fits
<1>2. CASE ~(s = NoSel \/ s.mon >= Len(vis))
  <2>1. s \in [mon : Nat, check : Int] /\ Len(vis) \in Nat
    BY <1>2, LenProperties
  <2>2. s.mon \in Nat /\ s.check \in Int /\ s.mon < Len(vis)
    BY <1>2, <2>1
  <2>3. s.mon + 1 \in 1 .. Len(vis)
    BY <2>1, <2>2
  <2>4. vis[s.mon + 1] \in Cards
    BY <2>3, ElementOfSeq
  <2> DEFINE c == Nearest(s.check, vis[s.mon + 1])
             t == [s EXCEPT !.check = c]
  <2>5. c \in Nat /\ (c = 0 \/ c < ShownCount(vis[s.mon + 1]))
    BY <2>2, <2>4, NearestFits
  <2>6. Clamp(s, vis) = t
    BY <1>2 DEF Clamp
  <2> HIDE DEF c
  <2>7. t \in [mon : Nat, check : Nat] /\ t.mon = s.mon /\ t.check = c
    BY <2>1, <2>2, <2>5
  <2> HIDE DEF t
  <2> QED BY <2>2, <2>5, <2>6, <2>7 DEF Fits
<1> QED BY <1>1, <1>2

LEMMA FirstFits ==
  ASSUME NEW vis \in Seq(Cards), vis # <<>>
  PROVE  Fits(First(vis), vis)
<1>1. Len(vis) \in Nat /\ Len(vis) # 0
  BY LenProperties, EmptySeq
<1>2. vis[1] \in Cards
  BY <1>1, ElementOfSeq
<1>3. LastCheck(vis[1]) \in Nat /\ (LastCheck(vis[1]) = 0 \/ LastCheck(vis[1]) < ShownCount(vis[1]))
  BY <1>2, LastCheckFits
<1>4. First(vis) \in [mon : Nat, check : Nat] /\ First(vis).mon = 0 /\ First(vis).check = LastCheck(vis[1])
  BY <1>3 DEF First
<1> HIDE DEF First
<1> QED BY <1>1, <1>3, <1>4 DEF Fits

(* Moving up or down a list of n wraps around at its ends.                  *)
LEMMA WrapsAround ==
  ASSUME NEW n \in Nat \ {0}, NEW i \in Nat, NEW d \in {-1, 1}
  PROVE  (i + d + n) % n \in Nat
<1>1. i + d + n \in Int
  OBVIOUS
<1> QED BY <1>1

-----------------------------------------------------------------------------
(* The invariant.                                                           *)

LEMMA InitInv == Init => IInv
<1> SUFFICES ASSUME Init PROVE IInv
  OBVIOUS
<1>1. fetch \in [Fetches -> FetchStates]
  BY DEF Init, FetchStates
<1>2. TypeOK
  BY <1>1 DEF Init, TypeOK, FilterValues
<1>3. Placed
  BY DEF Init, Placed, Fits
<1> QED BY <1>2, <1>3 DEF IInv

(* Every change of the selection or of what is visible.                     *)
LEMMA SelectionFits ==
  ASSUME IInv, NEW h \in Dashboards \union {<<>>}, NEW q
  PROVE  Fits(Clamp(sel, Visible(h, q)), Visible(h, q))
<1>1. Visible(h, q) \in Seq(Cards)
  BY HealthIsSeq, VisibleType
<1>2. sel = NoSel \/ sel \in [mon : Nat, check : Int]
  BY DEF IInv, TypeOK
<1> QED BY <1>1, <1>2, ClampFits

LEMMA FitsType ==
  ASSUME NEW s, NEW vis, Fits(s, vis)
  PROVE  s = NoSel \/ s \in [mon : Nat, check : Nat]
BY DEF Fits

LEMMA MovesFit ==
  ASSUME IInv, NEW d \in {-1, 1}, MoveMonitor(d) \/ MoveCheck(d)
  PROVE  Fits(sel', Visible(health, query))
<1> DEFINE vis == Visible(health, query)
<1>1. vis \in Seq(Cards)
  BY HealthIsSeq, VisibleType DEF IInv, TypeOK
<1>2. Len(vis) \in Nat /\ (vis # <<>> <=> Len(vis) # 0)
  BY <1>1, LenProperties, EmptySeq
<1>3. vis # <<>>
  BY <1>2 DEF MoveMonitor, MoveCheck
<1>4. sel = NoSel \/ sel \in [mon : Nat, check : Nat]
  BY DEF IInv, TypeOK
<1>5. CASE sel = NoSel
  <2>1. sel' = First(vis)
    BY <1>5 DEF MoveMonitor, MoveCheck
  <2> QED BY <1>1, <1>3, <2>1, FirstFits
<1>6. CASE sel # NoSel /\ MoveMonitor(d)
  <2> DEFINE n == Len(vis)
             s == [sel EXCEPT !.mon = (@ + d + n) % n]
  <2>1. sel' = Clamp(s, vis)
    BY <1>6 DEF MoveMonitor
  <2>2. sel \in [mon : Nat, check : Nat] /\ n \in Nat \ {0}
    BY <1>2, <1>3, <1>4, <1>6
  <2>3. (sel.mon + d + n) % n \in Nat
    BY <2>2, WrapsAround
  <2>4. s \in [mon : Nat, check : Int]
    BY <2>2, <2>3
  <2> HIDE DEF s, vis
  <2> QED BY <1>1, <2>1, <2>4, ClampFits DEF vis
<1>7. CASE sel # NoSel /\ MoveCheck(d)
  <2> DEFINE s == [sel EXCEPT !.check = @ + d]
  <2>1. sel' = Clamp(s, vis)
    BY <1>7 DEF MoveCheck
  <2>2. s \in [mon : Nat, check : Int]
    BY <1>4, <1>7
  <2> HIDE DEF s, vis
  <2> QED BY <1>1, <2>1, <2>2, ClampFits DEF vis
<1> QED BY <1>5, <1>6, <1>7

(* What an answer on its way holds is a dashboard.                          *)
LEMMA GotIsDashboard ==
  ASSUME NEW x \in FetchStates, x.step = "answered" PROVE x.got \in Dashboards
BY DEF FetchStates, Free, Asked, Failed, Got

LEMMA StepInv == IInv /\ [Next]_vars => IInv'
<1> SUFFICES ASSUME IInv, [Next]_vars PROVE IInv'
  OBVIOUS
<1> USE DEF IInv
<1>a. CASE CancelFilter
  <2>1. Fits(sel', Visible(health, NoQuery))
    BY <1>a, SelectionFits DEF CancelFilter, TypeOK
  <2>2. TypeOK'
    BY <1>a, <2>1, FitsType DEF CancelFilter, TypeOK, FilterValues
  <2>3. Placed'
    BY <1>a, <2>1 DEF CancelFilter, Placed
  <2> QED BY <2>2, <2>3
<1>b. CASE ApplyFilter
  BY <1>b DEF ApplyFilter, TypeOK, Placed
<1>c. ASSUME NEW q \in FilterValues, TypeInFilter(q) PROVE IInv'
  <2>1. Fits(sel', Visible(health, q))
    BY <1>c, SelectionFits DEF TypeInFilter, TypeOK
  <2>2. TypeOK'
    BY <1>c, <2>1, FitsType DEF TypeInFilter, TypeOK
  <2>3. Placed'
    BY <1>c, <2>1 DEF TypeInFilter, Placed
  <2> QED BY <2>2, <2>3
<1>d. CASE Quit
  BY <1>d DEF Quit, TypeOK, Placed
<1>e. CASE OpenFilter
  BY <1>e DEF OpenFilter, TypeOK, Placed
<1>f. CASE Refresh \/ Tick
  BY <1>f DEF Refresh, Tick, StartFetch, TypeOK, Placed, FetchStates
<1>g. ASSUME NEW d \in {-1, 1}, MoveMonitor(d) \/ MoveCheck(d) PROVE IInv'
  <2>1. Fits(sel', Visible(health, query))
    BY <1>g, MovesFit
  <2>2. UNCHANGED <<health, err, query, filtering, fetch, timers, serving, current, quit>>
    BY <1>g DEF MoveMonitor, MoveCheck
  <2>3. TypeOK'
    BY <2>1, <2>2, FitsType DEF TypeOK
  <2>4. Placed'
    BY <2>1, <2>2 DEF Placed
  <2> QED BY <2>3, <2>4
<1>h. ASSUME NEW f \in Fetches, Reply(f) \/ FetchFails(f) \/ ErrorAnswer(f) PROVE IInv'
  BY <1>h DEF Reply, FetchFails, ErrorAnswer, TypeOK, Placed, FetchStates
<1>i. ASSUME NEW f \in Fetches, Answer(f) PROVE IInv'
  <2>1. fetch[f].got \in Dashboards
    BY <1>i, GotIsDashboard DEF Answer, TypeOK
  <2>2. Fits(sel', Visible(fetch[f].got, query))
    BY <1>i, <2>1, SelectionFits DEF Answer
  <2>3. fetch' \in [Fetches -> FetchStates]
    BY <1>i DEF Answer, TypeOK, FetchStates
  <2>4. TypeOK'
    BY <1>i, <2>1, <2>2, <2>3, FitsType DEF Answer, TypeOK
  <2>5. Placed'
    BY <1>i, <2>2 DEF Answer, Placed
  <2> QED BY <2>4, <2>5
<1>j. CASE DaemonChanges
  BY <1>j DEF DaemonChanges, TypeOK, Placed
<1>k. CASE UNCHANGED vars
  BY <1>k DEF vars, TypeOK, Placed
<1> QED BY <1>a, <1>b, <1>c, <1>d, <1>e, <1>f, <1>g, <1>h, <1>i, <1>j, <1>k DEF Next, Arrives

THEOREM Invariant == Spec => []IInv
BY InitInv, StepInv, PTL DEF Spec

(* There is one chain of ticks, whatever the user presses, and the           *)
(* selection is none or a pair of indices (model.go, nav.go).                *)
THEOREM TypeCorrect == Spec => []TypeOK
<1>1. IInv => TypeOK
  BY DEF IInv
<1> QED BY <1>1, Invariant, PTL

-----------------------------------------------------------------------------
(* What is marked is what is described.                                     *)

(* The bars of a card are its newest checks.                                *)
LEMMA BarProperties ==
  ASSUME NEW m \in Cards
  PROVE  /\ RenderBar(m) \in Seq(Checks) /\ Len(RenderBar(m)) = ShownCount(m)
         /\ DOMAIN RenderBar(m) = 1 .. ShownCount(m)
         /\ RenderBar(m) = <<>> <=> ShownCount(m) = 0
         /\ \A i \in 1 .. ShownCount(m) : RenderBar(m)[i] = m.recent[BarStart(m) + i]
<1> DEFINE s == m.recent
           a == BarStart(m) + 1
           b == Len(s)
<1>1. /\ s \in Seq(Checks) /\ b \in Nat
      /\ BarStart(m) \in Nat /\ ShownCount(m) \in Nat
      /\ BarStart(m) + ShownCount(m) = b
      /\ BarStart(m) = IF b > BarLen THEN b - BarLen ELSE 0
  BY CardProperties DEF BarStart
<1>3. RenderBar(m) = IF b > BarLen THEN SubSeq(s, b - BarLen + 1, b) ELSE s
  BY DEF RenderBar
<1>0. b = Len(s)
  OBVIOUS
<1> HIDE DEF s, b
<1>2. a \in 1 .. b + 1 /\ b \in a - 1 .. b /\ b - a + 1 = ShownCount(m)
  BY <1>1
<1> HIDE DEF a
<1>4. /\ SubSeq(s, a, b) \in Seq(Checks)
      /\ Len(SubSeq(s, a, b)) = ShownCount(m)
      /\ \A i \in 1 .. ShownCount(m) : SubSeq(s, a, b)[i] = s[a + i - 1]
  <2>1. a \in Int /\ b \in Int /\ a <= b + 1 /\ ShownCount(m) = b - a + 1
    BY <1>1, <1>2
  <2>2. \A i \in a .. b : s[i] \in Checks
    BY <1>0, <1>1, <1>2
  <2>3. /\ SubSeq(s, a, b) \in Seq(Checks)
        /\ Len(SubSeq(s, a, b)) = IF a <= b THEN b - a + 1 ELSE 0
        /\ \A i \in 1 .. b - a + 1 : SubSeq(s, a, b)[i] = s[a + i - 1]
    BY <2>1, <2>2, SubSeqProperties
  <2>4. (IF a <= b THEN b - a + 1 ELSE 0) = b - a + 1
    BY <2>1
  <2> QED BY <2>1, <2>3, <2>4
<1>5. \A i \in 1 .. ShownCount(m) : a + i - 1 = BarStart(m) + i
  BY <1>1 DEF a
<1>6. /\ RenderBar(m) \in Seq(Checks) /\ Len(RenderBar(m)) = ShownCount(m)
      /\ \A i \in 1 .. ShownCount(m) : RenderBar(m)[i] = s[BarStart(m) + i]
  <2>1. CASE b > BarLen
    <3>1. b - BarLen + 1 = a
      BY <1>1, <2>1 DEF a
    <3>2. RenderBar(m) = SubSeq(s, a, b)
      BY <1>3, <2>1, <3>1
    <3> QED BY <1>4, <1>5, <3>2
  <2>2. CASE ~(b > BarLen)
    <3>1. RenderBar(m) = s
      BY <1>3, <2>2
    <3>2. BarStart(m) = 0 /\ ShownCount(m) = b
      BY <1>1, <2>2
    <3>3. \A i \in 1 .. ShownCount(m) : BarStart(m) + i = i
      BY <3>2
    <3> QED BY <1>0, <1>1, <3>1, <3>2, <3>3
  <2> QED BY <2>1, <2>2
<1>7. DOMAIN RenderBar(m) = 1 .. ShownCount(m)
  BY <1>6, LenProperties
<1>8. RenderBar(m) = <<>> <=> ShownCount(m) = 0
  BY <1>6, EmptySeq
<1> QED BY <1>6, <1>7, <1>8 DEF s

LEMMA DescribedOfInv == IInv => MarkedIsDescribed
<1> SUFFICES ASSUME IInv, Body # <<>> PROVE MarkedIsDescribed
  BY DEF MarkedIsDescribed
<1> DEFINE vis == Visible(health, query)
           n == Len(vis)
           c(i) == IF sel # NoSel /\ sel.mon + 1 = i THEN sel.check ELSE -1
<1>1. vis \in Seq(Cards) /\ n \in Nat
  BY HealthIsSeq, VisibleType, LenProperties DEF IInv, TypeOK
<1>2. Fits(sel, vis)
  BY DEF IInv, Placed
<1>3. Body = [i \in 1 .. n |-> RenderCard(vis[i], c(i))]
  BY DEF Body
<1> HIDE DEF vis, n
<1>4. DOMAIN Body = 1 .. n /\ \A i \in 1 .. n : Body[i] = RenderCard(vis[i], c(i))
  BY <1>3
<1>5. ASSUME NEW i \in DOMAIN Body
      PROVE  Body[i].active <=> sel # NoSel /\ i = sel.mon + 1
  <2>1. Body[i].active = (c(i) >= 0)
    BY <1>4 DEF RenderCard
  <2>2. sel # NoSel => sel.check \in Nat /\ sel.mon \in Nat
    BY <1>2 DEF Fits
  <2>3. CASE sel # NoSel /\ i = sel.mon + 1
    <3>1. (c(i) >= 0) = TRUE
      BY <2>2, <2>3
    <3> HIDE DEF c
    <3> QED BY <2>1, <2>3, <3>1, Zenon
  <2>4. CASE ~(sel # NoSel /\ i = sel.mon + 1)
    <3>1. (c(i) >= 0) = FALSE
      BY <2>4
    <3> HIDE DEF c
    <3> QED BY <2>1, <2>4, <3>1, Zenon
  <2> QED BY <2>3, <2>4
<1>6. sel = NoSel => Detail = NoPanel
  BY DEF Detail
<1>7. ASSUME sel # NoSel
      PROVE  /\ sel.mon + 1 \in DOMAIN Body
             /\ LET card == Body[sel.mon + 1]
                IN  IF card.bars = <<>> THEN card.marker = NoMarker /\ Detail = NoPanel
                    ELSE /\ card.marker + 1 \in DOMAIN card.bars
                         /\ Detail = [name |-> card.name, check |-> <<card.bars[card.marker + 1]>>]
  <2> DEFINE j == sel.mon + 1
             m == vis[j]
             k == sel.check
  <2>1. /\ sel.mon \in Nat /\ k \in Nat /\ sel.mon < n
        /\ k = 0 \/ k < ShownCount(m)
    BY <1>2, <1>7 DEF Fits, n
  <2>2. j \in 1 .. n
    BY <1>1, <2>1
  <2>3. m \in Cards
    BY <1>1, <2>2, ElementOfSeq DEF n
  <2>4. Body[j] = RenderCard(m, k)
    BY <1>4, <1>7, <2>2
  <2>5. Body[j].name = m.name /\ Body[j].bars = RenderBar(m) /\ Body[j].marker = RenderMarker(m, k)
    BY <2>4 DEF RenderCard
  <2>6. /\ m.recent \in Seq(Checks) /\ Len(m.recent) \in Nat
        /\ BarStart(m) \in Nat /\ ShownCount(m) \in Nat
        /\ BarStart(m) + ShownCount(m) = Len(m.recent)
        /\ ShownCount(m) = IF Len(m.recent) > BarLen THEN BarLen ELSE Len(m.recent)
    BY <2>3, CardProperties
  <2>7. /\ DOMAIN RenderBar(m) = 1 .. ShownCount(m)
        /\ RenderBar(m) = <<>> <=> ShownCount(m) = 0
        /\ \A i \in 1 .. ShownCount(m) : RenderBar(m)[i] = m.recent[BarStart(m) + i]
    BY <2>3, BarProperties
  <2>8. Detail = IF BarStart(m) + k < Len(m.recent)
                 THEN [name |-> m.name, check |-> <<m.recent[BarStart(m) + k + 1]>>]
                 ELSE NoPanel
    <3>1. sel.mon < Len(vis) /\ BarStart(m) + k >= 0
      BY <2>1, <2>6 DEF n
    <3> QED BY <1>7, <3>1 DEF Detail, vis
  <2> HIDE DEF m, k, j
  <2>9. CASE ShownCount(m) = 0
    <3>1. RenderMarker(m, k) = NoMarker
      BY <2>1, <2>6, <2>9 DEF RenderMarker
    <3>2. Detail = NoPanel
      BY <2>1, <2>6, <2>8, <2>9
    <3>3. Body[j].bars = <<>> /\ Body[j].marker = NoMarker
      BY <2>5, <2>7, <2>9, <3>1
    <3> QED BY <1>4, <2>2, <3>2, <3>3 DEF j
  <2>10. CASE ShownCount(m) # 0
    <3>1. k < ShownCount(m)
      BY <2>1, <2>6, <2>10
    <3>2. RenderMarker(m, k) = k
      BY <2>1, <2>6, <3>1 DEF RenderMarker
    <3>3. k + 1 \in 1 .. ShownCount(m) /\ BarStart(m) + k < Len(m.recent)
          /\ BarStart(m) + (k + 1) = BarStart(m) + k + 1
      BY <2>1, <2>6, <3>1
    <3>4. Detail = [name |-> m.name, check |-> <<RenderBar(m)[k + 1]>>]
      BY <2>7, <2>8, <3>3
    <3>5. Body[j].bars # <<>> /\ Body[j].marker = k
      BY <2>5, <2>7, <2>10, <3>2
    <3>6. k + 1 \in DOMAIN Body[j].bars
      BY <2>5, <2>7, <3>3
    <3> QED BY <1>4, <2>2, <2>5, <3>4, <3>5, <3>6 DEF j
  <2> QED BY <2>9, <2>10
<1> QED BY <1>5, <1>6, <1>7 DEF MarkedIsDescribed

(* Whatever keys, ticks and answers came, in whatever order: the panel       *)
(* (model.go, detail) describes the check of the bar above the marker        *)
(* (view.go), and there is a panel exactly when that bar is there.           *)
THEOREM MarkedIsDescribedHolds == Spec => []MarkedIsDescribed
BY Invariant, DescribedOfInv, PTL
=============================================================================
