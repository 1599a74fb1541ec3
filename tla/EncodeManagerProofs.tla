------------------------ MODULE EncodeManagerProofs ------------------------
(***************************************************************************)
(* Proofs about the rectangles of a region and what becomes of them: an    *)
(* update that is written and read again (UpdateWriter), and a copied      *)
(* region that is moved rectangle by rectangle (CopyRects).                *)
(***************************************************************************)
EXTENDS UpdateWriter, CopyRects,
        FiniteSetTheorems, SequenceTheorems, WellFoundedInduction, TLAPS

(***************************************************************************)
(* Least and greatest numbers of a set.                                    *)
(***************************************************************************)
\* A set of integers with a lower bound has a least one.
LEMMA LeastAbove ==
  ASSUME NEW S \in SUBSET Int, S # {}, NEW b \in Int, \A x \in S : b <= x
  PROVE  Min(S) \in S /\ \A x \in S : Min(S) <= x
<1> DEFINE N == {x - b : x \in S}
           Least(m) == \A x \in S : m <= x
<1>1. N \in SUBSET Nat /\ N # {}
  <2>1. \A x \in S : x \in Int /\ b <= x
    OBVIOUS
  <2>2. \A x \in S : x - b \in Nat
    BY <2>1
  <2>3. \E x \in S : TRUE
    OBVIOUS
  <2> QED
    BY <2>2, <2>3
<1>2. PICK n \in N : \A j \in N : ~ (<<j, n>> \in OpToRel(<, Nat))
  BY <1>1, NatLessThanWellFounded, WFMin, Zenon
<1>3. \A j \in N : ~ (j < n)
  BY <1>1, <1>2 DEF OpToRel
<1>4. PICK m \in S : n = m - b
  BY <1>2
<1>5. Least(m)
  <2> SUFFICES ASSUME NEW x \in S
               PROVE  m <= x
    OBVIOUS
  <2>1. x - b \in N
    OBVIOUS
  <2>2. ~ (x - b < m - b)
    BY <1>3, <1>4, <2>1
  <2>3. x \in Int /\ m \in Int
    OBVIOUS
  <2> HIDE DEF N
  <2> QED
    BY <2>2, <2>3
<1>6. Min(S) = CHOOSE k \in S : Least(k)
  BY DEF Min
<1> HIDE DEF Least
<1>7. Min(S) \in S /\ Least(Min(S))
  BY <1>5, <1>6
<1> QED
  BY <1>7 DEF Least

\* A finite set of integers has a greatest one.
LEMMA GreatestOf ==
  ASSUME NEW S \in SUBSET Int, S # {}, IsFiniteSet(S)
  PROVE  \E m \in S : \A x \in S : x <= m
<1> DEFINE Good(T) == \E m \in T : \A x \in T : x <= m
           Bad(n) == \E T \in SUBSET Int : /\ T # {} /\ IsFiniteSet(T)
                                           /\ Cardinality(T) = n /\ ~Good(T)
           bad == {n \in Nat : Bad(n)}
<1>1. SUFFICES bad = {}
  <2>1. Cardinality(S) \in Nat
    BY FS_CardinalityType
  <2>2. ~Bad(Cardinality(S))
    BY <1>1, <2>1
  <2> QED
    BY <2>2
<1>2. SUFFICES ASSUME bad # {}
               PROVE  FALSE
  OBVIOUS
<1>3. bad \in SUBSET Nat
  OBVIOUS
<1>4. PICK n \in bad : \A j \in bad : ~ (<<j, n>> \in OpToRel(<, Nat))
  <2> HIDE DEF bad
  <2> QED
    BY <1>2, <1>3, NatLessThanWellFounded, WFMin, Zenon
<1>5. PICK T \in SUBSET Int : T # {} /\ IsFiniteSet(T) /\ Cardinality(T) = n /\ ~Good(T)
  BY <1>4
<1>6. PICK t \in T : TRUE
  BY <1>5
<1> DEFINE U == T \ {t}
<1>7. U \in SUBSET Int /\ IsFiniteSet(U) /\ Cardinality(U) = n - 1 /\ n \in Nat /\ n - 1 < n
  <2>1. IsFiniteSet(U) /\ Cardinality(U) = Cardinality(T) - 1
    BY <1>5, <1>6, FS_RemoveElement
  <2>2. n \in Nat
    BY <1>4
  <2> QED
    BY <1>5, <2>1, <2>2
<1>8. CASE U = {}
  <2>1. t \in Int /\ \A x \in T : x = t
    BY <1>6, <1>8
  <2> QED
    BY <1>5, <1>6, <2>1
<1>9. CASE U # {}
  <2>1. n - 1 \in Nat
    BY <1>7, FS_CardinalityType
  <2>2. <<n - 1, n>> \in OpToRel(<, Nat)
    BY <1>7, <2>1 DEF OpToRel
  <2>3. n - 1 \notin bad
    <3> HIDE DEF bad
    <3> QED
      BY <1>4, <2>2
  <2>4. Good(U)
    BY <1>7, <1>9, <2>1, <2>3
  <2>5. PICK m \in U : \A x \in U : x <= m
    BY <2>4
  <2>6. CASE t <= m
    BY <1>5, <2>5, <2>6
  <2>7. CASE m < t
    <3>1. \A x \in T : x <= t
      BY <1>5, <1>6, <1>7, <2>5, <2>7
    <3> QED
      BY <1>5, <1>6, <3>1
  <2> QED
    BY <1>5, <1>6, <2>5, <2>6, <2>7
<1> QED
  BY <1>8, <1>9

\* What a finite set is mapped to is finite.
LEMMA FiniteImage ==
  ASSUME NEW S, IsFiniteSet(S), NEW f, f = [x \in S |-> f[x]]
  PROVE  IsFiniteSet({f[x] : x \in S})
<1> DEFINE T == {f[x] : x \in S}
<1>1. f \in Surjection(S, T)
  BY DEF Surjection
<1> QED
  BY <1>1, FS_Surjection

\* Which pixels a rectangle has.
LEMMA PixelsMember ==
  ASSUME NEW r \in Rectangle, NEW p
  PROVE  p \in Pixels(r) <=> /\ p \in Point
                             /\ r.x1 <= p[1] /\ p[1] < r.x2
                             /\ r.y1 <= p[2] /\ p[2] < r.y2
  BY DEF Pixels, Rectangle, Point

(***************************************************************************)
(* The rectangles of a region.                                             *)
(***************************************************************************)
\* The columns of R stay the same from y1 to y2 and are others just outside.
IsBand(R, y1, y2) ==
  /\ \A y \in y1 .. y2 - 1 : Columns(R, y) = Columns(R, y1)
  /\ Columns(R, y1 - 1) # Columns(R, y1)
  /\ Columns(R, y2) # Columns(R, y1)

\* The numbers from x1 to x2 are in C, and those just outside are not.
IsRun(C, x1, x2) ==
  /\ x1 .. x2 - 1 \subseteq C
  /\ x1 - 1 \notin C
  /\ x2 \notin C

InBands(R, s) ==
  /\ s \in Rectangle /\ Nonempty(s)
  /\ IsBand(R, s.y1, s.y2)
  /\ IsRun(Columns(R, s.y1), s.x1, s.x2)

\* In a finite set of integers each is followed by one that is the last of a run.
LEMMA RunEnds ==
  ASSUME NEW S \in SUBSET Int, IsFiniteSet(S), NEW x \in S
  PROVE  \E u \in S : u >= x /\ u + 1 \notin S
<1> DEFINE T == {u \in S : \A z \in x .. u : z \in S}
<1>1. T \in SUBSET Int /\ IsFiniteSet(T)
  BY FS_Subset
<1>2. x \in T /\ x \in Int
  OBVIOUS
<1>3. PICK m \in T : \A u \in T : u <= m
  <2> HIDE DEF T
  <2> QED
    BY <1>1, <1>2, GreatestOf
<1>4. m >= x /\ m \in Int
  BY <1>2, <1>3
<1>5. m + 1 \notin T
  BY <1>3, <1>4
<1>6. m + 1 \notin S
  <2> SUFFICES ASSUME m + 1 \in S
               PROVE  m + 1 \in T
    BY <1>5
  <2>1. \A z \in x .. m + 1 : z \in x .. m \/ z = m + 1
    BY <1>2, <1>4
  <2> QED
    BY <1>3, <2>1
<1> QED
  BY <1>3, <1>4, <1>6

\* A region has finitely many columns and rows.
LEMMA FiniteSides ==
  ASSUME NEW R \in SUBSET Point, IsFiniteSet(R)
  PROVE  /\ {p[2] : p \in R} \in SUBSET Int /\ IsFiniteSet({p[2] : p \in R})
         /\ \A y \in Int : Columns(R, y) \in SUBSET Int /\ IsFiniteSet(Columns(R, y))
         /\ \A y \in Int : Columns(R, y) # {} <=> y \in {p[2] : p \in R}
<1>1. \A p \in R : p = <<p[1], p[2]>> /\ p[1] \in Int /\ p[2] \in Int
  BY DEF Point
<1>2. IsFiniteSet({p[2] : p \in R})
  <2> DEFINE f == [p \in R |-> p[2]]
  <2>1. IsFiniteSet({f[p] : p \in R})
    <3>1. f = [p \in R |-> f[p]]
      OBVIOUS
    <3> HIDE DEF f
    <3> QED
      BY <3>1, FiniteImage
  <2> QED
    BY <2>1
<1>3. ASSUME NEW y \in Int
      PROVE  /\ Columns(R, y) \in SUBSET Int /\ IsFiniteSet(Columns(R, y))
             /\ Columns(R, y) # {} <=> y \in {p[2] : p \in R}
  <2> DEFINE f == [p \in R |-> p[1]]
  <2>1. IsFiniteSet({f[p] : p \in R})
    <3>1. f = [p \in R |-> f[p]]
      OBVIOUS
    <3> HIDE DEF f
    <3> QED
      BY <3>1, FiniteImage
  <2>2. Columns(R, y) \subseteq {f[p] : p \in R}
    BY DEF Columns
  <2>3. IsFiniteSet(Columns(R, y))
    <3> HIDE DEF f
    <3> QED
      BY <2>1, <2>2, FS_Subset
  <2>4. Columns(R, y) \in SUBSET Int
    BY <1>1 DEF Columns
  <2>5. Columns(R, y) # {} <=> y \in {p[2] : p \in R}
    BY DEF Columns
  <2> QED
    BY <2>3, <2>4, <2>5
<1> QED
  BY <1>1, <1>2, <1>3

\* A row after which the columns change, from y on.
LEMMA BandEnds ==
  ASSUME NEW R \in SUBSET Point, IsFiniteSet(R), NEW y \in {p[2] : p \in R}
  PROVE  \E u \in {p[2] : p \in R} : u >= y /\ Columns(R, u + 1) # Columns(R, u)
<1> DEFINE ys == {p[2] : p \in R}
<1>1. ys \in SUBSET Int /\ IsFiniteSet(ys)
  BY FiniteSides
<1>2. PICK u \in ys : u >= y /\ u + 1 \notin ys
  <2>1. y \in ys
    OBVIOUS
  <2> HIDE DEF ys
  <2> QED
    BY <1>1, <2>1, RunEnds
<1>3. u \in Int /\ u + 1 \in Int
  <2>1. u \in ys
    OBVIOUS
  <2> HIDE DEF ys
  <2> QED
    BY <1>1, <2>1
<1>4. Columns(R, u) # {} /\ Columns(R, u + 1) = {}
  BY <1>2, <1>3, FiniteSides
<1> QED
  BY <1>2, <1>4

\* The least end of a run or band, as BandRectangles has it.
LEMMA LeastEnd ==
  ASSUME NEW S \in SUBSET Int, NEW b \in Int, S # {}, \A u \in S : b <= u
  PROVE  \E m \in S : /\ Min({z + 1 : z \in S}) = m + 1
                      /\ \A u \in S : m <= u
<1> DEFINE T == {z + 1 : z \in S}
<1>1. T \in SUBSET Int /\ T # {} /\ \A x \in T : b <= x
  <2>1. \A z \in S : z \in Int /\ z + 1 \in Int /\ b <= z + 1
    OBVIOUS
  <2>2. \E z \in S : TRUE
    OBVIOUS
  <2> QED
    BY <2>1, <2>2
<1>2. Min(T) \in T /\ \A x \in T : Min(T) <= x
  <2> HIDE DEF T
  <2> QED
    BY <1>1, LeastAbove
<1>3. PICK m \in S : Min(T) = m + 1
  BY <1>2
<1>4. \A u \in S : m <= u
  <2> SUFFICES ASSUME NEW u \in S
               PROVE  m <= u
    OBVIOUS
  <2>1. u + 1 \in T
    OBVIOUS
  <2>2. m \in Int /\ u \in Int
    OBVIOUS
  <2>3. m + 1 <= u + 1
    BY <1>2, <1>3, <2>1
  <2> HIDE DEF T
  <2> QED
    BY <2>2, <2>3
<1> QED
  BY <1>3, <1>4

\* Before the first change of the columns they are the same.
LEMMA SameUntil ==
  ASSUME NEW R, NEW y \in Int, NEW m \in Int, y <= m,
         \A u \in y .. m - 1 : Columns(R, u) # {} => Columns(R, u + 1) = Columns(R, u),
         Columns(R, y) # {}
  PROVE  \A u \in y .. m : Columns(R, u) = Columns(R, y)
<1> DEFINE bad == {u \in y .. m : Columns(R, u) # Columns(R, y)}
<1> SUFFICES ASSUME bad # {}
             PROVE  FALSE
  OBVIOUS
<1>1. bad \in SUBSET Int /\ \A u \in bad : y <= u
  OBVIOUS
<1>2. Min(bad) \in bad /\ \A u \in bad : Min(bad) <= u
  <2> HIDE DEF bad
  <2> QED
    BY <1>1, LeastAbove
<1>3. PICK u \in bad : \A v \in bad : u <= v
  BY <1>2
<1>4. u \in y .. m /\ Columns(R, u) # Columns(R, y)
  OBVIOUS
<1>5. u - 1 \in y .. m - 1 /\ u - 1 \in y .. m /\ (u - 1) + 1 = u /\ ~ (u <= u - 1)
  BY <1>4
<1>6. Columns(R, u - 1) = Columns(R, y)
  BY <1>3, <1>5
<1> QED
  BY <1>4, <1>5, <1>6

\* A run goes on until the first number that is not followed by the next.
LEMMA RunUntil ==
  ASSUME NEW C \in SUBSET Int, NEW x \in C, NEW m \in C, x <= m,
         \A u \in C : u >= x /\ u + 1 \notin C => m <= u
  PROVE  x .. m \subseteq C
<1> DEFINE bad == {u \in x .. m : u \notin C}
<1> SUFFICES ASSUME bad # {}
             PROVE  FALSE
  OBVIOUS
<1>1. bad \in SUBSET Int /\ (\A u \in bad : x <= u) /\ x \in Int
  OBVIOUS
<1>2. Min(bad) \in bad /\ \A u \in bad : Min(bad) <= u
  <2> HIDE DEF bad
  <2> QED
    BY <1>1, LeastAbove
<1>3. PICK u \in bad : \A v \in bad : u <= v
  BY <1>2
<1>4. u \in x .. m /\ u \notin C /\ u # x /\ u # m
  OBVIOUS
<1>5. u - 1 \in x .. m /\ (u - 1) + 1 = u /\ ~ (u <= u - 1) /\ ~ (m <= u - 1) /\ u - 1 >= x
  BY <1>1, <1>4
<1>6. u - 1 \in C
  BY <1>3, <1>5
<1> QED
  BY <1>4, <1>5, <1>6

\* The ends of BandRectangles, without its table of columns.
RightEnd(R, x, y) ==
  Min({z + 1 : z \in {u \in Columns(R, y) : u >= x /\ u + 1 \notin Columns(R, y)}})
BottomEnd(R, y) ==
  Min({z + 1 : z \in {u \in {p[2] : p \in R} : u >= y /\ Columns(R, u + 1) # Columns(R, u)}})

\* A rectangle starts where a band and a run in it do.
Starts(R, x, y) ==
  /\ y \in {p[2] : p \in R} /\ Columns(R, y - 1) # Columns(R, y)
  /\ x \in Columns(R, y) /\ x - 1 \notin Columns(R, y)

FromTo(R, x, y) == [x1 |-> x, y1 |-> y, x2 |-> RightEnd(R, x, y), y2 |-> BottomEnd(R, y)]

LEMMA BandRectanglesAre ==
  ASSUME NEW R, NEW s
  PROVE  s \in BandRectangles(R) <=> \E x, y : Starts(R, x, y) /\ s = FromTo(R, x, y)
<1> DEFINE ys == {p[2] : p \in R}
           D == ys \cup {y - 1 : y \in ys} \cup {y + 1 : y \in ys}
           columns == [y \in D |-> Columns(R, y)]
           tops == {y \in ys : columns[y - 1] # columns[y]}
           bottom(y) == Min({z + 1 : z \in {u \in ys : u >= y /\ columns[u + 1] # columns[u]}})
           lefts(y) == {x \in columns[y] : x - 1 \notin columns[y]}
           right(x, y) == Min({z + 1 : z \in {u \in columns[y] : u >= x /\ u + 1 \notin columns[y]}})
           box(x, y) == [x1 |-> x, y1 |-> y, x2 |-> right(x, y), y2 |-> bottom(y)]
<1>1. BandRectangles(R) = UNION {{box(x, y) : x \in lefts(y)} : y \in tops}
  BY DEF BandRectangles
<1>2. ASSUME NEW y \in ys
      PROVE  /\ columns[y] = Columns(R, y)
             /\ columns[y - 1] = Columns(R, y - 1)
             /\ columns[y + 1] = Columns(R, y + 1)
  <2>1. y \in D /\ y - 1 \in D /\ y + 1 \in D
    OBVIOUS
  <2> HIDE DEF D
  <2> QED
    BY <2>1
<1> HIDE DEF columns
<1>3. ASSUME NEW y
      PROVE  bottom(y) = BottomEnd(R, y)
  <2>1. {u \in ys : u >= y /\ columns[u + 1] # columns[u]}
          = {u \in ys : u >= y /\ Columns(R, u + 1) # Columns(R, u)}
    BY <1>2
  <2> QED
    BY <2>1 DEF BottomEnd
<1>4. ASSUME NEW y \in ys, NEW x
      PROVE  right(x, y) = RightEnd(R, x, y)
  <2>1. columns[y] = Columns(R, y)
    BY <1>2
  <2> QED
    BY <2>1 DEF RightEnd
<1>5. ASSUME NEW y \in ys, NEW x
      PROVE  box(x, y) = FromTo(R, x, y)
  BY <1>3, <1>4 DEF FromTo
<1>6. ASSUME NEW x, NEW y
      PROVE  y \in tops /\ x \in lefts(y) <=> Starts(R, x, y)
  BY <1>2 DEF Starts
<1>7. \A y : y \in tops => y \in ys
  OBVIOUS
<1> HIDE DEF box, tops, lefts, ys
<1>8. s \in BandRectangles(R) <=> \E x, y : y \in tops /\ x \in lefts(y) /\ s = box(x, y)
  BY <1>1
<1> QED
  BY <1>5, <1>6, <1>7, <1>8

\* Each of the rectangles is a run of a band.
LEMMA InBandsAre ==
  ASSUME NEW R \in SUBSET Point, IsFiniteSet(R), NEW s \in BandRectangles(R)
  PROVE  InBands(R, s)
<1>1. PICK x, y : Starts(R, x, y) /\ s = FromTo(R, x, y)
  BY BandRectanglesAre
<1> DEFINE ys == {p[2] : p \in R}
           C == Columns(R, y)
           S == {u \in ys : u >= y /\ Columns(R, u + 1) # Columns(R, u)}
           T == {u \in C : u >= x /\ u + 1 \notin C}
<1>2. ys \in SUBSET Int /\ y \in ys /\ y \in Int
  <2>1. y \in ys /\ ys \in SUBSET Int
    BY <1>1, FiniteSides DEF Starts
  <2> HIDE DEF ys
  <2> QED
    BY <2>1
<1>3. C \in SUBSET Int /\ IsFiniteSet(C) /\ x \in C /\ x \in Int /\ x - 1 \notin C
  <2>1. C \in SUBSET Int /\ IsFiniteSet(C) /\ x \in C
    BY <1>1, <1>2, FiniteSides DEF Starts
  <2> QED
    BY <1>1, <2>1 DEF Starts
<1>4. S # {}
  BY <1>2, BandEnds
<1>5. PICK b \in S : BottomEnd(R, y) = b + 1 /\ \A u \in S : b <= u
  <2>1. S \in SUBSET Int /\ \A u \in S : y <= u
    <3> HIDE DEF ys
    <3> QED
      BY <1>2
  <2>2. BottomEnd(R, y) = Min({z + 1 : z \in S})
    BY DEF BottomEnd
  <2> HIDE DEF S
  <2> QED
    BY <1>2, <1>4, <2>1, <2>2, LeastEnd
<1>6. PICK r \in T : RightEnd(R, x, y) = r + 1 /\ \A u \in T : r <= u
  <2>1. T # {}
    <3> HIDE DEF C
    <3> QED
      BY <1>3, RunEnds
  <2>2. T \in SUBSET Int /\ \A u \in T : x <= u
    <3> HIDE DEF C
    <3> QED
      BY <1>3
  <2>3. RightEnd(R, x, y) = Min({z + 1 : z \in T})
    BY DEF RightEnd
  <2> HIDE DEF T
  <2> QED
    BY <1>3, <2>1, <2>2, <2>3, LeastEnd
<1>7. b \in Int /\ y <= b /\ b \in ys /\ Columns(R, b + 1) # Columns(R, b)
  <2>1. b \in S
    OBVIOUS
  <2> HIDE DEF ys
  <2> QED
    BY <1>2, <2>1
<1>8. r \in Int /\ x <= r /\ r \in C /\ r + 1 \notin C
  <2> HIDE DEF C
  <2> QED
    BY <1>3
<1>9. s = [x1 |-> x, y1 |-> y, x2 |-> r + 1, y2 |-> b + 1]
  BY <1>1, <1>5, <1>6 DEF FromTo
<1>10. s \in Rectangle /\ Nonempty(s)
  BY <1>2, <1>3, <1>7, <1>8, <1>9 DEF Rectangle, Nonempty
<1>11. x .. r \subseteq C
  <2>1. \A u \in C : u >= x /\ u + 1 \notin C => r <= u
    BY <1>6
  <2> HIDE DEF C
  <2> QED
    BY <1>3, <1>8, <2>1, RunUntil
<1>12. \A u \in y .. b : Columns(R, u) = Columns(R, y)
  <2>1. Columns(R, y) # {}
    BY <1>3
  <2>2. ASSUME NEW u \in y .. b - 1, Columns(R, u) # {}
        PROVE  Columns(R, u + 1) = Columns(R, u)
    <3>1. u \in Int /\ u >= y /\ ~ (b <= u)
      BY <1>2, <1>7
    <3>2. u \in ys
      BY <2>2, <3>1, FiniteSides
    <3>3. u \notin S
      <4> HIDE DEF S
      <4> QED
        BY <1>5, <3>1
    <3> QED
      BY <3>1, <3>2, <3>3
  <2> QED
    BY <1>2, <1>7, <2>1, <2>2, SameUntil
<1>13. IsRun(C, x, r + 1)
  <2>1. (r + 1) - 1 = r
    BY <1>8
  <2> HIDE DEF C
  <2> QED
    BY <1>3, <1>8, <1>11, <2>1 DEF IsRun
<1>14. IsBand(R, y, b + 1)
  <2>1. (b + 1) - 1 = b /\ b \in y .. b
    BY <1>2, <1>7
  <2>2. Columns(R, b) = Columns(R, y)
    BY <1>12, <2>1
  <2> QED
    BY <1>1, <1>7, <1>12, <2>1, <2>2 DEF IsBand, Starts
<1> QED
  BY <1>9, <1>10, <1>13, <1>14 DEF InBands

\* Bands that have a row in common are the same; so are runs that meet.
LEMMA OneBand ==
  ASSUME NEW R, NEW a \in Int, NEW b \in Int, NEW c \in Int, NEW d \in Int,
         IsBand(R, a, b), IsBand(R, c, d), a < b, c < d, b > c, a < d
  PROVE  a = c /\ b = d
<1>1. ASSUME NEW e \in Int, NEW f \in Int, NEW g \in Int, NEW h \in Int,
             IsBand(R, e, f), IsBand(R, g, h), e < f, g < h, f > g
      PROVE  ~ (e < g)
  <2> SUFFICES ASSUME e < g
               PROVE  FALSE
    OBVIOUS
  <2>1. g \in e .. f - 1 /\ g - 1 \in e .. f - 1
    BY <1>1
  <2> QED
    BY <1>1, <2>1 DEF IsBand
<1>2. ~ (a < c)
  BY <1>1
<1>3. ~ (c < a)
  BY <1>1
<1>4. a = c
  BY <1>2, <1>3
<1>5. CASE b < d
  <2>1. b \in c .. d - 1
    BY <1>4, <1>5
  <2> QED
    BY <1>4, <2>1 DEF IsBand
<1>6. CASE d < b
  <2>1. d \in a .. b - 1
    BY <1>4, <1>6
  <2> QED
    BY <1>4, <2>1 DEF IsBand
<1> QED
  BY <1>4, <1>5, <1>6

LEMMA OneRun ==
  ASSUME NEW C, NEW a \in Int, NEW b \in Int, NEW c \in Int, NEW d \in Int,
         IsRun(C, a, b), IsRun(C, c, d), a < b, c < d, b > c, a < d
  PROVE  a = c /\ b = d
<1>1. ASSUME NEW e \in Int, NEW f \in Int, NEW g \in Int, NEW h \in Int,
             IsRun(C, e, f), IsRun(C, g, h), e < f, g < h, f > g
      PROVE  ~ (e < g)
  <2> SUFFICES ASSUME e < g
               PROVE  FALSE
    OBVIOUS
  <2>1. g - 1 \in e .. f - 1
    BY <1>1
  <2> QED
    BY <1>1, <2>1 DEF IsRun
<1>2. ~ (a < c)
  BY <1>1
<1>3. ~ (c < a)
  BY <1>1
<1>4. a = c
  BY <1>2, <1>3
<1>5. CASE b < d
  <2>1. b \in c .. d - 1
    BY <1>4, <1>5
  <2> QED
    BY <2>1 DEF IsRun
<1>6. CASE d < b
  <2>1. d \in a .. b - 1
    BY <1>4, <1>6
  <2> QED
    BY <2>1 DEF IsRun
<1> QED
  BY <1>4, <1>5, <1>6

\* Two of the rectangles are the same, or one comes before the other and not the
\* reverse.
LEMMA BandsOrdered ==
  ASSUME NEW R, NEW r, NEW s, InBands(R, r), InBands(R, s)
  PROVE  /\ r = s \/ Precedes(r, s) \/ Precedes(s, r)
         /\ ~ (Precedes(r, s) /\ Precedes(s, r))
         /\ Pixels(r) \cap Pixels(s) # {} => r = s
<1>1. /\ r = [x1 |-> r.x1, y1 |-> r.y1, x2 |-> r.x2, y2 |-> r.y2]
      /\ s = [x1 |-> s.x1, y1 |-> s.y1, x2 |-> s.x2, y2 |-> s.y2]
      /\ r.x1 \in Int /\ r.y1 \in Int /\ r.x2 \in Int /\ r.y2 \in Int
      /\ s.x1 \in Int /\ s.y1 \in Int /\ s.x2 \in Int /\ s.y2 \in Int
      /\ r.x1 < r.x2 /\ r.y1 < r.y2 /\ s.x1 < s.x2 /\ s.y1 < s.y2
  BY DEF InBands, Rectangle, Nonempty
<1>2. CASE r.y2 <= s.y1
  BY <1>1, <1>2 DEF Precedes, Pixels
<1>3. CASE s.y2 <= r.y1
  BY <1>1, <1>3 DEF Precedes, Pixels
<1>4. CASE ~ (r.y2 <= s.y1) /\ ~ (s.y2 <= r.y1)
  <2>1. r.y1 = s.y1 /\ r.y2 = s.y2
    <3>1. IsBand(R, r.y1, r.y2) /\ IsBand(R, s.y1, s.y2)
      BY DEF InBands
    <3>2. r.y2 > s.y1 /\ r.y1 < s.y2
      BY <1>1, <1>4
    <3> QED
      BY <1>1, <3>1, <3>2, OneBand
  <2>2. IsRun(Columns(R, s.y1), r.x1, r.x2) /\ IsRun(Columns(R, s.y1), s.x1, s.x2)
    BY <2>1 DEF InBands
  <2>3. CASE r.x2 <= s.x1
    BY <1>1, <2>1, <2>3 DEF Precedes, Pixels
  <2>4. CASE s.x2 <= r.x1
    BY <1>1, <2>1, <2>4 DEF Precedes, Pixels
  <2>5. CASE ~ (r.x2 <= s.x1) /\ ~ (s.x2 <= r.x1)
    <3>1. r.x2 > s.x1 /\ r.x1 < s.x2
      BY <1>1, <2>5
    <3>2. r.x1 = s.x1 /\ r.x2 = s.x2
      BY <1>1, <2>2, <3>1, OneRun
    <3>3. r = s
      BY <1>1, <2>1, <3>2
    <3> QED
      BY <1>1, <3>3 DEF Precedes
  <2> QED
    BY <2>3, <2>4, <2>5
<1> QED
  BY <1>2, <1>3, <1>4

\* Coming before is transitive.
LEMMA PrecedesOn ==
  ASSUME NEW q \in Rectangle, NEW r \in Rectangle, NEW s \in Rectangle,
         Nonempty(q), Nonempty(r), Nonempty(s), Precedes(q, r), Precedes(r, s)
  PROVE  Precedes(q, s)
BY DEF Rectangle, Nonempty, Precedes

\* The later one comes, the more come before it.
LEMMA MoreEarlier ==
  ASSUME NEW R, NEW S, IsFiniteSet(S), \A s \in S : InBands(R, s),
         NEW s \in S, NEW t \in S, Precedes(s, t)
  PROVE  Cardinality({r \in S : Precedes(r, s)}) < Cardinality({r \in S : Precedes(r, t)})
<1> DEFINE Earlier(q) == {r \in S : Precedes(r, q)}
<1>1. Earlier(s) \in SUBSET Earlier(t)
  <2> SUFFICES ASSUME NEW r \in S, Precedes(r, s)
               PROVE  Precedes(r, t)
    OBVIOUS
  <2> QED
    BY PrecedesOn DEF InBands
<1>2. s \in Earlier(t) /\ s \notin Earlier(s)
  BY BandsOrdered
<1>3. IsFiniteSet(Earlier(t)) /\ IsFiniteSet(Earlier(s)) /\ Earlier(s) # Earlier(t)
  BY <1>2, FS_Subset
<1> HIDE DEF Earlier
<1>4. /\ Cardinality(Earlier(s)) <= Cardinality(Earlier(t))
      /\ Cardinality(Earlier(s)) # Cardinality(Earlier(t))
  BY <1>1, <1>3, FS_Subset
<1>5. Cardinality(Earlier(s)) \in Nat /\ Cardinality(Earlier(t)) \in Nat
  BY <1>3, FS_CardinalityType
<1>6. Cardinality(Earlier(s)) < Cardinality(Earlier(t))
  BY <1>4, <1>5
<1> QED
  BY <1>6 DEF Earlier

\* A finite set of them has one for each place in the order.
LEMMA PlacesFilled ==
  ASSUME NEW R, NEW S, IsFiniteSet(S), \A s \in S : InBands(R, s)
  PROVE  \A k \in 1 .. Cardinality(S) :
           \E s \in S : Cardinality({r \in S : Precedes(r, s)}) = k - 1
<1> DEFINE Earlier(s) == {r \in S : Precedes(r, s)}
           n == Cardinality(S)
           place == [s \in S |-> Cardinality(Earlier(s)) + 1]
<1>1. n \in Nat
  BY FS_CardinalityType
<1>2. ASSUME NEW s \in S
      PROVE  /\ IsFiniteSet(Earlier(s)) /\ s \notin Earlier(s) /\ Earlier(s) \subseteq S
             /\ Cardinality(Earlier(s)) \in Nat /\ Cardinality(Earlier(s)) <= n - 1
  <2>1. IsFiniteSet(Earlier(s)) /\ Earlier(s) \subseteq S
    BY FS_Subset
  <2>2. s \notin Earlier(s)
    BY BandsOrdered
  <2>3. Earlier(s) \in SUBSET (S \ {s})
    BY <2>1, <2>2
  <2>4. IsFiniteSet(S \ {s}) /\ Cardinality(S \ {s}) = n - 1
    BY FS_RemoveElement
  <2>5. Cardinality(Earlier(s)) <= n - 1
    <3> HIDE DEF Earlier, n
    <3> QED
      BY <2>3, <2>4, FS_Subset
  <2> QED
    BY <2>1, <2>2, <2>5, FS_CardinalityType
<1>3. ASSUME NEW s \in S, NEW t \in S, Precedes(s, t)
      PROVE  Cardinality(Earlier(s)) < Cardinality(Earlier(t))
  BY <1>3, MoreEarlier
<1>4. place \in Injection(S, 1 .. n)
  <2>1. \A s \in S : place[s] \in 1 .. n
    <3> SUFFICES ASSUME NEW s \in S
                 PROVE  Cardinality(Earlier(s)) + 1 \in 1 .. n
      OBVIOUS
    <3>1. Cardinality(Earlier(s)) \in Nat /\ Cardinality(Earlier(s)) <= n - 1
      BY <1>2
    <3> HIDE DEF Earlier, n
    <3> QED
      BY <1>1, <3>1
  <2>2. ASSUME NEW s \in S, NEW t \in S, s # t
        PROVE  place[s] # place[t]
    <3>1. Precedes(s, t) \/ Precedes(t, s)
      BY <2>2, BandsOrdered
    <3>2. Cardinality(Earlier(s)) # Cardinality(Earlier(t))
      <4>1. Cardinality(Earlier(s)) \in Nat /\ Cardinality(Earlier(t)) \in Nat
        BY <1>2
      <4>2. Cardinality(Earlier(s)) < Cardinality(Earlier(t))
            \/ Cardinality(Earlier(t)) < Cardinality(Earlier(s))
        BY <1>3, <3>1
      <4> HIDE DEF Earlier
      <4> QED
        BY <4>1, <4>2
    <3>3. Cardinality(Earlier(s)) \in Nat /\ Cardinality(Earlier(t)) \in Nat
      BY <1>2
    <3>4. place[s] = Cardinality(Earlier(s)) + 1 /\ place[t] = Cardinality(Earlier(t)) + 1
      OBVIOUS
    <3> HIDE DEF Earlier, place
    <3> QED
      BY <3>2, <3>3, <3>4
  <2>3. place \in [S -> 1 .. n]
    <3>1. place = [s \in S |-> place[s]]
      OBVIOUS
    <3> HIDE DEF place
    <3> QED
      BY <2>1, <3>1
  <2> HIDE DEF place
  <2> QED
    BY <2>2, <2>3 DEF Injection, IsInjective
<1>5. place \in Surjection(S, 1 .. n)
  <2>1. IsFiniteSet(1 .. n) /\ Cardinality(1 .. n) = n
    <3> HIDE DEF n
    <3> QED
      BY <1>1, FS_Interval
  <2> HIDE DEF place
  <2> QED
    BY <1>4, <2>1, FS_Injection
<1> SUFFICES ASSUME NEW k \in 1 .. n
             PROVE  \E s \in S : Cardinality(Earlier(s)) = k - 1
  OBVIOUS
<1>6. PICK s \in S : place[s] = k
  <2> HIDE DEF place
  <2> QED
    BY <1>5 DEF Surjection
<1>7. Cardinality(Earlier(s)) + 1 = k /\ Cardinality(Earlier(s)) \in Nat
  BY <1>2, <1>6
<1>8. Cardinality(Earlier(s)) = k - 1
  <2> HIDE DEF Earlier
  <2> QED
    BY <1>7
<1> QED
  BY <1>8

\* There are finitely many, since each has a corner of its own.
LEMMA FiniteBands ==
  ASSUME NEW R \in SUBSET Point, IsFiniteSet(R)
  PROVE  IsFiniteSet(BandRectangles(R))
<1> DEFINE S == BandRectangles(R)
           corner == [s \in S |-> <<s.x1, s.y1>>]
<1>1. ASSUME NEW s \in S
      PROVE  corner[s] \in R /\ s = FromTo(R, corner[s][1], corner[s][2])
  <2>1. PICK x, y : Starts(R, x, y) /\ s = FromTo(R, x, y)
    BY BandRectanglesAre
  <2>2. s.x1 = x /\ s.y1 = y
    BY <2>1 DEF FromTo
  <2>3. corner[s] = <<x, y>>
    BY <2>2
  <2>4. PICK p \in R : p[2] = y /\ p[1] = x
    BY <2>1 DEF Starts, Columns
  <2>5. p = <<x, y>>
    BY <2>4 DEF Point
  <2> QED
    BY <2>1, <2>3, <2>5
<1>2. corner \in Injection(S, R)
  <2>1. corner = [s \in S |-> corner[s]]
    OBVIOUS
  <2> HIDE DEF corner
  <2> QED
    BY <1>1, <2>1 DEF Injection, IsInjective
<1> QED
  BY <1>2, FS_Injection

\* The list rs has each rectangle of R once.
Lists(R, rs) ==
  /\ rs \in Seq(Rectangle)
  /\ Len(rs) = Cardinality(BandRectangles(R))
  /\ \A k \in 1 .. Len(rs) : rs[k] \in BandRectangles(R) /\ InBands(R, rs[k])
  /\ \A j, k \in 1 .. Len(rs) : rs[j] = rs[k] => j = k
  /\ \A s \in BandRectangles(R) : \E k \in 1 .. Len(rs) : rs[k] = s

LEMMA RectanglesOfLists ==
  ASSUME NEW R \in SUBSET Point, IsFiniteSet(R)
  PROVE  Lists(R, RectanglesOf(R))
<1> DEFINE S == BandRectangles(R)
           n == Cardinality(S)
           Earlier(s) == {r \in S : Precedes(r, s)}
           rs == RectanglesOf(R)
<1>1. IsFiniteSet(S) /\ n \in Nat
  BY FiniteBands, FS_CardinalityType
<1>2. \A s \in S : InBands(R, s)
  BY InBandsAre
<1>3. rs = [k \in 1 .. n |-> CHOOSE s \in S : Cardinality(Earlier(s)) = k - 1]
  BY DEF RectanglesOf, InOrder
<1>4. \A k \in 1 .. n : \E s \in S : Cardinality(Earlier(s)) = k - 1
  BY <1>1, <1>2, PlacesFilled
<1> HIDE DEF n, rs, Earlier
<1>5. \A k \in 1 .. n : rs[k] \in S /\ Cardinality(Earlier(rs[k])) = k - 1
  BY <1>3, <1>4
<1>6. \A s \in S : s \in Rectangle
  BY <1>2 DEF InBands
<1>7. DOMAIN rs = 1 .. n /\ rs \in [1 .. n -> S]
  BY <1>3, <1>5
<1> HIDE DEF S
<1>8. rs \in Seq(Rectangle) /\ Len(rs) = n
  BY <1>1, <1>5, <1>6, <1>7
<1>9. ASSUME NEW j \in 1 .. n, NEW k \in 1 .. n, rs[j] = rs[k]
      PROVE  j = k
  <2>1. j - 1 = k - 1 /\ j \in Int /\ k \in Int
    BY <1>1, <1>5, <1>9
  <2> QED
    BY <2>1
<1>10. rs \in Injection(1 .. n, S)
  BY <1>7, <1>9 DEF Injection, IsInjective
<1>11. rs \in Surjection(1 .. n, S)
  <2>1. IsFiniteSet(1 .. n) /\ Cardinality(1 .. n) = n
    BY <1>1, FS_Interval
  <2> QED
    BY <1>1, <1>10, <2>1, FS_Injection DEF n
<1>12. \A s \in S : \E k \in 1 .. n : rs[k] = s
  BY <1>11 DEF Surjection
<1> QED
  BY <1>2, <1>5, <1>8, <1>9, <1>12 DEF Lists, S, n, rs

\* They are listed in the order of the representation.
LEMMA RectanglesOfOrdered ==
  ASSUME NEW R \in SUBSET Point, IsFiniteSet(R),
         NEW j \in 1 .. Len(RectanglesOf(R)), NEW k \in 1 .. Len(RectanglesOf(R)), j < k
  PROVE  Precedes(RectanglesOf(R)[j], RectanglesOf(R)[k])
<1> DEFINE S == BandRectangles(R)
           n == Cardinality(S)
           Earlier(s) == {r \in S : Precedes(r, s)}
           rs == RectanglesOf(R)
<1>1. IsFiniteSet(S) /\ n \in Nat
  BY FiniteBands, FS_CardinalityType
<1>2. \A s \in S : InBands(R, s)
  BY InBandsAre
<1>3. rs = [m \in 1 .. n |-> CHOOSE s \in S : Cardinality(Earlier(s)) = m - 1]
  BY DEF RectanglesOf, InOrder
<1>4. \A m \in 1 .. n : \E s \in S : Cardinality(Earlier(s)) = m - 1
  BY <1>1, <1>2, PlacesFilled
<1>5. Len(rs) = n
  BY RectanglesOfLists DEF Lists
<1>6. j \in 1 .. n /\ k \in 1 .. n
  BY <1>5
<1> HIDE DEF n, rs, Earlier
<1>7. \A m \in 1 .. n : rs[m] \in S /\ Cardinality(Earlier(rs[m])) = m - 1
  BY <1>3, <1>4
<1>8. /\ rs[j] \in S /\ Cardinality(Earlier(rs[j])) = j - 1
      /\ rs[k] \in S /\ Cardinality(Earlier(rs[k])) = k - 1
  BY <1>6, <1>7
<1>9. rs[j] = rs[k] \/ Precedes(rs[j], rs[k]) \/ Precedes(rs[k], rs[j])
  BY <1>2, <1>8, BandsOrdered
<1>10. rs[j] # rs[k]
  BY <1>1, <1>6, <1>8
<1>11. ~ Precedes(rs[k], rs[j])
  <2> SUFFICES ASSUME Precedes(rs[k], rs[j])
               PROVE  FALSE
    OBVIOUS
  <2>1. Cardinality(Earlier(rs[k])) < Cardinality(Earlier(rs[j]))
    BY <1>1, <1>2, <1>8, MoreEarlier DEF Earlier
  <2> QED
    BY <1>1, <1>6, <1>8, <2>1
<1> QED
  BY <1>9, <1>10, <1>11 DEF rs

\* A finite set of integers has a least one.
LEMMA LeastOf ==
  ASSUME NEW S \in SUBSET Int, S # {}, IsFiniteSet(S)
  PROVE  \E m \in S : m - 1 \notin S
<1> DEFINE zs == {-z : z \in S}
           f == [z \in S |-> -z]
<1>1. f = [z \in S |-> f[z]] /\ zs = {f[z] : z \in S}
  <2>1. f = [z \in S |-> f[z]]
    OBVIOUS
  <2>2. \A z \in S : f[z] = -z
    OBVIOUS
  <2> HIDE DEF f
  <2>3. zs = {f[z] : z \in S}
    BY <2>2
  <2> QED
    BY <2>1, <2>3
<1>2. IsFiniteSet(zs)
  <2> HIDE DEF f, zs
  <2> QED
    BY <1>1, FiniteImage
<1>3. zs \in SUBSET Int /\ zs # {}
  <2>1. PICK x \in S : TRUE
    OBVIOUS
  <2>2. -x \in zs
    OBVIOUS
  <2>3. zs \in SUBSET Int
    OBVIOUS
  <2> HIDE DEF zs
  <2> QED
    BY <2>2, <2>3
<1>4. PICK m \in zs : \A z \in zs : z <= m
  <2> HIDE DEF zs
  <2> QED
    BY <1>2, <1>3, GreatestOf
<1>5. PICK x \in S : m = -x
  OBVIOUS
<1>6. x - 1 \notin S
  <2> SUFFICES ASSUME x - 1 \in S
               PROVE  FALSE
    OBVIOUS
  <2>1. -(x - 1) \in zs
    OBVIOUS
  <2>2. -(x - 1) <= m
    BY <1>4, <2>1
  <2> QED
    BY <1>5, <2>2
<1> QED
  BY <1>6

\* A region that is not empty has a rectangle.
LEMMA SomeBand ==
  ASSUME NEW R \in SUBSET Point, IsFiniteSet(R), R # {}
  PROVE  BandRectangles(R) # {}
<1> DEFINE ys == {p[2] : p \in R}
<1>1. ys \in SUBSET Int /\ IsFiniteSet(ys) /\ ys # {}
  <2>1. PICK p \in R : TRUE
    OBVIOUS
  <2>2. p[2] \in ys
    OBVIOUS
  <2>3. ys \in SUBSET Int /\ IsFiniteSet(ys)
    BY FiniteSides
  <2> HIDE DEF ys
  <2> QED
    BY <2>2, <2>3
<1>2. PICK y \in ys : y - 1 \notin ys
  <2> HIDE DEF ys
  <2> QED
    BY <1>1, LeastOf
<1>3. Columns(R, y) # {} /\ Columns(R, y - 1) = {} /\ y \in Int
  <2>1. y \in Int /\ y - 1 \in Int
    BY <1>1
  <2> QED
    BY <1>2, <2>1, FiniteSides
<1>4. Columns(R, y) \in SUBSET Int /\ IsFiniteSet(Columns(R, y))
  BY <1>3, FiniteSides
<1>5. PICK x \in Columns(R, y) : x - 1 \notin Columns(R, y)
  BY <1>3, <1>4, LeastOf
<1>6. Starts(R, x, y)
  BY <1>3, <1>5 DEF Starts
<1> QED
  BY <1>6, BandRectanglesAre

\* Where a run starts to which x belongs.
LEMMA RunStarts ==
  ASSUME NEW C \in SUBSET Int, IsFiniteSet(C), NEW x \in C
  PROVE  \E u \in C : u <= x /\ u - 1 \notin C /\ u .. x \subseteq C
<1> DEFINE T == {u \in C : u <= x /\ \A z \in u .. x : z \in C}
<1>1. T \in SUBSET Int /\ IsFiniteSet(T)
  BY FS_Subset
<1>2. x \in T
  OBVIOUS
<1>3. PICK u \in T : u - 1 \notin T
  <2> HIDE DEF T
  <2> QED
    BY <1>1, <1>2, LeastOf
<1>4. u \in Int /\ x \in Int /\ u <= x /\ u \in C /\ u .. x \subseteq C
  OBVIOUS
<1>5. u - 1 \notin C
  <2> SUFFICES ASSUME u - 1 \in C
               PROVE  FALSE
    OBVIOUS
  <2>1. \A z \in u - 1 .. x : z = u - 1 \/ z \in u .. x
    BY <1>4
  <2>2. u - 1 \in T
    BY <1>4, <2>1
  <2> QED
    BY <1>3, <2>2
<1> QED
  BY <1>4, <1>5

\* Where a band starts to which row y belongs.
LEMMA BandStarts ==
  ASSUME NEW R \in SUBSET Point, IsFiniteSet(R), NEW y \in {p[2] : p \in R}
  PROVE  \E u \in {p[2] : p \in R} :
           /\ u <= y /\ Columns(R, u - 1) # Columns(R, u)
           /\ \A z \in u .. y : Columns(R, z) = Columns(R, y)
<1> DEFINE ys == {p[2] : p \in R}
           T == {u \in ys : u <= y /\ \A z \in u .. y : Columns(R, z) = Columns(R, y)}
<1>1. ys \in SUBSET Int /\ IsFiniteSet(ys) /\ y \in ys
  BY FiniteSides
<1> HIDE DEF ys
<1>2. T \in SUBSET Int /\ IsFiniteSet(T)
  BY <1>1, FS_Subset
<1>3. y \in T
  BY <1>1
<1>4. PICK u \in T : u - 1 \notin T
  <2> HIDE DEF T
  <2> QED
    BY <1>2, <1>3, LeastOf
<1>5. /\ u \in Int /\ y \in Int /\ u <= y /\ u \in ys
      /\ \A z \in u .. y : Columns(R, z) = Columns(R, y)
  BY <1>1
<1>6. Columns(R, u - 1) # Columns(R, u)
  <2> SUFFICES ASSUME Columns(R, u - 1) = Columns(R, u)
               PROVE  FALSE
    OBVIOUS
  <2>1. Columns(R, u) # {}
    BY <1>5, FiniteSides DEF ys
  <2>2. u - 1 \in ys
    <3>1. u - 1 \in Int /\ Columns(R, u - 1) # {}
      BY <1>5, <2>1
    <3> QED
      BY <3>1, FiniteSides DEF ys
  <2>3. Columns(R, u) = Columns(R, y)
    BY <1>5
  <2>4. \A z \in u - 1 .. y : z = u - 1 \/ z \in u .. y
    BY <1>5
  <2>5. \A z \in u - 1 .. y : Columns(R, z) = Columns(R, y)
    BY <1>5, <2>3, <2>4
  <2>6. u - 1 \in T
    BY <1>5, <2>2, <2>5
  <2> QED
    BY <1>4, <2>6
<1> QED
  BY <1>5, <1>6 DEF ys

\* The rectangles have no pixel that the region does not have.
LEMMA BandsInside ==
  ASSUME NEW R \in SUBSET Point, NEW s, InBands(R, s)
  PROVE  Pixels(s) \subseteq R
<1> SUFFICES ASSUME NEW p \in Pixels(s)
             PROVE  p \in R
  OBVIOUS
<1>1. p = <<p[1], p[2]>> /\ p[1] \in s.x1 .. s.x2 - 1 /\ p[2] \in s.y1 .. s.y2 - 1
  BY DEF Pixels
<1>2. p[1] \in Columns(R, p[2])
  BY <1>1 DEF InBands, IsBand, IsRun
<1>3. PICK q \in R : q[2] = p[2] /\ q[1] = p[1]
  BY <1>2 DEF Columns
<1>4. q = <<q[1], q[2]>>
  BY DEF Point
<1> QED
  BY <1>1, <1>3, <1>4

\* And each of its pixels is in one of them.
LEMMA BandsCover ==
  ASSUME NEW R \in SUBSET Point, IsFiniteSet(R), NEW p \in R
  PROVE  \E s \in BandRectangles(R) : p \in Pixels(s)
<1> DEFINE x == p[1]
           y == p[2]
           C == Columns(R, y)
<1>1. p = <<x, y>> /\ x \in Int /\ y \in Int
  BY DEF Point
<1>2. C \in SUBSET Int /\ IsFiniteSet(C)
  BY <1>1, FiniteSides
<1>3. x \in C
  BY DEF Columns
<1>4. PICK v \in {q[2] : q \in R} :
         /\ v <= y /\ Columns(R, v - 1) # Columns(R, v)
         /\ \A z \in v .. y : Columns(R, z) = C
  BY BandStarts
<1>5. v \in Int
  BY <1>4, FiniteSides
<1> HIDE DEF x, y, C
<1>6. PICK u \in C : u <= x /\ u - 1 \notin C /\ u .. x \subseteq C
  BY <1>2, <1>3, RunStarts
<1>7. Columns(R, v) = C
  BY <1>1, <1>4, <1>5
<1>8. Starts(R, u, v)
  BY <1>4, <1>6, <1>7 DEF Starts
<1> DEFINE s == FromTo(R, u, v)
<1>9. s \in BandRectangles(R)
  BY <1>8, BandRectanglesAre
<1>10. InBands(R, s)
  BY <1>9, InBandsAre
<1>11. s.x1 = u /\ s.y1 = v
  BY DEF FromTo
<1> HIDE DEF s
<1>12. s.x1 \in Int /\ s.x2 \in Int /\ s.y1 \in Int /\ s.y2 \in Int
  BY <1>10 DEF InBands, Rectangle
<1>13. x < s.x2
  <2> SUFFICES ASSUME s.x2 <= x
               PROVE  FALSE
    BY <1>1, <1>12
  <2>1. s.x1 < s.x2
    BY <1>10 DEF InBands, Nonempty
  <2>2. s.x2 \in u .. x
    BY <1>1, <1>11, <1>12, <2>1
  <2>3. s.x2 \in C
    BY <1>6, <2>2
  <2> QED
    BY <1>7, <1>10, <1>11, <2>3 DEF InBands, IsRun
<1>14. y < s.y2
  <2> SUFFICES ASSUME s.y2 <= y
               PROVE  FALSE
    BY <1>1, <1>12
  <2>1. s.y1 < s.y2
    BY <1>10 DEF InBands, Nonempty
  <2>2. s.y2 \in v .. y
    BY <1>1, <1>11, <1>12, <2>1
  <2>3. Columns(R, s.y2) = Columns(R, s.y1)
    BY <1>4, <1>7, <1>11, <2>2
  <2> QED
    BY <1>10, <2>3 DEF InBands, IsBand
<1>15. p \in Pixels(s)
  BY <1>1, <1>4, <1>5, <1>6, <1>2, <1>11, <1>12, <1>13, <1>14 DEF Pixels
<1> QED
  BY <1>9, <1>15

\* The rectangles that get_rects gives for a region (its X11 representation) are in
\* the order of the bands, none is empty, and they have its pixels, each once.
THEOREM RectanglesAreExact ==
  ASSUME NEW R \in SUBSET Point, IsFiniteSet(R)
  PROVE  LET rs == RectanglesOf(R)
         IN /\ rs \in Seq(Rectangle)
            /\ Banded(rs)
            /\ UNION {Pixels(rs[k]) : k \in 1 .. Len(rs)} = R
            /\ \A j, k \in 1 .. Len(rs) : j # k => Pixels(rs[j]) \cap Pixels(rs[k]) = {}
<1> DEFINE rs == RectanglesOf(R)
<1>1. Lists(R, rs)
  BY RectanglesOfLists
<1>2. \A j, k \in 1 .. Len(rs) : j < k => Precedes(rs[j], rs[k])
  BY RectanglesOfOrdered
<1> HIDE DEF rs
<1>3. rs \in Seq(Rectangle) /\ Len(rs) \in Nat
  BY <1>1 DEF Lists
<1>4. \A k \in 1 .. Len(rs) : InBands(R, rs[k])
  BY <1>1 DEF Lists
<1>5. Banded(rs)
  <2> SUFFICES ASSUME NEW k \in 1 .. Len(rs)
               PROVE  /\ Nonempty(rs[k])
                      /\ \A l \in k + 1 .. Len(rs) : Precedes(rs[k], rs[l])
    BY DEF Banded
  <2>1. \A l \in k + 1 .. Len(rs) : l \in 1 .. Len(rs) /\ k < l
    BY <1>3
  <2> QED
    BY <1>2, <1>4, <2>1 DEF InBands
<1>6. UNION {Pixels(rs[k]) : k \in 1 .. Len(rs)} \subseteq R
  BY <1>4, BandsInside
<1>7. ASSUME NEW p \in R
      PROVE  \E k \in 1 .. Len(rs) : p \in Pixels(rs[k])
  <2>1. PICK s \in BandRectangles(R) : p \in Pixels(s)
    BY BandsCover
  <2> QED
    BY <1>1, <2>1 DEF Lists
<1>8. \A j, k \in 1 .. Len(rs) : j # k => Pixels(rs[j]) \cap Pixels(rs[k]) = {}
  <2> SUFFICES ASSUME NEW j \in 1 .. Len(rs), NEW k \in 1 .. Len(rs), j # k
               PROVE  Pixels(rs[j]) \cap Pixels(rs[k]) = {}
    OBVIOUS
  <2>1. rs[j] # rs[k]
    BY <1>1 DEF Lists
  <2> QED
    BY <1>4, <2>1, BandsOrdered
<1> QED
  BY <1>3, <1>5, <1>6, <1>7, <1>8 DEF rs

\* The loops of Split and the divisions of computeNumRects count the same steps.
LEMMA DivisionIs ==
  ASSUME NEW w \in Nat, NEW s \in Nat, s # 0
  PROVE  /\ w \div s \in Nat /\ (w \div s) * s <= w
         /\ w < ((w \div s) + 1) * s
  OBVIOUS

LEMMA Multiples ==
  ASSUME NEW j \in Nat, NEW k \in Nat, NEW s \in Nat, j <= k
  PROVE  j * s \in Nat /\ j * s <= k * s
  OBVIOUS

LEMMA AtLeastTimes ==
  ASSUME NEW k \in Nat, NEW s \in Nat, s # 0
  PROVE  k <= k * s
  OBVIOUS

LEMMA StepsCounted ==
  ASSUME NEW a \in Int, NEW b \in Int, a < b, NEW s \in Nat, s # 0
  PROVE  Cardinality({k \in 0 .. b - a : a + k * s < b}) = ((b - a - 1) \div s) + 1
<1> DEFINE q == (b - a - 1) \div s
           S == {k \in 0 .. b - a : a + k * s < b}
<1>1. b - a - 1 \in Nat
  OBVIOUS
<1>2. q \in Nat /\ q * s <= b - a - 1 /\ b - a - 1 < (q + 1) * s
  BY <1>1, DivisionIs
<1> HIDE DEF q
<1>3. q <= q * s
  BY <1>2, AtLeastTimes
<1>4. ASSUME NEW k \in 0 .. q
      PROVE  k \in S
  <2>1. k * s \in Nat /\ k * s <= q * s
    BY <1>2, Multiples
  <2>2. q * s \in Nat
    BY <1>2, Multiples
  <2>3. k \in 0 .. b - a
    BY <1>1, <1>2, <1>3, <2>2
  <2>4. a + k * s < b
    BY <1>1, <1>2, <2>1, <2>2
  <2> QED
    BY <2>3, <2>4
<1>5. ASSUME NEW k \in S
      PROVE  k \in 0 .. q
  <2>1. k \in Nat /\ a + k * s < b
    OBVIOUS
  <2>2. CASE k > q
    <3>1. (q + 1) * s \in Nat /\ (q + 1) * s <= k * s /\ k * s \in Nat
      BY <1>2, <2>1, <2>2, Multiples
    <3> QED
      BY <1>1, <1>2, <2>1, <3>1
  <2> HIDE DEF S
  <2> QED
    BY <1>2, <2>1, <2>2
<1>6. S = 0 .. q
  <2> HIDE DEF S
  <2>1. 0 .. q \subseteq S
    BY <1>4
  <2>2. S \subseteq 0 .. q
    BY <1>5
  <2> QED
    BY <2>1, <2>2
<1>7. Cardinality(0 .. q) = q + 1
  BY <1>2, FS_Interval
<1> QED
  BY <1>6, <1>7 DEF S, q

\* A sequence, whatever its elements are.
IsList(s) == \E S : s \in Seq(S)

LEMMA ListOf ==
  ASSUME NEW n \in Nat, NEW s, s = [k \in 1 .. n |-> s[k]]
  PROVE  IsList(s) /\ Len(s) = n /\ DOMAIN s = 1 .. n
<1>1. s \in [1 .. n -> {s[k] : k \in 1 .. n}]
  OBVIOUS
<1>2. s \in Seq({s[k] : k \in 1 .. n})
  BY <1>1
<1>3. IsList(s)
  BY <1>2, Zenon DEF IsList
<1>4. DOMAIN s = 1 .. n /\ DOMAIN s = 1 .. Len(s) /\ Len(s) \in Nat
  BY <1>2, LenProperties
<1> QED
  BY <1>3, <1>4

LEMMA ListIs ==
  ASSUME NEW s, IsList(s)
  PROVE  /\ Len(s) \in Nat /\ DOMAIN s = 1 .. Len(s)
         /\ s = [k \in 1 .. Len(s) |-> s[k]]
<1>1. PICK S : s \in Seq(S)
  BY DEF IsList
<1> QED
  BY <1>1

LEMMA ConcatList ==
  ASSUME NEW s, NEW t, IsList(s), IsList(t)
  PROVE  /\ IsList(s \o t) /\ Len(s \o t) = Len(s) + Len(t)
         /\ \A k \in 1 .. Len(s) : (s \o t)[k] = s[k]
         /\ \A k \in 1 .. Len(t) : (s \o t)[Len(s) + k] = t[k]
         /\ \A k \in 1 .. Len(s \o t) :
              \/ k \in 1 .. Len(s) /\ (s \o t)[k] = s[k]
              \/ k - Len(s) \in 1 .. Len(t) /\ (s \o t)[k] = t[k - Len(s)]
<1>1. PICK S : s \in Seq(S)
  BY DEF IsList
<1>2. PICK T : t \in Seq(T)
  BY DEF IsList
<1>3. s \in Seq(S \cup T) /\ t \in Seq(S \cup T)
  BY <1>1, <1>2
<1>4. /\ s \o t \in Seq(S \cup T) /\ Len(s \o t) = Len(s) + Len(t)
      /\ \A k \in 1 .. Len(s) + Len(t) :
           (s \o t)[k] = IF k <= Len(s) THEN s[k] ELSE t[k - Len(s)]
  BY <1>3, ConcatProperties
<1>5. IsList(s \o t) /\ Len(s) \in Nat /\ Len(t) \in Nat
  BY <1>3, <1>4 DEF IsList
<1> QED
  BY <1>4, <1>5

LEMMA EmptyList ==
  IsList(<<>>) /\ Len(<<>>) = 0 /\ DOMAIN <<>> = {}
<1>1. <<>> \in Seq({})
  OBVIOUS
<1> QED
  BY <1>1 DEF IsList

LEMMA OneList ==
  ASSUME NEW e
  PROVE  IsList(<<e>>) /\ Len(<<e>>) = 1 /\ DOMAIN <<e>> = {1} /\ <<e>>[1] = e
<1>1. <<e>> \in Seq({e})
  OBVIOUS
<1>2. IsList(<<e>>)
  BY <1>1, Zenon DEF IsList
<1> QED
  BY <1>2

\* A set of numbers that is not empty has a least one.
LEMMA LeastNat ==
  ASSUME NEW S \in SUBSET Nat, S # {}
  PROVE  \E m \in S : /\ \A x \in S : m <= x
                      /\ m # 0 => m - 1 \in Nat \ S
<1>1. S \in SUBSET Int /\ \A m \in S : 0 <= m
  OBVIOUS
<1>2. Min(S) \in S /\ \A x \in S : Min(S) <= x
  BY <1>1, LeastAbove
<1> DEFINE m == Min(S)
<1> HIDE DEF m
<1>3. m \in S /\ \A x \in S : m <= x
  BY <1>2 DEF m
<1>4. m # 0 => m - 1 \in Nat \ S
  BY <1>3
<1> QED
  BY <1>3, <1>4

\* The function that adds up the first numbers of num exists.
LEMMA SumsExist ==
  ASSUME NEW n \in Nat, NEW num
  PROVE  \E f : f = [k \in 0 .. n |-> IF k = 0 THEN 0 ELSE f[k - 1] + num[k]]
<1> DEFINE Good(m) == \E f : f = [k \in 0 .. m |-> IF k = 0 THEN 0 ELSE f[k - 1] + num[k]]
           Bad == {m \in Nat : ~ Good(m)}
<1>1. Good(0)
  <2> DEFINE f == [k \in 0 .. 0 |-> 0]
  <2>1. f = [k \in 0 .. 0 |-> IF k = 0 THEN 0 ELSE f[k - 1] + num[k]]
    OBVIOUS
  <2> HIDE DEF f
  <2> QED
    BY <2>1
<1>2. ASSUME NEW m \in Nat, Good(m)
      PROVE  Good(m + 1)
  <2>1. PICK g : g = [k \in 0 .. m |-> IF k = 0 THEN 0 ELSE g[k - 1] + num[k]]
    BY <1>2
  <2> DEFINE f == [k \in 0 .. m + 1 |-> IF k = m + 1 THEN g[m] + num[m + 1] ELSE g[k]]
  <2>2. ASSUME NEW k \in 0 .. m + 1
        PROVE  f[k] = IF k = 0 THEN 0 ELSE f[k - 1] + num[k]
    <3>1. CASE k = m + 1
      <4>1. f[k] = g[m] + num[m + 1] /\ f[k - 1] = g[m]
        BY <3>1
      <4> HIDE DEF f
      <4> QED
        BY <3>1, <4>1
    <3>2. CASE k # m + 1
      <4>1. k \in 0 .. m /\ f[k] = g[k]
        BY <3>2
      <4>2. g[k] = IF k = 0 THEN 0 ELSE g[k - 1] + num[k]
        BY <2>1, <4>1
      <4>3. k # 0 => k - 1 \in 0 .. m + 1 /\ k - 1 # m + 1
        BY <4>1
      <4>4. k # 0 => f[k - 1] = g[k - 1]
        BY <4>3
      <4> HIDE DEF f
      <4> QED
        BY <4>1, <4>2, <4>4
    <3> QED
      BY <3>1, <3>2
  <2>3. f = [k \in 0 .. m + 1 |-> f[k]]
    OBVIOUS
  <2>4. f = [k \in 0 .. m + 1 |-> IF k = 0 THEN 0 ELSE f[k - 1] + num[k]]
    <3> HIDE DEF f
    <3> QED
      BY <2>2, <2>3
  <2> HIDE DEF f
  <2> QED
    BY <2>4
<1> HIDE DEF Good
<1>3. Bad = {}
  <2> SUFFICES ASSUME Bad # {}
               PROVE  FALSE
    OBVIOUS
  <2>1. Bad \in SUBSET Nat
    OBVIOUS
  <2>2. PICK m \in Bad : m # 0 => m - 1 \in Nat \ Bad
    <3> HIDE DEF Bad
    <3> QED
      BY <2>1, LeastNat
  <2>3. m \in Nat /\ m - 1 \in Nat /\ Good(m - 1)
    BY <1>1, <2>2
  <2>4. Good((m - 1) + 1) /\ (m - 1) + 1 = m
    BY <1>2, <2>3
  <2> QED
    BY <2>4
<1> QED
  BY <1>3 DEF Good

\* So does the one that puts the first sequences of seqs together.
LEMMA ConcatsExist ==
  ASSUME NEW n \in Nat, NEW seqs
  PROVE  \E f : f = [k \in 1 .. n |-> IF k = 1 THEN seqs[k] ELSE f[k - 1] \o seqs[k]]
<1> DEFINE Good(m) ==
             \E f : f = [k \in 1 .. m |-> IF k = 1 THEN seqs[k] ELSE f[k - 1] \o seqs[k]]
           Bad == {m \in Nat : ~ Good(m)}
<1>1. Good(0)
  <2> DEFINE f == [k \in 1 .. 0 |-> 0]
  <2>1. f = [k \in 1 .. 0 |-> IF k = 1 THEN seqs[k] ELSE f[k - 1] \o seqs[k]]
    OBVIOUS
  <2> HIDE DEF f
  <2> QED
    BY <2>1
<1>2. ASSUME NEW m \in Nat, Good(m)
      PROVE  Good(m + 1)
  <2>1. PICK g : g = [k \in 1 .. m |-> IF k = 1 THEN seqs[k] ELSE g[k - 1] \o seqs[k]]
    BY <1>2
  <2> DEFINE new == IF m = 0 THEN seqs[m + 1] ELSE g[m] \o seqs[m + 1]
             f == [k \in 1 .. m + 1 |-> IF k = m + 1 THEN new ELSE g[k]]
  <2>2. ASSUME NEW k \in 1 .. m + 1
        PROVE  f[k] = IF k = 1 THEN seqs[k] ELSE f[k - 1] \o seqs[k]
    <3>1. CASE k = m + 1
      <4>1. f[k] = new /\ (m # 0 => f[k - 1] = g[m])
        BY <3>1
      <4> HIDE DEF f
      <4> QED
        BY <3>1, <4>1
    <3>2. CASE k # m + 1
      <4>1. k \in 1 .. m /\ f[k] = g[k]
        BY <3>2
      <4>2. g[k] = IF k = 1 THEN seqs[k] ELSE g[k - 1] \o seqs[k]
        BY <2>1, <4>1
      <4>3. k # 1 => k - 1 \in 1 .. m + 1 /\ k - 1 # m + 1
        BY <4>1
      <4>4. k # 1 => f[k - 1] = g[k - 1]
        BY <4>3
      <4> HIDE DEF f
      <4> QED
        BY <4>1, <4>2, <4>4
    <3> QED
      BY <3>1, <3>2
  <2>3. f = [k \in 1 .. m + 1 |-> f[k]]
    OBVIOUS
  <2>4. f = [k \in 1 .. m + 1 |-> IF k = 1 THEN seqs[k] ELSE f[k - 1] \o seqs[k]]
    <3> HIDE DEF f
    <3> QED
      BY <2>2, <2>3
  <2> HIDE DEF f
  <2> QED
    BY <2>4
<1> HIDE DEF Good
<1>3. Bad = {}
  <2> SUFFICES ASSUME Bad # {}
               PROVE  FALSE
    OBVIOUS
  <2>1. Bad \in SUBSET Nat
    OBVIOUS
  <2>2. PICK m \in Bad : m # 0 => m - 1 \in Nat \ Bad
    <3> HIDE DEF Bad
    <3> QED
      BY <2>1, LeastNat
  <2>3. m \in Nat /\ m - 1 \in Nat /\ Good(m - 1)
    BY <1>1, <2>2
  <2>4. Good((m - 1) + 1) /\ (m - 1) + 1 = m
    BY <1>2, <2>3
  <2> QED
    BY <2>4
<1> QED
  BY <1>3 DEF Good

\* What FlattenSeq returns: as many elements as the sequences have together, each
\* of them from one of the sequences.
From(seqs, e) ==
  \E m \in 1 .. Len(seqs) : \E j \in 1 .. Len(seqs[m]) : e = seqs[m][j]

LEMMA FlattenList ==
  ASSUME NEW seqs, IsList(seqs), \A m \in 1 .. Len(seqs) : IsList(seqs[m]),
         NEW sums,
         sums = [k \in 0 .. Len(seqs) |-> IF k = 0 THEN 0 ELSE sums[k - 1] + Len(seqs[k])]
  PROVE  /\ IsList(FlattenSeq(seqs)) /\ Len(FlattenSeq(seqs)) = sums[Len(seqs)]
         /\ \A k \in 1 .. Len(FlattenSeq(seqs)) : From(seqs, FlattenSeq(seqs)[k])
<1> DEFINE n == Len(seqs)
<1>1. n \in Nat
  BY ListIs
<1>2. sums[0] = 0 /\ \A k \in 1 .. n : sums[k] = sums[k - 1] + Len(seqs[k])
  <2>1. \A k \in 0 .. n : sums[k] = IF k = 0 THEN 0 ELSE sums[k - 1] + Len(seqs[k])
    OBVIOUS
  <2> HIDE DEF n
  <2>2. sums[0] = 0
    BY <1>1, <2>1
  <2>3. ASSUME NEW k \in 1 .. n
        PROVE  sums[k] = sums[k - 1] + Len(seqs[k])
    <3>1. k \in 0 .. n /\ k # 0
      BY <1>1
    <3> QED
      BY <2>1, <3>1
  <2> QED
    BY <2>2, <2>3
<1>3. CASE n = 0
  <2>1. FlattenSeq(seqs) = seqs
    BY <1>3 DEF FlattenSeq
  <2>2. \A k \in 1 .. Len(seqs) : FALSE
    BY <1>3
  <2> QED
    BY <1>2, <1>3, <2>1, <2>2
<1>4. CASE n # 0
  <2> DEFINE f == CHOOSE f : f = [k \in 1 .. n |->
                                    IF k = 1 THEN seqs[k] ELSE f[k - 1] \o seqs[k]]
  <2>1. FlattenSeq(seqs) = f[n]
    BY <1>4 DEF FlattenSeq
  <2>2. f = [k \in 1 .. n |-> IF k = 1 THEN seqs[k] ELSE f[k - 1] \o seqs[k]]
    <3> HIDE DEF n
    <3> QED
      BY <1>1, ConcatsExist
  <2> HIDE DEF f, n
  <2>3. \A k \in 1 .. n : f[k] = IF k = 1 THEN seqs[k] ELSE f[k - 1] \o seqs[k]
    BY <2>2
  <2> DEFINE Good(k) == /\ IsList(f[k]) /\ Len(f[k]) = sums[k]
                        /\ \A l \in 1 .. Len(f[k]) : From(seqs, f[k][l])
             Bad == {k \in 1 .. n : ~ Good(k)}
  <2>4. ASSUME NEW k \in 1 .. n, k # 1 => Good(k - 1)
        PROVE  Good(k)
    <3>1. IsList(seqs[k])
      BY DEF n
    <3>2. \A l \in 1 .. Len(seqs[k]) : From(seqs, seqs[k][l])
      BY DEF From, n
    <3>3. CASE k = 1
      <4>1. f[k] = seqs[k] /\ sums[k] = 0 + Len(seqs[k]) /\ Len(seqs[k]) \in Nat
        BY <1>2, <2>3, <3>1, <3>3, ListIs
      <4>2. sums[k] = Len(seqs[k])
        BY <4>1
      <4> QED
        BY <3>1, <3>2, <4>1, <4>2
    <3>4. CASE k # 1
      <4> DEFINE a == f[k - 1]
                 b == seqs[k]
      <4>1. f[k] = a \o b /\ sums[k] = sums[k - 1] + Len(b)
        BY <1>2, <2>3, <3>4
      <4>2. IsList(a) /\ Len(a) = sums[k - 1] /\ \A l \in 1 .. Len(a) : From(seqs, a[l])
        BY <2>4, <3>4
      <4>3. IsList(b) /\ \A l \in 1 .. Len(b) : From(seqs, b[l])
        BY <3>1, <3>2
      <4> HIDE DEF a, b
      <4>4. /\ IsList(a \o b) /\ Len(a \o b) = Len(a) + Len(b)
            /\ \A l \in 1 .. Len(a \o b) :
                 \/ l \in 1 .. Len(a) /\ (a \o b)[l] = a[l]
                 \/ l - Len(a) \in 1 .. Len(b) /\ (a \o b)[l] = b[l - Len(a)]
        BY <4>2, <4>3, ConcatList
      <4>5. \A l \in 1 .. Len(a \o b) : From(seqs, (a \o b)[l])
        BY <4>2, <4>3, <4>4
      <4> QED
        BY <4>1, <4>2, <4>4, <4>5
    <3> QED
      BY <3>3, <3>4
  <2> HIDE DEF Good
  <2>5. Bad = {}
    <3> SUFFICES ASSUME Bad # {}
                 PROVE  FALSE
      OBVIOUS
    <3>1. Bad \in SUBSET Nat
      BY <1>1
    <3>2. PICK k \in Bad : k # 0 => k - 1 \in Nat \ Bad
      <4> HIDE DEF Bad
      <4> QED
        BY <3>1, LeastNat
    <3>3. k \in 1 .. n /\ ~ Good(k) /\ (k # 1 => Good(k - 1))
      BY <1>1, <3>2
    <3> QED
      BY <2>4, <3>3
  <2>6. Good(n)
    BY <1>1, <1>4, <2>5
  <2> QED
    BY <2>1, <2>6 DEF Good, n
<1> QED
  BY <1>3, <1>4

\* A rectangle is cut into as many pieces as computeNumRects has counted for it.
LEMMA PiecesCounted ==
  ASSUME NEW r \in Rectangle, Nonempty(r)
  PROVE  /\ IsList(SubRects(r)) /\ Len(SubRects(r)) = NumRects(r)
         /\ NumRects(r) \in Nat \ {0}
<1> DEFINE sw == Min({Width(r), SubRectMaxWidth})
           sh == SubRectMaxArea \div sw
<1>1. /\ r.x1 \in Int /\ r.x2 \in Int /\ r.x1 < r.x2 /\ Width(r) = r.x2 - r.x1
      /\ r.y1 \in Int /\ r.y2 \in Int /\ r.y1 < r.y2 /\ Height(r) = r.y2 - r.y1
  BY DEF Rectangle, Nonempty, Width, Height
<1>2. sw \in Nat /\ sw # 0 /\ sw <= SubRectMaxArea /\ SubRectMaxArea \in Nat
  <2> DEFINE S == {Width(r), SubRectMaxWidth}
  <2>1. S \in SUBSET Int /\ S # {} /\ \A x \in S : 1 <= x
    BY <1>1, SplitAssumption
  <2>2. Min(S) \in S /\ \A x \in S : Min(S) <= x
    <3> HIDE DEF S
    <3> QED
      BY <2>1, LeastAbove
  <2>3. sw \in S /\ sw <= SubRectMaxWidth
    BY <2>2
  <2> HIDE DEF sw
  <2> QED
    BY <2>1, <2>3, SplitAssumption
<1> HIDE DEF sw
<1>3. sh \in Nat /\ sh # 0
  <2>1. sh \in Nat /\ SubRectMaxArea < (sh + 1) * sw
    BY <1>2, DivisionIs
  <2> HIDE DEF sh
  <2>2. sh = 0 => SubRectMaxArea < sw
    BY <1>2, <2>1
  <2> QED
    BY <1>2, <2>1, <2>2
<1> HIDE DEF sh
<1>4. CASE NoSplit(r)
  <2>1. SubRects(r) = <<r>> /\ NumRects(r) = 1
    BY <1>4 DEF SubRects, NumRects
  <2> QED
    BY <2>1, OneList
<1>5. CASE ~ NoSplit(r)
  <2> DEFINE across == Cardinality({k \in 0 .. Width(r) : r.x1 + k * sw < r.x2})
             down == Cardinality({k \in 0 .. Height(r) : r.y1 + k * sh < r.y2})
  <2>1. across = ((Width(r) - 1) \div sw) + 1
    BY <1>1, <1>2, StepsCounted
  <2>2. down = ((Height(r) - 1) \div sh) + 1
    BY <1>1, <1>3, StepsCounted
  <2>3. NumRects(r) = across * down
    BY <1>5, <2>1, <2>2 DEF NumRects, sw, sh
  <2>4. (Width(r) - 1) \div sw \in Nat /\ (Height(r) - 1) \div sh \in Nat
    <3>1. Width(r) - 1 \in Nat /\ Height(r) - 1 \in Nat
      BY <1>1
    <3>2. (Width(r) - 1) \div sw \in Nat
      BY <1>2, <3>1, DivisionIs
    <3>3. (Height(r) - 1) \div sh \in Nat
      BY <1>3, <3>1, DivisionIs
    <3> QED
      BY <3>2, <3>3
  <2>5. SubRects(r) = Split(r, sw, sh)
    BY <1>5 DEF SubRects, sw, sh
  <2>6. Split(r, sw, sh) = [k \in 1 .. across * down |-> Split(r, sw, sh)[k]]
    BY DEF Split
  <2>7. across \in Nat /\ down \in Nat
    BY <2>1, <2>2, <2>4
  <2> HIDE DEF across, down
  <2>11. across * down \in Nat /\ across * down # 0
    <3>1. across # 0 /\ down # 0
      BY <2>1, <2>2, <2>4
    <3>2. across <= across * down
      BY <2>7, <3>1, AtLeastTimes
    <3> QED
      BY <2>7, <3>1, <3>2
  <2> DEFINE n == across * down
             pieces == Split(r, sw, sh)
  <2>8. n \in Nat /\ n # 0
    BY <2>11
  <2>9. pieces = [k \in 1 .. n |-> pieces[k]]
    BY <2>6
  <2> HIDE DEF n, pieces
  <2>10. IsList(pieces) /\ Len(pieces) = n
    BY <2>8, <2>9, ListOf
  <2> QED
    BY <2>3, <2>5, <2>8, <2>10 DEF n, pieces
<1> QED
  BY <1>4, <1>5

\* A sum of numbers that are not zero is as large as there are numbers.
LEMMA SumsGrow ==
  ASSUME NEW n \in Nat, NEW num, \A k \in 1 .. n : num[k] \in Nat \ {0}, NEW sums,
         sums[0] = 0, \A k \in 1 .. n : sums[k] = sums[k - 1] + num[k]
  PROVE  sums[n] \in Nat /\ sums[n] >= n
<1> DEFINE Good(k) == sums[k] \in Nat /\ sums[k] >= k
           Bad == {k \in 0 .. n : ~ Good(k)}
<1>1. ASSUME NEW k \in 1 .. n, Good(k - 1)
      PROVE  Good(k)
  <2>1. sums[k] = sums[k - 1] + num[k] /\ num[k] \in Nat \ {0}
    OBVIOUS
  <2> QED
    BY <1>1, <2>1
<1>2. Good(0)
  OBVIOUS
<1> HIDE DEF Good
<1>3. Bad = {}
  <2> SUFFICES ASSUME Bad # {}
               PROVE  FALSE
    OBVIOUS
  <2>1. Bad \in SUBSET Nat
    OBVIOUS
  <2>2. PICK k \in Bad : k # 0 => k - 1 \in Nat \ Bad
    <3> HIDE DEF Bad
    <3> QED
      BY <2>1, LeastNat
  <2>3. k \in 1 .. n /\ Good(k - 1)
    BY <1>2, <2>2
  <2> QED
    BY <1>1, <2>2, <2>3
<1> QED
  BY <1>3 DEF Good

\* What computeNumRects calculates is what writeRects writes.
LEMMA RectsCounted ==
  ASSUME NEW R \in SUBSET Point, IsFiniteSet(R)
  PROVE  /\ IsList(Rects(R)) /\ Len(Rects(R)) = computeNumRects(R)
         /\ R # {} => Len(Rects(R)) # 0
         /\ \A k \in 1 .. Len(Rects(R)) : Rects(R)[k].kind = "data"
<1> DEFINE items == RectanglesOf(R)
           n == Len(items)
           seqs == [k \in DOMAIN items |-> SubRects(items[k])]
           sums == CHOOSE f : f = [k \in 0 .. n |->
                                     IF k = 0 THEN 0 ELSE f[k - 1] + NumRects(items[k])]
           pieces == FlattenSeq(seqs)
<1>1. n \in Nat /\ DOMAIN items = 1 .. n
      /\ \A k \in 1 .. n : items[k] \in Rectangle /\ Nonempty(items[k])
  <2>1. items \in Seq(Rectangle) /\ \A k \in 1 .. n : InBands(R, items[k])
    BY RectanglesOfLists DEF Lists
  <2> HIDE DEF items
  <2> QED
    BY <2>1 DEF InBands
<1>2. computeNumRects(R) = sums[n]
  BY DEF computeNumRects
<1>3. Rects(R) = [k \in DOMAIN pieces |-> SubRect(pieces[k], screen)]
  BY DEF Rects
<1> HIDE DEF items, n
<1>4. sums = [k \in 0 .. n |-> IF k = 0 THEN 0 ELSE sums[k - 1] + NumRects(items[k])]
  <2> DEFINE num == [k \in 1 .. n |-> NumRects(items[k])]
             Eq(f) == f = [k \in 0 .. n |->
                             IF k = 0 THEN 0 ELSE f[k - 1] + NumRects(items[k])]
  <2>1. PICK f : f = [k \in 0 .. n |-> IF k = 0 THEN 0 ELSE f[k - 1] + num[k]]
    <3> HIDE DEF num
    <3> QED
      BY <1>1, SumsExist
  <2>2. \A k \in 0 .. n : k # 0 => num[k] = NumRects(items[k])
    BY <1>1
  <2> HIDE DEF num
  <2>3. Eq(f)
    BY <2>1, <2>2
  <2>4. sums = CHOOSE g : Eq(g)
    OBVIOUS
  <2> HIDE DEF sums
  <2>5. Eq(sums)
    <3> HIDE DEF Eq
    <3> QED
      BY <2>3, <2>4
  <2> QED
    BY <2>5
<1> HIDE DEF sums
<1>5. IsList(seqs) /\ Len(seqs) = n
  <2>1. seqs = [k \in 1 .. n |-> seqs[k]]
    BY <1>1
  <2> HIDE DEF seqs
  <2> QED
    BY <1>1, <2>1, ListOf
<1>6. \A k \in 1 .. n : seqs[k] = SubRects(items[k])
  BY <1>1
<1>7. \A k \in 1 .. n : IsList(seqs[k]) /\ Len(seqs[k]) = NumRects(items[k])
  BY <1>1, <1>6, PiecesCounted
<1> HIDE DEF seqs
<1>8. sums = [k \in 0 .. Len(seqs) |-> IF k = 0 THEN 0 ELSE sums[k - 1] + Len(seqs[k])]
  <2>1. \A k \in 0 .. n : k # 0 => Len(seqs[k]) = NumRects(items[k])
    BY <1>1, <1>7
  <2>2. [k \in 0 .. n |-> IF k = 0 THEN 0 ELSE sums[k - 1] + NumRects(items[k])]
        = [k \in 0 .. n |-> IF k = 0 THEN 0 ELSE sums[k - 1] + Len(seqs[k])]
    BY <2>1
  <2> QED
    BY <1>4, <1>5, <2>2
<1>9. IsList(pieces) /\ Len(pieces) = sums[n]
  BY <1>5, <1>7, <1>8, FlattenList
<1> HIDE DEF pieces
<1>10. DOMAIN pieces = 1 .. Len(pieces) /\ Len(pieces) \in Nat
  BY <1>9, ListIs
<1>11. Rects(R) = [k \in 1 .. Len(pieces) |-> Rects(R)[k]]
  BY <1>3, <1>10
<1>12. IsList(Rects(R)) /\ Len(Rects(R)) = Len(pieces)
  BY <1>10, <1>11, ListOf
<1>13. \A k \in 1 .. Len(pieces) : Rects(R)[k].kind = "data"
  <2>1. \A k \in 1 .. Len(pieces) : Rects(R)[k] = SubRect(pieces[k], screen)
    BY <1>3, <1>10
  <2>2. \A p : SubRect(p, screen).kind = "data"
    BY DEF SubRect, DataRect
  <2> QED
    BY <2>1, <2>2
<1>14. R # {} => Len(pieces) # 0
  <2> SUFFICES ASSUME R # {}
               PROVE  sums[n] # 0
    BY <1>9
  <2>1. n # 0
    <3>1. n = Cardinality(BandRectangles(R)) /\ IsFiniteSet(BandRectangles(R))
      BY RectanglesOfLists, FiniteBands DEF Lists, n, items
    <3>2. BandRectangles(R) # {}
      BY SomeBand
    <3> QED
      BY <3>1, <3>2, FS_EmptySet
  <2> DEFINE num == [k \in 1 .. n |-> NumRects(items[k])]
  <2>2. \A k \in 1 .. n : num[k] \in Nat \ {0}
    BY <1>1, PiecesCounted
  <2>3. sums[0] = 0
    BY <1>1, <1>4
  <2>4. ASSUME NEW k \in 1 .. n
        PROVE  sums[k] = sums[k - 1] + num[k]
    <3>1. k \in 0 .. n /\ k # 0 /\ num[k] = NumRects(items[k])
      BY <1>1
    <3> HIDE DEF num
    <3> QED
      BY <1>4, <3>1
  <2> HIDE DEF num
  <2>5. sums[n] \in Nat /\ sums[n] >= n
    BY <1>1, <2>2, <2>3, <2>4, SumsGrow
  <2> QED
    BY <1>1, <2>1, <2>5
<1> QED
  BY <1>2, <1>9, <1>12, <1>13, <1>14

\* get_rects returns the rectangles in another order, but not more or less of them.
LEMMA GetRectsCounted ==
  ASSUME NEW R \in SUBSET Point, IsFiniteSet(R), NEW a, NEW b
  PROVE  /\ IsList(get_rects(R, a, b))
         /\ Len(get_rects(R, a, b)) = Len(RectanglesOf(R))
<1> DEFINE n == Cardinality(BandRectangles(R))
           got == get_rects(R, a, b)
<1>1. n \in Nat
  BY FiniteBands, FS_CardinalityType
<1>2. Len(RectanglesOf(R)) = n
  BY RectanglesOfLists DEF Lists
<1> DEFINE before(r, s) == IF r.y1 # s.y1 THEN b <=> r.y1 < s.y1
                           ELSE r # s /\ (a <=> r.x1 < s.x1)
           e(k) == CHOOSE s \in BandRectangles(R) :
                     Cardinality({r \in BandRectangles(R) : before(r, s)}) = k - 1
<1>3. got = [k \in 1 .. n |-> got[k]]
  <2>1. got = [k \in 1 .. n |-> e(k)]
    BY Zenon DEF get_rects, InOrder
  <2> HIDE DEF got, n, e
  <2> QED
    BY <2>1
<1> HIDE DEF got, n
<1>4. IsList(got) /\ Len(got) = n
  BY <1>1, <1>3, ListOf
<1> QED
  BY <1>2, <1>4 DEF got, n

LEMMA CopiedRectsCounted ==
  ASSUME ui.copied \in SUBSET Point, IsFiniteSet(ui.copied)
  PROVE  /\ IsList(CopiedRects) /\ Len(CopiedRects) = Len(RectanglesOf(ui.copied))
         /\ \A k \in 1 .. Len(CopiedRects) : CopiedRects[k].kind = "copy"
<1> DEFINE items == get_rects(ui.copied, ui.delta[1] <= 0, ui.delta[2] <= 0)
<1>1. IsList(items) /\ Len(items) = Len(RectanglesOf(ui.copied))
  BY GetRectsCounted
<1>2. CopiedRects = [k \in DOMAIN items |-> [kind |-> "copy", r |-> items[k],
                                            src |-> MovedBy(items[k], Negate(ui.delta))]]
  BY DEF CopiedRects
<1> HIDE DEF items
<1>3. Len(items) \in Nat /\ DOMAIN items = 1 .. Len(items)
  BY <1>1, ListIs
<1>4. CopiedRects = [k \in 1 .. Len(items) |-> CopiedRects[k]]
  BY <1>2, <1>3
<1>5. \A k \in 1 .. Len(items) : CopiedRects[k].kind = "copy"
  BY <1>2, <1>3
<1> QED
  BY <1>1, <1>3, <1>4, <1>5, ListOf

LEMMA SolidAreasListed ==
  ASSUME NEW R \in SUBSET Point, IsFiniteSet(R)
  PROVE  IsList(SolidAreas(R))
<1> DEFINE items == RectanglesOf(R)
           n == Len(items)
           seqs == [k \in DOMAIN items |-> SolidRect(items[k])]
           num == [k \in 1 .. n |-> Len(seqs[k])]
<1>1. n \in Nat /\ DOMAIN items = 1 .. n
  <2>1. items \in Seq(Rectangle)
    BY RectanglesOfLists DEF Lists
  <2> HIDE DEF items
  <2> QED
    BY <2>1
<1>2. SolidAreas(R) = FlattenSeq(seqs)
  BY DEF SolidAreas
<1> HIDE DEF items, n
<1>3. \A r : IsList(SolidRect(r))
  BY EmptyList, OneList DEF SolidRect
<1>4. seqs = [k \in 1 .. n |-> seqs[k]] /\ \A k \in 1 .. n : IsList(seqs[k])
  BY <1>1, <1>3
<1> HIDE DEF seqs
<1>5. IsList(seqs) /\ Len(seqs) = n
  BY <1>1, <1>4, ListOf
<1>6. \A k \in 0 .. n : k # 0 => num[k] = Len(seqs[k])
  BY <1>1
<1> HIDE DEF num
<1>7. PICK sums : sums = [k \in 0 .. n |-> IF k = 0 THEN 0 ELSE sums[k - 1] + num[k]]
  BY <1>1, SumsExist
<1>8. sums = [k \in 0 .. n |-> IF k = 0 THEN 0 ELSE sums[k - 1] + Len(seqs[k])]
  BY <1>6, <1>7
<1>9. IsList(FlattenSeq(seqs))
  BY <1>4, <1>5, <1>8, FlattenList
<1> QED
  BY <1>2, <1>9

\* What writeUpdate writes, and how many rectangles it has announced for it.
ToSend ==
  /\ ui.changed \in SUBSET Point /\ IsFiniteSet(ui.changed)
  /\ ui.copied \in SUBSET Point /\ IsFiniteSet(ui.copied)
  /\ IsFiniteSet(ui.cursor) /\ Cardinality(ui.cursor) <= 1

LEMMA UpdateRectsCounted ==
  ASSUME ToSend
  PROVE  /\ IsList(UpdateRects)
         /\ \A k \in 1 .. Len(UpdateRects) : UpdateRects[k].kind \in {"data", "copy"}
         /\ "LastRect" \notin cp.pseudo =>
              Len(UpdateRects) = Len(RectanglesOf(ui.copied)) + computeNumRects(ui.changed)
                                   + Cardinality(ui.cursor)
<1> DEFINE areas == IF "LastRect" \in cp.pseudo THEN SolidAreas(ui.changed) ELSE <<>>
           solid == UNION {Pixels(areas[k]) : k \in DOMAIN areas}
           copied == CopiedRects
           solids == SolidRects(areas)
           rest == Rects(ui.changed \ solid)
           cursor == CursorRects
           Good(s) == IsList(s) /\ \A k \in 1 .. Len(s) : s[k].kind \in {"data", "copy"}
<1>1. UpdateRects = ((copied \o solids) \o rest) \o cursor
  BY DEF UpdateRects
<1>2. Good(copied) /\ Len(copied) = Len(RectanglesOf(ui.copied))
  BY CopiedRectsCounted DEF ToSend
<1>3. IsList(areas) /\ ("LastRect" \notin cp.pseudo => areas = <<>>)
  BY SolidAreasListed, EmptyList DEF ToSend
<1> HIDE DEF areas
<1>4. Good(solids) /\ Len(solids) = Len(areas)
  <2>1. Len(areas) \in Nat /\ DOMAIN areas = 1 .. Len(areas)
    BY <1>3, ListIs
  <2>2. solids = [k \in 1 .. Len(areas) |-> solids[k]]
    BY <2>1 DEF SolidRects
  <2>3. \A k \in 1 .. Len(areas) : solids[k].kind = "data"
    BY <2>1 DEF SolidRects, DataRect
  <2> HIDE DEF solids
  <2> QED
    BY <2>1, <2>2, <2>3, ListOf
<1>5. "LastRect" \notin cp.pseudo => Len(solids) = 0 /\ ui.changed \ solid = ui.changed
  <2> SUFFICES ASSUME "LastRect" \notin cp.pseudo
               PROVE  Len(solids) = 0 /\ ui.changed \ solid = ui.changed
    OBVIOUS
  <2>1. areas = <<>> /\ DOMAIN areas = {} /\ Len(areas) = 0
    BY <1>3, EmptyList
  <2>2. solid = {}
    BY <2>1
  <2> HIDE DEF solid, solids
  <2> QED
    BY <1>4, <2>1, <2>2
<1>6. Good(rest) /\ Len(rest) = computeNumRects(ui.changed \ solid)
  <2> HIDE DEF solid
  <2>1. ui.changed \ solid \in SUBSET Point /\ IsFiniteSet(ui.changed \ solid)
    BY FS_Subset DEF ToSend
  <2> QED
    BY <2>1, RectsCounted
<1>7. Good(cursor) /\ Len(cursor) = Cardinality(ui.cursor)
  <2>1. CASE ui.cursor = {}
    <3>1. cursor = <<>> /\ Cardinality(ui.cursor) = 0
      BY <2>1, FS_EmptySet DEF CursorRects
    <3> QED
      BY <3>1, EmptyList
  <2>2. CASE ui.cursor # {}
    <3>1. Cardinality(ui.cursor) = 1
      BY <2>2, FS_CardinalityType, FS_EmptySet DEF ToSend
    <3> DEFINE e == SubRect(CHOOSE r \in ui.cursor : TRUE, WithCursor(ui.cursor))
    <3>2. cursor = <<e>>
      BY <2>2 DEF CursorRects
    <3>3. e.kind = "data"
      BY DEF SubRect, DataRect
    <3> HIDE DEF e
    <3> QED
      BY <3>1, <3>2, <3>3, OneList
  <2> QED
    BY <2>1, <2>2
<1> HIDE DEF copied, solids, rest, cursor, solid
<1>8. ASSUME NEW s, NEW t, Good(s), Good(t)
      PROVE  Good(s \o t) /\ Len(s \o t) = Len(s) + Len(t)
  BY <1>8, ConcatList
<1> HIDE DEF Good
<1>9. /\ Good(UpdateRects)
      /\ Len(UpdateRects) = ((Len(copied) + Len(solids)) + Len(rest)) + Len(cursor)
  <2>1. Good(copied \o solids) /\ Len(copied \o solids) = Len(copied) + Len(solids)
    BY <1>2, <1>4, <1>8
  <2>2. /\ Good((copied \o solids) \o rest)
        /\ Len((copied \o solids) \o rest) = (Len(copied) + Len(solids)) + Len(rest)
    BY <1>6, <1>8, <2>1
  <2> QED
    BY <1>1, <1>7, <1>8, <2>2
<1>10. "LastRect" \notin cp.pseudo =>
         Len(UpdateRects) = Len(RectanglesOf(ui.copied)) + computeNumRects(ui.changed)
                              + Cardinality(ui.cursor)
  <2> SUFFICES ASSUME "LastRect" \notin cp.pseudo
               PROVE  Len(UpdateRects) = Len(copied) + Len(rest) + Len(cursor)
    BY <1>2, <1>5, <1>6, <1>7
  <2>1. Len(copied) \in Nat /\ Len(rest) \in Nat /\ Len(cursor) \in Nat
    BY <1>2, <1>6, <1>7, ListIs DEF Good
  <2>2. Len(solids) = 0
    BY <1>5
  <2> QED
    BY <1>9, <2>1, <2>2
<1> QED
  BY <1>9, <1>10 DEF Good

\* Something to send is at least one rectangle.
LEMMA SomeRects ==
  ASSUME ToSend, "LastRect" \notin cp.pseudo,
         ui.changed # {} \/ ui.copied # {} \/ ui.cursor # {}
  PROVE  Len(UpdateRects) # 0
<1>1. Len(UpdateRects) = Len(RectanglesOf(ui.copied)) + computeNumRects(ui.changed)
                           + Cardinality(ui.cursor)
  BY UpdateRectsCounted
<1>2. /\ computeNumRects(ui.changed) \in Nat
      /\ ui.changed # {} => computeNumRects(ui.changed) # 0
  BY RectsCounted, ListIs DEF ToSend
<1>3. /\ Len(RectanglesOf(ui.copied)) \in Nat
      /\ ui.copied # {} => Len(RectanglesOf(ui.copied)) # 0
  <2>1. /\ Len(RectanglesOf(ui.copied)) = Cardinality(BandRectangles(ui.copied))
        /\ IsFiniteSet(BandRectangles(ui.copied))
    BY RectanglesOfLists, FiniteBands DEF Lists, ToSend
  <2>2. ui.copied # {} => BandRectangles(ui.copied) # {}
    BY SomeBand DEF ToSend
  <2> QED
    BY <2>1, <2>2, FS_EmptySet, FS_CardinalityType
<1>4. Cardinality(ui.cursor) \in Nat /\ (ui.cursor # {} => Cardinality(ui.cursor) # 0)
  BY FS_EmptySet, FS_CardinalityType DEF ToSend
<1> QED
  BY <1>1, <1>2, <1>3, <1>4

\* The elements of s are of these kinds.
Kinds(s, kinds) == IsList(s) /\ \A k \in 1 .. Len(s) : s[k].kind \in kinds

LEMMA IfListed ==
  ASSUME NEW flag \in BOOLEAN, NEW kind
  PROVE  Kinds(If(flag, kind), {kind}) /\ Len(If(flag, kind)) = IF flag THEN 1 ELSE 0
<1>1. CASE flag
  <2> DEFINE e == [kind |-> kind]
  <2>1. If(flag, kind) = <<e>> /\ e.kind = kind
    BY <1>1 DEF If
  <2> HIDE DEF e
  <2>2. Kinds(<<e>>, {kind}) /\ Len(<<e>>) = 1
    BY <2>1, OneList DEF Kinds
  <2> QED
    BY <1>1, <2>1, <2>2
<1>2. CASE ~ flag
  <2>1. If(flag, kind) = <<>>
    BY <1>2 DEF If
  <2> QED
    BY <1>2, <2>1, EmptyList DEF Kinds
<1> QED
  BY <1>1, <1>2

NeedOK ==
  need \in [name : BOOLEAN, cursor : BOOLEAN, xcursor : BOOLEAN,
            ext : BOOLEAN, size : BOOLEAN, replies : Nat]

LEMMA ConcatKinds ==
  ASSUME NEW s, NEW t, NEW K, NEW L, Kinds(s, K), Kinds(t, L)
  PROVE  Kinds(s \o t, K \cup L) /\ Len(s \o t) = Len(s) + Len(t)
BY ConcatList DEF Kinds

\* writeFramebufferUpdateStart counts what writePseudoRects writes.
LEMMA PseudoCounted ==
  ASSUME NeedOK
  PROVE  /\ Kinds(PseudoRects, {"cursor", "xcursor", "name"})
         /\ Len(PseudoRects) = PseudoCount /\ PseudoCount \in 0 .. 3
         /\ needFakeUpdate /\ ~ needNoDataUpdate => PseudoCount # 0
<1> DEFINE name == If(need.name, "name")
           cursor == If(need.cursor, "cursor")
           xcursor == If(need.xcursor, "xcursor")
<1>1. /\ Kinds(name, {"name"}) /\ Len(name) = IF need.name THEN 1 ELSE 0
      /\ Kinds(cursor, {"cursor"}) /\ Len(cursor) = IF need.cursor THEN 1 ELSE 0
      /\ Kinds(xcursor, {"xcursor"}) /\ Len(xcursor) = IF need.xcursor THEN 1 ELSE 0
  <2>1. need.name \in BOOLEAN /\ need.cursor \in BOOLEAN /\ need.xcursor \in BOOLEAN
    BY DEF NeedOK
  <2> QED
    BY <2>1, IfListed
<1>2. PseudoRects = (cursor \o xcursor) \o name /\ PseudoCount = Len((name \o cursor) \o xcursor)
  BY DEF PseudoRects, PseudoCount
<1> HIDE DEF name, cursor, xcursor
<1>3. /\ Kinds(cursor \o xcursor, {"cursor"} \cup {"xcursor"})
      /\ Len(cursor \o xcursor) = Len(cursor) + Len(xcursor)
  BY <1>1, ConcatKinds
<1>4. /\ Kinds(PseudoRects, ({"cursor"} \cup {"xcursor"}) \cup {"name"})
      /\ Len(PseudoRects) = (Len(cursor) + Len(xcursor)) + Len(name)
  BY <1>1, <1>2, <1>3, ConcatKinds
<1>5. Kinds(name \o cursor, {"name"} \cup {"cursor"}) /\ Len(name \o cursor) = Len(name) + Len(cursor)
  BY <1>1, ConcatKinds
<1>6. PseudoCount = (Len(name) + Len(cursor)) + Len(xcursor)
  BY <1>1, <1>2, <1>5, ConcatKinds
<1>7. /\ Len(PseudoRects) = PseudoCount /\ PseudoCount \in 0 .. 3
      /\ need.name \/ need.cursor \/ need.xcursor => PseudoCount # 0
  BY <1>1, <1>4, <1>6
<1>8. Kinds(PseudoRects, {"cursor", "xcursor", "name"})
  BY <1>4 DEF Kinds
<1> QED
  BY <1>7, <1>8 DEF needFakeUpdate

\* The layouts come first, and the size, if there is one, is the last rectangle.
LEMMA NoDataRectsAre ==
  ASSUME NeedOK
  PROVE  /\ Kinds(NoDataRects, {"ext", "size"})
         /\ \A k \in 1 .. Len(NoDataRects) - 1 : NoDataRects[k].kind = "ext"
         /\ needNoDataUpdate => Len(NoDataRects) # 0
<1> DEFINE replies == [k \in 1 .. need.replies |-> [kind |-> "ext"]]
           ext == If(need.ext, "ext")
           size == If(need.size, "size")
<1>1. Kinds(replies, {"ext"}) /\ Len(replies) = need.replies
  <2>1. replies = [k \in 1 .. need.replies |-> replies[k]] /\ need.replies \in Nat
    BY DEF NeedOK
  <2>2. \A k \in 1 .. need.replies : replies[k].kind = "ext"
    OBVIOUS
  <2> HIDE DEF replies
  <2> QED
    BY <2>1, <2>2, ListOf DEF Kinds
<1>2. /\ Kinds(ext, {"ext"}) /\ Len(ext) = IF need.ext THEN 1 ELSE 0
      /\ Kinds(size, {"size"}) /\ Len(size) = IF need.size THEN 1 ELSE 0
  <2>1. need.ext \in BOOLEAN /\ need.size \in BOOLEAN
    BY DEF NeedOK
  <2> QED
    BY <2>1, IfListed
<1>3. NoDataRects = (replies \o ext) \o size
  BY DEF NoDataRects
<1> HIDE DEF replies, ext, size
<1>4. Kinds(replies \o ext, {"ext"} \cup {"ext"}) /\ Len(replies \o ext) = Len(replies) + Len(ext)
  BY <1>1, <1>2, ConcatKinds
<1> DEFINE exts == replies \o ext
<1>5. Kinds(exts, {"ext"}) /\ Len(exts) = need.replies + Len(ext)
  BY <1>1, <1>4 DEF Kinds
<1> HIDE DEF exts
<1>6. /\ Kinds(NoDataRects, {"ext"} \cup {"size"})
      /\ Len(NoDataRects) = Len(exts) + Len(size)
      /\ \A k \in 1 .. Len(exts) : NoDataRects[k] = exts[k]
  BY <1>2, <1>3, <1>5, ConcatKinds, ConcatList DEF Kinds, exts
<1>7. \A k \in 1 .. Len(NoDataRects) - 1 : NoDataRects[k].kind = "ext"
  <2>1. Len(exts) \in Nat /\ Len(size) \in 0 .. 1
    BY <1>2, <1>5, ListIs DEF Kinds
  <2>2. Len(NoDataRects) = Len(exts) + Len(size)
    BY <1>6
  <2>3. 1 .. Len(NoDataRects) - 1 \subseteq 1 .. Len(exts)
    <3>1. ASSUME NEW a \in Nat, NEW b \in 0 .. 1
          PROVE  1 .. (a + b) - 1 \subseteq 1 .. a
      OBVIOUS
    <3> QED
      BY <2>1, <2>2, <3>1, Zenon
  <2>4. \A k \in 1 .. Len(exts) : exts[k].kind = "ext"
    BY <1>5 DEF Kinds
  <2>5. \A k \in 1 .. Len(exts) : NoDataRects[k] = exts[k]
    BY <1>6
  <2> QED
    BY <2>3, <2>4, <2>5
<1>8. needNoDataUpdate => Len(NoDataRects) # 0
  BY <1>2, <1>5, <1>6 DEF needNoDataUpdate, NeedOK
<1>9. Kinds(NoDataRects, {"ext", "size"})
  BY <1>6 DEF Kinds
<1> QED
  BY <1>7, <1>8, <1>9

\* A number of rectangles that is counted as it is written passes the checks of
\* writeFramebufferUpdateEnd.
LEMMA CountFits ==
  ASSUME NEW n \in Nat, NEW items, n # Unknown => Len(items) = n + PseudoCount,
         \A k \in DOMAIN items : Writable(items[k])
  PROVE  Fits(n, items)
BY DEF Fits, Announced

\* What one item of the stream makes of the number of rectangles that are left.
Expected(n, item) == IsMessage(item) <=> n = 0
Taken(n, item) ==
  IF n = 0 THEN IF item.kind = "update" THEN item.n ELSE 0
  ELSE IF item.kind = "last" THEN 0 ELSE n - 1

\* With n rectangles left, the stream s can be read without losing track, and ends
\* between two messages; e tells how many are left after each item.
Counts(n, s, e) ==
  /\ e \in [0 .. Len(s) -> Nat] /\ e[0] = n /\ e[Len(s)] = 0
  /\ \A k \in 1 .. Len(s) : Expected(e[k - 1], s[k]) /\ e[k] = Taken(e[k - 1], s[k])
Framed(n, s) == IsList(s) /\ \E e : Counts(n, s, e)

LEMMA FramedConcat ==
  ASSUME NEW n, NEW s, NEW t, Framed(n, s), Framed(0, t)
  PROVE  Framed(n, s \o t)
<1>1. PICK a : Counts(n, s, a)
  BY DEF Framed
<1>2. PICK b : Counts(0, t, b)
  BY DEF Framed
<1>3. IsList(s) /\ IsList(t)
  BY DEF Framed
<1>4. Len(s) \in Nat /\ Len(t) \in Nat
  BY <1>3, ListIs
<1> DEFINE l == Len(s)
           m == Len(t)
           e == [k \in 0 .. l + m |-> IF k <= l THEN a[k] ELSE b[k - l]]
<1>5. /\ IsList(s \o t) /\ Len(s \o t) = l + m
      /\ \A k \in 1 .. l : (s \o t)[k] = s[k]
      /\ \A k \in 1 .. m : (s \o t)[l + k] = t[k]
  BY <1>3, ConcatList
<1>6. /\ a \in [0 .. l -> Nat] /\ a[0] = n /\ a[l] = 0
      /\ \A k \in 1 .. l : Expected(a[k - 1], s[k]) /\ a[k] = Taken(a[k - 1], s[k])
  BY <1>1 DEF Counts
<1>7. /\ b \in [0 .. m -> Nat] /\ b[0] = 0 /\ b[m] = 0
      /\ \A k \in 1 .. m : Expected(b[k - 1], t[k]) /\ b[k] = Taken(b[k - 1], t[k])
  BY <1>2 DEF Counts
<1>8. l \in Nat /\ m \in Nat
  BY <1>4
<1> DEFINE u == s \o t
<1> HIDE DEF l, m, u
<1>9. \A k \in 0 .. l : e[k] = a[k]
  BY <1>8
<1>10. \A k \in 0 .. m : e[l + k] = b[k]
  <2> SUFFICES ASSUME NEW k \in 0 .. m
               PROVE  e[l + k] = b[k]
    OBVIOUS
  <2>1. CASE k = 0
    BY <1>6, <1>7, <1>8, <2>1
  <2>2. CASE k # 0
    BY <1>8, <2>2
  <2> QED
    BY <2>1, <2>2
<1>11. e \in [0 .. l + m -> Nat]
  <2> SUFFICES ASSUME NEW k \in 0 .. l + m
               PROVE  (IF k <= l THEN a[k] ELSE b[k - l]) \in Nat
    OBVIOUS
  <2>1. CASE k <= l
    BY <1>6, <1>8, <2>1
  <2>2. CASE ~ (k <= l)
    <3>1. k - l \in 0 .. m
      BY <1>8, <2>2
    <3> QED
      BY <1>7, <2>2, <3>1
  <2> QED
    BY <2>1, <2>2
<1> HIDE DEF e
<1>12. ASSUME NEW k \in 1 .. l + m
       PROVE  Expected(e[k - 1], u[k]) /\ e[k] = Taken(e[k - 1], u[k])
  <2>1. CASE k <= l
    <3>1. k \in 1 .. l /\ k - 1 \in 0 .. l /\ k \in 0 .. l
      BY <1>8, <2>1
    <3> QED
      BY <1>5, <1>6, <1>9, <3>1 DEF u
  <2>2. CASE ~ (k <= l)
    <3> DEFINE j == k - l
    <3>1. j \in 1 .. m /\ j - 1 \in 0 .. m /\ j \in 0 .. m /\ k = l + j /\ k - 1 = l + (j - 1)
      BY <1>8, <2>2
    <3> HIDE DEF j
    <3>2. e[k] = b[j] /\ e[k - 1] = b[j - 1] /\ u[k] = t[j]
      BY <1>5, <1>10, <3>1 DEF u
    <3> QED
      BY <1>7, <3>1, <3>2
  <2> QED
    BY <2>1, <2>2
<1>13. e[0] = n /\ e[l + m] = 0
  <2>1. 0 \in 0 .. l /\ m \in 0 .. m
    BY <1>8
  <2> QED
    BY <1>6, <1>7, <1>9, <1>10, <2>1
<1>14. Len(u) = l + m /\ IsList(u)
  BY <1>5 DEF u
<1>15. Counts(n, u, e)
  BY <1>11, <1>12, <1>13, <1>14 DEF Counts
<1> QED
  BY <1>14, <1>15 DEF Framed, u

LEMMA TailList ==
  ASSUME NEW s, IsList(s), s # <<>>
  PROVE  /\ IsList(Tail(s)) /\ Len(s) \in Nat \ {0} /\ Len(Tail(s)) = Len(s) - 1
         /\ Head(s) = s[1] /\ \A k \in 1 .. Len(s) - 1 : Tail(s)[k] = s[k + 1]
<1>1. PICK S : s \in Seq(S)
  BY DEF IsList
<1>2. Tail(s) \in Seq(S) /\ Len(s) \in Nat \ {0} /\ Len(Tail(s)) = Len(s) - 1
  BY <1>1, HeadTailProperties, EmptySeq
<1>3. Head(s) = s[1] /\ \A k \in 1 .. Len(s) - 1 : Tail(s)[k] = s[k + 1]
  BY <1>1, <1>2, HeadTailProperties
<1>4. IsList(Tail(s))
  BY <1>2, Zenon DEF IsList
<1> QED
  BY <1>2, <1>3, <1>4

LEMMA FramedTail ==
  ASSUME NEW n, NEW s, Framed(n, s), s # <<>>
  PROVE  /\ n \in Nat /\ Expected(n, Head(s))
         /\ Taken(n, Head(s)) \in Nat /\ Framed(Taken(n, Head(s)), Tail(s))
<1>1. PICK a : Counts(n, s, a)
  BY DEF Framed
<1> DEFINE l == Len(s)
           e == [k \in 0 .. l - 1 |-> a[k + 1]]
           t == Tail(s)
<1>2. /\ IsList(t) /\ l \in Nat \ {0} /\ Len(t) = l - 1
      /\ Head(s) = s[1] /\ \A k \in 1 .. l - 1 : t[k] = s[k + 1]
  BY TailList DEF Framed
<1>3. /\ a \in [0 .. l -> Nat] /\ a[0] = n /\ a[l] = 0
      /\ \A k \in 1 .. l : Expected(a[k - 1], s[k]) /\ a[k] = Taken(a[k - 1], s[k])
  BY <1>1 DEF Counts
<1> HIDE DEF l, t
<1>4. 1 \in 1 .. l /\ 0 \in 0 .. l /\ 1 \in 0 .. l /\ 1 - 1 = 0
  BY <1>2
<1>5. n \in Nat /\ a[1] \in Nat /\ Expected(n, Head(s)) /\ a[1] = Taken(n, Head(s))
  <2>1. Expected(a[1 - 1], s[1]) /\ a[1] = Taken(a[1 - 1], s[1])
    BY <1>3, <1>4
  <2> QED
    BY <1>2, <1>3, <1>4, <2>1
<1>6. e \in [0 .. l - 1 -> Nat] /\ e[0] = a[1] /\ e[l - 1] = 0
  <2>1. \A k \in 0 .. l - 1 : k + 1 \in 0 .. l
    BY <1>2
  <2>2. e \in [0 .. l - 1 -> Nat]
    BY <1>3, <2>1
  <2>3. e[0] = a[0 + 1] /\ e[l - 1] = a[(l - 1) + 1]
    BY <1>2
  <2>4. (l - 1) + 1 = l /\ 0 + 1 = 1
    BY <1>2
  <2> HIDE DEF e
  <2> QED
    BY <1>3, <2>2, <2>3, <2>4
<1>7. ASSUME NEW k \in 1 .. l - 1
      PROVE  Expected(e[k - 1], t[k]) /\ e[k] = Taken(e[k - 1], t[k])
  <2>1. k + 1 \in 1 .. l /\ (k + 1) - 1 = k /\ k \in 0 .. l - 1 /\ k - 1 \in 0 .. l - 1
        /\ (k - 1) + 1 = k
    BY <1>2
  <2>2. e[k] = a[k + 1] /\ e[k - 1] = a[k]
    BY <2>1
  <2>3. Expected(a[(k + 1) - 1], s[k + 1]) /\ a[k + 1] = Taken(a[(k + 1) - 1], s[k + 1])
    BY <1>3, <2>1
  <2> HIDE DEF e
  <2> QED
    BY <1>2, <2>1, <2>2, <2>3
<1> HIDE DEF e
<1>8. Counts(a[1], t, e)
  BY <1>2, <1>6, <1>7 DEF Counts
<1> QED
  BY <1>2, <1>5, <1>8 DEF Framed, t

\* The kinds of rectangles, as opposed to messages and the marker behind the last.
RectKinds == {"data", "copy", "cursor", "xcursor", "name", "ext", "size"}

LEMMA MessageIs ==
  ASSUME NEW n, NEW items, IsList(items)
  PROVE  LET m == Message(n, items)
             l == Len(items)
         IN /\ IsList(m)
            /\ Len(m) = IF Announced(n) \in {0, Unknown} THEN l + 2 ELSE l + 1
            /\ m[1].kind = "update" /\ m[1].n = Announced(n) % 65536
            /\ \A k \in 1 .. l : m[k + 1] = items[k]
            /\ Announced(n) \in {0, Unknown} => m[l + 2].kind = "last"
<1> DEFINE header == [kind |-> "update", n |-> Announced(n) % 65536]
           marker == [kind |-> "last"]
           end == IF Announced(n) \in {0, Unknown} THEN <<marker>> ELSE <<>>
           m == Message(n, items)
           l == Len(items)
           front == <<header>> \o items
<1>1. m = front \o end
  BY DEF Message
<1>2. header.kind = "update" /\ header.n = Announced(n) % 65536 /\ marker.kind = "last"
  OBVIOUS
<1> HIDE DEF m, header, marker
<1>3. IsList(<<header>>) /\ Len(<<header>>) = 1 /\ <<header>>[1] = header
  BY OneList
<1>4. l \in Nat
  BY ListIs
<1> DEFINE h == <<header>>
<1> HIDE DEF h
<1>5. /\ IsList(front) /\ Len(front) = 1 + l
      /\ front[1] = header /\ \A k \in 1 .. l : front[1 + k] = items[k]
  <2>1. /\ IsList(h \o items) /\ Len(h \o items) = Len(h) + l
        /\ \A k \in 1 .. Len(h) : (h \o items)[k] = h[k]
        /\ \A k \in 1 .. l : (h \o items)[Len(h) + k] = items[k]
    BY <1>3, ConcatList DEF h
  <2>2. Len(h) = 1 /\ h[1] = header /\ 1 \in 1 .. 1
    BY <1>3 DEF h
  <2> QED
    BY <2>1, <2>2 DEF h
<1> HIDE DEF front
<1>6. CASE Announced(n) \in {0, Unknown}
  <2> DEFINE w == <<marker>>
  <2>1. end = w /\ IsList(w) /\ Len(w) = 1 /\ w[1] = marker
    BY <1>6, OneList
  <2> HIDE DEF w, end
  <2>2. /\ IsList(m) /\ Len(m) = (1 + l) + 1
        /\ \A k \in 1 .. 1 + l : m[k] = front[k]
        /\ \A k \in 1 .. 1 : m[(1 + l) + k] = w[k]
    <3>1. /\ IsList(front \o w) /\ Len(front \o w) = Len(front) + Len(w)
          /\ \A k \in 1 .. Len(front) : (front \o w)[k] = front[k]
          /\ \A k \in 1 .. Len(w) : (front \o w)[Len(front) + k] = w[k]
      <4>1. IsList(front) /\ IsList(w)
        BY <1>5, <2>1
      <4> QED
        BY <4>1, ConcatList
    <3>2. m = front \o w /\ Len(front) = 1 + l /\ Len(w) = 1
      BY <1>1, <1>5, <2>1
    <3> QED
      BY <3>1, <3>2
  <2>3. m[1] = header /\ m[l + 2] = marker
    <3>1. 1 \in 1 .. 1 + l /\ 1 \in 1 .. 1 /\ (1 + l) + 1 = l + 2
      BY <1>4
    <3> QED
      BY <1>5, <2>1, <2>2, <3>1
  <2>4. \A k \in 1 .. l : m[k + 1] = items[k]
    <3>1. \A k \in 1 .. l : k + 1 \in 1 .. 1 + l /\ k + 1 = 1 + k
      BY <1>4
    <3> QED
      BY <1>5, <2>2, <3>1
  <2> QED
    BY <1>2, <1>4, <1>6, <2>2, <2>3, <2>4 DEF m
<1>7. CASE Announced(n) \notin {0, Unknown}
  <2> DEFINE w == <<>>
  <2>1. end = w /\ IsList(w) /\ Len(w) = 0
    BY <1>7, EmptyList
  <2> HIDE DEF w, end
  <2>2. /\ IsList(m) /\ Len(m) = (1 + l) + 0
        /\ \A k \in 1 .. 1 + l : m[k] = front[k]
    <3>1. /\ IsList(front \o w) /\ Len(front \o w) = Len(front) + Len(w)
          /\ \A k \in 1 .. Len(front) : (front \o w)[k] = front[k]
      <4>1. IsList(front) /\ IsList(w)
        BY <1>5, <2>1
      <4> QED
        BY <4>1, ConcatList
    <3>2. m = front \o w /\ Len(front) = 1 + l /\ Len(w) = 0
      BY <1>1, <1>5, <2>1
    <3> QED
      BY <3>1, <3>2
  <2>3. m[1] = header
    <3>1. 1 \in 1 .. 1 + l
      BY <1>4
    <3> QED
      BY <1>5, <2>2, <3>1
  <2>4. \A k \in 1 .. l : m[k + 1] = items[k]
    <3>1. \A k \in 1 .. l : k + 1 \in 1 .. 1 + l /\ k + 1 = 1 + k
      BY <1>4
    <3> QED
      BY <1>5, <2>2, <3>1
  <2> QED
    BY <1>2, <1>4, <1>7, <2>2, <2>3, <2>4 DEF m
<1> QED
  BY <1>6, <1>7

\* The viewer takes an update apart as it has been put together, if there are fewer
\* rectangles than stand for an unknown number.
LEMMA FramedMessage ==
  ASSUME NEW n \in Nat, NEW items, Kinds(items, RectKinds), Len(items) < Unknown,
         PseudoCount \in Nat, Announced(n) # 0,
         Announced(n) # Unknown => Len(items) = Announced(n)
  PROVE  Framed(0, Message(n, items))
<1> DEFINE l == Len(items)
           m == Message(n, items)
           a == Announced(n)
<1>1. IsList(items) /\ l \in Nat /\ l < 65535
  BY ListIs DEF Kinds, Unknown
<1>2. /\ IsList(m) /\ Len(m) = IF a \in {0, Unknown} THEN l + 2 ELSE l + 1
      /\ m[1].kind = "update" /\ m[1].n = a % 65536
      /\ \A k \in 1 .. l : m[k + 1] = items[k]
      /\ a \in {0, Unknown} => m[l + 2].kind = "last"
  BY <1>1, MessageIs
<1>3. \A k \in 1 .. l : m[k + 1].kind \in RectKinds
  BY <1>2 DEF Kinds
<1>4. a # 0 /\ (a # 65535 => l = a)
  BY DEF Unknown
<1> HIDE DEF l, m, a
<1>5. CASE a = 65535
  <2> DEFINE e == [k \in 0 .. l + 2 |-> IF k \in {0, l + 2} THEN 0 ELSE 65536 - k]
  <2>1. Len(m) = l + 2 /\ m[l + 2].kind = "last" /\ m[1].n = 65535
    BY <1>2, <1>5 DEF Unknown
  <2>2. e \in [0 .. l + 2 -> Nat] /\ e[0] = 0 /\ e[l + 2] = 0
    BY <1>1
  <2>3. e[1] = 65535 /\ \A k \in 1 .. l : e[k] = 65536 - k /\ e[k + 1] = 65535 - k
    BY <1>1
  <2>4. e[l + 1] = 65535 - l
    BY <1>1
  <2> HIDE DEF e
  <2>5. ASSUME NEW k \in 1 .. l + 2
        PROVE  Expected(e[k - 1], m[k]) /\ e[k] = Taken(e[k - 1], m[k])
    <3>1. CASE k = 1
      <4>1. k - 1 = 0
        BY <3>1
      <4> QED
        BY <1>2, <2>1, <2>2, <2>3, <3>1, <4>1 DEF Expected, Taken, IsMessage
    <3>2. CASE k = l + 2
      <4>1. k - 1 = l + 1 /\ 65535 - l # 0
        BY <1>1, <3>2
      <4> QED
        BY <2>1, <2>2, <2>4, <3>2, <4>1 DEF Expected, Taken, IsMessage
    <3>3. CASE k \notin {1, l + 2}
      <4> DEFINE j == k - 1
      <4>1. j \in 1 .. l /\ k = j + 1 /\ k - 1 = j
        BY <1>1, <3>3
      <4> HIDE DEF j
      <4>2. e[j] = 65536 - j /\ e[j + 1] = 65535 - j /\ m[j + 1].kind \in RectKinds
        BY <1>3, <2>3, <4>1
      <4>3. e[j] # 0 /\ e[j] - 1 = e[j + 1]
        BY <1>1, <4>1, <4>2
      <4> QED
        BY <4>1, <4>2, <4>3 DEF Expected, Taken, IsMessage, RectKinds
    <3> QED
      BY <3>1, <3>2, <3>3
  <2>6. Counts(0, m, e)
    BY <2>1, <2>2, <2>5 DEF Counts
  <2> QED
    BY <1>2, <2>6 DEF Framed, m
<1>6. CASE a # 65535
  <2> DEFINE e == [k \in 0 .. l + 1 |-> IF k = 0 THEN 0 ELSE (l + 1) - k]
  <2>1. l = a /\ l # 0
    BY <1>4, <1>6
  <2>2. Len(m) = l + 1 /\ m[1].n = l
    <3>1. a \notin {0, Unknown}
      BY <1>4, <1>6 DEF Unknown
    <3>2. l % 65536 = l
      BY <1>1
    <3>3. Len(m) = l + 1
      BY <1>2, <3>1
    <3>4. m[1].n = a % 65536
      BY <1>2
    <3> QED
      BY <2>1, <3>2, <3>3, <3>4
  <2>3. e \in [0 .. l + 1 -> Nat] /\ e[0] = 0 /\ e[l + 1] = 0
    BY <1>1
  <2>4. e[1] = l /\ \A k \in 1 .. l : e[k] = (l + 1) - k /\ e[k + 1] = l - k
    BY <1>1
  <2> HIDE DEF e
  <2>5. ASSUME NEW k \in 1 .. l + 1
        PROVE  Expected(e[k - 1], m[k]) /\ e[k] = Taken(e[k - 1], m[k])
    <3>1. CASE k = 1
      <4>1. k - 1 = 0
        BY <3>1
      <4> QED
        BY <1>2, <2>2, <2>3, <2>4, <3>1, <4>1 DEF Expected, Taken, IsMessage
    <3>2. CASE k # 1
      <4> DEFINE j == k - 1
      <4>1. j \in 1 .. l /\ k = j + 1 /\ k - 1 = j
        BY <1>1, <3>2
      <4> HIDE DEF j
      <4>2. e[j] = (l + 1) - j /\ e[j + 1] = l - j /\ m[j + 1].kind \in RectKinds
        BY <1>3, <2>4, <4>1
      <4>3. e[j] # 0 /\ e[j] - 1 = e[j + 1]
        BY <1>1, <4>1, <4>2
      <4> QED
        BY <4>1, <4>2, <4>3 DEF Expected, Taken, IsMessage, RectKinds
    <3> QED
      BY <3>1, <3>2
  <2>6. Counts(0, m, e)
    BY <2>2, <2>3, <2>5 DEF Counts
  <2> QED
    BY <1>2, <2>6 DEF Framed, m
<1> QED
  BY <1>5, <1>6

-----------------------------------------------------------------------------
\* What is to be sent and announced, while updates are written and read.
ReadyToSend ==
  /\ ui = [changed |-> ui.changed, copied |-> ui.copied, delta |-> ui.delta,
           cursor |-> ui.cursor]
  /\ ToSend
  /\ NeedOK

LEMMA FinitePixels ==
  ASSUME NEW w \in Nat, NEW h \in Nat
  PROVE  /\ Pixels(Box(0, 0, w, h)) \in SUBSET Point
         /\ IsFiniteSet(Pixels(Box(0, 0, w, h)))
<1>1. Pixels(Box(0, 0, w, h)) = (0 .. w - 1) \X (0 .. h - 1)
  BY DEF Pixels, Box
<1>2. IsFiniteSet(0 .. w - 1) /\ IsFiniteSet(0 .. h - 1)
  BY FS_Interval
<1>3. (0 .. w - 1) \X (0 .. h - 1) \in SUBSET Point
  BY DEF Point
<1> QED
  BY <1>1, <1>2, <1>3, FS_Product

LEMMA StartsReady ==
  ASSUME WriterInit
  PROVE  ReadyToSend
<1>1. PICK n \in DOMAIN Families : InitScene(Families[n])
  BY DEF WriterInit
<1> DEFINE f == Families[n]
<1>2. f \in ToSet(Families)
  BY DEF ToSet
<1> HIDE DEF f
<1>3. PICK img \in f.pictures, changed \in f.changed, d \in f.deltas, k \in f.cursors :
        LET all == DOMAIN img.at
            scrolled == {p \in all : d # <<0, 0>> /\ Shift(p, Negate(d)) \in all}
        IN ui = [changed |-> IF d = <<0, 0>> THEN changed ELSE changed \cup (all \ scrolled),
                 copied |-> scrolled \ changed, delta |-> d, cursor |-> k]
  <2>1. InitScene(f)
    BY <1>1 DEF f
  <2> QED
    BY <2>1, Zenon DEF InitScene
<1> DEFINE all == DOMAIN img.at
           scrolled == {p \in all : d # <<0, 0>> /\ Shift(p, Negate(d)) \in all}
<1>4. all \in SUBSET Point /\ IsFiniteSet(all) /\ changed \subseteq all
  <2>1. img.w \in Nat /\ img.h \in Nat /\ all = Pixels(Whole(img)) /\ changed \subseteq all
    BY <1>2, FamilyAssumption
  <2> QED
    BY <2>1, FinitePixels DEF Whole
<1>5. IsFiniteSet(k) /\ Cardinality(k) <= 1
  BY <1>2, FamilyAssumption
<1>6. scrolled \subseteq all
  OBVIOUS
<1>7. /\ ui.changed \subseteq all /\ ui.copied \subseteq all /\ ui.cursor = k
      /\ ui = [changed |-> ui.changed, copied |-> ui.copied, delta |-> ui.delta,
               cursor |-> ui.cursor]
  <2> HIDE DEF scrolled, all
  <2>1. ui = [changed |-> IF d = <<0, 0>> THEN changed ELSE changed \cup (all \ scrolled),
              copied |-> scrolled \ changed, delta |-> d, cursor |-> k]
    BY <1>3 DEF scrolled, all
  <2> QED
    BY <1>4, <1>6, <2>1
<1>8. ToSend
  <2> HIDE DEF all
  <2> QED
    BY <1>4, <1>5, <1>7, FS_Subset DEF ToSend
<1>9. NeedOK
  BY DEF WriterInit, NeedOK, NoNeed
<1> QED
  BY <1>7, <1>8, <1>9 DEF ReadyToSend

LEMMA StaysReady ==
  ASSUME ReadyToSend, [WriterNext]_writerVars
  PROVE  ReadyToSend'
<1> USE DEF ReadyToSend
<1>1. UNCHANGED <<ui, need>> => ReadyToSend'
  BY DEF ToSend, NeedOK
<1>2. ASSUME NeedOK', UNCHANGED ui
      PROVE  ReadyToSend'
  BY <1>2 DEF ToSend
<1>3. NeedOK /\ NoNeed \in [name : BOOLEAN, cursor : BOOLEAN, xcursor : BOOLEAN,
                            ext : BOOLEAN, size : BOOLEAN, replies : Nat]
  BY DEF NoNeed
<1>4. \A pseudo : need' = WithCursorAnnounced(pseudo) => NeedOK'
  BY DEF NeedOK, WithCursorAnnounced
<1>5. CASE WriteNoDataUpdate
  BY <1>1, <1>2, <1>3, <1>5 DEF WriteNoDataUpdate, Throw, NeedOK
<1>6. CASE WriteUpdate
  <2>1. CASE UNCHANGED <<ui, need>>
    BY <1>1, <2>1
  <2>2. CASE need' = NoNeed /\ ui' = [ui EXCEPT !.changed = {}, !.copied = {}, !.cursor = {}]
    <3>1. /\ ui'.changed = {} /\ ui'.copied = {} /\ ui'.cursor = {}
          /\ ui' = [changed |-> ui'.changed, copied |-> ui'.copied, delta |-> ui'.delta,
                    cursor |-> ui'.cursor]
      BY <2>2
    <3>2. ToSend'
      BY <3>1, FS_EmptySet DEF ToSend
    <3>3. NeedOK'
      BY <1>3, <2>2 DEF NeedOK
    <3> QED
      BY <3>1, <3>2, <3>3
  <2> QED
    BY <1>6, <2>1, <2>2 DEF WriteUpdate, Throw
<1>7. CASE SetCursor
  BY <1>2, <1>4, <1>7 DEF SetCursor
<1>8. CASE SetDesktopName
  BY <1>2, <1>3, <1>8 DEF SetDesktopName, NeedOK
<1>9. CASE PixelBufferChange
  BY <1>1, <1>2, <1>3, <1>9 DEF PixelBufferChange, NeedOK
<1>10. CASE SetDesktopSize
  BY <1>2, <1>3, <1>10 DEF SetDesktopSize, NeedOK
<1>11. ASSUME NEW new \in ClientEncodings, SetEncodings(new)
       PROVE  ReadyToSend'
  BY <1>2, <1>4, <1>11 DEF SetEncodings
<1>12. CASE OtherMessage \/ ReadMsg \/ UNCHANGED writerVars
  BY <1>1, <1>12 DEF OtherMessage, ReadMsg, writerVars
<1> QED
  BY <1>5, <1>6, <1>7, <1>8, <1>9, <1>10, <1>11, <1>12 DEF WriterNext

LEMMA AlwaysReady == WriterSpec => []ReadyToSend
<1>1. WriterInit => ReadyToSend
  BY StartsReady
<1>2. ReadyToSend /\ [WriterNext]_writerVars => ReadyToSend'
  BY StaysReady
<1> QED
  BY <1>1, <1>2, PTL DEF WriterSpec

\* How many rectangles EncodeManager has said it would write.
RectsCount ==
  IF "LastRect" \in cp.pseudo THEN Unknown
  ELSE Len(RectanglesOf(ui.copied)) + computeNumRects(ui.changed) + Cardinality(ui.cursor)

LEMMA NoDataFits ==
  ASSUME ReadyToSend
  PROVE  LET items == PseudoRects \o NoDataRects
         IN /\ Kinds(items, RectKinds)
            /\ Len(items) = Len(NoDataRects) + PseudoCount
            /\ Len(NoDataRects) \in Nat /\ PseudoCount \in Nat
            /\ (\A k \in DOMAIN items : Writable(items[k])) => Fits(Len(NoDataRects), items)
<1> DEFINE items == PseudoRects \o NoDataRects
<1>1. Kinds(PseudoRects, {"cursor", "xcursor", "name"}) /\ Len(PseudoRects) = PseudoCount
      /\ PseudoCount \in Nat
  BY PseudoCounted DEF ReadyToSend
<1>2. Kinds(NoDataRects, {"ext", "size"})
  BY NoDataRectsAre DEF ReadyToSend
<1>3. Len(NoDataRects) \in Nat
  BY <1>2, ListIs DEF Kinds
<1>4. /\ Kinds(items, {"cursor", "xcursor", "name"} \cup {"ext", "size"})
      /\ Len(items) = PseudoCount + Len(NoDataRects)
  BY <1>1, <1>2, ConcatKinds
<1> HIDE DEF items
<1>5. Kinds(items, RectKinds)
  BY <1>4 DEF Kinds, RectKinds
<1>6. Len(items) = Len(NoDataRects) + PseudoCount
  BY <1>1, <1>3, <1>4
<1>7. (\A k \in DOMAIN items : Writable(items[k])) => Fits(Len(NoDataRects), items)
  BY <1>3, <1>6, CountFits
<1> QED
  BY <1>1, <1>3, <1>5, <1>6, <1>7 DEF items

LEMMA UpdateFits ==
  ASSUME ReadyToSend
  PROVE  LET items == PseudoRects \o UpdateRects
         IN /\ Kinds(items, RectKinds \ {"size"})
            /\ RectsCount # Unknown => Len(items) = RectsCount + PseudoCount
            /\ RectsCount \in Nat /\ PseudoCount \in Nat
            /\ (\A k \in DOMAIN PseudoRects : Writable(PseudoRects[k])) => Fits(RectsCount, items)
<1> DEFINE items == PseudoRects \o UpdateRects
<1>1. Kinds(PseudoRects, {"cursor", "xcursor", "name"}) /\ Len(PseudoRects) = PseudoCount
      /\ PseudoCount \in Nat
  BY PseudoCounted DEF ReadyToSend
<1>2. /\ Kinds(UpdateRects, {"data", "copy"})
      /\ "LastRect" \notin cp.pseudo => Len(UpdateRects) = RectsCount
  BY UpdateRectsCounted DEF ReadyToSend, Kinds, RectsCount
<1>3. Len(UpdateRects) \in Nat
  BY <1>2, ListIs DEF Kinds
<1>4. /\ Kinds(items, {"cursor", "xcursor", "name"} \cup {"data", "copy"})
      /\ Len(items) = PseudoCount + Len(UpdateRects)
  BY <1>1, <1>2, ConcatKinds
<1>5. RectsCount \in Nat
  <2>1. Unknown \in Nat
    BY DEF Unknown
  <2>2. "LastRect" \in cp.pseudo => RectsCount = Unknown
    BY DEF RectsCount
  <2> QED
    BY <1>2, <1>3, <2>1, <2>2
<1>6. RectsCount # Unknown => Len(items) = RectsCount + PseudoCount
  <2> HIDE DEF items
  <2>1. RectsCount # Unknown => Len(UpdateRects) = RectsCount
    BY <1>2 DEF RectsCount
  <2> QED
    BY <1>1, <1>3, <1>4, <2>1
<1>7. (\A k \in DOMAIN PseudoRects : Writable(PseudoRects[k])) => Fits(RectsCount, items)
  <2> SUFFICES ASSUME \A k \in DOMAIN PseudoRects : Writable(PseudoRects[k])
               PROVE  \A k \in DOMAIN items : Writable(items[k])
    <3> HIDE DEF items
    <3> QED
      BY <1>5, <1>6, CountFits
  <2>1. DOMAIN items = 1 .. Len(items) /\ DOMAIN PseudoRects = 1 .. Len(PseudoRects)
    BY <1>1, <1>4, ListIs DEF Kinds
  <2>2. \A k \in 1 .. Len(items) :
          \/ k \in 1 .. Len(PseudoRects) /\ items[k] = PseudoRects[k]
          \/ k - Len(PseudoRects) \in 1 .. Len(UpdateRects)
             /\ items[k] = UpdateRects[k - Len(PseudoRects)]
    BY <1>1, <1>2, ConcatList DEF Kinds
  <2> HIDE DEF items
  <2>3. \A m \in 1 .. Len(UpdateRects) : Writable(UpdateRects[m])
    <3> SUFFICES ASSUME NEW m \in 1 .. Len(UpdateRects)
                 PROVE  Writable(UpdateRects[m])
      OBVIOUS
    <3>1. UpdateRects[m].kind \in {"data", "copy"}
      BY <1>2 DEF Kinds
    <3> QED
      BY <3>1 DEF Writable, Requires
  <2> SUFFICES ASSUME NEW k \in DOMAIN items
               PROVE  Writable(items[k])
    OBVIOUS
  <2>4. CASE k \in 1 .. Len(PseudoRects) /\ items[k] = PseudoRects[k]
    BY <2>1, <2>4
  <2>5. CASE k - Len(PseudoRects) \in 1 .. Len(UpdateRects)
             /\ items[k] = UpdateRects[k - Len(PseudoRects)]
    BY <2>3, <2>5
  <2> QED
    BY <2>1, <2>2, <2>4, <2>5
<1>8. Kinds(items, RectKinds \ {"size"})
  <2> HIDE DEF items
  <2> QED
    BY <1>4 DEF Kinds, RectKinds
<1> QED
  BY <1>1, <1>5, <1>6, <1>7, <1>8

\* Something that cannot be written is among what is announced.
Unwritable ==
  LET announced == PseudoRects \o NoDataRects
  IN \E k \in DOMAIN announced : ~ Writable(announced[k])

LEMMA UnwritablePseudo ==
  ASSUME ReadyToSend, NEW k \in DOMAIN PseudoRects, ~ Writable(PseudoRects[k])
  PROVE  Unwritable
<1> DEFINE items == PseudoRects \o NoDataRects
<1>1. IsList(PseudoRects) /\ IsList(NoDataRects)
  BY PseudoCounted, NoDataRectsAre DEF ReadyToSend, Kinds
<1>2. /\ DOMAIN PseudoRects = 1 .. Len(PseudoRects) /\ Len(PseudoRects) \in Nat
      /\ Len(NoDataRects) \in Nat
  BY <1>1, ListIs
<1>3. /\ IsList(items) /\ Len(items) = Len(PseudoRects) + Len(NoDataRects)
      /\ \A j \in 1 .. Len(PseudoRects) : items[j] = PseudoRects[j]
  BY <1>1, ConcatList
<1> HIDE DEF items
<1>4. DOMAIN items = 1 .. Len(items)
  BY <1>3, ListIs
<1>5. k \in DOMAIN items /\ items[k] = PseudoRects[k]
  BY <1>2, <1>3, <1>4
<1> QED
  BY <1>5 DEF Unwritable, items

\* The writer's counting never closes a connection: only an announcement that the
\* client no longer understands (or a cursor of many colours for an XCursor) does.
THEOREM CountsWhatItWrites == WriterSpec => []ClosedForAReason
<1>1. WriterInit => ClosedForAReason
  BY DEF WriterInit, ClosedForAReason
<1>2. ASSUME ReadyToSend, ClosedForAReason, [WriterNext]_writerVars
      PROVE  ClosedForAReason'
  <2> USE <1>2
  <2>1. ClosedForAReason <=> (closed = "exception" => Unwritable)
    BY DEF ClosedForAReason, Unwritable
  <2>2. ClosedForAReason' <=> (closed' = "exception" => Unwritable')
    BY DEF ClosedForAReason, Unwritable
  <2>3. UNCHANGED <<need, cp>> => (Unwritable' <=> Unwritable)
    BY DEF Unwritable, PseudoRects, NoDataRects, Writable
  <2>4. CASE closed' # "exception"
    BY <2>2, <2>4
  <2>5. CASE closed # "" /\ UNCHANGED <<closed, need, cp>>
    BY <2>1, <2>2, <2>3, <2>5
  <2>6. CASE WriteNoDataUpdate /\ closed' = "exception"
    <3>1. /\ UNCHANGED <<need, cp>>
          /\ ~ Fits(Len(NoDataRects), PseudoRects \o NoDataRects)
      BY <2>6 DEF WriteNoDataUpdate, Throw
    <3>2. Unwritable
      BY <3>1, NoDataFits DEF Unwritable
    <3> QED
      BY <2>2, <2>3, <3>1, <3>2
  <2>7. CASE WriteUpdate /\ closed' = "exception"
    <3>1. /\ UNCHANGED <<need, cp>>
          /\ ~ Fits(RectsCount, PseudoRects \o UpdateRects)
      BY <2>7 DEF WriteUpdate, Throw, RectsCount
    <3>2. Unwritable
      BY <3>1, UpdateFits, UnwritablePseudo
    <3> QED
      BY <2>2, <2>3, <3>1, <3>2
  <2>8. CASE ReadMsg \/ UNCHANGED writerVars
    <3>1. UNCHANGED <<closed, need, cp>>
      BY <2>8 DEF ReadMsg, writerVars
    <3> QED
      BY <2>1, <2>2, <2>3, <3>1
  <2>9. CASE SetCursor \/ SetDesktopName \/ PixelBufferChange \/ SetDesktopSize
             \/ (\E new \in ClientEncodings : SetEncodings(new)) \/ OtherMessage
    <3>1. closed' # "exception"
      BY <2>9 DEF SetCursor, SetDesktopName, PixelBufferChange, SetDesktopSize, SetEncodings,
                  OtherMessage, Eventful
    <3> QED
      BY <2>2, <3>1
  <2> QED
    BY <2>4, <2>6, <2>7, <2>8, <2>9 DEF WriterNext
<1> QED
  BY <1>1, <1>2, AlwaysReady, PTL DEF WriterSpec

\* The new size of the screen is the last rectangle of its update.
SizeEnds(s) == \A k \in 1 .. Len(s) - 1 : s[k].kind = "size" => IsMessage(s[k + 1])

LEMMA SizeConcat ==
  ASSUME NEW s, NEW m, IsList(s), IsList(m), Len(s) <= 1, SizeEnds(m),
         Len(m) # 0, IsMessage(m[1])
  PROVE  SizeEnds(s \o m)
<1>1. Len(s) \in Nat /\ Len(m) \in Nat
  BY ListIs
<1> DEFINE u == s \o m
           a == Len(s)
           b == Len(m)
<1>2. IsList(u) /\ Len(u) = a + b /\ \A k \in 1 .. b : u[a + k] = m[k]
  BY ConcatList
<1>3. /\ a \in Nat /\ b \in Nat /\ a <= 1 /\ b # 0
      /\ \A k \in 1 .. b - 1 : m[k].kind = "size" => IsMessage(m[k + 1])
  BY <1>1 DEF SizeEnds
<1> HIDE DEF u, a, b
<1> SUFFICES ASSUME NEW k \in 1 .. (a + b) - 1, u[k].kind = "size"
             PROVE  IsMessage(u[k + 1])
  BY <1>2 DEF SizeEnds, u
<1>4. CASE k <= a
  <2>1. k = 1 /\ a = 1 /\ 1 \in 1 .. b
    BY <1>3, <1>4
  <2>2. u[1 + 1] = m[1]
    BY <1>2, <2>1
  <2> QED
    BY <2>1, <2>2
<1>5. CASE ~ (k <= a)
  <2> DEFINE j == k - a
  <2>1. j \in 1 .. b - 1 /\ j \in 1 .. b /\ j + 1 \in 1 .. b /\ k = a + j /\ k + 1 = a + (j + 1)
    BY <1>3, <1>5
  <2> HIDE DEF j
  <2>2. u[k] = m[j] /\ u[k + 1] = m[j + 1]
    BY <1>2, <2>1
  <2> QED
    BY <1>3, <2>1, <2>2
<1> QED
  BY <1>4, <1>5

LEMMA SizeTail ==
  ASSUME NEW s, IsList(s), s # <<>>, SizeEnds(s)
  PROVE  SizeEnds(Tail(s))
<1> DEFINE l == Len(s)
           t == Tail(s)
<1>1. l \in Nat \ {0} /\ Len(t) = l - 1 /\ \A k \in 1 .. l - 1 : t[k] = s[k + 1]
  BY TailList
<1>2. \A k \in 1 .. l - 1 : s[k].kind = "size" => IsMessage(s[k + 1])
  BY DEF SizeEnds
<1> HIDE DEF l, t
<1> SUFFICES ASSUME NEW k \in 1 .. (l - 1) - 1, t[k].kind = "size"
             PROVE  IsMessage(t[k + 1])
  BY <1>1 DEF SizeEnds, t
<1>3. k \in 1 .. l - 1 /\ k + 1 \in 1 .. l - 1
  BY <1>1
<1> QED
  BY <1>1, <1>2, <1>3

\* The header of an update has 16 bits: there are fewer rectangles in it than that,
\* whether their number is known (writeFramebufferUpdateStart) or not (LastRect).
FewRects ==
  /\ Len(PseudoRects \o UpdateRects) < Unknown
  /\ Len(PseudoRects \o NoDataRects) < Unknown

\* What the viewer can read from where it is, and where a new size may be.
Readable(s) == IsList(s) /\ Framed(0, s) /\ SizeEnds(s) /\ Len(s) # 0 /\ IsMessage(s[1])

LEMMA NoDataReadable ==
  ASSUME ReadyToSend, FewRects, needNoDataUpdate
  PROVE  Readable(Message(Len(NoDataRects), PseudoRects \o NoDataRects))
<1> DEFINE items == PseudoRects \o NoDataRects
           n == Len(NoDataRects)
           m == Message(n, items)
           l == Len(items)
           p == Len(PseudoRects)
<1>1. /\ Kinds(items, RectKinds) /\ l = n + PseudoCount /\ n \in Nat /\ PseudoCount \in Nat
  BY NoDataFits
<1>2. /\ \A k \in 1 .. n - 1 : NoDataRects[k].kind = "ext"
      /\ n # 0
  BY NoDataRectsAre DEF ReadyToSend
<1>3. l < Unknown
  BY DEF FewRects
<1>4. Kinds(PseudoRects, {"cursor", "xcursor", "name"}) /\ p = PseudoCount
  BY PseudoCounted DEF ReadyToSend
<1>5. \A k \in 1 .. l :
        \/ k \in 1 .. p /\ items[k] = PseudoRects[k]
        \/ k - p \in 1 .. n /\ items[k] = NoDataRects[k - p]
  <2>1. IsList(PseudoRects) /\ IsList(NoDataRects)
    BY PseudoCounted, NoDataRectsAre DEF ReadyToSend, Kinds
  <2> QED
    BY <2>1, ConcatList
<1> HIDE DEF items, n, m, p, l
<1>6. n # Unknown /\ Announced(n) = l /\ l # 0 /\ l # Unknown /\ l \in Nat
  <2>1. n <= l /\ l \in Nat /\ l # 0
    BY <1>1, <1>2
  <2>2. n # Unknown /\ l # Unknown
    BY <1>1, <1>3, <2>1 DEF Unknown
  <2> QED
    BY <1>1, <2>1, <2>2 DEF Announced
<1>7. Framed(0, m)
  BY <1>1, <1>3, <1>6, FramedMessage DEF m, l
<1>8. /\ IsList(m) /\ Len(m) = l + 1 /\ m[1].kind = "update"
      /\ \A k \in 1 .. l : m[k + 1] = items[k]
  <2>1. IsList(items)
    BY <1>1 DEF Kinds
  <2> QED
    BY <1>6, <2>1, MessageIs DEF m, l
<1>9. \A k \in 1 .. l - 1 : items[k].kind # "size"
  <2> SUFFICES ASSUME NEW k \in 1 .. l - 1
               PROVE  items[k].kind # "size"
    OBVIOUS
  <2>1. k \in 1 .. l
    BY <1>6
  <2>2. CASE k \in 1 .. p /\ items[k] = PseudoRects[k]
    <3>1. items[k].kind \in {"cursor", "xcursor", "name"}
      BY <1>4, <2>2 DEF Kinds, p
    <3> QED
      BY <3>1
  <2>3. CASE k - p \in 1 .. n /\ items[k] = NoDataRects[k - p]
    <3>1. k - p \in 1 .. n - 1
      BY <1>1, <1>4, <2>3
    <3> QED
      BY <1>2, <2>3, <3>1
  <2> QED
    BY <1>5, <2>1, <2>2, <2>3
<1>10. SizeEnds(m)
  <2> SUFFICES ASSUME NEW k \in 1 .. (l + 1) - 1
               PROVE  m[k].kind = "size" => IsMessage(m[k + 1])
    BY <1>8 DEF SizeEnds
  <2>1. CASE k = 1
    BY <1>8, <2>1
  <2>2. CASE k # 1
    <3> DEFINE j == k - 1
    <3>1. j \in 1 .. l - 1 /\ j \in 1 .. l /\ k = j + 1
      BY <1>6, <2>2
    <3> HIDE DEF j
    <3>2. m[k].kind # "size"
      BY <1>8, <1>9, <3>1
    <3> QED
      BY <3>2
  <2> QED
    BY <2>1, <2>2
<1> QED
  BY <1>6, <1>7, <1>8, <1>10 DEF Readable, IsMessage, m, n, items

LEMMA UpdateReadable ==
  ASSUME ReadyToSend, FewRects, SomethingToSend, ~ needNoDataUpdate
  PROVE  Readable(Message(RectsCount, PseudoRects \o UpdateRects))
<1> DEFINE items == PseudoRects \o UpdateRects
           n == RectsCount
           m == Message(n, items)
           l == Len(items)
           a == Announced(n)
<1>1. /\ Kinds(items, RectKinds \ {"size"}) /\ n \in Nat /\ PseudoCount \in Nat
      /\ n # Unknown => l = n + PseudoCount
  BY UpdateFits
<1>2. l < Unknown /\ l \in Nat
  <2>1. IsList(items)
    BY <1>1 DEF Kinds
  <2> QED
    BY <2>1, ListIs DEF FewRects
<1>3. l # 0 \/ n = Unknown
  <2> SUFFICES ASSUME n # Unknown
               PROVE  l # 0
    OBVIOUS
  <2>1. "LastRect" \notin cp.pseudo
    BY DEF RectsCount
  <2>2. /\ Len(UpdateRects) \in Nat /\ Len(PseudoRects) = PseudoCount
        /\ l = Len(PseudoRects) + Len(UpdateRects)
    <3>1. IsList(PseudoRects) /\ Len(PseudoRects) = PseudoCount
      BY PseudoCounted DEF ReadyToSend, Kinds
    <3>2. IsList(UpdateRects)
      BY UpdateRectsCounted DEF ReadyToSend
    <3> QED
      BY <3>1, <3>2, ListIs, ConcatList
  <2>3. CASE ui.changed # {} \/ ui.copied # {} \/ ui.cursor # {}
    <3>1. Len(UpdateRects) # 0
      BY <2>1, <2>3, SomeRects DEF ReadyToSend
    <3> QED
      BY <1>1, <2>2, <3>1
  <2>4. CASE needFakeUpdate
    <3>1. PseudoCount # 0
      BY <2>4, PseudoCounted DEF ReadyToSend
    <3> QED
      BY <1>1, <2>2, <3>1
  <2> QED
    BY <2>3, <2>4 DEF SomethingToSend
<1> HIDE DEF items, n, m, l, a
<1>4. a # 0 /\ (a # Unknown => l = a)
  <2>1. CASE n = Unknown
    <3>1. a = Unknown
      BY <2>1 DEF a, Announced
    <3> QED
      BY <3>1 DEF Unknown
  <2>2. CASE n # Unknown
    <3>1. a = n + PseudoCount
      BY <2>2 DEF a, Announced
    <3> QED
      BY <1>1, <1>3, <2>2, <3>1
  <2> QED
    BY <2>1, <2>2
<1>5. Framed(0, m)
  <2>1. Kinds(items, RectKinds)
    BY <1>1 DEF Kinds
  <2> QED
    BY <1>1, <1>2, <1>4, <2>1, FramedMessage DEF m, l, a
<1>6. /\ IsList(m) /\ Len(m) = (IF a \in {0, Unknown} THEN l + 2 ELSE l + 1)
      /\ m[1].kind = "update"
      /\ \A k \in 1 .. l : m[k + 1] = items[k]
      /\ a \in {0, Unknown} => m[l + 2].kind = "last"
  <2>1. IsList(items)
    BY <1>1 DEF Kinds
  <2> QED
    BY <2>1, MessageIs DEF m, l, a
<1>7. \A k \in 1 .. Len(m) : m[k].kind # "size"
  <2> SUFFICES ASSUME NEW k \in 1 .. Len(m)
               PROVE  m[k].kind # "size"
    OBVIOUS
  <2>1. CASE k = 1
    BY <1>6, <2>1
  <2>2. CASE k # 1 /\ k <= l + 1
    <3> DEFINE j == k - 1
    <3>1. j \in 1 .. l /\ k = j + 1
      BY <1>2, <2>2
    <3> HIDE DEF j
    <3>2. items[j].kind \in RectKinds \ {"size"}
      BY <1>1, <3>1 DEF Kinds, l
    <3> QED
      BY <1>6, <3>1, <3>2
  <2>3. CASE k > l + 1
    <3>1. k = l + 2 /\ a \in {0, Unknown}
      BY <1>2, <1>6, <2>3
    <3> QED
      BY <1>6, <3>1
  <2> QED
    BY <1>2, <1>6, <2>1, <2>2, <2>3
<1>8. SizeEnds(m) /\ Len(m) # 0
  BY <1>2, <1>6, <1>7 DEF SizeEnds
<1> QED
  BY <1>5, <1>6, <1>8 DEF Readable, IsMessage, m, n, items

\* The viewer knows where it is in the stream, however much of it is still to come.
InSync ==
  /\ viewer = [picture |-> viewer.picture, nUpdateRectsLeft |-> viewer.nUpdateRectsLeft,
               lost |-> viewer.lost]
  /\ Framed(viewer.nUpdateRectsLeft, stream)
  /\ InStep
  /\ SizeIsLast

LEMMA SyncWritten ==
  ASSUME InSync, Room, NEW m, Readable(m), stream' = stream \o m, viewer' = viewer
  PROVE  InSync'
<1>1. IsList(stream) /\ Len(stream) <= 1 /\ SizeEnds(stream)
  BY DEF InSync, Framed, Room, SizeIsLast, SizeEnds
<1>2. Framed(viewer.nUpdateRectsLeft, stream')
  BY FramedConcat DEF InSync, Readable
<1>3. SizeEnds(stream')
  BY <1>1, SizeConcat DEF Readable
<1> QED
  BY <1>2, <1>3 DEF InSync, InStep, SizeIsLast, SizeEnds

LEMMA OtherReadable ==
  ASSUME NEW e, e.kind = "other"
  PROVE  Readable(<<e>>)
<1> DEFINE m == <<e>>
           f == [k \in 0 .. 1 |-> 0]
<1>1. IsList(m) /\ Len(m) = 1 /\ m[1] = e
  BY OneList
<1> HIDE DEF m
<1>2. IsMessage(m[1])
  BY <1>1 DEF IsMessage
<1>3. f \in [0 .. 1 -> Nat] /\ f[0] = 0 /\ f[1] = 0
  OBVIOUS
<1> HIDE DEF f
<1>4. \A k \in 1 .. 1 : Expected(f[k - 1], m[k]) /\ f[k] = Taken(f[k - 1], m[k])
  <2> SUFFICES ASSUME NEW k \in 1 .. 1
               PROVE  Expected(f[k - 1], m[k]) /\ f[k] = Taken(f[k - 1], m[k])
    OBVIOUS
  <2>1. k = 1 /\ k - 1 = 0
    OBVIOUS
  <2> QED
    BY <1>1, <1>2, <1>3, <2>1 DEF Expected, Taken
<1>5. Framed(0, m)
  BY <1>1, <1>3, <1>4 DEF Framed, Counts
<1>6. SizeEnds(m)
  BY <1>1 DEF SizeEnds
<1> QED
  BY <1>1, <1>2, <1>5, <1>6 DEF Readable, m

LEMMA AppendList ==
  ASSUME NEW s, IsList(s), NEW e
  PROVE  Append(s, e) = s \o <<e>>
<1>1. PICK S : s \in Seq(S)
  BY DEF IsList
<1>2. s \in Seq(S \cup {e}) /\ e \in S \cup {e}
  BY <1>1
<1> QED
  BY <1>2, AppendIsConcat

LEMMA SyncRead ==
  ASSUME InSync, ReadMsg
  PROVE  InSync'
<1> DEFINE item == Head(stream)
           n == viewer.nUpdateRectsLeft
<1>1. stream # <<>> /\ stream' = Tail(stream) /\ IsList(stream) /\ SizeEnds(stream)
  BY DEF ReadMsg, InSync, Framed, SizeIsLast, SizeEnds
<1>2. n \in Nat /\ Expected(n, item) /\ Framed(Taken(n, item), stream')
  BY <1>1, FramedTail DEF InSync
<1>3. SizeIsLast'
  <2>1. SizeEnds(stream')
    BY <1>1, SizeTail
  <2> QED
    BY <2>1 DEF SizeIsLast, SizeEnds
<1>4. /\ viewer' = [picture |-> viewer'.picture, nUpdateRectsLeft |-> viewer'.nUpdateRectsLeft,
                    lost |-> viewer'.lost]
      /\ viewer'.lost = viewer.lost /\ viewer'.nUpdateRectsLeft = Taken(n, item)
  <2>1. viewer = [picture |-> viewer.picture, nUpdateRectsLeft |-> n, lost |-> viewer.lost]
    BY DEF InSync
  <2> HIDE DEF item
  <2>2. CASE n = 0
    <3>1. IsMessage(item) /\ ReadMessage(item)
      BY <1>2, <2>2 DEF Expected, ReadMsg, item
    <3>2. CASE item.kind = "update"
      <4>1. viewer' = [viewer EXCEPT !.nUpdateRectsLeft = item.n] /\ Taken(n, item) = item.n
        BY <2>2, <3>1, <3>2 DEF ReadMessage, Taken
      <4> HIDE DEF n
      <4> QED
        BY <2>1, <4>1
    <3>3. CASE item.kind # "update"
      <4>1. viewer' = viewer /\ Taken(n, item) = n
        BY <2>2, <3>1, <3>3 DEF ReadMessage, Taken
      <4> HIDE DEF n
      <4> QED
        BY <2>1, <4>1
    <3> QED
      BY <3>2, <3>3
  <2>3. CASE n # 0
    <3>1. ~ IsMessage(item) /\ ReadRect(item)
      BY <1>2, <2>3 DEF Expected, ReadMsg, item
    <3>2. PICK shown : viewer' = [viewer EXCEPT !.nUpdateRectsLeft = Taken(n, item),
                                                  !.picture = shown]
      BY <2>3, <3>1 DEF ReadRect, Taken
    <3> HIDE DEF n
    <3> QED
      BY <2>1, <3>2
  <2> QED
    BY <2>2, <2>3
<1> HIDE DEF n, item
<1> QED
  BY <1>2, <1>3, <1>4 DEF InSync, InStep

LEMMA SyncInit ==
  ASSUME WriterInit
  PROVE  InSync
<1>1. stream = <<>> /\ viewer.nUpdateRectsLeft = 0 /\ ~ viewer.lost
      /\ viewer = [picture |-> viewer.picture, nUpdateRectsLeft |-> viewer.nUpdateRectsLeft,
                   lost |-> viewer.lost]
  BY DEF WriterInit
<1> DEFINE f == [k \in 0 .. 0 |-> 0]
           s == <<>>
<1>2. f \in [0 .. 0 -> Nat] /\ f[0] = 0
  OBVIOUS
<1>3. IsList(s) /\ Len(s) = 0
  BY EmptyList
<1> HIDE DEF f, s
<1>4. \A k \in 1 .. Len(s) : FALSE
  BY <1>3
<1>5. Framed(0, s)
  BY <1>2, <1>3, <1>4 DEF Framed, Counts
<1>6. SizeEnds(s)
  BY <1>3 DEF SizeEnds
<1> QED
  BY <1>1, <1>5, <1>6 DEF InSync, InStep, SizeIsLast, SizeEnds, s

LEMMA SyncKept ==
  ASSUME ReadyToSend, FewRects, InSync, [WriterNext]_writerVars
  PROVE  InSync'
<1>1. UNCHANGED <<stream, viewer>> => InSync'
  BY DEF InSync, InStep, SizeIsLast
<1>2. CASE WriteNoDataUpdate
  <2>1. CASE stream' = stream \o Message(Len(NoDataRects), PseudoRects \o NoDataRects)
    <3>1. Readable(Message(Len(NoDataRects), PseudoRects \o NoDataRects))
      BY <1>2, NoDataReadable DEF WriteNoDataUpdate
    <3>2. Room /\ viewer' = viewer
      BY <1>2 DEF WriteNoDataUpdate
    <3> QED
      BY <2>1, <3>1, <3>2, SyncWritten
  <2> QED
    BY <1>1, <1>2, <2>1 DEF WriteNoDataUpdate, Throw
<1>3. CASE WriteUpdate
  <2>1. CASE stream' = stream \o Message(RectsCount, PseudoRects \o UpdateRects)
    <3>1. Readable(Message(RectsCount, PseudoRects \o UpdateRects))
      BY <1>3, UpdateReadable DEF WriteUpdate
    <3>2. Room /\ viewer' = viewer
      BY <1>3 DEF WriteUpdate
    <3> QED
      BY <2>1, <3>1, <3>2, SyncWritten
  <2> QED
    BY <1>1, <1>3, <2>1 DEF WriteUpdate, Throw, RectsCount
<1>4. CASE OtherMessage
  <2> DEFINE e == [kind |-> "other"]
  <2>1. Room /\ stream' = Append(stream, e) /\ viewer' = viewer /\ e.kind = "other"
    BY <1>4 DEF OtherMessage
  <2>2. IsList(stream)
    BY DEF InSync, Framed
  <2> HIDE DEF e
  <2>3. stream' = stream \o <<e>>
    BY <2>1, <2>2, AppendList
  <2> QED
    BY <2>1, <2>3, OtherReadable, SyncWritten
<1>5. CASE ReadMsg
  BY <1>5, SyncRead
<1>6. CASE SetCursor \/ SetDesktopName \/ PixelBufferChange \/ SetDesktopSize
           \/ (\E new \in ClientEncodings : SetEncodings(new)) \/ UNCHANGED writerVars
  <2>1. UNCHANGED <<stream, viewer>>
    BY <1>6 DEF SetCursor, SetDesktopName, PixelBufferChange, SetDesktopSize, SetEncodings,
                writerVars
  <2> QED
    BY <1>1, <2>1
<1> QED
  BY <1>2, <1>3, <1>4, <1>5, <1>6 DEF WriterNext

\* Whatever is announced, taken away and interleaved, the viewer never takes a
\* rectangle for a message or a message for a rectangle, for any pictures, splits and
\* encodings: where an update ends (writeFramebufferUpdateStart's count or the
\* LastRect marker) is where CMsgReader stops reading rectangles.
THEOREM ViewerStaysInStep == WriterSpec /\ []FewRects => []InStep
<1>1. WriterInit => InSync
  BY SyncInit
<1>2. ReadyToSend /\ FewRects /\ InSync /\ [WriterNext]_writerVars => InSync'
  BY SyncKept
<1>3. InSync => InStep
  BY DEF InSync
<1> QED
  BY <1>1, <1>2, <1>3, AlwaysReady, PTL DEF WriterSpec

\* A new size is the last rectangle of its update (writeNoDataRects): nothing that
\* some clients would not expect comes after it, not even the LastRect marker.
THEOREM SizeComesLast == WriterSpec /\ []FewRects => []SizeIsLast
<1>1. WriterInit => InSync
  BY SyncInit
<1>2. ReadyToSend /\ FewRects /\ InSync /\ [WriterNext]_writerVars => InSync'
  BY SyncKept
<1>3. InSync => SizeIsLast
  BY DEF InSync
<1> QED
  BY <1>1, <1>2, <1>3, AlwaysReady, PTL DEF WriterSpec

-----------------------------------------------------------------------------
(***************************************************************************)
(* Each pixel once: the pieces of a rectangle, and of a region.            *)
(***************************************************************************)
LEMMA MinOfTwo ==
  ASSUME NEW x \in Int, NEW y \in Int
  PROVE  Min({x, y}) = IF x <= y THEN x ELSE y
<1> DEFINE S == {x, y}
           b == IF x <= y THEN x ELSE y
<1>1. S \in SUBSET Int /\ S # {} /\ b \in S /\ b \in Int /\ \A z \in S : b <= z
  OBVIOUS
<1> HIDE DEF S, b
<1>2. Min(S) \in S /\ \A z \in S : Min(S) <= z
  BY <1>1, LeastAbove
<1>3. Min(S) \in Int /\ Min(S) <= b /\ b <= Min(S)
  BY <1>1, <1>2
<1> QED
  BY <1>1, <1>3 DEF S, b

\* The steps of a loop from a to b, and the one in which x is reached.
StepsTo(a, b, s) == Cardinality({k \in 0 .. b - a : a + k * s < b})

LEMMA StepsAre ==
  ASSUME NEW a \in Int, NEW b \in Int, a < b, NEW s \in Nat, s # 0
  PROVE  /\ StepsTo(a, b, s) \in Nat \ {0}
         /\ \A k \in Nat : a + k * s < b <=> k < StepsTo(a, b, s)
<1> DEFINE q == (b - a - 1) \div s
           n == StepsTo(a, b, s)
<1>1. n = q + 1
  BY StepsCounted DEF StepsTo
<1>2. b - a - 1 \in Nat
  OBVIOUS
<1>3. q \in Nat /\ q * s <= b - a - 1 /\ b - a - 1 < (q + 1) * s
  BY <1>2, DivisionIs
<1> HIDE DEF q, n
<1>4. ASSUME NEW k \in Nat, k < n
      PROVE  a + k * s < b
  <2>1. k <= q
    BY <1>1, <1>3, <1>4
  <2>2. k * s \in Nat /\ k * s <= q * s /\ q * s \in Nat
    BY <1>3, <2>1, Multiples
  <2> QED
    BY <1>3, <2>2
<1>5. ASSUME NEW k \in Nat, ~ (k < n)
      PROVE  ~ (a + k * s < b)
  <2>1. q + 1 <= k /\ q + 1 \in Nat
    BY <1>1, <1>3, <1>5
  <2>2. (q + 1) * s \in Nat /\ (q + 1) * s <= k * s /\ k * s \in Nat
    BY <2>1, Multiples
  <2> QED
    BY <1>2, <1>3, <2>2
<1> QED
  BY <1>1, <1>3, <1>4, <1>5 DEF n

LEMMA StepOf ==
  ASSUME NEW a \in Int, NEW x \in Int, a <= x, NEW s \in Nat, s # 0
  PROVE  \E k \in Nat : a + k * s <= x /\ x < a + k * s + s
<1> DEFINE k == (x - a) \div s
<1>1. x - a \in Nat
  OBVIOUS
<1>2. k \in Nat /\ k * s <= x - a /\ x - a < (k + 1) * s
  BY <1>1, DivisionIs
<1> HIDE DEF k
<1>3. (k + 1) * s = k * s + s /\ k * s \in Int
  BY <1>2
<1>4. a + k * s <= x /\ x < a + k * s + s
  BY <1>1, <1>2, <1>3
<1> QED
  BY <1>2, <1>4

\* A step ends before the next one begins.
LEMMA StepsApart ==
  ASSUME NEW j \in Nat, NEW k \in Nat, j < k, NEW s \in Nat
  PROVE  j * s \in Nat /\ k * s \in Nat /\ j * s + s <= k * s
<1>1. (j + 1) * s <= k * s /\ (j + 1) * s = j * s + s /\ j * s \in Nat /\ k * s \in Nat
  BY Multiples
<1> QED
  BY <1>1

\* A number is in one way a multiple of m and a remainder.
LEMMA DividedOnce ==
  ASSUME NEW m \in Nat, NEW a \in 0 .. m - 1, NEW b \in 0 .. m - 1, NEW d \in Nat, NEW e \in Nat,
         d * m + a = e * m + b
  PROVE  a = b /\ d = e
<1>1. ASSUME NEW f \in Nat, NEW g \in Nat, f < g, NEW u \in 0 .. m - 1, NEW v \in 0 .. m - 1
      PROVE  f * m + u # g * m + v
  <2>1. f * m \in Nat /\ g * m \in Nat /\ f * m + m <= g * m
    BY <1>1, StepsApart
  <2> QED
    BY <2>1
<1>2. ~ (d < e) /\ ~ (e < d)
  BY <1>1
<1>3. d = e
  BY <1>2
<1>4. d * m \in Nat
  BY <1>3, Multiples
<1> QED
  BY <1>3, <1>4

LEMMA RemainderIs ==
  ASSUME NEW k \in Nat, NEW m \in Nat, m # 0
  PROVE  k % m \in 0 .. m - 1 /\ k \div m \in Nat /\ k = (k \div m) * m + (k % m)
  OBVIOUS

\* What the two loops of Split do: step a across, step d down.
Piece(r, sw, sh, a, d) ==
  [x1 |-> r.x1 + a * sw, y1 |-> r.y1 + d * sh,
   x2 |-> Min({r.x1 + a * sw + sw, r.x2}), y2 |-> Min({r.y1 + d * sh + sh, r.y2})]

Loops(r, sw, sh, m, n) ==
  /\ m \in Nat \ {0} /\ n \in Nat \ {0}
  /\ \A a \in Nat : r.x1 + a * sw < r.x2 <=> a < m
  /\ \A d \in Nat : r.y1 + d * sh < r.y2 <=> d < n
  /\ IsList(Split(r, sw, sh)) /\ Len(Split(r, sw, sh)) = m * n
  /\ \A k \in 1 .. m * n : \E a \in 0 .. m - 1, d \in 0 .. n - 1 :
        k = d * m + a + 1 /\ Split(r, sw, sh)[k] = Piece(r, sw, sh, a, d)
  /\ \A a \in 0 .. m - 1, d \in 0 .. n - 1 :
        d * m + a + 1 \in 1 .. m * n /\ Split(r, sw, sh)[d * m + a + 1] = Piece(r, sw, sh, a, d)

LEMMA SplitLoops ==
  ASSUME NEW r \in Rectangle, Nonempty(r), NEW sw \in Nat, sw # 0, NEW sh \in Nat, sh # 0
  PROVE  \E m, n : Loops(r, sw, sh, m, n)
<1> DEFINE m == Cardinality({k \in 0 .. Width(r) : r.x1 + k * sw < r.x2})
           n == Cardinality({k \in 0 .. Height(r) : r.y1 + k * sh < r.y2})
           pieces == Split(r, sw, sh)
<1>1. /\ r.x1 \in Int /\ r.x2 \in Int /\ r.x1 < r.x2 /\ Width(r) = r.x2 - r.x1
      /\ r.y1 \in Int /\ r.y2 \in Int /\ r.y1 < r.y2 /\ Height(r) = r.y2 - r.y1
  BY DEF Rectangle, Nonempty, Width, Height
<1>2. m \in Nat \ {0} /\ \A a \in Nat : r.x1 + a * sw < r.x2 <=> a < m
  <2>1. m = StepsTo(r.x1, r.x2, sw)
    BY <1>1 DEF StepsTo
  <2> HIDE DEF m
  <2> QED
    BY <1>1, <2>1, StepsAre
<1>3. n \in Nat \ {0} /\ \A d \in Nat : r.y1 + d * sh < r.y2 <=> d < n
  <2>1. n = StepsTo(r.y1, r.y2, sh)
    BY <1>1 DEF StepsTo
  <2> HIDE DEF n
  <2> QED
    BY <1>1, <2>1, StepsAre
<1>4. pieces = [k \in 1 .. m * n |-> Piece(r, sw, sh, (k - 1) % m, (k - 1) \div m)]
  BY DEF Split, Piece
<1> HIDE DEF m, n
<1>5. m * n \in Nat
  BY <1>2, <1>3, Multiples
<1>6. pieces = [k \in 1 .. m * n |-> pieces[k]]
  BY <1>4
<1> HIDE DEF pieces
<1>7. IsList(pieces) /\ Len(pieces) = m * n
  <2> DEFINE l == m * n
  <2>1. l \in Nat /\ pieces = [k \in 1 .. l |-> pieces[k]]
    BY <1>5, <1>6
  <2> HIDE DEF l
  <2>2. IsList(pieces) /\ Len(pieces) = l
    BY <2>1, ListOf
  <2> QED
    BY <2>2 DEF l
<1>8. ASSUME NEW k \in 1 .. m * n
      PROVE  \E a \in 0 .. m - 1, d \in 0 .. n - 1 :
               k = d * m + a + 1 /\ pieces[k] = Piece(r, sw, sh, a, d)
  <2> DEFINE a == (k - 1) % m
             d == (k - 1) \div m
  <2>1. k - 1 \in Nat /\ k \in Nat /\ k <= m * n
    BY <1>5
  <2>2. a \in 0 .. m - 1 /\ d \in Nat /\ k - 1 = d * m + a
    BY <1>2, <2>1, RemainderIs
  <2>3. pieces[k] = Piece(r, sw, sh, a, d)
    BY <1>4
  <2> HIDE DEF a, d
  <2>4. d * m \in Nat
    BY <1>2, <2>2, Multiples
  <2>5. k = d * m + a + 1
    BY <2>1, <2>2, <2>4
  <2>6. d < n
    <3> SUFFICES ASSUME ~ (d < n)
                 PROVE  FALSE
      OBVIOUS
    <3>1. n <= d
      BY <1>3, <2>2
    <3>2. n * m <= d * m /\ n * m = m * n
      BY <1>2, <1>3, <2>2, <3>1, Multiples
    <3> QED
      BY <1>5, <2>1, <2>2, <2>4, <2>5, <3>2
  <2>7. d \in 0 .. n - 1
    BY <1>3, <2>2, <2>6
  <2> QED
    BY <2>2, <2>3, <2>5, <2>7
<1>9. ASSUME NEW a \in 0 .. m - 1, NEW d \in 0 .. n - 1
      PROVE  d * m + a + 1 \in 1 .. m * n /\ pieces[d * m + a + 1] = Piece(r, sw, sh, a, d)
  <2> DEFINE k == d * m + a + 1
  <2>1. d \in Nat /\ a \in Nat /\ a < m /\ d < n
    BY <1>2, <1>3
  <2>2. d * m \in Nat /\ n * m = m * n /\ d * m + m <= n * m
    BY <1>2, <1>3, <2>1, StepsApart
  <2>3. k \in 1 .. m * n
    BY <1>2, <1>5, <2>1, <2>2
  <2>4. PICK b \in 0 .. m - 1, e \in 0 .. n - 1 :
          k = e * m + b + 1 /\ pieces[k] = Piece(r, sw, sh, b, e)
    BY <1>8, <2>3
  <2>5. e \in Nat /\ e * m \in Nat
    <3>1. e \in Nat
      BY <1>3
    <3> QED
      BY <1>2, <3>1, Multiples
  <2>6. d * m + a = e * m + b
    BY <2>1, <2>2, <2>4, <2>5
  <2>7. a = b /\ d = e
    BY <1>2, <2>1, <2>5, <2>6, DividedOnce
  <2> QED
    BY <2>3, <2>4, <2>7
<1>10. Loops(r, sw, sh, m, n)
  BY <1>2, <1>3, <1>7, <1>8, <1>9 DEF Loops, pieces
<1> QED
  BY <1>10

\* The rectangles of s have the pixels of A, each once, and no other.
Tiles(s, A) ==
  /\ IsList(s)
  /\ \A k \in 1 .. Len(s) : Pixels(s[k]) \subseteq A
  /\ \A p \in A : \E k \in 1 .. Len(s) : p \in Pixels(s[k])
  /\ \A j, k \in 1 .. Len(s) : j # k => Pixels(s[j]) \cap Pixels(s[k]) = {}

LEMMA PieceIs ==
  ASSUME NEW r \in Rectangle, NEW sw \in Nat, NEW sh \in Nat, NEW a \in Nat, NEW d \in Nat, NEW p
  PROVE  /\ Piece(r, sw, sh, a, d) \in Rectangle
         /\ p \in Pixels(Piece(r, sw, sh, a, d)) <=>
              /\ p \in Point
              /\ r.x1 + a * sw <= p[1] /\ p[1] < r.x1 + a * sw + sw /\ p[1] < r.x2
              /\ r.y1 + d * sh <= p[2] /\ p[2] < r.y1 + d * sh + sh /\ p[2] < r.y2
<1> DEFINE u == a * sw
           v == d * sh
           s == Piece(r, sw, sh, a, d)
<1>1. u \in Nat /\ v \in Nat
  BY Multiples
<1>2. r.x1 \in Int /\ r.x2 \in Int /\ r.y1 \in Int /\ r.y2 \in Int
  BY DEF Rectangle
<1>3. s = [x1 |-> r.x1 + u, y1 |-> r.y1 + v,
           x2 |-> Min({r.x1 + u + sw, r.x2}), y2 |-> Min({r.y1 + v + sh, r.y2})]
  BY DEF Piece
<1> HIDE DEF u, v, s
<1>4. /\ Min({r.x1 + u + sw, r.x2}) = IF r.x1 + u + sw <= r.x2 THEN r.x1 + u + sw ELSE r.x2
      /\ Min({r.y1 + v + sh, r.y2}) = IF r.y1 + v + sh <= r.y2 THEN r.y1 + v + sh ELSE r.y2
  BY <1>1, <1>2, MinOfTwo
<1>5. /\ s.x1 = r.x1 + u /\ s.y1 = r.y1 + v
      /\ s.x2 = IF r.x1 + u + sw <= r.x2 THEN r.x1 + u + sw ELSE r.x2
      /\ s.y2 = IF r.y1 + v + sh <= r.y2 THEN r.y1 + v + sh ELSE r.y2
  BY <1>3, <1>4
<1>6. s \in Rectangle
  BY <1>1, <1>2, <1>3, <1>4 DEF Rectangle
<1>7. p \in Pixels(s) <=> /\ p \in Point /\ s.x1 <= p[1] /\ p[1] < s.x2
                          /\ s.y1 <= p[2] /\ p[2] < s.y2
  BY <1>6, PixelsMember
<1>8. p \in Point => p[1] \in Int /\ p[2] \in Int
  BY DEF Point
<1>9. p \in Pixels(s) <=>
        /\ p \in Point
        /\ r.x1 + u <= p[1] /\ p[1] < r.x1 + u + sw /\ p[1] < r.x2
        /\ r.y1 + v <= p[2] /\ p[2] < r.y1 + v + sh /\ p[2] < r.y2
  BY <1>1, <1>2, <1>5, <1>7, <1>8
<1> QED
  BY <1>6, <1>9 DEF u, v, s

\* The two loops leave no pixel out and have none twice.
LEMMA SplitTiles ==
  ASSUME NEW r \in Rectangle, Nonempty(r), NEW sw \in Nat, sw # 0, NEW sh \in Nat, sh # 0
  PROVE  Tiles(Split(r, sw, sh), Pixels(r))
<1> DEFINE s == Split(r, sw, sh)
           P(a, d) == Piece(r, sw, sh, a, d)
<1>1. PICK m, n : Loops(r, sw, sh, m, n)
  BY SplitLoops
<1>2. /\ m \in Nat \ {0} /\ n \in Nat \ {0} /\ IsList(s) /\ Len(s) = m * n
      /\ \A a \in Nat : r.x1 + a * sw < r.x2 <=> a < m
      /\ \A d \in Nat : r.y1 + d * sh < r.y2 <=> d < n
      /\ \A k \in 1 .. m * n : \E a \in 0 .. m - 1, d \in 0 .. n - 1 :
            k = d * m + a + 1 /\ s[k] = P(a, d)
      /\ \A a \in 0 .. m - 1, d \in 0 .. n - 1 :
            d * m + a + 1 \in 1 .. m * n /\ s[d * m + a + 1] = P(a, d)
  BY <1>1 DEF Loops
<1>3. r.x1 \in Int /\ r.x2 \in Int /\ r.y1 \in Int /\ r.y2 \in Int
  BY DEF Rectangle
<1> HIDE DEF s
<1>4. ASSUME NEW a \in Nat, NEW d \in Nat, NEW p
      PROVE  p \in Pixels(P(a, d)) <=>
              /\ p \in Point
              /\ r.x1 + a * sw <= p[1] /\ p[1] < r.x1 + a * sw + sw /\ p[1] < r.x2
              /\ r.y1 + d * sh <= p[2] /\ p[2] < r.y1 + d * sh + sh /\ p[2] < r.y2
  BY PieceIs
<1>5. \A p : p \in Pixels(r) <=> /\ p \in Point /\ r.x1 <= p[1] /\ p[1] < r.x2
                                 /\ r.y1 <= p[2] /\ p[2] < r.y2
  BY PixelsMember
<1>6. \A p \in Point : p[1] \in Int /\ p[2] \in Int
  BY DEF Point
<1> HIDE DEF P
<1>7. \A k \in 0 .. m - 1 : k \in Nat
  BY <1>2
<1>8. \A k \in 0 .. n - 1 : k \in Nat
  BY <1>2
<1>9. ASSUME NEW a \in Nat, NEW d \in Nat
      PROVE  Pixels(P(a, d)) \subseteq Pixels(r)
  <2> SUFFICES ASSUME NEW p \in Pixels(P(a, d))
               PROVE  p \in Pixels(r)
    OBVIOUS
  <2>1. a * sw \in Nat /\ d * sh \in Nat
    BY Multiples
  <2>2. /\ p \in Point
        /\ r.x1 + a * sw <= p[1] /\ p[1] < r.x2
        /\ r.y1 + d * sh <= p[2] /\ p[2] < r.y2
    BY <1>4
  <2>3. p[1] \in Int /\ p[2] \in Int
    BY <1>6, <2>2
  <2>4. r.x1 <= p[1] /\ r.y1 <= p[2]
    BY <1>3, <2>1, <2>2, <2>3
  <2> QED
    BY <1>5, <2>2, <2>4
<1>10. ASSUME NEW k \in 1 .. Len(s)
       PROVE  Pixels(s[k]) \subseteq Pixels(r)
  <2>1. PICK a \in 0 .. m - 1, d \in 0 .. n - 1 : s[k] = P(a, d)
    BY <1>2
  <2> QED
    BY <1>7, <1>8, <1>9, <2>1
<1>11. ASSUME NEW p \in Pixels(r)
       PROVE  \E k \in 1 .. Len(s) : p \in Pixels(s[k])
  <2>1. /\ p \in Point /\ r.x1 <= p[1] /\ p[1] < r.x2 /\ r.y1 <= p[2] /\ p[2] < r.y2
        /\ p[1] \in Int /\ p[2] \in Int
    BY <1>5, <1>6
  <2>2. PICK a \in Nat : r.x1 + a * sw <= p[1] /\ p[1] < r.x1 + a * sw + sw
    BY <1>3, <2>1, StepOf
  <2>3. PICK d \in Nat : r.y1 + d * sh <= p[2] /\ p[2] < r.y1 + d * sh + sh
    BY <1>3, <2>1, StepOf
  <2>4. a * sw \in Nat /\ d * sh \in Nat
    BY Multiples
  <2>5. r.x1 + a * sw < r.x2 /\ r.y1 + d * sh < r.y2
    BY <1>3, <2>1, <2>2, <2>3, <2>4
  <2>6. a < m /\ d < n
    BY <1>2, <2>5
  <2>7. a \in 0 .. m - 1 /\ d \in 0 .. n - 1
    BY <1>2, <2>6
  <2>8. d * m + a + 1 \in 1 .. Len(s) /\ s[d * m + a + 1] = P(a, d)
    BY <1>2, <2>7
  <2>9. p \in Pixels(P(a, d))
    BY <1>4, <2>1, <2>2, <2>3
  <2> QED
    BY <2>8, <2>9
<1>12. ASSUME NEW a \in Nat, NEW b \in Nat, NEW d \in Nat, NEW e \in Nat,
              NEW p \in Pixels(P(a, d)) \cap Pixels(P(b, e))
       PROVE  a = b /\ d = e
  <2>1. /\ p[1] \in Int /\ r.x1 + a * sw <= p[1] /\ p[1] < r.x1 + a * sw + sw
        /\ r.x1 + b * sw <= p[1] /\ p[1] < r.x1 + b * sw + sw
        /\ p[2] \in Int /\ r.y1 + d * sh <= p[2] /\ p[2] < r.y1 + d * sh + sh
        /\ r.y1 + e * sh <= p[2] /\ p[2] < r.y1 + e * sh + sh
    BY <1>4, <1>6
  <2>2. ASSUME NEW f \in Nat, NEW g \in Nat, f < g, NEW w \in Nat, NEW x \in Int, NEW y \in Int
        PROVE  ~ (y < x + f * w + w /\ x + g * w <= y)
    <3>1. f * w \in Nat /\ g * w \in Nat /\ f * w + w <= g * w
      BY <2>2, StepsApart
    <3> QED
      BY <3>1
  <2>3. ~ (a < b) /\ ~ (b < a) /\ ~ (d < e) /\ ~ (e < d)
    BY <1>3, <2>1, <2>2
  <2> QED
    BY <2>3
<1>13. ASSUME NEW j \in 1 .. Len(s), NEW k \in 1 .. Len(s), j # k
       PROVE  Pixels(s[j]) \cap Pixels(s[k]) = {}
  <2>1. PICK a \in 0 .. m - 1, d \in 0 .. n - 1 : j = d * m + a + 1 /\ s[j] = P(a, d)
    BY <1>2
  <2>2. PICK b \in 0 .. m - 1, e \in 0 .. n - 1 : k = e * m + b + 1 /\ s[k] = P(b, e)
    BY <1>2
  <2> SUFFICES ASSUME NEW p \in Pixels(s[j]) \cap Pixels(s[k])
               PROVE  FALSE
    OBVIOUS
  <2>3. a = b /\ d = e
    BY <1>7, <1>8, <1>12, <2>1, <2>2
  <2> QED
    BY <1>13, <2>1, <2>2, <2>3
<1> QED
  BY <1>2, <1>10, <1>11, <1>13 DEF Tiles, s

LEMMA FewTiles ==
  /\ Tiles(<<>>, {})
  /\ \A r : Tiles(<<r>>, Pixels(r))
<1>1. Tiles(<<>>, {})
  <2>1. IsList(<<>>) /\ Len(<<>>) = 0
    BY EmptyList
  <2>2. \A k \in 1 .. Len(<<>>) : FALSE
    BY <2>1
  <2> QED
    BY <2>1, <2>2 DEF Tiles
<1>2. ASSUME NEW r
      PROVE  Tiles(<<r>>, Pixels(r))
  <2> DEFINE s == <<r>>
  <2>1. IsList(s) /\ Len(s) = 1 /\ s[1] = r
    BY OneList
  <2> HIDE DEF s
  <2>2. 1 \in 1 .. Len(s) /\ \A k \in 1 .. Len(s) : k = 1
    BY <2>1
  <2>3. Tiles(s, Pixels(r))
    BY <2>1, <2>2 DEF Tiles
  <2> QED
    BY <2>3 DEF s
<1> QED
  BY <1>1, <1>2

LEMMA ConcatTiles ==
  ASSUME NEW s, NEW t, NEW A, NEW B, Tiles(s, A), Tiles(t, B), A \cap B = {}
  PROVE  Tiles(s \o t, A \cup B)
<1> DEFINE u == s \o t
           l == Len(s)
           m == Len(t)
<1>1. IsList(s) /\ IsList(t) /\ l \in Nat /\ m \in Nat
  BY ListIs DEF Tiles
<1>2. /\ IsList(u) /\ Len(u) = l + m
      /\ \A k \in 1 .. l : u[k] = s[k]
      /\ \A k \in 1 .. m : u[l + k] = t[k]
      /\ \A k \in 1 .. Len(u) : \/ k \in 1 .. l /\ u[k] = s[k]
                                \/ k - l \in 1 .. m /\ u[k] = t[k - l]
  BY <1>1, ConcatList
<1>3. /\ \A k \in 1 .. l : Pixels(s[k]) \subseteq A
      /\ \A p \in A : \E k \in 1 .. l : p \in Pixels(s[k])
      /\ \A j, k \in 1 .. l : j # k => Pixels(s[j]) \cap Pixels(s[k]) = {}
  BY DEF Tiles
<1>4. /\ \A k \in 1 .. m : Pixels(t[k]) \subseteq B
      /\ \A p \in B : \E k \in 1 .. m : p \in Pixels(t[k])
      /\ \A j, k \in 1 .. m : j # k => Pixels(t[j]) \cap Pixels(t[k]) = {}
  BY DEF Tiles
<1> HIDE DEF u, l, m
<1>5. \A k \in 1 .. Len(u) : Pixels(u[k]) \subseteq A \cup B
  BY <1>2, <1>3, <1>4
<1>6. ASSUME NEW p \in A \cup B
      PROVE  \E k \in 1 .. Len(u) : p \in Pixels(u[k])
  <2>1. CASE p \in A
    <3>1. PICK k \in 1 .. l : p \in Pixels(s[k])
      BY <1>3, <2>1
    <3>2. k \in 1 .. Len(u) /\ u[k] = s[k]
      BY <1>1, <1>2
    <3> QED
      BY <3>1, <3>2
  <2>2. CASE p \in B
    <3>1. PICK k \in 1 .. m : p \in Pixels(t[k])
      BY <1>4, <2>2
    <3>2. l + k \in 1 .. Len(u) /\ u[l + k] = t[k]
      BY <1>1, <1>2
    <3> QED
      BY <3>1, <3>2
  <2> QED
    BY <2>1, <2>2
<1>7. ASSUME NEW j \in 1 .. Len(u), NEW k \in 1 .. Len(u), j # k
      PROVE  Pixels(u[j]) \cap Pixels(u[k]) = {}
  <2>1. j \in Int /\ k \in Int
    BY <1>1, <1>2
  <2>2. CASE j \in 1 .. l /\ u[j] = s[j] /\ k \in 1 .. l /\ u[k] = s[k]
    BY <1>3, <1>7, <2>2
  <2>3. CASE j - l \in 1 .. m /\ u[j] = t[j - l] /\ k - l \in 1 .. m /\ u[k] = t[k - l]
    <3>1. j - l # k - l
      BY <1>1, <1>7, <2>1
    <3> QED
      BY <1>4, <2>3, <3>1
  <2>4. CASE Pixels(u[j]) \subseteq A /\ Pixels(u[k]) \subseteq B
    BY <2>4
  <2>5. CASE Pixels(u[j]) \subseteq B /\ Pixels(u[k]) \subseteq A
    BY <2>5
  <2> QED
    BY <1>2, <1>3, <1>4, <2>2, <2>3, <2>4, <2>5
<1> QED
  BY <1>2, <1>5, <1>6, <1>7 DEF Tiles, u

\* Lists of rectangles put together: if each has its own pixels, all have those of all.
LEMMA FlattenTiles ==
  ASSUME NEW seqs, IsList(seqs), NEW A,
         \A k \in 1 .. Len(seqs) : Tiles(seqs[k], A[k]),
         \A j, k \in 1 .. Len(seqs) : j # k => A[j] \cap A[k] = {}
  PROVE  Tiles(FlattenSeq(seqs), UNION {A[k] : k \in 1 .. Len(seqs)})
<1> DEFINE n == Len(seqs)
           All(k) == UNION {A[j] : j \in 1 .. k}
<1>1. n \in Nat
  BY ListIs
<1>2. CASE n = 0
  <2>1. FlattenSeq(seqs) = seqs
    BY <1>2 DEF FlattenSeq
  <2>2. \A k \in 1 .. Len(seqs) : FALSE
    BY <1>2
  <2>3. UNION {A[k] : k \in 1 .. Len(seqs)} = {}
    BY <2>2
  <2> QED
    BY <2>1, <2>2, <2>3 DEF Tiles
<1>3. CASE n # 0
  <2> DEFINE f == CHOOSE f : f = [k \in 1 .. n |->
                                    IF k = 1 THEN seqs[k] ELSE f[k - 1] \o seqs[k]]
  <2>1. FlattenSeq(seqs) = f[n]
    BY <1>3 DEF FlattenSeq
  <2>2. f = [k \in 1 .. n |-> IF k = 1 THEN seqs[k] ELSE f[k - 1] \o seqs[k]]
    <3> HIDE DEF n
    <3> QED
      BY <1>1, ConcatsExist
  <2>3. /\ \A k \in 1 .. n : Tiles(seqs[k], A[k])
        /\ \A j, k \in 1 .. n : j # k => A[j] \cap A[k] = {}
    OBVIOUS
  <2> HIDE DEF f, n
  <2>4. \A k \in 1 .. n : f[k] = IF k = 1 THEN seqs[k] ELSE f[k - 1] \o seqs[k]
    BY <2>2
  <2> DEFINE Good(k) == Tiles(f[k], All(k))
             Bad == {k \in 1 .. n : ~ Good(k)}
  <2>5. ASSUME NEW k \in 1 .. n, k # 1 => Good(k - 1)
        PROVE  Good(k)
    <3>1. Tiles(seqs[k], A[k])
      BY <2>3
    <3>2. CASE k = 1
      <4>1. f[k] = seqs[k]
        BY <2>4, <3>2
      <4>2. All(k) = A[k]
        <5>1. \A j \in 1 .. k : j = k
          BY <3>2
        <5>2. k \in 1 .. k
          BY <3>2
        <5> QED
          BY <5>1, <5>2
      <4> HIDE DEF All
      <4> QED
        BY <3>1, <4>1, <4>2
    <3>3. CASE k # 1
      <4>1. f[k] = f[k - 1] \o seqs[k]
        BY <2>4, <3>3
      <4>2. k - 1 \in Nat /\ k \in Nat /\ \A j \in 1 .. k - 1 : j \in 1 .. n /\ j # k
        BY <1>1, <3>3
      <4>3. \A j : j \in 1 .. k <=> j \in 1 .. k - 1 \/ j = k
        BY <4>2, <3>3
      <4>4. All(k) = All(k - 1) \cup A[k]
        BY <4>3
      <4>5. All(k - 1) \cap A[k] = {}
        BY <2>3, <4>2
      <4> HIDE DEF All
      <4>6. Tiles(f[k - 1], All(k - 1))
        BY <2>5, <3>3
      <4> QED
        BY <3>1, <4>1, <4>4, <4>5, <4>6, ConcatTiles
    <3> QED
      BY <3>2, <3>3
  <2> HIDE DEF Good
  <2>6. Bad = {}
    <3> SUFFICES ASSUME Bad # {}
                 PROVE  FALSE
      OBVIOUS
    <3>1. Bad \in SUBSET Nat
      BY <1>1
    <3>2. PICK k \in Bad : k # 0 => k - 1 \in Nat \ Bad
      <4> HIDE DEF Bad
      <4> QED
        BY <3>1, LeastNat
    <3>3. k \in 1 .. n /\ ~ Good(k) /\ (k # 1 => Good(k - 1))
      BY <1>1, <3>2
    <3> QED
      BY <2>5, <3>3
  <2>7. Good(n)
    BY <1>1, <1>3, <2>6
  <2> QED
    BY <2>1, <2>7 DEF Good, n
<1> QED
  BY <1>2, <1>3

\* The steps of computeNumRects and writeRects.
LEMMA StepSizes ==
  ASSUME NEW r \in Rectangle, Nonempty(r)
  PROVE  LET sw == Min({Width(r), SubRectMaxWidth})
             sh == SubRectMaxArea \div sw
         IN sw \in Nat /\ sw # 0 /\ sh \in Nat /\ sh # 0
<1> DEFINE sw == Min({Width(r), SubRectMaxWidth})
           sh == SubRectMaxArea \div sw
<1>1. Width(r) \in Nat /\ Width(r) # 0 /\ SubRectMaxWidth \in Nat /\ SubRectMaxWidth # 0
      /\ SubRectMaxArea \in Nat /\ SubRectMaxWidth <= SubRectMaxArea
  BY SplitAssumption DEF Rectangle, Nonempty, Width
<1>2. sw \in Nat /\ sw # 0 /\ sw <= SubRectMaxArea
  <2>1. sw = IF Width(r) <= SubRectMaxWidth THEN Width(r) ELSE SubRectMaxWidth
    BY <1>1, MinOfTwo
  <2> HIDE DEF sw
  <2> QED
    BY <1>1, <2>1
<1> HIDE DEF sw
<1>3. sh \in Nat /\ sh # 0
  <2>1. sh \in Nat /\ SubRectMaxArea < (sh + 1) * sw
    BY <1>1, <1>2, DivisionIs
  <2> HIDE DEF sh
  <2>2. sh = 0 => SubRectMaxArea < sw
    BY <1>2, <2>1
  <2> QED
    BY <1>1, <1>2, <2>1, <2>2
<1> QED
  BY <1>2, <1>3 DEF sw, sh

\* The pieces of a rectangle have its pixels, each once, and so have those of a region.
LEMMA SubRectsTile ==
  ASSUME NEW r \in Rectangle, Nonempty(r)
  PROVE  Tiles(SubRects(r), Pixels(r))
<1> DEFINE sw == Min({Width(r), SubRectMaxWidth})
           sh == SubRectMaxArea \div sw
<1>1. SubRects(r) = IF NoSplit(r) THEN <<r>> ELSE Split(r, sw, sh)
  BY DEF SubRects
<1>2. sw \in Nat /\ sw # 0 /\ sh \in Nat /\ sh # 0
  BY StepSizes
<1> HIDE DEF sw, sh
<1>3. Tiles(Split(r, sw, sh), Pixels(r))
  BY <1>2, SplitTiles
<1>4. Tiles(<<r>>, Pixels(r))
  BY FewTiles
<1> QED
  BY <1>1, <1>3, <1>4

\* What is known of the rectangles of a region.
LEMMA RegionTiles ==
  ASSUME NEW R \in SUBSET Point, IsFiniteSet(R)
  PROVE  LET s == RectanglesOf(R)
         IN /\ Len(s) \in Nat /\ DOMAIN s = 1 .. Len(s)
            /\ \A k \in 1 .. Len(s) : s[k] \in Rectangle /\ Nonempty(s[k])
            /\ \A k \in 1 .. Len(s) : Pixels(s[k]) \subseteq R
            /\ \A p \in R : \E k \in 1 .. Len(s) : p \in Pixels(s[k])
            /\ \A j, k \in 1 .. Len(s) : j # k => Pixels(s[j]) \cap Pixels(s[k]) = {}
<1> DEFINE s == RectanglesOf(R)
<1>1. /\ s \in Seq(Rectangle)
      /\ Banded(s)
      /\ UNION {Pixels(s[k]) : k \in 1 .. Len(s)} = R
      /\ \A j, k \in 1 .. Len(s) : j # k => Pixels(s[j]) \cap Pixels(s[k]) = {}
  BY RectanglesAreExact
<1> HIDE DEF s
<1>2. Len(s) \in Nat /\ DOMAIN s = 1 .. Len(s)
  BY <1>1
<1>3. \A k \in 1 .. Len(s) : s[k] \in Rectangle /\ Nonempty(s[k])
  BY <1>1 DEF Banded
<1>4. \A k \in 1 .. Len(s) : Pixels(s[k]) \subseteq R
  BY <1>1
<1>5. \A p \in R : \E k \in 1 .. Len(s) : p \in Pixels(s[k])
  BY <1>1
<1> QED
  BY <1>1, <1>2, <1>3, <1>4, <1>5 DEF s

LEMMA RectsTile ==
  ASSUME NEW R \in SUBSET Point, IsFiniteSet(R)
  PROVE  \E pieces : /\ Tiles(pieces, R)
                     /\ Len(Rects(R)) = Len(pieces)
                     /\ \A k \in 1 .. Len(pieces) : Rects(R)[k].r = pieces[k]
<1> DEFINE items == RectanglesOf(R)
           n == Len(items)
           seqs == [k \in DOMAIN items |-> SubRects(items[k])]
           pieces == FlattenSeq(seqs)
           A == [k \in 1 .. n |-> Pixels(items[k])]
<1>1. /\ n \in Nat /\ DOMAIN items = 1 .. n
      /\ \A k \in 1 .. n : items[k] \in Rectangle /\ Nonempty(items[k])
      /\ \A k \in 1 .. n : Pixels(items[k]) \subseteq R
      /\ \A p \in R : \E k \in 1 .. n : p \in Pixels(items[k])
      /\ \A j, k \in 1 .. n : j # k => Pixels(items[j]) \cap Pixels(items[k]) = {}
  BY RegionTiles
<1>2. Rects(R) = [k \in DOMAIN pieces |-> SubRect(pieces[k], screen)]
  BY DEF Rects
<1> HIDE DEF items, n
<1>3. IsList(seqs) /\ Len(seqs) = n
  <2>1. seqs = [k \in 1 .. n |-> seqs[k]]
    BY <1>1
  <2> HIDE DEF seqs
  <2> QED
    BY <1>1, <2>1, ListOf
<1>4. \A k \in 1 .. n : seqs[k] = SubRects(items[k]) /\ A[k] = Pixels(items[k])
  BY <1>1
<1> HIDE DEF seqs, A
<1>5. \A k \in 1 .. n : Tiles(seqs[k], A[k])
  BY <1>1, <1>4, SubRectsTile
<1>6. \A j, k \in 1 .. n : j # k => A[j] \cap A[k] = {}
  BY <1>1, <1>4
<1>7. Tiles(pieces, UNION {A[k] : k \in 1 .. Len(seqs)})
  BY <1>3, <1>5, <1>6, FlattenTiles
<1>8. UNION {A[k] : k \in 1 .. Len(seqs)} = R
  <2>1. \A k \in 1 .. n : A[k] \subseteq R
    BY <1>1, <1>4
  <2>2. \A p \in R : \E k \in 1 .. n : p \in A[k]
    BY <1>1, <1>4
  <2> QED
    BY <1>3, <2>1, <2>2
<1> HIDE DEF pieces
<1>9. IsList(pieces) /\ Tiles(pieces, R)
  BY <1>7, <1>8 DEF Tiles
<1>10. DOMAIN pieces = 1 .. Len(pieces) /\ Len(pieces) \in Nat
  BY <1>9, ListIs
<1>11. Rects(R) = [k \in 1 .. Len(pieces) |-> Rects(R)[k]]
  BY <1>2, <1>10
<1>12. Len(Rects(R)) = Len(pieces)
  BY <1>10, <1>11, ListOf
<1>13. \A k \in 1 .. Len(pieces) : Rects(R)[k].r = pieces[k]
  <2>1. \A k \in 1 .. Len(pieces) : Rects(R)[k] = SubRect(pieces[k], screen)
    BY <1>2, <1>10
  <2>2. \A p : SubRect(p, screen).r = p
    BY DEF SubRect, DataRect
  <2> QED
    BY <2>1, <2>2
<1> QED
  BY <1>9, <1>12, <1>13

LEMMA GreatestIs ==
  ASSUME NEW S \in SUBSET Int, S # {}, IsFiniteSet(S)
  PROVE  Max(S) \in S
<1>1. PICK m \in S : \A x \in S : x <= m
  BY GreatestOf
<1>2. \A x \in S : m >= x
  BY <1>1
<1> QED
  BY <1>2 DEF Max

\* Rectangle s is inside q.
Within(s, q) ==
  /\ s \in Rectangle
  /\ q.x1 <= s.x1 /\ s.x1 <= s.x2 /\ s.x2 <= q.x2
  /\ q.y1 <= s.y1 /\ s.y1 <= s.y2 /\ s.y2 <= q.y2

LEMMA WithinPixels ==
  ASSUME NEW q \in Rectangle, NEW s, Within(s, q)
  PROVE  Pixels(s) \subseteq Pixels(q)
<1>1. q.x1 <= s.x1 /\ s.x2 <= q.x2 /\ q.y1 <= s.y1 /\ s.y2 <= q.y2 /\ s \in Rectangle
  BY DEF Within
<1>2. /\ q.x1 \in Int /\ q.x2 \in Int /\ q.y1 \in Int /\ q.y2 \in Int
      /\ s.x1 \in Int /\ s.x2 \in Int /\ s.y1 \in Int /\ s.y2 \in Int
  BY <1>1 DEF Rectangle
<1>3. /\ s.x1 .. s.x2 - 1 \subseteq q.x1 .. q.x2 - 1
      /\ s.y1 .. s.y2 - 1 \subseteq q.y1 .. q.y2 - 1
  BY <1>1, <1>2
<1> QED
  BY <1>3 DEF Pixels

\* What Box returns.
BoxIs(b, x, y, w, h) ==
  /\ b \in Rectangle
  /\ b.x1 = x /\ b.x2 = x + w /\ b.y1 = y /\ b.y2 = y + h
  /\ \A p : p \in Pixels(b) <=> /\ p \in Point /\ p[1] \in Int /\ p[2] \in Int
                                /\ x <= p[1] /\ p[1] < x + w
                                /\ y <= p[2] /\ p[2] < y + h

LEMMA BoxPixels ==
  \A x, y, w, h \in Int : BoxIs(Box(x, y, w, h), x, y, w, h)
<1> SUFFICES ASSUME NEW x \in Int, NEW y \in Int, NEW w \in Int, NEW h \in Int
             PROVE  BoxIs(Box(x, y, w, h), x, y, w, h)
  OBVIOUS
<1> DEFINE b == Box(x, y, w, h)
<1>1. b \in Rectangle /\ b.x1 = x /\ b.x2 = x + w /\ b.y1 = y /\ b.y2 = y + h
  BY DEF Box, Rectangle
<1> HIDE DEF b
<1>2. \A p : p \in Pixels(b) <=> /\ p \in Point /\ b.x1 <= p[1] /\ p[1] < b.x2
                                 /\ b.y1 <= p[2] /\ p[2] < b.y2
  BY <1>1, PixelsMember
<1>3. \A p \in Point : p[1] \in Int /\ p[2] \in Int
  BY DEF Point
<1> QED
  BY <1>1, <1>2, <1>3 DEF b, BoxIs

\* One row of blocks of extendSolidAreaByBlock, and where it starts.
BlockStart(q) == [w |-> Width(q), best |-> Box(q.x1, q.y1, 0, 0)]

SolidWidths(q, c, band, w) ==
  {n \in {Min({k * SolidSearchBlock, w}) : k \in 0 .. w} :
     Solid(screen, Box(q.x1, band.y1, n, Height(band)), c)}

BlockStep(q, c, band, last) ==
  LET w == Max(SolidWidths(q, c, band, last.w))
      area == Box(q.x1, q.y1, w, band.y2 - q.y1)
  IN [w |-> w, best |-> IF Area(area) > Area(last.best) THEN area ELSE last.best]

\* The area found so far is solid, and so is all above the next row at this width.
Extended(q, c, last, h) ==
  /\ last.w \in Nat /\ last.w <= Width(q)
  /\ Solid(screen, Box(q.x1, q.y1, last.w, h), c)
  /\ Within(last.best, q) /\ Solid(screen, last.best, c)

LEMMA BlockStarts ==
  ASSUME NEW q \in Rectangle, Nonempty(q), NEW c
  PROVE  Extended(q, c, BlockStart(q), 0)
<1> DEFINE e == BlockStart(q)
           b == Box(q.x1, q.y1, 0, 0)
           s == Box(q.x1, q.y1, Width(q), 0)
<1>1. /\ q.x1 \in Int /\ q.x2 \in Int /\ q.x1 < q.x2 /\ q.y1 \in Int /\ q.y2 \in Int /\ q.y1 < q.y2
      /\ Width(q) = q.x2 - q.x1 /\ Width(q) \in Nat
  BY DEF Rectangle, Nonempty, Width
<1>2. e.w = Width(q) /\ e.best = b
  BY DEF BlockStart
<1>9. 0 \in Int /\ Width(q) \in Int
  BY <1>1
<1>3. BoxIs(b, q.x1, q.y1, 0, 0) /\ BoxIs(s, q.x1, q.y1, Width(q), 0)
  BY <1>1, <1>9, BoxPixels, Zenon
<1> HIDE DEF e, b, s
<1>4. Within(b, q)
  BY <1>1, <1>3 DEF Within, BoxIs
<1>5. \A p \in Pixels(b) : FALSE
  BY <1>1, <1>3 DEF BoxIs
<1>6. \A p \in Pixels(s) : FALSE
  BY <1>1, <1>3 DEF BoxIs
<1>7. Solid(screen, b, c) /\ Solid(screen, s, c)
  BY <1>5, <1>6 DEF Solid
<1>8. Solid(screen, Box(q.x1, q.y1, e.w, 0), c)
  BY <1>2, <1>7 DEF s
<1> QED
  BY <1>1, <1>2, <1>4, <1>7, <1>8 DEF Extended, e

LEMMA WidestSolid ==
  ASSUME NEW q \in Rectangle, NEW c, NEW band \in Rectangle, NEW w \in Nat
  PROVE  LET n == Max(SolidWidths(q, c, band, w))
         IN /\ n \in Nat /\ n <= w
            /\ Solid(screen, Box(q.x1, band.y1, n, Height(band)), c)
<1> DEFINE S == SolidWidths(q, c, band, w)
<1>1. SolidSearchBlock \in Nat
  BY SplitAssumption
<1>2. ASSUME NEW k \in 0 .. w
      PROVE  Min({k * SolidSearchBlock, w}) \in 0 .. w
  <2> DEFINE m == k * SolidSearchBlock
  <2>1. m \in Nat
    BY <1>1, Multiples
  <2> HIDE DEF m
  <2>2. Min({m, w}) = IF m <= w THEN m ELSE w
    BY <2>1, MinOfTwo
  <2>3. Min({m, w}) \in 0 .. w
    BY <2>1, <2>2
  <2> QED
    BY <2>3 DEF m
<1>3. \A n \in S : n \in 0 .. w /\ Solid(screen, Box(q.x1, band.y1, n, Height(band)), c)
  BY <1>2 DEF SolidWidths
<1>4. 0 \in S
  <2>1. Min({0 * SolidSearchBlock, w}) = 0
    <3>1. 0 * SolidSearchBlock = 0
      BY <1>1
    <3>2. Min({0, w}) = 0
      BY MinOfTwo
    <3> QED
      BY <3>1, <3>2
  <2>2. 0 \in 0 .. w
    OBVIOUS
  <2>3. 0 \in {Min({k * SolidSearchBlock, w}) : k \in 0 .. w}
    BY <2>1, <2>2
  <2> DEFINE b == Box(q.x1, band.y1, 0, Height(band))
  <2>4. q.x1 \in Int /\ band.y1 \in Int /\ Height(band) \in Int /\ 0 \in Int
    BY DEF Rectangle, Height
  <2>5. BoxIs(b, q.x1, band.y1, 0, Height(band))
    BY <2>4, BoxPixels, Zenon
  <2> HIDE DEF b
  <2>6. \A p \in Pixels(b) : FALSE
    BY <2>4, <2>5 DEF BoxIs
  <2>7. Solid(screen, b, c)
    BY <2>6 DEF Solid
  <2> QED
    BY <2>3, <2>7 DEF SolidWidths, b
<1> HIDE DEF S
<1>5. S \in SUBSET Int /\ IsFiniteSet(S)
  <2>1. S \subseteq 0 .. w
    BY <1>3
  <2>2. IsFiniteSet(0 .. w)
    BY FS_Interval
  <2>3. S \in SUBSET Int
    BY <2>1
  <2> QED
    BY <2>1, <2>2, <2>3, FS_Subset
<1>6. Max(S) \in S
  BY <1>4, <1>5, GreatestIs
<1>7. Max(S) \in 0 .. w /\ Solid(screen, Box(q.x1, band.y1, Max(S), Height(band)), c)
  BY <1>3, <1>6
<1> QED
  BY <1>7 DEF S

LEMMA BlockStepExtends ==
  ASSUME NEW q \in Rectangle, NEW c, NEW band \in Rectangle,
         q.y1 <= band.y1, band.y1 <= band.y2, band.y2 <= q.y2,
         NEW last, Extended(q, c, last, band.y1 - q.y1)
  PROVE  Extended(q, c, BlockStep(q, c, band, last), band.y2 - q.y1)
<1> DEFINE w == Max(SolidWidths(q, c, band, last.w))
           area == Box(q.x1, q.y1, w, band.y2 - q.y1)
           above == Box(q.x1, q.y1, last.w, band.y1 - q.y1)
           row == Box(q.x1, band.y1, w, Height(band))
           e == BlockStep(q, c, band, last)
<1>1. /\ last.w \in Nat /\ last.w <= Width(q) /\ Solid(screen, above, c)
      /\ Within(last.best, q) /\ Solid(screen, last.best, c)
  BY DEF Extended
<1>2. /\ q.x1 \in Int /\ q.x2 \in Int /\ q.y1 \in Int /\ q.y2 \in Int /\ Width(q) = q.x2 - q.x1
      /\ band.y1 \in Int /\ band.y2 \in Int /\ Height(band) = band.y2 - band.y1
  BY DEF Rectangle, Width, Height
<1>3. w \in Nat /\ w <= last.w /\ Solid(screen, row, c)
  BY <1>1, WidestSolid
<1>4. e.w = w /\ e.best \in {area, last.best}
  BY DEF BlockStep
<1> HIDE DEF w, e
<1> DEFINE h == band.y2 - q.y1
           g == band.y1 - q.y1
<1>14. h \in Int /\ g \in Int /\ w \in Int /\ last.w \in Int /\ Height(band) \in Int
  BY <1>1, <1>2, <1>3
<1>5. BoxIs(area, q.x1, q.y1, w, h)
  BY <1>2, <1>14, BoxPixels, Zenon
<1>6. BoxIs(above, q.x1, q.y1, last.w, g)
  BY <1>2, <1>14, BoxPixels, Zenon
<1>7. BoxIs(row, q.x1, band.y1, w, Height(band))
  BY <1>2, <1>14, BoxPixels, Zenon
<1>8. Solid(screen, area, c)
  <2> HIDE DEF area, above, row
  <2> SUFFICES ASSUME NEW p \in Pixels(area)
               PROVE  screen.at[p] = c
    BY DEF Solid
  <2>1. /\ p \in Point /\ p[1] \in Int /\ p[2] \in Int
        /\ q.x1 <= p[1] /\ p[1] < q.x1 + w /\ q.y1 <= p[2] /\ p[2] < q.y1 + h
    BY <1>5 DEF BoxIs
  <2>2. p \in Pixels(above) \/ p \in Pixels(row)
    BY <1>1, <1>2, <1>3, <1>6, <1>7, <2>1 DEF BoxIs
  <2> QED
    BY <1>1, <1>3, <2>2 DEF Solid
<1>9. Within(area, q)
  <2> HIDE DEF area
  <2> QED
    BY <1>1, <1>2, <1>3, <1>5 DEF Within, BoxIs
<1>10. Within(e.best, q) /\ Solid(screen, e.best, c)
  BY <1>1, <1>4, <1>8, <1>9
<1>11. Solid(screen, Box(q.x1, q.y1, e.w, band.y2 - q.y1), c)
  BY <1>4, <1>8
<1>12. e.w \in Nat /\ e.w <= Width(q)
  BY <1>1, <1>2, <1>3, <1>4
<1> QED
  BY <1>10, <1>11, <1>12 DEF Extended, e

\* The function that goes through all the rows exists.
BlockSteps(f, n, q, c, bands) ==
  f = [k \in 0 .. n |-> IF k = 0 THEN BlockStart(q) ELSE BlockStep(q, c, bands[k], f[k - 1])]

LEMMA BlockStepsExist ==
  ASSUME NEW n \in Nat, NEW q, NEW c, NEW bands
  PROVE  \E f : BlockSteps(f, n, q, c, bands)
<1> DEFINE Good(m) == \E f : f = [k \in 0 .. m |-> IF k = 0 THEN BlockStart(q)
                                                   ELSE BlockStep(q, c, bands[k], f[k - 1])]
           Bad == {m \in Nat : ~ Good(m)}
<1>1. Good(0)
  <2> DEFINE f == [k \in 0 .. 0 |-> BlockStart(q)]
  <2>1. f = [k \in 0 .. 0 |-> IF k = 0 THEN BlockStart(q)
                              ELSE BlockStep(q, c, bands[k], f[k - 1])]
    OBVIOUS
  <2> HIDE DEF f
  <2> QED
    BY <2>1
<1>2. ASSUME NEW m \in Nat, Good(m)
      PROVE  Good(m + 1)
  <2>1. PICK g : g = [k \in 0 .. m |-> IF k = 0 THEN BlockStart(q)
                                       ELSE BlockStep(q, c, bands[k], g[k - 1])]
    BY <1>2
  <2> DEFINE new == BlockStep(q, c, bands[m + 1], g[m])
             f == [k \in 0 .. m + 1 |-> IF k = m + 1 THEN new ELSE g[k]]
  <2>2. ASSUME NEW k \in 0 .. m + 1
        PROVE  f[k] = IF k = 0 THEN BlockStart(q) ELSE BlockStep(q, c, bands[k], f[k - 1])
    <3>1. CASE k = m + 1
      <4>1. f[k] = new /\ f[k - 1] = g[m]
        BY <3>1
      <4> HIDE DEF f
      <4> QED
        BY <3>1, <4>1
    <3>2. CASE k # m + 1
      <4>1. k \in 0 .. m /\ f[k] = g[k]
        BY <3>2
      <4>2. g[k] = IF k = 0 THEN BlockStart(q) ELSE BlockStep(q, c, bands[k], g[k - 1])
        BY <2>1, <4>1
      <4>3. k # 0 => k - 1 \in 0 .. m + 1 /\ k - 1 # m + 1
        BY <4>1
      <4>4. k # 0 => f[k - 1] = g[k - 1]
        BY <4>3
      <4> HIDE DEF f
      <4> QED
        BY <4>1, <4>2, <4>4
    <3> QED
      BY <3>1, <3>2
  <2>3. f = [k \in 0 .. m + 1 |-> f[k]]
    OBVIOUS
  <2>4. f = [k \in 0 .. m + 1 |-> IF k = 0 THEN BlockStart(q)
                                  ELSE BlockStep(q, c, bands[k], f[k - 1])]
    <3> HIDE DEF f
    <3> QED
      BY <2>2, <2>3
  <2> HIDE DEF f
  <2> QED
    BY <2>4
<1> HIDE DEF Good
<1>3. Bad = {}
  <2> SUFFICES ASSUME Bad # {}
               PROVE  FALSE
    OBVIOUS
  <2>1. Bad \in SUBSET Nat
    OBVIOUS
  <2>2. PICK m \in Bad : m # 0 => m - 1 \in Nat \ Bad
    <3> HIDE DEF Bad
    <3> QED
      BY <2>1, LeastNat
  <2>3. m \in Nat /\ m - 1 \in Nat /\ Good(m - 1)
    BY <1>1, <2>2
  <2>4. Good((m - 1) + 1) /\ (m - 1) + 1 = m
    BY <1>2, <2>3
  <2> QED
    BY <2>4
<1>4. Good(n)
  BY <1>3
<1> QED
  BY <1>4 DEF Good, BlockSteps

\* The rows of blocks, one below the other.
LEMMA RowsOfBlocks ==
  ASSUME NEW q \in Rectangle, Nonempty(q)
  PROVE  LET bands == Split(q, Width(q), SolidSearchBlock)
         IN /\ Len(bands) \in Nat
            /\ \A k \in 1 .. Len(bands) :
                 /\ bands[k] \in Rectangle
                 /\ q.y1 <= bands[k].y1 /\ bands[k].y1 <= bands[k].y2 /\ bands[k].y2 <= q.y2
                 /\ bands[k].y1 = IF k = 1 THEN q.y1 ELSE bands[k - 1].y2
<1> DEFINE w == Width(q)
           h == SolidSearchBlock
           bands == Split(q, w, h)
           P(d) == Piece(q, w, h, 0, d)
<1>1. /\ q.x1 \in Int /\ q.x2 \in Int /\ q.x1 < q.x2 /\ q.y1 \in Int /\ q.y2 \in Int /\ q.y1 < q.y2
      /\ w \in Nat /\ w # 0 /\ w = q.x2 - q.x1 /\ h \in Nat /\ h # 0
  BY SplitAssumption DEF Rectangle, Nonempty, Width
<1> HIDE DEF w, h
<1>2. PICK m, n : Loops(q, w, h, m, n)
  BY <1>1, SplitLoops
<1>3. /\ m \in Nat \ {0} /\ n \in Nat \ {0} /\ Len(bands) = m * n
      /\ q.x1 + 1 * w < q.x2 <=> 1 < m
      /\ \A d \in Nat : q.y1 + d * h < q.y2 <=> d < n
      /\ \A k \in 1 .. m * n : \E a \in 0 .. m - 1, d \in 0 .. n - 1 :
            k = d * m + a + 1 /\ bands[k] = Piece(q, w, h, a, d)
  BY <1>2 DEF Loops
<1>4. m = 1
  BY <1>1, <1>3
<1>5. \A k \in 1 .. n : bands[k] = P(k - 1)
  <2> SUFFICES ASSUME NEW k \in 1 .. n
               PROVE  bands[k] = P(k - 1)
    OBVIOUS
  <2>1. k \in 1 .. m * n
    BY <1>3, <1>4
  <2>2. PICK a \in 0 .. m - 1, d \in 0 .. n - 1 :
          k = d * m + a + 1 /\ bands[k] = Piece(q, w, h, a, d)
    BY <1>3, <2>1
  <2>3. a = 0 /\ d = k - 1
    BY <1>3, <1>4, <2>2
  <2> QED
    BY <2>2, <2>3
<1> HIDE DEF bands
<1>6. ASSUME NEW d \in Nat, d < n
      PROVE  /\ P(d) \in Rectangle /\ P(d).y1 = q.y1 + d * h /\ q.y1 <= P(d).y1
             /\ P(d).y1 <= P(d).y2 /\ P(d).y2 <= q.y2
             /\ d + 1 < n => P(d).y2 = q.y1 + (d + 1) * h
  <2>1. P(d) \in Rectangle
    BY <1>1, PieceIs
  <2>2. P(d).y1 = q.y1 + d * h /\ P(d).y2 = Min({q.y1 + d * h + h, q.y2})
    BY DEF Piece
  <2> HIDE DEF P
  <2>3. d * h \in Nat /\ (d + 1) * h = d * h + h /\ q.y1 + d * h < q.y2
    <3>1. d * h \in Nat
      BY <1>1, Multiples
    <3>2. (d + 1) * h = d * h + h
      BY <1>1
    <3> QED
      BY <1>3, <1>6, <3>1, <3>2
  <2>4. d + 1 < n => q.y1 + (d + 1) * h < q.y2
    BY <1>3
  <2> DEFINE y == d * h
  <2>5. y \in Nat /\ (d + 1) * h = y + h /\ P(d).y1 = q.y1 + y /\ q.y1 + y < q.y2
        /\ P(d).y2 = Min({q.y1 + y + h, q.y2})
    BY <2>2, <2>3
  <2> HIDE DEF y
  <2>6. Min({q.y1 + y + h, q.y2}) = IF q.y1 + y + h <= q.y2 THEN q.y1 + y + h ELSE q.y2
    BY <1>1, <2>5, MinOfTwo
  <2> QED
    BY <1>1, <2>1, <2>2, <2>4, <2>5, <2>6
<1>7. ASSUME NEW k \in 1 .. n
      PROVE  /\ bands[k] \in Rectangle
             /\ q.y1 <= bands[k].y1 /\ bands[k].y1 <= bands[k].y2 /\ bands[k].y2 <= q.y2
             /\ bands[k].y1 = IF k = 1 THEN q.y1 ELSE bands[k - 1].y2
  <2>1. k - 1 \in Nat /\ k - 1 < n /\ k \in Nat
    BY <1>3
  <2>2. /\ bands[k] \in Rectangle /\ q.y1 <= bands[k].y1
        /\ bands[k].y1 <= bands[k].y2 /\ bands[k].y2 <= q.y2
    BY <1>5, <1>6, <2>1
  <2>3. bands[k].y1 = q.y1 + (k - 1) * h
    BY <1>5, <1>6, <2>1
  <2>4. CASE k = 1
    <3>1. (k - 1) * h = 0
      BY <1>1, <2>4
    <3> QED
      BY <1>1, <2>2, <2>3, <2>4, <3>1
  <2>5. CASE k # 1
    <3>1. k - 2 \in Nat /\ k - 2 < n /\ (k - 2) + 1 = k - 1 /\ (k - 2) + 1 < n
          /\ k - 1 \in 1 .. n /\ (k - 1) - 1 = k - 2
      BY <1>3, <2>1, <2>5
    <3>2. P(k - 2).y2 = q.y1 + ((k - 2) + 1) * h
      BY <1>6, <3>1
    <3>3. bands[k - 1] = P(k - 2)
      BY <1>5, <3>1
    <3> QED
      BY <2>2, <2>3, <2>5, <3>1, <3>2, <3>3
  <2> QED
    BY <2>4, <2>5
<1>8. Len(bands) = n
  BY <1>3, <1>4
<1> QED
  BY <1>3, <1>7, <1>8 DEF bands, w, h

\* What extendSolidAreaByBlock returns is solid and inside the rectangle.
LEMMA ByBlockInside ==
  ASSUME NEW q \in Rectangle, Nonempty(q), NEW c
  PROVE  Within(ByBlock(q, c), q) /\ Solid(screen, ByBlock(q, c), c)
<1> DEFINE bands == Split(q, Width(q), SolidSearchBlock)
           n == Len(bands)
           Eq(f) == f = [k \in 0 .. n |-> IF k = 0 THEN BlockStart(q)
                                          ELSE BlockStep(q, c, bands[k], f[k - 1])]
           found == CHOOSE f : Eq(f)
<1>1. /\ n \in Nat
      /\ \A k \in 1 .. n :
           /\ bands[k] \in Rectangle
           /\ q.y1 <= bands[k].y1 /\ bands[k].y1 <= bands[k].y2 /\ bands[k].y2 <= q.y2
           /\ bands[k].y1 = IF k = 1 THEN q.y1 ELSE bands[k - 1].y2
  BY RowsOfBlocks
<1>2. ByBlock(q, c) = found[n].best
  BY DEF ByBlock, BlockStart, BlockStep, SolidWidths
<1> HIDE DEF n, bands
<1>3. \E f : Eq(f)
  <2>1. PICK f : BlockSteps(f, n, q, c, bands)
    BY <1>1, BlockStepsExist
  <2>2. Eq(f)
    BY <2>1, Zenon DEF BlockSteps
  <2> HIDE DEF Eq
  <2> QED
    BY <2>2
<1>4. Eq(found)
  <2> HIDE DEF Eq
  <2> QED
    BY <1>3
<1> HIDE DEF found
<1> DEFINE h(k) == IF k = 0 THEN 0 ELSE bands[k].y2 - q.y1
           Good(k) == Extended(q, c, found[k], h(k))
           Bad == {k \in 0 .. n : ~ Good(k)}
<1>5. found[0] = BlockStart(q)
  BY <1>1, <1>4
<1>6. \A k \in 1 .. n : found[k] = BlockStep(q, c, bands[k], found[k - 1])
  <2> SUFFICES ASSUME NEW k \in 1 .. n
               PROVE  found[k] = BlockStep(q, c, bands[k], found[k - 1])
    OBVIOUS
  <2>1. k \in 0 .. n /\ k # 0
    BY <1>1
  <2> QED
    BY <1>4, <2>1
<1> HIDE DEF Eq
<1>7. Good(0)
  <2>1. Extended(q, c, BlockStart(q), 0) /\ h(0) = 0
    BY BlockStarts
  <2> QED
    BY <1>5, <2>1
<1>8. ASSUME NEW k \in 1 .. n, Good(k - 1)
      PROVE  Good(k)
  <2>1. /\ bands[k] \in Rectangle
        /\ q.y1 <= bands[k].y1 /\ bands[k].y1 <= bands[k].y2 /\ bands[k].y2 <= q.y2
        /\ bands[k].y1 = IF k = 1 THEN q.y1 ELSE bands[k - 1].y2
    BY <1>1
  <2>2. h(k - 1) = bands[k].y1 - q.y1
    <3>1. q.y1 \in Int
      BY DEF Rectangle
    <3> QED
      BY <1>1, <2>1, <3>1
  <2>3. h(k) = bands[k].y2 - q.y1
    BY <1>1
  <2> HIDE DEF h
  <2>4. Extended(q, c, found[k - 1], bands[k].y1 - q.y1)
    BY <1>8, <2>2
  <2>5. Extended(q, c, BlockStep(q, c, bands[k], found[k - 1]), bands[k].y2 - q.y1)
    BY <2>1, <2>4, BlockStepExtends
  <2> QED
    BY <1>6, <2>3, <2>5
<1> HIDE DEF Good
<1>9. Bad = {}
  <2> SUFFICES ASSUME Bad # {}
               PROVE  FALSE
    OBVIOUS
  <2>1. Bad \in SUBSET Nat
    OBVIOUS
  <2>2. PICK k \in Bad : k # 0 => k - 1 \in Nat \ Bad
    <3> HIDE DEF Bad
    <3> QED
      BY <2>1, LeastNat
  <2>3. k \in 1 .. n /\ Good(k - 1)
    BY <1>1, <1>7, <2>2
  <2> QED
    BY <1>8, <2>2, <2>3
<1>10. Good(n)
  BY <1>1, <1>9
<1> QED
  BY <1>2, <1>10 DEF Good, Extended

\* Extending it pixel by pixel does not leave the rectangle.
LEMMA LeastSolid ==
  ASSUME NEW a \in Int, NEW b \in Int, a <= b, NEW S \in SUBSET (a .. b), S # {}
  PROVE  Min(S) \in S /\ Max(S) \in S
<1>1. S \in SUBSET Int /\ \A x \in S : a <= x
  OBVIOUS
<1>2. IsFiniteSet(S)
  BY FS_Interval, FS_Subset
<1> QED
  BY <1>1, <1>2, LeastAbove, GreatestIs

LEMMA ByPixelInside ==
  ASSUME NEW r \in Rectangle, NEW s, Within(s, r), NEW c, Solid(screen, s, c)
  PROVE  Within(ByPixel(r, s, c), r) /\ Solid(screen, ByPixel(r, s, c), c)
<1> DEFINE ups == {y \in r.y1 .. s.y1 : Solid(screen, [s EXCEPT !.y1 = y], c)}
           downs == {y \in s.y2 .. r.y2 : Solid(screen, [s EXCEPT !.y2 = y], c)}
           up == Min(ups)
           down == Max(downs)
           tall == [s EXCEPT !.y1 = up, !.y2 = down]
           lefts == {x \in r.x1 .. s.x1 : Solid(screen, [tall EXCEPT !.x1 = x], c)}
           rights == {x \in s.x2 .. r.x2 : Solid(screen, [tall EXCEPT !.x2 = x], c)}
           left == Min(lefts)
           right == Max(rights)
           all == [tall EXCEPT !.x1 = left, !.x2 = right]
<1>1. ByPixel(r, s, c) = all
  BY DEF ByPixel
<1>2. /\ r.x1 \in Int /\ r.x2 \in Int /\ r.y1 \in Int /\ r.y2 \in Int
      /\ s \in Rectangle
      /\ s.x1 \in Int /\ s.x2 \in Int /\ s.y1 \in Int /\ s.y2 \in Int
      /\ r.x1 <= s.x1 /\ s.x1 <= s.x2 /\ s.x2 <= r.x2
      /\ r.y1 <= s.y1 /\ s.y1 <= s.y2 /\ s.y2 <= r.y2
  BY DEF Within, Rectangle
<1>3. [s EXCEPT !.y1 = s.y1] = s /\ [s EXCEPT !.y2 = s.y2] = s
  BY <1>2 DEF Rectangle
<1>4. s.y1 \in ups /\ s.y2 \in downs
  BY <1>2, <1>3
<1>5. ups \in SUBSET (r.y1 .. s.y1) /\ downs \in SUBSET (s.y2 .. r.y2)
  OBVIOUS
<1>6. up \in ups /\ down \in downs
  <2> HIDE DEF ups, downs
  <2> QED
    BY <1>2, <1>4, <1>5, LeastSolid
<1>7. up \in r.y1 .. s.y1 /\ Solid(screen, [s EXCEPT !.y1 = up], c)
  BY <1>6
<1>8. down \in s.y2 .. r.y2 /\ Solid(screen, [s EXCEPT !.y2 = down], c)
  BY <1>6
<1> HIDE DEF up, down, ups, downs
<1>9. /\ tall \in Rectangle /\ tall.x1 = s.x1 /\ tall.x2 = s.x2
      /\ tall.y1 = up /\ tall.y2 = down
      /\ up \in Int /\ down \in Int /\ r.y1 <= up /\ up <= s.y1 /\ s.y2 <= down /\ down <= r.y2
  <2>1. up \in Int /\ down \in Int /\ r.y1 <= up /\ up <= s.y1 /\ s.y2 <= down /\ down <= r.y2
    BY <1>2, <1>7, <1>8
  <2> DEFINE a == [s EXCEPT !.y1 = up]
  <2>2. a \in Rectangle /\ a.x1 = s.x1 /\ a.x2 = s.x2 /\ a.y1 = up
    BY <1>2, <2>1 DEF Rectangle
  <2>3. tall = [a EXCEPT !.y2 = down]
    OBVIOUS
  <2> HIDE DEF tall, a
  <2>4. tall \in Rectangle /\ tall.x1 = s.x1 /\ tall.x2 = s.x2 /\ tall.y1 = up /\ tall.y2 = down
    BY <2>1, <2>2, <2>3 DEF Rectangle
  <2> QED
    BY <2>1, <2>4
<1>10. Solid(screen, tall, c)
  <2> DEFINE a == [s EXCEPT !.y1 = up]
             b == [s EXCEPT !.y2 = down]
  <2>1. /\ a \in Rectangle /\ a.x1 = s.x1 /\ a.x2 = s.x2 /\ a.y1 = up /\ a.y2 = s.y2
        /\ b \in Rectangle /\ b.x1 = s.x1 /\ b.x2 = s.x2 /\ b.y1 = s.y1 /\ b.y2 = down
    BY <1>2, <1>9 DEF Rectangle
  <2>2. Solid(screen, a, c) /\ Solid(screen, b, c)
    BY <1>7, <1>8
  <2> HIDE DEF a, b, tall
  <2> SUFFICES ASSUME NEW p \in Pixels(tall)
               PROVE  screen.at[p] = c
    BY DEF Solid
  <2>3. p \in Point /\ s.x1 <= p[1] /\ p[1] < s.x2 /\ up <= p[2] /\ p[2] < down
    BY <1>9, PixelsMember
  <2>4. p[1] \in Int /\ p[2] \in Int
    BY <2>3 DEF Point
  <2>5. CASE p[2] < s.y2
    <3>1. p \in Pixels(a)
      BY <2>1, <2>3, <2>5, PixelsMember
    <3> QED
      BY <2>2, <3>1 DEF Solid
  <2>6. CASE ~ (p[2] < s.y2)
    <3>1. s.y1 <= p[2]
      BY <1>2, <2>4, <2>6
    <3>2. p \in Pixels(b)
      BY <2>1, <2>3, <3>1, PixelsMember
    <3> QED
      BY <2>2, <3>2 DEF Solid
  <2> QED
    BY <2>5, <2>6
<1>11. [tall EXCEPT !.x1 = s.x1] = tall /\ [tall EXCEPT !.x2 = s.x2] = tall
  <2> HIDE DEF tall
  <2> QED
    BY <1>9 DEF Rectangle
<1> HIDE DEF tall
<1>12. s.x1 \in lefts /\ s.x2 \in rights
  BY <1>2, <1>10, <1>11
<1>13. lefts \in SUBSET (r.x1 .. s.x1) /\ rights \in SUBSET (s.x2 .. r.x2)
  OBVIOUS
<1>21. /\ \A x \in lefts : Solid(screen, [tall EXCEPT !.x1 = x], c)
      /\ \A x \in rights : Solid(screen, [tall EXCEPT !.x2 = x], c)
  OBVIOUS
<1> HIDE DEF lefts, rights
<1>14. left \in lefts /\ right \in rights
  BY <1>2, <1>12, <1>13, LeastSolid
<1>15. left \in r.x1 .. s.x1 /\ right \in s.x2 .. r.x2
  BY <1>13, <1>14
<1>20. Solid(screen, [tall EXCEPT !.x1 = left], c) /\ Solid(screen, [tall EXCEPT !.x2 = right], c)
  BY <1>14, <1>21
<1> HIDE DEF left, right
<1>16. /\ left \in Int /\ right \in Int
       /\ r.x1 <= left /\ left <= s.x1 /\ s.x2 <= right /\ right <= r.x2
  BY <1>2, <1>15
<1>17. all \in Rectangle /\ all.x1 = left /\ all.x2 = right /\ all.y1 = up /\ all.y2 = down
  BY <1>9, <1>16 DEF Rectangle
<1>18. Solid(screen, all, c)
  <2> DEFINE a == [tall EXCEPT !.x1 = left]
             b == [tall EXCEPT !.x2 = right]
  <2>1. /\ a \in Rectangle /\ a.x1 = left /\ a.x2 = tall.x2 /\ a.y1 = up /\ a.y2 = down
        /\ b \in Rectangle /\ b.x1 = tall.x1 /\ b.x2 = right /\ b.y1 = up /\ b.y2 = down
    BY <1>9, <1>16 DEF Rectangle
  <2>2. Solid(screen, a, c) /\ Solid(screen, b, c)
    BY <1>20
  <2> HIDE DEF a, b, all
  <2> SUFFICES ASSUME NEW p \in Pixels(all)
               PROVE  screen.at[p] = c
    BY DEF Solid
  <2>3. p \in Point /\ left <= p[1] /\ p[1] < right /\ up <= p[2] /\ p[2] < down
    BY <1>17, PixelsMember
  <2>4. p[1] \in Int /\ p[2] \in Int
    BY <2>3 DEF Point
  <2>5. CASE p[1] < s.x2
    <3>1. p \in Pixels(a)
      BY <1>9, <2>1, <2>3, <2>5, PixelsMember
    <3> QED
      BY <2>2, <3>1 DEF Solid
  <2>6. CASE ~ (p[1] < s.x2)
    <3>1. tall.x1 <= p[1]
      BY <1>2, <1>9, <2>4, <2>6
    <3>2. p \in Pixels(b)
      BY <2>1, <2>3, <3>1, PixelsMember
    <3> QED
      BY <2>2, <3>2 DEF Solid
  <2> QED
    BY <2>5, <2>6
<1> HIDE DEF all
<1>19. Within(all, r)
  BY <1>2, <1>9, <1>16, <1>17 DEF Within
<1> QED
  BY <1>1, <1>18, <1>19

\* The solid area of a rectangle, if there is one, is part of it, and as all of it
\* has one colour it has that of its first pixel.
OneColor(s) ==
  /\ s \in Rectangle /\ s.x1 <= s.x2 /\ s.y1 <= s.y2
  /\ Solid(screen, s, screen.at[<<s.x1, s.y1>>])

LEMMA SolidOneColor ==
  ASSUME NEW s \in Rectangle, s.x1 <= s.x2, s.y1 <= s.y2, NEW c, Solid(screen, s, c)
  PROVE  OneColor(s)
<1> SUFFICES ASSUME NEW p \in Pixels(s)
             PROVE  screen.at[p] = screen.at[<<s.x1, s.y1>>]
  BY DEF OneColor, Solid
<1>1. /\ s.x1 \in Int /\ s.x2 \in Int /\ s.y1 \in Int /\ s.y2 \in Int
      /\ p \in Point /\ s.x1 <= p[1] /\ p[1] < s.x2 /\ s.y1 <= p[2] /\ p[2] < s.y2
  BY PixelsMember DEF Rectangle
<1>2. s.x1 < s.x2 /\ s.y1 < s.y2
  BY <1>1 DEF Point
<1>3. <<s.x1, s.y1>> \in Pixels(s)
  BY <1>1, <1>2 DEF Pixels
<1> QED
  BY <1>3 DEF Solid

LEMMA SolidRectInside ==
  ASSUME NEW r \in Rectangle, Nonempty(r)
  PROVE  /\ \E B \in SUBSET Pixels(r) : Tiles(SolidRect(r), B)
         /\ \A k \in 1 .. Len(SolidRect(r)) : OneColor(SolidRect(r)[k])
<1> DEFINE Block(b) == ByBlock([r EXCEPT !.x1 = b.x1, !.y1 = b.y1], screen.at[<<b.x1, b.y1>>])
           Good(b) == /\ Solid(screen, b, screen.at[<<b.x1, b.y1>>])
                      /\ Block(b) = r \/ Area(Block(b)) >= SolidBlockMinArea
           blocks == Split(r, SolidSearchBlock, SolidSearchBlock)
           good == {k \in DOMAIN blocks : Good(blocks[k])}
           b == blocks[Min(good)]
           c == screen.at[<<b.x1, b.y1>>]
           s == IF Block(b) = r THEN r ELSE ByPixel(r, Block(b), c)
<1>1. SolidRect(r) = IF good = {} THEN <<>> ELSE <<s>>
  BY DEF SolidRect
<1>2. CASE good = {}
  <2>1. SolidRect(r) = <<>> /\ Tiles(<<>>, {})
    BY <1>1, <1>2, FewTiles
  <2> HIDE DEF good
  <2> QED
    BY <2>1, EmptyList
<1>3. CASE good # {}
  <2> DEFINE z == SolidSearchBlock
  <2>1. z \in Nat /\ z # 0
    BY SplitAssumption
  <2>2. PICK m, n : Loops(r, z, z, m, n)
    BY <2>1, SplitLoops
  <2>3. /\ m \in Nat \ {0} /\ n \in Nat \ {0} /\ IsList(blocks) /\ Len(blocks) = m * n
        /\ \A a \in Nat : r.x1 + a * z < r.x2 <=> a < m
        /\ \A d \in Nat : r.y1 + d * z < r.y2 <=> d < n
        /\ \A k \in 1 .. m * n : \E a \in 0 .. m - 1, d \in 0 .. n - 1 :
              k = d * m + a + 1 /\ blocks[k] = Piece(r, z, z, a, d)
    BY <2>2 DEF Loops
  <2>4. Min(good) \in 1 .. m * n
    <3>1. DOMAIN blocks = 1 .. m * n
      BY <2>3, ListIs
    <3>3. good \subseteq 1 .. m * n
      BY <3>1
    <3>2. good \in SUBSET Int /\ \A x \in good : 1 <= x
      <4> HIDE DEF good
      <4> QED
        BY <3>3
    <3> HIDE DEF good
    <3>4. Min(good) \in good
      BY <1>3, <3>2, LeastAbove
    <3> QED
      BY <3>3, <3>4
  <2> HIDE DEF good
  <2>5. PICK a \in 0 .. m - 1, d \in 0 .. n - 1 : b = Piece(r, z, z, a, d)
    BY <2>3, <2>4
  <2> HIDE DEF blocks
  <2>6. a \in Nat /\ a < m /\ d \in Nat /\ d < n
    BY <2>3
  <2>7. /\ r.x1 \in Int /\ r.x2 \in Int /\ r.y1 \in Int /\ r.y2 \in Int
        /\ r.x1 < r.x2 /\ r.y1 < r.y2
    BY DEF Rectangle, Nonempty
  <2>8. /\ b.x1 \in Int /\ r.x1 <= b.x1 /\ b.x1 < r.x2
        /\ b.y1 \in Int /\ r.y1 <= b.y1 /\ b.y1 < r.y2
    <3>1. a * z \in Nat /\ d * z \in Nat
      BY <2>1, <2>6, Multiples
    <3>2. b.x1 = r.x1 + a * z /\ b.y1 = r.y1 + d * z
      BY <2>5 DEF Piece
    <3>3. r.x1 + a * z < r.x2 /\ r.y1 + d * z < r.y2
      BY <2>3, <2>6
    <3> HIDE DEF b
    <3> QED
      BY <2>7, <3>1, <3>2, <3>3
  <2> HIDE DEF b, z
  <2> DEFINE q == [r EXCEPT !.x1 = b.x1, !.y1 = b.y1]
             t == ByBlock(q, c)
  <2>9. q \in Rectangle /\ Nonempty(q) /\ Within(q, r)
    <3> DEFINE u == [r EXCEPT !.x1 = b.x1]
    <3>1. u \in Rectangle /\ u.x1 = b.x1 /\ u.x2 = r.x2 /\ u.y1 = r.y1 /\ u.y2 = r.y2
      BY <2>7, <2>8 DEF Rectangle
    <3>2. q = [u EXCEPT !.y1 = b.y1]
      OBVIOUS
    <3> HIDE DEF q, u
    <3>3. q.x1 = b.x1 /\ q.y1 = b.y1 /\ q.x2 = r.x2 /\ q.y2 = r.y2 /\ q \in Rectangle
      BY <2>7, <2>8, <3>1, <3>2 DEF Rectangle
    <3> QED
      BY <2>7, <2>8, <3>3 DEF Nonempty, Within
  <2>10. Within(t, q) /\ Solid(screen, t, c)
    <3> HIDE DEF q, c
    <3> QED
      BY <2>9, ByBlockInside
  <2>11. s = IF t = r THEN r ELSE ByPixel(r, t, c)
    OBVIOUS
  <2> HIDE DEF q, t, c, s
  <2>12. Within(t, r)
    <3>1. t \in Rectangle
      BY <2>10 DEF Within
    <3> QED
      BY <2>7, <2>9, <2>10, <3>1 DEF Within, Rectangle
  <2>13. Within(r, r)
    BY <2>7 DEF Within
  <2>14. Within(s, r) /\ Solid(screen, s, c)
    BY <2>10, <2>11, <2>12, <2>13, ByPixelInside
  <2>17. OneColor(s)
    BY <2>14, SolidOneColor DEF Within
  <2>15. Pixels(s) \subseteq Pixels(r)
    BY <2>14, WithinPixels
  <2>16. SolidRect(r) = <<s>> /\ Tiles(<<s>>, Pixels(s))
    BY <1>1, <1>3, FewTiles
  <2>18. \A k \in 1 .. Len(<<s>>) : OneColor((<<s>>)[k])
    BY <2>17, OneList
  <2> QED
    BY <2>15, <2>16, <2>18
<1> QED
  BY <1>2, <1>3

\* The solid areas of a region are apart from each other and part of it.
LEMMA SolidAreasTile ==
  ASSUME NEW R \in SUBSET Point, IsFiniteSet(R)
  PROVE  \E A \in SUBSET R : Tiles(SolidAreas(R), A)
<1> DEFINE items == RectanglesOf(R)
           n == Len(items)
           seqs == [k \in DOMAIN items |-> SolidRect(items[k])]
           Part(k, B) == B \in SUBSET Pixels(items[k]) /\ Tiles(seqs[k], B)
           A == [k \in 1 .. n |-> CHOOSE B : Part(k, B)]
<1>1. /\ n \in Nat /\ DOMAIN items = 1 .. n
      /\ \A k \in 1 .. n : items[k] \in Rectangle /\ Nonempty(items[k])
      /\ \A k \in 1 .. n : Pixels(items[k]) \subseteq R
      /\ \A j, k \in 1 .. n : j # k => Pixels(items[j]) \cap Pixels(items[k]) = {}
  BY RegionTiles
<1>2. SolidAreas(R) = FlattenSeq(seqs)
  BY DEF SolidAreas
<1> HIDE DEF items, n
<1>3. IsList(seqs) /\ Len(seqs) = n
  <2>1. seqs = [k \in 1 .. n |-> seqs[k]]
    BY <1>1
  <2> HIDE DEF seqs
  <2> QED
    BY <1>1, <2>1, ListOf
<1>4. \A k \in 1 .. n : seqs[k] = SolidRect(items[k])
  BY <1>1
<1> HIDE DEF seqs
<1>5. ASSUME NEW k \in 1 .. n
      PROVE  Part(k, A[k])
  <2>1. \E B : Part(k, B)
    BY <1>1, <1>4, SolidRectInside
  <2>2. A[k] = CHOOSE B : Part(k, B)
    OBVIOUS
  <2> HIDE DEF Part, A
  <2> QED
    BY <2>1, <2>2
<1> HIDE DEF A
<1>6. \A k \in 1 .. n : Tiles(seqs[k], A[k]) /\ A[k] \subseteq Pixels(items[k])
  BY <1>5
<1>7. \A j, k \in 1 .. n : j # k => A[j] \cap A[k] = {}
  <2> SUFFICES ASSUME NEW j \in 1 .. n, NEW k \in 1 .. n, j # k
               PROVE  A[j] \cap A[k] = {}
    OBVIOUS
  <2>1. Pixels(items[j]) \cap Pixels(items[k]) = {}
    BY <1>1
  <2> QED
    BY <1>6, <2>1
<1> DEFINE U == UNION {A[k] : k \in 1 .. Len(seqs)}
<1>8. Tiles(FlattenSeq(seqs), U)
  BY <1>3, <1>6, <1>7, FlattenTiles
<1>9. U \in SUBSET R
  <2>1. \A k \in 1 .. n : A[k] \subseteq R
    BY <1>1, <1>6
  <2> QED
    BY <1>3, <2>1
<1> QED
  BY <1>2, <1>8, <1>9

(***************************************************************************)
(* Each pixel once: what an update has for the changed region.             *)
(***************************************************************************)
\* Up to number m, the data in s has the pixels of A, each once and no other.
DataOnce(s, m, A) ==
  /\ \A k \in 1 .. m : s[k].kind = "data" => Pixels(s[k].r) \subseteq A
  /\ \A p \in A : \E k \in 1 .. m : s[k].kind = "data" /\ p \in Pixels(s[k].r)
  /\ \A j, k \in 1 .. m : s[j].kind = "data" /\ s[k].kind = "data" /\ j # k =>
        Pixels(s[j].r) \cap Pixels(s[k].r) = {}

\* The rendered cursor, if there is one, is the only data behind number m.
Updated(s, m, A, cursor) ==
  /\ IsList(s) /\ m \in 0 .. Len(s)
  /\ DataOnce(s, m, A)
  /\ cursor => m + 1 \in 1 .. Len(s) /\ s[m + 1].kind = "data"
  /\ \A k \in 1 .. Len(s) : s[k].kind = "data" => k <= m \/ (cursor /\ k = m + 1)

NoData(s) == IsList(s) /\ \A k \in 1 .. Len(s) : s[k].kind # "data"

LEMMA ConcatOnce ==
  ASSUME NEW s, NEW t, IsList(s), IsList(t), NEW A, NEW B, A \cap B = {},
         DataOnce(s, Len(s), A), DataOnce(t, Len(t), B)
  PROVE  DataOnce(s \o t, Len(s \o t), A \cup B)
<1> DEFINE u == s \o t
           l == Len(s)
           m == Len(t)
<1>1. l \in Nat /\ m \in Nat
  BY ListIs
<1>2. /\ Len(u) = l + m
      /\ \A k \in 1 .. l : u[k] = s[k]
      /\ \A k \in 1 .. m : u[l + k] = t[k]
      /\ \A k \in 1 .. Len(u) : \/ k \in 1 .. l /\ u[k] = s[k]
                                \/ k - l \in 1 .. m /\ u[k] = t[k - l]
  BY ConcatList
<1>3. /\ \A k \in 1 .. l : s[k].kind = "data" => Pixels(s[k].r) \subseteq A
      /\ \A p \in A : \E k \in 1 .. l : s[k].kind = "data" /\ p \in Pixels(s[k].r)
      /\ \A j, k \in 1 .. l : s[j].kind = "data" /\ s[k].kind = "data" /\ j # k =>
            Pixels(s[j].r) \cap Pixels(s[k].r) = {}
  BY DEF DataOnce
<1>4. /\ \A k \in 1 .. m : t[k].kind = "data" => Pixels(t[k].r) \subseteq B
      /\ \A p \in B : \E k \in 1 .. m : t[k].kind = "data" /\ p \in Pixels(t[k].r)
      /\ \A j, k \in 1 .. m : t[j].kind = "data" /\ t[k].kind = "data" /\ j # k =>
            Pixels(t[j].r) \cap Pixels(t[k].r) = {}
  BY DEF DataOnce
<1> HIDE DEF u, l, m
<1>5. \A k \in 1 .. Len(u) : u[k].kind = "data" => Pixels(u[k].r) \subseteq A \cup B
  BY <1>2, <1>3, <1>4
<1>6. ASSUME NEW p \in A \cup B
      PROVE  \E k \in 1 .. Len(u) : u[k].kind = "data" /\ p \in Pixels(u[k].r)
  <2>1. CASE p \in A
    <3>1. PICK k \in 1 .. l : s[k].kind = "data" /\ p \in Pixels(s[k].r)
      BY <1>3, <2>1
    <3>2. k \in 1 .. Len(u) /\ u[k] = s[k]
      BY <1>1, <1>2
    <3> QED
      BY <3>1, <3>2
  <2>2. CASE p \in B
    <3>1. PICK k \in 1 .. m : t[k].kind = "data" /\ p \in Pixels(t[k].r)
      BY <1>4, <2>2
    <3>2. l + k \in 1 .. Len(u) /\ u[l + k] = t[k]
      BY <1>1, <1>2
    <3> QED
      BY <3>1, <3>2
  <2> QED
    BY <2>1, <2>2
<1>7. ASSUME NEW j \in 1 .. Len(u), NEW k \in 1 .. Len(u), j # k,
             u[j].kind = "data", u[k].kind = "data"
      PROVE  Pixels(u[j].r) \cap Pixels(u[k].r) = {}
  <2>1. j \in Int /\ k \in Int
    BY <1>1, <1>2
  <2>2. CASE j \in 1 .. l /\ u[j] = s[j] /\ k \in 1 .. l /\ u[k] = s[k]
    BY <1>3, <1>7, <2>2
  <2>3. CASE j - l \in 1 .. m /\ u[j] = t[j - l] /\ k - l \in 1 .. m /\ u[k] = t[k - l]
    <3>1. j - l # k - l
      BY <1>1, <1>7, <2>1
    <3> QED
      BY <1>4, <1>7, <2>3, <3>1
  <2>4. CASE Pixels(u[j].r) \subseteq A /\ Pixels(u[k].r) \subseteq B
    BY <2>4
  <2>5. CASE Pixels(u[j].r) \subseteq B /\ Pixels(u[k].r) \subseteq A
    BY <2>5
  <2> QED
    BY <1>2, <1>3, <1>4, <1>7, <2>2, <2>3, <2>4, <2>5
<1> QED
  BY <1>5, <1>6, <1>7 DEF DataOnce, u

\* Data for the rectangles that tile A.
LEMMA TiledOnce ==
  ASSUME NEW s, NEW pieces, NEW A, Tiles(pieces, A), Len(s) = Len(pieces),
         \A k \in 1 .. Len(pieces) : s[k].kind = "data" /\ s[k].r = pieces[k]
  PROVE  DataOnce(s, Len(s), A)
BY DEF Tiles, DataOnce

LEMMA NoDataOnce ==
  ASSUME NEW s, NoData(s)
  PROVE  DataOnce(s, Len(s), {})
BY DEF NoData, DataOnce

\* What EncodeManager writes: the copied rectangles, the solid areas, the rest of the
\* region, and the cursor on top.
LEMMA UpdateRectsOnce ==
  ASSUME ToSend
  PROVE  \E m : Updated(UpdateRects, m, ui.changed, ui.cursor # {})
<1> DEFINE areas == IF "LastRect" \in cp.pseudo THEN SolidAreas(ui.changed) ELSE <<>>
           solid == UNION {Pixels(areas[k]) : k \in DOMAIN areas}
           copied == CopiedRects
           solids == SolidRects(areas)
           rest == Rects(ui.changed \ solid)
           cursor == CursorRects
           body == (copied \o solids) \o rest
           m == Len(body)
           Holds(s, A) == IsList(s) /\ DataOnce(s, Len(s), A)
<1>1. UpdateRects = body \o cursor
  BY DEF UpdateRects
<1>2. Holds(copied, {})
  <2>1. IsList(copied) /\ \A k \in 1 .. Len(copied) : copied[k].kind = "copy"
    BY CopiedRectsCounted DEF ToSend
  <2> HIDE DEF copied
  <2>2. NoData(copied)
    BY <2>1 DEF NoData
  <2> QED
    BY <2>1, <2>2, NoDataOnce
<1>3. PICK A \in SUBSET ui.changed : Tiles(areas, A)
  <2>1. CASE "LastRect" \in cp.pseudo
    <3>1. \E A \in SUBSET ui.changed : Tiles(SolidAreas(ui.changed), A)
      BY SolidAreasTile DEF ToSend
    <3> QED
      BY <2>1, <3>1
  <2>2. CASE "LastRect" \notin cp.pseudo
    <3>1. areas = <<>> /\ {} \in SUBSET ui.changed
      BY <2>2
    <3> HIDE DEF areas
    <3> QED
      BY <3>1, FewTiles
  <2> QED
    BY <2>1, <2>2
<1> HIDE DEF areas
<1>4. IsList(areas) /\ Len(areas) \in Nat /\ DOMAIN areas = 1 .. Len(areas)
  BY <1>3, ListIs DEF Tiles
<1>5. solid = A
  <2>1. \A k \in 1 .. Len(areas) : Pixels(areas[k]) \subseteq A
    BY <1>3 DEF Tiles
  <2>2. \A p \in A : \E k \in 1 .. Len(areas) : p \in Pixels(areas[k])
    BY <1>3 DEF Tiles
  <2> QED
    BY <1>4, <2>1, <2>2
<1>6. Holds(solids, A)
  <2>1. solids = [k \in 1 .. Len(areas) |-> solids[k]]
    BY <1>4 DEF SolidRects
  <2>2. \A k \in 1 .. Len(areas) : solids[k].kind = "data" /\ solids[k].r = areas[k]
    BY <1>4 DEF SolidRects, DataRect
  <2> HIDE DEF solids
  <2>3. IsList(solids) /\ Len(solids) = Len(areas)
    BY <1>4, <2>1, ListOf
  <2> QED
    BY <1>3, <2>2, <2>3, TiledOnce
<1> HIDE DEF solid
<1>7. Holds(rest, ui.changed \ A)
  <2> DEFINE R == ui.changed \ A
  <2>1. R \in SUBSET Point /\ IsFiniteSet(R) /\ rest = Rects(R)
    BY <1>5, FS_Subset DEF ToSend
  <2> HIDE DEF R, rest
  <2>2. IsList(rest) /\ \A k \in 1 .. Len(rest) : rest[k].kind = "data"
    BY <2>1, RectsCounted
  <2>3. PICK pieces : /\ Tiles(pieces, R) /\ Len(rest) = Len(pieces)
                      /\ \A k \in 1 .. Len(pieces) : rest[k].r = pieces[k]
    BY <2>1, RectsTile
  <2>4. DataOnce(rest, Len(rest), R)
    BY <2>2, <2>3, TiledOnce
  <2> QED
    BY <2>2, <2>4 DEF R
<1> HIDE DEF copied, solids, rest
<1>8. Holds(copied \o solids, {} \cup A)
  BY <1>2, <1>6, ConcatOnce, ConcatList
<1>9. Holds(body, ({} \cup A) \cup (ui.changed \ A))
  <2>1. ({} \cup A) \cap (ui.changed \ A) = {}
    OBVIOUS
  <2> QED
    BY <1>7, <1>8, <2>1, ConcatOnce, ConcatList
<1>10. Holds(body, ui.changed)
  <2>1. ({} \cup A) \cup (ui.changed \ A) = ui.changed
    OBVIOUS
  <2> QED
    BY <1>9, <2>1
<1> HIDE DEF body
<1>11. m \in Nat /\ IsList(body)
  BY <1>10, ListIs
<1>12. /\ IsList(cursor) /\ Len(cursor) = IF ui.cursor # {} THEN 1 ELSE 0
       /\ ui.cursor # {} => cursor[1].kind = "data"
  <2>1. CASE ui.cursor = {}
    <3>1. cursor = <<>>
      BY <2>1 DEF CursorRects
    <3> QED
      BY <2>1, <3>1, EmptyList
  <2>2. CASE ui.cursor # {}
    <3> DEFINE e == SubRect(CHOOSE r \in ui.cursor : TRUE, WithCursor(ui.cursor))
    <3>1. cursor = <<e>>
      BY <2>2 DEF CursorRects
    <3>2. e.kind = "data"
      BY DEF SubRect, DataRect
    <3> HIDE DEF e
    <3> QED
      BY <2>2, <3>1, <3>2, OneList
  <2> QED
    BY <2>1, <2>2
<1> HIDE DEF cursor
<1>13. /\ IsList(UpdateRects) /\ Len(UpdateRects) = m + Len(cursor)
       /\ \A k \in 1 .. m : UpdateRects[k] = body[k]
       /\ \A k \in 1 .. Len(cursor) : UpdateRects[m + k] = cursor[k]
  BY <1>1, <1>11, <1>12, ConcatList
<1> HIDE DEF m
<1>14. DataOnce(body, m, ui.changed)
  BY <1>10 DEF m
<1> DEFINE new == UpdateRects
<1>20. \A k \in 1 .. m : new[k] = body[k]
  BY <1>13
<1> HIDE DEF new
<1>21. DataOnce(new, m, ui.changed)
  BY <1>14, <1>20 DEF DataOnce
<1>15. DataOnce(UpdateRects, m, ui.changed)
  BY <1>21 DEF new
<1>16. m \in 0 .. Len(UpdateRects)
  BY <1>11, <1>12, <1>13 DEF m
<1>17. m \in Nat
  BY <1>11 DEF m
<1>18. ui.cursor # {} => m + 1 \in 1 .. Len(UpdateRects) /\ UpdateRects[m + 1].kind = "data"
  BY <1>12, <1>13, <1>17
<1>19. \A k \in 1 .. Len(UpdateRects) : k <= m \/ (ui.cursor # {} /\ k = m + 1)
  BY <1>12, <1>13, <1>17
<1> QED
  BY <1>13, <1>15, <1>16, <1>18, <1>19 DEF Updated

\* Anything else before or behind it does not change that.
LEMMA UpdatedBehind ==
  ASSUME NEW s, NEW t, NEW m, NEW A, NEW cursor \in BOOLEAN, NoData(t), Updated(s, m, A, cursor)
  PROVE  Updated(t \o s, Len(t) + m, A, cursor)
<1> DEFINE u == t \o s
           l == Len(t)
<1>1. /\ IsList(t) /\ IsList(s) /\ l \in Nat /\ Len(s) \in Nat /\ m \in Nat /\ m <= Len(s)
  BY ListIs DEF NoData, Updated
<1>2. /\ IsList(u) /\ Len(u) = l + Len(s)
      /\ \A k \in 1 .. l : u[k] = t[k]
      /\ \A k \in 1 .. Len(s) : u[l + k] = s[k]
      /\ \A k \in 1 .. Len(u) : \/ k \in 1 .. l /\ u[k] = t[k]
                                \/ k - l \in 1 .. Len(s) /\ u[k] = s[k - l]
  BY <1>1, ConcatList
<1>3. /\ \A k \in 1 .. m : s[k].kind = "data" => Pixels(s[k].r) \subseteq A
      /\ \A p \in A : \E k \in 1 .. m : s[k].kind = "data" /\ p \in Pixels(s[k].r)
      /\ \A j, k \in 1 .. m : s[j].kind = "data" /\ s[k].kind = "data" /\ j # k =>
            Pixels(s[j].r) \cap Pixels(s[k].r) = {}
      /\ cursor => m + 1 \in 1 .. Len(s) /\ s[m + 1].kind = "data"
      /\ \A k \in 1 .. Len(s) : s[k].kind = "data" => k <= m \/ (cursor /\ k = m + 1)
  BY DEF Updated, DataOnce
<1>4. \A k \in 1 .. l : t[k].kind # "data"
  BY DEF NoData
<1> HIDE DEF u, l
<1>5. \A k \in 1 .. Len(u) : u[k].kind = "data" =>
        k - l \in 1 .. Len(s) /\ u[k] = s[k - l] /\ k \in Int
  BY <1>1, <1>2, <1>4
<1>6. \A k \in 1 .. l + m : u[k].kind = "data" => k - l \in 1 .. m /\ u[k] = s[k - l] /\ k \in Int
  <2> SUFFICES ASSUME NEW k \in 1 .. l + m, u[k].kind = "data"
               PROVE  k - l \in 1 .. m /\ u[k] = s[k - l] /\ k \in Int
    OBVIOUS
  <2>1. k \in 1 .. Len(u)
    BY <1>1, <1>2
  <2> QED
    BY <1>1, <1>5, <2>1
<1>7. \A k \in 1 .. m : l + k \in 1 .. l + m /\ u[l + k] = s[k]
  BY <1>1, <1>2
<1>8. DataOnce(u, l + m, A)
  <2>1. \A k \in 1 .. l + m : u[k].kind = "data" => Pixels(u[k].r) \subseteq A
    BY <1>3, <1>6
  <2>2. ASSUME NEW p \in A
        PROVE  \E k \in 1 .. l + m : u[k].kind = "data" /\ p \in Pixels(u[k].r)
    <3>1. PICK k \in 1 .. m : s[k].kind = "data" /\ p \in Pixels(s[k].r)
      BY <1>3
    <3> QED
      BY <1>7, <3>1
  <2>3. ASSUME NEW j \in 1 .. l + m, NEW k \in 1 .. l + m,
               u[j].kind = "data", u[k].kind = "data", j # k
        PROVE  Pixels(u[j].r) \cap Pixels(u[k].r) = {}
    <3>1. /\ j - l \in 1 .. m /\ u[j] = s[j - l] /\ k - l \in 1 .. m /\ u[k] = s[k - l]
          /\ j \in Int /\ k \in Int
      BY <1>6, <2>3
    <3>2. j - l # k - l
      BY <1>1, <2>3, <3>1
    <3> QED
      BY <1>3, <2>3, <3>1, <3>2
  <2> QED
    BY <2>1, <2>2, <2>3 DEF DataOnce
<1>9. l + m \in 0 .. Len(u)
  BY <1>1, <1>2
<1>10. cursor => (l + m) + 1 \in 1 .. Len(u) /\ u[(l + m) + 1].kind = "data"
  <2> SUFFICES ASSUME cursor
               PROVE  (l + m) + 1 \in 1 .. Len(u) /\ u[(l + m) + 1].kind = "data"
    OBVIOUS
  <2>1. m + 1 \in 1 .. Len(s) /\ s[m + 1].kind = "data"
    BY <1>3
  <2>2. u[l + (m + 1)] = s[m + 1] /\ l + (m + 1) = (l + m) + 1
    BY <1>1, <1>2, <2>1
  <2> QED
    BY <1>1, <1>2, <2>1, <2>2
<1>11. \A k \in 1 .. Len(u) : u[k].kind = "data" => k <= l + m \/ (cursor /\ k = (l + m) + 1)
  <2> SUFFICES ASSUME NEW k \in 1 .. Len(u), u[k].kind = "data"
               PROVE  k <= l + m \/ (cursor /\ k = (l + m) + 1)
    OBVIOUS
  <2>1. k - l \in 1 .. Len(s) /\ u[k] = s[k - l] /\ k \in Int
    BY <1>5
  <2>2. k - l <= m \/ (cursor /\ k - l = m + 1)
    BY <1>3, <2>1
  <2> QED
    BY <1>1, <2>1, <2>2
<1> QED
  BY <1>2, <1>8, <1>9, <1>10, <1>11 DEF Updated, u, l

LEMMA UpdatedBefore ==
  ASSUME NEW s, NEW t, NEW m, NEW A, NEW cursor \in BOOLEAN, NoData(t), Updated(s, m, A, cursor)
  PROVE  Updated(s \o t, m, A, cursor)
<1> DEFINE u == s \o t
           l == Len(s)
<1>1. /\ IsList(t) /\ IsList(s) /\ l \in Nat /\ Len(t) \in Nat /\ m \in 0 .. l
  BY ListIs DEF NoData, Updated
<1>2. /\ IsList(u) /\ Len(u) = l + Len(t)
      /\ \A k \in 1 .. l : u[k] = s[k]
      /\ \A k \in 1 .. Len(u) : \/ k \in 1 .. l /\ u[k] = s[k]
                                \/ k - l \in 1 .. Len(t) /\ u[k] = t[k - l]
  BY <1>1, ConcatList
<1>3. /\ DataOnce(s, m, A)
      /\ cursor => m + 1 \in 1 .. l /\ s[m + 1].kind = "data"
      /\ \A k \in 1 .. l : s[k].kind = "data" => k <= m \/ (cursor /\ k = m + 1)
  BY DEF Updated
<1>4. \A k \in 1 .. Len(t) : t[k].kind # "data"
  BY DEF NoData
<1> HIDE DEF u, l
<1>5. DataOnce(u, m, A)
  <2>1. \A k \in 1 .. m : u[k] = s[k]
    BY <1>1, <1>2
  <2> QED
    BY <1>3, <2>1 DEF DataOnce
<1>6. m \in 0 .. Len(u)
  BY <1>1, <1>2
<1>7. cursor => m + 1 \in 1 .. Len(u) /\ u[m + 1].kind = "data"
  BY <1>1, <1>2, <1>3
<1>8. \A k \in 1 .. Len(u) : u[k].kind = "data" => k <= m \/ (cursor /\ k = m + 1)
  BY <1>2, <1>3, <1>4
<1> QED
  BY <1>2, <1>5, <1>6, <1>7, <1>8 DEF Updated, u

\* A message has the pixels of the changed region each once.
LEMMA MessageOnce ==
  ASSUME ReadyToSend, NEW n
  PROVE  \E m : Updated(Message(n, PseudoRects \o UpdateRects), m, ui.changed, ui.cursor # {})
<1> DEFINE cursor == ui.cursor # {}
           A == ui.changed
           body == UpdateRects
           header == [kind |-> "update", n |-> Announced(n) % 65536]
           marker == [kind |-> "last"]
           h == <<header>>
           end == IF Announced(n) \in {0, Unknown} THEN <<marker>> ELSE <<>>
           pseudo == PseudoRects
<1>1. Message(n, pseudo \o body) = (h \o (pseudo \o body)) \o end
  BY DEF Message
<1>2. NoData(pseudo)
  <2>1. Kinds(PseudoRects, {"cursor", "xcursor", "name"})
    BY PseudoCounted DEF ReadyToSend
  <2> QED
    BY <2>1 DEF Kinds, NoData
<1>3. ASSUME NEW e, e.kind # "data"
      PROVE  NoData(<<e>>)
  <2> DEFINE s == <<e>>
  <2>1. IsList(s) /\ Len(s) = 1 /\ s[1] = e
    BY OneList
  <2> HIDE DEF s
  <2>2. NoData(s)
    BY <1>3, <2>1 DEF NoData
  <2> QED
    BY <2>2 DEF s
<1>4. NoData(h)
  <2>1. header.kind # "data"
    OBVIOUS
  <2> HIDE DEF header
  <2> QED
    BY <1>3, <2>1
<1>5. NoData(end)
  <2>1. marker.kind # "data"
    OBVIOUS
  <2> HIDE DEF marker
  <2>2. NoData(<<marker>>)
    BY <1>3, <2>1
  <2>3. NoData(<<>>)
    BY EmptyList DEF NoData
  <2> QED
    BY <2>2, <2>3
<1>6. PICK m : Updated(body, m, A, cursor)
  BY UpdateRectsOnce DEF ReadyToSend
<1>7. cursor \in BOOLEAN
  OBVIOUS
<1> HIDE DEF body, cursor, A, h, end, pseudo
<1>8. Updated(pseudo \o body, Len(pseudo) + m, A, cursor)
  BY <1>2, <1>6, <1>7, UpdatedBehind
<1>9. Updated(h \o (pseudo \o body), Len(h) + (Len(pseudo) + m), A, cursor)
  BY <1>4, <1>7, <1>8, UpdatedBehind
<1>10. Updated((h \o (pseudo \o body)) \o end, Len(h) + (Len(pseudo) + m), A, cursor)
  BY <1>5, <1>7, <1>9, UpdatedBefore
<1>11. \E l : Updated(Message(n, pseudo \o body), l, A, cursor)
  BY <1>1, <1>10
<1> QED
  BY <1>11 DEF pseudo, body, A, cursor

\* What has been added to a stream has, once the cursor is left aside, each pixel
\* of a region once.
AddedIs(s, u, A, cursor) ==
  LET data == {k \in Len(s) + 1 .. Len(u) : u[k].kind = "data"}
      once == IF cursor = {} THEN data ELSE data \ {Max(data)}
  IN /\ UNION {Pixels(u[k].r) : k \in once} = A
     /\ \A k, l \in once : k # l => Pixels(u[k].r) \cap Pixels(u[l].r) = {}

LEMMA AddedOnce ==
  ASSUME NEW s, IsList(s), NEW t, NEW m, NEW A, NEW cursor, Updated(t, m, A, cursor # {})
  PROVE  AddedIs(s, s \o t, A, cursor)
<1> DEFINE u == s \o t
           l == Len(s)
           data == {k \in l + 1 .. Len(u) : u[k].kind = "data"}
           once == IF cursor = {} THEN data ELSE data \ {Max(data)}
<1>1. IsList(t) /\ l \in Nat /\ Len(t) \in Nat /\ m \in 0 .. Len(t)
  BY ListIs DEF Updated
<1>2. /\ Len(u) = l + Len(t)
      /\ \A k \in 1 .. Len(t) : u[l + k] = t[k]
  BY <1>1, ConcatList
<1>3. /\ \A k \in 1 .. m : t[k].kind = "data" => Pixels(t[k].r) \subseteq A
      /\ \A p \in A : \E k \in 1 .. m : t[k].kind = "data" /\ p \in Pixels(t[k].r)
      /\ \A j, k \in 1 .. m : t[j].kind = "data" /\ t[k].kind = "data" /\ j # k =>
            Pixels(t[j].r) \cap Pixels(t[k].r) = {}
  BY DEF Updated, DataOnce
<1>4. /\ cursor # {} => m + 1 \in 1 .. Len(t) /\ t[m + 1].kind = "data"
      /\ \A k \in 1 .. Len(t) : t[k].kind = "data" => k <= m \/ (cursor # {} /\ k = m + 1)
  BY DEF Updated
<1> HIDE DEF u, l
<1>5. \A k \in data : k - l \in 1 .. Len(t) /\ u[k] = t[k - l] /\ t[k - l].kind = "data" /\ k \in Int
  <2> SUFFICES ASSUME NEW k \in l + 1 .. Len(u), u[k].kind = "data"
               PROVE  k - l \in 1 .. Len(t) /\ u[k] = t[k - l] /\ t[k - l].kind = "data" /\ k \in Int
    OBVIOUS
  <2>1. k - l \in 1 .. Len(t) /\ l + (k - l) = k /\ k \in Int
    BY <1>1, <1>2
  <2> QED
    BY <1>2, <2>1
<1>6. \A k \in 1 .. Len(t) : t[k].kind = "data" => l + k \in data
  <2> SUFFICES ASSUME NEW k \in 1 .. Len(t), t[k].kind = "data"
               PROVE  l + k \in data
    OBVIOUS
  <2>1. l + k \in l + 1 .. Len(u) /\ u[l + k] = t[k]
    BY <1>1, <1>2
  <2> QED
    BY <2>1
<1> HIDE DEF data
<1>7. \A k \in data : k <= l + m \/ (cursor # {} /\ k = l + (m + 1))
  <2> SUFFICES ASSUME NEW k \in data
               PROVE  k <= l + m \/ (cursor # {} /\ k = l + (m + 1))
    OBVIOUS
  <2>1. k - l \in 1 .. Len(t) /\ t[k - l].kind = "data" /\ k \in Int
    BY <1>5
  <2>2. k - l <= m \/ (cursor # {} /\ k - l = m + 1)
    BY <1>4, <2>1
  <2> QED
    BY <1>1, <2>1, <2>2
<1>8. once = {k \in data : k <= l + m}
  <2>1. CASE cursor = {}
    BY <1>7, <2>1
  <2>2. CASE cursor # {}
    <3> DEFINE c == l + (m + 1)
    <3>1. c \in data
      BY <1>4, <1>6, <2>2
    <3>2. \A k \in data : k \in Int /\ (k <= l + m \/ k = c)
      BY <1>5, <1>7
    <3>3. l + m \in Int /\ c = (l + m) + 1
      BY <1>1
    <3> HIDE DEF c
    <3>4. Max(data) = c
      <4>1. \A k \in data : c >= k
        BY <3>2, <3>3
      <4>2. \A x \in data : (\A y \in data : x >= y) => x = c
        BY <3>1, <3>2, <3>3
      <4> QED
        BY <3>1, <4>1, <4>2 DEF Max
    <3>5. once = data \ {c}
      BY <2>2, <3>4
    <3> QED
      BY <3>2, <3>3, <3>5
  <2> QED
    BY <2>1, <2>2
<1> HIDE DEF once
<1>9. \A k \in once : k - l \in 1 .. m /\ u[k] = t[k - l] /\ t[k - l].kind = "data" /\ k \in Int
  <2> SUFFICES ASSUME NEW k \in data, k <= l + m
               PROVE  k - l \in 1 .. m /\ u[k] = t[k - l] /\ t[k - l].kind = "data" /\ k \in Int
    BY <1>8
  <2>1. k - l \in 1 .. Len(t) /\ u[k] = t[k - l] /\ t[k - l].kind = "data" /\ k \in Int
    BY <1>5
  <2> QED
    BY <1>1, <2>1
<1>10. \A k \in once : Pixels(u[k].r) \subseteq A
  BY <1>3, <1>9
<1>11. ASSUME NEW p \in A
       PROVE  \E k \in once : p \in Pixels(u[k].r)
  <2>1. PICK k \in 1 .. m : t[k].kind = "data" /\ p \in Pixels(t[k].r)
    BY <1>3
  <2>2. k \in 1 .. Len(t) /\ l + k <= l + m
    BY <1>1
  <2>3. l + k \in once /\ u[l + k] = t[k]
    BY <1>2, <1>6, <1>8, <2>1, <2>2
  <2> QED
    BY <2>1, <2>3
<1>12. UNION {Pixels(u[k].r) : k \in once} = A
  BY <1>10, <1>11
<1>13. ASSUME NEW j \in once, NEW k \in once, j # k
       PROVE  Pixels(u[j].r) \cap Pixels(u[k].r) = {}
  <2>1. /\ j - l \in 1 .. m /\ u[j] = t[j - l] /\ t[j - l].kind = "data" /\ j \in Int
        /\ k - l \in 1 .. m /\ u[k] = t[k - l] /\ t[k - l].kind = "data" /\ k \in Int
    BY <1>9
  <2>2. j - l # k - l
    BY <1>1, <1>13, <2>1
  <2> QED
    BY <1>3, <2>1, <2>2
<1> QED
  BY <1>12, <1>13 DEF AddedIs, u, l, data, once

\* The stream is a sequence, whatever is written and read.
Streaming == IsList(stream)

LEMMA StaysStreaming ==
  ASSUME ReadyToSend, Streaming, [WriterNext]_writerVars
  PROVE  Streaming'
<1> USE DEF Streaming
<1>1. ASSUME UNCHANGED stream
      PROVE  Streaming'
  BY <1>1
<1>2. ASSUME NEW n, NEW items, IsList(items), stream' = stream \o Message(n, items)
      PROVE  Streaming'
  BY <1>2, MessageIs, ConcatList
<1>3. CASE WriteNoDataUpdate
  <2>1. IsList(PseudoRects \o NoDataRects)
    BY NoDataFits DEF Kinds
  <2> QED
    BY <1>1, <1>2, <1>3, <2>1 DEF WriteNoDataUpdate, Throw
<1>4. CASE WriteUpdate
  <2>1. IsList(PseudoRects \o UpdateRects)
    BY UpdateFits DEF Kinds
  <2>2. stream' = stream \o Message(RectsCount, PseudoRects \o UpdateRects) \/ UNCHANGED stream
    BY <1>4 DEF WriteUpdate, Throw, RectsCount
  <2> QED
    BY <1>1, <1>2, <2>1, <2>2
<1>5. CASE OtherMessage
  <2> DEFINE e == [kind |-> "other"]
  <2>1. stream' = Append(stream, e)
    BY <1>5 DEF OtherMessage
  <2> HIDE DEF e
  <2> QED
    BY <2>1, AppendList, OneList, ConcatList
<1>6. CASE ReadMsg
  BY <1>6, TailList DEF ReadMsg
<1>7. CASE SetCursor \/ SetDesktopName \/ PixelBufferChange \/ SetDesktopSize
           \/ (\E new \in ClientEncodings : SetEncodings(new)) \/ UNCHANGED writerVars
  <2>1. UNCHANGED stream
    BY <1>7 DEF SetCursor, SetDesktopName, PixelBufferChange, SetDesktopSize, SetEncodings,
                writerVars
  <2> QED
    BY <1>1, <2>1
<1> QED
  BY <1>3, <1>4, <1>5, <1>6, <1>7 DEF WriterNext

\* An update has each pixel of the changed region once and no other, for every
\* picture, region and client: the solid areas that writeSolidRects finds, the rest
\* that writeRects is left with and its pieces neither overlap nor leave anything out.
THEOREM UpdatesAreExact == WriterSpec => EachPixelOnce
<1>1. WriterInit => Streaming
  BY EmptyList DEF WriterInit, Streaming
<1>2. ReadyToSend /\ Streaming /\ [WriterNext]_writerVars => Streaming'
  BY StaysStreaming
<1> DEFINE Once ==
             Len(stream') > Len(stream) /\ ui' # ui =>
               LET data == {k \in Len(stream) + 1 .. Len(stream') : stream'[k].kind = "data"}
                   once == IF ui.cursor = {} THEN data ELSE data \ {Max(data)}
               IN /\ UNION {Pixels(stream'[k].r) : k \in once} = ui.changed
                  /\ \A k, l \in once : k # l => Pixels(stream'[k].r) \cap Pixels(stream'[l].r) = {}
<1>3. ASSUME ReadyToSend, Streaming, [WriterNext]_writerVars
      PROVE  [Once]_writerVars
  <2>1. CASE UNCHANGED ui
    <3>1. Once
      BY <2>1
    <3> QED
      BY <3>1
  <2>2. CASE WriteUpdate /\ stream' = stream \o Message(RectsCount, PseudoRects \o UpdateRects)
    <3>1. PICK m : Updated(Message(RectsCount, PseudoRects \o UpdateRects), m, ui.changed,
                           ui.cursor # {})
      BY <1>3, MessageOnce
    <3> DEFINE t == Message(RectsCount, PseudoRects \o UpdateRects)
    <3>2. Updated(t, m, ui.changed, ui.cursor # {}) /\ stream' = stream \o t
      BY <2>2, <3>1
    <3> HIDE DEF t
    <3>3. AddedIs(stream, stream \o t, ui.changed, ui.cursor)
      BY <1>3, <3>2, AddedOnce DEF Streaming
    <3>4. AddedIs(stream, stream', ui.changed, ui.cursor)
      BY <3>2, <3>3
    <3>5. Once
      BY <3>4 DEF AddedIs
    <3> QED
      BY <3>5
  <2>3. WriteUpdate =>
          \/ UNCHANGED ui
          \/ stream' = stream \o Message(RectsCount, PseudoRects \o UpdateRects)
    BY DEF WriteUpdate, Throw, RectsCount
  <2>4. CASE WriteNoDataUpdate \/ SetCursor \/ SetDesktopName \/ PixelBufferChange
             \/ SetDesktopSize \/ (\E new \in ClientEncodings : SetEncodings(new))
             \/ OtherMessage \/ ReadMsg \/ UNCHANGED writerVars
    <3>1. UNCHANGED ui
      BY <2>4 DEF WriteNoDataUpdate, Throw, SetCursor, SetDesktopName, PixelBufferChange,
                  SetDesktopSize, SetEncodings, OtherMessage, ReadMsg, writerVars
    <3> QED
      BY <2>1, <3>1
  <2> QED
    BY <1>3, <2>1, <2>2, <2>3, <2>4 DEF WriterNext
<1> QED
  BY <1>1, <1>2, <1>3, AlwaysReady, PTL DEF WriterSpec, EachPixelOnce

-----------------------------------------------------------------------------
(***************************************************************************)
(* What the viewer shows after an update.                                  *)
(***************************************************************************)
\* A picture as large as the framebuffer, and one with the pixels of U from another.
Frame == Pixels(Whole(screen))
Shot(f) == [w |-> screen.w, h |-> screen.h, at |-> [p \in Frame |-> f[p]]]
Over(f, U, g) == [p \in Frame |-> IF p \in U THEN g[p] ELSE f[p]]

\* What reading one item of the stream makes of a picture, and reading all of them.
Applied(pic, item) ==
  CASE item.kind = "data" -> Decode(item.encoding, pic, item.r, item.data)
    [] item.kind = "copy" -> Paste(pic, item.r, Cut(pic, item.src))
    [] OTHER -> pic
Turns(a, s, b, v) ==
  v[0] = a /\ v[Len(s)] = b /\ \A k \in 1 .. Len(s) : v[k] = Applied(v[k - 1], s[k])
Reads(a, s, b) == IsList(s) /\ \E v : Turns(a, s, b, v)

LEMMA ReadsConcat ==
  ASSUME NEW a, NEW b, NEW c, NEW s, NEW t, Reads(a, s, b), Reads(b, t, c)
  PROVE  Reads(a, s \o t, c)
<1>1. PICK v : Turns(a, s, b, v)
  BY DEF Reads
<1>2. PICK x : Turns(b, t, c, x)
  BY DEF Reads
<1> DEFINE l == Len(s)
           m == Len(t)
           u == s \o t
           z == [k \in 0 .. l + m |-> IF k <= l THEN v[k] ELSE x[k - l]]
<1>3. IsList(s) /\ IsList(t) /\ l \in Nat /\ m \in Nat
  BY ListIs DEF Reads
<1>4. /\ IsList(u) /\ Len(u) = l + m
      /\ \A k \in 1 .. l : u[k] = s[k]
      /\ \A k \in 1 .. m : u[l + k] = t[k]
  BY <1>3, ConcatList
<1>5. /\ v[0] = a /\ v[l] = b /\ \A k \in 1 .. l : v[k] = Applied(v[k - 1], s[k])
      /\ x[0] = b /\ x[m] = c /\ \A k \in 1 .. m : x[k] = Applied(x[k - 1], t[k])
  BY <1>1, <1>2 DEF Turns
<1> HIDE DEF u, l, m
<1>6. /\ \A k \in 0 .. l : z[k] = v[k]
      /\ \A k \in 0 .. m : z[l + k] = x[k]
  <2>1. \A k \in 0 .. l : k \in 0 .. l + m /\ k <= l
    BY <1>3
  <2>2. ASSUME NEW k \in 0 .. m
        PROVE  z[l + k] = x[k]
    <3>1. l + k \in 0 .. l + m /\ (l + k) - l = k /\ (l + k <= l => k = 0)
      BY <1>3
    <3>2. CASE k = 0
      <4>1. l + k = l /\ l <= l /\ l \in 0 .. l + m
        BY <1>3, <3>2
      <4> QED
        BY <1>5, <3>2, <4>1
    <3>3. CASE k # 0
      <4>1. ~ (l + k <= l)
        BY <3>1, <3>3
      <4> QED
        BY <3>1, <4>1
    <3> QED
      BY <3>2, <3>3
  <2> QED
    BY <2>1, <2>2
<1> HIDE DEF z
<1>7. z[0] = a /\ z[l + m] = c
  <2>1. 0 \in 0 .. l /\ m \in 0 .. m
    BY <1>3
  <2> QED
    BY <1>5, <1>6, <2>1
<1>8. ASSUME NEW k \in 1 .. l + m
      PROVE  z[k] = Applied(z[k - 1], u[k])
  <2>1. CASE k <= l
    <3>1. k \in 1 .. l /\ k \in 0 .. l /\ k - 1 \in 0 .. l
      BY <1>3, <2>1
    <3> QED
      BY <1>4, <1>5, <1>6, <3>1
  <2>2. CASE ~ (k <= l)
    <3> DEFINE j == k - l
    <3>1. j \in 1 .. m /\ j \in 0 .. m /\ j - 1 \in 0 .. m /\ k = l + j /\ k - 1 = l + (j - 1)
      BY <1>3, <2>2
    <3> HIDE DEF j
    <3> QED
      BY <1>4, <1>5, <1>6, <3>1
  <2> QED
    BY <2>1, <2>2
<1>9. Turns(a, u, c, z)
  BY <1>4, <1>7, <1>8 DEF Turns
<1> QED
  BY <1>4, <1>9 DEF Reads, u

\* Messages and announcements leave the picture alone.
Unpictured(s) == IsList(s) /\ \A k \in 1 .. Len(s) : s[k].kind \notin {"data", "copy"}

LEMMA ReadsIdle ==
  ASSUME NEW a, NEW s, Unpictured(s)
  PROVE  Reads(a, s, a)
<1> DEFINE v == [k \in 0 .. Len(s) |-> a]
<1>1. Len(s) \in Nat /\ IsList(s)
  BY ListIs DEF Unpictured
<1>2. \A k \in 0 .. Len(s) : v[k] = a
  OBVIOUS
<1> HIDE DEF v
<1>3. \A k \in 1 .. Len(s) : k \in 0 .. Len(s) /\ k - 1 \in 0 .. Len(s)
  BY <1>1
<1>4. 0 \in 0 .. Len(s) /\ Len(s) \in 0 .. Len(s)
  BY <1>1
<1>5. \A k \in 1 .. Len(s) : Applied(a, s[k]) = a
  BY DEF Unpictured, Applied
<1>6. Turns(a, s, a, v)
  BY <1>2, <1>3, <1>4, <1>5 DEF Turns
<1> QED
  BY <1>1, <1>6 DEF Reads

LEMMA ReadsTail ==
  ASSUME NEW a, NEW b, NEW s, Reads(a, s, b)
  PROVE  /\ Len(s) = 0 => a = b
         /\ Len(s) # 0 => Reads(Applied(a, s[1]), Tail(s), b)
<1>1. PICK v : Turns(a, s, b, v)
  BY DEF Reads
<1>2. IsList(s) /\ Len(s) \in Nat
  BY ListIs DEF Reads
<1>3. /\ v[0] = a /\ v[Len(s)] = b
      /\ \A k \in 1 .. Len(s) : v[k] = Applied(v[k - 1], s[k])
  BY <1>1 DEF Turns
<1>4. ASSUME Len(s) # 0
      PROVE  Reads(Applied(a, s[1]), Tail(s), b)
  <2> DEFINE t == Tail(s)
             l == Len(s)
             z == [k \in 0 .. l - 1 |-> v[k + 1]]
  <2>1. IsList(t) /\ Len(t) = l - 1 /\ \A k \in 1 .. l - 1 : t[k] = s[k + 1]
    BY <1>2, <1>4, TailList
  <2>2. \A k \in 0 .. l - 1 : z[k] = v[k + 1]
    OBVIOUS
  <2> HIDE DEF t, z, l
  <2>3. l \in Nat /\ l # 0
    BY <1>2, <1>4 DEF l
  <2>4. z[0] = Applied(a, s[1]) /\ z[l - 1] = b
    <3>1. 0 \in 0 .. l - 1 /\ l - 1 \in 0 .. l - 1 /\ (l - 1) + 1 = l /\ 1 \in 1 .. l
          /\ 0 + 1 = 1 /\ 1 - 1 = 0
      BY <2>3
    <3> QED
      BY <1>3, <2>2, <3>1 DEF l
  <2>5. ASSUME NEW k \in 1 .. l - 1
        PROVE  z[k] = Applied(z[k - 1], t[k])
    <3>1. k \in 0 .. l - 1 /\ k - 1 \in 0 .. l - 1 /\ k + 1 \in 1 .. l /\ (k - 1) + 1 = k
          /\ (k + 1) - 1 = k
      BY <2>3
    <3> QED
      BY <1>3, <2>1, <2>2, <3>1 DEF l
  <2>6. Turns(Applied(a, s[1]), t, b, z)
    BY <2>1, <2>4, <2>5 DEF Turns
  <2> QED
    BY <2>1, <2>6 DEF Reads, t
<1> QED
  BY <1>3, <1>4

\* An item that puts the pixels of U there, whatever the picture was.
Puts(item, U, g) == \A f : Applied(Shot(f), item) = Shot(Over(f, U, g))

LEMMA ShotsAre ==
  ASSUME NEW f, NEW g, \A p \in Frame : f[p] = g[p]
  PROVE  Shot(f) = Shot(g)
<1>1. [p \in Frame |-> f[p]] = [p \in Frame |-> g[p]]
  OBVIOUS
<1> QED
  BY <1>1 DEF Shot

LEMMA OverIs ==
  ASSUME NEW f, NEW g, NEW U
  PROVE  \A p \in Frame : Over(f, U, g)[p] = IF p \in U THEN g[p] ELSE f[p]
BY DEF Over

\* One that does so as long as the picture is still f outside of B.
PutsFrom(item, U, g, f, B) ==
  \A h : (\A p \in Frame : p \notin B => h[p] = f[p]) =>
           Applied(Shot(h), item) = Shot(Over(h, U, g))

\* Items that put the pixels of a part each, the later ones with what the earlier
\* ones have left.
LEMMA ListPutsFrom ==
  ASSUME NEW s, IsList(s), NEW g, NEW P, NEW U, NEW f,
         \A k \in 1 .. Len(s) : PutsFrom(s[k], P[k], g, f, UNION {P[j] : j \in 1 .. k - 1}),
         \A k \in 1 .. Len(s) : P[k] \subseteq U,
         \A p \in U : \E k \in 1 .. Len(s) : p \in P[k]
  PROVE  Reads(Shot(f), s, Shot(Over(f, U, g)))
<1> DEFINE n == Len(s)
           B(k) == UNION {P[j] : j \in 1 .. k}
           h == [k \in 0 .. n |-> Over(f, B(k), g)]
           v == [k \in 0 .. n |-> Shot(h[k])]
<1>1. n \in Nat
  BY ListIs
<1>2. \A k \in 0 .. n : v[k] = Shot(h[k]) /\ h[k] = Over(f, B(k), g)
  OBVIOUS
<1>3. ASSUME NEW k \in 0 .. n
      PROVE  \A p \in Frame : h[k][p] = IF \E j \in 1 .. k : p \in P[j] THEN g[p] ELSE f[p]
  <2>1. h[k] = Over(f, B(k), g)
    BY <1>2
  <2>2. \A p : p \in B(k) <=> \E j \in 1 .. k : p \in P[j]
    OBVIOUS
  <2> HIDE DEF h, B
  <2> QED
    BY <2>1, <2>2, OverIs
<1> HIDE DEF h, v
<1>4. v[0] = Shot(f)
  <2>1. 0 \in 0 .. n /\ \A j \in 1 .. 0 : FALSE
    BY <1>1
  <2>2. \A p \in Frame : h[0][p] = f[p]
    BY <1>3, <2>1
  <2>3. v[0] = Shot(h[0])
    BY <1>2, <2>1
  <2> QED
    BY <2>2, <2>3, ShotsAre
<1>5. v[n] = Shot(Over(f, U, g))
  <2>1. n \in 0 .. n
    BY <1>1
  <2>2. \A p \in Frame : h[n][p] = Over(f, U, g)[p]
    <3>1. \A p : p \in U <=> \E j \in 1 .. n : p \in P[j]
      OBVIOUS
    <3> QED
      BY <1>3, <2>1, <3>1, OverIs
  <2>3. v[n] = Shot(h[n])
    BY <1>2, <2>1
  <2> QED
    BY <2>2, <2>3, ShotsAre
<1>6. ASSUME NEW k \in 1 .. n
      PROVE  v[k] = Applied(v[k - 1], s[k])
  <2>1. k \in 0 .. n /\ k - 1 \in 0 .. n /\ k \in Int
    BY <1>1
  <2>2. Applied(Shot(h[k - 1]), s[k]) = Shot(Over(h[k - 1], P[k], g))
    <3> DEFINE x == h[k - 1]
               C == B(k - 1)
    <3>1. \A p \in Frame : p \notin C => x[p] = f[p]
      <4>1. \A p : p \in C <=> \E j \in 1 .. k - 1 : p \in P[j]
        OBVIOUS
      <4> HIDE DEF C
      <4>2. \A p \in Frame : x[p] = IF \E j \in 1 .. k - 1 : p \in P[j] THEN g[p] ELSE f[p]
        BY <1>3, <2>1
      <4> QED
        BY <4>1, <4>2
    <3>2. PutsFrom(s[k], P[k], g, f, C)
      OBVIOUS
    <3> HIDE DEF x, C
    <3>3. Applied(Shot(x), s[k]) = Shot(Over(x, P[k], g))
      BY <3>1, <3>2, Zenon DEF PutsFrom
    <3> QED
      BY <3>3 DEF x
  <2>3. \A p \in Frame : h[k][p] = Over(h[k - 1], P[k], g)[p]
    <3> SUFFICES ASSUME NEW p \in Frame
                 PROVE  h[k][p] = Over(h[k - 1], P[k], g)[p]
      OBVIOUS
    <3>1. (\E j \in 1 .. k : p \in P[j]) <=> (\E j \in 1 .. k - 1 : p \in P[j]) \/ p \in P[k]
      <4>1. \A j \in 1 .. k : j \in 1 .. k - 1 \/ j = k
        BY <2>1
      <4>2. \A j \in 1 .. k - 1 : j \in 1 .. k
        BY <2>1
      <4>3. k \in 1 .. k
        BY <2>1
      <4> QED
        BY <4>1, <4>2, <4>3
    <3>2. /\ h[k][p] = IF \E j \in 1 .. k : p \in P[j] THEN g[p] ELSE f[p]
          /\ h[k - 1][p] = IF \E j \in 1 .. k - 1 : p \in P[j] THEN g[p] ELSE f[p]
      BY <1>3, <2>1
    <3>3. Over(h[k - 1], P[k], g)[p] = IF p \in P[k] THEN g[p] ELSE h[k - 1][p]
      BY OverIs
    <3> QED
      BY <3>1, <3>2, <3>3
  <2> QED
    BY <1>2, <2>1, <2>2, <2>3, ShotsAre
<1>7. Turns(Shot(f), s, Shot(Over(f, U, g)), v)
  BY <1>4, <1>5, <1>6 DEF Turns, n
<1> QED
  BY <1>7 DEF Reads

LEMMA ListPuts ==
  ASSUME NEW s, IsList(s), NEW g, NEW P, NEW U,
         \A k \in 1 .. Len(s) : Puts(s[k], P[k], g),
         \A k \in 1 .. Len(s) : P[k] \subseteq U,
         \A p \in U : \E k \in 1 .. Len(s) : p \in P[k],
         NEW f
  PROVE  Reads(Shot(f), s, Shot(Over(f, U, g)))
<1>1. \A k \in 1 .. Len(s) : PutsFrom(s[k], P[k], g, f, UNION {P[j] : j \in 1 .. k - 1})
  BY DEF Puts, PutsFrom
<1> QED
  BY <1>1, ListPutsFrom

\* What pasting and filling make of a picture of the framebuffer's size.
LEMMA PasteIs ==
  ASSUME NEW f, NEW r, NEW part, NEW g,
         \A p \in Frame : p \in Pixels(r) => part.at[Shift(p, <<-r.x1, -r.y1>>)] = g[p]
  PROVE  Paste(Shot(f), r, part) = Shot(Over(f, Pixels(r), g))
<1> DEFINE pic == Shot(f)
           at == [p \in Frame |-> IF p \in Pixels(r) THEN part.at[Shift(p, <<-r.x1, -r.y1>>)] ELSE f[p]]
<1>1. /\ DOMAIN pic.at = Frame /\ \A p \in Frame : pic.at[p] = f[p]
  BY DEF Shot
<1>2. Paste(pic, r, part) = [pic EXCEPT !.at = at]
  <2>1. Paste(pic, r, part) =
          [pic EXCEPT !.at = [p \in DOMAIN pic.at |-> IF p \in Pixels(r)
                              THEN part.at[Shift(p, <<-r.x1, -r.y1>>)] ELSE pic.at[p]]]
    BY DEF Paste
  <2>2. [p \in DOMAIN pic.at |-> IF p \in Pixels(r)
           THEN part.at[Shift(p, <<-r.x1, -r.y1>>)] ELSE pic.at[p]] = at
    BY <1>1
  <2> HIDE DEF pic, at
  <2> QED
    BY <2>1, <2>2
<1>3. at = [p \in Frame |-> Over(f, Pixels(r), g)[p]]
  BY OverIs
<1> HIDE DEF at
<1>4. [pic EXCEPT !.at = at] = [w |-> screen.w, h |-> screen.h, at |-> at]
  <2> DEFINE old == [p \in Frame |-> f[p]]
  <2>1. pic = [w |-> screen.w, h |-> screen.h, at |-> old]
    BY DEF Shot
  <2> HIDE DEF pic, old
  <2> QED
    BY <2>1
<1>5. Shot(Over(f, Pixels(r), g))
        = [w |-> screen.w, h |-> screen.h, at |-> [p \in Frame |-> Over(f, Pixels(r), g)[p]]]
  BY DEF Shot
<1> QED
  BY <1>2, <1>3, <1>4, <1>5

LEMMA FillIs ==
  ASSUME NEW f, NEW r, NEW c, NEW g, \A p \in Frame : p \in Pixels(r) => g[p] = c
  PROVE  Fill(Shot(f), r, c) = Shot(Over(f, Pixels(r), g))
<1> DEFINE pic == Shot(f)
           at == [p \in Frame |-> IF p \in Pixels(r) THEN c ELSE f[p]]
<1>1. /\ DOMAIN pic.at = Frame /\ \A p \in Frame : pic.at[p] = f[p]
  BY DEF Shot
<1>2. Fill(pic, r, c) = [pic EXCEPT !.at = at]
  <2>1. Fill(pic, r, c) =
          [pic EXCEPT !.at = [p \in DOMAIN pic.at |-> IF p \in Pixels(r) THEN c ELSE pic.at[p]]]
    BY DEF Fill
  <2>2. [p \in DOMAIN pic.at |-> IF p \in Pixels(r) THEN c ELSE pic.at[p]] = at
    BY <1>1
  <2> HIDE DEF pic, at
  <2> QED
    BY <2>1, <2>2
<1>3. at = [p \in Frame |-> Over(f, Pixels(r), g)[p]]
  BY OverIs
<1> HIDE DEF at
<1>4. [pic EXCEPT !.at = at] = [w |-> screen.w, h |-> screen.h, at |-> at]
  <2> DEFINE old == [p \in Frame |-> f[p]]
  <2>1. pic = [w |-> screen.w, h |-> screen.h, at |-> old]
    BY DEF Shot
  <2> HIDE DEF pic, old
  <2> QED
    BY <2>1
<1>5. Shot(Over(f, Pixels(r), g))
        = [w |-> screen.w, h |-> screen.h, at |-> [p \in Frame |-> Over(f, Pixels(r), g)[p]]]
  BY DEF Shot
<1> QED
  BY <1>2, <1>3, <1>4, <1>5

\* Encoding and decoding.  A picture is pasted from the image that has been encoded,
\* and a solid area filled with its colour.
IsPicture(pic) ==
  /\ pic = [w |-> pic.w, h |-> pic.h, at |-> pic.at] /\ pic.w \in Nat /\ pic.h \in Nat
  /\ pic.at = [p \in Pixels(Whole(pic)) |-> pic.at[p]]

\* The palettes that an encoding is used with.
PaletteSize(e, im, m) == m \in Nat /\ (m <= maxPaletteSize(e) \/ Len(Analyse(im, m)) \in {0, 1})

Faithful(e) ==
  /\ \A im, pic, r, m : \A improved \in BOOLEAN :
       IsPicture(im) /\ im.w # 0 /\ im.h # 0 /\ IsPicture(pic) /\ PaletteSize(e, im, m)
         /\ r \in Rectangle /\ Width(r) = im.w /\ Height(r) = im.h =>
       Decode(e, pic, r, Encode(e, im, Analyse(im, m), improved)) = Paste(pic, r, im)
  /\ \A pic, r, c :
       IsPicture(pic) /\ r \in Rectangle /\ r.x1 <= r.x2 /\ r.y1 <= r.y2 =>
       Decode(e, pic, r, EncodeSolid(e, Width(r), Height(r), c)) = Fill(pic, r, c)

Codecs == {"Raw", "RRE", "Hextile", "ZRLE", "Tight"}

\* The framebuffer and the client's view of it, while updates are written and read.
SceneOK == screen.w \in Nat /\ screen.h \in Nat /\ scene.improved \in BOOLEAN
New == [p \in Frame |-> scene.convert[screen.at[p]]]

LEMMA ShotIsPicture ==
  ASSUME SceneOK, NEW f
  PROVE  IsPicture(Shot(f))
<1> DEFINE at == [p \in Frame |-> f[p]]
           pic == Shot(f)
<1>1. pic = [w |-> screen.w, h |-> screen.h, at |-> at]
  BY DEF Shot
<1>2. Whole(pic) = Whole(screen)
  BY DEF Shot, Whole
<1>3. at = [p \in Frame |-> at[p]]
  OBVIOUS
<1> HIDE DEF at, pic
<1>4. IsPicture(pic)
  BY <1>1, <1>2, <1>3 DEF IsPicture, SceneOK, Frame
<1> QED
  BY <1>4 DEF pic

LEMMA ShortLists ==
  /\ FirstOf(<<"ZRLE", "Tight", "Hextile">>) \in Codecs
  /\ FirstOf(<<"Tight", "RRE", "ZRLE", "Hextile">>) \in Codecs
<1>1. ASSUME NEW list, IsList(list), \A k \in 1 .. Len(list) : list[k] \in Codecs
      PROVE  FirstOf(list) \in Codecs
  <2> DEFINE able == {k \in DOMAIN list : list[k] \in cp.encodings}
  <2>1. Len(list) \in Nat /\ DOMAIN list = 1 .. Len(list)
    BY <1>1, ListIs
  <2>2. FirstOf(list) = IF able = {} THEN "Raw" ELSE list[Min(able)]
    BY DEF FirstOf
  <2>3. able \in SUBSET Int /\ able \subseteq 1 .. Len(list) /\ \A k \in able : 1 <= k
    BY <2>1
  <2> HIDE DEF able
  <2>4. able # {} => Min(able) \in able
    BY <2>3, LeastAbove
  <2> QED
    BY <1>1, <2>2, <2>3, <2>4 DEF Codecs
<1> DEFINE a == <<"ZRLE", "Tight", "Hextile">>
           b == <<"Tight", "RRE", "ZRLE", "Hextile">>
<1>2. a \in Seq(Codecs) /\ b \in Seq(Codecs)
  BY DEF Codecs
<1> HIDE DEF a, b
<1>3. /\ IsList(a) /\ \A k \in 1 .. Len(a) : a[k] \in Codecs
      /\ IsList(b) /\ \A k \in 1 .. Len(b) : b[k] \in Codecs
  BY <1>2 DEF IsList
<1>4. FirstOf(a) \in Codecs /\ FirstOf(b) \in Codecs
  BY <1>1, <1>3
<1> QED
  BY <1>4 DEF a, b

Types == {"solid", "fullColour", "bitmap", "bitmapRLE", "indexed", "indexedRLE"}

LEMMA EncodersAre ==
  /\ \A t \in Types : activeEncoders[t] \in Codecs
  /\ activeEncoders.bitmap = activeEncoders.indexed
  /\ activeEncoders.bitmapRLE = activeEncoders.indexedRLE
<1> DEFINE a == FirstOf(<<"ZRLE", "Tight", "Hextile">>)
           b == FirstOf(<<"Tight", "RRE", "ZRLE", "Hextile">>)
           full == IF cp.preferred \in {"Hextile", "Tight", "ZRLE"} THEN cp.preferred ELSE a
           indexed == IF cp.preferred \in {"Tight", "ZRLE"} THEN cp.preferred ELSE a
           rle == IF cp.preferred \in {"RRE", "Hextile", "Tight", "ZRLE"} THEN cp.preferred ELSE indexed
<1>1. a \in Codecs /\ b \in Codecs
  BY ShortLists
<1>2. activeEncoders = [solid |-> b, fullColour |-> full, bitmap |-> indexed,
                        indexed |-> indexed, bitmapRLE |-> rle, indexedRLE |-> rle]
  BY DEF activeEncoders, Preferred
<1> HIDE DEF a, b
<1>3. full \in Codecs /\ indexed \in Codecs /\ rle \in Codecs
  BY <1>1 DEF Codecs
<1> HIDE DEF full, indexed, rle
<1> QED
  BY <1>1, <1>2, <1>3 DEF Types

\* The palette of a rectangle fits the encoding that is chosen for it.
LEMMA PaletteFits ==
  ASSUME NEW r \in Rectangle, Nonempty(r), NEW im
  PROVE  LET t == EncoderType(im, Analyse(im, MaxColors(r)))
         IN t \in Types /\ PaletteSize(activeEncoders[t], im, MaxColors(r))
<1> DEFINE m == MaxColors(r)
           d == {2, Area(r) \div Divisor}
           a == Max(d)
           b == maxPaletteSize(activeEncoders.indexed)
           c == maxPaletteSize(activeEncoders.indexedRLE)
<1>1. m = Min({a, b, c})
  BY DEF MaxColors
<1>2. a \in Nat
  <2>1. Area(r) \in Nat
    <3>1. Width(r) \in Nat /\ Height(r) \in Nat
      BY DEF Rectangle, Nonempty, Width, Height
    <3> QED
      BY <3>1 DEF Area
  <2>2. Divisor \in Nat /\ Divisor # 0
    BY SplitAssumption
  <2>3. Area(r) \div Divisor \in Nat
    BY <2>1, <2>2
  <2>4. d \in SUBSET Nat /\ IsFiniteSet(d) /\ d # {}
    <3> DEFINE q == Area(r) \div Divisor
    <3>1. IsFiniteSet({2} \cup {q})
      BY FS_Singleton, FS_Union
    <3>2. d = {2} \cup {q}
      OBVIOUS
    <3> QED
      BY <2>3, <3>1, <3>2
  <2> HIDE DEF d
  <2>5. Max(d) \in d
    BY <2>4, GreatestIs
  <2> QED
    BY <2>4, <2>5
<1>3. b \in Nat /\ c \in Nat
  BY SplitAssumption DEF maxPaletteSize
<1> HIDE DEF a, b, c
<1> DEFINE S == {a, b, c}
<1>4. S \in SUBSET Int /\ S # {} /\ (\A x \in S : 0 <= x) /\ b \in S /\ c \in S /\ S \subseteq Nat
  BY <1>2, <1>3
<1> HIDE DEF S
<1>5. Min(S) \in S /\ \A x \in S : Min(S) <= x
  BY <1>4, LeastAbove
<1>6. m \in Nat /\ m <= b /\ m <= c
  BY <1>1, <1>4, <1>5 DEF S
<1> HIDE DEF m
<1> DEFINE palette == Analyse(im, m)
           t == EncoderType(im, palette)
<1>7. \/ Len(palette) = 0 /\ t = "fullColour"
      \/ Len(palette) = 1 /\ t = "solid"
      \/ t \in {"bitmapRLE", "bitmap", "indexedRLE", "indexed"}
  BY DEF EncoderType
<1> HIDE DEF palette, t
<1>8. t \in Types
  BY <1>7 DEF Types
<1>9. CASE Len(palette) \in {0, 1}
  BY <1>6, <1>8, <1>9 DEF PaletteSize, palette, t, m
<1>10. CASE t \in {"bitmap", "indexed"}
  <2>1. maxPaletteSize(activeEncoders[t]) = b
    BY <1>10, EncodersAre DEF b
  <2>2. PaletteSize(activeEncoders[t], im, m)
    BY <1>6, <2>1 DEF PaletteSize
  <2> QED
    BY <1>8, <2>2 DEF palette, t, m
<1>11. CASE t \in {"bitmapRLE", "indexedRLE"}
  <2>1. maxPaletteSize(activeEncoders[t]) = c
    BY <1>11, EncodersAre DEF c
  <2>2. PaletteSize(activeEncoders[t], im, m)
    BY <1>6, <2>1 DEF PaletteSize
  <2> QED
    BY <1>8, <2>2 DEF palette, t, m
<1> QED
  BY <1>7, <1>9, <1>10, <1>11

\* What is cut out of a picture and converted, with its own coordinates.
LEMMA ConvertedCut ==
  ASSUME NEW r \in Rectangle, Nonempty(r), NEW pict
  PROVE  LET im == Converted(Cut(pict, r))
         IN /\ IsPicture(im) /\ im.w # 0 /\ im.h # 0
            /\ im.w = Width(r) /\ im.h = Height(r)
            /\ \A p \in Pixels(r) :
                 im.at[Shift(p, <<-r.x1, -r.y1>>)] = scene.convert[pict.at[p]]
<1> DEFINE w == Width(r)
           h == Height(r)
           B == Pixels(Box(0, 0, w, h))
           d == <<r.x1, r.y1>>
           cut == [p \in B |-> pict.at[Shift(p, d)]]
           at == [p \in B |-> scene.convert[cut[p]]]
           im == Converted(Cut(pict, r))
<1>1. im = [w |-> w, h |-> h, at |-> at]
  BY DEF Converted, Cut, Image
<1>2. w \in Nat /\ h \in Nat /\ w # 0 /\ h # 0
  BY DEF Rectangle, Nonempty, Width, Height
<1>3. \A p \in B : at[p] = scene.convert[pict.at[Shift(p, d)]]
  OBVIOUS
<1>4. at = [p \in B |-> at[p]]
  OBVIOUS
<1>5. ASSUME NEW p \in Pixels(r)
      PROVE  Shift(p, <<-r.x1, -r.y1>>) \in B /\ Shift(Shift(p, <<-r.x1, -r.y1>>), d) = p
  <2>1. /\ p = <<p[1], p[2]>> /\ p[1] \in Int /\ p[2] \in Int
        /\ r.x1 <= p[1] /\ p[1] < r.x2 /\ r.y1 <= p[2] /\ p[2] < r.y2
        /\ r.x1 \in Int /\ r.y1 \in Int /\ r.x2 \in Int /\ r.y2 \in Int
    BY DEF Pixels, Rectangle
  <2> DEFINE q == <<p[1] - r.x1, p[2] - r.y1>>
  <2>2. Shift(p, <<-r.x1, -r.y1>>) = q
    BY <2>1 DEF Shift
  <2>3. q \in B
    BY <2>1 DEF Pixels, Box, Width, Height
  <2>4. Shift(q, d) = <<p[1], p[2]>>
    BY <2>1 DEF Shift
  <2> HIDE DEF q
  <2> QED
    BY <2>1, <2>2, <2>3, <2>4
<1> HIDE DEF at, B, im, d
<1>6. \A p \in Pixels(r) : at[Shift(p, <<-r.x1, -r.y1>>)] = scene.convert[pict.at[p]]
  BY <1>3, <1>5
<1>7. Pixels(Whole(im)) = B
  BY <1>1 DEF Whole, B
<1> HIDE DEF w, h
<1>8. IsPicture(im)
  BY <1>1, <1>2, <1>4, <1>7 DEF IsPicture
<1> QED
  BY <1>1, <1>2, <1>6, <1>8 DEF im, w, h

\* A rectangle of data puts the pixels there that it has been made of.
LEMMA SubRectPuts ==
  ASSUME SceneOK, \A e \in Codecs : Faithful(e), NEW r \in Rectangle, Nonempty(r), NEW pict,
         NEW g, \A p \in Frame : p \in Pixels(r) => g[p] = scene.convert[pict.at[p]]
  PROVE  Puts(SubRect(r, pict), Pixels(r), g)
<1> DEFINE im == Converted(Cut(pict, r))
           m == MaxColors(r)
           palette == Analyse(im, m)
           e == activeEncoders[EncoderType(im, palette)]
           data == Encode(e, im, palette, scene.improved)
           item == SubRect(r, pict)
<1>1. item = [kind |-> "data", r |-> r, encoding |-> e, data |-> data]
  BY DEF SubRect, DataRect
<1>2. /\ IsPicture(im) /\ im.w # 0 /\ im.h # 0 /\ im.w = Width(r) /\ im.h = Height(r)
      /\ \A p \in Pixels(r) : im.at[Shift(p, <<-r.x1, -r.y1>>)] = scene.convert[pict.at[p]]
  BY ConvertedCut
<1> HIDE DEF im
<1>3. e \in Codecs /\ PaletteSize(e, im, m)
  BY PaletteFits, EncodersAre
<1> HIDE DEF m, e
<1> SUFFICES ASSUME NEW f
             PROVE  Applied(Shot(f), item) = Shot(Over(f, Pixels(r), g))
  BY DEF Puts
<1>4. IsPicture(Shot(f)) /\ scene.improved \in BOOLEAN
  BY ShotIsPicture DEF SceneOK
<1> DEFINE improved == scene.improved
           pic == Shot(f)
<1>5. Decode(e, pic, r, data) = Paste(pic, r, im)
  <2>1. data = Encode(e, im, Analyse(im, m), improved)
    OBVIOUS
  <2> HIDE DEF data, improved, pic
  <2>2. Faithful(e)
    BY <1>3
  <2>3. IsPicture(pic) /\ improved \in BOOLEAN
    BY <1>4 DEF pic, improved
  <2> QED
    BY <1>2, <1>3, <2>1, <2>2, <2>3, Zenon DEF Faithful
<1> HIDE DEF data, item
<1>6. Applied(Shot(f), item) = Decode(e, Shot(f), r, data)
  BY <1>1 DEF Applied
<1>7. Paste(Shot(f), r, im) = Shot(Over(f, Pixels(r), g))
  <2>1. \A p \in Frame : p \in Pixels(r) => im.at[Shift(p, <<-r.x1, -r.y1>>)] = g[p]
    BY <1>2
  <2> QED
    BY <2>1, PasteIs
<1> QED
  BY <1>5, <1>6, <1>7

\* A solid area puts the pixels of the framebuffer there.
SolidItem(r) ==
  DataRect(r, activeEncoders.solid,
           EncodeSolid(activeEncoders.solid, Width(r), Height(r),
                       scene.convert[screen.at[<<r.x1, r.y1>>]]))

LEMMA SolidPuts ==
  ASSUME SceneOK, \A e \in Codecs : Faithful(e), NEW r, OneColor(r)
  PROVE  Puts(SolidItem(r), Pixels(r), New)
<1> DEFINE e == activeEncoders.solid
           c == scene.convert[screen.at[<<r.x1, r.y1>>]]
           data == EncodeSolid(e, Width(r), Height(r), c)
           item == SolidItem(r)
<1>1. item = [kind |-> "data", r |-> r, encoding |-> e, data |-> data]
  BY DEF SolidItem, DataRect
<1>2. e \in Codecs
  BY EncodersAre DEF Types
<1>3. r \in Rectangle /\ r.x1 <= r.x2 /\ r.y1 <= r.y2
  BY DEF OneColor
<1>4. \A p \in Frame : p \in Pixels(r) => New[p] = c
  BY DEF OneColor, Solid, New
<1> HIDE DEF e, c
<1> SUFFICES ASSUME NEW f
             PROVE  Applied(Shot(f), item) = Shot(Over(f, Pixels(r), New))
  BY DEF Puts
<1>5. IsPicture(Shot(f))
  BY ShotIsPicture
<1>6. Decode(e, Shot(f), r, data) = Fill(Shot(f), r, c)
  BY <1>2, <1>3, <1>5 DEF Faithful
<1> HIDE DEF data, item
<1>7. Applied(Shot(f), item) = Decode(e, Shot(f), r, data)
  BY <1>1 DEF Applied
<1>8. Fill(Shot(f), r, c) = Shot(Over(f, Pixels(r), New))
  BY <1>4, FillIs
<1> QED
  BY <1>6, <1>7, <1>8

\* A strict order of the elements of S, as the pairs it relates.
IsOrder(S, B) ==
  /\ \A s \in S : <<s, s>> \notin B
  /\ \A q, r, s \in S : <<q, r>> \in B /\ <<r, s>> \in B => <<q, s>> \in B
  /\ \A r, s \in S : r = s \/ <<r, s>> \in B \/ <<s, r>> \in B

\* Those that come before s.
Below(S, B, s) == {r \in S : <<r, s>> \in B}

LEMMA MoreBelow ==
  ASSUME NEW S, IsFiniteSet(S), NEW B, IsOrder(S, B), NEW s \in S, NEW t \in S, <<s, t>> \in B
  PROVE  /\ Cardinality(Below(S, B, s)) \in Nat /\ Cardinality(Below(S, B, t)) \in Nat
         /\ Cardinality(Below(S, B, s)) < Cardinality(Below(S, B, t))
<1> DEFINE a == Below(S, B, s)
           b == Below(S, B, t)
<1>1. a \in SUBSET b
  BY DEF IsOrder, Below
<1>2. s \in b /\ s \notin a
  BY DEF IsOrder, Below
<1>3. IsFiniteSet(b) /\ IsFiniteSet(a) /\ a # b
  <2>1. a \in SUBSET S /\ b \in SUBSET S
    BY DEF Below
  <2> QED
    BY <1>2, <2>1, FS_Subset
<1> HIDE DEF a, b
<1>4. Cardinality(a) <= Cardinality(b) /\ Cardinality(a) # Cardinality(b)
  BY <1>1, <1>3, FS_Subset
<1>5. Cardinality(a) \in Nat /\ Cardinality(b) \in Nat
  BY <1>3, FS_CardinalityType
<1>6. Cardinality(a) < Cardinality(b)
  BY <1>4, <1>5
<1> QED
  BY <1>5, <1>6 DEF a, b

\* The number of those before it is another one for each, and less than all.
LEMMA PlacesApart ==
  ASSUME NEW S, IsFiniteSet(S), NEW B, IsOrder(S, B)
  PROVE  LET n == Cardinality(S)
             place == [s \in S |-> Cardinality(Below(S, B, s)) + 1]
         IN n \in Nat /\ place \in Injection(S, 1 .. n) /\ place \in Surjection(S, 1 .. n)
<1> DEFINE n == Cardinality(S)
           c == [s \in S |-> Cardinality(Below(S, B, s))]
           place == [s \in S |-> Cardinality(Below(S, B, s)) + 1]
<1>1. n \in Nat
  BY FS_CardinalityType
<1>2. ASSUME NEW s \in S
      PROVE  c[s] \in Nat /\ c[s] <= n - 1
  <2> DEFINE a == Below(S, B, s)
             T == S \ {s}
  <2>1. a \in SUBSET T
    BY DEF Below, IsOrder
  <2>2. IsFiniteSet(T) /\ Cardinality(T) = n - 1
    BY FS_RemoveElement
  <2>3. c[s] = Cardinality(a)
    OBVIOUS
  <2> HIDE DEF a, c, n, T
  <2>4. Cardinality(a) <= n - 1 /\ IsFiniteSet(a)
    BY <2>1, <2>2, FS_Subset
  <2> QED
    BY <2>3, <2>4, FS_CardinalityType
<1>3. ASSUME NEW s \in S, NEW t \in S, <<s, t>> \in B
      PROVE  c[s] # c[t]
  <2>1. /\ Cardinality(Below(S, B, s)) \in Nat /\ Cardinality(Below(S, B, t)) \in Nat
        /\ Cardinality(Below(S, B, s)) < Cardinality(Below(S, B, t))
    BY <1>3, MoreBelow
  <2> QED
    BY <2>1
<1>4. \A s \in S : place[s] = c[s] + 1
  OBVIOUS
<1>5. place = [s \in S |-> place[s]]
  OBVIOUS
<1> HIDE DEF place, c
<1>6. \A s \in S : place[s] \in 1 .. n
  <2> HIDE DEF n
  <2> QED
    BY <1>1, <1>2, <1>4
<1>7. ASSUME NEW s \in S, NEW t \in S, s # t
      PROVE  place[s] # place[t]
  <2>1. <<s, t>> \in B \/ <<t, s>> \in B
    BY <1>7 DEF IsOrder
  <2>2. c[s] # c[t]
    BY <1>3, <2>1
  <2> QED
    BY <1>2, <1>4, <2>2
<1>8. place \in Injection(S, 1 .. n)
  <2>1. place \in [S -> 1 .. n]
    BY <1>5, <1>6
  <2> QED
    BY <1>7, <2>1 DEF Injection, IsInjective
<1>9. IsFiniteSet(1 .. n) /\ Cardinality(1 .. n) = n
  <2> HIDE DEF n
  <2> QED
    BY <1>1, FS_Interval
<1>10. place \in Surjection(S, 1 .. n)
  <2> DEFINE T == 1 .. n
  <2>1. place \in Injection(S, T) /\ IsFiniteSet(T) /\ Cardinality(T) = Cardinality(S)
    BY <1>8, <1>9
  <2> HIDE DEF n, T
  <2>2. place \in Surjection(S, T)
    BY <2>1, FS_Injection
  <2> QED
    BY <2>2 DEF T
<1> QED
  BY <1>1, <1>8, <1>10 DEF place, c

\* So the sequence in that order has each element once, the first one first.
Ordered(rs, S, B) ==
  /\ IsList(rs) /\ Len(rs) = Cardinality(S)
  /\ \A k \in 1 .. Len(rs) : rs[k] \in S
  /\ \A s \in S : \E k \in 1 .. Len(rs) : rs[k] = s
  /\ \A j, k \in 1 .. Len(rs) : j < k => <<rs[j], rs[k]>> \in B

LEMMA PlacesTaken ==
  ASSUME NEW S, IsFiniteSet(S), NEW B, IsOrder(S, B), NEW k \in 1 .. Cardinality(S)
  PROVE  \E s \in S : Cardinality(Below(S, B, s)) = k - 1
<1> DEFINE n == Cardinality(S)
           place == [s \in S |-> Cardinality(Below(S, B, s)) + 1]
<1>1. n \in Nat /\ place \in Surjection(S, 1 .. n)
  BY PlacesApart
<1>2. \A s \in S : place[s] = Cardinality(Below(S, B, s)) + 1
  OBVIOUS
<1>3. \A s \in S : Cardinality(Below(S, B, s)) \in Nat
  BY FS_Subset, FS_CardinalityType DEF Below
<1>4. k \in 1 .. n
  OBVIOUS
<1> HIDE DEF place, n
<1>5. PICK s \in S : place[s] = k
  BY <1>1, <1>4 DEF Surjection
<1>6. Cardinality(Below(S, B, s)) + 1 = k /\ Cardinality(Below(S, B, s)) \in Nat
  BY <1>2, <1>3, <1>5
<1>7. Cardinality(Below(S, B, s)) = k - 1
  BY <1>6
<1> QED
  BY <1>7

LEMMA OrderedIs ==
  ASSUME NEW S, IsFiniteSet(S), NEW B, IsOrder(S, B), NEW rs,
         rs = [k \in 1 .. Cardinality(S) |-> rs[k]],
         \A k \in 1 .. Cardinality(S) :
            rs[k] \in S /\ Cardinality(Below(S, B, rs[k])) = k - 1
  PROVE  Ordered(rs, S, B)
<1> DEFINE n == Cardinality(S)
           place == [s \in S |-> Cardinality(Below(S, B, s)) + 1]
<1>1. n \in Nat /\ place \in Injection(S, 1 .. n)
  BY PlacesApart
<1>2. \A s \in S : place[s] = Cardinality(Below(S, B, s)) + 1
  OBVIOUS
<1>6. \A k \in 1 .. n : rs[k] \in S /\ Cardinality(Below(S, B, rs[k])) = k - 1
  OBVIOUS
<1>7. rs = [k \in 1 .. n |-> rs[k]]
  OBVIOUS
<1> HIDE DEF place, n
<1>8. IsList(rs) /\ Len(rs) = n
  BY <1>1, <1>7, ListOf
<1>9. \A k \in 1 .. n : place[rs[k]] = k
  <2> SUFFICES ASSUME NEW k \in 1 .. n
               PROVE  place[rs[k]] = k
    OBVIOUS
  <2>1. rs[k] \in S /\ Cardinality(Below(S, B, rs[k])) = k - 1 /\ k \in Int
    BY <1>1, <1>6
  <2>2. place[rs[k]] = (k - 1) + 1
    BY <1>2, <2>1
  <2> QED
    BY <2>1, <2>2
<1>10. ASSUME NEW s \in S
       PROVE  \E k \in 1 .. n : rs[k] = s
  <2>1. place[s] \in 1 .. n
    BY <1>1 DEF Injection
  <2>2. place[rs[place[s]]] = place[s] /\ rs[place[s]] \in S
    BY <1>6, <1>9, <2>1
  <2>3. rs[place[s]] = s
    BY <1>1, <2>2 DEF Injection, IsInjective
  <2> QED
    BY <2>1, <2>3
<1>11. ASSUME NEW j \in 1 .. n, NEW k \in 1 .. n, j < k
       PROVE  <<rs[j], rs[k]>> \in B
  <2>4. /\ rs[j] \in S /\ Cardinality(Below(S, B, rs[j])) = j - 1
        /\ rs[k] \in S /\ Cardinality(Below(S, B, rs[k])) = k - 1
    BY <1>6
  <2>5. j \in Int /\ k \in Int
    BY <1>1
  <2>1. /\ rs[j] \in S /\ rs[k] \in S /\ j \in Int /\ k \in Int
        /\ Cardinality(Below(S, B, rs[j])) = j - 1
        /\ Cardinality(Below(S, B, rs[k])) = k - 1
    BY <2>4, <2>5
  <2>2. rs[j] # rs[k]
    BY <1>11, <2>1
  <2>3. ~ (<<rs[k], rs[j]>> \in B)
    <3> SUFFICES ASSUME <<rs[k], rs[j]>> \in B
                 PROVE  FALSE
      OBVIOUS
    <3>1. Cardinality(Below(S, B, rs[k])) < Cardinality(Below(S, B, rs[j]))
      BY <2>1, MoreBelow
    <3> QED
      BY <1>11, <2>1, <3>1
  <2> QED
    BY <2>1, <2>2, <2>3 DEF IsOrder
<1> QED
  BY <1>6, <1>8, <1>10, <1>11 DEF Ordered, n

\* The order of get_rects: the bands from top to bottom or the reverse, those of a band
\* from left to right or the reverse.
Direction(S, right, down) ==
  {e \in S \X S : IF e[1].y1 # e[2].y1 THEN down <=> e[1].y1 < e[2].y1
                  ELSE e[1] # e[2] /\ (right <=> e[1].x1 < e[2].x1)}

LEMMA DirectionIs ==
  ASSUME NEW S, NEW a, NEW b, NEW r \in S, NEW s \in S
  PROVE  <<r, s>> \in Direction(S, a, b) <=>
           IF r.y1 # s.y1 THEN b <=> r.y1 < s.y1 ELSE r # s /\ (a <=> r.x1 < s.x1)
BY DEF Direction

\* Two rectangles of a region are above or beside each other.
LEMMA BandsApart ==
  ASSUME NEW R, NEW r, NEW s, InBands(R, r), InBands(R, s)
  PROVE  /\ r.x1 \in Int /\ r.y1 \in Int /\ s.x1 \in Int /\ s.y1 \in Int
         /\ r.y1 = s.y1 /\ r.x1 = s.x1 => r = s
         /\ r.y1 < s.y1 => r.y2 <= s.y1
         /\ r.y1 = s.y1 /\ r.x1 < s.x1 => r.x2 <= s.x1
<1>1. /\ r.x1 \in Int /\ r.y1 \in Int /\ r.x2 \in Int /\ r.y2 \in Int
      /\ s.x1 \in Int /\ s.y1 \in Int /\ s.x2 \in Int /\ s.y2 \in Int
      /\ r.x1 < r.x2 /\ r.y1 < r.y2 /\ s.x1 < s.x2 /\ s.y1 < s.y2
  BY DEF InBands, Rectangle, Nonempty
<1>2. r = s \/ Precedes(r, s) \/ Precedes(s, r)
  BY BandsOrdered
<1> QED
  BY <1>1, <1>2 DEF Precedes

LEMMA DirectionOrders ==
  ASSUME NEW R, NEW S, \A s \in S : InBands(R, s), NEW a \in BOOLEAN, NEW b \in BOOLEAN
  PROVE  IsOrder(S, Direction(S, a, b))
<1> DEFINE B == Direction(S, a, b)
           Earlier(r, s) == IF r.y1 # s.y1 THEN b <=> r.y1 < s.y1
                            ELSE r # s /\ (a <=> r.x1 < s.x1)
<1>1. \A r, s \in S : <<r, s>> \in B <=> Earlier(r, s)
  <2> SUFFICES ASSUME NEW r \in S, NEW s \in S
               PROVE  <<r, s>> \in Direction(S, a, b) <=>
                        IF r.y1 # s.y1 THEN b <=> r.y1 < s.y1 ELSE r # s /\ (a <=> r.x1 < s.x1)
    OBVIOUS
  <2> QED
    BY DirectionIs
<1>2. \A r, s \in S : /\ r.x1 \in Int /\ r.y1 \in Int /\ s.x1 \in Int /\ s.y1 \in Int
                      /\ r.y1 = s.y1 /\ r.x1 = s.x1 => r = s
  BY BandsApart
<1> HIDE DEF B
<1>3. \A s \in S : ~ Earlier(s, s)
  OBVIOUS
<1>4. ASSUME NEW q \in S, NEW r \in S, NEW s \in S, Earlier(q, r), Earlier(r, s)
      PROVE  Earlier(q, s)
  <2>1. q.y1 \in Int /\ r.y1 \in Int /\ s.y1 \in Int /\ q.x1 \in Int /\ r.x1 \in Int /\ s.x1 \in Int
    BY <1>2
  <2>2. (q.y1 = r.y1 /\ q.x1 = r.x1 => q = r) /\ (r.y1 = s.y1 /\ r.x1 = s.x1 => r = s)
    BY <1>2
  <2>3. CASE q.y1 # r.y1 \/ r.y1 # s.y1
    BY <1>4, <2>1, <2>3
  <2>4. CASE q.y1 = r.y1 /\ r.y1 = s.y1
    <3>1. q.x1 # r.x1 /\ r.x1 # s.x1
      BY <1>4, <2>2, <2>4
    <3>2. q.x1 # s.x1
      BY <1>4, <2>1, <2>4, <3>1
    <3> QED
      BY <1>4, <2>1, <2>4, <3>1, <3>2
  <2> QED
    BY <2>3, <2>4
<1>5. \A r, s \in S : r = s \/ Earlier(r, s) \/ Earlier(s, r)
  <2> SUFFICES ASSUME NEW r \in S, NEW s \in S, r # s
               PROVE  Earlier(r, s) \/ Earlier(s, r)
    OBVIOUS
  <2>1. /\ r.x1 \in Int /\ r.y1 \in Int /\ s.x1 \in Int /\ s.y1 \in Int
        /\ ~ (r.y1 = s.y1 /\ r.x1 = s.x1)
    BY <1>2
  <2> QED
    BY <2>1
<1> HIDE DEF Earlier
<1> QED
  BY <1>1, <1>3, <1>4, <1>5 DEF IsOrder, B

LEMMA GetRectsOrdered ==
  ASSUME NEW R \in SUBSET Point, IsFiniteSet(R), NEW a \in BOOLEAN, NEW b \in BOOLEAN
  PROVE  Ordered(get_rects(R, a, b), BandRectangles(R), Direction(BandRectangles(R), a, b))
<1> DEFINE S == BandRectangles(R)
           B == Direction(S, a, b)
           Earlier(r, s) == IF r.y1 # s.y1 THEN b <=> r.y1 < s.y1
                            ELSE r # s /\ (a <=> r.x1 < s.x1)
           Low(s) == {r \in S : Earlier(r, s)}
           At(k, s) == Cardinality(Low(s)) = k - 1
           got == get_rects(R, a, b)
<1>1. IsFiniteSet(S) /\ \A s \in S : InBands(R, s)
  BY FiniteBands, InBandsAre
<1>2. IsOrder(S, B)
  BY <1>1, DirectionOrders
<1>3. got = [k \in 1 .. Cardinality(S) |-> CHOOSE s \in S : At(k, s)]
  BY Zenon DEF get_rects, InOrder
<1>4. \A s \in S : Low(s) = Below(S, B, s)
  <2> SUFFICES ASSUME NEW s \in S
               PROVE  Low(s) = Below(S, B, s)
    OBVIOUS
  <2>1. ASSUME NEW r \in S
        PROVE  <<r, s>> \in B <=> Earlier(r, s)
    <3>1. <<r, s>> \in Direction(S, a, b) <=>
             IF r.y1 # s.y1 THEN b <=> r.y1 < s.y1 ELSE r # s /\ (a <=> r.x1 < s.x1)
      BY DirectionIs
    <3> QED
      BY <3>1
  <2> HIDE DEF B, Earlier
  <2> QED
    BY <2>1 DEF Below
<1> HIDE DEF B, S, Low, got
<1>5. ASSUME NEW k \in 1 .. Cardinality(S)
      PROVE  \E s \in S : At(k, s)
  BY <1>1, <1>2, <1>4, PlacesTaken
<1>6. \A k \in 1 .. Cardinality(S) : got[k] \in S /\ At(k, got[k])
  <2> HIDE DEF At
  <2> QED
    BY <1>3, <1>5
<1>7. \A k \in 1 .. Cardinality(S) :
         got[k] \in S /\ Cardinality(Below(S, B, got[k])) = k - 1
  BY <1>4, <1>6
<1>8. got = [k \in 1 .. Cardinality(S) |-> got[k]]
  BY <1>3
<1>9. Ordered(got, S, B)
  BY <1>1, <1>2, <1>7, <1>8, OrderedIs
<1> QED
  BY <1>9 DEF got, S, B

\* What is copied onto a rectangle is read where the rectangle was.
LEMMA CopyIs ==
  ASSUME NEW r \in Rectangle, NEW d \in Point, NEW f, NEW g,
         \A p \in Frame : p \in Pixels(r) =>
            Shift(p, Negate(d)) \in Frame /\ f[Shift(p, Negate(d))] = g[p]
  PROVE  Paste(Shot(f), r, Cut(Shot(f), MovedBy(r, Negate(d)))) = Shot(Over(f, Pixels(r), g))
<1> DEFINE pic == Shot(f)
           src == MovedBy(r, Negate(d))
           w == Width(src)
           h == Height(src)
           e == <<src.x1, src.y1>>
           B == Pixels(Box(0, 0, w, h))
           at == [p \in B |-> pic.at[Shift(p, e)]]
           part == Cut(pic, src)
<1>1. part = [w |-> w, h |-> h, at |-> at]
  BY DEF Cut, Image
<1>2. /\ r.x1 \in Int /\ r.x2 \in Int /\ r.y1 \in Int /\ r.y2 \in Int
      /\ d[1] \in Int /\ d[2] \in Int
  BY DEF Rectangle, Point
<1>3. /\ src.x1 = r.x1 - d[1] /\ src.x2 = (r.x1 - d[1]) + (r.x2 - r.x1)
      /\ src.y1 = r.y1 - d[2] /\ src.y2 = (r.y1 - d[2]) + (r.y2 - r.y1)
  BY <1>2 DEF MovedBy, Box, Negate, Width, Height
<1>4. w = r.x2 - r.x1 /\ h = r.y2 - r.y1
  <2> HIDE DEF src
  <2> QED
    BY <1>2, <1>3 DEF Width, Height
<1>5. \A p \in B : at[p] = pic.at[Shift(p, e)]
  OBVIOUS
<1>6. \A p \in Frame : pic.at[p] = f[p]
  BY DEF Shot
<1> HIDE DEF at, pic
<1>7. ASSUME NEW p \in Frame, p \in Pixels(r)
      PROVE  part.at[Shift(p, <<-r.x1, -r.y1>>)] = g[p]
  <2>1. /\ p = <<p[1], p[2]>> /\ p[1] \in Int /\ p[2] \in Int
        /\ r.x1 <= p[1] /\ p[1] < r.x2 /\ r.y1 <= p[2] /\ p[2] < r.y2
    BY <1>2, <1>7 DEF Pixels
  <2> DEFINE q == <<p[1] - r.x1, p[2] - r.y1>>
             z == <<p[1] - d[1], p[2] - d[2]>>
  <2>2. Shift(p, <<-r.x1, -r.y1>>) = q
    BY <1>2, <2>1 DEF Shift
  <2>3. q \in B
    <3> HIDE DEF w, h
    <3> QED
      BY <1>2, <1>4, <2>1 DEF Pixels, Box
  <2>4. Shift(q, e) = z
    <3> HIDE DEF src
    <3>1. (p[1] - r.x1) + (r.x1 - d[1]) = p[1] - d[1] /\ (p[2] - r.y1) + (r.y1 - d[2]) = p[2] - d[2]
      BY <1>2, <2>1
    <3> QED
      BY <1>3, <3>1 DEF Shift
  <2>5. Shift(p, Negate(d)) = z
    BY <1>2, <2>1 DEF Shift, Negate
  <2> HIDE DEF q, z, e, B
  <2>6. part.at[q] = pic.at[z]
    BY <1>1, <1>5, <2>3, <2>4
  <2>7. z \in Frame /\ f[z] = g[p]
    BY <1>7, <2>5
  <2> QED
    BY <1>6, <2>2, <2>6, <2>7
<1> HIDE DEF part, src
<1>8. Paste(Shot(f), r, part) = Shot(Over(f, Pixels(r), g))
  BY <1>7, PasteIs
<1> QED
  BY <1>8 DEF part, src, pic

\* In the order of get_rects no rectangle overwrites what a later one is copied from.
LEMMA SourceKept ==
  ASSUME NEW R, NEW r, NEW s, InBands(R, r), InBands(R, s), NEW d \in Point,
         IF r.y1 # s.y1 THEN (d[2] <= 0) <=> (r.y1 < s.y1)
         ELSE r # s /\ ((d[1] <= 0) <=> (r.x1 < s.x1)),
         NEW p \in Pixels(s)
  PROVE  Shift(p, Negate(d)) \notin Pixels(r)
<1>1. /\ r.x1 \in Int /\ r.x2 \in Int /\ r.y1 \in Int /\ r.y2 \in Int
      /\ s.x1 \in Int /\ s.x2 \in Int /\ s.y1 \in Int /\ s.y2 \in Int
      /\ d[1] \in Int /\ d[2] \in Int
  BY DEF InBands, Rectangle, Point
<1>2. /\ p[1] \in Int /\ p[2] \in Int
      /\ s.x1 <= p[1] /\ p[1] < s.x2 /\ s.y1 <= p[2] /\ p[2] < s.y2
  BY <1>1 DEF Pixels
<1> SUFFICES ASSUME Shift(p, Negate(d)) \in Pixels(r)
             PROVE  FALSE
  OBVIOUS
<1>3. /\ r.x1 <= p[1] - d[1] /\ p[1] - d[1] < r.x2
      /\ r.y1 <= p[2] - d[2] /\ p[2] - d[2] < r.y2
  <2> DEFINE z == Shift(p, Negate(d))
  <2>1. z[1] = p[1] - d[1] /\ z[2] = p[2] - d[2]
    BY <1>1, <1>2 DEF Shift, Negate
  <2>2. z \in Pixels(r)
    OBVIOUS
  <2> HIDE DEF z
  <2>3. r.x1 <= z[1] /\ z[1] < r.x2 /\ r.y1 <= z[2] /\ z[2] < r.y2
    BY <1>1, <2>2 DEF Pixels
  <2> QED
    BY <2>1, <2>3
<1>4. /\ r.y1 = s.y1 /\ r.x1 = s.x1 => r = s
      /\ r.y1 < s.y1 => r.y2 <= s.y1
      /\ r.y1 = s.y1 /\ r.x1 < s.x1 => r.x2 <= s.x1
      /\ s.y1 < r.y1 => s.y2 <= r.y1
      /\ s.y1 = r.y1 /\ s.x1 < r.x1 => s.x2 <= r.x1
  BY BandsApart
<1>5. CASE r.y1 # s.y1
  BY <1>1, <1>2, <1>3, <1>4, <1>5
<1>6. CASE r.y1 = s.y1
  BY <1>1, <1>2, <1>3, <1>4, <1>6
<1> QED
  BY <1>5, <1>6

\* So what writeCopyRects writes puts the copied region there, if its source has
\* been right.
LEMMA CopiesPut ==
  ASSUME ui.copied \in SUBSET Point, IsFiniteSet(ui.copied), ui.delta \in Point, NEW f, NEW g,
         \A p \in ui.copied :
            Shift(p, Negate(ui.delta)) \in Frame /\ f[Shift(p, Negate(ui.delta))] = g[p]
  PROVE  Reads(Shot(f), CopiedRects, Shot(Over(f, ui.copied, g)))
<1> DEFINE R == ui.copied
           d == ui.delta
           S == BandRectangles(R)
           a == d[1] <= 0
           b == d[2] <= 0
           B == Direction(S, a, b)
           rs == get_rects(R, a, b)
           n == Len(rs)
           P == [k \in 1 .. n |-> Pixels(rs[k])]
           s == CopiedRects
<1>1. Ordered(rs, S, B) /\ \A r \in S : InBands(R, r)
  <2>1. a \in BOOLEAN /\ b \in BOOLEAN
    OBVIOUS
  <2> HIDE DEF a, b
  <2>2. Ordered(rs, S, B)
    BY <2>1, GetRectsOrdered
  <2> QED
    BY <2>2, InBandsAre
<1>2. /\ IsList(rs) /\ n \in Nat /\ DOMAIN rs = 1 .. n
      /\ \A k \in 1 .. n : rs[k] \in S /\ InBands(R, rs[k])
      /\ \A r \in S : \E k \in 1 .. n : rs[k] = r
      /\ \A j, k \in 1 .. n : j < k => <<rs[j], rs[k]>> \in B
  BY <1>1, ListIs DEF Ordered
<1>3. s = [k \in DOMAIN rs |-> [kind |-> "copy", r |-> rs[k], src |-> MovedBy(rs[k], Negate(d))]]
  BY DEF CopiedRects
<1> HIDE DEF rs, S, s
<1>4. /\ IsList(s) /\ Len(s) = n
      /\ \A k \in 1 .. n : s[k] = [kind |-> "copy", r |-> rs[k],
                                   src |-> MovedBy(rs[k], Negate(d))]
  <2>1. s = [k \in 1 .. n |-> s[k]]
    BY <1>2, <1>3
  <2>2. \A k \in 1 .. n : s[k] = [kind |-> "copy", r |-> rs[k],
                                  src |-> MovedBy(rs[k], Negate(d))]
    BY <1>2, <1>3
  <2> QED
    BY <1>2, <2>1, <2>2, ListOf
<1> HIDE DEF n
<1>5. \A k \in 1 .. n : P[k] = Pixels(rs[k])
  OBVIOUS
<1> HIDE DEF P
<1>6. ASSUME NEW k \in 1 .. n
      PROVE  PutsFrom(s[k], P[k], g, f, UNION {P[j] : j \in 1 .. k - 1})
  <2> DEFINE C == UNION {P[j] : j \in 1 .. k - 1}
             r == rs[k]
  <2>1. r \in Rectangle /\ r \in S /\ InBands(R, r)
    BY <1>2 DEF InBands
  <2>2. s[k].kind = "copy" /\ s[k].r = r /\ s[k].src = MovedBy(r, Negate(d))
    BY <1>4
  <2>3. P[k] = Pixels(r)
    BY <1>5
  <2>4. ASSUME NEW p \in Pixels(r), NEW j \in 1 .. k - 1
        PROVE  Shift(p, Negate(d)) \notin P[j]
    <3>1. j \in 1 .. n /\ j < k
      BY <1>2
    <3>2. rs[j] \in S /\ InBands(R, rs[j]) /\ <<rs[j], rs[k]>> \in B /\ P[j] = Pixels(rs[j])
      BY <1>2, <1>5, <3>1
    <3> DEFINE q == rs[j]
    <3>3. <<q, r>> \in B /\ q \in S /\ InBands(R, q)
      BY <3>2
    <3> HIDE DEF q, r
    <3>4. IF q.y1 # r.y1 THEN (d[2] <= 0) <=> (q.y1 < r.y1)
          ELSE q # r /\ ((d[1] <= 0) <=> (q.x1 < r.x1))
      <4>1. IF q.y1 # r.y1 THEN b <=> (q.y1 < r.y1) ELSE q # r /\ (a <=> (q.x1 < r.x1))
        <5> HIDE DEF a, b
        <5> QED
          BY <2>1, <3>3, DirectionIs
      <4> QED
        BY <4>1
    <3>5. Shift(p, Negate(d)) \notin Pixels(q)
      BY <2>1, <3>3, <3>4, SourceKept
    <3> QED
      BY <3>2, <3>5 DEF q
  <2>5. Pixels(r) \subseteq R
    BY <2>1, BandsInside
  <2> HIDE DEF r
  <2>6. \A p \in Pixels(r) : Shift(p, Negate(d)) \notin C
    BY <2>4
  <2> HIDE DEF C
  <2> SUFFICES ASSUME NEW h, \A p \in Frame : p \notin C => h[p] = f[p]
               PROVE  Applied(Shot(h), s[k]) = Shot(Over(h, P[k], g))
    BY DEF PutsFrom, C
  <2>7. \A p \in Frame : p \in Pixels(r) =>
           Shift(p, Negate(d)) \in Frame /\ h[Shift(p, Negate(d))] = g[p]
    BY <2>5, <2>6
  <2> HIDE DEF d
  <2>8. Paste(Shot(h), r, Cut(Shot(h), MovedBy(r, Negate(d)))) = Shot(Over(h, Pixels(r), g))
    <3>1. d \in Point
      BY DEF d
    <3> QED
      BY <2>1, <2>7, <3>1, CopyIs
  <2>9. Applied(Shot(h), s[k]) = Paste(Shot(h), r, Cut(Shot(h), MovedBy(r, Negate(d))))
    BY <2>2 DEF Applied
  <2> QED
    BY <2>3, <2>8, <2>9
<1>7. \A k \in 1 .. n : P[k] \subseteq R
  BY <1>2, <1>5, BandsInside
<1>8. \A p \in R : \E k \in 1 .. n : p \in P[k]
  <2> SUFFICES ASSUME NEW p \in R
               PROVE  \E k \in 1 .. n : p \in P[k]
    OBVIOUS
  <2>1. PICK r \in S : p \in Pixels(r)
    BY BandsCover DEF S
  <2> QED
    BY <1>2, <1>5, <2>1
<1>9. Reads(Shot(f), s, Shot(Over(f, R, g)))
  <2> HIDE DEF R
  <2> QED
    BY <1>4, <1>6, <1>7, <1>8, ListPutsFrom
<1> QED
  BY <1>9 DEF s

\* The pieces of a rectangle are rectangles, and none is empty.
Proper(s) == \A k \in 1 .. Len(s) : s[k] \in Rectangle /\ Nonempty(s[k])

LEMMA SplitProper ==
  ASSUME NEW r \in Rectangle, Nonempty(r), NEW sw \in Nat, sw # 0, NEW sh \in Nat, sh # 0
  PROVE  Proper(Split(r, sw, sh))
<1> DEFINE s == Split(r, sw, sh)
<1>1. PICK m, n : Loops(r, sw, sh, m, n)
  BY SplitLoops
<1>2. /\ m \in Nat \ {0} /\ n \in Nat \ {0} /\ Len(s) = m * n
      /\ \A a \in Nat : r.x1 + a * sw < r.x2 <=> a < m
      /\ \A d \in Nat : r.y1 + d * sh < r.y2 <=> d < n
      /\ \A k \in 1 .. m * n : \E a \in 0 .. m - 1, d \in 0 .. n - 1 :
            k = d * m + a + 1 /\ s[k] = Piece(r, sw, sh, a, d)
  BY <1>1 DEF Loops
<1> HIDE DEF s
<1>3. ASSUME NEW k \in 1 .. m * n
      PROVE  s[k] \in Rectangle /\ Nonempty(s[k])
  <2>1. PICK a \in 0 .. m - 1, d \in 0 .. n - 1 : s[k] = Piece(r, sw, sh, a, d)
    BY <1>2
  <2>2. a \in Nat /\ d \in Nat /\ a < m /\ d < n
    BY <1>2
  <2>3. r.x1 + a * sw < r.x2 /\ r.y1 + d * sh < r.y2
    BY <1>2, <2>2
  <2>4. s[k] \in Rectangle
    BY <2>1, <2>2, PieceIs
  <2> DEFINE u == a * sw
             v == d * sh
  <2>5. u \in Nat /\ v \in Nat /\ r.x1 + u < r.x2 /\ r.y1 + v < r.y2
    BY <2>2, <2>3, Multiples
  <2>6. s[k] = [x1 |-> r.x1 + u, y1 |-> r.y1 + v,
                x2 |-> Min({r.x1 + u + sw, r.x2}), y2 |-> Min({r.y1 + v + sh, r.y2})]
    BY <2>1 DEF Piece
  <2> HIDE DEF u, v
  <2>7. r.x1 \in Int /\ r.x2 \in Int /\ r.y1 \in Int /\ r.y2 \in Int
    BY DEF Rectangle
  <2>8. /\ Min({r.x1 + u + sw, r.x2}) = IF r.x1 + u + sw <= r.x2 THEN r.x1 + u + sw ELSE r.x2
        /\ Min({r.y1 + v + sh, r.y2}) = IF r.y1 + v + sh <= r.y2 THEN r.y1 + v + sh ELSE r.y2
    BY <2>5, <2>7, MinOfTwo
  <2>9. s[k].x1 < s[k].x2 /\ s[k].y1 < s[k].y2
    BY <2>5, <2>6, <2>7, <2>8
  <2> QED
    BY <2>4, <2>9 DEF Nonempty
<1> QED
  BY <1>2, <1>3 DEF Proper, s

LEMMA SubRectsProper ==
  ASSUME NEW r \in Rectangle, Nonempty(r)
  PROVE  Proper(SubRects(r))
<1> DEFINE sw == Min({Width(r), SubRectMaxWidth})
           sh == SubRectMaxArea \div sw
<1>1. SubRects(r) = IF NoSplit(r) THEN <<r>> ELSE Split(r, sw, sh)
  BY DEF SubRects
<1>2. sw \in Nat /\ sw # 0 /\ sh \in Nat /\ sh # 0
  BY StepSizes
<1> HIDE DEF sw, sh
<1>3. Proper(Split(r, sw, sh))
  BY <1>2, SplitProper
<1>4. Proper(<<r>>)
  BY OneList DEF Proper
<1> QED
  BY <1>1, <1>3, <1>4

\* Every element of what FlattenSeq returns is from one of the sequences.
LEMMA FlattenFrom ==
  ASSUME NEW seqs, IsList(seqs), \A m \in 1 .. Len(seqs) : IsList(seqs[m])
  PROVE  \A k \in 1 .. Len(FlattenSeq(seqs)) : From(seqs, FlattenSeq(seqs)[k])
<1> DEFINE n == Len(seqs)
           num == [k \in 1 .. n |-> Len(seqs[k])]
<1>1. n \in Nat
  BY ListIs
<1>2. \A k \in 0 .. n : k # 0 => num[k] = Len(seqs[k])
  BY <1>1
<1> HIDE DEF num
<1>3. PICK sums : sums = [k \in 0 .. n |-> IF k = 0 THEN 0 ELSE sums[k - 1] + num[k]]
  BY <1>1, SumsExist
<1>4. sums = [k \in 0 .. n |-> IF k = 0 THEN 0 ELSE sums[k - 1] + Len(seqs[k])]
  BY <1>2, <1>3
<1> QED
  BY <1>4, FlattenList

\* What is sent for a region: each of the pieces that tile it, and none is empty.
LEMMA RectsAre ==
  ASSUME NEW R \in SUBSET Point, IsFiniteSet(R)
  PROVE  \E pieces : /\ Tiles(pieces, R) /\ Proper(pieces)
                     /\ IsList(Rects(R)) /\ Len(Rects(R)) = Len(pieces)
                     /\ \A k \in 1 .. Len(pieces) : Rects(R)[k] = SubRect(pieces[k], screen)
<1> DEFINE items == RectanglesOf(R)
           n == Len(items)
           seqs == [k \in DOMAIN items |-> SubRects(items[k])]
           pieces == FlattenSeq(seqs)
           A == [k \in 1 .. n |-> Pixels(items[k])]
<1>1. /\ n \in Nat /\ DOMAIN items = 1 .. n
      /\ \A k \in 1 .. n : items[k] \in Rectangle /\ Nonempty(items[k])
      /\ \A k \in 1 .. n : Pixels(items[k]) \subseteq R
      /\ \A p \in R : \E k \in 1 .. n : p \in Pixels(items[k])
      /\ \A j, k \in 1 .. n : j # k => Pixels(items[j]) \cap Pixels(items[k]) = {}
  BY RegionTiles
<1>2. Rects(R) = [k \in DOMAIN pieces |-> SubRect(pieces[k], screen)]
  BY DEF Rects
<1> HIDE DEF items, n
<1>3. IsList(seqs) /\ Len(seqs) = n
  <2>1. seqs = [k \in 1 .. n |-> seqs[k]]
    BY <1>1
  <2> HIDE DEF seqs
  <2> QED
    BY <1>1, <2>1, ListOf
<1>4. \A k \in 1 .. n : seqs[k] = SubRects(items[k]) /\ A[k] = Pixels(items[k])
  BY <1>1
<1> HIDE DEF seqs, A
<1>5. \A k \in 1 .. n : Tiles(seqs[k], A[k]) /\ Proper(seqs[k]) /\ IsList(seqs[k])
  <2> SUFFICES ASSUME NEW k \in 1 .. n
               PROVE  Tiles(seqs[k], A[k]) /\ Proper(seqs[k]) /\ IsList(seqs[k])
    OBVIOUS
  <2>1. Tiles(SubRects(items[k]), Pixels(items[k])) /\ Proper(SubRects(items[k]))
    BY <1>1, SubRectsTile, SubRectsProper
  <2>2. IsList(SubRects(items[k]))
    BY <2>1 DEF Tiles
  <2> QED
    BY <1>4, <2>1, <2>2
<1>6. \A j, k \in 1 .. n : j # k => A[j] \cap A[k] = {}
  BY <1>1, <1>4
<1>7. Tiles(pieces, UNION {A[k] : k \in 1 .. Len(seqs)})
  BY <1>3, <1>5, <1>6, FlattenTiles
<1>8. UNION {A[k] : k \in 1 .. Len(seqs)} = R
  <2>1. \A k \in 1 .. n : A[k] \subseteq R
    BY <1>1, <1>4
  <2>2. \A p \in R : \E k \in 1 .. n : p \in A[k]
    BY <1>1, <1>4
  <2> QED
    BY <1>3, <2>1, <2>2
<1>9. \A k \in 1 .. Len(pieces) : From(seqs, pieces[k])
  BY <1>3, <1>5, FlattenFrom
<1> HIDE DEF pieces
<1>10. Proper(pieces)
  BY <1>3, <1>5, <1>9 DEF Proper, From
<1>11. IsList(pieces) /\ Tiles(pieces, R)
  BY <1>7, <1>8 DEF Tiles
<1>12. DOMAIN pieces = 1 .. Len(pieces) /\ Len(pieces) \in Nat
  BY <1>11, ListIs
<1>13. Rects(R) = [k \in 1 .. Len(pieces) |-> Rects(R)[k]]
  BY <1>2, <1>12
<1>14. IsList(Rects(R)) /\ Len(Rects(R)) = Len(pieces)
  BY <1>12, <1>13, ListOf
<1>15. \A k \in 1 .. Len(pieces) : Rects(R)[k] = SubRect(pieces[k], screen)
  BY <1>2, <1>12
<1> QED
  BY <1>10, <1>11, <1>14, <1>15

\* Each solid area has one colour.
LEMMA SolidAreasOneColor ==
  ASSUME NEW R \in SUBSET Point, IsFiniteSet(R)
  PROVE  \A k \in 1 .. Len(SolidAreas(R)) : OneColor(SolidAreas(R)[k])
<1> DEFINE items == RectanglesOf(R)
           n == Len(items)
           seqs == [k \in DOMAIN items |-> SolidRect(items[k])]
<1>1. /\ n \in Nat /\ DOMAIN items = 1 .. n
      /\ \A k \in 1 .. n : items[k] \in Rectangle /\ Nonempty(items[k])
  BY RegionTiles
<1>2. SolidAreas(R) = FlattenSeq(seqs)
  BY DEF SolidAreas
<1> HIDE DEF items, n
<1>3. IsList(seqs) /\ Len(seqs) = n
  <2>1. seqs = [k \in 1 .. n |-> seqs[k]]
    BY <1>1
  <2> HIDE DEF seqs
  <2> QED
    BY <1>1, <2>1, ListOf
<1>4. \A k \in 1 .. n : seqs[k] = SolidRect(items[k])
  BY <1>1
<1> HIDE DEF seqs
<1>5. \A k \in 1 .. n : IsList(seqs[k]) /\ \A j \in 1 .. Len(seqs[k]) : OneColor(seqs[k][j])
  <2> SUFFICES ASSUME NEW k \in 1 .. n
               PROVE  IsList(seqs[k]) /\ \A j \in 1 .. Len(seqs[k]) : OneColor(seqs[k][j])
    OBVIOUS
  <2> DEFINE s == SolidRect(items[k])
  <2>1. PICK B : Tiles(s, B) /\ \A j \in 1 .. Len(s) : OneColor(s[j])
    BY <1>1, SolidRectInside
  <2>2. IsList(s)
    BY <2>1 DEF Tiles
  <2> QED
    BY <1>4, <2>1, <2>2
<1> DEFINE all == FlattenSeq(seqs)
<1>6. \A k \in 1 .. Len(all) : From(seqs, all[k])
  BY <1>3, <1>5, FlattenFrom
<1> HIDE DEF all
<1>7. \A k \in 1 .. Len(all) : OneColor(all[k])
  BY <1>3, <1>5, <1>6 DEF From
<1> QED
  BY <1>2, <1>7 DEF all

\* The solid areas, the rest of the region and the cursor.
LEMMA SolidsPut ==
  ASSUME SceneOK, \A e \in Codecs : Faithful(e),
         NEW areas, NEW A, Tiles(areas, A), \A k \in 1 .. Len(areas) : OneColor(areas[k]), NEW f
  PROVE  Reads(Shot(f), SolidRects(areas), Shot(Over(f, A, New)))
<1> DEFINE s == SolidRects(areas)
           n == Len(areas)
           P == [k \in 1 .. n |-> Pixels(areas[k])]
<1>1. n \in Nat /\ DOMAIN areas = 1 .. n
  BY ListIs DEF Tiles
<1>2. s = [k \in 1 .. n |-> SolidItem(areas[k])]
  BY <1>1 DEF SolidRects, SolidItem
<1>3. \A k \in 1 .. n : P[k] = Pixels(areas[k])
  OBVIOUS
<1> HIDE DEF s, n, P
<1>4. s = [k \in 1 .. n |-> s[k]]
  BY <1>2
<1>5. IsList(s) /\ Len(s) = n
  BY <1>1, <1>4, ListOf
<1>6. \A k \in 1 .. n : Puts(s[k], P[k], New)
  <2> SUFFICES ASSUME NEW k \in 1 .. n
               PROVE  Puts(s[k], P[k], New)
    OBVIOUS
  <2>1. Puts(SolidItem(areas[k]), Pixels(areas[k]), New)
    BY SolidPuts DEF n
  <2> QED
    BY <1>2, <1>3, <2>1
<1>7. (\A k \in 1 .. n : P[k] \subseteq A) /\ \A p \in A : \E k \in 1 .. n : p \in P[k]
  BY <1>3 DEF Tiles, n
<1> DEFINE g == New
<1> HIDE DEF g
<1>8. Reads(Shot(f), s, Shot(Over(f, A, g)))
  <2>1. \A k \in 1 .. n : Puts(s[k], P[k], g)
    BY <1>6 DEF g
  <2> QED
    BY <1>5, <1>7, <2>1, ListPuts
<1> QED
  BY <1>8 DEF s, g

LEMMA RestPuts ==
  ASSUME SceneOK, \A e \in Codecs : Faithful(e), NEW R \in SUBSET Point, IsFiniteSet(R), NEW f
  PROVE  Reads(Shot(f), Rects(R), Shot(Over(f, R, New)))
<1>1. PICK pieces : /\ Tiles(pieces, R) /\ Proper(pieces)
                    /\ IsList(Rects(R)) /\ Len(Rects(R)) = Len(pieces)
                    /\ \A k \in 1 .. Len(pieces) : Rects(R)[k] = SubRect(pieces[k], screen)
  BY RectsAre
<1> DEFINE s == Rects(R)
           n == Len(pieces)
           P == [k \in 1 .. n |-> Pixels(pieces[k])]
           g == New
<1>2. \A k \in 1 .. n : P[k] = Pixels(pieces[k])
  OBVIOUS
<1> HIDE DEF P
<1>3. \A p \in Frame : g[p] = scene.convert[screen.at[p]]
  BY DEF New
<1> HIDE DEF g
<1>4. \A k \in 1 .. n : Puts(s[k], P[k], g)
  <2> SUFFICES ASSUME NEW k \in 1 .. n
               PROVE  Puts(s[k], P[k], g)
    OBVIOUS
  <2>1. pieces[k] \in Rectangle /\ Nonempty(pieces[k])
    BY <1>1 DEF Proper
  <2>2. Puts(SubRect(pieces[k], screen), Pixels(pieces[k]), g)
    BY <1>3, <2>1, SubRectPuts
  <2> QED
    BY <1>1, <1>2, <2>2
<1>5. (\A k \in 1 .. n : P[k] \subseteq R) /\ \A p \in R : \E k \in 1 .. n : p \in P[k]
  BY <1>1, <1>2 DEF Tiles
<1>6. IsList(s) /\ Len(s) = n
  BY <1>1
<1> HIDE DEF s, n
<1>7. Reads(Shot(f), s, Shot(Over(f, R, g)))
  BY <1>4, <1>5, <1>6, ListPuts
<1> QED
  BY <1>7 DEF s, g

\* The pixels of the cursor, of which there is at most one.
CursorPixels == IF ui.cursor = {} THEN {} ELSE Pixels(CHOOSE r \in ui.cursor : TRUE)
CursorNew == [p \in Frame |-> scene.convert[WithCursor(ui.cursor).at[p]]]

LEMMA CursorPuts ==
  ASSUME SceneOK, \A e \in Codecs : Faithful(e),
         \A r \in ui.cursor : r \in Rectangle /\ Nonempty(r), NEW f
  PROVE  Reads(Shot(f), CursorRects, Shot(Over(f, CursorPixels, CursorNew)))
<1> DEFINE g == CursorNew
           C == CursorPixels
           s == CursorRects
<1>1. CASE ui.cursor = {}
  <2>1. s = <<>> /\ C = {}
    BY <1>1 DEF CursorRects, CursorPixels
  <2> HIDE DEF s, C, g
  <2>2. Unpictured(s)
    BY <2>1, EmptyList DEF Unpictured
  <2>3. Shot(f) = Shot(Over(f, C, g))
    <3>1. \A p \in Frame : f[p] = Over(f, C, g)[p]
      BY <2>1, OverIs
    <3> QED
      BY <3>1, ShotsAre
  <2>4. Reads(Shot(f), s, Shot(Over(f, C, g)))
    BY <2>2, <2>3, ReadsIdle
  <2> QED
    BY <2>4 DEF s, C, g
<1>2. CASE ui.cursor # {}
  <2> DEFINE r == CHOOSE r \in ui.cursor : TRUE
             pict == WithCursor(ui.cursor)
             e == SubRect(r, pict)
             P == [k \in 1 .. 1 |-> C]
  <2>1. s = <<e>> /\ C = Pixels(r)
    BY <1>2 DEF CursorRects, CursorPixels
  <2>2. r \in Rectangle /\ Nonempty(r)
    BY <1>2
  <2>3. \A p \in Frame : g[p] = scene.convert[pict.at[p]]
    BY DEF CursorNew
  <2> HIDE DEF r, pict, s, g, C
  <2>4. Puts(e, C, g)
    BY <2>1, <2>2, <2>3, SubRectPuts
  <2> HIDE DEF e
  <2>5. IsList(s) /\ Len(s) = 1 /\ s[1] = e
    BY <2>1, OneList
  <2>6. P[1] = C
    OBVIOUS
  <2> HIDE DEF P
  <2>7. \A k \in 1 .. Len(s) : k = 1
    BY <2>5
  <2>8. \A k \in 1 .. Len(s) : Puts(s[k], P[k], g) /\ P[k] \subseteq C
    BY <2>4, <2>5, <2>6, <2>7
  <2>9. \A p \in C : \E k \in 1 .. Len(s) : p \in P[k]
    <3>1. 1 \in 1 .. Len(s)
      BY <2>5
    <3> QED
      BY <2>6, <3>1
  <2>10. Reads(Shot(f), s, Shot(Over(f, C, g)))
    BY <2>5, <2>8, <2>9, ListPuts
  <2> QED
    BY <2>10 DEF s, C, g
<1> QED
  BY <1>1, <1>2

\* An update, read from the first rectangle to the last.
LEMMA OverTwice ==
  ASSUME NEW f, NEW g, NEW A, NEW B
  PROVE  Shot(Over(Over(f, A, g), B, g)) = Shot(Over(f, A \cup B, g))
<1>1. \A p \in Frame : Over(Over(f, A, g), B, g)[p] = Over(f, A \cup B, g)[p]
  <2> DEFINE h == Over(f, A, g)
  <2>1. \A p \in Frame : h[p] = IF p \in A THEN g[p] ELSE f[p]
    BY OverIs
  <2> HIDE DEF h
  <2>2. \A p \in Frame : Over(h, B, g)[p] = IF p \in B THEN g[p] ELSE h[p]
    BY OverIs
  <2>3. \A p \in Frame : Over(f, A \cup B, g)[p] = IF p \in A \cup B THEN g[p] ELSE f[p]
    BY OverIs
  <2>4. \A p \in Frame : Over(h, B, g)[p] = Over(f, A \cup B, g)[p]
    BY <2>1, <2>2, <2>3
  <2> QED
    BY <2>4 DEF h
<1> QED
  BY <1>1, ShotsAre

\* The pixels that are to be copied are where they are to be copied from.
SourceIn(f) ==
  \A p \in ui.copied :
    Shift(p, Negate(ui.delta)) \in Frame /\ f[Shift(p, Negate(ui.delta))] = New[p]

CursorsOK == \A r \in ui.cursor : r \in Rectangle /\ Nonempty(r)

LEMMA UpdateReads ==
  ASSUME SceneOK, \A e \in Codecs : Faithful(e), ToSend, ui.delta \in Point, CursorsOK,
         NEW f, SourceIn(f)
  PROVE  Reads(Shot(f), UpdateRects,
               Shot(Over(Over(f, ui.copied \cup ui.changed, New), CursorPixels, CursorNew)))
<1> DEFINE areas == IF "LastRect" \in cp.pseudo THEN SolidAreas(ui.changed) ELSE <<>>
           solid == UNION {Pixels(areas[k]) : k \in DOMAIN areas}
           copied == CopiedRects
           solids == SolidRects(areas)
           rest == Rects(ui.changed \ solid)
           cursor == CursorRects
           g == New
<1>1. UpdateRects = ((copied \o solids) \o rest) \o cursor
  BY DEF UpdateRects
<1>2. PICK A \in SUBSET ui.changed : Tiles(areas, A) /\ \A k \in 1 .. Len(areas) : OneColor(areas[k])
  <2>1. CASE "LastRect" \in cp.pseudo
    <3>1. PICK A \in SUBSET ui.changed : Tiles(SolidAreas(ui.changed), A)
      BY SolidAreasTile DEF ToSend
    <3>2. \A k \in 1 .. Len(SolidAreas(ui.changed)) : OneColor(SolidAreas(ui.changed)[k])
      BY SolidAreasOneColor DEF ToSend
    <3> QED
      BY <2>1, <3>1, <3>2
  <2>2. CASE "LastRect" \notin cp.pseudo
    <3>1. areas = <<>> /\ {} \in SUBSET ui.changed
      BY <2>2
    <3> HIDE DEF areas
    <3>2. Len(areas) = 0
      BY <3>1, EmptyList
    <3>3. Tiles(areas, {})
      BY <3>1, FewTiles
    <3>4. \A k \in 1 .. Len(areas) : OneColor(areas[k])
      BY <3>2
    <3> QED
      BY <3>1, <3>3, <3>4
  <2> QED
    BY <2>1, <2>2
<1> HIDE DEF areas
<1>3. IsList(areas) /\ Len(areas) \in Nat /\ DOMAIN areas = 1 .. Len(areas)
  BY <1>2, ListIs DEF Tiles
<1>4. solid = A
  <2>1. \A k \in 1 .. Len(areas) : Pixels(areas[k]) \subseteq A
    BY <1>2 DEF Tiles
  <2>2. \A p \in A : \E k \in 1 .. Len(areas) : p \in Pixels(areas[k])
    BY <1>2 DEF Tiles
  <2> QED
    BY <1>3, <2>1, <2>2
<1> HIDE DEF solid
<1> DEFINE f1 == Over(f, ui.copied, g)
           f2 == Over(f1, A, g)
           f3 == Over(f2, ui.changed \ A, g)
           f4 == Over(f, ui.copied \cup ui.changed, g)
           C == CursorPixels
           c == CursorNew
<1>5. Reads(Shot(f), copied, Shot(f1))
  <2>1. \A p \in ui.copied :
          Shift(p, Negate(ui.delta)) \in Frame /\ f[Shift(p, Negate(ui.delta))] = g[p]
    BY DEF SourceIn
  <2> HIDE DEF g
  <2> QED
    BY <2>1, CopiesPut DEF ToSend
<1> HIDE DEF f1
<1>6. Reads(Shot(f1), solids, Shot(f2))
  BY <1>2, SolidsPut
<1> HIDE DEF f2
<1>7. Reads(Shot(f2), rest, Shot(f3))
  <2>1. ui.changed \ A \in SUBSET Point /\ IsFiniteSet(ui.changed \ A)
    BY FS_Subset DEF ToSend
  <2>2. rest = Rects(ui.changed \ A)
    BY <1>4
  <2> QED
    BY <2>1, <2>2, RestPuts
<1> HIDE DEF f3, f4
<1>8. Shot(f3) = Shot(f4)
  <2> HIDE DEF g
  <2>1. Shot(f2) = Shot(Over(f, ui.copied \cup A, g))
    BY OverTwice DEF f1, f2
  <2>2. \A p \in Frame : f3[p] = f4[p]
    <3>1. \A p \in Frame : f1[p] = IF p \in ui.copied THEN g[p] ELSE f[p]
      BY OverIs DEF f1
    <3>2. \A p \in Frame : f2[p] = IF p \in A THEN g[p] ELSE f1[p]
      BY OverIs DEF f2
    <3>3. \A p \in Frame : f3[p] = IF p \in ui.changed \ A THEN g[p] ELSE f2[p]
      BY OverIs DEF f3
    <3>4. \A p \in Frame : f4[p] = IF p \in ui.copied \cup ui.changed THEN g[p] ELSE f[p]
      BY OverIs DEF f4
    <3> QED
      BY <1>2, <3>1, <3>2, <3>3, <3>4
  <2> QED
    BY <2>2, ShotsAre
<1>9. Reads(Shot(f4), cursor, Shot(Over(f4, C, c)))
  BY CursorPuts DEF CursorsOK
<1> HIDE DEF copied, solids, rest, cursor, C, c
<1>10. Reads(Shot(f), copied \o solids, Shot(f2))
  BY <1>5, <1>6, ReadsConcat
<1>11. Reads(Shot(f), (copied \o solids) \o rest, Shot(f4))
  BY <1>7, <1>8, <1>10, ReadsConcat
<1>12. Reads(Shot(f), ((copied \o solids) \o rest) \o cursor, Shot(Over(f4, C, c)))
  BY <1>9, <1>11, ReadsConcat
<1> QED
  BY <1>1, <1>12 DEF f4, C, c

\* Nothing else in a message is drawn.
LEMMA MessageReads ==
  ASSUME NEW n, NEW t, Unpictured(t), NEW a, NEW s, NEW b, Reads(a, s, b)
  PROVE  Reads(a, Message(n, t \o s), b)
<1> DEFINE header == [kind |-> "update", n |-> Announced(n) % 65536]
           marker == [kind |-> "last"]
           h == <<header>>
           end == IF Announced(n) \in {0, Unknown} THEN <<marker>> ELSE <<>>
<1>1. Message(n, t \o s) = (h \o (t \o s)) \o end
  BY DEF Message
<1>2. ASSUME NEW e, e.kind \notin {"data", "copy"}
      PROVE  Unpictured(<<e>>)
  <2> DEFINE u == <<e>>
  <2>1. IsList(u) /\ Len(u) = 1 /\ u[1] = e
    BY OneList
  <2> HIDE DEF u
  <2>2. \A k \in 1 .. Len(u) : k = 1
    BY <2>1
  <2>3. Unpictured(u)
    BY <1>2, <2>1, <2>2 DEF Unpictured
  <2> QED
    BY <2>3 DEF u
<1>3. Unpictured(h)
  <2>1. header.kind \notin {"data", "copy"}
    OBVIOUS
  <2> HIDE DEF header
  <2> QED
    BY <1>2, <2>1
<1>4. Unpictured(end)
  <2>1. marker.kind \notin {"data", "copy"}
    OBVIOUS
  <2> HIDE DEF marker
  <2>2. Unpictured(<<marker>>)
    BY <1>2, <2>1
  <2>3. Unpictured(<<>>)
    BY EmptyList DEF Unpictured
  <2> QED
    BY <2>2, <2>3
<1> HIDE DEF h, end
<1>5. Reads(a, t, a) /\ Reads(a, h, a) /\ Reads(b, end, b)
  BY <1>3, <1>4, ReadsIdle
<1>6. Reads(a, t \o s, b)
  BY <1>5, ReadsConcat
<1>7. Reads(a, h \o (t \o s), b)
  BY <1>5, <1>6, ReadsConcat
<1> QED
  BY <1>1, <1>5, <1>7, ReadsConcat

\* The scene is one of a family's.
SceneIs ==
  /\ SceneOK
  /\ screen = [w |-> screen.w, h |-> screen.h, at |-> screen.at] /\ DOMAIN screen.at = Frame
  /\ scene.delta \in Point
  /\ \A r \in scene.cursor : r \in Rectangle /\ Nonempty(r)

\* What the viewer shows once it has read the stream: what it had before the update,
\* or, as soon as the update has been written, all of it.
Pending ==
  /\ ui.delta = scene.delta /\ ui.cursor = scene.cursor
  /\ ui.copied = {} \/ Frame \subseteq ui.copied \cup ui.changed
  /\ \A p \in ui.copied : Shift(p, Negate(scene.delta)) \in Frame
  /\ Reads(viewer.picture, stream, Before(scene, ui.copied, ui.changed))
Sent ==
  /\ ui.delta = scene.delta
  /\ ui.changed = {} /\ ui.copied = {} /\ ui.cursor = {}
  /\ Reads(viewer.picture, stream, Shown)
Shows == SceneIs /\ (Pending \/ Sent)

\* The pictures of the framebuffer's size.
Old == [p \in Frame |->
          IF Shift(p, scene.delta) \in ui.copied THEN New[Shift(p, scene.delta)]
          ELSE IF p \in ui.changed \cup ui.copied THEN scene.blank ELSE New[p]]
Final == [p \in Frame |->
            scene.convert[(IF scene.cursor = {} THEN screen ELSE WithCursor(scene.cursor)).at[p]]]

LEMMA ShownIs ==
  ASSUME SceneIs
  PROVE  Shown = Shot(Final)
<1> DEFINE pict == IF scene.cursor = {} THEN screen ELSE WithCursor(scene.cursor)
<1>1. Shown = Converted(pict)
  BY DEF Shown
<1>2. pict.w = screen.w /\ pict.h = screen.h
  BY DEF WithCursor, Fill
<1>3. Final = [p \in Frame |-> scene.convert[pict.at[p]]]
  BY DEF Final
<1> HIDE DEF pict
<1>4. Converted(pict) = [w |-> screen.w, h |-> screen.h,
                         at |-> [p \in Frame |-> scene.convert[pict.at[p]]]]
  BY <1>2 DEF Converted, Image, Frame, Whole
<1>5. Final = [p \in Frame |-> Final[p]]
  BY <1>3
<1>6. Shot(Final) = [w |-> screen.w, h |-> screen.h, at |-> [p \in Frame |-> Final[p]]]
  BY DEF Shot
<1> QED
  BY <1>1, <1>3, <1>4, <1>5, <1>6

LEMMA BeforeIs == Before(scene, ui.copied, ui.changed) = Shot(Old)
<1> DEFINE P == Pixels(Box(0, 0, screen.w, screen.h))
           new == [p \in P |-> scene.convert[screen.at[p]]]
           at == [p \in P |->
                    IF Shift(p, scene.delta) \in ui.copied THEN new[Shift(p, scene.delta)]
                    ELSE IF p \in ui.changed \cup ui.copied THEN scene.blank ELSE new[p]]
<1>1. P = Frame /\ new = New
  BY DEF Frame, Whole, New
<1>2. Before(scene, ui.copied, ui.changed) = [w |-> screen.w, h |-> screen.h, at |-> at]
  BY DEF Before, Image, screen
<1>3. at = Old
  BY <1>1 DEF Old
<1>4. Old = [p \in Frame |-> Old[p]]
  BY DEF Old
<1> HIDE DEF at
<1>5. Shot(Old) = [w |-> screen.w, h |-> screen.h, at |-> [p \in Frame |-> Old[p]]]
  BY DEF Shot
<1> QED
  BY <1>2, <1>3, <1>4, <1>5

\* With the cursor drawn on the new pixels, the picture is what is to be shown.
LEMMA CursorShown ==
  ASSUME SceneIs, ui.cursor = scene.cursor, NEW h, \A p \in Frame : h[p] = New[p]
  PROVE  Shot(Over(h, CursorPixels, CursorNew)) = Shown
<1> DEFINE f == Over(h, CursorPixels, CursorNew)
<1>1. \A p \in Frame : f[p] = IF p \in CursorPixels THEN CursorNew[p] ELSE h[p]
  BY OverIs
<1> HIDE DEF f
<1>2. \A p \in Frame : New[p] = scene.convert[screen.at[p]]
  BY DEF New
<1>3. CASE ui.cursor = {}
  <2>1. CursorPixels = {}
    BY <1>3 DEF CursorPixels
  <2>2. \A p \in Frame : Final[p] = scene.convert[screen.at[p]]
    BY <1>3 DEF Final
  <2>3. \A p \in Frame : f[p] = Final[p]
    BY <1>1, <1>2, <2>1, <2>2
  <2> QED
    BY <2>3, ShotsAre, ShownIs DEF f
<1>4. CASE ui.cursor # {}
  <2> DEFINE r == CHOOSE r \in ui.cursor : TRUE
             pict == WithCursor(ui.cursor)
  <2>1. CursorPixels = Pixels(r) /\ pict = Fill(screen, r, scene.ink)
    BY <1>4 DEF CursorPixels, WithCursor
  <2>2. \A p \in Frame : CursorNew[p] = scene.convert[pict.at[p]]
    BY DEF CursorNew
  <2>3. \A p \in Frame : Final[p] = scene.convert[pict.at[p]]
    BY <1>4 DEF Final
  <2> HIDE DEF r, pict
  <2>4. \A p \in Frame : p \notin Pixels(r) => pict.at[p] = screen.at[p]
    <3> DEFINE at == [p \in DOMAIN screen.at |-> IF p \in Pixels(r) THEN scene.ink ELSE screen.at[p]]
    <3>1. pict = [screen EXCEPT !.at = at]
      BY <2>1 DEF Fill
    <3>2. \A p \in Frame : p \notin Pixels(r) => at[p] = screen.at[p]
      BY DEF SceneIs
    <3> HIDE DEF at
    <3>3. pict.at = at
      <4>1. screen = [w |-> screen.w, h |-> screen.h, at |-> screen.at]
        BY DEF SceneIs
      <4> HIDE DEF screen
      <4> QED
        BY <3>1, <4>1
    <3> QED
      BY <3>2, <3>3
  <2>5. \A p \in Frame : f[p] = Final[p]
    BY <1>1, <1>2, <2>1, <2>2, <2>3, <2>4
  <2> QED
    BY <2>5, ShotsAre, ShownIs DEF f
<1> QED
  BY <1>3, <1>4

\* Reading the update makes of the picture before it what is to be shown, and reading
\* another one, of which everything has been sent, leaves it as it is.
LEMMA PendingShows ==
  ASSUME \A e \in Codecs : Faithful(e), ToSend, SceneIs, Pending
  PROVE  Reads(Before(scene, ui.copied, ui.changed), UpdateRects, Shown)
<1>1. SceneOK /\ ui.delta = scene.delta /\ ui.delta \in Point /\ CursorsOK /\ ui.cursor = scene.cursor
  BY DEF SceneIs, Pending, CursorsOK
<1> DEFINE R == ui.copied \cup ui.changed
           f == Old
           h == Over(f, R, New)
<1>2. \A p \in Frame : f[p] = IF Shift(p, scene.delta) \in ui.copied THEN New[Shift(p, scene.delta)]
                              ELSE IF p \in ui.changed \cup ui.copied THEN scene.blank ELSE New[p]
  BY DEF Old
<1> HIDE DEF f
<1>3. SourceIn(f)
  <2> SUFFICES ASSUME NEW p \in ui.copied
               PROVE  /\ Shift(p, Negate(ui.delta)) \in Frame
                      /\ f[Shift(p, Negate(ui.delta))] = New[p]
    BY DEF SourceIn
  <2> DEFINE q == Shift(p, Negate(ui.delta))
  <2>1. q \in Frame
    BY <1>1 DEF Pending
  <2>2. Shift(q, scene.delta) = p
    <3>1. p \in Int \X Int /\ ui.delta \in Int \X Int
      BY <1>1 DEF ToSend, Point
    <3> QED
      BY <1>1, <3>1 DEF Shift, Negate
  <2> HIDE DEF q
  <2>3. f[q] = New[p]
    BY <1>2, <2>1, <2>2
  <2> QED
    BY <2>1, <2>3 DEF q
<1>4. Reads(Shot(f), UpdateRects, Shot(Over(h, CursorPixels, CursorNew)))
  BY <1>1, <1>3, UpdateReads
<1>5. \A p \in Frame : h[p] = New[p]
  <2> DEFINE g == New
  <2> HIDE DEF g
  <2>1. \A p \in Frame : Over(f, R, g)[p] = IF p \in R THEN g[p] ELSE f[p]
    BY OverIs
  <2>2. ui.copied = {} \/ Frame \subseteq R
    BY DEF Pending
  <2>3. \A p \in Frame : p \notin R => f[p] = g[p]
    <3> SUFFICES ASSUME NEW p \in Frame, p \notin R
                 PROVE  f[p] = g[p]
      OBVIOUS
    <3>1. ui.copied = {}
      BY <2>2
    <3> QED
      BY <1>2, <3>1 DEF g
  <2> QED
    BY <2>1, <2>3 DEF g
<1> HIDE DEF h
<1>6. Shot(Over(h, CursorPixels, CursorNew)) = Shown
  BY <1>1, <1>5, CursorShown
<1> QED
  BY <1>4, <1>6, BeforeIs DEF f

LEMMA SentShows ==
  ASSUME \A e \in Codecs : Faithful(e), ToSend, SceneIs, Sent
  PROVE  Reads(Shown, UpdateRects, Shown)
<1>1. SceneOK /\ ui.delta \in Point /\ CursorsOK
  BY DEF SceneIs, Sent, CursorsOK
<1>2. ui.copied = {} /\ ui.changed = {} /\ ui.cursor = {}
  BY DEF Sent
<1> DEFINE f == Final
           g == New
           c == CursorNew
           h == Over(f, ui.copied \cup ui.changed, g)
           x == Over(h, CursorPixels, c)
<1>3. SourceIn(f)
  BY <1>2 DEF SourceIn
<1> HIDE DEF f
<1>4. Reads(Shot(f), UpdateRects, Shot(x))
  BY <1>1, <1>3, UpdateReads
<1>5. CursorPixels = {}
  BY <1>2 DEF CursorPixels
<1> HIDE DEF g, c
<1>6. \A p \in Frame : h[p] = f[p]
  BY <1>2, OverIs
<1> HIDE DEF h
<1>7. \A p \in Frame : x[p] = f[p]
  BY <1>5, <1>6, OverIs
<1> HIDE DEF x
<1>8. Shot(x) = Shot(f)
  BY <1>7, ShotsAre
<1> QED
  BY <1>4, <1>8, ShownIs DEF f

LEMMA ShowsInit ==
  ASSUME WriterInit
  PROVE  Shows
<1>1. PICK n \in DOMAIN Families : InitScene(Families[n])
  BY DEF WriterInit
<1> DEFINE fam == Families[n]
<1>2. fam \in ToSet(Families)
  BY DEF ToSet
<1> HIDE DEF fam
<1>3. PICK img \in fam.pictures, changed \in fam.changed, d \in fam.deltas, k \in fam.cursors,
           client \in fam.clients, improved \in fam.improved :
        LET all == DOMAIN img.at
            scrolled == {p \in all : d # <<0, 0>> /\ Shift(p, Negate(d)) \in all}
        IN /\ scene = [screen |-> img, delta |-> d, cursor |-> k, convert |-> fam.convert,
                       improved |-> improved, blank |-> fam.blank, ink |-> fam.ink,
                       busy |-> fam.busy]
           /\ cp = client
           /\ ui = [changed |-> IF d = <<0, 0>> THEN changed ELSE changed \cup (all \ scrolled),
                    copied |-> scrolled \ changed, delta |-> d, cursor |-> k]
  <2>1. InitScene(fam)
    BY <1>1 DEF fam
  <2> QED
    BY <2>1, Zenon DEF InitScene
<1> DEFINE all == DOMAIN img.at
           scrolled == {p \in all : d # <<0, 0>> /\ Shift(p, Negate(d)) \in all}
<1>4. /\ scene = [screen |-> img, delta |-> d, cursor |-> k, convert |-> fam.convert,
                  improved |-> improved, blank |-> fam.blank, ink |-> fam.ink, busy |-> fam.busy]
      /\ ui = [changed |-> IF d = <<0, 0>> THEN changed ELSE changed \cup (all \ scrolled),
               copied |-> scrolled \ changed, delta |-> d, cursor |-> k]
  BY <1>3
<1>5. /\ \A p \in scrolled : d # <<0, 0>> /\ Shift(p, Negate(d)) \in all
      /\ scrolled \subseteq all
  OBVIOUS
<1> HIDE DEF scrolled, all
<1>6. /\ screen = img /\ scene.delta = d /\ scene.cursor = k /\ scene.improved = improved
      /\ ui.changed = (IF d = <<0, 0>> THEN changed ELSE changed \cup (all \ scrolled))
      /\ ui.copied = scrolled \ changed /\ ui.delta = d /\ ui.cursor = k
  BY <1>4 DEF screen
<1>7. /\ improved \in BOOLEAN /\ d \in Point
      /\ img = [w |-> img.w, h |-> img.h, at |-> img.at] /\ img.w \in Nat /\ img.h \in Nat
      /\ all = Pixels(Whole(img))
      /\ \A r \in k : r \in Rectangle /\ Nonempty(r)
  <2>1. fam.improved \subseteq BOOLEAN /\ fam.deltas \subseteq Point
    BY <1>2, FamilyAssumption
  <2>2. /\ img = [w |-> img.w, h |-> img.h, at |-> img.at] /\ img.w \in Nat /\ img.h \in Nat
        /\ DOMAIN img.at = Pixels(Whole(img))
        /\ k \subseteq Rectangle /\ \A r \in k : Nonempty(r)
    BY <1>2, FamilyAssumption
  <2> QED
    BY <2>1, <2>2 DEF all
<1>8. all = Frame
  BY <1>6, <1>7 DEF Frame
<1>9. SceneIs
  BY <1>6, <1>7, <1>8 DEF SceneIs, SceneOK, all
<1>10. ui.copied = {} \/ Frame \subseteq ui.copied \cup ui.changed
  <2>1. CASE d = <<0, 0>>
    BY <1>5, <1>6, <2>1
  <2>2. CASE d # <<0, 0>>
    BY <1>5, <1>6, <1>8, <2>2
  <2> QED
    BY <2>1, <2>2
<1>11. \A p \in ui.copied : Shift(p, Negate(scene.delta)) \in Frame
  BY <1>5, <1>6, <1>8
<1>12. Reads(viewer.picture, stream, Before(scene, ui.copied, ui.changed))
  <2> DEFINE a == Before(scene, ui.copied, ui.changed)
             s == <<>>
  <2>1. viewer = [picture |-> a, nUpdateRectsLeft |-> 0, lost |-> FALSE] /\ stream = s
    BY DEF WriterInit
  <2> HIDE DEF a
  <2>2. Unpictured(s)
    BY EmptyList DEF Unpictured
  <2> HIDE DEF s
  <2>3. Reads(a, s, a)
    BY <2>2, ReadsIdle
  <2> QED
    BY <2>1, <2>3 DEF a
<1> QED
  BY <1>6, <1>9, <1>10, <1>11, <1>12 DEF Shows, Pending

\* The pixels of an image from left to right and top to bottom, and back.
LEMMA ScanPlaces ==
  ASSUME NEW w \in Nat, NEW h \in Nat, NEW p \in Pixels(Box(0, 0, w, h))
  PROVE  LET k == p[2] * w + p[1] + 1
         IN k \in 1 .. w * h /\ <<(k - 1) % w, (k - 1) \div w>> = p
<1> DEFINE x == p[1]
           y == p[2]
           u == y * w
           k == u + x + 1
<1>1. x \in 0 .. w - 1 /\ y \in 0 .. h - 1 /\ p = <<x, y>>
  BY DEF Pixels, Box
<1> HIDE DEF x, y
<1>2. u \in Nat /\ u + w <= h * w
  BY <1>1, StepsApart
<1>3. h * w = w * h
  OBVIOUS
<1> DEFINE v == w * h
<1>4. k \in 1 .. v
  <2> HIDE DEF u, v
  <2> QED
    BY <1>1, <1>2, <1>3 DEF v
<1> DEFINE a == (k - 1) % w
           d == (k - 1) \div w
<1>5. k - 1 \in Nat /\ k - 1 = u + x /\ w # 0
  <2> HIDE DEF u
  <2> QED
    BY <1>1, <1>2
<1> HIDE DEF k
<1>6. a \in 0 .. w - 1 /\ d \in Nat /\ k - 1 = d * w + a
  BY <1>5, RemainderIs
<1> HIDE DEF a, d
<1>7. d * w + a = y * w + x
  BY <1>5, <1>6
<1>8. a = x /\ d = y
  <2>1. y \in Nat /\ d \in Nat /\ w \in Nat
    BY <1>1, <1>6
  <2>2. a \in 0 .. w - 1 /\ x \in 0 .. w - 1 /\ d * w + a = y * w + x
    BY <1>1, <1>6, <1>7
  <2> QED
    BY <2>1, <2>2, DividedOnce
<1> QED
  BY <1>1, <1>4, <1>8 DEF a, d, k, x, y

LEMMA ValuesBack ==
  ASSUME NEW im, IsPicture(im)
  PROVE  FromValues(im.w, im.h, Values(im)) = im
<1> DEFINE w == im.w
           h == im.h
           B == Pixels(Box(0, 0, w, h))
           values == Values(im)
           at == [p \in B |-> values[p[2] * w + p[1] + 1]]
<1>1. /\ w \in Nat /\ h \in Nat /\ im = [w |-> w, h |-> h, at |-> im.at]
      /\ im.at = [p \in B |-> im.at[p]]
  BY DEF IsPicture, Whole
<1>2. FromValues(w, h, values) = [w |-> w, h |-> h, at |-> at]
  BY DEF FromValues, Image
<1>3. \A k \in 1 .. w * h : values[k] = im.at[<<(k - 1) % w, (k - 1) \div w>>]
  BY DEF Values, Scan
<1> HIDE DEF w, h, values
<1>4. \A p \in B : at[p] = im.at[p]
  <2> SUFFICES ASSUME NEW p \in B
               PROVE  values[p[2] * w + p[1] + 1] = im.at[p]
    OBVIOUS
  <2> DEFINE k == p[2] * w + p[1] + 1
  <2>1. k \in 1 .. w * h /\ <<(k - 1) % w, (k - 1) \div w>> = p
    BY <1>1, ScanPlaces
  <2> HIDE DEF k
  <2>2. values[k] = im.at[p]
    BY <1>3, <2>1
  <2> QED
    BY <2>2 DEF k
<1> HIDE DEF B
<1>5. at = [p \in B |-> im.at[p]]
  BY <1>4
<1> HIDE DEF at
<1> QED
  BY <1>1, <1>2, <1>5 DEF w, h, values

\* The simplest of the encodings: its pixels one after the other.
LEMMA RawIsFaithful == Faithful("Raw")
<1>1. ASSUME NEW im, NEW pic, NEW r \in Rectangle, NEW palette, NEW improved, IsPicture(im),
             Width(r) = im.w, Height(r) = im.h
      PROVE  Decode("Raw", pic, r, Encode("Raw", im, palette, improved)) = Paste(pic, r, im)
  <2>1. FromValues(Width(r), Height(r), Values(im)) = im
    BY <1>1, ValuesBack
  <2>2. /\ Encode("Raw", im, palette, improved) = Values(im)
        /\ Decode("Raw", pic, r, Values(im)) = Paste(pic, r, FromValues(Width(r), Height(r), Values(im)))
    BY DEF Encode, Decode
  <2> QED
    BY <2>1, <2>2
<1>2. ASSUME NEW pic, NEW r \in Rectangle, NEW c, IsPicture(pic), r.x1 <= r.x2, r.y1 <= r.y2
      PROVE  Decode("Raw", pic, r, EncodeSolid("Raw", Width(r), Height(r), c)) = Fill(pic, r, c)
  <2> DEFINE w == Width(r)
             h == Height(r)
             data == [k \in 1 .. w * h |-> c]
             part == FromValues(w, h, data)
             B == Pixels(Box(0, 0, w, h))
  <2>1. /\ EncodeSolid("Raw", w, h, c) = data
        /\ Decode("Raw", pic, r, data) = Paste(pic, r, part)
    BY DEF EncodeSolid, Decode
  <2>2. /\ r.x1 \in Int /\ r.y1 \in Int /\ r.x2 \in Int /\ r.y2 \in Int
        /\ w = r.x2 - r.x1 /\ h = r.y2 - r.y1 /\ w \in Nat /\ h \in Nat
    BY <1>2 DEF Rectangle, Width, Height
  <2>3. part.at = [p \in B |-> data[p[2] * w + p[1] + 1]]
    BY DEF FromValues, Image
  <2> HIDE DEF w, h
  <2>4. \A k \in 1 .. w * h : data[k] = c
    OBVIOUS
  <2> HIDE DEF data
  <2>5. \A p \in B : part.at[p] = c
    <3> SUFFICES ASSUME NEW p \in B
                 PROVE  part.at[p] = c
      OBVIOUS
    <3>1. part.at[p] = data[p[2] * w + p[1] + 1]
      BY <2>3
    <3>2. p[2] * w + p[1] + 1 \in 1 .. w * h
      BY <2>2, ScanPlaces
    <3> QED
      BY <2>4, <3>1, <3>2
  <2> HIDE DEF part
  <2>6. \A p \in Pixels(r) : part.at[Shift(p, <<-r.x1, -r.y1>>)] = c
    <3> SUFFICES ASSUME NEW p \in Pixels(r)
                 PROVE  Shift(p, <<-r.x1, -r.y1>>) \in B
      BY <2>5
    <3> DEFINE x == p[1] + -r.x1
               y == p[2] + -r.y1
    <3>1. x \in 0 .. w - 1 /\ y \in 0 .. h - 1 /\ Shift(p, <<-r.x1, -r.y1>>) = <<x, y>>
      BY <2>2 DEF Pixels, Shift
    <3> HIDE DEF x, y
    <3> QED
      BY <2>2, <3>1 DEF Pixels, Box
  <2>7. [p \in DOMAIN pic.at |-> IF p \in Pixels(r) THEN part.at[Shift(p, <<-r.x1, -r.y1>>)] ELSE pic.at[p]]
          = [p \in DOMAIN pic.at |-> IF p \in Pixels(r) THEN c ELSE pic.at[p]]
    BY <2>6
  <2>8. Paste(pic, r, part) = Fill(pic, r, c)
    BY <2>7 DEF Paste, Fill
  <2> QED
    BY <2>1, <2>8 DEF w, h
<1> QED
  BY <1>1, <1>2 DEF Faithful

\* What a step does with what is to be shown, while the scene is the same.
LEMMA SceneSame ==
  ASSUME scene' = scene
  PROVE  /\ SceneIs => SceneIs'
         /\ Shown' = Shown
         /\ UNCHANGED ui => Before(scene, ui.copied, ui.changed)' = Before(scene, ui.copied, ui.changed)
         /\ Frame' = Frame
<1>1. screen' = screen
  BY DEF screen
<1>2. Frame' = Frame
  BY <1>1 DEF Frame
<1>3. SceneIs => SceneIs'
  BY <1>1, <1>2 DEF SceneIs, SceneOK
<1>4. Shown' = Shown
  BY <1>1 DEF Shown, Converted, WithCursor, Image, Fill
<1> QED
  BY <1>2, <1>3, <1>4

LEMMA ShowsRead ==
  ASSUME InSync, ReadMsg, NEW b, Reads(viewer.picture, stream, b)
  PROVE  Reads(viewer'.picture, stream', b)
<1> DEFINE item == Head(stream)
           n == viewer.nUpdateRectsLeft
<1>1. stream # <<>> /\ stream' = Tail(stream) /\ IsList(stream)
  BY DEF ReadMsg, InSync, Framed
<1>2. Len(stream) # 0 /\ item = stream[1]
  BY <1>1, TailList
<1>3. Expected(n, item)
  BY <1>1, FramedTail DEF InSync
<1>4. viewer = [picture |-> viewer.picture, nUpdateRectsLeft |-> n, lost |-> viewer.lost]
  BY DEF InSync
<1>5. viewer'.picture = Applied(viewer.picture, item)
  <2>1. CASE n = 0
    <3>1. IsMessage(item) /\ ReadMessage(item)
      BY <1>3, <2>1 DEF Expected, ReadMsg
    <3>2. Applied(viewer.picture, item) = viewer.picture
      BY <3>1 DEF IsMessage, Applied
    <3> HIDE DEF item, n
    <3>3. viewer' = viewer \/ viewer' = [viewer EXCEPT !.nUpdateRectsLeft = item.n]
      BY <3>1 DEF ReadMessage
    <3> QED
      BY <1>4, <3>2, <3>3
  <2>2. CASE n # 0
    <3>1. ~ IsMessage(item) /\ ReadRect(item)
      BY <1>3, <2>2 DEF Expected, ReadMsg
    <3> HIDE DEF item
    <3> DEFINE shown == Applied(viewer.picture, item)
    <3>2. PICK left : viewer' = [viewer EXCEPT !.nUpdateRectsLeft = left, !.picture = shown]
      BY <3>1 DEF ReadRect, Applied
    <3> HIDE DEF shown, n
    <3>3. viewer'.picture = shown
      BY <1>4, <3>2
    <3> QED
      BY <3>3 DEF shown
  <2> QED
    BY <2>1, <2>2
<1> QED
  BY <1>1, <1>2, <1>5, ReadsTail

\* A message behind the stream, read from what the stream has left.
LEMMA ShowsWritten ==
  ASSUME NEW b, NEW c, NEW m, Reads(viewer.picture, stream, b), Reads(b, m, c),
         stream' = stream \o m, viewer' = viewer
  PROVE  Reads(viewer'.picture, stream', c)
BY ReadsConcat

LEMMA AnnouncementsIdle ==
  ASSUME ReadyToSend
  PROVE  Unpictured(PseudoRects) /\ Unpictured(NoDataRects)
<1>1. Kinds(PseudoRects, {"cursor", "xcursor", "name"}) /\ Kinds(NoDataRects, {"ext", "size"})
  BY PseudoCounted, NoDataRectsAre DEF ReadyToSend
<1> QED
  BY <1>1 DEF Kinds, Unpictured

\* Whatever is written without the picture being touched leaves Shows as it is.
LEMMA ShowsIdle ==
  ASSUME Shows, UNCHANGED <<scene, ui>>,
         \A b : Reads(viewer.picture, stream, b) => Reads(viewer'.picture, stream', b)
  PROVE  Shows'
<1>1. /\ SceneIs' /\ Shown' = Shown /\ Frame' = Frame
      /\ Before(scene, ui.copied, ui.changed)' = Before(scene, ui.copied, ui.changed)
  BY SceneSame DEF Shows
<1>2. Pending => Pending'
  BY <1>1 DEF Pending
<1>3. Sent => Sent'
  BY <1>1 DEF Sent
<1> QED
  BY <1>1, <1>2, <1>3 DEF Shows

LEMMA ShowsKept ==
  ASSUME \A e \in Codecs : Faithful(e), ReadyToSend, InSync, Shows, [WriterNext]_writerVars
  PROVE  Shows'
<1>1. UNCHANGED <<scene, ui, stream, viewer>> => Shows'
  BY ShowsIdle
<1>2. CASE WriteNoDataUpdate
  <2>1. CASE UNCHANGED stream
    BY <1>1, <1>2, <2>1 DEF WriteNoDataUpdate, Throw
  <2>2. CASE stream' = stream \o Message(Len(NoDataRects), PseudoRects \o NoDataRects)
    <3> DEFINE m == Message(Len(NoDataRects), PseudoRects \o NoDataRects)
    <3>1. UNCHANGED <<scene, ui, viewer>>
      BY <1>2 DEF WriteNoDataUpdate, Throw
    <3>2. \A b : Reads(b, m, b)
      <4> SUFFICES ASSUME NEW b
                   PROVE  Reads(b, m, b)
        OBVIOUS
      <4>1. Unpictured(PseudoRects) /\ Reads(b, NoDataRects, b)
        BY AnnouncementsIdle, ReadsIdle
      <4> QED
        BY <4>1, MessageReads
    <3>3. stream' = stream \o m
      BY <2>2
    <3> HIDE DEF m
    <3>4. \A b : Reads(viewer.picture, stream, b) => Reads(viewer'.picture, stream', b)
      BY <3>1, <3>2, <3>3, ShowsWritten
    <3> QED
      BY <3>1, <3>4, ShowsIdle
  <2> QED
    BY <1>2, <2>1, <2>2 DEF WriteNoDataUpdate, Throw
<1>3. CASE WriteUpdate
  <2>1. CASE UNCHANGED <<ui, stream>>
    BY <1>1, <1>3, <2>1 DEF WriteUpdate
  <2>2. CASE /\ stream' = stream \o Message(RectsCount, PseudoRects \o UpdateRects)
             /\ ui' = [ui EXCEPT !.changed = {}, !.copied = {}, !.cursor = {}]
    <3> DEFINE m == Message(RectsCount, PseudoRects \o UpdateRects)
    <3>1. UNCHANGED <<scene, viewer>>
      BY <1>3 DEF WriteUpdate
    <3>2. ui'.delta = ui.delta /\ ui'.changed = {} /\ ui'.copied = {} /\ ui'.cursor = {}
      BY <2>2 DEF ReadyToSend
    <3>3. \A a : Reads(a, UpdateRects, Shown) => Reads(a, m, Shown)
      <4> SUFFICES ASSUME NEW a, Reads(a, UpdateRects, Shown)
                   PROVE  Reads(a, m, Shown)
        OBVIOUS
      <4>1. Unpictured(PseudoRects)
        BY AnnouncementsIdle
      <4> QED
        BY <4>1, MessageReads
    <3>4. stream' = stream \o m
      BY <2>2
    <3> HIDE DEF m
    <3>5. PICK a : Reads(viewer.picture, stream, a) /\ Reads(a, UpdateRects, Shown)
      <4>1. CASE Pending
        <5>1. Reads(Before(scene, ui.copied, ui.changed), UpdateRects, Shown)
          BY <4>1, PendingShows DEF Shows, ReadyToSend
        <5> QED
          BY <4>1, <5>1 DEF Pending
      <4>2. CASE Sent
        <5>1. Reads(Shown, UpdateRects, Shown)
          BY <4>2, SentShows DEF Shows, ReadyToSend
        <5> QED
          BY <4>2, <5>1 DEF Sent
      <4> QED
        BY <4>1, <4>2 DEF Shows
    <3>6. Reads(viewer'.picture, stream', Shown)
      BY <3>1, <3>3, <3>4, <3>5, ShowsWritten
    <3>7. SceneIs' /\ Shown' = Shown
      BY <3>1, SceneSame DEF Shows
    <3>8. ui.delta = scene.delta
      BY DEF Shows, Pending, Sent
    <3>9. Sent'
      BY <3>1, <3>2, <3>6, <3>7, <3>8 DEF Sent
    <3> QED
      BY <3>7, <3>9 DEF Shows
  <2> QED
    BY <1>3, <2>1, <2>2 DEF WriteUpdate, Throw, RectsCount
<1>4. CASE OtherMessage
  <2> DEFINE e == [kind |-> "other"]
             m == <<e>>
  <2>1. UNCHANGED <<scene, ui, viewer>> /\ stream' = Append(stream, e) /\ e.kind = "other"
    BY <1>4 DEF OtherMessage
  <2> HIDE DEF e
  <2>2. IsList(stream)
    BY DEF InSync, Framed
  <2>3. stream' = stream \o m
    BY <2>1, <2>2, AppendList
  <2>4. IsList(m) /\ Len(m) = 1 /\ m[1] = e
    BY OneList
  <2> HIDE DEF m
  <2>5. \A k \in 1 .. Len(m) : k = 1
    BY <2>4
  <2>6. Unpictured(m)
    BY <2>1, <2>4, <2>5 DEF Unpictured
  <2>7. \A b : Reads(b, m, b)
    BY <2>6, ReadsIdle
  <2>8. \A b : Reads(viewer.picture, stream, b) => Reads(viewer'.picture, stream', b)
    BY <2>1, <2>3, <2>7, ShowsWritten
  <2> QED
    BY <2>1, <2>8, ShowsIdle
<1>5. CASE ReadMsg
  <2>1. \A b : Reads(viewer.picture, stream, b) => Reads(viewer'.picture, stream', b)
    BY <1>5, ShowsRead
  <2>2. UNCHANGED <<scene, ui>>
    BY <1>5 DEF ReadMsg
  <2> QED
    BY <2>1, <2>2, ShowsIdle
<1>6. CASE SetCursor \/ SetDesktopName \/ PixelBufferChange \/ SetDesktopSize
           \/ (\E new \in ClientEncodings : SetEncodings(new)) \/ UNCHANGED writerVars
  <2>1. UNCHANGED <<scene, ui, stream, viewer>>
    BY <1>6 DEF SetCursor, SetDesktopName, PixelBufferChange, SetDesktopSize, SetEncodings,
                writerVars
  <2> QED
    BY <1>1, <2>1
<1> QED
  BY <1>2, <1>3, <1>4, <1>5, <1>6 DEF WriterNext

\* With nothing left to send and nothing left to read, what is shown is all there.
LEMMA ShowsAll ==
  ASSUME Shows
  PROVE  DecodedIsEncoded
<1> SUFFICES ASSUME ui.changed \cup ui.copied = {}, ui.cursor = {}, stream = <<>>
             PROVE  viewer.picture = Shown
  BY DEF DecodedIsEncoded
<1>1. \A b : Reads(viewer.picture, stream, b) => viewer.picture = b
  <2> DEFINE s == stream
  <2>1. Len(s) = 0
    BY EmptyList
  <2> HIDE DEF s
  <2>2. \A b : Reads(viewer.picture, s, b) => viewer.picture = b
    BY <2>1, ReadsTail
  <2> QED
    BY <2>2 DEF s
<1>2. CASE Sent
  BY <1>1, <1>2 DEF Sent
<1>3. CASE Pending
  <2>1. viewer.picture = Shot(Old)
    BY <1>1, <1>3, BeforeIs DEF Pending
  <2>2. \A p \in Frame : Old[p] = New[p]
    BY DEF Old
  <2>3. \A p \in Frame : Final[p] = New[p]
    BY <1>3 DEF Pending, Final, New
  <2>4. Shot(Old) = Shot(Final)
    BY <2>2, <2>3, ShotsAre
  <2> QED
    BY <2>1, <2>4, ShownIs DEF Shows
<1> QED
  BY <1>2, <1>3 DEF Shows

\* When everything is sent and read, the viewer shows the framebuffer: for every picture,
\* region, split, copy, cursor and client, if each of the encodings but Raw, which is
\* proved to, makes on its own of one rectangle what has been encoded.
THEOREM ViewerShowsTheScreen ==
  ASSUME \A e \in Codecs \ {"Raw"} : Faithful(e)
  PROVE  WriterSpec /\ []FewRects => []DecodedIsEncoded
<1>0. \A e \in Codecs : Faithful(e)
  BY RawIsFaithful
<1>1. WriterInit => InSync /\ Shows
  BY SyncInit, ShowsInit
<1>2. ReadyToSend /\ FewRects /\ InSync /\ Shows /\ [WriterNext]_writerVars => InSync' /\ Shows'
  BY <1>0, SyncKept, ShowsKept
<1>3. Shows => DecodedIsEncoded
  BY ShowsAll
<1> QED
  BY <1>1, <1>2, <1>3, AlwaysReady, PTL DEF WriterSpec

-----------------------------------------------------------------------------
(***************************************************************************)
(* CopyRects: moving the rectangles of a region in get_rects' order, row   *)
(* by row, moves the region: for every region, distance and framebuffer.   *)
(***************************************************************************)
USE ScreenAssumption, JobAssumption

\* What Init takes from Jobs and no step changes.
JobInv ==
  /\ rects \in Seq(Rectangle)
  /\ delta \in Point
  /\ Banded(rects)
  /\ Inside(rects, delta)

\* Where get_rects' loops stand: the bands ahead are those of the indices not
\* reached yet, the rectangles left of this band are one after the other and
\* have its y1, and no band ahead has.
LoopInv ==
  /\ nRects \in 0 .. Len(rects)
  /\ nRectsInBand \in 0 .. Len(rects)
  /\ i \in Int
  /\ rows \in Nat
  /\ next = IF topdown THEN Len(rects) - nRects + 1 ELSE nRects
  /\ nRectsInBand = 0 => i = next /\ rows = 0
  /\ nRectsInBand > 0 =>
       /\ Band \subseteq 1 .. Len(rects)
       /\ Band \cap Ahead = {}
       /\ \A k \in Band : rects[k].y1 = rects[i].y1
       /\ \A k \in Ahead : rects[k].y1 # rects[i].y1
       /\ rows < rects[i].y2 - rects[i].y1

\* Every rectangle of the job is within the screen, and so is what it is read from.
LEMMA RectType ==
  ASSUME JobInv, NEW k \in 1 .. Len(rects)
  PROVE  /\ rects[k] \in Rectangle
         /\ Nonempty(rects[k])
         /\ Pixels(rects[k]) \subseteq Screen
         /\ \A p \in Pixels(rects[k]) : Source(p) \in Screen
  BY DEF JobInv, Banded, Inside, Source

\* Two rectangles are in one band or one is above the other.
LEMMA RectsApart ==
  ASSUME JobInv, NEW k \in 1 .. Len(rects), NEW l \in 1 .. Len(rects), k < l
  PROVE  \/ rects[k].y2 <= rects[l].y1
         \/ /\ rects[k].y1 = rects[l].y1
            /\ rects[k].y2 = rects[l].y2
            /\ rects[k].x2 <= rects[l].x1
  <1>1. l \in k + 1 .. Len(rects)
    BY DEF JobInv
  <1> QED
    BY <1>1 DEF JobInv, Banded, Precedes

\* The rows left of a rectangle are on one side of the row that is next.
LEMMA RowsLeftMember ==
  ASSUME NEW r \in Rectangle, Nonempty(r), NEW p, delta \in Point, rows \in Nat
  PROVE  p \in RowsLeft(r) <=>
           /\ p \in Pixels(r)
           /\ IF delta[2] > 0 THEN p[2] <= r.y2 - 1 - rows ELSE p[2] >= r.y1 + rows
  <1>1. ASSUME p \in RowsLeft(r)
        PROVE  /\ p \in Pixels(r)
               /\ IF delta[2] > 0 THEN p[2] <= r.y2 - 1 - rows ELSE p[2] >= r.y1 + rows
    <2>1. PICK k \in rows .. r.y2 - r.y1 - 1 : p \in Row(r, k)
      BY <1>1 DEF RowsLeft
    <2> QED
      BY <2>1, PixelsMember DEF Row, Rectangle, Point
  <1>2. ASSUME p \in Pixels(r),
               IF delta[2] > 0 THEN p[2] <= r.y2 - 1 - rows ELSE p[2] >= r.y1 + rows
        PROVE  p \in RowsLeft(r)
    <2> DEFINE k == IF delta[2] > 0 THEN r.y2 - 1 - p[2] ELSE p[2] - r.y1
    <2>1. k \in rows .. r.y2 - r.y1 - 1
      BY <1>2, PixelsMember DEF Rectangle, Point
    <2>2. p \in Row(r, k)
      BY <1>2, PixelsMember DEF Row, Rectangle, Point
    <2> QED
      BY <2>1, <2>2 DEF RowsLeft
  <1> QED
    BY <1>1, <1>2

\* A row of the rectangle at i holds no pixel of a rectangle that comes later,
\* and none that such a pixel is to get its content from.
LEMMA LaterIsApart ==
  ASSUME JobInv, LoopInv, nRectsInBand > 0,
         NEW k \in Ahead \cup (Band \ {i}),
         NEW p \in Pixels(rects[k]), NEW q \in Pixels(rects[i])
  PROVE  p # q /\ Source(p) # q
  <1>1. /\ i \in 1 .. Len(rects)
        /\ k \in 1 .. Len(rects)
        /\ k # i
    BY DEF LoopInv, Band, Ahead, JobInv
  <1> DEFINE r == rects[i]
             s == rects[k]
  <1>2. r \in Rectangle /\ Nonempty(r) /\ s \in Rectangle /\ Nonempty(s)
    BY <1>1, RectType
  <1>3. /\ p \in Point /\ s.x1 <= p[1] /\ p[1] < s.x2 /\ s.y1 <= p[2] /\ p[2] < s.y2
        /\ q \in Point /\ r.x1 <= q[1] /\ q[1] < r.x2 /\ r.y1 <= q[2] /\ q[2] < r.y2
    BY <1>2, PixelsMember
  <1>4. /\ delta[1] \in Int /\ delta[2] \in Int
        /\ p[1] \in Int /\ p[2] \in Int /\ q[1] \in Int /\ q[2] \in Int
        /\ r.x1 \in Int /\ r.x2 \in Int /\ r.y1 \in Int /\ r.y2 \in Int
        /\ s.x1 \in Int /\ s.x2 \in Int /\ s.y1 \in Int /\ s.y2 \in Int
    BY <1>2, <1>3 DEF JobInv, Point, Rectangle
  <1>5. Source(p)[1] = p[1] - delta[1] /\ Source(p)[2] = p[2] - delta[2]
    BY <1>4 DEF Source, Shift, Negate
  <1>6. CASE k \in Ahead
    <2>1. s.y1 # r.y1
      BY <1>6 DEF LoopInv
    <2>2. CASE topdown
      <3>1. i < k
        BY <1>1, <1>6, <2>2 DEF LoopInv, Band, Ahead, JobInv
      <3>2. r.y2 <= s.y1
        BY <1>1, <2>1, <3>1, RectsApart
      <3>3. p[2] # q[2] /\ p[2] - delta[2] # q[2]
        <4> HIDE DEF r, s
        <4>1. q[2] < p[2]
          BY <1>3, <1>4, <3>2
        <4>2. delta[2] <= 0
          BY <2>2 DEF topdown
        <4> QED
          BY <1>4, <4>1, <4>2
      <3> QED
        BY <1>5, <3>3
    <2>3. CASE ~topdown
      <3>1. k < i
        BY <1>1, <1>6, <2>3 DEF LoopInv, Band, Ahead, JobInv
      <3>2. s.y2 <= r.y1
        BY <1>1, <2>1, <3>1, RectsApart
      <3>3. p[2] # q[2] /\ p[2] - delta[2] # q[2]
        <4> HIDE DEF r, s
        <4>1. p[2] < q[2]
          BY <1>3, <1>4, <3>2
        <4>2. 0 < delta[2]
          BY <1>4, <2>3 DEF topdown
        <4> QED
          BY <1>4, <4>1, <4>2
      <3> QED
        BY <1>5, <3>3
    <2> QED
      BY <2>2, <2>3
  <1>7. CASE k \in Band
    <2>1. s.y1 = r.y1
      BY <1>7 DEF LoopInv
    <2>2. CASE left2right
      <3>1. i < k
        BY <1>1, <1>7, <2>2 DEF Band, LoopInv
      <3>2. r.x2 <= s.x1
        BY <1>1, <1>2, <2>1, <3>1, RectsApart DEF Nonempty, Rectangle
      <3>3. p[1] # q[1] /\ p[1] - delta[1] # q[1]
        <4> HIDE DEF r, s
        <4>1. q[1] < p[1]
          BY <1>3, <1>4, <3>2
        <4>2. delta[1] <= 0
          BY <2>2 DEF left2right
        <4> QED
          BY <1>4, <4>1, <4>2
      <3> QED
        BY <1>5, <3>3
    <2>3. CASE ~left2right
      <3>1. k < i
        BY <1>1, <1>7, <2>3 DEF Band, LoopInv
      <3>2. s.x2 <= r.x1
        BY <1>1, <1>2, <2>1, <3>1, RectsApart DEF Nonempty, Rectangle
      <3>3. p[1] # q[1] /\ p[1] - delta[1] # q[1]
        <4> HIDE DEF r, s
        <4>1. p[1] < q[1]
          BY <1>3, <1>4, <3>2
        <4>2. 0 < delta[1]
          BY <1>4, <2>3 DEF left2right
        <4> QED
          BY <1>4, <4>1, <4>2
      <3> QED
        BY <1>5, <3>3
    <2> QED
      BY <2>2, <2>3
  <1> QED
    BY <1>6, <1>7

\* Nor one that a later row of the same rectangle is to be read from.
LEMMA LaterRowsAreApart ==
  ASSUME delta \in Point, rows \in Nat, NEW r \in Rectangle, Nonempty(r),
         NEW p \in RowsLeft(r), p \notin Row(r, rows), NEW q \in Row(r, rows)
  PROVE  Source(p) # q
  <1>1. /\ p \in Pixels(r)
        /\ IF delta[2] > 0 THEN p[2] <= r.y2 - 1 - rows ELSE p[2] >= r.y1 + rows
    BY RowsLeftMember
  <1>2. /\ p[2] # IF delta[2] > 0 THEN r.y2 - 1 - rows ELSE r.y1 + rows
        /\ q[2] = IF delta[2] > 0 THEN r.y2 - 1 - rows ELSE r.y1 + rows
    BY <1>1 DEF Row
  <1>3. p \in Point
    BY <1>1, PixelsMember
  <1>4. Source(p)[2] = p[2] - delta[2]
    BY <1>3 DEF Source, Shift, Negate, Point
  <1> QED
    BY <1>1, <1>2, <1>3, <1>4 DEF Point, Rectangle

\* The rows are what the rectangle consists of, and moving one takes it away
\* from those that are left.
LEMMA AllRows ==
  ASSUME delta \in Point, NEW r \in Rectangle, Nonempty(r)
  PROVE  UNION {Row(r, k) : k \in 0 .. r.y2 - r.y1 - 1} = Pixels(r)
  <1>1. ASSUME NEW k \in 0 .. r.y2 - r.y1 - 1 PROVE Row(r, k) \subseteq Pixels(r)
    BY DEF Row
  <1>2. ASSUME NEW p \in Pixels(r)
        PROVE  \E k \in 0 .. r.y2 - r.y1 - 1 : p \in Row(r, k)
    <2> DEFINE k == IF delta[2] > 0 THEN r.y2 - 1 - p[2] ELSE p[2] - r.y1
    <2>1. k \in 0 .. r.y2 - r.y1 - 1
      BY <1>2, PixelsMember DEF Rectangle, Point
    <2>2. p \in Row(r, k)
      BY <1>2, PixelsMember DEF Row, Rectangle, Point
    <2> QED
      BY <2>1, <2>2
  <1> QED
    BY <1>1, <1>2

\* With one row moved the others are left.
LEMMA OneRowLess ==
  ASSUME delta \in Point, rows \in Nat, NEW r \in Rectangle, rows < r.y2 - r.y1
  PROVE  /\ Row(r, rows) \subseteq RowsLeft(r)
         /\ RowsLeft(r) \ Row(r, rows) = UNION {Row(r, k) : k \in rows + 1 .. r.y2 - r.y1 - 1}
  <1>1. rows \in rows .. r.y2 - r.y1 - 1
    BY DEF Rectangle
  <1>2. ASSUME NEW k \in rows + 1 .. r.y2 - r.y1 - 1
        PROVE  k \in rows .. r.y2 - r.y1 - 1 /\ Row(r, k) \cap Row(r, rows) = {}
    BY DEF Row, Rectangle, Point
  <1>3. ASSUME NEW k \in rows .. r.y2 - r.y1 - 1, k \notin rows + 1 .. r.y2 - r.y1 - 1
        PROVE  k = rows
    BY <1>3 DEF Rectangle
  <1> QED
    BY <1>1, <1>2, <1>3 DEF RowsLeft

\* Moving a row takes it out of todo, and nothing in todo is to be read from it.
LEMMA CopyRowMoves ==
  ASSUME JobInv, LoopInv, CopyRow
  PROVE  /\ Row(rects[i], rows) \subseteq todo
         /\ todo' = todo \ Row(rects[i], rows)
         /\ \A p \in todo' : Source(p) \notin Row(rects[i], rows)
  <1> DEFINE part == Row(rects[i], rows)
             later == UNION {Pixels(rects[k]) : k \in Ahead \cup (Band \ {i})}
  <1>1. /\ nRectsInBand > 0
        /\ nRectsInBand \in Nat
        /\ i \in 1 .. Len(rects)
        /\ rows \in Nat /\ rows < rects[i].y2 - rects[i].y1
        /\ delta \in Point
        /\ rects' = rects /\ delta' = delta /\ nRects' = nRects
    BY DEF CopyRow, LoopInv, Band, JobInv
  <1>2. rects[i] \in Rectangle /\ Nonempty(rects[i])
    BY <1>1, RectType
  <1>3. todo = later \cup RowsLeft(rects[i])
    BY <1>1 DEF todo
  <1>4. part \subseteq RowsLeft(rects[i]) /\ part \subseteq Pixels(rects[i])
    BY <1>1, <1>2, OneRowLess DEF Row
  <1>5. ASSUME NEW p \in later PROVE p \notin part /\ Source(p) \notin part
    <2>1. PICK k \in Ahead \cup (Band \ {i}) : p \in Pixels(rects[k])
      BY <1>5
    <2> QED
      BY <1>1, <1>4, <2>1, LaterIsApart
  <1>6. ASSUME NEW p \in RowsLeft(rects[i]) \ part PROVE Source(p) \notin part
    BY <1>1, <1>2, LaterRowsAreApart
  <1>7. Ahead' = Ahead
    BY <1>1 DEF Ahead, topdown
  <1>8. todo' = later \cup (RowsLeft(rects[i]) \ part)
    <2>1. CASE rows + 1 < rects[i].y2 - rects[i].y1
      <3>1. rows' = rows + 1 /\ i' = i /\ nRectsInBand' = nRectsInBand
        BY <2>1 DEF CopyRow
      <3>2. Band' = Band
        BY <1>1, <3>1 DEF Band, left2right
      <3>3. RowsLeft(rects[i])' = UNION {Row(rects[i], k) : k \in rows + 1 .. rects[i].y2 - rects[i].y1 - 1}
        BY <1>1, <3>1 DEF RowsLeft, Row
      <3>4. RowsLeft(rects[i])' = RowsLeft(rects[i]) \ part
        BY <1>1, <1>2, <3>3, OneRowLess
      <3>5. todo' = later \cup RowsLeft(rects[i])'
        BY <1>1, <1>7, <3>1, <3>2 DEF todo
      <3> QED
        BY <3>4, <3>5
    <2>2. CASE ~(rows + 1 < rects[i].y2 - rects[i].y1)
      <3>1. /\ rows' = 0 /\ nRectsInBand' = nRectsInBand - 1
            /\ i' = IF nRectsInBand = 1 THEN next ELSE i + xInc
        BY <2>2 DEF CopyRow
      <3>2. RowsLeft(rects[i]) \ part = {}
        <4>1. rows + 1 .. rects[i].y2 - rects[i].y1 - 1 = {}
          BY <1>1, <1>2, <2>2 DEF Rectangle
        <4> QED
          BY <1>1, <1>2, <4>1, OneRowLess
      <3>3. CASE nRectsInBand = 1
        <4>1. Band \ {i} = {}
          BY <1>1, <3>3 DEF Band
        <4>2. Band' = {}
          BY <1>1, <3>1, <3>3 DEF Band, left2right, LoopInv
        <4>3. todo' = later
          BY <1>1, <1>7, <3>1, <3>3, <4>1, <4>2 DEF todo
        <4> QED
          BY <3>2, <4>3
      <3>4. CASE nRectsInBand # 1
        <4>1. i' = i + xInc /\ nRectsInBand' # 0
          BY <1>1, <3>1, <3>4
        <4>2. Band' = Band \ {i} /\ i' \in Band \ {i}
          BY <1>1, <3>1, <3>4, <4>1 DEF Band, left2right, xInc
        <4>3. i' \in 1 .. Len(rects)
          BY <1>1, <4>2 DEF LoopInv
        <4>4. rects[i'] \in Rectangle /\ Nonempty(rects[i'])
          BY <4>3, RectType
        <4>5. RowsLeft(rects[i])' = UNION {Row(rects[i'], k) : k \in 0 .. rects[i'].y2 - rects[i'].y1 - 1}
          BY <1>1, <3>1 DEF RowsLeft, Row
        <4>6. RowsLeft(rects[i])' = Pixels(rects[i'])
          BY <1>1, <4>4, <4>5, AllRows
        <4>7. todo' = (UNION {Pixels(rects[k]) : k \in Ahead \cup ((Band \ {i}) \ {i'})}) \cup Pixels(rects[i'])
          BY <1>1, <1>7, <4>1, <4>2, <4>6 DEF todo
        <4>8. todo' = later
          BY <4>2, <4>7
        <4> QED
          BY <3>2, <4>8
      <3> QED
        BY <3>3, <3>4
    <2> QED
      BY <2>1, <2>2
  <1> HIDE DEF part, later
  <1>9. part \subseteq todo /\ todo' = todo \ part /\ \A p \in todo' : Source(p) \notin part
    BY <1>3, <1>4, <1>5, <1>6, <1>8
  <1> QED
    BY <1>9 DEF part

\* What is to be moved is part of the region, and read from the screen.
LEMMA TodoType ==
  ASSUME JobInv, LoopInv
  PROVE  /\ todo \subseteq region
         /\ region \subseteq Screen
         /\ \A p \in region : Source(p) \in Screen
  <1>1. Ahead \subseteq 1 .. Len(rects)
    BY DEF LoopInv, Ahead, JobInv
  <1>2. CASE nRectsInBand = 0
    <2>1. Band = {}
      BY <1>2 DEF Band, LoopInv
    <2>2. todo \subseteq region
      BY <1>1, <1>2, <2>1 DEF todo, region
    <2> QED
      BY <2>2, RectType DEF region
  <1>3. CASE nRectsInBand # 0
    <2>1. Band \subseteq 1 .. Len(rects) /\ i \in 1 .. Len(rects)
      BY <1>3 DEF LoopInv, Band
    <2>2. RowsLeft(rects[i]) \subseteq Pixels(rects[i])
      BY DEF RowsLeft, Row
    <2>3. todo \subseteq region
      BY <1>1, <1>3, <2>1, <2>2 DEF todo, region
    <2> QED
      BY <2>3, RectType DEF region
  <1> QED
    BY <1>2, <1>3

\* The loops go on as they should when a row has been moved ...
LEMMA CopyRowLoops ==
  ASSUME JobInv, LoopInv, CopyRow
  PROVE  LoopInv'
  <1>1. /\ nRectsInBand \in Nat /\ nRectsInBand > 0
        /\ i \in 1 .. Len(rects)
        /\ rects' = rects /\ delta' = delta /\ nRects' = nRects /\ next' = next
    BY DEF CopyRow, LoopInv, Band, JobInv
  <1>2. Ahead' = Ahead /\ topdown' = topdown
    BY <1>1 DEF Ahead, topdown
  <1>3. CASE rows + 1 < rects[i].y2 - rects[i].y1
    <2>1. rows' = rows + 1 /\ i' = i /\ nRectsInBand' = nRectsInBand
      BY <1>3 DEF CopyRow
    <2>2. Band' = Band
      BY <1>1, <2>1 DEF Band, left2right
    <2> QED
      BY <1>1, <1>2, <1>3, <2>1, <2>2 DEF LoopInv
  <1>4. CASE ~(rows + 1 < rects[i].y2 - rects[i].y1)
    <2>1. /\ rows' = 0 /\ nRectsInBand' = nRectsInBand - 1
          /\ i' = IF nRectsInBand = 1 THEN next ELSE i + xInc
      BY <1>4 DEF CopyRow
    <2>2. CASE nRectsInBand = 1
      <3>1. next \in Int
        BY DEF LoopInv, JobInv
      <3>2. nRectsInBand' = 0 /\ i' = next'
        BY <1>1, <2>1, <2>2
      <3> QED
        BY <1>1, <1>2, <2>1, <3>1, <3>2 DEF LoopInv
    <2>3. CASE nRectsInBand # 1
      <3>1. i' = i + xInc /\ nRectsInBand' > 0 /\ nRectsInBand' \in 0 .. Len(rects)
        BY <1>1, <2>1, <2>3 DEF LoopInv, JobInv
      <3>2. Band' = Band \ {i} /\ i' \in Band \ {i}
        BY <1>1, <2>1, <2>3, <3>1 DEF Band, left2right, xInc
      <3>3. i' \in 1 .. Len(rects) /\ rects[i'].y1 = rects[i].y1
        BY <1>1, <3>2 DEF LoopInv
      <3>4. 0 < rects[i'].y2 - rects[i'].y1
        BY <3>3, RectType DEF Nonempty, Rectangle
      <3> QED
        BY <1>1, <1>2, <2>1, <3>1, <3>2, <3>3, <3>4 DEF LoopInv
    <2> QED
      BY <2>2, <2>3
  <1> QED
    BY <1>3, <1>4

\* The bands are ordered by their y1.
LEMMA Descending ==
  ASSUME JobInv, NEW k \in 1 .. Len(rects), NEW l \in 1 .. Len(rects), k < l
  PROVE  rects[k].y1 <= rects[l].y1
  <1>1. /\ rects[k].y1 \in Int /\ rects[k].y2 \in Int /\ rects[l].y1 \in Int
        /\ rects[k].y1 < rects[k].y2
    BY RectType DEF Nonempty, Rectangle
  <1>2. rects[k].y2 <= rects[l].y1 \/ rects[k].y1 = rects[l].y1
    BY RectsApart
  <1> QED
    BY <1>1, <1>2

\* ... and when the next band is begun: it is what was the front of Ahead.
LEMMA StartBandLoops ==
  ASSUME JobInv, LoopInv, StartBand
  PROVE  /\ LoopInv'
         /\ Ahead = Ahead' \cup Band'
         /\ nRectsInBand' > 0
         /\ rows' = 0
  <1>1. PICK n \in 1 .. nRects :
               /\ SameBand(n)
               /\ n = nRects \/ ~SameBand(n + 1)
               /\ next' = i + n * yInc
               /\ nRects' = nRects - n
               /\ nRectsInBand' = n
               /\ i' = IF xInc # yInc THEN next' - yInc ELSE i
    BY DEF StartBand
  <1>2. /\ nRectsInBand = 0 /\ i = next /\ rows = 0 /\ rows' = 0
        /\ rects' = rects /\ delta' = delta
        /\ next = IF topdown THEN Len(rects) - nRects + 1 ELSE nRects
        /\ Len(rects) \in Nat
        /\ nRects \in 0 .. Len(rects)
    BY DEF StartBand, LoopInv, JobInv
  <1>6. /\ n \in Int /\ 1 <= n /\ n <= nRects
        /\ nRects \in Int /\ nRects <= Len(rects) /\ Len(rects) \in Int
        /\ nRects' = nRects - n /\ nRectsInBand' = n
    BY <1>1, <1>2
  <1>3. topdown' = topdown /\ left2right' = left2right
    BY <1>2 DEF topdown, left2right
  <1>4. CASE topdown
    <2>1. /\ i = Len(rects) - nRects + 1 /\ next' = i + n /\ yInc = 1
          /\ i' = IF left2right THEN i ELSE i + n - 1
      BY <1>1, <1>2, <1>4 DEF xInc, yInc
    <2>2. Ahead = i .. Len(rects) /\ Ahead' = i + n .. Len(rects)
      BY <1>2, <1>3, <1>4, <1>6, <2>1 DEF Ahead
    <2>3. Band' = i .. i + n - 1
      BY <1>2, <1>3, <1>6, <2>1 DEF Band
    <2>4. ASSUME NEW k \in i .. i + n - 1 PROVE rects[k].y1 = rects[i].y1
      <3>1. k - i \in 0 .. n - 1 /\ i + (k - i) * 1 = k
        BY <1>2, <1>6, <2>1
      <3> QED
        BY <1>1, <2>1, <3>1 DEF SameBand
    <2>5. ASSUME NEW k \in i + n .. Len(rects) PROVE rects[k].y1 # rects[i].y1
      <3>1. n # nRects /\ i + n \in 1 .. Len(rects) /\ i \in 1 .. Len(rects) /\ k \in 1 .. Len(rects)
        BY <1>2, <1>6, <2>1
      <3>2. PICK m \in 0 .. n : rects[i + m * yInc].y1 # rects[i].y1
        BY <1>1, <3>1 DEF SameBand
      <3>3. m = n
        <4>1. m \notin 0 .. n - 1
          BY <1>1, <3>2 DEF SameBand
        <4> QED
          BY <1>6, <4>1
      <3>4. rects[i + n].y1 # rects[i].y1
        BY <1>1, <2>1, <3>2, <3>3
      <3>5. rects[i].y1 \in Int /\ rects[i + n].y1 \in Int /\ rects[k].y1 \in Int
        BY <3>1, RectType DEF Rectangle
      <3>6. rects[i].y1 <= rects[i + n].y1
        <4>1. i < i + n
          BY <1>2, <1>6, <2>1
        <4> QED
          BY <3>1, <4>1, Descending
      <3>7. k = i + n \/ rects[i + n].y1 <= rects[k].y1
        <4>1. k = i + n \/ i + n < k
          BY <1>2, <1>6, <2>1
        <4> QED
          BY <3>1, <4>1, Descending
      <3> QED
        BY <3>4, <3>5, <3>6, <3>7
    <2>6. i' \in i .. i + n - 1 /\ i' \in 1 .. Len(rects) /\ i \in 1 .. Len(rects)
      BY <1>2, <1>6, <2>1
    <2>7. 0 < rects[i'].y2 - rects[i'].y1
      BY <2>6, RectType DEF Nonempty, Rectangle
    <2>8. LoopInv'
      <3>1. /\ nRects' \in 0 .. Len(rects') /\ nRectsInBand' \in 0 .. Len(rects')
            /\ i' \in Int /\ rows' \in Nat /\ nRectsInBand' # 0
        BY <1>2, <1>6, <2>6
      <3>2. next' = IF topdown' THEN Len(rects') - nRects' + 1 ELSE nRects'
        BY <1>2, <1>3, <1>4, <1>6, <2>1
      <3>3. Band' \subseteq 1 .. Len(rects') /\ Band' \cap Ahead' = {}
        BY <1>2, <1>6, <2>1, <2>2, <2>3
      <3>4. rects[i'].y1 = rects[i].y1
        BY <2>4, <2>6
      <3>5. /\ \A k \in Band' : rects'[k].y1 = rects'[i'].y1
            /\ \A k \in Ahead' : rects'[k].y1 # rects'[i'].y1
            /\ rows' < rects'[i'].y2 - rects'[i'].y1
        BY <1>2, <2>2, <2>3, <2>4, <2>5, <2>7, <3>4
      <3> QED
        BY <3>1, <3>2, <3>3, <3>5 DEF LoopInv
    <2> QED
      BY <1>2, <1>6, <2>1, <2>2, <2>3, <2>8
  <1>5. CASE ~topdown
    <2>1. /\ i = nRects /\ next' = i - n /\ yInc = -1
          /\ i' = IF left2right THEN i - n + 1 ELSE i
      BY <1>1, <1>2, <1>5 DEF xInc, yInc
    <2>2. Ahead = 1 .. i /\ Ahead' = 1 .. i - n
      BY <1>2, <1>3, <1>5, <1>6, <2>1 DEF Ahead
    <2>3. Band' = i - n + 1 .. i
      BY <1>2, <1>3, <1>6, <2>1 DEF Band
    <2>4. ASSUME NEW k \in i - n + 1 .. i PROVE rects[k].y1 = rects[i].y1
      <3>1. i - k \in 0 .. n - 1 /\ i + (i - k) * (-1) = k
        BY <1>2, <1>6, <2>1
      <3> QED
        BY <1>1, <2>1, <3>1 DEF SameBand
    <2>5. ASSUME NEW k \in 1 .. i - n PROVE rects[k].y1 # rects[i].y1
      <3>1. n # nRects /\ i - n \in 1 .. Len(rects) /\ i \in 1 .. Len(rects) /\ k \in 1 .. Len(rects)
        BY <1>2, <1>6, <2>1
      <3>2. PICK m \in 0 .. n : rects[i + m * yInc].y1 # rects[i].y1
        BY <1>1, <3>1 DEF SameBand
      <3>3. m = n
        <4>1. m \notin 0 .. n - 1
          BY <1>1, <3>2 DEF SameBand
        <4> QED
          BY <1>6, <4>1
      <3>4. rects[i - n].y1 # rects[i].y1
        BY <1>1, <2>1, <3>2, <3>3
      <3>5. rects[i].y1 \in Int /\ rects[i - n].y1 \in Int /\ rects[k].y1 \in Int
        BY <3>1, RectType DEF Rectangle
      <3>6. rects[i - n].y1 <= rects[i].y1
        <4>1. i - n < i
          BY <1>2, <1>6, <2>1
        <4> QED
          BY <3>1, <4>1, Descending
      <3>7. k = i - n \/ rects[k].y1 <= rects[i - n].y1
        <4>1. k = i - n \/ k < i - n
          BY <1>2, <1>6, <2>1
        <4> QED
          BY <3>1, <4>1, Descending
      <3> QED
        BY <3>4, <3>5, <3>6, <3>7
    <2>6. i' \in i - n + 1 .. i /\ i' \in 1 .. Len(rects) /\ i \in 1 .. Len(rects)
      BY <1>2, <1>6, <2>1
    <2>7. 0 < rects[i'].y2 - rects[i'].y1
      BY <2>6, RectType DEF Nonempty, Rectangle
    <2>8. LoopInv'
      <3>1. /\ nRects' \in 0 .. Len(rects') /\ nRectsInBand' \in 0 .. Len(rects')
            /\ i' \in Int /\ rows' \in Nat /\ nRectsInBand' # 0
        BY <1>2, <1>6, <2>6
      <3>2. next' = IF topdown' THEN Len(rects') - nRects' + 1 ELSE nRects'
        BY <1>2, <1>3, <1>5, <1>6, <2>1
      <3>3. Band' \subseteq 1 .. Len(rects') /\ Band' \cap Ahead' = {}
        BY <1>2, <1>6, <2>1, <2>2, <2>3
      <3>4. rects[i'].y1 = rects[i].y1
        BY <2>4, <2>6
      <3>5. /\ \A k \in Band' : rects'[k].y1 = rects'[i'].y1
            /\ \A k \in Ahead' : rects'[k].y1 # rects'[i'].y1
            /\ rows' < rects'[i'].y2 - rects'[i'].y1
        BY <1>2, <2>2, <2>3, <2>4, <2>5, <2>7, <3>4
      <3> QED
        BY <3>1, <3>2, <3>3, <3>5 DEF LoopInv
    <2> QED
      BY <1>2, <1>6, <2>1, <2>2, <2>3, <2>8
  <1> QED
    BY <1>4, <1>5

\* StartBand leaves what is to be moved as it is.
LEMMA StartBandMovesNothing ==
  ASSUME JobInv, LoopInv, StartBand
  PROVE  todo' = todo
  <1>1. /\ nRectsInBand = 0 /\ nRectsInBand' > 0 /\ rows' = 0
        /\ rects' = rects /\ delta' = delta /\ delta \in Point
        /\ Ahead = Ahead' \cup Band'
        /\ Len(rects) \in Nat
    BY StartBandLoops DEF StartBand, JobInv
  <1>2. i' \in Band' /\ i' \in 1 .. Len(rects)
    BY <1>1, StartBandLoops DEF Band, LoopInv
  <1>3. rects[i'] \in Rectangle /\ Nonempty(rects[i'])
    BY <1>2, RectType
  <1>4. RowsLeft(rects[i])' = UNION {Row(rects[i'], k) : k \in 0 .. rects[i'].y2 - rects[i'].y1 - 1}
    BY <1>1 DEF RowsLeft, Row
  <1>5. RowsLeft(rects[i])' = Pixels(rects[i'])
    BY <1>1, <1>3, <1>4, AllRows
  <1>6. todo' = (UNION {Pixels(rects[k]) : k \in Ahead' \cup (Band' \ {i'})}) \cup Pixels(rects[i'])
    BY <1>1, <1>5 DEF todo
  <1>7. todo' = UNION {Pixels(rects[k]) : k \in Ahead}
    BY <1>1, <1>2, <1>6
  <1>8. Band = {}
    BY <1>1 DEF Band, LoopInv
  <1> QED
    BY <1>1, <1>7, <1>8 DEF todo
-----------------------------------------------------------------------------
\* What has been moved came from where it should, and what is still to be moved
\* has not been overwritten.
PictureInv ==
  /\ picture = [p \in Screen |-> IF p \in region \ todo THEN Source(p) ELSE p]
  /\ \A p \in todo : Source(p) \notin region \ todo

Inv == JobInv /\ LoopInv /\ PictureInv

\* At first the whole region is to be moved.
LEMMA InitTodo ==
  ASSUME Init
  PROVE  JobInv /\ LoopInv /\ todo = region
  <1>1. PICK job \in Jobs : rects = job.rects /\ delta = job.delta
    BY DEF Init, StartJob
  <1>2. JobInv
    BY <1>1 DEF JobInv
  <1>3. /\ Len(rects) \in Nat
        /\ nRects = Len(rects) /\ nRectsInBand = 0 /\ next = i /\ rows = 0
        /\ i = IF topdown THEN 1 ELSE Len(rects)
    BY <1>2 DEF Init, StartJob, JobInv
  <1>4. LoopInv
    BY <1>3 DEF LoopInv
  <1>5. Ahead = 1 .. Len(rects) /\ Band = {}
    BY <1>3 DEF Ahead, Band
  <1> QED
    BY <1>2, <1>3, <1>4, <1>5 DEF todo, region

\* The invariant holds before anything is moved.
LEMMA InitInv == Init => Inv
  <1> SUFFICES ASSUME Init PROVE Inv
    OBVIOUS
  <1>1. picture = [p \in Screen |-> p]
    BY DEF Init, StartJob
  <1> QED
    BY <1>1, InitTodo DEF Inv, PictureInv

\* No step changes the job.
LEMMA JobUnchanged ==
  ASSUME JobInv, rects' = rects, delta' = delta
  PROVE  JobInv' /\ region' = region
  BY DEF JobInv, Inside, Banded, region

\* The head of get_rects' outer loop keeps the invariant.
LEMMA StartBandInv == Inv /\ StartBand => Inv'
  <1> SUFFICES ASSUME Inv, StartBand PROVE Inv'
    OBVIOUS
  <1> USE DEF Inv
  <1>1. rects' = rects /\ delta' = delta /\ picture' = picture
    BY DEF StartBand
  <1>2. JobInv' /\ region' = region /\ LoopInv' /\ todo' = todo
    BY <1>1, JobUnchanged, StartBandLoops, StartBandMovesNothing
  <1>3. PictureInv'
    BY <1>1, <1>2 DEF PictureInv, Source
  <1> QED
    BY <1>2, <1>3

\* A row of copyRect keeps it.
LEMMA CopyRowInv == Inv /\ CopyRow => Inv'
  <1> SUFFICES ASSUME Inv, CopyRow PROVE Inv'
    OBVIOUS
  <1> USE DEF Inv
  <1> DEFINE part == Row(rects[i], rows)
  <1>1. /\ rects' = rects /\ delta' = delta
        /\ picture' = [p \in Screen |-> IF p \in part THEN picture[Source(p)] ELSE picture[p]]
    BY DEF CopyRow
  <1>2. JobInv' /\ region' = region /\ LoopInv'
    BY <1>1, JobUnchanged, CopyRowLoops
  <1>3. part \subseteq todo /\ todo' = todo \ part /\ \A p \in todo' : Source(p) \notin part
    BY CopyRowMoves
  <1>4. todo \subseteq region /\ region \subseteq Screen /\ \A p \in region : Source(p) \in Screen
    BY TodoType
  <1> HIDE DEF part
  <1>5. ASSUME NEW p \in Screen
        PROVE  picture'[p] = IF p \in region \ todo' THEN Source(p) ELSE p
    <2>1. CASE p \in part
      <3>1. Source(p) \in Screen /\ Source(p) \notin region \ todo
        BY <1>3, <1>4, <2>1 DEF PictureInv
      <3>2. picture[Source(p)] = Source(p)
        BY <3>1 DEF PictureInv
      <3> QED
        BY <1>1, <1>3, <1>4, <2>1, <3>2
    <2>2. CASE p \notin part
      <3>1. picture'[p] = picture[p]
        BY <1>1, <2>2
      <3>2. picture[p] = IF p \in region \ todo THEN Source(p) ELSE p
        BY DEF PictureInv
      <3> QED
        BY <1>3, <2>2, <3>1, <3>2
    <2> QED
      BY <2>1, <2>2
  <1>6. picture' = [p \in Screen |-> IF p \in region \ todo' THEN Source(p) ELSE p]
    BY <1>1, <1>5
  <1>7. \A p \in todo' : Source(p) \notin region \ todo'
    BY <1>3 DEF PictureInv
  <1>8. PictureInv'
    BY <1>1, <1>2, <1>6, <1>7 DEF PictureInv, Source
  <1> QED
    BY <1>2, <1>8

\* It holds in every state.
LEMMA Invariance == Spec => []Inv
  <1>1. Inv /\ UNCHANGED vars => Inv'
    <2> SUFFICES ASSUME Inv, UNCHANGED vars PROVE Inv'
      OBVIOUS
    <2>1. /\ rects' = rects /\ delta' = delta /\ picture' = picture /\ i' = i
          /\ nRects' = nRects /\ nRectsInBand' = nRectsInBand /\ next' = next /\ rows' = rows
      BY DEF vars
    <2>2. topdown' = topdown /\ left2right' = left2right
      BY <2>1 DEF topdown, left2right
    <2>3. Ahead' = Ahead /\ Band' = Band
      BY <2>1, <2>2 DEF Ahead, Band
    <2>4. JobInv' /\ LoopInv' /\ region' = region
      BY <2>1, <2>2, <2>3, JobUnchanged DEF Inv, LoopInv
    <2>5. todo' = todo
      BY <2>1, <2>3 DEF todo, RowsLeft, Row
    <2> QED
      BY <2>1, <2>4, <2>5 DEF Inv, PictureInv, Source
  <1> QED
    BY <1>1, InitInv, StartBandInv, CopyRowInv, PTL DEF Spec, Next

\* Moving the rectangles in get_rects' order, row by row, leaves every pixel of
\* the region with what was delta away from it and every other pixel as it was:
\* ComparingUpdateTracker::compare and the viewer's CopyRectDecoder take the
\* region to be moved at once.
THEOREM RegionMoved == Spec => []AllMoved
  <1>1. Inv => AllMoved
    <2> SUFFICES ASSUME Inv, nRects = 0, nRectsInBand = 0
                 PROVE  picture = [p \in Screen |-> IF p \in region THEN Source(p) ELSE p]
      BY DEF AllMoved
    <2>1. Ahead = {} /\ Band = {}
      BY DEF Ahead, Band, Inv, LoopInv, JobInv
    <2>2. todo = {}
      BY <2>1 DEF todo
    <2> QED
      BY <2>2 DEF Inv, PictureInv
  <1> QED
    BY <1>1, Invariance, PTL

\* Every row moved is a move SafeCopy allows: no row or rectangle that comes
\* after it is read from what it overwrites (get_rects' and copyRect's order).
THEOREM ImplementsSafeCopy == Spec => SafeSpec
  <1>1. Init => Safe!Init
    <2> SUFFICES ASSUME Init PROVE Safe!Init
      OBVIOUS
    <2>1. JobInv /\ LoopInv /\ todo = region
      BY InitTodo
    <2>2. picture = [p \in Screen |-> p] /\ delta \in Point
      BY <2>1 DEF Init, StartJob, JobInv
    <2> QED
      BY <2>1, <2>2, TodoType
         DEF Safe!Init, Safe!Point, Point, Safe!Source, Safe!Shift, Safe!Negate,
             Source, Shift, Negate
  <1>2. Inv /\ StartBand => UNCHANGED Safe!copyVars
    <2> SUFFICES ASSUME Inv, StartBand PROVE UNCHANGED Safe!copyVars
      OBVIOUS
    <2>1. rects' = rects /\ delta' = delta /\ picture' = picture
      BY DEF StartBand
    <2> QED
      BY <2>1, JobUnchanged, StartBandMovesNothing DEF Inv, Safe!copyVars
  <1>3. Inv /\ CopyRow => Safe!Next
    <2> SUFFICES ASSUME Inv, CopyRow PROVE Safe!Next
      OBVIOUS
    <2> DEFINE part == Row(rects[i], rows)
    <2>1. /\ rects' = rects /\ delta' = delta
          /\ picture' = [p \in Screen |-> IF p \in part THEN picture[Source(p)] ELSE picture[p]]
      BY DEF CopyRow
    <2>2. part \subseteq todo /\ todo' = todo \ part /\ \A p \in todo' : Source(p) \notin part
      BY CopyRowMoves DEF Inv
    <2>3. region' = region
      BY <2>1, JobUnchanged DEF Inv
    <2> HIDE DEF part
    <2>4. Safe!Move(part)
      BY <2>1, <2>2, <2>3
         DEF Safe!Move, Safe!Source, Safe!Shift, Safe!Negate, Source, Shift, Negate
    <2> QED
      BY <2>2, <2>4 DEF Safe!Next
  <1>4. UNCHANGED vars => UNCHANGED Safe!copyVars
    BY DEF vars, Safe!copyVars, region, todo, RowsLeft, Row, Ahead, Band, topdown, left2right
  <1> QED
    BY <1>1, <1>2, <1>3, <1>4, Invariance, PTL DEF Spec, Next, SafeSpec, Safe!Spec

\* What JobAssumption asks of a job is what get_rects gives for a region: a copied
\* region that is, like what it is copied from, inside the framebuffer.
THEOREM RegionsAreJobs ==
  ASSUME NEW R \in SUBSET Screen, IsFiniteSet(R), NEW d \in Point,
         Translate(R, Negate(d)) \subseteq Screen
  PROVE  /\ [rects |-> RectanglesOf(R), delta |-> d] \in [rects : Seq(Rectangle), delta : Point]
         /\ Banded(RectanglesOf(R)) /\ Inside(RectanglesOf(R), d)
<1> DEFINE rs == RectanglesOf(R)
<1>1. R \in SUBSET Point
  OBVIOUS
<1>2. /\ rs \in Seq(Rectangle)
      /\ Banded(rs)
      /\ UNION {Pixels(rs[k]) : k \in 1 .. Len(rs)} = R
  BY <1>1, RectanglesAreExact
<1> HIDE DEF rs
<1>3. ASSUME NEW k \in 1 .. Len(rs), NEW p \in Pixels(rs[k])
      PROVE  p \in Screen /\ Shift(p, Negate(d)) \in Screen
  <2>1. p \in R
    BY <1>2
  <2> QED
    BY <2>1 DEF Translate
<1> QED
  BY <1>2, <1>3 DEF Inside, rs

=============================================================================
