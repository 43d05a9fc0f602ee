------------------------- MODULE PlaybackEngineProofs -------------------------
(***************************************************************************)
(* What the playback engine shows is what the schedule says, for every     *)
(* playlist, cycle, instant and number of ticks in a second.               *)
(*                                                                         *)
(* The sums over a playlist are defined by recursion.  What is shown of    *)
(* them is shown from the least number at which it would fail.             *)
(***************************************************************************)
EXTENDS PlaybackEngine, WellFoundedInduction, TLAPS

-----------------------------------------------------------------------------
(* Numbers                                                                 *)

(* Every set of natural numbers that is not empty has a least element.     *)
LEMMA LeastNumber ==
    ASSUME NEW T, T \subseteq Nat, T # {}
    PROVE  \E x \in T : \A y \in T : x <= y
<1> DEFINE R == {ss \in Nat \X Nat : ss[1] < ss[2]}
<1>1. IsWellFoundedOn(R, Nat)
  BY NatLessThanWellFounded, Zenon DEF OpToRel
<1>2. PICK x \in T : \A y \in T : <<y, x>> \notin R
  <2> HIDE DEF R
  <2> QED
    BY <1>1, WFMin
<1>3. ASSUME NEW y \in T PROVE x <= y
  <2>1. x \in Nat /\ y \in Nat /\ <<y, x>> \notin R
    BY <1>2
  <2>2. ~(y < x)
    BY <2>1
  <2> QED
    BY <2>1, <2>2
<1> QED
  BY <1>3

(* A set with 1 that has, with every number below n, the next one too, has *)
(* all numbers from 1 to n.                                                *)
LEMMA UpTo ==
    ASSUME NEW n \in Nat, NEW T, 1 \in T, \A k \in 1..(n - 1) : k \in T => k + 1 \in T
    PROVE  \A k \in 1..n : k \in T
<1> DEFINE Bad == {k \in 1..n : k \notin T}
<1> SUFFICES ASSUME Bad # {} PROVE FALSE
  OBVIOUS
<1>1. PICK k \in Bad : \A y \in Bad : k <= y
  <2> HIDE DEF Bad
  <2>1. Bad \subseteq Nat
    BY DEF Bad
  <2> QED
    BY <2>1, LeastNumber
<1>2. k \in 1..n /\ k \notin T /\ k # 1
  OBVIOUS
<1>3. k - 1 \in 1..(n - 1)
  BY <1>2
<1>4. k - 1 \in T
  <2>1. k - 1 \notin Bad
    BY <1>1, <1>2
  <2> QED
    BY <2>1, <1>3
<1>5. (k - 1) + 1 \in T
  BY <1>3, <1>4
<1> QED
  BY <1>2, <1>5

(* The recursion over 1..n that starts with a, and that it defines a       *)
(* function.                                                               *)
Recursion(g, n, a, step) == g = [i \in 1..n |-> IF i = 1 THEN a ELSE step[<<g[i - 1], i>>]]

LEMMA RecursionDefines ==
    ASSUME NEW n \in Nat, NEW V, NEW a \in V, NEW step \in [V \X (1..n) -> V]
    PROVE  \E g : Recursion(g, n, a, step)
<1> USE DEF Recursion
<1> DEFINE Defines(g, m) == Recursion(g, m, a, step)
           T == {m \in 1..n : \E g \in [1..m -> V] : Defines(g, m)}
<1>1. ASSUME n >= 1 PROVE 1 \in T
  <2> DEFINE g == [i \in 1..1 |-> a]
  <2>1. g \in [1..1 -> V] /\ Defines(g, 1)
    OBVIOUS
  <2>2. \E f \in [1..1 -> V] : Defines(f, 1)
    <3> HIDE DEF Defines, g
    <3> QED
      BY <2>1
  <2> QED
    BY <1>1, <2>2
<1>2. ASSUME NEW m \in 1..(n - 1), m \in T PROVE m + 1 \in T
  <2>1. PICK g \in [1..m -> V] : Defines(g, m)
    BY <1>2
  <2> DEFINE h == [i \in 1..(m + 1) |-> IF i = m + 1 THEN step[<<g[m], m + 1>>] ELSE g[i]]
  <2>2. g[m] \in V /\ <<g[m], m + 1>> \in V \X (1..n)
    BY <2>1
  <2>3. h \in [1..(m + 1) -> V]
    BY <2>1, <2>2
  <2>4. ASSUME NEW i \in 1..(m + 1)
        PROVE  h[i] = IF i = 1 THEN a ELSE step[<<h[i - 1], i>>]
    <3>1. CASE i = m + 1
      <4>1. i # 1 /\ i - 1 = m /\ h[i - 1] = g[m] /\ h[i] = step[<<g[m], m + 1>>]
        BY <3>1
      <4> QED
        BY <4>1, <3>1
    <3>2. CASE i # m + 1
      <4>1. i \in 1..m /\ h[i] = g[i] /\ (i # 1 => i - 1 \in 1..m /\ h[i - 1] = g[i - 1])
        BY <3>2
      <4>2. g[i] = IF i = 1 THEN a ELSE step[<<g[i - 1], i>>]
        BY <2>1, <4>1
      <4> QED
        BY <4>1, <4>2
    <3> QED
      BY <3>1, <3>2
  <2>5. Defines(h, m + 1)
    <3> HIDE DEF h
    <3> QED
      BY <2>3, <2>4
  <2> HIDE DEF Defines, h
  <2>6. \E f \in [1..(m + 1) -> V] : Defines(f, m + 1)
    BY <2>3, <2>5
  <2> QED
    BY <2>6
<1>3. CASE n = 0
  <2> DEFINE g == [i \in 1..n |-> a]
  <2>1. Defines(g, n)
    BY <1>3
  <2> QED
    BY <2>1
<1>4. CASE n >= 1
  <2>1. n \in T
    <3> HIDE DEF T
    <3> QED
      BY <1>1, <1>2, <1>4, UpTo
  <2> QED
    BY <2>1
<1> QED
  BY <1>3, <1>4

(* Quotient and remainder, and that they are the only ones.                *)
LEMMA Division ==
    ASSUME NEW a \in Int, NEW b \in Nat \ {0}
    PROVE  a \div b \in Int /\ a % b \in 0..(b - 1) /\ a = b * (a \div b) + (a % b)
  OBVIOUS

LEMMA OnlyDivision ==
    ASSUME NEW a \in Int, NEW b \in Nat \ {0}, NEW q \in Int, NEW r \in 0..(b - 1), a = b * q + r
    PROVE  a \div b = q /\ a % b = r
  OBVIOUS

(* A multiple of b is below another only if its factor is.                 *)
LEMMA Multiples ==
    ASSUME NEW x \in Int, NEW y \in Int, NEW b \in Nat \ {0}
    PROVE  b * x < b * y <=> x < y
<1>1. ASSUME x < y PROVE b * x < b * y
  <2>1. y - x - 1 \in Nat
    BY <1>1
  <2>2. b * (y - x - 1) \in Nat
    BY <2>1
  <2>3. b * (y - x - 1) = b * y - b * x - b
    OBVIOUS
  <2> QED
    BY <2>2, <2>3
<1>2. ASSUME y <= x PROVE b * y <= b * x
  <2>1. x - y \in Nat
    BY <1>2
  <2>2. b * (x - y) \in Nat
    BY <2>1
  <2>3. b * (x - y) = b * x - b * y
    OBVIOUS
  <2> QED
    BY <2>2, <2>3
<1> QED
  BY <1>1, <1>2

(* Whole units within a multiple of the unit.                              *)
LEMMA UnitsWithin ==
    ASSUME NEW a \in Nat, NEW n \in Nat \ {0}, NEW b \in Nat \ {0}
    PROVE  (a % (b * n)) \div b = (a \div b) % n
<1> DEFINE q == a \div (b * n)
           r == a % (b * n)
           s == r \div b
           u == r % b
<1>1. b * n \in Nat \ {0}
  OBVIOUS
<1>2. q \in Int /\ r \in 0..(b * n - 1) /\ a = (b * n) * q + r
  <2> DEFINE m == b * n
  <2>1. m \in Nat \ {0}
    BY <1>1
  <2> HIDE DEF m
  <2>2. a \div m \in Int /\ a % m \in 0..(m - 1) /\ a = m * (a \div m) + (a % m)
    BY <2>1, Division
  <2> QED
    BY <2>2 DEF m
<1>3. s \in Int /\ u \in 0..(b - 1) /\ r = b * s + u
  BY <1>2, Division
<1> HIDE DEF q, r, s, u
<1>4. s \in 0..(n - 1)
  <2>1. b * s < b * n /\ b * (-1) < b * s
    BY <1>1, <1>2, <1>3
  <2> QED
    BY <2>1, <1>3, Multiples
<1>5. a = b * (n * q + s) + u
  <2>1. (b * n) * q = b * (n * q) /\ b * (n * q + s) = b * (n * q) + b * s
    BY <1>2, <1>3
  <2> QED
    BY <2>1, <1>2, <1>3
<1>6. n * q + s \in Int
  BY <1>2, <1>3
<1>7. a \div b = n * q + s
  BY <1>3, <1>5, <1>6, OnlyDivision
<1>8. (n * q + s) % n = s
  BY <1>2, <1>4, <1>6, OnlyDivision
<1> QED
  BY <1>7, <1>8 DEF s, r

(* The remainder of the next number is the next one, or 0 after the last.  *)
LEMMA NextRemainder ==
    ASSUME NEW a \in Nat, NEW b \in Nat \ {0}
    PROVE  \/ (a + 1) % b = 0 /\ a % b = b - 1
           \/ (a + 1) % b = (a % b) + 1 /\ a % b < b - 1
<1> DEFINE q == a \div b
           r == a % b
<1>1. q \in Int /\ r \in 0..(b - 1) /\ a = b * q + r
  BY Division
<1> HIDE DEF q, r
<1>2. CASE r = b - 1
  <2>1. a + 1 = b * (q + 1) + 0 /\ a + 1 \in Int /\ q + 1 \in Int /\ 0 \in 0..(b - 1)
    BY <1>1, <1>2
  <2>2. (a + 1) % b = 0
    BY <2>1, <1>1, OnlyDivision
  <2> QED
    BY <2>2, <1>2 DEF r
<1>3. CASE r < b - 1
  <2>1. a + 1 = b * q + (r + 1) /\ r + 1 \in 0..(b - 1) /\ a + 1 \in Int
    BY <1>1, <1>3
  <2>2. (a + 1) % b = r + 1
    BY <2>1, <1>1, OnlyDivision
  <2> QED
    BY <2>2, <1>3 DEF r
<1> QED
  BY <1>1, <1>2, <1>3

-----------------------------------------------------------------------------
(* Playlists                                                               *)

LEMMA PlaylistFacts ==
    ASSUME NEW p \in Playlists
    PROVE  /\ Len(p) \in Nat /\ DOMAIN p = 1..Len(p) /\ (p = <<>> <=> Len(p) = 0)
           /\ \A i \in 1..Len(p) :
                p[i].seconds \in Int /\ p[i].position \in Int /\ p[i].media \in BOOLEAN
<1> DEFINE Items == [position : Positions, seconds : ItemSeconds, media : MediaPresent]
<1>1. PICK m \in 0..MaxLength : p \in [1..m -> Items]
  BY DEF Playlists, BoundedSeq, SeqOf
<1>2. p \in Seq(Items) /\ Len(p) = m
  <2>1. m \in Nat
    BY ItemsAssumption
  <2> HIDE DEF Items
  <2> QED
    BY <1>1, <2>1
<1>3. \A i \in 1..Len(p) : p[i] \in Items
  BY <1>1, <1>2
<1>4. \A x \in Items : x.seconds \in Int /\ x.position \in Int /\ x.media \in BOOLEAN
  BY ItemsAssumption, MediaAssumption
<1> HIDE DEF Items
<1> QED
  BY <1>2, <1>3, <1>4

(* The least index of a walk, when it stops.                               *)
LEMMA FirstFacts ==
    ASSUME NEW S, S \subseteq Nat \ {0}
    PROVE  /\ S = {} => First(S) = 0
           /\ S # {} => First(S) \in S /\ \A i \in S : First(S) <= i
<1>1. ASSUME S # {} PROVE \E x \in S : \A y \in S : x <= y
  <2>1. S \subseteq Nat
    OBVIOUS
  <2> QED
    BY <1>1, <2>1, LeastNumber
<1> QED
  BY <1>1 DEF First, Min

(* The sum at the start of an item: 0, and then one item after the other.  *)
LEMMA StartOfNext ==
    ASSUME NEW p \in Playlists
    PROVE  /\ StartOf(p, 1) = 0
           /\ \A i \in 1..(Len(p) + 1) : StartOf(p, i) \in Int
           /\ \A i \in 1..Len(p) : StartOf(p, i + 1) = StartOf(p, i) + Ticks(p[i].seconds)
<1> DEFINE n == Len(p) + 1
           Sums(g) == g = [k \in 1..n |-> IF k = 1 THEN 0 ELSE g[k - 1] + Ticks(p[k - 1].seconds)]
           sum == CHOOSE g : Sums(g)
           step == [x \in Int \X (1..n) |-> IF x[2] = 1 THEN 0 ELSE x[1] + Ticks(p[x[2] - 1].seconds)]
<1>1. Len(p) \in Nat /\ n \in Nat /\ \A i \in 1..Len(p) : Ticks(p[i].seconds) \in Int
  BY PlaylistFacts, TickAssumption DEF Ticks
<1>2. step \in [Int \X (1..n) -> Int]
  <2>1. ASSUME NEW x \in Int \X (1..n)
        PROVE  (IF x[2] = 1 THEN 0 ELSE x[1] + Ticks(p[x[2] - 1].seconds)) \in Int
    <3>1. x[2] # 1 => x[2] - 1 \in 1..Len(p)
      BY <1>1
    <3> QED
      BY <1>1, <3>1
  <2> QED
    BY <2>1
<1>3. PICK g : Recursion(g, n, 0, step)
  <2> HIDE DEF n, step
  <2>1. 0 \in Int
    OBVIOUS
  <2> QED
    BY <2>1, <1>1, <1>2, RecursionDefines
<1>4. \A i \in 1..n : g[i] \in Int
  <2> DEFINE T == {i \in 1..n : g[i] \in Int}
  <2>1. 1 \in T
    BY <1>1, <1>3 DEF Recursion
  <2>2. ASSUME NEW k \in 1..(n - 1), k \in T PROVE k + 1 \in T
    <3>1. k + 1 \in 1..n /\ k + 1 # 1 /\ (k + 1) - 1 = k /\ <<g[k], k + 1>> \in Int \X (1..n)
      BY <2>2, <1>1
    <3>2. g[k + 1] = step[<<g[k], k + 1>>]
      <4> HIDE DEF step
      <4> QED
        BY <1>3, <3>1 DEF Recursion
    <3>3. g[k + 1] \in Int
      <4> HIDE DEF step
      <4> QED
        BY <1>2, <3>1, <3>2
    <3> QED
      BY <3>1, <3>3
  <2> HIDE DEF T, n
  <2>3. \A k \in 1..n : k \in T
    BY <1>1, <2>1, <2>2, UpTo
  <2> QED
    BY <2>3 DEF T
<1>5. Sums(g)
  <2>1. ASSUME NEW i \in 1..n, i # 1
        PROVE  step[<<g[i - 1], i>>] = g[i - 1] + Ticks(p[i - 1].seconds)
    <3>1. <<g[i - 1], i>> \in Int \X (1..n)
      BY <2>1, <1>1, <1>4
    <3> QED
      BY <2>1, <3>1
  <2> HIDE DEF step, n
  <2>2. [i \in 1..n |-> IF i = 1 THEN 0 ELSE step[<<g[i - 1], i>>]]
           = [i \in 1..n |-> IF i = 1 THEN 0 ELSE g[i - 1] + Ticks(p[i - 1].seconds)]
    BY <2>1
  <2> QED
    BY <2>2, <1>3 DEF Recursion
<1>6. Sums(sum)
  <2> HIDE DEF Sums
  <2> QED
    BY <1>5
<1>7. \A i \in 1..n : sum[i] = IF i = 1 THEN 0 ELSE sum[i - 1] + Ticks(p[i - 1].seconds)
  <2> HIDE DEF sum, n
  <2> QED
    BY <1>6
<1>8. \A i : StartOf(p, i) = sum[i]
  BY DEF StartOf
<1> HIDE DEF sum
<1>9. sum[1] = 0
  BY <1>1, <1>7
<1>10. \A i \in 1..Len(p) : sum[i + 1] = sum[i] + Ticks(p[i].seconds)
  <2> TAKE i \in 1..Len(p)
  <2>1. i + 1 \in 1..n /\ i + 1 # 1 /\ (i + 1) - 1 = i
    BY <1>1
  <2> HIDE DEF n
  <2> QED
    BY <1>7, <2>1
<1>11. \A i \in 1..n : sum[i] \in Int
  <2> DEFINE T == {i \in 1..n : sum[i] \in Int}
  <2>1. 1 \in T
    BY <1>1, <1>9
  <2>2. ASSUME NEW k \in 1..(n - 1), k \in T PROVE k + 1 \in T
    BY <2>2, <1>1, <1>10
  <2> HIDE DEF T, n
  <2>3. \A k \in 1..n : k \in T
    BY <1>1, <2>1, <2>2, UpTo
  <2> QED
    BY <2>3 DEF T
<1> QED
  BY <1>8, <1>9, <1>10, <1>11

-----------------------------------------------------------------------------
(* Validation                                                              *)

(* The items of a playlist that is valid, for the playlist at hand.        *)
Sound(p) == /\ \A i \in DOMAIN p : p[i].media /\ p[i].seconds > 0
            /\ \A i, j \in DOMAIN p : i < j => p[i].position < p[j].position

(* No item out of order with the one before it: all are in order.          *)
LEMMA NeighboursSuffice ==
    ASSUME NEW p \in Playlists, \A i \in 1..Len(p) : ~OutOfOrder(p, i),
           NEW i \in 1..Len(p), NEW j \in 1..Len(p), i < j
    PROVE  p[i].position < p[j].position
<1> DEFINE m == j - i
           T == {k \in 1..m : p[i].position < p[i + k].position}
<1>1. Len(p) \in Nat /\ \A k \in 1..Len(p) : p[k].position \in Int
  BY PlaylistFacts
<1>2. \A k \in 1..(Len(p) - 1) : p[k].position < p[k + 1].position
  <2> TAKE k \in 1..(Len(p) - 1)
  <2>1. k + 1 \in 1..Len(p) /\ k + 1 > 1 /\ (k + 1) - 1 = k /\ k \in 1..Len(p)
    BY <1>1
  <2>2. ~(p[k + 1].position <= p[k].position)
    BY <2>1 DEF OutOfOrder
  <2> QED
    BY <2>1, <2>2, <1>1
<1>3. m \in Nat /\ m >= 1 /\ i + m = j
  BY <1>1
<1>4. 1 \in T
  <2>1. i \in 1..(Len(p) - 1)
    BY <1>1
  <2> QED
    BY <2>1, <1>2, <1>3
<1>5. ASSUME NEW k \in 1..(m - 1), k \in T PROVE k + 1 \in T
  <2>1. i + k \in 1..(Len(p) - 1) /\ (i + k) + 1 = i + (k + 1) /\ k + 1 \in 1..m
    BY <1>1, <1>3
  <2>2. p[i + k].position < p[i + (k + 1)].position
    BY <2>1, <1>2
  <2>3. i \in 1..Len(p) /\ i + k \in 1..Len(p) /\ i + (k + 1) \in 1..Len(p)
    BY <2>1, <1>1
  <2>4. p[i].position < p[i + (k + 1)].position
    BY <2>2, <2>3, <1>1, <1>5
  <2> QED
    BY <2>1, <2>4
<1>6. m \in T
  <2> HIDE DEF T, m
  <2>1. \A k \in 1..m : k \in T
    BY <1>3, <1>4, <1>5, UpTo
  <2> QED
    BY <2>1, <1>3
<1> QED
  BY <1>3, <1>6

(* Validation finds an error exactly in what is not valid.                 *)
LEMMA ValidationDecides ==
    ASSUME NEW p \in Playlists
    PROVE  /\ ValidationError(p) = "none" <=> Sound(p)
           /\ ValidationError(p) \in {"none", "nil_media", "invalid_duration", "unsorted"}
<1> DEFINE Bad == {i \in DOMAIN p : ~p[i].media \/ WrongDuration(p, i) \/ OutOfOrder(p, i)}
<1>1. /\ Len(p) \in Nat /\ DOMAIN p = 1..Len(p)
      /\ \A i \in 1..Len(p) :
            p[i].seconds \in Int /\ p[i].position \in Int /\ p[i].media \in BOOLEAN
  BY PlaylistFacts
<1>2. FirstWrong(p) = First(Bad) /\ Bad \subseteq Nat \ {0}
  BY <1>1 DEF FirstWrong
<1>3. FirstWrong(p) = 0 <=> Bad = {}
  <2> HIDE DEF Bad
  <2> QED
    BY <1>2, FirstFacts
<1>4. /\ ValidationError(p) = "none" <=> FirstWrong(p) = 0
      /\ ValidationError(p) \in {"none", "nil_media", "invalid_duration", "unsorted"}
  BY DEF ValidationError
<1>5. ASSUME Bad = {} PROVE Sound(p)
  <2>1. \A i \in 1..Len(p) : p[i].media /\ ~(p[i].seconds <= 0) /\ ~OutOfOrder(p, i)
    BY <1>1, <1>5 DEF WrongDuration
  <2>2. \A i, j \in 1..Len(p) : i < j => p[i].position < p[j].position
    BY <2>1, NeighboursSuffice
  <2>3. \A i \in 1..Len(p) : p[i].seconds > 0
    BY <2>1, <1>1
  <2> QED
    BY <2>1, <2>2, <2>3, <1>1 DEF Sound
<1>6. ASSUME Sound(p) PROVE Bad = {}
  <2> SUFFICES ASSUME NEW i \in Bad PROVE FALSE
    OBVIOUS
  <2>1. i \in 1..Len(p) /\ p[i].media /\ p[i].seconds > 0
    BY <1>1, <1>6 DEF Sound
  <2>2. ~WrongDuration(p, i)
    BY <2>1, <1>1 DEF WrongDuration
  <2>3. OutOfOrder(p, i)
    BY <2>1, <2>2
  <2>4. i - 1 \in 1..Len(p) /\ i - 1 < i /\ p[i].position <= p[i - 1].position
    BY <2>1, <2>3, <1>1 DEF OutOfOrder
  <2>5. p[i - 1].position < p[i].position
    BY <2>1, <2>4, <1>1, <1>6 DEF Sound
  <2> QED
    BY <2>1, <2>4, <2>5, <1>1
<1> QED
  BY <1>3, <1>4, <1>5, <1>6

-----------------------------------------------------------------------------
(* The walk                                                                *)

(* An item that comes earlier has ended when a later one starts.           *)
LEMMA EndsBeforeStart ==
    ASSUME NEW p \in Playlists, Sound(p),
           NEW i \in 1..Len(p), NEW j \in 1..(Len(p) + 1), i < j
    PROVE  StartOf(p, i + 1) <= StartOf(p, j)
<1> DEFINE m == j - i
           T == {k \in 1..m : StartOf(p, i + 1) <= StartOf(p, i + k)}
<1>1. Len(p) \in Nat /\ \A k \in 1..(Len(p) + 1) : StartOf(p, k) \in Int
  BY PlaylistFacts, StartOfNext
<1>2. \A k \in 1..Len(p) : StartOf(p, k) < StartOf(p, k + 1)
  <2> TAKE k \in 1..Len(p)
  <2>1. p[k].seconds \in Nat \ {0}
    BY PlaylistFacts DEF Sound
  <2>2. Ticks(p[k].seconds) \in Nat \ {0}
    BY <2>1, TickAssumption DEF Ticks
  <2>3. StartOf(p, k + 1) = StartOf(p, k) + Ticks(p[k].seconds) /\ k \in 1..(Len(p) + 1)
    BY <1>1, StartOfNext
  <2> QED
    BY <2>2, <2>3, <1>1
<1>3. m \in Nat /\ m >= 1 /\ i + m = j
  BY <1>1
<1>4. 1 \in T
  BY <1>1, <1>3
<1>5. ASSUME NEW k \in 1..(m - 1), k \in T PROVE k + 1 \in T
  <2>1. i + k \in 1..Len(p) /\ (i + k) + 1 = i + (k + 1) /\ k + 1 \in 1..m
    BY <1>1, <1>3
  <2>2. StartOf(p, i + k) < StartOf(p, i + (k + 1))
    BY <2>1, <1>2
  <2>3. i + 1 \in 1..(Len(p) + 1) /\ i + k \in 1..(Len(p) + 1) /\ i + (k + 1) \in 1..(Len(p) + 1)
    BY <2>1, <1>1
  <2>4. StartOf(p, i + 1) <= StartOf(p, i + (k + 1))
    BY <2>2, <2>3, <1>1, <1>5
  <2> QED
    BY <2>1, <2>4
<1>6. m \in T
  <2> HIDE DEF T, m
  <2>1. \A k \in 1..m : k \in T
    BY <1>3, <1>4, <1>5, UpTo
  <2> QED
    BY <2>1, <1>3
<1> QED
  BY <1>3, <1>6

(* No instant of a playlist is owned by two items.                         *)
LEMMA OneOwner ==
    ASSUME NEW p \in Playlists, Sound(p), NEW pos \in Int,
           NEW i \in 1..Len(p), NEW j \in 1..Len(p), Owns(p, i, pos), Owns(p, j, pos)
    PROVE  i = j
<1>1. \A k \in 1..(Len(p) + 1) : StartOf(p, k) \in Int
  BY StartOfNext
<1>2. ASSUME NEW x \in 1..Len(p), NEW y \in 1..Len(p), Owns(p, x, pos), Owns(p, y, pos), x < y
      PROVE  FALSE
  <2>1. Len(p) \in Nat
    BY PlaylistFacts
  <2>2. y \in 1..(Len(p) + 1) /\ x + 1 \in 1..(Len(p) + 1)
    BY <2>1
  <2>3. StartOf(p, x + 1) <= StartOf(p, y)
    BY <1>2, <2>2, EndsBeforeStart
  <2>4. pos < StartOf(p, x + 1) /\ StartOf(p, y) <= pos
    BY <1>2 DEF Owns
  <2> QED
    BY <1>1, <2>2, <2>3, <2>4
<1> QED
  BY <1>2, PlaylistFacts

(* Every instant of a playlist is owned: the walk always finds an item.    *)
LEMMA SomeOwner ==
    ASSUME NEW p \in Playlists, NEW pos \in Nat, pos < Total(p)
    PROVE  ActiveItem(p, pos) \in 1..Len(p) /\ Owns(p, ActiveItem(p, pos), pos)
<1> DEFINE Later == {i \in 1..(Len(p) + 1) : pos < StartOf(p, i)}
           Owners == {i \in DOMAIN p : Owns(p, i, pos)}
<1>1. /\ Len(p) \in Nat /\ DOMAIN p = 1..Len(p)
      /\ \A i \in 1..(Len(p) + 1) : StartOf(p, i) \in Int
      /\ StartOf(p, 1) = 0
  BY PlaylistFacts, StartOfNext
<1>2. PICK k \in Later : \A y \in Later : k <= y
  <2>1. Len(p) + 1 \in Later /\ Later \subseteq Nat
    BY <1>1 DEF Total
  <2> HIDE DEF Later
  <2> QED
    BY <2>1, LeastNumber
<1>3. k \in 1..(Len(p) + 1) /\ pos < StartOf(p, k) /\ k # 1
  BY <1>1
<1>4. k - 1 \in 1..Len(p) /\ (k - 1) + 1 = k
  BY <1>1, <1>3
<1>5. ~(pos < StartOf(p, k - 1))
  <2>1. k - 1 \in 1..(Len(p) + 1) /\ ~(k <= k - 1)
    BY <1>1, <1>3, <1>4
  <2> QED
    BY <1>2, <2>1
<1>6. k - 1 \in Owners
  BY <1>1, <1>3, <1>4, <1>5 DEF Owns
<1>7. First(Owners) \in Owners
  <2>1. Owners \subseteq Nat \ {0}
    BY <1>1
  <2> HIDE DEF Owners
  <2> QED
    BY <1>6, <2>1, FirstFacts
<1> QED
  BY <1>1, <1>7 DEF ActiveItem

-----------------------------------------------------------------------------
(* The reference                                                           *)

(* The seconds of item i, and those of the playlist.                       *)
OfItem(p, i) == [k \in 1..p[i].seconds |-> i]
LaidOut(p) == FlattenSeq([i \in DOMAIN p |-> OfItem(p, i)])

(* s lays out the first m items as the sums place them.                    *)
LaysOut(s, p, m) ==
    /\ s \in Seq(Nat)
    /\ StartOf(p, m + 1) = Ticks(Len(s))
    /\ \A k \in 1..Len(s) : /\ s[k] \in 1..m
                            /\ StartOf(p, s[k]) <= Ticks(k - 1)
                            /\ Ticks(k) <= StartOf(p, s[k] + 1)

(* Time in ticks keeps the order of time in seconds.                       *)
LEMMA TicksKeepOrder ==
    ASSUME NEW x \in Int, NEW y \in Int
    PROVE  Ticks(x) \in Int /\ Ticks(x + y) = Ticks(x) + Ticks(y) /\ (x <= y => Ticks(x) <= Ticks(y))
<1>1. TicksPerSecond \in Nat \ {0}
  BY TickAssumption
<1>2. TicksPerSecond * y < TicksPerSecond * x <=> y < x
  BY <1>1, Multiples
<1>3. Ticks(x) = TicksPerSecond * x /\ Ticks(y) = TicksPerSecond * y
  BY <1>1 DEF Ticks
<1>4. Ticks(x) \in Int /\ Ticks(y) \in Int /\ Ticks(x + y) = Ticks(x) + Ticks(y)
  BY <1>1 DEF Ticks
<1>5. ASSUME x <= y PROVE ~(Ticks(y) < Ticks(x))
  BY <1>2, <1>3, <1>5
<1> QED
  BY <1>4, <1>5

LEMMA Concatenation ==
    ASSUME NEW s \in Seq(Nat), NEW t \in Seq(Nat)
    PROVE  /\ s \o t \in Seq(Nat) /\ Len(s) \in Nat /\ Len(s \o t) = Len(s) + Len(t)
           /\ \A k \in 1..Len(s) : (s \o t)[k] = s[k]
           /\ \A k \in (Len(s) + 1)..(Len(s) + Len(t)) : (s \o t)[k] = t[k - Len(s)]
  OBVIOUS

(* One item more.                                                          *)
LEMMA LayOutNext ==
    ASSUME NEW p \in Playlists, Sound(p), NEW m \in 1..Len(p), NEW s, LaysOut(s, p, m - 1)
    PROVE  LaysOut(s \o OfItem(p, m), p, m)
<1> DEFINE d == p[m].seconds
           t == s \o OfItem(p, m)
<1>1. d \in Nat \ {0} /\ Len(p) \in Nat
  BY PlaylistFacts DEF Sound
<1>2. s \in Seq(Nat) /\ Len(s) \in Nat /\ StartOf(p, m) = Ticks(Len(s))
  BY <1>1 DEF LaysOut
<1>3. OfItem(p, m) \in Seq(Nat) /\ Len(OfItem(p, m)) = d
  BY <1>1 DEF OfItem
<1>4. /\ t \in Seq(Nat) /\ Len(t) = Len(s) + d
      /\ \A k \in 1..Len(s) : t[k] = s[k]
      /\ \A k \in (Len(s) + 1)..Len(t) : t[k] = m
  <2>1. t \in Seq(Nat) /\ Len(t) = Len(s) + d
    <3> DEFINE u == OfItem(p, m)
    <3>1. u \in Seq(Nat) /\ s \in Seq(Nat) /\ Len(u) = d
      BY <1>2, <1>3
    <3> HIDE DEF u, d
    <3>2. s \o u \in Seq(Nat) /\ Len(s \o u) = Len(s) + Len(u)
      BY <3>1, Concatenation
    <3> QED
      BY <3>1, <3>2 DEF u
  <2>2. \A k \in 1..Len(s) : t[k] = s[k]
    BY <1>2, <1>3, Concatenation
  <2>3. ASSUME NEW k \in (Len(s) + 1)..Len(t) PROVE t[k] = m
    <3>1. k - Len(s) \in 1..d /\ k \in 1..(Len(s) + d) /\ ~(k <= Len(s))
      BY <1>1, <1>2, <2>1
    <3>2. t[k] = OfItem(p, m)[k - Len(s)]
      <4>1. k \in (Len(s) + 1)..(Len(s) + Len(OfItem(p, m)))
        BY <1>3, <2>1
      <4> QED
        BY <4>1, <1>2, <1>3, Concatenation
    <3> QED
      BY <3>1, <3>2 DEF OfItem
  <2> QED
    BY <2>1, <2>2, <2>3
<1>5. StartOf(p, m + 1) = Ticks(Len(s) + d)
  <2>1. StartOf(p, m + 1) = StartOf(p, m) + Ticks(d)
    BY StartOfNext
  <2>2. d \in Int /\ Len(s) \in Int
    BY <1>1, <1>2
  <2> HIDE DEF d
  <2>3. Ticks(Len(s) + d) = Ticks(Len(s)) + Ticks(d)
    BY <2>2, TicksKeepOrder
  <2> QED
    BY <2>1, <2>3, <1>2
<1> HIDE DEF t, d
<1>6. ASSUME NEW k \in 1..Len(t), k <= Len(s)
      PROVE  t[k] \in 1..m /\ StartOf(p, t[k]) <= Ticks(k - 1) /\ Ticks(k) <= StartOf(p, t[k] + 1)
  <2>1. k \in 1..Len(s)
    BY <1>2, <1>4, <1>6
  <2>2. t[k] = s[k] /\ s[k] \in 1..(m - 1)
    BY <2>1, <1>4 DEF LaysOut
  <2>3. s[k] \in 1..m
    BY <2>2, <1>1
  <2> QED
    BY <2>1, <2>2, <2>3 DEF LaysOut
<1>7. ASSUME NEW k \in 1..Len(t), ~(k <= Len(s))
      PROVE  t[k] \in 1..m /\ StartOf(p, t[k]) <= Ticks(k - 1) /\ Ticks(k) <= StartOf(p, t[k] + 1)
  <2>1. t[k] = m
    BY <1>1, <1>2, <1>4, <1>7
  <2>2. Len(s) \in Int /\ k - 1 \in Int /\ Len(s) <= k - 1 /\ k \in Int /\ k <= Len(s) + d /\ Len(s) + d \in Int
    BY <1>1, <1>2, <1>4, <1>7
  <2>3. Ticks(Len(s)) <= Ticks(k - 1) /\ Ticks(k) <= Ticks(Len(s) + d)
    BY <2>2, TicksKeepOrder
  <2> QED
    BY <2>1, <2>3, <1>2, <1>5
<1> QED
  BY <1>4, <1>5, <1>6, <1>7 DEF LaysOut, t

(* The flattened playlist lays out all of it.                              *)
LEMMA AllLaidOut ==
    ASSUME NEW p \in Playlists, Sound(p), p # <<>>
    PROVE  LaysOut(LaidOut(p), p, Len(p))
<1> DEFINE n == Len(p)
           items == [i \in DOMAIN p |-> OfItem(p, i)]
           Flattens(g) == g = [i \in 1..Len(items) |-> IF i = 1 THEN items[i] ELSE g[i - 1] \o items[i]]
           flatten == CHOOSE g : Flattens(g)
           step == [x \in Seq(Nat) \X (1..n) |-> x[1] \o OfItem(p, x[2])]
<1>1. n \in Nat /\ n # 0 /\ DOMAIN p = 1..n
  BY PlaylistFacts
<1>2. items \in Seq([DOMAIN p -> Nat] \cup {OfItem(p, i) : i \in 1..n}) /\ Len(items) = n
      /\ \A i \in 1..n : items[i] = OfItem(p, i)
  BY <1>1
<1>3. \A i \in 1..n : OfItem(p, i) \in Seq(Nat)
  <2> TAKE i \in 1..n
  <2>1. p[i].seconds \in Nat
    BY <1>1, PlaylistFacts DEF Sound
  <2> QED
    BY <2>1, <1>1 DEF OfItem
<1>4. LaidOut(p) = flatten[n]
  BY <1>1, <1>2 DEF LaidOut, FlattenSeq
<1>5. PICK g : Recursion(g, n, OfItem(p, 1), step)
  <2>1. step \in [Seq(Nat) \X (1..n) -> Seq(Nat)]
    BY <1>3
  <2>2. OfItem(p, 1) \in Seq(Nat)
    BY <1>1, <1>3
  <2> HIDE DEF step, n
  <2> QED
    BY <2>1, <2>2, <1>1, RecursionDefines
<1>6. \A i \in 1..n : g[i] \in Seq(Nat)
  <2> DEFINE T == {i \in 1..n : g[i] \in Seq(Nat)}
  <2>1. 1 \in T
    BY <1>1, <1>3, <1>5 DEF Recursion
  <2>2. ASSUME NEW k \in 1..(n - 1), k \in T PROVE k + 1 \in T
    <3>1. k + 1 \in 1..n /\ k + 1 # 1 /\ (k + 1) - 1 = k /\ <<g[k], k + 1>> \in Seq(Nat) \X (1..n)
      BY <2>2, <1>1
    <3>2. g[k + 1] = step[<<g[k], k + 1>>]
      <4> HIDE DEF step
      <4> QED
        BY <1>5, <3>1 DEF Recursion
    <3>3. g[k + 1] = g[k] \o OfItem(p, k + 1)
      BY <3>1, <3>2
    <3>4. g[k] \in Seq(Nat) /\ OfItem(p, k + 1) \in Seq(Nat)
      BY <2>2, <3>1, <1>3
    <3> QED
      <4> DEFINE u == OfItem(p, k + 1)
                 v == g[k]
      <4>1. u \in Seq(Nat) /\ v \in Seq(Nat)
        BY <3>4
      <4> HIDE DEF u, v
      <4>2. v \o u \in Seq(Nat)
        BY <4>1, Concatenation
      <4>3. g[k + 1] = v \o u
        BY <3>3 DEF u, v
      <4> QED
        BY <3>1, <4>2, <4>3
  <2> HIDE DEF T, n
  <2>3. \A k \in 1..n : k \in T
    BY <1>1, <2>1, <2>2, UpTo
  <2> QED
    BY <2>3 DEF T
<1>7. Flattens(g)
  <2>1. ASSUME NEW i \in 1..n, i # 1
        PROVE  step[<<g[i - 1], i>>] = g[i - 1] \o items[i]
    <3>1. <<g[i - 1], i>> \in Seq(Nat) \X (1..n)
      BY <2>1, <1>1, <1>6
    <3> HIDE DEF items
    <3> QED
      BY <3>1, <1>2
  <2>2. 1 \in 1..n => items[1] = OfItem(p, 1)
    BY <1>2
  <2> HIDE DEF step, n, items
  <2>3. [i \in 1..n |-> IF i = 1 THEN OfItem(p, 1) ELSE step[<<g[i - 1], i>>]]
           = [i \in 1..n |-> IF i = 1 THEN items[i] ELSE g[i - 1] \o items[i]]
    BY <2>1, <2>2
  <2> QED
    BY <2>3, <1>2, <1>5 DEF Recursion
<1>8. Flattens(flatten)
  <2> HIDE DEF Flattens
  <2> QED
    BY <1>7
<1>9. \A i \in 1..n : flatten[i] = IF i = 1 THEN OfItem(p, i) ELSE flatten[i - 1] \o OfItem(p, i)
  <2> HIDE DEF flatten, n, items
  <2>1. flatten = [i \in 1..n |-> IF i = 1 THEN items[i] ELSE flatten[i - 1] \o items[i]]
    BY <1>2, <1>8
  <2> QED
    BY <2>1, <1>2
<1> HIDE DEF flatten, items
<1>10. \A i \in 1..n : LaysOut(flatten[i], p, i)
  <2> DEFINE T == {i \in 1..n : LaysOut(flatten[i], p, i)}
  <2>1. 1 \in T
    <3>1. LaysOut(<<>>, p, 1 - 1)
      BY StartOfNext, TickAssumption DEF LaysOut, Ticks
    <3>2. LaysOut(<<>> \o OfItem(p, 1), p, 1)
      <4>1. 1 \in 1..Len(p)
        BY <1>1
      <4> QED
        BY <3>1, <4>1, LayOutNext
    <3>3. <<>> \o OfItem(p, 1) = OfItem(p, 1)
      BY <1>1, <1>3
    <3> QED
      BY <3>2, <3>3, <1>1, <1>9
  <2>2. ASSUME NEW k \in 1..(n - 1), k \in T PROVE k + 1 \in T
    <3>1. k + 1 \in 1..n /\ k + 1 # 1 /\ (k + 1) - 1 = k
      BY <2>2, <1>1
    <3>2. LaysOut(flatten[k] \o OfItem(p, k + 1), p, k + 1)
      BY <2>2, <3>1, LayOutNext
    <3> QED
      BY <3>1, <3>2, <1>9
  <2> HIDE DEF T, n
  <2>3. \A k \in 1..n : k \in T
    BY <1>1, <2>1, <2>2, UpTo
  <2> QED
    BY <2>3 DEF T
<1> QED
  BY <1>1, <1>4, <1>10

-----------------------------------------------------------------------------
(* What is shown                                                           *)

Shows(c, p, t) == c > 0 /\ t >= 0 /\ p # <<>> /\ Sound(p)

(* The place in a playlist that is shown.                                  *)
Place(p, pos) == /\ Total(p) \in Nat \ {0} /\ pos \in 0..(Total(p) - 1)
                 /\ ActiveItem(p, pos) \in 1..Len(p) /\ Owns(p, ActiveItem(p, pos), pos)

LEMMA TotalFacts ==
    ASSUME NEW p \in Playlists, Sound(p), p # <<>>
    PROVE  /\ Total(p) \in Nat \ {0} /\ Len(LaidOut(p)) \in Nat \ {0}
           /\ Total(p) = Ticks(Len(LaidOut(p)))
<1>1. Len(p) \in Nat /\ Len(p) # 0
  BY PlaylistFacts
<1>2. Total(p) \in Int /\ StartOf(p, 1) = 0 /\ 1 \in 1..Len(p)
  BY <1>1, StartOfNext DEF Total
<1>3. LaidOut(p) \in Seq(Nat) /\ Total(p) = Ticks(Len(LaidOut(p)))
  BY AllLaidOut DEF LaysOut, Total
<1>4. StartOf(p, 2) <= Total(p)
  <2>1. CASE Len(p) = 1
    BY <2>1, <1>2 DEF Total
  <2>2. CASE Len(p) # 1
    <3>1. Len(p) + 1 \in 1..(Len(p) + 1) /\ 1 < Len(p) + 1
      BY <1>1
    <3>2. StartOf(p, 1 + 1) <= StartOf(p, Len(p) + 1)
      BY <1>2, <3>1, EndsBeforeStart
    <3> QED
      BY <3>2 DEF Total
  <2> QED
    BY <2>1, <2>2
<1>5. StartOf(p, 2) \in Int /\ 0 < StartOf(p, 2)
  <2>1. p[1].seconds \in Nat \ {0}
    BY <1>2, PlaylistFacts DEF Sound
  <2>2. Ticks(p[1].seconds) \in Nat \ {0}
    BY <2>1, TickAssumption DEF Ticks
  <2>3. StartOf(p, 1 + 1) = StartOf(p, 1) + Ticks(p[1].seconds)
    BY <1>2, StartOfNext
  <2> QED
    BY <2>2, <2>3, <1>2
<1>6. Total(p) > 0
  BY <1>2, <1>4, <1>5
<1>7. Len(LaidOut(p)) # 0
  BY <1>3, <1>6, TickAssumption DEF Ticks
<1> QED
  BY <1>2, <1>3, <1>6, <1>7

LEMMA PlaceFound ==
    ASSUME NEW p \in Playlists, NEW c \in Int, NEW t \in Int, Shows(c, p, t)
    PROVE  Place(p, PlaylistPosition(c, p, t)) /\ Ticks(c) \in Nat \ {0} /\ t % Ticks(c) \in 0..(Ticks(c) - 1)
<1>1. Total(p) \in Nat \ {0}
  BY TotalFacts DEF Shows
<1>2. Ticks(c) \in Nat \ {0}
  BY TickAssumption DEF Ticks, Shows
<1>3. t % Ticks(c) \in 0..(Ticks(c) - 1)
  BY <1>2, Division
<1>4. PlaylistPosition(c, p, t) \in 0..(Total(p) - 1)
  <2>1. t % Ticks(c) \in Int
    BY <1>2, <1>3
  <2> QED
    BY <1>1, <2>1, Division DEF PlaylistPosition
<1>5. PlaylistPosition(c, p, t) \in Nat /\ PlaylistPosition(c, p, t) < Total(p)
  BY <1>1, <1>4
<1> QED
  BY <1>1, <1>2, <1>3, <1>4, <1>5, SomeOwner DEF Place

(* Every outcome of the calculation.                                       *)
LEMMA Outcomes ==
    ASSUME NEW p \in Playlists, NEW c \in Int, NEW t \in Int
    PROVE  LET s == Calculate(c, p, t)
               pos == PlaylistPosition(c, p, t)
               i == ActiveItem(p, pos) IN
           /\ Shows(c, p, t) =>
                /\ s.active = TRUE /\ s.error = "none" /\ s.index = i
                /\ s.elapsed = (pos - StartOf(p, i)) \div TicksPerSecond
                /\ s.remaining = Remaining(p, i, pos)
                /\ s.cyclePosition = (t % Ticks(c)) \div TicksPerSecond
           /\ ~Shows(c, p, t) => s.active = FALSE /\ s.error # "internal"
           /\ c > 0 /\ t >= 0 /\ p # <<>> /\ ~Sound(p) => s.error # "none"
<1> DEFINE s == Calculate(c, p, t)
           pos == PlaylistPosition(c, p, t)
           i == ActiveItem(p, pos)
<1>1. ASSUME Shows(c, p, t)
      PROVE  /\ s.active = TRUE /\ s.error = "none" /\ s.index = i
             /\ s.elapsed = (pos - StartOf(p, i)) \div TicksPerSecond
             /\ s.remaining = Remaining(p, i, pos)
             /\ s.cyclePosition = (t % Ticks(c)) \div TicksPerSecond
  <2>1. i \in 1..Len(p) /\ i # 0
    BY <1>1, PlaceFound DEF Place
  <2>2. s = Playing(c, p, t)
    <3>1. ~(c <= 0) /\ ~(t < 0) /\ p # <<>> /\ Sound(p)
      BY <1>1 DEF Shows
    <3>2. ValidationError(p) = "none"
      BY <3>1, ValidationDecides
    <3> QED
      BY <3>1, <3>2 DEF Calculate
  <2> QED
    BY <2>1, <2>2 DEF Playing
<1>2. ASSUME ~Shows(c, p, t) PROVE s.active = FALSE /\ s.error # "internal"
  <2>1. CASE c <= 0 \/ t < 0 \/ p = <<>>
    BY <2>1 DEF Calculate, Fail, NotStarted, Empty
  <2>2. CASE c > 0 /\ t >= 0 /\ p # <<>>
    <3>1. ~Sound(p)
      BY <1>2, <2>2 DEF Shows
    <3>2. ValidationError(p) # "none"
          /\ ValidationError(p) \in {"none", "nil_media", "invalid_duration", "unsorted"}
      BY <3>1, ValidationDecides
    <3> QED
      BY <2>2, <3>2 DEF Calculate, Fail
  <2>3. (c <= 0 \/ t < 0 \/ p = <<>>) \/ (c > 0 /\ t >= 0 /\ p # <<>>)
    OBVIOUS
  <2> HIDE DEF s
  <2> QED
    BY <2>1, <2>2, <2>3
<1>3. ASSUME c > 0, t >= 0, p # <<>>, ~Sound(p) PROVE s.error # "none"
  <2>1. ValidationError(p) # "none"
    BY <1>3, ValidationDecides
  <2> QED
    BY <1>3, <2>1 DEF Calculate, Fail
<1> HIDE DEF s, pos, i
<1>4. /\ Shows(c, p, t) =>
           /\ s.active = TRUE /\ s.error = "none" /\ s.index = i
           /\ s.elapsed = (pos - StartOf(p, i)) \div TicksPerSecond
           /\ s.remaining = Remaining(p, i, pos)
           /\ s.cyclePosition = (t % Ticks(c)) \div TicksPerSecond
      /\ ~Shows(c, p, t) => s.active = FALSE /\ s.error # "internal"
      /\ c > 0 /\ t >= 0 /\ p # <<>> /\ ~Sound(p) => s.error # "none"
  BY <1>1, <1>2, <1>3
<1> QED
  BY <1>4 DEF s, pos, i

(* Elapsed and remaining seconds of an item, from its place.               *)
LEMMA ElapsedAndRemaining ==
    ASSUME NEW p \in Playlists, Sound(p), NEW i \in 1..Len(p), NEW pos \in Int, Owns(p, i, pos)
    PROVE  /\ (pos - StartOf(p, i)) \div TicksPerSecond \in 0..(p[i].seconds - 1)
           /\ Remaining(p, i, pos) = p[i].seconds - ((pos - StartOf(p, i)) \div TicksPerSecond)
<1> DEFINE b == TicksPerSecond
           d == p[i].seconds
           x == pos - StartOf(p, i)
           q == x \div b
           u == x % b
<1>1. b \in Nat \ {0} /\ d \in Nat \ {0}
  BY TickAssumption, PlaylistFacts DEF Sound
<1>2. x \in 0..(b * d - 1) /\ StartOf(p, i + 1) - pos - 1 = b * d - 1 - x
  <2>1. StartOf(p, i) \in Int /\ StartOf(p, i + 1) = StartOf(p, i) + Ticks(d)
    <3>1. i \in 1..(Len(p) + 1)
      BY PlaylistFacts
    <3> QED
      BY <3>1, StartOfNext
  <2>2. Ticks(d) = b * d /\ b * d \in Nat
    BY <1>1 DEF Ticks
  <2>3. StartOf(p, i) <= pos /\ pos < StartOf(p, i + 1)
    BY DEF Owns
  <2> HIDE DEF b, d
  <2> QED
    BY <2>1, <2>2, <2>3
<1>3. Remaining(p, i, pos) = ((StartOf(p, i + 1) - pos - 1) \div b) + 1
  BY DEF Remaining
<1> HIDE DEF b, d, x
<1>4. q \in Int /\ u \in 0..(b - 1) /\ x = b * q + u /\ x \in Int
  <2>1. x \in Int /\ b * d \in Nat
    BY <1>1, <1>2
  <2> QED
    BY <1>1, <2>1, Division
<1> HIDE DEF q, u
<1>5. q \in 0..(d - 1)
  <2>1. b * q < b * d /\ b * (-1) < b * q
    <3>1. b * d \in Nat /\ b * q \in Int
      BY <1>1, <1>4
    <3>2. x >= 0 /\ x < b * d
      BY <1>2, <3>1
    <3> QED
      BY <1>1, <1>4, <3>1, <3>2
  <2> QED
    BY <2>1, <1>1, <1>4, Multiples
<1>6. (b * d - 1 - x) \div b = d - 1 - q
  <2>1. b * (d - 1 - q) = b * d - b - b * q
    BY <1>1, <1>4
  <2>2. b * d - 1 - x = b * (d - 1 - q) + (b - 1 - u)
    BY <2>1, <1>1, <1>4
  <2>3. b - 1 - u \in 0..(b - 1) /\ d - 1 - q \in Int /\ b * d - 1 - x \in Int
    BY <1>1, <1>4
  <2> QED
    BY <2>2, <2>3, <1>1, OnlyDivision
<1>7. Remaining(p, i, pos) = d - q
  BY <1>1, <1>2, <1>3, <1>4, <1>6
<1> QED
  BY <1>5, <1>7 DEF q, d, x, b

-----------------------------------------------------------------------------
(* The display that looks at every tick                                    *)

EngineInv ==
    /\ cycle \in CycleSeconds /\ playlist \in Playlists /\ now \in Int
    /\ state = Calculate(cycle, playlist, now)

(* Whatever is looked at, and whenever, is what the calculation returns.   *)
THEOREM EngineCorrect == Spec => []EngineInv
<1>1. Init => EngineInv
  BY InstantsAssumption DEF Init, EngineInv
<1>2. EngineInv /\ [Next]_vars => EngineInv'
  <2> SUFFICES ASSUME EngineInv, [Next]_vars PROVE EngineInv'
    OBVIOUS
  <2>1. CASE Next
    BY <2>1 DEF Next, Tick, EngineInv
  <2>2. CASE UNCHANGED vars
    BY <2>2 DEF vars, EngineInv
  <2> QED
    BY <2>1, <2>2
<1> QED
  BY <1>1, <1>2, PTL DEF Spec

(* The engine's last line, which says that it should be unreachable, is:   *)
(* the walk over a valid playlist always finds the item that is on.        *)
THEOREM WalkFindsItem == Spec => [](state.error # "internal")
<1>1. EngineInv => state.error # "internal"
  <2> SUFFICES ASSUME EngineInv PROVE state.error # "internal"
    OBVIOUS
  <2>1. playlist \in Playlists /\ cycle \in Int /\ now \in Int /\ state = Calculate(cycle, playlist, now)
    BY CycleAssumption DEF EngineInv
  <2> QED
    BY <2>1, Outcomes
<1> QED
  BY <1>1, EngineCorrect, PTL

(* The state that is shown, by its place in the playlist.                  *)
Shown(s, c, p, t) ==
    LET pos == PlaylistPosition(c, p, t)
        i == ActiveItem(p, pos) IN
    /\ s.active = TRUE /\ s.index = i
    /\ s.elapsed = (pos - StartOf(p, i)) \div TicksPerSecond
    /\ s.remaining = Remaining(p, i, pos)
    /\ s.cyclePosition = (t % Ticks(c)) \div TicksPerSecond
    /\ Place(p, pos)

LEMMA ActiveIsShown ==
    ASSUME EngineInv, state.active
    PROVE  Shows(cycle, playlist, now) /\ Shown(state, cycle, playlist, now)
<1>1. playlist \in Playlists /\ cycle \in Int /\ now \in Int /\ state = Calculate(cycle, playlist, now)
  BY CycleAssumption DEF EngineInv
<1>2. Shows(cycle, playlist, now)
  BY <1>1, Outcomes
<1> QED
  BY <1>1, <1>2, Outcomes, PlaceFound DEF Shown

(* The seconds shown as elapsed and as remaining are those of the item,    *)
(* with at least one left, at every fraction of a second.                  *)
THEOREM AlwaysAddUp == Spec => []SecondsAddUp
<1>1. EngineInv => SecondsAddUp
  <2> SUFFICES ASSUME EngineInv, state.active
               PROVE  /\ state.elapsed >= 0 /\ state.remaining > 0
                      /\ state.elapsed + state.remaining = playlist[state.index].seconds
                      /\ state.cyclePosition \in 0..(cycle - 1)
    BY DEF SecondsAddUp
  <2> DEFINE i == state.index
             pos == PlaylistPosition(cycle, playlist, now)
  <2>1. playlist \in Playlists /\ cycle \in Int /\ now \in Int
    BY CycleAssumption DEF EngineInv
  <2>2. Shows(cycle, playlist, now) /\ Shown(state, cycle, playlist, now)
    BY ActiveIsShown
  <2>3. Sound(playlist) /\ cycle \in Nat \ {0} /\ now \in Nat
    BY <2>1, <2>2 DEF Shows
  <2>4. /\ i \in 1..Len(playlist) /\ pos \in Int /\ Owns(playlist, i, pos)
        /\ state.elapsed = (pos - StartOf(playlist, i)) \div TicksPerSecond
        /\ state.remaining = Remaining(playlist, i, pos)
        /\ state.cyclePosition = (now % Ticks(cycle)) \div TicksPerSecond
    BY <2>2 DEF Shown, Place
  <2> HIDE DEF i, pos
  <2>5. state.elapsed \in 0..(playlist[i].seconds - 1) /\ state.remaining = playlist[i].seconds - state.elapsed
    BY <2>1, <2>3, <2>4, ElapsedAndRemaining
  <2>6. playlist[i].seconds \in Int
    BY <2>1, <2>4, PlaylistFacts
  <2>7. state.cyclePosition \in 0..(cycle - 1)
    <3>1. TicksPerSecond \in Nat \ {0} /\ Ticks(cycle) = TicksPerSecond * cycle
      BY <2>3, TickAssumption DEF Ticks
    <3>2. state.cyclePosition = (now \div TicksPerSecond) % cycle
      BY <3>1, <2>3, <2>4, UnitsWithin
    <3>3. now \div TicksPerSecond \in Int
      BY <3>1, <2>3, Division
    <3> QED
      BY <3>2, <3>3, <2>3, Division
  <2>8. state.elapsed >= 0 /\ state.remaining > 0 /\ state.elapsed + state.remaining = playlist[i].seconds
    BY <2>5, <2>6
  <2> QED
    BY <2>7, <2>8 DEF i
<1> QED
  BY <1>1, EngineCorrect, PTL

(* A window with a valid playlist shows the item of its schedule; one with *)
(* an invalid playlist shows nothing and says why.                         *)
THEOREM AlwaysOnSchedule == Spec => []FollowsSchedule
<1>1. EngineInv => FollowsSchedule
  <2> SUFFICES ASSUME EngineInv, cycle > 0, now >= 0, playlist # <<>>
               PROVE  IF Valid
                      THEN state.active /\ state.index = Schedule[(now \div TicksPerSecond) % cycle]
                      ELSE ~state.active /\ state.error # "none"
    BY DEF FollowsSchedule
  <2>1. /\ playlist \in Playlists /\ cycle \in Int /\ now \in Int
        /\ state = Calculate(cycle, playlist, now)
    BY CycleAssumption DEF EngineInv
  <2>2. Valid <=> Sound(playlist)
    BY DEF Valid, Sound
  <2>3. CASE ~Sound(playlist)
    <3>1. ~Shows(cycle, playlist, now)
      BY <2>3 DEF Shows
    <3>2. state.active = FALSE /\ state.error # "none"
      BY <3>1, <2>1, <2>3, Outcomes
    <3> QED
      BY <3>2, <2>2, <2>3
  <2>4. CASE Sound(playlist)
    <3> DEFINE b == TicksPerSecond
               n == Len(LaidOut(playlist))
               second == now \div b
               pos == PlaylistPosition(cycle, playlist, now)
               k == ((second % cycle) % n) + 1
               i == LaidOut(playlist)[k]
    <3>1. Shows(cycle, playlist, now)
      BY <2>4 DEF Shows
    <3>2. state.active = TRUE /\ state.index = ActiveItem(playlist, pos)
      BY <3>1, <2>1, Outcomes
    <3>3. Place(playlist, pos)
      BY <3>1, <2>1, PlaceFound
    <3>4. b \in Nat \ {0} /\ n \in Nat \ {0} /\ cycle \in Nat \ {0} /\ now \in Nat
      BY <2>1, <2>4, TickAssumption, TotalFacts
    <3>5. Total(playlist) = b * n /\ Ticks(cycle) = b * cycle
      BY <2>1, <2>4, <3>4, TotalFacts DEF Ticks
    <3>6. LaysOut(LaidOut(playlist), playlist, Len(playlist))
      BY <2>1, <2>4, AllLaidOut
    <3>7. Seconds = LaidOut(playlist)
      BY DEF Seconds, LaidOut, OfItem
    <3>8. second % cycle \in 0..(cycle - 1)
      <4>1. second \in Int
        BY <3>4, Division
      <4> QED
        BY <4>1, <3>4, Division
    <3>9. Schedule[second % cycle] = i
      BY <3>7, <3>8 DEF Schedule
    <3> HIDE DEF n, b
    <3>10. pos = (now % (b * cycle)) % (b * n) /\ pos \in Nat
      BY <3>3, <3>5 DEF PlaylistPosition, Place
    <3>11. pos \div b = (second % cycle) % n
      <4>1. b * cycle \in Nat \ {0} /\ now \in Int
        BY <3>4
      <4>2. now % (b * cycle) \in Nat
        <5> DEFINE m == b * cycle
        <5>1. m \in Nat \ {0} /\ now \in Int
          BY <4>1
        <5> HIDE DEF m
        <5>2. now % m \in Nat
          BY <5>1, Division
        <5> QED
          BY <5>2 DEF m
      <4>3. (now % (b * cycle)) \div b = second % cycle
        BY <3>4, UnitsWithin
      <4>4. ((now % (b * cycle)) % (b * n)) \div b = ((now % (b * cycle)) \div b) % n
        BY <4>2, <3>4, UnitsWithin
      <4> QED
        BY <4>3, <4>4, <3>10
    <3> HIDE DEF pos, second
    <3>12. k \in 1..n /\ k - 1 = pos \div b
      <4>1. (second % cycle) % n \in 0..(n - 1)
        <5>1. second % cycle \in Int
          BY <3>8
        <5> QED
          BY <5>1, <3>4, Division
      <4> QED
        BY <4>1, <3>4, <3>11
    <3> HIDE DEF k
    <3>13. Ticks(k - 1) <= pos /\ pos < Ticks(k)
      <4>1. pos \div b \in Int /\ pos % b \in 0..(b - 1) /\ pos = b * (pos \div b) + (pos % b)
        <5>1. pos \in Int
          BY <3>10
        <5> QED
          BY <5>1, <3>4, Division
      <4>2. Ticks(k - 1) = b * (pos \div b) /\ Ticks(k) = b * (pos \div b) + b
        <5>1. k - 1 \in Int /\ k \in Int /\ Ticks(k - 1) = b * (k - 1) /\ Ticks(k) = b * k
          BY <3>12, <3>4 DEF Ticks, b
        <5>2. b * k = b * (k - 1) + b
          BY <5>1, <3>4
        <5> QED
          BY <5>1, <5>2, <3>12
      <4>3. \A q, r \in Int : r \in 0..(b - 1) => q <= q + r /\ q + r < q + b
        BY <3>4
      <4>4. b * (pos \div b) \in Int /\ pos % b \in Int
        BY <4>1, <3>4
      <4> DEFINE q == b * (pos \div b)
                 r == pos % b
      <4>5. q \in Int /\ r \in Int /\ r \in 0..(b - 1) /\ pos = q + r
            /\ Ticks(k - 1) = q /\ Ticks(k) = q + b
        BY <4>1, <4>2, <4>4
      <4> HIDE DEF q, r
      <4> QED
        BY <4>3, <4>5
    <3>14. /\ i \in 1..Len(playlist)
           /\ StartOf(playlist, i) <= Ticks(k - 1) /\ Ticks(k) <= StartOf(playlist, i + 1)
      BY <3>6, <3>12 DEF LaysOut, n
    <3> HIDE DEF i
    <3>15. Owns(playlist, i, pos)
      <4>1. i \in 1..(Len(playlist) + 1) /\ i + 1 \in 1..(Len(playlist) + 1)
        BY <3>14, <2>1, PlaylistFacts
      <4>2. StartOf(playlist, i) \in Int /\ StartOf(playlist, i + 1) \in Int
        BY <4>1, <2>1, StartOfNext
      <4>3. Ticks(k - 1) \in Int /\ Ticks(k) \in Int
        <5>1. k \in Int /\ k - 1 \in Int
          BY <3>12
        <5> QED
          BY <5>1, TicksKeepOrder
      <4> QED
        BY <4>2, <4>3, <3>10, <3>13, <3>14 DEF Owns
    <3>16. i = ActiveItem(playlist, pos)
      BY <2>1, <2>4, <3>3, <3>10, <3>14, <3>15, OneOwner DEF Place
    <3> QED
      BY <2>2, <2>4, <3>2, <3>9, <3>16 DEF second, b
  <2> QED
    BY <2>3, <2>4
<1> QED
  BY <1>1, EngineCorrect, PTL

(* Where the next tick leads.                                              *)
LEMMA NextPlace ==
    ASSUME NEW p \in Playlists, NEW c \in Int, NEW t \in Int, Shows(c, p, t)
    PROVE  \/ (t + 1) % Ticks(c) = 0 /\ PlaylistPosition(c, p, t + 1) = 0
           \/ PlaylistPosition(c, p, t + 1) = 0 /\ PlaylistPosition(c, p, t) = Total(p) - 1
           \/ PlaylistPosition(c, p, t + 1) = PlaylistPosition(c, p, t) + 1
<1> DEFINE m == Ticks(c)
           l == Total(p)
           a == t % m
<1>1. m \in Nat \ {0} /\ l \in Nat \ {0} /\ a \in Nat /\ t \in Nat
  <2>1. m \in Nat \ {0} /\ a \in 0..(m - 1) /\ l \in Nat \ {0}
    BY PlaceFound DEF Place
  <2>2. t \in Nat
    BY DEF Shows
  <2> HIDE DEF m, a, l
  <2> QED
    BY <2>1, <2>2
<1>2. PlaylistPosition(c, p, t) = a % l /\ PlaylistPosition(c, p, t + 1) = ((t + 1) % m) % l
  BY DEF PlaylistPosition
<1> HIDE DEF m, l
<1>3. CASE (t + 1) % m = 0
  <2>1. 0 % l = 0
    <3>1. 0 = l * 0 + 0 /\ 0 \in 0..(l - 1) /\ 0 \in Int
      BY <1>1
    <3> QED
      BY <3>1, <1>1, OnlyDivision
  <2> QED
    BY <2>1, <1>2, <1>3 DEF m
<1>4. CASE (t + 1) % m = a + 1
  <2> HIDE DEF a
  <2>1. \/ (a + 1) % l = 0 /\ a % l = l - 1
        \/ (a + 1) % l = (a % l) + 1
    BY <1>1, NextRemainder
  <2> QED
    BY <2>1, <1>2, <1>4 DEF l
<1> QED
  BY <1>1, <1>3, <1>4, NextRemainder

(* The first item starts the playlist, and the last one ends it.           *)
LEMMA EndsOfPlaylist ==
    ASSUME NEW p \in Playlists, Sound(p), p # <<>>
    PROVE  /\ 1 \in 1..Len(p) /\ Owns(p, 1, 0)
           /\ Len(p) \in 1..Len(p) /\ Owns(p, Len(p), Total(p) - 1)
<1>1. Len(p) \in Nat /\ Len(p) # 0 /\ \A i \in 1..(Len(p) + 1) : StartOf(p, i) \in Int
  BY PlaylistFacts, StartOfNext
<1>2. \A i \in 1..Len(p) : StartOf(p, i) < StartOf(p, i + 1)
  <2> TAKE i \in 1..Len(p)
  <2>1. p[i].seconds \in Nat \ {0}
    BY PlaylistFacts DEF Sound
  <2>2. Ticks(p[i].seconds) \in Nat \ {0}
    BY <2>1, TickAssumption DEF Ticks
  <2>3. StartOf(p, i + 1) = StartOf(p, i) + Ticks(p[i].seconds) /\ i \in 1..(Len(p) + 1)
    BY <1>1, StartOfNext
  <2> QED
    BY <2>2, <2>3, <1>1
<1>3. 1 \in 1..Len(p) /\ Len(p) \in 1..Len(p) /\ Len(p) \in 1..(Len(p) + 1) /\ Len(p) + 1 \in 1..(Len(p) + 1)
  BY <1>1
<1>4. StartOf(p, 1) = 0 /\ StartOf(p, 1) < StartOf(p, 1 + 1)
  BY <1>2, <1>3, StartOfNext
<1>5. /\ StartOf(p, Len(p)) \in Int /\ Total(p) \in Int
      /\ StartOf(p, Len(p)) < Total(p) /\ Total(p) = StartOf(p, Len(p) + 1)
  BY <1>1, <1>2, <1>3 DEF Total
<1>6. Owns(p, 1, 0)
  BY <1>4 DEF Owns
<1>7. StartOf(p, Len(p)) <= Total(p) - 1 /\ Total(p) - 1 < Total(p)
  BY <1>5
<1>8. Owns(p, Len(p), Total(p) - 1)
  BY <1>5, <1>7 DEF Owns
<1> QED
  BY <1>3, <1>6, <1>8

(* Seconds elapsed at the start and at the end of an item.                 *)
LEMMA ElapsedAtEnds ==
    ASSUME NEW p \in Playlists, Sound(p), NEW i \in 1..Len(p)
    PROVE  /\ (StartOf(p, i) - StartOf(p, i)) \div TicksPerSecond = 0
           /\ (StartOf(p, i + 1) - 1 - StartOf(p, i)) \div TicksPerSecond = p[i].seconds - 1
<1> DEFINE b == TicksPerSecond
           d == p[i].seconds
<1>1. b \in Nat \ {0} /\ d \in Nat \ {0}
  BY TickAssumption, PlaylistFacts DEF Sound
<1>2. StartOf(p, i) \in Int /\ StartOf(p, i + 1) = StartOf(p, i) + Ticks(d)
  <2>1. i \in 1..(Len(p) + 1)
    BY PlaylistFacts
  <2> QED
    BY <2>1, StartOfNext
<1>3. Ticks(d) = b * d
  BY <1>1 DEF Ticks
<1> HIDE DEF b, d
<1>4. 0 \div b = 0
  <2>1. 0 = b * 0 + 0 /\ 0 \in 0..(b - 1) /\ 0 \in Int
    BY <1>1
  <2> QED
    BY <2>1, <1>1, OnlyDivision
<1>5. (b * d - 1) \div b = d - 1
  <2>1. b * d - 1 = b * (d - 1) + (b - 1) /\ b - 1 \in 0..(b - 1) /\ d - 1 \in Int /\ b * d - 1 \in Int
    BY <1>1
  <2> QED
    BY <2>1, <1>1, OnlyDivision
<1>6. StartOf(p, i) - StartOf(p, i) = 0 /\ StartOf(p, i + 1) - 1 - StartOf(p, i) = b * d - 1
  <2>1. b * d \in Int
    BY <1>1
  <2> QED
    BY <2>1, <1>2, <1>3
<1> QED
  BY <1>4, <1>5, <1>6 DEF b, d

(* No jumps: from tick to tick an item goes on, gives way to the next when *)
(* its time is over, or to the first when the cycle is.                    *)
THEOREM AlwaysSeamless == Spec => Seamless
<1> DEFINE
      n == Len(playlist)
      following == (state.index % n) + 1
      Step == state.active =>
                 \/ state'.index = state.index /\ state'.elapsed \in {state.elapsed, state.elapsed + 1}
                 \/ /\ state'.index = following /\ state'.elapsed = 0
                    /\ state.elapsed = playlist[state.index].seconds - 1
                 \/ state'.index = 1 /\ state'.elapsed = 0 /\ now' % Ticks(cycle) = 0
<1>1. EngineInv /\ [Next]_vars => [Step]_vars
  <2> SUFFICES ASSUME EngineInv, Tick, state.active PROVE Step
    BY DEF Next
  <2> DEFINE p == playlist
             b == TicksPerSecond
             pos == PlaylistPosition(cycle, p, now)
             nextPos == PlaylistPosition(cycle, p, now + 1)
             i == ActiveItem(p, pos)
             j == ActiveItem(p, nextPos)
  <2>1. p \in Playlists /\ cycle \in Int /\ now \in Int
    BY CycleAssumption DEF EngineInv
  <2>2. Shows(cycle, p, now) /\ Shown(state, cycle, p, now)
    BY ActiveIsShown
  <2>3. now' = now + 1 /\ state' = Calculate(cycle, p, now + 1) /\ now + 1 \in Int
    BY <2>1 DEF Tick
  <2>4. Shows(cycle, p, now + 1) /\ Sound(p) /\ p # <<>>
    BY <2>1, <2>2 DEF Shows
  <2>5. /\ i \in 1..Len(p) /\ Owns(p, i, pos) /\ pos \in 0..(Total(p) - 1) /\ Total(p) \in Nat \ {0}
        /\ state.index = i /\ state.elapsed = (pos - StartOf(p, i)) \div b
    BY <2>2 DEF Shown, Place
  <2>6. j \in 1..Len(p) /\ Owns(p, j, nextPos) /\ nextPos \in 0..(Total(p) - 1)
    BY <2>1, <2>3, <2>4, PlaceFound DEF Place
  <2>7. state'.index = j /\ state'.elapsed = (nextPos - StartOf(p, j)) \div b
    BY <2>1, <2>3, <2>4, Outcomes
  <2>8. \/ (now + 1) % Ticks(cycle) = 0 /\ nextPos = 0
        \/ nextPos = 0 /\ pos = Total(p) - 1
        \/ nextPos = pos + 1
    BY <2>1, <2>2, NextPlace
  <2>9. n \in Nat /\ n # 0 /\ \A k \in 1..(n + 1) : StartOf(p, k) \in Int
    BY <2>1, <2>4, PlaylistFacts, StartOfNext
  <2> HIDE DEF p, b, pos, nextPos, i, j
  <2>10. pos \in Int /\ nextPos \in Int
    BY <2>5, <2>6
  <2>11. nextPos = 0 => j = 1 /\ state'.elapsed = 0
    <3> SUFFICES ASSUME nextPos = 0 PROVE j = 1 /\ state'.elapsed = 0
      OBVIOUS
    <3>1. 1 \in 1..Len(p) /\ Owns(p, 1, nextPos)
      BY <2>1, <2>4, EndsOfPlaylist
    <3>2. j = 1
      BY <3>1, <2>1, <2>4, <2>6, <2>10, OneOwner
    <3>3. StartOf(p, 1) = nextPos
      BY <2>1, StartOfNext
    <3>4. (StartOf(p, 1) - StartOf(p, 1)) \div TicksPerSecond = 0
      BY <3>1, <2>1, <2>4, ElapsedAtEnds
    <3> QED
      BY <3>2, <3>3, <3>4, <2>7 DEF b
  <2>12. CASE (now + 1) % Ticks(cycle) = 0 /\ nextPos = 0
    BY <2>3, <2>7, <2>11, <2>12
  <2>13. CASE nextPos = 0 /\ pos = Total(p) - 1
    <3>1. n \in 1..n /\ Owns(p, n, pos) /\ n = Len(p)
      BY <2>1, <2>4, <2>13, EndsOfPlaylist DEF p
    <3>2. i = n
      BY <3>1, <2>1, <2>4, <2>5, <2>10, OneOwner
    <3>3. state.elapsed = p[n].seconds - 1
      <4>1. pos = StartOf(p, n + 1) - 1
        BY <3>1, <2>13 DEF Total
      <4>2. (StartOf(p, n + 1) - 1 - StartOf(p, n)) \div TicksPerSecond = p[n].seconds - 1
        BY <3>1, <2>1, <2>4, ElapsedAtEnds
      <4> QED
        BY <4>1, <4>2, <3>2, <2>5 DEF b
    <3>4. following = 1
      <4> DEFINE l == n
      <4>1. l \in Nat \ {0} /\ state.index = l
        BY <2>9, <3>2, <2>5
      <4> HIDE DEF l
      <4>2. l = l * 1 + 0 /\ 0 \in 0..(l - 1) /\ l \in Int
        BY <4>1
      <4>3. l % l = 0
        BY <4>1, <4>2, OnlyDivision
      <4> QED
        BY <4>1, <4>3 DEF l
    <3> HIDE DEF following
    <3> QED
      BY <3>2, <3>3, <3>4, <2>5, <2>7, <2>11, <2>13 DEF p
  <2>14. CASE nextPos = pos + 1
    <3>1. n = Len(p) /\ i \in 1..(n + 1) /\ i + 1 \in 1..(n + 1) /\ i \in Int
      BY <2>5, <2>9 DEF p
    <3>2. StartOf(p, i) \in Int /\ StartOf(p, i + 1) \in Int /\ StartOf(p, i) <= pos /\ pos < StartOf(p, i + 1)
      BY <3>1, <2>5, <2>9 DEF Owns
    <3>3. CASE pos + 1 < StartOf(p, i + 1)
      <4>1. Owns(p, i, nextPos)
        BY <3>2, <3>3, <2>10, <2>14 DEF Owns
      <4>2. j = i
        BY <4>1, <2>1, <2>4, <2>5, <2>6, <2>10, OneOwner
      <4> DEFINE x == pos - StartOf(p, i)
      <4>3. x \in Nat /\ nextPos - StartOf(p, i) = x + 1
        BY <3>2, <2>10, <2>14
      <4> HIDE DEF x
      <4>4. (x + 1) \div b \in {x \div b, (x \div b) + 1}
        <5>1. b \in Nat \ {0}
          BY TickAssumption DEF b
        <5> DEFINE q == x \div b
                   r == x % b
        <5>2. q \in Int /\ r \in 0..(b - 1) /\ x = b * q + r
          <6>1. x \in Int
            BY <4>3
          <6> QED
            BY <6>1, <5>1, Division
        <5> HIDE DEF q, r
        <5>3. CASE r = b - 1
          <6>1. x + 1 = b * (q + 1) + 0 /\ 0 \in 0..(b - 1) /\ q + 1 \in Int /\ x + 1 \in Int
            BY <5>1, <5>2, <5>3, <4>3
          <6>2. (x + 1) \div b = q + 1
            BY <6>1, <5>1, OnlyDivision
          <6> QED
            BY <6>2 DEF q
        <5>4. CASE r # b - 1
          <6>1. x + 1 = b * q + (r + 1) /\ r + 1 \in 0..(b - 1) /\ x + 1 \in Int
            BY <5>1, <5>2, <5>4, <4>3
          <6>2. (x + 1) \div b = q
            BY <6>1, <5>1, <5>2, OnlyDivision
          <6> QED
            BY <6>2 DEF q
        <5> QED
          BY <5>3, <5>4
      <4>5. state.elapsed = x \div b /\ state'.elapsed = (x + 1) \div b
        BY <4>2, <4>3, <2>5, <2>7 DEF x
      <4> QED
        BY <4>2, <4>4, <4>5, <2>5, <2>7
    <3>4. CASE ~(pos + 1 < StartOf(p, i + 1))
      <4>1. nextPos = StartOf(p, i + 1) /\ pos = StartOf(p, i + 1) - 1
        BY <3>2, <3>4, <2>10, <2>14
      <4>2. i # n
        <5>1. nextPos < Total(p)
          BY <2>5, <2>6
        <5>2. nextPos # StartOf(p, n + 1)
          BY <5>1, <3>1, <2>10, <2>5 DEF Total
        <5> QED
          BY <5>2, <4>1
      <4>3. i + 1 \in 1..Len(p)
        BY <4>2, <3>1, <2>5
      <4>4. Owns(p, i + 1, nextPos)
        <5>1. StartOf(p, i + 1) < StartOf(p, (i + 1) + 1)
          <6> DEFINE k == i + 1
          <6>1. k \in 1..Len(p) /\ p[k].seconds \in Nat \ {0}
            BY <4>3, <2>1, <2>4, PlaylistFacts DEF Sound
          <6> HIDE DEF k
          <6>2. Ticks(p[k].seconds) \in Nat \ {0}
            BY <6>1, TickAssumption DEF Ticks
          <6>3. StartOf(p, k + 1) = StartOf(p, k) + Ticks(p[k].seconds)
            BY <6>1, <2>1, StartOfNext
          <6>4. StartOf(p, k) \in Int
            BY <3>2 DEF k
          <6> QED
            BY <6>2, <6>3, <6>4 DEF k
        <5> QED
          BY <5>1, <4>1, <2>10 DEF Owns
      <4>5. j = i + 1
        BY <4>3, <4>4, <2>1, <2>4, <2>6, <2>10, OneOwner
      <4>6. state'.elapsed = 0
        BY <4>1, <4>3, <4>5, <2>1, <2>4, <2>7, ElapsedAtEnds DEF b
      <4>7. state.elapsed = p[i].seconds - 1
        BY <4>1, <2>1, <2>4, <2>5, ElapsedAtEnds DEF b
      <4>8. following = i + 1
        <5> DEFINE l == n
        <5>1. l \in Nat \ {0} /\ i \in 0..(l - 1) /\ i \in Int /\ i = l * 0 + i
          BY <2>5, <2>9, <3>1, <4>2
        <5> HIDE DEF l
        <5>2. i % l = i
          BY <5>1, OnlyDivision
        <5> QED
          BY <5>2, <2>5 DEF l
      <4> HIDE DEF following
      <4> QED
        BY <4>5, <4>6, <4>7, <4>8, <2>5, <2>7 DEF p
    <3> QED
      BY <3>3, <3>4
  <2> QED
    BY <2>8, <2>12, <2>13, <2>14
<1> QED
  BY <1>1, EngineCorrect, PTL DEF Spec, Seamless
===============================================================================
