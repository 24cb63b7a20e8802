-------------------------- MODULE NormalizeProofs --------------------------
(***************************************************************************)
(* What Normalize sends, for every order: pairs on the grid of their own   *)
(* price, and stop orders with the trigger on the side it was given.       *)
(***************************************************************************)
EXTENDS Normalize, Integers, WellFoundedInduction, TLAPS

-----------------------------------------------------------------------------
(* Induction on the naturals, for a set in the place of a predicate: its    *)
(* complement has no least element.                                         *)
LEMMA SetInduction ==
    ASSUME NEW T, 0 \in T, \A n \in Nat : n \in T => n + 1 \in T
    PROVE  Nat \subseteq T
  <1> DEFINE R == OpToRel(<, Nat)
             M == Nat \ T
  <1>1. IsWellFoundedOn(R, Nat) BY NatLessThanWellFounded
  <1> SUFFICES ASSUME M # {} PROVE FALSE OBVIOUS
  <1>2. PICK x \in M : \A y \in M : <<y, x>> \notin R
    <2> HIDE DEF R
    <2> QED BY <1>1, WFMin
  <1>3. x \in Nat /\ x # 0 /\ x - 1 \in Nat OBVIOUS
  <1>4. x - 1 \in M BY <1>3
  <1>5. <<x - 1, x>> \in R BY <1>3 DEF OpToRel
  <1> QED BY <1>2, <1>4, <1>5

(* The powers of ten up to n. *)
Powers(n) ==
    {g \in [0..n -> Nat] : g[0] = 1 /\ \A i \in 1..n : g[i] = 10 * g[i - 1]}

LEMMA PowersExist == ASSUME NEW n \in Nat PROVE Powers(n) # {}
  <1> DEFINE T == {k \in Nat : Powers(k) # {}}
  <1>1. 0 \in T
    <2> DEFINE g == [i \in 0..0 |-> 1]
    <2>1. g \in Powers(0) BY DEF Powers
    <2> QED BY <2>1
  <1>2. ASSUME NEW k \in Nat, k \in T PROVE k + 1 \in T
    <2>1. PICK g \in Powers(k) : TRUE BY <1>2
    <2> DEFINE h == [i \in 0..(k + 1) |-> IF i = k + 1 THEN 10 * g[k] ELSE g[i]]
    <2>2. g \in [0..k -> Nat] /\ g[0] = 1 /\ \A i \in 1..k : g[i] = 10 * g[i - 1]
      BY <2>1 DEF Powers
    <2>3. h \in [0..(k + 1) -> Nat] /\ h[0] = 1 BY <2>2
    <2>4. ASSUME NEW i \in 1..(k + 1) PROVE h[i] = 10 * h[i - 1] BY <2>2
    <2>5. h \in Powers(k + 1) BY <2>3, <2>4 DEF Powers
    <2> QED BY <2>5
  <1> HIDE DEF T
  <1>3. Nat \subseteq T BY <1>1, <1>2, SetInduction
  <1> QED BY <1>3 DEF T

LEMMA PowersAgree ==
    ASSUME NEW n \in Nat, NEW k \in Nat, NEW g \in Powers(n), NEW h \in Powers(k),
           NEW j \in Nat, j <= n, j <= k
    PROVE  g[j] = h[j]
  <1> DEFINE T == {i \in Nat : i <= n /\ i <= k => g[i] = h[i]}
  <1>1. 0 \in T BY DEF Powers
  <1>2. ASSUME NEW i \in Nat, i \in T PROVE i + 1 \in T
    <2> SUFFICES ASSUME i + 1 <= n, i + 1 <= k PROVE g[i + 1] = h[i + 1] OBVIOUS
    <2>1. g[i] = h[i] BY <1>2
    <2>2. i + 1 \in 1..n /\ i + 1 \in 1..k /\ (i + 1) - 1 = i OBVIOUS
    <2>3. g[i + 1] = 10 * g[i] /\ h[i + 1] = 10 * h[i] BY <2>2 DEF Powers
    <2> QED BY <2>1, <2>3
  <1> HIDE DEF T
  <1>3. Nat \subseteq T BY <1>1, <1>2, SetInduction
  <1> QED BY <1>3 DEF T

LEMMA UnitDef == Unit = [e \in Nat |-> IF e = 0 THEN 1 ELSE 10 * Unit[e - 1]]
  <1> DEFINE g(n) == CHOOSE p \in Powers(n) : TRUE
             f == [n \in Nat |-> g(n)[n]]
  <1>1. \A n \in Nat : g(n) \in Powers(n) BY PowersExist
  <1> HIDE DEF g
  <1>2. ASSUME NEW n \in Nat PROVE f[n] = IF n = 0 THEN 1 ELSE 10 * f[n - 1]
    <2>1. g(n) \in Powers(n) BY <1>1
    <2>2. CASE n = 0 BY <2>1, <2>2 DEF Powers
    <2>3. CASE n # 0
      <3>1. n - 1 \in Nat /\ n \in 1..n BY <2>3
      <3>2. g(n - 1) \in Powers(n - 1) BY <1>1, <3>1
      <3>3. g(n)[n - 1] = g(n - 1)[n - 1] BY <2>1, <3>1, <3>2, PowersAgree
      <3>4. g(n)[n] = 10 * g(n)[n - 1] BY <2>1, <3>1 DEF Powers
      <3> QED BY <2>3, <3>1, <3>3, <3>4
    <2> QED BY <2>2, <2>3
  <1>3. f = [e \in Nat |-> IF e = 0 THEN 1 ELSE 10 * f[e - 1]]
    <2> HIDE DEF f
    <2>1. f = [e \in Nat |-> f[e]] BY DEF f
    <2> QED BY <1>2, <2>1
  <1> HIDE DEF f
  <1> QED BY <1>3 DEF Unit

LEMMA UnitStep ==
    /\ Unit \in [Nat -> Nat \ {0}]
    /\ Unit[0] = 1
    /\ \A e \in Nat : Unit[e + 1] = 10 * Unit[e]
  <1>1. Unit[0] = 1 BY UnitDef
  <1>2. ASSUME NEW e \in Nat PROVE Unit[e + 1] = 10 * Unit[e]
    <2>1. e + 1 \in Nat /\ e + 1 # 0 /\ (e + 1) - 1 = e OBVIOUS
    <2> QED BY <2>1, UnitDef
  <1> DEFINE T == {e \in Nat : Unit[e] \in Nat \ {0}}
  <1>3. Nat \subseteq T
    <2>1. 0 \in T BY <1>1
    <2>2. ASSUME NEW e \in Nat, e \in T PROVE e + 1 \in T BY <1>2, <2>2
    <2> HIDE DEF T
    <2> QED BY <2>1, <2>2, SetInduction
  <1>4. Unit = [e \in Nat |-> Unit[e]] BY UnitDef
  <1> QED BY <1>1, <1>2, <1>3, <1>4

LEMMA UnitAdd ==
    ASSUME NEW a \in Nat, NEW b \in Nat PROVE Unit[a + b] = Unit[a] * Unit[b]
  <1> DEFINE T == {k \in Nat : Unit[k + b] = Unit[k] * Unit[b]}
  <1>1. 0 \in T BY UnitStep
  <1>2. ASSUME NEW k \in Nat, k \in T PROVE k + 1 \in T
    <2> DEFINE u == Unit[k]
               v == Unit[b]
    <2>1. Unit[k + 1] = 10 * u /\ Unit[(k + b) + 1] = 10 * Unit[k + b] BY UnitStep
    <2>2. Unit[k + b] = u * v BY <1>2
    <2>3. u \in Nat /\ v \in Nat BY UnitStep
    <2>4. (k + 1) + b = (k + b) + 1 OBVIOUS
    <2> HIDE DEF u, v
    <2>5. 10 * (u * v) = (10 * u) * v BY <2>3
    <2> QED BY <2>1, <2>2, <2>4, <2>5 DEF v
  <1> HIDE DEF T
  <1>3. Nat \subseteq T BY <1>1, <1>2, SetInduction
  <1> QED BY <1>3 DEF T

-----------------------------------------------------------------------------
(* Multiples.                                                               *)

LEMMA Times ==
    ASSUME NEW t \in Nat \ {0}, NEW j \in Int, NEW k \in Int
    PROVE  (j <= k) <=> (j * t <= k * t)
  <1>1. ASSUME j <= k PROVE j * t <= k * t
    <2>1. (k - j) * t >= 0 BY <1>1
    <2> QED BY <2>1
  <1>2. ASSUME k < j PROVE k * t < j * t
    <2>1. (j - k) * t > 0 BY <1>2
    <2> QED BY <2>1
  <1> QED BY <1>1, <1>2

LEMMA Remainder ==
    ASSUME NEW a \in Nat, NEW t \in Nat \ {0}
    PROVE  /\ a \div t \in Nat /\ a % t \in 0..(t - 1)
           /\ a = (a \div t) * t + (a % t)
  OBVIOUS

LEMMA Quotient ==
    ASSUME NEW a \in Nat, NEW t \in Nat \ {0}, NEW n \in Nat
    PROVE  (a \div t >= n) <=> (a >= n * t)
  <1> DEFINE q == a \div t
             r == a % t
  <1>1. q \in Nat /\ r \in 0..(t - 1) /\ a = q * t + r BY Remainder
  <1> HIDE DEF q, r
  <1>2. (n <= q) <=> (n * t <= q * t) BY <1>1, Times
  <1>3. (q + 1 <= n) <=> ((q + 1) * t <= n * t) BY <1>1, Times
  <1>4. (q + 1) * t = q * t + t /\ q * t \in Nat /\ n * t \in Nat BY <1>1
  <1>5. q >= n <=> a >= n * t BY <1>1, <1>2, <1>3, <1>4
  <1> QED BY <1>5 DEF q

LEMMA MultipleHasNoRemainder ==
    ASSUME NEW k \in Nat, NEW t \in Nat \ {0} PROVE (k * t) % t = 0
  <1> DEFINE a == k * t
             q == a \div t
             r == a % t
  <1>1. a \in Nat OBVIOUS
  <1> HIDE DEF a
  <1>2. q \in Nat /\ r \in 0..(t - 1) /\ a = q * t + r BY <1>1, Remainder
  <1> HIDE DEF q, r
  <1>3. (k <= q) <=> (k * t <= q * t) BY <1>2, Times
  <1>4. (q + 1 <= k) <=> ((q + 1) * t <= k * t) BY <1>2, Times
  <1>5. (q + 1) * t = q * t + t BY <1>2
  <1>6. k = q BY <1>2, <1>3, <1>4, <1>5 DEF a
  <1>7. r = 0 BY <1>2, <1>6 DEF a
  <1> QED BY <1>7 DEF r, a

-----------------------------------------------------------------------------
(* Rounding.                                                                *)

Tick(x, decimals) == Unit[x.e - decimals]

LEMMA TickType ==
    ASSUME NEW x \in Decimal, NEW d \in Nat, d < x.e
    PROVE  x.e - d \in Nat /\ Tick(x, d) \in Nat \ {0}
  BY UnitStep DEF Tick, Decimal

(* A result is the multiple of the tick below, or the one above. *)
LEMMA RoundedNear ==
    ASSUME NEW x \in Decimal, NEW d \in Nat, d < x.e, NEW y \in Rounded(x, d)
    PROVE  \E k \in Nat :
             /\ y = [x EXCEPT !.m = k * Tick(x, d)]
             /\ 2 * (k * Tick(x, d)) <= 2 * x.m + Tick(x, d)
             /\ 2 * x.m <= 2 * (k * Tick(x, d)) + Tick(x, d)
  <1> DEFINE t == Tick(x, d)
             q == x.m \div t
             r == x.m % t
             down == x.m - r
  <1>1. x.m \in Nat /\ x.e \in Nat /\ ~(x.e <= d) BY DEF Decimal
  <1>2. t \in Nat \ {0} BY TickType
  <1>3. PICK n \in {down, down + t} :
          y = [x EXCEPT !.m = n] /\ 2 * n <= 2 * x.m + t /\ 2 * x.m <= 2 * n + t
    BY <1>1 DEF Rounded, Tick
  <1> HIDE DEF t
  <1>4. q \in Nat /\ r \in 0..(t - 1) /\ x.m = q * t + r BY <1>1, <1>2, Remainder
  <1> HIDE DEF q, r
  <1>5. n = q * t \/ n = (q + 1) * t BY <1>1, <1>2, <1>3, <1>4
  <1>6. \E k \in Nat : n = k * t BY <1>4, <1>5
  <1>7. PICK k \in Nat : n = k * t BY <1>6
  <1> QED BY <1>3, <1>7 DEF t

LEMMA RoundedType ==
    ASSUME NEW x \in Decimal, NEW d \in Nat, NEW y \in Rounded(x, d)
    PROVE  y \in Decimal /\ y.e = x.e /\ (x.e <= d => y = x)
  <1>1. CASE x.e <= d BY <1>1 DEF Rounded
  <1>2. CASE ~(x.e <= d)
    <2>1. d < x.e BY <1>2 DEF Decimal
    <2>2. PICK k \in Nat : y = [x EXCEPT !.m = k * Tick(x, d)] BY <2>1, RoundedNear
    <2>3. k * Tick(x, d) \in Nat BY <2>1, TickType
    <2> QED BY <1>2, <2>2, <2>3 DEF Decimal
  <1> QED BY <1>1, <1>2

LEMMA RoundedOnGrid ==
    ASSUME NEW x \in Decimal, NEW d \in Nat, NEW y \in Rounded(x, d)
    PROVE  OnGrid(y, d)
  <1>1. CASE x.e <= d BY <1>1, RoundedType DEF OnGrid
  <1>2. CASE ~(x.e <= d)
    <2>1. d < x.e BY <1>2 DEF Decimal
    <2>2. PICK k \in Nat : y = [x EXCEPT !.m = k * Tick(x, d)] BY <2>1, RoundedNear
    <2>3. y.m = k * Tick(x, d) /\ y.e = x.e BY <2>2 DEF Decimal
    <2>4. y.m % Tick(x, d) = 0 BY <2>1, <2>3, TickType, MultipleHasNoRemainder
    <2> QED BY <2>3, <2>4 DEF OnGrid, Tick
  <1> QED BY <1>1, <1>2

(* Rounding does not pass a whole number. *)
LEMMA RoundedKeepsBound ==
    ASSUME NEW x \in Decimal, NEW d \in Nat, NEW y \in Rounded(x, d), NEW b \in Nat
    PROVE  /\ x.m >= b * Unit[x.e] => y.m >= b * Unit[x.e]
           /\ x.m <= b * Unit[x.e] => y.m <= b * Unit[x.e]
  <1>1. CASE x.e <= d BY <1>1, RoundedType
  <1>2. CASE ~(x.e <= d)
    <2> DEFINE t == Tick(x, d)
               u == Unit[d]
               j == b * u
    <2>1. d < x.e /\ x.m \in Nat BY <1>2 DEF Decimal
    <2>2. PICK k \in Nat :
            /\ y = [x EXCEPT !.m = k * t]
            /\ 2 * (k * t) <= 2 * x.m + t
            /\ 2 * x.m <= 2 * (k * t) + t
      BY <2>1, RoundedNear
    <2>3. y.m = k * t BY <2>2 DEF Decimal
    <2>4. t \in Nat \ {0} /\ u \in Nat /\ x.e - d \in Nat /\ d + (x.e - d) = x.e
      BY <2>1, TickType, UnitStep DEF Decimal
    <2>5. Unit[x.e] = u * t BY <2>4, UnitAdd DEF Tick
    <2> HIDE DEF t, u
    <2>6. b * (u * t) = j * t /\ j \in Int BY <2>4
    <2> HIDE DEF j
    <2>7. (k + 1 <= j) <=> ((k + 1) * t <= j * t) BY <2>4, <2>6, Times
    <2>8. (j + 1 <= k) <=> ((j + 1) * t <= k * t) BY <2>4, <2>6, Times
    <2>9. (k + 1) * t = k * t + t /\ (j + 1) * t = j * t + t /\ j * t \in Int /\ k * t \in Int
      BY <2>4, <2>6
    <2>10. CASE k + 1 <= j BY <2>1, <2>2, <2>3, <2>4, <2>5, <2>6, <2>7, <2>9, <2>10
    <2>11. CASE j + 1 <= k BY <2>1, <2>2, <2>3, <2>4, <2>5, <2>6, <2>8, <2>9, <2>11
    <2>12. CASE j = k BY <2>3, <2>5, <2>6, <2>9, <2>12
    <2> QED BY <2>6, <2>10, <2>11, <2>12
  <1> QED BY <1>1, <1>2

(* The lower of two numbers is not rounded past the other. *)
LEMMA RoundedMonotone ==
    ASSUME NEW x \in Decimal, NEW z \in Decimal, x.e = z.e, x.m < z.m, NEW d \in Nat,
           NEW y \in Rounded(x, d), NEW w \in Rounded(z, d)
    PROVE  y.m <= w.m
  <1>1. CASE x.e <= d BY <1>1, RoundedType DEF Decimal
  <1>2. CASE ~(x.e <= d)
    <2> DEFINE t == Tick(x, d)
    <2>1. d < x.e /\ d < z.e /\ Tick(z, d) = t /\ x.m \in Nat /\ z.m \in Nat
      BY <1>2 DEF Decimal, Tick
    <2>2. PICK j \in Nat : y = [x EXCEPT !.m = j * t] /\ 2 * (j * t) <= 2 * x.m + t
      BY <2>1, RoundedNear
    <2>3. PICK k \in Nat : w = [z EXCEPT !.m = k * t] /\ 2 * z.m <= 2 * (k * t) + t
      BY <2>1, RoundedNear
    <2>4. y.m = j * t /\ w.m = k * t BY <2>2, <2>3 DEF Decimal
    <2>5. t \in Nat \ {0} BY <2>1, TickType
    <2> HIDE DEF t
    <2>6. (k + 1 <= j) <=> ((k + 1) * t <= j * t) BY <2>5, Times
    <2>7. (k + 1) * t = k * t + t /\ k * t \in Int /\ j * t \in Int BY <2>5
    <2>8. ~(k + 1 <= j) BY <2>1, <2>2, <2>3, <2>5, <2>6, <2>7
    <2>9. (j <= k) <=> (j * t <= k * t) BY <2>5, Times
    <2> QED BY <2>4, <2>8, <2>9
  <1> QED BY <1>1, <1>2

-----------------------------------------------------------------------------
(* Bands of prices.                                                         *)

LEMMA BandValues ==
    /\ DOMAIN Bands = 1..6 /\ Bands[6].from = 0
    /\ \A i \in 1..6 :
          Bands[i].from \in Nat /\ Bands[i].price \in Nat /\ Bands[i].quantity \in Nat
    /\ \A i, j \in 1..6 :
          i < j => Bands[j].from < Bands[i].from /\ Bands[j].quantity < Bands[i].quantity
  <1>1. DOMAIN Bands = 1..6 /\ Bands[6].from = 0 BY DEF Bands
  <1>2. ASSUME NEW i \in 1..6
        PROVE  Bands[i].from \in Nat /\ Bands[i].price \in Nat /\ Bands[i].quantity \in Nat
    <2>1. i \in {1, 2, 3, 4, 5, 6} OBVIOUS
    <2> QED BY <2>1 DEF Bands
  <1>3. ASSUME NEW i \in 1..5
        PROVE  /\ Bands[i + 1].from < Bands[i].from
               /\ Bands[i + 1].quantity < Bands[i].quantity
    <2>1. i \in {1, 2, 3, 4, 5} OBVIOUS
    <2> QED BY <2>1 DEF Bands
  <1>4. ASSUME NEW i \in 1..6, NEW j \in 1..6, i < j
        PROVE  Bands[j].from < Bands[i].from /\ Bands[j].quantity < Bands[i].quantity
    <2> HIDE DEF Bands
    <2>1. /\ i \in {1, 2, 3, 4, 5} /\ j \in {2, 3, 4, 5, 6}
          /\ 1 + 1 = 2 /\ 2 + 1 = 3 /\ 3 + 1 = 4 /\ 4 + 1 = 5 /\ 5 + 1 = 6
      BY <1>4
    <2> QED BY <1>2, <1>3, <1>4, <2>1
  <1> QED BY <1>1, <1>2, <1>4

(* A price lies in the band i. *)
Within(x, i) ==
    /\ x.m >= Bands[i].from * Unit[x.e]
    /\ \A j \in 1..(i - 1) : x.m < Bands[j].from * Unit[x.e]

LEMMA AtLeastIs ==
    ASSUME NEW x \in Decimal, NEW i \in 1..6
    PROVE  /\ AtLeast(x, Bands[i].from) <=> x.m >= Bands[i].from * Unit[x.e]
           /\ ~AtLeast(x, Bands[i].from) <=> x.m < Bands[i].from * Unit[x.e]
  <1>1. x.m \in Nat /\ Unit[x.e] \in Nat \ {0} /\ Bands[i].from \in Nat
    BY UnitStep, BandValues DEF Decimal
  <1>2. AtLeast(x, Bands[i].from) <=> x.m >= Bands[i].from * Unit[x.e]
    BY <1>1, Quotient DEF AtLeast
  <1>3. Bands[i].from * Unit[x.e] \in Nat BY <1>1
  <1> QED BY <1>1, <1>2, <1>3

LEMMA WithinOne ==
    ASSUME NEW x \in Decimal PROVE \E i \in 1..6 : Within(x, i)
  <1> DEFINE Below(j) == x.m < Bands[j].from * Unit[x.e]
  <1>1. \A j \in 1..6 : Below(j) \/ x.m >= Bands[j].from * Unit[x.e] BY AtLeastIs
  <1>2. x.m >= Bands[6].from * Unit[x.e]
    <2>1. x.m \in Nat /\ Unit[x.e] \in Nat BY UnitStep DEF Decimal
    <2> QED BY <2>1, BandValues
  <1>3. /\ 1..(1 - 1) = {} /\ 1..(2 - 1) = {1} /\ 1..(3 - 1) = {1, 2}
        /\ 1..(4 - 1) = {1, 2, 3} /\ 1..(5 - 1) = {1, 2, 3, 4}
        /\ 1..(6 - 1) = {1, 2, 3, 4, 5}
        /\ 1..6 = {1, 2, 3, 4, 5, 6}
    OBVIOUS
  <1>4. CASE ~Below(1) BY <1>1, <1>3, <1>4 DEF Within
  <1>5. CASE Below(1) /\ ~Below(2) BY <1>1, <1>3, <1>5 DEF Within
  <1>6. CASE Below(1) /\ Below(2) /\ ~Below(3) BY <1>1, <1>3, <1>6 DEF Within
  <1>7. CASE Below(1) /\ Below(2) /\ Below(3) /\ ~Below(4) BY <1>1, <1>3, <1>7 DEF Within
  <1>8. CASE Below(1) /\ Below(2) /\ Below(3) /\ Below(4) /\ ~Below(5)
    BY <1>1, <1>3, <1>8 DEF Within
  <1>9. CASE Below(1) /\ Below(2) /\ Below(3) /\ Below(4) /\ Below(5)
    BY <1>2, <1>3, <1>9 DEF Within
  <1> QED BY <1>4, <1>5, <1>6, <1>7, <1>8, <1>9

LEMMA WithinIsBand ==
    ASSUME NEW x \in Decimal, NEW i \in 1..6, Within(x, i) PROVE Band(x) = Bands[i]
  <1> DEFINE P(k) == /\ AtLeast(x, Bands[k].from)
                     /\ \A j \in 1..(k - 1) : ~AtLeast(x, Bands[j].from)
             b == CHOOSE k \in DOMAIN Bands : P(k)
  <1>1. P(i)
    <2>1. \A j \in 1..(i - 1) : j \in 1..6 OBVIOUS
    <2> QED BY <2>1, AtLeastIs DEF Within
  <1>2. b \in 1..6 /\ P(b)
    <2>1. i \in DOMAIN Bands BY BandValues
    <2> HIDE DEF P
    <2>2. b \in DOMAIN Bands /\ P(b) BY <1>1, <2>1
    <2> QED BY <2>2, BandValues
  <1>3. Band(x) = Bands[b] BY DEF Band
  <1> HIDE DEF b
  <1>4. ~(b < i) /\ ~(i < b)
    <2>1. b < i => b \in 1..(i - 1) BY <1>2
    <2>2. i < b => i \in 1..(b - 1) BY <1>2
    <2> QED BY <1>1, <1>2, <2>1, <2>2
  <1>5. b = i BY <1>2, <1>4
  <1> QED BY <1>3, <1>5

(* Rounding leaves a price in its band, or takes it to the lower bound of   *)
(* the next one.                                                            *)
LEMMA BandAfter ==
    ASSUME NEW x \in Decimal, NEW i \in 1..6, Within(x, i),
           NEW y \in Rounded(x, Bands[i].price)
    PROVE  \/ Within(y, i)
           \/ /\ i - 1 \in 1..6 /\ Within(y, i - 1)
              /\ y.m = Bands[i - 1].from * Unit[y.e]
  <1> DEFINE u == Unit[x.e]
             F(j) == Bands[j].from
  <1>1. /\ x.m \in Nat /\ u \in Nat \ {0} /\ Bands[i].price \in Nat
        /\ \A j \in 1..6 : F(j) \in Nat
        /\ \A j, k \in 1..6 : j < k => F(k) < F(j)
    BY UnitStep, BandValues DEF Decimal
  <1>2. y.e = x.e /\ y.m \in Nat BY <1>1, RoundedType DEF Decimal
  <1>3. y.m >= F(i) * u BY <1>1, RoundedKeepsBound DEF Within
  <1>4. CASE i = 1 BY <1>2, <1>3, <1>4 DEF Within
  <1>5. CASE i # 1
    <2>1. i - 1 \in 1..6 /\ i - 1 \in 1..(i - 1) BY <1>5
    <2>2. y.m <= F(i - 1) * u
      <3>1. x.m < F(i - 1) * u BY <2>1 DEF Within
      <3>2. F(i - 1) * u \in Nat /\ F(i - 1) \in Nat BY <1>1, <2>1
      <3>3. x.m <= F(i - 1) * u BY <1>1, <3>1, <3>2
      <3> QED BY <1>1, <3>2, <3>3, RoundedKeepsBound
    <2> HIDE DEF u, F
    <2>3. ASSUME NEW j \in 1..6, j < i - 1 PROVE F(i - 1) * u < F(j) * u
      <3>1. F(i - 1) + 1 <= F(j) /\ F(i - 1) \in Nat /\ F(j) \in Nat BY <1>1, <2>1, <2>3
      <3>2. (F(i - 1) + 1) * u <= F(j) * u BY <1>1, <3>1, Times
      <3>3. (F(i - 1) + 1) * u = F(i - 1) * u + u /\ F(i - 1) * u \in Nat /\ F(j) * u \in Nat
        BY <1>1, <3>1
      <3> QED BY <1>1, <3>2, <3>3
    <2>4. \A j \in 1..6 : F(j) * u \in Nat BY <1>1
    <2>5. CASE y.m = F(i - 1) * u
      <3>1. \A j \in 1..((i - 1) - 1) : j \in 1..6 /\ j < i - 1 OBVIOUS
      <3>2. Within(y, i - 1) BY <1>2, <2>1, <2>3, <2>4, <2>5, <3>1 DEF Within, u, F
      <3> QED BY <1>2, <2>1, <2>5, <3>2 DEF u, F
    <2>6. CASE y.m # F(i - 1) * u
      <3>1. y.m < F(i - 1) * u BY <1>2, <2>1, <2>2, <2>4, <2>6
      <3>2. \A j \in 1..(i - 1) : j \in 1..6 /\ (j < i - 1 \/ j = i - 1) OBVIOUS
      <3>3. \A j \in 1..(i - 1) : y.m < F(j) * u
        <4> TAKE j \in 1..(i - 1)
        <4>1. j \in 1..6 /\ (j < i - 1 \/ j = i - 1) BY <3>2
        <4>2. F(j) * u \in Nat /\ F(i - 1) * u \in Nat BY <2>1, <2>4, <4>1
        <4>3. CASE j = i - 1 BY <3>1, <4>3
        <4>4. CASE j < i - 1
          <5>1. F(i - 1) * u < F(j) * u BY <2>3, <4>1, <4>4
          <5> QED BY <1>2, <3>1, <4>2, <5>1
        <4> QED BY <4>1, <4>3, <4>4
      <3> QED BY <1>2, <1>3, <3>3 DEF Within, u, F
    <2> QED BY <2>5, <2>6
  <1> QED BY <1>4, <1>5

(* A whole number is on every grid, ... *)
LEMMA WholeOnGrid ==
    ASSUME NEW y \in Decimal, NEW d \in Nat, NEW b \in Nat, y.m = b * Unit[y.e]
    PROVE  OnGrid(y, d)
  <1>1. CASE y.e <= d BY <1>1 DEF OnGrid
  <1>2. CASE ~(y.e <= d)
    <2>1. d < y.e /\ y.e - d \in Nat /\ d + (y.e - d) = y.e BY <1>2 DEF Decimal
    <2> DEFINE t == Unit[y.e - d]
               u == Unit[d]
    <2>2. Unit[y.e] = u * t BY <2>1, UnitAdd
    <2>3. t \in Nat \ {0} /\ u \in Nat BY <2>1, UnitStep
    <2> HIDE DEF t, u
    <2>4. b * (u * t) = (b * u) * t /\ b * u \in Nat BY <2>3
    <2>5. y.m % t = 0 BY <2>2, <2>3, <2>4, MultipleHasNoRemainder
    <2> QED BY <2>5 DEF OnGrid, t
  <1> QED BY <1>1, <1>2

(* ... and a number on a grid is on every finer one.                        *)
LEMMA FinerGrid ==
    ASSUME NEW y \in Decimal, NEW d \in Nat, OnGrid(y, d), NEW k \in Nat, d <= k
    PROVE  OnGrid(y, k)
  <1>1. CASE y.e <= k BY <1>1 DEF OnGrid
  <1>2. CASE ~(y.e <= k)
    <2>1. /\ y.m \in Nat /\ y.e \in Nat /\ ~(y.e <= d)
          /\ y.e - d \in Nat /\ y.e - k \in Nat /\ k - d \in Nat
          /\ (k - d) + (y.e - k) = y.e - d
      BY <1>2 DEF Decimal
    <2> DEFINE s == Unit[y.e - d]
               t == Unit[y.e - k]
               u == Unit[k - d]
    <2>2. s = u * t BY <2>1, UnitAdd
    <2>3. s \in Nat \ {0} /\ t \in Nat \ {0} /\ u \in Nat BY <2>1, UnitStep
    <2>4. y.m % s = 0 BY <2>1 DEF OnGrid
    <2> DEFINE q == y.m \div s
               r == y.m % s
    <2> HIDE DEF s, t, u
    <2>5. q \in Nat /\ y.m = q * s + r BY <2>1, <2>3, Remainder
    <2>6. r = 0 BY <2>4
    <2> HIDE DEF q, r
    <2>7. y.m = q * s BY <2>3, <2>5, <2>6
    <2>8. q * (u * t) = (q * u) * t /\ q * u \in Nat BY <2>3, <2>5
    <2>9. y.m % t = 0 BY <2>2, <2>3, <2>7, <2>8, MultipleHasNoRemainder
    <2> QED BY <2>9 DEF OnGrid, t
  <1> QED BY <1>1, <1>2

-----------------------------------------------------------------------------
(* The theorems.                                                            *)

LEMMA NormalizedType ==
    ASSUME NEW price \in Decimal, NEW quantity \in Decimal,
           NEW n \in normalize_price_quantity(price, quantity)
    PROVE  /\ n.price \in Rounded(price, Band(price).price)
           /\ n.quantity \in Rounded(quantity, Band(price).quantity)
           /\ n.price \in Decimal /\ n.quantity \in Decimal
  <1>1. PICK i \in 1..6 : Within(price, i) BY WithinOne
  <1>2. Band(price).price \in Nat /\ Band(price).quantity \in Nat
    BY <1>1, WithinIsBand, BandValues
  <1>3. /\ n.price \in Rounded(price, Band(price).price)
        /\ n.quantity \in Rounded(quantity, Band(price).quantity)
    BY DEF normalize_price_quantity
  <1> QED BY <1>2, <1>3, RoundedType

(* Price and quantity come out on the grid of the price that comes out,     *)
(* although their decimals are those of the price that went in, which may   *)
(* have been in another band (utils.py:91-97).                              *)
THEOREM NormalizedOnGrid ==
    ASSUME NEW price \in Decimal, NEW quantity \in Decimal,
           NEW n \in normalize_price_quantity(price, quantity)
    PROVE  PairOnGrid(n.price, n.quantity)
  <1> DEFINE p == n.price
             q == n.quantity
  <1>1. PICK i \in 1..6 : Within(price, i) BY WithinOne
  <1>2. Band(price) = Bands[i] BY <1>1, WithinIsBand
  <1>3. /\ p \in Rounded(price, Bands[i].price) /\ p \in Decimal
        /\ q \in Rounded(quantity, Bands[i].quantity) /\ q \in Decimal
    BY <1>2, NormalizedType
  <1>4. Bands[i].price \in Nat /\ Bands[i].quantity \in Nat BY BandValues
  <1> HIDE DEF p, q
  <1>5. OnGrid(p, Bands[i].price) /\ OnGrid(q, Bands[i].quantity)
    BY <1>3, <1>4, RoundedOnGrid
  <1>6. CASE Within(p, i)
    <2>1. Band(p) = Bands[i] BY <1>3, <1>6, WithinIsBand
    <2> QED BY <1>5, <2>1 DEF PairOnGrid, p, q
  <1>7. CASE /\ i - 1 \in 1..6 /\ Within(p, i - 1)
             /\ p.m = Bands[i - 1].from * Unit[p.e]
    <2>1. Band(p) = Bands[i - 1] BY <1>3, <1>7, WithinIsBand
    <2>2. /\ Bands[i - 1].from \in Nat /\ Bands[i - 1].price \in Nat
          /\ Bands[i - 1].quantity \in Nat /\ Bands[i].quantity < Bands[i - 1].quantity
      BY <1>7, BandValues
    <2>3. OnGrid(p, Bands[i - 1].price) BY <1>3, <1>7, <2>2, WholeOnGrid
    <2>4. OnGrid(q, Bands[i - 1].quantity) BY <1>3, <1>4, <1>5, <2>2, FinerGrid
    <2> QED BY <2>1, <2>3, <2>4 DEF PairOnGrid, p, q
  <1> QED BY <1>1, <1>3, <1>6, <1>7, BandAfter

(* Two numbers in different bands have a whole number between them. *)
LEMMA BandsApart ==
    ASSUME NEW x \in Decimal, NEW z \in Decimal, x.e = z.e, x.m <= z.m,
           NEW i \in 1..6, NEW j \in 1..6, Within(x, i), Within(z, j), i # j
    PROVE  x.m <= Bands[j].from * Unit[z.e] /\ Bands[j].from * Unit[z.e] <= z.m
  <1>1. /\ x.m \in Nat /\ z.m \in Nat /\ Unit[x.e] \in Nat
        /\ Bands[i].from \in Nat /\ Bands[j].from \in Nat
    BY UnitStep, BandValues DEF Decimal
  <1>2. Bands[i].from * Unit[x.e] \in Nat /\ Bands[j].from * Unit[x.e] \in Nat BY <1>1
  <1>3. CASE j < i
    <2>1. j \in 1..(i - 1) BY <1>3
    <2>2. x.m < Bands[j].from * Unit[x.e] BY <2>1 DEF Within
    <2> QED BY <1>1, <1>2, <2>2 DEF Within
  <1>4. CASE i < j
    <2>1. i \in 1..(j - 1) BY <1>4
    <2>2. z.m < Bands[i].from * Unit[z.e] /\ x.m >= Bands[i].from * Unit[x.e]
      BY <2>1 DEF Within
    <2> QED BY <1>1, <1>2, <2>2
  <1> QED BY <1>3, <1>4

(* Of two different numbers, each rounded in its own band, the lower one    *)
(* stays the lower one.                                                     *)
LEMMA SideKept ==
    ASSUME NEW x \in Decimal, NEW z \in Decimal, x.e = z.e, x.m < z.m,
           NEW y \in Rounded(x, Band(x).price), NEW w \in Rounded(z, Band(z).price)
    PROVE  y.m <= w.m
  <1>1. PICK i \in 1..6 : Within(x, i) BY WithinOne
  <1>2. PICK j \in 1..6 : Within(z, j) BY WithinOne
  <1>3. Band(x) = Bands[i] /\ Band(z) = Bands[j] BY <1>1, <1>2, WithinIsBand
  <1>4. /\ Bands[i].price \in Nat /\ Bands[j].price \in Nat /\ Bands[j].from \in Nat
        /\ x.m \in Nat /\ z.m \in Nat
    BY BandValues DEF Decimal
  <1>5. CASE i = j BY <1>3, <1>4, <1>5, RoundedMonotone
  <1>6. CASE i # j
    <2> DEFINE b == Bands[j].from * Unit[z.e]
    <2>1. x.m <= b /\ b <= z.m BY <1>1, <1>2, <1>4, <1>6, BandsApart
    <2>2. y.m <= b BY <1>3, <1>4, <2>1, RoundedKeepsBound
    <2>3. b <= w.m BY <1>3, <1>4, <2>1, RoundedKeepsBound
    <2>4. y.m \in Nat /\ w.m \in Nat /\ b \in Nat
      <3>1. y \in Decimal /\ w \in Decimal BY <1>3, <1>4, RoundedType
      <3>2. Unit[z.e] \in Nat BY UnitStep DEF Decimal
      <3> QED BY <1>4, <3>1, <3>2 DEF Decimal
    <2> QED BY <2>2, <2>3, <2>4
  <1> QED BY <1>5, <1>6

LEMMA OrderType ==
    ASSUME NEW o \in Order
    PROVE  /\ o.kind \in {"limit", "market", "modify", "stop"}
           /\ o.price \in Decimal /\ o.quantity \in Decimal /\ o.stop \in Decimal
           /\ o.tpsl \in Tpsl
           /\ o.kind = "stop" => o.stop.e = o.price.e
  BY DEF Order

(* What stop_order() sends. *)
LEMMA StopOrderIs ==
    ASSUME NEW o \in Order, NEW w \in StopOrder(o)
    PROVE  /\ \E n \in normalize_price_quantity(o.price, o.quantity) :
                 w.price = n.price /\ w.quantity = n.quantity
           /\ w.stop \in Rounded(o.stop, Band(o.stop).price) /\ w.stop \in Decimal
           /\ w = [price |-> w.price, quantity |-> w.quantity, stop |-> w.stop,
                   tpsl |-> NoTpsl]
           /\ o.stop = o.price => w.stop = w.price
  <1>1. PICK n \in normalize_price_quantity(o.price, o.quantity),
             s \in normalize_price_quantity(o.stop, o.quantity) :
          w = [price |-> n.price, quantity |-> n.quantity, stop |-> s.price, tpsl |-> NoTpsl]
    BY DEF StopOrder
  <1>2. o.stop = o.price => w.stop = w.price BY DEF StopOrder
  <1>3. s.price \in Rounded(o.stop, Band(o.stop).price) /\ s.price \in Decimal
    BY OrderType, NormalizedType
  <1> QED BY <1>1, <1>2, <1>3

(* What the other calls send. *)
LEMMA PlainOrderIs ==
    ASSUME NEW o \in Order, o.kind # "stop", NEW w \in Posted(o)
    PROVE  \E n \in resolve_spot_order_price_quantity(o) :
             w = [price |-> n.price, quantity |-> n.quantity, stop |-> Zero,
                  tpsl |-> TpslSent(o.tpsl)]
  BY DEF Posted

LEMMA TpslSentType == NoTpsl \in Tpsl /\ \A t \in Tpsl : TpslSent(t) \in Tpsl
  <1>1. NoTpsl \in Tpsl BY DEF NoTpsl, Tpsl, Zero, Decimal
  <1> QED BY <1>1 DEF TpslSent

(* What is sent for an order is three decimals and the attached prices. *)
LEMMA PostedType ==
    ASSUME NEW o \in Order, NEW w \in Posted(o)
    PROVE  w \in Wire
  <1>1. Zero \in Decimal BY DEF Zero, Decimal
  <1>2. CASE o.kind = "stop"
    <2>1. w \in StopOrder(o) BY <1>2 DEF Posted
    <2>2. PICK n \in normalize_price_quantity(o.price, o.quantity) :
            w.price = n.price /\ w.quantity = n.quantity
      BY <2>1, StopOrderIs
    <2>3. n.price \in Decimal /\ n.quantity \in Decimal BY OrderType, NormalizedType
    <2>4. /\ w = [price |-> w.price, quantity |-> w.quantity, stop |-> w.stop,
                 tpsl |-> NoTpsl]
          /\ w.stop \in Decimal
      BY <2>1, StopOrderIs
    <2> QED BY <2>2, <2>3, <2>4, TpslSentType DEF Wire
  <1>3. CASE o.kind # "stop"
    <2>1. PICK n \in resolve_spot_order_price_quantity(o) :
            w = [price |-> n.price, quantity |-> n.quantity, stop |-> Zero,
                 tpsl |-> TpslSent(o.tpsl)]
      BY <1>3, PlainOrderIs
    <2>2. CASE o.kind = "market"
      <3>1. n = [price |-> Zero, quantity |-> o.quantity]
        BY <2>2 DEF resolve_spot_order_price_quantity
      <3> QED BY <1>1, <2>1, <3>1, OrderType, TpslSentType DEF Wire
    <2>3. CASE o.kind # "market"
      <3>1. n \in normalize_price_quantity(o.price, o.quantity)
        BY <2>3 DEF resolve_spot_order_price_quantity
      <3>2. n.price \in Decimal /\ n.quantity \in Decimal BY <3>1, OrderType, NormalizedType
      <3> QED BY <1>1, <2>1, <3>2, OrderType, TpslSentType DEF Wire
    <2> QED BY <2>2, <2>3
  <1> QED BY <1>2, <1>3

(* The price and the quantity that order() (but for a market order),        *)
(* modify() and stop_order() send are on the grid of that price             *)
(* (utils.py:91-108, api.py:326, 374, 398).  Attached prices are no part of *)
(* this, they need not be on any grid (api.py:327).                         *)
THEOREM PostedPairOnGrid ==
    ASSUME NEW o \in Order, o.kind # "market", NEW w \in Posted(o)
    PROVE  PairOnGrid(w.price, w.quantity)
  <1>1. \E n \in normalize_price_quantity(o.price, o.quantity) :
          w.price = n.price /\ w.quantity = n.quantity
    <2>1. CASE o.kind = "stop" BY <2>1, StopOrderIs DEF Posted
    <2>2. CASE o.kind # "stop"
      <3>1. PICK n \in resolve_spot_order_price_quantity(o) :
              w = [price |-> n.price, quantity |-> n.quantity, stop |-> Zero,
                 tpsl |-> TpslSent(o.tpsl)]
        BY <2>2, PlainOrderIs
      <3>2. n \in normalize_price_quantity(o.price, o.quantity)
        BY DEF resolve_spot_order_price_quantity
      <3> QED BY <3>1, <3>2
    <2> QED BY <2>1, <2>2
  <1> QED BY <1>1, OrderType, NormalizedOnGrid

(* A stop order's trigger does not pass its price, although each is rounded *)
(* in its own band and a half may go to either side (api.py:398-399).       *)
THEOREM PostedKeepsSide ==
    ASSUME NEW o \in Order, o.kind = "stop", NEW w \in Posted(o)
    PROVE  /\ o.stop.m <= o.price.m => w.stop.m <= w.price.m
           /\ o.stop.m >= o.price.m => w.stop.m >= w.price.m
  <1>1. w \in StopOrder(o) BY DEF Posted
  <1>2. /\ o.price \in Decimal /\ o.quantity \in Decimal /\ o.stop \in Decimal
        /\ o.stop.e = o.price.e
    BY OrderType
  <1>3. PICK n \in normalize_price_quantity(o.price, o.quantity) : w.price = n.price
    BY <1>1, StopOrderIs
  <1>4. /\ w.price \in Rounded(o.price, Band(o.price).price) /\ w.price \in Decimal
        /\ w.stop \in Rounded(o.stop, Band(o.stop).price) /\ w.stop \in Decimal
        /\ o.stop = o.price => w.stop = w.price
    BY <1>1, <1>2, <1>3, StopOrderIs, NormalizedType
  <1>5. o.stop.m \in Nat /\ o.price.m \in Nat /\ w.stop.m \in Nat /\ w.price.m \in Nat
    BY <1>2, <1>4 DEF Decimal
  <1>6. CASE o.stop.m < o.price.m BY <1>2, <1>4, <1>5, <1>6, SideKept
  <1>7. CASE o.price.m < o.stop.m BY <1>2, <1>4, <1>5, <1>7, SideKept
  <1>8. CASE o.stop.m = o.price.m
    <2>1. o.stop = o.price BY <1>2, <1>8 DEF Decimal
    <2> QED BY <1>4, <1>5, <2>1
  <1> QED BY <1>5, <1>6, <1>7, <1>8
=============================================================================
