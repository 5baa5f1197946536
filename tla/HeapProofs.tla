----------------------------- MODULE HeapProofs -----------------------------
(***************************************************************************)
(* Proofs about the page allocator and the kernel heap, for any range of   *)
(* pages, any largest order and any requests.                              *)
(***************************************************************************)
EXTENDS Heap, FiniteSetTheorems, SequenceTheorems, WellFoundedInduction, TLAPS

-----------------------------------------------------------------------------
(* Some relation on the natural numbers orders them well.                  *)
LEMMA NatOrdered ==
    \E R : IsWellFoundedOn(R, Nat) /\ \A x, y \in Nat : y < x => <<y, x>> \in R
  <1> DEFINE R == OpToRel(<, Nat)
  <1>1. IsWellFoundedOn(R, Nat)
    BY NatLessThanWellFounded
  <1>2. \A x, y \in Nat : y < x => <<y, x>> \in R
    BY DEF OpToRel
  <1> HIDE DEF R
  <1> QED
    BY <1>1, <1>2, Zenon

(* A set of natural numbers that is not empty has a least element.         *)
LEMMA LeastOf ==
    ASSUME NEW S, S \subseteq Nat, S # {}
    PROVE  \E x \in S : \A y \in S : x <= y
  <1>1. PICK R : IsWellFoundedOn(R, Nat) /\ \A x, y \in Nat : y < x => <<y, x>> \in R
    BY NatOrdered
  <1>2. \E x \in S : \A y \in S : ~(<<y, x>> \in R)
    BY <1>1, WFMin
  <1>3. \A x, y \in S : y < x => <<y, x>> \in R
    BY <1>1, Zenon
  <1>4. \E x \in S : \A y \in S : ~(y < x)
    BY <1>2, <1>3, Zenon
  <1> QED
    BY <1>4, SMT

(* Min takes the least of a set of numbers.                                *)
LEMMA MinOf ==
    ASSUME NEW S, S \subseteq Nat, S # {}
    PROVE  Min(S) \in S /\ \A y \in S : Min(S) <= y
  <1>1. \E x \in S : \A y \in S : x <= y
    BY LeastOf
  <1>2. \E x \in S : \A y \in S : x =< y
    BY <1>1
  <1> QED
    BY <1>2 DEF Min

(* Max takes the greatest of a set of numbers that is bounded.             *)
LEMMA MaxOf ==
    ASSUME NEW N \in Nat, NEW S, S \subseteq 0..N, S # {}
    PROVE  Max(S) \in S /\ \A y \in S : Max(S) >= y
  <1> DEFINE D == {d \in 0..N : N - d \in S}
  <1>1. D \subseteq Nat /\ D # {}
    <2>1. PICK x \in S : TRUE
      OBVIOUS
    <2>2. N - x \in 0..N /\ N - (N - x) = x
      OBVIOUS
    <2>3. N - x \in D
      BY <2>2
    <2>4. D \subseteq 0..N
      OBVIOUS
    <2> HIDE DEF D
    <2> QED
      BY <2>3, <2>4
  <1>2. PICK d \in D : \A y \in D : d <= y
    <2> HIDE DEF D
    <2> QED
      BY <1>1, LeastOf
  <1>3. N - d \in S /\ d \in 0..N
    OBVIOUS
  <1>4. \A y \in S : N - d >= y
    <2> TAKE y \in S
    <2>1. N - y \in 0..N /\ N - (N - y) = y /\ y \in Nat
      OBVIOUS
    <2>2. N - y \in D
      BY <2>1
    <2>3. d <= N - y
      BY <1>2, <2>2
    <2> QED
      BY <1>3, <2>1, <2>3
  <1>5. \E x \in S : \A y \in S : x >= y
    BY <1>3, <1>4
  <1> QED
    BY <1>5 DEF Max

-----------------------------------------------------------------------------
(* What the definition of 1 << o asks of the powers up to m.               *)
Powers(g, m) == /\ g[0] = 1
                /\ \A n \in 0..m : n # 0 => g[n] = 2 * g[n - 1]

(* The powers exist, as far as one likes.                                  *)
LEMMA PowersExist ==
    ASSUME NEW m \in Nat
    PROVE  \E g : Powers(g, m)
  <1> DEFINE stuck == {k \in Nat : ~ \E g : Powers(g, k)}
  <1> SUFFICES ASSUME stuck # {} PROVE FALSE
    OBVIOUS
  <1>1. PICK k \in stuck : \A j \in stuck : k <= j
    <2>1. stuck \subseteq Nat
      OBVIOUS
    <2> HIDE DEF stuck
    <2> QED
      BY <2>1, LeastOf
  <1>2. k \in Nat /\ ~ \E g : Powers(g, k)
    BY <1>1
  <1>3. CASE k = 0
    <2> DEFINE g == [n \in {0} |-> 1]
    <2>1. Powers(g, 0)
      BY DEF Powers
    <2> QED
      BY <1>2, <1>3, <2>1
  <1>4. CASE k # 0
    <2>1. k - 1 \in Nat /\ k - 1 \notin stuck
      <3>1. k \in Nat
        BY <1>2
      <3> HIDE DEF stuck
      <3> QED
        BY <1>1, <1>4, <3>1
    <2>2. PICK g : Powers(g, k - 1)
      BY <2>1
    <2> DEFINE h == [n \in 0..k |-> IF n = k THEN 2 * g[k - 1] ELSE g[n]]
    <2>3. Powers(h, k)
      <3>1. h[0] = 1
        BY <1>2, <1>4, <2>2 DEF Powers
      <3>2. ASSUME NEW n \in 0..k, n # 0 PROVE h[n] = 2 * h[n - 1]
        <4>1. n - 1 \in 0..k /\ n - 1 # k /\ (n # k => n \in 0..(k - 1))
          BY <1>2, <3>2
        <4>2. h[n - 1] = g[n - 1]
          BY <4>1
        <4>3. CASE n = k
          BY <4>2, <4>3
        <4>4. CASE n # k
          <5>1. g[n] = 2 * g[n - 1]
            BY <2>2, <3>2, <4>1, <4>4 DEF Powers
          <5>2. h[n] = g[n]
            BY <4>4
          <5> QED
            BY <4>2, <5>1, <5>2
        <4> QED
          BY <4>3, <4>4
      <3> HIDE DEF h
      <3> QED
        BY <3>1, <3>2 DEF Powers
    <2> QED
      BY <1>2, <2>3
  <1> QED
    BY <1>3, <1>4

(* They are the same, however far.                                         *)
LEMMA PowersUnique ==
    ASSUME NEW m \in Nat, NEW l \in Nat, NEW g, NEW h, Powers(g, m), Powers(h, l),
           NEW n \in Nat, n <= m, n <= l
    PROVE  g[n] = h[n]
  <1> DEFINE bad == {k \in Nat : k <= m /\ k <= l /\ g[k] # h[k]}
  <1> SUFFICES ASSUME bad # {} PROVE FALSE
    OBVIOUS
  <1>1. PICK k \in bad : \A j \in bad : k <= j
    <2>1. bad \subseteq Nat
      OBVIOUS
    <2> HIDE DEF bad
    <2> QED
      BY <2>1, LeastOf
  <1>2. k \in Nat /\ k <= m /\ k <= l /\ g[k] # h[k]
    BY <1>1
  <1>3. k # 0
    BY <1>2 DEF Powers
  <1>4. k - 1 \in Nat /\ k - 1 <= m /\ k - 1 <= l /\ k - 1 \notin bad /\ k \in 0..m /\ k \in 0..l
    <2> HIDE DEF bad
    <2> QED
      BY <1>1, <1>2, <1>3
  <1>5. g[k - 1] = h[k - 1]
    BY <1>4
  <1>6. g[k] = 2 * g[k - 1] /\ h[k] = 2 * h[k - 1]
    BY <1>3, <1>4 DEF Powers
  <1> QED
    BY <1>2, <1>5, <1>6

(* Pow2 is what its definition says.                                       *)
LEMMA Pow2Def ==
    /\ Pow2[0] = 1
    /\ \A o \in Nat : o # 0 => Pow2[o] = 2 * Pow2[o - 1]
  <1> DEFINE P(n) == CHOOSE g : Powers(g, n)
             f == [n \in Nat |-> P(n)[n]]
             body(g) == [o \in Nat |-> IF o = 0 THEN 1 ELSE 2 * g[o - 1]]
  <1>1. ASSUME NEW n \in Nat PROVE Powers(P(n), n)
    BY <1>1, PowersExist
  <1>2. ASSUME NEW n \in Nat PROVE f[n] = IF n = 0 THEN 1 ELSE 2 * f[n - 1]
    <2>0. f[n] = P(n)[n]
      OBVIOUS
    <2>1. CASE n = 0
      <3>1. P(n)[0] = 1
        BY <1>1 DEF Powers
      <3> QED
        BY <2>0, <2>1, <3>1
    <2>2. CASE n # 0
      <3>1. n - 1 \in Nat /\ n \in 0..n /\ n - 1 <= n /\ n - 1 <= n - 1
        BY <2>2
      <3>2. f[n - 1] = P(n - 1)[n - 1]
        BY <3>1
      <3>3. Powers(P(n), n) /\ Powers(P(n - 1), n - 1)
        BY <1>1, <3>1
      <3> HIDE DEF P, f
      <3>4. P(n)[n - 1] = P(n - 1)[n - 1]
        BY <3>1, <3>3, PowersUnique
      <3>5. P(n)[n] = 2 * P(n)[n - 1]
        BY <2>2, <3>1, <3>3 DEF Powers
      <3> QED
        BY <2>0, <2>2, <3>2, <3>4, <3>5
    <2> QED
      BY <2>1, <2>2
  <1>3. f = body(f)
    <2>1. f = [n \in Nat |-> f[n]]
      OBVIOUS
    <2> HIDE DEF f
    <2> QED
      BY <1>2, <2>1
  <1>4. Pow2 = CHOOSE g : g = body(g)
    BY DEF Pow2
  <1> HIDE DEF f
  <1>5. Pow2 = body(Pow2)
    <2> HIDE DEF body
    <2> QED
      BY <1>3, <1>4
  <1>6. \A o \in Nat : Pow2[o] = IF o = 0 THEN 1 ELSE 2 * Pow2[o - 1]
    BY <1>5
  <1> QED
    BY <1>6

(* Induction over the numbers, for a set of them.                          *)
LEMMA NatSet ==
    ASSUME NEW S, 0 \in S, \A n \in Nat : n \in S => n + 1 \in S
    PROVE  \A n \in Nat : n \in S
  <1> DEFINE bad == {k \in Nat : k \notin S}
  <1> SUFFICES ASSUME bad # {} PROVE FALSE
    OBVIOUS
  <1>1. PICK k \in bad : \A j \in bad : k <= j
    <2>1. bad \subseteq Nat
      OBVIOUS
    <2> HIDE DEF bad
    <2> QED
      BY <2>1, LeastOf
  <1>2. k \in Nat /\ k \notin S
    BY <1>1
  <1>3. k # 0
    BY <1>2
  <1>4. k - 1 \in Nat /\ k - 1 \notin bad
    <2> HIDE DEF bad
    <2> QED
      BY <1>1, <1>2, <1>3
  <1>5. k - 1 \in S
    BY <1>4
  <1>6. (k - 1) + 1 \in S
    BY <1>4, <1>5
  <1>7. (k - 1) + 1 = k
    BY <1>2
  <1> QED
    BY <1>2, <1>6, <1>7

(* A power of two is a positive number, and doubles with the order.        *)
LEMMA Pow2Type ==
    ASSUME NEW o \in Nat
    PROVE  Pow2[o] \in Nat /\ Pow2[o] >= 1 /\ Pow2[o] >= o /\ Pow2[o + 1] = 2 * Pow2[o]
  <1> DEFINE S == {n \in Nat : Pow2[n] \in Nat /\ Pow2[n] >= 1 /\ Pow2[n] >= n}
  <1>1. \A n \in Nat : Pow2[n + 1] = 2 * Pow2[n]
    <2> TAKE n \in Nat
    <2>1. n + 1 \in Nat /\ n + 1 # 0 /\ (n + 1) - 1 = n
      OBVIOUS
    <2> QED
      BY <2>1, Pow2Def
  <1>2. 0 \in S
    BY Pow2Def
  <1>3. \A n \in Nat : n \in S => n + 1 \in S
    BY <1>1
  <1>4. o \in S
    <2> HIDE DEF S
    <2> QED
      BY <1>2, <1>3, NatSet
  <1> QED
    BY <1>1, <1>4

(* A larger power is a multiple of a smaller one.                          *)
LEMMA Pow2Multiple ==
    ASSUME NEW a \in Nat, NEW b \in Nat, a <= b
    PROVE  \E c \in Nat : c >= 1 /\ (a < b => c >= 2) /\ Pow2[b] = c * Pow2[a]
  <1> DEFINE S == {d \in Nat : \E c \in Nat : c >= 1 /\ (d # 0 => c >= 2) /\ Pow2[a + d] = c * Pow2[a]}
  <1>1. 0 \in S
    <2>1. Pow2[a + 0] = 1 * Pow2[a]
      BY Pow2Type
    <2> QED
      BY <2>1
  <1>2. \A n \in Nat : n \in S => n + 1 \in S
    <2> SUFFICES ASSUME NEW n \in Nat, n \in S PROVE n + 1 \in S
      OBVIOUS
    <2>1. PICK c \in Nat : c >= 1 /\ Pow2[a + n] = c * Pow2[a]
      OBVIOUS
    <2>2. Pow2[a + (n + 1)] = 2 * (c * Pow2[a])
      <3>1. a + n \in Nat /\ a + (n + 1) = (a + n) + 1
        OBVIOUS
      <3> QED
        BY <2>1, <3>1, Pow2Type
    <2>3. Pow2[a] \in Nat
      BY Pow2Type
    <2>4. 2 * (c * Pow2[a]) = (2 * c) * Pow2[a]
      BY <2>3
    <2>5. 2 * c \in Nat /\ 2 * c >= 2
      BY <2>1
    <2> QED
      BY <2>2, <2>4, <2>5
  <1>3. b - a \in Nat /\ a + (b - a) = b
    OBVIOUS
  <1>4. b - a \in S
    <2> HIDE DEF S
    <2> QED
      BY <1>1, <1>2, <1>3, NatSet
  <1> QED
    BY <1>3, <1>4

LEMMA Pow2Mono ==
    ASSUME NEW a \in Nat, NEW b \in Nat
    PROVE  /\ a <= b => Pow2[a] <= Pow2[b]
           /\ a < b => 2 * Pow2[a] <= Pow2[b]
           /\ Pow2[a] < Pow2[b] => a < b
           /\ Pow2[a] = Pow2[b] => a = b
  <1>1. ASSUME NEW x \in Nat, NEW y \in Nat
        PROVE  /\ x <= y => Pow2[x] <= Pow2[y]
               /\ x < y => 2 * Pow2[x] <= Pow2[y]
    <2>1. Pow2[x] \in Nat /\ Pow2[y] \in Nat
      BY Pow2Type
    <2>2. ASSUME NEW w \in Nat, NEW c \in Nat PROVE (c >= 1 => c * w >= w) /\ (c >= 2 => c * w >= 2 * w)
      OBVIOUS
    <2>3. ASSUME x <= y
          PROVE  Pow2[x] <= Pow2[y] /\ (x < y => 2 * Pow2[x] <= Pow2[y])
      <3>1. PICK c \in Nat : c >= 1 /\ (x < y => c >= 2) /\ Pow2[y] = c * Pow2[x]
        BY <2>3, Pow2Multiple
      <3>2. (c >= 1 => c * Pow2[x] >= Pow2[x]) /\ (c >= 2 => c * Pow2[x] >= 2 * Pow2[x])
        BY <2>1, <2>2
      <3> QED
        BY <2>1, <3>1, <3>2
    <2> QED
      BY <2>3
  <1>2. Pow2[a] \in Nat /\ Pow2[b] \in Nat /\ Pow2[a] >= 1 /\ Pow2[b] >= 1
    BY Pow2Type
  <1> QED
    BY <1>1, <1>2

(* The order of a request: the least whose block is large enough.          *)
LEMMA OrderOfIs ==
    ASSUME NEW n \in Nat
    PROVE  /\ OrderOf(n) \in Nat
           /\ Pow2[OrderOf(n)] >= n
           /\ OrderOf(n) # 0 => Pow2[OrderOf(n) - 1] < n
  <1> DEFINE S == {o \in Nat : Pow2[o] >= n}
  <1>1. n \in S
    BY Pow2Type
  <1>2. PICK o \in S : \A k \in S : o <= k
    <2>1. S \subseteq Nat
      OBVIOUS
    <2> HIDE DEF S
    <2> QED
      BY <1>1, <2>1, LeastOf
  <1>3. o \in Nat /\ Pow2[o] >= n /\ o <= n
    BY <1>1, <1>2
  <1>4. o # 0 => Pow2[o - 1] < n
    <2> SUFFICES ASSUME o # 0 PROVE Pow2[o - 1] < n
      OBVIOUS
    <2>1. o - 1 \in Nat
      BY <1>3
    <2>2. o - 1 \notin S
      <3> HIDE DEF S
      <3> QED
        BY <1>2, <1>3
    <2>3. Pow2[o - 1] \in Nat
      BY <2>1, Pow2Type
    <2> QED
      BY <2>1, <2>2, <2>3
  <1>5. \E k \in 0..n : Pow2[k] >= n /\ (k = 0 \/ Pow2[k - 1] < n)
    BY <1>3, <1>4
  <1> QED
    BY <1>5 DEF OrderOf

(* A request that alloc accepts has an order that there is a list for.     *)
LEMMA OrderOfFits ==
    ASSUME NEW n \in Nat, n <= Pow2[MAX_ORDER]
    PROVE  OrderOf(n) \in Order
  <1>1. MAX_ORDER \in Nat
    BY BuddyAssumption
  <1>2. OrderOf(n) \in Nat /\ (OrderOf(n) # 0 => Pow2[OrderOf(n) - 1] < n)
    BY OrderOfIs
  <1>3. OrderOf(n) # 0 => OrderOf(n) - 1 \in Nat /\ OrderOf(n) - 1 < MAX_ORDER
    <2> SUFFICES ASSUME OrderOf(n) # 0 PROVE OrderOf(n) - 1 \in Nat /\ OrderOf(n) - 1 < MAX_ORDER
      OBVIOUS
    <2>1. OrderOf(n) - 1 \in Nat
      BY <1>2
    <2>2. Pow2[OrderOf(n) - 1] \in Nat /\ Pow2[MAX_ORDER] \in Nat
      BY <1>1, <2>1, Pow2Type
    <2>3. Pow2[OrderOf(n) - 1] < Pow2[MAX_ORDER]
      BY <1>2, <2>2
    <2> QED
      BY <1>1, <2>1, <2>3, Pow2Mono
  <1> QED
    BY <1>1, <1>2, <1>3 DEF Order

-----------------------------------------------------------------------------
(* Alignment is divisibility.                                              *)
LEMMA Multiples ==
    ASSUME NEW p \in Nat, NEW w \in Nat, w >= 1
    PROVE  /\ p % w = 0 <=> \E q \in Nat : p = q * w
           /\ p % w \in Nat /\ p % w < w /\ p % w <= p
           /\ \E q \in Nat : p - (p % w) = q * w
  <1>1. p = (p \div w) * w + (p % w) /\ p \div w \in Nat /\ p % w \in 0..(w - 1)
    <2>1. p = (p \div w) * w + (p % w)
      BY Z3
    <2>2. p % w \in 0..(w - 1)
      OBVIOUS
    <2>3. p \div w \in Int
      OBVIOUS
    <2>4. ASSUME NEW x \in Int, x < 0 PROVE x * w <= -w
      <3>1. PICK y \in Nat : x = -1 - y
        <4>1. (-1 - x) \in Nat /\ x = -1 - (-1 - x)
          BY <2>4
        <4> QED
          BY <4>1
      <3>2. x * w = -w - y * w /\ y * w \in Nat
        BY <3>1
      <3> QED
        BY <3>2
    <2>5. ~(p \div w < 0)
      <3> SUFFICES ASSUME p \div w < 0 PROVE FALSE
        OBVIOUS
      <3>1. (p \div w) * w <= -w /\ (p \div w) * w \in Int
        BY <2>3, <2>4
      <3> QED
        BY <2>1, <2>2, <3>1
    <2> QED
      BY <2>1, <2>2, <2>3, <2>5
  <1>2. ASSUME NEW q \in Nat PROVE (q * w) % w = 0
    OBVIOUS
  <1> DEFINE d == p \div w
             r == p % w
  <1>3. d \in Nat /\ r \in 0..(w - 1) /\ p = d * w + r
    BY <1>1
  <1> HIDE DEF d, r
  <1>4. d * w \in Nat
    BY <1>3
  <1>5. r = 0 => \E q \in Nat : p = q * w
    BY <1>3, <1>4
  <1>6. (\E q \in Nat : p = q * w) => r = 0
    BY <1>2 DEF r
  <1>7. r \in Nat /\ r < w /\ r <= p /\ p - r = d * w
    BY <1>3, <1>4
  <1>8. \E q \in Nat : p - r = q * w
    BY <1>3, <1>7
  <1> QED
    BY <1>5, <1>6, <1>7, <1>8 DEF r

(* Multiples of w that are closer than w are equal.                        *)
LEMMA CloseMultiples ==
    ASSUME NEW w \in Nat, w >= 1, NEW q \in Nat, NEW r \in Nat, q * w < r * w + w
    PROVE  q <= r /\ q * w <= r * w
  <1>1. ASSUME q >= r + 1 PROVE FALSE
    <2>1. PICK d \in Nat : q = (r + 1) + d
      <3>1. q - (r + 1) \in Nat /\ q = (r + 1) + (q - (r + 1))
        BY <1>1
      <3> QED
        BY <3>1
    <2>2. q * w = (r * w + w) + d * w
      BY <2>1
    <2>3. d * w \in Nat /\ r * w \in Nat
      OBVIOUS
    <2> QED
      BY <2>2, <2>3
  <1>2. q <= r
    BY <1>1
  <1>3. PICK d \in Nat : r = q + d
    <2>1. r - q \in Nat /\ r = q + (r - q)
      BY <1>2
    <2> QED
      BY <2>1
  <1>4. r * w = q * w + d * w /\ d * w \in Nat /\ q * w \in Nat
    BY <1>3
  <1> QED
    BY <1>2, <1>4

(* Of two multiples of w, the lower is at least w below.                   *)
LEMMA AlignedApart ==
    ASSUME NEW w \in Nat, w >= 1, NEW p \in Nat, NEW q \in Nat, p % w = 0, q % w = 0, p < q
    PROVE  p + w <= q
  <1>1. PICK i \in Nat : p = i * w
    BY Multiples
  <1>2. PICK j \in Nat : q = j * w
    BY Multiples
  <1>3. i * w \in Nat /\ j * w \in Nat
    OBVIOUS
  <1> SUFFICES ASSUME ~(p + w <= q) PROVE FALSE
    OBVIOUS
  <1>4. j * w < i * w + w
    BY <1>1, <1>2
  <1>5. j * w <= i * w
    BY <1>4, CloseMultiples
  <1> QED
    BY <1>1, <1>2, <1>3, <1>5

(* A sum or difference of multiples is one.                                *)
LEMMA AlignedSums ==
    ASSUME NEW w \in Nat, w >= 1, NEW p \in Nat, p % w = 0, NEW c \in Nat
    PROVE  /\ (p + c * w) % w = 0
           /\ c * w <= p => (p - c * w) % w = 0
  <1>1. PICK i \in Nat : p = i * w
    BY Multiples
  <1>2. p + c * w = (i + c) * w /\ i + c \in Nat /\ p + c * w \in Nat
    BY <1>1
  <1>3. (p + c * w) % w = 0
    <2>1. (i + c) * w \in Nat
      BY <1>2
    <2> QED
      BY <1>2, Multiples
  <1>4. ASSUME c * w <= p PROVE (p - c * w) % w = 0
    <2>1. c * w < i * w + w /\ c * w \in Nat
      BY <1>1, <1>4
    <2>2. c <= i
      BY <2>1, CloseMultiples
    <2>3. i - c \in Nat /\ p - c * w = (i - c) * w
      BY <1>1, <2>2
    <2>4. p - c * w \in Nat
      BY <1>4, <2>1
    <2> QED
      BY <2>3, <2>4, Multiples
  <1> QED
    BY <1>3, <1>4

(* A multiple of 2 * w is one of w, an odd multiple of w is not one of     *)
(* 2 * w, and a multiple of w is odd or even.                              *)
LEMMA Halves ==
    ASSUME NEW w \in Nat, w >= 1, NEW p \in Nat
    PROVE  /\ p % (2 * w) = 0 => p % w = 0 /\ (p + w) % w = 0 /\ (p + w) % (2 * w) # 0
           /\ p % w = 0 /\ p % (2 * w) # 0 => p >= w /\ (p - w) % (2 * w) = 0
  <1>0. 2 * w \in Nat /\ 2 * w >= 1
    OBVIOUS
  <1>1. ASSUME p % (2 * w) = 0 PROVE p % w = 0 /\ (p + w) % w = 0 /\ (p + w) % (2 * w) # 0
    <2>1. PICK i \in Nat : p = i * (2 * w)
      BY <1>0, <1>1, Multiples
    <2>2. p = (2 * i) * w /\ 2 * i \in Nat
      BY <2>1
    <2>3. p % w = 0
      BY <2>2, Multiples
    <2>4. (p + 1 * w) % w = 0
      BY <2>3, AlignedSums
    <2>5. (p + w) % (2 * w) # 0
      <3> SUFFICES ASSUME (p + w) % (2 * w) = 0 PROVE FALSE
        OBVIOUS
      <3>1. p + (2 * w) <= p + w
        BY <1>0, <1>1, AlignedApart
      <3> QED
        BY <3>1
    <2> QED
      BY <2>3, <2>4, <2>5
  <1>2. ASSUME p % w = 0, p % (2 * w) # 0 PROVE p >= w /\ (p - w) % (2 * w) = 0
    <2>1. PICK i \in Nat : p = i * w
      BY <1>2, Multiples
    <2>2. PICK j \in Nat : i = 2 * j \/ i = 2 * j + 1
      <3>1. i \div 2 \in Nat /\ (i = 2 * (i \div 2) \/ i = 2 * (i \div 2) + 1)
        OBVIOUS
      <3> QED
        BY <3>1
    <2>3. i # 2 * j
      <3> SUFFICES ASSUME i = 2 * j PROVE FALSE
        OBVIOUS
      <3>1. p = j * (2 * w)
        BY <2>1
      <3>2. \E q \in Nat : p = q * (2 * w)
        BY <3>1
      <3> QED
        BY <1>0, <1>2, <3>2, Multiples
    <2>4. p = j * (2 * w) + w /\ j * (2 * w) \in Nat
      BY <2>1, <2>2, <2>3
    <2>5. (j * (2 * w)) % (2 * w) = 0
      BY <1>0, <2>4, Multiples
    <2>6. p - w = j * (2 * w)
      BY <2>4
    <2> QED
      BY <2>4, <2>5, <2>6
  <1> QED
    BY <1>1, <1>2

-----------------------------------------------------------------------------
(* The pages of the block of order o at p.                                 *)
Region(p, o) == p .. (p + Pow2[o] - 1)

LEMMA AlignedHalves ==
    ASSUME NEW p \in Nat, NEW o \in Nat
    PROVE  /\ Aligned(p, o + 1) => /\ Aligned(p, o) /\ Aligned(p + Pow2[o], o)
                                   /\ ~Aligned(p + Pow2[o], o + 1)
           /\ Aligned(p, o) /\ ~Aligned(p, o + 1) =>
                 p >= Pow2[o] /\ Aligned(p - Pow2[o], o + 1)
  <1>1. Pow2[o] \in Nat /\ Pow2[o] >= 1 /\ Pow2[o + 1] = 2 * Pow2[o]
    BY Pow2Type
  <1> DEFINE w == Pow2[o]
  <1>2. w \in Nat /\ w >= 1 /\ Pow2[o + 1] = 2 * w
    BY <1>1
  <1> HIDE DEF w
  <1>3. /\ p % (2 * w) = 0 => p % w = 0 /\ (p + w) % w = 0 /\ (p + w) % (2 * w) # 0
        /\ p % w = 0 /\ p % (2 * w) # 0 => p >= w /\ (p - w) % (2 * w) = 0
    BY <1>2, Halves
  <1> QED
    BY <1>2, <1>3, Zenon DEF Aligned, w

(* What is aligned to a block is aligned to a smaller one, and so is what  *)
(* follows the block.                                                      *)
LEMMA AlignedSmaller ==
    ASSUME NEW p \in Nat, NEW a \in Nat, NEW b \in Nat, a <= b, Aligned(p, b)
    PROVE  Aligned(p, a) /\ Aligned(p + Pow2[b], a)
  <1>1. Pow2[a] \in Nat /\ Pow2[a] >= 1 /\ Pow2[b] \in Nat /\ Pow2[b] >= 1
    BY Pow2Type
  <1>2. PICK c \in Nat : Pow2[b] = c * Pow2[a]
    BY Pow2Multiple
  <1>3. PICK q \in Nat : p = q * Pow2[b]
    BY <1>1, Multiples DEF Aligned
  <1>4. ASSUME NEW w \in Nat PROVE q * (c * w) = (q * c) * w
    OBVIOUS
  <1>5. q * c \in Nat /\ p = (q * c) * Pow2[a]
    BY <1>1, <1>2, <1>3, <1>4
  <1>6. \E r \in Nat : p = r * Pow2[a]
    BY <1>5
  <1>7. p % Pow2[a] = 0
    BY <1>1, <1>6, Multiples
  <1>8. (p + c * Pow2[a]) % Pow2[a] = 0
    BY <1>1, <1>7, AlignedSums
  <1> QED
    BY <1>2, <1>7, <1>8 DEF Aligned

(* Aligned blocks that meet lie one in the other.                          *)
LEMMA Nested ==
    ASSUME NEW a \in Nat, NEW b \in Nat, a <= b, NEW p \in Nat, NEW q \in Nat,
           Aligned(p, a), Aligned(q, b), NEW x, x \in Region(p, a), x \in Region(q, b)
    PROVE  q <= p /\ p + Pow2[a] <= q + Pow2[b]
  <1>1. Pow2[a] \in Nat /\ Pow2[a] >= 1 /\ Pow2[b] \in Nat /\ Pow2[b] >= 1
    BY Pow2Type
  <1>2. Aligned(q, a) /\ Aligned(q + Pow2[b], a)
    BY AlignedSmaller
  <1>3. x \in Int /\ p <= x /\ x < p + Pow2[a] /\ q <= x /\ x < q + Pow2[b]
    BY <1>1 DEF Region
  <1>4. p < q => p + Pow2[a] <= q
    BY <1>1, <1>2, AlignedApart DEF Aligned
  <1>5. q + Pow2[b] \in Nat /\ (p < q + Pow2[b] => p + Pow2[a] <= q + Pow2[b])
    <2> DEFINE e == q + Pow2[b]
    <2>1. e \in Nat /\ e % Pow2[a] = 0 /\ p % Pow2[a] = 0
      BY <1>1, <1>2 DEF Aligned
    <2> HIDE DEF e
    <2>2. p < e => p + Pow2[a] <= e
      BY <1>1, <2>1, AlignedApart
    <2> QED
      BY <2>1, <2>2 DEF e
  <1> QED
    BY <1>1, <1>3, <1>4, <1>5

(* Blocks of one order that meet are the same.                             *)
LEMMA SameOrder ==
    ASSUME NEW o \in Nat, NEW p \in Nat, NEW q \in Nat, Aligned(p, o), Aligned(q, o),
           NEW x, x \in Region(p, o), x \in Region(q, o)
    PROVE  p = q
  <1>1. Pow2[o] \in Nat
    BY Pow2Type
  <1>2. q <= p /\ p <= q
    BY Nested
  <1> QED
    BY <1>2

(* A block and its buddy are the halves of an aligned block.               *)
LEMMA BuddyIs ==
    ASSUME NEW p \in Nat, NEW o \in Nat, Aligned(p, o)
    PROVE  /\ Buddy(p, o) \in Nat /\ Buddy(p, o) # p
           /\ Aligned(Buddy(p, o), o)
           /\ Buddy(Buddy(p, o), o) = p
           /\ \/ Aligned(p, o + 1) /\ Buddy(p, o) = p + Pow2[o]
              \/ Aligned(Buddy(p, o), o + 1) /\ p = Buddy(p, o) + Pow2[o]
  <1>1. Pow2[o] \in Nat /\ Pow2[o] >= 1
    BY Pow2Type
  <1>2. CASE Aligned(p, o + 1)
    <2>1. Buddy(p, o) = p + Pow2[o] /\ p + Pow2[o] \in Nat
      BY <1>1, <1>2 DEF Buddy
    <2>2. Aligned(p + Pow2[o], o) /\ ~Aligned(p + Pow2[o], o + 1)
      BY <1>2, AlignedHalves
    <2>3. Buddy(p + Pow2[o], o) = (p + Pow2[o]) - Pow2[o]
      BY <2>2 DEF Buddy
    <2>4. (p + Pow2[o]) - Pow2[o] = p /\ p + Pow2[o] # p
      BY <1>1
    <2> QED
      BY <1>2, <2>1, <2>2, <2>3, <2>4
  <1>3. CASE ~Aligned(p, o + 1)
    <2>1. p >= Pow2[o] /\ Aligned(p - Pow2[o], o + 1)
      BY <1>3, AlignedHalves
    <2>2. Buddy(p, o) = p - Pow2[o] /\ p - Pow2[o] \in Nat
      BY <1>1, <1>3, <2>1 DEF Buddy
    <2>3. Aligned(p - Pow2[o], o)
      BY <2>1, <2>2, AlignedHalves
    <2>4. Buddy(p - Pow2[o], o) = (p - Pow2[o]) + Pow2[o]
      BY <2>1 DEF Buddy
    <2>5. (p - Pow2[o]) + Pow2[o] = p /\ p - Pow2[o] # p
      BY <1>1
    <2> QED
      BY <2>1, <2>2, <2>3, <2>4, <2>5
  <1> QED
    BY <1>2, <1>3

(* AlignDown gives the aligned block that holds the page.                  *)
LEMMA AlignDownIs ==
    ASSUME NEW p \in Nat, NEW o \in Nat
    PROVE  /\ AlignDown(p, o) \in Nat
           /\ Aligned(AlignDown(p, o), o)
           /\ p \in Region(AlignDown(p, o), o)
           /\ \A a \in Nat : Aligned(a, o) /\ p \in Region(a, o) => AlignDown(p, o) = a
           /\ Aligned(p, o) => AlignDown(p, o) = p
  <1>1. Pow2[o] \in Nat /\ Pow2[o] >= 1
    BY Pow2Type
  <1> DEFINE r == p % Pow2[o]
  <1>2. r \in Nat /\ r < Pow2[o] /\ r <= p /\ \E q \in Nat : p - r = q * Pow2[o]
    BY <1>1, Multiples
  <1>3. AlignDown(p, o) = p - r
    BY DEF AlignDown
  <1>4. Aligned(p, o) => r = 0
    BY DEF Aligned
  <1> HIDE DEF r
  <1>5. p - r \in Nat
    BY <1>2
  <1>6. (p - r) % Pow2[o] = 0
    BY <1>1, <1>2, <1>5, Multiples
  <1>7. p \in Region(p - r, o)
    BY <1>1, <1>2 DEF Region
  <1>8. AlignDown(p, o) \in Nat /\ Aligned(AlignDown(p, o), o) /\ p \in Region(AlignDown(p, o), o)
    BY <1>3, <1>5, <1>6, <1>7 DEF Aligned
  <1>9. \A a \in Nat : Aligned(a, o) /\ p \in Region(a, o) => AlignDown(p, o) = a
    BY <1>8, SameOrder
  <1>10. Aligned(p, o) => AlignDown(p, o) = p
    BY <1>2, <1>3, <1>4
  <1> QED
    BY <1>8, <1>9, <1>10

(* The blocks that merging and splitting go through: the one of order k    *)
(* that holds p, and the other half of the next.                           *)
Low(p, k)   == AlignDown(p, k)
Other(p, k) == Buddy(AlignDown(p, k), k)

LEMMA LowOther ==
    ASSUME NEW p \in Nat, NEW k \in Nat
    PROVE  /\ Low(p, k) \in Nat /\ Other(p, k) \in Nat
           /\ Aligned(Low(p, k), k) /\ Aligned(Other(p, k), k)
           /\ Other(p, k) # Low(p, k) /\ Buddy(Other(p, k), k) = Low(p, k)
           /\ p \in Region(Low(p, k), k)
           /\ \A x : x \in Region(Low(p, k), k) => x \notin Region(Other(p, k), k)
           /\ \A x : x \in Region(Low(p, k + 1), k + 1) <=>
                       x \in Region(Low(p, k), k) \/ x \in Region(Other(p, k), k)
  <1> DEFINE A == Low(p, k)
             B == Other(p, k)
             N == Low(p, k + 1)
  <1>1. A \in Nat /\ Aligned(A, k) /\ p \in Region(A, k)
    BY AlignDownIs DEF Low
  <1>2. B = Buddy(A, k)
    BY DEF Low, Other
  <1>3. N = AlignDown(p, k + 1)
    BY DEF Low
  <1> HIDE DEF A, B, N
  <1>4. /\ B \in Nat /\ B # A /\ Aligned(B, k) /\ Buddy(B, k) = A
        /\ \/ Aligned(A, k + 1) /\ B = A + Pow2[k]
           \/ Aligned(B, k + 1) /\ A = B + Pow2[k]
    BY <1>1, <1>2, BuddyIs
  <1>5. Pow2[k] \in Nat /\ Pow2[k] >= 1 /\ Pow2[k + 1] = 2 * Pow2[k]
    BY Pow2Type
  <1>6. \A x : x \in Region(A, k) => x \notin Region(B, k)
    BY <1>1, <1>4, SameOrder
  <1>7. CASE Aligned(A, k + 1) /\ B = A + Pow2[k]
    <2>1. \A x : x \in Region(A, k + 1) <=> x \in Region(A, k) \/ x \in Region(B, k)
      BY <1>1, <1>5, <1>7 DEF Region
    <2>2. N = A
      BY <1>1, <1>3, <1>7, <2>1, AlignDownIs
    <2> QED
      BY <1>1, <1>4, <1>6, <2>1, <2>2 DEF A, B, N
  <1>8. CASE Aligned(B, k + 1) /\ A = B + Pow2[k]
    <2>1. \A x : x \in Region(B, k + 1) <=> x \in Region(A, k) \/ x \in Region(B, k)
      BY <1>4, <1>5, <1>8 DEF Region
    <2>2. N = B
      BY <1>1, <1>3, <1>4, <1>8, <2>1, AlignDownIs
    <2> QED
      BY <1>1, <1>4, <1>6, <2>1, <2>2 DEF A, B, N
  <1> QED
    BY <1>4, <1>7, <1>8

(* The block of order k lies in that of a larger order.                    *)
LEMMA LowGrows ==
    ASSUME NEW p \in Nat, NEW j \in Nat, NEW k \in Nat, j <= k,
           NEW x, x \in Region(Low(p, j), j)
    PROVE  x \in Region(Low(p, k), k)
  <1> DEFINE S == {d \in Nat : x \in Region(Low(p, j + d), j + d)}
  <1>1. 0 \in S
    <2>1. j + 0 = j
      OBVIOUS
    <2> QED
      BY <2>1
  <1>2. \A n \in Nat : n \in S => n + 1 \in S
    <2> SUFFICES ASSUME NEW n \in Nat, n \in S PROVE n + 1 \in S
      OBVIOUS
    <2>1. j + n \in Nat /\ j + (n + 1) = (j + n) + 1
      OBVIOUS
    <2>2. x \in Region(Low(p, (j + n) + 1), (j + n) + 1)
      BY <2>1, LowOther
    <2> QED
      BY <2>1, <2>2
  <1>3. k - j \in Nat /\ j + (k - j) = k
    OBVIOUS
  <1>4. k - j \in S
    <2> HIDE DEF S
    <2> QED
      BY <1>1, <1>2, <1>3, NatSet
  <1> QED
    BY <1>3, <1>4

(* The block of order m is the block of order lo and the other halves in   *)
(* between.                                                                *)
LEMMA LowCut ==
    ASSUME NEW p \in Nat, NEW lo \in Nat, NEW m \in Nat, lo <= m, NEW x
    PROVE  x \in Region(Low(p, m), m) <=>
             \/ x \in Region(Low(p, lo), lo)
             \/ \E k \in lo..(m - 1) : x \in Region(Other(p, k), k)
  <1> DEFINE In(h) == \/ x \in Region(Low(p, lo), lo)
                      \/ \E k \in lo..(h - 1) : x \in Region(Other(p, k), k)
             S == {d \in Nat : x \in Region(Low(p, lo + d), lo + d) <=> In(lo + d)}
  <1>1. 0 \in S
    <2>1. lo + 0 = lo /\ lo..(lo - 1) = {}
      OBVIOUS
    <2> QED
      BY <2>1
  <1>2. \A n \in Nat : n \in S => n + 1 \in S
    <2> SUFFICES ASSUME NEW n \in Nat, n \in S PROVE n + 1 \in S
      OBVIOUS
    <2> DEFINE h == lo + n
    <2>1. h \in Nat /\ lo + (n + 1) = h + 1 /\ lo..((h + 1) - 1) = lo..(h - 1) \cup {h}
      OBVIOUS
    <2>2. x \in Region(Low(p, h), h) <=> In(h)
      OBVIOUS
    <2> HIDE DEF h
    <2>3. x \in Region(Low(p, h + 1), h + 1) <=>
            x \in Region(Low(p, h), h) \/ x \in Region(Other(p, h), h)
      BY <2>1, LowOther
    <2>4. In(h + 1) <=> In(h) \/ x \in Region(Other(p, h), h)
      BY <2>1
    <2> HIDE DEF In
    <2>5. x \in Region(Low(p, h + 1), h + 1) <=> In(h + 1)
      BY <2>2, <2>3, <2>4
    <2> QED
      BY <2>1, <2>5
  <1>3. m - lo \in Nat /\ lo + (m - lo) = m
    OBVIOUS
  <1>4. m - lo \in S
    <2> HIDE DEF S
    <2> QED
      BY <1>1, <1>2, <1>3, NatSet
  <1> QED
    BY <1>3, <1>4

(* These parts are disjoint.                                               *)
LEMMA CutDisjoint ==
    ASSUME NEW p \in Nat, NEW j \in Nat, NEW k \in Nat, NEW x, x \in Region(Other(p, k), k)
    PROVE  /\ j <= k => x \notin Region(Low(p, j), j)
           /\ j # k => x \notin Region(Other(p, j), j)
  <1>1. x \notin Region(Low(p, k), k)
    BY LowOther
  <1>2. j <= k => x \notin Region(Low(p, j), j)
    BY <1>1, LowGrows
  <1>3. ASSUME NEW a \in Nat, NEW b \in Nat, a < b, x \in Region(Other(p, a), a)
        PROVE  x \notin Region(Other(p, b), b)
    <2>1. a + 1 \in Nat /\ a + 1 <= b
      BY <1>3
    <2>2. x \in Region(Low(p, a + 1), a + 1)
      BY <1>3, LowOther
    <2>3. x \in Region(Low(p, b), b)
      BY <2>1, <2>2, LowGrows
    <2> QED
      BY <2>3, LowOther
  <1>4. j # k => x \notin Region(Other(p, j), j)
    BY <1>3
  <1> QED
    BY <1>2, <1>4

-----------------------------------------------------------------------------
(* A block as <<first page, order, pages asked for>>; the last is -1 for a *)
(* block on a free list.                                                   *)
Block == Nat \X Order \X (Nat \cup {-1})
At(t) == Region(t[1], t[2])

(* The block is aligned and lies in the range.                             *)
InPlace(t) == Aligned(t[1], t[2]) /\ Start <= t[1] /\ t[1] + Pow2[t[2]] <= End

(* The blocks of C are in their places, disjoint, and cover the range.     *)
Covers(C)   == \A x \in Start..(End - 1) : \E t \in C : x \in At(t)
Disjoint(C) == \A t, u \in C : \A x : x \in At(t) /\ x \in At(u) => t = u

Partition(C) == /\ C \subseteq Block
                /\ \A t \in C : InPlace(t)
                /\ Covers(C)
                /\ Disjoint(C)

LEMMA RangeType == MAX_ORDER \in Nat /\ Start \in Nat /\ End \in Nat /\ Start < End
                   /\ Order \subseteq Nat /\ Requests \subseteq Nat
  BY BuddyAssumption DEF Order

(* Blocks may be replaced by others that hold the same pages.              *)
LEMMA Recut ==
    ASSUME NEW C, Partition(C), NEW X, X \subseteq C, NEW Y, Y \subseteq Block,
           \A t \in Y : InPlace(t), Disjoint(Y),
           \A x : (\E t \in X : x \in At(t)) <=> (\E t \in Y : x \in At(t))
    PROVE  Partition((C \ X) \cup Y)
  <1> DEFINE D == (C \ X) \cup Y
  <1>1. D \subseteq Block /\ \A t \in D : InPlace(t)
    BY DEF Partition
  <1>2. Covers(D)
    <2> SUFFICES ASSUME NEW x \in Start..(End - 1) PROVE \E t \in D : x \in At(t)
      BY DEF Covers
    <2>1. PICK t \in C : x \in At(t)
      BY DEF Partition, Covers
    <2>2. CASE t \in X
      BY <2>1, <2>2
    <2>3. CASE t \notin X
      BY <2>1, <2>3
    <2> QED
      BY <2>2, <2>3
  <1>3. Disjoint(D)
    <2> SUFFICES ASSUME NEW t \in D, NEW u \in D, NEW x, x \in At(t), x \in At(u) PROVE t = u
      BY DEF Disjoint
    <2>1. ASSUME NEW v \in D, NEW w \in D, x \in At(v), x \in At(w), v \in Y, w \notin Y PROVE FALSE
      <3>1. PICK z \in X : x \in At(z)
        BY <2>1
      <3>2. z = w
        BY <2>1, <3>1 DEF Partition, Disjoint
      <3> QED
        BY <2>1, <3>1, <3>2
    <2>2. CASE t \in Y /\ u \in Y
      BY <2>2 DEF Disjoint
    <2>3. CASE t \notin Y /\ u \notin Y
      BY <2>3 DEF Partition, Disjoint
    <2> QED
      BY <2>1, <2>2, <2>3
  <1> QED
    BY <1>1, <1>2, <1>3 DEF Partition

(* The blocks of a state: those on the free lists, given as sets, and      *)
(* those handed out.                                                       *)
Blocks(F, L) ==
    {t \in Block : IF t[3] = -1 THEN t[1] \in F[t[2]]
                   ELSE [ptr |-> t[1], n |-> t[3]] \in L /\ t[2] = OrderOf(t[3])}

(* The sizes that alloc accepts, and the blocks it may have handed out.    *)
Sizes   == {n \in Requests : n <= Pow2[MAX_ORDER]}
Handed  == [ptr : Nat, n : Sizes]
FreeSets == [Order -> SUBSET Nat]

LEMMA SizesType == \A n \in Sizes : n \in Nat /\ n # -1 /\ OrderOf(n) \in Order /\ OrderOf(n) \in Nat
  <1> SUFFICES ASSUME NEW n \in Sizes
               PROVE  n \in Nat /\ n # -1 /\ OrderOf(n) \in Order /\ OrderOf(n) \in Nat
    OBVIOUS
  <1>1. n \in Nat /\ n <= Pow2[MAX_ORDER]
    BY RangeType DEF Sizes
  <1>2. OrderOf(n) \in Order
    BY <1>1, OrderOfFits
  <1>3. n # -1
    BY <1>1
  <1>4. OrderOf(n) \in Nat
    BY <1>2, RangeType
  <1> QED
    BY <1>1, <1>2, <1>3, <1>4

(* The block of order i at p is cut: the part of order lo is handed out    *)
(* for n pages, the others go to the lists.                                *)
LEMMA SplitBlocks ==
    ASSUME NEW F \in FreeSets, NEW L \in SUBSET Handed, Partition(Blocks(F, L)),
           NEW i \in Order, NEW p \in F[i], NEW n \in Sizes, OrderOf(n) <= i,
           NEW G \in FreeSets,
           \A k \in Order : G[k] = IF k = i THEN F[k] \ {p}
                                   ELSE IF OrderOf(n) <= k /\ k < i THEN F[k] \cup {p + Pow2[k]}
                                   ELSE F[k]
    PROVE  Partition(Blocks(G, L \cup {[ptr |-> p, n |-> n]}))
  <1> DEFINE lo == OrderOf(n)
             C == Blocks(F, L)
             M == L \cup {[ptr |-> p, n |-> n]}
             X == {<<p, i, -1>>}
             Y == {<<p, lo, n>>} \cup {<<p + Pow2[k], k, -1>> : k \in lo..(i - 1)}
  <1>1. lo \in Order /\ lo \in Nat /\ i \in Nat /\ n \in Nat /\ n # -1 /\ p \in Nat
    BY SizesType, RangeType DEF FreeSets
  <1>2. \A k \in lo..(i - 1) : k \in Order /\ k \in Nat /\ k < i
    BY <1>1, RangeType DEF Order
  <1>3. <<p, i, -1>> \in Block /\ <<p, i, -1>> \in C
    BY <1>1 DEF Block, Blocks
  <1>4. Aligned(p, i) /\ Start <= p /\ p + Pow2[i] <= End
    <2>1. InPlace(<<p, i, -1>>)
      BY <1>3 DEF Partition
    <2> QED
      BY <2>1 DEF InPlace
  <1>5. \A k \in lo..i : Aligned(p, k) /\ Low(p, k) = p
    <2> TAKE k \in lo..i
    <2>1. k \in Nat /\ k <= i
      BY <1>1
    <2>2. Aligned(p, k)
      BY <1>1, <1>4, <2>1, AlignedSmaller
    <2> QED
      BY <1>1, <2>1, <2>2, AlignDownIs DEF Low
  <1>6. \A k \in lo..(i - 1) : Other(p, k) = p + Pow2[k] /\ p + Pow2[k] \in Nat
    <2> TAKE k \in lo..(i - 1)
    <2>1. k \in lo..i /\ k + 1 \in lo..i /\ k \in Nat
      BY <1>1
    <2>2. Low(p, k) = p /\ Aligned(p, k + 1)
      BY <1>5, <2>1
    <2>3. Other(p, k) = p + Pow2[k]
      BY <2>2 DEF Low, Other, Buddy
    <2>4. Other(p, k) \in Nat
      BY <1>1, <2>1, LowOther
    <2> QED
      BY <2>3, <2>4
  <1>7. Y \subseteq Block
    <2>1. <<p, lo, n>> \in Block
      BY <1>1 DEF Block
    <2>2. \A k \in lo..(i - 1) : <<p + Pow2[k], k, -1>> \in Block
      BY <1>2, <1>6 DEF Block
    <2> QED
      BY <2>1, <2>2
  <1> DEFINE Part(t, k) == t = <<p + Pow2[k], k, -1>>
  <1>8. \A t \in Y : t = <<p, lo, n>> \/ \E k \in lo..(i - 1) : Part(t, k)
    OBVIOUS
  <1>9. \A x : x \in Region(p, i) <=>
               x \in Region(p, lo) \/ \E k \in lo..(i - 1) : x \in Region(p + Pow2[k], k)
    <2>1. Low(p, i) = p /\ Low(p, lo) = p
      BY <1>1, <1>5
    <2>2. \A x : x \in Region(Low(p, i), i) <=>
               x \in Region(Low(p, lo), lo) \/ \E k \in lo..(i - 1) : x \in Region(Other(p, k), k)
      BY <1>1, LowCut
    <2> QED
      BY <1>6, <2>1, <2>2
  <1>10. \A x : (\E t \in X : x \in At(t)) <=> (\E t \in Y : x \in At(t))
    <2> TAKE x
    <2>1. (\E t \in X : x \in At(t)) <=> x \in Region(p, i)
      BY DEF At
    <2>2. (\E t \in Y : x \in At(t)) <=>
            x \in Region(p, lo) \/ \E k \in lo..(i - 1) : x \in Region(p + Pow2[k], k)
      <3>1. At(<<p, lo, n>>) = Region(p, lo)
        BY DEF At
      <3>2. \A k \in lo..(i - 1) : At(<<p + Pow2[k], k, -1>>) = Region(p + Pow2[k], k)
        BY DEF At
      <3>3. <<p, lo, n>> \in Y /\ \A k \in lo..(i - 1) : <<p + Pow2[k], k, -1>> \in Y
        OBVIOUS
      <3> HIDE DEF Y
      <3> QED
        BY <1>8, <3>1, <3>2, <3>3
    <2> QED
      BY <1>9, <2>1, <2>2
  <1>11. \A t \in Y : InPlace(t)
    <2>1. InPlace(<<p, lo, n>>)
      <3>1. Pow2[lo] <= Pow2[i] /\ Pow2[lo] \in Nat /\ Pow2[i] \in Nat
        BY <1>1, Pow2Mono, Pow2Type
      <3>2. p + Pow2[lo] <= End
        BY <1>1, <1>4, <3>1, RangeType
      <3> QED
        BY <1>1, <1>4, <1>5, <3>2 DEF InPlace
    <2>2. ASSUME NEW k \in lo..(i - 1) PROVE InPlace(<<p + Pow2[k], k, -1>>)
      <3>1. k \in Nat /\ k < i
        BY <1>2
      <3>2. 2 * Pow2[k] <= Pow2[i] /\ Pow2[k] \in Nat /\ Pow2[i] \in Nat
        BY <1>1, <3>1, Pow2Mono, Pow2Type
      <3>3. Start <= p + Pow2[k] /\ (p + Pow2[k]) + Pow2[k] <= End
        BY <1>1, <1>4, <3>2, RangeType
      <3>4. Aligned(p + Pow2[k], k)
        <4>1. Aligned(Other(p, k), k)
          BY <1>1, <3>1, LowOther
        <4> QED
          BY <1>6, <4>1
      <3> QED
        BY <3>3, <3>4 DEF InPlace
    <2> QED
      BY <1>8, <2>1, <2>2
  <1>12. Disjoint(Y)
    <2> SUFFICES ASSUME NEW t \in Y, NEW u \in Y, NEW x, x \in At(t), x \in At(u) PROVE t = u
      BY DEF Disjoint
    <2>1. ASSUME NEW k \in lo..(i - 1), x \in Region(p + Pow2[k], k)
          PROVE  /\ x \notin Region(p, lo)
                 /\ \A j \in lo..(i - 1) : j # k => x \notin Region(p + Pow2[j], j)
      <3>1. x \in Region(Other(p, k), k) /\ k \in Nat /\ lo <= k
        BY <1>1, <1>6, <2>1
      <3>2. x \notin Region(Low(p, lo), lo)
        BY <1>1, <3>1, CutDisjoint
      <3>3. \A j \in lo..(i - 1) : j # k => x \notin Region(Other(p, j), j)
        BY <1>1, <1>2, <3>1, CutDisjoint
      <3>4. Low(p, lo) = p
        BY <1>1, <1>5
      <3> QED
        BY <1>6, <3>2, <3>3, <3>4
    <2>2. t = <<p, lo, n>> => x \in Region(p, lo)
      BY DEF At
    <2>3. u = <<p, lo, n>> => x \in Region(p, lo)
      BY DEF At
    <2>4. \A k \in lo..(i - 1) : Part(t, k) => x \in Region(p + Pow2[k], k)
      BY DEF At
    <2>5. \A k \in lo..(i - 1) : Part(u, k) => x \in Region(p + Pow2[k], k)
      BY DEF At
    <2>6. \A j, k \in lo..(i - 1) : Part(t, j) /\ Part(u, k) /\ j = k => t = u
      OBVIOUS
    <2> HIDE DEF Part, Y
    <2> QED
      BY <1>8, <2>1, <2>2, <2>3, <2>4, <2>5, <2>6
  <1>13. Blocks(G, M) = (C \ X) \cup Y
    <2> SUFFICES ASSUME NEW a \in Nat, NEW b \in Order, NEW c \in Nat \cup {-1}
                 PROVE  <<a, b, c>> \in Blocks(G, M) <=> <<a, b, c>> \in (C \ X) \cup Y
      <3>1. Blocks(G, M) \subseteq Block /\ C \subseteq Block
        BY DEF Blocks
      <3>2. \A t \in Block : t[1] \in Nat /\ t[2] \in Order /\ t[3] \in Nat \cup {-1}
                             /\ t = <<t[1], t[2], t[3]>>
        BY DEF Block
      <3> HIDE DEF Y, C, M
      <3>3. (C \ X) \cup Y \subseteq Block
        BY <1>7, <3>1
      <3>4. \A t \in Block : t \in Blocks(G, M) <=> t \in (C \ X) \cup Y
        BY <3>2
      <3> QED
        BY <3>1, <3>3, <3>4
    <2>1. <<a, b, c>> \in Blocks(G, M) <=>
             IF c = -1 THEN a \in G[b] ELSE [ptr |-> a, n |-> c] \in M /\ b = OrderOf(c)
      BY DEF Blocks, Block
    <2>2. <<a, b, c>> \in C <=>
             IF c = -1 THEN a \in F[b] ELSE [ptr |-> a, n |-> c] \in L /\ b = OrderOf(c)
      BY DEF Blocks, Block
    <2>3. <<a, b, c>> \in X <=> a = p /\ b = i /\ c = -1
      OBVIOUS
    <2>4. <<a, b, c>> \in Y <=> \/ a = p /\ b = lo /\ c = n
                                \/ b \in lo..(i - 1) /\ a = p + Pow2[b] /\ c = -1
      OBVIOUS
    <2>5. b \in Nat /\ (b \in lo..(i - 1) <=> lo <= b /\ b < i)
      BY <1>1, RangeType
    <2>6. CASE c = -1
      <3>1. G[b] = IF b = i THEN F[b] \ {p}
                   ELSE IF lo <= b /\ b < i THEN F[b] \cup {p + Pow2[b]} ELSE F[b]
        OBVIOUS
      <3>2. a \in G[b] <=> (a \in F[b] /\ ~(a = p /\ b = i)) \/ (lo <= b /\ b < i /\ a = p + Pow2[b])
        <4> HIDE DEF lo
        <4> QED
          BY <1>1, <2>5, <3>1
      <3> HIDE DEF C, X, Y, M, lo
      <3> QED
        BY <1>1, <2>1, <2>2, <2>3, <2>4, <2>5, <2>6, <3>2
    <2>7. CASE c # -1
      <3>1. [ptr |-> a, n |-> c] \in M <=> [ptr |-> a, n |-> c] \in L \/ (a = p /\ c = n)
        OBVIOUS
      <3> HIDE DEF C, X, Y, M
      <3> QED
        BY <1>1, <2>1, <2>2, <2>3, <2>4, <2>7, <3>1
    <2> QED
      BY <2>6, <2>7
  <1>14. X \subseteq C
    BY <1>3
  <1> HIDE DEF X, Y, C, M
  <1>15. Partition((C \ X) \cup Y)
    <2>1. Partition(C)
      BY DEF C
    <2> QED
      BY <1>7, <1>10, <1>11, <1>12, <1>14, <2>1, Recut
  <1> QED
    BY <1>13, <1>15 DEF M

(* The blocks that make up the one of order m around the block b, which is *)
(* given back, are merged into it.                                         *)
LEMMA MergeBlocks ==
    ASSUME NEW F \in FreeSets, NEW L \in SUBSET Handed, Partition(Blocks(F, L)),
           NEW b \in L, NEW m \in Order, OrderOf(b.n) <= m,
           \A k \in OrderOf(b.n)..(m - 1) : Other(b.ptr, k) \in F[k],
           NEW G \in FreeSets,
           \A k \in Order : G[k] = IF OrderOf(b.n) <= k /\ k < m THEN F[k] \ {Other(b.ptr, k)}
                                   ELSE IF k = m THEN F[k] \cup {Low(b.ptr, m)}
                                   ELSE F[k]
    PROVE  Partition(Blocks(G, L \ {b}))
  <1> DEFINE n == b.n
             p == b.ptr
             lo == OrderOf(n)
             q == Low(p, m)
             C == Blocks(F, L)
             M == L \ {b}
             X == {<<p, lo, n>>} \cup {<<Other(p, k), k, -1>> : k \in lo..(m - 1)}
             Y == {<<q, m, -1>>}
  <1>1. n \in Sizes /\ p \in Nat /\ b = [ptr |-> p, n |-> n]
    BY DEF Handed
  <1>2. lo \in Order /\ lo \in Nat /\ m \in Nat /\ n \in Nat /\ n # -1 /\ lo <= m
    BY <1>1, SizesType, RangeType
  <1>3. \A k \in lo..(m - 1) : k \in Order /\ k \in Nat /\ k < m /\ Other(p, k) \in F[k]
    BY <1>2, RangeType DEF Order
  <1>4. \A k \in lo..(m - 1) : Other(p, k) \in Nat
    BY <1>1, <1>3, LowOther
  <1>5. q \in Nat /\ Aligned(q, m)
    BY <1>1, <1>2, LowOther
  <1> HIDE DEF n, p, q
  <1>6. <<p, lo, n>> \in C
    BY <1>1, <1>2 DEF Blocks, Block
  <1>7. \A k \in lo..(m - 1) : <<Other(p, k), k, -1>> \in C
    BY <1>3, <1>4 DEF Blocks, Block
  <1>8. X \subseteq C
    BY <1>6, <1>7
  <1>9. At(<<p, lo, n>>) = Region(p, lo)
        /\ (\A k \in lo..(m - 1) : At(<<Other(p, k), k, -1>>) = Region(Other(p, k), k))
        /\ At(<<q, m, -1>>) = Region(q, m)
    BY DEF At
  <1>10. Aligned(p, lo) /\ Low(p, lo) = p
    <2>1. InPlace(<<p, lo, n>>)
      BY <1>6 DEF Partition
    <2>2. Aligned(p, lo)
      BY <2>1 DEF InPlace
    <2> QED
      BY <1>1, <1>2, <2>2, AlignDownIs DEF Low
  <1>11. \A x : (\E t \in X : x \in At(t)) <=> x \in Region(q, m)
    <2> TAKE x
    <2>1. x \in Region(Low(p, m), m) <=>
               x \in Region(Low(p, lo), lo) \/ \E k \in lo..(m - 1) : x \in Region(Other(p, k), k)
      <3> HIDE DEF lo
      <3> QED
        BY <1>1, <1>2, LowCut
    <2>2. \A t \in X : t = <<p, lo, n>> \/ \E k \in lo..(m - 1) : t = <<Other(p, k), k, -1>>
      OBVIOUS
    <2>3. <<p, lo, n>> \in X /\ \A k \in lo..(m - 1) : <<Other(p, k), k, -1>> \in X
      OBVIOUS
    <2> HIDE DEF X, lo
    <2> QED
      BY <1>9, <1>10, <2>1, <2>2, <2>3 DEF q
  <1>12. \A x : (\E t \in X : x \in At(t)) <=> (\E t \in Y : x \in At(t))
    BY <1>9, <1>11
  <1>13. Pow2[m] \in Nat /\ Pow2[m] >= 1
    BY <1>2, Pow2Type
  <1>14. \A x : x \in Region(q, m) => Start <= x /\ x < End
    <2> SUFFICES ASSUME NEW x, x \in Region(q, m) PROVE Start <= x /\ x < End
      OBVIOUS
    <2>1. PICK t \in C : x \in At(t)
      BY <1>8, <1>11
    <2>2. t \in Block /\ InPlace(t)
      BY <2>1 DEF Partition
    <2>3. t[1] \in Nat /\ t[2] \in Nat /\ Pow2[t[2]] \in Nat
      BY <2>2, RangeType, Pow2Type DEF Block
    <2>4. Start <= t[1] /\ t[1] + Pow2[t[2]] <= End
      BY <2>2 DEF InPlace
    <2>5. x \in Int /\ t[1] <= x /\ x <= t[1] + Pow2[t[2]] - 1
      BY <2>1, <2>3 DEF At, Region
    <2> QED
      BY <2>3, <2>4, <2>5, RangeType
  <1>15. Start <= q /\ q + Pow2[m] <= End
    <2>1. q \in Region(q, m) /\ q + Pow2[m] - 1 \in Region(q, m)
      BY <1>5, <1>13 DEF Region
    <2>2. Start <= q /\ q + Pow2[m] - 1 < End
      BY <1>14, <2>1
    <2> QED
      BY <1>5, <1>13, <2>2, RangeType
  <1>16. InPlace(<<q, m, -1>>) /\ <<q, m, -1>> \in Block
    BY <1>5, <1>15 DEF InPlace, Block
  <1>17. Disjoint(Y)
    BY DEF Disjoint
  <1>18. Blocks(G, M) = (C \ X) \cup Y
    <2> SUFFICES ASSUME NEW a \in Nat, NEW o \in Order, NEW c \in Nat \cup {-1}
                 PROVE  <<a, o, c>> \in Blocks(G, M) <=> <<a, o, c>> \in (C \ X) \cup Y
      <3>1. Blocks(G, M) \subseteq Block /\ C \subseteq Block /\ Y \subseteq Block
        BY <1>16 DEF Blocks
      <3>2. \A t \in Block : t[1] \in Nat /\ t[2] \in Order /\ t[3] \in Nat \cup {-1}
                             /\ t = <<t[1], t[2], t[3]>>
        BY DEF Block
      <3> HIDE DEF Y, C, M, X
      <3>3. (C \ X) \cup Y \subseteq Block
        BY <3>1
      <3>4. \A t \in Block : t \in Blocks(G, M) <=> t \in (C \ X) \cup Y
        BY <3>2
      <3> QED
        BY <3>1, <3>3, <3>4
    <2>1. <<a, o, c>> \in Blocks(G, M) <=>
             IF c = -1 THEN a \in G[o] ELSE [ptr |-> a, n |-> c] \in M /\ o = OrderOf(c)
      BY DEF Blocks, Block
    <2>2. <<a, o, c>> \in C <=>
             IF c = -1 THEN a \in F[o] ELSE [ptr |-> a, n |-> c] \in L /\ o = OrderOf(c)
      BY DEF Blocks, Block
    <2>3. <<a, o, c>> \in Y <=> a = q /\ o = m /\ c = -1
      OBVIOUS
    <2>4. <<a, o, c>> \in X <=> \/ a = p /\ o = lo /\ c = n
                                \/ o \in lo..(m - 1) /\ a = Other(p, o) /\ c = -1
      OBVIOUS
    <2>5. o \in Nat /\ (o \in lo..(m - 1) <=> lo <= o /\ o < m)
      BY <1>2, RangeType
    <2>6. CASE c = -1
      <3>1. G[o] = IF lo <= o /\ o < m THEN F[o] \ {Other(p, o)}
                   ELSE IF o = m THEN F[o] \cup {q} ELSE F[o]
        BY DEF p, q, n
      <3>2. a \in G[o] <=> (a \in F[o] /\ ~(lo <= o /\ o < m /\ a = Other(p, o))) \/ (a = q /\ o = m)
        <4> HIDE DEF lo
        <4> QED
          BY <1>2, <2>5, <3>1
      <3> HIDE DEF C, X, Y, M, lo
      <3> QED
        BY <1>2, <2>1, <2>2, <2>3, <2>4, <2>5, <2>6, <3>2
    <2>7. CASE c # -1
      <3>1. [ptr |-> a, n |-> c] \in M <=> [ptr |-> a, n |-> c] \in L /\ ~(a = p /\ c = n)
        BY <1>1
      <3> HIDE DEF C, X, Y, M
      <3> QED
        BY <1>2, <2>1, <2>2, <2>3, <2>4, <2>7, <3>1
    <2> QED
      BY <2>6, <2>7
  <1> HIDE DEF X, C, M
  <1>19. Partition((C \ X) \cup Y)
    <2>1. Partition(C)
      BY DEF C
    <2>2. Y \subseteq Block /\ \A t \in Y : InPlace(t)
      BY <1>16
    <2> HIDE DEF Y
    <2> QED
      BY <1>8, <1>12, <1>17, <2>1, <2>2, Recut
  <1> QED
    BY <1>18, <1>19 DEF M

-----------------------------------------------------------------------------
(* Below the largest order no block and its buddy are both free.           *)
Merged(F) == \A o \in Order : o < MAX_ORDER => \A q \in F[o] : Buddy(q, o) \notin F[o]

(* Free blocks are aligned.                                                *)
LEMMA FreeAligned ==
    ASSUME NEW F \in FreeSets, NEW L, Partition(Blocks(F, L)), NEW o \in Order, NEW q \in F[o]
    PROVE  <<q, o, -1>> \in Blocks(F, L) /\ q \in Nat /\ o \in Nat /\ Aligned(q, o)
           /\ Start <= q /\ q + Pow2[o] <= End
  <1>1. q \in Nat /\ o \in Nat
    BY RangeType DEF FreeSets
  <1>2. <<q, o, -1>> \in Blocks(F, L)
    BY <1>1 DEF Blocks, Block
  <1>3. InPlace(<<q, o, -1>>)
    BY <1>2 DEF Partition
  <1> QED
    BY <1>1, <1>2, <1>3 DEF InPlace

LEMMA SplitMerged ==
    ASSUME NEW F \in FreeSets, NEW L, Partition(Blocks(F, L)), Merged(F),
           NEW i \in Order, NEW p \in F[i], NEW lo \in Order, lo <= i,
           \A k \in lo..(i - 1) : F[k] = {},
           NEW G \in FreeSets,
           \A k \in Order : G[k] = IF k = i THEN F[k] \ {p}
                                   ELSE IF lo <= k /\ k < i THEN F[k] \cup {p + Pow2[k]}
                                   ELSE F[k]
    PROVE  Merged(G)
  <1> SUFFICES ASSUME NEW o \in Order, o < MAX_ORDER, NEW q \in G[o], Buddy(q, o) \in G[o] PROVE FALSE
    BY DEF Merged
  <1>1. CASE lo <= o /\ o < i
    <2>1. o \in Nat /\ o # i /\ o \in lo..(i - 1)
      BY <1>1, RangeType
    <2>2. G[o] = {p + Pow2[o]}
      BY <1>1, <2>1
    <2>3. p \in Nat /\ Aligned(p, i) /\ i \in Nat
      BY FreeAligned
    <2>4. Aligned(p, o + 1)
      <3>1. o + 1 \in Nat /\ o + 1 <= i
        BY <1>1, <2>1, <2>3
      <3> QED
        BY <2>3, <3>1, AlignedSmaller
    <2>5. Aligned(p + Pow2[o], o) /\ p + Pow2[o] \in Nat
      BY <2>1, <2>3, <2>4, AlignedHalves, Pow2Type
    <2>6. Buddy(p + Pow2[o], o) # p + Pow2[o]
      BY <2>1, <2>5, BuddyIs
    <2> QED
      BY <2>2, <2>6
  <1>2. CASE ~(lo <= o /\ o < i)
    <2>1. G[o] \subseteq F[o]
      BY <1>2
    <2> QED
      BY <2>1 DEF Merged
  <1> QED
    BY <1>1, <1>2

(* Blocks of the orders from lo on are merged into one of order m around p. *)
MergeSets(F, G, m, lo, p) ==
    \A k \in Order : G[k] = IF lo <= k /\ k < m THEN F[k] \ {Other(p, k)}
                            ELSE IF k = m THEN F[k] \cup {Low(p, m)}
                            ELSE F[k]

LEMMA MergeMerged ==
    ASSUME NEW F \in FreeSets, NEW L, Partition(Blocks(F, L)), Merged(F),
           NEW p \in Nat, NEW lo \in Order, NEW m \in Order, lo <= m,
           m = MAX_ORDER \/ Other(p, m) \notin F[m],
           NEW G \in FreeSets, MergeSets(F, G, m, lo, p)
    PROVE  Merged(G)
  <1> USE DEF MergeSets
  <1> SUFFICES ASSUME NEW o \in Order, o < MAX_ORDER, NEW q \in G[o], Buddy(q, o) \in G[o] PROVE FALSE
    BY DEF Merged
  <1>1. CASE o = m
    <2>1. m \in Nat /\ ~(lo <= m /\ m < m) /\ m # MAX_ORDER
      BY <1>1, RangeType
    <2>2. G[m] = F[m] \cup {Low(p, m)}
      BY <2>1
    <2>3. Other(p, m) \notin F[m] /\ Other(p, m) = Buddy(Low(p, m), m) /\ Other(p, m) # Low(p, m)
      BY <2>1, LowOther DEF Low, Other
    <2>4. CASE q = Low(p, m)
      BY <1>1, <2>2, <2>3, <2>4
    <2>5. CASE q \in F[m] /\ Buddy(q, m) = Low(p, m)
      <3>1. q \in Nat /\ Aligned(q, m)
        BY <2>5, FreeAligned
      <3>2. Buddy(Low(p, m), m) = q
        BY <2>1, <2>5, <3>1, BuddyIs
      <3> QED
        BY <2>3, <2>5, <3>2
    <2>6. CASE q \in F[m] /\ Buddy(q, m) \in F[m]
      BY <1>1, <2>6 DEF Merged
    <2> QED
      BY <1>1, <2>2, <2>4, <2>5, <2>6
  <1>2. CASE o # m
    <2>1. G[o] \subseteq F[o]
      BY <1>2
    <2> QED
      BY <2>1 DEF Merged
  <1> QED
    BY <1>1, <1>2

(* A page is free when a block on a list holds it.                         *)
FreePage(F, x) == \E o \in Order : \E q \in F[o] : x \in Region(q, o)

(* An aligned run of free pages, and one that lies in a single free block. *)
Roomy(F, p, m)  == Aligned(p, m) /\ \A x \in Region(p, m) : FreePage(F, x)
InFree(F, p, m) == \E o \in Order : \E q \in F[o] :
                      m <= o /\ q <= p /\ p + Pow2[m] <= q + Pow2[o]

(* When all buddies are merged, an aligned run of free pages of the size   *)
(* of a block lies in one free block.                                      *)
LEMMA Whole ==
    ASSUME NEW F \in FreeSets, NEW L, Partition(Blocks(F, L)), Merged(F),
           NEW m \in Order, NEW p \in Nat, Roomy(F, p, m)
    PROVE  InFree(F, p, m)
  <1> DEFINE S == {k \in Nat : k \in Order => \A a \in Nat : Roomy(F, a, k) => InFree(F, a, k)}
  <1>1. 0 \in S
    <2> SUFFICES ASSUME NEW a \in Nat, Roomy(F, a, 0) PROVE InFree(F, a, 0)
      OBVIOUS
    <2>1. Pow2[0] = 1
      BY Pow2Def
    <2>2. a \in Region(a, 0)
      BY <2>1 DEF Region
    <2>3. PICK o \in Order : \E q \in F[o] : a \in Region(q, o)
      BY <2>2 DEF Roomy, FreePage
    <2>4. PICK q \in F[o] : a \in Region(q, o)
      BY <2>3
    <2>5. q \in Nat /\ o \in Nat
      BY FreeAligned
    <2>6. Pow2[o] \in Nat
      BY <2>5, Pow2Type
    <2>7. 0 <= o /\ q <= a /\ a + Pow2[0] <= q + Pow2[o]
      BY <2>1, <2>4, <2>5, <2>6 DEF Region
    <2> QED
      BY <2>7 DEF InFree
  <1>2. \A k \in Nat : k \in S => k + 1 \in S
    <2> SUFFICES ASSUME NEW k \in Nat, k \in S, k + 1 \in Order, NEW a \in Nat, Roomy(F, a, k + 1)
                 PROVE  InFree(F, a, k + 1)
      OBVIOUS
    <2> DEFINE w == Pow2[k]
               c == a + w
    <2>1. w \in Nat /\ w >= 1 /\ Pow2[k + 1] = 2 * w /\ c \in Nat
      BY Pow2Type
    <2>2. k \in Order /\ k < MAX_ORDER
      BY RangeType DEF Order
    <2>3. Aligned(a, k + 1)
      BY DEF Roomy
    <2>4. Aligned(a, k) /\ Aligned(c, k)
      BY <2>3, AlignedHalves
    <2> HIDE DEF w, c
    <2>5. \A x : x \in Region(a, k) \/ x \in Region(c, k) => x \in Region(a, k + 1)
      BY <2>1 DEF Region, c, w
    <2>6. Roomy(F, a, k) /\ Roomy(F, c, k)
      BY <2>4, <2>5 DEF Roomy
    <2>7. InFree(F, a, k) /\ InFree(F, c, k)
      BY <2>1, <2>2, <2>6
    <2>8. PICK o1 \in Order : \E q \in F[o1] : k <= o1 /\ q <= a /\ a + Pow2[k] <= q + Pow2[o1]
      BY <2>7 DEF InFree
    <2>9. PICK q1 \in F[o1] : k <= o1 /\ q1 <= a /\ a + Pow2[k] <= q1 + Pow2[o1]
      BY <2>8
    <2>10. PICK o2 \in Order : \E q \in F[o2] : k <= o2 /\ q <= c /\ c + Pow2[k] <= q + Pow2[o2]
      BY <2>7 DEF InFree
    <2>11. PICK q2 \in F[o2] : k <= o2 /\ q2 <= c /\ c + Pow2[k] <= q2 + Pow2[o2]
      BY <2>10
    <2>12. q1 \in Nat /\ o1 \in Nat /\ Aligned(q1, o1) /\ Pow2[o1] \in Nat
      BY FreeAligned, Pow2Type
    <2>13. q2 \in Nat /\ o2 \in Nat /\ Aligned(q2, o2) /\ Pow2[o2] \in Nat
      BY FreeAligned, Pow2Type
    <2>14. CASE k + 1 <= o1
      <3>1. a \in Region(a, k + 1) /\ a \in Region(q1, o1)
        BY <2>1, <2>9, <2>12 DEF Region, w
      <3>2. q1 <= a /\ a + Pow2[k + 1] <= q1 + Pow2[o1]
        BY <2>3, <2>12, <2>14, <3>1, Nested
      <3> QED
        BY <2>14, <3>2 DEF InFree
    <2>15. CASE k + 1 <= o2
      <3>1. c \in Region(a, k + 1) /\ c \in Region(q2, o2)
        BY <2>1, <2>11, <2>13 DEF Region, w, c
      <3>2. q2 <= a /\ a + Pow2[k + 1] <= q2 + Pow2[o2]
        BY <2>3, <2>13, <2>15, <3>1, Nested
      <3> QED
        BY <2>15, <3>2 DEF InFree
    <2>16. CASE o1 = k /\ o2 = k
      <3>1. q1 = a /\ q2 = c
        BY <2>1, <2>9, <2>11, <2>12, <2>13, <2>16
      <3>2. Buddy(a, k) = c
        BY <2>3 DEF Buddy, c, w
      <3>3. a \in F[k] /\ c \in F[k]
        BY <2>16, <3>1
      <3> QED
        BY <2>2, <3>2, <3>3 DEF Merged
    <2> QED
      BY <2>9, <2>11, <2>12, <2>13, <2>14, <2>15, <2>16
  <1>3. m \in Nat
    BY RangeType
  <1>4. m \in S
    <2> HIDE DEF S
    <2> QED
      BY <1>1, <1>2, <1>3, NatSet
  <1> QED
    BY <1>4

(* A page of the range that no block handed out holds is free.             *)
LEMMA FreeOrHanded ==
    ASSUME NEW F \in FreeSets, NEW L, Partition(Blocks(F, L)), NEW x \in Start..(End - 1)
    PROVE  FreePage(F, x) \/ \E b \in L : x \in Region(b.ptr, OrderOf(b.n))
  <1>1. PICK t \in Blocks(F, L) : x \in At(t)
    BY DEF Partition, Covers
  <1>2. t[2] \in Order /\ x \in Region(t[1], t[2])
    BY <1>1 DEF At, Blocks, Block
  <1>3. CASE t[3] = -1
    <2>1. t[1] \in F[t[2]]
      BY <1>3 DEF Blocks
    <2> QED
      BY <1>2, <2>1 DEF FreePage
  <1>4. CASE t[3] # -1
    <2> DEFINE b == [ptr |-> t[1], n |-> t[3]]
    <2>1. b \in L /\ t[2] = OrderOf(t[3])
      BY <1>4 DEF Blocks
    <2>2. b.ptr = t[1] /\ b.n = t[3]
      OBVIOUS
    <2> HIDE DEF b
    <2>3. x \in Region(b.ptr, OrderOf(b.n))
      BY <1>2, <2>1, <2>2
    <2> QED
      BY <2>1, <2>3
  <1> QED
    BY <1>3, <1>4

(* Alloc finds no block only if a block handed out is in every place.      *)
LEMMA NoPlaceLeft ==
    ASSUME NEW F \in FreeSets, NEW L, Partition(Blocks(F, L)), Merged(F),
           NEW m \in Order, \A k \in m..MAX_ORDER : F[k] = {},
           NEW p \in Nat, Aligned(p, m), Start <= p, p + Pow2[m] <= End
    PROVE  \E x \in Region(p, m) : \E b \in L : x \in Region(b.ptr, OrderOf(b.n))
  <1> SUFFICES ASSUME \A x \in Region(p, m) : ~ \E b \in L : x \in Region(b.ptr, OrderOf(b.n))
               PROVE  FALSE
    OBVIOUS
  <1>1. m \in Nat /\ Pow2[m] \in Nat
    BY RangeType, Pow2Type
  <1>2. \A x \in Region(p, m) : x \in Start..(End - 1)
    BY <1>1, RangeType DEF Region
  <1>3. Roomy(F, p, m)
    BY <1>2, FreeOrHanded DEF Roomy
  <1>4. InFree(F, p, m)
    BY <1>3, Whole
  <1>5. PICK o \in Order : m <= o /\ F[o] # {}
    BY <1>4 DEF InFree
  <1>6. o \in m..MAX_ORDER
    BY <1>1, <1>5, RangeType DEF Order
  <1> QED
    BY <1>5, <1>6

(* There is one way to cut the whole range into merged free blocks.        *)
LEMMA OneCut ==
    ASSUME NEW F \in FreeSets, Partition(Blocks(F, {})), Merged(F),
           NEW G \in FreeSets, Partition(Blocks(G, {})), Merged(G),
           NEW o \in Order, NEW p \in F[o]
    PROVE  p \in G[o]
  <1>1. ASSUME NEW H \in FreeSets, Partition(Blocks(H, {})), NEW x \in Start..(End - 1)
        PROVE  FreePage(H, x)
    BY <1>1, FreeOrHanded
  <1>2. p \in Nat /\ o \in Nat /\ Aligned(p, o) /\ Start <= p /\ p + Pow2[o] <= End
        /\ <<p, o, -1>> \in Blocks(F, {})
    BY FreeAligned
  <1>3. Pow2[o] \in Nat /\ Pow2[o] >= 1
    BY <1>2, Pow2Type
  <1>4. \A x \in Region(p, o) : x \in Start..(End - 1)
    BY <1>2, <1>3, RangeType DEF Region
  <1>5. InFree(G, p, o)
    <2>1. Roomy(G, p, o)
      BY <1>1, <1>2, <1>4 DEF Roomy
    <2> QED
      BY <1>2, <2>1, Whole
  <1>6. PICK o2 \in Order : \E q \in G[o2] : o <= o2 /\ q <= p /\ p + Pow2[o] <= q + Pow2[o2]
    BY <1>5 DEF InFree
  <1>7. PICK q \in G[o2] : o <= o2 /\ q <= p /\ p + Pow2[o] <= q + Pow2[o2]
    BY <1>6
  <1>8. q \in Nat /\ o2 \in Nat /\ Aligned(q, o2) /\ Start <= q /\ q + Pow2[o2] <= End
    BY FreeAligned
  <1>9. Pow2[o2] \in Nat
    BY <1>8, Pow2Type
  <1>10. \A x \in Region(q, o2) : x \in Start..(End - 1)
    BY <1>8, <1>9, RangeType DEF Region
  <1>11. InFree(F, q, o2)
    <2>1. Roomy(F, q, o2)
      BY <1>1, <1>8, <1>10 DEF Roomy
    <2> QED
      BY <1>8, <2>1, Whole
  <1>12. PICK o3 \in Order : \E r \in F[o3] : o2 <= o3 /\ r <= q /\ q + Pow2[o2] <= r + Pow2[o3]
    BY <1>11 DEF InFree
  <1>13. PICK r \in F[o3] : o2 <= o3 /\ r <= q /\ q + Pow2[o2] <= r + Pow2[o3]
    BY <1>12
  <1>14. r \in Nat /\ o3 \in Nat /\ <<r, o3, -1>> \in Blocks(F, {})
    BY FreeAligned
  <1>15. Pow2[o3] \in Nat
    BY <1>14, Pow2Type
  <1>16. p \in Region(p, o) /\ p \in Region(r, o3)
    BY <1>2, <1>3, <1>7, <1>8, <1>9, <1>13, <1>14, <1>15 DEF Region
  <1>17. <<p, o, -1>> = <<r, o3, -1>>
    <2>1. p \in At(<<p, o, -1>>) /\ p \in At(<<r, o3, -1>>)
      BY <1>16 DEF At
    <2> QED
      BY <1>2, <1>14, <2>1 DEF Partition, Disjoint
  <1>18. p = r /\ o = o3
    BY <1>17
  <1>19. o2 = o
    BY <1>2, <1>7, <1>8, <1>13, <1>14, <1>18
  <1>20. q = p
    BY <1>2, <1>3, <1>7, <1>8, <1>19
  <1> QED
    BY <1>19, <1>20

-----------------------------------------------------------------------------
(* The lists: what is linked in and taken out.                             *)
LEMMA PushIs ==
    ASSUME NEW s \in Seq(Nat), NEW x \in Nat
    PROVE  /\ Push(s, x) \in Seq(Nat)
           /\ ToSet(Push(s, x)) = ToSet(s) \cup {x}
           /\ IsInjective(s) /\ x \notin ToSet(s) => IsInjective(Push(s, x))
  <1> DEFINE t == Push(s, x)
  <1>1. t \in Seq(Nat) /\ Len(t) = Len(s) + 1 /\ t[1] = x
        /\ \A i \in 1..Len(s) : t[i + 1] = s[i]
    BY DEF Push
  <1>2. DOMAIN s = 1..Len(s) /\ DOMAIN t = 1..Len(t) /\ Len(s) \in Nat
    BY <1>1
  <1> HIDE DEF t
  <1>3. \A i \in 2..Len(t) : i - 1 \in 1..Len(s) /\ t[i] = s[i - 1]
    BY <1>1, <1>2
  <1>4. ToSet(t) = ToSet(s) \cup {x}
    <2>1. ASSUME NEW y \in ToSet(t) PROVE y \in ToSet(s) \cup {x}
      <3>1. PICK i \in 1..Len(t) : y = t[i]
        BY <1>2 DEF ToSet
      <3>2. i = 1 \/ i \in 2..Len(t)
        BY <1>2
      <3> QED
        BY <1>1, <1>2, <1>3, <3>1, <3>2 DEF ToSet
    <2>2. ASSUME NEW y \in ToSet(s) PROVE y \in ToSet(t)
      <3>1. PICK i \in 1..Len(s) : y = s[i]
        BY <1>2 DEF ToSet
      <3>2. i + 1 \in 1..Len(t)
        BY <1>1, <1>2
      <3> QED
        BY <1>1, <1>2, <3>1, <3>2 DEF ToSet
    <2>3. x \in ToSet(t)
      BY <1>1, <1>2 DEF ToSet
    <2> QED
      BY <2>1, <2>2, <2>3
  <1>5. ASSUME IsInjective(s), x \notin ToSet(s) PROVE IsInjective(t)
    <2> SUFFICES ASSUME NEW i \in 1..Len(t), NEW j \in 1..Len(t), t[i] = t[j] PROVE i = j
      BY <1>2 DEF IsInjective
    <2>1. \A k \in 2..Len(t) : t[k] # x
      BY <1>2, <1>3, <1>5 DEF ToSet
    <2>2. CASE i = 1 \/ j = 1
      BY <1>1, <1>2, <2>1, <2>2
    <2>3. CASE i # 1 /\ j # 1
      <3>1. i \in 2..Len(t) /\ j \in 2..Len(t)
        BY <2>3
      <3>2. i - 1 = j - 1
        BY <1>2, <1>3, <1>5, <3>1 DEF IsInjective
      <3> QED
        BY <3>1, <3>2
    <2> QED
      BY <2>2, <2>3
  <1> QED
    BY <1>1, <1>4, <1>5 DEF t

LEMMA AppendIs ==
    ASSUME NEW s \in Seq(Nat), NEW x \in Nat
    PROVE  /\ Append(s, x) \in Seq(Nat)
           /\ ToSet(Append(s, x)) = ToSet(s) \cup {x}
           /\ IsInjective(s) /\ x \notin ToSet(s) => IsInjective(Append(s, x))
  <1> DEFINE t == Append(s, x)
             l == Len(s) + 1
  <1>1. t \in Seq(Nat) /\ Len(t) = l /\ t[l] = x /\ \A i \in 1..Len(s) : t[i] = s[i]
    OBVIOUS
  <1>2. DOMAIN s = 1..Len(s) /\ DOMAIN t = 1..Len(t) /\ Len(s) \in Nat
    BY <1>1
  <1>3. 1..l = 1..Len(s) \cup {l} /\ l \notin 1..Len(s)
    BY <1>2
  <1> HIDE DEF t, l
  <1>4. ToSet(t) = ToSet(s) \cup {x}
    BY <1>1, <1>2, <1>3 DEF ToSet
  <1>5. ASSUME IsInjective(s), x \notin ToSet(s) PROVE IsInjective(t)
    <2>1. \A i \in 1..Len(s) : s[i] # x
      BY <1>2, <1>5 DEF ToSet
    <2> SUFFICES ASSUME NEW i \in 1..l, NEW j \in 1..l, t[i] = t[j] PROVE i = j
      BY <1>1, <1>2 DEF IsInjective
    <2>2. CASE i = l \/ j = l
      BY <1>1, <1>3, <2>1, <2>2
    <2>3. CASE i # l /\ j # l
      <3>1. i \in 1..Len(s) /\ j \in 1..Len(s) /\ s[i] = s[j]
        BY <1>1, <1>3, <2>3
      <3> QED
        BY <1>2, <1>5, <3>1 DEF IsInjective
    <2> QED
      BY <2>2, <2>3
  <1> QED
    BY <1>1, <1>4, <1>5 DEF t

LEMMA TailIs ==
    ASSUME NEW s \in Seq(Nat), s # <<>>, IsInjective(s)
    PROVE  /\ Tail(s) \in Seq(Nat)
           /\ Head(s) \in ToSet(s)
           /\ ToSet(Tail(s)) = ToSet(s) \ {Head(s)}
           /\ IsInjective(Tail(s))
  <1> DEFINE t == Tail(s)
  <1>1. t \in Seq(Nat) /\ Len(t) = Len(s) - 1 /\ Head(s) = s[1] /\ Len(s) >= 1
        /\ \A i \in 1..(Len(s) - 1) : t[i] = s[i + 1]
    OBVIOUS
  <1>2. DOMAIN s = 1..Len(s) /\ DOMAIN t = 1..Len(t) /\ Len(s) \in Nat
    BY <1>1
  <1> HIDE DEF t
  <1>3. \A i \in 1..Len(t) : i + 1 \in 1..Len(s) /\ i + 1 # 1 /\ t[i] = s[i + 1]
    BY <1>1, <1>2
  <1>4. 1 \in 1..Len(s)
    BY <1>1, <1>2
  <1>5. ToSet(t) = ToSet(s) \ {s[1]}
    <2>1. ASSUME NEW y \in ToSet(t) PROVE y \in ToSet(s) /\ y # s[1]
      <3>1. PICK i \in 1..Len(t) : y = t[i]
        BY <1>2 DEF ToSet
      <3>2. y = s[i + 1] /\ i + 1 \in 1..Len(s) /\ i + 1 # 1
        BY <1>3, <3>1
      <3> QED
        BY <1>2, <1>4, <3>2 DEF ToSet, IsInjective
    <2>2. ASSUME NEW y \in ToSet(s), y # s[1] PROVE y \in ToSet(t)
      <3>1. PICK i \in 1..Len(s) : y = s[i]
        BY <1>2 DEF ToSet
      <3>2. i # 1
        BY <2>2, <3>1
      <3>3. i - 1 \in 1..Len(t) /\ i - 1 \in 1..(Len(s) - 1) /\ (i - 1) + 1 = i
        BY <1>1, <1>2, <3>1, <3>2
      <3>4. y = t[i - 1]
        BY <1>1, <3>1, <3>3
      <3> QED
        BY <1>2, <3>3, <3>4 DEF ToSet
    <2> QED
      BY <2>1, <2>2
  <1>6. IsInjective(t)
    <2> SUFFICES ASSUME NEW i \in 1..Len(t), NEW j \in 1..Len(t), t[i] = t[j] PROVE i = j
      BY <1>2 DEF IsInjective
    <2>1. i + 1 = j + 1
      BY <1>2, <1>3 DEF IsInjective
    <2> QED
      BY <2>1
  <1>7. s[1] \in ToSet(s)
    BY <1>2, <1>4 DEF ToSet
  <1> QED
    BY <1>1, <1>5, <1>6, <1>7 DEF t

LEMMA UnlinkIs ==
    ASSUME NEW s \in Seq(Nat), IsInjective(s), NEW x \in ToSet(s)
    PROVE  /\ Unlink(s, x) \in Seq(Nat)
           /\ ToSet(Unlink(s, x)) = ToSet(s) \ {x}
           /\ IsInjective(Unlink(s, x))
  <1> DEFINE c == CHOOSE i \in DOMAIN s : s[i] = x
             t == Unlink(s, x)
             l == Len(s)
  <1>1. l \in Nat /\ DOMAIN s = 1..l
    OBVIOUS
  <1>2. c \in 1..l /\ s[c] = x
    BY <1>1 DEF ToSet
  <1>3. t = SubSeq(s, 1, c - 1) \o SubSeq(s, c + 1, l)
    BY DEF Unlink, RemoveAt
  <1> HIDE DEF c, t
  <1> DEFINE u == SubSeq(s, 1, c - 1)
             v == SubSeq(s, c + 1, l)
  <1> HIDE DEF l
  <1>0. \A i \in 1..l : s[i] \in Nat
    BY <1>1
  <1>4. u \in Seq(Nat) /\ Len(u) = c - 1 /\ \A i \in 1..(c - 1) : u[i] = s[i]
    <2>1. 1 \in Int /\ c - 1 \in Int /\ \A i \in 1..(c - 1) : s[i] \in Nat
      BY <1>0, <1>1, <1>2
    <2>2. /\ u \in Seq(Nat) /\ Len(u) = IF 1 <= c - 1 THEN (c - 1) - 1 + 1 ELSE 0
          /\ \A i \in 1..((c - 1) - 1 + 1) : u[i] = s[1 + i - 1]
      BY <2>1, SubSeqProperties
    <2> HIDE DEF u
    <2> QED
      BY <1>1, <1>2, <2>2
  <1>5. v \in Seq(Nat) /\ Len(v) = l - c /\ \A i \in 1..(l - c) : v[i] = s[c + i]
    <2>1. c + 1 \in Int /\ l \in Int /\ \A i \in (c + 1)..l : s[i] \in Nat
      BY <1>0, <1>1, <1>2
    <2>2. /\ v \in Seq(Nat) /\ Len(v) = IF c + 1 <= l THEN l - (c + 1) + 1 ELSE 0
          /\ \A i \in 1..(l - (c + 1) + 1) : v[i] = s[(c + 1) + i - 1]
      BY <2>1, SubSeqProperties
    <2> HIDE DEF v
    <2> QED
      BY <1>1, <1>2, <2>2
  <1>6. t = u \o v
    BY <1>3
  <1> HIDE DEF u, v
  <1>7. t \in Seq(Nat) /\ Len(t) = (c - 1) + (l - c)
        /\ \A i \in 1..Len(t) : t[i] = IF i <= c - 1 THEN u[i] ELSE v[i - (c - 1)]
    <2>1. /\ u \o v \in Seq(Nat) /\ Len(u \o v) = Len(u) + Len(v)
          /\ \A i \in 1..(Len(u) + Len(v)) :
                (u \o v)[i] = IF i <= Len(u) THEN u[i] ELSE v[i - Len(u)]
      BY <1>4, <1>5, ConcatProperties
    <2> QED
      BY <1>4, <1>5, <1>6, <2>1
  <1>8. DOMAIN t = 1..(l - 1) /\ Len(t) = l - 1
    BY <1>1, <1>2, <1>7
  <1>9. \A i \in 1..(l - 1) : t[i] = IF i < c THEN s[i] ELSE s[i + 1]
    <2> TAKE i \in 1..(l - 1)
    <2>1. CASE i < c
      <3>1. i \in 1..(c - 1) /\ i <= c - 1 /\ i \in 1..Len(t)
        BY <1>1, <1>2, <1>8, <2>1
      <3> QED
        BY <1>4, <1>7, <2>1, <3>1
    <2>2. CASE ~(i < c)
      <3>1. i - (c - 1) \in 1..(l - c) /\ ~(i <= c - 1) /\ c + (i - (c - 1)) = i + 1 /\ i \in 1..Len(t)
        BY <1>1, <1>2, <1>8, <2>2
      <3> QED
        BY <1>5, <1>7, <2>2, <3>1
    <2> QED
      BY <2>1, <2>2
  <1> DEFINE at(i) == IF i < c THEN i ELSE i + 1
  <1>10. \A i \in 1..(l - 1) : at(i) \in 1..l /\ at(i) # c /\ t[i] = s[at(i)]
    BY <1>1, <1>2, <1>9
  <1>11. \A i, j \in 1..(l - 1) : at(i) = at(j) => i = j
    BY <1>2
  <1>12. \A k \in 1..l : k # c => \E i \in 1..(l - 1) : at(i) = k
    <2> SUFFICES ASSUME NEW k \in 1..l, k # c PROVE \E i \in 1..(l - 1) : at(i) = k
      OBVIOUS
    <2>1. CASE k < c
      <3>1. k \in 1..(l - 1) /\ at(k) = k
        BY <1>1, <1>2, <2>1
      <3> QED
        BY <3>1
    <2>2. CASE ~(k < c)
      <3>1. k - 1 \in 1..(l - 1) /\ at(k - 1) = k
        BY <1>1, <1>2, <2>2
      <3> QED
        BY <3>1
    <2> QED
      BY <2>1, <2>2
  <1> HIDE DEF at
  <1>13. ToSet(t) = ToSet(s) \ {x}
    <2>1. ASSUME NEW y \in ToSet(t) PROVE y \in ToSet(s) /\ y # x
      <3>1. PICK i \in 1..(l - 1) : y = t[i]
        BY <1>8 DEF ToSet
      <3>2. y = s[at(i)] /\ at(i) \in 1..l /\ at(i) # c
        BY <1>10, <3>1
      <3> QED
        BY <1>1, <1>2, <3>2 DEF ToSet, IsInjective
    <2>2. ASSUME NEW y \in ToSet(s), y # x PROVE y \in ToSet(t)
      <3>1. PICK k \in 1..l : y = s[k]
        BY <1>1 DEF ToSet
      <3>2. k # c
        BY <1>2, <2>2, <3>1
      <3>3. PICK i \in 1..(l - 1) : at(i) = k
        BY <1>12, <3>2
      <3>4. y = t[i]
        BY <1>10, <3>1, <3>3
      <3> QED
        BY <1>8, <3>4 DEF ToSet
    <2> QED
      BY <2>1, <2>2
  <1>14. IsInjective(t)
    <2> SUFFICES ASSUME NEW i \in 1..(l - 1), NEW j \in 1..(l - 1), t[i] = t[j] PROVE i = j
      BY <1>8 DEF IsInjective
    <2>1. at(i) = at(j)
      BY <1>1, <1>10 DEF IsInjective
    <2> QED
      BY <1>11, <2>1
  <1> QED
    BY <1>7, <1>13, <1>14 DEF t

-----------------------------------------------------------------------------
(* The order that insert_range chooses.                                    *)
LEMMA InsertOrderIs ==
    ASSUME NEW p \in Start..(End - 1)
    PROVE  /\ InsertOrder(p) \in Order
           /\ Aligned(p, InsertOrder(p)) /\ p + Pow2[InsertOrder(p)] <= End
           /\ \A o \in Order : Aligned(p, o) /\ p + Pow2[o] <= End => InsertOrder(p) >= o
           /\ p + Pow2[InsertOrder(p)] \in (p + 1)..End
  <1> DEFINE S == {o \in Order : Aligned(p, o) /\ p + Pow2[o] <= End}
  <1>1. p \in Nat
    BY RangeType
  <1>2. 0 \in S
    <2>1. Pow2[0] = 1
      BY Pow2Def
    <2>2. p % 1 = 0
      BY <1>1
    <2>3. 0 \in Order /\ p + 1 <= End
      BY RangeType DEF Order
    <2> QED
      BY <2>1, <2>2, <2>3 DEF Aligned
  <1>3. S \subseteq 0..MAX_ORDER
    BY DEF Order
  <1>4. InsertOrder(p) = Max(S)
    BY DEF InsertOrder
  <1>5. Max(S) \in S /\ \A o \in S : Max(S) >= o
    <2> HIDE DEF S
    <2> QED
      BY <1>2, <1>3, RangeType, MaxOf
  <1>6. InsertOrder(p) \in S /\ \A o \in S : InsertOrder(p) >= o
    BY <1>4, <1>5
  <1>7. Pow2[InsertOrder(p)] \in Nat /\ Pow2[InsertOrder(p)] >= 1
    BY <1>6, RangeType, Pow2Type
  <1> QED
    BY <1>1, <1>6, <1>7, RangeType

(* Where insert_range goes on from p, and what it does there.              *)
Onwards(p) == p + Pow2[InsertOrder(p)]
Inserted(g, p) == IF p = End THEN [o \in Order |-> <<>>]
                  ELSE [g[Onwards(p)] EXCEPT
                          ![InsertOrder(p)] = Append(g[Onwards(p)][InsertOrder(p)], p)]

(* The walk of insert_range is defined, from any page on.                  *)
LEMMA InsertFromIs ==
    \A p \in Start..End : InsertFrom[p] = Inserted(InsertFrom, p)
  <1> DEFINE Walk(g, d) == \A p \in (End - d)..End : g[p] = Inserted(g, p)
             S == {d \in Nat : d <= End - Start => \E g : Walk(g, d)}
  <1>1. 0 \in S
    <2> DEFINE g == [p \in {End} |-> [o \in Order |-> <<>>]]
    <2>1. \A p \in (End - 0)..End : p = End
      BY RangeType
    <2>2. Walk(g, 0)
      BY <2>1 DEF Inserted
    <2> QED
      BY <2>2
  <1>2. \A d \in Nat : d \in S => d + 1 \in S
    <2> SUFFICES ASSUME NEW d \in Nat, d \in S, d + 1 <= End - Start PROVE \E g : Walk(g, d + 1)
      OBVIOUS
    <2>1. d <= End - Start
      BY RangeType
    <2>2. PICK g : Walk(g, d)
      BY <2>1
    <2> DEFINE c == End - (d + 1)
               h == [p \in c..End |-> IF p = c THEN Inserted(g, c) ELSE g[p]]
    <2>3. c \in Start..(End - 1) /\ c \in Nat /\ c + 1 = End - d /\ c # End
      BY RangeType
    <2>4. \A p \in c..End : p # End => Onwards(p) \in c..End /\ Onwards(p) # c
      <3> SUFFICES ASSUME NEW p \in c..End, p # End PROVE Onwards(p) \in c..End /\ Onwards(p) # c
        OBVIOUS
      <3>1. p \in Start..(End - 1)
        BY <2>3, RangeType
      <3>2. Onwards(p) \in (p + 1)..End
        BY <3>1, InsertOrderIs DEF Onwards
      <3> QED
        BY <2>3, <3>2, RangeType
    <2>5. \A p \in c..End : p # c => p \in (End - d)..End
      BY <2>3, RangeType
    <2>6. \A p \in c..End : p # End => h[Onwards(p)] = g[Onwards(p)]
      BY <2>4
    <2>7. \A p \in c..End : Inserted(h, p) = Inserted(g, p)
      <3> HIDE DEF h, c
      <3> SUFFICES ASSUME NEW p \in c..End PROVE Inserted(h, p) = Inserted(g, p)
        OBVIOUS
      <3>1. CASE p = End
        BY <3>1 DEF Inserted
      <3>2. CASE p # End
        <4>1. h[Onwards(p)] = g[Onwards(p)]
          BY <2>6, <3>2
        <4> QED
          BY <3>2, <4>1, Zenon DEF Inserted
      <3> QED
        BY <3>1, <3>2
    <2>8. \A p \in c..End : h[p] = Inserted(g, p)
      BY <2>2, <2>5
    <2>9. Walk(h, d + 1)
      BY <2>7, <2>8
    <2> QED
      BY <2>9
  <1>3. End - Start \in Nat /\ End - (End - Start) = Start
    BY RangeType
  <1>4. End - Start \in S
    <2> HIDE DEF S
    <2> QED
      BY <1>1, <1>2, <1>3, NatSet
  <1>5. PICK g : \A p \in Start..End : g[p] = Inserted(g, p)
    BY <1>3, <1>4
  <1> DEFINE f == [p \in Start..End |-> g[p]]
             body(h) == [p \in Start..End |->
                           IF p = End THEN [o \in Order |-> <<>>]
                           ELSE LET order == InsertOrder(p)
                                    rest  == h[p + Pow2[order]]
                                IN  [rest EXCEPT ![order] = Append(rest[order], p)]]
  <1>6. \A h : body(h) = [p \in Start..End |-> Inserted(h, p)]
    BY DEF Inserted, Onwards
  <1>7. f = body(f)
    <2>1. \A p \in Start..End : p # End => Onwards(p) \in Start..End
      <3> SUFFICES ASSUME NEW p \in Start..End, p # End PROVE Onwards(p) \in Start..End
        OBVIOUS
      <3>1. p \in Start..(End - 1)
        BY RangeType
      <3>2. Onwards(p) \in (p + 1)..End
        BY <3>1, InsertOrderIs DEF Onwards
      <3> QED
        BY <3>2, RangeType
    <2>2. \A p \in Start..End : Inserted(f, p) = Inserted(g, p)
      BY <2>1 DEF Inserted
    <2>3. \A p \in Start..End : f[p] = Inserted(f, p)
      BY <1>5, <2>2
    <2>4. f = [p \in Start..End |-> Inserted(f, p)]
      <3>1. f = [p \in Start..End |-> f[p]]
        OBVIOUS
      <3> HIDE DEF f
      <3> QED
        BY <2>3, <3>1
    <2> HIDE DEF f, body
    <2> QED
      BY <1>6, <2>4
  <1>8. InsertFrom = CHOOSE h : h = body(h)
    BY DEF InsertFrom
  <1> HIDE DEF f, body
  <1>9. InsertFrom = body(InsertFrom)
    BY <1>7, <1>8
  <1>10. InsertFrom = [p \in Start..End |-> Inserted(InsertFrom, p)]
    BY <1>6, <1>9
  <1> QED
    BY <1>10

(* What insert_range has linked from page p on: blocks of the order it     *)
(* chooses, that cover the pages from p on without overlapping.            *)
Linked(fl, p) ==
    /\ fl \in [Order -> Seq(Nat)]
    /\ \A o \in Order : IsInjective(fl[o])
    /\ \A o \in Order : \A q \in ToSet(fl[o]) : q \in p..(End - 1) /\ o = InsertOrder(q)
    /\ \A x \in p..(End - 1) : \E o \in Order : \E q \in ToSet(fl[o]) : x \in Region(q, o)
    /\ \A o, k \in Order : \A q \in ToSet(fl[o]), r \in ToSet(fl[k]) : \A x :
          x \in Region(q, o) /\ x \in Region(r, k) => q = r

LEMMA LinkedEnd == Linked([o \in Order |-> <<>>], End)
  <1>1. ToSet(<<>>) = {} /\ IsInjective(<<>>) /\ <<>> \in Seq(Nat)
    BY DEF ToSet, IsInjective
  <1>2. End..(End - 1) = {}
    BY RangeType
  <1> QED
    BY <1>1, <1>2 DEF Linked

LEMMA LinkedStep ==
    ASSUME NEW p \in Start..(End - 1), NEW fl, Linked(fl, Onwards(p))
    PROVE  Linked([fl EXCEPT ![InsertOrder(p)] = Append(fl[InsertOrder(p)], p)], p)
  <1> DEFINE c == InsertOrder(p)
             n == Onwards(p)
             g == [fl EXCEPT ![c] = Append(fl[c], p)]
  <1>1. p \in Nat /\ c \in Order /\ c \in Nat /\ n \in (p + 1)..End /\ n = p + Pow2[c]
        /\ End \in Nat /\ Pow2[c] \in Nat /\ Pow2[c] >= 1
    <2>1. p \in Nat /\ End \in Nat /\ Order \subseteq Nat
      BY RangeType
    <2>2. c \in Order /\ n \in (p + 1)..End /\ n = p + Pow2[c]
      BY InsertOrderIs DEF Onwards
    <2>3. c \in Nat
      BY <2>1, <2>2
    <2>4. Pow2[c] \in Nat /\ Pow2[c] >= 1
      BY <2>3, Pow2Type
    <2> QED
      BY <2>1, <2>2, <2>3, <2>4
  <1>2. fl \in [Order -> Seq(Nat)] /\ Linked(fl, n)
    BY DEF Linked
  <1> HIDE DEF c, n
  <1>3. \A o \in Order : \A q \in ToSet(fl[o]) : q \in n..(End - 1) /\ o = InsertOrder(q)
    BY <1>2 DEF Linked
  <1>4. \A o \in Order : p \notin ToSet(fl[o])
    BY <1>1, <1>3
  <1>5. Append(fl[c], p) \in Seq(Nat) /\ ToSet(Append(fl[c], p)) = ToSet(fl[c]) \cup {p}
        /\ IsInjective(Append(fl[c], p))
    <2>1. fl[c] \in Seq(Nat) /\ IsInjective(fl[c])
      BY <1>1, <1>2 DEF Linked
    <2> QED
      BY <1>1, <1>4, <2>1, AppendIs
  <1>6. g \in [Order -> Seq(Nat)] /\ \A o \in Order : g[o] = IF o = c THEN Append(fl[c], p) ELSE fl[o]
    BY <1>1, <1>2, <1>5
  <1> HIDE DEF g
  <1>7. \A o \in Order : ToSet(g[o]) = IF o = c THEN ToSet(fl[o]) \cup {p} ELSE ToSet(fl[o])
    BY <1>5, <1>6
  <1>8. \A o \in Order : IsInjective(g[o])
    BY <1>2, <1>5, <1>6 DEF Linked
  <1>9. \A o \in Order : \A q \in ToSet(g[o]) : (q \in ToSet(fl[o]) \/ (q = p /\ o = c))
    BY <1>7
  <1>10. \A o \in Order : \A q \in ToSet(g[o]) : q \in p..(End - 1) /\ o = InsertOrder(q)
    BY <1>1, <1>3, <1>9 DEF c
  <1>11. \A x \in p..(End - 1) : \E o \in Order : \E q \in ToSet(g[o]) : x \in Region(q, o)
    <2> TAKE x \in p..(End - 1)
    <2>1. CASE x < n
      <3>1. x \in Region(p, c)
        BY <1>1, <2>1 DEF Region
      <3>2. p \in ToSet(g[c])
        BY <1>1, <1>7
      <3> QED
        BY <1>1, <3>1, <3>2
    <2>2. CASE ~(x < n)
      <3>1. x \in n..(End - 1)
        BY <1>1, <2>2
      <3>2. \E o \in Order : \E q \in ToSet(fl[o]) : x \in Region(q, o)
        BY <1>2, <3>1 DEF Linked
      <3> QED
        BY <1>7, <3>2
    <2> QED
      BY <2>1, <2>2
  <1>12. \A x \in Region(p, c) : x < n
    BY <1>1 DEF Region
  <1>13. \A o \in Order : \A q \in ToSet(fl[o]) : \A x \in Region(q, o) : ~(x < n)
    <2> SUFFICES ASSUME NEW o \in Order, NEW q \in ToSet(fl[o]), NEW x \in Region(q, o) PROVE ~(x < n)
      OBVIOUS
    <2>1. q \in n..(End - 1) /\ o \in Nat
      BY <1>3, RangeType
    <2>2. x \in Int /\ q <= x
      BY <1>1, <2>1, Pow2Type DEF Region
    <2> QED
      BY <1>1, <2>1, <2>2
  <1>14. \A o, k \in Order : \A q \in ToSet(g[o]), r \in ToSet(g[k]) : \A x :
          x \in Region(q, o) /\ x \in Region(r, k) => q = r
    <2> SUFFICES ASSUME NEW o \in Order, NEW k \in Order, NEW q \in ToSet(g[o]), NEW r \in ToSet(g[k]),
                        NEW x, x \in Region(q, o), x \in Region(r, k)
                 PROVE  q = r
      OBVIOUS
    <2>1. CASE q \in ToSet(fl[o]) /\ r \in ToSet(fl[k])
      BY <1>2, <2>1 DEF Linked
    <2>2. CASE q \in ToSet(fl[o]) /\ r = p /\ k = c
      BY <1>12, <1>13, <2>2
    <2>3. CASE r \in ToSet(fl[k]) /\ q = p /\ o = c
      BY <1>12, <1>13, <2>3
    <2> QED
      BY <1>9, <2>1, <2>2, <2>3
  <1>15. Linked(g, p)
    BY <1>6, <1>8, <1>10, <1>11, <1>14 DEF Linked
  <1> QED
    BY <1>15 DEF g, c

LEMMA InsertRangeLinks == Linked(insert_range, Start)
  <1> DEFINE S == {d \in Nat : \A p \in Start..End : End - p <= d => Linked(InsertFrom[p], p)}
  <1>1. 0 \in S
    <2> SUFFICES ASSUME NEW p \in Start..End, End - p <= 0 PROVE Linked(InsertFrom[p], p)
      OBVIOUS
    <2>1. p = End
      BY RangeType
    <2>2. InsertFrom[p] = [o \in Order |-> <<>>]
      BY <2>1, InsertFromIs DEF Inserted
    <2> QED
      BY <2>1, <2>2, LinkedEnd
  <1>2. \A d \in Nat : d \in S => d + 1 \in S
    <2> SUFFICES ASSUME NEW d \in Nat, d \in S, NEW p \in Start..End, End - p <= d + 1
                 PROVE  Linked(InsertFrom[p], p)
      OBVIOUS
    <2>1. CASE p = End
      <3>1. InsertFrom[p] = [o \in Order |-> <<>>]
        BY <2>1, InsertFromIs DEF Inserted
      <3> QED
        BY <2>1, <3>1, LinkedEnd
    <2>2. CASE p # End
      <3>1. p \in Start..(End - 1)
        BY <2>2, RangeType
      <3>2. Onwards(p) \in (p + 1)..End
        BY <3>1, InsertOrderIs DEF Onwards
      <3>3. Onwards(p) \in Start..End /\ End - Onwards(p) <= d
        BY <3>1, <3>2, RangeType
      <3>4. Linked(InsertFrom[Onwards(p)], Onwards(p))
        BY <3>3
      <3>5. InsertFrom[p] = [InsertFrom[Onwards(p)] EXCEPT
                   ![InsertOrder(p)] = Append(InsertFrom[Onwards(p)][InsertOrder(p)], p)]
        BY <2>2, InsertFromIs DEF Inserted
      <3> QED
        BY <3>1, <3>4, <3>5, LinkedStep
    <2> QED
      BY <2>1, <2>2
  <1>3. End - Start \in Nat /\ Start \in Start..End
    BY RangeType
  <1>4. End - Start \in S
    <2> HIDE DEF S
    <2> QED
      BY <1>1, <1>2, <1>3, NatSet
  <1>5. Linked(InsertFrom[Start], Start)
    BY <1>3, <1>4
  <1> QED
    BY <1>5 DEF insert_range

(* The lists as sets.                                                      *)
SetsOf(fl) == [o \in Order |-> ToSet(fl[o])]

LEMMA SetsType ==
    ASSUME NEW fl \in [Order -> Seq(Nat)]
    PROVE  SetsOf(fl) \in FreeSets
  <1>1. \A o \in Order : ToSet(fl[o]) \subseteq Nat
    BY DEF ToSet
  <1> QED
    BY <1>1 DEF SetsOf, FreeSets

(* insert_range cuts the range into blocks, merged as far as they go.      *)
LEMMA InsertRangeIs ==
    /\ insert_range \in [Order -> Seq(Nat)]
    /\ \A o \in Order : IsInjective(insert_range[o])
    /\ Partition(Blocks(SetsOf(insert_range), {}))
    /\ Merged(SetsOf(insert_range))
  <1> DEFINE fl == insert_range
             F == SetsOf(fl)
             C == Blocks(F, {})
  <1>1. Linked(fl, Start)
    BY InsertRangeLinks
  <1>2. fl \in [Order -> Seq(Nat)] /\ \A o \in Order : IsInjective(fl[o])
    BY <1>1 DEF Linked
  <1>3. F \in FreeSets /\ \A o \in Order : F[o] = ToSet(fl[o])
    BY <1>2, SetsType DEF SetsOf
  <1> HIDE DEF fl, F
  <1>4. \A o \in Order : \A q \in F[o] :
          /\ q \in Start..(End - 1) /\ o = InsertOrder(q)
          /\ Aligned(q, o) /\ q + Pow2[o] <= End /\ q \in Nat
    BY <1>1, <1>3, InsertOrderIs, RangeType DEF Linked
  <1>5. C \subseteq Block /\ \A t \in C : t[2] \in Order /\ t[3] = -1 /\ t[1] \in F[t[2]]
                                         /\ t = <<t[1], t[2], t[3]>>
    BY DEF Blocks, Block
  <1>6. \A t \in C : InPlace(t)
    <2> SUFFICES ASSUME NEW t \in C PROVE InPlace(t)
      OBVIOUS
    <2>1. t[1] \in Start..(End - 1) /\ Aligned(t[1], t[2]) /\ t[1] + Pow2[t[2]] <= End
      BY <1>4, <1>5
    <2> QED
      BY <2>1, RangeType DEF InPlace
  <1>7. Covers(C)
    <2> SUFFICES ASSUME NEW x \in Start..(End - 1) PROVE \E t \in C : x \in At(t)
      BY DEF Covers
    <2>1. PICK o \in Order : \E q \in F[o] : x \in Region(q, o)
      BY <1>1, <1>3 DEF Linked
    <2>2. PICK q \in F[o] : x \in Region(q, o)
      BY <2>1
    <2>3. <<q, o, -1>> \in C
      BY <1>4, <2>2 DEF Blocks, Block
    <2>4. x \in At(<<q, o, -1>>)
      BY <2>2 DEF At
    <2> QED
      BY <2>3, <2>4
  <1>8. Disjoint(C)
    <2> SUFFICES ASSUME NEW t \in C, NEW u \in C, NEW x, x \in At(t), x \in At(u) PROVE t = u
      BY DEF Disjoint
    <2>1. t[2] \in Order /\ u[2] \in Order /\ t[1] \in F[t[2]] /\ u[1] \in F[u[2]]
      BY <1>5
    <2>2. x \in Region(t[1], t[2]) /\ x \in Region(u[1], u[2])
      BY DEF At
    <2>3. t[1] = u[1]
      BY <1>1, <1>3, <2>1, <2>2 DEF Linked
    <2>4. t[2] = InsertOrder(t[1]) /\ u[2] = InsertOrder(u[1])
      BY <1>4, <2>1
    <2> QED
      BY <1>5, <2>3, <2>4
  <1>9. Partition(C)
    BY <1>5, <1>6, <1>7, <1>8 DEF Partition
  <1>10. Merged(F)
    <2> SUFFICES ASSUME NEW o \in Order, o < MAX_ORDER, NEW q \in F[o], Buddy(q, o) \in F[o] PROVE FALSE
      BY DEF Merged
    <2>1. o \in Nat /\ o + 1 \in Order
      BY RangeType DEF Order
    <2> DEFINE b == Buddy(q, o)
    <2>2. b \in F[o]
      OBVIOUS
    <2>3. \/ Aligned(q, o + 1) /\ b = q + Pow2[o]
          \/ Aligned(b, o + 1) /\ q = b + Pow2[o]
      BY <1>4, <2>1, BuddyIs
    <2> HIDE DEF b
    <2>4. Pow2[o] \in Nat /\ Pow2[o + 1] = 2 * Pow2[o]
      BY <2>1, Pow2Type
    <2>5. ASSUME NEW low \in F[o], NEW high \in F[o], Aligned(low, o + 1), high = low + Pow2[o]
          PROVE  FALSE
      <3>1. low \in Start..(End - 1) /\ o = InsertOrder(low) /\ low \in Nat /\ high + Pow2[o] <= End
        BY <1>4
      <3>2. low + Pow2[o + 1] <= End
        BY <2>4, <2>5, <3>1, RangeType
      <3>3. InsertOrder(low) >= o + 1
        BY <2>1, <2>5, <3>1, <3>2, InsertOrderIs
      <3> QED
        BY <2>1, <3>1, <3>3
    <2> QED
      BY <2>2, <2>3, <2>5
  <1> QED
    BY <1>2, <1>9, <1>10 DEF fl, F

-----------------------------------------------------------------------------
(* The pages of a block that is handed out, and of a set of them, counted. *)
Width(b) == Pow2[OrderOf(b.n)]
Dots(s)  == {t \in s \X (0..Pow2[MAX_ORDER]) : t[2] < Width(t[1])}
SumOf(s) == Cardinality(Dots(s))

LEMMA WidthIs ==
    ASSUME NEW b \in Handed
    PROVE  Width(b) \in Nat /\ Width(b) >= 1 /\ Width(b) <= Pow2[MAX_ORDER] /\ Pow2[MAX_ORDER] \in Nat
  <1>1. b.n \in Sizes
    BY DEF Handed
  <1>2. OrderOf(b.n) \in Nat /\ OrderOf(b.n) <= MAX_ORDER /\ MAX_ORDER \in Nat
    BY <1>1, SizesType, RangeType DEF Order
  <1>3. Pow2[OrderOf(b.n)] \in Nat /\ Pow2[OrderOf(b.n)] >= 1 /\ Pow2[MAX_ORDER] \in Nat
    BY <1>2, Pow2Type
  <1>4. Pow2[OrderOf(b.n)] <= Pow2[MAX_ORDER]
    BY <1>2, Pow2Mono
  <1> QED
    BY <1>3, <1>4 DEF Width

(* The sum grows by the width of a block.                                  *)
LEMMA SumIs ==
    ASSUME NEW s \in SUBSET Handed, IsFiniteSet(s)
    PROVE  /\ SumOf(s) \in Nat
           /\ s = {} => SumOf(s) = 0
           /\ \A x \in s : SumOf(s) = Width(x) + SumOf(s \ {x})
  <1>1. Pow2[MAX_ORDER] \in Nat
    BY RangeType, Pow2Type
  <1>2. IsFiniteSet(0..Pow2[MAX_ORDER])
    BY <1>1, FS_Interval
  <1>3. ASSUME NEW r \in SUBSET s PROVE IsFiniteSet(Dots(r))
    <2>1. IsFiniteSet(r)
      BY <1>3, FS_Subset
    <2>2. IsFiniteSet(r \X (0..Pow2[MAX_ORDER]))
      BY <1>2, <2>1, FS_Product
    <2>3. Dots(r) \subseteq r \X (0..Pow2[MAX_ORDER])
      BY DEF Dots
    <2> QED
      BY <2>2, <2>3, FS_Subset
  <1>4. SumOf(s) \in Nat
    BY <1>3, FS_CardinalityType DEF SumOf
  <1>5. s = {} => SumOf(s) = 0
    <2>1. s = {} => Dots(s) = {}
      BY DEF Dots
    <2> QED
      BY <2>1, FS_EmptySet DEF SumOf
  <1>6. ASSUME NEW x \in s PROVE SumOf(s) = Width(x) + SumOf(s \ {x})
    <2> DEFINE w == Width(x)
               D == {x} \X (0..(w - 1))
               R == Dots(s \ {x})
    <2>1. w \in Nat /\ w >= 1 /\ w <= Pow2[MAX_ORDER]
      BY WidthIs
    <2>2. Dots(s) = R \cup D
      <3>1. ASSUME NEW a \in s, NEW k \in 0..Pow2[MAX_ORDER]
            PROVE  <<a, k>> \in Dots(s) <=> <<a, k>> \in R \cup D
        <4>1. <<a, k>> \in Dots(s) <=> k < Width(a)
          BY DEF Dots
        <4>2. <<a, k>> \in R <=> a # x /\ k < Width(a)
          BY DEF Dots
        <4>3. <<a, k>> \in D <=> a = x /\ k < w
          BY <2>1
        <4> HIDE DEF R, D
        <4> QED
          BY <4>1, <4>2, <4>3 DEF w
      <3>2. \A t \in Dots(s) : t[1] \in s /\ t[2] \in 0..Pow2[MAX_ORDER] /\ t = <<t[1], t[2]>>
        BY DEF Dots
      <3>3. \A t \in R : t[1] \in s /\ t[2] \in 0..Pow2[MAX_ORDER] /\ t = <<t[1], t[2]>>
        BY DEF Dots
      <3>4. \A t \in D : t[1] \in s /\ t[2] \in 0..Pow2[MAX_ORDER] /\ t = <<t[1], t[2]>>
        BY <1>1, <2>1
      <3> HIDE DEF R, D
      <3> QED
        BY <3>1, <3>2, <3>3, <3>4
    <2>3. R \cap D = {}
      BY DEF Dots
    <2>4. IsFiniteSet(D) /\ Cardinality(D) = w
      <3>1. IsFiniteSet({x}) /\ Cardinality({x}) = 1
        BY FS_Singleton
      <3>2. IsFiniteSet(0..(w - 1)) /\ Cardinality(0..(w - 1)) = w
        <4>1. 0 \in Int /\ w - 1 \in Int /\ ~(0 > w - 1)
          BY <2>1
        <4>2. Cardinality(0..(w - 1)) = (w - 1) - 0 + 1
          BY <4>1, FS_Interval
        <4>3. IsFiniteSet(0..(w - 1))
          BY <4>1, FS_Interval
        <4> QED
          BY <2>1, <4>2, <4>3
      <3>3. IsFiniteSet(D) /\ Cardinality(D) = 1 * w
        BY <3>1, <3>2, FS_Product
      <3> QED
        BY <2>1, <3>3
    <2>5. IsFiniteSet(R)
      BY <1>3
    <2> HIDE DEF R, D, w
    <2>6. Cardinality(R) \in Nat /\ Cardinality({}) = 0
      BY <2>5, FS_CardinalityType, FS_EmptySet
    <2>7. Cardinality(R \cup D) = Cardinality(R) + Cardinality(D) - Cardinality(R \cap D)
      BY <2>4, <2>5, FS_Union
    <2>8. Cardinality(Dots(s)) = w + Cardinality(R)
      <3>1. Cardinality(R \cap D) = 0
        BY <2>3, <2>6
      <3>2. Cardinality(R \cup D) = Cardinality(R) + w - 0
        BY <2>4, <2>7, <3>1
      <3>3. Cardinality(R) + w - 0 = w + Cardinality(R)
        BY <2>1, <2>6
      <3> QED
        BY <2>2, <3>2, <3>3
    <2> QED
      BY <2>8 DEF SumOf, R, w
  <1> QED
    BY <1>4, <1>5, <1>6

(* It is the sum that the counter is compared with.                        *)
LEMMA SumSetIs ==
    ASSUME NEW L \in SUBSET Handed, IsFiniteSet(L)
    PROVE  MapThenSumSet(LAMBDA b : Pow2[OrderOf(b.n)], L) = SumOf(L)
  <1> DEFINE pick(s) == CHOOSE x \in s : TRUE
             body(h) == [s \in SUBSET L |-> IF s = {} THEN 0
                                            ELSE Width(pick(s)) + h[s \ {pick(s)}]]
             f == [s \in SUBSET L |-> SumOf(s)]
             it == CHOOSE h : h = body(h)
  <1>1. MapThenSumSet(LAMBDA b : Pow2[OrderOf(b.n)], L) = it[L]
    BY DEF MapThenSumSet, MapThenFoldSet, Width
  <1>2. \A s \in SUBSET L : s # {} => pick(s) \in s
    OBVIOUS
  <1>3. \A s \in SUBSET L : s \in SUBSET Handed /\ IsFiniteSet(s)
    BY FS_Subset
  <1> HIDE DEF pick
  <1>4. \A s \in SUBSET L : SumOf(s) = IF s = {} THEN 0 ELSE Width(pick(s)) + SumOf(s \ {pick(s)})
    BY <1>2, <1>3, SumIs
  <1>5. \A s \in SUBSET L : f[s] = IF s = {} THEN 0 ELSE Width(pick(s)) + f[s \ {pick(s)}]
    <2> TAKE s \in SUBSET L
    <2>1. f[s] = SumOf(s) /\ f[s \ {pick(s)}] = SumOf(s \ {pick(s)})
      OBVIOUS
    <2> HIDE DEF f
    <2> QED
      BY <1>4, <2>1
  <1>6. f = body(f)
    <2>1. f = [s \in SUBSET L |-> f[s]]
      OBVIOUS
    <2> HIDE DEF f
    <2> QED
      BY <1>5, <2>1
  <1>7. it = body(it)
    <2> HIDE DEF body, f
    <2> QED
      BY <1>6
  <1> HIDE DEF it, f
  <1>8. \A s \in SUBSET L : it[s] = IF s = {} THEN 0 ELSE Width(pick(s)) + it[s \ {pick(s)}]
    BY <1>7
  <1> DEFINE S == {d \in Nat : \A s \in SUBSET L : Cardinality(s) = d => it[s] = SumOf(s)}
  <1>9. 0 \in S
    BY <1>3, <1>4, <1>8, FS_EmptySet
  <1>10. \A d \in Nat : d \in S => d + 1 \in S
    <2> SUFFICES ASSUME NEW d \in Nat, d \in S, NEW s \in SUBSET L, Cardinality(s) = d + 1
                 PROVE  it[s] = SumOf(s)
      OBVIOUS
    <2>1. s # {}
      <3>1. Cardinality({}) = 0 /\ d + 1 # 0
        BY FS_EmptySet
      <3> QED
        BY <3>1
    <2>2. pick(s) \in s /\ s \ {pick(s)} \in SUBSET L
      BY <1>2, <2>1
    <2>3. Cardinality(s \ {pick(s)}) = d
      <3>1. Cardinality(s \ {pick(s)}) = Cardinality(s) - 1
        BY <1>3, <2>2, FS_RemoveElement
      <3> QED
        BY <3>1
    <2>4. it[s \ {pick(s)}] = SumOf(s \ {pick(s)})
      BY <2>2, <2>3
    <2> QED
      BY <1>4, <1>8, <2>1, <2>4
  <1>11. Cardinality(L) \in Nat
    BY FS_CardinalityType
  <1>12. Cardinality(L) \in S
    <2> HIDE DEF S
    <2> QED
      BY <1>9, <1>10, <1>11, NatSet
  <1>13. it[L] = SumOf(L)
    BY <1>12
  <1> QED
    BY <1>1, <1>13

-----------------------------------------------------------------------------
Lists(fl) == fl \in [Order -> Seq(Nat)] /\ \A o \in Order : IsInjective(fl[o])

(* alloc splits the head p of list i, the first from order lo on.          *)
SplitLists(fl, gl, i, lo, p) ==
    /\ lo <= i /\ fl[i] # <<>> /\ p = Head(fl[i])
    /\ \A k \in lo..(i - 1) : fl[k] = <<>>
    /\ gl = [k \in Order |-> CASE k = i            -> Tail(fl[k])
                               [] lo <= k /\ k < i -> Push(fl[k], p + Pow2[k])
                               [] OTHER            -> fl[k]]

SplitSets(F, G, i, lo, p) ==
    /\ p \in F[i]
    /\ \A k \in lo..(i - 1) : F[k] = {}
    /\ \A k \in Order : G[k] = IF k = i THEN F[k] \ {p}
                               ELSE IF lo <= k /\ k < i THEN F[k] \cup {p + Pow2[k]}
                               ELSE F[k]

(* dealloc merges the block of order lo at p up to order m.                *)
MergeLists(fl, gl, m, lo, p) ==
    /\ lo <= m /\ Low(p, m) \notin ToSet(fl[m])
    /\ \A k \in lo..(m - 1) : Other(p, k) \in ToSet(fl[k])
    /\ gl = [k \in Order |-> CASE lo <= k /\ k < m -> Unlink(fl[k], Other(p, k))
                               [] k = m            -> Push(fl[k], Low(p, m))
                               [] OTHER            -> fl[k]]

(* The lists that alloc leaves, as sets.                                   *)
LEMMA AllocLists ==
    ASSUME NEW fl, Lists(fl), NEW i \in Order, NEW lo \in Order, NEW p, NEW gl,
           SplitLists(fl, gl, i, lo, p)
    PROVE  Lists(gl) /\ SplitSets(SetsOf(fl), SetsOf(gl), i, lo, p)
  <1> USE DEF SplitLists
  <1>0. fl \in [Order -> Seq(Nat)] /\ \A o \in Order : IsInjective(fl[o])
    BY DEF Lists
  <1>1. \A k \in Order : k \in Nat /\ Pow2[k] \in Nat
    BY RangeType, Pow2Type
  <1>2. \A k \in Order : SetsOf(fl)[k] = ToSet(fl[k]) /\ SetsOf(gl)[k] = ToSet(gl[k])
    BY DEF SetsOf
  <1>3. Tail(fl[i]) \in Seq(Nat) /\ p \in ToSet(fl[i]) /\ ToSet(Tail(fl[i])) = ToSet(fl[i]) \ {p}
        /\ IsInjective(Tail(fl[i]))
    BY <1>0, TailIs
  <1>4. p \in Nat
    BY <1>0, <1>3 DEF ToSet
  <1>5. ToSet(<<>>) = {}
    BY DEF ToSet
  <1>6. \A k \in lo..(i - 1) : k \in Order /\ ToSet(fl[k]) = {}
    BY <1>5, RangeType DEF Order
  <1>7. ASSUME NEW k \in Order
        PROVE  /\ gl[k] \in Seq(Nat) /\ IsInjective(gl[k])
               /\ ToSet(gl[k]) = IF k = i THEN ToSet(fl[k]) \ {p}
                                 ELSE IF lo <= k /\ k < i THEN ToSet(fl[k]) \cup {p + Pow2[k]}
                                 ELSE ToSet(fl[k])
    <2>1. CASE k = i
      <3>1. gl[k] = Tail(fl[i])
        <4>1. ~(lo <= k /\ k < i)
          BY <1>1, <2>1
        <4> QED
          BY <2>1, <4>1
      <3> QED
        BY <1>3, <2>1, <3>1
    <2>2. CASE k # i /\ lo <= k /\ k < i
      <3>1. gl[k] = Push(fl[k], p + Pow2[k])
        BY <2>2
      <3>2. p + Pow2[k] \in Nat /\ fl[k] \in Seq(Nat) /\ IsInjective(fl[k])
        BY <1>0, <1>1, <1>4
      <3>3. p + Pow2[k] \notin ToSet(fl[k])
        <4>1. k \in lo..(i - 1)
          BY <1>1, <2>2
        <4> QED
          BY <1>6, <4>1
      <3> QED
        BY <2>2, <3>1, <3>2, <3>3, PushIs
    <2>3. CASE k # i /\ ~(lo <= k /\ k < i)
      <3>1. gl[k] = fl[k]
        BY <2>3
      <3> QED
        BY <1>0, <2>3, <3>1
    <2> QED
      BY <2>1, <2>2, <2>3
  <1>8. gl \in [Order -> Seq(Nat)]
    <2>1. gl = [k \in Order |-> gl[k]]
      OBVIOUS
    <2> QED
      BY <1>7, <2>1
  <1> HIDE DEF SplitLists
  <1>9. Lists(gl)
    BY <1>7, <1>8 DEF Lists
  <1>10. p \in SetsOf(fl)[i] /\ \A k \in lo..(i - 1) : SetsOf(fl)[k] = {}
    BY <1>2, <1>3, <1>6
  <1>11. ASSUME NEW k \in Order
         PROVE  SetsOf(gl)[k] = IF k = i THEN SetsOf(fl)[k] \ {p}
                                ELSE IF lo <= k /\ k < i THEN SetsOf(fl)[k] \cup {p + Pow2[k]}
                                ELSE SetsOf(fl)[k]
    BY <1>2, <1>7
  <1> QED
    BY <1>9, <1>10, <1>11 DEF SplitSets

(* The lists that dealloc leaves, as sets.                                 *)
LEMMA DeallocLists ==
    ASSUME NEW fl, Lists(fl), NEW p \in Nat, NEW lo \in Order, NEW m \in Order, NEW gl,
           MergeLists(fl, gl, m, lo, p)
    PROVE  Lists(gl) /\ MergeSets(SetsOf(fl), SetsOf(gl), m, lo, p)
  <1> USE DEF MergeLists
  <1>0. fl \in [Order -> Seq(Nat)] /\ \A o \in Order : IsInjective(fl[o])
    BY DEF Lists
  <1>1. \A k \in Order : k \in Nat
    BY RangeType
  <1>2. \A k \in Order : SetsOf(fl)[k] = ToSet(fl[k]) /\ SetsOf(gl)[k] = ToSet(gl[k])
    BY DEF SetsOf
  <1>3. ASSUME NEW k \in Order
        PROVE  /\ gl[k] \in Seq(Nat) /\ IsInjective(gl[k])
               /\ ToSet(gl[k]) = IF lo <= k /\ k < m THEN ToSet(fl[k]) \ {Other(p, k)}
                                 ELSE IF k = m THEN ToSet(fl[k]) \cup {Low(p, m)}
                                 ELSE ToSet(fl[k])
    <2>1. CASE lo <= k /\ k < m
      <3>1. gl[k] = Unlink(fl[k], Other(p, k))
        <4>1. k # m
          BY <1>1, <2>1
        <4> QED
          BY <2>1, <4>1
      <3>2. k \in lo..(m - 1)
        BY <1>1, <2>1
      <3>3. Other(p, k) \in ToSet(fl[k]) /\ fl[k] \in Seq(Nat) /\ IsInjective(fl[k])
        BY <1>0, <3>2
      <3> QED
        BY <2>1, <3>1, <3>3, UnlinkIs
    <2>2. CASE k = m
      <3>1. ~(lo <= k /\ k < m)
        BY <1>1, <2>2
      <3>2. gl[k] = Push(fl[m], Low(p, m))
        BY <2>2, <3>1
      <3>3. Low(p, m) \in Nat /\ fl[m] \in Seq(Nat) /\ IsInjective(fl[m])
        BY <1>0, <1>1, LowOther
      <3> QED
        BY <2>2, <3>1, <3>2, <3>3, PushIs
    <2>3. CASE k # m /\ ~(lo <= k /\ k < m)
      <3>1. gl[k] = fl[k]
        BY <2>3
      <3> QED
        BY <1>0, <2>3, <3>1
    <2> QED
      BY <2>1, <2>2, <2>3
  <1>4. gl \in [Order -> Seq(Nat)]
    <2>1. gl = [k \in Order |-> gl[k]]
      OBVIOUS
    <2> QED
      BY <1>3, <2>1
  <1> QED
    BY <1>2, <1>3, <1>4 DEF Lists, MergeSets

-----------------------------------------------------------------------------
(* The inductive invariant of the page allocator: the lists and the blocks *)
(* handed out cut the range into aligned blocks, the free ones merged as   *)
(* far as they go; a request has been refused only with nothing on the     *)
(* lists from its order on.                                                *)
BuddyInv ==
    /\ free_lists \in [Order -> Seq(Nat)]
    /\ \A o \in Order : IsInjective(free_lists[o])
    /\ live \in SUBSET Handed
    /\ IsFiniteSet(live)
    /\ Partition(Blocks(SetsOf(free_lists), live))
    /\ Merged(SetsOf(free_lists))
    /\ allocated = SumOf(live)
    /\ refused \in SUBSET Sizes
    /\ \A n \in refused : \A k \in OrderOf(n)..MAX_ORDER : SetsOf(free_lists)[k] = {}

LEMMA BuddyInitInv == BuddyInit => BuddyInv
  <1> SUFFICES ASSUME BuddyInit PROVE BuddyInv
    OBVIOUS
  <1>1. free_lists = insert_range /\ live = {} /\ allocated = 0 /\ refused = {}
    BY DEF BuddyInit
  <1>2. /\ free_lists \in [Order -> Seq(Nat)]
        /\ \A o \in Order : IsInjective(free_lists[o])
        /\ Partition(Blocks(SetsOf(free_lists), live))
        /\ Merged(SetsOf(free_lists))
    BY <1>1, InsertRangeIs
  <1>3. live \in SUBSET Handed /\ IsFiniteSet(live)
    BY <1>1, FS_EmptySet
  <1>4. SumOf(live) = 0
    BY <1>1, <1>3, SumIs
  <1> QED
    BY <1>1, <1>2, <1>3, <1>4 DEF BuddyInv

(* alloc takes the head of the first list from its order on.               *)
LEMMA AllocInv ==
    ASSUME BuddyInv, NEW n \in Requests, Alloc(n)
    PROVE  BuddyInv'
  <1> DEFINE lo == OrderOf(n)
             i  == Min(Usable(n))
             p  == Granted(n)
             fl == free_lists
             gl == free_lists'
             new == [ptr |-> p, n |-> n]
             L == live
             M == live'
  <1>1. /\ fl \in [Order -> Seq(Nat)] /\ \A o \in Order : IsInjective(fl[o])
        /\ L \in SUBSET Handed /\ IsFiniteSet(L)
        /\ Partition(Blocks(SetsOf(fl), L)) /\ Merged(SetsOf(fl)) /\ allocated = SumOf(L)
    BY DEF BuddyInv
  <1>2. n <= Pow2[MAX_ORDER] /\ Usable(n) # {} /\ refused = {} /\ refused' = refused
    BY DEF Alloc
  <1>3. n \in Sizes
    BY <1>2 DEF Sizes
  <1>4. lo \in Order /\ lo \in Nat /\ n \in Nat /\ n # -1
    BY <1>3, SizesType
  <1>5. Usable(n) = {k \in lo..MAX_ORDER : fl[k] # <<>>}
    BY DEF Usable
  <1>6. i \in Usable(n) /\ \A k \in Usable(n) : i <= k
    <2>1. Usable(n) \subseteq Nat
      BY <1>4, <1>5, RangeType
    <2> QED
      BY <1>2, <2>1, MinOf
  <1>7. i \in Order /\ i \in Nat /\ lo <= i /\ fl[i] # <<>>
    BY <1>4, <1>5, <1>6, RangeType DEF Order
  <1>8. \A k \in lo..(i - 1) : fl[k] = <<>>
    <2> HIDE DEF i, lo
    <2> SUFFICES ASSUME NEW k \in lo..(i - 1), fl[k] # <<>> PROVE FALSE
      OBVIOUS
    <2>1. k \in lo..MAX_ORDER /\ ~(i <= k)
      BY <1>4, <1>7, RangeType DEF Order
    <2> QED
      BY <1>5, <1>6, <2>1
  <1>9. p = Head(fl[i])
    BY DEF Granted
  <1>10. gl = [k \in Order |-> CASE k = i            -> Tail(fl[k])
                                 [] lo <= k /\ k < i -> Push(fl[k], p + Pow2[k])
                                 [] OTHER            -> fl[k]]
    BY DEF Alloc, alloc
  <1>11. M = L \cup {new} /\ allocated' = allocated + Pow2[lo]
    BY DEF Alloc, alloc
  <1> HIDE DEF lo, i, p, fl, gl, L, M
  <1>12. Lists(gl) /\ SplitSets(SetsOf(fl), SetsOf(gl), i, lo, p)
    <2>1. Lists(fl)
      BY <1>1 DEF Lists
    <2>2. SplitLists(fl, gl, i, lo, p)
      BY <1>7, <1>8, <1>9, <1>10, Zenon DEF SplitLists
    <2> QED
      BY <1>4, <1>7, <2>1, <2>2, AllocLists
  <1>13. SetsOf(fl) \in FreeSets /\ SetsOf(gl) \in FreeSets
    BY <1>1, <1>12, SetsType DEF Lists
  <1>14. p \in Nat /\ <<p, i, -1>> \in Blocks(SetsOf(fl), L)
    BY <1>1, <1>7, <1>12, <1>13, FreeAligned DEF SplitSets
  <1>15. Partition(Blocks(SetsOf(gl), M))
    BY <1>1, <1>3, <1>7, <1>11, <1>12, <1>13, SplitBlocks DEF lo, SplitSets
  <1>16. Merged(SetsOf(gl))
    BY <1>1, <1>4, <1>7, <1>12, <1>13, SplitMerged DEF SplitSets
  <1>17. new \in Handed
    BY <1>3, <1>14 DEF Handed
  <1>18. M \in SUBSET Handed /\ IsFiniteSet(M)
    BY <1>1, <1>11, <1>17, FS_AddElement
  <1>19. new \notin L
    <2> SUFFICES ASSUME new \in L PROVE FALSE
      OBVIOUS
    <2>1. <<p, lo, n>> \in Blocks(SetsOf(fl), L)
      BY <1>4, <1>14 DEF Blocks, Block, lo
    <2>2. Pow2[lo] >= 1 /\ Pow2[lo] \in Nat /\ Pow2[i] >= 1 /\ Pow2[i] \in Nat
      BY <1>4, <1>7, Pow2Type
    <2>3. p \in At(<<p, lo, n>>) /\ p \in At(<<p, i, -1>>)
      BY <1>14, <2>2 DEF At, Region
    <2>4. <<p, lo, n>> = <<p, i, -1>>
      BY <1>1, <1>14, <2>1, <2>3 DEF Partition, Disjoint
    <2> QED
      BY <1>4, <2>4
  <1>20. allocated' = SumOf(M)
    <2>1. M \ {new} = L /\ new \in M
      BY <1>11, <1>19
    <2>2. SumOf(M) = Width(new) + SumOf(L)
      BY <1>18, <2>1, SumIs
    <2>3. Width(new) = Pow2[lo] /\ Pow2[lo] \in Nat
      BY <1>4, Pow2Type DEF Width, lo
    <2>4. SumOf(L) \in Nat
      BY <1>1, SumIs
    <2> QED
      BY <1>1, <1>11, <2>2, <2>3, <2>4
  <1>21. refused' = {}
    BY <1>2 DEF BuddyInv
  <1> QED
    BY <1>12, <1>15, <1>16, <1>18, <1>20, <1>21 DEF BuddyInv, Lists, gl, M

(* dealloc merges up to the first order whose buddy is not free.           *)
LEMMA DeallocInv ==
    ASSUME BuddyInv, NEW b \in live, Dealloc(b)
    PROVE  BuddyInv'
  <1> DEFINE n  == b.n
             p  == b.ptr
             lo == OrderOf(n)
             m  == MergedOrder(p, lo)
             fl == free_lists
             gl == free_lists'
             L == live
             M == live'
             Stops == {k \in lo..MAX_ORDER : k = MAX_ORDER \/ Other(p, k) \notin ToSet(fl[k])}
  <1>1. /\ fl \in [Order -> Seq(Nat)] /\ \A o \in Order : IsInjective(fl[o])
        /\ L \in SUBSET Handed /\ IsFiniteSet(L)
        /\ Partition(Blocks(SetsOf(fl), L)) /\ Merged(SetsOf(fl)) /\ allocated = SumOf(L)
    BY DEF BuddyInv
  <1>2. b \in L /\ n \in Sizes /\ p \in Nat /\ b = [ptr |-> p, n |-> n]
    BY <1>1 DEF Handed
  <1>3. lo \in Order /\ lo \in Nat /\ n \in Nat /\ n # -1
    BY <1>2, SizesType
  <1>4. m = Min(Stops)
    BY DEF MergedOrder, Other
  <1>5. m \in Stops /\ \A k \in Stops : m <= k
    <2>1. MAX_ORDER \in Stops
      BY <1>3, RangeType DEF Order
    <2>2. Stops \subseteq Nat
      BY <1>3, RangeType
    <2> HIDE DEF Stops, m
    <2> QED
      BY <1>4, <2>1, <2>2, MinOf
  <1>6. m \in Order /\ m \in Nat /\ lo <= m /\ (m = MAX_ORDER \/ Other(p, m) \notin ToSet(fl[m]))
    <2> HIDE DEF m, lo
    <2> QED
      BY <1>3, <1>5, RangeType DEF Order
  <1>7. \A k \in lo..(m - 1) : k \in Order /\ Other(p, k) \in ToSet(fl[k])
    <2> HIDE DEF m, lo
    <2> SUFFICES ASSUME NEW k \in lo..(m - 1) PROVE k \in Order /\ Other(p, k) \in ToSet(fl[k])
      OBVIOUS
    <2>1. k \in lo..MAX_ORDER /\ ~(m <= k) /\ k \in Order
      BY <1>3, <1>6, RangeType DEF Order
    <2> QED
      BY <1>5, <2>1
  <1>8. gl = [k \in Order |-> CASE lo <= k /\ k < m -> Unlink(fl[k], Other(p, k))
                                [] k = m            -> Push(fl[k], Low(p, m))
                                [] OTHER            -> fl[k]]
    BY DEF Dealloc, dealloc, Other, Low
  <1>9. M = L \ {b} /\ allocated' = allocated - Pow2[lo] /\ refused' = {}
    <2>1. M = L \ {[ptr |-> p, n |-> n]} /\ allocated' = allocated - Pow2[lo]
      BY DEF Dealloc, dealloc
    <2>2. refused' = {}
      BY DEF Dealloc, BuddyInv
    <2> QED
      BY <1>2, <2>1, <2>2
  <1> HIDE DEF n, p, m, fl, gl, L, M, Stops
  <1>10. <<p, lo, n>> \in Blocks(SetsOf(fl), L)
    BY <1>2, <1>3 DEF Blocks, Block
  <1> HIDE DEF lo
  <1>11. SetsOf(fl) \in FreeSets /\ \A o \in Order : SetsOf(fl)[o] = ToSet(fl[o])
    BY <1>1, SetsType DEF SetsOf
  <1>12. Low(p, m) \notin ToSet(fl[m])
    <2> SUFFICES ASSUME Low(p, m) \in SetsOf(fl)[m] PROVE FALSE
      BY <1>6, <1>11
    <2>1. <<Low(p, m), m, -1>> \in Blocks(SetsOf(fl), L)
      BY <1>1, <1>6, <1>11, FreeAligned
    <2>2. p \in Region(Low(p, m), m)
      BY <1>2, <1>6, LowOther
    <2>3. Pow2[lo] \in Nat /\ Pow2[lo] >= 1
      BY <1>3, Pow2Type
    <2>4. p \in Region(p, lo)
      BY <1>2, <2>3 DEF Region
    <2>5. p \in At(<<p, lo, n>>) /\ p \in At(<<Low(p, m), m, -1>>)
      BY <2>2, <2>4 DEF At
    <2>6. <<p, lo, n>> = <<Low(p, m), m, -1>>
      BY <1>1, <1>10, <2>1, <2>5 DEF Partition, Disjoint
    <2> QED
      BY <1>3, <2>6
  <1>13. Lists(gl) /\ MergeSets(SetsOf(fl), SetsOf(gl), m, lo, p)
    <2>1. Lists(fl)
      BY <1>1 DEF Lists
    <2>2. MergeLists(fl, gl, m, lo, p)
      BY <1>6, <1>7, <1>8, <1>12, Zenon DEF MergeLists
    <2> QED
      BY <1>2, <1>3, <1>6, <2>1, <2>2, DeallocLists
  <1>14. SetsOf(gl) \in FreeSets
    BY <1>13, SetsType DEF Lists
  <1>15. \A k \in lo..(m - 1) : Other(p, k) \in SetsOf(fl)[k]
    BY <1>7, <1>11
  <1>16. Partition(Blocks(SetsOf(gl), L \ {b}))
    BY <1>1, <1>2, <1>6, <1>11, <1>13, <1>14, <1>15, MergeBlocks DEF lo, n, p, MergeSets
  <1>17. Merged(SetsOf(gl))
    <2>1. m = MAX_ORDER \/ Other(p, m) \notin SetsOf(fl)[m]
      BY <1>6, <1>11
    <2> DEFINE F == SetsOf(fl)
               G == SetsOf(gl)
    <2>2. F \in FreeSets /\ G \in FreeSets /\ Partition(Blocks(F, L)) /\ Merged(F)
      BY <1>1, <1>11, <1>14
    <2>3. MergeSets(F, G, m, lo, p)
      BY <1>13
    <2>4. m = MAX_ORDER \/ Other(p, m) \notin F[m]
      BY <2>1
    <2> HIDE DEF F, G
    <2>5. Merged(G)
      BY <1>2, <1>3, <1>6, <2>2, <2>3, <2>4, MergeMerged
    <2> QED
      BY <2>5 DEF G
  <1>18. M \in SUBSET Handed /\ IsFiniteSet(M)
    BY <1>1, <1>9, FS_RemoveElement
  <1>19. allocated' = SumOf(M)
    <2>1. SumOf(L) = Width(b) + SumOf(M)
      BY <1>1, <1>2, <1>9, SumIs
    <2>2. Width(b) = Pow2[lo] /\ Pow2[lo] \in Nat
      BY <1>3, Pow2Type DEF Width, lo, n
    <2>3. SumOf(M) \in Nat
      BY <1>18, SumIs
    <2> QED
      BY <1>1, <1>9, <2>1, <2>2, <2>3
  <1> QED
    BY <1>9, <1>13, <1>16, <1>17, <1>18, <1>19 DEF BuddyInv, Lists, gl, M

LEMMA AllocFailsInv ==
    ASSUME BuddyInv, NEW n \in Requests, AllocFails(n)
    PROVE  BuddyInv'
  <1>1. n \in Sizes /\ Usable(n) = {} /\ refused' = {n}
        /\ free_lists' = free_lists /\ allocated' = allocated /\ live' = live
    BY DEF AllocFails, Sizes
  <1>2. OrderOf(n) \in Nat
    BY <1>1, SizesType
  <1>3. \A k \in OrderOf(n)..MAX_ORDER : SetsOf(free_lists)[k] = {}
    <2> SUFFICES ASSUME NEW k \in OrderOf(n)..MAX_ORDER PROVE SetsOf(free_lists)[k] = {}
      OBVIOUS
    <2>1. free_lists[k] = <<>>
      BY <1>1 DEF Usable
    <2>2. k \in Order
      BY <1>2, RangeType DEF Order
    <2> QED
      BY <2>1, <2>2 DEF SetsOf, ToSet
  <1> QED
    BY <1>1, <1>3 DEF BuddyInv

LEMMA BuddyStepInv == BuddyInv /\ [BuddyNext]_buddyVars => BuddyInv'
  <1> SUFFICES ASSUME BuddyInv, [BuddyNext]_buddyVars PROVE BuddyInv'
    OBVIOUS
  <1>1. CASE \E n \in Requests : Alloc(n) \/ AllocFails(n)
    BY <1>1, AllocInv, AllocFailsInv
  <1>2. CASE \E b \in live : Dealloc(b)
    BY <1>2, DeallocInv
  <1>3. CASE UNCHANGED buddyVars
    BY <1>3 DEF BuddyInv, buddyVars
  <1> QED
    BY <1>1, <1>2, <1>3 DEF BuddyNext

(* The blocks of the properties are those of the invariant.                *)
LEMMA FreeBlocksAre ==
    ASSUME BuddyInv, NEW b \in FreeBlocks
    PROVE  /\ b.order \in Order /\ b.ptr \in Nat /\ b = [ptr |-> b.ptr, order |-> b.order]
           /\ <<b.ptr, b.order, -1>> \in Blocks(SetsOf(free_lists), live)
           /\ Pages(b) = At(<<b.ptr, b.order, -1>>)
  <1>1. PICK o \in Order : \E p \in ToSet(free_lists[o]) : b = [ptr |-> p, order |-> o]
    BY DEF FreeBlocks
  <1>2. PICK p \in ToSet(free_lists[o]) : b = [ptr |-> p, order |-> o]
    BY <1>1
  <1>3. SetsOf(free_lists) \in FreeSets /\ Partition(Blocks(SetsOf(free_lists), live))
    BY SetsType DEF BuddyInv
  <1>4. p \in SetsOf(free_lists)[o]
    BY <1>2 DEF SetsOf
  <1>5. <<p, o, -1>> \in Blocks(SetsOf(free_lists), live) /\ p \in Nat
    BY <1>3, <1>4, FreeAligned
  <1>6. b.ptr = p /\ b.order = o
    BY <1>2
  <1> QED
    BY <1>2, <1>5, <1>6 DEF Pages, At, Region

LEMMA LiveBlocksAre ==
    ASSUME BuddyInv, NEW b \in live
    PROVE  /\ b.n \in Nat /\ b.n # -1 /\ b.ptr \in Nat /\ OrderOf(b.n) \in Order
           /\ b = [ptr |-> b.ptr, n |-> b.n]
           /\ <<b.ptr, OrderOf(b.n), b.n>> \in Blocks(SetsOf(free_lists), live)
           /\ Pages([ptr |-> b.ptr, order |-> OrderOf(b.n)]) = At(<<b.ptr, OrderOf(b.n), b.n>>)
  <1>1. b.ptr \in Nat /\ b.n \in Sizes /\ b = [ptr |-> b.ptr, n |-> b.n]
    BY DEF BuddyInv, Handed
  <1>2. b.n \in Nat /\ b.n # -1 /\ OrderOf(b.n) \in Order
    BY <1>1, SizesType
  <1>3. <<b.ptr, OrderOf(b.n), b.n>> \in Blocks(SetsOf(free_lists), live)
    BY <1>1, <1>2 DEF Blocks, Block
  <1> QED
    BY <1>1, <1>2, <1>3 DEF Pages, At, Region

(* A block that is in its place.                                           *)
LEMMA PlacedPages ==
    ASSUME NEW t \in Block, InPlace(t)
    PROVE  Aligned(t[1], t[2]) /\ At(t) \subseteq Start..(End - 1)
  <1>1. t[1] \in Nat /\ t[2] \in Nat
    BY RangeType DEF Block
  <1>2. Pow2[t[2]] \in Nat
    BY <1>1, Pow2Type
  <1> QED
    BY <1>1, <1>2, RangeType DEF InPlace, At, Region

LEMMA InvPartitions == BuddyInv => PagesPartitioned
  <1> SUFFICES ASSUME BuddyInv PROVE PagesPartitioned
    OBVIOUS
  <1> DEFINE C == Blocks(SetsOf(free_lists), live)
             FreeOn(p) == {b \in FreeBlocks : p \in Pages(b)}
             LiveOn(p) == {b \in live : p \in Pages([ptr |-> b.ptr, order |-> OrderOf(b.n)])}
  <1>1. Partition(C) /\ C \subseteq Block
    BY DEF BuddyInv, Partition
  <1> HIDE DEF C
  <1>2. \A t \in C : Aligned(t[1], t[2]) /\ At(t) \subseteq Start..(End - 1)
    BY <1>1, PlacedPages DEF Partition
  <1>3. \A b \in FreeBlocks \cup LiveBlocks : Aligned(b.ptr, b.order) /\ Pages(b) \subseteq Start..(End - 1)
    <2>1. ASSUME NEW b \in FreeBlocks PROVE Aligned(b.ptr, b.order) /\ Pages(b) \subseteq Start..(End - 1)
      <3>1. <<b.ptr, b.order, -1>> \in C /\ Pages(b) = At(<<b.ptr, b.order, -1>>)
        BY FreeBlocksAre DEF C
      <3> QED
        BY <1>2, <3>1
    <2>2. ASSUME NEW c \in LiveBlocks PROVE Aligned(c.ptr, c.order) /\ Pages(c) \subseteq Start..(End - 1)
      <3>1. PICK b \in live : c = [ptr |-> b.ptr, order |-> OrderOf(b.n)]
        BY DEF LiveBlocks
      <3>2. <<b.ptr, OrderOf(b.n), b.n>> \in C
            /\ Pages([ptr |-> b.ptr, order |-> OrderOf(b.n)]) = At(<<b.ptr, OrderOf(b.n), b.n>>)
        BY LiveBlocksAre DEF C
      <3>3. c.ptr = b.ptr /\ c.order = OrderOf(b.n)
        BY <3>1
      <3>4. Aligned(b.ptr, OrderOf(b.n)) /\ At(<<b.ptr, OrderOf(b.n), b.n>>) \subseteq Start..(End - 1)
        BY <1>2, <3>2
      <3> QED
        BY <3>1, <3>2, <3>3, <3>4
    <2> QED
      BY <2>1, <2>2
  <1>4. ASSUME NEW p \in Start..(End - 1)
        PROVE  Cardinality(FreeOn(p)) + Cardinality(LiveOn(p)) = 1
    <2>1. PICK t \in C : p \in At(t)
      BY <1>1 DEF Partition, Covers
    <2>2. \A u \in C : p \in At(u) => u = t
      BY <1>1, <2>1 DEF Partition, Disjoint
    <2>3. t[1] \in Nat /\ t[2] \in Order /\ t[3] \in Nat \cup {-1} /\ t = <<t[1], t[2], t[3]>>
      BY <1>1 DEF Block
    <2>4. \A b \in FreeOn(p) : t = <<b.ptr, b.order, -1>> /\ b = [ptr |-> b.ptr, order |-> b.order]
      BY <2>2, FreeBlocksAre DEF C
    <2>5. \A b \in LiveOn(p) : t = <<b.ptr, OrderOf(b.n), b.n>> /\ b = [ptr |-> b.ptr, n |-> b.n]
                               /\ b.n # -1
      BY <2>2, LiveBlocksAre DEF C
    <2>6. \A x : Cardinality({x}) = 1
      BY FS_Singleton
    <2>7. Cardinality({}) = 0
      BY FS_EmptySet
    <2>8. CASE t[3] = -1
      <3> DEFINE b == [ptr |-> t[1], order |-> t[2]]
      <3>1. t[1] \in SetsOf(free_lists)[t[2]]
        BY <2>1, <2>8 DEF C, Blocks
      <3>2. t[1] \in ToSet(free_lists[t[2]])
        BY <2>3, <3>1 DEF SetsOf
      <3>3. b \in FreeBlocks
        <4> DEFINE S(o) == {[ptr |-> q, order |-> o] : q \in ToSet(free_lists[o])}
        <4>1. b \in S(t[2])
          BY <3>2
        <4>2. FreeBlocks = UNION {S(o) : o \in Order}
          BY DEF FreeBlocks
        <4> HIDE DEF S
        <4> QED
          BY <2>3, <4>1, <4>2
      <3>4. p \in Pages(b)
        BY <2>1 DEF Pages, At, Region
      <3>5. FreeOn(p) = {b}
        <4>1. b \in FreeOn(p)
          BY <3>3, <3>4
        <4>2. \A c \in FreeOn(p) : c = b
          <5> SUFFICES ASSUME NEW c \in FreeOn(p) PROVE c = b
            OBVIOUS
          <5>1. t = <<c.ptr, c.order, -1>> /\ c = [ptr |-> c.ptr, order |-> c.order]
            BY <2>4
          <5>2. t[1] = c.ptr /\ t[2] = c.order
            BY <5>1
          <5> QED
            BY <5>1, <5>2
        <4> HIDE DEF FreeOn, b
        <4> QED
          BY <4>1, <4>2
      <3>6. LiveOn(p) = {}
        <4> SUFFICES ASSUME NEW c \in LiveOn(p) PROVE FALSE
          OBVIOUS
        <4>1. t = <<c.ptr, OrderOf(c.n), c.n>> /\ c.n # -1
          BY <2>5
        <4>2. t[3] = c.n
          BY <4>1
        <4> QED
          BY <2>8, <4>1, <4>2
      <3>7. Cardinality(FreeOn(p)) = 1
        BY <2>6, <3>5, Zenon
      <3>8. Cardinality(LiveOn(p)) = 0
        BY <2>7, <3>6, Zenon
      <3> HIDE DEF FreeOn, LiveOn
      <3> QED
        BY <3>7, <3>8
    <2>9. CASE t[3] # -1
      <3> DEFINE b == [ptr |-> t[1], n |-> t[3]]
      <3>1. b \in live /\ t[2] = OrderOf(t[3])
        BY <2>1, <2>9 DEF C, Blocks
      <3>2. b \in LiveOn(p)
        <4>1. p \in Pages([ptr |-> t[1], order |-> t[2]])
          BY <2>1 DEF Pages, At, Region
        <4> QED
          BY <3>1, <4>1
      <3>3. LiveOn(p) = {b}
        <4>1. \A c \in LiveOn(p) : c = b
          <5> SUFFICES ASSUME NEW c \in LiveOn(p) PROVE c = b
            OBVIOUS
          <5>1. t = <<c.ptr, OrderOf(c.n), c.n>> /\ c = [ptr |-> c.ptr, n |-> c.n]
            BY <2>5
          <5>2. t[1] = c.ptr /\ t[3] = c.n
            BY <5>1
          <5> QED
            BY <5>1, <5>2
        <4> HIDE DEF LiveOn, b
        <4> QED
          BY <3>2, <4>1
      <3>4. FreeOn(p) = {}
        <4> SUFFICES ASSUME NEW c \in FreeOn(p) PROVE FALSE
          OBVIOUS
        <4>1. t = <<c.ptr, c.order, -1>>
          BY <2>4
        <4>2. t[3] = -1
          BY <4>1
        <4> QED
          BY <2>9, <4>2
      <3>7. Cardinality(LiveOn(p)) = 1
        BY <2>6, <3>3, Zenon
      <3>8. Cardinality(FreeOn(p)) = 0
        BY <2>7, <3>4, Zenon
      <3> HIDE DEF FreeOn, LiveOn
      <3> QED
        BY <3>7, <3>8
    <2> QED
      BY <2>8, <2>9
  <1>5. allocated = MapThenSumSet(LAMBDA b : Pow2[OrderOf(b.n)], live)
    BY SumSetIs DEF BuddyInv
  <1>6. \A o \in Order : IsInjective(free_lists[o])
    BY DEF BuddyInv
  <1> QED
    BY <1>3, <1>4, <1>5, <1>6 DEF PagesPartitioned

LEMMA InvMerged == BuddyInv => FullyMerged
  <1> SUFFICES ASSUME BuddyInv PROVE FullyMerged
    OBVIOUS
  <1> DEFINE F == SetsOf(free_lists)
             G == SetsOf(insert_range)
  <1>1. F \in FreeSets /\ Partition(Blocks(F, live)) /\ Merged(F)
        /\ \A o \in Order : F[o] = ToSet(free_lists[o])
    BY SetsType DEF BuddyInv, SetsOf
  <1>2. G \in FreeSets /\ Partition(Blocks(G, {})) /\ Merged(G)
        /\ \A o \in Order : G[o] = ToSet(insert_range[o])
    BY InsertRangeIs, SetsType DEF SetsOf
  <1> HIDE DEF F, G
  <1>3. \A o \in 0..(MAX_ORDER - 1) : \A p \in ToSet(free_lists[o]) : Buddy(p, o) \notin ToSet(free_lists[o])
    <2> SUFFICES ASSUME NEW o \in 0..(MAX_ORDER - 1)
                 PROVE  \A p \in ToSet(free_lists[o]) : Buddy(p, o) \notin ToSet(free_lists[o])
      OBVIOUS
    <2>1. o \in Order /\ o < MAX_ORDER
      BY RangeType DEF Order
    <2> QED
      BY <1>1, <2>1 DEF Merged
  <1>4. ASSUME live = {} PROVE \A o \in Order : ToSet(free_lists[o]) = ToSet(insert_range[o])
    <2>1. Partition(Blocks(F, {}))
      BY <1>1, <1>4
    <2>2. \A o \in Order : \A p \in F[o] : p \in G[o]
      BY <1>1, <1>2, <2>1, OneCut
    <2>3. \A o \in Order : \A p \in G[o] : p \in F[o]
      BY <1>1, <1>2, <2>1, OneCut
    <2>4. \A o \in Order : F[o] = G[o]
      BY <2>2, <2>3
    <2> QED
      BY <1>1, <1>2, <2>4
  <1> QED
    BY <1>3, <1>4 DEF FullyMerged

LEMMA InvRefuses == BuddyInv => RefusesOnlyWhenFull
  <1> SUFFICES ASSUME BuddyInv, NEW n \in refused,
                      NEW q \in Start..End, Aligned(q, OrderOf(n)), q + Pow2[OrderOf(n)] <= End
               PROVE  \E b \in LiveBlocks : Pages(b) \cap (q..(q + Pow2[OrderOf(n)] - 1)) # {}
    BY DEF RefusesOnlyWhenFull
  <1>1. n \in Sizes /\ \A k \in OrderOf(n)..MAX_ORDER : SetsOf(free_lists)[k] = {}
    BY DEF BuddyInv
  <1> DEFINE o == OrderOf(n)
             F == SetsOf(free_lists)
  <1>2. o \in Order
    BY <1>1, SizesType
  <1>3. F \in FreeSets /\ Partition(Blocks(F, live)) /\ Merged(F)
    BY SetsType DEF BuddyInv
  <1>4. \A k \in o..MAX_ORDER : F[k] = {}
    BY <1>1
  <1> HIDE DEF F, o
  <1>5. ASSUME NEW p \in Start..End, Aligned(p, o), p + Pow2[o] <= End
        PROVE  \E b \in LiveBlocks : Pages(b) \cap (p..(p + Pow2[o] - 1)) # {}
    <2>1. p \in Nat /\ Start <= p
      BY RangeType
    <2>2. PICK x \in Region(p, o) : \E b \in live : x \in Region(b.ptr, OrderOf(b.n))
      BY <1>2, <1>3, <1>4, <1>5, <2>1, NoPlaceLeft
    <2>3. PICK b \in live : x \in Region(b.ptr, OrderOf(b.n))
      BY <2>2
    <2> DEFINE c == [ptr |-> b.ptr, order |-> OrderOf(b.n)]
    <2>4. c \in LiveBlocks
      BY DEF LiveBlocks
    <2>5. x \in Pages(c)
      BY <2>3 DEF Pages, Region
    <2>6. x \in p..(p + Pow2[o] - 1)
      BY <2>2 DEF Region
    <2> QED
      BY <2>4, <2>5, <2>6
  <1> QED
    BY <1>5 DEF o

-----------------------------------------------------------------------------
(* The invariant holds of every run of the page allocator, whatever the    *)
(* sequence of BuddyAllocator::alloc and dealloc calls.                    *)
THEOREM BuddyInvariant == BuddySpec => []BuddyInv
  BY BuddyInitInv, BuddyStepInv, PTL DEF BuddySpec

(* However alloc splits and dealloc merges, every page of the range is in  *)
(* exactly one block, on a free list or handed out, blocks are aligned to  *)
(* their size, and the counter is the pages handed out.                    *)
THEOREM PagesStayPartitioned == BuddySpec => []PagesPartitioned
  BY BuddyInvariant, InvPartitions, PTL

(* dealloc leaves no two free buddies below the largest order, and when    *)
(* all blocks are back the lists hold the blocks of insert_range again.    *)
THEOREM AlwaysFullyMerged == BuddySpec => []FullyMerged
  BY BuddyInvariant, InvMerged, PTL

(* When alloc panics, blocks handed out lie in every aligned place of the  *)
(* rounded-up size of the request that it refuses.                         *)
THEOREM PanicsOnlyWhenFull == BuddySpec => []RefusesOnlyWhenFull
  BY BuddyInvariant, InvRefuses, PTL

-----------------------------------------------------------------------------
(* The kernel heap.  First its arithmetic.                                 *)
LEMMA DivIs ==
    ASSUME NEW p \in Nat, NEW w \in Nat, w >= 1
    PROVE  p \div w \in Nat /\ p % w \in 0..(w - 1) /\ p = (p \div w) * w + (p % w)
  <1>1. p = (p \div w) * w + (p % w)
    BY Z3
  <1>2. p % w \in 0..(w - 1) /\ p \div w \in Int
    OBVIOUS
  <1> DEFINE d == p \div w
             r == p % w
  <1>3. d \in Int /\ r \in 0..(w - 1) /\ p = d * w + r
    BY <1>1, <1>2
  <1> HIDE DEF d, r
  <1>4. ASSUME d < 0 PROVE FALSE
    <2>1. PICK y \in Nat : d = -1 - y
      <3>1. (-1 - d) \in Nat /\ d = -1 - (-1 - d)
        BY <1>3, <1>4
      <3> QED
        BY <3>1
    <2>2. d * w = -w - y * w /\ y * w \in Nat
      BY <2>1
    <2> QED
      BY <1>3, <2>2
  <1>5. d \in Nat
    BY <1>3, <1>4
  <1> QED
    BY <1>1, <1>2, <1>5 DEF d

(* The quotient is the only number of whole w's below.                     *)
LEMMA DivUnique ==
    ASSUME NEW w \in Nat, w >= 1, NEW q \in Nat, NEW r \in Nat, r < w
    PROVE  (q * w + r) \div w = q
  <1> DEFINE p == q * w + r
             d == p \div w
             e == p % w
  <1>1. q * w \in Nat /\ p \in Nat
    OBVIOUS
  <1>2. d \in Nat /\ e \in 0..(w - 1) /\ p = d * w + e
    BY <1>1, DivIs
  <1> HIDE DEF d, e
  <1>3. d * w \in Nat
    BY <1>2
  <1>4. d * w < q * w + w /\ q * w < d * w + w
    BY <1>1, <1>2, <1>3
  <1>5. d <= q /\ q <= d
    BY <1>2, <1>4, CloseMultiples
  <1> QED
    BY <1>2, <1>5 DEF d

LEMMA RoundUpIs ==
    ASSUME NEW n \in Nat, NEW a \in Nat, a >= 1
    PROVE  RoundUp(n, a) \in Nat /\ RoundUp(n, a) % a = 0 /\ n <= RoundUp(n, a) /\ RoundUp(n, a) < n + a
  <1> DEFINE p == n + a - 1
             d == p \div a
             r == p % a
  <1>1. p \in Nat
    OBVIOUS
  <1>2. d \in Nat /\ r \in 0..(a - 1) /\ p = d * a + r
    BY <1>1, DivIs
  <1>3. RoundUp(n, a) = d * a
    BY DEF RoundUp
  <1> HIDE DEF d, r
  <1>4. d * a \in Nat
    BY <1>2
  <1>5. (d * a) % a = 0
    BY <1>2, <1>4, Multiples
  <1>6. n <= d * a /\ d * a < n + a
    BY <1>2, <1>4
  <1> QED
    BY <1>3, <1>4, <1>5, <1>6

LEMMA RoundUpMono ==
    ASSUME NEW m \in Nat, NEW n \in Nat, m <= n, NEW a \in Nat, a >= 1
    PROVE  RoundUp(m, a) <= RoundUp(n, a)
  <1> DEFINE x == RoundUp(m, a)
             y == RoundUp(n, a)
  <1>1. x \in Nat /\ x % a = 0 /\ x < m + a /\ y \in Nat /\ y % a = 0 /\ n <= y
    BY RoundUpIs
  <1> HIDE DEF x, y
  <1>2. ASSUME y < x PROVE FALSE
    <2>1. y + a <= x
      BY <1>1, <1>2, AlignedApart
    <2> QED
      BY <1>1, <2>1
  <1>3. x <= y
    BY <1>1, <1>2
  <1> QED
    BY <1>3 DEF x, y

LEMMA MaxOfTwo ==
    ASSUME NEW a \in Nat, NEW b \in Nat
    PROVE  Max({a, b}) \in {a, b} /\ Max({a, b}) >= a /\ Max({a, b}) >= b
  <1> DEFINE N == IF a >= b THEN a ELSE b
  <1>1. N \in Nat /\ {a, b} \subseteq 0..N /\ {a, b} # {}
    OBVIOUS
  <1> HIDE DEF N
  <1> QED
    BY <1>1, MaxOf

(* A power of two divides a larger one.                                    *)
LEMMA PowerDivides ==
    ASSUME NEW a \in Nat, NEW b \in Nat, NEW v, NEW w, v = Pow2[a], w = Pow2[b], v <= w
    PROVE  /\ v \in Nat /\ v >= 1 /\ w \in Nat /\ w >= 1
           /\ \A p \in Nat : p % w = 0 => p % v = 0
           /\ \A q \in Nat : (q * w) % v = 0
  <1>1. v \in Nat /\ v >= 1 /\ w \in Nat /\ w >= 1
    BY Pow2Type
  <1>2. a <= b
    <2>1. Pow2[b] < Pow2[a] => b < a
      BY Pow2Mono
    <2>2. b < a => 2 * Pow2[b] <= Pow2[a]
      BY Pow2Mono
    <2> QED
      BY <1>1, <2>2
  <1>3. \A p \in Nat : p % w = 0 => p % v = 0
    BY <1>2, AlignedSmaller DEF Aligned
  <1>4. ASSUME NEW q \in Nat PROVE (q * w) % v = 0
    <2>1. q * w \in Nat
      BY <1>1
    <2>2. (q * w) % w = 0
      BY <1>1, <2>1, Multiples
    <2> QED
      BY <1>3, <2>1, <2>2
  <1> QED
    BY <1>1, <1>3, <1>4

LEMMA PageSizeIs ==
    /\ PG_SIZE \in Nat /\ PG_SIZE >= 1
    /\ \E s \in Nat : PG_SIZE = Pow2[s]
    /\ MAX_BLKSIZE \in Nat /\ MAX_BLKSIZE <= PG_SIZE
    /\ ArenaSize \in Nat /\ DescSize \in Nat /\ ArenaSize <= DescSize
  <1>1. PICK s \in 0..PG_SIZE : PG_SIZE = Pow2[s]
    BY HeapAssumption
  <1>2. PG_SIZE \in Nat /\ s \in Nat
    BY HeapAssumption
  <1>3. PG_SIZE >= 1
    BY <1>1, <1>2, Pow2Type
  <1>4. MAX_BLKSIZE \in Nat /\ MAX_BLKSIZE <= PG_SIZE
    BY <1>2, DivIs DEF MAX_BLKSIZE
  <1> QED
    BY <1>1, <1>2, <1>3, <1>4, HeapAssumption

LEMMA BlockSizeIs ==
    ASSUME NEW b \in BlockSizes
    PROVE  /\ b \in Nat /\ b >= 1 /\ b <= PG_SIZE
           /\ \E k \in Nat : b = Pow2[k]
           /\ \A q \in Nat : (q * PG_SIZE) % b = 0
           /\ RoundUp(DescSize, b) + b <= PG_SIZE
  <1>1. PICK k \in 0..PG_SIZE : b = Pow2[k]
    BY DEF BlockSizes
  <1>2. k \in Nat
    BY PageSizeIs
  <1>3. b \in Nat /\ b >= 1
    BY <1>1, <1>2, Pow2Type
  <1>4. b <= PG_SIZE
    <2>1. b <= MAX_BLKSIZE
      <3>1. MinBlock \in Nat
        <4>1. PICK j \in 0..PG_SIZE : MinBlock = Pow2[j]
          BY HeapAssumption DEF BlockSizes
        <4>2. j \in Nat
          BY PageSizeIs
        <4> QED
          BY <4>1, <4>2, Pow2Type
      <3> QED
        BY <1>3, <3>1, PageSizeIs DEF BlockSizes
    <2> QED
      BY <1>3, <2>1, PageSizeIs
  <1>5. PICK s \in Nat : PG_SIZE = Pow2[s]
    BY PageSizeIs
  <1>6. \A q \in Nat : (q * PG_SIZE) % b = 0
    BY <1>1, <1>2, <1>4, <1>5, PowerDivides
  <1> QED
    BY <1>1, <1>2, <1>3, <1>4, <1>6, HeapAssumption

(* A slot for a block of b bytes in a page: aligned, after the header of   *)
(* an arena, and within the page.                                          *)
Slot(q, b, page) == /\ q \in Nat /\ q % b = 0
                    /\ page * PG_SIZE + ArenaSize <= q
                    /\ q + b <= page * PG_SIZE + PG_SIZE

LEMMA SlotPage ==
    ASSUME NEW page \in Nat, NEW b \in BlockSizes, NEW q, Slot(q, b, page)
    PROVE  PageOf(q) = page /\ PageOf(q + b - 1) = page
  <1>1. b \in Nat /\ b >= 1 /\ PG_SIZE \in Nat /\ PG_SIZE >= 1 /\ ArenaSize \in Nat
    BY BlockSizeIs, PageSizeIs
  <1> DEFINE base == page * PG_SIZE
  <1>2. base \in Nat /\ q \in Nat /\ base + ArenaSize <= q /\ q + b <= base + PG_SIZE
    BY <1>1 DEF Slot
  <1>3. ASSUME NEW r \in Nat, r < PG_SIZE PROVE (base + r) \div PG_SIZE = page
    BY <1>1, <1>3, DivUnique
  <1> HIDE DEF base
  <1>4. q - base \in Nat /\ q - base < PG_SIZE /\ base + (q - base) = q
    BY <1>1, <1>2
  <1>5. q + b - 1 - base \in Nat /\ q + b - 1 - base < PG_SIZE /\ base + (q + b - 1 - base) = q + b - 1
    BY <1>1, <1>2
  <1>6. q \div PG_SIZE = page
    BY <1>3, <1>4
  <1>7. (q + b - 1) \div PG_SIZE = page
    BY <1>3, <1>5
  <1> QED
    BY <1>6, <1>7 DEF PageOf

(* The blocks of a new arena are slots, and different.                     *)
LEMMA ArenaSlots ==
    ASSUME NEW page \in Nat, NEW b \in BlockSizes
    PROVE  /\ BlocksPerArena(b) \in Nat /\ BlocksPerArena(b) >= 1
           /\ \A idx \in 0..(BlocksPerArena(b) - 1) : Slot(get_block(page, b, idx), b, page)
           /\ \A i, j \in 0..(BlocksPerArena(b) - 1) :
                 get_block(page, b, i) = get_block(page, b, j) => i = j
  <1> DEFINE D == RoundUp(DescSize, b)
             A == RoundUp(ArenaSize, b)
             e == PG_SIZE - D
             cnt == BlocksPerArena(b)
             base == page * PG_SIZE
  <1>1. b \in Nat /\ b >= 1 /\ PG_SIZE \in Nat /\ ArenaSize \in Nat /\ DescSize \in Nat
        /\ ArenaSize <= DescSize /\ D + b <= PG_SIZE /\ base % b = 0
    BY BlockSizeIs, PageSizeIs
  <1>2. D \in Nat /\ A \in Nat /\ A % b = 0 /\ ArenaSize <= A /\ A <= D
    BY <1>1, RoundUpIs, RoundUpMono
  <1>3. base \in Nat
    BY <1>1
  <1>4. cnt = e \div b
    BY DEF BlocksPerArena
  <1>5. \A idx : get_block(page, b, idx) = base + A + idx * b
    BY DEF get_block
  <1> HIDE DEF D, A, cnt, base
  <1>6. e \in Nat /\ e >= b
    BY <1>1, <1>2
  <1> HIDE DEF e
  <1>7. cnt \in Nat /\ \E r \in 0..(b - 1) : e = cnt * b + r
    <2> DEFINE r == e % b
    <2>1. e \div b \in Nat /\ r \in 0..(b - 1) /\ e = (e \div b) * b + r
      BY <1>1, <1>6, DivIs
    <2> HIDE DEF r
    <2>2. cnt \in Nat /\ e = cnt * b + r
      BY <1>4, <2>1, Zenon
    <2> QED
      BY <2>1, <2>2
  <1>8. cnt * b <= e /\ e < cnt * b + b /\ cnt * b \in Nat
    BY <1>1, <1>6, <1>7
  <1>9. cnt >= 1
    <2> SUFFICES ASSUME cnt = 0 PROVE FALSE
      BY <1>7
    <2>1. cnt * b = 0
      BY <1>1
    <2> QED
      BY <1>1, <1>6, <1>8, <2>1
  <1>10. ASSUME NEW idx \in 0..(cnt - 1) PROVE Slot(get_block(page, b, idx), b, page)
    <2>1. idx \in Nat /\ idx * b \in Nat
      BY <1>1, <1>7
    <2>2. idx * b + b <= cnt * b
      <3>1. PICK y \in Nat : cnt = (idx + 1) + y
        <4>1. cnt - (idx + 1) \in Nat /\ cnt = (idx + 1) + (cnt - (idx + 1))
          BY <1>7, <2>1
        <4> QED
          BY <4>1
      <3>2. cnt * b = (idx * b + b) + y * b /\ y * b \in Nat
        BY <1>1, <2>1, <3>1
      <3> QED
        BY <1>1, <2>1, <3>2
    <2> DEFINE q == base + A + idx * b
    <2>3. q % b = 0
      <3>1. PICK i \in Nat : A = i * b
        BY <1>1, <1>2, Multiples
      <3>2. (base + i * b) % b = 0
        <4>1. base % b = 0
          BY <1>1
        <4> QED
          BY <1>1, <1>3, <4>1, AlignedSums
      <3>3. base + A \in Nat /\ (base + A) % b = 0
        <4>1. base + A \in Nat
          BY <1>2, <1>3
        <4>2. (base + A) % b = 0
          BY <3>1, <3>2, Zenon
        <4> QED
          BY <4>1, <4>2
      <3> QED
        BY <1>1, <2>1, <3>3, AlignedSums
    <2>4. q \in Nat /\ base + ArenaSize <= q
      BY <1>1, <1>2, <1>3, <2>1
    <2>5. q + b <= base + PG_SIZE
      <3>1. e = PG_SIZE - D
        BY DEF e
      <3> QED
        BY <1>1, <1>2, <1>3, <1>8, <2>1, <2>2, <3>1
    <2> QED
      BY <1>5, <2>3, <2>4, <2>5 DEF Slot, base
  <1>11. ASSUME NEW i \in 0..(cnt - 1), NEW j \in 0..(cnt - 1),
                get_block(page, b, i) = get_block(page, b, j)
         PROVE  i = j
    <2>1. i \in Nat /\ j \in Nat /\ i * b \in Nat /\ j * b \in Nat
      BY <1>1, <1>7
    <2>2. i * b = j * b
      BY <1>2, <1>3, <1>5, <1>11, <2>1
    <2>3. i <= j /\ j <= i
      BY <1>1, <2>1, <2>2, CloseMultiples
    <2> QED
      BY <2>1, <2>3
  <1> QED
    BY <1>7, <1>9, <1>10, <1>11 DEF cnt

LEMMA LayoutIs ==
    ASSUME NEW l \in Layouts
    PROVE  /\ l.size \in Nat /\ l.align \in Nat /\ l.align >= 1
           /\ SizeOf(l) \in Nat /\ SizeOf(l) >= l.size /\ SizeOf(l) >= l.align
           /\ \E k \in Nat : SizeOf(l) = Pow2[k]
           /\ \A q \in Nat : (q * PG_SIZE) % l.align = 0
           /\ PagesOf(l) \in Nat /\ PagesOf(l) * PG_SIZE >= l.size
  <1>1. l.size \in Nat /\ l.align \in 1..PG_SIZE
    BY HeapAssumption
  <1>2. PICK k \in 0..PG_SIZE : l.align = Pow2[k]
    BY HeapAssumption
  <1>3. PICK s \in Nat : PG_SIZE = Pow2[s]
    BY PageSizeIs
  <1>4. k \in Nat /\ PG_SIZE \in Nat /\ PG_SIZE >= 1 /\ l.align \in Nat /\ l.align >= 1 /\ l.align <= PG_SIZE
    BY <1>1, PageSizeIs
  <1>5. \A q \in Nat : (q * PG_SIZE) % l.align = 0
    BY <1>2, <1>3, <1>4, PowerDivides
  <1> DEFINE o == OrderOf(l.size)
  <1>6. o \in Nat /\ Pow2[o] \in Nat /\ Pow2[o] >= l.size
    BY <1>1, OrderOfIs, Pow2Type
  <1>7. SizeOf(l) = Max({Pow2[o], l.align})
    BY DEF SizeOf
  <1> HIDE DEF o
  <1>8. SizeOf(l) \in {Pow2[o], l.align} /\ SizeOf(l) >= Pow2[o] /\ SizeOf(l) >= l.align
    BY <1>4, <1>6, <1>7, MaxOfTwo
  <1>9. SizeOf(l) \in Nat /\ SizeOf(l) >= l.size /\ \E j \in Nat : SizeOf(l) = Pow2[j]
    BY <1>1, <1>2, <1>4, <1>6, <1>8
  <1> DEFINE m == RoundUp(l.size, PG_SIZE)
             c == l.size + PG_SIZE - 1
  <1>10. c \in Nat
    BY <1>1, <1>4
  <1>11. PagesOf(l) = c \div PG_SIZE /\ PagesOf(l) \in Nat
    BY <1>4, <1>10, DivIs DEF PagesOf
  <1>12. m = PagesOf(l) * PG_SIZE
    BY DEF PagesOf, RoundUp
  <1>13. m >= l.size
    BY <1>1, <1>4, RoundUpIs
  <1> QED
    BY <1>1, <1>4, <1>5, <1>8, <1>9, <1>11, <1>12, <1>13

(* The size class of a small request.                                      *)
LEMMA ClassIs ==
    ASSUME NEW l \in Layouts, Small(l)
    PROVE  /\ ClassOf(l) \in BlockSizes /\ ClassOf(l) >= l.size
           /\ \A p \in Nat : p % ClassOf(l) = 0 => p % l.align = 0
  <1>1. l.size \in Nat /\ SizeOf(l) \in Nat /\ SizeOf(l) >= l.size /\ SizeOf(l) >= l.align
        /\ l.align \in Nat /\ l.align >= 1
    BY LayoutIs
  <1>2. PICK k \in Nat : SizeOf(l) = Pow2[k]
    BY LayoutIs
  <1>3. MinBlock \in BlockSizes /\ MinBlock \in Nat
    BY HeapAssumption, BlockSizeIs
  <1>4. ClassOf(l) \in {SizeOf(l), MinBlock} /\ ClassOf(l) >= SizeOf(l) /\ ClassOf(l) >= MinBlock
    BY <1>1, <1>3, MaxOfTwo DEF ClassOf
  <1>5. SizeOf(l) <= MAX_BLKSIZE /\ MAX_BLKSIZE <= PG_SIZE /\ MAX_BLKSIZE \in Nat /\ PG_SIZE \in Nat
    BY PageSizeIs DEF Small
  <1>6. ClassOf(l) \in BlockSizes
    <2>1. CASE ClassOf(l) = MinBlock
      BY <1>3, <2>1
    <2>2. CASE ClassOf(l) = SizeOf(l)
      <3>1. k <= Pow2[k] /\ Pow2[k] \in Nat
        BY Pow2Type
      <3>2. k \in 0..PG_SIZE
        BY <1>1, <1>2, <1>5, <3>1
      <3>3. SizeOf(l) \in MinBlock..MAX_BLKSIZE
        BY <1>1, <1>3, <1>4, <1>5, <2>2
      <3> QED
        BY <1>2, <2>2, <3>2, <3>3 DEF BlockSizes
    <2> QED
      BY <1>4, <2>1, <2>2
  <1>7. PICK j \in Nat : ClassOf(l) = Pow2[j]
    BY <1>6, BlockSizeIs
  <1>8. ClassOf(l) \in Nat
    BY <1>6, BlockSizeIs
  <1>9. l.align <= ClassOf(l) /\ ClassOf(l) >= l.size
    BY <1>1, <1>4, <1>8
  <1>10. PICK a \in Nat : l.align = Pow2[a]
    <2>1. PICK a \in 0..PG_SIZE : l.align = Pow2[a]
      BY HeapAssumption
    <2>2. a \in Nat
      BY <1>5
    <2> QED
      BY <2>1, <2>2
  <1>11. \A p \in Nat : p % ClassOf(l) = 0 => p % l.align = 0
    BY <1>7, <1>9, <1>10, PowerDivides
  <1> QED
    BY <1>6, <1>9, <1>11

-----------------------------------------------------------------------------
(* What the heap keeps: of the arenas the descriptor of each page (A), of  *)
(* the descriptors the blocks on each list (F), the blocks handed out (B), *)
(* and the page allocator's blocks (L).                                    *)
InSlot(A, q, b) == \E p \in DOMAIN A : A[p] = b /\ Slot(q, b, p)

ArenaPages(A, L)  == \A p \in DOMAIN A : p \in Nat /\ A[p] \in BlockSizes /\ [ptr |-> p, n |-> 1] \in L
FreeInSlots(A, F) == \A b \in BlockSizes : \A q \in F[b] : InSlot(A, q, b)
BlockType(B)      == \A x \in B : /\ x = [ptr |-> x.ptr, layout |-> x.layout]
                                  /\ x.ptr \in Nat /\ x.layout \in Layouts
SmallInSlots(A, F, B) ==
    \A x \in B : Small(x.layout) =>
        InSlot(A, x.ptr, ClassOf(x.layout)) /\ x.ptr \notin F[ClassOf(x.layout)]
SmallOnce(B) == \A x, y \in B : Small(x.layout) /\ Small(y.layout) /\ x.ptr = y.ptr => x = y
LargeOnPages(A, B, L) ==
    \A x \in B : ~Small(x.layout) =>
        /\ PageOf(x.ptr) \notin DOMAIN A /\ x.ptr = PageOf(x.ptr) * PG_SIZE
        /\ [ptr |-> PageOf(x.ptr), n |-> PagesOf(x.layout)] \in L
LargeOnce(B) == \A x, y \in B :
    ~Small(x.layout) /\ ~Small(y.layout) /\ PageOf(x.ptr) = PageOf(y.ptr) => x = y

Shape(A, F, B, L) == /\ ArenaPages(A, L) /\ FreeInSlots(A, F) /\ BlockType(B)
                     /\ SmallInSlots(A, F, B) /\ SmallOnce(B)
                     /\ LargeOnPages(A, B, L) /\ LargeOnce(B)

(* A slot tells its page, and so the size of its block.                    *)
LEMMA SlotClass ==
    ASSUME NEW A, NEW L, ArenaPages(A, L), NEW q, NEW b \in BlockSizes, InSlot(A, q, b)
    PROVE  /\ PageOf(q) \in DOMAIN A /\ PageOf(q) \in Nat /\ A[PageOf(q)] = b /\ Slot(q, b, PageOf(q))
           /\ PageOf(q + b - 1) = PageOf(q)
  <1>1. PICK p \in DOMAIN A : A[p] = b /\ Slot(q, b, p)
    BY DEF InSlot
  <1>2. p \in Nat
    BY DEF ArenaPages
  <1>3. PageOf(q) = p /\ PageOf(q + b - 1) = p
    BY <1>1, <1>2, SlotPage
  <1> QED
    BY <1>1, <1>2, <1>3

(* A slot is taken from a list.                                            *)
LEMMA TakeSlot ==
    ASSUME NEW A, NEW F, NEW B, NEW L, Shape(A, F, B, L), NEW l \in Layouts, Small(l),
           NEW q \in F[ClassOf(l)], q \in Nat, NEW G,
           \A c \in BlockSizes : G[c] = IF c = ClassOf(l) THEN F[c] \ {q} ELSE F[c]
    PROVE  Shape(A, G, B \cup {[ptr |-> q, layout |-> l]}, L)
  <1> DEFINE b == ClassOf(l)
             x == [ptr |-> q, layout |-> l]
             C == B \cup {x}
  <1>1. b \in BlockSizes
    BY ClassIs
  <1>2. x.ptr = q /\ x.layout = l
    OBVIOUS
  <1>3. \A c \in BlockSizes : G[c] \subseteq F[c]
    OBVIOUS
  <1>4. InSlot(A, q, b) /\ q \notin G[b]
    BY <1>1 DEF Shape, FreeInSlots
  <1>5. \A y \in B : Small(y.layout) => y.layout \in Layouts /\ ClassOf(y.layout) \in BlockSizes
    BY ClassIs DEF Shape, BlockType
  <1>6. \A y \in B : Small(y.layout) => y.ptr # q
    <2> SUFFICES ASSUME NEW y \in B, Small(y.layout), y.ptr = q PROVE FALSE
      OBVIOUS
    <2> DEFINE c == ClassOf(y.layout)
    <2>1. c \in BlockSizes /\ InSlot(A, q, c) /\ q \notin F[c]
      BY <1>5 DEF Shape, SmallInSlots
    <2>2. A[PageOf(q)] = c /\ A[PageOf(q)] = b
      BY <1>1, <1>4, <2>1, SlotClass DEF Shape
    <2> QED
      BY <2>1, <2>2
  <1>7. FreeInSlots(A, G)
    BY <1>3 DEF Shape, FreeInSlots
  <1>8. BlockType(C)
    BY <1>2 DEF Shape, BlockType
  <1> HIDE DEF x
  <1>9. SmallInSlots(A, G, C)
    <2> SUFFICES ASSUME NEW y \in C, Small(y.layout)
                 PROVE  InSlot(A, y.ptr, ClassOf(y.layout)) /\ y.ptr \notin G[ClassOf(y.layout)]
      BY DEF SmallInSlots
    <2>1. CASE y = x
      BY <1>2, <1>4, <2>1
    <2>2. CASE y \in B
      BY <1>3, <1>5, <2>2 DEF Shape, SmallInSlots
    <2> QED
      BY <2>1, <2>2
  <1>10. SmallOnce(C)
    BY <1>2, <1>6 DEF Shape, SmallOnce
  <1>11. LargeOnPages(A, C, L) /\ LargeOnce(C)
    BY <1>2 DEF Shape, LargeOnPages, LargeOnce
  <1> QED
    BY <1>7, <1>8, <1>9, <1>10, <1>11 DEF Shape, x

(* A page becomes an arena of slots for blocks of b bytes.                 *)
Carved(A, D, F, G, page, b, S) ==
    /\ \A q \in S : Slot(q, b, page)
    /\ DOMAIN D = DOMAIN A \cup {page} /\ \A p \in DOMAIN D : D[p] = IF p = page THEN b ELSE A[p]
    /\ \A c \in BlockSizes : G[c] = IF c = b THEN F[c] \cup S ELSE F[c]

LEMMA NewArena ==
    ASSUME NEW A, NEW F, NEW B, NEW L, Shape(A, F, B, L), NEW b \in BlockSizes,
           NEW page \in Nat, \A c \in L : c.ptr # page,
           NEW S, NEW D, NEW G, Carved(A, D, F, G, page, b, S)
    PROVE  Shape(D, G, B, L \cup {[ptr |-> page, n |-> 1]})
  <1> USE DEF Carved
  <1> DEFINE M == L \cup {[ptr |-> page, n |-> 1]}
  <1>1. page \notin DOMAIN A
    <2> SUFFICES ASSUME page \in DOMAIN A PROVE FALSE
      OBVIOUS
    <2>1. [ptr |-> page, n |-> 1] \in L
      BY DEF Shape, ArenaPages
    <2>2. [ptr |-> page, n |-> 1].ptr = page
      OBVIOUS
    <2> QED
      BY <2>1, <2>2
  <1>2. \A p \in DOMAIN A : p \in DOMAIN D /\ D[p] = A[p]
    BY <1>1
  <1>3. \A q, c : InSlot(A, q, c) => InSlot(D, q, c)
    BY <1>2 DEF InSlot
  <1>4. \A q \in S : InSlot(D, q, b)
    BY DEF InSlot
  <1>5. ArenaPages(D, M)
    BY DEF Shape, ArenaPages
  <1>6. FreeInSlots(D, G)
    BY <1>3, <1>4 DEF Shape, FreeInSlots
  <1>7. SmallInSlots(D, G, B)
    <2> SUFFICES ASSUME NEW x \in B, Small(x.layout)
                 PROVE  InSlot(D, x.ptr, ClassOf(x.layout)) /\ x.ptr \notin G[ClassOf(x.layout)]
      BY DEF SmallInSlots
    <2> DEFINE c == ClassOf(x.layout)
    <2>1. c \in BlockSizes
      BY ClassIs DEF Shape, BlockType
    <2>2. InSlot(A, x.ptr, c) /\ x.ptr \notin F[c]
      BY DEF Shape, SmallInSlots
    <2>3. PageOf(x.ptr) \in DOMAIN A
      BY <2>1, <2>2, SlotClass DEF Shape
    <2>4. x.ptr \notin S
      BY <1>1, <2>3, SlotPage
    <2> HIDE DEF c
    <2> QED
      BY <1>3, <2>1, <2>2, <2>4 DEF c
  <1>8. LargeOnPages(D, B, M)
    <2> SUFFICES ASSUME NEW x \in B, ~Small(x.layout)
                 PROVE  /\ PageOf(x.ptr) \notin DOMAIN D /\ x.ptr = PageOf(x.ptr) * PG_SIZE
                        /\ [ptr |-> PageOf(x.ptr), n |-> PagesOf(x.layout)] \in M
      BY DEF LargeOnPages
    <2> DEFINE c == [ptr |-> PageOf(x.ptr), n |-> PagesOf(x.layout)]
    <2>1. PageOf(x.ptr) \notin DOMAIN A /\ x.ptr = PageOf(x.ptr) * PG_SIZE /\ c \in L
      BY DEF Shape, LargeOnPages
    <2>2. PageOf(x.ptr) # page
      <3>1. c.ptr = PageOf(x.ptr)
        OBVIOUS
      <3> QED
        BY <2>1, <3>1
    <2> QED
      BY <2>1, <2>2
  <1> QED
    BY <1>5, <1>6, <1>7, <1>8 DEF Shape

(* Pages are handed out for a large request.                               *)
LEMMA NewLarge ==
    ASSUME NEW A, NEW F, NEW B, NEW L, Shape(A, F, B, L), NEW l \in Layouts, ~Small(l),
           NEW page \in Nat, \A c \in L : c.ptr # page
    PROVE  Shape(A, F, B \cup {[ptr |-> page * PG_SIZE, layout |-> l]},
                 L \cup {[ptr |-> page, n |-> PagesOf(l)]})
  <1> DEFINE x == [ptr |-> page * PG_SIZE, layout |-> l]
             C == B \cup {x}
             c == [ptr |-> page, n |-> PagesOf(l)]
             M == L \cup {c}
  <1>1. PG_SIZE \in Nat /\ PG_SIZE >= 1
    BY PageSizeIs
  <1>2. page * PG_SIZE \in Nat
    BY <1>1
  <1>3. x.ptr = page * PG_SIZE /\ x.layout = l /\ x = [ptr |-> x.ptr, layout |-> x.layout]
    OBVIOUS
  <1>4. PageOf(x.ptr) = page
    <2>1. (page * PG_SIZE + 0) \div PG_SIZE = page
      BY <1>1, DivUnique
    <2>2. page * PG_SIZE + 0 = page * PG_SIZE
      BY <1>2
    <2> QED
      BY <1>3, <2>1, <2>2 DEF PageOf
  <1>5. page \notin DOMAIN A
    <2> SUFFICES ASSUME page \in DOMAIN A PROVE FALSE
      OBVIOUS
    <2>1. [ptr |-> page, n |-> 1] \in L
      BY DEF Shape, ArenaPages
    <2>2. [ptr |-> page, n |-> 1].ptr = page
      OBVIOUS
    <2> QED
      BY <2>1, <2>2
  <1>6. \A y \in B : ~Small(y.layout) => PageOf(y.ptr) # page
    <2> SUFFICES ASSUME NEW y \in B, ~Small(y.layout) PROVE PageOf(y.ptr) # page
      OBVIOUS
    <2> DEFINE d == [ptr |-> PageOf(y.ptr), n |-> PagesOf(y.layout)]
    <2>1. d \in L /\ d.ptr = PageOf(y.ptr)
      BY DEF Shape, LargeOnPages
    <2> QED
      BY <2>1
  <1> HIDE DEF x
  <1>7. ArenaPages(A, M)
    BY DEF Shape, ArenaPages
  <1>8. BlockType(C)
    BY <1>2, <1>3 DEF Shape, BlockType
  <1>9. SmallInSlots(A, F, C) /\ SmallOnce(C)
    BY <1>3 DEF Shape, SmallInSlots, SmallOnce
  <1>10. LargeOnPages(A, C, M)
    <2> SUFFICES ASSUME NEW y \in C, ~Small(y.layout)
                 PROVE  /\ PageOf(y.ptr) \notin DOMAIN A /\ y.ptr = PageOf(y.ptr) * PG_SIZE
                        /\ [ptr |-> PageOf(y.ptr), n |-> PagesOf(y.layout)] \in M
      BY DEF LargeOnPages
    <2>1. CASE y = x
      BY <1>3, <1>4, <1>5, <2>1
    <2>2. CASE y \in B
      BY <2>2 DEF Shape, LargeOnPages
    <2> QED
      BY <2>1, <2>2
  <1>11. LargeOnce(C)
    BY <1>4, <1>6 DEF Shape, LargeOnce
  <1> QED
    BY <1>7, <1>8, <1>9, <1>10, <1>11 DEF Shape, x

(* A small block goes back to its list.                                    *)
LEMMA GiveSlot ==
    ASSUME NEW A, NEW F, NEW B, NEW L, Shape(A, F, B, L), NEW x \in B, Small(x.layout), NEW G,
           \A c \in BlockSizes : G[c] = IF c = ClassOf(x.layout) THEN F[c] \cup {x.ptr} ELSE F[c]
    PROVE  Shape(A, G, B \ {x}, L)
  <1> DEFINE C == B \ {x}
  <1>1. InSlot(A, x.ptr, ClassOf(x.layout))
    BY DEF Shape, SmallInSlots
  <1>2. FreeInSlots(A, G)
    BY <1>1 DEF Shape, FreeInSlots
  <1>3. SmallInSlots(A, G, C)
    <2> SUFFICES ASSUME NEW y \in C, Small(y.layout)
                 PROVE  InSlot(A, y.ptr, ClassOf(y.layout)) /\ y.ptr \notin G[ClassOf(y.layout)]
      BY DEF SmallInSlots
    <2>1. ClassOf(y.layout) \in BlockSizes
      BY ClassIs DEF Shape, BlockType
    <2>2. y.ptr # x.ptr
      BY DEF Shape, SmallOnce
    <2>3. InSlot(A, y.ptr, ClassOf(y.layout)) /\ y.ptr \notin F[ClassOf(y.layout)]
      BY DEF Shape, SmallInSlots
    <2> QED
      BY <2>1, <2>2, <2>3
  <1>4. BlockType(C) /\ SmallOnce(C) /\ LargeOnPages(A, C, L) /\ LargeOnce(C)
    BY DEF Shape, BlockType, SmallOnce, LargeOnPages, LargeOnce
  <1> QED
    BY <1>2, <1>3, <1>4 DEF Shape

(* The pages of a large block go back.                                     *)
LEMMA GiveLarge ==
    ASSUME NEW A, NEW F, NEW B, NEW L, Shape(A, F, B, L), NEW x \in B, ~Small(x.layout)
    PROVE  Shape(A, F, B \ {x}, L \ {[ptr |-> PageOf(x.ptr), n |-> PagesOf(x.layout)]})
  <1> DEFINE C == B \ {x}
             c == [ptr |-> PageOf(x.ptr), n |-> PagesOf(x.layout)]
             M == L \ {c}
  <1>1. PageOf(x.ptr) \notin DOMAIN A
    BY DEF Shape, LargeOnPages
  <1>2. ArenaPages(A, M)
    <2> SUFFICES ASSUME NEW p \in DOMAIN A
                 PROVE  p \in Nat /\ A[p] \in BlockSizes /\ [ptr |-> p, n |-> 1] \in M
      BY DEF ArenaPages
    <2>1. p \in Nat /\ A[p] \in BlockSizes /\ [ptr |-> p, n |-> 1] \in L
      BY DEF Shape, ArenaPages
    <2>2. p # PageOf(x.ptr)
      BY <1>1
    <2>3. [ptr |-> p, n |-> 1] # c
      BY <2>2
    <2> QED
      BY <2>1, <2>3
  <1>3. LargeOnPages(A, C, M)
    <2> SUFFICES ASSUME NEW y \in C, ~Small(y.layout)
                 PROVE  /\ PageOf(y.ptr) \notin DOMAIN A /\ y.ptr = PageOf(y.ptr) * PG_SIZE
                        /\ [ptr |-> PageOf(y.ptr), n |-> PagesOf(y.layout)] \in M
      BY DEF LargeOnPages
    <2>1. PageOf(y.ptr) # PageOf(x.ptr)
      BY DEF Shape, LargeOnce
    <2>2. [ptr |-> PageOf(y.ptr), n |-> PagesOf(y.layout)] # c
      BY <2>1
    <2>3. /\ PageOf(y.ptr) \notin DOMAIN A /\ y.ptr = PageOf(y.ptr) * PG_SIZE
          /\ [ptr |-> PageOf(y.ptr), n |-> PagesOf(y.layout)] \in L
      BY DEF Shape, LargeOnPages
    <2> QED
      BY <2>2, <2>3
  <1>4. BlockType(C) /\ SmallInSlots(A, F, C) /\ SmallOnce(C) /\ LargeOnce(C)
    BY DEF Shape, BlockType, SmallInSlots, SmallOnce, LargeOnce
  <1> QED
    BY <1>2, <1>3, <1>4 DEF Shape

-----------------------------------------------------------------------------
(* The inductive invariant of the heap: the page allocator's, and arenas,  *)
(* lists and blocks as above.                                              *)
Descs(d)    == /\ DOMAIN d = BlockSizes
               /\ \A b \in BlockSizes : d[b].free_list \in Seq(Nat) /\ IsInjective(d[b].free_list)
Arenas(ar)  == ar \in [DOMAIN ar -> [desc : BlockSizes, free_cnt : Int]]
DescOf(ar)  == [p \in DOMAIN ar |-> ar[p].desc]
OnLists(d)  == [b \in BlockSizes |-> ToSet(d[b].free_list)]

HeapInv == /\ BuddyInv /\ Descs(descs) /\ Arenas(arenas)
           /\ Shape(DescOf(arenas), OnLists(descs), blocks, live)

LEMMA HeapInitInv == HeapInit => HeapInv
  <1> SUFFICES ASSUME HeapInit PROVE HeapInv
    OBVIOUS
  <1>1. BuddyInv
    BY BuddyInitInv DEF HeapInit
  <1>2. DOMAIN descs = BlockSizes /\ \A b \in BlockSizes : descs[b].free_list = <<>>
    BY DEF HeapInit
  <1>3. <<>> \in Seq(Nat) /\ IsInjective(<<>>) /\ ToSet(<<>>) = {}
    BY DEF IsInjective, ToSet
  <1>4. Descs(descs)
    BY <1>2, <1>3 DEF Descs
  <1>5. DOMAIN arenas = {} /\ blocks = {}
    BY DEF HeapInit
  <1>6. Arenas(arenas)
    <2>1. arenas \in Seq(Nat)
      BY <1>3 DEF HeapInit
    <2>2. arenas = [p \in DOMAIN arenas |-> arenas[p]]
      BY <2>1
    <2> QED
      BY <1>5, <2>2 DEF Arenas
  <1>7. DOMAIN DescOf(arenas) = {}
    BY <1>5 DEF DescOf
  <1>8. \A b \in BlockSizes : OnLists(descs)[b] = {}
    BY <1>2, <1>3 DEF OnLists
  <1>9. Shape(DescOf(arenas), OnLists(descs), blocks, live)
    BY <1>5, <1>7, <1>8 DEF Shape, ArenaPages, FreeInSlots, BlockType, SmallInSlots, SmallOnce,
                            LargeOnPages, LargeOnce
  <1> QED
    BY <1>1, <1>4, <1>6, <1>9 DEF HeapInv

(* A change of the counter of an arena.                                    *)
Recounted(ar, br, p, v) ==
    /\ DOMAIN br = DOMAIN ar /\ br = [q \in DOMAIN ar |-> br[q]]
    /\ \A q \in DOMAIN ar : br[q] = IF q = p THEN [ar[q] EXCEPT !.free_cnt = v] ELSE ar[q]

LEMMA Recount ==
    ASSUME NEW ar, Arenas(ar), NEW p \in DOMAIN ar, NEW v \in Int, NEW br, Recounted(ar, br, p, v)
    PROVE  Arenas(br) /\ DescOf(br) = DescOf(ar)
  <1> USE DEF Recounted
  <1>1. \A q \in DOMAIN ar : br[q] \in [desc : BlockSizes, free_cnt : Int] /\ br[q].desc = ar[q].desc
    BY DEF Arenas
  <1>2. Arenas(br)
    BY <1>1 DEF Arenas
  <1>3. DescOf(br) = DescOf(ar)
    BY <1>1 DEF DescOf
  <1> QED
    BY <1>2, <1>3

(* The end of Desc::alloc: the head of the list is handed out.             *)
LEMMA TakeBlockInv ==
    ASSUME NEW l \in Layouts, Small(l), NEW list \in Seq(Nat), list # <<>>, IsInjective(list),
           NEW ar, Arenas(ar), NEW fr, NEW tot, NEW L, NEW F,
           Shape(DescOf(ar), F, blocks, L), F[ClassOf(l)] = ToSet(list),
           \A c \in BlockSizes : c # ClassOf(l) => F[c] = ToSet(descs[c].free_list),
           Descs(descs), TakeBlock(l, list, ar, fr, tot)
    PROVE  /\ Descs(descs') /\ Arenas(arenas')
           /\ Shape(DescOf(arenas'), OnLists(descs'), blocks', L)
  <1> DEFINE b   == ClassOf(l)
             ptr == Head(list)
  <1>1. b \in BlockSizes
    BY ClassIs
  <1>2. /\ Tail(list) \in Seq(Nat) /\ ptr \in ToSet(list) /\ ptr \in Nat
        /\ ToSet(Tail(list)) = ToSet(list) \ {ptr} /\ IsInjective(Tail(list))
    <2>1. ptr \in Nat
      OBVIOUS
    <2> QED
      BY <2>1, TailIs
  <1>3. /\ DOMAIN descs' = BlockSizes
        /\ descs'[b].free_list = Tail(list)
        /\ \A c \in BlockSizes : c # b => descs'[c] = descs[c]
    BY <1>1 DEF TakeBlock, Descs
  <1>4. arenas' = [ar EXCEPT ![PageOf(ptr)].free_cnt = @ - 1]
    BY DEF TakeBlock
  <1>5. blocks' = blocks \cup {[ptr |-> ptr, layout |-> l]}
    BY DEF TakeBlock
  <1> HIDE DEF b, ptr
  <1>6. Descs(descs')
    BY <1>2, <1>3 DEF Descs
  <1>7. PageOf(ptr) \in DOMAIN ar
    <2>1. InSlot(DescOf(ar), ptr, b)
      BY <1>1, <1>2 DEF Shape, FreeInSlots, b
    <2>2. PageOf(ptr) \in DOMAIN DescOf(ar)
      BY <1>1, <2>1, SlotClass DEF Shape
    <2> QED
      BY <2>2 DEF DescOf
  <1>8. Arenas(arenas') /\ DescOf(arenas') = DescOf(ar)
    <2> DEFINE v == ar[PageOf(ptr)].free_cnt - 1
               p == PageOf(ptr)
    <2>1. v \in Int /\ p \in DOMAIN ar
      BY <1>7 DEF Arenas
    <2>2. Recounted(ar, arenas', p, v)
      BY <1>4 DEF Recounted
    <2> HIDE DEF v, p
    <2> QED
      BY <2>1, <2>2, Recount
  <1>9. \A c \in BlockSizes : OnLists(descs')[c] = IF c = ClassOf(l) THEN F[c] \ {ptr} ELSE F[c]
    BY <1>1, <1>2, <1>3 DEF OnLists, b
  <1>10. Shape(DescOf(ar), OnLists(descs'), blocks', L)
    <2>1. ptr \in F[ClassOf(l)]
      BY <1>2
    <2> QED
      BY <1>2, <1>5, <1>9, <2>1, TakeSlot
  <1> QED
    BY <1>6, <1>8, <1>10

LEMMA AllocBlockInv ==
    ASSUME HeapInv, NEW l \in Layouts, AllocBlock(l)
    PROVE  HeapInv'
  <1> DEFINE list == descs[ClassOf(l)].free_list
             F    == OnLists(descs)
  <1>1. Small(l) /\ list # <<>>
        /\ TakeBlock(l, list, arenas, descs[ClassOf(l)].free, descs[ClassOf(l)].total)
        /\ UNCHANGED buddyVars
    BY DEF AllocBlock
  <1>2. ClassOf(l) \in BlockSizes
    BY <1>1, ClassIs
  <1>3. list \in Seq(Nat) /\ IsInjective(list)
    BY <1>2 DEF HeapInv, Descs
  <1>4. F[ClassOf(l)] = ToSet(list) /\ \A c \in BlockSizes : F[c] = ToSet(descs[c].free_list)
    BY <1>2 DEF OnLists
  <1>5. Descs(descs) /\ Arenas(arenas) /\ Shape(DescOf(arenas), F, blocks, live)
    BY DEF HeapInv
  <1> HIDE DEF list, F
  <1>6. /\ Descs(descs') /\ Arenas(arenas')
        /\ Shape(DescOf(arenas'), OnLists(descs'), blocks', live)
    BY <1>1, <1>3, <1>4, <1>5, TakeBlockInv
  <1>7. BuddyInv' /\ live' = live
    BY <1>1, BuddyStepInv DEF HeapInv, buddyVars
  <1> QED
    BY <1>6, <1>7 DEF HeapInv

(* What alloc hands out does not begin where a block in use begins.        *)
LEMMA GrantedIs ==
    ASSUME BuddyInv, NEW n \in Requests, Alloc(n)
    PROVE  /\ Granted(n) \in Nat /\ \A c \in live : c.ptr # Granted(n)
           /\ live' = live \cup {[ptr |-> Granted(n), n |-> n]}
  <1> DEFINE i  == Min(Usable(n))
             p  == Granted(n)
             F  == SetsOf(free_lists)
  <1>1. n <= Pow2[MAX_ORDER] /\ Usable(n) # {}
    BY DEF Alloc
  <1>2. n \in Sizes
    BY <1>1 DEF Sizes
  <1>3. OrderOf(n) \in Nat
    BY <1>2, SizesType
  <1>4. i \in Usable(n)
    <2>1. Usable(n) \subseteq Nat
      BY <1>3, RangeType DEF Usable
    <2> QED
      BY <1>1, <2>1, MinOf
  <1>5. i \in Order /\ i \in Nat /\ free_lists[i] # <<>>
    <2> HIDE DEF i
    <2> QED
      BY <1>3, <1>4, RangeType DEF Usable, Order
  <1>6. p = Head(free_lists[i])
    BY DEF Granted
  <1> HIDE DEF i, p
  <1>7. p \in F[i]
    <2>1. free_lists[i] \in Seq(Nat) /\ IsInjective(free_lists[i])
      BY <1>5 DEF BuddyInv
    <2>2. p \in ToSet(free_lists[i])
      BY <1>5, <1>6, <2>1, TailIs
    <2> QED
      BY <1>5, <2>2 DEF SetsOf
  <1>8. F \in FreeSets /\ Partition(Blocks(F, live)) /\ live \in SUBSET Handed
    BY SetsType DEF BuddyInv
  <1>9. p \in Nat /\ <<p, i, -1>> \in Blocks(F, live)
    BY <1>5, <1>7, <1>8, FreeAligned
  <1>10. ASSUME NEW c \in live, c.ptr = p PROVE FALSE
    <2> DEFINE lo == OrderOf(c.n)
    <2>1. c = [ptr |-> p, n |-> c.n] /\ c.n \in Sizes
      BY <1>8, <1>10 DEF Handed
    <2>2. lo \in Order /\ lo \in Nat /\ c.n \in Nat /\ c.n # -1
      BY <2>1, SizesType
    <2>3. <<p, lo, c.n>> \in Blocks(F, live)
      <3>1. [ptr |-> p, n |-> c.n] \in live
        BY <2>1
      <3> QED
        BY <1>9, <2>2, <3>1 DEF Blocks, Block
    <2> HIDE DEF lo
    <2>4. Pow2[lo] >= 1 /\ Pow2[lo] \in Nat /\ Pow2[i] >= 1 /\ Pow2[i] \in Nat
      BY <1>5, <2>2, Pow2Type
    <2>5. p \in At(<<p, lo, c.n>>) /\ p \in At(<<p, i, -1>>)
      BY <1>9, <2>4 DEF At, Region
    <2>6. <<p, lo, c.n>> = <<p, i, -1>>
      BY <1>8, <1>9, <2>3, <2>5 DEF Partition, Disjoint
    <2> QED
      BY <2>2, <2>6
  <1>11. live' = live \cup {[ptr |-> Granted(n), n |-> n]}
    BY DEF Alloc, alloc
  <1> QED
    BY <1>9, <1>10, <1>11 DEF p

(* The list of a new arena.                                                *)
LEMMA NewList ==
    ASSUME NEW page \in Nat, NEW b \in BlockSizes, NEW cnt, cnt = BlocksPerArena(b), NEW new,
           new = [i \in 1..cnt |-> get_block(page, b, cnt - i)]
    PROVE  /\ new \in Seq(Nat) /\ new # <<>> /\ IsInjective(new) /\ cnt \in Nat
           /\ \A q \in ToSet(new) : Slot(q, b, page)
  <1>1. cnt \in Nat /\ cnt >= 1
    BY ArenaSlots
  <1>2. \A idx \in 0..(cnt - 1) : Slot(get_block(page, b, idx), b, page)
    BY ArenaSlots
  <1>3. \A i, j \in 0..(cnt - 1) : get_block(page, b, i) = get_block(page, b, j) => i = j
    BY ArenaSlots
  <1>4. \A i \in 1..cnt : cnt - i \in 0..(cnt - 1)
    BY <1>1
  <1>5. \A i \in 1..cnt : Slot(new[i], b, page) /\ new[i] \in Nat
    BY <1>2, <1>4 DEF Slot
  <1>6. new \in [1..cnt -> Nat]
    BY <1>5
  <1>7. new \in Seq(Nat) /\ DOMAIN new = 1..cnt
    BY <1>1, <1>6
  <1>8. new # <<>>
    BY <1>1, <1>7
  <1>9. IsInjective(new)
    <2> SUFFICES ASSUME NEW i \in 1..cnt, NEW j \in 1..cnt, new[i] = new[j] PROVE i = j
      BY <1>7 DEF IsInjective
    <2>1. cnt - i = cnt - j
      <3>1. get_block(page, b, cnt - i) = get_block(page, b, cnt - j)
        OBVIOUS
      <3> QED
        BY <1>3, <1>4, <3>1
    <2> QED
      BY <1>1, <2>1
  <1>10. \A q \in ToSet(new) : Slot(q, b, page)
    BY <1>5, <1>7 DEF ToSet
  <1> QED
    BY <1>1, <1>7, <1>8, <1>9, <1>10

LEMMA AllocArenaInv ==
    ASSUME HeapInv, NEW l \in Layouts, AllocArena(l)
    PROVE  HeapInv'
  <1> DEFINE b    == ClassOf(l)
             page == Granted(1)
             cnt  == BlocksPerArena(b)
             new  == [i \in 1..cnt |-> get_block(page, b, cnt - i)]
             ar   == [p \in DOMAIN arenas \cup {page} |->
                        IF p = page THEN [desc |-> b, free_cnt |-> cnt] ELSE arenas[p]]
             A    == DescOf(arenas)
             D    == DescOf(ar)
             F    == OnLists(descs)
             G    == [c \in BlockSizes |-> IF c = b THEN F[c] \cup ToSet(new) ELSE F[c]]
             M    == live \cup {[ptr |-> page, n |-> 1]}
  <1>1. Small(l) /\ descs[b].free_list = <<>> /\ Alloc(1)
        /\ TakeBlock(l, new, ar, descs[b].free + b * cnt, descs[b].total + PG_SIZE)
    BY DEF AllocArena
  <1>2. b \in BlockSizes
    BY <1>1, ClassIs
  <1>3. 1 \in Requests
    BY HeapAssumption
  <1>4. BuddyInv /\ Descs(descs) /\ Arenas(arenas) /\ Shape(A, F, blocks, live)
    BY DEF HeapInv
  <1>5. page \in Nat /\ (\A c \in live : c.ptr # page) /\ live' = M
    BY <1>1, <1>3, <1>4, GrantedIs
  <1>6. BuddyInv'
    BY <1>1, <1>3, <1>4, AllocInv
  <1>7. /\ new \in Seq(Nat) /\ new # <<>> /\ IsInjective(new) /\ cnt \in Nat
        /\ \A q \in ToSet(new) : Slot(q, b, page)
    BY <1>2, <1>5, NewList
  <1>8. /\ DOMAIN ar = DOMAIN arenas \cup {page} /\ ar = [p \in DOMAIN ar |-> ar[p]]
        /\ \A p \in DOMAIN ar : ar[p] = IF p = page THEN [desc |-> b, free_cnt |-> cnt] ELSE arenas[p]
    <2> HIDE DEF page, cnt, b
    <2> QED
      OBVIOUS
  <1> HIDE DEF ar
  <1>9. Arenas(ar)
    <2>1. [desc |-> b, free_cnt |-> cnt] \in [desc : BlockSizes, free_cnt : Int]
      BY <1>2, <1>7
    <2>2. \A p \in DOMAIN ar : ar[p] \in [desc : BlockSizes, free_cnt : Int]
      BY <1>4, <1>8, <2>1 DEF Arenas
    <2> QED
      BY <1>8, <2>2 DEF Arenas
  <1>10. DOMAIN D = DOMAIN A \cup {page} /\ \A p \in DOMAIN D : D[p] = IF p = page THEN b ELSE A[p]
    BY <1>8 DEF DescOf
  <1>11. F[b] = {} /\ \A c \in BlockSizes : F[c] = ToSet(descs[c].free_list)
    BY <1>1, <1>2 DEF OnLists, ToSet
  <1>12. G[b] = ToSet(new) /\ \A c \in BlockSizes : c # b => G[c] = ToSet(descs[c].free_list)
    BY <1>2, <1>11
  <1>13. \A c \in BlockSizes : G[c] = IF c = b THEN F[c] \cup ToSet(new) ELSE F[c]
    OBVIOUS
  <1> HIDE DEF new, A, F, G, D, page, cnt, b
  <1>14. Shape(D, G, blocks, M)
    <2>1. Carved(A, D, F, G, page, b, ToSet(new))
      BY <1>7, <1>10, <1>13 DEF Carved
    <2> QED
      BY <1>2, <1>4, <1>5, <2>1, NewArena
  <1>15. /\ Descs(descs') /\ Arenas(arenas')
         /\ Shape(DescOf(arenas'), OnLists(descs'), blocks', M)
    BY <1>1, <1>4, <1>7, <1>9, <1>12, <1>14, TakeBlockInv DEF D, b
  <1> QED
    BY <1>5, <1>6, <1>15 DEF HeapInv

LEMMA AllocSpillInv ==
    ASSUME HeapInv, NEW l \in Layouts, AllocSpill(l)
    PROVE  HeapInv'
  <1> DEFINE n    == PagesOf(l)
             page == Granted(n)
  <1>1. ~Small(l) /\ Alloc(n) /\ blocks' = blocks \cup {[ptr |-> page * PG_SIZE, layout |-> l]}
        /\ descs' = descs /\ arenas' = arenas
    BY DEF AllocSpill
  <1>2. n \in Requests
    BY <1>1, HeapAssumption
  <1>3. BuddyInv /\ Descs(descs) /\ Arenas(arenas) /\ Shape(DescOf(arenas), OnLists(descs), blocks, live)
    BY DEF HeapInv
  <1>4. page \in Nat /\ (\A c \in live : c.ptr # page) /\ live' = live \cup {[ptr |-> page, n |-> n]}
    BY <1>1, <1>2, <1>3, GrantedIs
  <1>5. BuddyInv'
    BY <1>1, <1>2, <1>3, AllocInv
  <1> HIDE DEF page
  <1>6. Shape(DescOf(arenas), OnLists(descs), blocks', live')
    BY <1>1, <1>3, <1>4, NewLarge
  <1> QED
    BY <1>1, <1>3, <1>5, <1>6 DEF HeapInv

LEMMA AllocPanicsInv ==
    ASSUME HeapInv, NEW l \in Layouts, AllocPanics(l)
    PROVE  HeapInv'
  <1> DEFINE n == IF Small(l) THEN 1 ELSE PagesOf(l)
  <1>1. AllocFails(n) /\ UNCHANGED heapVars
    BY DEF AllocPanics
  <1>2. n \in Requests
    BY HeapAssumption
  <1> HIDE DEF n
  <1>3. BuddyInv'
    BY <1>1, <1>2, AllocFailsInv DEF HeapInv
  <1>4. live' = live
    BY <1>1 DEF AllocFails
  <1> QED
    BY <1>1, <1>3, <1>4 DEF HeapInv, heapVars

LEMMA FreeBlockInv ==
    ASSUME HeapInv, NEW x \in blocks, FreeBlock(x)
    PROVE  HeapInv'
  <1> DEFINE b == ClassOf(x.layout)
             q == x.ptr
             A == DescOf(arenas)
             F == OnLists(descs)
  <1>1. Small(x.layout) /\ blocks' = blocks \ {x} /\ UNCHANGED buddyVars
    BY DEF FreeBlock
  <1>2. BuddyInv /\ Descs(descs) /\ Arenas(arenas) /\ Shape(A, F, blocks, live)
    BY DEF HeapInv
  <1>3. q \in Nat /\ x.layout \in Layouts
    BY <1>2 DEF Shape, BlockType
  <1>4. b \in BlockSizes
    BY <1>1, <1>3, ClassIs
  <1>5. /\ DOMAIN descs' = BlockSizes
        /\ descs'[b].free_list = Push(descs[b].free_list, q)
        /\ \A c \in BlockSizes : c # b => descs'[c] = descs[c]
    BY <1>2, <1>4 DEF FreeBlock, Descs
  <1>6. arenas' = [arenas EXCEPT ![PageOf(q)].free_cnt = @ + 1]
    BY DEF FreeBlock
  <1>7. InSlot(A, q, b) /\ q \notin F[b]
    BY <1>1, <1>2 DEF Shape, SmallInSlots
  <1>8. PageOf(q) \in DOMAIN arenas
    <2>1. PageOf(q) \in DOMAIN A
      BY <1>2, <1>4, <1>7, SlotClass DEF Shape
    <2> QED
      BY <2>1 DEF DescOf
  <1>9. \A c \in BlockSizes : F[c] = ToSet(descs[c].free_list)
    BY DEF OnLists
  <1> HIDE DEF b, q, A, F
  <1>10. Arenas(arenas') /\ DescOf(arenas') = A
    <2> DEFINE v == arenas[PageOf(q)].free_cnt + 1
               p == PageOf(q)
    <2>1. v \in Int /\ p \in DOMAIN arenas
      BY <1>2, <1>8 DEF Arenas
    <2>2. Recounted(arenas, arenas', p, v)
      BY <1>6 DEF Recounted
    <2> HIDE DEF v, p
    <2> QED
      BY <1>2, <2>1, <2>2, Recount DEF A
  <1>11. /\ Push(descs[b].free_list, q) \in Seq(Nat)
         /\ ToSet(Push(descs[b].free_list, q)) = F[b] \cup {q}
         /\ IsInjective(Push(descs[b].free_list, q))
    BY <1>2, <1>3, <1>4, <1>7, <1>9, PushIs DEF Descs
  <1>12. Descs(descs')
    BY <1>2, <1>5, <1>11 DEF Descs
  <1>13. \A c \in BlockSizes : OnLists(descs')[c] = IF c = b THEN F[c] \cup {q} ELSE F[c]
    BY <1>5, <1>9, <1>11 DEF OnLists
  <1>14. Shape(A, OnLists(descs'), blocks', live)
    BY <1>1, <1>2, <1>13, GiveSlot DEF b, q
  <1>15. BuddyInv' /\ live' = live
    BY <1>1, <1>2, BuddyStepInv DEF buddyVars
  <1> QED
    BY <1>10, <1>12, <1>14, <1>15 DEF HeapInv

(* A large block is known to the page allocator, with its size.            *)
LEMMA LargeIsLive ==
    ASSUME HeapInv, NEW x \in blocks, ~Small(x.layout)
    PROVE  [ptr |-> PageOf(x.ptr), n |-> PagesOf(x.layout)] \in live
  BY DEF HeapInv, Shape, LargeOnPages

LEMMA FreeSpillInv ==
    ASSUME HeapInv, NEW x \in blocks, FreeSpill(x)
    PROVE  HeapInv'
  <1> DEFINE c == [ptr |-> PageOf(x.ptr), n |-> PagesOf(x.layout)]
  <1>1. ~Small(x.layout) /\ Dealloc(c) /\ blocks' = blocks \ {x} /\ descs' = descs /\ arenas' = arenas
    BY DEF FreeSpill
  <1>2. c \in live
    BY <1>1, LargeIsLive
  <1>3. BuddyInv'
    BY <1>1, <1>2, DeallocInv DEF HeapInv
  <1>4. live' = live \ {c}
    BY <1>1 DEF Dealloc, dealloc
  <1>5. Shape(DescOf(arenas), OnLists(descs), blocks', live')
    BY <1>1, <1>4, GiveLarge DEF HeapInv
  <1> QED
    BY <1>1, <1>3, <1>5 DEF HeapInv

LEMMA HeapStepInv == HeapInv /\ [HeapNext]_hvars => HeapInv'
  <1> SUFFICES ASSUME HeapInv, [HeapNext]_hvars PROVE HeapInv'
    OBVIOUS
  <1>1. CASE \E l \in Layouts : AllocBlock(l) \/ AllocArena(l) \/ AllocPanics(l) \/ AllocSpill(l)
    BY <1>1, AllocBlockInv, AllocArenaInv, AllocPanicsInv, AllocSpillInv
  <1>2. CASE \E x \in blocks : FreeBlock(x) \/ FreeSpill(x)
    BY <1>2, FreeBlockInv, FreeSpillInv
  <1>3. CASE UNCHANGED hvars
    <2>1. UNCHANGED buddyVars /\ UNCHANGED heapVars
      BY <1>3 DEF hvars
    <2>2. BuddyInv'
      BY <2>1, BuddyStepInv DEF HeapInv
    <2> QED
      BY <2>1, <2>2 DEF HeapInv, buddyVars, heapVars
  <1> QED
    BY <1>1, <1>2, <1>3 DEF HeapNext

(* Every step of the heap is a call of the page allocator, or none.        *)
LEMMA HeapStepCalls == HeapInv /\ [HeapNext]_hvars => [BuddyNext]_buddyVars
  <1> SUFFICES ASSUME HeapInv, [HeapNext]_hvars PROVE [BuddyNext]_buddyVars
    OBVIOUS
  <1>1. ASSUME NEW l \in Layouts, AllocBlock(l) PROVE UNCHANGED buddyVars
    BY <1>1 DEF AllocBlock
  <1>2. ASSUME NEW l \in Layouts, AllocArena(l) PROVE BuddyNext
    BY <1>2, HeapAssumption DEF AllocArena, BuddyNext
  <1>3. ASSUME NEW l \in Layouts, AllocSpill(l) PROVE BuddyNext
    BY <1>3, HeapAssumption DEF AllocSpill, BuddyNext
  <1>4. ASSUME NEW l \in Layouts, AllocPanics(l) PROVE BuddyNext
    <2> DEFINE n == IF Small(l) THEN 1 ELSE PagesOf(l)
    <2>1. AllocFails(n)
      BY <1>4 DEF AllocPanics
    <2>2. n \in Requests
      BY HeapAssumption
    <2> HIDE DEF n
    <2> QED
      BY <2>1, <2>2 DEF BuddyNext
  <1>5. ASSUME NEW x \in blocks, FreeBlock(x) PROVE UNCHANGED buddyVars
    BY <1>5 DEF FreeBlock
  <1>6. ASSUME NEW x \in blocks, FreeSpill(x) PROVE BuddyNext
    <2> DEFINE c == [ptr |-> PageOf(x.ptr), n |-> PagesOf(x.layout)]
    <2>1. ~Small(x.layout) /\ Dealloc(c)
      BY <1>6 DEF FreeSpill
    <2>2. c \in live
      BY <2>1, LargeIsLive
    <2> HIDE DEF c
    <2> QED
      BY <2>1, <2>2 DEF BuddyNext
  <1>7. ASSUME UNCHANGED hvars PROVE UNCHANGED buddyVars
    BY <1>7 DEF hvars
  <1> QED
    BY <1>1, <1>2, <1>3, <1>4, <1>5, <1>6, <1>7 DEF HeapNext

-----------------------------------------------------------------------------
(* The properties.  A byte of m whole pages from page p on is in one.      *)
LEMMA PageOfByte ==
    ASSUME NEW p \in Nat, NEW m \in Nat, m >= 1, NEW z \in Int,
           p * PG_SIZE <= z, z < p * PG_SIZE + m * PG_SIZE
    PROVE  z \in Nat /\ PageOf(z) \in p..(p + m - 1)
  <1>1. PG_SIZE \in Nat /\ PG_SIZE >= 1
    BY PageSizeIs
  <1> DEFINE d == z \div PG_SIZE
             e == z % PG_SIZE
             r == p + m - 1
  <1>2. p * PG_SIZE \in Nat /\ m * PG_SIZE \in Nat /\ r \in Nat /\ r * PG_SIZE \in Nat
    BY <1>1
  <1>3. z \in Nat
    BY <1>2
  <1>4. d \in Nat /\ e \in 0..(PG_SIZE - 1) /\ z = d * PG_SIZE + e
    BY <1>1, <1>3, DivIs
  <1>5. r * PG_SIZE + PG_SIZE = p * PG_SIZE + m * PG_SIZE
    BY <1>1
  <1> HIDE DEF d, e, r
  <1>6. d * PG_SIZE \in Nat
    BY <1>1, <1>4
  <1>7. p * PG_SIZE < d * PG_SIZE + PG_SIZE /\ d * PG_SIZE < r * PG_SIZE + PG_SIZE
    BY <1>1, <1>2, <1>4, <1>5, <1>6
  <1>8. p <= d /\ d <= r
    BY <1>1, <1>2, <1>4, <1>7, CloseMultiples
  <1>9. d \in p..r
    BY <1>2, <1>4, <1>8
  <1> QED
    BY <1>3, <1>9 DEF PageOf, d, r

(* No page is in two blocks that the page allocator has handed out.        *)
LEMMA LiveApart ==
    ASSUME BuddyInv, NEW c \in live, NEW d \in live, NEW y,
           y \in Region(c.ptr, OrderOf(c.n)), y \in Region(d.ptr, OrderOf(d.n))
    PROVE  c.ptr = d.ptr
  <1> DEFINE F == SetsOf(free_lists)
             t(u) == <<u.ptr, OrderOf(u.n), u.n>>
  <1>1. Partition(Blocks(F, live)) /\ live \in SUBSET Handed
    BY DEF BuddyInv
  <1>2. ASSUME NEW u \in live PROVE t(u) \in Blocks(F, live)
    <2>1. u = [ptr |-> u.ptr, n |-> u.n] /\ u.ptr \in Nat /\ u.n \in Sizes
      BY <1>1 DEF Handed
    <2>2. OrderOf(u.n) \in Order /\ u.n \in Nat /\ u.n # -1
      BY <2>1, SizesType
    <2>3. t(u) \in Block
      BY <2>1, <2>2 DEF Block
    <2>4. [ptr |-> u.ptr, n |-> u.n] \in live
      BY <2>1
    <2> QED
      BY <2>2, <2>3, <2>4 DEF Blocks
  <1>3. t(c) \in Blocks(F, live) /\ t(d) \in Blocks(F, live)
    BY <1>2
  <1>4. y \in At(t(c)) /\ y \in At(t(d))
    BY DEF At
  <1>5. t(c) = t(d)
    BY <1>1, <1>3, <1>4 DEF Partition, Disjoint
  <1> QED
    BY <1>5

(* A byte of a page belongs to the block of pages that begins at p.        *)
Owns(p, z) == \E c \in live : c.ptr = p /\ PageOf(z) \in Region(c.ptr, OrderOf(c.n))

LEMMA OneOwner ==
    ASSUME BuddyInv, NEW p, NEW q, NEW z, Owns(p, z), Owns(q, z)
    PROVE  p = q
  BY LiveApart DEF Owns

LEMMA ArenaOwns ==
    ASSUME HeapInv, NEW p \in DOMAIN arenas, NEW z \in Int,
           p * PG_SIZE <= z, z < p * PG_SIZE + PG_SIZE
    PROVE  Owns(p, z)
  <1> DEFINE c == [ptr |-> p, n |-> 1]
  <1>1. c \in live /\ p \in Nat
    BY DEF HeapInv, Shape, ArenaPages, DescOf
  <1>2. PG_SIZE \in Nat /\ 1 * PG_SIZE = PG_SIZE /\ p + 1 - 1 = p
    BY <1>1, PageSizeIs
  <1>3. PageOf(z) \in p..(p + 1 - 1)
    BY <1>1, <1>2, PageOfByte
  <1>4. PageOf(z) = p
    BY <1>1, <1>3
  <1>5. OrderOf(1) \in Nat
    BY OrderOfIs
  <1>6. Pow2[OrderOf(1)] \in Nat /\ Pow2[OrderOf(1)] >= 1
    BY <1>5, Pow2Type
  <1>7. p \in Region(p, OrderOf(1))
    BY <1>1, <1>6 DEF Region
  <1>8. c.ptr = p /\ c.n = 1
    OBVIOUS
  <1> HIDE DEF c
  <1> QED
    BY <1>1, <1>4, <1>7, <1>8 DEF Owns

(* A slot lies within its arena, after the header.                         *)
LEMMA SlotBytes ==
    ASSUME HeapInv, NEW b \in BlockSizes, NEW q, InSlot(DescOf(arenas), q, b), NEW z \in q..(q - 1 + b)
    PROVE  /\ Owns(PageOf(q), z) /\ PageOf(q) \in DOMAIN arenas /\ arenas[PageOf(q)].desc = b
           /\ q \in Nat /\ q % b = 0 /\ PageOf(q) * PG_SIZE + ArenaSize <= z
  <1> DEFINE p == PageOf(q)
             A == DescOf(arenas)
  <1>1. p \in DOMAIN A /\ p \in Nat /\ A[p] = b /\ Slot(q, b, p)
    BY SlotClass DEF HeapInv, Shape
  <1>2. p \in DOMAIN arenas /\ arenas[p].desc = b
    BY <1>1 DEF DescOf
  <1>3. q \in Nat /\ q % b = 0 /\ p * PG_SIZE + ArenaSize <= q /\ q + b <= p * PG_SIZE + PG_SIZE
    BY <1>1 DEF Slot
  <1>4. b \in Nat /\ PG_SIZE \in Nat /\ ArenaSize \in Nat
    BY BlockSizeIs, PageSizeIs
  <1> HIDE DEF p, A
  <1>5. p * PG_SIZE \in Nat
    BY <1>1, <1>4
  <1>6. z \in Int /\ p * PG_SIZE + ArenaSize <= z /\ p * PG_SIZE <= z /\ z < p * PG_SIZE + PG_SIZE
    BY <1>3, <1>4, <1>5
  <1>7. Owns(p, z)
    BY <1>2, <1>6, ArenaOwns
  <1> QED
    BY <1>2, <1>3, <1>6, <1>7 DEF p

LEMMA SlotsApart ==
    ASSUME NEW b \in BlockSizes, NEW q \in Nat, NEW r \in Nat, q % b = 0, r % b = 0,
           NEW z, z \in q..(q - 1 + b), z \in r..(r - 1 + b)
    PROVE  q = r
  <1>1. b \in Nat /\ b >= 1
    BY BlockSizeIs
  <1>2. q < r => q + b <= r
    BY <1>1, AlignedApart
  <1>3. r < q => r + b <= q
    BY <1>1, AlignedApart
  <1> QED
    BY <1>1, <1>2, <1>3

(* The bytes of a large block.                                             *)
LEMMA LargeBytes ==
    ASSUME HeapInv, NEW x \in blocks, ~Small(x.layout)
    PROVE  /\ PageOf(x.ptr) \notin DOMAIN arenas /\ PageOf(x.ptr) \in Nat
           /\ x.ptr = PageOf(x.ptr) * PG_SIZE
           /\ \A z \in Bytes(x) : Owns(PageOf(x.ptr), z)
           /\ Pow2[OrderOf(PagesOf(x.layout))] * PG_SIZE \in Nat
           /\ Pow2[OrderOf(PagesOf(x.layout))] * PG_SIZE >= x.layout.size
  <1> DEFINE p == PageOf(x.ptr)
             n == PagesOf(x.layout)
             m == Pow2[OrderOf(n)]
             c == [ptr |-> p, n |-> n]
  <1>1. p \notin DOMAIN arenas /\ x.ptr = p * PG_SIZE /\ c \in live
    BY DEF HeapInv, Shape, LargeOnPages, DescOf
  <1>2. x.layout \in Layouts
    BY DEF HeapInv, Shape, BlockType
  <1>3. p \in Nat
    <2>1. c.ptr \in Nat
      BY <1>1 DEF HeapInv, BuddyInv, Handed
    <2> QED
      BY <2>1
  <1>4. n \in Nat /\ n * PG_SIZE >= x.layout.size /\ x.layout.size \in Nat /\ PG_SIZE \in Nat
    BY <1>2, LayoutIs, PageSizeIs
  <1>5. OrderOf(n) \in Nat /\ m >= n
    BY <1>4, OrderOfIs
  <1>6. m \in Nat /\ m >= 1
    BY <1>5, Pow2Type
  <1>7. Bytes(x) = x.ptr..(x.ptr - 1 + m * PG_SIZE)
    BY DEF Bytes
  <1> HIDE DEF p, n, m
  <1>8. p * PG_SIZE \in Nat /\ m * PG_SIZE \in Nat /\ n * PG_SIZE \in Nat
    BY <1>3, <1>4, <1>6
  <1>9. m * PG_SIZE >= x.layout.size
    <2>1. PICK d \in Nat : m = n + d
      <3>1. m - n \in Nat /\ m = n + (m - n)
        BY <1>4, <1>5, <1>6
      <3> QED
        BY <3>1
    <2>2. m * PG_SIZE = n * PG_SIZE + d * PG_SIZE /\ d * PG_SIZE \in Nat
      BY <1>4, <2>1
    <2> QED
      BY <1>4, <1>8, <2>2
  <1>10. ASSUME NEW z \in Bytes(x) PROVE Owns(p, z)
    <2>1. z \in Int /\ p * PG_SIZE <= z /\ z < p * PG_SIZE + m * PG_SIZE
      BY <1>1, <1>7, <1>8
    <2>2. PageOf(z) \in p..(p + m - 1)
      BY <1>3, <1>6, <2>1, PageOfByte
    <2>3. PageOf(z) \in Region(p, OrderOf(n))
      BY <2>2 DEF Region, m
    <2>4. c.ptr = p /\ c.n = n
      OBVIOUS
    <2> HIDE DEF c
    <2> QED
      BY <1>1, <2>3, <2>4 DEF Owns
  <1> QED
    BY <1>1, <1>3, <1>8, <1>9, <1>10 DEF p, n, m

LEMMA SmallBytes ==
    ASSUME HeapInv, NEW x \in blocks, Small(x.layout)
    PROVE  /\ ClassOf(x.layout) \in BlockSizes /\ x.layout \in Layouts
           /\ InSlot(DescOf(arenas), x.ptr, ClassOf(x.layout))
           /\ \A q \in ToSet(descs[ClassOf(x.layout)].free_list) : q # x.ptr
           /\ Bytes(x) = x.ptr..(x.ptr - 1 + ClassOf(x.layout))
  <1> DEFINE b == ClassOf(x.layout)
  <1>1. x.layout \in Layouts
    BY DEF HeapInv, Shape, BlockType
  <1>2. b \in BlockSizes
    BY <1>1, ClassIs
  <1>3. InSlot(DescOf(arenas), x.ptr, b) /\ x.ptr \notin OnLists(descs)[b]
    BY DEF HeapInv, Shape, SmallInSlots
  <1>4. OnLists(descs)[b] = ToSet(descs[b].free_list)
    BY <1>2 DEF OnLists
  <1>5. Bytes(x) = x.ptr..(x.ptr - 1 + b)
    BY DEF Bytes
  <1> QED
    BY <1>1, <1>2, <1>3, <1>4, <1>5

(* Every byte of a block belongs to the pages it begins in.                *)
LEMMA BlockOwns ==
    ASSUME HeapInv, NEW x \in blocks, NEW z \in Bytes(x)
    PROVE  Owns(PageOf(x.ptr), z)
  <1>1. CASE Small(x.layout)
    <2>1. ClassOf(x.layout) \in BlockSizes /\ InSlot(DescOf(arenas), x.ptr, ClassOf(x.layout))
          /\ z \in x.ptr..(x.ptr - 1 + ClassOf(x.layout))
      BY <1>1, SmallBytes
    <2> QED
      BY <2>1, SlotBytes
  <1>2. CASE ~Small(x.layout)
    BY <1>2, LargeBytes
  <1> QED
    BY <1>1, <1>2

LEMMA InvFromBlock == HeapInv => FromBlockHolds
  <1> SUFFICES ASSUME HeapInv PROVE FromBlockHolds
    OBVIOUS
  <1>1. ASSUME NEW b \in BlockSizes, NEW q, InSlot(DescOf(arenas), q, b)
        PROVE  /\ PageOf(q) \in DOMAIN arenas /\ arenas[PageOf(q)].desc = b /\ q % b = 0
               /\ PageOf(q + b - 1) = PageOf(q)
    <2>1. /\ PageOf(q) \in DOMAIN DescOf(arenas) /\ DescOf(arenas)[PageOf(q)] = b
          /\ Slot(q, b, PageOf(q)) /\ PageOf(q + b - 1) = PageOf(q)
      BY <1>1, SlotClass DEF HeapInv, Shape
    <2> QED
      BY <2>1 DEF DescOf, Slot
  <1>2. ASSUME NEW b \in BlockSizes, NEW q \in ToSet(descs[b].free_list)
        PROVE  InSlot(DescOf(arenas), q, b)
    <2>1. q \in OnLists(descs)[b]
      BY DEF OnLists
    <2> QED
      BY <2>1 DEF HeapInv, Shape, FreeInSlots
  <1>3. ASSUME NEW x \in blocks, Small(x.layout)
        PROVE  ClassOf(x.layout) \in BlockSizes /\ InSlot(DescOf(arenas), x.ptr, ClassOf(x.layout))
    BY <1>3, SmallBytes
  <1> QED
    BY <1>1, <1>2, <1>3 DEF FromBlockHolds

LEMMA InvBlocksSafe == HeapInv => BlocksSafe
  <1> SUFFICES ASSUME HeapInv, NEW x \in blocks
               PROVE  /\ x.ptr % x.layout.align = 0
                      /\ Cardinality(Bytes(x)) >= x.layout.size
                      /\ \A y \in blocks \ {x} : Bytes(x) \cap Bytes(y) = {}
                      /\ \A p \in DOMAIN arenas : Bytes(x) \cap Header(p) = {}
                      /\ \A b \in BlockSizes : \A q \in ToSet(descs[b].free_list) :
                            Bytes(x) \cap (q .. (q + b - 1)) = {}
    BY DEF BlocksSafe
  <1>1. x.ptr \in Nat /\ x.layout \in Layouts /\ BuddyInv
    BY DEF HeapInv, Shape, BlockType
  <1>2. x.layout.size \in Nat
    BY <1>1, LayoutIs
  <1>3. ASSUME NEW y \in blocks, Small(y.layout), NEW z \in Bytes(y)
        PROVE  /\ PageOf(y.ptr) \in DOMAIN arenas
               /\ arenas[PageOf(y.ptr)].desc = ClassOf(y.layout)
               /\ y.ptr \in Nat /\ y.ptr % ClassOf(y.layout) = 0
               /\ z \in y.ptr..(y.ptr - 1 + ClassOf(y.layout))
               /\ PageOf(y.ptr) * PG_SIZE + ArenaSize <= z
    <2>1. /\ ClassOf(y.layout) \in BlockSizes /\ InSlot(DescOf(arenas), y.ptr, ClassOf(y.layout))
          /\ z \in y.ptr..(y.ptr - 1 + ClassOf(y.layout))
      BY <1>3, SmallBytes
    <2> QED
      BY <2>1, SlotBytes
  <1>4. x.ptr % x.layout.align = 0
    <2>1. CASE Small(x.layout)
      <3> DEFINE b == ClassOf(x.layout)
      <3>1. b \in BlockSizes /\ InSlot(DescOf(arenas), x.ptr, b)
        BY <2>1, SmallBytes
      <3>2. x.ptr % b = 0
        BY <3>1 DEF InSlot, Slot
      <3> QED
        BY <1>1, <2>1, <3>2, ClassIs
    <2>2. CASE ~Small(x.layout)
      <3>1. PageOf(x.ptr) \in Nat /\ x.ptr = PageOf(x.ptr) * PG_SIZE
        BY <2>2, LargeBytes
      <3>2. (PageOf(x.ptr) * PG_SIZE) % x.layout.align = 0
        BY <1>1, <3>1, LayoutIs
      <3> QED
        BY <3>1, <3>2, Zenon
    <2> QED
      BY <2>1, <2>2
  <1>5. Cardinality(Bytes(x)) >= x.layout.size
    <2>1. PICK w \in Nat : w >= x.layout.size /\ Bytes(x) = x.ptr..(x.ptr - 1 + w)
      <3>1. CASE Small(x.layout)
        <4> DEFINE w == ClassOf(x.layout)
        <4>1. w \in Nat /\ w >= x.layout.size /\ Bytes(x) = x.ptr..(x.ptr - 1 + w)
          BY <1>1, <3>1, SmallBytes, ClassIs, BlockSizeIs
        <4> HIDE DEF w
        <4> QED
          BY <4>1
      <3>2. CASE ~Small(x.layout)
        <4> DEFINE w == Pow2[OrderOf(PagesOf(x.layout))] * PG_SIZE
        <4>1. w \in Nat /\ w >= x.layout.size
          BY <3>2, LargeBytes
        <4>2. Bytes(x) = x.ptr..(x.ptr - 1 + w)
          BY <3>2 DEF Bytes
        <4> HIDE DEF w
        <4> QED
          BY <4>1, <4>2
      <3> QED
        BY <3>1, <3>2
    <2> DEFINE a == x.ptr
               e == x.ptr - 1 + w
    <2>2. a \in Int /\ e \in Int
      BY <1>1
    <2>3. Cardinality(a..e) = IF a > e THEN 0 ELSE e - a + 1
      BY <2>2, FS_Interval
    <2>4. Cardinality(Bytes(x)) = IF a > e THEN 0 ELSE e - a + 1
      BY <2>1, <2>3, Zenon
    <2> QED
      BY <1>1, <1>2, <2>1, <2>4
  <1>6. ASSUME NEW y \in blocks, y # x, NEW z \in Bytes(x), z \in Bytes(y) PROVE FALSE
    <2>1. PageOf(x.ptr) = PageOf(y.ptr)
      <3>1. Owns(PageOf(x.ptr), z) /\ Owns(PageOf(y.ptr), z)
        BY <1>6, BlockOwns
      <3> QED
        BY <1>1, <3>1, OneOwner
    <2>2. CASE Small(x.layout) /\ Small(y.layout)
      <3> DEFINE b == ClassOf(x.layout)
      <3>1. b = ClassOf(y.layout) /\ b \in BlockSizes
        BY <1>3, <1>6, <2>1, <2>2, SmallBytes
      <3>2. /\ x.ptr \in Nat /\ x.ptr % b = 0 /\ z \in x.ptr..(x.ptr - 1 + b)
            /\ y.ptr \in Nat /\ y.ptr % b = 0 /\ z \in y.ptr..(y.ptr - 1 + b)
        BY <1>3, <1>6, <2>2, <3>1
      <3> HIDE DEF b
      <3>3. x.ptr = y.ptr
        BY <3>1, <3>2, SlotsApart
      <3> QED
        BY <1>6, <2>2, <3>3 DEF HeapInv, Shape, SmallOnce
    <2>3. CASE ~Small(x.layout) /\ ~Small(y.layout)
      BY <1>6, <2>1, <2>3 DEF HeapInv, Shape, LargeOnce
    <2>4. CASE Small(x.layout) /\ ~Small(y.layout)
      <3>1. PageOf(x.ptr) \in DOMAIN arenas
        BY <1>3, <1>6, <2>4
      <3>2. PageOf(y.ptr) \notin DOMAIN arenas
        BY <2>4, LargeBytes
      <3> QED
        BY <2>1, <3>1, <3>2
    <2>5. CASE ~Small(x.layout) /\ Small(y.layout)
      <3>1. PageOf(y.ptr) \in DOMAIN arenas
        BY <1>3, <1>6, <2>5
      <3>2. PageOf(x.ptr) \notin DOMAIN arenas
        BY <2>5, LargeBytes
      <3> QED
        BY <2>1, <3>1, <3>2
    <2> QED
      BY <2>2, <2>3, <2>4, <2>5
  <1>7. ASSUME NEW p \in DOMAIN arenas, NEW z \in Bytes(x), z \in Header(p) PROVE FALSE
    <2>1. p \in Nat /\ PG_SIZE \in Nat /\ ArenaSize \in Nat
      BY PageSizeIs DEF HeapInv, Shape, ArenaPages, DescOf
    <2>2. p * PG_SIZE \in Nat
      BY <2>1
    <2>3. ArenaSize < PG_SIZE
      <3>1. MinBlock \in BlockSizes
        BY HeapAssumption
      <3>2. MinBlock \in Nat /\ MinBlock >= 1 /\ RoundUp(DescSize, MinBlock) + MinBlock <= PG_SIZE
        BY <3>1, BlockSizeIs
      <3>3. RoundUp(DescSize, MinBlock) \in Nat /\ DescSize <= RoundUp(DescSize, MinBlock)
            /\ DescSize \in Nat /\ ArenaSize <= DescSize
        BY <3>2, RoundUpIs, PageSizeIs
      <3> QED
        BY <2>1, <3>2, <3>3
    <2>4. z \in Int /\ p * PG_SIZE <= z /\ z < p * PG_SIZE + ArenaSize
      BY <1>7, <2>1, <2>2 DEF Header
    <2>5. z < p * PG_SIZE + PG_SIZE
      BY <2>1, <2>2, <2>3, <2>4
    <2>6. Owns(p, z)
      BY <2>4, <2>5, ArenaOwns
    <2>7. PageOf(x.ptr) = p
      BY <1>1, <1>7, <2>6, BlockOwns, OneOwner
    <2>8. Small(x.layout)
      BY <1>7, <2>7, LargeBytes
    <2>9. p * PG_SIZE + ArenaSize <= z
      BY <1>3, <1>7, <2>7, <2>8
    <2> QED
      BY <2>1, <2>2, <2>4, <2>9
  <1>8. ASSUME NEW b \in BlockSizes, NEW q \in ToSet(descs[b].free_list),
               NEW z \in Bytes(x), z \in q..(q + b - 1)
        PROVE  FALSE
    <2>1. InSlot(DescOf(arenas), q, b)
      <3>1. q \in OnLists(descs)[b]
        BY DEF OnLists
      <3> QED
        BY <3>1 DEF HeapInv, Shape, FreeInSlots
    <2>2. q \in Nat /\ b \in Nat
      BY <2>1, BlockSizeIs DEF InSlot, Slot
    <2>3. z \in q..(q - 1 + b)
      BY <1>8, <2>2
    <2>4. /\ Owns(PageOf(q), z) /\ PageOf(q) \in DOMAIN arenas /\ arenas[PageOf(q)].desc = b
          /\ q % b = 0
      BY <2>1, <2>3, SlotBytes
    <2>5. PageOf(x.ptr) = PageOf(q)
      BY <1>1, <1>8, <2>4, BlockOwns, OneOwner
    <2>6. Small(x.layout)
      BY <2>4, <2>5, LargeBytes
    <2>7. ClassOf(x.layout) = b
      BY <1>3, <1>8, <2>4, <2>5, <2>6
    <2>8. x.ptr % b = 0 /\ z \in x.ptr..(x.ptr - 1 + b)
      BY <1>3, <1>8, <2>6, <2>7
    <2>9. x.ptr = q
      BY <1>1, <2>2, <2>3, <2>4, <2>8, SlotsApart
    <2> QED
      BY <2>6, <2>7, <2>9, SmallBytes
  <1> QED
    BY <1>4, <1>5, <1>6, <1>7, <1>8

(* For any sizes and any requests, whatever sequence of them reaches       *)
(* malloc: arenas, free lists, blocks and the page allocator agree.        *)
THEOREM HeapInvariant == HeapSpec => []HeapInv
  BY HeapInitInv, HeapStepInv, PTL DEF HeapSpec

(* What malloc hands out is large enough, aligned, and overlaps neither    *)
(* another block, nor the header of an arena, nor a block on a free list.  *)
THEOREM HeapBlocksSafe == HeapSpec => []BlocksSafe
  BY HeapInvariant, InvBlocksSafe, PTL

(* The assertions of Arena::from_block hold of every pointer of a          *)
(* descriptor, on its list or handed out.                                  *)
THEOREM HeapFromBlockHolds == HeapSpec => []FromBlockHolds
  BY HeapInvariant, InvFromBlock, PTL

(* The heap refines the page allocator's specification: it gives back only *)
(* what it holds, once, and with the number of pages it asked for.         *)
THEOREM HeapUsesPalloc == HeapSpec => UsesPalloc
  <1>1. HeapInit => BuddyInit
    BY DEF HeapInit
  <1>2. HeapInv /\ [HeapNext]_hvars => [BuddyNext]_buddyVars
    BY HeapStepCalls
  <1> QED
    BY <1>1, <1>2, HeapInvariant, PTL DEF HeapSpec, UsesPalloc, BuddySpec

(* So the pages under the heap stay partitioned and fully merged, and the  *)
(* heap panics only when no run of free pages of the size is left.         *)
THEOREM HeapKeepsPages == HeapSpec => [](PagesPartitioned /\ FullyMerged /\ RefusesOnlyWhenFull)
  BY HeapUsesPalloc, PagesStayPartitioned, AlwaysFullyMerged, PanicsOnlyWhenFull, PTL DEF UsesPalloc
=============================================================================
