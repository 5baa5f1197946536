--------------------------- MODULE ThreadsProofs ---------------------------
(***************************************************************************)
(* Proofs about the two schedulers, the manager and the semaphore, for any *)
(* set of threads and priorities, and any bounds.  Both schedulers keep    *)
(* the contract, and the priority scheduler serves the highest first;      *)
(* nothing in that part uses the contract, which the proofs about the      *)
(* manager and the semaphore assume.                                       *)
(***************************************************************************)
EXTENDS SchedulerContract, Semaphores, Deques, SequencesExt, SequenceTheorems, WellFoundedInduction, TLAPS

PR == INSTANCE PriorityScheduler
FC == INSTANCE Fcfs

-----------------------------------------------------------------------------
(* Some relation on the natural numbers orders them well.                  *)
LEMMA NatWellFounded ==
    \E R : IsWellFoundedOn(R, Nat) /\ \A x, y \in Nat : y < x => <<y, x>> \in R
  <1> DEFINE R == OpToRel(<, Nat)
  <1>1. IsWellFoundedOn(R, Nat)
    BY NatLessThanWellFounded
  <1>2. \A x, y \in Nat : y < x => <<y, x>> \in R
    BY DEF OpToRel
  <1> HIDE DEF R
  <1> QED
    BY <1>1, <1>2, Zenon

(* A set of natural numbers that is not empty has a least element.         *)
LEMMA LeastNatural ==
    ASSUME NEW S, S \subseteq Nat, S # {}
    PROVE  \E x \in S : \A y \in S : x <= y
  <1>1. PICK R : IsWellFoundedOn(R, Nat) /\ \A x, y \in Nat : y < x => <<y, x>> \in R
    BY NatWellFounded
  <1>2. \E x \in S : \A y \in S : ~(<<y, x>> \in R)
    BY <1>1, WFMin
  <1>3. \A x, y \in S : y < x => <<y, x>> \in R
    BY <1>1, Zenon
  <1>4. \E x \in S : \A y \in S : ~(y < x)
    BY <1>2, <1>3, Zenon
  <1> QED
    BY <1>4, SMT

(* Retain computes its intermediate queues one from the other.             *)
RetainChain(kept, q, S) ==
    \A n \in 0..Len(q) :
        kept[n] = IF n = 0 THEN <<>>
                  ELSE IF q[n] \in S THEN Append(kept[n - 1], q[n]) ELSE kept[n - 1]

(* The queues that Retain goes through exist.                              *)
LEMMA RetainSteps ==
    ASSUME NEW q, Len(q) \in Nat, NEW S
    PROVE  \E kept : Retain(q, S) = kept[Len(q)] /\ RetainChain(kept, q, S)
  <1> DEFINE N == Len(q)
             body(g, n) == IF n = 0 THEN <<>>
                           ELSE IF q[n] \in S THEN Append(g[n - 1], q[n]) ELSE g[n - 1]
             Chain(m, g) == g = [n \in 0..m |-> body(g, n)]
             stuck == {m \in 0..N : ~ \E g : Chain(m, g)}
  <1>1. N \in Nat
    OBVIOUS
  <1> HIDE DEF N
  <1>2. stuck = {}
    <2> SUFFICES ASSUME stuck # {} PROVE FALSE
      OBVIOUS
    <2>1. PICK m \in stuck : \A k \in stuck : m <= k
      <3>1. stuck \subseteq Nat
        BY <1>1
      <3> HIDE DEF stuck
      <3> QED
        BY <3>1, LeastNatural
    <2>2. m \in 0..N /\ ~ \E g : Chain(m, g)
      BY <2>1
    <2>3. CASE m = 0
      <3> DEFINE g == [n \in 0..0 |-> <<>>]
      <3>1. Chain(0, g)
        OBVIOUS
      <3> QED
        BY <2>2, <2>3, <3>1
    <2>4. CASE m # 0
      <3>1. m - 1 \in 0..N /\ m - 1 \notin stuck
        <4>1. m \in 0..N
          BY <2>2
        <4> HIDE DEF stuck
        <4> QED
          BY <1>1, <2>1, <2>4, <4>1
      <3>2. PICK g : Chain(m - 1, g)
        BY <3>1
      <3> DEFINE last == IF q[m] \in S THEN Append(g[m - 1], q[m]) ELSE g[m - 1]
                 h == [n \in 0..m |-> IF n = m THEN last ELSE g[n]]
      <3>3. \A n \in 0..m : h[n] = body(h, n)
        <4> SUFFICES ASSUME NEW n \in 0..m PROVE h[n] = body(h, n)
          OBVIOUS
        <4>1. CASE n = m
          <5>1. m - 1 \in 0..m /\ m - 1 # m
            BY <2>2, <2>4
          <5>2. h[m - 1] = g[m - 1]
            BY <5>1
          <5> QED
            BY <2>4, <4>1, <5>2
        <4>2. CASE n # m
          <5>1. n \in 0..(m - 1) /\ (n # 0 => n - 1 \in 0..m /\ n - 1 # m)
            BY <2>2, <2>4, <4>2
          <5>2. g[n] = body(g, n)
            BY <3>2, <5>1
          <5>3. n # 0 => h[n - 1] = g[n - 1]
            BY <5>1
          <5> QED
            BY <4>2, <5>2, <5>3
        <4> QED
          BY <4>1, <4>2
      <3>4. Chain(m, h)
        <4>1. h = [n \in 0..m |-> h[n]]
          OBVIOUS
        <4> HIDE DEF h, body
        <4>2. [n \in 0..m |-> h[n]] = [n \in 0..m |-> body(h, n)]
          BY <3>3
        <4> QED
          BY <4>1, <4>2
      <3> QED
        BY <2>2, <3>4
    <2> QED
      BY <2>3, <2>4
  <1>3. \E g : Chain(N, g)
    <2>1. N \in 0..N
      BY <1>1
    <2> HIDE DEF Chain
    <2> QED
      BY <1>2, <2>1
  <1> DEFINE kept == CHOOSE g : Chain(N, g)
  <1>4. Retain(q, S) = kept[N]
    BY DEF Retain, N
  <1>5. Chain(N, kept)
    <2> HIDE DEF Chain
    <2> QED
      BY <1>3
  <1> HIDE DEF kept
  <1>6. RetainChain(kept, q, S)
    BY <1>5 DEF RetainChain, N
  <1> QED
    BY <1>4, <1>6 DEF N

(* Retain leaves a queue of the same kind of records.                      *)
LEMMA RetainType ==
    ASSUME NEW R, NEW q \in Seq(R), NEW S
    PROVE  Retain(q, S) \in Seq(R)
  <1>1. PICK N \in Nat : N = Len(q)
    BY LenProperties
  <1>2. PICK kept : Retain(q, S) = kept[Len(q)] /\ RetainChain(kept, q, S)
    BY <1>1, RetainSteps
  <1> DEFINE wrong == {n \in 0..N : kept[n] \notin Seq(R)}
  <1>3. wrong = {}
    <2> SUFFICES ASSUME wrong # {} PROVE FALSE
      OBVIOUS
    <2>1. PICK m \in wrong : \A k \in wrong : m <= k
      <3>1. wrong \subseteq Nat
        OBVIOUS
      <3> HIDE DEF wrong
      <3> QED
        BY <3>1, LeastNatural
    <2>2. m \in 0..N /\ kept[m] \notin Seq(R)
      BY <2>1
    <2>3. kept[m] = IF m = 0 THEN <<>>
                    ELSE IF q[m] \in S THEN Append(kept[m - 1], q[m]) ELSE kept[m - 1]
      BY <1>1, <1>2, <2>2 DEF RetainChain
    <2>4. CASE m = 0
      BY <2>2, <2>3, <2>4
    <2>5. CASE m # 0
      <3>1. m - 1 \in 0..N /\ ~(m <= m - 1)
        BY <2>2, <2>5
      <3>2. m - 1 \notin wrong
        <4> HIDE DEF wrong
        <4> QED
          BY <2>1, <3>1
      <3>3. kept[m - 1] \in Seq(R)
        BY <3>1, <3>2
      <3>4. q[m] \in R
        BY <1>1, <2>2, <2>5, ElementOfSeq
      <3>5. Append(kept[m - 1], q[m]) \in Seq(R)
        BY <3>3, <3>4, AppendProperties
      <3> QED
        BY <2>2, <2>3, <2>5, <3>3, <3>5
    <2> QED
      BY <2>4, <2>5
  <1>4. N \in 0..N
    OBVIOUS
  <1> QED
    BY <1>1, <1>2, <1>3, <1>4

(* Appending a deque to another one with different elements.               *)
LEMMA JoinProperties ==
    ASSUME NEW S, NEW w \in Seq(S), IsInjective(w), NEW v \in Seq(S), IsInjective(v),
           ToSet(w) \cap ToSet(v) = {}
    PROVE  /\ w \o v \in Seq(S)
           /\ IsInjective(w \o v)
           /\ ToSet(w \o v) = ToSet(w) \cup ToSet(v)
  <1> DEFINE r == w \o v
  <1>1. PICK n \in Nat, m \in Nat : n = Len(w) /\ m = Len(v)
    BY LenProperties
  <1>2. DOMAIN w = 1..n /\ DOMAIN v = 1..m
    BY <1>1, LenProperties
  <1>3. /\ r \in Seq(S) /\ Len(r) = n + m
        /\ \A j \in 1..(n + m) : r[j] = IF j <= n THEN w[j] ELSE v[j - n]
    BY <1>1, ConcatProperties
  <1>4. DOMAIN r = 1..(n + m)
    BY <1>3, LenProperties
  <1> HIDE DEF r
  <1>5. \A j \in 1..(n + m) : /\ j <= n => j \in 1..n /\ r[j] = w[j] /\ r[j] \in ToSet(w)
                              /\ ~(j <= n) => j - n \in 1..m /\ r[j] = v[j - n] /\ r[j] \in ToSet(v)
    <2>1. \A j \in 1..(n + m) : /\ j <= n => j \in 1..n /\ r[j] = w[j]
                                /\ ~(j <= n) => j - n \in 1..m /\ r[j] = v[j - n]
      BY <1>3
    <2>2. (\A j \in 1..n : w[j] \in ToSet(w)) /\ (\A j \in 1..m : v[j] \in ToSet(v))
      BY <1>2 DEF ToSet
    <2> QED
      BY <2>1, <2>2
  <1>6. IsInjective(r)
    <2> SUFFICES ASSUME NEW a \in 1..(n + m), NEW b \in 1..(n + m), r[a] = r[b] PROVE a = b
      BY <1>4 DEF IsInjective
    <2>1. a <= n <=> b <= n
      BY <1>5
    <2>2. CASE a <= n
      BY <1>2, <1>5, <2>1, <2>2 DEF IsInjective
    <2>3. CASE ~(a <= n)
      <3>1. a - n = b - n
        BY <1>2, <1>5, <2>1, <2>3 DEF IsInjective
      <3> QED
        BY <3>1
    <2> QED
      BY <2>2, <2>3
  <1>7. ToSet(r) = ToSet(w) \cup ToSet(v)
    <2>1. \A x \in ToSet(r) : x \in ToSet(w) \cup ToSet(v)
      BY <1>4, <1>5 DEF ToSet
    <2>2. \A j \in 1..n : w[j] \in ToSet(r)
      <3>1. \A j \in 1..n : j \in 1..(n + m) /\ r[j] = w[j]
        BY <1>3
      <3> QED
        BY <1>4, <3>1 DEF ToSet
    <2>3. \A j \in 1..m : v[j] \in ToSet(r)
      <3>1. \A j \in 1..m : n + j \in 1..(n + m) /\ r[n + j] = v[j]
        BY <1>3
      <3> QED
        BY <1>4, <3>1 DEF ToSet
    <2> QED
      BY <1>2, <2>1, <2>2, <2>3 DEF ToSet
  <1> QED
    BY <1>3, <1>6, <1>7 DEF r

(* A deque of one element.                                                 *)
LEMMA OneElement ==
    ASSUME NEW S, NEW t \in S
    PROVE  <<t>> \in Seq(S) /\ IsInjective(<<t>>) /\ ToSet(<<t>>) = {t}
  BY DEF IsInjective, ToSet

(* push_front.                                                             *)
LEMMA PushFrontProperties ==
    ASSUME NEW S, NEW w \in Seq(S), IsInjective(w), NEW t \in S, t \notin ToSet(w)
    PROVE  /\ <<t>> \o w \in Seq(S)
           /\ IsInjective(<<t>> \o w)
           /\ ToSet(<<t>> \o w) = ToSet(w) \cup {t}
  <1>1. PICK e : e = <<t>>
    OBVIOUS
  <1>2. e \in Seq(S) /\ IsInjective(e) /\ ToSet(e) = {t} /\ ToSet(e) \cap ToSet(w) = {}
    BY <1>1, OneElement
  <1>3. e \o w \in Seq(S) /\ IsInjective(e \o w) /\ ToSet(e \o w) = ToSet(e) \cup ToSet(w)
    BY <1>2, JoinProperties
  <1> QED
    BY <1>1, <1>2, <1>3, Zenon

(* push_back.                                                              *)
LEMMA PushBackProperties ==
    ASSUME NEW S, NEW w \in Seq(S), IsInjective(w), NEW t \in S, t \notin ToSet(w)
    PROVE  /\ Append(w, t) \in Seq(S)
           /\ IsInjective(Append(w, t))
           /\ ToSet(Append(w, t)) = ToSet(w) \cup {t}
  <1>1. PICK e : e = <<t>>
    OBVIOUS
  <1>2. e \in Seq(S) /\ IsInjective(e) /\ ToSet(e) = {t} /\ ToSet(w) \cap ToSet(e) = {}
    BY <1>1, OneElement
  <1>3. w \o e \in Seq(S) /\ IsInjective(w \o e) /\ ToSet(w \o e) = ToSet(w) \cup ToSet(e)
    BY <1>2, JoinProperties
  <1>4. Append(w, t) = w \o e
    BY <1>1, AppendIsConcat
  <1> QED
    BY <1>2, <1>3, <1>4, Zenon

(* pop_back.                                                               *)
LEMMA PopBackProperties ==
    ASSUME NEW S, NEW w \in Seq(S), IsInjective(w), w # <<>>
    PROVE  /\ Last(w) \in ToSet(w)
           /\ Front(w) \in Seq(S) /\ IsInjective(Front(w))
           /\ ToSet(Front(w)) = ToSet(w) \ {Last(w)}
  <1> DEFINE r == Front(w)
  <1>1. PICK n \in Nat \ {0} : n = Len(w)
    BY EmptySeq
  <1>2. DOMAIN w = 1..n
    BY <1>1, LenProperties
  <1>3. /\ r \in Seq(S) /\ Len(r) = n - 1
        /\ \A j \in 1..(n - 1) : r[j] = w[j]
    BY <1>1, <1>2 DEF Front
  <1>4. DOMAIN r = 1..(n - 1)
    BY <1>3, LenProperties
  <1>5. Last(w) = w[n] /\ Last(w) \in ToSet(w)
    BY <1>1, <1>2 DEF Last, ToSet
  <1> HIDE DEF r
  <1>6. IsInjective(r)
    BY <1>2, <1>3, <1>4 DEF IsInjective
  <1>7. \A j \in 1..(n - 1) : w[j] # w[n]
    BY <1>2 DEF IsInjective
  <1>8. ToSet(r) = ToSet(w) \ {w[n]}
    <2>1. \A j \in 1..(n - 1) : r[j] \in ToSet(w) \ {w[n]}
      BY <1>2, <1>3, <1>7 DEF ToSet
    <2>2. \A j \in 1..n : w[j] # w[n] => j \in 1..(n - 1) /\ w[j] = r[j]
      BY <1>3
    <2>3. \A j \in 1..n : w[j] # w[n] => w[j] \in ToSet(r)
      BY <1>4, <2>2 DEF ToSet
    <2> QED
      BY <1>2, <1>4, <2>1, <2>3 DEF ToSet
  <1> QED
    BY <1>3, <1>5, <1>6, <1>8 DEF r

(* retain on a deque that holds nothing twice.                             *)
LEMMA RetainProperties ==
    ASSUME NEW S, NEW w \in Seq(S), IsInjective(w), NEW A
    PROVE  /\ Retain(w, A) \in Seq(S)
           /\ IsInjective(Retain(w, A))
           /\ ToSet(Retain(w, A)) = ToSet(w) \cap A
  <1>1. PICK N \in Nat : N = Len(w) /\ DOMAIN w = 1..N
    BY LenProperties
  <1>2. PICK kept : Retain(w, A) = kept[Len(w)] /\ RetainChain(kept, w, A)
    BY <1>1, RetainSteps
  <1> DEFINE Sofar(n) == {w[j] : j \in 1..n} \cap A
             Good(n) == kept[n] \in Seq(S) /\ IsInjective(kept[n]) /\ ToSet(kept[n]) = Sofar(n)
             wrong == {n \in 0..N : ~Good(n)}
  <1>3. wrong = {}
    <2> SUFFICES ASSUME wrong # {} PROVE FALSE
      OBVIOUS
    <2>1. PICK m \in wrong : \A k \in wrong : m <= k
      <3>1. wrong \subseteq Nat
        OBVIOUS
      <3> HIDE DEF wrong
      <3> QED
        BY <3>1, LeastNatural
    <2>2. m \in 0..N /\ ~Good(m)
      BY <2>1
    <2>3. kept[m] = IF m = 0 THEN <<>>
                    ELSE IF w[m] \in A THEN Append(kept[m - 1], w[m]) ELSE kept[m - 1]
      BY <1>1, <1>2, <2>2 DEF RetainChain
    <2>4. CASE m = 0
      <3>1. kept[m] = <<>> /\ Sofar(m) = {}
        BY <2>3, <2>4
      <3> QED
        BY <2>2, <3>1 DEF IsInjective, ToSet
    <2>5. CASE m # 0
      <3>1. m - 1 \in 0..N /\ ~(m <= m - 1)
        BY <2>2, <2>5
      <3>2. m - 1 \notin wrong
        <4> HIDE DEF wrong
        <4> QED
          BY <2>1, <3>1
      <3>3. PICK v : v = kept[m - 1] /\ v \in Seq(S) /\ IsInjective(v) /\ ToSet(v) = Sofar(m - 1)
        BY <3>1, <3>2
      <3>4. m \in 1..N /\ w[m] \in S
        BY <1>1, <2>2, <2>5, ElementOfSeq
      <3>5. w[m] \notin Sofar(m - 1)
        <4>1. \A j \in 1..(m - 1) : j \in 1..N /\ j # m
          BY <3>4
        <4> QED
          BY <1>1, <3>4, <4>1 DEF IsInjective
      <3>6. Sofar(m) = IF w[m] \in A THEN Sofar(m - 1) \cup {w[m]} ELSE Sofar(m - 1)
        <4>1. 1..m = (1..(m - 1)) \cup {m}
          BY <3>4
        <4> QED
          BY <4>1
      <3> HIDE DEF Sofar
      <3>7. CASE w[m] \in A
        <4>1. kept[m] = Append(v, w[m])
          BY <2>3, <2>5, <3>3, <3>7
        <4>2. w[m] \notin ToSet(v)
          BY <3>3, <3>5
        <4>3. /\ Append(v, w[m]) \in Seq(S) /\ IsInjective(Append(v, w[m]))
              /\ ToSet(Append(v, w[m])) = ToSet(v) \cup {w[m]}
          BY <3>3, <3>4, <4>2, PushBackProperties
        <4> QED
          BY <2>2, <3>3, <3>6, <3>7, <4>1, <4>3
      <3>8. CASE w[m] \notin A
        BY <2>2, <2>3, <2>5, <3>3, <3>6, <3>8
      <3> QED
        BY <3>7, <3>8
    <2> QED
      BY <2>4, <2>5
  <1>4. Good(N) /\ Sofar(N) = ToSet(w) \cap A
    <2>1. N \in 0..N
      OBVIOUS
    <2>2. Good(N)
      BY <1>3, <2>1
    <2>3. Sofar(N) = ToSet(w) \cap A
      BY <1>1 DEF ToSet
    <2> QED
      BY <2>2, <2>3
  <1> HIDE DEF Sofar
  <1> QED
    BY <1>1, <1>2, <1>4

-----------------------------------------------------------------------------
(* The values of a first-come scheduler that holds no thread twice, and    *)
(* its operations with the parameters of the contract.                     *)
FcfsQueues == {q \in Seq(Thread) : IsInjective(q)}
FcfsRegister(q, t, pr) == FC!register(q, t)
FcfsSchedule(q, pr, cur, st) == FC!schedule(q)

(* What its operations do, in the terms of the lemmas above.               *)
LEMMA FcfsOperations ==
    /\ FC!Default = <<>>
    /\ \A q : FC!members(q) = ToSet(q)
    /\ \A q, t : FC!register(q, t) = <<t>> \o q
    /\ \A q : FC!schedule(q) = IF q = <<>> THEN [next |-> NoThread, queue |-> q]
                              ELSE [next |-> Last(q), queue |-> Front(q)]
  BY Zenon DEF FC!Default, FC!members, FC!register, FC!schedule,
               FC!ToSet, FC!Last, FC!Front, ToSet, Last, Front

(* scheduler::fcfs: no thread is lost or queued twice, and schedule()      *)
(* returns None only if nobody is queued, for any set of threads.          *)
THEOREM FcfsKeepsContract ==
    KeepsContract(FcfsQueues, FC!Default, FC!members, FcfsRegister, FcfsSchedule)
  <1>1. FC!Default \in FcfsQueues /\ FC!members(FC!Default) = {}
    BY FcfsOperations DEF FcfsQueues, IsInjective, ToSet
  <1>2. \A q \in FcfsQueues : FC!members(q) \subseteq Thread
    <2> SUFFICES ASSUME NEW q \in FcfsQueues PROVE ToSet(q) \subseteq Thread
      BY FcfsOperations
    <2>1. q \in Seq(Thread) /\ DOMAIN q = 1..Len(q)
      BY LenProperties DEF FcfsQueues
    <2> QED
      BY <2>1, ElementOfSeq DEF ToSet
  <1>3. ASSUME NEW q \in FcfsQueues, NEW pr, NEW t \in Thread \ FC!members(q)
        PROVE  /\ FcfsRegister(q, t, pr) \in FcfsQueues
               /\ FC!members(FcfsRegister(q, t, pr)) = FC!members(q) \cup {t}
    <2>1. q \in Seq(Thread) /\ IsInjective(q) /\ t \in Thread /\ t \notin ToSet(q)
      BY <1>3, FcfsOperations DEF FcfsQueues
    <2>2. FcfsRegister(q, t, pr) = <<t>> \o q
      BY FcfsOperations DEF FcfsRegister
    <2>3. /\ <<t>> \o q \in Seq(Thread) /\ IsInjective(<<t>> \o q)
          /\ ToSet(<<t>> \o q) = ToSet(q) \cup {t}
      BY <2>1, PushFrontProperties
    <2> QED
      BY <2>2, <2>3, FcfsOperations DEF FcfsQueues
  <1>4. ASSUME NEW q \in FcfsQueues, NEW pr, NEW cur, NEW st
        PROVE  LET r == FcfsSchedule(q, pr, cur, st) IN
               /\ r.queue \in FcfsQueues
               /\ r.next = NoThread => FC!members(r.queue) = FC!members(q) /\ FC!members(q) = {}
               /\ r.next # NoThread =>
                    r.next \in FC!members(q) /\ FC!members(r.queue) = FC!members(q) \ {r.next}
    <2>1. q \in Seq(Thread) /\ IsInjective(q)
      BY <1>4 DEF FcfsQueues
    <2>2. CASE q = <<>>
      <3>1. FcfsSchedule(q, pr, cur, st) = [next |-> NoThread, queue |-> q]
        BY <2>2, FcfsOperations DEF FcfsSchedule
      <3>2. FC!members(q) = {}
        BY <2>2, FcfsOperations DEF ToSet
      <3> QED
        BY <1>4, <3>1, <3>2
    <2>3. CASE q # <<>>
      <3>1. FcfsSchedule(q, pr, cur, st) = [next |-> Last(q), queue |-> Front(q)]
        BY <2>3, FcfsOperations DEF FcfsSchedule
      <3>2. /\ Last(q) \in ToSet(q)
            /\ Front(q) \in Seq(Thread) /\ IsInjective(Front(q))
            /\ ToSet(Front(q)) = ToSet(q) \ {Last(q)}
        BY <2>1, <2>3, PopBackProperties
      <3>3. Last(q) # NoThread
        BY <1>2, <1>4, <3>2, ThreadAssumption, FcfsOperations
      <3> QED
        BY <3>1, <3>2, <3>3, FcfsOperations DEF FcfsQueues
    <2> QED
      BY <2>2, <2>3
  <1> QED
    BY <1>1, <1>2, <1>3, <1>4 DEF KeepsContract

-----------------------------------------------------------------------------
(* The values of a priority scheduler that holds no thread twice.          *)
PrioQueues ==
    {q \in [Prio -> Seq(Thread)] :
        /\ \A p \in Prio : IsInjective(q[p])
        /\ \A p, r \in Prio : p # r => ToSet(q[p]) \cap ToSet(q[r]) = {}}

(* The threads of deque i that belong to deque p.                          *)
Moved(q, i, p, pr) == {t \in ToSet(q[i]) : pr[t] = p}

(* What its operations do, in the terms of the lemmas above.               *)
LEMMA PriorityOperations ==
    /\ PR!Default = [p \in Prio |-> <<>>]
    /\ \A q : PR!members(q) = UNION {ToSet(q[p]) : p \in Prio}
    /\ \A q, t, pr : PR!register(q, t, pr) = [q EXCEPT ![pr[t]] = <<t>> \o q[pr[t]]]
    /\ \A q, i, pr : PR!Rebucket(q, i, pr) =
          IF q[i] = <<>> THEN q
          ELSE [p \in Prio |-> IF p = i THEN Retain(q[i], Moved(q, i, p, pr))
                               ELSE q[p] \o Retain(q[i], Moved(q, i, p, pr))]
  <1>1. PR!Level = Prio
    BY DEF PR!Level, Prio
  <1>2. \A q : PR!ToSet(q) = ToSet(q)
    BY Zenon DEF PR!ToSet, ToSet
  <1>3. \A q, S : PR!Retain(q, S) = Retain(q, S)
    BY Zenon DEF PR!Retain, Retain
  <1>4. /\ PR!Default = [p \in Prio |-> <<>>]
        /\ \A q : PR!members(q) = UNION {ToSet(q[p]) : p \in Prio}
    BY <1>1, <1>2 DEF PR!Default, PR!members
  <1>5. \A q, t, pr : PR!register(q, t, pr) = [q EXCEPT ![pr[t]] = <<t>> \o q[pr[t]]]
    BY DEF PR!register
  <1>6. ASSUME NEW q, NEW i, NEW pr
        PROVE  PR!Rebucket(q, i, pr) =
                 IF q[i] = <<>> THEN q
                 ELSE [p \in Prio |-> IF p = i THEN Retain(q[i], Moved(q, i, p, pr))
                                      ELSE q[p] \o Retain(q[i], Moved(q, i, p, pr))]
    BY <1>1, <1>2, <1>3 DEF PR!Rebucket, Moved
  <1> QED
    BY <1>4, <1>5, <1>6

(* update_priority goes through its deques one after the other.            *)
TurnChain(turn, q, pr) ==
    \A i \in Prio : turn[i] = PR!Rebucket(IF i = 0 THEN q ELSE turn[i - 1], i, pr)

(* The values that update_priority goes through exist.                     *)
LEMMA UpdateSteps ==
    ASSUME NEW q, NEW pr
    PROVE  \E turn : PR!update_priority(q, pr) = turn[MaxPrio] /\ TurnChain(turn, q, pr)
  <1> DEFINE N == MaxPrio
             body(g, n) == PR!Rebucket(IF n = 0 THEN q ELSE g[n - 1], n, pr)
             Chain(m, g) == g = [n \in 0..m |-> body(g, n)]
             stuck == {m \in 0..N : ~ \E g : Chain(m, g)}
  <1>1. N \in Nat
    BY ThreadAssumption
  <1> HIDE DEF N
  <1>2. stuck = {}
    <2> SUFFICES ASSUME stuck # {} PROVE FALSE
      OBVIOUS
    <2>1. PICK m \in stuck : \A k \in stuck : m <= k
      <3>1. stuck \subseteq Nat
        BY <1>1
      <3> HIDE DEF stuck
      <3> QED
        BY <3>1, LeastNatural
    <2>2. m \in 0..N /\ ~ \E g : Chain(m, g)
      BY <2>1
    <2>3. CASE m = 0
      <3> DEFINE g == [n \in 0..0 |-> PR!Rebucket(q, n, pr)]
      <3>1. \A n \in 0..0 : PR!Rebucket(q, n, pr) = body(g, n)
        OBVIOUS
      <3>2. Chain(0, g)
        <4> HIDE DEF body
        <4>1. [n \in 0..0 |-> PR!Rebucket(q, n, pr)] = [n \in 0..0 |-> body(g, n)]
          BY <3>1
        <4> QED
          BY <4>1
      <3> QED
        BY <2>2, <2>3, <3>2
    <2>4. CASE m # 0
      <3>1. m - 1 \in 0..N /\ m - 1 \notin stuck
        <4>1. m \in 0..N
          BY <2>2
        <4> HIDE DEF stuck
        <4> QED
          BY <1>1, <2>1, <2>4, <4>1
      <3>2. PICK g : Chain(m - 1, g)
        BY <3>1
      <3> DEFINE last == PR!Rebucket(g[m - 1], m, pr)
                 h == [n \in 0..m |-> IF n = m THEN last ELSE g[n]]
      <3>3. \A n \in 0..m : h[n] = body(h, n)
        <4> SUFFICES ASSUME NEW n \in 0..m PROVE h[n] = body(h, n)
          OBVIOUS
        <4>1. CASE n = m
          <5>1. m - 1 \in 0..m /\ m - 1 # m
            BY <2>2, <2>4
          <5>2. h[m - 1] = g[m - 1]
            BY <5>1
          <5> QED
            BY <2>4, <4>1, <5>2
        <4>2. CASE n # m
          <5>1. n \in 0..(m - 1) /\ (n # 0 => n - 1 \in 0..m /\ n - 1 # m)
            BY <2>2, <2>4, <4>2
          <5>2. g[n] = body(g, n)
            BY <3>2, <5>1
          <5>3. n # 0 => h[n - 1] = g[n - 1]
            BY <5>1
          <5>4. h[n] = g[n]
            BY <4>2
          <5> HIDE DEF h
          <5>5. CASE n = 0
            BY <5>2, <5>4, <5>5
          <5>6. CASE n # 0
            BY <5>2, <5>3, <5>4, <5>6
          <5> QED
            BY <5>5, <5>6
        <4> QED
          BY <4>1, <4>2
      <3>4. Chain(m, h)
        <4>1. h = [n \in 0..m |-> h[n]]
          OBVIOUS
        <4> HIDE DEF h, body
        <4>2. [n \in 0..m |-> h[n]] = [n \in 0..m |-> body(h, n)]
          BY <3>3
        <4> QED
          BY <4>1, <4>2
      <3> QED
        BY <2>2, <3>4
    <2> QED
      BY <2>3, <2>4
  <1>3. \E g : Chain(N, g)
    <2>1. N \in 0..N
      BY <1>1
    <2> HIDE DEF Chain
    <2> QED
      BY <1>2, <2>1
  <1> DEFINE turn == CHOOSE g : Chain(N, g)
  <1>4. PR!update_priority(q, pr) = turn[N]
    BY DEF PR!update_priority, PR!Level, N
  <1>5. Chain(N, turn)
    <2> HIDE DEF Chain
    <2> QED
      BY <1>3
  <1> HIDE DEF turn
  <1>6. TurnChain(turn, q, pr)
    BY <1>5 DEF TurnChain, N, Prio
  <1> QED
    BY <1>4, <1>6 DEF N

(* One turn of update_priority: the threads of deque i whose priority is   *)
(* another's join that deque, and nobody is lost or queued twice.          *)
LEMMA RebucketProperties ==
    ASSUME NEW q \in PrioQueues, NEW i \in Prio, NEW pr \in [Thread -> Prio]
    PROVE  /\ PR!Rebucket(q, i, pr) \in PrioQueues
           /\ \A p \in Prio : ToSet(PR!Rebucket(q, i, pr)[p]) =
                 IF p = i THEN Moved(q, i, p, pr) ELSE ToSet(q[p]) \cup Moved(q, i, p, pr)
           /\ PR!members(PR!Rebucket(q, i, pr)) = PR!members(q)
  <1>1. PICK r : r = PR!Rebucket(q, i, pr)
    OBVIOUS
  <1>2. /\ q \in [Prio -> Seq(Thread)]
        /\ \A p \in Prio : q[p] \in Seq(Thread) /\ IsInjective(q[p])
        /\ \A p, s \in Prio : p # s => ToSet(q[p]) \cap ToSet(q[s]) = {}
    BY DEF PrioQueues
  <1>3. \A t \in ToSet(q[i]) : t \in Thread
    <2>1. PICK w \in Seq(Thread) : w = q[i]
      BY <1>2
    <2>2. DOMAIN w = 1..Len(w)
      BY LenProperties
    <2> QED
      BY <2>1, <2>2, ElementOfSeq DEF ToSet
  <1>4. CASE q[i] = <<>>
    <2>1. r = q
      BY <1>1, <1>4, PriorityOperations
    <2>2. ToSet(q[i]) = {}
      BY <1>4 DEF ToSet
    <2>3. \A p \in Prio : Moved(q, i, p, pr) = {}
      BY <2>2 DEF Moved
    <2>4. \A p \in Prio : ToSet(q[p]) =
                 IF p = i THEN Moved(q, i, p, pr) ELSE ToSet(q[p]) \cup Moved(q, i, p, pr)
      BY <2>2, <2>3
    <2> QED
      BY <1>1, <2>1, <2>4
  <1>5. CASE q[i] # <<>>
    <2>1. r = [p \in Prio |-> IF p = i THEN Retain(q[i], Moved(q, i, p, pr))
                              ELSE q[p] \o Retain(q[i], Moved(q, i, p, pr))]
      BY <1>1, <1>5, PriorityOperations
    <2>2. ASSUME NEW p \in Prio
          PROVE  /\ r[p] \in Seq(Thread) /\ IsInjective(r[p])
                 /\ ToSet(r[p]) = IF p = i THEN Moved(q, i, p, pr)
                                  ELSE ToSet(q[p]) \cup Moved(q, i, p, pr)
      <3>1. PICK v : v = Retain(q[i], Moved(q, i, p, pr))
        OBVIOUS
      <3>2. v \in Seq(Thread) /\ IsInjective(v) /\ ToSet(v) = ToSet(q[i]) \cap Moved(q, i, p, pr)
        BY <1>2, <3>1, RetainProperties
      <3>3. ToSet(v) = Moved(q, i, p, pr)
        BY <3>2 DEF Moved
      <3>4. CASE p = i
        BY <2>1, <3>1, <3>2, <3>3, <3>4
      <3>5. CASE p # i
        <4>1. r[p] = q[p] \o v
          BY <2>1, <3>1, <3>5
        <4>2. ToSet(q[p]) \cap ToSet(v) = {}
          BY <1>2, <3>2, <3>5
        <4>3. /\ q[p] \o v \in Seq(Thread) /\ IsInjective(q[p] \o v)
              /\ ToSet(q[p] \o v) = ToSet(q[p]) \cup ToSet(v)
          BY <1>2, <3>2, <4>2, JoinProperties
        <4> QED
          BY <3>3, <3>5, <4>1, <4>3
      <3> QED
        BY <3>4, <3>5
    <2>3. ASSUME NEW p \in Prio, NEW s \in Prio, p # s
          PROVE  ToSet(r[p]) \cap ToSet(r[s]) = {}
      <3>1. \A t : ~(t \in Moved(q, i, p, pr) /\ t \in Moved(q, i, s, pr))
        BY <2>3 DEF Moved
      <3>2. Moved(q, i, p, pr) \subseteq ToSet(q[i]) /\ Moved(q, i, s, pr) \subseteq ToSet(q[i])
        BY DEF Moved
      <3>3. ToSet(q[p]) \cap ToSet(q[s]) = {}
        BY <1>2, <2>3
      <3>4. p # i => ToSet(q[p]) \cap ToSet(q[i]) = {}
        BY <1>2
      <3>5. s # i => ToSet(q[s]) \cap ToSet(q[i]) = {}
        BY <1>2
      <3> QED
        BY <2>2, <2>3, <3>1, <3>2, <3>3, <3>4, <3>5
    <2>4. r \in [Prio -> Seq(Thread)]
      <3>1. r = [p \in Prio |-> r[p]]
        BY <2>1
      <3> QED
        BY <2>2, <3>1
    <2>5. r \in PrioQueues
      BY <2>2, <2>3, <2>4 DEF PrioQueues
    <2>6. \A t : (\E p \in Prio : t \in ToSet(r[p])) <=> (\E p \in Prio : t \in ToSet(q[p]))
      <3> SUFFICES ASSUME NEW t
                   PROVE  (\E p \in Prio : t \in ToSet(r[p])) <=> (\E p \in Prio : t \in ToSet(q[p]))
        OBVIOUS
      <3>1. ASSUME NEW p \in Prio, t \in ToSet(r[p]) PROVE \E s \in Prio : t \in ToSet(q[s])
        BY <2>2, <3>1 DEF Moved
      <3>2. ASSUME NEW p \in Prio, t \in ToSet(q[p]) PROVE \E s \in Prio : t \in ToSet(r[s])
        <4>1. CASE p # i
          BY <2>2, <3>2, <4>1
        <4>2. CASE p = i
          <5>1. t \in Thread /\ pr[t] \in Prio
            BY <1>3, <3>2, <4>2
          <5>2. t \in Moved(q, i, pr[t], pr)
            BY <3>2, <4>2 DEF Moved
          <5>3. t \in ToSet(r[pr[t]])
            BY <2>2, <5>1, <5>2
          <5> QED
            BY <5>1, <5>3
        <4> QED
          BY <4>1, <4>2
      <3> QED
        BY <3>1, <3>2
    <2>7. PR!members(r) = PR!members(q)
      BY <2>6, PriorityOperations
    <2> QED
      BY <1>1, <2>2, <2>5, <2>7
  <1> QED
    BY <1>4, <1>5

(* Deque p holds only threads of priority p, for every p up to i.          *)
InPlace(q, i, pr) == \A p \in 0..i : \A t \in ToSet(q[p]) : pr[t] = p

(* update_priority leaves every thread in the deque of its priority, and   *)
(* loses or doubles nobody.                                                *)
LEMMA UpdateProperties ==
    ASSUME NEW q \in PrioQueues, NEW pr \in [Thread -> Prio]
    PROVE  /\ PR!update_priority(q, pr) \in PrioQueues
           /\ PR!members(PR!update_priority(q, pr)) = PR!members(q)
           /\ InPlace(PR!update_priority(q, pr), MaxPrio, pr)
  <1>1. PICK turn : PR!update_priority(q, pr) = turn[MaxPrio] /\ TurnChain(turn, q, pr)
    BY UpdateSteps
  <1>2. MaxPrio \in Nat
    BY ThreadAssumption
  <1> DEFINE Good(i) == /\ turn[i] \in PrioQueues
                        /\ PR!members(turn[i]) = PR!members(q)
                        /\ InPlace(turn[i], i, pr)
             wrong == {i \in 0..MaxPrio : ~Good(i)}
  <1>3. wrong = {}
    <2> SUFFICES ASSUME wrong # {} PROVE FALSE
      OBVIOUS
    <2>1. PICK m \in wrong : \A k \in wrong : m <= k
      <3>1. wrong \subseteq Nat
        BY <1>2
      <3> HIDE DEF wrong
      <3> QED
        BY <3>1, LeastNatural
    <2>2. m \in 0..MaxPrio /\ ~Good(m)
      BY <2>1
    <2>3. m \in Prio
      BY <2>2 DEF Prio
    <2>4. PICK from : from = IF m = 0 THEN q ELSE turn[m - 1]
      OBVIOUS
    <2>5. turn[m] = PR!Rebucket(from, m, pr)
      BY <1>1, <2>3, <2>4 DEF TurnChain
    <2>6. /\ from \in PrioQueues
          /\ PR!members(from) = PR!members(q)
          /\ \A p \in 0..m : p # m => \A t \in ToSet(from[p]) : pr[t] = p
      <3>1. CASE m = 0
        BY <2>2, <2>4, <3>1
      <3>2. CASE m # 0
        <4>1. m - 1 \in 0..MaxPrio /\ ~(m <= m - 1)
          BY <1>2, <2>2, <3>2
        <4>2. m - 1 \notin wrong
          <5> HIDE DEF wrong
          <5> QED
            BY <2>1, <4>1
        <4>3. Good(m - 1)
          BY <4>1, <4>2
        <4>4. \A p \in 0..m : p # m => p \in 0..(m - 1)
          BY <2>2
        <4> QED
          BY <2>4, <3>2, <4>3, <4>4 DEF InPlace
      <3> QED
        BY <3>1, <3>2
    <2>7. /\ turn[m] \in PrioQueues
          /\ \A p \in Prio : ToSet(turn[m][p]) =
                IF p = m THEN Moved(from, m, p, pr) ELSE ToSet(from[p]) \cup Moved(from, m, p, pr)
          /\ PR!members(turn[m]) = PR!members(from)
      <3>1. /\ PR!Rebucket(from, m, pr) \in PrioQueues
            /\ \A p \in Prio : ToSet(PR!Rebucket(from, m, pr)[p]) =
                 IF p = m THEN Moved(from, m, p, pr) ELSE ToSet(from[p]) \cup Moved(from, m, p, pr)
            /\ PR!members(PR!Rebucket(from, m, pr)) = PR!members(from)
        BY <2>3, <2>6, RebucketProperties
      <3> QED
        BY <2>5, <3>1, Zenon
    <2>8. InPlace(turn[m], m, pr)
      <3> SUFFICES ASSUME NEW p \in 0..m, NEW t \in ToSet(turn[m][p]) PROVE pr[t] = p
        BY DEF InPlace
      <3>1. p \in Prio
        BY <1>2, <2>2 DEF Prio
      <3>2. t \in Moved(from, m, p, pr) \/ (p # m /\ t \in ToSet(from[p]))
        BY <2>7, <3>1
      <3> QED
        BY <2>6, <3>2 DEF Moved
    <2> QED
      BY <2>2, <2>6, <2>7, <2>8
  <1>4. Good(MaxPrio)
    <2>1. MaxPrio \in 0..MaxPrio
      BY <1>2
    <2> QED
      BY <1>3, <2>1
  <1> QED
    BY <1>1, <1>4

(* The highest deque in use.                                               *)
LEMMA HighestUsed ==
    ASSUME NEW S, S \subseteq Prio, S # {}
    PROVE  PR!Max(S) \in S /\ \A p \in S : p <= PR!Max(S)
  <1>1. MaxPrio \in Nat
    BY ThreadAssumption
  <1> DEFINE above == {n \in Nat : \A p \in S : p <= n}
  <1>2. above \subseteq Nat /\ MaxPrio \in above
    BY <1>1 DEF Prio
  <1>3. PICK n \in above : \A k \in above : n <= k
    <2> HIDE DEF above
    <2> QED
      BY <1>2, LeastNatural
  <1>4. n \in Nat /\ \A p \in S : p \in Nat /\ p <= n
    BY <1>1, <1>3 DEF Prio
  <1>5. n \in S
    <2> SUFFICES ASSUME n \notin S PROVE FALSE
      OBVIOUS
    <2>1. PICK p \in S : TRUE
      OBVIOUS
    <2>2. n - 1 \in Nat /\ \A s \in S : s <= n - 1
      BY <1>4, <2>1
    <2>3. n - 1 \in above /\ ~(n <= n - 1)
      BY <1>4, <2>2
    <2> HIDE DEF above
    <2> QED
      BY <1>3, <2>3
  <1>6. \A p \in S : n >= p
    BY <1>4
  <1>7. PR!Max(S) = CHOOSE x \in S : \A y \in S : x >= y
    BY DEF PR!Max
  <1>8. PR!Max(S) \in S /\ \A p \in S : PR!Max(S) >= p
    BY <1>5, <1>6, <1>7
  <1> QED
    BY <1>4, <1>8

(* schedule, in the terms of the lemmas above.                             *)
LEMMA ScheduleOperation ==
    ASSUME NEW q, NEW pr, NEW cur, NEW st, NEW u, u = PR!update_priority(q, pr),
           NEW used, used = {p \in Prio : u[p] # <<>>},
           NEW top, top = PR!Max(used)
    PROVE  PR!schedule(q, pr, cur, st) =
             IF used = {} \/ (st = "Running" /\ pr[Last(u[top])] < pr[cur])
             THEN [next |-> NoThread, queue |-> u]
             ELSE [next |-> Last(u[top]), queue |-> [u EXCEPT ![top] = Front(u[top])]]
  <1>1. PR!Level = Prio
    BY DEF PR!Level, Prio
  <1>2. \A w : PR!Last(w) = Last(w) /\ PR!Front(w) = Front(w)
    BY Zenon DEF PR!Last, PR!Front, Last, Front
  <1> QED
    BY <1>1, <1>2 DEF PR!schedule

(* What schedule returns and what it leaves: nobody is lost, the thread    *)
(* it returns has the highest priority of all, and it returns None only    *)
(* when the current thread runs and has a higher one or nobody is queued.  *)
LEMMA ScheduleProperties ==
    ASSUME NEW q \in PrioQueues, NEW pr \in [Thread -> Prio], NEW cur \in Thread, NEW st
    PROVE  LET r == PR!schedule(q, pr, cur, st) IN
           /\ r.queue \in PrioQueues
           /\ r.next = NoThread =>
                /\ PR!members(r.queue) = PR!members(q)
                /\ st = "Running" \/ PR!members(q) = {}
                /\ \A t \in PR!members(q) : pr[t] <= pr[cur]
           /\ r.next # NoThread =>
                /\ r.next \in PR!members(q)
                /\ PR!members(r.queue) = PR!members(q) \ {r.next}
                /\ \A t \in PR!members(q) : pr[t] <= pr[r.next]
                /\ st = "Running" => pr[cur] <= pr[r.next]
  <1>1. PICK u : u = PR!update_priority(q, pr)
    OBVIOUS
  <1>2. PICK used : used = {p \in Prio : u[p] # <<>>}
    OBVIOUS
  <1>3. PICK top : top = PR!Max(used)
    OBVIOUS
  <1>4. PICK r : r = PR!schedule(q, pr, cur, st)
    OBVIOUS
  <1>5. r = IF used = {} \/ (st = "Running" /\ pr[Last(u[top])] < pr[cur])
            THEN [next |-> NoThread, queue |-> u]
            ELSE [next |-> Last(u[top]), queue |-> [u EXCEPT ![top] = Front(u[top])]]
    BY <1>1, <1>2, <1>3, <1>4, ScheduleOperation
  <1>6. u \in PrioQueues /\ PR!members(u) = PR!members(q) /\ InPlace(u, MaxPrio, pr)
    BY <1>1, UpdateProperties
  <1>7. /\ u \in [Prio -> Seq(Thread)]
        /\ \A p \in Prio : u[p] \in Seq(Thread) /\ IsInjective(u[p])
        /\ \A p, s \in Prio : p # s => ToSet(u[p]) \cap ToSet(u[s]) = {}
        /\ \A p \in Prio : \A t \in ToSet(u[p]) : pr[t] = p
    BY <1>6 DEF PrioQueues, InPlace, Prio
  <1>8. PR!members(q) = UNION {ToSet(u[p]) : p \in Prio}
    BY <1>6, PriorityOperations
  <1>9. \A p \in Prio : p \notin used => ToSet(u[p]) = {}
    BY <1>2 DEF ToSet
  <1>10. CASE used = {}
    <2>1. PR!members(q) = {}
      BY <1>8, <1>9, <1>10
    <2>2. r.next = NoThread /\ r.queue = u
      BY <1>5, <1>10
    <2> QED
      BY <1>4, <1>6, <2>1, <2>2
  <1>11. CASE used # {}
    <2>1. top \in used /\ \A p \in used : p <= top
      BY <1>2, <1>3, <1>11, HighestUsed
    <2>2. top \in Prio /\ u[top] # <<>>
      BY <1>2, <2>1
    <2>3. PICK w \in Seq(Thread) : w = u[top]
      BY <1>7, <2>2
    <2>4. PICK e : e = Last(w)
      OBVIOUS
    <2>5. PICK f : f = Front(w)
      OBVIOUS
    <2>6. /\ e \in ToSet(w) /\ f \in Seq(Thread) /\ IsInjective(f)
          /\ ToSet(f) = ToSet(w) \ {e}
      BY <1>7, <2>2, <2>3, <2>4, <2>5, PopBackProperties
    <2>7. e \in Thread /\ e # NoThread
      <3>1. DOMAIN w = 1..Len(w)
        BY LenProperties
      <3>2. e \in Thread
        BY <2>3, <2>6, <3>1, ElementOfSeq DEF ToSet
      <3> QED
        BY <3>2, ThreadAssumption
    <2>8. pr[e] = top
      BY <1>7, <2>2, <2>3, <2>6
    <2>9. ASSUME NEW t \in PR!members(q)
          PROVE  pr[t] <= top
      <3>1. PICK p \in Prio : t \in ToSet(u[p])
        BY <1>8, <2>9
      <3>2. p \in used /\ pr[t] = p
        BY <1>7, <1>9, <3>1
      <3> QED
        BY <2>1, <3>2
    <2>10. pr[cur] \in Nat /\ top \in Nat /\ \A t \in PR!members(q) : pr[t] \in Nat
      <3>1. \A p \in Prio : p \in Nat
        BY ThreadAssumption DEF Prio
      <3>2. \A t \in PR!members(q) : pr[t] \in Prio
        BY <1>7, <1>8
      <3> QED
        BY <2>2, <3>1, <3>2
    <2>11. CASE st = "Running" /\ pr[e] < pr[cur]
      <3>1. r = [next |-> NoThread, queue |-> u]
        BY <1>5, <2>3, <2>4, <2>11
      <3>2. \A t \in PR!members(q) : pr[t] <= pr[cur]
        BY <2>8, <2>9, <2>10, <2>11
      <3> QED
        BY <1>4, <1>6, <2>11, <3>1, <3>2
    <2>12. CASE ~(st = "Running" /\ pr[e] < pr[cur])
      <3>1. r = [next |-> e, queue |-> [u EXCEPT ![top] = f]]
        BY <1>5, <1>11, <2>3, <2>4, <2>5, <2>12
      <3>2. PICK v : v = [u EXCEPT ![top] = f]
        OBVIOUS
      <3>3. v \in [Prio -> Seq(Thread)] /\ \A p \in Prio : v[p] = IF p = top THEN f ELSE u[p]
        BY <1>7, <2>2, <2>6, <3>2
      <3>4. \A p \in Prio : ToSet(v[p]) = IF p = top THEN ToSet(u[p]) \ {e} ELSE ToSet(u[p])
        BY <2>3, <2>6, <3>3
      <3>5. \A p \in Prio : IsInjective(v[p])
        BY <1>7, <2>6, <3>3
      <3>6. \A p, s \in Prio : p # s => ToSet(v[p]) \cap ToSet(v[s]) = {}
        BY <1>7, <3>4
      <3>7. v \in PrioQueues
        BY <3>3, <3>5, <3>6 DEF PrioQueues
      <3>8. e \in PR!members(q)
        BY <1>8, <2>2, <2>3, <2>6
      <3>9. \A p \in Prio : e \in ToSet(u[p]) => p = top
        BY <1>7, <2>8
      <3>10. PR!members(v) = PR!members(q) \ {e}
        <4>1. PR!members(v) = UNION {ToSet(v[p]) : p \in Prio}
          BY PriorityOperations
        <4>2. \A p \in Prio : ToSet(v[p]) = ToSet(u[p]) \ {e}
          BY <3>4, <3>9
        <4>3. \A t : t \in PR!members(v) <=> \E p \in Prio : t \in ToSet(v[p])
          BY <4>1
        <4>4. \A t : t \in PR!members(q) <=> \E p \in Prio : t \in ToSet(u[p])
          BY <1>8
        <4>5. \A t : t \in PR!members(v) <=> t \in PR!members(q) /\ t # e
          BY <4>2, <4>3, <4>4
        <4> QED
          BY <4>5
      <3>11. \A t \in PR!members(q) : pr[t] <= pr[e]
        BY <2>8, <2>9
      <3>12. st = "Running" => pr[cur] <= pr[e]
        BY <2>8, <2>10, <2>12
      <3>13. r.next = e /\ r.queue = v
        BY <3>1, <3>2
      <3> QED
        BY <1>4, <2>7, <3>7, <3>8, <3>10, <3>11, <3>12, <3>13
    <2> QED
      BY <2>11, <2>12
  <1> QED
    BY <1>10, <1>11

(* scheduler::priority: no thread is lost or queued twice by register and  *)
(* schedule, update_priority and its moves between the deques included,    *)
(* and None is returned only if the current thread can go on or nobody is  *)
(* queued, for any set of threads and any number of priorities.            *)
THEOREM PriorityKeepsContract ==
    KeepsContract(PrioQueues, PR!Default, PR!members, PR!register, PR!schedule)
  <1>1. PR!Default \in PrioQueues /\ PR!members(PR!Default) = {}
    <2>1. \A p \in Prio : PR!Default[p] = <<>>
      BY PriorityOperations
    <2>2. PR!Default \in [Prio -> Seq(Thread)]
      BY PriorityOperations
    <2>3. \A p \in Prio : IsInjective(PR!Default[p]) /\ ToSet(PR!Default[p]) = {}
      BY <2>1 DEF IsInjective, ToSet
    <2>4. PR!Default \in PrioQueues
      BY <2>2, <2>3 DEF PrioQueues
    <2>5. PR!members(PR!Default) = UNION {ToSet(PR!Default[p]) : p \in Prio}
      BY PriorityOperations
    <2> QED
      BY <2>3, <2>4, <2>5
  <1>2. ASSUME NEW q \in PrioQueues
        PROVE  PR!members(q) \subseteq Thread
    <2> SUFFICES ASSUME NEW p \in Prio, NEW t \in ToSet(q[p]) PROVE t \in Thread
      BY PriorityOperations
    <2>1. PICK w \in Seq(Thread) : w = q[p]
      BY DEF PrioQueues
    <2>2. DOMAIN w = 1..Len(w)
      BY LenProperties
    <2> QED
      BY <2>1, <2>2, ElementOfSeq DEF ToSet
  <1>3. ASSUME NEW q \in PrioQueues, NEW pr \in [Thread -> Prio], NEW t \in Thread \ PR!members(q)
        PROVE  /\ PR!register(q, t, pr) \in PrioQueues
               /\ PR!members(PR!register(q, t, pr)) = PR!members(q) \cup {t}
    <2>1. PICK i \in Prio : i = pr[t]
      OBVIOUS
    <2>2. PICK w \in Seq(Thread) : w = q[i]
      BY DEF PrioQueues
    <2>3. /\ q \in [Prio -> Seq(Thread)]
          /\ \A p \in Prio : IsInjective(q[p]) /\ t \notin ToSet(q[p])
          /\ \A p, s \in Prio : p # s => ToSet(q[p]) \cap ToSet(q[s]) = {}
      BY PriorityOperations DEF PrioQueues
    <2>4. PICK f : f = <<t>> \o w
      OBVIOUS
    <2>5. f \in Seq(Thread) /\ IsInjective(f) /\ ToSet(f) = ToSet(w) \cup {t}
      BY <2>2, <2>3, <2>4, PushFrontProperties
    <2>6. PICK v : v = [q EXCEPT ![i] = f]
      OBVIOUS
    <2>7. PR!register(q, t, pr) = v
      <3>1. PR!register(q, t, pr) = [q EXCEPT ![pr[t]] = <<t>> \o q[pr[t]]]
        BY PriorityOperations
      <3> QED
        BY <2>1, <2>2, <2>4, <2>6, <3>1, Zenon
    <2>8. v \in [Prio -> Seq(Thread)] /\ \A p \in Prio : v[p] = IF p = i THEN f ELSE q[p]
      BY <2>3, <2>5, <2>6
    <2>9. \A p \in Prio : ToSet(v[p]) = IF p = i THEN ToSet(q[p]) \cup {t} ELSE ToSet(q[p])
      BY <2>2, <2>5, <2>8
    <2>10. \A p \in Prio : IsInjective(v[p])
      BY <2>3, <2>5, <2>8
    <2>11. \A p, s \in Prio : p # s => ToSet(v[p]) \cap ToSet(v[s]) = {}
      BY <2>3, <2>9
    <2>12. v \in PrioQueues
      BY <2>8, <2>10, <2>11 DEF PrioQueues
    <2>13. \A x : x \in PR!members(v) <=> \E p \in Prio : x \in ToSet(v[p])
      BY PriorityOperations
    <2>14. \A x : x \in PR!members(q) <=> \E p \in Prio : x \in ToSet(q[p])
      BY PriorityOperations
    <2>15. \A x : x \in PR!members(v) <=> x \in PR!members(q) \/ x = t
      BY <2>9, <2>13, <2>14
    <2>16. PR!members(v) = PR!members(q) \cup {t}
      BY <2>15
    <2> QED
      BY <2>7, <2>12, <2>16
  <1>4. ASSUME NEW q \in PrioQueues, NEW pr \in [Thread -> Prio], NEW cur \in Thread, NEW st
        PROVE  LET r == PR!schedule(q, pr, cur, st) IN
               /\ r.queue \in PrioQueues
               /\ r.next = NoThread =>
                    /\ PR!members(r.queue) = PR!members(q)
                    /\ st = "Running" \/ PR!members(q) = {}
               /\ r.next # NoThread =>
                    /\ r.next \in PR!members(q)
                    /\ PR!members(r.queue) = PR!members(q) \ {r.next}
    BY ScheduleProperties
  <1> QED
    BY <1>1, <1>2, <1>3, <1>4 DEF KeepsContract

(* scheduler::priority: schedule returns a thread of the highest priority  *)
(* in the queue, and takes the processor from a running thread only for    *)
(* one of at least its own, although priorities are changed behind the     *)
(* back of the deques.                                                     *)
THEOREM PriorityServesHighest ==
    ServesHighest(PrioQueues, PR!members, PR!schedule)
  <1>1. ASSUME NEW q \in PrioQueues, NEW pr \in [Thread -> Prio], NEW cur \in Thread, NEW st
        PROVE  LET r == PR!schedule(q, pr, cur, st) IN
               /\ r.next = NoThread => \A t \in PR!members(q) : pr[t] <= pr[cur]
               /\ r.next # NoThread =>
                    /\ \A t \in PR!members(q) : pr[t] <= pr[r.next]
                    /\ st = "Running" => pr[cur] <= pr[r.next]
    BY ScheduleProperties
  <1> QED
    BY <1>1 DEF ServesHighest

-----------------------------------------------------------------------------
(* The manager.  The two halves of the contract, each for one call.        *)
LEMMA ScheduleContract ==
    ASSUME NEW q \in Queue, NEW pr \in [Thread -> Prio], NEW cur \in Thread,
           NEW s \in Status
    PROVE  LET r == Schedule(q, pr, cur, s)
           IN  /\ r.queue \in Queue
               /\ r.next = NoThread =>
                    Members(r.queue) = Members(q) /\ (s = "Running" \/ Members(q) = {})
               /\ r.next # NoThread =>
                    r.next \in Members(q) /\ Members(r.queue) = Members(q) \ {r.next}
  BY Contract DEF KeepsContract

LEMMA RegisterContract ==
    ASSUME NEW q \in Queue, NEW pr \in [Thread -> Prio], NEW t \in Thread \ Members(q)
    PROVE  Register(q, t, pr) \in Queue /\ Members(Register(q, t, pr)) = Members(q) \cup {t}
  BY Contract DEF KeepsContract

(* A call of schedule() finds a thread to run, fails none of its           *)
(* assertions, and leaves the manager as it found it: the run queue holds  *)
(* the Ready threads, and only the current thread runs.                    *)
LEMMA ScheduleKeeps ==
    ASSUME NEW STATE st, Schedulable(st), schedule(st)
    PROVE  /\ panic' = "none"
           /\ current' \in Thread
           /\ all' \subseteq Thread
           /\ status' \in [Thread -> Status]
           /\ rq' \in Queue /\ Members(rq') = ReadyIn(status')
           /\ status'[current'] = "Running"
           /\ \A t \in Thread \ {current'} : status'[t] # "Running"
           /\ status'[Idle] \in {"Ready", "Running"}
           /\ \A t \in Thread : \A s \in {"Blocked", "Dying", "None"} :
                status'[t] = s <=> st[t] = s
  <1> DEFINE running == st[current] = "Running"
             choice  == Schedule(rq, prio, current, st[current])
             next    == choice.next
             q       == choice.queue
             mark    == [st EXCEPT ![next] = "Running"]
  <1> USE ThreadAssumption DEF Schedulable
  <1>1. /\ q \in Queue
        /\ next = NoThread => Members(q) = Members(rq) /\ (running \/ Members(rq) = {})
        /\ next # NoThread => next \in Members(rq) /\ Members(q) = Members(rq) \ {next}
    BY ScheduleContract
  <1>2. running \/ Idle \in Members(rq)
    BY DEF ReadyIn
  <1>3. next = NoThread => running
    BY <1>1, <1>2
  <1>4. next # NoThread => next \in Thread /\ st[next] = "Ready" /\ next # current
    BY <1>1 DEF ReadyIn
  <1>5. panic' = "none"
    BY <1>3, <1>4 DEF schedule, SchedulePanic
  <1>6. CASE next = NoThread
    <2>1. status' = st /\ rq' = q /\ current' = current /\ all' = all
      BY <1>5, <1>6 DEF schedule
    <2> QED
      BY <1>1, <1>3, <1>5, <1>6, <2>1 DEF ReadyIn
  <1>7. CASE next # NoThread
    <2>1. current' = next /\ schedule_tail(mark, q)
      BY <1>5, <1>7 DEF schedule
    <2>2. mark \in [Thread -> Status] /\ mark[current] = st[current] /\ mark[next] = "Running"
          /\ \A t \in Thread \ {next} : mark[t] = st[t]
      BY <1>4, <1>7 DEF Status
    <2>3. ReadyIn(mark) = ReadyIn(st) \ {next}
      BY <2>2 DEF ReadyIn
    <2>4. all' \subseteq Thread
      BY <2>1 DEF schedule_tail
    <2>5. CASE running
      <3>1. /\ status' = [mark EXCEPT ![current] = "Ready"]
            /\ rq' = Register(q, current, prio)
        BY <2>1, <2>2, <2>5 DEF schedule_tail
      <3>2. current \notin Members(q)
        BY <1>1, <1>7, <2>5 DEF ReadyIn
      <3>3. rq' \in Queue /\ Members(rq') = Members(q) \cup {current}
        BY <1>1, <3>1, <3>2, Contract DEF KeepsContract
      <3>4. /\ status' \in [Thread -> Status]
            /\ status'[current] = "Ready" /\ status'[next] = "Running"
            /\ \A t \in Thread \ {current, next} : status'[t] = st[t]
        BY <1>4, <1>7, <2>2, <3>1 DEF Status
      <3>5. ReadyIn(status') = ReadyIn(mark) \cup {current}
        BY <2>2, <3>1, <3>4 DEF ReadyIn
      <3>6. Members(rq') = ReadyIn(status')
        BY <1>1, <1>7, <2>3, <3>3, <3>5
      <3> QED
        BY <1>4, <1>5, <1>7, <2>1, <2>4, <2>5, <3>3, <3>4, <3>6
    <2>6. CASE ~running
      <3>1. status' = mark /\ rq' = q
        BY <2>1, <2>2, <2>6 DEF schedule_tail
      <3> QED
        BY <1>1, <1>4, <1>5, <1>7, <2>1, <2>2, <2>3, <2>4, <2>6, <3>1
    <2> QED
      BY <2>5, <2>6
  <1> QED
    BY <1>6, <1>7

-----------------------------------------------------------------------------
(* Initially Idle is the only thread in the run queue.                     *)
LEMMA InitEstablishes == ThreadInit => ThreadInv
  <1> SUFFICES ASSUME ThreadInit PROVE ThreadInv
    OBVIOUS
  <1> USE ThreadAssumption DEF ThreadInit
  <1>1. prio \in [Thread -> Prio]
    BY DEF Prio
  <1>2. rq \in Queue /\ Members(rq) = {Idle}
    <2>1. Idle \in Thread \ Members(EmptyQueue)
      BY Contract DEF KeepsContract
    <2>2. rq = Register(EmptyQueue, Idle, prio)
      OBVIOUS
    <2>3. EmptyQueue \in Queue /\ Members(EmptyQueue) = {}
      BY Contract DEF KeepsContract
    <2> HIDE DEF ThreadInit
    <2> QED
      BY <1>1, <2>1, <2>2, <2>3, Contract DEF KeepsContract
  <1>3. ThreadTypeOK
    <2>1. current \in Thread /\ status \in [Thread -> Status] /\ all \subseteq Thread
      BY DEF Status
    <2>2. ticks \in 0..MaxTicks /\ resched \in [Thread -> Nat]
      OBVIOUS
    <2>3. /\ priority_setted \in [Thread -> Prio \cup {NoArg}]
          /\ sleepq \subseteq [ticks : Int, thread : Thread]
          /\ pc \in [Thread -> Label] /\ panic \in Panic
      BY DEF Label, Panic
    <2>4. intr \in [Thread -> BOOLEAN] /\ ticking \in BOOLEAN /\ selfWoken \in BOOLEAN
      OBVIOUS
    <2> QED
      BY <1>1, <2>1, <2>2, <2>3, <2>4 DEF ThreadTypeOK
  <1>4. Schedulable(status)
    BY <1>1, <1>2 DEF Schedulable, ReadyIn, Status
  <1> QED
    BY <1>3, <1>4 DEF ThreadInv, ArgOK, IdleRuns

(* A step that ends in a call of schedule() keeps the invariant.           *)
LEMMA ScheduleStepKeeps ==
    ASSUME ThreadInv, ~selfWoken,
           NEW STATE st, Schedulable(st), schedule(st),
           ArgOK', IdleRuns',
           UNCHANGED <<prioVars, timerVars>>,
           pc' \in [Thread -> Label], intr' \in [Thread -> BOOLEAN],
           resched' \in [Thread -> Nat]
    PROVE  ThreadInv'
  <1>1. ThreadTypeOK'
    BY ScheduleKeeps DEF ThreadInv, ThreadTypeOK, Panic, prioVars, timerVars
  <1>2. Schedulable(status)'
    BY ScheduleKeeps DEF ThreadInv, ThreadTypeOK, Schedulable, ReadyIn, prioVars
  <1> QED
    BY <1>1, <1>2, ScheduleKeeps DEF ThreadInv

LEMMA ScheduleThenKeeps ==
    ASSUME ThreadInv, ~selfWoken,
           NEW l \in Label, NEW k \in Label, ScheduleThen(l, k),
           l # "run", k # "spawn_all", k # "setprio_sched",
           k = "setprio_done" => l = "setprio_sched"
    PROVE  ThreadInv'
  <1> USE DEF ThreadInv, ThreadTypeOK
  <1>1. pc' = [pc EXCEPT ![current] = k] /\ pc[current] = l
    BY DEF ScheduleThen, Goto, At
  <1>2. ArgOK'
    BY <1>1 DEF ArgOK, ScheduleThen
  <1>3. IdleRuns'
    BY <1>1, ThreadAssumption DEF IdleRuns
  <1>4. pc' \in [Thread -> Label]
    BY <1>1
  <1> QED
    BY <1>2, <1>3, <1>4, ScheduleStepKeeps DEF ScheduleThen, trapVars

(* Steps that leave the manager alone keep the invariant if the types and  *)
(* the local values stay right.                                            *)
LEMMA LocalStepKeeps ==
    ASSUME ThreadInv, ~selfWoken,
           UNCHANGED <<current, status, rq, panic>>,
           ThreadTypeOK', ArgOK', IdleRuns'
    PROVE  ThreadInv'
  BY DEF ThreadInv, ThreadTypeOK, Schedulable, ReadyIn

(* A thread that changes only its own pc, not to a place with a local      *)
(* value, keeps ArgOK and IdleRuns.                                        *)
LEMMA GotoKeeps ==
    ASSUME ThreadTypeOK, ArgOK, IdleRuns, current # Idle,
           NEW k \in Label, Goto(k),
           \E x : arg' = [arg EXCEPT ![current] = x],
           k = "spawn_all" => arg'[current] \in Thread,
           k \in {"setprio_sched", "setprio_done"} => arg'[current] \in Prio
    PROVE  ArgOK' /\ IdleRuns' /\ pc' \in [Thread -> Label]
  BY ThreadAssumption DEF ThreadTypeOK, ArgOK, IdleRuns, Goto

(* wake_up of a thread that is not the current one moves it from the       *)
(* Blocked to the Ready threads, or stops the kernel and changes nothing.  *)
LEMMA WakeKeeps ==
    ASSUME Schedulable(status), NEW t \in Thread, t # current, wake_up(t), prio' = prio
    PROVE  /\ Schedulable(status)'
           /\ panic' \in {panic, "wake_up"}
           /\ current' = current /\ all' = all
           /\ panic' = panic => status' = [status EXCEPT ![t] = "Ready"] \/ panic = "wake_up"
  <1> USE DEF Schedulable
  <1>1. CASE status[t] # "Blocked"
    BY <1>1 DEF wake_up, ReadyIn
  <1>2. CASE status[t] = "Blocked"
    <2>1. /\ status' = [status EXCEPT ![t] = "Ready"]
          /\ rq' = Register(rq, t, prio)
          /\ UNCHANGED <<current, all, panic>>
      BY <1>2 DEF wake_up
    <2>2. t \in Thread \ Members(rq)
      BY <1>2 DEF ReadyIn
    <2>3. rq' \in Queue /\ Members(rq') = Members(rq) \cup {t}
      BY <2>1, <2>2, Contract DEF KeepsContract
    <2>4. /\ status' \in [Thread -> Status] /\ status'[t] = "Ready"
          /\ \A u \in Thread \ {t} : status'[u] = status[u]
      BY <2>1 DEF Status
    <2>5. ReadyIn(status') = ReadyIn(status) \cup {t}
      BY <2>4 DEF ReadyIn
    <2>6. Members(rq') = ReadyIn(status')
      BY <2>3, <2>5
    <2>7. Schedulable(status)'
      BY <2>1, <2>3, <2>4, <2>6, ThreadAssumption
    <2> QED
      BY <2>1, <2>7
  <1> QED
    BY <1>1, <1>2

(* The current thread, unless it is Idle, may mark itself before it calls  *)
(* schedule().                                                             *)
LEMMA MarkKeeps ==
    ASSUME Schedulable(status), current # Idle, NEW s \in {"Blocked", "Dying"}
    PROVE  Schedulable([status EXCEPT ![current] = s])
  <1> DEFINE st == [status EXCEPT ![current] = s]
  <1>1. /\ st \in [Thread -> Status] /\ st[current] = s
        /\ \A t \in Thread \ {current} : st[t] = status[t]
    BY DEF Schedulable, Status
  <1>2. ReadyIn(st) = ReadyIn(status)
    BY <1>1 DEF Schedulable, ReadyIn
  <1> QED
    BY <1>1, <1>2, ThreadAssumption DEF Schedulable

LEMMA MarkStepKeeps ==
    ASSUME ThreadInv, ~selfWoken, current # Idle,
           NEW s \in {"Blocked", "Dying"}, status' = [status EXCEPT ![current] = s],
           NEW k \in Label \ {"spawn_all", "setprio_sched", "setprio_done"}, Goto(k),
           UNCHANGED <<current, rq, all, panic, arg, prioVars, timerVars, trapVars>>
    PROVE  ThreadInv'
  <1>1. Schedulable([status EXCEPT ![current] = s])
    BY MarkKeeps DEF ThreadInv
  <1>2. Schedulable(status)'
    BY <1>1 DEF Schedulable, ReadyIn, prioVars
  <1>3. ArgOK' /\ IdleRuns' /\ pc' \in [Thread -> Label]
    BY ThreadAssumption DEF ThreadInv, ThreadTypeOK, ArgOK, IdleRuns, Goto
  <1>4. ThreadTypeOK'
    BY <1>2, <1>3 DEF ThreadInv, ThreadTypeOK, Schedulable, prioVars, timerVars, trapVars
  <1> QED
    BY <1>2, <1>3, <1>4 DEF ThreadInv

(* Every step of the kernel's threads and of the timer trap keeps the      *)
(* invariant.                                                              *)
LEMMA ThreadNextKeeps == ThreadInv /\ [ThreadNext]_threadVars => ThreadInv'
  <1> SUFFICES ASSUME ThreadInv, [ThreadNext]_threadVars, ~selfWoken' PROVE ThreadInv'
    BY DEF ThreadInv
  <1> USE ThreadAssumption
  <1>1. CASE UNCHANGED threadVars
    BY <1>1 DEF ThreadInv, ThreadTypeOK, Schedulable, ReadyIn, ArgOK, IdleRuns, threadVars,
                managerVars, prioVars, localVars, timerVars, trapVars
  <1>2. CASE Yield
    <2>1. ~selfWoken /\ ArgOK' /\ IdleRuns'
      BY <1>2 DEF Yield, timerVars, localVars, ThreadInv, ArgOK, IdleRuns
    <2> QED
      BY <1>2, <2>1, ScheduleStepKeeps
      DEF Yield, localVars, trapVars, ThreadInv, ThreadTypeOK
  <1>3. CASE SpawnRegister
    <2>1. ~selfWoken
      BY <1>3 DEF SpawnRegister, timerVars
    <2> USE <2>1 DEF ThreadInv, ThreadTypeOK
    <2>2. PICK t \in Thread, p \in Prio :
            /\ status[t] = "None" /\ status' = [status EXCEPT ![t] = "Ready"]
            /\ prio' = [prio EXCEPT ![t] = p]
            /\ rq' = Register(rq, t, prio')
            /\ arg' = [arg EXCEPT ![current] = t]
      BY <1>3 DEF SpawnRegister
    <2>3. current # Idle /\ Goto("spawn_all")
      BY <1>3 DEF SpawnRegister, Calls
    <2>4. prio' \in [Thread -> Prio]
      BY <2>2
    <2>5. ArgOK' /\ IdleRuns' /\ pc' \in [Thread -> Label]
      <3>1. \E x : arg' = [arg EXCEPT ![current] = x]
        BY <2>2
      <3>2. arg'[current] = t
        BY <2>2 DEF ArgOK
      <3>3. "spawn_all" \in Label
        BY DEF Label
      <3> QED
        BY <2>3, <3>1, <3>2, <3>3, GotoKeeps
    <2>6. t \in Thread \ Members(rq)
      BY <2>2 DEF Schedulable, ReadyIn
    <2>7. rq' \in Queue /\ Members(rq') = Members(rq) \cup {t}
      <3>1. rq' = Register(rq, t, prio') /\ rq \in Queue
        BY <2>2 DEF Schedulable
      <3> HIDE DEF ThreadInv, ThreadTypeOK
      <3> QED
        BY <2>4, <2>6, <3>1, RegisterContract
    <2>8. /\ status' \in [Thread -> Status] /\ status'[t] = "Ready" /\ t # current
          /\ \A u \in Thread \ {t} : status'[u] = status[u]
      BY <2>2 DEF Schedulable, Status
    <2>9. Members(rq') = ReadyIn(status')
      BY <2>7, <2>8 DEF Schedulable, ReadyIn
    <2>10. UNCHANGED <<current, all, panic, priority_setted, timerVars, trapVars>>
      BY <1>3 DEF SpawnRegister
    <2>11. ThreadTypeOK'
      BY <2>4, <2>5, <2>8, <2>10 DEF timerVars, trapVars
    <2>12. Schedulable(status)'
      BY <2>4, <2>7, <2>8, <2>9, <2>10 DEF Schedulable
    <2> QED
      BY <2>5, <2>10, <2>11, <2>12
  <1>4. CASE SpawnAll
    <2>1. ~selfWoken /\ current # Idle /\ arg[current] \in Thread
      BY <1>4 DEF SpawnAll, At, timerVars, ThreadInv, ThreadTypeOK, ArgOK, IdleRuns
    <2>2. ArgOK' /\ IdleRuns' /\ pc' \in [Thread -> Label]
      BY <1>4, <2>1, GotoKeeps DEF SpawnAll, Label, ThreadInv
    <2>3. ThreadTypeOK'
      BY <1>4, <2>1, <2>2
      DEF SpawnAll, ThreadInv, ThreadTypeOK, prioVars, timerVars, trapVars
    <2>4. Schedulable(status)'
      BY <1>4, <2>1, <2>3
      DEF SpawnAll, ThreadInv, ThreadTypeOK, Schedulable, ReadyIn, prioVars
    <2> QED
      BY <1>4, <2>1, <2>2, <2>3, <2>4 DEF SpawnAll, ThreadInv
  <1>5. CASE SpawnSchedule \/ ExitSchedule \/ SetPrioritySchedule \/ SleepSchedule
    <2>1. ~selfWoken
      BY <1>5 DEF SpawnSchedule, ExitSchedule, SetPrioritySchedule, SleepSchedule,
                  ScheduleThen, timerVars
    <2> QED
      BY <1>5, <2>1, ScheduleThenKeeps
      DEF SpawnSchedule, ExitSchedule, SetPrioritySchedule, SleepSchedule, Label
  <1>6. CASE ExitMark
    BY <1>6, MarkStepKeeps DEF ExitMark, Calls, Label, timerVars
  <1>7. CASE SetPriorityStore
    <2>1. ~selfWoken /\ current # Idle
      BY <1>7 DEF SetPriorityStore, Calls, timerVars
    <2>2. PICK p \in Prio : /\ prio' = [prio EXCEPT ![current] = p]
                            /\ arg' = [arg EXCEPT ![current] = p]
      BY <1>7 DEF SetPriorityStore
    <2>3. arg'[current] \in Prio /\ \E x : arg' = [arg EXCEPT ![current] = x]
      BY <2>1, <2>2 DEF ThreadInv, ThreadTypeOK, ArgOK
    <2>4. ArgOK' /\ IdleRuns' /\ pc' \in [Thread -> Label]
      BY <1>7, <2>1, <2>3, GotoKeeps DEF SetPriorityStore, Label, ThreadInv
    <2>5. prio' \in [Thread -> Prio]
      BY <2>1, <2>2 DEF ThreadInv, ThreadTypeOK
    <2>6. ThreadTypeOK'
      BY <1>7, <2>1, <2>4, <2>5
      DEF SetPriorityStore, ThreadInv, ThreadTypeOK, managerVars, timerVars, trapVars
    <2>7. Schedulable(status)'
      BY <1>7, <2>1, <2>5 DEF SetPriorityStore, ThreadInv, Schedulable, ReadyIn, managerVars
    <2> QED
      BY <1>7, <2>1, <2>4, <2>6, <2>7 DEF SetPriorityStore, ThreadInv, managerVars
  <1>8. CASE SetPriorityDone
    <2>1. ~selfWoken /\ current # Idle /\ arg[current] \in Prio
      BY <1>8 DEF SetPriorityDone, At, timerVars, ThreadInv, ThreadTypeOK, ArgOK, IdleRuns
    <2>2. ArgOK' /\ IdleRuns' /\ pc' \in [Thread -> Label]
      BY <1>8, <2>1, GotoKeeps DEF SetPriorityDone, Label, ThreadInv
    <2>3. ThreadTypeOK'
      BY <1>8, <2>1, <2>2
      DEF SetPriorityDone, ThreadInv, ThreadTypeOK, managerVars, timerVars, trapVars
    <2> QED
      BY <1>8, <2>1, <2>2, <2>3, LocalStepKeeps
      DEF SetPriorityDone, managerVars
  <1>9. CASE SleepPush
    <2>1. ~selfWoken /\ current # Idle
      BY <1>9 DEF SleepPush, Calls
    <2>2. sleepq' \subseteq [ticks : Int, thread : Thread]
      BY <1>9, <2>1 DEF SleepPush, ThreadInv, ThreadTypeOK
    <2>3. ArgOK' /\ IdleRuns' /\ pc' \in [Thread -> Label]
      BY <1>9, <2>1 DEF SleepPush, Goto, Label, ThreadInv, ThreadTypeOK, ArgOK, IdleRuns
    <2>4. ThreadTypeOK'
      BY <1>9, <2>1, <2>2, <2>3
      DEF SleepPush, ThreadInv, ThreadTypeOK, managerVars, prioVars, trapVars
    <2> QED
      BY <1>9, <2>1, <2>3, <2>4, LocalStepKeeps DEF SleepPush, managerVars
  <1>10. CASE SleepMark
    <2>1. ~selfWoken /\ current # Idle
      BY <1>10 DEF SleepMark, At, timerVars, ThreadInv, IdleRuns
    <2> QED
      BY <1>10, <2>1, MarkStepKeeps DEF SleepMark, Label
  <1>11. CASE TimerInterrupt
    <2>1. ~selfWoken /\ ArgOK' /\ IdleRuns'
      BY <1>11 DEF TimerInterrupt, localVars, ThreadInv, ArgOK, IdleRuns
    <2>2. ticks' \in 0..MaxTicks /\ ticking' \in BOOLEAN /\ intr' \in [Thread -> BOOLEAN]
      BY <1>11, <2>1 DEF TimerInterrupt, ThreadInv, ThreadTypeOK
    <2>3. ThreadTypeOK'
      BY <1>11, <2>1, <2>2
      DEF TimerInterrupt, ThreadInv, ThreadTypeOK, managerVars, prioVars, localVars
    <2> QED
      BY <1>11, <2>1, <2>3, LocalStepKeeps DEF TimerInterrupt, managerVars
  <1>12. CASE TickWake
    <2>1. PICK e \in sleepq :
            /\ sleepq' = sleepq \ {e}
            /\ selfWoken' = (selfWoken \/ (e.thread = current /\ status[current] = "Blocked"))
            /\ wake_up(e.thread)
      BY <1>12 DEF TickWake, Peek
    <2>2. ~selfWoken /\ ~(e.thread = current /\ status[current] = "Blocked")
      BY <2>1
    <2>3. e.thread \in Thread
      BY <2>2 DEF ThreadInv, ThreadTypeOK
    <2>4. UNCHANGED <<prioVars, localVars, ticks, ticking, trapVars>>
      BY <1>12 DEF TickWake
    <2>5. ArgOK' /\ IdleRuns'
      BY <2>2, <2>4 DEF localVars, ThreadInv, ArgOK, IdleRuns
    <2>6. /\ Schedulable(status)' /\ panic' \in {panic, "wake_up"}
      <3>1. CASE e.thread = current
        BY <2>1, <2>2, <2>4, <3>1
        DEF wake_up, ThreadInv, Schedulable, ReadyIn, prioVars
      <3>2. CASE e.thread # current
        BY <2>1, <2>2, <2>3, <2>4, <3>2, WakeKeeps DEF ThreadInv, prioVars
      <3> QED
        BY <3>1, <3>2
    <2>7. selfWoken' \in BOOLEAN /\ sleepq' \subseteq [ticks : Int, thread : Thread]
      BY <2>1, <2>2 DEF ThreadInv, ThreadTypeOK
    <2>8. ThreadTypeOK'
      BY <2>2, <2>4, <2>6, <2>7
      DEF ThreadInv, ThreadTypeOK, Schedulable, Panic, prioVars, localVars, trapVars
    <2> QED
      BY <2>2, <2>5, <2>6, <2>8 DEF ThreadInv
  <1>13. CASE TickDone
    <2>1. ~selfWoken /\ ArgOK' /\ IdleRuns'
      BY <1>13 DEF TickDone, localVars, ThreadInv, ArgOK, IdleRuns
    <2>2. intr' \in [Thread -> BOOLEAN] /\ ticking' \in BOOLEAN
      BY <1>13, <2>1 DEF TickDone, ThreadInv, ThreadTypeOK
    <2>3. resched' \in [Thread -> Nat]
      BY <1>13, <2>1 DEF TickDone, ThreadInv, ThreadTypeOK
    <2>4. ThreadTypeOK'
      BY <1>13, <2>1, <2>2, <2>3
      DEF TickDone, ThreadInv, ThreadTypeOK, managerVars, prioVars, localVars
    <2> QED
      BY <1>13, <2>1, <2>4, LocalStepKeeps DEF TickDone, managerVars
  <1>14. CASE TrapSchedule
    <2>1. ~selfWoken /\ ArgOK' /\ IdleRuns'
      BY <1>14 DEF TrapSchedule, timerVars, localVars, ThreadInv, ArgOK, IdleRuns
    <2>2. resched' \in [Thread -> Nat]
      BY <1>14, <2>1 DEF TrapSchedule, ThreadInv, ThreadTypeOK
    <2> QED
      BY <1>14, <2>1, <2>2, ScheduleStepKeeps
      DEF TrapSchedule, localVars, ThreadInv, ThreadTypeOK
  <1>15. CASE Halted
    BY <1>1, <1>15 DEF Halted
  <1> QED
    BY <1>1, <1>2, <1>3, <1>4, <1>5, <1>6, <1>7, <1>8, <1>9, <1>10, <1>11, <1>12, <1>13,
       <1>14, <1>15
    DEF ThreadNext, CallStep, KernelStep, TrapStep

-----------------------------------------------------------------------------
(* Manager, scheduler and traps: every reachable state satisfies the       *)
(* inductive invariant, whatever scheduler keeps the contract: statuses,   *)
(* run queue, current thread and the calls in progress fit together as     *)
(* schedule() and schedule_tail() need them.                               *)
THEOREM ThreadInvariant == ThreadSpec => []ThreadInv
  BY InitEstablishes, ThreadNextKeeps, PTL DEF ThreadSpec

(* Manager::schedule and schedule_tail: their assertions fail only after a *)
(* tick has woken the thread that it interrupted, the window of sleep().   *)
THEOREM ManagerAssertions == ThreadSpec => []ManagerSafe
  <1>1. ThreadInv => ManagerSafe
    BY DEF ThreadInv, ManagerSafe
  <1> QED
    BY <1>1, ThreadInvariant, PTL

(* Manager, scheduler and traps: until a tick wakes the thread that it     *)
(* interrupted, the variables have their types, the run queue holds        *)
(* exactly the Ready threads, and exactly one thread runs.                 *)
THEOREM ThreadsCorrect ==
    ThreadSpec => []((~selfWoken => ThreadTypeOK) /\ ReadyExact /\ OneRunner)
  <1>1. ThreadInv => (~selfWoken => ThreadTypeOK) /\ ReadyExact /\ OneRunner
    BY DEF ThreadInv, Schedulable, ReadyIn, ReadyExact, OneRunner
  <1> QED
    BY <1>1, ThreadInvariant, PTL
-----------------------------------------------------------------------------
(* What sleep() leaves in SLEEP_QUEUE: one entry for each thread inside    *)
(* it, and a thread that has marked itself stays Blocked until a tick      *)
(* takes its entry away.  The current thread is Blocked only between       *)
(* marking itself and calling schedule().                                  *)
Asleep(t) ==
    \/ pc[t] = "sleep_mark"
    \/ pc[t] \in {"sleep_sched", "run"} /\ status[t] = "Blocked"

SleepInv ==
    ~selfWoken =>
        /\ \A e \in sleepq : Asleep(e.thread)
        /\ \A e, f \in sleepq : e.thread = f.thread => e = f
        /\ status[current] = "Blocked" => pc[current] = "sleep_sched"

(* The clock and the wake times are numbers that can be compared.          *)
ClockInv ==
    /\ ticks \in Nat /\ ticking \in BOOLEAN
    /\ \A e \in sleepq : e.ticks \in Nat
    /\ NoOversleep

(* Manager::all covers the live threads, and the dead are in exit().       *)
Exiting == {"exit_sched", "exited"}

AllInv ==
    ~selfWoken => /\ AllCoversLive
                  /\ \A t \in Thread : status[t] = "Dying" => pc[t] \in Exiting

(* A call of schedule() keeps what is said of the sleepers, if it holds of *)
(* the statuses that the caller has set and of the place it goes on from.  *)
LEMMA ScheduleKeepsSleepers ==
    ASSUME ThreadInv, SleepInv, ~selfWoken,
           NEW STATE st, Schedulable(st), schedule(st), UNCHANGED timerVars,
           \A e \in sleepq :
               \/ pc'[e.thread] = "sleep_mark"
               \/ pc'[e.thread] \in {"sleep_sched", "run"} /\ st[e.thread] = "Blocked"
    PROVE  SleepInv'
  <1>1. \A t \in Thread : status'[t] = "Blocked" <=> st[t] = "Blocked"
    BY ScheduleKeeps
  <1>2. status'[current'] = "Running"
    BY ScheduleKeeps
  <1>3. \A e \in sleepq : e.thread \in Thread
    BY DEF ThreadInv, ThreadTypeOK
  <1>4. sleepq' = sleepq
    BY DEF timerVars
  <1>5. \A e \in sleepq' : Asleep(e.thread)'
    BY <1>1, <1>3, <1>4 DEF Asleep
  <1> QED
    BY <1>2, <1>4, <1>5 DEF SleepInv

(* A thread that goes on to schedule() has an entry only in sleep().       *)
LEMMA ScheduleThenKeepsSleepers ==
    ASSUME ThreadInv, SleepInv, ~selfWoken, NEW l, NEW k, ScheduleThen(l, k),
           l \notin {"sleep_mark", "run"}, l = "sleep_sched" => k = "run"
    PROVE  SleepInv'
  <1>1. pc' = [pc EXCEPT ![current] = k] /\ pc[current] = l /\ UNCHANGED timerVars
    BY DEF ScheduleThen, Goto, At
  <1>2. Schedulable(status) /\ schedule(status)
    BY DEF ScheduleThen, ThreadInv
  <1>3. \A e \in sleepq : e.thread \in Thread
    BY DEF ThreadInv, ThreadTypeOK
  <1>4. \A t \in Thread : pc'[t] = IF t = current THEN k ELSE pc[t]
    BY <1>1 DEF ThreadInv, ThreadTypeOK
  <1>5. \A e \in sleepq :
            \/ pc'[e.thread] = "sleep_mark"
            \/ pc'[e.thread] \in {"sleep_sched", "run"} /\ status[e.thread] = "Blocked"
    BY <1>1, <1>3, <1>4 DEF SleepInv, Asleep
  <1> QED
    BY <1>1, <1>2, <1>5, ScheduleKeepsSleepers

(* Once a tick has woken the thread it interrupted, that is remembered.    *)
LEMMA WokenStays == [ThreadNext]_threadVars /\ ~selfWoken' => ~selfWoken
  <1>1. CASE TickWake
    BY <1>1 DEF TickWake
  <1>2. CASE ~TickWake
    BY <1>2 DEF ThreadNext, CallStep, KernelStep, TrapStep, Yield, SpawnRegister, ExitMark,
           SetPriorityStore, SleepPush, SpawnAll, SpawnSchedule, ExitSchedule,
           SetPrioritySchedule, SetPriorityDone, SleepMark, SleepSchedule, ScheduleThen,
           TimerInterrupt, TickDone, TrapSchedule, Halted, timerVars, threadVars
  <1> QED
    BY <1>1, <1>2

(* A thread that is not inside sleep() has no entry while it runs.         *)
LEMMA NoEntryOutsideSleep ==
    ASSUME SleepInv, ~selfWoken, pc[current] \notin {"sleep_mark", "sleep_sched"}
    PROVE  \A e \in sleepq : e.thread # current
  BY DEF SleepInv, Asleep

(* Such a thread may move on, as long as nobody else is blocked or woken.  *)
LEMMA MoveKeepsSleepers ==
    ASSUME ThreadInv, SleepInv, ~selfWoken, NEW k, Goto(k),
           pc[current] \notin {"sleep_mark", "sleep_sched"},
           UNCHANGED <<current, sleepq>>,
           \A t \in Thread : status'[t] = "Blocked" <=> status[t] = "Blocked"
    PROVE  SleepInv'
  <1>1. \A e \in sleepq : e.thread # current /\ e.thread \in Thread
    BY NoEntryOutsideSleep DEF ThreadInv, ThreadTypeOK
  <1>2. \A t \in Thread : t # current => pc'[t] = pc[t]
    BY DEF Goto, ThreadInv, ThreadTypeOK
  <1>3. status'[current'] # "Blocked"
    BY DEF SleepInv, ThreadInv, ThreadTypeOK
  <1>4. \A e \in sleepq' : Asleep(e.thread)'
    BY <1>1, <1>2 DEF SleepInv, Asleep
  <1> QED
    BY <1>3, <1>4 DEF SleepInv

(* Every step of the kernel's threads keeps the entries of the sleepers.   *)
LEMMA SleepersKept ==
    ASSUME ThreadInv, SleepInv, [ThreadNext]_threadVars PROVE SleepInv'
  <1> SUFFICES ASSUME ~selfWoken' PROVE SleepInv'
    BY DEF SleepInv
  <1>1. ~selfWoken
    BY WokenStays
  <1>2. current \in Thread /\ status \in [Thread -> Status] /\ pc \in [Thread -> Label]
        /\ \A e \in sleepq : e.thread \in Thread
    BY <1>1 DEF ThreadInv, ThreadTypeOK
  <1>3. CASE UNCHANGED threadVars
    BY <1>1, <1>3 DEF SleepInv, Asleep, threadVars, managerVars, timerVars, localVars
  <1>4. CASE Yield \/ TrapSchedule
    <2>1. UNCHANGED <<pc, sleepq, selfWoken>> /\ UNCHANGED timerVars /\ schedule(status)
      BY <1>4 DEF Yield, TrapSchedule, timerVars, localVars
    <2>2. \A e \in sleepq :
            \/ pc[e.thread] = "sleep_mark"
            \/ pc[e.thread] \in {"sleep_sched", "run"} /\ status[e.thread] = "Blocked"
      BY <1>1 DEF SleepInv, Asleep
    <2> QED
      BY <1>1, <2>1, <2>2, ScheduleKeepsSleepers DEF ThreadInv
  <1>5. CASE SpawnRegister
    <2>1. PICK t \in Thread : status[t] = "None" /\ status' = [status EXCEPT ![t] = "Ready"]
      BY <1>5 DEF SpawnRegister
    <2>2. \A u \in Thread : status'[u] = "Blocked" <=> status[u] = "Blocked"
      BY <1>2, <2>1
    <2> QED
      BY <1>1, <1>5, <2>2, MoveKeepsSleepers DEF SpawnRegister, Calls, At, timerVars
  <1>6. CASE ExitMark
    <2>1. status[current] # "Blocked" /\ status' = [status EXCEPT ![current] = "Dying"]
      BY <1>1, <1>6 DEF ExitMark, Calls, At, SleepInv
    <2>2. \A u \in Thread : status'[u] = "Blocked" <=> status[u] = "Blocked"
      BY <1>2, <2>1
    <2> QED
      BY <1>1, <1>6, <2>2, MoveKeepsSleepers DEF ExitMark, Calls, At, timerVars
  <1>7. CASE SetPriorityStore
    BY <1>1, <1>7, MoveKeepsSleepers DEF SetPriorityStore, Calls, At, timerVars, managerVars
  <1>8. CASE SpawnAll
    BY <1>1, <1>8, MoveKeepsSleepers DEF SpawnAll, At, timerVars
  <1>9. CASE SetPriorityDone
    BY <1>1, <1>9, MoveKeepsSleepers DEF SetPriorityDone, At, timerVars, managerVars
  <1>10. CASE SpawnSchedule \/ ExitSchedule \/ SetPrioritySchedule \/ SleepSchedule
    BY <1>1, <1>10, ScheduleThenKeepsSleepers
    DEF SpawnSchedule, ExitSchedule, SetPrioritySchedule, SleepSchedule
  <1>11. CASE SleepPush
    <2>1. /\ pc[current] = "run" /\ pc' = [pc EXCEPT ![current] = "sleep_mark"]
          /\ UNCHANGED <<current, status>>
      BY <1>11 DEF SleepPush, Calls, At, Goto, managerVars
    <2>2. PICK n \in SleepTicks :
            sleepq' = sleepq \cup {[ticks |-> ticks + n, thread |-> current]}
      BY <1>11 DEF SleepPush
    <2>3. \A e \in sleepq : e.thread # current
      BY <1>1, <2>1, NoEntryOutsideSleep
    <2>4. \A t \in Thread : pc'[t] = IF t = current THEN "sleep_mark" ELSE pc[t]
      BY <1>2, <2>1
    <2>5. \A e \in sleepq' : Asleep(e.thread)'
      BY <1>1, <1>2, <2>1, <2>2, <2>3, <2>4 DEF SleepInv, Asleep
    <2>6. \A e, f \in sleepq' : e.thread = f.thread => e = f
      BY <1>1, <2>2, <2>3 DEF SleepInv
    <2>7. status'[current'] # "Blocked"
      BY <1>1, <2>1 DEF SleepInv
    <2> QED
      BY <2>5, <2>6, <2>7 DEF SleepInv
  <1>12. CASE SleepMark
    <2>1. /\ pc[current] = "sleep_mark" /\ pc' = [pc EXCEPT ![current] = "sleep_sched"]
          /\ status' = [status EXCEPT ![current] = "Blocked"]
          /\ UNCHANGED <<current, sleepq>>
      BY <1>12 DEF SleepMark, At, Goto, timerVars
    <2>2. \A t \in Thread : /\ pc'[t] = IF t = current THEN "sleep_sched" ELSE pc[t]
                            /\ status'[t] = IF t = current THEN "Blocked" ELSE status[t]
      BY <1>2, <2>1
    <2>3. \A e \in sleepq' : Asleep(e.thread)'
      BY <1>1, <1>2, <2>1, <2>2 DEF SleepInv, Asleep
    <2> QED
      BY <1>1, <1>2, <2>1, <2>2, <2>3 DEF SleepInv
  <1>13. CASE TimerInterrupt \/ TickDone
    BY <1>1, <1>13 DEF TimerInterrupt, TickDone, SleepInv, Asleep, managerVars, localVars
  <1>14. CASE TickWake
    <2>1. PICK e \in sleepq :
            /\ sleepq' = sleepq \ {e}
            /\ selfWoken' = (selfWoken \/ (e.thread = current /\ status[current] = "Blocked"))
            /\ wake_up(e.thread)
      BY <1>14 DEF TickWake, Peek
    <2>2. pc' = pc /\ current' = current
      BY <1>14, <2>1 DEF TickWake, localVars, wake_up
    <2>3. \A t \in Thread \ {e.thread} : status'[t] = status[t]
      BY <1>2, <2>1 DEF wake_up
    <2>4. \A f \in sleepq' : f.thread # e.thread /\ f.thread \in Thread
      BY <1>1, <1>2, <2>1 DEF SleepInv
    <2>5. \A f \in sleepq' : Asleep(f.thread)'
      BY <1>1, <2>1, <2>2, <2>3, <2>4 DEF SleepInv, Asleep
    <2>6. status'[current] = "Blocked" => status[current] = "Blocked"
      BY <1>2, <2>1 DEF wake_up
    <2> QED
      BY <1>1, <2>1, <2>2, <2>5, <2>6 DEF SleepInv
  <1>15. CASE Halted
    BY <1>3, <1>15 DEF Halted
  <1> QED
    BY <1>3, <1>4, <1>5, <1>6, <1>7, <1>8, <1>9, <1>10, <1>11, <1>12, <1>13, <1>14, <1>15
    DEF ThreadNext, CallStep, KernelStep, TrapStep

(* thread::sleep: until a tick wakes the thread that it interrupted, a     *)
(* thread with an entry in SLEEP_QUEUE has not returned from sleep(),      *)
(* whatever other threads and ticks run between its three steps.           *)
THEOREM SleepersBlocked == ThreadSpec => [](~selfWoken => SleepersStayBlocked)
  <1>1. ThreadInit => SleepInv
    BY ThreadAssumption DEF ThreadInit, SleepInv
  <1>2. ThreadInv /\ SleepInv /\ [ThreadNext]_threadVars => SleepInv'
    BY SleepersKept
  <1>3. SleepInv => (~selfWoken => SleepersStayBlocked)
    BY DEF SleepInv, Asleep, SleepersStayBlocked
  <1> QED
    BY <1>1, <1>2, <1>3, ThreadInvariant, PTL DEF ThreadSpec

-----------------------------------------------------------------------------
(* schedule_tail takes a thread off Manager::all only when it is Dying.    *)
LEMMA ScheduleKeepsAll ==
    ASSUME current \in Thread, NEW STATE st, st \in [Thread -> Status], schedule(st),
           NEW t \in Thread, t \in all, st[t] # "Dying"
    PROVE  t \in all'
  <1> DEFINE choice == Schedule(rq, prio, current, st[current])
             mark   == [st EXCEPT ![choice.next] = "Running"]
  <1>1. all' = all \/ schedule_tail(mark, choice.queue)
    BY DEF schedule
  <1>2. mark[current] = "Dying" => st[current] = "Dying"
    OBVIOUS
  <1> QED
    BY <1>1, <1>2 DEF schedule_tail

(* A call of schedule() keeps Manager::all covering, if the caller has     *)
(* left its thread on record.                                              *)
LEMMA ScheduleKeepsCover ==
    ASSUME ThreadInv, AllInv, ~selfWoken, NEW STATE st, Schedulable(st), schedule(st),
           \A t \in Thread : st[t] \in {"Ready", "Running", "Blocked"} =>
               t \in all \/ \E s \in Thread : pc'[s] = "spawn_all" /\ arg'[s] = t,
           \A t \in Thread : st[t] = "Dying" => pc'[t] \in Exiting
    PROVE  AllInv'
  <1>1. \A t \in Thread : status'[t] = "Dying" => pc'[t] \in Exiting
    BY ScheduleKeeps
  <1> SUFFICES ASSUME NEW t \in Thread, status'[t] \in {"Ready", "Running", "Blocked"}
               PROVE  t \in all' \/ \E s \in Thread : pc'[s] = "spawn_all" /\ arg'[s] = t
    BY <1>1 DEF AllInv, AllCoversLive
  <1>2. st[t] \notin {"Dying", "None"}
    BY ScheduleKeeps
  <1>3. st[t] \in {"Ready", "Running", "Blocked"}
    BY <1>2 DEF Schedulable, Status
  <1>4. t \in all => t \in all'
    BY <1>3, ScheduleKeepsAll DEF Schedulable
  <1> QED
    BY <1>3, <1>4

(* Every step of the kernel's threads keeps Manager::all covering.         *)
LEMMA AllKept ==
    ASSUME ThreadInv, AllInv, [ThreadNext]_threadVars PROVE AllInv'
  <1> SUFFICES ASSUME ~selfWoken' PROVE AllInv'
    BY DEF AllInv
  <1>1. ~selfWoken
    BY WokenStays
  <1>2. /\ current \in Thread /\ status \in [Thread -> Status] /\ pc \in [Thread -> Label]
        /\ arg = [t \in Thread |-> arg[t]]
        /\ \A e \in sleepq : e.thread \in Thread
        /\ Schedulable(status)
    BY <1>1 DEF ThreadInv, ThreadTypeOK, ArgOK
  <1>3. \A t \in Thread : status[t] \in {"Ready", "Running", "Blocked"} =>
          t \in all \/ \E s \in Thread : pc[s] = "spawn_all" /\ arg[s] = t
    BY <1>1 DEF AllInv, AllCoversLive
  <1>4. \A t \in Thread : status[t] = "Dying" => pc[t] \in Exiting
    BY <1>1 DEF AllInv
  <1>5. CASE UNCHANGED threadVars \/ TimerInterrupt \/ TickDone \/ Halted
    BY <1>3, <1>4, <1>5 DEF AllInv, AllCoversLive, threadVars, managerVars, localVars,
                      TimerInterrupt, TickDone, Halted
  <1>6. CASE Yield \/ TrapSchedule
    BY <1>1, <1>2, <1>3, <1>4, <1>6, ScheduleKeepsCover DEF Yield, TrapSchedule, localVars
  <1>7. CASE SpawnSchedule \/ ExitSchedule \/ SetPrioritySchedule \/ SleepSchedule
    <2>1. /\ pc[current] # "spawn_all" /\ arg' = arg /\ schedule(status)
          /\ \A t \in Thread : t # current => pc'[t] = pc[t]
          /\ pc[current] \in Exiting => pc'[current] \in Exiting
      BY <1>2, <1>7
      DEF SpawnSchedule, ExitSchedule, SetPrioritySchedule, SleepSchedule, ScheduleThen,
          At, Goto, Exiting
    <2> QED
      BY <1>1, <1>2, <1>3, <1>4, <2>1, ScheduleKeepsCover
  <1>8. CASE SpawnRegister
    <2>1. PICK u \in Thread : /\ status' = [status EXCEPT ![u] = "Ready"]
                              /\ arg' = [arg EXCEPT ![current] = u]
      BY <1>8 DEF SpawnRegister
    <2>2. pc[current] = "run" /\ pc' = [pc EXCEPT ![current] = "spawn_all"] /\ all' = all
      BY <1>8 DEF SpawnRegister, Calls, At, Goto
    <2>3. pc'[current] = "spawn_all" /\ arg'[current] = u
      BY <1>2, <2>1, <2>2
    <2>4. \A t \in Thread : t # current => pc'[t] = pc[t] /\ arg'[t] = arg[t]
      BY <1>2, <2>1, <2>2
    <2>5. status'[u] = "Ready" /\ \A t \in Thread : t # u => status'[t] = status[t]
      BY <1>2, <2>1
    <2> QED
      BY <1>2, <1>3, <1>4, <2>2, <2>3, <2>4, <2>5 DEF AllInv, AllCoversLive, Exiting
  <1>9. CASE SpawnAll
    <2>1. /\ all' = all \cup {arg[current]} /\ status' = status
          /\ pc' = [pc EXCEPT ![current] = "spawn_sched"]
          /\ arg' = [arg EXCEPT ![current] = NoArg]
      BY <1>9 DEF SpawnAll, Goto
    <2>2. \A t \in Thread : t # current => pc'[t] = pc[t] /\ arg'[t] = arg[t]
      BY <1>2, <2>1
    <2>3. pc[current] = "spawn_all"
      BY <1>9 DEF SpawnAll, At
    <2>4. \A t \in Thread : status'[t] = "Dying" => pc'[t] \in Exiting
      BY <1>4, <2>1, <2>2, <2>3 DEF Exiting
    <2>5. ASSUME NEW t \in Thread, status'[t] \in {"Ready", "Running", "Blocked"}
          PROVE  t \in all' \/ \E s \in Thread : pc'[s] = "spawn_all" /\ arg'[s] = t
      <3>1. CASE t \in all \/ t = arg[current]
        BY <2>1, <3>1
      <3>2. CASE \E s \in Thread : s # current /\ pc[s] = "spawn_all" /\ arg[s] = t
        BY <2>2, <3>2
      <3> QED
        BY <1>3, <2>1, <2>5, <3>1, <3>2
    <2> QED
      BY <2>4, <2>5 DEF AllInv, AllCoversLive
  <1>10. CASE ExitMark \/ SetPriorityStore \/ SetPriorityDone \/ SleepPush \/ SleepMark
    <2>1. pc[current] # "spawn_all" /\ all' = all
      BY <1>10 DEF ExitMark, SetPriorityStore, SetPriorityDone, SleepPush, SleepMark, Calls,
                  At, managerVars
    <2>2. \A t \in Thread : t # current => pc'[t] = pc[t] /\ arg'[t] = arg[t]
      BY <1>2, <1>10 DEF ExitMark, SetPriorityStore, SetPriorityDone, SleepPush, SleepMark,
                        Goto
    <2>3. \A t \in Thread : status'[t] \in {"Ready", "Running", "Blocked"} =>
                            status[t] \in {"Ready", "Running", "Blocked"}
      <3>1. CASE ExitMark
        BY <1>2, <3>1 DEF ExitMark
      <3>2. CASE SleepMark
        <4>1. status[current] \in {"Ready", "Running", "Blocked"}
          BY <1>2, <1>4, <3>2 DEF SleepMark, At, Schedulable, Exiting
        <4> QED
          BY <1>2, <3>2, <4>1 DEF SleepMark
      <3>3. CASE SetPriorityStore \/ SetPriorityDone \/ SleepPush
        BY <3>3 DEF SetPriorityStore, SetPriorityDone, SleepPush, managerVars
      <3> QED
        BY <1>10, <3>1, <3>2, <3>3
    <2>4. \A t \in Thread : status'[t] = "Dying" => pc'[t] \in Exiting
      BY <1>2, <1>4, <1>10 DEF ExitMark, SetPriorityStore, SetPriorityDone, SleepPush, SleepMark,
                        Calls, At, Goto, managerVars, Exiting
    <2> QED
      BY <1>2, <1>3, <2>1, <2>2, <2>3, <2>4 DEF AllInv, AllCoversLive
  <1>11. CASE TickWake
    <2>1. PICK e \in sleepq : wake_up(e.thread)
      BY <1>11 DEF TickWake, Peek
    <2>2. /\ all' = all /\ UNCHANGED <<pc, arg>>
          /\ \A t \in Thread : status'[t] # status[t] => status[t] = "Blocked" /\ status'[t] = "Ready"
      BY <1>2, <1>11, <2>1 DEF TickWake, wake_up, localVars
    <2> QED
      BY <1>2, <1>3, <1>4, <2>2 DEF AllInv, AllCoversLive
  <1> QED
    BY <1>5, <1>6, <1>7, <1>8, <1>9, <1>10, <1>11
    DEF ThreadNext, CallStep, KernelStep, TrapStep

(* Manager::all: until a tick wakes the thread that it interrupted, every  *)
(* live thread is on record, save one whose spawner is between the two     *)
(* halves of Manager::register; schedule_tail forgets only the dead.       *)
THEOREM AllOnRecord == ThreadSpec => [](~selfWoken => AllCoversLive)
  <1>1. ThreadInit => AllInv
    BY DEF ThreadInit, AllInv, AllCoversLive
  <1>2. ThreadInv /\ AllInv /\ [ThreadNext]_threadVars => AllInv'
    BY AllKept
  <1>3. AllInv => (~selfWoken => AllCoversLive)
    BY DEF AllInv
  <1> QED
    BY <1>1, <1>2, <1>3, ThreadInvariant, PTL DEF ThreadSpec

-----------------------------------------------------------------------------
(* BinaryHeap::peek finds an earliest entry unless the heap is empty.      *)
LEMMA PeekFinds ==
    ASSUME sleepq # {}, \A e \in sleepq : e.ticks \in Nat
    PROVE  \E e \in Peek : \A f \in sleepq : e.ticks <= f.ticks
  <1> DEFINE S == {e.ticks : e \in sleepq}
  <1>1. S \subseteq Nat /\ S # {}
    OBVIOUS
  <1>2. PICK x \in S : \A y \in S : x <= y
    <2> HIDE DEF S
    <2> QED
      BY <1>1, LeastNatural
  <1> QED
    BY <1>2 DEF Peek

(* tick(): whatever order the entries were pushed in, and even after a     *)
(* tick has woken the thread it interrupted, no sleeper is overdue when    *)
(* tick() has returned: it pops until the earliest entry lies ahead.       *)
THEOREM NobodyOversleeps == ThreadSpec => []NoOversleep
  <1>1. ASSUME ThreadInit PROVE ClockInv
    <2>1. ticks = 0 /\ sleepq = {}
      BY <1>1 DEF ThreadInit
    <2>2. ticking \in BOOLEAN
      BY <1>1 DEF ThreadInit
    <2> QED
      BY <2>1, <2>2 DEF ClockInv, NoOversleep
  <1>2. ASSUME ClockInv, [ThreadNext]_threadVars PROVE ClockInv'
    <2> USE <1>2 DEF ClockInv, NoOversleep
    <2>1. CASE SleepPush
      <3>1. PICK n \in SleepTicks :
              n > 0 /\ sleepq' = sleepq \cup {[ticks |-> ticks + n, thread |-> current]}
        BY <2>1 DEF SleepPush
      <3>2. ticks' = ticks /\ ticking' = ticking /\ ~ticking /\ panic' = panic
        BY <2>1 DEF SleepPush, Calls, At, managerVars
      <3>3. ticks + n \in Nat /\ ticks + n > ticks
        BY <3>1, ThreadAssumption
      <3> QED
        BY <2>1, <3>1, <3>2, <3>3 DEF SleepPush, Calls, At
    <2>2. CASE TimerInterrupt
      <3>1. ticks' \in Nat
        BY <2>2, ThreadAssumption DEF TimerInterrupt
      <3> QED
        BY <2>2, <3>1 DEF TimerInterrupt
    <2>3. CASE TickWake
      <3>1. ticks' = ticks /\ ticking' = ticking /\ ticking /\ sleepq' \subseteq sleepq
        BY <2>3 DEF TickWake
      <3> QED
        BY <3>1
    <2>4. CASE TickDone
      <3>1. \A e \in Peek : ticks < e.ticks
        BY <2>4 DEF TickDone
      <3>2. \A e \in sleepq : ticks < e.ticks
        <4>1. CASE sleepq # {}
          <5>1. PICK e \in Peek : \A f \in sleepq : e.ticks <= f.ticks
            BY <4>1, PeekFinds
          <5>2. e.ticks \in Nat /\ ticks < e.ticks
            BY <3>1, <5>1 DEF Peek
          <5> QED
            BY <5>1, <5>2
        <4> QED
          BY <4>1
      <3> QED
        BY <2>4, <3>2 DEF TickDone
    <2>5. CASE ~(SleepPush \/ TimerInterrupt \/ TickWake \/ TickDone)
      <3>1. UNCHANGED <<ticks, sleepq, ticking>> /\ (panic' = "none" => panic = "none")
        BY <2>5 DEF ThreadNext, CallStep, KernelStep, TrapStep, Yield, SpawnRegister,
              ExitMark, SetPriorityStore, SpawnAll, SpawnSchedule, ExitSchedule,
              SetPrioritySchedule, SetPriorityDone, SleepMark, SleepSchedule, ScheduleThen,
              TrapSchedule, Halted, Calls, At, timerVars, threadVars, managerVars
      <3> QED
        BY <3>1
    <2> QED
      BY <2>1, <2>2, <2>3, <2>4, <2>5
  <1>3. ClockInv => NoOversleep
    BY DEF ClockInv
  <1> QED
    BY <1>1, <1>2, <1>3, PTL DEF ThreadSpec

-----------------------------------------------------------------------------
(* No Ready thread has a higher priority than the current one.             *)
TopRuns == \A t \in Thread : status[t] = "Ready" => prio[t] <= prio[current]

(* With a scheduler that serves the highest priority first, a call of      *)
(* schedule() leaves a thread running that nobody has to make way for.     *)
LEMMA SchedulePicksTop ==
    ASSUME HighestFirst, NEW STATE st, Schedulable(st), schedule(st), prio' = prio
    PROVE  TopRuns'
  <1> DEFINE choice == Schedule(rq, prio, current, st[current])
             next   == choice.next
             mark   == [st EXCEPT ![next] = "Running"]
  <1> USE DEF Schedulable
  <1>1. panic' = "none"
    BY ScheduleKeeps
  <1>2. next # NoThread => next \in Thread /\ st[next] = "Ready"
    BY ScheduleContract DEF ReadyIn
  <1>3. /\ next = NoThread => \A t \in Members(rq) : prio[t] <= prio[current]
        /\ next # NoThread =>
             /\ \A t \in Members(rq) : prio[t] <= prio[next]
             /\ st[current] = "Running" => prio[current] <= prio[next]
    BY DEF HighestFirst, ServesHighest
  <1>4. CASE next = NoThread
    BY <1>1, <1>3, <1>4 DEF schedule, ReadyIn, TopRuns
  <1>5. CASE next # NoThread
    <2>1. current' = next /\ schedule_tail(mark, choice.queue)
      BY <1>1, <1>5 DEF schedule
    <2>2. \A t \in Thread : status'[t] = "Ready" =>
            st[t] = "Ready" \/ (t = current /\ st[current] = "Running")
      BY <1>2, <1>5, <2>1 DEF schedule_tail
    <2> QED
      BY <1>3, <1>5, <2>1, <2>2 DEF ReadyIn, TopRuns
  <1> QED
    BY <1>4, <1>5

(* Every step of the kernel's threads keeps the highest priority running,  *)
(* but for some places S of the code: all those of the threads' own calls  *)
(* that lead to schedule() at once, and neither of the two that do not.    *)
LEMMA HighestKept ==
    ASSUME HighestFirst, ThreadInv, ~selfWoken' , [ThreadNext]_threadVars,
           NEW S, BeforeSchedule \subseteq S, "run" \notin S, "setprio_done" \notin S,
           HighestRunsExcept(S)
    PROVE  HighestRunsExcept(S)'
  <1>1. ~selfWoken
    BY WokenStays
  <1>2. /\ current \in Thread /\ status \in [Thread -> Status] /\ pc \in [Thread -> Label]
        /\ resched \in [Thread -> Nat] /\ Schedulable(status)
    BY <1>1 DEF ThreadInv, ThreadTypeOK
  <1>3. TopRuns' => HighestRunsExcept(S)'
    BY DEF TopRuns, HighestRunsExcept
  <1>4. CASE Yield \/ TrapSchedule \/ SpawnSchedule \/ ExitSchedule \/ SetPrioritySchedule
             \/ SleepSchedule
    <2>1. schedule(status) /\ prio' = prio
      BY <1>4 DEF Yield, TrapSchedule, SpawnSchedule, ExitSchedule, SetPrioritySchedule,
                  SleepSchedule, ScheduleThen, prioVars
    <2> QED
      BY <1>2, <1>3, <2>1, SchedulePicksTop
  <1>5. CASE SpawnRegister \/ SpawnAll \/ ExitMark \/ SetPriorityStore \/ SleepMark
    <2>1. current' = current /\ pc'[current] \in BeforeSchedule
      BY <1>2, <1>5 DEF SpawnRegister, SpawnAll, ExitMark, SetPriorityStore, SleepMark, Goto,
                        managerVars, BeforeSchedule
    <2> QED
      BY <2>1 DEF HighestRunsExcept
  <1>6. CASE SetPriorityDone \/ SleepPush
    <2>1. At("setprio_done") \/ At("run")
      BY <1>6 DEF SetPriorityDone, SleepPush, Calls
    <2>2. TopRuns
      BY <1>2, <2>1 DEF At, HighestRunsExcept, BeforeSchedule, TopRuns
    <2>3. UNCHANGED <<current, status, prio>>
      BY <1>6 DEF SetPriorityDone, SleepPush, managerVars, prioVars
    <2> QED
      BY <1>3, <2>2, <2>3 DEF TopRuns
  <1>7. CASE TimerInterrupt \/ TickWake
    BY <1>7 DEF TimerInterrupt, TickWake, HighestRunsExcept
  <1>8. CASE TickDone
    <2>1. current' = current /\ resched'[current] > 0
      BY <1>2, <1>8 DEF TickDone, managerVars
    <2> QED
      BY <2>1 DEF HighestRunsExcept
  <1>9. CASE Halted \/ UNCHANGED threadVars
    BY <1>9 DEF Halted, threadVars, managerVars, prioVars, localVars, timerVars, trapVars,
                HighestRunsExcept
  <1> QED
    BY <1>4, <1>5, <1>6, <1>7, <1>8, <1>9 DEF ThreadNext, CallStep, KernelStep, TrapStep

(* thread::schedule and its callers: with a scheduler that serves the      *)
(* highest priority first, and until a tick wakes the thread that it       *)
(* interrupted, a Ready thread of higher priority than the current one     *)
(* waits only while the current one is on its way to schedule().           *)
THEOREM HighestPriority ==
    HighestFirst => (ThreadSpec => [](~selfWoken => HighestPriorityRuns))
  <1> SUFFICES ASSUME HighestFirst PROVE ThreadSpec => [](~selfWoken => HighestPriorityRuns)
    OBVIOUS
  <1>1. ThreadInit => HighestPriorityRuns
    <2> SUFFICES ASSUME ThreadInit PROVE TopRuns
      BY DEF TopRuns, HighestPriorityRuns, HighestRunsExcept
    <2> QED
      BY ThreadAssumption DEF ThreadInit, TopRuns, Prio
  <1>2. ThreadInv /\ (~selfWoken => HighestPriorityRuns) /\ [ThreadNext]_threadVars
          => (~selfWoken => HighestPriorityRuns)'
    BY HighestKept, WokenStays DEF HighestPriorityRuns, BeforeSchedule
  <1> QED
    BY <1>1, <1>2, ThreadInvariant, PTL DEF ThreadSpec

-----------------------------------------------------------------------------
(* The semaphore.                                                          *)

(* The variables of the semaphores have their types, and a thread in       *)
(* down()'s loop is there for some semaphore.                              *)
SemaTypeOK ==
    /\ value \in [Sema -> Nat]
    /\ waiters \in [Sema -> Seq(Thread)]
    /\ old \in [Thread -> BOOLEAN] /\ level \in [Thread -> BOOLEAN]
    /\ \A t \in Thread : pc[t] = "down_loop" => arg[t] \in Sema

(* The places where a thread has given up the processor, or is about to,   *)
(* inside down() or up().                                                  *)
Saving == {"down_loop", "up_sched", "wait_up_sched", "notify_sched", "all_sched"}

(* What such a thread has saved is what its own code had chosen.           *)
SavedLevel == \A t \in Thread : pc[t] \in Saving => old[t] = level[t]

(* The timer interrupts neither the loop nor a thread that masks it.       *)
TickTaken == ticking => pc[current] # "down_loop" /\ level[current]

(* The inductive invariant: who waits is Blocked in down()'s loop and is   *)
(* on one list once, a unit with waiters has a woken thread coming for it, *)
(* interrupts are as their thread wants them outside the loop and tick(),  *)
(* and what down() and up() will restore is what their caller had.         *)
SemaInv ==
    ~selfWoken => /\ SemaTypeOK
                  /\ WaitersBlocked
                  /\ NoLostWakeup
                  /\ InterruptsRestored
                  /\ SavedLevel
                  /\ TickTaken

-----------------------------------------------------------------------------
(* Among numbers up to MaxPrio there is a last one of the largest.         *)
LEMMA LastOfHighest ==
    ASSUME NEW n \in Nat \ {0}, NEW f \in [1..n -> Prio]
    PROVE  \E i \in 1..n : \A j \in 1..n : f[j] < f[i] \/ (f[j] = f[i] /\ j <= i)
  <1> DEFINE gaps == {MaxPrio - f[j] : j \in 1..n}
  <1>1. \A j \in 1..n : f[j] \in 0..MaxPrio
    BY DEF Prio
  <1>2. gaps \subseteq Nat /\ gaps # {}
    BY <1>1, ThreadAssumption
  <1>3. \E x \in gaps : \A y \in gaps : x <= y
    <2> HIDE DEF gaps
    <2> QED
      BY <1>2, LeastNatural
  <1>4. PICK k \in 1..n : \A j \in 1..n : f[j] <= f[k]
    <2>1. PICK k \in 1..n : \A y \in gaps : MaxPrio - f[k] <= y
      BY <1>3
    <2>2. \A j \in 1..n : MaxPrio - f[k] <= MaxPrio - f[j]
      BY <2>1
    <2>3. \A j \in 1..n : f[j] <= f[k]
      <3> HIDE DEF gaps
      <3> QED
        BY <1>1, <2>2, ThreadAssumption
    <2> QED
      BY <2>3
  <1> DEFINE last == {n - j : j \in {i \in 1..n : f[i] = f[k]}}
  <1>5. last \subseteq Nat /\ last # {}
    BY <1>4
  <1>6. \E x \in last : \A y \in last : x <= y
    <2> HIDE DEF last
    <2> QED
      BY <1>5, LeastNatural
  <1>7. PICK i \in 1..n : f[i] = f[k] /\ \A j \in 1..n : f[j] = f[k] => j <= i
    <2>1. PICK i \in 1..n : f[i] = f[k] /\ \A y \in last : n - i <= y
      BY <1>6
    <2>2. \A j \in 1..n : f[j] = f[k] => n - i <= n - j
      BY <2>1
    <2>3. \A j \in 1..n : f[j] = f[k] => j <= i
      <3> HIDE DEF last
      <3> QED
        BY <2>2
    <2> QED
      BY <2>1, <2>3
  <1> HIDE DEF gaps, last
  <1>8. \A j \in 1..n : f[j] < f[i] \/ (f[j] = f[i] /\ j <= i)
    BY <1>1, <1>4, <1>7
  <1> QED
    BY <1>8, Zenon

(* get_maxpriority finds one of the waiters.                               *)
LEMMA MaxPriorityFound ==
    ASSUME NEW s \in Sema, waiters[s] \in Seq(Thread), waiters[s] # <<>>,
           prio \in [Thread -> Prio]
    PROVE  get_maxpriority(s) \in 1..Len(waiters[s])
  <1>1. PICK w : w = waiters[s]
    OBVIOUS
  <1>2. PICK n \in Nat \ {0} : n = Len(w) /\ DOMAIN w = 1..n /\ \A j \in 1..n : w[j] \in Thread
    BY <1>1, LenProperties, EmptySeq, ElementOfSeq
  <1> DEFINE f == [j \in 1..n |-> prio[w[j]]]
  <1>3. f \in [1..n -> Prio]
    BY <1>2
  <1>4. PICK i \in 1..n : \A j \in 1..n : f[j] < f[i] \/ (f[j] = f[i] /\ j <= i)
    <2> HIDE DEF f
    <2> QED
      BY <1>3, LastOfHighest
  <1>5. \A j \in 1..n : prio[w[j]] < prio[w[i]] \/ (prio[w[j]] = prio[w[i]] /\ j <= i)
    BY <1>4
  <1>6. \E h \in DOMAIN w : \A j \in DOMAIN w :
            prio[w[j]] < prio[w[h]] \/ (prio[w[j]] = prio[w[h]] /\ j <= h)
    <2>1. i \in DOMAIN w
      BY <1>2
    <2>2. \A j \in DOMAIN w : prio[w[j]] < prio[w[i]] \/ (prio[w[j]] = prio[w[i]] /\ j <= i)
      BY <1>2, <1>5
    <2> QED
      BY <2>1, <2>2, Zenon
  <1>7. get_maxpriority(s) \in DOMAIN w
    BY <1>1, <1>6 DEF get_maxpriority
  <1> QED
    BY <1>1, <1>2, <1>7

(* Taking one element off a list without repetitions.                      *)
LEMMA RemoveAtProperties ==
    ASSUME NEW S, NEW w \in Seq(S), IsInjective(w), NEW i \in 1..Len(w)
    PROVE  /\ RemoveAt(w, i) \in Seq(S)
           /\ IsInjective(RemoveAt(w, i))
           /\ ToSet(RemoveAt(w, i)) = ToSet(w) \ {w[i]}
  <1> DEFINE r == RemoveAt(w, i)
  <1>1. PICK n \in Nat : n = Len(w)
    BY LenProperties
  <1>2. i \in 1..n /\ DOMAIN w = 1..n
    BY <1>1, LenProperties
  <1>3. /\ SubSeq(w, 1, i - 1) \in Seq(S) /\ Len(SubSeq(w, 1, i - 1)) = i - 1
        /\ \A j \in 1..(i - 1) : SubSeq(w, 1, i - 1)[j] = w[j]
    BY <1>1, <1>2
  <1>4. /\ SubSeq(w, i + 1, n) \in Seq(S) /\ Len(SubSeq(w, i + 1, n)) = n - i
        /\ \A j \in 1..(n - i) : SubSeq(w, i + 1, n)[j] = w[i + j]
    BY <1>1, <1>2
  <1>5. r = SubSeq(w, 1, i - 1) \o SubSeq(w, i + 1, n)
    BY <1>1 DEF RemoveAt
  <1>6. r \in Seq(S) /\ Len(r) = n - 1
    BY <1>2, <1>3, <1>4, <1>5
  <1>7. \A j \in 1..(n - 1) : r[j] = IF j < i THEN w[j] ELSE w[j + 1]
    <2> SUFFICES ASSUME NEW j \in 1..(n - 1) PROVE r[j] = IF j < i THEN w[j] ELSE w[j + 1]
      OBVIOUS
    <2> DEFINE a == SubSeq(w, 1, i - 1)
               b == SubSeq(w, i + 1, n)
    <2>1. \A k \in 1..(Len(a) + Len(b)) :
            (a \o b)[k] = IF k <= Len(a) THEN a[k] ELSE b[k - Len(a)]
      <3> HIDE DEF a, b
      <3> QED
        BY <1>3, <1>4, ConcatProperties DEF a, b
    <2>2. r[j] = IF j <= i - 1 THEN a[j] ELSE b[j - (i - 1)]
      <3>1. Len(a) = i - 1 /\ Len(b) = n - i /\ r = a \o b
        BY <1>3, <1>4, <1>5
      <3>2. j \in 1..(Len(a) + Len(b))
        BY <1>2, <3>1
      <3> HIDE DEF a, b, r
      <3> QED
        BY <2>1, <3>1, <3>2
    <2>3. CASE j < i
      BY <1>2, <1>3, <2>2, <2>3
    <2>4. CASE ~(j < i)
      <3>1. j - (i - 1) \in 1..(n - i) /\ i + (j - (i - 1)) = j + 1
        BY <1>2, <2>4
      <3> QED
        BY <1>2, <1>4, <2>2, <2>4, <3>1
    <2> QED
      BY <2>3, <2>4
  <1>8. DOMAIN r = 1..(n - 1)
    BY <1>6, LenProperties
  <1> HIDE DEF r
  <1>9. IsInjective(r)
    <2> SUFFICES ASSUME NEW a \in 1..(n - 1), NEW b \in 1..(n - 1), r[a] = r[b] PROVE a = b
      BY <1>8 DEF IsInjective
    <2>1. \A x, y \in 1..n : w[x] = w[y] => x = y
      BY <1>2 DEF IsInjective
    <2>2. a + 1 \in 1..n /\ b + 1 \in 1..n /\ a \in 1..n /\ b \in 1..n
      BY <1>1
    <2> QED
      BY <1>2, <1>7, <2>1, <2>2
  <1>10. ToSet(r) = ToSet(w) \ {w[i]}
    <2>1. \A x \in ToSet(r) : x \in ToSet(w) \ {w[i]}
      BY <1>2, <1>7, <1>8 DEF IsInjective, ToSet
    <2>2. \A x \in ToSet(w) \ {w[i]} : x \in ToSet(r)
      <3> SUFFICES ASSUME NEW j \in 1..n, j # i PROVE w[j] \in ToSet(r)
        BY <1>2 DEF ToSet
      <3>1. CASE j < i
        BY <1>2, <1>7, <1>8, <3>1 DEF ToSet
      <3>2. CASE i < j
        <4>1. j - 1 \in 1..(n - 1) /\ r[j - 1] = w[j]
          BY <1>2, <1>7, <3>2
        <4> QED
          BY <1>8, <4>1 DEF ToSet
      <3> QED
        BY <1>2, <3>1, <3>2
    <2> QED
      BY <2>1, <2>2
  <1> QED
    BY <1>6, <1>9, <1>10 DEF r

-----------------------------------------------------------------------------
(* What the invariants say of the thread that takes a step.                *)
LEMMA StepTypes ==
    ASSUME ThreadInv, ~selfWoken
    PROVE  /\ current \in Thread /\ status \in [Thread -> Status]
           /\ pc \in [Thread -> Label] /\ intr \in [Thread -> BOOLEAN]
           /\ prio \in [Thread -> Prio] /\ resched \in [Thread -> Nat]
           /\ arg = [t \in Thread |-> arg[t]]
           /\ \A e \in sleepq : e.thread \in Thread
           /\ Schedulable(status)
  BY DEF ThreadInv, ThreadTypeOK, ArgOK

(* A step of Threads moves no thread into or out of down()'s loop, and     *)
(* none into up(); it blocks none that is there and wakes none: tick()     *)
(* wakes sleepers only.                                                    *)
LEMMA ThreadStepsSpareLoop ==
    ASSUME ThreadInv, SleepInv, [ThreadNext]_threadVars, ~selfWoken'
    PROVE  \A t \in Thread :
             /\ pc'[t] = "down_loop" <=> pc[t] = "down_loop"
             /\ pc'[t] \in Saving => pc'[t] = pc[t]
             /\ pc[t] = "down_loop" =>
                  /\ arg'[t] = arg[t]
                  /\ status'[t] = "Blocked" <=> status[t] = "Blocked"
  <1>1. ~selfWoken
    BY WokenStays
  <1> USE <1>1, StepTypes
  <1>2. CASE UNCHANGED threadVars \/ TimerInterrupt \/ TickDone \/ Halted
    BY <1>2 DEF threadVars, managerVars, localVars, TimerInterrupt, TickDone, Halted
  <1>3. CASE Yield \/ TrapSchedule
    <2>1. UNCHANGED <<pc, arg>> /\ schedule(status)
      BY <1>3 DEF Yield, TrapSchedule, localVars
    <2> QED
      BY <2>1, ScheduleKeeps
  <1>4. CASE SpawnSchedule \/ ExitSchedule \/ SetPrioritySchedule \/ SleepSchedule
    <2>1. /\ pc[current] # "down_loop" /\ pc'[current] \notin Saving /\ arg' = arg
          /\ \A t \in Thread : t # current => pc'[t] = pc[t]
      BY <1>4 DEF SpawnSchedule, ExitSchedule, SetPrioritySchedule, SleepSchedule,
                  ScheduleThen, At, Goto, Saving
    <2>2. schedule(status)
      BY <1>4 DEF SpawnSchedule, ExitSchedule, SetPrioritySchedule, SleepSchedule, ScheduleThen
    <2>3. \A t \in Thread : status'[t] = "Blocked" <=> status[t] = "Blocked"
      BY <2>2, ScheduleKeeps
    <2> QED
      BY <2>1, <2>3 DEF Saving
  <1>5. CASE SpawnRegister
    <2>1. PICK u \in Thread : /\ status[u] = "None" /\ status' = [status EXCEPT ![u] = "Ready"]
                              /\ arg' = [arg EXCEPT ![current] = u]
      BY <1>5 DEF SpawnRegister
    <2>2. pc[current] = "run" /\ pc' = [pc EXCEPT ![current] = "spawn_all"]
      BY <1>5 DEF SpawnRegister, Calls, At, Goto
    <2>3. \A t \in Thread : status'[t] = "Blocked" <=> status[t] = "Blocked"
      BY <2>1
    <2>4. \A t \in Thread : /\ arg'[t] = IF t = current THEN u ELSE arg[t]
                            /\ pc'[t] = IF t = current THEN "spawn_all" ELSE pc[t]
      BY <2>1, <2>2
    <2> QED
      BY <2>2, <2>3, <2>4 DEF Saving
  <1>6. CASE \/ ExitMark \/ SetPriorityStore \/ SetPriorityDone \/ SleepPush \/ SleepMark
             \/ SpawnAll
    <2>1. pc[current] # "down_loop" /\ pc'[current] \notin Saving
      BY <1>6 DEF ExitMark, SetPriorityStore, SetPriorityDone, SleepPush, SleepMark, SpawnAll,
                  Calls, At, Goto, Saving
    <2>2. \A t \in Thread : t # current =>
            pc'[t] = pc[t] /\ arg'[t] = arg[t] /\ status'[t] = status[t]
      BY <1>6 DEF ExitMark, SetPriorityStore, SetPriorityDone, SleepPush, SleepMark, SpawnAll,
                  Goto, managerVars
    <2> QED
      BY <2>1, <2>2 DEF Saving
  <1>7. CASE TickWake
    <2>1. PICK e \in sleepq : wake_up(e.thread)
      BY <1>7 DEF TickWake, Peek
    <2>2. Asleep(e.thread)
      BY DEF SleepInv
    <2>3. \A t \in Thread : t # e.thread => status'[t] = status[t]
      BY <2>1 DEF wake_up
    <2> QED
      BY <1>7, <2>2, <2>3 DEF TickWake, localVars, Asleep
  <1> QED
    BY <1>2, <1>3, <1>4, <1>5, <1>6, <1>7 DEF ThreadNext, CallStep, KernelStep, TrapStep

(* A step of Threads keeps the invariant of the semaphores.                *)
LEMMA ThreadStepsKeepSema ==
    ASSUME ThreadInv, SleepInv, SemaInv, [ThreadNext]_threadVars, UNCHANGED semaVars
    PROVE  SemaInv'
  <1> SUFFICES ASSUME ~selfWoken' PROVE SemaInv'
    BY DEF SemaInv
  <1>1. ~selfWoken
    BY WokenStays
  <1>2. SemaTypeOK /\ WaitersBlocked /\ NoLostWakeup /\ InterruptsRestored
        /\ SavedLevel /\ TickTaken
    BY <1>1 DEF SemaInv
  <1>3. /\ current \in Thread /\ pc \in [Thread -> Label] /\ intr \in [Thread -> BOOLEAN]
    BY <1>1, StepTypes
  <1>4. UNCHANGED <<value, waiters, old, level>>
    BY DEF semaVars
  <1>5. \A t \in Thread :
             /\ pc'[t] = "down_loop" <=> pc[t] = "down_loop"
             /\ pc'[t] \in Saving => pc'[t] = pc[t]
             /\ pc[t] = "down_loop" =>
                  /\ arg'[t] = arg[t]
                  /\ status'[t] = "Blocked" <=> status[t] = "Blocked"
    BY ThreadStepsSpareLoop
  <1>6. SemaTypeOK'
    BY <1>2, <1>4, <1>5 DEF SemaTypeOK
  <1>7. WaitersBlocked'
    BY <1>2, <1>4, <1>5 DEF WaitersBlocked
  <1>8. NoLostWakeup'
    BY <1>2, <1>4, <1>5 DEF NoLostWakeup, OnItsWay
  <1>9. InterruptsRestored' /\ TickTaken'
    <2>1. CASE TimerInterrupt
      <3>1. /\ intr[current] /\ ~ticking /\ ticking' /\ current' = current
            /\ intr' = [intr EXCEPT ![current] = FALSE]
        BY <2>1 DEF TimerInterrupt, managerVars
      <3> QED
        BY <1>2, <1>3, <1>4, <1>5, <3>1 DEF InterruptsRestored, TickTaken
    <2>2. CASE TickWake
      <3>1. UNCHANGED <<intr, ticking, current>>
        BY <2>2 DEF TickWake, wake_up, trapVars
      <3> QED
        BY <1>2, <1>3, <1>4, <1>5, <3>1 DEF InterruptsRestored, TickTaken
    <2>3. CASE TickDone
      <3>1. /\ ticking /\ ~ticking' /\ current' = current
            /\ intr' = [intr EXCEPT ![current] = TRUE]
        BY <2>3 DEF TickDone, managerVars
      <3> QED
        BY <1>2, <1>3, <1>4, <1>5, <3>1 DEF InterruptsRestored, TickTaken
    <2>4. CASE Halted \/ UNCHANGED threadVars
      BY <1>2, <1>4, <2>4 DEF Halted, threadVars, managerVars, localVars, timerVars, trapVars,
                        InterruptsRestored, TickTaken
    <2>5. CASE ~(TimerInterrupt \/ TickWake \/ TickDone \/ Halted \/ UNCHANGED threadVars)
      <3>1. UNCHANGED <<intr, ticking>> /\ ~ticking
        BY <2>5 DEF ThreadNext, CallStep, KernelStep, TrapStep, Yield, SpawnRegister,
              ExitMark, SetPriorityStore, SpawnAll, SpawnSchedule, ExitSchedule, SleepPush,
              SetPrioritySchedule, SetPriorityDone, SleepMark, SleepSchedule, ScheduleThen,
              TrapSchedule, Calls, At, timerVars, trapVars
      <3> QED
        BY <1>2, <1>4, <1>5, <3>1 DEF InterruptsRestored, TickTaken
    <2> QED
      BY <2>1, <2>2, <2>3, <2>4, <2>5
  <1>10. SavedLevel'
    BY <1>2, <1>4, <1>5 DEF SavedLevel
  <1> QED
    BY <1>6, <1>7, <1>8, <1>9, <1>10 DEF SemaInv

-----------------------------------------------------------------------------
(* The caller of down() or up() runs, is not asleep, and if it is in       *)
(* down()'s loop already, then for s.                                      *)
Caller(s) ==
    /\ ~selfWoken /\ ~ticking
    /\ current # Idle
    /\ pc[current] \notin {"sleep_mark", "sleep_sched"}
    /\ pc[current] = "down_loop" => arg[current] = s

(* The labels where a thread has no local value for Threads.               *)
Plain == Label \ {"spawn_all", "setprio_sched", "setprio_done"}

(* A caller is not Blocked, and waits nowhere.                             *)
LEMMA CallerWaitsNowhere ==
    ASSUME ThreadInv, SleepInv, SemaInv, NEW s, Caller(s)
    PROVE  /\ status[current] # "Blocked"
           /\ \A r \in Sema : current \notin ToSet(waiters[r])
  <1>1. status[current] # "Blocked"
    BY DEF Caller, SleepInv
  <1>2. current \in Thread
    BY StepTypes DEF Caller
  <1> QED
    BY <1>1, <1>2 DEF Caller, SemaInv, WaitersBlocked

(* What down() restores at its end is what its caller had chosen, in the   *)
(* first turn of the loop and in every later one.                          *)
LEMMA SavedIsLevel ==
    ASSUME ThreadInv, SemaInv, ~selfWoken, ~ticking
    PROVE  Saved = level[current] /\ Saved \in BOOLEAN
  <1>1. current \in Thread /\ intr \in [Thread -> BOOLEAN]
    BY StepTypes
  <1>2. SemaTypeOK /\ InterruptsRestored /\ SavedLevel
    BY DEF SemaInv
  <1>3. level[current] \in BOOLEAN /\ intr[current] \in BOOLEAN
    BY <1>1, <1>2 DEF SemaTypeOK
  <1>4. CASE pc[current] = "down_loop"
    BY <1>1, <1>2, <1>3, <1>4 DEF SavedLevel, Saved, Saving
  <1>5. CASE pc[current] # "down_loop"
    <2>1. intr[current] <=> level[current]
      BY <1>1, <1>2, <1>5 DEF InterruptsRestored
    <2> QED
      BY <1>3, <1>5, <2>1 DEF Saved
  <1> QED
    BY <1>4, <1>5

(* down() on a free semaphore.                                             *)
LEMMA TakeKeeps ==
    ASSUME ThreadInv, SleepInv, SemaInv, NEW s \in Sema, Caller(s), DownTake(s),
           NEW k \in Plain, k \notin Saving, Goto(k), NEW x, arg' = [arg EXCEPT ![current] = x],
           UNCHANGED <<prioVars, timerVars, resched>>
    PROVE  ThreadInv' /\ SleepInv' /\ SemaInv'
  <1>1. ~selfWoken /\ ~ticking /\ current # Idle
    BY DEF Caller
  <1>2. /\ current \in Thread /\ pc \in [Thread -> Label] /\ intr \in [Thread -> BOOLEAN]
        /\ arg = [t \in Thread |-> arg[t]]
    BY <1>1, StepTypes
  <1>3. /\ value[s] > 0 /\ value' = [value EXCEPT ![s] = @ - 1]
        /\ old' = [old EXCEPT ![current] = Saved]
        /\ intr' = [intr EXCEPT ![current] = Saved]
        /\ UNCHANGED <<waiters, level, current, status, rq, all, panic>>
    BY DEF DownTake, managerVars
  <1>4. \A t \in Thread : /\ pc'[t] = IF t = current THEN k ELSE pc[t]
                          /\ t # current => arg'[t] = arg[t]
    BY <1>2 DEF Goto
  <1>5. ThreadInv'
    <2>1. ArgOK' /\ IdleRuns' /\ pc' \in [Thread -> Label]
      BY <1>1, GotoKeeps DEF ThreadInv, Plain
    <2>2. intr' \in [Thread -> BOOLEAN]
      BY <1>1, <1>2, <1>3, SavedIsLevel
    <2>3. ThreadTypeOK'
      BY <1>1, <1>3, <2>1, <2>2 DEF ThreadInv, ThreadTypeOK, prioVars, timerVars
    <2> QED
      BY <1>1, <1>3, <2>1, <2>3, LocalStepKeeps
  <1>6. SleepInv'
    BY <1>1, <1>3, MoveKeepsSleepers DEF Caller, timerVars
  <1>7. SemaTypeOK /\ WaitersBlocked /\ NoLostWakeup /\ InterruptsRestored /\ SavedLevel
    BY <1>1 DEF SemaInv
  <1>8. \A r \in Sema : value'[r] = IF r = s THEN value[s] - 1 ELSE value[r]
    BY <1>3, <1>7 DEF SemaTypeOK
  <1>9. SemaTypeOK'
    <2>1. value[s] - 1 \in Nat
      BY <1>3, <1>7 DEF SemaTypeOK
    <2>2. value' \in [Sema -> Nat]
      BY <1>3, <1>7, <2>1 DEF SemaTypeOK
    <2>3. old' \in [Thread -> BOOLEAN]
      BY <1>1, <1>3, <1>7, SavedIsLevel DEF SemaTypeOK
    <2> QED
      BY <1>3, <1>4, <1>7, <2>2, <2>3 DEF SemaTypeOK, Saving
  <1>10. WaitersBlocked'
    BY <1>3, <1>4, <1>7, CallerWaitsNowhere DEF WaitersBlocked, Saving
  <1>11. NoLostWakeup'
    <2> SUFFICES ASSUME NEW r \in Sema, waiters'[r] # <<>>
                 PROVE  \/ value'[r] = 0
                        \/ value'[r] = 1 /\ \E t \in Thread : OnItsWay(t, r)'
      BY DEF NoLostWakeup
    <2>1. CASE r = s
      <3>1. value[s] = 0 \/ value[s] = 1
        BY <1>3, <1>7, <2>1 DEF NoLostWakeup
      <3> QED
        BY <1>3, <1>8, <2>1, <3>1
    <2>2. CASE r # s
      <3>1. \A t \in Thread : OnItsWay(t, r) => OnItsWay(t, r)'
        BY <1>3, <1>4, <2>2 DEF OnItsWay, Caller, Saving
      <3> QED
        BY <1>3, <1>7, <1>8, <2>2, <3>1 DEF NoLostWakeup
    <2> QED
      BY <2>1, <2>2
  <1>12. InterruptsRestored' /\ TickTaken'
    <2>1. ~ticking' /\ \A t \in Thread : intr'[t] = IF t = current THEN level[t] ELSE intr[t]
      BY <1>1, <1>2, <1>3, SavedIsLevel DEF timerVars
    <2> QED
      BY <1>1, <1>3, <1>4, <1>7, <2>1 DEF InterruptsRestored, TickTaken, Saving
  <1>13. SavedLevel'
    <2>1. \A t \in Thread : t # current => old'[t] = old[t]
      BY <1>3, <1>7 DEF SemaTypeOK
    <2> QED
      BY <1>3, <1>4, <1>7, <2>1 DEF SavedLevel
  <1> QED
    BY <1>5, <1>6, <1>9, <1>10, <1>11, <1>12, <1>13 DEF SemaInv

(* down() on a taken semaphore: the caller joins the waiters.              *)
LEMMA BlockKeeps ==
    ASSUME ThreadInv, SleepInv, SemaInv, NEW s \in Sema, Caller(s), DownBlock(s),
           Goto("down_loop"), arg' = [arg EXCEPT ![current] = s],
           UNCHANGED <<prioVars, timerVars, resched>>
    PROVE  ThreadInv' /\ SleepInv' /\ SemaInv'
  <1> DEFINE st == [status EXCEPT ![current] = "Blocked"]
  <1>1. ~selfWoken /\ ~ticking /\ current # Idle
    BY DEF Caller
  <1>2. /\ current \in Thread /\ pc \in [Thread -> Label] /\ intr \in [Thread -> BOOLEAN]
        /\ arg = [t \in Thread |-> arg[t]] /\ status \in [Thread -> Status]
        /\ resched \in [Thread -> Nat] /\ \A e \in sleepq : e.thread \in Thread
    BY <1>1, StepTypes
  <1>3. /\ value[s] = 0 /\ value' = value
        /\ waiters' = [waiters EXCEPT ![s] = <<current>> \o @]
        /\ old' = [old EXCEPT ![current] = Saved] /\ level' = level
        /\ intr' = [intr EXCEPT ![current] = FALSE]
        /\ schedule(st)
    BY DEF DownBlock
  <1>4. Schedulable(st)
    BY <1>1, MarkKeeps DEF ThreadInv
  <1>5. \A t \in Thread : /\ pc'[t] = IF t = current THEN "down_loop" ELSE pc[t]
                          /\ arg'[t] = IF t = current THEN s ELSE arg[t]
                          /\ st[t] = IF t = current THEN "Blocked" ELSE status[t]
    BY <1>2 DEF Goto
  <1> HIDE DEF st
  <1>6. ArgOK' /\ IdleRuns' /\ pc' \in [Thread -> Label]
    BY <1>1, GotoKeeps DEF ThreadInv, Label
  <1>7. intr' \in [Thread -> BOOLEAN] /\ resched' \in [Thread -> Nat]
    BY <1>2, <1>3
  <1>8. ThreadInv'
    BY <1>1, <1>3, <1>4, <1>6, <1>7, ScheduleStepKeeps
  <1>9. SleepInv'
    <2>1. \A e \in sleepq : e.thread # current
      BY <1>1, NoEntryOutsideSleep DEF Caller
    <2>2. \A e \in sleepq :
            \/ pc'[e.thread] = "sleep_mark"
            \/ pc'[e.thread] \in {"sleep_sched", "run"} /\ st[e.thread] = "Blocked"
      BY <1>1, <1>2, <1>5, <2>1 DEF SleepInv, Asleep
    <2> QED
      BY <1>1, <1>3, <1>4, <2>2, ScheduleKeepsSleepers
  <1>10. SemaTypeOK /\ WaitersBlocked /\ NoLostWakeup /\ InterruptsRestored /\ SavedLevel
    BY <1>1 DEF SemaInv
  <1>11. \A t \in Thread : status'[t] = "Blocked" <=> t = current \/ status[t] = "Blocked"
    <2>1. \A t \in Thread : status'[t] = "Blocked" <=> st[t] = "Blocked"
      BY <1>3, <1>4, ScheduleKeeps
    <2> QED
      BY <1>5, <2>1
  <1>12. /\ waiters'[s] \in Seq(Thread) /\ IsInjective(waiters'[s])
         /\ ToSet(waiters'[s]) = ToSet(waiters[s]) \cup {current}
    <2>1. waiters'[s] = <<current>> \o waiters[s] /\ waiters[s] \in Seq(Thread)
      BY <1>3, <1>10 DEF SemaTypeOK
    <2>2. IsInjective(waiters[s]) /\ current \notin ToSet(waiters[s])
      BY <1>10, CallerWaitsNowhere DEF WaitersBlocked
    <2> QED
      BY <1>2, <2>1, <2>2, PushFrontProperties
  <1>13. \A r \in Sema : r # s => waiters'[r] = waiters[r]
    BY <1>3, <1>10 DEF SemaTypeOK
  <1>14. SemaTypeOK'
    <2>1. waiters' \in [Sema -> Seq(Thread)]
      BY <1>3, <1>10, <1>12, <1>13 DEF SemaTypeOK
    <2>2. old' \in [Thread -> BOOLEAN]
      BY <1>1, <1>3, <1>10, SavedIsLevel DEF SemaTypeOK
    <2> QED
      BY <1>3, <1>5, <1>10, <2>1, <2>2 DEF SemaTypeOK
  <1>15. WaitersBlocked'
    <2>1. \A r \in Sema : IsInjective(waiters'[r])
      BY <1>10, <1>12, <1>13 DEF WaitersBlocked
    <2>2. ASSUME NEW r \in Sema, NEW t \in Thread
          PROVE  t \in ToSet(waiters'[r]) <=>
                   pc'[t] = "down_loop" /\ arg'[t] = r /\ status'[t] = "Blocked"
      <3>1. t \in ToSet(waiters'[r]) <=> t \in ToSet(waiters[r]) \/ (r = s /\ t = current)
        BY <1>12, <1>13
      <3>2. CASE t = current
        BY <1>5, <1>11, <3>1, <3>2, CallerWaitsNowhere
      <3>3. CASE t # current
        BY <1>5, <1>10, <1>11, <3>1, <3>3 DEF WaitersBlocked
      <3> QED
        BY <3>2, <3>3
    <2> QED
      BY <2>1, <2>2 DEF WaitersBlocked
  <1>16. NoLostWakeup'
    <2> SUFFICES ASSUME NEW r \in Sema, waiters'[r] # <<>>
                 PROVE  \/ value'[r] = 0
                        \/ value'[r] = 1 /\ \E t \in Thread : OnItsWay(t, r)'
      BY DEF NoLostWakeup
    <2>1. CASE r = s
      BY <1>3, <2>1
    <2>2. CASE r # s
      <3>1. \A t \in Thread : OnItsWay(t, r) => OnItsWay(t, r)'
        BY <1>5, <1>13, <2>2 DEF OnItsWay, Caller
      <3> QED
        BY <1>3, <1>10, <1>13, <2>2, <3>1 DEF NoLostWakeup
    <2> QED
      BY <2>1, <2>2
  <1>17. InterruptsRestored' /\ TickTaken'
    <2>1. ~ticking' /\ \A t \in Thread : intr'[t] = IF t = current THEN FALSE ELSE intr[t]
      BY <1>1, <1>2, <1>3 DEF timerVars
    <2> QED
      BY <1>1, <1>3, <1>5, <1>10, <2>1 DEF InterruptsRestored, TickTaken
  <1>18. SavedLevel'
    <2>1. \A t \in Thread : old'[t] = IF t = current THEN level[t] ELSE old[t]
      BY <1>1, <1>3, <1>10, SavedIsLevel DEF SemaTypeOK
    <2> QED
      BY <1>3, <1>5, <1>10, <2>1 DEF SavedLevel
  <1> QED
    BY <1>8, <1>9, <1>14, <1>15, <1>16, <1>17, <1>18 DEF SemaInv

(* up(), by a caller that is not in down()'s loop: the woken waiter was    *)
(* Blocked, so that wake_up accepts it, and it is coming for the unit.     *)
LEMMA UpKeeps ==
    ASSUME ThreadInv, SleepInv, SemaInv, NEW s \in Sema, Caller(s),
           pc[current] # "down_loop", UpFree(s) \/ UpWake(s),
           NEW k \in Plain, k # "down_loop", Goto(k), NEW x, arg' = [arg EXCEPT ![current] = x],
           UNCHANGED <<prioVars, timerVars, trapVars>>
    PROVE  /\ ThreadInv' /\ SleepInv' /\ SemaInv'
           /\ value[s] = 0 => panic' = panic
  <1>1. ~selfWoken /\ ~ticking /\ current # Idle
    BY DEF Caller
  <1>2. /\ current \in Thread /\ pc \in [Thread -> Label] /\ intr \in [Thread -> BOOLEAN]
        /\ arg = [t \in Thread |-> arg[t]] /\ status \in [Thread -> Status]
        /\ prio \in [Thread -> Prio]
        /\ \A e \in sleepq : e.thread \in Thread
    BY <1>1, StepTypes
  <1>3. SemaTypeOK /\ WaitersBlocked /\ NoLostWakeup /\ InterruptsRestored /\ SavedLevel
    BY <1>1 DEF SemaInv
  <1>4. \A t \in Thread : /\ pc'[t] = IF t = current THEN k ELSE pc[t]
                          /\ t # current => arg'[t] = arg[t]
    BY <1>2 DEF Goto
  <1>5. ArgOK' /\ IdleRuns' /\ pc' \in [Thread -> Label]
    BY <1>1, GotoKeeps DEF ThreadInv, Plain
  <1>6. \A e \in sleepq : e.thread # current
    BY <1>1, NoEntryOutsideSleep DEF Caller
  <1>7. InterruptsRestored' /\ TickTaken' /\ SavedLevel' /\ level' = level
        /\ old' \in [Thread -> BOOLEAN]
    <2>1. ~ticking' /\ intr' = intr /\ level' = level
          /\ old' = [old EXCEPT ![current] = intr[current]]
      BY <1>1 DEF timerVars, trapVars, UpFree, UpWake
    <2>2. intr[current] = level[current]
      <3>1. level[current] \in BOOLEAN /\ intr[current] \in BOOLEAN
        BY <1>2, <1>3 DEF SemaTypeOK
      <3>2. intr[current] <=> level[current]
        BY <1>1, <1>2, <1>3 DEF InterruptsRestored
      <3> QED
        BY <3>1, <3>2
    <2>3. old' \in [Thread -> BOOLEAN]
      BY <1>2, <1>3, <2>1 DEF SemaTypeOK
    <2>4. \A t \in Thread : old'[t] = IF t = current THEN level[t] ELSE old[t]
      BY <1>2, <1>3, <2>1, <2>2 DEF SemaTypeOK
    <2>5. SavedLevel'
      BY <1>3, <1>4, <2>1, <2>4 DEF SavedLevel
    <2>6. InterruptsRestored' /\ TickTaken'
      BY <1>1, <1>3, <1>4, <2>1 DEF InterruptsRestored, TickTaken
    <2> QED
      BY <2>1, <2>3, <2>5, <2>6
  <1>8. CASE UpFree(s) \/ (UpWake(s) /\ value[s] # 0)
    <2>1. UNCHANGED <<current, status, rq, all, waiters>> /\ panic' \in {panic, "sema_count"}
      BY <1>8 DEF UpFree, UpWake, wake_up, managerVars
    <2>2. UpFree(s) => waiters[s] = <<>> /\ value' = [value EXCEPT ![s] = @ + 1]
      BY DEF UpFree
    <2>3. UpWake(s) /\ value[s] # 0 => value' = value
      BY DEF UpWake
    <2>4. \A r \in Sema : waiters[r] # <<>> => value'[r] = value[r]
      BY <1>3, <1>8, <2>2, <2>3 DEF SemaTypeOK
    <2>5. ThreadInv'
      <3>1. ThreadTypeOK'
        BY <1>1, <1>5, <2>1 DEF ThreadInv, ThreadTypeOK, Panic, prioVars, timerVars, trapVars
      <3>2. Schedulable(status)'
        BY <1>1, <2>1 DEF ThreadInv, Schedulable, ReadyIn, prioVars
      <3> QED
        BY <1>1, <1>5, <2>1, <3>1, <3>2 DEF ThreadInv
    <2>6. SleepInv'
      BY <1>1, <2>1, MoveKeepsSleepers DEF Caller, timerVars
    <2>7. value' \in [Sema -> Nat]
      <3>1. value \in [Sema -> Nat] /\ value[s] + 1 \in Nat
        BY <1>3 DEF SemaTypeOK
      <3> QED
        BY <1>8, <2>2, <2>3, <3>1
    <2>8. SemaTypeOK'
      BY <1>3, <1>4, <1>7, <2>1, <2>7 DEF SemaTypeOK
    <2>9. WaitersBlocked'
      BY <1>3, <1>4, <2>1, CallerWaitsNowhere DEF WaitersBlocked
    <2>10. NoLostWakeup'
      <3>1. \A r \in Sema : \A t \in Thread : OnItsWay(t, r) => OnItsWay(t, r)'
        BY <1>4, <2>1 DEF OnItsWay
      <3> QED
        BY <1>3, <2>1, <2>4, <3>1 DEF NoLostWakeup
    <2>11. value[s] = 0 => panic' = panic
      BY <1>8 DEF UpFree, managerVars
    <2> QED
      BY <1>7, <2>5, <2>6, <2>8, <2>9, <2>10, <2>11 DEF SemaInv
  <1>9. CASE UpWake(s) /\ value[s] = 0
    <2> DEFINE i == get_maxpriority(s)
    <2>1. /\ waiters[s] # <<>> /\ value[s] = 0
          /\ value' = [value EXCEPT ![s] = 1]
          /\ waiters' = [waiters EXCEPT ![s] = RemoveAt(@, i)]
          /\ wake_up(waiters[s][i])
      BY <1>9 DEF UpWake
    <2>2. waiters[s] \in Seq(Thread) /\ IsInjective(waiters[s])
      BY <1>3 DEF SemaTypeOK, WaitersBlocked
    <2>3. i \in 1..Len(waiters[s])
      BY <1>2, <2>1, <2>2, MaxPriorityFound
    <2>4. PICK w \in Thread : w = waiters[s][i] /\ w \in ToSet(waiters[s])
      BY <2>2, <2>3, ElementOfSeq, LenProperties DEF ToSet
    <2>5. /\ RemoveAt(waiters[s], i) \in Seq(Thread)
          /\ IsInjective(RemoveAt(waiters[s], i))
          /\ ToSet(RemoveAt(waiters[s], i)) = ToSet(waiters[s]) \ {w}
      BY <2>2, <2>3, <2>4, RemoveAtProperties
    <2> HIDE DEF i
    <2>6. waiters'[s] = RemoveAt(waiters[s], i) /\ value'[s] = 1
          /\ \A r \in Sema : r # s => waiters'[r] = waiters[r] /\ value'[r] = value[r]
      BY <1>3, <2>1 DEF SemaTypeOK
    <2>7. pc[w] = "down_loop" /\ arg[w] = s /\ status[w] = "Blocked" /\ w # current
      BY <1>3, <2>4 DEF WaitersBlocked
    <2>8. /\ status' = [status EXCEPT ![w] = "Ready"]
          /\ UNCHANGED <<current, all, panic>>
      BY <2>1, <2>4, <2>7 DEF wake_up
    <2>9. \A t \in Thread : status'[t] = IF t = w THEN "Ready" ELSE status[t]
      BY <1>2, <2>8
    <2>10. ThreadInv'
      <3>1. Schedulable(status)'
        BY <1>1, <2>1, <2>4, <2>7, WakeKeeps DEF ThreadInv, prioVars
      <3>2. ThreadTypeOK'
        BY <1>1, <1>5, <2>8, <3>1
        DEF ThreadInv, ThreadTypeOK, Schedulable, prioVars, timerVars, trapVars
      <3> QED
        BY <1>1, <1>5, <2>8, <3>1, <3>2 DEF ThreadInv
    <2>11. SleepInv'
      <3>1. \A e \in sleepq : e.thread # w
        BY <1>1, <2>7 DEF SleepInv, Asleep
      <3>2. sleepq' = sleepq /\ ~selfWoken'
        BY <1>1 DEF timerVars
      <3>3. \A e \in sleepq' : Asleep(e.thread)'
        BY <1>1, <1>2, <1>4, <1>6, <2>9, <3>1, <3>2 DEF SleepInv, Asleep
      <3>4. status'[current'] # "Blocked"
        BY <1>2, <2>7, <2>8, <2>9, CallerWaitsNowhere
      <3> QED
        BY <1>1, <3>2, <3>3, <3>4 DEF SleepInv
    <2>12. SemaTypeOK'
      <3>1. waiters' \in [Sema -> Seq(Thread)] /\ value' \in [Sema -> Nat]
        BY <1>3, <2>1, <2>5 DEF SemaTypeOK
      <3> QED
        BY <1>3, <1>4, <1>7, <3>1 DEF SemaTypeOK
    <2>13. WaitersBlocked'
      <3>1. \A r \in Sema : IsInjective(waiters'[r])
        BY <1>3, <2>5, <2>6 DEF WaitersBlocked
      <3>2. ASSUME NEW r \in Sema, NEW t \in Thread
            PROVE  t \in ToSet(waiters'[r]) <=>
                     pc'[t] = "down_loop" /\ arg'[t] = r /\ status'[t] = "Blocked"
        <4>1. t \in ToSet(waiters'[r]) <=> t \in ToSet(waiters[r]) /\ t # w
          <5>1. CASE r = s
            BY <2>5, <2>6, <5>1
          <5>2. CASE r # s
            BY <1>3, <2>4, <2>6, <2>7, <5>2 DEF WaitersBlocked
          <5> QED
            BY <5>1, <5>2
        <4>2. CASE t = current
          BY <1>4, <4>1, <4>2, CallerWaitsNowhere
        <4>3. CASE t # current
          BY <1>3, <1>4, <2>9, <4>1, <4>3 DEF WaitersBlocked
        <4> QED
          BY <4>2, <4>3
      <3> QED
        BY <3>1, <3>2 DEF WaitersBlocked
    <2>14. NoLostWakeup'
      <3>1. OnItsWay(w, s)'
        BY <1>4, <2>4, <2>5, <2>6, <2>7 DEF OnItsWay
      <3>2. \A r \in Sema : r # s => \A t \in Thread : OnItsWay(t, r) => OnItsWay(t, r)'
        BY <1>4, <2>6 DEF OnItsWay
      <3> QED
        BY <1>3, <2>4, <2>6, <3>1, <3>2 DEF NoLostWakeup
    <2> QED
      BY <1>7, <2>8, <2>10, <2>11, <2>12, <2>13, <2>14 DEF SemaInv
  <1> QED
    BY <1>8, <1>9 DEF UpWake

(* A step of a thread outside sleep() and down()'s loop that touches no    *)
(* semaphore keeps the invariants, even if it changes priorities.          *)
LEMMA MoveKeeps ==
    ASSUME ThreadInv, SleepInv, SemaInv, ~selfWoken, ~ticking, current # Idle,
           pc[current] \notin {"sleep_mark", "sleep_sched", "down_loop"},
           NEW k \in Plain, k \notin Saving, Goto(k), NEW x, arg' = [arg EXCEPT ![current] = x],
           prio' \in [Thread -> Prio], priority_setted' = priority_setted,
           panic' \in Panic \ {"no_ready", "next_not_ready", "tail_ready"},
           UNCHANGED <<current, status, rq, all, timerVars, trapVars, semaVars>>
    PROVE  ThreadInv' /\ SleepInv' /\ SemaInv'
  <1>1. /\ current \in Thread /\ pc \in [Thread -> Label] /\ arg = [t \in Thread |-> arg[t]]
    BY StepTypes
  <1>2. \A t \in Thread : /\ pc'[t] = IF t = current THEN k ELSE pc[t]
                          /\ t # current => arg'[t] = arg[t]
    BY <1>1 DEF Goto
  <1>3. ArgOK' /\ IdleRuns' /\ pc' \in [Thread -> Label]
    BY GotoKeeps DEF ThreadInv, Plain
  <1>4. ThreadTypeOK'
    BY <1>3 DEF ThreadInv, ThreadTypeOK, timerVars, trapVars
  <1>5. Schedulable(status)'
    BY DEF ThreadInv, Schedulable, ReadyIn
  <1>6. SleepInv'
    BY MoveKeepsSleepers DEF timerVars
  <1>7. SemaTypeOK /\ WaitersBlocked /\ NoLostWakeup /\ InterruptsRestored /\ SavedLevel
    BY DEF SemaInv
  <1>8. UNCHANGED <<status, intr, ticking, value, waiters, old, level>>
    BY DEF trapVars, timerVars, semaVars
  <1>9. SemaTypeOK' /\ WaitersBlocked'
    <2>1. \A t \in Thread : /\ pc'[t] = "down_loop" <=> pc[t] = "down_loop"
                            /\ pc[t] = "down_loop" => arg'[t] = arg[t]
      BY <1>2 DEF Saving
    <2>2. SemaTypeOK'
      BY <1>7, <1>8, <2>1 DEF SemaTypeOK
    <2>3. \A s \in Sema : IsInjective(waiters'[s])
      BY <1>7, <1>8 DEF WaitersBlocked
    <2>4. \A s \in Sema, t \in Thread :
            t \in ToSet(waiters'[s]) <=>
                pc'[t] = "down_loop" /\ arg'[t] = s /\ status'[t] = "Blocked"
      BY <1>7, <1>8, <2>1 DEF WaitersBlocked
    <2> QED
      BY <2>2, <2>3, <2>4 DEF WaitersBlocked
  <1>10. NoLostWakeup'
    BY <1>2, <1>7, <1>8 DEF NoLostWakeup, OnItsWay, Saving
  <1>11. InterruptsRestored' /\ TickTaken'
    BY <1>2, <1>7, <1>8 DEF InterruptsRestored, TickTaken, Saving
  <1>12. ThreadInv'
    BY <1>3, <1>4, <1>5 DEF ThreadInv
  <1>13. SavedLevel'
    BY <1>2, <1>7, <1>8 DEF SavedLevel
  <1> QED
    BY <1>6, <1>9, <1>10, <1>11, <1>12, <1>13 DEF SemaInv

(* So does a call of schedule() between two such places.                   *)
LEMMA ScheduleThenKeepsAll ==
    ASSUME ThreadInv, SleepInv, SemaInv, ~selfWoken, NEW l \in Plain, NEW k \in Plain,
           ScheduleThen(l, k), UNCHANGED semaVars,
           l \notin {"run", "sleep_mark", "sleep_sched", "down_loop"}, k \notin Saving
    PROVE  ThreadInv' /\ SleepInv' /\ SemaInv' /\ panic' = "none"
  <1>1. ThreadInv'
    BY ScheduleThenKeeps DEF Plain
  <1>2. SleepInv'
    BY ScheduleThenKeepsSleepers
  <1>3. /\ panic' = "none"
        /\ \A t \in Thread : status'[t] = "Blocked" <=> status[t] = "Blocked"
    BY ScheduleKeeps, StepTypes DEF ScheduleThen
  <1>4. current \in Thread /\ pc \in [Thread -> Label]
    BY StepTypes
  <1>5. /\ pc[current] = l /\ ~ticking
        /\ UNCHANGED <<arg, intr, ticking, value, waiters, old, level>>
        /\ \A t \in Thread : pc'[t] = IF t = current THEN k ELSE pc[t]
    BY <1>4 DEF ScheduleThen, At, Goto, trapVars, timerVars, semaVars
  <1>6. SemaTypeOK /\ WaitersBlocked /\ NoLostWakeup /\ InterruptsRestored /\ SavedLevel
    BY DEF SemaInv
  <1>7. SemaTypeOK' /\ WaitersBlocked'
    <2>1. \A t \in Thread : pc'[t] = "down_loop" <=> pc[t] = "down_loop"
      BY <1>5 DEF Saving
    <2>2. SemaTypeOK'
      BY <1>5, <1>6, <2>1 DEF SemaTypeOK
    <2>3. \A s \in Sema : IsInjective(waiters'[s])
      BY <1>5, <1>6 DEF WaitersBlocked
    <2>4. \A s \in Sema, t \in Thread :
            t \in ToSet(waiters'[s]) <=>
                pc'[t] = "down_loop" /\ arg'[t] = s /\ status'[t] = "Blocked"
      BY <1>3, <1>5, <1>6, <2>1 DEF WaitersBlocked
    <2> QED
      BY <2>2, <2>3, <2>4 DEF WaitersBlocked
  <1>8. NoLostWakeup'
    BY <1>5, <1>6 DEF NoLostWakeup, OnItsWay, Saving
  <1>9. InterruptsRestored' /\ TickTaken'
    BY <1>5, <1>6 DEF InterruptsRestored, TickTaken, Saving
  <1>10. SavedLevel'
    BY <1>5, <1>6 DEF SavedLevel
  <1> QED
    BY <1>1, <1>2, <1>3, <1>7, <1>8, <1>9, <1>10 DEF SemaInv

(* The call of schedule() in up() is such a call: the second set(old)      *)
(* changes nothing, because the first has restored what the caller had.    *)
LEMMA UpScheduleRestores ==
    ASSUME ThreadInv, SemaInv, ~selfWoken,
           NEW l \in Saving, l # "down_loop", NEW k, UpScheduleThen(l, k)
    PROVE  ScheduleThen(l, k) /\ UNCHANGED semaVars
  <1>1. current \in Thread /\ intr \in [Thread -> BOOLEAN]
    BY StepTypes
  <1>2. SemaTypeOK /\ InterruptsRestored /\ SavedLevel
    BY DEF SemaInv
  <1>3. pc[current] = l /\ ~ticking
    BY DEF UpScheduleThen, At
  <1>4. level[current] \in BOOLEAN /\ intr[current] \in BOOLEAN
    BY <1>1, <1>2 DEF SemaTypeOK
  <1>5. old[current] = level[current]
    BY <1>1, <1>2, <1>3 DEF SavedLevel
  <1>6. intr[current] <=> level[current]
    BY <1>1, <1>2, <1>3 DEF InterruptsRestored
  <1>7. intr' = intr
    <2>1. intr' = [intr EXCEPT ![current] = intr[current]]
      BY <1>4, <1>5, <1>6 DEF UpScheduleThen
    <2> QED
      BY <1>1, <2>1
  <1> QED
    BY <1>7 DEF UpScheduleThen, ScheduleThen, trapVars

(* The labels of Threads.                                                  *)
OwnLabels ==
    {"run", "spawn_all", "spawn_sched", "exit_sched", "exited", "setprio_sched", "setprio_done",
     "sleep_mark", "sleep_sched"}

(* Without sleepers the steps of Threads wake nobody, fail no assertion,   *)
(* move no thread into, out of or inside the calls of other modules, and   *)
(* block none there.                                                       *)
LEMMA ThreadStepsSpareCallers ==
    ASSUME ThreadInv, ~selfWoken, sleepq = {}, ThreadNext \/ UNCHANGED threadVars, ~SleepPush
    PROVE  /\ ~selfWoken' /\ sleepq' = {} /\ panic' \in {panic, "none"}
           /\ \A t \in Thread : \/ pc'[t] = pc[t] /\ arg'[t] = arg[t]
                                \/ {pc[t], pc'[t]} \subseteq OwnLabels
           /\ \A t \in Thread : status'[t] = "Blocked" =>
                                status[t] = "Blocked" \/ pc[t] = "sleep_mark"
  <1>1. ThreadInv /\ ~selfWoken /\ sleepq = {}
    OBVIOUS
  <1>2. /\ current \in Thread /\ pc \in [Thread -> Label]
        /\ arg = [t \in Thread |-> arg[t]] /\ Schedulable(status)
        /\ status \in [Thread -> Status]
    BY <1>1, StepTypes
  <1>3. CASE UNCHANGED threadVars \/ TimerInterrupt \/ TickDone \/ Halted
    BY <1>1, <1>3 DEF threadVars, managerVars, localVars, timerVars, TimerInterrupt, TickDone,
                      Halted
  <1>4. CASE Yield \/ TrapSchedule
    <2>1. UNCHANGED <<pc, arg, sleepq, selfWoken>> /\ schedule(status)
      BY <1>4 DEF Yield, TrapSchedule, localVars, timerVars
    <2> QED
      BY <1>1, <1>2, <2>1, ScheduleKeeps
  <1>5. CASE SpawnSchedule \/ ExitSchedule \/ SetPrioritySchedule \/ SleepSchedule
    <2>1. /\ {pc[current], pc'[current]} \subseteq OwnLabels
          /\ \A t \in Thread : t # current => pc'[t] = pc[t]
          /\ UNCHANGED <<arg, sleepq, selfWoken>>
      BY <1>2, <1>5 DEF SpawnSchedule, ExitSchedule, SetPrioritySchedule, SleepSchedule,
                        ScheduleThen, At, Goto, timerVars, OwnLabels
    <2>2. schedule(status)
      BY <1>5 DEF SpawnSchedule, ExitSchedule, SetPrioritySchedule, SleepSchedule, ScheduleThen
    <2>3. /\ panic' = "none"
          /\ \A t \in Thread : status'[t] = "Blocked" <=> status[t] = "Blocked"
      BY <1>2, <2>2, ScheduleKeeps
    <2> QED
      BY <1>1, <2>1, <2>3
  <1>6. CASE SpawnRegister \/ ExitMark \/ SetPriorityStore \/ SetPriorityDone \/ SleepMark \/ SpawnAll
    <2>1. /\ {pc[current], pc'[current]} \subseteq OwnLabels
          /\ \A t \in Thread : t # current => pc'[t] = pc[t]
      BY <1>2, <1>6 DEF SpawnRegister, ExitMark, SetPriorityStore, SetPriorityDone, SleepMark,
                        SpawnAll, Calls, At, Goto, OwnLabels
    <2>2. \A t \in Thread : t # current => arg'[t] = arg[t]
      BY <1>2, <1>6 DEF SpawnRegister, ExitMark, SetPriorityStore, SetPriorityDone, SleepMark,
                        SpawnAll
    <2>3. UNCHANGED <<sleepq, selfWoken, panic>>
      BY <1>6 DEF SpawnRegister, ExitMark, SetPriorityStore, SetPriorityDone, SleepMark,
                  SpawnAll, managerVars, timerVars
    <2>4. \A t \in Thread : status'[t] = "Blocked" =>
                             status[t] = "Blocked" \/ pc[t] = "sleep_mark"
      BY <1>2, <1>6 DEF SpawnRegister, ExitMark, SetPriorityStore, SetPriorityDone, SleepMark,
                        SpawnAll, At, managerVars
    <2> QED
      BY <1>1, <2>1, <2>2, <2>3, <2>4
  <1>7. ~TickWake
    BY <1>1 DEF TickWake, Peek
  <1> QED
    BY <1>3, <1>4, <1>5, <1>6, <1>7 DEF ThreadNext, CallStep, KernelStep, TrapStep

-----------------------------------------------------------------------------
(* Initially no thread waits, and all have interrupts on.                  *)
LEMMA SemaInitEstablishes == Init => ThreadInv /\ SleepInv /\ SemaInv
  <1> SUFFICES ASSUME Init PROVE ThreadInv /\ SleepInv /\ SemaInv
    OBVIOUS
  <1>1. ThreadInv
    BY InitEstablishes DEF Init
  <1>2. SleepInv
    BY ThreadAssumption DEF Init, ThreadInit, SleepInv
  <1>3. /\ value = InitValue /\ waiters = [s \in Sema |-> <<>>]
        /\ pc = [t \in Thread |-> "run"] /\ intr = [t \in Thread |-> TRUE]
        /\ ticking = FALSE
        /\ old = [t \in Thread |-> TRUE] /\ level = [t \in Thread |-> TRUE]
    BY DEF Init, ThreadInit
  <1>4. SemaTypeOK
    BY <1>3, SemaAssumption DEF SemaTypeOK
  <1>5. WaitersBlocked
    <2>1. \A s \in Sema : DOMAIN waiters[s] = {}
      BY <1>3, EmptySeq
    <2> QED
      BY <1>3, <2>1 DEF WaitersBlocked, IsInjective, ToSet
  <1>6. NoLostWakeup
    BY <1>3 DEF NoLostWakeup
  <1>7. InterruptsRestored
    BY <1>3 DEF InterruptsRestored
  <1>8. SavedLevel /\ TickTaken
    BY <1>3 DEF SavedLevel, TickTaken
  <1> QED
    BY <1>1, <1>2, <1>4, <1>5, <1>6, <1>7, <1>8 DEF SemaInv

(* A thread that turns its interrupts off or on has nothing saved.         *)
LEMMA MaskKeeps ==
    ASSUME ThreadInv, SleepInv, SemaInv, ~selfWoken, Mask \/ Unmask
    PROVE  ThreadInv' /\ SleepInv' /\ SemaInv'
  <1>1. current \in Thread /\ intr \in [Thread -> BOOLEAN]
    BY StepTypes
  <1>2. PICK b \in BOOLEAN : /\ intr' = [intr EXCEPT ![current] = b]
                             /\ level' = [level EXCEPT ![current] = b]
    BY DEF Mask, Unmask
  <1>3. /\ pc[current] = "run" /\ ~ticking
        /\ UNCHANGED <<current, status, rq, all, panic, prio, priority_setted, pc, arg, ticks,
                      sleepq, ticking, selfWoken, resched, value, waiters, old>>
    BY DEF Mask, Unmask, Calls, At, managerVars, prioVars, localVars, timerVars
  <1>4. SemaTypeOK /\ WaitersBlocked /\ NoLostWakeup /\ InterruptsRestored /\ SavedLevel
    BY DEF SemaInv
  <1>5. intr' \in [Thread -> BOOLEAN] /\ level' \in [Thread -> BOOLEAN]
    BY <1>1, <1>2, <1>4 DEF SemaTypeOK
  <1>6. \A t \in Thread : /\ intr'[t] = IF t = current THEN b ELSE intr[t]
                          /\ level'[t] = IF t = current THEN b ELSE level[t]
    BY <1>1, <1>2, <1>4 DEF SemaTypeOK
  <1>7. ThreadInv'
    <2>1. ThreadTypeOK' /\ ArgOK' /\ IdleRuns'
      BY <1>3, <1>5 DEF ThreadInv, ThreadTypeOK, ArgOK, IdleRuns
    <2> QED
      BY <1>3, <2>1, LocalStepKeeps
  <1>8. SleepInv'
    BY <1>3 DEF SleepInv, Asleep
  <1>9. SemaTypeOK' /\ WaitersBlocked' /\ NoLostWakeup'
    BY <1>3, <1>4, <1>5 DEF SemaTypeOK, WaitersBlocked, NoLostWakeup, OnItsWay
  <1>10. InterruptsRestored' /\ TickTaken'
    BY <1>3, <1>4, <1>6 DEF InterruptsRestored, TickTaken
  <1>11. SavedLevel'
    BY <1>3, <1>4, <1>6 DEF SavedLevel, Saving
  <1> QED
    BY <1>7, <1>8, <1>9, <1>10, <1>11 DEF SemaInv

(* Every step of the semaphores and of the threads keeps the invariants.   *)
LEMMA SemaNextKeeps ==
    ASSUME ThreadInv, SleepInv, SemaInv, [Next]_vars
    PROVE  ThreadInv' /\ SleepInv' /\ SemaInv'
  <1> SUFFICES ASSUME ~selfWoken' PROVE ThreadInv' /\ SleepInv' /\ SemaInv'
    BY DEF ThreadInv, SleepInv, SemaInv
  <1>1. CASE (ThreadNext /\ UNCHANGED semaVars) \/ UNCHANGED vars
    <2>1. [ThreadNext]_threadVars /\ UNCHANGED semaVars
      BY <1>1 DEF vars
    <2> QED
      BY <2>1, ThreadNextKeeps, SleepersKept, ThreadStepsKeepSema
  <1>2. CASE SemaStep
    <2>1. ~selfWoken
      BY <1>2 DEF SemaStep, DownFree, DownWait, Up, DownRetryTake, DownRetryBlock, UpSchedule,
                  UpScheduleThen, Mask, Unmask, timerVars
    <2>2. /\ current \in Thread /\ pc \in [Thread -> Label]
          /\ arg = [t \in Thread |-> arg[t]]
      BY <2>1, StepTypes
    <2>3. "run" \in Plain /\ "up_sched" \in Plain /\ "run" \notin Saving
      BY DEF Plain, Label, Saving
    <2>4. /\ At("down_loop") => current # Idle /\ arg[current] \in Sema
      BY <2>1, <2>2 DEF At, ThreadInv, IdleRuns, SemaInv, SemaTypeOK
    <2>5. /\ \A s \in Sema : Calls => Caller(s) /\ pc[current] = "run"
          /\ At("down_loop") => Caller(arg[current]) /\ pc[current] = "down_loop"
      BY <2>1, <2>4 DEF Calls, At, Caller
    <2>6. CASE \E s \in Sema : DownFree(s)
      <3>1. PICK s \in Sema : DownFree(s)
        BY <2>6
      <3>2. Goto("run") /\ arg' = [arg EXCEPT ![current] = arg[current]]
        BY <2>2, <2>5, <3>1 DEF DownFree, localVars, Goto
      <3> QED
        BY <2>3, <2>5, <3>1, <3>2, TakeKeeps DEF DownFree
    <2>7. CASE \E s \in Sema : DownWait(s)
      BY <2>5, <2>7, BlockKeeps DEF DownWait
    <2>8. CASE \E s \in Sema : Up(s)
      <3>1. PICK s \in Sema : Up(s)
        BY <2>8
      <3>2. PICK k \in {"run", "up_sched"} : Goto(k)
        BY <3>1 DEF Up
      <3>3. arg' = [arg EXCEPT ![current] = arg[current]]
        BY <2>2, <3>1 DEF Up
      <3> QED
        BY <2>3, <2>5, <3>1, <3>2, <3>3, UpKeeps DEF Up
    <2>9. CASE DownRetryTake
      BY <2>3, <2>4, <2>5, <2>9, TakeKeeps DEF DownRetryTake
    <2>10. CASE DownRetryBlock
      <3>1. Goto("down_loop") /\ arg' = [arg EXCEPT ![current] = arg[current]]
        BY <2>2, <2>5, <2>10 DEF DownRetryBlock, localVars, Goto
      <3> QED
        BY <2>4, <2>5, <2>10, <3>1, BlockKeeps DEF DownRetryBlock
    <2>11. CASE UpSchedule
      <3>1. ScheduleThen("up_sched", "run") /\ UNCHANGED semaVars
        BY <2>1, <2>11, UpScheduleRestores DEF UpSchedule, Saving
      <3> QED
        BY <2>1, <2>3, <3>1, ScheduleThenKeepsAll
    <2>12. CASE Mask \/ Unmask
      BY <2>1, <2>12, MaskKeeps
    <2> QED
      BY <1>2, <2>6, <2>7, <2>8, <2>9, <2>10, <2>11, <2>12 DEF SemaStep
  <1> QED
    BY <1>1, <1>2 DEF Next

(* Semaphores, threads, sleepers and timer trap together: every reachable  *)
(* state satisfies the inductive invariant.                                *)
THEOREM SemaInvariant == Spec => [](ThreadInv /\ SleepInv /\ SemaInv)
  <1>1. ThreadInv /\ SleepInv /\ SemaInv /\ [Next]_vars => (ThreadInv /\ SleepInv /\ SemaInv)'
    BY SemaNextKeeps
  <1> QED
    BY <1>1, SemaInitEstablishes, PTL DEF Spec

(* down() and up(): as long as no tick has woken the thread it interrupted, *)
(* threads wait only at a semaphore without units, or whose one unit       *)
(* has a woken thread coming for it.                                       *)
THEOREM WakeupsNotLost == Spec => [](~selfWoken => NoLostWakeup)
  <1>1. SemaInv => (~selfWoken => NoLostWakeup)
    BY DEF SemaInv
  <1> QED
    BY <1>1, SemaInvariant, PTL

(* down(), up() and wake_up(): under the same condition exactly the        *)
(* threads on a list are Blocked in down()'s loop, each on one list and    *)
(* once, so that up() never passes wake_up a thread that it would reject.  *)
THEOREM WaitersAreBlocked == Spec => [](~selfWoken => WaitersBlocked)
  <1>1. SemaInv => (~selfWoken => WaitersBlocked)
    BY DEF SemaInv
  <1> QED
    BY <1>1, SemaInvariant, PTL

(* down(), up() and the trap handler: under the same condition a thread    *)
(* outside down()'s loop and tick() runs with the interrupts that its own  *)
(* code has chosen: each saved bit is restored on every path, however      *)
(* often the thread is woken in vain and whoever ran in between.           *)
THEOREM InterruptsComeBack == Spec => [](~selfWoken => InterruptsRestored)
  <1>1. SemaInv => (~selfWoken => InterruptsRestored)
    BY DEF SemaInv
  <1> QED
    BY <1>1, SemaInvariant, PTL
=============================================================================
