-------------------------- MODULE ClausesBuffer_proofs --------------------------
(***************************************************************************)
(* The ring keeps its clauses whole and counts their readers rightly, and  *)
(* it is the blackboard of SharedClauses, for any number of threads, any   *)
(* size of the ring and clauses of any sizes.  The work is in Places: what *)
(* walking from clause to clause by their sizes reaches, before and after  *)
(* the oldest clauses go and a new one comes (Moves).                      *)
(***************************************************************************)
EXTENDS ClausesBuffer, RecursionTheorems, FunctionTheorems, FiniteSetTheorems,
        SequenceTheorems, TLAPS

LEMMA MaxsizePositive == maxsize \in Nat \ {0}
<1>1. NbThreads \in Nat \ {0} /\ FifoSizeByCore \in Nat \ {0}
  BY ThreadsAssumption, FifoAssumption
<1>2. \A a, b \in Nat \ {0} : a * b \in Nat \ {0}
  OBVIOUS
<1> QED BY <1>1, <1>2 DEF maxsize

\* Going round the ring.
LEMMA Around ==
  ASSUME NEW l \in Cells
  PROVE  /\ \A x \in 0 .. maxsize : addIndex(l, x) \in Cells
         /\ \A x \in 0 .. maxsize - 1 : nextIndex(addIndex(l, x)) = addIndex(l, x + 1)
         /\ \A x, y \in 0 .. maxsize : x + y <= maxsize =>
              addIndex(addIndex(l, x), y) = addIndex(l, x + y)
         /\ \A x, y \in 0 .. maxsize - 1 : addIndex(l, x) = addIndex(l, y) => x = y
         /\ \A x \in 0 .. maxsize - 1 : Distance(l, addIndex(l, x)) = x
         /\ \A i \in Cells : Distance(l, i) \in 0 .. maxsize - 1 /\ addIndex(l, Distance(l, i)) = i
         /\ addIndex(l, 0) = l
<1>1. maxsize \in Nat \ {0} /\ l \in 0 .. maxsize - 1
  BY MaxsizePositive DEF Cells
<1> QED BY <1>1 DEF Cells, addIndex, nextIndex, Distance

-----------------------------------------------------------------------------
\* Where the clause behind place x ends.
Beyond(e, l, x) == x + Size(e, addIndex(l, x)) + headerSize

Sized(e, l, q) == \A x \in 0 .. q - 1 : Size(e, addIndex(l, x)) \in Nat

\* What is reached from place x is x, what lies behind it, and no more.
Chain(D, x, e, l, q) ==
  /\ D \subseteq x .. q
  /\ x \in D
  /\ \A y \in D : y < q /\ Beyond(e, l, y) <= q => Beyond(e, l, y) \in D
  /\ \A z \in D \ {x} : \E y \in D : y < z /\ z = Beyond(e, l, y)

LEMMA BeyondIsBehind ==
  ASSUME NEW e, NEW l, NEW q \in Nat, Sized(e, l, q), NEW x \in 0 .. q - 1
  PROVE  Beyond(e, l, x) \in Nat /\ x + headerSize <= Beyond(e, l, x)
  BY DEF Sized, Beyond, headerSize

\* There is such a function as Begins speaks of.
Reaches(f, e, l, q) ==
  f = [x \in 0 .. q |->
        LET y == x + Size(e, addIndex(l, x)) + headerSize
        IN {x} \cup (IF x < q /\ y <= q THEN f[y] ELSE {})]

LEMMA ReachesExists ==
  ASSUME NEW e, NEW l, NEW q \in Nat, Sized(e, l, q)
  PROVE  \E f : Reaches(f, e, l, q) /\ f \in [0 .. q -> SUBSET (0 .. q)]
<1> DEFINE n == q + 1
           S == SUBSET (0 .. q)
           next(k) == Beyond(e, l, k - 1) + 1
           step == [k \in 1 .. n |-> [f \in [1 .. n -> S] |->
                      {k - 1} \cup (IF k < n /\ next(k) <= n THEN f[next(k)] ELSE {})]]
<1>0. n \in Nat /\ {} \in S
  OBVIOUS
<1>1. \A k \in 1 .. n : k < n => next(k) \in Nat /\ k < next(k)
  <2> SUFFICES ASSUME NEW k \in 1 .. n, k < n PROVE next(k) \in Nat /\ k < next(k)
    OBVIOUS
  <2>1. k - 1 \in 0 .. q - 1
    OBVIOUS
  <2> QED BY <2>1, BeyondIsBehind DEF headerSize
<1> HIDE DEF next
<1>2. LooksAhead(n, S, step)
  <2>1. ASSUME NEW k \in 1 .. n, NEW f \in [1 .. n -> S]
        PROVE  {k - 1} \cup (IF k < n /\ next(k) <= n THEN f[next(k)] ELSE {}) \in S
    <3>1. CASE k < n /\ next(k) <= n
      <4>1. next(k) \in 1 .. n
        BY <1>1, <3>1
      <4> QED BY <3>1, <4>1
    <3>2. CASE ~(k < n /\ next(k) <= n)
      BY <3>2
    <3> QED BY <3>1, <3>2
  <2>2. step \in [1 .. n -> [[1 .. n -> S] -> S]]
    BY <2>1
  <2>3. ASSUME NEW k \in 1 .. n, NEW f \in [1 .. n -> S], NEW g \in [1 .. n -> S],
               \A m \in k + 1 .. n : f[m] = g[m]
        PROVE  step[k][f] = step[k][g]
    <3>1. CASE k < n /\ next(k) <= n
      <4>1. next(k) \in k + 1 .. n
        BY <1>1, <3>1
      <4>2. f[next(k)] = g[next(k)]
        BY <2>3, <4>1
      <4> QED BY <4>2
    <3>2. CASE ~(k < n /\ next(k) <= n)
      BY <3>2
    <3> QED BY <3>1, <3>2
  <2> HIDE DEF step, S, n
  <2> QED BY <2>2, <2>3 DEF LooksAhead
<1>3. PICK g \in [1 .. n -> S] : \A k \in 1 .. n : g[k] = step[k][g]
  <2> HIDE DEF step, S, n
  <2> QED BY <1>0, <1>2, LaterRecursion
<1> DEFINE f == [x \in 0 .. q |-> g[x + 1]]
<1>4. f \in [0 .. q -> S]
  OBVIOUS
<1>5. ASSUME NEW x \in 0 .. q
      PROVE  f[x] = LET y == x + Size(e, addIndex(l, x)) + headerSize
                    IN {x} \cup (IF x < q /\ y <= q THEN f[y] ELSE {})
  <2>1. x + 1 \in 1 .. n /\ (x + 1) - 1 = x
    OBVIOUS
  <2>2. f[x] = {x} \cup (IF x + 1 < n /\ next(x + 1) <= n THEN g[next(x + 1)] ELSE {})
    BY <1>3, <2>1
  <2>3. next(x + 1) = Beyond(e, l, x) + 1
    BY <2>1 DEF next
  <2>4. CASE x < q /\ Beyond(e, l, x) <= q
    <3>1. Beyond(e, l, x) \in 0 .. q
      BY <2>4, BeyondIsBehind
    <3>2. f[Beyond(e, l, x)] = g[next(x + 1)]
      BY <2>3, <3>1
    <3>3. x + 1 < n /\ next(x + 1) <= n
      BY <2>3, <2>4, <3>1
    <3> QED BY <2>2, <2>4, <3>2, <3>3 DEF Beyond
  <2>5. CASE ~(x < q /\ Beyond(e, l, x) <= q)
    <3>1. ~(x + 1 < n /\ next(x + 1) <= n)
      <4>1. CASE x < q
        <5>1. Beyond(e, l, x) \in Nat
          BY <4>1, BeyondIsBehind
        <5> QED BY <5>1, <2>3, <2>5, <4>1
      <4>2. CASE ~(x < q)
        BY <4>2
      <4> QED BY <4>1, <4>2
    <3> QED BY <2>2, <2>5, <3>1 DEF Beyond
  <2> QED BY <2>4, <2>5
<1>6. Reaches(f, e, l, q)
  <2> HIDE DEF f
  <2>1. f = [x \in 0 .. q |-> f[x]]
    BY <1>4
  <2> QED BY <1>5, <2>1 DEF Reaches
<1> QED BY <1>4, <1>6

LEMMA ChainLonger ==
  ASSUME NEW e, NEW l, NEW q \in Nat, Sized(e, l, q), NEW x \in 0 .. q - 1, NEW D,
         Beyond(e, l, x) <= q, Chain(D, Beyond(e, l, x), e, l, q)
  PROVE  Chain({x} \cup D, x, e, l, q)
<1> DEFINE y == Beyond(e, l, x)
           E == {x} \cup D
<1>1. y \in Nat /\ x < y /\ y <= q
  BY BeyondIsBehind DEF headerSize
<1>2. /\ D \subseteq y .. q /\ y \in D
      /\ \A w \in D : w < q /\ Beyond(e, l, w) <= q => Beyond(e, l, w) \in D
      /\ \A z \in D \ {y} : \E w \in D : w < z /\ z = Beyond(e, l, w)
  BY DEF Chain
<1>3. E \subseteq x .. q
  BY <1>1, <1>2
<1>4. \A w \in E : w < q /\ Beyond(e, l, w) <= q => Beyond(e, l, w) \in E
  BY <1>2
<1>5. \A z \in E \ {x} : \E w \in E : w < z /\ z = Beyond(e, l, w)
  BY <1>1, <1>2
<1> QED BY <1>3, <1>4, <1>5 DEF Chain

LEMMA ReachesChain ==
  ASSUME NEW e, NEW l, NEW q \in Nat, Sized(e, l, q), NEW f, Reaches(f, e, l, q)
  PROVE  \A x \in 0 .. q : Chain(f[x], x, e, l, q)
<1> DEFINE P == {i \in 0 .. q : \A x \in i .. q : Chain(f[x], x, e, l, q)}
<1>0. \A x \in 0 .. q :
        f[x] = {x} \cup (IF x < q /\ Beyond(e, l, x) <= q THEN f[Beyond(e, l, x)] ELSE {})
  BY DEF Reaches, Beyond
<1>1. q \in P
  <2>1. f[q] = {q}
    BY <1>0
  <2>2. Chain(f[q], q, e, l, q)
    BY <2>1 DEF Chain
  <2> QED BY <2>2
<1>2. ASSUME NEW i \in 0 .. q - 1, i + 1 \in P PROVE i \in P
  <2>1. \A x \in i + 1 .. q : Chain(f[x], x, e, l, q)
    BY <1>2
  <2>2. Beyond(e, l, i) \in Nat /\ i < Beyond(e, l, i)
    BY BeyondIsBehind DEF headerSize
  <2>3. Chain(f[i], i, e, l, q)
    <3>1. CASE Beyond(e, l, i) <= q
      <4>1. f[i] = {i} \cup f[Beyond(e, l, i)]
        BY <1>0, <3>1
      <4>2. Chain(f[Beyond(e, l, i)], Beyond(e, l, i), e, l, q)
        BY <2>1, <2>2, <3>1
      <4> QED BY <3>1, <4>1, <4>2, ChainLonger
    <3>2. CASE ~(Beyond(e, l, i) <= q)
      <4>1. f[i] = {i}
        BY <1>0, <3>2
      <4> QED BY <3>2, <4>1 DEF Chain
    <3> QED BY <3>1, <3>2
  <2>4. \A x \in i .. q : x = i \/ x \in i + 1 .. q
    OBVIOUS
  <2> QED BY <2>1, <2>3, <2>4
<1>3. \A i \in 0 .. q : i \in P
  <2> HIDE DEF P
  <2> QED BY <1>1, <1>2, DownInduction
<1> QED BY <1>3

LEMMA BeginsChain ==
  ASSUME NEW e, NEW l, NEW q \in Nat, Sized(e, l, q)
  PROVE  Chain(Begins(e, l, q), 0, e, l, q)
<1> DEFINE f == CHOOSE g : Reaches(g, e, l, q)
<1>1. Reaches(f, e, l, q)
  BY ReachesExists
<1>2. Begins(e, l, q) = f[0]
  BY DEF Begins, Reaches
<1> HIDE DEF f
<1> QED BY <1>1, <1>2, ReachesChain

\* Only one set is what is reached.
LEMMA ChainUnique ==
  ASSUME NEW e, NEW l, NEW q \in Nat,
         NEW D, Chain(D, 0, e, l, q), NEW E, Chain(E, 0, e, l, q)
  PROVE  D = E
<1> DEFINE P == {i \in 0 .. q : \A z \in 0 .. i : z \in D <=> z \in E}
<1>0. /\ D \subseteq 0 .. q /\ 0 \in D
      /\ \A w \in D : w < q /\ Beyond(e, l, w) <= q => Beyond(e, l, w) \in D
      /\ \A z \in D \ {0} : \E w \in D : w < z /\ z = Beyond(e, l, w)
      /\ E \subseteq 0 .. q /\ 0 \in E
      /\ \A w \in E : w < q /\ Beyond(e, l, w) <= q => Beyond(e, l, w) \in E
      /\ \A z \in E \ {0} : \E w \in E : w < z /\ z = Beyond(e, l, w)
  BY DEF Chain
<1>1. 0 \in P
  BY <1>0
<1>2. ASSUME NEW i \in 0 .. q - 1, i \in P PROVE i + 1 \in P
  <2>0. \A z \in 0 .. i : z \in D <=> z \in E
    BY <1>2
  <2>1. ASSUME i + 1 \in D PROVE i + 1 \in E
    <3>1. PICK w \in D : w < i + 1 /\ i + 1 = Beyond(e, l, w)
      BY <1>0, <2>1
    <3>2. w \in 0 .. i /\ w < q
      BY <1>0, <3>1
    <3> QED BY <1>0, <2>0, <3>1, <3>2
  <2>2. ASSUME i + 1 \in E PROVE i + 1 \in D
    <3>1. PICK w \in E : w < i + 1 /\ i + 1 = Beyond(e, l, w)
      BY <1>0, <2>2
    <3>2. w \in 0 .. i /\ w < q
      BY <1>0, <3>1
    <3> QED BY <1>0, <2>0, <3>1, <3>2
  <2>3. \A z \in 0 .. i + 1 : z \in 0 .. i \/ z = i + 1
    OBVIOUS
  <2> QED BY <2>0, <2>1, <2>2, <2>3
<1>3. \A i \in 0 .. q : i \in P
  <2> HIDE DEF P
  <2> QED BY <1>1, <1>2, UpInduction
<1>4. \A i \in 0 .. q : i \in D <=> i \in E
  BY <1>3
<1> QED BY <1>0, <1>4

\* Nothing begins within a clause.
LEMMA Apart ==
  ASSUME NEW D, NEW e, NEW l, NEW q \in Nat, Sized(e, l, q), Chain(D, 0, e, l, q)
  PROVE  \A z \in D, x \in D : x < z => Beyond(e, l, x) <= z
<1> DEFINE P == {i \in 0 .. q : \A z \in D, x \in D : z <= i /\ x < z => Beyond(e, l, x) <= z}
<1>0. /\ D \subseteq 0 .. q
      /\ \A z \in D \ {0} : \E y \in D : y < z /\ z = Beyond(e, l, y)
  BY DEF Chain
<1>1. 0 \in P
  BY <1>0
<1>2. ASSUME NEW i \in 0 .. q - 1, i \in P PROVE i + 1 \in P
  <2>0. \A z \in D, x \in D : z <= i /\ x < z => Beyond(e, l, x) <= z
    BY <1>2
  <2>1. ASSUME NEW z \in D, NEW x \in D, z <= i + 1, x < z PROVE Beyond(e, l, x) <= z
    <3>1. PICK y \in D : y < z /\ z = Beyond(e, l, y)
      BY <1>0, <2>1
    <3>2. z \in 0 .. q /\ x \in 0 .. q - 1 /\ y \in 0 .. q - 1
      BY <1>0, <2>1, <3>1
    <3>3. CASE x = y
      BY <3>1, <3>2, <3>3
    <3>4. CASE x < y
      <4>1. Beyond(e, l, x) <= y
        BY <2>0, <2>1, <3>1, <3>2, <3>4
      <4>2. Beyond(e, l, x) \in Nat
        BY <3>2, BeyondIsBehind
      <4> QED BY <3>1, <3>2, <4>1, <4>2
    <3>5. CASE y < x
      <4>1. Beyond(e, l, y) <= x
        BY <2>0, <2>1, <3>1, <3>2, <3>5
      <4> QED BY <2>1, <3>1, <3>2, <4>1
    <3> QED BY <3>2, <3>3, <3>4, <3>5
  <2> QED BY <2>1
<1>3. \A i \in 0 .. q : i \in P
  <2> HIDE DEF P
  <2> QED BY <1>1, <1>2, UpInduction
<1> QED BY <1>0, <1>3

-----------------------------------------------------------------------------
\* The x-th word behind cell l.
Word(e, l, x) == e[addIndex(l, x)]

LEMMA Header ==
  ASSUME NEW e, NEW l \in Cells, NEW y \in Nat
  PROVE  /\ y < maxsize => Size(e, addIndex(l, y)) = Word(e, l, y + 1)
         /\ y + headerSize <= maxsize => /\ NbSeen(e, addIndex(l, y)) = Word(e, l, y + 2)
                                         /\ Origin(e, addIndex(l, y)) = Word(e, l, y + 3)
<1>1. maxsize \in Nat \ {0}
  BY MaxsizePositive
<1>2. y < maxsize => nextIndex(addIndex(l, y)) = addIndex(l, y + 1)
  BY <1>1, Around
<1>3. ASSUME y + headerSize <= maxsize
      PROVE  addIndex(addIndex(l, y), 2) = addIndex(l, y + 2)
             /\ addIndex(addIndex(l, y), 3) = addIndex(l, y + 3)
  <2>1. /\ y \in 0 .. maxsize /\ 2 \in 0 .. maxsize /\ 3 \in 0 .. maxsize
        /\ y + 2 <= maxsize /\ y + 3 <= maxsize
    BY <1>1, <1>3 DEF headerSize
  <2> QED BY <2>1, Around
<1> QED BY <1>2, <1>3 DEF Size, NbSeen, Origin, Word

\* The ring is made of whole clauses.
LaidOut(e, l, q) ==
  /\ Sized(e, l, q)
  /\ q \in Begins(e, l, q)
  /\ \A x \in Begins(e, l, q) : x < q => /\ Size(e, addIndex(l, x)) \in Sizes
                                         /\ Origin(e, addIndex(l, x)) \in Threads

LEMMA LaidOutPlaces ==
  ASSUME NEW e, NEW l, NEW q \in Nat, LaidOut(e, l, q)
  PROVE  /\ Begins(e, l, q) \subseteq 0 .. q
         /\ 0 \in Begins(e, l, q)
         /\ \A x \in Begins(e, l, q) : x < q =>
              /\ Beyond(e, l, x) \in Begins(e, l, q)
              /\ x + headerSize <= Beyond(e, l, x) /\ Beyond(e, l, x) <= q
         /\ \A x, z \in Begins(e, l, q) : x < z => Beyond(e, l, x) <= z
         /\ \A z \in Begins(e, l, q) \ {0} :
              \E y \in Begins(e, l, q) : y < z /\ z = Beyond(e, l, y)
<1> DEFINE D == Begins(e, l, q)
<1>1. Sized(e, l, q) /\ q \in D
  BY DEF LaidOut
<1>2. Chain(D, 0, e, l, q)
  BY <1>1, BeginsChain
<1>3. \A x, z \in D : x < z => Beyond(e, l, x) <= z
  BY <1>1, <1>2, Apart
<1> HIDE DEF D
<1>4. /\ D \subseteq 0 .. q /\ 0 \in D
      /\ \A w \in D : w < q /\ Beyond(e, l, w) <= q => Beyond(e, l, w) \in D
      /\ \A z \in D \ {0} : \E y \in D : y < z /\ z = Beyond(e, l, y)
  BY <1>2 DEF Chain
<1>5. ASSUME NEW x \in D, x < q
      PROVE  x + headerSize <= Beyond(e, l, x) /\ Beyond(e, l, x) <= q
  <2>1. x \in 0 .. q - 1
    BY <1>4, <1>5
  <2> QED BY <1>1, <1>3, <1>5, <2>1, BeyondIsBehind
<1> QED BY <1>3, <1>4, <1>5 DEF D

\* The clauses from place x on are still there.
Still(e, l, q, x, e2, m) ==
  \A y \in Begins(e, l, q) : x <= y /\ y < q =>
    /\ Word(e2, m, y - x + 1) = Word(e, l, y + 1)
    /\ Word(e2, m, y - x + 3) = Word(e, l, y + 3)

\* A clause is put behind n words.
Comes(e2, m, n, r) ==
  \E s \in Sizes : /\ r = n + s + headerSize
                   /\ Word(e2, m, n + 1) = s
                   /\ Word(e2, m, n + 3) \in Threads

Numbers(e, l, q) == \A k \in 1 .. q : Word(e, l, k) \in Nat

\* The clauses before place x go, and one may come: the ring keeps the places from x
\* on.
LEMMA Moves ==
  ASSUME NEW e, NEW l \in Cells, NEW q \in 0 .. maxsize - 1, LaidOut(e, l, q),
         NEW x \in Begins(e, l, q), NEW m, m = addIndex(l, x), NEW e2,
         NEW r \in 0 .. maxsize - 1, r = q - x \/ Comes(e2, m, q - x, r),
         Still(e, l, q, x, e2, m), Numbers(e2, m, r)
  PROVE  /\ Begins(e2, m, r) = {z \in 0 .. q - x : z + x \in Begins(e, l, q)} \cup {r}
         /\ LaidOut(e2, m, r)
<1> DEFINE D == Begins(e, l, q)
           E == {z \in 0 .. q - x : z + x \in D} \cup {r}
<1>0. /\ D \subseteq 0 .. q /\ 0 \in D /\ q \in D
      /\ \A y \in D : y < q => /\ Beyond(e, l, y) \in D
                               /\ y + headerSize <= Beyond(e, l, y) /\ Beyond(e, l, y) <= q
      /\ \A y, z \in D : y < z => Beyond(e, l, y) <= z
      /\ \A z \in D \ {0} : \E y \in D : y < z /\ z = Beyond(e, l, y)
      /\ q \in Nat
  BY LaidOutPlaces DEF LaidOut
<1>1. maxsize \in Nat \ {0} /\ x \in 0 .. q
  BY <1>0, MaxsizePositive
<1>2. m \in Cells
  BY <1>1, Around
<1>3. Sized(e2, m, r)
  <2> SUFFICES ASSUME NEW k \in 0 .. r - 1 PROVE Size(e2, addIndex(m, k)) \in Nat
    BY DEF Sized
  <2>1. k \in Nat /\ k < maxsize /\ k + 1 \in 1 .. r
    BY <1>1
  <2>2. Size(e2, addIndex(m, k)) = Word(e2, m, k + 1)
    BY <2>1, <1>2, Header
  <2> QED BY <2>1, <2>2 DEF Numbers
<1>4. ASSUME NEW y \in D, x <= y, y < q
      PROVE  /\ Beyond(e2, m, y - x) = Beyond(e, l, y) - x
             /\ Size(e2, addIndex(m, y - x)) = Size(e, addIndex(l, y))
             /\ Origin(e2, addIndex(m, y - x)) = Origin(e, addIndex(l, y))
             /\ Beyond(e, l, y) \in D /\ y < Beyond(e, l, y)
  <2>1. /\ y \in Nat /\ y - x \in Nat /\ y + headerSize <= q
        /\ Beyond(e, l, y) \in D /\ y < Beyond(e, l, y)
    BY <1>0, <1>1, <1>4 DEF headerSize
  <2>2. Size(e2, addIndex(m, y - x)) = Word(e2, m, y - x + 1)
        /\ Origin(e2, addIndex(m, y - x)) = Word(e2, m, y - x + 3)
    BY <1>1, <1>2, <2>1, Header DEF headerSize
  <2>3. Size(e, addIndex(l, y)) = Word(e, l, y + 1)
        /\ Origin(e, addIndex(l, y)) = Word(e, l, y + 3)
    BY <1>1, <2>1, Header DEF headerSize
  <2>4. Size(e, addIndex(l, y)) \in Nat
    BY <1>0, <1>4 DEF LaidOut, Sized
  <2>5. Word(e2, m, y - x + 1) = Word(e, l, y + 1)
        /\ Word(e2, m, y - x + 3) = Word(e, l, y + 3)
    BY <1>4 DEF Still
  <2> QED BY <1>1, <1>4, <2>1, <2>2, <2>3, <2>4, <2>5 DEF Beyond, headerSize
<1>5. ASSUME r # q - x
      PROVE  /\ Beyond(e2, m, q - x) = r /\ q - x < r
             /\ Size(e2, addIndex(m, q - x)) \in Sizes
             /\ Origin(e2, addIndex(m, q - x)) \in Threads
  <2>1. PICK s \in Sizes : /\ r = q - x + s + headerSize
                           /\ Word(e2, m, q - x + 1) = s
                           /\ Word(e2, m, q - x + 3) \in Threads
    BY <1>5 DEF Comes
  <2>2. q - x \in Nat /\ s \in Nat
    BY <1>1, SizesAssumption
  <2>3. Size(e2, addIndex(m, q - x)) = s /\ Origin(e2, addIndex(m, q - x)) \in Threads
    BY <1>1, <1>2, <2>1, <2>2, Header DEF headerSize
  <2> QED BY <2>1, <2>2, <2>3 DEF Beyond, headerSize
<1>6. q - x \in E /\ 0 \in E /\ E \subseteq 0 .. r
  <2>1. q - x <= r
    BY <1>1, <1>5
  <2> QED BY <1>0, <1>1, <2>1
<1> HIDE DEF D
<1>7. \A w \in E : w < r /\ Beyond(e2, m, w) <= r => Beyond(e2, m, w) \in E
  <2> SUFFICES ASSUME NEW w \in E, w < r PROVE Beyond(e2, m, w) \in E
    OBVIOUS
  <2>1. w \in 0 .. q - x /\ w + x \in D
    OBVIOUS
  <2>2. CASE w = q - x
    BY <2>2, <1>5
  <2>3. CASE w # q - x
    <3>1. w + x < q /\ x <= w + x /\ (w + x) - x = w
      BY <2>1, <2>3, <1>1
    <3>2. Beyond(e2, m, w) = Beyond(e, l, w + x) - x /\ Beyond(e, l, w + x) \in D
          /\ w + x < Beyond(e, l, w + x)
      BY <1>4, <2>1, <3>1
    <3>3. Beyond(e, l, w + x) \in 0 .. q
      BY <1>0, <3>2
    <3> QED BY <1>1, <2>1, <3>2, <3>3
  <2> QED BY <2>2, <2>3
<1>8. \A z \in E \ {0} : \E w \in E : w < z /\ z = Beyond(e2, m, w)
  <2> SUFFICES ASSUME NEW z \in E \ {0} PROVE \E w \in E : w < z /\ z = Beyond(e2, m, w)
    OBVIOUS
  <2>1. CASE z \in 0 .. q - x /\ z + x \in D
    <3>1. PICK y \in D : y < z + x /\ z + x = Beyond(e, l, y)
      BY <1>0, <1>1, <2>1
    <3>2. x <= y
      <4>1. y < x => Beyond(e, l, y) <= x
        BY <1>0 DEF D
      <4>2. y \in 0 .. q
        BY <1>0
      <4> QED BY <1>1, <2>1, <3>1, <4>1, <4>2
    <3>3. y < q /\ y \in 0 .. q
      BY <1>0, <1>1, <2>1, <3>1
    <3>4. Beyond(e2, m, y - x) = Beyond(e, l, y) - x
      BY <1>4, <3>2, <3>3
    <3>5. y - x \in 0 .. q - x /\ (y - x) + x \in D /\ y - x < z
      BY <1>1, <2>1, <3>1, <3>2, <3>3
    <3> QED BY <1>1, <2>1, <3>1, <3>4, <3>5
  <2>2. CASE z = r /\ r # q - x
    BY <1>5, <1>6, <2>2
  <2> QED BY <2>1, <2>2, <1>0, <1>1
<1>9. Chain(E, 0, e2, m, r)
  BY <1>6, <1>7, <1>8 DEF Chain
<1>10. Begins(e2, m, r) = E
  <2> HIDE DEF E
  <2> QED BY <1>3, <1>9, BeginsChain, ChainUnique
<1>11. ASSUME NEW w \in E, w < r
       PROVE  Size(e2, addIndex(m, w)) \in Sizes /\ Origin(e2, addIndex(m, w)) \in Threads
  <2>1. w \in 0 .. q - x /\ w + x \in D
    BY <1>11
  <2>2. CASE w = q - x
    BY <2>2, <1>5, <1>11
  <2>3. CASE w # q - x
    <3>1. w + x < q /\ x <= w + x /\ (w + x) - x = w
      BY <2>1, <2>3, <1>1
    <3>2. Size(e2, addIndex(m, w)) = Size(e, addIndex(l, w + x))
          /\ Origin(e2, addIndex(m, w)) = Origin(e, addIndex(l, w + x))
      BY <1>4, <2>1, <3>1
    <3> QED BY <2>1, <3>1, <3>2 DEF LaidOut, D
  <2> QED BY <2>2, <2>3
<1> QED BY <1>3, <1>10, <1>11 DEF LaidOut, D

\* None goes.
LEMMA Stays ==
  ASSUME NEW e, NEW l \in Cells, NEW q \in 0 .. maxsize - 1, LaidOut(e, l, q), NEW e2,
         NEW r \in 0 .. maxsize - 1, r = q \/ Comes(e2, l, q, r),
         Still(e, l, q, 0, e2, l), Numbers(e2, l, r)
  PROVE  Begins(e2, l, r) = Begins(e, l, q) \cup {r} /\ LaidOut(e2, l, r)
<1> DEFINE D == Begins(e, l, q)
<1>1. q \in Nat /\ D \subseteq 0 .. q /\ q \in D /\ 0 \in D
  BY LaidOutPlaces DEF LaidOut
<1>2. \A w \in D : w \in 0 .. q
  BY <1>1
<1>3. PICK x \in D : x = 0
  BY <1>1
<1> HIDE DEF D
<1>4. l = addIndex(l, x) /\ q - x = q
  BY <1>1, <1>3, Around
<1>5. Still(e, l, q, x, e2, l) /\ (r = q - x \/ Comes(e2, l, q - x, r))
  BY <1>3, <1>4
<1>6. /\ Begins(e2, l, r) = {w \in 0 .. q - x : w + x \in D} \cup {r}
      /\ LaidOut(e2, l, r)
  BY <1>4, <1>5, Moves DEF D
<1>7. \A w : w \in D <=> (w \in 0 .. q - x /\ w + x \in D)
  <2>1. \A w : w \in 0 .. q => w + x = w
    BY <1>1, <1>3
  <2>2. 0 .. q - x = 0 .. q
    BY <1>4
  <2> QED BY <1>2, <2>1, <2>2
<1> QED BY <1>6, <1>7 DEF D

-----------------------------------------------------------------------------
LEMMA MinIs ==
  ASSUME NEW S, S \subseteq Nat, S # {}
  PROVE  Min(S) \in S /\ \A y \in S : Min(S) <= y
<1>1. \E m \in S : \A k \in S : m <= k
  BY LeastNumber
<1> QED BY <1>1 DEF Min

\* The threads that have still to read the clause at place x.
Readers(e, l, cur, x) ==
  {t \in Threads \ {Origin(e, addIndex(l, x))} : Distance(l, cur[t]) <= x}

\* The count that a clause comes with is never decreased where there is no other
\* thread.
Counted(e, l, q, cur) ==
  \A x \in Begins(e, l, q) : x < q =>
    NbSeen(e, addIndex(l, x))
      = IF NbThreads > 1 THEN Cardinality(Readers(e, l, cur, x)) ELSE 1

Standing(e, l, q, cur) ==
  /\ cur \in [Threads -> Cells]
  /\ \A t \in Threads : Distance(l, cur[t]) \in Begins(e, l, q)

Whole(e, l, q, cur) ==
  /\ l \in Cells /\ q \in 0 .. maxsize - 1
  /\ DOMAIN e = {addIndex(l, k) : k \in 1 .. q}
  /\ \A k \in 1 .. q : Word(e, l, k) \in 0 .. Literal
  /\ LaidOut(e, l, q)
  /\ Standing(e, l, q, cur)
  /\ Counted(e, l, q, cur)

RingInv ==
  /\ TypeOK
  /\ Whole(elems, last, queuesize, lastOfThread)
  /\ first = nextIndex(addIndex(last, queuesize))
  /\ OldestWanted

LEMMA WholeIs ==
  ASSUME NEW e, NEW l, NEW q, NEW cur, Whole(e, l, q, cur)
  PROVE  /\ maxsize \in Nat \ {0} /\ q \in Nat /\ q < maxsize /\ l \in Cells
         /\ q \in 0 .. maxsize - 1 /\ Begins(e, l, q) \subseteq 0 .. q
         /\ 0 \in Begins(e, l, q) /\ q \in Begins(e, l, q)
         /\ \A x \in Begins(e, l, q) : x < q =>
              /\ Beyond(e, l, x) \in Begins(e, l, q)
              /\ x + headerSize <= Beyond(e, l, x) /\ Beyond(e, l, x) <= q
              /\ Size(e, addIndex(l, x)) = Word(e, l, x + 1)
              /\ NbSeen(e, addIndex(l, x)) = Word(e, l, x + 2)
              /\ Origin(e, addIndex(l, x)) = Word(e, l, x + 3)
              /\ Size(e, addIndex(l, x)) \in Sizes
              /\ Origin(e, addIndex(l, x)) \in Threads
         /\ \A x, z \in Begins(e, l, q) : x < z => Beyond(e, l, x) <= z
         /\ cur \in [Threads -> Cells]
         /\ \A t \in Threads : Distance(l, cur[t]) \in Begins(e, l, q)
         /\ LaidOut(e, l, q) /\ Counted(e, l, q, cur)
<1>1. /\ maxsize \in Nat \ {0} /\ q \in Nat /\ q < maxsize /\ l \in Cells /\ LaidOut(e, l, q)
      /\ q \in 0 .. maxsize - 1
      /\ cur \in [Threads -> Cells] /\ \A t \in Threads : Distance(l, cur[t]) \in Begins(e, l, q)
      /\ Counted(e, l, q, cur)
  BY MaxsizePositive DEF Whole, Standing
<1>2. /\ Begins(e, l, q) \subseteq 0 .. q
      /\ 0 \in Begins(e, l, q) /\ q \in Begins(e, l, q)
      /\ \A x \in Begins(e, l, q) : x < q =>
           /\ Beyond(e, l, x) \in Begins(e, l, q)
           /\ x + headerSize <= Beyond(e, l, x) /\ Beyond(e, l, x) <= q
           /\ Size(e, addIndex(l, x)) \in Sizes
           /\ Origin(e, addIndex(l, x)) \in Threads
      /\ \A x, z \in Begins(e, l, q) : x < z => Beyond(e, l, x) <= z
  BY <1>1, LaidOutPlaces DEF LaidOut
<1>3. ASSUME NEW x \in Begins(e, l, q), x < q
      PROVE  /\ Size(e, addIndex(l, x)) = Word(e, l, x + 1)
             /\ NbSeen(e, addIndex(l, x)) = Word(e, l, x + 2)
             /\ Origin(e, addIndex(l, x)) = Word(e, l, x + 3)
  <2>1. x \in Nat /\ x < maxsize /\ x + headerSize <= maxsize
    BY <1>1, <1>2, <1>3 DEF headerSize
  <2> QED BY <1>1, <2>1, Header
<1> QED BY <1>1, <1>2, <1>3

\* A thread before a clause that goes is put where the ring then begins.
Moved(l, D, x, cur) ==
  [t \in Threads |-> IF cur[t] \in {addIndex(l, y) : y \in {z \in D : z < x}}
                     THEN addIndex(l, x) ELSE cur[t]]

LEMMA MovedStands ==
  ASSUME NEW e, NEW l, NEW q, NEW cur, Whole(e, l, q, cur), NEW x \in Begins(e, l, q),
         NEW m, m = addIndex(l, x), NEW cur2, cur2 = Moved(l, Begins(e, l, q), x, cur)
  PROVE  /\ cur2 \in [Threads -> Cells]
         /\ \A t \in Threads :
              Distance(m, cur2[t])
                = IF Distance(l, cur[t]) < x THEN 0 ELSE Distance(l, cur[t]) - x
<1> DEFINE D == Begins(e, l, q)
<1>0. maxsize \in Nat \ {0}
      /\ l \in Cells /\ q \in 0 .. maxsize - 1 /\ D \subseteq 0 .. q /\ x \in D
      /\ cur \in [Threads -> Cells] /\ \A t \in Threads : Distance(l, cur[t]) \in D
      /\ cur2 = Moved(l, D, x, cur)
  BY WholeIs
<1> HIDE DEF D
<1>1. x \in 0 .. maxsize - 1 /\ addIndex(l, x) \in Cells
  <2>1. x \in 0 .. maxsize - 1 /\ x \in 0 .. maxsize
    BY <1>0
  <2> QED BY <1>0, <2>1, Around
<1>2. ASSUME NEW t \in Threads
      PROVE  /\ Moved(l, D, x, cur)[t] \in Cells
             /\ Distance(addIndex(l, x), Moved(l, D, x, cur)[t])
                  = IF Distance(l, cur[t]) < x THEN 0 ELSE Distance(l, cur[t]) - x
  <2> DEFINE p == Distance(l, cur[t])
  <2>1. p \in D /\ p \in 0 .. maxsize - 1 /\ cur[t] = addIndex(l, p) /\ cur[t] \in Cells
    BY <1>0, Around
  <2> HIDE DEF p
  <2>2. Moved(l, D, x, cur)[t]
          = IF cur[t] \in {addIndex(l, y) : y \in {z \in D : z < x}} THEN addIndex(l, x) ELSE cur[t]
    BY DEF Moved
  <2>3. CASE p < x
    <3>1. Moved(l, D, x, cur)[t] = addIndex(l, x)
      BY <2>1, <2>2, <2>3
    <3>2. addIndex(addIndex(l, x), 0) = addIndex(l, x) /\ 0 \in 0 .. maxsize - 1
      BY <1>0, <1>1, Around
    <3>3. Distance(addIndex(l, x), addIndex(l, x)) = 0
      BY <1>1, <3>2, Around
    <3> QED BY <1>1, <2>3, <3>1, <3>3 DEF p
  <2>4. CASE ~(p < x)
    <3>1. \A y \in D : y < x => addIndex(l, y) # addIndex(l, p)
      <4> SUFFICES ASSUME NEW y \in D, y < x PROVE addIndex(l, y) # addIndex(l, p)
        OBVIOUS
      <4>1. y \in 0 .. maxsize - 1 /\ y # p
        BY <1>0, <2>4
      <4> QED BY <1>0, <2>1, <4>1, Around
    <3>2. Moved(l, D, x, cur)[t] = cur[t]
      BY <2>1, <2>2, <3>1
    <3>3. p - x \in 0 .. maxsize - 1 /\ x \in 0 .. maxsize /\ p - x \in 0 .. maxsize
          /\ x + (p - x) <= maxsize /\ x + (p - x) = p
      BY <1>0, <1>1, <2>1, <2>4
    <3>4. addIndex(addIndex(l, x), p - x) = addIndex(l, p)
      BY <1>0, <3>3, Around
    <3>5. Distance(addIndex(l, x), addIndex(l, p)) = p - x
      BY <1>1, <3>3, <3>4, Around
    <3> QED BY <2>1, <2>4, <3>2, <3>5 DEF p
  <2> QED BY <2>3, <2>4
<1> QED BY <1>0, <1>2 DEF Moved

\* The oldest clauses go.
LEMMA RemoveKeeps ==
  ASSUME NEW e, NEW l, NEW q, NEW cur, Whole(e, l, q, cur), NEW x \in Begins(e, l, q),
         NEW e2, e2 = [c \in {addIndex(l, k) : k \in x + 1 .. q} |-> e[c]],
         NEW m, m = addIndex(l, x), NEW r, r = q - x,
         NEW cur2, cur2 = Moved(l, Begins(e, l, q), x, cur)
  PROVE  /\ Whole(e2, m, r, cur2)
         /\ Begins(e2, m, r) = {z \in 0 .. r : z + x \in Begins(e, l, q)}
         /\ \A k \in 1 .. r : Word(e2, m, k) = Word(e, l, x + k)
         /\ \A k \in 0 .. maxsize - x : addIndex(m, k) = addIndex(l, x + k)
<1> DEFINE D == Begins(e, l, q)
<1>1. /\ maxsize \in Nat \ {0} /\ q \in Nat /\ q < maxsize /\ l \in Cells /\ D \subseteq 0 .. q
      /\ 0 \in D /\ q \in D /\ LaidOut(e, l, q) /\ q \in 0 .. maxsize - 1
      /\ cur \in [Threads -> Cells] /\ \A t \in Threads : Distance(l, cur[t]) \in D
  BY WholeIs
<1>2. x \in 0 .. q /\ x \in 0 .. maxsize - 1 /\ r \in 0 .. maxsize - 1 /\ r \in Nat /\ x \in Nat
      /\ x \in 0 .. maxsize
  BY <1>1
<1>3. m \in Cells /\ \A k \in 0 .. maxsize - x : addIndex(m, k) = addIndex(l, x + k)
  <2>1. \A k \in 0 .. maxsize - x : k \in 0 .. maxsize /\ x + k <= maxsize
    BY <1>1, <1>2
  <2> QED BY <1>1, <1>2, <2>1, Around
<1>4. \A k \in 1 .. r : addIndex(m, k) = addIndex(l, x + k) /\ x + k \in x + 1 .. q
                        /\ x + k \in 1 .. q
  BY <1>1, <1>2, <1>3
<1>5. \A k \in 1 .. r : Word(e2, m, k) = Word(e, l, x + k)
  BY <1>4 DEF Word
<1>6. DOMAIN e2 = {addIndex(m, k) : k \in 1 .. r}
  <2>1. \A k \in x + 1 .. q : k - x \in 1 .. r /\ x + (k - x) = k
    BY <1>1, <1>2
  <2>2. {addIndex(l, k) : k \in x + 1 .. q} = {addIndex(m, k) : k \in 1 .. r}
    BY <1>4, <2>1
  <2> QED BY <2>2
<1>7. \A k \in 1 .. r : Word(e2, m, k) \in 0 .. Literal /\ Word(e2, m, k) \in Nat
  BY <1>4, <1>5 DEF Whole
<1> HIDE DEF D
<1>8. /\ Begins(e2, m, r) = {z \in 0 .. q - x : z + x \in D} \cup {r}
      /\ LaidOut(e2, m, r)
  <2>1. Still(e, l, q, x, e2, m)
    <3> SUFFICES ASSUME NEW y \in D, x <= y, y < q
                 PROVE  /\ Word(e2, m, y - x + 1) = Word(e, l, y + 1)
                        /\ Word(e2, m, y - x + 3) = Word(e, l, y + 3)
      BY DEF Still, D
    <3>1. y + 3 <= q /\ y \in Nat
      <4>1. y + headerSize <= Beyond(e, l, y) /\ Beyond(e, l, y) <= q /\ Beyond(e, l, y) \in D
        BY WholeIs DEF D
      <4>2. Beyond(e, l, y) \in 0 .. q /\ y \in 0 .. q
        BY <1>1, <4>1
      <4> QED BY <1>1, <4>1, <4>2 DEF headerSize
    <3>2. /\ y - x + 1 \in 1 .. r /\ x + (y - x + 1) = y + 1
          /\ y - x + 3 \in 1 .. r /\ x + (y - x + 3) = y + 3
      BY <1>1, <1>2, <3>1
    <3> QED BY <1>5, <3>2
  <2>2. Numbers(e2, m, r)
    BY <1>7 DEF Numbers
  <2> QED BY <1>1, <1>2, <2>1, <2>2, Moves DEF D
<1>9. Begins(e2, m, r) = {z \in 0 .. r : z + x \in D}
  <2>1. r + x \in D /\ r \in 0 .. r
    BY <1>1, <1>2
  <2> QED BY <1>8, <2>1
<1>10. /\ cur2 \in [Threads -> Cells]
       /\ \A t \in Threads : Distance(m, cur2[t])
                               = IF Distance(l, cur[t]) < x THEN 0 ELSE Distance(l, cur[t]) - x
  BY MovedStands
<1>11. Standing(e2, m, r, cur2)
  <2> SUFFICES ASSUME NEW t \in Threads PROVE Distance(m, cur2[t]) \in Begins(e2, m, r)
    BY <1>10 DEF Standing
  <2>1. Distance(l, cur[t]) \in D /\ Distance(l, cur[t]) \in 0 .. q
    BY <1>1
  <2>2. 0 + x \in D
    BY <1>2 DEF D
  <2> QED BY <1>1, <1>2, <1>9, <1>10, <2>1, <2>2
<1>12. Counted(e2, m, r, cur2)
  <2> SUFFICES ASSUME NEW z \in Begins(e2, m, r), z < r
               PROVE  NbSeen(e2, addIndex(m, z))
                        = IF NbThreads > 1 THEN Cardinality(Readers(e2, m, cur2, z)) ELSE 1
    BY DEF Counted
  <2>1. z \in 0 .. r /\ z + x \in D /\ z + x < q
    BY <1>1, <1>2, <1>9
  <2>2. /\ NbSeen(e, addIndex(l, z + x)) = Word(e, l, z + x + 2)
        /\ Origin(e, addIndex(l, z + x)) = Word(e, l, z + x + 3)
        /\ z + x + headerSize <= Beyond(e, l, z + x) /\ Beyond(e, l, z + x) <= q
        /\ Beyond(e, l, z + x) \in D
    BY <2>1, WholeIs DEF D
  <2>3. z + x + 3 <= q
    <3>1. Beyond(e, l, z + x) \in 0 .. q
      BY <1>1, <2>2
    <3> QED BY <1>1, <1>2, <2>1, <2>2, <3>1 DEF headerSize
  <2>4. NbSeen(e2, addIndex(m, z)) = Word(e2, m, z + 2)
        /\ Origin(e2, addIndex(m, z)) = Word(e2, m, z + 3)
    BY <1>1, <1>2, <1>3, <2>1, <2>3, Header DEF headerSize
  <2>5. Word(e2, m, z + 2) = Word(e, l, z + x + 2) /\ Word(e2, m, z + 3) = Word(e, l, z + x + 3)
    <3>1. z + 2 \in 1 .. r /\ x + (z + 2) = z + x + 2 /\ z + 3 \in 1 .. r /\ x + (z + 3) = z + x + 3
      BY <1>1, <1>2, <2>1, <2>3
    <3> QED BY <1>5, <3>1
  <2>6. \A t \in Threads : Distance(m, cur2[t]) <= z <=> Distance(l, cur[t]) <= z + x
    <3> SUFFICES ASSUME NEW t \in Threads
                 PROVE  Distance(m, cur2[t]) <= z <=> Distance(l, cur[t]) <= z + x
      OBVIOUS
    <3>1. Distance(l, cur[t]) \in 0 .. q
      BY <1>1
    <3> QED BY <1>1, <1>2, <1>10, <2>1, <3>1
  <2>7. Readers(e2, m, cur2, z) = Readers(e, l, cur, z + x)
    BY <2>2, <2>4, <2>5, <2>6 DEF Readers
  <2>8. NbSeen(e, addIndex(l, z + x))
          = IF NbThreads > 1 THEN Cardinality(Readers(e, l, cur, z + x)) ELSE 1
    BY <2>1, WholeIs DEF Counted, D
  <2> QED BY <2>2, <2>4, <2>5, <2>7, <2>8
<1>13. Whole(e2, m, r, cur2)
  BY <1>2, <1>3, <1>6, <1>7, <1>8, <1>11, <1>12 DEF Whole
<1> QED BY <1>3, <1>5, <1>9, <1>13 DEF D

LEMMA ThreadsFinite ==
  /\ IsFiniteSet(Threads) /\ Cardinality(Threads) = NbThreads
  /\ \A S \in SUBSET Threads : IsFiniteSet(S) /\ Cardinality(S) \in Nat
<1>1. NbThreads \in Nat \ {0}
  BY ThreadsAssumption
<1>2. IsFiniteSet(Threads) /\ Cardinality(Threads) = NbThreads
  BY <1>1, FS_Interval DEF Threads
<1> QED BY <1>2, FS_Subset, FS_CardinalityType

\* Thread t reads the clause at place z, the first foreign one for it.
Finds(e, l, q, cur, t, z) ==
  /\ z \in Begins(e, l, q) /\ z < q
  /\ Origin(e, addIndex(l, z)) # t
  /\ Distance(l, cur[t]) <= z
  /\ \A y \in Begins(e, l, q) :
       Distance(l, cur[t]) <= y /\ y < z => Origin(e, addIndex(l, y)) = t

Decreased(e, l, z) == [e EXCEPT ![addIndex(addIndex(l, z), 2)] = @ - 1]
Advanced(e, l, z, t, cur) == [cur EXCEPT ![t] = addIndex(l, Beyond(e, l, z))]

LEMMA ReadKeeps ==
  ASSUME NEW e, NEW l, NEW q, NEW cur, Whole(e, l, q, cur), NEW t \in Threads,
         NEW z, Finds(e, l, q, cur, t, z),
         NEW e2, e2 = Decreased(e, l, z), NEW cur2, cur2 = Advanced(e, l, z, t, cur)
  PROVE  /\ Whole(e2, l, q, cur2)
         /\ Begins(e2, l, q) = Begins(e, l, q)
         /\ \A k \in 1 .. q : k # z + 2 => Word(e2, l, k) = Word(e, l, k)
         /\ Word(e2, l, z + 2) = Word(e, l, z + 2) - 1 /\ Word(e, l, z + 2) \in Nat \ {0}
         /\ \A u \in Threads : Distance(l, cur2[u]) = IF u = t THEN Beyond(e, l, z)
                                                      ELSE Distance(l, cur[u])
<1> DEFINE D == Begins(e, l, q)
           B == Beyond(e, l, z)
           p == Distance(l, cur[t])
<1>1. /\ maxsize \in Nat \ {0} /\ q \in Nat /\ q < maxsize /\ l \in Cells /\ D \subseteq 0 .. q
      /\ 0 \in D /\ q \in D /\ LaidOut(e, l, q) /\ q \in 0 .. maxsize - 1
      /\ cur \in [Threads -> Cells] /\ \A u \in Threads : Distance(l, cur[u]) \in D
      /\ Counted(e, l, q, cur)
  BY WholeIs
<1>2. /\ z \in D /\ z < q /\ Origin(e, addIndex(l, z)) # t /\ p <= z
      /\ \A y \in D : p <= y /\ y < z => Origin(e, addIndex(l, y)) = t
  BY DEF Finds
<1>3. ASSUME NEW y \in D, y < q
      PROVE  /\ y \in Nat /\ y + 3 <= q /\ Beyond(e, l, y) \in D
             /\ y + 3 <= Beyond(e, l, y) /\ Beyond(e, l, y) \in 0 .. q
             /\ NbSeen(e, addIndex(l, y)) = Word(e, l, y + 2)
             /\ Origin(e, addIndex(l, y)) = Word(e, l, y + 3)
             /\ Origin(e, addIndex(l, y)) \in Threads
  <2>1. /\ Beyond(e, l, y) \in D
        /\ y + headerSize <= Beyond(e, l, y) /\ Beyond(e, l, y) <= q
        /\ NbSeen(e, addIndex(l, y)) = Word(e, l, y + 2)
        /\ Origin(e, addIndex(l, y)) = Word(e, l, y + 3)
        /\ Origin(e, addIndex(l, y)) \in Threads
    BY <1>3, WholeIs
  <2>2. y \in 0 .. q /\ Beyond(e, l, y) \in 0 .. q
    BY <1>1, <2>1
  <2> QED BY <1>1, <2>1, <2>2 DEF headerSize
<1>4. \A y \in D : y < z => Beyond(e, l, y) <= z
  BY <1>2, WholeIs
<1>5. \A y \in D : z < y => B <= y
  BY <1>2, WholeIs
<1> HIDE DEF D
<1>6. z \in Nat /\ z + 3 <= q /\ B \in D /\ z + 3 <= B /\ B \in 0 .. q
  BY <1>2, <1>3
<1>7. NbThreads > 1
  <2> SUFFICES ASSUME ~(NbThreads > 1) PROVE FALSE
    OBVIOUS
  <2>1. Threads = {0}
    BY ThreadsAssumption DEF Threads
  <2> QED BY <1>2, <1>3, <2>1
<1>8. /\ Word(e, l, z + 2) = Cardinality(Readers(e, l, cur, z))
      /\ t \in Readers(e, l, cur, z)
      /\ IsFiniteSet(Readers(e, l, cur, z))
      /\ Cardinality(Readers(e, l, cur, z) \ {t}) = Word(e, l, z + 2) - 1
      /\ Word(e, l, z + 2) \in Nat \ {0}
  <2>1. Word(e, l, z + 2) = Cardinality(Readers(e, l, cur, z))
    BY <1>1, <1>2, <1>3, <1>7 DEF Counted, D
  <2>2. t \in Readers(e, l, cur, z)
    BY <1>2 DEF Readers
  <2>3. /\ IsFiniteSet(Readers(e, l, cur, z)) /\ Cardinality(Readers(e, l, cur, z)) \in Nat
        /\ Cardinality(Readers(e, l, cur, z) \ {t}) \in Nat
    BY ThreadsFinite DEF Readers
  <2>4. Cardinality(Readers(e, l, cur, z) \ {t}) = Cardinality(Readers(e, l, cur, z)) - 1
    BY <2>2, <2>3, FS_RemoveElement
  <2> QED BY <2>1, <2>2, <2>3, <2>4
<1>9. /\ \A k \in 1 .. q : Word(e2, l, k) = IF k = z + 2 THEN Word(e, l, z + 2) - 1
                                             ELSE Word(e, l, k)
      /\ DOMAIN e2 = DOMAIN e
  <2>1. addIndex(addIndex(l, z), 2) = addIndex(l, z + 2)
    <3>1. z \in 0 .. maxsize /\ 2 \in 0 .. maxsize /\ z + 2 <= maxsize
      BY <1>1, <1>6
    <3>2. l \in Cells
      BY <1>1
    <3> QED BY <3>1, <3>2, Around
  <2>2. DOMAIN e = {addIndex(l, k) : k \in 1 .. q}
    BY DEF Whole
  <2>3. z + 2 \in 1 .. q
    BY <1>1, <1>6
  <2>4. ASSUME NEW k \in 1 .. q, k # z + 2 PROVE addIndex(l, k) # addIndex(l, z + 2)
    <3>1. k \in 0 .. maxsize - 1 /\ z + 2 \in 0 .. maxsize - 1
      BY <1>1, <2>3
    <3> QED BY <1>1, <2>4, <3>1, Around
  <2> QED BY <2>1, <2>2, <2>3, <2>4 DEF Word, Decreased
<1>10. \A y \in D : y < q => /\ y # z => y + 2 # z + 2
                             /\ y + 3 # z + 2 /\ y + 1 # z + 2
                             /\ y + 1 \in 1 .. q /\ y + 2 \in 1 .. q /\ y + 3 \in 1 .. q
  <2> SUFFICES ASSUME NEW y \in D, y < q
               PROVE  /\ y # z => y + 2 # z + 2
                      /\ y + 3 # z + 2 /\ y + 1 # z + 2
                      /\ y + 1 \in 1 .. q /\ y + 2 \in 1 .. q /\ y + 3 \in 1 .. q
    OBVIOUS
  <2>1. y \in Nat /\ y + 3 <= q /\ y + 3 <= Beyond(e, l, y) /\ Beyond(e, l, y) \in 0 .. q
    BY <1>3
  <2>2. y < z => y + 3 <= z
    BY <1>4, <1>6, <2>1
  <2>3. z < y => z + 3 <= y
    BY <1>5, <1>6, <2>1
  <2> QED BY <1>1, <1>6, <2>1, <2>2, <2>3
<1>15. \A k \in 1 .. q : Word(e2, l, k) \in 0 .. Literal /\ Word(e2, l, k) \in Nat
  <2> SUFFICES ASSUME NEW k \in 1 .. q
               PROVE  Word(e2, l, k) \in 0 .. Literal /\ Word(e2, l, k) \in Nat
    OBVIOUS
  <2>1. \A n \in 1 .. q : Word(e, l, n) \in 0 .. Literal
    BY DEF Whole
  <2>2. z + 2 \in 1 .. q
    BY <1>1, <1>6
  <2>3. Literal \in Nat
    BY <1>1, ThreadsAssumption DEF Literal
  <2>4. CASE k = z + 2
    <3>1. Word(e2, l, k) = Word(e, l, z + 2) - 1 /\ Word(e, l, z + 2) \in 0 .. Literal
      BY <1>9, <2>1, <2>2, <2>4
    <3> QED BY <1>8, <2>3, <3>1
  <2>5. CASE k # z + 2
    <3>1. Word(e2, l, k) = Word(e, l, k) /\ Word(e, l, k) \in 0 .. Literal
      BY <1>9, <2>1, <2>5
    <3> QED BY <2>3, <3>1
  <2> QED BY <2>4, <2>5
<1>11. Begins(e2, l, q) = D /\ LaidOut(e2, l, q)
  <2>1. Still(e, l, q, 0, e2, l)
    <3> SUFFICES ASSUME NEW y \in D, y < q
                 PROVE  /\ Word(e2, l, y - 0 + 1) = Word(e, l, y + 1)
                        /\ Word(e2, l, y - 0 + 3) = Word(e, l, y + 3)
      BY DEF Still, D
    <3>1. y - 0 + 1 = y + 1 /\ y - 0 + 3 = y + 3
      BY <1>3
    <3>2. y + 1 \in 1 .. q /\ y + 1 # z + 2 /\ y + 3 \in 1 .. q /\ y + 3 # z + 2
      BY <1>10
    <3>3. Word(e2, l, y + 1) = Word(e, l, y + 1) /\ Word(e2, l, y + 3) = Word(e, l, y + 3)
      BY <1>9, <3>2
    <3> QED BY <3>1, <3>3
  <2>2. Numbers(e2, l, q)
    BY <1>15 DEF Numbers
  <2>3. Begins(e2, l, q) = D \cup {q} /\ LaidOut(e2, l, q)
    <3>1. q \in 0 .. maxsize - 1 /\ l \in Cells /\ LaidOut(e, l, q)
      BY <1>1
    <3> QED BY <2>1, <2>2, <3>1, Stays DEF D
  <2> QED BY <1>1, <2>3
<1>12. /\ cur2 \in [Threads -> Cells]
       /\ \A u \in Threads : Distance(l, cur2[u]) = IF u = t THEN B ELSE Distance(l, cur[u])
  <2>1. B \in 0 .. maxsize - 1 /\ B \in 0 .. maxsize
    BY <1>1, <1>6
  <2>2. addIndex(l, B) \in Cells /\ Distance(l, addIndex(l, B)) = B
    BY <1>1, <2>1, Around
  <2> QED BY <1>1, <2>2 DEF Advanced
<1>13. Standing(e2, l, q, cur2)
  BY <1>1, <1>6, <1>11, <1>12 DEF Standing
<1>14. Counted(e2, l, q, cur2)
  <2> SUFFICES ASSUME NEW y \in D, y < q
               PROVE  NbSeen(e2, addIndex(l, y)) = Cardinality(Readers(e2, l, cur2, y))
    BY <1>7, <1>11 DEF Counted
  <2>1. y \in Nat /\ y + 3 <= q /\ y + headerSize <= maxsize
    BY <1>1, <1>3 DEF headerSize
  <2>2. /\ NbSeen(e2, addIndex(l, y)) = Word(e2, l, y + 2)
        /\ Origin(e2, addIndex(l, y)) = Origin(e, addIndex(l, y))
    <3>1. NbSeen(e2, addIndex(l, y)) = Word(e2, l, y + 2)
          /\ Origin(e2, addIndex(l, y)) = Word(e2, l, y + 3)
      BY <1>1, <2>1, Header
    <3>2. Word(e2, l, y + 3) = Word(e, l, y + 3)
      BY <1>9, <1>10
    <3> QED BY <1>3, <3>1, <3>2
  <2>3. CASE y = z
    <3>1. Readers(e2, l, cur2, y) = Readers(e, l, cur, z) \ {t}
      BY <1>6, <1>12, <2>2, <2>3 DEF Readers
    <3>2. z + 2 \in 1 .. q
      BY <1>10, <2>3
    <3> QED BY <1>8, <1>9, <2>2, <2>3, <3>1, <3>2
  <2>4. CASE y # z
    <3>1. Word(e2, l, y + 2) = Word(e, l, y + 2)
      BY <1>9, <1>10, <2>4
    <3>2. Word(e, l, y + 2) = Cardinality(Readers(e, l, cur, y))
      BY <1>1, <1>3, <1>7 DEF Counted, D
    <3>3. p \in 0 .. q
      BY <1>1
    <3>4. t # Origin(e, addIndex(l, y)) => (B <= y <=> p <= y)
      <4>1. CASE y < z
        BY <1>2, <1>6, <2>1, <3>3, <4>1
      <4>2. CASE z < y
        BY <1>2, <1>5, <1>6, <2>1, <3>3, <4>2
      <4> QED BY <1>6, <2>1, <2>4, <4>1, <4>2
    <3>5. Readers(e2, l, cur2, y) = Readers(e, l, cur, y)
      BY <1>12, <2>2, <3>4 DEF Readers
    <3> QED BY <2>2, <3>1, <3>2, <3>5
  <2> QED BY <2>3, <2>4
<1>16. Whole(e2, l, q, cur2)
  BY <1>1, <1>9, <1>11, <1>13, <1>14, <1>15 DEF Whole
<1>17. z + 2 \in 1 .. q
  BY <1>2, <1>10
<1> QED BY <1>8, <1>9, <1>11, <1>12, <1>16, <1>17 DEF D

\* A clause comes behind the others.
Appended(e, f, t, s) ==
  LET new == {addIndex(f, k) : k \in 0 .. s + headerSize - 1}
  IN [c \in DOMAIN e \cup new |-> IF c \in new THEN Written(t, s)[Distance(f, c)] ELSE e[c]]

LEMMA AppendKeeps ==
  ASSUME NEW e, NEW l, NEW q, NEW cur, Whole(e, l, q, cur), NEW t \in Threads, NEW s \in Sizes,
         NEW r, r = q + s + headerSize, r < maxsize, NEW f, f = nextIndex(addIndex(l, q)),
         NEW e2, e2 = Appended(e, f, t, s)
  PROVE  /\ Whole(e2, l, r, cur)
         /\ Begins(e2, l, r) = Begins(e, l, q) \cup {r}
         /\ \A k \in 1 .. q : Word(e2, l, k) = Word(e, l, k)
         /\ Word(e2, l, q + 1) = s /\ Word(e2, l, q + 2) = Waiting /\ Word(e2, l, q + 3) = t
         /\ addIndex(f, s + headerSize) = nextIndex(addIndex(l, r))
<1> DEFINE D == Begins(e, l, q)
           new == {addIndex(f, k) : k \in 0 .. s + headerSize - 1}
<1>0. e2 = [c \in DOMAIN e \cup new |->
              IF c \in new THEN Written(t, s)[Distance(f, c)] ELSE e[c]]
  BY DEF Appended
<1>1. /\ maxsize \in Nat \ {0} /\ q \in Nat /\ q < maxsize /\ l \in Cells /\ D \subseteq 0 .. q
      /\ 0 \in D /\ q \in D /\ LaidOut(e, l, q) /\ q \in 0 .. maxsize - 1
      /\ cur \in [Threads -> Cells] /\ \A u \in Threads : Distance(l, cur[u]) \in D
      /\ Counted(e, l, q, cur)
  BY WholeIs
<1>w. /\ q \in Nat /\ \A w \in D : w \in 0 .. q /\ w \in Nat
      /\ \A u \in Threads : Distance(l, cur[u]) \in 0 .. q
  BY <1>1
<1>2. s \in Nat \ {0} /\ r \in Nat /\ q + 3 < r /\ r = q + s + 3 /\ r \in 0 .. maxsize - 1
      /\ s + headerSize - 1 = s + 2
  BY <1>1, SizesAssumption DEF headerSize
<1>3. f = addIndex(l, q + 1) /\ f \in Cells
  <2>1. q \in 0 .. maxsize - 1 /\ q + 1 \in 0 .. maxsize
    BY <1>1, <1>2
  <2>2. l \in Cells
    BY <1>1
  <2> QED BY <2>1, <2>2, Around
<1>4. \A k \in q + 1 .. r : /\ k - (q + 1) \in 0 .. s + 2 /\ k - (q + 1) \in 0 .. maxsize - 1
                            /\ addIndex(f, k - (q + 1)) = addIndex(l, k)
  <2> SUFFICES ASSUME NEW k \in q + 1 .. r
               PROVE  /\ k - (q + 1) \in 0 .. s + 2 /\ k - (q + 1) \in 0 .. maxsize - 1
                      /\ addIndex(f, k - (q + 1)) = addIndex(l, k)
    OBVIOUS
  <2>1. /\ k - (q + 1) \in 0 .. s + 2 /\ k - (q + 1) \in 0 .. maxsize - 1
        /\ k - (q + 1) \in 0 .. maxsize /\ q + 1 \in 0 .. maxsize
        /\ (q + 1) + (k - (q + 1)) <= maxsize /\ (q + 1) + (k - (q + 1)) = k
    BY <1>1, <1>2
  <2>2. l \in Cells
    BY <1>1
  <2>3. addIndex(addIndex(l, q + 1), k - (q + 1)) = addIndex(l, (q + 1) + (k - (q + 1)))
    BY <2>1, <2>2, Around
  <2> QED BY <1>3, <2>1, <2>3
<1>5. new = {addIndex(l, k) : k \in q + 1 .. r}
  <2>1. ASSUME NEW j \in 0 .. s + headerSize - 1
        PROVE  /\ j + (q + 1) \in q + 1 .. r /\ (j + (q + 1)) - (q + 1) = j
    BY <1>1, <1>2
  <2>2. \A j \in 0 .. s + headerSize - 1 : addIndex(f, j) = addIndex(l, j + (q + 1))
    BY <1>4, <2>1
  <2>3. \A k \in q + 1 .. r : k - (q + 1) \in 0 .. s + headerSize - 1
    BY <1>2, <1>4
  <2> QED BY <1>4, <2>1, <2>2, <2>3
<1> HIDE DEF new
<1>6. \A k \in 1 .. q : addIndex(l, k) \notin new
  <2> SUFFICES ASSUME NEW k \in 1 .. q, NEW n \in q + 1 .. r, addIndex(l, k) = addIndex(l, n)
               PROVE  FALSE
    BY <1>5
  <2>1. k \in 0 .. maxsize - 1 /\ n \in 0 .. maxsize - 1 /\ k # n
    BY <1>1, <1>2
  <2>2. l \in Cells
    BY <1>1
  <2> QED BY <2>1, <2>2, Around
<1>7. DOMAIN e = {addIndex(l, k) : k \in 1 .. q}
  BY DEF Whole
<1>8. \A k \in 1 .. q : Word(e2, l, k) = Word(e, l, k)
  BY <1>0, <1>6, <1>7 DEF Word
<1>9. \A k \in q + 1 .. r : Word(e2, l, k) = Written(t, s)[k - (q + 1)]
  <2> SUFFICES ASSUME NEW k \in q + 1 .. r PROVE Word(e2, l, k) = Written(t, s)[k - (q + 1)]
    OBVIOUS
  <2>1. addIndex(l, k) \in new /\ addIndex(l, k) = addIndex(f, k - (q + 1))
        /\ k - (q + 1) \in 0 .. maxsize - 1
    BY <1>4, <1>5
  <2>2. Distance(f, addIndex(f, k - (q + 1))) = k - (q + 1)
    BY <1>3, <2>1, Around
  <2>3. e2[addIndex(l, k)] = Written(t, s)[Distance(f, addIndex(l, k))]
    BY <1>0, <2>1
  <2> QED BY <2>1, <2>2, <2>3 DEF Word
<1>10. DOMAIN e2 = {addIndex(l, k) : k \in 1 .. r}
  <2>1. \A k : k \in 1 .. r <=> k \in 1 .. q \/ k \in q + 1 .. r
    BY <1>1, <1>2
  <2>2. DOMAIN e2 = DOMAIN e \cup new
    BY <1>0
  <2> QED BY <1>5, <1>7, <2>1, <2>2
<1>11. Word(e2, l, q + 1) = s /\ Word(e2, l, q + 2) = Waiting /\ Word(e2, l, q + 3) = t
       /\ \A k \in q + 4 .. r : Word(e2, l, k) = Literal
  <2>1. \A j \in 0 .. s + 2 : Written(t, s)[j]
                                = CASE j = 0 -> s [] j = 1 -> Waiting [] j = 2 -> t
                                    [] OTHER -> Literal
    BY <1>2 DEF Written
  <2>2. /\ q + 1 \in q + 1 .. r /\ (q + 1) - (q + 1) = 0 /\ 0 \in 0 .. s + 2
        /\ q + 2 \in q + 1 .. r /\ (q + 2) - (q + 1) = 1 /\ 1 \in 0 .. s + 2
        /\ q + 3 \in q + 1 .. r /\ (q + 3) - (q + 1) = 2 /\ 2 \in 0 .. s + 2
    BY <1>1, <1>2
  <2>3. \A k \in q + 4 .. r : /\ k \in q + 1 .. r /\ k - (q + 1) \in 0 .. s + 2
                              /\ k - (q + 1) # 0 /\ k - (q + 1) # 1 /\ k - (q + 1) # 2
    BY <1>1, <1>2
  <2>4. Written(t, s)[0] = s /\ Written(t, s)[1] = Waiting /\ Written(t, s)[2] = t
    BY <2>1, <2>2
  <2>5. \A j \in 0 .. s + 2 : j # 0 /\ j # 1 /\ j # 2 => Written(t, s)[j] = Literal
    BY <2>1
  <2> QED BY <1>9, <2>2, <2>3, <2>4, <2>5
<1>12. \A k \in 1 .. r : Word(e2, l, k) \in 0 .. Literal /\ Word(e2, l, k) \in Nat
  <2>1. NbThreads \in Nat \ {0} /\ Literal \in Nat /\ Literal = NbThreads + maxsize
    BY <1>1, ThreadsAssumption DEF Literal
  <2>2. s \in 0 .. Literal /\ Waiting \in 0 .. Literal /\ t \in 0 .. Literal /\ Literal \in 0 .. Literal
    BY <1>1, <1>2, <2>1 DEF Waiting, Threads
  <2>3. \A k \in 1 .. q : Word(e, l, k) \in 0 .. Literal
    BY DEF Whole
  <2>4. \A k \in 1 .. r : k \in 1 .. q \/ k = q + 1 \/ k = q + 2 \/ k = q + 3 \/ k \in q + 4 .. r
    BY <1>1, <1>2
  <2>5. \A k \in 1 .. r : Word(e2, l, k) \in 0 .. Literal
    BY <1>8, <1>11, <2>2, <2>3, <2>4
  <2> QED BY <2>1, <2>5
<1> HIDE DEF D
<1>13. \A y \in D : y < q => /\ y \in Nat /\ y + 3 <= q
                             /\ NbSeen(e, addIndex(l, y)) = Word(e, l, y + 2)
                             /\ Origin(e, addIndex(l, y)) = Word(e, l, y + 3)
                             /\ y + 1 \in 1 .. q /\ y + 2 \in 1 .. q /\ y + 3 \in 1 .. q
  <2> SUFFICES ASSUME NEW y \in D, y < q
               PROVE  /\ y \in Nat /\ y + 3 <= q
                      /\ NbSeen(e, addIndex(l, y)) = Word(e, l, y + 2)
                      /\ Origin(e, addIndex(l, y)) = Word(e, l, y + 3)
    BY <1>1
  <2>1. /\ Beyond(e, l, y) \in D
        /\ y + headerSize <= Beyond(e, l, y) /\ Beyond(e, l, y) <= q
        /\ NbSeen(e, addIndex(l, y)) = Word(e, l, y + 2)
        /\ Origin(e, addIndex(l, y)) = Word(e, l, y + 3)
    BY WholeIs DEF D
  <2>2. y \in 0 .. q /\ Beyond(e, l, y) \in 0 .. q
    BY <1>1, <2>1
  <2> QED BY <1>1, <2>1, <2>2 DEF headerSize
<1>14. Begins(e2, l, r) = D \cup {r} /\ LaidOut(e2, l, r)
  <2>1. Still(e, l, q, 0, e2, l)
    <3> SUFFICES ASSUME NEW y \in D, y < q
                 PROVE  /\ Word(e2, l, y - 0 + 1) = Word(e, l, y + 1)
                        /\ Word(e2, l, y - 0 + 3) = Word(e, l, y + 3)
      BY DEF Still, D
    <3>1. y - 0 + 1 = y + 1 /\ y - 0 + 3 = y + 3
      BY <1>13
    <3> QED BY <1>8, <1>13, <3>1
  <2>2. Numbers(e2, l, r)
    BY <1>12 DEF Numbers
  <2>3. Comes(e2, l, q, r)
    BY <1>11 DEF Comes
  <2>4. /\ q \in 0 .. maxsize - 1 /\ l \in Cells /\ LaidOut(e, l, q)
        /\ r \in 0 .. maxsize - 1
    BY <1>1, <1>2
  <2> QED BY <2>1, <2>2, <2>3, <2>4, Stays DEF D
<1>15. Standing(e2, l, r, cur)
  BY <1>1, <1>14 DEF Standing
<1>16. ASSUME NEW y \in Begins(e2, l, r), y < r
       PROVE  NbSeen(e2, addIndex(l, y))
                = IF NbThreads > 1 THEN Cardinality(Readers(e2, l, cur, y)) ELSE 1
  <2>1. y \in D /\ y \in 0 .. q
    BY <1>w, <1>2, <1>14, <1>16
  <2>2. y + 3 <= r /\ y \in Nat /\ y + headerSize <= maxsize
    BY <1>1, <1>2, <1>13, <2>1 DEF headerSize
  <2>3. NbSeen(e2, addIndex(l, y)) = Word(e2, l, y + 2)
        /\ Origin(e2, addIndex(l, y)) = Word(e2, l, y + 3)
    BY <1>1, <2>2, Header
  <2>4. CASE y < q
    <3>1. Word(e2, l, y + 2) = Word(e, l, y + 2) /\ Word(e2, l, y + 3) = Word(e, l, y + 3)
      BY <1>8, <1>13, <2>1, <2>4
    <3>2. Readers(e2, l, cur, y) = Readers(e, l, cur, y)
      BY <1>13, <2>1, <2>3, <2>4, <3>1 DEF Readers
    <3>3. NbSeen(e, addIndex(l, y))
            = IF NbThreads > 1 THEN Cardinality(Readers(e, l, cur, y)) ELSE 1
      BY <1>1, <2>1, <2>4 DEF Counted, D
    <3> QED BY <1>13, <2>1, <2>3, <2>4, <3>1, <3>2, <3>3
  <2>5. CASE y = q
    <3>1. \A u \in Threads : Distance(l, cur[u]) <= q
      BY <1>w
    <3>2. Origin(e2, addIndex(l, y)) = t
      BY <1>11, <2>3, <2>5
    <3>3. Readers(e2, l, cur, y) = Threads \ {t}
      BY <2>5, <3>1, <3>2 DEF Readers
    <3>4. Cardinality(Threads \ {t}) = NbThreads - 1
      BY ThreadsFinite, FS_RemoveElement
    <3> QED BY <1>11, <2>3, <2>5, <3>3, <3>4 DEF Waiting
  <2> QED BY <2>1, <2>4, <2>5, <1>1
<1>17. Counted(e2, l, r, cur)
  BY <1>16 DEF Counted
<1>18. Whole(e2, l, r, cur)
  BY <1>1, <1>2, <1>10, <1>12, <1>14, <1>15, <1>17 DEF Whole
<1>19. addIndex(f, s + headerSize) = nextIndex(addIndex(l, r))
  <2>1. /\ q + 1 \in 0 .. maxsize /\ s + headerSize \in 0 .. maxsize
        /\ (q + 1) + (s + headerSize) <= maxsize /\ (q + 1) + (s + headerSize) = r + 1
    BY <1>1, <1>2 DEF headerSize
  <2>2. l \in Cells
    BY <1>1
  <2>3. addIndex(addIndex(l, q + 1), s + headerSize) = addIndex(l, (q + 1) + (s + headerSize))
    BY <2>1, <2>2, Around
  <2>4. nextIndex(addIndex(l, r)) = addIndex(l, r + 1)
    BY <1>2, <2>2, Around
  <2> QED BY <1>3, <2>1, <2>3, <2>4
<1> QED BY <1>8, <1>11, <1>14, <1>18, <1>19 DEF D

-----------------------------------------------------------------------------
LEMMA WholeTyped ==
  ASSUME NEW e, NEW l, NEW q, NEW cur, Whole(e, l, q, cur)
  PROVE  /\ DOMAIN e \subseteq Cells /\ \A c \in DOMAIN e : e[c] \in 0 .. Literal
         /\ l \in Cells /\ q \in 0 .. maxsize - 1 /\ cur \in [Threads -> Cells]
         /\ \A k \in 1 .. q : Word(e, l, k) \in Nat
         /\ addIndex(l, q) \in Cells /\ nextIndex(addIndex(l, q)) \in Cells
<1>1. /\ maxsize \in Nat \ {0} /\ q \in Nat /\ q < maxsize /\ l \in Cells
      /\ q \in 0 .. maxsize - 1 /\ cur \in [Threads -> Cells]
  BY WholeIs
<1>2. /\ DOMAIN e = {addIndex(l, k) : k \in 1 .. q}
      /\ \A k \in 1 .. q : Word(e, l, k) \in 0 .. Literal
  BY DEF Whole
<1>3. \A k \in 1 .. q : k \in 0 .. maxsize
  BY <1>1
<1>4. \A k \in 1 .. q : addIndex(l, k) \in Cells
  BY <1>1, <1>3, Around
<1>5. \A k \in 1 .. q : Word(e, l, k) \in Nat
  <2>1. Literal \in Nat
    BY <1>1, ThreadsAssumption DEF Literal
  <2> QED BY <1>2, <2>1
<1>6. addIndex(l, q) \in Cells /\ nextIndex(addIndex(l, q)) \in Cells
  <2>1. q \in 0 .. maxsize /\ q \in 0 .. maxsize - 1 /\ q + 1 \in 0 .. maxsize
    BY <1>1
  <2> QED BY <1>1, <2>1, Around
<1> QED BY <1>1, <1>2, <1>4, <1>5, <1>6 DEF Word

\* What the invariant says in the words of the module.
LEMMA RingIs ==
  ASSUME RingInv
  PROVE  /\ Whole(elems, last, queuesize, lastOfThread)
         /\ Places = Begins(elems, last, queuesize)
         /\ \A x : Cell(x) = addIndex(last, x) /\ After(x) = Beyond(elems, last, x)
         /\ \A i : PlaceOf(i) = Distance(last, i)
         /\ \A t \in Threads : /\ PlaceOf(lastOfThread[t]) \in Places
                               /\ ~Behind(lastOfThread[t])
                               /\ Cursor(t) = PlaceOf(lastOfThread[t])
<1>1. /\ Whole(elems, last, queuesize, lastOfThread)
      /\ first = nextIndex(addIndex(last, queuesize))
  BY DEF RingInv
<1>2. /\ maxsize \in Nat \ {0} /\ queuesize \in 0 .. maxsize - 1 /\ last \in Cells
      /\ Begins(elems, last, queuesize) \subseteq 0 .. queuesize
      /\ lastOfThread \in [Threads -> Cells]
      /\ \A t \in Threads : Distance(last, lastOfThread[t]) \in Begins(elems, last, queuesize)
  BY <1>1, WholeIs
<1>3. ASSUME NEW t \in Threads PROVE ~Behind(lastOfThread[t])
  <2> DEFINE p == Distance(last, lastOfThread[t])
  <2>1. p \in 0 .. queuesize /\ lastOfThread[t] \in Cells
    BY <1>2
  <2>2. lastOfThread[t] = addIndex(last, p)
    BY <1>2, <2>1, Around
  <2> HIDE DEF p
  <2> QED BY <1>1, <1>2, <2>1, <2>2 DEF Behind, Cells, addIndex, nextIndex
<1> QED BY <1>1, <1>2, <1>3 DEF Places, Cell, After, Beyond, PlaceOf, Cursor

LEMMA InitKeeps == Init => RingInv
<1> SUFFICES ASSUME Init PROVE RingInv
  OBVIOUS
<1>1. maxsize \in Nat \ {0} /\ NbThreads \in Nat \ {0}
  BY MaxsizePositive, ThreadsAssumption
<1>2. /\ elems = <<>> /\ first = 0 /\ last = maxsize - 1 /\ queuesize = 0
      /\ lastOfThread = [t \in Threads |-> maxsize - 1]
      /\ whenFullRemoveOlder \in BOOLEAN /\ answer = Nothing
  BY DEF Init
<1>3. last \in Cells /\ first \in Cells /\ lastOfThread \in [Threads -> Cells]
      /\ DOMAIN elems = {} /\ queuesize \in 0 .. maxsize - 1
  BY <1>1, <1>2 DEF Cells
<1>4. Sized(elems, last, queuesize)
  BY <1>2 DEF Sized
<1>5. Begins(elems, last, queuesize) = {0}
  <2>1. Chain(Begins(elems, last, queuesize), 0, elems, last, queuesize)
    BY <1>2, <1>4, BeginsChain
  <2> QED BY <1>2, <2>1 DEF Chain
<1>6. \A t \in Threads : Distance(last, lastOfThread[t]) = 0
  BY <1>1, <1>2 DEF Distance
<1>7. Whole(elems, last, queuesize, lastOfThread)
  BY <1>2, <1>3, <1>4, <1>5, <1>6 DEF Whole, LaidOut, Standing, Counted
<1>8. first = nextIndex(addIndex(last, queuesize))
  BY <1>1, <1>2 DEF nextIndex, addIndex
<1>9. TypeOK
  BY <1>2, <1>3 DEF TypeOK
<1> QED BY <1>2, <1>7, <1>8, <1>9 DEF RingInv, OldestWanted

LEMMA RefuseKeeps ==
  ASSUME RingInv, NEW s \in Sizes, Refuse(s)
  PROVE  RingInv'
<1>1. /\ elems' = elems /\ first' = first /\ last' = last /\ queuesize' = queuesize
      /\ lastOfThread' = lastOfThread /\ whenFullRemoveOlder' = whenFullRemoveOlder
      /\ answer' = Refused
  BY DEF Refuse
<1>2. TypeOK'
  BY <1>1 DEF RingInv, TypeOK
<1>3. Whole(elems, last, queuesize, lastOfThread)'
  BY <1>1 DEF RingInv
<1>4. OldestWanted'
  BY <1>1 DEF RingInv, OldestWanted
<1> QED BY <1>1, <1>2, <1>3, <1>4 DEF RingInv

\* pushClause drops clauses up to a place.
LEMMA RoomIsMade ==
  ASSUME RingInv, NEW s \in Sizes, s + headerSize < maxsize
  PROVE  /\ MakeRoom(s) \in Places /\ MakeRoom(s) \in Nat
         /\ MakeRoom(s) = 0 \/ MakeRoom(s) \in Stops(elems)
         /\ queuesize - MakeRoom(s) + s + headerSize < maxsize
<1> DEFINE S == {x \in Stops(elems) \cup {0} : Fits(queuesize - x, s)}
<1>1. /\ Whole(elems, last, queuesize, lastOfThread)
      /\ Places = Begins(elems, last, queuesize)
  BY RingIs
<1>2. /\ queuesize \in Nat /\ Places \subseteq 0 .. queuesize
      /\ 0 \in Places /\ queuesize \in Places
  BY <1>1, WholeIs
<1>3. Stops(elems) \subseteq Places /\ queuesize \in Stops(elems)
  BY <1>2 DEF Stops
<1>4. s \in Nat
  BY SizesAssumption
<1>5. queuesize \in S
  BY <1>2, <1>3, <1>4 DEF Fits
<1>6. S \subseteq Nat
  <2>1. \A y \in Stops(elems) \cup {0} : y \in Nat
    BY <1>2, <1>3
  <2> QED BY <2>1
<1>7. MakeRoom(s) \in S
  <2> HIDE DEF S
  <2>1. Min(S) \in S
    BY <1>5, <1>6, MinIs
  <2> QED BY <2>1 DEF MakeRoom, S
<1> QED BY <1>2, <1>3, <1>6, <1>7 DEF Fits

\* Dropping the clauses before a place, in the words of the module.
LEMMA WithoutIs ==
  ASSUME RingInv, NEW e, NEW x
  PROVE  /\ Without(e, x).elems = [c \in {addIndex(last, k) : k \in x + 1 .. queuesize} |-> e[c]]
         /\ Without(e, x).last = addIndex(last, x)
         /\ Without(e, x).queuesize = queuesize - x
         /\ Without(e, x).lastOfThread
              = Moved(last, Begins(elems, last, queuesize), x, lastOfThread)
  BY DEF Without, Moved, Cell, Places

LEMMA PushKeeps ==
  ASSUME RingInv, NEW t \in Threads, NEW s \in Sizes, Push(t, s)
  PROVE  /\ RingInv'
         /\ \E x \in Places : 
              /\ last' = addIndex(last, x)
              /\ queuesize' = queuesize - x + s + headerSize
              /\ lastOfThread' = Moved(last, Places, x, lastOfThread)
              /\ Begins(elems', last', queuesize')
                   = {z \in 0 .. queuesize - x : z + x \in Places} \cup {queuesize'}
              /\ \A k \in 1 .. queuesize - x : Word(elems', last', k) = Word(elems, last, x + k)
              /\ Word(elems', last', queuesize - x + 1) = s
              /\ Word(elems', last', queuesize - x + 3) = t
              /\ x # 0 => whenFullRemoveOlder
<1> DEFINE x == MakeRoom(s)
           b == Without(elems, x)
<1>1. /\ whenFullRemoveOlder \/ Fits(queuesize, s)
      /\ s + headerSize < maxsize
      /\ elems' = Appended(b.elems, first, t, s)
      /\ queuesize' = b.queuesize + s + headerSize
      /\ last' = b.last
      /\ lastOfThread' = b.lastOfThread
      /\ first' = addIndex(first, s + headerSize)
      /\ answer' = Taken
      /\ whenFullRemoveOlder' = whenFullRemoveOlder
  BY DEF Push, Appended
<1>2. /\ x \in Places /\ x \in Nat
      /\ x = 0 \/ x \in Stops(elems)
      /\ queuesize - x + s + headerSize < maxsize
  BY <1>1, RoomIsMade
<1>3. /\ Whole(elems, last, queuesize, lastOfThread)
      /\ Places = Begins(elems, last, queuesize)
      /\ \A y : Cell(y) = addIndex(last, y)
      /\ first = nextIndex(addIndex(last, queuesize))
      /\ OldestWanted /\ TypeOK
  BY RingIs DEF RingInv
<1>4. /\ maxsize \in Nat \ {0} /\ queuesize \in 0 .. maxsize - 1 /\ last \in Cells
      /\ Places \subseteq 0 .. queuesize
  BY <1>3, WholeIs
<1>5. x \in 0 .. queuesize /\ s \in Nat \ {0}
  BY <1>2, <1>4, SizesAssumption
<1>6. /\ b.elems = [c \in {addIndex(last, k) : k \in x + 1 .. queuesize} |-> elems[c]]
      /\ b.last = addIndex(last, x)
      /\ b.queuesize = queuesize - x
      /\ b.lastOfThread = Moved(last, Begins(elems, last, queuesize), x, lastOfThread)
  BY WithoutIs
<1> HIDE DEF b, x
<1>7. /\ Whole(b.elems, b.last, b.queuesize, b.lastOfThread)
      /\ Begins(b.elems, b.last, b.queuesize)
           = {z \in 0 .. b.queuesize : z + x \in Places}
      /\ \A k \in 1 .. b.queuesize : Word(b.elems, b.last, k) = Word(elems, last, x + k)
      /\ \A k \in 0 .. maxsize - x : addIndex(b.last, k) = addIndex(last, x + k)
  BY <1>2, <1>3, <1>6, RemoveKeeps
<1>8. first = nextIndex(addIndex(b.last, b.queuesize))
  <2>1. b.queuesize \in 0 .. maxsize - x /\ x + b.queuesize = queuesize
    BY <1>4, <1>5, <1>6
  <2> QED BY <1>3, <1>7, <2>1
<1>9. queuesize' = b.queuesize + s + headerSize /\ queuesize' < maxsize
      /\ b.queuesize \in Nat /\ queuesize' \in 0 .. maxsize - 1 /\ queuesize' \in Nat
  BY <1>1, <1>2, <1>4, <1>5, <1>6 DEF headerSize
<1>10. /\ Whole(elems', last', queuesize', lastOfThread')
       /\ Begins(elems', last', queuesize')
            = Begins(b.elems, b.last, b.queuesize) \cup {queuesize'}
       /\ \A k \in 1 .. b.queuesize : Word(elems', last', k) = Word(b.elems, b.last, k)
       /\ Word(elems', last', b.queuesize + 1) = s
       /\ Word(elems', last', b.queuesize + 2) = Waiting
       /\ Word(elems', last', b.queuesize + 3) = t
       /\ first' = nextIndex(addIndex(last', queuesize'))
  <2>1. /\ Whole(b.elems, b.last, b.queuesize, b.lastOfThread)
        /\ queuesize' = b.queuesize + s + headerSize /\ queuesize' < maxsize
    BY <1>7, <1>9
  <2>2. /\ Whole(elems', b.last, queuesize', b.lastOfThread)
        /\ Begins(elems', b.last, queuesize')
             = Begins(b.elems, b.last, b.queuesize) \cup {queuesize'}
        /\ \A k \in 1 .. b.queuesize : Word(elems', b.last, k) = Word(b.elems, b.last, k)
        /\ Word(elems', b.last, b.queuesize + 1) = s
        /\ Word(elems', b.last, b.queuesize + 2) = Waiting
        /\ Word(elems', b.last, b.queuesize + 3) = t
        /\ addIndex(first, s + headerSize) = nextIndex(addIndex(b.last, queuesize'))
    BY <1>1, <1>8, <2>1, AppendKeeps
  <2> QED BY <1>1, <2>2
<1>11. OldestWanted'
  <2>1. last' \in Cells /\ maxsize >= 4
    BY <1>1, <1>5, <1>4, <1>10, WholeIs DEF headerSize
  <2>2. NbSeen(elems', last') = Word(elems', last', 2)
    BY DEF NbSeen, Word
  <2>3. CASE b.queuesize = 0
    <3>1. Word(elems', last', 2) = Waiting
      BY <1>10, <2>3
    <3> QED BY <2>2, <3>1, ThreadsAssumption DEF Waiting, OldestWanted
  <2>4. CASE b.queuesize # 0
    <3>1. x \in Begins(elems, last, queuesize) /\ x < queuesize /\ queuesize > 0
      BY <1>2, <1>3, <1>4, <1>5, <1>6, <2>4
    <3>2. /\ NbSeen(elems, addIndex(last, x)) = Word(elems, last, x + 2)
          /\ x + headerSize <= Beyond(elems, last, x) /\ Beyond(elems, last, x) <= queuesize
          /\ Beyond(elems, last, x) \in Begins(elems, last, queuesize)
      BY <1>3, <3>1, WholeIs
    <3>3. x + 3 <= queuesize
      <4>1. Beyond(elems, last, x) \in 0 .. queuesize
        BY <1>3, <1>4, <3>2
      <4> QED BY <1>4, <1>5, <3>2, <4>1 DEF headerSize
    <3>4. 2 \in 1 .. b.queuesize /\ x + 2 \in 1 .. queuesize
      BY <1>4, <1>5, <1>6, <3>3
    <3>5. Word(elems', last', 2) = NbSeen(elems, addIndex(last, x))
      BY <1>7, <1>10, <3>2, <3>4
    <3>6. NbSeen(elems, addIndex(last, x)) \in Nat
      BY <1>3, <3>2, <3>4, WholeTyped
    <3>7. NbSeen(elems, addIndex(last, x)) # 0
      <4>1. CASE x = 0
        <5>1. addIndex(last, x) = last
          BY <1>4, <4>1, Around
        <5>2. NbSeen(elems, last) > 0
          BY <1>3, <3>1 DEF OldestWanted
        <5> QED BY <3>6, <5>1, <5>2
      <4>2. CASE x # 0
        <5>1. x \in Stops(elems) /\ x # queuesize
          BY <1>2, <1>4, <1>5, <3>1, <4>2
        <5> QED BY <1>3, <5>1 DEF Stops
      <4> QED BY <4>1, <4>2
    <3> QED BY <2>2, <3>5, <3>6, <3>7 DEF OldestWanted
  <2> QED BY <2>3, <2>4
<1>12. TypeOK'
  <2>1. /\ DOMAIN elems' \subseteq Cells /\ \A c \in DOMAIN elems' : elems'[c] \in 0 .. Literal
        /\ last' \in Cells /\ queuesize' \in 0 .. maxsize - 1
        /\ lastOfThread' \in [Threads -> Cells] /\ first' \in Cells
    BY <1>10, WholeTyped
  <2> QED BY <1>1, <1>3, <2>1 DEF TypeOK
<1>13. RingInv'
  BY <1>10, <1>11, <1>12 DEF RingInv
<1>14. x # 0 => whenFullRemoveOlder
  <2> SUFFICES ASSUME ~whenFullRemoveOlder PROVE x = 0
    OBVIOUS
  <2>1. Fits(queuesize - 0, s)
    BY <1>1, <1>4 DEF Fits
  <2>2. 0 \in {y \in Stops(elems) \cup {0} : Fits(queuesize - y, s)}
    BY <2>1
  <2>3. {y \in Stops(elems) \cup {0} : Fits(queuesize - y, s)} \subseteq Nat
    <3>1. \A y \in Stops(elems) \cup {0} : y \in Nat
      BY <1>4 DEF Stops
    <3> QED BY <3>1
  <2> DEFINE S == {y \in Stops(elems) \cup {0} : Fits(queuesize - y, s)}
  <2> HIDE DEF S
  <2>4. Min(S) <= 0 /\ Min(S) \in Nat
    BY <2>2, <2>3, MinIs DEF S
  <2>5. x = Min(S)
    BY DEF x, S, MakeRoom
  <2> QED BY <2>4, <2>5
<1> QED BY <1>1, <1>2, <1>3, <1>6, <1>7, <1>10, <1>13, <1>14

LEMMA NextIsFound ==
  ASSUME RingInv, NEW t \in Threads
  PROVE  /\ NextForeign(t) \in Places /\ PlaceOf(lastOfThread[t]) <= NextForeign(t)
         /\ \A y \in Places : PlaceOf(lastOfThread[t]) <= y /\ y < NextForeign(t)
                                => Origin(elems, addIndex(last, y)) = t
         /\ NextForeign(t) # queuesize
              => Finds(elems, last, queuesize, lastOfThread, t, NextForeign(t))
<1> DEFINE S == {y \in Places : /\ Cursor(t) <= y
                                /\ y = queuesize \/ Origin(elems, Cell(y)) # t}
           x == NextForeign(t)
<1>1. /\ Whole(elems, last, queuesize, lastOfThread)
      /\ Places = Begins(elems, last, queuesize)
      /\ \A y : Cell(y) = addIndex(last, y)
      /\ PlaceOf(lastOfThread[t]) \in Places /\ Cursor(t) = PlaceOf(lastOfThread[t])
      /\ PlaceOf(lastOfThread[t]) = Distance(last, lastOfThread[t])
  BY RingIs
<1>2. queuesize \in Nat /\ Places \subseteq 0 .. queuesize /\ queuesize \in Places
  BY <1>1, WholeIs
<1>3. queuesize \in S /\ S \subseteq Nat
  BY <1>1, <1>2
<1>4. x \in S /\ \A y \in S : x <= y
  <2> HIDE DEF S
  <2>1. Min(S) \in S /\ \A y \in S : Min(S) <= y
    BY <1>3, MinIs
  <2> QED BY <2>1 DEF NextForeign, S
<1>5. x \in Places /\ PlaceOf(lastOfThread[t]) <= x /\ x \in 0 .. queuesize
  BY <1>1, <1>2, <1>4
<1>6. ASSUME NEW y \in Places, PlaceOf(lastOfThread[t]) <= y, y < x
      PROVE  Origin(elems, addIndex(last, y)) = t
  <2>1. y \in 0 .. queuesize
    BY <1>2
  <2>2. ~(x <= y)
    BY <1>5, <1>6, <2>1
  <2>3. y \notin S
    BY <1>4, <2>2
  <2> QED BY <1>1, <1>6, <2>3
<1>7. x # queuesize => x < queuesize /\ Origin(elems, addIndex(last, x)) # t
  BY <1>1, <1>2, <1>4, <1>5
<1> HIDE DEF S, x
<1>8. x # queuesize => Finds(elems, last, queuesize, lastOfThread, t, x)
  BY <1>1, <1>5, <1>6, <1>7 DEF Finds
<1> QED BY <1>5, <1>6, <1>8 DEF x

\* Where thread u stands when t has read the clause at place x.
Passed(t, x, u) == IF u = t THEN After(x) ELSE PlaceOf(lastOfThread[u])

LEMMA GetKeeps ==
  ASSUME RingInv, NEW t \in Threads, Get(t)
  PROVE  /\ RingInv'
         /\ \E x, y \in Places :
              /\ Finds(elems, last, queuesize, lastOfThread, t, x)
              /\ answer' = [thread |-> t, clause |-> Size(elems, addIndex(last, x))]
              /\ last' = addIndex(last, y) /\ queuesize' = queuesize - y
              /\ Still(elems, last, queuesize, y, elems', last')
              /\ \A u \in Threads :
                   /\ Distance(last', lastOfThread'[u])
                        = IF Passed(t, x, u) < y THEN 0 ELSE Passed(t, x, u) - y
                   /\ \A w \in Places : Passed(t, x, u) <= w /\ w < y =>
                        Origin(elems, addIndex(last, w)) = u
<1> DEFINE x     == NextForeign(t)
           read  == [elems EXCEPT ![addIndex(Cell(x), 2)] = @ - 1]
           gone  == x = 0 /\ NbSeen(read, Cell(x)) = 0
           begin == IF gone THEN RemoveLastClause(read) ELSE 0
           b     == Without(read, begin)
           cur   == [lastOfThread EXCEPT ![t] = addIndex(last, Beyond(elems, last, x))]
<1>1. /\ x # queuesize
      /\ answer' = [thread |-> t, clause |-> Size(elems, Cell(x))]
      /\ elems' = b.elems /\ last' = b.last /\ queuesize' = b.queuesize
      /\ lastOfThread' = [b.lastOfThread EXCEPT ![t] = Cell(IF gone THEN begin ELSE After(x))]
      /\ first' = first /\ whenFullRemoveOlder' = whenFullRemoveOlder
  BY DEF Get
<1>2. /\ Whole(elems, last, queuesize, lastOfThread)
      /\ Places = Begins(elems, last, queuesize)
      /\ \A y : Cell(y) = addIndex(last, y) /\ After(y) = Beyond(elems, last, y)
      /\ \A i : PlaceOf(i) = Distance(last, i)
      /\ first = nextIndex(addIndex(last, queuesize))
      /\ OldestWanted /\ TypeOK
  BY RingIs DEF RingInv
<1>3. /\ maxsize \in Nat \ {0} /\ queuesize \in 0 .. maxsize - 1 /\ last \in Cells
      /\ Places \subseteq 0 .. queuesize /\ 0 \in Places /\ queuesize \in Places
      /\ lastOfThread \in [Threads -> Cells] /\ addIndex(last, 0) = last
  BY <1>2, WholeIs, Around
<1>4. Finds(elems, last, queuesize, lastOfThread, t, x)
  BY <1>1, NextIsFound
<1>5. x \in Places /\ x < queuesize /\ x \in 0 .. queuesize /\ queuesize > 0
  BY <1>2, <1>3, <1>4 DEF Finds
<1>6. /\ Whole(read, last, queuesize, cur)
      /\ Begins(read, last, queuesize) = Places
      /\ \A k \in 1 .. queuesize : k # x + 2 => Word(read, last, k) = Word(elems, last, k)
      /\ \A u \in Threads : Distance(last, cur[u]) = Passed(t, x, u)
  <2>1. read = Decreased(elems, last, x)
    BY <1>2 DEF Decreased
  <2>2. cur = Advanced(elems, last, x, t, lastOfThread)
    BY DEF Advanced
  <2> HIDE DEF read, cur, x
  <2>3. /\ Whole(read, last, queuesize, cur)
        /\ Begins(read, last, queuesize) = Begins(elems, last, queuesize)
        /\ \A k \in 1 .. queuesize : k # x + 2 => Word(read, last, k) = Word(elems, last, k)
        /\ \A u \in Threads : Distance(last, cur[u]) = IF u = t THEN Beyond(elems, last, x)
                                                       ELSE Distance(last, lastOfThread[u])
    BY <1>2, <1>4, <2>1, <2>2, ReadKeeps
  <2> QED BY <1>2, <2>3 DEF Passed
<1> DEFINE S == {y \in Stops(read) : y > 0}
<1>7. /\ begin \in Places /\ begin \in 0 .. queuesize
      /\ ~gone => begin = 0
      /\ gone => begin > 0 /\ begin \in Stops(read)
      /\ \A w \in Places : w < begin => NbSeen(read, addIndex(last, w)) = 0
  <2>1. CASE ~gone
    <3>1. begin = 0
      BY <2>1
    <3> HIDE DEF begin, gone
    <3> QED BY <1>3, <2>1, <3>1
  <2>2. CASE gone
    <3>1. begin = Min(S)
      BY <2>2 DEF RemoveLastClause
    <3>2. x = 0 /\ NbSeen(read, addIndex(last, 0)) = 0
      BY <1>2, <2>2
    <3> HIDE DEF begin, gone, read, x
    <3>3. queuesize \in S
      BY <1>3, <1>5 DEF Stops
    <3>4. S \subseteq Nat
      BY <1>3 DEF Stops
    <3> HIDE DEF S
    <3>5. Min(S) \in S /\ \A y \in S : Min(S) <= y
      BY <3>3, <3>4, MinIs
    <3>6. begin \in Stops(read) /\ begin > 0 /\ begin \in Places
      BY <3>1, <3>5 DEF S, Stops
    <3>7. begin \in 0 .. queuesize
      BY <1>3, <3>6
    <3>8. ASSUME NEW w \in Places, w < begin PROVE NbSeen(read, addIndex(last, w)) = 0
      <4>1. w \in 0 .. queuesize /\ w # queuesize
        BY <1>3, <3>7, <3>8
      <4>2. CASE w = 0
        BY <3>2, <4>2
      <4>3. CASE w > 0
        <5>1. w \notin S
          BY <3>1, <3>5, <3>7, <3>8, <4>1
        <5> QED BY <1>2, <4>1, <4>3, <5>1 DEF S, Stops
      <4> QED BY <4>1, <4>2, <4>3
    <3> QED BY <2>2, <3>6, <3>7, <3>8
  <2> QED BY <2>1, <2>2
<1>8. /\ b.elems = [c \in {addIndex(last, k) : k \in begin + 1 .. queuesize} |-> read[c]]
      /\ b.last = addIndex(last, begin)
      /\ b.queuesize = queuesize - begin
      /\ b.lastOfThread = Moved(last, Places, begin, lastOfThread)
  <2> HIDE DEF begin, read
  <2> QED BY <1>2, WithoutIs
<1>9. lastOfThread' = Moved(last, Places, begin, cur)
  <2> DEFINE out == {addIndex(last, y) : y \in {z \in Places : z < begin}}
  <2>1. /\ \A u \in Threads : b.lastOfThread[u] = IF lastOfThread[u] \in out
                                                  THEN addIndex(last, begin) ELSE lastOfThread[u]
        /\ DOMAIN b.lastOfThread = Threads
    <3> HIDE DEF b, begin
    <3> QED BY <1>8 DEF Moved
  <2>2. \A u \in Threads : cur[u] = IF u = t THEN addIndex(last, After(x)) ELSE lastOfThread[u]
    <3> HIDE DEF x
    <3> QED BY <1>2, <1>3
  <2>3. IF cur[t] \in out THEN addIndex(last, begin) = Cell(IF gone THEN begin ELSE After(x))
        ELSE cur[t] = Cell(IF gone THEN begin ELSE After(x))
    <3> HIDE DEF x, cur, begin, gone
    <3>1. CASE ~gone
      <4>1. out = {}
        <5>1. begin = 0 /\ \A z \in Places : ~(z < 0)
          BY <1>3, <1>7, <3>1
        <5> QED BY <5>1
      <4> QED BY <1>2, <2>2, <3>1, <4>1
    <3>2. CASE gone
      <4>1. x = 0 /\ 0 < begin
        BY <1>7, <3>2 DEF gone
      <4>2. After(x) \in Places /\ After(x) <= begin /\ After(x) \in 0 .. queuesize
        BY <1>2, <1>3, <1>5, <1>7, <4>1, WholeIs
      <4>3. CASE After(x) < begin
        BY <1>2, <2>2, <3>2, <4>2, <4>3
      <4>4. CASE After(x) = begin
        BY <1>2, <2>2, <3>2, <4>4
      <4>5. After(x) < begin \/ After(x) = begin
        BY <1>7, <4>2
      <4> QED BY <4>3, <4>4, <4>5
    <3> QED BY <3>1, <3>2
  <2> HIDE DEF b, cur, x, begin, gone
  <2>4. lastOfThread' = [u \in Threads |-> IF u = t THEN Cell(IF gone THEN begin ELSE After(x))
                                           ELSE b.lastOfThread[u]]
    BY <1>1, <2>1
  <2>5. \A u \in Threads : lastOfThread'[u] = IF cur[u] \in out THEN addIndex(last, begin)
                                              ELSE cur[u]
    BY <2>1, <2>2, <2>3, <2>4
  <2>6. lastOfThread' = [u \in Threads |-> IF cur[u] \in out THEN addIndex(last, begin)
                                              ELSE cur[u]]
    BY <2>4, <2>5
  <2> QED BY <2>6 DEF Moved
<1> HIDE DEF b, cur, x, begin, gone, read, S
<1>10. /\ Whole(elems', last', queuesize', lastOfThread')
       /\ \A k \in 1 .. queuesize' : Word(elems', last', k) = Word(read, last, begin + k)
       /\ \A k \in 0 .. maxsize - begin : addIndex(last', k) = addIndex(last, begin + k)
       /\ queuesize' = queuesize - begin /\ last' = addIndex(last, begin)
  <2>1. /\ elems' = [c \in {addIndex(last, k) : k \in begin + 1 .. queuesize} |-> read[c]]
        /\ last' = addIndex(last, begin)
        /\ queuesize' = queuesize - begin
        /\ lastOfThread' = Moved(last, Begins(read, last, queuesize), begin, cur)
        /\ begin \in Begins(read, last, queuesize)
    BY <1>1, <1>6, <1>7, <1>8, <1>9
  <2> QED BY <1>6, <2>1, RemoveKeeps
<1>11. \A u \in Threads : Distance(last', lastOfThread'[u])
                            = IF Passed(t, x, u) < begin THEN 0 ELSE Passed(t, x, u) - begin
  <2>1. /\ last' = addIndex(last, begin)
        /\ lastOfThread' = Moved(last, Begins(read, last, queuesize), begin, cur)
        /\ begin \in Begins(read, last, queuesize)
    BY <1>6, <1>7, <1>9, <1>10
  <2>2. \A u \in Threads : Distance(last', lastOfThread'[u])
          = IF Distance(last, cur[u]) < begin THEN 0 ELSE Distance(last, cur[u]) - begin
    BY <1>6, <2>1, MovedStands
  <2> QED BY <1>6, <2>2
<1>12. \A y \in Places : y < queuesize =>
          /\ y \in Nat /\ y + 3 <= queuesize
          /\ y # x => y + 2 # x + 2
          /\ y + 1 # x + 2 /\ y + 3 # x + 2
          /\ NbSeen(elems, addIndex(last, y)) = Word(elems, last, y + 2)
          /\ NbSeen(read, addIndex(last, y)) = Word(read, last, y + 2)
  <2> SUFFICES ASSUME NEW y \in Places, y < queuesize
               PROVE  /\ y \in Nat /\ y + 3 <= queuesize
                      /\ y # x => y + 2 # x + 2
                      /\ y + 1 # x + 2 /\ y + 3 # x + 2
                      /\ NbSeen(elems, addIndex(last, y)) = Word(elems, last, y + 2)
                      /\ NbSeen(read, addIndex(last, y)) = Word(read, last, y + 2)
    OBVIOUS
  <2>1. /\ Beyond(elems, last, y) \in Places /\ Beyond(elems, last, x) \in Places
        /\ y + headerSize <= Beyond(elems, last, y) /\ Beyond(elems, last, y) <= queuesize
        /\ x + headerSize <= Beyond(elems, last, x) /\ Beyond(elems, last, x) <= queuesize
        /\ NbSeen(elems, addIndex(last, y)) = Word(elems, last, y + 2)
        /\ y < x => Beyond(elems, last, y) <= x
        /\ x < y => Beyond(elems, last, x) <= y
    BY <1>2, <1>5, WholeIs
  <2>2. /\ NbSeen(read, addIndex(last, y)) = Word(read, last, y + 2)
    BY <1>6, WholeIs
  <2>3. /\ y \in 0 .. queuesize /\ Beyond(elems, last, y) \in 0 .. queuesize
        /\ Beyond(elems, last, x) \in 0 .. queuesize
    BY <1>3, <2>1
  <2> QED BY <1>3, <1>5, <2>1, <2>2, <2>3 DEF headerSize
<1>13. Still(elems, last, queuesize, begin, elems', last')
  <2> SUFFICES ASSUME NEW y \in Places, begin <= y, y < queuesize
               PROVE  /\ Word(elems', last', y - begin + 1) = Word(elems, last, y + 1)
                      /\ Word(elems', last', y - begin + 3) = Word(elems, last, y + 3)
    BY <1>2 DEF Still
  <2>1. y \in Nat /\ y + 3 <= queuesize /\ y + 1 # x + 2 /\ y + 3 # x + 2
    BY <1>12
  <2>2. /\ y - begin + 1 \in 1 .. queuesize' /\ begin + (y - begin + 1) = y + 1
        /\ y - begin + 3 \in 1 .. queuesize' /\ begin + (y - begin + 3) = y + 3
        /\ y + 1 \in 1 .. queuesize /\ y + 3 \in 1 .. queuesize
    BY <1>3, <1>7, <1>10, <2>1
  <2>3. Word(elems', last', y - begin + 1) = Word(read, last, y + 1)
        /\ Word(elems', last', y - begin + 3) = Word(read, last, y + 3)
    BY <1>10, <2>2
  <2> QED BY <1>6, <2>1, <2>2, <2>3
<1>14. OldestWanted'
  <2> SUFFICES ASSUME queuesize' > 0 PROVE NbSeen(elems', last') > 0
    BY DEF OldestWanted
  <2>1. begin < queuesize /\ begin \in Nat
    BY <1>3, <1>7, <1>10
  <2>2. begin + 3 <= queuesize /\ NbSeen(read, addIndex(last, begin)) = Word(read, last, begin + 2)
        /\ NbSeen(elems, addIndex(last, begin)) = Word(elems, last, begin + 2)
        /\ (begin # x => begin + 2 # x + 2)
    BY <1>7, <1>12, <2>1
  <2>3. 2 \in 1 .. queuesize' /\ begin + 2 \in 1 .. queuesize
    BY <1>3, <1>10, <2>1, <2>2
  <2>4. NbSeen(elems', last') = Word(read, last, begin + 2)
    <3>1. NbSeen(elems', last') = Word(elems', last', 2)
      BY DEF NbSeen, Word
    <3> QED BY <1>10, <2>3, <3>1
  <2>5. Word(read, last, begin + 2) \in Nat
    BY <1>6, <2>3, WholeTyped
  <2>6. Word(read, last, begin + 2) # 0
    <3>1. CASE gone
      <4>1. begin \in Stops(read) /\ begin # queuesize
        BY <1>3, <1>7, <2>1, <3>1
      <4> QED BY <1>2, <2>2, <4>1 DEF Stops
    <3>2. CASE ~gone /\ x = 0
      BY <1>2, <1>7, <2>2, <3>2 DEF gone
    <3>3. CASE ~gone /\ x # 0
      <4>1. begin = 0 /\ begin # x
        BY <1>7, <3>3
      <4>2. Word(read, last, begin + 2) = NbSeen(elems, addIndex(last, begin))
        BY <1>6, <2>2, <2>3, <4>1
      <4>3. addIndex(last, begin) = last
        BY <1>3, <4>1
      <4> QED BY <1>2, <1>5, <2>5, <4>2, <4>3 DEF OldestWanted
    <3> QED BY <3>1, <3>2, <3>3
  <2> QED BY <2>4, <2>5, <2>6
<1>15. first' = nextIndex(addIndex(last', queuesize'))
  <2>1. queuesize' \in 0 .. maxsize - begin /\ begin + queuesize' = queuesize
    BY <1>3, <1>7, <1>10
  <2>2. addIndex(last', queuesize') = addIndex(last, queuesize)
    BY <1>10, <2>1
  <2> QED BY <1>1, <1>2, <2>2
<1>16. TypeOK'
  <2>1. /\ DOMAIN elems' \subseteq Cells /\ \A c \in DOMAIN elems' : elems'[c] \in 0 .. Literal
        /\ last' \in Cells /\ queuesize' \in 0 .. maxsize - 1
        /\ lastOfThread' \in [Threads -> Cells]
    BY <1>10, WholeTyped
  <2>2. Size(elems, Cell(x)) \in Sizes
    BY <1>2, <1>5, WholeIs
  <2> QED BY <1>1, <1>2, <2>1, <2>2 DEF TypeOK
<1>17. RingInv'
  BY <1>10, <1>14, <1>15, <1>16 DEF RingInv
<1>18. ASSUME NEW u \in Threads, NEW w \in Places, Passed(t, x, u) <= w, w < begin
       PROVE  Origin(elems, addIndex(last, w)) = u
  <2>1. w \in 0 .. queuesize /\ w < queuesize
    BY <1>3, <1>7, <1>18
  <2>2. NbThreads > 1
    <3> SUFFICES ASSUME ~(NbThreads > 1) PROVE FALSE
      OBVIOUS
    <3>1. Threads = {0}
      BY ThreadsAssumption DEF Threads
    <3>2. Origin(elems, addIndex(last, x)) \in Threads /\ Origin(elems, addIndex(last, x)) # t
      BY <1>2, <1>4, <1>5, WholeIs DEF Finds
    <3> QED BY <3>1, <3>2
  <2>3. Cardinality(Readers(read, last, cur, w)) = 0
    <3>1. NbSeen(read, addIndex(last, w)) = Cardinality(Readers(read, last, cur, w))
      BY <1>6, <2>1, <2>2, WholeIs DEF Counted
    <3> QED BY <1>7, <1>18, <3>1
  <2>4. Readers(read, last, cur, w) = {}
    <3>1. IsFiniteSet(Readers(read, last, cur, w))
      BY ThreadsFinite DEF Readers
    <3> QED BY <2>3, <3>1, FS_EmptySet
  <2>5. u = Origin(read, addIndex(last, w))
    BY <1>6, <1>18, <2>4 DEF Readers
  <2>6. Origin(read, addIndex(last, w)) = Word(read, last, w + 3)
        /\ Origin(elems, addIndex(last, w)) = Word(elems, last, w + 3)
    BY <1>2, <1>6, <2>1, WholeIs
  <2>7. w + 3 \in 1 .. queuesize /\ w + 3 # x + 2
    BY <1>12, <2>1
  <2> QED BY <1>6, <2>5, <2>6, <2>7
<1> DEFINE Read(u, v) ==
      /\ Finds(elems, last, queuesize, lastOfThread, t, u)
      /\ answer' = [thread |-> t, clause |-> Size(elems, addIndex(last, u))]
      /\ last' = addIndex(last, v) /\ queuesize' = queuesize - v
      /\ Still(elems, last, queuesize, v, elems', last')
      /\ \A k \in Threads :
           /\ Distance(last', lastOfThread'[k])
                = IF Passed(t, u, k) < v THEN 0 ELSE Passed(t, u, k) - v
           /\ \A w \in Places : Passed(t, u, k) <= w /\ w < v =>
                Origin(elems, addIndex(last, w)) = k
<1>19. Read(x, begin)
  BY <1>1, <1>2, <1>4, <1>10, <1>11, <1>13, <1>18
<1> HIDE DEF Read
<1>20. \E u, v \in Places : Read(u, v)
  BY <1>5, <1>7, <1>19
<1> QED BY <1>17, <1>20 DEF Read

LEMMA GetNothingKeeps ==
  ASSUME RingInv, NEW t \in Threads, GetNothing(t)
  PROVE  /\ RingInv'
         /\ \A u \in Threads : PlaceOf(lastOfThread[u])'
                                 = IF u = t THEN queuesize ELSE PlaceOf(lastOfThread[u])
<1>1. /\ NextForeign(t) = queuesize
      /\ lastOfThread' = [lastOfThread EXCEPT ![t] = Cell(queuesize)]
      /\ elems' = elems /\ first' = first /\ last' = last /\ queuesize' = queuesize
      /\ whenFullRemoveOlder' = whenFullRemoveOlder /\ answer' = Nothing
  BY DEF GetNothing
<1>2. /\ Whole(elems, last, queuesize, lastOfThread)
      /\ Places = Begins(elems, last, queuesize)
      /\ \A y : Cell(y) = addIndex(last, y)
      /\ \A i : PlaceOf(i) = Distance(last, i)
  BY RingIs
<1>3. /\ maxsize \in Nat \ {0} /\ queuesize \in 0 .. maxsize - 1 /\ last \in Cells
      /\ Places \subseteq 0 .. queuesize /\ queuesize \in Places
      /\ lastOfThread \in [Threads -> Cells]
      /\ \A u \in Threads : Distance(last, lastOfThread[u]) \in Places
  BY <1>2, WholeIs
<1>4. \A y \in Places : Distance(last, lastOfThread[t]) <= y /\ y < queuesize
                          => Origin(elems, addIndex(last, y)) = t
  BY <1>1, <1>2, NextIsFound
<1>5. /\ lastOfThread' \in [Threads -> Cells]
      /\ \A u \in Threads : Distance(last, lastOfThread'[u])
                              = IF u = t THEN queuesize ELSE Distance(last, lastOfThread[u])
  <2>1. queuesize \in 0 .. maxsize /\ queuesize \in 0 .. maxsize - 1 /\ last \in Cells
    BY <1>3
  <2>2. addIndex(last, queuesize) \in Cells /\ Distance(last, addIndex(last, queuesize)) = queuesize
    BY <2>1, Around
  <2> QED BY <1>1, <1>2, <1>3, <2>2
<1>6. Standing(elems, last, queuesize, lastOfThread')
  BY <1>2, <1>3, <1>5 DEF Standing
<1>7. Counted(elems, last, queuesize, lastOfThread')
  <2> SUFFICES ASSUME NEW y \in Places, y < queuesize
               PROVE  Readers(elems, last, lastOfThread', y) = Readers(elems, last, lastOfThread, y)
    BY <1>2, WholeIs DEF Counted
  <2>1. y \in 0 .. queuesize /\ Distance(last, lastOfThread[t]) \in 0 .. queuesize
    BY <1>3
  <2>2. ~(queuesize <= y)
    BY <1>3, <2>1
  <2>3. t # Origin(elems, addIndex(last, y)) => ~(Distance(last, lastOfThread[t]) <= y)
    BY <1>4
  <2> QED BY <1>5, <2>2, <2>3 DEF Readers
<1>8. Whole(elems, last, queuesize, lastOfThread)'
  BY <1>1, <1>2, <1>6, <1>7 DEF Whole
<1>9. TypeOK'
  BY <1>1, <1>5 DEF RingInv, TypeOK
<1>10. OldestWanted'
  BY <1>1 DEF RingInv, OldestWanted
<1>11. RingInv'
  BY <1>1, <1>8, <1>9, <1>10 DEF RingInv
<1> QED BY <1>1, <1>5, <1>11 DEF PlaceOf

LEMMA StepKeeps == RingInv /\ [Next]_vars => RingInv'
<1> SUFFICES ASSUME RingInv, [Next]_vars PROVE RingInv'
  OBVIOUS
<1>1. CASE \E s \in Sizes : Refuse(s)
  BY <1>1, RefuseKeeps
<1>2. CASE \E t \in Threads, s \in Sizes : Push(t, s)
  BY <1>2, PushKeeps
<1>3. CASE \E t \in Threads : Get(t)
  BY <1>3, GetKeeps
<1>4. CASE \E t \in Threads : GetNothing(t)
  BY <1>4, GetNothingKeeps
<1>5. CASE UNCHANGED vars
  BY <1>5 DEF vars, RingInv, TypeOK, OldestWanted
<1> QED BY <1>1, <1>2, <1>3, <1>4, <1>5 DEF Next

\* The invariant of the ring: whole clauses from last to first, each thread's cursor
\* before one of them or at the end, and the counts right (setNbThreads, pushClause,
\* removeLastClause, getClause).
THEOREM RingHolds == Spec => []RingInv
<1>1. Init => RingInv
  BY InitKeeps
<1>2. RingInv /\ [Next]_vars => RingInv'
  BY StepKeeps
<1> QED BY <1>1, <1>2, PTL DEF Spec

\* Between two places of the ring lies a clause.
LEMMA InAClause ==
  ASSUME RingInv, NEW k \in 1 .. queuesize
  PROVE  \E x \in Starts : k \in x + 1 .. After(x)
<1>1. /\ Whole(elems, last, queuesize, lastOfThread)
      /\ Places = Begins(elems, last, queuesize)
      /\ \A y : After(y) = Beyond(elems, last, y)
  BY RingIs
<1>2. /\ queuesize \in Nat /\ Places \subseteq 0 .. queuesize /\ 0 \in Places
      /\ \A x \in Places : x < queuesize => /\ After(x) \in Places
                                            /\ x + headerSize <= After(x)
                                            /\ After(x) <= queuesize
  BY <1>1, WholeIs
<1>s. ASSUME NEW x \in Starts
      PROVE  /\ x \in Places /\ x \in 0 .. queuesize /\ x < queuesize
             /\ After(x) \in Places /\ After(x) \in 0 .. queuesize
             /\ x + 3 <= After(x)
  <2>1. x \in Places /\ x \in 0 .. queuesize /\ x < queuesize
    BY <1>2 DEF Starts
  <2>2. After(x) \in Places /\ x + headerSize <= After(x)
    BY <1>2, <2>1
  <2>3. After(x) \in 0 .. queuesize
    BY <1>2, <2>2
  <2> QED BY <2>1, <2>2, <2>3 DEF headerSize
<1> DEFINE P == {i \in 0 .. queuesize : i > 0 => \E x \in Starts : x < i /\ i <= After(x)}
<1>3. 0 \in P
  BY <1>2
<1>4. ASSUME NEW i \in 0 .. queuesize - 1, i \in P PROVE i + 1 \in P
  <2>1. CASE i = 0
    <3>1. 0 \in Starts
      BY <1>2, <2>1 DEF Starts
    <3>2. After(0) \in 0 .. queuesize /\ 0 + 3 <= After(0)
      BY <1>s, <3>1
    <3>3. 0 < i + 1 /\ i + 1 <= After(0)
      BY <2>1, <3>2
    <3> QED BY <1>2, <3>1, <3>3
  <2>2. CASE i # 0
    <3>1. PICK x \in Starts : x < i /\ i <= After(x)
      BY <1>4, <2>2
    <3>2. x \in Places /\ x \in 0 .. queuesize /\ x < queuesize
      BY <1>s, <3>1
    <3>3. After(x) \in Places /\ After(x) \in 0 .. queuesize
      BY <1>s, <3>1
    <3>4. CASE i < After(x)
      BY <1>2, <3>1, <3>2, <3>3, <3>4
    <3>5. CASE i = After(x)
      <4>0. i \in Starts
        BY <1>2, <3>3, <3>5 DEF Starts
      <4>1. After(i) \in 0 .. queuesize /\ i + 3 <= After(i)
        BY <1>s, <4>0
      <4>2. i < i + 1 /\ i + 1 <= After(i)
        BY <4>1
      <4> QED BY <1>2, <4>0, <4>2
    <3> QED BY <3>1, <3>3, <3>4, <3>5
  <2> QED BY <2>1, <2>2
<1>5. \A i \in 0 .. queuesize : i \in P
  <2> HIDE DEF P
  <2> QED BY <1>2, <1>3, <1>4, UpInduction
<1>6. PICK x \in Starts : x < k /\ k <= After(x)
  BY <1>2, <1>5
<1>7. x \in 0 .. queuesize /\ After(x) \in 0 .. queuesize
  BY <1>s, <1>6
<1> QED BY <1>6, <1>7

LEMMA InvIsConsistent == RingInv => RingConsistent
<1> SUFFICES ASSUME RingInv PROVE RingConsistent
  OBVIOUS
<1>1. /\ Whole(elems, last, queuesize, lastOfThread)
      /\ Places = Begins(elems, last, queuesize)
      /\ \A y : Cell(y) = addIndex(last, y) /\ After(y) = Beyond(elems, last, y)
      /\ \A t \in Threads : PlaceOf(lastOfThread[t]) \in Places /\ ~Behind(lastOfThread[t])
      /\ TypeOK /\ first = nextIndex(addIndex(last, queuesize))
  BY RingIs DEF RingInv
<1>2. /\ maxsize \in Nat \ {0} /\ queuesize \in 0 .. maxsize - 1 /\ last \in Cells
      /\ Places \subseteq 0 .. queuesize
      /\ \A x \in Places : x < queuesize => After(x) <= queuesize /\ After(x) \in Places
      /\ DOMAIN elems = {addIndex(last, k) : k \in 1 .. queuesize}
  BY <1>1, WholeIs DEF Whole
<1>3. DOMAIN elems = UNION {{Cell(k) : k \in x + 1 .. After(x)} : x \in Starts}
  <2>1. ASSUME NEW k \in 1 .. queuesize
        PROVE  \E x \in Starts : Cell(k) \in {Cell(n) : n \in x + 1 .. After(x)}
    <3>1. PICK x \in Starts : k \in x + 1 .. After(x)
      BY InAClause
    <3> QED BY <3>1
  <2>2. ASSUME NEW x \in Starts, NEW k \in x + 1 .. After(x) PROVE k \in 1 .. queuesize
    <3>1. x \in 0 .. queuesize /\ x \in Places /\ x < queuesize
      BY <1>2 DEF Starts
    <3>2. After(x) \in Places
      BY <1>2, <3>1
    <3>3. queuesize \in Nat /\ Places \subseteq 0 .. queuesize
      BY <1>2
    <3>4. After(x) \in 0 .. queuesize
      BY <3>2, <3>3
    <3> QED BY <3>1, <3>3, <3>4
  <2>3. DOMAIN elems = {Cell(k) : k \in 1 .. queuesize}
    BY <1>1, <1>2
  <2> HIDE <1>1, <1>2
  <2> QED BY <2>1, <2>2, <2>3
<1>4. queuesize = Cardinality(DOMAIN elems)
  <2> DEFINE f == [k \in 1 .. queuesize |-> addIndex(last, k)]
  <2>1. \A j, k \in 1 .. queuesize : addIndex(last, j) = addIndex(last, k) => j = k
    <3>1. \A k \in 1 .. queuesize : k \in 0 .. maxsize - 1
      BY <1>2
    <3> QED BY <1>2, <3>1, Around
  <2>2. f \in Bijection(1 .. queuesize, DOMAIN elems)
    BY <1>2, <2>1, Fun_IsBij
  <2>3. ExistsBijection(1 .. queuesize, DOMAIN elems)
    BY <2>2 DEF ExistsBijection
  <2> QED BY <1>2, <2>3, FS_CountingElements
<1> QED BY <1>1, <1>3, <1>4 DEF RingConsistent

\* The clauses fill the ring from its oldest cell to the first free one, and no thread's
\* cursor is ever behind: the branch of getClause that says so is never taken.
THEOREM RingIsConsistent == Spec => []RingConsistent
BY RingHolds, InvIsConsistent, PTL

\* A clause's count is the number of the other threads that have not read it, if
\* there are any (getClause, removeLastClause).
THEOREM ReadersCounted == NbThreads > 1 => (Spec => []CountsReaders)
<1> SUFFICES ASSUME NbThreads > 1 PROVE Spec => []CountsReaders
  OBVIOUS
<1>1. ASSUME RingInv PROVE CountsReaders
  <2>1. /\ Whole(elems, last, queuesize, lastOfThread)
        /\ Places = Begins(elems, last, queuesize)
        /\ \A y : Cell(y) = addIndex(last, y)
        /\ \A i : PlaceOf(i) = Distance(last, i)
    BY <1>1, RingIs
  <2>2. Counted(elems, last, queuesize, lastOfThread) /\ queuesize \in Nat
        /\ Places \subseteq 0 .. queuesize
    BY <2>1, WholeIs
  <2>3. \A x \in Starts : x \in Places /\ x < queuesize
    BY <2>2 DEF Starts
  <2> QED BY <2>1, <2>2, <2>3 DEF CountsReaders, Counted, Readers, Ahead
<1>2. RingInv => CountsReaders
  BY <1>1
<1> QED BY <1>2, RingHolds, PTL

\* The oldest clause is always one that somebody has still to read: removeLastClause
\* goes on until it is.
THEOREM OldestIsWanted == Spec => []OldestWanted
<1>1. RingInv => OldestWanted
  BY DEF RingInv
<1> QED BY <1>1, RingHolds, PTL

-----------------------------------------------------------------------------
\* What a thread gets of the clause at place x, and of all from there on.
Own(e, l, t, x) == IF Origin(e, addIndex(l, x)) = t THEN <<>> ELSE <<Size(e, addIndex(l, x))>>

Reads(f, e, l, q, t) ==
  f = [x \in Begins(e, l, q) |->
        IF x = q THEN <<>>
        ELSE LET i == addIndex(l, x) IN
               (IF Origin(e, i) = t THEN <<>> ELSE <<Size(e, i)>>)
                 \o f[x + Size(e, i) + headerSize]]

LEMMA ReadsExists ==
  ASSUME NEW e, NEW l, NEW q \in Nat, LaidOut(e, l, q), NEW t
  PROVE  \E f : Reads(f, e, l, q, t)
<1> DEFINE D == Begins(e, l, q)
           n == q + 1
           S == Seq(Sizes)
           next(k) == Beyond(e, l, k - 1) + 1
           step == [k \in 1 .. n |-> [f \in [1 .. n -> S] |->
                      IF k - 1 \notin D \/ k - 1 = q THEN <<>>
                      ELSE Own(e, l, t, k - 1) \o f[next(k)]]]
<1>1. /\ D \subseteq 0 .. q
      /\ \A x \in D : x < q => /\ Beyond(e, l, x) \in D
                               /\ x + headerSize <= Beyond(e, l, x) /\ Beyond(e, l, x) <= q
                               /\ Size(e, addIndex(l, x)) \in Sizes
  BY LaidOutPlaces DEF LaidOut
<1>2. ASSUME NEW k \in 1 .. n, k - 1 \in D, k - 1 # q
      PROVE  /\ next(k) \in k + 1 .. n /\ Own(e, l, t, k - 1) \in S
             /\ next(k) = Beyond(e, l, k - 1) + 1 /\ Beyond(e, l, k - 1) \in D
  <2>1. k - 1 \in 0 .. q /\ k - 1 < q
    BY <1>1, <1>2
  <2>2. /\ Beyond(e, l, k - 1) \in D
        /\ (k - 1) + headerSize <= Beyond(e, l, k - 1)
        /\ Size(e, addIndex(l, k - 1)) \in Sizes
    BY <1>1, <1>2, <2>1
  <2>3. Beyond(e, l, k - 1) \in 0 .. q
    BY <1>1, <2>2
  <2> QED BY <2>1, <2>2, <2>3 DEF Own, headerSize
<1> HIDE DEF D, next
<1>3. LooksAhead(n, S, step)
  <2>1. step \in [1 .. n -> [[1 .. n -> S] -> S]]
    <3>1. ASSUME NEW k \in 1 .. n, NEW f \in [1 .. n -> S]
          PROVE  (IF k - 1 \notin D \/ k - 1 = q THEN <<>>
                  ELSE Own(e, l, t, k - 1) \o f[next(k)]) \in S
      <4>1. CASE k - 1 \notin D \/ k - 1 = q
        BY <4>1
      <4>2. CASE ~(k - 1 \notin D \/ k - 1 = q)
        <5>1. Own(e, l, t, k - 1) \in S /\ next(k) \in 1 .. n
          BY <1>2, <4>2
        <5>2. f[next(k)] \in S
          BY <5>1
        <5>3. Own(e, l, t, k - 1) \o f[next(k)] \in S
          BY <5>1, <5>2, ConcatProperties
        <5> QED BY <4>2, <5>3
      <4> QED BY <4>1, <4>2
    <3> QED BY <3>1
  <2>2. ASSUME NEW k \in 1 .. n, NEW f \in [1 .. n -> S], NEW g \in [1 .. n -> S],
               \A m \in k + 1 .. n : f[m] = g[m]
        PROVE  step[k][f] = step[k][g]
    <3>1. CASE k - 1 \notin D \/ k - 1 = q
      BY <3>1
    <3>2. CASE ~(k - 1 \notin D \/ k - 1 = q)
      <4>1. f[next(k)] = g[next(k)]
        BY <1>2, <2>2, <3>2
      <4> QED BY <4>1
    <3> QED BY <3>1, <3>2
  <2> HIDE DEF step, S, n
  <2> QED BY <2>1, <2>2 DEF LooksAhead
<1>4. PICK g \in [1 .. n -> S] : \A k \in 1 .. n : g[k] = step[k][g]
  <2>1. n \in Nat /\ <<>> \in S
    OBVIOUS
  <2> HIDE DEF step, S, n
  <2> QED BY <1>3, <2>1, LaterRecursion
<1> DEFINE f == [x \in D |-> g[x + 1]]
<1>5. ASSUME NEW x \in D
      PROVE  f[x] = IF x = q THEN <<>> ELSE Own(e, l, t, x) \o f[Beyond(e, l, x)]
  <2>1. x + 1 \in 1 .. n /\ (x + 1) - 1 = x
    BY <1>1
  <2>2. f[x] = IF x \notin D \/ x = q THEN <<>> ELSE Own(e, l, t, x) \o g[next(x + 1)]
    BY <1>4, <2>1
  <2>3. CASE x = q
    BY <2>2, <2>3
  <2>4. CASE x # q
    <3>1. next(x + 1) = Beyond(e, l, x) + 1 /\ Beyond(e, l, x) \in D
      BY <1>2, <2>1, <2>4
    <3> QED BY <2>2, <2>4, <3>1
  <2> QED BY <2>3, <2>4
<1>6. Reads(f, e, l, q, t)
  <2>1. \A x : Beyond(e, l, x) = x + Size(e, addIndex(l, x)) + headerSize
               /\ Own(e, l, t, x) = IF Origin(e, addIndex(l, x)) = t THEN <<>>
                                    ELSE <<Size(e, addIndex(l, x))>>
    BY DEF Beyond, Own
  <2>2. f = [x \in D |-> f[x]]
    OBVIOUS
  <2> HIDE DEF f
  <2>3. \A x \in D : f[x] = IF x = q THEN <<>>
          ELSE (IF Origin(e, addIndex(l, x)) = t THEN <<>> ELSE <<Size(e, addIndex(l, x))>>)
                 \o f[x + Size(e, addIndex(l, x)) + headerSize]
    BY <1>5, <2>1
  <2> QED BY <2>2, <2>3 DEF Reads, D
<1> QED BY <1>6

\* What is unread from each place on.
Lists(F, e, l, q, t) ==
  /\ F[q] = <<>>
  /\ \A x \in Begins(e, l, q) : x < q => /\ F[x] = Own(e, l, t, x) \o F[Beyond(e, l, x)]
                                         /\ Own(e, l, t, x) \in Seq(Sizes)
  /\ \A x \in Begins(e, l, q) : F[x] \in Seq(Sizes)

LEMMA UnreadIs ==
  ASSUME NEW e, NEW l, NEW q \in Nat, LaidOut(e, l, q), NEW t,
         NEW F, F = UnreadFrom(e, l, q, t)
  PROVE  Lists(F, e, l, q, t)
<1> DEFINE D == Begins(e, l, q)
<1>1. Reads(F, e, l, q, t)
  <2>1. F = CHOOSE f : Reads(f, e, l, q, t)
    BY DEF UnreadFrom, Reads
  <2> QED BY <2>1, ReadsExists
<1>2. /\ D \subseteq 0 .. q /\ q \in D
      /\ \A x \in D : x < q => /\ Beyond(e, l, x) \in D
                               /\ x + headerSize <= Beyond(e, l, x) /\ Beyond(e, l, x) <= q
                               /\ Size(e, addIndex(l, x)) \in Sizes
  BY LaidOutPlaces DEF LaidOut
<1>3. \A x \in D : F[x] = IF x = q THEN <<>> ELSE Own(e, l, t, x) \o F[Beyond(e, l, x)]
  BY <1>1 DEF Reads, Own, Beyond
<1> HIDE DEF D
<1>4. ASSUME NEW x \in D, x < q
      PROVE  /\ F[x] = Own(e, l, t, x) \o F[Beyond(e, l, x)] /\ Own(e, l, t, x) \in Seq(Sizes)
             /\ Beyond(e, l, x) \in D /\ Beyond(e, l, x) \in 0 .. q /\ x + 3 <= Beyond(e, l, x)
  <2>1. x # q
    BY <1>4
  <2>2. /\ Beyond(e, l, x) \in D /\ x + headerSize <= Beyond(e, l, x)
        /\ Size(e, addIndex(l, x)) \in Sizes
    BY <1>2, <1>4
  <2>3. Beyond(e, l, x) \in 0 .. q
    BY <1>2, <2>2
  <2>4. F[x] = Own(e, l, t, x) \o F[Beyond(e, l, x)]
    BY <1>3, <2>1
  <2> QED BY <2>2, <2>3, <2>4 DEF headerSize, Own
<1> DEFINE P == {i \in 0 .. q : \A x \in D : i <= x => F[x] \in Seq(Sizes)}
<1>5. q \in P
  <2>1. \A x \in D : q <= x => x = q
    BY <1>2
  <2>2. F[q] = <<>> /\ q \in 0 .. q
    BY <1>2, <1>3
  <2>3. <<>> \in Seq(Sizes)
    OBVIOUS
  <2> QED BY <2>1, <2>2, <2>3
<1>6. ASSUME NEW i \in 0 .. q - 1, i + 1 \in P PROVE i \in P
  <2> SUFFICES ASSUME NEW x \in D, x = i PROVE F[x] \in Seq(Sizes)
    BY <1>2, <1>6
  <2>1. x < q
    OBVIOUS
  <2>2. Beyond(e, l, x) \in D /\ i + 1 <= Beyond(e, l, x)
    BY <1>4, <2>1
  <2>3. F[Beyond(e, l, x)] \in Seq(Sizes)
    BY <1>6, <2>2
  <2>4. F[x] = Own(e, l, t, x) \o F[Beyond(e, l, x)] /\ Own(e, l, t, x) \in Seq(Sizes)
    BY <1>4, <2>1
  <2>5. Own(e, l, t, x) \o F[Beyond(e, l, x)] \in Seq(Sizes)
    BY <2>3, <2>4, ConcatProperties
  <2> QED BY <2>4, <2>5
<1>7. \A i \in 0 .. q : i \in P
  <2> HIDE DEF P
  <2> QED BY <1>5, <1>6, DownInduction
<1>8. \A x \in D : F[x] \in Seq(Sizes)
  BY <1>2, <1>7
<1> QED BY <1>2, <1>3, <1>4, <1>8 DEF Lists, D

\* Sequences of sizes.
LEMMA Concats ==
  /\ \A a, b \in Seq(Sizes) : a \o b \in Seq(Sizes)
  /\ \A a, b, c \in Seq(Sizes) : (a \o b) \o c = a \o (b \o c)
  /\ \A a \in Seq(Sizes) : a \o <<>> = a /\ <<>> \o a = a
  /\ \A a \in Seq(Sizes), s \in Sizes : Append(a, s) = a \o <<s>>
  /\ \A a \in Seq(Sizes), s \in Sizes : /\ <<s>> \o a # <<>>
                                       /\ Head(<<s>> \o a) = s /\ Tail(<<s>> \o a) = a
  /\ \A a, b \in Seq(Sizes) :
       /\ Len(a) \in 0 .. Len(a \o b)
       /\ SubSeq(a \o b, Len(a) + 1, Len(a \o b)) = b
<1>1. \A a, b \in Seq(Sizes) : a \o b \in Seq(Sizes)
  BY ConcatProperties
<1>2. ASSUME NEW a \in Seq(Sizes), NEW b \in Seq(Sizes), NEW c \in Seq(Sizes)
      PROVE  (a \o b) \o c = a \o (b \o c)
  BY ConcatAssociative, SMTT(30)
<1>3. \A a \in Seq(Sizes) : a \o <<>> = a /\ <<>> \o a = a
  BY ConcatEmptySeq
<1>4. \A a \in Seq(Sizes), s \in Sizes : Append(a, s) = a \o <<s>>
  BY AppendIsConcat
<1>5. ASSUME NEW a \in Seq(Sizes), NEW s \in Sizes
      PROVE  <<s>> \o a # <<>> /\ Head(<<s>> \o a) = s /\ Tail(<<s>> \o a) = a
  <2>1. <<s>> \in Seq(Sizes) /\ Len(<<s>>) = 1 /\ <<s>>[1] = s
    OBVIOUS
  <2> DEFINE c == <<s>> \o a
  <2>2. /\ c \in Seq(Sizes) /\ Len(c) = Len(a) + 1 /\ Len(a) \in Nat
        /\ c[1] = s /\ \A i \in 1 .. Len(a) : c[i + 1] = a[i]
    <3>1. /\ c \in Seq(Sizes) /\ Len(c) = Len(<<s>>) + Len(a)
          /\ \A i \in 1 .. Len(<<s>>) + Len(a) :
               c[i] = IF i <= Len(<<s>>) THEN <<s>>[i] ELSE a[i - Len(<<s>>)]
      BY <2>1, ConcatProperties
    <3>2. Len(a) \in Nat
      BY LenProperties
    <3> HIDE DEF c
    <3> QED BY <2>1, <3>1, <3>2
  <2> HIDE DEF c
  <2>3. c # <<>>
    BY <2>2
  <2>4. /\ Head(c) = c[1] /\ Tail(c) \in Seq(Sizes) /\ Len(Tail(c)) = Len(c) - 1
        /\ \A i \in 1 .. Len(Tail(c)) : Tail(c)[i] = c[i + 1]
    BY <2>2, <2>3, HeadTailProperties DEF Head
  <2>5. Tail(c) = a
    <3>1. Len(Tail(c)) = Len(a) /\ \A i \in 1 .. Len(Tail(c)) : Tail(c)[i] = a[i]
      BY <2>2, <2>4
    <3> QED BY <2>4, <3>1, SeqEqual
  <2> QED BY <2>2, <2>3, <2>4, <2>5 DEF c
<1>6. ASSUME NEW a \in Seq(Sizes), NEW b \in Seq(Sizes)
      PROVE  /\ Len(a) \in 0 .. Len(a \o b)
             /\ SubSeq(a \o b, Len(a) + 1, Len(a \o b)) = b
  <2> DEFINE c == a \o b
             d == SubSeq(c, Len(a) + 1, Len(c))
  <2>1. Len(a) \in Nat /\ Len(b) \in Nat /\ \A i \in 1 .. Len(b) : b[i] \in Sizes
    BY LenProperties, ElementOfSeq
  <2>2. /\ c \in Seq(Sizes) /\ Len(c) = Len(a) + Len(b)
        /\ \A i \in 1 .. Len(a) + Len(b) : c[i] = IF i <= Len(a) THEN a[i] ELSE b[i - Len(a)]
    BY ConcatProperties
  <2> HIDE DEF c
  <2>3. \A i \in 1 .. Len(b) : Len(a) + i \in 1 .. Len(a) + Len(b) /\ ~(Len(a) + i <= Len(a))
                             /\ (Len(a) + i) - Len(a) = i
    BY <2>1
  <2>4. \A i \in 1 .. Len(b) : c[Len(a) + i] = b[i]
    BY <2>2, <2>3
  <2>5. \A i \in Len(a) + 1 .. Len(c) : c[i] \in Sizes
    <3>1. \A i \in Len(a) + 1 .. Len(c) : i \in 1 .. Len(c)
      BY <2>1, <2>2
    <3> QED BY <2>2, <3>1, ElementOfSeq
  <2>6. /\ d \in Seq(Sizes)
        /\ Len(d) = IF Len(a) + 1 <= Len(c) THEN Len(c) - (Len(a) + 1) + 1 ELSE 0
        /\ \A i \in 1 .. Len(c) - (Len(a) + 1) + 1 : d[i] = c[Len(a) + 1 + i - 1]
    <3>1. Len(a) + 1 \in Int /\ Len(c) \in Int
      BY <2>1, <2>2
    <3> QED BY <2>5, <3>1, SubSeqProperties
  <2> HIDE DEF d
  <2>7. Len(d) = Len(b) /\ \A i \in 1 .. Len(b) : d[i] = c[Len(a) + i]
    <3>1. Len(c) - (Len(a) + 1) + 1 = Len(b)
      BY <2>1, <2>2
    <3>2. \A i \in 1 .. Len(b) : Len(a) + 1 + i - 1 = Len(a) + i
      BY <2>1
    <3>3. Len(d) = Len(b)
      BY <2>1, <2>2, <2>6
    <3> QED BY <2>6, <3>1, <3>2, <3>3
  <2>8. d = b
    BY <2>4, <2>6, <2>7, SeqEqual
  <2> QED BY <2>1, <2>2, <2>8 DEF c, d
<1> QED BY <1>1, <1>2, <1>3, <1>4, <1>5, <1>6

\* Passing over its own clauses a thread misses nothing.
LEMMA UnreadSkips ==
  ASSUME NEW e, NEW l, NEW q \in Nat, LaidOut(e, l, q), NEW t,
         NEW F, Lists(F, e, l, q, t),
         NEW x \in Begins(e, l, q), NEW y \in Begins(e, l, q), x <= y,
         \A w \in Begins(e, l, q) : x <= w /\ w < y => Origin(e, addIndex(l, w)) = t
  PROVE  F[x] = F[y]
<1> DEFINE D == Begins(e, l, q)
           P == {i \in 0 .. y : \A w \in D : i <= w /\ x <= w /\ w <= y => F[w] = F[y]}
<1>1. /\ D \subseteq 0 .. q /\ x \in D /\ y \in D
      /\ \A w \in D : w < q => /\ Beyond(e, l, w) \in D
                               /\ w + headerSize <= Beyond(e, l, w) /\ Beyond(e, l, w) <= q
      /\ \A w \in D : w < y => Beyond(e, l, w) <= y
  BY LaidOutPlaces
<1>2. /\ \A w \in D : w < q => F[w] = Own(e, l, t, w) \o F[Beyond(e, l, w)]
      /\ \A w \in D : F[w] \in Seq(Sizes)
  BY DEF Lists
<1>3. \A w \in D : x <= w /\ w < y => Own(e, l, t, w) = <<>>
  BY DEF Own
<1> HIDE DEF D
<1>4. y \in P
  <2>1. y \in 0 .. q /\ \A w \in D : w \in 0 .. q
    BY <1>1
  <2> QED BY <2>1
<1>5. ASSUME NEW i \in 0 .. y - 1, i + 1 \in P PROVE i \in P
  <2>1. y \in 0 .. q /\ \A w \in D : w \in 0 .. q
    BY <1>1
  <2> SUFFICES ASSUME NEW w \in D, w = i, x <= w PROVE F[w] = F[y]
    BY <1>5, <2>1
  <2>2. w < y /\ w < q
    BY <2>1
  <2>3. /\ Beyond(e, l, w) \in D /\ w + 3 <= Beyond(e, l, w) /\ Beyond(e, l, w) <= y
        /\ Beyond(e, l, w) \in 0 .. q
    BY <1>1, <2>1, <2>2 DEF headerSize
  <2>4. x <= Beyond(e, l, w) /\ i + 1 <= Beyond(e, l, w)
    BY <1>1, <2>1, <2>3
  <2>5. F[Beyond(e, l, w)] = F[y]
    BY <1>5, <2>3, <2>4
  <2>6. F[w] = <<>> \o F[Beyond(e, l, w)] /\ F[Beyond(e, l, w)] \in Seq(Sizes)
    BY <1>2, <1>3, <2>2, <2>3
  <2>7. <<>> \o F[Beyond(e, l, w)] = F[Beyond(e, l, w)]
    BY <2>6, ConcatEmptySeq
  <2> QED BY <2>5, <2>6, <2>7
<1>6. \A i \in 0 .. y : i \in P
  <2>1. y \in Nat
    BY <1>1
  <2> HIDE DEF P
  <2> QED BY <1>4, <1>5, <2>1, DownInduction
<1>7. x \in 0 .. y /\ x <= x
  BY <1>1
<1> QED BY <1>1, <1>6, <1>7

RestOf(b, c) == \E a \in Seq(Sizes) : c = a \o b

\* What is unread from a place on is the rest of what is unread before it.
LEMMA UnreadRests ==
  ASSUME NEW e, NEW l, NEW q \in Nat, LaidOut(e, l, q), NEW t,
         NEW F, Lists(F, e, l, q, t),
         NEW x \in Begins(e, l, q), NEW y \in Begins(e, l, q), x <= y
  PROVE  RestOf(F[y], F[x])
<1> DEFINE D == Begins(e, l, q)
           P == {i \in 0 .. y : \A w \in D : i <= w /\ w <= y =>
                                  \E a \in Seq(Sizes) : F[w] = a \o F[y]}
<1>1. /\ D \subseteq 0 .. q /\ x \in D /\ y \in D
      /\ \A w \in D : w < q => /\ Beyond(e, l, w) \in D
                               /\ w + headerSize <= Beyond(e, l, w) /\ Beyond(e, l, w) <= q
      /\ \A w \in D : w < y => Beyond(e, l, w) <= y
  BY LaidOutPlaces
<1>2. /\ \A w \in D : w < q => /\ F[w] = Own(e, l, t, w) \o F[Beyond(e, l, w)]
                               /\ Own(e, l, t, w) \in Seq(Sizes)
      /\ \A w \in D : F[w] \in Seq(Sizes)
  BY DEF Lists
<1> HIDE DEF D
<1>3. y \in 0 .. q /\ y \in Nat /\ \A w \in D : w \in 0 .. q
  BY <1>1
<1>4. y \in P
  <2>1. <<>> \in Seq(Sizes) /\ F[y] \in Seq(Sizes)
    BY <1>1, <1>2
  <2>2. F[y] = <<>> \o F[y]
    BY <2>1, ConcatEmptySeq
  <2>3. ASSUME NEW w \in D, y <= w, w <= y PROVE \E a \in Seq(Sizes) : F[w] = a \o F[y]
    <3>1. w = y
      BY <1>3, <2>3
    <3> QED BY <2>1, <2>2, <3>1
  <2>4. y \in 0 .. y
    BY <1>3
  <2> QED BY <2>3, <2>4
<1>5. ASSUME NEW i \in 0 .. y - 1, i + 1 \in P PROVE i \in P
  <2>0. \A w \in D : i <= w /\ w <= y => w = i \/ (i + 1 <= w /\ w <= y)
    BY <1>3
  <2>1. i \in 0 .. y
    BY <1>3
  <2> SUFFICES ASSUME NEW w \in D, w = i
               PROVE  \E a \in Seq(Sizes) : F[w] = a \o F[y]
    BY <1>5, <2>0, <2>1
  <2>2. w < y /\ w < q
    BY <1>3
  <2>3. /\ Beyond(e, l, w) \in D /\ w + headerSize <= Beyond(e, l, w)
        /\ Beyond(e, l, w) <= y
    BY <1>1, <2>2
  <2>4. Beyond(e, l, w) \in 0 .. q
    BY <1>3, <2>3
  <2>5. i + 1 <= Beyond(e, l, w)
    BY <2>3, <2>4 DEF headerSize
  <2>6. PICK a \in Seq(Sizes) : F[Beyond(e, l, w)] = a \o F[y]
    BY <1>5, <2>3, <2>5
  <2>7. /\ F[w] = Own(e, l, t, w) \o F[Beyond(e, l, w)]
        /\ Own(e, l, t, w) \in Seq(Sizes) /\ F[y] \in Seq(Sizes)
    BY <1>1, <1>2, <2>2
  <2>8. Own(e, l, t, w) \o a \in Seq(Sizes)
    BY <2>7, ConcatProperties
  <2>9. (Own(e, l, t, w) \o a) \o F[y] = Own(e, l, t, w) \o (a \o F[y])
    <3>1. Own(e, l, t, w) \in Seq(Sizes) /\ F[y] \in Seq(Sizes) /\ a \in Seq(Sizes)
      BY <2>7
    <3> QED BY <3>1, Concats
  <2> QED BY <2>6, <2>7, <2>8, <2>9
<1>6. \A i \in 0 .. y : i \in P
  <2> HIDE DEF P
  <2> QED BY <1>3, <1>4, <1>5, DownInduction
<1>7. x \in 0 .. y
  BY <1>1, <1>3
<1> QED BY <1>1, <1>3, <1>6, <1>7 DEF RestOf

\* The clauses that are still there are the same ones.
LEMMA StillSame ==
  ASSUME NEW e, NEW l \in Cells, NEW q \in 0 .. maxsize - 1, LaidOut(e, l, q),
         NEW x \in Begins(e, l, q), NEW m, m = addIndex(l, x), NEW e2,
         Still(e, l, q, x, e2, m), NEW y \in Begins(e, l, q), x <= y, y < q, NEW t
  PROVE  /\ Beyond(e2, m, y - x) = Beyond(e, l, y) - x
         /\ Own(e2, m, t, y - x) = Own(e, l, t, y)
<1> DEFINE D == Begins(e, l, q)
<1>0. /\ D \subseteq 0 .. q
      /\ Beyond(e, l, y) \in D /\ y + headerSize <= Beyond(e, l, y) /\ Beyond(e, l, y) <= q
  BY LaidOutPlaces
<1>1. maxsize \in Nat \ {0} /\ x \in 0 .. q /\ y \in 0 .. q /\ Beyond(e, l, y) \in 0 .. q
  BY <1>0, MaxsizePositive
<1> HIDE DEF D
<1>2. m \in Cells
  <2>1. x \in 0 .. maxsize
    BY <1>1
  <2> QED BY <2>1, Around
<1>3. y \in Nat /\ y - x \in Nat /\ y + headerSize <= maxsize /\ (y - x) + headerSize <= maxsize
      /\ y < maxsize /\ y - x < maxsize
  BY <1>0, <1>1 DEF headerSize
<1>4. Size(e2, addIndex(m, y - x)) = Word(e2, m, y - x + 1)
      /\ Origin(e2, addIndex(m, y - x)) = Word(e2, m, y - x + 3)
  BY <1>2, <1>3, Header
<1>5. Size(e, addIndex(l, y)) = Word(e, l, y + 1)
      /\ Origin(e, addIndex(l, y)) = Word(e, l, y + 3)
  BY <1>3, Header
<1>6. Size(e, addIndex(l, y)) \in Nat
  <2>1. y \in 0 .. q - 1
    BY <1>1
  <2> QED BY <2>1 DEF LaidOut, Sized
<1>7. Word(e2, m, y - x + 1) = Word(e, l, y + 1) /\ Word(e2, m, y - x + 3) = Word(e, l, y + 3)
  BY DEF Still
<1>8. Size(e2, addIndex(m, y - x)) = Size(e, addIndex(l, y))
      /\ Origin(e2, addIndex(m, y - x)) = Origin(e, addIndex(l, y))
  BY <1>4, <1>5, <1>7
<1>9. Own(e2, m, t, y - x) = Own(e, l, t, y)
  BY <1>8 DEF Own
<1> QED BY <1>1, <1>6, <1>8, <1>9 DEF Beyond, headerSize

\* The places when the clauses before x are gone, and the last one is r.
FromOn(D, n, x, r) == {z \in 0 .. n : z + x \in D} \cup {r}

\* The clauses before place x are gone, and one may have come.
Follows(e, l, q, x, e2, m, r) ==
  /\ l \in Cells /\ q \in 0 .. maxsize - 1 /\ r \in 0 .. maxsize - 1
  /\ LaidOut(e, l, q) /\ x \in Begins(e, l, q) /\ m = addIndex(l, x)
  /\ r = q - x \/ Comes(e2, m, q - x, r)
  /\ Still(e, l, q, x, e2, m) /\ LaidOut(e2, m, r)
  /\ Begins(e2, m, r) = FromOn(Begins(e, l, q), q - x, x, r)

\* From a place behind x there is still to get what there was, and what comes.
Carries(F, G, D, n, x) ==
  \A z \in 0 .. n : z + x \in D => G[z] = F[z + x] \o G[n]

\* What a thread has still to get from a place that stays, and of a clause that comes.
LEMMA UnreadMoves ==
  ASSUME NEW e, NEW l, NEW q, NEW x, NEW e2, NEW m, NEW r, Follows(e, l, q, x, e2, m, r),
         NEW t, NEW F, Lists(F, e, l, q, t), NEW G, Lists(G, e2, m, r, t)
  PROVE  /\ Carries(F, G, Begins(e, l, q), q - x, x)
         /\ G[q - x] \in Seq(Sizes)
         /\ q - x < r => G[q - x] = Own(e2, m, t, q - x)
<1> /\ l \in Cells /\ q \in 0 .. maxsize - 1 /\ r \in 0 .. maxsize - 1
    /\ LaidOut(e, l, q) /\ x \in Begins(e, l, q) /\ m = addIndex(l, x)
    /\ r = q - x \/ Comes(e2, m, q - x, r)
    /\ Still(e, l, q, x, e2, m) /\ LaidOut(e2, m, r)
    /\ Begins(e2, m, r) = FromOn(Begins(e, l, q), q - x, x, r)
  BY DEF Follows
<1> DEFINE D == Begins(e, l, q)
           P == {i \in 0 .. q - x : \A z \in 0 .. q - x :
                   i <= z /\ z + x \in D => G[z] = F[z + x] \o G[q - x]}
<1>1. /\ D \subseteq 0 .. q /\ q \in D /\ x \in D
      /\ \A y \in D : y < q => /\ Beyond(e, l, y) \in D
                               /\ y + headerSize <= Beyond(e, l, y) /\ Beyond(e, l, y) <= q
  BY LaidOutPlaces DEF LaidOut
<1>2. maxsize \in Nat \ {0} /\ q \in Nat /\ x \in 0 .. q /\ r \in Nat /\ q - x \in Nat
  BY <1>1, MaxsizePositive
<1>3. /\ Begins(e2, m, r) = {z \in 0 .. q - x : z + x \in D} \cup {r}
      /\ LaidOut(e2, m, r)
  BY DEF FromOn
<1>4. q - x <= r /\ (q - x < r => Beyond(e2, m, q - x) = r)
  <2>1. CASE r = q - x
    BY <1>2, <2>1
  <2>2. CASE Comes(e2, m, q - x, r)
    <3>1. PICK s \in Sizes : r = q - x + s + headerSize /\ Word(e2, m, q - x + 1) = s
      BY <2>2 DEF Comes
    <3>2. s \in Nat
      BY SizesAssumption
    <3>3. q - x < maxsize /\ m \in Cells
      <4>1. x \in 0 .. maxsize
        BY <1>2
      <4> QED BY <1>2, <4>1, Around
    <3>4. Size(e2, addIndex(m, q - x)) = s
      BY <1>2, <3>1, <3>3, Header
    <3> QED BY <1>2, <3>1, <3>2, <3>4 DEF headerSize, Beyond
  <2> QED BY <2>1, <2>2
<1>5. /\ F[q] = <<>> /\ G[r] = <<>>
      /\ \A y \in D : y < q => /\ F[y] = Own(e, l, t, y) \o F[Beyond(e, l, y)]
                               /\ Own(e, l, t, y) \in Seq(Sizes)
      /\ \A y \in D : F[y] \in Seq(Sizes)
      /\ \A z \in Begins(e2, m, r) : z < r => /\ G[z] = Own(e2, m, t, z) \o G[Beyond(e2, m, z)]
                                              /\ Own(e2, m, t, z) \in Seq(Sizes)
      /\ \A z \in Begins(e2, m, r) : G[z] \in Seq(Sizes)
  BY DEF Lists
<1> HIDE DEF D
<1>6. q - x \in Begins(e2, m, r) /\ (q - x) + x = q /\ q - x \in 0 .. q - x
  BY <1>1, <1>2, <1>3
<1>7. G[q - x] \in Seq(Sizes)
  BY <1>5, <1>6
<1>8. q - x < r => G[q - x] = Own(e2, m, t, q - x)
  <2> SUFFICES ASSUME q - x < r PROVE G[q - x] = Own(e2, m, t, q - x)
    OBVIOUS
  <2>1. G[q - x] = Own(e2, m, t, q - x) \o <<>> /\ Own(e2, m, t, q - x) \in Seq(Sizes)
    BY <1>4, <1>5, <1>6
  <2> QED BY <2>1, Concats
<1>9. q - x \in P
  <2>1. ASSUME NEW z \in 0 .. q - x, q - x <= z, z + x \in D PROVE G[z] = F[z + x] \o G[q - x]
    <3>1. z = q - x /\ z + x = q
      BY <1>2, <2>1
    <3>2. <<>> \o G[q - x] = G[q - x]
      BY <1>7, Concats
    <3> QED BY <1>5, <3>1, <3>2
  <2> QED BY <1>6, <2>1
<1>10. ASSUME NEW i \in 0 .. (q - x) - 1, i + 1 \in P PROVE i \in P
  <2>1. \A z \in 0 .. q - x : i <= z => z = i \/ i + 1 <= z
    OBVIOUS
  <2>2. ASSUME i + x \in D PROVE G[i] = F[i + x] \o G[q - x]
    <3> DEFINE y == i + x
               w == Beyond(e, l, y)
    <3>1. y \in D /\ x <= y /\ y < q /\ y - x = i
      BY <1>2, <2>2
    <3>2. /\ w \in D /\ y + headerSize <= w /\ w <= q
      BY <1>1, <3>1
    <3>3. w \in 0 .. q
      BY <1>1, <3>2
    <3>4. w - x \in 0 .. q - x /\ i + 1 <= w - x /\ (w - x) + x = w
      BY <1>2, <3>1, <3>2, <3>3 DEF headerSize
    <3>5. G[w - x] = F[w] \o G[q - x]
      BY <1>10, <3>2, <3>4
    <3>6. Beyond(e2, m, i) = w - x /\ Own(e2, m, t, i) = Own(e, l, t, y)
      <4>1. /\ y \in Begins(e, l, q) /\ x <= y /\ y < q
        BY <3>1 DEF D
      <4> HIDE DEF y
      <4>2. /\ Beyond(e2, m, y - x) = Beyond(e, l, y) - x
            /\ Own(e2, m, t, y - x) = Own(e, l, t, y)
        BY <4>1, StillSame
      <4> QED BY <3>1, <4>2
    <3>7. i \in Begins(e2, m, r) /\ i < r
      BY <1>2, <1>3, <1>4, <2>2
    <3>8. G[i] = Own(e, l, t, y) \o (F[w] \o G[q - x])
      BY <1>5, <3>5, <3>6, <3>7
    <3>9. F[y] = Own(e, l, t, y) \o F[w] /\ Own(e, l, t, y) \in Seq(Sizes) /\ F[w] \in Seq(Sizes)
      BY <1>5, <3>1, <3>2
    <3>10. (Own(e, l, t, y) \o F[w]) \o G[q - x] = Own(e, l, t, y) \o (F[w] \o G[q - x])
      BY <1>7, <3>9, Concats
    <3> QED BY <3>8, <3>9, <3>10
  <2>3. i \in 0 .. q - x
    BY <1>2
  <2> QED BY <1>10, <2>1, <2>2, <2>3
<1>11. \A i \in 0 .. q - x : i \in P
  <2>1. q - x \in Nat
    BY <1>2
  <2> DEFINE k == q - x
  <2>2. k \in Nat /\ k \in P /\ \A i \in 0 .. k - 1 : i + 1 \in P => i \in P
    BY <1>9, <1>10, <2>1
  <2> HIDE DEF P, k
  <2>3. \A i \in 0 .. k : i \in P
    BY <2>2, DownInduction
  <2> QED BY <2>3 DEF k
<1>12. 0 \in 0 .. q - x
  BY <1>2
<1>13. ASSUME NEW z \in 0 .. q - x, z + x \in D PROVE G[z] = F[z + x] \o G[q - x]
  <2>1. 0 \in P
    BY <1>11, <1>12
  <2>2. 0 <= z
    OBVIOUS
  <2> QED BY <1>13, <2>1, <2>2
<1> QED BY <1>7, <1>8, <1>13 DEF D, Carries

\* A thread that stands before a clause that goes goes on behind those that go.
Carried(p, x) == IF p < x THEN 0 ELSE p - x

GoesOn(F, G, x, n, p, y) ==
  /\ p <= y /\ x <= y /\ (p < x => y = x) /\ (x <= p => y = p)
  /\ F[y] \in Seq(Sizes) /\ G[Carried(p, x)] = F[y] \o G[n]

LEMMA UnreadCarried ==
  ASSUME NEW e, NEW l, NEW q, NEW x, NEW e2, NEW m, NEW r, Follows(e, l, q, x, e2, m, r),
         NEW t, NEW F, Lists(F, e, l, q, t), NEW G, Lists(G, e2, m, r, t),
         NEW p \in Begins(e, l, q)
  PROVE  /\ \E y \in Begins(e, l, q) : GoesOn(F, G, x, q - x, p, y)
         /\ r = q - x => G[q - x] = <<>>
         /\ q - x < r => G[q - x] = Own(e2, m, t, q - x)
<1>0. /\ Carries(F, G, Begins(e, l, q), q - x, x)
      /\ G[q - x] \in Seq(Sizes)
      /\ q - x < r => G[q - x] = Own(e2, m, t, q - x)
  BY UnreadMoves
<1> /\ l \in Cells /\ q \in 0 .. maxsize - 1 /\ r \in 0 .. maxsize - 1
    /\ LaidOut(e, l, q) /\ x \in Begins(e, l, q) /\ m = addIndex(l, x)
    /\ r = q - x \/ Comes(e2, m, q - x, r)
    /\ Still(e, l, q, x, e2, m) /\ LaidOut(e2, m, r)
    /\ Begins(e2, m, r) = FromOn(Begins(e, l, q), q - x, x, r)
  BY DEF Follows
<1> DEFINE D == Begins(e, l, q)
<1> DEFINE n == Carried(p, x)
<1>1. /\ \A z \in 0 .. q - x : z + x \in D => G[z] = F[z + x] \o G[q - x]
      /\ G[q - x] \in Seq(Sizes)
      /\ q - x < r => G[q - x] = Own(e2, m, t, q - x)
  BY <1>0 DEF Carries
<1>2. /\ G[r] = <<>> /\ \A y \in D : F[y] \in Seq(Sizes)
  BY DEF Lists
<1>3. D \subseteq 0 .. q
  BY LaidOutPlaces
<1>4. p \in D /\ x \in D
  OBVIOUS
<1> HIDE DEF D
<1>5. p \in 0 .. q /\ x \in 0 .. q /\ q \in Nat
  BY <1>3, <1>4
<1>6. CASE p < x
  <2>1. n = 0 /\ 0 \in 0 .. q - x /\ 0 + x = x
    BY <1>5, <1>6 DEF Carried
  <2>2. G[n] = F[x] \o G[q - x]
    BY <1>1, <1>4, <2>1
  <2>3. p <= x /\ x <= x /\ ~(x <= p)
    BY <1>5, <1>6 DEF Carried
  <2> QED BY <1>1, <1>2, <1>4, <1>6, <2>2, <2>3 DEF D, GoesOn
<1>7. CASE ~(p < x)
  <2>1. n = p - x /\ p - x \in 0 .. q - x /\ (p - x) + x = p
    BY <1>5, <1>7 DEF Carried
  <2>2. G[n] = F[p] \o G[q - x]
    BY <1>1, <1>4, <2>1
  <2>3. p <= p /\ x <= p
    BY <1>5, <1>7
  <2> QED BY <1>1, <1>2, <1>4, <1>7, <2>2, <2>3 DEF D, GoesOn
<1> QED BY <1>6, <1>7

LEMMA WholeUnread ==
  ASSUME NEW e, NEW l, NEW q, NEW cur, Whole(e, l, q, cur), NEW t \in Threads
  PROVE  /\ Lists(UnreadFrom(e, l, q, t), e, l, q, t)
         /\ Distance(l, cur[t]) \in Begins(e, l, q)
         /\ UnreadFrom(e, l, q, t)[Distance(l, cur[t])] \in Seq(Sizes)
<1>1. /\ q \in Nat /\ LaidOut(e, l, q)
      /\ Distance(l, cur[t]) \in Begins(e, l, q)
  BY WholeIs
<1>2. Lists(UnreadFrom(e, l, q, t), e, l, q, t)
  BY <1>1, UnreadIs
<1> QED BY <1>1, <1>2 DEF Lists

LEMMA UnreadThen ==
  ASSUME RingInv, RingInv'
  PROVE  /\ unread \in [Threads -> Seq(Sizes)] /\ unread' \in [Threads -> Seq(Sizes)]
         /\ \A t \in Threads :
              /\ unread[t] = UnreadFrom(elems, last, queuesize, t)[PlaceOf(lastOfThread[t])]
              /\ unread'[t]
                   = UnreadFrom(elems', last', queuesize', t)[Distance(last', lastOfThread'[t])]
<1>1. /\ Whole(elems, last, queuesize, lastOfThread)
      /\ Whole(elems', last', queuesize', lastOfThread')
  BY DEF RingInv
<1>2. ASSUME NEW t \in Threads
      PROVE  /\ UnreadFrom(elems, last, queuesize, t)[Distance(last, lastOfThread[t])]
                  \in Seq(Sizes)
             /\ UnreadFrom(elems', last', queuesize', t)[Distance(last', lastOfThread'[t])]
                  \in Seq(Sizes)
  BY <1>1, WholeUnread
<1>3. \A t \in Threads :
        /\ Unread(t) = UnreadFrom(elems, last, queuesize, t)[Distance(last, lastOfThread[t])]
        /\ Unread(t)' = UnreadFrom(elems', last', queuesize', t)[Distance(last', lastOfThread'[t])]
  BY DEF Unread, PlaceOf
<1>4. unread = [t \in Threads |-> Unread(t)] /\ unread' = [t \in Threads |-> Unread(t)']
  BY DEF unread
<1> QED BY <1>2, <1>3, <1>4 DEF PlaceOf

LEMMA PushFollows ==
  ASSUME RingInv, NEW t \in Threads, NEW s \in Sizes, Push(t, s)
  PROVE  /\ RingInv'
         /\ \E x \in Begins(elems, last, queuesize) :
              /\ Follows(elems, last, queuesize, x, elems', last', queuesize')
              /\ queuesize - x < queuesize'
              /\ x # 0 => whenFullRemoveOlder
              /\ \A u \in Threads :
                   /\ Distance(last', lastOfThread'[u])
                        = Carried(PlaceOf(lastOfThread[u]), x)
                   /\ Own(elems', last', u, queuesize - x) = IF t = u THEN <<>> ELSE <<s>>
<1>1. PICK x \in Places :
              /\ last' = addIndex(last, x)
              /\ queuesize' = queuesize - x + s + headerSize
              /\ lastOfThread' = Moved(last, Places, x, lastOfThread)
              /\ Begins(elems', last', queuesize')
                   = {z \in 0 .. queuesize - x : z + x \in Places} \cup {queuesize'}
              /\ \A k \in 1 .. queuesize - x : Word(elems', last', k) = Word(elems, last, x + k)
              /\ Word(elems', last', queuesize - x + 1) = s
              /\ Word(elems', last', queuesize - x + 3) = t
              /\ x # 0 => whenFullRemoveOlder
  BY PushKeeps
<1>2. /\ Whole(elems, last, queuesize, lastOfThread)
      /\ Places = Begins(elems, last, queuesize)
      /\ \A i : PlaceOf(i) = Distance(last, i)
  BY RingIs
<1>3. RingInv' /\ Whole(elems', last', queuesize', lastOfThread')
  BY PushKeeps DEF RingInv
<1>4. /\ last \in Cells /\ queuesize \in 0 .. maxsize - 1 /\ queuesize' \in 0 .. maxsize - 1
      /\ Places \subseteq 0 .. queuesize /\ last' \in Cells
      /\ LaidOut(elems, last, queuesize) /\ LaidOut(elems', last', queuesize')
      /\ \A y \in Places : y < queuesize =>
           /\ Beyond(elems, last, y) \in Places
           /\ y + headerSize <= Beyond(elems, last, y) /\ Beyond(elems, last, y) <= queuesize
      /\ maxsize \in Nat \ {0}
  BY <1>2, <1>3, WholeIs
<1>5. x \in 0 .. queuesize /\ s \in Nat \ {0}
  BY <1>4, SizesAssumption
<1>6. queuesize - x \in Nat /\ queuesize - x < queuesize'
      /\ queuesize - x < maxsize /\ (queuesize - x) + headerSize <= maxsize
  BY <1>1, <1>4, <1>5 DEF headerSize
<1>7. Comes(elems', last', queuesize - x, queuesize')
  BY <1>1 DEF Comes
<1>8. Still(elems, last, queuesize, x, elems', last')
  <2> SUFFICES ASSUME NEW y \in Places, x <= y, y < queuesize
               PROVE  /\ Word(elems', last', y - x + 1) = Word(elems, last, y + 1)
                      /\ Word(elems', last', y - x + 3) = Word(elems, last, y + 3)
    BY <1>2 DEF Still
  <2>1. Beyond(elems, last, y) \in 0 .. queuesize /\ y + 3 <= Beyond(elems, last, y)
        /\ y \in 0 .. queuesize
    BY <1>4 DEF headerSize
  <2>2. /\ y - x + 1 \in 1 .. queuesize - x /\ y - x + 3 \in 1 .. queuesize - x
        /\ x + (y - x + 1) = y + 1 /\ x + (y - x + 3) = y + 3
    BY <1>4, <1>5, <2>1
  <2>3. \A k \in 1 .. queuesize - x : Word(elems', last', k) = Word(elems, last, x + k)
    BY <1>1
  <2>4. /\ Word(elems', last', y - x + 1) = Word(elems, last, x + (y - x + 1))
        /\ Word(elems', last', y - x + 3) = Word(elems, last, x + (y - x + 3))
    BY <2>2, <2>3
  <2> QED BY <2>2, <2>4
<1>9. Begins(elems', last', queuesize')
        = FromOn(Begins(elems, last, queuesize), queuesize - x, x, queuesize')
  BY <1>1, <1>2 DEF FromOn
<1>10. Follows(elems, last, queuesize, x, elems', last', queuesize')
  BY <1>1, <1>2, <1>4, <1>7, <1>8, <1>9 DEF Follows
<1>11. ASSUME NEW u \in Threads
       PROVE  Own(elems', last', u, queuesize - x) = IF t = u THEN <<>> ELSE <<s>>
  <2>1. /\ Size(elems', addIndex(last', queuesize - x)) = Word(elems', last', queuesize - x + 1)
        /\ Origin(elems', addIndex(last', queuesize - x)) = Word(elems', last', queuesize - x + 3)
    BY <1>4, <1>6, Header
  <2>2. /\ Size(elems', addIndex(last', queuesize - x)) = s
        /\ Origin(elems', addIndex(last', queuesize - x)) = t
    BY <1>1, <2>1
  <2> QED BY <2>2 DEF Own
<1>12. \A u \in Threads :
         Distance(last', lastOfThread'[u])
           = Carried(PlaceOf(lastOfThread[u]), x)
  <2>1. /\ x \in Begins(elems, last, queuesize) /\ last' = addIndex(last, x)
        /\ lastOfThread' = Moved(last, Begins(elems, last, queuesize), x, lastOfThread)
    BY <1>1, <1>2
  <2> QED BY <1>2, <2>1, MovedStands DEF Carried
<1> QED BY <1>1, <1>2, <1>3, <1>6, <1>10, <1>11, <1>12

\* The list of thread u when s comes from t: a has been dropped, b is what is left.
Receives(t, s, u, a, b) ==
  /\ unread[u] = a \o b
  /\ ~whenFullRemoveOlder => unread[u] = b
  /\ unread'[u] = IF u = t THEN b ELSE Append(b, s)

LEMMA PushReceives ==
  ASSUME RingInv, NEW t \in Threads, NEW s \in Sizes, Push(t, s), NEW u \in Threads
  PROVE  \E a \in Seq(Sizes), b \in Seq(Sizes) : Receives(t, s, u, a, b)
<1>1. PICK x \in Begins(elems, last, queuesize) :
        /\ Follows(elems, last, queuesize, x, elems', last', queuesize')
        /\ queuesize - x < queuesize'
        /\ x # 0 => whenFullRemoveOlder
        /\ Distance(last', lastOfThread'[u])
             = Carried(PlaceOf(lastOfThread[u]), x)
        /\ Own(elems', last', u, queuesize - x) = IF t = u THEN <<>> ELSE <<s>>
  BY PushFollows
<1>2. RingInv'
  BY PushFollows
<1>3. /\ Whole(elems, last, queuesize, lastOfThread)
      /\ Whole(elems', last', queuesize', lastOfThread')
  BY <1>2 DEF RingInv
<1> DEFINE F == UnreadFrom(elems, last, queuesize, u)
           G == UnreadFrom(elems', last', queuesize', u)
           p == PlaceOf(lastOfThread[u])
           n == Distance(last', lastOfThread'[u])
<1>4. /\ Lists(F, elems, last, queuesize, u) /\ p \in Begins(elems, last, queuesize)
      /\ Lists(G, elems', last', queuesize', u)
  BY <1>3, WholeUnread DEF PlaceOf
<1>5. unread[u] = F[p] /\ unread'[u] = G[n]
  BY <1>2, UnreadThen
<1>6. LaidOut(elems, last, queuesize) /\ queuesize \in Nat
      /\ Begins(elems, last, queuesize) \subseteq 0 .. queuesize
  BY <1>3, WholeIs
<1>7. n = Carried(p, x)
  BY <1>1
<1> HIDE DEF F, G, p, n
<1>8. PICK y \in Begins(elems, last, queuesize) :
           /\ p <= y /\ (x <= p => y = p)
           /\ F[y] \in Seq(Sizes) /\ G[n] = F[y] \o G[queuesize - x]
           /\ G[queuesize - x] = Own(elems', last', u, queuesize - x)
  <2>1. /\ \E y \in Begins(elems, last, queuesize) : GoesOn(F, G, x, queuesize - x, p, y)
        /\ G[queuesize - x] = Own(elems', last', u, queuesize - x)
    BY <1>1, <1>4, UnreadCarried
  <2> QED BY <1>7, <2>1 DEF GoesOn
<1>9. PICK a \in Seq(Sizes) : F[p] = a \o F[y]
  <2>1. RestOf(F[y], F[p])
    BY <1>4, <1>6, <1>8, UnreadRests
  <2> QED BY <2>1 DEF RestOf
<1>10. ~whenFullRemoveOlder => F[p] = F[y]
  <2>1. x = 0 => x <= p
    BY <1>4, <1>6
  <2> QED BY <1>1, <1>8, <2>1
<1>11. G[n] = F[y] \o (IF t = u THEN <<>> ELSE <<s>>)
  BY <1>1, <1>8
<1>12. G[n] = IF u = t THEN F[y] ELSE Append(F[y], s)
  <2>1. F[y] \o <<>> = F[y] /\ Append(F[y], s) = F[y] \o <<s>>
    BY <1>8, Concats
  <2> QED BY <1>11, <2>1
<1>13. Receives(t, s, u, a, F[y])
  BY <1>5, <1>9, <1>10, <1>12 DEF Receives
<1> QED BY <1>8, <1>9, <1>13

LEMMA PushAdds ==
  ASSUME RingInv, NEW t \in Threads, NEW s \in Sizes, Push(t, s)
  PROVE  Shared!Add(t, s)
<1>1. RingInv'
  BY PushFollows
<1>2. unread' \in [Threads -> Seq(Sizes)]
  BY <1>1, UnreadThen
<1>3. ASSUME NEW u \in Threads PROVE unread'[u] \in Shared!Lists(u, t, s)
  <2>1. PICK a \in Seq(Sizes), b \in Seq(Sizes) : Receives(t, s, u, a, b)
    BY PushReceives
  <2>2. b \in Shared!Rests(unread[u])
    <3>1. CASE whenFullRemoveOlder
      <4>1. Shared!Rests(unread[u])
              = {SubSeq(unread[u], n + 1, Len(unread[u])) : n \in 0 .. Len(unread[u])}
        BY <3>1 DEF Shared!Rests
      <4>2. unread[u] = a \o b
        BY <2>1 DEF Receives
      <4>3. Len(a) \in 0 .. Len(a \o b) /\ SubSeq(a \o b, Len(a) + 1, Len(a \o b)) = b
        BY Concats
      <4> QED BY <4>1, <4>2, <4>3
    <3>2. CASE ~whenFullRemoveOlder
      BY <2>1, <3>2 DEF Receives, Shared!Rests
    <3> QED BY <3>1, <3>2
  <2>3. CASE u = t
    BY <2>1, <2>2, <2>3 DEF Receives, Shared!Lists
  <2>4. CASE u # t
    BY <2>1, <2>2, <2>4 DEF Receives, Shared!Lists
  <2> QED BY <2>3, <2>4
<1>4. unread' \in [Threads -> UNION {Shared!Lists(u, t, s) : u \in Threads}]
  BY <1>2, <1>3
<1>5. answer' = Taken /\ whenFullRemoveOlder' = whenFullRemoveOlder
  BY DEF Push
<1>6. Shared!Put(t, s)
  BY <1>3, <1>4, <1>5 DEF Shared!Put
<1> QED BY <1>5, <1>6 DEF Shared!Add, Shared!Taken, Taken

-----------------------------------------------------------------------------
LEMMA GetTakes ==
  ASSUME RingInv, NEW t \in Threads, Get(t)
  PROVE  \E s \in Sizes : Shared!Get(t, s)
<1>1. PICK x \in Places, y \in Places :
        /\ Finds(elems, last, queuesize, lastOfThread, t, x)
        /\ answer' = [thread |-> t, clause |-> Size(elems, addIndex(last, x))]
        /\ last' = addIndex(last, y) /\ queuesize' = queuesize - y
        /\ Still(elems, last, queuesize, y, elems', last')
        /\ \A u \in Threads :
             /\ Distance(last', lastOfThread'[u])
                  = IF Passed(t, x, u) < y THEN 0 ELSE Passed(t, x, u) - y
             /\ \A w \in Places : Passed(t, x, u) <= w /\ w < y =>
                  Origin(elems, addIndex(last, w)) = u
  BY GetKeeps
<1>2. RingInv' /\ whenFullRemoveOlder' = whenFullRemoveOlder
  BY GetKeeps DEF Get
<1>3. /\ Whole(elems, last, queuesize, lastOfThread)
      /\ Whole(elems', last', queuesize', lastOfThread')
      /\ Places = Begins(elems, last, queuesize)
      /\ \A i : PlaceOf(i) = Distance(last, i)
      /\ \A i : After(i) = Beyond(elems, last, i)
  BY <1>2, RingIs DEF RingInv
<1>4. /\ last \in Cells /\ queuesize \in 0 .. maxsize - 1 /\ queuesize' \in 0 .. maxsize - 1
      /\ Places \subseteq 0 .. queuesize
      /\ LaidOut(elems, last, queuesize) /\ LaidOut(elems', last', queuesize')
      /\ \A w \in Places : w < queuesize =>
           /\ Beyond(elems, last, w) \in Places
           /\ Size(elems, addIndex(last, w)) \in Sizes
      /\ queuesize \in Nat
  BY <1>3, WholeIs
<1>5. /\ x < queuesize /\ Origin(elems, addIndex(last, x)) # t
      /\ PlaceOf(lastOfThread[t]) <= x
      /\ \A w \in Places : PlaceOf(lastOfThread[t]) <= w /\ w < x =>
           Origin(elems, addIndex(last, w)) = t
  BY <1>1, <1>3 DEF Finds
<1>6. Numbers(elems', last', queuesize')
  BY <1>3 DEF Whole, Numbers
<1>7. Follows(elems, last, queuesize, y, elems', last', queuesize')
  <2>1. /\ y \in Begins(elems, last, queuesize) /\ last' = addIndex(last, y)
        /\ queuesize' = queuesize - y
    BY <1>1, <1>3
  <2>2. Begins(elems', last', queuesize')
          = {z \in 0 .. queuesize - y : z + y \in Begins(elems, last, queuesize)} \cup {queuesize'}
    BY <1>1, <1>4, <1>6, <2>1, Moves
  <2>3. Begins(elems', last', queuesize')
          = FromOn(Begins(elems, last, queuesize), queuesize - y, y, queuesize')
    BY <2>2 DEF FromOn
  <2> QED BY <1>1, <1>4, <2>1, <2>3 DEF Follows
\* What u has then still to get was unread from the place where it has got to.
<1>8. ASSUME NEW u \in Threads
      PROVE  /\ unread'[u] = UnreadFrom(elems, last, queuesize, u)[Passed(t, x, u)]
             /\ Passed(t, x, u) \in Places
  <2> DEFINE F == UnreadFrom(elems, last, queuesize, u)
             G == UnreadFrom(elems', last', queuesize', u)
             p == Passed(t, x, u)
  <2>1. p \in Places
    <3>1. PlaceOf(lastOfThread[u]) \in Places /\ After(x) \in Places
      BY <1>3, <1>4, <1>5, RingIs
    <3> QED BY <3>1 DEF Passed
  <2>2. /\ Lists(F, elems, last, queuesize, u) /\ Lists(G, elems', last', queuesize', u)
    BY <1>3, WholeUnread
  <2>3. unread'[u] = G[Carried(p, y)]
    BY <1>1, <1>2, UnreadThen DEF Carried
  <2>4. \A w \in Places : p <= w /\ w < y => Origin(elems, addIndex(last, w)) = u
    BY <1>1
  <2> HIDE DEF F, G, p
  <2>5. /\ \E z \in Begins(elems, last, queuesize) : GoesOn(F, G, y, queuesize - y, p, z)
        /\ G[queuesize - y] = <<>>
    BY <1>1, <1>3, <1>7, <2>1, <2>2, UnreadCarried
  <2>6. PICK z \in Places : GoesOn(F, G, y, queuesize - y, p, z)
    BY <1>3, <2>5
  <2>7. /\ p <= z /\ (p < y => z = y) /\ (y <= p => z = p) /\ F[z] \in Seq(Sizes)
        /\ G[Carried(p, y)] = F[z] \o G[queuesize - y]
    BY <2>6 DEF GoesOn
  <2>8. G[Carried(p, y)] = F[z]
    BY <2>5, <2>7, Concats
  <2>9. \A w \in Begins(elems, last, queuesize) :
          p <= w /\ w < z => Origin(elems, addIndex(last, w)) = u
    <3>1. p \in 0 .. queuesize /\ y \in 0 .. queuesize /\ \A w \in Places : w \in 0 .. queuesize
      BY <1>1, <1>4, <2>1
    <3> QED BY <1>3, <2>4, <2>7, <3>1
  <2>10. F[p] = F[z]
    BY <1>3, <1>4, <2>1, <2>2, <2>6, <2>7, <2>9, UnreadSkips
  <2> QED BY <2>1, <2>3, <2>8, <2>10 DEF F, p
<1> DEFINE F == UnreadFrom(elems, last, queuesize, t)
           s == Size(elems, addIndex(last, x))
           p == PlaceOf(lastOfThread[t])
<1>9. Lists(F, elems, last, queuesize, t) /\ p \in Places /\ unread[t] = F[p]
      /\ unread \in [Threads -> Seq(Sizes)] /\ unread' \in [Threads -> Seq(Sizes)]
  BY <1>2, <1>3, WholeUnread, UnreadThen, RingIs
<1>10. s \in Sizes /\ Beyond(elems, last, x) \in Places
  BY <1>4, <1>5
<1>11. Own(elems, last, t, x) = <<s>>
  BY <1>5 DEF Own
<1>12. unread'[t] = F[Beyond(elems, last, x)]
  BY <1>3, <1>8 DEF Passed
<1> HIDE DEF F, s, p
<1>13. F[p] = F[x]
  BY <1>3, <1>4, <1>5, <1>9, UnreadSkips DEF p
<1>14. F[x] = <<s>> \o F[Beyond(elems, last, x)] /\ F[Beyond(elems, last, x)] \in Seq(Sizes)
  BY <1>3, <1>5, <1>9, <1>10, <1>11 DEF Lists
<1>15. unread[t] # <<>> /\ Head(unread[t]) = s /\ Tail(unread[t]) = unread'[t]
  <2> DEFINE g == F[Beyond(elems, last, x)]
  <2>1. g \in Seq(Sizes) /\ unread[t] = <<s>> \o g /\ unread'[t] = g
    BY <1>9, <1>12, <1>13, <1>14
  <2> HIDE DEF g
  <2>2. <<s>> \o g # <<>> /\ Head(<<s>> \o g) = s /\ Tail(<<s>> \o g) = g
    BY <1>10, <2>1, Concats
  <2> QED BY <2>1, <2>2
<1>16. \A u \in Threads \ {t} : unread'[u] = unread[u]
  <2> SUFFICES ASSUME NEW u \in Threads, u # t PROVE unread'[u] = unread[u]
    OBVIOUS
  <2>1. Passed(t, x, u) = PlaceOf(lastOfThread[u])
    BY DEF Passed
  <2> QED BY <1>2, <1>8, <2>1, UnreadThen
<1>17. unread' = [unread EXCEPT ![t] = Tail(@)]
  BY <1>9, <1>15, <1>16
<1>18. Shared!Get(t, s)
  BY <1>1, <1>2, <1>15, <1>17 DEF Shared!Get, Shared!Take, s
<1> QED BY <1>10, <1>18

LEMMA GetNothingTakesNothing ==
  ASSUME RingInv, NEW t \in Threads, GetNothing(t)
  PROVE  Shared!GetNothing(t)
<1>1. /\ RingInv'
      /\ \A u \in Threads : PlaceOf(lastOfThread[u])'
                              = IF u = t THEN queuesize ELSE PlaceOf(lastOfThread[u])
  BY GetNothingKeeps
<1>2. /\ NextForeign(t) = queuesize /\ answer' = Nothing
      /\ elems' = elems /\ last' = last /\ queuesize' = queuesize
      /\ whenFullRemoveOlder' = whenFullRemoveOlder
  BY DEF GetNothing
<1>3. /\ Whole(elems, last, queuesize, lastOfThread)
      /\ Places = Begins(elems, last, queuesize)
      /\ \A u \in Threads : PlaceOf(lastOfThread[u]) \in Places
  BY RingIs
<1>4. LaidOut(elems, last, queuesize) /\ queuesize \in Nat /\ queuesize \in Places
  BY <1>3, WholeIs
<1> DEFINE F == UnreadFrom(elems, last, queuesize, t)
           p == PlaceOf(lastOfThread[t])
<1>5. Lists(F, elems, last, queuesize, t) /\ unread[t] = F[p]
  BY <1>1, <1>3, WholeUnread, UnreadThen
<1>6. F[queuesize] = <<>>
  BY <1>5 DEF Lists
<1>7. p <= queuesize /\ \A w \in Places : p <= w /\ w < queuesize =>
                          Origin(elems, addIndex(last, w)) = t
  BY <1>2, NextIsFound
<1> HIDE DEF F, p
<1>8. F[p] = F[queuesize]
  <2>1. p \in Places
    BY <1>3 DEF p
  <2> QED BY <1>3, <1>4, <1>5, <1>7, <2>1, UnreadSkips
<1>9. \A u \in Threads :
        unread'[u] = UnreadFrom(elems, last, queuesize, u)[PlaceOf(lastOfThread[u])']
  BY <1>1, <1>2, UnreadThen DEF PlaceOf
<1>10. \A u \in Threads : unread'[u] = unread[u]
  <2> SUFFICES ASSUME NEW u \in Threads PROVE unread'[u] = unread[u]
    OBVIOUS
  <2>1. CASE u = t
    BY <1>1, <1>5, <1>6, <1>8, <1>9, <2>1 DEF F
  <2>2. CASE u # t
    BY <1>1, <1>9, <2>2, UnreadThen
  <2> QED BY <2>1, <2>2
<1>11. unread' = unread
  BY <1>1, <1>10, UnreadThen
<1> QED BY <1>2, <1>5, <1>6, <1>8, <1>11 DEF Shared!GetNothing, Shared!Nothing, Nothing

LEMMA InitClear == Init => Shared!Init
<1> SUFFICES ASSUME Init PROVE Shared!Init
  OBVIOUS
<1>1. /\ queuesize = 0 /\ answer = Nothing /\ whenFullRemoveOlder \in BOOLEAN
      /\ RingInv
  BY InitKeeps DEF Init
<1>2. /\ Whole(elems, last, queuesize, lastOfThread)
      /\ Places = Begins(elems, last, queuesize)
      /\ \A i : PlaceOf(i) = Distance(last, i)
  BY <1>1, RingIs
<1>3. ASSUME NEW t \in Threads PROVE Unread(t) = <<>>
  <2> DEFINE F == UnreadFrom(elems, last, queuesize, t)
  <2>1. Lists(F, elems, last, queuesize, t) /\ PlaceOf(lastOfThread[t]) \in 0 .. queuesize
    BY <1>2, WholeUnread, WholeIs
  <2>2. PlaceOf(lastOfThread[t]) = queuesize
    BY <1>1, <2>1
  <2> QED BY <2>1, <2>2 DEF Lists, Unread
<1>4. unread = [t \in Threads |-> <<>>]
  BY <1>3 DEF unread
<1> QED BY <1>1, <1>4 DEF Shared!Init, Shared!Clear, Shared!Nothing, Nothing

LEMMA StepShares == RingInv /\ [Next]_vars => [Shared!Next]_(Shared!sharedVars)
<1> SUFFICES ASSUME RingInv, [Next]_vars PROVE [Shared!Next]_(Shared!sharedVars)
  OBVIOUS
<1>1. ASSUME UNCHANGED <<elems, last, queuesize, lastOfThread>> PROVE unread' = unread
  BY <1>1 DEF unread, Unread, UnreadFrom, Begins, PlaceOf
<1>2. CASE \E s \in Sizes : Refuse(s)
  <2>1. /\ answer' = Refused /\ ~whenFullRemoveOlder
        /\ whenFullRemoveOlder' = whenFullRemoveOlder
        /\ UNCHANGED <<elems, last, queuesize, lastOfThread>>
    BY <1>2 DEF Refuse
  <2>2. Shared!Refuse
    BY <1>1, <2>1 DEF Shared!Refuse, Shared!Refused, Refused
  <2> QED BY <2>2 DEF Shared!Next
<1>3. CASE \E t \in Threads, s \in Sizes : Push(t, s)
  <2>1. \E t \in Threads, s \in Sizes : Shared!Add(t, s)
    BY <1>3, PushAdds
  <2> QED BY <2>1 DEF Shared!Next
<1>4. CASE \E t \in Threads : Get(t)
  <2>1. \E t \in Threads, s \in Sizes : Shared!Get(t, s)
    BY <1>4, GetTakes
  <2> QED BY <2>1 DEF Shared!Next
<1>5. CASE \E t \in Threads : GetNothing(t)
  <2>1. \E t \in Threads : Shared!GetNothing(t)
    BY <1>5, GetNothingTakesNothing
  <2> QED BY <2>1 DEF Shared!Next
<1>6. CASE UNCHANGED vars
  <2>1. /\ answer' = answer /\ whenFullRemoveOlder' = whenFullRemoveOlder
        /\ UNCHANGED <<elems, last, queuesize, lastOfThread>>
    BY <1>6 DEF vars
  <2> QED BY <1>1, <2>1 DEF Shared!sharedVars
<1> QED BY <1>2, <1>3, <1>4, <1>5, <1>6 DEF Next

\* The ring does what the solvers expect of it (addLearnt, getNewClause): every other
\* thread gets a clause once, in the order of the calls, and none is lost that is not
\* dropped to make room under -removeolder.
THEOREM RingIsShared == Spec => ImplementsShared
<1>1. Init => Shared!Init
  BY InitClear
<1>2. RingInv /\ [Next]_vars => [Shared!Next]_(Shared!sharedVars)
  BY StepShares
<1> QED BY <1>1, <1>2, RingHolds, PTL DEF Spec, ImplementsShared, Shared!Spec
================================================================================
