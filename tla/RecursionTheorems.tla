--------------------------- MODULE RecursionTheorems ---------------------------
(***************************************************************************)
(* Induction and recursion over 0 .. n, stated for sets and functions.     *)
(***************************************************************************)
EXTENDS Integers, WellFoundedInduction, TLAPS

\* How a function goes on, or back, at each place of 0 .. n.
Steps(n, S) == [0 .. n - 1 -> [S -> S]]

\* f is the function on 0 .. n that starts with x, or ends with it, and otherwise is
\* what step makes of its value at the place before, or after.
GoesUp(f, n, S, x, step) ==
  /\ f \in [0 .. n -> S]
  /\ f[0] = x
  /\ \A i \in 0 .. n - 1 : f[i + 1] = step[i][f[i]]
GoesDown(f, n, S, x, step) ==
  /\ f \in [0 .. n -> S]
  /\ f[n] = x
  /\ \A i \in 0 .. n - 1 : f[i] = step[i][f[i + 1]]

-----------------------------------------------------------------------------
\* Every set of numbers has a least one.
LEMMA LeastNumber ==
  ASSUME NEW T, T \subseteq Nat, T # {}
  PROVE  \E m \in T : \A k \in T : m <= k
<1>1. PICK m \in T : \A k \in T : ~(<<k, m>> \in OpToRel(<, Nat))
  BY NatLessThanWellFounded, WFMin
<1>2. \A k \in T : ~(k < m)
  BY <1>1 DEF OpToRel
<1> QED
  BY <1>2

\* What is true of 0, and of i + 1 if of i, is true up to n ...
LEMMA UpInduction ==
  ASSUME NEW n \in Nat, NEW P, 0 \in P,
         \A i \in 0 .. n - 1 : i \in P => i + 1 \in P
  PROVE  \A i \in 0 .. n : i \in P
<1> DEFINE T == (0 .. n) \ P
<1> SUFFICES ASSUME T # {} PROVE FALSE
  OBVIOUS
<1>0. T \subseteq Nat
  OBVIOUS
<1>1. PICK m \in T : \A k \in T : m <= k
  <2> HIDE DEF T
  <2> QED BY <1>0, LeastNumber
<1>2. m - 1 \in 0 .. n - 1 /\ m - 1 \in P
  BY <1>1
<1> QED
  BY <1>1, <1>2

\* ... and what is true of n, and of i if of i + 1, down to 0.
LEMMA DownInduction ==
  ASSUME NEW n \in Nat, NEW P, n \in P,
         \A i \in 0 .. n - 1 : i + 1 \in P => i \in P
  PROVE  \A i \in 0 .. n : i \in P
<1> DEFINE Q == {n - i : i \in P \cap (0 .. n)}
<1>1. 0 \in Q
  OBVIOUS
<1>2. \A i \in 0 .. n - 1 : i \in Q => i + 1 \in Q
  <2> SUFFICES ASSUME NEW i \in 0 .. n - 1, i \in Q PROVE i + 1 \in Q
    OBVIOUS
  <2>1. PICK j \in P \cap (0 .. n) : i = n - j
    OBVIOUS
  <2>2. j - 1 \in 0 .. n - 1 /\ (j - 1) + 1 = j /\ i + 1 = n - (j - 1)
    BY <2>1
  <2>3. j - 1 \in P \cap (0 .. n)
    BY <2>2
  <2> QED
    BY <2>2, <2>3
<1>3. \A i \in 0 .. n : i \in Q
  <2> HIDE DEF Q
  <2> QED BY <1>1, <1>2, UpInduction
<1>4. ASSUME NEW i \in 0 .. n PROVE i \in P
  <2>1. n - i \in Q
    BY <1>3
  <2>2. PICK j \in P \cap (0 .. n) : n - i = n - j
    BY <2>1
  <2> QED BY <2>2
<1> QED
  BY <1>4

\* A function may be defined on 0 .. n by its first value and what follows each value,
LEMMA UpRecursion ==
  ASSUME NEW n \in Nat, NEW S, NEW x \in S, NEW step \in Steps(n, S)
  PROVE  \E f : GoesUp(f, n, S, x, step)
<1> DEFINE P == {m \in 0 .. n : \E f : GoesUp(f, m, S, x, step)}
<1>0. step \in [0 .. n - 1 -> [S -> S]]
  BY DEF Steps
<1>1. 0 \in P
  <2> DEFINE g == [i \in 0 .. 0 |-> x]
  <2>1. GoesUp(g, 0, S, x, step)
    BY DEF GoesUp
  <2> QED
    <3> HIDE DEF g
    <3> QED BY <2>1
<1>2. ASSUME NEW m \in 0 .. n - 1, m \in P PROVE m + 1 \in P
  <2>1. PICK f : GoesUp(f, m, S, x, step)
    BY <1>2
  <2> DEFINE g == [i \in 0 .. m + 1 |-> IF i = m + 1 THEN step[m][f[m]] ELSE f[i]]
  <2>2. f[m] \in S /\ step[m][f[m]] \in S
    BY <1>0, <2>1 DEF GoesUp
  <2>3. g \in [0 .. m + 1 -> S]
    BY <2>1, <2>2 DEF GoesUp
  <2>4. g[0] = x
    BY <2>1 DEF GoesUp
  <2>5. ASSUME NEW i \in 0 .. m PROVE g[i + 1] = step[i][g[i]]
    <3>1. CASE i = m
      BY <3>1
    <3>2. CASE i # m
      <4>1. i \in 0 .. m - 1 /\ i + 1 \in 0 .. m
        BY <3>2
      <4>2. f[i + 1] = step[i][f[i]]
        BY <4>1, <2>1 DEF GoesUp
      <4>3. g[i] = f[i] /\ g[i + 1] = f[i + 1]
        BY <4>1
      <4> QED BY <4>2, <4>3
    <3> QED BY <3>1, <3>2
  <2>6. GoesUp(g, m + 1, S, x, step)
    <3> HIDE DEF g
    <3>1. (m + 1) - 1 = m
      OBVIOUS
    <3> QED BY <2>3, <2>4, <2>5, <3>1 DEF GoesUp
  <2>7. m + 1 \in 0 .. n
    OBVIOUS
  <2> QED
    <3> HIDE DEF g
    <3> QED BY <2>6, <2>7
<1>3. n \in P
  <2> HIDE DEF P
  <2>1. \A i \in 0 .. n : i \in P
    BY <1>1, <1>2, UpInduction
  <2> QED BY <2>1
<1> QED
  BY <1>3

\* or by its last value and what precedes each value.
LEMMA DownRecursion ==
  ASSUME NEW n \in Nat, NEW S, NEW x \in S, NEW step \in Steps(n, S)
  PROVE  \E f : GoesDown(f, n, S, x, step)
<1> DEFINE back == [j \in 0 .. n - 1 |-> step[n - 1 - j]]
<1>1. back \in Steps(n, S)
  <2> SUFFICES ASSUME NEW j \in 0 .. n - 1 PROVE step[n - 1 - j] \in [S -> S]
    BY DEF Steps
  <2>1. n - 1 - j \in 0 .. n - 1
    OBVIOUS
  <2> QED BY <2>1 DEF Steps
<1>2. PICK h : GoesUp(h, n, S, x, back)
  <2> HIDE DEF back
  <2> QED BY <1>1, UpRecursion
<1> DEFINE f == [i \in 0 .. n |-> h[n - i]]
<1>3. f \in [0 .. n -> S] /\ f[n] = x
  BY <1>2 DEF GoesUp
<1>4. ASSUME NEW i \in 0 .. n - 1 PROVE f[i] = step[i][f[i + 1]]
  <2> DEFINE j == n - 1 - i
  <2>1. j \in 0 .. n - 1 /\ n - i = j + 1 /\ n - (i + 1) = j /\ n - 1 - j = i
    OBVIOUS
  <2>2. f[i] = h[j + 1] /\ f[i + 1] = h[j]
    BY <2>1
  <2>3. h[j + 1] = back[j][h[j]] /\ h[j] \in S
    BY <1>2, <2>1 DEF GoesUp
  <2>4. back[j][h[j]] = step[n - 1 - j][h[j]]
    BY <2>1, <2>3
  <2> QED BY <2>1, <2>2, <2>3, <2>4
<1>5. GoesDown(f, n, S, x, step)
  <2> HIDE DEF f
  <2> QED BY <1>3, <1>4 DEF GoesDown
<1> QED
  <2> HIDE DEF f
  <2> QED BY <1>5

-----------------------------------------------------------------------------
\* How a function is made at each place of 1 .. n from its values at places before, or
\* after.
LooksBack(n, S, step) ==
  /\ step \in [1 .. n -> [[1 .. n -> S] -> S]]
  /\ \A k \in 1 .. n : \A f, g \in [1 .. n -> S] :
       (\A m \in 1 .. k - 1 : f[m] = g[m]) => step[k][f] = step[k][g]
LooksAhead(n, S, step) ==
  /\ step \in [1 .. n -> [[1 .. n -> S] -> S]]
  /\ \A k \in 1 .. n : \A f, g \in [1 .. n -> S] :
       (\A m \in k + 1 .. n : f[m] = g[m]) => step[k][f] = step[k][g]

\* A function on 1 .. n may be defined at each place from its values at any places
\* before, ...
LEMMA EarlierRecursion ==
  ASSUME NEW n \in Nat, NEW S, NEW x \in S, NEW step, LooksBack(n, S, step)
  PROVE  \E f \in [1 .. n -> S] : \A k \in 1 .. n : f[k] = step[k][f]
<1> DEFINE W == [1 .. n -> S]
           more == [j \in 0 .. n - 1 |-> [f \in W |-> [f EXCEPT ![j + 1] = step[j + 1][f]]]]
           start == [k \in 1 .. n |-> x]
<1>0. /\ step \in [1 .. n -> [[1 .. n -> S] -> S]]
      /\ \A k \in 1 .. n : \A f, g \in [1 .. n -> S] :
           (\A m \in 1 .. k - 1 : f[m] = g[m]) => step[k][f] = step[k][g]
  BY DEF LooksBack
<1>1. more \in Steps(n, W)
  <2> SUFFICES ASSUME NEW j \in 0 .. n - 1, NEW f \in W
               PROVE  [f EXCEPT ![j + 1] = step[j + 1][f]] \in W
    BY DEF Steps
  <2>1. j + 1 \in 1 .. n /\ step[j + 1][f] \in S
    BY <1>0
  <2> QED BY <2>1
<1>2. PICK g : GoesUp(g, n, W, start, more)
  <2>1. start \in W
    OBVIOUS
  <2> HIDE DEF more, start, W
  <2> QED BY <1>1, <2>1, UpRecursion
<1>3. ASSUME NEW j \in 0 .. n - 1
      PROVE  /\ g[j] \in W /\ g[j + 1] \in W /\ j + 1 \in 1 .. n
             /\ g[j + 1][j + 1] = step[j + 1][g[j]]
             /\ \A m \in 1 .. n : m # j + 1 => g[j + 1][m] = g[j][m]
  <2>1. g[j] \in W /\ g[j + 1] \in W /\ j + 1 \in 1 .. n
    BY <1>2 DEF GoesUp
  <2>2. g[j + 1] = more[j][g[j]]
    BY <1>2 DEF GoesUp
  <2>3. g[j + 1] = [g[j] EXCEPT ![j + 1] = step[j + 1][g[j]]]
    BY <2>1, <2>2
  <2> QED BY <2>1, <2>3
<1> DEFINE P == {j \in 0 .. n : \A k \in 1 .. j : g[j][k] = step[k][g[j]]}
<1>4. 0 \in P
  OBVIOUS
<1>5. ASSUME NEW j \in 0 .. n - 1, j \in P PROVE j + 1 \in P
  <2> SUFFICES ASSUME NEW k \in 1 .. j + 1 PROVE g[j + 1][k] = step[k][g[j + 1]]
    OBVIOUS
  <2>1. k \in 1 .. n /\ \A m \in 1 .. k - 1 : m \in 1 .. n /\ m # j + 1
    OBVIOUS
  <2>2. step[k][g[j]] = step[k][g[j + 1]]
    <3>1. \A m \in 1 .. k - 1 : g[j][m] = g[j + 1][m]
      BY <1>3, <2>1
    <3>2. g[j] \in [1 .. n -> S] /\ g[j + 1] \in [1 .. n -> S]
      BY <1>3
    <3> HIDE DEF more, start, W, P
    <3> QED BY <1>0, <2>1, <3>1, <3>2
  <2>3. g[j + 1][k] = step[k][g[j]]
    <3>1. CASE k = j + 1
      BY <1>3, <3>1
    <3>2. CASE k # j + 1
      <4>1. k \in 1 .. j
        BY <3>2
      <4>2. g[j][k] = step[k][g[j]]
        BY <1>5, <4>1
      <4> QED BY <1>3, <2>1, <3>2, <4>2
    <3> QED BY <3>1, <3>2
  <2> QED BY <2>2, <2>3
<1>6. n \in P
  <2> HIDE DEF P
  <2>1. \A j \in 0 .. n : j \in P
    BY <1>4, <1>5, UpInduction
  <2> QED BY <2>1
<1>7. g[n] \in W
  BY <1>2 DEF GoesUp
<1> QED BY <1>6, <1>7

\* ... or after.
LEMMA LaterRecursion ==
  ASSUME NEW n \in Nat, NEW S, NEW x \in S, NEW step, LooksAhead(n, S, step)
  PROVE  \E f \in [1 .. n -> S] : \A k \in 1 .. n : f[k] = step[k][f]
<1> DEFINE W == [1 .. n -> S]
           more == [j \in 0 .. n - 1 |-> [f \in W |-> [f EXCEPT ![j + 1] = step[j + 1][f]]]]
           start == [k \in 1 .. n |-> x]
<1>0. /\ step \in [1 .. n -> [[1 .. n -> S] -> S]]
      /\ \A k \in 1 .. n : \A f, g \in [1 .. n -> S] :
           (\A m \in k + 1 .. n : f[m] = g[m]) => step[k][f] = step[k][g]
  BY DEF LooksAhead
<1>1. more \in Steps(n, W)
  <2> SUFFICES ASSUME NEW j \in 0 .. n - 1, NEW f \in W
               PROVE  [f EXCEPT ![j + 1] = step[j + 1][f]] \in W
    BY DEF Steps
  <2>1. j + 1 \in 1 .. n /\ step[j + 1][f] \in S
    BY <1>0
  <2> QED BY <2>1
<1>2. PICK g : GoesDown(g, n, W, start, more)
  <2>1. start \in W
    OBVIOUS
  <2> HIDE DEF more, start, W
  <2> QED BY <1>1, <2>1, DownRecursion
<1>3. ASSUME NEW j \in 0 .. n - 1
      PROVE  /\ g[j] \in W /\ g[j + 1] \in W /\ j + 1 \in 1 .. n
             /\ g[j][j + 1] = step[j + 1][g[j + 1]]
             /\ \A m \in 1 .. n : m # j + 1 => g[j][m] = g[j + 1][m]
  <2>1. g[j] \in W /\ g[j + 1] \in W /\ j + 1 \in 1 .. n
    BY <1>2 DEF GoesDown
  <2>2. g[j] = more[j][g[j + 1]]
    BY <1>2 DEF GoesDown
  <2>3. g[j] = [g[j + 1] EXCEPT ![j + 1] = step[j + 1][g[j + 1]]]
    BY <2>1, <2>2
  <2> QED BY <2>1, <2>3
<1> DEFINE P == {j \in 0 .. n : \A k \in j + 1 .. n : g[j][k] = step[k][g[j]]}
<1>4. n \in P
  OBVIOUS
<1>5. ASSUME NEW j \in 0 .. n - 1, j + 1 \in P PROVE j \in P
  <2> SUFFICES ASSUME NEW k \in j + 1 .. n PROVE g[j][k] = step[k][g[j]]
    OBVIOUS
  <2>1. k \in 1 .. n /\ \A m \in k + 1 .. n : m \in 1 .. n /\ m # j + 1
    OBVIOUS
  <2>2. step[k][g[j]] = step[k][g[j + 1]]
    <3>1. \A m \in k + 1 .. n : g[j][m] = g[j + 1][m]
      BY <1>3, <2>1
    <3>2. g[j] \in [1 .. n -> S] /\ g[j + 1] \in [1 .. n -> S]
      BY <1>3
    <3> HIDE DEF more, start, W, P
    <3> QED BY <1>0, <2>1, <3>1, <3>2
  <2>3. g[j][k] = step[k][g[j + 1]]
    <3>1. CASE k = j + 1
      BY <1>3, <3>1
    <3>2. CASE k # j + 1
      <4>1. k \in (j + 1) + 1 .. n
        BY <3>2
      <4>2. g[j + 1][k] = step[k][g[j + 1]]
        BY <1>5, <4>1
      <4> QED BY <1>3, <2>1, <3>2, <4>2
    <3> QED BY <3>1, <3>2
  <2> QED BY <2>2, <2>3
<1>6. 0 \in P
  <2> HIDE DEF P
  <2>1. \A j \in 0 .. n : j \in P
    BY <1>4, <1>5, DownInduction
  <2> QED BY <2>1
<1>7. g[0] \in W
  BY <1>2 DEF GoesDown
<1>8. \A k \in 1 .. n : g[0][k] = step[k][g[0]]
  BY <1>6
<1> HIDE DEF more, start, P
<1> QED BY <1>7, <1>8
================================================================================
