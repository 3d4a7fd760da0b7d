------------------------------- MODULE OrderHeap -------------------------------
(***************************************************************************)
(* mtl/Heap.h as Solver.h uses it for order_heap: a binary heap of         *)
(* variables, largest activity first, with the index of every variable in  *)
(* it.  A heap h is a record: h.heap is the sequence of its variables and  *)
(* h.index[v] the position of v, 0 where the code has -1.  Positions count *)
(* from 1, and act gives the activities the comparison looks at.           *)
(***************************************************************************)
EXTENDS Integers, Sequences

CONSTANT Vars

ASSUME VarsAssumption == Vars \subseteq Nat \ {0}

Parent(i) == i \div 2
Left(i)   == 2 * i
Right(i)  == 2 * i + 1

InHeap(h, v) == h.index[v] # 0
Elements(h) == {h.heap[i] : i \in 1 .. Len(h.heap)}

\* VarOrderLt
Above(act, v, w) == act[v] > act[w]

Places(h) == 1 .. Len(h.heap)

\* The sequence q replaces h.heap, and differs from it at the places S only.
Rewritten(h, q, S) ==
  [heap  |-> q,
   index |-> [v \in Vars |-> IF \E i \in S : q[i] = v
                             THEN CHOOSE i \in S : q[i] = v ELSE h.index[v]]]

\* The variable at i moves up past its smaller ancestors, which come down.
PercolateUp(h, act, i) ==
  LET x == h.heap[i]
      passed[k \in 1 .. i] ==
        IF k # 1 /\ Above(act, x, h.heap[Parent(k)])
        THEN {k} \cup passed[Parent(k)] ELSE {}
      path == {i} \cup {Parent(k) : k \in passed[i]}
  IN Rewritten(h, [k \in Places(h) |->
                     IF k \in passed[i] THEN h.heap[Parent(k)]
                     ELSE IF k \in path THEN x ELSE h.heap[k]], path)

LargerChild(h, act, k) ==
  IF Right(k) \in Places(h) /\ Above(act, h.heap[Right(k)], h.heap[Left(k)])
  THEN Right(k) ELSE Left(k)

\* The variable at i moves down below its larger descendants.
PercolateDown(h, act, i) ==
  LET x == h.heap[i]
      passed[k \in Places(h)] ==
        IF /\ Left(k) \in Places(h)
           /\ Above(act, h.heap[LargerChild(h, act, k)], x)
        THEN {k} \cup passed[LargerChild(h, act, k)] ELSE {}
      path == {i} \cup {LargerChild(h, act, k) : k \in passed[i]}
  IN Rewritten(h, [k \in Places(h) |->
                     IF k \in passed[i] THEN h.heap[LargerChild(h, act, k)]
                     ELSE IF k \in path THEN x ELSE h.heap[k]], path)

LeaveInPlace(h, act, v) == h                                             \* mutant
Decrease(h, act, v) == PercolateUp(h, act, h.index[v])

Insert(h, act, v) ==
  LET n == Len(h.heap) + 1
  IN PercolateUp([heap |-> Append(h.heap, v), index |-> [h.index EXCEPT ![v] = n]],
                 act, n)

Top(h) == h.heap[1]

IndexFirst(h, last) ==                                                   \* mutant
  [[h.index EXCEPT ![Top(h)] = 0] EXCEPT ![last] = 1]
\* removeMin moves the last variable to the front before it forgets the first,
\* which may be the same.
IndexAfterMove(h, last) == [[h.index EXCEPT ![last] = 1] EXCEPT ![Top(h)] = 0]

RemoveMin(h, act) ==
  LET n == Len(h.heap)
      last == h.heap[n]
      popped == [heap  |-> SubSeq([h.heap EXCEPT ![1] = last], 1, n - 1),
                 index |-> IndexAfterMove(h, last)]
  IN IF n > 2 THEN PercolateDown(popped, act, 1) ELSE popped

\* build: the variables of ns, from the last parent to the root.
Build(h, act, ns) ==
  LET placed == [heap  |-> ns,
                 index |-> [v \in Vars |-> IF \E i \in 1 .. Len(ns) : ns[i] = v
                                           THEN CHOOSE i \in 1 .. Len(ns) : ns[i] = v
                                           ELSE 0]]
      last == Len(ns) \div 2 + 1
      down[i \in 1 .. last] == IF i = last THEN placed
                               ELSE PercolateDown(down[i + 1], act, i)
  IN down[1]

EmptyHeap == [heap |-> <<>>, index |-> [v \in Vars |-> 0]]

-----------------------------------------------------------------------------
\* What the operations are to keep: indices and sequence agree, ...
IndexAgrees(h) ==
  /\ \A i \in Places(h) : h.index[h.heap[i]] = i
  /\ \A v \in Vars : InHeap(h, v) => h.index[v] \in Places(h) /\ h.heap[h.index[v]] = v

\* ... and no variable is above a larger one.
Ordered(h, act) ==
  \A i \in Places(h) : i # 1 => ~Above(act, h.heap[i], h.heap[Parent(i)])
================================================================================
