----------------------------- MODULE ClausesBuffer -----------------------------
(***************************************************************************)
(* The ring of parallel/ClausesBuffer.cc, called under the lock            *)
(* mutexSharedClauseCompanion of SharedCompanion, so that each call is one *)
(* step.  A clause lies in the ring as its size, the number of threads     *)
(* that have still to read it, the thread it is from, and its literals.    *)
(* last is the cell before the oldest clause, lastOfThread[t] the cell     *)
(* before the next clause for t, first the first free cell.                *)
(*                                                                         *)
(* The code goes from clause to clause by their sizes.  Here the places to *)
(* which it can get that way are a set (Places), a place being a number of *)
(* cells behind last, and a loop over clauses goes to the first place      *)
(* where its condition ends it.                                            *)
(*                                                                         *)
(* Only cells in use are kept in elems, so that reading another one is an  *)
(* error of the model.  A clause is known by its size, all its literals    *)
(* being the same number.                                                  *)
(***************************************************************************)
EXTENDS Naturals, Sequences, FiniteSetsExt

CONSTANTS NbThreads,
          FifoSizeByCore,  \* -fifosize
          Sizes            \* bound: the sizes of the clauses shared

ASSUME ThreadsAssumption == NbThreads \in Nat \ {0}
ASSUME FifoAssumption == FifoSizeByCore \in Nat \ {0}
ASSUME SizesAssumption == Sizes \subseteq Nat \ {0}

Threads    == 0 .. NbThreads - 1
maxsize    == FifoSizeByCore * NbThreads
headerSize == 3
Literal    == NbThreads + maxsize    \* no size, count or thread

Nothing == [call |-> "nothing"]
Taken   == [call |-> "taken"]
Refused == [call |-> "refused"]

VARIABLES elems, first, last, queuesize, lastOfThread,
          whenFullRemoveOlder,       \* -removeolder
          answer                     \* what the last call returned

vars == <<elems, first, last, queuesize, lastOfThread, whenFullRemoveOlder, answer>>

Cells == 0 .. maxsize - 1
nextIndex(i)   == IF i + 1 = maxsize THEN 0 ELSE i + 1
addIndex(i, a) == IF i + a >= maxsize THEN i + a - maxsize ELSE i + a

\* setNbThreads
Init ==
  /\ elems = <<>>
  /\ first = 0
  /\ last = maxsize - 1
  /\ queuesize = 0
  /\ lastOfThread = [t \in Threads |-> maxsize - 1]
  /\ whenFullRemoveOlder \in BOOLEAN
  /\ answer = Nothing

-----------------------------------------------------------------------------
\* The clause behind cell i of the cells e.
Size(e, i)   == e[nextIndex(i)]
NbSeen(e, i) == e[addIndex(i, 2)]
Origin(e, i) == e[addIndex(i, 3)]

\* Where clauses begin among the cells e, of which the q behind cell l are in use, and
\* where the next one will.
Begins(e, l, q) ==
  LET from[x \in 0 .. q] ==
        LET y == x + Size(e, addIndex(l, x)) + headerSize
        IN {x} \cup (IF x < q /\ y <= q THEN from[y] ELSE {})
  IN from[0]

Distance(i, j) == IF i <= j THEN j - i ELSE j + maxsize - i

Cell(x)    == addIndex(last, x)
PlaceOf(i) == Distance(last, i)
Places     == Begins(elems, last, queuesize)
After(x)   == x + Size(elems, Cell(x)) + headerSize

\* removeLastClause goes on behind the first clause until the ring is empty or
\* there is a clause that somebody has still to read.
AnyPlace(e) == Places                                                   \* mutant
Stops(e) == {x \in Places : x = queuesize \/ NbSeen(e, Cell(x)) # 0}
RemoveLastClause(e) == Min({x \in Stops(e) : x > 0})

\* The ring e without the clauses before place x.  A thread that was about to read
\* one of them goes on at x.
LeftBehind(e, x) ==                                                     \* mutant
  [elems |-> [c \in {Cell(k) : k \in x + 1 .. queuesize} |-> e[c]],
   last |-> Cell(x), queuesize |-> queuesize - x, lastOfThread |-> lastOfThread]
Without(e, x) ==
  LET removed == {Cell(y) : y \in {z \in Places : z < x}}
  IN [elems |-> [c \in {Cell(k) : k \in x + 1 .. queuesize} |-> e[c]],
      last |-> Cell(x),
      queuesize |-> queuesize - x,
      lastOfThread |-> [t \in Threads |-> IF lastOfThread[t] \in removed THEN Cell(x)
                                          ELSE lastOfThread[t]]]

Fits(used, s) == used + s + headerSize < maxsize

\* pushClause calls removeLastClause until there is room for s literals.
MakeRoom(s) == Min({x \in Stops(elems) \cup {0} : Fits(queuesize - x, s)})

Everyone == NbThreads                                                   \* mutant
Waiting == IF NbThreads > 1 THEN NbThreads - 1 ELSE 1

\* What pushClause writes for a clause of s literals of thread t.
Written(t, s) == [k \in 0 .. s + headerSize - 1 |->
                    CASE k = 0 -> s [] k = 1 -> Waiting [] k = 2 -> t [] OTHER -> Literal]

\* pushClause
Push(t, s) ==
  /\ whenFullRemoveOlder \/ Fits(queuesize, s)
  /\ s + headerSize < maxsize
  /\ LET b   == Without(elems, MakeRoom(s))
         new == {addIndex(first, k) : k \in 0 .. s + headerSize - 1}
     IN /\ elems' = [c \in DOMAIN b.elems \cup new |->
                       IF c \in new THEN Written(t, s)[Distance(first, c)] ELSE b.elems[c]]
        /\ queuesize' = b.queuesize + s + headerSize
        /\ last' = b.last
        /\ lastOfThread' = b.lastOfThread
  /\ first' = addIndex(first, s + headerSize)
  /\ answer' = Taken
  /\ UNCHANGED whenFullRemoveOlder

Refuse(s) ==
  /\ ~whenFullRemoveOlder
  /\ ~Fits(queuesize, s)
  /\ answer' = Refused
  /\ UNCHANGED <<elems, first, last, queuesize, lastOfThread, whenFullRemoveOlder>>

\* getClause begins anew where the cursor of t has been left behind by last.
Behind(i) == \/ i < last /\ last < first
             \/ first < i /\ i < last
             \/ last < first /\ first < i
Cursor(t) == IF Behind(lastOfThread[t]) THEN 0 ELSE PlaceOf(lastOfThread[t])

\* It passes over the thread's own clauses.
NextClause(t) == Cursor(t)                                              \* mutant
NextForeign(t) ==
  Min({x \in Places : /\ Cursor(t) <= x
                      /\ x = queuesize \/ Origin(elems, Cell(x)) # t})

\* getClause, when there is one.  If it was the oldest, and t the last to read it, it
\* is removed, and t goes on where the ring now begins.
Get(t) ==
  LET x     == NextForeign(t)
      read  == [elems EXCEPT ![addIndex(Cell(x), 2)] = @ - 1]
      gone  == x = 0 /\ NbSeen(read, Cell(x)) = 0
      begin == IF gone THEN RemoveLastClause(read) ELSE 0
      b     == Without(read, begin)
  IN /\ x # queuesize
     /\ answer' = [thread |-> t, clause |-> Size(elems, Cell(x))]
     /\ elems' = b.elems
     /\ last' = b.last
     /\ queuesize' = b.queuesize
     /\ lastOfThread' = [b.lastOfThread EXCEPT ![t] = Cell(IF gone THEN begin ELSE After(x))]
     /\ UNCHANGED <<first, whenFullRemoveOlder>>

\* getClause, when there is none left for t.
GetNothing(t) ==
  /\ NextForeign(t) = queuesize
  /\ lastOfThread' = [lastOfThread EXCEPT ![t] = Cell(queuesize)]
  /\ answer' = Nothing
  /\ UNCHANGED <<elems, first, last, queuesize, whenFullRemoveOlder>>

Next == \/ \E s \in Sizes : Refuse(s)
        \/ \E t \in Threads : (\E s \in Sizes : Push(t, s)) \/ Get(t) \/ GetNothing(t)

Spec == Init /\ [][Next]_vars

-----------------------------------------------------------------------------
Starts == Places \ {queuesize}

\* Thread t has still to pass the clause at place x.
Ahead(t, x) == PlaceOf(lastOfThread[t]) <= x

TypeOK ==
  /\ DOMAIN elems \subseteq Cells
  /\ \A c \in DOMAIN elems : elems[c] \in 0 .. Literal
  /\ first \in Cells /\ last \in Cells
  /\ queuesize \in 0 .. maxsize - 1
  /\ lastOfThread \in [Threads -> Cells]
  /\ whenFullRemoveOlder \in BOOLEAN
  /\ answer \in {Nothing, Taken, Refused} \cup [thread : Threads, clause : Sizes]

\* The clauses fill exactly the cells in use, up to the first free one, and every
\* thread's cursor stands before a clause of the ring or at its end, also after clauses
\* it had not read were dropped: the branch of getClause for a cursor "no more valid (is
\* behind)" is never taken (ClausesBuffer.cc:192-197).
RingConsistent ==
  /\ TypeOK
  /\ DOMAIN elems = UNION {{Cell(k) : k \in x + 1 .. After(x)} : x \in Starts}
  /\ queuesize = Cardinality(DOMAIN elems)
  /\ nextIndex(Cell(queuesize)) = first
  /\ \A t \in Threads : /\ PlaceOf(lastOfThread[t]) \in Places
                        /\ ~Behind(lastOfThread[t])

\* The count kept with a clause is the number of the other threads that have not
\* read it, so that the last of them, and nobody before, lets it go.
CountsReaders ==
  \A x \in Starts :
    NbSeen(elems, Cell(x))
      = Cardinality({t \in Threads \ {Origin(elems, Cell(x))} : Ahead(t, x)})

\* The oldest clause of the ring is always one that somebody has still to read: no
\* room is held by clauses everyone has read while new ones are refused.
OldestWanted == queuesize > 0 => NbSeen(elems, last) > 0

\* The ring is a blackboard that gives each thread the clauses of the others: the
\* clauses at place x and behind that thread t gets.
UnreadFrom(e, l, q, t) ==
  LET from[x \in Begins(e, l, q)] ==
        IF x = q THEN <<>>
        ELSE LET i == addIndex(l, x) IN
               (IF Origin(e, i) = t THEN <<>> ELSE <<Size(e, i)>>)
                 \o from[x + Size(e, i) + headerSize]
  IN from

Unread(t) == UnreadFrom(elems, last, queuesize, t)[PlaceOf(lastOfThread[t])]

unread == [t \in Threads |-> Unread(t)]

Shared == INSTANCE SharedClauses WITH Clauses <- Sizes, lossy <- whenFullRemoveOlder

\* Every call of addLearnt and getNewClause does what SharedClauses says: no clause
\* is given twice, out of order, or to its own thread, and none is lost without
\* -removeolder.
ImplementsShared == Shared!Spec
==============================================================================
