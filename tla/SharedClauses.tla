----------------------------- MODULE SharedClauses -----------------------------
(***************************************************************************)
(* What the solvers of a parallel run may expect of the blackboard through *)
(* which they exchange clauses (SharedCompanion::addLearnt, getNewClause): *)
(* a clause goes to every other thread, once, in the order of the calls,   *)
(* and never comes back to the thread it is from.  When the blackboard is  *)
(* full a clause is refused or, with -removeolder, the oldest ones are     *)
(* lost to the threads that have not read them.                            *)
(***************************************************************************)
EXTENDS Sequences, Naturals

CONSTANTS Threads, Clauses

VARIABLES unread,  \* unread[t]: the clauses t has still to get, oldest first
          answer,  \* what the last call returned
          lossy    \* older clauses may be dropped

sharedVars == <<unread, answer, lossy>>

Nothing == [call |-> "nothing"]
Taken   == [call |-> "taken"]
Refused == [call |-> "refused"]

Clear == /\ unread = [t \in Threads |-> <<>>]
         /\ lossy \in BOOLEAN

Init == Clear /\ answer = Nothing

\* What may be left of the list q after the loss of its oldest clauses.
Rests(q) == IF lossy THEN {SubSeq(q, n + 1, Len(q)) : n \in 0 .. Len(q)} ELSE {q}

\* The lists thread u may be left with when t adds c.
Lists(u, t, c) == IF u = t THEN Rests(unread[u])
                  ELSE {Append(q, c) : q \in Rests(unread[u])}

Put(t, c) ==
  /\ unread' \in {q \in [Threads -> UNION {Lists(u, t, c) : u \in Threads}] :
                    \A u \in Threads : q[u] \in Lists(u, t, c)}
  /\ UNCHANGED lossy

Take(t, c) ==
  /\ unread[t] # <<>>
  /\ c = Head(unread[t])
  /\ unread' = [unread EXCEPT ![t] = Tail(@)]
  /\ UNCHANGED lossy

Add(t, c)     == answer' = Taken /\ Put(t, c)
Refuse        == answer' = Refused /\ ~lossy /\ UNCHANGED <<unread, lossy>>
Get(t, c)     == answer' = [thread |-> t, clause |-> c] /\ Take(t, c)
GetNothing(t) == answer' = Nothing /\ unread[t] = <<>> /\ UNCHANGED <<unread, lossy>>

Next == \/ Refuse
        \/ \E t \in Threads, c \in Clauses : Add(t, c) \/ Get(t, c)
        \/ \E t \in Threads : GetNothing(t)

Spec == Init /\ [][Next]_sharedVars
================================================================================
