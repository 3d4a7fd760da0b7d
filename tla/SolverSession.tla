---------------------------- MODULE SolverSession ----------------------------
(***************************************************************************)
(* What the users of SolverController rely on, whatever the pipes, the     *)
(* shared memory and the processes do: a session is open or closed; an     *)
(* open session has reported up to some decision count, and a step that    *)
(* leaves it open reports exactly the decisions it asked for: the larger   *)
(* of the decision limit and its go_ahead argument.                        *)
(***************************************************************************)
EXTENDS Naturals

CONSTANTS Limit, GoAheads

VARIABLES
  open,
  reported,  \* the decision count reported last
  asked      \* {g} during a step with go_ahead g, otherwise empty

sessionVars == <<open, reported, asked>>

Init == open = FALSE /\ reported = 0 /\ asked = {}

\* start() returned a clause graph
Open == open' = TRUE /\ reported' = 0 /\ asked' = {}

\* step() is called
Ask == /\ open
       /\ asked = {}
       /\ \E g \in GoAheads : asked' = {g}
       /\ UNCHANGED <<open, reported>>

\* step() returned a reward and the session goes on
Report == /\ open
          /\ \E g \in asked : reported' = reported + (IF g > Limit THEN g ELSE Limit)
          /\ asked' = {}
          /\ UNCHANGED open

\* a verdict, a timeout, a dead process, stop() or the next start()
Close == open' = FALSE /\ reported' = 0 /\ asked' = {}

Next == Open \/ Ask \/ Report \/ Close

Spec == Init /\ [][Next]_sessionVars
==============================================================================
