-------------------------------- MODULE Threads --------------------------------
(***************************************************************************)
(* What the modules of the smaller services share: the threads that work,  *)
(* whether they and what they call can fail, and SQL NULL.                 *)
(***************************************************************************)
EXTENDS Naturals, FiniteSets

CONSTANTS
  Workers,  \* threads of uwsgi or rq that serve one component, on every server
  Faulty,   \* threads may die, and calls to other services may fail
  None

ASSUME ThreadsAssumption == IsFiniteSet(Workers) /\ Faulty \in BOOLEAN

\* Whether a call is answered: always, unless the environment is faulty.
Answered == {TRUE, ~Faulty}
=============================================================================
