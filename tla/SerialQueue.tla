---------------------------- MODULE SerialQueue ----------------------------
(***************************************************************************)
(* What SingleThreadedSchedulerClient promises (scheduler.h:89-98 and      *)
(* :113-118): callbacks are executed one after the other, each of them     *)
(* once, in the order in which they were added, whichever thread does it.  *)
(***************************************************************************)
EXTENDS Integers, Sequences

VARIABLES
    added,      \* how many callbacks were added: they are 1 .. added
    begun,      \* how many of them have begun
    finished    \* and how many have finished

vars == <<added, begun, finished>>

Init == added = 0 /\ begun = 0 /\ finished = 0

Add == added' = added + 1 /\ UNCHANGED <<begun, finished>>

\* The next callback begins once the one before it has finished.
Begin ==
    /\ begun = finished /\ begun < added
    /\ begun' = begun + 1
    /\ UNCHANGED <<added, finished>>

End ==
    /\ finished < begun
    /\ finished' = finished + 1
    /\ UNCHANGED <<added, begun>>

Next == Add \/ Begin \/ End

Spec == Init /\ [][Next]_vars
=============================================================================
