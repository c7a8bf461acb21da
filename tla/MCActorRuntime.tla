--------------------------- MODULE MCActorRuntime ---------------------------
(***************************************************************************)
(* Instances of ActorRuntime for TLC.                                      *)
(***************************************************************************)
EXTENDS ActorRuntime

CONSTANTS a1, a2, st

\* Everybody knows both actors, which may block on each other's replies and
\* on their own.
AllSends   == Proc \X Actor
ActorCalls == Actor \X Actor

\* The script uses both actors, and a2 uses a1, in the name of a2 before it has
\* started, too.
LeakySends == {<<Main, a1>>, <<Main, a2>>, <<a2, a1>>}
LeakyCalls == {<<a2, a1>>}

\* A layered program: the script uses a1, a1 uses a2, a stream delivers to a2.
\* Answers still flow back, by reply.
LayeredSends == {<<Main, a1>>, <<a1, a2>>, <<st, a2>>}
LayeredCalls == {<<Main, a1>>, <<a1, a2>>}
=============================================================================
