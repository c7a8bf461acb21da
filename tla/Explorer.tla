------------------------------ MODULE Explorer ------------------------------
(***************************************************************************)
(* ModelChecker of aipl_modelcheck.py: breadth-first search of the worlds  *)
(* a set of actors can be in, up to a depth, and the verdict of            *)
(* check_deadlock_free with its counter-example.  A world is what its      *)
(* signature tells apart; step_actor is a function, because handlers are   *)
(* deterministic by contract.                                              *)
(***************************************************************************)
EXTENDS Integers, Sequences

CONSTANTS
  Worlds,
  Start,     \* the world init() builds
  NumActors, \* how many; sorted() orders them
  Final,     \* the worlds is_terminal accepts
  MaxDepth   \* bound: of the depth the search is given

ASSUME ExplorerAssumption ==
  Start \in Worlds /\ NumActors \in Nat /\ MaxDepth \in Nat /\ 0 \notin Worlds

VARIABLES
  step,      \* step[w][a]: the world after a takes its next message in w; 0
             \* when its mailbox is empty
  depth,     \* the depth the search is given
  visited,   \* the depth of the worlds found; -1 for the others
  parent,
  action,
  frontier,
  turn       \* the actor whose step is explored next

explorerVars ==
  <<step, depth, visited, parent, action, frontier, turn>>
explorerTask == <<step, depth>>

ExplorerTypes ==
  /\ step \in [Worlds -> [1 .. NumActors -> Worlds \cup {0}]]
  /\ depth \in 0 .. MaxDepth
  /\ visited \in [Worlds -> -1 .. depth]
  /\ parent \in [Worlds -> Worlds \cup {0}]
  /\ action \in [Worlds -> 0 .. NumActors]
  /\ frontier \in Seq(Worlds)
  /\ turn \in 1 .. NumActors + 1

ExplorerInit ==
  /\ step \in [Worlds -> [1 .. NumActors -> Worlds \cup {0}]]
  /\ depth \in 0 .. MaxDepth
  /\ visited = [w \in Worlds |-> IF w = Start THEN 0 ELSE -1]
  /\ parent = [w \in Worlds |-> 0] /\ action = [w \in Worlds |-> 0]
  /\ frontier = <<Start>>
  /\ turn = 1

Found == {w \in Worlds : visited[w] >= 0}
Stuck(w) == (\A a \in 1 .. NumActors : step[w][a] = 0) /\ w \notin Final

-----------------------------------------------------------------------------
\* The world at the head is done with, or too deep to be explored.
Pop ==
  /\ frontier # <<>>
  /\ turn > NumActors \/ visited[Head(frontier)] >= depth
  /\ frontier' = Tail(frontier)
  /\ turn' = 1
  /\ UNCHANGED <<visited, parent, action>> /\ UNCHANGED explorerTask

\* Faulty variant: the worlds at the depth are explored as well.
ExploreTooDeep ==
  /\ frontier # <<>> /\ turn <= NumActors
  /\ LET w == Head(frontier)
         c == step[w][turn]
     IN /\ visited[w] <= depth
        /\ IF c \notin Found \cup {0}
             THEN /\ visited' = [visited EXCEPT ![c] = visited[w] + 1]
                  /\ parent' = [parent EXCEPT ![c] = w]
                  /\ action' = [action EXCEPT ![c] = turn]
                  /\ frontier' = Append(frontier, c)
             ELSE UNCHANGED <<visited, parent, action, frontier>>
  /\ turn' = turn + 1
  /\ UNCHANGED explorerTask

\* One runnable actor takes its step on a copy of the world at the head.
Explore ==
  /\ frontier # <<>> /\ turn <= NumActors
  /\ LET w == Head(frontier)
         c == step[w][turn]
     IN /\ visited[w] < depth
        /\ IF c \notin Found \cup {0}
             THEN /\ visited' = [visited EXCEPT ![c] = visited[w] + 1]
                  /\ parent' = [parent EXCEPT ![c] = w]
                  /\ action' = [action EXCEPT ![c] = turn]
                  /\ frontier' = Append(frontier, c)
             ELSE UNCHANGED <<visited, parent, action, frontier>>
  /\ turn' = turn + 1
  /\ UNCHANGED explorerTask

ExplorerNext == Pop \/ Explore

ExplorerSpec == ExplorerInit /\ [][ExplorerNext]_explorerVars

-----------------------------------------------------------------------------
\* check_deadlock_free, when the search is over.
Deadlocks == {w \in Found : Stuck(w)}
Shallowest == CHOOSE w \in Deadlocks : \A v \in Deadlocks : visited[w] <= visited[v]

\* The trace of a world, from the start: chain, reversed.
Trace(w) ==
  LET back[k \in 0 .. visited[w]] == IF k = 0 THEN w ELSE parent[back[k - 1]]
  IN [k \in 1 .. visited[w] |-> action[back[visited[w] - k]]]

\* The worlds that can be reached in at most n steps.
OneStepFrom(S) == {step[w][a] : w \in S, a \in 1 .. NumActors} \ {0}
Reach ==
  LET within[n \in 0 .. MaxDepth] ==
        IF n = 0 THEN {Start} ELSE within[n - 1] \cup OneStepFrom(within[n - 1])
  IN within

RunOf(trace) ==
  LET at[k \in 0 .. Len(trace)] ==
        IF k = 0 THEN Start ELSE step[at[k - 1]][trace[k]]
  IN at[Len(trace)]

\* The verdict: the search finds every world that can be reached within the
\* depth and no other, so that it reports a deadlock exactly when there is
\* one to be found, and the trace it prints leads there, by a shortest way.
VerdictRight ==
  frontier = <<>> =>
    /\ Found = Reach[depth]
    /\ Deadlocks # {} =>
         /\ RunOf(Trace(Shallowest)) = Shallowest
         /\ \A n \in 0 .. depth :
              n < Len(Trace(Shallowest)) => \A w \in Reach[n] : ~Stuck(w)
=============================================================================
