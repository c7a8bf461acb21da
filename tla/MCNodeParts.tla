----------------------------- MODULE MCNodeParts -----------------------------
(***************************************************************************)
(* Five parts of a node that share no variable: its persistent state, the  *)
(* quarantine of failing actors, the protocol traces and sessions, the     *)
(* replicated values and the explorer.  A run takes one of them (focus)    *)
(* through its steps while the others stay where they start, which shows   *)
(* of each what a run of its own would.                                    *)
(***************************************************************************)
EXTENDS NodeState, Quarantine, Sessions, Crdt, Explorer, TLC

CONSTANTS hello, bye, reportA, reportB, top, mid, low, w1, w2, w3, w4

\* top spawns mid, which spawns low; mid is spawned again, by low or the script.
MCNameOf == w1 :> top @@ w2 :> mid @@ w3 :> low @@ w4 :> mid
MCSpawns == {<<w1, w2>>, <<w2, w3>>, <<w3, w4>>}

MCDefs == {<<hello, bye>>, <<bye>>}

\* What two reports are of: the steps in order, ill typed, and the last step
\* twice, be it two calls or the future of one that is awaited twice.
Plan(l, m, fits) ==
  reportA :> [label |-> l, fits |-> TRUE] @@ reportB :> [label |-> m, fits |-> fits]
MCPlans ==
  {Plan(hello, bye, TRUE), Plan(hello, bye, FALSE), Plan(bye, bye, TRUE)}

VARIABLE focus

partsVars == <<nodeVars, quarantineVars, sessionsVars, crdtVars, explorerVars>>

\* The one start of a part that has several, for the runs of the others.
SessionsAtRest ==
  /\ def = <<bye>>
  /\ \A c \in Reports : report[c].label = bye /\ report[c].fits
ExplorerAtRest ==
  /\ depth = 0
  /\ step = [w \in Worlds |-> [a \in 1 .. NumActors |-> 0]]

PartsInit ==
  /\ focus \in {"node", "quarantine", "sessions", "crdt", "explorer"}
  /\ NodeInit /\ QuarantineInit /\ SessionsInit /\ CrdtInit /\ ExplorerInit
  /\ focus = "sessions" \/ SessionsAtRest
  /\ focus = "explorer" \/ ExplorerAtRest

PartsNext ==
  /\ UNCHANGED focus
  /\ \/ /\ focus = "node" /\ NodeNext
        /\ UNCHANGED <<quarantineVars, sessionsVars, crdtVars, explorerVars>>
     \/ /\ focus = "quarantine" /\ QuarantineNext
        /\ UNCHANGED <<nodeVars, sessionsVars, crdtVars, explorerVars>>
     \/ /\ focus = "sessions" /\ SessionsNext
        /\ UNCHANGED <<nodeVars, quarantineVars, crdtVars, explorerVars>>
     \/ /\ focus = "crdt" /\ CrdtNext
        /\ UNCHANGED <<nodeVars, quarantineVars, sessionsVars, explorerVars>>
     \/ /\ focus = "explorer" /\ ExplorerNext
        /\ UNCHANGED <<nodeVars, quarantineVars, sessionsVars, crdtVars>>

PartsSpec == PartsInit /\ [][PartsNext]_<<partsVars, focus>>

PartsTypes ==
  NodeTypes /\ QuarantineTypes /\ SessionsTypes /\ CrdtTypes /\ ExplorerTypes
=============================================================================
