----------------------------- MODULE Quarantine -----------------------------
(***************************************************************************)
(* Quarantine of failing actors, as dispatch, spawn_actor and the worker   *)
(* loop use aipl_dist.py with AIPL_DIST_SUBTREE_QUARANTINE set: an actor   *)
(* whose handler raises is quarantined with everything it has spawned, one *)
(* name at a time, while the other workers go on and the clock runs.  The  *)
(* tree and the entries are kept by name, and a name may be spawned again: *)
(* its new actor has a worker of its own, and a new parent.                *)
(***************************************************************************)
EXTENDS Integers, FiniteSets

CONSTANTS
  Names,    \* the names of actors
  Workers,  \* the workers of all the actors that are ever spawned
  NameOf,   \* the name of the actor of a worker
  Script,   \* the workers of the actors the script spawns
  Spawns,   \* <<w, v>>: a handler of w's actor spawns the actor of v
  Failing,  \* the workers whose actor has a handler that raises
  Ttl,      \* AIPL_DIST_QUARANTINE_TTL, in ticks
  MaxTime   \* bound: of the clock

ASSUME QuarantineAssumption ==
  /\ IsFiniteSet(Names)
  /\ NameOf \in [Workers -> Names]
  /\ Ttl \in Nat \ {0} /\ MaxTime \in Nat

VARIABLES
  now,
  tree,     \* _SPAWN_PARENT: <<child, parent>>, one parent for each child
  mode,     \* what each worker does
  expires,  \* _QUARANTINE; 0 when there is no entry
  marked,   \* quarantine_actor on a worker: the name, and the expiry it has
  till,     \*   computed and not yet written
  unswept,     \* quarantine_subtree on a worker: the names still to do
  doomed,   \* history: who descended from the actor when its tree was copied
  until,    \* history: the expiry that failure gave the actor itself
  lowered   \* history: the names that had an entry replaced by an older one

quarantineVars ==
  <<now, tree, mode, expires, marked, till, unswept, doomed, until, lowered>>

Children(S) == {e[1] : e \in {f \in tree : f[2] \in S}}

\* descendants_of walks breadth first, generation by generation; seen keeps it
\* from going round a circle and from the actor itself.
Descendants(a) ==
  LET level[n \in 0 .. Cardinality(Names)] ==
        IF n = 0 THEN {a} ELSE Children(level[n - 1])
  IN {d \in Names \ {a} : \E n \in 1 .. Cardinality(Names) : d \in level[n]}

\* What a descendant is: a chain of spawns leads to it.
Descends(d, a) ==
  /\ d # a
  /\ \E n \in 1 .. Cardinality(Names) : \E chain \in [0 .. n -> Names] :
       /\ chain[0] = a /\ chain[n] = d
       /\ \A i \in 1 .. n : <<chain[i], chain[i - 1]>> \in tree

Held(a) == expires[a] > now

QuarantineTypes ==
  /\ now \in 0 .. MaxTime
  /\ tree \in SUBSET (Names \X Names)
  /\ mode \in [Workers -> {"unborn", "idle", "running", "failed",
                           "collecting", "sweeping", "marking"}]
  /\ expires \in [Names -> Nat]
  /\ marked \in [Workers -> Names]
  /\ till \in [Workers -> Nat]
  /\ unswept \in [Workers -> SUBSET Names]
  /\ doomed \in [Workers -> SUBSET Names]
  /\ until \in [Workers -> Nat]
  /\ lowered \in SUBSET Names

QuarantineInit ==
  /\ now = 0
  /\ tree = {}
  /\ mode = [w \in Workers |-> "unborn"]
  /\ expires = [a \in Names |-> 0]
  /\ marked = NameOf
  /\ till = [w \in Workers |-> 0]
  /\ unswept = [w \in Workers |-> {}]
  /\ doomed = [w \in Workers |-> {}]
  /\ until = [w \in Workers |-> 0]
  /\ lowered = {}

-----------------------------------------------------------------------------
\* The script spawns an actor: its thread has no actor's name, so register_spawn
\* is told no parent and leaves the one an earlier actor of the name had.
SpawnByScript(w) ==
  /\ w \in Script /\ mode[w] = "unborn"
  /\ mode' = [mode EXCEPT ![w] = "idle"]
  /\ UNCHANGED <<now, tree, expires, marked, till, unswept, doomed, until, lowered>>

\* A handler spawns an actor: register_spawn gives the name its new parent in
\* place of an old one, then the worker starts.
SpawnChild(w, v) ==
  /\ <<w, v>> \in Spawns /\ mode[w] = "running" /\ mode[v] = "unborn"
  /\ tree' = {e \in tree : e[1] # NameOf[v]} \cup {<<NameOf[v], NameOf[w]>>}
  /\ mode' = [mode EXCEPT ![v] = "idle"]
  /\ UNCHANGED <<now, expires, marked, till, unswept, doomed, until, lowered>>

\* dispatch: the message of a quarantined actor is skipped; an entry that has
\* expired is pruned and the handler runs.
Dispatch(w) ==
  /\ mode[w] = "idle" /\ ~Held(NameOf[w])
  /\ expires' = [expires EXCEPT ![NameOf[w]] = 0]
  /\ mode' = [mode EXCEPT ![w] = "running"]
  /\ UNCHANGED <<now, tree, marked, till, unswept, doomed, until, lowered>>

Return(w) ==
  /\ mode[w] = "running"
  /\ mode' = [mode EXCEPT ![w] = "idle"]
  /\ UNCHANGED <<now, tree, expires, marked, till, unswept, doomed, until, lowered>>

\* The handler raises: quarantine_subtree begins with the actor itself, and
\* quarantine_actor with the clock, which it reads before it takes the lock.
Raise(w) ==
  /\ w \in Failing /\ mode[w] = "running"
  /\ mode' = [mode EXCEPT ![w] = "failed"]
  /\ till' = [till EXCEPT ![w] = now + Ttl]
  /\ until' = [until EXCEPT ![w] = now + Ttl]
  /\ doomed' = [doomed EXCEPT ![w] = {NameOf[w]}]
  /\ UNCHANGED <<now, tree, expires, marked, unswept, lowered>>

\* The rest of quarantine_actor: under the lock, over whatever entry is there.
WriteEntry(w) ==
  /\ mode[w] \in {"failed", "marking"}
  /\ expires' = [expires EXCEPT ![marked[w]] = till[w]]
  /\ lowered' = IF till[w] < expires[marked[w]] THEN lowered \cup {marked[w]}
                                                ELSE lowered
  /\ mode' = [mode EXCEPT ![w] = IF @ = "failed" THEN "collecting"
                                                   ELSE "sweeping"]
  /\ marked' = [marked EXCEPT ![w] = NameOf[w]]
  /\ till' = [till EXCEPT ![w] = 0]
  /\ UNCHANGED <<now, tree, unswept, doomed, until>>

\* Faulty variant: the children, without their descendants.
CollectChildren(w) ==
  /\ mode[w] = "collecting"
  /\ mode' = [mode EXCEPT ![w] = "sweeping"]
  /\ unswept' = [unswept EXCEPT ![w] = Children({NameOf[w]})]
  /\ doomed' = [doomed EXCEPT ![w] = @ \cup {d \in Names : Descends(d, NameOf[w])}]
  /\ UNCHANGED <<now, tree, expires, marked, till, until, lowered>>

\* descendants_of, on a copy of the tree.
Collect(w) ==
  /\ mode[w] = "collecting"
  /\ mode' = [mode EXCEPT ![w] = "sweeping"]
  /\ unswept' = [unswept EXCEPT ![w] = Descendants(NameOf[w])]
  /\ doomed' = [doomed EXCEPT ![w] = @ \cup {d \in Names : Descends(d, NameOf[w])}]
  /\ UNCHANGED <<now, tree, expires, marked, till, until, lowered>>

\* quarantine_subtree goes on to a descendant, whose actors may be running: the
\* clock is read.  When none is left the worker takes its next message.
Sweep(w) ==
  /\ mode[w] = "sweeping"
  /\ \/ \E d \in unswept[w] :
          /\ mode' = [mode EXCEPT ![w] = "marking"]
          /\ marked' = [marked EXCEPT ![w] = d]
          /\ till' = [till EXCEPT ![w] = now + Ttl]
          /\ unswept' = [unswept EXCEPT ![w] = @ \ {d}]
     \/ /\ unswept[w] = {}
        /\ mode' = [mode EXCEPT ![w] = "idle"]
        /\ UNCHANGED <<marked, till, unswept>>
  /\ UNCHANGED <<now, tree, expires, doomed, until, lowered>>

ClockTick ==
  /\ now < MaxTime
  /\ now' = now + 1
  /\ UNCHANGED <<tree, mode, expires, marked, till, unswept, doomed, until, lowered>>

QuarantineNext ==
  \/ \E w \in Workers :
       \/ SpawnByScript(w) \/ Dispatch(w) \/ Return(w) \/ Raise(w)
       \/ WriteEntry(w) \/ Collect(w) \/ Sweep(w)
       \/ \E v \in Workers : SpawnChild(w, v)
  \/ ClockTick

QuarantineSpec == QuarantineInit /\ [][QuarantineNext]_quarantineVars

-----------------------------------------------------------------------------
\* The blast radius of a failure: once the sweep of a worker is over, its actor
\* and every name that descended from it when the tree was copied stay in
\* quarantine at least until the time the actor was given, whatever is spawned
\* again, fails, expires or is swept meanwhile.  Exempt are the names of which
\* another worker, which had read the clock earlier, has since replaced a later
\* entry by its own.
SubtreeContained ==
  \A w \in Workers : \A d \in doomed[w] \ lowered :
    mode[w] \notin {"failed", "collecting", "sweeping", "marking"}
    /\ now < until[w] => expires[d] >= until[w]
=============================================================================
