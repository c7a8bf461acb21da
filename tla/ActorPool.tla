----------------------------- MODULE ActorPool -----------------------------
(***************************************************************************)
(* The auto-scaling actor pools of aipl_dist.py (pool_create, pool_pick,   *)
(* pool_destroy) under one pool name, called by several threads.  Every    *)
(* lock-protected section is one step, and so is every callback that       *)
(* spawns or stops an actor; other callers run in between.  The mean       *)
(* mailbox length that pool_pick reads is a choice: senders and workers    *)
(* change it all the time.                                                 *)
(***************************************************************************)
EXTENDS Integers, FiniteSets, Sequences, SequencesExt

CONSTANTS Caller,     \* the threads that call the pool functions
          MinN,       \* pool_create: min
          MaxN,       \* pool_create: max
          MaxPools,   \* bound: pools created under the name, one after another
          MaxWorkers  \* bound: actors spawned for them

ASSUME PoolAssumption ==
  /\ IsFiniteSet(Caller)
  /\ MinN \in Nat
  /\ MaxN \in Nat
  /\ MaxPools \in Nat
  /\ MaxWorkers \in Nat

Pool   == 1 .. MaxPools       \* _PoolState objects, in order of creation
Worker == 1 .. MaxWorkers     \* actors, in order of creation
None   == 0

VARIABLES
  pc,        \* what each caller is executing
  at,        \* the _PoolState a caller works on
  left,      \* pool_create: members still to seed
  hand,      \* workers a caller has spawned or removed, and not yet filed
  registry,  \* _POOLS: the pool the name is bound to
  created,   \* how many pools have been created
  members,   \* _PoolState.members
  rr,        \* _PoolState._rr_idx
  spawned,   \* how many workers have been spawned
  retired,   \* workers that were stopped by retire_cb
  served     \* history: workers picked in the current round of a pool

vars == <<pc, at, left, hand, registry, created, members, rr, spawned, retired,
          served>>

CallerPc == {"idle", "seed", "seat", "pick", "grow", "join", "shrink",
             "retire", "choose", "clear", "sweep"}

TypeOK ==
  /\ pc \in [Caller -> CallerPc]
  /\ at \in [Caller -> Pool \cup {None}]
  /\ left \in [Caller -> 0 .. MinN]
  /\ hand \in [Caller -> SUBSET Worker]
  /\ registry \in 0 .. created
  /\ created \in 0 .. MaxPools
  /\ members \in [Pool -> Seq(Worker)]
  /\ rr \in [Pool -> Nat]
  /\ spawned \in 0 .. MaxWorkers
  /\ retired \subseteq Worker
  /\ served \in [Pool -> SUBSET Worker]

Init ==
  /\ pc = [t \in Caller |-> "idle"]
  /\ at = [t \in Caller |-> None]
  /\ left = [t \in Caller |-> 0]
  /\ hand = [t \in Caller |-> {}]
  /\ registry = None
  /\ created = 0
  /\ members = [i \in Pool |-> <<>>]
  /\ rr = [i \in Pool |-> 0]
  /\ spawned = 0
  /\ retired = {}
  /\ served = [i \in Pool |-> {}]

Goto(t, l) == pc' = [pc EXCEPT ![t] = l]

Elements(i) == ToSet(members[i])

\* The call returns.
Return(t) == Goto(t, "idle") /\ at' = [at EXCEPT ![t] = None]

\* A new list of members begins a new round of picks.
SetMembers(i, s) ==
  /\ members' = [members EXCEPT ![i] = s]
  /\ served' = [served EXCEPT ![i] = {}]

\* spawn_cb: spawn_actor under a fresh name.
SpawnWorker(t) ==
  /\ spawned < MaxWorkers
  /\ spawned' = spawned + 1
  /\ hand' = [hand EXCEPT ![t] = {spawned + 1}]

-----------------------------------------------------------------------------
(***************************************************************************)
(* pool_create: bind the name, then seed the pool outside of the lock.     *)
(***************************************************************************)

\* The first section: a name that is taken is returned as it is.
Create(t) ==
  /\ pc[t] = "idle"
  /\ registry = None
  /\ created < MaxPools
  /\ created' = created + 1
  /\ registry' = created + 1
  /\ at' = [at EXCEPT ![t] = created + 1]
  /\ left' = [left EXCEPT ![t] = MinN]
  /\ Goto(t, "seed")
  /\ UNCHANGED <<hand, members, rr, spawned, retired, served>>

\* Faulty variant: the seeding loop runs once too often.
SeedOneMore(t) ==
  /\ pc[t] = "seed"
  /\ left' = [left EXCEPT ![t] = @ - 1]
  /\ \/ SpawnWorker(t) /\ Goto(t, "seat") /\ UNCHANGED at
     \/ left[t] > 0 /\ UNCHANGED <<spawned, hand, pc, at>>
     \/ left[t] = 0 /\ Return(t) /\ UNCHANGED <<spawned, hand>>
  /\ UNCHANGED <<registry, created, members, rr, retired, served>>

\* One round of the seeding loop; a spawn that fails is logged and skipped.
Seed(t) ==
  /\ pc[t] = "seed"
  /\ left[t] > 0
  /\ left' = [left EXCEPT ![t] = @ - 1]
  /\ \/ SpawnWorker(t) /\ Goto(t, "seat")
     \/ UNCHANGED <<spawned, hand, pc>>
  /\ UNCHANGED <<at, registry, created, members, rr, retired, served>>

Created(t) ==
  /\ pc[t] = "seed"
  /\ left[t] = 0
  /\ Return(t)
  /\ UNCHANGED <<left, hand, registry, created, members, rr, spawned, retired,
                 served>>

\* members.append() of a seed, or of the worker that pool_pick adds.
Join(t) ==
  /\ pc[t] \in {"seat", "join"}
  /\ \E w \in hand[t] : SetMembers(at[t], Append(members[at[t]], w))
  /\ hand' = [hand EXCEPT ![t] = {}]
  /\ Goto(t, IF pc[t] = "seat" THEN "seed" ELSE "choose")
  /\ UNCHANGED <<at, left, registry, created, rr, spawned, retired>>

-----------------------------------------------------------------------------
(***************************************************************************)
(* pool_pick: look the pool up, sample it, scale it, choose a member.      *)
(***************************************************************************)

Pick(t) ==
  /\ pc[t] = "idle"
  /\ registry # None
  /\ at' = [at EXCEPT ![t] = registry]
  /\ Goto(t, "pick")
  /\ UNCHANGED <<left, hand, registry, created, members, rr, spawned, retired,
                 served>>

\* Faulty variants: the limits themselves still let the pool grow or shrink.
SamplePastMax(t) ==
  LET n == Len(members[at[t]])
  IN /\ pc[t] = "pick"
     /\ IF n = 0 THEN Return(t)
        ELSE /\ \/ n <= MaxN /\ Goto(t, "grow")
                \/ n > MinN /\ Goto(t, "shrink")
                \/ Goto(t, "choose")
             /\ UNCHANGED at
     /\ UNCHANGED <<left, hand, registry, created, members, rr, spawned,
                    retired, served>>

SamplePastMin(t) ==
  LET n == Len(members[at[t]])
  IN /\ pc[t] = "pick"
     /\ IF n = 0 THEN Return(t)
        ELSE /\ \/ n < MaxN /\ Goto(t, "grow")
                \/ n >= MinN /\ Goto(t, "shrink")
                \/ Goto(t, "choose")
             /\ UNCHANGED at
     /\ UNCHANGED <<left, hand, registry, created, members, rr, spawned,
                    retired, served>>

\* The hysteresis check.  The size that it reads decides what the later
\* sections do: above the high watermark and under max, grow; below the low
\* one and over min, shrink; otherwise choose.
Sample(t) ==
  LET n == Len(members[at[t]])
  IN /\ pc[t] = "pick"
     /\ IF n = 0 THEN Return(t)
        ELSE /\ \/ n < MaxN /\ Goto(t, "grow")
                \/ n > MinN /\ Goto(t, "shrink")
                \/ Goto(t, "choose")
             /\ UNCHANGED at
     /\ UNCHANGED <<left, hand, registry, created, members, rr, spawned,
                    retired, served>>

\* Scale up: spawn, outside of the lock; a failure is logged.
Grow(t) ==
  /\ pc[t] = "grow"
  /\ \/ SpawnWorker(t) /\ Goto(t, "join")
     \/ Goto(t, "choose") /\ UNCHANGED <<spawned, hand>>
  /\ UNCHANGED <<at, left, registry, created, members, rr, retired, served>>

\* Faulty variant: the victim is read in one section and removed in another.
ShrinkReadsLast(t) ==
  LET s == members[at[t]]
  IN /\ pc[t] = "shrink"
     /\ s # <<>>
     /\ hand' = [hand EXCEPT ![t] = {Last(s)}]
     /\ Goto(t, "retire")
     /\ UNCHANGED <<at, left, registry, created, members, served, rr, spawned,
                    retired>>

\* Scale down: members.pop(), which raises IndexError out of pool_pick when
\* the list has been emptied since it was sampled.
Shrink(t) ==
  LET s == members[at[t]]
  IN /\ pc[t] = "shrink"
     /\ \/ /\ s # <<>>
           /\ SetMembers(at[t], Front(s))
           /\ hand' = [hand EXCEPT ![t] = {Last(s)}]
           /\ Goto(t, "retire")
           /\ UNCHANGED at
        \/ /\ s = <<>>
           /\ Return(t)
           /\ UNCHANGED <<hand, members, served>>
     /\ UNCHANGED <<left, registry, created, rr, spawned, retired>>

\* retire_cb of the victim.
Retire(t) ==
  /\ pc[t] = "retire"
  /\ retired' = retired \cup hand[t]
  /\ hand' = [hand EXCEPT ![t] = {}]
  /\ Goto(t, "choose")
  /\ UNCHANGED <<at, left, registry, created, members, rr, spawned, served>>

\* The worker chosen under index r of the list s.
Turn(s, r) == s[1 + (r % Len(s))]

\* Faulty variant: the index stays at the end of the list.
ChooseClamps(t) ==
  LET i == at[t]
      s == members[i]
  IN /\ pc[t] = "choose"
     /\ IF s = <<>> THEN UNCHANGED <<rr, served>>
        ELSE /\ rr' = [rr EXCEPT ![i] = IF @ + 1 < Len(s) THEN @ + 1 ELSE Len(s) - 1]
             /\ served' = [served EXCEPT ![i] =
                             IF @ \cup {Turn(s, rr[i])} = Elements(i)
                               THEN {} ELSE @ \cup {Turn(s, rr[i])}]
     /\ Return(t)
     /\ UNCHANGED <<left, hand, registry, created, members, spawned, retired>>

\* The round-robin pick.
Choose(t) ==
  LET i == at[t]
      s == members[i]
  IN /\ pc[t] = "choose"
     /\ IF s = <<>> THEN UNCHANGED <<rr, served>>
        ELSE /\ rr' = [rr EXCEPT ![i] = (@ + 1) % Len(s)]
             /\ served' = [served EXCEPT ![i] =
                             IF @ \cup {Turn(s, rr[i])} = Elements(i)
                               THEN {} ELSE @ \cup {Turn(s, rr[i])}]
     /\ Return(t)
     /\ UNCHANGED <<left, hand, registry, created, members, spawned, retired>>

-----------------------------------------------------------------------------
(***************************************************************************)
(* pool_destroy: unbind the name, empty the list, stop the members.        *)
(***************************************************************************)

Destroy(t) ==
  /\ pc[t] = "idle"
  /\ registry # None
  /\ at' = [at EXCEPT ![t] = registry]
  /\ registry' = None
  /\ Goto(t, "clear")
  /\ UNCHANGED <<left, hand, created, members, rr, spawned, retired, served>>

Clear(t) ==
  /\ pc[t] = "clear"
  /\ hand' = [hand EXCEPT ![t] = Elements(at[t])]
  /\ SetMembers(at[t], <<>>)
  /\ Goto(t, "sweep")
  /\ UNCHANGED <<at, left, registry, created, rr, spawned, retired>>

\* One round of the loop over the victims.
Sweep(t) ==
  /\ pc[t] = "sweep"
  /\ \E w \in hand[t] :
       /\ retired' = retired \cup {w}
       /\ hand' = [hand EXCEPT ![t] = @ \ {w}]
  /\ UNCHANGED <<pc, at, left, registry, created, members, rr, spawned, served>>

Destroyed(t) ==
  /\ pc[t] = "sweep"
  /\ hand[t] = {}
  /\ Return(t)
  /\ UNCHANGED <<left, hand, registry, created, members, rr, spawned, retired,
                 served>>

Next ==
  \E t \in Caller :
    \/ Create(t) \/ Seed(t) \/ Created(t) \/ Join(t)
    \/ Pick(t) \/ Sample(t) \/ Grow(t) \/ Shrink(t) \/ Retire(t) \/ Choose(t)
    \/ Destroy(t) \/ Clear(t) \/ Sweep(t) \/ Destroyed(t)

Spec == Init /\ [][Next]_vars

-----------------------------------------------------------------------------
(***************************************************************************)
(* Properties.                                                             *)
(***************************************************************************)

Growers(i)   == {t \in Caller : at[t] = i /\ pc[t] \in {"grow", "join"}}
Shrinkers(i) == {t \in Caller : at[t] = i /\ pc[t] = "shrink"}
Callers      == Cardinality(Caller)

\* Every worker that was spawned is stopped, or in exactly one list of members
\* and there once, or in the hands of exactly one caller: no two callers retire
\* the same worker, none is stopped and still picked, none is lost on the way.
Filed(w)  == {i \in Pool : w \in Elements(i)}
Holders(w) == {t \in Caller : w \in hand[t]}
OnePlace ==
  /\ \A i \in Pool : IsInjective(members[i])
  /\ \A w \in 1 .. spawned :
       \/ w \in retired /\ Filed(w) = {} /\ Holders(w) = {}
       \/ w \notin retired /\ \E i \in Pool : Filed(w) = {i} /\ Holders(w) = {}
       \/ w \notin retired /\ \E t \in Caller : Filed(w) = {} /\ Holders(w) = {t}

\* max is checked in one section and the worker added in another, so that it
\* is exceeded, but by less than one worker per caller and the seeds.
Limit == LET scaled == MaxN - 1 + Callers + (IF MinN > 2 THEN MinN - 2 ELSE 0)
         IN IF scaled < MinN THEN MinN ELSE scaled
SizeBound == \A i \in Pool : Len(members[i]) <= Limit

\* In the same way a pool that is not being destroyed falls below min, but only
\* by one worker for each other caller: pop() finds a member when there are at
\* most MinN + 1 callers.
FloorBound ==
  \A i \in Pool :
    registry = i /\ Shrinkers(i) # {} =>
      Len(members[i]) - Cardinality(Shrinkers(i)) >= MinN + 1 - Callers

\* Round-robin: between two changes of the membership no member is picked
\* again before all have had their turn, whoever picks.
RoundRobin ==
  [][\A t \in Caller :
       pc[t] = "choose" /\ pc'[t] = "idle" /\ members[at[t]] # <<>> =>
         Turn(members[at[t]], rr[at[t]]) \notin served[at[t]]]_vars

\* "Retire every member and remove the pool from the registry": a pool that
\* was destroyed, and that no caller is working on, has no members left.
NoOrphans ==
  \A i \in 1 .. created :
    i # registry /\ (\A t \in Caller : at[t] # i) => members[i] = <<>>
=============================================================================
