-------------------------- MODULE ActorPool_proofs --------------------------
(***************************************************************************)
(* Proofs about ActorPool: types, where each worker is, how far the        *)
(* scaling decisions of concurrent callers can miss the limits, and whose  *)
(* turn it is.                                                             *)
(***************************************************************************)
EXTENDS ActorPool, FiniteSetTheorems, SequenceTheorems, TLAPS

-----------------------------------------------------------------------------
(***************************************************************************)
(* The list of members.                                                    *)
(***************************************************************************)

LEMMA JoinList ==
  ASSUME NEW S, NEW s \in Seq(S), NEW w \in S, IsInjective(s), w \notin ToSet(s)
  PROVE  /\ Append(s, w) \in Seq(S)
         /\ Len(Append(s, w)) = Len(s) + 1
         /\ ToSet(Append(s, w)) = ToSet(s) \cup {w}
         /\ IsInjective(Append(s, w))
<1> DEFINE t == Append(s, w)
<1>1. /\ t \in Seq(S)
      /\ Len(s) \in Nat /\ DOMAIN s = 1 .. Len(s)
      /\ Len(t) = Len(s) + 1 /\ DOMAIN t = 1 .. Len(s) + 1
      /\ \A j \in 1 .. Len(s) : t[j] = s[j]
      /\ t[Len(s) + 1] = w
  OBVIOUS
<1> HIDE DEF t
<1>2. ToSet(t) = ToSet(s) \cup {w}
  BY <1>1 DEF ToSet
<1>3. IsInjective(t)
  BY <1>1 DEF ToSet, IsInjective
<1>4. QED
  BY <1>1, <1>2, <1>3 DEF t

LEMMA PopList ==
  ASSUME NEW S, NEW s \in Seq(S), s # <<>>, IsInjective(s)
  PROVE  /\ Front(s) \in Seq(S)
         /\ Len(Front(s)) = Len(s) - 1
         /\ Last(s) \in ToSet(s)
         /\ ToSet(Front(s)) = ToSet(s) \ {Last(s)}
         /\ IsInjective(Front(s))
<1> DEFINE t == Front(s)
<1>1. Len(s) \in Nat \ {0} /\ DOMAIN s = 1 .. Len(s)
  OBVIOUS
<1>2. /\ t \in Seq(S)
      /\ Len(t) = Len(s) - 1 /\ DOMAIN t = 1 .. Len(s) - 1
      /\ \A j \in 1 .. Len(s) - 1 : t[j] = s[j]
  BY <1>1 DEF Front
<1> HIDE DEF t
<1>3. Last(s) \in ToSet(s)
  BY <1>1 DEF Last, ToSet
<1>4. ToSet(t) = ToSet(s) \ {Last(s)}
  BY <1>1, <1>2 DEF ToSet, IsInjective, Last
<1>5. IsInjective(t)
  BY <1>1, <1>2 DEF IsInjective
<1>6. QED
  BY <1>2, <1>3, <1>4, <1>5 DEF t

LEMMA EmptyList ==
  /\ ToSet(<<>>) = {}
  /\ IsInjective(<<>>)
  BY DEF ToSet, IsInjective

-----------------------------------------------------------------------------
(***************************************************************************)
(* Type correctness, and what the pc of a caller says about its slots.     *)
(***************************************************************************)

Seeding(t) == pc[t] \in {"seed", "seat"}

\* A caller holds one worker, several, or none; it works on a pool; one that
\* empties a pool has unbound it; a pool is seeded by one caller.
Tenure ==
  /\ \A t \in Caller :
       /\ pc[t] \in {"seat", "join", "retire"} => \E w \in Worker : hand[t] = {w}
       /\ pc[t] \notin {"seat", "join", "retire", "sweep"} => hand[t] = {}
       /\ pc[t] # "idle" => at[t] \in 1 .. created
       /\ pc[t] = "clear" => at[t] # registry
  /\ \A t, u \in Caller : Seeding(t) /\ Seeding(u) /\ at[t] = at[u] => t = u
  /\ \A i \in Pool : i > created => members[i] = <<>>

LEMMA SpawnTypes ==
  ASSUME TypeOK, NEW t \in Caller, SpawnWorker(t)
  PROVE  spawned' \in 0 .. MaxWorkers /\ hand' \in [Caller -> SUBSET Worker]
  BY PoolAssumption DEF TypeOK, SpawnWorker, Worker

LEMMA TypesStep == TypeOK /\ Tenure /\ [Next]_vars => TypeOK'
<1> SUFFICES ASSUME TypeOK, Tenure, [Next]_vars
             PROVE  TypeOK'
  OBVIOUS
<1> USE PoolAssumption DEF Pool, Worker, None, CallerPc
<1>1. \A i \in Pool : Elements(i) \subseteq Worker
  BY DEF TypeOK, Elements, ToSet
<1>2. ASSUME NEW t \in Caller, Create(t) \/ Seed(t) \/ Created(t)
      PROVE  TypeOK'
  <2>1. CASE Create(t)
    <3>1. created + 1 \in 1 .. MaxPools /\ created' = created + 1
      BY <2>1 DEF TypeOK, Create
    <3>2. pc' \in [Caller -> CallerPc] /\ at' \in [Caller -> Pool \cup {None}]
      BY <2>1, <3>1 DEF TypeOK, Create, Goto
    <3>3. left' \in [Caller -> 0 .. MinN]
      BY <2>1 DEF TypeOK, Create
    <3>4. registry' \in 0 .. created' /\ created' \in 0 .. MaxPools
      BY <2>1, <3>1 DEF Create
    <3>5. UNCHANGED <<hand, members, rr, spawned, retired, served>>
      BY <2>1 DEF Create
    <3>6. QED
      BY <3>2, <3>3, <3>4, <3>5 DEF TypeOK
  <2>2. CASE Seed(t)
    <3>1. left' \in [Caller -> 0 .. MinN]
      BY <2>2 DEF TypeOK, Seed
    <3>2. pc' \in [Caller -> CallerPc]
      BY <2>2 DEF TypeOK, Seed, Goto
    <3>3. spawned' \in 0 .. MaxWorkers /\ hand' \in [Caller -> SUBSET Worker]
      BY <2>2, SpawnTypes DEF TypeOK, Seed
    <3>4. QED
      BY <2>2, <3>1, <3>2, <3>3 DEF TypeOK, Seed
  <2>3. CASE Created(t)
    BY <2>3 DEF TypeOK, Created, Return, Goto
  <2>4. QED
    BY <1>2, <2>1, <2>2, <2>3
<1>3. ASSUME NEW t \in Caller, Join(t)
      PROVE  TypeOK'
  <2>1. at[t] \in Pool /\ hand[t] \subseteq Worker
    BY <1>3 DEF Join, Tenure, TypeOK
  <2>2. PICK w \in hand[t] : SetMembers(at[t], Append(members[at[t]], w))
    BY <1>3 DEF Join
  <2>3. Append(members[at[t]], w) \in Seq(Worker)
    BY <2>1, <2>2 DEF TypeOK
  <2>4. members' \in [Pool -> Seq(Worker)] /\ served' \in [Pool -> SUBSET Worker]
    BY <2>1, <2>2, <2>3 DEF TypeOK, SetMembers
  <2>5. QED
    BY <1>3, <2>4 DEF TypeOK, Join, Goto
<1>4. ASSUME NEW t \in Caller, Pick(t) \/ Sample(t) \/ Grow(t) \/ Retire(t)
      PROVE  TypeOK'
  <2>1. CASE Pick(t)
    BY <2>1 DEF TypeOK, Pick, Goto
  <2>2. CASE Sample(t)
    BY <2>2 DEF TypeOK, Sample, Return, Goto
  <2>3. CASE Grow(t)
    <3>1. pc' \in [Caller -> CallerPc]
      BY <2>3 DEF TypeOK, Grow, Goto
    <3>2. spawned' \in 0 .. MaxWorkers /\ hand' \in [Caller -> SUBSET Worker]
      BY <2>3, SpawnTypes DEF TypeOK, Grow
    <3>3. QED
      BY <2>3, <3>1, <3>2 DEF TypeOK, Grow
  <2>4. CASE Retire(t)
    BY <2>4 DEF TypeOK, Retire, Goto
  <2>5. QED
    BY <1>4, <2>1, <2>2, <2>3, <2>4
<1>5. ASSUME NEW t \in Caller, Shrink(t)
      PROVE  TypeOK'
  <2>1. at[t] \in Pool
    BY <1>5 DEF Shrink, Tenure, TypeOK
  <2>2. CASE members[at[t]] # <<>>
    <3> DEFINE s == members[at[t]]
    <3>1. s \in Seq(Worker) /\ s # <<>>
      BY <2>1, <2>2 DEF TypeOK
    <3> HIDE DEF s
    <3>2. Front(s) \in Seq(Worker) /\ Last(s) \in Worker
      BY <3>1 DEF Front, Last
    <3>3. /\ SetMembers(at[t], Front(s))
          /\ hand' = [hand EXCEPT ![t] = {Last(s)}]
          /\ Goto(t, "retire") /\ UNCHANGED at
      BY <1>5, <2>2 DEF Shrink, s
    <3>4. members' \in [Pool -> Seq(Worker)] /\ served' \in [Pool -> SUBSET Worker]
      BY <2>1, <3>2, <3>3 DEF TypeOK, SetMembers
    <3>5. hand' \in [Caller -> SUBSET Worker]
      BY <3>2, <3>3 DEF TypeOK
    <3>6. QED
      BY <1>5, <3>3, <3>4, <3>5 DEF TypeOK, Shrink, Goto
  <2>3. CASE members[at[t]] = <<>>
    BY <1>5, <2>3 DEF TypeOK, Shrink, Return, Goto
  <2>4. QED
    BY <2>2, <2>3
<1>6. ASSUME NEW t \in Caller, Choose(t)
      PROVE  TypeOK'
  <2>1. at[t] \in Pool
    BY <1>6 DEF Choose, Tenure, TypeOK
  <2>2. CASE members[at[t]] = <<>>
    BY <1>6, <2>2 DEF TypeOK, Choose, Return, Goto
  <2>3. CASE members[at[t]] # <<>>
    <3> DEFINE s == members[at[t]]
               r == rr[at[t]]
    <3>1. s \in Seq(Worker) /\ s # <<>> /\ r \in Nat
      BY <2>1, <2>3 DEF TypeOK
    <3>2. Len(s) \in Nat \ {0}
      BY <3>1
    <3> HIDE DEF s, r
    <3>3. (r + 1) % Len(s) \in Nat /\ r % Len(s) \in 0 .. Len(s) - 1
      BY <3>1, <3>2
    <3>4. Turn(s, r) \in Worker
      BY <3>1, <3>2, <3>3 DEF Turn
    <3>5. rr' = [rr EXCEPT ![at[t]] = (r + 1) % Len(s)]
      BY <1>6, <2>3 DEF Choose, s, r
    <3>6. rr' \in [Pool -> Nat]
      BY <2>1, <3>3, <3>5 DEF TypeOK
    <3>7. served' = [served EXCEPT ![at[t]] =
                       IF @ \cup {Turn(s, r)} = Elements(at[t])
                         THEN {} ELSE @ \cup {Turn(s, r)}]
      BY <1>6, <2>3 DEF Choose, s, r
    <3>8. served' \in [Pool -> SUBSET Worker]
      BY <2>1, <3>4, <3>7 DEF TypeOK
    <3>9. QED
      BY <1>6, <3>6, <3>8 DEF TypeOK, Choose, Return, Goto
  <2>4. QED
    BY <2>2, <2>3
<1>7. ASSUME NEW t \in Caller, Destroy(t) \/ Sweep(t) \/ Destroyed(t)
      PROVE  TypeOK'
  <2>1. CASE Destroy(t)
    BY <2>1 DEF TypeOK, Destroy, Goto
  <2>2. CASE Sweep(t)
    BY <2>2 DEF TypeOK, Sweep
  <2>3. CASE Destroyed(t)
    BY <2>3 DEF TypeOK, Destroyed, Return, Goto
  <2>4. QED
    BY <1>7, <2>1, <2>2, <2>3
<1>8. ASSUME NEW t \in Caller, Clear(t)
      PROVE  TypeOK'
  <2>1. at[t] \in Pool /\ Elements(at[t]) \subseteq Worker
    BY <1>1, <1>8 DEF Clear, Tenure, TypeOK
  <2>2. members' \in [Pool -> Seq(Worker)] /\ served' \in [Pool -> SUBSET Worker]
    BY <1>8, <2>1 DEF TypeOK, Clear, SetMembers
  <2>3. QED
    BY <1>8, <2>1, <2>2 DEF TypeOK, Clear, Goto
<1>9. CASE UNCHANGED vars
  BY <1>9 DEF TypeOK, vars
<1>10. QED
  BY <1>2, <1>3, <1>4, <1>5, <1>6, <1>7, <1>8, <1>9 DEF Next

\* Nothing happens to the slots of a caller that takes no step.
Frame(t) ==
  \A u \in Caller \ {t} :
    /\ pc'[u] = pc[u] /\ at'[u] = at[u]
    /\ left'[u] = left[u] /\ hand'[u] = hand[u]

LEMMA TenureStep == TypeOK /\ Tenure /\ [Next]_vars => Tenure'
<1> SUFFICES ASSUME TypeOK, Tenure, [Next]_vars
             PROVE  Tenure'
  OBVIOUS
<1> USE PoolAssumption
<1>0. created \in Nat /\ (\A t \in Caller : pc[t] \in CallerPc)
  BY DEF TypeOK
<1> DEFINE Slot(t) ==
             /\ pc[t] \in {"seat", "join", "retire"} => \E w \in Worker : hand[t] = {w}
             /\ pc[t] \notin {"seat", "join", "retire", "sweep"} => hand[t] = {}
             /\ pc[t] # "idle" => at[t] \in 1 .. created
             /\ pc[t] = "clear" => at[t] # registry
<1>1. \A t \in Caller : Slot(t)
  BY DEF Tenure
<1>2. ASSUME NEW t \in Caller, Frame(t), Slot(t)', created' = created,
             registry' \in {registry, None}, Seeding(t)' => Seeding(t),
             pc'[t] # "idle" => at'[t] = at[t] \/ ~Seeding(t)',
             \A i \in Pool : i > created => members'[i] = members[i]
      PROVE  Tenure'
  <2>1. ASSUME NEW u \in Caller, u # t
        PROVE  Slot(u)'
    <3>1. pc'[u] = pc[u] /\ at'[u] = at[u] /\ hand'[u] = hand[u]
      BY <1>2, <2>1 DEF Frame
    <3>2. QED
      BY <1>0, <1>1, <1>2, <3>1 DEF None
  <2>2. ASSUME NEW u \in Caller, NEW v \in Caller,
               Seeding(u)', Seeding(v)', at'[u] = at'[v]
        PROVE  u = v
    <3>1. ASSUME NEW x \in Caller, Seeding(x)'
          PROVE  Seeding(x) /\ at'[x] = at[x]
      BY <1>2, <3>1 DEF Frame, Seeding
    <3>2. QED
      BY <2>2, <3>1 DEF Tenure
  <2>3. \A i \in Pool : i > created' => members'[i] = <<>>
    BY <1>2 DEF Tenure
  <2>4. QED
    BY <1>2, <2>1, <2>2, <2>3 DEF Tenure
<1>3. ASSUME NEW t \in Caller, Create(t)
      PROVE  Tenure'
  <2>1. /\ created' = created + 1 /\ registry' = created + 1
        /\ Frame(t)
        /\ pc'[t] = "seed" /\ at'[t] = created + 1 /\ hand' = hand
        /\ pc[t] = "idle" /\ members' = members
    BY <1>3 DEF TypeOK, Create, Goto, Frame
  <2>2. Slot(t)'
    BY <1>0, <1>1, <2>1
  <2>3. ASSUME NEW u \in Caller, u # t
        PROVE  Slot(u)'
    <3>1. pc'[u] = pc[u] /\ at'[u] = at[u] /\ hand'[u] = hand[u]
      BY <2>1, <2>3 DEF Frame
    <3>2. pc[u] # "idle" => at[u] \in 1 .. created
      BY <1>1
    <3>3. QED
      BY <1>0, <1>1, <2>1, <3>1, <3>2
  <2>4. ASSUME NEW u \in Caller, NEW v \in Caller,
               Seeding(u)', Seeding(v)', at'[u] = at'[v]
        PROVE  u = v
    <3>1. ASSUME NEW x \in Caller, Seeding(x)', x # t
          PROVE  Seeding(x) /\ at'[x] = at[x] /\ at'[x] # at'[t]
      <4>1. pc'[x] = pc[x] /\ at'[x] = at[x]
        BY <2>1, <3>1 DEF Frame
      <4>2. at[x] \in 1 .. created
        BY <1>1, <3>1, <4>1 DEF Seeding
      <4>3. QED
        BY <1>0, <2>1, <3>1, <4>1, <4>2 DEF Seeding
    <3>2. QED
      BY <2>4, <3>1 DEF Tenure
  <2>5. \A i \in Pool : i > created' => members'[i] = <<>>
    BY <1>0, <2>1 DEF Tenure, Pool
  <2>6. QED
    BY <2>2, <2>3, <2>4, <2>5 DEF Tenure
<1>4. ASSUME NEW t \in Caller, Seed(t)
      PROVE  Tenure'
  <2>1. /\ Frame(t)
        /\ at' = at /\ members' = members /\ created' = created
        /\ registry' = registry
        /\ pc[t] = "seed"
        /\ \/ pc'[t] = "seat" /\ hand'[t] = {spawned + 1} /\ spawned + 1 \in Worker
           \/ pc'[t] = "seed" /\ hand' = hand
    BY <1>4 DEF TypeOK, Seed, SpawnWorker, Goto, Frame, Worker
  <2>2. Slot(t)'
    BY <1>1, <2>1
  <2>3. QED
    BY <1>2, <2>1, <2>2 DEF Seeding
<1>5. ASSUME NEW t \in Caller, Created(t) \/ Destroyed(t)
      PROVE  Tenure'
  <2>1. /\ Frame(t) /\ hand' = hand /\ members' = members
        /\ created' = created /\ registry' = registry
        /\ pc'[t] = "idle" /\ hand[t] = {}
    BY <1>1, <1>5 DEF TypeOK, Created, Destroyed, Return, Goto, Frame
  <2>2. Slot(t)'
    BY <2>1
  <2>3. QED
    BY <1>2, <2>1, <2>2 DEF Seeding
<1>6. ASSUME NEW t \in Caller, Join(t)
      PROVE  Tenure'
  <2>1. /\ Frame(t) /\ at' = at /\ created' = created /\ registry' = registry
        /\ hand'[t] = {}
        /\ \/ pc[t] = "seat" /\ pc'[t] = "seed"
           \/ pc[t] = "join" /\ pc'[t] = "choose"
        /\ \A i \in Pool : i # at[t] => members'[i] = members[i]
    BY <1>6 DEF TypeOK, Join, SetMembers, Goto, Frame
  <2>2. at[t] \in 1 .. created
    BY <1>1, <2>1
  <2>3. \A i \in Pool : i > created => members'[i] = members[i]
    BY <1>0, <2>1, <2>2 DEF Pool
  <2>4. Slot(t)'
    BY <2>1, <2>2
  <2>5. QED
    BY <1>2, <2>1, <2>3, <2>4 DEF Seeding
<1>7. ASSUME NEW t \in Caller, Pick(t) \/ Destroy(t)
      PROVE  Tenure'
  <2>1. /\ Frame(t) /\ hand' = hand /\ members' = members
        /\ created' = created
        /\ pc[t] = "idle" /\ at'[t] = registry
        /\ registry \in 1 .. created
        /\ \/ pc'[t] = "pick" /\ registry' = registry
           \/ pc'[t] = "clear" /\ registry' = None
    BY <1>7 DEF TypeOK, Pick, Destroy, Goto, Frame, None
  <2>2. Slot(t)'
    BY <1>1, <2>1 DEF None
  <2>3. QED
    BY <1>2, <2>1, <2>2 DEF Seeding
<1>8. ASSUME NEW t \in Caller, Sample(t) \/ Choose(t)
      PROVE  Tenure'
  <2>1. /\ Frame(t) /\ hand' = hand /\ members' = members
        /\ created' = created /\ registry' = registry
        /\ pc[t] \in {"pick", "choose"}
        /\ \/ pc'[t] = "idle"
           \/ pc'[t] \in {"grow", "shrink", "choose"} /\ at'[t] = at[t]
    BY <1>8 DEF TypeOK, Sample, Choose, Return, Goto, Frame
  <2>2. Slot(t)'
    BY <1>1, <2>1
  <2>3. QED
    BY <1>2, <2>1, <2>2 DEF Seeding
<1>9. ASSUME NEW t \in Caller, Grow(t)
      PROVE  Tenure'
  <2>1. /\ Frame(t)
        /\ at' = at /\ members' = members /\ created' = created
        /\ registry' = registry
        /\ pc[t] = "grow"
        /\ \/ pc'[t] = "join" /\ hand'[t] = {spawned + 1} /\ spawned + 1 \in Worker
           \/ pc'[t] = "choose" /\ hand' = hand
    BY <1>9 DEF TypeOK, Grow, SpawnWorker, Goto, Frame, Worker
  <2>2. Slot(t)'
    BY <1>1, <2>1
  <2>3. QED
    BY <1>2, <2>1, <2>2 DEF Seeding
<1>10. ASSUME NEW t \in Caller, Shrink(t)
       PROVE  Tenure'
  <2>0. at[t] \in 1 .. created /\ at[t] \in Pool /\ hand[t] = {}
    <3>1. at[t] \in 1 .. created /\ hand[t] = {}
      BY <1>1, <1>10 DEF Shrink
    <3>2. created \in 0 .. MaxPools
      BY DEF TypeOK
    <3>3. QED
      BY <3>1, <3>2 DEF Pool
  <2>1. CASE members[at[t]] # <<>>
    <3>1. Last(members[at[t]]) \in Worker
      <4>1. members[at[t]] \in Seq(Worker) /\ members[at[t]] # <<>>
        BY <2>0, <2>1 DEF TypeOK
      <4>2. QED
        BY <4>1 DEF Last
    <3>2. /\ Frame(t) /\ at' = at /\ created' = created /\ registry' = registry
          /\ pc[t] = "shrink" /\ pc'[t] = "retire"
          /\ hand'[t] = {Last(members[at[t]])}
          /\ \A i \in Pool : i # at[t] => members'[i] = members[i]
      BY <1>10, <2>1 DEF TypeOK, Shrink, SetMembers, Goto, Frame
    <3>3. Slot(t)'
      BY <2>0, <3>1, <3>2
    <3>4. \A i \in Pool : i > created => members'[i] = members[i]
      BY <1>0, <2>0, <3>2 DEF Pool
    <3>5. QED
      BY <1>2, <3>2, <3>3, <3>4 DEF Seeding
  <2>2. CASE members[at[t]] = <<>>
    <3>1. /\ Frame(t) /\ hand' = hand /\ members' = members
          /\ created' = created /\ registry' = registry /\ pc'[t] = "idle"
      BY <1>10, <2>2 DEF TypeOK, Shrink, Return, Goto, Frame
    <3>2. Slot(t)'
      BY <2>0, <3>1
    <3>3. QED
      BY <1>2, <3>1, <3>2 DEF Seeding
  <2>3. QED
    BY <2>1, <2>2
<1>11. ASSUME NEW t \in Caller, Retire(t) \/ Sweep(t)
       PROVE  Tenure'
  <2>1. /\ Frame(t) /\ at' = at /\ members' = members
        /\ created' = created /\ registry' = registry
        /\ \/ pc[t] = "retire" /\ pc'[t] = "choose" /\ hand'[t] = {}
           \/ pc[t] = "sweep" /\ pc'[t] = "sweep"
    BY <1>11 DEF TypeOK, Retire, Sweep, Goto, Frame
  <2>2. Slot(t)'
    BY <1>1, <2>1
  <2>3. QED
    BY <1>2, <2>1, <2>2 DEF Seeding
<1>12. ASSUME NEW t \in Caller, Clear(t)
       PROVE  Tenure'
  <2>1. /\ Frame(t) /\ at' = at /\ created' = created /\ registry' = registry
        /\ pc[t] = "clear" /\ pc'[t] = "sweep"
        /\ \A i \in Pool : i # at[t] => members'[i] = members[i]
    BY <1>12 DEF TypeOK, Clear, SetMembers, Goto, Frame
  <2>2. Slot(t)'
    BY <1>1, <2>1
  <2>3. \A i \in Pool : i > created => members'[i] = members[i]
    BY <1>0, <1>1, <2>1 DEF Pool
  <2>4. QED
    BY <1>2, <2>1, <2>2, <2>3 DEF Seeding
<1>13. CASE UNCHANGED vars
  BY <1>13 DEF vars, Tenure, Seeding
<1>14. QED
  BY <1>3, <1>4, <1>5, <1>6, <1>7, <1>8, <1>9, <1>10, <1>11, <1>12, <1>13
     DEF Next

-----------------------------------------------------------------------------
(***************************************************************************)
(* Every worker is in one place.                                           *)
(***************************************************************************)

\* OnePlace, as disjoint sets that cover the workers.
Spread ==
  /\ \A i \in Pool : IsInjective(members[i]) /\ Elements(i) \subseteq 1 .. spawned
  /\ \A t \in Caller : hand[t] \subseteq 1 .. spawned
  /\ retired \subseteq 1 .. spawned
  /\ \A i, j \in Pool : i # j => Elements(i) \cap Elements(j) = {}
  /\ \A t, u \in Caller : t # u => hand[t] \cap hand[u] = {}
  /\ \A i \in Pool, t \in Caller : Elements(i) \cap hand[t] = {}
  /\ \A i \in Pool : Elements(i) \cap retired = {}
  /\ \A t \in Caller : hand[t] \cap retired = {}
  /\ \A w \in 1 .. spawned :
       \/ w \in retired
       \/ \E i \in Pool : w \in Elements(i)
       \/ \E t \in Caller : w \in hand[t]

LEMMA SpreadIsOnePlace == Spread => OnePlace
<1> SUFFICES ASSUME Spread, NEW w \in 1 .. spawned
             PROVE  \/ w \in retired /\ Filed(w) = {} /\ Holders(w) = {}
                    \/ /\ w \notin retired
                       /\ \E i \in Pool : Filed(w) = {i} /\ Holders(w) = {}
                    \/ /\ w \notin retired
                       /\ \E t \in Caller : Filed(w) = {} /\ Holders(w) = {t}
  BY DEF Spread, OnePlace
<1>1. CASE w \in retired
  BY <1>1 DEF Spread, Filed, Holders
<1>2. ASSUME NEW i \in Pool, w \in Elements(i)
      PROVE  w \notin retired /\ Filed(w) = {i} /\ Holders(w) = {}
  BY <1>2 DEF Spread, Filed, Holders
<1>3. ASSUME NEW t \in Caller, w \in hand[t]
      PROVE  w \notin retired /\ Filed(w) = {} /\ Holders(w) = {t}
  BY <1>3 DEF Spread, Filed, Holders
<1>4. QED
  BY <1>1, <1>2, <1>3 DEF Spread

\* Workers change hands between a caller and a pool.
LEMMA Transfer ==
  ASSUME Spread, NEW t \in Caller, NEW i \in Pool,
         \A j \in Pool \ {i} : members'[j] = members[j],
         \A u \in Caller \ {t} : hand'[u] = hand[u],
         UNCHANGED <<retired, spawned>>,
         IsInjective(members'[i]),
         Elements(i)' \cup hand'[t] = Elements(i) \cup hand[t],
         Elements(i)' \cap hand'[t] = {}
  PROVE  Spread'
<1>1. \A j \in Pool \ {i} : Elements(j)' = Elements(j)
  BY DEF Elements
<1>2. \A j \in Pool : IsInjective(members'[j]) /\ Elements(j)' \subseteq 1 .. spawned
  BY <1>1 DEF Spread
<1>3. \A u \in Caller : hand'[u] \subseteq 1 .. spawned
  BY DEF Spread
<1>4. \A j, k \in Pool : j # k => Elements(j)' \cap Elements(k)' = {}
  BY <1>1 DEF Spread
<1>5. \A u, v \in Caller : u # v => hand'[u] \cap hand'[v] = {}
  BY DEF Spread
<1>6. \A j \in Pool, u \in Caller : Elements(j)' \cap hand'[u] = {}
  BY <1>1 DEF Spread
<1>7. /\ \A j \in Pool : Elements(j)' \cap retired = {}
      /\ \A u \in Caller : hand'[u] \cap retired = {}
  BY <1>1 DEF Spread
<1>8. ASSUME NEW w \in 1 .. spawned
      PROVE  \/ w \in retired
             \/ \E j \in Pool : w \in Elements(j)'
             \/ \E u \in Caller : w \in hand'[u]
  BY <1>1 DEF Spread
<1>9. QED
  BY <1>2, <1>3, <1>4, <1>5, <1>6, <1>7, <1>8 DEF Spread

\* A caller spawns a worker.
LEMMA Birth ==
  ASSUME TypeOK, Spread, NEW t \in Caller, hand[t] = {}, SpawnWorker(t),
         UNCHANGED <<members, retired>>
  PROVE  Spread'
<1>1. /\ spawned \in Nat /\ spawned' = spawned + 1 /\ members' = members
      /\ hand'[t] = {spawned + 1}
      /\ \A u \in Caller \ {t} : hand'[u] = hand[u]
      /\ \A i \in Pool : Elements(i)' = Elements(i)
  BY PoolAssumption DEF TypeOK, SpawnWorker, Elements
<1>2. 1 .. spawned' = (1 .. spawned) \cup {spawned + 1}
        /\ spawned + 1 \notin 1 .. spawned
  BY <1>1
<1>3. \A i \in Pool : IsInjective(members'[i]) /\ Elements(i)' \subseteq 1 .. spawned'
  BY <1>1, <1>2 DEF Spread
<1>4. /\ \A u \in Caller : hand'[u] \subseteq 1 .. spawned'
      /\ retired' \subseteq 1 .. spawned'
  BY <1>1, <1>2 DEF Spread
<1>5. \A u, v \in Caller : u # v => hand'[u] \cap hand'[v] = {}
  BY <1>1, <1>2 DEF Spread
<1>6. \A i \in Pool, u \in Caller : Elements(i)' \cap hand'[u] = {}
  BY <1>1, <1>2 DEF Spread
<1>7. \A u \in Caller : hand'[u] \cap retired' = {}
  BY <1>1, <1>2 DEF Spread
<1>8. ASSUME NEW w \in 1 .. spawned'
      PROVE  \/ w \in retired'
             \/ \E i \in Pool : w \in Elements(i)'
             \/ \E u \in Caller : w \in hand'[u]
  BY <1>1, <1>2 DEF Spread
<1>9. /\ \A i, j \in Pool : i # j => Elements(i)' \cap Elements(j)' = {}
      /\ \A i \in Pool : Elements(i)' \cap retired' = {}
  BY <1>1 DEF Spread
<1>10. QED
  BY <1>3, <1>4, <1>5, <1>6, <1>7, <1>8, <1>9 DEF Spread

\* A caller stops workers that it holds.
LEMMA Discard ==
  ASSUME Spread, NEW t \in Caller, NEW X \in SUBSET hand[t],
         hand'[t] = hand[t] \ X,
         \A u \in Caller \ {t} : hand'[u] = hand[u],
         retired' = retired \cup X,
         UNCHANGED <<members, spawned>>
  PROVE  Spread'
<1>1. \A i \in Pool : Elements(i)' = Elements(i)
  BY DEF Elements
<1>2. /\ \A u \in Caller : hand'[u] \subseteq 1 .. spawned
      /\ retired' \subseteq 1 .. spawned
  BY DEF Spread
<1>3. \A u, v \in Caller : u # v => hand'[u] \cap hand'[v] = {}
  BY DEF Spread
<1>4. \A i \in Pool, u \in Caller : Elements(i)' \cap hand'[u] = {}
  BY <1>1 DEF Spread
<1>5. \A i \in Pool : Elements(i)' \cap retired' = {}
  BY <1>1 DEF Spread
<1>6. \A u \in Caller : hand'[u] \cap retired' = {}
  BY DEF Spread
<1>7. ASSUME NEW w \in 1 .. spawned
      PROVE  \/ w \in retired'
             \/ \E i \in Pool : w \in Elements(i)'
             \/ \E u \in Caller : w \in hand'[u]
  BY <1>1 DEF Spread
<1>8. QED
  BY <1>1, <1>2, <1>3, <1>4, <1>5, <1>6, <1>7 DEF Spread

LEMMA Stay ==
  ASSUME Spread, UNCHANGED <<members, hand, retired, spawned>>
  PROVE  Spread'
  BY DEF Spread, Elements

\* A caller inside a function works on a pool that was created.
LEMMA AtPool ==
  ASSUME TypeOK, Tenure, NEW t \in Caller, pc[t] # "idle"
  PROVE  at[t] \in Pool
<1>1. at[t] \in 1 .. created /\ created \in 0 .. MaxPools
  BY DEF TypeOK, Tenure
<1>2. QED
  BY <1>1, PoolAssumption DEF Pool

LEMMA SpreadStep == TypeOK /\ Tenure /\ Spread /\ [Next]_vars => Spread'
<1> SUFFICES ASSUME TypeOK, Tenure, Spread, [Next]_vars
             PROVE  Spread'
  OBVIOUS
<1>1. ASSUME NEW t \in Caller, Create(t) \/ Created(t) \/ Pick(t) \/ Sample(t)
      PROVE  Spread'
  BY <1>1, Stay DEF Create, Created, Pick, Sample
<1>2. ASSUME NEW t \in Caller, Choose(t) \/ Destroy(t) \/ Destroyed(t)
      PROVE  Spread'
  BY <1>2, Stay DEF Choose, Destroy, Destroyed
<1>3. ASSUME NEW t \in Caller, Seed(t) \/ Grow(t)
      PROVE  Spread'
  <2>1. hand[t] = {} /\ UNCHANGED <<members, retired>>
    BY <1>3 DEF Seed, Grow, Tenure
  <2>2. SpawnWorker(t) \/ UNCHANGED <<spawned, hand>>
    BY <1>3 DEF Seed, Grow
  <2>3. QED
    BY <2>1, <2>2, Birth, Stay
<1>4. ASSUME NEW t \in Caller, Join(t)
      PROVE  Spread'
  <2>1. PICK i \in Pool : i = at[t]
    BY <1>4, AtPool DEF Join
  <2>2. PICK w \in Worker : hand[t] = {w}
    BY <1>4 DEF Join, Tenure
  <2> DEFINE s == members[i]
  <2>3. /\ members' = [members EXCEPT ![i] = Append(s, w)]
        /\ hand' = [hand EXCEPT ![t] = {}]
        /\ UNCHANGED <<retired, spawned>>
    BY <1>4, <2>1, <2>2 DEF Join, SetMembers
  <2>4. s \in Seq(Worker) /\ IsInjective(s) /\ w \notin ToSet(s)
    BY <2>1, <2>2 DEF Spread, TypeOK, Elements
  <2>5. ToSet(Append(s, w)) = ToSet(s) \cup {w} /\ IsInjective(Append(s, w))
    BY <2>4, JoinList
  <2>6. members'[i] = Append(s, w) /\ hand'[t] = {}
    BY <2>1, <2>3 DEF TypeOK
  <2>7. /\ \A j \in Pool \ {i} : members'[j] = members[j]
        /\ \A u \in Caller \ {t} : hand'[u] = hand[u]
    BY <2>3 DEF TypeOK
  <2>8. /\ IsInjective(members'[i])
        /\ Elements(i)' \cup hand'[t] = Elements(i) \cup hand[t]
        /\ Elements(i)' \cap hand'[t] = {}
    BY <2>2, <2>5, <2>6 DEF Elements
  <2>9. QED
    BY <2>3, <2>7, <2>8, Transfer
<1>5. ASSUME NEW t \in Caller, Shrink(t)
      PROVE  Spread'
  <2>1. PICK i \in Pool : i = at[t] /\ hand[t] = {}
    BY <1>5, AtPool DEF Shrink, Tenure
  <2> DEFINE s == members[i]
  <2>2. CASE s = <<>>
    BY <1>5, <2>1, <2>2, Stay DEF Shrink
  <2>3. CASE s # <<>>
    <3>1. /\ members' = [members EXCEPT ![i] = Front(s)]
          /\ hand' = [hand EXCEPT ![t] = {Last(s)}]
          /\ UNCHANGED <<retired, spawned>>
      BY <1>5, <2>1, <2>3 DEF Shrink, SetMembers
    <3>2. s \in Seq(Worker) /\ IsInjective(s)
      BY <2>1 DEF Spread, TypeOK
    <3>3. /\ Last(s) \in ToSet(s)
          /\ ToSet(Front(s)) = ToSet(s) \ {Last(s)}
          /\ IsInjective(Front(s))
      BY <2>3, <3>2, PopList
    <3>4. members'[i] = Front(s) /\ hand'[t] = {Last(s)}
      BY <2>1, <3>1 DEF TypeOK
    <3>5. /\ \A j \in Pool \ {i} : members'[j] = members[j]
          /\ \A u \in Caller \ {t} : hand'[u] = hand[u]
      BY <3>1 DEF TypeOK
    <3>6. /\ IsInjective(members'[i])
          /\ Elements(i)' \cup hand'[t] = Elements(i) \cup hand[t]
          /\ Elements(i)' \cap hand'[t] = {}
      BY <2>1, <3>3, <3>4 DEF Elements
    <3>7. QED
      BY <3>1, <3>5, <3>6, Transfer
  <2>4. QED
    BY <2>2, <2>3
<1>6. ASSUME NEW t \in Caller, Retire(t)
      PROVE  Spread'
  <2>1. /\ hand'[t] = hand[t] \ hand[t]
        /\ \A u \in Caller \ {t} : hand'[u] = hand[u]
        /\ retired' = retired \cup hand[t]
        /\ UNCHANGED <<members, spawned>>
    BY <1>6 DEF Retire, TypeOK
  <2>2. QED
    BY <2>1, Discard
<1>7. ASSUME NEW t \in Caller, Sweep(t)
      PROVE  Spread'
  <2>1. PICK w \in hand[t] :
          retired' = retired \cup {w} /\ hand' = [hand EXCEPT ![t] = @ \ {w}]
    BY <1>7 DEF Sweep
  <2>2. /\ hand'[t] = hand[t] \ {w} /\ {w} \in SUBSET hand[t]
        /\ \A u \in Caller \ {t} : hand'[u] = hand[u]
        /\ UNCHANGED <<members, spawned>>
    BY <1>7, <2>1 DEF Sweep, TypeOK
  <2>3. QED
    BY <2>1, <2>2, Discard
<1>8. ASSUME NEW t \in Caller, Clear(t)
      PROVE  Spread'
  <2>1. PICK i \in Pool : i = at[t] /\ hand[t] = {}
    BY <1>8, AtPool DEF Clear, Tenure
  <2>2. /\ members' = [members EXCEPT ![i] = <<>>]
        /\ hand' = [hand EXCEPT ![t] = Elements(i)]
        /\ UNCHANGED <<retired, spawned>>
    BY <1>8, <2>1 DEF Clear, SetMembers
  <2>3. members'[i] = <<>> /\ hand'[t] = Elements(i)
    BY <2>1, <2>2 DEF TypeOK
  <2>4. /\ \A j \in Pool \ {i} : members'[j] = members[j]
        /\ \A u \in Caller \ {t} : hand'[u] = hand[u]
    BY <2>2 DEF TypeOK
  <2>5. /\ IsInjective(members'[i])
        /\ Elements(i)' \cup hand'[t] = Elements(i) \cup hand[t]
        /\ Elements(i)' \cap hand'[t] = {}
    BY <2>1, <2>3, EmptyList DEF Elements
  <2>6. QED
    BY <2>2, <2>4, <2>5, Transfer
<1>9. CASE UNCHANGED vars
  BY <1>9, Stay DEF vars
<1>10. QED
  BY <1>1, <1>2, <1>3, <1>4, <1>5, <1>6, <1>7, <1>8, <1>9 DEF Next

-----------------------------------------------------------------------------
(***************************************************************************)
(* How far scaling decisions can miss the limits.                          *)
(***************************************************************************)

\* A set of callers after a step of t, when it is told by their slots.
LEMMA CountMove ==
  ASSUME NEW t \in Caller, NEW S \in SUBSET Caller, NEW T \in SUBSET Caller,
         \A u \in Caller \ {t} : u \in T <=> u \in S
  PROVE  /\ Cardinality(S) \in 0 .. Callers
         /\ Cardinality(T) \in 0 .. Callers
         /\ Cardinality(T) = Cardinality(S) + (IF t \in T THEN 1 ELSE 0)
                                             - (IF t \in S THEN 1 ELSE 0)
<1>1. ASSUME NEW X \in SUBSET Caller
      PROVE  IsFiniteSet(X) /\ Cardinality(X) \in 0 .. Callers
  <2>1. IsFiniteSet(X) /\ Cardinality(X) <= Callers
    BY PoolAssumption, FS_Subset DEF Callers
  <2>2. Cardinality(X) \in Nat /\ Callers \in Nat
    BY <2>1, PoolAssumption, FS_CardinalityType DEF Callers
  <2>3. QED
    BY <2>1, <2>2
<1>2. CASE t \in T
  <2>1. T = S \cup {t}
    BY <1>2
  <2>2. Cardinality(T) = IF t \in S THEN Cardinality(S) ELSE Cardinality(S) + 1
    BY <1>1, <2>1, FS_AddElement
  <2>3. QED
    BY <1>1, <1>2, <2>2
<1>3. CASE t \notin T
  <2>1. T = S \ {t}
    BY <1>3
  <2>2. Cardinality(T) = IF t \in S THEN Cardinality(S) - 1 ELSE Cardinality(S)
    BY <1>1, <2>1, FS_RemoveElement
  <2>3. QED
    BY <1>1, <1>3, <2>2
<1>4. QED
  BY <1>2, <1>3

Grows(t, i)   == at[t] = i /\ pc[t] \in {"grow", "join"}
Shrinks(t, i) == at[t] = i /\ pc[t] = "shrink"

LEMMA Counts ==
  ASSUME TypeOK, TypeOK', NEW t \in Caller, Frame(t), NEW i \in Pool
  PROVE  /\ Len(members[i]) \in Nat /\ Len(members'[i]) \in Nat
         /\ Cardinality(Growers(i)) \in 0 .. Callers
         /\ Cardinality(Growers(i))' \in 0 .. Callers
         /\ Cardinality(Growers(i))' =
              Cardinality(Growers(i)) + (IF Grows(t, i)' THEN 1 ELSE 0)
                                      - (IF Grows(t, i) THEN 1 ELSE 0)
         /\ Cardinality(Shrinkers(i)) \in 0 .. Callers
         /\ Cardinality(Shrinkers(i))' \in 0 .. Callers
         /\ Cardinality(Shrinkers(i))' =
              Cardinality(Shrinkers(i)) + (IF Shrinks(t, i)' THEN 1 ELSE 0)
                                        - (IF Shrinks(t, i) THEN 1 ELSE 0)
<1>1. Len(members[i]) \in Nat /\ Len(members'[i]) \in Nat
  <2>1. members[i] \in Seq(Worker) /\ members'[i] \in Seq(Worker)
    BY DEF TypeOK
  <2>2. QED
    BY <2>1
<1> DEFINE S == Growers(i)
           T == Growers(i)'
           U == Shrinkers(i)
           V == Shrinkers(i)'
<1>2. /\ S \in SUBSET Caller /\ T \in SUBSET Caller
      /\ \A u \in Caller \ {t} : u \in T <=> u \in S
      /\ t \in T <=> Grows(t, i)'
      /\ t \in S <=> Grows(t, i)
  BY DEF Growers, Frame, Grows
<1>3. /\ U \in SUBSET Caller /\ V \in SUBSET Caller
      /\ \A u \in Caller \ {t} : u \in V <=> u \in U
      /\ t \in V <=> Shrinks(t, i)'
      /\ t \in U <=> Shrinks(t, i)
  BY DEF Shrinkers, Frame, Shrinks
<1>4. Cardinality(Growers(i))' = Cardinality(T) /\ Cardinality(Shrinkers(i))' = Cardinality(V)
  OBVIOUS
<1> HIDE DEF S, T, U, V
<1>5. /\ Cardinality(S) \in 0 .. Callers /\ Cardinality(T) \in 0 .. Callers
      /\ Cardinality(T) = Cardinality(S) + (IF t \in T THEN 1 ELSE 0)
                                          - (IF t \in S THEN 1 ELSE 0)
  BY <1>2, CountMove
<1>6. /\ Cardinality(U) \in 0 .. Callers /\ Cardinality(V) \in 0 .. Callers
      /\ Cardinality(V) = Cardinality(U) + (IF t \in V THEN 1 ELSE 0)
                                          - (IF t \in U THEN 1 ELSE 0)
  BY <1>3, CountMove
<1>7. Cardinality(S) = Cardinality(Growers(i)) /\ Cardinality(U) = Cardinality(Shrinkers(i))
  BY DEF S, U
<1>8. QED
  BY <1>1, <1>2, <1>3, <1>4, <1>5, <1>6, <1>7

\* Members, and workers that a decision taken earlier will add.
Load(i)  == Len(members[i]) + Cardinality(Growers(i))
Seats(t) == left[t] + (IF pc[t] = "seat" THEN 1 ELSE 0)

Room ==
  /\ \A i \in Pool : Load(i) <= Limit
  /\ \A t \in Caller : Seeding(t) =>
       /\ Seats(t) <= MinN
       /\ Load(at[t]) + Seats(t) <= Limit
       /\ Seats(t) = MinN => Load(at[t]) = 0

LEMMA LimitType ==
  /\ Callers \in Nat
  /\ Limit \in Nat
  /\ MinN <= Limit
  /\ MaxN + Callers - 1 <= Limit
  /\ MinN > 0 => MaxN + Callers + MinN - 3 <= Limit
<1>1. Callers \in Nat
  BY PoolAssumption, FS_CardinalityType DEF Callers
<1>2. QED
  BY <1>1, PoolAssumption DEF Limit

\* A step that neither adds to a pool nor to its seeds.
LEMMA CalmStep ==
  ASSUME TypeOK, Tenure, Room, TypeOK', Tenure',
         \A i \in Pool : Load(i)' <= Load(i) /\ Load(i) \in Nat /\ Load(i)' \in Nat,
         \A u \in Caller : Seeding(u)' =>
           Seeding(u) /\ at'[u] = at[u] /\ Seats(u)' <= Seats(u)
  PROVE  Room'
<1>1. \A u \in Caller : Seats(u) \in Nat /\ Seats(u)' \in Nat
  BY PoolAssumption DEF Seats, TypeOK
<1>2. ASSUME NEW u \in Caller, Seeding(u)'
      PROVE  /\ Seats(u)' <= MinN
             /\ Load(at[u])' + Seats(u)' <= Limit
             /\ Seats(u)' = MinN => Load(at[u])' = 0
  <2>1. PICK i \in Pool : i = at[u] /\ i = at'[u]
    BY <1>2, AtPool DEF Seeding
  <2>2. Load(i)' = Load(at[u])'
    BY <2>1
  <2>3. /\ Seats(u) <= MinN
        /\ Load(i) + Seats(u) <= Limit
        /\ Seats(u) = MinN => Load(i) = 0
    BY <1>2, <2>1 DEF Room
  <2>4. /\ Load(i)' <= Load(i) /\ Load(i) \in Nat /\ Load(i)' \in Nat
        /\ Seats(u)' <= Seats(u) /\ Seats(u) \in Nat /\ Seats(u)' \in Nat
        /\ Limit \in Nat /\ MinN \in Nat
    BY <1>1, <1>2, <2>1, LimitType, PoolAssumption
  <2>5. QED
    BY <2>2, <2>3, <2>4
<1>3. ASSUME NEW i \in Pool
      PROVE  Load(i)' <= Limit
  BY <1>3, LimitType DEF Room
<1>4. QED
  BY <1>2, <1>3 DEF Room

\* The load of a pool that t neither adds to nor decides to add to.
LEMMA CalmLoad ==
  ASSUME TypeOK, TypeOK', NEW t \in Caller, Frame(t), NEW i \in Pool,
         Len(members'[i]) <= Len(members[i]),
         Grows(t, i)' => Grows(t, i)
  PROVE  Load(i)' <= Load(i) /\ Load(i) \in Nat /\ Load(i)' \in Nat
<1>1. /\ Len(members[i]) \in Nat /\ Len(members'[i]) \in Nat
      /\ Cardinality(Growers(i)) \in Nat /\ Cardinality(Growers(i))' \in Nat
  BY Counts, LimitType
<1>2. Cardinality(Growers(i))' <= Cardinality(Growers(i))
  BY Counts, LimitType
<1>3. /\ Load(i) = Len(members[i]) + Cardinality(Growers(i))
      /\ Load(i)' = Len(members'[i]) + Cardinality(Growers(i))'
  BY DEF Load
<1>4. QED
  BY <1>1, <1>2, <1>3

\* A step of t that leaves the members, or takes some away, and does not add.
LEMMA CalmMove ==
  ASSUME TypeOK, Tenure, Room, TypeOK', Tenure', NEW t \in Caller, Frame(t),
         \A i \in Pool : Len(members'[i]) <= Len(members[i]),
         pc'[t] \in {"grow", "join"} => pc[t] \in {"grow", "join"} /\ at'[t] = at[t],
         pc'[t] \notin {"seed", "seat"}
  PROVE  Room'
<1>1. \A i \in Pool : Grows(t, i)' => Grows(t, i)
  BY DEF Grows
<1>2. \A i \in Pool : Load(i)' <= Load(i) /\ Load(i) \in Nat /\ Load(i)' \in Nat
  BY <1>1, CalmLoad
<1>3. ASSUME NEW u \in Caller, Seeding(u)'
      PROVE  Seeding(u) /\ at'[u] = at[u] /\ Seats(u)' <= Seats(u)
  <2>1. u # t /\ pc'[u] = pc[u] /\ at'[u] = at[u] /\ left'[u] = left[u]
    BY <1>3 DEF Seeding, Frame
  <2>2. Seats(u)' = Seats(u) /\ Seats(u) \in Nat
    BY <2>1, PoolAssumption DEF Seats, TypeOK
  <2>3. QED
    BY <1>3, <2>1, <2>2 DEF Seeding
<1>4. QED
  BY <1>2, <1>3, CalmStep

LEMMA FrameStep ==
  ASSUME TypeOK, NEW t \in Caller,
         \/ Create(t) \/ Seed(t) \/ Created(t) \/ Join(t) \/ Pick(t)
         \/ Sample(t) \/ Grow(t) \/ Shrink(t) \/ Retire(t) \/ Choose(t)
         \/ Destroy(t) \/ Clear(t) \/ Sweep(t) \/ Destroyed(t)
  PROVE  Frame(t)
<1>1. CASE Create(t) \/ Created(t) \/ Join(t) \/ Pick(t)
  BY <1>1 DEF TypeOK, Create, Created, Join, Pick, Goto, Return, Frame
<1>2. CASE Seed(t) \/ Grow(t)
  BY <1>2 DEF TypeOK, Seed, Grow, SpawnWorker, Goto, Frame
<1>3. CASE Sample(t) \/ Retire(t) \/ Choose(t)
  BY <1>3 DEF TypeOK, Sample, Retire, Choose, Goto, Return, Frame
<1>4. CASE Shrink(t)
  BY <1>4 DEF TypeOK, Shrink, Goto, Return, Frame
<1>5. CASE Destroy(t) \/ Clear(t) \/ Sweep(t) \/ Destroyed(t)
  BY <1>5 DEF TypeOK, Destroy, Clear, Sweep, Destroyed, Goto, Return, Frame
<1>6. QED
  BY <1>1, <1>2, <1>3, <1>4, <1>5

\* What pop() and clear() do to the lengths.
LEMMA Shorter ==
  ASSUME TypeOK, Tenure, Spread, NEW t \in Caller, Shrink(t) \/ Clear(t)
  PROVE  /\ \A i \in Pool : Len(members'[i]) <= Len(members[i])
         /\ Shrink(t) => Len(members'[at[t]]) >= Len(members[at[t]]) - 1
         /\ \A i \in Pool : i # at[t] => members'[i] = members[i]
<1>1. PICK i \in Pool : i = at[t]
  BY AtPool DEF Shrink, Clear
<1>2. members[i] \in Seq(Worker) /\ IsInjective(members[i])
  BY DEF TypeOK, Spread
<1>3. \A j \in Pool : Len(members[j]) \in Nat
  <2>1. \A j \in Pool : members[j] \in Seq(Worker)
    BY DEF TypeOK
  <2>2. QED
    BY <2>1
<1>4. CASE Clear(t)
  <2>1. members' = [members EXCEPT ![i] = <<>>] /\ pc[t] = "clear"
    BY <1>1, <1>4 DEF Clear, SetMembers
  <2>2. members'[i] = <<>> /\ \A j \in Pool : j # i => members'[j] = members[j]
    BY <2>1 DEF TypeOK
  <2>3. ~Shrink(t)
    BY <2>1 DEF Shrink
  <2>4. QED
    BY <1>1, <1>3, <2>2, <2>3
<1>5. CASE Shrink(t) /\ members[i] = <<>>
  BY <1>1, <1>3, <1>5 DEF Shrink
<1>6. CASE Shrink(t) /\ members[i] # <<>>
  <2>1. members' = [members EXCEPT ![i] = Front(members[i])]
    BY <1>1, <1>6 DEF Shrink, SetMembers
  <2>2. /\ members'[i] = Front(members[i])
        /\ \A j \in Pool : j # i => members'[j] = members[j]
    BY <2>1 DEF TypeOK
  <2>3. Len(Front(members[i])) = Len(members[i]) - 1
    BY <1>2, <1>6, PopList
  <2>4. QED
    BY <1>1, <1>3, <2>2, <2>3
<1>7. QED
  BY <1>4, <1>5, <1>6

\* What append() does to them.
LEMMA Longer ==
  ASSUME TypeOK, Tenure, NEW t \in Caller, Join(t)
  PROVE  /\ \A i \in Pool : i # at[t] => members'[i] = members[i]
         /\ Len(members'[at[t]]) = Len(members[at[t]]) + 1
<1>1. PICK i \in Pool : i = at[t]
  BY AtPool DEF Join
<1>2. PICK w \in hand[t] : members' = [members EXCEPT ![i] = Append(members[i], w)]
  BY <1>1 DEF Join, SetMembers
<1>3. /\ members'[i] = Append(members[i], w)
      /\ members[i] \in Seq(Worker)
      /\ \A j \in Pool : j # i => members'[j] = members[j]
  BY <1>2 DEF TypeOK
<1>4. QED
  BY <1>1, <1>3

LEMMA RoomStep ==
  ASSUME TypeOK, Tenure, Spread, Room, TypeOK', Tenure', [Next]_vars
  PROVE  Room'
<1>0. /\ MinN \in Nat /\ MaxN \in Nat /\ Callers \in Nat /\ Limit \in Nat
      /\ \A t \in Caller : left[t] \in 0 .. MinN /\ left'[t] \in 0 .. MinN
      /\ \A i \in Pool : members[i] \in Seq(Worker)
  BY LimitType, PoolAssumption DEF TypeOK
<1>00. \A i \in Pool : Len(members[i]) \in Nat
  BY <1>0
<1>1. ASSUME NEW t \in Caller, Create(t)
      PROVE  Room'
  <2>1. Frame(t) /\ members' = members
    BY <1>1, FrameStep DEF Create
  <2>2. /\ pc[t] = "idle" /\ pc'[t] = "seed" /\ created + 1 \in Pool
        /\ at'[t] = created + 1 /\ left'[t] = MinN
    BY <1>1 DEF Create, TypeOK, Goto, Pool
  <2>3. \A i \in Pool : Load(i)' <= Load(i) /\ Load(i) \in Nat /\ Load(i)' \in Nat
    BY <1>00, <2>1, <2>2, CalmLoad DEF Grows
  <2>4. ASSUME NEW u \in Caller, u # t, Seeding(u)'
        PROVE  /\ Seats(u)' <= MinN
               /\ Load(at[u])' + Seats(u)' <= Limit
               /\ Seats(u)' = MinN => Load(at[u])' = 0
    <3>1. PICK i \in Pool : i = at[u] /\ i = at'[u]
      BY <2>1, <2>4, AtPool DEF Seeding, Frame
    <3>2. Seeding(u) /\ Seats(u)' = Seats(u) /\ Seats(u) \in Nat
      BY <1>0, <2>1, <2>4 DEF Seeding, Seats, Frame
    <3>3. Load(at[u])' = Load(i)'
      BY <3>1
    <3>4. Seats(u) <= MinN /\ Load(i) + Seats(u) <= Limit /\ (Seats(u) = MinN => Load(i) = 0)
      BY <3>1, <3>2 DEF Room
    <3>5. Load(i)' <= Load(i) /\ Load(i) \in Nat /\ Load(i)' \in Nat
      BY <2>3
    <3>6. QED
      BY <1>0, <3>2, <3>3, <3>4, <3>5
  <2>5. /\ Seats(t)' = MinN
        /\ Load(at[t])' = 0
    <3>1. PICK i \in Pool : i = created + 1 /\ i = at'[t]
      BY <2>2
    <3>2. members'[i] = <<>>
      <4>1. i > created
        BY <3>1 DEF TypeOK
      <4>2. QED
        BY <2>1, <4>1 DEF Tenure
    <3>3. Growers(i)' = {}
      <4>1. \A u \in Caller : pc[u] # "idle" => at[u] # i
        BY <3>1 DEF Tenure, TypeOK
      <4>2. QED
        BY <2>1, <2>2, <4>1 DEF Growers, Frame
    <3>4. Load(i)' = 0
      BY <3>2, <3>3, FS_EmptySet DEF Load
    <3>5. Seats(t)' = MinN
      BY <1>0, <2>2 DEF Seats
    <3>6. QED
      BY <3>1, <3>4, <3>5
  <2>6. \A i \in Pool : Load(i)' <= Limit
    BY <1>0, <2>3 DEF Room
  <2>7. QED
    BY <1>0, <2>4, <2>5, <2>6, LimitType DEF Room
<1>2. ASSUME NEW t \in Caller, Seed(t)
      PROVE  Room'
  <2>1. Frame(t) /\ members' = members /\ at' = at
    BY <1>2, FrameStep DEF Seed
  <2>2. /\ pc[t] = "seed" /\ left'[t] = left[t] - 1 /\ left[t] > 0
        /\ pc'[t] \in {"seed", "seat"}
    BY <1>2 DEF Seed, TypeOK, Goto
  <2>3. \A i \in Pool : Load(i)' <= Load(i) /\ Load(i) \in Nat /\ Load(i)' \in Nat
    BY <1>00, <2>1, <2>2, CalmLoad DEF Grows
  <2>4. ASSUME NEW u \in Caller, Seeding(u)'
        PROVE  Seeding(u) /\ at'[u] = at[u] /\ Seats(u)' <= Seats(u)
    <3>1. CASE u = t
      BY <1>0, <2>1, <2>2, <3>1 DEF Seeding, Seats
    <3>2. CASE u # t
      BY <1>0, <2>1, <2>4, <3>2 DEF Seeding, Seats, Frame
    <3>3. QED
      BY <3>1, <3>2
  <2>5. QED
    BY <2>3, <2>4, CalmStep
<1>3. ASSUME NEW t \in Caller, Join(t), pc[t] = "join"
      PROVE  Room'
  <2>1. Frame(t) /\ at' = at /\ pc'[t] = "choose"
    BY <1>3, FrameStep DEF Join, Goto, TypeOK
  <2>2. ASSUME NEW i \in Pool
        PROVE  Load(i)' <= Load(i) /\ Load(i) \in Nat /\ Load(i)' \in Nat
    <3>1. CASE i # at[t]
      <4>1. Len(members'[i]) <= Len(members[i])
        BY <1>00, <1>3, <3>1, Longer
      <4>2. ~Grows(t, i)'
        BY <2>1 DEF Grows
      <4>3. QED
        BY <2>1, <4>1, <4>2, CalmLoad
    <3>2. CASE i = at[t]
      <4>1. Grows(t, i) /\ ~Grows(t, i)'
        BY <1>3, <2>1, <3>2 DEF Grows
      <4>2. Len(members'[i]) = Len(members[i]) + 1
        BY <1>3, <3>2, Longer
      <4>3. /\ Cardinality(Growers(i)) \in 0 .. Callers
            /\ Cardinality(Growers(i))' \in 0 .. Callers
            /\ Cardinality(Growers(i))' = Cardinality(Growers(i)) - 1
        BY <1>0, <2>1, <4>1, Counts
      <4>4. Len(members[i]) \in Nat /\ Callers \in Nat
        BY <1>0, <1>00
      <4>5. Len(members'[i]) + Cardinality(Growers(i))'
              = Len(members[i]) + Cardinality(Growers(i))
        BY <4>2, <4>3, <4>4
      <4>6. QED
        BY <4>2, <4>3, <4>4, <4>5 DEF Load
    <3>3. QED
      BY <3>1, <3>2
  <2>3. ASSUME NEW u \in Caller, Seeding(u)'
        PROVE  Seeding(u) /\ at'[u] = at[u] /\ Seats(u)' <= Seats(u)
    BY <1>0, <2>1, <2>3 DEF Seeding, Seats, Frame
  <2>4. QED
    BY <2>2, <2>3, CalmStep
<1>4. ASSUME NEW t \in Caller, Join(t), pc[t] = "seat"
      PROVE  Room'
  <2>1. Frame(t) /\ at' = at /\ left' = left /\ pc'[t] = "seed"
    BY <1>4, FrameStep DEF Join, Goto, TypeOK
  <2>2. PICK i \in Pool : i = at[t]
    BY <1>4, AtPool
  <2>3. Load(i)' = Load(i) + 1 /\ Load(i) \in Nat
    <3>1. ~Grows(t, i) /\ ~Grows(t, i)'
      BY <1>4, <2>1 DEF Grows
    <3>2. Len(members'[i]) = Len(members[i]) + 1
      BY <1>4, <2>2, Longer
    <3>3. /\ Cardinality(Growers(i)) \in 0 .. Callers
          /\ Cardinality(Growers(i))' = Cardinality(Growers(i))
      BY <1>0, <2>1, <3>1, Counts
    <3>4. /\ Load(i) = Len(members[i]) + Cardinality(Growers(i))
          /\ Load(i)' = Len(members'[i]) + Cardinality(Growers(i))'
      BY DEF Load
    <3>5. QED
      BY <1>0, <1>00, <3>2, <3>3, <3>4
  <2>4. ASSUME NEW j \in Pool, j # i
        PROVE  Load(j)' <= Load(j) /\ Load(j) \in Nat /\ Load(j)' \in Nat
    <3>1. Len(members'[j]) <= Len(members[j])
      BY <1>00, <1>4, <2>2, <2>4, Longer
    <3>2. ~Grows(t, j)'
      BY <2>1 DEF Grows
    <3>3. QED
      BY <2>1, <3>1, <3>2, CalmLoad
  <2>5. /\ Seats(t) = left[t] + 1 /\ Seats(t)' = left[t]
        /\ Seats(t) <= MinN /\ Load(i) + Seats(t) <= Limit
    BY <1>0, <1>4, <2>1, <2>2 DEF Seats, Seeding, Room
  <2>6. Load(i)' <= Limit
    BY <1>0, <1>4, <2>3, <2>5
  <2>7. ASSUME NEW u \in Caller, Seeding(u)'
        PROVE  /\ Seats(u)' <= MinN
               /\ Load(at[u])' + Seats(u)' <= Limit
               /\ Seats(u)' = MinN => Load(at[u])' = 0
    <3>1. CASE u = t
      <4>1. Load(at[u])' = Load(i)'
        BY <2>1, <2>2, <3>1
      <4>2. QED
        BY <1>0, <2>3, <2>5, <3>1, <4>1
    <3>2. CASE u # t
      <4>1. /\ Seeding(u) /\ Seats(u)' = Seats(u) /\ Seats(u) \in Nat
            /\ at'[u] = at[u]
        BY <1>0, <2>1, <2>7, <3>2 DEF Seeding, Seats, Frame
      <4>2. at[u] # i
        BY <1>4, <2>2, <3>2, <4>1 DEF Tenure, Seeding
      <4>3. PICK j \in Pool : j = at[u] /\ j # i
        BY <4>1, <4>2, AtPool DEF Seeding
      <4>4. Load(at[u])' = Load(j)'
        BY <4>1, <4>3
      <4>5. /\ Seats(u) <= MinN
            /\ Load(j) + Seats(u) <= Limit
            /\ Seats(u) = MinN => Load(j) = 0
        BY <4>1, <4>3 DEF Room
      <4>6. Load(j)' <= Load(j) /\ Load(j) \in Nat /\ Load(j)' \in Nat
        BY <2>4, <4>3
      <4>7. QED
        BY <1>0, <4>1, <4>4, <4>5, <4>6
    <3>3. QED
      BY <3>1, <3>2
  <2>8. \A j \in Pool : Load(j)' <= Limit
    BY <1>0, <2>4, <2>6 DEF Room
  <2>9. QED
    BY <2>7, <2>8 DEF Room
<1>5. ASSUME NEW t \in Caller, Sample(t), pc'[t] = "grow"
      PROVE  Room'
  <2>1. /\ Frame(t) /\ members' = members /\ at' = at /\ left' = left
        /\ pc[t] = "pick"
    BY <1>5, FrameStep DEF Sample, Goto, Return, TypeOK
  <2>2. PICK i \in Pool : i = at[t]
    BY <2>1, AtPool
  <2>3. Len(members[i]) \in 1 .. MaxN - 1
    BY <1>0, <1>00, <1>5, <2>1, <2>2 DEF Sample, Goto, Return, TypeOK
  <2>4. /\ Grows(t, i)' /\ ~Grows(t, i)
        /\ Cardinality(Growers(i))' \in 0 .. Callers
        /\ Cardinality(Growers(i)) \in 0 .. Callers
        /\ Cardinality(Growers(i))' = Cardinality(Growers(i)) + 1
    <3>1. Grows(t, i)' /\ ~Grows(t, i)
      BY <1>5, <2>1, <2>2 DEF Grows
    <3>2. QED
      BY <1>0, <2>1, <3>1, Counts
  <2>5. /\ Load(i)' = Len(members[i]) + Cardinality(Growers(i))'
        /\ Load(i) = Len(members[i]) + Cardinality(Growers(i))
    BY <2>1 DEF Load
  <2>6. ASSUME NEW j \in Pool, j # i
        PROVE  Load(j)' <= Load(j) /\ Load(j) \in Nat /\ Load(j)' \in Nat
    <3>1. Len(members'[j]) <= Len(members[j])
      BY <1>00, <2>1
    <3>2. ~Grows(t, j)'
      BY <2>1, <2>2, <2>6 DEF Grows
    <3>3. QED
      BY <2>1, <3>1, <3>2, CalmLoad
  <2>7. Load(i)' <= Limit
    BY <1>0, <2>3, <2>4, <2>5, LimitType
  <2>8. ASSUME NEW u \in Caller, Seeding(u)'
        PROVE  /\ Seats(u)' <= MinN
               /\ Load(at[u])' + Seats(u)' <= Limit
               /\ Seats(u)' = MinN => Load(at[u])' = 0
    <3>1. /\ u # t /\ Seeding(u) /\ Seats(u)' = Seats(u) /\ Seats(u) \in Nat
          /\ at'[u] = at[u]
      BY <1>0, <1>5, <2>1, <2>8 DEF Seeding, Seats, Frame
    <3>2. PICK j \in Pool : j = at[u]
      BY <3>1, AtPool DEF Seeding
    <3>3. Load(at[u])' = Load(j)'
      BY <3>1, <3>2
    <3>4. /\ Seats(u) <= MinN
          /\ Load(j) + Seats(u) <= Limit
          /\ Seats(u) = MinN => Load(j) = 0
      BY <3>1, <3>2 DEF Room
    <3>5. CASE j # i
      <4>1. Load(j)' <= Load(j) /\ Load(j) \in Nat /\ Load(j)' \in Nat
        BY <2>6, <3>5
      <4>2. QED
        BY <1>0, <3>1, <3>3, <3>4, <4>1
    <3>6. CASE j = i
      <4>1. Cardinality(Growers(i))' <= Callers - 1
        <5>1. /\ Growers(i)' \in SUBSET (Caller \ {u})
          BY <2>8 DEF Growers, Seeding
        <5>2. IsFiniteSet(Caller \ {u}) /\ Cardinality(Caller \ {u}) = Callers - 1
          BY PoolAssumption, FS_RemoveElement DEF Callers
        <5>3. Cardinality(Growers(i)') <= Cardinality(Caller \ {u})
          BY <5>1, <5>2, FS_Subset
        <5>4. QED
          BY <5>2, <5>3
      <4>2. Seats(u) < MinN
        BY <1>0, <2>3, <2>4, <2>5, <3>1, <3>4, <3>6
      <4>3. QED
        BY <1>0, <2>3, <2>4, <2>5, <3>1, <3>3, <3>6, <4>1, <4>2, LimitType
    <3>7. QED
      BY <3>5, <3>6
  <2>9. \A j \in Pool : Load(j)' <= Limit
    BY <1>0, <2>6, <2>7 DEF Room
  <2>10. QED
    BY <2>8, <2>9 DEF Room
<1>6. ASSUME NEW t \in Caller, Sample(t), pc'[t] # "grow"
      PROVE  Room'
  <2>1. Frame(t) /\ members' = members /\ pc'[t] \in {"idle", "shrink", "choose"}
    BY <1>6, FrameStep DEF Sample, Goto, Return, TypeOK
  <2>2. QED
    BY <1>00, <2>1, CalmMove
<1>7. ASSUME NEW t \in Caller, Created(t) \/ Pick(t) \/ Grow(t) \/ Retire(t)
      PROVE  Room'
  <2>1. Frame(t) /\ members' = members
    BY <1>7, FrameStep DEF Created, Pick, Grow, Retire
  <2>2. /\ pc'[t] \in {"grow", "join"} => pc[t] \in {"grow", "join"} /\ at'[t] = at[t]
        /\ pc'[t] \notin {"seed", "seat"}
    BY <1>7 DEF Created, Pick, Grow, Retire, Goto, Return, TypeOK
  <2>3. QED
    BY <1>00, <2>1, <2>2, CalmMove
<1>8. ASSUME NEW t \in Caller, Choose(t) \/ Destroy(t) \/ Sweep(t) \/ Destroyed(t)
      PROVE  Room'
  <2>1. Frame(t) /\ members' = members
    BY <1>8, FrameStep DEF Choose, Destroy, Sweep, Destroyed
  <2>2. pc'[t] \in {"idle", "clear", "sweep"}
    BY <1>8 DEF Choose, Destroy, Sweep, Destroyed, Goto, Return, TypeOK
  <2>3. QED
    BY <1>00, <2>1, <2>2, CalmMove
<1>9. ASSUME NEW t \in Caller, Shrink(t) \/ Clear(t)
      PROVE  Room'
  <2>1. Frame(t) /\ \A i \in Pool : Len(members'[i]) <= Len(members[i])
    BY <1>9, FrameStep, Shorter
  <2>2. pc'[t] \in {"idle", "retire", "sweep"}
    BY <1>9 DEF Shrink, Clear, Goto, Return, TypeOK
  <2>3. QED
    BY <2>1, <2>2, CalmMove
<1>10. CASE UNCHANGED vars
  BY <1>10 DEF vars, Room, Load, Seats, Seeding, Growers
<1>11. ASSUME NEW t \in Caller, Join(t)
       PROVE  Room'
  BY <1>3, <1>4, <1>11 DEF Join
<1>12. QED
  BY <1>1, <1>2, <1>5, <1>6, <1>7, <1>8, <1>9, <1>10, <1>11 DEF Next

LEMMA FloorStep ==
  ASSUME TypeOK, Tenure, Spread, FloorBound, TypeOK', Tenure', [Next]_vars
  PROVE  FloorBound'
<1>0. MinN \in Nat /\ Callers \in Nat /\ \A i \in Pool : i # None
  BY LimitType, PoolAssumption DEF Pool, None
<1>1. ASSUME NEW t \in Caller, Frame(t), NEW i \in Pool, registry = i,
             Len(members'[i]) >= Len(members[i]),
             Shrinks(t, i)' => Shrinks(t, i),
             Shrinkers(i)' # {}
      PROVE  Len(members'[i]) - Cardinality(Shrinkers(i))' >= MinN + 1 - Callers
  <2>1. Shrinkers(i) # {}
    BY <1>1 DEF Shrinkers, Shrinks, Frame
  <2>2. Len(members[i]) - Cardinality(Shrinkers(i)) >= MinN + 1 - Callers
    BY <1>1, <2>1 DEF FloorBound
  <2>3. /\ Cardinality(Shrinkers(i)) \in Nat /\ Cardinality(Shrinkers(i))' \in Nat
        /\ Cardinality(Shrinkers(i))' <= Cardinality(Shrinkers(i))
        /\ Len(members[i]) \in Nat /\ Len(members'[i]) \in Nat
    BY <1>0, <1>1, Counts
  <2>4. QED
    BY <1>0, <1>1, <2>2, <2>3
<1>2. ASSUME NEW t \in Caller, Frame(t), UNCHANGED members,
             pc'[t] = "shrink" => pc[t] = "shrink" /\ at'[t] = at[t],
             registry' \in {registry, None}
      PROVE  FloorBound'
  <2> SUFFICES ASSUME NEW i \in Pool, registry' = i, Shrinkers(i)' # {}
               PROVE  Len(members'[i]) - Cardinality(Shrinkers(i))' >= MinN + 1 - Callers
    BY DEF FloorBound
  <2>1. registry = i
    BY <1>0, <1>2
  <2>2. Len(members'[i]) >= Len(members[i])
    <3>1. members[i] \in Seq(Worker)
      BY DEF TypeOK
    <3>2. QED
      BY <1>2, <3>1
  <2>3. Shrinks(t, i)' => Shrinks(t, i)
    BY <1>2 DEF Shrinks
  <2>4. QED
    BY <1>1, <1>2, <2>1, <2>2, <2>3
<1>3. ASSUME NEW t \in Caller, Create(t)
      PROVE  FloorBound'
  <2> SUFFICES ASSUME NEW i \in Pool, registry' = i, Shrinkers(i)' # {}
               PROVE  FALSE
    BY DEF FloorBound
  <2>1. PICK u \in Caller : at'[u] = i /\ pc'[u] = "shrink"
    BY DEF Shrinkers
  <2>2. pc[u] = "shrink" /\ at[u] = i
    BY <1>3, <2>1 DEF Create, Goto, TypeOK
  <2>3. i = created + 1 /\ created \in Nat
    BY <1>3 DEF Create, TypeOK
  <2>4. QED
    BY <2>2, <2>3 DEF Tenure
<1>4. ASSUME NEW t \in Caller, Seed(t) \/ Created(t) \/ Pick(t) \/ Grow(t)
      PROVE  FloorBound'
  <2>1. Frame(t) /\ UNCHANGED members /\ registry' = registry
    BY <1>4, FrameStep DEF Seed, Created, Pick, Grow
  <2>2. pc'[t] # "shrink"
    BY <1>4 DEF Seed, Created, Pick, Grow, Goto, Return, TypeOK
  <2>3. QED
    BY <1>2, <2>1, <2>2
<1>5. ASSUME NEW t \in Caller,
             Retire(t) \/ Choose(t) \/ Destroy(t) \/ Sweep(t) \/ Destroyed(t)
      PROVE  FloorBound'
  <2>1. Frame(t) /\ UNCHANGED members /\ registry' \in {registry, None}
    BY <1>5, FrameStep DEF Retire, Choose, Destroy, Sweep, Destroyed
  <2>2. pc'[t] # "shrink"
    BY <1>5 DEF Retire, Choose, Destroy, Sweep, Destroyed, Goto, Return, TypeOK
  <2>3. QED
    BY <1>2, <2>1, <2>2
<1>6. ASSUME NEW t \in Caller, Join(t)
      PROVE  FloorBound'
  <2> SUFFICES ASSUME NEW i \in Pool, registry' = i, Shrinkers(i)' # {}
               PROVE  Len(members'[i]) - Cardinality(Shrinkers(i))' >= MinN + 1 - Callers
    BY DEF FloorBound
  <2>1. Frame(t) /\ registry = i /\ pc'[t] # "shrink"
    BY <1>6, FrameStep DEF Join, Goto, TypeOK
  <2>2. Len(members'[i]) >= Len(members[i])
    <3>1. members[i] \in Seq(Worker)
      BY DEF TypeOK
    <3>2. Len(members[i]) \in Nat
      BY <3>1
    <3>3. QED
      BY <1>6, <3>2, Longer
  <2>3. QED
    BY <1>1, <2>1, <2>2 DEF Shrinks
<1>7. ASSUME NEW t \in Caller, Sample(t)
      PROVE  FloorBound'
  <2>1. Frame(t) /\ UNCHANGED members /\ registry' = registry
    BY <1>7, FrameStep DEF Sample
  <2>2. CASE pc'[t] # "shrink"
    BY <1>2, <2>1, <2>2
  <2>3. CASE pc'[t] = "shrink"
    <3> SUFFICES ASSUME NEW i \in Pool, registry' = i, Shrinkers(i)' # {}
                 PROVE  Len(members'[i]) - Cardinality(Shrinkers(i))' >= MinN + 1 - Callers
      BY DEF FloorBound
    <3>1. at' = at /\ Len(members[at[t]]) > MinN
      BY <1>7, <2>3 DEF Sample, Goto, Return, TypeOK
    <3>2. Len(members[i]) \in Nat /\ Cardinality(Shrinkers(i))' \in 0 .. Callers
      BY <2>1, Counts
    <3>3. CASE i = at[t]
      <4>0. members'[i] = members[at[t]] /\ Len(members'[i]) \in Nat
        BY <2>1, <3>2, <3>3
      <4>1. Len(members'[i]) \in Nat /\ Len(members'[i]) >= MinN + 1
        BY <1>0, <3>1, <4>0
      <4>2. \A n, c \in Nat : n >= MinN + 1 /\ c <= Callers => n - c >= MinN + 1 - Callers
        BY <1>0
      <4>3. Cardinality(Shrinkers(i))' \in Nat /\ Cardinality(Shrinkers(i))' <= Callers
        BY <1>0, <3>2
      <4>4. QED
        BY <4>1, <4>2, <4>3
    <3>4. CASE i # at[t]
      BY <1>1, <2>1, <3>1, <3>2, <3>4 DEF Shrinks
    <3>5. QED
      BY <3>3, <3>4
  <2>4. QED
    BY <2>2, <2>3
<1>8. ASSUME NEW t \in Caller, Shrink(t) \/ Clear(t)
      PROVE  FloorBound'
  <2> SUFFICES ASSUME NEW i \in Pool, registry' = i, Shrinkers(i)' # {}
               PROVE  Len(members'[i]) - Cardinality(Shrinkers(i))' >= MinN + 1 - Callers
    BY DEF FloorBound
  <2>1. Frame(t) /\ registry = i /\ pc'[t] # "shrink"
    BY <1>8, FrameStep DEF Shrink, Clear, Goto, Return, TypeOK
  <2>2. CASE i # at[t]
    <3>1. members'[i] = members[i] /\ members[i] \in Seq(Worker)
      BY <1>8, <2>2, Shorter DEF TypeOK
    <3>2. Len(members'[i]) >= Len(members[i])
      BY <3>1
    <3>3. QED
      BY <1>1, <2>1, <3>2 DEF Shrinks
  <2>3. CASE i = at[t]
    <3>1. Shrink(t) /\ pc[t] = "shrink"
      BY <1>8, <2>1, <2>3 DEF Clear, Shrink, Tenure
    <3>2. Len(members'[i]) >= Len(members[i]) - 1
      BY <2>3, <3>1, Shorter
    <3>3. Shrinks(t, i) /\ ~Shrinks(t, i)' /\ Shrinkers(i) # {}
      BY <2>1, <2>3, <3>1 DEF Shrinks, Shrinkers
    <3>4. Len(members[i]) - Cardinality(Shrinkers(i)) >= MinN + 1 - Callers
      BY <2>1, <3>3 DEF FloorBound
    <3>5. /\ Cardinality(Shrinkers(i)) \in Nat /\ Cardinality(Shrinkers(i))' \in Nat
          /\ Cardinality(Shrinkers(i))' = Cardinality(Shrinkers(i)) - 1
          /\ Len(members[i]) \in Nat /\ Len(members'[i]) \in Nat
      BY <1>0, <2>1, <3>3, Counts
    <3>6. QED
      BY <1>0, <3>2, <3>4, <3>5
  <2>4. QED
    BY <2>2, <2>3
<1>9. CASE UNCHANGED vars
  BY <1>9 DEF vars, FloorBound, Shrinkers
<1>10. QED
  BY <1>3, <1>4, <1>5, <1>6, <1>7, <1>8, <1>9 DEF Next

-----------------------------------------------------------------------------
(***************************************************************************)
(* Whose turn it is.  The workers served in this round are those in the k  *)
(* places before the index, counted around the end of the list, with k     *)
(* below the length of the list: the next one is not among them.           *)
(***************************************************************************)

LEMMA RemainderType ==
  ASSUME NEW n \in Nat, n > 0, NEW r \in Nat
  PROVE  r % n \in 0 .. n - 1
  OBVIOUS

LEMMA RemainderSmall ==
  ASSUME NEW n \in Nat, n > 0, NEW r \in 0 .. n - 1
  PROVE  r % n = r
  OBVIOUS

LEMMA RemainderNext ==
  ASSUME NEW n \in Nat, n > 0, NEW r \in Nat
  PROVE  (r + 1) % n = IF (r % n) + 1 = n THEN 0 ELSE (r % n) + 1
<1> DEFINE p == r \div n
           q == (r + 1) \div n
           m == r % n
           k == (r + 1) % n
<1>1. p \in Int /\ q \in Int /\ m \in 0 .. n - 1 /\ k \in 0 .. n - 1
  OBVIOUS
<1>2. r = n * p + m /\ r + 1 = n * q + k
  OBVIOUS
<1> HIDE DEF p, q, m, k
<1>3. n * (q - p) = m + 1 - k
  BY <1>1, <1>2
<1>4. q - p <= 1 /\ q - p >= 0
  <2>1. CASE q - p >= 2
    <3>1. n * (q - p) >= n * 2
      BY <1>1, <2>1
    <3>2. QED
      BY <1>1, <1>3, <3>1
  <2>2. CASE q - p <= -1
    <3>1. n * (q - p) <= -n
      BY <1>1, <2>2
    <3>2. QED
      BY <1>1, <1>3, <3>1
  <2>3. QED
    BY <1>1, <2>1, <2>2
<1>5. QED
  BY <1>1, <1>3, <1>4 DEF m, k

\* The k places before place m of n.
Recent(n, m, k) == {p \in 0 .. n - 1 : (p < m /\ p >= m - k) \/ p >= m + n - k}

\* S are the workers of the list s that were served in this round when r is
\* the index.
RoundOf(s, r, S) ==
  IF s = <<>> THEN S = {}
  ELSE \E k \in 0 .. Len(s) - 1 :
         S = {s[1 + p] : p \in Recent(Len(s), r % Len(s), k)}

Rounds == \A i \in Pool : RoundOf(members[i], rr[i], served[i])

\* Place m is not among the k before it, and with n - 1 of them there are all n.
LEMMA RecentNext ==
  ASSUME NEW n \in Nat, n > 0, NEW m \in 0 .. n - 1, NEW k \in 0 .. n - 1
  PROVE  /\ m \notin Recent(n, m, k)
         /\ Recent(n, m, 0) = {}
         /\ k + 1 = n => Recent(n, m, k) \cup {m} = 0 .. n - 1
  BY DEF Recent

LEMMA Index ==
  ASSUME NEW s \in Seq(Worker), s # <<>>, NEW r \in Nat
  PROVE  /\ Len(s) \in Nat /\ Len(s) > 0 /\ DOMAIN s = 1 .. Len(s)
         /\ r % Len(s) \in 0 .. Len(s) - 1
<1>1. Len(s) \in Nat /\ Len(s) > 0 /\ DOMAIN s = 1 .. Len(s)
  OBVIOUS
<1>2. QED
  BY <1>1, RemainderType

LEMMA NewRound ==
  ASSUME NEW s \in Seq(Worker), NEW r \in Nat
  PROVE  RoundOf(s, r, {})
<1>1. CASE s = <<>>
  BY <1>1 DEF RoundOf
<1>2. CASE s # <<>>
  <2>1. /\ Len(s) \in Nat /\ Len(s) > 0
        /\ r % Len(s) \in 0 .. Len(s) - 1
    BY <1>2, Index
  <2>2. 0 \in 0 .. Len(s) - 1
    BY <2>1
  <2>3. Recent(Len(s), r % Len(s), 0) = {}
    BY <2>1, <2>2, RecentNext
  <2>4. QED
    BY <1>2, <2>2, <2>3 DEF RoundOf
<1>3. QED
  BY <1>1, <1>2

LEMMA NextTurn ==
  ASSUME NEW s \in Seq(Worker), s # <<>>, NEW r \in Nat, NEW S, RoundOf(s, r, S)
  PROVE  RoundOf(s, (r + 1) % Len(s),
                 IF S \cup {Turn(s, r)} = ToSet(s) THEN {} ELSE S \cup {Turn(s, r)})
<1> DEFINE n  == Len(s)
           m  == r % n
           m2 == IF m + 1 = n THEN 0 ELSE m + 1
           T  == S \cup {Turn(s, r)}
<1>1. n \in Nat /\ n > 0 /\ DOMAIN s = 1 .. n /\ m \in 0 .. n - 1
  BY Index
<1>2. (r + 1) % n = m2
  BY <1>1, RemainderNext
<1>3. PICK k \in 0 .. n - 1 : S = {s[1 + p] : p \in Recent(n, m, k)}
  BY DEF RoundOf
<1>4. Turn(s, r) = s[1 + m]
  BY DEF Turn
<1> HIDE DEF m, n
<1>5. m2 \in 0 .. n - 1 /\ m2 \in Nat
  BY <1>1
<1>6. Recent(n, m2, k + 1) = Recent(n, m, k) \cup {m}
  BY <1>1 DEF Recent
<1>7. k + 1 = n => Recent(n, m, k) \cup {m} = 0 .. n - 1
  BY <1>1, RecentNext
<1> HIDE DEF m2
<1>8. T = {s[1 + p] : p \in Recent(n, m2, k + 1)}
  BY <1>3, <1>4, <1>6
<1> HIDE DEF T
<1>9. CASE T = ToSet(s)
  <2>1. RoundOf(s, m2, {})
    BY <1>5, NewRound
  <2>2. QED
    BY <1>2, <1>9, <2>1 DEF n, T
<1>10. CASE T # ToSet(s)
  <2>1. ASSUME k + 1 = n
        PROVE  T = ToSet(s)
    <3>1. T = {s[1 + p] : p \in 0 .. n - 1}
      BY <1>6, <1>7, <1>8, <2>1
    <3>2. ToSet(s) = {s[i] : i \in 1 .. n}
      BY <1>1 DEF ToSet
    <3>3. ASSUME NEW i \in 1 .. n
          PROVE  s[i] \in {s[1 + p] : p \in 0 .. n - 1}
      <4>1. i - 1 \in 0 .. n - 1 /\ 1 + (i - 1) = i
        BY <1>1
      <4>2. QED
        BY <4>1
    <3>4. \A p \in 0 .. n - 1 : 1 + p \in 1 .. n
      BY <1>1
    <3>5. QED
      BY <3>1, <3>2, <3>3, <3>4
  <2>2. k + 1 \in 0 .. n - 1
    BY <1>1, <1>10, <2>1
  <2>3. m2 % n = m2
    BY <1>1, <1>5, RemainderSmall
  <2>4. RoundOf(s, m2, T)
    BY <1>8, <2>2, <2>3 DEF RoundOf, n
  <2>5. QED
    BY <1>2, <1>10, <2>4 DEF n, T
<1>11. QED
  BY <1>9, <1>10

\* Who has the turn has not been served in this round.
LEMMA NotYetServed ==
  ASSUME NEW s \in Seq(Worker), s # <<>>, IsInjective(s), NEW r \in Nat, NEW S,
         RoundOf(s, r, S)
  PROVE  Turn(s, r) \notin S
<1> DEFINE n == Len(s)
           m == r % n
<1>1. n \in Nat /\ n > 0 /\ DOMAIN s = 1 .. n /\ m \in 0 .. n - 1
  BY Index
<1>2. PICK k \in 0 .. n - 1 : S = {s[1 + p] : p \in Recent(n, m, k)}
  BY DEF RoundOf
<1>3. Turn(s, r) = s[1 + m]
  BY DEF Turn
<1> HIDE DEF m
<1>4. m \notin Recent(n, m, k) /\ Recent(n, m, k) \subseteq 0 .. n - 1
  BY <1>1, RecentNext DEF Recent
<1>5. ASSUME NEW p \in Recent(n, m, k)
      PROVE  s[1 + p] # s[1 + m]
  <2>1. p \in 0 .. n - 1 /\ p # m
    BY <1>4
  <2>2. 1 + p \in DOMAIN s /\ 1 + m \in DOMAIN s /\ 1 + p # 1 + m
    BY <1>1, <2>1
  <2>3. QED
    BY <2>2 DEF IsInjective
<1>6. QED
  BY <1>2, <1>3, <1>5

LEMMA RoundsStep == TypeOK /\ Tenure /\ Rounds /\ [Next]_vars => Rounds'
<1> SUFFICES ASSUME TypeOK, Tenure, Rounds, [Next]_vars, NEW i \in Pool
             PROVE  RoundOf(members'[i], rr'[i], served'[i])
  BY DEF Rounds
<1>1. /\ members[i] \in Seq(Worker) /\ rr[i] \in Nat
      /\ RoundOf(members[i], rr[i], served[i])
  BY DEF TypeOK, Rounds
<1>2. members'[i] \in Seq(Worker)
  BY TypesStep DEF TypeOK
<1>3. CASE UNCHANGED <<members, rr, served>>
  BY <1>1, <1>3
<1>4. ASSUME NEW j \in Pool, NEW s, SetMembers(j, s), UNCHANGED rr
      PROVE  RoundOf(members'[i], rr'[i], served'[i])
  <2>1. CASE i = j
    <3>1. served'[i] = {} /\ rr'[i] = rr[i]
      BY <1>4, <2>1 DEF TypeOK, SetMembers
    <3>2. QED
      BY <1>1, <1>2, <3>1, NewRound
  <2>2. CASE i # j
    <3>1. /\ members'[i] = members[i]
          /\ served'[i] = served[i] /\ rr'[i] = rr[i]
      BY <1>4, <2>2 DEF TypeOK, SetMembers
    <3>2. QED
      BY <1>1, <3>1
  <2>3. QED
    BY <2>1, <2>2
<1>5. ASSUME NEW t \in Caller, Join(t) \/ Shrink(t) \/ Clear(t)
      PROVE  RoundOf(members'[i], rr'[i], served'[i])
  <2>1. at[t] \in Pool
    BY <1>5, AtPool DEF Join, Shrink, Clear
  <2>2. CASE Join(t)
    BY <1>4, <2>1, <2>2 DEF Join
  <2>3. CASE Shrink(t)
    <3>1. CASE members[at[t]] # <<>>
      BY <1>4, <2>1, <2>3, <3>1 DEF Shrink
    <3>2. CASE members[at[t]] = <<>>
      BY <1>3, <2>3, <3>2 DEF Shrink
    <3>3. QED
      BY <3>1, <3>2
  <2>4. CASE Clear(t)
    BY <1>4, <2>1, <2>4 DEF Clear
  <2>5. QED
    BY <1>5, <2>2, <2>3, <2>4
<1>6. ASSUME NEW t \in Caller, Choose(t)
      PROVE  RoundOf(members'[i], rr'[i], served'[i])
  <2> DEFINE s == members[i]
             T == served[i] \cup {Turn(s, rr[i])}
  <2>1. CASE i # at[t] \/ s = <<>>
    <3>1. /\ members'[i] = members[i]
          /\ served'[i] = served[i] /\ rr'[i] = rr[i]
      BY <1>6, <2>1 DEF TypeOK, Choose
    <3>2. QED
      BY <1>1, <3>1
  <2>2. CASE i = at[t] /\ s # <<>>
    <3>1. /\ members'[i] = s
          /\ rr'[i] = (rr[i] + 1) % Len(s)
          /\ served'[i] = IF T = ToSet(s) THEN {} ELSE T
      BY <1>6, <2>2 DEF TypeOK, Choose, Elements
    <3>2. RoundOf(s, (rr[i] + 1) % Len(s), IF T = ToSet(s) THEN {} ELSE T)
      BY <1>1, <2>2, NextTurn
    <3>3. QED
      BY <3>1, <3>2
  <2>3. QED
    BY <2>1, <2>2
<1>7. ASSUME NEW t \in Caller,
             \/ Create(t) \/ Seed(t) \/ Created(t) \/ Pick(t) \/ Sample(t)
             \/ Grow(t) \/ Retire(t) \/ Destroy(t) \/ Sweep(t) \/ Destroyed(t)
      PROVE  UNCHANGED <<members, rr, served>>
  BY <1>7 DEF Create, Seed, Created, Pick, Sample, Grow, Retire, Destroy, Sweep,
              Destroyed
<1>8. CASE UNCHANGED vars
  BY <1>3, <1>8 DEF vars
<1>9. QED
  BY <1>3, <1>5, <1>6, <1>7, <1>8 DEF Next

-----------------------------------------------------------------------------
(***************************************************************************)
(* The invariant and what follows from it.                                 *)
(***************************************************************************)

IInv == TypeOK /\ Tenure /\ Spread /\ Room /\ FloorBound /\ Rounds

LEMMA InitIInv == Init => IInv
<1> SUFFICES ASSUME Init
             PROVE  IInv
  OBVIOUS
<1> USE PoolAssumption DEF Init
<1>1. TypeOK
  BY DEF TypeOK, CallerPc, Pool, None
<1>2. Tenure
  BY DEF Tenure, Seeding
<1>3. Spread
  BY EmptyList DEF Spread, Elements
<1>4. Room
  <2>1. ASSUME NEW i \in Pool
        PROVE  Load(i) = 0
    <3>1. Growers(i) = {} /\ members[i] = <<>>
      BY DEF Growers
    <3>2. QED
      BY <3>1, FS_EmptySet DEF Load
  <2>2. QED
    BY <2>1, LimitType DEF Room, Seeding
<1>5. FloorBound
  BY DEF FloorBound, Shrinkers
<1>6. Rounds
  BY DEF Rounds, RoundOf
<1>7. QED
  BY <1>1, <1>2, <1>3, <1>4, <1>5, <1>6 DEF IInv

LEMMA NextIInv == IInv /\ [Next]_vars => IInv'
<1> SUFFICES ASSUME IInv, [Next]_vars
             PROVE  IInv'
  OBVIOUS
<1>1. TypeOK' /\ Tenure'
  BY TypesStep, TenureStep DEF IInv
<1>2. Spread' /\ Room' /\ FloorBound' /\ Rounds'
  BY <1>1, SpreadStep, RoomStep, FloorStep, RoundsStep DEF IInv
<1>3. QED
  BY <1>1, <1>2 DEF IInv

THEOREM Invariance == Spec => []IInv
  BY InitIInv, NextIInv, PTL DEF Spec

\* The types of the pools and their callers.
THEOREM Typing == Spec => []TypeOK
<1>1. IInv => TypeOK
  BY DEF IInv
<1>2. QED
  BY <1>1, Invariance, PTL

\* No worker is lost, shared or retired twice (pool_create, pool_pick,
\* pool_destroy), for any number of callers and pools.
THEOREM WorkersFiled == Spec => []OnePlace
<1>1. IInv => OnePlace
  BY SpreadIsOnePlace DEF IInv
<1>2. QED
  BY <1>1, Invariance, PTL

\* By how much a pool can outgrow max (the scale-up of pool_pick).
THEOREM Ceiling == Spec => []SizeBound
<1>1. IInv => SizeBound
  <2> SUFFICES ASSUME IInv, NEW i \in Pool
               PROVE  Len(members[i]) <= Limit
    BY DEF SizeBound
  <2>1. Load(i) <= Limit
    BY DEF IInv, Room
  <2>2. members[i] \in Seq(Worker) /\ Growers(i) \in SUBSET Caller
    BY DEF IInv, TypeOK, Growers
  <2>3. Len(members[i]) \in Nat /\ Cardinality(Growers(i)) \in Nat
    BY <2>2, PoolAssumption, FS_Subset, FS_CardinalityType
  <2>4. QED
    BY <2>1, <2>3, LimitType DEF Load
<1>2. QED
  BY <1>1, Invariance, PTL

\* By how much it can fall below min (the scale-down of pool_pick).
THEOREM Floor == Spec => []FloorBound
<1>1. IInv => FloorBound
  BY DEF IInv
<1>2. QED
  BY <1>1, Invariance, PTL

\* No member is picked again before all have had their turn (the round-robin
\* pick), however many callers share the index.
THEOREM FairTurns == Spec => RoundRobin
<1>1. ASSUME IInv, NEW t \in Caller, pc[t] = "choose", members[at[t]] # <<>>
      PROVE  Turn(members[at[t]], rr[at[t]]) \notin served[at[t]]
  <2>1. at[t] \in Pool
    BY <1>1, AtPool DEF IInv
  <2>2. members[at[t]] \in Seq(Worker) /\ rr[at[t]] \in Nat
    BY <1>1, <2>1 DEF IInv, TypeOK
  <2>3. IsInjective(members[at[t]])
    BY <1>1, <2>1 DEF IInv, Spread
  <2>4. RoundOf(members[at[t]], rr[at[t]], served[at[t]])
    BY <1>1, <2>1 DEF IInv, Rounds
  <2>5. QED
    BY <1>1, <2>2, <2>3, <2>4, NotYetServed
<1>2. IInv /\ [Next]_vars =>
        [\A t \in Caller :
           pc[t] = "choose" /\ pc'[t] = "idle" /\ members[at[t]] # <<>> =>
             Turn(members[at[t]], rr[at[t]]) \notin served[at[t]]]_vars
  BY <1>1
<1>3. QED
  BY <1>2, Invariance, PTL DEF Spec, RoundRobin

=============================================================================
