--------------------------- MODULE NodeParts_proofs ---------------------------
(***************************************************************************)
(* Proofs about three parts of a node that MCNodeParts checks on           *)
(* instances, and about their composition with the other two.              *)
(*                                                                         *)
(* Crdt: what a replica holds is what the updates that have reached it say *)
(* (ValuesExact), for any replicas and any way the values travel.  The     *)
(* invariant says of every value, held or on its way, how each of its      *)
(* parts follows from the updates it knows.  Maximum is the right merge of *)
(* counts because a value that knows an increment of a replica knows all   *)
(* its earlier ones, so of two values one knows the increments of the      *)
(* other; and the register is right because a write beats every write its  *)
(* replica knew, unless a clock went back or stood still.  The operators   *)
(* take the list of updates (upd) as a parameter, so that the lemmas       *)
(* speak of values and lists and not of steps.                             *)
(*                                                                         *)
(* Sessions: every trace that is owed a report is shown it once, in order  *)
(* (ReportsSeenInOrder), and what its cursor and blame say is true of what *)
(* it has been shown (CursorTruthful), for any traces, reports and labels. *)
(*                                                                         *)
(* Explorer: what the search has found is what can be reached, and the     *)
(* deadlock it reports is a shallowest one (VerdictRight), by induction    *)
(* over the depth, for any worlds and steps.                               *)
(*                                                                         *)
(* A run of the composition is a run of each part (PartsRunEach), so each  *)
(* of these theorems, and those of NodeState_proofs, holds of it.          *)
(***************************************************************************)
EXTENDS MCNodeParts, NodeState_proofs

Incs(upd, k)    == {t \in DOMAIN upd : upd[t].kind = "inc" /\ upd[t].by = k}
Adds(upd, e)    == {t \in DOMAIN upd : upd[t].kind = "add" /\ upd[t].elem = e}
Removes(upd, e) == {t \in DOMAIN upd : upd[t].kind = "remove" /\ upd[t].elem = e}
Writes(upd)     == {t \in DOMAIN upd : upd[t].kind = "write"}

Beats(upd, x, y) == \/ upd[x].ts > upd[y].ts
                    \/ upd[x].ts = upd[y].ts /\ upd[x].by > upd[y].by

\* Each part of a value v is what the updates it knows make of it.
CountsSound(v, upd) ==
  \A k \in Replicas :
    /\ v.counts[k] = Cardinality(v.known \cap Incs(upd, k))
    /\ \A t \in v.known \cap Incs(upd, k), u \in Incs(upd, k) :
         u < t => u \in v.known

AddsSound(v, upd) ==
  \A e \in Elems, t \in Tag :
    <<e, t>> \in v.adds <=> t \in v.known \cap Adds(upd, e)

RemovesSound(v, upd) ==
  \A e \in Elems, t \in Tag :
    <<e, t>> \in v.removes <=>
      \E u \in v.known \cap Removes(upd, e) : t \in upd[u].seen

KnownWrites(v, upd) == v.known \cap Writes(upd)

RegSound(v, upd) ==
  /\ KnownWrites(v, upd) = {} => v.reg.value = 0 /\ v.reg.ts = 0
  /\ KnownWrites(v, upd) # {} =>
       /\ v.reg.value \in KnownWrites(v, upd)
       /\ v.reg.ts = upd[v.reg.value].ts
       /\ v.reg.replica = upd[v.reg.value].by
       /\ \A t \in KnownWrites(v, upd) \ {v.reg.value} : Beats(upd, v.reg.value, t)

Sound(v, upd, loud) ==
  /\ v \in Value
  /\ v.known \subseteq DOMAIN upd
  /\ CountsSound(v, upd) /\ AddsSound(v, upd) /\ RemovesSound(v, upd)
  /\ ~loud => RegSound(v, upd)

\* Of the updates themselves: a remove has seen adds of its element, and the
\* writes of one replica have increasing times.
WritesOrdered(upd) ==
  \A x, y \in Writes(upd) : x < y /\ upd[x].by = upd[y].by => upd[x].ts < upd[y].ts

LogSound(upd, loud) ==
  /\ upd \in Seq(Update) /\ Len(upd) <= MaxUpdates
  /\ \A t \in Writes(upd) : upd[t].ts >= 1
  /\ \A e \in Elems : \A u \in Removes(upd, e) : upd[u].seen \subseteq Adds(upd, e)
  /\ ~loud => WritesOrdered(upd)

\* A replica knows what it has done itself.
OwnKnown(v, r, upd) ==
  Incs(upd, r) \cup {t \in Writes(upd) : upd[t].by = r} \subseteq v.known

CrdtInv ==
  /\ restless \in BOOLEAN
  /\ LogSound(updates, restless)
  /\ held \in [Replicas -> Value] /\ flight \in [Replicas -> Value]
  /\ \A r \in Replicas :
       /\ Sound(held[r], updates, restless) /\ Sound(flight[r], updates, restless)
       /\ OwnKnown(held[r], r, updates)

-----------------------------------------------------------------------------
LEMMA StampNat == /\ \A k \in Replicas : k \in Nat
                  /\ \A ts \in 0 .. MaxStamp : ts \in Nat
<1>1. \A k \in Replicas : k \in Nat
  BY CrdtAssumption
<1>2. MaxStamp \in Nat
  BY CrdtAssumption
<1>3. QED
  BY <1>1, <1>2

\* The types of what an update of each kind carries.
LEMMA UpdateParts ==
  ASSUME NEW upd \in Seq(Update)
  PROVE  /\ DOMAIN upd = 1 .. Len(upd) /\ Len(upd) \in Nat
         /\ IsFiniteSet(DOMAIN upd)
         /\ \A t \in DOMAIN upd :
              /\ t \in Nat
              /\ upd[t].kind = "inc" => upd[t].by \in Replicas
              /\ upd[t].kind = "add" => upd[t].elem \in Elems
              /\ upd[t].kind = "remove" =>
                   upd[t].elem \in Elems /\ upd[t].seen \subseteq Tag
              /\ upd[t].kind = "write" =>
                   upd[t].by \in Nat /\ upd[t].by \in Replicas
                   /\ upd[t].ts \in Nat
<1>1. DOMAIN upd = 1 .. Len(upd) /\ Len(upd) \in Nat
  OBVIOUS
<1>2. IsFiniteSet(1 .. Len(upd))
  BY <1>1, FS_Interval
<1>3. ASSUME NEW u \in Update
      PROVE  /\ u.kind = "inc" => u.by \in Replicas
             /\ u.kind = "add" => u.elem \in Elems
             /\ u.kind = "remove" => u.elem \in Elems /\ u.seen \subseteq Tag
             /\ u.kind = "write" =>
                  u.by \in Nat /\ u.by \in Replicas /\ u.ts \in Nat
  <2>1. CASE u \in [kind : {"inc"}, by : Replicas]
    BY <2>1
  <2>2. CASE u \in [kind : {"add"}, elem : Elems]
    BY <2>2
  <2>3. CASE u \in [kind : {"remove"}, elem : Elems, seen : SUBSET Tag]
    BY <2>3
  <2>4. CASE u \in [kind : {"write"}, by : Replicas, ts : 0 .. MaxStamp]
    <3>1. u.kind = "write" /\ u.by \in Replicas /\ u.ts \in 0 .. MaxStamp
      BY <2>4
    <3>2. u.by \in Nat /\ u.ts \in Nat
      BY <3>1, StampNat
    <3>3. QED
      BY <3>1, <3>2
  <2>5. QED
    BY <2>1, <2>2, <2>3, <2>4 DEF Update
<1>4. \A t \in DOMAIN upd : upd[t] \in Update /\ t \in Nat
  BY <1>1
<1>5. QED
  BY <1>1, <1>2, <1>3, <1>4

\* The parts of a value.
LEMMA ValueParts ==
  ASSUME NEW v \in Value
  PROVE  /\ v.counts \in [Replicas -> Nat]
         /\ v.adds \subseteq Tagged /\ v.removes \subseteq Tagged
         /\ v.reg.value \in {0} \cup Tag
         /\ v.reg.ts \in Nat /\ v.reg.replica \in Nat
         /\ v.known \subseteq Tag
<1>1. /\ v.counts \in [Replicas -> Nat]
      /\ v.adds \in SUBSET Tagged /\ v.removes \in SUBSET Tagged
      /\ v.reg \in [value : {0} \cup Tag, ts : 0 .. MaxStamp, replica : Replicas]
      /\ v.known \in SUBSET Tag
  BY DEF Value
<1>2. /\ v.reg.value \in {0} \cup Tag /\ v.reg.ts \in 0 .. MaxStamp
      /\ v.reg.replica \in Replicas
  BY <1>1
<1>3. QED
  BY <1>1, <1>2, StampNat

-----------------------------------------------------------------------------
(* Merging.                                                                *)

LEMMA MergeParts ==
  ASSUME NEW a \in Value, NEW b \in Value
  PROVE  /\ MergeValues(a, b) \in Value
         /\ MergeValues(a, b).counts
              = [k \in Replicas |-> GreaterOf(a.counts[k], b.counts[k])]
         /\ MergeValues(a, b).adds = a.adds \cup b.adds
         /\ MergeValues(a, b).removes = a.removes \cup b.removes
         /\ MergeValues(a, b).reg = IF Later(a.reg, b.reg) THEN a.reg ELSE b.reg
         /\ MergeValues(a, b).known = a.known \cup b.known
<1>1. \A k \in Replicas : GreaterOf(a.counts[k], b.counts[k]) \in Nat
  BY DEF Value, GreaterOf
<1>2. QED
  BY <1>1 DEF MergeValues, Value

LEMMA MergeCounts ==
  ASSUME NEW upd \in Seq(Update), NEW a \in Value, NEW b \in Value, NEW w \in Value,
         CountsSound(a, upd), CountsSound(b, upd),
         w.known = a.known \cup b.known,
         w.counts = [k \in Replicas |-> GreaterOf(a.counts[k], b.counts[k])]
  PROVE  CountsSound(w, upd)
<1> SUFFICES ASSUME NEW k \in Replicas
             PROVE  /\ w.counts[k] = Cardinality(w.known \cap Incs(upd, k))
                    /\ \A t \in w.known \cap Incs(upd, k), u \in Incs(upd, k) :
                         u < t => u \in w.known
  BY DEF CountsSound
<1> DEFINE S == Incs(upd, k)
           A == a.known \cap S
           B == b.known \cap S
<1>1. /\ a.counts[k] = Cardinality(A) /\ b.counts[k] = Cardinality(B)
      /\ \A t \in A, u \in S : u < t => u \in A
      /\ \A t \in B, u \in S : u < t => u \in B
  BY DEF CountsSound
<1>2. S \subseteq DOMAIN upd /\ S \subseteq Nat
      /\ IsFiniteSet(DOMAIN upd)
  BY UpdateParts DEF Incs
<1>3. /\ IsFiniteSet(A) /\ IsFiniteSet(B)
  BY <1>2, FS_Subset
<1>4. w.known \cap S = A \cup B /\ w.counts[k] = GreaterOf(a.counts[k], b.counts[k])
  OBVIOUS
<1>a. A \subseteq S /\ B \subseteq S
  OBVIOUS
<1> HIDE DEF A, B, S
<1>5. A \subseteq B \/ B \subseteq A
  <2> SUFFICES ASSUME NEW x \in A, x \notin B, NEW y \in B
               PROVE  y \in A
    OBVIOUS
  <2>1. x \in Nat /\ y \in Nat /\ x \in S /\ y \in S
    BY <1>2, <1>a
  <2>2. ~(x < y) /\ x # y
    BY <1>1, <2>1
  <2>3. y < x
    BY <2>1, <2>2
  <2>4. QED
    BY <1>1, <2>1, <2>3
<1>6. Cardinality(A) \in Nat /\ Cardinality(B) \in Nat
  BY <1>3, FS_CardinalityType
<1>7. Cardinality(A \cup B) = GreaterOf(Cardinality(A), Cardinality(B))
  <2>1. CASE A \subseteq B
    <3>1. A \cup B = B
      BY <2>1
    <3>2. Cardinality(A) <= Cardinality(B)
      BY <1>3, <2>1, FS_Subset
    <3>3. GreaterOf(Cardinality(A), Cardinality(B)) = Cardinality(B)
      BY <1>6, <3>2 DEF GreaterOf
    <3>4. QED
      BY <3>1, <3>3
  <2>2. CASE B \subseteq A
    <3>1. A \cup B = A
      BY <2>2
    <3>2. Cardinality(B) <= Cardinality(A)
      BY <1>3, <2>2, FS_Subset
    <3>3. GreaterOf(Cardinality(A), Cardinality(B)) = Cardinality(A)
      BY <1>6, <3>2 DEF GreaterOf
    <3>4. QED
      BY <3>1, <3>3
  <2>3. QED
    BY <1>5, <2>1, <2>2
<1>8. \A t \in A \cup B, u \in S : u < t => u \in A \cup B
  BY <1>1
<1>9. QED
  BY <1>1, <1>4, <1>7, <1>8 DEF S

LEMMA MergeSets ==
  ASSUME NEW upd, NEW a, NEW b, NEW w,
         AddsSound(a, upd), AddsSound(b, upd),
         RemovesSound(a, upd), RemovesSound(b, upd),
         w.known = a.known \cup b.known, w.adds = a.adds \cup b.adds,
         w.removes = a.removes \cup b.removes
  PROVE  AddsSound(w, upd) /\ RemovesSound(w, upd)
<1>1. AddsSound(w, upd)
  BY DEF AddsSound
<1>2. RemovesSound(w, upd)
  <2>1. ASSUME NEW e \in Elems, NEW t \in Tag
        PROVE  <<e, t>> \in w.removes <=>
                 \E u \in w.known \cap Removes(upd, e) : t \in upd[u].seen
    BY DEF RemovesSound
  <2>2. QED
    BY <2>1 DEF RemovesSound
<1>3. QED
  BY <1>1, <1>2

\* Who beats whom is an order, and two writes of it are apart.
LEMMA BeatsTransitive ==
  ASSUME NEW upd \in Seq(Update), NEW x \in Writes(upd), NEW y \in Writes(upd),
         NEW z \in Writes(upd), Beats(upd, x, y), Beats(upd, y, z)
  PROVE  Beats(upd, x, z)
<1>1. \A t \in Writes(upd) : upd[t].ts \in Nat /\ upd[t].by \in Nat
  BY UpdateParts DEF Writes
<1>2. QED
  BY <1>1 DEF Beats

LEMMA SameWrite ==
  ASSUME NEW upd \in Seq(Update), WritesOrdered(upd),
         NEW x \in Writes(upd), NEW y \in Writes(upd),
         upd[x].ts = upd[y].ts, upd[x].by = upd[y].by
  PROVE  x = y
<1>1. x \in Nat /\ y \in Nat /\ upd[x].ts \in Nat
  BY UpdateParts DEF Writes
<1>2. ~(x < y) /\ ~(y < x)
  BY <1>1 DEF WritesOrdered
<1>3. QED
  BY <1>1, <1>2

LEMMA MergeReg ==
  ASSUME NEW upd \in Seq(Update), NEW a \in Value, NEW b \in Value, NEW w \in Value,
         RegSound(a, upd), RegSound(b, upd), WritesOrdered(upd),
         \A t \in Writes(upd) : upd[t].ts >= 1,
         w.known = a.known \cup b.known,
         w.reg = IF Later(a.reg, b.reg) THEN a.reg ELSE b.reg
  PROVE  RegSound(w, upd)
<1> DEFINE A == KnownWrites(a, upd)
           B == KnownWrites(b, upd)
           x == a.reg.value
           y == b.reg.value
<1>1. KnownWrites(w, upd) = A \cup B
  BY DEF KnownWrites
<1>2. A \subseteq Writes(upd) /\ B \subseteq Writes(upd)
  BY DEF KnownWrites
<1>3. \A t \in Writes(upd) : upd[t].ts \in Nat /\ upd[t].by \in Nat /\ upd[t].ts >= 1
  BY UpdateParts DEF Writes
<1>4. /\ A = {} => x = 0 /\ a.reg.ts = 0
      /\ A # {} => /\ x \in A /\ a.reg.ts = upd[x].ts /\ a.reg.replica = upd[x].by
                   /\ \A t \in A \ {x} : Beats(upd, x, t)
      /\ B = {} => y = 0 /\ b.reg.ts = 0
      /\ B # {} => /\ y \in B /\ b.reg.ts = upd[y].ts /\ b.reg.replica = upd[y].by
                   /\ \A t \in B \ {y} : Beats(upd, y, t)
  BY DEF RegSound
<1> HIDE DEF A, B
<1>5. CASE A = {} /\ B = {}
  BY <1>1, <1>4, <1>5 DEF RegSound
<1>6. CASE A = {} /\ B # {}
  <2>1. ~ Later(a.reg, b.reg)
    BY <1>2, <1>3, <1>4, <1>6 DEF Later
  <2>2. QED
    BY <1>1, <1>4, <1>6, <2>1 DEF RegSound
<1>7. CASE A # {} /\ B = {}
  <2>1. Later(a.reg, b.reg)
    BY <1>2, <1>3, <1>4, <1>7 DEF Later
  <2>2. QED
    BY <1>1, <1>4, <1>7, <2>1 DEF RegSound
<1>8. CASE A # {} /\ B # {}
  <2>0. x \in Writes(upd) /\ y \in Writes(upd)
    BY <1>2, <1>4, <1>8
  <2>1. CASE Later(a.reg, b.reg)
    <3>1. x = y \/ Beats(upd, x, y)
      <4>1. CASE a.reg.ts = b.reg.ts /\ a.reg.replica = b.reg.replica
        BY <1>4, <1>8, <2>0, <4>1, SameWrite
      <4>2. CASE ~(a.reg.ts = b.reg.ts /\ a.reg.replica = b.reg.replica)
        BY <1>3, <1>4, <1>8, <2>0, <2>1, <4>2 DEF Later, Beats
      <4>3. QED
        BY <4>1, <4>2
    <3>2. \A t \in (A \cup B) \ {x} : Beats(upd, x, t)
      BY <1>2, <1>4, <1>8, <2>0, <3>1, BeatsTransitive
    <3>3. w.reg = a.reg
      BY <2>1
    <3>4. QED
      BY <1>1, <1>4, <1>8, <3>2, <3>3 DEF RegSound
  <2>2. CASE ~ Later(a.reg, b.reg)
    <3>1. Beats(upd, y, x)
      BY <1>3, <1>4, <1>8, <2>0, <2>2 DEF Later, Beats
    <3>2. \A t \in (A \cup B) \ {y} : Beats(upd, y, t)
      BY <1>2, <1>4, <1>8, <2>0, <3>1, BeatsTransitive
    <3>3. w.reg = b.reg
      BY <2>2
    <3>4. QED
      BY <1>1, <1>4, <1>8, <3>2, <3>3 DEF RegSound
  <2>3. QED
    BY <2>1, <2>2
<1>9. QED
  BY <1>5, <1>6, <1>7, <1>8

\* Merging two sound values gives a sound value.
LEMMA MergeSound ==
  ASSUME NEW upd, NEW loud \in BOOLEAN, NEW a, NEW b,
         LogSound(upd, loud), Sound(a, upd, loud), Sound(b, upd, loud)
  PROVE  Sound(MergeValues(a, b), upd, loud)
<1> DEFINE w == MergeValues(a, b)
<1>1. /\ upd \in Seq(Update) /\ a \in Value /\ b \in Value
      /\ CountsSound(a, upd) /\ AddsSound(a, upd) /\ RemovesSound(a, upd)
      /\ CountsSound(b, upd) /\ AddsSound(b, upd) /\ RemovesSound(b, upd)
      /\ a.known \subseteq DOMAIN upd /\ b.known \subseteq DOMAIN upd
      /\ \A t \in Writes(upd) : upd[t].ts >= 1
      /\ ~loud => RegSound(a, upd) /\ RegSound(b, upd) /\ WritesOrdered(upd)
  BY DEF Sound, LogSound
<1>2. /\ w \in Value
      /\ w.counts = [k \in Replicas |-> GreaterOf(a.counts[k], b.counts[k])]
      /\ w.adds = a.adds \cup b.adds /\ w.removes = a.removes \cup b.removes
      /\ w.reg = IF Later(a.reg, b.reg) THEN a.reg ELSE b.reg
      /\ w.known = a.known \cup b.known
  BY <1>1, MergeParts
<1> HIDE DEF w
<1>3. CountsSound(w, upd)
  BY <1>1, <1>2, MergeCounts
<1>4. AddsSound(w, upd) /\ RemovesSound(w, upd)
  BY <1>1, <1>2, MergeSets
<1>5. ~loud => RegSound(w, upd)
  BY <1>1, <1>2, MergeReg
<1>6. Sound(w, upd, loud)
  BY <1>1, <1>2, <1>3, <1>4, <1>5 DEF Sound
<1>7. QED
  BY <1>6 DEF w

-----------------------------------------------------------------------------
(* One more update.                                                        *)

\* upd2 is upd with one update more, u, whose tag is n;
Follows(upd, u, n, upd2) ==
  /\ upd \in Seq(Update) /\ u \in Update
  /\ upd2 = Append(upd, u) /\ n = Len(upd) + 1

\* and w is what becomes of v when it comes to know that update.
Learns(v, w, n, upd) ==
  /\ v \in Value /\ w \in Value
  /\ v.known \subseteq DOMAIN upd /\ w.known = v.known \cup {n}

LEMMA Grown ==
  ASSUME NEW upd, NEW u, NEW n, NEW upd2, Follows(upd, u, n, upd2)
  PROVE  /\ upd2 \in Seq(Update) /\ Len(upd2) = n
         /\ n \in Nat \ {0} /\ n \notin DOMAIN upd
         /\ DOMAIN upd2 = DOMAIN upd \cup {n}
         /\ upd2[n] = u
         /\ \A t \in DOMAIN upd : upd2[t] = upd[t] /\ t \in Nat /\ t < n
BY DEF Update, Follows

\* Updates a value does not know do not matter to it: it stays sound.
LEMMA StaysSound ==
  ASSUME NEW upd, NEW u, NEW n, NEW upd2, Follows(upd, u, n, upd2),
         NEW loud, NEW loud2, loud => loud2,
         NEW v, Sound(v, upd, loud)
  PROVE  Sound(v, upd2, loud2)
<1>1. /\ n \notin DOMAIN upd /\ DOMAIN upd2 = DOMAIN upd \cup {n}
      /\ \A t \in DOMAIN upd : upd2[t] = upd[t] /\ t \in Nat /\ t < n
      /\ n \in Nat
  BY Grown
<1>2. v \in Value /\ v.known \subseteq DOMAIN upd
  BY DEF Sound
<1>3. /\ \A k : v.known \cap Incs(upd2, k) = v.known \cap Incs(upd, k)
      /\ \A e : v.known \cap Adds(upd2, e) = v.known \cap Adds(upd, e)
      /\ \A e : v.known \cap Removes(upd2, e) = v.known \cap Removes(upd, e)
      /\ v.known \cap Writes(upd2) = v.known \cap Writes(upd)
  BY <1>1, <1>2 DEF Incs, Adds, Removes, Writes
<1>4. CountsSound(v, upd2)
  <2>1. ASSUME NEW k \in Replicas
        PROVE  /\ v.counts[k] = Cardinality(v.known \cap Incs(upd2, k))
               /\ \A t \in v.known \cap Incs(upd2, k), x \in Incs(upd2, k) :
                    x < t => x \in v.known
    <3>1. /\ v.counts[k] = Cardinality(v.known \cap Incs(upd, k))
          /\ \A t \in v.known \cap Incs(upd, k), x \in Incs(upd, k) :
               x < t => x \in v.known
      BY DEF Sound, CountsSound
    <3>2. ASSUME NEW t \in v.known \cap Incs(upd2, k), NEW x \in Incs(upd2, k),
                 x < t
          PROVE  x \in v.known
      <4>1. t \in v.known \cap Incs(upd, k) /\ t \in Nat /\ t < n
        BY <1>1, <1>2, <1>3
      <4>2. x # n
        BY <1>1, <3>2, <4>1
      <4>3. x \in Incs(upd, k)
        BY <1>1, <4>2 DEF Incs
      <4>4. QED
        BY <3>1, <3>2, <4>1, <4>3
    <3>3. QED
      BY <1>3, <3>1, <3>2
  <2>2. QED
    BY <2>1 DEF CountsSound
<1>5. AddsSound(v, upd2)
  BY <1>3 DEF Sound, AddsSound
<1>6. RemovesSound(v, upd2)
  <2>1. \A x \in v.known : upd2[x] = upd[x]
    BY <1>1, <1>2
  <2>2. QED
    BY <1>3, <2>1 DEF Sound, RemovesSound
<1>7. ~loud2 => RegSound(v, upd2)
  <2>1. KnownWrites(v, upd2) = KnownWrites(v, upd)
    BY <1>3 DEF KnownWrites
  <2>2. \A t \in KnownWrites(v, upd) : upd2[t] = upd[t]
    BY <1>1, <1>2 DEF KnownWrites
  <2>3. ~loud2 => RegSound(v, upd)
    BY DEF Sound
  <2>4. QED
    BY <2>1, <2>2, <2>3 DEF RegSound, Beats
<1>8. QED
  BY <1>1, <1>2, <1>4, <1>5, <1>6, <1>7 DEF Sound

\* A value w that knows one update more than a sound one, v, in its parts.
\* Parts the update is not about:
LEMMA OtherParts ==
  ASSUME NEW upd, NEW u, NEW n, NEW upd2, Follows(upd, u, n, upd2),
         NEW v, NEW w, Learns(v, w, n, upd)
  PROVE  /\ CountsSound(v, upd2) /\ w.counts = v.counts /\ u.kind # "inc"
              => CountsSound(w, upd2)
         /\ AddsSound(v, upd2) /\ w.adds = v.adds /\ u.kind # "add"
              => AddsSound(w, upd2)
         /\ RemovesSound(v, upd2) /\ w.removes = v.removes /\ u.kind # "remove"
              => RemovesSound(w, upd2)
         /\ RegSound(v, upd2) /\ w.reg = v.reg /\ u.kind # "write"
              => RegSound(w, upd2)
<1> USE DEF Follows, Learns
<1>1. /\ n \notin DOMAIN upd /\ DOMAIN upd2 = DOMAIN upd \cup {n} /\ upd2[n] = u
  BY Grown
<1>2. ASSUME CountsSound(v, upd2), w.counts = v.counts, u.kind # "inc"
      PROVE  CountsSound(w, upd2)
  <2>1. \A k : n \notin Incs(upd2, k)
    BY <1>1, <1>2 DEF Incs
  <2>2. \A k : w.known \cap Incs(upd2, k) = v.known \cap Incs(upd2, k)
    BY <2>1
  <2>3. ASSUME NEW k \in Replicas
        PROVE  /\ w.counts[k] = Cardinality(w.known \cap Incs(upd2, k))
               /\ \A t \in w.known \cap Incs(upd2, k), x \in Incs(upd2, k) :
                    x < t => x \in w.known
    BY <1>2, <2>2 DEF CountsSound
  <2>4. QED
    BY <2>3 DEF CountsSound
<1>3. ASSUME AddsSound(v, upd2), w.adds = v.adds, u.kind # "add"
      PROVE  AddsSound(w, upd2)
  <2>1. \A e : n \notin Adds(upd2, e)
    BY <1>1, <1>3 DEF Adds
  <2>2. QED
    BY <1>3, <2>1 DEF AddsSound
<1>4. ASSUME RemovesSound(v, upd2), w.removes = v.removes, u.kind # "remove"
      PROVE  RemovesSound(w, upd2)
  <2>1. \A e : n \notin Removes(upd2, e)
    BY <1>1, <1>4 DEF Removes
  <2>2. \A e : w.known \cap Removes(upd2, e) = v.known \cap Removes(upd2, e)
    BY <2>1
  <2>3. QED
    BY <1>4, <2>2 DEF RemovesSound
<1>5. ASSUME RegSound(v, upd2), w.reg = v.reg, u.kind # "write"
      PROVE  RegSound(w, upd2)
  <2>1. n \notin Writes(upd2)
    BY <1>1, <1>5 DEF Writes
  <2>2. KnownWrites(w, upd2) = KnownWrites(v, upd2)
    BY <2>1 DEF KnownWrites
  <2>3. QED
    BY <1>5, <2>2 DEF RegSound
<1>6. QED
  BY <1>2, <1>3, <1>4, <1>5

\* The part it is about: an increment by a replica that knows all its own,
LEMMA OneIncrement ==
  ASSUME NEW upd, NEW u, NEW n, NEW upd2, Follows(upd, u, n, upd2),
         NEW v, NEW w, Learns(v, w, n, upd),
         NEW r \in Replicas, u.kind = "inc", u.by = r,
         CountsSound(v, upd), Incs(upd, r) \subseteq v.known,
         w.counts = [v.counts EXCEPT ![r] = @ + 1]
  PROVE  CountsSound(w, upd2)
<1> USE DEF Follows, Learns
<1>1. /\ n \in Nat /\ n \notin DOMAIN upd /\ DOMAIN upd2 = DOMAIN upd \cup {n}
      /\ upd2[n] = u /\ \A t \in DOMAIN upd : upd2[t] = upd[t]
  BY Grown
<1>2. /\ Incs(upd2, r) = Incs(upd, r) \cup {n}
      /\ \A k : k # r => Incs(upd2, k) = Incs(upd, k)
  BY <1>1 DEF Incs
<1>3. \A k : Incs(upd, k) \subseteq DOMAIN upd
  BY DEF Incs
<1>4. v.counts \in [Replicas -> Nat]
  BY ValueParts
<1>5. ASSUME NEW k \in Replicas
      PROVE  /\ w.counts[k] = Cardinality(w.known \cap Incs(upd2, k))
             /\ \A t \in w.known \cap Incs(upd2, k), x \in Incs(upd2, k) :
                  x < t => x \in w.known
  <2>1. /\ v.counts[k] = Cardinality(v.known \cap Incs(upd, k))
        /\ \A t \in v.known \cap Incs(upd, k), x \in Incs(upd, k) :
             x < t => x \in v.known
    BY DEF CountsSound
  <2>2. CASE k = r
    <3> DEFINE S == v.known \cap Incs(upd, k)
    <3>1. w.known \cap Incs(upd2, k) = S \cup {n} /\ n \notin S
      BY <1>1, <1>2, <1>3, <2>2
    <3>2. IsFiniteSet(S)
      BY <1>3, UpdateParts, FS_Subset
    <3>3. Cardinality(S \cup {n}) = Cardinality(S) + 1
      BY <3>1, <3>2, FS_AddElement
    <3>4. w.counts[k] = v.counts[k] + 1
      BY <1>4, <2>2
    <3>5. Incs(upd2, k) \subseteq w.known
      BY <1>2, <2>2
    <3>6. QED
      BY <2>1, <3>1, <3>3, <3>4, <3>5
  <2>3. CASE k # r
    <3>1. Incs(upd2, k) = Incs(upd, k) /\ n \notin Incs(upd, k)
      BY <1>1, <1>2, <1>3, <2>3
    <3>2. w.known \cap Incs(upd2, k) = v.known \cap Incs(upd, k)
      BY <3>1
    <3>3. w.counts[k] = v.counts[k]
      BY <1>4, <2>3
    <3>4. QED
      BY <2>1, <3>1, <3>2, <3>3
  <2>4. QED
    BY <2>2, <2>3
<1>6. QED
  BY <1>5 DEF CountsSound

\* an add,
LEMMA OneAdd ==
  ASSUME NEW upd, NEW u, NEW n, NEW upd2, Follows(upd, u, n, upd2),
         NEW v, NEW w, Learns(v, w, n, upd),
         NEW e \in Elems, u.kind = "add", u.elem = e,
         AddsSound(v, upd), w.adds = v.adds \cup {<<e, n>>}
  PROVE  AddsSound(w, upd2)
<1> USE DEF Follows, Learns
<1>1. /\ n \notin DOMAIN upd /\ DOMAIN upd2 = DOMAIN upd \cup {n}
      /\ upd2[n] = u /\ \A t \in DOMAIN upd : upd2[t] = upd[t]
  BY Grown
<1>2. /\ Adds(upd2, e) = Adds(upd, e) \cup {n}
      /\ \A f : f # e => Adds(upd2, f) = Adds(upd, f)
  BY <1>1 DEF Adds
<1>3. \A f : Adds(upd, f) \subseteq DOMAIN upd
  BY DEF Adds
<1>4. ASSUME NEW f \in Elems, NEW t \in Tag
      PROVE  <<f, t>> \in w.adds <=> t \in w.known \cap Adds(upd2, f)
  <2>1. <<f, t>> \in v.adds <=> t \in v.known \cap Adds(upd, f)
    BY DEF AddsSound
  <2>2. <<f, t>> \in w.adds <=> <<f, t>> \in v.adds \/ (f = e /\ t = n)
    OBVIOUS
  <2>3. QED
    BY <1>1, <1>2, <1>3, <2>1, <2>2
<1>5. QED
  BY <1>4 DEF AddsSound

\* a remove of all the adds its replica has seen,
LEMMA OneRemove ==
  ASSUME NEW upd, NEW u, NEW n, NEW upd2, Follows(upd, u, n, upd2),
         NEW v, NEW w, Learns(v, w, n, upd),
         NEW e \in Elems, u.kind = "remove", u.elem = e,
         \A t \in Tag : t \in u.seen <=> <<e, t>> \in v.adds,
         RemovesSound(v, upd),
         \A f \in Elems, t \in Tag : <<f, t>> \in w.removes <=>
           <<f, t>> \in v.removes \/ (f = e /\ <<e, t>> \in v.adds)
  PROVE  RemovesSound(w, upd2)
<1> USE DEF Follows, Learns
<1>1. /\ n \notin DOMAIN upd /\ DOMAIN upd2 = DOMAIN upd \cup {n}
      /\ upd2[n] = u /\ \A t \in DOMAIN upd : upd2[t] = upd[t]
  BY Grown
<1>2. /\ Removes(upd2, e) = Removes(upd, e) \cup {n}
      /\ \A f : f # e => Removes(upd2, f) = Removes(upd, f)
  BY <1>1 DEF Removes
<1>3. \A f : Removes(upd, f) \subseteq DOMAIN upd
  BY DEF Removes
<1>4. ASSUME NEW f \in Elems, NEW t \in Tag
      PROVE  <<f, t>> \in w.removes <=>
               \E x \in w.known \cap Removes(upd2, f) : t \in upd2[x].seen
  <2>1. <<f, t>> \in v.removes <=>
          \E x \in v.known \cap Removes(upd, f) : t \in upd[x].seen
    BY DEF RemovesSound
  <2>2. (\E x \in w.known \cap Removes(upd2, f) : t \in upd2[x].seen)
        <=> \/ \E x \in v.known \cap Removes(upd, f) : t \in upd[x].seen
            \/ f = e /\ t \in u.seen
    BY <1>1, <1>2, <1>3
  <2>3. QED
    BY <2>1, <2>2
<1>5. QED
  BY <1>4 DEF RemovesSound

\* and a write that is later than what the register holds.
LEMMA OneWrite ==
  ASSUME NEW upd, NEW u, NEW n, NEW upd2, Follows(upd, u, n, upd2),
         NEW v, NEW w, Learns(v, w, n, upd),
         u.kind = "write",
         RegSound(v, upd), ~ Later(v.reg, w.reg),
         w.reg.value = n, w.reg.ts = u.ts, w.reg.replica = u.by
  PROVE  /\ RegSound(w, upd2)
         /\ \A t \in KnownWrites(v, upd) :
              upd[t].by = u.by => upd[t].ts < u.ts
<1> USE DEF Follows, Learns
<1>0. DOMAIN upd2 = DOMAIN upd \cup {n}
  BY Grown
<1>1. /\ n \in Nat /\ n \notin DOMAIN upd /\ upd2[n] = u
      /\ \A t \in DOMAIN upd : upd2[t] = upd[t]
      /\ Writes(upd2) = Writes(upd) \cup {n}
  BY <1>0, Grown DEF Writes
<1>2. Writes(upd) \subseteq DOMAIN upd
  BY DEF Writes
<1>3. /\ v.reg.ts \in Nat /\ v.reg.replica \in Nat
      /\ u.ts \in Nat /\ u.by \in Nat
  <2>1. w.reg.ts \in Nat /\ w.reg.replica \in Nat
    BY ValueParts
  <2>2. QED
    BY <2>1, ValueParts
<1>4. u.ts > v.reg.ts \/ (u.ts = v.reg.ts /\ u.by > v.reg.replica)
  BY <1>3 DEF Later
<1>5. KnownWrites(w, upd2) = KnownWrites(v, upd) \cup {n}
  BY <1>1, <1>2 DEF KnownWrites
<1>6. ASSUME NEW t \in KnownWrites(v, upd)
      PROVE  /\ u.ts > upd[t].ts \/ (u.ts = upd[t].ts /\ u.by > upd[t].by)
             /\ upd2[t] = upd[t]
  <2>1. /\ t \in Writes(upd) /\ upd[t].ts \in Nat /\ upd[t].by \in Nat
        /\ upd2[t] = upd[t]
    BY <1>1, <1>2, UpdateParts DEF KnownWrites, Writes
  <2>2. /\ v.reg.ts = upd[v.reg.value].ts
        /\ v.reg.replica = upd[v.reg.value].by
        /\ t # v.reg.value => Beats(upd, v.reg.value, t)
    BY DEF RegSound
  <2>3. QED
    BY <1>3, <1>4, <2>1, <2>2 DEF Beats
<1>7. \A t \in KnownWrites(v, upd) : upd[t].ts \in Nat /\ upd[t].by \in Nat
  BY <1>2, UpdateParts DEF KnownWrites, Writes
<1>8. \A t \in KnownWrites(w, upd2) \ {n} : Beats(upd2, n, t)
  BY <1>1, <1>5, <1>6 DEF Beats
<1>9. RegSound(w, upd2)
  BY <1>1, <1>5, <1>8 DEF RegSound
<1>10. QED
  BY <1>3, <1>6, <1>7, <1>9

\* The list of updates stays sound.
LEMMA LogStaysSound ==
  ASSUME NEW upd, NEW loud \in BOOLEAN, NEW loud2 \in BOOLEAN, loud => loud2,
         LogSound(upd, loud), Len(upd) + 1 <= MaxUpdates,
         NEW u \in Update, NEW upd2, upd2 = Append(upd, u),
         u.kind = "write" => u.ts >= 1,
         u.kind = "remove" => u.seen \subseteq Adds(upd, u.elem),
         u.kind = "write" /\ ~loud2 =>
           \A t \in Writes(upd) : upd[t].by = u.by => upd[t].ts < u.ts
  PROVE  LogSound(upd2, loud2)
<1> DEFINE n == Len(upd) + 1
<1>1. /\ upd \in Seq(Update)
      /\ \A t \in Writes(upd) : upd[t].ts >= 1
      /\ \A e \in Elems : \A x \in Removes(upd, e) : upd[x].seen \subseteq Adds(upd, e)
      /\ ~loud => WritesOrdered(upd)
  BY DEF LogSound
<1>2. /\ upd2 \in Seq(Update) /\ Len(upd2) = n /\ n \in Nat
      /\ n \notin DOMAIN upd /\ DOMAIN upd2 = DOMAIN upd \cup {n}
      /\ upd2[n] = u
      /\ \A t \in DOMAIN upd : upd2[t] = upd[t] /\ t \in Nat /\ t < n
  BY <1>1, Grown DEF Follows
<1>3. Len(upd2) <= MaxUpdates
  BY <1>2
<1> HIDE DEF n
<1>4. \A t \in Writes(upd2) : upd2[t].ts >= 1
  BY <1>1, <1>2 DEF Writes
<1>5. \A e \in Elems : \A x \in Removes(upd2, e) : upd2[x].seen \subseteq Adds(upd2, e)
  BY <1>1, <1>2 DEF Removes, Adds
<1>6. ASSUME ~loud2
      PROVE  WritesOrdered(upd2)
  <2>1. WritesOrdered(upd)
    BY <1>1, <1>6
  <2>2. ASSUME NEW x \in Writes(upd2), NEW y \in Writes(upd2),
               x < y, upd2[x].by = upd2[y].by
        PROVE  upd2[x].ts < upd2[y].ts
    <3>1. x \in Nat /\ y \in Nat /\ x <= n /\ y <= n
      BY <1>2 DEF Writes
    <3>2. x \in Writes(upd) /\ upd2[x] = upd[x]
      BY <1>2, <2>2, <3>1 DEF Writes
    <3>3. CASE y = n
      BY <1>2, <1>6, <2>2, <3>2, <3>3 DEF Writes
    <3>4. CASE y # n
      <4>1. y \in Writes(upd) /\ upd2[y] = upd[y]
        BY <1>2, <3>4 DEF Writes
      <4>2. QED
        BY <2>1, <2>2, <3>2, <4>1 DEF WritesOrdered
    <3>5. QED
      BY <3>3, <3>4
  <2>3. QED
    BY <2>2 DEF WritesOrdered
<1>7. QED
  BY <1>2, <1>3, <1>4, <1>5, <1>6 DEF LogSound

-----------------------------------------------------------------------------
(* The actions.                                                            *)

\* A value that has come to know one update more.
LEMMA KnowsMore ==
  ASSUME NEW v \in Value, NEW n \in Tag
  PROVE  /\ [v EXCEPT !.known = @ \cup {n}] \in Value
         /\ [v EXCEPT !.known = @ \cup {n}].counts = v.counts
         /\ [v EXCEPT !.known = @ \cup {n}].adds = v.adds
         /\ [v EXCEPT !.known = @ \cup {n}].removes = v.removes
         /\ [v EXCEPT !.known = @ \cup {n}].reg = v.reg
         /\ [v EXCEPT !.known = @ \cup {n}].known = v.known \cup {n}
BY DEF Value

\* An update of replica r: all is well when the list of updates and the new
\* value of the replica are.
LEMMA UpdateKeeps ==
  ASSUME CrdtInv, NEW r \in Replicas, NEW u \in Update, NEW v \in Value,
         Does(r, u, v), v.known = held[r].known,
         u.kind \in {"inc", "write"} => u.by = r,
         restless' \in BOOLEAN, restless => restless',
         LogSound(updates', restless'),
         Sound([v EXCEPT !.known = @ \cup {Fresh}], updates', restless')
  PROVE  CrdtInv'
<1> DEFINE w == [v EXCEPT !.known = @ \cup {Fresh}]
<1>1. /\ updates \in Seq(Update) /\ updates' = Append(updates, u)
      /\ held' = [held EXCEPT ![r] = w] /\ flight' = flight
      /\ Fresh \in Tag /\ Fresh = Len(updates) + 1
      /\ held \in [Replicas -> Value] /\ flight \in [Replicas -> Value]
      /\ restless \in BOOLEAN /\ Follows(updates, u, Fresh, updates')
  BY DEF CrdtInv, LogSound, Does, Fresh, Follows
<1>2. w \in Value /\ w.known = held[r].known \cup {Fresh}
  BY <1>1, KnowsMore
<1> HIDE DEF w
<1>3. /\ held' \in [Replicas -> Value] /\ held'[r] = w
      /\ \A q \in Replicas : q # r => held'[q] = held[q]
  BY <1>1, <1>2
<1>4. /\ Fresh \notin DOMAIN updates
      /\ DOMAIN updates' = DOMAIN updates \cup {Fresh} /\ updates'[Fresh] = u
      /\ \A t \in DOMAIN updates : updates'[t] = updates[t]
  BY <1>1, Grown
<1>5. ASSUME NEW q \in Replicas
      PROVE  /\ Sound(held'[q], updates', restless')
             /\ Sound(flight'[q], updates', restless')
             /\ OwnKnown(held'[q], q, updates')
  <2>1. /\ Sound(held[q], updates, restless) /\ Sound(flight[q], updates, restless)
        /\ OwnKnown(held[q], q, updates)
    BY DEF CrdtInv
  <2>2. Sound(held[q], updates', restless') /\ Sound(flight[q], updates', restless')
    BY <1>1, <2>1, StaysSound
  <2>3. Sound(held'[q], updates', restless')
    BY <1>3, <2>2 DEF w
  <2>4. OwnKnown(held'[q], q, updates')
    <3>1. CASE q = r
      BY <1>2, <1>3, <1>4, <2>1, <3>1 DEF OwnKnown, Incs, Writes
    <3>2. CASE q # r
      BY <1>3, <1>4, <2>1, <3>2 DEF OwnKnown, Incs, Writes
    <3>3. QED
      BY <3>1, <3>2
  <2>5. QED
    BY <1>1, <2>2, <2>3, <2>4
<1>6. QED
  BY <1>1, <1>3, <1>5 DEF CrdtInv

\* What the invariant says of the replica that makes an update.
LEMMA Beforehand ==
  ASSUME CrdtInv, NEW r \in Replicas, NEW u \in Update,
         Fresh \in Tag, updates' = Append(updates, u),
         restless' \in BOOLEAN, restless => restless'
  PROVE  /\ updates \in Seq(Update) /\ held[r] \in Value
         /\ Follows(updates, u, Fresh, updates')
         /\ Fresh = Len(updates) + 1 /\ Fresh <= MaxUpdates
         /\ held[r].known \subseteq DOMAIN updates
         /\ LogSound(updates, restless)
         /\ Sound(held[r], updates, restless)
         /\ Sound(held[r], updates', restless')
         /\ OwnKnown(held[r], r, updates)
         /\ restless \in BOOLEAN
<1>1. /\ Sound(held[r], updates, restless) /\ updates \in Seq(Update)
      /\ restless \in BOOLEAN /\ OwnKnown(held[r], r, updates)
      /\ LogSound(updates, restless)
  BY DEF CrdtInv, LogSound
<1>f. Follows(updates, u, Fresh, updates')
  BY <1>1 DEF Follows, Fresh
<1>2. Sound(held[r], updates', restless')
  BY <1>1, <1>f, StaysSound
<1>3. Fresh <= MaxUpdates /\ Fresh = Len(updates) + 1
  BY CrdtAssumption DEF Tag, Fresh
<1>4. QED
  BY <1>1, <1>2, <1>3, <1>f DEF Sound

\* One count goes up.
LEMMA CountsOne ==
  ASSUME NEW v \in Value, NEW r \in Replicas
  PROVE  /\ [v EXCEPT !.counts[r] = @ + 1] \in Value
         /\ [v EXCEPT !.counts[r] = @ + 1].counts = [v.counts EXCEPT ![r] = @ + 1]
         /\ [v EXCEPT !.counts[r] = @ + 1].adds = v.adds
         /\ [v EXCEPT !.counts[r] = @ + 1].removes = v.removes
         /\ [v EXCEPT !.counts[r] = @ + 1].reg = v.reg
         /\ [v EXCEPT !.counts[r] = @ + 1].known = v.known
<1> DEFINE c == [v.counts EXCEPT ![r] = @ + 1]
<1>1. v.counts \in [Replicas -> Nat]
  BY DEF Value
<1>2. c \in [Replicas -> Nat]
  BY <1>1
<1>3. [v EXCEPT !.counts[r] = @ + 1] = [v EXCEPT !.counts = c]
  BY DEF Value
<1> HIDE DEF c
<1>4. PICK x \in Value : x = [v EXCEPT !.counts = c]
  BY <1>2 DEF Value
<1>5. /\ x.counts = c /\ x.adds = v.adds /\ x.removes = v.removes
      /\ x.reg = v.reg /\ x.known = v.known
  BY <1>4 DEF Value
<1>6. QED
  BY <1>3, <1>4, <1>5 DEF c

LEMMA IncrementKeeps ==
  ASSUME CrdtInv, NEW r \in Replicas, Increment(r)
  PROVE  CrdtInv'
<1> DEFINE u == [kind |-> "inc", by |-> r]
           v == [held[r] EXCEPT !.counts[r] = @ + 1]
           w == [v EXCEPT !.known = @ \cup {Fresh}]
<1>1. /\ u \in Update /\ u.kind = "inc" /\ u.by = r
      /\ Does(r, u, v) /\ Fresh \in Tag /\ updates' = Append(updates, u)
      /\ restless' = restless /\ restless \in BOOLEAN
  BY DEF Increment, Does, Update, CrdtInv
<1> HIDE DEF u
<1>2. /\ updates \in Seq(Update) /\ held[r] \in Value
      /\ Follows(updates, u, Fresh, updates')
      /\ Fresh = Len(updates) + 1 /\ Fresh <= MaxUpdates
      /\ held[r].known \subseteq DOMAIN updates
      /\ LogSound(updates, restless)
      /\ Sound(held[r], updates, restless)
      /\ Sound(held[r], updates', restless')
      /\ OwnKnown(held[r], r, updates)
  BY <1>1, Beforehand
<1>3. /\ v \in Value /\ v.counts = [held[r].counts EXCEPT ![r] = @ + 1]
      /\ v.adds = held[r].adds /\ v.removes = held[r].removes
      /\ v.reg = held[r].reg /\ v.known = held[r].known
  BY <1>2, CountsOne
<1> HIDE DEF v
<1>4. /\ w \in Value /\ w.counts = v.counts /\ w.adds = v.adds
      /\ w.removes = v.removes /\ w.reg = v.reg
      /\ w.known = held[r].known \cup {Fresh}
  BY <1>1, <1>3, KnowsMore
<1> HIDE DEF w
<1>l. Learns(held[r], w, Fresh, updates)
  BY <1>2, <1>4 DEF Learns
<1>5. CountsSound(w, updates')
  <2>1. CountsSound(held[r], updates) /\ Incs(updates, r) \subseteq held[r].known
    BY <1>2 DEF Sound, OwnKnown
  <2>2. w.counts = [held[r].counts EXCEPT ![r] = @ + 1]
    BY <1>3, <1>4
  <2>3. QED
    BY <1>1, <1>2, <1>4, <2>1, <2>2, <1>l, OneIncrement
<1>6. /\ AddsSound(held[r], updates') /\ RemovesSound(held[r], updates')
      /\ ~restless' => RegSound(held[r], updates')
  BY <1>2 DEF Sound
<1>7. /\ AddsSound(w, updates') /\ RemovesSound(w, updates')
      /\ ~restless' => RegSound(w, updates')
  BY <1>1, <1>2, <1>3, <1>4, <1>6, <1>l, OtherParts
<1>8. w.known \subseteq DOMAIN updates'
  BY <1>1, <1>2, <1>4, Grown
<1>9. Sound(w, updates', restless')
  BY <1>4, <1>5, <1>7, <1>8 DEF Sound
<1>10. LogSound(updates', restless')
  BY <1>1, <1>2, LogStaysSound
<1>11. QED
  BY <1>1, <1>3, <1>9, <1>10, UpdateKeeps DEF w

LEMMA AddKeeps ==
  ASSUME CrdtInv, NEW r \in Replicas, NEW e \in Elems, AddElem(r, e)
  PROVE  CrdtInv'
<1> DEFINE u == [kind |-> "add", elem |-> e]
           v == [held[r] EXCEPT !.adds = @ \cup {<<e, Fresh>>}]
           w == [v EXCEPT !.known = @ \cup {Fresh}]
<1>1. /\ u \in Update /\ u.kind = "add" /\ u.elem = e
      /\ Does(r, u, v) /\ Fresh \in Tag /\ updates' = Append(updates, u)
      /\ restless' = restless /\ restless \in BOOLEAN
  BY DEF AddElem, Does, Update, CrdtInv
<1> HIDE DEF u
<1>2. /\ updates \in Seq(Update) /\ held[r] \in Value
      /\ Follows(updates, u, Fresh, updates')
      /\ Fresh = Len(updates) + 1 /\ Fresh <= MaxUpdates
      /\ held[r].known \subseteq DOMAIN updates
      /\ LogSound(updates, restless)
      /\ Sound(held[r], updates, restless)
      /\ Sound(held[r], updates', restless')
  BY <1>1, Beforehand
<1>3. /\ v \in Value /\ v.counts = held[r].counts
      /\ v.adds = held[r].adds \cup {<<e, Fresh>>}
      /\ v.removes = held[r].removes
      /\ v.reg = held[r].reg /\ v.known = held[r].known
  BY <1>1, <1>2 DEF Value, Tagged
<1> HIDE DEF v
<1>4. /\ w \in Value /\ w.counts = v.counts /\ w.adds = v.adds
      /\ w.removes = v.removes /\ w.reg = v.reg
      /\ w.known = held[r].known \cup {Fresh}
  BY <1>1, <1>3, KnowsMore
<1> HIDE DEF w
<1>l. Learns(held[r], w, Fresh, updates)
  BY <1>2, <1>4 DEF Learns
<1>5. AddsSound(w, updates')
  <2>1. AddsSound(held[r], updates)
    BY <1>2 DEF Sound
  <2>2. QED
    BY <1>1, <1>2, <1>3, <1>4, <2>1, <1>l, OneAdd
<1>6. /\ CountsSound(held[r], updates') /\ RemovesSound(held[r], updates')
      /\ ~restless' => RegSound(held[r], updates')
  BY <1>2 DEF Sound
<1>7. /\ CountsSound(w, updates') /\ RemovesSound(w, updates')
      /\ ~restless' => RegSound(w, updates')
  BY <1>1, <1>2, <1>3, <1>4, <1>6, <1>l, OtherParts
<1>8. w.known \subseteq DOMAIN updates'
  BY <1>1, <1>2, <1>4, Grown
<1>9. Sound(w, updates', restless')
  BY <1>4, <1>5, <1>7, <1>8 DEF Sound
<1>10. LogSound(updates', restless')
  BY <1>1, <1>2, LogStaysSound
<1>11. QED
  BY <1>1, <1>3, <1>9, <1>10, UpdateKeeps DEF w

LEMMA RemoveKeeps ==
  ASSUME CrdtInv, NEW r \in Replicas, NEW e \in Elems, RemoveElem(r, e)
  PROVE  CrdtInv'
<1> DEFINE S == {a[2] : a \in Observed(r, e)}
           u == [kind |-> "remove", elem |-> e, seen |-> S]
           v == [held[r] EXCEPT !.removes = @ \cup Observed(r, e)]
           w == [v EXCEPT !.known = @ \cup {Fresh}]
<1>0. held[r] \in Value /\ restless \in BOOLEAN
  BY DEF CrdtInv
<1>a. /\ \A t \in Tag : t \in S <=> <<e, t>> \in held[r].adds
      /\ S \subseteq Tag
      /\ Observed(r, e) \subseteq Tagged
      /\ \A f \in Elems, t \in Tag :
           <<f, t>> \in Observed(r, e) <=> f = e /\ <<e, t>> \in held[r].adds
  <2>1. held[r].adds \subseteq Elems \X Tag
    BY <1>0, ValueParts DEF Tagged
  <2>2. QED
    BY <2>1 DEF Observed, Tagged
<1> HIDE DEF S
<1>1. /\ u \in Update /\ u.kind = "remove" /\ u.elem = e /\ u.seen = S
      /\ Does(r, u, v) /\ Fresh \in Tag /\ updates' = Append(updates, u)
      /\ restless' = restless
  BY <1>a DEF RemoveElem, Does, Update, S
<1> HIDE DEF u
<1>2. /\ updates \in Seq(Update)
      /\ Follows(updates, u, Fresh, updates')
      /\ Fresh = Len(updates) + 1 /\ Fresh <= MaxUpdates
      /\ held[r].known \subseteq DOMAIN updates
      /\ LogSound(updates, restless)
      /\ Sound(held[r], updates, restless)
      /\ Sound(held[r], updates', restless')
  BY <1>0, <1>1, Beforehand
<1>3. /\ v \in Value /\ v.counts = held[r].counts /\ v.adds = held[r].adds
      /\ v.removes = held[r].removes \cup Observed(r, e)
      /\ v.reg = held[r].reg /\ v.known = held[r].known
  BY <1>0, <1>a DEF Value
<1> HIDE DEF v
<1>4. /\ w \in Value /\ w.counts = v.counts /\ w.adds = v.adds
      /\ w.removes = v.removes /\ w.reg = v.reg
      /\ w.known = held[r].known \cup {Fresh}
  BY <1>1, <1>3, KnowsMore
<1> HIDE DEF w
<1>l. Learns(held[r], w, Fresh, updates)
  BY <1>0, <1>2, <1>4 DEF Learns
<1>5. RemovesSound(w, updates')
  <2>1. RemovesSound(held[r], updates)
    BY <1>2 DEF Sound
  <2>2. \A f \in Elems, t \in Tag : <<f, t>> \in w.removes <=>
          <<f, t>> \in held[r].removes \/ (f = e /\ <<e, t>> \in held[r].adds)
    BY <1>a, <1>3, <1>4
  <2>3. \A t \in Tag : t \in u.seen <=> <<e, t>> \in held[r].adds
    BY <1>a, <1>1
  <2>4. QED
    BY <1>0, <1>1, <1>2, <1>4, <2>1, <2>2, <2>3, <1>l, OneRemove
<1>6. /\ CountsSound(held[r], updates') /\ AddsSound(held[r], updates')
      /\ ~restless' => RegSound(held[r], updates')
  BY <1>2 DEF Sound
<1>7. /\ CountsSound(w, updates') /\ AddsSound(w, updates')
      /\ ~restless' => RegSound(w, updates')
  BY <1>0, <1>1, <1>2, <1>3, <1>4, <1>6, <1>l, OtherParts
<1>8. w.known \subseteq DOMAIN updates'
  BY <1>1, <1>2, <1>4, Grown
<1>9. Sound(w, updates', restless')
  BY <1>4, <1>5, <1>7, <1>8 DEF Sound
<1>10. LogSound(updates', restless')
  <2>1. AddsSound(held[r], updates)
    BY <1>2 DEF Sound
  <2>2. u.seen \subseteq Adds(updates, u.elem)
    BY <1>a, <1>1, <2>1 DEF AddsSound
  <2>3. QED
    BY <1>0, <1>1, <1>2, <2>2, LogStaysSound
<1>11. QED
  BY <1>0, <1>1, <1>3, <1>9, <1>10, UpdateKeeps DEF w

LEMMA WriteKeeps ==
  ASSUME CrdtInv, NEW r \in Replicas, NEW time \in 1 .. MaxStamp,
         WriteRegister(r, time)
  PROVE  CrdtInv'
<1> DEFINE u == [kind |-> "write", by |-> r, ts |-> time]
           new == [value |-> Fresh, ts |-> time, replica |-> r]
           v == [held[r] EXCEPT !.reg = new]
           w == [v EXCEPT !.known = @ \cup {Fresh}]
<1>t. time \in 0 .. MaxStamp /\ time >= 1
  BY CrdtAssumption
<1>1. /\ u \in Update /\ u.kind = "write" /\ u.by = r /\ u.ts = time
      /\ Does(r, u, v) /\ Fresh \in Tag /\ updates' = Append(updates, u)
      /\ restless' = (restless \/ Later(held[r].reg, new)) /\ restless \in BOOLEAN
  BY <1>t DEF WriteRegister, Does, Update, CrdtInv
<1>b. Later(held[r].reg, new) \in BOOLEAN
  BY DEF Later
<1>c. restless' \in BOOLEAN /\ (restless => restless')
      /\ (~restless' => ~restless /\ ~Later(held[r].reg, new))
  BY <1>1, <1>b
<1> HIDE DEF u
<1>2. /\ updates \in Seq(Update) /\ held[r] \in Value
      /\ Follows(updates, u, Fresh, updates')
      /\ Fresh = Len(updates) + 1 /\ Fresh <= MaxUpdates
      /\ held[r].known \subseteq DOMAIN updates
      /\ LogSound(updates, restless)
      /\ Sound(held[r], updates, restless)
      /\ Sound(held[r], updates', restless')
      /\ OwnKnown(held[r], r, updates)
  BY <1>1, <1>c, Beforehand
<1>d. new \in [value : {0} \cup Tag, ts : 0 .. MaxStamp, replica : Replicas]
      /\ new.value = Fresh /\ new.ts = time /\ new.replica = r
  BY <1>t, <1>1
<1> HIDE DEF new
<1>3. /\ v \in Value /\ v.counts = held[r].counts /\ v.adds = held[r].adds
      /\ v.removes = held[r].removes
      /\ v.reg = new /\ v.known = held[r].known
  BY <1>2, <1>d DEF Value
<1> HIDE DEF v
<1>4. /\ w \in Value /\ w.counts = v.counts /\ w.adds = v.adds
      /\ w.removes = v.removes /\ w.reg = v.reg
      /\ w.known = held[r].known \cup {Fresh}
  BY <1>1, <1>3, KnowsMore
<1> HIDE DEF w
<1>l. Learns(held[r], w, Fresh, updates)
  BY <1>2, <1>4 DEF Learns
<1>5. ASSUME ~restless'
      PROVE  /\ RegSound(w, updates')
             /\ \A t \in KnownWrites(held[r], updates) :
                  updates[t].by = u.by => updates[t].ts < u.ts
  <2>1. RegSound(held[r], updates) /\ ~Later(held[r].reg, w.reg)
    BY <1>2, <1>3, <1>4, <1>5, <1>c DEF Sound
  <2>2. w.reg.value = Fresh /\ w.reg.ts = u.ts /\ w.reg.replica = u.by
    BY <1>1, <1>3, <1>4, <1>d
  <2>3. QED
    BY <1>1, <1>2, <1>4, <2>1, <2>2, <1>l, OneWrite
<1>6. /\ CountsSound(held[r], updates') /\ AddsSound(held[r], updates')
      /\ RemovesSound(held[r], updates')
  BY <1>2 DEF Sound
<1>7. /\ CountsSound(w, updates') /\ AddsSound(w, updates')
      /\ RemovesSound(w, updates')
  BY <1>1, <1>2, <1>3, <1>4, <1>6, <1>l, OtherParts
<1>8. w.known \subseteq DOMAIN updates'
  BY <1>1, <1>2, <1>4, Grown
<1>9. Sound(w, updates', restless')
  BY <1>4, <1>5, <1>7, <1>8 DEF Sound
<1>10. LogSound(updates', restless')
  <2>1. \A t \in Writes(updates) :
          updates[t].by = u.by => t \in KnownWrites(held[r], updates)
    BY <1>1, <1>2 DEF OwnKnown, KnownWrites
  <2>2. ~restless' => \A t \in Writes(updates) :
          updates[t].by = u.by => updates[t].ts < u.ts
    BY <1>5, <2>1
  <2>3. QED
    BY <1>t, <1>1, <1>2, <1>c, <2>2, LogStaysSound
<1>11. QED
  BY <1>1, <1>3, <1>9, <1>10, <1>c, UpdateKeeps DEF w

LEMMA ReceiveKeeps ==
  ASSUME CrdtInv, NEW r \in Replicas, NEW q \in Replicas, ReceiveValue(r, q)
  PROVE  CrdtInv'
<1> DEFINE w == MergeValues(held[r], flight[q])
<1>1. /\ held' = [held EXCEPT ![r] = w]
      /\ UNCHANGED <<flight, updates, restless>>
      /\ held \in [Replicas -> Value] /\ flight \in [Replicas -> Value]
      /\ restless \in BOOLEAN /\ LogSound(updates, restless)
  BY DEF ReceiveValue, CrdtInv
<1>2. Sound(held[r], updates, restless) /\ Sound(flight[q], updates, restless)
      /\ OwnKnown(held[r], r, updates)
      /\ held[r] \in Value /\ flight[q] \in Value
  BY DEF CrdtInv
<1>3. Sound(w, updates, restless)
  BY <1>1, <1>2, MergeSound
<1>4. w.known = held[r].known \cup flight[q].known /\ w \in Value
  BY <1>2, MergeParts
<1> HIDE DEF w
<1>5. /\ held' \in [Replicas -> Value] /\ held'[r] = w
      /\ \A p \in Replicas : p # r => held'[p] = held[p]
  BY <1>1, <1>4
<1>6. ASSUME NEW p \in Replicas
      PROVE  Sound(held'[p], updates, restless) /\ OwnKnown(held'[p], p, updates)
  <2>1. Sound(held[p], updates, restless) /\ OwnKnown(held[p], p, updates)
    BY DEF CrdtInv
  <2>2. QED
    BY <1>2, <1>3, <1>4, <1>5, <2>1 DEF OwnKnown
<1>7. QED
  BY <1>1, <1>5, <1>6 DEF CrdtInv

LEMMA CrdtStep == CrdtInv /\ [CrdtNext]_crdtVars => CrdtInv'
<1> SUFFICES ASSUME CrdtInv, [CrdtNext]_crdtVars
             PROVE  CrdtInv'
  OBVIOUS
<1>1. CASE UNCHANGED crdtVars
  BY <1>1 DEF CrdtInv, crdtVars
<1>2. ASSUME NEW r \in Replicas, SendValue(r)
      PROVE  CrdtInv'
  BY <1>2 DEF SendValue, CrdtInv
<1>3. QED
  BY <1>1, <1>2, IncrementKeeps, AddKeeps, RemoveKeeps, WriteKeeps, ReceiveKeeps
     DEF CrdtNext

LEMMA CrdtStart == CrdtInit => CrdtInv
<1> SUFFICES ASSUME CrdtInit PROVE CrdtInv
  OBVIOUS
<1>1. /\ updates = <<>> /\ updates \in Seq(Update) /\ Len(updates) = 0
      /\ DOMAIN updates = {} /\ restless = FALSE
  BY DEF CrdtInit
<1>2. /\ \A k : Incs(updates, k) = {} /\ \A e : Adds(updates, e) = {}
      /\ \A e : Removes(updates, e) = {} /\ Writes(updates) = {}
  BY <1>1 DEF Incs, Adds, Removes, Writes
<1>3. LogSound(updates, restless)
  BY <1>1, <1>2, CrdtAssumption DEF LogSound, WritesOrdered
<1>4. ASSUME NEW r \in Replicas
      PROVE  /\ New(r) \in Value
             /\ Sound(New(r), updates, restless)
             /\ OwnKnown(New(r), r, updates)
  <2> DEFINE v == New(r)
  <2>1. 0 \in 0 .. MaxStamp
    BY CrdtAssumption
  <2>2. v \in Value
    BY <2>1 DEF New, Value
  <2>3. /\ v.counts = [k \in Replicas |-> 0] /\ v.adds = {} /\ v.removes = {}
        /\ v.reg.value = 0 /\ v.reg.ts = 0 /\ v.known = {}
    BY DEF New
  <2> HIDE DEF v
  <2>4. CountsSound(v, updates)
    <3>1. ASSUME NEW k \in Replicas
          PROVE  v.counts[k] = Cardinality(v.known \cap Incs(updates, k))
      <4>1. v.known \cap Incs(updates, k) = {}
        BY <2>3
      <4>2. QED
        BY <2>3, <4>1, FS_EmptySet
    <3>2. QED
      BY <1>2, <3>1 DEF CountsSound
  <2>5. AddsSound(v, updates) /\ RemovesSound(v, updates)
    BY <2>3 DEF AddsSound, RemovesSound
  <2>6. RegSound(v, updates)
    BY <2>3 DEF RegSound, KnownWrites
  <2>7. OwnKnown(v, r, updates)
    BY <1>2 DEF OwnKnown
  <2>8. Sound(v, updates, restless)
    BY <2>2, <2>3, <2>4, <2>5, <2>6 DEF Sound
  <2>9. QED
    BY <2>2, <2>7, <2>8 DEF v
<1>5. held = [r \in Replicas |-> New(r)] /\ flight = held
  BY DEF CrdtInit
<1>6. QED
  BY <1>1, <1>3, <1>4, <1>5 DEF CrdtInv

-----------------------------------------------------------------------------
\* What a replica holds is what the updates that have reached it say: for any
\* replicas and elements, and any number of updates, sends and deliveries.
THEOREM CrdtValuesExact == CrdtSpec => []ValuesExact
<1>1. CrdtInv => ValuesExact
  <2> SUFFICES ASSUME CrdtInv, NEW r \in Replicas
               PROVE
    /\ \A k \in Replicas :
         CountOf(r, k) = Cardinality({t \in Known(r, "inc") : updates[t].by = k})
    /\ \A e \in Elems :
         HasElem(r, e) <=>
           \E t \in Known(r, "add") :
             /\ updates[t].elem = e
             /\ \A u \in Known(r, "remove") : t \notin updates[u].seen
    /\ ~restless =>
         IF Known(r, "write") = {} THEN held[r].reg.value = 0
         ELSE LET last == held[r].reg.value
              IN /\ last \in Known(r, "write")
                 /\ \A t \in Known(r, "write") \ {last} :
                      \/ updates[last].ts > updates[t].ts
                      \/ /\ updates[last].ts = updates[t].ts
                         /\ updates[last].by > updates[t].by
    BY DEF ValuesExact
  <2> DEFINE v == held[r]
  <2>1. /\ v \in Value /\ v.known \subseteq DOMAIN updates
        /\ CountsSound(v, updates) /\ AddsSound(v, updates)
        /\ RemovesSound(v, updates) /\ (~restless => RegSound(v, updates))
        /\ updates \in Seq(Update)
        /\ \A e \in Elems : \A u \in Removes(updates, e) :
             updates[u].seen \subseteq Adds(updates, e)
    BY DEF CrdtInv, Sound, LogSound
  <2>2. ASSUME NEW k \in Replicas
        PROVE  CountOf(r, k)
                 = Cardinality({t \in Known(r, "inc") : updates[t].by = k})
    <3>1. {t \in Known(r, "inc") : updates[t].by = k}
            = v.known \cap Incs(updates, k)
      BY <2>1 DEF Known, Incs
    <3>2. QED
      BY <2>1, <3>1 DEF CountOf, CountsSound
  <2>3. ASSUME NEW e \in Elems
        PROVE  HasElem(r, e) <=>
                 \E t \in Known(r, "add") :
                   /\ updates[t].elem = e
                   /\ \A u \in Known(r, "remove") : t \notin updates[u].seen
    <3>1. HasElem(r, e) <=>
            \E t \in Tag : <<e, t>> \in v.adds /\ <<e, t>> \notin v.removes
      <4>1. v.adds \subseteq Elems \X Tag
        BY <2>1, ValueParts DEF Tagged
      <4>2. ASSUME NEW a \in v.adds \ v.removes, a[1] = e
            PROVE  \E t \in Tag : <<e, t>> \in v.adds /\ <<e, t>> \notin v.removes
        <5>1. a = <<e, a[2]>> /\ a[2] \in Tag
          BY <4>1, <4>2
        <5>2. QED
          BY <5>1
      <4>3. ASSUME NEW t \in Tag, <<e, t>> \in v.adds, <<e, t>> \notin v.removes
            PROVE  \E a \in v.adds \ v.removes : a[1] = e
        <5>1. <<e, t>> \in v.adds \ v.removes /\ <<e, t>>[1] = e
          BY <4>3
        <5>2. QED
          BY <5>1
      <4>4. QED
        BY <4>2, <4>3 DEF HasElem
    <3>2. ASSUME NEW t \in Tag
          PROVE  <<e, t>> \in v.adds <=>
                   t \in Known(r, "add") /\ updates[t].elem = e
      BY <2>1 DEF AddsSound, Adds, Known
    <3>3. ASSUME NEW t \in Tag, <<e, t>> \in v.adds
          PROVE  <<e, t>> \in v.removes <=>
                   \E u \in Known(r, "remove") : t \in updates[u].seen
      <4>1. <<e, t>> \in v.removes <=>
              \E u \in v.known \cap Removes(updates, e) : t \in updates[u].seen
        BY <2>1 DEF RemovesSound
      <4>2. ASSUME NEW u \in Known(r, "remove"), t \in updates[u].seen
            PROVE  u \in v.known \cap Removes(updates, e)
        <5>1. /\ u \in DOMAIN updates /\ u \in v.known
              /\ updates[u].kind = "remove" /\ updates[u].elem \in Elems
          BY <2>1, UpdateParts DEF Known
        <5>2. u \in Removes(updates, updates[u].elem)
          BY <5>1 DEF Removes
        <5>3. t \in Adds(updates, updates[u].elem)
          BY <2>1, <4>2, <5>1, <5>2
        <5>4. updates[t].elem = e
          BY <3>2, <3>3
        <5>5. QED
          BY <5>1, <5>2, <5>3, <5>4 DEF Adds
      <4>3. \A u \in v.known \cap Removes(updates, e) : u \in Known(r, "remove")
        BY DEF Known, Removes
      <4>4. QED
        BY <4>1, <4>2, <4>3
    <3>4. Known(r, "add") \subseteq Tag
      BY <2>1, ValueParts DEF Known
    <3>5. QED
      BY <3>1, <3>2, <3>3, <3>4
  <2>4. ASSUME ~restless
        PROVE
         IF Known(r, "write") = {} THEN held[r].reg.value = 0
         ELSE LET last == held[r].reg.value
              IN /\ last \in Known(r, "write")
                 /\ \A t \in Known(r, "write") \ {last} :
                      \/ updates[last].ts > updates[t].ts
                      \/ /\ updates[last].ts = updates[t].ts
                         /\ updates[last].by > updates[t].by
    <3>1. Known(r, "write") = KnownWrites(v, updates)
      BY <2>1 DEF Known, KnownWrites, Writes
    <3>2. RegSound(v, updates)
      BY <2>1, <2>4
    <3>3. QED
      BY <3>1, <3>2 DEF RegSound, Beats
  <2>5. QED
    BY <2>2, <2>3, <2>4
<1>2. QED
  BY <1>1, CrdtStart, CrdtStep, PTL DEF CrdtSpec

-----------------------------------------------------------------------------
(* Sessions: who has been shown what, and in which order.                  *)

Shown(t, c) == \E i \in DOMAIN log[t] : log[t][i] = c

\* The traces of this kind have been copied for c.
Copied(t, c) == IF t \in Protocol
                  THEN report[c].at \in {"protocols", "sessions", "returned"}
                  ELSE report[c].at \in {"sessions", "returned"}

\* The traces still to be shown c are of the kind its stage is about.
StageInv(c) ==
  /\ report[c].at \in {"unmade", "begun", "returned"} => unshown[c] = {}
  /\ report[c].at = "protocols" => unshown[c] \subseteq Protocol
  /\ report[c].at = "sessions" => unshown[c] \cap Protocol = {}
  /\ \A t \in unshown[c] \cup owed[c] : status[t] # "none"
  /\ report[c].at = "unmade" => owed[c] = {}

\* A trace has been shown c, or will be, once its kind has been copied.
ShownInv(t, c) ==
  /\ Shown(t, c) => t \notin unshown[c] /\ Copied(t, c)
  /\ t \in owed[c] /\ status[t] = "running" /\ Copied(t, c)
       => Shown(t, c) \/ t \in unshown[c]

\* No report is shown twice, nor after one that began when it had returned.
OrderInv(t) ==
  /\ \A i, j \in DOMAIN log[t] : log[t][i] = log[t][j] => i = j
  /\ \A i, j \in DOMAIN log[t] : <<log[t][j], log[t][i]>> \in after => j < i

AfterInv == \A c, d \in Reports : <<c, d>> \in after =>
              report[c].at = "returned" /\ report[d].at # "unmade"

SeenInv ==
  /\ SessionsTypes
  /\ \A c \in Reports : StageInv(c)
  /\ \A t \in Traces, c \in Reports : ShownInv(t, c)
  /\ \A t \in Traces : OrderInv(t)
  /\ AfterInv

\* A step of a report from one stage to another, with its labels kept.
LEMMA StageMoves ==
  ASSUME SessionsTypes, NEW c \in Reports,
         NEW s \in {"unmade", "begun", "protocols", "sessions", "returned"},
         report' = [report EXCEPT ![c].at = s]
  PROVE  /\ report' \in [Reports -> [at : {"unmade", "begun", "protocols",
                                       "sessions", "returned"},
                                 label : Labels, fits : BOOLEAN]]
         /\ report'[c].at = s
         /\ \A d \in Reports : d # c => report'[d] = report[d]
         /\ \A d \in Reports : report'[d].label = report[d].label
                             /\ report'[d].fits = report[d].fits
BY DEF SessionsTypes

\* What a turn of the loops of record_observation does to the logs: a trace
\* that has ended may not take the report.
LEMMA ObserveEffect ==
  ASSUME SeenInv, NEW c \in Reports, Observe(c)
  PROVE  \E t \in unshown[c] :
           /\ t \in Traces /\ status[t] # "none"
           /\ unshown' = [unshown EXCEPT ![c] = @ \ {t}]
           /\ \/ log' = [log EXCEPT ![t] = Append(@, c)]
              \/ log' = log /\ status[t] = "ended"
           /\ log' \in [Traces -> Seq(Reports)]
           /\ idx' \in [Traces -> Nat] /\ blamed' \in [Traces -> Nat]
           /\ UNCHANGED <<report, def, status, redefined, after, owed>>
           /\ ProtocolObserve(t, c) \/ SessionCheck(t, c)
<1>1. /\ unshown \in [Reports -> SUBSET Traces]
      /\ log \in [Traces -> Seq(Reports)]
      /\ idx \in [Traces -> Nat] /\ blamed \in [Traces -> Nat]
      /\ StageInv(c)
  BY DEF SeenInv, SessionsTypes
<1>2. PICK t \in unshown[c] :
        /\ ProtocolObserve(t, c) \/ SessionCheck(t, c)
        /\ unshown' = [unshown EXCEPT ![c] = @ \ {t}]
  BY DEF Observe
<1>3. t \in Traces /\ status[t] # "none"
  BY <1>1 DEF StageInv
<1>4. \/ log' = [log EXCEPT ![t] = Append(@, c)]
      \/ log' = log /\ status[t] = "ended"
  BY <1>2 DEF ProtocolObserve, SessionCheck
<1>5. log' \in [Traces -> Seq(Reports)]
  <2>1. Append(log[t], c) \in Seq(Reports)
    BY <1>1, <1>3
  <2>2. QED
    BY <1>1, <1>3, <1>4, <2>1
<1>6. idx' \in [Traces -> Nat] /\ blamed' \in [Traces -> Nat]
  <2>1. idx[t] + 1 \in Nat /\ blamed[t] + 1 \in Nat
    BY <1>1, <1>3
  <2>2. CASE ProtocolObserve(t, c)
    BY <1>1, <1>3, <2>1, <2>2 DEF ProtocolObserve
  <2>3. CASE SessionCheck(t, c)
    BY <1>1, <1>3, <2>1, <2>3 DEF SessionCheck
  <2>4. QED
    BY <1>2, <2>2, <2>3
<1>7. QED
  BY <1>2, <1>3, <1>4, <1>5, <1>6 DEF Observe

LEMMA ObserveSeen ==
  ASSUME SeenInv, NEW c \in Reports, Observe(c)
  PROVE  SeenInv'
<1>0. /\ SessionsTypes /\ unshown \in [Reports -> SUBSET Traces]
      /\ log \in [Traces -> Seq(Reports)]
      /\ \A d \in Reports : StageInv(d)
      /\ \A t \in Traces, d \in Reports : ShownInv(t, d)
      /\ \A t \in Traces : OrderInv(t)
      /\ AfterInv
  BY DEF SeenInv, SessionsTypes
<1>1. PICK t \in unshown[c] :
        /\ t \in Traces /\ status[t] # "none"
        /\ unshown' = [unshown EXCEPT ![c] = @ \ {t}]
        /\ \/ log' = [log EXCEPT ![t] = Append(@, c)]
           \/ log' = log /\ status[t] = "ended"
        /\ log' \in [Traces -> Seq(Reports)]
        /\ idx' \in [Traces -> Nat] /\ blamed' \in [Traces -> Nat]
        /\ UNCHANGED <<report, def, status, redefined, after, owed>>
  BY ObserveEffect
<1>2. /\ unshown' \in [Reports -> SUBSET Traces]
      /\ unshown'[c] = unshown[c] \ {t}
      /\ \A d \in Reports : d # c => unshown'[d] = unshown[d]
  BY <1>0, <1>1
<1>3. SessionsTypes'
  BY <1>0, <1>1, <1>2 DEF SessionsTypes
<1>4. /\ ~Shown(t, c) /\ report[c].at # "returned" /\ Copied(t, c)
  <2>1. ~Shown(t, c)
    BY <1>0, <1>1 DEF ShownInv
  <2>2. report[c].at \in {"protocols", "sessions"}
    BY <1>0, <1>1 DEF StageInv, SessionsTypes
  <2>3. report[c].at = "protocols" => t \in Protocol
    BY <1>0, <1>1 DEF StageInv
  <2>4. report[c].at = "sessions" => t \notin Protocol
    BY <1>0, <1>1 DEF StageInv
  <2>5. QED
    BY <2>1, <2>2, <2>3, <2>4 DEF Copied
<1>5. \A d \in Reports : StageInv(d)'
  BY <1>0, <1>1, <1>2 DEF StageInv
<1>6. ASSUME NEW q \in Traces
      PROVE  /\ \A d \in Reports : Shown(q, d)' <=>
                  Shown(q, d) \/ (q = t /\ d = c /\ log' # log)
             /\ OrderInv(q)'
  <2>1. CASE q # t \/ log' = log
    <3>1. log'[q] = log[q] /\ (q = t => log' = log)
      BY <1>0, <1>1, <2>1
    <3>2. QED
      BY <1>0, <1>1, <3>1 DEF Shown, OrderInv
  <2>2. CASE q = t /\ log' # log
    <3> DEFINE n == Len(log[t]) + 1
    <3>1. /\ log[t] \in Seq(Reports) /\ log'[t] = Append(log[t], c)
      BY <1>0, <1>1, <2>2
    <3>2. /\ n \in Nat /\ n \notin DOMAIN log[t]
          /\ DOMAIN log'[t] = DOMAIN log[t] \cup {n}
          /\ log'[t][n] = c
          /\ \A i \in DOMAIN log[t] : log'[t][i] = log[t][i] /\ i < n
                                      /\ log[t][i] \in Reports /\ i \in Nat
      BY <3>1
    <3> HIDE DEF n
    <3>3. \A i \in DOMAIN log[t] : log[t][i] # c
      BY <1>4 DEF Shown
    <3>4. \A d \in Reports : Shown(t, d)' <=> Shown(t, d) \/ d = c
      BY <3>2 DEF Shown
    <3>5. \A i, j \in DOMAIN log'[t] : log'[t][i] = log'[t][j] => i = j
      BY <1>0, <3>2, <3>3 DEF OrderInv
    <3>6. ASSUME NEW i \in DOMAIN log'[t], NEW j \in DOMAIN log'[t],
                 <<log'[t][j], log'[t][i]>> \in after
          PROVE  j < i
      <4>1. log'[t][j] # c
        BY <1>0, <1>4, <3>2, <3>6 DEF AfterInv
      <4>2. j \in DOMAIN log[t]
        BY <3>2, <4>1
      <4>3. CASE i = n
        BY <3>2, <4>2, <4>3
      <4>4. CASE i # n
        <5>1. i \in DOMAIN log[t] /\ <<log[t][j], log[t][i]>> \in after
          BY <3>2, <3>6, <4>2, <4>4
        <5>2. QED
          BY <1>0, <4>2, <5>1 DEF OrderInv
      <4>5. QED
        BY <4>3, <4>4
    <3>7. OrderInv(t)'
      BY <1>1, <3>5, <3>6 DEF OrderInv
    <3>8. QED
      BY <2>2, <3>4, <3>7
  <2>3. QED
    BY <2>1, <2>2
<1>7. ASSUME NEW q \in Traces, NEW d \in Reports
      PROVE  ShownInv(q, d)'
  <2>1. Copied(q, d)' <=> Copied(q, d)
    BY <1>1 DEF Copied
  <2>2. ShownInv(q, d)
    BY <1>0
  <2>3. /\ status' = status /\ owed' = owed
    BY <1>1
  <2>4. CASE q = t /\ d = c
    <3>1. Shown(t, c)' <=> log' # log
      BY <1>1, <1>4, <1>6
    <3>2. status[t] = "running" => log' # log
      <4>1. Append(log[t], c) # log[t]
        BY <1>0, <1>1
      <4>2. [log EXCEPT ![t] = Append(@, c)] # log
        BY <1>0, <1>1, <4>1
      <4>3. QED
        BY <1>1, <4>2
    <3>3. QED
      BY <1>2, <1>4, <2>1, <2>3, <2>4, <3>1, <3>2 DEF ShownInv
  <2>5. CASE q # t \/ d # c
    <3>1. Shown(q, d)' <=> Shown(q, d)
      BY <1>6, <2>5
    <3>2. q \in unshown'[d] <=> q \in unshown[d]
      BY <1>2, <2>5
    <3>3. QED
      BY <2>1, <2>2, <2>3, <3>1, <3>2 DEF ShownInv
  <2>6. QED
    BY <2>4, <2>5
<1>8. AfterInv'
  BY <1>0, <1>1 DEF AfterInv
<1>9. QED
  BY <1>3, <1>5, <1>6, <1>7, <1>8 DEF SeenInv

\* Steps that leave the reports alone: what is running may change, but no trace
\* runs that had ended, nor one that a report is owed to.
LEMMA TableSeen ==
  ASSUME SeenInv, SessionsTypes', UNCHANGED <<report, unshown, log, after, owed>>,
         \A t \in Traces : status[t] # "none" => status'[t] # "none",
         \A t \in Traces : status'[t] = "running" /\ status[t] # "none"
                             => status[t] = "running"
  PROVE  SeenInv'
<1>0. /\ \A d \in Reports : StageInv(d)
      /\ \A t \in Traces, d \in Reports : ShownInv(t, d)
      /\ \A t \in Traces : OrderInv(t)
      /\ AfterInv
      /\ unshown \in [Reports -> SUBSET Traces] /\ owed \in [Reports -> SUBSET Traces]
  BY DEF SeenInv, SessionsTypes
<1>1. ASSUME NEW d \in Reports PROVE StageInv(d)'
  BY <1>0 DEF StageInv
<1>2. ASSUME NEW t \in Traces, NEW d \in Reports PROVE ShownInv(t, d)'
  <2>1. t \in owed[d] => status[t] # "none"
    BY <1>0 DEF StageInv
  <2>2. (Shown(t, d)' <=> Shown(t, d)) /\ (Copied(t, d)' <=> Copied(t, d))
    BY DEF Shown, Copied
  <2>3. ShownInv(t, d)
    BY <1>0
  <2>4. QED
    BY <2>1, <2>2, <2>3 DEF ShownInv
<1>3. \A t \in Traces : OrderInv(t)'
  BY <1>0 DEF OrderInv
<1>4. AfterInv'
  BY <1>0 DEF AfterInv
<1>5. QED
  BY <1>1, <1>2, <1>3, <1>4 DEF SeenInv

LEMMA BeginSeen ==
  ASSUME SeenInv, NEW c \in Reports, BeginReport(c)
  PROVE  SeenInv'
<1>0. /\ SessionsTypes
      /\ \A d \in Reports : StageInv(d)
      /\ \A t \in Traces, d \in Reports : ShownInv(t, d)
      /\ \A t \in Traces : OrderInv(t)
      /\ AfterInv
      /\ owed \in [Reports -> SUBSET Traces] /\ after \subseteq Reports \X Reports
      /\ log \in [Traces -> Seq(Reports)]
  BY DEF SeenInv, SessionsTypes
<1>1. /\ report[c].at = "unmade" /\ report' = [report EXCEPT ![c].at = "begun"]
      /\ after' = after \cup (Returned \X {c})
      /\ owed' = [owed EXCEPT ![c] = Running]
      /\ UNCHANGED <<unshown, def, status, idx, blamed, log, redefined>>
  BY DEF BeginReport, sessionsTable
<1>2. /\ report' \in [Reports -> [at : {"unmade", "begun", "protocols",
                                    "sessions", "returned"},
                              label : Labels, fits : BOOLEAN]]
      /\ report'[c].at = "begun"
      /\ \A d \in Reports : d # c => report'[d] = report[d]
  BY <1>0, <1>1, StageMoves
<1>3. /\ owed' \in [Reports -> SUBSET Traces] /\ owed'[c] = Running
      /\ \A d \in Reports : d # c => owed'[d] = owed[d]
  BY <1>0, <1>1 DEF Running
<1>4. after' \subseteq Reports \X Reports
  BY <1>0, <1>1 DEF Returned
<1>5. SessionsTypes'
  BY <1>0, <1>1, <1>2, <1>3, <1>4 DEF SessionsTypes
<1>6. ASSUME NEW t \in Traces PROVE ~Shown(t, c)
  <2>1. ~Copied(t, c)
    BY <1>1 DEF Copied
  <2>2. QED
    BY <1>0, <2>1 DEF ShownInv
<1>7. ASSUME NEW d \in Reports PROVE StageInv(d)'
  BY <1>0, <1>1, <1>2, <1>3 DEF StageInv, Running
<1>8. ASSUME NEW t \in Traces, NEW d \in Reports PROVE ShownInv(t, d)'
  <2>1. Shown(t, d)' <=> Shown(t, d)
    BY <1>1 DEF Shown
  <2>2. CASE d = c
    <3>1. ~Copied(t, d)'
      BY <1>2, <2>2 DEF Copied
    <3>2. QED
      BY <1>6, <2>1, <2>2, <3>1 DEF ShownInv
  <2>3. CASE d # c
    <3>1. Copied(t, d)' <=> Copied(t, d)
      BY <1>2, <2>3 DEF Copied
    <3>2. ShownInv(t, d)
      BY <1>0
    <3>3. QED
      BY <1>1, <1>3, <2>1, <2>3, <3>1, <3>2 DEF ShownInv
  <2>4. QED
    BY <2>2, <2>3
<1>9. ASSUME NEW t \in Traces PROVE OrderInv(t)'
  <2>1. \A i \in DOMAIN log[t] : log[t][i] # c
    BY <1>6 DEF Shown
  <2>2. \A i, j \in DOMAIN log[t] : <<log[t][j], log[t][i]>> \in after'
                                      => <<log[t][j], log[t][i]>> \in after
    BY <1>1, <2>1
  <2>3. QED
    BY <1>0, <1>1, <2>2 DEF OrderInv
<1>10. AfterInv'
  BY <1>0, <1>1, <1>2 DEF AfterInv, Returned
<1>11. QED
  BY <1>5, <1>7, <1>8, <1>9, <1>10 DEF SeenInv

\* Steps that take a report from one stage to the next, after it began.
LEMMA MoveSeen ==
  ASSUME SeenInv, NEW c \in Reports,
         NEW s \in {"protocols", "sessions", "returned"}, NEW U \in SUBSET Traces,
         \/ report[c].at = "begun" /\ s = "protocols" /\ U = Running \cap Protocol
         \/ report[c].at = "protocols" /\ s = "sessions" /\ unshown[c] = {}
            /\ U = Running \ Protocol
         \/ report[c].at = "sessions" /\ s = "returned" /\ unshown[c] = {} /\ U = {},
         report' = [report EXCEPT ![c].at = s],
         unshown' = [unshown EXCEPT ![c] = U],
         UNCHANGED <<def, status, idx, blamed, log, redefined, after, owed>>
  PROVE  SeenInv'
<1>0. /\ SessionsTypes
      /\ \A d \in Reports : StageInv(d)
      /\ \A t \in Traces, d \in Reports : ShownInv(t, d)
      /\ \A t \in Traces : OrderInv(t)
      /\ AfterInv
      /\ unshown \in [Reports -> SUBSET Traces]
  BY DEF SeenInv, SessionsTypes
<1>2. /\ report' \in [Reports -> [at : {"unmade", "begun", "protocols",
                                    "sessions", "returned"},
                              label : Labels, fits : BOOLEAN]]
      /\ report'[c].at = s
      /\ \A d \in Reports : d # c => report'[d] = report[d]
  BY <1>0, StageMoves
<1>3. /\ unshown' \in [Reports -> SUBSET Traces] /\ unshown'[c] = U
      /\ \A d \in Reports : d # c => unshown'[d] = unshown[d]
  BY <1>0
<1>5. SessionsTypes'
  BY <1>0, <1>2, <1>3 DEF SessionsTypes
<1>7. ASSUME NEW d \in Reports PROVE StageInv(d)'
  BY <1>0, <1>2, <1>3 DEF StageInv, Running
<1>8. ASSUME NEW t \in Traces, NEW d \in Reports PROVE ShownInv(t, d)'
  <2>1. Shown(t, d)' <=> Shown(t, d)
    BY DEF Shown
  <2>2. CASE d = c
    <3>1. ShownInv(t, c) /\ StageInv(c)
      BY <1>0
    <3>2. CASE report[c].at = "begun" /\ s = "protocols" /\ U = Running \cap Protocol
      <4>1. ~Copied(t, c) /\ (Copied(t, c)' <=> t \in Protocol)
        BY <1>2, <3>2 DEF Copied
      <4>2. QED
        BY <1>3, <2>1, <2>2, <3>1, <3>2, <4>1 DEF ShownInv, Running
    <3>3. CASE report[c].at = "protocols" /\ s = "sessions" /\ unshown[c] = {}
               /\ U = Running \ Protocol
      <4>1. (Copied(t, c) <=> t \in Protocol) /\ Copied(t, c)'
        BY <1>2, <3>3 DEF Copied
      <4>2. QED
        BY <1>3, <2>1, <2>2, <3>1, <3>3, <4>1 DEF ShownInv, Running
    <3>4. CASE report[c].at = "sessions" /\ s = "returned" /\ unshown[c] = {} /\ U = {}
      <4>1. Copied(t, c) /\ Copied(t, c)'
        BY <1>2, <3>4 DEF Copied
      <4>2. QED
        BY <1>3, <2>1, <2>2, <3>1, <3>4, <4>1 DEF ShownInv
    <3>5. QED
      BY <3>2, <3>3, <3>4
  <2>3. CASE d # c
    <3>1. Copied(t, d)' <=> Copied(t, d)
      BY <1>2, <2>3 DEF Copied
    <3>2. ShownInv(t, d)
      BY <1>0
    <3>3. QED
      BY <1>3, <2>1, <2>3, <3>1, <3>2 DEF ShownInv
  <2>4. QED
    BY <2>2, <2>3
<1>9. \A t \in Traces : OrderInv(t)'
  BY <1>0 DEF OrderInv
<1>10. AfterInv'
  BY <1>0, <1>2 DEF AfterInv
<1>11. QED
  BY <1>5, <1>7, <1>8, <1>9, <1>10 DEF SeenInv

LEMMA SeenStep == SeenInv /\ [SessionsNext]_sessionsVars => SeenInv'
<1> SUFFICES ASSUME SeenInv, [SessionsNext]_sessionsVars
             PROVE  SeenInv'
  OBVIOUS
<1>0. SessionsTypes /\ status \in [Traces -> {"none", "running", "ended"}]
      /\ redefined \in [Traces -> BOOLEAN] /\ unshown \in [Reports -> SUBSET Traces]
  BY DEF SeenInv, SessionsTypes
<1>1. CASE UNCHANGED sessionsVars
  <2>1. SessionsTypes' /\ UNCHANGED <<report, unshown, log, after, owed, status>>
    BY <1>0, <1>1 DEF sessionsVars, SessionsTypes
  <2>2. QED
    BY <2>1, TableSeen
<1>2. ASSUME NEW d \in Defs, Define(d)
      PROVE  SeenInv'
  <2>1. redefined' \in [Traces -> BOOLEAN]
    BY <1>0, <1>2 DEF Define, Running
  <2>2. SessionsTypes' /\ UNCHANGED <<report, unshown, log, after, owed, status>>
    BY <1>0, <1>2, <2>1 DEF Define, SessionsTypes
  <2>3. QED
    BY <2>2, TableSeen
<1>3. ASSUME NEW t \in Traces, StartTrace(t)
      PROVE  SeenInv'
  <2>1. SessionsTypes' /\ UNCHANGED <<report, unshown, log, after, owed>>
    BY <1>0, <1>3 DEF StartTrace, SessionsTypes
  <2>2. \A q \in Traces : status[q] # "none" => status'[q] = status[q]
    BY <1>0, <1>3 DEF StartTrace
  <2>3. QED
    BY <2>1, <2>2, TableSeen
<1>4. ASSUME NEW t \in Traces, EndTrace(t)
      PROVE  SeenInv'
  <2>1. SessionsTypes' /\ UNCHANGED <<report, unshown, log, after, owed>>
    BY <1>0, <1>4 DEF EndTrace, SessionsTypes
  <2>2. \A q \in Traces : status'[q] = status[q]
                          \/ (status[q] = "running" /\ status'[q] = "ended")
    BY <1>0, <1>4 DEF EndTrace
  <2>3. QED
    BY <2>1, <2>2, TableSeen
<1>5. ASSUME NEW c \in Reports, CopyRunning(c)
      PROVE  SeenInv'
  <2>1. Running \cap Protocol \in SUBSET Traces /\ Running \ Protocol \in SUBSET Traces
    BY DEF Running
  <2>2. UNCHANGED <<def, status, idx, blamed, log, redefined, after, owed>>
    BY <1>5 DEF CopyRunning, sessionsTable
  <2>3. CASE /\ report[c].at = "begun"
             /\ report' = [report EXCEPT ![c].at = "protocols"]
             /\ unshown' = [unshown EXCEPT ![c] = Running \cap Protocol]
    BY <2>1, <2>2, <2>3, MoveSeen
  <2>4. CASE /\ report[c].at = "protocols" /\ unshown[c] = {}
             /\ report' = [report EXCEPT ![c].at = "sessions"]
             /\ unshown' = [unshown EXCEPT ![c] = Running \ Protocol]
    BY <2>1, <2>2, <2>4, MoveSeen
  <2>5. QED
    BY <1>5, <2>3, <2>4 DEF CopyRunning
<1>6. ASSUME NEW c \in Reports, EndReport(c)
      PROVE  SeenInv'
  <2>1. /\ report[c].at = "sessions" /\ unshown[c] = {}
        /\ report' = [report EXCEPT ![c].at = "returned"] /\ unshown' = unshown
        /\ UNCHANGED <<def, status, idx, blamed, log, redefined, after, owed>>
    BY <1>6 DEF EndReport, sessionsTable
  <2>2. unshown' = [unshown EXCEPT ![c] = {}] /\ {} \in SUBSET Traces
    BY <1>0, <2>1
  <2>3. QED
    BY <2>1, <2>2, MoveSeen
<1>7. QED
  BY <1>1, <1>2, <1>3, <1>4, <1>5, <1>6, BeginSeen, ObserveSeen DEF SessionsNext

LEMMA SeenStart == SessionsInit => SeenInv
<1> SUFFICES ASSUME SessionsInit PROVE SeenInv
  OBVIOUS
<1>1. PICK p \in Plans : report = [c \in Reports |-> [at |-> "unmade",
                                   label |-> p[c].label, fits |-> p[c].fits]]
  BY DEF SessionsInit
<1>2. p \in [Reports -> [label : Labels, fits : BOOLEAN]]
  BY SessionsAssumption
<1>3. \A c \in Reports : p[c].label \in Labels /\ p[c].fits \in BOOLEAN
  BY <1>2
<1>4. report \in [Reports -> [at : {"unmade", "begun", "protocols",
                                "sessions", "returned"},
                          label : Labels, fits : BOOLEAN]]
      /\ \A c \in Reports : report[c].at = "unmade"
  BY <1>1, <1>3
<1>5. SessionsTypes
  BY <1>4 DEF SessionsInit, SessionsTypes
<1>6. /\ \A c \in Reports : StageInv(c)
      /\ \A t \in Traces, c \in Reports : ShownInv(t, c)
      /\ \A t \in Traces : OrderInv(t)
      /\ AfterInv
  BY <1>4 DEF SessionsInit, StageInv, ShownInv, Shown, OrderInv, AfterInv
<1>7. QED
  BY <1>5, <1>6 DEF SeenInv

\* A trace that runs from before a report begins until after it has returned is
\* shown it once, and reports of which one followed the other in that order:
\* for any reports, traces, definitions and races.
THEOREM SessionsReportsSeen == SessionsSpec => []ReportsSeenInOrder
<1>1. SeenInv => ReportsSeenInOrder
  <2> SUFFICES ASSUME SeenInv, NEW t \in Running
               PROVE  /\ \A c \in Returned : t \in owed[c] =>
                           \E i \in DOMAIN log[t] : \A j \in DOMAIN log[t] :
                             log[t][j] = c <=> i = j
                      /\ \A i, j \in DOMAIN log[t] :
                           <<log[t][j], log[t][i]>> \in after => j < i
    BY DEF ReportsSeenInOrder
  <2>1. t \in Traces /\ status[t] = "running" /\ OrderInv(t)
    BY DEF Running, SeenInv
  <2>2. ASSUME NEW c \in Returned, t \in owed[c]
        PROVE  \E i \in DOMAIN log[t] : \A j \in DOMAIN log[t] :
                 log[t][j] = c <=> i = j
    <3>1. c \in Reports /\ report[c].at = "returned"
      BY DEF Returned
    <3>2. ShownInv(t, c) /\ StageInv(c) /\ Copied(t, c)
      BY <2>1, <3>1 DEF SeenInv, Copied
    <3>3. Shown(t, c)
      BY <2>1, <2>2, <3>1, <3>2 DEF ShownInv, StageInv
    <3>4. QED
      BY <2>1, <3>3 DEF Shown, OrderInv
  <2>3. QED
    BY <2>1, <2>2 DEF OrderInv
<1>2. QED
  BY <1>1, SeenStart, SeenStep, PTL DEF SessionsSpec

-----------------------------------------------------------------------------
(* Sessions: what the cursors say.  The greedy walk of protocol_observe is *)
(* right because the first k + 1 steps can be found in a log that got one  *)
(* entry longer when they could be found before, or when the entry is the  *)
(* last of them and the k others could.                                    *)

\* The first k steps of d can be found in u, in order.
Walks(d, k, u) ==
  \E f \in [1 .. k -> DOMAIN u] :
    /\ \A i \in 1 .. k : d[i] = u[f[i]]
    /\ \A i, j \in 1 .. k : i < j => f[i] < f[j]

LEMMA WalksIsWithin ==
  ASSUME NEW d \in Seq(Labels), NEW k \in 0 .. Len(d), NEW u
  PROVE  Within(SubSeq(d, 1, k), u) <=> Walks(d, k, u)
<1> DEFINE s == SubSeq(d, 1, k)
<1>1. DOMAIN s = 1 .. k /\ \A i \in 1 .. k : s[i] = d[i]
  OBVIOUS
<1> HIDE DEF s
<1>2. Within(s, u) <=> Walks(d, k, u)
  BY <1>1 DEF Within, Walks
<1>3. QED
  BY <1>2 DEF s

LEMMA WalksNone == ASSUME NEW d, NEW u PROVE Walks(d, 0, u)
<1>1. 1 .. 0 = {} /\ [i \in {} |-> i] \in [{} -> DOMAIN u]
  OBVIOUS
<1>2. QED
  BY <1>1 DEF Walks

LEMMA WalksInEmpty ==
  ASSUME NEW d, NEW k \in Nat, k > 0 PROVE ~Walks(d, k, <<>>)
<1>1. DOMAIN <<>> = {} /\ 1 \in 1 .. k
  OBVIOUS
<1>2. QED
  BY <1>1 DEF Walks

LEMMA WalksAppend ==
  ASSUME NEW d, NEW k \in Nat, NEW u \in Seq(Labels), NEW l \in Labels
  PROVE  Walks(d, k + 1, Append(u, l)) <=>
           Walks(d, k + 1, u) \/ (d[k + 1] = l /\ Walks(d, k, u))
<1> DEFINE v == Append(u, l)
           n == Len(u) + 1
<1>1. /\ n \in Nat /\ n \notin DOMAIN u /\ DOMAIN v = DOMAIN u \cup {n}
      /\ v[n] = l
      /\ \A i \in DOMAIN u : v[i] = u[i] /\ i \in Nat /\ i < n
  OBVIOUS
<1>2. /\ k + 1 \in Nat /\ 1 .. k + 1 = (1 .. k) \cup {k + 1}
      /\ k + 1 \notin 1 .. k /\ \A i \in 1 .. k : i < k + 1 /\ ~(k + 1 < i)
  OBVIOUS
<1> HIDE DEF v, n
<1>3. ASSUME Walks(d, k + 1, u) PROVE Walks(d, k + 1, v)
  <2>1. PICK f \in [1 .. k + 1 -> DOMAIN u] :
          /\ \A i \in 1 .. k + 1 : d[i] = u[f[i]]
          /\ \A i, j \in 1 .. k + 1 : i < j => f[i] < f[j]
    BY <1>3 DEF Walks
  <2>2. f \in [1 .. k + 1 -> DOMAIN v]
    BY <1>1
  <2>3. \A i \in 1 .. k + 1 : f[i] \in DOMAIN u
    OBVIOUS
  <2>4. QED
    BY <1>1, <2>1, <2>2, <2>3 DEF Walks
<1>4. ASSUME d[k + 1] = l, Walks(d, k, u) PROVE Walks(d, k + 1, v)
  <2>1. PICK f \in [1 .. k -> DOMAIN u] :
          /\ \A i \in 1 .. k : d[i] = u[f[i]]
          /\ \A i, j \in 1 .. k : i < j => f[i] < f[j]
    BY <1>4 DEF Walks
  <2> DEFINE g == [i \in 1 .. k + 1 |-> IF i = k + 1 THEN n ELSE f[i]]
  <2>2. \A i \in 1 .. k : f[i] \in DOMAIN u /\ g[i] = f[i] /\ i # k + 1
    BY <1>2
  <2>3. g[k + 1] = n /\ g \in [1 .. k + 1 -> DOMAIN v]
    BY <1>1, <1>2, <2>2
  <2> HIDE DEF g
  <2>4. \A i \in 1 .. k + 1 : d[i] = v[g[i]]
    BY <1>1, <1>2, <1>4, <2>1, <2>2, <2>3
  <2>5. ASSUME NEW i \in 1 .. k + 1, NEW j \in 1 .. k + 1, i < j
        PROVE  g[i] < g[j]
    <3>1. i \in 1 .. k
      BY <1>2, <2>5
    <3>2. CASE j = k + 1
      BY <1>1, <2>2, <2>3, <3>1, <3>2
    <3>3. CASE j \in 1 .. k
      BY <2>1, <2>2, <2>5, <3>1, <3>3
    <3>4. QED
      BY <1>2, <3>2, <3>3
  <2>6. QED
    BY <2>3, <2>4, <2>5 DEF Walks
<1>5. ASSUME Walks(d, k + 1, v)
      PROVE  Walks(d, k + 1, u) \/ (d[k + 1] = l /\ Walks(d, k, u))
  <2>1. PICK f \in [1 .. k + 1 -> DOMAIN v] :
          /\ \A i \in 1 .. k + 1 : d[i] = v[f[i]]
          /\ \A i, j \in 1 .. k + 1 : i < j => f[i] < f[j]
    BY <1>5 DEF Walks
  <2>2. \A i \in 1 .. k + 1 : f[i] \in DOMAIN u \/ f[i] = n
    BY <1>1
  <2>3. \A i \in 1 .. k : f[i] < f[k + 1]
    BY <1>2, <2>1
  <2>4. \A i \in 1 .. k : f[i] \in DOMAIN u
    <3>1. ASSUME NEW i \in 1 .. k, f[i] = n PROVE FALSE
      <4>1. n < f[k + 1] /\ (f[k + 1] = n \/ (f[k + 1] \in Nat /\ f[k + 1] < n))
        BY <1>1, <1>2, <2>2, <2>3, <3>1
      <4>2. QED
        BY <1>1, <4>1
    <3>2. QED
      BY <1>2, <2>2, <3>1
  <2>5. CASE f[k + 1] \in DOMAIN u
    <3>1. f \in [1 .. k + 1 -> DOMAIN u]
      BY <1>2, <2>4, <2>5
    <3>2. \A i \in 1 .. k + 1 : d[i] = u[f[i]]
      BY <1>1, <1>2, <2>1, <2>4, <2>5
    <3>3. QED
      BY <2>1, <3>1, <3>2 DEF Walks
  <2>6. CASE f[k + 1] = n
    <3> DEFINE g == [i \in 1 .. k |-> f[i]]
    <3>1. g \in [1 .. k -> DOMAIN u] /\ \A i \in 1 .. k : g[i] = f[i]
      BY <2>4
    <3> HIDE DEF g
    <3>2. \A i \in 1 .. k : d[i] = u[g[i]]
      BY <1>1, <1>2, <2>1, <2>4, <3>1
    <3>3. \A i, j \in 1 .. k : i < j => g[i] < g[j]
      BY <1>2, <2>1, <3>1
    <3>4. Walks(d, k, u)
      BY <3>1, <3>2, <3>3 DEF Walks
    <3>5. d[k + 1] = l
      BY <1>1, <1>2, <2>1, <2>6
    <3>6. QED
      BY <3>4, <3>5
  <2>7. QED
    BY <1>2, <2>2, <2>5, <2>6
<1>6. QED
  BY <1>3, <1>4, <1>5 DEF v

\* A session that blames nobody has been shown u, its first steps, well typed.
FirstSteps(d, u) == Len(u) <= Len(d) /\ \A i \in 1 .. Len(u) : u[i] = d[i]

LEMMA FirstStepsArePrefix ==
  ASSUME NEW d \in Seq(Labels), NEW u \in Seq(Labels)
  PROVE  IsPrefix(u, d) <=> FirstSteps(d, u)
<1>1. SubSeq(u, 1, Len(u)) = u
  OBVIOUS
<1>2. ASSUME Len(u) <= Len(d)
      PROVE  SubSeq(d, 1, Len(u)) = u <=> \A i \in 1 .. Len(u) : u[i] = d[i]
  <2> DEFINE s == SubSeq(d, 1, Len(u))
  <2>1. s \in Seq(Labels) /\ Len(s) = Len(u) /\ \A i \in 1 .. Len(u) : s[i] = d[i]
    BY <1>2
  <2> HIDE DEF s
  <2>2. s = u <=> \A i \in 1 .. Len(u) : s[i] = u[i]
    BY <2>1
  <2>3. QED
    BY <2>1, <2>2 DEF s
<1>3. QED
  BY <1>1, <1>2 DEF IsPrefix, FirstSteps

Fitting(s) == \A i \in DOMAIN s : report[s[i]].fits

\* What is true of the cursor of a trace: while nobody has redefined it,
CursorRight(t) ==
  IF t \in Protocol
    THEN \A k \in 0 .. Len(def) : Walks(def, k, LabelsOf(t)) <=> k <= idx[t]
    ELSE /\ idx[t] <= Len(log[t])
         /\ blamed[t] = 0 <=> /\ idx[t] = Len(log[t])
                              /\ FirstSteps(def, LabelsOf(t))
                              /\ Fitting(log[t])

CursorInv ==
  /\ SeenInv
  /\ \A t \in Traces :
       /\ status[t] = "none" => log[t] = <<>> /\ idx[t] = 0 /\ blamed[t] = 0
       /\ status[t] = "running" /\ ~redefined[t] => CursorRight(t)

LEMMA LabelsTyped ==
  ASSUME SessionsTypes, NEW t \in Traces
  PROVE  /\ LabelsOf(t) \in Seq(Labels) /\ Len(LabelsOf(t)) = Len(log[t])
         /\ DOMAIN LabelsOf(t) = 1 .. Len(log[t])
         /\ \A i \in 1 .. Len(log[t]) : LabelsOf(t)[i] = report[log[t][i]].label
         /\ def \in Seq(Labels) /\ Len(def) \in Nat
<1>1. log[t] \in Seq(Reports) /\ DOMAIN log[t] = 1 .. Len(log[t])
      /\ Len(log[t]) \in Nat
      /\ \A i \in 1 .. Len(log[t]) : log[t][i] \in Reports
  BY DEF SessionsTypes
<1>2. \A c \in Reports : report[c].label \in Labels
  BY DEF SessionsTypes
<1>3. def \in Seq(Labels) /\ Len(def) \in Nat
  BY SessionsAssumption DEF SessionsTypes
<1>4. LabelsOf(t) = [i \in 1 .. Len(log[t]) |-> report[log[t][i]].label]
  BY <1>1 DEF LabelsOf
<1>5. \A i \in 1 .. Len(log[t]) : report[log[t][i]].label \in Labels
  BY <1>1, <1>2
<1>6. QED
  BY <1>1, <1>3, <1>4, <1>5

\* The reports keep what they report; so the labels of a log stay what they are.
LEMMA LabelsStay ==
  ASSUME SessionsTypes, NEW t \in Traces, log'[t] = log[t],
         \A c \in Reports : report'[c].label = report[c].label /\ report'[c].fits = report[c].fits
  PROVE  LabelsOf(t)' = LabelsOf(t) /\ (Fitting(log[t])' <=> Fitting(log[t]))
<1>1. \A i \in DOMAIN log[t] : log[t][i] \in Reports
  BY DEF SessionsTypes
<1>2. QED
  BY <1>1 DEF LabelsOf, Fitting

\* The cursor of a trace whose log, cursor and definition do not change.
LEMMA CursorStays ==
  ASSUME CursorInv, SeenInv', UNCHANGED <<log, idx, blamed>>,
         \A c \in Reports : report'[c].label = report[c].label /\ report'[c].fits = report[c].fits,
         \A t \in Traces : status'[t] = "none" => status[t] = "none",
         \A t \in Traces : status'[t] = "running" /\ ~redefined'[t] =>
           /\ status[t] = "none"
              \/ (status[t] = "running" /\ ~redefined[t] /\ def' = def)
  PROVE  CursorInv'
<1>0. SessionsTypes /\ SessionsTypes'
  BY DEF CursorInv, SeenInv
<1>1. ASSUME NEW t \in Traces, status'[t] = "running", ~redefined'[t]
      PROVE  CursorRight(t)'
  <2>1. LabelsOf(t)' = LabelsOf(t) /\ (Fitting(log[t])' <=> Fitting(log[t]))
    BY <1>0, LabelsStay
  <2>2. CASE status[t] = "running" /\ ~redefined[t] /\ def' = def
    BY <2>1, <2>2 DEF CursorInv, CursorRight
  <2>3. CASE status[t] = "none"
    <3>1. log'[t] = <<>> /\ idx'[t] = 0 /\ blamed'[t] = 0
      BY <2>3 DEF CursorInv
    <3>2. LabelsOf(t)' = <<>>
      BY <3>1 DEF LabelsOf
    <3>3. def' \in Seq(Labels) /\ Len(def') \in Nat
      BY <1>0, SessionsAssumption DEF SessionsTypes
    <3>4. ASSUME NEW k \in 0 .. Len(def')
          PROVE  Walks(def', k, <<>>) <=> k <= 0
      BY <3>3, WalksNone, WalksInEmpty
    <3>5. FirstSteps(def', <<>>) /\ Fitting(<<>>)'
      BY <3>3 DEF FirstSteps, Fitting
    <3>6. Len(log'[t]) = 0
      BY <3>1
    <3>7. CASE t \in Protocol
      BY <3>1, <3>2, <3>4, <3>7 DEF CursorRight
    <3>8. CASE t \notin Protocol
      <4>1. Fitting(log[t])'
        BY <3>1, <3>5 DEF Fitting
      <4>2. QED
        BY <3>1, <3>2, <3>5, <3>6, <3>8, <4>1 DEF CursorRight
    <3>9. QED
      BY <3>7, <3>8
  <2>4. QED
    BY <1>1, <2>2, <2>3
<1>2. QED
  BY <1>1 DEF CursorInv

\* A log with one report more, and its labels.
LEMMA LabelsGrow ==
  ASSUME SessionsTypes, NEW t \in Traces, NEW c \in Reports,
         log'[t] = Append(log[t], c), UNCHANGED report
  PROVE  LabelsOf(t)' = Append(LabelsOf(t), report[c].label)
<1> DEFINE n == Len(log[t]) + 1
           m == Append(log[t], c)
           u == LabelsOf(t)
           l == report[c].label
           v == Append(u, l)
<1>1. log[t] \in Seq(Reports) /\ l \in Labels
  BY DEF SessionsTypes
<1>2. /\ DOMAIN m = 1 .. n /\ n \in Nat /\ m[n] = c
      /\ \A i \in 1 .. Len(log[t]) : m[i] = log[t][i]
      /\ 1 .. n = (1 .. Len(log[t])) \cup {n}
  BY <1>1
<1>3. /\ u \in Seq(Labels) /\ Len(u) = Len(log[t])
      /\ \A i \in 1 .. Len(log[t]) : u[i] = report[log[t][i]].label
  BY LabelsTyped
<1>4. LabelsOf(t)' = [i \in 1 .. n |-> report[m[i]].label]
  BY <1>2 DEF LabelsOf
<1> HIDE DEF m, u, l
<1>5. /\ v \in Seq(Labels) /\ Len(v) = n /\ v[n] = l
      /\ \A i \in 1 .. Len(log[t]) : v[i] = u[i]
  BY <1>1, <1>3
<1> HIDE DEF v
<1>6. v = [i \in 1 .. n |-> v[i]]
  BY <1>5
<1>7. \A i \in 1 .. n : v[i] = report[m[i]].label
  BY <1>2, <1>3, <1>5 DEF l
<1>8. v = LabelsOf(t)'
  BY <1>4, <1>6, <1>7
<1>9. QED
  BY <1>8 DEF u, l, v

\* protocol_observe of a running trace.
LEMMA ProtocolRight ==
  ASSUME SessionsTypes, NEW t \in Traces, NEW c \in Reports,
         status[t] = "running", CursorRight(t), ProtocolObserve(t, c),
         UNCHANGED <<report, def>>
  PROVE  CursorRight(t)'
<1>1. /\ log[t] \in Seq(Reports) /\ idx[t] \in Nat /\ report[c].label \in Labels
      /\ log \in [Traces -> Seq(Reports)] /\ idx \in [Traces -> Nat]
  BY DEF SessionsTypes
<1>2. /\ t \in Protocol /\ log'[t] = Append(log[t], c)
      /\ idx'[t] = IF Matches(t, c) THEN idx[t] + 1 ELSE idx[t]
  BY <1>1 DEF ProtocolObserve
<1> DEFINE u == LabelsOf(t)
           l == report[c].label
<1>3. /\ u \in Seq(Labels) /\ Len(u) = Len(log[t]) /\ DOMAIN u = 1 .. Len(log[t])
      /\ \A i \in 1 .. Len(log[t]) : u[i] = report[log[t][i]].label
      /\ def \in Seq(Labels) /\ Len(def) \in Nat
  BY LabelsTyped
<1>4. LabelsOf(t)' = Append(u, l)
  BY <1>2, LabelsGrow
<1>5. \A k \in 0 .. Len(def) : Walks(def, k, u) <=> k <= idx[t]
  BY <1>2 DEF CursorRight
<1> HIDE DEF u
<1>6. ASSUME NEW k \in 0 .. Len(def)
      PROVE  Walks(def, k, Append(u, l)) <=> k <= idx'[t]
  <2>1. CASE k = 0
    BY <1>1, <1>2, <2>1, WalksNone
  <2>2. CASE k > 0
    <3> DEFINE j == k - 1
    <3>1. j \in Nat /\ k = j + 1 /\ j \in 0 .. Len(def) /\ k \in 1 .. Len(def)
      BY <1>3, <2>2
    <3> HIDE DEF j
    <3>2. Walks(def, k, Append(u, l)) <=>
            Walks(def, k, u) \/ (def[k] = l /\ Walks(def, j, u))
      <4>1. Walks(def, j + 1, Append(u, l)) <=>
              Walks(def, j + 1, u) \/ (def[j + 1] = l /\ Walks(def, j, u))
        BY <1>1, <1>3, <3>1, WalksAppend
      <4>2. QED
        BY <3>1, <4>1
    <3>3. (Walks(def, k, u) <=> k <= idx[t]) /\ (Walks(def, j, u) <=> j <= idx[t])
      BY <1>5, <3>1
    <3>4. Matches(t, c) <=> idx[t] < Len(def) /\ def[idx[t] + 1] = l
      BY DEF Matches
    <3>5. CASE k <= idx[t]
      BY <1>1, <1>2, <3>1, <3>2, <3>3, <3>5
    <3>6. CASE k = idx[t] + 1
      <4>1. j = idx[t] /\ idx[t] < Len(def) /\ ~(k <= idx[t])
        BY <1>1, <1>3, <3>1, <3>6
      <4>2. Walks(def, k, Append(u, l)) <=> Matches(t, c)
        BY <1>1, <3>2, <3>3, <3>4, <3>6, <4>1
      <4>3. k <= idx'[t] <=> Matches(t, c)
        BY <1>1, <1>2, <3>6
      <4>4. QED
        BY <4>2, <4>3
    <3>7. CASE k > idx[t] + 1
      <4>1. ~(j <= idx[t]) /\ ~(k <= idx[t]) /\ ~(k <= idx[t] + 1)
        BY <1>1, <3>1, <3>7
      <4>2. QED
        BY <1>2, <3>2, <3>3, <4>1
    <3>8. QED
      BY <1>1, <3>1, <3>5, <3>6, <3>7
  <2>3. QED
    BY <1>3, <2>1, <2>2
<1>7. QED
  BY <1>2, <1>4, <1>6 DEF CursorRight

\* session_check of a running trace.
LEMMA SessionRight ==
  ASSUME SessionsTypes, NEW t \in Traces, NEW c \in Reports,
         status[t] = "running", CursorRight(t), SessionCheck(t, c),
         UNCHANGED <<report, def>>
  PROVE  CursorRight(t)'
<1> DEFINE good == Matches(t, c) /\ report[c].fits
           u == LabelsOf(t)
           l == report[c].label
           n == Len(log[t])
<1>1. /\ log[t] \in Seq(Reports) /\ idx[t] \in Nat /\ blamed[t] \in Nat
      /\ l \in Labels /\ n \in Nat
      /\ log \in [Traces -> Seq(Reports)] /\ idx \in [Traces -> Nat]
      /\ blamed \in [Traces -> Nat]
  BY DEF SessionsTypes
<1>2. /\ t \notin Protocol /\ log'[t] = Append(log[t], c)
      /\ good => idx'[t] = idx[t] + 1 /\ blamed'[t] = blamed[t]
      /\ ~good => idx'[t] = idx[t] /\ blamed'[t] = blamed[t] + 1
  BY <1>1 DEF SessionCheck
<1>3. /\ u \in Seq(Labels) /\ Len(u) = n /\ def \in Seq(Labels) /\ Len(def) \in Nat
  BY LabelsTyped
<1>4. LabelsOf(t)' = Append(u, l)
  BY <1>2, LabelsGrow
<1>5. /\ Len(log'[t]) = n + 1 /\ DOMAIN log'[t] = 1 .. n + 1
      /\ 1 .. n + 1 = (1 .. n) \cup {n + 1} /\ DOMAIN log[t] = 1 .. n
      /\ log'[t][n + 1] = c /\ \A i \in 1 .. n : log'[t][i] = log[t][i]
  BY <1>1, <1>2
<1>6. Fitting(log[t])' <=> Fitting(log[t]) /\ report[c].fits
  BY <1>5 DEF Fitting
<1> HIDE DEF u, l
<1>7. /\ Len(Append(u, l)) = n + 1 /\ Append(u, l)[n + 1] = l
      /\ \A i \in 1 .. n : Append(u, l)[i] = u[i]
  BY <1>1, <1>3
<1>8. FirstSteps(def, Append(u, l)) <=>
        FirstSteps(def, u) /\ n < Len(def) /\ def[n + 1] = l
  <2>1. n + 1 <= Len(def) <=> n < Len(def)
    BY <1>1, <1>3
  <2>2. n < Len(def) => n <= Len(def)
    BY <1>1, <1>3
  <2>3. QED
    BY <1>3, <1>5, <1>7, <2>1, <2>2 DEF FirstSteps
<1> HIDE DEF n
<1>9. /\ idx[t] <= n
      /\ blamed[t] = 0 <=> idx[t] = n /\ FirstSteps(def, u) /\ Fitting(log[t])
  BY <1>2 DEF CursorRight, u, n
<1>10. good <=> idx[t] < Len(def) /\ def[idx[t] + 1] = l /\ report[c].fits
  BY DEF Matches, l
<1> HIDE DEF good
<1>11. /\ idx'[t] <= n + 1
       /\ blamed'[t] = 0 <=> /\ idx'[t] = n + 1
                             /\ FirstSteps(def, Append(u, l))
                             /\ Fitting(log[t])'
  <2>1. CASE good
    <3>1. idx'[t] <= n + 1 /\ (idx'[t] = n + 1 <=> idx[t] = n)
      BY <1>1, <1>2, <1>9, <2>1
    <3>2. idx[t] = n => n < Len(def) /\ def[n + 1] = l /\ report[c].fits
      BY <1>10, <2>1
    <3>3. QED
      BY <1>2, <1>6, <1>8, <1>9, <2>1, <3>1, <3>2
  <2>2. CASE ~good
    <3>1. idx'[t] <= n + 1 /\ idx'[t] # n + 1 /\ blamed'[t] # 0
      BY <1>1, <1>2, <1>9, <2>2
    <3>2. QED
      BY <3>1
  <2>3. QED
    BY <2>1, <2>2
<1>12. QED
  BY <1>2, <1>4, <1>5, <1>11 DEF CursorRight

LEMMA CursorStep == CursorInv /\ [SessionsNext]_sessionsVars => CursorInv'
<1> SUFFICES ASSUME CursorInv, [SessionsNext]_sessionsVars
             PROVE  CursorInv'
  OBVIOUS
<1>0. SeenInv /\ SeenInv' /\ SessionsTypes
  BY SeenStep DEF CursorInv, SeenInv
<1>t. /\ status \in [Traces -> {"none", "running", "ended"}]
      /\ redefined \in [Traces -> BOOLEAN]
  BY <1>0 DEF SessionsTypes
<1>1. CASE UNCHANGED sessionsVars
  BY <1>0, <1>1, CursorStays DEF sessionsVars
<1>2. ASSUME NEW d \in Defs, Define(d)
      PROVE  CursorInv'
  <2>1. \A t \in Traces : redefined'[t] = (redefined[t] \/ t \in Running)
    BY <1>2 DEF Define
  <2>2. \A t \in Traces : status'[t] = "running" => redefined'[t]
    BY <1>2, <2>1 DEF Define, Running
  <2>3. QED
    BY <1>0, <1>2, <2>2, CursorStays DEF Define
<1>3. ASSUME NEW t \in Traces, StartTrace(t)
      PROVE  CursorInv'
  <2>1. \A q \in Traces : (q = t /\ status[q] = "none") \/ status'[q] = status[q]
    BY <1>t, <1>3 DEF StartTrace
  <2>2. \A q \in Traces : status'[q] = "none" => status[q] = "none"
    BY <1>t, <1>3 DEF StartTrace
  <2>3. QED
    BY <1>0, <1>3, <2>1, <2>2, CursorStays DEF StartTrace
<1>4. ASSUME NEW t \in Traces, EndTrace(t)
      PROVE  CursorInv'
  <2>1. \A q \in Traces : (status'[q] = "ended") \/ status'[q] = status[q]
    BY <1>t, <1>4 DEF EndTrace
  <2>2. QED
    BY <1>0, <1>4, <2>1, CursorStays DEF EndTrace
<1>5. ASSUME NEW c \in Reports,
             \E s \in {"unmade", "begun", "protocols", "sessions", "returned"} :
               report' = [report EXCEPT ![c].at = s],
             UNCHANGED <<def, status, idx, blamed, log, redefined>>
      PROVE  CursorInv'
  <2>1. \A d \in Reports : report'[d].label = report[d].label
                         /\ report'[d].fits = report[d].fits
    BY <1>0, <1>5, StageMoves
  <2>2. QED
    BY <1>0, <1>5, <2>1, CursorStays
<1>6. ASSUME NEW c \in Reports, Observe(c)
      PROVE  CursorInv'
  <2>1. PICK t \in unshown[c] :
          /\ t \in Traces /\ status[t] # "none"
          /\ \/ log' = [log EXCEPT ![t] = Append(@, c)]
             \/ log' = log /\ status[t] = "ended"
          /\ UNCHANGED <<report, def, status, redefined, after, owed>>
          /\ ProtocolObserve(t, c) \/ SessionCheck(t, c)
    BY <1>0, <1>6, ObserveEffect
  <2>2. /\ log \in [Traces -> Seq(Reports)] /\ idx \in [Traces -> Nat]
        /\ blamed \in [Traces -> Nat]
    BY <1>0 DEF SessionsTypes
  <2>3. \A q \in Traces : q # t => /\ log'[q] = log[q] /\ idx'[q] = idx[q]
                                   /\ blamed'[q] = blamed[q]
    BY <2>1, <2>2 DEF ProtocolObserve, SessionCheck
  <2>4. ASSUME NEW q \in Traces, q # t
        PROVE  /\ status'[q] = "none" =>
                    log'[q] = <<>> /\ idx'[q] = 0 /\ blamed'[q] = 0
               /\ status'[q] = "running" /\ ~redefined'[q] => CursorRight(q)'
    <3>1. LabelsOf(q)' = LabelsOf(q) /\ (Fitting(log[q])' <=> Fitting(log[q]))
      BY <1>0, <2>1, <2>3, <2>4, LabelsStay
    <3>2. CursorRight(q) => CursorRight(q)'
      BY <2>1, <2>3, <2>4, <3>1 DEF CursorRight
    <3>3. QED
      BY <2>1, <2>3, <2>4, <3>2 DEF CursorInv
  <2>5. ASSUME status'[t] = "running", ~redefined'[t]
        PROVE  CursorRight(t)'
    <3>1. status[t] = "running" /\ CursorRight(t)
      BY <2>1, <2>5 DEF CursorInv
    <3>2. QED
      BY <1>0, <2>1, <3>1, ProtocolRight, SessionRight
  <2>6. QED
    BY <1>0, <2>1, <2>4, <2>5 DEF CursorInv
<1>7. ASSUME NEW c \in Reports, BeginReport(c)
      PROVE  CursorInv'
  BY <1>5, <1>7 DEF BeginReport, sessionsTable
<1>8. ASSUME NEW c \in Reports, CopyRunning(c)
      PROVE  CursorInv'
  BY <1>5, <1>8 DEF CopyRunning, sessionsTable
<1>9. ASSUME NEW c \in Reports, EndReport(c)
      PROVE  CursorInv'
  BY <1>5, <1>9 DEF EndReport, sessionsTable
<1>10. QED
  BY <1>1, <1>2, <1>3, <1>4, <1>6, <1>7, <1>8, <1>9 DEF SessionsNext

\* What the cursor of a running trace says is true of what it was shown: for
\* any definitions, reports and races, while its definition stands.
THEOREM SessionsCursorTruthful == SessionsSpec => []CursorTruthful
<1>1. SessionsInit => CursorInv
  BY SeenStart DEF SessionsInit, CursorInv
<1>2. CursorInv => CursorTruthful
  <2> SUFFICES ASSUME CursorInv, NEW t \in Traces,
                      ~redefined[t], status[t] = "running"
               PROVE  IF t \in Protocol
                        THEN \A k \in 0 .. Len(def) :
                               Within(SubSeq(def, 1, k), LabelsOf(t)) <=> k <= idx[t]
                        ELSE blamed[t] = 0 <=>
                               /\ idx[t] = Len(log[t])
                               /\ IsPrefix(LabelsOf(t), def)
                               /\ \A c \in Range(log[t]) : report[c].fits
    BY DEF CursorTruthful
  <2>1. CursorRight(t) /\ SessionsTypes
    BY DEF CursorInv, SeenInv
  <2>2. /\ LabelsOf(t) \in Seq(Labels) /\ def \in Seq(Labels)
    BY <2>1, LabelsTyped
  <2>3. CASE t \in Protocol
    BY <2>1, <2>2, <2>3, WalksIsWithin DEF CursorRight
  <2>4. CASE t \notin Protocol
    <3>1. IsPrefix(LabelsOf(t), def) <=> FirstSteps(def, LabelsOf(t))
      BY <2>2, FirstStepsArePrefix
    <3>2. Fitting(log[t]) <=> \A c \in Range(log[t]) : report[c].fits
      BY DEF Fitting, Range
    <3>3. QED
      BY <2>1, <2>4, <3>1, <3>2 DEF CursorRight
  <2>5. QED
    BY <2>3, <2>4
<1>3. QED
  BY <1>1, <1>2, CursorStep, PTL DEF SessionsSpec

-----------------------------------------------------------------------------
(***************************************************************************)
(* Why VerdictRight holds: the frontier is in the order of the depths and  *)
(* holds at most two of them, next to each other; every world that was     *)
(* found has the way it was found by, one step longer than that of its     *)
(* parent; and what follows a world that left the frontier was found, at   *)
(* most one step deeper.                                                   *)
(***************************************************************************)

\* w was found by the step of an actor from a world that was found before.
Linked(w) ==
  /\ visited[w] >= 1
  /\ parent[w] \in Found /\ visited[parent[w]] = visited[w] - 1
  /\ action[w] \in 1 .. NumActors /\ step[parent[w]][action[w]] = w

\* What follows w by the step of a is found, in time.
Followed(w, a) ==
  \/ step[w][a] = 0
  \/ step[w][a] \in Found /\ visited[step[w][a]] <= visited[w] + 1

ExplorerInv ==
  /\ ExplorerTypes
  /\ visited[Start] = 0
  /\ \A w \in Found : w = Start \/ Linked(w)
  /\ \A i \in DOMAIN frontier : frontier[i] \in Found
  /\ \A i, j \in DOMAIN frontier :
       i <= j => visited[frontier[i]] <= visited[frontier[j]]
  /\ frontier # <<>> =>
       /\ \A w \in Found : visited[w] <= visited[frontier[1]] + 1
       /\ \A a \in 1 .. turn - 1 : Followed(frontier[1], a)
  /\ \A w \in Found : visited[w] < depth =>
       \/ \E i \in DOMAIN frontier : frontier[i] = w
       \/ \A a \in 1 .. NumActors : Followed(w, a)

LEMMA ExplorerStart == ExplorerInit => ExplorerInv
<1> SUFFICES ASSUME ExplorerInit
             PROVE  ExplorerInv
  OBVIOUS
<1>1. /\ Start \in Worlds /\ frontier = <<Start>> /\ DOMAIN frontier = {1}
      /\ frontier[1] = Start /\ turn = 1 /\ depth \in Nat /\ depth >= 0
      /\ frontier \in Seq(Worlds)
  BY ExplorerAssumption DEF ExplorerInit
<1>2. /\ visited \in [Worlds -> -1 .. depth] /\ visited[Start] = 0
      /\ \A w \in Worlds : w # Start => visited[w] = -1
  BY <1>1 DEF ExplorerInit
<1>3. Found = {Start}
  BY <1>1, <1>2 DEF Found
<1>4. ExplorerTypes
  BY <1>1, <1>2, ExplorerAssumption DEF ExplorerInit, ExplorerTypes
<1>5. 1 .. turn - 1 = {}
  BY <1>1
<1>6. \A i, j \in DOMAIN frontier : i <= j => visited[frontier[i]] <= visited[frontier[j]]
  BY <1>1, <1>2
<1>7. \A w \in Found : visited[w] <= visited[frontier[1]] + 1
  <2>1. visited[Start] <= visited[Start] + 1
    BY <1>2
  <2>2. QED
    BY <1>1, <1>3, <2>1
<1>8. QED
  BY <1>1, <1>2, <1>3, <1>4, <1>5, <1>6, <1>7 DEF ExplorerInv

LEMMA PopFacts ==
  ASSUME ExplorerInv, Pop
  PROVE  ExplorerInv'
<1>1. /\ frontier \in Seq(Worlds) /\ frontier # <<>> /\ frontier' = Tail(frontier)
      /\ visited' = visited /\ parent' = parent /\ action' = action
      /\ step' = step /\ depth' = depth /\ turn' = 1 /\ turn \in Nat /\ NumActors \in Nat
      /\ turn \in 1 .. NumActors + 1 /\ depth \in Nat
      /\ \A w \in Found : visited[w] \in Nat
  BY ExplorerAssumption DEF ExplorerInv, ExplorerTypes, Pop, explorerTask, Found
<1>2. /\ DOMAIN frontier = 1 .. Len(frontier) /\ Len(frontier) \in Nat /\ 1 \in DOMAIN frontier
      /\ Head(frontier) = frontier[1]
  BY <1>1
<1>3. /\ frontier' \in Seq(Worlds)
      /\ \A i \in DOMAIN frontier' : i + 1 \in DOMAIN frontier /\ frontier'[i] = frontier[i + 1]
      /\ \A i \in DOMAIN frontier : i # 1 => i - 1 \in DOMAIN frontier'
                                             /\ frontier'[i - 1] = frontier[i]
  BY <1>1, <1>2
<1>4. Found' = Found /\ \A w \in Found, a \in 1 .. NumActors : Followed(w, a)' <=> Followed(w, a)
  BY <1>1 DEF Found, Followed
<1>5. ExplorerTypes'
  BY <1>1, <1>3 DEF ExplorerInv, ExplorerTypes
<1>6. \A w \in Found' : w = Start \/ Linked(w)'
  BY <1>1, <1>4 DEF ExplorerInv, Linked
<1>7. \A i \in DOMAIN frontier' : frontier'[i] \in Found'
  BY <1>3, <1>4 DEF ExplorerInv
<1>8. ASSUME NEW i \in DOMAIN frontier', NEW j \in DOMAIN frontier', i <= j
      PROVE  visited'[frontier'[i]] <= visited'[frontier'[j]]
  <2>1. i \in Nat /\ j \in Nat
    BY <1>3
  <2>2. i + 1 <= j + 1
    BY <1>8, <2>1
  <2>3. visited[frontier[i + 1]] <= visited[frontier[j + 1]]
    BY <1>3, <2>2 DEF ExplorerInv
  <2>4. QED
    BY <1>1, <1>3, <2>3
<1>9. ASSUME frontier' # <<>>
      PROVE  /\ \A w \in Found' : visited'[w] <= visited'[frontier'[1]] + 1
             /\ \A a \in 1 .. turn' - 1 : Followed(frontier[1], a)'
  <2>1. 1 \in DOMAIN frontier' /\ 2 \in DOMAIN frontier /\ frontier'[1] = frontier[2]
    BY <1>3, <1>9
  <2>2. visited[frontier[1]] <= visited[frontier[2]]
    BY <1>2, <2>1 DEF ExplorerInv
  <2>3. frontier[1] \in Found /\ frontier[2] \in Found
    BY <1>2, <2>1 DEF ExplorerInv
  <2>4. ASSUME NEW w \in Found
        PROVE  visited[w] <= visited[frontier[2]] + 1
    <3>1. /\ visited[w] \in Nat /\ visited[frontier[1]] \in Nat
          /\ visited[frontier[2]] \in Nat
          /\ visited[w] <= visited[frontier[1]] + 1
      BY <1>1, <2>3 DEF ExplorerInv
    <3>2. QED
      BY <2>2, <3>1
  <2>5. 1 .. turn' - 1 = {}
    BY <1>1
  <2>6. QED
    BY <1>1, <1>4, <2>1, <2>4, <2>5
<1>10. ASSUME NEW w \in Found', visited'[w] < depth'
       PROVE  \/ \E i \in DOMAIN frontier' : frontier'[i] = w
              \/ \A a \in 1 .. NumActors : Followed(w, a)'
  <2>1. w \in Found /\ visited[w] < depth
    BY <1>1, <1>4, <1>10
  <2>2. \/ \E i \in DOMAIN frontier : frontier[i] = w
        \/ \A a \in 1 .. NumActors : Followed(w, a)
    BY <2>1 DEF ExplorerInv
  <2>3. CASE \E i \in DOMAIN frontier : i # 1 /\ frontier[i] = w
    BY <1>3, <2>3
  <2>4. CASE frontier[1] = w
    <3>1. ~ (visited[w] >= depth)
      BY <1>1, <2>1
    <3>2. turn > NumActors
      BY <1>2, <2>4, <3>1 DEF Pop
    <3>3. turn - 1 = NumActors
      BY <1>1, <3>2
    <3>4. \A a \in 1 .. NumActors : Followed(w, a)
      BY <1>1, <2>4, <3>3 DEF ExplorerInv
    <3>5. QED
      BY <1>4, <2>1, <3>4
  <2>5. CASE \A a \in 1 .. NumActors : Followed(w, a)
    BY <1>4, <2>1, <2>5
  <2>6. QED
    BY <2>2, <2>3, <2>4, <2>5
<1>11. QED
  BY <1>1, <1>5, <1>6, <1>7, <1>8, <1>9, <1>10 DEF ExplorerInv

\* A step that finds nothing new.
LEMMA ExploreOld ==
  ASSUME ExplorerInv, Explore, step[frontier[1]][turn] \in Found \cup {0}
  PROVE  ExplorerInv'
<1>1. /\ frontier \in Seq(Worlds) /\ frontier # <<>> /\ Head(frontier) = frontier[1]
      /\ turn \in 1 .. NumActors + 1 /\ NumActors \in Nat /\ turn <= NumActors
      /\ 1 \in DOMAIN frontier
  BY ExplorerAssumption DEF ExplorerInv, ExplorerTypes, Explore
<1>2. /\ visited' = visited /\ parent' = parent /\ action' = action
      /\ step' = step /\ depth' = depth /\ turn' = turn + 1 /\ frontier' = frontier
  BY <1>1 DEF Explore, explorerTask
<1>3. /\ turn' \in 1 .. NumActors + 1
      /\ \A a \in 1 .. turn' - 1 : a = turn \/ a \in 1 .. turn - 1
  BY <1>1, <1>2
<1>4. /\ Found' = Found
      /\ \A w, a : Followed(w, a)' <=> Followed(w, a)
      /\ \A w : Linked(w)' <=> Linked(w)
  BY <1>2 DEF Found, Followed, Linked
<1>5. Followed(frontier[1], turn)
  <2>1. frontier[1] \in Found
    BY <1>1 DEF ExplorerInv
  <2>2. step[frontier[1]][turn] \in Found =>
          visited[step[frontier[1]][turn]] <= visited[frontier[1]] + 1
    BY <1>1 DEF ExplorerInv
  <2>3. QED
    BY <2>2 DEF Followed
<1>6. ASSUME NEW a \in 1 .. turn' - 1
      PROVE  Followed(frontier[1], a)'
  <2>1. Followed(frontier[1], a)
    BY <1>1, <1>3, <1>5 DEF ExplorerInv
  <2>2. QED
    BY <1>2, <2>1 DEF Followed, Found
<1>7. ExplorerTypes'
  BY <1>2, <1>3 DEF ExplorerInv, ExplorerTypes
<1>8. \A w \in Found' : visited'[w] < depth' =>
        \/ \E i \in DOMAIN frontier' : frontier'[i] = w
        \/ \A a \in 1 .. NumActors : Followed(w, a)'
  BY <1>2, <1>4 DEF ExplorerInv
<1>9. /\ visited'[Start] = 0
      /\ \A w \in Found' : w = Start \/ Linked(w)'
      /\ \A i \in DOMAIN frontier' : frontier'[i] \in Found'
      /\ \A i, j \in DOMAIN frontier' :
           i <= j => visited'[frontier'[i]] <= visited'[frontier'[j]]
      /\ \A w \in Found' : visited'[w] <= visited'[frontier'[1]] + 1
  BY <1>1, <1>2, <1>4 DEF ExplorerInv
<1>10. QED
  BY <1>6, <1>7, <1>8, <1>9 DEF ExplorerInv

\* A step that finds a world: it goes to the end of the frontier.
LEMMA ExploreNew ==
  ASSUME ExplorerInv, Explore, NEW w0, w0 = frontier[1], NEW c, c = step[w0][turn],
         c \notin Found \cup {0}, NEW v, v = visited[w0], NEW n, n = Len(frontier)
  PROVE  ExplorerInv'
<1>1. /\ frontier \in Seq(Worlds) /\ frontier # <<>> /\ Head(frontier) = w0
      /\ turn \in 1 .. NumActors + 1 /\ NumActors \in Nat /\ turn <= NumActors
      /\ n \in Nat /\ n >= 1 /\ DOMAIN frontier = 1 .. n /\ turn \in 1 .. NumActors
  BY ExplorerAssumption DEF ExplorerInv, ExplorerTypes, Explore
<1>2. /\ w0 \in Found /\ w0 \in Worlds /\ v \in Nat /\ v < depth /\ depth \in Nat
      /\ step[w0] \in [1 .. NumActors -> Worlds \cup {0}]
  <2>1. w0 \in Found /\ w0 \in Worlds
    BY <1>1 DEF ExplorerInv, Found
  <2>2. v < depth /\ depth \in Nat
    BY <1>1 DEF Explore, ExplorerInv, ExplorerTypes
  <2>3. v \in -1 .. depth /\ v >= 0
    BY <2>1 DEF ExplorerInv, ExplorerTypes, Found
  <2>4. step[w0] \in [1 .. NumActors -> Worlds \cup {0}]
    BY <2>1 DEF ExplorerInv, ExplorerTypes
  <2>5. v \in Nat
    BY <2>2, <2>3
  <2>6. QED
    BY <2>1, <2>2, <2>4, <2>5
<1>3. c \in Worlds /\ c \notin Found /\ c # 0
  BY <1>1, <1>2
<1>4. /\ visited' = [visited EXCEPT ![c] = v + 1]
      /\ parent' = [parent EXCEPT ![c] = w0]
      /\ action' = [action EXCEPT ![c] = turn]
      /\ frontier' = Append(frontier, c)
      /\ step' = step /\ depth' = depth /\ turn' = turn + 1
  BY <1>1, <1>3 DEF Explore, explorerTask
<1>5. /\ visited \in [Worlds -> -1 .. depth] /\ parent \in [Worlds -> Worlds \cup {0}]
      /\ action \in [Worlds -> 0 .. NumActors]
  BY DEF ExplorerInv, ExplorerTypes
<1>6. v + 1 \in -1 .. depth /\ v + 1 >= 0 /\ v + 1 \in Nat /\ v + 1 >= 1
  BY <1>2
<1>7. /\ visited'[c] = v + 1 /\ parent'[c] = w0 /\ action'[c] = turn
      /\ \A w \in Worlds : w # c => /\ visited'[w] = visited[w] /\ parent'[w] = parent[w]
                                    /\ action'[w] = action[w]
  BY <1>3, <1>4, <1>5
<1>8. /\ Found' = Found \cup {c} /\ Found \subseteq Worlds
      /\ \A w \in Found : w # c /\ visited[w] \in Nat /\ visited[w] <= v + 1
      /\ \A w \in Found : visited'[w] = visited[w]
  <2>1. \A w \in Found : w # c /\ visited[w] \in Nat
    BY <1>2, <1>3, <1>5 DEF Found
  <2>2. \A w \in Found : visited[w] <= v + 1
    BY <1>1 DEF ExplorerInv
  <2>3. Found' = Found \cup {c} /\ Found \subseteq Worlds
    BY <1>3, <1>6, <1>7 DEF Found
  <2>4. QED
    BY <1>7, <2>1, <2>2, <2>3
<1>9. /\ frontier' \in Seq(Worlds) /\ DOMAIN frontier' = 1 .. n + 1 /\ frontier'[n + 1] = c
      /\ \A i \in 1 .. n : frontier'[i] = frontier[i] /\ i \in DOMAIN frontier'
      /\ n + 1 \in DOMAIN frontier'
  BY <1>1, <1>3, <1>4
<1>10. ExplorerTypes'
  <2>1. turn' \in 1 .. NumActors + 1
    BY <1>1, <1>4
  <2>2. visited' \in [Worlds -> -1 .. depth]
    BY <1>4, <1>5, <1>6
  <2>3. parent' \in [Worlds -> Worlds \cup {0}]
    BY <1>2, <1>4, <1>5
  <2>4. turn \in 0 .. NumActors
    BY <1>1
  <2>5. action' \in [Worlds -> 0 .. NumActors]
    BY <1>4, <1>5, <2>4
  <2>6. QED
    BY <1>4, <1>9, <2>1, <2>2, <2>3, <2>5 DEF ExplorerInv, ExplorerTypes
<1>11. \A w \in Found : Linked(w) => Linked(w)'
  BY <1>4, <1>7, <1>8 DEF Linked
<1>12. Linked(c)'
  <2>1. visited'[c] >= 1 /\ visited'[w0] = visited'[c] - 1
    BY <1>2, <1>6, <1>7, <1>8
  <2>2. w0 \in Found' /\ step'[w0][turn] = c
    BY <1>2, <1>4, <1>8
  <2>3. QED
    BY <1>1, <1>7, <2>1, <2>2 DEF Linked
<1>13. \A w \in Found' : w = Start \/ Linked(w)'
  BY <1>8, <1>11, <1>12 DEF ExplorerInv
<1>14. visited'[Start] = 0
  <2>1. Start \in Found
    BY ExplorerAssumption DEF ExplorerInv, Found
  <2>2. QED
    BY <1>8, <2>1 DEF ExplorerInv
<1>15. \A i \in DOMAIN frontier' : i = n + 1 \/ i \in 1 .. n
  BY <1>1, <1>9
<1>16. \A i \in 1 .. n : frontier[i] \in Found
  BY <1>1 DEF ExplorerInv
<1>17. \A i \in DOMAIN frontier' : frontier'[i] \in Found'
  BY <1>8, <1>9, <1>15, <1>16
<1>18. ASSUME NEW i \in DOMAIN frontier', NEW j \in DOMAIN frontier', i <= j
       PROVE  visited'[frontier'[i]] <= visited'[frontier'[j]]
  <2>1. CASE j = n + 1 /\ i = n + 1
    BY <1>6, <1>7, <1>9, <2>1
  <2>2. CASE j = n + 1 /\ i \in 1 .. n
    <3>1. /\ frontier'[i] = frontier[i] /\ visited'[frontier[i]] = visited[frontier[i]]
          /\ visited[frontier[i]] <= v + 1
      BY <1>8, <1>9, <1>16, <2>2
    <3>2. visited'[frontier'[j]] = v + 1
      BY <1>7, <1>9, <2>2
    <3>3. QED
      BY <3>1, <3>2
  <2>3. CASE j \in 1 .. n
    <3>1. i \in 1 .. n
      BY <1>1, <1>15, <1>18, <2>3
    <3>2. visited[frontier[i]] <= visited[frontier[j]]
      BY <1>1, <1>18, <2>3, <3>1 DEF ExplorerInv
    <3>3. QED
      BY <1>8, <1>9, <1>16, <2>3, <3>1, <3>2
  <2>4. QED
    BY <1>15, <2>1, <2>2, <2>3
<1>19. frontier'[1] = w0 /\ visited'[w0] = v
  <2>1. 1 \in 1 .. n
    BY <1>1
  <2>2. QED
    BY <1>2, <1>8, <1>9, <2>1
<1>20. ASSUME NEW w \in Found'
       PROVE  visited'[w] <= visited'[frontier'[1]] + 1
  BY <1>2, <1>6, <1>7, <1>8, <1>19
<1>21. ASSUME NEW w \in Found, NEW a, Followed(w, a)
       PROVE  Followed(w, a)'
  BY <1>4, <1>8, <1>21 DEF Followed
<1>22. ASSUME NEW a \in 1 .. turn' - 1
       PROVE  Followed(frontier[1], a)'
  <2>1. CASE a = turn
    <3>1. step'[w0][a] = c /\ c \in Found' /\ visited'[c] <= visited'[w0] + 1
      BY <1>4, <1>6, <1>7, <1>8, <1>19, <2>1
    <3>2. QED
      BY <1>9, <1>19, <3>1 DEF Followed
  <2>2. CASE a \in 1 .. turn - 1
    <3>1. Followed(w0, a)
      BY <1>1, <2>2 DEF ExplorerInv
    <3>2. Followed(w0, a)'
      BY <1>2, <1>21, <3>1
    <3>3. frontier'[1] = w0
      BY <1>19
    <3>4. QED
      BY <3>2, <3>3 DEF Followed
  <2>3. QED
    BY <1>1, <1>4, <1>22, <2>1, <2>2
<1>23. ASSUME NEW w \in Found', visited'[w] < depth'
       PROVE  \/ \E i \in DOMAIN frontier' : frontier'[i] = w
              \/ \A a \in 1 .. NumActors : Followed(w, a)'
  <2>1. CASE w = c
    BY <1>9, <2>1
  <2>2. CASE w \in Found
    <3>1. visited[w] < depth
      BY <1>4, <1>8, <1>23, <2>2
    <3>2. \/ \E i \in DOMAIN frontier : frontier[i] = w
          \/ \A a \in 1 .. NumActors : Followed(w, a)
      BY <2>2, <3>1 DEF ExplorerInv
    <3>3. CASE \E i \in DOMAIN frontier : frontier[i] = w
      BY <1>1, <1>9, <3>3
    <3>4. CASE \A a \in 1 .. NumActors : Followed(w, a)
      BY <1>21, <2>2, <3>4
    <3>5. QED
      BY <3>2, <3>3, <3>4
  <2>3. QED
    BY <1>8, <2>1, <2>2
<1>24. QED
  BY <1>10, <1>13, <1>14, <1>17, <1>18, <1>20, <1>22, <1>23 DEF ExplorerInv

LEMMA ExplorerStep == ExplorerInv /\ [ExplorerNext]_explorerVars => ExplorerInv'
<1> SUFFICES ASSUME ExplorerInv, [ExplorerNext]_explorerVars
             PROVE  ExplorerInv'
  OBVIOUS
<1>1. CASE UNCHANGED explorerVars
  BY <1>1 DEF explorerVars, ExplorerInv, ExplorerTypes, Found, Linked, Followed
<1>2. QED
  BY <1>1, PopFacts, ExploreOld, ExploreNew DEF ExplorerNext

\* What Reach is: one generation of steps more each time.
LEMMA ReachOf ==
  ASSUME ExplorerTypes
  PROVE  \A n \in 0 .. MaxDepth :
           /\ Reach[n] = IF n = 0 THEN {Start} ELSE Reach[n - 1] \cup OneStepFrom(Reach[n - 1])
           /\ Reach[n] \in SUBSET Worlds
<1> DEFINE N == MaxDepth
           F == [p \in (0 .. N) \X SUBSET Worlds |-> p[2] \cup OneStepFrom(p[2])]
           P(f) == f = [n \in 0 .. MaxDepth |->
                          IF n = 0 THEN {Start} ELSE f[n - 1] \cup OneStepFrom(f[n - 1])]
<1>1. PICK f : Recursion(f, {Start}, F, N)
  BY ExplorerAssumption, RecursionExists
<1>2. \A n \in 0 .. N : f[n] = IF n = 0 THEN {Start} ELSE F[<<n, f[n - 1]>>]
  BY <1>1 DEF Recursion
<1>3. ASSUME NEW S \in SUBSET Worlds
      PROVE  S \cup OneStepFrom(S) \in SUBSET Worlds
  <2>1. ASSUME NEW w \in S, NEW a \in 1 .. NumActors
        PROVE  step[w][a] \in Worlds \cup {0}
    <3>1. w \in Worlds /\ step \in [Worlds -> [1 .. NumActors -> Worlds \cup {0}]]
      BY DEF ExplorerTypes
    <3>2. step[w] \in [1 .. NumActors -> Worlds \cup {0}]
      BY <3>1
    <3>3. QED
      BY <3>2
  <2>2. OneStepFrom(S) \subseteq Worlds
    BY <2>1 DEF OneStepFrom
  <2>3. QED
    BY <2>2
<1>4. \A n \in 0 .. N, S \in SUBSET Worlds : F[<<n, S>>] = S \cup OneStepFrom(S)
  OBVIOUS
<1> DEFINE H == {n \in 0 .. N : f[n] \in SUBSET Worlds}
<1> HIDE DEF F
<1>5. 0 \in H
  <2>1. 0 \in 0 .. N
    BY ExplorerAssumption
  <2>2. f[0] = {Start}
    BY <1>2, <2>1
  <2>3. QED
    BY <2>1, <2>2, ExplorerAssumption
<1>6. ASSUME NEW n \in 0 .. N - 1, n \in H
      PROVE  n + 1 \in H
  <2>1. n + 1 \in 0 .. N /\ n + 1 # 0 /\ (n + 1) - 1 = n
    BY ExplorerAssumption
  <2>2. f[n + 1] = F[<<n + 1, f[n]>>]
    BY <1>2, <2>1
  <2>3. F[<<n + 1, f[n]>>] = f[n] \cup OneStepFrom(f[n])
    BY <1>4, <1>6, <2>1
  <2>4. QED
    BY <1>3, <1>6, <2>1, <2>2, <2>3
<1> HIDE DEF H
<1>7. \A n \in 0 .. N : n \in H
  BY <1>5, <1>6, InductionUpTo, ExplorerAssumption
<1> USE DEF H
<1>8. ASSUME NEW n \in 0 .. N
      PROVE  f[n] = IF n = 0 THEN {Start} ELSE f[n - 1] \cup OneStepFrom(f[n - 1])
  <2>1. CASE n = 0
    BY <1>2, <2>1
  <2>2. CASE n # 0
    <3>1. n - 1 \in 0 .. N
      BY <2>2, ExplorerAssumption
    <3>2. f[n - 1] \in SUBSET Worlds
      BY <1>7, <3>1
    <3>3. F[<<n, f[n - 1]>>] = f[n - 1] \cup OneStepFrom(f[n - 1])
      BY <1>4, <3>2
    <3>4. QED
      BY <1>2, <2>2, <3>3
  <2>3. QED
    BY <2>1, <2>2
<1>9. P(f)
  <2>1. f = [n \in 0 .. N |-> IF n = 0 THEN {Start} ELSE F[<<n, f[n - 1]>>]]
    BY <1>1 DEF Recursion
  <2>2. f = [n \in 0 .. N |-> f[n]]
    BY <2>1
  <2>3. QED
    BY <1>8, <2>2
<1> DEFINE L == CHOOSE g : P(g)
<1>10. P(L)
  <2> HIDE DEF P
  <2>1. QED
    BY <1>9
<1>11. Reach = L
  BY DEF Reach
<1> HIDE DEF L
<1>12. \A n \in 0 .. N :
         Reach[n] = IF n = 0 THEN {Start} ELSE Reach[n - 1] \cup OneStepFrom(Reach[n - 1])
  BY <1>10, <1>11
<1> DEFINE G == {n \in 0 .. N : Reach[n] \in SUBSET Worlds}
<1>13. 0 \in G
  <2>1. 0 \in 0 .. N
    BY ExplorerAssumption
  <2>2. Reach[0] = {Start}
    BY <1>12, <2>1
  <2>3. QED
    BY <2>1, <2>2, ExplorerAssumption
<1>14. ASSUME NEW n \in 0 .. N - 1, n \in G
       PROVE  n + 1 \in G
  <2>1. n + 1 \in 0 .. N /\ n + 1 # 0 /\ (n + 1) - 1 = n
    BY ExplorerAssumption
  <2>2. Reach[n + 1] = Reach[n] \cup OneStepFrom(Reach[n])
    BY <1>12, <2>1
  <2>3. QED
    BY <1>3, <1>14, <2>1, <2>2
<1> HIDE DEF G
<1>15. \A n \in 0 .. N : n \in G
  BY <1>13, <1>14, InductionUpTo, ExplorerAssumption
<1>16. QED
  BY <1>12, <1>15 DEF G

LEMMA FoundDepth ==
  ASSUME ExplorerInv
  PROVE  \A w \in Found : visited[w] \in Nat /\ visited[w] <= depth
<1> SUFFICES ASSUME NEW w \in Found
             PROVE  visited[w] \in Nat /\ visited[w] <= depth
  OBVIOUS
<1>1. visited[w] \in -1 .. depth /\ visited[w] >= 0 /\ depth \in Nat
  BY DEF ExplorerInv, ExplorerTypes, Found
<1>2. QED
  BY <1>1

\* At the end of the search, every world that can be reached is found in time.
LEMMA AllFound ==
  ASSUME ExplorerInv, frontier = <<>>
  PROVE  \A n \in 0 .. depth : \A w \in Reach[n] : w \in Found /\ visited[w] <= n
<1> DEFINE H == {n \in 0 .. depth : \A w \in Reach[n] : w \in Found /\ visited[w] <= n}
<1>1. /\ depth \in Nat /\ depth <= MaxDepth /\ MaxDepth \in Nat /\ Start \in Worlds
      /\ \A n \in 0 .. depth : n \in 0 .. MaxDepth
  BY ExplorerAssumption DEF ExplorerInv, ExplorerTypes
<1>2. \A n \in 0 .. MaxDepth :
        /\ Reach[n] = IF n = 0 THEN {Start} ELSE Reach[n - 1] \cup OneStepFrom(Reach[n - 1])
        /\ Reach[n] \in SUBSET Worlds
  BY ReachOf DEF ExplorerInv
<1>3. 0 \in H
  <2>1. 0 \in 0 .. depth /\ 0 \in 0 .. MaxDepth
    BY <1>1
  <2>2. Reach[0] = {Start}
    BY <1>2, <2>1
  <2>3. visited[Start] = 0 /\ Start \in Found
    BY <1>1 DEF ExplorerInv, Found
  <2>4. QED
    BY <2>1, <2>2, <2>3
<1>4. ASSUME NEW n \in 0 .. depth - 1, n \in H
      PROVE  n + 1 \in H
  <2>1. n + 1 \in 0 .. depth /\ n + 1 # 0 /\ (n + 1) - 1 = n /\ n + 1 \in 0 .. MaxDepth
    BY <1>1
  <2>2. Reach[n + 1] = Reach[n] \cup OneStepFrom(Reach[n])
    BY <1>2, <2>1
  <2>3. ASSUME NEW w \in Found
        PROVE  visited[w] \in Int
    BY DEF ExplorerInv, ExplorerTypes, Found
  <2>4. ASSUME NEW w \in Reach[n]
        PROVE  w \in Found /\ visited[w] <= n + 1 /\ visited[w] <= n
    <3>1. w \in Found /\ visited[w] <= n
      BY <1>4
    <3>2. QED
      BY <2>3, <3>1
  <2>5. ASSUME NEW w \in Reach[n], NEW a \in 1 .. NumActors, step[w][a] # 0
        PROVE  step[w][a] \in Found /\ visited[step[w][a]] <= n + 1
    <3>1. w \in Found /\ visited[w] <= n /\ visited[w] \in Int
      BY <2>3, <2>4
    <3>2. visited[w] < depth
      BY <1>1, <3>1
    <3>3. Followed(w, a)
      BY <3>1, <3>2 DEF ExplorerInv
    <3>4. step[w][a] \in Found /\ visited[step[w][a]] <= visited[w] + 1
      BY <2>5, <3>3 DEF Followed
    <3>5. visited[step[w][a]] \in Int
      BY <2>3, <3>4
    <3>6. QED
      BY <3>1, <3>4, <3>5
  <2>6. \A w \in OneStepFrom(Reach[n]) : w \in Found /\ visited[w] <= n + 1
    BY <2>5 DEF OneStepFrom
  <2>7. QED
    BY <2>1, <2>2, <2>4, <2>6
<1> HIDE DEF H
<1>5. \A n \in 0 .. depth : n \in H
  BY <1>1, <1>3, <1>4, InductionUpTo
<1>6. QED
  BY <1>5 DEF H

\* Every world that is found can be reached, within the depth it was given.
LEMMA FoundReached ==
  ASSUME ExplorerInv
  PROVE  \A w \in Found : \A n \in 0 .. depth : visited[w] <= n => w \in Reach[n]
<1> DEFINE H == {n \in 0 .. depth : \A w \in Found : visited[w] <= n => w \in Reach[n]}
<1>1. /\ depth \in Nat /\ depth <= MaxDepth /\ MaxDepth \in Nat /\ Start \in Worlds
      /\ \A n \in 0 .. depth : n \in 0 .. MaxDepth
  BY ExplorerAssumption DEF ExplorerInv, ExplorerTypes
<1>2. \A n \in 0 .. MaxDepth :
        /\ Reach[n] = IF n = 0 THEN {Start} ELSE Reach[n - 1] \cup OneStepFrom(Reach[n - 1])
        /\ Reach[n] \in SUBSET Worlds
  BY ReachOf DEF ExplorerInv
<1>3. \A w \in Found : visited[w] \in Nat /\ (w = Start \/ Linked(w))
  BY FoundDepth DEF ExplorerInv
<1>4. 0 \in H
  <2>1. 0 \in 0 .. depth /\ 0 \in 0 .. MaxDepth
    BY <1>1
  <2>2. Reach[0] = {Start}
    BY <1>2, <2>1
  <2>3. ASSUME NEW w \in Found, visited[w] <= 0
        PROVE  w = Start
    <3>1. ~ (visited[w] >= 1)
      BY <1>3, <2>3
    <3>2. QED
      BY <1>3, <3>1 DEF Linked
  <2>4. QED
    BY <2>1, <2>2, <2>3
<1>5. ASSUME NEW n \in 0 .. depth - 1, n \in H
      PROVE  n + 1 \in H
  <2>1. n + 1 \in 0 .. depth /\ n + 1 # 0 /\ (n + 1) - 1 = n /\ n + 1 \in 0 .. MaxDepth
    BY <1>1
  <2>2. Reach[n + 1] = Reach[n] \cup OneStepFrom(Reach[n])
    BY <1>2, <2>1
  <2>3. ASSUME NEW w \in Found, visited[w] <= n + 1
        PROVE  w \in Reach[n + 1]
    <3>1. CASE w = Start
      <4>1. visited[w] = 0 /\ 0 <= n
        BY <1>1, <3>1 DEF ExplorerInv
      <4>2. w \in Reach[n]
        BY <1>5, <4>1
      <4>3. QED
        BY <2>2, <4>2
    <3>2. CASE Linked(w)
      <4>1. /\ parent[w] \in Found /\ visited[parent[w]] = visited[w] - 1
            /\ action[w] \in 1 .. NumActors /\ step[parent[w]][action[w]] = w
        BY <3>2 DEF Linked
      <4>2. visited[parent[w]] <= n
        BY <1>3, <2>3, <4>1
      <4>3. parent[w] \in Reach[n]
        BY <1>5, <4>1, <4>2
      <4>4. w # 0
        BY ExplorerAssumption DEF Found
      <4>5. w \in OneStepFrom(Reach[n])
        BY <4>1, <4>3, <4>4 DEF OneStepFrom
      <4>6. QED
        BY <2>2, <4>5
    <3>3. QED
      BY <1>3, <3>1, <3>2
  <2>4. QED
    BY <2>1, <2>3
<1> HIDE DEF H
<1>6. \A n \in 0 .. depth : n \in H
  BY <1>1, <1>4, <1>5, InductionUpTo
<1>7. QED
  BY <1>6 DEF H

\* The way back from a world along its parents ends at the start.
LEMMA WayBack ==
  ASSUME ExplorerInv, NEW w \in Found, NEW p, p[0] = w,
         \A k \in 1 .. visited[w] : p[k - 1] \in Found => p[k] = parent[p[k - 1]]
  PROVE  \A k \in 0 .. visited[w] : p[k] \in Found /\ visited[p[k]] = visited[w] - k
<1> DEFINE H == {k \in 0 .. visited[w] : p[k] \in Found /\ visited[p[k]] = visited[w] - k}
<1>1. visited[w] \in Nat /\ \A u \in Found : u = Start \/ Linked(u)
  BY DEF ExplorerInv, ExplorerTypes, Found
<1>2. 0 \in H
  BY <1>1
<1>3. ASSUME NEW k \in 0 .. visited[w] - 1, k \in H
      PROVE  k + 1 \in H
  <2>1. k + 1 \in 1 .. visited[w] /\ k + 1 \in 0 .. visited[w] /\ (k + 1) - 1 = k
    BY <1>1
  <2>2. p[k] \in Found /\ visited[p[k]] = visited[w] - k
    BY <1>3
  <2>3. p[k + 1] = parent[p[k]]
    BY <2>1, <2>2
  <2>4. visited[p[k]] # 0
    BY <1>1, <2>2
  <2>5. p[k] # Start
    BY <2>4 DEF ExplorerInv
  <2>6. p[k + 1] \in Found /\ visited[p[k + 1]] = visited[p[k]] - 1
    BY <1>1, <2>2, <2>3, <2>5 DEF Linked
  <2>7. visited[p[k + 1]] = visited[w] - (k + 1)
    BY <1>1, <2>2, <2>6
  <2>8. QED
    BY <2>1, <2>6, <2>7
<1> HIDE DEF H
<1>4. \A k \in 0 .. visited[w] : k \in H
  BY <1>1, <1>2, <1>3, InductionUpTo
<1>5. QED
  BY <1>4 DEF H

\* The list of worlds that Trace makes of it.
LEMMA TraceOf ==
  ASSUME ExplorerInv, NEW w \in Found
  PROVE  \E p : /\ \A k \in 0 .. visited[w] :
                     p[k] \in Found /\ visited[p[k]] = visited[w] - k
                /\ p[0] = w /\ \A k \in 1 .. visited[w] : p[k] = parent[p[k - 1]]
                /\ Trace(w) = [k \in 1 .. visited[w] |-> action[p[visited[w] - k]]]
<1> DEFINE D == visited[w]
           P(f) == f = [k \in 0 .. visited[w] |-> IF k = 0 THEN w ELSE parent[f[k - 1]]]
           L == CHOOSE f : P(f)
           F == [q \in (0 .. D) \X Found |-> parent[q[2]]]
<1>1. D \in Nat
  BY DEF ExplorerInv, ExplorerTypes, Found
<1>2. PICK f : Recursion(f, w, F, D)
  BY <1>1, RecursionExists
<1>3. \A k \in 0 .. D : f[k] = IF k = 0 THEN w ELSE F[<<k, f[k - 1]>>]
  BY <1>2 DEF Recursion
<1>4. \A k \in 0 .. D, u \in Found : F[<<k, u>>] = parent[u]
  OBVIOUS
<1>5. f[0] = w
  <2>1. 0 \in 0 .. D
    BY <1>1
  <2> HIDE DEF F, D
  <2>2. QED
    BY <1>3, <2>1
<1>6. ASSUME NEW k \in 1 .. D, f[k - 1] \in Found
      PROVE  f[k] = parent[f[k - 1]]
  <2>1. k \in 0 .. D /\ k # 0
    BY <1>1
  <2> HIDE DEF F
  <2>2. f[k] = F[<<k, f[k - 1]>>]
    BY <1>3, <2>1
  <2>3. QED
    BY <1>4, <1>6, <2>1, <2>2
<1>7. \A k \in 0 .. D : f[k] \in Found
  BY <1>5, <1>6, WayBack
<1>8. \A k \in 0 .. D : f[k] = IF k = 0 THEN w ELSE parent[f[k - 1]]
  <2> SUFFICES ASSUME NEW k \in 0 .. D, k # 0
               PROVE  f[k] = parent[f[k - 1]]
    BY <1>5
  <2>1. k \in 1 .. D /\ k - 1 \in 0 .. D
    BY <1>1
  <2>2. QED
    BY <1>6, <1>7, <2>1
<1>9. P(f)
  <2>1. f = [k \in 0 .. D |-> IF k = 0 THEN w ELSE F[<<k, f[k - 1]>>]]
    BY <1>2 DEF Recursion
  <2>2. f = [k \in 0 .. D |-> f[k]]
    BY <2>1
  <2>3. QED
    BY <1>8, <2>2
<1>10. P(L)
  <2> HIDE DEF P
  <2>1. QED
    BY <1>9
<1>11. Trace(w) = [k \in 1 .. D |-> action[L[D - k]]]
  BY DEF Trace
<1> HIDE DEF L
<1>12. L[0] = w /\ \A k \in 1 .. D : L[k] = parent[L[k - 1]]
  <2>1. \A k \in 0 .. D : L[k] = IF k = 0 THEN w ELSE parent[L[k - 1]]
    BY <1>10
  <2>2. 0 \in 0 .. D /\ \A k \in 1 .. D : k \in 0 .. D /\ k # 0
    BY <1>1
  <2>3. QED
    BY <2>1, <2>2
<1>13. \A k \in 0 .. D : L[k] \in Found /\ visited[L[k]] = visited[w] - k
  BY <1>12, WayBack
<1>14. QED
  BY <1>11, <1>12, <1>13

\* So the trace of a world, read from the start, leads to it.
LEMMA TraceLeads ==
  ASSUME ExplorerInv, NEW w \in Found
  PROVE  Len(Trace(w)) = visited[w] /\ RunOf(Trace(w)) = w
<1> DEFINE D == visited[w]
<1>1. D \in Nat /\ \A u \in Found : (visited[u] = 0 => u = Start) /\ (u = Start \/ Linked(u))
  <2>1. \A u \in Found : visited[u] = 0 => u = Start
    BY DEF ExplorerInv, Linked
  <2>2. QED
    BY <2>1 DEF ExplorerInv, ExplorerTypes, Found
<1>2. PICK p : /\ \A k \in 0 .. D : p[k] \in Found /\ visited[p[k]] = D - k
               /\ p[0] = w /\ \A k \in 1 .. D : p[k] = parent[p[k - 1]]
               /\ Trace(w) = [k \in 1 .. D |-> action[p[D - k]]]
  BY TraceOf
<1> DEFINE t == Trace(w)
<1>3. Len(t) = D /\ \A k \in 1 .. D : t[k] = action[p[D - k]]
  BY <1>1, <1>2
<1> HIDE DEF t, D
<1>4. p[0] = w /\ p[D] = Start
  <2>1. 0 \in 0 .. D /\ D \in 0 .. D /\ D - D = 0
    BY <1>1
  <2>2. p[D] \in Found /\ visited[p[D]] = 0
    BY <1>2, <2>1
  <2>3. QED
    BY <1>1, <1>2, <2>2
<1>5. ASSUME NEW k \in 1 .. D
      PROVE  step[p[D - (k - 1)]][t[k]] = p[D - k]
  <2>1. D - k \in 0 .. D /\ D - (k - 1) \in 1 .. D /\ (D - (k - 1)) - 1 = D - k
    BY <1>1
  <2>2. p[D - k] \in Found /\ visited[p[D - k]] = k
    BY <1>1, <1>2, <2>1
  <2>3. p[D - (k - 1)] = parent[p[D - k]]
    BY <1>2, <2>1
  <2>4. p[D - k] # Start
    BY <2>2 DEF ExplorerInv
  <2>5. step[parent[p[D - k]]][action[p[D - k]]] = p[D - k]
    BY <1>1, <2>2, <2>4 DEF Linked
  <2>6. QED
    BY <1>3, <2>3, <2>5
<1> DEFINE P(f) == f = [k \in 0 .. Len(t) |-> IF k = 0 THEN Start ELSE step[f[k - 1]][t[k]]]
           L == CHOOSE f : P(f)
           g == [k \in 0 .. D |-> p[D - k]]
<1>6. P(g)
  <2> DEFINE h == [k \in 0 .. D |-> IF k = 0 THEN Start ELSE step[g[k - 1]][t[k]]]
  <2>1. ASSUME NEW k \in 0 .. D
        PROVE  g[k] = h[k]
    <3>1. CASE k = 0
      <4>1. D - k = D
        BY <1>1, <3>1
      <4>2. QED
        BY <1>4, <3>1, <4>1
    <3>2. CASE k # 0
      <4>1. k \in 1 .. D /\ k - 1 \in 0 .. D
        BY <1>1, <3>2
      <4>2. g[k - 1] = p[D - (k - 1)]
        BY <4>1
      <4>3. QED
        BY <1>5, <3>2, <4>1, <4>2
    <3>3. QED
      BY <3>1, <3>2
  <2>2. g = h
    BY <2>1
  <2>3. QED
    BY <1>3, <2>2
<1>7. P(L)
  <2> HIDE DEF P
  <2>1. QED
    BY <1>6
<1>8. RunOf(t) = L[Len(t)]
  BY DEF RunOf
<1> HIDE DEF L, g
<1>9. \A k \in 0 .. D : L[k] = IF k = 0 THEN Start ELSE step[L[k - 1]][t[k]]
  BY <1>3, <1>7
<1> DEFINE H == {k \in 0 .. D : L[k] = p[D - k]}
<1>10. 0 \in H
  <2>1. 0 \in 0 .. D /\ D - 0 = D
    BY <1>1
  <2>2. L[0] = Start
    BY <1>9, <2>1
  <2>3. QED
    BY <1>4, <2>1, <2>2
<1>11. ASSUME NEW k \in 0 .. D - 1, k \in H
       PROVE  k + 1 \in H
  <2>1. k + 1 \in 1 .. D /\ k + 1 \in 0 .. D /\ (k + 1) - 1 = k /\ k + 1 # 0
    BY <1>1
  <2>2. L[k + 1] = step[L[k]][t[k + 1]]
    BY <1>9, <2>1
  <2>3. L[k] = p[D - k]
    BY <1>11
  <2>4. step[p[D - k]][t[k + 1]] = p[D - (k + 1)]
    BY <1>5, <2>1
  <2>5. QED
    BY <2>1, <2>2, <2>3, <2>4
<1> HIDE DEF H
<1>12. \A k \in 0 .. D : k \in H
  BY <1>1, <1>10, <1>11, InductionUpTo
<1>13. L[D] = p[D - D] /\ D - D = 0
  <2>1. D \in 0 .. D /\ D - D = 0
    BY <1>1
  <2>2. QED
    BY <1>12, <2>1 DEF H
<1>14. QED
  BY <1>3, <1>4, <1>8, <1>13 DEF t, D

\* A deadlock is found first where it is shallowest.
LEMMA ShallowestOk ==
  ASSUME ExplorerInv, Deadlocks # {}
  PROVE  /\ Shallowest \in Deadlocks
         /\ \A u \in Deadlocks : visited[Shallowest] <= visited[u]
<1> DEFINE V == {visited[w] : w \in Deadlocks}
<1>1. V \subseteq Nat /\ V # {}
  BY FoundDepth DEF Deadlocks
<1>2. PICK n \in V : \A m \in V : n <= m
  BY <1>1, LeastElement
<1>3. \E w \in Deadlocks : \A u \in Deadlocks : visited[w] <= visited[u]
  BY <1>2
<1>4. QED
  BY <1>3 DEF Shallowest

LEMMA VerdictHolds ==
  ASSUME ExplorerInv
  PROVE  VerdictRight
<1> SUFFICES ASSUME frontier = <<>>
             PROVE  /\ Found = Reach[depth]
                    /\ Deadlocks # {} =>
                         /\ RunOf(Trace(Shallowest)) = Shallowest
                         /\ \A n \in 0 .. depth :
                              n < Len(Trace(Shallowest)) => \A w \in Reach[n] : ~ Stuck(w)
  BY DEF VerdictRight
<1>1. depth \in 0 .. depth /\ \A w \in Found : visited[w] <= depth /\ visited[w] \in Int
  BY ExplorerAssumption DEF ExplorerInv, ExplorerTypes, Found
<1>2. Found = Reach[depth]
  BY <1>1, AllFound, FoundReached
<1>3. ASSUME Deadlocks # {}
      PROVE  /\ RunOf(Trace(Shallowest)) = Shallowest
             /\ \A n \in 0 .. depth :
                  n < Len(Trace(Shallowest)) => \A w \in Reach[n] : ~ Stuck(w)
  <2>1. /\ Shallowest \in Found
        /\ \A u \in Deadlocks : visited[Shallowest] <= visited[u]
    BY <1>3, ShallowestOk DEF Deadlocks
  <2>2. Len(Trace(Shallowest)) = visited[Shallowest] /\ RunOf(Trace(Shallowest)) = Shallowest
    BY <2>1, TraceLeads
  <2>3. ASSUME NEW n \in 0 .. depth, n < visited[Shallowest], NEW w \in Reach[n], Stuck(w)
        PROVE  FALSE
    <3>1. w \in Found /\ visited[w] <= n
      BY AllFound
    <3>2. w \in Deadlocks
      BY <2>3, <3>1 DEF Deadlocks
    <3>3. visited[Shallowest] <= visited[w]
      BY <2>1, <3>2
    <3>4. QED
      BY <1>1, <2>1, <2>3, <3>1, <3>3
  <2>4. QED
    BY <2>2, <2>3
<1>4. QED
  BY <1>2, <1>3

\* The verdict of the explorer: when its search ends it has found the worlds
\* that can be reached within its depth, no others, and the deadlock it reports
\* is one that no shorter run leads to, with a run that does lead there; for
\* any worlds, steps and depth.
THEOREM ExplorerVerdict == ExplorerSpec => []VerdictRight
BY ExplorerStart, ExplorerStep, VerdictHolds, PTL DEF ExplorerSpec

-----------------------------------------------------------------------------
(* The composition of the five parts.                                      *)

LEMMA PartsSteps ==
  ASSUME [PartsNext]_<<partsVars, focus>>
  PROVE  /\ [NodeNext]_nodeVars /\ [QuarantineNext]_quarantineVars
         /\ [SessionsNext]_sessionsVars /\ [CrdtNext]_crdtVars
         /\ [ExplorerNext]_explorerVars
BY Zenon DEF PartsNext, partsVars

\* A run of the five parts is a run of each of them, whatever it takes through
\* its steps: what is proved of a part holds of the composition that is checked.
THEOREM PartsRunEach ==
  PartsSpec => /\ NodeSpec /\ QuarantineSpec /\ SessionsSpec
               /\ CrdtSpec /\ ExplorerSpec
<1>1. PartsInit => /\ NodeInit /\ QuarantineInit /\ SessionsInit
                   /\ CrdtInit /\ ExplorerInit
  BY DEF PartsInit
<1>2. QED
  BY <1>1, PartsSteps, PTL
     DEF PartsSpec, NodeSpec, QuarantineSpec, SessionsSpec, CrdtSpec, ExplorerSpec

\* Every part of the node keeps its types, whichever of them a run takes
\* through its steps, and for any constants.
THEOREM PartsTyped == PartsSpec => []PartsTypes
<1>1. QuarantineSpec => []QuarantineTypes
  <2>1. QuarantineInv => QuarantineTypes
    BY DEF QuarantineInv
  <2>2. QED
    BY <2>1, QuarantineStart, QuarantineStep, PTL DEF QuarantineSpec
<1>2. SessionsSpec => []SessionsTypes
  <2>1. SeenInv => SessionsTypes
    BY DEF SeenInv
  <2>2. QED
    BY <2>1, SeenStart, SeenStep, PTL DEF SessionsSpec
<1>3. CrdtSpec => []CrdtTypes
  <2>1. CrdtInv => CrdtTypes
    BY DEF CrdtInv, CrdtTypes, LogSound
  <2>2. QED
    BY <2>1, CrdtStart, CrdtStep, PTL DEF CrdtSpec
<1>4. ExplorerSpec => []ExplorerTypes
  <2>1. ExplorerInv => ExplorerTypes
    BY DEF ExplorerInv
  <2>2. QED
    BY <2>1, ExplorerStart, ExplorerStep, PTL DEF ExplorerSpec
<1>5. PartsTypes <=> /\ NodeTypes /\ QuarantineTypes /\ SessionsTypes
                     /\ CrdtTypes /\ ExplorerTypes
  BY DEF PartsTypes
<1>6. QED
  BY <1>1, <1>2, <1>3, <1>4, <1>5, NodeTyped, PartsRunEach, PTL

=============================================================================
