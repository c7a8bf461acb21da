--------------------------- MODULE NodeState_proofs ---------------------------
(***************************************************************************)
(* Proofs about what a node keeps and about its failed actors, and the     *)
(* facts about induction that they and NodeParts_proofs need.              *)
(*                                                                         *)
(* NodeState: no message is absorbed twice, or, unless the actor is eager, *)
(* out of order, across saves, crashes and restarts (ExactlyOnce), for any *)
(* actors and messages.  The ids in a sequence are in line when they are   *)
(* in each of its parts and the parts are in order (InLineConcat), so the  *)
(* invariant speaks of parts: the fields, the hand and the mailbox of an   *)
(* actor and what it is to be given back, the copies of the fields that    *)
(* handlers have taken, and the fields and the messages of the three       *)
(* documents (on disk, loaded, and being written).  All are no younger     *)
(* than the last message sent, which puts the next one behind all of them. *)
(* A message is put back while its actor runs; that none is put back       *)
(* behind a younger one holds because an actor whose spawn is not over is  *)
(* sent to only if it is eager (Giving, Unborn).                           *)
(*                                                                         *)
(* Induction: a statement about the numbers up to a bound is proved of its *)
(* least counterexample, which exists because < is well founded; and a     *)
(* recursive function given by a LET is shown to exist that way before     *)
(* anything is said of its values (RecursionExists).                       *)
(*                                                                         *)
(* Quarantine: the generations below a failed actor are such a function of *)
(* the tree, and the walk by generations finds every name to which a chain *)
(* of spawns leads (DescentReaches, AllDescendants).  An entry that a      *)
(* sweep has written outlasts the clock of every later sweep, unless one   *)
(* that read its clock before has put an older expiry over it              *)
(* (SubtreeContained).                                                     *)
(***************************************************************************)
EXTENDS NodeState, Quarantine, FiniteSetTheorems, WellFoundedInduction, TLAPS

\* Every message of s may be ahead of every message of t.
Before(a, s, t) ==
  \A i \in DOMAIN s, j \in DOMAIN t : s[i] > 0 /\ t[j] > 0 => Ahead(a, s[i], t[j])

\* No message of s is younger than n.
Upto(s, n) == \A i \in DOMAIN s : s[i] <= n

\* InLine, of a concatenation, part by part.
LEMMA InLineConcat ==
  ASSUME NEW a, NEW s \in Seq(Nat), NEW t \in Seq(Nat)
  PROVE  InLine(a, s \o t) <=> InLine(a, s) /\ InLine(a, t) /\ Before(a, s, t)
<1> DEFINE u == s \o t
<1>1. /\ DOMAIN s = 1 .. Len(s) /\ DOMAIN t = 1 .. Len(t)
      /\ Len(s) \in Nat /\ Len(t) \in Nat
      /\ DOMAIN u = 1 .. Len(s) + Len(t)
      /\ \A i \in 1 .. Len(s) : u[i] = s[i]
      /\ \A j \in 1 .. Len(t) : u[Len(s) + j] = t[j]
      /\ \A i \in 1 .. Len(s) : s[i] \in Nat
      /\ \A j \in 1 .. Len(t) : t[j] \in Nat
  OBVIOUS
<1> HIDE DEF u
<1>2. ASSUME InLine(a, u)
      PROVE  InLine(a, s) /\ InLine(a, t) /\ Before(a, s, t)
  <2>1. InLine(a, s)
    BY <1>1, <1>2 DEF InLine
  <2>2. InLine(a, t)
    <3>1. ASSUME NEW i \in 1 .. Len(t), NEW j \in 1 .. Len(t),
                 i < j, t[i] > 0, t[j] > 0
          PROVE  Ahead(a, t[i], t[j])
      <4>1. Len(s) + i \in DOMAIN u /\ Len(s) + j \in DOMAIN u
            /\ Len(s) + i < Len(s) + j
        BY <1>1, <3>1
      <4>2. u[Len(s) + i] = t[i] /\ u[Len(s) + j] = t[j]
        BY <1>1
      <4>3. QED
        BY <1>2, <3>1, <4>1, <4>2 DEF InLine
    <3>2. QED
      BY <1>1, <3>1 DEF InLine
  <2>3. Before(a, s, t)
    <3>1. ASSUME NEW i \in 1 .. Len(s), NEW j \in 1 .. Len(t),
                 s[i] > 0, t[j] > 0
          PROVE  Ahead(a, s[i], t[j])
      <4>1. i \in DOMAIN u /\ Len(s) + j \in DOMAIN u /\ i < Len(s) + j
        BY <1>1
      <4>2. u[i] = s[i] /\ u[Len(s) + j] = t[j]
        BY <1>1
      <4>3. QED
        BY <1>2, <3>1, <4>1, <4>2 DEF InLine
    <3>2. QED
      BY <1>1, <3>1 DEF Before
  <2>4. QED
    BY <2>1, <2>2, <2>3
<1>3. ASSUME InLine(a, s), InLine(a, t), Before(a, s, t)
      PROVE  InLine(a, u)
  <2>1. ASSUME NEW i \in DOMAIN u, NEW j \in DOMAIN u,
               i < j, u[i] > 0, u[j] > 0
        PROVE  Ahead(a, u[i], u[j])
    <3>1. CASE j <= Len(s)
      <4>1. i \in 1 .. Len(s) /\ j \in 1 .. Len(s)
        BY <1>1, <2>1, <3>1
      <4>2. u[i] = s[i] /\ u[j] = s[j]
        BY <1>1, <4>1
      <4>3. QED
        BY <1>1, <1>3, <2>1, <4>1, <4>2 DEF InLine
    <3>2. CASE i <= Len(s) /\ j > Len(s)
      <4> DEFINE k == j - Len(s)
      <4>1. i \in 1 .. Len(s) /\ k \in 1 .. Len(t) /\ j = Len(s) + k
        BY <1>1, <2>1, <3>2
      <4> HIDE DEF k
      <4>2. u[i] = s[i] /\ u[j] = t[k]
        BY <1>1, <4>1
      <4>3. QED
        BY <1>1, <1>3, <2>1, <4>1, <4>2 DEF Before
    <3>3. CASE i > Len(s)
      <4> DEFINE h == i - Len(s)
                 k == j - Len(s)
      <4>a. i \in 1 .. Len(s) + Len(t) /\ j \in 1 .. Len(s) + Len(t)
        BY <1>1
      <4>1. /\ h \in 1 .. Len(t) /\ k \in 1 .. Len(t) /\ h < k
            /\ i = Len(s) + h /\ j = Len(s) + k
        <5>1. \A m, n \in Nat : \A x, y \in 1 .. m + n :
                x > m /\ x < y =>
                  /\ x - m \in 1 .. n /\ y - m \in 1 .. n /\ x - m < y - m
                  /\ x = m + (x - m) /\ y = m + (y - m)
          OBVIOUS
        <5>2. Len(s) \in Nat /\ Len(t) \in Nat /\ i < j /\ i > Len(s)
          BY <1>1, <2>1, <3>3
        <5>3. QED
          BY <4>a, <5>1, <5>2
      <4> HIDE DEF h, k
      <4>2. u[i] = t[h] /\ u[j] = t[k]
        BY <1>1, <4>1
      <4>3. QED
        BY <1>1, <1>3, <2>1, <4>1, <4>2 DEF InLine
    <3>4. QED
      BY <1>1, <2>1, <3>1, <3>2, <3>3
  <2>2. QED
    BY <2>1 DEF InLine
<1>4. QED
  BY <1>2, <1>3 DEF u

\* Before, of a concatenation, part by part.
LEMMA BeforeConcat ==
  ASSUME NEW a, NEW s \in Seq(Nat), NEW t \in Seq(Nat), NEW u \in Seq(Nat)
  PROVE  /\ Before(a, s \o t, u) <=> Before(a, s, u) /\ Before(a, t, u)
         /\ Before(a, u, s \o t) <=> Before(a, u, s) /\ Before(a, u, t)
<1> DEFINE v == s \o t
<1>1. /\ DOMAIN s = 1 .. Len(s) /\ DOMAIN t = 1 .. Len(t)
      /\ DOMAIN u = 1 .. Len(u)
      /\ Len(s) \in Nat /\ Len(t) \in Nat /\ Len(u) \in Nat
      /\ DOMAIN v = 1 .. Len(s) + Len(t)
      /\ \A i \in 1 .. Len(s) : v[i] = s[i]
      /\ \A j \in 1 .. Len(t) : v[Len(s) + j] = t[j]
  OBVIOUS
<1> HIDE DEF v
<1>2. \A k \in DOMAIN v :
        (k \in 1 .. Len(s) /\ v[k] = s[k])
        \/ (k - Len(s) \in 1 .. Len(t) /\ v[k] = t[k - Len(s)])
  <2>1. ASSUME NEW k \in DOMAIN v, k > Len(s)
        PROVE  k - Len(s) \in 1 .. Len(t) /\ v[k] = t[k - Len(s)]
    <3>1. k - Len(s) \in 1 .. Len(t) /\ Len(s) + (k - Len(s)) = k
      BY <1>1, <2>1
    <3>2. QED
      BY <1>1, <3>1
  <2>2. QED
    BY <1>1, <2>1
<1>3. \A j \in 1 .. Len(t) : Len(s) + j \in DOMAIN v
  BY <1>1
<1>4. \A i \in 1 .. Len(s) : i \in DOMAIN v
  BY <1>1
<1>5. Before(a, v, u) <=> Before(a, s, u) /\ Before(a, t, u)
  BY <1>1, <1>2, <1>3, <1>4 DEF Before
<1>6. Before(a, u, v) <=> Before(a, u, s) /\ Before(a, u, t)
  BY <1>1, <1>2, <1>3, <1>4 DEF Before
<1>7. QED
  BY <1>5, <1>6 DEF v

\* Upto, of a concatenation, part by part.
LEMMA UptoConcat ==
  ASSUME NEW s \in Seq(Nat), NEW t \in Seq(Nat), NEW n \in Nat
  PROVE  Upto(s \o t, n) <=> Upto(s, n) /\ Upto(t, n)
<1> DEFINE v == s \o t
<1>1. /\ DOMAIN s = 1 .. Len(s) /\ DOMAIN t = 1 .. Len(t)
      /\ Len(s) \in Nat /\ Len(t) \in Nat
      /\ DOMAIN v = 1 .. Len(s) + Len(t)
      /\ \A i \in 1 .. Len(s) : v[i] = s[i]
      /\ \A j \in 1 .. Len(t) : v[Len(s) + j] = t[j]
  OBVIOUS
<1> HIDE DEF v
<1>2. \A k \in DOMAIN v :
        (k \in 1 .. Len(s) /\ v[k] = s[k])
        \/ (k - Len(s) \in 1 .. Len(t) /\ v[k] = t[k - Len(s)])
  <2>1. ASSUME NEW k \in DOMAIN v, k > Len(s)
        PROVE  k - Len(s) \in 1 .. Len(t) /\ v[k] = t[k - Len(s)]
    <3>1. k - Len(s) \in 1 .. Len(t) /\ Len(s) + (k - Len(s)) = k
      BY <1>1, <2>1
    <3>2. QED
      BY <1>1, <3>1
  <2>2. QED
    BY <1>1, <2>1
<1>3. \A j \in 1 .. Len(t) : Len(s) + j \in DOMAIN v
  BY <1>1
<1>4. \A i \in 1 .. Len(s) : i \in DOMAIN v
  BY <1>1
<1>5. Upto(v, n) <=> Upto(s, n) /\ Upto(t, n)
  BY <1>1, <1>2, <1>3, <1>4 DEF Upto
<1>6. QED
  BY <1>5 DEF v

\* Empty sequences, init messages and the next message to be sent, which is
\* ahead of older ones too on an eager actor.
LEMMA Small ==
  ASSUME NEW a, NEW s \in Seq(Nat), NEW e \in Nat, NEW n \in Nat
  PROVE  /\ InLine(a, <<>>) /\ InLine(a, <<e>>)
         /\ Before(a, <<>>, s) /\ Before(a, s, <<>>)
         /\ Before(a, <<0>>, s) /\ Before(a, s, <<0>>)
         /\ Upto(s, n) => Before(a, s, <<n + 1>>) /\ Upto(s, n + 1)
         /\ Upto(s, n) /\ a \in Eager => Before(a, <<n + 1>>, s)
         /\ Upto(<<>>, n) /\ Upto(<<0>>, n) /\ Upto(<<n + 1>>, n + 1)
<1>1. DOMAIN <<e>> = {1} /\ <<e>>[1] = e /\ DOMAIN <<>> = {}
  OBVIOUS
<1>2. DOMAIN <<0>> = {1} /\ <<0>>[1] = 0
      /\ DOMAIN <<n + 1>> = {1} /\ <<n + 1>>[1] = n + 1
  OBVIOUS
<1>3. \A i \in DOMAIN s : s[i] \in Nat
  OBVIOUS
<1>4. /\ Upto(s, n) => Before(a, s, <<n + 1>>) /\ Upto(s, n + 1)
      /\ Upto(s, n) /\ a \in Eager => Before(a, <<n + 1>>, s)
  BY <1>2, <1>3 DEF Before, Upto, Ahead
<1>5. QED
  BY <1>1, <1>2, <1>3, <1>4 DEF InLine, Before, Upto

\* A sequence is its head and its tail.
LEMMA HeadFirst ==
  ASSUME NEW s \in Seq(Nat), s # <<>>
  PROVE  s = <<Head(s)>> \o Tail(s) /\ Head(s) \in Nat /\ Tail(s) \in Seq(Nat)
         /\ <<Head(s)>> \in Seq(Nat)
OBVIOUS

-----------------------------------------------------------------------------
Lists == [Actors -> Seq(Nat)]
Documents == [fields : Lists, pending : Lists]

Typed ==
  /\ fields \in Lists /\ hand \in Lists /\ box \in Lists /\ replay \in Lists
  /\ disk \in Documents /\ loaded \in Documents /\ out \in Documents
  /\ copy \in [Actors -> Seq(Lists)]
  /\ sent \in Nat /\ todo \subseteq Actors

\* A document that holds no message younger than n, in order.
Clean(doc, n) ==
  \A a \in Actors :
    /\ InLine(a, doc.fields[a]) /\ InLine(a, doc.pending[a])
    /\ Before(a, doc.fields[a], doc.pending[a])
    /\ Upto(doc.fields[a], n) /\ Upto(doc.pending[a], n)

\* What a running actor has absorbed, handles, has queued and is to be given.
Lined(a) ==
  /\ InLine(a, fields[a]) /\ InLine(a, hand[a])
  /\ InLine(a, box[a]) /\ InLine(a, replay[a])
  /\ Before(a, fields[a], hand[a]) /\ Before(a, fields[a], box[a])
  /\ Before(a, hand[a], box[a])
  /\ Before(a, fields[a], replay[a]) /\ Before(a, hand[a], replay[a])
  /\ Before(a, box[a], replay[a])

\* None of it is younger than n.
Old(a, n) ==
  /\ Upto(fields[a], n) /\ Upto(hand[a], n)
  /\ Upto(box[a], n) /\ Upto(replay[a], n)

\* An actor without a worker has absorbed nothing; what it has been sent
\* already will be in line with what the file holds for it.
Unborn(a) ==
  /\ fields[a] = <<>> /\ hand[a] = <<>> /\ replay[a] = <<>>
  /\ Before(a, loaded.fields[a], box[a])
  /\ Before(a, box[a], loaded.pending[a])

AllInLine ==
  \A a \in Actors : Lined(a) /\ Old(a, sent) /\ (a \notin born => Unborn(a))

\* Messages are put back by the spawn that the script is in; of a process that
\* is gone no mailbox is left.
Giving ==
  /\ \A a \in Actors : replay[a] # <<>> => spawning = <<a>>
  /\ phase = "down" => \A a \in Actors : box[a] = <<>>

CopiesSound ==
  \A b \in Actors : copy[b] # <<>> =>
    \A a \in Actors : /\ InLine(a, Head(copy[b])[a])
                      /\ Upto(Head(copy[b])[a], sent)

\* The actor whose mailbox is drained: what has been collected of it is ahead
\* of what is left; of those not yet visited nothing has been collected.
Collecting ==
  /\ phase # "saving" => cut = <<>>
  /\ \A a \in Actors : cut = <<a>> =>
       Before(a, out.fields[a], box[a]) /\ Before(a, out.pending[a], box[a])
  /\ \A a \in todo : cut # <<a>> => out.pending[a] = <<>>

NodeIInv ==
  /\ Typed /\ AllInLine /\ Giving /\ CopiesSound /\ Collecting
  /\ Clean(disk, sent) /\ Clean(loaded, sent) /\ Clean(out, sent)

\* The empty documents.
LEMMA Nothing ==
  ASSUME NEW n \in Nat
  PROVE  /\ Blank \in Lists /\ Empty \in Documents
         /\ Empty.fields = Blank /\ Empty.pending = Blank
         /\ \A a \in Actors : Blank[a] = <<>>
         /\ Clean(Empty, n)
<1>1. /\ <<>> \in Seq(Nat) /\ Upto(<<>>, n)
      /\ \A a \in Actors : InLine(a, <<>>) /\ Before(a, <<>>, <<>>)
  <2>1. <<>> \in Seq(Nat) /\ 0 \in Nat
    OBVIOUS
  <2>2. QED
    BY <2>1, Small
<1>2. /\ Blank \in Lists /\ \A a \in Actors : Blank[a] = <<>>
  BY <1>1 DEF Blank, Lists
<1>3. /\ Empty \in Documents
      /\ Empty.fields = Blank /\ Empty.pending = Blank
  BY <1>2 DEF Empty, Documents
<1>4. Clean(Empty, n)
  BY <1>1, <1>2, <1>3 DEF Clean
<1>5. QED
  BY <1>2, <1>3, <1>4

\* A document stays sound as ids are given out.
LEMMA Older ==
  ASSUME NEW n \in Nat, NEW doc \in Documents, Clean(doc, n)
  PROVE  Clean(doc, n + 1)
<1>1. \A a \in Actors : doc.fields[a] \in Seq(Nat) /\ doc.pending[a] \in Seq(Nat)
  BY DEF Documents, Lists
<1>2. QED
  BY <1>1, Small DEF Clean

\* A document with another sequence of fields, or of messages, for an actor.
LEMMA Edited ==
  ASSUME NEW doc \in Documents, NEW a \in Actors, NEW s \in Seq(Nat)
  PROVE  /\ [doc EXCEPT !.fields[a] = s] \in Documents
         /\ [doc EXCEPT !.fields[a] = s].fields = [doc.fields EXCEPT ![a] = s]
         /\ [doc EXCEPT !.fields[a] = s].pending = doc.pending
         /\ [doc EXCEPT !.pending[a] = s] \in Documents
         /\ [doc EXCEPT !.pending[a] = s].pending = [doc.pending EXCEPT ![a] = s]
         /\ [doc EXCEPT !.pending[a] = s].fields = doc.fields
         /\ \A f \in Lists :
              /\ [f EXCEPT ![a] = s] \in Lists
              /\ [f EXCEPT ![a] = s][a] = s
              /\ \A b \in Actors \ {a} : [f EXCEPT ![a] = s][b] = f[b]
         /\ \A b \in Actors : doc.fields[b] \in Seq(Nat) /\ doc.pending[b] \in Seq(Nat)
<1>1. /\ doc.fields \in Lists /\ doc.pending \in Lists
      /\ doc = [fields |-> doc.fields, pending |-> doc.pending]
  BY DEF Documents
<1>2. \A f \in Lists :
        /\ [f EXCEPT ![a] = s] \in Lists
        /\ [f EXCEPT ![a] = s][a] = s
        /\ \A b \in Actors \ {a} : [f EXCEPT ![a] = s][b] = f[b]
  BY DEF Lists
<1>3. \A b \in Actors : doc.fields[b] \in Seq(Nat) /\ doc.pending[b] \in Seq(Nat)
  BY <1>1 DEF Lists
<1>4. QED
  BY <1>1, <1>2, <1>3 DEF Documents

LEMMA InitNodeIInv == NodeInit => NodeIInv
<1> SUFFICES ASSUME NodeInit PROVE NodeIInv
  OBVIOUS
<1> USE DEF NodeInit
<1>1. sent = 0 /\ sent \in Nat
  OBVIOUS
<1>2. /\ <<>> \in Seq(Nat) /\ Upto(<<>>, sent)
      /\ \A a \in Actors : InLine(a, <<>>) /\ Before(a, <<>>, <<>>)
  <2>1. <<>> \in Seq(Nat) /\ 0 \in Nat
    OBVIOUS
  <2>2. QED
    BY <1>1, <2>1, Small
<1>3. Typed
  BY <1>1, Nothing DEF Typed, Blank, Lists
<1>4. AllInLine
  BY <1>2, <1>1, Nothing DEF AllInLine, Lined, Old, Unborn
<1>5. CopiesSound /\ Giving
  BY Nothing, <1>1 DEF CopiesSound, Giving
<1>6. Collecting
  BY DEF Collecting, None
<1>7. QED
  BY <1>1, <1>3, <1>4, <1>5, <1>6, Nothing DEF NodeIInv

\* What is a sequence of messages.
LEMMA Parts ==
  ASSUME Typed, NEW a \in Actors
  PROVE  /\ fields[a] \in Seq(Nat) /\ hand[a] \in Seq(Nat) /\ box[a] \in Seq(Nat)
         /\ replay[a] \in Seq(Nat)
         /\ loaded.fields[a] \in Seq(Nat) /\ loaded.pending[a] \in Seq(Nat)
         /\ out.fields[a] \in Seq(Nat) /\ out.pending[a] \in Seq(Nat)
         /\ disk.fields[a] \in Seq(Nat) /\ disk.pending[a] \in Seq(Nat)
         /\ sent \in Nat /\ <<>> \in Seq(Nat) /\ <<0>> \in Seq(Nat)
         /\ copy[a] # <<>> => Head(copy[a]) \in Lists
<1>1. copy[a] # <<>> => Head(copy[a]) \in Lists
  BY DEF Typed
<1>2. /\ fields[a] \in Seq(Nat) /\ hand[a] \in Seq(Nat) /\ box[a] \in Seq(Nat)
      /\ replay[a] \in Seq(Nat)
      /\ sent \in Nat /\ <<>> \in Seq(Nat) /\ <<0>> \in Seq(Nat)
  BY DEF Typed, Lists
<1>3. \A doc \in Documents : doc.fields[a] \in Seq(Nat) /\ doc.pending[a] \in Seq(Nat)
  BY DEF Documents, Lists
<1>4. QED
  BY <1>1, <1>2, <1>3 DEF Typed

\* A spawn that begins or ends moves no message.
LEMMA SpawnStep ==
  ASSUME NodeIInv, NEW a \in Actors, Spawn(a) \/ Bind(a)
  PROVE  NodeIInv'
<1> USE DEF NodeIInv
<1>1. /\ fields' = fields /\ hand' = hand /\ box' = box /\ replay' = replay
      /\ copy' = copy /\ born' = born /\ sent' = sent
      /\ disk' = disk /\ loaded' = loaded /\ out' = out
      /\ cut' = cut /\ todo' = todo /\ phase' = phase /\ phase = "run"
  BY DEF Spawn, Bind, live, exit, counts
<1>2. \A b \in Actors : replay[b] = <<>>
  BY DEF Giving, Spawn, Bind, None
<1>3. Typed' /\ AllInLine' /\ CopiesSound' /\ Collecting'
  BY <1>1 DEF Typed, AllInLine, Lined, Old, Unborn, CopiesSound, Collecting
<1>4. Giving'
  BY <1>1, <1>2 DEF Giving
<1>5. Clean(disk, sent)' /\ Clean(loaded, sent)' /\ Clean(out, sent)'
  BY <1>1
<1>6. QED
  BY <1>3, <1>4, <1>5

\* What an actor has been sent while its initialisers ran is in its mailbox
\* when its worker starts, with what the file holds on either side.
LEMMA StartWorkerStep ==
  ASSUME NodeIInv, NEW a \in Actors, StartWorker(a)
  PROVE  NodeIInv'
<1> USE DEF NodeIInv
<1> DEFINE f == loaded.fields[a]
           p == loaded.pending[a]
<1>1. f \in Seq(Nat) /\ p \in Seq(Nat) /\ <<>> \in Seq(Nat) /\ <<0>> \in Seq(Nat)
      /\ box[a] \in Seq(Nat) /\ sent \in Nat /\ sent' = sent
  BY Parts DEF StartWorker, counts
<1>2. InLine(a, f) /\ InLine(a, p) /\ Before(a, f, p) /\ Upto(f, sent) /\ Upto(p, sent)
  BY DEF Clean
<1>3. a \notin born /\ Lined(a) /\ Old(a, sent) /\ Unborn(a)
  BY DEF StartWorker, AllInLine
<1>4. Before(a, f, box[a]) /\ Before(a, box[a], p)
  BY <1>3 DEF Unborn
<1> HIDE DEF f, p
<1> DEFINE q == <<0>> \o p
<1>5. /\ q \in Seq(Nat) /\ InLine(a, q) /\ Before(a, f, q) /\ Before(a, box[a], q)
      /\ Upto(q, sent)
  <2>1. /\ InLine(a, <<0>>) /\ Before(a, <<0>>, p) /\ Before(a, f, <<0>>)
        /\ Before(a, box[a], <<0>>) /\ Upto(<<0>>, sent)
    BY <1>1, Small
  <2>2. q \in Seq(Nat)
    BY <1>1
  <2>3. InLine(a, q)
    BY <1>1, <1>2, <2>1, InLineConcat
  <2>4. Before(a, f, q) /\ Before(a, box[a], q)
    BY <1>1, <1>2, <1>4, <2>1, BeforeConcat
  <2>5. Upto(q, sent)
    BY <1>1, <1>2, <2>1, UptoConcat
  <2>6. QED
    BY <2>2, <2>3, <2>4, <2>5
<1> HIDE DEF q
<1>6. /\ fields' = [fields EXCEPT ![a] = f] /\ replay' = [replay EXCEPT ![a] = q]
      /\ hand' = hand /\ box' = box /\ copy' = copy /\ disk' = disk /\ out' = out
      /\ cut' = cut /\ todo' = todo /\ phase' = phase /\ phase = "run"
      /\ spawning = <<a>> /\ spawning' = spawning
      /\ born' = born \cup {a}
      /\ loaded' = [loaded EXCEPT !.pending[a] = <<>>]
  BY DEF StartWorker, exit, counts, f, p, q
<1>7. /\ hand[a] = <<>> /\ InLine(a, <<>>) /\ Upto(<<>>, sent)
      /\ Before(a, f, <<>>) /\ Before(a, <<>>, box[a]) /\ Before(a, <<>>, q)
  BY <1>1, <1>3, <1>5, Small DEF Unborn
<1>8. /\ fields'[a] = f /\ replay'[a] = q
      /\ \A b \in Actors \ {a} : fields'[b] = fields[b] /\ replay'[b] = replay[b]
      /\ fields' \in Lists /\ replay' \in Lists
  BY <1>1, <1>5, <1>6 DEF Typed, Lists
<1>9. /\ loaded' \in Documents
      /\ loaded'.fields = loaded.fields
      /\ loaded'.pending[a] = <<>>
      /\ \A b \in Actors \ {a} : loaded'.pending[b] = loaded.pending[b]
  <2>1. loaded \in Documents /\ loaded.pending \in Lists
    BY DEF Typed, Documents
  <2>2. PICK n \in Documents : n = [loaded EXCEPT !.pending[a] = <<>>]
    BY <1>1, <2>1, Edited
  <2>3. n.fields = loaded.fields /\ n.pending = [loaded.pending EXCEPT ![a] = <<>>]
    BY <1>1, <2>1, <2>2, Edited
  <2>4. QED
    BY <1>1, <1>6, <2>1, <2>2, <2>3 DEF Lists
<1>10. Typed'
  BY <1>1, <1>6, <1>8, <1>9 DEF Typed
<1>11. AllInLine'
  <2>1. ASSUME NEW b \in Actors
        PROVE  Lined(b)' /\ Old(b, sent)' /\ (b \notin born' => Unborn(b)')
    <3>1. CASE b = a
      <4>1. Lined(a)'
        BY <1>2, <1>3, <1>4, <1>5, <1>6, <1>7, <1>8 DEF Lined
      <4>2. Old(a, sent)'
        BY <1>1, <1>2, <1>3, <1>5, <1>6, <1>7, <1>8 DEF Old
      <4>3. QED
        BY <1>6, <3>1, <4>1, <4>2
    <3>2. CASE b # a
      <4>1. Lined(b) /\ Old(b, sent) /\ (b \notin born => Unborn(b))
        BY DEF AllInLine
      <4>2. QED
        BY <1>1, <1>6, <1>8, <1>9, <3>2, <4>1 DEF Lined, Old, Unborn
    <3>3. QED
      BY <3>1, <3>2
  <2>2. QED
    BY <2>1 DEF AllInLine
<1>12. CopiesSound'
  BY <1>1, <1>6 DEF CopiesSound
<1>13. Collecting'
  BY <1>6 DEF Collecting
<1>14. Giving'
  BY <1>6, <1>8 DEF Giving
<1>15. Clean(loaded, sent)'
  <2>1. ASSUME NEW b \in Actors
        PROVE  /\ InLine(b, loaded'.fields[b]) /\ InLine(b, loaded'.pending[b])
               /\ Before(b, loaded'.fields[b], loaded'.pending[b])
               /\ Upto(loaded'.fields[b], sent) /\ Upto(loaded'.pending[b], sent)
    BY <1>2, <1>7, <1>9 DEF Clean, f
  <2>2. QED
    BY <1>1, <2>1 DEF Clean
<1>16. Clean(disk, sent)' /\ Clean(out, sent)'
  BY <1>1, <1>6
<1>17. QED
  BY <1>10, <1>11, <1>12, <1>13, <1>14, <1>15, <1>16

\* A message put back goes from the end of a line to the middle of it.
LEMMA ReplayStep ==
  ASSUME NodeIInv, NEW a \in Actors, Replay(a)
  PROVE  NodeIInv'
<1> USE DEF NodeIInv
<1> DEFINE h == <<Head(replay[a])>>
           q == Tail(replay[a])
           r == box[a] \o h
<1>1. /\ fields[a] \in Seq(Nat) /\ hand[a] \in Seq(Nat) /\ box[a] \in Seq(Nat)
      /\ replay[a] \in Seq(Nat) /\ sent \in Nat
  BY Parts
<1>2. h \in Seq(Nat) /\ q \in Seq(Nat) /\ replay[a] = h \o q /\ Head(replay[a]) \in Nat
  BY <1>1, HeadFirst DEF Replay
<1>3. /\ box' = [box EXCEPT ![a] = r] /\ replay' = [replay EXCEPT ![a] = q]
      /\ replay[a] # <<>>
      /\ fields' = fields /\ hand' = hand /\ copy' = copy /\ sent' = sent
      /\ disk' = disk /\ out' = out /\ loaded' = loaded
      /\ cut' = cut /\ todo' = todo /\ phase' = phase /\ phase = "run"
      /\ born' = born /\ spawning' = spawning
  <2>1. Append(box[a], Head(replay[a])) = r
    <3>1. \A e \in Nat : Append(box[a], e) = box[a] \o <<e>>
      BY <1>1
    <3>2. QED
      BY <1>2, <3>1
  <2>2. QED
    BY <2>1 DEF Replay, exit, counts
<1> HIDE DEF h, q
<1>4. Lined(a) /\ Old(a, sent)
  BY DEF AllInLine
<1>5. /\ InLine(a, h) /\ InLine(a, q) /\ Before(a, h, q)
      /\ Upto(h, sent) /\ Upto(q, sent)
      /\ \A s \in Seq(Nat) : Before(a, s, replay[a]) => Before(a, s, h) /\ Before(a, s, q)
  <2>1. InLine(a, h) /\ InLine(a, q) /\ Before(a, h, q)
    BY <1>2, <1>4, InLineConcat DEF Lined
  <2>2. Upto(h, sent) /\ Upto(q, sent)
    BY <1>1, <1>2, <1>4, UptoConcat DEF Old
  <2>3. \A s \in Seq(Nat) : Before(a, s, replay[a]) => Before(a, s, h) /\ Before(a, s, q)
    BY <1>2, BeforeConcat
  <2>4. QED
    BY <2>1, <2>2, <2>3
<1>6. /\ r \in Seq(Nat) /\ InLine(a, r) /\ Upto(r, sent) /\ Before(a, r, q)
      /\ \A s \in Seq(Nat) :
           Before(a, s, box[a]) /\ Before(a, s, replay[a]) => Before(a, s, r)
  <2>1. r \in Seq(Nat)
    BY <1>1, <1>2
  <2>2. InLine(a, r)
    BY <1>1, <1>2, <1>4, <1>5, InLineConcat DEF Lined
  <2>3. Upto(r, sent)
    BY <1>1, <1>2, <1>4, <1>5, UptoConcat DEF Old
  <2>4. Before(a, r, q)
    BY <1>1, <1>2, <1>4, <1>5, BeforeConcat DEF Lined
  <2>5. \A s \in Seq(Nat) :
          Before(a, s, box[a]) /\ Before(a, s, replay[a]) => Before(a, s, r)
    BY <1>1, <1>2, <1>5, BeforeConcat
  <2>6. QED
    BY <2>1, <2>2, <2>3, <2>4, <2>5
<1> HIDE DEF r
<1>7. /\ box'[a] = r /\ replay'[a] = q /\ box' \in Lists /\ replay' \in Lists
      /\ \A b \in Actors \ {a} : box'[b] = box[b] /\ replay'[b] = replay[b]
  BY <1>2, <1>3, <1>6 DEF Typed, Lists
<1>8. Typed'
  BY <1>3, <1>7 DEF Typed
<1>9. AllInLine'
  <2>1. ASSUME NEW b \in Actors
        PROVE  Lined(b)' /\ Old(b, sent)' /\ (b \notin born' => Unborn(b)')
    <3>1. Lined(b) /\ Old(b, sent) /\ (b \notin born => Unborn(b))
      BY DEF AllInLine
    <3>2. CASE b = a
      <4>1. Lined(a)'
        BY <1>1, <1>3, <1>4, <1>5, <1>6, <1>7 DEF Lined
      <4>2. Old(a, sent)'
        BY <1>3, <1>4, <1>5, <1>6, <1>7 DEF Old
      <4>3. a \in born'
        BY <1>3, <3>1, <3>2 DEF Unborn
      <4>4. QED
        BY <3>2, <4>1, <4>2, <4>3
    <3>3. CASE b # a
      BY <1>3, <1>7, <3>1, <3>3 DEF Lined, Old, Unborn
    <3>4. QED
      BY <3>2, <3>3
  <2>2. QED
    BY <2>1 DEF AllInLine
<1>10. CopiesSound'
  BY <1>3 DEF CopiesSound
<1>11. Collecting'
  BY <1>3 DEF Collecting
<1>12. Giving'
  BY <1>3, <1>7 DEF Giving
<1>13. Clean(disk, sent)' /\ Clean(loaded, sent)' /\ Clean(out, sent)'
  BY <1>3
<1>14. QED
  BY <1>8, <1>9, <1>10, <1>11, <1>12, <1>13

\* A new message is younger than all others; there are messages behind it only
\* on an eager actor.
LEMMA SendStep ==
  ASSUME NodeIInv, NEW a \in Actors, Send(a)
  PROVE  NodeIInv'
<1> USE DEF NodeIInv
<1> DEFINE e == <<sent + 1>>
           q == box[a] \o e
<1>1. sent \in Nat /\ sent' = sent + 1 /\ sent' \in Nat /\ e \in Seq(Nat)
      /\ \A b \in Actors : /\ fields[b] \in Seq(Nat) /\ hand[b] \in Seq(Nat)
                           /\ box[b] \in Seq(Nat) /\ replay[b] \in Seq(Nat)
                           /\ loaded.fields[b] \in Seq(Nat)
                           /\ loaded.pending[b] \in Seq(Nat)
  BY Parts DEF Send
<1>2. /\ box' = [box EXCEPT ![a] = q]
      /\ fields' = fields /\ hand' = hand /\ replay' = replay /\ copy' = copy
      /\ disk' = disk /\ out' = out /\ loaded' = loaded
      /\ cut' = cut /\ todo' = todo /\ phase' = phase /\ phase # "down"
      /\ born' = born /\ spawning' = spawning
  <2>1. Append(box[a], sent + 1) = q
    BY <1>1
  <2>2. QED
    BY <2>1 DEF Send, exit, spawns, Up
<1>3. /\ Upto(e, sent + 1)
      /\ \A s \in Seq(Nat) : Upto(s, sent) => Upto(s, sent + 1)
  BY <1>1, Small
<1>4. /\ InLine(a, e)
      /\ \A s \in Seq(Nat) : Upto(s, sent) => Before(a, s, e)
      /\ a \in Eager => \A s \in Seq(Nat) : Upto(s, sent) => Before(a, e, s)
      /\ Before(a, e, <<>>)
  BY <1>1, Small
<1> HIDE DEF e
<1>5. /\ a \in Eager \/ (a \in born /\ replay[a] = <<>>)
      /\ Lined(a) /\ Old(a, sent)
      /\ Upto(loaded.fields[a], sent) /\ Upto(loaded.pending[a], sent)
  <2>1. a \in Bound => a \in born /\ spawning # <<a>>
    BY DEF Bound, ToSet
  <2>2. QED
    BY <2>1 DEF Send, Giving, AllInLine, Clean
<1>6. Before(a, e, replay[a])
  BY <1>1, <1>4, <1>5 DEF Old
<1>7. /\ q \in Seq(Nat) /\ InLine(a, q) /\ Upto(q, sent + 1)
      /\ \A s \in Seq(Nat) : Upto(s, sent) /\ Before(a, s, box[a]) => Before(a, s, q)
      /\ \A s \in Seq(Nat) : Before(a, e, s) /\ Before(a, box[a], s) => Before(a, q, s)
  <2>1. InLine(a, box[a]) /\ Upto(box[a], sent) /\ q \in Seq(Nat)
    BY <1>1, <1>5 DEF Lined, Old
  <2>2. InLine(a, q)
    BY <1>1, <1>4, <2>1, InLineConcat
  <2>3. Upto(q, sent + 1)
    BY <1>1, <1>3, <2>1, UptoConcat
  <2>4. \A s \in Seq(Nat) : Upto(s, sent) /\ Before(a, s, box[a]) => Before(a, s, q)
    BY <1>1, <1>4, <2>1, BeforeConcat
  <2>5. \A s \in Seq(Nat) : Before(a, e, s) /\ Before(a, box[a], s) => Before(a, q, s)
    BY <1>1, <2>1, BeforeConcat
  <2>6. QED
    BY <2>1, <2>2, <2>3, <2>4, <2>5
<1> HIDE DEF q
<1>8. /\ box'[a] = q /\ box' \in Lists
      /\ \A b \in Actors \ {a} : box'[b] = box[b]
  BY <1>2, <1>7 DEF Typed, Lists
<1>9. Typed'
  BY <1>1, <1>2, <1>8 DEF Typed
<1>10. AllInLine'
  <2>1. ASSUME NEW b \in Actors
        PROVE  Lined(b)' /\ Old(b, sent)' /\ (b \notin born' => Unborn(b)')
    <3>1. Lined(b) /\ Old(b, sent) /\ (b \notin born => Unborn(b))
      BY DEF AllInLine
    <3>2. CASE b = a
      <4>1. Lined(a)'
        BY <1>1, <1>2, <1>5, <1>6, <1>7, <1>8 DEF Lined, Old
      <4>2. Old(a, sent)'
        BY <1>1, <1>2, <1>3, <1>5, <1>7, <1>8 DEF Old
      <4>3. a \notin born => Unborn(a)'
        <5>1. SUFFICES ASSUME a \notin born PROVE Unborn(a)'
          OBVIOUS
        <5>2. Before(a, loaded.fields[a], q)
          BY <1>1, <1>5, <1>7, <3>1, <3>2, <5>1 DEF Unborn
        <5>3. Before(a, q, loaded.pending[a])
          <6>1. Before(a, e, loaded.pending[a]) /\ Before(a, box[a], loaded.pending[a])
            BY <1>1, <1>4, <1>5, <3>1, <3>2, <5>1 DEF Unborn
          <6>2. QED
            BY <1>1, <1>7, <6>1
        <5>4. QED
          BY <1>2, <1>8, <3>1, <3>2, <5>1, <5>2, <5>3 DEF Unborn
      <4>4. QED
        BY <1>2, <3>2, <4>1, <4>2, <4>3
    <3>3. CASE b # a
      <4>1. Lined(b)' /\ (b \notin born' => Unborn(b)')
        BY <1>2, <1>8, <3>1, <3>3 DEF Lined, Unborn
      <4>2. Old(b, sent)'
        BY <1>1, <1>2, <1>3, <1>8, <3>1, <3>3 DEF Old
      <4>3. QED
        BY <4>1, <4>2
    <3>4. QED
      BY <3>2, <3>3
  <2>2. QED
    BY <2>1 DEF AllInLine
<1>11. CopiesSound'
  <2>1. ASSUME NEW b \in Actors, copy[b] # <<>>, NEW c \in Actors
        PROVE  InLine(c, Head(copy[b])[c]) /\ Upto(Head(copy[b])[c], sent + 1)
    <3>1. Head(copy[b])[c] \in Seq(Nat)
      BY <2>1, Parts DEF Lists
    <3>2. QED
      BY <1>3, <2>1, <3>1 DEF CopiesSound
  <2>2. QED
    BY <1>1, <1>2, <2>1 DEF CopiesSound
<1>12. Collecting'
  <2>1. ASSUME NEW b \in Actors, cut = <<b>>
        PROVE  Before(b, out.fields[b], box'[b]) /\ Before(b, out.pending[b], box'[b])
    <3>1. /\ out.fields[b] \in Seq(Nat) /\ out.pending[b] \in Seq(Nat)
          /\ Upto(out.fields[b], sent) /\ Upto(out.pending[b], sent)
      BY Parts DEF Clean
    <3>2. Before(b, out.fields[b], box[b]) /\ Before(b, out.pending[b], box[b])
      BY <2>1 DEF Collecting
    <3>3. QED
      BY <1>7, <1>8, <3>1, <3>2
  <2>2. QED
    BY <1>2, <2>1 DEF Collecting
<1>13. Giving'
  BY <1>2 DEF Giving
<1>14. Clean(disk, sent)' /\ Clean(loaded, sent)' /\ Clean(out, sent)'
  <2>1. Clean(disk, sent + 1) /\ Clean(loaded, sent + 1) /\ Clean(out, sent + 1)
    BY <1>1, Older DEF Typed
  <2>2. QED
    BY <1>1, <1>2, <2>1
<1>15. QED
  BY <1>9, <1>10, <1>11, <1>12, <1>13, <1>14

LEMMA TakeStep ==
  ASSUME NodeIInv, NEW a \in Actors, Take(a)
  PROVE  NodeIInv'
<1> USE DEF NodeIInv
<1> DEFINE h == <<Head(box[a])>>
           q == Tail(box[a])
<1>1. /\ box' = [box EXCEPT ![a] = q] /\ hand' = [hand EXCEPT ![a] = h]
      /\ box[a] # <<>>
      /\ fields' = fields /\ copy' = copy /\ sent' = sent
      /\ disk' = disk /\ out' = out /\ loaded' = loaded
      /\ cut' = cut /\ todo' = todo /\ phase' = phase /\ phase # "down"
      /\ born' = born /\ a \in born /\ replay' = replay /\ spawning' = spawning
  BY DEF Take, exit, counts, spawns, Up
<1>2. /\ fields[a] \in Seq(Nat) /\ replay[a] \in Seq(Nat) /\ box[a] \in Seq(Nat) /\ sent \in Nat
      /\ out.fields[a] \in Seq(Nat) /\ out.pending[a] \in Seq(Nat)
  BY Parts
<1>3. h \in Seq(Nat) /\ q \in Seq(Nat) /\ box[a] = h \o q
  BY <1>1, <1>2, HeadFirst
<1> HIDE DEF h, q
<1>4. /\ InLine(a, h) /\ InLine(a, q) /\ Before(a, h, q)
      /\ Before(a, fields[a], h) /\ Before(a, fields[a], q)
      /\ Before(a, h, replay[a]) /\ Before(a, q, replay[a])
      /\ Upto(h, sent) /\ Upto(q, sent)
      /\ \A s \in Seq(Nat) : Before(a, s, box[a]) => Before(a, s, q)
  <2>1. /\ InLine(a, box[a]) /\ Before(a, fields[a], box[a]) /\ Upto(box[a], sent)
        /\ Before(a, box[a], replay[a])
    BY DEF AllInLine, Lined, Old
  <2>2. InLine(a, h) /\ InLine(a, q) /\ Before(a, h, q)
    BY <1>3, <2>1, InLineConcat
  <2>3. Before(a, fields[a], h) /\ Before(a, fields[a], q)
    BY <1>2, <1>3, <2>1, BeforeConcat
  <2>4. Upto(h, sent) /\ Upto(q, sent)
    BY <1>2, <1>3, <2>1, UptoConcat
  <2>5. \A s \in Seq(Nat) : Before(a, s, box[a]) => Before(a, s, q)
    BY <1>3, BeforeConcat
  <2>6. Before(a, h, replay[a]) /\ Before(a, q, replay[a])
    BY <1>2, <1>3, <2>1, BeforeConcat
  <2>7. QED
    BY <2>1, <2>2, <2>3, <2>4, <2>5, <2>6
<1>5. /\ box'[a] = q /\ hand'[a] = h /\ box' \in Lists /\ hand' \in Lists
      /\ \A b \in Actors \ {a} : box'[b] = box[b] /\ hand'[b] = hand[b]
  BY <1>1, <1>3 DEF Typed, Lists
<1>6. Typed'
  BY <1>1, <1>5 DEF Typed
<1>7. AllInLine'
  <2>1. ASSUME NEW b \in Actors
        PROVE  Lined(b)' /\ Old(b, sent)' /\ (b \notin born' => Unborn(b)')
    <3>1. Lined(b) /\ Old(b, sent) /\ (b \notin born => Unborn(b))
      BY DEF AllInLine
    <3>2. CASE b = a
      <4>1. Lined(a)'
        BY <1>1, <1>4, <1>5, <3>1, <3>2 DEF Lined
      <4>2. Old(a, sent)'
        BY <1>1, <1>4, <1>5, <3>1, <3>2 DEF Old
      <4>3. QED
        BY <1>1, <3>2, <4>1, <4>2
    <3>3. CASE b # a
      BY <1>1, <1>5, <3>1, <3>3 DEF Lined, Old, Unborn
    <3>4. QED
      BY <3>2, <3>3
  <2>2. QED
    BY <2>1 DEF AllInLine
<1>8. CopiesSound' /\ Giving'
  BY <1>1 DEF CopiesSound, Giving
<1>9. Collecting'
  BY <1>1, <1>2, <1>4, <1>5 DEF Collecting
<1>10. Clean(disk, sent)' /\ Clean(loaded, sent)' /\ Clean(out, sent)'
  BY <1>1
<1>11. QED
  BY <1>6, <1>7, <1>8, <1>9, <1>10

LEMMA HandleStep ==
  ASSUME NodeIInv, NEW a \in Actors, Handle(a)
  PROVE  NodeIInv'
<1> USE DEF NodeIInv
<1> DEFINE f == Absorbed(a)
<1>1. /\ fields' = [fields EXCEPT ![a] = f]
      /\ hand' = [hand EXCEPT ![a] = <<>>]
      /\ \/ copy' = copy
         \/ copy' = [copy EXCEPT ![a] =
              <<[b \in Actors |-> IF b \in Bound THEN fields'[b] ELSE <<>>]>>]
      /\ box' = box /\ replay' = replay /\ spawning' = spawning /\ sent' = sent
      /\ disk' = disk /\ out' = out /\ loaded' = loaded
      /\ cut' = cut /\ todo' = todo /\ phase' = phase /\ born' = born
      /\ hand[a] # <<>>
  BY DEF Handle, exit, spawns, None
<1>2. /\ fields[a] \in Seq(Nat) /\ hand[a] \in Seq(Nat) /\ box[a] \in Seq(Nat)
      /\ replay[a] \in Seq(Nat) /\ sent \in Nat /\ <<>> \in Seq(Nat)
      /\ Lined(a) /\ Old(a, sent)
      /\ Upto(fields[a], sent) /\ Upto(hand[a], sent)
  BY Parts DEF AllInLine, Old
<1>3. f \in {fields[a] \o hand[a], fields[a], <<>>}
  BY DEF Absorbed
<1> HIDE DEF f
<1>4. \A s \in Seq(Nat) : Before(a, s, <<>>) /\ Before(a, <<>>, s)
  BY <1>2, Small
<1>5. InLine(a, <<>>) /\ Upto(<<>>, sent)
  BY <1>2, Small
<1>6. /\ f \in Seq(Nat) /\ InLine(a, f) /\ Upto(f, sent)
      /\ Before(a, f, box[a]) /\ Before(a, f, replay[a])
  <2>1. CASE f = fields[a] \o hand[a]
    <3>1. f \in Seq(Nat)
      BY <1>2, <2>1
    <3>2. InLine(a, f)
      BY <1>2, <2>1, InLineConcat DEF Lined
    <3>3. Before(a, f, box[a]) /\ Before(a, f, replay[a])
      BY <1>2, <2>1, BeforeConcat DEF Lined
    <3>4. Upto(f, sent)
      BY <1>2, <2>1, UptoConcat
    <3>5. QED
      BY <3>1, <3>2, <3>3, <3>4
  <2>2. CASE f = fields[a]
    BY <1>2, <2>2 DEF Lined
  <2>3. CASE f = <<>>
    BY <1>2, <1>4, <1>5, <2>3
  <2>4. QED
    BY <1>3, <2>1, <2>2, <2>3
<1>7. /\ fields'[a] = f /\ hand'[a] = <<>>
      /\ fields' \in Lists /\ hand' \in Lists
      /\ \A b \in Actors \ {a} : fields'[b] = fields[b] /\ hand'[b] = hand[b]
  BY <1>1, <1>2, <1>6 DEF Typed, Lists
<1>8. AllInLine'
  <2>1. ASSUME NEW b \in Actors
        PROVE  Lined(b)' /\ Old(b, sent)' /\ (b \notin born' => Unborn(b)')
    <3>1. Lined(b) /\ Old(b, sent) /\ (b \notin born => Unborn(b))
      BY DEF AllInLine
    <3>2. CASE b = a
      <4>1. Lined(a)'
        BY <1>1, <1>2, <1>4, <1>5, <1>6, <1>7, <3>1, <3>2 DEF Lined
      <4>2. Old(a, sent)'
        BY <1>1, <1>5, <1>6, <1>7, <3>1, <3>2 DEF Old
      <4>3. a \in born
        BY <1>1, <3>1, <3>2 DEF Unborn
      <4>4. QED
        BY <1>1, <3>2, <4>1, <4>2, <4>3
    <3>3. CASE b # a
      BY <1>1, <1>7, <3>1, <3>3 DEF Lined, Old, Unborn
    <3>4. QED
      BY <3>2, <3>3
  <2>2. QED
    BY <2>1 DEF AllInLine
<1> DEFINE g == [b \in Actors |-> IF b \in Bound THEN fields'[b] ELSE <<>>]
<1>9. g \in Lists /\ \A b \in Actors : InLine(b, g[b]) /\ Upto(g[b], sent)
  <2>1. \A b \in Actors : /\ fields'[b] \in Seq(Nat) /\ InLine(b, fields'[b])
                          /\ Upto(fields'[b], sent)
    BY <1>1, <1>7, <1>8 DEF AllInLine, Lined, Old, Lists
  <2>2. QED
    <3>1. \A b \in Actors : InLine(b, <<>>)
      BY <1>2, Small
    <3>2. QED
      BY <1>2, <1>5, <2>1, <3>1 DEF Lists
<1> HIDE DEF g
<1>10. copy' \in [Actors -> Seq(Lists)] /\ CopiesSound'
  <2>1. CASE copy' = copy
    BY <1>1, <2>1 DEF CopiesSound, Typed
  <2>2. CASE copy' = [copy EXCEPT ![a] = <<g>>]
    <3>1. <<g>> \in Seq(Lists) /\ Head(<<g>>) = g
      BY <1>9
    <3>2. /\ copy' \in [Actors -> Seq(Lists)]
          /\ copy'[a] = <<g>>
          /\ \A b \in Actors \ {a} : copy'[b] = copy[b]
      BY <2>2, <3>1 DEF Typed
    <3>3. QED
      BY <1>1, <1>9, <3>1, <3>2 DEF CopiesSound
  <2>3. QED
    BY <1>1, <2>1, <2>2 DEF g
<1>11. Typed'
  BY <1>1, <1>7, <1>10 DEF Typed
<1>12. Collecting' /\ Giving'
  BY <1>1 DEF Collecting, Giving
<1>13. Clean(disk, sent)' /\ Clean(loaded, sent)' /\ Clean(out, sent)'
  BY <1>1
<1>14. QED
  BY <1>8, <1>10, <1>11, <1>12, <1>13

LEMMA WriteStep ==
  ASSUME NodeIInv, NEW a \in Actors, Write(a)
  PROVE  NodeIInv'
<1> USE DEF NodeIInv
<1>1. /\ copy[a] # <<>>
      /\ disk' \in {[fields |-> Head(copy[a]), pending |-> Blank], disk}
      /\ copy' = [copy EXCEPT ![a] = <<>>]
      /\ fields' = fields /\ hand' = hand /\ box' = box /\ sent' = sent
      /\ out' = out /\ loaded' = loaded
      /\ cut' = cut /\ todo' = todo /\ phase' = phase /\ born' = born
      /\ replay' = replay /\ spawning' = spawning
  BY DEF Write, exit, counts, spawns, None
<1>2. sent \in Nat /\ Head(copy[a]) \in Lists
  BY <1>1, Parts
<1>3. disk' \in Documents /\ Clean(disk', sent)
  <2>1. CASE disk' = [fields |-> Head(copy[a]), pending |-> Blank]
    <3>1. /\ disk'.fields = Head(copy[a]) /\ disk'.pending = Blank
          /\ disk' \in Documents
      BY <1>2, <2>1, Nothing DEF Documents
    <3>2. ASSUME NEW b \in Actors
          PROVE  /\ InLine(b, disk'.fields[b]) /\ InLine(b, disk'.pending[b])
                 /\ Before(b, disk'.fields[b], disk'.pending[b])
                 /\ Upto(disk'.fields[b], sent) /\ Upto(disk'.pending[b], sent)
      <4>1. disk'.fields[b] \in Seq(Nat) /\ disk'.pending[b] = <<>> /\ 0 \in Nat
        BY <1>2, <3>1, Nothing DEF Lists
      <4>2. InLine(b, disk'.fields[b]) /\ Upto(disk'.fields[b], sent)
        BY <1>1, <3>1 DEF CopiesSound
      <4>3. QED
        BY <1>2, <4>1, <4>2, Small
    <3>3. QED
      BY <3>1, <3>2 DEF Clean
  <2>2. CASE disk' = disk
    BY <2>2 DEF Typed
  <2>3. QED
    BY <1>1, <2>1, <2>2
<1>4. /\ copy' \in [Actors -> Seq(Lists)] /\ copy'[a] = <<>>
      /\ \A b \in Actors \ {a} : copy'[b] = copy[b]
  BY <1>1 DEF Typed
<1>5. Typed' /\ CopiesSound'
  BY <1>1, <1>3, <1>4 DEF Typed, CopiesSound
<1>6. AllInLine'
  BY <1>1 DEF AllInLine, Lined, Old, Unborn
<1>7. Collecting' /\ Giving'
  BY <1>1 DEF Collecting, Giving
<1>8. QED
  BY <1>1, <1>3, <1>5, <1>6, <1>7

\* Steps of the process that end the collecting, or have not begun it.
LEMMA NodeStep ==
  ASSUME NodeIInv, EndScript \/ Save \/ Restart
  PROVE  NodeIInv'
<1> USE DEF NodeIInv
<1>1. /\ fields' = fields /\ hand' = hand /\ box' = box /\ copy' = copy
      /\ sent' = sent /\ born' = born /\ replay' = replay /\ spawning' = spawning
      /\ disk' \in {disk, out} /\ loaded' \in {loaded, disk}
      /\ out' \in {out, Empty}
  BY DEF EndScript, Save, Restart, live, exit, counts, spawns
<1>2. sent \in Nat
  BY DEF Typed
<1>3. Typed'
  <2>1. todo' \subseteq Actors
    BY DEF EndScript, Save, Restart, exit, Typed
  <2>2. QED
    BY <1>1, <1>2, <2>1, Nothing DEF Typed
<1>4. AllInLine' /\ CopiesSound' /\ Giving'
  <2>1. CASE loaded' = loaded /\ phase' # "down"
    BY <1>1, <2>1 DEF AllInLine, Lined, Old, Unborn, CopiesSound, Giving
  <2>2. CASE /\ \A a \in Actors : box[a] = <<>>
             /\ loaded' = disk /\ phase' = "run"
    <3>1. ASSUME NEW a \in Actors
          PROVE  /\ Before(a, disk.fields[a], <<>>)
                 /\ Before(a, <<>>, disk.pending[a])
      BY <1>2, Parts, Small
    <3>2. QED
      BY <1>1, <2>2, <3>1 DEF AllInLine, Lined, Old, Unborn, CopiesSound, Giving
  <2>3. QED
    BY <2>1, <2>2 DEF EndScript, Save, Restart, Up, Giving, exit, counts
<1>5. Clean(disk, sent)' /\ Clean(loaded, sent)' /\ Clean(out, sent)'
  BY <1>1, <1>2, Nothing
<1>6. Collecting'
  <2>1. CASE EndScript
    <3>1. /\ cut' = <<>> /\ out' = Empty /\ todo' = Actors
      BY <2>1 DEF EndScript, Collecting
    <3>2. QED
      BY <1>2, <3>1, Nothing DEF Collecting
  <2>2. CASE Save
    BY <2>2 DEF Save, Collecting, exit, live, None
  <2>3. CASE Restart
    BY <2>3 DEF Restart, Collecting, exit, live, Up
  <2>4. QED
    BY <2>1, <2>2, <2>3
<1>7. QED
  BY <1>3, <1>4, <1>5, <1>6

LEMMA StopStep ==
  ASSUME NodeIInv, Stop
  PROVE  NodeIInv'
<1> USE DEF NodeIInv
<1>1. /\ fields' = Blank /\ hand' = Blank /\ box' = Blank /\ copy' = Blank
      /\ loaded' = Empty /\ out' = Empty /\ disk' = disk /\ sent' = sent
      /\ cut' = <<>> /\ todo' = {} /\ born' = {} /\ replay' = Blank
  BY DEF Stop, counts, None
<1>2. sent \in Nat /\ \A a \in Actors : Blank[a] = <<>>
  BY Nothing DEF Typed
<1>3. Blank \in [Actors -> Seq(Lists)]
  BY DEF Blank
<1>4. Typed'
  BY <1>1, <1>2, <1>3, Nothing DEF Typed
<1>5. /\ Upto(<<>>, sent)
      /\ \A a \in Actors : InLine(a, <<>>) /\ Before(a, <<>>, <<>>)
  <2>1. <<>> \in Seq(Nat) /\ 0 \in Nat
    OBVIOUS
  <2>2. QED
    BY <1>2, <2>1, Small
<1>6. AllInLine' /\ CopiesSound' /\ Giving'
  <2>1. Empty.fields = Blank /\ Empty.pending = Blank
    BY Nothing
  <2>2. QED
    BY <1>1, <1>2, <1>5, <2>1
       DEF AllInLine, Lined, Old, Unborn, CopiesSound, Giving
<1>7. Collecting'
  BY <1>1 DEF Collecting
<1>8. Clean(disk, sent)' /\ Clean(loaded, sent)' /\ Clean(out, sent)'
  BY <1>1, <1>2, Nothing
<1>9. QED
  BY <1>4, <1>6, <1>7, <1>8

LEMMA VisitStep ==
  ASSUME NodeIInv, NEW a \in Actors, Visit(a)
  PROVE  NodeIInv'
<1> USE DEF NodeIInv
<1>1. /\ phase = "saving" /\ cut = <<>> /\ a \in todo
      /\ cut' = <<a>>
      /\ out' = [out EXCEPT !.fields[a] = fields[a]]
      /\ fields' = fields /\ hand' = hand /\ box' = box /\ copy' = copy
      /\ sent' = sent /\ disk' = disk /\ loaded' = loaded
      /\ todo' = todo /\ phase' = phase /\ born' = born
      /\ replay' = replay /\ spawning' = spawning
  BY DEF Visit, live, counts, spawns, None
<1>2. /\ fields[a] \in Seq(Nat) /\ box[a] \in Seq(Nat) /\ sent \in Nat
      /\ out \in Documents
      /\ InLine(a, fields[a]) /\ Upto(fields[a], sent) /\ Before(a, fields[a], box[a])
  BY Parts DEF AllInLine, Lined, Old, Typed
<1>3. /\ out' \in Documents
      /\ out'.fields[a] = fields[a]
      /\ \A b \in Actors \ {a} : out'.fields[b] = out.fields[b]
      /\ out'.pending = out.pending
  <2>1. PICK n \in Documents : n = [out EXCEPT !.fields[a] = fields[a]]
    BY <1>2, Edited
  <2>2. /\ n.fields = [out.fields EXCEPT ![a] = fields[a]]
        /\ n.pending = out.pending
    BY <1>2, <2>1, Edited
  <2>3. out.fields \in Lists
    BY <1>2 DEF Documents
  <2>4. QED
    BY <1>1, <1>2, <2>1, <2>2, <2>3 DEF Lists
<1>4. out.pending[a] = <<>> /\ <<a>> # <<>>
  BY <1>1 DEF Collecting
<1>5. /\ Before(a, fields[a], <<>>) /\ Before(a, <<>>, box[a])
  BY <1>2, Small
<1>6. Typed'
  BY <1>1, <1>3 DEF Typed
<1>7. AllInLine' /\ CopiesSound' /\ Giving'
  BY <1>1 DEF AllInLine, Lined, Old, Unborn, CopiesSound, Giving
<1>8. Clean(out, sent)'
  <2>1. ASSUME NEW b \in Actors
        PROVE  /\ InLine(b, out'.fields[b]) /\ InLine(b, out'.pending[b])
               /\ Before(b, out'.fields[b], out'.pending[b])
               /\ Upto(out'.fields[b], sent) /\ Upto(out'.pending[b], sent)
    <3>1. CASE b = a
      BY <1>2, <1>3, <1>4, <1>5, <3>1 DEF Clean
    <3>2. CASE b # a
      BY <1>3, <3>2 DEF Clean
    <3>3. QED
      BY <3>1, <3>2
  <2>2. QED
    BY <1>1, <2>1 DEF Clean
<1>9. Collecting'
  <2>1. ASSUME NEW b \in Actors, cut' = <<b>>
        PROVE  Before(b, out'.fields[b], box'[b]) /\ Before(b, out'.pending[b], box'[b])
    <3>1. b = a
      BY <1>1, <2>1
    <3>2. QED
      BY <1>1, <1>2, <1>3, <1>4, <1>5, <3>1
  <2>2. \A b \in todo' : out'.pending[b] = <<>>
    <3>1. \A b \in todo : cut # <<b>>
      BY <1>1
    <3>2. QED
      BY <1>1, <1>3, <3>1 DEF Collecting
  <2>3. QED
    BY <1>1, <2>1, <2>2 DEF Collecting
<1>10. Clean(disk, sent)' /\ Clean(loaded, sent)'
  BY <1>1
<1>11. QED
  BY <1>6, <1>7, <1>8, <1>9, <1>10

LEMMA DrainStep ==
  ASSUME NodeIInv, NEW a \in Actors, Drain(a)
  PROVE  NodeIInv'
<1> USE DEF NodeIInv
<1>1. /\ phase = "saving" /\ cut = <<a>>
      /\ fields' = fields /\ hand' = hand /\ copy' = copy
      /\ sent' = sent /\ disk' = disk /\ loaded' = loaded
      /\ phase' = phase /\ born' = born
      /\ replay' = replay /\ spawning' = spawning
  BY DEF Drain, counts, spawns
<1>2. CASE /\ box[a] = <<>> /\ cut' = <<>> /\ todo' = todo \ {a}
           /\ box' = box /\ out' = out
  <2>1. Typed' /\ AllInLine' /\ CopiesSound' /\ Giving'
    BY <1>1, <1>2 DEF Typed, AllInLine, Lined, Old, Unborn, CopiesSound, Giving
  <2>2. Collecting'
    <3>1. \A b \in todo' : cut # <<b>>
      BY <1>1, <1>2
    <3>2. QED
      BY <1>1, <1>2, <3>1 DEF Collecting
  <2>3. Clean(disk, sent)' /\ Clean(loaded, sent)' /\ Clean(out, sent)'
    BY <1>1, <1>2
  <2>4. QED
    BY <2>1, <2>2, <2>3
<1>3. CASE /\ box[a] # <<>>
           /\ box' = [box EXCEPT ![a] = Tail(box[a])]
           /\ \/ out' = [out EXCEPT !.pending[a] = out.pending[a]]
              \/ out' = [out EXCEPT !.pending[a] =
                           Append(out.pending[a], Head(box[a]))]
           /\ cut' = cut /\ todo' = todo
  <2> DEFINE h == <<Head(box[a])>>
             q == Tail(box[a])
             f == out.fields[a]
             p == out.pending[a]
  <2>1. /\ fields[a] \in Seq(Nat) /\ hand[a] \in Seq(Nat) /\ box[a] \in Seq(Nat)
        /\ replay[a] \in Seq(Nat) /\ loaded.fields[a] \in Seq(Nat)
        /\ loaded.pending[a] \in Seq(Nat)
        /\ f \in Seq(Nat) /\ p \in Seq(Nat) /\ sent \in Nat /\ out \in Documents
    BY Parts DEF Typed
  <2>2. /\ h \in Seq(Nat) /\ q \in Seq(Nat) /\ box[a] = h \o q
        /\ Append(p, Head(box[a])) = p \o h
    <3>1. /\ h \in Seq(Nat) /\ q \in Seq(Nat) /\ box[a] = h \o q
          /\ Head(box[a]) \in Nat
      BY <1>3, <2>1, HeadFirst
    <3> HIDE DEF p
    <3>2. \A e \in Nat : Append(p, e) = p \o <<e>>
      BY <2>1
    <3>3. QED
      BY <3>1, <3>2
  <2>3. /\ box' = [box EXCEPT ![a] = q]
        /\ \/ out' = [out EXCEPT !.pending[a] = p]
           \/ out' = [out EXCEPT !.pending[a] = p \o h]
    BY <1>3, <2>2
  <2> HIDE DEF h, q, f, p
  <2>4. /\ InLine(a, box[a]) /\ Upto(box[a], sent)
        /\ Before(a, fields[a], box[a]) /\ Before(a, hand[a], box[a])
        /\ InLine(a, fields[a]) /\ InLine(a, hand[a]) /\ Before(a, fields[a], hand[a])
        /\ Upto(fields[a], sent) /\ Upto(hand[a], sent)
        /\ Before(a, f, box[a]) /\ Before(a, p, box[a])
        /\ InLine(a, f) /\ InLine(a, p) /\ Before(a, f, p)
        /\ Upto(f, sent) /\ Upto(p, sent)
    BY <1>1 DEF AllInLine, Lined, Old, Collecting, Clean, f, p
  <2>5. InLine(a, h) /\ InLine(a, q) /\ Before(a, h, q)
    BY <2>2, <2>4, InLineConcat
  <2>6. Upto(h, sent) /\ Upto(q, sent)
    BY <2>1, <2>2, <2>4, UptoConcat
  <2>7. /\ \A s \in Seq(Nat) : Before(a, s, box[a]) => Before(a, s, h) /\ Before(a, s, q)
        /\ \A s \in Seq(Nat) : Before(a, box[a], s) => Before(a, q, s)
    BY <2>2, BeforeConcat
  <2>8. /\ box' \in Lists /\ box'[a] = q
        /\ \A b \in Actors \ {a} : box'[b] = box[b]
    BY <2>2, <2>3 DEF Typed, Lists
  <2>9. AllInLine' /\ CopiesSound' /\ Giving'
    <3>1. ASSUME NEW b \in Actors
          PROVE  Lined(b)' /\ Old(b, sent)' /\ (b \notin born' => Unborn(b)')
      <4>1. Lined(b) /\ Old(b, sent) /\ (b \notin born => Unborn(b))
        BY DEF AllInLine
      <4>2. CASE b = a
        <5>1. Lined(a)'
          BY <1>1, <2>1, <2>5, <2>7, <2>8, <4>1, <4>2 DEF Lined
        <5>2. Old(a, sent)'
          BY <1>1, <2>6, <2>8, <4>1, <4>2 DEF Old
        <5>3. a \notin born' => Unborn(a)'
          BY <1>1, <2>1, <2>7, <2>8, <4>1, <4>2 DEF Unborn
        <5>4. QED
          BY <4>2, <5>1, <5>2, <5>3
      <4>3. CASE b # a
        BY <1>1, <2>8, <4>1, <4>3 DEF Lined, Old, Unborn
      <4>4. QED
        BY <4>2, <4>3
    <3>2. AllInLine'
      BY <3>1 DEF AllInLine
    <3>3. QED
      BY <1>1, <3>2 DEF CopiesSound, Giving
  <2> DEFINE r == p \o h
  <2>10. /\ r \in Seq(Nat) /\ InLine(a, r) /\ Before(a, f, r) /\ Before(a, r, q)
         /\ Upto(r, sent)
    <3>1. Before(a, p, h) /\ Before(a, p, q) /\ Before(a, f, h)
      BY <2>1, <2>4, <2>7
    <3>2. r \in Seq(Nat)
      BY <2>1, <2>2
    <3>3. InLine(a, r)
      BY <2>1, <2>2, <2>4, <2>5, <3>1, InLineConcat
    <3>4. Before(a, f, r) /\ Before(a, r, q)
      BY <2>1, <2>2, <2>4, <2>5, <3>1, BeforeConcat
    <3>5. Upto(r, sent)
      BY <2>1, <2>2, <2>4, <2>6, UptoConcat
    <3>6. QED
      BY <3>2, <3>3, <3>4, <3>5
  <2> HIDE DEF r
  <2>11. /\ out' \in Documents /\ out'.fields = out.fields
         /\ out'.pending[a] = p \/ out'.pending[a] = r
         /\ \A b \in Actors \ {a} : out'.pending[b] = out.pending[b]
    <3>1. ASSUME NEW t \in {p, r}, out' = [out EXCEPT !.pending[a] = t]
          PROVE  /\ out' \in Documents /\ out'.fields = out.fields
                 /\ out'.pending[a] = t
                 /\ \A b \in Actors \ {a} : out'.pending[b] = out.pending[b]
      <4>1. t \in Seq(Nat)
        BY <2>1, <2>10
      <4>2. PICK n \in Documents : n = [out EXCEPT !.pending[a] = t]
        BY <2>1, <4>1, Edited
      <4>3. /\ n.pending = [out.pending EXCEPT ![a] = t]
            /\ n.fields = out.fields
        BY <2>1, <4>1, <4>2, Edited
      <4>4. out.pending \in Lists
        BY <2>1 DEF Documents
      <4>5. QED
        BY <3>1, <4>1, <4>2, <4>3, <4>4 DEF Lists
    <3>2. out' = [out EXCEPT !.pending[a] = p] \/ out' = [out EXCEPT !.pending[a] = r]
      BY <2>3 DEF r
    <3>3. QED
      BY <3>1, <3>2
  <2>12. Typed'
    BY <1>1, <1>3, <2>8, <2>11 DEF Typed
  <2>13. Clean(out, sent)'
    <3>1. ASSUME NEW b \in Actors
          PROVE  /\ InLine(b, out'.fields[b]) /\ InLine(b, out'.pending[b])
                 /\ Before(b, out'.fields[b], out'.pending[b])
                 /\ Upto(out'.fields[b], sent) /\ Upto(out'.pending[b], sent)
      <4>1. CASE b = a
        BY <2>4, <2>10, <2>11, <4>1 DEF f
      <4>2. CASE b # a
        BY <2>11, <4>2 DEF Clean
      <4>3. QED
        BY <4>1, <4>2
    <3>2. QED
      BY <1>1, <3>1 DEF Clean
  <2>14. Collecting'
    <3>1. ASSUME NEW b \in Actors, cut' = <<b>>
          PROVE  Before(b, out'.fields[b], box'[b]) /\ Before(b, out'.pending[b], box'[b])
      <4>1. b = a
        BY <1>1, <1>3, <3>1
      <4>2. QED
        BY <2>1, <2>4, <2>7, <2>8, <2>10, <2>11, <4>1 DEF f
    <3>2. ASSUME NEW b \in todo', cut' # <<b>>
          PROVE  out'.pending[b] = <<>>
      <4>1. b # a /\ b \in todo /\ cut # <<b>>
        BY <1>1, <1>3, <3>2
      <4>2. out.pending[b] = <<>>
        BY <4>1 DEF Collecting
      <4>3. QED
        BY <2>11, <4>1, <4>2 DEF Typed
    <3>3. QED
      BY <1>1, <1>3, <3>1, <3>2 DEF Collecting
  <2>15. Clean(disk, sent)' /\ Clean(loaded, sent)'
    BY <1>1
  <2>16. QED
    BY <2>9, <2>12, <2>13, <2>14, <2>15
<1>4. CASE /\ box[a] # <<>>
           /\ out' = [out EXCEPT !.pending[a] =
                        IF Head(box[a]) \in Opaque THEN @
                        ELSE Append(@, Head(box[a]))]
           /\ box' = [box EXCEPT ![a] = Tail(@)]
           /\ UNCHANGED <<todo, cut>>
  <2>1. CASE Head(box[a]) \in Opaque
    BY <1>3, <1>4, <2>1
  <2>2. CASE Head(box[a]) \notin Opaque
    BY <1>3, <1>4, <2>2
  <2>3. QED
    BY <2>1, <2>2
<1>5. QED
  BY <1>2, <1>4 DEF Drain, None

LEMMA NextNodeIInv == NodeIInv /\ [NodeNext]_nodeVars => NodeIInv'
<1> SUFFICES ASSUME NodeIInv, [NodeNext]_nodeVars PROVE NodeIInv'
  OBVIOUS
<1>1. CASE UNCHANGED nodeVars
  BY <1>1 DEF nodeVars, spawns, NodeIInv, Typed, AllInLine, Lined, Old, Unborn,
              Giving, CopiesSound, Collecting, Clean
<1>2. ASSUME NEW a \in Actors,
             \/ Spawn(a) \/ StartWorker(a) \/ Replay(a) \/ Bind(a)
             \/ Send(a) \/ Take(a) \/ Handle(a) \/ Write(a)
             \/ Visit(a) \/ Drain(a)
      PROVE  NodeIInv'
  BY <1>2, SpawnStep, StartWorkerStep, ReplayStep, SendStep, TakeStep, HandleStep, WriteStep, VisitStep,
     DrainStep
<1>3. CASE EndScript \/ Save \/ Restart
  BY <1>3, NodeStep
<1>4. CASE Stop
  BY <1>4, StopStep
<1>5. QED
  BY <1>1, <1>2, <1>3, <1>4 DEF NodeNext

\* The parts of every sequence of messages are in order.
THEOREM NodeInvariance == NodeSpec => []NodeIInv
BY InitNodeIInv, NextNodeIInv, PTL DEF NodeSpec

\* For any actors, any messages and any number of saves, crashes and restarts
\* (restore and replay of spawn_actor, save_state, save on exit), no message is
\* absorbed twice and none overtakes another.
THEOREM NoneTwice == NodeSpec => []ExactlyOnce
<1>1. NodeIInv => ExactlyOnce
  <2> SUFFICES ASSUME NodeIInv, NEW a \in Actors
               PROVE  /\ InLine(a, disk.fields[a] \o disk.pending[a])
                      /\ InLine(a, fields[a] \o hand[a] \o box[a] \o replay[a])
    BY DEF ExactlyOnce
  <2>1. /\ fields[a] \in Seq(Nat) /\ hand[a] \in Seq(Nat) /\ box[a] \in Seq(Nat)
        /\ replay[a] \in Seq(Nat)
        /\ disk.fields[a] \in Seq(Nat) /\ disk.pending[a] \in Seq(Nat)
    BY Parts DEF NodeIInv
  <2>2. InLine(a, disk.fields[a] \o disk.pending[a])
    BY <2>1, InLineConcat DEF NodeIInv, Clean
  <2>3. Lined(a)
    BY DEF NodeIInv, AllInLine
  <2> DEFINE s == fields[a] \o hand[a]
  <2>4. s \in Seq(Nat) /\ InLine(a, s)
    BY <2>1, <2>3, InLineConcat DEF Lined
  <2>5. Before(a, s, box[a])
    BY <2>1, <2>3, BeforeConcat DEF Lined
  <2> HIDE DEF s
  <2> DEFINE u == s \o box[a]
  <2>6. u \in Seq(Nat) /\ InLine(a, u)
    BY <2>1, <2>3, <2>4, <2>5, InLineConcat DEF Lined
  <2>7. Before(a, s, replay[a])
    BY <2>1, <2>3, BeforeConcat DEF Lined, s
  <2>8. Before(a, u, replay[a])
    BY <2>1, <2>3, <2>4, <2>7, BeforeConcat DEF Lined
  <2> HIDE DEF u
  <2>9. InLine(a, u \o replay[a])
    BY <2>1, <2>3, <2>6, <2>8, InLineConcat DEF Lined
  <2>10. QED
    BY <2>2, <2>9 DEF s, u
<1>2. QED
  BY <1>1, NodeInvariance, PTL

-----------------------------------------------------------------------------
\* A prefix stays one when the sequence grows.
LEMMA PrefixGrows ==
  ASSUME NEW r \in Seq(Nat), NEW s \in Seq(Nat), NEW t \in Seq(Nat)
  PROVE  IsPrefix(r, r) /\ (IsPrefix(r, s) => IsPrefix(r, s \o t))
<1>1. IsPrefix(r, r)
  BY DEF IsPrefix
<1>2. ASSUME IsPrefix(r, s) PROVE IsPrefix(r, s \o t)
  <2> DEFINE u == s \o t
  <2>1. /\ Len(r) \in Nat /\ Len(s) \in Nat /\ Len(r) <= Len(s)
        /\ SubSeq(r, 1, Len(r)) = SubSeq(s, 1, Len(r))
    BY <1>2 DEF IsPrefix
  <2>2. /\ u \in Seq(Nat) /\ Len(u) = Len(s) + Len(t)
        /\ \A i \in 1 .. Len(s) : u[i] = s[i]
    OBVIOUS
  <2> HIDE DEF u
  <2>3. Len(r) <= Len(u)
    BY <2>1, <2>2
  <2>4. SubSeq(u, 1, Len(r)) = SubSeq(s, 1, Len(r))
    BY <2>1, <2>2, <2>3
  <2>5. QED
    BY <2>1, <2>3, <2>4 DEF u, IsPrefix
<1>3. QED
  BY <1>1, <1>2

RestoreIInv ==
  RestoredKept /\ born \subseteq Actors /\ (phase = "down" => born = {})

LEMMA RestoreStep ==
  NodeIInv /\ RestoreIInv /\ [NodeNext]_nodeVars => RestoreIInv'
<1> SUFFICES ASSUME NodeIInv, RestoreIInv, [NodeNext]_nodeVars
             PROVE  RestoreIInv'
  OBVIOUS
<1> USE DEF RestoreIInv
<1>0. Typed
  BY DEF NodeIInv
<1>1. \A a \in Actors : /\ fields[a] \in Seq(Nat) /\ hand[a] \in Seq(Nat)
                        /\ loaded.fields[a] \in Seq(Nat)
  BY <1>0, Parts
<1>2. CASE \/ UNCHANGED nodeVars
           \/ \E a \in Actors : \/ Spawn(a) \/ Replay(a) \/ Bind(a) \/ Send(a)
                                \/ Take(a) \/ Write(a) \/ Visit(a) \/ Drain(a)
           \/ EndScript \/ Save
  <2>1. /\ born' = born /\ fields' = fields /\ loaded' = loaded
        /\ phase' = "down" => phase = "down"
    BY <1>2 DEF nodeVars, Spawn, Replay, Bind, Send, Take, Write, Visit, Drain,
                EndScript, Save, spawns, live, exit, counts
  <2>2. QED
    BY <2>1 DEF RestoredKept
<1>3. ASSUME NEW a \in Actors, StartWorker(a) PROVE RestoreIInv'
  <2>1. /\ born' = born \cup {a} /\ fields' = [fields EXCEPT ![a] = loaded.fields[a]]
        /\ phase' = phase /\ phase = "run"
        /\ loaded' = [loaded EXCEPT !.pending[a] = <<>>]
    BY <1>3 DEF StartWorker
  <2>2. loaded'.fields = loaded.fields
    <3>1. loaded \in Documents /\ <<>> \in Seq(Nat)
      BY <1>0 DEF Typed
    <3>2. PICK n \in Documents : n = [loaded EXCEPT !.pending[a] = <<>>]
      BY <3>1, Edited
    <3>3. n.fields = loaded.fields
      BY <3>1, <3>2, Edited
    <3>4. QED
      BY <2>1, <3>2, <3>3
  <2>3. fields'[a] = loaded.fields[a] /\ \A b \in Actors \ {a} : fields'[b] = fields[b]
    BY <1>0, <2>1 DEF Typed, Lists
  <2>4. ASSUME NEW b \in born', b \notin Resetting
        PROVE  IsPrefix(loaded'.fields[b], fields'[b])
    <3>1. CASE b = a
      BY <1>1, <2>2, <2>3, <3>1, PrefixGrows
    <3>2. CASE b # a
      BY <2>1, <2>2, <2>3, <2>4, <3>2 DEF RestoredKept
    <3>3. QED
      BY <3>1, <3>2
  <2>5. QED
    BY <2>1, <2>4 DEF RestoredKept
<1>4. ASSUME NEW a \in Actors, Handle(a) PROVE RestoreIInv'
  <2>1. /\ born' = born /\ fields' = [fields EXCEPT ![a] = Absorbed(a)]
        /\ phase' = phase /\ loaded' = loaded
    BY <1>4 DEF Handle, spawns
  <2>2. fields'[a] = Absorbed(a) /\ \A b \in Actors \ {a} : fields'[b] = fields[b]
    BY <1>0, <2>1 DEF Typed, Lists
  <2>3. a \notin Resetting => Absorbed(a) \in {fields[a], fields[a] \o hand[a]}
    BY DEF Absorbed
  <2>4. ASSUME NEW b \in born, b \notin Resetting
        PROVE  IsPrefix(loaded.fields[b], fields'[b])
    <3>1. IsPrefix(loaded.fields[b], fields[b])
      BY <2>4 DEF RestoredKept
    <3>2. CASE b = a
      BY <1>1, <2>2, <2>3, <2>4, <3>1, <3>2, PrefixGrows
    <3>3. CASE b # a
      BY <2>2, <3>1, <3>3
    <3>4. QED
      BY <3>2, <3>3
  <2>5. QED
    BY <2>1, <2>4 DEF RestoredKept
<1>5. CASE Stop
  BY <1>5 DEF Stop, RestoredKept
<1>6. CASE Restart
  BY <1>6 DEF Restart, Up, RestoredKept, live, exit, spawns
<1>7. QED
  BY <1>2, <1>3, <1>4, <1>5, <1>6 DEF NodeNext

\* What was restored stays part of the fields of an actor whose init does not
\* assign them, for any actors and messages.
THEOREM Kept == NodeSpec => []RestoredKept
<1>1. NodeInit => RestoreIInv
  BY DEF NodeInit, RestoreIInv, RestoredKept
<1>2. RestoreIInv => RestoredKept
  BY DEF RestoreIInv
<1>3. QED
  BY <1>1, <1>2, NodeInvariance, RestoreStep, PTL DEF NodeSpec

-----------------------------------------------------------------------------
\* After a quiet exit nothing moves any more, and what has been visited is
\* what is collected.
QuietIInv ==
  quiet =>
    /\ phase \in {"saving", "saved", "failed"} /\ Idle
    /\ todo \subseteq Actors
    /\ out.pending = Blank
    /\ \A a \in Actors : a \notin todo \/ cut = <<a>> => out.fields[a] = fields[a]
    /\ phase = "saved" => QuietExitSavesAll

LEMMA QuietStep ==
  NodeIInv /\ QuietIInv /\ [NodeNext]_nodeVars => QuietIInv'
<1> SUFFICES ASSUME NodeIInv, QuietIInv, [NodeNext]_nodeVars, quiet'
             PROVE  QuietIInv'
  BY DEF QuietIInv
<1>0. Typed
  BY DEF NodeIInv
<1>1. CASE UNCHANGED nodeVars
  BY <1>1 DEF nodeVars, QuietIInv, Idle, Busy, QuietExitSavesAll
<1>2. CASE EndScript
  <2>1. /\ phase' = "saving" /\ Idle /\ todo' = Actors /\ out' = Empty
        /\ cut' = <<>> /\ UNCHANGED live
    BY <1>2 DEF EndScript, NodeIInv, Collecting
  <2>2. Idle' /\ out'.pending = Blank
    BY <2>1, <1>0, Nothing DEF live, Idle, Busy, Typed
  <2>3. QED
    BY <2>1, <2>2 DEF QuietIInv
<1>3. CASE Stop
  BY <1>3 DEF Stop
<1>4. ASSUME quiet, ~EndScript, ~Stop, NodeNext
      PROVE  QuietIInv'
  <2>1. /\ phase \in {"saving", "saved", "failed"} /\ Idle /\ todo \subseteq Actors
        /\ out.pending = Blank
        /\ \A a \in Actors : a \notin todo \/ cut = <<a>> => out.fields[a] = fields[a]
        /\ phase = "saved" => QuietExitSavesAll
    BY <1>4 DEF QuietIInv
  <2>2. ASSUME NEW a \in Actors,
               \/ Spawn(a) \/ StartWorker(a) \/ Replay(a) \/ Bind(a)
               \/ Send(a) \/ Take(a) \/ Handle(a) \/ Write(a)
        PROVE  FALSE
    BY <2>1, <2>2 DEF Spawn, StartWorker, Replay, Bind, Send, Take, Handle, Write, Idle, Busy
  <2>3. ASSUME NEW a \in Actors, Visit(a) PROVE QuietIInv'
    <3>1. /\ phase = "saving" /\ phase' = phase /\ UNCHANGED live /\ todo' = todo
          /\ cut = <<>> /\ cut' = <<a>>
          /\ out' = [out EXCEPT !.fields[a] = fields[a]]
      BY <2>3 DEF Visit, None
    <3>2. PICK n \in Documents : n = [out EXCEPT !.fields[a] = fields[a]]
      BY <1>0, Parts, Edited DEF Typed
    <3>3. /\ n.fields = [out.fields EXCEPT ![a] = fields[a]]
          /\ n.pending = out.pending /\ out.fields \in Lists
      BY <1>0, <3>2, Parts, Edited DEF Typed, Documents
    <3>4. out'.fields[a] = fields[a]
          /\ \A b \in Actors \ {a} : out'.fields[b] = out.fields[b]
      BY <3>1, <3>2, <3>3 DEF Lists
    <3>5. \A b \in Actors : b \notin todo \/ cut' = <<b>> => out'.fields[b] = fields[b]
      BY <2>1, <3>1, <3>4
    <3>6. Idle' /\ fields' = fields
      BY <2>1, <3>1 DEF live, Idle, Busy
    <3>7. QED
      BY <2>1, <3>1, <3>2, <3>3, <3>5, <3>6 DEF QuietIInv
  <2>4. ASSUME NEW a \in Actors, Drain(a) PROVE QuietIInv'
    <3>1. box[a] = <<>>
      BY <2>1 DEF Idle
    <3>2. /\ phase = "saving" /\ phase' = phase /\ cut = <<a>> /\ cut' = <<>>
          /\ todo' = todo \ {a} /\ box' = box /\ out' = out
          /\ fields' = fields /\ hand' = hand /\ copy' = copy
      BY <2>4, <3>1 DEF Drain, None
    <3>3. \A b \in Actors : b \notin todo' \/ cut' = <<b>> => out.fields[b] = fields[b]
      BY <2>1, <3>2
    <3>4. Idle'
      BY <2>1, <3>2 DEF Idle, Busy
    <3>5. QED
      BY <2>1, <3>2, <3>3, <3>4 DEF QuietIInv
  <2>5. CASE Save
    <3>1. /\ phase = "saving" /\ todo = {} /\ UNCHANGED live /\ UNCHANGED exit
          /\ (phase' = "saved" /\ disk' = out) \/ phase' = "failed"
      BY <2>5 DEF Save
    <3>2. out.fields = fields
      BY <1>0, <2>1, <3>1 DEF Typed, Documents, Lists
    <3>3. Idle' /\ fields' = fields /\ out' = out /\ todo' = todo /\ cut' = cut
      BY <2>1, <3>1 DEF live, exit, Idle, Busy
    <3>4. QED
      BY <2>1, <3>1, <3>2, <3>3 DEF QuietIInv, QuietExitSavesAll
  <2>6. ~Restart
    BY <2>1 DEF Restart, Up
  <2>7. QED
    BY <1>4, <2>2, <2>3, <2>4, <2>5, <2>6 DEF NodeNext
<1>5. ASSUME ~quiet, NodeNext, ~EndScript PROVE FALSE
  <2>1. quiet' = FALSE \/ quiet' = quiet
    BY <1>5 DEF NodeNext, Spawn, StartWorker, Replay, Bind, Send, Take, Handle,
                Write, Visit, Drain, Save, Stop, Restart, exit
  <2>2. QED
    BY <1>5, <2>1
<1>6. QED
  BY <1>1, <1>2, <1>3, <1>4, <1>5

\* The file written at the end of a script is the state of the actors when
\* wait_idle had seen the node idle, for any actors and messages.
THEOREM QuietExit == NodeSpec => []QuietExitSavesAll
<1>1. NodeInit => QuietIInv
  BY DEF NodeInit, QuietIInv
<1>2. QuietIInv => QuietExitSavesAll
  BY DEF QuietIInv, QuietExitSavesAll
<1>3. QED
  BY <1>1, <1>2, NodeInvariance, QuietStep, PTL DEF NodeSpec

-----------------------------------------------------------------------------\* A queue of ids, and a snapshot, with another sequence for an actor.
LEMMA QueueEdits ==
  ASSUME NEW a \in Actors, NEW s \in Seq(0 .. MaxSent)
  PROVE  /\ \A f \in Queues : f[a] \in Seq(0 .. MaxSent) /\ [f EXCEPT ![a] = s] \in Queues
         /\ \A d \in Snapshots :
              /\ d.fields \in Queues /\ d.pending \in Queues
              /\ [d EXCEPT !.fields[a] = s] \in Snapshots
              /\ [d EXCEPT !.pending[a] = s] \in Snapshots
<1>1. \A f \in Queues : f[a] \in Seq(0 .. MaxSent) /\ [f EXCEPT ![a] = s] \in Queues
  BY DEF Queues
<1>2. \A d \in Snapshots : d.fields \in Queues /\ d.pending \in Queues
  BY DEF Snapshots
<1>3. ASSUME NEW d \in Snapshots
      PROVE  /\ [d EXCEPT !.fields[a] = s] = [d EXCEPT !.fields = [d.fields EXCEPT ![a] = s]]
             /\ [d EXCEPT !.pending[a] = s] = [d EXCEPT !.pending = [d.pending EXCEPT ![a] = s]]
  BY <1>3
<1>4. \A d \in Snapshots, q \in Queues : /\ [d EXCEPT !.fields = q] \in Snapshots
                                         /\ [d EXCEPT !.pending = q] \in Snapshots
  BY DEF Snapshots
<1>5. QED
  BY <1>1, <1>2, <1>3, <1>4

\* The empty mailboxes and the empty snapshot.
LEMMA EmptyTyped ==
  /\ 0 \in 0 .. MaxSent /\ 0 \in 0 .. MaxSaves /\ 0 \in 0 .. MaxRuns
  /\ <<>> \in Seq(0 .. MaxSent) /\ <<0>> \in Seq(0 .. MaxSent)
  /\ Blank \in Queues /\ Empty \in Snapshots /\ Blank \in [Actors -> Seq(Queues)]
<1>1. 0 \in 0 .. MaxSent /\ 0 \in 0 .. MaxSaves /\ 0 \in 0 .. MaxRuns
  BY NodeAssumption
<1>2. <<>> \in Seq(0 .. MaxSent) /\ <<0>> \in Seq(0 .. MaxSent)
  BY <1>1
<1>3. Blank \in Queues
  BY <1>2 DEF Blank, Queues
<1>4. Empty \in Snapshots
  BY <1>3 DEF Empty, Snapshots
<1>5. <<>> \in Seq(Queues)
  OBVIOUS
<1>6. Blank \in [Actors -> Seq(Queues)]
  BY <1>5 DEF Blank
<1>7. QED
  BY <1>1, <1>2, <1>3, <1>4, <1>6

\* What is taken from the head of a queue, and what is left of it.
LEMMA FirstAndRest ==
  ASSUME NEW S, NEW s \in Seq(S), s # <<>>
  PROVE  /\ Head(s) \in S /\ Tail(s) \in Seq(S) /\ <<Head(s)>> \in Seq(S)
         /\ \A t \in Seq(S) : Append(t, Head(s)) \in Seq(S)
OBVIOUS

LEMMA NodeTypesStart == NodeInit => NodeTypes
<1> SUFFICES ASSUME NodeInit PROVE NodeTypes
  OBVIOUS
<1>1. /\ {replay, box, hand, fields} \subseteq Queues /\ copy \in [Actors -> Seq(Queues)]
      /\ {loaded, out, disk} \subseteq Snapshots
  BY EmptyTyped DEF NodeInit
<1>2. cut \in Seq(Actors) /\ spawning \in Seq(Actors)
  BY DEF NodeInit, None
<1>3. QED
  BY <1>1, <1>2, EmptyTyped DEF NodeInit, NodeTypes

\* One step of an actor, and of the script that drains it.
LEMMA ActorTypes ==
  ASSUME NodeTypes, NEW a \in Actors,
         \/ Spawn(a) \/ StartWorker(a) \/ Replay(a) \/ Bind(a)
         \/ Send(a) \/ Take(a) \/ Handle(a)
         \/ Write(a) \/ Visit(a) \/ Drain(a)
  PROVE  NodeTypes'
<1>1. /\ box \in Queues /\ hand \in Queues /\ fields \in Queues /\ replay \in Queues
      /\ loaded \in Snapshots /\ out \in Snapshots /\ disk \in Snapshots
  BY DEF NodeTypes
<1>2. /\ box[a] \in Seq(0 .. MaxSent) /\ hand[a] \in Seq(0 .. MaxSent)
      /\ fields[a] \in Seq(0 .. MaxSent) /\ replay[a] \in Seq(0 .. MaxSent)
      /\ loaded.fields[a] \in Seq(0 .. MaxSent) /\ loaded.pending[a] \in Seq(0 .. MaxSent)
      /\ out.pending[a] \in Seq(0 .. MaxSent)
  BY <1>1 DEF Queues, Snapshots
<1>3. /\ sent \in Nat /\ sent \in 0 .. MaxSent /\ MaxSent \in Nat
      /\ saves \in 0 .. MaxSaves /\ MaxSaves \in Nat
  BY NodeAssumption DEF NodeTypes
<1>4. CASE Spawn(a) \/ Bind(a)
  <2>1. <<a>> \in Seq(Actors) /\ <<>> \in Seq(Actors)
    OBVIOUS
  <2>3. spawning' \in {<<a>>, <<>>}
    BY <1>4 DEF Spawn, Bind, None
  <2>2. QED
    BY <1>4, <2>1, <2>3 DEF Spawn, Bind, NodeTypes, live, exit, counts
<1>12. CASE StartWorker(a)
  <2>1. /\ <<0>> \o loaded.pending[a] \in Seq(0 .. MaxSent)
        /\ <<>> \in Seq(0 .. MaxSent)
    BY <1>2, EmptyTyped
  <2>2. replay' \in Queues /\ fields' \in Queues /\ loaded' \in Snapshots
    BY <1>1, <1>2, <1>12, <2>1, QueueEdits DEF StartWorker
  <2>3. born' \subseteq Actors
    BY <1>12 DEF StartWorker, NodeTypes
  <2>4. QED
    BY <1>12, <2>2, <2>3 DEF StartWorker, NodeTypes, exit, counts
<1>13. CASE Replay(a)
  <2>1. replay[a] # <<>>
    BY <1>13 DEF Replay
  <2>2. /\ Tail(replay[a]) \in Seq(0 .. MaxSent)
        /\ Append(box[a], Head(replay[a])) \in Seq(0 .. MaxSent)
    BY <1>2, <2>1, FirstAndRest
  <2>3. box' \in Queues /\ replay' \in Queues
    BY <1>1, <1>13, <2>2, QueueEdits DEF Replay
  <2>4. QED
    BY <1>13, <2>3 DEF Replay, NodeTypes, exit, counts
<1>5. CASE Send(a)
  <2>1. sent + 1 \in 0 .. MaxSent
    BY <1>3, <1>5 DEF Send
  <2>2. Append(box[a], sent + 1) \in Seq(0 .. MaxSent)
    BY <1>2, <2>1
  <2>3. box' \in Queues
    BY <1>1, <1>5, <2>2, QueueEdits DEF Send
  <2>4. QED
    BY <1>5, <2>1, <2>3 DEF Send, NodeTypes, spawns, exit
<1>6. CASE Take(a)
  <2>1. box[a] # <<>>
    BY <1>6 DEF Take
  <2>2. Tail(box[a]) \in Seq(0 .. MaxSent) /\ Head(box[a]) \in 0 .. MaxSent
    BY <1>2, <2>1, FirstAndRest
  <2>3. <<Head(box[a])>> \in Seq(0 .. MaxSent)
    BY <1>2, <2>1, FirstAndRest
  <2>4. box' \in Queues /\ hand' \in Queues
    BY <1>1, <1>6, <2>2, <2>3, QueueEdits DEF Take
  <2>5. QED
    BY <1>6, <2>4 DEF Take, NodeTypes, spawns, exit, counts
<1>7. CASE Handle(a)
  <2>1. fields[a] \o hand[a] \in Seq(0 .. MaxSent) /\ <<>> \in Seq(0 .. MaxSent)
    BY <1>2
  <2>2. Absorbed(a) \in Seq(0 .. MaxSent)
    BY <1>2, <2>1 DEF Absorbed
  <2>3. fields' \in Queues /\ hand' \in Queues
    BY <1>1, <1>7, <2>1, <2>2, QueueEdits DEF Handle, None
  <2>4. copy' \in [Actors -> Seq(Queues)] /\ saves' \in 0 .. MaxSaves
    <3>1. CASE UNCHANGED <<copy, saves>>
      BY <3>1 DEF NodeTypes
    <3>2. CASE /\ saves < MaxSaves
               /\ saves' = saves + 1
               /\ copy' = [copy EXCEPT ![a] =
                    <<[b \in Actors |-> IF b \in Bound THEN fields'[b] ELSE <<>>]>>]
      <4> DEFINE q == [b \in Actors |-> IF b \in Bound THEN fields'[b] ELSE <<>>]
      <4>1. q \in Queues
        BY <2>1, <2>3 DEF Queues
      <4>2. copy' = [copy EXCEPT ![a] = <<q>>] /\ copy \in [Actors -> Seq(Queues)]
        BY <3>2 DEF NodeTypes
      <4>3. saves' \in 0 .. MaxSaves
        BY <1>3, <3>2
      <4> HIDE DEF q
      <4>4. <<q>> \in Seq(Queues)
        BY <4>1
      <4>5. QED
        BY <4>2, <4>3, <4>4
    <3>3. QED
      BY <1>7, <3>1, <3>2 DEF Handle
  <2>5. QED
    BY <1>7, <2>3, <2>4 DEF Handle, NodeTypes, spawns, exit
<1>8. CASE Write(a)
  <2>1. copy \in [Actors -> Seq(Queues)] /\ copy[a] # <<>>
    BY <1>8 DEF Write, NodeTypes, spawns, None
  <2>2. Head(copy[a]) \in Queues
    BY <2>1
  <2>3. [fields |-> Head(copy[a]), pending |-> Blank] \in Snapshots
    BY <2>2, EmptyTyped DEF Snapshots
  <2>4. disk' \in Snapshots
    BY <1>1, <1>8, <2>3 DEF Write
  <2>5. copy' \in [Actors -> Seq(Queues)]
    BY <1>8, <2>1 DEF Write, None
  <2>6. QED
    BY <1>8, <2>4, <2>5 DEF Write, NodeTypes, spawns, exit, counts
<1>9. CASE Visit(a)
  <2>1. out' \in Snapshots
    BY <1>1, <1>2, <1>9, QueueEdits DEF Visit
  <2>2. cut' \in Seq(Actors)
    BY <1>9 DEF Visit
  <2>3. QED
    BY <1>9, <2>1, <2>2 DEF Visit, NodeTypes, spawns, live, counts
<1>10. CASE Drain(a)
  <2>1. CASE /\ box[a] = <<>>
             /\ cut' = None /\ todo' = todo \ {a}
             /\ UNCHANGED <<box, out>>
    BY <1>10, <2>1 DEF Drain, NodeTypes, spawns, None, counts
  <2>2. CASE /\ box[a] # <<>>
             /\ out' = [out EXCEPT !.pending[a] =
                          IF Head(box[a]) \in Opaque THEN @
                          ELSE Append(@, Head(box[a]))]
             /\ box' = [box EXCEPT ![a] = Tail(@)]
             /\ UNCHANGED <<todo, cut>>
    <3> DEFINE p == IF Head(box[a]) \in Opaque THEN out.pending[a]
                    ELSE Append(out.pending[a], Head(box[a]))
    <3>1. /\ Tail(box[a]) \in Seq(0 .. MaxSent) /\ Head(box[a]) \in 0 .. MaxSent
          /\ p \in Seq(0 .. MaxSent)
      BY <1>2, <2>2, FirstAndRest
    <3>2. out' = [out EXCEPT !.pending[a] = p]
      BY <2>2
    <3> HIDE DEF p
    <3>3. box' = [box EXCEPT ![a] = Tail(box[a])]
      BY <2>2
    <3>4. out' \in Snapshots /\ box' \in Queues
      BY <1>1, <3>1, <3>2, <3>3, QueueEdits
    <3>5. QED
      BY <1>10, <2>2, <3>4 DEF Drain, NodeTypes, spawns, counts
  <2>3. QED
    BY <1>10, <2>1, <2>2 DEF Drain
<1>11. QED
  BY <1>4, <1>5, <1>6, <1>7, <1>8, <1>9, <1>10, <1>12, <1>13

LEMMA NodeTypesKept == NodeTypes /\ [NodeNext]_nodeVars => NodeTypes'
<1> SUFFICES ASSUME NodeTypes, [NodeNext]_nodeVars PROVE NodeTypes'
  OBVIOUS
<1>1. CASE UNCHANGED nodeVars
  BY <1>1 DEF nodeVars, NodeTypes
<1>2. ASSUME NEW a \in Actors,
             \/ Spawn(a) \/ StartWorker(a) \/ Replay(a) \/ Bind(a)
             \/ Send(a) \/ Take(a) \/ Handle(a)
             \/ Write(a) \/ Visit(a) \/ Drain(a)
      PROVE  NodeTypes'
  BY <1>2, ActorTypes
<1>3. CASE EndScript
  <2>1. quiet' \in BOOLEAN
    BY <1>3 DEF EndScript, Idle
  <2>2. QED
    BY <1>3, <2>1, EmptyTyped DEF EndScript, NodeTypes, spawns, live, counts
<1>4. CASE Save
  BY <1>4 DEF Save, NodeTypes, spawns, live, exit, counts
<1>5. CASE Stop
  <2>1. /\ cut' \in Seq(Actors) /\ spawning' \in Seq(Actors)
        /\ todo' \subseteq Actors /\ born' \subseteq Actors
    BY <1>5 DEF Stop, None
  <2>2. QED
    BY <1>5, <2>1, EmptyTyped DEF Stop, NodeTypes, counts
<1>6. CASE Restart
  <2>1. restarts' \in 0 .. MaxRuns
    BY <1>6, NodeAssumption DEF Restart, NodeTypes, spawns
  <2>2. QED
    BY <1>6, <2>1 DEF Restart, NodeTypes, spawns, live, exit
<1>7. QED
  BY <1>1, <1>2, <1>3, <1>4, <1>5, <1>6 DEF NodeNext

\* Files, mailboxes, copies and counters keep their types across saves, crashes
\* and restarts, for any actors and bounds.
THEOREM NodeTyped == NodeSpec => []NodeTypes
BY NodeTypesStart, NodeTypesKept, PTL DEF NodeSpec

-----------------------------------------------------------------------------
(***************************************************************************)
(* Induction: a set of natural numbers that is not empty has a least       *)
(* element.  A statement about all numbers up to a bound is proved of the  *)
(* least counterexample.                                                   *)
(***************************************************************************)

Smaller == OpToRel(<, Nat)

LEMMA SmallerThan == \A m, n \in Nat : <<m, n>> \in Smaller <=> m < n
  BY DEF OpToRel, Smaller

LEMMA SmallerFounded == IsWellFoundedOn(Smaller, Nat)
  BY NatLessThanWellFounded DEF Smaller

LEMMA LeastElement ==
  ASSUME NEW T, T \subseteq Nat, T # {}
  PROVE  \E n \in T : \A m \in T : n <= m
<1>1. PICK n \in T : \A m \in T : ~ (<<m, n>> \in Smaller)
  BY SmallerFounded, WFMin
<1>2. \A m \in T : ~ (m < n)
  BY <1>1, SmallerThan
<1>3. \A m \in T : m \in Nat /\ n \in Nat
  OBVIOUS
<1>4. \A m \in T : n <= m
  BY <1>2, <1>3
<1>5. QED
  BY <1>4

\* The same for a statement, given as the set of the numbers it holds of.
LEMMA InductionUpTo ==
  ASSUME NEW N \in Nat, NEW H, 0 \in H,
         \A n \in 0 .. N - 1 : n \in H => n + 1 \in H
  PROVE  \A n \in 0 .. N : n \in H
<1> DEFINE Bad == {n \in 0 .. N : n \notin H}
<1> SUFFICES ASSUME Bad # {}
             PROVE  FALSE
  OBVIOUS
<1>1. PICK n \in Bad : \A m \in Bad : n <= m
  <2>1. Bad \subseteq Nat
    OBVIOUS
  <2>2. QED
    BY <2>1, LeastElement
<1>2. n \in 0 .. N /\ n \notin H /\ n # 0
  OBVIOUS
<1>3. n - 1 \in 0 .. N - 1 /\ (n - 1) + 1 = n /\ n - 1 \in 0 .. N
  BY <1>2
<1>4. n - 1 \in H
  <2>1. CASE n - 1 \in Bad
    BY <1>1, <1>3, <2>1
  <2>2. CASE n - 1 \notin Bad
    BY <1>3, <2>2
  <2>3. QED
    BY <2>1, <2>2
<1>5. QED
  BY <1>2, <1>3, <1>4

\* What a function that is given by recursion is, up to N; it exists, so that
\* what CHOOSE makes of the definition is one.
Recursion(f, d, F, N) ==
  f = [n \in 0 .. N |-> IF n = 0 THEN d ELSE F[<<n, f[n - 1]>>]]

LEMMA RecursionExists ==
  ASSUME NEW d, NEW F, NEW N \in Nat
  PROVE  \E f : Recursion(f, d, F, N)
<1> DEFINE H == {n \in Nat : \E f : Recursion(f, d, F, n)}
<1>1. 0 \in H
  <2>1. Recursion([n \in 0 .. 0 |-> d], d, F, 0)
    BY DEF Recursion
  <2>2. QED
    BY <2>1
<1>2. ASSUME NEW n \in 0 .. N - 1, n \in H
      PROVE  n + 1 \in H
  <2>1. PICK f : Recursion(f, d, F, n)
    BY <1>2
  <2> DEFINE g == [i \in 0 .. n + 1 |-> IF i = n + 1 THEN F[<<i, f[n]>>] ELSE f[i]]
             h == [i \in 0 .. n + 1 |-> IF i = 0 THEN d ELSE F[<<i, g[i - 1]>>]]
  <2>2. \A i \in 0 .. n : f[i] = IF i = 0 THEN d ELSE F[<<i, f[i - 1]>>]
    BY <2>1 DEF Recursion
  <2>3. ASSUME NEW i \in 0 .. n + 1
        PROVE  g[i] = h[i]
    <3>1. CASE i = n + 1
      <4>1. i # 0 /\ i - 1 = n /\ n \in 0 .. n + 1 /\ n # n + 1
        BY <3>1
      <4>2. g[n] = f[n] /\ h[i] = F[<<i, g[n]>>] /\ g[i] = F[<<i, f[n]>>]
        BY <3>1, <4>1
      <4>3. QED
        BY <4>2
    <3>2. CASE i \in 1 .. n
      <4>1. /\ i - 1 \in 0 .. n + 1 /\ i - 1 # n + 1 /\ i # 0 /\ i # n + 1
            /\ i \in 0 .. n
        BY <3>2
      <4>2. g[i - 1] = f[i - 1] /\ g[i] = f[i] /\ h[i] = F[<<i, g[i - 1]>>]
        BY <4>1
      <4>3. QED
        BY <2>2, <4>1, <4>2
    <3>3. CASE i = 0
      <4>1. i # n + 1 /\ 0 \in 0 .. n
        BY <3>3
      <4>2. g[i] = f[0] /\ h[i] = d
        BY <3>3, <4>1
      <4>3. QED
        BY <2>2, <4>1, <4>2
    <3>4. QED
      BY <3>1, <3>2, <3>3
  <2>4. g = h
    BY <2>3
  <2>5. Recursion(g, d, F, n + 1)
    BY <2>4 DEF Recursion
  <2>6. QED
    BY <2>5
<1> HIDE DEF H
<1>3. N \in H
  BY <1>1, <1>2, InductionUpTo
<1>4. QED
  BY <1>3 DEF H

-----------------------------------------------------------------------------
(* Quarantine: the generations below an actor.                             *)

Kids(T, S) == {e[1] : e \in {f \in T : f[2] \in S}}

\* f is a list of generations of the tree T, from a on.
Descent(f, T, a, N) ==
  f = [n \in 0 .. N |-> IF n = 0 THEN {a} ELSE Kids(T, f[n - 1])]

LEMMA DescentExists ==
  ASSUME NEW T, NEW a, NEW N \in Nat
  PROVE  \E f : Descent(f, T, a, N)
<1> DEFINE S == {a} \cup {e[1] : e \in T}
           F == [p \in (0 .. N) \X SUBSET S |-> Kids(T, p[2])]
<1>1. PICK f : Recursion(f, {a}, F, N)
  BY RecursionExists
<1>2. \A n \in 0 .. N : f[n] = IF n = 0 THEN {a} ELSE F[<<n, f[n - 1]>>]
  BY <1>1 DEF Recursion
<1>3. /\ \A R : Kids(T, R) \in SUBSET S
      /\ \A n \in 0 .. N, R \in SUBSET S : F[<<n, R>>] = Kids(T, R)
  BY DEF Kids
<1> DEFINE H == {n \in 0 .. N : f[n] \in SUBSET S}
<1> HIDE DEF F
<1>4. 0 \in H
  <2>1. 0 \in 0 .. N
    OBVIOUS
  <2>2. f[0] = {a}
    BY <1>2, <2>1
  <2>3. {a} \in SUBSET S
    OBVIOUS
  <2>4. QED
    BY <2>1, <2>2, <2>3
<1>5. ASSUME NEW n \in 0 .. N - 1, n \in H
      PROVE  n + 1 \in H
  <2>1. n + 1 \in 0 .. N /\ n + 1 # 0 /\ (n + 1) - 1 = n
    OBVIOUS
  <2>2. f[n + 1] = F[<<n + 1, f[n]>>]
    BY <1>2, <2>1
  <2>3. F[<<n + 1, f[n]>>] = Kids(T, f[n])
    BY <1>3, <1>5, <2>1
  <2>4. QED
    BY <1>3, <2>1, <2>2, <2>3
<1> HIDE DEF H
<1>6. \A n \in 0 .. N : n \in H
  BY <1>4, <1>5, InductionUpTo
<1> USE DEF H
<1>7. ASSUME NEW n \in 0 .. N
      PROVE  f[n] = IF n = 0 THEN {a} ELSE Kids(T, f[n - 1])
  <2>1. CASE n = 0
    BY <1>2, <2>1
  <2>2. CASE n # 0
    <3>1. n - 1 \in 0 .. N
      BY <2>2
    <3>2. f[n - 1] \in SUBSET S
      BY <1>6, <3>1
    <3>3. F[<<n, f[n - 1]>>] = Kids(T, f[n - 1])
      BY <1>3, <3>2
    <3>4. QED
      BY <1>2, <2>2, <3>3
  <2>3. QED
    BY <2>1, <2>2
<1>8. Descent(f, T, a, N)
  <2>1. f = [n \in 0 .. N |-> IF n = 0 THEN {a} ELSE F[<<n, f[n - 1]>>]]
    BY <1>1 DEF Recursion
  <2>2. f = [n \in 0 .. N |-> f[n]]
    BY <2>1
  <2>3. QED
    BY <1>7, <2>2 DEF Descent
<1>9. QED
  BY <1>8
\* A chain of spawns of length n leads into the n-th generation.
LEMMA DescentReaches ==
  ASSUME NEW T, NEW a, NEW N \in Nat, NEW f, Descent(f, T, a, N),
         NEW n \in 0 .. N, NEW chain, chain[0] = a,
         \A i \in 1 .. n : <<chain[i], chain[i - 1]>> \in T
  PROVE  chain[n] \in f[n]
<1> DEFINE H == {i \in 0 .. n : chain[i] \in f[i]}
<1>1. \A i \in 0 .. N : f[i] = IF i = 0 THEN {a} ELSE Kids(T, f[i - 1])
  BY DEF Descent
<1>2. 0 \in H
  BY <1>1
<1>3. ASSUME NEW i \in 0 .. n - 1, i \in H
      PROVE  i + 1 \in H
  <2>1. i + 1 \in 0 .. n /\ i + 1 \in 1 .. n /\ i + 1 \in 0 .. N
        /\ i + 1 # 0 /\ (i + 1) - 1 = i
    OBVIOUS
  <2>2. f[i + 1] = Kids(T, f[i]) /\ <<chain[i + 1], chain[i]>> \in T
    BY <1>1, <2>1
  <2>3. chain[i + 1] \in Kids(T, f[i])
    BY <1>3, <2>2 DEF Kids
  <2>4. QED
    BY <2>1, <2>2, <2>3
<1> HIDE DEF H
<1>4. \A i \in 0 .. n : i \in H
  BY <1>2, <1>3, InductionUpTo
<1>5. n \in 0 .. n
  OBVIOUS
<1>6. QED
  BY <1>4, <1>5 DEF H

Depth == Cardinality(Names)

LEMMA DepthTyped == Depth \in Nat
  BY QuarantineAssumption, FS_CardinalityType DEF Depth

\* What Descendants(a) is: a descent, without a itself.
LEMMA DescendantsOf ==
  ASSUME NEW a
  PROVE  \E f : /\ Descent(f, tree, a, Depth)
                /\ Descendants(a) =
                     {d \in Names \ {a} : \E n \in 1 .. Depth : d \in f[n]}
<1> DEFINE P(f) == f = [n \in 0 .. Cardinality(Names) |->
                          IF n = 0 THEN {a} ELSE Children(f[n - 1])]
           L == CHOOSE f : P(f)
<1>1. PICK f : Descent(f, tree, a, Depth)
  BY DepthTyped, DescentExists
<1>2. P(f)
  BY <1>1 DEF Descent, Depth, Kids, Children
<1>3. P(L)
  <2> HIDE DEF P
  <2>1. QED
    BY <1>2
<1>4. Descent(L, tree, a, Depth)
  <2> HIDE DEF L
  <2>1. QED
    BY <1>3 DEF Descent, Depth, Kids, Children
<1>5. Descendants(a) = {d \in Names \ {a} : \E n \in 1 .. Depth : d \in L[n]}
  BY DEF Descendants, Depth
<1>6. QED
  BY <1>4, <1>5

\* The walk by generations stays within the names and finds every descendant.
LEMMA AllDescendants ==
  ASSUME NEW a
  PROVE  /\ Descendants(a) \in SUBSET Names
         /\ \A d \in Names : Descends(d, a) => d \in Descendants(a)
<1>1. PICK f : /\ Descent(f, tree, a, Depth)
               /\ Descendants(a) =
                    {d \in Names \ {a} : \E n \in 1 .. Depth : d \in f[n]}
  BY DescendantsOf
<1>2. Descendants(a) \in SUBSET Names
  BY <1>1
<1>3. ASSUME NEW d \in Names, Descends(d, a)
      PROVE  d \in Descendants(a)
  <2> DEFINE Leads(n, chain) ==
               /\ chain[0] = a /\ chain[n] = d
               /\ \A i \in 1 .. n : <<chain[i], chain[i - 1]>> \in tree
  <2>0. PICK n \in 1 .. Depth : \E chain \in [0 .. n -> Names] : Leads(n, chain)
    BY <1>3 DEF Descends, Depth
  <2>1. PICK chain \in [0 .. n -> Names] : Leads(n, chain)
    BY <2>0
  <2>2. n \in 0 .. Depth
    BY DepthTyped
  <2>3. chain[n] \in f[n]
    BY <1>1, <2>1, <2>2, DepthTyped, DescentReaches
  <2>4. chain[n] = d /\ d # a
    BY <1>3, <2>1 DEF Descends
  <2>5. QED
    BY <1>1, <2>3, <2>4
<1>4. QED
  BY <1>2, <1>3

\* Why SubtreeContained holds: an expiry that a worker has computed for one of
\* its names is no earlier than the one its own actor got; a doomed name is
\* still to be swept, or about to be written, or its entry lasts as long as that
\* of the actor; and an entry that lasts beyond the clock is not pruned, and
\* only replaced by a later one unless its name is put on record as lowered.
Outlasts(w, d) == d \in lowered \/ (now < until[w] => expires[d] >= until[w])

\* The part of the invariant that is about one worker.
Contained(w) ==
  /\ until[w] <= now + Ttl
  /\ mode[w] \in {"failed", "marking"} => till[w] >= until[w]
  /\ mode[w] = "failed" => \A d \in doomed[w] : d = marked[w]
  /\ mode[w] \in {"sweeping", "marking"} =>
       \A d \in doomed[w] : \/ d \in unswept[w]
                            \/ mode[w] = "marking" /\ d = marked[w]
                            \/ Outlasts(w, d)
  /\ mode[w] \notin {"failed", "sweeping", "marking"} =>
       \A d \in doomed[w] : Outlasts(w, d)

QuarantineInv == QuarantineTypes
                 /\ (\A w \in Workers : mode[w] \notin {"failed", "marking"}
                                          => marked[w] = NameOf[w])
                 /\ \A w \in Workers : Contained(w)

LEMMA QuarantineStart == QuarantineInit => QuarantineInv
<1> SUFFICES ASSUME QuarantineInit
             PROVE  QuarantineInv
  OBVIOUS
<1>1. QuarantineTypes
  BY QuarantineAssumption DEF QuarantineInit, QuarantineTypes
<1>2. ASSUME NEW w \in Workers
      PROVE  Contained(w)
  BY <1>2, QuarantineAssumption DEF QuarantineInit, Contained
<1>3. QED
  BY <1>1, <1>2 DEF QuarantineInit, QuarantineInv

Calm == {"unborn", "idle", "running"}

\* A worker that a step does not move keeps its part, when the step replaces no
\* entry by an older one without putting the name on record.
LEMMA ContainedStays ==
  ASSUME QuarantineTypes, QuarantineTypes', NEW w \in Workers, Contained(w),
         now' >= now, until'[w] = until[w], doomed'[w] = doomed[w],
         unswept'[w] = unswept[w], till'[w] = till[w], marked'[w] = marked[w],
         mode'[w] = mode[w] \/ {mode[w], mode'[w]} \subseteq Calm,
         lowered \subseteq lowered',
         \A d \in Names \ lowered' : expires[d] > now => expires'[d] >= expires[d]
  PROVE  Contained(w)'
<1>1. \A d \in Names : Outlasts(w, d) => Outlasts(w, d)'
  <2> SUFFICES ASSUME NEW d \in Names, Outlasts(w, d), d \notin lowered',
                      now' < until[w]
               PROVE  expires'[d] >= until[w]
    BY DEF Outlasts
  <2>1. /\ now \in Int /\ now' \in Int /\ until[w] \in Int
        /\ expires[d] \in Int /\ expires'[d] \in Int
    BY DEF QuarantineTypes
  <2>2. now < until[w] /\ d \notin lowered
    BY <2>1
  <2>3. expires[d] >= until[w] /\ expires[d] > now
    BY <2>1, <2>2 DEF Outlasts
  <2>4. QED
    BY <2>1, <2>3
<1>2. doomed[w] \subseteq Names
  BY DEF QuarantineTypes
<1>3. until'[w] <= now' + Ttl
  <2>1. now \in Int /\ now' \in Int /\ until[w] \in Int /\ Ttl \in Int
    BY QuarantineAssumption DEF QuarantineTypes
  <2>2. QED
    BY <2>1 DEF Contained
<1>4. CASE mode'[w] = mode[w]
  BY <1>1, <1>2, <1>3, <1>4 DEF Contained
<1>5. CASE {mode[w], mode'[w]} \subseteq Calm
  BY <1>1, <1>2, <1>3, <1>5 DEF Contained, Calm
<1>6. QED
  BY <1>4, <1>5

\* A step of one worker that reads and writes no entry: the others keep theirs.
LEMMA OthersStay ==
  ASSUME QuarantineInv, QuarantineTypes', NEW w \in Workers,
         \A v \in Workers \ {w} :
           /\ until'[v] = until[v] /\ doomed'[v] = doomed[v]
           /\ unswept'[v] = unswept[v] /\ till'[v] = till[v]
           /\ marked'[v] = marked[v] /\ mode'[v] = mode[v],
         now' = now, lowered \subseteq lowered',
         \A d \in Names \ lowered' : expires[d] > now => expires'[d] >= expires[d]
  PROVE  \A v \in Workers \ {w} : Contained(v)'
<1> SUFFICES ASSUME NEW v \in Workers \ {w}
             PROVE  Contained(v)'
  OBVIOUS
<1>1. now' >= now
  BY DEF QuarantineInv, QuarantineTypes
<1>2. Contained(v) /\ QuarantineTypes
  BY DEF QuarantineInv
<1>3. QED
  BY <1>1, <1>2, ContainedStays

LEMMA SpawnByScriptContained ==
  ASSUME QuarantineInv, NEW w \in Workers, SpawnByScript(w)
  PROVE  QuarantineInv'
<1>1. QuarantineTypes'
  BY DEF QuarantineInv, QuarantineTypes, SpawnByScript
<1>2. ASSUME NEW v \in Workers
      PROVE  Contained(v)'
  <2>1. mode'[v] = mode[v] \/ {mode[v], mode'[v]} \subseteq Calm
    BY DEF SpawnByScript, QuarantineInv, QuarantineTypes, Calm
  <2>2. now' >= now /\ \A d \in Names : expires[d] > now => expires'[d] >= expires[d]
    BY DEF SpawnByScript, QuarantineInv, QuarantineTypes
  <2>3. /\ until'[v] = until[v] /\ doomed'[v] = doomed[v]
        /\ unswept'[v] = unswept[v] /\ till'[v] = till[v] /\ marked'[v] = marked[v]
        /\ lowered \subseteq lowered'
    BY DEF SpawnByScript
  <2>4. QED
    BY <1>1, <2>1, <2>2, <2>3, ContainedStays DEF QuarantineInv
<1>3. QED
  BY <1>1, <1>2 DEF QuarantineInv, QuarantineTypes, SpawnByScript

LEMMA SpawnChildContained ==
  ASSUME QuarantineInv, NEW w \in Workers, NEW v \in Workers, SpawnChild(w, v)
  PROVE  QuarantineInv'
<1>1. QuarantineTypes'
  <2>1. NameOf[v] \in Names /\ NameOf[w] \in Names
    BY QuarantineAssumption
  <2>2. tree' \in SUBSET (Names \X Names)
    BY <2>1 DEF QuarantineInv, QuarantineTypes, SpawnChild
  <2>3. QED
    BY <2>2 DEF QuarantineInv, QuarantineTypes, SpawnChild
<1>2. ASSUME NEW u \in Workers
      PROVE  Contained(u)'
  <2>1. mode'[u] = mode[u] \/ {mode[u], mode'[u]} \subseteq Calm
    BY DEF SpawnChild, QuarantineInv, QuarantineTypes, Calm
  <2>2. now' >= now /\ \A d \in Names : expires[d] > now => expires'[d] >= expires[d]
    BY DEF SpawnChild, QuarantineInv, QuarantineTypes
  <2>3. /\ until'[u] = until[u] /\ doomed'[u] = doomed[u]
        /\ unswept'[u] = unswept[u] /\ till'[u] = till[u] /\ marked'[u] = marked[u]
        /\ lowered \subseteq lowered'
    BY DEF SpawnChild
  <2>4. QED
    BY <1>1, <2>1, <2>2, <2>3, ContainedStays DEF QuarantineInv
<1>3. QED
  BY <1>1, <1>2 DEF QuarantineInv, QuarantineTypes, SpawnChild

LEMMA DispatchContained ==
  ASSUME QuarantineInv, NEW w \in Workers, Dispatch(w)
  PROVE  QuarantineInv'
<1>1. QuarantineTypes'
  BY DEF QuarantineInv, QuarantineTypes, Dispatch
<1>2. ASSUME NEW v \in Workers
      PROVE  Contained(v)'
  <2>1. \A d \in Names : expires[d] > now => expires'[d] >= expires[d]
    <3> SUFFICES ASSUME NEW d \in Names, expires[d] > now
                 PROVE  expires'[d] >= expires[d]
      OBVIOUS
    <3>1. d # NameOf[w]
      BY DEF Dispatch, Held
    <3>2. expires'[d] = expires[d] /\ expires[d] \in Int
      BY <3>1 DEF Dispatch, QuarantineInv, QuarantineTypes
    <3>3. QED
      BY <3>2
  <2>2. mode'[v] = mode[v] \/ {mode[v], mode'[v]} \subseteq Calm
    BY DEF Dispatch, QuarantineInv, QuarantineTypes, Calm
  <2>3. /\ now' >= now /\ until'[v] = until[v] /\ doomed'[v] = doomed[v]
        /\ unswept'[v] = unswept[v] /\ till'[v] = till[v] /\ marked'[v] = marked[v]
        /\ lowered \subseteq lowered'
    BY DEF Dispatch, QuarantineInv, QuarantineTypes
  <2>4. QED
    BY <1>1, <2>1, <2>2, <2>3, ContainedStays DEF QuarantineInv
<1>3. QED
  BY <1>1, <1>2 DEF QuarantineInv, QuarantineTypes, Dispatch

LEMMA ReturnContained ==
  ASSUME QuarantineInv, NEW w \in Workers, Return(w)
  PROVE  QuarantineInv'
<1>1. QuarantineTypes'
  BY DEF QuarantineInv, QuarantineTypes, Return
<1>2. ASSUME NEW v \in Workers
      PROVE  Contained(v)'
  <2>1. mode'[v] = mode[v] \/ {mode[v], mode'[v]} \subseteq Calm
    BY DEF Return, QuarantineInv, QuarantineTypes, Calm
  <2>2. now' >= now /\ \A d \in Names : expires[d] > now => expires'[d] >= expires[d]
    BY DEF Return, QuarantineInv, QuarantineTypes
  <2>3. /\ until'[v] = until[v] /\ doomed'[v] = doomed[v]
        /\ unswept'[v] = unswept[v] /\ till'[v] = till[v] /\ marked'[v] = marked[v]
        /\ lowered \subseteq lowered'
    BY DEF Return
  <2>4. QED
    BY <1>1, <2>1, <2>2, <2>3, ContainedStays DEF QuarantineInv
<1>3. QED
  BY <1>1, <1>2 DEF QuarantineInv, QuarantineTypes, Return

LEMMA RaiseContained ==
  ASSUME QuarantineInv, NEW w \in Workers, Raise(w)
  PROVE  QuarantineInv'
<1>1. now + Ttl \in Nat /\ NameOf[w] \in Names
  BY QuarantineAssumption DEF QuarantineInv, QuarantineTypes
<1>2. QuarantineTypes'
  BY <1>1 DEF QuarantineInv, QuarantineTypes, Raise
<1>3. Contained(w)'
  <2>1. /\ until'[w] = now + Ttl /\ till'[w] = now + Ttl /\ now' = now
        /\ mode'[w] = "failed" /\ doomed'[w] = {NameOf[w]}
        /\ marked'[w] = NameOf[w]
    BY DEF QuarantineInv, QuarantineTypes, Raise
  <2>2. now + Ttl <= now + Ttl /\ now + Ttl >= now + Ttl
    BY <1>1
  <2>3. QED
    BY <2>1, <2>2 DEF Contained
<1>4. \A v \in Workers \ {w} : Contained(v)'
  <2>1. \A v \in Workers \ {w} :
          /\ until'[v] = until[v] /\ doomed'[v] = doomed[v]
          /\ unswept'[v] = unswept[v] /\ till'[v] = till[v]
          /\ marked'[v] = marked[v] /\ mode'[v] = mode[v]
    BY DEF Raise, QuarantineInv, QuarantineTypes
  <2>2. now' = now /\ \A d \in Names : expires[d] > now => expires'[d] >= expires[d]
    BY DEF Raise, QuarantineInv, QuarantineTypes
  <2>3. lowered \subseteq lowered'
    BY DEF Raise
  <2>4. QED
    BY <1>2, <2>1, <2>2, <2>3, OthersStay
<1>5. QED
  BY <1>2, <1>3, <1>4 DEF QuarantineInv, QuarantineTypes, Raise

LEMMA WriteContained ==
  ASSUME QuarantineInv, NEW w \in Workers, WriteEntry(w)
  PROVE  QuarantineInv'
<1>0. PICK m, t : m = marked[w] /\ t = till[w]
  OBVIOUS
<1>1. m \in Names /\ t \in Nat /\ NameOf[w] \in Names
  BY <1>0, QuarantineAssumption DEF QuarantineInv, QuarantineTypes
<1>2. QuarantineTypes'
  BY <1>0, <1>1 DEF QuarantineInv, QuarantineTypes, WriteEntry
<1>3. expires'[m] = t /\ \A d \in Names : d # m => expires'[d] = expires[d]
  BY <1>0, <1>1 DEF QuarantineInv, QuarantineTypes, WriteEntry
<1>4. lowered \subseteq lowered' /\ (t < expires[m] => m \in lowered')
  BY <1>0, <1>1 DEF WriteEntry
<1>5. \A d \in Names \ lowered' : expires'[d] >= expires[d]
  <2> SUFFICES ASSUME NEW d \in Names, d \notin lowered'
               PROVE  expires'[d] >= expires[d]
    OBVIOUS
  <2>1. expires[d] \in Nat /\ expires[m] \in Nat
    BY <1>0, <1>1 DEF QuarantineInv, QuarantineTypes
  <2>2. CASE d = m
    <3>1. ~ (t < expires[m])
      BY <1>4, <2>2
    <3>2. QED
      BY <1>1, <1>3, <2>1, <2>2, <3>1
  <2>3. CASE d # m
    BY <1>3, <2>1, <2>3
  <2>4. QED
    BY <2>2, <2>3
<1>6. \A v \in Workers \ {w} : Contained(v)'
  <2>1. \A v \in Workers \ {w} :
          /\ until'[v] = until[v] /\ doomed'[v] = doomed[v]
          /\ unswept'[v] = unswept[v] /\ till'[v] = till[v]
          /\ marked'[v] = marked[v] /\ mode'[v] = mode[v]
    BY DEF WriteEntry, QuarantineInv, QuarantineTypes
  <2>2. now' = now
    BY DEF WriteEntry
  <2>3. QED
    BY <1>2, <1>4, <1>5, <2>1, <2>2, OthersStay
<1>7. Contained(w)'
  <2>1. /\ until'[w] = until[w] /\ doomed'[w] = doomed[w] /\ now' = now
        /\ unswept'[w] = unswept[w]
        /\ mode'[w] = IF mode[w] = "failed" THEN "collecting" ELSE "sweeping"
    BY DEF WriteEntry, QuarantineInv, QuarantineTypes
  <2>2. doomed[w] \subseteq Names /\ until[w] \in Nat /\ now \in Nat
    BY DEF QuarantineInv, QuarantineTypes
  <2>3. t >= until[w] /\ until[w] <= now + Ttl
    BY <1>0 DEF WriteEntry, QuarantineInv, Contained
  <2>4. Outlasts(w, m)'
    BY <1>3, <2>1, <2>3 DEF Outlasts
  <2>5. ASSUME NEW d \in Names, Outlasts(w, d)
        PROVE  Outlasts(w, d)'
    <3> SUFFICES ASSUME d \notin lowered', now < until[w]
                 PROVE  expires'[d] >= until[w]
      BY <2>1 DEF Outlasts
    <3>1. expires[d] >= until[w]
      BY <1>4, <2>5 DEF Outlasts
    <3>2. expires'[d] >= expires[d]
      BY <1>5
    <3>3. expires[d] \in Nat /\ expires'[d] \in Nat
      BY <1>2 DEF QuarantineInv, QuarantineTypes
    <3>4. QED
      BY <2>2, <3>1, <3>2, <3>3
  <2>6. CASE mode[w] = "failed"
    <3>1. mode'[w] = "collecting"
      BY <2>1, <2>6
    <3>2. \A d \in doomed'[w] : Outlasts(w, d)'
      BY <1>0, <2>1, <2>4, <2>6 DEF QuarantineInv, Contained
    <3>3. QED
      BY <2>1, <2>3, <3>1, <3>2 DEF Contained
  <2>7. CASE mode[w] = "marking"
    <3>1. mode'[w] = "sweeping"
      BY <2>1, <2>7
    <3>2. \A d \in doomed'[w] : d \in unswept'[w] \/ Outlasts(w, d)'
      BY <1>0, <2>1, <2>2, <2>4, <2>5, <2>7 DEF QuarantineInv, Contained
    <3>3. QED
      BY <2>1, <2>3, <3>1, <3>2 DEF Contained
  <2>8. QED
    BY <2>6, <2>7 DEF WriteEntry
<1>8. \A v \in Workers : mode'[v] \notin {"failed", "marking"}
                           => marked'[v] = NameOf[v]
  BY DEF QuarantineInv, QuarantineTypes, WriteEntry
<1>9. QED
  BY <1>2, <1>6, <1>7, <1>8 DEF QuarantineInv

LEMMA CollectContained ==
  ASSUME QuarantineInv, NEW w \in Workers, Collect(w)
  PROVE  QuarantineInv'
<1> DEFINE a == NameOf[w]
           B == {d \in Names : Descends(d, a)}
<1>1. Descendants(a) \in SUBSET Names /\ B \subseteq Descendants(a)
  BY AllDescendants
<1>2. B \in SUBSET Names
  OBVIOUS
<1> HIDE DEF B
<1>3. /\ unswept' = [unswept EXCEPT ![w] = Descendants(a)]
      /\ doomed' = [doomed EXCEPT ![w] = @ \cup B]
  BY DEF Collect, B
<1>4. QuarantineTypes'
  <2>1. unswept' \in [Workers -> SUBSET Names]
    BY <1>1, <1>3 DEF QuarantineInv, QuarantineTypes
  <2>2. doomed' \in [Workers -> SUBSET Names]
    BY <1>2, <1>3 DEF QuarantineInv, QuarantineTypes
  <2>3. QED
    BY <2>1, <2>2 DEF QuarantineInv, QuarantineTypes, Collect
<1>5. Contained(w)'
  <2>1. /\ until'[w] = until[w] /\ now' = now /\ until[w] <= now + Ttl
        /\ mode[w] = "collecting" /\ mode'[w] = "sweeping"
    BY DEF Collect, QuarantineInv, QuarantineTypes, Contained
  <2>2. unswept'[w] = Descendants(a) /\ doomed'[w] = doomed[w] \cup B
    BY <1>3 DEF QuarantineInv, QuarantineTypes
  <2>3. \A d \in doomed[w] : Outlasts(w, d)
    BY <2>1 DEF QuarantineInv, Contained
  <2>4. \A d \in doomed[w] : Outlasts(w, d)'
    BY <2>1, <2>3 DEF Outlasts, Collect
  <2>5. \A d \in doomed'[w] : d \in unswept'[w] \/ Outlasts(w, d)'
    BY <1>1, <2>2, <2>4
  <2>6. QED
    BY <2>1, <2>5 DEF Contained
<1>6. \A v \in Workers \ {w} : Contained(v)'
  <2>1. \A v \in Workers \ {w} :
          /\ until'[v] = until[v] /\ doomed'[v] = doomed[v]
          /\ unswept'[v] = unswept[v] /\ till'[v] = till[v]
          /\ marked'[v] = marked[v] /\ mode'[v] = mode[v]
    BY <1>3 DEF Collect, QuarantineInv, QuarantineTypes
  <2>2. now' = now /\ \A d \in Names : expires[d] > now => expires'[d] >= expires[d]
    BY DEF Collect, QuarantineInv, QuarantineTypes
  <2>3. lowered \subseteq lowered'
    BY DEF Collect
  <2>4. QED
    BY <1>4, <2>1, <2>2, <2>3, OthersStay
<1>7. \A v \in Workers : mode'[v] \notin {"failed", "marking"}
                           => marked'[v] = NameOf[v]
  BY DEF QuarantineInv, QuarantineTypes, Collect
<1>8. QED
  BY <1>4, <1>5, <1>6, <1>7 DEF QuarantineInv

\* The expiry of one descendant is computed.
SweepOne(w, d) ==
  /\ mode[w] = "sweeping" /\ d \in unswept[w]
  /\ mode' = [mode EXCEPT ![w] = "marking"]
  /\ marked' = [marked EXCEPT ![w] = d]
  /\ till' = [till EXCEPT ![w] = now + Ttl]
  /\ unswept' = [unswept EXCEPT ![w] = @ \ {d}]
  /\ UNCHANGED <<now, tree, expires, doomed, until, lowered>>

\* No descendant is left.
SweepEnds(w) ==
  /\ mode[w] = "sweeping" /\ unswept[w] = {}
  /\ mode' = [mode EXCEPT ![w] = "idle"]
  /\ UNCHANGED <<marked, till, unswept, now, tree, expires, doomed, until, lowered>>

LEMMA SweepOneContained ==
  ASSUME QuarantineInv, NEW w \in Workers, NEW d, SweepOne(w, d)
  PROVE  QuarantineInv'
<1>1. d \in Names /\ now + Ttl \in Nat
  BY QuarantineAssumption DEF SweepOne, QuarantineInv, QuarantineTypes
<1>2. QuarantineTypes'
  <2>1. unswept' \in [Workers -> SUBSET Names]
    BY DEF QuarantineInv, QuarantineTypes, SweepOne
  <2>2. QED
    BY <1>1, <2>1 DEF QuarantineInv, QuarantineTypes, SweepOne
<1>3. Contained(w)'
  <2>1. /\ until'[w] = until[w] /\ now' = now /\ doomed'[w] = doomed[w]
        /\ mode[w] = "sweeping" /\ mode'[w] = "marking" /\ marked'[w] = d
        /\ till'[w] = now + Ttl /\ unswept'[w] = unswept[w] \ {d}
    BY DEF SweepOne, QuarantineInv, QuarantineTypes
  <2>2. until[w] <= now + Ttl /\ until[w] \in Nat
    BY DEF QuarantineInv, QuarantineTypes, Contained
  <2>3. till'[w] >= until'[w]
    BY <1>1, <2>1, <2>2
  <2>4. \A e \in doomed[w] : e \in unswept[w] \/ Outlasts(w, e)
    BY <2>1 DEF QuarantineInv, Contained
  <2>5. \A e \in doomed'[w] : e \in unswept'[w] \/ e = marked'[w] \/ Outlasts(w, e)'
    BY <2>1, <2>4 DEF Outlasts, SweepOne
  <2>6. QED
    BY <2>1, <2>2, <2>3, <2>5 DEF Contained
<1>4. \A v \in Workers \ {w} : Contained(v)'
  <2>1. \A v \in Workers \ {w} :
          /\ until'[v] = until[v] /\ doomed'[v] = doomed[v]
          /\ unswept'[v] = unswept[v] /\ till'[v] = till[v]
          /\ marked'[v] = marked[v] /\ mode'[v] = mode[v]
    BY DEF SweepOne, QuarantineInv, QuarantineTypes
  <2>2. now' = now /\ \A e \in Names : expires[e] > now => expires'[e] >= expires[e]
    BY DEF SweepOne, QuarantineInv, QuarantineTypes
  <2>3. lowered \subseteq lowered'
    BY DEF SweepOne
  <2>4. QED
    BY <1>2, <2>1, <2>2, <2>3, OthersStay
<1>5. \A v \in Workers : mode'[v] \notin {"failed", "marking"}
                           => marked'[v] = NameOf[v]
  BY DEF QuarantineInv, QuarantineTypes, SweepOne
<1>6. QED
  BY <1>2, <1>3, <1>4, <1>5 DEF QuarantineInv

LEMMA SweepEndsContained ==
  ASSUME QuarantineInv, NEW w \in Workers, SweepEnds(w)
  PROVE  QuarantineInv'
<1>1. QuarantineTypes'
  BY DEF QuarantineInv, QuarantineTypes, SweepEnds
<1>2. Contained(w)'
  <2>1. /\ until'[w] = until[w] /\ now' = now /\ doomed'[w] = doomed[w]
        /\ mode[w] = "sweeping" /\ mode'[w] = "idle" /\ until[w] <= now + Ttl
    BY DEF SweepEnds, QuarantineInv, QuarantineTypes, Contained
  <2>2. \A e \in doomed[w] : Outlasts(w, e)
    BY <2>1 DEF SweepEnds, QuarantineInv, Contained
  <2>3. \A e \in doomed'[w] : Outlasts(w, e)'
    BY <2>1, <2>2 DEF Outlasts, SweepEnds
  <2>4. QED
    BY <2>1, <2>3 DEF Contained
<1>3. \A v \in Workers \ {w} : Contained(v)'
  <2>1. \A v \in Workers \ {w} :
          /\ until'[v] = until[v] /\ doomed'[v] = doomed[v]
          /\ unswept'[v] = unswept[v] /\ till'[v] = till[v]
          /\ marked'[v] = marked[v] /\ mode'[v] = mode[v]
    BY DEF SweepEnds, QuarantineInv, QuarantineTypes
  <2>2. now' = now /\ \A e \in Names : expires[e] > now => expires'[e] >= expires[e]
    BY DEF SweepEnds, QuarantineInv, QuarantineTypes
  <2>3. lowered \subseteq lowered'
    BY DEF SweepEnds
  <2>4. QED
    BY <1>1, <2>1, <2>2, <2>3, OthersStay
<1>4. \A v \in Workers : mode'[v] \notin {"failed", "marking"}
                           => marked'[v] = NameOf[v]
  BY DEF QuarantineInv, QuarantineTypes, SweepEnds
<1>5. QED
  BY <1>1, <1>2, <1>3, <1>4 DEF QuarantineInv

LEMMA ClockTickContained ==
  ASSUME QuarantineInv, ClockTick
  PROVE  QuarantineInv'
<1>1. now \in Nat /\ now' = now + 1
  BY DEF QuarantineInv, QuarantineTypes, ClockTick
<1>2. QuarantineTypes'
  BY QuarantineAssumption DEF QuarantineInv, QuarantineTypes, ClockTick
<1>3. ASSUME NEW w \in Workers
      PROVE  Contained(w)'
  <2>1. now' >= now /\ \A d \in Names : expires[d] > now => expires'[d] >= expires[d]
    <3>1. \A d \in Names : expires'[d] = expires[d] /\ expires[d] \in Int
      BY DEF ClockTick, QuarantineInv, QuarantineTypes
    <3>2. QED
      BY <1>1, <3>1
  <2>2. /\ until'[w] = until[w] /\ doomed'[w] = doomed[w] /\ mode'[w] = mode[w]
        /\ unswept'[w] = unswept[w] /\ till'[w] = till[w] /\ marked'[w] = marked[w]
        /\ lowered \subseteq lowered'
    BY DEF ClockTick
  <2>3. QED
    BY <1>2, <2>1, <2>2, ContainedStays DEF QuarantineInv
<1>4. QED
  BY <1>2, <1>3 DEF QuarantineInv, QuarantineTypes, ClockTick

LEMMA QuarantineStep == QuarantineInv /\ [QuarantineNext]_quarantineVars => QuarantineInv'
<1> SUFFICES ASSUME QuarantineInv, [QuarantineNext]_quarantineVars
             PROVE  QuarantineInv'
  OBVIOUS
<1>1. CASE UNCHANGED quarantineVars
  BY <1>1 DEF quarantineVars, QuarantineInv, QuarantineTypes, Contained, Outlasts
<1>2. ASSUME NEW w \in Workers, Sweep(w)
      PROVE  QuarantineInv'
  <2>1. SweepEnds(w) \/ \E d \in unswept[w] : SweepOne(w, d)
    BY <1>2 DEF Sweep, SweepEnds, SweepOne
  <2>2. QED
    BY <2>1, SweepEndsContained, SweepOneContained
<1>3. QED
  BY <1>1, <1>2, SpawnByScriptContained, SpawnChildContained, DispatchContained,
     ReturnContained, RaiseContained, WriteContained, CollectContained,
     ClockTickContained DEF QuarantineNext

\* The blast radius of a failure (quarantine_subtree): once the sweep of a
\* worker is over, its actor and every name to which a chain of spawns led from
\* it when the tree was copied stay in quarantine at least as long as the actor
\* was to, unless another worker has replaced a later entry of the name by an
\* earlier one of its own; for any names, actors that share one, spawns, tree,
\* lifetime and order of the steps.
THEOREM QuarantineContained == QuarantineSpec => []SubtreeContained
<1>1. QuarantineInv => SubtreeContained
  BY DEF QuarantineInv, Contained, Outlasts, SubtreeContained
<1>2. QED
  BY <1>1, QuarantineStart, QuarantineStep, PTL DEF QuarantineSpec

=============================================================================
