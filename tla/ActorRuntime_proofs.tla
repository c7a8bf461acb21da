------------------------ MODULE ActorRuntime_proofs ------------------------
(***************************************************************************)
(* Proofs about ActorRuntime, for any numbers of actors, streamers and     *)
(* messages.                                                               *)
(***************************************************************************)
EXTENDS ActorRuntime, SequenceFacts, FiniteSetTheorems, SequenceTheorems, TLAPS

-----------------------------------------------------------------------------
(***************************************************************************)
(* What the queue operations do to the set of messages in a queue.         *)
(***************************************************************************)

\* mailbox.put of a message that is not queued yet, or of the sentinel.
LEMMA AppendIds ==
  ASSUME NEW s \in Seq(Item), NEW m \in Item
  PROVE  /\ Append(s, m) \in Seq(Item)
         /\ Ids(Append(s, m)) = Ids(s) \cup ({m} \ {NoMsg})
         /\ Distinct(s) /\ m \notin Ids(s) => Distinct(Append(s, m))
<1> DEFINE t == Append(s, m)
<1>1. /\ t \in Seq(Item)
      /\ Len(t) = Len(s) + 1
      /\ \A i \in 1 .. Len(s) : t[i] = s[i]
      /\ t[Len(t)] = m
      /\ DOMAIN t = 1 .. Len(t)
      /\ DOMAIN s = 1 .. Len(s)
      /\ Len(s) \in Nat
  OBVIOUS
<1> HIDE DEF t
<1>2. Ids(t) = Ids(s) \cup ({m} \ {NoMsg})
  <2>1. \A x : x \in Ids(t) => x \in Ids(s) \cup ({m} \ {NoMsg})
    BY <1>1 DEF Ids, Stop, NoMsg
  <2>2. \A x : x \in Ids(s) => x \in Ids(t)
    BY <1>1 DEF Ids, Stop, NoMsg
  <2>3. m # NoMsg => m \in Ids(t)
    BY <1>1 DEF Ids, Stop, NoMsg
  <2>4. QED
    BY <2>1, <2>2, <2>3
<1>3. ASSUME Distinct(s), m \notin Ids(s)
      PROVE  Distinct(t)
  BY <1>1, <1>3 DEF Distinct, Ids, Stop
<1>4. QED
  BY <1>1, <1>2, <1>3 DEF t

\* mailbox.get removes exactly the head.
LEMMA TailIds ==
  ASSUME NEW s \in Seq(Item), s # <<>>, Distinct(s)
  PROVE  /\ Tail(s) \in Seq(Item)
         /\ Head(s) \in Item
         /\ Head(s) # Stop => Head(s) \in Ids(s)
         /\ Ids(Tail(s)) = Ids(s) \ {Head(s)}
         /\ Distinct(Tail(s))
<1> DEFINE t == Tail(s)
           h == Head(s)
<1>1. /\ t \in Seq(Item)
      /\ h = s[1]
      /\ h \in Item
      /\ Len(t) = Len(s) - 1
      /\ \A i \in 1 .. Len(t) : t[i] = s[i + 1]
      /\ DOMAIN t = 1 .. Len(t)
      /\ DOMAIN s = 1 .. Len(s)
      /\ Len(s) \in Nat \ {0}
  OBVIOUS
<1> HIDE DEF t, h
<1>2. h # Stop => h \in Ids(s)
  BY <1>1 DEF Ids
<1>3. Ids(t) = Ids(s) \ {h}
  <2>1. ASSUME NEW x \in Ids(t)
        PROVE  x \in Ids(s) \ {h}
    <3>1. PICK i \in 1 .. Len(t) : x = t[i] /\ x # Stop
      BY <1>1 DEF Ids
    <3>2. i + 1 \in DOMAIN s /\ x = s[i + 1] /\ i + 1 # 1 /\ 1 \in DOMAIN s
      BY <1>1, <3>1
    <3>3. x # s[1]
      BY <3>1, <3>2 DEF Distinct
    <3>4. QED
      BY <1>1, <3>1, <3>2, <3>3 DEF Ids
  <2>2. ASSUME NEW x \in Ids(s) \ {h}
        PROVE  x \in Ids(t)
    <3>1. PICK i \in 1 .. Len(s) : x = s[i] /\ x # Stop
      BY <1>1 DEF Ids
    <3>2. i # 1
      BY <1>1, <3>1
    <3>3. i - 1 \in 1 .. Len(t) /\ t[i - 1] = s[i]
      BY <1>1, <3>1, <3>2
    <3>4. QED
      BY <1>1, <3>1, <3>3 DEF Ids
  <2>3. QED
    BY <2>1, <2>2
<1>4. Distinct(t)
  BY <1>1 DEF Distinct
<1>5. QED
  BY <1>1, <1>2, <1>3, <1>4 DEF t, h

\* A drained mailbox without the matched message.
LEMMA RemoveAtIds ==
  ASSUME NEW s \in Seq(Item), NEW i \in DOMAIN s, s[i] # Stop, Distinct(s)
  PROVE  /\ RemoveAt(s, i) \in Seq(Item)
         /\ s[i] \in Ids(s)
         /\ Ids(RemoveAt(s, i)) = Ids(s) \ {s[i]}
         /\ Distinct(RemoveAt(s, i))
<1> DEFINE t == RemoveAt(s, i)
           n == Len(s)
<1>1. /\ n \in Nat
      /\ DOMAIN s = 1 .. n
      /\ i \in 1 .. n
  OBVIOUS
<1>2. /\ t \in Seq(Item)
      /\ Len(t) = n - 1
      /\ \A j \in 1 .. n - 1 : t[j] = IF j < i THEN s[j] ELSE s[j + 1]
      /\ DOMAIN t = 1 .. n - 1
  <2>1. /\ t \in Seq(Item)
        /\ Len(t) = n - 1
        /\ \A j \in 1 .. n - 1 : t[j] = IF j < i THEN s[j] ELSE s[j + 1]
    BY RemoveAtProperties
  <2>2. QED
    BY <1>1, <2>1
<1> HIDE DEF t, n
<1>3. s[i] \in Ids(s)
  BY DEF Ids
<1>4. Ids(t) = Ids(s) \ {s[i]}
  <2>1. ASSUME NEW x \in Ids(t)
        PROVE  x \in Ids(s) \ {s[i]}
    <3>1. PICK j \in 1 .. n - 1 : x = t[j] /\ x # Stop
      BY <1>2 DEF Ids
    <3>2. \E k \in 1 .. n : x = s[k] /\ k # i
      BY <1>1, <1>2, <3>1
    <3>3. QED
      BY <1>1, <3>1, <3>2 DEF Ids, Distinct
  <2>2. ASSUME NEW x \in Ids(s) \ {s[i]}
        PROVE  x \in Ids(t)
    <3>1. PICK k \in 1 .. n : x = s[k] /\ x # Stop
      BY <1>1 DEF Ids
    <3>2. k # i
      BY <3>1
    <3>3. CASE k < i
      BY <1>1, <1>2, <3>1, <3>3 DEF Ids
    <3>4. CASE k > i
      <4>1. k - 1 \in 1 .. n - 1 /\ t[k - 1] = s[k]
        BY <1>1, <1>2, <3>4
      <4>2. QED
        BY <1>2, <3>1, <4>1 DEF Ids
    <3>5. QED
      BY <1>1, <3>2, <3>3, <3>4
  <2>3. QED
    BY <2>1, <2>2
<1>5. Distinct(t)
  <2> SUFFICES ASSUME NEW j \in 1 .. n - 1, NEW k \in 1 .. n - 1,
                      j # k, t[j] # Stop
               PROVE  t[j] # t[k]
    BY <1>2 DEF Distinct
  <2> DEFINE J == IF j < i THEN j ELSE j + 1
             K == IF k < i THEN k ELSE k + 1
  <2>1. J \in 1 .. n /\ K \in 1 .. n /\ J # K /\ t[j] = s[J] /\ t[k] = s[K]
    BY <1>1, <1>2
  <2>2. QED
    BY <1>1, <2>1 DEF Distinct
<1>6. QED
  BY <1>2, <1>3, <1>4, <1>5 DEF t

LEMMA EmptyIds == Ids(<<>>) = {} /\ Distinct(<<>>)
  BY DEF Ids, Distinct

-----------------------------------------------------------------------------
(***************************************************************************)
(* The three things a step can do to the live messages.                    *)
(***************************************************************************)

Opens(m)  == /\ m \in Msg
             /\ m \notin Live
             /\ Live' = Live \cup {m}
             /\ outstanding' = outstanding + 1
Closes(m) == /\ m \in Live
             /\ Live' = Live \ {m}
             /\ outstanding' = outstanding - 1
Keeps     == Live' = Live /\ outstanding' = outstanding

LEMMA LiveFinite == IsFiniteSet(Live) /\ Cardinality(Live) \in Nat
<1>1. IsFiniteSet(Msg)
  BY FS_Interval, RuntimeAssumption DEF Msg
<1>2. Live \subseteq Msg
  BY DEF Live
<1>3. QED
  BY <1>1, <1>2, FS_Subset, FS_CardinalityType

\* The counter follows the number of live messages through every such step.
LEMMA CountStep ==
  ASSUME outstanding = Cardinality(Live),
         (\E m : Opens(m)) \/ (\E m : Closes(m)) \/ Keeps
  PROVE  outstanding' = Cardinality(Live')
<1>1. CASE \E m : Opens(m)
  BY <1>1, LiveFinite, FS_AddElement DEF Opens
<1>2. CASE \E m : Closes(m)
  BY <1>2, LiveFinite, FS_RemoveElement DEF Closes
<1>3. CASE Keeps
  BY <1>3 DEF Keeps
<1>4. QED
  BY <1>1, <1>2, <1>3

LEMMA IdsType == \A s \in Seq(Item) : Ids(s) \subseteq Msg
<1> SUFFICES ASSUME NEW s \in Seq(Item), NEW x \in Ids(s)
             PROVE  x \in Msg
  OBVIOUS
<1>1. PICK i \in DOMAIN s : x = s[i] /\ x # Stop
  BY DEF Ids
<1>2. x \in Item
  BY <1>1
<1>3. QED
  BY <1>1, <1>2, RuntimeAssumption DEF Item, Msg, Stop

LEMMA AtActorType ==
  ASSUME Types, NEW a \in Actor
  PROVE  AtActor(a) \subseteq Msg
<1>1. Queued(a) \subseteq Msg /\ Held(a) \subseteq Msg
  BY IdsType DEF Types, Queued, Held
<1>2. Picked(a) \subseteq Msg /\ InHand(a) \subseteq Msg
  BY DEF Types, Picked, InHand, Item, Msg, NoMsg
<1>3. saved[a] \subseteq Msg
  BY DEF Types
<1>4. QED
  BY <1>1, <1>2, <1>3 DEF AtActor

\* Every live message has been sent.
LEMMA LiveSent ==
  ASSUME Types, Placement
  PROVE  Live \subseteq 1 .. sent
<1>1. \A a \in Actor : AtActor(a) \subseteq 1 .. sent
  BY AtActorType DEF Placement, Addressed, Msg, Types, Item
<1>2. \A p \in Proc : InTransit(p) \subseteq 1 .. sent
  BY DEF Placement, Sending
<1>3. QED
  BY <1>1, <1>2 DEF Live

\* An actor none of whose slots changes.
LEMMA FrameActor ==
  ASSUME NEW b \in Actor, Types, sent' \in Item, sent <= sent',
         OnePlace(b), Addressed(b),
         mailbox'[b] = mailbox[b], held'[b] = held[b],
         picked'[b] = picked[b], cur'[b] = cur[b], saved'[b] = saved[b],
         \A m \in 1 .. sent : envelope'[m] = envelope[m]
  PROVE  OnePlace(b)' /\ Addressed(b)' /\ AtActor(b)' = AtActor(b)
<1>1. /\ Queued(b)' = Queued(b)
      /\ Held(b)' = Held(b)
      /\ Picked(b)' = Picked(b)
      /\ InHand(b)' = InHand(b)
  BY DEF Queued, Held, Picked, InHand
<1>2. AtActor(b)' = AtActor(b)
  BY <1>1 DEF AtActor
<1>3. OnePlace(b)'
  BY <1>1 DEF OnePlace
<1>4. AtActor(b) \subseteq 1 .. sent
  BY AtActorType DEF Addressed, Msg, Types, Item
<1>5. Addressed(b)'
  <2>1. ASSUME NEW m \in AtActor(b)
        PROVE  m <= sent' /\ envelope'[m].to = b
    <3>1. m \in 1 .. sent /\ envelope[m].to = b
      BY <1>4 DEF Addressed
    <3>2. envelope'[m] = envelope[m] /\ sent \in Int /\ sent' \in Int
      BY <3>1 DEF Types, Item
    <3>3. QED
      BY <3>1, <3>2
  <2>2. QED
    BY <1>2, <2>1 DEF Addressed
<1>6. QED
  BY <1>2, <1>3, <1>5

-----------------------------------------------------------------------------
(***************************************************************************)
(* message_started.                                                        *)
(***************************************************************************)

LEMMA StartSendStep ==
  ASSUME IInv, NEW p \in Proc, NEW a \in Actor, NEW k \in Kind,
         pc[p] = "run", StartSend(p, a, k), p \in Streamer => k = "past",
         UNCHANGED <<mailbox, work>>,
         pc'[p] = "put",
         \A q \in Proc \ {p} : pc'[q] = "put" <=> pc[q] = "put"
  PROVE  /\ \A b \in Actor : OnePlace(b)' /\ Addressed(b)'
         /\ \A q \in Proc : Sending(q)'
         /\ Opens(sent + 1)
<1> DEFINE m == sent + 1
<1>1. /\ sent \in Nat /\ sent < MaxMsgs /\ sent' = m
      /\ m \in Msg /\ m \in Item
      /\ envelope'[m] = [from |-> p, sender |-> Speaker(p), to |-> a, kind |-> k]
      /\ \A n \in 1 .. sent : envelope'[n] = envelope[n]
      /\ call'[p] = m
      /\ \A q \in Proc \ {p} : call'[q] = call[q]
  BY RuntimeAssumption DEF StartSend, IInv, Types, Item, Msg
<1>2. \A b \in Actor : OnePlace(b)' /\ Addressed(b)' /\ AtActor(b)' = AtActor(b)
  BY <1>1, FrameActor DEF IInv, Placement, work
<1>3. InTransit(p)' = {m} /\ InTransit(p) = {}
  BY <1>1 DEF InTransit
<1>4. \A q \in Proc \ {p} : InTransit(q)' = InTransit(q)
  BY <1>1 DEF InTransit
<1>5. m \notin Live
  BY <1>1, LiveSent DEF IInv
<1>6. Live' = Live \cup {m}
  BY <1>1, <1>2, <1>3, <1>4 DEF Live
<1>7. \A q \in Proc \ {p} : Sending(q)'
  BY <1>1, <1>2, <1>4 DEF Sending, IInv, Placement
<1>8. Sending(p)'
  BY <1>1, <1>2, <1>3, <1>5 DEF Sending, Live
<1>9. QED
  BY <1>1, <1>2, <1>5, <1>6, <1>7, <1>8 DEF Opens, StartSend

-----------------------------------------------------------------------------
(***************************************************************************)
(* The steps that move a message, one lemma per operation: what they leave *)
(* of the placement, and what they do to the live messages.                *)
(***************************************************************************)

\* Steps that move none.  A stop sentinel may be put.
LEMMA QuietStep ==
  ASSUME IInv, UNCHANGED <<work, envelope, sent, outstanding>>,
         \A a \in Actor : /\ Ids(mailbox'[a]) = Ids(mailbox[a])
                          /\ Distinct(mailbox'[a]),
         \A q \in Proc : InTransit(q)' = InTransit(q)
  PROVE  /\ \A a \in Actor : OnePlace(a)' /\ Addressed(a)'
         /\ \A q \in Proc : Sending(q)'
         /\ Keeps
<1>1. \A a \in Actor : /\ Queued(a)' = Queued(a)
                       /\ Held(a)' = Held(a)
                       /\ Picked(a)' = Picked(a)
                       /\ InHand(a)' = InHand(a)
  BY DEF Queued, Held, Picked, InHand, work
<1>2. \A a \in Actor : AtActor(a)' = AtActor(a)
  BY <1>1 DEF AtActor, work
<1>3. \A a \in Actor : OnePlace(a)'
  BY <1>1 DEF OnePlace, IInv, Placement, work
<1>4. \A a \in Actor : Addressed(a)'
  BY <1>2 DEF Addressed, IInv, Placement
<1>5. \A q \in Proc : Sending(q)'
  BY <1>2 DEF Sending, IInv, Placement
<1>6. Keeps
  BY <1>2 DEF Keeps, Live
<1>7. QED
  BY <1>3, <1>4, <1>5, <1>6

\* mailbox.put: the message moves from its sender to its actor's mailbox.
LEMMA PutStep ==
  ASSUME IInv, NEW p \in Proc, Put(p)
  PROVE  /\ \A a \in Actor : OnePlace(a)' /\ Addressed(a)'
         /\ \A q \in Proc : Sending(q)'
         /\ Keeps
<1>1. PICK m \in Item, a \in Actor :
        /\ call[p] = m
        /\ envelope[m].to = a
        /\ InTransit(p) = {m}
        /\ m \in 1 .. sent
        /\ m # NoMsg
  <2>1. InTransit(p) = {call[p]} /\ call[p] \in Item
    BY DEF Put, InTransit, IInv, Types
  <2>2. Sending(p) /\ sent \in Item
    BY DEF IInv, Placement, Types
  <2>3. /\ call[p] \in 1 .. sent
        /\ envelope[call[p]].to \in Actor
    BY <2>1, <2>2 DEF Sending
  <2>4. call[p] # NoMsg
    BY <2>2, <2>3 DEF Item, NoMsg
  <2>5. QED
    BY <2>1, <2>3, <2>4
<1>0. /\ mailbox' = [mailbox EXCEPT ![a] = Append(@, m)]
      /\ UNCHANGED <<work, envelope, sent, outstanding>>
      /\ sent' \in Item
  BY <1>1 DEF Put, IInv, Types
<1>2. \A b \in Actor : m \notin AtActor(b)
  BY <1>1 DEF IInv, Placement, Sending
<1>3. m \in Live
  BY <1>1, RuntimeAssumption DEF Live, IInv, Types, Item, Msg
<1>4. InTransit(p)' = {} /\ \A q \in Proc \ {p} : InTransit(q)' = InTransit(q)
  BY DEF Put, Goto, InTransit, IInv, Types
<1>5. \A b \in Actor \ {a} :
        OnePlace(b)' /\ Addressed(b)' /\ AtActor(b)' = AtActor(b)
  <2> SUFFICES ASSUME NEW b \in Actor \ {a}
               PROVE  OnePlace(b)' /\ Addressed(b)' /\ AtActor(b)' = AtActor(b)
    OBVIOUS
  <2>1. mailbox'[b] = mailbox[b] /\ sent <= sent'
    BY <1>0 DEF IInv, Types, Item
  <2>2. QED
    BY <1>0, <2>1, FrameActor DEF work, IInv, Placement
<1>6. /\ Queued(a)' = Queued(a) \cup {m}
      /\ Distinct(mailbox[a])'
      /\ Held(a)' = Held(a)
      /\ Picked(a)' = Picked(a)
      /\ InHand(a)' = InHand(a)
  <2>1. mailbox'[a] = Append(mailbox[a], m) /\ mailbox[a] \in Seq(Item)
    BY <1>0 DEF IInv, Types
  <2>2. m \notin Ids(mailbox[a]) /\ Distinct(mailbox[a])
    BY <1>1, <1>2 DEF AtActor, Queued, IInv, Placement, OnePlace
  <2>3. QED
    BY <1>0, <1>1, <2>1, <2>2, AppendIds
       DEF Queued, Held, Picked, InHand, work
<1>7. AtActor(a)' = AtActor(a) \cup {m}
  BY <1>0, <1>6 DEF AtActor, work
<1>8. OnePlace(a)'
  BY <1>0, <1>1, <1>2, <1>6 DEF OnePlace, AtActor, IInv, Placement, work
<1>9. Addressed(a)'
  BY <1>0, <1>1, <1>7 DEF Addressed, IInv, Placement
<1>10. Keeps
  <2>1. Live' = Live
    BY <1>1, <1>3, <1>4, <1>5, <1>7 DEF Live
  <2>2. QED
    BY <1>0, <2>1 DEF Keeps
<1>11. \A q \in Proc : Sending(q)'
  <2>1. ASSUME NEW q \in Proc \ {p}, NEW n \in InTransit(q)
        PROVE  n # m
    BY <1>1, <2>1 DEF IInv, Placement, Sending
  <2>2. QED
    BY <1>0, <1>1, <1>4, <1>5, <1>7, <2>1 DEF Sending, IInv, Placement
<1>12. QED
  BY <1>5, <1>8, <1>9, <1>10, <1>11

\* A step of one worker among its own slots, which may drop messages.
LEMMA LocalStep ==
  ASSUME IInv, NEW a \in Actor, UNCHANGED <<envelope, sent>>,
         \A b \in Actor \ {a} : /\ mailbox'[b] = mailbox[b]
                                /\ held'[b] = held[b]
                                /\ picked'[b] = picked[b]
                                /\ cur'[b] = cur[b]
                                /\ saved'[b] = saved[b],
         \A q \in Proc : InTransit(q)' = InTransit(q),
         NEW S, AtActor(a)' = AtActor(a) \ S, S \subseteq AtActor(a)
  PROVE  /\ \A b \in Actor \ {a} : OnePlace(b)'
         /\ \A b \in Actor : Addressed(b)'
         /\ \A q \in Proc : Sending(q)'
         /\ Live' = Live \ S
<1>1. \A b \in Actor \ {a} :
        OnePlace(b)' /\ Addressed(b)' /\ AtActor(b)' = AtActor(b)
  <2>1. sent' \in Item /\ sent <= sent'
    BY DEF IInv, Types, Item
  <2>2. QED
    BY <2>1, FrameActor DEF IInv, Placement
<1>2. Addressed(a)'
  BY DEF Addressed, IInv, Placement
<1>3. \A q \in Proc : Sending(q)'
  BY <1>1 DEF Sending, IInv, Placement
<1>4. \A m \in S : /\ \A b \in Actor \ {a} : m \notin AtActor(b)
                   /\ \A q \in Proc : m \notin InTransit(q)
  BY DEF IInv, Placement, Addressed, Sending
<1>5. Live' = Live \ S
  BY <1>1, <1>4 DEF Live
<1>6. QED
  BY <1>1, <1>2, <1>3, <1>5

\* The worker takes the head of its mailbox in hand.
LEMMA GetStep ==
  ASSUME IInv, NEW a \in Actor, Get(a), mailbox[a] # <<>>
  PROVE  /\ \A b \in Actor : OnePlace(b)' /\ Addressed(b)'
         /\ \A q \in Proc : Sending(q)'
         /\ Keeps
<1> DEFINE h == Head(mailbox[a])
<1>1. /\ mailbox' = [mailbox EXCEPT ![a] = Tail(@)]
      /\ cur' = [cur EXCEPT ![a] = h]
      /\ UNCHANGED <<held, picked, saved, envelope, sent, outstanding>>
      /\ pc' = [pc EXCEPT ![a] = IF h = Stop THEN "exited" ELSE "run"]
      /\ pc[a] = "get"
      /\ UNCHANGED call
  BY DEF Get, Goto
<1>2. cur[a] = NoMsg /\ OnePlace(a) /\ mailbox[a] \in Seq(Item)
  BY <1>1 DEF IInv, Placement, WorkerOK, Busy, Types
<1>3. /\ Queued(a)' = Queued(a) \ {h}
      /\ Distinct(mailbox[a])'
      /\ h # NoMsg => h \in Queued(a)
      /\ InHand(a)' = {h} \ {NoMsg}
      /\ InHand(a) = {}
      /\ Held(a)' = Held(a)
      /\ Picked(a)' = Picked(a)
  <2>1. mailbox'[a] = Tail(mailbox[a]) /\ cur'[a] = h
    BY <1>1 DEF IInv, Types
  <2>2. QED
    BY <1>1, <1>2, <2>1, TailIds
       DEF OnePlace, Queued, InHand, Held, Picked, Stop, NoMsg
<1>4. NoMsg \notin Queued(a)
  BY DEF Queued, Ids, Stop, NoMsg
<1>5. AtActor(a)' = AtActor(a) \ {}
  BY <1>1, <1>3, <1>4 DEF AtActor
<1>6. OnePlace(a)'
  BY <1>1, <1>2, <1>3, <1>4 DEF OnePlace
<1>7. \A q \in Proc : InTransit(q)' = InTransit(q)
  BY <1>1 DEF InTransit, IInv, Types
<1>8. \A b \in Actor \ {a} : mailbox'[b] = mailbox[b] /\ cur'[b] = cur[b]
  BY <1>1 DEF IInv, Types
<1>9. /\ \A b \in Actor \ {a} : OnePlace(b)'
      /\ \A b \in Actor : Addressed(b)'
      /\ \A q \in Proc : Sending(q)'
      /\ Live' = Live \ {}
  BY <1>1, <1>5, <1>7, <1>8, LocalStep
<1>10. QED
  BY <1>1, <1>6, <1>9 DEF Keeps

\* message_done.
LEMMA MessageDoneStep ==
  ASSUME IInv, NEW a \in Actor, MessageDone(a)
  PROVE  /\ \A b \in Actor : OnePlace(b)' /\ Addressed(b)'
         /\ \A q \in Proc : Sending(q)'
         /\ Closes(cur[a])
<1>1. /\ cur' = [cur EXCEPT ![a] = NoMsg]
      /\ UNCHANGED <<mailbox, held, picked, saved, call, envelope, sent>>
      /\ pc' = [pc EXCEPT ![a] = "top"]
      /\ pc[a] = "done"
  BY DEF MessageDone, Goto
<1>2. OnePlace(a) /\ cur[a] # NoMsg
  BY <1>1 DEF IInv, Placement, WorkerOK, Busy
<1>3. /\ Queued(a)' = Queued(a)
      /\ Held(a)' = Held(a)
      /\ Picked(a)' = Picked(a)
      /\ InHand(a)' = {}
      /\ InHand(a) = {cur[a]}
  BY <1>1, <1>2 DEF Queued, Held, Picked, InHand, IInv, Types
<1>4. AtActor(a)' = AtActor(a) \ {cur[a]} /\ cur[a] \in AtActor(a)
  BY <1>1, <1>2, <1>3 DEF AtActor, OnePlace
<1>5. OnePlace(a)'
  BY <1>1, <1>2, <1>3 DEF OnePlace
<1>6. \A q \in Proc : InTransit(q)' = InTransit(q)
  BY <1>1 DEF InTransit, IInv, Types
<1>7. \A b \in Actor \ {a} : cur'[b] = cur[b]
  BY <1>1 DEF IInv, Types
<1>8. /\ \A b \in Actor \ {a} : OnePlace(b)'
      /\ \A b \in Actor : Addressed(b)'
      /\ \A q \in Proc : Sending(q)'
      /\ Live' = Live \ {cur[a]}
  BY <1>1, <1>4, <1>6, <1>7, LocalStep
<1>9. cur[a] \in Live
  BY <1>4, AtActorType DEF Live, IInv
<1>10. QED
  BY <1>5, <1>8, <1>9 DEF Closes, MessageDone

\* select drains the mailbox; the message m, if one matched, is set aside.
LEMMA DrainStep ==
  ASSUME IInv, NEW a \in Actor, SelectMatch(a) \/ SelectMiss(a)
  PROVE  /\ held'[a] \in Seq(Item) /\ picked'[a] \in Item
         /\ \A b \in Actor : OnePlace(b)' /\ Addressed(b)'
         /\ \A q \in Proc : Sending(q)'
         /\ Keeps
<1>1. PICK rest, m : /\ Drain(a, rest, m)
                     /\ rest \in Seq(Item)
                     /\ m \in Item
                     /\ Ids(rest) = Ids(mailbox[a]) \ {m}
                     /\ Distinct(rest)
                     /\ m # NoMsg => m \in Ids(mailbox[a])
  <2>1. mailbox[a] \in Seq(Item) /\ Distinct(mailbox[a])
    BY DEF IInv, Types, Placement, OnePlace
  <2>2. CASE SelectMatch(a)
    <3>1. PICK i \in DOMAIN mailbox[a] :
            /\ mailbox[a][i] # Stop
            /\ Drain(a, RemoveAt(mailbox[a], i), mailbox[a][i])
      BY <2>2 DEF SelectMatch
    <3>2. mailbox[a][i] \in Item
      BY <2>1
    <3>3. QED
      BY <2>1, <3>1, <3>2, RemoveAtIds
  <2>3. CASE SelectMiss(a)
    <3>1. Drain(a, mailbox[a], NoMsg)
      BY <2>3 DEF SelectMiss
    <3>2. NoMsg \in Item /\ Ids(mailbox[a]) = Ids(mailbox[a]) \ {NoMsg}
      BY RuntimeAssumption DEF Ids, NoMsg, Stop, Item
    <3>3. QED
      BY <2>1, <3>1, <3>2
  <2>4. QED
    BY <2>2, <2>3
<1>2. /\ held' = [held EXCEPT ![a] = rest]
      /\ picked' = [picked EXCEPT ![a] = m]
      /\ mailbox' = [mailbox EXCEPT ![a] = <<>>]
      /\ UNCHANGED <<cur, saved, call, envelope, sent, outstanding>>
      /\ pc' = [pc EXCEPT ![a] = "requeue"]
      /\ pc[a] = "select"
  BY <1>1 DEF Drain, Goto
<1>3. OnePlace(a) /\ held[a] = <<>> /\ picked[a] = NoMsg
  BY <1>2 DEF IInv, Placement, WorkerOK
<1>4. held'[a] = rest /\ picked'[a] = m /\ mailbox'[a] = <<>>
  BY <1>2 DEF IInv, Types
<1>5. /\ Queued(a)' = {}
      /\ Held(a)' = Queued(a) \ {m}
      /\ Picked(a)' = {m} \ {NoMsg}
      /\ InHand(a)' = InHand(a)
      /\ m # NoMsg => m \in Queued(a)
      /\ Held(a) = {} /\ Picked(a) = {}
  BY <1>1, <1>2, <1>3, <1>4, EmptyIds DEF Queued, Held, Picked, InHand
<1>6. NoMsg \notin Queued(a)
  BY DEF Queued, Ids, Stop, NoMsg
<1>7. AtActor(a)' = AtActor(a) \ {}
  BY <1>2, <1>5, <1>6 DEF AtActor
<1>8. OnePlace(a)'
  BY <1>1, <1>2, <1>3, <1>4, <1>5, EmptyIds DEF OnePlace
<1>9. \A q \in Proc : InTransit(q)' = InTransit(q)
  BY <1>2 DEF InTransit, IInv, Types
<1>10. \A b \in Actor \ {a} : /\ mailbox'[b] = mailbox[b]
                              /\ held'[b] = held[b]
                              /\ picked'[b] = picked[b]
                              /\ cur'[b] = cur[b]
  BY <1>2 DEF IInv, Types
<1>11. /\ \A b \in Actor \ {a} : OnePlace(b)'
       /\ \A b \in Actor : Addressed(b)'
       /\ \A q \in Proc : Sending(q)'
       /\ Live' = Live \ {}
  BY <1>2, <1>7, <1>9, <1>10, LocalStep
<1>12. QED
  BY <1>1, <1>2, <1>4, <1>8, <1>11 DEF Keeps

\* One item of the drained queue goes back into the mailbox.
LEMMA RequeueStep ==
  ASSUME IInv, NEW a \in Actor, Requeue(a)
  PROVE  /\ held'[a] \in Seq(Item) /\ mailbox'[a] \in Seq(Item)
         /\ \A b \in Actor : OnePlace(b)' /\ Addressed(b)'
         /\ \A q \in Proc : Sending(q)'
         /\ Keeps
<1> DEFINE h == Head(held[a])
<1>1. /\ mailbox' = [mailbox EXCEPT ![a] = Append(@, h)]
      /\ held' = [held EXCEPT ![a] = Tail(@)]
      /\ held[a] # <<>>
      /\ UNCHANGED <<pc, cur, picked, saved, call, envelope, sent, outstanding>>
  BY DEF Requeue
<1>2. /\ OnePlace(a)
      /\ mailbox[a] \in Seq(Item)
      /\ held[a] \in Seq(Item)
      /\ mailbox'[a] = Append(mailbox[a], h)
      /\ held'[a] = Tail(held[a])
  BY <1>1 DEF IInv, Placement, Types
<1>3. /\ h \in Item
      /\ h # NoMsg => h \in Held(a)
      /\ h \notin Queued(a)
      /\ held'[a] \in Seq(Item)
      /\ Held(a)' = Held(a) \ {h}
      /\ Distinct(held[a])'
  <2>1. h # Stop => h \in Ids(held[a])
    BY <1>1, <1>2, TailIds DEF OnePlace
  <2>2. Stop \notin Queued(a)
    BY DEF Queued, Ids
  <2>3. h \notin Queued(a)
    BY <1>2, <2>1, <2>2 DEF OnePlace, Held
  <2>4. QED
    BY <1>1, <1>2, <2>1, <2>3, TailIds DEF OnePlace, Held, Stop, NoMsg
<1>4. /\ mailbox'[a] \in Seq(Item)
      /\ Queued(a)' = Queued(a) \cup ({h} \ {NoMsg})
      /\ Distinct(mailbox[a])'
  BY <1>2, <1>3, AppendIds DEF OnePlace, Queued
<1>5. Picked(a)' = Picked(a) /\ InHand(a)' = InHand(a)
  BY <1>1 DEF Picked, InHand
<1>6. NoMsg \notin Held(a)
  BY DEF Held, Ids, Stop, NoMsg
<1>7. AtActor(a)' = AtActor(a) \ {}
  BY <1>1, <1>3, <1>4, <1>5, <1>6 DEF AtActor
<1>8. OnePlace(a)'
  BY <1>1, <1>2, <1>3, <1>4, <1>5, <1>6 DEF OnePlace
<1>9. \A q \in Proc : InTransit(q)' = InTransit(q)
  BY <1>1 DEF InTransit
<1>10. \A b \in Actor \ {a} : mailbox'[b] = mailbox[b] /\ held'[b] = held[b]
  BY <1>1 DEF IInv, Types
<1>11. /\ \A b \in Actor \ {a} : OnePlace(b)'
       /\ \A b \in Actor : Addressed(b)'
       /\ \A q \in Proc : Sending(q)'
       /\ Live' = Live \ {}
  BY <1>1, <1>7, <1>9, <1>10, LocalStep
<1>12. QED
  BY <1>1, <1>3, <1>4, <1>8, <1>11 DEF Keeps

\* The exit snapshot takes the head of a mailbox.
LEMMA SaveStep ==
  ASSUME IInv, NEW a \in Actor, Save(a)
  PROVE  /\ mailbox'[a] \in Seq(Item) /\ saved'[a] \in SUBSET Msg
         /\ \A b \in Actor : OnePlace(b)' /\ Addressed(b)'
         /\ \A q \in Proc : Sending(q)'
         /\ Keeps
<1> DEFINE h == Head(mailbox[a])
<1>1. /\ mailbox' = [mailbox EXCEPT ![a] = Tail(@)]
      /\ saved' = [saved EXCEPT ![a] = @ \cup ({h} \ {Stop})]
      /\ mailbox[a] # <<>>
      /\ UNCHANGED <<pc, cur, held, picked, call, envelope, sent, outstanding>>
  BY DEF Save
<1>2. /\ OnePlace(a) /\ mailbox[a] \in Seq(Item) /\ saved[a] \subseteq Msg
      /\ mailbox'[a] = Tail(mailbox[a])
      /\ saved'[a] = saved[a] \cup ({h} \ {Stop})
  BY <1>1 DEF IInv, Placement, Types
<1>3. /\ Queued(a)' = Queued(a) \ {h}
      /\ Distinct(mailbox[a])'
      /\ mailbox'[a] \in Seq(Item)
      /\ h # Stop => h \in Queued(a)
      /\ Held(a)' = Held(a)
      /\ Picked(a)' = Picked(a)
      /\ InHand(a)' = InHand(a)
  BY <1>1, <1>2, TailIds DEF OnePlace, Queued, Held, Picked, InHand
<1>4. Stop \notin Queued(a) /\ Queued(a) \subseteq Msg
  BY <1>2, IdsType DEF Queued, Ids
<1>5. AtActor(a)' = AtActor(a) \ {}
  BY <1>2, <1>3, <1>4 DEF AtActor
<1>6. OnePlace(a)'
  <2>1. saved'[a] \cap (Queued(a)' \cup Held(a)' \cup Picked(a)' \cup InHand(a)')
          = {}
    BY <1>2, <1>3, <1>4 DEF OnePlace
  <2>2. Distinct(held[a])'
    BY <1>1, <1>2 DEF OnePlace, Distinct
  <2>3. QED
    BY <1>2, <1>3, <2>1, <2>2 DEF OnePlace
<1>7. \A q \in Proc : InTransit(q)' = InTransit(q)
  BY <1>1 DEF InTransit
<1>8. \A b \in Actor \ {a} : mailbox'[b] = mailbox[b] /\ saved'[b] = saved[b]
  BY <1>1 DEF IInv, Types
<1>9. /\ \A b \in Actor \ {a} : OnePlace(b)'
      /\ \A b \in Actor : Addressed(b)'
      /\ \A q \in Proc : Sending(q)'
      /\ Live' = Live \ {}
  BY <1>1, <1>5, <1>7, <1>8, LocalStep
<1>10. QED
  BY <1>1, <1>2, <1>3, <1>4, <1>6, <1>9 DEF Keeps

\* The selected message is counted as done.
LEMMA SelectTakeStep ==
  ASSUME IInv, NEW a \in Actor, SelectTake(a)
  PROVE  /\ \A b \in Actor : OnePlace(b)' /\ Addressed(b)'
         /\ \A q \in Proc : Sending(q)'
         /\ Closes(picked[a])
<1>1. /\ picked' = [picked EXCEPT ![a] = NoMsg]
      /\ UNCHANGED <<mailbox, held, cur, saved, call, envelope, sent>>
      /\ pc' = [pc EXCEPT ![a] = "run"]
      /\ pc[a] = "requeue"
      /\ picked[a] # NoMsg
  BY DEF SelectTake, Goto
<1>2. OnePlace(a)
  BY DEF IInv, Placement
<1>3. /\ Queued(a)' = Queued(a)
      /\ Held(a)' = Held(a)
      /\ InHand(a)' = InHand(a)
      /\ Picked(a)' = {}
      /\ Picked(a) = {picked[a]}
  BY <1>1 DEF Queued, Held, Picked, InHand, IInv, Types
<1>4. AtActor(a)' = AtActor(a) \ {picked[a]} /\ picked[a] \in AtActor(a)
  BY <1>1, <1>2, <1>3 DEF AtActor, OnePlace
<1>5. OnePlace(a)'
  BY <1>1, <1>2, <1>3 DEF OnePlace
<1>6. \A q \in Proc : InTransit(q)' = InTransit(q)
  BY <1>1 DEF InTransit, IInv, Types
<1>7. \A b \in Actor \ {a} : /\ mailbox'[b] = mailbox[b]
                             /\ held'[b] = held[b]
                             /\ picked'[b] = picked[b]
                             /\ cur'[b] = cur[b]
  BY <1>1 DEF IInv, Types
<1>8. /\ \A b \in Actor \ {a} : OnePlace(b)'
      /\ \A b \in Actor : Addressed(b)'
      /\ \A q \in Proc : Sending(q)'
      /\ Live' = Live \ {picked[a]}
  <2> DEFINE S == {picked[a]}
  <2>1. AtActor(a)' = AtActor(a) \ S /\ S \subseteq AtActor(a)
    BY <1>4
  <2> HIDE DEF S
  <2>2. /\ \A b \in Actor \ {a} : OnePlace(b)'
        /\ \A b \in Actor : Addressed(b)'
        /\ \A q \in Proc : Sending(q)'
        /\ Live' = Live \ S
    BY <1>1, <1>6, <1>7, <2>1, LocalStep
  <2>3. QED
    BY <2>2 DEF S
<1>9. picked[a] \in Live
  BY <1>4, AtActorType DEF Live, IInv
<1>10. QED
  BY <1>5, <1>8, <1>9 DEF Closes, SelectTake

-----------------------------------------------------------------------------
(***************************************************************************)
(* Types, slots and program counters, action by action.                    *)
(***************************************************************************)

\* The frame a thread runs in.
LEMMA SelfType ==
  ASSUME Types, NEW p \in Proc
  PROVE  /\ Self(p) \in Proc /\ Speaker(p) \in Proc
         /\ making[p] # <<>> => Self(p) \in Actor /\ Tail(making[p]) \in Seq(Actor)
<1>1. making[p] \in Seq(Actor) /\ Actor \subseteq Proc /\ Main \in Proc
  BY DEF Types, Proc
<1>2. making[p] # <<>> =>
        Head(making[p]) \in Actor /\ Tail(making[p]) \in Seq(Actor)
  BY <1>1
<1>3. QED
  BY <1>1, <1>2 DEF Self, Speaker

LEMMA StartSendTypes ==
  ASSUME Types, NEW p \in Proc, NEW a \in Actor, NEW k \in Kind,
         StartSend(p, a, k)
  PROVE  /\ sent' \in Item
         /\ envelope' \in [Msg -> Envelope]
         /\ future' \in [Msg -> FutureState]
         /\ call' \in [Proc -> Item]
<1>1. sent + 1 \in Msg /\ sent + 1 \in Item /\ a \in Proc
  BY RuntimeAssumption DEF StartSend, Types, Item, Msg, Proc
<1>2. [from |-> p, sender |-> Speaker(p), to |-> a, kind |-> k] \in Envelope
  BY <1>1, SelfType DEF Envelope
<1>3. QED
  BY <1>1, <1>2 DEF StartSend, Types, FutureState

LEMMA SettleTypes ==
  ASSUME Types, NEW m, NEW v \in FutureState, Settle(m, v)
  PROVE  future' \in [Msg -> FutureState]
  BY DEF Settle, Types

LEMMA StopActorTypes ==
  ASSUME Types, NEW a \in Actor, StopActor(a)
  PROVE  /\ stopped' \in [Actor -> BOOLEAN]
         /\ mailbox' \in [Actor -> Seq(Item)]
<1>1. mailbox[a] \in Seq(Item) /\ Stop \in Item
  BY RuntimeAssumption DEF Types, Item, Stop
<1>2. Append(mailbox[a], Stop) \in Seq(Item)
  BY <1>1, AppendIds
<1>3. QED
  BY <1>2 DEF StopActor, Types

LEMMA GotoTypes ==
  ASSUME Types, NEW p, NEW l \in WorkerPc \cup MainPc, Goto(p, l)
  PROVE  pc' \in [Proc -> WorkerPc \cup MainPc]
  BY DEF Goto, Types

\* The message in hand has been sent.
LEMMA CurSent ==
  ASSUME IInv
  PROVE  \A b \in Actor : cur[b] # NoMsg => cur[b] \in 1 .. sent
<1>1. \A b \in Actor : AtActor(b) \subseteq Msg /\ Addressed(b)
  BY AtActorType DEF IInv, Placement
<1>2. \A b \in Actor : cur[b] # NoMsg => cur[b] \in AtActor(b)
  BY DEF AtActor, InHand
<1>3. QED
  BY <1>1, <1>2 DEF Addressed, IInv, Types, Item, Msg

\* A step that moves the pc of one thread.
LEMMA ThreadsFrame ==
  ASSUME Types, ThreadsOK, NEW p \in Proc, NEW l,
         pc' = [pc EXCEPT ![p] = l],
         verdict' = verdict, p = Main => pc[p] \notin {"save", "halt", "exited"},
         p = Main => l \in MainPc \cup {"run", "put", "wait", "exited"},
         p \in Streamer => l \in {"unborn", "run", "put", "exited"},
         l = "wait" => call'[p] \in 1 .. sent',
         \A q \in Proc \ {p} : call'[q] = call[q],
         \A m \in 1 .. sent : m \in 1 .. sent',
         \A m \in Msg : m > sent' => /\ m > sent
                                     /\ future'[m] = future[m]
                                     /\ envelope'[m] = envelope[m]
  PROVE  ThreadsOK'
<1>1. \A q \in Proc : pc'[q] = IF q = p THEN l ELSE pc[q]
  BY DEF Types
<1>2. Main \in Proc /\ Streamer \subseteq Proc
  BY DEF Proc
<1>3. pc'[Main] \in MainPc \cup {"run", "put", "wait", "exited"}
  BY <1>1, <1>2 DEF ThreadsOK
<1>4. \A s \in Streamer : pc'[s] \in {"unborn", "run", "put", "exited"}
  BY <1>1, <1>2 DEF ThreadsOK
<1>5. \A q \in Proc : pc'[q] = "wait" => call'[q] \in 1 .. sent'
  BY <1>1 DEF ThreadsOK
<1>6. \A m \in Msg : m > sent' => /\ envelope'[m] = Blank
                                  /\ future'[m] = "absent"
  BY DEF ThreadsOK
<1>7. pc'[Main] \notin {"save", "halt", "exited"} => verdict' = "none"
  BY <1>1, <1>2 DEF ThreadsOK
<1>8. QED
  BY <1>3, <1>4, <1>5, <1>6, <1>7 DEF ThreadsOK

\* What message_started does to the tables of sent messages.
LEMMA StartSendThreads ==
  ASSUME IInv, NEW p \in Proc, NEW a \in Actor, NEW k \in Kind,
         StartSend(p, a, k)
  PROVE  /\ sent' = sent + 1
         /\ sent + 1 \in Msg
         /\ call'[p] \in 1 .. sent'
         /\ \A q \in Proc \ {p} : call'[q] = call[q]
         /\ \A m \in 1 .. sent : m \in 1 .. sent' /\ future'[m] = future[m]
         /\ \A m \in Msg : m > sent' => /\ m > sent
                                        /\ future'[m] = future[m]
                                        /\ envelope'[m] = envelope[m]
  BY RuntimeAssumption DEF IInv, Types, StartSend, Item, Msg

\* The slots change type in no step.
LEMMA TypesStep == IInv /\ [Next]_vars => Types'
<1> SUFFICES ASSUME IInv, [Next]_vars
             PROVE  Types'
  OBVIOUS
<1> USE DEF Types, Goto, Settle, Return, work, idling
<1>0. /\ Types
      /\ NoMsg \in Item /\ Stop \in Item
      /\ Actor \subseteq Proc /\ Streamer \subseteq Proc /\ Main \in Proc
      /\ Msg \subseteq Item
  BY RuntimeAssumption DEF IInv, Item, Msg, NoMsg, Stop, Proc
<1>1. ASSUME NEW a \in Actor, Poll(a)
      PROVE  Types'
  BY <1>0, <1>1 DEF Poll, WorkerPc, MainPc
<1>2. ASSUME NEW a \in Actor, Get(a)
      PROVE  Types'
  <2>1. CASE mailbox[a] = <<>>
    BY <1>0, <1>2, <2>1 DEF Get, WorkerPc
  <2>2. CASE mailbox[a] # <<>>
    <3>1. Tail(mailbox[a]) \in Seq(Item) /\ Head(mailbox[a]) \in Item
      BY <1>0, <2>2
    <3>2. /\ mailbox' = [mailbox EXCEPT ![a] = Tail(mailbox[a])]
          /\ cur' = [cur EXCEPT ![a] = Head(mailbox[a])]
          /\ \/ Goto(a, "exited")
             \/ Goto(a, "run")
      BY <1>2, <2>2 DEF Get
    <3>3. pc' \in [Proc -> WorkerPc \cup MainPc]
      BY <1>0, <3>2 DEF WorkerPc
    <3>4. QED
      BY <1>0, <1>2, <3>1, <3>2, <3>3 DEF Get
  <2>3. QED
    BY <2>1, <2>2
<1>3. ASSUME NEW a \in Actor, Reply(a)
      PROVE  Types'
  <2>1. CASE future[cur[a]] # "absent"
    BY <1>0, <1>3, <2>1, SettleTypes DEF Reply, FutureState
  <2>2. CASE future[cur[a]] = "absent"
    <3> DEFINE s == envelope[cur[a]].sender
    <3>1. s \in Actor /\ StartSend(a, s, "past") /\ Goto(a, "put")
      BY <1>3, <2>2 DEF Reply
    <3>2. "past" \in Kind
      BY DEF Kind
    <3> HIDE DEF s
    <3>3. QED
      BY <1>0, <1>3, <2>2, <3>1, <3>2, StartSendTypes DEF Reply, WorkerPc
  <2>3. QED
    BY <2>1, <2>2
<1>4. ASSUME NEW a \in Actor, Complete(a)
      PROVE  Types'
  <2>1. PICK v \in {"value", "null"} : Settle(cur[a], v)
    BY <1>4 DEF Complete
  <2>2. QED
    BY <1>0, <1>4, <2>1, SettleTypes DEF Complete, WorkerPc, FutureState
<1>5. ASSUME NEW a \in Actor, MessageDone(a)
      PROVE  Types'
  BY <1>0, <1>5 DEF MessageDone, WorkerPc, MainPc
<1>6. ASSUME NEW a \in Actor, EnterSelect(a)
      PROVE  Types'
  BY <1>0, <1>6 DEF EnterSelect, WorkerPc, MainPc
<1>7. ASSUME NEW a \in Actor, SelectMatch(a)
      PROVE  Types'
  <2>1. held'[a] \in Seq(Item) /\ picked'[a] \in Item
    BY <1>7, DrainStep
  <2>2. QED
    BY <1>0, <1>7, <2>1 DEF SelectMatch, Drain, WorkerPc
<1>8. ASSUME NEW a \in Actor, SelectMiss(a)
      PROVE  Types'
  <2>1. held'[a] \in Seq(Item) /\ picked'[a] \in Item
    BY <1>8, DrainStep
  <2>2. QED
    BY <1>0, <1>8, <2>1 DEF SelectMiss, Drain, WorkerPc
<1>9. ASSUME NEW a \in Actor, Requeue(a)
      PROVE  Types'
  <2>1. held'[a] \in Seq(Item) /\ mailbox'[a] \in Seq(Item)
    BY <1>9, RequeueStep
  <2>2. QED
    BY <1>0, <1>9, <2>1 DEF Requeue
<1>10. ASSUME NEW a \in Actor, SelectTake(a)
      PROVE  Types'
  BY <1>0, <1>10 DEF SelectTake, WorkerPc, MainPc
<1>11. ASSUME NEW a \in Actor, SelectRetry(a)
      PROVE  Types'
  <2>1. PICK l \in {"select", "run"} : Goto(a, l)
    BY <1>11 DEF SelectRetry
  <2>2. QED
    BY <1>0, <1>11, <2>1 DEF SelectRetry, WorkerPc
<1>12. ASSUME NEW p \in Proc, Suicide(p)
      PROVE  Types'
  BY <1>0, <1>12 DEF Suicide, WorkerPc, MainPc
<1>13. ASSUME NEW a \in Actor, Halt(a)
      PROVE  Types'
  BY <1>0, <1>13, StopActorTypes DEF Halt
<1>14. ASSUME NEW p \in Proc, NEW a \in Actor, NEW k \in {"past", "now", "future"}, Send(p, a, k)
      PROVE  Types'
  <2>1. k \in Kind
    BY DEF Kind
  <2>2. QED
    BY <1>0, <1>14, <2>1, StartSendTypes DEF Send, WorkerPc
<1>15. ASSUME NEW p \in Proc, Put(p)
      PROVE  Types'
  <2>1. /\ Sending(p) /\ InTransit(p) = {call[p]} /\ call[p] \in Item
    BY <1>0, <1>15 DEF IInv, Placement, Put, InTransit
  <2>2. envelope[call[p]].to \in Actor
    BY <2>1 DEF Sending
  <2>3. QED
    BY <1>0, <1>15, <2>1, <2>2 DEF Put, WorkerPc
<1>16. ASSUME NEW p \in Proc, NEW m \in Msg, Await(p, m)
      PROVE  Types'
  BY <1>0, <1>16 DEF Await, WorkerPc, MainPc
<1>17. ASSUME NEW p \in Proc, Wake(p)
      PROVE  Types'
  BY <1>0, <1>17 DEF Wake, WorkerPc, MainPc
<1>18. ASSUME NEW p \in Proc, NEW a \in Actor, Spawn(p, a)
      PROVE  Types'
  <2>1. making' \in [Proc -> Seq(Actor)]
    <3>1. <<a>> \o making[p] \in Seq(Actor)
      BY <1>0
    <3>2. QED
      BY <1>0, <1>18, <3>1 DEF Spawn
  <2>2. pc' \in [Proc -> WorkerPc \cup MainPc] /\ known' \subseteq Actor
    BY <1>0, <1>18 DEF Spawn, WorkerPc
  <2>3. QED
    BY <1>0, <1>18, <2>1, <2>2 DEF Spawn
<1>30. ASSUME NEW p \in Proc, SpawnRaises(p)
      PROVE  Types'
  BY <1>0, <1>30, SelfType DEF SpawnRaises
<1>31. ASSUME NEW p \in Proc, Start(p)
      PROVE  Types'
  <2>1. PICK a \in Actor : a = Self(p)
    BY <1>0, <1>31, SelfType DEF Start
  <2>2. making' \in [Proc -> Seq(Actor)]
    BY <1>0, <1>31, SelfType DEF Start
  <2>3. CASE a \in HasInit
    <3>1. StartSend(p, a, "init") /\ "init" \in Kind
      BY <1>31, <2>1, <2>3 DEF Start, Kind
    <3>2. pc' \in [Proc -> WorkerPc \cup MainPc]
      BY <1>0, <1>31, <2>1, <2>3 DEF Start, WorkerPc
    <3>3. QED
      BY <1>0, <1>31, <2>1, <2>2, <2>3, <3>1, <3>2, StartSendTypes DEF Start
  <2>4. CASE a \notin HasInit
    <3>1. pc' \in [Proc -> WorkerPc \cup MainPc] /\ known' \subseteq Actor
      BY <1>0, <1>31, <2>1, <2>4 DEF Start, WorkerPc
    <3>2. QED
      BY <1>0, <1>31, <2>1, <2>2, <2>4, <3>1 DEF Start
  <2>5. QED
    BY <2>3, <2>4
<1>19. ASSUME NEW p \in Proc, NEW a \in Actor, Retire(p, a)
      PROVE  Types'
  BY <1>0, <1>19, StopActorTypes DEF Retire
<1>20. ASSUME NEW p \in Proc, NEW s \in Streamer, AiStream(p, s)
      PROVE  Types'
  BY <1>0, <1>20 DEF AiStream, WorkerPc, MainPc
<1>21. ASSUME NEW s \in Streamer, EndStream(s)
      PROVE  Types'
  BY <1>0, <1>21 DEF EndStream, WorkerPc, MainPc
<1>22. ASSUME ToggleGate
      PROVE  Types'
  BY <1>0, <1>22 DEF ToggleGate, WorkerPc, MainPc
<1>23. ASSUME EndScript
      PROVE  Types'
  BY <1>0, <1>23 DEF EndScript, WorkerPc, MainPc
<1>24. ASSUME WaitIdle
      PROVE  Types'
  BY <1>0, <1>24 DEF WaitIdle, WorkerPc, MainPc
<1>25. ASSUME ExitMain
      PROVE  Types'
  BY <1>0, <1>25 DEF ExitMain, WorkerPc, MainPc
<1>26. CASE UNCHANGED vars
  BY <1>0, <1>26 DEF vars
<1>28. ASSUME NEW a \in Actor, Save(a)
      PROVE  Types'
  <2>1. mailbox'[a] \in Seq(Item) /\ saved'[a] \in SUBSET Msg
    BY <1>28, SaveStep
  <2>2. QED
    BY <1>0, <1>28, <2>1 DEF Save
<1>29. ASSUME Shutdown
      PROVE  Types'
  BY <1>0, <1>29 DEF Shutdown, WorkerPc, MainPc
<1>27. QED
  BY <1>1, <1>2, <1>3, <1>4, <1>5, <1>6, <1>7, <1>8, <1>9, <1>10, <1>11, <1>12, <1>13, <1>14, <1>15, <1>16, <1>17, <1>18, <1>19, <1>20, <1>21, <1>22, <1>23, <1>24, <1>25, <1>26, <1>28, <1>29, <1>30, <1>31
     DEF Next, Worker, Program

-----------------------------------------------------------------------------
\* The slots of every thread agree with its pc after every step.
LEMMA ThreadsStep ==
  IInv /\ [Next]_vars => (\A b \in Actor : WorkerOK(b)') /\ ThreadsOK'
<1> SUFFICES ASSUME IInv, [Next]_vars
             PROVE  (\A b \in Actor : WorkerOK(b)') /\ ThreadsOK'
  OBVIOUS
<1> USE DEF Goto, StopActor, Return, work, idling
<1>0. /\ Types
      /\ \A b \in Actor : WorkerOK(b)
      /\ ThreadsOK
      /\ Actor \subseteq Proc /\ Streamer \subseteq Proc /\ Main \in Proc
      /\ sent \in Nat
      /\ Main \notin Actor \cup Streamer /\ Actor \cap Streamer = {}
      /\ Proc = Actor \cup Streamer \cup {Main}
      /\ Types'
  <2>1. sent \in Nat
    BY RuntimeAssumption DEF IInv, Types, Item
  <2>2. QED
    BY <2>1, RuntimeAssumption, TypesStep DEF IInv, Placement, Proc
<1>00. \A b \in Actor : cur[b] # NoMsg => cur[b] \in 1 .. sent
  BY <1>0, CurSent
<1>1. ASSUME NEW a \in Actor, Poll(a)
      PROVE  (\A b \in Actor : WorkerOK(b)') /\ ThreadsOK'
  <2>1. \A b \in Actor : WorkerOK(b)'
    <3>1. /\ pc'[a] \in {"exited", "get"} /\ pc[a] = "top"
          /\ \A b \in Actor \ {a} : pc'[b] = pc[b]
          /\ UNCHANGED <<cur, held, picked, future>>
      BY <1>0, <1>1 DEF Poll, Types
    <3>2. WorkerOK(a)'
      BY <1>0, <3>1 DEF WorkerOK, Busy, WorkerPc
    <3>3. QED
      BY <1>0, <3>1, <3>2 DEF WorkerOK
  <2>2. ThreadsOK'
    <3>1. \E l \in {"exited", "get"} : pc' = [pc EXCEPT ![a] = l]
      BY <1>1 DEF Poll
    <3>2. QED
      BY <1>0, <1>1, <3>1, ThreadsFrame DEF Poll
  <2>3. QED
    BY <2>1, <2>2
<1>2. ASSUME NEW a \in Actor, Get(a)
      PROVE  (\A b \in Actor : WorkerOK(b)') /\ ThreadsOK'
  <2>1. \A b \in Actor : WorkerOK(b)'
    <3>1. CASE mailbox[a] = <<>>
      BY <1>0, <1>2, <3>1 DEF Get, WorkerOK, Busy, Types, WorkerPc
    <3>2. CASE mailbox[a] # <<>>
      <4> DEFINE h == Head(mailbox[a])
      <4>1. /\ pc[a] = "get"
            /\ pc' = [pc EXCEPT ![a] = IF h = Stop THEN "exited" ELSE "run"]
            /\ cur' = [cur EXCEPT ![a] = h]
            /\ UNCHANGED <<held, picked, future>>
        BY <1>2, <3>2 DEF Get
      <4> HIDE DEF h
      <4>2. QED
        BY <1>0, <4>1 DEF WorkerOK, Busy, Types, WorkerPc, Stop, NoMsg
    <3>3. QED
      BY <3>1, <3>2
  <2>2. ThreadsOK'
    <3>1. \E l \in {"exited", "top", "run"} : pc' = [pc EXCEPT ![a] = l]
      BY <1>2 DEF Get
    <3>2. QED
      BY <1>0, <1>2, <3>1, ThreadsFrame DEF Get
  <2>3. QED
    BY <2>1, <2>2
<1>3. ASSUME NEW a \in Actor, Reply(a)
      PROVE  (\A b \in Actor : WorkerOK(b)') /\ ThreadsOK'
  <2>1. CASE future[cur[a]] # "absent"
    BY <1>0, <1>00, <1>3, <2>1
       DEF Reply, Settle, WorkerOK, ThreadsOK, Busy, Types, Item, Msg, NoMsg
  <2>2. CASE future[cur[a]] = "absent"
    <3> DEFINE s == envelope[cur[a]].sender
    <3>1. /\ s \in Actor /\ StartSend(a, s, "past") /\ pc[a] = "run"
          /\ pc' = [pc EXCEPT ![a] = "put"]
          /\ UNCHANGED <<work, verdict>>
      BY <1>3, <2>2 DEF Reply
    <3> HIDE DEF s
    <3>2. "past" \in Kind
      BY DEF Kind
    <3>3. \A b \in Actor : WorkerOK(b)'
      BY <1>0, <1>00, <3>1, <3>2, StartSendThreads
         DEF WorkerOK, Busy, Types, WorkerPc
    <3>4. ThreadsOK'
      BY <1>0, <3>1, <3>2, StartSendThreads, ThreadsFrame
    <3>5. QED
      BY <3>3, <3>4
  <2>3. QED
    BY <2>1, <2>2
<1>4. ASSUME NEW a \in Actor, Complete(a)
      PROVE  (\A b \in Actor : WorkerOK(b)') /\ ThreadsOK'
  <2>1. \A b \in Actor : WorkerOK(b)'
    BY <1>0, <1>00, <1>4 DEF Complete, WorkerOK, Busy, Types, WorkerPc, Settle
  <2>2. ThreadsOK'
    <3>1. cur[a] \in 1 .. sent
      BY <1>0, <1>00, <1>4 DEF Complete, WorkerOK, Busy
    <3>2. \A m \in Msg : m > sent => future'[m] = future[m]
      BY <1>0, <1>4, <3>1 DEF Complete, Settle, Types, Msg
    <3>3. /\ pc' = [pc EXCEPT ![a] = "done"]
          /\ UNCHANGED <<sent, envelope, call, verdict>>
      BY <1>4 DEF Complete
    <3>4. QED
      BY <1>0, <3>2, <3>3, ThreadsFrame
  <2>3. QED
    BY <2>1, <2>2
<1>5. ASSUME NEW a \in Actor, MessageDone(a)
      PROVE  (\A b \in Actor : WorkerOK(b)') /\ ThreadsOK'
  <2>1. \A b \in Actor : WorkerOK(b)'
    BY <1>0, <1>00, <1>5 DEF MessageDone, WorkerOK, Busy, Types, WorkerPc
  <2>2. ThreadsOK'
    BY <1>0, <1>00, <1>5 DEF MessageDone, ThreadsOK, MainPc, Types
  <2>3. QED
    BY <2>1, <2>2
<1>6. ASSUME NEW a \in Actor, EnterSelect(a)
      PROVE  (\A b \in Actor : WorkerOK(b)') /\ ThreadsOK'
  <2>1. \A b \in Actor : WorkerOK(b)'
    BY <1>0, <1>00, <1>6 DEF EnterSelect, WorkerOK, Busy, Types, WorkerPc
  <2>2. ThreadsOK'
    BY <1>0, <1>00, <1>6 DEF EnterSelect, ThreadsOK, MainPc, Types
  <2>3. QED
    BY <2>1, <2>2
<1>7. ASSUME NEW a \in Actor, SelectMatch(a)
      PROVE  (\A b \in Actor : WorkerOK(b)') /\ ThreadsOK'
  <2>1. \A b \in Actor : WorkerOK(b)'
    BY <1>0, <1>00, <1>7 DEF SelectMatch, Drain, WorkerOK, Busy, Types, WorkerPc
  <2>2. ThreadsOK'
    BY <1>0, <1>00, <1>7 DEF SelectMatch, Drain, ThreadsOK, MainPc, Types
  <2>3. QED
    BY <2>1, <2>2
<1>8. ASSUME NEW a \in Actor, SelectMiss(a)
      PROVE  (\A b \in Actor : WorkerOK(b)') /\ ThreadsOK'
  <2>1. \A b \in Actor : WorkerOK(b)'
    BY <1>0, <1>00, <1>8 DEF SelectMiss, Drain, WorkerOK, Busy, Types, WorkerPc
  <2>2. ThreadsOK'
    BY <1>0, <1>00, <1>8 DEF SelectMiss, Drain, ThreadsOK, MainPc, Types
  <2>3. QED
    BY <2>1, <2>2
<1>9. ASSUME NEW a \in Actor, Requeue(a)
      PROVE  (\A b \in Actor : WorkerOK(b)') /\ ThreadsOK'
  <2>1. \A b \in Actor : WorkerOK(b)'
    BY <1>0, <1>00, <1>9 DEF Requeue, WorkerOK, Busy, Types, WorkerPc
  <2>2. ThreadsOK'
    BY <1>0, <1>00, <1>9 DEF Requeue, ThreadsOK, MainPc, Types
  <2>3. QED
    BY <2>1, <2>2
<1>10. ASSUME NEW a \in Actor, SelectTake(a)
      PROVE  (\A b \in Actor : WorkerOK(b)') /\ ThreadsOK'
  <2>1. \A b \in Actor : WorkerOK(b)'
    BY <1>0, <1>00, <1>10 DEF SelectTake, WorkerOK, Busy, Types, WorkerPc
  <2>2. ThreadsOK'
    BY <1>0, <1>00, <1>10 DEF SelectTake, ThreadsOK, MainPc, Types
  <2>3. QED
    BY <2>1, <2>2
<1>11. ASSUME NEW a \in Actor, SelectRetry(a)
      PROVE  (\A b \in Actor : WorkerOK(b)') /\ ThreadsOK'
  <2>1. \A b \in Actor : WorkerOK(b)'
    BY <1>0, <1>00, <1>11 DEF SelectRetry, WorkerOK, Busy, Types, WorkerPc
  <2>2. ThreadsOK'
    BY <1>0, <1>00, <1>11 DEF SelectRetry, ThreadsOK, MainPc, Types
  <2>3. QED
    BY <2>1, <2>2
<1>12. ASSUME NEW p \in Proc, Suicide(p)
      PROVE  (\A b \in Actor : WorkerOK(b)') /\ ThreadsOK'
  <2>1. \A b \in Actor : WorkerOK(b)'
    BY <1>0, <1>00, <1>12 DEF Suicide, WorkerOK, Busy, Types, WorkerPc
  <2>2. ThreadsOK'
    BY <1>0, <1>00, <1>12 DEF Suicide, ThreadsOK, MainPc, Types
  <2>3. QED
    BY <2>1, <2>2
<1>13. ASSUME NEW a \in Actor, Halt(a)
      PROVE  (\A b \in Actor : WorkerOK(b)') /\ ThreadsOK'
  <2>1. \A b \in Actor : WorkerOK(b)'
    BY <1>0, <1>00, <1>13 DEF Halt, WorkerOK, Busy, Types, WorkerPc
  <2>2. ThreadsOK'
    BY <1>0, <1>00, <1>13 DEF Halt, ThreadsOK, MainPc, Types
  <2>3. QED
    BY <2>1, <2>2
<1>14. ASSUME NEW p \in Proc, NEW a \in Actor, NEW k \in {"past", "now", "future"}, Send(p, a, k)
      PROVE  (\A b \in Actor : WorkerOK(b)') /\ ThreadsOK'
  <2>1. k \in Kind
    BY DEF Kind
  <2>2. /\ StartSend(p, a, k) /\ pc' = [pc EXCEPT ![p] = "put"]
        /\ pc[p] = "run" /\ UNCHANGED verdict
    BY <1>14 DEF Send
  <2>3. \A b \in Actor : WorkerOK(b)'
    BY <1>0, <1>00, <1>14, <2>1, <2>2, StartSendThreads
       DEF Send, WorkerOK, Busy, Types, WorkerPc
  <2>4. ThreadsOK'
    BY <1>0, <2>1, <2>2, StartSendThreads, ThreadsFrame
  <2>5. QED
    BY <2>3, <2>4
<1>15. ASSUME NEW p \in Proc, Put(p)
      PROVE  (\A b \in Actor : WorkerOK(b)') /\ ThreadsOK'
  <2>1. \A b \in Actor : WorkerOK(b)'
    BY <1>0, <1>00, <1>15 DEF Put, WorkerOK, Busy, Types, WorkerPc
  <2>2. ThreadsOK'
    <3>1. PICK l \in {"wait", "run"} :
            /\ pc' = [pc EXCEPT ![p] = l]
            /\ l = "wait" => /\ envelope[call[p]].kind = "now"
                             /\ call' = [call EXCEPT ![p] = call[p]]
            /\ l = "run" => call' = [call EXCEPT ![p] = NoMsg]
      BY <1>15 DEF Put
    <3>2. call[p] \in 1 .. sent
      BY <1>15 DEF Put, InTransit, Sending, IInv, Placement
    <3>3. p \in Streamer => envelope[call[p]].kind # "now"
      BY <1>15 DEF Put, InTransit, Sending, IInv, Placement
    <3>4. /\ l = "wait" => call'[p] \in 1 .. sent
          /\ \A q \in Proc \ {p} : call'[q] = call[q]
      BY <1>0, <3>1, <3>2 DEF Types
    <3>5. UNCHANGED <<sent, future, envelope, verdict>> /\ pc[p] = "put"
      BY <1>15 DEF Put
    <3>6. QED
      BY <1>0, <3>1, <3>3, <3>4, <3>5, ThreadsFrame
  <2>3. QED
    BY <2>1, <2>2
<1>16. ASSUME NEW p \in Proc, NEW m \in Msg, Await(p, m)
      PROVE  (\A b \in Actor : WorkerOK(b)') /\ ThreadsOK'
  <2>1. \A b \in Actor : WorkerOK(b)'
    BY <1>0, <1>00, <1>16 DEF Await, WorkerOK, Busy, Types, WorkerPc
  <2>2. ThreadsOK'
    <3>1. m \in 1 .. sent
      BY <1>0, <1>16 DEF Await, ThreadsOK, Blank, Msg
    <3>2. p \notin Streamer
      BY <1>16 DEF Await
    <3>3. call'[p] = m /\ \A q \in Proc \ {p} : call'[q] = call[q]
      BY <1>0, <1>16 DEF Await, Types
    <3>4. /\ pc' = [pc EXCEPT ![p] = "wait"] /\ pc[p] = "run"
          /\ UNCHANGED <<sent, future, envelope, verdict>>
      BY <1>16 DEF Await
    <3>5. QED
      BY <1>0, <3>1, <3>2, <3>3, <3>4, ThreadsFrame
  <2>3. QED
    BY <2>1, <2>2
<1>17. ASSUME NEW p \in Proc, Wake(p)
      PROVE  (\A b \in Actor : WorkerOK(b)') /\ ThreadsOK'
  <2>1. \A b \in Actor : WorkerOK(b)'
    BY <1>0, <1>00, <1>17 DEF Wake, WorkerOK, Busy, Types, WorkerPc
  <2>2. ThreadsOK'
    BY <1>0, <1>00, <1>17 DEF Wake, ThreadsOK, MainPc, Types
  <2>3. QED
    BY <2>1, <2>2
<1>18. ASSUME NEW p \in Proc, NEW a \in Actor, Spawn(p, a)
      PROVE  (\A b \in Actor : WorkerOK(b)') /\ ThreadsOK'
  <2>1. /\ pc' = [pc EXCEPT ![a] = "made"]
        /\ pc[a] = "unborn"
        /\ UNCHANGED <<sent, call, future, envelope, work, verdict>>
    BY <1>18 DEF Spawn
  <2>2. \A b \in Actor : WorkerOK(b)'
    BY <1>0, <2>1 DEF WorkerOK, Busy, Types, WorkerPc
  <2>3. ThreadsOK'
    BY <1>0, <2>1, ThreadsFrame
  <2>4. QED
    BY <2>2, <2>3
<1>30. ASSUME NEW p \in Proc, SpawnRaises(p)
      PROVE  (\A b \in Actor : WorkerOK(b)') /\ ThreadsOK'
  <2>1. \A b \in Actor : WorkerOK(b)'
    BY <1>0, <1>30 DEF SpawnRaises, WorkerOK
  <2>2. ThreadsOK'
    BY <1>0, <1>30 DEF SpawnRaises, ThreadsOK
  <2>3. QED
    BY <2>1, <2>2
<1>31. ASSUME NEW p \in Proc, Start(p)
      PROVE  (\A b \in Actor : WorkerOK(b)') /\ ThreadsOK'
  <2>0. PICK a \in Actor : a = Self(p) /\ pc[a] = "made" /\ pc[p] = "run"
    BY <1>0, <1>31, SelfType DEF Start
  <2>1. CASE a \in HasInit
    <3>1. StartSend(p, a, "init") /\ "init" \in Kind
      BY <1>31, <2>0, <2>1 DEF Start, Kind
    <3>2. /\ \A q \in Proc : pc'[q] = IF q = p THEN "put"
                                  ELSE IF q = a THEN "top" ELSE pc[q]
          /\ UNCHANGED <<work, verdict>>
          /\ p \notin Streamer
      BY <1>0, <1>31, <2>0, <2>1 DEF Start, Types
    <3>3. \A b \in Actor : WorkerOK(b)'
      BY <1>0, <1>00, <2>0, <3>1, <3>2, StartSendThreads
         DEF WorkerOK, Busy, WorkerPc
    <3>4. ThreadsOK'
      BY <1>0, <2>0, <3>1, <3>2, StartSendThreads DEF ThreadsOK
    <3>5. QED
      BY <3>3, <3>4
  <2>2. CASE a \notin HasInit
    <3>1. /\ pc' = [pc EXCEPT ![a] = "top"]
          /\ UNCHANGED <<sent, call, future, envelope, work, verdict>>
      BY <1>31, <2>0, <2>2 DEF Start
    <3>2. \A b \in Actor : WorkerOK(b)'
      BY <1>0, <2>0, <3>1 DEF WorkerOK, Busy, Types, WorkerPc
    <3>3. ThreadsOK'
      BY <1>0, <2>0, <3>1, ThreadsFrame
    <3>4. QED
      BY <3>2, <3>3
  <2>3. QED
    BY <2>1, <2>2
<1>19. ASSUME NEW p \in Proc, NEW a \in Actor, Retire(p, a)
      PROVE  (\A b \in Actor : WorkerOK(b)') /\ ThreadsOK'
  <2>1. \A b \in Actor : WorkerOK(b)'
    BY <1>0, <1>00, <1>19 DEF Retire, WorkerOK, Busy, Types, WorkerPc
  <2>2. ThreadsOK'
    BY <1>0, <1>00, <1>19 DEF Retire, ThreadsOK, MainPc, Types
  <2>3. QED
    BY <2>1, <2>2
<1>20. ASSUME NEW p \in Proc, NEW s \in Streamer, AiStream(p, s)
      PROVE  (\A b \in Actor : WorkerOK(b)') /\ ThreadsOK'
  <2>1. \A b \in Actor : WorkerOK(b)'
    BY <1>0, <1>00, <1>20 DEF AiStream, WorkerOK, Busy, Types, WorkerPc
  <2>2. ThreadsOK'
    BY <1>0, <1>00, <1>20 DEF AiStream, ThreadsOK, MainPc, Types
  <2>3. QED
    BY <2>1, <2>2
<1>21. ASSUME NEW s \in Streamer, EndStream(s)
      PROVE  (\A b \in Actor : WorkerOK(b)') /\ ThreadsOK'
  <2>1. \A b \in Actor : WorkerOK(b)'
    BY <1>0, <1>00, <1>21 DEF EndStream, WorkerOK, Busy, Types, WorkerPc
  <2>2. ThreadsOK'
    BY <1>0, <1>00, <1>21 DEF EndStream, ThreadsOK, MainPc, Types
  <2>3. QED
    BY <2>1, <2>2
<1>22. ASSUME ToggleGate
      PROVE  (\A b \in Actor : WorkerOK(b)') /\ ThreadsOK'
  <2>1. \A b \in Actor : WorkerOK(b)'
    BY <1>0, <1>00, <1>22 DEF ToggleGate, WorkerOK, Busy, Types, WorkerPc
  <2>2. ThreadsOK'
    BY <1>0, <1>00, <1>22 DEF ToggleGate, ThreadsOK, MainPc, Types
  <2>3. QED
    BY <2>1, <2>2
<1>23. ASSUME EndScript
      PROVE  (\A b \in Actor : WorkerOK(b)') /\ ThreadsOK'
  <2>1. \A b \in Actor : WorkerOK(b)'
    BY <1>0, <1>00, <1>23 DEF EndScript, WorkerOK, Busy, Types, WorkerPc
  <2>2. ThreadsOK'
    BY <1>0, <1>00, <1>23 DEF EndScript, ThreadsOK, MainPc, Types
  <2>3. QED
    BY <2>1, <2>2
<1>24. ASSUME WaitIdle
      PROVE  (\A b \in Actor : WorkerOK(b)') /\ ThreadsOK'
  <2>1. \A b \in Actor : WorkerOK(b)'
    BY <1>0, <1>00, <1>24 DEF WaitIdle, WorkerOK, Busy, Types, WorkerPc
  <2>2. ThreadsOK'
    BY <1>0, <1>00, <1>24 DEF WaitIdle, ThreadsOK, MainPc, Types
  <2>3. QED
    BY <2>1, <2>2
<1>25. ASSUME ExitMain
      PROVE  (\A b \in Actor : WorkerOK(b)') /\ ThreadsOK'
  <2>1. \A b \in Actor : WorkerOK(b)'
    BY <1>0, <1>00, <1>25 DEF ExitMain, WorkerOK, Busy, Types, WorkerPc
  <2>2. ThreadsOK'
    BY <1>0, <1>00, <1>25 DEF ExitMain, ThreadsOK, MainPc, Types
  <2>3. QED
    BY <2>1, <2>2
<1>26. CASE UNCHANGED vars
  BY <1>0, <1>26 DEF vars, WorkerOK, ThreadsOK
<1>28. ASSUME NEW a \in Actor,
             Save(a)
      PROVE  (\A b \in Actor : WorkerOK(b)') /\ ThreadsOK'
  <2>1. \A b \in Actor : WorkerOK(b)'
    BY <1>0, <1>00, <1>28 DEF Save, WorkerOK, Busy, Types, WorkerPc
  <2>2. ThreadsOK'
    BY <1>0, <1>00, <1>28 DEF Save, ThreadsOK, MainPc, Types
  <2>3. QED
    BY <2>1, <2>2
<1>29. ASSUME Shutdown
      PROVE  (\A b \in Actor : WorkerOK(b)') /\ ThreadsOK'
  <2>1. \A b \in Actor : WorkerOK(b)'
    BY <1>0, <1>00, <1>29 DEF Shutdown, WorkerOK, Busy, Types, WorkerPc
  <2>2. ThreadsOK'
    BY <1>0, <1>00, <1>29 DEF Shutdown, ThreadsOK, MainPc, Types
  <2>3. QED
    BY <2>1, <2>2
<1>27. QED
  BY <1>1, <1>2, <1>3, <1>4, <1>5, <1>6, <1>7, <1>8, <1>9, <1>10, <1>11, <1>12, <1>13, <1>14, <1>15, <1>16, <1>17, <1>18, <1>19, <1>20, <1>21, <1>22, <1>23, <1>24, <1>25, <1>26, <1>28, <1>29, <1>30, <1>31
     DEF Next, Worker, Program

-----------------------------------------------------------------------------
(***************************************************************************)
(* The placement of the messages after every step, with the five shapes a  *)
(* step has for the message ledger.                                        *)
(***************************************************************************)

Placed == /\ \A a \in Actor : OnePlace(a) /\ Addressed(a)
          /\ \A q \in Proc : Sending(q)

Begins   == /\ Opens(sent + 1)
            /\ sent' = sent + 1
            /\ \E r \in {"absent", "pending"} :
                 future' = [future EXCEPT ![sent + 1] = r]
            /\ UNCHANGED verdict
Ends     == /\ \E m : /\ Closes(m)
                      /\ future[m] = "pending" => "select" \in Ops
            /\ UNCHANGED <<sent, future, verdict>>
Settles  == /\ Keeps
            /\ \E m \in Live, v \in {"value", "null"} :
                 /\ future[m] = "pending"
                 /\ future' = [future EXCEPT ![m] = v]
            /\ UNCHANGED <<sent, verdict>>
Declares == /\ Keeps
            /\ verdict = "none"
            /\ verdict' = "timeout" \/ (verdict' = "idle" /\ outstanding = 0)
            /\ UNCHANGED <<sent, future>>
Rests    == Keeps /\ UNCHANGED <<sent, future, verdict>>

\* A step of one thread that moves no message.
LEMMA QuietPc ==
  ASSUME IInv, UNCHANGED <<mailbox, work, envelope, sent, outstanding>>,
         NEW p \in Proc, NEW l, pc' = [pc EXCEPT ![p] = l],
         pc[p] # "put", l # "put",
         \A q \in Proc \ {p} : call'[q] = call[q]
  PROVE  Placed' /\ Keeps
<1>1. \A q \in Proc : InTransit(q)' = InTransit(q)
  BY DEF InTransit, IInv, Types
<1>2. \A a \in Actor : Distinct(mailbox[a])
  BY DEF IInv, Placement, OnePlace
<1>3. QED
  BY <1>1, <1>2, QuietStep DEF Placed

\* Putting a stop sentinel moves no message.
LEMMA StopQuiet ==
  ASSUME IInv, NEW a \in Actor, StopActor(a),
         UNCHANGED <<pc, call, work, envelope, sent, outstanding>>
  PROVE  Placed' /\ Keeps
<1>1. \A q \in Proc : InTransit(q)' = InTransit(q)
  BY DEF InTransit
<1>2. mailbox[a] \in Seq(Item) /\ Distinct(mailbox[a]) /\ Stop \in Item
  BY RuntimeAssumption DEF IInv, Types, Placement, OnePlace, Stop, Item
<1>3. Stop \notin Ids(mailbox[a]) /\ {Stop} \ {NoMsg} = {}
  BY DEF Ids, Stop, NoMsg
<1>4. /\ Ids(Append(mailbox[a], Stop)) = Ids(mailbox[a])
      /\ Distinct(Append(mailbox[a], Stop))
  BY <1>2, <1>3, AppendIds
<1>5. \A b \in Actor : Ids(mailbox'[b]) = Ids(mailbox[b]) /\ Distinct(mailbox'[b])
  BY <1>4 DEF StopActor, IInv, Types, Placement, OnePlace
<1>6. QED
  BY <1>1, <1>5, QuietStep DEF Placed

\* A future is settled by the worker that holds its message.
LEMMA SettleStep ==
  ASSUME IInv, NEW a \in Actor, cur[a] # NoMsg, Keeps,
         NEW v \in {"value", "null"}, Settle(cur[a], v),
         UNCHANGED <<sent, verdict>>
  PROVE  Settles \/ Rests
<1>1. cur[a] \in Live
  BY AtActorType DEF Live, AtActor, InHand, IInv
<1>2. CASE future[cur[a]] = "pending"
  BY <1>1, <1>2 DEF Settles, Settle
<1>3. CASE future[cur[a]] # "pending"
  BY <1>3 DEF Rests, Settle, IInv, Types
<1>4. QED
  BY <1>2, <1>3

\* A step that changes neither a pc nor a call slot, nor any queue.
LEMMA QuietSame ==
  ASSUME IInv,
         UNCHANGED <<pc, call, mailbox, work, envelope, sent, outstanding>>
  PROVE  Placed' /\ Keeps
<1>1. \A q \in Proc : InTransit(q)' = InTransit(q)
  BY DEF InTransit
<1>2. \A a \in Actor : Distinct(mailbox[a])
  BY DEF IInv, Placement, OnePlace
<1>3. QED
  BY <1>1, <1>2, QuietStep DEF Placed

Moves == Placed' /\ (Begins \/ Ends \/ Settles \/ Declares \/ Rests)

LEMMA SendStep ==
  ASSUME IInv, NEW p \in Proc, NEW a \in Actor, NEW k \in Kind,
         pc[p] = "run", StartSend(p, a, k), p \in Streamer => k = "past",
         UNCHANGED <<mailbox, work, verdict>>,
         \/ pc' = [pc EXCEPT ![p] = "put"]
         \/ /\ pc'[p] = "put"
            /\ \A q \in Proc \ {p} : pc'[q] = "put" <=> pc[q] = "put"
  PROVE  Moves
<1>1. /\ pc'[p] = "put"
      /\ \A q \in Proc \ {p} : pc'[q] = "put" <=> pc[q] = "put"
  BY DEF IInv, Types
<1>2. Placed' /\ Opens(sent + 1)
  BY <1>1, StartSendStep DEF Placed
<1>3. \E r \in {"absent", "pending"} : future' = [future EXCEPT ![sent + 1] = r]
  BY DEF StartSend
<1>4. QED
  BY <1>2, <1>3 DEF Moves, Begins, StartSend

LEMMA MovesStep == IInv /\ [Next]_vars => Moves
<1> SUFFICES ASSUME IInv, [Next]_vars
             PROVE  Moves
  OBVIOUS
<1> USE DEF Moves, Goto, Return, work, idling
<1>0. /\ IInv /\ Types
      /\ \A b \in Actor : WorkerOK(b)
      /\ ThreadsOK
      /\ Actor \subseteq Proc /\ Streamer \subseteq Proc /\ Main \in Proc
      /\ Main \notin Actor \cup Streamer /\ Actor \cap Streamer = {}
  BY RuntimeAssumption DEF IInv, Placement, Proc
<1>1. ASSUME NEW a \in Actor, Poll(a)
      PROVE  Moves
  BY <1>0, <1>1, QuietPc DEF Poll, Rests, Busy
<1>2. ASSUME NEW a \in Actor, Get(a)
      PROVE  Moves
  <2>1. CASE mailbox[a] = <<>>
    BY <1>0, <1>2, <2>1, QuietPc DEF Get, Rests
  <2>2. CASE mailbox[a] # <<>>
    BY <1>2, <2>2, GetStep DEF Get, Rests, Placed
  <2>3. QED
    BY <2>1, <2>2
<1>3. ASSUME NEW a \in Actor, Reply(a)
      PROVE  Moves
  <2>1. CASE future[cur[a]] # "absent"
    <3>1. /\ pc[a] = "run" /\ Settle(cur[a], "value")
          /\ UNCHANGED <<pc, mailbox, work, call, envelope, sent, outstanding,
                         verdict>>
      BY <1>3, <2>1 DEF Reply
    <3>2. cur[a] # NoMsg
      BY <1>0, <3>1 DEF WorkerOK, Busy
    <3>3. pc' = [pc EXCEPT ![a] = pc[a]]
      BY <1>0, <3>1 DEF Types
    <3>4. Placed' /\ Keeps
      BY <1>0, <3>1, <3>3, QuietPc
    <3>5. QED
      BY <3>1, <3>2, <3>4, SettleStep
  <2>2. CASE future[cur[a]] = "absent"
    <3> DEFINE s == envelope[cur[a]].sender
    <3>1. /\ s \in Actor /\ StartSend(a, s, "past") /\ pc[a] = "run"
          /\ pc' = [pc EXCEPT ![a] = "put"]
          /\ UNCHANGED <<mailbox, work, verdict>>
      BY <1>3, <2>2 DEF Reply
    <3> HIDE DEF s
    <3>2. QED
      BY <1>0, <3>1, SendStep DEF Kind
  <2>3. QED
    BY <2>1, <2>2
<1>4. ASSUME NEW a \in Actor, Complete(a)
      PROVE  Moves
  <2>1. PICK v \in {"value", "null"} : Settle(cur[a], v)
    BY <1>4 DEF Complete
  <2>2. cur[a] # NoMsg
    BY <1>0, <1>4 DEF Complete, WorkerOK, Busy
  <2>3. Placed' /\ Keeps
    BY <1>0, <1>4, QuietPc DEF Complete
  <2>4. QED
    BY <1>4, <2>1, <2>2, <2>3, SettleStep DEF Complete
<1>5. ASSUME NEW a \in Actor, MessageDone(a)
      PROVE  Moves
  <2>1. future[cur[a]] # "pending"
    BY <1>0, <1>5 DEF MessageDone, WorkerOK
  <2>2. Closes(cur[a]) /\ Placed'
    BY <1>5, MessageDoneStep DEF Placed
  <2>3. QED
    BY <1>5, <2>1, <2>2 DEF MessageDone, Ends
<1>6. ASSUME NEW a \in Actor, EnterSelect(a)
      PROVE  Moves
  BY <1>0, <1>6, QuietPc DEF EnterSelect, Rests, Busy
<1>7. ASSUME NEW a \in Actor, SelectMatch(a) \/ SelectMiss(a)
      PROVE  Moves
  <2>1. UNCHANGED <<sent, future, verdict>>
    BY <1>7 DEF SelectMatch, SelectMiss, Drain
  <2>2. QED
    BY <1>7, <2>1, DrainStep DEF Rests, Placed
<1>8. ASSUME NEW a \in Actor, Requeue(a)
      PROVE  Moves
  BY <1>8, RequeueStep DEF Requeue, Rests, Placed
<1>9. ASSUME NEW a \in Actor, SelectTake(a)
      PROVE  Moves
  <2>1. "select" \in Ops
    BY <1>0, <1>9 DEF SelectTake, WorkerOK
  <2>2. Closes(picked[a]) /\ Placed'
    BY <1>9, SelectTakeStep DEF Placed
  <2>3. QED
    BY <1>9, <2>1, <2>2 DEF SelectTake, Ends
<1>10. ASSUME NEW a \in Actor, SelectRetry(a)
      PROVE  Moves
  <2>1. PICK l \in {"select", "run"} : pc' = [pc EXCEPT ![a] = l]
    BY <1>10 DEF SelectRetry
  <2>2. Placed' /\ Keeps
    BY <1>0, <1>10, <2>1, QuietPc DEF SelectRetry
  <2>3. QED
    BY <1>10, <2>2 DEF SelectRetry, Rests
<1>11. ASSUME NEW p \in Proc, Suicide(p)
      PROVE  Moves
  BY <1>0, <1>11, QuietSame DEF Suicide, Rests
<1>12. ASSUME NEW a \in Actor, Halt(a)
      PROVE  Moves
  BY <1>12, StopQuiet DEF Halt, Rests
<1>13. ASSUME NEW p \in Proc, NEW a \in Actor,
             NEW k \in {"past", "now", "future"}, Send(p, a, k)
      PROVE  Moves
  <2>1. k \in Kind
    BY DEF Kind
  <2>2. QED
    BY <1>0, <1>13, <2>1, SendStep DEF Send
<1>14. ASSUME NEW p \in Proc, Put(p)
      PROVE  Moves
  BY <1>14, PutStep DEF Put, Rests, Placed
<1>15. ASSUME NEW p \in Proc, NEW m \in Msg, Await(p, m)
      PROVE  Moves
  BY <1>0, <1>15, QuietPc DEF Await, Rests, Types
<1>16. ASSUME NEW p \in Proc, Wake(p)
      PROVE  Moves
  BY <1>0, <1>16, QuietPc DEF Wake, Rests, Types
<1>17. ASSUME NEW p \in Proc, NEW a \in Actor, Spawn(p, a)
      PROVE  Moves
  BY <1>0, <1>17, QuietPc DEF Spawn, Rests
<1>29. ASSUME NEW p \in Proc, SpawnRaises(p)
      PROVE  Moves
  BY <1>0, <1>29, QuietSame DEF SpawnRaises, Rests
<1>30. ASSUME NEW p \in Proc, Start(p)
      PROVE  Moves
  <2>0. PICK a \in Actor : a = Self(p) /\ pc[a] = "made" /\ pc[p] = "run"
    BY <1>0, <1>30, SelfType DEF Start
  <2>1. CASE a \in HasInit
    <3>1. /\ StartSend(p, a, "init") /\ "init" \in Kind /\ p \notin Streamer
          /\ pc' = [pc EXCEPT ![a] = "top", ![p] = "put"]
          /\ UNCHANGED <<mailbox, work, verdict>>
      BY <1>30, <2>0, <2>1 DEF Start, Kind
    <3>2. /\ pc'[p] = "put"
          /\ \A q \in Proc \ {p} : pc'[q] = "put" <=> pc[q] = "put"
      BY <1>0, <2>0, <3>1 DEF Types
    <3>3. QED
      BY <1>0, <2>0, <3>1, <3>2, SendStep
  <2>2. CASE a \notin HasInit
    BY <1>0, <1>30, <2>0, <2>2, QuietPc DEF Start, Rests
  <2>3. QED
    BY <2>1, <2>2
<1>18. ASSUME NEW p \in Proc, NEW a \in Actor, Retire(p, a)
      PROVE  Moves
  BY <1>18, StopQuiet DEF Retire, Rests
<1>19. ASSUME NEW p \in Proc, NEW s \in Streamer, AiStream(p, s)
      PROVE  Moves
  BY <1>0, <1>19, QuietPc DEF AiStream, Rests, Busy
<1>20. ASSUME NEW s \in Streamer, EndStream(s)
      PROVE  Moves
  BY <1>0, <1>20, QuietPc DEF EndStream, Rests, Busy
<1>21. ASSUME ToggleGate
      PROVE  Moves
  BY <1>0, <1>21, QuietSame DEF ToggleGate, Rests
<1>22. ASSUME EndScript
      PROVE  Moves
  BY <1>0, <1>22, QuietPc DEF EndScript, Rests, Busy
<1>23. ASSUME WaitIdle
      PROVE  Moves
  <2>1. CASE UNCHANGED <<pc, verdict>>
    BY <1>0, <1>23, <2>1, QuietSame DEF WaitIdle, Rests
  <2>2. ASSUME NEW v, Return(v), v = "timeout" \/ (v = "idle" /\ outstanding = 0)
        PROVE  Moves
    <3>1. verdict = "none"
      BY <1>0, <1>23 DEF WaitIdle, ThreadsOK
    <3>2. Placed' /\ Keeps
      BY <1>0, <1>23, <2>2, QuietPc DEF WaitIdle
    <3>3. QED
      BY <1>23, <2>2, <3>1, <3>2 DEF WaitIdle, Declares
  <2>3. QED
    BY <1>23, <2>1, <2>2 DEF WaitIdle
<1>24. ASSUME ExitMain
      PROVE  Moves
  BY <1>0, <1>24, QuietPc DEF ExitMain, Rests, Busy
<1>25. CASE UNCHANGED vars
  BY <1>0, <1>25, QuietSame DEF vars, Rests
<1>27. ASSUME NEW a \in Actor, Save(a)
      PROVE  Moves
  BY <1>27, SaveStep DEF Save, Rests, Placed
<1>28. ASSUME Shutdown
      PROVE  Moves
  BY <1>0, <1>28, QuietPc DEF Shutdown, Rests, Busy
<1>26. QED
  BY <1>1, <1>2, <1>3, <1>4, <1>5, <1>6, <1>7, <1>8, <1>9, <1>10, <1>11, <1>12, <1>13, <1>14, <1>15, <1>16, <1>17, <1>18, <1>19, <1>20, <1>21, <1>22, <1>23, <1>24, <1>25, <1>27, <1>28, <1>29, <1>30
     DEF Next, Worker, Program

-----------------------------------------------------------------------------
(***************************************************************************)
(* The inductive invariant and what follows from it.                       *)
(***************************************************************************)

LEMMA InitInv == Init => IInv
<1> SUFFICES ASSUME Init
             PROVE  IInv
  OBVIOUS
<1> USE DEF Init
<1>1. Types
  <2>1. /\ NoMsg \in Item /\ 0 \in Item
        /\ <<>> \in Seq(Item) /\ <<>> \in Seq(Actor)
        /\ Main \in Proc
    BY RuntimeAssumption DEF Item, NoMsg, Proc
  <2>2. Blank \in Envelope
    BY <2>1 DEF Blank, Envelope, Kind
  <2>3. "run" \in WorkerPc /\ "unborn" \in WorkerPc /\ "absent" \in FutureState
    BY DEF WorkerPc, FutureState
  <2>4. pc \in [Proc -> WorkerPc \cup MainPc]
    BY <2>3
  <2>5. QED
    BY <2>1, <2>2, <2>3, <2>4 DEF Types
<1>2. \A a \in Actor : /\ Queued(a) = {} /\ Held(a) = {}
                       /\ Picked(a) = {} /\ InHand(a) = {}
                       /\ Distinct(mailbox[a]) /\ Distinct(held[a])
  BY EmptyIds DEF Queued, Held, Picked, InHand, NoMsg
<1>3. \A a \in Actor : AtActor(a) = {}
  BY <1>2 DEF AtActor
<1>4. \A p \in Proc : InTransit(p) = {}
  BY DEF InTransit
<1>5. Live = {}
  BY <1>3, <1>4 DEF Live
<1>6. \A a \in Actor : OnePlace(a) /\ Addressed(a)
  BY <1>2, <1>3 DEF OnePlace, Addressed
<1>7. \A a \in Actor : WorkerOK(a)
  BY RuntimeAssumption DEF WorkerOK, Busy, WorkerPc, Proc, NoMsg
<1>8. \A p \in Proc : Sending(p)
  BY <1>4 DEF Sending
<1>9. ThreadsOK
  BY RuntimeAssumption DEF ThreadsOK, Proc, Msg
<1>10. outstanding = Cardinality(Live)
  BY <1>5, FS_EmptySet
<1>11. QED
  BY <1>1, <1>6, <1>7, <1>8, <1>9, <1>10 DEF IInv, Placement

LEMMA StepInv == IInv /\ [Next]_vars => IInv'
<1> SUFFICES ASSUME IInv, [Next]_vars
             PROVE  IInv'
  OBVIOUS
<1>1. Types'
  BY TypesStep
<1>2. (\A b \in Actor : WorkerOK(b)') /\ ThreadsOK'
  BY ThreadsStep
<1>3. Placed' /\ ((\E m : Opens(m)) \/ (\E m : Closes(m)) \/ Keeps)
  BY MovesStep DEF Moves, Begins, Ends, Settles, Declares, Rests
<1>4. outstanding' = Cardinality(Live')
  BY <1>3, CountStep DEF IInv
<1>5. QED
  BY <1>1, <1>2, <1>3, <1>4 DEF IInv, Placement, Placed

\* The placement of messages, the slots of the threads and the count agree in
\* every reachable state.
THEOREM Invariance == Spec => []IInv
  BY InitInv, StepInv, PTL DEF Spec

\* Every variable keeps its type; in particular _outstanding never becomes
\* negative, so message_done is never called more often than message_started.
THEOREM Typing == Spec => []TypeOK
<1>1. IInv => TypeOK
  BY LiveFinite DEF IInv, TypeOK
<1>2. QED
  BY <1>1, Invariance, PTL

\* _outstanding is the number of messages being put, queued, drained by a
\* select or in hand, in every reachable state.
THEOREM CounterExact == Spec => []OutstandingExact
<1>1. IInv => OutstandingExact
  BY DEF IInv, OutstandingExact
<1>2. QED
  BY <1>1, Invariance, PTL

-----------------------------------------------------------------------------
(***************************************************************************)
(* The message layer implements the ledger.                                *)
(***************************************************************************)

LEMMA LedgerInit == Init => Ledger!Init
<1> SUFFICES ASSUME Init
             PROVE  Ledger!Init
  OBVIOUS
<1>1. Live = {}
  <2>1. Types /\ Placement /\ sent = 0
    BY InitInv DEF IInv, Init
  <2>2. Live \subseteq 1 .. sent
    BY <2>1, LiveSent
  <2>3. QED
    BY <2>1, <2>2
<1>2. QED
  BY <1>1 DEF Init, Ledger!Init

\* A message is opened once: its number is new.
LEMMA BeginsAccepts ==
  ASSUME IInv, Begins
  PROVE  Ledger!Accept(sent + 1)
<1>1. sent \in Nat /\ Live \subseteq 1 .. sent
  BY LiveSent DEF IInv, Types, Item
<1>2. sent + 1 \notin Live \cup ((1 .. sent) \ Live)
  BY <1>1
<1>3. /\ Live' = Live \cup {sent + 1}
      /\ ((1 .. sent) \ Live)' = (1 .. sent) \ Live
  BY <1>1 DEF Begins, Opens
<1>4. QED
  BY <1>2, <1>3 DEF Begins, Ledger!Accept

\* A message is closed once, and a caller that is left without an answer is one
\* whose message a select took.
LEMMA EndsCloses ==
  ASSUME IInv, Ends
  PROVE  \E m \in Msg : Ledger!Close(m) \/ Ledger!Swallow(m)
<1>1. PICK m : Closes(m) /\ (future[m] = "pending" => "select" \in Ops)
  BY DEF Ends
<1>2. m \in Msg /\ m \in Live /\ Live' = Live \ {m}
  BY <1>1 DEF Closes, Live
<1>3. m \in 1 .. sent
  BY <1>2, LiveSent DEF IInv
<1>4. ((1 .. sent) \ Live)' = ((1 .. sent) \ Live) \cup {m}
  BY <1>2, <1>3 DEF Ends
<1>5. QED
  BY <1>1, <1>2, <1>4 DEF Ends, Ledger!Close, Ledger!Swallow

LEMMA LedgerStep == IInv /\ [Next]_vars => [Ledger!Next]_(Ledger!vars)
<1> SUFFICES ASSUME IInv, [Next]_vars
             PROVE  [Ledger!Next]_(Ledger!vars)
  OBVIOUS
<1>1. Moves
  BY MovesStep
<1>2. CASE Begins
  <2>1. sent + 1 \in Msg
    BY <1>2 DEF Begins, Opens
  <2>2. QED
    BY <1>2, <2>1, BeginsAccepts DEF Ledger!Next
<1>3. CASE Ends
  BY <1>3, EndsCloses DEF Ledger!Next
<1>4. CASE Settles
  <2>1. PICK m \in Live, v \in {"value", "null"} :
          future[m] = "pending" /\ future' = [future EXCEPT ![m] = v]
    BY <1>4 DEF Settles
  <2>2. Ledger!Answer(m) /\ m \in Msg
    BY <1>4, <2>1 DEF Settles, Keeps, Live, Ledger!Answer
  <2>3. QED
    BY <2>2 DEF Ledger!Next
<1>5. CASE Declares
  <2>1. outstanding = 0 => Live = {}
    BY LiveFinite, FS_EmptySet DEF IInv
  <2>2. QED
    BY <1>5, <2>1
       DEF Declares, Keeps, Ledger!Next, Ledger!DeclareIdle, Ledger!GiveUp
<1>6. CASE Rests
  BY <1>6 DEF Rests, Keeps, Ledger!vars
<1>7. QED
  BY <1>1, <1>2, <1>3, <1>4, <1>5, <1>6 DEF Moves

\* The threads, mailboxes, selects and stops implement the ledger: no message
\* is opened or closed twice, an answer is given once and only while its
\* message is open, a message closes with its caller unanswered only through a
\* select, and wait_idle declares idleness only when no message is open.
THEOREM Implementation == Spec => LedgerSpec
<1>1. Spec => []IInv
  BY Invariance
<1>2. QED
  BY <1>1, LedgerInit, LedgerStep, PTL DEF Spec, LedgerSpec, Ledger!Spec

-----------------------------------------------------------------------------
(***************************************************************************)
(* Callers and idleness.                                                   *)
(***************************************************************************)

LEMMA CarrierStep ==
  ASSUME "select" \notin Ops, IInv, [Next]_vars, PendingHasCarrier
  PROVE  PendingHasCarrier'
<1> SUFFICES ASSUME NEW n \in Msg, future'[n] = "pending"
             PROVE  n \in Live'
  BY DEF PendingHasCarrier
<1>1. Moves /\ future \in [Msg -> FutureState]
  BY MovesStep DEF IInv, Types
<1>2. CASE Begins
  BY <1>1, <1>2 DEF Begins, Opens, PendingHasCarrier
<1>3. CASE Ends
  BY <1>3 DEF Ends, Closes, PendingHasCarrier
<1>4. CASE Settles
  BY <1>1, <1>4 DEF Settles, Keeps, PendingHasCarrier
<1>5. CASE Declares \/ Rests
  BY <1>5 DEF Declares, Rests, Keeps, PendingHasCarrier
<1>6. QED
  BY <1>1, <1>2, <1>3, <1>4, <1>5 DEF Moves

\* In a program without select, every future that is not set belongs to a
\* message that is still being put, queued or in hand: whatever a body does
\* (reply, return, raise, have the wrong arity, be quarantined), its caller is
\* answered before message_done.
THEOREM CallersAreCarried ==
  ASSUME "select" \notin Ops
  PROVE  Spec => []PendingHasCarrier
<1>1. Init => PendingHasCarrier
  BY DEF Init, PendingHasCarrier
<1>2. IInv /\ PendingHasCarrier /\ [Next]_vars => PendingHasCarrier'
  BY CarrierStep
<1>3. QED
  BY <1>1, <1>2, Invariance, PTL DEF Spec

\* When nothing is live, no worker is in a body and no thread in a put.
LEMMA QuietWorkers ==
  ASSUME IInv, Live = {}
  PROVE  /\ \A a \in Actor : pc[a] \notin Busy
         /\ \A p \in Proc : pc[p] # "put"
<1>1. \A a \in Actor : pc[a] \in Busy => cur[a] \in Live
  BY AtActorType DEF IInv, Placement, WorkerOK, AtActor, InHand, Live
<1>2. \A p \in Proc : pc[p] = "put" => call[p] \in Live
  BY RuntimeAssumption DEF IInv, Types, Placement, Sending, InTransit, Live, Msg, Item
<1>3. QED
  BY <1>1, <1>2

\* Only a thread in "run" starts a message.
LEMMA RunsSend ==
  ASSUME Next, \A p \in Proc : pc[p] # "run"
  PROVE  sent' = sent
<1>1. ASSUME NEW a \in Actor, Worker(a)
      PROVE  sent' = sent
  BY <1>1, RuntimeAssumption
     DEF Worker, Poll, Get, Reply, Complete, MessageDone, EnterSelect,
         SelectMatch, SelectMiss, Drain, Requeue, SelectTake, SelectRetry,
         Proc
<1>2. ASSUME NEW p \in Proc, Program(p)
      PROVE  sent' = sent
  BY <1>2 DEF Program, Send, Put, Await, Wake, Spawn, Start, SpawnRaises,
              Suicide, Retire, AiStream
<1>3. QED
  BY <1>1, <1>2
     DEF Next, Save, Halt, EndStream, ToggleGate, EndScript, WaitIdle,
         Shutdown, ExitMain

\* No thread returns to the time before it was started.
LEMMA NeverUnborn ==
  ASSUME Types, Next, NEW q \in Proc, pc'[q] = "unborn"
  PROVE  pc[q] = "unborn"
<1> USE DEF Goto, Types
<1>1. ASSUME NEW a \in Actor, Worker(a)
      PROVE  pc[q] = "unborn"
  BY <1>1
     DEF Worker, Poll, Get, Reply, Complete, MessageDone, EnterSelect,
         SelectMatch, SelectMiss, Drain, Requeue, SelectTake, SelectRetry
<1>2. ASSUME NEW p \in Proc, Program(p)
      PROVE  pc[q] = "unborn"
  BY <1>2 DEF Program, Send, Put, Await, Wake, Spawn, Start, SpawnRaises,
              Suicide, Retire, AiStream
<1>3. QED
  BY <1>1, <1>2
     DEF Next, Save, Halt, EndStream, ToggleGate, EndScript, WaitIdle,
         Return, Shutdown, ExitMain, idling

LEMMA IdleStep ==
  ASSUME IInv, IdleIsFinal, [Next]_vars
  PROVE  IdleIsFinal'
<1> SUFFICES ASSUME verdict' = "idle", \A s \in Streamer : pc'[s] = "unborn"
             PROVE  Live' = {}
  BY DEF IdleIsFinal
<1>1. Moves /\ Types
  BY MovesStep DEF IInv
<1>2. CASE verdict = "none"
  <2>1. Declares
    BY <1>1, <1>2 DEF Moves, Begins, Ends, Settles, Rests
  <2>2. Live = {}
    BY <1>2, <2>1, LiveFinite, FS_EmptySet DEF Declares, IInv
  <2>3. QED
    BY <2>1, <2>2 DEF Declares, Keeps
<1>3. CASE verdict # "none"
  <2>1. verdict = "idle"
    BY <1>1, <1>3 DEF Moves, Begins, Ends, Settles, Declares, Rests
  <2>2. \A s \in Streamer : pc[s] = "unborn"
    BY <1>1, NeverUnborn DEF vars, Proc
  <2>3. Live = {}
    BY <2>1, <2>2 DEF IdleIsFinal
  <2>4. pc[Main] # "run"
    BY <1>3 DEF IInv, Placement, ThreadsOK
  <2>5. \A p \in Proc : pc[p] # "run"
    BY <2>2, <2>3, <2>4, QuietWorkers DEF Proc, Busy
  <2>6. sent' = sent
    BY <2>5, RunsSend DEF vars
  <2>7. ~Begins
    BY <2>6, <1>1 DEF Begins, Types, Item
  <2>8. QED
    BY <1>1, <2>3, <2>7 DEF Moves, Ends, Closes, Settles, Declares, Rests, Keeps
<1>4. QED
  BY <1>2, <1>3

\* What wait_idle returned True about stays true: unless a stream was started,
\* nothing is live from then on, so the state that is saved at exit is final.
THEOREM IdlenessIsFinal == Spec => []IdleIsFinal
<1>1. Init => IdleIsFinal
  BY DEF Init, IdleIsFinal
<1>2. IInv /\ IdleIsFinal /\ [Next]_vars => IdleIsFinal'
  BY IdleStep
<1>3. QED
  BY <1>1, <1>2, Invariance, PTL DEF Spec
=============================================================================
