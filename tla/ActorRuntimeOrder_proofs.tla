---------------------- MODULE ActorRuntimeOrder_proofs ----------------------
(***************************************************************************)
(* Proofs about the order in which ActorRuntime delivers messages: what a  *)
(* pause preserves, the order of the messages of one sender, and init.     *)
(***************************************************************************)
EXTENDS ActorRuntime_proofs

-----------------------------------------------------------------------------
(***************************************************************************)
(* What a step can do to the slots of one actor.                           *)
(***************************************************************************)

Rest(a)    == /\ mailbox'[a] = mailbox[a]
              /\ held'[a] = held[a]
              /\ picked'[a] \in {picked[a], NoMsg}
              /\ cur'[a] \in {cur[a], NoMsg}
Grow(a, x) == /\ mailbox'[a] = Append(mailbox[a], x)
              /\ UNCHANGED <<held, picked, cur>>
Take(a)    == /\ pc[a] = "get"
              /\ pc'[a] \in {"run", "exited"}
              /\ mailbox[a] # <<>>
              /\ mailbox'[a] = Tail(mailbox[a])
              /\ cur'[a] = Head(mailbox[a])
              /\ UNCHANGED <<held, picked>>
Snap(a)    == /\ pc[Main] = "save"
              /\ mailbox[a] # <<>>
              /\ mailbox'[a] = Tail(mailbox[a])
              /\ UNCHANGED <<held, picked, cur>>
Empty(a)   == /\ pc[a] = "select"
              /\ mailbox'[a] = <<>>
              /\ Held(a)' \cup Picked(a)' \subseteq Queued(a)
              /\ UNCHANGED cur
Back(a)    == /\ pc[a] = "requeue"
              /\ held[a] # <<>>
              /\ mailbox'[a] = Append(mailbox[a], Head(held[a]))
              /\ held'[a] = Tail(held[a])
              /\ UNCHANGED <<picked, cur>>

Delivered(a) == \E p \in Proc :
                  /\ Put(p)
                  /\ envelope[call[p]].to = a
                  /\ Grow(a, call[p])

Slots(a) == \/ Rest(a) \/ Grow(a, Stop) \/ Delivered(a)
            \/ Take(a) \/ Snap(a) \/ Empty(a) \/ Back(a)

\* select drains into held and picked, and nowhere else.
LEMMA DrainSlots ==
  ASSUME IInv, NEW b \in Actor, SelectMatch(b) \/ SelectMiss(b)
  PROVE  \A a \in Actor : Rest(a) \/ Empty(a)
<1>0. Types /\ mailbox[b] \in Seq(Item) /\ Distinct(mailbox[b])
  BY DEF IInv, Types, Placement, OnePlace
<1>1. PICK rest, m : /\ Drain(b, rest, m)
                     /\ Ids(rest) \cup ({m} \ {NoMsg}) \subseteq Ids(mailbox[b])
  <2>1. CASE SelectMatch(b)
    <3>1. PICK i \in DOMAIN mailbox[b] :
            /\ mailbox[b][i] # Stop
            /\ Drain(b, RemoveAt(mailbox[b], i), mailbox[b][i])
      BY <2>1 DEF SelectMatch
    <3>2. QED
      BY <1>0, <3>1, RemoveAtIds
  <2>2. CASE SelectMiss(b)
    BY <2>2 DEF SelectMiss
  <2>3. QED
    BY <2>1, <2>2
<1>2. ASSUME NEW a \in Actor, a # b
      PROVE  Rest(a)
  BY <1>0, <1>1, <1>2 DEF Drain, Rest, Types
<1>3. Empty(b)
  <2>1. /\ held'[b] = rest /\ picked'[b] = m /\ mailbox'[b] = <<>>
        /\ cur' = cur /\ pc[b] = "select"
    BY <1>0, <1>1 DEF Drain, Types
  <2>2. QED
    BY <1>1, <2>1 DEF Empty, Held, Picked, Queued
<1>4. QED
  BY <1>2, <1>3

LEMMA SlotsStep ==
  IInv /\ [Next]_vars => \A a \in Actor : Slots(a)
<1> SUFFICES ASSUME IInv, [Next]_vars, NEW a \in Actor
             PROVE  Slots(a)
  OBVIOUS
<1>0. Types
  BY DEF IInv
<1>1. CASE UNCHANGED <<mailbox, held, picked, cur>>
  BY <1>1 DEF Slots, Rest
<1>2. ASSUME NEW b \in Actor, Get(b)
      PROVE  Slots(a)
  <2>1. CASE mailbox[b] = <<>>
    BY <1>1, <1>2, <2>1 DEF Get
  <2>2. CASE mailbox[b] # <<>> /\ a # b
    BY <1>0, <1>2, <2>2 DEF Get, Slots, Rest, Types
  <2>3. CASE mailbox[b] # <<>> /\ a = b
    <3>1. Take(a)
      BY <1>0, <1>2, <2>3 DEF Get, Goto, Take, Types, Proc
    <3>2. QED
      BY <3>1 DEF Slots
  <2>4. QED
    BY <2>1, <2>2, <2>3
<1>3. ASSUME NEW b \in Actor, MessageDone(b)
      PROVE  Slots(a)
  <2>1. Rest(a)
    BY <1>0, <1>3 DEF MessageDone, Rest, Types
  <2>2. QED
    BY <2>1 DEF Slots
<1>4. ASSUME NEW b \in Actor, SelectMatch(b) \/ SelectMiss(b)
      PROVE  Slots(a)
  BY <1>4, DrainSlots DEF Slots
<1>5. ASSUME NEW b \in Actor, Requeue(b)
      PROVE  Slots(a)
  <2>1. CASE a # b
    <3>1. Rest(a)
      BY <1>0, <1>5, <2>1 DEF Requeue, Rest, Types
    <3>2. QED
      BY <3>1 DEF Slots
  <2>2. CASE a = b
    <3>1. Back(a)
      BY <1>0, <1>5, <2>2 DEF Requeue, Back, Types
    <3>2. QED
      BY <3>1 DEF Slots
  <2>3. QED
    BY <2>1, <2>2
<1>6. ASSUME NEW b \in Actor, SelectTake(b)
      PROVE  Slots(a)
  <2>1. Rest(a)
    BY <1>0, <1>6 DEF SelectTake, Rest, Types
  <2>2. QED
    BY <2>1 DEF Slots
<1>7. ASSUME NEW b \in Actor, StopActor(b), UNCHANGED <<held, picked, cur>>
      PROVE  Slots(a)
  <2>1. CASE a # b
    <3>1. Rest(a)
      BY <1>0, <1>7, <2>1 DEF StopActor, Rest, Types
    <3>2. QED
      BY <3>1 DEF Slots
  <2>2. CASE a = b
    <3>1. Grow(a, Stop)
      BY <1>0, <1>7, <2>2 DEF StopActor, Grow, Types
    <3>2. QED
      BY <3>1 DEF Slots
  <2>3. QED
    BY <2>1, <2>2
<1>8. ASSUME NEW b \in Actor, Save(b)
      PROVE  Slots(a)
  <2>1. CASE a # b
    <3>1. Rest(a)
      BY <1>0, <1>8, <2>1 DEF Save, Rest, Types
    <3>2. QED
      BY <3>1 DEF Slots
  <2>2. CASE a = b
    <3>1. Snap(a)
      BY <1>0, <1>8, <2>2 DEF Save, Snap, Types
    <3>2. QED
      BY <3>1 DEF Slots
  <2>3. QED
    BY <2>1, <2>2
<1>9. ASSUME NEW p \in Proc, Put(p)
      PROVE  Slots(a)
  <2>1. CASE a # envelope[call[p]].to
    <3>1. Rest(a)
      BY <1>0, <1>9, <2>1 DEF Put, work, Rest, Types
    <3>2. QED
      BY <3>1 DEF Slots
  <2>2. CASE a = envelope[call[p]].to
    <3>1. Grow(a, call[p])
      BY <1>0, <1>9, <2>2 DEF Put, work, Grow, Types
    <3>2. QED
      BY <1>9, <2>2, <3>1 DEF Slots, Delivered
  <2>3. QED
    BY <2>1, <2>2
<1>10. ASSUME NEW b \in Actor, Worker(b)
       PROVE  Slots(a)
  <2>1. CASE Poll(b) \/ Reply(b) \/ Complete(b) \/ EnterSelect(b)
              \/ SelectRetry(b)
    BY <1>1, <2>1 DEF Poll, Reply, Complete, EnterSelect, SelectRetry, work
  <2>2. QED
    BY <1>2, <1>3, <1>4, <1>5, <1>6, <1>10, <2>1 DEF Worker
<1>11. ASSUME NEW b \in Actor, Halt(b)
       PROVE  Slots(a)
  BY <1>7, <1>11 DEF Halt, work
<1>12. ASSUME NEW p \in Proc, Program(p)
       PROVE  Slots(a)
  <2>1. ASSUME NEW b \in Actor, Retire(p, b)
        PROVE  Slots(a)
    BY <1>7, <2>1 DEF Retire, work
  <2>2. ASSUME NEW b \in Actor, NEW k \in {"past", "now", "future"}, Send(p, b, k)
        PROVE  Slots(a)
    BY <1>1, <2>2 DEF Send, work
  <2>3. ASSUME NEW m \in Msg, Await(p, m)
        PROVE  Slots(a)
    BY <1>1, <2>3 DEF Await, work
  <2>4. CASE Wake(p)
    BY <1>1, <2>4 DEF Wake, work
  <2>5. ASSUME NEW b \in Actor, Spawn(p, b)
        PROVE  Slots(a)
    BY <1>1, <2>5 DEF Spawn, work
  <2>6. ASSUME NEW s \in Streamer, AiStream(p, s)
        PROVE  Slots(a)
    BY <1>1, <2>6 DEF AiStream, work
  <2>7. CASE Start(p) \/ SpawnRaises(p) \/ Suicide(p)
    BY <1>1, <2>7 DEF Start, SpawnRaises, Suicide, work
  <2>8. QED
    BY <1>9, <1>12, <2>1, <2>2, <2>3, <2>4, <2>5, <2>6, <2>7 DEF Program
<1>13. ASSUME NEW s \in Streamer, EndStream(s)
       PROVE  Slots(a)
  BY <1>1, <1>13 DEF EndStream, work
<1>14. CASE ToggleGate \/ EndScript \/ WaitIdle \/ Shutdown \/ ExitMain
             \/ UNCHANGED vars
  BY <1>1, <1>14 DEF ToggleGate, EndScript, WaitIdle, Shutdown, ExitMain, vars,
                     work
<1>15. QED
  BY <1>8, <1>10, <1>11, <1>12, <1>13, <1>14 DEF Next

-----------------------------------------------------------------------------
(***************************************************************************)
(* What a pause preserves.                                                 *)
(***************************************************************************)

\* A closed gate lets no worker pass to the get of its mailbox.
LEMMA GateHolds ==
  ASSUME IInv, [Next]_vars, ~gate, NEW a \in Actor, pc'[a] = "get"
  PROVE  pc[a] = "get"
<1> SUFFICES ASSUME pc[a] # "get"
             PROVE  FALSE
  OBVIOUS
<1>0. pc \in [Proc -> WorkerPc \cup MainPc] /\ Actor \subseteq Proc
  BY DEF IInv, Types, Proc
<1>1. ASSUME NEW x, NEW l, l # "get", pc' = [pc EXCEPT ![x] = l]
      PROVE  FALSE
  BY <1>0, <1>1
<1>2. CASE pc' = pc
  BY <1>2
<1>3. ASSUME NEW b \in Actor, Worker(b)
      PROVE  FALSE
  <2>1. CASE Poll(b)
    BY <1>1, <2>1 DEF Poll, Goto
  <2>2. CASE Get(b)
    BY <1>1, <2>2 DEF Get, Goto
  <2>3. CASE Reply(b)
    BY <1>1, <1>2, <2>3 DEF Reply, Goto
  <2>4. CASE Complete(b) \/ MessageDone(b) \/ EnterSelect(b) \/ SelectTake(b)
    BY <1>1, <2>4 DEF Complete, MessageDone, EnterSelect, SelectTake, Goto
  <2>5. CASE SelectMatch(b) \/ SelectMiss(b)
    BY <1>1, <2>5 DEF SelectMatch, SelectMiss, Drain, Goto
  <2>6. CASE SelectRetry(b)
    BY <1>1, <2>6 DEF SelectRetry, Goto
  <2>7. CASE Requeue(b)
    BY <1>2, <2>7 DEF Requeue
  <2>8. QED
    BY <1>3, <2>1, <2>2, <2>3, <2>4, <2>5, <2>6, <2>7 DEF Worker
<1>4. ASSUME NEW p \in Proc, Program(p)
      PROVE  FALSE
  <2>1. ASSUME NEW b \in Actor, NEW k \in {"past", "now", "future"}, Send(p, b, k)
        PROVE  FALSE
    BY <1>1, <2>1 DEF Send, Goto
  <2>2. CASE Put(p)
    BY <1>1, <2>2 DEF Put, Goto
  <2>3. ASSUME NEW m \in Msg, Await(p, m)
        PROVE  FALSE
    BY <1>1, <2>3 DEF Await, Goto
  <2>4. CASE Wake(p)
    BY <1>1, <2>4 DEF Wake, Goto
  <2>5. ASSUME NEW b \in Actor, Spawn(p, b)
        PROVE  FALSE
    BY <1>1, <2>5 DEF Spawn, Goto
  <2>6. ASSUME NEW b \in Actor, Retire(p, b)
        PROVE  FALSE
    BY <1>2, <2>6 DEF Retire
  <2>7. ASSUME NEW s \in Streamer, AiStream(p, s)
        PROVE  FALSE
    BY <1>1, <2>7 DEF AiStream, Goto
  <2>8. CASE SpawnRaises(p) \/ Suicide(p)
    BY <1>2, <2>8 DEF SpawnRaises, Suicide
  <2>9. CASE Start(p)
    <3>1. CASE Self(p) \in HasInit
      BY <1>0, <2>9, <3>1 DEF Start
    <3>2. CASE Self(p) \notin HasInit
      BY <1>1, <2>9, <3>2 DEF Start, Goto
    <3>3. QED
      BY <3>1, <3>2
  <2>10. QED
    BY <1>4, <2>1, <2>2, <2>3, <2>4, <2>5, <2>6, <2>7, <2>8, <2>9 DEF Program
<1>5. ASSUME NEW b \in Actor, Save(b) \/ Halt(b)
      PROVE  FALSE
  BY <1>2, <1>5 DEF Save, Halt
<1>6. CASE ToggleGate \/ UNCHANGED vars
  BY <1>2, <1>6 DEF ToggleGate, vars
<1>7. CASE WaitIdle
  BY <1>1, <1>2, <1>7 DEF WaitIdle, Return, Goto
<1>8. CASE EndScript \/ Shutdown \/ ExitMain
  BY <1>1, <1>8 DEF EndScript, Shutdown, ExitMain, Goto
<1>9. ASSUME NEW s \in Streamer, EndStream(s)
      PROVE  FALSE
  BY <1>1, <1>9 DEF EndStream, Goto
<1>10. QED
  BY <1>3, <1>4, <1>5, <1>6, <1>7, <1>8, <1>9 DEF Next

\* Appending to a queue keeps what is behind its head.
LEMMA AppendTail ==
  ASSUME NEW s \in Seq(Item), s # <<>>, NEW x \in Item
  PROVE  /\ Append(s, x) # <<>>
         /\ Tail(Append(s, x)) = Append(Tail(s), x)
         /\ Tail(s) \in Seq(Item)
  OBVIOUS

\* While the gate is closed nothing pending is handled (pause_all; the top of
\* Actor._run), for any actors, senders and messages.
THEOREM PauseKeepsQueues == Spec => PausePreserves
<1>1. ASSUME IInv, [Next]_vars, NEW a \in Actor,
             ~gate, pc[a] \notin {"select", "requeue"}, pc[Main] # "save"
      PROVE  Preserved(a) \subseteq Preserved(a)'
  <2>0. mailbox[a] \in Seq(Item) /\ Distinct(mailbox[a]) /\ Stop \in Item
    BY <1>1, RuntimeAssumption DEF IInv, Types, Placement, OnePlace, Item, Stop
  <2>1. Preserved(a)' = Queued(a)' \/ pc[a] = "get"
    BY <1>1, GateHolds DEF Preserved
  <2>2. CASE mailbox'[a] = mailbox[a]
    <3>1. CASE mailbox[a] = <<>>
      BY <3>1, EmptyIds DEF Preserved, Queued
    <3>2. CASE mailbox[a] # <<>>
      <4>1. Ids(Tail(mailbox[a])) \subseteq Ids(mailbox[a])
        BY <2>0, <3>2, TailIds
      <4>2. QED
        BY <2>1, <2>2, <3>2, <4>1 DEF Preserved, Queued
    <3>3. QED
      BY <3>1, <3>2
  <2>3. ASSUME NEW x \in Item, mailbox'[a] = Append(mailbox[a], x)
        PROVE  Preserved(a) \subseteq Preserved(a)'
    <3>1. Ids(mailbox[a]) \subseteq Ids(mailbox'[a])
      BY <2>0, <2>3, AppendIds
    <3>2. CASE mailbox[a] = <<>>
      BY <3>2, EmptyIds DEF Preserved, Queued
    <3>3. CASE mailbox[a] # <<>>
      <4>1. /\ mailbox'[a] # <<>>
            /\ Tail(mailbox'[a]) = Append(Tail(mailbox[a]), x)
            /\ Tail(mailbox[a]) \in Seq(Item)
        BY <2>0, <2>3, <3>3, AppendTail
      <4>2. Ids(Tail(mailbox[a])) \subseteq Ids(Tail(mailbox'[a]))
        BY <4>1, AppendIds
      <4>3. Ids(Tail(mailbox[a])) \subseteq Ids(mailbox[a])
        BY <2>0, <3>3, TailIds
      <4>4. QED
        BY <2>1, <3>1, <3>3, <4>1, <4>2, <4>3 DEF Preserved, Queued
    <3>4. QED
      BY <3>2, <3>3
  <2>4. CASE Take(a)
    <3>1. Preserved(a) = Ids(Tail(mailbox[a]))
      BY <2>4 DEF Take, Preserved
    <3>2. Preserved(a)' = Ids(Tail(mailbox[a]))
      BY <2>4 DEF Take, Preserved, Queued
    <3>3. QED
      BY <3>1, <3>2
  <2>5. ASSUME NEW p \in Proc, Put(p)
        PROVE  call[p] \in Item
    BY <1>1 DEF IInv, Types
  <2>6. Slots(a)
    BY <1>1, SlotsStep
  <2>7. QED
    BY <1>1, <2>0, <2>2, <2>3, <2>4, <2>5, <2>6
       DEF Slots, Rest, Grow, Delivered, Snap, Empty, Back
<1>2. IInv /\ [Next]_vars =>
        [\A a \in Actor :
           ~gate /\ pc[a] \notin {"select", "requeue"} /\ pc[Main] # "save"
             => Preserved(a) \subseteq Preserved(a)']_vars
  BY <1>1
<1>3. QED
  BY <1>2, Invariance, PTL DEF Spec, PausePreserves

-----------------------------------------------------------------------------
(***************************************************************************)
(* What a step does to the messages in transit.                            *)
(***************************************************************************)

Quiet      == /\ sent' = sent
              /\ envelope' = envelope
              /\ \A q \in Proc : InTransit(q)' \subseteq InTransit(q)
Opening(p, a, k) ==
              /\ pc[p] = "run"
              /\ StartSend(p, a, k)
              /\ \A q \in Proc \ {p} : InTransit(q)' = InTransit(q)
              /\ InTransit(p)' = {sent + 1}
              /\ UNCHANGED <<mailbox, work, known>>
Greeting   == \E p \in Proc, a \in HasInit :
                Opening(p, a, "init") /\ pc[a] = "made" /\ pc'[a] = "top"
Posting    == \E p \in Proc, a \in known, k \in {"past", "now", "future"} :
                Opening(p, a, k)
Replying   == \E a \in Actor :
                /\ envelope[cur[a]].sender \in Actor
                /\ Opening(a, envelope[cur[a]].sender, "past")

Transit == Quiet \/ Greeting \/ Posting \/ Replying

LEMMA QuietMove ==
  ASSUME Types, UNCHANGED <<sent, envelope>>, NEW x, NEW l, l # "put",
         pc' = [pc EXCEPT ![x] = l],
         \A q \in Proc : pc[q] = "put" /\ q # x => call'[q] = call[q]
  PROVE  Quiet
<1>1. \A q \in Proc : pc'[q] = "put" => pc[q] = "put" /\ q # x
  BY DEF Types
<1>2. QED
  BY <1>1 DEF Quiet, InTransit

LEMMA QuietStay ==
  ASSUME UNCHANGED <<sent, envelope, pc, call>>
  PROVE  Quiet
  BY DEF Quiet, InTransit

\* message_started, wherever it is called from.
LEMMA OpeningStep ==
  ASSUME IInv, NEW p \in Proc, NEW a \in Actor, NEW k, pc[p] = "run",
         StartSend(p, a, k), pc'[p] = "put",
         \A q \in Proc \ {p} : pc'[q] = "put" <=> pc[q] = "put",
         UNCHANGED <<mailbox, work, known>>
  PROVE  Opening(p, a, k)
  BY DEF Opening, StartSend, InTransit, IInv, Types

LEMMA SendsStep == IInv /\ [Next]_vars => Transit
<1> SUFFICES ASSUME IInv, [Next]_vars
             PROVE  Transit
  OBVIOUS
<1>0. /\ Types
      /\ Actor \subseteq Proc
      /\ HasInit \subseteq Actor
      /\ known \subseteq Actor
  BY RuntimeAssumption DEF IInv, Types, Proc
<1> USE DEF Goto
<1>1. CASE Quiet
  BY <1>1 DEF Transit
<1>2. ASSUME NEW b \in Actor, Worker(b)
      PROVE  Transit
  <2>1. CASE Poll(b)
    BY <1>0, <1>1, <2>1, QuietMove DEF Poll
  <2>2. CASE Get(b)
    BY <1>0, <1>1, <2>2, QuietMove DEF Get
  <2>3. CASE Reply(b)
    <3>1. CASE UNCHANGED <<pc, call, envelope, sent>>
      BY <1>1, <3>1, QuietStay
    <3>2. CASE ~UNCHANGED <<pc, call, envelope, sent>>
      <4>1. /\ pc[b] = "run"
            /\ envelope[cur[b]].sender \in Actor
            /\ StartSend(b, envelope[cur[b]].sender, "past")
            /\ pc' = [pc EXCEPT ![b] = "put"]
            /\ UNCHANGED <<mailbox, work, known>>
        BY <2>3, <3>2 DEF Reply
      <4>2. /\ pc'[b] = "put"
            /\ \A q \in Proc \ {b} : pc'[q] = "put" <=> pc[q] = "put"
        BY <1>0, <4>1 DEF Types
      <4>3. Opening(b, envelope[cur[b]].sender, "past")
        BY <1>0, <4>1, <4>2, OpeningStep
      <4>4. QED
        BY <4>1, <4>3 DEF Transit, Replying
    <3>3. QED
      BY <3>1, <3>2
  <2>4. CASE Complete(b)
    BY <1>0, <1>1, <2>4, QuietMove DEF Complete
  <2>5. CASE MessageDone(b)
    BY <1>0, <1>1, <2>5, QuietMove DEF MessageDone
  <2>6. CASE EnterSelect(b)
    BY <1>0, <1>1, <2>6, QuietMove DEF EnterSelect
  <2>7. CASE SelectMatch(b) \/ SelectMiss(b)
    BY <1>0, <1>1, <2>7, QuietMove DEF SelectMatch, SelectMiss, Drain
  <2>8. CASE SelectTake(b)
    BY <1>0, <1>1, <2>8, QuietMove DEF SelectTake
  <2>9. CASE SelectRetry(b)
    BY <1>0, <1>1, <2>9, QuietMove DEF SelectRetry
  <2>10. CASE Requeue(b)
    BY <1>1, <2>10, QuietStay DEF Requeue
  <2>11. QED
    BY <1>2, <2>1, <2>2, <2>3, <2>4, <2>5, <2>6, <2>7, <2>8, <2>9, <2>10
       DEF Worker
<1>3. ASSUME NEW p \in Proc, Program(p)
      PROVE  Transit
  <2>1. ASSUME NEW b \in Actor, NEW k \in {"past", "now", "future"}, Send(p, b, k)
        PROVE  Transit
    <3>1. /\ pc[p] = "run" /\ b \in known
          /\ StartSend(p, b, k)
          /\ pc' = [pc EXCEPT ![p] = "put"]
          /\ UNCHANGED <<mailbox, work, known>>
      BY <2>1 DEF Send
    <3>2. /\ pc'[p] = "put"
          /\ \A q \in Proc \ {p} : pc'[q] = "put" <=> pc[q] = "put"
      BY <1>0, <3>1 DEF Types
    <3>3. Opening(p, b, k)
      BY <3>1, <3>2, OpeningStep
    <3>4. QED
      BY <3>1, <3>3 DEF Transit, Posting
  <2>2. CASE Put(p)
    <3>1. \E l \in {"wait", "run"} : pc' = [pc EXCEPT ![p] = l]
      BY <2>2 DEF Put
    <3>2. \A q \in Proc : q # p => call'[q] = call[q]
      BY <1>0, <2>2 DEF Put, Types
    <3>3. QED
      BY <1>0, <1>1, <2>2, <3>1, <3>2, QuietMove DEF Put
  <2>3. ASSUME NEW m \in Msg, Await(p, m)
        PROVE  Transit
    <3>1. \A q \in Proc : q # p => call'[q] = call[q]
      BY <1>0, <2>3 DEF Await, Types
    <3>2. QED
      BY <1>0, <1>1, <2>3, <3>1, QuietMove DEF Await
  <2>4. CASE Wake(p)
    <3>1. \A q \in Proc : q # p => call'[q] = call[q]
      BY <1>0, <2>4 DEF Wake, Types
    <3>2. QED
      BY <1>0, <1>1, <2>4, <3>1, QuietMove DEF Wake
  <2>5. ASSUME NEW b \in Actor, Spawn(p, b)
        PROVE  Transit
    BY <1>0, <1>1, <2>5, QuietMove DEF Spawn
  <2>6. ASSUME NEW b \in Actor, Retire(p, b)
        PROVE  Transit
    BY <1>1, <2>6, QuietStay DEF Retire
  <2>7. ASSUME NEW s \in Streamer, AiStream(p, s)
        PROVE  Transit
    BY <1>0, <1>1, <2>7, QuietMove DEF AiStream
  <2>8. CASE SpawnRaises(p) \/ Suicide(p)
    BY <1>1, <2>8, QuietStay DEF SpawnRaises, Suicide
  <2>9. CASE Start(p)
    <3>0. PICK b \in Actor : b = Self(p) /\ pc[b] = "made" /\ pc[p] = "run"
      BY <1>0, <2>9, SelfType DEF Start
    <3>1. CASE b \in HasInit
      <4>1. /\ StartSend(p, b, "init")
            /\ pc' = [pc EXCEPT ![b] = "top", ![p] = "put"]
            /\ UNCHANGED <<mailbox, work, known>>
        BY <2>9, <3>0, <3>1 DEF Start
      <4>2. /\ pc'[p] = "put" /\ pc'[b] = "top"
            /\ \A q \in Proc \ {p} : pc'[q] = "put" <=> pc[q] = "put"
        BY <1>0, <3>0, <4>1 DEF Types
      <4>3. Opening(p, b, "init")
        BY <3>0, <4>1, <4>2, OpeningStep
      <4>4. QED
        BY <3>0, <3>1, <4>2, <4>3 DEF Transit, Greeting
    <3>2. CASE b \notin HasInit
      BY <1>0, <1>1, <2>9, <3>0, <3>2, QuietMove DEF Start
    <3>3. QED
      BY <3>1, <3>2
  <2>10. QED
    BY <1>3, <2>1, <2>2, <2>3, <2>4, <2>5, <2>6, <2>7, <2>8, <2>9 DEF Program
<1>4. ASSUME NEW b \in Actor, Save(b) \/ Halt(b)
      PROVE  Transit
  BY <1>1, <1>4, QuietStay DEF Save, Halt
<1>5. CASE ToggleGate \/ UNCHANGED vars
  BY <1>1, <1>5, QuietStay DEF ToggleGate, vars
<1>6. CASE WaitIdle
  <2>1. UNCHANGED <<sent, envelope, call>>
    BY <1>6 DEF WaitIdle
  <2>2. pc' = pc \/ pc' = [pc EXCEPT ![Main] = "save"]
    BY <1>6 DEF WaitIdle, Return
  <2>3. QED
    BY <1>0, <1>1, <2>1, <2>2, QuietMove, QuietStay
<1>7. CASE EndScript \/ Shutdown \/ ExitMain
  BY <1>0, <1>1, <1>7, QuietMove DEF EndScript, Shutdown, ExitMain
<1>8. ASSUME NEW s \in Streamer, EndStream(s)
      PROVE  Transit
  BY <1>0, <1>1, <1>8, QuietMove DEF EndStream
<1>9. QED
  BY <1>2, <1>3, <1>4, <1>5, <1>6, <1>7, <1>8 DEF Next

-----------------------------------------------------------------------------
(***************************************************************************)
(* The order of the messages of one sender.                                *)
(***************************************************************************)

\* What a thread is putting is the last it sent.
Newest(p) == \A m \in InTransit(p), n \in 1 .. sent :
               envelope[n].from = p => n <= m

Ordered(s) == \A i, j \in DOMAIN s :
                i < j /\ s[i] # Stop /\ s[j] # Stop
                  /\ envelope[s[i]].from = envelope[s[j]].from
                => s[i] < s[j]

OrderInv == PerSenderFifo /\ \A p \in Proc : Newest(p)

LEMMA FifoOrdered == PerSenderFifo <=> \A a \in Actor : Ordered(mailbox[a])
  BY DEF PerSenderFifo, Ordered

\* Everything in a mailbox has been sent.
LEMMA QueuedSent ==
  ASSUME IInv, NEW a \in Actor
  PROVE  \A i \in DOMAIN mailbox[a] :
           mailbox[a][i] # Stop => mailbox[a][i] \in 1 .. sent
<1>1. Queued(a) \subseteq AtActor(a) /\ AtActor(a) \subseteq Msg
  BY AtActorType DEF AtActor, IInv
<1>2. \A m \in AtActor(a) : m <= sent
  BY DEF IInv, Placement, Addressed
<1>3. QED
  BY <1>1, <1>2 DEF Queued, Ids, Msg, IInv, Types, Item

LEMMA OrderTail ==
  ASSUME NEW s \in Seq(Item), s # <<>>, Ordered(s)
  PROVE  Ordered(Tail(s))
<1>1. /\ DOMAIN s = 1 .. Len(s)
      /\ DOMAIN Tail(s) = 1 .. Len(s) - 1
      /\ \A i \in 1 .. Len(s) - 1 : Tail(s)[i] = s[i + 1]
      /\ Len(s) \in Nat
  OBVIOUS
<1>2. QED
  BY <1>1 DEF Ordered

LEMMA OrderAppend ==
  ASSUME NEW s \in Seq(Item), NEW x \in Item, Ordered(s),
         \A i \in DOMAIN s :
           s[i] # Stop /\ x # Stop /\ envelope[s[i]].from = envelope[x].from
             => s[i] < x
  PROVE  Ordered(Append(s, x))
<1> DEFINE t == Append(s, x)
<1>1. /\ DOMAIN s = 1 .. Len(s)
      /\ DOMAIN t = 1 .. Len(s) + 1
      /\ \A i \in 1 .. Len(s) : t[i] = s[i]
      /\ t[Len(s) + 1] = x
      /\ Len(s) \in Nat
  OBVIOUS
<1> HIDE DEF t
<1>2. Ordered(t)
  BY <1>1 DEF Ordered
<1>3. QED
  BY <1>2 DEF t

LEMMA OrderStep ==
  IInv /\ OrderInv /\ "select" \notin Ops /\ [Next]_vars => OrderInv'
<1> SUFFICES ASSUME IInv, OrderInv, "select" \notin Ops, [Next]_vars
             PROVE  OrderInv'
  OBVIOUS
<1>1. \A a \in Actor : \A i \in DOMAIN mailbox[a] :
        mailbox[a][i] # Stop => mailbox[a][i] \in 1 .. sent
  BY QueuedSent
<1>2. sent \in Nat /\ (\A n \in 1 .. sent : envelope'[n] = envelope[n])
        /\ (sent' = sent \/ sent' = sent + 1)
  <2>1. sent \in Nat /\ envelope \in [Msg -> Envelope] /\ MaxMsgs \in Nat
          /\ sent <= MaxMsgs
    BY RuntimeAssumption DEF IInv, Types, Item
  <2>2. CASE Quiet
    BY <2>1, <2>2 DEF Quiet
  <2>3. ASSUME NEW p, NEW a, NEW k, Opening(p, a, k)
        PROVE  (\A n \in 1 .. sent : envelope'[n] = envelope[n])
                 /\ sent' = sent + 1
    BY <2>1, <2>3 DEF Opening, StartSend, Msg
  <2>4. QED
    BY <2>1, <2>2, <2>3, SendsStep DEF Transit, Greeting, Posting, Replying
<1>3. ASSUME NEW a \in Actor
      PROVE  Ordered(mailbox[a])'
  <2>1. mailbox[a] \in Seq(Item) /\ Ordered(mailbox[a]) /\ Stop \in Item
    BY FifoOrdered, RuntimeAssumption
       DEF OrderInv, IInv, Types, Stop, Item
  <2>2. ASSUME NEW s, s = mailbox'[a], Ordered(s),
               \A i \in DOMAIN s : s[i] # Stop => s[i] \in 1 .. sent
        PROVE  Ordered(mailbox[a])'
    BY <1>2, <2>2 DEF Ordered
  <2>3. CASE Rest(a)
    BY <1>1, <2>1, <2>2, <2>3 DEF Rest
  <2>4. ASSUME NEW x \in Item, mailbox'[a] = Append(mailbox[a], x),
               x # Stop => x \in 1 .. sent,
               \A i \in DOMAIN mailbox[a] :
                 mailbox[a][i] # Stop /\ x # Stop
                   /\ envelope[mailbox[a][i]].from = envelope[x].from
                 => mailbox[a][i] < x
        PROVE  Ordered(mailbox[a])'
    <3>1. Ordered(Append(mailbox[a], x))
      BY <2>1, <2>4, OrderAppend
    <3>2. \A i \in DOMAIN Append(mailbox[a], x) :
            Append(mailbox[a], x)[i] # Stop
              => Append(mailbox[a], x)[i] \in 1 .. sent
      BY <1>1, <2>1, <2>4
    <3>3. QED
      BY <2>2, <2>4, <3>1, <3>2
  <2>5. CASE Grow(a, Stop)
    BY <2>1, <2>4, <2>5 DEF Grow
  <2>6. CASE Delivered(a)
    <3>1. PICK p \in Proc : Put(p) /\ envelope[call[p]].to = a /\ Grow(a, call[p])
      BY <2>6 DEF Delivered
    <3> DEFINE m == call[p]
    <3>2. m \in Item /\ InTransit(p) = {m}
      BY <3>1 DEF IInv, Types, Put, InTransit
    <3>3. m \in 1 .. sent /\ envelope[m].from = p /\ m \notin AtActor(a)
      BY <3>2 DEF IInv, Placement, Sending
    <3>4. ASSUME NEW i \in DOMAIN mailbox[a], mailbox[a][i] # Stop,
                 envelope[mailbox[a][i]].from = p
          PROVE  mailbox[a][i] < m
      <4>1. mailbox[a][i] \in 1 .. sent
        BY <1>1, <3>4
      <4>2. mailbox[a][i] \in AtActor(a)
        BY <3>4 DEF AtActor, Queued, Ids
      <4>3. mailbox[a][i] <= m
        BY <3>2, <3>4, <4>1 DEF OrderInv, Newest
      <4>4. QED
        BY <1>2, <3>3, <4>1, <4>2, <4>3
    <3> HIDE DEF m
    <3>5. mailbox'[a] = Append(mailbox[a], m)
      BY <3>1 DEF Grow, m
    <3>6. QED
      BY <2>4, <3>2, <3>3, <3>4, <3>5
  <2>7. CASE Take(a) \/ Snap(a)
    <3>1. mailbox[a] # <<>> /\ mailbox'[a] = Tail(mailbox[a])
      BY <2>7 DEF Take, Snap
    <3>2. \A i \in DOMAIN Tail(mailbox[a]) :
            Tail(mailbox[a])[i] # Stop => Tail(mailbox[a])[i] \in 1 .. sent
      BY <1>1, <2>1, <3>1
    <3>3. Ordered(Tail(mailbox[a]))
      BY <2>1, <3>1, OrderTail
    <3>4. QED
      BY <2>2, <3>1, <3>2, <3>3
  <2>8. ~Empty(a) /\ ~Back(a)
    BY DEF Empty, Back, IInv, Placement, WorkerOK
  <2>9. QED
    BY <2>3, <2>5, <2>6, <2>7, <2>8, SlotsStep DEF Slots
<1>4. ASSUME NEW p \in Proc
      PROVE  Newest(p)'
  <2>1. CASE Quiet
    BY <2>1 DEF Quiet, OrderInv, Newest
  <2>2. ASSUME NEW q \in Proc, NEW a, NEW k, Opening(q, a, k)
        PROVE  Newest(p)'
    <3>1. /\ sent' = sent + 1
          /\ envelope'[sent + 1].from = q
      BY <2>2, RuntimeAssumption DEF Opening, StartSend, IInv, Types, Item, Msg
    <3>2. CASE p = q
      <4>1. InTransit(p)' = {sent + 1}
        BY <2>2, <3>2 DEF Opening
      <4>2. QED
        BY <1>2, <3>1, <4>1 DEF Newest
    <3>3. CASE p # q
      <4>1. InTransit(p)' = InTransit(p)
        BY <2>2, <3>3 DEF Opening
      <4>2. QED
        BY <1>2, <3>1, <3>3, <4>1 DEF Newest, OrderInv
    <3>4. QED
      BY <3>2, <3>3
  <2>3. Actor \subseteq Proc
    BY DEF Proc
  <2>4. QED
    BY <2>1, <2>2, <2>3, SendsStep DEF Transit, Greeting, Posting, Replying
<1>5. QED
  BY <1>3, <1>4, FifoOrdered DEF OrderInv, Ordered, PerSenderFifo

\* Without select, the messages of one sender never overtake each other in a
\* mailbox (send_method, Mailbox.put), however many threads send.
THEOREM SenderOrder ==
  ASSUME "select" \notin Ops
  PROVE  Spec => []PerSenderFifo
<1>1. Init => OrderInv
  BY DEF Init, OrderInv, PerSenderFifo, Newest, InTransit
<1>2. IInv /\ OrderInv /\ [Next]_vars => OrderInv'
  BY OrderStep
<1>3. OrderInv => PerSenderFifo
  BY DEF OrderInv
<1>4. QED
  BY <1>1, <1>2, <1>3, Invariance, PTL DEF Spec

-----------------------------------------------------------------------------
(***************************************************************************)
(* init comes first, for the actors whose field initialisers neither send  *)
(* nor hand out self.                                                      *)
(***************************************************************************)

Discreet == HasInit \ Leaky
Unready(a) == pc[a] \in {"unborn", "made"}

InitOf(a)   == {m \in 1 .. sent : envelope[m].to = a /\ envelope[m].kind = "init"}
Greeted(a)  == \E p \in Proc : InTransit(p) \cap InitOf(a) # {}
Begun(a)    == ~Unready(a) /\ ~Greeted(a)

\* The two halves of InitFirst for one actor.
Alone(a) == Greeted(a) => AtActor(a) = {}
Ahead(a) == \A i, j \in DOMAIN mailbox[a] :
              mailbox[a][i] \in InitOf(a) /\ mailbox[a][j] # Stop
                => i <= j /\ InHand(a) = {}

\* Nobody writes to an actor, and it writes to nobody, before its init has been
\* put; it has one init, which select never sees.
Silent(a)  == Unready(a) => \A m \in 1 .. sent : envelope[m].to # a
Named(a)   == a \in known => Begun(a)
Signed(a)  == \A m \in 1 .. sent : envelope[m].sender = a => Begun(a)
Written(a) == \A m \in 1 .. sent :
                envelope[m].to = a /\ m \notin InitOf(a) => Begun(a)
Single(a)  == \A m, n \in InitOf(a) : m = n
Passed(a)  == InitOf(a) \cap (Held(a) \cup Picked(a)) = {}

Lore(a) == Silent(a) /\ Named(a) /\ Signed(a) /\ Written(a) /\ Single(a)
FirstInv == \A a \in Discreet : Lore(a) /\ Passed(a) /\ Alone(a) /\ Ahead(a)

LEMMA FirstSplit ==
  ASSUME IInv, \A a \in Discreet : Alone(a) /\ Ahead(a)
  PROVE  InitFirst
  BY DEF InitFirst, Alone, Ahead, Greeted, InitOf, Discreet

\* A class with init is known once that message has been put.
LEMMA KnownStep ==
  ASSUME IInv, [Next]_vars, NEW a \in Discreet, a \in known', a \notin known
  PROVE  \E p \in Proc : /\ Put(p)
                         /\ envelope[call[p]].to = a
                         /\ envelope[call[p]].kind = "init"
<1>1. ASSUME NEW b \in Actor, Worker(b) \/ Save(b) \/ Halt(b)
      PROVE  known' = known
  BY <1>1 DEF Worker, Save, Halt, Poll, Get, Reply, Complete, MessageDone,
              EnterSelect, SelectMatch, SelectMiss, Drain, Requeue, SelectTake,
              SelectRetry
<1>2. ASSUME NEW p \in Proc, Program(p), ~Put(p)
      PROVE  a \notin known'
  BY <1>2 DEF Program, Send, Await, Wake, Spawn, Start, SpawnRaises, Suicide,
              Retire, AiStream, Discreet
<1>3. ASSUME NEW s \in Streamer, EndStream(s)
      PROVE  known' = known
  BY <1>3 DEF EndStream
<1>4. CASE ToggleGate \/ EndScript \/ WaitIdle \/ Shutdown \/ ExitMain
             \/ UNCHANGED vars
  BY <1>4 DEF ToggleGate, EndScript, WaitIdle, Shutdown, ExitMain, vars
<1>5. PICK p \in Proc : Put(p)
  BY <1>1, <1>2, <1>3, <1>4 DEF Next
<1>6. QED
  BY <1>5 DEF Put

\* The exit snapshot takes what was queued.
LEMMA SavedStep ==
  ASSUME IInv, [Next]_vars, NEW a \in Actor
  PROVE  saved'[a] \subseteq saved[a] \cup Queued(a)
<1>1. ASSUME NEW b \in Actor, Save(b)
      PROVE  saved'[a] \subseteq saved[a] \cup Queued(a)
  <2>1. CASE a = b
    <3>1. mailbox[a] \in Seq(Item) /\ Distinct(mailbox[a])
      BY DEF IInv, Types, Placement, OnePlace
    <3>2. mailbox[a] # <<>> /\ saved'[a] = saved[a] \cup ({Head(mailbox[a])} \ {Stop})
      BY <1>1, <2>1 DEF Save, IInv, Types
    <3>3. QED
      BY <3>1, <3>2, TailIds DEF Queued
  <2>2. CASE a # b
    BY <1>1, <2>2 DEF Save, IInv, Types
  <2>3. QED
    BY <2>1, <2>2
<1>2. ASSUME NEW b \in Actor, Worker(b) \/ Halt(b)
      PROVE  saved' = saved
  BY <1>2 DEF Worker, Halt, Poll, Get, Reply, Complete, MessageDone,
              EnterSelect, SelectMatch, SelectMiss, Drain, Requeue, SelectTake,
              SelectRetry, work
<1>3. ASSUME NEW p \in Proc, Program(p)
      PROVE  saved' = saved
  BY <1>3 DEF Program, Send, Put, Await, Wake, Spawn, Start, SpawnRaises,
              Suicide, Retire, AiStream, work
<1>4. ASSUME NEW s \in Streamer, EndStream(s)
      PROVE  saved' = saved
  BY <1>4 DEF EndStream, work
<1>5. CASE ToggleGate \/ EndScript \/ WaitIdle \/ Shutdown \/ ExitMain
             \/ UNCHANGED vars
  BY <1>5 DEF ToggleGate, EndScript, WaitIdle, Shutdown, ExitMain, vars, work
<1>6. QED
  BY <1>1, <1>2, <1>3, <1>4, <1>5 DEF Next

\* What message_started adds to the messages of an actor.
LEMMA OpeningInit ==
  ASSUME IInv, NEW p \in Proc, NEW b \in Actor, NEW k, Opening(p, b, k)
  PROVE  /\ sent \in Nat /\ sent' = sent + 1
         /\ \A m \in 1 .. sent : m # sent + 1 /\ envelope'[m] = envelope[m]
         /\ envelope'[sent + 1] = [from |-> p, sender |-> Speaker(p), to |-> b, kind |-> k]
         /\ 1 .. sent' = (1 .. sent) \cup {sent + 1}
<1>1. /\ sent \in Nat /\ sent' = sent + 1 /\ sent + 1 \in Msg
      /\ envelope \in [Msg -> Envelope]
      /\ envelope' = [envelope EXCEPT ![sent + 1] =
                        [from |-> p, sender |-> Speaker(p), to |-> b, kind |-> k]]
  BY RuntimeAssumption DEF Opening, StartSend, IInv, Types, Item, Msg
<1>2. QED
  BY <1>1 DEF Msg

LEMMA OpeningOther ==
  ASSUME IInv, NEW p \in Proc, NEW b \in Actor, NEW k, Opening(p, b, k),
         NEW a \in Actor, a # b \/ k # "init"
  PROVE  InitOf(a)' = InitOf(a)
<1>1. /\ sent \in Nat /\ sent' = sent + 1
      /\ envelope'[sent + 1] = [from |-> p, sender |-> Speaker(p), to |-> b, kind |-> k]
      /\ \A m \in 1 .. sent : envelope'[m] = envelope[m]
  BY OpeningInit
<1>2. \A m : m \in 1 .. sent' <=> m \in 1 .. sent \/ m = sent + 1
  BY <1>1
<1>3. \A m : m \in InitOf(a)' <=> m \in InitOf(a)
  BY <1>1, <1>2 DEF InitOf
<1>4. QED
  BY <1>3

\* No actor returns to the time before its thread is started.
LEMMA NeverUnready ==
  ASSUME Types, [Next]_vars, NEW q \in Actor, Unready(q)'
  PROVE  Unready(q)
<1> USE DEF Goto, Types, Unready
<1>0. q \in Proc
  BY DEF Proc
<1>1. ASSUME NEW a \in Actor, Worker(a)
      PROVE  Unready(q)
  BY <1>0, <1>1
     DEF Worker, Poll, Get, Reply, Complete, MessageDone, EnterSelect,
         SelectMatch, SelectMiss, Drain, Requeue, SelectTake, SelectRetry
<1>2. ASSUME NEW p \in Proc, Program(p)
      PROVE  Unready(q)
  BY <1>0, <1>2 DEF Program, Send, Put, Await, Wake, Spawn, Start, SpawnRaises,
              Suicide, Retire, AiStream
<1>3. QED
  BY <1>0, <1>1, <1>2
     DEF Next, Save, Halt, EndStream, ToggleGate, EndScript, WaitIdle,
         Return, Shutdown, ExitMain, idling, vars

\* An actor is born once, and its init is put once.
LEMMA BegunStep ==
  ASSUME IInv, [Next]_vars, NEW a \in Discreet, Begun(a)
  PROVE  Begun(a)'
<1>0. a \in Actor /\ a \in Proc /\ Types
  BY RuntimeAssumption DEF Proc, IInv, Discreet
<1>1. ~Unready(a)'
  BY <1>0, NeverUnready DEF Begun
<1>2. CASE Quiet
  BY <1>1, <1>2 DEF Quiet, Begun, Greeted, InitOf
<1>3. ASSUME NEW p \in Proc, NEW b \in Actor, NEW k, Opening(p, b, k),
             ~(a = b /\ k = "init")
      PROVE  Begun(a)'
  <2>1. InitOf(a)' = InitOf(a) /\ sent + 1 \notin InitOf(a)
    <3>1. InitOf(a)' = InitOf(a)
      BY <1>0, <1>3, OpeningOther
    <3>2. \A m \in 1 .. sent : m # sent + 1
      BY <1>3, OpeningInit
    <3>3. QED
      BY <3>1, <3>2 DEF InitOf
  <2>2. \A q \in Proc : InTransit(q)' \cap InitOf(a) = {}
    BY <1>3, <2>1 DEF Opening, Begun, Greeted
  <2>3. QED
    BY <1>1, <2>1, <2>2 DEF Begun, Greeted
<1>4. known \subseteq Actor /\ HasInit \subseteq Actor /\ Actor \subseteq Proc
  BY <1>0, RuntimeAssumption DEF Types, Proc
<1>5. QED
  BY <1>2, <1>3, <1>4, SendsStep
     DEF Transit, Greeting, Posting, Replying, Begun, Unready

\* A worker that runs a method body has its init behind it.
LEMMA RunBegun ==
  ASSUME IInv, FirstInv, NEW a \in Discreet, pc[a] = "run"
  PROVE  Begun(a)
<1>1. cur[a] # NoMsg
  BY RuntimeAssumption DEF IInv, Placement, WorkerOK, Busy, Discreet
<1>2. AtActor(a) # {}
  BY <1>1 DEF AtActor, InHand
<1>3. QED
  BY <1>2 DEF FirstInv, Alone, Begun, Unready

\* A message that is opened leaves everything at the actors as it was.
LEMMA OpeningFirst ==
  ASSUME IInv, FirstInv, [Next]_vars, NEW p \in Proc, NEW b \in Actor, NEW k,
         Opening(p, b, k),
         \/ k = "init" /\ pc[b] = "made" /\ pc'[b] = "top"
         \/ k # "init" /\ (b \in Discreet => Begun(b))
  PROVE  FirstInv'
<1> SUFFICES ASSUME NEW a \in Discreet
             PROVE  Lore(a)' /\ Passed(a)' /\ Alone(a)' /\ Ahead(a)'
  BY DEF FirstInv
<1>0. /\ a \in Actor /\ a \in Proc
      /\ Lore(a) /\ Passed(a) /\ Alone(a) /\ Ahead(a)
      /\ pc[p] = "run" /\ known' = known
      /\ AtActor(a)' = AtActor(a) /\ UNCHANGED <<mailbox, cur, held, picked>>
      /\ \A q \in Proc \ {p} : InTransit(q)' = InTransit(q)
      /\ InTransit(p)' = {sent + 1}
      /\ AtActor(a) \subseteq 1 .. sent
      /\ AtActor(a) # {} => ~Unready(a)
  <2>1. a \in Actor /\ a \in Proc
    BY RuntimeAssumption DEF Proc, Discreet
  <2>2. AtActor(a) \subseteq 1 .. sent /\ \A m \in AtActor(a) : envelope[m].to = a
    <3>1. AtActor(a) \subseteq Msg /\ Addressed(a) /\ sent \in Nat
      BY <2>1, AtActorType, OpeningInit DEF IInv, Placement
    <3>2. QED
      BY <3>1 DEF Addressed, Msg
  <2>3. QED
    BY <2>1, <2>2 DEF FirstInv, Opening, work, AtActor, Queued, Held, Picked,
                      InHand, Lore, Silent
<1>1. /\ sent \in Nat /\ sent' = sent + 1
      /\ 1 .. sent' = (1 .. sent) \cup {sent + 1}
      /\ \A m \in 1 .. sent : m # sent + 1 /\ envelope'[m] = envelope[m]
      /\ envelope'[sent + 1].sender = Speaker(p)
      /\ envelope'[sent + 1].to = b
      /\ envelope'[sent + 1].kind = k
  <2>1. /\ sent \in Nat /\ sent' = sent + 1
        /\ \A m \in 1 .. sent : m # sent + 1 /\ envelope'[m] = envelope[m]
        /\ envelope'[sent + 1] = [from |-> p, sender |-> Speaker(p), to |-> b, kind |-> k]
    BY OpeningInit
  <2>2. 1 .. sent' = (1 .. sent) \cup {sent + 1}
    BY OpeningInit
  <2>3. QED
    BY <2>1, <2>2
<1>2. Begun(a) => Begun(a)'
  BY BegunStep
<1>3. InitOf(a) \subseteq 1 .. sent
  BY DEF InitOf
<1>4. Signed(a)' /\ Named(a)'
  <2>1. Speaker(p) = a => p = a
    BY <1>0, RuntimeAssumption DEF Speaker, Self, Discreet
  <2>2. p = a => Begun(a)
    BY <1>0, RunBegun
  <2>3. QED
    BY <1>0, <1>1, <1>2, <2>1, <2>2 DEF Lore, Signed, Named
<1>5. CASE a = b /\ k = "init"
  <2>1. InitOf(a) = {} /\ AtActor(a) = {} /\ pc'[a] = "top"
    BY <1>0, <1>5 DEF Lore, Silent, InitOf, Unready
  <2>2. InitOf(a)' = {sent + 1}
    <3>1. InitOf(a)' = {m \in (1 .. sent) \cup {sent + 1} :
                          envelope'[m].to = a /\ envelope'[m].kind = "init"}
      BY <1>1 DEF InitOf
    <3>2. \A m \in 1 .. sent :
            ~(envelope'[m].to = a /\ envelope'[m].kind = "init")
      BY <1>1, <2>1 DEF InitOf
    <3>3. QED
      BY <1>1, <1>5, <3>1, <3>2
  <2>3. Silent(a)' /\ Single(a)' /\ Alone(a)'
    BY <1>0, <1>1, <1>5, <2>1, <2>2 DEF Silent, Single, Alone, Unready
  <2>4. Written(a)'
    BY <1>0, <1>1, <1>5, <2>1, <2>2 DEF Lore, Silent, Written, Unready
  <2>5. Queued(a) = {} /\ Held(a) = {} /\ Picked(a) = {}
    BY <2>1 DEF AtActor
  <2>6. Passed(a)'
    BY <1>0, <2>5 DEF Passed, Held, Picked
  <2>7. Ahead(a)'
    BY <1>0, <2>5 DEF Ahead, Queued, Ids
  <2>8. QED
    BY <1>4, <2>3, <2>4, <2>6, <2>7 DEF Lore
<1>6. CASE ~(a = b /\ k = "init")
  <2>1. InitOf(a)' = InitOf(a)
    BY <1>0, <1>6, OpeningOther
  <2>2. a = b => Begun(a)
    BY <1>6
  <2>3. Unready(a)' => Unready(a)
    BY <1>0, NeverUnready DEF IInv
  <2>4. Silent(a)'
    BY <1>0, <1>1, <2>2, <2>3 DEF Lore, Silent, Begun
  <2>5. Written(a)'
    BY <1>0, <1>1, <1>2, <2>1, <2>2 DEF Lore, Written
  <2>6. Single(a)'
    BY <1>0, <2>1 DEF Lore, Single
  <2>7. Passed(a)' /\ Ahead(a)'
    BY <1>0, <2>1 DEF Passed, Ahead, Held, Picked, InHand
  <2>8. Alone(a)'
    BY <1>0, <1>1, <1>3, <2>1 DEF Alone, Greeted
  <2>9. QED
    BY <1>4, <2>4, <2>5, <2>6, <2>7, <2>8 DEF Lore
<1>7. QED
  BY <1>5, <1>6

\* Putting, handling and selecting.
LEMMA QuietFirst ==
  ASSUME IInv, FirstInv, [Next]_vars, Quiet
  PROVE  FirstInv'
<1> SUFFICES ASSUME NEW a \in Discreet
             PROVE  Lore(a)' /\ Passed(a)' /\ Alone(a)' /\ Ahead(a)'
  BY DEF FirstInv
<1>0. /\ a \in Actor /\ a \in Proc
      /\ Lore(a) /\ Passed(a) /\ Alone(a) /\ Ahead(a)
      /\ sent' = sent /\ envelope' = envelope
      /\ \A q \in Proc : InTransit(q)' \subseteq InTransit(q)
      /\ mailbox[a] \in Seq(Item) /\ held[a] \in Seq(Item)
      /\ Distinct(mailbox[a]) /\ Distinct(held[a])
  BY RuntimeAssumption
     DEF FirstInv, Quiet, Proc, IInv, Types, Placement, OnePlace, Discreet
<1>1. InitOf(a)' = InitOf(a) /\ InitOf(a) \subseteq Msg
  <2>1. 1 .. sent \subseteq Msg
    BY RuntimeAssumption DEF IInv, Types, Item, Msg
  <2>2. QED
    BY <1>0, <2>1 DEF InitOf
<1>2. Begun(a) => Begun(a)'
  BY BegunStep
<1>3. ASSUME NEW p \in Proc, Put(p), envelope[call[p]].to = a
      PROVE  /\ InTransit(p) = {call[p]}
             /\ call[p] \in 1 .. sent /\ call[p] \notin AtActor(a)
             /\ ~Unready(a)
             /\ call[p] \in InitOf(a) =>
                  /\ AtActor(a) = {}
                  /\ Begun(a)'
             /\ call[p] \notin InitOf(a) => Begun(a)
  <2>1. InTransit(p) = {call[p]}
    BY <1>3 DEF Put, InTransit
  <2>2. /\ call[p] \in 1 .. sent /\ call[p] \notin AtActor(a)
        /\ envelope[call[p]].from = p
    BY <1>0, <2>1 DEF IInv, Placement, Sending
  <2>3. ~Unready(a)
    BY <1>0, <1>3, <2>2 DEF Lore, Silent
  <2>4. ASSUME call[p] \in InitOf(a)
        PROVE  AtActor(a) = {} /\ Begun(a)'
    <3>1. AtActor(a) = {}
      BY <1>0, <2>1, <2>4 DEF Alone, Greeted
    <3>2. ~Unready(a)'
      BY <1>0, <2>3, NeverUnready DEF IInv
    <3>3. pc'[p] # "put"
      BY <1>3 DEF Put, Goto, IInv, Types
    <3>4. ASSUME NEW q \in Proc, NEW m \in InTransit(q)', m \in InitOf(a)
          PROVE  FALSE
      <4>1. m = call[p]
        BY <1>0, <2>4, <3>4 DEF Lore, Single
      <4>2. envelope[m].from = q
        BY <1>0, <3>4 DEF IInv, Placement, Sending
      <4>3. q = p
        BY <2>2, <4>1, <4>2
      <4>4. QED
        BY <3>3, <3>4, <4>3 DEF InTransit
    <3>5. QED
      BY <1>1, <3>1, <3>2, <3>4 DEF Begun, Greeted
  <2>5. call[p] \notin InitOf(a) => Begun(a)
    BY <1>0, <1>3, <2>2 DEF Lore, Written
  <2>6. QED
    BY <2>1, <2>2, <2>3, <2>4, <2>5
<1>4. Lore(a)'
  <2>1. Silent(a)'
    BY <1>0, NeverUnready DEF Lore, Silent, IInv
  <2>2. Named(a)'
    <3>1. CASE a \in known
      BY <1>0, <1>2, <3>1 DEF Lore, Named
    <3>2. CASE a \in known' /\ a \notin known
      <4>1. PICK p \in Proc : /\ Put(p)
                              /\ envelope[call[p]].to = a
                              /\ envelope[call[p]].kind = "init"
        BY <3>2, KnownStep
      <4>2. call[p] \in InitOf(a)
        BY <1>3, <4>1 DEF InitOf
      <4>3. QED
        BY <1>3, <4>1, <4>2 DEF Named
    <3>3. QED
      BY <3>1, <3>2 DEF Named
  <2>3. Signed(a)' /\ Written(a)' /\ Single(a)'
    BY <1>0, <1>1, <1>2 DEF Lore, Signed, Written, Single
  <2>4. QED
    BY <2>1, <2>2, <2>3 DEF Lore
<1>5. ASSUME pc[a] \in {"select", "requeue"}
      PROVE  Queued(a) \cap InitOf(a) = {}
  <2>1. InHand(a) # {}
    BY <1>0, <1>5 DEF IInv, Placement, WorkerOK, Busy, InHand
  <2>2. QED
    BY <1>0, <2>1 DEF Ahead, Queued, Ids
<1>6. Passed(a)'
  <2>1. CASE Rest(a)
    BY <1>0, <1>1, <2>1 DEF Rest, Passed, Held, Picked
  <2>2. CASE Empty(a)
    BY <1>1, <1>5, <2>2 DEF Empty, Passed
  <2>3. CASE Back(a)
    <3>1. Held(a)' \subseteq Held(a) /\ Picked(a)' = Picked(a)
      BY <1>0, <2>3, TailIds DEF Back, Held, Picked
    <3>2. QED
      BY <1>0, <1>1, <3>1 DEF Passed
  <2>4. CASE UNCHANGED <<held, picked>>
    BY <1>0, <1>1, <2>4 DEF Passed, Held, Picked
  <2>5. QED
    BY <1>0, <2>1, <2>2, <2>3, <2>4, SlotsStep
       DEF Slots, Grow, Delivered, Take, Snap
<1>7. Alone(a)'
  <2> SUFFICES ASSUME Greeted(a)'
               PROVE  AtActor(a)' = {}
    BY DEF Alone
  <2>1. Greeted(a)
    BY <1>0, <1>1 DEF Greeted
  <2>2. AtActor(a) = {}
    BY <1>0, <2>1 DEF Alone
  <2>3. /\ \A i \in DOMAIN mailbox[a] : mailbox[a][i] = Stop
        /\ Held(a) = {} /\ picked[a] = NoMsg /\ cur[a] = NoMsg /\ saved[a] = {}
        /\ Queued(a) = {}
    BY <2>2 DEF AtActor, Queued, Ids, Picked, InHand
  <2>4. saved'[a] = {}
    BY <1>0, <2>3, SavedStep
  <2>5. ASSUME mailbox'[a] = mailbox[a] \/ mailbox'[a] = Append(mailbox[a], Stop),
               held'[a] = held[a],
               picked'[a] = NoMsg, cur'[a] = NoMsg
        PROVE  AtActor(a)' = {}
    <3>1. Queued(a)' = {}
      <4>1. Stop \in Item /\ Stop = NoMsg
        BY RuntimeAssumption DEF Item, Stop, NoMsg
      <4>2. Ids(Append(mailbox[a], Stop)) = Ids(mailbox[a])
        <5>1. Ids(Append(mailbox[a], Stop)) =
                Ids(mailbox[a]) \cup ({Stop} \ {NoMsg})
          BY <1>0, <4>1, AppendIds
        <5>2. QED
          BY <4>1, <5>1
      <4>3. QED
        BY <2>3, <2>5, <4>2 DEF Queued
    <3>2. QED
      BY <2>3, <2>4, <2>5, <3>1 DEF AtActor, Held, Picked, InHand
  <2>6. CASE Rest(a) \/ Grow(a, Stop)
    BY <2>3, <2>5, <2>6 DEF Rest, Grow
  <2>7. ~Delivered(a)
    <3> SUFFICES ASSUME NEW p \in Proc, Put(p), envelope[call[p]].to = a
                 PROVE  FALSE
      BY DEF Delivered
    <3>1. CASE call[p] \in InitOf(a)
      <4>1. Begun(a)'
        BY <1>3, <3>1
      <4>2. QED
        BY <4>1 DEF Begun
    <3>2. CASE call[p] \notin InitOf(a)
      BY <1>3, <2>1, <3>2 DEF Begun
    <3>3. QED
      BY <3>1, <3>2
  <2>8. CASE Take(a) \/ Snap(a)
    <3>1. mailbox[a] # <<>> /\ mailbox'[a] = Tail(mailbox[a])
            /\ UNCHANGED <<held, picked>>
            /\ cur'[a] \in {Head(mailbox[a]), cur[a]}
      BY <2>8 DEF Take, Snap
    <3>2. Head(mailbox[a]) = Stop
      BY <1>0, <2>3, <3>1
    <3>3. Queued(a)' = {}
      BY <1>0, <2>3, <3>1, TailIds DEF Queued
    <3>4. QED
      BY <2>3, <2>4, <3>1, <3>2, <3>3
         DEF AtActor, Held, Picked, InHand, Stop, NoMsg
  <2>9. ~Empty(a) /\ ~Back(a)
    BY <1>0, <2>3 DEF Empty, Back, IInv, Placement, WorkerOK, Busy
  <2>10. QED
    BY <1>0, <2>6, <2>7, <2>8, <2>9, SlotsStep DEF Slots
<1>8. Ahead(a)'
  <2>1. CASE Rest(a)
    BY <1>0, <1>1, <2>1 DEF Rest, Ahead, InHand
  <2>2. CASE Grow(a, Stop)
    <3>1. Stop \notin InitOf(a)
      BY <1>1 DEF Stop, Msg
    <3>2. QED
      BY <1>0, <1>1, <2>2, <3>1 DEF Grow, Ahead, InHand
  <2>3. CASE Delivered(a)
    <3>1. PICK p \in Proc : Put(p) /\ envelope[call[p]].to = a /\ Grow(a, call[p])
      BY <2>3 DEF Delivered
    <3>2. PICK m \in Item : m = call[p]
      BY <3>1 DEF IInv, Types
    <3>3. mailbox'[a] = Append(mailbox[a], m) /\ InHand(a)' = InHand(a)
      BY <3>1, <3>2 DEF Grow, InHand
    <3>4. CASE m \in InitOf(a)
      <4>1. AtActor(a) = {}
        BY <1>3, <3>1, <3>2, <3>4
      <4>2. InHand(a) = {} /\ \A i \in DOMAIN mailbox[a] : mailbox[a][i] = Stop
        BY <4>1 DEF AtActor, Queued, Ids
      <4>3. Stop \notin InitOf(a)
        BY <1>1 DEF Stop, Msg
      <4>4. QED
        BY <1>0, <1>1, <3>3, <4>2, <4>3 DEF Ahead
    <3>5. CASE m \notin InitOf(a)
      <4>1. /\ DOMAIN mailbox[a] = 1 .. Len(mailbox[a])
            /\ DOMAIN mailbox'[a] = 1 .. Len(mailbox[a]) + 1
            /\ \A i \in 1 .. Len(mailbox[a]) : mailbox'[a][i] = mailbox[a][i]
            /\ mailbox'[a][Len(mailbox[a]) + 1] = m
            /\ Len(mailbox[a]) \in Nat
        BY <1>0, <3>2, <3>3
      <4>2. SUFFICES ASSUME NEW i \in DOMAIN mailbox'[a],
                            NEW j \in DOMAIN mailbox'[a],
                            mailbox'[a][i] \in InitOf(a), mailbox'[a][j] # Stop
                     PROVE  i <= j /\ InHand(a)' = {}
        BY <1>1 DEF Ahead
      <4>3. i \in DOMAIN mailbox[a] /\ mailbox[a][i] \in InitOf(a)
        BY <3>5, <4>1, <4>2
      <4>4. mailbox[a][i] # Stop
        BY <1>1, <4>3 DEF Stop, Msg
      <4>5. InHand(a)' = {}
        BY <1>0, <3>3, <4>3, <4>4 DEF Ahead
      <4>6. CASE j \in DOMAIN mailbox[a]
        BY <1>0, <4>1, <4>2, <4>3, <4>5, <4>6 DEF Ahead
      <4>7. CASE j \notin DOMAIN mailbox[a]
        BY <4>1, <4>2, <4>3, <4>5, <4>7
      <4>8. QED
        BY <4>6, <4>7
    <3>6. QED
      BY <3>4, <3>5
  <2>4. CASE Take(a) \/ Snap(a)
    <3>1. mailbox[a] # <<>> /\ mailbox'[a] = Tail(mailbox[a])
            /\ cur'[a] \in {Head(mailbox[a]), cur[a]}
      BY <2>4 DEF Take, Snap
    <3>2. /\ DOMAIN mailbox[a] = 1 .. Len(mailbox[a])
          /\ DOMAIN mailbox'[a] = 1 .. Len(mailbox[a]) - 1
          /\ \A i \in 1 .. Len(mailbox[a]) - 1 : mailbox'[a][i] = mailbox[a][i + 1]
          /\ Len(mailbox[a]) \in Nat \ {0}
          /\ Head(mailbox[a]) = mailbox[a][1]
      BY <1>0, <3>1
    <3>3. SUFFICES ASSUME NEW i \in DOMAIN mailbox'[a], NEW j \in DOMAIN mailbox'[a],
                          mailbox'[a][i] \in InitOf(a), mailbox'[a][j] # Stop
                   PROVE  i <= j /\ InHand(a)' = {}
      BY <1>1 DEF Ahead
    <3>4. /\ i + 1 \in DOMAIN mailbox[a] /\ j + 1 \in DOMAIN mailbox[a]
          /\ mailbox[a][i + 1] \in InitOf(a) /\ mailbox[a][j + 1] # Stop
          /\ 1 \in DOMAIN mailbox[a] /\ i \in Nat /\ j \in Nat /\ ~(i + 1 <= 1)
      BY <3>2, <3>3
    <3>5. i + 1 <= j + 1 /\ InHand(a) = {} /\ mailbox[a][1] = Stop
      BY <1>0, <3>4 DEF Ahead
    <3>6. QED
      BY <3>1, <3>2, <3>4, <3>5 DEF InHand, Stop, NoMsg
  <2>5. CASE Empty(a)
    BY <2>5 DEF Empty, Ahead
  <2>6. CASE Back(a)
    <3>1. Head(held[a]) \notin InitOf(a) /\ Queued(a) \cap InitOf(a) = {}
            /\ mailbox'[a] = Append(mailbox[a], Head(held[a]))
            /\ Head(held[a]) \in Item
      <4>1. Head(held[a]) # Stop => Head(held[a]) \in Held(a)
        BY <1>0, <2>6, TailIds DEF Back, Held
      <4>2. Stop \notin InitOf(a)
        BY <1>1 DEF Stop, Msg
      <4>3. QED
        BY <1>0, <1>5, <2>6, <4>1, <4>2, TailIds DEF Back, Passed
    <3>2. \A i \in DOMAIN mailbox[a] : mailbox[a][i] \notin InitOf(a)
      BY <1>1, <3>1 DEF Queued, Ids, Stop, Msg
    <3>3. \A i \in DOMAIN mailbox'[a] : mailbox'[a][i] \notin InitOf(a)
      BY <1>0, <3>1, <3>2
    <3>4. QED
      BY <1>1, <3>3 DEF Ahead
  <2>7. QED
    BY <1>0, <2>1, <2>2, <2>3, <2>4, <2>5, <2>6, SlotsStep DEF Slots
<1>9. QED
  BY <1>4, <1>6, <1>7, <1>8

LEMMA FirstStep == IInv /\ FirstInv /\ [Next]_vars => FirstInv'
<1> SUFFICES ASSUME IInv, FirstInv, [Next]_vars
             PROVE  FirstInv'
  OBVIOUS
<1>0. /\ known \subseteq Actor /\ Discreet \subseteq Actor /\ Actor \subseteq Proc
      /\ HasInit \subseteq Actor
  BY RuntimeAssumption DEF IInv, Types, Proc, Discreet
<1>1. CASE Quiet
  BY <1>1, QuietFirst
<1>2. CASE Greeting
  BY <1>0, <1>2, OpeningFirst DEF Greeting
<1>3. CASE Posting
  <2>1. \A b \in known : b \in Discreet => Begun(b)
    BY DEF FirstInv, Lore, Named
  <2>2. QED
    BY <1>0, <1>3, <2>1, OpeningFirst DEF Posting
<1>4. CASE Replying
  <2>1. PICK b \in Actor : /\ envelope[cur[b]].sender \in Actor
                           /\ Opening(b, envelope[cur[b]].sender, "past")
    BY <1>4 DEF Replying
  <2>2. cur[b] \in 1 .. sent
    BY <2>1, CurSent DEF Opening, IInv, Placement, WorkerOK, Busy
  <2>3. envelope[cur[b]].sender \in Discreet => Begun(envelope[cur[b]].sender)
    BY <2>2 DEF FirstInv, Lore, Signed
  <2>4. QED
    BY <1>0, <2>1, <2>3, OpeningFirst
<1>5. QED
  BY <1>1, <1>2, <1>3, <1>4, SendsStep DEF Transit

\* An actor whose field initialisers neither send nor hand out self handles its
\* init before any other message (spawn_actor), for any actors, whoever sends to
\* them, selects or stops them, and whatever the other actors give away.
THEOREM InitComesFirst == Spec => []InitFirst
<1>1. Init => FirstInv
  <2> SUFFICES ASSUME Init, NEW a \in Discreet
               PROVE  Lore(a) /\ Passed(a) /\ Alone(a) /\ Ahead(a)
    BY DEF FirstInv
  <2>1. 1 .. sent = {} /\ a \in Actor /\ a \in Proc
    BY RuntimeAssumption DEF Init, Proc, Discreet
  <2>2. InitOf(a) = {} /\ ~Greeted(a)
    BY <2>1 DEF InitOf, Greeted
  <2>3. QED
    BY <2>1, <2>2 DEF Init, Lore, Silent, Named, Signed, Written, Single,
                      Passed, Alone, Ahead
<1>2. IInv /\ FirstInv /\ [Next]_vars => FirstInv'
  BY FirstStep
<1>3. IInv /\ FirstInv => InitFirst
  BY FirstSplit DEF FirstInv
<1>4. QED
  BY <1>1, <1>2, <1>3, Invariance, PTL DEF Spec
=============================================================================
