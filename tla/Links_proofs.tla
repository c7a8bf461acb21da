----------------------------- MODULE Links_proofs -----------------------------
(***************************************************************************)
(* Proofs about the parts in which somebody waits, of MCLinks.             *)
(*                                                                         *)
(* A saga keeps or compensates every step (AllOrNothing), and a quorum     *)
(* answers with no reply that came too late (QuorumAnswer).                *)
(*                                                                         *)
(* The lock of the serial link lets one thread in at a time, in the order  *)
(* of arrival (FairLock).  From that follows who the lines belong to that  *)
(* are on the link, and so that a call returns the answer to its own       *)
(* command (OwnAnswer): an action property, of which the invariant says    *)
(* what is on every socket and in the shared buffer when a line is read.   *)
(*                                                                         *)
(* And all parts together keep their types (LinksTypes).                   *)
(***************************************************************************)
EXTENDS MCLinks, FiniteSetTheorems, TLAPS

-----------------------------------------------------------------------------
(* The saga: completed is 1 .. n, and undone walks it backwards.           *)

UpTo(n) == [i \in 1 .. n |-> i]

SagaTyped ==
  /\ at \in {"body", "join", "undo", "finished", "aborted"}
  /\ step \in Step
  /\ completed \in Seq(Step) /\ undone \in Seq(Step)

WalksBack ==
  /\ Len(undone) <= Len(completed)
  /\ \A j \in 1 .. Len(undone) :
       undone[j] = completed[Len(completed) - j + 1]

SagaInv ==
  /\ SagaTyped
  /\ completed = UpTo(IF at = "finished" THEN Steps ELSE step - 1)
  /\ at \in {"body", "join", "finished"} => undone = <<>>
  /\ at \in {"undo", "aborted"} => WalksBack
  /\ at = "aborted" => Len(undone) = Len(completed)

\* One more completed step.
LEMMA OneMore ==
  ASSUME NEW n \in Nat
  PROVE  Append(UpTo(n), n + 1) = UpTo(n + 1) /\ Len(UpTo(n)) = n
<1> DEFINE s == UpTo(n)
           t == Append(s, n + 1)
<1>1. s \in Seq(Nat) /\ Len(s) = n /\ \A i \in 1 .. n : s[i] = i
  BY DEF UpTo
<1> HIDE DEF s
<1>2. /\ t \in Seq(Nat) /\ Len(t) = n + 1 /\ t[n + 1] = n + 1
      /\ \A i \in 1 .. n : t[i] = s[i]
  BY <1>1
<1> HIDE DEF t
<1>3. DOMAIN t = 1 .. n + 1 /\ t = [i \in 1 .. n + 1 |-> t[i]]
  BY <1>2
<1>4. \A i \in 1 .. n + 1 : t[i] = i
  BY <1>1, <1>2
<1>5. t = UpTo(n + 1)
  BY <1>3, <1>4 DEF UpTo
<1>6. QED
  BY <1>1, <1>5 DEF s, t

\* One step of the walk back.
LEMMA OneBack ==
  ASSUME WalksBack, Len(undone) < Len(completed),
         completed \in Seq(Step), undone \in Seq(Step),
         undone' = Append(undone, completed[Len(completed) - Len(undone)]),
         completed' = completed
  PROVE  WalksBack' /\ undone' \in Seq(Step)
<1> DEFINE m == Len(completed)
           n == Len(undone)
<1>1. m \in Nat /\ n \in Nat /\ n < m /\ m - n \in 1 .. m
  OBVIOUS
<1>2. completed[m - n] \in Step
  BY <1>1
<1>3. /\ undone' \in Seq(Step) /\ Len(undone') = n + 1
      /\ undone'[n + 1] = completed[m - n]
      /\ \A j \in 1 .. n : undone'[j] = undone[j]
  BY <1>2
<1>4. ASSUME NEW j \in 1 .. n + 1
      PROVE  undone'[j] = completed[m - j + 1]
  <2>1. CASE j = n + 1
    <3>1. m - (n + 1) + 1 = m - n
      BY <1>1
    <3>2. QED
      BY <1>3, <2>1, <3>1
  <2>2. CASE j \in 1 .. n
    BY <1>3, <2>2 DEF WalksBack
  <2>3. QED
    BY <1>1, <2>1, <2>2
<1>5. QED
  BY <1>1, <1>3, <1>4 DEF WalksBack

LEMMA SagaStep == SagaInv /\ [SagaNext]_sagaVars => SagaInv'
<1> SUFFICES ASSUME SagaInv, [SagaNext]_sagaVars
             PROVE  SagaInv'
  OBVIOUS
<1> USE SagaAssumption
<1>1. Steps \in Nat /\ step \in 1 .. Steps /\ step - 1 \in Nat
      /\ step - 1 + 1 = step /\ step + 1 - 1 = step
  BY DEF SagaInv, SagaTyped, Step
<1>2. CASE UNCHANGED <<at, step, completed, undone>>
  BY <1>2 DEF SagaInv, SagaTyped, WalksBack
<1>3. CASE \E e \in {"normal", "raised", "returned"} : EndBody(e)
  BY <1>3 DEF SagaInv, SagaTyped, EndBody
<1>4. CASE LeaveScope
  <2>1. completed = UpTo(step - 1) /\ undone = <<>>
    BY <1>4 DEF SagaInv, LeaveScope, EndStep
  <2>2. Append(completed, step) = UpTo(step)
    BY <1>1, <2>1, OneMore
  <2>3. Append(completed, step) \in Seq(Step)
    BY DEF SagaInv, SagaTyped
  <2>4. CASE ending = "normal" /\ step = Steps
    BY <1>4, <2>1, <2>2, <2>3, <2>4 DEF SagaInv, SagaTyped, LeaveScope, EndStep
  <2>5. CASE ending = "normal" /\ step # Steps
    <3>1. step + 1 \in Step
      BY <1>1, <2>5 DEF Step
    <3>2. /\ at' = "body" /\ step' = step + 1 /\ undone' = <<>>
          /\ completed' = UpTo(step' - 1) /\ completed' \in Seq(Step)
      BY <1>1, <1>4, <2>1, <2>2, <2>3, <2>5 DEF LeaveScope, EndStep
    <3>3. QED
      BY <3>1, <3>2 DEF SagaInv, SagaTyped
  <2>6. CASE ending # "normal"
    <3>1. at' = "undo" /\ UNCHANGED <<step, completed, undone>>
      BY <1>4, <2>6 DEF LeaveScope, EndStep
    <3>2. Len(undone) = 0 /\ Len(completed) \in Nat
      BY <2>1 DEF SagaInv, SagaTyped
    <3>3. WalksBack'
      BY <3>1, <3>2 DEF WalksBack
    <3>4. QED
      BY <2>1, <3>1, <3>3 DEF SagaInv, SagaTyped
  <2>7. QED
    BY <2>4, <2>5, <2>6
<1>5. CASE Compensate
  <2>1. WalksBack /\ completed \in Seq(Step) /\ undone \in Seq(Step)
        /\ Len(undone) < Len(completed) /\ at = "undo"
        /\ undone' = Append(undone, completed[Len(completed) - Len(undone)])
        /\ UNCHANGED <<at, step, completed>>
    BY <1>5 DEF SagaInv, SagaTyped, Compensate
  <2>2. WalksBack' /\ undone' \in Seq(Step)
    BY <2>1, OneBack
  <2>3. QED
    BY <2>1, <2>2 DEF SagaInv, SagaTyped
<1>6. CASE Reraise
  BY <1>6 DEF SagaInv, SagaTyped, WalksBack, Reraise
<1>7. QED
  BY <1>2, <1>3, <1>4, <1>5, <1>6
     DEF SagaNext, SagaActor, StartTask, RunTask, SettleTask, sagaVars

LEMMA SagaStarts == SagaInit => SagaInv
<1> SUFFICES ASSUME SagaInit
             PROVE  SagaInv
  OBVIOUS
<1>1. UpTo(0) = <<>>
  BY DEF UpTo
<1>2. 1 \in Step
  BY SagaAssumption DEF Step
<1>3. QED
  BY <1>1, <1>2 DEF SagaInit, SagaInv, SagaTyped

\* A saga that is over has kept all its steps, or has compensated those that
\* completed, the last first: of any number of steps.
THEOREM SagaAllOrNothing == SagaSpec => []AllOrNothing
<1>1. SagaInit => SagaInv
  BY SagaStarts
<1>2. SagaInv => AllOrNothing
  <2> SUFFICES ASSUME SagaInv PROVE AllOrNothing
    OBVIOUS
  <2>1. ASSUME at = "finished"
        PROVE  undone = <<>> /\ completed = [i \in Step |-> i]
    BY <2>1 DEF SagaInv, UpTo, Step
  <2>2. ASSUME at = "aborted"
        PROVE  /\ undone = Reverse(completed)
               /\ completed = [i \in 1 .. step - 1 |-> i]
    <3>1. completed = [i \in 1 .. step - 1 |-> i]
      BY <2>2 DEF SagaInv, UpTo
    <3>2. /\ undone \in Seq(Step) /\ completed \in Seq(Step)
          /\ Len(undone) = Len(completed)
          /\ \A j \in 1 .. Len(undone) :
               undone[j] = completed[Len(completed) - j + 1]
      BY <2>2 DEF SagaInv, SagaTyped, WalksBack
    <3>3. undone = [j \in 1 .. Len(undone) |-> undone[j]]
      BY <3>2
    <3>4. undone = [j \in 1 .. Len(completed)
                      |-> completed[(Len(completed) - j) + 1]]
      BY <3>2, <3>3
    <3>5. QED
      BY <3>1, <3>4 DEF Reverse
  <2>3. QED
    BY <2>1, <2>2 DEF AllOrNothing
<1>3. QED
  BY <1>1, <1>2, SagaStep, PTL DEF SagaSpec

-----------------------------------------------------------------------------
(* The quorum: what each thread has still to do, and what that says of the *)
(* box.  A reply that came too late is stopped by TestFirst, since done is *)
(* never reset: no thread that goes on to write is tardy.                  *)

QuorumTyped ==
  /\ thread \in [Providers ->
       {"calling", "replied", "first", "valued", "won", "ending", "ended"}]
  /\ value \in Box /\ winner \in Box
  /\ errors \subseteq Providers /\ tardy \subseteq Providers
  /\ done \in BOOLEAN
  /\ caller \in {"waiting", "joining", "returned", "raised"}

\* What the thread of p may still do to the box.
ThreadInv(p) ==
  /\ thread[p] = "calling" => p \notin errors \cup tardy /\ value # p
  /\ thread[p] = "replied" =>
       p \notin errors /\ value # p /\ (p \in tardy => done)
  /\ thread[p] \in {"first", "valued", "won"} => p \notin errors \cup tardy
  /\ value = p => p \notin errors \cup tardy
  /\ thread[p] \in {"valued", "won"} => value # NoProvider
  /\ thread[p] = "won" => winner # NoProvider
  /\ thread[p] \in {"ending", "ended"} => p \in errors \/ winner # NoProvider

QuorumInv ==
  /\ QuorumTyped
  /\ \A p \in Providers : ThreadInv(p)
  /\ done => winner # NoProvider
  /\ winner # NoProvider => value # NoProvider
  /\ caller = "raised" => AllDone /\ winner = NoProvider
  /\ caller = "returned" => winner # NoProvider

LEMMA QuorumKept == QuorumInv /\ [QuorumNext]_quorumVars => QuorumInv'
<1> SUFFICES ASSUME QuorumInv, [QuorumNext]_quorumVars
             PROVE  QuorumInv'
  OBVIOUS
<1> USE QuorumAssumption
<1>1. CASE UNCHANGED quorumVars
  BY <1>1 DEF quorumVars, QuorumInv, QuorumTyped, ThreadInv, AllDone
<1>2. ASSUME NEW p \in Providers, ReplyArrives(p)
      PROVE  QuorumInv'
  BY <1>2 DEF ReplyArrives, Goes, QuorumInv, QuorumTyped, ThreadInv, AllDone, Box
<1>3. ASSUME NEW p \in Providers, CallFails(p)
      PROVE  QuorumInv'
  BY <1>3 DEF CallFails, Goes, QuorumInv, QuorumTyped, ThreadInv, AllDone, Box
<1>4. ASSUME NEW p \in Providers, TestFirst(p)
      PROVE  QuorumInv'
  BY <1>4 DEF TestFirst, Goes, QuorumInv, QuorumTyped, ThreadInv, AllDone, Box
<1>5. ASSUME NEW p \in Providers, PutValue(p)
      PROVE  QuorumInv'
  BY <1>5 DEF PutValue, Goes, QuorumInv, QuorumTyped, ThreadInv, AllDone, Box
<1>6. ASSUME NEW p \in Providers, PutWinner(p)
      PROVE  QuorumInv'
  BY <1>6 DEF PutWinner, Goes, QuorumInv, QuorumTyped, ThreadInv, AllDone, Box
<1>7. ASSUME NEW p \in Providers, SetDone(p)
      PROVE  QuorumInv'
  BY <1>7 DEF SetDone, Goes, QuorumInv, QuorumTyped, ThreadInv, AllDone, Box
<1>8. ASSUME NEW p \in Providers, EndThread(p)
      PROVE  QuorumInv'
  BY <1>8 DEF EndThread, Goes, QuorumInv, QuorumTyped, ThreadInv, AllDone, Box
<1>9. CASE StopWaiting
  BY <1>9 DEF StopWaiting, QuorumInv, QuorumTyped, ThreadInv, AllDone
<1>10. CASE Join
  BY <1>10 DEF Join, QuorumInv, QuorumTyped, ThreadInv, AllDone
<1>11. QED
  BY <1>1, <1>2, <1>3, <1>4, <1>5, <1>6, <1>7, <1>8, <1>9, <1>10
     DEF QuorumNext, QuorumStep

LEMMA QuorumStarts == QuorumInit => QuorumInv
  BY QuorumAssumption
     DEF QuorumInit, QuorumInv, QuorumTyped, ThreadInv, AllDone, Box

\* A quorum raises only when every provider has failed, and never returns a
\* reply that came after another was announced: for any providers.
THEOREM QuorumAnswers == QuorumSpec => []QuorumAnswer
<1>1. QuorumInit => QuorumInv
  BY QuorumStarts
<1>2. QuorumInv => QuorumAnswer
  BY QuorumAssumption
     DEF QuorumInv, QuorumTyped, ThreadInv, AllDone, Box, QuorumAnswer
<1>3. QED
  BY <1>1, <1>2, QuorumKept, PTL DEF QuorumSpec

-----------------------------------------------------------------------------
(* The lock of the serial link: its queue holds, once each, the threads    *)
(* that wait or are on the wire; only its head may be let in; and who was  *)
(* ahead when a thread came stands in front of it.                         *)

Stages == {"idle", "opening", "greeting", "ready", "queued",
           "inside", "reading", "draining"}

Places == 1 .. Len(queue)

UartTyped ==
  /\ stage \in [Threads -> Stages]
  /\ queue \in Seq(Threads)
  /\ event \in [Threads -> BOOLEAN]
  /\ ahead \subseteq Threads \X Threads

InQueue ==
  /\ \A i, j \in Places : queue[i] = queue[j] => i = j
  /\ \A t \in Threads :
       t \in OnWire \cup Waiting <=> \E i \in Places : queue[i] = t

OthersWait ==
  \A i \in Places : i > 1 => stage[queue[i]] = "queued" /\ ~event[queue[i]]

AheadInFront ==
  \A u, t \in Threads : <<u, t>> \in ahead =>
    \E i, j \in Places : i < j /\ queue[i] = u /\ queue[j] = t

UartInv == UartTyped /\ InQueue /\ OthersWait /\ AheadInFront

\* Who is on the wire, or has been let in, is the head of the queue.
LEMMA HeadOnly ==
  ASSUME UartInv, NEW t \in Threads,
         t \in OnWire \/ (t \in Waiting /\ event[t])
  PROVE  queue # <<>> /\ queue[1] = t /\ Head(queue) = t
<1>1. PICK i \in Places : queue[i] = t
  BY DEF UartInv, InQueue
<1>2. queue \in Seq(Threads) /\ Len(queue) \in Nat /\ i \in 1 .. Len(queue)
  BY DEF UartInv, UartTyped, Places
<1>3. i = 1
  <2>1. ASSUME i > 1 PROVE FALSE
    <3>1. stage[t] = "queued" /\ ~event[t]
      BY <1>1, <2>1 DEF UartInv, OthersWait
    <3>2. QED
      BY <3>1 DEF OnWire
  <2>2. QED
    BY <1>2, <2>1
<1>4. QED
  BY <1>1, <1>2, <1>3

\* A thread that stays in its class leaves the queue as it is.
LEMMA StaysPut ==
  ASSUME UartInv, stage' \in [Threads -> Stages], UNCHANGED <<queue, event, ahead>>,
         OnWire' \cup Waiting' = OnWire \cup Waiting,
         \A t \in Threads : stage[t] = "queued" /\ ~event[t]
                              => stage'[t] = "queued"
  PROVE  UartInv'
<1>1. \A i \in Places : queue[i] \in Threads
  BY DEF UartInv, UartTyped, Places
<1>2. OthersWait'
  BY <1>1 DEF UartInv, OthersWait, Places
<1>3. InQueue' /\ AheadInFront' /\ UartTyped'
  BY DEF UartInv, InQueue, AheadInFront, UartTyped, Places
<1>4. QED
  BY <1>2, <1>3 DEF UartInv

LEMMA EnterKeeps ==
  ASSUME UartInv, NEW t \in Threads, Enter(t)
  PROVE  UartInv'
<1> DEFINE n == Len(queue)
<1>1. /\ queue \in Seq(Threads) /\ n \in Nat
      /\ stage[t] = "ready" /\ stage' = [stage EXCEPT ![t] = "queued"]
      /\ queue' = Append(queue, t)
      /\ ahead' = ahead \cup ((OnWire \cup Waiting) \X {t})
      /\ event' = [event EXCEPT ![t] = Len(queue') = 1]
  BY DEF UartInv, UartTyped, Enter, Moves
<1>2. /\ queue' \in Seq(Threads) /\ Len(queue') = n + 1 /\ queue'[n + 1] = t
      /\ \A i \in 1 .. n : queue'[i] = queue[i] /\ queue[i] \in Threads
  BY <1>1
<1>3. Places = 1 .. n /\ Places' = 1 .. n + 1
      /\ Places' = Places \cup {n + 1} /\ n + 1 \notin Places
      /\ \A i \in Places : i < n + 1
  BY <1>1, <1>2 DEF Places
<1> HIDE DEF n
<1>4. \A i \in Places : queue[i] # t /\ queue'[i] = queue[i]
                        /\ queue[i] \in Threads
  <2>1. t \notin OnWire \cup Waiting
    BY <1>1 DEF OnWire, Waiting
  <2>2. QED
    BY <1>2, <1>3, <2>1 DEF UartInv, InQueue
<1>5. OnWire' \cup Waiting' = OnWire \cup Waiting \cup {t}
  BY <1>1 DEF OnWire, Waiting, UartInv, UartTyped, Stages
<1>6. UartTyped'
  <2>1. stage' \in [Threads -> Stages]
    BY <1>1 DEF UartInv, UartTyped, Stages
  <2>2. (Len(queue') = 1) \in BOOLEAN
    OBVIOUS
  <2>3. event' \in [Threads -> BOOLEAN]
    BY <1>1, <2>2 DEF UartInv, UartTyped
  <2>4. ahead' \subseteq Threads \X Threads
    BY <1>1 DEF UartInv, UartTyped, OnWire, Waiting
  <2>5. QED
    BY <1>2, <2>1, <2>3, <2>4 DEF UartTyped
<1>7. InQueue'
  <2>1. \A i, j \in Places' : queue'[i] = queue'[j] => i = j
    BY <1>2, <1>3, <1>4 DEF UartInv, InQueue
  <2>2. ASSUME NEW u \in Threads
        PROVE  u \in OnWire' \cup Waiting' <=> \E i \in Places' : queue'[i] = u
    <3>1. u \in OnWire \cup Waiting <=> \E i \in Places : queue[i] = u
      BY DEF UartInv, InQueue
    <3>2. QED
      BY <1>2, <1>3, <1>4, <1>5, <3>1
  <2>3. QED
    BY <2>1, <2>2 DEF InQueue
<1>8. OthersWait'
  <2>1. ASSUME NEW i \in Places', i > 1
        PROVE  stage'[queue'[i]] = "queued" /\ ~event'[queue'[i]]
    <3>1. CASE i = n + 1
      <4>1. n + 1 # 1
        BY <2>1, <3>1
      <4>2. event'[t] = (Len(queue') = 1)
        BY <1>1 DEF UartInv, UartTyped
      <4>3. stage'[t] = "queued"
        BY <1>1 DEF UartInv, UartTyped
      <4>4. QED
        BY <1>2, <3>1, <4>1, <4>2, <4>3
    <3>2. CASE i \in Places
      <4>1. queue'[i] = queue[i] /\ queue[i] # t
        BY <1>4, <3>2
      <4>2. stage[queue[i]] = "queued" /\ ~event[queue[i]]
        BY <2>1, <3>2 DEF UartInv, OthersWait
      <4>3. QED
        BY <1>1, <1>4, <3>2, <4>1, <4>2 DEF UartInv, UartTyped
    <3>3. QED
      BY <1>3, <3>1, <3>2
  <2>2. QED
    BY <2>1 DEF OthersWait
<1>9. AheadInFront'
  <2>1. ASSUME NEW u \in Threads, NEW v \in Threads, <<u, v>> \in ahead'
        PROVE  \E i, j \in Places' : i < j /\ queue'[i] = u /\ queue'[j] = v
    <3>1. CASE <<u, v>> \in ahead
      <4>1. PICK i \in Places, j \in Places :
              i < j /\ queue[i] = u /\ queue[j] = v
        BY <3>1 DEF UartInv, AheadInFront
      <4>2. QED
        BY <1>3, <1>4, <4>1
    <3>2. CASE u \in OnWire \cup Waiting /\ v = t
      <4>1. PICK i \in Places : queue[i] = u
        BY <3>2 DEF UartInv, InQueue
      <4>2. QED
        BY <1>2, <1>3, <1>4, <3>2, <4>1
    <3>3. QED
      BY <1>1, <2>1, <3>1, <3>2
  <2>2. QED
    BY <2>1 DEF AheadInFront
<1>10. QED
  BY <1>6, <1>7, <1>8, <1>9 DEF UartInv

LEMMA ExitKeeps ==
  ASSUME UartInv, NEW t \in Threads, t \in OnWire, Exit(t)
  PROVE  UartInv'
<1> DEFINE n == Len(queue)
<1>1. /\ queue \in Seq(Threads) /\ n \in Nat /\ queue # <<>> /\ queue[1] = t
      /\ stage' = [stage EXCEPT ![t] = "idle"]
      /\ queue' = Tail(queue)
      /\ event' = IF queue' = <<>> THEN event
                                   ELSE [event EXCEPT ![Head(queue')] = TRUE]
      /\ ahead' = {p \in ahead : p[1] # t /\ p[2] # t}
  BY HeadOnly DEF UartInv, UartTyped, Exit
<1>2. /\ queue' \in Seq(Threads) /\ n >= 1 /\ Len(queue') = n - 1
      /\ \A i \in 1 .. n - 1 : queue'[i] = queue[i + 1]
      /\ \A i \in 1 .. n : queue[i] \in Threads
  BY <1>1
<1>3. /\ Places = 1 .. n /\ Places' = 1 .. n - 1
      /\ \A i \in Places' : i + 1 \in Places /\ i + 1 > 1
                            /\ queue'[i] = queue[i + 1]
      /\ \A i \in Places : i > 1 => i - 1 \in Places' /\ queue'[i - 1] = queue[i]
      /\ 1 \in Places
  <2>1. /\ Places = 1 .. n /\ Places' = 1 .. n - 1 /\ 1 \in Places
        /\ \A i \in Places' : i + 1 \in Places /\ i + 1 > 1
                              /\ queue'[i] = queue[i + 1]
    BY <1>1, <1>2 DEF Places
  <2>2. ASSUME NEW i \in Places, i > 1
        PROVE  i - 1 \in Places' /\ queue'[i - 1] = queue[i]
    <3>1. i - 1 \in 1 .. n - 1 /\ (i - 1) + 1 = i
      BY <1>1, <2>1, <2>2
    <3>2. QED
      BY <1>2, <2>1, <3>1
  <2>3. QED
    BY <2>1, <2>2
<1> HIDE DEF n
<1>4. \A i \in Places : i > 1 => queue[i] # t
  BY <1>1, <1>3 DEF UartInv, InQueue
<1>5. OnWire' \cup Waiting' = (OnWire \cup Waiting) \ {t}
  BY <1>1 DEF OnWire, Waiting, UartInv, UartTyped, Stages
<1>6. UartTyped'
  <2>1. stage' \in [Threads -> Stages]
    BY <1>1 DEF UartInv, UartTyped, Stages
  <2>2. event' \in [Threads -> BOOLEAN]
    BY <1>1 DEF UartInv, UartTyped
  <2>3. ahead' \subseteq Threads \X Threads
    BY <1>1 DEF UartInv, UartTyped
  <2>4. QED
    BY <1>2, <2>1, <2>2, <2>3 DEF UartTyped
<1>7. InQueue'
  <2>1. ASSUME NEW i \in Places', NEW j \in Places', queue'[i] = queue'[j]
        PROVE  i = j
    <3>1. i + 1 = j + 1
      BY <1>3, <2>1 DEF UartInv, InQueue
    <3>2. QED
      BY <1>3, <3>1
  <2>2. ASSUME NEW u \in Threads
        PROVE  u \in OnWire' \cup Waiting' <=> \E i \in Places' : queue'[i] = u
    <3>1. u \in OnWire \cup Waiting <=> \E i \in Places : queue[i] = u
      BY DEF UartInv, InQueue
    <3>2. ASSUME u \in OnWire' \cup Waiting'
          PROVE  \E i \in Places' : queue'[i] = u
      <4>1. PICK i \in Places : queue[i] = u
        BY <1>5, <3>1, <3>2
      <4>2. i > 1
        BY <1>1, <1>3, <1>5, <3>2, <4>1
      <4>3. QED
        BY <1>3, <4>1, <4>2
    <3>3. ASSUME NEW i \in Places', queue'[i] = u
          PROVE  u \in OnWire' \cup Waiting'
      <4>1. queue[i + 1] = u /\ i + 1 \in Places /\ u # t
        BY <1>3, <1>4, <3>3
      <4>2. QED
        BY <1>5, <3>1, <4>1
    <3>4. QED
      BY <3>2, <3>3
  <2>3. QED
    BY <2>1, <2>2 DEF InQueue
<1>8. OthersWait'
  <2>1. ASSUME NEW i \in Places', i > 1
        PROVE  stage'[queue'[i]] = "queued" /\ ~event'[queue'[i]]
    <3>1. /\ i + 1 \in Places /\ i + 1 > 1 /\ queue'[i] = queue[i + 1]
          /\ queue[i + 1] \in Threads
      BY <1>2, <1>3
    <3>2. queue[i + 1] # t
      BY <1>4, <3>1
    <3>3. stage[queue[i + 1]] = "queued" /\ ~event[queue[i + 1]]
      BY <3>1 DEF UartInv, OthersWait
    <3>4. queue' # <<>> /\ 1 \in Places' /\ Head(queue') = queue'[1]
      BY <1>2, <1>3
    <3>5. queue'[1] # queue'[i]
      BY <1>7, <2>1, <3>4 DEF InQueue
    <3>6. event'[queue'[i]] = event[queue'[i]]
      BY <1>1, <3>1, <3>4, <3>5 DEF UartInv, UartTyped
    <3>7. QED
      BY <1>1, <3>1, <3>2, <3>3, <3>6 DEF UartInv, UartTyped
  <2>2. QED
    BY <2>1 DEF OthersWait
<1>9. AheadInFront'
  <2>1. ASSUME NEW u \in Threads, NEW v \in Threads, <<u, v>> \in ahead'
        PROVE  \E i, j \in Places' : i < j /\ queue'[i] = u /\ queue'[j] = v
    <3>1. <<u, v>> \in ahead /\ u # t /\ v # t
      BY <1>1, <2>1
    <3>2. PICK i \in Places, j \in Places :
            i < j /\ queue[i] = u /\ queue[j] = v
      BY <3>1 DEF UartInv, AheadInFront
    <3>3. i > 1 /\ j > 1
      BY <1>1, <1>3, <3>1, <3>2
    <3>4. i - 1 < j - 1
      BY <1>3, <3>2
    <3>5. QED
      BY <1>3, <3>2, <3>3, <3>4
  <2>2. QED
    BY <2>1 DEF AheadInFront
<1>10. QED
  BY <1>6, <1>7, <1>8, <1>9 DEF UartInv

LEMMA UartKept == UartInv /\ [UartNext]_uartVars => UartInv'
<1> SUFFICES ASSUME UartInv, [UartNext]_uartVars
             PROVE  UartInv'
  OBVIOUS
<1>t. stage \in [Threads -> Stages]
  BY DEF UartInv, UartTyped
<1>1. CASE UNCHANGED <<stage, queue, event, ahead>>
  <2>1. OnWire' \cup Waiting' = OnWire \cup Waiting
    BY <1>1 DEF OnWire, Waiting
  <2>2. QED
    BY <1>t, <1>1, <2>1, StaysPut
\* What a thread does before it comes to the lock, or while it is inside.
<1>m. ASSUME NEW t \in Threads, UNCHANGED <<queue, event, ahead>>,
             NEW x \in Stages, stage' = [stage EXCEPT ![t] = x],
             \/ /\ stage[t] \in {"idle", "opening", "greeting"}
                /\ x \in {"idle", "opening", "greeting", "ready"}
             \/ /\ stage[t] \in {"inside", "reading"}
                /\ x \in {"reading", "draining"}
      PROVE  UartInv'
  <2>1. /\ stage' \in [Threads -> Stages]
        /\ OnWire' \cup Waiting' = OnWire \cup Waiting
        /\ \A u \in Threads : stage[u] = "queued" => stage'[u] = "queued"
    BY <1>t, <1>m DEF OnWire, Waiting, Stages
  <2>2. QED
    BY <1>m, <2>1, StaysPut
<1>2. ASSUME NEW t \in Threads, GetSocket(t)
      PROVE  UartInv'
  <2>1. /\ stage[t] = "idle" /\ UNCHANGED <<queue, event, ahead>>
        /\ \/ stage' = [stage EXCEPT ![t] = "opening"]
           \/ stage' = [stage EXCEPT ![t] = "ready"]
    BY <1>2 DEF GetSocket, Moves, lock
  <2>2. QED
    BY <1>m, <2>1 DEF Stages
<1>3. ASSUME NEW t \in Threads, OpenSocket(t) \/ OpenFails(t) \/ DropGreeting(t)
      PROVE  UartInv'
  <2>1. /\ UNCHANGED <<queue, event, ahead>>
        /\ stage[t] \in {"opening", "greeting"}
        /\ \/ stage' = [stage EXCEPT ![t] = "greeting"]
           \/ stage' = [stage EXCEPT ![t] = "idle"]
           \/ stage' = [stage EXCEPT ![t] = "ready"]
    BY <1>3 DEF OpenSocket, OpenFails, DropGreeting, Moves, lock
  <2>2. QED
    BY <1>m, <2>1 DEF Stages
<1>4. ASSUME NEW t \in Threads, GoIn(t)
      PROVE  UartInv'
  <2>1. /\ stage[t] = "queued" /\ event[t] /\ UNCHANGED <<queue, event, ahead>>
        /\ stage' = [stage EXCEPT ![t] = "inside"]
    BY <1>4 DEF GoIn, Moves, lock
  <2>2. /\ stage' \in [Threads -> Stages]
        /\ OnWire' \cup Waiting' = OnWire \cup Waiting
        /\ \A u \in Threads : stage[u] = "queued" /\ ~event[u]
                                => stage'[u] = "queued"
    BY <1>t, <2>1 DEF OnWire, Waiting, Stages
  <2>3. QED
    BY <2>1, <2>2, StaysPut
<1>5. ASSUME NEW t \in Threads, SendCommand(t)
      PROVE  UartInv'
  <2>1. /\ stage[t] = "inside" /\ UNCHANGED <<queue, event, ahead>>
        /\ stage' = [stage EXCEPT ![t] = "reading"]
    BY <1>5 DEF SendCommand, Moves, lock
  <2>2. QED
    BY <1>m, <2>1 DEF Stages
<1>6. ASSUME NEW t \in Threads, stage[t] = "reading",
             stage' = [stage EXCEPT ![t] = "draining"], UNCHANGED lock
      PROVE  UartInv'
  BY <1>6, <1>m DEF Stages, lock
<1>7. ASSUME NEW t \in Threads,
             \/ SendFails(t) \/ ReadLine(t) \/ DrainLine(t)
             \/ ReadEnd(t) \/ GiveUp(t)
      PROVE  UartInv'
  <2>1. t \in OnWire
    BY <1>7 DEF SendFails, ReadLine, DrainLine, ReadEnd, GiveUp, OnWire
  <2>2. \/ Exit(t)
        \/ /\ stage[t] = "reading" /\ UNCHANGED lock
           /\ stage' = [stage EXCEPT ![t] = "draining"]
        \/ UNCHANGED <<stage, queue, event, ahead>>
    BY <1>7 DEF SendFails, ReadLine, DrainLine, ReadEnd, GiveUp, Moves, lock
  <2>3. QED
    BY <1>1, <1>6, <2>1, <2>2, ExitKeeps
<1>8. QED
  BY <1>1, <1>2, <1>3, <1>4, <1>5, <1>7, EnterKeeps
     DEF UartNext, Receive, Device, Close, uartVars, lock

LEMMA UartStartsInOrder == UartInit => UartInv
<1> SUFFICES ASSUME UartInit
             PROVE  UartInv
  OBVIOUS
<1>1. stage = [t \in Threads |-> "idle"] /\ queue = <<>> /\ ahead = {}
      /\ event = [t \in Threads |-> FALSE]
  BY DEF UartInit
<1>2. Places = {} /\ OnWire \cup Waiting = {}
  BY <1>1 DEF Places, OnWire, Waiting
<1>3. UartTyped
  BY <1>1 DEF UartTyped, Stages
<1>4. QED
  BY <1>1, <1>2, <1>3 DEF UartInv, InQueue, OthersWait, AheadInFront

\* One thread at a time is on the wire, and nobody who was there first still
\* waits: for any number of threads and of sockets.
THEOREM UartFairLock == UartSpec => []FairLock
<1>1. UartInit => UartInv
  BY UartStartsInOrder
<1>2. UartInv => FairLock
  <2> SUFFICES ASSUME UartInv PROVE FairLock
    OBVIOUS
  <2>1. \A t \in OnWire : t \in Threads /\ queue[1] = t
    BY HeadOnly DEF OnWire
  <2>2. ASSUME NEW t \in OnWire, NEW u \in Threads, <<u, t>> \in ahead
        PROVE  FALSE
    <3>1. PICK i \in Places, j \in Places :
            i < j /\ queue[i] = u /\ queue[j] = t
      BY <2>1, <2>2 DEF UartInv, AheadInFront
    <3>2. j > 1
      BY <3>1 DEF UartInv, UartTyped, Places
    <3>3. stage[t] = "queued"
      BY <3>1, <3>2 DEF UartInv, OthersWait
    <3>4. QED
      BY <3>3 DEF OnWire
  <2>3. QED
    BY <2>1, <2>2 DEF FairLock
<1>3. QED
  BY <1>1, <1>2, UartKept, PTL DEF UartSpec

-----------------------------------------------------------------------------
(* The sockets of the serial link: no thread opens one when there is one   *)
(* in the cache, so there are no more of them than threads; who has gone   *)
(* on from there has one; and the one on which a thread waits for the      *)
(* greeting is nobody else's.                                              *)

Openers  == {t \in Threads : stage[t] = "opening"}
Greeters == {t \in Threads : stage[t] = "greeting"}

OwnSocket(t) ==
  /\ cached # conn[t]
  /\ \A u \in Threads : u # t => conn[u] # conn[t]

SocketsInv ==
  /\ UartTypes
  /\ opened + Cardinality(Openers) <= Cardinality(Threads)
  /\ cached = 0 => opened <= Cardinality(Greeters)
  /\ cached <= opened /\ \A t \in Threads : conn[t] <= opened
  /\ \A t \in Threads : stage[t] \notin {"idle", "opening"} => conn[t] \in Sockets
  /\ \A t \in Threads : stage[t] = "greeting" => OwnSocket(t)
  /\ \A s \in closed : s <= opened /\ sent[s] = <<>>

LEMMA SomeFinite ==
  ASSUME NEW S, S \subseteq Threads
  PROVE  /\ IsFiniteSet(S) /\ Cardinality(S) \in Nat
         /\ Cardinality(Threads) \in Nat
         /\ Cardinality(S) <= Cardinality(Threads)
  BY UartAssumption, FS_Subset, FS_CardinalityType

LEMMA Apart ==
  ASSUME NEW S, S \subseteq Threads, NEW T, T \subseteq Threads, S \cap T = {}
  PROVE  Cardinality(S) + Cardinality(T) <= Cardinality(Threads)
<1>1. IsFiniteSet(S) /\ IsFiniteSet(T)
  BY SomeFinite
<1>2. Cardinality(S \cup T) = Cardinality(S) + Cardinality(T)
  <2>1. Cardinality(S \cap T) = 0
    BY FS_EmptySet
  <2>2. Cardinality(S \cup T)
          = Cardinality(S) + Cardinality(T) - Cardinality(S \cap T)
    BY <1>1, FS_Union
  <2>3. Cardinality(S) \in Nat /\ Cardinality(T) \in Nat
    BY SomeFinite
  <2>4. QED
    BY <2>1, <2>2, <2>3
<1>3. Cardinality(S \cup T) <= Cardinality(Threads)
  <2>1. S \cup T \subseteq Threads
    OBVIOUS
  <2>2. QED
    BY <2>1, SomeFinite
<1>4. QED
  BY <1>2, <1>3

LEMMA SocketNumbers ==
  ASSUME SocketsInv
  PROVE  /\ Cardinality(Threads) \in Nat /\ opened \in Nat /\ cached \in Nat
         /\ Sockets = 1 .. Cardinality(Threads)
         /\ \A t \in Threads : conn[t] \in Nat
         /\ Cardinality(Openers) \in Nat /\ Cardinality(Greeters) \in Nat
         /\ opened <= Cardinality(Threads)
<1>1. /\ Cardinality(Threads) \in Nat
      /\ Cardinality(Openers) \in Nat /\ Cardinality(Greeters) \in Nat
  <2>1. Openers \subseteq Threads /\ Greeters \subseteq Threads
    BY DEF Openers, Greeters
  <2>2. QED
    BY <2>1, SomeFinite
<1>2. {0} \cup Sockets \subseteq Nat
  BY <1>1 DEF Sockets
<1>3. opened \in Nat /\ cached \in Nat /\ \A t \in Threads : conn[t] \in Nat
  BY <1>2 DEF SocketsInv, UartTypes
<1>4. opened + Cardinality(Openers) <= Cardinality(Threads)
  BY DEF SocketsInv
<1>5. opened <= Cardinality(Threads)
  BY <1>1, <1>3, <1>4
<1>6. QED
  BY <1>1, <1>3, <1>5 DEF Sockets

LEMMA GetSocketOk ==
  ASSUME SocketsInv, NEW t \in Threads, GetSocket(t)
  PROVE  SocketsInv'
<1>1. PICK k \in {"line", "list"} :
        /\ Moves(t, "idle", IF cached = 0 THEN "opening" ELSE "ready")
        /\ cmd' = [cmd EXCEPT ![t] = [by |-> t, n |-> @.n + 1, kind |-> k]]
        /\ conn' = [conn EXCEPT ![t] = cached]
        /\ UNCHANGED <<cached, opened, closed>>
        /\ UNCHANGED wire /\ UNCHANGED lock
  BY DEF GetSocket
<1> DEFINE d == [by |-> t, n |-> cmd[t].n + 1, kind |-> k]
<1>2. d \in Command
  <2>1. cmd[t].n \in Nat
    BY DEF SocketsInv, UartTypes, Command
  <2>2. cmd[t].n + 1 \in Nat
    BY <2>1
  <2>3. QED
    BY <2>2 DEF Command
<1>3. cmd' = [cmd EXCEPT ![t] = d]
  BY <1>1
<1> HIDE DEF d
<1>4. cmd' \in [Threads -> Command]
  BY <1>2, <1>3 DEF SocketsInv, UartTypes
<1>5. /\ conn' \in [Threads -> {0} \cup Sockets] /\ conn'[t] = cached
      /\ \A u \in Threads : u # t => conn'[u] = conn[u]
  BY <1>1 DEF SocketsInv, UartTypes
<1>6. /\ stage[t] = "idle" /\ stage \in [Threads -> Stages]
      /\ stage' = [stage EXCEPT ![t] = IF cached = 0 THEN "opening" ELSE "ready"]
  BY <1>1 DEF Moves, SocketsInv, UartTypes, Stages
<1>7. UartTypes'
  BY <1>1, <1>4, <1>5, <1>6
     DEF SocketsInv, UartTypes, wire, lock, Sockets, Stages
<1>8. Greeters' = Greeters
  BY <1>6 DEF Greeters
<1>9. \A u \in Threads : stage'[u] = "greeting" => u # t /\ stage[u] = "greeting"
  BY <1>6
<1>10. opened' + Cardinality(Openers') <= Cardinality(Threads)
  <2>1. Openers' \subseteq Threads /\ Greeters \subseteq Threads
        /\ Greeters \cap Openers' = {}
    BY <1>8 DEF Openers, Greeters
  <2>2. CASE cached = 0
    <3>1. opened <= Cardinality(Greeters)
      BY <2>2 DEF SocketsInv
    <3>2. Cardinality(Greeters) + Cardinality(Openers') <= Cardinality(Threads)
      BY <2>1, Apart
    <3>3. Cardinality(Openers') \in Nat
      BY <2>1, SomeFinite
    <3>4. QED
      BY <1>1, <3>1, <3>2, <3>3, SocketNumbers
  <2>3. CASE cached # 0
    <3>1. Openers' = Openers
      BY <1>6, <2>3 DEF Openers
    <3>2. QED
      BY <1>1, <3>1 DEF SocketsInv
  <2>4. QED
    BY <2>2, <2>3
<1>11. \A u \in Threads : conn'[u] <= opened
  BY <1>5 DEF SocketsInv
<1>12. \A u \in Threads : stage'[u] \notin {"idle", "opening"} => conn'[u] \in Sockets
  BY <1>5, <1>6 DEF SocketsInv, UartTypes
<1>13. \A u \in Threads : stage'[u] = "greeting" => OwnSocket(u)'
  BY <1>1, <1>5, <1>9 DEF SocketsInv, OwnSocket
<1>14. \A s \in closed' : s <= opened' /\ sent'[s] = <<>>
  BY <1>1 DEF SocketsInv, wire
<1>15. QED
  BY <1>1, <1>7, <1>8, <1>10, <1>11, <1>12, <1>13, <1>14
     DEF SocketsInv, Sockets

LEMMA OpenSocketOk ==
  ASSUME SocketsInv, NEW t \in Threads, OpenSocket(t)
  PROVE  SocketsInv' /\ opened' = opened + 1 /\ opened' \in Sockets
<1>1. /\ stage[t] = "opening" /\ stage' = [stage EXCEPT ![t] = "greeting"]
      /\ opened' = opened + 1 /\ conn' = [conn EXCEPT ![t] = opened']
      /\ UNCHANGED <<cmd, cached, closed, lines, buffer, answer, skewed>>
      /\ UNCHANGED lock
  BY DEF OpenSocket, Moves
<1>2. PICK hello \in {<<>>, <<Greeting(t)>>} :
        sent' = [sent EXCEPT ![opened'] = hello]
  BY DEF OpenSocket
<1>3. stage \in [Threads -> Stages] /\ stage' \in [Threads -> Stages]
  BY <1>1 DEF SocketsInv, UartTypes, Stages
<1>4. t \in Openers /\ Openers' = Openers \ {t}
      /\ t \notin Greeters /\ Greeters' = Greeters \cup {t}
  BY <1>1, <1>3 DEF Openers, Greeters
<1>5. /\ IsFiniteSet(Openers) /\ IsFiniteSet(Greeters)
      /\ Cardinality(Openers') \in Nat
  <2>1. Openers \subseteq Threads /\ Greeters \subseteq Threads
        /\ Openers' \subseteq Threads
    BY DEF Openers, Greeters
  <2>2. QED
    BY <2>1, SomeFinite
<1>6. /\ Cardinality(Openers') = Cardinality(Openers) - 1
      /\ Cardinality(Greeters') = Cardinality(Greeters) + 1
  BY <1>4, <1>5, FS_RemoveElement, FS_AddElement
<1>7. opened' + Cardinality(Openers') <= Cardinality(Threads)
  <2> DEFINE m == Cardinality(Openers)
             n == Cardinality(Openers')
  <2>1. m \in Nat /\ n = m - 1 /\ opened + m <= Cardinality(Threads)
        /\ opened \in Nat /\ Cardinality(Threads) \in Nat
    BY <1>6, SocketNumbers DEF SocketsInv
  <2> HIDE DEF m, n
  <2>2. opened' + n <= Cardinality(Threads)
    BY <1>1, <2>1
  <2>3. QED
    BY <2>2 DEF n
<1>8. opened' \in Sockets /\ opened' # 0 /\ opened < opened'
      /\ opened \in Nat /\ opened' \in Nat
  <2> DEFINE n == Cardinality(Openers')
  <2>1. n \in Nat /\ opened' + n <= Cardinality(Threads)
        /\ opened \in Nat /\ Cardinality(Threads) \in Nat
    BY <1>5, <1>7, SocketNumbers
  <2> HIDE DEF n
  <2>2. opened' \in Nat /\ opened' >= 1 /\ opened' <= Cardinality(Threads)
        /\ opened < opened'
    BY <1>1, <2>1
  <2>3. QED
    BY <2>1, <2>2 DEF Sockets
<1>9. hello \in Seq(Command)
  <2>1. Greeting(t) \in Command
    BY DEF Greeting, Command
  <2> DEFINE g == Greeting(t)
  <2>2. g \in Command /\ (hello = <<>> \/ hello = <<g>>)
    BY <2>1
  <2> HIDE DEF g
  <2>3. <<>> \in Seq(Command) /\ <<g>> \in Seq(Command)
    BY <2>2
  <2>4. QED
    BY <2>2, <2>3
<1>10. sent' \in [Sockets -> Seq(Command)]
  BY <1>2, <1>8, <1>9 DEF SocketsInv, UartTypes
<1>11. /\ conn' \in [Threads -> {0} \cup Sockets] /\ conn'[t] = opened'
       /\ \A u \in Threads : u # t => conn'[u] = conn[u]
  BY <1>1, <1>8 DEF SocketsInv, UartTypes
<1>12. UartTypes'
  BY <1>1, <1>3, <1>8, <1>10, <1>11
     DEF SocketsInv, UartTypes, Sockets, Stages, lock
<1>13. cached' = 0 => opened' <= Cardinality(Greeters')
  <2> DEFINE g == Cardinality(Greeters)
             h == Cardinality(Greeters')
  <2>1. g \in Nat /\ h = g + 1 /\ (cached = 0 => opened <= g)
    BY <1>6, SocketNumbers DEF SocketsInv
  <2> HIDE DEF g, h
  <2>2. cached' = 0 => opened' <= h
    BY <1>1, <1>8, <2>1
  <2>3. QED
    BY <2>2 DEF h
<1>14. \A u \in Threads : conn[u] \in Nat /\ conn[u] < opened'
  BY <1>8, SocketNumbers DEF SocketsInv
<1>15. cached' <= opened' /\ cached' # opened'
  BY <1>1, <1>8, SocketNumbers DEF SocketsInv
<1>16. \A u \in Threads : conn'[u] <= opened'
  BY <1>8, <1>11, <1>14
<1>17. \A u \in Threads : stage'[u] \notin {"idle", "opening"} => conn'[u] \in Sockets
  BY <1>1, <1>3, <1>8, <1>11 DEF SocketsInv
<1>18. ASSUME NEW u \in Threads, stage'[u] = "greeting"
       PROVE  OwnSocket(u)'
  <2>1. CASE u = t
    <3>1. \A v \in Threads : v # t => conn'[v] # conn'[t]
      BY <1>8, <1>11, <1>14
    <3>2. QED
      BY <1>11, <1>15, <2>1, <3>1 DEF OwnSocket
  <2>2. CASE u # t
    <3>1. stage[u] = "greeting" /\ conn'[u] = conn[u] /\ conn'[u] # conn'[t]
      BY <1>1, <1>3, <1>8, <1>11, <1>14, <1>18, <2>2
    <3>2. QED
      BY <1>1, <1>11, <3>1 DEF SocketsInv, OwnSocket
  <2>3. QED
    BY <2>1, <2>2
<1>19. \A s \in closed' : s <= opened' /\ sent'[s] = <<>>
  <2> SUFFICES ASSUME NEW s \in closed
               PROVE  s <= opened' /\ sent'[s] = <<>>
    BY <1>1
  <2>0. s \in Sockets /\ s <= opened /\ sent[s] = <<>>
    BY DEF SocketsInv, UartTypes
  <2>1. s \in Sockets /\ s \in Nat /\ s <= opened /\ sent[s] = <<>>
    BY <2>0, SocketNumbers
  <2>2. s # opened' /\ s <= opened'
    BY <1>8, <2>1
  <2>3. QED
    BY <1>2, <2>1, <2>2 DEF SocketsInv, UartTypes
<1>20. QED
  BY <1>1, <1>7, <1>8, <1>12, <1>13, <1>15, <1>16, <1>17, <1>18, <1>19
     DEF SocketsInv, Sockets

LEMMA OpenFailsOk ==
  ASSUME SocketsInv, NEW t \in Threads, OpenFails(t)
  PROVE  SocketsInv'
<1>1. /\ stage[t] = "opening" /\ stage' = [stage EXCEPT ![t] = "idle"]
      /\ UNCHANGED <<cmd, sent, lines, buffer, answer, skewed>>
      /\ UNCHANGED <<conn, cached, opened, closed, queue, event, ahead>>
  BY DEF OpenFails, Moves, wire, sockets, lock
<1>2. stage \in [Threads -> Stages] /\ stage' \in [Threads -> Stages]
  BY <1>1 DEF SocketsInv, UartTypes, Stages
<1>3. UartTypes'
  BY <1>1, <1>2 DEF SocketsInv, UartTypes, Stages, Sockets
<1>4. Greeters' = Greeters /\ Openers' \subseteq Openers
  BY <1>1, <1>2 DEF Greeters, Openers
<1>5. opened' + Cardinality(Openers') <= Cardinality(Threads)
  <2>1. Openers \subseteq Threads
    BY DEF Openers
  <2>2. IsFiniteSet(Openers)
    BY <2>1, SomeFinite
  <2>3. /\ Cardinality(Openers') <= Cardinality(Openers)
        /\ Cardinality(Openers') \in Nat
    BY <1>4, <2>2, FS_Subset, FS_CardinalityType
  <2>4. opened + Cardinality(Openers) <= Cardinality(Threads)
    BY DEF SocketsInv
  <2>5. QED
    BY <1>1, <2>3, <2>4, SocketNumbers
<1>6. \A u \in Threads : /\ stage'[u] = "greeting" => stage[u] = "greeting"
                         /\ stage'[u] \notin {"idle", "opening"}
                              => stage[u] \notin {"idle", "opening"}
  BY <1>1, <1>2
<1>7. QED
  BY <1>1, <1>3, <1>4, <1>5, <1>6 DEF SocketsInv, OwnSocket, Sockets

\* A step that moves no thread to or from where a socket is opened.
LEMMA SocketsStay ==
  ASSUME SocketsInv, UartTypes', UNCHANGED <<conn, cached, opened>>,
         \A s \in closed' : s <= opened /\ sent'[s] = <<>>,
         \A t \in Threads : /\ stage'[t] = "opening" <=> stage[t] = "opening"
                            /\ stage'[t] = "greeting" <=> stage[t] = "greeting"
                            /\ stage[t] = "idle" => stage'[t] = "idle"
  PROVE  SocketsInv'
<1>1. Openers' = Openers /\ Greeters' = Greeters
  BY DEF Openers, Greeters
<1>2. QED
  BY <1>1 DEF SocketsInv, OwnSocket, Sockets

-----------------------------------------------------------------------------
(* Whose lines are on the link.  As long as no reader has left any, they   *)
(* all are answers to the command of the one thread that reads, on its     *)
(* socket or in the buffer: as many as the device gives, or fewer when it  *)
(* has closed the connection.  While a thread drains they are on its       *)
(* socket, and when none reads or drains there is none.  What is on a      *)
(* socket that still waits for its greeting does not count.                *)

AllAre(s, d) == \A i \in DOMAIN s : s[i] = d

Empty(s) == sent[s] = <<>> /\ lines[s] = <<>>

InUse(s) == \A t \in Threads : stage[t] = "greeting" => conn[t] # s

OnTheWay(t) ==
  Len(buffer) + Len(lines[conn[t]]) + Len(sent[conn[t]])

\* What is to be read by t answers its command, and none has been read.
OnlyFor(t) ==
  /\ AllAre(buffer, cmd[t])
  /\ AllAre(lines[conn[t]], cmd[t]) /\ AllAre(sent[conn[t]], cmd[t])
  /\ OnTheWay(t) <= Length(t)
  /\ conn[t] \notin closed => OnTheWay(t) = Length(t)

OthersEmpty(t) == \A s \in Sockets : s # conn[t] /\ InUse(s) => Empty(s)

Clear == buffer = <<>> /\ \A s \in Sockets : InUse(s) => Empty(s)

WireInv ==
  ~ skewed =>
    /\ \A t \in Threads : stage[t] = "reading" => OnlyFor(t)
    /\ \A t \in Threads : stage[t] \in {"reading", "draining"} => OthersEmpty(t)
    /\ (\A t \in Threads : stage[t] \notin {"reading", "draining"}) => Clear

LinkInv == UartInv /\ SocketsInv /\ WireInv

LEMMA OneOnWire ==
  ASSUME UartInv, NEW t \in Threads, t \in OnWire, NEW u \in Threads, u \in OnWire
  PROVE  t = u
BY HeadOnly

LEMMA LinkTypes ==
  ASSUME LinkInv
  PROVE  /\ \A s \in Sockets : sent[s] \in Seq(Command) /\ lines[s] \in Seq(Command)
         /\ buffer \in Seq(Command) /\ skewed \in BOOLEAN
         /\ \A t \in Threads : cmd[t] \in Command /\ Length(t) \in Nat /\ Length(t) >= 1
         /\ \A t \in Threads : cmd[t].kind # "list" => Length(t) = 1
         /\ \A t \in OnWire : t \in Threads /\ conn[t] \in Sockets
         /\ \A t \in OnWire : InUse(conn[t])
         /\ stage \in [Threads -> Stages]
<1>1. \A t \in Threads : Length(t) \in Nat /\ Length(t) >= 1
                         /\ (cmd[t].kind # "list" => Length(t) = 1)
  BY UartAssumption DEF Length
<1>2. \A t \in OnWire : InUse(conn[t])
  BY DEF LinkInv, SocketsInv, OwnSocket, OnWire, InUse
<1>3. QED
  BY <1>1, <1>2 DEF LinkInv, SocketsInv, UartTypes, OnWire, Stages

LEMMA NoLines == ASSUME NEW S, NEW s \in Seq(S) PROVE Len(s) = 0 <=> s = <<>>
OBVIOUS

LEMMA NothingLeft ==
  ASSUME LinkInv, NEW s \in Sockets
  PROVE  sent[s] \o lines[s] = <<>> => Empty(s)
<1>1. sent[s] \in Seq(Command) /\ lines[s] \in Seq(Command)
  BY LinkTypes
<1>2. Len(sent[s] \o lines[s]) = Len(sent[s]) + Len(lines[s])
      /\ Len(sent[s]) \in Nat /\ Len(lines[s]) \in Nat
  BY <1>1
<1>3. ASSUME sent[s] \o lines[s] = <<>>
      PROVE  Len(sent[s]) = 0 /\ Len(lines[s]) = 0
  BY <1>2, <1>3
<1>4. QED
  BY <1>1, <1>3, NoLines DEF Empty

LEMMA NotStale ==
  ASSUME LinkInv, ~ Stale
  PROVE  \A s \in Sockets : InUse(s) => Empty(s)
  BY NothingLeft DEF Stale, InUse

\* The one thread that reads or drains.
LEMMA OneReads ==
  ASSUME LinkInv, NEW t \in Threads, t \in OnWire
  PROVE  \A u \in Threads : stage[u] \in {"reading", "draining"} => u = t
  BY OneOnWire DEF LinkInv, OnWire

\* A step that leaves the lines, and who reads, as they are.
LEMMA WireStays ==
  ASSUME LinkInv, UNCHANGED <<sent, lines, buffer, skewed, closed>>,
         \A t \in Threads : /\ stage'[t] = "reading" <=> stage[t] = "reading"
                            /\ stage'[t] = "draining" <=> stage[t] = "draining"
                            /\ stage'[t] = "greeting" <=> stage[t] = "greeting"
                            /\ stage[t] = "reading" => cmd'[t] = cmd[t]
                            /\ stage[t] \in {"reading", "draining", "greeting"}
                                 => conn'[t] = conn[t]
  PROVE  WireInv'
<1> SUFFICES ASSUME ~ skewed
             PROVE  /\ \A t \in Threads : stage'[t] = "reading" => OnlyFor(t)'
                    /\ \A t \in Threads : stage'[t] \in {"reading", "draining"}
                                            => OthersEmpty(t)'
                    /\ (\A t \in Threads : stage'[t] \notin {"reading", "draining"}) => Clear'
  BY DEF WireInv
<1>0. \A s \in Sockets : InUse(s)' = InUse(s) /\ Empty(s)' = Empty(s)
  BY DEF InUse, Empty
<1>1. ASSUME NEW t \in Threads, stage'[t] = "reading"
      PROVE  OnlyFor(t)'
  <2>1. OnlyFor(t) /\ cmd'[t] = cmd[t] /\ conn'[t] = conn[t]
    BY <1>1 DEF LinkInv, WireInv
  <2>2. QED
    BY <2>1 DEF OnlyFor, AllAre, Length, OnTheWay
<1>2. ASSUME NEW t \in Threads, stage'[t] \in {"reading", "draining"}
      PROVE  OthersEmpty(t)'
  <2>1. OthersEmpty(t) /\ conn'[t] = conn[t]
    BY <1>2 DEF LinkInv, WireInv
  <2>2. QED
    BY <1>0, <2>1 DEF OthersEmpty, Sockets
<1>3. ASSUME \A t \in Threads : stage'[t] \notin {"reading", "draining"}
      PROVE  Clear'
  <2>1. Clear
    BY <1>3 DEF LinkInv, WireInv
  <2>2. QED
    BY <1>0, <2>1 DEF Clear, Sockets
<1>4. QED
  BY <1>1, <1>2, <1>3

\* A step of the thread on the wire, or of the device, keeps the types.
LEMMA TypesStay ==
  ASSUME LinkInv, UartInv', UNCHANGED <<conn, cached, opened, cmd>>,
         closed' \subseteq Sockets,
         sent' \in [Sockets -> Seq(Command)], lines' \in [Sockets -> Seq(Command)],
         buffer' \in Seq(Command), answer' \in Seq(Command), skewed' \in BOOLEAN
  PROVE  UartTypes'
BY DEF LinkInv, SocketsInv, UartTypes, UartInv, UartTyped, Stages, Sockets

\* A step that leaves the connections as they are.
LEMMA OnSockets ==
  ASSUME LinkInv, UartTypes', UNCHANGED sockets, sent' = sent,
         \A t \in Threads : /\ stage'[t] = "opening" <=> stage[t] = "opening"
                            /\ stage'[t] = "greeting" <=> stage[t] = "greeting"
                            /\ stage[t] = "idle" => stage'[t] = "idle"
  PROVE  SocketsInv'
<1>1. \A s \in closed' : s <= opened /\ sent'[s] = <<>>
  BY DEF LinkInv, SocketsInv, sockets
<1>2. QED
  BY <1>1, SocketsStay DEF LinkInv, sockets

LEMMA OpenSocketOwn ==
  ASSUME LinkInv, NEW t \in Threads, OpenSocket(t)
  PROVE  WireInv'
<1>1. /\ stage[t] = "opening" /\ stage' = [stage EXCEPT ![t] = "greeting"]
      /\ conn' = [conn EXCEPT ![t] = opened']
      /\ UNCHANGED <<cmd, cached, closed, lines, buffer, answer, skewed>>
      /\ \A s \in Sockets : s # opened' => sent'[s] = sent[s]
  BY DEF OpenSocket, Moves, LinkInv, SocketsInv, UartTypes
<1>2. opened' = opened + 1 /\ opened' \in Sockets
  BY <1>1, OpenSocketOk DEF LinkInv
<1>3. /\ stage'[t] = "greeting" /\ conn'[t] = opened'
      /\ \A u \in Threads : u # t => stage'[u] = stage[u] /\ conn'[u] = conn[u]
      /\ \A u \in Threads : conn[u] # opened'
  <2>1. \A u \in Threads : conn[u] \in Nat /\ conn[u] <= opened /\ opened \in Nat
    BY SocketNumbers DEF LinkInv, SocketsInv
  <2>2. QED
    BY <1>1, <1>2, <2>1 DEF LinkInv, SocketsInv, UartTypes
<1>4. \A s \in Sockets : InUse(s)' => s # opened' /\ InUse(s)
                                      /\ (Empty(s) => Empty(s)')
  BY <1>1, <1>3 DEF InUse, Empty
<1>5. ASSUME ~ skewed, NEW u \in Threads, stage'[u] = "reading"
      PROVE  OnlyFor(u)'
  <2>1. u # t /\ OnlyFor(u) /\ conn[u] \in Sockets
    BY <1>3, <1>5 DEF LinkInv, WireInv, SocketsInv
  <2>2. cmd'[u] = cmd[u] /\ conn'[u] = conn[u] /\ sent'[conn[u]] = sent[conn[u]]
    BY <1>1, <1>3, <2>1
  <2>3. OnTheWay(u)' = OnTheWay(u) /\ Length(u)' = Length(u)
    BY <1>1, <2>2 DEF OnTheWay, Length
  <2>4. QED
    BY <1>1, <2>1, <2>2, <2>3 DEF OnlyFor, AllAre
<1>6. ASSUME ~ skewed, NEW u \in Threads, stage'[u] \in {"reading", "draining"}
      PROVE  OthersEmpty(u)'
  <2>1. u # t /\ OthersEmpty(u)
    BY <1>3, <1>6 DEF LinkInv, WireInv
  <2>2. QED
    BY <1>3, <1>4, <2>1 DEF OthersEmpty, Sockets
<1>7. ASSUME ~ skewed, \A u \in Threads : stage'[u] \notin {"reading", "draining"}
      PROVE  Clear'
  <2>1. Clear
    BY <1>1, <1>3, <1>7 DEF LinkInv, WireInv
  <2>2. QED
    BY <1>1, <1>4, <2>1 DEF Clear, Sockets
<1>8. QED
  BY <1>1, <1>5, <1>6, <1>7 DEF WireInv

LEMMA DropGreetingOwn ==
  ASSUME LinkInv, UartInv', NEW t \in Threads, DropGreeting(t)
  PROVE  SocketsInv' /\ WireInv'
<1> DEFINE c == conn[t]
<1>1. /\ stage[t] = "greeting" /\ stage' = [stage EXCEPT ![t] = "ready"]
      /\ cached' = c
      /\ skewed' = (skewed \/ sent[c] \o lines'[c] # <<>>)
      /\ UNCHANGED <<cmd, conn, opened, closed, sent, buffer, answer>>
      /\ UNCHANGED lock
  BY DEF DropGreeting, Moves
<1>2. c \in Sockets /\ lines[c] \in Seq(Command) /\ stage \in [Threads -> Stages]
      /\ c # 0 /\ c <= opened
  <2>1. c \in Sockets /\ lines[c] \in Seq(Command) /\ stage \in [Threads -> Stages]
        /\ c <= opened
    BY <1>1 DEF LinkInv, SocketsInv, UartTypes, Stages
  <2>2. c # 0
    BY <2>1, SocketNumbers DEF LinkInv
  <2>3. QED
    BY <2>1, <2>2
<1>3. PICK k \in 0 .. Len(lines[c]) :
        lines' = [lines EXCEPT ![c] = SubSeq(@, k + 1, Len(@))]
  BY DEF DropGreeting
<1>4. SubSeq(lines[c], k + 1, Len(lines[c])) \in Seq(Command)
  BY <1>2
<1>5. /\ lines' \in [Sockets -> Seq(Command)]
      /\ \A s \in Sockets : s # c => lines'[s] = lines[s]
  BY <1>2, <1>3, <1>4 DEF LinkInv, SocketsInv, UartTypes
<1>6. UartTypes'
  <2>1. skewed' \in BOOLEAN
    BY <1>1
  <2>2. QED
    BY <1>1, <1>2, <1>5, <2>1
       DEF LinkInv, SocketsInv, UartTypes, Stages, Sockets, lock
<1>7. /\ stage'[t] = "ready"
      /\ \A u \in Threads : u # t => stage'[u] = stage[u]
  BY <1>1, <1>2
<1>8. Openers' = Openers
  BY <1>1, <1>7 DEF Openers
<1>9. \A u \in Threads : u # t => conn[u] # c
  BY <1>1 DEF LinkInv, SocketsInv, OwnSocket
<1>10. SocketsInv'
  <2>1. \A u \in Threads : stage'[u] = "greeting" => OwnSocket(u)'
    BY <1>1, <1>7, <1>9 DEF LinkInv, SocketsInv, OwnSocket
  <2>2. \A u \in Threads : stage'[u] \notin {"idle", "opening"} => conn'[u] \in Sockets
    BY <1>1, <1>2, <1>7 DEF LinkInv, SocketsInv
  <2>3. QED
    BY <1>1, <1>2, <1>6, <1>8, <2>1, <2>2 DEF LinkInv, SocketsInv, Sockets
<1>11. \A s \in Sockets : InUse(s)' => s = c \/ (InUse(s) /\ (Empty(s) => Empty(s)'))
  BY <1>1, <1>5, <1>7 DEF InUse, Empty
<1>12. ASSUME ~ skewed'
       PROVE  Empty(c)'
  <2>1. sent'[c] \in Seq(Command) /\ lines'[c] \in Seq(Command)
    BY <1>2, <1>6 DEF UartTypes, Sockets
  <2>0. sent'[c] \o lines'[c] = <<>>
    BY <1>1, <1>12
  <2>2. Len(sent'[c] \o lines'[c]) = Len(sent'[c]) + Len(lines'[c])
        /\ Len(sent'[c]) \in Nat /\ Len(lines'[c]) \in Nat
    BY <2>1
  <2>3. Len(sent'[c]) = 0 /\ Len(lines'[c]) = 0
    BY <2>0, <2>2
  <2>4. sent'[c] = <<>> /\ lines'[c] = <<>>
    BY <2>1, <2>3, NoLines
  <2>5. QED
    BY <1>1, <2>4 DEF Empty
<1>13. ASSUME ~ skewed', NEW u \in Threads, stage'[u] = "reading"
       PROVE  OnlyFor(u)'
  <2>1. u # t /\ OnlyFor(u) /\ conn[u] \in Sockets /\ conn[u] # c
    BY <1>1, <1>7, <1>9, <1>13 DEF LinkInv, WireInv, SocketsInv
  <2>2. lines'[conn[u]] = lines[conn[u]]
    BY <1>5, <2>1
  <2>3. QED
    BY <1>1, <2>1, <2>2 DEF OnlyFor, AllAre, Length, OnTheWay
<1>14. ASSUME ~ skewed', NEW u \in Threads, stage'[u] \in {"reading", "draining"}
       PROVE  OthersEmpty(u)'
  <2>1. OthersEmpty(u)
    BY <1>1, <1>7, <1>14 DEF LinkInv, WireInv
  <2>2. QED
    BY <1>1, <1>11, <1>12, <1>14, <2>1 DEF OthersEmpty, Sockets
<1>15. ASSUME ~ skewed', \A u \in Threads : stage'[u] \notin {"reading", "draining"}
       PROVE  Clear'
  <2>1. Clear
    BY <1>1, <1>7, <1>15 DEF LinkInv, WireInv
  <2>2. QED
    BY <1>1, <1>11, <1>12, <1>15, <2>1 DEF Clear, Sockets
<1>16. QED
  BY <1>10, <1>13, <1>14, <1>15 DEF WireInv

LEMMA SendCommandOwn ==
  ASSUME LinkInv, UartInv', NEW t \in Threads, SendCommand(t)
  PROVE  SocketsInv' /\ WireInv'
<1> DEFINE c == conn[t]
           m == [i \in 1 .. Length(t) |-> cmd[t]]
<1>1. /\ stage[t] = "inside" /\ stage' = [stage EXCEPT ![t] = "reading"]
      /\ sent' = IF c \in closed THEN sent ELSE [sent EXCEPT ![c] = @ \o m]
      /\ UNCHANGED <<cmd, lines, buffer, answer, skewed>>
      /\ UNCHANGED <<conn, cached, opened, closed>>
  BY DEF SendCommand, Moves, sockets
<1>2. c \in Sockets /\ Length(t) \in Nat /\ cmd[t] \in Command /\ t \in OnWire
      /\ InUse(c) /\ sent[c] \in Seq(Command) /\ stage \in [Threads -> Stages]
  BY <1>1, LinkTypes DEF OnWire
<1>3. /\ m \in Seq(Command) /\ Len(m) = Length(t) /\ AllAre(m, cmd[t])
  BY <1>2 DEF AllAre
<1> HIDE DEF m
<1>4. /\ sent' \in [Sockets -> Seq(Command)]
      /\ \A s \in Sockets : s # c => sent'[s] = sent[s]
      /\ \A s \in closed : sent'[s] = sent[s]
      /\ sent'[c] = IF c \in closed THEN sent[c] ELSE sent[c] \o m
  <2>1. sent \in [Sockets -> Seq(Command)] /\ closed \subseteq Sockets
    BY DEF LinkInv, SocketsInv, UartTypes
  <2>2. sent[c] \o m \in Seq(Command)
    BY <1>2, <1>3
  <2>3. QED
    BY <1>1, <1>2, <2>1, <2>2
<1>5. UartTypes'
  BY <1>1, <1>4, TypesStay DEF LinkInv, SocketsInv, UartTypes, Sockets
<1>6. SocketsInv'
  <2>1. \A s \in closed' : s <= opened /\ sent'[s] = <<>>
    BY <1>1, <1>4 DEF LinkInv, SocketsInv
  <2>2. QED
    BY <1>1, <1>2, <1>5, <2>1, SocketsStay DEF LinkInv
<1>7. \A u \in Threads : stage'[u] \in {"reading", "draining"} => u = t
  BY <1>1, <1>2, OneReads
<1>8. stage'[t] = "reading"
  BY <1>1, <1>2
<1>0. \A s \in Sockets : InUse(s)' = InUse(s)
  BY <1>1, <1>2 DEF InUse
<1>9. ASSUME ~ skewed
      PROVE  OnlyFor(t)' /\ OthersEmpty(t)'
  <2>1. Clear
    <3>1. \A u \in Threads : stage[u] \notin {"reading", "draining"}
      BY <1>1, <1>2, OneReads
    <3>2. QED
      BY <1>9, <3>1 DEF LinkInv, WireInv
  <2>2. sent'[c] = IF c \in closed THEN <<>> ELSE m
    <3>1. sent[c] = <<>>
      BY <1>2, <2>1 DEF Clear, Empty
    <3>2. <<>> \o m = m
      BY <1>3
    <3>3. QED
      BY <1>4, <3>1, <3>2
  <2>3. OthersEmpty(t)'
    BY <1>0, <1>1, <1>4, <2>1 DEF OthersEmpty, Clear, Empty, Sockets
  <2>4. buffer' = <<>> /\ lines'[c] = <<>>
    BY <1>1, <1>2, <2>1 DEF Clear, Empty
  <2>5. AllAre(buffer', cmd[t]) /\ AllAre(lines'[c], cmd[t]) /\ AllAre(sent'[c], cmd[t])
    BY <1>3, <2>2, <2>4 DEF AllAre
  <2>6. Len(buffer') = 0 /\ Len(lines'[c]) = 0
        /\ Len(sent'[c]) = IF c \in closed THEN 0 ELSE Length(t)
    BY <1>3, <2>2, <2>4
  <2>7. /\ Len(buffer') + Len(lines'[c]) + Len(sent'[c]) <= Length(t)
        /\ c \notin closed =>
             Len(buffer') + Len(lines'[c]) + Len(sent'[c]) = Length(t)
    BY <1>2, <2>6
  <2>8. QED
    BY <1>1, <2>3, <2>5, <2>7 DEF OnlyFor, Length, AllAre, OnTheWay
<1>10. QED
  BY <1>1, <1>6, <1>7, <1>8, <1>9 DEF WireInv

LEMMA DeviceOwn ==
  ASSUME LinkInv, UartInv', NEW s \in Sockets, Device(s)
  PROVE  SocketsInv' /\ WireInv'
<1>1. /\ sent[s] # <<>> /\ lines' = [lines EXCEPT ![s] = Append(@, Head(sent[s]))]
      /\ sent' = [sent EXCEPT ![s] = Tail(@)]
      /\ UNCHANGED <<stage, cmd, buffer, answer, skewed>>
      /\ UNCHANGED <<conn, cached, opened, closed>>
  BY DEF Device, sockets
<1>2. /\ sent[s] \in Seq(Command) /\ lines[s] \in Seq(Command) /\ buffer \in Seq(Command)
      /\ Head(sent[s]) \in Command /\ Tail(sent[s]) \in Seq(Command)
      /\ Len(sent[s]) \in Nat /\ Len(lines[s]) \in Nat /\ Len(buffer) \in Nat
      /\ Len(sent[s]) > 0
  BY <1>1, LinkTypes
<1>3. /\ sent'[s] = Tail(sent[s]) /\ lines'[s] = Append(lines[s], Head(sent[s]))
      /\ \A r \in Sockets : r # s => sent'[r] = sent[r] /\ lines'[r] = lines[r]
      /\ sent' \in [Sockets -> Seq(Command)] /\ lines' \in [Sockets -> Seq(Command)]
  BY <1>1, <1>2 DEF LinkInv, SocketsInv, UartTypes
<1>4. UartTypes'
  BY <1>1, <1>3, TypesStay DEF LinkInv, SocketsInv, UartTypes
<1>5. SocketsInv'
  <2>1. \A r \in closed' : r <= opened /\ sent'[r] = <<>>
    <3>1. \A r \in closed : r \in Sockets /\ r <= opened /\ sent[r] = <<>>
      BY DEF LinkInv, SocketsInv, UartTypes
    <3>2. QED
      BY <1>1, <1>3, <3>1
  <2>2. QED
    BY <1>1, <1>4, <2>1, SocketsStay DEF LinkInv
<1>0. \A r \in Sockets : InUse(r)' = InUse(r) /\ (r # s => Empty(r)' = Empty(r))
  BY <1>1, <1>3 DEF InUse, Empty
<1>s. ~ Empty(s)
  BY <1>1 DEF Empty
<1>6. ASSUME ~ skewed, NEW t \in Threads, stage[t] = "reading", s = conn[t]
      PROVE  OnlyFor(t)'
  <2>1. OnlyFor(t)
    BY <1>6 DEF LinkInv, WireInv
  <2>3. \A i \in DOMAIN sent[s] : sent[s][i] = cmd[t]
    BY <1>6, <2>1 DEF OnlyFor, AllAre
  <2>4. Head(sent[s]) = cmd[t]
    BY <1>1, <1>2, <2>3
  <2>5. AllAre(Tail(sent[s]), cmd[t]) /\ Len(Tail(sent[s])) = Len(sent[s]) - 1
    BY <1>1, <1>2, <2>3 DEF AllAre
  <2>6. AllAre(lines'[s], cmd[t]) /\ Len(lines'[s]) = Len(lines[s]) + 1
    BY <1>2, <1>3, <1>6, <2>1, <2>4 DEF OnlyFor, AllAre
  <2>7. Len(buffer) + Len(lines'[s]) + Len(sent'[s]) = OnTheWay(t)
    <3> DEFINE lb == Len(buffer)
               ll == Len(lines[s])
               ls == Len(sent[s])
               l2 == Len(lines'[s])
               s2 == Len(sent'[s])
    <3>1. lb \in Nat /\ ll \in Nat /\ ls \in Nat /\ l2 = ll + 1 /\ s2 = ls - 1
      BY <1>2, <1>3, <2>5, <2>6
    <3>2. lb + ll + ls = OnTheWay(t)
      BY <1>6 DEF OnTheWay
    <3> HIDE DEF lb, ll, ls, l2, s2
    <3>3. lb + l2 + s2 = OnTheWay(t)
      BY <3>1, <3>2
    <3>4. QED
      BY <3>3 DEF lb, l2, s2
  <2>8. OnTheWay(t)' = OnTheWay(t) /\ Length(t)' = Length(t)
    BY <1>1, <1>6, <2>7 DEF OnTheWay, Length
  <2>9. QED
    BY <1>1, <1>3, <1>6, <2>1, <2>5, <2>6, <2>8 DEF OnlyFor, AllAre
<1>7. ASSUME ~ skewed, NEW t \in Threads, stage[t] = "reading", s # conn[t]
      PROVE  OnlyFor(t)'
  <2>1. OnlyFor(t) /\ conn[t] \in Sockets
    BY <1>7 DEF LinkInv, WireInv, SocketsInv
  <2>2. QED
    BY <1>1, <1>3, <1>7, <2>1 DEF OnlyFor, AllAre, OnTheWay, Length
<1>8. ASSUME ~ skewed, NEW t \in Threads, stage[t] \in {"reading", "draining"}
      PROVE  OthersEmpty(t)'
  BY <1>0, <1>1, <1>8, <1>s DEF LinkInv, WireInv, OthersEmpty, Sockets
<1>9. ASSUME ~ skewed, \A t \in Threads : stage[t] \notin {"reading", "draining"}
      PROVE  Clear'
  <2>1. Clear
    BY <1>9 DEF LinkInv, WireInv
  <2>2. QED
    BY <1>0, <1>1, <1>s, <2>1 DEF Clear, Sockets
<1>10. QED
  BY <1>1, <1>5, <1>6, <1>7, <1>8, <1>9 DEF WireInv

LEMMA CloseOwn ==
  ASSUME LinkInv, UartInv', NEW s \in Sockets, Close(s)
  PROVE  SocketsInv' /\ WireInv'
<1>1. /\ s \in 1 .. opened /\ closed' = closed \cup {s}
      /\ sent' = [sent EXCEPT ![s] = <<>>]
      /\ UNCHANGED <<stage, cmd, buffer, answer, skewed, conn, cached, opened>>
  BY DEF Close
<1>2. PICK k \in 0 .. Len(lines[s]) :
        lines' = [lines EXCEPT ![s] = SubSeq(@, 1, k)]
  BY DEF Close
<1>3. /\ sent[s] \in Seq(Command) /\ lines[s] \in Seq(Command) /\ buffer \in Seq(Command)
      /\ Len(sent[s]) \in Nat /\ Len(lines[s]) \in Nat /\ Len(buffer) \in Nat
      /\ opened \in Nat /\ k \in Nat /\ k <= Len(lines[s])
  BY LinkTypes, SocketNumbers DEF LinkInv
<1> DEFINE l == SubSeq(lines[s], 1, k)
<1>4. l \in Seq(Command) /\ Len(l) = k /\ \A i \in 1 .. k : l[i] = lines[s][i]
  BY <1>3
<1> HIDE DEF l
<1>5. /\ sent'[s] = <<>> /\ lines'[s] = l
      /\ \A r \in Sockets : r # s => sent'[r] = sent[r] /\ lines'[r] = lines[r]
      /\ sent' \in [Sockets -> Seq(Command)] /\ lines' \in [Sockets -> Seq(Command)]
  <2>1. /\ sent \in [Sockets -> Seq(Command)] /\ lines \in [Sockets -> Seq(Command)]
        /\ <<>> \in Seq(Command)
    BY DEF LinkInv, SocketsInv, UartTypes
  <2>2. lines' = [lines EXCEPT ![s] = l]
    BY <1>2 DEF l
  <2>3. QED
    BY <1>1, <1>4, <2>1, <2>2
<1>6. UartTypes'
  <2>1. closed' \subseteq Sockets
    BY <1>1 DEF LinkInv, SocketsInv, UartTypes
  <2>2. QED
    BY <1>1, <1>5, <2>1, TypesStay DEF LinkInv, SocketsInv, UartTypes
<1>7. SocketsInv'
  <2>1. \A r \in closed' : r <= opened /\ sent'[r] = <<>>
    <3>1. \A r \in closed : r \in Sockets /\ r <= opened /\ sent[r] = <<>>
      BY DEF LinkInv, SocketsInv, UartTypes
    <3>2. QED
      BY <1>1, <1>3, <1>5, <3>1
  <2>2. QED
    BY <1>1, <1>6, <2>1, SocketsStay DEF LinkInv
<1>0. \A r \in Sockets : InUse(r)' = InUse(r) /\ (Empty(r) => Empty(r)')
  <2>1. lines[s] = <<>> => l = <<>>
    BY <1>3, <1>4, NoLines
  <2>2. QED
    BY <1>1, <1>5, <2>1 DEF InUse, Empty
<1>8. ASSUME ~ skewed, NEW t \in Threads, stage[t] = "reading"
      PROVE  OnlyFor(t)'
  <2>1. OnlyFor(t) /\ conn[t] \in Sockets
    BY <1>8 DEF LinkInv, WireInv, SocketsInv
  <2>2. CASE s = conn[t]
    <3>1. AllAre(lines'[s], cmd[t]) /\ AllAre(sent'[s], cmd[t])
      <4>1. \A i \in 1 .. Len(lines[s]) : lines[s][i] = cmd[t]
        BY <1>3, <2>1, <2>2 DEF OnlyFor, AllAre
      <4>2. \A i \in 1 .. k : i \in 1 .. Len(lines[s])
        BY <1>3
      <4>3. \A i \in DOMAIN l : i \in 1 .. k
        BY <1>4
      <4>4. \A i \in DOMAIN l : l[i] = cmd[t]
        BY <1>4, <4>1, <4>2, <4>3
      <4>5. QED
        BY <1>5, <4>4 DEF AllAre
    <3>2. Len(buffer) + Len(lines'[s]) + Len(sent'[s]) <= Length(t)
      <4>1. Len(lines'[s]) = k /\ Len(sent'[s]) = 0
        BY <1>4, <1>5
      <4> DEFINE a == Len(buffer)
                 b == Len(lines[s])
                 d == Len(sent[s])
      <4>2. a + b + d <= Length(t) /\ a \in Nat /\ b \in Nat /\ d \in Nat /\ k <= b
            /\ Length(t) \in Nat
        BY <1>3, <2>1, <2>2, LinkTypes DEF OnlyFor, OnTheWay
      <4> HIDE DEF a, b, d
      <4>3. a + k + 0 <= Length(t)
        BY <1>3, <4>2
      <4>4. QED
        BY <4>1, <4>3 DEF a
    <3>3. QED
      BY <1>1, <2>1, <2>2, <3>1, <3>2 DEF OnlyFor, AllAre, OnTheWay, Length
  <2>3. CASE s # conn[t]
    BY <1>1, <1>5, <2>1, <2>3 DEF OnlyFor, AllAre, OnTheWay, Length
  <2>4. QED
    BY <2>2, <2>3
<1>9. ASSUME ~ skewed, NEW t \in Threads, stage[t] \in {"reading", "draining"}
      PROVE  OthersEmpty(t)'
  BY <1>0, <1>1, <1>9 DEF LinkInv, WireInv, OthersEmpty, Sockets
<1>10. ASSUME ~ skewed, \A t \in Threads : stage[t] \notin {"reading", "draining"}
       PROVE  Clear'
  <2>1. Clear
    BY <1>10 DEF LinkInv, WireInv
  <2>2. QED
    BY <1>0, <1>1, <2>1 DEF Clear, Sockets
<1>11. QED
  BY <1>1, <1>7, <1>8, <1>9, <1>10 DEF WireInv

LEMMA ReceiveOwn ==
  ASSUME LinkInv, UartInv', NEW t \in Threads, Receive(t)
  PROVE  SocketsInv' /\ WireInv'
<1> DEFINE c == conn[t]
           l == lines[c]
<1>1. PICK k \in 1 .. Len(l) :
        /\ buffer' = SubSeq(l, 1, k)
        /\ lines' = [lines EXCEPT ![c] = SubSeq(@, k + 1, Len(@))]
  BY DEF Receive
<1>2. /\ stage[t] \in {"reading", "draining"} /\ buffer = <<>>
      /\ UNCHANGED <<stage, cmd, sent, answer, skewed, conn, cached, opened, closed>>
  BY DEF Receive, sockets
<1>3. t \in OnWire /\ c \in Sockets /\ l \in Seq(Command) /\ Len(l) \in Nat /\ k \in 1 .. Len(l)
  BY <1>2, LinkTypes DEF OnWire
<1> DEFINE r == SubSeq(l, k + 1, Len(l))
<1>4. /\ buffer' \in Seq(Command) /\ Len(buffer') = k
      /\ \A i \in 1 .. k : buffer'[i] = l[i]
  BY <1>1, <1>3
<1>5. /\ r \in Seq(Command) /\ Len(r) = Len(l) - k
      /\ \A i \in 1 .. Len(l) - k : r[i] = l[i + k]
  BY <1>3
<1>6. lines' = [lines EXCEPT ![c] = r]
  BY <1>1
<1> HIDE DEF r
<1>7. /\ lines' \in [Sockets -> Seq(Command)] /\ lines'[c] = r
      /\ \A s \in Sockets : s # c => lines'[s] = lines[s]
  BY <1>3, <1>5, <1>6 DEF LinkInv, SocketsInv, UartTypes
<1>8. UartTypes'
  BY <1>2, <1>4, <1>7, TypesStay DEF LinkInv, SocketsInv, UartTypes, Sockets
<1>9. SocketsInv'
  BY <1>2, <1>8, OnSockets DEF sockets
<1>10. \A u \in Threads : stage[u] \in {"reading", "draining"} => u = t
  BY <1>3, OneReads
<1>11. ASSUME ~ skewed, stage[t] = "reading"
       PROVE  OnlyFor(t)'
  <2>1. OnlyFor(t)
    BY <1>11 DEF LinkInv, WireInv
  <2>2. \A i \in 1 .. Len(l) : l[i] = cmd[t]
    BY <1>3, <2>1 DEF OnlyFor, AllAre
  <2>3. AllAre(buffer', cmd[t])
    BY <1>3, <1>4, <2>2 DEF AllAre
  <2>4. AllAre(r, cmd[t])
    <3>1. \A i \in 1 .. Len(l) - k : i + k \in 1 .. Len(l)
      BY <1>3
    <3>2. \A i \in DOMAIN r : i \in 1 .. Len(l) - k
      BY <1>5
    <3>3. \A i \in DOMAIN r : r[i] = cmd[t]
      BY <1>5, <2>2, <3>1, <3>2
    <3>4. QED
      BY <3>3 DEF AllAre
  <2>5. Len(buffer') + Len(r) + Len(sent[c]) = OnTheWay(t)
    <3>1. Len(buffer) = 0 /\ Len(sent[c]) \in Nat
      BY <1>2, <1>3, LinkTypes
    <3>2. 0 + Len(l) + Len(sent[c]) = OnTheWay(t)
      BY <3>1 DEF OnTheWay
    <3> DEFINE n == Len(sent[c])
               m == Len(l)
               b == Len(buffer')
               q == Len(r)
    <3>3. m \in Nat /\ n \in Nat /\ k \in Int
      BY <1>3, <3>1
    <3>4. b = k /\ q = m - k /\ 0 + m + n = OnTheWay(t)
      BY <1>4, <1>5, <3>2
    <3> HIDE DEF n, m, b, q
    <3>5. b + q + n = OnTheWay(t)
      BY <3>3, <3>4
    <3>6. QED
      BY <3>5 DEF b, q, n
  <2>6. OnTheWay(t)' = OnTheWay(t) /\ Length(t)' = Length(t)
    BY <1>2, <1>7, <2>5 DEF OnTheWay, Length
  <2>7. QED
    BY <1>2, <1>7, <2>1, <2>3, <2>4, <2>6 DEF OnlyFor, AllAre
<1>12. ASSUME ~ skewed
       PROVE  OthersEmpty(t)'
  BY <1>2, <1>7, <1>12
     DEF LinkInv, WireInv, OthersEmpty, InUse, Empty, Sockets
<1>13. QED
  BY <1>2, <1>9, <1>10, <1>11, <1>12 DEF WireInv

\* A reader that leaves when nothing is left of what was to come.
LEMMA LeavesClear ==
  ASSUME LinkInv, NEW t \in Threads, t \in OnWire,
         stage' = [stage EXCEPT ![t] = "idle"], UNCHANGED <<sent, lines, conn>>,
         ~ skewed' => buffer' = <<>> /\ \A s \in Sockets : InUse(s) => Empty(s)
  PROVE  WireInv'
<1>1. /\ \A u \in Threads : stage'[u] \notin {"reading", "draining"}
      /\ \A u \in Threads : stage'[u] = "greeting" <=> stage[u] = "greeting"
  BY OneReads, LinkTypes DEF OnWire
<1>2. \A s \in Sockets : InUse(s)' = InUse(s) /\ Empty(s)' = Empty(s)
  BY <1>1 DEF InUse, Empty
<1>3. QED
  BY <1>1, <1>2 DEF WireInv, Clear, Sockets

\* A reader that goes on to drain.
LEMMA GoesOn ==
  ASSUME LinkInv, NEW t \in Threads, stage[t] \in {"reading", "draining"},
         \/ stage' = [stage EXCEPT ![t] = "draining"]
         \/ stage[t] = "draining" /\ stage' = stage,
         UNCHANGED <<sent, lines, conn, skewed>>
  PROVE  WireInv'
<1>1. t \in OnWire
  BY DEF OnWire
<1>2. /\ \A u \in Threads : stage'[u] \in {"reading", "draining"} => u = t
      /\ stage'[t] = "draining"
      /\ \A u \in Threads : stage'[u] = "greeting" <=> stage[u] = "greeting"
  BY <1>1, OneReads, LinkTypes
<1>3. \A s \in Sockets : InUse(s)' = InUse(s) /\ Empty(s)' = Empty(s)
  BY <1>2 DEF InUse, Empty
<1>4. ~ skewed => OthersEmpty(t)'
  BY <1>3 DEF LinkInv, WireInv, OthersEmpty, Sockets
<1>5. QED
  BY <1>2, <1>4 DEF WireInv

\* The step of a reader keeps the connections.
LEMMA ReaderOnSockets ==
  ASSUME LinkInv, UartTypes', NEW t \in Threads, t \in OnWire,
         \/ stage' = [stage EXCEPT ![t] = "idle"]
         \/ stage' = [stage EXCEPT ![t] = "draining"]
         \/ stage' = stage,
         UNCHANGED sockets, sent' = sent
  PROVE  SocketsInv'
  BY OnSockets, LinkTypes DEF OnWire

LEMMA ReadLineOwn ==
  ASSUME LinkInv, UartInv', NEW t \in Threads, ReadLine(t)
  PROVE  /\ SocketsInv' /\ WireInv'
         /\ ~ skewed => answer' = <<cmd[t]>>
<1>1. /\ stage[t] = "reading" /\ buffer # <<>>
      /\ answer' = <<Head(buffer)>> /\ buffer' = Tail(buffer)
      /\ UNCHANGED <<cmd, sent, lines, skewed>> /\ UNCHANGED sockets
      /\ UNCHANGED <<conn, cached, opened, closed>>
      /\ stage' = [stage EXCEPT ![t] = IF cmd[t].kind = "list" THEN "draining" ELSE "idle"]
  BY DEF ReadLine, sockets, Exit
<1>2. /\ t \in OnWire /\ conn[t] \in Sockets /\ buffer \in Seq(Command)
      /\ Head(buffer) \in Command /\ Tail(buffer) \in Seq(Command)
      /\ Len(buffer) \in Nat /\ Len(buffer) >= 1 /\ Head(buffer) = buffer[1]
      /\ 1 \in DOMAIN buffer
  BY <1>1, LinkTypes DEF OnWire
<1>3. UartTypes'
  <2>1. answer' \in Seq(Command) /\ buffer' \in Seq(Command)
    BY <1>1, <1>2
  <2>2. QED
    BY <1>1, <2>1, TypesStay DEF LinkInv, SocketsInv, UartTypes, Sockets
<1>4. SocketsInv'
  BY <1>1, <1>2, <1>3, ReaderOnSockets
<1>5. ASSUME ~ skewed
      PROVE  OnlyFor(t) /\ OthersEmpty(t) /\ answer' = <<cmd[t]>>
  BY <1>1, <1>2, <1>5 DEF LinkInv, WireInv, OnlyFor, AllAre
<1>6. CASE cmd[t].kind = "list"
  <2>1. WireInv'
    BY <1>1, <1>6, GoesOn
  <2>2. QED
    BY <1>4, <1>5, <2>1
<1>7. CASE cmd[t].kind # "list"
  <2>1. ASSUME ~ skewed
        PROVE  buffer' = <<>> /\ Empty(conn[t])
    <3>1. Length(t) = 1 /\ OnlyFor(t)
      BY <1>5, <1>7, <2>1, LinkTypes
    <3>2. /\ Len(lines[conn[t]]) \in Nat /\ Len(sent[conn[t]]) \in Nat
          /\ lines[conn[t]] \in Seq(Command) /\ sent[conn[t]] \in Seq(Command)
      BY <1>2, LinkTypes
    <3>3. Len(buffer) = 1 /\ Len(lines[conn[t]]) = 0 /\ Len(sent[conn[t]]) = 0
      <4> DEFINE b == Len(buffer)
                 l == Len(lines[conn[t]])
                 s == Len(sent[conn[t]])
      <4>1. b \in Nat /\ l \in Nat /\ s \in Nat /\ b >= 1 /\ b + l + s <= 1
        BY <1>2, <3>1, <3>2 DEF OnlyFor, OnTheWay
      <4> HIDE DEF b, l, s
      <4>2. b = 1 /\ l = 0 /\ s = 0
        BY <4>1
      <4>3. QED
        BY <4>2 DEF b, l, s
    <3>4. Empty(conn[t])
      BY <3>2, <3>3, NoLines DEF Empty
    <3>5. Len(Tail(buffer)) = 0
      BY <1>1, <1>2, <3>3
    <3>6. Tail(buffer) = <<>>
      BY <1>2, <3>5, NoLines
    <3>7. QED
      BY <1>1, <3>4, <3>6
  <2>2. ASSUME ~ skewed
        PROVE  \A s \in Sockets : InUse(s) => Empty(s)
    BY <1>5, <2>1, <2>2 DEF OthersEmpty
  <2>3. WireInv'
    BY <1>1, <1>2, <1>7, <2>1, <2>2, LeavesClear
  <2>4. QED
    BY <1>4, <1>5, <2>3
<1>8. QED
  BY <1>6, <1>7

LEMMA DrainLineOwn ==
  ASSUME LinkInv, UartInv', NEW t \in Threads, DrainLine(t)
  PROVE  SocketsInv' /\ WireInv'
<1>1. /\ stage[t] = "draining" /\ buffer # <<>> /\ buffer' = Tail(buffer)
      /\ UNCHANGED <<cmd, sent, lines, answer>> /\ UNCHANGED sockets
      /\ UNCHANGED <<conn, cached, opened, closed>>
      /\ \/ UNCHANGED <<stage, skewed>>
         \/ /\ stage' = [stage EXCEPT ![t] = "idle"]
            /\ skewed' = (Stale \/ buffer' # <<>>)
  BY DEF DrainLine, sockets, Exit
<1>2. t \in OnWire /\ Tail(buffer) \in Seq(Command)
  BY <1>1, LinkTypes DEF OnWire
<1>3. UartTypes'
  <2>1. skewed' \in BOOLEAN
    BY <1>1, LinkTypes
  <2>2. QED
    BY <1>1, <1>2, <2>1, TypesStay DEF LinkInv, SocketsInv, UartTypes, Sockets
<1>4. SocketsInv'
  BY <1>1, <1>2, <1>3, ReaderOnSockets
<1>5. CASE UNCHANGED <<stage, skewed>>
  BY <1>1, <1>4, <1>5, GoesOn
<1>6. CASE stage' = [stage EXCEPT ![t] = "idle"]
           /\ skewed' = (Stale \/ buffer' # <<>>)
  <2>1. ~ skewed' => buffer' = <<>> /\ \A s \in Sockets : InUse(s) => Empty(s)
    BY <1>6, NotStale
  <2>2. QED
    BY <1>1, <1>2, <1>4, <1>6, <2>1, LeavesClear
<1>7. QED
  BY <1>1, <1>5, <1>6

LEMMA ReadEndOwn ==
  ASSUME LinkInv, UartInv', NEW t \in Threads, ReadEnd(t)
  PROVE  /\ SocketsInv' /\ WireInv'
         /\ stage[t] = "reading" => answer' = <<>> /\ conn[t] \in closed
<1>1. /\ stage[t] \in {"reading", "draining"}
      /\ conn[t] \in closed /\ buffer = <<>> /\ lines[conn[t]] = <<>>
      /\ answer' = IF stage[t] = "reading" THEN <<>> ELSE answer
      /\ UNCHANGED <<cmd, sent, lines, buffer, skewed>> /\ UNCHANGED sockets
      /\ UNCHANGED <<conn, cached, opened, closed>>
      /\ \/ stage' = [stage EXCEPT ![t] = "idle"]
         \/ stage' = [stage EXCEPT ![t] = "draining"]
  BY DEF ReadEnd, sockets, Exit, Moves
<1>2. t \in OnWire
  BY <1>1 DEF OnWire
<1>3. UartTypes'
  <2>1. answer' \in Seq(Command)
    BY <1>1 DEF LinkInv, SocketsInv, UartTypes
  <2>2. QED
    BY <1>1, <2>1, TypesStay DEF LinkInv, SocketsInv, UartTypes, Sockets
<1>4. SocketsInv'
  BY <1>1, <1>2, <1>3, ReaderOnSockets
<1>5. CASE stage' = [stage EXCEPT ![t] = "draining"]
  BY <1>1, <1>4, <1>5, GoesOn
<1>6. CASE stage' = [stage EXCEPT ![t] = "idle"]
  <2>1. Empty(conn[t])
    BY <1>1 DEF LinkInv, SocketsInv, Empty
  <2>2. ~ skewed => OthersEmpty(t)
    BY <1>1 DEF LinkInv, WireInv
  <2>3. ~ skewed' => buffer' = <<>> /\ \A s \in Sockets : InUse(s) => Empty(s)
    BY <1>1, <2>1, <2>2 DEF OthersEmpty
  <2>4. QED
    BY <1>1, <1>2, <1>4, <1>6, <2>3, LeavesClear
<1>7. QED
  BY <1>1, <1>5, <1>6

LEMMA GiveUpOwn ==
  ASSUME LinkInv, UartInv', NEW t \in Threads, GiveUp(t)
  PROVE  /\ SocketsInv' /\ WireInv'
         /\ stage[t] = "reading" /\ ~ skewed => answer' = <<>> /\ skewed'
<1>1. /\ stage[t] \in {"reading", "draining"} /\ conn[t] \notin closed
      /\ buffer = <<>> /\ lines[conn[t]] = <<>>
      /\ answer' = IF stage[t] = "reading" THEN <<>> ELSE answer
      /\ skewed' = Stale
      /\ UNCHANGED <<cmd, sent, lines, buffer>> /\ UNCHANGED sockets
      /\ UNCHANGED <<conn, cached, opened, closed>>
      /\ stage' = [stage EXCEPT ![t] = "idle"]
  BY DEF GiveUp, sockets, Exit
<1>2. t \in OnWire /\ conn[t] \in Sockets /\ InUse(conn[t])
  BY <1>1, LinkTypes DEF OnWire
<1>3. UartTypes'
  <2>1. answer' \in Seq(Command) /\ skewed' \in BOOLEAN
    BY <1>1 DEF LinkInv, SocketsInv, UartTypes, Stale
  <2>2. QED
    BY <1>1, <2>1, TypesStay DEF LinkInv, SocketsInv, UartTypes, Sockets
<1>4. SocketsInv'
  BY <1>1, <1>2, <1>3, ReaderOnSockets
<1>5. WireInv'
  <2>1. ~ skewed' => buffer' = <<>> /\ \A s \in Sockets : InUse(s) => Empty(s)
    BY <1>1, NotStale
  <2>2. QED
    BY <1>1, <1>2, <2>1, LeavesClear
<1>6. ASSUME stage[t] = "reading", ~ skewed, ~ skewed'
      PROVE  FALSE
  <2>1. OnlyFor(t) /\ Length(t) \in Nat /\ Length(t) >= 1
    BY <1>6, LinkTypes DEF LinkInv, WireInv
  <2>2. Empty(conn[t])
    BY <1>1, <1>2, <1>6, NotStale
  <2>3. buffer = <<>> /\ lines[conn[t]] = <<>> /\ sent[conn[t]] = <<>>
    BY <1>1, <2>2 DEF Empty
  <2>4. QED
    BY <1>1, <2>1, <2>3 DEF OnlyFor, OnTheWay
<1>7. QED
  BY <1>1, <1>4, <1>5, <1>6

LEMMA UartStart == UartInit => LinkInv
<1> SUFFICES ASSUME UartInit
             PROVE  LinkInv
  OBVIOUS
<1>1. UartInv
  BY UartStartsInOrder
<1>2. UartTypes
  <2>1. \A t \in Threads : [by |-> t, n |-> 0, kind |-> "line"] \in Command
    BY DEF Command
  <2>2. cmd \in [Threads -> Command]
    BY <2>1 DEF UartInit
  <2>3. <<>> \in Seq(Command) /\ <<>> \in Seq(Threads)
    OBVIOUS
  <2>4. sent \in [Sockets -> Seq(Command)] /\ lines \in [Sockets -> Seq(Command)]
    BY <2>3 DEF UartInit
  <2>5. /\ stage \in [Threads -> Stages] /\ event \in [Threads -> BOOLEAN]
        /\ conn \in [Threads -> {0} \cup Sockets] /\ ahead \subseteq Threads \X Threads
    BY DEF UartInit, Stages
  <2>6. /\ buffer \in Seq(Command) /\ answer \in Seq(Command) /\ queue \in Seq(Threads)
        /\ cached \in {0} \cup Sockets /\ opened \in {0} \cup Sockets /\ skewed \in BOOLEAN
        /\ closed \subseteq Sockets
    BY <2>3 DEF UartInit
  <2>7. QED
    BY <2>2, <2>4, <2>5, <2>6 DEF UartTypes, Stages
<1>3. Openers = {} /\ Greeters = {}
  BY DEF UartInit, Openers, Greeters
<1>4. /\ opened + Cardinality(Openers) <= Cardinality(Threads)
      /\ opened <= Cardinality(Greeters)
  <2>1. Cardinality({}) = 0
    BY FS_EmptySet
  <2>2. Cardinality(Threads) \in Nat /\ Cardinality(Threads) >= 0
    BY SomeFinite
  <2>3. QED
    BY <1>3, <2>1, <2>2 DEF UartInit
<1>5. SocketsInv
  BY <1>2, <1>4 DEF UartInit, SocketsInv
<1>6. WireInv
  BY DEF UartInit, WireInv, Clear, Empty
<1>7. QED
  BY <1>1, <1>5, <1>6 DEF LinkInv

LEMMA LinkStep == LinkInv /\ [UartNext]_uartVars => LinkInv'
<1> SUFFICES ASSUME LinkInv, [UartNext]_uartVars
             PROVE  LinkInv'
  OBVIOUS
<1>1. UartInv'
  BY UartKept DEF LinkInv
<1>2. CASE UNCHANGED uartVars
  <2>1. UartTypes'
    BY <1>2 DEF LinkInv, SocketsInv, UartTypes, uartVars, Sockets
  <2>2. SocketsInv'
    BY <1>2, <2>1, OnSockets DEF uartVars, sockets
  <2>3. WireInv'
    BY <1>2, WireStays DEF uartVars
  <2>4. QED
    BY <1>1, <2>2, <2>3 DEF LinkInv
<1>3. ASSUME NEW t \in Threads, GetSocket(t)
      PROVE  LinkInv'
  <2>1. SocketsInv'
    BY <1>3, GetSocketOk DEF LinkInv
  <2>2. /\ UNCHANGED <<sent, lines, buffer, skewed, closed>> /\ stage[t] = "idle"
        /\ \/ stage' = [stage EXCEPT ![t] = "opening"]
           \/ stage' = [stage EXCEPT ![t] = "ready"]
        /\ \A u \in Threads : u # t => cmd'[u] = cmd[u] /\ conn'[u] = conn[u]
    BY <1>3 DEF GetSocket, Moves, wire, LinkInv, SocketsInv, UartTypes
  <2>3. WireInv'
    BY <2>2, WireStays, LinkTypes
  <2>4. QED
    BY <1>1, <2>1, <2>3 DEF LinkInv
<1>4. ASSUME NEW t \in Threads, OpenSocket(t)
      PROVE  LinkInv'
  BY <1>1, <1>4, OpenSocketOk, OpenSocketOwn DEF LinkInv
<1>5. ASSUME NEW t \in Threads, OpenFails(t)
      PROVE  LinkInv'
  <2>1. SocketsInv'
    BY <1>5, OpenFailsOk DEF LinkInv
  <2>2. /\ UNCHANGED <<sent, lines, buffer, skewed, closed, cmd, conn>>
        /\ stage[t] = "opening" /\ stage' = [stage EXCEPT ![t] = "idle"]
    BY <1>5 DEF OpenFails, Moves, wire, sockets
  <2>3. WireInv'
    BY <2>2, WireStays, LinkTypes
  <2>4. QED
    BY <1>1, <2>1, <2>3 DEF LinkInv
<1>6. ASSUME NEW t \in Threads, Enter(t) \/ GoIn(t) \/ SendFails(t)
      PROVE  LinkInv'
  <2>1. /\ UNCHANGED <<sent, lines, buffer, skewed, cmd>>
        /\ UNCHANGED sockets /\ UNCHANGED <<conn, cached, opened, closed>>
        /\ stage[t] \in {"ready", "queued", "inside"}
        /\ \/ stage' = [stage EXCEPT ![t] = "queued"]
           \/ stage' = [stage EXCEPT ![t] = "inside"]
           \/ stage' = [stage EXCEPT ![t] = "idle"]
        /\ answer' = answer \/ answer' = <<>>
    BY <1>6 DEF Enter, GoIn, SendFails, Exit, Moves, wire, sockets
  <2>2. UartTypes'
    <3>1. answer \in Seq(Command) /\ <<>> \in Seq(Command)
      BY DEF LinkInv, SocketsInv, UartTypes
    <3>2. answer' \in Seq(Command)
      BY <2>1, <3>1
    <3>3. QED
      BY <1>1, <2>1, <3>2, TypesStay DEF LinkInv, SocketsInv, UartTypes, Sockets
  <2>3. SocketsInv'
    BY <2>1, <2>2, OnSockets, LinkTypes
  <2>4. WireInv'
    BY <2>1, WireStays, LinkTypes
  <2>5. QED
    BY <1>1, <2>3, <2>4 DEF LinkInv
<1>7. QED
  BY <1>1, <1>2, <1>3, <1>4, <1>5, <1>6, DropGreetingOwn, SendCommandOwn,
     DeviceOwn, CloseOwn, ReceiveOwn, ReadLineOwn, DrainLineOwn, ReadEndOwn,
     GiveUpOwn DEF UartNext, LinkInv

\* The line a call returns is the answer to its own command, on every link on
\* which no earlier reader has left lines (~skewed); there may be none only if
\* this call gives up too early or its connection is closed.  For any threads,
\* any number of calls and of sockets, and any length of a list.
THEOREM UartOwnAnswer == UartSpec => OwnAnswer
<1> DEFINE Own(t) ==
      stage[t] = "reading" /\ stage'[t] # "reading" /\ ~ skewed
        => \/ answer' = <<cmd[t]>>
           \/ answer' = <<>> /\ (skewed' \/ conn[t] \in closed)
<1>1. LinkInv /\ [UartNext]_uartVars => [\A t \in Threads : Own(t)]_uartVars
  <2> SUFFICES ASSUME LinkInv, UartNext, NEW t \in Threads, stage[t] = "reading",
                      stage'[t] # "reading", ~ skewed
               PROVE  \/ answer' = <<cmd[t]>>
                      \/ answer' = <<>> /\ (skewed' \/ conn[t] \in closed)
    OBVIOUS
  <2>1. UartInv' /\ stage \in [Threads -> Stages]
    BY UartKept, LinkTypes DEF LinkInv
  <2>2. t \in OnWire
    BY DEF OnWire
  <2>3. ASSUME NEW u \in Threads, ReadLine(u) \/ ReadEnd(u) \/ GiveUp(u)
        PROVE  \/ answer' = <<cmd[t]>>
               \/ answer' = <<>> /\ (skewed' \/ conn[t] \in closed)
    <3>1. u \in OnWire
      BY <2>3 DEF ReadLine, ReadEnd, GiveUp, OnWire
    <3>2. u = t
      BY <2>2, <3>1, OneOnWire DEF LinkInv
    <3>3. QED
      BY <2>1, <2>3, <3>2, ReadLineOwn, ReadEndOwn, GiveUpOwn
  <2>4. ASSUME NEW u \in Threads, stage[u] # "reading",
               NEW x, stage' = [stage EXCEPT ![u] = x]
        PROVE  stage'[t] = stage[t]
    BY <2>1, <2>4
  <2>5. ASSUME NEW u \in Threads,
               \/ GetSocket(u) \/ OpenSocket(u) \/ OpenFails(u) \/ DropGreeting(u)
               \/ Enter(u) \/ GoIn(u) \/ SendCommand(u) \/ SendFails(u)
        PROVE  stage'[t] = stage[t]
    <3>1. stage[u] # "reading" /\ \E x \in Stages : stage' = [stage EXCEPT ![u] = x]
      BY <2>5 DEF GetSocket, OpenSocket, OpenFails, DropGreeting, Enter, GoIn,
                  SendCommand, SendFails, Exit, Moves, Stages
    <3>2. QED
      BY <2>4, <3>1
  <2>6. ASSUME NEW u \in Threads, DrainLine(u)
        PROVE  stage'[t] = stage[t]
    <3>1. stage[u] # "reading"
          /\ (stage' = stage \/ stage' = [stage EXCEPT ![u] = "idle"])
      BY <2>6 DEF DrainLine, Exit
    <3>2. QED
      BY <2>4, <3>1
  <2>7. ASSUME \/ \E u \in Threads : Receive(u)
               \/ \E s \in Sockets : Device(s) \/ Close(s)
        PROVE  stage'[t] = stage[t]
    BY <2>7 DEF Receive, Device, Close
  <2>8. QED
    BY <2>3, <2>5, <2>6, <2>7 DEF UartNext
<1>2. QED
  BY <1>1, UartStart, LinkStep, PTL DEF UartSpec, OwnAnswer

-----------------------------------------------------------------------------
(* The four parts together.  Each keeps its types; of the gateway, which   *)
(* has no other invariant, that they are kept says that no call is made    *)
(* beyond the bound, that an actor is never served a call that nobody has  *)
(* made, and that what a gateway waits for is a call.                      *)

LEMMA SagaTypesStart == SagaInit => SagaTypes
<1> SUFFICES ASSUME SagaInit
             PROVE  SagaTypes
  OBVIOUS
<1>1. 1 \in Step /\ <<>> \in Seq(Step)
  BY SagaAssumption DEF Step
<1>2. QED
  BY <1>1 DEF SagaInit, SagaTypes

LEMMA SagaTypesKept == SagaInv /\ SagaTypes /\ [SagaNext]_sagaVars => SagaTypes'
<1> SUFFICES ASSUME SagaInv, SagaTypes, [SagaNext]_sagaVars
             PROVE  SagaTypes'
  OBVIOUS
<1>1. /\ at' \in {"body", "join", "undo"} \cup Over /\ step' \in Step
      /\ completed' \in Seq(Step) /\ undone' \in Seq(Step)
  BY SagaStep DEF SagaInv, SagaTyped, Over
<1>2. ending' \in {"normal", "raised", "returned"} /\ worker' \in [Step -> Workers]
  BY DEF SagaTypes, SagaNext, SagaActor, StartTask, EndBody, LeaveScope, EndStep, Compensate,
         Reraise, RunTask, SettleTask, sagaVars
<1>3. task' \in [Step -> {"none", "settled"} \cup Open]
  <2>1. \/ task' = task
        \/ \E i \in Step, s \in {"queued", "running", "settled"} :
             task' = [task EXCEPT ![i] = s]
    BY DEF SagaTypes, SagaNext, SagaActor, StartTask, EndBody, LeaveScope, EndStep, Compensate,
           Reraise, RunTask, SettleTask, sagaVars
  <2>2. QED
    BY <2>1 DEF SagaTypes, Open
<1>4. QED
  BY <1>1, <1>2, <1>3 DEF SagaTypes

LEMMA GatewayStart == GatewayInit => GatewayTypes
<1> SUFFICES ASSUME GatewayInit
             PROVE  GatewayTypes
  OBVIOUS
<1>1. MaxCalls \in Nat /\ 0 \in 0 .. MaxCalls /\ 0 \in 0 .. Local
  BY GatewayAssumption DEF Local
<1>2. call \in Seq(Hosted \X Hosted) /\ Len(call) <= MaxCalls
  BY <1>1 DEF GatewayInit
<1>3. /\ client \in [CallId -> {"none", "waiting", "done", "raised"}]
      /\ future \in [CallId -> {"none", "empty", "set"}]
  BY DEF GatewayInit
<1>4. /\ backlog \in [Nodes -> Seq(CallId)]
      /\ inbox \in [Hosted -> Seq(CallId \cup {Local})]
  <2>1. <<>> \in Seq(CallId) /\ <<>> \in Seq(CallId \cup {Local})
    OBVIOUS
  <2>2. QED
    BY <2>1 DEF GatewayInit
<1>5. /\ serving \in [Nodes -> 0 .. MaxCalls] /\ job \in [Hosted -> 0 .. Local]
      /\ awaiting \in [Hosted -> 0 .. MaxCalls]
  BY <1>1 DEF GatewayInit
<1>6. QED
  BY <1>2, <1>3, <1>4, <1>5 DEF GatewayTypes

LEMMA GatewayKept == GatewayTypes /\ [GatewayNext]_gatewayVars => GatewayTypes'
<1> SUFFICES ASSUME GatewayTypes, [GatewayNext]_gatewayVars
             PROVE  GatewayTypes'
  OBVIOUS
<1>0. /\ MaxCalls \in Nat /\ CallId \subseteq 0 .. MaxCalls /\ Local = MaxCalls + 1
      /\ CallId \cup {Local} \subseteq 0 .. Local /\ 0 \in 0 .. Local /\ 0 \in 0 .. MaxCalls
  BY GatewayAssumption DEF CallId, Local
<1> USE DEF GatewayTypes
<1>1. ASSUME NEW n \in Nodes, Accept(n)
      PROVE  GatewayTypes'
  <2> DEFINE i == Head(backlog[n])
  <2>1. i \in CallId /\ Tail(backlog[n]) \in Seq(CallId)
    BY <1>1 DEF Accept
  <2>2. /\ UNCHANGED <<call, client, job, awaiting>>
        /\ serving' = [serving EXCEPT ![n] = i]
        /\ inbox' = [inbox EXCEPT ![call[i][2]] = Append(@, i)]
        /\ future' = [future EXCEPT ![i] = "empty"]
        /\ backlog' = [backlog EXCEPT ![n] = Tail(@)]
    BY <1>1 DEF Accept
  <2> HIDE DEF i
  <2>3. serving' \in [Nodes -> 0 .. MaxCalls] /\ future' \in [CallId -> {"none", "empty", "set"}]
    BY <1>0, <2>1, <2>2
  <2>4. backlog' \in [Nodes -> Seq(CallId)]
    BY <2>1, <2>2
  <2>5. inbox' \in [Hosted -> Seq(CallId \cup {Local})]
    <3>1. \A b \in Hosted : Append(inbox[b], i) \in Seq(CallId \cup {Local})
      BY <2>1
    <3>2. QED
      BY <2>2, <3>1
  <2>6. QED
    BY <2>2, <2>3, <2>4, <2>5
<1>2. ASSUME NEW n \in Nodes, Respond(n)
      PROVE  GatewayTypes'
  <2>1. serving[n] \in CallId
    BY <1>0, <1>2 DEF Respond, CallId
  <2>2. client' \in [CallId -> {"none", "waiting", "done", "raised"}]
    BY <1>2, <2>1 DEF Respond
  <2>3. serving' \in [Nodes -> 0 .. MaxCalls]
    BY <1>0, <1>2 DEF Respond
  <2>4. QED
    BY <1>2, <2>2, <2>3 DEF Respond, gatewayActors
<1>3. ASSUME NEW a \in Hosted, Take(a)
      PROVE  GatewayTypes'
  <2>1. /\ Head(inbox[a]) \in CallId \cup {Local}
        /\ Tail(inbox[a]) \in Seq(CallId \cup {Local})
    BY <1>3 DEF Take
  <2>2. job' \in [Hosted -> 0 .. Local] /\ inbox' \in [Hosted -> Seq(CallId \cup {Local})]
    BY <1>0, <1>3, <2>1 DEF Take
  <2>3. QED
    BY <1>3, <2>2 DEF Take
<1>4. ASSUME NEW a \in Hosted, FinishJob(a) \/ ReplyCall(a)
      PROVE  GatewayTypes'
  <2>1. future' \in [CallId -> {"none", "empty", "set"}]
    BY <1>4 DEF FinishJob, ReplyCall, SetFuture
  <2>2. job' \in [Hosted -> 0 .. Local]
    BY <1>0, <1>4 DEF FinishJob, ReplyCall, gatewayActors
  <2>3. QED
    BY <1>4, <2>1, <2>2 DEF FinishJob, ReplyCall, gatewayActors
<1>5. ASSUME NEW a \in Hosted, Resume(a)
      PROVE  GatewayTypes'
  BY <1>0, <1>5 DEF Resume
<1>6. ASSUME NEW a \in Hosted, SendLocal(a)
      PROVE  GatewayTypes'
  <2>1. Append(inbox[a], Local) \in Seq(CallId \cup {Local})
    OBVIOUS
  <2>2. inbox' \in [Hosted -> Seq(CallId \cup {Local})]
    BY <1>6, <2>1 DEF SendLocal
  <2>3. QED
    BY <1>6, <2>2 DEF SendLocal
<1>7. ASSUME NEW a \in Hosted, NEW b \in Hosted, RemoteNow(a, b)
      PROVE  GatewayTypes'
  <2> DEFINE i == Len(call) + 1
  <2>1. i \in CallId
    BY <1>0, <1>7 DEF RemoteNow, CallId
  <2>2. /\ UNCHANGED <<future, serving, inbox, job>>
        /\ call' = Append(call, <<a, b>>)
        /\ client' = [client EXCEPT ![i] = "waiting"]
        /\ backlog' = [backlog EXCEPT ![NodeOf[b]] = Append(@, i)]
        /\ awaiting' = [awaiting EXCEPT ![a] = i]
    BY <1>7 DEF RemoteNow
  <2>3. call' \in Seq(Hosted \X Hosted) /\ Len(call') <= MaxCalls
    BY <1>0, <1>7, <2>2 DEF RemoteNow
  <2> HIDE DEF i
  <2>4. /\ client' \in [CallId -> {"none", "waiting", "done", "raised"}]
        /\ awaiting' \in [Hosted -> 0 .. MaxCalls]
    BY <1>0, <2>1, <2>2
  <2>5. backlog' \in [Nodes -> Seq(CallId)]
    <3>1. NodeOf[b] \in Nodes
      BY GatewayAssumption
    <3>2. Append(backlog[NodeOf[b]], i) \in Seq(CallId)
      BY <2>1, <3>1
    <3>3. QED
      BY <2>2, <3>1, <3>2
  <2>6. QED
    BY <2>2, <2>3, <2>4, <2>5
<1>8. ASSUME NEW i \in CallId, CallerTimeout(i)
      PROVE  GatewayTypes'
  BY <1>8 DEF CallerTimeout, gatewayActors
<1>9. CASE UNCHANGED gatewayVars
  BY <1>9 DEF gatewayVars
<1>10. QED
  BY <1>1, <1>2, <1>3, <1>4, <1>5, <1>6, <1>7, <1>8, <1>9
     DEF GatewayNext, GatewayThread, Worker

LinksInv == SagaInv /\ SagaTypes /\ QuorumInv /\ LinkInv /\ GatewayTypes

LEMMA LinksStep == LinksInv /\ [LinksNext]_linksVars => LinksInv'
<1> SUFFICES ASSUME LinksInv, [LinksNext]_linksVars
             PROVE  LinksInv'
  OBVIOUS
<1>1. /\ [SagaNext]_sagaVars /\ [QuorumNext]_quorumVars
      /\ [UartNext]_uartVars /\ [GatewayNext]_gatewayVars
  BY Zenon DEF LinksNext, InSaga, InQuorum, InUart, InGateway, linksVars, sagaStill,
               quorumStill, uartStill, gatewayStill
<1>2. QED
  BY <1>1, SagaStep, SagaTypesKept, QuorumKept, LinkStep, GatewayKept DEF LinksInv

\* Every part of the links keeps its types, whichever of them a run takes
\* through its steps, and for any constants.
THEOREM LinksTyped == LinksSpec => []LinksTypes
<1>1. LinksInit => LinksInv
  BY SagaStarts, SagaTypesStart, QuorumStarts, UartStart, GatewayStart
     DEF LinksInit, LinksInv
<1>2. LinksInv => LinksTypes
  BY DEF LinksInv, LinksTypes, LinkInv, SocketsInv, QuorumInv, QuorumTyped, QuorumTypes
<1>3. QED
  BY <1>1, <1>2, LinksStep, PTL DEF LinksSpec

=============================================================================
