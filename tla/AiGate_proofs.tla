---------------------------- MODULE AiGate_proofs ----------------------------
(***************************************************************************)
(* Proofs about AiGate, for any callers, capacity, budget and window.      *)
(***************************************************************************)
EXTENDS AiGate, SequenceFacts, FiniteSetTheorems, TLAPS

Ticketed == {waiting[i] : i \in DOMAIN waiting}

LEMMA CallerSets ==
  /\ IsFiniteSet(Holders) /\ Cardinality(Holders) \in Nat
  /\ IsFiniteSet(InFlight) /\ Cardinality(InFlight) \in Nat
  /\ IsFiniteSet(Caller) /\ Cardinality(Caller) \in Nat
<1>1. Holders \subseteq Caller /\ InFlight \subseteq Caller
  BY DEF Holders, InFlight
<1>2. QED
  BY <1>1, GateAssumption, FS_Subset, FS_CardinalityType

-----------------------------------------------------------------------------
(***************************************************************************)
(* Types.                                                                  *)
(***************************************************************************)

LEMMA TypesStep == IInv /\ [Next]_vars => Types'
<1> SUFFICES ASSUME IInv, [Next]_vars
             PROVE  Types'
  OBVIOUS
<1> DEFINE Entry == [age : Nat, tokens : Nat]
<1>0. /\ pc \in [Caller -> State]
      /\ priority \in [Caller -> Priorities]
      /\ attempt \in [Caller -> Nat]
      /\ waiting \in Seq(Caller)
      /\ available \in Nat
      /\ events \in Seq(Entry)
      /\ used \in Nat
      /\ made \in Nat
  BY DEF IInv, Types
<1>00. /\ "checked" \in State /\ "gone" \in State /\ "refused" \in State
       /\ "asleep" \in State /\ "awake" \in State /\ "admitted" \in State
       /\ "calling" \in State /\ "leaving" \in State /\ "lost" \in State
       /\ "idle" \in State
  BY DEF State, Idle, Queue, Holding
<1>01. ASSUME NEW c, NEW l \in State, Goto(c, l)
       PROVE  pc' \in [Caller -> State]
  BY <1>0, <1>01 DEF Goto
<1>02. ASSUME NEW c, NEW l \in State, GotoAndNotify(c, l)
       PROVE  pc' \in [Caller -> State]
  BY <1>0, <1>00, <1>02 DEF GotoAndNotify
<1> HIDE DEF Entry
<1>1. ASSUME NEW c \in Caller, NEW p \in Priorities, Call(c, p)
      PROVE  Types'
  <2>1. /\ priority' \in [Caller -> Priorities]
        /\ attempt' \in [Caller -> Nat]
        /\ made' \in Nat
    BY <1>0, <1>1 DEF Call, Counted
  <2>2. pc' \in [Caller -> State]
    BY <1>00, <1>01, <1>1 DEF Call
  <2>3. QED
    BY <1>0, <1>1, <2>1, <2>2 DEF Call, Types, Entry, gate
<1>2. ASSUME NEW c \in Caller, Acquire(c)
      PROVE  Types'
  <2>1. UNCHANGED <<priority, attempt, events, used, made>>
    BY <1>2 DEF Acquire
  <2>2. CASE available > 0 /\ MyTurn(c)
    <3>1. available' = available - 1 /\ waiting' = waiting /\ Goto(c, "admitted")
      BY <1>2, <2>2 DEF Acquire
    <3>2. available' \in Nat
      BY <1>0, <2>2, <3>1
    <3>3. pc' \in [Caller -> State]
      BY <1>00, <1>01, <3>1
    <3>4. QED
      BY <1>0, <2>1, <3>1, <3>2, <3>3 DEF Types, Entry
  <2>3. CASE ~(available > 0 /\ MyTurn(c))
    <3>1. PICK k \in 0 .. Len(waiting) : waiting' = InsertAt(waiting, k + 1, c)
      BY <1>2, <2>3 DEF Acquire, Enqueue
    <3>2. waiting' \in Seq(Caller)
      BY <1>0, <3>1, InsertAtProperties
    <3>3. available' = available /\ Goto(c, "asleep")
      BY <1>2, <2>3 DEF Acquire
    <3>4. pc' \in [Caller -> State]
      BY <1>00, <1>01, <3>3
    <3>5. QED
      BY <1>0, <2>1, <3>2, <3>3, <3>4 DEF Types, Entry
  <2>4. QED
    BY <2>2, <2>3
<1>3. ASSUME NEW c \in Caller, Recheck(c)
      PROVE  Types'
  <2>1. UNCHANGED <<priority, attempt, events, used, made>>
    BY <1>3 DEF Recheck
  <2>2. CASE available > 0 /\ Head(waiting) = c
    <3>1. /\ available' = available - 1
          /\ waiting' = Tail(waiting)
          /\ Goto(c, "admitted")
      BY <1>3, <2>2 DEF Recheck
    <3>2. waiting # <<>>
      BY <1>0, <1>3 DEF IInv, QueueIsWaiters, Recheck, Waiters, Queue
    <3>3. waiting' \in Seq(Caller)
      BY <1>0, <3>1, <3>2
    <3>4. available' \in Nat
      BY <1>0, <2>2, <3>1
    <3>5. pc' \in [Caller -> State]
      BY <1>00, <1>01, <3>1
    <3>6. QED
      BY <1>0, <2>1, <3>3, <3>4, <3>5 DEF Types, Entry
  <2>3. CASE ~(available > 0 /\ Head(waiting) = c)
    <3>1. Goto(c, "asleep") /\ UNCHANGED gate
      BY <1>3, <2>3 DEF Recheck
    <3>2. pc' \in [Caller -> State]
      BY <1>00, <1>01, <3>1
    <3>3. QED
      BY <1>0, <2>1, <3>1, <3>2 DEF Types, Entry, gate
  <2>4. QED
    BY <2>2, <2>3
<1>4. ASSUME NEW c \in Caller, Interrupt(c)
      PROVE  Types'
  <2>1. PICK i \in DOMAIN waiting : waiting' = RemoveAt(waiting, i)
    BY <1>4 DEF Interrupt
  <2>2. waiting' \in Seq(Caller)
    BY <1>0, <2>1, RemoveAtProperties
  <2>3. pc' \in [Caller -> State]
    BY <1>00, <1>02, <1>4 DEF Interrupt
  <2>4. QED
    BY <1>0, <1>4, <2>2, <2>3 DEF Interrupt, Types, Entry
<1>5. ASSUME NEW c \in Caller, Release(c)
      PROVE  Types'
  <2>1. pc' \in [Caller -> State]
    BY <1>00, <1>02, <1>5 DEF Release
  <2>2. available' \in Nat
    BY <1>0, <1>5 DEF Release
  <2>3. QED
    BY <1>0, <1>5, <2>1, <2>2 DEF Release, Types, Entry
<1>6. ASSUME NEW c \in Caller, NEW est \in Estimates, Admit(c, est)
      PROVE  Types'
  <2>1. est \in Nat
    BY GateAssumption
  <2> DEFINE e == [age |-> 0, tokens |-> est]
  <2>2. e \in Entry
    BY <2>1 DEF Entry
  <2>3. events' = events \/ events' = Append(events, e)
    BY <1>6 DEF Admit
  <2> HIDE DEF e
  <2>4. events' \in Seq(Entry)
    <3>1. Append(events, e) \in Seq(Entry)
      BY <1>0, <2>2, AppendProperties
    <3>2. QED
      BY <1>0, <2>3, <3>1
  <2>5. pc' \in [Caller -> State]
    BY <1>00, <1>01, <1>6 DEF Admit
  <2>6. QED
    BY <1>0, <1>6, <2>4, <2>5 DEF Admit, Types, Entry, gate
<1>7. ASSUME NEW c \in Caller, NEW n \in Costs, Respond(c, n)
      PROVE  Types'
  <2>1. n \in Nat
    BY GateAssumption
  <2>2. used' \in Nat
    BY <1>0, <1>7, <2>1 DEF Respond
  <2>3. pc' \in [Caller -> State]
    BY <1>00, <1>01, <1>7 DEF Respond
  <2>4. QED
    BY <1>0, <1>7, <2>2, <2>3 DEF Respond, Types, Entry, gate
<1>8. ASSUME NEW c \in Caller, NEW r \in BOOLEAN, Fail(c, r)
      PROVE  Types'
  <2>1. attempt' \in [Caller -> Nat]
    BY <1>0, <1>8 DEF Fail
  <2>2. pc' \in [Caller -> State]
    BY <1>0, <1>00, <1>01, <1>8 DEF Fail
  <2>3. QED
    BY <1>0, <1>8, <2>1, <2>2 DEF Fail, Types, Entry, gate
<1>9. ASSUME Tick
      PROVE  Types'
  <2>1. PICK k \in 0 .. Len(events) :
          events' = [i \in 1 .. Len(events) - k |->
                       [events[i + k] EXCEPT !.age = @ + 1]]
    BY <1>9 DEF Tick
  <2>2. Len(events) \in Nat /\ \A i \in 1 .. Len(events) : events[i] \in Entry
    BY <1>0
  <2>3. \A e \in Entry : [e EXCEPT !.age = @ + 1] \in Entry
    BY DEF Entry
  <2>4. \A i \in 1 .. Len(events) - k : i + k \in 1 .. Len(events)
    BY <2>2
  <2>5. Len(events) - k \in Nat
    BY <2>2
  <2>6. events' \in Seq(Entry)
    BY <2>1, <2>2, <2>3, <2>4, <2>5
  <2>7. QED
    BY <1>0, <1>9, <2>6 DEF Tick, Types, Entry, gate
<1>10. ASSUME NEW c \in Caller, InterruptWindow(c)
       PROVE  Types'
  <2>1. pc' \in [Caller -> State]
    BY <1>00, <1>01, <1>10 DEF InterruptWindow
  <2>2. QED
    BY <1>0, <1>10, <2>1 DEF InterruptWindow, Types, Entry, gate
<1>11. CASE UNCHANGED vars
  BY <1>0, <1>11 DEF vars, Types, Entry
<1>12. QED
  BY <1>1, <1>2, <1>3, <1>4, <1>5, <1>6, <1>7, <1>8, <1>9, <1>10, <1>11 DEF Next

-----------------------------------------------------------------------------
(***************************************************************************)
(* The effect of a step on the sets of callers.                            *)
(***************************************************************************)

\* c goes to l, and the others stay, except that sleepers may be woken.
Moves(c, l) ==
  /\ pc'[c] = l
  /\ \A d \in Caller \ {c} :
       \/ pc'[d] = pc[d]
       \/ pc[d] = "asleep" /\ pc'[d] = "awake"

LEMMA GotoMoves ==
  ASSUME Types, NEW c \in Caller, NEW l \in State,
         Goto(c, l) \/ GotoAndNotify(c, l)
  PROVE  Moves(c, l)
<1>1. pc \in [Caller -> State]
  BY DEF Types
<1>2. CASE Goto(c, l)
  <2>1. pc' = [pc EXCEPT ![c] = l]
    BY <1>2 DEF Goto
  <2>2. pc'[c] = l
    BY <1>1, <2>1
  <2>3. \A d \in Caller \ {c} : pc'[d] = pc[d]
    BY <1>1, <2>1
  <2>4. QED
    BY <2>2, <2>3 DEF Moves
<1>3. CASE GotoAndNotify(c, l)
  BY <1>3 DEF GotoAndNotify, Moves
<1>4. QED
  BY <1>2, <1>3

LEMMA MovesSets ==
  ASSUME NEW c \in Caller, NEW l \in State, Moves(c, l)
  PROVE  /\ Waiters' = IF l \in Queue THEN Waiters \cup {c} ELSE Waiters \ {c}
         /\ Holders' = IF l \in Holding THEN Holders \cup {c} ELSE Holders \ {c}
         /\ InFlight' = IF l \in Flight THEN InFlight \cup {c} ELSE InFlight \ {c}
<1> USE DEF Moves
<1>1. \A d \in Caller \ {c} : /\ pc'[d] \in Queue <=> pc[d] \in Queue
                              /\ pc'[d] \in Holding <=> pc[d] \in Holding
                              /\ pc'[d] \in Flight <=> pc[d] \in Flight
  BY DEF Queue, Holding, Flight
<1>2. Waiters' = IF l \in Queue THEN Waiters \cup {c} ELSE Waiters \ {c}
  BY <1>1 DEF Waiters
<1>3. Holders' = IF l \in Holding THEN Holders \cup {c} ELSE Holders \ {c}
  BY <1>1 DEF Holders
<1>4. InFlight' = IF l \in Flight THEN InFlight \cup {c} ELSE InFlight \ {c}
  BY <1>1 DEF InFlight
<1>5. QED
  BY <1>2, <1>3, <1>4

\* Where each action moves its caller.
LEMMA StepMoves ==
  ASSUME Types, NEW c \in Caller
  PROVE  /\ \A p \in Priorities :
              Call(c, p) => Moves(c, "refused") \/ Moves(c, "checked")
         /\ Acquire(c) => Moves(c, "admitted") \/ Moves(c, "asleep")
         /\ Recheck(c) => Moves(c, "admitted") \/ Moves(c, "asleep")
         /\ Interrupt(c) => Moves(c, "gone")
         /\ InterruptWindow(c) => Moves(c, "lost")
         /\ Release(c) => Moves(c, "idle")
         /\ \A est \in Estimates : Admit(c, est) => Moves(c, "calling")
         /\ \A n \in Costs : Respond(c, n) => Moves(c, "leaving")
         /\ \A r \in BOOLEAN :
              Fail(c, r) => Moves(c, "calling") \/ Moves(c, "leaving")
<1>0. /\ "checked" \in State /\ "gone" \in State /\ "refused" \in State
      /\ "asleep" \in State /\ "admitted" \in State /\ "idle" \in State
      /\ "calling" \in State /\ "leaving" \in State /\ "lost" \in State
  BY DEF State, Idle, Queue, Holding
<1>1. ASSUME NEW p \in Priorities, Call(c, p)
      PROVE  Moves(c, "refused") \/ Moves(c, "checked")
  BY <1>0, <1>1, GotoMoves DEF Call
<1>2. Acquire(c) => Moves(c, "admitted") \/ Moves(c, "asleep")
  BY <1>0, GotoMoves DEF Acquire
<1>3. Recheck(c) => Moves(c, "admitted") \/ Moves(c, "asleep")
  BY <1>0, GotoMoves DEF Recheck
<1>4. Interrupt(c) => Moves(c, "gone")
  BY <1>0, GotoMoves DEF Interrupt
<1>5. InterruptWindow(c) => Moves(c, "lost")
  BY <1>0, GotoMoves DEF InterruptWindow
<1>6. Release(c) => Moves(c, "idle")
  BY <1>0, GotoMoves DEF Release
<1>7. ASSUME NEW est \in Estimates, Admit(c, est)
      PROVE  Moves(c, "calling")
  BY <1>0, <1>7, GotoMoves DEF Admit
<1>8. ASSUME NEW n \in Costs, Respond(c, n)
      PROVE  Moves(c, "leaving")
  BY <1>0, <1>8, GotoMoves DEF Respond
<1>9. ASSUME NEW r \in BOOLEAN, Fail(c, r)
      PROVE  Moves(c, "calling") \/ Moves(c, "leaving")
  <2>1. CASE UNCHANGED pc
    <3>1. pc'[c] = "calling"
      BY <1>9, <2>1 DEF Fail
    <3>2. \A d \in Caller : pc'[d] = pc[d]
      BY <2>1
    <3>3. QED
      BY <3>1, <3>2 DEF Moves
  <2>2. CASE Goto(c, "leaving")
    BY <1>0, <2>2, GotoMoves
  <2>3. QED
    BY <1>9, <2>1, <2>2 DEF Fail
<1>10. QED
  BY <1>1, <1>2, <1>3, <1>4, <1>5, <1>6, <1>7, <1>8, <1>9

-----------------------------------------------------------------------------
(***************************************************************************)
(* Permits.                                                                *)
(***************************************************************************)

LEMMA PermitsStep == IInv /\ [Next]_vars => PermitsConserved'
<1> SUFFICES ASSUME IInv, [Next]_vars
             PROVE  PermitsConserved'
  OBVIOUS
<1>0. /\ Types
      /\ available \in Nat /\ Capacity \in Nat
      /\ available = Capacity - Cardinality(Holders)
  BY GateAssumption DEF IInv, Types, PermitsConserved
<1>1. /\ "refused" \in State \ Holding /\ "checked" \in State \ Holding
      /\ "asleep" \in State \ Holding /\ "gone" \in State \ Holding
      /\ "idle" \in State \ Holding
      /\ "admitted" \in State \cap Holding /\ "lost" \in State \cap Holding
      /\ "calling" \in State \cap Holding /\ "leaving" \in State \cap Holding
  BY DEF State, Idle, Queue, Holding
<1> USE StepMoves, MovesSets
<1>2. ASSUME Holders' = Holders, available' = available
      PROVE  PermitsConserved'
  BY <1>0, <1>2 DEF PermitsConserved
\* A step that moves c and no permit.
<1>3. ASSUME NEW c \in Caller, NEW l \in State, Moves(c, l),
             c \in Holders <=> l \in Holding, available' = available
      PROVE  PermitsConserved'
  <2>1. Holders' = Holders
    BY <1>3
  <2>2. QED
    BY <1>2, <1>3, <2>1
\* A step that takes one.
<1>4. ASSUME NEW c \in Caller, Moves(c, "admitted"),
             c \notin Holders, available' = available - 1
      PROVE  PermitsConserved'
  <2>1. Holders' = Holders \cup {c}
    BY <1>1, <1>4
  <2>2. Cardinality(Holders') = Cardinality(Holders) + 1
    BY <1>4, <2>1, CallerSets, FS_AddElement
  <2>3. QED
    BY <1>0, <1>4, <2>2, CallerSets DEF PermitsConserved
<1>5. ASSUME NEW c \in Caller, NEW p \in Priorities, Call(c, p)
      PROVE  PermitsConserved'
  <2>1. c \notin Holders /\ available' = available
    BY <1>5 DEF Call, Holders, Holding, Idle, gate
  <2>2. QED
    BY <1>0, <1>1, <1>3, <1>5, <2>1
<1>6. ASSUME NEW c \in Caller, Acquire(c)
      PROVE  PermitsConserved'
  <2>1. c \notin Holders
    BY <1>6 DEF Acquire, Holders, Holding
  <2>2. CASE available > 0 /\ MyTurn(c)
    BY <1>0, <1>1, <1>4, <1>6, <2>1, <2>2, GotoMoves DEF Acquire
  <2>3. CASE ~(available > 0 /\ MyTurn(c))
    BY <1>0, <1>1, <1>3, <1>6, <2>1, <2>3, GotoMoves DEF Acquire
  <2>4. QED
    BY <2>2, <2>3
<1>7. ASSUME NEW c \in Caller, Recheck(c)
      PROVE  PermitsConserved'
  <2>1. c \notin Holders
    BY <1>7 DEF Recheck, Holders, Holding
  <2>2. CASE available > 0 /\ Head(waiting) = c
    BY <1>0, <1>1, <1>4, <1>7, <2>1, <2>2, GotoMoves DEF Recheck
  <2>3. CASE ~(available > 0 /\ Head(waiting) = c)
    BY <1>0, <1>1, <1>3, <1>7, <2>1, <2>3, GotoMoves DEF Recheck, gate
  <2>4. QED
    BY <2>2, <2>3
<1>8. ASSUME NEW c \in Caller, Interrupt(c)
      PROVE  PermitsConserved'
  <2>1. c \notin Holders /\ available' = available
    BY <1>8 DEF Interrupt, Holders, Holding, Queue
  <2>2. QED
    BY <1>0, <1>1, <1>3, <1>8, <2>1
<1>9. ASSUME NEW c \in Caller, InterruptWindow(c)
      PROVE  PermitsConserved'
  <2>1. c \in Holders /\ available' = available
    BY <1>9 DEF InterruptWindow, Holders, Holding, gate
  <2>2. QED
    BY <1>0, <1>1, <1>3, <1>9, <2>1
<1>10. ASSUME NEW c \in Caller, Release(c)
       PROVE  PermitsConserved'
  <2>1. c \in Holders /\ available' = available + 1
    BY <1>10 DEF Release, Holders, Holding
  <2>2. Holders' = Holders \ {c}
    BY <1>0, <1>1, <1>10
  <2>3. Cardinality(Holders') = Cardinality(Holders) - 1
    BY <2>1, <2>2, CallerSets, FS_RemoveElement
  <2>4. QED
    BY <1>0, <2>1, <2>3, CallerSets DEF PermitsConserved
<1>11. ASSUME NEW c \in Caller, NEW est \in Estimates, Admit(c, est)
       PROVE  PermitsConserved'
  <2>1. c \in Holders /\ available' = available
    BY <1>11 DEF Admit, Holders, Holding, gate
  <2>2. QED
    BY <1>0, <1>1, <1>3, <1>11, <2>1
<1>12. ASSUME NEW c \in Caller, NEW n \in Costs, Respond(c, n)
       PROVE  PermitsConserved'
  <2>1. c \in Holders /\ available' = available
    BY <1>12 DEF Respond, Holders, Holding, gate
  <2>2. QED
    BY <1>0, <1>1, <1>3, <1>12, <2>1
<1>13. ASSUME NEW c \in Caller, NEW r \in BOOLEAN, Fail(c, r)
       PROVE  PermitsConserved'
  <2>1. c \in Holders /\ available' = available
    BY <1>13 DEF Fail, Holders, Holding, gate
  <2>2. QED
    BY <1>0, <1>1, <1>3, <1>13, <2>1
<1>14. CASE Tick \/ UNCHANGED vars
  <2>1. UNCHANGED <<pc, available>>
    BY <1>14 DEF Tick, vars, gate
  <2>2. Holders' = Holders
    BY <2>1 DEF Holders
  <2>3. QED
    BY <1>2, <2>1, <2>2
<1>15. QED
  BY <1>5, <1>6, <1>7, <1>8, <1>9, <1>10, <1>11, <1>12, <1>13, <1>14 DEF Next

-----------------------------------------------------------------------------
(***************************************************************************)
(* The budget.                                                             *)
(***************************************************************************)

LEMMA OverrunStep == IInv /\ [Next]_vars => OverrunRoom'
<1> SUFFICES ASSUME IInv, [Next]_vars, Budget > 0
             PROVE  used' + MaxCost * Cardinality(InFlight')
                      <= Budget - 1 + MaxCost * Cardinality(Caller)
  BY DEF OverrunRoom, InFlight
<1> DEFINE n == Cardinality(InFlight)
           N == Cardinality(Caller)
           bound == Budget - 1 + MaxCost * N
<1>0. /\ Types
      /\ used \in Nat /\ Budget \in Nat /\ MaxCost \in Nat
      /\ n \in Nat /\ N \in Nat /\ IsFiniteSet(InFlight)
      /\ used + MaxCost * n <= bound
  BY GateAssumption, CallerSets DEF IInv, Types, OverrunRoom
<1>00. /\ MaxCost * n \in Nat /\ MaxCost * N \in Nat
       /\ \A k \in Nat : MaxCost * k \in Nat
       /\ \A k \in Nat : k <= N => MaxCost * k <= MaxCost * N
       /\ \A k \in Nat : k <= n => MaxCost * k <= MaxCost * n
       /\ n > 0 => MaxCost * (n - 1) = MaxCost * n - MaxCost
  BY <1>0, SMT
<1>1. /\ "refused" \in State \ Flight /\ "checked" \in State \cap Flight
      /\ "asleep" \in State \cap Flight /\ "gone" \in State \ Flight
      /\ "idle" \in State \ Flight /\ "admitted" \in State \cap Flight
      /\ "lost" \in State \ Flight /\ "calling" \in State \cap Flight
      /\ "leaving" \in State \ Flight
  BY DEF State, Idle, Queue, Holding, Flight
<1> USE StepMoves, MovesSets
\* A step that charges nothing and lets no new call pass the check.
<1>2. ASSUME InFlight' \subseteq InFlight, used' = used
      PROVE  used' + MaxCost * Cardinality(InFlight') <= bound
  <2> DEFINE k == Cardinality(InFlight')
  <2>1. k \in Nat /\ k <= n
    BY <1>0, <1>2, FS_Subset, FS_CardinalityType
  <2> HIDE DEF k, n, N
  <2>2. MaxCost * k <= MaxCost * n /\ MaxCost * k \in Nat
    BY <1>00, <2>1
  <2>3. QED
    BY <1>0, <1>00, <1>2, <2>2 DEF k
<1>3. ASSUME NEW c \in Caller, NEW l \in State, Moves(c, l),
             l \in Flight => c \in InFlight, used' = used
      PROVE  used' + MaxCost * Cardinality(InFlight') <= bound
  <2>1. InFlight' \subseteq InFlight
    BY <1>3
  <2>2. QED
    BY <1>2, <1>3, <2>1
<1>4. ASSUME NEW c \in Caller, NEW p \in Priorities, Call(c, p)
      PROVE  used' + MaxCost * Cardinality(InFlight') <= bound
  <2>1. used' = used
    BY <1>4 DEF Call
  <2>2. CASE used >= Budget
    <3>1. Moves(c, "refused")
      BY <1>0, <1>1, <1>4, <2>2, GotoMoves DEF Call
    <3>2. QED
      BY <1>1, <1>3, <2>1, <3>1
  <2>3. CASE used < Budget
    <3> DEFINE k == Cardinality(InFlight')
    <3>1. InFlight' \subseteq Caller
      BY DEF InFlight
    <3>2. k \in Nat /\ k <= N
      BY <3>1, GateAssumption, FS_Subset, FS_CardinalityType
    <3> HIDE DEF k, n, N
    <3>3. MaxCost * k <= MaxCost * N /\ MaxCost * k \in Nat
      BY <1>00, <3>2
    <3>4. QED
      BY <1>0, <1>00, <2>1, <2>3, <3>3 DEF k
  <2>4. QED
    BY <1>0, <2>2, <2>3
<1>5. ASSUME NEW c \in Caller, Acquire(c)
      PROVE  used' + MaxCost * Cardinality(InFlight') <= bound
  <2>1. c \in InFlight /\ used' = used
    BY <1>5 DEF Acquire, InFlight, Flight
  <2>2. QED
    BY <1>0, <1>1, <1>3, <1>5, <2>1
<1>6. ASSUME NEW c \in Caller, Recheck(c)
      PROVE  used' + MaxCost * Cardinality(InFlight') <= bound
  <2>1. c \in InFlight /\ used' = used
    BY <1>6 DEF Recheck, InFlight, Flight, Queue
  <2>2. QED
    BY <1>0, <1>1, <1>3, <1>6, <2>1
<1>7. ASSUME NEW c \in Caller, Interrupt(c) \/ InterruptWindow(c) \/ Release(c)
      PROVE  used' + MaxCost * Cardinality(InFlight') <= bound
  <2>1. used' = used
    BY <1>7 DEF Interrupt, InterruptWindow, Release
  <2>2. QED
    BY <1>0, <1>1, <1>3, <1>7, <2>1
<1>8. ASSUME NEW c \in Caller, NEW est \in Estimates, Admit(c, est)
      PROVE  used' + MaxCost * Cardinality(InFlight') <= bound
  <2>1. c \in InFlight /\ used' = used
    BY <1>8 DEF Admit, InFlight, Flight
  <2>2. QED
    BY <1>0, <1>1, <1>3, <1>8, <2>1
<1>9. ASSUME NEW c \in Caller, NEW r \in BOOLEAN, Fail(c, r)
      PROVE  used' + MaxCost * Cardinality(InFlight') <= bound
  <2>1. c \in InFlight /\ used' = used
    BY <1>9 DEF Fail, InFlight, Flight
  <2>2. QED
    BY <1>0, <1>1, <1>3, <1>9, <2>1
\* The room the call kept is at least what it is charged.
<1>10. ASSUME NEW c \in Caller, NEW cost \in Costs, Respond(c, cost)
       PROVE  used' + MaxCost * Cardinality(InFlight') <= bound
  <2>1. c \in InFlight /\ used' = used + cost
    BY <1>10 DEF Respond, InFlight, Flight
  <2>2. InFlight' = InFlight \ {c}
    BY <1>0, <1>1, <1>10
  <2>3. Cardinality(InFlight') = n - 1
    BY <1>0, <2>1, <2>2, FS_RemoveElement
  <2>4. n > 0
    BY <1>0, <2>1, FS_EmptySet
  <2>5. cost \in Nat /\ cost <= MaxCost
    BY GateAssumption
  <2> HIDE DEF n, N
  <2>6. QED
    BY <1>0, <1>00, <2>1, <2>3, <2>4, <2>5
<1>11. CASE Tick \/ UNCHANGED vars
  <2>1. UNCHANGED <<pc, used>>
    BY <1>11 DEF Tick, vars
  <2>2. InFlight' = InFlight
    BY <2>1 DEF InFlight
  <2>3. QED
    BY <1>2, <2>1, <2>2
<1>12. QED
  BY <1>4, <1>5, <1>6, <1>7, <1>8, <1>9, <1>10, <1>11 DEF Next

-----------------------------------------------------------------------------
(***************************************************************************)
(* The queue.                                                              *)
(***************************************************************************)

LEMMA WaitingFacts ==
  ASSUME Types
  PROVE  /\ waiting \in Seq(Caller)
         /\ Len(waiting) \in Nat
         /\ DOMAIN waiting = 1 .. Len(waiting)
         /\ \A i \in DOMAIN waiting : waiting[i] \in Caller /\ priority[waiting[i]] \in Int
         /\ waiting # <<>> => Len(waiting) > 0 /\ Head(waiting) = waiting[1]
<1>1. waiting \in Seq(Caller) /\ priority \in [Caller -> Int]
  BY GateAssumption DEF Types
<1>2. QED
  BY <1>1

\* A step that leaves the queue and who waits in it alone.
LEMMA QueueKept ==
  ASSUME Types, QueueIsWaiters, waiting' = waiting, Waiters' = Waiters,
         \A d \in Waiters : priority'[d] = priority[d]
  PROVE  QueueIsWaiters'
<1>1. /\ Ticketed = Waiters
      /\ \A i, j \in DOMAIN waiting :
           i < j => /\ waiting[i] # waiting[j]
                    /\ priority[waiting[i]] <= priority[waiting[j]]
  BY DEF QueueIsWaiters, Ticketed
<1>2. Ticketed' = Waiters'
  BY <1>1 DEF Ticketed
<1>3. \A i \in DOMAIN waiting : waiting[i] \in Waiters
  BY <1>1 DEF Ticketed
<1>4. ASSUME NEW i \in DOMAIN waiting, NEW j \in DOMAIN waiting, i < j
      PROVE  waiting[i] # waiting[j] /\ priority'[waiting[i]] <= priority'[waiting[j]]
  BY <1>1, <1>3, <1>4
<1>5. QED
  BY <1>2, <1>4 DEF QueueIsWaiters, Ticketed

\* The queue after a newcomer took the ticket at position k + 1.
LEMMA Enqueued ==
  ASSUME Types, NEW c \in Caller, NEW k \in 0 .. Len(waiting), Enqueue(c, k)
  PROVE  /\ waiting' \in Seq(Caller)
         /\ DOMAIN waiting' = 1 .. Len(waiting) + 1
         /\ \A j \in 1 .. Len(waiting) + 1 :
              waiting'[j] = IF j <= k THEN waiting[j]
                            ELSE IF j = k + 1 THEN c ELSE waiting[j - 1]
<1> DEFINE w == InsertAt(waiting, k + 1, c)
           n == Len(waiting)
<1>1. waiting \in Seq(Caller)
  BY WaitingFacts
<1>2. /\ w \in Seq(Caller) /\ Len(w) = n + 1
      /\ \A j \in 1 .. n + 1 :
           w[j] = IF j <= k THEN waiting[j]
                  ELSE IF j = k + 1 THEN c ELSE waiting[j - 1]
  BY <1>1, InsertAtProperties
<1> HIDE DEF w, n
<1>3. DOMAIN w = 1 .. n + 1
  BY <1>2
<1>4. waiting' = w
  BY DEF w, Enqueue
<1>5. QED
  BY <1>2, <1>3, <1>4 DEF n

\* A newcomer takes a ticket.
LEMMA QueueJoined ==
  ASSUME Types, QueueIsWaiters, NEW c \in Caller, c \notin Waiters,
         NEW k \in 0 .. Len(waiting), Enqueue(c, k),
         Waiters' = Waiters \cup {c}, priority' = priority
  PROVE  QueueIsWaiters'
<1> DEFINE n == Len(waiting)
<1>0. /\ n \in Nat
      /\ DOMAIN waiting = 1 .. n
      /\ \A i \in 1 .. n : waiting[i] \in Caller /\ priority[waiting[i]] \in Int
      /\ priority[c] \in Int
  BY WaitingFacts, GateAssumption DEF Types
<1>1. /\ waiting' = InsertAt(waiting, k + 1, c)
      /\ \A i \in 1 .. n : (priority[waiting[i]] <= priority[c]) <=> (i <= k)
  BY <1>0 DEF Enqueue
<1>2. /\ DOMAIN waiting' = 1 .. n + 1
      /\ \A j \in 1 .. n + 1 :
           waiting'[j] = IF j <= k THEN waiting[j]
                         ELSE IF j = k + 1 THEN c ELSE waiting[j - 1]
  BY Enqueued
<1>3. /\ Ticketed = Waiters
      /\ \A i, j \in 1 .. n :
           i < j => /\ waiting[i] # waiting[j]
                    /\ priority[waiting[i]] <= priority[waiting[j]]
      /\ \A i \in 1 .. n : waiting[i] # c
  BY <1>0 DEF QueueIsWaiters, Ticketed
<1> HIDE DEF n
<1>4. Ticketed' = Waiters'
  <2>1. Ticketed' \subseteq Ticketed \cup {c}
    <3> SUFFICES ASSUME NEW j \in 1 .. n + 1
                 PROVE  waiting'[j] \in Ticketed \cup {c}
      BY <1>2 DEF Ticketed
    <3>1. CASE j <= k
      BY <1>0, <1>2, <3>1 DEF Ticketed, n
    <3>2. CASE j = k + 1
      BY <1>0, <1>2, <3>2
    <3>3. CASE j > k + 1
      BY <1>0, <1>2, <3>3 DEF Ticketed, n
    <3>4. QED
      BY <1>0, <3>1, <3>2, <3>3
  <2>2. c \in Ticketed'
    <3>1. k + 1 \in 1 .. n + 1 /\ waiting'[k + 1] = c
      BY <1>0, <1>2 DEF n
    <3>2. QED
      BY <1>2, <3>1 DEF Ticketed
  <2>3. ASSUME NEW i \in 1 .. n
        PROVE  waiting[i] \in Ticketed'
    <3>1. CASE i <= k
      <4>1. i \in 1 .. n + 1 /\ waiting'[i] = waiting[i]
        BY <1>0, <1>2, <3>1
      <4>2. QED
        BY <1>2, <4>1 DEF Ticketed
    <3>2. CASE i > k
      <4>1. i + 1 \in 1 .. n + 1 /\ waiting'[i + 1] = waiting[i]
        BY <1>0, <1>2, <3>2 DEF n
      <4>2. QED
        BY <1>2, <4>1 DEF Ticketed
    <3>3. QED
      BY <1>0, <3>1, <3>2
  <2>4. QED
    BY <1>0, <1>3, <2>1, <2>2, <2>3 DEF Ticketed
<1>5. ASSUME NEW i \in 1 .. n + 1, NEW j \in 1 .. n + 1, i < j
      PROVE  /\ waiting'[i] # waiting'[j]
             /\ priority[waiting'[i]] <= priority[waiting'[j]]
  <2>1. CASE j <= k
    <3>1. i \in 1 .. n /\ j \in 1 .. n /\ waiting'[i] = waiting[i] /\ waiting'[j] = waiting[j]
      BY <1>0, <1>2, <1>5, <2>1 DEF n
    <3>2. QED
      BY <1>3, <1>5, <3>1
  <2>2. CASE j = k + 1
    <3>1. i \in 1 .. n /\ i <= k /\ waiting'[i] = waiting[i] /\ waiting'[j] = c
      BY <1>0, <1>2, <1>5, <2>2 DEF n
    <3>2. QED
      BY <1>1, <1>3, <3>1
  <2>3. CASE j > k + 1
    <3>1. j - 1 \in 1 .. n /\ j - 1 > k /\ waiting'[j] = waiting[j - 1]
      BY <1>0, <1>2, <2>3 DEF n
    <3>2. CASE i <= k
      <4>1. i \in 1 .. n /\ i < j - 1 /\ waiting'[i] = waiting[i]
        BY <1>0, <1>2, <2>3, <3>2 DEF n
      <4>2. QED
        BY <1>3, <3>1, <4>1
    <3>3. CASE i = k + 1
      <4>1. waiting'[i] = c
        BY <1>0, <1>2, <3>3
      <4>2. priority[c] <= priority[waiting[j - 1]]
        BY <1>0, <1>1, <3>1
      <4>3. QED
        BY <1>3, <3>1, <4>1, <4>2
    <3>4. CASE i > k + 1
      <4>1. i - 1 \in 1 .. n /\ i - 1 < j - 1 /\ waiting'[i] = waiting[i - 1]
        BY <1>0, <1>2, <1>5, <3>4 DEF n
      <4>2. QED
        BY <1>3, <3>1, <4>1
    <3>5. QED
      BY <1>0, <3>2, <3>3, <3>4
  <2>4. QED
    BY <1>0, <2>1, <2>2, <2>3
<1>6. QED
  BY <1>2, <1>4, <1>5 DEF QueueIsWaiters, Ticketed

\* A ticket leaves the queue, from wherever it is.
LEMMA QueueLeft ==
  ASSUME Types, QueueIsWaiters, NEW c \in Caller,
         NEW i \in DOMAIN waiting, waiting[i] = c,
         waiting' \in Seq(Caller), Len(waiting') = Len(waiting) - 1,
         \A j \in 1 .. Len(waiting) - 1 :
           waiting'[j] = IF j < i THEN waiting[j] ELSE waiting[j + 1],
         Waiters' = Waiters \ {c}, priority' = priority
  PROVE  QueueIsWaiters'
<1> DEFINE n == Len(waiting)
<1>0. n \in Nat /\ DOMAIN waiting = 1 .. n /\ i \in 1 .. n
  BY WaitingFacts
<1>1. /\ DOMAIN waiting' = 1 .. n - 1
      /\ \A j \in 1 .. n - 1 :
           waiting'[j] = IF j < i THEN waiting[j] ELSE waiting[j + 1]
  BY <1>0
<1>2. /\ Ticketed = Waiters
      /\ \A k, j \in 1 .. n :
           k < j => /\ waiting[k] # waiting[j]
                    /\ priority[waiting[k]] <= priority[waiting[j]]
  BY <1>0 DEF QueueIsWaiters, Ticketed
<1>3. \A j \in 1 .. n : j # i => waiting[j] # c
  BY <1>0, <1>2
<1> HIDE DEF n
<1>4. Ticketed' = Waiters'
  <2>1. ASSUME NEW j \in 1 .. n - 1
        PROVE  waiting'[j] \in Ticketed \ {c}
    <3>1. CASE j < i
      BY <1>0, <1>1, <1>3, <3>1 DEF Ticketed
    <3>2. CASE j >= i
      <4>1. j + 1 \in 1 .. n /\ j + 1 # i /\ waiting'[j] = waiting[j + 1]
        BY <1>0, <1>1, <3>2
      <4>2. QED
        BY <1>0, <1>3, <4>1 DEF Ticketed
    <3>3. QED
      BY <1>0, <3>1, <3>2
  <2>2. ASSUME NEW j \in 1 .. n, waiting[j] # c
        PROVE  waiting[j] \in Ticketed'
    <3>1. CASE j < i
      <4>1. j \in 1 .. n - 1 /\ waiting'[j] = waiting[j]
        BY <1>0, <1>1, <3>1
      <4>2. QED
        BY <1>1, <4>1 DEF Ticketed
    <3>2. CASE j > i
      <4>1. j - 1 \in 1 .. n - 1 /\ waiting'[j - 1] = waiting[j]
        BY <1>0, <1>1, <3>2
      <4>2. QED
        BY <1>1, <4>1 DEF Ticketed
    <3>3. QED
      BY <1>0, <2>2, <3>1, <3>2
  <2>3. QED
    BY <1>0, <1>1, <1>2, <2>1, <2>2 DEF Ticketed
<1>5. ASSUME NEW k \in 1 .. n - 1, NEW j \in 1 .. n - 1, k < j
      PROVE  /\ waiting'[k] # waiting'[j]
             /\ priority[waiting'[k]] <= priority[waiting'[j]]
  <2>1. PICK kk \in {k, k + 1} : waiting'[k] = waiting[kk] /\ (kk = k <=> k < i)
    BY <1>0, <1>1
  <2>2. PICK jj \in {j, j + 1} : waiting'[j] = waiting[jj] /\ (jj = j <=> j < i)
    BY <1>0, <1>1
  <2>3. kk \in 1 .. n /\ jj \in 1 .. n /\ kk < jj
    BY <1>0, <1>5, <2>1, <2>2
  <2>4. QED
    BY <1>2, <2>1, <2>2, <2>3
<1>6. QED
  BY <1>1, <1>4, <1>5 DEF QueueIsWaiters, Ticketed

LEMMA QueueStep == IInv /\ [Next]_vars => QueueIsWaiters'
<1> SUFFICES ASSUME IInv, [Next]_vars
             PROVE  QueueIsWaiters'
  OBVIOUS
<1>0. Types /\ QueueIsWaiters
  BY DEF IInv
<1>1. /\ "refused" \in State \ Queue /\ "checked" \in State \ Queue
      /\ "asleep" \in State \cap Queue /\ "gone" \in State \ Queue
      /\ "idle" \in State \ Queue /\ "admitted" \in State \ Queue
      /\ "lost" \in State \ Queue /\ "calling" \in State \ Queue
      /\ "leaving" \in State \ Queue
  BY DEF State, Idle, Queue, Holding
<1> USE StepMoves, MovesSets
\* A step outside the queue.
<1>2. ASSUME NEW c \in Caller, NEW l \in State \ Queue, Moves(c, l),
             c \notin Waiters, waiting' = waiting,
             \A d \in Waiters : priority'[d] = priority[d]
      PROVE  QueueIsWaiters'
  <2>1. Waiters' = Waiters
    BY <1>2
  <2>2. QED
    BY <1>0, <1>2, <2>1, QueueKept
<1>3. ASSUME NEW c \in Caller, NEW p \in Priorities, Call(c, p)
      PROVE  QueueIsWaiters'
  <2>1. c \notin Waiters /\ waiting' = waiting
    BY <1>3 DEF Call, Waiters, Queue, Idle, gate
  <2>2. \A d \in Waiters : priority'[d] = priority[d]
    <3>1. priority' = [priority EXCEPT ![c] = p] /\ priority \in [Caller -> Priorities]
      BY <1>0, <1>3 DEF Call, Types
    <3>2. QED
      BY <2>1, <3>1 DEF Waiters
  <2>3. QED
    BY <1>0, <1>1, <1>2, <1>3, <2>1, <2>2
<1>4. ASSUME NEW c \in Caller, Acquire(c)
      PROVE  QueueIsWaiters'
  <2>1. c \notin Waiters /\ priority' = priority
    BY <1>4 DEF Acquire, Waiters, Queue
  <2>2. CASE available > 0 /\ MyTurn(c)
    <3>1. Goto(c, "admitted") /\ waiting' = waiting
      BY <1>4, <2>2 DEF Acquire
    <3>2. QED
      BY <1>0, <1>1, <1>2, <2>1, <3>1, GotoMoves
  <2>3. CASE ~(available > 0 /\ MyTurn(c))
    <3>1. PICK k \in 0 .. Len(waiting) : Enqueue(c, k)
      BY <1>4, <2>3 DEF Acquire
    <3>2. Goto(c, "asleep")
      BY <1>4, <2>3 DEF Acquire
    <3>3. Waiters' = Waiters \cup {c}
      BY <1>0, <1>1, <3>2, GotoMoves
    <3>4. QED
      BY <1>0, <2>1, <3>1, <3>3, QueueJoined
  <2>4. QED
    BY <2>2, <2>3
<1>5. ASSUME NEW c \in Caller, Recheck(c)
      PROVE  QueueIsWaiters'
  <2>1. c \in Waiters /\ priority' = priority
    BY <1>5 DEF Recheck, Waiters, Queue
  <2>2. CASE available > 0 /\ Head(waiting) = c
    <3>1. Goto(c, "admitted") /\ waiting' = Tail(waiting)
      BY <1>5, <2>2 DEF Recheck
    <3>2. Waiters' = Waiters \ {c}
      BY <1>0, <1>1, <3>1, GotoMoves
    <3>3. waiting \in Seq(Caller) /\ waiting # <<>>
      BY <1>0, <2>1, WaitingFacts DEF QueueIsWaiters
    <3>4. /\ 1 \in DOMAIN waiting /\ waiting[1] = c
          /\ waiting' \in Seq(Caller) /\ Len(waiting') = Len(waiting) - 1
          /\ \A j \in 1 .. Len(waiting) - 1 : waiting'[j] = waiting[j + 1]
      BY <2>2, <3>1, <3>3
    <3>5. \A j \in 1 .. Len(waiting) - 1 :
            waiting'[j] = IF j < 1 THEN waiting[j] ELSE waiting[j + 1]
      BY <3>4
    <3>6. QED
      BY <1>0, <2>1, <3>2, <3>4, <3>5, QueueLeft
  <2>3. CASE ~(available > 0 /\ Head(waiting) = c)
    <3>1. Goto(c, "asleep") /\ waiting' = waiting
      BY <1>5, <2>3 DEF Recheck, gate
    <3>2. Waiters' = Waiters
      BY <1>0, <1>1, <2>1, <3>1, GotoMoves
    <3>3. QED
      BY <1>0, <2>1, <3>1, <3>2, QueueKept
  <2>4. QED
    BY <2>2, <2>3
<1>6. ASSUME NEW c \in Caller, Interrupt(c)
      PROVE  QueueIsWaiters'
  <2>1. PICK i \in DOMAIN waiting :
          waiting[i] = c /\ waiting' = RemoveAt(waiting, i)
    BY <1>6 DEF Interrupt
  <2>2. waiting \in Seq(Caller) /\ priority' = priority
    BY <1>0, <1>6, WaitingFacts DEF Interrupt
  <2>3. /\ waiting' \in Seq(Caller) /\ Len(waiting') = Len(waiting) - 1
        /\ \A j \in 1 .. Len(waiting) - 1 :
             waiting'[j] = IF j < i THEN waiting[j] ELSE waiting[j + 1]
    BY <2>1, <2>2, RemoveAtProperties
  <2>4. Waiters' = Waiters \ {c}
    BY <1>0, <1>1, <1>6
  <2>5. QED
    BY <1>0, <2>1, <2>2, <2>3, <2>4, QueueLeft
<1>7. ASSUME NEW c \in Caller, InterruptWindow(c) \/ Release(c)
      PROVE  QueueIsWaiters'
  <2>1. c \notin Waiters /\ waiting' = waiting /\ priority' = priority
    BY <1>7 DEF InterruptWindow, Release, Waiters, Queue, gate
  <2>2. QED
    BY <1>0, <1>1, <1>2, <1>7, <2>1
<1>8. ASSUME NEW c \in Caller, NEW est \in Estimates, Admit(c, est)
      PROVE  QueueIsWaiters'
  <2>1. c \notin Waiters /\ waiting' = waiting /\ priority' = priority
    BY <1>8 DEF Admit, Waiters, Queue, gate
  <2>2. QED
    BY <1>0, <1>1, <1>2, <1>8, <2>1
<1>9. ASSUME NEW c \in Caller, NEW n \in Costs, Respond(c, n)
      PROVE  QueueIsWaiters'
  <2>1. c \notin Waiters /\ waiting' = waiting /\ priority' = priority
    BY <1>9 DEF Respond, Waiters, Queue, gate
  <2>2. QED
    BY <1>0, <1>1, <1>2, <1>9, <2>1
<1>10. ASSUME NEW c \in Caller, NEW r \in BOOLEAN, Fail(c, r)
       PROVE  QueueIsWaiters'
  <2>1. c \notin Waiters /\ waiting' = waiting /\ priority' = priority
    BY <1>10 DEF Fail, Waiters, Queue, gate
  <2>2. QED
    BY <1>0, <1>1, <1>2, <1>10, <2>1
<1>11. CASE Tick \/ UNCHANGED vars
  <2>1. UNCHANGED <<pc, waiting, priority>>
    BY <1>11 DEF Tick, vars, gate
  <2>2. Waiters' = Waiters
    BY <2>1 DEF Waiters
  <2>3. QED
    BY <1>0, <2>1, <2>2, QueueKept
<1>12. QED
  BY <1>3, <1>4, <1>5, <1>6, <1>7, <1>8, <1>9, <1>10, <1>11 DEF Next

-----------------------------------------------------------------------------
(***************************************************************************)
(* No lost wakeup.                                                         *)
(***************************************************************************)

LEMMA StrandStep == IInv /\ [Next]_vars => NotStranded'
<1> SUFFICES ASSUME IInv, [Next]_vars, waiting' # <<>>, Holders' = {}
             PROVE  pc'[Head(waiting')] = "awake"
  BY DEF NotStranded, Holders
<1>0. /\ Types /\ QueueIsWaiters /\ NotStranded
      /\ available = Capacity - Cardinality(Holders)
      /\ pc \in [Caller -> State] /\ available \in Nat
      /\ Capacity \in Nat /\ Capacity > 0
  BY GateAssumption DEF IInv, Types, PermitsConserved
<1>1. waiting # <<>> =>
        /\ Head(waiting) = waiting[1] /\ 1 \in DOMAIN waiting
        /\ Head(waiting) \in Caller /\ Head(waiting) \in Waiters
        /\ pc[Head(waiting)] \in Queue
  <2>1. waiting # <<>> =>
          Head(waiting) = waiting[1] /\ 1 \in DOMAIN waiting
    BY <1>0, WaitingFacts
  <2>2. QED
    BY <1>0, <2>1 DEF QueueIsWaiters, Waiters
<1>2. \A c \in Caller : pc'[c] \notin Holding
  BY DEF Holders
\* When nobody held a permit before the step either, all permits were free.
<1>3. ASSUME Holders = {}
      PROVE  available = Capacity /\ available > 0
  BY <1>0, <1>3, FS_EmptySet
\* The first waiter is the same and nobody has moved it.
<1>4. ASSUME NEW c \in Caller, c \notin Waiters, waiting' = waiting,
             Goto(c, pc'[c]), Holders = {}
      PROVE  pc'[Head(waiting')] = "awake"
  <2>1. Head(waiting) # c /\ pc[Head(waiting)] = "awake"
    BY <1>0, <1>1, <1>4 DEF NotStranded
  <2>2. QED
    BY <1>0, <1>1, <1>4, <2>1 DEF Goto
<1>5. ASSUME NEW c \in Caller, NEW p \in Priorities, Call(c, p)
      PROVE  pc'[Head(waiting')] = "awake"
  <2>1. c \notin Waiters /\ waiting' = waiting /\ c \notin Holders
    BY <1>5 DEF Call, Waiters, Queue, Idle, Holders, Holding, gate
  <2>2. PICK l \in {"refused", "checked"} : Goto(c, l)
    BY <1>5 DEF Call
  <2>3. l \in State /\ l \notin Holding
    BY DEF State, Idle, Holding
  <2>4. pc'[c] = l
    BY <1>0, <2>2 DEF Goto
  <2>5. Holders = {}
    BY <1>0, <2>1, <2>2, <2>3, GotoMoves, MovesSets
  <2>6. QED
    BY <1>4, <2>1, <2>2, <2>4, <2>5
<1>6. ASSUME NEW c \in Caller, Acquire(c)
      PROVE  pc'[Head(waiting')] = "awake"
  <2>1. c \notin Waiters /\ c \notin Holders
    BY <1>6 DEF Acquire, Waiters, Holders, Queue, Holding
  <2>2. ~(available > 0 /\ MyTurn(c))
    <3>1. CASE available > 0 /\ MyTurn(c)
      <4>1. pc'[c] = "admitted"
        BY <1>0, <1>6, <3>1 DEF Acquire, Goto
      <4>2. QED
        BY <1>2, <4>1 DEF Holding
    <3>2. QED
      BY <3>1
  <2>3. PICK k \in 0 .. Len(waiting) : Enqueue(c, k)
    BY <1>6, <2>2 DEF Acquire
  <2>4. Goto(c, "asleep")
    BY <1>6, <2>2 DEF Acquire
  <2>5. Holders = {}
    <3>1. "asleep" \in State /\ "asleep" \notin Holding
      BY DEF State, Queue, Holding
    <3>2. QED
      BY <1>0, <2>1, <2>4, <3>1, GotoMoves, MovesSets
  <2>6. waiting # <<>> /\ ~(priority[c] <= priority[Head(waiting)])
    BY <1>3, <2>2, <2>5 DEF MyTurn
  <2>7. priority[waiting[1]] <= priority[c] /\ k >= 1
    <3>1. priority[waiting[1]] \in Int /\ priority[c] \in Int
      BY <1>0, <1>1, <2>6, WaitingFacts, GateAssumption DEF Types
    <3>2. priority[waiting[1]] <= priority[c]
      BY <1>1, <2>6, <3>1
    <3>3. 1 <= k
      BY <1>1, <2>3, <2>6, <3>2 DEF Enqueue
    <3>4. QED
      BY <3>2, <3>3
  <2>8. waiting' \in Seq(Caller) /\ waiting'[1] = waiting[1]
    <3>1. /\ waiting' \in Seq(Caller)
          /\ \A j \in 1 .. Len(waiting) + 1 :
               waiting'[j] = IF j <= k THEN waiting[j]
                             ELSE IF j = k + 1 THEN c ELSE waiting[j - 1]
      BY <1>0, <2>3, Enqueued
    <3>2. 1 \in 1 .. Len(waiting) + 1
      BY <1>0, WaitingFacts
    <3>3. QED
      BY <2>7, <3>1, <3>2
  <2>9. Head(waiting') = Head(waiting)
    BY <1>1, <2>6, <2>8
  <2>10. Head(waiting) # c /\ pc[Head(waiting)] = "awake"
    BY <1>0, <1>1, <2>1, <2>5, <2>6 DEF NotStranded
  <2>11. QED
    BY <1>0, <1>1, <2>4, <2>6, <2>9, <2>10 DEF Goto
<1>7. ASSUME NEW c \in Caller, Recheck(c)
      PROVE  pc'[Head(waiting')] = "awake"
  <2>1. ~(available > 0 /\ Head(waiting) = c)
    <3>1. CASE available > 0 /\ Head(waiting) = c
      <4>1. pc'[c] = "admitted"
        BY <1>0, <1>7, <3>1 DEF Recheck, Goto
      <4>2. QED
        BY <1>2, <4>1 DEF Holding
    <3>2. QED
      BY <3>1
  <2>2. Goto(c, "asleep") /\ waiting' = waiting /\ c \notin Holders
    BY <1>7, <2>1 DEF Recheck, gate, Holders, Holding
  <2>3. Holders = {}
    <3>1. "asleep" \in State /\ "asleep" \notin Holding
      BY DEF State, Queue, Holding
    <3>2. QED
      BY <1>0, <2>2, <3>1, GotoMoves, MovesSets
  <2>4. Head(waiting) # c /\ pc[Head(waiting)] = "awake"
    BY <1>0, <1>3, <2>1, <2>2, <2>3 DEF NotStranded
  <2>5. QED
    BY <1>0, <1>1, <2>2, <2>4 DEF Goto
\* Everybody who waits has been notified.
<1>8. ASSUME NEW c \in Caller, NEW l, l \notin Queue, GotoAndNotify(c, l)
      PROVE  pc'[Head(waiting')] = "awake"
  <2>1. /\ \A i \in DOMAIN waiting' : waiting'[i] \in Waiters'
        /\ waiting' \in Seq(Caller)
    BY QueueStep, TypesStep DEF QueueIsWaiters, Types
  <2>2. 1 \in DOMAIN waiting' /\ Head(waiting') = waiting'[1]
    BY <2>1
  <2>3. Head(waiting') \in Caller /\ pc'[Head(waiting')] \in Queue
    BY <2>1, <2>2 DEF Waiters
  <2>4. \A d \in Caller : pc'[d] # "asleep"
    BY <1>8 DEF GotoAndNotify, Queue
  <2>5. QED
    BY <2>3, <2>4 DEF Queue
<1>9. ASSUME NEW c \in Caller, Interrupt(c) \/ Release(c)
      PROVE  pc'[Head(waiting')] = "awake"
  <2>1. GotoAndNotify(c, "gone") \/ GotoAndNotify(c, "idle")
    BY <1>9 DEF Interrupt, Release
  <2>2. "gone" \notin Queue /\ "idle" \notin Queue
    BY DEF Queue
  <2>3. QED
    BY <1>8, <2>1, <2>2
\* The other steps of a call leave c with its permit.
<1>10. ASSUME NEW c \in Caller,
              \/ InterruptWindow(c)
              \/ \E est \in Estimates : Admit(c, est)
              \/ \E n \in Costs : Respond(c, n)
              \/ \E r \in BOOLEAN : Fail(c, r)
       PROVE  pc'[Head(waiting')] = "awake"
  <2>1. Moves(c, "lost") \/ Moves(c, "calling") \/ Moves(c, "leaving")
    BY <1>0, <1>10, StepMoves
  <2>2. pc'[c] \in Holding
    BY <2>1 DEF Moves, Holding
  <2>3. QED
    BY <1>2, <2>2
<1>11. CASE Tick \/ UNCHANGED vars
  <2>1. UNCHANGED <<pc, waiting>>
    BY <1>11 DEF Tick, vars, gate
  <2>2. Holders = {}
    BY <2>1 DEF Holders
  <2>3. QED
    BY <1>0, <2>1, <2>2 DEF NotStranded
<1>12. QED
  BY <1>5, <1>6, <1>7, <1>9, <1>10, <1>11 DEF Next

-----------------------------------------------------------------------------
(***************************************************************************)
(* Theorems.                                                               *)
(***************************************************************************)

LEMMA InitInv == Init => IInv
<1> SUFFICES ASSUME Init
             PROVE  IInv
  OBVIOUS
<1>1. Types
  BY GateAssumption DEF Init, Types, State, Idle
<1>2. Waiters = {} /\ Holders = {} /\ InFlight = {}
  BY DEF Init, Waiters, Holders, InFlight, Flight, Queue, Holding
<1>3. QueueIsWaiters
  <2>1. waiting = <<>> /\ DOMAIN waiting = {}
    BY DEF Init
  <2>2. QED
    BY <1>2, <2>1 DEF QueueIsWaiters
<1>4. PermitsConserved
  BY <1>2, GateAssumption, FS_EmptySet DEF Init, PermitsConserved
<1>5. NotStranded
  BY DEF Init, NotStranded
<1>6. OverrunRoom
  <2>1. Cardinality(InFlight) = 0 /\ Cardinality(Caller) \in Nat
    BY <1>2, FS_EmptySet, CallerSets
  <2>2. MaxCost * Cardinality(Caller) >= 0 /\ MaxCost * 0 = 0
    BY <2>1, GateAssumption
  <2>3. QED
    BY <2>1, <2>2, GateAssumption DEF Init, OverrunRoom
<1>7. QED
  BY <1>1, <1>3, <1>4, <1>5, <1>6 DEF IInv

\* The inductive invariant: the queue is exactly the waiters, permits are
\* conserved, the first waiter is never stranded, and calls in flight keep
\* room below the overrun bound.
THEOREM Invariance == Spec => []IInv
<1>1. IInv /\ [Next]_vars => IInv'
  BY TypesStep, QueueStep, PermitsStep, StrandStep, OverrunStep DEF IInv
<1>2. QED
  BY InitInv, <1>1, PTL DEF Spec

\* _PriorityGate never hands out more permits than it has, and never has more
\* than its capacity.
THEOREM Typing == Spec => []TypeOK
<1>1. IInv => TypeOK
  BY CallerSets, GateAssumption DEF IInv, TypeOK, PermitsConserved, Types
<1>2. QED
  BY <1>1, Invariance, PTL

\* Every permit is free or with a call: the try / finally of call_ai loses
\* none, whatever fails.
THEOREM Permits == Spec => []PermitsConserved
<1>1. IInv => PermitsConserved
  BY DEF IInv
<1>2. QED
  BY <1>1, Invariance, PTL

\* The ticket list of _PriorityGate is the waiting callers in the order of
\* their priorities, with no dead ticket.
THEOREM Tickets == Spec => []QueueIsWaiters
<1>1. IInv => QueueIsWaiters
  BY DEF IInv
<1>2. QED
  BY <1>1, Invariance, PTL

\* No wakeup is lost: with every permit free the first waiter is about to
\* look at the gate.
THEOREM NoLostWakeup == Spec => []NotStranded
<1>1. IInv => NotStranded
  BY DEF IInv
<1>2. QED
  BY <1>1, Invariance, PTL

\* The token budget is overrun by at most one call per caller.
THEOREM Overrun == Spec => []OverrunBound
<1>1. ASSUME IInv
      PROVE  OverrunBound
  <2>1. MaxCost * Cardinality(InFlight) \in Nat
        /\ MaxCost * Cardinality(Caller) \in Nat
        /\ used \in Nat /\ Budget \in Nat
    BY <1>1, CallerSets, GateAssumption DEF IInv, Types
  <2>2. QED
    BY <1>1, <2>1 DEF IInv, OverrunRoom, OverrunBound
<1>2. QED
  BY <1>1, Invariance, PTL

\* A caller that is admitted has no waiter of a better priority before it.
THEOREM Precedence == Spec => BestFirst
<1> DEFINE Fair == \A c \in Caller :
             pc[c] \notin Holding /\ pc'[c] \in Holding =>
               \A d \in Waiters \ {c} : priority[c] <= priority[d]
<1>1. ASSUME IInv, [Next]_vars
      PROVE  [Fair]_vars
  <2> SUFFICES ASSUME NEW c \in Caller,
                      pc[c] \notin Holding, pc'[c] \in Holding,
                      NEW d \in Waiters \ {c}
               PROVE  priority[c] <= priority[d]
    OBVIOUS
  <2>0. /\ Types /\ QueueIsWaiters /\ waiting # <<>>
        /\ \A e \in Caller : priority[e] \in Int
    <3>1. Types /\ QueueIsWaiters
      BY <1>1 DEF IInv
    <3>2. \E i \in DOMAIN waiting : waiting[i] = d
      BY <3>1 DEF QueueIsWaiters
    <3>3. waiting # <<>>
      BY <3>2
    <3>4. \A e \in Caller : priority[e] \in Int
      BY <3>1, GateAssumption DEF Types
    <3>5. QED
      BY <3>1, <3>3, <3>4
  \* Nobody who waits comes before the first.
  <2>1. priority[Head(waiting)] <= priority[d] /\ Head(waiting) \in Caller
    <3>1. PICK i \in DOMAIN waiting : waiting[i] = d
      BY <2>0 DEF QueueIsWaiters
    <3>2. 1 \in DOMAIN waiting /\ Head(waiting) = waiting[1] /\ (i = 1 \/ 1 < i)
      BY <2>0, <3>1, WaitingFacts
    <3>3. QED
      BY <2>0, <3>1, <3>2, WaitingFacts DEF QueueIsWaiters
  <2>2. Acquire(c) \/ Recheck(c)
    <3>1. ASSUME NEW e \in Caller, NEW l, Moves(e, l), l \notin Holding
          PROVE  FALSE
      BY <3>1 DEF Moves, Holding
    <3>2. ASSUME NEW e \in Caller, NEW l, Moves(e, l), e # c
          PROVE  FALSE
      BY <3>2 DEF Moves, Holding
    <3>3. ASSUME NEW e \in Caller, pc[e] \in Holding, NEW l, Moves(e, l)
          PROVE  FALSE
      BY <3>2, <3>3
    <3>4. ASSUME NEW e \in Caller, NEW p \in Priorities, Call(e, p)
          PROVE  FALSE
      BY <2>0, <3>1, <3>4, StepMoves DEF Holding
    <3>5. ASSUME NEW e \in Caller, Interrupt(e) \/ Release(e)
          PROVE  FALSE
      BY <2>0, <3>1, <3>5, StepMoves DEF Holding
    <3>6. ASSUME NEW e \in Caller,
                 \/ InterruptWindow(e)
                 \/ \E est \in Estimates : Admit(e, est)
                 \/ \E n \in Costs : Respond(e, n)
                 \/ \E r \in BOOLEAN : Fail(e, r)
          PROVE  FALSE
      <4>1. pc[e] \in Holding
        BY <3>6 DEF InterruptWindow, Admit, Respond, Fail, Holding
      <4>2. Moves(e, "lost") \/ Moves(e, "calling") \/ Moves(e, "leaving")
        BY <2>0, <3>6, StepMoves
      <4>3. QED
        BY <3>3, <4>1, <4>2
    <3>7. CASE Tick \/ UNCHANGED vars
      BY <3>7 DEF Tick, vars
    <3>8. ASSUME NEW e \in Caller, Acquire(e) \/ Recheck(e)
          PROVE  e = c
      BY <2>0, <3>2, <3>8, StepMoves
    <3>9. QED
      BY <1>1, <3>4, <3>5, <3>6, <3>7, <3>8 DEF Next
  <2>3. CASE Acquire(c)
    <3>1. MyTurn(c)
      <4>1. CASE ~(available > 0 /\ MyTurn(c))
        <5>1. Goto(c, "asleep")
          BY <2>3, <4>1 DEF Acquire
        <5>2. pc'[c] = "asleep"
          BY <2>0, <5>1 DEF Goto, Types
        <5>3. QED
          BY <5>2 DEF Holding
      <4>2. QED
        BY <4>1
    <3>2. QED
      BY <2>0, <2>1, <3>1 DEF MyTurn, Waiters
  <2>4. CASE Recheck(c)
    <3>1. Head(waiting) = c
      <4>1. CASE ~(available > 0 /\ Head(waiting) = c)
        <5>1. Goto(c, "asleep")
          BY <2>4, <4>1 DEF Recheck
        <5>2. pc'[c] = "asleep"
          BY <2>0, <5>1 DEF Goto, Types
        <5>3. QED
          BY <5>2 DEF Holding
      <4>2. QED
        BY <4>1
    <3>2. QED
      BY <2>1, <3>1
  <2>5. QED
    BY <2>2, <2>3, <2>4
<1>2. QED
  BY <1>1, Invariance, PTL DEF Spec, BestFirst
=============================================================================
