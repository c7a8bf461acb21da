------------------------------- MODULE AiGate -------------------------------
(***************************************************************************)
(* Calls to an AI provider, as aipl_ai.call_ai governs them: the token     *)
(* budget, the priority gate that bounds how many calls run at a time      *)
(* (_PriorityGate) and the sliding window of aipl_dist.TokenBudgetGate.    *)
(* A caller is a thread: an actor's worker, a stream, or the script.       *)
(* Both gates are monitors: a step of the model is what a thread does      *)
(* between two waits of their condition variables.                         *)
(***************************************************************************)
EXTENDS Integers, FiniteSets, Sequences, SequencesExt

CONSTANTS Caller,
          Scripts,      \* the callers Ctrl-C can interrupt
          Priorities,   \* lower is served first
          Default,      \* DEFAULT_PRIORITY
          Capacity,     \* ABCL_AI_MAX_CONCURRENT
          Budget,       \* AIPL_AI_TOKEN_BUDGET, 0 when there is none
          Costs,        \* the tokens a successful call may use
          MaxCost,      \* the most it may use
          Models,       \* the primary model and the fallback models
          Rpm, Tpm,     \* limits of the window, 0 when there is none
          Estimates,    \* the tokens a call may be estimated at
          Span,         \* the length of the window, in ticks (60 seconds)
          MaxCalls      \* bound: calls made in one execution, 0 for no bound

ASSUME GateAssumption ==
  /\ IsFiniteSet(Caller)
  /\ Scripts \subseteq Caller
  /\ Priorities \subseteq Int
  /\ Default \in Priorities
  /\ Capacity \in Nat \ {0}
  /\ Budget \in Nat
  /\ MaxCost \in Nat
  /\ Costs \subseteq 0 .. MaxCost
  /\ Models \in Nat \ {0}
  /\ Rpm \in Nat /\ Tpm \in Nat
  /\ Estimates \subseteq Nat
  /\ Span \in Nat
  /\ MaxCalls \in Nat

VARIABLES
  pc,          \* where each caller is in call_ai
  priority,    \* of its current call
  attempt,     \* the model its current call is at
  waiting,     \* _PriorityGate._waiting: the callers, in ticket order
  available,   \* _PriorityGate.available
  events,      \* TokenBudgetGate._events: age and estimate, oldest first
  used,        \* _usage: input and output tokens
  made         \* calls made so far

vars == <<pc, priority, attempt, waiting, available, events, used, made>>

gate == <<waiting, available>>

Idle    == {"idle", "refused"}
Queue   == {"asleep", "awake"}               \* in the loop of acquire
Holding == {"admitted", "calling", "leaving", "lost"}  \* with a permit
State   == Idle \cup Queue \cup Holding \cup {"checked", "gone"}

Waiters == {c \in Caller : pc[c] \in Queue}
Holders == {c \in Caller : pc[c] \in Holding}

Types ==
  /\ pc \in [Caller -> State]
  /\ priority \in [Caller -> Priorities]
  /\ attempt \in [Caller -> Nat]
  /\ waiting \in Seq(Caller)
  /\ available \in Nat
  /\ events \in Seq([age : Nat, tokens : Nat])
  /\ used \in Nat
  /\ made \in Nat

Init ==
  /\ pc = [c \in Caller |-> "idle"]
  /\ priority = [c \in Caller |-> Default]
  /\ attempt = [c \in Caller |-> 0]
  /\ waiting = <<>>
  /\ available = Capacity
  /\ events = <<>>
  /\ used = 0
  /\ made = 0

Goto(c, l) == pc' = [pc EXCEPT ![c] = l]

\* notify_all: c goes to l and the threads asleep in wait() get to look again.
GotoAndNotify(c, l) ==
  pc' = [d \in Caller |-> IF d = c THEN l
                          ELSE IF pc[d] = "asleep" THEN "awake" ELSE pc[d]]

-----------------------------------------------------------------------------
\* Bound: callers come back until MaxCalls calls are made.
Counted ==
  IF MaxCalls = 0 THEN UNCHANGED made
                  ELSE made < MaxCalls /\ made' = made + 1

\* Faulty variant: the budget is checked with > instead of >=.
CallOffByOne(c, p) ==
  /\ pc[c] \in Idle
  /\ Counted
  /\ priority' = [priority EXCEPT ![c] = p]
  /\ attempt' = [attempt EXCEPT ![c] = 0]
  /\ Goto(c, IF Budget > 0 /\ used > Budget THEN "refused" ELSE "checked")
  /\ UNCHANGED <<gate, events, used>>

\* _check_budget: refuse the call, or go on to the gate.
Call(c, p) ==
  /\ pc[c] \in Idle
  /\ Counted
  /\ priority' = [priority EXCEPT ![c] = p]
  /\ attempt' = [attempt EXCEPT ![c] = 0]
  /\ Goto(c, IF Budget > 0 /\ used >= Budget THEN "refused" ELSE "checked")
  /\ UNCHANGED <<gate, events, used>>

\* Append and sort: the ticket of c goes behind those of its priority and
\* better, at position k + 1.
Enqueue(c, k) ==
  /\ \A i \in DOMAIN waiting :
       (priority[waiting[i]] <= priority[c]) <=> (i <= k)
  /\ waiting' = InsertAt(waiting, k + 1, c)

\* Faulty variant: nobody has precedence over a newcomer.
AnyTurn(c) == TRUE

\* _is_my_turn.
MyTurn(c) == waiting # <<>> => priority[c] <= priority[Head(waiting)]

\* acquire: take a free permit, or a ticket.
Acquire(c) ==
  /\ pc[c] = "checked"
  /\ \/ /\ available > 0
        /\ MyTurn(c)
        /\ available' = available - 1
        /\ Goto(c, "admitted")
        /\ UNCHANGED waiting
     \/ /\ ~(available > 0 /\ MyTurn(c))
        /\ \E k \in 0 .. Len(waiting) : Enqueue(c, k)
        /\ Goto(c, "asleep")
        /\ UNCHANGED available
  /\ UNCHANGED <<priority, attempt, events, used, made>>

\* Faulty variant: the waiter goes on without taking the permit.
RecheckTakesNone(c) ==
  /\ pc[c] = "awake"
  /\ \/ /\ available > 0
        /\ Head(waiting) = c
        /\ waiting' = Tail(waiting)
        /\ Goto(c, "admitted")
     \/ /\ ~(available > 0 /\ Head(waiting) = c)
        /\ Goto(c, "asleep")
        /\ UNCHANGED waiting
  /\ UNCHANGED <<priority, attempt, available, events, used, made>>

\* A woken waiter looks again: it goes on when its ticket is the first and a
\* permit is free, and waits for the next notification when not.
Recheck(c) ==
  /\ pc[c] = "awake"
  /\ \/ /\ available > 0
        /\ Head(waiting) = c
        /\ waiting' = Tail(waiting)
        /\ available' = available - 1
        /\ Goto(c, "admitted")
     \/ /\ ~(available > 0 /\ Head(waiting) = c)
        /\ Goto(c, "asleep")
        /\ UNCHANGED gate
  /\ UNCHANGED <<priority, attempt, events, used, made>>

\* Faulty variant: the dead ticket stays in the queue.
InterruptLeavesTicket(c) ==
  /\ c \in Scripts
  /\ pc[c] \in Queue
  /\ GotoAndNotify(c, "gone")
  /\ UNCHANGED <<priority, attempt, gate, events, used, made>>

\* Ctrl-C in the wait: the ticket is removed, the others look again, and the
\* script ends.
Interrupt(c) ==
  /\ c \in Scripts
  /\ pc[c] \in Queue
  /\ \E i \in DOMAIN waiting :
       waiting[i] = c /\ waiting' = RemoveAt(waiting, i)
  /\ GotoAndNotify(c, "gone")
  /\ UNCHANGED <<priority, attempt, available, events, used, made>>

-----------------------------------------------------------------------------
TokensIn(s) == FoldLeft(LAMBDA n, e : n + e.tokens, 0, s)

CanAdmit(est) ==
  /\ Rpm > 0 => Len(events) + 1 <= Rpm
  /\ Tpm > 0 => TokensIn(events) + est <= Tpm

\* TokenBudgetGate.acquire, with the permit of the priority gate in hand.
Admit(c, est) ==
  /\ pc[c] = "admitted"
  /\ IF Rpm = 0 /\ Tpm = 0
       THEN UNCHANGED events
       ELSE /\ CanAdmit(est)
            /\ events' = Append(events, [age |-> 0, tokens |-> est])
  /\ Goto(c, "calling")
  /\ UNCHANGED <<priority, attempt, gate, used, made>>

\* Ctrl-C in the wait for the window ends the script too; the permit is taken
\* before the try whose finally returns it, and is lost.
InterruptWindow(c) ==
  /\ c \in Scripts
  /\ pc[c] = "admitted"
  /\ Goto(c, "lost")
  /\ UNCHANGED <<priority, attempt, gate, events, used, made>>

\* Time passes.  Every operation prunes what is older than the window before
\* it looks, so the model drops an entry as soon as it is.
Tick ==
  /\ events # <<>>
  /\ \E k \in 0 .. Len(events) :
       /\ \A i \in DOMAIN events : events[i].age >= Span <=> i <= k
       /\ events' = [i \in 1 .. Len(events) - k |->
                       [events[i + k] EXCEPT !.age = @ + 1]]
  /\ UNCHANGED <<pc, priority, attempt, gate, used, made>>

-----------------------------------------------------------------------------
\* The provider answers: the tokens it used are recorded.
Respond(c, tokens) ==
  /\ pc[c] = "calling"
  /\ used' = used + tokens
  /\ Goto(c, "leaving")
  /\ UNCHANGED <<priority, attempt, gate, events, made>>

\* Faulty variant: a failed call leaves without the finally clause.
FailKeepsPermit(c, retryable) ==
  /\ pc[c] = "calling"
  /\ IF retryable /\ attempt[c] + 1 < Models
       THEN attempt' = [attempt EXCEPT ![c] = @ + 1] /\ UNCHANGED pc
       ELSE Goto(c, "idle") /\ UNCHANGED attempt
  /\ UNCHANGED <<priority, gate, events, used, made>>

\* The provider fails: the next model is tried when the failure is retryable
\* and there is one.
Fail(c, retryable) ==
  /\ pc[c] = "calling"
  /\ IF retryable /\ attempt[c] + 1 < Models
       THEN attempt' = [attempt EXCEPT ![c] = @ + 1] /\ UNCHANGED pc
       ELSE Goto(c, "leaving") /\ UNCHANGED attempt
  /\ UNCHANGED <<priority, gate, events, used, made>>

\* Faulty variant: release wakes one waiter, which need not be the first.
ReleaseNotifiesOne(c) ==
  /\ pc[c] = "leaving"
  /\ available' = available + 1
  /\ IF \E d \in Caller : pc[d] = "asleep"
       THEN \E d \in Caller :
              /\ pc[d] = "asleep"
              /\ pc' = [pc EXCEPT ![c] = "idle", ![d] = "awake"]
       ELSE Goto(c, "idle")
  /\ UNCHANGED <<priority, attempt, waiting, events, used, made>>

\* The finally clause: release.
Release(c) ==
  /\ pc[c] = "leaving"
  /\ available' = available + 1
  /\ GotoAndNotify(c, "idle")
  /\ UNCHANGED <<priority, attempt, waiting, events, used, made>>

Next ==
  \/ \E c \in Caller :
       \/ \E p \in Priorities : Call(c, p)
       \/ Acquire(c) \/ Recheck(c) \/ Interrupt(c) \/ InterruptWindow(c)
       \/ Release(c)
       \/ \E est \in Estimates : Admit(c, est)
       \/ \E n \in Costs : Respond(c, n)
       \/ \E r \in BOOLEAN : Fail(c, r)
  \/ Tick

Spec == Init /\ [][Next]_vars

\* Threads are scheduled, providers answer or fail, and time passes.
Fairness ==
  /\ \A c \in Caller :
       /\ WF_vars(Acquire(c)) /\ WF_vars(Recheck(c)) /\ WF_vars(Release(c))
       /\ WF_vars(\E est \in Estimates : Admit(c, est))
       /\ WF_vars((\E n \in Costs : Respond(c, n)) \/ Fail(c, FALSE))
  /\ WF_vars(Tick)

FairSpec == Spec /\ Fairness

-----------------------------------------------------------------------------
(***************************************************************************)
(* Properties.                                                             *)
(***************************************************************************)

TypeOK == Types /\ available <= Capacity

\* At most Capacity calls run, and every permit comes back: on success, on
\* every kind of failure and when a waiter is interrupted, the script that is
\* interrupted in its wait for the window excepted.  (The counter of
\* _PriorityGate and the try / finally of call_ai.)
PermitsConserved == available = Capacity - Cardinality(Holders)

\* The queue lists the waiting callers, each once, in the order of their
\* priorities: no ticket of a caller that left, none of one that was admitted.
QueueIsWaiters ==
  /\ {waiting[i] : i \in DOMAIN waiting} = Waiters
  /\ \A i, j \in DOMAIN waiting :
       i < j => /\ waiting[i] # waiting[j]
                /\ priority[waiting[i]] <= priority[waiting[j]]

\* When no permit is out, the first waiter is about to look: a notification
\* that reached it too early was not its last.
NotStranded ==
  waiting # <<>> /\ Holders = {} => pc[Head(waiting)] = "awake"

\* A caller is never admitted past a waiter of a better priority.
BestFirst ==
  [][\A c \in Caller :
       pc[c] \notin Holding /\ pc'[c] \in Holding =>
         \A d \in Waiters \ {c} : priority[c] <= priority[d]]_vars

\* The budget is checked before the call and charged after it, so calls that
\* passed the check together overrun it; by no more than one call per caller.
OverrunBound ==
  Budget > 0 => used <= Budget - 1 + MaxCost * Cardinality(Caller)

\* The calls that passed the check and are not charged yet keep room for
\* themselves below that bound.
Flight == Queue \cup {"checked", "admitted", "calling"}

InFlight == {c \in Caller : pc[c] \in Flight}

OverrunRoom ==
  Budget > 0 => used + MaxCost * Cardinality(InFlight)
                  <= Budget - 1 + MaxCost * Cardinality(Caller)

IInv == /\ Types
        /\ QueueIsWaiters
        /\ PermitsConserved
        /\ NotStranded
        /\ OverrunRoom

\* Another caller makes a new call of a priority at least as good as that of c.
Rival(c) ==
  \E d \in Caller \ {c} :
    pc[d] \in Idle /\ pc'[d] \notin Idle /\ priority'[d] <= priority[c]

\* Another caller makes a new call.
NewCall(c) == \E d \in Caller \ {c} : pc[d] \in Idle /\ pc'[d] \notin Idle

\* Callers come back without end.  A call that passed the check gets a permit
\* unless calls as good as it, or better, keep coming: they take a permit that
\* is free before the waiters look (_is_my_turn compares with <=), and a call
\* may wait for ever behind them, but never for worse calls.  With its permit
\* it competes for the window, where there is no order and no priority: it ends
\* unless calls of any priority keep coming.
Served ==
  \A c \in Caller :
    /\ <>[][~Rival(c)]_vars =>
         (pc[c] = "checked") ~> (pc[c] \in Holding \cup Idle \cup {"gone"})
    /\ <>[][~NewCall(c)]_vars =>
         (pc[c] = "checked") ~> (pc[c] \in Idle \cup {"gone", "lost"})

\* _PriorityGate: "When `available > 0` the caller proceeds immediately": no
\* permit is left idle while the first waiter sleeps.
NoIdlePermit ==
  available > 0 /\ waiting # <<>> => pc[Head(waiting)] # "asleep"
=============================================================================
