---------------------------- MODULE ActorRuntime ----------------------------
(***************************************************************************)
(* The message layer of the Python AIPL runtime (aipl_runtime.py and the   *)
(* statements and builtins of aipl_interp.py that send, wait, answer,      *)
(* select and stop).  Every actor is a worker thread with a FIFO mailbox;  *)
(* the main thread runs the script's top-level statements, waits until the *)
(* system is idle and stops the actors; streamer threads deliver the       *)
(* chunks of ai_stream.  What a method body or the script does next is the *)
(* program's choice: a thread whose pc is "run" may take any step that     *)
(* program code can take.                                                  *)
(***************************************************************************)
EXTENDS Integers, FiniteSets, Sequences, SequencesExt

CONSTANTS Actor,      \* the actors the script may spawn
          Main,       \* the thread that executes Interpreter.run
          Streamer,   \* the background threads of ai_stream
          HasInit,    \* the actors whose class declares a method init
          Leaky,      \* the actors whose field initialisers send messages, or
                      \* hand out self
          Ops,        \* the optional statements the program uses
          Sends,      \* who holds, and so may send to, a reference of whom
          Calls,      \* which of them may block on the reply
          MaxMsgs     \* bound: messages sent in one execution

ASSUME RuntimeAssumption ==
  /\ Main \notin Actor \cup Streamer
  /\ Actor \cap Streamer = {}
  /\ HasInit \subseteq Actor
  /\ Leaky \subseteq Actor
  /\ Ops \subseteq {"select", "suicide", "stop", "pause", "timeout"}
  /\ Sends \subseteq (Actor \cup Streamer \cup {Main}) \X Actor
  /\ Calls \subseteq Sends \cap ((Actor \cup {Main}) \X Actor)
  /\ MaxMsgs \in Nat

Proc  == Actor \cup Streamer \cup {Main}
Msg   == 1 .. MaxMsgs       \* messages, numbered in the order of their sends
Stop  == 0                  \* the "__stop__" sentinel inside a mailbox
NoMsg == 0                  \* an empty slot of a thread
Item  == 0 .. MaxMsgs

\* What a message is: its sending thread, the actor it is sent as (Main when
\* sender is None), its actor and its form.  An init message is the one
\* spawn_actor sends; now and future carry a Future.
Kind     == {"none", "init", "past", "now", "future"}
Envelope == [from : Proc, sender : Proc, to : Proc, kind : Kind]
Blank    == [from |-> Main, sender |-> Main, to |-> Main, kind |-> "none"]
FutureState == {"absent", "pending", "value", "null"}

VARIABLES
  pc,           \* what each thread is executing
  mailbox,      \* Actor.mailbox: items in queue order
  cur,          \* the message an actor's worker has dequeued
  call,         \* the message a thread is enqueueing, or whose reply it awaits
  held,         \* select: drained items not yet put back
  picked,       \* select: the matched message
  saved,        \* the messages the exit snapshot drained from a mailbox
  stopped,      \* Actor._stopped
  making,       \* the actors whose field initialisers a thread runs, last first
  known,        \* the actors that spawn_actor has returned, or that leaked
  envelope,     \* the contents of the messages
  future,       \* the Future of each message
  sent,         \* how many messages have been created
  outstanding,  \* Scheduler._outstanding
  gate,         \* _run_gate is set
  streak,       \* wait_idle: idle_since is not None
  verdict,      \* what wait_idle returned
  victims       \* shutdown: the actors still to be stopped

vars == <<pc, mailbox, cur, call, held, picked, saved, stopped, making, known,
          envelope, future, sent, outstanding, gate, streak, verdict, victims>>

work   == <<cur, held, picked, saved>>
idling == <<streak, verdict, victims>>

WorkerPc == {"unborn", "made", "top", "get", "run", "put", "wait", "select",
             "requeue", "done", "exited"}
MainPc   == {"idle", "save", "halt"}

Types ==
  /\ pc \in [Proc -> WorkerPc \cup MainPc]
  /\ mailbox \in [Actor -> Seq(Item)]
  /\ cur \in [Actor -> Item]
  /\ call \in [Proc -> Item]
  /\ held \in [Actor -> Seq(Item)]
  /\ picked \in [Actor -> Item]
  /\ saved \in [Actor -> SUBSET Msg]
  /\ stopped \in [Actor -> BOOLEAN]
  /\ making \in [Proc -> Seq(Actor)]
  /\ known \subseteq Actor
  /\ envelope \in [Msg -> Envelope]
  /\ future \in [Msg -> FutureState]
  /\ sent \in Item
  /\ gate \in BOOLEAN
  /\ streak \in BOOLEAN
  /\ verdict \in {"none", "idle", "timeout"}
  /\ victims \subseteq Actor

TypeOK == Types /\ outstanding \in Nat

Init ==
  /\ pc = [p \in Proc |-> IF p = Main THEN "run" ELSE "unborn"]
  /\ mailbox = [a \in Actor |-> <<>>]
  /\ cur = [a \in Actor |-> NoMsg]
  /\ call = [p \in Proc |-> NoMsg]
  /\ held = [a \in Actor |-> <<>>]
  /\ picked = [a \in Actor |-> NoMsg]
  /\ saved = [a \in Actor |-> {}]
  /\ stopped = [a \in Actor |-> FALSE]
  /\ making = [p \in Proc |-> <<>>]
  /\ known = {}
  /\ envelope = [m \in Msg |-> Blank]
  /\ future = [m \in Msg |-> "absent"]
  /\ sent = 0
  /\ outstanding = 0
  /\ gate = TRUE
  /\ streak = FALSE
  /\ verdict = "none"
  /\ victims = {}

Goto(p, l) == pc' = [pc EXCEPT ![p] = l]

-----------------------------------------------------------------------------
(***************************************************************************)
(* Whose frame a thread runs in.  spawn_actor evaluates the field          *)
(* initialisers in the spawning thread, in a frame of the new actor; one of*)
(* them may spawn in its turn.                                             *)
(***************************************************************************)

\* frame.actor; for Main, and for a streamer, none.
Self(p) == IF making[p] = <<>> THEN p ELSE Head(making[p])

\* The sender of what the thread sends.  An initialiser that sends without
\* handing out self does so in a top-level function, whose frame has no actor.
Speaker(p) == IF making[p] = <<>> \/ Self(p) \in Leaky THEN Self(p) ELSE Main

(***************************************************************************)
(* Sending.  send_method increments the outstanding count and then puts    *)
(* the message: two steps, with other threads in between.                  *)
(***************************************************************************)

\* Faulty variant: a future-type send forgets message_started().
StartSendForgetsFuture(p, a, k) ==
  /\ sent < MaxMsgs
  /\ sent' = sent + 1
  /\ envelope' = [envelope EXCEPT ![sent + 1] =
                    [from |-> p, sender |-> Speaker(p), to |-> a, kind |-> k]]
  /\ future' = [future EXCEPT ![sent + 1] =
                    IF k \in {"now", "future"} THEN "pending" ELSE "absent"]
  /\ call' = [call EXCEPT ![p] = sent + 1]
  /\ outstanding' = IF k = "future" THEN outstanding ELSE outstanding + 1

\* message_started() on behalf of thread p, for a new message of kind k to a.
StartSend(p, a, k) ==
  /\ sent < MaxMsgs
  /\ sent' = sent + 1
  /\ envelope' = [envelope EXCEPT ![sent + 1] =
                    [from |-> p, sender |-> Speaker(p), to |-> a, kind |-> k]]
  /\ future' = [future EXCEPT ![sent + 1] =
                    IF k \in {"now", "future"} THEN "pending" ELSE "absent"]
  /\ call' = [call EXCEPT ![p] = sent + 1]
  /\ outstanding' = outstanding + 1

\* send / now / future statements.  A streamer only sends past messages.
Send(p, a, k) ==
  /\ pc[p] = "run"
  /\ a \in known
  /\ <<Self(p), a>> \in Sends
  /\ k = "now" => <<Self(p), a>> \in Calls
  /\ p \in Streamer => k = "past"
  /\ StartSend(p, a, k)
  /\ Goto(p, "put")
  /\ UNCHANGED <<mailbox, work, stopped, making, known, gate, idling>>

\* Faulty variant: the message jumps the queue.
PutInFront(p) ==
  LET m == call[p]
      a == envelope[m].to
      k == envelope[m].kind
  IN /\ pc[p] = "put"
     /\ mailbox' = [mailbox EXCEPT ![a] = <<m>> \o @]
     /\ known' = IF k = "init" THEN known \cup {a} ELSE known
     /\ Goto(p, IF k = "now" THEN "wait" ELSE "run")
     /\ call' = [call EXCEPT ![p] = IF k = "now" THEN m ELSE NoMsg]
     /\ UNCHANGED <<work, stopped, making, envelope, future, sent, outstanding,
                    gate, idling>>

\* mailbox.put(); a now-sender goes on to fut.get().  When the message is the
\* init of a spawn, spawn_actor returns and the reference becomes known.
Put(p) ==
  LET m == call[p]
      a == envelope[m].to
      k == envelope[m].kind
  IN /\ pc[p] = "put"
     /\ mailbox' = [mailbox EXCEPT ![a] = Append(@, m)]
     /\ known' = IF k = "init" THEN known \cup {a} ELSE known
     /\ Goto(p, IF k = "now" THEN "wait" ELSE "run")
     /\ call' = [call EXCEPT ![p] = IF k = "now" THEN m ELSE NoMsg]
     /\ UNCHANGED <<work, stopped, making, envelope, future, sent, outstanding,
                    gate, idling>>

\* await(f) on the future of an earlier future-type send of this thread.
Await(p, m) ==
  /\ pc[p] = "run"
  /\ p \notin Streamer
  /\ envelope[m].from = p
  /\ envelope[m].kind = "future"
  /\ <<Self(p), envelope[m].to>> \in Calls
  /\ future[m] = "pending"
  /\ call' = [call EXCEPT ![p] = m]
  /\ Goto(p, "wait")
  /\ UNCHANGED <<mailbox, work, stopped, making, known, envelope, future,
                 sent, outstanding, gate, idling>>

\* Future.get() returns.
Wake(p) ==
  /\ pc[p] = "wait"
  /\ future[call[p]] # "pending"
  /\ call' = [call EXCEPT ![p] = NoMsg]
  /\ Goto(p, "run")
  /\ UNCHANGED <<mailbox, work, stopped, making, known, envelope, future,
                 sent, outstanding, gate, idling>>

\* spawn_actor makes the Actor and evaluates the field initialisers: a leaky
\* one lets others send to an actor that is not registered and has no thread.
Spawn(p, a) ==
  /\ pc[p] = "run"
  /\ p \notin Streamer
  /\ <<Self(p), a>> \in Sends
  /\ pc[a] = "unborn"
  /\ Goto(a, "made")
  /\ making' = [making EXCEPT ![p] = <<a>> \o @]
  /\ known' = IF a \in Leaky THEN known \cup {a} ELSE known
  /\ UNCHANGED <<mailbox, work, call, stopped, envelope, future, sent,
                 outstanding, gate, idling>>

\* An initialiser raises: spawn_actor does, and the actor is never started.
SpawnRaises(p) ==
  /\ pc[p] = "run"
  /\ making[p] # <<>>
  /\ making' = [making EXCEPT ![p] = Tail(@)]
  /\ UNCHANGED <<pc, mailbox, work, call, stopped, known, envelope, future,
                 sent, outstanding, gate, idling>>

\* Faulty variant: the reference is handed out before init is put.
StartPublishesEarly(p) ==
  LET a == Self(p)
  IN /\ pc[p] = "run"
     /\ p \notin Streamer
     /\ making[p] # <<>>
     /\ pc[a] = "made"
     /\ making' = [making EXCEPT ![p] = Tail(@)]
     /\ known' = known \cup {a}
     /\ IF a \in HasInit
          THEN /\ StartSend(p, a, "init")
               /\ pc' = [pc EXCEPT ![a] = "top", ![p] = "put"]
          ELSE /\ Goto(a, "top")
               /\ UNCHANGED <<envelope, future, sent, call, outstanding>>
     /\ UNCHANGED <<mailbox, work, stopped, gate, idling>>

\* The rest of spawn_actor: register, start the worker thread, send init if the
\* class has one.  The caller holds the reference only after that.
Start(p) ==
  LET a == Self(p)
  IN /\ pc[p] = "run"
     /\ p \notin Streamer
     /\ making[p] # <<>>
     /\ pc[a] = "made"
     /\ making' = [making EXCEPT ![p] = Tail(@)]
     /\ IF a \in HasInit
          THEN /\ StartSend(p, a, "init")
               /\ pc' = [pc EXCEPT ![a] = "top", ![p] = "put"]
               /\ UNCHANGED known
          ELSE /\ Goto(a, "top")
               /\ known' = known \cup {a}
               /\ UNCHANGED <<envelope, future, sent, call, outstanding>>
     /\ UNCHANGED <<mailbox, work, stopped, gate, idling>>

\* ai_stream starts a background thread and returns at once.
AiStream(p, s) ==
  /\ pc[p] = "run"
  /\ p \notin Streamer
  /\ pc[s] = "unborn"
  /\ Goto(s, "run")
  /\ UNCHANGED <<mailbox, work, call, stopped, making, known, envelope,
                 future, sent, outstanding, gate, idling>>

\* The stream has delivered its last chunk.
EndStream(s) ==
  /\ pc[s] = "run"
  /\ Goto(s, "exited")
  /\ UNCHANGED <<mailbox, work, call, stopped, making, known, envelope,
                 future, sent, outstanding, gate, idling>>

-----------------------------------------------------------------------------
(***************************************************************************)
(* The worker loop Actor._run and the dispatch of one message.             *)
(***************************************************************************)

\* Faulty variants: a closed gate ends the worker; the gate is not looked at.
PollLeavesWhenPaused(a) ==
  /\ pc[a] = "top"
  /\ Goto(a, IF stopped[a] \/ ~gate THEN "exited" ELSE "get")
  /\ UNCHANGED <<mailbox, work, call, stopped, making, known, envelope,
                 future, sent, outstanding, gate, idling>>

PollIgnoresGate(a) ==
  /\ pc[a] = "top"
  /\ Goto(a, IF stopped[a] THEN "exited" ELSE "get")
  /\ UNCHANGED <<mailbox, work, call, stopped, making, known, envelope,
                 future, sent, outstanding, gate, idling>>

\* Top of the loop: leave when stopped, park while the gate is closed.
Poll(a) ==
  /\ pc[a] = "top"
  /\ \/ stopped[a] /\ Goto(a, "exited")
     \/ ~stopped[a] /\ gate /\ Goto(a, "get")
  /\ UNCHANGED <<mailbox, work, call, stopped, making, known, envelope,
                 future, sent, outstanding, gate, idling>>

\* Faulty variant: the sentinel is counted as a message that is done.
GetCountsSentinel(a) ==
  /\ pc[a] = "get"
  /\ mailbox[a] # <<>>
  /\ mailbox' = [mailbox EXCEPT ![a] = Tail(@)]
  /\ cur' = [cur EXCEPT ![a] = Head(mailbox[a])]
  /\ IF Head(mailbox[a]) = Stop
       THEN Goto(a, "exited") /\ outstanding' = outstanding - 1
       ELSE Goto(a, "run") /\ UNCHANGED outstanding
  /\ UNCHANGED <<held, picked, saved, call, stopped, making, known, envelope,
                 future, sent, gate, idling>>

\* Faulty variant: the get has no timeout, so that an idle worker never sees
\* the gate.
GetBlocks(a) ==
  /\ pc[a] = "get"
  /\ mailbox[a] # <<>>
  /\ mailbox' = [mailbox EXCEPT ![a] = Tail(@)]
  /\ cur' = [cur EXCEPT ![a] = Head(mailbox[a])]
  /\ Goto(a, IF Head(mailbox[a]) = Stop THEN "exited" ELSE "run")
  /\ UNCHANGED <<held, picked, saved, call, stopped, making, known, envelope,
                 future, sent, outstanding, gate, idling>>

\* mailbox.get(timeout=0.05): Empty, the sentinel, or a message to dispatch.
Get(a) ==
  /\ pc[a] = "get"
  /\ \/ /\ mailbox[a] = <<>>
        /\ Goto(a, "top")
        /\ UNCHANGED <<mailbox, cur>>
     \/ /\ mailbox[a] # <<>>
        /\ mailbox' = [mailbox EXCEPT ![a] = Tail(@)]
        /\ cur' = [cur EXCEPT ![a] = Head(mailbox[a])]
        /\ Goto(a, IF Head(mailbox[a]) = Stop THEN "exited" ELSE "run")
  /\ UNCHANGED <<held, picked, saved, call, stopped, making, known, envelope,
                 future, sent, outstanding, gate, idling>>

\* Faulty variant: the last value stays.
SettleAgain(m, v) ==
  future' = [future EXCEPT ![m] = IF @ # "absent" THEN v ELSE @]

\* Future.set(): the first value stays.
Settle(m, v) ==
  future' = [future EXCEPT ![m] = IF @ = "pending" THEN v ELSE @]

\* reply(x): answer the caller's future; without one, send reply(x) back to
\* the sending actor.  (The frame of an initialiser has neither.)
Reply(a) ==
  LET m == cur[a]
      s == envelope[m].sender
  IN /\ pc[a] = "run"
     /\ making[a] = <<>>
     /\ \/ /\ future[m] # "absent"
           /\ Settle(m, "value")
           /\ UNCHANGED <<pc, call, envelope, sent, outstanding>>
        \/ /\ future[m] = "absent"
           /\ s \in Actor
           /\ envelope[m].kind = "past"
           /\ StartSend(a, s, "past")
           /\ Goto(a, "put")
     /\ UNCHANGED <<mailbox, work, stopped, making, known, gate, idling>>

\* Faulty variant: nothing unblocks the caller when the body did not return.
CompleteForgetsNone(a) ==
  /\ pc[a] = "run"
  /\ making[a] = <<>>
  /\ \E v \in {"value", "pending"} : Settle(cur[a], v)
  /\ Goto(a, "done")
  /\ UNCHANGED <<mailbox, work, call, stopped, making, known, envelope, sent,
                 outstanding, gate, idling>>

\* The dispatch ends and settles the future: with the returned value, or with
\* None when the body fell off its end, raised, or was never run (quarantined
\* actor, unknown method, wrong number of arguments).
Complete(a) ==
  /\ pc[a] = "run"
  /\ making[a] = <<>>
  /\ \E v \in {"value", "null"} : Settle(cur[a], v)
  /\ Goto(a, "done")
  /\ UNCHANGED <<mailbox, work, call, stopped, making, known, envelope, sent,
                 outstanding, gate, idling>>

\* Faulty variant: a failed dispatch skips message_done().
MessageDoneMissing(a) ==
  /\ pc[a] = "done"
  /\ outstanding' \in {outstanding - 1, outstanding}
  /\ cur' = [cur EXCEPT ![a] = NoMsg]
  /\ Goto(a, "top")
  /\ UNCHANGED <<mailbox, held, picked, saved, call, stopped, making, known,
                 envelope, future, sent, gate, idling>>

\* The finally clause: message_done().
MessageDone(a) ==
  /\ pc[a] = "done"
  /\ outstanding' = outstanding - 1
  /\ cur' = [cur EXCEPT ![a] = NoMsg]
  /\ Goto(a, "top")
  /\ UNCHANGED <<mailbox, held, picked, saved, call, stopped, making, known,
                 envelope, future, sent, gate, idling>>

-----------------------------------------------------------------------------
(***************************************************************************)
(* select { case ... }: drain the whole mailbox, take the first match, put *)
(* the others back one at a time.  Which item matches, and whether one     *)
(* does, depends on the arms.                                              *)
(***************************************************************************)

EnterSelect(a) ==
  /\ "select" \in Ops
  /\ pc[a] = "run"
  /\ making[a] = <<>>
  /\ Goto(a, "select")
  /\ UNCHANGED <<mailbox, work, call, stopped, making, known, envelope,
                 future, sent, outstanding, gate, idling>>

Drain(a, rest, m) ==
  /\ pc[a] = "select"
  /\ held' = [held EXCEPT ![a] = rest]
  /\ picked' = [picked EXCEPT ![a] = m]
  /\ mailbox' = [mailbox EXCEPT ![a] = <<>>]
  /\ Goto(a, "requeue")
  /\ UNCHANGED <<cur, saved, call, stopped, making, known, envelope, future,
                 sent, outstanding, gate, idling>>

SelectMatch(a) ==
  \E i \in DOMAIN mailbox[a] :
    /\ mailbox[a][i] # Stop
    /\ Drain(a, RemoveAt(mailbox[a], i), mailbox[a][i])

SelectMiss(a) == Drain(a, mailbox[a], NoMsg)

\* One put of the re-queueing loop.
Requeue(a) ==
  /\ pc[a] = "requeue"
  /\ held[a] # <<>>
  /\ mailbox' = [mailbox EXCEPT ![a] = Append(@, Head(held[a]))]
  /\ held' = [held EXCEPT ![a] = Tail(@)]
  /\ UNCHANGED <<pc, cur, picked, saved, call, stopped, making, known,
                 envelope, future, sent, outstanding, gate, idling>>

\* Faulty variant: the selected message is never counted as done.
SelectTakeUncounted(a) ==
  /\ pc[a] = "requeue"
  /\ held[a] = <<>>
  /\ picked[a] # NoMsg
  /\ picked' = [picked EXCEPT ![a] = NoMsg]
  /\ Goto(a, "run")
  /\ UNCHANGED <<mailbox, cur, held, saved, call, stopped, making, known,
                 envelope, future, sent, outstanding, gate, idling>>

\* After the loop: count the matched message as done and run its case body in
\* the frame of the outer message; or, with no match, poll again after a sleep
\* or take the timeout arm.
SelectTake(a) ==
  /\ pc[a] = "requeue"
  /\ held[a] = <<>>
  /\ picked[a] # NoMsg
  /\ outstanding' = outstanding - 1
  /\ picked' = [picked EXCEPT ![a] = NoMsg]
  /\ Goto(a, "run")
  /\ UNCHANGED <<mailbox, cur, held, saved, call, stopped, making, known,
                 envelope, future, sent, gate, idling>>

SelectRetry(a) ==
  /\ pc[a] = "requeue"
  /\ held[a] = <<>>
  /\ picked[a] = NoMsg
  /\ \E l \in {"select", "run"} : Goto(a, l)
  /\ UNCHANGED <<mailbox, work, call, stopped, making, known, envelope,
                 future, sent, outstanding, gate, idling>>

-----------------------------------------------------------------------------
(***************************************************************************)
(* Stopping, pausing and the end of the program.                           *)
(***************************************************************************)

\* Actor.stop(): raise the flag and put the sentinel.  No step of the worker
\* distinguishes the two writes: seeing either one, it leaves.
StopActor(a) ==
  /\ stopped' = [stopped EXCEPT ![a] = TRUE]
  /\ mailbox' = [mailbox EXCEPT ![a] = Append(@, Stop)]

\* suicide(): only the flag.
Suicide(p) ==
  /\ "suicide" \in Ops
  /\ pc[p] = "run"
  /\ Self(p) \in Actor
  /\ stopped' = [stopped EXCEPT ![Self(p)] = TRUE]
  /\ UNCHANGED <<pc, mailbox, work, call, making, known, envelope, future, sent,
                 outstanding, gate, idling>>

\* A pool retires a member, which is an actor that spawn_actor has returned, or
\* is destroyed, on behalf of thread p.
Retire(p, a) ==
  /\ "stop" \in Ops
  /\ pc[p] = "run"
  /\ p \notin Streamer
  /\ a \in known
  /\ pc[a] # "made"
  /\ <<Self(p), a>> \in Sends
  /\ ~stopped[a]
  /\ StopActor(a)
  /\ UNCHANGED <<pc, work, call, making, known, envelope, future, sent,
                 outstanding, gate, idling>>

\* pause_all() and resume_all(), from the dashboard.
ToggleGate ==
  /\ "pause" \in Ops
  /\ gate' = ~gate
  /\ UNCHANGED <<pc, mailbox, work, call, stopped, making, known, envelope,
                 future, sent, outstanding, idling>>

\* The script's statements are done; Interpreter.run calls wait_idle.
EndScript ==
  /\ pc[Main] = "run"
  /\ making[Main] = <<>>
  /\ Goto(Main, "idle")
  /\ UNCHANGED <<mailbox, work, call, stopped, making, known, envelope,
                 future, sent, outstanding, gate, idling>>

\* wait_idle returns v.
Return(v) ==
  /\ verdict' = v
  /\ Goto(Main, "save")
  /\ UNCHANGED <<streak, victims>>

\* One round of the wait_idle loop.
WaitIdle ==
  /\ pc[Main] = "idle"
  /\ \/ outstanding = 0 /\ ~streak /\ streak' = TRUE
        /\ UNCHANGED <<pc, verdict, victims>>
     \/ outstanding = 0 /\ streak /\ Return("idle")
     \/ outstanding # 0 /\ streak /\ streak' = FALSE
        /\ UNCHANGED <<pc, verdict, victims>>
     \/ "timeout" \in Ops /\ Return("timeout")
  /\ UNCHANGED <<mailbox, work, call, stopped, making, known, envelope,
                 future, sent, outstanding, gate>>

\* _save_state_with_pending: Mailbox.drain() of the actors that are values of
\* globals, item by item, while the workers run.  What is drained is written
\* to the snapshot, or nowhere when no state file is set.
Save(a) ==
  /\ pc[Main] = "save"
  /\ mailbox[a] # <<>>
  /\ mailbox' = [mailbox EXCEPT ![a] = Tail(@)]
  /\ saved' = [saved EXCEPT ![a] = @ \cup ({Head(mailbox[a])} \ {Stop})]
  /\ UNCHANGED <<pc, cur, held, picked, call, stopped, making, known,
                 envelope, future, sent, outstanding, gate, idling>>

\* shutdown: take the list of the registered actors and stop each.
Shutdown ==
  /\ pc[Main] = "save"
  /\ victims' = {a \in Actor : pc[a] \notin {"unborn", "made"}}
  /\ Goto(Main, "halt")
  /\ UNCHANGED <<mailbox, work, call, stopped, making, known, envelope,
                 future, sent, outstanding, gate, streak, verdict>>

Halt(a) ==
  /\ pc[Main] = "halt"
  /\ a \in victims
  /\ StopActor(a)
  /\ victims' = victims \ {a}
  /\ UNCHANGED <<pc, work, call, making, known, envelope, future, sent,
                 outstanding, gate, streak, verdict>>

ExitMain ==
  /\ pc[Main] = "halt"
  /\ victims = {}
  /\ Goto(Main, "exited")
  /\ UNCHANGED <<mailbox, work, call, stopped, making, known, envelope,
                 future, sent, outstanding, gate, idling>>

-----------------------------------------------------------------------------
Worker(a) ==
  \/ Poll(a) \/ Get(a) \/ Reply(a) \/ Complete(a) \/ MessageDone(a)
  \/ EnterSelect(a) \/ SelectMatch(a) \/ SelectMiss(a) \/ Requeue(a)
  \/ SelectTake(a) \/ SelectRetry(a)

Program(p) ==
  \/ \E a \in Actor, k \in {"past", "now", "future"} : Send(p, a, k)
  \/ Put(p)
  \/ \E m \in Msg : Await(p, m)
  \/ Wake(p)
  \/ \E a \in Actor : Spawn(p, a) \/ Retire(p, a)
  \/ Start(p) \/ SpawnRaises(p)
  \/ Suicide(p)
  \/ \E s \in Streamer : AiStream(p, s)

Next ==
  \/ \E a \in Actor : Worker(a) \/ Save(a) \/ Halt(a)
  \/ \E p \in Proc : Program(p)
  \/ \E s \in Streamer : EndStream(s)
  \/ ToggleGate \/ EndScript \/ WaitIdle \/ Shutdown \/ ExitMain

Spec == Init /\ [][Next]_vars

(***************************************************************************)
(* Fairness.  Worker threads are scheduled, a started send reaches its     *)
(* mailbox, a fulfilled get returns, field initialisers, method bodies and *)
(* the script end, and the main thread runs wait_idle and shutdown to their*)
(* ends.  Nothing is assumed of the dashboard's gate.                      *)
(***************************************************************************)
Fairness ==
  /\ \A a \in Actor :
       /\ WF_vars(Poll(a)) /\ WF_vars(Get(a))
       /\ WF_vars(Complete(a)) /\ WF_vars(MessageDone(a))
  /\ \A p \in Proc :
       /\ WF_vars(Put(p)) /\ WF_vars(Wake(p))
       /\ WF_vars(Start(p) \/ SpawnRaises(p))
  /\ WF_vars(EndScript) /\ WF_vars(WaitIdle) /\ WF_vars(Shutdown)
  /\ WF_vars(\E a \in Actor : Halt(a)) /\ WF_vars(ExitMain)

FairSpec == Spec /\ Fairness

-----------------------------------------------------------------------------
(***************************************************************************)
(* Where messages are.                                                     *)
(***************************************************************************)

Ids(s) == {s[i] : i \in DOMAIN s} \ {Stop}

Queued(a)    == Ids(mailbox[a])
Held(a)      == Ids(held[a])
Picked(a)    == {picked[a]} \ {NoMsg}
InHand(a)    == {cur[a]} \ {NoMsg}
AtActor(a)   == Queued(a) \cup Held(a) \cup Picked(a) \cup InHand(a) \cup saved[a]
InTransit(p) == IF pc[p] = "put" THEN {call[p]} ELSE {}

\* Messages that have been started and are not done.
Live == {m \in Msg : \/ \E a \in Actor : m \in AtActor(a)
                    \/ \E p \in Proc : m \in InTransit(p)}

-----------------------------------------------------------------------------
(***************************************************************************)
(* The inductive invariant: every message is in at most one place, at the  *)
(* actor it was sent to or with the thread that sends it, and the slots of *)
(* a thread agree with its pc.                                             *)
(***************************************************************************)

Distinct(s) ==
  \A i, j \in DOMAIN s : i # j /\ s[i] # Stop => s[i] # s[j]

OnePlace(a) ==
  /\ Distinct(mailbox[a])
  /\ Distinct(held[a])
  /\ Queued(a) \cap (Held(a) \cup Picked(a) \cup InHand(a)) = {}
  /\ Held(a) \cap (Picked(a) \cup InHand(a)) = {}
  /\ Picked(a) \cap InHand(a) = {}
  /\ saved[a] \cap (Queued(a) \cup Held(a) \cup Picked(a) \cup InHand(a)) = {}

Addressed(a) == \A m \in AtActor(a) : m <= sent /\ envelope[m].to = a

Sending(p) ==
  \A m \in InTransit(p) :
    /\ m \in 1 .. sent
    /\ envelope[m].from = p
    /\ envelope[m].to \in Actor
    /\ p \in Streamer => envelope[m].kind = "past"
    /\ \A a \in Actor : m \notin AtActor(a)

Busy == {"run", "put", "wait", "select", "requeue", "done"}

WorkerOK(a) ==
  /\ pc[a] \in WorkerPc
  /\ (cur[a] # NoMsg) <=> (pc[a] \in Busy)
  /\ pc[a] # "requeue" => held[a] = <<>> /\ picked[a] = NoMsg
  /\ pc[a] = "done" => future[cur[a]] # "pending"
  /\ pc[a] \in {"select", "requeue"} => "select" \in Ops

ThreadsOK ==
  /\ pc[Main] \in MainPc \cup {"run", "put", "wait", "exited"}
  /\ pc[Main] \notin {"save", "halt", "exited"} => verdict = "none"
  /\ \A s \in Streamer : pc[s] \in {"unborn", "run", "put", "exited"}
  /\ \A p \in Proc : pc[p] = "wait" => call[p] \in 1 .. sent
  /\ \A m \in Msg : m > sent => envelope[m] = Blank /\ future[m] = "absent"

Placement ==
  /\ \A a \in Actor : OnePlace(a) /\ Addressed(a) /\ WorkerOK(a)
  /\ \A p \in Proc : Sending(p)
  /\ ThreadsOK

IInv == Types /\ Placement /\ outstanding = Cardinality(Live)

-----------------------------------------------------------------------------
(***************************************************************************)
(* Properties.                                                             *)
(***************************************************************************)

\* Scheduler._outstanding counts exactly the messages that are being put,
\* queued, drained by a select or by the exit snapshot, or being handled: no
\* interleaving of senders, workers, selects, suicides and pool retirements
\* leaks or double-counts one.  (message_started, message_done and the manual
\* decrement in _do_select.)
OutstandingExact == outstanding = Cardinality(Live)

\* init is the first message an actor handles, although its worker runs before
\* spawn_actor has put it, unless its field initialisers gave the reference
\* away: while init is being put no other message is at the actor, and while it
\* is queued no other message is ahead of it or in hand.  (A stop sentinel may
\* be.)
InitFirst ==
  \A a \in HasInit \ Leaky : \A m \in 1 .. sent :
    envelope[m].to = a /\ envelope[m].kind = "init" =>
      /\ (\E p \in Proc : m \in InTransit(p)) => AtActor(a) = {}
      /\ \A i, j \in DOMAIN mailbox[a] :
           mailbox[a][i] = m /\ mailbox[a][j] # Stop
             => i <= j /\ InHand(a) = {}

\* A caller that waits for a reply can still get it: a future is unset only
\* while the message that carries it is live, be it in the exit snapshot, which
\* nobody answers any more.  (send_method: when the callee finishes, or calls
\* reply, the future is fulfilled.)
PendingHasCarrier == \A m \in Msg : future[m] = "pending" => m \in Live

\* Messages of one sender stay in the order of their sends in the mailbox.
PerSenderFifo ==
  \A a \in Actor : \A i, j \in DOMAIN mailbox[a] :
    /\ i < j
    /\ mailbox[a][i] # Stop
    /\ mailbox[a][j] # Stop
    /\ envelope[mailbox[a][i]].from = envelope[mailbox[a][j]].from
    => mailbox[a][i] < mailbox[a][j]

\* When wait_idle has returned True and no stream was ever started, the system
\* stays quiet: nothing is live, then or later, so the state saved at exit is
\* final.  (A stream's chunks are counted only once they are being sent, so
\* with one under way wait_idle may return between two of them.)
IdleIsFinal ==
  verdict = "idle" /\ (\A s \in Streamer : pc[s] = "unborn") => Live = {}

\* The message layer keeps the promise of MessageLedger.
Ledger == INSTANCE MessageLedger WITH
  Selective <- "select" \in Ops,
  open      <- Live,
  closed    <- (1 .. sent) \ Live,
  answer    <- future

LedgerSpec == Ledger!Spec

\* Every thread that blocks on a reply gets it, or the program is shutting
\* down, provided the gate is not closed for ever.
Answered ==
  <>[]gate =>
    \A p \in Proc :
      (pc[p] = "wait") ~> (pc[p] # "wait" \/ pc[Main] \in {"save", "halt", "exited"})

\* The outstanding count reaches zero and wait_idle returns True.
Quiesces == <>[]gate => <>(verdict = "idle")

\* Once the gate stays closed every worker parks: each finishes the body it is
\* in, or keeps waiting for a parked callee, and dequeues no more.
PauseFreezes ==
  <>[]~gate =>
    <>[](\A a \in Actor : pc[a] \in {"unborn", "made", "top", "wait", "exited"})

\* What a pause preserves of a queue: all of it, but for the message that a
\* worker past the gate is about to dequeue.
Preserved(a) == IF pc[a] = "get" /\ mailbox[a] # <<>>
                  THEN Ids(Tail(mailbox[a])) ELSE Queued(a)

\* "pending messages are preserved": while the gate is closed nothing that was
\* pending is handled, in any interleaving of pausing, putting, dequeueing and
\* stopping, provided no body that is still running selects and the exit
\* snapshot is not being taken.
PausePreserves ==
  [][\A a \in Actor :
       ~gate /\ pc[a] \notin {"select", "requeue"} /\ pc[Main] # "save"
         => Preserved(a) \subseteq Preserved(a)']_vars
=============================================================================
