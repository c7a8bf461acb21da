# AIPL in TLA+

TLA+ models of the Python runtime of AIPL, the actor language of this
repository (`src/python-aipl/`), with TLC runs and TLAPS proofs.  Paths below
are relative to the root of the repository.

## The system

AIPL programs declare classes of actors.  An actor is a worker thread with a
mailbox; statements send messages (`send`), wait for replies (`now`,
`future` + `await`), answer (`reply`, `return`), receive selectively (`select`)
and create or stop actors.  Actors call AI providers, may be quarantined,
pooled, persisted and reached over HTTP.

| part | code | state it keeps | operations | talks to |
|---|---|---|---|---|
| actor runtime | `aipl_runtime.py`; sends, waits and stops of `aipl_interp.py` | mailboxes, futures, stop flags, the outstanding count, the run gate | spawn, send / now / future / await / reply, select, suicide, stop, pause, idle wait, shutdown | everything: all other parts run inside method bodies |
| AI calls | `aipl_ai.py` (`call_ai`, `_PriorityGate`), `aipl_dist.py` (`TokenBudgetGate`) | permits and tickets, token totals, the window of recent calls | check the budget, acquire, wait for the window, call, fall back, release | called by workers, streams and the script |
| pools | `aipl_dist.py` (`pool_*`) | members, round-robin index, registry | create, pick (and scale), destroy | spawns and stops actors |
| node state | `aipl_state.py`, save and replay in `aipl_interp.py` | a file of fields and pending messages | save, save at exit, restore and replay at spawn | drains mailboxes, refills them at spawn |
| failure quarantine | `aipl_dist.py`, dispatch in `aipl_interp.py` | the spawn tree, names and when they expire | quarantine an actor or its subtree, look up, prune | workers, dispatch, spawn |
| saga, scope | `_do_saga`, `_do_scope` of `aipl_interp.py` | completed steps, futures of a scope | run, join, compensate | future calls to other actors |
| quorum | `call_ai_quorum` of `aipl_dist.py` | a box two threads may write, two events | one thread a provider, first reply | AI calls |
| replicated values | `aipl_dist.py` (`gcounter_*`, `orset_*`, `lww_*`) | counts, tagged elements, a stamped value | update, merge | messages carry whole values |
| gateway and devices | `aipl_remote.py` | listening servers, connections, serial lines with their locks and buffers | remote send and call, RPC over a UART | puts messages into mailboxes |
| AI-OS services | `aipl_aios.py` | services, protocols, sessions and their cursors | define, start, end, observe | told of calls by `now` and `await` |
| model checker | `aipl_modelcheck.py` | worlds found, their depth and parents | search, verdict, trace | actors given as pure handlers |
| other extensions | `aipl_dist.py` | checkpoints, capabilities, regions, gossip trees | one function each | builtins |
| events, dashboard | `aipl_events.py`, `aipl_dashboard.py`, `aipl_websocket.py` | subscriber queues | publish, pause and resume | the run gate |
| front end and tools | parser, type checks, formatter, model-checking exporters | none while running | | |
| other runtimes | `src/*.ml`, `src/*.c`, `src/browser-abcl`, `src/node-aipl-server` | | second implementations of the language | |

What is hard in it: every actor, stream and the script is a thread of its own;
the count that decides when the program ends is updated in a step separate from
the queue it describes; `select` takes the queue apart while others put;
replies travel through futures that several code paths may settle; stopping an
actor and saving the state happen while workers run; the gate for AI calls
notifies everybody and lets them race; a restart replays what an earlier process
wrote at some moment; several timeouts (scope, gateway, serial line) give up on
work that goes on; protocol traces are updated by every caller after the fact.
`PROJECT.json` lists these hazards one
by one with the properties that catch them.

## Modules

| module | models |
|---|---|
| `ActorRuntime` | threads, mailboxes, futures, the outstanding count, select, stopping, pausing, the end of the program |
| `MessageLedger` | the abstract specification that `ActorRuntime` implements |
| `AiGate` | budget check, priority gate, window, fallback and release of `call_ai` |
| `ActorPool` | the auto-scaling pools of `aipl_dist.py`, used by several threads |
| `NodeState` | the state file: save, save at exit, crash, restore and replay |
| `Quarantine` | quarantine of a failing actor and of what it has spawned |
| `Sessions` | protocol traces and typed sessions, observed automatically |
| `Crdt` | the three replicated types and their merges |
| `Explorer` | the search and the verdict of the repository's own model checker |
| `Saga` | sagas whose steps are scopes with future calls |
| `AiQuorum` | one call to several AI providers, first reply wins |
| `UartLink` | a serial line shared under a FIFO lock |
| `Gateway` | synchronous remote calls through single-threaded gateways |
| `MCActorRuntime`, `MCAiGate`, `MCActorPool` | instances for TLC |
| `MCNodeParts`, `MCLinks` | instances of five and of four of the smaller modules |
| `SequenceFacts` | lemmas about `RemoveAt` and `InsertAt` of the community modules |
| `ActorRuntime_proofs`, `ActorRuntimeOrder_proofs`, `AiGate_proofs`, `ActorPool_proofs` | theorems and proofs about the module of that name |
| `NodeState_proofs` | theorems about `NodeState` and `Quarantine`, and the facts about induction |
| `NodeParts_proofs` | theorems about `Crdt`, `Sessions`, `Explorer` and `MCNodeParts` |
| `Links_proofs` | theorems about `Saga`, `AiQuorum`, `UartLink` and `MCLinks` |

### ActorRuntime

A thread has a pc.  A pc of `"run"` stands for program code (a method body, or
the script): what it does next is the program's choice, so each statement that
touches the message layer is an action enabled there.  The constants `Sends` and
`Calls` say who holds a reference of whom and who may block on it, and `Ops`
which optional statements the program uses.

One step of the model is one synchronized operation of the code.  `send_method`
is two, `message_started` (`StartSend`) and the put (`Put`); the worker loop is
`Poll`, `Get`, dispatch (`"run"` to `Complete`) and `MessageDone`; `select` is
the drain (`SelectMatch`, `SelectMiss`), one step for each put of the
re-queueing loop (`Requeue`) and the end (`SelectTake`, `SelectRetry`);
a spawn is the field initialisers (`Spawn`, which may raise: `SpawnRaises`) and the
registration, thread and `init` (`Start`, then `Put`);
`wait_idle` takes one step per round (`WaitIdle`), and the exit snapshot one per
item it drains (`Save`).  Two things are one step although the code has two:
`Actor.stop` writes the flag and puts the sentinel (a worker that sees either
leaves), and `Mailbox.drain` in `select` is atomic (a put into a mailbox that is
being drained is a put just before or just after it).

The initialisers run in the spawning thread with the new actor in its frame: `making`
is the stack of spawns a thread is in, and `Self` the actor whose frame it runs in.  An
actor in the constant `Leaky` is one whose initialisers send to it or hand it
out: from `Spawn` on everybody who may send to it can.  Messages then reach a mailbox
that has no thread yet, `init` comes behind them, and if the initialiser raises they
stay counted for ever.  An initialiser that sends without handing out the actor does so
in a top-level function, whose frame has no actor (`Speaker`).  Initialisers neither
select nor reply: `reply` there only prints.

Which message a `select` arm matches, whether a body returns, raises or falls
off its end, and whether the actor is quarantined, are choices.  `Save` may drain
any actor's mailbox, where the code drains those that are values of globals.
Messages carry their sender, actor and form, not their method and arguments.

Left out: futures passed to another thread, the gateway's branch of `run`
(which waits for Ctrl-C), `scope` and `saga` (module `Saga`), and the messages
replayed at spawn (module `NodeState`).
`become` is, at this layer, a send of the actor to itself.

### AiGate

A caller is a thread inside `call_ai`.  A step is what it does between two waits
of the condition variables: `Call` is the budget check, `Acquire` the entry of
the gate, `Recheck` one look of a woken waiter, `Interrupt` the exception path of
the wait, `Admit` the window, `Respond` and `Fail` the provider, `Release` the
`finally` clause.  `notify_all` moves every sleeping waiter to `"awake"`, from
where they look in any order.  Tickets are the callers themselves: the counter of
the code only breaks ties, which `Enqueue` does by inserting behind equals.
`Tick` is one tick of the clock, and entries leave the window when they are older
than `Span`.  `MaxCalls = 0` lets callers come back without end.  A caller that is
interrupted while it waits for the window ends in `"lost"`, with its permit: the permit is acquired before the `try` whose
`finally` returns it.  An interrupted provider call is a `Fail`.

With no limit set there is no gate and no window; `Rpm = Tpm = 0` models the
latter, the former is not modelled.

### ActorPool

A caller is a thread inside `pool_create`, `pool_pick` or `pool_destroy` of one
pool name.  A step is one section under `_POOLS_MU` or the lock of the pool, or one
call of a callback; between two sections a caller keeps the pool it looked up in
`at` and the workers it has spawned or removed in `hand`.  `Create`, `Seed` and
`Join` are `pool_create`; `Pick`, `Sample`, `Grow` and `Join` or `Shrink` and
`Retire`, then `Choose`, are `pool_pick`; `Destroy`, `Clear` and `Sweep` are
`pool_destroy`.  The pressure on a pool (the mean of the mailbox lengths against
the watermarks) is a choice of `Sample`, because senders and workers change it
at any time; the size that `Sample` reads is not.  A spawn may fail, which the code logs.
Creating a name that is taken, and picking from or destroying one that is not,
change nothing and are no steps.  `served` is a history variable for
`RoundRobin`.  `retire_cb` is `Actor.stop`: what becomes of the messages of
a stopped worker is `ActorRuntime`.  `pool_size` only reads.

### NodeState

Here an actor is its fields, its mailbox and the message in the hands of its
worker, and a message is a number; the fields of an actor are the messages they
have absorbed, so that what is lost, repeated or out of order shows in them.
`spawn_actor` is `Spawn` (the initialisers), `StartWorker` (the fields are restored and
the worker runs), `Replay` for each message it then puts, `init` and the pending ones
in their order, and `Bind`, when it returns and its global is assigned.  The worker
takes messages from `StartWorker` on.  Others can send to the actor after `Bind`, as the
script makes it known through its global; or from `Spawn` on if it is in `Eager`: its
initialisers hand it out, or its `init` sends to itself or hands out self
while older messages are still to be put.  Such a message overtakes them, and
`ExactlyOnce` says of these actors only that nothing comes twice.  `Handle` ends a handler, or takes it into the
`save_state` builtin, which copies the fields at once (`copy`) and writes them
later (`Write`), when it gets `_save_lock`.  The exit is `EndScript` (the idle
wait is over, one way or another), then for each actor `Visit` (its fields are
copied) and `Drain` (its mailbox is emptied, one message a step), then `Save`.  A
write may fail.  `Stop` is the end of the process, at its end or anywhere: all
variables but `disk` are lost.  The exit starts when every actor has been
spawned: an actor that a run has not spawned yet is no global, and what the old
file had of it is dropped with the file.

### Quarantine

The tree and the entries are kept by name, and a name may be spawned again: a worker
is one actor in the life of its name (`NameOf`).  `SpawnChild` gives the name its
new parent, in place of an old one; `SpawnByScript` leaves the old one, as the code
registers no parent then.  With `AIPL_DIST_SUBTREE_QUARANTINE` set, `Raise` begins
to quarantine the actor, `Collect` reads its descendants off the tree, a generation
after the other, and `Sweep` takes up one name after another, while the others
run, spawn, fail and expire.  `quarantine_actor` is two steps, the clock (in `Raise` and
`Sweep`) and the entry (`WriteEntry`): another worker may write in between, and
the older expiry then replaces the newer one.  The history variable `lowered` holds the names
to which this happened; `SubtreeContained` exempts them.  `Dispatch` prunes an entry that
has expired.  What is spawned below the actor after `Collect` is not in quarantine, and
the property does not say so.

### Sessions

A call is reported by `aios_now` when the reply is there, and by every `await` of the
future of an `aios_future` call: a future that is awaited twice shows its call
twice, and late.  The model is about reports (`BeginReport` to `EndReport`); reports
of one call have the same label and types (`Plans`).  `record_observation` tells
every running trace: it copies the names of the protocols and then those of the
sessions (`CopyRunning`, once each) and goes through the copy (`Observe`), each trace
under the lock.  `unshown` is what a report still has to be shown to.
`ProtocolObserve` moves the cursor of a protocol when the label is the next one;
`SessionCheck` also blames.  Traces start, end and are redefined meanwhile.
`owed` is a history variable: the traces that were running when a report began.

### Crdt

`held` are the values of the replicas, `flight` what was sent last from each,
and a merge takes any value in flight, more than once if it likes.  `updates` is
the history of all updates, and the set `known` of a value says which of them
have reached it: the merge of two values knows what either does.  `ValuesExact`
compares each value with what its known updates make of it.  The register goes by
wall clocks; `restless` marks a run in which a replica wrote with a clock no
later than what it had read, where the last write does not have to win.

### Explorer

Worlds are numbers, `step` says which world the next message of an actor leads
to, and is any function: the search is checked against all state graphs of the
size at once, for every depth.

### Saga, AiQuorum, UartLink, Gateway

`Saga` is one saga; a step may start one future call, whose worker may be busy
with the call of an earlier step and may hang.  `LeaveScope` is the join, settled or timed out:
time is not modelled, so a timeout is a step that is always possible there.

In `AiQuorum` every access to the shared box is a step: the test of `done_evt`,
the two writes, the set.

In `UartLink` the lock of `_uart1_get_socket` is made on the spot, so `OpenSocket`
may happen in several threads at once; sockets then differ while the buffer of
the endpoint is one.  `Enter` and `GoIn` are `_FairLock.__enter__` before and after
its wait.  The device may greet on a new connection: `DropGreeting` is the one `recv` of
at most 0.3 s that drops what has come by then.  A thread may stop waiting for the
line (`GiveUp`) when nothing has arrived, and a `LIST` ends at an empty line
(`DrainLine`): what the device still sends is left to whoever reads next, as is
a greeting that comes late.  The history variable `skewed` says so, until a `LIST` drains
the link, and `OwnAnswer` exempts such a link.  The device may close a connection (`Close`),
which stays in the cache: `recv` then returns nothing and an empty line, or a piece of one,
is the answer (`ReadEnd`).  `create_connection` and `sendall` may raise (`OpenFails`,
`SendFails`).  A piece of a line is no line of the model: it counts as no answer.

`Gateway` has a thread for each node that takes one connection at a time
(`Accept`), puts the message and waits (`Respond`).  The worker of a caller is
blocked while it waits, so circles of calls block workers and gateways; both
waits have timeouts.

### MCNodeParts and MCLinks

The parts composed here share no variable and call nothing of each other, so
all their interleavings would multiply states and show nothing.  The variable
`focus` picks the part that moves in a behaviour; the others rest where they
start.  What a run shows of a part is what a run of its own would show: the steps
of the part are all there, and the invariants of the others are true where they
rest.  Fairness is stated for the steps of the part in focus; `SagaRunEnds` is
`SagaEnds` of the behaviours in which the saga moves.

## Runs

| run | asks | answer |
|---|---|---|
| `RuntimeSafety` | a script that may time out and two actors with `init`, select, suicide and retirement, one of which is leaky: types, `OutstandingExact`, `InitFirst`, refinement of `MessageLedger` | holds |
| `RuntimeReplies` | a layered program (script, `a1`, `a2`) with a stream and the pause button, under fairness: `PerSenderFifo`, `PendingHasCarrier`, `IdleIsFinal`, `Answered`, `Quiesces`, `PauseFreezes`, `PausePreserves` | holds |
| `SelectOrder` | is select FIFO, as its docstring says? | no: a put between two re-puts overtakes |
| `SelectReply` | is the future of a selected message fulfilled, as `send_method` says? | no: it is dropped |
| `AiGate` | four callers, two permits, failures, fallback, interrupts, a budget and a window: permits, tickets, stranding, precedence, bound of the overrun | holds |
| `AiCalls` | four callers that come back without end: what can keep a call that passed the check from a permit, and from ending? (`Served`) | from a permit, only calls as good or better that keep coming; from ending, only calls that keep coming for the window |
| `IdlePermit` | does a caller proceed when a permit is available, as the class says? | no: with two permits back, an early look can leave one idle until the next release |
| `ActorPool` | three callers create, pick from and destroy two pools in turn: `OnePlace`, `SizeBound`, `FloorBound`, `RoundRobin` | holds |
| `PoolOrphans` | has a destroyed pool no members, as `pool_destroy` says? | no: a worker that is being seeded or added joins after the list was emptied |
| `NodeParts` | restarts: `ExactlyOnce`, `RestoredKept`, `QuietExitSavesAll`; quarantine: `SubtreeContained`; traces: `CursorTruthful`, `ReportsSeenInOrder`; replicas: `ValuesExact`; explorer: `VerdictRight` | holds |
| `Links` | sagas: `AllOrNothing`, `SagaRunEnds`; quorum: `QuorumAnswer`, `QuorumEnds`; serial line: `FairLock`, `OwnAnswer`; gateways: `CallsHandled` | holds |
| `GracefulRestart` | does the exit save what the actors have absorbed, as its comment says? | no: a message handled between the copy of the fields and the drain is in neither |

Each run but `SelectOrder`, `SelectReply`, `IdlePermit`, `PoolOrphans` and
`GracefulRestart`, which show where the code does something else than its text
says, passes.

Bounds.  Two actors and three messages are enough for a message to be overtaken,
selected, stranded or answered twice while another is sent and a third handled;
the script adds a third thread and, in `RuntimeReplies`, a stream a fourth.
In `RuntimeSafety`, `a2` is leaky and its initialisers send to `a1`, so that a message, or a
reply of `a1`, reaches `a2` before it has a thread; sends of an actor to itself are
excluded to stay small, which the proofs do not.  In `RuntimeReplies` nobody is leaky,
as messages to an actor that is never started would keep the count up for ever.  `AiGate` has four callers because the hard schedules need two permits out
and two waiters; `MaxCalls = 5` lets one caller come back.  In `AiCalls` all come back for ever, which a
bound would hide: a caller that waits behind newcomers without end is served as soon as the
bound stops them.  It has no interrupts, because a permit lost at the window makes an
idle permit (`IdlePermit`) last for ever.  In
`ActorPool`, three callers let the size miss both limits by more than one and leave one caller to
destroy, and the second pool lets a caller with a stale lookup meet its
successor; five workers fill both.

In `NodeParts`, two actors, two messages, two saves and one crash let a message be
handled, saved, replayed and followed or overtaken by a newer one, with a save in flight; one
of the actors is eager, the other assigns its fields in `init`, and one message has an
argument JSON cannot hold.  Three names give the spawn tree two generations; four
workers let one of them be spawned again, by its own child or the script; four ticks
let an entry expire during a sweep, and two failing workers write an entry in the
wrong order.  Two reports, of two calls or of one, race on a protocol and a session
of one or two steps.  Three replicas and two updates let a value come back by a
way round; two stamps let clocks agree and disagree.  Two updates are few, but the
merges between them are not bounded, and the proofs have no bound.  Three worlds and two actors give all 4096 graphs, at three
depths.  In `Links`, three steps on two workers make a call wait for the call of
an earlier step; three providers let two believe to be the first while a third
fails; two threads, each with its socket, greetings and lists of two lines let an answer be taken for another;
two nodes, each with an actor, and two calls give a circle and a call to the own
node.

Deadlock is not
checked: programs end.  Symmetry is used in runs without liveness, over
the constants no definition distinguishes.

Fairness.  Weak fairness of each worker's and caller's own steps (operating system
threads), of started sends, of fulfilled waits, of the end of bodies and scripts
(a program that loops for ever is not blamed on the runtime) and of the
provider's answer or failure.  Nothing is assumed of the pause button: the
liveness properties start from `<>[]gate`, and `PauseFreezes` from `<>[]~gate`.
Fairness of `Recheck` is per caller: a woken thread gets the lock in the end.
`Served` assumes nothing of the order in which threads get a lock: it starts, for
each caller, from the end of the calls that compete with it.
`Answered` is about acyclic calls (`LayeredCalls`): a cycle of `now` calls
deadlocks by the design of the language.
In `Links`, weak fairness of the actor that runs the saga (not of the workers it
calls, which may hang), of the threads and the caller of a quorum (not of the
providers), of each gateway and of each worker (not of the callers' timeouts, nor
of the replies: a handler that never replies still ends).  That a gateway
answers in the end rests on its own timeout, so it is fair unconditionally.

## Proofs

Each holds for all values of the constants that satisfy the assumption its module
names (`RuntimeAssumption`, `GateAssumption`, `PoolAssumption`, `NodeAssumption` and so
on).

`ActorRuntime_proofs`: `IInv` says that every message is in at most one place,
in transit with the thread that sends it or at the actor it is addressed to
(queued, drained, picked, in hand or saved), that the slots of each thread agree
with its pc, and that the count equals the number of live messages.  The
count alone is not inductive: that a decrement removes exactly one live message
needs disjointness, and that a put adds one needs the message not to be at its
actor yet.  One lemma for each operation says whether it opens, closes or keeps the
set of live messages.  From it: `Typing`, `CounterExact`, `IdlenessIsFinal`,
`CallersAreCarried` (without select) and `Implementation`, the refinement of
`MessageLedger`.

`ActorRuntimeOrder_proofs`: every step is classified by what it does to the queues
(`SlotsStep`) and to the messages in transit (`SendsStep`); the order proofs have
one case per class instead of one per action.  `SenderOrder`: without select, the
message a thread has in transit is newer than all it has queued, so an append at
the tail keeps each sender's messages in order.  `PauseKeepsQueues`: a queue loses a
message only to a worker that was past the gate, to select or to the exit snapshot.
`InitComesFirst`, about the actors that are not leaky: `FirstInv` adds that such an
actor has one init, that nobody names, answers or hears from the actor before it has
been put (`Begun`), whatever others leak meanwhile, and that select never holds it; a worker that runs a body has a message in hand, so its init is no
longer in transit.

`AiGate_proofs`: `IInv` joins the conservation of permits, the exactness of the
ticket queue, the first waiter being awake when no permit is out, and the room
left by the calls in flight (`OverrunRoom`, from which `OverrunBound` follows).
Precedence is an action property: a waiter of better priority would be ahead in a
sorted queue.

`ActorPool_proofs`: `IInv` strengthens the properties by what a caller is about to
do.  `OnePlace` needs that the lists and the hands are disjoint (`Spread`), and
`SizeBound` that the members, the workers some caller has decided to add and the
seeds still to come together stay below `Limit` (`Room`): the decision, not the
append, is what uses up the room.  `FloorBound` is inductive once the callers that
may still remove a member are counted.  `FairTurns`: the members served in a round
are those in the k places before the index, counted around the end of the list,
with k below its length (`RoundOf`), so the next one is not among them.

`NodeState_proofs`: `NoneTwice` (`ExactlyOnce`) from `NodeIInv`.  A concatenation has
its ids in order when its parts have and each part is older than the next, so
the invariant speaks of parts: fields, hand and mailbox of an actor, what is still to be
put back, the copies that handlers have taken, and fields and messages of the three
documents (on disk, loaded, being written), all no younger than the last message sent.
Of an eager actor, "older than" is read as "different from".  `Kept`
(`RestoredKept`) adds that a copy of the past stays a prefix, and `QuietExit`
(`QuietExitSavesAll`) that a node which was idle when its script ended stays so.
`QuarantineContained` (`SubtreeContained`) is about the descendants of an actor, which
`Descendants` computes generation by generation; by induction over the generations
they are the names that a chain of spawns leads to (`AllDescendants`), circles of names that
spawn each other included.  `Contained` then says of each worker: a doomed name is still in the
list to sweep, or is the one being written with an expiry that is late enough, or its
entry lasts as long as that of the actor (`Outlasts`); no entry that lasts beyond
the clock is pruned, and one that is replaced by an older one is in `lowered`.

Induction.  The prover has no induction rule that takes a predicate, so a statement
about the numbers up to a bound is proved as one about a set of them: the
set of counterexamples has a least element, because `<` is well founded on the
naturals (`LeastElement`, `InductionUpTo`).  A function that is defined recursively
inside a `LET` (the generations, `Reach`, `Trace`, `RunOf`) is no theorem's
subject until it is known to exist; `RecursionExists` shows that, by the same
induction over the length of an initial part of it.

`NodeParts_proofs`: `CrdtValuesExact` from `CrdtInv`, which says of every value, held
or in flight, how its parts follow from the updates it knows.  Maximum is the
right merge of counts because what knows an increment of a replica knows all its
earlier ones, so of two values one knows the increments of the other; a removed
tag is one that the remove has seen; a write beats every write its replica knew,
unless the clock was not later.  `SessionsReportsSeen` from `SeenInv`: what a report
has yet to be shown to, what it was shown to and the stage it is in agree, and
no log holds two reports against the order of `after`.  `SessionsCursorTruthful`
adds that the cursor is the number of steps a greedy walk finds in the log: one
more entry makes k + 1 steps findable when it is the last of them and the k
others could be found before.  `ExplorerVerdict` (`VerdictRight`) from `ExplorerInv`:
the frontier is in the order of the depths and holds two of them at most; what
follows a world that has left it was found, at most one step deeper; and each
world was found from a parent one step less deep.  From this, by induction over
the depth, the worlds found are those that can be reached, and the trace of a world
is as long as its depth and leads to it.  `PartsRunEach`: a run of `MCNodeParts` is a
run of each of its parts, by which what is proved of a part, here and in
`NodeState_proofs`, is true of the composition, and so are the types
(`PartsTyped`).

`Links_proofs`: `SagaAllOrNothing` (the completed steps are 1 to n, those undone the
last of them), `QuorumAnswers` (a provider that has failed is never in the box, and
while a thread is between the test and the set of `done_evt`, its reply was in
time), `UartFairLock` (the queue holds those that wait and the one on the wire, once
each; only the head is let in; whoever was ahead is in front).
`UartOwnAnswer` (`OwnAnswer`), an action property, rests on `LinkInv`: on a link that is not
skewed, while a thread reads, every line in the device, on its socket or in the shared buffer
is an answer to its command, there are as many as it will read unless its connection
is closed, and all other sockets that are in use are empty; when nobody reads or
drains, the link is clear.  A socket whose greeting is still being waited for is nobody's yet.  There
are never more sockets than threads, as those opened and those still to be opened
are counted together (`SocketsInv`).  `LinksTyped` is the types of the four parts.

Only model-checked: everything under fairness (`Answered`, `Quiesces`,
`PauseFreezes`, `Served`, `SagaRunEnds`, `QuorumEnds`, `CallsHandled`), which is beyond the
prover.  All invariants and all other action properties of the runs that pass are
stated by a theorem.

## Where the code and its text differ

The five runs that end in a violation, and these, which were met while
modelling and are in the model as the code has them:

- `suicide` says that the mailbox is drained; it is left as it is, and what is in
  it stays counted (`OutstandingExact` counts it).
- `BudgetExceeded` is documented as raised before a call that would exceed the
  budget; concurrent calls pass the same check (`OverrunBound` says how many).
- `call_ai_quorum` is to return whichever reply arrives first; leaving its executor
  joins every thread, so it returns after the slowest (`QuorumEnds` asks that all
  have ended).
- `_uart1_get_socket` keeps one socket per endpoint; its lock is made by the call
  that takes it, so two threads can open one each.
- A gateway that gives up on an actor answers `ok` with no value, so its caller
  cannot tell that from a reply of nothing.
- No task is to escape its scope; the join gives up after five seconds, and the
  task runs on into the next steps of a saga, or into its compensations.
- "Equal-priority waiters are served FIFO", but a newcomer of the priority of the head takes
  a free permit before those that were waiting when it came, and newcomers that keep coming
  starve them (`Served` says what is left).
- Ctrl-C in the wait for the window ends the script with its permit; after that an
  idle permit (`IdlePermit`) may stay idle for ever, its waiters asleep.
- `save_state` writes no pending messages, over a file that may have had some, and
  no fields of actors that this run has not spawned.
- A budgeted call takes a place in the window twice, and a call whose estimate is
  over the limit of a minute waits for ever.
- `_UART1_BUFS` is there "so partial reads survive across calls"; a line that arrived in
  part when a wait on the serial line timed out is dropped, and the rest of it is read
  as a line.
- A greeting that comes later than 0.3 s, or in two pieces, is read as the answer to the
  first command, and each answer then as that of the next one; a `LIST` that
  meets an empty line stops draining.  After a device has closed a connection, the cached
  socket answers every command with an empty line.
- A call made with `aios_future` is observed by every `await` of its future: one that
  is awaited twice appears as two calls, and a session blames the second.
- Field initialisers run with the new actor in their frame: what they send to it, or
  others send to it when they hand it out, is handled before `init`.
- On a restart the worker runs before the pending messages are put back: what an `init`
  sends to its own actor is handled ahead of messages that were there before the restart.
- `quarantine_actor` reads the clock before it takes the lock, so of two that race the
  older expiry may win.

## Plan

What is left, in this order.

1. `CallsHandled` for handlers that wait without a timeout.
2. `scope` with several futures, nested in `saga`, composed with `ActorRuntime`.
3. `become` with the fields of the classes involved.
4. The gossip tree of `aipl_dist.py` (`plumtree_*`) with failing links.
5. The runtimes in OCaml (`eval_thread.ml`) and JavaScript (`runtime.js`) against the
   properties of `ActorRuntime`.

## Not modelled

Expressions, builtins without effect on messages, the text of prompts and replies,
log events, and the dashboard: sequential functions of their input, or I/O.

Of `aipl_dist.py`: routing, checkpoints, capabilities, regions, the gossip tree and
the structured log.  They look up the environment, write files or compute;
`pool_pick` returns a name whose actor may have been retired by the time it is
used, which is for the program to handle.  Of `aipl_aios.py`: the service
registry and the list of events, each a single assignment under a lock.  Of
`aipl_remote.py`: sends without reply, signatures, the index pages, and the
`http://` and `xinujit://` schemes, which make one request and share no state.
Of `aipl_modelcheck.py`: the formulas over the set of worlds found.

The parser, the type checks and the compilers are sequential functions of a
program text.  They are most of the repository's lines, which is why the share of it
that is modelled is small: what runs concurrently in the Python runtime is
nearly all of it.  The other runtimes are second implementations of the language, the Python one
being the reference here.
