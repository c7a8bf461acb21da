------------------------------ MODULE UartLink ------------------------------
(***************************************************************************)
(* The uart1:// link of aipl_remote.py: threads that share one socket to a *)
(* serial device under a FIFO lock (_FairLock).  The device is external:   *)
(* it may greet on a new connection, answers the commands of one in order, *)
(* the answer to a LIST being a header and further lines, takes as long as *)
(* it likes, and may close a connection, which stays in the cache.         *)
(***************************************************************************)
EXTENDS Integers, Sequences, FiniteSets

CONSTANTS
  Threads,    \* each makes its calls one after another
  MaxCommands,   \* bound: the calls of each thread
  ListLines   \* the lines that follow the header of a LIST

ASSUME UartAssumption ==
  IsFiniteSet(Threads) /\ MaxCommands \in [Threads -> Nat] /\ ListLines \in Nat

VARIABLES
  stage,    \* where the call of each thread is
  cmd,      \* that command: who sent it, which of its calls, of which kind
  conn,     \* the socket the call uses; 0 before it has one
  cached,   \* _UART1_SOCKETS[hostport]; 0 when there is none
  opened,   \* the sockets opened so far
  closed,   \* those of them that the device has closed
  queue,    \* _FairLock._queue
  event,    \* the Event of each waiter is set
  sent,     \* per socket: the lines the device has still to answer with
  lines,    \* per socket: the lines on their way to us
  buffer,   \* _UART1_BUFS[hostport]: lines received and not yet read
  answer,   \* the command answered by the line that was read last; nothing
            \* for an empty line, a piece of one, or a call that raised
  skewed,   \* history: a reader has left lines on the link, which no LIST
            \* has drained since
  ahead     \* history: <<u, t>>: u waited or held when t arrived; while both do

uartVars == <<stage, cmd, conn, cached, opened, closed, queue, event, sent,
              lines, buffer, answer, skewed, ahead>>

Command == [by : Threads, n : Nat, kind : {"line", "list"}]
Sockets == 1 .. Cardinality(Threads)

UartTypes ==
  /\ stage \in [Threads -> {"idle", "opening", "greeting", "ready", "queued",
                         "inside", "reading", "draining"}]
  /\ cmd \in [Threads -> Command] /\ answer \in Seq(Command)
  /\ conn \in [Threads -> {0} \cup Sockets]
  /\ cached \in {0} \cup Sockets /\ opened \in {0} \cup Sockets
  /\ closed \subseteq Sockets
  /\ queue \in Seq(Threads) /\ ahead \subseteq Threads \X Threads
  /\ event \in [Threads -> BOOLEAN]
  /\ sent \in [Sockets -> Seq(Command)] /\ lines \in [Sockets -> Seq(Command)]
  /\ buffer \in Seq(Command)
  /\ skewed \in BOOLEAN

UartInit ==
  /\ stage = [t \in Threads |-> "idle"]
  /\ cmd = [t \in Threads |-> [by |-> t, n |-> 0, kind |-> "line"]]
  /\ answer = <<>>
  /\ conn = [t \in Threads |-> 0] /\ cached = 0 /\ opened = 0 /\ closed = {}
  /\ queue = <<>> /\ ahead = {}
  /\ event = [t \in Threads |-> FALSE]
  /\ sent = [s \in Sockets |-> <<>>] /\ lines = [s \in Sockets |-> <<>>]
  /\ buffer = <<>>
  /\ skewed = FALSE

Moves(t, from, to) == stage[t] = from /\ stage' = [stage EXCEPT ![t] = to]
wire == <<sent, lines, buffer, answer, skewed>>
lock == <<queue, event, ahead>>
sockets == <<conn, cached, opened, closed>>

OnWire == {t \in Threads : stage[t] \in {"inside", "reading", "draining"}}
Waiting == {t \in Threads : stage[t] = "queued"}

-----------------------------------------------------------------------------
\* _uart1_get_socket finds a socket in the cache, or sets out to open one
\* under a lock of its own that excludes nobody.
GetSocket(t) ==
  \E k \in {"line", "list"} :
    /\ cmd[t].n < MaxCommands[t]
    /\ Moves(t, "idle", IF cached = 0 THEN "opening" ELSE "ready")
    /\ cmd' = [cmd EXCEPT ![t] = [by |-> t, n |-> @.n + 1, kind |-> k]]
    /\ conn' = [conn EXCEPT ![t] = cached]
    /\ UNCHANGED <<cached, opened, closed>> /\ UNCHANGED wire /\ UNCHANGED lock

Greeting(t) == [by |-> t, n |-> 0, kind |-> "line"]

\* create_connection; the device greets on the new connection, or not.
OpenSocket(t) ==
  /\ Moves(t, "opening", "greeting")
  /\ opened' = opened + 1
  /\ conn' = [conn EXCEPT ![t] = opened']
  /\ \E hello \in {<<>>, <<Greeting(t)>>} :
       sent' = [sent EXCEPT ![opened'] = hello]
  /\ UNCHANGED <<cmd, cached, closed, lines, buffer, answer, skewed>>
  /\ UNCHANGED lock

\* It raises.
OpenFails(t) ==
  /\ Moves(t, "opening", "idle")
  /\ UNCHANGED cmd /\ UNCHANGED wire /\ UNCHANGED lock /\ UNCHANGED sockets

\* One recv of at most 0.3 s drops the greeting, or the piece of it that has
\* arrived, or nothing; the socket goes into the cache.
DropGreeting(t) ==
  /\ Moves(t, "greeting", "ready")
  /\ cached' = conn[t]
  /\ \E k \in 0 .. Len(lines[conn[t]]) :
       lines' = [lines EXCEPT ![conn[t]] = SubSeq(@, k + 1, Len(@))]
  /\ skewed' = (skewed \/ sent[conn[t]] \o lines'[conn[t]] # <<>>)
  /\ UNCHANGED <<cmd, conn, opened, closed, sent, buffer, answer>>
  /\ UNCHANGED lock

\* Faulty variant: a newcomer goes in when nobody else waits behind the holder.
EnterBarging(t) ==
  /\ Moves(t, "ready", "queued")
  /\ queue' = Append(queue, t)
  /\ ahead' = ahead \cup ((OnWire \cup Waiting) \X {t})
  /\ event' = [event EXCEPT ![t] = Len(queue') <= 2]
  /\ UNCHANGED cmd /\ UNCHANGED wire /\ UNCHANGED sockets

\* _FairLock.__enter__, up to its wait.
Enter(t) ==
  /\ Moves(t, "ready", "queued")
  /\ queue' = Append(queue, t)
  /\ ahead' = ahead \cup ((OnWire \cup Waiting) \X {t})
  /\ event' = [event EXCEPT ![t] = Len(queue') = 1]
  /\ UNCHANGED cmd /\ UNCHANGED wire /\ UNCHANGED sockets

\* The wait is over.
GoIn(t) ==
  /\ event[t] /\ Moves(t, "queued", "inside")
  /\ UNCHANGED cmd /\ UNCHANGED wire /\ UNCHANGED lock /\ UNCHANGED sockets

Length(t) == IF cmd[t].kind = "list" THEN 1 + ListLines ELSE 1

\* Nothing comes back on a connection that is closed.
SendCommand(t) ==
  /\ Moves(t, "inside", "reading")
  /\ sent' = IF conn[t] \in closed THEN sent ELSE
       [sent EXCEPT ![conn[t]] = @ \o [i \in 1 .. Length(t) |-> cmd[t]]]
  /\ UNCHANGED <<cmd, lines, buffer, answer, skewed>>
  /\ UNCHANGED lock /\ UNCHANGED sockets

\* The device gives the next line on a connection.
Device(s) ==
  /\ sent[s] # <<>>
  /\ lines' = [lines EXCEPT ![s] = Append(@, Head(sent[s]))]
  /\ sent' = [sent EXCEPT ![s] = Tail(@)]
  /\ UNCHANGED <<stage, cmd, buffer, answer, skewed>>
  /\ UNCHANGED lock /\ UNCHANGED sockets

\* The device ends a connection: what it has still to say never comes, and of
\* what is on its way the end may be lost.
Close(s) ==
  /\ s \in 1 .. opened /\ s \notin closed
  /\ closed' = closed \cup {s}
  /\ sent' = [sent EXCEPT ![s] = <<>>]
  /\ \E k \in 0 .. Len(lines[s]) :
       lines' = [lines EXCEPT ![s] = SubSeq(@, 1, k)]
  /\ UNCHANGED <<stage, cmd, conn, cached, opened, buffer, answer, skewed>>
  /\ UNCHANGED lock

\* recv: what has arrived goes to the buffer, which all sockets share.
Receive(t) ==
  /\ stage[t] \in {"reading", "draining"} /\ buffer = <<>>
  /\ \E k \in 1 .. Len(lines[conn[t]]) :
       /\ buffer' = SubSeq(lines[conn[t]], 1, k)
       /\ lines' = [lines EXCEPT ![conn[t]] = SubSeq(@, k + 1, Len(@))]
  /\ UNCHANGED <<stage, cmd, sent, answer, skewed>>
  /\ UNCHANGED lock /\ UNCHANGED sockets

\* __exit__: the head of the queue leaves, and the next one is let in.
Exit(t) ==
  /\ stage' = [stage EXCEPT ![t] = "idle"]
  /\ queue' = Tail(queue)
  /\ event' = IF queue' = <<>> THEN event
                               ELSE [event EXCEPT ![Head(queue')] = TRUE]
  /\ ahead' = {p \in ahead : p[1] # t /\ p[2] # t}

\* sendall raises.
SendFails(t) ==
  /\ stage[t] = "inside" /\ Exit(t)
  /\ answer' = <<>>
  /\ UNCHANGED <<cmd, sent, lines, buffer, skewed>> /\ UNCHANGED sockets

\* Lines are left on a socket that is, or was, in use.
Stale ==
  \E s \in Sockets : /\ sent[s] \o lines[s] # <<>>
                     /\ \A t \in Threads : stage[t] = "greeting" => conn[t] # s

\* Faulty variant: a LIST is read like any other answer.
ReadHeaderOnly(t) ==
  /\ stage[t] = "reading" /\ buffer # <<>>
  /\ answer' = <<Head(buffer)>>
  /\ buffer' = Tail(buffer)
  /\ Exit(t)
  /\ UNCHANGED <<cmd, sent, lines, skewed>> /\ UNCHANGED sockets

\* The line of the answer is read; a LIST goes on to drain the others.
ReadLine(t) ==
  /\ stage[t] = "reading" /\ buffer # <<>>
  /\ answer' = <<Head(buffer)>>
  /\ buffer' = Tail(buffer)
  /\ IF cmd[t].kind = "list"
       THEN stage' = [stage EXCEPT ![t] = "draining"] /\ UNCHANGED lock
       ELSE Exit(t)
  /\ UNCHANGED <<cmd, sent, lines, skewed>> /\ UNCHANGED sockets

\* The further lines, up to an empty one, which ends the list.
DrainLine(t) ==
  /\ stage[t] = "draining" /\ buffer # <<>>
  /\ buffer' = Tail(buffer)
  /\ \/ UNCHANGED <<stage, skewed>> /\ UNCHANGED lock
     \/ Exit(t) /\ skewed' = (Stale \/ buffer' # <<>>)
  /\ UNCHANGED <<cmd, sent, lines, answer>> /\ UNCHANGED sockets

\* recv has nothing more to give on a connection that is closed: it raises, or
\* the line is empty or a piece of one, which is the answer, or ends the list.
ReadEnd(t) ==
  /\ stage[t] \in {"reading", "draining"}
  /\ conn[t] \in closed /\ buffer = <<>> /\ lines[conn[t]] = <<>>
  /\ answer' = IF stage[t] = "reading" THEN <<>> ELSE answer
  /\ \/ Exit(t)
     \/ /\ cmd[t].kind = "list"
        /\ Moves(t, "reading", "draining") /\ UNCHANGED lock
  /\ UNCHANGED <<cmd, sent, lines, buffer, skewed>> /\ UNCHANGED sockets

\* Ten seconds without an answer (socket.timeout is raised), or 150 ms
\* without a further line of a list.
GiveUp(t) ==
  /\ stage[t] \in {"reading", "draining"}
  /\ conn[t] \notin closed /\ buffer = <<>> /\ lines[conn[t]] = <<>>
  /\ answer' = IF stage[t] = "reading" THEN <<>> ELSE answer
  /\ skewed' = Stale
  /\ Exit(t)
  /\ UNCHANGED <<cmd, sent, lines, buffer>> /\ UNCHANGED sockets

UartNext ==
  \/ \E t \in Threads :
       \/ GetSocket(t) \/ OpenSocket(t) \/ OpenFails(t) \/ DropGreeting(t)
       \/ Enter(t) \/ GoIn(t) \/ SendCommand(t) \/ SendFails(t)
       \/ Receive(t) \/ ReadLine(t) \/ DrainLine(t) \/ ReadEnd(t) \/ GiveUp(t)
  \/ \E s \in Sockets : Device(s) \/ Close(s)

UartSpec == UartInit /\ [][UartNext]_uartVars

-----------------------------------------------------------------------------
\* _FairLock: one thread at a time is on the wire, and nobody still waits
\* that was there when it came.
FairLock ==
  \A t, u \in Threads :
    /\ t \in OnWire /\ u \in OnWire => t = u
    /\ t \in OnWire => <<u, t>> \notin ahead

\* The line a call returns is the answer to its own command: whichever sockets
\* the threads use, and although they share a buffer.  Exempt is a call on a
\* link on which an earlier reader has left lines (skewed); and there may be no
\* answer only if the call itself gives up too early or its connection is
\* closed.
OwnAnswer ==
  [][\A t \in Threads :
       stage[t] = "reading" /\ stage'[t] # "reading" /\ ~skewed
         => \/ answer' = <<cmd[t]>>
            \/ answer' = <<>> /\ (skewed' \/ conn[t] \in closed)]_uartVars
=============================================================================
