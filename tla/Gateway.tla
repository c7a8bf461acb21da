------------------------------- MODULE Gateway -------------------------------
(***************************************************************************)
(* remote_now over the JSON gateway (aipl_remote.py): on every node one    *)
(* thread serves one request at a time, and waits for the reply of the     *)
(* actor, for thirty seconds; the worker of the caller waits for the       *)
(* gateway, for thirty-five.  Handlers make such calls themselves, to      *)
(* actors of other nodes and of their own.                                 *)
(***************************************************************************)
EXTENDS Naturals, Sequences

CONSTANTS
  Nodes, Hosted,
  NodeOf,     \* where each actor lives
  MaxCalls    \* bound: remote calls made

ASSUME GatewayAssumption ==
  NodeOf \in [Hosted -> Nodes] /\ MaxCalls \in Nat

VARIABLES
  call,     \* the calls made so far: who calls whom
  client,   \* what has become of a call at the caller: waiting, done, raised
  future,   \* the Future the gateway made for it: none, empty, set
  backlog,  \* of each gateway: connections not yet accepted
  serving,  \* the call it waits for; 0 when it is free
  inbox,    \* of each actor: the messages in its mailbox, a call each
  job,      \* the call its handler is running for; 0 when it is idle
  awaiting  \* the call its handler is waiting for; 0 when it waits for none

gatewayVars ==
  <<call, client, future, backlog, serving, inbox, job, awaiting>>
gatewayActors == <<inbox, job, awaiting>>

\* A message that no remote call has sent.
Local == MaxCalls + 1
CallId == 1 .. MaxCalls

GatewayTypes ==
  /\ call \in Seq(Hosted \X Hosted) /\ Len(call) <= MaxCalls
  /\ client \in [CallId -> {"none", "waiting", "done", "raised"}]
  /\ future \in [CallId -> {"none", "empty", "set"}]
  /\ backlog \in [Nodes -> Seq(CallId)]
  /\ serving \in [Nodes -> 0 .. MaxCalls]
  /\ inbox \in [Hosted -> Seq(CallId \cup {Local})]
  /\ job \in [Hosted -> 0 .. Local]
  /\ awaiting \in [Hosted -> 0 .. MaxCalls]

GatewayInit ==
  /\ call = <<>>
  /\ client = [c \in CallId |-> "none"] /\ future = [c \in CallId |-> "none"]
  /\ backlog = [n \in Nodes |-> <<>>] /\ serving = [n \in Nodes |-> 0]
  /\ inbox = [a \in Hosted |-> <<>>]
  /\ job = [a \in Hosted |-> 0] /\ awaiting = [a \in Hosted |-> 0]

-----------------------------------------------------------------------------
\* Somebody on its own node sends the actor a message; one at a time.
SendLocal(a) ==
  /\ job[a] # Local /\ \A i \in DOMAIN inbox[a] : inbox[a][i] # Local
  /\ inbox' = [inbox EXCEPT ![a] = Append(@, Local)]
  /\ UNCHANGED <<call, client, future, backlog, serving, job, awaiting>>

\* The worker of the actor takes the next message.
Take(a) ==
  /\ job[a] = 0 /\ inbox[a] # <<>>
  /\ job' = [job EXCEPT ![a] = Head(inbox[a])]
  /\ inbox' = [inbox EXCEPT ![a] = Tail(@)]
  /\ UNCHANGED <<call, client, future, backlog, serving, awaiting>>

\* remote_call_sync connects and posts.
RemoteNow(a, b) ==
  /\ job[a] # 0 /\ awaiting[a] = 0 /\ Len(call) < MaxCalls
  /\ LET c == Len(call) + 1
     IN /\ call' = Append(call, <<a, b>>)
        /\ client' = [client EXCEPT ![c] = "waiting"]
        /\ backlog' = [backlog EXCEPT ![NodeOf[b]] = Append(@, c)]
        /\ awaiting' = [awaiting EXCEPT ![a] = c]
  /\ UNCHANGED <<future, serving, inbox, job>>

\* reply(v), or the end of the method, which sets what is not set.
SetFuture(c) == IF c \in CallId THEN [future EXCEPT ![c] = "set"] ELSE future

ReplyCall(a) ==
  /\ job[a] # 0 /\ awaiting[a] = 0
  /\ future' = SetFuture(job[a])
  /\ UNCHANGED <<call, client, backlog, serving>> /\ UNCHANGED gatewayActors

FinishJob(a) ==
  /\ job[a] # 0 /\ awaiting[a] = 0
  /\ future' = SetFuture(job[a])
  /\ job' = [job EXCEPT ![a] = 0]
  /\ UNCHANGED <<call, client, backlog, serving, inbox, awaiting>>

\* The caller reads the response, or its own timeout is over.
Resume(a) ==
  /\ awaiting[a] # 0 /\ client[awaiting[a]] # "waiting"
  /\ awaiting' = [awaiting EXCEPT ![a] = 0]
  /\ UNCHANGED <<call, client, future, backlog, serving, inbox, job>>

CallerTimeout(c) ==
  /\ client[c] = "waiting"
  /\ client' = [client EXCEPT ![c] = "raised"]
  /\ UNCHANGED <<call, future, backlog, serving>> /\ UNCHANGED gatewayActors

\* _handle_call, up to its wait; whether or not the caller is still there.
Accept(n) ==
  /\ serving[n] = 0 /\ backlog[n] # <<>>
  /\ LET c == Head(backlog[n])
         b == call[c][2]
     IN /\ serving' = [serving EXCEPT ![n] = c]
        /\ inbox' = [inbox EXCEPT ![b] = Append(@, c)]
        /\ future' = [future EXCEPT ![c] = "empty"]
  /\ backlog' = [backlog EXCEPT ![n] = Tail(@)]
  /\ UNCHANGED <<call, client, job, awaiting>>

\* Faulty variant: the gateway waits as long as it takes.
RespondWhenSet(n) ==
  /\ serving[n] # 0 /\ future[serving[n]] = "set"
  /\ client' = [client EXCEPT ![serving[n]] =
                  IF @ = "waiting" THEN "done" ELSE @]
  /\ serving' = [serving EXCEPT ![n] = 0]
  /\ UNCHANGED <<call, future, backlog>> /\ UNCHANGED gatewayActors

\* The future is set, or thirty seconds have passed; the response says ok in
\* either case, and has the value there is.
Respond(n) ==
  /\ serving[n] # 0
  /\ client' = [client EXCEPT ![serving[n]] =
                  IF @ = "waiting" THEN "done" ELSE @]
  /\ serving' = [serving EXCEPT ![n] = 0]
  /\ UNCHANGED <<call, future, backlog>> /\ UNCHANGED gatewayActors

GatewayThread(n) == Accept(n) \/ Respond(n)
Worker(a) == Take(a) \/ FinishJob(a) \/ Resume(a)

GatewayNext ==
  \/ \E n \in Nodes : GatewayThread(n)
  \/ \E a \in Hosted : \/ Worker(a) \/ SendLocal(a) \/ ReplyCall(a)
                       \/ \E b \in Hosted : RemoteNow(a, b)
  \/ \E c \in CallId : CallerTimeout(c)

\* The threads go on; that callers ever time out is not relied on.
GatewayFair ==
  /\ \A n \in Nodes : WF_gatewayVars(GatewayThread(n))
  /\ \A a \in Hosted : WF_gatewayVars(Worker(a))

GatewaySpec == GatewayInit /\ [][GatewayNext]_gatewayVars /\ GatewayFair

-----------------------------------------------------------------------------
\* Every remote call that is made is handled in the end, also when actors call
\* each other in a circle, when a handler calls through the gateway that is
\* waiting for it, and when its own caller has given up.
CallsHandled ==
  \A c \in CallId : (client[c] = "waiting") ~> (future[c] = "set")
=============================================================================
