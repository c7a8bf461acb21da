-------------------------------- MODULE Saga --------------------------------
(***************************************************************************)
(* _do_saga and _do_scope of aipl_interp.py: an actor runs the steps of a  *)
(* saga in order.  The body of a step is a scope that may start one future *)
(* call on a worker; the scope joins it, for five seconds.  A body that    *)
(* raises, or returns, makes the saga compensate the completed steps.      *)
(***************************************************************************)
EXTENDS Integers, Sequences, SequencesExt

CONSTANTS Steps,   \* how many
          Workers  \* the actors that run the calls

ASSUME SagaAssumption == Steps \in Nat \ {0}

VARIABLES
  at,        \* where the saga is
  step,      \* the step being run
  ending,    \* how its body ended
  completed, \* the local list of _do_saga, oldest first
  undone,    \* the steps whose compensation has run, in order
  task,      \* the state of the future call of each step
  worker     \* the actor it was sent to

sagaVars == <<at, step, ending, completed, undone, task, worker>>

Step  == 1 .. Steps
Open  == {"queued", "running"}
Over  == {"finished", "aborted"}

SagaTypes ==
  /\ at \in {"body", "join", "undo"} \cup Over
  /\ step \in Step
  /\ ending \in {"normal", "raised", "returned"}
  /\ completed \in Seq(Step) /\ undone \in Seq(Step)
  /\ task \in [Step -> {"none", "settled"} \cup Open]
  /\ worker \in [Step -> Workers]

SagaInit ==
  /\ at = "body" /\ step = 1 /\ ending = "normal"
  /\ completed = <<>> /\ undone = <<>>
  /\ task = [i \in Step |-> "none"]
  /\ worker \in [Step -> Workers]

\* _do_future_send inside the scope: the future joins scope_futures.
StartTask ==
  /\ at = "body" /\ task[step] = "none"
  /\ task' = [task EXCEPT ![step] = "queued"]
  /\ UNCHANGED <<at, step, ending, completed, undone, worker>>

\* The body ends, one way or another; the finally clause joins.
EndBody(e) ==
  /\ at = "body"
  /\ at' = "join" /\ ending' = e
  /\ UNCHANGED <<step, completed, undone, task, worker>>

\* A worker takes its calls in order, and settles the future of each,
\* also when the method raises.
RunTask(i) ==
  /\ task[i] = "queued"
  /\ \A j \in Step : worker[j] = worker[i] =>
       task[j] # "running" /\ (j < i => task[j] # "queued")
  /\ task' = [task EXCEPT ![i] = "running"]
  /\ UNCHANGED <<at, step, ending, completed, undone, worker>>

SettleTask(i) ==
  /\ task[i] = "running"
  /\ task' = [task EXCEPT ![i] = "settled"]
  /\ UNCHANGED <<at, step, ending, completed, undone, worker>>

\* The loop of the saga: the step is complete when its body did not raise;
\* ReturnSignal is raised.
EndStep ==
  IF ending = "normal"
    THEN /\ completed' = Append(completed, step)
         /\ IF step = Steps THEN at' = "finished" /\ UNCHANGED step
                            ELSE at' = "body" /\ step' = step + 1
    ELSE at' = "undo" /\ UNCHANGED <<step, completed>>

\* Faulty variant: the join has no timeout.
LeavePatiently ==
  /\ at = "join" /\ task[step] \notin Open
  /\ EndStep
  /\ UNCHANGED <<ending, undone, task, worker>>

\* Faulty variant: the last step is not known for the last.
LeaveForNext ==
  /\ at = "join"
  /\ IF ending = "normal"
       THEN /\ completed' = Append(completed, step)
            /\ at' = "body" /\ step' = step + 1
       ELSE at' = "undo" /\ UNCHANGED <<step, completed>>
  /\ UNCHANGED <<ending, undone, task, worker>>

\* The scope is left: the future is settled, or five seconds have passed.
LeaveScope ==
  /\ at = "join"
  /\ EndStep
  /\ UNCHANGED <<ending, undone, task, worker>>

\* Faulty variant: the walk goes forward.
CompensateForward ==
  /\ at = "undo" /\ Len(undone) < Len(completed)
  /\ undone' = Append(undone, completed[Len(undone) + 1])
  /\ UNCHANGED <<at, step, ending, completed, task, worker>>

\* The walk back; an exception of a compensation is logged and does not end it.
Compensate ==
  /\ at = "undo" /\ Len(undone) < Len(completed)
  /\ undone' = Append(undone, completed[Len(completed) - Len(undone)])
  /\ UNCHANGED <<at, step, ending, completed, task, worker>>

\* Every completed step has had its turn: re-raise.
Reraise ==
  /\ at = "undo" /\ Len(undone) = Len(completed)
  /\ at' = "aborted"
  /\ UNCHANGED <<step, ending, completed, undone, task, worker>>

SagaActor ==
  StartTask \/ (\E e \in {"normal", "raised", "returned"} : EndBody(e))
  \/ LeaveScope \/ Compensate \/ Reraise

SagaNext == SagaActor \/ \E i \in Step : RunTask(i) \/ SettleTask(i)

\* Only the actor is scheduled fairly: a worker may hang.
SagaSpec == SagaInit /\ [][SagaNext]_sagaVars /\ WF_sagaVars(SagaActor)

-----------------------------------------------------------------------------
\* A saga keeps all its steps, or has compensated those that completed, the
\* last first, and not the one that failed: also when a compensation raises
\* and when the failure is a return statement.
AllOrNothing ==
  /\ at = "finished" => undone = <<>> /\ completed = [i \in Step |-> i]
  /\ at = "aborted" => undone = Reverse(completed)
                       /\ completed = [i \in 1 .. step - 1 |-> i]

\* A worker that hangs holds up a scope for its five seconds, not for ever.
SagaEnds == <>(at \in Over)
=============================================================================
