---------------------------- MODULE MessageLedger ----------------------------
(***************************************************************************)
(* What the message layer of the AIPL runtime promises, with no threads,   *)
(* mailboxes or counter: a message is open from its send until the worker  *)
(* is done with it, it is opened and closed once, the reply to it is fixed *)
(* by the first answer and only while it is open, and the system is        *)
(* declared idle only when nothing is open.  Where programs use select, a  *)
(* selected message may be done although its caller has no answer.         *)
(***************************************************************************)
CONSTANTS
  Msg,         \* the messages
  Selective    \* do programs use select?

VARIABLES
  open,     \* messages sent and not yet done
  closed,   \* messages that are done
  answer,   \* the reply to each message
  verdict   \* what the wait for idleness returned

vars == <<open, closed, answer, verdict>>

TypeOK ==
  /\ open \subseteq Msg
  /\ closed \subseteq Msg
  /\ open \cap closed = {}
  /\ answer \in [Msg -> {"absent", "pending", "value", "null"}]
  /\ verdict \in {"none", "idle", "timeout"}

Init ==
  /\ open = {}
  /\ closed = {}
  /\ answer = [m \in Msg |-> "absent"]
  /\ verdict = "none"

\* A new message, with or without a caller that wants a reply.
Accept(m) ==
  /\ m \notin open \cup closed
  /\ open' = open \cup {m}
  /\ \E r \in {"absent", "pending"} : answer' = [answer EXCEPT ![m] = r]
  /\ UNCHANGED <<closed, verdict>>

\* The first answer to an open message; there is no second.
Answer(m) ==
  /\ m \in open
  /\ answer[m] = "pending"
  /\ \E v \in {"value", "null"} : answer' = [answer EXCEPT ![m] = v]
  /\ UNCHANGED <<open, closed, verdict>>

\* The worker is done with a message whose caller, if any, has its answer.
Close(m) ==
  /\ m \in open
  /\ answer[m] # "pending"
  /\ open' = open \ {m}
  /\ closed' = closed \cup {m}
  /\ UNCHANGED <<answer, verdict>>

\* The exception: a select takes the message out of the queue and does not
\* answer its caller.
Swallow(m) ==
  /\ Selective
  /\ m \in open
  /\ answer[m] = "pending"
  /\ open' = open \ {m}
  /\ closed' = closed \cup {m}
  /\ UNCHANGED <<answer, verdict>>

DeclareIdle ==
  /\ verdict = "none"
  /\ open = {}
  /\ verdict' = "idle"
  /\ UNCHANGED <<open, closed, answer>>

GiveUp ==
  /\ verdict = "none"
  /\ verdict' = "timeout"
  /\ UNCHANGED <<open, closed, answer>>

Next ==
  \/ \E m \in Msg : Accept(m) \/ Answer(m) \/ Close(m) \/ Swallow(m)
  \/ DeclareIdle
  \/ GiveUp

Spec == Init /\ [][Next]_vars
==============================================================================
