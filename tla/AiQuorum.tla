------------------------------ MODULE AiQuorum ------------------------------
(***************************************************************************)
(* call_ai_quorum of aipl_dist.py: one thread per provider and the caller. *)
(* result_box is written without a lock; done_evt and all_done are events. *)
(***************************************************************************)
EXTENDS Naturals, FiniteSets

CONSTANTS Providers, NoProvider

ASSUME QuorumAssumption ==
  IsFiniteSet(Providers) /\ Providers # {} /\ NoProvider \notin Providers

VARIABLES
  thread,   \* where the thread of each provider is
  value,    \* result_box["value"]: the provider that gave it
  winner,   \* result_box["winner"]
  errors,   \* the providers in result_box["errors"]
  done,     \* done_evt
  caller,   \* waiting, joining (the exit of the executor), returned, raised
  tardy     \* history: the replies that came after done_evt was set

quorumVars == <<thread, value, winner, errors, done, caller, tardy>>

Box == Providers \cup {NoProvider}

QuorumTypes ==
  /\ thread \in [Providers ->
       {"calling", "replied", "first", "valued", "won", "ending", "ended"}]
  /\ value \in Box /\ winner \in Box
  /\ errors \subseteq Providers /\ tardy \subseteq Providers
  /\ done \in BOOLEAN
  /\ caller \in {"waiting", "joining", "returned", "raised"}

QuorumInit ==
  /\ thread = [p \in Providers |-> "calling"]
  /\ value = NoProvider /\ winner = NoProvider
  /\ errors = {} /\ tardy = {} /\ done = FALSE
  /\ caller = "waiting"

AllDone == \A p \in Providers : thread[p] = "ended"

Goes(p, from, to) == thread[p] = from /\ thread' = [thread EXCEPT ![p] = to]

-----------------------------------------------------------------------------
\* call_ai returns in the thread of p, or raises.
ReplyArrives(p) ==
  /\ Goes(p, "calling", "replied")
  /\ tardy' = IF done THEN tardy \cup {p} ELSE tardy
  /\ UNCHANGED <<value, winner, errors, done, caller>>

CallFails(p) ==
  /\ Goes(p, "calling", "ending")
  /\ errors' = errors \cup {p}
  /\ UNCHANGED <<value, winner, done, caller, tardy>>

\* Faulty variant: a reply does not ask whether it is the first.
TakeAnyway(p) ==
  /\ Goes(p, "replied", "first")
  /\ UNCHANGED <<value, winner, errors, done, caller, tardy>>

\* done_evt.is_set() is read; what follows is decided, though not yet done.
TestFirst(p) ==
  /\ Goes(p, "replied", IF done THEN "ending" ELSE "first")
  /\ UNCHANGED <<value, winner, errors, done, caller, tardy>>

PutValue(p) ==
  /\ Goes(p, "first", "valued")
  /\ value' = p
  /\ UNCHANGED <<winner, errors, done, caller, tardy>>

PutWinner(p) ==
  /\ Goes(p, "valued", "won")
  /\ winner' = p
  /\ UNCHANGED <<value, errors, done, caller, tardy>>

SetDone(p) ==
  /\ Goes(p, "won", "ending")
  /\ done' = TRUE
  /\ UNCHANGED <<value, winner, errors, caller, tardy>>

\* The finally clause: pending is decremented; the last one sets all_done.
EndThread(p) ==
  /\ Goes(p, "ending", "ended")
  /\ UNCHANGED <<value, winner, errors, done, caller, tardy>>

\* Faulty variant: only a reply ends the wait.
StopAtReply ==
  /\ caller = "waiting" /\ done
  /\ caller' = "joining"
  /\ UNCHANGED <<thread, value, winner, errors, done, tardy>>

\* The polling loop ends, and the executor begins to join its threads.
StopWaiting ==
  /\ caller = "waiting" /\ (done \/ AllDone)
  /\ caller' = "joining"
  /\ UNCHANGED <<thread, value, winner, errors, done, tardy>>

\* The executor has joined every thread.
Join ==
  /\ caller = "joining" /\ AllDone
  /\ caller' = IF winner = NoProvider THEN "raised" ELSE "returned"
  /\ UNCHANGED <<thread, value, winner, errors, done, tardy>>

QuorumStep ==
  \/ StopWaiting \/ Join
  \/ \E p \in Providers :
       \/ TestFirst(p) \/ PutValue(p) \/ PutWinner(p)
       \/ SetDone(p) \/ EndThread(p)

QuorumNext == QuorumStep \/ \E p \in Providers : ReplyArrives(p) \/ CallFails(p)

\* The threads and the caller go on; a provider may hang.
QuorumSpec ==
  QuorumInit /\ [][QuorumNext]_quorumVars /\ WF_quorumVars(QuorumStep)

-----------------------------------------------------------------------------
\* call_ai_quorum raises only when every provider has failed, and what it
\* returns is never a reply that came after another had been announced as
\* the first, although the box is written without a lock.
QuorumAnswer ==
  /\ caller = "raised" => errors = Providers
  /\ caller = "returned" => value \in Providers \ (errors \cup tardy)

\* Once every provider has ended, in one way or another, so does the call.
QuorumEnds ==
  (\A p \in Providers : thread[p] # "calling")
     ~> (caller \in {"returned", "raised"})
=============================================================================
