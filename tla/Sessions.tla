------------------------------ MODULE Sessions ------------------------------
(***************************************************************************)
(* Protocol traces and typed sessions of aipl_aios.py, and the reports of  *)
(* calls to them.  aios_now reports its call when the reply is there, and  *)
(* so does every await of the future of an aios_future call: a call is     *)
(* reported as often as it is awaited, by whoever awaits it, or never.     *)
(* record_observation copies the traces that are running, lets go of the   *)
(* lock, and shows the call to one after another, while other actors make  *)
(* reports, start, end and redefine; first the protocols, then the         *)
(* sessions.                                                               *)
(***************************************************************************)
EXTENDS Integers, Sequences, SequencesExt

CONSTANTS
  Reports,   \* what is reported: aios_now calls, awaits of a call's future
  Traces,    \* the ids of the traces
  Protocol,  \* those that protocol_start makes; the others are sessions
  Labels,    \* actor.method
  Plans,     \* what the call of each report calls, and whether its types fit
             \* the step; reports that agree may be of one call
  Defs       \* the definitions a program may give: sequences of labels

ASSUME SessionsAssumption ==
  /\ Protocol \subseteq Traces
  /\ Defs \subseteq Seq(Labels) /\ Defs # {}
  /\ Plans \subseteq [Reports -> [label : Labels, fits : BOOLEAN]]

VARIABLES
  report,   \* where each is, what its call calls, whether its types fit
  unshown,  \* the traces record_observation has still to show it to
  def,      \* _proto_defs, _sess_defs: the one name the traces are made of
  status,   \* of a trace: none, running, ended
  idx,      \* how many steps it has seen
  blamed,   \* its violations
  log,      \* the reports it was shown, in order
  redefined,\* history: its definition was replaced while it ran
  after,    \* history: <<c, d>>: d began after c had returned
  owed      \* history: the traces that ran when a report began

sessionsVars ==
  <<report, unshown, def, status, idx, blamed, log, redefined, after, owed>>
sessionsTable == <<def, status, idx, blamed, log, redefined>>

SessionsTypes ==
  /\ report \in [Reports -> [at : {"unmade", "begun", "protocols", "sessions", "returned"},
                         label : Labels, fits : BOOLEAN]]
  /\ unshown \in [Reports -> SUBSET Traces]
  /\ def \in Defs
  /\ status \in [Traces -> {"none", "running", "ended"}]
  /\ idx \in [Traces -> Nat] /\ blamed \in [Traces -> Nat]
  /\ log \in [Traces -> Seq(Reports)]
  /\ redefined \in [Traces -> BOOLEAN]
  /\ after \subseteq Reports \X Reports
  /\ owed \in [Reports -> SUBSET Traces]

SessionsInit ==
  /\ \E p \in Plans :
       report = [c \in Reports |-> [at |-> "unmade", label |-> p[c].label,
                               fits |-> p[c].fits]]
  /\ unshown = [c \in Reports |-> {}]
  /\ def \in Defs
  /\ status = [t \in Traces |-> "none"]
  /\ idx = [t \in Traces |-> 0] /\ blamed = [t \in Traces |-> 0]
  /\ log = [t \in Traces |-> <<>>]
  /\ redefined = [t \in Traces |-> FALSE]
  /\ after = {}
  /\ owed = [c \in Reports |-> {}]

Running == {t \in Traces : status[t] = "running"}
Returned == {c \in Reports : report[c].at = "returned"}

-----------------------------------------------------------------------------
\* protocol_define, session_define: also under the feet of a running trace.
Define(d) ==
  /\ d # def
  /\ def' = d
  /\ redefined' = [t \in Traces |-> redefined[t] \/ t \in Running]
  /\ UNCHANGED <<report, unshown, status, idx, blamed, log, after, owed>>

StartTrace(t) ==
  /\ status[t] = "none"
  /\ status' = [status EXCEPT ![t] = "running"]
  /\ UNCHANGED <<report, unshown, def, idx, blamed, log, redefined, after, owed>>

EndTrace(t) ==
  /\ status[t] = "running"
  /\ status' = [status EXCEPT ![t] = "ended"]
  /\ UNCHANGED <<report, unshown, def, idx, blamed, log, redefined, after, owed>>

\* aios_now or await has the reply, of a call that may have been reported
\* before, and is about to call record_observation.
BeginReport(c) ==
  /\ report[c].at = "unmade"
  /\ report' = [report EXCEPT ![c].at = "begun"]
  /\ after' = after \cup (Returned \X {c})
  /\ owed' = [owed EXCEPT ![c] = Running]
  /\ UNCHANGED <<unshown>> /\ UNCHANGED sessionsTable

\* Faulty variant: a call that some protocol sees is not shown to sessions.
CopyProtocolsOnly(c) ==
  /\ report[c].at = "begun"
  /\ report' = [report EXCEPT ![c].at = "sessions"]
  /\ unshown' = [unshown EXCEPT ![c] =
       IF Running \cap Protocol # {} THEN Running \cap Protocol ELSE Running]
  /\ UNCHANGED <<after, owed>> /\ UNCHANGED sessionsTable

\* record_observation copies the protocols that are running and, when it has
\* shown them the call, the running sessions.
CopyRunning(c) ==
  /\ \/ /\ report[c].at = "begun"
        /\ report' = [report EXCEPT ![c].at = "protocols"]
        /\ unshown' = [unshown EXCEPT ![c] = Running \cap Protocol]
     \/ /\ report[c].at = "protocols" /\ unshown[c] = {}
        /\ report' = [report EXCEPT ![c].at = "sessions"]
        /\ unshown' = [unshown EXCEPT ![c] = Running \ Protocol]
  /\ UNCHANGED <<after, owed>> /\ UNCHANGED sessionsTable

Matches(t, c) == idx[t] < Len(def) /\ def[idx[t] + 1] = report[c].label

\* protocol_observe: the call is logged, and advances the cursor if it is
\* the next step; a trace that has ended meanwhile does not see it.
ProtocolObserve(t, c) ==
  /\ t \in Protocol
  /\ IF status[t] = "ended"
       THEN UNCHANGED <<log, idx>>
       ELSE /\ log' = [log EXCEPT ![t] = Append(@, c)]
            /\ idx' = [idx EXCEPT ![t] = IF Matches(t, c) THEN @ + 1 ELSE @]
  /\ UNCHANGED blamed

\* Faulty variant: a call with the wrong types advances the cursor.
CheckLabelOnly(t, c) ==
  /\ t \notin Protocol
  /\ log' = [log EXCEPT ![t] = Append(@, c)]
  /\ IF status[t] = "running" /\ Matches(t, c)
       THEN idx' = [idx EXCEPT ![t] = @ + 1] /\ UNCHANGED blamed
       ELSE blamed' = [blamed EXCEPT ![t] = @ + 1] /\ UNCHANGED idx

\* session_check: a violation is counted for a call after the end, an extra
\* one, another step than the next, and arguments or a reply of other types.
SessionCheck(t, c) ==
  /\ t \notin Protocol
  /\ log' = [log EXCEPT ![t] = Append(@, c)]
  /\ IF status[t] = "running" /\ Matches(t, c) /\ report[c].fits
       THEN idx' = [idx EXCEPT ![t] = @ + 1] /\ UNCHANGED blamed
       ELSE blamed' = [blamed EXCEPT ![t] = @ + 1] /\ UNCHANGED idx

\* A turn of either loop.
Observe(c) ==
  /\ \E t \in unshown[c] :
       /\ ProtocolObserve(t, c) \/ SessionCheck(t, c)
       /\ unshown' = [unshown EXCEPT ![c] = @ \ {t}]
  /\ UNCHANGED <<report, def, status, redefined, after, owed>>

\* aios_now, or await, returns the reply to the program.
EndReport(c) ==
  /\ report[c].at = "sessions" /\ unshown[c] = {}
  /\ report' = [report EXCEPT ![c].at = "returned"]
  /\ UNCHANGED <<unshown, after, owed>> /\ UNCHANGED sessionsTable

SessionsNext ==
  \/ \E d \in Defs : Define(d)
  \/ \E t \in Traces : StartTrace(t) \/ EndTrace(t)
  \/ \E c \in Reports : BeginReport(c) \/ CopyRunning(c) \/ Observe(c)
                      \/ EndReport(c)

SessionsSpec == SessionsInit /\ [][SessionsNext]_sessionsVars

-----------------------------------------------------------------------------
LabelsOf(t) == [i \in DOMAIN log[t] |-> report[log[t][i]].label]

\* s is a subsequence of u.
Within(s, u) ==
  \E f \in [DOMAIN s -> DOMAIN u] :
    /\ \A i \in DOMAIN s : s[i] = u[f[i]]
    /\ \A i, j \in DOMAIN s : i < j => f[i] < f[j]

\* What the cursor says is true of the log, whatever calls raced to write it:
\* a protocol has got as far as its steps can be found in the log, in order;
\* a session without violations has seen exactly the steps up to its cursor,
\* well typed, and one that blames somebody was shown something else.  Not so
\* once the definition was replaced under a running trace.
CursorTruthful ==
  \A t \in Traces : ~redefined[t] /\ status[t] = "running" =>
    IF t \in Protocol
      THEN \A k \in 0 .. Len(def) :
             Within(SubSeq(def, 1, k), LabelsOf(t)) <=> k <= idx[t]
      ELSE blamed[t] = 0 <=> /\ idx[t] = Len(log[t])
                             /\ IsPrefix(LabelsOf(t), def)
                             /\ \A c \in Range(log[t]) : report[c].fits

\* A trace that ran from before a report began until after it returned has been
\* shown it once, however many report at once and whatever starts and ends
\* meanwhile; and it sees the reports of which one returned before the other
\* began in that order.  A call is so shown as often as it is reported.
ReportsSeenInOrder ==
  \A t \in Running :
    /\ \A c \in Returned : t \in owed[c] =>
         \E i \in DOMAIN log[t] : \A j \in DOMAIN log[t] :
           log[t][j] = c <=> i = j
    /\ \A i, j \in DOMAIN log[t] : <<log[t][j], log[t][i]>> \in after => j < i
=============================================================================
