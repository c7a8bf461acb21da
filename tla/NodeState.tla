------------------------------ MODULE NodeState ------------------------------
(***************************************************************************)
(* The state of a node across restarts: save_snapshot of aipl_state.py,    *)
(* the save_state builtin, the snapshot taken when the script ends, and    *)
(* the restore and replay of spawn_actor.  The script spawns the actors,   *)
(* each once, and binds each to a global of its name.  A message is a      *)
(* number, in the order in which they were first put; the fields of an     *)
(* actor are the messages they have absorbed.                              *)
(***************************************************************************)
EXTENDS Integers, Sequences, SequencesExt, FiniteSets

CONSTANTS
  Actors,
  Resetting,  \* actors whose init assigns the fields that are saved
  Eager,      \* actors others can send to, or that send to themselves, before
              \* their spawn is over: code that runs then hands them out
  Opaque,     \* messages with an argument JSON cannot hold
  MaxSent, MaxSaves, MaxRuns   \* bounds: messages, save_state calls, restarts

ASSUME NodeAssumption ==
  /\ Resetting \subseteq Actors /\ Eager \subseteq Actors
  /\ Opaque \subseteq Nat \ {0}
  /\ MaxSent \in Nat /\ MaxSaves \in Nat /\ MaxRuns \in Nat

VARIABLES
  phase,   \* of the process
  born,    \* the actors whose worker has been started in this run
  spawning,  \* the actor that the script is in spawn_actor for, if any
  replay,  \* what spawn_actor has yet to put: init and the pending messages
  box,     \* their mailboxes; 0 is the init message
  hand,    \* the message a worker is handling, if any
  fields,  \* what the fields of an actor have absorbed
  copy,    \* the fields copied by the save_state a handler is in
  loaded,  \* _state_snapshot and _pending_snapshot of this run
  todo, cut, out, quiet,  \* _save_state_with_pending: globals to visit, the
           \* one being drained, what it has collected; did wait_idle see idle
  disk,    \* ABCL_NODE_STATE_FILE
  sent, saves, restarts   \* counted against the bounds

nodeVars == <<phase, born, spawning, replay, box, hand, fields, copy, loaded,
              todo, cut, out, quiet, disk, sent, saves, restarts>>
spawns == <<born, spawning, replay>>
counts == <<sent, saves, restarts>>
exit   == <<todo, cut, out, quiet>>
live   == <<box, hand, fields, copy>>

None  == <<>>
Blank == [a \in Actors |-> <<>>]
Empty == [fields |-> Blank, pending |-> Blank]
Up    == phase # "down"
Busy(a) == hand[a] # None \/ copy[a] # None
Bound == born \ ToSet(spawning)
Idle == \A a \in Actors : ~Busy(a) /\ box[a] = <<>>

Queues    == [Actors -> Seq(0 .. MaxSent)]
Snapshots == [fields : Queues, pending : Queues]

NodeTypes ==
  /\ phase \in {"run", "saving", "saved", "failed", "down"}
  /\ born \subseteq Actors /\ spawning \in Seq(Actors)
  /\ {replay, box, hand, fields} \subseteq Queues
  /\ copy \in [Actors -> Seq(Queues)]
  /\ {loaded, out, disk} \subseteq Snapshots
  /\ todo \subseteq Actors /\ cut \in Seq(Actors) /\ quiet \in BOOLEAN
  /\ sent \in 0 .. MaxSent /\ saves \in 0 .. MaxSaves
  /\ restarts \in 0 .. MaxRuns

NodeInit ==
  /\ phase = "run"
  /\ born = {} /\ spawning = None /\ replay = Blank
  /\ box = Blank /\ hand = Blank /\ fields = Blank /\ copy = Blank
  /\ loaded = Empty
  /\ todo = {} /\ cut = None /\ out = Empty /\ quiet = FALSE
  /\ disk = Empty
  /\ sent = 0 /\ saves = 0 /\ restarts = 0

-----------------------------------------------------------------------------
\* spawn_actor evaluates the field initialisers; there is no worker yet.
Spawn(a) ==
  /\ phase = "run" /\ spawning = None /\ a \notin born
  /\ spawning' = <<a>>
  /\ UNCHANGED <<phase, born, replay, live, loaded, exit, disk, counts>>

\* Faulty variant: the snapshot is restored into no field.
StartWorkerFresh(a) ==
  /\ phase = "run" /\ spawning = <<a>> /\ a \notin born
  /\ born' = born \cup {a}
  /\ replay' = [replay EXCEPT ![a] = <<0>> \o loaded.pending[a]]
  /\ loaded' = [loaded EXCEPT !.pending[a] = <<>>]
  /\ UNCHANGED <<phase, spawning, live, exit, disk, counts>>

\* The fields are restored and the worker is started; init and then the
\* pending messages are still to be put.
StartWorker(a) ==
  /\ phase = "run" /\ spawning = <<a>> /\ a \notin born
  /\ born' = born \cup {a}
  /\ fields' = [fields EXCEPT ![a] = loaded.fields[a]]
  /\ replay' = [replay EXCEPT ![a] = <<0>> \o loaded.pending[a]]
  /\ loaded' = [loaded EXCEPT !.pending[a] = <<>>]
  /\ UNCHANGED <<phase, spawning, box, hand, copy, exit, disk, counts>>

\* They are put one by one, while the worker takes what is there.
Replay(a) ==
  /\ phase = "run" /\ replay[a] # <<>>
  /\ box' = [box EXCEPT ![a] = Append(@, Head(replay[a]))]
  /\ replay' = [replay EXCEPT ![a] = Tail(@)]
  /\ UNCHANGED <<phase, born, spawning, hand, fields, copy, loaded, exit, disk,
                 counts>>

\* spawn_actor returns and the script binds the actor to its global.
Bind(a) ==
  /\ phase = "run" /\ spawning = <<a>> /\ a \in born /\ replay[a] = <<>>
  /\ spawning' = None
  /\ UNCHANGED <<phase, born, replay, live, loaded, exit, disk, counts>>

\* The script puts a message, between two spawns or from the initialisers of
\* one, or a handler at any time.
Send(a) ==
  /\ Up /\ sent < MaxSent
  /\ a \in Bound \/ (spawning = <<a>> /\ a \in Eager)
  /\ \/ phase = "run" /\ ToSet(spawning) \cap born = {}
     \/ \E b \in Actors : Busy(b)
  /\ sent' = sent + 1
  /\ box' = [box EXCEPT ![a] = Append(@, sent + 1)]
  /\ UNCHANGED <<phase, spawns, hand, fields, copy, loaded, exit, disk, saves,
                 restarts>>

Take(a) ==
  /\ Up /\ a \in born /\ ~Busy(a) /\ box[a] # <<>>
  /\ hand' = [hand EXCEPT ![a] = <<Head(box[a])>>]
  /\ box' = [box EXCEPT ![a] = Tail(@)]
  /\ UNCHANGED <<phase, spawns, fields, copy, loaded, exit, disk, counts>>

Absorbed(a) ==
  CASE hand[a] # <<0>> -> fields[a] \o hand[a]
    [] hand[a] = <<0>> /\ a \in Resetting -> <<>>
    [] OTHER -> fields[a]

\* A handler assigns the fields.  It ends, or goes on to call save_state,
\* which copies the fields of all globals.
Handle(a) ==
  /\ Up /\ hand[a] # None
  /\ fields' = [fields EXCEPT ![a] = Absorbed(a)]
  /\ hand' = [hand EXCEPT ![a] = None]
  /\ \/ UNCHANGED <<copy, saves>>
     \/ /\ saves < MaxSaves
        /\ saves' = saves + 1
        /\ copy' = [copy EXCEPT ![a] =
             <<[b \in Actors |-> IF b \in Bound THEN fields'[b] ELSE <<>>]>>]
  /\ UNCHANGED <<phase, spawns, box, loaded, exit, disk, sent, restarts>>

\* Faulty variant: save_state keeps the pending messages of the file.
WriteKeepsPending(a) ==
  /\ Up /\ copy[a] # None
  /\ disk' = [disk EXCEPT !.fields = Head(copy[a])]
  /\ copy' = [copy EXCEPT ![a] = None]
  /\ UNCHANGED <<phase, spawns, box, hand, fields, loaded, exit, counts>>

\* save_state writes its copy under _save_lock, when it gets it, and no
\* pending message; an OSError is printed and leaves the file alone.
Write(a) ==
  /\ Up /\ copy[a] # None
  /\ disk' \in {[fields |-> Head(copy[a]), pending |-> Blank], disk}
  /\ copy' = [copy EXCEPT ![a] = None]
  /\ UNCHANGED <<phase, spawns, box, hand, fields, loaded, exit, counts>>

-----------------------------------------------------------------------------
\* wait_idle returns because the node is idle, or because time is up.
EndScript ==
  /\ phase = "run" /\ Bound = Actors
  /\ phase' = "saving"
  /\ quiet' = Idle
  /\ todo' = Actors /\ out' = Empty
  /\ UNCHANGED <<spawns, live, loaded, cut, disk, counts>>

\* Faulty variant: the visit of an actor drains it and forgets its fields.
VisitDrainOnly(a) ==
  /\ phase = "saving" /\ cut = None /\ a \in todo
  /\ cut' = <<a>>
  /\ UNCHANGED <<phase, spawns, live, loaded, todo, out, quiet, disk, counts>>

\* _save_state_with_pending copies the fields of a global ...
Visit(a) ==
  /\ phase = "saving" /\ cut = None /\ a \in todo
  /\ out' = [out EXCEPT !.fields[a] = fields[a]]
  /\ cut' = <<a>>
  /\ UNCHANGED <<phase, spawns, live, loaded, todo, quiet, disk, counts>>

\* ... and then takes its messages, one at a time, while workers run on.
Drain(a) ==
  /\ phase = "saving" /\ cut = <<a>>
  /\ \/ /\ box[a] # <<>>
        /\ out' = [out EXCEPT !.pending[a] =
                     IF Head(box[a]) \in Opaque THEN @
                     ELSE Append(@, Head(box[a]))]
        /\ box' = [box EXCEPT ![a] = Tail(@)]
        /\ UNCHANGED <<todo, cut>>
     \/ /\ box[a] = <<>>
        /\ cut' = None /\ todo' = todo \ {a}
        /\ UNCHANGED <<box, out>>
  /\ UNCHANGED <<phase, spawns, hand, fields, copy, loaded, quiet, disk, counts>>

\* The file is replaced, or an OSError printed.
Save ==
  /\ phase = "saving" /\ todo = {} /\ cut = None
  /\ \/ disk' = out /\ phase' = "saved"
     \/ disk' = disk /\ phase' = "failed"
  /\ UNCHANGED <<spawns, live, loaded, exit, counts>>

\* The process ends, at its end or anywhere, and its memory is gone.
Stop ==
  /\ Up
  /\ phase' = "down"
  /\ born' = {} /\ spawning' = None /\ replay' = Blank
  /\ box' = Blank /\ hand' = Blank /\ fields' = Blank /\ copy' = Blank
  /\ loaded' = Empty
  /\ todo' = {} /\ cut' = None /\ out' = Empty /\ quiet' = FALSE
  /\ UNCHANGED <<disk, counts>>

\* Interpreter.__init__ loads the snapshot.
Restart ==
  /\ ~Up /\ restarts < MaxRuns
  /\ restarts' = restarts + 1
  /\ phase' = "run"
  /\ loaded' = disk
  /\ UNCHANGED <<spawns, live, exit, disk, sent, saves>>

NodeNext ==
  \/ \E a \in Actors : \/ Spawn(a) \/ StartWorker(a) \/ Replay(a) \/ Bind(a)
                       \/ Send(a) \/ Take(a) \/ Handle(a) \/ Write(a)
                       \/ Visit(a) \/ Drain(a)
  \/ EndScript \/ Save \/ Stop \/ Restart

NodeSpec == NodeInit /\ [][NodeNext]_nodeVars

-----------------------------------------------------------------------------
\* The messages of s are in line for a: none twice, and none behind a younger
\* one unless a is eager.
Ahead(a, m, n) == IF a \in Eager THEN m # n ELSE m < n
InLine(a, s) ==
  \A i, j \in DOMAIN s : i < j /\ s[i] > 0 /\ s[j] > 0 => Ahead(a, s[i], s[j])

\* Across any number of saves, crashes and restarts no message is absorbed
\* twice, and none overtakes another but on an actor that can be sent to while
\* older messages are being put back: so it is in the file, in the fields and
\* then the pending messages of an actor, and in what the running actor has
\* absorbed, handles, has queued and is to be given back.
ExactlyOnce ==
  \A a \in Actors :
    /\ InLine(a, disk.fields[a] \o disk.pending[a])
    /\ InLine(a, fields[a] \o hand[a] \o box[a] \o replay[a])

\* Until the init of an actor has run and unless it assigns the fields, what
\* the file said of them stays part of what the actor has.
RestoredKept ==
  \A a \in born : a \in Resetting \/ IsPrefix(loaded.fields[a], fields[a])

\* A node that became idle before its script ended has lost nothing: the file
\* is the state of its actors.
QuietExitSavesAll ==
  phase = "saved" /\ quiet =>
    /\ disk.fields = fields
    /\ disk.pending = Blank

\* The comment at the save on exit: fields and undelivered messages are
\* persisted so that a restart can pick up where the node left off.  Whatever
\* an actor has absorbed when the file is written is in the file.
GracefulRestart ==
  [][phase = "saving" /\ phase' = "saved" =>
       \A a \in Actors : ToSet(fields[a]) \subseteq
         ToSet(disk'.fields[a]) \cup ToSet(disk'.pending[a])]_nodeVars
=============================================================================
