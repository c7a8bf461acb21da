-------------------------------- MODULE Crdt --------------------------------
(***************************************************************************)
(* The replicated values of aipl_dist.py (DR-10): each replica holds one   *)
(* counter, one set and one register, updates them in place, and merges    *)
(* what others send.  A value that was sent may arrive late, more than     *)
(* once, or never.                                                         *)
(***************************************************************************)
EXTENDS Integers, Sequences, FiniteSets

CONSTANTS
  Replicas,   \* by their replica ids, which are ordered
  Elems,      \* what the sets may hold
  MaxUpdates, \* bound: of all replicas together
  MaxStamp     \* bound: of time.time()

ASSUME CrdtAssumption ==
  /\ Replicas \subseteq Nat /\ IsFiniteSet(Replicas)
  /\ MaxUpdates \in Nat /\ MaxStamp \in Nat

VARIABLES
  held,     \* the values of each replica
  flight,   \* the values it has sent last
  updates,  \* history: what has been done; the tag (uuid4) of an update is
            \* its place here
  restless  \* history: a register was written that held a time as late

crdtVars == <<held, flight, updates, restless>>

Tag == 1 .. MaxUpdates
Tagged == Elems \X Tag

Value == [counts : [Replicas -> Nat], adds : SUBSET Tagged,
          removes : SUBSET Tagged,
          reg : [value : {0} \cup Tag, ts : 0 .. MaxStamp, replica : Replicas],
          known : SUBSET Tag]   \* history: the updates that have reached it

Update == [kind : {"inc"}, by : Replicas]
          \cup [kind : {"add"}, elem : Elems]
          \cup [kind : {"remove"}, elem : Elems, seen : SUBSET Tag]
          \cup [kind : {"write"}, by : Replicas, ts : 0 .. MaxStamp]

CrdtTypes ==
  /\ held \in [Replicas -> Value] /\ flight \in [Replicas -> Value]
  /\ updates \in Seq(Update) /\ Len(updates) <= MaxUpdates
  /\ restless \in BOOLEAN

\* gcounter_new, orset_new, lww_new
New(r) == [counts |-> [k \in Replicas |-> 0], adds |-> {}, removes |-> {},
           reg |-> [value |-> 0, ts |-> 0, replica |-> r], known |-> {}]

CrdtInit ==
  /\ held = [r \in Replicas |-> New(r)] /\ flight = held
  /\ updates = <<>>
  /\ restless = FALSE

Fresh == Len(updates) + 1

\* An update u of replica r, of which v is the outcome.
Does(r, u, v) ==
  /\ Fresh \in Tag
  /\ updates' = Append(updates, u)
  /\ held' = [held EXCEPT ![r] = [v EXCEPT !.known = @ \cup {Fresh}]]
  /\ UNCHANGED flight

-----------------------------------------------------------------------------
\* gcounter_inc
Increment(r) ==
  /\ Does(r, [kind |-> "inc", by |-> r], [held[r] EXCEPT !.counts[r] = @ + 1])
  /\ UNCHANGED restless

\* orset_add
AddElem(r, e) ==
  /\ Does(r, [kind |-> "add", elem |-> e],
          [held[r] EXCEPT !.adds = @ \cup {<<e, Fresh>>}])
  /\ UNCHANGED restless

Observed(r, e) == {a \in held[r].adds : a[1] = e}

\* orset_remove
RemoveElem(r, e) ==
  /\ Does(r, [kind |-> "remove", elem |-> e,
              seen |-> {a[2] : a \in Observed(r, e)}],
          [held[r] EXCEPT !.removes = @ \cup Observed(r, e)])
  /\ UNCHANGED restless

Later(x, y) == x.ts > y.ts \/ (x.ts = y.ts /\ x.replica >= y.replica)

\* lww_write, at whatever time the clock of the replica tells.
WriteRegister(r, time) ==
  LET new == [value |-> Fresh, ts |-> time, replica |-> r]
  IN /\ Does(r, [kind |-> "write", by |-> r, ts |-> time],
             [held[r] EXCEPT !.reg = new])
     /\ restless' = (restless \/ Later(held[r].reg, new))

SendValue(r) ==
  /\ flight' = [flight EXCEPT ![r] = held[r]]
  /\ UNCHANGED <<held, updates, restless>>

GreaterOf(m, n) == IF m >= n THEN m ELSE n

\* Faulty variant: the counts are added up.
MergeSum(a, b) ==
  [counts |-> [k \in Replicas |-> a.counts[k] + b.counts[k]],
   adds |-> a.adds \cup b.adds, removes |-> a.removes \cup b.removes,
   reg |-> IF Later(a.reg, b.reg) THEN a.reg ELSE b.reg,
   known |-> a.known \cup b.known]

\* gcounter_merge, orset_merge, lww_merge
MergeValues(a, b) ==
  [counts |-> [k \in Replicas |-> GreaterOf(a.counts[k], b.counts[k])],
   adds |-> a.adds \cup b.adds, removes |-> a.removes \cup b.removes,
   reg |-> IF Later(a.reg, b.reg) THEN a.reg ELSE b.reg,
   known |-> a.known \cup b.known]

\* What q has sent arrives at r; it may do so again.
ReceiveValue(r, q) ==
  /\ held' = [held EXCEPT ![r] = MergeValues(@, flight[q])]
  /\ UNCHANGED <<flight, updates, restless>>

CrdtNext ==
  \E r \in Replicas :
    \/ Increment(r) \/ SendValue(r)
    \/ \E e \in Elems : AddElem(r, e) \/ RemoveElem(r, e)
    \/ \E time \in 1 .. MaxStamp : WriteRegister(r, time)
    \/ \E q \in Replicas : ReceiveValue(r, q)

CrdtSpec == CrdtInit /\ [][CrdtNext]_crdtVars

-----------------------------------------------------------------------------
Known(r, kind) == {t \in held[r].known : updates[t].kind = kind}

\* gcounter_value of a count per replica, orset_contains
CountOf(r, k) == held[r].counts[k]
HasElem(r, e) == \E a \in held[r].adds \ held[r].removes : a[1] = e

\* What a replica holds is what the updates that have reached it say, however
\* their news travelled: the increments are each counted once; an element is
\* there when one of its adds was not seen by any of its removes; and the
\* register has the last write, unless some clock went back or stood still.
\* Replicas that know the same updates hold the same.
ValuesExact ==
  \A r \in Replicas :
    /\ \A k \in Replicas :
         CountOf(r, k) = Cardinality({t \in Known(r, "inc") : updates[t].by = k})
    /\ \A e \in Elems :
         HasElem(r, e) <=>
           \E t \in Known(r, "add") :
             /\ updates[t].elem = e
             /\ \A u \in Known(r, "remove") : t \notin updates[u].seen
    /\ ~restless =>
         IF Known(r, "write") = {} THEN held[r].reg.value = 0
         ELSE LET last == held[r].reg.value
              IN /\ last \in Known(r, "write")
                 /\ \A t \in Known(r, "write") \ {last} :
                      \/ updates[last].ts > updates[t].ts
                      \/ /\ updates[last].ts = updates[t].ts
                         /\ updates[last].by > updates[t].by
=============================================================================
