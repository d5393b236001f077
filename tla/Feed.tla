-------------------------------- MODULE Feed --------------------------------
(***************************************************************************)
(* What a partition pump promises its subscribers, with no ring, queue or  *)
(* fetch in sight: each stream is, record by record, exactly the part of   *)
(* the log it asked for, until it ends.                                    *)
(***************************************************************************)
EXTENDS Integers

CONSTANT Streams

VARIABLES
    hw, visible, logStart,  \* the partition's log
    status,     \* per stream: "none", "waiting", "open" or "ended"
    wants,      \* the records it asked for
    base,       \* the position it starts after
    delivered   \* what it has been sent

feedVars == <<hw, visible, logStart, status, wants, base, delivered>>

Init ==
    /\ hw \in Nat /\ logStart \in 0 .. hw /\ visible \in SUBSET (0 .. hw - 1)
    /\ status = [s \in Streams |-> "none"]
    /\ wants = [s \in Streams |-> {}]
    /\ base = [s \in Streams |-> -1]
    /\ delivered = [s \in Streams |-> {}]

\* The log only ever grows at its end and shrinks at its start.
LogStep ==
    /\ hw' >= hw /\ logStart' >= logStart
    /\ visible \subseteq visible'
    /\ \A o \in visible' \ visible : hw <= o /\ o < hw'

\* What a stream starting after b is owed and has not been sent.
Owed(s, b) == {o \in visible \cap wants[s] : o > b /\ o \notin delivered[s]}

\* The start is settled once, before the first record: wherever the log ends
\* for one waiting for new records, and otherwise past nothing but records
\* that retention has already removed.
Settles(s) ==
    /\ status[s] \in {"waiting", "open"}
    /\ delivered[s] = {}
    /\ base'[s] > base[s]
    /\ status[s] = "open" => base'[s] < logStart

\* One record, the least of those owed.
Delivers(s) ==
    /\ status[s] = "open"
    /\ \E o \in Owed(s, base'[s]) :
          /\ \A p \in Owed(s, base'[s]) : o <= p
          /\ delivered'[s] = delivered[s] \cup {o}

\* What one stream may do in a step.
StreamStep(s) ==
    /\ <<status[s], status'[s]>> \in
          {<<"none", "waiting">>, <<"none", "open">>, <<"waiting", "open">>,
           <<"waiting", "ended">>, <<"open", "ended">>}
       \/ status'[s] = status[s]
    /\ wants'[s] = wants[s] \/ status[s] = "none"
    /\ base'[s] = base[s] \/ Settles(s) \/ status[s] = "none"
    /\ delivered'[s] = delivered[s] \/ Delivers(s)

\* Streams advance independently of one another.
Next ==
    \/ /\ LogStep
       /\ UNCHANGED <<status, wants, base, delivered>>
    \/ /\ UNCHANGED <<hw, visible, logStart>>
       /\ \A s \in Streams : StreamStep(s)

Spec == Init /\ [][Next]_feedVars
=============================================================================
