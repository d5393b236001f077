------------------------------- MODULE MCPump -------------------------------
(* Instances of Pump for TLC.                                              *)
EXTENDS Pump

AllOffsets == 0 .. MaxOffset - 1
OddOffsets == {o \in AllOffsets : o % 2 = 1}
AllPositions == {LatestP, None} \cup 0 .. MaxOffset
EitherEnd == {LatestP, None}
BothFilters == {AllOffsets, OddOffsets}
OneFilter == {AllOffsets}

\* The log holds one record when the pump starts.
Started == Init /\ hw = 1 /\ visible = {0} /\ logStart = 0
StartedFairSpec == Started /\ [][Next]_vars /\ Fairness

\* A second subscriber comes only to a log that began with two records and
\* that retention leaves alone, where everybody sees everything and nobody
\* has asked the pump to stop.
Simple ==
    /\ {0, 1} \subseteq visible /\ logStart = 0 /\ handle
    /\ \A s \in Ids : s < nextId => filter[s] = AllOffsets
    /\ \A i \in DOMAIN commands :
          commands[i].kind = "Subscribe" /\ commands[i].filter = AllOffsets
Subscribes == SelectSeq(commands, LAMBDA c : c.kind = "Subscribe")
SecondIfSimple == Len(Subscribes) + nextId <= 1 \/ Simple

\* Nobody asks the pump to stop.
NoShutdown == \A i \in DOMAIN commands : commands[i].kind # "Shutdown"
=============================================================================
