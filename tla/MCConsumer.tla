----------------------------- MODULE MCConsumer -----------------------------
(* Instances of Consumer for TLC.                                            *)
EXTENDS Consumer

Txn(p, n) == [pid |-> p, kind |-> "txn", len |-> n]
Plain == [pid |-> -1, kind |-> "plain", len |-> 1]
EndTxn(p, how) == [pid |-> p, kind |-> how, len |-> 1]

\* An aborted transaction inside another producer's, and its producer again;
\* two aborted ones, of which the second to begin is the first to end.
Interleaved == <<<<Txn(1, 2), Txn(2, 1)>>,
                 <<EndTxn(1, "abort"), Txn(1, 1), EndTxn(1, "commit"), EndTxn(2, "commit")>>>>
Crossing == <<<<Txn(1, 2), Txn(2, 1), Plain, EndTxn(2, "abort")>>, <<EndTxn(1, "abort")>>>>

Scenario(writes, first, second, what) ==
    [history |-> writes, mishaps |-> what,
     from |-> [t \in Tasks |-> IF t = 1 THEN first ELSE second]]

\* A task alone among transactions, once beginning inside a batch; and two
\* on a plain log.
Alone(writes, offset) == Scenario(writes, offset, Absent, Mishaps)
Together(first, second, what) == Scenario(<<<<Plain>>>>, first, second, {what})
Few == {Alone(Interleaved, 0), Alone(Interleaved, 1), Alone(Crossing, 0),
        Together(0, 0, "break"), Together(None, None, "timeout"), Together(0, 0, "move")}
=============================================================================
