------------------------------ MODULE MCProducer ------------------------------
(* Instances of Producer for TLC.                                          *)
EXTENDS Producer

\* Three records for one partition, or one each for two.
SomePlans == {<<0, 0, 0>>, <<0, 1>>}

\* Two records for one partition.
OnePlan == {<<0, 0>>}

\* A transactional producer.
Txn == Init /\ txnState = "Uninitialized"
TxnSpec == Txn /\ [][Next]_vars
===============================================================================
