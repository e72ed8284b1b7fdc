----------------------------- MODULE MCTxQueues -----------------------------
(* TxQueues for TLC: a small machine. *)
EXTENDS TxQueues

MCSocketOf == [l \in 0..2 |-> l]
MCEnabledSets == {{0, 1}, {0, 1, 2}, {1}}
MCMasks == {{}, {0}, {0, 1}, {1, 2}, {3}}   \* 3 is beyond the mask
MCEntries ==
    {<<0, 0, 0>>, <<0, 0, 1>>, <<0, 1, 1>>, <<1, 0, 0>>, <<1, 0, 1>>,
     <<2, 0, 1>>,     \* no such port, on most machines
     <<3, 0, 0>>,     \* its bit is that of port 0
     <<0, 2, 0>>,     \* no such queue
     <<0, 0, 3>>}     \* no such lcore
MCDefaultParams == <<<<0, 0, 0>>, <<0, 1, 1>>>>
MCPathPorts == {1}
MCStrayPorts == {0, 5}
=============================================================================
