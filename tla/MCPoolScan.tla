------------------------------- MODULE MCPoolScan -------------------------------
EXTENDS PoolScan

\* A deposit, a withdrawal and a ragequit, and an event scan_pool does not decode.
FourTxs == {"d", "w", "r", "o"}
TwoTxs == {"d", "r"}
Kinds4 == [d |-> "deposit", w |-> "withdraw", r |-> "ragequit", o |-> "other"]
Kinds2 == [d |-> "deposit", r |-> "ragequit"]

OneAndThree == {1, 3}
WholeWord == {WordSize - 1}
=============================================================================
