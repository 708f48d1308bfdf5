--------------------------- MODULE MCLossRecovery ---------------------------
EXTENDS LossRecovery
MCRtts == {[rtt |-> 1, pto |-> 2]}
=============================================================================
