----------------------------- MODULE MCSessions -----------------------------
EXTENDS Sessions

\* A capacity the host alone fills, and one with a seat for the other user.
MCCapacities == {1, 2}
MCEnds == {1}
=============================================================================
