------------------------- MODULE MCReconnectBackoff -------------------------
\* ReconnectBackoff for TLC, with the policy constants of the code.  The intervals are
\* the one inputs.conf ships (-1), zero, the smallest and the usual one of the
\* configuration page, and one above the cap.
EXTENDS ReconnectBackoff

MCIntervals      == {-1, 0, 1, 30, 400}
MCDefaultInterval == {30}
=============================================================================
