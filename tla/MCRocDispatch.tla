--------------------------- MODULE MCRocDispatch ---------------------------
EXTENDS RocDispatch

CONSTANTS r1, r2, r3

\* One worker and one waiting place: the second request queues, the third is
\* refused, queued behind it, or admitted while the first one's result is
\* still being published.
MCRequest == {r1, r2, r3}
=============================================================================
