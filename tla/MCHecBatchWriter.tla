-------------------------- MODULE MCHecBatchWriter --------------------------
\* HecBatchWriter for TLC: six events whose sizes reach every branch of write with
\* BatchMaxBytes = 4.  1 and 3 together hit the byte threshold exactly, 5 is larger than
\* a batch alone and forces a pre-flush when something is buffered, and the three last
\* ones reach BatchMaxEvents = 3 without reaching the byte threshold.
EXTENDS HecBatchWriter

MCLineBytes == <<1, 3, 5, 1, 1, 1>>
=============================================================================
