---------------------------- MODULE MCSubscriber ----------------------------
\* Subscriber for TLC: four messages, the second of which is as large as a whole batch,
\* so that writes also pre-flush; three where a claim of the documents is checked.
EXTENDS Subscriber

MCLineBytes  == <<1, 3, 1, 1>>
MCSmallLines == <<1, 3, 1>>
MCIntervals  == {1}
=============================================================================
