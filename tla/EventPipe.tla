------------------------------ MODULE EventPipe ------------------------------
(***************************************************************************)
(* What an egress path promises, independent of how it buffers: every      *)
(* event it accepts leaves it at most once, in the order of acceptance,    *)
(* and once an event has left the path its outcome never changes.          *)
(*                                                                         *)
(* Spec is the promise of a path that loses nothing it has accepted; every *)
(* event stays in the pipe until a batch with it is settled (delivered, or *)
(* given up with a log entry).  LossySpec is the promise of a path that    *)
(* may also abandon a run of accepted events without a settlement, as the  *)
(* main loop of collect_events does when a write raises.                   *)
(***************************************************************************)
EXTENDS Naturals, Sequences, Functions

VARIABLES
    newest,   \* number of the newest accepted event: events are numbered as they arrive
    pipe,     \* accepted, not yet settled, oldest first
    settled,  \* events that have left the pipe, in the order they left
    acked     \* the settled events whose delivery was acknowledged

vars == <<newest, pipe, settled, acked>>

Init ==
    /\ newest = 0
    /\ pipe = <<>>
    /\ settled = <<>>
    /\ acked = {}

\* A newer event enters at the end of the pipe.
Accept ==
    /\ newest' \in Nat
    /\ newest' > newest
    /\ pipe' = Append(pipe, newest')
    /\ UNCHANGED <<settled, acked>>

\* The n oldest events are settled together, all delivered or all given up.
Settle ==
    /\ \E n \in 1 .. Len(pipe), delivered \in BOOLEAN :
          LET group == SubSeq(pipe, 1, n)
          IN  /\ pipe' = SubSeq(pipe, n + 1, Len(pipe))
              /\ settled' = settled \o group
              /\ acked' = IF delivered THEN acked \cup Range(group) ELSE acked
    /\ UNCHANGED newest

\* A contiguous run of events, at any place of the pipe, is lost.
Abandon ==
    /\ \E i \in 1 .. Len(pipe) : \E j \in i .. Len(pipe) :
          pipe' = SubSeq(pipe, 1, i - 1) \o SubSeq(pipe, j + 1, Len(pipe))
    /\ UNCHANGED <<newest, settled, acked>>

Spec      == Init /\ [][Accept \/ Settle]_vars
LossySpec == Init /\ [][Accept \/ Settle \/ Abandon]_vars
==============================================================================
