----------------------------- MODULE MCBookSync -----------------------------
(* BookSync with a symbol on each of two streams. *)
EXTENDS BookSync

CONSTANTS a, b

MCSymbols == {a, b}
MCStreams == 1..2
MCHome == [s \in {a, b} |-> IF s = a THEN 1 ELSE 2]

Faults(stream, rest, error, lag, gap, bad) ==
  [stream |-> stream, rest |-> rest, error |-> error, lag |-> lag, gap |-> gap,
   bad |-> bad]

MCFaults == Faults(1, 1, 1, 2, 1, 1)
=============================================================================
