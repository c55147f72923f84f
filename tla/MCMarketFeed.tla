---------------------------- MODULE MCMarketFeed ----------------------------
(* MarketFeed on three symbols, two to a stream, of which the server discards
   one and clients may still ask for it. *)
EXTENDS MarketFeed

CONSTANTS a, b, c

MCSymbols == {a, b, c}
MCDiscarded == {c}

Faults(rest, stream, expiry, error, refusal) ==
  [rest |-> rest, stream |-> stream, expiry |-> expiry, error |-> error,
   refusal |-> refusal]

MCFaults == Faults(1, 2, 1, 1, 1)
MCExpiry == Faults(0, 0, 1, 0, 0)
MCNoFaults == Faults(0, 0, 0, 0, 0)
=============================================================================
