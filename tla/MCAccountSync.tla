--------------------------- MODULE MCAccountSync ---------------------------
(* Small instances of AccountSync for TLC. *)
EXTENDS AccountSync

CONSTANTS o1, o2

MCOrders == {o1, o2}
MCOneOrder == {o1}

Faults(rest, stream, expiry, staleOrders, error, reject) ==
  [rest |-> rest, stream |-> stream, expiry |-> expiry, stale |-> staleOrders,
   error |-> error, reject |-> reject]

\* Both connections are lost, the token expires, both orders turn stale, one call
\* fails and one may be refused or redirected.
MCFaults == Faults(1, 1, 1, 2, 1, 1)

\* Only the exchange fails: the token expires, a call returns an error.
MCRefresh == Faults(0, 0, 1, 0, 1, 0)

\* The stream is lost once, two orders may turn stale.
MCLeftOver == Faults(0, 1, 0, 2, 0, 0)
=============================================================================
