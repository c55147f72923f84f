-------------------------- MODULE MCStreamSession --------------------------
(* StreamSession with constants given in the configurations: the interval of
   the exchange is odd, so that the halving rounds down, and two ticks just
   fit into it. *)
EXTENDS StreamSession
=============================================================================
