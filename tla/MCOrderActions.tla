--------------------------- MODULE MCOrderActions ---------------------------
EXTENDS OrderActions

Faults(r, w, d, e, s) ==
  [rest |-> r, ws |-> w, dropcopy |-> d, error |-> e, server |-> s]

MCSymbolOf == [o \in Orders |-> CHOOSE s \in Symbols : TRUE]
MCFaults == Faults(1, 1, 1, 1, 1)
=============================================================================
