--------------------------- MODULE MCOrderReports ---------------------------
(* OrderReports with requests that between them have every side, type, margin  *)
(* mode, time in force and instruction, on accounts of every position side.    *)
EXTENDS OrderReports

Asking(side, type, margin, tif, instructions) ==
  [side |-> side, type |-> type, margin |-> margin, tif |-> tif,
   instructions |-> instructions]

On(start, side) == [start |-> start, side |-> side]

MCCases ==
  {[request |-> Asking("BUY", "LIMIT", "CROSS", t, {}), account |-> On(0, "BOTH")] :
     t \in TimesInForce \ {"GTC", "IOC", "FOK"}}
  \cup
  {[request |-> Asking("SELL", "LIMIT", "ISOLATED", "GTC", {"PARTICIPATE_DO_NOT_INITIATE"}),
    account |-> On(2, "LONG")],
   [request |-> Asking("SELL", "LIMIT", "UNDEFINED", "IOC", {"DO_NOT_INCREASE"}),
    account |-> On(2, "BOTH")],
   [request |-> Asking("SELL", "LIMIT", "PORTFOLIO", "FOK", {}), account |-> On(-1, "SHORT")],
   [request |-> Asking("BUY", "LIMIT", "CROSS", "IOC", {"DO_NOT_INCREASE"}),
    account |-> On(-2, "SHORT")],
   [request |-> Asking("BUY", "MARKET", "CROSS", "GFD", {}), account |-> On(-1, "BOTH")]}

MCLimit == {c \in MCCases : c.request.tif = "GTC"}

Faults(stream, error) == [stream |-> stream, error |-> error]
MCFaults == Faults(1, 1)
=============================================================================
