------------------------- MODULE OrderActionsProofs -------------------------
(***************************************************************************)
(* Proofs about OrderActions, for any set of orders and symbols, either    *)
(* transport and any number of faults: it implements OrderPromise.         *)
(***************************************************************************)
EXTENDS OrderActions, TLAPS

(* Type correctness. *)

\* Spending a fault keeps the budget a budget.
LEMMA SpendType ==
  ASSUME budget \in [FaultKinds -> Nat], NEW f \in FaultKinds, Spend(f)
  PROVE  budget' \in [FaultKinds -> Nat]
  BY DEF Spend

\* So does a failing call.
LEMMA CallFailsType ==
  ASSUME budget \in [FaultKinds -> Nat], CallFails
  PROVE  budget' \in [FaultKinds -> Nat]
  BY SpendType DEF CallFails, FaultKinds

\* No events are events.
LEMMA NoEvents == [o \in Orders |-> <<>>] \in [Orders -> Seq({"live", "ended"})]
  OBVIOUS

\* What the server is told keeps its records well typed.
LEMMA ToldType ==
  ASSUME TypeOK, NEW S \in SUBSET Orders,
         NEW status \in {"working", "ended"}, Told(S, status)
  PROVE  /\ known' \in [Orders -> {"idle", "sent", "working", "ended"}]
         /\ stale' \in [Orders -> BOOLEAN]
         /\ waiting' \subseteq Orders
  BY DEF TypeOK, Told

\* Also when it is presumed.
LEMMA PresumedType ==
  ASSUME TypeOK, NEW o \in Orders, Presumed(o)
  PROVE  /\ known' \in [Orders -> {"idle", "sent", "working", "ended"}]
         /\ stale' \in [Orders -> BOOLEAN] /\ waiting' \subseteq Orders
         /\ misled' \in [Orders -> {"no", "sent", "working"}]
<1>1. {o} \in SUBSET Orders /\ Told({o}, "ended")
  BY DEF Presumed
<1>2. /\ known' \in [Orders -> {"idle", "sent", "working", "ended"}]
      /\ stale' \in [Orders -> BOOLEAN] /\ waiting' \subseteq Orders
  BY <1>1, ToldType
<1>3. misled' \in [Orders -> {"no", "sent", "working"}]
  BY DEF TypeOK, Presumed, Open
<1> QED BY <1>2, <1>3

\* So does the commit of a snapshot for DropCopy's.
LEMMA CommittedType ==
  ASSUME TypeOK, NEW st \in [Orders -> BOOLEAN], Committed(st)
  PROVE  /\ snap' \in {"none", "asked", "listed"} /\ listed' \subseteq Orders
         /\ mine' \in BOOLEAN /\ copy' \in {"down", "orders", "ready"}
         /\ query' \in [Orders -> {"none", "wanted", "asked"} \cup Answers]
<1>1. Noted(st) \in [Orders -> {"none", "wanted", "asked"} \cup Answers]
  BY DEF TypeOK, Noted
<1> QED BY <1>1 DEF TypeOK, Committed

\* Every step keeps every variable in its type.
LEMMA TypeStep == TypeOK /\ [Next]_vars => TypeOK'
<1> SUFFICES ASSUME TypeOK, [Next]_vars PROVE TypeOK'
  OBVIOUS
<1>1. ASSUME NEW o \in Orders, CreateOrderREST(o) PROVE TypeOK'
  BY <1>1 DEF TypeOK, CreateOrderREST, links, snapshot
<1>2. ASSUME NEW o \in Orders, CreateOrderAckREST(o) PROVE TypeOK'
  BY <1>2, ToldType DEF TypeOK, CreateOrderAckREST, links, snapshot, server
<1>3. ASSUME NEW o \in Orders, CreateOrderFails(o) PROVE TypeOK'
  BY <1>3, CallFailsType DEF TypeOK, CreateOrderFails, Orphaned, links, snapshot, server
<1>4. ASSUME NEW o \in Orders, CancelOrderREST(o) PROVE TypeOK'
  BY <1>4 DEF TypeOK, CancelOrderREST, links, snapshot
<1>5. ASSUME NEW o \in Orders, CancelOrderAckREST(o) PROVE TypeOK'
  BY <1>5 DEF TypeOK, CancelOrderAckREST, links, snapshot
<1>6. ASSUME NEW o \in Orders, CancelOrderFails(o) PROVE TypeOK'
  BY <1>6, CallFailsType DEF TypeOK, CancelOrderFails, links, snapshot
<1>7. ASSUME NEW o \in Orders, CreateOrderWS(o) PROVE TypeOK'
  BY <1>7 DEF TypeOK, CreateOrderWS, links, snapshot
<1>8. ASSUME NEW o \in Orders, AddOrderAckWS(o) PROVE TypeOK'
  BY <1>8, ToldType DEF TypeOK, AddOrderAckWS, links, snapshot
<1>9. ASSUME NEW o \in Orders, CancelOrderWS(o) PROVE TypeOK'
  BY <1>9 DEF TypeOK, CancelOrderWS, links, snapshot
<1>10. ASSUME NEW o \in Orders, CancelOrderAckWS(o) PROVE TypeOK'
  BY <1>10 DEF TypeOK, CancelOrderAckWS, links, snapshot
<1>11. ASSUME NEW o \in Orders, GetOrderAck(o) PROVE TypeOK'
  <2>1. CASE query[o] = "early"
    BY <1>11, <2>1, PresumedType DEF TypeOK, GetOrderAck, links, snapshot
  <2>2. CASE query[o] # "early"
    BY <1>11, <2>2, ToldType DEF TypeOK, GetOrderAck, links, snapshot
  <2> QED BY <2>1, <2>2
<1>12. ASSUME NEW o \in Orders, GetOrderFails(o) PROVE TypeOK'
  BY <1>12, CallFailsType DEF TypeOK, GetOrderFails, links, snapshot, server
<1>13. ASSUME NEW o \in Orders, DropCopyOrderChange(o) PROVE TypeOK'
  BY <1>13, ToldType DEF TypeOK, DropCopyOrderChange, links, snapshot
<1>14. ASSUME NEW o \in Orders, TurnsStale(o) PROVE TypeOK'
  BY <1>14 DEF TypeOK, TurnsStale, links, snapshot
<1>15. ASSUME NEW o \in Orders, Take(o) PROVE TypeOK'
  BY <1>15 DEF TypeOK, Take, Becomes, links, snapshot, server
<1>16. ASSUME NEW o \in Orders, Refuse(o) PROVE TypeOK'
  BY <1>16 DEF TypeOK, Refuse, links, snapshot, server
<1>17. ASSUME NEW o \in Orders, Ends(o) PROVE TypeOK'
  BY <1>17 DEF TypeOK, Ends, Becomes, links, snapshot, server
<1>18. ASSUME NEW o \in Orders, ReadOrder(o) PROVE TypeOK'
  BY <1>18 DEF TypeOK, ReadOrder, Answers, links, snapshot, server
<1>19. ASSUME NEW o \in Orders, ExecuteCancel(o) PROVE TypeOK'
  BY <1>19 DEF TypeOK, ExecuteCancel, Becomes, links, snapshot, server
<1>20. ASSUME NEW o \in Orders, CancelLost(o) PROVE TypeOK'
  BY <1>20 DEF TypeOK, CancelLost, links, snapshot, server
<1>21. ASSUME NEW s \in Symbols, CancelAllOrders(s) PROVE TypeOK'
  BY <1>21 DEF TypeOK, CancelAllOrders, links, snapshot, server
<1>22. ASSUME NEW s \in Symbols, CancelAllOrdersAck(s) PROVE TypeOK'
  BY <1>22, CallFailsType DEF TypeOK, CancelAllOrdersAck, links, snapshot, server
<1>23. ASSUME NEW s \in Symbols, ExecuteSweep(s) PROVE TypeOK'
  BY <1>23 DEF TypeOK, ExecuteSweep, Becomes, links, snapshot, server
<1>24. ASSUME NEW s \in Symbols, SweepLost(s) PROVE TypeOK'
  BY <1>24 DEF TypeOK, SweepLost, links, snapshot, server
<1>25. ASSUME WSWelcome PROVE TypeOK'
  BY <1>25 DEF TypeOK, WSWelcome, snapshot, server
<1>26. ASSUME WSDisconnected PROVE TypeOK'
  BY <1>26, SpendType DEF TypeOK, WSDisconnected, Orphaned, snapshot, server, FaultKinds
<1>27. ASSUME RestConnected PROVE TypeOK'
  BY <1>27 DEF TypeOK, RestConnected, snapshot, server
<1>28. ASSUME RestDisconnected PROVE TypeOK'
  BY <1>28, SpendType DEF TypeOK, RestDisconnected, snapshot, server, FaultKinds
<1>29. ASSUME GetOrders PROVE TypeOK'
  BY <1>29 DEF TypeOK, GetOrders, links, server
<1>30. ASSUME ListOrders PROVE TypeOK'
  BY <1>30 DEF TypeOK, ListOrders, links, server
<1>31. ASSUME GetOrdersAck PROVE TypeOK'
  BY <1>31, ToldType, CommittedType DEF TypeOK, GetOrdersAck, links
<1>32. ASSUME GetOrdersFails PROVE TypeOK'
  BY <1>32, CallFailsType, CommittedType DEF TypeOK, GetOrdersFails, links, server
<1>33. ASSUME CheckStaleOrders PROVE TypeOK'
  BY <1>33 DEF TypeOK, CheckStaleOrders, Noted, links, snapshot, server
<1>34. ASSUME CheckRequestQueue PROVE TypeOK'
  BY <1>34 DEF TypeOK, CheckRequestQueue, links, snapshot, server
<1>35. ASSUME DropCopySubscribed PROVE TypeOK'
  BY <1>35 DEF TypeOK, DropCopySubscribed, links, snapshot, server
<1>36. ASSUME DropCopyDisconnected PROVE TypeOK'
  BY <1>36, SpendType, NoEvents DEF TypeOK, DropCopyDisconnected, links, server, FaultKinds
<1>37. CASE UNCHANGED vars
  BY <1>37 DEF TypeOK, vars, links, snapshot, server
<1>38. ASSUME NEW o \in Orders, CreateOrderRejected(o) PROVE TypeOK'
  BY <1>38, SpendType, PresumedType
     DEF TypeOK, CreateOrderRejected, Orphaned, links, snapshot, FaultKinds
<1> QED
  BY <1>1, <1>2, <1>3, <1>4, <1>5, <1>6, <1>7, <1>8, <1>9, <1>10, <1>11, <1>12, <1>13,
     <1>14, <1>15, <1>16, <1>17, <1>18, <1>19, <1>20, <1>21, <1>22, <1>23, <1>24, <1>25,
     <1>26, <1>27, <1>28, <1>29, <1>30, <1>31, <1>32, <1>33, <1>34, <1>35, <1>36, <1>37, <1>38
  DEF Next, OrderSteps, SweepSteps, SessionSteps

----------------------------------------------------------------------------
(* The inductive invariant: what is on its way is true of the order, and the
   state of the requests agrees with it. *)

\* The request that creates an order, and the order.
CreateAgrees ==
  \A o \in Orders :
    /\ known[o] = "idle" <=> create[o] = "no"
    /\ create[o] \in {"no", "sent", "refused", "orphan"} => exch[o] = "none"
    /\ create[o] = "took" => exch[o] # "none"

\* An answer to a query, read or on its way.
QueriesTrue ==
  \A o \in Orders :
    /\ stale[o] \/ query[o] # "none" => known[o] # "idle"
    /\ query[o] = "live" => exch[o] # "none"
    /\ query[o] = "ended" => exch[o] = "ended"
    /\ query[o] = "missing" => exch[o] = "none" /\ ~Undecided(o)

\* An order of the snapshot.
ListTrue == \A o \in listed : exch[o] # "none"

\* An event of DropCopy.
EventsTrue ==
  \A o \in Orders : \A i \in 1..Len(events[o]) :
    exch[o] # "none" /\ (events[o][i] = "ended" => exch[o] = "ended")

\* An order the server was misled about has ended for it.
MisledEnded == \A o \in Orders : misled[o] # "no" => known[o] = "ended"

Inv == TypeOK /\ CreateAgrees /\ QueriesTrue /\ ListTrue /\ EventsTrue /\ MisledEnded

\* What the server is told leaves an order that has ended as it is.
LEMMA EndedKnown ==
  ASSUME TypeOK, [Next]_vars, NEW o \in Orders, known[o] = "ended"
  PROVE  known'[o] = "ended"
<1>1. ASSUME NEW p \in Orders, OrderSteps(p) PROVE known'[o] = "ended"
  <2>1. CASE CreateOrderREST(p) \/ CreateOrderWS(p)
    BY <2>1 DEF CreateOrderREST, CreateOrderWS, TypeOK
  <2>2. CASE CreateOrderAckREST(p) \/ AddOrderAckWS(p) \/ DropCopyOrderChange(p)
               \/ CreateOrderRejected(p) \/ GetOrderAck(p)
    BY <2>2 DEF CreateOrderAckREST, AddOrderAckWS, DropCopyOrderChange,
       CreateOrderRejected, GetOrderAck, Presumed, Told
  <2>3. CASE \/ CreateOrderFails(p) \/ CancelOrderREST(p) \/ CancelOrderAckREST(p)
             \/ CancelOrderFails(p) \/ CancelOrderWS(p) \/ CancelOrderAckWS(p)
             \/ GetOrderFails(p) \/ TurnsStale(p) \/ Take(p) \/ Refuse(p) \/ Ends(p)
             \/ ReadOrder(p) \/ ExecuteCancel(p) \/ CancelLost(p)
    BY <2>3 DEF CreateOrderFails, CancelOrderREST, CancelOrderAckREST,
       CancelOrderFails, CancelOrderWS, CancelOrderAckWS, GetOrderFails, TurnsStale,
       Take, Refuse, Ends, ReadOrder, ExecuteCancel, CancelLost, server
  <2> QED BY <1>1, <2>1, <2>2, <2>3 DEF OrderSteps
<1>2. ASSUME NEW s \in Symbols, SweepSteps(s) PROVE known'[o] = "ended"
  BY <1>2 DEF SweepSteps, CancelAllOrders, CancelAllOrdersAck, ExecuteSweep, SweepLost,
     server
<1>3. CASE SessionSteps
  BY <1>3 DEF SessionSteps, WSWelcome, WSDisconnected, RestConnected, RestDisconnected,
     GetOrders, ListOrders, GetOrdersAck, GetOrdersFails, CheckStaleOrders,
     CheckRequestQueue, DropCopySubscribed, DropCopyDisconnected, Told, server
<1>4. CASE UNCHANGED vars
  BY <1>4 DEF vars, server
<1> QED BY <1>1, <1>2, <1>3, <1>4 DEF Next

\* Who misleads the server.
LEMMA MisledBy ==
  ASSUME [Next]_vars
  PROVE  \/ UNCHANGED misled
         \/ \E o \in Orders :
              /\ CreateOrderRejected(o) \/ (GetOrderAck(o) /\ query[o] = "early")
              /\ Presumed(o)
<1>1. ASSUME NEW o \in Orders, OrderSteps(o)
      PROVE  \/ UNCHANGED misled
             \/ /\ CreateOrderRejected(o) \/ (GetOrderAck(o) /\ query[o] = "early")
                /\ Presumed(o)
  <2>1. CASE CreateOrderRejected(o) \/ GetOrderAck(o)
    BY <2>1 DEF CreateOrderRejected, GetOrderAck
  <2>2. CASE ~(CreateOrderRejected(o) \/ GetOrderAck(o))
    BY <1>1, <2>2 DEF OrderSteps, CreateOrderREST, CreateOrderAckREST, CreateOrderFails,
       CancelOrderREST, CancelOrderAckREST, CancelOrderFails, CreateOrderWS,
       AddOrderAckWS, CancelOrderWS, CancelOrderAckWS, GetOrderFails,
       DropCopyOrderChange, TurnsStale, Take, Refuse, Ends, ReadOrder, ExecuteCancel,
       CancelLost, server
  <2> QED BY <2>1, <2>2
<1>2. ASSUME NEW s \in Symbols, SweepSteps(s) PROVE UNCHANGED misled
  BY <1>2 DEF SweepSteps, CancelAllOrders, CancelAllOrdersAck, ExecuteSweep, SweepLost,
     server
<1>3. CASE SessionSteps
  BY <1>3 DEF SessionSteps, WSWelcome, WSDisconnected, RestConnected, RestDisconnected,
     GetOrders, ListOrders, GetOrdersAck, GetOrdersFails, CheckStaleOrders,
     CheckRequestQueue, DropCopySubscribed, DropCopyDisconnected, server
<1>4. CASE UNCHANGED vars
  BY <1>4 DEF vars, server
<1> QED BY <1>1, <1>2, <1>3, <1>4 DEF Next

LEMMA MisledStep ==
  ASSUME TypeOK, MisledEnded, [Next]_vars PROVE MisledEnded'
<1>1. CASE UNCHANGED misled
  BY <1>1, EndedKnown DEF MisledEnded
<1>2. ASSUME NEW o \in Orders, Presumed(o) PROVE MisledEnded'
  <2>1. known'[o] = "ended" /\ \A p \in Orders : p # o => misled'[p] = misled[p]
    BY <1>2 DEF Presumed, Told, TypeOK
  <2> QED BY <2>1, EndedKnown DEF MisledEnded
<1> QED BY <1>1, <1>2, MisledBy

\* A request that has not begun has no order.
LEMMA KnownBegun ==
  ASSUME Inv, NEW o \in Orders, exch[o] # "none" \/ create[o] # "no"
  PROVE  known[o] # "idle"
  BY DEF Inv, CreateAgrees

\* Noting stale orders keeps the queries true.
LEMMA NotedTrue ==
  ASSUME QueriesTrue, NEW st, \A o \in Orders : st[o] => known'[o] # "idle",
         \A o \in Orders : known[o] # "idle" => known'[o] # "idle",
         stale' = st, UNCHANGED <<exch, create>>, Committed(st), TypeOK
  PROVE  QueriesTrue'
<1>1. ASSUME NEW o \in Orders
      PROVE  query'[o] = query[o] \/ (query'[o] = "wanted" /\ st[o])
  BY DEF Committed, Noted
<1> QED BY <1>1 DEF QueriesTrue, Undecided

\* Every step keeps what is on its way true.
LEMMA Inductive == Inv /\ [Next]_vars => Inv'
<1> SUFFICES ASSUME Inv, [Next]_vars PROVE Inv'
  OBVIOUS
<1> USE DEF Inv
<1> TypeOK' /\ MisledEnded'
  BY TypeStep, MisledStep
<1>1. ASSUME NEW o \in Orders, CreateOrderREST(o) PROVE Inv'
  <2>1. CreateAgrees'
    BY <1>1 DEF TypeOK, CreateAgrees, CreateOrderREST
  <2>2. QueriesTrue'
    BY <1>1 DEF QueriesTrue, CreateOrderREST, Undecided
  <2>3. ListTrue'
    BY <1>1 DEF ListTrue, CreateOrderREST, snapshot
  <2>4. EventsTrue'
    BY <1>1 DEF EventsTrue, CreateOrderREST
  <2> QED BY <2>1, <2>2, <2>3, <2>4
<1>2. ASSUME NEW o \in Orders, CreateOrderAckREST(o) PROVE Inv'
  <2>1. CreateAgrees'
    BY <1>2 DEF CreateAgrees, CreateOrderAckREST, Told, server
  <2>2. QueriesTrue'
    BY <1>2 DEF TypeOK, QueriesTrue, CreateOrderAckREST, Told, server, Undecided
  <2>3. ListTrue'
    BY <1>2 DEF ListTrue, CreateOrderAckREST, Told, snapshot
  <2>4. EventsTrue'
    BY <1>2 DEF EventsTrue, CreateOrderAckREST, Told
  <2> QED BY <2>1, <2>2, <2>3, <2>4
<1>3. ASSUME NEW o \in Orders, CreateOrderFails(o) PROVE Inv'
  <2>1. CreateAgrees'
    BY <1>3 DEF CreateAgrees, CreateOrderFails, Orphaned, server
  <2>2. QueriesTrue'
    BY <1>3 DEF QueriesTrue, CreateOrderFails, Orphaned, server, Undecided
  <2>3. ListTrue'
    BY <1>3 DEF ListTrue, CreateOrderFails, snapshot
  <2>4. EventsTrue'
    BY <1>3 DEF EventsTrue, CreateOrderFails
  <2> QED BY <2>1, <2>2, <2>3, <2>4
<1>4. ASSUME NEW o \in Orders, CancelOrderREST(o) PROVE Inv'
  <2>1. CreateAgrees'
    BY <1>4 DEF CreateAgrees, CancelOrderREST
  <2>2. QueriesTrue'
    BY <1>4 DEF QueriesTrue, CancelOrderREST, Undecided
  <2>3. ListTrue'
    BY <1>4 DEF ListTrue, CancelOrderREST, snapshot
  <2>4. EventsTrue'
    BY <1>4 DEF EventsTrue, CancelOrderREST
  <2> QED BY <2>1, <2>2, <2>3, <2>4
<1>5. ASSUME NEW o \in Orders, CancelOrderAckREST(o) PROVE Inv'
  <2>1. CreateAgrees'
    BY <1>5 DEF CreateAgrees, CancelOrderAckREST
  <2>2. QueriesTrue'
    BY <1>5 DEF QueriesTrue, CancelOrderAckREST, Undecided
  <2>3. ListTrue'
    BY <1>5 DEF ListTrue, CancelOrderAckREST, snapshot
  <2>4. EventsTrue'
    BY <1>5 DEF EventsTrue, CancelOrderAckREST
  <2> QED BY <2>1, <2>2, <2>3, <2>4
<1>6. ASSUME NEW o \in Orders, CancelOrderFails(o) PROVE Inv'
  <2>1. CreateAgrees'
    BY <1>6 DEF CreateAgrees, CancelOrderFails
  <2>2. QueriesTrue'
    BY <1>6 DEF QueriesTrue, CancelOrderFails, Undecided
  <2>3. ListTrue'
    BY <1>6 DEF ListTrue, CancelOrderFails, snapshot
  <2>4. EventsTrue'
    BY <1>6 DEF EventsTrue, CancelOrderFails
  <2> QED BY <2>1, <2>2, <2>3, <2>4
<1>7. ASSUME NEW o \in Orders, CreateOrderWS(o) PROVE Inv'
  <2>1. CreateAgrees'
    BY <1>7 DEF TypeOK, CreateAgrees, CreateOrderWS
  <2>2. QueriesTrue'
    BY <1>7 DEF QueriesTrue, CreateOrderWS, Undecided
  <2>3. ListTrue'
    BY <1>7 DEF ListTrue, CreateOrderWS, snapshot
  <2>4. EventsTrue'
    BY <1>7 DEF EventsTrue, CreateOrderWS
  <2> QED BY <2>1, <2>2, <2>3, <2>4
<1>8. ASSUME NEW o \in Orders, AddOrderAckWS(o) PROVE Inv'
  <2>1. CreateAgrees'
    BY <1>8 DEF CreateAgrees, AddOrderAckWS, Told
  <2>2. QueriesTrue'
    BY <1>8 DEF TypeOK, QueriesTrue, AddOrderAckWS, Told, Undecided
  <2>3. ListTrue'
    BY <1>8 DEF ListTrue, AddOrderAckWS, Told, snapshot
  <2>4. EventsTrue'
    BY <1>8 DEF EventsTrue, AddOrderAckWS, Told
  <2> QED BY <2>1, <2>2, <2>3, <2>4
<1>9. ASSUME NEW o \in Orders, CancelOrderWS(o) PROVE Inv'
  <2>1. CreateAgrees'
    BY <1>9 DEF CreateAgrees, CancelOrderWS
  <2>2. QueriesTrue'
    BY <1>9 DEF QueriesTrue, CancelOrderWS, Undecided
  <2>3. ListTrue'
    BY <1>9 DEF ListTrue, CancelOrderWS, snapshot
  <2>4. EventsTrue'
    BY <1>9 DEF EventsTrue, CancelOrderWS
  <2> QED BY <2>1, <2>2, <2>3, <2>4
<1>10. ASSUME NEW o \in Orders, CancelOrderAckWS(o) PROVE Inv'
  <2>1. CreateAgrees'
    BY <1>10 DEF CreateAgrees, CancelOrderAckWS
  <2>2. QueriesTrue'
    BY <1>10 DEF QueriesTrue, CancelOrderAckWS, Undecided
  <2>3. ListTrue'
    BY <1>10 DEF ListTrue, CancelOrderAckWS, snapshot
  <2>4. EventsTrue'
    BY <1>10 DEF EventsTrue, CancelOrderAckWS
  <2> QED BY <2>1, <2>2, <2>3, <2>4
<1>11. ASSUME NEW o \in Orders, GetOrderAck(o) PROVE Inv'
  <2>0. Told({o}, "working") \/ Told({o}, "ended")
    BY <1>11 DEF GetOrderAck, Presumed
  <2>1. CreateAgrees'
    <3>1. UNCHANGED <<exch, create>>
      BY <1>11 DEF GetOrderAck
    <3>2. known[o] # "idle"
      BY <1>11 DEF QueriesTrue, GetOrderAck, Answers
    <3>3. \A p \in Orders : known'[p] = "idle" <=> known[p] = "idle"
      BY <2>0, <3>2 DEF Told
    <3> QED BY <3>1, <3>3 DEF CreateAgrees
  <2>2. QueriesTrue'
    <3>1. /\ UNCHANGED <<exch, create>>
          /\ \A p \in Orders : query'[p] = query[p] \/ query'[p] = "none"
      BY <1>11 DEF TypeOK, GetOrderAck
    <3>2. \A p \in Orders : known[p] # "idle" => known'[p] # "idle"
      BY <2>0 DEF Told
    <3>3. \A p \in Orders : stale'[p] => stale[p]
      BY <2>0 DEF Told
    <3>4. \A p \in Orders : stale'[p] \/ query'[p] # "none" => known'[p] # "idle"
      <4> SUFFICES ASSUME NEW p \in Orders, stale'[p] \/ query'[p] # "none"
                   PROVE  known'[p] # "idle"
        OBVIOUS
      <4>1. stale[p] \/ query[p] # "none"
        BY <3>1, <3>3
      <4> QED BY <3>2, <4>1 DEF QueriesTrue
    <3>5. \A p \in Orders :
            /\ query'[p] = "live" => exch'[p] # "none"
            /\ query'[p] = "ended" => exch'[p] = "ended"
            /\ query'[p] = "missing" => exch'[p] = "none" /\ ~Undecided(p)'
      BY <3>1 DEF QueriesTrue, Undecided
    <3> QED BY <3>4, <3>5 DEF QueriesTrue
  <2>3. ListTrue'
    BY <1>11 DEF ListTrue, GetOrderAck, snapshot
  <2>4. EventsTrue'
    BY <1>11 DEF EventsTrue, GetOrderAck
  <2> QED BY <2>1, <2>2, <2>3, <2>4
<1>12. ASSUME NEW o \in Orders, GetOrderFails(o) PROVE Inv'
  <2>1. CreateAgrees'
    BY <1>12 DEF CreateAgrees, GetOrderFails, server
  <2>2. QueriesTrue'
    BY <1>12 DEF QueriesTrue, GetOrderFails, server, Undecided
  <2>3. ListTrue'
    BY <1>12 DEF ListTrue, GetOrderFails, snapshot
  <2>4. EventsTrue'
    BY <1>12 DEF EventsTrue, GetOrderFails
  <2> QED BY <2>1, <2>2, <2>3, <2>4
<1>13. ASSUME NEW o \in Orders, DropCopyOrderChange(o) PROVE Inv'
  <2>1. CreateAgrees'
    BY <1>13 DEF CreateAgrees, EventsTrue, DropCopyOrderChange, Told
  <2>2. QueriesTrue'
    BY <1>13 DEF QueriesTrue, DropCopyOrderChange, Told, Undecided
  <2>3. ListTrue'
    BY <1>13 DEF ListTrue, DropCopyOrderChange, Told, snapshot
  <2>4. EventsTrue'
    BY <1>13 DEF EventsTrue, DropCopyOrderChange, Told
  <2> QED BY <2>1, <2>2, <2>3, <2>4
<1>14. ASSUME NEW o \in Orders, TurnsStale(o) PROVE Inv'
  <2>1. CreateAgrees'
    BY <1>14 DEF CreateAgrees, TurnsStale
  <2>2. QueriesTrue'
    BY <1>14 DEF QueriesTrue, TurnsStale, Open, Undecided
  <2>3. ListTrue'
    BY <1>14 DEF ListTrue, TurnsStale, snapshot
  <2>4. EventsTrue'
    BY <1>14 DEF EventsTrue, TurnsStale
  <2> QED BY <2>1, <2>2, <2>3, <2>4
<1>15. ASSUME NEW o \in Orders, Take(o) PROVE Inv'
  <2>1. CreateAgrees'
    BY <1>15 DEF TypeOK, CreateAgrees, Take, Becomes, Undecided, server
  <2>2. QueriesTrue'
    BY <1>15 DEF CreateAgrees, QueriesTrue, Take, Becomes, Undecided, server
  <2>3. ListTrue'
    BY <1>15 DEF TypeOK, ListTrue, Take, Becomes, snapshot
  <2>4. EventsTrue'
    BY <1>15 DEF CreateAgrees, EventsTrue, Take, Becomes, Undecided
  <2> QED BY <2>1, <2>2, <2>3, <2>4
<1>16. ASSUME NEW o \in Orders, Refuse(o) PROVE Inv'
  <2>1. CreateAgrees'
    BY <1>16 DEF CreateAgrees, Refuse, Undecided, server
  <2>2. QueriesTrue'
    BY <1>16 DEF QueriesTrue, Refuse, Undecided, server
  <2>3. ListTrue'
    BY <1>16 DEF ListTrue, Refuse, snapshot
  <2>4. EventsTrue'
    BY <1>16 DEF EventsTrue, Refuse
  <2> QED BY <2>1, <2>2, <2>3, <2>4
<1>17. ASSUME NEW o \in Orders, Ends(o) PROVE Inv'
  <2>1. CreateAgrees'
    BY <1>17 DEF CreateAgrees, Ends, Becomes, server
  <2>2. QueriesTrue'
    BY <1>17 DEF QueriesTrue, Ends, Becomes, server, Undecided
  <2>3. ListTrue'
    BY <1>17 DEF TypeOK, ListTrue, Ends, Becomes, snapshot
  <2>4. EventsTrue'
    BY <1>17 DEF EventsTrue, Ends, Becomes
  <2> QED BY <2>1, <2>2, <2>3, <2>4
<1>18. ASSUME NEW o \in Orders, ReadOrder(o) PROVE Inv'
  <2>1. CreateAgrees'
    BY <1>18 DEF CreateAgrees, ReadOrder, server
  <2>2. QueriesTrue'
    BY <1>18 DEF TypeOK, QueriesTrue, ReadOrder, Undecided, server
  <2>3. ListTrue'
    BY <1>18 DEF ListTrue, ReadOrder, snapshot
  <2>4. EventsTrue'
    BY <1>18 DEF EventsTrue, ReadOrder
  <2> QED BY <2>1, <2>2, <2>3, <2>4
<1>19. ASSUME NEW o \in Orders, ExecuteCancel(o) PROVE Inv'
  <2>1. CreateAgrees'
    BY <1>19 DEF CreateAgrees, ExecuteCancel, Becomes, server
  <2>2. QueriesTrue'
    BY <1>19 DEF QueriesTrue, ExecuteCancel, Becomes, server, Undecided
  <2>3. ListTrue'
    BY <1>19 DEF TypeOK, ListTrue, ExecuteCancel, Becomes, snapshot
  <2>4. EventsTrue'
    BY <1>19 DEF EventsTrue, ExecuteCancel, Becomes
  <2> QED BY <2>1, <2>2, <2>3, <2>4
<1>20. ASSUME NEW o \in Orders, CancelLost(o) PROVE Inv'
  <2>1. CreateAgrees'
    BY <1>20 DEF CreateAgrees, CancelLost, server
  <2>2. QueriesTrue'
    BY <1>20 DEF QueriesTrue, CancelLost, server, Undecided
  <2>3. ListTrue'
    BY <1>20 DEF ListTrue, CancelLost, snapshot
  <2>4. EventsTrue'
    BY <1>20 DEF EventsTrue, CancelLost
  <2> QED BY <2>1, <2>2, <2>3, <2>4
<1>21. ASSUME NEW s \in Symbols, CancelAllOrders(s) PROVE Inv'
  <2>1. CreateAgrees'
    BY <1>21 DEF CreateAgrees, CancelAllOrders, server
  <2>2. QueriesTrue'
    BY <1>21 DEF QueriesTrue, CancelAllOrders, server, Undecided
  <2>3. ListTrue'
    BY <1>21 DEF ListTrue, CancelAllOrders, snapshot
  <2>4. EventsTrue'
    BY <1>21 DEF EventsTrue, CancelAllOrders
  <2> QED BY <2>1, <2>2, <2>3, <2>4
<1>22. ASSUME NEW s \in Symbols, CancelAllOrdersAck(s) PROVE Inv'
  <2>1. CreateAgrees'
    BY <1>22 DEF CreateAgrees, CancelAllOrdersAck, server
  <2>2. QueriesTrue'
    BY <1>22 DEF QueriesTrue, CancelAllOrdersAck, server, Undecided
  <2>3. ListTrue'
    BY <1>22 DEF ListTrue, CancelAllOrdersAck, snapshot
  <2>4. EventsTrue'
    BY <1>22 DEF EventsTrue, CancelAllOrdersAck
  <2> QED BY <2>1, <2>2, <2>3, <2>4
<1>23. ASSUME NEW s \in Symbols, ExecuteSweep(s) PROVE Inv'
  <2>1. CreateAgrees'
    BY <1>23 DEF CreateAgrees, ExecuteSweep, Becomes, server
  <2>2. QueriesTrue'
    BY <1>23 DEF QueriesTrue, ExecuteSweep, Becomes, server, Undecided
  <2>3. ListTrue'
    BY <1>23 DEF TypeOK, ListTrue, ExecuteSweep, Becomes, snapshot
  <2>4. EventsTrue'
    BY <1>23 DEF EventsTrue, ExecuteSweep, Becomes
  <2> QED BY <2>1, <2>2, <2>3, <2>4
<1>24. ASSUME NEW s \in Symbols, SweepLost(s) PROVE Inv'
  <2>1. CreateAgrees'
    BY <1>24 DEF CreateAgrees, SweepLost, server
  <2>2. QueriesTrue'
    BY <1>24 DEF QueriesTrue, SweepLost, server, Undecided
  <2>3. ListTrue'
    BY <1>24 DEF ListTrue, SweepLost, snapshot
  <2>4. EventsTrue'
    BY <1>24 DEF EventsTrue, SweepLost
  <2> QED BY <2>1, <2>2, <2>3, <2>4
<1>25. ASSUME WSWelcome PROVE Inv'
  <2>1. CreateAgrees'
    BY <1>25 DEF CreateAgrees, WSWelcome, server
  <2>2. QueriesTrue'
    BY <1>25 DEF QueriesTrue, WSWelcome, server, Undecided
  <2>3. ListTrue'
    BY <1>25 DEF ListTrue, WSWelcome, snapshot
  <2>4. EventsTrue'
    BY <1>25 DEF EventsTrue, WSWelcome
  <2> QED BY <2>1, <2>2, <2>3, <2>4
<1>26. ASSUME WSDisconnected PROVE Inv'
  <2>1. CreateAgrees'
    BY <1>26 DEF CreateAgrees, WSDisconnected, Orphaned, server
  <2>2. QueriesTrue'
    BY <1>26 DEF QueriesTrue, WSDisconnected, Orphaned, server, Undecided
  <2>3. ListTrue'
    BY <1>26 DEF ListTrue, WSDisconnected, snapshot
  <2>4. EventsTrue'
    BY <1>26 DEF EventsTrue, WSDisconnected
  <2> QED BY <2>1, <2>2, <2>3, <2>4
<1>27. ASSUME RestConnected PROVE Inv'
  <2>1. CreateAgrees'
    BY <1>27 DEF CreateAgrees, RestConnected, server
  <2>2. QueriesTrue'
    BY <1>27 DEF QueriesTrue, RestConnected, server
  <2>3. ListTrue'
    BY <1>27 DEF ListTrue, RestConnected, snapshot
  <2>4. EventsTrue'
    BY <1>27 DEF EventsTrue, RestConnected
  <2> QED BY <2>1, <2>2, <2>3, <2>4
<1>28. ASSUME RestDisconnected PROVE Inv'
  <2>1. CreateAgrees'
    BY <1>28 DEF CreateAgrees, RestDisconnected, server
  <2>2. QueriesTrue'
    BY <1>28 DEF QueriesTrue, RestDisconnected, server, Undecided
  <2>3. ListTrue'
    BY <1>28 DEF ListTrue, RestDisconnected, snapshot
  <2>4. EventsTrue'
    BY <1>28 DEF EventsTrue, RestDisconnected
  <2> QED BY <2>1, <2>2, <2>3, <2>4
<1>29. ASSUME GetOrders PROVE Inv'
  <2>1. CreateAgrees'
    BY <1>29 DEF CreateAgrees, GetOrders, server
  <2>2. QueriesTrue'
    BY <1>29 DEF QueriesTrue, GetOrders, Queried, server
  <2>3. ListTrue'
    BY <1>29 DEF ListTrue, GetOrders
  <2>4. EventsTrue'
    BY <1>29 DEF EventsTrue, GetOrders
  <2> QED BY <2>1, <2>2, <2>3, <2>4
<1>30. ASSUME ListOrders PROVE Inv'
  <2>1. CreateAgrees'
    BY <1>30 DEF CreateAgrees, ListOrders, server
  <2>2. QueriesTrue'
    BY <1>30 DEF QueriesTrue, ListOrders, server, Undecided
  <2>3. ListTrue'
    BY <1>30 DEF ListTrue, ListOrders
  <2>4. EventsTrue'
    BY <1>30 DEF EventsTrue, ListOrders
  <2> QED BY <2>1, <2>2, <2>3, <2>4
<1>31. ASSUME GetOrdersAck PROVE Inv'
  <2>1. CreateAgrees'
    BY <1>31 DEF CreateAgrees, ListTrue, GetOrdersAck, Told, Committed
  <2>2. QueriesTrue'
    <3>1. \A o \in Orders : known[o] # "idle" => known'[o] # "idle"
      BY <1>31 DEF GetOrdersAck, Told
    <3>2. \A o \in Orders : stale'[o] => known'[o] # "idle"
      BY <1>31, <3>1 DEF GetOrdersAck, Told, QueriesTrue
    <3>3. Committed(stale') /\ UNCHANGED <<exch, create>>
      BY <1>31 DEF GetOrdersAck
    <3> QED BY <3>1, <3>2, <3>3, NotedTrue
  <2>3. ListTrue'
    BY <1>31 DEF ListTrue, GetOrdersAck, Told, Committed
  <2>4. EventsTrue'
    BY <1>31 DEF EventsTrue, GetOrdersAck, Told, Committed
  <2> QED BY <2>1, <2>2, <2>3, <2>4
<1>32. ASSUME GetOrdersFails PROVE Inv'
  <2>1. CreateAgrees'
    BY <1>32 DEF CreateAgrees, GetOrdersFails, Committed, server
  <2>2. QueriesTrue'
    <3>1. Committed(stale) /\ UNCHANGED <<exch, create, known, stale>>
      BY <1>32 DEF GetOrdersFails, server
    <3> QED BY <3>1, NotedTrue DEF QueriesTrue
  <2>3. ListTrue'
    BY <1>32 DEF ListTrue, GetOrdersFails, Committed
  <2>4. EventsTrue'
    BY <1>32 DEF EventsTrue, GetOrdersFails, Committed
  <2> QED BY <2>1, <2>2, <2>3, <2>4
<1>33. ASSUME CheckStaleOrders PROVE Inv'
  <2>1. CreateAgrees'
    BY <1>33 DEF CreateAgrees, CheckStaleOrders, Noted, server
  <2>2. QueriesTrue'
    BY <1>33 DEF QueriesTrue, CheckStaleOrders, Noted, server, Undecided
  <2>3. ListTrue'
    BY <1>33 DEF ListTrue, CheckStaleOrders, Noted, snapshot
  <2>4. EventsTrue'
    BY <1>33 DEF EventsTrue, CheckStaleOrders, Noted
  <2> QED BY <2>1, <2>2, <2>3, <2>4
<1>34. ASSUME CheckRequestQueue PROVE Inv'
  <2>1. CreateAgrees'
    BY <1>34 DEF CreateAgrees, CheckRequestQueue, server
  <2>2. QueriesTrue'
    BY <1>34 DEF QueriesTrue, CheckRequestQueue, server
  <2>3. ListTrue'
    BY <1>34 DEF ListTrue, CheckRequestQueue, snapshot
  <2>4. EventsTrue'
    BY <1>34 DEF EventsTrue, CheckRequestQueue
  <2> QED BY <2>1, <2>2, <2>3, <2>4
<1>35. ASSUME DropCopySubscribed PROVE Inv'
  <2>1. CreateAgrees'
    BY <1>35 DEF CreateAgrees, DropCopySubscribed, server
  <2>2. QueriesTrue'
    BY <1>35 DEF QueriesTrue, DropCopySubscribed, server, Undecided
  <2>3. ListTrue'
    BY <1>35 DEF ListTrue, DropCopySubscribed, snapshot
  <2>4. EventsTrue'
    BY <1>35 DEF EventsTrue, DropCopySubscribed
  <2> QED BY <2>1, <2>2, <2>3, <2>4
<1>36. ASSUME DropCopyDisconnected PROVE Inv'
  <2>1. CreateAgrees'
    BY <1>36 DEF CreateAgrees, DropCopyDisconnected, server
  <2>2. QueriesTrue'
    BY <1>36 DEF QueriesTrue, DropCopyDisconnected, server, Undecided
  <2>3. ListTrue'
    BY <1>36 DEF ListTrue, DropCopyDisconnected
  <2>4. EventsTrue'
    BY <1>36 DEF EventsTrue, DropCopyDisconnected
  <2> QED BY <2>1, <2>2, <2>3, <2>4
<1>37. CASE UNCHANGED vars
  BY <1>37 DEF CreateAgrees, QueriesTrue, ListTrue, EventsTrue, Undecided, vars, snapshot,
     server
<1>38. ASSUME NEW o \in Orders, CreateOrderRejected(o) PROVE Inv'
  <2>0. Told({o}, "ended")
    BY <1>38 DEF CreateOrderRejected, Presumed
  <2>1. CreateAgrees'
    BY <1>38, <2>0 DEF CreateAgrees, CreateOrderRejected, Orphaned, Told
  <2>2. QueriesTrue'
    BY <1>38, <2>0 DEF TypeOK, QueriesTrue, CreateOrderRejected, Orphaned, Told, Undecided
  <2>3. ListTrue'
    BY <1>38 DEF ListTrue, CreateOrderRejected, snapshot
  <2>4. EventsTrue'
    BY <1>38 DEF EventsTrue, CreateOrderRejected
  <2> QED BY <2>1, <2>2, <2>3, <2>4
<1> QED
  BY <1>1, <1>2, <1>3, <1>4, <1>5, <1>6, <1>7, <1>8, <1>9, <1>10, <1>11, <1>12, <1>13,
     <1>14, <1>15, <1>16, <1>17, <1>18, <1>19, <1>20, <1>21, <1>22, <1>23, <1>24, <1>25,
     <1>26, <1>27, <1>28, <1>29, <1>30, <1>31, <1>32, <1>33, <1>34, <1>35, <1>36, <1>37, <1>38
  DEF Next, OrderSteps, SweepSteps, SessionSteps

\* The inductive invariant holds in every state.
THEOREM Invariance == Spec => []Inv
<1>1. Init => Inv
  <2> SUFFICES ASSUME Init PROVE Inv
    OBVIOUS
  <2>1. TypeOK
    BY FaultsAssumption, NoEvents DEF Init, TypeOK
  <2>2. CreateAgrees
    BY DEF Init, CreateAgrees
  <2>3. QueriesTrue /\ ListTrue
    BY DEF Init, QueriesTrue, ListTrue
  <2>4. EventsTrue
    <3>1. \A o \in Orders : events[o] = <<>>
      BY DEF Init
    <3> QED BY <3>1 DEF EventsTrue
  <2>5. MisledEnded
    BY DEF Init, MisledEnded
  <2> QED BY <2>1, <2>2, <2>3, <2>4, <2>5 DEF Inv
<1> QED BY <1>1, Inductive, PTL DEF Spec

\* Every reachable state is well typed.
THEOREM TypeCorrect == Spec => []TypeOK
  BY Invariance, PTL DEF Inv

----------------------------------------------------------------------------
(* Refinement: what each kind of step does to the fates of the orders. *)


\* The fates stay when the exchange's orders and the undecided ones do.
LEMMA SameFates ==
  ASSUME UNCHANGED exch,
         \A o \in Orders : /\ known'[o] = "idle" <=> known[o] = "idle"
                           /\ Undecided(o)' <=> Undecided(o)
  PROVE  Fate' = Fate
  BY DEF Fate

\* A step that changes neither a fate nor what is told.
LEMMA StutterRefines ==
  ASSUME UNCHANGED <<known, exch, misled>>,
         \A o \in Orders : Undecided(o)' <=> Undecided(o)
  PROVE  UNCHANGED P!vars
  BY SameFates DEF P!vars, Judged

\* An update, a response or an answer to a query.
LEMMA ToldRefines ==
  ASSUME Inv, NEW S \in SUBSET Orders,
         NEW status \in {"working", "ended"}, Told(S, status), UNCHANGED <<exch, misled>>,
         \A o \in Orders : Undecided(o)' <=> Undecided(o),
         status = "working" => \A o \in S : exch[o] # "none",
         status = "ended" =>
           \A o \in S : known[o] # "ended" => Over(o) /\ create[o] # "no"
  PROVE  P!Next
<1> DEFINE T == {o \in S : known[o] # "ended"}
<1>1. \A o \in T : known[o] # "idle"
  BY KnownBegun DEF Inv, CreateAgrees
<1>2. Fate' = Fate
  <2>1. \A o \in Orders : known'[o] = known[o] \/ (o \in T /\ known'[o] = status)
    BY DEF Told
  <2> QED BY <1>1, <2>1, SameFates
<1>3. \A o \in T : /\ status = "working" => Fate[o] \in {"live", "ended"}
                   /\ status = "ended" => Fate[o] \in {"ended", "never"}
  BY <1>1 DEF Fate, Inv, TypeOK, Over
<1>4. Judged' = [o \in Orders |-> IF o \in T /\ Judged[o] # "ended" THEN status
                                  ELSE Judged[o]]
  <2>1. ASSUME NEW o \in T
        PROVE  /\ Judged[o] = known[o] /\ Judged[o] # "ended"
               /\ known'[o] = status /\ misled'[o] = "no"
    BY <2>1 DEF Inv, MisledEnded, Judged, Told
  <2>2. ASSUME NEW o \in Orders \ T PROVE known'[o] = known[o] /\ misled'[o] = misled[o]
    BY <2>2 DEF Told
  <2> QED BY <2>1, <2>2 DEF Judged
<1>5. T \in SUBSET Orders /\ P!Learn(T, status)
  BY <1>2, <1>3, <1>4 DEF P!Learn
<1> QED BY <1>5 DEF P!Next

\* An end that is presumed: true, or not told as far as the promise goes.
LEMMA PresumedRefines ==
  ASSUME Inv, NEW o \in Orders, Presumed(o), UNCHANGED exch, known[o] # "idle",
         \A p \in Orders : Undecided(p)' <=> Undecided(p)
  PROVE  P!Next \/ UNCHANGED P!vars
<1>1. Told({o}, "ended") /\ create[o] # "no" /\ {o} \in SUBSET Orders
  BY DEF Presumed, Inv, CreateAgrees
<1>2. CASE Over(o) \/ known[o] = "ended"
  <2>1. UNCHANGED misled
    BY <1>2 DEF Presumed, Open
  <2> QED BY <1>1, <1>2, <2>1, ToldRefines
<1>3. CASE ~Over(o) /\ known[o] # "ended"
  <2>1. misled[o] = "no" /\ Open(o)
    BY <1>3 DEF Inv, TypeOK, MisledEnded, Open
  <2>2. misled' = [misled EXCEPT ![o] = known[o]] /\ known[o] # "no"
    BY <1>3, <2>1 DEF Presumed, Open
  <2>3. Judged'[o] = known[o] /\ Judged[o] = known[o]
    BY <2>1, <2>2 DEF Judged, Inv, TypeOK
  <2>4. \A p \in Orders : p # o => known'[p] = known[p] /\ misled'[p] = misled[p]
    BY <1>1, <2>2 DEF Told
  <2>5. Judged' = Judged
    BY <2>3, <2>4 DEF Judged
  <2>6. Fate' = Fate
    <3>1. known'[o] = "ended"
      BY <1>1 DEF Told
    <3> QED BY <2>4, <3>1, SameFates
  <2> QED BY <2>5, <2>6 DEF P!vars
<1> QED BY <1>2, <1>3

\* The exchange ends orders.
LEMMA EndRefines ==
  ASSUME Inv, NEW S \in SUBSET Orders, \A o \in S : exch[o] = "live",
         Becomes(S, "ended"), UNCHANGED <<known, create, misled>>
  PROVE  P!Next
<1>1. \A o \in S : Fate[o] = "live"
  BY KnownBegun DEF Fate
<1>2. Fate' = [o \in Orders |-> IF o \in S THEN "ended" ELSE Fate[o]]
  BY KnownBegun DEF Fate, Becomes, Undecided
<1>3. P!End(S)
  BY <1>1, <1>2 DEF P!End, Judged
<1> QED BY <1>3 DEF P!Next

\* The exchange takes or refuses an order.
LEMMA DecideRefines ==
  ASSUME Inv, NEW o \in Orders, Undecided(o), UNCHANGED <<known, misled>>,
         NEW s \in {"took", "refused", "done"},
         create' = [create EXCEPT ![o] = s],
         \/ Becomes({o}, "live")
         \/ UNCHANGED exch
  PROVE  P!Next
<1>1. known[o] # "idle" /\ exch[o] = "none"
  BY DEF Inv, CreateAgrees, Undecided
<1>2. Fate[o] = "out"
  BY <1>1 DEF Fate
<1>3. PICK f \in {"live", "never"} : f = IF exch'[o] = "none" THEN "never" ELSE "live"
  OBVIOUS
<1>4. \A p \in Orders : p # o => exch'[p] = exch[p] /\ create'[p] = create[p]
  BY DEF Becomes
<1>5. exch'[o] \in {"none", "live"} /\ create'[o] = s
  BY <1>1 DEF Becomes, Inv, TypeOK
<1>6. Fate' = [Fate EXCEPT ![o] = f]
  BY <1>1, <1>3, <1>4, <1>5 DEF Fate, Undecided
<1>7. P!Decide(o)
  BY <1>2, <1>6 DEF P!Decide, Judged
<1> QED BY <1>7 DEF P!Next

\* A request is sent, or known not to be.
LEMMA SubmitRefines ==
  ASSUME Inv, NEW o \in Orders, known[o] = "idle", UNCHANGED <<exch, misled>>,
         NEW c \in {"sent", "done"}, create' = [create EXCEPT ![o] = c],
         NEW t \in {"sent", "ended"}, known' = [known EXCEPT ![o] = t],
         c = "sent" => t = "sent"
  PROVE  P!Next
<1>1. exch[o] = "none" /\ Fate[o] = "idle"
  BY DEF Inv, CreateAgrees, Fate
<1>2. PICK f \in {"out", "never"} : f = IF c = "sent" THEN "out" ELSE "never"
  OBVIOUS
<1>3. \A p \in Orders : p # o => known'[p] = known[p] /\ create'[p] = create[p]
  OBVIOUS
<1>4. known'[o] = t /\ create'[o] = c
  BY DEF Inv, TypeOK
<1>5. Fate' = [Fate EXCEPT ![o] = f]
  BY <1>1, <1>2, <1>3, <1>4 DEF Fate, Undecided
<1>6. Fate'[o] = f
  BY <1>5 DEF Fate
<1>7. Judged' = [Judged EXCEPT ![o] = t]
  BY <1>3, <1>4 DEF Judged, Inv, MisledEnded
<1>8. P!Submit(o)
  BY <1>1, <1>2, <1>5, <1>6, <1>7 DEF P!Submit
<1> QED BY <1>8 DEF P!Next

\* Every step is one of those.
LEMMA StepRefines == Inv /\ [Next]_vars => [P!Next]_P!vars
<1> SUFFICES ASSUME Inv, [Next]_vars PROVE P!Next \/ UNCHANGED P!vars
  BY DEF P!vars
<1>1. ASSUME NEW o \in Orders, CreateOrderREST(o) PROVE P!Next \/ UNCHANGED P!vars
  BY <1>1, SubmitRefines DEF CreateOrderREST
<1>2. ASSUME NEW o \in Orders, CreateOrderAckREST(o) PROVE P!Next \/ UNCHANGED P!vars
  <2>1. CASE create[o] = "took"
    BY <1>2, <2>1, StutterRefines DEF CreateOrderAckREST, server, Undecided
  <2>2. CASE create[o] = "refused"
    <3>1. /\ Told({o}, "ended") /\ exch[o] = "none" /\ UNCHANGED <<exch, misled>>
          /\ \A p \in Orders : Undecided(p)' <=> Undecided(p)
      BY <1>2, <2>2 DEF Inv, CreateAgrees, CreateOrderAckREST, Undecided
    <3> QED BY <2>2, <3>1, ToldRefines DEF Undecided, Over
  <2> QED BY <1>2, <2>1, <2>2 DEF CreateOrderAckREST
<1>3. ASSUME NEW o \in Orders, CreateOrderFails(o) PROVE P!Next \/ UNCHANGED P!vars
  BY <1>3, StutterRefines DEF CreateOrderFails, Orphaned, server, Undecided
<1>4. ASSUME NEW o \in Orders, CancelOrderREST(o) PROVE P!Next \/ UNCHANGED P!vars
  BY <1>4, StutterRefines DEF CancelOrderREST, Undecided
<1>5. ASSUME NEW o \in Orders, CancelOrderAckREST(o) PROVE P!Next \/ UNCHANGED P!vars
  BY <1>5, StutterRefines DEF CancelOrderAckREST, Undecided
<1>6. ASSUME NEW o \in Orders, CancelOrderFails(o) PROVE P!Next \/ UNCHANGED P!vars
  BY <1>6, StutterRefines DEF CancelOrderFails, Undecided
<1>7. ASSUME NEW o \in Orders, CreateOrderWS(o) PROVE P!Next \/ UNCHANGED P!vars
  BY <1>7, SubmitRefines DEF CreateOrderWS
<1>8. ASSUME NEW o \in Orders, AddOrderAckWS(o) PROVE P!Next \/ UNCHANGED P!vars
  <2>1. UNCHANGED <<exch, misled>> /\ \A p \in Orders : Undecided(p)' <=> Undecided(p)
    BY <1>8 DEF AddOrderAckWS, Undecided
  <2>2. CASE create[o] = "took"
    <3>1. Told({o}, "working") /\ exch[o] # "none"
      BY <1>8, <2>2 DEF Inv, CreateAgrees, AddOrderAckWS
    <3> QED BY <2>1, <3>1, ToldRefines
  <2>3. CASE create[o] = "refused"
    <3>1. Told({o}, "ended") /\ exch[o] = "none"
      BY <1>8, <2>3 DEF Inv, CreateAgrees, AddOrderAckWS
    <3> QED BY <2>1, <2>3, <3>1, ToldRefines DEF Undecided, Over
  <2> QED BY <1>8, <2>2, <2>3 DEF AddOrderAckWS
<1>9. ASSUME NEW o \in Orders, CancelOrderWS(o) PROVE P!Next \/ UNCHANGED P!vars
  BY <1>9, StutterRefines DEF CancelOrderWS, Undecided
<1>10. ASSUME NEW o \in Orders, CancelOrderAckWS(o) PROVE P!Next \/ UNCHANGED P!vars
  BY <1>10, StutterRefines DEF CancelOrderAckWS, Undecided
<1>11. ASSUME NEW o \in Orders, GetOrderAck(o) PROVE P!Next \/ UNCHANGED P!vars
  <2>1. UNCHANGED exch /\ \A p \in Orders : Undecided(p)' <=> Undecided(p)
    BY <1>11 DEF GetOrderAck, Undecided
  <2>2. CASE query[o] = "live"
    <3>1. Told({o}, "working") /\ exch[o] # "none" /\ UNCHANGED misled
      BY <1>11, <2>2 DEF Inv, QueriesTrue, GetOrderAck
    <3> QED BY <2>1, <3>1, ToldRefines
  <2>3. CASE query[o] \in {"ended", "missing"}
    <3>1. Told({o}, "ended") /\ known[o] # "idle" /\ Over(o) /\ UNCHANGED misled
      BY <1>11, <2>3 DEF Inv, QueriesTrue, GetOrderAck, Over
    <3> QED BY <2>1, <3>1, ToldRefines DEF Inv, CreateAgrees
  <2>4. CASE query[o] = "early"
    <3>1. Presumed(o) /\ known[o] # "idle"
      BY <1>11, <2>4 DEF Inv, QueriesTrue, GetOrderAck
    <3> QED BY <2>1, <3>1, PresumedRefines
  <2> QED BY <1>11, <2>2, <2>3, <2>4 DEF GetOrderAck, Answers
<1>12. ASSUME NEW o \in Orders, GetOrderFails(o) PROVE P!Next \/ UNCHANGED P!vars
  BY <1>12, StutterRefines DEF GetOrderFails, server, Undecided
<1>13. ASSUME NEW o \in Orders, DropCopyOrderChange(o) PROVE P!Next \/ UNCHANGED P!vars
  <2>1. UNCHANGED <<exch, misled>> /\ \A p \in Orders : Undecided(p)' <=> Undecided(p)
    BY <1>13 DEF DropCopyOrderChange, Undecided
  <2>2. CASE Head(events[o]) = "live"
    <3>1. Told({o}, "working") /\ exch[o] # "none"
      BY <1>13, <2>2 DEF Inv, EventsTrue, DropCopyOrderChange
    <3> QED BY <2>1, <3>1, ToldRefines
  <2>3. CASE Head(events[o]) # "live"
    <3>0. events[o] \in Seq({"live", "ended"}) /\ events[o] # <<>>
      BY <1>13 DEF Inv, TypeOK, DropCopyOrderChange
    <3>a. Len(events[o]) \in Nat /\ 1 \in 1..Len(events[o]) /\ Head(events[o]) = events[o][1]
      BY <3>0
    <3>b. events[o][1] = "ended"
      BY <2>3, <3>0, <3>a
    <3>1. Told({o}, "ended") /\ exch[o] = "ended"
      BY <1>13, <2>3, <3>a, <3>b DEF Inv, EventsTrue, DropCopyOrderChange
    <3>2. Over(o) /\ create[o] # "no" /\ {o} \in SUBSET Orders
      BY <3>1 DEF Over, Inv, CreateAgrees
    <3> QED BY <2>1, <3>1, <3>2, ToldRefines
  <2> QED BY <2>2, <2>3
<1>14. ASSUME NEW o \in Orders, TurnsStale(o) PROVE P!Next \/ UNCHANGED P!vars
  BY <1>14, StutterRefines DEF TurnsStale, Undecided
<1>15. ASSUME NEW o \in Orders, Take(o) PROVE P!Next \/ UNCHANGED P!vars
  BY <1>15, DecideRefines DEF Take, Becomes, server
<1>16. ASSUME NEW o \in Orders, Refuse(o) PROVE P!Next \/ UNCHANGED P!vars
  BY <1>16, DecideRefines DEF Refuse, server
<1>17. ASSUME NEW o \in Orders, Ends(o) PROVE P!Next \/ UNCHANGED P!vars
  <2>1. Becomes({o}, "ended") /\ UNCHANGED <<known, create, misled>>
    BY <1>17 DEF Ends, server
  <2>2. {o} \in SUBSET Orders /\ \A p \in {o} : exch[p] = "live"
    BY <1>17 DEF Ends
  <2> QED BY <2>1, <2>2, EndRefines
<1>18. ASSUME NEW o \in Orders, ReadOrder(o) PROVE P!Next \/ UNCHANGED P!vars
  BY <1>18, StutterRefines DEF ReadOrder, Undecided, server
<1>19. ASSUME NEW o \in Orders, ExecuteCancel(o) PROVE P!Next \/ UNCHANGED P!vars
  <2>1. PICK S \in {{o}, {}} : /\ Becomes(S, "ended")
                                /\ \A p \in S : exch[p] = "live"
    BY <1>19 DEF ExecuteCancel, Becomes
  <2>2. S \in SUBSET Orders /\ UNCHANGED <<known, create, misled>>
    BY <1>19 DEF ExecuteCancel, Becomes, server
  <2> QED BY <2>1, <2>2, EndRefines
<1>20. ASSUME NEW o \in Orders, CancelLost(o) PROVE P!Next \/ UNCHANGED P!vars
  BY <1>20, StutterRefines DEF CancelLost, server, Undecided
<1>21. ASSUME NEW s \in Symbols, CancelAllOrders(s) PROVE P!Next \/ UNCHANGED P!vars
  BY <1>21, StutterRefines DEF CancelAllOrders, server, Undecided
<1>22. ASSUME NEW s \in Symbols, CancelAllOrdersAck(s) PROVE P!Next \/ UNCHANGED P!vars
  BY <1>22, StutterRefines DEF CancelAllOrdersAck, server, Undecided
<1>23. ASSUME NEW s \in Symbols, ExecuteSweep(s) PROVE P!Next \/ UNCHANGED P!vars
  <2> DEFINE S == {o \in Orders : SymbolOf[o] = s /\ exch[o] = "live"}
  <2>1. Becomes(S, "ended") /\ UNCHANGED <<known, create, misled>>
    BY <1>23 DEF ExecuteSweep, Becomes, server
  <2>2. S \in SUBSET Orders /\ \A o \in S : exch[o] = "live"
    OBVIOUS
  <2> HIDE DEF S
  <2> QED BY <2>1, <2>2, EndRefines
<1>24. ASSUME NEW s \in Symbols, SweepLost(s) PROVE P!Next \/ UNCHANGED P!vars
  BY <1>24, StutterRefines DEF SweepLost, server, Undecided
<1>25. ASSUME WSWelcome PROVE P!Next \/ UNCHANGED P!vars
  BY <1>25, StutterRefines DEF WSWelcome, server, Undecided
<1>26. ASSUME WSDisconnected PROVE P!Next \/ UNCHANGED P!vars
  BY <1>26, StutterRefines DEF WSDisconnected, Orphaned, server, Undecided
<1>27. ASSUME RestConnected PROVE P!Next \/ UNCHANGED P!vars
  BY <1>27, StutterRefines DEF RestConnected, server, Undecided
<1>28. ASSUME RestDisconnected PROVE P!Next \/ UNCHANGED P!vars
  BY <1>28, StutterRefines DEF RestDisconnected, server, Undecided
<1>29. ASSUME GetOrders PROVE P!Next \/ UNCHANGED P!vars
  BY <1>29, StutterRefines DEF GetOrders, server, Undecided
<1>30. ASSUME ListOrders PROVE P!Next \/ UNCHANGED P!vars
  BY <1>30, StutterRefines DEF ListOrders, server, Undecided
<1>31. ASSUME GetOrdersAck PROVE P!Next \/ UNCHANGED P!vars
  BY <1>31, ToldRefines DEF Inv, TypeOK, ListTrue, GetOrdersAck, Committed, Undecided
<1>32. ASSUME GetOrdersFails PROVE P!Next \/ UNCHANGED P!vars
  BY <1>32, StutterRefines DEF GetOrdersFails, Committed, server, Undecided
<1>33. ASSUME CheckStaleOrders PROVE P!Next \/ UNCHANGED P!vars
  BY <1>33, StutterRefines DEF CheckStaleOrders, Noted, server, Undecided
<1>34. ASSUME CheckRequestQueue PROVE P!Next \/ UNCHANGED P!vars
  BY <1>34, StutterRefines DEF CheckRequestQueue, server, Undecided
<1>35. ASSUME DropCopySubscribed PROVE P!Next \/ UNCHANGED P!vars
  BY <1>35, StutterRefines DEF DropCopySubscribed, server, Undecided
<1>36. ASSUME DropCopyDisconnected PROVE P!Next \/ UNCHANGED P!vars
  BY <1>36, StutterRefines DEF DropCopyDisconnected, server, Undecided
<1>37. CASE UNCHANGED vars
  BY <1>37, StutterRefines DEF Undecided, vars, server
<1>38. ASSUME NEW o \in Orders, CreateOrderRejected(o) PROVE P!Next \/ UNCHANGED P!vars
  <2>1. Presumed(o) /\ UNCHANGED exch /\ known[o] # "idle"
    BY <1>38 DEF CreateOrderRejected, Inv, CreateAgrees
  <2>2. \A p \in Orders : Undecided(p)' <=> Undecided(p)
    BY <1>38 DEF CreateOrderRejected, Orphaned, Undecided
  <2> QED BY <2>1, <2>2, PresumedRefines
<1> QED
  BY <1>1, <1>2, <1>3, <1>4, <1>5, <1>6, <1>7, <1>8, <1>9, <1>10, <1>11, <1>12, <1>13,
     <1>14, <1>15, <1>16, <1>17, <1>18, <1>19, <1>20, <1>21, <1>22, <1>23, <1>24, <1>25,
     <1>26, <1>27, <1>28, <1>29, <1>30, <1>31, <1>32, <1>33, <1>34, <1>35, <1>36, <1>37, <1>38
  DEF Next, OrderSteps, SweepSteps, SessionSteps

\* OrderActions implements OrderPromise: the server is told of an order only
\* what is true or was, whatever connections, answers and events are lost, save
\* the ends presumed by the two answers of OnlyMisleading.
THEOREM PromiseKept == Spec => KeepsPromise
<1>1. Init => P!Init
  BY DEF Init, P!Init, Fate, Judged
<1> QED BY <1>1, StepRefines, Invariance, PTL DEF Spec, P!Spec, KeepsPromise

\* An order that is over stays so: the promise knows no way back.
LEMMA OverStays ==
  ASSUME Inv, Inv', [Next]_vars, NEW o \in Orders, Over(o), known[o] # "idle"
  PROVE  Over(o)'
<1>1. Fate[o] \in {"ended", "never"} /\ DOMAIN Fate = Orders
  BY DEF Fate, Over
<1>2. P!Next \/ UNCHANGED P!vars
  BY StepRefines DEF P!vars
<1>3. Fate'[o] \in {"ended", "never"}
  BY <1>1, <1>2 DEF P!Next, P!Submit, P!Decide, P!End, P!Learn, P!vars
<1>4. Fate'[o] = IF known'[o] = "idle" THEN "idle"
                 ELSE IF exch'[o] # "none" THEN exch'[o]
                 ELSE IF Undecided(o)' THEN "out" ELSE "never"
  BY DEF Fate
<1> QED BY <1>3, <1>4 DEF Over, Inv, TypeOK

\* In every reachable state what the server was told of an order, by an answer
\* over either transport, an event, a snapshot or a query, is or was true of it,
\* unless it is the end of an order it was misled about.
ToldTruth ==
  \A o \in Orders :
    /\ Fate[o] = "idle" <=> known[o] = "idle"
    /\ known[o] = "working" => Fate[o] \in {"live", "ended"}
    /\ known[o] = "ended" => Over(o) \/ misled[o] # "no"

\* ToldTruth holds of every reachable state.
THEOREM ToldTrue == Spec => []ToldTruth
<1>1. Spec => P!Spec
  BY PromiseKept DEF KeepsPromise
<1>2. P!Spec \/ P!SubmittedSpec => [](P!TypeOK /\ P!Truthful)
  BY P!ToldTrue
<1>3. Inv /\ P!Truthful => ToldTruth
  <2> SUFFICES ASSUME Inv, P!Truthful, NEW o \in Orders
               PROVE  /\ Fate[o] = "idle" <=> known[o] = "idle"
                      /\ known[o] = "working" => Fate[o] \in {"live", "ended"}
                      /\ known[o] = "ended" => Over(o) \/ misled[o] # "no"
    BY DEF ToldTruth
  <2>1. CASE misled[o] = "no"
    <3>1. Judged[o] = known[o]
      BY <2>1 DEF Judged
    <3>2. known[o] = "ended" => Fate[o] \in {"ended", "never"}
      BY <3>1 DEF P!Truthful
    <3>3. Fate[o] \in {"ended", "never"} => Over(o)
      BY DEF Fate, Over, Inv, TypeOK
    <3> QED BY <3>1, <3>2, <3>3 DEF P!Truthful
  <2>2. CASE misled[o] # "no"
    <3>1. known[o] = "ended"
      BY <2>2 DEF Inv, MisledEnded
    <3>2. Fate[o] # "idle"
      BY <3>1 DEF Fate, Inv, TypeOK, Undecided
    <3> QED BY <2>2, <3>1, <3>2
  <2> QED BY <2>1, <2>2
<1> QED BY <1>1, <1>2, <1>3, Invariance, PTL

\* An order the server takes to have ended although it lives or may yet live.
Misjudged(o) == known[o] = "ended" /\ ~Over(o)

\* The only answers that lead to one: a server error to a create the exchange did
\* not refuse, and a query that overtook the create.
MisleadingAnswers ==
  \A o \in Orders :
    ~Misjudged(o) /\ Misjudged(o)' =>
      \/ CreateOrderRejected(o) /\ create[o] \in {"sent", "took"}
      \/ GetOrderAck(o) /\ query[o] = "early"

\* No other answer, event, snapshot, query, failure or cancel ends an order for
\* the server that is not over, and no order comes back once it is over.
THEOREM OnlyMisleading == Spec => [][MisleadingAnswers]_vars
<1>1. Inv /\ ToldTruth /\ (Inv /\ ToldTruth)' /\ [Next]_vars => [MisleadingAnswers]_vars
  <2> SUFFICES ASSUME Inv, ToldTruth, Inv', ToldTruth', [Next]_vars,
                      NEW o \in Orders, ~Misjudged(o), Misjudged(o)'
               PROVE  \/ CreateOrderRejected(o) /\ create[o] \in {"sent", "took"}
                      \/ GetOrderAck(o) /\ query[o] = "early"
    BY DEF MisleadingAnswers
  <2>1. misled'[o] # "no" /\ known'[o] = "ended" /\ ~Over(o)'
    BY DEF ToldTruth, Misjudged
  <2>2. misled[o] = "no"
    <3> SUFFICES ASSUME misled[o] # "no" PROVE FALSE
      OBVIOUS
    <3>1. known[o] = "ended"
      BY DEF Inv, MisledEnded
    <3>2. Over(o)
      BY <3>1 DEF Misjudged
    <3>3. Over(o)'
      BY <3>1, <3>2, OverStays
    <3> QED BY <2>1, <3>3
  <2>3. PICK p \in Orders :
               /\ CreateOrderRejected(p) \/ (GetOrderAck(p) /\ query[p] = "early")
               /\ Presumed(p)
    BY <2>1, <2>2, MisledBy
  <2>4. p = o /\ ~Over(o)
    BY <2>1, <2>2, <2>3 DEF Presumed
  <2>5. CASE CreateOrderRejected(o)
    BY <2>4, <2>5 DEF CreateOrderRejected, Over, Inv, CreateAgrees, Undecided
  <2> QED BY <2>3, <2>4, <2>5
<1> QED BY <1>1, Invariance, ToldTrue, PTL DEF Spec

----------------------------------------------------------------------------
(* The safety that CancelsResolved rests on. *)

\* The server waits for a cancel only of an order that is open for it, and over
\* REST either a call is out whose answer or failure resolves the cancel, or the
\* order has ended, which it will be told.  A call that cancelled has ended it.
CancelBacked ==
  \A o \in Orders :
    /\ o \in waiting => Open(o)
    /\ ~wsApi /\ o \in waiting =>
         cancel[o] \in {"sent", "nameless", "done", "refused"} \/ exch[o] = "ended"
    /\ cancel[o] = "done" => exch[o] = "ended"

\* The web socket is used only if the settings say so.
SocketChosen == wsUp => wsApi

CancelInv == SocketChosen /\ CancelBacked

\* No step takes an ended order back.
LEMMA EndedStays ==
  ASSUME Inv, [Next]_vars, NEW o \in Orders, exch[o] = "ended"
  PROVE  exch'[o] = "ended"
<1>1. \A p \in Orders : ~(Undecided(p) /\ exch[p] = "ended")
  BY DEF Inv, CreateAgrees, Undecided
<1>2. ASSUME NEW p \in Orders, OrderSteps(p) PROVE exch'[o] = "ended"
  BY <1>1, <1>2 DEF OrderSteps, CreateOrderREST, CreateOrderAckREST, CreateOrderFails,
     CreateOrderRejected, CancelOrderREST, CancelOrderAckREST, CancelOrderFails, CreateOrderWS,
     AddOrderAckWS, CancelOrderWS, CancelOrderAckWS, GetOrderAck, GetOrderFails,
     DropCopyOrderChange, TurnsStale, Take, Refuse, Ends, ReadOrder, ExecuteCancel,
     CancelLost, Becomes
<1>3. ASSUME NEW s \in Symbols, SweepSteps(s) PROVE exch'[o] = "ended"
  BY <1>3 DEF SweepSteps, CancelAllOrders, CancelAllOrdersAck, ExecuteSweep, SweepLost,
     Becomes
<1>4. CASE SessionSteps
  BY <1>4 DEF SessionSteps, WSWelcome, WSDisconnected, RestConnected, RestDisconnected,
     GetOrders, ListOrders, GetOrdersAck, GetOrdersFails, CheckStaleOrders,
     CheckRequestQueue, DropCopySubscribed, DropCopyDisconnected
<1>5. CASE UNCHANGED vars
  BY <1>5 DEF vars
<1> QED BY <1>2, <1>3, <1>4, <1>5 DEF Next

\* A step that starts, answers and fails no cancel.
LEMMA CancelKept ==
  ASSUME Inv, CancelInv, UNCHANGED <<wsApi, wsUp, cancel>>, waiting' \subseteq waiting,
         \A o \in Orders : exch[o] = "ended" => exch'[o] = "ended",
         \A o \in waiting' : Open(o)'
  PROVE  CancelInv'
  BY DEF CancelInv, SocketChosen, CancelBacked

\* What the server is told ends its wait for the orders that are over.
LEMMA ToldOpen ==
  ASSUME Inv, CancelInv, NEW S \in SUBSET Orders, NEW status \in {"working", "ended"},
         Told(S, status)
  PROVE  waiting' \subseteq waiting /\ \A o \in waiting' : Open(o)'
<1>1. waiting \subseteq Orders
  BY DEF Inv, TypeOK
<1> QED BY <1>1 DEF Told, CancelInv, CancelBacked, Open

LEMMA CancelStep == Inv /\ CancelInv /\ [Next]_vars => CancelInv'
<1> SUFFICES ASSUME Inv, CancelInv, [Next]_vars PROVE CancelInv'
  OBVIOUS
<1>0. /\ \A o \in Orders : exch[o] = "ended" => exch'[o] = "ended"
      /\ waiting \subseteq Orders /\ \A o \in waiting : Open(o)
  BY EndedStays DEF Inv, TypeOK, CancelInv, CancelBacked
<1>1. ASSUME UNCHANGED <<wsApi, wsUp, cancel, known, waiting>> PROVE CancelInv'
  BY <1>0, <1>1, CancelKept DEF Open
<1>2. ASSUME NEW S \in SUBSET Orders, NEW status \in {"working", "ended"},
             Told(S, status), UNCHANGED <<wsApi, wsUp, cancel>>
      PROVE  CancelInv'
  BY <1>0, <1>2, ToldOpen, CancelKept
<1>3. ASSUME NEW o \in Orders, CreateOrderREST(o) \/ CreateOrderWS(o) PROVE CancelInv'
  <2>1. /\ known[o] = "idle" /\ UNCHANGED <<wsApi, wsUp, cancel, waiting>>
        /\ \A p \in Orders : p # o => known'[p] = known[p]
    BY <1>3 DEF CreateOrderREST, CreateOrderWS, links, Inv, TypeOK
  <2>2. o \notin waiting
    BY <1>0, <2>1 DEF Open
  <2> QED BY <1>0, <2>1, <2>2, CancelKept DEF Open
<1>4. ASSUME NEW o \in Orders,
             CreateOrderAckREST(o) \/ AddOrderAckWS(o) \/ GetOrderAck(o)
               \/ DropCopyOrderChange(o) \/ CreateOrderRejected(o)
      PROVE  CancelInv'
  <2>1. UNCHANGED <<wsApi, wsUp, cancel>>
    BY <1>4 DEF CreateOrderAckREST, AddOrderAckWS, GetOrderAck, DropCopyOrderChange,
       CreateOrderRejected, links
  <2>2. \/ UNCHANGED <<known, stale, waiting>>
        \/ Told({o}, "working") \/ Told({o}, "ended")
    BY <1>4 DEF CreateOrderAckREST, AddOrderAckWS, GetOrderAck, DropCopyOrderChange,
       CreateOrderRejected, Presumed
  <2>3. {o} \in SUBSET Orders
    OBVIOUS
  <2> QED BY <1>1, <1>2, <2>1, <2>2, <2>3 DEF server
<1>5. ASSUME NEW o \in Orders,
             CreateOrderFails(o) \/ GetOrderFails(o) \/ TurnsStale(o) \/ Take(o)
               \/ Refuse(o) \/ Ends(o) \/ ReadOrder(o)
      PROVE  CancelInv'
  BY <1>1, <1>5 DEF CreateOrderFails, GetOrderFails, TurnsStale, Take, Refuse, Ends,
     ReadOrder, links, server
<1>6. ASSUME NEW o \in Orders, CancelOrderREST(o) PROVE CancelInv'
  <2>1. /\ Open(o) /\ waiting' = waiting \cup {o} /\ UNCHANGED <<wsApi, wsUp, known, exch>>
        /\ cancel'[o] \in {"sent", "nameless"}
        /\ \A p \in Orders : p # o => cancel'[p] = cancel[p]
    BY <1>6 DEF CancelOrderREST, links, Inv, TypeOK
  <2> QED BY <1>0, <2>1 DEF CancelInv, SocketChosen, CancelBacked, Open
<1>7. ASSUME NEW o \in Orders, CancelOrderAckREST(o) \/ CancelOrderFails(o)
      PROVE  CancelInv'
  <2>1. /\ waiting' = waiting \ {o} \/ (waiting' = waiting /\ exch[o] = "ended")
        /\ UNCHANGED <<wsApi, wsUp, known, exch>>
        /\ cancel'[o] \in {"no", "orphan"}
        /\ \A p \in Orders : p # o => cancel'[p] = cancel[p]
    BY <1>7 DEF CancelOrderAckREST, CancelOrderFails, links, server, Inv, TypeOK,
                CancelInv, CancelBacked
  <2> QED BY <1>0, <2>1 DEF CancelInv, SocketChosen, CancelBacked, Open
<1>8. ASSUME NEW o \in Orders, CancelOrderWS(o) \/ CancelOrderAckWS(o)
      PROVE  CancelInv'
  <2>1. /\ wsApi /\ \A p \in waiting' : p \in waiting \/ (p = o /\ Open(o))
        /\ UNCHANGED <<wsApi, wsUp, known, exch>>
        /\ cancel'[o] \in {"no", "sent"}
        /\ \A p \in Orders : p # o => cancel'[p] = cancel[p]
    BY <1>8 DEF CancelOrderWS, CancelOrderAckWS, links, Inv, TypeOK, CancelInv,
                SocketChosen
  <2> QED BY <1>0, <2>1 DEF CancelInv, SocketChosen, CancelBacked, Open
<1>9. ASSUME NEW o \in Orders, ExecuteCancel(o) \/ CancelLost(o) PROVE CancelInv'
  <2>1. /\ UNCHANGED <<wsApi, wsUp, known, waiting>>
        /\ \/ cancel'[o] = "no" /\ cancel[o] = "orphan"
           \/ cancel'[o] = "done" /\ exch'[o] = "ended"
           \/ cancel'[o] = "refused"
        /\ \A p \in Orders : p # o => cancel'[p] = cancel[p]
    BY <1>9 DEF ExecuteCancel, CancelLost, Becomes, links, server, Inv, TypeOK
  <2> QED BY <1>0, <2>1 DEF CancelInv, SocketChosen, CancelBacked, Open
<1>10. ASSUME NEW s \in Symbols, SweepSteps(s) PROVE CancelInv'
  BY <1>1, <1>10 DEF SweepSteps, CancelAllOrders, CancelAllOrdersAck, ExecuteSweep,
     SweepLost, links, server
<1>11. CASE WSWelcome
  <2>1. UNCHANGED <<wsApi, cancel, known, waiting, exch>> /\ wsApi
    BY <1>11 DEF WSWelcome, server
  <2> QED BY <2>1 DEF CancelInv, SocketChosen, CancelBacked, Open
<1>12. CASE WSDisconnected
  <2>1. /\ wsApi /\ ~wsUp' /\ UNCHANGED <<wsApi, known, waiting, exch>>
        /\ \A o \in Orders : cancel'[o] # "done"
    BY <1>12 DEF WSDisconnected, server, CancelInv, SocketChosen
  <2> QED BY <2>1 DEF CancelInv, SocketChosen, CancelBacked, Open
<1>13. CASE GetOrdersAck
  <2>1. listed \in SUBSET Orders
    BY DEF Inv, TypeOK
  <2> QED BY <1>2, <1>13, <2>1 DEF GetOrdersAck, links
<1>14. CASE \/ RestConnected \/ RestDisconnected \/ GetOrders \/ ListOrders
            \/ GetOrdersFails \/ CheckStaleOrders \/ CheckRequestQueue
            \/ DropCopySubscribed \/ DropCopyDisconnected
  BY <1>1, <1>14 DEF RestConnected, RestDisconnected, GetOrders, ListOrders,
     GetOrdersFails, CheckStaleOrders, CheckRequestQueue, DropCopySubscribed,
     DropCopyDisconnected, links, server
<1>15. CASE UNCHANGED vars
  BY <1>1, <1>15 DEF vars, links, server
<1>16. CASE \E o \in Orders : OrderSteps(o)
  BY <1>3, <1>4, <1>5, <1>6, <1>7, <1>8, <1>9, <1>16 DEF OrderSteps
<1>17. CASE SessionSteps
  BY <1>11, <1>12, <1>13, <1>14, <1>17 DEF SessionSteps
<1> QED BY <1>10, <1>15, <1>16, <1>17 DEF Next

\* CancelOrder over REST never leaves the server waiting for nothing: until the
\* order ends there is a call whose answer or failure rejects or confirms it.
THEOREM CancelsBacked == Spec => []CancelBacked
<1>1. Init => CancelInv
  BY DEF Init, CancelInv, SocketChosen, CancelBacked
<1>2. CancelInv => CancelBacked
  BY DEF CancelInv
<1> QED BY <1>1, <1>2, CancelStep, Invariance, PTL DEF Spec
=============================================================================
