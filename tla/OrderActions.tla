---------------------------- MODULE OrderActions ----------------------------
(***************************************************************************)
(* The orders of one account: requests of the server sent over REST        *)
(* (OrderEntryREST) or over the web socket (OrderEntryWS, flag ws_api),    *)
(* their answers, the order events of DropCopy, and the snapshot and the   *)
(* queries by which the account recovers what a lost connection hid.       *)
(*                                                                         *)
(* AccountSync has the detail of the last two.  Here DropCopy subscribes,  *)
(* asks for the open orders and is ready; one kind of REST request is out  *)
(* at a time.  OrderPromise is what all of it is for.                      *)
(***************************************************************************)
EXTENDS Naturals, Sequences, FiniteSets

CONSTANTS
  Orders,     \* client order ids
  Symbols,    \* symbols they are for
  SymbolOf,
  MaxFaults   \* how often each fault of the environment may happen

FaultKinds == {"rest", "ws", "dropcopy", "error", "server"}

ASSUME SymbolAssumption == SymbolOf \in [Orders -> Symbols]
ASSUME FaultsAssumption == MaxFaults \in [FaultKinds -> Nat]

VARIABLES
  wsApi,     \* settings.ws_api
  restUp,    \* OrderEntryREST is READY
  wsUp,      \* OrderEntryWS has a welcome session
  copy,      \* DropCopy: down, orders (waiting for the snapshot), ready
  \* requests on their way
  create,    \* of each order; orphan: nobody waits for its answer any more
  cancel,    \* of each order; nameless: sent without an external order id
  sweep,     \* of each symbol: cancel all orders
  snap,      \* the open orders: none, asked, listed
  listed,    \* the answer to it
  mine,      \* whether it was asked in this session of DropCopy
  query,     \* of each order: details_stale_orders, get_order and its answer
  \* exchange
  exch,      \* the order at the exchange
  events,    \* order changes on their way to DropCopy
  \* server
  known,     \* status of the order
  stale,     \* whether get_all_stale_orders reports it
  waiting,   \* orders with a cancel that was not answered
  misled,    \* what it knew of an order when it was told too early that the order
             \* has ended
  budget     \* faults the environment may still inject

links == <<wsApi, restUp, wsUp>>
snapshot == <<snap, listed, mine>>
server == <<known, stale, waiting, misled>>
vars == <<links, copy, create, cancel, sweep, snapshot, query, exch, events,
          server, budget>>

Spend(f) == budget[f] > 0 /\ budget' = [budget EXCEPT ![f] = @ - 1]

Init ==
  /\ wsApi \in BOOLEAN /\ restUp = FALSE /\ wsUp = FALSE /\ copy = "down"
  /\ create = [o \in Orders |-> "no"] /\ cancel = [o \in Orders |-> "no"]
  /\ sweep = [s \in Symbols |-> "no"]
  /\ snap = "none" /\ listed = {} /\ mine = FALSE
  /\ query = [o \in Orders |-> "none"]
  /\ exch = [o \in Orders |-> "none"] /\ events = [o \in Orders |-> <<>>]
  /\ known = [o \in Orders |-> "idle"] /\ stale = [o \in Orders |-> FALSE]
  /\ waiting = {} /\ misled = [o \in Orders |-> "no"]
  /\ budget = MaxFaults

----------------------------------------------------------------------------
(* The server. *)

Open(o) == known[o] \in {"sent", "working"}

\* An update or a response about the orders S.  The server keeps an order that
\* has ended as it is.
Told(S, status) ==
  /\ known' = [o \in Orders |->
                IF o \in S /\ known[o] # "ended" THEN status ELSE known[o]]
  /\ stale' = [o \in Orders |-> stale[o] /\ o \notin S]
  /\ waiting' = IF status = "ended" THEN waiting \ S ELSE waiting

\* An open order nothing was heard of for a while.
TurnsStale(o) ==
  /\ Open(o) /\ ~stale[o]
  /\ stale' = [stale EXCEPT ![o] = TRUE]
  /\ UNCHANGED <<links, copy, create, cancel, sweep, snapshot, query, exch,
                 events, known, waiting, misled, budget>>

----------------------------------------------------------------------------
(* The exchange. *)

\* Undecided requests may still be executed, also when their connection is lost.
Undecided(o) == create[o] \in {"sent", "orphan"}

\* Ended, or not taken and not to be taken.
Over(o) == exch[o] = "ended" \/ (exch[o] = "none" /\ ~Undecided(o))

\* The server is told that the order has ended although nothing says so.
Presumed(o) ==
  /\ Told({o}, "ended")
  /\ misled' = IF Open(o) /\ ~Over(o) THEN [misled EXCEPT ![o] = known[o]]
                                     ELSE misled

\* What becomes of the orders S; DropCopy is told if it has subscribed.
Becomes(S, status) ==
  /\ exch' = [o \in Orders |-> IF o \in S THEN status ELSE exch[o]]
  /\ events' = [o \in Orders |-> IF o \in S /\ copy # "down"
                                 THEN Append(events[o], status) ELSE events[o]]

Take(o) ==
  /\ Undecided(o)
  /\ create' = [create EXCEPT ![o] = IF @ = "sent" THEN "took" ELSE "done"]
  /\ Becomes({o}, "live")
  /\ UNCHANGED <<links, copy, cancel, sweep, snapshot, query, server, budget>>

\* The exchange refuses, or never sees a request whose connection was lost.
Refuse(o) ==
  /\ Undecided(o)
  /\ create' = [create EXCEPT ![o] = IF @ = "sent" THEN "refused" ELSE "done"]
  /\ UNCHANGED <<links, copy, cancel, sweep, snapshot, query, exch, events,
                 server, budget>>

\* Filled, or cancelled by somebody else.
Ends(o) ==
  /\ exch[o] = "live" /\ Becomes({o}, "ended")
  /\ UNCHANGED <<links, copy, create, cancel, sweep, snapshot, query, server,
                 budget>>

\* Only a live order that is named can be cancelled.
ExecuteCancel(o) ==
  LET hit == cancel[o] # "nameless" /\ exch[o] = "live" IN
  /\ cancel[o] \in {"sent", "nameless", "orphan"}
  /\ Becomes(IF hit THEN {o} ELSE {}, "ended")
  /\ cancel' = [cancel EXCEPT ![o] = IF @ = "orphan" THEN "no"
                                     ELSE IF hit THEN "done" ELSE "refused"]
  /\ UNCHANGED <<links, copy, create, sweep, snapshot, query, server, budget>>

\* An orphan may also be lost.
CancelLost(o) ==
  /\ cancel[o] = "orphan" /\ cancel' = [cancel EXCEPT ![o] = "no"]
  /\ UNCHANGED <<links, copy, create, sweep, snapshot, query, exch, events,
                 server, budget>>

ExecuteSweep(s) ==
  /\ sweep[s] \in {"sent", "orphan"}
  /\ Becomes({o \in Orders : SymbolOf[o] = s /\ exch[o] = "live"}, "ended")
  /\ sweep' = [sweep EXCEPT ![s] = IF @ = "sent" THEN "done" ELSE "no"]
  /\ UNCHANGED <<links, copy, create, cancel, snapshot, query, server, budget>>

SweepLost(s) ==
  /\ sweep[s] = "orphan" /\ sweep' = [sweep EXCEPT ![s] = "no"]
  /\ UNCHANGED <<links, copy, create, cancel, snapshot, query, exch, events,
                 server, budget>>

ListOrders ==
  /\ snap = "asked" /\ snap' = "listed"
  /\ listed' = {o \in Orders : exch[o] = "live"}
  /\ UNCHANGED <<links, copy, create, cancel, sweep, mine, query, exch, events,
                 server, budget>>

\* A query may overtake the order it asks about.
ReadOrder(o) ==
  /\ query[o] = "asked"
  /\ query' = [query EXCEPT ![o] = IF exch[o] # "none" THEN exch[o]
                                   ELSE IF Undecided(o) THEN "early" ELSE "missing"]
  /\ UNCHANGED <<links, copy, create, cancel, sweep, snapshot, exch, events,
                 server, budget>>

----------------------------------------------------------------------------
(* OrderEntryREST: order requests. *)

\* Without a session NotReady is thrown, which ends the order for the server.
CreateOrderREST(o) ==
  /\ ~wsApi /\ known[o] = "idle"
  /\ known' = [known EXCEPT ![o] = IF restUp THEN "sent" ELSE "ended"]
  /\ create' = [create EXCEPT ![o] = IF restUp THEN "sent" ELSE "done"]
  /\ UNCHANGED <<links, copy, cancel, sweep, snapshot, query, exch, events,
                 stale, waiting, misled, budget>>

\* Success publishes nothing: "we only have the order-id, then what?"
CreateOrderAckREST(o) ==
  /\ ~wsApi /\ restUp /\ create[o] \in {"took", "refused"}
  /\ create' = [create EXCEPT ![o] = "done"]
  /\ IF create[o] = "refused" THEN Told({o}, "ended")
                               ELSE UNCHANGED <<known, stale, waiting>>
  /\ UNCHANGED <<links, copy, cancel, sweep, snapshot, query, exch, events,
                 misled, budget>>

\* What is left of a request when its answer will not come.
Orphaned(request) == IF request = "sent" THEN "orphan" ELSE "done"

\* A call fails: its connection is lost, or it takes too long.
CallFails == IF restUp THEN Spend("error") ELSE UNCHANGED budget

\* A 5xx answer is reported as REJECTED whatever became of the order.  An answer
\* that cannot be read is reported as ERROR, which the server may take for the end
\* as well; if it does not, it is CreateOrderFails.
CreateOrderRejected(o) ==
  /\ ~wsApi /\ restUp /\ Spend("server") /\ create[o] \in {"sent", "took", "refused"}
  /\ create' = [create EXCEPT ![o] = Orphaned(@)]
  /\ Presumed(o)
  /\ UNCHANGED <<links, copy, cancel, sweep, snapshot, query, exch, events>>

\* The response has the status of the network error, which is not final.
CreateOrderFails(o) ==
  /\ ~wsApi /\ CallFails /\ create[o] \in {"sent", "took", "refused"}
  /\ create' = [create EXCEPT ![o] = Orphaned(@)]
  /\ UNCHANGED <<links, copy, cancel, sweep, snapshot, query, exch, events,
                 server>>

\* The path ends with the external order id, which is empty until an update has
\* brought it.
CancelOrderREST(o) ==
  /\ ~wsApi /\ restUp /\ Open(o) /\ cancel[o] = "no"
  /\ cancel' = [cancel EXCEPT ![o] = IF known[o] = "working" THEN "sent"
                                     ELSE "nameless"]
  /\ waiting' = waiting \cup {o}
  /\ UNCHANGED <<links, copy, create, sweep, snapshot, query, exch, events,
                 known, stale, misled, budget>>

\* (Mutation of CancelOrderAckREST: no cancelled ids taken for success.)
CancelAckUnchecked(o) ==
  /\ ~wsApi /\ restUp /\ cancel[o] \in {"done", "refused"}
  /\ cancel' = [cancel EXCEPT ![o] = "no"]
  /\ UNCHANGED <<links, copy, create, sweep, snapshot, query, exch, events,
                 server, budget>>

\* (Mutation of CancelOrderAckREST: an order that cannot be cancelled is taken to
\* have ended.)
CancelAckEnds(o) ==
  /\ ~wsApi /\ restUp /\ cancel[o] \in {"done", "refused"}
  /\ cancel' = [cancel EXCEPT ![o] = "no"]
  /\ IF cancel[o] = "refused" THEN Told({o}, "ended")
                               ELSE UNCHANGED <<known, stale, waiting>>
  /\ UNCHANGED <<links, copy, create, sweep, snapshot, query, exch, events,
                 misled, budget>>

\* Success publishes nothing, an error or an empty list of cancelled ids is a
\* rejection.
CancelOrderAckREST(o) ==
  /\ ~wsApi /\ restUp /\ cancel[o] \in {"done", "refused"}
  /\ cancel' = [cancel EXCEPT ![o] = "no"]
  /\ waiting' = IF cancel[o] = "refused" THEN waiting \ {o} ELSE waiting
  /\ UNCHANGED <<links, copy, create, sweep, snapshot, query, exch, events,
                 known, stale, misled, budget>>

\* A network error or a 5xx answer rejects the cancel.
CancelOrderFails(o) ==
  /\ ~wsApi /\ CallFails /\ cancel[o] \in {"sent", "nameless", "done", "refused"}
  /\ cancel' = [cancel EXCEPT ![o] = IF @ = "sent" THEN "orphan" ELSE "no"]
  /\ waiting' = waiting \ {o}
  /\ UNCHANGED <<links, copy, create, sweep, snapshot, query, exch, events,
                 known, stale, misled>>

\* Over REST also when orders are sent over the web socket: one call for each
\* symbol with open orders.
CancelAllOrders(s) ==
  /\ restUp /\ sweep[s] = "no"
  /\ \E o \in Orders : SymbolOf[o] = s /\ Open(o)
  /\ sweep' = [sweep EXCEPT ![s] = "sent"]
  /\ UNCHANGED <<links, copy, create, cancel, snapshot, query, exch, events,
                 server, budget>>

\* Only an error is acknowledged, and changes no order.
CancelAllOrdersAck(s) ==
  /\ \/ restUp /\ sweep[s] = "done" /\ UNCHANGED budget
     \/ CallFails /\ sweep[s] \in {"sent", "done"}
  /\ sweep' = [sweep EXCEPT ![s] = IF @ = "sent" THEN "orphan" ELSE "no"]
  /\ UNCHANGED <<links, copy, create, cancel, snapshot, query, exch, events,
                 server>>

----------------------------------------------------------------------------
(* OrderEntryWS: order requests. *)

\* The socket is written to whether or not the session was welcome.
CreateOrderWS(o) ==
  /\ wsApi /\ known[o] = "idle"
  /\ known' = [known EXCEPT ![o] = "sent"]
  /\ create' = [create EXCEPT ![o] = IF wsUp THEN "sent" ELSE "done"]
  /\ UNCHANGED <<links, copy, cancel, sweep, snapshot, query, exch, events,
                 stale, waiting, misled, budget>>

\* WSAddOrderAck is accepted and has the external order id, WSError rejected.
AddOrderAckWS(o) ==
  /\ wsUp /\ create[o] \in {"took", "refused"}
  /\ create' = [create EXCEPT ![o] = "done"]
  /\ Told({o}, IF create[o] = "took" THEN "working" ELSE "ended")
  /\ UNCHANGED <<links, copy, cancel, sweep, snapshot, query, exch, events,
                 misled, budget>>

\* Cancels name the order by its client order id.
CancelOrderWS(o) ==
  /\ wsApi /\ Open(o) /\ cancel[o] = "no"
  /\ cancel' = [cancel EXCEPT ![o] = IF wsUp THEN "sent" ELSE "no"]
  /\ waiting' = waiting \cup {o}
  /\ UNCHANGED <<links, copy, create, sweep, snapshot, query, exch, events,
                 known, stale, misled, budget>>

CancelOrderAckWS(o) ==
  /\ wsUp /\ cancel[o] \in {"done", "refused"}
  /\ cancel' = [cancel EXCEPT ![o] = "no"]
  /\ waiting' = waiting \ {o}
  /\ UNCHANGED <<links, copy, create, sweep, snapshot, query, exch, events,
                 known, stale, misled, budget>>

WSWelcome ==
  /\ wsApi /\ ~wsUp /\ wsUp' = TRUE
  /\ UNCHANGED <<wsApi, restUp, copy, create, cancel, sweep, snapshot, query,
                 exch, events, server, budget>>

\* Nothing is reported about the requests in flight.
WSDisconnected ==
  /\ wsUp /\ Spend("ws") /\ wsUp' = FALSE
  /\ create' = [o \in Orders |-> IF create[o] \in {"sent", "took", "refused"}
                                 THEN Orphaned(create[o]) ELSE create[o]]
  /\ cancel' = [o \in Orders |-> IF cancel[o] \in {"sent", "orphan"}
                                 THEN "orphan" ELSE "no"]
  /\ UNCHANGED <<wsApi, restUp, copy, sweep, snapshot, query, exch, events,
                 server>>

----------------------------------------------------------------------------
(* Connection of OrderEntryREST, snapshot and queries. *)

\* The calls of a lost connection have failed before it is back.
RestConnected ==
  /\ ~restUp /\ restUp' = TRUE
  /\ snap = "none" /\ \A s \in Symbols : sweep[s] \notin {"sent", "done"}
  /\ \A o \in Orders :
       /\ query[o] \in {"none", "wanted"}
       /\ ~wsApi => /\ create[o] \notin {"sent", "took", "refused"}
                    /\ cancel[o] \in {"no", "orphan"}
  /\ UNCHANGED <<wsApi, wsUp, copy, create, cancel, sweep, snapshot, query,
                 exch, events, server, budget>>

RestDisconnected ==
  /\ restUp /\ Spend("rest") /\ restUp' = FALSE
  /\ UNCHANGED <<wsApi, wsUp, copy, create, cancel, sweep, snapshot, query,
                 exch, events, server>>

Queried == {o \in Orders : query[o] \notin {"none", "wanted"}}

GetOrders ==
  /\ restUp /\ copy = "orders" /\ snap = "none" /\ Queried = {}
  /\ snap' = "asked" /\ mine' = TRUE
  /\ UNCHANGED <<links, copy, create, cancel, sweep, listed, query, exch, events,
                 server, budget>>

\* check_stale_orders: what the server reports is noted.
Noted(st) == [o \in Orders |-> IF st[o] /\ query[o] = "none" THEN "wanted"
                               ELSE query[o]]

\* The request is committed: DropCopy, if it waits for this one, looks for stale
\* orders and is done.
Committed(st) ==
  /\ snap' = "none" /\ listed' = {} /\ mine' = FALSE
  /\ IF mine /\ copy = "orders"
     THEN copy' = "ready" /\ query' = Noted(st)
     ELSE UNCHANGED <<copy, query>>

GetOrdersAck ==
  /\ snap = "listed" /\ restUp
  /\ Told(listed, "working")
  /\ Committed(stale')
  /\ UNCHANGED <<links, create, cancel, sweep, exch, events, misled, budget>>

\* A failed snapshot is committed all the same.
GetOrdersFails ==
  /\ snap # "none" /\ CallFails
  /\ Committed(stale)
  /\ UNCHANGED <<links, create, cancel, sweep, exch, events, server>>

CheckStaleOrders ==
  /\ copy = "ready" /\ query' = Noted(stale) /\ query' # query
  /\ UNCHANGED <<links, copy, create, cancel, sweep, snapshot, exch, events,
                 server, budget>>

\* get_order for all orders noted.
CheckRequestQueue ==
  /\ restUp /\ snap = "none" /\ Queried = {}
  /\ \E o \in Orders : query[o] = "wanted"
  /\ query' = [o \in Orders |-> IF query[o] = "wanted" THEN "asked" ELSE "none"]
  /\ UNCHANGED <<links, copy, create, cancel, sweep, snapshot, exch, events,
                 server, budget>>

Answers == {"live", "ended", "missing", "early"}

\* (Mutation of GetOrderAck: an order the exchange does not know is skipped.)
GetOrderAckKnownOnly(o) ==
  /\ restUp /\ query[o] \in Answers
  /\ query' = [query EXCEPT ![o] = "none"]
  /\ IF query[o] \in {"missing", "early"} THEN UNCHANGED <<known, stale, waiting>>
     ELSE Told({o}, IF query[o] = "live" THEN "working" ELSE "ended")
  /\ UNCHANGED <<links, copy, create, cancel, sweep, snapshot, exch, events,
                 misled, budget>>

\* (Mutation of GetOrderAck: the exchange's status is passed on as it is.)
GetOrderAckUnmapped(o) ==
  /\ restUp /\ query[o] \in Answers
  /\ query' = [query EXCEPT ![o] = "none"]
  /\ Told({o}, query[o])
  /\ UNCHANGED <<links, copy, create, cancel, sweep, snapshot, exch, events,
                 misled, budget>>

\* An order the exchange does not know is reported as rejected, also if it did
\* not know it yet.
GetOrderAck(o) ==
  /\ restUp /\ query[o] \in Answers
  /\ query' = [query EXCEPT ![o] = "none"]
  /\ IF query[o] = "early" THEN Presumed(o)
     ELSE /\ Told({o}, IF query[o] = "live" THEN "working" ELSE "ended")
          /\ UNCHANGED misled
  /\ UNCHANGED <<links, copy, create, cancel, sweep, snapshot, exch, events,
                 budget>>

GetOrderFails(o) ==
  /\ o \in Queried /\ CallFails
  /\ query' = [query EXCEPT ![o] = "none"]
  /\ UNCHANGED <<links, copy, create, cancel, sweep, snapshot, exch, events,
                 server>>

----------------------------------------------------------------------------
(* DropCopy. *)

DropCopySubscribed ==
  /\ copy = "down" /\ copy' = "orders"
  /\ UNCHANGED <<links, create, cancel, sweep, snapshot, query, exch, events,
                 server, budget>>

DropCopyDisconnected ==
  /\ copy # "down" /\ Spend("dropcopy")
  /\ copy' = "down" /\ mine' = FALSE
  /\ events' = [o \in Orders |-> <<>>]
  /\ UNCHANGED <<links, create, cancel, sweep, snap, listed, query, exch, server>>

DropCopyOrderChange(o) ==
  /\ events[o] # <<>>
  /\ events' = [events EXCEPT ![o] = Tail(@)]
  /\ Told({o}, IF Head(events[o]) = "live" THEN "working" ELSE "ended")
  /\ UNCHANGED <<links, copy, create, cancel, sweep, snapshot, query, exch,
                 misled, budget>>

----------------------------------------------------------------------------
OrderSteps(o) ==
  \/ CreateOrderREST(o) \/ CreateOrderAckREST(o) \/ CreateOrderFails(o)
  \/ CreateOrderRejected(o)
  \/ CancelOrderREST(o) \/ CancelOrderAckREST(o) \/ CancelOrderFails(o)
  \/ CreateOrderWS(o) \/ AddOrderAckWS(o)
  \/ CancelOrderWS(o) \/ CancelOrderAckWS(o)
  \/ GetOrderAck(o) \/ GetOrderFails(o) \/ DropCopyOrderChange(o)
  \/ TurnsStale(o)
  \/ Take(o) \/ Refuse(o) \/ Ends(o) \/ ReadOrder(o)
  \/ ExecuteCancel(o) \/ CancelLost(o)

SweepSteps(s) ==
  \/ CancelAllOrders(s) \/ CancelAllOrdersAck(s) \/ ExecuteSweep(s)
  \/ SweepLost(s)

SessionSteps ==
  \/ WSWelcome \/ WSDisconnected \/ RestConnected \/ RestDisconnected
  \/ GetOrders \/ ListOrders \/ GetOrdersAck \/ GetOrdersFails
  \/ CheckStaleOrders \/ CheckRequestQueue
  \/ DropCopySubscribed \/ DropCopyDisconnected

Next == \/ \E o \in Orders : OrderSteps(o)
        \/ \E s \in Symbols : SweepSteps(s)
        \/ SessionSteps

Spec == Init /\ [][Next]_vars

\* Connections are tried again, calls complete, the exchange decides and answers,
\* the timer ticks, and open orders nothing is heard of turn stale.
Fairness ==
  /\ WF_vars(RestConnected) /\ WF_vars(DropCopySubscribed)
  /\ WF_vars(GetOrders) /\ WF_vars(ListOrders) /\ WF_vars(GetOrdersAck)
  /\ WF_vars(~restUp /\ GetOrdersFails)
  /\ WF_vars(CheckStaleOrders) /\ WF_vars(CheckRequestQueue)
  /\ \A o \in Orders :
       /\ WF_vars(Take(o) \/ Refuse(o)) /\ WF_vars(ExecuteCancel(o))
       /\ WF_vars(~restUp /\ CreateOrderFails(o))
       /\ WF_vars(~restUp /\ CancelOrderFails(o))
       /\ WF_vars(CancelOrderAckREST(o))
       /\ WF_vars(ReadOrder(o)) /\ WF_vars(GetOrderAck(o))
       /\ WF_vars(~restUp /\ GetOrderFails(o))
       /\ WF_vars(TurnsStale(o))
  /\ \A s \in Symbols : WF_vars(~restUp /\ CancelAllOrdersAck(s))

FairSpec == Spec /\ Fairness

----------------------------------------------------------------------------
(* Safety. *)

TypeOK ==
  /\ wsApi \in BOOLEAN /\ restUp \in BOOLEAN /\ wsUp \in BOOLEAN
  /\ copy \in {"down", "orders", "ready"}
  /\ create \in [Orders -> {"no", "sent", "took", "refused", "orphan", "done"}]
  /\ cancel \in [Orders -> {"no", "sent", "nameless", "orphan", "done", "refused"}]
  /\ sweep \in [Symbols -> {"no", "sent", "orphan", "done"}]
  /\ snap \in {"none", "asked", "listed"} /\ listed \subseteq Orders
  /\ mine \in BOOLEAN
  /\ query \in [Orders -> {"none", "wanted", "asked"} \cup Answers]
  /\ exch \in [Orders -> {"none", "live", "ended"}]
  /\ events \in [Orders -> Seq({"live", "ended"})]
  /\ known \in [Orders -> {"idle", "sent", "working", "ended"}]
  /\ stale \in [Orders -> BOOLEAN] /\ waiting \subseteq Orders
  /\ misled \in [Orders -> {"no", "sent", "working"}]
  /\ budget \in [FaultKinds -> Nat]

\* What became of an order, for OrderPromise.
Fate == [o \in Orders |->
          IF known[o] = "idle" THEN "idle"
          ELSE IF exch[o] # "none" THEN exch[o]
          ELSE IF Undecided(o) THEN "out" ELSE "never"]

\* What the server was told of an order, short of an end that was presumed.
Judged == [o \in Orders |-> IF misled[o] = "no" THEN known[o] ELSE misled[o]]

P == INSTANCE OrderPromise WITH fate <- Fate, told <- Judged
K == INSTANCE OrderPromise WITH fate <- Fate, told <- known

\* The server is told only what is true of an order or was: none that lives, or
\* may yet live, is reported as rejected or gone.  The exceptions are a create
\* answered with a server error and a query that overtook the create: what they
\* presume may be wrong.
KeepsPromise == P!Spec

----------------------------------------------------------------------------
(* Liveness. *)

\* The server learns of each order that is over, whatever was lost on the way:
\* answers, events, snapshots or queries.
FatesLearned == K!Told

\* Over REST each cancel is answered, or its order ends.
CancelsResolved ==
  \A o \in Orders : (~wsApi /\ o \in waiting) ~> (o \notin waiting)
=============================================================================
