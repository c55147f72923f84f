---------------------------- MODULE AccountSync ----------------------------
(***************************************************************************)
(* How the gateway keeps one account synchronised with the exchange.       *)
(*                                                                         *)
(* Three objects of the event loop co-operate.  OrderEntryREST downloads   *)
(* the private token and, on every timer tick, sends at most one of the    *)
(* requests that are pending on the account's Request object.  DropCopy    *)
(* owns the private web socket: after the exchange's welcome it walks      *)
(* through a staged download (subscribe to a topic, then request the       *)
(* matching REST snapshot), looks for stale orders, and asks for a new     *)
(* token when the exchange says that the token has expired.  Request is    *)
(* the board they share: which requests are pending, sent or answered, and *)
(* the stale orders whose details must be queried.                         *)
(*                                                                         *)
(* Every callback runs to completion on the one thread of the event loop,  *)
(* so an action is one whole callback.  Timer is dispatched by Controller  *)
(* to OrderEntryREST first and to DropCopy second, in one callback.        *)
(*                                                                         *)
(* External code (web::rest::Client, web::socket::Client, core::limit,     *)
(* core::Download2, the order management system behind server::Dispatcher) *)
(* is modelled from the way this code uses it; the README lists what is    *)
(* assumed of each.                                                        *)
(***************************************************************************)
EXTENDS Naturals, FiniteSets

CONSTANTS
  Orders,           \* (user_id, order_id) keys known to the order management system
  TradesLookback,   \* whether flag download.trades_lookback is non-zero
  SimulateExpired,  \* whether flag misc.experimental_simulate_expired_token is set
  OmsForgets,       \* whether find_order may miss an order reported as stale
  MaxFaults         \* how often each fault of the environment may happen

FaultKinds == {"rest", "stream", "expiry", "stale", "error", "reject"}

\* The members of Request, in the order in which check_request_queue polls them.
Kinds == {"private_token", "balances", "positions", "open_orders",
          "stale_orders", "trades"}

Rank == [private_token |-> 1, balances |-> 2, positions |-> 3,
         open_orders |-> 4, stale_orders |-> 5, trades |-> 6]

\* A REST call is named by its request, a get_order call by its order.
Calls == (Kinds \ {"stale_orders"}) \cup Orders

ASSUME OrdersAssumption == IsFiniteSet(Orders) /\ Orders \cap Kinds = {}
ASSUME FlagsAssumption == /\ TradesLookback \in BOOLEAN
                          /\ SimulateExpired \in BOOLEAN
                          /\ OmsForgets \in BOOLEAN
ASSUME FaultsAssumption == MaxFaults \in [FaultKinds -> Nat]

VARIABLES
  \* OrderEntryREST
  restUp,       \* the connection is established
  restStatus,   \* connection_status_
  restState,    \* download_.state()
  hasToken,     \* has_downloaded_private_token_
  counter,      \* download_stale_orders_counter_
  live,         \* calls sent on the current connection and not answered
  lost,         \* calls of a lost connection whose error is not yet reported
  \* Request
  pending,      \* requested, not yet sent
  sent,         \* sent, not yet committed
  response,     \* committed, not yet seen by has_response
  details,      \* details_stale_orders
  \* DropCopy
  socket,       \* "absent" until the first token creates the object
  closing,      \* the socket was told to close (close, suspend_for)
  suspended,    \* reconnecting is suspended (suspend_for)
  status,       \* connection_status_
  state,        \* download_.state()
  ready,        \* ready_
  welcome,      \* welcome_
  logon,        \* logon_timeout_ is set
  subscribing,  \* a subscribe message awaits its ack
  query,        \* query_ : "none" when empty
  wire,         \* the token the current connection was opened with
  simulated,    \* next_simulated_disconnect_ is set
  \* order management system, process, environment
  stale,        \* orders that get_all_stale_orders reports
  crash,        \* why log::fatal stopped the process, "no" if it did not
  budget,       \* faults the environment may still inject
  \* history
  fresh         \* snapshots sent after this session's subscription

restVars  == <<restUp, restStatus, restState, hasToken>>
callVars  == <<counter, live, lost>>
boardVars == <<pending, sent, response, details>>
linkVars  == <<socket, closing, suspended, wire, logon, simulated>>
dcVars    == <<status, state, ready, welcome, subscribing, query>>
vars == <<restVars, callVars, boardVars, linkVars, dcVars,
          stale, crash, budget, fresh>>

----------------------------------------------------------------------------
(* The stages of DropCopy's download. *)

Subs == {"SUBSCRIBE_BALANCES", "SUBSCRIBE_POSITIONS", "SUBSCRIBE_ORDERS"}
Gets == {"GET_BALANCES", "GET_POSITIONS", "GET_OPEN_ORDERS",
         "GET_STALE_ORDERS", "GET_TRADES"}
Stages == Subs \cup Gets \cup {"UNDEFINED", "DONE"}

\* The request a GET stage makes and whose response completes it.
Asks == [GET_BALANCES |-> "balances", GET_POSITIONS |-> "positions",
         GET_OPEN_ORDERS |-> "open_orders",
         GET_STALE_ORDERS |-> "stale_orders", GET_TRADES |-> "trades"]

\* The stage after s: the callback skips GET_STALE_ORDERS when no stale order
\* is known (d) and GET_TRADES when there is no lookback.
Follows == [UNDEFINED           |-> "SUBSCRIBE_BALANCES",
            SUBSCRIBE_BALANCES  |-> "GET_BALANCES",
            GET_BALANCES        |-> "SUBSCRIBE_POSITIONS",
            SUBSCRIBE_POSITIONS |-> "GET_POSITIONS",
            GET_POSITIONS       |-> "SUBSCRIBE_ORDERS",
            SUBSCRIBE_ORDERS    |-> "GET_OPEN_ORDERS",
            GET_TRADES          |-> "DONE",
            DONE                |-> "DONE"]

NextStage(s, d) ==
  IF s \notin {"GET_OPEN_ORDERS", "GET_STALE_ORDERS"} THEN Follows[s]
  ELSE IF s = "GET_OPEN_ORDERS" /\ d # {} THEN "GET_STALE_ORDERS"
  ELSE IF TradesLookback THEN "GET_TRADES" ELSE "DONE"

\* (Mutation of Asked: the stage itself is noted.)
AskedForStage(t) == IF t \in Gets THEN {t} ELSE {}

\* The request made on entering stage t.
Asked(t) == IF t \in Gets THEN {Asks[t]} ELSE {}

\* DropCopy is moved to stage t: the download callback publishes the status,
\* sends the subscription and, at the end, makes the stream ready.
EnterStage(t) ==
  /\ state' = t
  /\ status' = IF t = "DONE" THEN "READY" ELSE "DOWNLOADING"
  /\ ready' = (ready \/ t = "DONE")
  /\ subscribing' = (t \in Subs)

----------------------------------------------------------------------------
Spend(f) == budget[f] > 0 /\ budget' = [budget EXCEPT ![f] = @ - 1]

Outstanding == live \cup lost

Init ==
  /\ restUp = FALSE /\ restStatus = "UNDEFINED" /\ restState = "UNDEFINED"
  /\ hasToken = FALSE /\ counter = 0 /\ live = {} /\ lost = {}
  /\ pending = {} /\ sent = {} /\ response = {} /\ details = {}
  /\ socket = "absent" /\ closing = FALSE /\ suspended = FALSE
  /\ status = "UNDEFINED" /\ state = "UNDEFINED" /\ ready = FALSE
  /\ welcome = FALSE /\ logon = FALSE /\ subscribing = FALSE
  /\ query = "none" /\ wire = "none" /\ simulated = FALSE
  /\ stale = {} /\ crash = "no" /\ budget = MaxFaults /\ fresh = {}

----------------------------------------------------------------------------
(* OrderEntryREST: connection and private token. *)

\* download_.begin: get_private_token unless it has been downloaded before.
RestConnected ==
  /\ ~restUp /\ Outstanding = {}
  /\ restUp' = TRUE
  /\ IF hasToken
     THEN restState' = "DONE" /\ restStatus' = "READY" /\ UNCHANGED live
     ELSE /\ restState' = "PRIVATE_TOKEN" /\ restStatus' = "DOWNLOADING"
          /\ live' = {"private_token"}
  /\ UNCHANGED <<hasToken, counter, lost, boardVars, linkVars, dcVars,
                 stale, crash, budget, fresh>>

\* The client reports a network error for every call of the lost connection.
RestDisconnected ==
  /\ restUp /\ Spend("rest")
  /\ restUp' = FALSE /\ restState' = "UNDEFINED" /\ restStatus' = "DISCONNECTED"
  /\ lost' = lost \cup live /\ live' = {}
  /\ UNCHANGED <<hasToken, counter, boardVars, linkVars, dcVars,
                 stale, crash, fresh>>

\* The call c completes: with an answer, or with an error (a lost connection,
\* a timeout, a server error, a body that cannot be parsed, a refusal).
Answered(c) == c \in live /\ live' = live \ {c} /\ UNCHANGED <<lost, budget>>
Failed(c) ==
  \/ c \in live /\ live' = live \ {c} /\ UNCHANGED lost /\ Spend("error")
  \/ c \in lost /\ lost' = lost \ {c} /\ UNCHANGED <<live, budget>>

\* core::limit::Request::commit
Commit(k) == sent' = sent \ {k} /\ response' = response \cup {k}

\* A token creates DropCopy (Controller) or replaces its query_ and resumes it.
GetPrivateTokenAckOk ==
  /\ Answered("private_token")
  /\ IF socket = "absent"
     THEN socket' = "down" /\ UNCHANGED suspended
     ELSE suspended' = FALSE /\ UNCHANGED socket
  /\ query' = "valid" /\ hasToken' = TRUE
  /\ IF restState = "PRIVATE_TOKEN"
     THEN restState' = "DONE" /\ restStatus' = "READY"
     ELSE UNCHANGED <<restState, restStatus>>
  /\ Commit("private_token")
  /\ UNCHANGED <<restUp, counter, pending, details, closing, wire, logon,
                 simulated, status, state, ready, welcome, subscribing,
                 stale, crash, fresh>>

\* (Mutation of GetPrivateTokenAckError: the initial download is not retried.)
TokenErrorNotRetried ==
  /\ Failed("private_token")
  /\ Commit("private_token")
  /\ UNCHANGED <<restVars, counter, pending, details, linkVars, dcVars,
                 stale, crash, fresh>>

\* An error is retried only while the initial download is in progress.
GetPrivateTokenAckError ==
  /\ \/ /\ restState = "PRIVATE_TOKEN" /\ "private_token" \in live
        /\ Spend("error") /\ UNCHANGED <<live, lost>>
     \/ restState # "PRIVATE_TOKEN" /\ Failed("private_token")
  /\ Commit("private_token")
  /\ UNCHANGED <<restVars, counter, pending, details, linkVars, dcVars,
                 stale, crash, fresh>>

\* A 4xx response goes to handle_success, which is fatal for any other code.
GetPrivateTokenAckRejected ==
  /\ "private_token" \in live /\ Spend("reject")
  /\ crash' = "answer"
  /\ UNCHANGED <<restVars, callVars, boardVars, linkVars, dcVars, stale, fresh>>

\* A call that the exchange redirects is fatal, whichever it is (process_response).
Redirected ==
  /\ live # {} /\ Spend("reject")
  /\ crash' = "answer"
  /\ UNCHANGED <<restVars, callVars, boardVars, linkVars, dcVars, stale, fresh>>

----------------------------------------------------------------------------
(* OrderEntryREST: snapshots.  A failed call is committed like a good one. *)

SnapshotAck(k) ==
  /\ Commit(k)
  /\ UNCHANGED <<restVars, counter, pending, details, linkVars, dcVars,
                 crash, fresh>>

\* (Mutation of GetAccountAck: an error returns before the commit.)
AccountErrorNotCommitted ==
  \/ Answered("balances") /\ SnapshotAck("balances") /\ UNCHANGED stale
  \/ /\ Failed("balances")
     /\ UNCHANGED <<restVars, counter, boardVars, linkVars, dcVars,
                    stale, crash, fresh>>

GetAccountAck ==
  /\ Answered("balances") \/ Failed("balances")
  /\ SnapshotAck("balances") /\ UNCHANGED stale

\* (Mutation of GetPositionsAck: an error lets the request go without a response.)
PositionsErrorReleases ==
  \/ Answered("positions") /\ SnapshotAck("positions") /\ UNCHANGED stale
  \/ /\ Failed("positions") /\ sent' = sent \ {"positions"}
     /\ UNCHANGED <<restVars, counter, pending, response, details, linkVars,
                    dcVars, stale, crash, fresh>>

GetPositionsAck ==
  /\ Answered("positions") \/ Failed("positions")
  /\ SnapshotAck("positions") /\ UNCHANGED stale

\* The orders the exchange still lists as active are no longer stale.
GetOrdersAck ==
  /\ \/ Answered("open_orders") /\ stale' \in SUBSET stale
     \/ Failed("open_orders") /\ UNCHANGED stale
  /\ SnapshotAck("open_orders")

GetFillsAck ==
  /\ Answered("trades") \/ Failed("trades")
  /\ SnapshotAck("trades") /\ UNCHANGED stale

\* The last answer of a batch of get_order calls commits the batch.
GetOrderAck(o) ==
  /\ \/ Answered(o) /\ stale' = stale \ {o}
     \/ Failed(o) /\ UNCHANGED stale
  /\ IF counter = 0
     THEN crash' = "counter" /\ UNCHANGED <<counter, sent, response>>
     ELSE /\ counter' = counter - 1 /\ UNCHANGED crash
          /\ IF counter' = 0 THEN Commit("stale_orders")
             ELSE UNCHANGED <<sent, response>>
  /\ UNCHANGED <<restVars, pending, details, linkVars, dcVars, fresh>>

----------------------------------------------------------------------------
(* The timer tick. *)

\* (Mutation of CanSend: Request::ready is not consulted.)
CanSendAlways(k) ==
  /\ restStatus = "READY"
  /\ k \in pending
  /\ \A j \in pending : Rank[k] <= Rank[j]

\* The request that check_request_queue sends: the first one pending, provided
\* that no request is in flight (Request::ready) and the rate limiter agrees.
CanSend(k) ==
  /\ restStatus = "READY"
  /\ sent = {}
  /\ k \in pending
  /\ \A j \in pending : Rank[k] <= Rank[j]

\* The orders of the batch that find_order knows.
Batches == IF OmsForgets THEN SUBSET details ELSE {details}

\* The snapshots that are requested after subscribing to their topic, and
\* whether this session has got that far.
Snapshots == {"balances", "positions", "open_orders"}
Subscribed(k) ==
  /\ state \in Stages \ {"UNDEFINED", "SUBSCRIBE_BALANCES"}
  /\ k = "positions" =>
       state \notin {"GET_BALANCES", "SUBSCRIBE_POSITIONS"}
  /\ k = "open_orders" =>
       state \notin {"GET_BALANCES", "SUBSCRIBE_POSITIONS", "GET_POSITIONS",
                     "SUBSCRIBE_ORDERS"}

\* OrderEntryREST::check_request_queue sends k; the caller updates the board.
RestSend(k, batch) ==
  /\ CanSend(k)
  /\ IF k = "stale_orders"
     THEN /\ batch \in Batches
          /\ live' = live \cup batch
          /\ counter' = counter + Cardinality(batch)
     ELSE /\ batch = {}
          /\ live' = live \cup {k}
          /\ UNCHANGED counter
  /\ sent' = sent \cup {k}
  /\ fresh' = IF k \in Snapshots /\ Subscribed(k) THEN fresh \cup {k} ELSE fresh
  /\ UNCHANGED lost

RestIdle == UNCHANGED <<callVars, sent, fresh>>

\* DropCopy's part of the tick once its socket is ready, on the board (p, r, d)
\* that OrderEntryREST left: check_request_queue completes the current stage
\* if it was answered, check_stale_orders looks for stale orders when the
\* stream is ready and it is due, then the simulated expiry is considered.
Completes(r) == state \in Gets /\ Asks[state] \in r
LeftOver(r, d) == Completes(r) /\ state = "GET_STALE_ORDERS" /\ d # {}

\* (Mutation of Noted: the stale orders are noted after the download moved on.)
NotedLate(r, d) == d

\* The stale orders are noted before the download is updated.
Noted(r, d) ==
  IF Completes(r) /\ state = "GET_OPEN_ORDERS" THEN d \cup stale ELSE d

\* (Mutation of Scans: the test of ready() is inverted.)
ScansWhileDownloading(due, t) == due /\ t # "DONE"

\* check_stale_orders: the stream is ready and the next check is due.
Scans(due, t) == due /\ t = "DONE"

DropCopyPoll(p, r, d, due, expire) ==
  LET d1 == Noted(r, d)
      t  == IF Completes(r) THEN NextStage(state, d1) ELSE state
      scan  == Scans(due, t)
      found == IF scan /\ ~(stale \subseteq d1) THEN {"stale_orders"} ELSE {}
      asked == IF Completes(r) THEN Asked(t) ELSE {}
      renew == IF expire /\ simulated /\ query # "none"
               THEN {"private_token"} ELSE {}
      seen  == IF Completes(r) THEN {Asks[state]} ELSE {}
  IN /\ details' = IF scan THEN d1 \cup stale ELSE d1
     /\ pending' = p \cup asked \cup found \cup renew
     /\ response' = (r \ (seen \cup {"private_token"})) \ (asked \cup found)
     /\ IF Completes(r) THEN EnterStage(t)
        ELSE UNCHANGED <<state, status, ready, subscribing>>
     /\ query' = IF renew = {} THEN query ELSE "none"
     /\ suspended' = (suspended \/ renew # {})
     /\ closing' = (closing \/ renew # {})
     /\ simulated' = (simulated /\ ~expire)
     /\ UNCHANGED <<socket, wire, logon, welcome, crash, budget>>

\* Until the socket is ready the tick closes it when the welcome is overdue (a
\* fault of the stream: the connection takes longer than ws.request_timeout).
DropCopyWait(p, r, d, expire) ==
  LET renew == expire /\ simulated /\ query # "none" IN
  /\ details' = d
  /\ pending' = IF renew THEN p \cup {"private_token"} ELSE p
  /\ response' = r \ {"private_token"}
  /\ query' = IF renew THEN "none" ELSE query
  /\ suspended' = (suspended \/ renew)
  /\ \/ closing' = (closing \/ (renew /\ logon)) /\ UNCHANGED budget
     \/ logon /\ ~closing /\ closing' = TRUE /\ Spend("stream")
  /\ simulated' = (simulated /\ ~expire)
  /\ UNCHANGED <<socket, wire, logon, status, state, ready, welcome,
                 subscribing, crash>>

\* No token has created DropCopy yet.
DropCopyAbsent(p, r, d) ==
  /\ pending' = p /\ response' = r /\ details' = d
  /\ UNCHANGED <<linkVars, dcVars, crash, budget>>

\* The answers to a batch are in but stale orders are left: log::fatal.
DropCopyFatal(p, r, d) ==
  /\ pending' = p /\ response' = r /\ details' = d /\ crash' = "leftover"
  /\ UNCHANGED <<linkVars, dcVars, budget>>

DropCopyTimer(p, r, d, due, expire) ==
  \/ socket = "absent" /\ DropCopyAbsent(p, r, d)
  \/ socket \in {"down", "connected"} /\ DropCopyWait(p, r, d, expire)
  \/ socket = "ready" /\ LeftOver(r, d) /\ DropCopyFatal(p, r, d)
  \/ socket = "ready" /\ ~LeftOver(r, d) /\ DropCopyPoll(p, r, d, due, expire)

\* (Mutation of TimerSend: details_stale_orders is not cleared.)
TimerSendKeepsDetails(k, batch, due, expire) ==
  /\ RestSend(k, batch)
  /\ DropCopyTimer(pending \ {k}, response, details, due, expire)
  /\ UNCHANGED <<restVars, stale>>

TimerSend(k, batch, due, expire) ==
  /\ RestSend(k, batch)
  /\ DropCopyTimer(pending \ {k}, response,
                   IF k = "stale_orders" THEN {} ELSE details, due, expire)
  /\ UNCHANGED <<restVars, stale>>

TimerIdle(due, expire) ==
  /\ RestIdle
  /\ DropCopyTimer(pending, response, details, due, expire)
  /\ UNCHANGED <<restVars, stale>>

----------------------------------------------------------------------------
(* DropCopy: the socket and the messages of the exchange. *)

\* get_query is read when the connection is opened.
DropCopyConnected ==
  /\ socket = "down" /\ ~suspended
  /\ socket' = "connected" /\ wire' = query /\ logon' = TRUE
  /\ simulated' = (simulated \/ SimulateExpired)
  /\ UNCHANGED <<closing, suspended, dcVars, restVars, callVars, boardVars,
                 stale, crash, budget, fresh>>

DropCopyReady ==
  /\ socket = "connected" /\ ~closing
  /\ socket' = "ready" /\ status' = "LOGIN_SENT"
  /\ UNCHANGED <<closing, suspended, wire, logon, simulated, state, ready,
                 welcome, subscribing, query, restVars, callVars, boardVars,
                 stale, crash, budget, fresh>>

\* (Mutation of DropCopyDisconnected: the download is not reset.)
DisconnectedKeepsDownload ==
  /\ socket \in {"connected", "ready"}
  /\ \/ (closing \/ wire = "none") /\ UNCHANGED budget
     \/ Spend("stream")
  /\ socket' = "down" /\ closing' = FALSE /\ logon' = FALSE
  /\ ready' = FALSE /\ status' = "DISCONNECTED"
  /\ welcome' = FALSE /\ subscribing' = FALSE /\ fresh' = {}
  /\ UNCHANGED <<suspended, wire, simulated, query, state, restVars, callVars,
                 boardVars, stale, crash>>

\* The socket closes because it was told to, because the exchange refuses a
\* connection without a token, or because it is lost.
DropCopyDisconnected ==
  /\ socket \in {"connected", "ready"}
  /\ \/ (closing \/ wire = "none") /\ UNCHANGED budget
     \/ Spend("stream")
  /\ socket' = "down" /\ closing' = FALSE /\ logon' = FALSE
  /\ ready' = FALSE /\ status' = "DISCONNECTED" /\ state' = "UNDEFINED"
  /\ welcome' = FALSE /\ subscribing' = FALSE /\ fresh' = {}
  /\ UNCHANGED <<suspended, wire, simulated, query, restVars, callVars,
                 boardVars, stale, crash>>

\* The exchange talks to a socket that is open.
Receiving == socket = "ready" /\ ~closing

DropCopyWelcome ==
  /\ Receiving /\ ~welcome /\ wire = "valid"
  /\ welcome' = TRUE
  /\ EnterStage(NextStage("UNDEFINED", details))
  /\ UNCHANGED <<query, linkVars, restVars, callVars, boardVars,
                 stale, crash, budget, fresh>>

\* (Mutation of DropCopyAck: no new request while one is in flight.)
AckReusesRequest ==
  /\ Receiving /\ subscribing
  /\ LET t == NextStage(state, details) IN
       /\ EnterStage(t)
       /\ pending' = pending \cup (Asked(t) \ sent) /\ response' = response \ Asked(t)
  /\ UNCHANGED <<sent, details, query, welcome, linkVars, restVars, callVars,
                 stale, crash, budget, fresh>>

DropCopyAck ==
  /\ Receiving /\ subscribing
  /\ LET t == NextStage(state, details) IN
       /\ EnterStage(t)
       /\ pending' = pending \cup Asked(t) /\ response' = response \ Asked(t)
  /\ UNCHANGED <<sent, details, query, welcome, linkVars, restVars, callVars,
                 stale, crash, budget, fresh>>

\* "token is expired": request_private_token, once per token.
DropCopyError ==
  /\ Receiving /\ wire = "expired"
  /\ query # "none"
  /\ query' = "none" /\ suspended' = TRUE /\ closing' = TRUE
  /\ pending' = pending \cup {"private_token"}
  /\ response' = response \ {"private_token"}
  /\ UNCHANGED <<sent, details, status, state, ready, welcome, subscribing,
                 socket, wire, logon, simulated, restVars, callVars,
                 stale, crash, budget, fresh>>

\* An order event reaches the order management system.
DropCopyOrderChange(o) ==
  /\ Receiving /\ Subscribed("open_orders")
  /\ o \in stale
  /\ stale' = stale \ {o}
  /\ UNCHANGED <<linkVars, dcVars, restVars, callVars, boardVars,
                 crash, budget, fresh>>

----------------------------------------------------------------------------
(* The environment. *)

\* suspend_for(60s) has elapsed.
SuspendElapsed ==
  /\ suspended /\ suspended' = FALSE
  /\ UNCHANGED <<socket, closing, wire, logon, simulated, dcVars, restVars,
                 callVars, boardVars, stale, crash, budget, fresh>>

Expired(q) == IF q = "valid" THEN "expired" ELSE q

\* The exchange stops accepting the tokens it has issued.
TokenExpires ==
  /\ query = "valid" /\ Spend("expiry")
  /\ query' = "expired" /\ wire' = Expired(wire)
  /\ UNCHANGED <<socket, closing, suspended, logon, simulated, status, state,
                 ready, welcome, subscribing, restVars, callVars, boardVars,
                 stale, crash, fresh>>

OrderTurnsStale(o) ==
  /\ o \notin stale /\ Spend("stale")
  /\ stale' = stale \cup {o}
  /\ UNCHANGED <<linkVars, dcVars, restVars, callVars, boardVars, crash, fresh>>

----------------------------------------------------------------------------
Timer == \E due, expire \in BOOLEAN :
           \/ \E k \in Kinds, batch \in SUBSET Orders :
                TimerSend(k, batch, due, expire)
           \/ TimerIdle(due, expire)

RestNext ==
  \/ RestConnected
  \/ RestDisconnected
  \/ GetPrivateTokenAckOk
  \/ GetPrivateTokenAckError
  \/ GetPrivateTokenAckRejected
  \/ Redirected
  \/ GetAccountAck
  \/ GetPositionsAck
  \/ GetOrdersAck
  \/ GetFillsAck
  \/ \E o \in Orders : GetOrderAck(o)

DropCopyNext ==
  \/ DropCopyConnected
  \/ DropCopyReady
  \/ DropCopyDisconnected
  \/ DropCopyWelcome
  \/ DropCopyAck
  \/ DropCopyError
  \/ \E o \in Orders : DropCopyOrderChange(o)

EnvNext ==
  \/ SuspendElapsed
  \/ TokenExpires
  \/ \E o \in Orders : OrderTurnsStale(o)

\* log::fatal ends the process.
Next == crash = "no" /\ (Timer \/ RestNext \/ DropCopyNext \/ EnvNext)

Spec == Init /\ [][Next]_vars

----------------------------------------------------------------------------
(* Invariants. *)

TypeOK ==
  /\ restUp \in BOOLEAN /\ hasToken \in BOOLEAN
  /\ restStatus \in {"UNDEFINED", "DISCONNECTED", "DOWNLOADING", "READY"}
  /\ restState \in {"UNDEFINED", "PRIVATE_TOKEN", "DONE"}
  /\ counter \in Nat /\ live \subseteq Calls /\ lost \subseteq Calls
  /\ pending \subseteq Kinds /\ sent \subseteq Kinds /\ response \subseteq Kinds
  /\ details \subseteq Orders /\ stale \subseteq Orders
  /\ socket \in {"absent", "down", "connected", "ready"}
  /\ closing \in BOOLEAN /\ suspended \in BOOLEAN /\ logon \in BOOLEAN
  /\ status \in {"UNDEFINED", "DISCONNECTED", "LOGIN_SENT", "DOWNLOADING",
                 "READY"}
  /\ state \in Stages /\ ready \in BOOLEAN /\ welcome \in BOOLEAN
  /\ subscribing \in BOOLEAN /\ simulated \in BOOLEAN
  /\ query \in {"none", "valid", "expired"}
  /\ wire \in {"none", "valid", "expired"}
  /\ crash \in {"no", "answer", "counter", "leftover"}
  /\ budget \in [FaultKinds -> Nat]
  /\ fresh \subseteq Snapshots

\* check_request_queue finds no stale order left when the answers to a batch
\* are in: its log::fatal("Unexpected") is never reached.
NoLeftOver == crash # "leftover"

\* The count of get_order calls not yet answered (download_stale_orders_counter_)
\* is exact, so get_order_ack never takes it below zero and never commits the
\* batch early, whatever connections are lost in between.
StaleCounterExact == counter = Cardinality(Outstanding \cap Orders)

\* The log::fatal of get_order_ack on a counter that is already zero is never
\* reached.
CounterNeverUnderflows == crash # "counter"

\* A request counts as sent exactly while a call for it is outstanding: a call
\* that never commits would block every later request of the account, the
\* token's included.  (The token call of the initial download is not one of the
\* board's, hence the one direction for it.)  check_request_queue breaks this with
\* a batch of stale orders of which find_order knows none ("Unexpected"): if
\* OmsForgets, this is no invariant.
SentIsOutstanding ==
  /\ \A k \in Kinds \ {"private_token", "stale_orders"} :
       k \in sent <=> k \in Outstanding
  /\ "private_token" \in sent => "private_token" \in Outstanding
  /\ "stale_orders" \in sent <=> Outstanding \cap Orders # {}

\* A stale order that was noted is never forgotten: as long as it waits in
\* details_stale_orders, a request that will query it is pending.  And such a
\* request always has an order to query: an empty batch would never commit.
NoLostStaleOrder == details # {} <=> "stale_orders" \in pending

\* Each stage that follows a subscription is backed by a snapshot asked after
\* it, or one that is still to be sent: a response left over from an earlier
\* session may complete the stage, but never makes the gateway skip the new
\* snapshot.
NoSkippedSnapshot ==
  \A k \in Snapshots : Subscribed(k) => k \in fresh \/ k \in pending

\* The download never waits for what is not on its way: the request of a stage
\* that awaits an answer is pending, sent or answered, and a stage that awaits an
\* ack has subscribed.  A failed call, a lost connection or an answer seen by an
\* earlier stage never leave the download with nothing that would move it on.
AwaitedOnItsWay ==
  /\ state \in Gets => Asks[state] \in pending \cup sent \cup response
  /\ state \in Subs => subscribing

\* The three records of DropCopy's progress (status, download state, ready_)
\* agree, and none survives the session: the assertions in download (not ready
\* before) and in Timer (no welcome while the socket is not ready) hold.
SessionAgrees ==
  /\ ready <=> status = "READY"
  /\ ready <=> state = "DONE"
  /\ welcome <=> state # "UNDEFINED"
  /\ welcome => socket = "ready"
  /\ logon <=> socket \in {"connected", "ready"}

\* The skip of GET_STALE_ORDERS is justified: the download goes past the open
\* orders only when the order management system reported no stale order, those
\* that the snapshot itself made stale included (the comment "note! *before*
\* updating download" of check_request_queue).
NoStaleSkipped ==
  [][ /\ state = "GET_OPEN_ORDERS"
      /\ state' \in {"GET_TRADES", "DONE"}
      => stale = {} ]_vars

----------------------------------------------------------------------------
(* Liveness. *)

\* A tick at which the rate limiter agrees and the stale orders are due.
FairTick ==
  \/ \E k \in Kinds, batch \in SUBSET Orders : TimerSend(k, batch, TRUE, FALSE)
  \/ (\A k \in Kinds : ~CanSend(k)) /\ TimerIdle(TRUE, FALSE)

Alive(A) == crash = "no" /\ A

\* The client completes its calls; the answers to the calls of the board are
\* successes or errors, and the exchange answers on an open connection.
CallCompletes ==
  \/ GetPrivateTokenAckOk \/ GetPrivateTokenAckError
  \/ GetAccountAck \/ GetPositionsAck \/ GetOrdersAck \/ GetFillsAck
  \/ \E o \in Orders : GetOrderAck(o)

\* The socket connects, the exchange answers on it, and closes it for want of a token.
DropCopyMoves ==
  \/ DropCopyConnected \/ DropCopyReady \/ DropCopyWelcome \/ DropCopyAck
  \/ DropCopyError
  \/ (closing \/ wire = "none") /\ DropCopyDisconnected

\* The timer keeps ticking, the rate limiter does not refuse for ever, and no
\* connection is left without what moves it on.
Fairness ==
  /\ WF_vars(Alive(FairTick))
  /\ WF_vars(Alive(RestConnected))
  /\ WF_vars(Alive(CallCompletes))
  /\ WF_vars(Alive(SuspendElapsed))
  /\ WF_vars(Alive(DropCopyMoves))

FairSpec == Spec /\ Fairness

\* The refresh of the token has come to nothing: no token, no request for one.
RefreshLost ==
  /\ socket # "absent" /\ query = "none"
  /\ "private_token" \notin pending \cup sent

\* Once the connections stop failing, the account becomes ready and stays so,
\* unless the process has ended or the token was lost.
EventuallyReady ==
  <>[](ready \/ crash # "no" \/ RefreshLost)

\* Stale orders do not stay stale: their details are queried, and queried again
\* after an error, until the exchange has answered for each of them.
StaleOrdersResolved ==
  stale # {} ~> (stale = {} \/ RefreshLost \/ crash # "no")

\* An expired token is replaced, as the change log has it.
TokenRefreshed ==
  (socket # "absent" /\ query = "none") ~> (query # "none" \/ crash # "no")

=============================================================================
