# A verification project for roq-kucoin-futures

The gateway connects a trading system (the *server*, reached through
`server::Dispatcher`) to the KuCoin Futures exchange. This directory models the
gateway's own control logic in TLA+, checks the models with TLC on small
instances, and proves with TLAPS what matters most for every value of the
constants. Paths below are relative to `src/roq/kucoin_futures/` of the
repository unless they start with another directory.

## 1. The system

Everything runs on one thread: an event loop calls one callback at a time and
each callback runs to completion. Nothing is interleaved *inside* a callback;
what is hard is the order in which callbacks of different objects come, and what
is left on shared objects between them. So an action of a model is one whole
callback, and there is no finer step.

| Component | Keeps | Does | Talks to |
|---|---|---|---|
| `Controller` (`gateway/controller.cpp`) | all streams, the public token | creates streams, hands the timer to each of them in a fixed order (rest, order entry REST, order entry WS, drop copy, market data), delivers tokens and symbols, routes order actions | everything, by calls |
| `Request` (`gateway/request.cpp`) | six requests of one account, `details_stale_orders` | lets one request out at a time | written by `DropCopy`, polled and committed by `OrderEntryREST` |
| `OrderEntryREST` | REST connection, download state, `download_stale_orders_counter_` | private token, snapshots, stale order queries, create/cancel/cancel all | `Request`, `Controller` (token), server (updates) |
| `DropCopy` | private socket, staged download, `query_`, `ready_`, `welcome_` | subscribes, asks for snapshots in step, looks for stale orders, asks for a new token | `Request`, server |
| `OrderEntryWS` | order socket, `ping_freq_` | login, create/cancel | server |
| `MarketData` (one per slice of symbols) | public socket, subscribe queue | subscribes, forwards market data, sequences level2 changes | `Shared`, server |
| `Rest` | public REST connection, download state | public token, contracts, order book snapshots | `Shared`, `Controller` |
| `Shared` | rate limiter, symbols, order book sequencers, depth request queue | - | read and written by all |
| protocol (`protocol/json/map.cpp`, `encoder.cpp`, parsers) | nothing | writes requests, parses messages, maps values both ways | called by the streams |
| tools, account, config | nothing that changes (`Throttle`: the back-off) | split, throttle, sign | - |

What makes each of them correct:

* **Account synchronisation** (`OrderEntryREST`, `DropCopy`, `Request`): an
  account is ready only when, after subscribing to each topic, the matching
  snapshot was asked; orders the server thinks are stale are queried until the
  exchange has answered; the token is renewed; no assumption that the code guards
  with `log::fatal` is ever false, whatever connection is lost when.
* **Sessions** (the three sockets): state of a session never outlives it; the
  exchange is pinged in time; a session that cannot start is given up.
* **Order book** (`MarketData`, `Rest`, `Shared`): what is published for a symbol
  is the exchange's book at some sequence number, and a book that waits for a
  snapshot gets one.
* **Symbols** (`Controller`, `Rest`, `MarketData`): each symbol is on one stream,
  and every session of that stream subscribes to it.
* **Order actions** (`OrderEntryREST`, `OrderEntryWS`, `DropCopy`, `Controller`):
  the server is told only what is or was true of an order, and is told in the end
  of every order that is over.
* **Reports** (`DropCopy`, `OrderEntryREST`, the maps and the encoder): status and
  quantities are those of the order, whichever of four routes reports them; each trade
  is told once; a position is not left wrong between a snapshot and the events; what
  comes back of an order is what was asked for.

The hard behaviours, each at its line, are the `hazards` of `PROJECT.json`.

## 2. Modules

| Module | What it is |
|---|---|
| `AccountSync` | `Request` + `OrderEntryREST` + `DropCopy` + the part of `Controller` between them |
| `MCAccountSync` | its instances for TLC |
| `AccountSyncProofs` | its theorems |
| `StreamSession` | one web socket of any of the three kinds, against the clock |
| `MCStreamSession` | its instance for TLC |
| `StreamSessionProofs` | its theorems |
| `MarketFeed` | the download of `Rest`, the symbols of `Controller` and `Shared`, the subscriptions of `MarketData` |
| `MCMarketFeed` | its instances for TLC |
| `MarketFeedProofs` | its theorems |
| `BookSync` | the order book: level2 of `MarketData`, the snapshots of `Rest`, the sequencers and the request queue of `Shared` |
| `MCBookSync` | its instance for TLC |
| `BookSyncProofs` | its theorems |
| `OrderPromise` | what the gateway promises about orders: the abstract specification, and what follows from it |
| `OrderActions` | order requests over `OrderEntryREST` or `OrderEntryWS`, and every way their outcome is learned |
| `MCOrderActions` | its instances for TLC |
| `OrderActionsProofs` | its theorems, `OrderActions` implements `OrderPromise` among them |
| `OrderReports` | one order from its encoding to what events, snapshots, queries and fills tell of it, and of balance and position |
| `MCOrderReports` | its instances for TLC |
| `OrderReportsProofs`, `OrderReportsFeedProofs` | its theorems: types, reports and `OrderPromise`; fills, balance and position, fields |

### AccountSync

State and code:

| Variable | Code |
|---|---|
| `restUp`, `restStatus`, `restState`, `hasToken` | connection, `connection_status_`, `download_`, `has_downloaded_private_token_` of `OrderEntryREST` |
| `live`, `lost` | calls given to `web::rest::Client` and not answered: on the current connection, and on one that was lost and whose errors are still to be reported |
| `counter` | `download_stale_orders_counter_` |
| `pending`, `sent`, `response` | the three states of the six `core::limit::Request` members of `Request` |
| `details`, `stale` | `details_stale_orders`; what `get_all_stale_orders` reports |
| `socket`, `closing`, `suspended`, `wire` | the client of `DropCopy`: its state, whether it was told to close, `suspend_for`, the query the connection was opened with |
| `status`, `state`, `ready`, `welcome`, `logon`, `query`, `simulated` | the members of `DropCopy` of the like names |
| `subscribing` | a subscribe message whose ack has not come |
| `crash` | why `log::fatal` ended the process |
| `budget` | bound: how often each fault may still happen |
| `fresh` | history: snapshots sent in this session after the subscription |

Actions: `RestConnected`, `RestDisconnected`, `GetPrivateTokenAck*` (success,
error, refused with a 4xx), `Redirected` (any call, which ends the process),
`GetAccountAck`, `GetPositionsAck`, `GetOrdersAck`,
`GetFillsAck`, `GetOrderAck`, the socket's `DropCopyConnected` / `Ready` /
`Disconnected`, the messages `DropCopyWelcome` / `Ack` / `Error` /
`OrderChange`, and `Timer`. `Timer` is one action although two objects take part:
`Controller::dispatch_helper` calls `OrderEntryREST` (which sends at most one
request: `RestSend`) and then `DropCopy` (`DropCopyTimer`) within the same
callback, so the second sees the board the first has left.

`NextStage` folds the two download callbacks that return 0 (a stage with nothing
to do) into the step to the stage after them, as `core::Download2` does within
one call.

What is assumed of code that is not in the repository:

* `core::limit::Request`: `request()` marks the request pending and drops an
  unread response; `check_pending` sends it if the handler is `ready()` and
  `can_request()`; it then counts as not `ready()` until `commit()`, which leaves
  a response; `has_response()` consumes it.
* `core::Download2`: `begin` runs the callback from the first stage, moving on
  while it returns 0; `check(state)` moves on from `state`; `check_relaxed`
  ignores a state that is not current; `retry(state)` runs the callback again.
* `web::rest::Client` completes each call exactly once; the calls of a lost
  connection complete with an error, and before it is connected again.
* `web::socket::Client`: `suspend_for` closes the socket and puts off the
  reconnect; `resume` ends that; `close` is followed by `Disconnected`.
* The server: which orders are stale is arbitrary; an open orders snapshot makes
  any of them no longer stale, an answer about an order that one.
* The exchange: no welcome for a socket opened without a valid token; on an open
  socket whose token has expired it says so (401, "token is expired"). Any other
  error on that socket is only logged (`drop_copy.cpp:316`) and changes nothing; if
  it answers a subscription, its stage waits until the connection is lost, so
  liveness assumes that subscriptions are acked.

With `OmsForgets` a batch may hold orders that `find_order` does not know any more
(`order_entry_rest.cpp:1089`, which calls it unexpected). If it knows none, the
request is sent, no call is made, and nothing commits it. The run has `OmsForgets`
FALSE, where `SentIsOutstanding` holds as it stands; the theorems cover both.

### StreamSession

`MarketData`, `OrderEntryWS` and `DropCopy` share the handling of
`logon_timeout_`, `welcome_` and `next_ping_`. `stream` is chosen at the start
and never changes; it decides which statuses are published, whether the ping
frequency is known before the welcome, and whether the client has an idle
timeout (`market_data.cpp:61` against `drop_copy.cpp:54`, `order_entry_ws.cpp:56`).

Time passes at ticks of the timer, by 1 to `MaxStep`. Deadlines are kept as ages
(`logonAge`, `pingAge`, `idleAge`), so that the state stays finite; an age stops
growing at `Horizon`, which `TimeoutAssumption` puts above every timeout.
`silence` is a history variable: how long the exchange had not seen a ping when
the last tick came. It, and not `pingAge`, says what the exchange observes,
because a tick may reset `pingAge`.

Assumed of `web::socket::Client`: `Connected` comes before `Ready`, `ready()` is
true from `Ready` to `Disconnected`, and an idle timeout counts from the
connection or the last `touch`.

### MarketFeed

| Variable | Code |
|---|---|
| `restUp`, `restStatus`, `stage` | connection, `connection_status_`, `download_.state()` of `Rest` |
| `current`, `stale` | calls in flight for a stage, with the sequence of the current download and with an earlier one |
| `token` | `public_ws_query_` of `Controller`: none, one the exchange accepts, one it does not any more |
| `symbols` | `shared_.symbols`, a list that only grows, and the set `all_symbols` of its elements |
| `session`, `wire` | each `MarketData`: not created, and its socket; `query_` |
| `queue` | its `subscribe_queue_`, one entry per symbol |
| `subs` | what the exchange has subscribed in the session |

Actions: `RestConnected`, `RestDisconnected`; the answers `PublicTokenAck`,
`PublicTokenRefused`, `ContractsAck`, `AckSkipped` (an answer the download is no
longer interested in), `AckError` and `Redirected`; a client's `Subscribe`; for each stream
`StreamConnected`, `Welcome`, `StreamDisconnected`; `Timer(j, k)`, one tick of all
streams in which the rate limiter gives out after `k` messages of stream `j`; and
`TokenExpires`. `SymbolsUpdate` is the handler of `Controller`: it stores the new
symbols, creates the streams of the slices that are no longer empty, and lets every
stream subscribe to what came into its slice.

Slices are by place: stream `i` has the places from `(i-1) * PerStream`, so a slice
is fixed once it is full. `subscribe` queues six topics, each over all symbols in the
same order; the model lets a symbol leave its queue with its last topic.

Assumed of code outside the repository: `core::Download2` - `begin` and `bump` change
the sequence, `skip` compares both sequence and stage, `retry` is ignored unless the
stage is current and does not look at the sequence, nor at whether the connection is
up; `web::rest::Client` completes the calls of a lost connection with an error;
`core::Symbols` numbers symbols in the order they came; `core::limit::Queue` serves
its entries in order. All tokens issued so far expire together.

### BookSync

| Variable | Code |
|---|---|
| `book`, `sent` | the exchange's book of each symbol, as the number of changes so far, and how many of them it has put on the stream |
| `up` | the `MarketData` of a slice is welcome and its symbols are subscribed |
| `sequencer` | `shared_.mbp_sequencer` |
| `queue` | `shared_.depth_request_queue` |
| `ready`, `asked`, `answers` | `Rest` is READY; its `get_order_book` calls before and after the exchange has served them |
| `published` | the last `MarketByPriceUpdate` and what the book made of all of them contains |
| `lost` | history: symbols whose last request failed |

A book is the set of changes in it, so that a change that is missing, or applied too
early, shows. Actions: `Level2` (a change arrives), `GetOrderBookAck` and
`GetOrderBookError`, `CheckRequestQueue` (the timer of `Rest`), the two ends of
each connection, and the exchange: `Trade`, `Skip` (a change is not delivered),
`Serve` (perhaps a book that is behind). `StreamDisconnected` clears the sequencers of
*all* symbols, as the code does (and notes itself: "this is SHARED !!!").
`StreamSubscribed` stands for the welcome and the subscriptions, which `MarketFeed` has
one by one, `RestReady` for the download.

`market::mbp::Sequencer` is not in the repository. Assumed of it, from the arguments
and callbacks it is given: the first change asks for a snapshot, with no retries;
changes are kept until there is a snapshot they continue, and then published as one
snapshot with them applied; a snapshot older than the changes is asked for again, with
one more retry; one that is ahead of them is held until they reach it; a
change that does not continue the last throws `BadState`; a snapshot for a book
that is complete is ignored; and a snapshot may throw `BadState` for a reason of its
own (`rest.cpp:522`, the fault `bad`). `core::limit::Queue` serves in order.

### OrderActions and OrderPromise

`OrderPromise` has two variables: the `fate` of each order (out, taken and live,
ended, never taken) and what was `told` of it. It forbids telling of an order that
is gone while it lives or may yet live, and of one that works before it was taken;
`Told` is its liveness. `OrderActions` implements it with `fate <- Fate` and
`told <- Judged`, which is the server's record `known` except where the server was
misled: two answers end an order for the server although nothing says it has ended
(`Presumed`). Any 5xx answer to a create is reported as REJECTED
(`order_entry_rest.cpp:1122`), whatever became of the order; and an order that a query
does not find is reported as REJECTED (`order_entry_rest.cpp:620`), also when the
query overtook its create. Where that is false, `misled` keeps what the server knew
before, and the promise is about that: those two ends are excepted and nothing else,
which `OnlyMisleading` proves. `Told`, that the server learns of every end, is about
`known`. So does `OrderReports`, which begins with its one order sent
(`SubmittedSpec`), with `fate <- Fate`, what the order's status at the exchange comes
to, and `told <- Standing`, what the last status reported comes to.

| Variable | Code |
|---|---|
| `wsApi` | `settings.ws_api`, which `Controller::get_order_entry` looks at; cancel-all goes over REST in any case |
| `restUp`, `wsUp` | `OrderEntryREST` is READY; `OrderEntryWS` is connected and welcome |
| `copy` | `DropCopy`'s download: down, waiting for the open orders, ready |
| `create`, `cancel`, `sweep` | the request of each order (cancel-all: of each symbol) on its way, at the exchange, or answered |
| `snap`, `listed`, `mine` | the call for the open orders, its answer, and whether this session asked for it |
| `query` | the order in `details_stale_orders`, its `get_order` call and its answer |
| `exch`, `events` | the order at the exchange and the order changes on their way |
| `known`, `stale`, `waiting` | the server's record of the order, `get_all_stale_orders`, cancels without an answer |
| `misled` | history: what the server knew of an order when it was told a false end |

What the code does and the model keeps: a create without a session is refused by an
exception over REST and written to a socket nobody listens on over web socket; the
answer to a REST create publishes nothing, so that the external order id comes with
an update only, and a cancel sent before has a path without one; a REST cancel is
answered on failure only, an empty list of cancelled ids included; a lost web socket
reports nothing about what was in flight; a snapshot that failed is committed all
the same; an order the exchange does not know, or not yet, is told to be REJECTED;
so is one whose create was answered with a 5xx, and (`CreateOrderRejected` too) one
whose answer cannot be read, if the server takes `RequestStatus::ERROR` for an end.
`RestConnected` stands for the connection and its download, `DropCopySubscribed` for
the subscriptions; `AccountSync` has their stages, the token's, and the lost refresh of
the token, which would keep `DropCopy` away for good. One REST request of the account is
out at a time, as `CanSend` of `AccountSync` has it.

Assumed of the server: it ignores what is told of an order that has ended; an order
is stale when it is open and nothing was heard of it for a while; NotReady ends a
create; REJECTED ends an order, the status of a network error does not. Of the
exchange: a request whose connection is lost may be executed later, or never; a cancel
without an external order id (the path of `order_entry_rest.cpp:912` ends in an empty
id) is refused; `WSError` means that the request was refused; order changes of one
order come in order. Of the client libraries: calls of a lost
connection fail before it is back; a message written while there is no session is
dropped.

### OrderReports

`OrderActions` knows of an order only whether it works or is over. `OrderReports` has
the values: how the request is written, what the exchange makes of it, and what the
four routes back tell of status, quantities, trades and fields.

| Variable | Code |
|---|---|
| `request`, `account` | `CreateOrder`; the position before the order and its side |
| `order`, `feeds`, `wire` | the order at the exchange, the topics this session has subscribed, and its events on their way |
| `stage` | `download_.state()` of `DropCopy` |
| `pending`, `call`, `response`, `wanted` | `Request`: what is asked, out, answered; whether `details_stale_orders` has the order |
| `told`, `fills`, `view` | the server: the order, how often each trade was told, balance and position |
| `seen`, `joined`, `fresh` | history: the quantity traded when the session last read a topic, the trades before it subscribed, what it has asked for |

The maps of `map.cpp` are the functions `Raw...` (roq to exchange) and `Map...` (back)
and `Encoder::add_order` is `AddOrder`. What the code does and the model keeps: a time
in force the exchange does not have is written as `undefined`, not refused; margin mode
PORTFOLIO, or none when there is no default, becomes ISOLATED; a market order has no
time in force; an order change
reports the last match as COMPLETED, whatever its status says, and has no time in
force of its own; an order that is done before it is filled was cancelled; the recent
fills are decoded and dropped; a failed snapshot is committed like a good one; no
update is compared with an earlier one by time or sequence.

Actions: the events `WalletBalanceChange`, `PositionChange` and `OrderChange`; the
answers `GetAccountAck`, `GetPositionsAck`, `GetOrdersAck`, `GetOrderAck`,
`GetFillsAck` and `Fails`; the session `DropCopyWelcome`, `DropCopyAck`,
`DropCopyDisconnected`; `Timer`, in which `OrderEntryREST` sends and `DropCopy` then
looks at responses and stale orders, as in `AccountSync`; and the exchange.

Left to `AccountSync`: the token, the socket's handshake and the loss of the REST
connection, which is here a failing call; left to `OrderActions`: the create, its
answers, and the query that overtakes it. One REST call is out at a time; for that reason the `log::fatal` on left-over stale orders cannot be
reached here. There is one order; balance and position change with what it trades.

Assumed of the server: an update replaces what was told, unless the order has ended;
values that are not given (NaN, UNDEFINED) do not replace others. Of the exchange: it
refuses an order with an unknown time in force, an order that must not increase the
position and would, and one that does not fit its position side; a fill or kill order
and a market order trade at once and in full, a post-only order never takes; the last
trade is a match of an order still open and is followed by a `filled`; the events of a
session come in order on its one connection; a flat position may be left out of the
list; a market order is reported as GTC, which is the exchange's default. Here an
order has been decided on before a query for it is served (`Serve`); what happens if
not is in `OrderActions`, and `KeepsPromise` of this module says nothing of it.

## 3. What the runs check

All runs set `CHECK_DEADLOCK FALSE`: `log::fatal` ends the process, and the
models keep that state; in `OrderReports` nothing need happen any more once the order
is over and everything is told.

| Run | Shows |
|---|---|
| `Account` | two orders, lookback on, fair; one loss of each connection, one expiry, one failed call, one refused token or redirected call, two orders turning stale, in every order (about 585 000 states): every request that is sent is outstanding and every count exact, no snapshot, stale order or stage is skipped, what a stage of the download waits for is always on its way, the account becomes ready for good, stale orders are resolved |
| `TokenRefresh` | *violation*: see Findings |
| `StaleLeftOver` | *violation*: see Findings |
| `StreamSession` | the three kinds of stream; interval 5 with ticks of at most 2 (5 \div 2 rounds down, and one late tick just fits), all timeouts shorter than the interval so that each can expire before and after a ping; two failures or refused logins; from an exchange that answers a session is reached again and again (`Reconnects`), and from one that never completes a handshake or says welcome the idle timeout frees `MarketData` (`MarketDataGivesUp`) |
| `WelcomeWatchdog` | *violation*: see Findings |
| `Feed` | three symbols, two per stream, one discarded by configuration; Rest loses its connection once and a stream twice, one call fails, one request is refused, the token expires once; contracts and clients add the symbols in any order and grouping, clients also before the token is there (about 438 000 states) |
| `TokenFirst` | *violation*: see Findings |
| `OrderFates` | one order, either transport, fair; REST, web socket and DropCopy are lost once each, one call fails, one create is answered with a 5xx and a query may overtake its create, in every order (about 473 000 states): `OrderActions` implements `OrderPromise`, the server learns that the order is over, cancels over REST are resolved |
| `Books` | two symbols on two streams that share the sequencers, two changes each; a stream and Rest are lost once, one call fails, two snapshots lag, one snapshot throws `BadState`, one change is skipped, one retry is allowed (about 687 000 states): books are exact and never go back (`NeverGoesBack`) |
| `PublicTokenExpiry` | *violation*: see Findings |
| `Reports` | one order of size 2 for each of 16 requests, fair; DropCopy is lost once and one call fails, in every order (about 907 000 states): status, quantities, fills, balance, position and fields are true, `OrderPromise` is implemented, and the final quantities are learned |
| `FillsRecovered` | *violation*: see Findings |

Why these bounds: the board has one slot per kind of request, so two requests of
one kind (asked before and after a lost session) already show every overlap, and
one loss of each connection produces them. In `OrderFates` one order meets every
fault, and each record of it is reset or forgotten when its carrier is lost, so that
a second loss finds nothing new; two orders meet only in the snapshot, the batch and
cancel-all, which treat each order by itself, and the theorems cover any number. In
`Account` two orders are needed for a batch that is partly answered when a connection is
lost, and for an order noted while the batch of another is in flight. A second loss of the same connection finds
the state of the first again, because all session state is reset
(`SessionAgrees`); the theorems hold for any number of faults. In `Feed`, three
symbols at two per stream give a full slice, a slice that is partly filled, and a
batch that fills the one and opens the other; losing one stream twice leaves
entries of two sessions in its queue. In `Books`, one stream's loss clears the
sequencer of the other's symbol in each of its modes; two changes give a snapshot that
is behind, level with and ahead of the changes kept; two lagging snapshots exceed the
one retry, so that the process ends as well. The 16 requests of `Reports` have between
them every side, type, margin mode, time in force and instruction, on accounts that are
flat, long and short and on every position side; 11 have a time in force the exchange
does not have and are refused, the other five are taken, with every margin mode; size 2
gives an order that trades in part, in two trades, and as maker after it was taker; one lost session gives events,
snapshots and responses of two sessions on one board. The theorems cover every
request, account, size and number of faults. The debug flag that pretends an expired
token (`SimulateExpired`) renews the token without bound: only the theorems cover
it.

Fairness. `FairTick` is weakly fair because the event loop keeps ticking, the rate
limiter refuses only within its interval, and the stale check becomes due again; the
REST connection is tried again; some call completes, with an answer or an error
(`CallCompletes`: the REST client has a request timeout); a suspension ends; and
something moves `DropCopy` (`DropCopyMoves`): the socket connects, the exchange answers
on it and acks subscriptions, and closes it for want of a token. Faults are never fair
and are bounded by `budget`.
In `StreamSession` fairness covers the gateway alone, so that
`MarketDataGivesUp` shows the watchdog at work and not the exchange. `Reconnects`
has the exchange's part as its premise, `ExchangeAnswers`: of connections tried
again and again some succeed in time, which is strong fairness of `Ready` and
`Welcome`. Weak fairness would not do, as a handshake can always be overtaken by its
timeout. In `MarketFeed` connections are tried again, calls complete, a valid token
is welcome and the timer ticks; nobody need subscribe, and tokens need not last.
In `OrderActions` connections are tried again, calls complete (with an error when
their connection is lost), the exchange decides on what reached it and answers, the
timer ticks, and an open order that nothing is heard of turns stale: without the
last a lost web socket message would never be found out, as only the stale order
query looks for it. Nothing is assumed of DropCopy's events, which may all be lost.
In `OrderReports` the exchange decides on an order, serves calls and acks
subscriptions, DropCopy reconnects and reads what has come, and the timer ticks; an
order nothing is heard of turns stale. Nothing obliges an order to trade or to end.
In `BookSync` connections are tried again, calls are served and answered, changes that
were sent arrive and the timer ticks; nobody need trade.
`CancelsResolved` is about REST: a cancel lost with the web socket is answered by
nobody as long as its order lives.

`EventuallyReady` and `StaleOrdersResolved` except a process that has ended and a
lost token refresh (`RefreshLost`). The second exception is not a convenience: it
is the first finding below. That `DropCopy` subscribes again and again in `OrderActions`
assumes that refresh away.

### Findings

1. **A failed token refresh is final** (`TokenRefresh`). The change log says
   "Refresh private token #563". The call for the new token is made once; if it
   fails, or its connection is lost, `get_private_token_ack` only logs, and
   `query_` stays empty, so that later expiry messages return early.
   `RefreshLostForGood` proves that nothing ever makes it good, and that only an
   error of that call loses it.
2. **A late batch ends the process** (`StaleLeftOver`). A batch of order queries
   asked by the previous session is answered after the new session noted another
   stale order: `check_request_queue` runs into its `log::fatal("Unexpected")`.
   Depends on `core::limit::Request` as assumed above. `LeftOverNeedsReconnect`
   proves where the hazard ends: as long as `DropCopy` has lost no connection and no
   token has expired it is not met, whatever else fails.
3. **The welcome watchdog does not watch the welcome** (`WelcomeWatchdog`). The
   branch that logs "Did not receive the welcome message" is the else branch of
   `connection.ready()`. `WatchdogBlind` proves that the timer leaves a ready socket
   alone, welcome or not (the idle timeout of `MarketData` does not).
4. **The public token is never refreshed** (`PublicTokenExpiry`). The flag
   `token_refresh_freq` is defined and read by nothing; the token is asked only
   when a download begins, and streams keep the query they were created with even
   when Controller has a newer one. `EventuallySubscribed` excepts such streams.
   `ExpiryForGood` proves that a ready `Rest` that keeps its connection never replaces
   an expired token, and that a stream with one never has a session again.
5. **Downloaded fills are dropped** (`FillsRecovered`). The shipped script asks for 24
   hours of trades (`live.sh:18`, `live.sh:30`); they are downloaded and mapped, and the
   call that would tell the server is commented out (`order_entry_rest.cpp:822`). A
   trade made while `DropCopy` is away is in the order's traded quantity and never
   among the fills. `FillsExact` excepts trades from before the session subscribed.
   `FillsLostForGood` proves that a fill that is lost stays lost, and that fills are
   lost only with a session or while there is no subscription to orders.

6. **The public token does not always arrive first** (`TokenFirst`). The comment at
   `controller.cpp:222` says it does, but a client's `Subscribe`
   (`controller.cpp:133-147`) is not held back until it has. A stream that is created
   before has no query, address or ping frequency: the frequency was never
   initialised, and the process ends if it is zero (`market_data.cpp:119`).
   `TokenlessForGood` proves that otherwise the stream never has a session, the token
   that comes later included, and that streams are without a token for no other reason.
   `EventuallySubscribed` excepts such streams. How soon clients may subscribe is up to
   the server, which is not in the repository.

Some further places were met while modelling. They have no run, since no line of the
repository is contradicted by them, or since they depend on code that is not in it:

* Any 5xx answer to a create is reported as REJECTED (`order_entry_rest.cpp:1122`), also
  of an order the exchange took. The change log asks for it of 503 (`CHANGELOG.md:53`).
* A query that overtakes its create is answered "not found", and the order is reported
  as REJECTED without a check (`order_entry_rest.cpp:620`). `OnlyMisleading` proves that
  these two are the only ways an order is ended for the server that is not over.
* A batch of stale orders of which `find_order` knows none blocks all requests of the
  account for ever (`order_entry_rest.cpp:1088-1093`): `EmptyBatchBlocks`.
* An order book snapshot that failed is not asked again, although `rest.cpp:450` speaks
  of retrying: `SnapshotArrives` and `SnapshotRequested` except such books.

## 4. What is proved

`AccountSyncProofs` proves the invariants of the run `Account`, and its action
property, for every finite set of orders, both settings of every flag and any number
of faults, from the assumptions of `AccountSync`. None of them is inductive alone. The
inductive invariant is their conjunction with

* `RestAgrees`: status, download state and connection of `OrderEntryREST` agree,
  calls are live only on a connection that is up and lost only while it is down -
  without it a call could be live and lost at once and be counted once;
* `SubscribeAgrees`: an awaited ack belongs to the stage the download is in -
  without it an ack could move the download past a snapshot.

`StaleCounterExact` is the core of it: the counter equals the cardinality of the
outstanding order queries, so the step that answers one of them finds it above zero.
That a sent request is outstanding, and that one request at most is sent
(`OneInFlight`), give that no batch is sent on top of another, which is what makes the
count set by `RestSend` exact.

`SentCommitted` says exactly where `SentIsOutstanding` holds: in every state but that of
an empty batch, which only a server that forgets orders (`OmsForgets`) brings about.
What happens then is `EmptyBatchBlocks`: nothing commits the batch and nothing else is
sent, whatever is lost and connected again, and only a tick that sends such a batch
leads there. Two invariants are proved that no run lists: `CounterNeverUnderflows`, and
`DownloadBacked`, which turns `AwaitedOnItsWay` into a call or a request that the next
tick may send. `DownloadNeverStuck`, that it holds except of an empty batch, is as much
of `EventuallyReady` as is safety.

Two more invariants serve one theorem each. `RefreshLostForGood` needs `TokenCalls`: a
call for a token is the board's once there is a `DropCopy`. `LeftOverNeedsReconnect`
needs `FirstBoard`: before the first reconnect the query for stale orders is made on
entering its stage and no second one comes before the stage is left, so when its
answers are seen none is pending, and by `NoLostStaleOrder` none is noted. Its premise
`FirstSession` speaks of the budgets spent so far, not of the constants: the theorem
covers runs with reconnects up to the first of them.

`StreamSessionProofs` proves `KeptAlive`, `HandshakeBounded`, `SessionAgrees` and
`SparesWelcome` for every interval and timeout, from `PingAssumption`: the timer ticks
at least twice in the interval. `KeptAlive` needs `PingBounded`: after every tick of a
welcome session half an interval at most has passed since the last ping.
`SessionAgrees` of this module is only proved; `WatchdogBlind` follows from the same
invariant.

`MarketFeedProofs` proves all invariants of the run `Feed` for every finite set of
symbols, every slice size and any number of faults. Together they are inductive but
for one fact, `LoadedInOrder`: a download past its first stage has a token. What makes
a slice proof work are three lemmas on sequences (`SliceElems`, `SubSeqElems`,
`ElemsCut`): what a slice holds, and that cutting a queue after `k` loses no element.
`ReadyIsLoaded` (a READY `Rest` is connected and has a token) is among them and in no
run. `ExpiryForGood` adds that a stream not yet created has no query.
`TokenlessForGood` needs no more than that a stream without a token was never welcome.

`BookSyncProofs` proves the invariants of the run `Books` for any symbols and streams,
any retry limit and any number of faults. `BookIsExact` is not inductive: it rests on
what a sequencer knows (`Knows`, for each symbol): the changes it keeps are
consecutive and were all sent, a sequencer that waits or is live keeps some, and in
mode `live` its last change is the number the book is published with. A published book
is joined from a snapshot no newer than the last change kept, so nothing need be known
of the snapshots on their way: that is why a clear at any time, or a snapshot from
before it, does no harm. `NeverGoesBack` (a published book is never replaced by an
earlier one, whatever is cleared and lost) needs one more fact in `Knows`: what is
published is no newer than the last change kept, so the book joined from the kept
changes is at least as new. `SnapshotsRequested` follows each step's effect on the
queue (`RequestAsks`, `ElemsAppend`, `ElemsTail`).

`OrderActionsProofs` proves that `OrderActions` implements `OrderPromise`
(`PromiseKept`) for every set of orders and symbols, both transports and any number of
faults. The state alone does not say why an answer is true; the inductive invariant
says it of everything on its way: `CreateAgrees` (an order the exchange was not asked
to take, has not taken yet or has refused is not there, one it took is),
`QueriesTrue`, `ListTrue` and `EventsTrue` (an answer to a query, the snapshot or an
event was true when it was made, and what it says can no longer be undone). On it rest
five lemmas, one for each way a step may look from `OrderPromise`: `SubmitRefines`,
`DecideRefines`, `EndRefines`, `ToldRefines` and `StutterRefines`; `StepRefines` sorts
the actions into them, and `PresumedRefines` is the step that misleads the server: to
`OrderPromise` it is a stutter if the end it tells is false. That the server holds no
order to be working that was not taken, and none to be over that is not, unless it was
misled, is `ToldTrue`. Finally, `OnlyMisleading` lists the steps that may mislead it:
an order that is over stays so (`OverStays`), a step that leaves `misled` alone ends an
order for the server only if it is over, and `misled` is written by two actions.
`CancelsBacked` is the
safety part of `CancelsResolved`: over REST, a cancel without an answer has its
request under way, refused or done, or its order is over.

`OrderReportsProofs` and `OrderReportsFeedProofs` prove the five invariants of the run
`Reports` for every request, account, size and number of faults, from the assumptions
of `OrderReports`. `ReportsTrue` alone is not inductive: `ReportsInv` adds that the
order is consistent (`OrderOK`), that every event on its way was true when it was sent
(`WireOK`) and every answer when it was served (`ImageOK`), which stays so because an
order's quantity only grows and its end is final. `FillsInv` adds that each match on
its way is the only one of its trade and not yet told, without which it could be told
twice. `ViewInv` adds that the last event of a topic on its way has the quantity
traded, and that a snapshot asked by this session was served after the subscription:
what it does not have is on the way. `FieldsInv` adds that every field told is one of
this order, and that a position told is one the order went through. What makes the
events provable is a lemma for what a step appends to the wire (`ExchangeAppends`) and
one for what a step takes from it. `PromiseKept` has two kinds of steps to sort: those
of the exchange move the order's fate as `OrderPromise` lets it (`FateMoves`), those
of the gateway are one update (`UpdateRefines`), which is true by what `ReportsInv`
says of events and answers (`ReportRefines`). `AnswersOnTheirWay` is the safety part
of `QuantitiesLearned`: each stage of the download has asked, in this session, for the
answer it waits for, which is pending, out or there, and an order noted as stale has a
query that is still to be sent. `FillsLostForGood` uses `FillsInv`: a match on its way
is the only one of its trade, so what is neither told nor on its way has no other way
to be told. `FieldsCorrect` rests on the exchange's refusal of a time in force it does
not have.

Only model-checked: everything temporal under fairness (`EventuallyReady`,
`StaleOrdersResolved`, `Reconnects`, `MarketDataGivesUp`, `EventuallySubscribed`,
`FatesLearned`, `CancelsResolved`, `SnapshotArrives`, `QuantitiesLearned`), which the
prover cannot express, and the six violations. No invariant or action property of a
passing run is without a theorem (`SentIsOutstanding` in the form of `SentCommitted`). What is proved and in no run was checked with TLC on
the same instances first.

## 5. Plan

In the order of importance; each module gets runs, mutants and, where marked, a
proof.

1. `AccountSync`, `AccountSyncProofs` - done.
2. `StreamSession`, `StreamSessionProofs` - done.
3. `MarketFeed`, `MarketFeedProofs` - done.
4. `OrderPromise`, `OrderActions`, `OrderActionsProofs` - done.
5. `BookSync`, `BookSyncProofs` - done.
6. `OrderReports`, `OrderReportsProofs`, `OrderReportsFeedProofs` - done.

`OrderActions` and `OrderReports` both implement `OrderPromise`, the first for any
number of orders and every route of a request, the second with the values.

Left: several orders in one `OrderReports`.

## 6. Not modelled

Signing (`account.cpp`, `tools/crypto.cpp`), configuration and flags (constant
after the start; those that change behaviour are CONSTANTS, but for
`experimental_crash_on_expired_token`, which ends the process when an expired token is
reported, `drop_copy.cpp:321` and `market_data.cpp:280`: the models have it off, as it
is by default), a redirected order action or order book call (the process ends, as in
`Redirected` of `AccountSync` and `MarketFeed`), the parsing of JSON and
the routing of messages by type, metrics and logging, the bridges and mains, the tests.

`Throttle` (`tools/throttle.cpp`): all it does is to suspend an external web client,
and the models already let a call take arbitrarily long or fail. That only the first 429
sets the back-off (`throttle.cpp:123`) is listed as a hazard without a property. The
code that would read the remaining budget from headers is commented out.

Tickers, trades and statistics of `MarketData` only forward data. Of the parts that
are modelled, the payloads: an update is told from another only where a property
needs it. `ViewExact` says nothing of a topic between a snapshot that was told after a
newer event and the next event: the code compares no sequence numbers, so the older
value stands until then.
