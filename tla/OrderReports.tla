---------------------------- MODULE OrderReports ----------------------------
(***************************************************************************)
(* What the server is told of an order, of its fills and of the account,   *)
(* and how a request becomes an order of the exchange.                     *)
(*                                                                         *)
(* Encoder::add_order writes the request with the values of map.cpp.  What *)
(* the exchange makes of it comes back over four routes: the events of     *)
(* DropCopy (WalletBalanceChange, PositionChange, OrderChange), the        *)
(* snapshots asked after each subscription (AccountAck, PositionsAck,      *)
(* OrdersAck), the query of a stale order (OrderAck) and the recent fills  *)
(* (FillsAck).  All of them are mapped back with map.cpp and told to the   *)
(* server, which knows no sequence number of any of them.                  *)
(*                                                                         *)
(* AccountSync has the detail of the sessions and requests.  Here one REST *)
(* call is out at a time, so that no answer to a query of stale orders is  *)
(* left over, and a failed call stands for a lost connection too.  One     *)
(* order stands for all: balance and position change with what it trades,  *)
(* so each is known by the quantity traded when it was read.               *)
(***************************************************************************)
EXTENDS Integers, Sequences, FiniteSets

CONSTANTS
  Cases,           \* what the client may ask for (CreateOrder), on which account
  Size,            \* quantity of the order
  DefaultMargin,   \* flag margin_mode
  TradesLookback,  \* whether flag download.trades_lookback is non-zero
  MaxFaults        \* how often each fault of the environment may happen

Sides == {"BUY", "SELL"}
OrderTypes == {"MARKET", "LIMIT"}
MarginModes == {"UNDEFINED", "ISOLATED", "CROSS", "PORTFOLIO"}
TimesInForce ==
  {"UNDEFINED", "GFD", "GTC", "OPG", "IOC", "FOK", "GTX", "GTD", "AT_THE_CLOSE",
   "GOOD_THROUGH_CROSSING", "AT_CROSSING", "GOOD_FOR_TIME", "GFA", "GFM"}
Instructions == {"PARTICIPATE_DO_NOT_INITIATE", "DO_NOT_INCREASE"}
PositionSides == {"BOTH", "LONG", "SHORT"}
FaultKinds == {"stream", "error"}
Topics == {"balances", "positions", "open_orders"}

ASSUME SizeAssumption == Size \in Nat \ {0}
ASSUME CasesAssumption ==
  Cases \subseteq
    [request : [side : Sides, type : OrderTypes, margin : MarginModes,
                tif : TimesInForce, instructions : SUBSET Instructions],
     account : [start : Int, side : PositionSides]]
ASSUME FlagsAssumption == DefaultMargin \in MarginModes /\ TradesLookback \in BOOLEAN
ASSUME FaultsAssumption == MaxFaults \in [FaultKinds -> Nat]

VARIABLES
  request,   \* what the client asks for
  account,   \* the account before the order: position and position side
  order,     \* the order at the exchange
  feeds,     \* topics the exchange sends to this session of DropCopy
  wire,      \* events on their way to the session
  stage,     \* download_.state() of DropCopy
  pending,   \* requested, not yet sent
  call,      \* the REST call in flight
  response,  \* committed, not yet seen by has_response
  wanted,    \* details_stale_orders has the order
  told,      \* the server: the order
  fills,     \* the server: how often each trade was told
  view,      \* the server: balance and position
  budget,    \* faults the environment may still inject
  seen,      \* history: quantity traded when the session last read the topic
  joined,    \* history: trades before the session subscribed to orders
  fresh      \* history: what the session has asked for

asked  == <<request, account>>
exchange == <<order, feeds, wire>>
board  == <<pending, call, response, wanted>>
server == <<told, fills, view>>
history == <<seen, joined, fresh>>
vars == <<asked, exchange, stage, board, server, budget, history>>

Spend(f) == budget[f] > 0 /\ budget' = [budget EXCEPT ![f] = @ - 1]

----------------------------------------------------------------------------
(* roq => exchange: a request on its way out. *)

RawSide == [BUY |-> "buy", SELL |-> "sell"]
RawOrderType == [MARKET |-> "market", LIMIT |-> "limit"]
RawMarginMode == [UNDEFINED |-> "ISOLATED", ISOLATED |-> "ISOLATED",
                  CROSS |-> "CROSS", PORTFOLIO |-> "ISOLATED"]

\* (Mutation of RawTimeInForce: the default of the exchange for the others.)
RawTimeInForceDefault ==
  [t \in TimesInForce |-> IF t \in {"IOC", "FOK"} THEN t ELSE "GTC"]

RawTimeInForce ==
  [t \in TimesInForce |-> IF t \in {"GTC", "IOC", "FOK"} THEN t ELSE "undefined"]

Margin(r) == IF r.margin # "UNDEFINED" THEN r.margin ELSE DefaultMargin

\* A market order has no time in force.  Neither the position effect nor the
\* leverage is sent.  ws_add_order puts the same in an envelope.
AddOrder(r) ==
  [side   |-> RawSide[r.side],
   margin |-> RawMarginMode[Margin(r)],
   type   |-> RawOrderType[r.type],
   tif    |-> IF r.type = "LIMIT" THEN RawTimeInForce[r.tif] ELSE "none",
   postOnly   |-> "PARTICIPATE_DO_NOT_INITIATE" \in r.instructions,
   reduceOnly |-> "DO_NOT_INCREASE" \in r.instructions]

----------------------------------------------------------------------------
(* exchange => roq: an order, a fill, a position on its way back. *)

MapLiquidity == [taker |-> "TAKER", maker |-> "MAKER"]
MapMarginMode == [CROSS |-> "CROSS", ISOLATED |-> "ISOLATED"]
MapOrderStatus == [open |-> "WORKING", match |-> "WORKING", done |-> "COMPLETED"]
MapOrderType == [market |-> "MARKET", limit |-> "LIMIT"]
MapSide == [buy |-> "BUY", sell |-> "SELL"]
MapTimeInForce == [GTC |-> "GTC", IOC |-> "IOC", FOK |-> "FOK", GTT |-> "UNDEFINED"]

\* In one-way mode the exchange does not say whether an order opens or closes.
MapPositionEffect(positionSide, side) ==
  IF positionSide = "BOTH" THEN "UNDEFINED"
  ELSE IF (positionSide = "LONG") = (side = "buy") THEN "OPEN" ELSE "CLOSE"

\* (Mutation of Quantities: std::max is forgotten.)
QuantitiesSigned(q) == [long |-> q, short |-> -q]

\* long_quantity and short_quantity of a signed position.
Quantities(q) == [long  |-> IF q > 0 THEN q ELSE 0,
                  short |-> IF q > 0 THEN 0 ELSE -q]

----------------------------------------------------------------------------
(* The exchange. *)

Trades == [from : 0..Size, to : 1..Size, liquidity : DOMAIN MapLiquidity]
NoTrade == [from |-> 0, to |-> 0, liquidity |-> "maker"]

Wired == AddOrder(request)
Magnitude(q) == IF q < 0 THEN -q ELSE q
Signed(n) == IF Wired.side = "buy" THEN n ELSE -n

\* The position when n of the order has traded.
Position(n) == account.start + Signed(n)
Reduces == \A n \in 1..Size : Magnitude(Position(n)) < Magnitude(Position(n - 1))

\* An order of unknown time in force, one that would open although it must not,
\* or one that does not fit its position side, is refused.  (So it is assumed of
\* the exchange: nothing in the gateway holds these orders back.)
Acceptable ==
  /\ Wired.tif # "undefined"
  /\ Wired.reduceOnly => Reduces
  /\ \A n \in 0..Size : /\ account.side = "LONG" => Position(n) >= 0
                        /\ account.side = "SHORT" => Position(n) <= 0

\* The values of the order that the exchange repeats in each report.
Item == [side |-> Wired.side, margin |-> Wired.margin, type |-> Wired.type,
         tif |-> IF Wired.tif = "none" THEN "GTC" ELSE Wired.tif,
         positionSide |-> account.side]

\* An order that may wait in the book.  It takes before it rests and makes after.
Rests == Wired.type = "limit" /\ Wired.tif = "GTC"
Liquidity == IF order.status = "resting" THEN "maker" ELSE "taker"
Live == order.status \in {"taking", "resting"}

\* A market order finds enough to trade.
AtOnce == Wired.tif = "FOK" \/ Wired.type = "market"

Event(type, status, filled, remain, trade) ==
  [topic |-> "open_orders", type |-> type, status |-> status,
   filled |-> filled, remain |-> remain, trade |-> trade]

\* A balance or a position.
Quantity(topic, filled) ==
  [topic |-> topic, type |-> "none", status |-> "none", filled |-> filled,
   remain |-> 0, trade |-> NoTrade]

\* DropCopy has one connection, and gets the topics it has subscribed.
Part(topic, events) == IF topic \in feeds THEN events ELSE <<>>

Unmoved == UNCHANGED <<asked, feeds, stage, board, server, budget, history>>

Refuse ==
  /\ order.status = "none"
  /\ order' = [order EXCEPT !.status = "refused"]
  /\ UNCHANGED wire /\ Unmoved

Accept ==
  /\ order.status = "none" /\ Acceptable
  /\ order' = [order EXCEPT !.status = "taking"]
  /\ UNCHANGED wire /\ Unmoved

\* An order that rests in the book is announced.
Rest ==
  /\ order.status = "taking" /\ Rests
  /\ order' = [order EXCEPT !.status = "resting"]
  /\ wire' = wire \o Part("open_orders",
       <<Event("open", "open", order.filled, Size - order.filled, NoTrade)>>)
  /\ Unmoved

\* The last trade is announced as a match of an order still open, and then as a
\* filled order.
Match(n) ==
  LET total  == order.filled + n
      last   == total = Size
      trade  == [from |-> order.filled, to |-> total, liquidity |-> Liquidity]
      match  == Event("match", IF Liquidity = "taker" THEN "match" ELSE "open",
                      total, Size - total, trade)
      filled == Event("filled", "done", total, 0, NoTrade)
  IN /\ Live /\ (Wired.postOnly => order.status = "resting")
     /\ total <= Size /\ (AtOnce => last)
     /\ order' = [status |-> IF last THEN "done" ELSE order.status,
                  filled |-> total, trades |-> order.trades \cup {trade}]
     /\ wire' = wire \o Part("open_orders", IF last THEN <<match, filled>> ELSE <<match>>)
                     \o Part("balances", <<Quantity("balances", total)>>)
                     \o Part("positions", <<Quantity("positions", total)>>)
     /\ Unmoved

Cancel ==
  /\ Live
  /\ order' = [order EXCEPT !.status = "done"]
  /\ wire' = wire \o Part("open_orders",
                           <<Event("canceled", "done", order.filled, 0, NoTrade)>>)
  /\ Unmoved

Subscribes == [SUBSCRIBE_BALANCES |-> "balances", SUBSCRIBE_POSITIONS |-> "positions",
               SUBSCRIBE_ORDERS |-> "open_orders"]

\* The exchange sees a subscription, before DropCopy sees its ack.
Subscribe ==
  /\ stage \in DOMAIN Subscribes /\ Subscribes[stage] \notin feeds
  /\ feeds' = feeds \cup {Subscribes[stage]}
  /\ joined' = IF stage = "SUBSCRIBE_ORDERS" THEN order.trades ELSE joined
  /\ UNCHANGED <<asked, order, wire, stage, board, server, budget, seen, fresh>>

\* A call is served with the state of its time.  (OrderActions has the query that
\* overtakes the order it asks about.)
Serve ==
  /\ call.kind # "none" /\ call.image = <<>>
  /\ call.kind = "stale_orders" => order.status # "none"
  /\ call' = [call EXCEPT !.image = <<order>>]
  /\ UNCHANGED <<asked, exchange, stage, pending, response, wanted, server,
                 budget, history>>

----------------------------------------------------------------------------
(* The server. *)

Over == {"COMPLETED", "CANCELED", "REJECTED"}

\* An update of the order.  One that has ended stays as it is.
Update(new) == told' = IF told.status \in Over THEN told ELSE new

Fields(item, tif) ==
  [side |-> MapSide[item.side],
   effect |-> MapPositionEffect(item.positionSide, item.side),
   margin |-> MapMarginMode[item.margin], type |-> MapOrderType[item.type],
   tif |-> tif]
NoFields == [side |-> "UNDEFINED", effect |-> "UNDEFINED", margin |-> "UNDEFINED",
             type |-> "UNDEFINED", tif |-> "UNDEFINED"]

----------------------------------------------------------------------------
(* DropCopy: events. *)

Receive(x) == wire # <<>> /\ Head(wire).topic = x /\ wire' = Tail(wire)
Read(x) == seen' = [seen EXCEPT ![x] = Head(wire).filled]
Quiet == UNCHANGED <<asked, order, feeds, stage, board, budget, joined, fresh>>

WalletBalanceChange ==
  /\ Receive("balances") /\ Read("balances")
  /\ view' = [view EXCEPT !.balances = Head(wire).filled]
  /\ UNCHANGED <<told, fills>> /\ Quiet

PositionChange ==
  /\ Receive("positions") /\ Read("positions")
  /\ view' = [view EXCEPT !.positions = Quantities(Position(Head(wire).filled))]
  /\ UNCHANGED <<told, fills>> /\ Quiet

\* (Mutation of EventStatus: any match completes the order.)
EventStatusAnyMatch(e) ==
  IF e.type = "match" THEN "COMPLETED"
  ELSE IF e.type = "canceled" THEN "CANCELED" ELSE MapOrderStatus[e.status]

\* The last match comes while the order still counts as open, and a cancelled
\* order is done like a filled one.
EventStatus(e) ==
  IF e.type = "match" /\ e.remain = 0 THEN "COMPLETED"
  ELSE IF e.type = "canceled" THEN "CANCELED" ELSE MapOrderStatus[e.status]

\* The trades that the callback tells.
EventFills(e) == IF e.type = "match" THEN {e.trade} ELSE {}

\* The update has no time in force.
OrderChange ==
  LET e == Head(wire)
      status == EventStatus(e)
  IN /\ Receive("open_orders")
     /\ Update([status |-> status, traded |-> e.filled,
                remaining |-> IF status = "CANCELED" THEN 0 ELSE e.remain,
                fields |-> Fields(Item, "UNDEFINED")])
     /\ fills' = [t \in Trades |-> IF t \in EventFills(e) THEN fills[t] + 1
                                   ELSE fills[t]]
     /\ UNCHANGED <<view, seen>> /\ Quiet

----------------------------------------------------------------------------
(* OrderEntryREST: answers.  A failed call is committed like a good one. *)

NoCall == [kind |-> "none", image |-> <<>>, mine |-> FALSE]
Answered(k) == call.kind = k /\ call.image # <<>>
Image == call.image[1]

Commit ==
  /\ call' = NoCall /\ response' = response \cup {call.kind}
  /\ UNCHANGED <<asked, exchange, stage, pending, wanted, joined, fresh>>

\* (Mutation of Fails: only a good answer is committed.)
FailsUncommitted ==
  /\ call.kind # "none" /\ call.image = <<>> /\ Spend("error")
  /\ call' = NoCall
  /\ UNCHANGED <<asked, exchange, stage, pending, response, wanted, server, history>>

Fails ==
  /\ call.kind # "none" /\ call.image = <<>> /\ Spend("error") /\ Commit
  /\ UNCHANGED <<server, seen>>

\* A snapshot older than an event that was told, or asked by an earlier session,
\* is told all the same; nothing is known of the topic until the next event.
ReadImage(x) ==
  seen' = [seen EXCEPT ![x] = IF call.mine /\ Image.filled >= @ THEN Image.filled
                              ELSE -1]

GetAccountAck ==
  /\ Answered("balances") /\ Commit /\ ReadImage("balances")
  /\ view' = [view EXCEPT !.balances = Image.filled]
  /\ UNCHANGED <<told, fills, budget>>

\* Only the positions that the exchange lists are told, and it may leave out a
\* flat one.
GetPositionsAck(listed) ==
  /\ Answered("positions") /\ Commit
  /\ listed \/ Position(Image.filled) = 0
  /\ IF listed
     THEN /\ ReadImage("positions")
          /\ view' = [view EXCEPT !.positions = Quantities(Position(Image.filled))]
     ELSE UNCHANGED <<view, seen>>
  /\ UNCHANGED <<told, fills, budget>>

\* The status of an order in a snapshot or an answer.
Listed(o) == IF o.status = "done" THEN "done" ELSE "open"

\* (Mutation of ItemStatus: an order that is done counts as filled.)
ItemStatusMapped(o) == MapOrderStatus[Listed(o)]

\* An order that is done before it is filled was cancelled.
ItemStatus(o) ==
  IF MapOrderStatus[Listed(o)] = "COMPLETED" /\ o.filled # Size THEN "CANCELED"
  ELSE MapOrderStatus[Listed(o)]

ItemUpdate(o) ==
  Update([status |-> ItemStatus(o), traded |-> o.filled,
          remaining |-> IF ItemStatus(o) = "CANCELED" THEN 0 ELSE Size - o.filled,
          fields |-> Fields(Item, MapTimeInForce[Item.tif])])

\* Only orders that are active are listed.
GetOrdersAck ==
  /\ Answered("open_orders") /\ Commit
  /\ IF Image.status \in {"taking", "resting"} THEN ItemUpdate(Image) ELSE UNCHANGED told
  /\ UNCHANGED <<fills, view, budget, seen>>

\* An order that the exchange does not know is rejected; nothing else is told.
GetOrderAck ==
  /\ Answered("stale_orders") /\ Commit
  /\ IF Image.status = "refused" THEN Update([told EXCEPT !.status = "REJECTED"])
     ELSE ItemUpdate(Image)
  /\ UNCHANGED <<fills, view, budget, seen>>

\* (Mutation of GetFillsAck: the update is dispatched.)
GetFillsAckDispatched ==
  /\ Answered("trades") /\ Commit
  /\ fills' = [t \in Trades |-> IF t \in Image.trades THEN fills[t] + 1
                                ELSE fills[t]]
  /\ UNCHANGED <<told, view, budget, seen>>

\* The fills are decoded and mapped, and told to nobody.
GetFillsAck ==
  /\ Answered("trades") /\ Commit
  /\ UNCHANGED <<server, budget, seen>>

----------------------------------------------------------------------------
(* DropCopy: the session. *)

Asks == [GET_BALANCES |-> "balances", GET_POSITIONS |-> "positions",
         GET_OPEN_ORDERS |-> "open_orders", GET_STALE_ORDERS |-> "stale_orders",
         GET_TRADES |-> "trades"]
Stages == DOMAIN Subscribes \cup DOMAIN Asks \cup {"UNDEFINED", "DONE"}
Kinds == {Asks[s] : s \in DOMAIN Asks}
Rank == [balances |-> 1, positions |-> 2, open_orders |-> 3, stale_orders |-> 4,
         trades |-> 5]

AfterOrders == IF TradesLookback THEN "GET_TRADES" ELSE "DONE"

\* (Mutation of Follows: each snapshot is asked before its topic is subscribed.)
FollowsSnapshotFirst(s, stales) ==
  CASE s = "UNDEFINED"           -> "GET_BALANCES"
    [] s = "GET_BALANCES"        -> "SUBSCRIBE_BALANCES"
    [] s = "SUBSCRIBE_BALANCES"  -> "GET_POSITIONS"
    [] s = "GET_POSITIONS"       -> "SUBSCRIBE_POSITIONS"
    [] s = "SUBSCRIBE_POSITIONS" -> "SUBSCRIBE_ORDERS"
    [] s = "SUBSCRIBE_ORDERS"    -> "GET_OPEN_ORDERS"
    [] s = "GET_OPEN_ORDERS"     -> IF stales THEN "GET_STALE_ORDERS" ELSE AfterOrders
    [] s = "GET_STALE_ORDERS"    -> AfterOrders
    [] OTHER                     -> "DONE"

\* The stage after s: no query without a stale order, no trades without lookback.
Follows(s, stales) ==
  CASE s = "UNDEFINED"           -> "SUBSCRIBE_BALANCES"
    [] s = "SUBSCRIBE_BALANCES"  -> "GET_BALANCES"
    [] s = "GET_BALANCES"        -> "SUBSCRIBE_POSITIONS"
    [] s = "SUBSCRIBE_POSITIONS" -> "GET_POSITIONS"
    [] s = "GET_POSITIONS"       -> "SUBSCRIBE_ORDERS"
    [] s = "SUBSCRIBE_ORDERS"    -> "GET_OPEN_ORDERS"
    [] s = "GET_OPEN_ORDERS"     -> IF stales THEN "GET_STALE_ORDERS" ELSE AfterOrders
    [] s = "GET_STALE_ORDERS"    -> AfterOrders
    [] OTHER                     -> "DONE"

\* Moving to stage t makes its request.
Asked(t) == IF t \in DOMAIN Asks THEN {Asks[t]} ELSE {}
Enter(t, p, r) ==
  /\ stage' = t /\ pending' = p \cup Asked(t) /\ response' = r \ Asked(t)
  /\ fresh' = fresh \cup Asked(t)

DropCopyWelcome ==
  /\ stage = "UNDEFINED"
  /\ Enter(Follows(stage, wanted), pending, response)
  /\ UNCHANGED <<asked, exchange, call, wanted, server, budget, seen, joined>>

DropCopyAck ==
  /\ stage \in DOMAIN Subscribes /\ Subscribes[stage] \in feeds
  /\ Enter(Follows(stage, wanted), pending, response)
  /\ UNCHANGED <<asked, exchange, call, wanted, server, budget, seen, joined>>

\* Calls, requests and responses survive the session.
DropCopyDisconnected ==
  /\ stage # "UNDEFINED" /\ Spend("stream")
  /\ stage' = "UNDEFINED" /\ feeds' = {}
  /\ wire' = <<>>
  /\ call' = [call EXCEPT !.mine = FALSE]
  /\ seen' = [x \in DOMAIN seen |-> -1] /\ joined' = {} /\ fresh' = {}
  /\ UNCHANGED <<asked, order, pending, response, wanted, server>>

\* A tick: OrderEntryREST sends the first request that is pending, unless a call
\* is out; then DropCopy looks at the responses and, when ready, for stale orders.
\* Any open order may be one that nothing was heard of for a while.
\* Sending the query of the stale orders empties the list of them.
Sendable == {k \in pending : call = NoCall /\ \A j \in pending : Rank[k] <= Rank[j]}

Answers(s) == IF s \in DOMAIN Asks THEN {Asks[s]} \cap response ELSE {}

Timer(stale) ==
  LET sends == Sendable
      p    == pending \ sends
      done == Answers(stage)
      scan == done # {} /\ stage = "GET_OPEN_ORDERS"
      w    == (wanted /\ "stale_orders" \notin sends) \/ (scan /\ stale)
      t    == IF done = {} THEN stage ELSE Follows(stage, w)
      due  == t = "DONE" /\ stale /\ ~w
  IN /\ stale => told.status \notin Over
     /\ call' = IF sends = {} THEN call
                ELSE [kind |-> CHOOSE k \in sends : TRUE, image |-> <<>>,
                      mine |-> sends \subseteq fresh]
     /\ wanted' = (w \/ due)
     /\ IF due
        THEN /\ stage' = t /\ pending' = p \cup {"stale_orders"}
             /\ response' = response \ (done \cup {"stale_orders"}) /\ UNCHANGED fresh
        ELSE IF done # {} THEN Enter(t, p, response \ done)
        ELSE pending' = p /\ UNCHANGED <<stage, response, fresh>>
     /\ UNCHANGED <<asked, exchange, server, budget, seen, joined>>

----------------------------------------------------------------------------
Init ==
  /\ \E c \in Cases : request = c.request /\ account = c.account
  /\ order = [status |-> "none", filled |-> 0, trades |-> {}]
  /\ feeds = {} /\ wire = <<>>
  /\ stage = "UNDEFINED" /\ pending = {} /\ call = NoCall /\ response = {}
  /\ wanted = FALSE
  /\ told = [status |-> "SENT", traded |-> 0, remaining |-> Size, fields |-> NoFields]
  /\ fills = [t \in Trades |-> 0]
  /\ view = [balances |-> -1, positions |-> [long |-> 0, short |-> 0]]
  /\ budget = MaxFaults
  /\ seen = [x \in {"balances", "positions"} |-> -1] /\ joined = {}
  /\ fresh = {}

ExchangeNext ==
  \/ Refuse
  \/ Accept
  \/ Rest
  \/ \E n \in 1..Size : Match(n)
  \/ Cancel
  \/ Subscribe
  \/ Serve

AnswerNext ==
  \/ GetAccountAck
  \/ \E listed \in BOOLEAN : GetPositionsAck(listed)
  \/ GetOrdersAck
  \/ GetOrderAck
  \/ GetFillsAck
  \/ Fails

DropCopyNext ==
  \/ WalletBalanceChange
  \/ PositionChange
  \/ OrderChange
  \/ DropCopyWelcome
  \/ DropCopyAck
  \/ DropCopyDisconnected
  \/ \E stale \in BOOLEAN : Timer(stale)

Next == ExchangeNext \/ AnswerNext \/ DropCopyNext

Spec == Init /\ [][Next]_vars
----------------------------------------------------------------------------
(* Safety. *)

Orders == [status : {"none", "refused", "taking", "resting", "done"},
           filled : 0..Size, trades : SUBSET Trades]
Events == [topic : Topics, type : {"none", "open", "match", "filled", "canceled"},
           status : {"none", "open", "match", "done"}, filled : 0..Size,
           remain : 0..Size, trade : Trades \cup {NoTrade}]
Reports == [status : Over \cup {"SENT", "WORKING"}, traded : 0..Size,
            remaining : 0..Size,
            fields : [side : Sides \cup {"UNDEFINED"},
                      effect : {"UNDEFINED", "OPEN", "CLOSE"}, margin : MarginModes,
                      type : OrderTypes \cup {"UNDEFINED"}, tif : TimesInForce]]

TypeOK ==
  /\ [request |-> request, account |-> account] \in Cases
  /\ order \in Orders /\ feeds \subseteq Topics /\ wire \in Seq(Events)
  /\ stage \in Stages /\ pending \subseteq Kinds /\ response \subseteq Kinds
  /\ call \in [kind : Kinds \cup {"none"}, image : Seq(Orders), mine : BOOLEAN]
  /\ wanted \in BOOLEAN
  /\ told \in Reports /\ fills \in [Trades -> Nat]
  /\ view \in [balances : -1..Size, positions : [long : Nat, short : Nat]]
  /\ budget \in [FaultKinds -> Nat]
  /\ seen \in [{"balances", "positions"} -> -1..Size]
  /\ joined \subseteq order.trades /\ fresh \subseteq Kinds

\* Whichever route a report came by, its status and quantities fit together and
\* are, or were, those of the order at the exchange: an order that still works
\* has something left, one reported complete has traded in full, one reported
\* cancelled has traded what it will ever trade.
ReportsTrue ==
  /\ told.status = "WORKING" =>
       /\ told.traded + told.remaining = Size /\ told.remaining > 0
       /\ told.traded <= order.filled /\ (Live \/ order.status = "done")
  /\ told.status = "COMPLETED" =>
       /\ told.traded = Size /\ told.remaining = 0 /\ order.filled = Size
  /\ told.status = "CANCELED" =>
       /\ told.traded = order.filled /\ told.remaining = 0
       /\ order.status = "done" /\ order.filled < Size
  /\ told.status = "REJECTED" => order.status = "refused"

\* What became of the order, and where it stands for the server.
Fate == IF Live THEN "live"
        ELSE IF order.status = "none" THEN "out"
        ELSE IF order.status = "refused" THEN "never" ELSE "ended"
Standing == IF told.status = "SENT" THEN "sent"
            ELSE IF told.status = "WORKING" THEN "working" ELSE "ended"

P == INSTANCE OrderPromise WITH
       Orders <- {"order"},
       fate <- [o \in {"order"} |-> Fate], told <- [o \in {"order"} |-> Standing]

\* The reports keep the promise made about orders: none that lives, or may yet
\* live, is reported as over, none as working that was not taken, and an end once
\* reported is final, whichever routes overtake each other.
KeepsPromise == P!SubmittedSpec

Announced(t) == \E k \in DOMAIN wire : wire[k].trade = t

\* No trade is told twice or was never made, and none of those that were made
\* since the session subscribed is missing: it was told, or its match is on the
\* way.
FillsExact ==
  /\ \A t \in Trades : fills[t] <= 1 /\ (fills[t] = 1 => t \in order.trades)
  /\ "open_orders" \in feeds =>
       \A t \in order.trades \ joined : fills[t] = 1 \/ Announced(t)

\* Nothing falls between a snapshot and the events: once a balance or a position
\* was told by this session and no event is on its way, what was told last is
\* what the exchange has.  (Not when a snapshot was told after an event it does
\* not know, see ReadImage.)
ViewExact ==
  \A x \in {"balances", "positions"} :
    x \in feeds /\ seen[x] # -1 /\ (\A k \in DOMAIN wire : wire[k].topic # x) =>
      IF x = "balances" THEN view.balances = order.filled
      ELSE view.positions = Quantities(Position(order.filled))

Grows == \A n \in 1..Size : Magnitude(Position(n)) > Magnitude(Position(n - 1))

\* What the server is told of the order, by either route, is what the client asked
\* for: its side and type; its margin mode, save that one the exchange does not
\* have (PORTFOLIO, or none at all) is asked for, and told, as ISOLATED; and the
\* time in force of a limit order, or none.  A market order carries no time in
\* force, whatever the client gave: it is told as the exchange's GTC.  (A time in
\* force the exchange does not have is sent as undefined; that the exchange
\* refuses it is assumed, see Acceptable.)  An order that must not take liquidity
\* or increase the position is never reported to have done so; and an order
\* reported to open or close moves the position that way.
FieldsAgree ==
  /\ told.fields # NoFields =>
       /\ told.fields.side = request.side /\ told.fields.type = request.type
       /\ told.fields.margin = IF Margin(request) = "CROSS" THEN "CROSS" ELSE "ISOLATED"
       /\ told.fields.tif \in
            {"UNDEFINED", IF request.type = "LIMIT" THEN request.tif ELSE "GTC"}
       /\ told.fields.effect = "OPEN" => Grows
       /\ told.fields.effect = "CLOSE" => Reduces
  /\ "PARTICIPATE_DO_NOT_INITIATE" \in request.instructions =>
       \A t \in Trades : fills[t] > 0 => MapLiquidity[t.liquidity] = "MAKER"
  /\ "DO_NOT_INCREASE" \in request.instructions =>
       view.positions.long + view.positions.short <= Magnitude(account.start)

----------------------------------------------------------------------------
(* Liveness. *)

\* The exchange decides and serves, calls complete, the timer ticks and sends,
\* DropCopy reconnects and reads, and orders nothing is heard of turn stale.
\* Nothing obliges an order to trade or to end.
Fairness ==
  /\ WF_vars(Refuse \/ Accept)
  /\ WF_vars(DropCopyWelcome \/ Subscribe \/ DropCopyAck)
  /\ WF_vars(WalletBalanceChange \/ PositionChange \/ OrderChange)
  /\ WF_vars(\/ Serve \/ GetAccountAck \/ GetPositionsAck(TRUE) \/ GetOrdersAck
             \/ GetOrderAck \/ GetFillsAck)
  /\ WF_vars(Timer(told.status \notin Over))

FairSpec == Spec /\ Fairness

\* The server learns the final quantities of an order that is over, whatever was
\* lost on the way: events, snapshots or queries.
QuantitiesLearned ==
  order.status = "done" ~>
    told.status \in {"COMPLETED", "CANCELED"} /\ told.traded = order.filled

\* Every trade is told in the end.  The download of recent fills after an outage
\* (flag download.trades_lookback) is there for the trades the outage hid.
FillsRecovered ==
  \A t \in Trades : t \in order.trades ~> fills[t] > 0
=============================================================================
