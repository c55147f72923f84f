------------------------- MODULE OrderReportsProofs -------------------------
(***************************************************************************)
(* Proofs about OrderReports, for every size of the order, every request   *)
(* and account, and any number of faults.                                  *)
(***************************************************************************)
EXTENDS OrderReports, SequenceTheorems, TLAPS

----------------------------------------------------------------------------
(* Sequences. *)

Elems(s) == {s[k] : k \in 1..Len(s)}

LEMMA ElemsSeq ==
  ASSUME NEW S, NEW s \in Seq(S)
  PROVE  \A x \in Elems(s) : x \in S
  BY DEF Elems

LEMMA ElemsNone == Elems(<<>>) = {}
  BY DEF Elems

LEMMA ElemsOne ==
  ASSUME NEW S, NEW a \in S
  PROVE  <<a>> \in Seq(S) /\ Elems(<<a>>) = {a}
  BY DEF Elems

LEMMA ElemsTwo ==
  ASSUME NEW S, NEW a \in S, NEW b \in S
  PROVE  <<a, b>> \in Seq(S) /\ Elems(<<a, b>>) = {a, b}
<1>1. 1..Len(<<a, b>>) = {1, 2} /\ <<a, b>>[1] = a /\ <<a, b>>[2] = b
  OBVIOUS
<1> QED BY <1>1 DEF Elems

LEMMA ElemsConcat ==
  ASSUME NEW S, NEW s \in Seq(S), NEW t \in Seq(S)
  PROVE  /\ s \o t \in Seq(S)
         /\ \A x \in Elems(s \o t) : x \in Elems(s) \/ x \in Elems(t)
<1>1. /\ s \o t \in Seq(S) /\ Len(s \o t) = Len(s) + Len(t)
      /\ \A k \in 1..Len(s) : (s \o t)[k] = s[k]
      /\ \A k \in 1..Len(t) : (s \o t)[k + Len(s)] = t[k]
  BY ConcatProperties
<1>2. ASSUME NEW k \in 1..Len(s \o t) PROVE (s \o t)[k] \in Elems(s) \cup Elems(t)
  <2>1. CASE k <= Len(s)
    BY <1>1, <2>1 DEF Elems
  <2>2. CASE k > Len(s)
    <3>1. k - Len(s) \in 1..Len(t) /\ (k - Len(s)) + Len(s) = k
      BY <1>1, <2>2
    <3> QED BY <1>1, <3>1 DEF Elems
  <2> QED BY <2>1, <2>2
<1>3. ASSUME NEW x \in Elems(s \o t) PROVE x \in Elems(s) \/ x \in Elems(t)
  <2>1. PICK k \in 1..Len(s \o t) : x = (s \o t)[k]
    BY DEF Elems
  <2> QED BY <1>2, <2>1
<1> QED BY <1>1, <1>3

LEMMA ElemsTail ==
  ASSUME NEW S, NEW s \in Seq(S), s # <<>>
  PROVE  /\ Tail(s) \in Seq(S) /\ Head(s) \in Elems(s) /\ Head(s) \in S
         /\ \A x \in Elems(Tail(s)) : x \in Elems(s)
<1>1. /\ Len(s) \in Nat \ {0} /\ Tail(s) \in Seq(S) /\ Len(Tail(s)) = Len(s) - 1
      /\ \A k \in 1..Len(Tail(s)) : Tail(s)[k] = s[k + 1]
      /\ Head(s) = s[1]
  BY HeadTailProperties, EmptySeq
<1>2. Head(s) \in Elems(s) /\ Head(s) \in S
  BY <1>1 DEF Elems
<1>3. ASSUME NEW x \in Elems(Tail(s)) PROVE x \in Elems(s)
  <2>1. PICK k \in 1..Len(Tail(s)) : x = Tail(s)[k]
    BY DEF Elems
  <2>2. k + 1 \in 1..Len(s) /\ x = s[k + 1]
    BY <1>1, <2>1
  <2> QED BY <2>2 DEF Elems
<1> QED BY <1>1, <1>2, <1>3

----------------------------------------------------------------------------
(* The values that are written and read. *)

LEMMA WiredValues ==
  ASSUME TypeOK
  PROVE  /\ Wired.side \in {"buy", "sell"} /\ Wired.type \in {"market", "limit"}
         /\ Wired.margin \in {"ISOLATED", "CROSS"}
         /\ Wired.tif \in {"none", "undefined", "GTC", "IOC", "FOK"}
         /\ Wired.postOnly \in BOOLEAN /\ Wired.reduceOnly \in BOOLEAN
         /\ account.start \in Int /\ account.side \in PositionSides
<1>1. /\ request \in [side : Sides, type : OrderTypes, margin : MarginModes,
                      tif : TimesInForce, instructions : SUBSET Instructions]
      /\ account \in [start : Int, side : PositionSides]
  BY CasesAssumption DEF TypeOK
<1>2. RawSide[request.side] \in {"buy", "sell"}
  BY <1>1 DEF RawSide, Sides
<1>3. RawOrderType[request.type] \in {"market", "limit"}
  BY <1>1 DEF RawOrderType, OrderTypes
<1>4. RawMarginMode[Margin(request)] \in {"ISOLATED", "CROSS"}
  BY <1>1, FlagsAssumption DEF RawMarginMode, MarginModes, Margin
<1>5. RawTimeInForce[request.tif] \in {"undefined", "GTC", "IOC", "FOK"}
  BY <1>1 DEF RawTimeInForce
<1> QED BY <1>1, <1>2, <1>3, <1>4, <1>5 DEF Wired, AddOrder

LEMMA ItemValues ==
  ASSUME TypeOK
  PROVE  /\ Item.side \in {"buy", "sell"} /\ Item.type \in {"market", "limit"}
         /\ Item.margin \in {"ISOLATED", "CROSS"} /\ Item.positionSide \in PositionSides
         /\ Acceptable => Item.tif \in {"GTC", "IOC", "FOK"}
  BY WiredValues DEF Item, Acceptable

FieldsType == [side : Sides \cup {"UNDEFINED"},
               effect : {"UNDEFINED", "OPEN", "CLOSE"}, margin : MarginModes,
               type : OrderTypes \cup {"UNDEFINED"}, tif : TimesInForce]

LEMMA FieldsOfItem ==
  ASSUME TypeOK, NEW t \in TimesInForce
  PROVE  Fields(Item, t) \in FieldsType
<1>1. MapSide[Item.side] \in Sides
  BY ItemValues DEF MapSide, Sides
<1>2. MapMarginMode[Item.margin] \in MarginModes
  BY ItemValues DEF MapMarginMode, MarginModes
<1>3. MapOrderType[Item.type] \in OrderTypes
  BY ItemValues DEF MapOrderType, OrderTypes
<1>4. MapPositionEffect(Item.positionSide, Item.side) \in {"UNDEFINED", "OPEN", "CLOSE"}
  BY DEF MapPositionEffect
<1> QED BY <1>1, <1>2, <1>3, <1>4 DEF Fields, FieldsType

LEMMA TimeInForceOfItem ==
  ASSUME TypeOK, Acceptable
  PROVE  MapTimeInForce[Item.tif] \in TimesInForce
  BY ItemValues DEF MapTimeInForce, TimesInForce

LEMMA QuantitiesType == \A q \in Int : Quantities(q) \in [long : Nat, short : Nat]
  BY DEF Quantities

LEMMA PositionInt == TypeOK => \A n \in Int : Position(n) \in Int
  BY WiredValues DEF Position, Signed

----------------------------------------------------------------------------
(* The inductive invariant: the order only moves on, and every report that is *)
(* on its way was true when it was made.                                      *)

Known == order.status \notin {"none", "refused"}

OrderOK ==
  /\ ~Known => order.filled = 0
  /\ Known => Acceptable
  /\ Live => order.filled < Size

EventOK(e) ==
  /\ Known /\ e.filled <= order.filled
  /\ \/ e.type = "open" /\ e.status = "open" /\ e.remain = Size - e.filled
        /\ e.filled < Size
     \/ e.type = "match" /\ e.status \in {"open", "match"}
        /\ e.remain = Size - e.filled
     \/ e.type = "filled" /\ e.status = "done" /\ e.remain = 0 /\ e.filled = Size
     \/ e.type = "canceled" /\ e.remain = 0 /\ order.status = "done"
        /\ e.filled = order.filled /\ e.filled < Size

WireOK == \A e \in Elems(wire) : e.topic = "open_orders" => EventOK(e)

ImageTrue(o) ==
  /\ o.filled <= order.filled
  /\ o.status = "refused" => order.status = "refused"
  /\ o.status = "done" => order.status = "done" /\ o.filled = order.filled
  /\ o.status \in {"taking", "resting"} => Known /\ o.filled < Size

ImageOK ==
  call.image # <<>> =>
    /\ ImageTrue(call.image[1])
    /\ call.kind = "stale_orders" => call.image[1].status # "none"

ReportsInv == TypeOK /\ OrderOK /\ WireOK /\ ImageOK /\ ReportsTrue

\* The order moves on.
Advances ==
  /\ asked' = asked /\ order' \in Orders /\ order.filled <= order'.filled
  /\ order.trades \subseteq order'.trades
  /\ Known => Known'
  /\ order.status = "refused" => order'.status = "refused"
  /\ order.status = "done" => order' = order

LEMMA SameRequest ==
  ASSUME asked' = asked
  PROVE  /\ Acceptable' = Acceptable /\ Item' = Item /\ Wired' = Wired
         /\ \A n : Position(n)' = Position(n)
         /\ request' = request /\ account' = account
<1>1. request' = request /\ account' = account
  BY DEF asked
<1>2. Wired' = Wired
  BY <1>1 DEF Wired
<1>3. \A n : Position(n)' = Position(n)
  BY <1>1, <1>2 DEF Position, Signed
<1>4. Item' = Item
  BY <1>1, <1>2 DEF Item
<1>5. Acceptable' = Acceptable
  BY <1>1, <1>2, <1>3 DEF Acceptable, Reduces, Magnitude
<1> QED BY <1>1, <1>2, <1>3, <1>4, <1>5

LEMMA ActsOfExchange ==
  ASSUME TypeOK, OrderOK, Refuse \/ Accept \/ Rest \/ Cancel \/ (\E n \in 1..Size : Match(n))
  PROVE  Advances /\ OrderOK'
<1>0. order \in Orders /\ Size \in Nat \ {0}
  BY SizeAssumption DEF TypeOK
<1>1. asked' = asked
  BY DEF Refuse, Accept, Rest, Cancel, Match, Unmoved
<1>2. Acceptable' = Acceptable
  BY <1>1, SameRequest
<1>3. CASE Refuse
  BY <1>0, <1>1, <1>2, <1>3 DEF Refuse, Orders, Advances, OrderOK, Known, Live
<1>4. CASE Accept
  BY <1>0, <1>1, <1>2, <1>4 DEF Accept, Orders, Advances, OrderOK, Known, Live
<1>5. CASE Rest
  <2>1. /\ order.status = "taking" /\ order' \in Orders
        /\ order' = [status |-> "resting", filled |-> order.filled, trades |-> order.trades]
    BY <1>0, <1>5 DEF Rest, Orders
  <2> QED BY <1>0, <1>1, <1>2, <2>1 DEF Orders, Advances, OrderOK, Known, Live
<1>6. CASE Cancel
  <2>1. /\ Live /\ order' \in Orders
        /\ order' = [status |-> "done", filled |-> order.filled, trades |-> order.trades]
    BY <1>0, <1>6 DEF Cancel, Orders
  <2> QED BY <1>0, <1>1, <1>2, <2>1 DEF Orders, Advances, OrderOK, Known, Live
<1>7. ASSUME NEW n \in 1..Size, Match(n) PROVE Advances /\ OrderOK'
  <2> DEFINE trade == [from |-> order.filled, to |-> order.filled + n,
                       liquidity |-> Liquidity]
  <2>1. /\ Live /\ order.filled + n <= Size
        /\ order' = [status |-> IF order.filled + n = Size THEN "done" ELSE order.status,
                     filled |-> order.filled + n, trades |-> order.trades \cup {trade}]
    BY <1>0, <1>7 DEF Match, Orders, OrderOK
  <2>2. Liquidity \in DOMAIN MapLiquidity
    BY DEF Liquidity, MapLiquidity
  <2>3. trade \in Trades
    BY <1>0, <2>1, <2>2 DEF Orders, Trades
  <2>4. order.filled + n \in 0..Size /\ order.trades \cup {trade} \in SUBSET Trades
    BY <1>0, <2>1, <2>3 DEF Orders
  <2>5. order' \in Orders
    BY <1>0, <2>1, <2>4 DEF Orders, Live
  <2> QED BY <1>0, <1>1, <1>2, <2>1, <2>5 DEF Advances, OrderOK, Known, Live, Orders
<1> QED BY <1>3, <1>4, <1>5, <1>6, <1>7

LEMMA EventStays ==
  ASSUME TypeOK, Advances, NEW e \in Events, EventOK(e)
  PROVE  EventOK(e)'
<1>1. order \in Orders /\ order' \in Orders /\ Size \in Nat \ {0}
  BY SizeAssumption DEF TypeOK, Advances
<1> QED BY <1>1 DEF EventOK, Advances, Known, Orders, Events

LEMMA ImageStays ==
  ASSUME TypeOK, Advances, NEW o \in Orders, ImageTrue(o)
  PROVE  ImageTrue(o)'
<1>1. order \in Orders /\ order' \in Orders
  BY DEF TypeOK, Advances
<1> QED BY <1>1 DEF ImageTrue, Advances, Known, Orders

\* What the exchange announces is true of the order it has now.
LEMMA PartOf ==
  ASSUME NEW x \in Topics, NEW s \in Seq(Events)
  PROVE  /\ Part(x, s) \in Seq(Events)
         /\ \A e \in Elems(Part(x, s)) : e \in Elems(s)
  BY DEF Part, Elems

LEMMA EventType ==
  ASSUME NEW type \in {"open", "match", "filled", "canceled"},
         NEW status \in {"open", "match", "done"}, NEW filled \in 0..Size,
         NEW remain \in 0..Size, NEW trade \in Trades \cup {NoTrade}
  PROVE  Event(type, status, filled, remain, trade) \in Events
  BY DEF Event, Events, Topics

LEMMA QuantityType ==
  ASSUME NEW x \in {"balances", "positions"}, NEW filled \in 0..Size
  PROVE  Quantity(x, filled) \in Events /\ Quantity(x, filled).topic = x
  BY SizeAssumption DEF Quantity, Events, Topics

LEMMA WireGrows ==
  ASSUME TypeOK, WireOK, Advances, NEW t \in Seq(Events), wire' = wire \o t,
         \A e \in Elems(t) : e.topic = "open_orders" => EventOK(e)'
  PROVE  wire' \in Seq(Events) /\ WireOK'
<1>1. wire \in Seq(Events)
  BY DEF TypeOK
<1>2. wire' \in Seq(Events) /\ \A e \in Elems(wire') : e \in Elems(wire) \/ e \in Elems(t)
  BY <1>1, ElemsConcat
<1>3. ASSUME NEW e \in Elems(wire'), e.topic = "open_orders" PROVE EventOK(e)'
  <2>1. CASE e \in Elems(wire)
    <3>1. e \in Events /\ EventOK(e)
      BY <1>1, <1>3, <2>1, ElemsSeq DEF WireOK
    <3> QED BY <3>1, EventStays
  <2>2. CASE e \in Elems(t)
    BY <1>3, <2>2
  <2> QED BY <1>2, <2>1, <2>2
<1>4. WireOK'
  BY <1>3 DEF WireOK, Elems
<1> QED BY <1>2, <1>4

LEMMA ConcatThree ==
  ASSUME NEW s \in Seq(Events), NEW a \in Seq(Events), NEW b \in Seq(Events),
         NEW c \in Seq(Events)
  PROVE  /\ s \o a \o b \o c = s \o (a \o b \o c) /\ a \o b \o c \in Seq(Events)
         /\ \A e \in Elems(a \o b \o c) :
              e \in Elems(a) \/ e \in Elems(b) \/ e \in Elems(c)
<1>0. \A d, t \in Seq(Events) :
        d \o t \in Seq(Events) /\ \A e \in Elems(d \o t) : e \in Elems(d) \/ e \in Elems(t)
  BY ElemsConcat, Zenon
<1>1. a \o b \in Seq(Events) /\ a \o b \o c \in Seq(Events)
  BY <1>0, Zenon
<1>2. \A e \in Elems(a \o b \o c) : e \in Elems(a \o b) \/ e \in Elems(c)
  BY <1>0, <1>1, Zenon
<1>3. \A e \in Elems(a \o b) : e \in Elems(a) \/ e \in Elems(b)
  BY <1>0, Zenon
<1>4. (s \o a) \o b = s \o (a \o b)
  BY ConcatAssociative, SMTT(60)
<1>5. \A t \in Seq(Events) : (s \o t) \o c = s \o (t \o c)
  BY ConcatAssociative, SMTT(60)
<1> QED BY <1>1, <1>2, <1>3, <1>4, <1>5, Zenon

LEMMA WireOfExchange ==
  ASSUME TypeOK, OrderOK, WireOK,
         Refuse \/ Accept \/ Rest \/ Cancel \/ (\E n \in 1..Size : Match(n))
  PROVE  wire' \in Seq(Events) /\ WireOK'
<1>0. /\ order \in Orders /\ Size \in Nat \ {0} /\ wire \in Seq(Events)
      /\ Advances /\ OrderOK'
  BY SizeAssumption, ActsOfExchange DEF TypeOK
<1>1. ASSUME wire' = wire PROVE wire' \in Seq(Events) /\ WireOK'
  <2>1. wire' = wire \o <<>> /\ <<>> \in Seq(Events)
    BY <1>0, <1>1
  <2> QED BY <1>0, <2>1, ElemsNone, WireGrows
<1>2. ASSUME NEW e \in Events, EventOK(e)', wire' = wire \o Part("open_orders", <<e>>)
      PROVE  wire' \in Seq(Events) /\ WireOK'
  <2>1. <<e>> \in Seq(Events) /\ Elems(<<e>>) = {e} /\ "open_orders" \in Topics
    BY ElemsOne DEF Topics
  <2>2. /\ Part("open_orders", <<e>>) \in Seq(Events)
        /\ \A f \in Elems(Part("open_orders", <<e>>)) : f = e
    BY <2>1, PartOf
  <2> QED BY <1>0, <1>2, <2>2, WireGrows
<1>3. CASE Refuse \/ Accept
  BY <1>1, <1>3 DEF Refuse, Accept
<1>4. CASE Rest
  <2>1. /\ order.status = "taking" /\ order.filled < Size /\ order.filled \in 0..Size
        /\ order'.status = "resting" /\ order'.filled = order.filled
        /\ Size - order.filled \in 0..Size
    BY <1>0, <1>4 DEF Rest, OrderOK, Orders, Live
  <2>2. PICK e \in Events :
          e = Event("open", "open", order.filled, Size - order.filled, NoTrade)
    BY <2>1, EventType
  <2>3. EventOK(e)'
    BY <2>1, <2>2 DEF EventOK, Event, Known
  <2>4. wire' = wire \o Part("open_orders", <<e>>)
    BY <1>4, <2>2 DEF Rest
  <2> QED BY <1>2, <2>3, <2>4
<1>5. CASE Cancel
  <2>1. /\ order.filled < Size /\ order.filled \in 0..Size
        /\ order'.status = "done" /\ order'.filled = order.filled /\ 0 \in 0..Size
    BY <1>0, <1>5 DEF Cancel, OrderOK, Orders
  <2>2. PICK e \in Events : e = Event("canceled", "done", order.filled, 0, NoTrade)
    BY <2>1, EventType
  <2>3. EventOK(e)'
    BY <2>1, <2>2 DEF EventOK, Event, Known
  <2>4. wire' = wire \o Part("open_orders", <<e>>)
    BY <1>5, <2>2 DEF Cancel
  <2> QED BY <1>2, <2>3, <2>4
<1>6. ASSUME NEW n \in 1..Size, Match(n) PROVE wire' \in Seq(Events) /\ WireOK'
  <2>1. PICK total \in 1..Size :
          /\ total = order.filled + n /\ Live /\ Size - total \in 0..Size
          /\ order'.filled = total
          /\ order'.status = IF total = Size THEN "done" ELSE order.status
    <3>1. /\ Live /\ order.filled + n <= Size /\ order.filled \in 0..Size
          /\ order'.filled = order.filled + n
          /\ order'.status = IF order.filled + n = Size THEN "done" ELSE order.status
      BY <1>0, <1>6 DEF Match, Orders
    <3>2. order.filled + n \in 1..Size /\ Size - (order.filled + n) \in 0..Size
      BY <1>0, <3>1
    <3> QED BY <3>1, <3>2
  <2>2. PICK trade \in Trades :
          trade = [from |-> order.filled, to |-> total, liquidity |-> Liquidity]
    <3>1. Liquidity \in DOMAIN MapLiquidity
      BY DEF Liquidity, MapLiquidity
    <3>2. order.filled \in 0..Size
      BY <1>0 DEF Orders
    <3> QED BY <3>1, <3>2 DEF Trades
  <2>3. PICK status \in {"open", "match"} :
          status = IF Liquidity = "taker" THEN "match" ELSE "open"
    OBVIOUS
  <2>4. PICK match \in Events : match = Event("match", status, total, Size - total, trade)
    BY <2>1, EventType
  <2>5. PICK filled \in Events : filled = Event("filled", "done", total, 0, NoTrade)
    <3>1. Size \in 0..Size /\ 0 \in 0..Size /\ total \in 0..Size /\ NoTrade \in Trades \cup {NoTrade}
      BY <1>0
    <3> QED BY <3>1, EventType
  <2>6. PICK balance \in Events :
          balance = Quantity("balances", total) /\ balance.topic = "balances"
    BY <2>1, QuantityType
  <2>7. PICK position \in Events :
          position = Quantity("positions", total) /\ position.topic = "positions"
    BY <2>1, QuantityType
  <2>8. PICK orders \in Seq(Events) :
          /\ orders = IF total = Size THEN <<match, filled>> ELSE <<match>>
          /\ \A e \in Elems(orders) : e = match \/ (total = Size /\ e = filled)
    <3>1. /\ <<match, filled>> \in Seq(Events)
          /\ \A e \in Elems(<<match, filled>>) : e = match \/ e = filled
      BY ElemsTwo
    <3>2. <<match>> \in Seq(Events) /\ \A e \in Elems(<<match>>) : e = match
      BY ElemsOne
    <3>3. CASE total = Size
      BY <3>1, <3>3
    <3>4. CASE total # Size
      BY <3>2, <3>4
    <3> QED BY <3>3, <3>4
  <2>9. PICK a \in Seq(Events) :
          a = Part("open_orders", orders) /\ \A e \in Elems(a) : e \in Elems(orders)
    BY PartOf DEF Topics
  <2>10. PICK b \in Seq(Events) :
           /\ b = Part("balances", <<balance>>)
           /\ \A e \in Elems(b) : e.topic = "balances"
    <3>1. <<balance>> \in Seq(Events) /\ Elems(<<balance>>) = {balance} /\ "balances" \in Topics
      BY ElemsOne DEF Topics
    <3>2. /\ Part("balances", <<balance>>) \in Seq(Events)
          /\ \A e \in Elems(Part("balances", <<balance>>)) : e \in Elems(<<balance>>)
      BY <3>1, PartOf
    <3> QED BY <2>6, <3>1, <3>2
  <2>11. PICK c \in Seq(Events) :
           /\ c = Part("positions", <<position>>)
           /\ \A e \in Elems(c) : e.topic = "positions"
    <3>1. <<position>> \in Seq(Events) /\ Elems(<<position>>) = {position} /\ "positions" \in Topics
      BY ElemsOne DEF Topics
    <3>2. /\ Part("positions", <<position>>) \in Seq(Events)
          /\ \A e \in Elems(Part("positions", <<position>>)) : e \in Elems(<<position>>)
      BY <3>1, PartOf
    <3> QED BY <2>7, <3>1, <3>2
  <2>12. wire' = wire \o a \o b \o c
    BY <1>6, <2>1, <2>2, <2>3, <2>4, <2>5, <2>6, <2>7, <2>8, <2>9, <2>10, <2>11
       DEF Match
  <2>13. PICK t \in Seq(Events) :
           /\ wire' = wire \o t
           /\ \A e \in Elems(t) : e \in Elems(a) \/ e \in Elems(b) \/ e \in Elems(c)
    <3>1. /\ wire \o a \o b \o c = wire \o (a \o b \o c) /\ a \o b \o c \in Seq(Events)
          /\ \A e \in Elems(a \o b \o c) :
               e \in Elems(a) \/ e \in Elems(b) \/ e \in Elems(c)
      <4>1. wire \in Seq(Events)
        BY <1>0
      <4>2. \A s \in Seq(Events) :
              /\ s \o a \o b \o c = s \o (a \o b \o c) /\ a \o b \o c \in Seq(Events)
              /\ \A e \in Elems(a \o b \o c) :
                   e \in Elems(a) \/ e \in Elems(b) \/ e \in Elems(c)
        BY ConcatThree, ZenonT(60)
      <4> QED BY <4>1, <4>2, Zenon
    <3> QED BY <2>12, <3>1
  <2>14. Known'
    BY <2>1 DEF Live, Known
  <2>15. EventOK(match)'
    BY <2>1, <2>4, <2>14 DEF EventOK, Event
  <2>16. total = Size => EventOK(filled)'
    BY <2>1, <2>5, <2>14 DEF EventOK, Event
  <2>17. \A e \in Elems(t) : e.topic = "open_orders" => EventOK(e)'
    BY <2>8, <2>9, <2>10, <2>11, <2>13, <2>15, <2>16
  <2> QED BY <1>0, <2>13, <2>17, WireGrows
<1> QED BY <1>3, <1>4, <1>5, <1>6

----------------------------------------------------------------------------
(* What is told. *)

ReportOK(r) ==
  /\ r.status = "WORKING" =>
       /\ r.traded + r.remaining = Size /\ r.remaining > 0
       /\ r.traded <= order.filled /\ (Live \/ order.status = "done")
  /\ r.status = "COMPLETED" =>
       /\ r.traded = Size /\ r.remaining = 0 /\ order.filled = Size
  /\ r.status = "CANCELED" =>
       /\ r.traded = order.filled /\ r.remaining = 0
       /\ order.status = "done" /\ order.filled < Size
  /\ r.status = "REJECTED" => order.status = "refused"

LEMMA ReportOfTold == ReportsTrue <=> ReportOK(told)
  BY DEF ReportsTrue, ReportOK

LEMMA KnownStatus ==
  ASSUME order \in Orders
  PROVE  Known <=> (Live \/ order.status = "done")
  BY DEF Orders, Known, Live

LEMMA ReportsStay ==
  ASSUME TypeOK, Advances, told' = told, ReportsTrue
  PROVE  ReportsTrue'
<1>1. /\ order \in Orders /\ order' \in Orders /\ Size \in Nat \ {0} /\ told \in Reports
      /\ order'.filled <= Size /\ order.filled <= order'.filled
  BY SizeAssumption DEF TypeOK, Advances, Orders
<1>2. /\ Known <=> (Live \/ order.status = "done")
      /\ Known' <=> (Live' \/ order'.status = "done")
  BY <1>1 DEF Orders, Known, Live
<1>3. CASE told.status = "WORKING"
  BY <1>1, <1>2, <1>3 DEF ReportsTrue, Advances, Orders, Reports
<1>4. CASE told.status = "COMPLETED"
  BY <1>1, <1>4 DEF ReportsTrue, Advances, Orders, Reports
<1>5. CASE told.status = "CANCELED"
  BY <1>1, <1>5 DEF ReportsTrue, Advances, Orders, Reports
<1>6. CASE told.status = "REJECTED"
  BY <1>1, <1>6 DEF ReportsTrue, Advances, Orders, Reports
<1>7. CASE told.status = "SENT"
  BY <1>7 DEF ReportsTrue
<1> QED BY <1>1, <1>3, <1>4, <1>5, <1>6, <1>7 DEF Reports, Over

LEMMA ReportUpdate ==
  ASSUME TypeOK, ReportsTrue, order' = order, NEW r \in Reports, ReportOK(r), Update(r)
  PROVE  told' \in Reports /\ ReportsTrue'
<1>1. told' \in {told, r} /\ told \in Reports
  BY DEF Update, TypeOK
<1>2. ReportOK(told')
  BY <1>1, ReportOfTold
<1> QED BY <1>1, <1>2 DEF ReportOK, ReportsTrue, Live

\* An event that is true makes a report that is true.
LEMMA ReportOfEvent ==
  ASSUME TypeOK, OrderOK, NEW e \in Events, EventOK(e)
  PROVE  LET r == [status |-> EventStatus(e), traded |-> e.filled,
                   remaining |-> IF EventStatus(e) = "CANCELED" THEN 0 ELSE e.remain,
                   fields |-> Fields(Item, "UNDEFINED")]
         IN  r \in Reports /\ ReportOK(r)
<1>1. /\ order \in Orders /\ Size \in Nat \ {0} /\ e.filled \in 0..Size
      /\ e.remain \in 0..Size /\ order.filled \in 0..Size
      /\ Live \/ order.status = "done"
  BY SizeAssumption, KnownStatus DEF TypeOK, EventOK, Orders, Events
<1>2. Fields(Item, "UNDEFINED") \in FieldsType
  BY FieldsOfItem DEF TimesInForce
<1>3. \/ EventStatus(e) = "WORKING" /\ e.remain = Size - e.filled /\ e.remain > 0
         /\ e.filled <= order.filled
      \/ EventStatus(e) = "COMPLETED" /\ e.filled = Size /\ e.remain = 0
         /\ order.filled = Size
      \/ EventStatus(e) = "CANCELED" /\ order.status = "done"
         /\ e.filled = order.filled /\ e.filled < Size
  <2>1. CASE e.type = "open"
    BY <1>1, <2>1 DEF EventOK, EventStatus, MapOrderStatus
  <2>2. CASE e.type = "match" /\ e.remain = 0
    BY <1>1, <2>2 DEF EventOK, EventStatus
  <2>3. CASE e.type = "match" /\ e.remain # 0
    BY <1>1, <2>3 DEF EventOK, EventStatus, MapOrderStatus
  <2>4. CASE e.type = "filled"
    BY <1>1, <2>4 DEF EventOK, EventStatus, MapOrderStatus
  <2>5. CASE e.type = "canceled"
    BY <1>1, <2>5 DEF EventOK, EventStatus
  <2> QED BY <2>1, <2>2, <2>3, <2>4, <2>5 DEF EventOK
<1> DEFINE r == [status |-> EventStatus(e), traded |-> e.filled,
                 remaining |-> IF EventStatus(e) = "CANCELED" THEN 0 ELSE e.remain,
                 fields |-> Fields(Item, "UNDEFINED")]
<1>4. r \in Reports
  BY <1>1, <1>2, <1>3 DEF Reports, Over, FieldsType
<1>5. ReportOK(r)
  BY <1>1, <1>3 DEF ReportOK
<1> QED BY <1>4, <1>5

\* So does the image of the order in an answer.
LEMMA ReportOfItem ==
  ASSUME TypeOK, OrderOK, ReportsTrue, order' = order, NEW o \in Orders, ImageTrue(o),
         o.status \in {"taking", "resting", "done"}, ItemUpdate(o)
  PROVE  told' \in Reports /\ ReportsTrue'
<1>1. /\ order \in Orders /\ Size \in Nat \ {0} /\ o.filled \in 0..Size
      /\ order.filled \in 0..Size /\ Size - o.filled \in 0..Size
      /\ o.filled <= order.filled
  BY SizeAssumption DEF TypeOK, Orders, ImageTrue
<1>2. Known
  BY DEF ImageTrue, Known
<1>3. Live \/ order.status = "done"
  BY <1>1, <1>2, KnownStatus
<1>4. MapTimeInForce[Item.tif] \in TimesInForce
  BY <1>2, TimeInForceOfItem DEF OrderOK
<1>5. Fields(Item, MapTimeInForce[Item.tif]) \in FieldsType
  BY <1>4, FieldsOfItem
<1>6. \/ ItemStatus(o) = "WORKING" /\ o.filled < Size
      \/ ItemStatus(o) = "COMPLETED" /\ o.filled = Size /\ order.filled = Size
      \/ ItemStatus(o) = "CANCELED" /\ order.status = "done"
         /\ o.filled = order.filled /\ o.filled < Size
  <2>1. CASE o.status \in {"taking", "resting"}
    BY <1>1, <2>1 DEF ImageTrue, ItemStatus, Listed, MapOrderStatus
  <2>2. CASE o.status = "done" /\ o.filled = Size
    BY <1>1, <2>2 DEF ImageTrue, ItemStatus, Listed, MapOrderStatus
  <2>3. CASE o.status = "done" /\ o.filled # Size
    BY <1>1, <2>3 DEF ImageTrue, ItemStatus, Listed, MapOrderStatus
  <2> QED BY <2>1, <2>2, <2>3
<1>7. PICK r \in Reports :
        /\ r = [status |-> ItemStatus(o), traded |-> o.filled,
                remaining |-> IF ItemStatus(o) = "CANCELED" THEN 0 ELSE Size - o.filled,
                fields |-> Fields(Item, MapTimeInForce[Item.tif])]
  <2>1. ItemStatus(o) \in Over \cup {"SENT", "WORKING"}
    BY <1>6 DEF Over
  <2>2. (IF ItemStatus(o) = "CANCELED" THEN 0 ELSE Size - o.filled) \in 0..Size
    BY <1>1
  <2> QED BY <1>1, <1>5, <2>1, <2>2 DEF Reports, FieldsType
<1>8. ReportOK(r)
  BY <1>1, <1>3, <1>6, <1>7 DEF ReportOK
<1>9. Update(r)
  BY <1>7 DEF ItemUpdate
<1> QED BY <1>8, <1>9, ReportUpdate

----------------------------------------------------------------------------
(* Every step keeps the invariant. *)

LEMMA ImageOfCall ==
  ASSUME TypeOK, ImageOK, call.image # <<>>
  PROVE  call.image[1] \in Orders /\ ImageTrue(call.image[1])
<1>1. call.image \in Seq(Orders)
  BY DEF TypeOK
<1>2. Len(call.image) \in Nat \ {0}
  BY <1>1, EmptySeq
<1> QED BY <1>1, <1>2 DEF ImageOK

LEMMA ImagesStay ==
  ASSUME TypeOK, ImageOK, Advances, call' = call
  PROVE  ImageOK'
<1>1. ASSUME call.image # <<>> PROVE ImageTrue(call.image[1])'
  <2>1. PICK o \in Orders : o = call.image[1] /\ ImageTrue(o)
    BY <1>1, ImageOfCall
  <2>2. ImageTrue(o)'
    BY <2>1, ImageStays
  <2> QED BY <2>1, <2>2 DEF ImageTrue, Known
<1> QED BY <1>1 DEF ImageOK

LEMMA OrderStays ==
  ASSUME TypeOK, asked' = asked, order' = order
  PROVE  Advances
  BY DEF Advances, TypeOK, Known, Orders

LEMMA OrderKept ==
  ASSUME TypeOK, OrderOK, asked' = asked, order' = order
  PROVE  OrderOK'
  BY SameRequest DEF OrderOK, Known, Live

LEMMA WireKept ==
  ASSUME TypeOK, WireOK, asked' = asked, order' = order,
         \A e \in Elems(wire') : e \in Elems(wire)
  PROVE  WireOK'
<1>1. ASSUME NEW e \in Elems(wire'), e.topic = "open_orders" PROVE EventOK(e)'
  <2>1. e \in Events /\ EventOK(e)
    BY <1>1, ElemsSeq DEF WireOK, TypeOK
  <2> QED BY <2>1, OrderStays, EventStays
<1> QED BY <1>1 DEF WireOK, Elems

LEMMA ExchangeKeepsInv ==
  ASSUME ReportsInv, Refuse \/ Accept \/ Rest \/ Cancel \/ (\E n \in 1..Size : Match(n))
  PROVE  ReportsInv'
<1>1. Advances /\ OrderOK' /\ wire' \in Seq(Events) /\ WireOK'
  BY ActsOfExchange, WireOfExchange DEF ReportsInv
<1>2. UNCHANGED <<asked, feeds, stage, board, server, budget, history>>
  BY DEF Refuse, Accept, Rest, Cancel, Match, Unmoved
<1>3. ImageOK' /\ ReportsTrue'
  BY <1>1, <1>2, ImagesStay, ReportsStay DEF ReportsInv, board, server
<1>4. TypeOK'
  BY <1>1, <1>2 DEF ReportsInv, TypeOK, Advances, asked, board, server, history
<1> QED BY <1>1, <1>3, <1>4 DEF ReportsInv

LEMMA SubscribeKeepsInv == ReportsInv /\ Subscribe => ReportsInv'
<1> SUFFICES ASSUME ReportsInv, Subscribe PROVE ReportsInv'
  OBVIOUS
<1>1. UNCHANGED <<asked, order, wire, stage, board, server, budget, seen, fresh>>
  BY DEF Subscribe
<1>2. feeds' \subseteq Topics /\ joined' \subseteq order.trades
  <2>1. Subscribes[stage] \in Topics
    BY DEF Subscribe, Subscribes, Topics
  <2>2. feeds \subseteq Topics /\ joined \subseteq order.trades
    BY DEF ReportsInv, TypeOK
  <2> QED BY <2>1, <2>2 DEF Subscribe
<1>3. Advances /\ OrderOK' /\ WireOK'
  BY <1>1, OrderStays, OrderKept, WireKept DEF ReportsInv
<1>4. ImageOK' /\ ReportsTrue'
  BY <1>1, <1>3, ImagesStay, ReportsStay DEF ReportsInv, board, server
<1>5. TypeOK'
  BY <1>1, <1>2 DEF ReportsInv, TypeOK, asked, board, server
<1> QED BY <1>3, <1>4, <1>5 DEF ReportsInv

LEMMA ServeKeepsInv == ReportsInv /\ Serve => ReportsInv'
<1> SUFFICES ASSUME ReportsInv, Serve PROVE ReportsInv'
  OBVIOUS
<1>1. UNCHANGED <<asked, exchange, stage, pending, response, wanted, server, budget,
                  history>>
  BY DEF Serve
<1>2. /\ order \in Orders
      /\ call \in [kind : Kinds \cup {"none"}, image : Seq(Orders), mine : BOOLEAN]
  BY DEF ReportsInv, TypeOK
<1>3. call' \in [kind : Kinds \cup {"none"}, image : Seq(Orders), mine : BOOLEAN]
      /\ call'.image = <<order>> /\ call'.kind = call.kind
  <2>1. <<order>> \in Seq(Orders)
    BY <1>2, ElemsOne
  <2>2. call' = [kind |-> call.kind, image |-> <<order>>, mine |-> call.mine]
    BY <1>2 DEF Serve
  <2> QED BY <1>2, <2>1, <2>2
<1>4. Advances /\ OrderOK' /\ WireOK'
  BY <1>1, OrderStays, OrderKept, WireKept DEF ReportsInv, exchange
<1>5. ReportsTrue'
  BY <1>1, <1>4, ReportsStay DEF ReportsInv, server
<1>6. ImageOK'
  <2>1. order' = order /\ call'.image[1] = order
    BY <1>1, <1>3 DEF exchange
  <2>2. ImageTrue(order)
    BY <1>2 DEF ImageTrue, ReportsInv, OrderOK, Known, Live, Orders
  <2>3. ImageTrue(call.image[1])'
    BY <2>1, <2>2 DEF ImageTrue, Known
  <2> QED BY <1>3, <2>1, <2>3 DEF ImageOK, Serve
<1>7. TypeOK'
  BY <1>1, <1>3 DEF ReportsInv, TypeOK, asked, exchange, server, history
<1> QED BY <1>4, <1>5, <1>6, <1>7 DEF ReportsInv

\* The steps of DropCopy and of the answers leave the order as it is.
LEMMA OrderSame ==
  ASSUME ReportsInv, asked' = asked, order' = order,
         \A e \in Elems(wire') : e \in Elems(wire),
         \/ call'.image = <<>>
         \/ call'.image = call.image /\ call'.kind = call.kind
  PROVE  Advances /\ OrderOK' /\ WireOK' /\ ImageOK'
<1>1. Advances /\ OrderOK' /\ WireOK'
  BY OrderStays, OrderKept, WireKept DEF ReportsInv
<1>2. ASSUME call'.image = <<>> PROVE ImageOK'
  BY <1>2 DEF ImageOK
<1>3. ASSUME call'.image # <<>> PROVE ImageOK'
  <2>1. call.image # <<>> /\ call'.image = call.image /\ call'.kind = call.kind
    BY <1>3
  <2>2. PICK o \in Orders : o = call.image[1] /\ ImageTrue(o)
    BY <2>1, ImageOfCall DEF ReportsInv
  <2>3. ImageTrue(o)'
    BY <1>1, <2>2, ImageStays DEF ReportsInv
  <2>4. ImageTrue(call.image[1])'
    BY <2>1, <2>2, <2>3 DEF ImageTrue, Known
  <2> QED BY <2>1, <2>4 DEF ImageOK, ReportsInv
<1> QED BY <1>1, <1>2, <1>3

LEMMA Received ==
  ASSUME ReportsInv, NEW x \in Topics, Receive(x), Quiet
  PROVE  /\ UNCHANGED <<asked, order, feeds, stage, board, budget, joined, fresh>>
         /\ Head(wire) \in Events /\ Head(wire) \in Elems(wire)
         /\ Head(wire).filled \in 0..Size /\ Head(wire).topic = x
         /\ wire' \in Seq(Events)
         /\ Advances /\ OrderOK' /\ WireOK' /\ ImageOK'
<1>1. UNCHANGED <<asked, order, feeds, stage, board, budget, joined, fresh>>
  BY DEF Quiet
<1>2. wire \in Seq(Events) /\ wire # <<>> /\ wire' = Tail(wire) /\ Head(wire).topic = x
  BY DEF ReportsInv, TypeOK, Receive
<1>3. /\ wire' \in Seq(Events) /\ Head(wire) \in Events /\ Head(wire) \in Elems(wire)
      /\ \A e \in Elems(Tail(wire)) : e \in Elems(wire)
  BY <1>2, ElemsTail
<1>4. \A e \in Elems(wire') : e \in Elems(wire)
  BY <1>2, <1>3 DEF Elems
<1>5. Advances /\ OrderOK' /\ WireOK' /\ ImageOK'
  BY <1>1, <1>4, OrderSame DEF board
<1>6. Head(wire).filled \in 0..Size
  BY <1>3 DEF Events
<1> QED BY <1>1, <1>2, <1>3, <1>5, <1>6

LEMMA SeenType ==
  ASSUME TypeOK, NEW x \in {"balances", "positions"}, NEW n \in -1..Size,
         seen' = [seen EXCEPT ![x] = n]
  PROVE  seen' \in [{"balances", "positions"} -> -1..Size]
  BY DEF TypeOK

LEMMA BalancesType ==
  ASSUME TypeOK, NEW n \in -1..Size, view' = [view EXCEPT !.balances = n]
  PROVE  view' \in [balances : -1..Size, positions : [long : Nat, short : Nat]]
  BY DEF TypeOK

LEMMA PositionsType ==
  ASSUME TypeOK, NEW n \in 0..Size,
         view' = [view EXCEPT !.positions = Quantities(Position(n))]
  PROVE  view' \in [balances : -1..Size, positions : [long : Nat, short : Nat]]
<1>1. Position(n) \in Int
  BY PositionInt
<1>2. Quantities(Position(n)) \in [long : Nat, short : Nat]
  BY <1>1, QuantitiesType
<1> QED BY <1>2 DEF TypeOK

LEMMA WalletBalanceChangeKeepsInv == ReportsInv /\ WalletBalanceChange => ReportsInv'
<1> SUFFICES ASSUME ReportsInv, WalletBalanceChange PROVE ReportsInv'
  OBVIOUS
<1>1. PICK n \in -1..Size :
        /\ UNCHANGED <<asked, order, feeds, stage, board, budget, joined, fresh,
                       told, fills>>
        /\ wire' \in Seq(Events) /\ Advances /\ OrderOK' /\ WireOK' /\ ImageOK'
        /\ view' = [view EXCEPT !.balances = n] /\ seen' = [seen EXCEPT !["balances"] = n]
  <2>1. Receive("balances") /\ Quiet /\ "balances" \in Topics
    BY DEF WalletBalanceChange, Topics
  <2>2. /\ UNCHANGED <<asked, order, feeds, stage, board, budget, joined, fresh>>
        /\ Head(wire).filled \in -1..Size /\ wire' \in Seq(Events)
        /\ Advances /\ OrderOK' /\ WireOK' /\ ImageOK'
    BY <2>1, Received, SizeAssumption
  <2> QED BY <2>2 DEF WalletBalanceChange, Read
<1>2. ReportsTrue'
  BY <1>1, ReportsStay DEF ReportsInv
<1>3. /\ view' \in [balances : -1..Size, positions : [long : Nat, short : Nat]]
      /\ seen' \in [{"balances", "positions"} -> -1..Size]
  BY <1>1, SeenType, BalancesType DEF ReportsInv
<1>4. TypeOK'
  BY <1>1, <1>3 DEF ReportsInv, TypeOK, asked, board
<1> QED BY <1>1, <1>2, <1>4 DEF ReportsInv

LEMMA PositionChangeKeepsInv == ReportsInv /\ PositionChange => ReportsInv'
<1> SUFFICES ASSUME ReportsInv, PositionChange PROVE ReportsInv'
  OBVIOUS
<1>1. PICK n \in 0..Size :
        /\ UNCHANGED <<asked, order, feeds, stage, board, budget, joined, fresh,
                       told, fills>>
        /\ wire' \in Seq(Events) /\ Advances /\ OrderOK' /\ WireOK' /\ ImageOK'
        /\ view' = [view EXCEPT !.positions = Quantities(Position(n))]
        /\ seen' = [seen EXCEPT !["positions"] = n]
  <2>1. Receive("positions") /\ Quiet /\ "positions" \in Topics
    BY DEF PositionChange, Topics
  <2>2. /\ UNCHANGED <<asked, order, feeds, stage, board, budget, joined, fresh>>
        /\ Head(wire).filled \in 0..Size /\ wire' \in Seq(Events)
        /\ Advances /\ OrderOK' /\ WireOK' /\ ImageOK'
    BY <2>1, Received
  <2> QED BY <2>2 DEF PositionChange, Read
<1>2. ReportsTrue'
  BY <1>1, ReportsStay DEF ReportsInv
<1>3. /\ view' \in [balances : -1..Size, positions : [long : Nat, short : Nat]]
      /\ seen' \in [{"balances", "positions"} -> -1..Size]
  <2>1. n \in -1..Size
    BY SizeAssumption
  <2> QED BY <1>1, <2>1, SeenType, PositionsType DEF ReportsInv
<1>4. TypeOK'
  BY <1>1, <1>3 DEF ReportsInv, TypeOK, asked, board
<1> QED BY <1>1, <1>2, <1>4 DEF ReportsInv

LEMMA OrderChangeKeepsInv == ReportsInv /\ OrderChange => ReportsInv'
<1> SUFFICES ASSUME ReportsInv, OrderChange PROVE ReportsInv'
  OBVIOUS
<1>1. Receive("open_orders") /\ Quiet /\ "open_orders" \in Topics
  BY DEF OrderChange, Topics
<1>2. /\ UNCHANGED <<asked, order, feeds, stage, board, budget, joined, fresh, view, seen>>
      /\ Head(wire) \in Events /\ Head(wire) \in Elems(wire)
      /\ Head(wire).topic = "open_orders"
      /\ wire' \in Seq(Events) /\ Advances /\ OrderOK' /\ WireOK' /\ ImageOK'
  BY <1>1, Received DEF OrderChange
<1>3. EventOK(Head(wire))
  BY <1>2 DEF ReportsInv, WireOK
<1>4. PICK r \in Reports : ReportOK(r) /\ Update(r)
  <2> DEFINE e == Head(wire)
             r == [status |-> EventStatus(e), traded |-> e.filled,
                   remaining |-> IF EventStatus(e) = "CANCELED" THEN 0 ELSE e.remain,
                   fields |-> Fields(Item, "UNDEFINED")]
  <2>1. r \in Reports /\ ReportOK(r)
    BY <1>2, <1>3, ReportOfEvent DEF ReportsInv
  <2>2. Update(r)
    BY DEF OrderChange
  <2> QED BY <2>1, <2>2
<1>5. told' \in Reports /\ ReportsTrue'
  BY <1>2, <1>4, ReportUpdate DEF ReportsInv
<1>6. fills' \in [Trades -> Nat]
  <2>1. fills \in [Trades -> Nat]
    BY DEF ReportsInv, TypeOK
  <2>2. fills' = [t \in Trades |-> IF t \in EventFills(Head(wire)) THEN fills[t] + 1
                                   ELSE fills[t]]
    BY DEF OrderChange
  <2>3. \A t \in Trades : (IF t \in EventFills(Head(wire)) THEN fills[t] + 1
                           ELSE fills[t]) \in Nat
    BY <2>1
  <2> QED BY <2>2, <2>3
<1>7. TypeOK'
  BY <1>2, <1>5, <1>6 DEF ReportsInv, TypeOK, asked, board
<1> QED BY <1>2, <1>5, <1>7 DEF ReportsInv

LEMMA Committed ==
  ASSUME ReportsInv, call.kind # "none", Commit
  PROVE  /\ UNCHANGED <<asked, order, feeds, wire, stage, pending, wanted, joined, fresh>>
         /\ call' \in [kind : Kinds \cup {"none"}, image : Seq(Orders), mine : BOOLEAN]
         /\ response' \subseteq Kinds
         /\ Advances /\ OrderOK' /\ WireOK' /\ ImageOK'
<1>1. /\ UNCHANGED <<asked, order, feeds, wire, stage, pending, wanted, joined, fresh>>
      /\ call' = NoCall /\ response' = response \cup {call.kind}
  BY DEF Commit, exchange
<1>2. NoCall \in [kind : Kinds \cup {"none"}, image : Seq(Orders), mine : BOOLEAN]
  BY DEF NoCall
<1>3. response' \subseteq Kinds
  BY <1>1 DEF ReportsInv, TypeOK
<1>4. Advances /\ OrderOK' /\ WireOK' /\ ImageOK'
  <2>1. call'.image = <<>>
    BY <1>1 DEF NoCall
  <2>2. \A e \in Elems(wire') : e \in Elems(wire)
    BY <1>1
  <2> QED BY <1>1, <2>1, <2>2, OrderSame
<1> QED BY <1>1, <1>2, <1>3, <1>4

LEMMA ImageOfAnswer ==
  ASSUME ReportsInv, NEW k \in Kinds, Answered(k)
  PROVE  /\ Image \in Orders /\ ImageTrue(Image) /\ Image.filled \in 0..Size
         /\ call.kind # "none"
<1>1. call.image # <<>> /\ call.kind = k
  BY DEF Answered
<1>2. Image \in Orders /\ ImageTrue(Image)
  BY <1>1, ImageOfCall DEF ReportsInv, Image
<1>3. k # "none"
  BY DEF Kinds, Asks
<1> QED BY <1>1, <1>2, <1>3 DEF Orders

LEMMA KindsOf == Kinds = {"balances", "positions", "open_orders", "stale_orders", "trades"}
  BY DEF Kinds, Asks

LEMMA ReadType ==
  ASSUME TypeOK, NEW x \in {"balances", "positions"}, Image.filled \in 0..Size, ReadImage(x)
  PROVE  seen' \in [{"balances", "positions"} -> -1..Size]
<1>1. Image.filled \in -1..Size /\ -1 \in -1..Size
  BY SizeAssumption
<1> QED BY <1>1 DEF TypeOK, ReadImage

LEMMA GetAccountAckKeepsInv == ReportsInv /\ GetAccountAck => ReportsInv'
<1> SUFFICES ASSUME ReportsInv, GetAccountAck PROVE ReportsInv'
  OBVIOUS
<1>1. Answered("balances") /\ Commit /\ ReadImage("balances") /\ "balances" \in Kinds
  BY KindsOf DEF GetAccountAck
<1>2. Image.filled \in 0..Size /\ call.kind # "none"
  BY <1>1, ImageOfAnswer
<1>3. /\ UNCHANGED <<asked, order, feeds, wire, stage, pending, wanted, joined, fresh>>
      /\ UNCHANGED <<told, fills, budget>>
      /\ call' \in [kind : Kinds \cup {"none"}, image : Seq(Orders), mine : BOOLEAN]
      /\ response' \subseteq Kinds
      /\ Advances /\ OrderOK' /\ WireOK' /\ ImageOK'
  BY <1>1, <1>2, Committed DEF GetAccountAck
<1>4. seen' \in [{"balances", "positions"} -> -1..Size]
  BY <1>1, <1>2, ReadType DEF ReportsInv
<1>5. view' \in [balances : -1..Size, positions : [long : Nat, short : Nat]]
  <2>1. Image.filled \in -1..Size
    BY <1>2, SizeAssumption
  <2> QED BY <2>1, BalancesType DEF GetAccountAck, ReportsInv
<1>6. ReportsTrue'
  BY <1>3, ReportsStay DEF ReportsInv
<1>7. TypeOK'
  BY <1>3, <1>4, <1>5 DEF ReportsInv, TypeOK, asked
<1> QED BY <1>3, <1>6, <1>7 DEF ReportsInv

LEMMA GetPositionsAckKeepsInv ==
  ReportsInv /\ (\E listed \in BOOLEAN : GetPositionsAck(listed)) => ReportsInv'
<1> SUFFICES ASSUME ReportsInv, NEW listed \in BOOLEAN, GetPositionsAck(listed)
             PROVE  ReportsInv'
  OBVIOUS
<1>1. Answered("positions") /\ Commit /\ "positions" \in Kinds
  BY KindsOf DEF GetPositionsAck
<1>2. Image.filled \in 0..Size /\ call.kind # "none"
  BY <1>1, ImageOfAnswer
<1>3. /\ UNCHANGED <<asked, order, feeds, wire, stage, pending, wanted, joined, fresh>>
      /\ UNCHANGED <<told, fills, budget>>
      /\ call' \in [kind : Kinds \cup {"none"}, image : Seq(Orders), mine : BOOLEAN]
      /\ response' \subseteq Kinds
      /\ Advances /\ OrderOK' /\ WireOK' /\ ImageOK'
  BY <1>1, <1>2, Committed DEF GetPositionsAck
<1>4. /\ seen' \in [{"balances", "positions"} -> -1..Size]
      /\ view' \in [balances : -1..Size, positions : [long : Nat, short : Nat]]
  <2>1. CASE listed
    <3>1. /\ ReadImage("positions")
          /\ view' = [view EXCEPT !.positions = Quantities(Position(Image.filled))]
      BY <2>1 DEF GetPositionsAck
    <3> QED BY <1>2, <3>1, ReadType, PositionsType DEF ReportsInv
  <2>2. CASE ~listed
    BY <2>2 DEF GetPositionsAck, ReportsInv, TypeOK
  <2> QED BY <2>1, <2>2
<1>5. ReportsTrue'
  BY <1>3, ReportsStay DEF ReportsInv
<1>6. TypeOK'
  BY <1>3, <1>4 DEF ReportsInv, TypeOK, asked
<1> QED BY <1>3, <1>5, <1>6 DEF ReportsInv

LEMMA GetOrdersAckKeepsInv == ReportsInv /\ GetOrdersAck => ReportsInv'
<1> SUFFICES ASSUME ReportsInv, GetOrdersAck PROVE ReportsInv'
  OBVIOUS
<1>1. Answered("open_orders") /\ Commit /\ "open_orders" \in Kinds
  BY KindsOf DEF GetOrdersAck
<1>2. Image \in Orders /\ ImageTrue(Image) /\ call.kind # "none"
  BY <1>1, ImageOfAnswer
<1>3. /\ UNCHANGED <<asked, order, feeds, wire, stage, pending, wanted, joined, fresh>>
      /\ UNCHANGED <<fills, view, budget, seen>>
      /\ call' \in [kind : Kinds \cup {"none"}, image : Seq(Orders), mine : BOOLEAN]
      /\ response' \subseteq Kinds
      /\ Advances /\ OrderOK' /\ WireOK' /\ ImageOK'
  BY <1>1, <1>2, Committed DEF GetOrdersAck
<1>4. told' \in Reports /\ ReportsTrue'
  <2>1. CASE Image.status \in {"taking", "resting"}
    <3>1. ItemUpdate(Image)
      BY <2>1 DEF GetOrdersAck
    <3> QED BY <1>2, <1>3, <2>1, <3>1, ReportOfItem DEF ReportsInv
  <2>2. CASE Image.status \notin {"taking", "resting"}
    <3>1. told' = told
      BY <2>2 DEF GetOrdersAck
    <3> QED BY <1>3, <3>1, ReportsStay DEF ReportsInv, TypeOK
  <2> QED BY <2>1, <2>2
<1>5. TypeOK'
  BY <1>3, <1>4 DEF ReportsInv, TypeOK, asked
<1> QED BY <1>3, <1>4, <1>5 DEF ReportsInv

LEMMA GetOrderAckKeepsInv == ReportsInv /\ GetOrderAck => ReportsInv'
<1> SUFFICES ASSUME ReportsInv, GetOrderAck PROVE ReportsInv'
  OBVIOUS
<1>1. Answered("stale_orders") /\ Commit /\ "stale_orders" \in Kinds
  BY KindsOf DEF GetOrderAck
<1>2. Image \in Orders /\ ImageTrue(Image) /\ call.kind # "none"
  BY <1>1, ImageOfAnswer
<1>3. /\ UNCHANGED <<asked, order, feeds, wire, stage, pending, wanted, joined, fresh>>
      /\ UNCHANGED <<fills, view, budget, seen>>
      /\ call' \in [kind : Kinds \cup {"none"}, image : Seq(Orders), mine : BOOLEAN]
      /\ response' \subseteq Kinds
      /\ Advances /\ OrderOK' /\ WireOK' /\ ImageOK'
  BY <1>1, <1>2, Committed DEF GetOrderAck
<1>4. told' \in Reports /\ ReportsTrue'
  <2>1. CASE Image.status = "refused"
    <3>1. PICK r \in Reports : r = [told EXCEPT !.status = "REJECTED"] /\ Update(r)
      <4>1. told \in Reports
        BY DEF ReportsInv, TypeOK
      <4>2. [told EXCEPT !.status = "REJECTED"] \in Reports
        BY <4>1 DEF Reports, Over
      <4> QED BY <2>1, <4>2 DEF GetOrderAck
    <3>2. r.status = "REJECTED" /\ order.status = "refused"
      BY <1>2, <2>1, <3>1 DEF ReportsInv, TypeOK, Reports, ImageTrue
    <3> QED BY <1>3, <3>1, <3>2, ReportUpdate DEF ReportsInv, ReportOK
  <2>2. CASE Image.status # "refused"
    <3>1. Image.status \in {"taking", "resting", "done"}
      <4>1. Image.status # "none"
        BY DEF ReportsInv, ImageOK, Image, GetOrderAck, Answered
      <4> QED BY <1>2, <2>2, <4>1 DEF Orders
    <3>2. ItemUpdate(Image)
      BY <2>2 DEF GetOrderAck
    <3> QED BY <1>2, <1>3, <3>1, <3>2, ReportOfItem DEF ReportsInv
  <2> QED BY <2>1, <2>2
<1>5. TypeOK'
  BY <1>3, <1>4 DEF ReportsInv, TypeOK, asked
<1> QED BY <1>3, <1>4, <1>5 DEF ReportsInv

LEMMA GetFillsAckKeepsInv == ReportsInv /\ GetFillsAck => ReportsInv'
<1> SUFFICES ASSUME ReportsInv, GetFillsAck PROVE ReportsInv'
  OBVIOUS
<1>1. Answered("trades") /\ Commit /\ "trades" \in Kinds /\ UNCHANGED <<server, budget, seen>>
  BY KindsOf DEF GetFillsAck
<1>2. call.kind # "none"
  BY <1>1, ImageOfAnswer
<1>3. /\ UNCHANGED <<asked, order, feeds, wire, stage, pending, wanted, joined, fresh>>
      /\ call' \in [kind : Kinds \cup {"none"}, image : Seq(Orders), mine : BOOLEAN]
      /\ response' \subseteq Kinds
      /\ Advances /\ OrderOK' /\ WireOK' /\ ImageOK'
  BY <1>1, <1>2, Committed
<1>4. ReportsTrue'
  BY <1>1, <1>3, ReportsStay DEF ReportsInv, server
<1>5. TypeOK'
  BY <1>1, <1>3 DEF ReportsInv, TypeOK, asked, server
<1> QED BY <1>3, <1>4, <1>5 DEF ReportsInv

LEMMA BudgetType ==
  ASSUME TypeOK, NEW f \in FaultKinds, Spend(f)
  PROVE  budget' \in [FaultKinds -> Nat]
  BY DEF Spend, TypeOK

LEMMA FailsKeepsInv == ReportsInv /\ Fails => ReportsInv'
<1> SUFFICES ASSUME ReportsInv, Fails PROVE ReportsInv'
  OBVIOUS
<1>1. Commit /\ call.kind # "none" /\ UNCHANGED <<server, seen>> /\ Spend("error")
  BY DEF Fails
<1>2. budget' \in [FaultKinds -> Nat]
  BY <1>1, BudgetType DEF ReportsInv, FaultKinds
<1>3. /\ UNCHANGED <<asked, order, feeds, wire, stage, pending, wanted, joined, fresh>>
      /\ call' \in [kind : Kinds \cup {"none"}, image : Seq(Orders), mine : BOOLEAN]
      /\ response' \subseteq Kinds
      /\ Advances /\ OrderOK' /\ WireOK' /\ ImageOK'
  BY <1>1, Committed
<1>4. ReportsTrue'
  BY <1>1, <1>3, ReportsStay DEF ReportsInv, server
<1>5. TypeOK'
  BY <1>1, <1>2, <1>3 DEF ReportsInv, TypeOK, asked, server
<1> QED BY <1>3, <1>4, <1>5 DEF ReportsInv

LEMMA StagesOf ==
  Stages = {"UNDEFINED", "SUBSCRIBE_BALANCES", "GET_BALANCES", "SUBSCRIBE_POSITIONS",
            "GET_POSITIONS", "SUBSCRIBE_ORDERS", "GET_OPEN_ORDERS", "GET_STALE_ORDERS",
            "GET_TRADES", "DONE"}
  BY DEF Stages, Subscribes, Asks

LEMMA FollowsType == \A s \in Stages, w \in BOOLEAN : Follows(s, w) \in Stages
  BY StagesOf DEF Follows, AfterOrders

LEMMA AskedType == \A t \in Stages : Asked(t) \subseteq Kinds
  BY DEF Asked, Kinds

LEMMA EnterType ==
  ASSUME TypeOK, NEW t \in Stages, NEW p \in SUBSET Kinds, NEW r \in SUBSET Kinds,
         Enter(t, p, r)
  PROVE  stage' \in Stages /\ pending' \subseteq Kinds /\ response' \subseteq Kinds
         /\ fresh' \subseteq Kinds
<1>1. Asked(t) \subseteq Kinds
  BY AskedType
<1> QED BY <1>1 DEF Enter, TypeOK

LEMMA SessionKeepsInv == ReportsInv /\ (DropCopyWelcome \/ DropCopyAck) => ReportsInv'
<1> SUFFICES ASSUME ReportsInv, DropCopyWelcome \/ DropCopyAck PROVE ReportsInv'
  OBVIOUS
<1>1. /\ UNCHANGED <<asked, exchange, call, wanted, server, budget, seen, joined>>
      /\ Enter(Follows(stage, wanted), pending, response)
  BY DEF DropCopyWelcome, DropCopyAck
<1>2. /\ stage' \in Stages /\ pending' \subseteq Kinds /\ response' \subseteq Kinds
      /\ fresh' \subseteq Kinds
  <2>1. Follows(stage, wanted) \in Stages
    BY FollowsType DEF ReportsInv, TypeOK
  <2>2. pending \in SUBSET Kinds /\ response \in SUBSET Kinds
    BY DEF ReportsInv, TypeOK
  <2> QED BY <1>1, <2>1, <2>2, EnterType DEF ReportsInv
<1>3. Advances /\ OrderOK' /\ WireOK' /\ ImageOK'
  <2>1. order' = order /\ asked' = asked /\ wire' = wire /\ call' = call
    BY <1>1 DEF exchange
  <2> QED BY <2>1, OrderSame
<1>4. ReportsTrue'
  BY <1>1, <1>3, ReportsStay DEF ReportsInv, server
<1>5. TypeOK'
  BY <1>1, <1>2 DEF ReportsInv, TypeOK, asked, exchange, server
<1> QED BY <1>3, <1>4, <1>5 DEF ReportsInv

LEMMA DropCopyDisconnectedKeepsInv == ReportsInv /\ DropCopyDisconnected => ReportsInv'
<1> SUFFICES ASSUME ReportsInv, DropCopyDisconnected PROVE ReportsInv'
  OBVIOUS
<1>1. /\ UNCHANGED <<asked, order, pending, response, wanted, server>>
      /\ stage' = "UNDEFINED" /\ feeds' = {} /\ wire' = <<>> /\ joined' = {} /\ fresh' = {}
      /\ Spend("stream") /\ call' = [call EXCEPT !.mine = FALSE]
      /\ seen' = [x \in DOMAIN seen |-> -1]
  BY DEF DropCopyDisconnected
<1>2. budget' \in [FaultKinds -> Nat]
  BY <1>1, BudgetType DEF ReportsInv, FaultKinds
<1>3. /\ call' \in [kind : Kinds \cup {"none"}, image : Seq(Orders), mine : BOOLEAN]
      /\ call'.image = call.image /\ call'.kind = call.kind
  BY <1>1 DEF ReportsInv, TypeOK
<1>4. seen' \in [{"balances", "positions"} -> -1..Size]
  <2>1. seen \in [{"balances", "positions"} -> -1..Size] /\ -1 \in -1..Size
    BY SizeAssumption DEF ReportsInv, TypeOK
  <2> QED BY <1>1, <2>1
<1>5. wire' \in Seq(Events) /\ \A e \in Elems(wire') : e \in Elems(wire)
  <2>1. \A e \in Elems(wire') : FALSE
    BY <1>1, ElemsNone DEF Elems
  <2> QED BY <1>1, <2>1
<1>6. Advances /\ OrderOK' /\ WireOK' /\ ImageOK'
  BY <1>1, <1>3, <1>5, OrderSame
<1>7. ReportsTrue'
  BY <1>1, <1>6, ReportsStay DEF ReportsInv, server
<1>8. TypeOK'
  BY <1>1, <1>2, <1>3, <1>4, <1>5, StagesOf DEF ReportsInv, TypeOK, asked, server
<1> QED BY <1>6, <1>7, <1>8 DEF ReportsInv

LEMMA TimerKeepsInv == ReportsInv /\ (\E stale \in BOOLEAN : Timer(stale)) => ReportsInv'
<1> SUFFICES ASSUME ReportsInv, NEW stale \in BOOLEAN, Timer(stale) PROVE ReportsInv'
  OBVIOUS
<1>1. UNCHANGED <<asked, exchange, server, budget, seen, joined>>
  BY DEF Timer
<1> DEFINE sends == Sendable
           p == pending \ sends
           done == Answers(stage)
           scan == done # {} /\ stage = "GET_OPEN_ORDERS"
           w == (wanted /\ "stale_orders" \notin sends) \/ (scan /\ stale)
           t == IF done = {} THEN stage ELSE Follows(stage, w)
           due == t = "DONE" /\ stale /\ ~w
<1>2. /\ stage \in Stages /\ pending \subseteq Kinds /\ response \subseteq Kinds
      /\ fresh \subseteq Kinds /\ wanted \in BOOLEAN
      /\ call \in [kind : Kinds \cup {"none"}, image : Seq(Orders), mine : BOOLEAN]
  BY DEF ReportsInv, TypeOK
<1>3. p \in SUBSET Kinds /\ response \ done \in SUBSET Kinds /\ sends \subseteq Kinds
  BY <1>2 DEF Sendable
<1>4. t \in Stages
  <2>1. w \in BOOLEAN
    BY <1>2
  <2>2. Follows(stage, w) \in Stages
    BY <1>2, <2>1, FollowsType
  <2> QED BY <1>2, <2>2
<1>5. /\ stage' \in Stages /\ pending' \subseteq Kinds /\ response' \subseteq Kinds
      /\ fresh' \subseteq Kinds
  <2>1. CASE due
    <3>1. /\ stage' = t /\ pending' = p \cup {"stale_orders"}
          /\ response' = response \ (done \cup {"stale_orders"}) /\ fresh' = fresh
      BY <2>1 DEF Timer
    <3> HIDE DEF p, t, done
    <3> QED BY <1>2, <1>3, <1>4, <3>1, KindsOf
  <2>2. CASE ~due /\ done # {}
    <3>1. Enter(t, p, response \ done)
      BY <2>2 DEF Timer
    <3> HIDE DEF p, t, done
    <3> QED BY <1>3, <1>4, <3>1, EnterType DEF ReportsInv
  <2>3. CASE ~due /\ done = {}
    <3>1. pending' = p /\ UNCHANGED <<stage, response, fresh>>
      BY <2>3 DEF Timer
    <3> HIDE DEF p, t, done
    <3> QED BY <1>2, <1>3, <3>1
  <2> HIDE DEF due, done
  <2> QED BY <2>1, <2>2, <2>3
<1>6. /\ call' \in [kind : Kinds \cup {"none"}, image : Seq(Orders), mine : BOOLEAN]
      /\ call'.image = <<>> \/ (call'.image = call.image /\ call'.kind = call.kind)
  <2>1. CASE sends = {}
    <3>1. call' = call
      BY <2>1 DEF Timer
    <3> QED BY <1>2, <3>1
  <2>2. CASE sends # {}
    <3>1. call' = [kind |-> CHOOSE k \in sends : TRUE, image |-> <<>>,
                   mine |-> sends \subseteq fresh]
      BY <2>2 DEF Timer
    <3>2. (CHOOSE k \in sends : TRUE) \in Kinds
      <4> HIDE DEF sends
      <4> QED BY <1>3, <2>2
    <3>3. PICK k \in Kinds, m \in BOOLEAN : call' = [kind |-> k, image |-> <<>>, mine |-> m]
      <4>1. (sends \subseteq fresh) \in BOOLEAN
        OBVIOUS
      <4> HIDE DEF sends
      <4> QED BY <3>1, <3>2, <4>1
    <3>4. <<>> \in Seq(Orders)
      OBVIOUS
    <3> QED BY <3>3, <3>4
  <2> QED BY <2>1, <2>2
<1>7. wanted' \in BOOLEAN
  BY DEF Timer
<1>8. Advances /\ OrderOK' /\ WireOK' /\ ImageOK'
  <2>1. order' = order /\ asked' = asked /\ wire' = wire
    BY <1>1 DEF exchange
  <2>2. \A e \in Elems(wire') : e \in Elems(wire)
    BY <2>1
  <2> QED BY <1>6, <2>1, <2>2, OrderSame
<1>9. ReportsTrue'
  BY <1>1, <1>8, ReportsStay DEF ReportsInv, server
<1>10. TypeOK'
  BY <1>1, <1>5, <1>6, <1>7 DEF ReportsInv, TypeOK, asked, exchange, server
<1> QED BY <1>8, <1>9, <1>10 DEF ReportsInv

LEMMA InitInv == Init => ReportsInv
<1> SUFFICES ASSUME Init PROVE ReportsInv
  OBVIOUS
<1>1. PICK c \in Cases : request = c.request /\ account = c.account
  BY DEF Init
<1>2. [request |-> request, account |-> account] \in Cases
  BY <1>1, CasesAssumption
<1>3. order \in Orders
  <2>1. order = [status |-> "none", filled |-> 0, trades |-> {}] /\ 0 \in 0..Size
    BY SizeAssumption DEF Init
  <2> QED BY <2>1 DEF Orders
<1>4. call \in [kind : Kinds \cup {"none"}, image : Seq(Orders), mine : BOOLEAN]
      /\ call.image = <<>>
  BY DEF Init, NoCall
<1>5. told \in Reports
  <2>1. NoFields \in FieldsType
    BY DEF NoFields, FieldsType, Sides, MarginModes, OrderTypes, TimesInForce
  <2>2. told = [status |-> "SENT", traded |-> 0, remaining |-> Size, fields |-> NoFields]
        /\ 0 \in 0..Size /\ Size \in 0..Size
    BY SizeAssumption DEF Init
  <2> QED BY <2>1, <2>2 DEF Reports, FieldsType
<1>6. fills \in [Trades -> Nat]
  BY DEF Init
<1>7. /\ view \in [balances : -1..Size, positions : [long : Nat, short : Nat]]
      /\ seen \in [{"balances", "positions"} -> -1..Size]
  <2>1. -1 \in -1..Size
    BY SizeAssumption
  <2> QED BY <2>1 DEF Init
<1>8. budget \in [FaultKinds -> Nat]
  BY FaultsAssumption DEF Init
<1>9. wire \in Seq(Events) /\ WireOK
  <2>1. wire = <<>>
    BY DEF Init
  <2>2. \A e \in Elems(wire) : FALSE
    BY <2>1, ElemsNone DEF Elems
  <2> QED BY <2>1, <2>2 DEF WireOK
<1>10. TypeOK
  BY <1>2, <1>3, <1>4, <1>5, <1>6, <1>7, <1>8, <1>9, StagesOf DEF TypeOK, Init
<1>11. OrderOK
  BY SizeAssumption DEF Init, OrderOK, Known, Live
<1>12. ImageOK /\ ReportsTrue
  BY <1>4 DEF Init, ImageOK, ReportsTrue
<1> QED BY <1>9, <1>10, <1>11, <1>12 DEF ReportsInv

LEMMA StutterKeepsInv == ReportsInv /\ UNCHANGED vars => ReportsInv'
<1> SUFFICES ASSUME ReportsInv, UNCHANGED vars PROVE ReportsInv'
  OBVIOUS
<1>1. UNCHANGED <<asked, order, feeds, wire, stage, pending, call, response, wanted,
                  told, fills, view, budget, seen, joined, fresh>>
  BY DEF vars, exchange, board, server, history
<1>2. Advances /\ OrderOK' /\ WireOK' /\ ImageOK'
  BY <1>1, OrderSame
<1>3. ReportsTrue'
  BY <1>1, <1>2, ReportsStay DEF ReportsInv
<1>4. TypeOK'
  BY <1>1 DEF ReportsInv, TypeOK, asked
<1> QED BY <1>2, <1>3, <1>4 DEF ReportsInv

LEMMA NextKeepsInv == ReportsInv /\ [Next]_vars => ReportsInv'
<1> SUFFICES ASSUME ReportsInv, [Next]_vars PROVE ReportsInv'
  OBVIOUS
<1>1. CASE ExchangeNext
  BY <1>1, ExchangeKeepsInv, SubscribeKeepsInv, ServeKeepsInv DEF ExchangeNext
<1>2. CASE AnswerNext
  BY <1>2, GetAccountAckKeepsInv, GetPositionsAckKeepsInv, GetOrdersAckKeepsInv,
     GetOrderAckKeepsInv, GetFillsAckKeepsInv, FailsKeepsInv DEF AnswerNext
<1>3. CASE DropCopyNext
  BY <1>3, WalletBalanceChangeKeepsInv, PositionChangeKeepsInv, OrderChangeKeepsInv,
     SessionKeepsInv, DropCopyDisconnectedKeepsInv, TimerKeepsInv DEF DropCopyNext
<1>4. CASE UNCHANGED vars
  BY <1>4, StutterKeepsInv
<1> QED BY <1>1, <1>2, <1>3, <1>4 DEF Next

\* The invariant of the proof: reports on their way, by whichever route, were
\* true of the order when they were made.
THEOREM InvariantHolds == Spec => []ReportsInv
  BY InitInv, NextKeepsInv, PTL DEF Spec

LEMMA InvImpliesTypeOK == ReportsInv => TypeOK
  BY DEF ReportsInv

LEMMA InvImpliesReportsTrue == ReportsInv => ReportsTrue
  BY DEF ReportsInv

\* Every variable keeps its type, for every size of the order, every request and
\* any number of faults.
THEOREM TypeCorrect == Spec => []TypeOK
  BY InvariantHolds, InvImpliesTypeOK, PTL

\* What the server is told of the order, by an event of DropCopy, a snapshot or
\* a query, in any order of arrival, is or was true of the order at the exchange.
THEOREM ReportsCorrect == Spec => []ReportsTrue
  BY InvariantHolds, InvImpliesReportsTrue, PTL

----------------------------------------------------------------------------
(* The promise made about orders is kept. *)

\* What an event says of the order is a status that the promise knows.
LEMMA EventStatusOf ==
  ASSUME NEW e \in Events, EventOK(e)
  PROVE  EventStatus(e) \in Over \cup {"WORKING"}
  BY DEF EventOK, EventStatus, MapOrderStatus, Over

LEMMA ItemStatusOf ==
  ASSUME NEW o \in Orders PROVE ItemStatus(o) \in Over \cup {"WORKING"}
  BY DEF ItemStatus, Listed, MapOrderStatus, Over

LEMMA SameFate == ASSUME order' = order PROVE Fate' = Fate
  BY DEF Fate, Live

LEMMA SameStanding == ASSUME told' = told PROVE Standing' = Standing
  BY DEF Standing

\* The exchange decides the order once and ends it once.
LEMMA FateMoves ==
  ASSUME TypeOK, Refuse \/ Accept \/ Rest \/ Cancel \/ (\E n \in 1..Size : Match(n))
  PROVE  \/ Fate' = Fate
         \/ Fate = "out" /\ Fate' \in {"live", "never"}
         \/ Fate = "live" /\ Fate' = "ended"
<1>0. order \in Orders
  BY DEF TypeOK
<1>1. CASE Refuse
  BY <1>0, <1>1 DEF Refuse, Orders, Fate, Live
<1>2. CASE Accept
  BY <1>0, <1>2 DEF Accept, Orders, Fate, Live
<1>3. CASE Rest
  <2>1. order.status = "taking" /\ order'.status = "resting"
    BY <1>0, <1>3 DEF Rest, Orders
  <2> QED BY <2>1 DEF Fate, Live
<1>4. CASE Cancel
  BY <1>0, <1>4 DEF Cancel, Orders, Fate, Live
<1>5. ASSUME NEW n \in 1..Size, Match(n) PROVE Fate' \in {Fate, "ended"} /\ Fate = "live"
  BY <1>0, <1>5 DEF Match, Orders, Fate, Live
<1> QED BY <1>1, <1>2, <1>3, <1>4, <1>5

LEMMA StutterRefines ==
  ASSUME Fate' = Fate, Standing' = Standing PROVE UNCHANGED P!vars
  BY DEF P!vars

\* A step of the exchange decides or ends the order of the promise, or nothing.
LEMMA OrderRefines ==
  ASSUME Standing' = Standing,
         \/ Fate' = Fate
         \/ Fate = "out" /\ Fate' \in {"live", "never"}
         \/ Fate = "live" /\ Fate' = "ended"
  PROVE  P!Next \/ UNCHANGED P!vars
<1>1. CASE Fate' = Fate
  BY <1>1, StutterRefines
<1>2. CASE Fate = "out" /\ Fate' \in {"live", "never"}
  <2>1. P!Decide("order")
    BY <1>2 DEF P!Decide
  <2> QED BY <2>1 DEF P!Next
<1>3. CASE Fate = "live" /\ Fate' = "ended"
  <2>1. P!End({"order"})
    BY <1>3 DEF P!End
  <2> QED BY <2>1 DEF P!Next
<1> QED BY <1>1, <1>2, <1>3

\* What the server was told is true of the promise's order.
StandingTrue ==
  /\ Standing = "working" => Fate \in {"live", "ended"}
  /\ Standing = "ended" => Fate \in {"ended", "never"}

LEMMA TrueStanding == ReportsInv => StandingTrue
<1> SUFFICES ASSUME TypeOK, OrderOK, ReportsTrue PROVE StandingTrue
  BY DEF ReportsInv
<1>1. /\ order \in Orders /\ told \in Reports /\ Size \in Nat \ {0}
  BY SizeAssumption DEF TypeOK
<1>2. CASE told.status = "WORKING"
  BY <1>2 DEF ReportsTrue, Standing, Fate, StandingTrue
<1>3. CASE told.status = "COMPLETED"
  <2>1. order.filled = Size
    BY <1>3 DEF ReportsTrue
  <2>2. Known /\ ~Live
    BY <1>1, <2>1 DEF OrderOK
  <2>3. order.status = "done"
    BY <1>1, <2>2, KnownStatus
  <2> QED BY <1>3, <2>2, <2>3 DEF Standing, Fate, StandingTrue
<1>4. CASE told.status = "CANCELED"
  BY <1>4 DEF ReportsTrue, Standing, Fate, Live, StandingTrue
<1>5. CASE told.status = "REJECTED"
  BY <1>5 DEF ReportsTrue, Standing, Fate, Live, StandingTrue
<1>6. CASE told.status = "SENT"
  BY <1>6 DEF Standing, StandingTrue
<1> QED BY <1>1, <1>2, <1>3, <1>4, <1>5, <1>6 DEF Reports, Over

LEMMA TrueStandingNext == ReportsInv' => StandingTrue'
  BY TrueStanding, PTL

\* A report that updates the order is one that the promise allows.
LEMMA UpdateRefines ==
  ASSUME ReportsInv, ReportsInv', order' = order, NEW r,
         r.status \in Over \cup {"WORKING"}, Update(r)
  PROVE  P!Next \/ UNCHANGED P!vars
<1>1. CASE told.status \in Over
  BY <1>1, SameFate, SameStanding, StutterRefines DEF Update
<1>2. CASE told.status \notin Over
  <2>1. Fate' = Fate
    BY SameFate
  <2>2. Standing # "ended" /\ Standing' \in {"working", "ended"}
    <3>1. told' = r /\ told \in Reports
      BY <1>2 DEF Update, ReportsInv, TypeOK
    <3> QED BY <1>2, <3>1 DEF Standing, Over, Reports
  <2>3. /\ Standing' = "working" => Fate \in {"live", "ended"}
        /\ Standing' = "ended" => Fate \in {"ended", "never"}
    BY <2>1, TrueStandingNext DEF StandingTrue
  <2>4. PICK t \in {"working", "ended"} : t = Standing'
    BY <2>2
  <2>5. P!Learn({"order"}, t)
    BY <2>1, <2>2, <2>3, <2>4 DEF P!Learn
  <2> QED BY <2>5 DEF P!Next
<1> QED BY <1>1, <1>2

\* What an event, a snapshot or the query of a stale order tells.
LEMMA ReportRefines ==
  ASSUME ReportsInv, ReportsInv', OrderChange \/ GetOrdersAck \/ GetOrderAck
  PROVE  P!Next \/ UNCHANGED P!vars
<1>1. CASE OrderChange
  <2>1. order' = order /\ Head(wire) \in Events /\ EventOK(Head(wire))
    <3>1. Receive("open_orders") /\ Quiet /\ "open_orders" \in Topics
      BY <1>1 DEF OrderChange, Topics
    <3>2. /\ order' = order /\ Head(wire) \in Events /\ Head(wire) \in Elems(wire)
          /\ Head(wire).topic = "open_orders"
      BY <3>1, Received
    <3> QED BY <3>2 DEF ReportsInv, WireOK
  <2>2. EventStatus(Head(wire)) \in Over \cup {"WORKING"}
    BY <2>1, EventStatusOf
  <2>3. PICK r : r.status = EventStatus(Head(wire)) /\ Update(r)
    BY <1>1 DEF OrderChange
  <2> QED BY <2>1, <2>2, <2>3, UpdateRefines
<1>2. ASSUME GetOrdersAck \/ GetOrderAck
      PROVE  order' = order /\ Image \in Orders
  <2>1. Commit /\ (Answered("open_orders") \/ Answered("stale_orders"))
    BY <1>2 DEF GetOrdersAck, GetOrderAck
  <2>2. Image \in Orders
    BY <2>1, ImageOfAnswer, KindsOf
  <2> QED BY <2>1, <2>2 DEF Commit, exchange
<1>3. ASSUME order' = order, Image \in Orders, ItemUpdate(Image)
      PROVE  P!Next \/ UNCHANGED P!vars
  <2>1. ItemStatus(Image) \in Over \cup {"WORKING"}
    BY <1>3, ItemStatusOf
  <2>2. PICK r : r.status = ItemStatus(Image) /\ Update(r)
    BY <1>3 DEF ItemUpdate
  <2> QED BY <1>3, <2>1, <2>2, UpdateRefines
<1>4. CASE GetOrdersAck
  <2>1. CASE ItemUpdate(Image)
    BY <1>2, <1>3, <1>4, <2>1
  <2>2. CASE UNCHANGED told
    BY <1>2, <1>4, <2>2, SameFate, SameStanding, StutterRefines
  <2> QED BY <1>4, <2>1, <2>2 DEF GetOrdersAck
<1>5. CASE GetOrderAck
  <2>1. CASE ItemUpdate(Image)
    BY <1>2, <1>3, <1>5, <2>1
  <2>2. CASE Update([told EXCEPT !.status = "REJECTED"])
    <3>1. told \in Reports
      BY DEF ReportsInv, TypeOK
    <3>2. PICK r : r.status = "REJECTED" /\ Update(r)
      BY <2>2, <3>1 DEF Reports
    <3> QED BY <1>2, <1>5, <3>2, UpdateRefines DEF Over
  <2> QED BY <1>5, <2>1, <2>2 DEF GetOrderAck
<1> QED BY <1>1, <1>4, <1>5

\* Nothing else tells the server of the order or changes it.
LEMMA OtherStutters ==
  ASSUME \/ Subscribe \/ Serve \/ GetAccountAck
         \/ \E listed \in BOOLEAN : GetPositionsAck(listed)
         \/ GetFillsAck \/ Fails \/ WalletBalanceChange \/ PositionChange
         \/ DropCopyWelcome \/ DropCopyAck \/ DropCopyDisconnected
         \/ \E stale \in BOOLEAN : Timer(stale)
  PROVE  UNCHANGED P!vars
<1>1. order' = order /\ told' = told
  BY DEF Subscribe, Serve, GetAccountAck, GetPositionsAck, GetFillsAck, Fails, Commit,
         WalletBalanceChange, PositionChange, Quiet, DropCopyWelcome, DropCopyAck,
         DropCopyDisconnected, Timer, exchange, server
<1> QED BY <1>1, SameFate, SameStanding, StutterRefines

LEMMA StepRefines ==
  ASSUME ReportsInv, ReportsInv', [Next]_vars
  PROVE  P!Next \/ UNCHANGED P!vars
<1>1. CASE Refuse \/ Accept \/ Rest \/ Cancel \/ (\E n \in 1..Size : Match(n))
  <2>1. told' = told
    BY <1>1 DEF Refuse, Accept, Rest, Cancel, Match, Unmoved, server
  <2> QED BY <1>1, <2>1, FateMoves, SameStanding, OrderRefines DEF ReportsInv
<1>2. CASE OrderChange \/ GetOrdersAck \/ GetOrderAck
  BY <1>2, ReportRefines
<1>3. CASE UNCHANGED vars
  BY <1>3, SameFate, SameStanding, StutterRefines DEF vars, exchange, server
<1> QED BY <1>1, <1>2, <1>3, OtherStutters DEF Next, ExchangeNext, AnswerNext,
                                                DropCopyNext

\* OrderReports implements OrderPromise: whichever of the events of DropCopy, the
\* snapshot of the open orders and the queries of stale orders overtake each other
\* or are lost, the server is told of an order only what it is or was.
THEOREM PromiseKept == Spec => KeepsPromise
<1>1. Init => P!Submitted
  BY DEF Init, P!Submitted, Fate, Live, Standing
<1>2. ReportsInv /\ ReportsInv' /\ [Next]_vars => [P!Next]_P!vars
  BY StepRefines DEF P!vars
<1> QED BY <1>1, <1>2, InvariantHolds, PTL DEF Spec, P!SubmittedSpec, KeepsPromise

----------------------------------------------------------------------------
(* The safety that QuantitiesLearned rests on. *)

\* The stage of the download that waits for an answer has asked in this session,
\* and its request is pending, out or answered; an order that was found stale
\* waits for a query that is still to be sent.
AnswersBacked ==
  /\ stage \in DOMAIN Asks =>
       /\ Asks[stage] \in fresh
       /\ Asks[stage] \in pending \cup response \cup {call.kind}
  /\ wanted => "stale_orders" \in pending

\* Entering a stage asks for what it waits for.
LEMMA EnterBacks ==
  ASSUME NEW t, NEW p, NEW r, Enter(t, p, r)
  PROVE  t \in DOMAIN Asks => /\ stage' = t /\ Asks[t] \in pending'
                              /\ Asks[t] \in fresh'
  BY DEF Enter, Asked

\* One request at most is sent at a time.
LEMMA SendsOne ==
  ASSUME TypeOK, NEW k \in Sendable
  PROVE  Sendable = {k} /\ call = NoCall /\ k = CHOOSE i \in Sendable : TRUE
<1>1. ASSUME NEW j \in Sendable PROVE j = k
  <2>1. /\ k \in Kinds /\ j \in Kinds
        /\ Rank[k] <= Rank[j] /\ Rank[j] <= Rank[k]
    BY <1>1 DEF Sendable, TypeOK
  <2>2. Kinds = {"balances", "positions", "open_orders", "stale_orders", "trades"}
    BY DEF Kinds, Asks
  <2> QED BY <2>1, <2>2 DEF Rank
<1>2. Sendable = {k} /\ call = NoCall
  BY <1>1 DEF Sendable
<1> QED BY <1>2

\* A request that is sent is out afterwards, and a call stays out.
LEMMA BackedOfTimer ==
  ASSUME TypeOK, AnswersBacked, NEW stale \in BOOLEAN, Timer(stale)
  PROVE  AnswersBacked'
<1> DEFINE sends == Sendable
           p == pending \ sends
           done == Answers(stage)
           scan == done # {} /\ stage = "GET_OPEN_ORDERS"
           w == (wanted /\ "stale_orders" \notin sends) \/ (scan /\ stale)
           t == IF done = {} THEN stage ELSE Follows(stage, w)
           due == t = "DONE" /\ stale /\ ~w
<1>1. "DONE" \notin DOMAIN Asks
  BY DEF Asks
<1>2. wanted' = (w \/ due)
  BY DEF Timer
<1>3. wanted /\ "stale_orders" \notin sends => "stale_orders" \in p
  BY DEF AnswersBacked
<1>4. scan /\ stale => t = "GET_STALE_ORDERS"
  BY DEF Follows
<1>5. CASE due
  <2>1. stage' = "DONE" /\ pending' = p \cup {"stale_orders"}
    BY <1>5 DEF Timer
  <2> QED BY <1>1, <2>1 DEF AnswersBacked
<1>6. CASE ~due /\ done # {}
  <2>1. Enter(t, p, response \ done)
    BY <1>6 DEF Timer
  <2>2. t \in DOMAIN Asks => Asks[t] \in pending' /\ Asks[t] \in fresh'
    BY <2>1, EnterBacks
  <2>3. stage' = t /\ p \subseteq pending'
    BY <2>1 DEF Enter
  <2>4. wanted' => "stale_orders" \in pending'
    <3>1. CASE wanted /\ "stale_orders" \notin sends
      BY <1>3, <2>3, <3>1
    <3>2. CASE scan /\ stale
      BY <1>4, <2>2, <3>2 DEF Asks
    <3> QED BY <1>2, <1>6, <3>1, <3>2
  <2> QED BY <2>2, <2>3, <2>4 DEF AnswersBacked
<1>7. CASE ~due /\ done = {}
  <2>1. /\ stage' = stage /\ pending' = p /\ response' = response /\ fresh' = fresh
        /\ call' = IF sends = {} THEN call
                   ELSE [kind |-> CHOOSE k \in sends : TRUE, image |-> <<>>,
                         mine |-> sends \subseteq fresh]
    BY <1>7 DEF Timer
  <2>2. wanted' => "stale_orders" \in pending'
    BY <1>2, <1>3, <1>7, <2>1
  <2>3. ASSUME stage \in DOMAIN Asks
        PROVE  Asks[stage] \in fresh /\ Asks[stage] \in p \cup response \cup {call'.kind}
    <3>1. Asks[stage] \in fresh /\ Asks[stage] \in pending \cup response \cup {call.kind}
      BY <2>3 DEF AnswersBacked
    <3>2. Asks[stage] \in Kinds /\ "none" \notin Kinds
      BY <2>3 DEF Kinds, Asks
    <3>3. CASE sends = {}
      BY <2>1, <3>1, <3>3
    <3>4. ASSUME NEW k \in sends
          PROVE  Asks[stage] \in p \cup response \cup {call'.kind}
      <4>1. sends = {k} /\ call = NoCall /\ call'.kind = k
        BY <2>1, <3>4, SendsOne
      <4>2. Asks[stage] # call.kind
        BY <3>2, <4>1 DEF NoCall
      <4> QED BY <3>1, <4>1, <4>2
    <3> QED BY <3>1, <3>3, <3>4
  <2> QED BY <2>1, <2>2, <2>3 DEF AnswersBacked
<1> QED BY <1>5, <1>6, <1>7

LEMMA BackedOfStep ==
  ASSUME TypeOK, AnswersBacked, [Next]_vars
  PROVE  AnswersBacked'
<1> USE DEF AnswersBacked
<1>1. ASSUME UNCHANGED <<stage, pending, response, wanted, fresh>>, call'.kind = call.kind
      PROVE  AnswersBacked'
  BY <1>1
<1>2. CASE ExchangeNext
  <2>1. CASE Subscribe
    BY <1>1, <2>1 DEF Subscribe, board
  <2>2. CASE Serve
    <3>1. call'.kind = call.kind
      BY <2>2 DEF Serve, TypeOK
    <3> QED BY <1>1, <2>2, <3>1 DEF Serve, history
  <2>3. CASE Refuse \/ Accept \/ Rest \/ Cancel \/ (\E n \in 1..Size : Match(n))
    <3>1. UNCHANGED <<stage, board, history>>
      BY <2>3 DEF Refuse, Accept, Rest, Cancel, Match, Unmoved
    <3> QED BY <1>1, <3>1 DEF board, history
  <2> QED BY <1>2, <2>1, <2>2, <2>3 DEF ExchangeNext
<1>3. CASE AnswerNext
  <2>1. Commit
    BY <1>3 DEF AnswerNext, GetAccountAck, GetPositionsAck, GetOrdersAck, GetOrderAck,
                GetFillsAck, Fails
  <2> QED BY <2>1 DEF Commit
<1>4. CASE DropCopyNext
  <2>1. CASE WalletBalanceChange \/ PositionChange \/ OrderChange
    <3>1. Quiet
      BY <2>1 DEF WalletBalanceChange, PositionChange, OrderChange
    <3> QED BY <1>1, <3>1 DEF Quiet, board
  <2>2. CASE DropCopyWelcome \/ DropCopyAck
    <3>1. /\ Enter(Follows(stage, wanted), pending, response)
          /\ wanted' = wanted
      BY <2>2 DEF DropCopyWelcome, DropCopyAck
    <3>2. pending \subseteq pending' /\ stage' = Follows(stage, wanted)
      BY <3>1 DEF Enter
    <3> QED BY <3>1, <3>2, EnterBacks
  <2>3. CASE DropCopyDisconnected
    <3>1. stage' = "UNDEFINED" /\ pending' = pending /\ wanted' = wanted
      BY <2>3 DEF DropCopyDisconnected
    <3> QED BY <3>1 DEF Asks
  <2>4. ASSUME NEW stale \in BOOLEAN, Timer(stale) PROVE AnswersBacked'
    BY <2>4, BackedOfTimer
  <2> QED BY <1>4, <2>1, <2>2, <2>3, <2>4 DEF DropCopyNext
<1>5. CASE UNCHANGED vars
  BY <1>1, <1>5 DEF vars, board, history
<1> QED BY <1>2, <1>3, <1>4, <1>5 DEF Next

\* DropCopy never waits for an answer that nobody asked for, and never notes a
\* stale order without a query that will be sent, however calls fail and sessions
\* are lost: on this rests that the final quantities are learned.
THEOREM AnswersOnTheirWay == Spec => []AnswersBacked
<1>1. Init => AnswersBacked
  BY DEF Init, AnswersBacked, Asks
<1>2. TypeOK /\ AnswersBacked /\ [Next]_vars => AnswersBacked'
  BY BackedOfStep
<1> QED BY <1>1, <1>2, TypeCorrect, PTL DEF Spec
=============================================================================
