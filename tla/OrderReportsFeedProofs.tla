----------------------- MODULE OrderReportsFeedProofs -----------------------
(***************************************************************************)
(* Proofs about OrderReports, continued: the fills, the balance and the    *)
(* position that the server is told, and the fields of the order.          *)
(***************************************************************************)
EXTENDS OrderReportsProofs

Feeds == {"balances", "positions"}

----------------------------------------------------------------------------
(* What the exchange appends to the wire. *)

LEMMA ConcatIndex ==
  ASSUME NEW S, NEW s \in Seq(S), NEW t \in Seq(S)
  PROVE  /\ s \o t \in Seq(S) /\ Len(s \o t) = Len(s) + Len(t)
         /\ Len(s) \in Nat /\ Len(t) \in Nat
         /\ \A k \in 1..Len(s) : k \in 1..Len(s \o t) /\ (s \o t)[k] = s[k]
         /\ \A k \in 1..Len(t) : /\ Len(s) + k \in 1..Len(s \o t)
                                 /\ (s \o t)[Len(s) + k] = t[k]
         /\ \A k \in 1..Len(s \o t) :
              \/ k \in 1..Len(s)
              \/ \E j \in 1..Len(t) : k = Len(s) + j
<1>1. /\ s \o t \in Seq(S) /\ Len(s \o t) = Len(s) + Len(t)
      /\ Len(s) \in Nat /\ Len(t) \in Nat
      /\ \A k \in 1..Len(s) + Len(t) :
           (s \o t)[k] = IF k <= Len(s) THEN s[k] ELSE t[k - Len(s)]
  BY ConcatProperties, LenProperties
<1>2. ASSUME NEW k \in 1..Len(t)
      PROVE  Len(s) + k \in 1..Len(s \o t) /\ (s \o t)[Len(s) + k] = t[k]
  BY <1>1
<1>3. ASSUME NEW k \in 1..Len(s \o t), k \notin 1..Len(s)
      PROVE  \E j \in 1..Len(t) : k = Len(s) + j
  <2>1. k - Len(s) \in 1..Len(t) /\ k = Len(s) + (k - Len(s))
    BY <1>1, <1>3
  <2> QED BY <2>1
<1> QED BY <1>1, <1>2, <1>3

LEMMA NoneIndex == \E p \in Seq(Events) : p = <<>> /\ Len(p) = 0
<1>1. <<>> \in Seq(Events) /\ Len(<<>>) = 0
  OBVIOUS
<1> QED BY <1>1

LEMMA OneIndex ==
  ASSUME NEW e \in Events
  PROVE  \E p \in Seq(Events) : p = <<e>> /\ Len(p) = 1 /\ p[1] = e
<1>1. <<e>> \in Seq(Events) /\ Len(<<e>>) = 1 /\ <<e>>[1] = e
  OBVIOUS
<1> QED BY <1>1

LEMMA TwoIndex ==
  ASSUME NEW e \in Events, NEW f \in Events
  PROVE  \E p \in Seq(Events) : p = <<e, f>> /\ Len(p) = 2 /\ p[1] = e /\ p[2] = f
<1>1. <<e, f>> \in Seq(Events) /\ Len(<<e, f>>) = 2 /\ <<e, f>>[1] = e /\ <<e, f>>[2] = f
  OBVIOUS
<1> QED BY <1>1

LEMMA PartIndex ==
  ASSUME NEW x, NEW s \in Seq(Events)
  PROVE  \E p \in Seq(Events) : /\ p = Part(x, s)
                                /\ x \in feeds => p = s
                                /\ x \notin feeds => Len(p) = 0
<1>1. PICK z \in Seq(Events) : z = <<>> /\ Len(z) = 0
  BY NoneIndex
<1>2. x \in feeds => Part(x, s) = s
  BY DEF Part
<1>3. x \notin feeds => Part(x, s) = z
  BY <1>1 DEF Part
<1> QED BY <1>1, <1>2, <1>3

LEMMA PartOne ==
  ASSUME NEW x, NEW e \in Events
  PROVE  \E p \in Seq(Events) : /\ p = Part(x, <<e>>)
                                /\ \A k \in 1..Len(p) : p[k] = e /\ x \in feeds
                                /\ x \in feeds => Len(p) >= 1 /\ p[1] = e
<1>1. PICK s \in Seq(Events) : s = <<e>> /\ Len(s) = 1 /\ s[1] = e
  BY OneIndex
<1>2. PICK p \in Seq(Events) : /\ p = Part(x, s)
                               /\ x \in feeds => p = s
                               /\ x \notin feeds => Len(p) = 0
  BY PartIndex
<1>3. p = Part(x, <<e>>)
  BY <1>1, <1>2, Zenon
<1>4. \A k \in 1..Len(s) : s[k] = e
  BY <1>1
<1>5. \A k \in 1..Len(p) : p[k] = e /\ x \in feeds
  <2>1. CASE x \in feeds
    <3>1. p = s
      BY <1>2, <2>1, Zenon
    <3> QED BY <1>4, <2>1, <3>1
  <2>2. CASE x \notin feeds
    <3>1. Len(p) = 0
      BY <1>2, <2>2, Zenon
    <3> QED BY <2>2, <3>1
  <2> QED BY <2>1, <2>2
<1>6. ASSUME x \in feeds PROVE Len(p) >= 1 /\ p[1] = e
  <2>1. p = s /\ Len(s) = 1 /\ s[1] = e
    BY <1>1, <1>2, <1>6, Zenon
  <2> QED BY <2>1
<1> QED BY <1>3, <1>5, <1>6

LEMMA EventsIndex ==
  ASSUME NEW s \in Seq(Events), NEW t \in Seq(Events)
  PROVE  /\ s \o t \in Seq(Events) /\ Len(s \o t) = Len(s) + Len(t)
         /\ Len(s) \in Nat /\ Len(t) \in Nat
         /\ \A k \in 1..Len(s) : k \in 1..Len(s \o t) /\ (s \o t)[k] = s[k]
         /\ \A k \in 1..Len(t) : /\ Len(s) + k \in 1..Len(s \o t)
                                 /\ (s \o t)[Len(s) + k] = t[k]
         /\ \A k \in 1..Len(s \o t) :
              \/ k \in 1..Len(s)
              \/ \E j \in 1..Len(t) : k = Len(s) + j
  BY ConcatIndex, SMTT(60)

LEMMA JoinIndex ==
  ASSUME NEW s \in Seq(Events), NEW t \in Seq(Events)
  PROVE  \E d \in Seq(Events) :
           /\ d = s \o t /\ Len(d) \in Nat /\ Len(s) \in Nat
           /\ \A k \in 1..Len(s) : k \in 1..Len(d) /\ d[k] = s[k]
           /\ \A k \in 1..Len(t) : \E j \in 1..Len(d) : d[j] = t[k]
           /\ \A k \in 1..Len(d) : \/ k \in 1..Len(s)
                                   \/ \E j \in 1..Len(t) : d[k] = t[j]
<1>1. PICK d \in Seq(Events) :
        /\ d = s \o t /\ Len(d) \in Nat /\ Len(s) \in Nat
        /\ \A k \in 1..Len(s) : k \in 1..Len(d) /\ d[k] = s[k]
        /\ \A k \in 1..Len(t) : Len(s) + k \in 1..Len(d) /\ d[Len(s) + k] = t[k]
        /\ \A k \in 1..Len(d) : \/ k \in 1..Len(s)
                                \/ \E j \in 1..Len(t) : k = Len(s) + j
  <2>1. /\ s \o t \in Seq(Events) /\ Len(s \o t) = Len(s) + Len(t)
        /\ Len(s) \in Nat /\ Len(t) \in Nat
        /\ \A k \in 1..Len(s) : k \in 1..Len(s \o t) /\ (s \o t)[k] = s[k]
        /\ \A k \in 1..Len(t) : /\ Len(s) + k \in 1..Len(s \o t)
                                /\ (s \o t)[Len(s) + k] = t[k]
        /\ \A k \in 1..Len(s \o t) :
             \/ k \in 1..Len(s)
             \/ \E j \in 1..Len(t) : k = Len(s) + j
    BY EventsIndex, ZenonT(60)
  <2>2. Len(s \o t) \in Nat
    BY <2>1
  <2> QED BY <2>1, <2>2, Zenon
<1>2. \A k \in 1..Len(t) : \E j \in 1..Len(d) : d[j] = t[k]
  BY <1>1, Zenon
<1>3. \A k \in 1..Len(d) : \/ k \in 1..Len(s)
                          \/ \E j \in 1..Len(t) : d[k] = t[j]
  BY <1>1, Zenon
<1> QED BY <1>1, <1>2, <1>3, Zenon

TailOf(s) == /\ Tail(s) \in Seq(Events) /\ Len(s) \in Nat \ {0}
             /\ Len(Tail(s)) = Len(s) - 1 /\ Head(s) = s[1]
             /\ \A k \in 1..Len(Tail(s)) : k + 1 \in 1..Len(s) /\ Tail(s)[k] = s[k + 1]

LEMMA TailIndex ==
  ASSUME NEW s \in Seq(Events), s # <<>>
  PROVE  TailOf(s)
<1>1. /\ Tail(s) \in Seq(Events) /\ Len(s) \in Nat \ {0} /\ Len(Tail(s)) = Len(s) - 1
      /\ \A k \in 1..Len(Tail(s)) : Tail(s)[k] = s[k + 1]
  BY HeadTailProperties, EmptySeq
<1> QED BY <1>1 DEF TailOf

\* A new trade is announced first, if orders are subscribed, and then what it
\* does to the balance and the position.
AppendedBy(t, new) ==
  /\ \A k \in 1..Len(t) :
       /\ t[k].type = "match" => k = 1 /\ t[k].topic = "open_orders" /\ t[k].trade \in new
       /\ t[k].type # "match" => t[k].trade = NoTrade
       /\ t[k].topic \in Feeds => t[k].filled = order'.filled
       /\ t[k].topic \in feeds /\ t[k].filled <= order'.filled
  /\ "open_orders" \in feeds => \A u \in new : Len(t) >= 1 /\ t[1].trade = u
  /\ \A x \in Feeds :
       x \in feeds /\ order'.filled # order.filled => \E k \in 1..Len(t) : t[k].topic = x

NewTrade(u) ==
  /\ u.to = order'.filled /\ order.filled < order'.filled
  /\ Wired.postOnly => u.liquidity = "maker"

Appends ==
  \E t \in Seq(Events), new \in SUBSET Trades :
    /\ wire' = wire \o t /\ order'.trades = order.trades \cup new
    /\ AppendedBy(t, new) /\ \A u \in new : NewTrade(u)

LEMMA AppendsOne ==
  ASSUME TypeOK, NEW e \in Events, wire' = wire \o Part("open_orders", <<e>>),
         e.type # "match", e.trade = NoTrade, e.topic = "open_orders",
         order'.filled = order.filled, order'.trades = order.trades,
         e.filled <= order'.filled
  PROVE  Appends
<1>1. PICK t \in Seq(Events) :
        /\ t = Part("open_orders", <<e>>)
        /\ \A k \in 1..Len(t) : t[k] = e /\ "open_orders" \in feeds
  BY PartOne
<1>2. AppendedBy(t, {})
  BY <1>1 DEF AppendedBy, Feeds
<1>3. order'.trades = order.trades \cup {} /\ {} \in SUBSET Trades
  OBVIOUS
<1> QED BY <1>1, <1>2, <1>3 DEF Appends

LEMMA AppendsNone ==
  ASSUME TypeOK, wire' = wire, order'.filled = order.filled,
         order'.trades = order.trades
  PROVE  Appends
<1>1. PICK t \in Seq(Events) : t = <<>> /\ Len(t) = 0
  BY NoneIndex
<1>2. wire' = wire \o t
  BY <1>1 DEF TypeOK
<1>3. AppendedBy(t, {})
  BY <1>1 DEF AppendedBy
<1> QED BY <1>2, <1>3 DEF Appends

LEMMA AppendsMatch ==
  ASSUME TypeOK, OrderOK, NEW n \in 1..Size, Match(n)
  PROVE  Appends
<1>0. order \in Orders /\ Size \in Nat \ {0} /\ wire \in Seq(Events)
  BY SizeAssumption DEF TypeOK
<1>1. PICK total \in 1..Size :
        /\ total = order.filled + n /\ Size - total \in 0..Size
        /\ order'.filled = total /\ order.filled < total
        /\ Live /\ (Wired.postOnly => order.status = "resting")
  <2>1. /\ Live /\ order.filled + n <= Size /\ order.filled \in 0..Size
        /\ order'.filled = order.filled + n
        /\ Wired.postOnly => order.status = "resting"
    BY <1>0 DEF Match, Orders
  <2>2. order.filled + n \in 1..Size /\ Size - (order.filled + n) \in 0..Size
    BY <1>0, <2>1
  <2> QED BY <1>0, <2>1, <2>2
<1>2. PICK trade \in Trades :
        trade = [from |-> order.filled, to |-> total, liquidity |-> Liquidity]
  <2>1. Liquidity \in DOMAIN MapLiquidity
    BY DEF Liquidity, MapLiquidity
  <2>2. order.filled \in 0..Size
    BY <1>0 DEF Orders
  <2> QED BY <2>1, <2>2 DEF Trades
<1>3. PICK status \in {"open", "match"} :
        status = IF Liquidity = "taker" THEN "match" ELSE "open"
  OBVIOUS
<1>4. PICK match \in Events : match = Event("match", status, total, Size - total, trade)
  BY <1>1, EventType
<1>5. PICK filled \in Events : filled = Event("filled", "done", total, 0, NoTrade)
  <2>1. 0 \in 0..Size /\ total \in 0..Size /\ NoTrade \in Trades \cup {NoTrade}
    BY <1>0
  <2> QED BY <2>1, EventType
<1>6. PICK balance \in Events, position \in Events :
        balance = Quantity("balances", total) /\ position = Quantity("positions", total)
  BY <1>1, QuantityType
<1>7. PICK a \in Seq(Events) :
        /\ a = Part("open_orders", IF total = Size THEN <<match, filled>> ELSE <<match>>)
        /\ Len(a) >= 1 => a[1] = match
        /\ \A k \in 1..Len(a) : "open_orders" \in feeds /\ (k = 1 \/ a[k] = filled)
        /\ "open_orders" \in feeds => Len(a) >= 1 /\ a[1] = match
  <2>1. PICK one \in Seq(Events) : one = <<match>> /\ Len(one) = 1 /\ one[1] = match
    BY OneIndex
  <2>2. PICK two \in Seq(Events) : /\ two = <<match, filled>> /\ Len(two) = 2
                                   /\ two[1] = match /\ two[2] = filled
    BY TwoIndex
  <2>3. PICK s \in Seq(Events) :
          /\ s = IF total = Size THEN <<match, filled>> ELSE <<match>>
          /\ s[1] = match /\ Len(s) >= 1 /\ \A k \in 1..Len(s) : k = 1 \/ s[k] = filled
    <3>1. \A k \in 1..Len(one) : k = 1
      BY <2>1
    <3>2. \A k \in 1..Len(two) : k = 1 \/ two[k] = filled
      BY <2>2
    <3>3. Len(one) >= 1 /\ Len(two) >= 1
      BY <2>1, <2>2
    <3>4. CASE total = Size
      BY <2>2, <3>2, <3>3, <3>4
    <3>5. CASE total # Size
      BY <2>1, <3>1, <3>3, <3>5
    <3> QED BY <3>4, <3>5
  <2>4. PICK p \in Seq(Events) : /\ p = Part("open_orders", s)
                                 /\ "open_orders" \in feeds => p = s
                                 /\ "open_orders" \notin feeds => Len(p) = 0
    BY PartIndex
  <2>5. p = Part("open_orders", IF total = Size THEN <<match, filled>> ELSE <<match>>)
    BY <2>3, <2>4, Zenon
  <2>6. CASE "open_orders" \in feeds
    <3>1. p = s /\ s[1] = match /\ Len(s) >= 1
      BY <2>3, <2>4, <2>6, Zenon
    <3>2. \A k \in 1..Len(s) : k = 1 \/ s[k] = filled
      BY <2>3, Zenon
    <3>3. p[1] = match /\ Len(p) >= 1 /\ \A k \in 1..Len(p) : k = 1 \/ p[k] = filled
      BY <3>1, <3>2, Zenon
    <3> QED BY <2>5, <2>6, <3>3, Zenon
  <2>7. CASE "open_orders" \notin feeds
    <3>1. Len(p) = 0
      BY <2>4, <2>7, Zenon
    <3>2. (\A k \in 1..Len(p) : FALSE) /\ ~(Len(p) >= 1)
      BY <3>1
    <3> QED BY <2>5, <2>7, <3>2, Zenon
  <2> QED BY <2>6, <2>7
<1>8. PICK b \in Seq(Events) :
        /\ b = Part("balances", <<balance>>)
        /\ \A k \in 1..Len(b) : b[k] = balance /\ "balances" \in feeds
        /\ "balances" \in feeds => Len(b) >= 1 /\ b[1] = balance
  BY PartOne
<1>9. PICK c \in Seq(Events) :
        /\ c = Part("positions", <<position>>)
        /\ \A k \in 1..Len(c) : c[k] = position /\ "positions" \in feeds
        /\ "positions" \in feeds => Len(c) >= 1 /\ c[1] = position
  BY PartOne
<1>10. /\ wire' = wire \o a \o b \o c /\ order'.trades = order.trades \cup {trade}
  BY <1>0, <1>1, <1>2, <1>3, <1>4, <1>5, <1>6, <1>7, <1>8, <1>9 DEF Match, Orders
<1>11. PICK t \in Seq(Events) :
         /\ wire' = wire \o t
         /\ Len(a) \in Nat /\ Len(t) \in Nat
         /\ \A k \in 1..Len(a) : k \in 1..Len(t) /\ t[k] = a[k]
         /\ \A k \in 1..Len(b) : \E j \in 1..Len(t) : t[j] = b[k]
         /\ \A k \in 1..Len(c) : \E j \in 1..Len(t) : t[j] = c[k]
         /\ \A k \in 1..Len(t) : \/ k \in 1..Len(a) /\ t[k] = a[k]
                                 \/ \E j \in 1..Len(b) : t[k] = b[j]
                                 \/ \E j \in 1..Len(c) : t[k] = c[j]
  <2>1. PICK d \in Seq(Events) :
          /\ d = a \o b /\ Len(d) \in Nat /\ Len(a) \in Nat
          /\ \A k \in 1..Len(a) : k \in 1..Len(d) /\ d[k] = a[k]
          /\ \A k \in 1..Len(b) : \E j \in 1..Len(d) : d[j] = b[k]
          /\ \A k \in 1..Len(d) : \/ k \in 1..Len(a)
                                  \/ \E j \in 1..Len(b) : d[k] = b[j]
    BY JoinIndex, Zenon
  <2>2. PICK t \in Seq(Events) :
          /\ t = d \o c /\ Len(t) \in Nat /\ Len(d) \in Nat
          /\ \A k \in 1..Len(d) : k \in 1..Len(t) /\ t[k] = d[k]
          /\ \A k \in 1..Len(c) : \E j \in 1..Len(t) : t[j] = c[k]
          /\ \A k \in 1..Len(t) : \/ k \in 1..Len(d)
                                  \/ \E j \in 1..Len(c) : t[k] = c[j]
    BY JoinIndex, Zenon
  <2>3. wire' = wire \o t
    <3>1. \A s \in Seq(Events) :
            /\ s \o a \o b \o c = s \o (a \o b \o c) /\ a \o b \o c \in Seq(Events)
            /\ \A e \in Elems(a \o b \o c) :
                 e \in Elems(a) \/ e \in Elems(b) \/ e \in Elems(c)
      BY ConcatThree, ZenonT(60)
    <3> QED BY <1>0, <1>10, <2>1, <2>2, <3>1, Zenon
  <2>4. \A k \in 1..Len(a) : k \in 1..Len(t) /\ t[k] = a[k]
    BY <2>1, <2>2, Zenon
  <2>5. \A k \in 1..Len(b) : \E j \in 1..Len(t) : t[j] = b[k]
    <3>1. ASSUME NEW k \in 1..Len(b) PROVE \E j \in 1..Len(t) : t[j] = b[k]
      <4>1. PICK j \in 1..Len(d) : d[j] = b[k]
        BY <2>1, Zenon
      <4>2. j \in 1..Len(t) /\ t[j] = d[j]
        BY <2>2, <4>1, Zenon
      <4> QED BY <4>1, <4>2, Zenon
    <3> QED BY <3>1, Zenon
  <2>6. ASSUME NEW k \in 1..Len(t)
        PROVE  \/ k \in 1..Len(a) /\ t[k] = a[k]
               \/ \E j \in 1..Len(b) : t[k] = b[j]
               \/ \E j \in 1..Len(c) : t[k] = c[j]
    <3>1. CASE k \in 1..Len(d)
      <4>1. t[k] = d[k]
        BY <2>2, <3>1
      <4>2. CASE k \in 1..Len(a)
        BY <2>1, <4>1, <4>2
      <4>3. CASE k \notin 1..Len(a)
        BY <2>1, <3>1, <4>1, <4>3
      <4> QED BY <4>2, <4>3
    <3>2. CASE k \notin 1..Len(d)
      BY <2>2, <3>2
    <3> QED BY <3>1, <3>2
  <2> QED BY <2>1, <2>2, <2>3, <2>4, <2>5, <2>6
<1>12. /\ match.type = "match" /\ match.trade = trade /\ match.topic = "open_orders"
       /\ filled.type = "filled" /\ filled.trade = NoTrade /\ filled.topic = "open_orders"
       /\ balance.type = "none" /\ balance.trade = NoTrade /\ balance.topic = "balances"
       /\ position.type = "none" /\ position.trade = NoTrade /\ position.topic = "positions"
       /\ match.filled = total /\ filled.filled = total /\ balance.filled = total
       /\ position.filled = total
  BY <1>4, <1>5, <1>6 DEF Event, Quantity
<1>13. ASSUME NEW k \in 1..Len(t)
       PROVE  \/ k = 1 /\ t[k] = match /\ "open_orders" \in feeds
              \/ t[k] = filled /\ "open_orders" \in feeds
              \/ t[k] = balance /\ "balances" \in feeds
              \/ t[k] = position /\ "positions" \in feeds
  BY <1>7, <1>8, <1>9, <1>11
<1>14. AppendedBy(t, {trade})
  <2>1. ASSUME NEW k \in 1..Len(t)
        PROVE  /\ t[k].type = "match" => /\ k = 1 /\ t[k].topic = "open_orders"
                                         /\ t[k].trade \in {trade}
               /\ t[k].type # "match" => t[k].trade = NoTrade
               /\ t[k].topic \in Feeds => t[k].filled = order'.filled
               /\ t[k].topic \in feeds /\ t[k].filled <= order'.filled
    BY <1>1, <1>12, <1>13 DEF Feeds
  <2>2. "open_orders" \in feeds => Len(t) >= 1 /\ t[1].trade = trade
    <3>1. "open_orders" \in feeds => 1 \in 1..Len(a) /\ a[1] = match
      BY <1>7, <1>11
    <3> QED BY <1>11, <1>12, <3>1
  <2>3. ASSUME "balances" \in feeds PROVE \E k \in 1..Len(t) : t[k].topic = "balances"
    <3>1. 1 \in 1..Len(b) /\ b[1].topic = "balances"
      BY <1>8, <1>12, <2>3
    <3>2. PICK k \in 1..Len(t) : t[k] = b[1]
      BY <1>11, <3>1, Zenon
    <3> QED BY <3>1, <3>2
  <2>4. ASSUME "positions" \in feeds PROVE \E k \in 1..Len(t) : t[k].topic = "positions"
    <3>1. 1 \in 1..Len(c) /\ c[1].topic = "positions"
      BY <1>9, <1>12, <2>4
    <3>2. PICK k \in 1..Len(t) : t[k] = c[1]
      BY <1>11, <3>1, Zenon
    <3> QED BY <3>1, <3>2
  <2> QED BY <2>1, <2>2, <2>3, <2>4 DEF AppendedBy, Feeds
<1>15. NewTrade(trade)
  BY <1>1, <1>2 DEF NewTrade, Liquidity
<1>16. {trade} \in SUBSET Trades /\ \A u \in {trade} : NewTrade(u)
  BY <1>15
<1> QED BY <1>10, <1>11, <1>14, <1>16, Zenon DEF Appends

Trading == Refuse \/ Accept \/ Rest \/ Cancel \/ (\E n \in 1..Size : Match(n))

LEMMA ExchangeAppends ==
  ASSUME TypeOK, OrderOK, Trading
  PROVE  Appends
<1>0. order \in Orders /\ Size \in Nat \ {0}
  BY SizeAssumption DEF TypeOK
<1>1. CASE Refuse \/ Accept
  BY <1>0, <1>1, AppendsNone DEF Refuse, Accept, Orders
<1>2. CASE Rest
  <2>1. /\ order.filled < Size /\ order.filled \in 0..Size
        /\ order'.filled = order.filled /\ order'.trades = order.trades
        /\ Size - order.filled \in 0..Size
    BY <1>0, <1>2 DEF Rest, OrderOK, Orders, Live
  <2>2. PICK e \in Events :
          e = Event("open", "open", order.filled, Size - order.filled, NoTrade)
    BY <2>1, EventType
  <2>3. wire' = wire \o Part("open_orders", <<e>>)
    BY <1>2, <2>2 DEF Rest
  <2>4. /\ e.type = "open" /\ e.trade = NoTrade /\ e.topic = "open_orders"
        /\ e.filled <= order'.filled
    BY <2>1, <2>2 DEF Event
  <2> QED BY <2>1, <2>3, <2>4, AppendsOne
<1>3. CASE Cancel
  <2>1. /\ order.filled \in 0..Size /\ 0 \in 0..Size
        /\ order'.filled = order.filled /\ order'.trades = order.trades
    BY <1>0, <1>3 DEF Cancel, Orders
  <2>2. PICK e \in Events : e = Event("canceled", "done", order.filled, 0, NoTrade)
    BY <2>1, EventType
  <2>3. wire' = wire \o Part("open_orders", <<e>>)
    BY <1>3, <2>2 DEF Cancel
  <2>4. /\ e.type = "canceled" /\ e.trade = NoTrade /\ e.topic = "open_orders"
        /\ e.filled <= order'.filled
    BY <2>1, <2>2 DEF Event
  <2> QED BY <2>1, <2>3, <2>4, AppendsOne
<1>4. CASE \E n \in 1..Size : Match(n)
  BY <1>4, AppendsMatch
<1> QED BY <1>1, <1>2, <1>3, <1>4 DEF Trading

----------------------------------------------------------------------------
(* Fills: each trade is announced once, before it is told. *)

TradesPast == \A t \in order.trades : t.to <= order.filled

MatchesNew ==
  \A k \in 1..Len(wire) :
    /\ wire[k].type = "match" => /\ wire[k].topic = "open_orders"
                                 /\ wire[k].trade \in order.trades
                                 /\ fills[wire[k].trade] = 0
    /\ wire[k].type # "match" => wire[k].trade = NoTrade

MatchesOnce ==
  \A j, k \in 1..Len(wire) :
    /\ wire[j].type = "match" /\ wire[k].type = "match"
    /\ wire[j].trade = wire[k].trade
    => j = k

FillsMade == \A t \in Trades : fills[t] \in {0, 1} /\ (fills[t] = 1 => t \in order.trades)

FillsKnown ==
  "open_orders" \in feeds =>
    \A t \in order.trades \ joined :
      fills[t] = 1 \/ \E k \in 1..Len(wire) : wire[k].trade = t

FillsInv == TradesPast /\ MatchesNew /\ MatchesOnce /\ FillsMade /\ FillsKnown

LEMMA FillsInvExact == TypeOK /\ FillsInv => FillsExact
<1> SUFFICES ASSUME TypeOK, FillsInv PROVE FillsExact
  OBVIOUS
<1>1. DOMAIN wire = 1..Len(wire) /\ order.trades \subseteq Trades
  BY LenProperties DEF TypeOK, Orders
<1>2. ASSUME NEW t \in Trades PROVE fills[t] <= 1 /\ (fills[t] = 1 => t \in order.trades)
  BY DEF FillsInv, FillsMade
<1>3. ASSUME "open_orders" \in feeds, NEW t \in order.trades \ joined
      PROVE  fills[t] = 1 \/ Announced(t)
  BY <1>1, <1>3, Zenon DEF FillsInv, FillsKnown, Announced
<1> QED BY <1>2, <1>3, Zenon DEF FillsExact

LEMMA NoTradeOut == NoTrade \notin Trades
<1>1. \A u \in Trades : u.to \in 1..Size
  BY DEF Trades
<1>2. NoTrade.to = 0
  BY DEF NoTrade
<1> QED BY <1>1, <1>2, SizeAssumption

LEMMA WireAfter ==
  ASSUME wire \in Seq(Events), NEW t \in Seq(Events), wire' = wire \o t
  PROVE  /\ Len(wire) \in Nat /\ Len(t) \in Nat
         /\ \A k \in 1..Len(wire) : k \in 1..Len(wire') /\ wire'[k] = wire[k]
         /\ \A k \in 1..Len(t) : Len(wire) + k \in 1..Len(wire') /\ wire'[Len(wire) + k] = t[k]
         /\ \A k \in 1..Len(wire') : \/ k \in 1..Len(wire)
                                     \/ \E j \in 1..Len(t) : k = Len(wire) + j
<1>1. /\ wire \o t \in Seq(Events) /\ Len(wire \o t) = Len(wire) + Len(t)
      /\ Len(wire) \in Nat /\ Len(t) \in Nat
      /\ \A k \in 1..Len(wire) : k \in 1..Len(wire \o t) /\ (wire \o t)[k] = wire[k]
      /\ \A k \in 1..Len(t) : /\ Len(wire) + k \in 1..Len(wire \o t)
                              /\ (wire \o t)[Len(wire) + k] = t[k]
      /\ \A k \in 1..Len(wire \o t) : \/ k \in 1..Len(wire)
                                      \/ \E j \in 1..Len(t) : k = Len(wire) + j
  BY EventsIndex, ZenonT(60)
<1> QED BY <1>1, Zenon

LEMMA FillsOfExchange ==
  ASSUME ReportsInv, FillsInv, Trading
  PROVE  FillsInv'
<1>0. /\ order \in Orders /\ order' \in Orders /\ wire \in Seq(Events) /\ Size \in Nat \ {0}
      /\ order.filled <= order'.filled
  BY SizeAssumption, ActsOfExchange DEF ReportsInv, TypeOK, Trading, Advances
<1>1. fills' = fills /\ feeds' = feeds /\ joined' = joined
  BY DEF Trading, Refuse, Accept, Rest, Cancel, Match, Unmoved, server, history
<1>2. PICK t \in Seq(Events), new \in SUBSET Trades :
        /\ wire' = wire \o t /\ order'.trades = order.trades \cup new
        /\ AppendedBy(t, new) /\ \A u \in new : NewTrade(u)
  BY ExchangeAppends DEF ReportsInv, Appends
<1>3. /\ Len(wire) \in Nat /\ Len(t) \in Nat
      /\ \A k \in 1..Len(wire) : k \in 1..Len(wire') /\ wire'[k] = wire[k]
      /\ \A k \in 1..Len(t) : Len(wire) + k \in 1..Len(wire') /\ wire'[Len(wire) + k] = t[k]
      /\ \A k \in 1..Len(wire') : \/ k \in 1..Len(wire)
                                  \/ \E j \in 1..Len(t) : k = Len(wire) + j
  BY <1>0, <1>2, WireAfter
<1>4. \A u \in order.trades : u.to \in Int /\ u.to <= order.filled
  BY <1>0 DEF FillsInv, TradesPast, Orders, Trades
<1>5. ASSUME NEW u \in new
      PROVE  u \in Trades /\ u.to = order'.filled /\ u \notin order.trades /\ fills[u] = 0
  <2>1. u \in Trades /\ NewTrade(u)
    BY <1>2
  <2>2. u.to = order'.filled /\ order.filled < order'.filled
    BY <2>1 DEF NewTrade
  <2>3. u \notin order.trades
    BY <1>0, <1>4, <2>2 DEF Orders
  <2>4. fills[u] = 0
    BY <2>1, <2>3 DEF FillsInv, FillsMade
  <2> QED BY <2>1, <2>2, <2>3, <2>4
<1>6. \A j \in 1..Len(t) :
        /\ t[j].type = "match" => j = 1 /\ t[j].topic = "open_orders" /\ t[j].trade \in new
        /\ t[j].type # "match" => t[j].trade = NoTrade
  BY <1>2 DEF AppendedBy
<1>7. TradesPast'
  <2>1. ASSUME NEW u \in order'.trades PROVE u.to <= order'.filled
    <3>1. CASE u \in order.trades
      BY <1>0, <1>4, <3>1 DEF Orders
    <3>2. CASE u \in new
      BY <1>0, <1>5, <3>2 DEF Orders
    <3> QED BY <1>2, <3>1, <3>2
  <2> QED BY <2>1 DEF TradesPast
<1>8. MatchesNew'
  <2>1. ASSUME NEW k \in 1..Len(wire')
        PROVE  /\ wire'[k].type = "match" => /\ wire'[k].topic = "open_orders"
                                             /\ wire'[k].trade \in order'.trades
                                             /\ fills[wire'[k].trade] = 0
               /\ wire'[k].type # "match" => wire'[k].trade = NoTrade
    <3>1. CASE k \in 1..Len(wire)
      BY <1>2, <1>3, <3>1 DEF FillsInv, MatchesNew
    <3>2. CASE k \notin 1..Len(wire)
      <4>1. PICK j \in 1..Len(t) : wire'[k] = t[j]
        BY <1>3, <3>2
      <4> QED BY <1>2, <1>5, <1>6, <4>1
    <3> QED BY <3>1, <3>2
  <2> QED BY <1>1, <2>1 DEF MatchesNew
<1>9. MatchesOnce'
  <2>1. ASSUME NEW j \in 1..Len(wire'), NEW k \in 1..Len(wire'),
               wire'[j].type = "match", wire'[k].type = "match",
               wire'[j].trade = wire'[k].trade
        PROVE  j = k
    <3>1. CASE j \in 1..Len(wire) /\ k \in 1..Len(wire)
      BY <1>3, <2>1, <3>1 DEF FillsInv, MatchesOnce
    <3>2. ASSUME NEW i \in 1..Len(wire), wire[i].type = "match"
          PROVE  wire[i].trade \in order.trades
      BY <3>2 DEF FillsInv, MatchesNew
    <3>3. CASE j \in 1..Len(wire) /\ k \notin 1..Len(wire)
      <4>1. PICK i \in 1..Len(t) : wire'[k] = t[i]
        BY <1>3, <3>3
      <4>2. wire'[k].trade \in new /\ wire'[j].trade \in order.trades
        BY <1>3, <1>6, <2>1, <3>2, <3>3, <4>1
      <4> QED BY <1>5, <2>1, <4>2
    <3>4. CASE j \notin 1..Len(wire) /\ k \in 1..Len(wire)
      <4>1. PICK i \in 1..Len(t) : wire'[j] = t[i]
        BY <1>3, <3>4
      <4>2. wire'[j].trade \in new /\ wire'[k].trade \in order.trades
        BY <1>3, <1>6, <2>1, <3>2, <3>4, <4>1
      <4> QED BY <1>5, <2>1, <4>2
    <3>5. CASE j \notin 1..Len(wire) /\ k \notin 1..Len(wire)
      <4>1. PICK i \in 1..Len(t) : j = Len(wire) + i /\ wire'[j] = t[i]
        BY <1>3, <3>5
      <4>2. PICK l \in 1..Len(t) : k = Len(wire) + l /\ wire'[k] = t[l]
        BY <1>3, <3>5
      <4>3. i = 1 /\ l = 1
        BY <1>6, <2>1, <4>1, <4>2
      <4> QED BY <4>1, <4>2, <4>3
    <3> QED BY <3>1, <3>3, <3>4, <3>5
  <2> QED BY <2>1, Zenon DEF MatchesOnce
<1>10. FillsMade'
  BY <1>1, <1>2 DEF FillsInv, FillsMade
<1>11. FillsKnown'
  <2>1. ASSUME "open_orders" \in feeds, NEW u \in order'.trades \ joined
        PROVE  fills[u] = 1 \/ \E k \in 1..Len(wire') : wire'[k].trade = u
    <3>1. CASE u \in order.trades
      <4>1. fills[u] = 1 \/ \E k \in 1..Len(wire) : wire[k].trade = u
        BY <2>1, <3>1 DEF FillsInv, FillsKnown
      <4> QED BY <1>3, <4>1, Zenon
    <3>2. CASE u \in new
      <4>1. Len(t) >= 1 /\ t[1].trade = u
        BY <1>2, <2>1, <3>2 DEF AppendedBy
      <4>2. 1 \in 1..Len(t)
        BY <1>3, <4>1
      <4>3. Len(wire) + 1 \in 1..Len(wire') /\ wire'[Len(wire) + 1].trade = u
        BY <1>3, <4>1, <4>2
      <4> QED BY <4>3
    <3> QED BY <1>2, <3>1, <3>2
  <2> QED BY <1>1, <2>1 DEF FillsKnown
<1> QED BY <1>7, <1>8, <1>9, <1>10, <1>11 DEF FillsInv

\* Reading an event tells its trade.
\* Reading an event tells the trade it announces, and no other.
LEMMA FillsOfHead ==
  ASSUME ReportsInv, FillsInv, wire # <<>>,
         fills' = [t \in Trades |-> IF t \in EventFills(Head(wire)) THEN fills[t] + 1
                                    ELSE fills[t]]
  PROVE  \A u \in Trades :
           \/ u = wire[1].trade /\ wire[1].type = "match" /\ fills[u] = 0 /\ fills'[u] = 1
           \/ u # wire[1].trade /\ fills'[u] = fills[u]
<1>1. 1 \in 1..Len(wire) /\ Head(wire) = wire[1]
  <2>1. TailOf(wire)
    BY TailIndex DEF ReportsInv, TypeOK
  <2> QED BY <2>1 DEF TailOf
<1>2. \A u \in Trades : fills[u] \in {0, 1}
  BY DEF FillsInv, FillsMade
<1>3. ASSUME NEW u \in Trades
      PROVE  \/ u = wire[1].trade /\ wire[1].type = "match" /\ fills[u] = 0 /\ fills'[u] = 1
             \/ u # wire[1].trade /\ fills'[u] = fills[u]
  <2>1. CASE wire[1].type = "match" /\ u = wire[1].trade
    <3>1. fills[u] = 0
      BY <1>1, <2>1 DEF FillsInv, MatchesNew
    <3>2. fills'[u] = 1
      BY <1>1, <2>1, <3>1 DEF EventFills
    <3> QED BY <2>1, <3>1, <3>2
  <2>2. CASE wire[1].type = "match" /\ u # wire[1].trade
    BY <1>1, <2>2 DEF EventFills
  <2>3. CASE wire[1].type # "match"
    <3>1. wire[1].trade = NoTrade
      BY <1>1, <2>3 DEF FillsInv, MatchesNew
    <3> QED BY <1>1, <2>3, <3>1, NoTradeOut DEF EventFills
  <2> QED BY <2>1, <2>2, <2>3
<1> QED BY <1>3

LEMMA FillsOfTail ==
  ASSUME ReportsInv, FillsInv, wire # <<>>, wire' = Tail(wire),
         order' = order, feeds' = feeds, joined' = joined,
         fills' = [t \in Trades |-> IF t \in EventFills(Head(wire)) THEN fills[t] + 1
                                    ELSE fills[t]]
  PROVE  FillsInv'
<1>0. wire \in Seq(Events) /\ order.trades \subseteq Trades /\ TailOf(wire)
  BY TailIndex DEF ReportsInv, TypeOK, Orders
<1>1. /\ Len(wire) \in Nat /\ 1 \in 1..Len(wire) /\ Head(wire) = wire[1]
      /\ Len(wire') = Len(wire) - 1
      /\ \A k \in 1..Len(wire') : k + 1 \in 1..Len(wire) /\ wire'[k] = wire[k + 1]
  BY <1>0 DEF TailOf
<1>2. \A u \in Trades : fills[u] \in {0, 1}
  BY DEF FillsInv, FillsMade
<1>3. \A u \in Trades :
        \/ u = wire[1].trade /\ wire[1].type = "match" /\ fills[u] = 0 /\ fills'[u] = 1
        \/ u # wire[1].trade /\ fills'[u] = fills[u]
  BY FillsOfHead
<1>4. TradesPast'
  BY DEF FillsInv, TradesPast
<1>5. MatchesNew'
  <2>1. ASSUME NEW k \in 1..Len(wire')
        PROVE  /\ wire'[k].type = "match" => /\ wire'[k].topic = "open_orders"
                                             /\ wire'[k].trade \in order.trades
                                             /\ fills'[wire'[k].trade] = 0
               /\ wire'[k].type # "match" => wire'[k].trade = NoTrade
    <3>1. PICK j \in 1..Len(wire) : j # 1 /\ wire'[k] = wire[j]
      BY <1>1
    <3>2. CASE wire[j].type # "match"
      BY <3>1, <3>2 DEF FillsInv, MatchesNew
    <3>3. CASE wire[j].type = "match"
      <4>1. /\ wire[j].topic = "open_orders" /\ wire[j].trade \in order.trades
            /\ fills[wire[j].trade] = 0
        BY <3>1, <3>3 DEF FillsInv, MatchesNew
      <4>2. ~(wire[1].trade = wire[j].trade /\ wire[1].type = "match")
        BY <1>1, <3>1, <3>3 DEF FillsInv, MatchesOnce
      <4>3. fills'[wire[j].trade] = 0
        BY <1>0, <1>3, <4>1, <4>2
      <4> QED BY <3>1, <3>3, <4>1, <4>3
    <3> QED BY <3>2, <3>3
  <2> QED BY <2>1 DEF MatchesNew
<1>6. MatchesOnce'
  <2>1. ASSUME NEW j \in 1..Len(wire'), NEW k \in 1..Len(wire'),
               wire'[j].type = "match", wire'[k].type = "match",
               wire'[j].trade = wire'[k].trade
        PROVE  j = k
    <3>1. /\ j + 1 \in 1..Len(wire) /\ wire'[j] = wire[j + 1]
          /\ k + 1 \in 1..Len(wire) /\ wire'[k] = wire[k + 1]
      BY <1>1
    <3>2. j + 1 = k + 1
      BY <2>1, <3>1, Zenon DEF FillsInv, MatchesOnce
    <3> QED BY <1>1, <3>2
  <2> QED BY <2>1, Zenon DEF MatchesOnce
<1>7. FillsMade'
  <2>1. ASSUME NEW u \in Trades
        PROVE  fills'[u] \in {0, 1} /\ (fills'[u] = 1 => u \in order.trades)
    <3>1. wire[1].type = "match" => wire[1].trade \in order.trades
      BY <1>1 DEF FillsInv, MatchesNew
    <3>2. fills[u] \in {0, 1} /\ (fills[u] = 1 => u \in order.trades)
      BY DEF FillsInv, FillsMade
    <3> QED BY <1>3, <3>1, <3>2
  <2> QED BY <2>1 DEF FillsMade
<1>8. FillsKnown'
  <2>1. ASSUME "open_orders" \in feeds, NEW u \in order.trades \ joined
        PROVE  fills'[u] = 1 \/ \E k \in 1..Len(wire') : wire'[k].trade = u
    <3>1. u \in Trades
      BY <1>0
    <3>2. fills[u] = 1 \/ \E k \in 1..Len(wire) : wire[k].trade = u
      BY <2>1 DEF FillsInv, FillsKnown
    <3>3. CASE fills[u] = 1
      BY <1>3, <3>1, <3>3
    <3>4. CASE u = wire[1].trade
      BY <1>3, <3>1, <3>4
    <3>5. ASSUME NEW k \in 1..Len(wire), wire[k].trade = u, u # wire[1].trade
          PROVE  \E j \in 1..Len(wire') : wire'[j].trade = u
      <4>1. k # 1
        BY <3>5
      <4>2. PICK j \in 1..Len(wire') : j + 1 = k
        <5>1. k - 1 \in 1..Len(wire') /\ (k - 1) + 1 = k
          BY <1>1, <4>1
        <5> QED BY <5>1
      <4>3. wire'[j] = wire[k]
        BY <1>1, <4>2
      <4> QED BY <3>5, <4>3
    <3> QED BY <3>2, <3>3, <3>4, <3>5
  <2> QED BY <2>1 DEF FillsKnown
<1> QED BY <1>4, <1>5, <1>6, <1>7, <1>8 DEF FillsInv

LEMMA FillsUnchanged ==
  ASSUME FillsInv, wire' = wire, order' = order, fills' = fills, feeds' = feeds,
         joined' = joined
  PROVE  FillsInv'
  BY DEF FillsInv, TradesPast, MatchesNew, MatchesOnce, FillsMade, FillsKnown

LEMMA FillsOfSubscribe ==
  ASSUME ReportsInv, FillsInv, Subscribe
  PROVE  FillsInv'
<1>1. /\ wire' = wire /\ order' = order /\ fills' = fills
      /\ feeds' = feeds \cup {Subscribes[stage]}
      /\ joined' = IF stage = "SUBSCRIBE_ORDERS" THEN order.trades ELSE joined
      /\ stage \in {"SUBSCRIBE_BALANCES", "SUBSCRIBE_POSITIONS", "SUBSCRIBE_ORDERS"}
  BY DEF Subscribe, server, Subscribes
<1>2. TradesPast' /\ MatchesNew' /\ MatchesOnce' /\ FillsMade'
  BY <1>1 DEF FillsInv, TradesPast, MatchesNew, MatchesOnce, FillsMade
<1>3. FillsKnown'
  <2>1. CASE stage = "SUBSCRIBE_ORDERS"
    BY <1>1, <2>1 DEF FillsKnown
  <2>2. CASE stage # "SUBSCRIBE_ORDERS"
    <3>1. "open_orders" \in feeds' => "open_orders" \in feeds
      BY <1>1, <2>2 DEF Subscribes
    <3> QED BY <1>1, <2>2, <3>1 DEF FillsInv, FillsKnown
  <2> QED BY <2>1, <2>2
<1> QED BY <1>2, <1>3 DEF FillsInv

LEMMA FillsOfReading ==
  ASSUME ReportsInv, FillsInv, WalletBalanceChange \/ PositionChange
  PROVE  FillsInv'
<1>1. /\ wire # <<>> /\ wire' = Tail(wire) /\ Head(wire).topic # "open_orders"
      /\ order' = order /\ feeds' = feeds /\ joined' = joined /\ fills' = fills
  BY DEF WalletBalanceChange, PositionChange, Receive, Quiet
<1>2. TailOf(wire)
  BY <1>1, TailIndex DEF ReportsInv, TypeOK
<1>3. Head(wire).type # "match"
  <2>1. 1 \in 1..Len(wire) /\ Head(wire) = wire[1]
    BY <1>2 DEF TailOf
  <2> QED BY <1>1, <2>1, Zenon DEF FillsInv, MatchesNew
<1>4. fills' = [t \in Trades |-> IF t \in EventFills(Head(wire)) THEN fills[t] + 1
                                 ELSE fills[t]]
  <2>1. EventFills(Head(wire)) = {}
    BY <1>3 DEF EventFills
  <2>2. fills \in [Trades -> Nat]
    BY DEF ReportsInv, TypeOK
  <2> QED BY <1>1, <2>1, <2>2
<1> QED BY <1>1, <1>4, FillsOfTail

LEMMA FillsOfOrderChange ==
  ASSUME ReportsInv, FillsInv, OrderChange
  PROVE  FillsInv'
<1>1. /\ wire # <<>> /\ wire' = Tail(wire)
      /\ order' = order /\ feeds' = feeds /\ joined' = joined
      /\ fills' = [t \in Trades |-> IF t \in EventFills(Head(wire)) THEN fills[t] + 1
                                    ELSE fills[t]]
  BY DEF OrderChange, Receive, Quiet
<1> QED BY <1>1, FillsOfTail

LEMMA FillsOfDisconnected ==
  ASSUME ReportsInv, FillsInv, DropCopyDisconnected
  PROVE  FillsInv'
<1>1. order' = order /\ fills' = fills /\ wire' = <<>> /\ feeds' = {}
  BY DEF DropCopyDisconnected, server
<1>2. Len(wire') = 0
  BY <1>1
<1> QED BY <1>1, <1>2 DEF FillsInv, TradesPast, MatchesNew, MatchesOnce, FillsMade,
                           FillsKnown

LEMMA FillsOfNext == ReportsInv /\ FillsInv /\ [Next]_vars => FillsInv'
<1> SUFFICES ASSUME ReportsInv, FillsInv, [Next]_vars PROVE FillsInv'
  OBVIOUS
<1>1. CASE ExchangeNext
  <2>1. CASE Serve
    BY <2>1, FillsUnchanged DEF Serve, exchange, server, history
  <2> QED BY <1>1, <2>1, FillsOfExchange, FillsOfSubscribe DEF ExchangeNext, Trading
<1>2. CASE AnswerNext
  <2>1. wire' = wire /\ order' = order /\ fills' = fills /\ feeds' = feeds /\ joined' = joined
    BY <1>2 DEF AnswerNext, GetAccountAck, GetPositionsAck, GetOrdersAck, GetOrderAck,
                GetFillsAck, Fails, Commit, exchange, server
  <2> QED BY <2>1, FillsUnchanged
<1>3. CASE DropCopyWelcome \/ DropCopyAck \/ (\E stale \in BOOLEAN : Timer(stale))
  <2>1. wire' = wire /\ order' = order /\ fills' = fills /\ feeds' = feeds /\ joined' = joined
    BY <1>3 DEF DropCopyWelcome, DropCopyAck, Timer, exchange, server
  <2> QED BY <2>1, FillsUnchanged
<1>4. CASE DropCopyNext
  BY <1>3, <1>4, FillsOfReading, FillsOfOrderChange, FillsOfDisconnected DEF DropCopyNext
<1>5. CASE UNCHANGED vars
  BY <1>5, FillsUnchanged DEF vars, exchange, server, history
<1> QED BY <1>1, <1>2, <1>4, <1>5 DEF Next

LEMMA FillsOfInit == Init => FillsInv
<1> SUFFICES ASSUME Init PROVE FillsInv
  OBVIOUS
<1>1. /\ order.trades = {} /\ wire = <<>> /\ feeds = {} /\ fills = [t \in Trades |-> 0]
  BY DEF Init
<1>2. Len(wire) = 0
  BY <1>1
<1> QED BY <1>1, <1>2 DEF FillsInv, TradesPast, MatchesNew, MatchesOnce, FillsMade,
                           FillsKnown

\* The invariant of the proof: each match on its way is the only one of its trade,
\* untold, and a trade the session has subscribed to is told or on its way.
THEOREM FillsInvariant == Spec => []FillsInv
<1>1. Init => FillsInv
  BY FillsOfInit
<1>2. ReportsInv /\ FillsInv /\ [Next]_vars => FillsInv'
  BY FillsOfNext
<1> QED BY <1>1, <1>2, InvariantHolds, PTL DEF Spec

\* No trade is told twice or invented, and none made since the session subscribed
\* is missing, for every size of the order and any number of faults.
THEOREM FillsCorrect == Spec => []FillsExact
<1>1. TypeOK /\ FillsInv => FillsExact
  BY FillsInvExact
<1> QED BY <1>1, TypeCorrect, FillsInvariant, PTL

----------------------------------------------------------------------------
(* A trade made while DropCopy was away is told to nobody. *)

OnItsWay(t) == \E k \in 1..Len(wire) : wire[k].trade = t

\* A trade of the order was not told, and its match is not on the way.
FillLost(t) == t \in order.trades /\ fills[t] = 0 /\ ~OnItsWay(t)

\* What a step may do to the fills: one that is lost stays so, although the recent
\* fills are asked for, and one is lost only with its session or between sessions.
FillMoves ==
  \A t \in Trades :
    /\ FillLost(t) => FillLost(t)'
    /\ FillLost(t)' => FillLost(t) \/ DropCopyDisconnected \/ "open_orders" \notin feeds

LEMMA LostUnchanged ==
  ASSUME wire' = wire, order'.trades = order.trades, fills' = fills
  PROVE  FillMoves
  BY DEF FillMoves, FillLost, OnItsWay

\* A new trade is announced unless orders are not subscribed, and no old one is
\* announced again.
LEMMA LostOfExchange ==
  ASSUME ReportsInv, FillsInv, Trading
  PROVE  FillMoves
<1>1. fills' = fills
  BY DEF Trading, Refuse, Accept, Rest, Cancel, Match, Unmoved, server, history
<1>2. PICK t \in Seq(Events), new \in SUBSET Trades :
        /\ wire' = wire \o t /\ order'.trades = order.trades \cup new
        /\ AppendedBy(t, new) /\ \A u \in new : NewTrade(u)
  BY ExchangeAppends DEF ReportsInv, Appends
<1>3. /\ \A k \in 1..Len(wire) : k \in 1..Len(wire') /\ wire'[k] = wire[k]
      /\ \A k \in 1..Len(t) : Len(wire) + k \in 1..Len(wire') /\ wire'[Len(wire) + k] = t[k]
      /\ \A k \in 1..Len(wire') : \/ k \in 1..Len(wire)
                                  \/ \E j \in 1..Len(t) : k = Len(wire) + j
  BY <1>2, WireAfter DEF ReportsInv, TypeOK
<1>4. ASSUME NEW u \in order.trades PROVE u \notin new /\ u # NoTrade
  <2>1. /\ u \in Trades /\ order.filled \in Int /\ order'.filled \in Int /\ u.to \in Int
        /\ u.to <= order.filled
    <3>1. order \in Orders /\ order' \in Orders
      BY SizeAssumption, ActsOfExchange DEF ReportsInv, TypeOK, Trading, Advances
    <3> QED BY <3>1, SizeAssumption DEF FillsInv, TradesPast, Orders, Trades
  <2>2. u \in new => u.to = order'.filled /\ order.filled < order'.filled
    BY <1>2 DEF NewTrade
  <2> QED BY <2>1, <2>2, NoTradeOut
<1>5. ASSUME NEW u, FillLost(u) PROVE FillLost(u)'
  <2>1. ASSUME NEW k \in 1..Len(wire') PROVE wire'[k].trade # u
    <3>1. CASE k \in 1..Len(wire)
      BY <1>3, <1>5, <3>1 DEF FillLost, OnItsWay
    <3>2. ASSUME NEW j \in 1..Len(t), k = Len(wire) + j PROVE wire'[k].trade # u
      <4>1. wire'[k] = t[j]
        BY <1>3, <3>2
      <4>2. t[j].trade \in new \/ t[j].trade = NoTrade
        BY <1>2 DEF AppendedBy
      <4> QED BY <1>4, <1>5, <4>1, <4>2 DEF FillLost
    <3> QED BY <1>3, <3>1, <3>2
  <2> QED BY <1>1, <1>2, <1>5, <2>1 DEF FillLost, OnItsWay
<1>6. ASSUME NEW u, FillLost(u)', "open_orders" \in feeds PROVE FillLost(u)
  <2>1. u \notin new
    <3> SUFFICES ASSUME u \in new PROVE FALSE
      OBVIOUS
    <3>1. Len(t) >= 1 /\ t[1].trade = u /\ Len(t) \in Nat
      <4>1. Len(t) \in Nat
        BY LenProperties
      <4> QED BY <1>2, <1>6, <4>1 DEF AppendedBy
    <3>2. 1 \in 1..Len(t)
      BY <3>1
    <3>3. Len(wire) + 1 \in 1..Len(wire') /\ wire'[Len(wire) + 1].trade = u
      BY <1>3, <3>1, <3>2
    <3> QED BY <1>6, <3>3 DEF FillLost, OnItsWay
  <2>2. ~OnItsWay(u)
    BY <1>3, <1>6 DEF FillLost, OnItsWay
  <2> QED BY <1>1, <1>2, <1>6, <2>1, <2>2 DEF FillLost
<1> QED BY <1>5, <1>6 DEF FillMoves

\* An event that is read tells the trade it announces.
LEMMA LostOfReading ==
  ASSUME ReportsInv, FillsInv, wire # <<>>, wire' = Tail(wire), order' = order,
         fills' = [t \in Trades |-> IF t \in EventFills(Head(wire)) THEN fills[t] + 1
                                    ELSE fills[t]]
  PROVE  FillMoves
<1>1. /\ Len(wire) \in Nat /\ 1 \in 1..Len(wire) /\ Len(wire') = Len(wire) - 1
      /\ \A k \in 1..Len(wire') : k + 1 \in 1..Len(wire) /\ wire'[k] = wire[k + 1]
  BY TailIndex DEF ReportsInv, TypeOK, TailOf
<1>2. \A u \in Trades :
        \/ u = wire[1].trade /\ wire[1].type = "match" /\ fills[u] = 0 /\ fills'[u] = 1
        \/ u # wire[1].trade /\ fills'[u] = fills[u]
  BY FillsOfHead
<1>3. ASSUME NEW u \in Trades, FillLost(u) PROVE FillLost(u)'
  <2>1. u # wire[1].trade /\ \A k \in 1..Len(wire') : wire'[k].trade # u
    BY <1>1, <1>3 DEF FillLost, OnItsWay
  <2> QED BY <1>2, <1>3, <2>1 DEF FillLost, OnItsWay
<1>4. ASSUME NEW u \in Trades, FillLost(u)' PROVE FillLost(u)
  <2>1. u # wire[1].trade /\ fills[u] = 0
    BY <1>2, <1>4 DEF FillLost
  <2>2. ASSUME NEW k \in 1..Len(wire), wire[k].trade = u PROVE FALSE
    <3>1. k - 1 \in 1..Len(wire') /\ (k - 1) + 1 = k
      BY <1>1, <2>1, <2>2
    <3>2. wire'[k - 1] = wire[k]
      BY <1>1, <3>1
    <3> QED BY <1>4, <2>2, <3>1, <3>2 DEF FillLost, OnItsWay
  <2> QED BY <1>4, <2>1, <2>2 DEF FillLost, OnItsWay
<1> QED BY <1>3, <1>4 DEF FillMoves

LEMMA LostOfNext ==
  ASSUME ReportsInv, FillsInv, [Next]_vars
  PROVE  FillMoves
<1>1. CASE \/ Serve \/ Subscribe \/ AnswerNext \/ DropCopyWelcome \/ DropCopyAck
           \/ (\E stale \in BOOLEAN : Timer(stale))
  <2>1. wire' = wire /\ order' = order /\ fills' = fills
    BY <1>1 DEF Serve, Subscribe, AnswerNext, GetAccountAck, GetPositionsAck,
                GetOrdersAck, GetOrderAck, GetFillsAck, Fails, Commit, DropCopyWelcome,
                DropCopyAck, Timer, exchange, server
  <2> QED BY <2>1, LostUnchanged
<1>2. CASE WalletBalanceChange \/ PositionChange
  <2>1. /\ wire # <<>> /\ wire' = Tail(wire) /\ Head(wire).topic # "open_orders"
        /\ order' = order /\ fills' = fills
    BY <1>2 DEF WalletBalanceChange, PositionChange, Receive, Quiet
  <2>2. EventFills(Head(wire)) = {}
    <3>1. 1 \in 1..Len(wire) /\ Head(wire) = wire[1]
      BY <2>1, TailIndex DEF ReportsInv, TypeOK, TailOf
    <3>2. Head(wire).type # "match"
      BY <2>1, <3>1, Zenon DEF FillsInv, MatchesNew
    <3> QED BY <3>2 DEF EventFills
  <2>3. fills' = [t \in Trades |-> IF t \in EventFills(Head(wire)) THEN fills[t] + 1
                                   ELSE fills[t]]
    <3>1. fills \in [Trades -> Nat]
      BY DEF ReportsInv, TypeOK
    <3> QED BY <2>1, <2>2, <3>1
  <2> QED BY <2>1, <2>3, LostOfReading
<1>3. CASE OrderChange
  <2>1. /\ wire # <<>> /\ wire' = Tail(wire) /\ order' = order
        /\ fills' = [t \in Trades |-> IF t \in EventFills(Head(wire)) THEN fills[t] + 1
                                      ELSE fills[t]]
    BY <1>3 DEF OrderChange, Receive, Quiet
  <2> QED BY <2>1, LostOfReading
<1>4. CASE DropCopyDisconnected
  <2>1. order' = order /\ fills' = fills /\ wire' = <<>>
    BY <1>4 DEF DropCopyDisconnected, server
  <2>2. Len(wire') = 0
    BY <2>1
  <2> QED BY <1>4, <2>1, <2>2 DEF FillMoves, FillLost, OnItsWay
<1>5. CASE UNCHANGED vars
  BY <1>5, LostUnchanged DEF vars, exchange, server
<1> QED BY <1>1, <1>2, <1>3, <1>4, <1>5, LostOfExchange
        DEF Next, ExchangeNext, DropCopyNext, Trading

\* A trade made while DropCopy was away, or whose match was lost with the session,
\* is told to nobody ever, whatever is downloaded later; no other trade is lost.
THEOREM FillsLostForGood == Spec => [][FillMoves]_vars
<1>1. ReportsInv /\ FillsInv /\ [Next]_vars => [FillMoves]_vars
  BY LostOfNext
<1> QED BY <1>1, InvariantHolds, FillsInvariant, PTL DEF Spec

----------------------------------------------------------------------------
(* Balance and position: the last event of a topic has what the exchange has, *)
(* and a snapshot asked after the subscription misses nothing that is not on  *)
(* its way.                                                                   *)

ViewOf(x, n) == IF x = "balances" THEN view.balances = n
                ELSE view.positions = Quantities(Position(n))

OnWire(x) == \E k \in 1..Len(wire) : wire[k].topic = x

SeenTrue ==
  \A x \in Feeds : /\ seen[x] <= order.filled
                   /\ seen[x] # -1 => ViewOf(x, seen[x]) /\ x \in feeds

WireTrue == \A k \in 1..Len(wire) : wire[k].topic \in feeds /\ wire[k].filled <= order.filled

LastTrue ==
  \A x \in Feeds : \A k \in 1..Len(wire) :
    /\ wire[k].topic = x
    /\ \A j \in 1..Len(wire) : j > k => wire[j].topic # x
    => wire[k].filled = order.filled

SeenLast == \A x \in Feeds : seen[x] # -1 /\ ~OnWire(x) => seen[x] = order.filled

AskedAfter == \A x \in Feeds : x \in fresh \/ (call.mine /\ call.kind = x) => x \in feeds

MineKnown ==
  \A x \in Feeds :
    call.mine /\ call.kind = x /\ call.image # <<>> =>
      Image.filled = order.filled \/ OnWire(x) \/ seen[x] = order.filled

ViewInv == SeenTrue /\ WireTrue /\ LastTrue /\ SeenLast /\ AskedAfter /\ MineKnown

LEMMA ViewInvExact == TypeOK /\ ViewInv => ViewExact
<1> SUFFICES ASSUME TypeOK, ViewInv, NEW x \in Feeds, x \in feeds, seen[x] # -1,
                    \A k \in DOMAIN wire : wire[k].topic # x
             PROVE  IF x = "balances" THEN view.balances = order.filled
                    ELSE view.positions = Quantities(Position(order.filled))
  BY Zenon DEF ViewExact, Feeds
<1>1. ~OnWire(x)
  BY LenProperties DEF TypeOK, OnWire
<1>2. seen[x] = order.filled
  BY <1>1 DEF ViewInv, SeenLast
<1> QED BY <1>2, Zenon DEF ViewInv, SeenTrue, ViewOf

LEMMA ViewTypes ==
  ASSUME ReportsInv
  PROVE  /\ order.filled \in Nat /\ wire \in Seq(Events) /\ Len(wire) \in Nat
         /\ \A x \in Feeds : seen[x] \in Int
         /\ \A k \in 1..Len(wire) : wire[k].filled \in Int
<1>1. order.filled \in 0..Size /\ wire \in Seq(Events)
  BY DEF ReportsInv, TypeOK, Orders
<1>2. \A k \in 1..Len(wire) : wire[k].filled \in Int
  <2>1. \A k \in 1..Len(wire) : wire[k] \in Events
    BY <1>1
  <2> QED BY <2>1 DEF Events
<1> QED BY <1>1, <1>2, SizeAssumption, LenProperties DEF ReportsInv, TypeOK, Feeds

LEMMA ViewOfExchange ==
  ASSUME ReportsInv, ViewInv, Trading
  PROVE  ViewInv'
<1>1. /\ seen' = seen /\ view' = view /\ call' = call /\ fresh' = fresh /\ feeds' = feeds
      /\ asked' = asked
  BY DEF Trading, Refuse, Accept, Rest, Cancel, Match, Unmoved, server, history, board
<1>2. order.filled \in Nat /\ order'.filled \in Nat /\ order.filled <= order'.filled
  BY SizeAssumption, ActsOfExchange DEF ReportsInv, TypeOK, Orders, Trading, Advances
<1>3. PICK t \in Seq(Events), new \in SUBSET Trades : wire' = wire \o t /\ AppendedBy(t, new)
  BY ExchangeAppends DEF ReportsInv, Appends
<1>4. /\ Len(wire) \in Nat /\ Len(t) \in Nat
      /\ \A k \in 1..Len(wire) : k \in 1..Len(wire') /\ wire'[k] = wire[k]
      /\ \A k \in 1..Len(t) : Len(wire) + k \in 1..Len(wire') /\ wire'[Len(wire) + k] = t[k]
      /\ \A k \in 1..Len(wire') : \/ k \in 1..Len(wire)
                                  \/ \E j \in 1..Len(t) : k = Len(wire) + j
  BY <1>3, ViewTypes, WireAfter
<1>5. /\ \A k \in 1..Len(t) : /\ t[k].topic \in Feeds => t[k].filled = order'.filled
                              /\ t[k].topic \in feeds /\ t[k].filled <= order'.filled
      /\ \A x \in Feeds : x \in feeds /\ order'.filled # order.filled =>
                            \E k \in 1..Len(t) : t[k].topic = x
  BY <1>3 DEF AppendedBy
<1>6. \A x, n : ViewOf(x, n)' <=> ViewOf(x, n)
  BY <1>1, SameRequest DEF ViewOf
<1>7. \A x \in Feeds : OnWire(x) => OnWire(x)'
  BY <1>4 DEF OnWire
<1>8. ASSUME NEW x \in Feeds, x \in feeds, order'.filled # order.filled
      PROVE  \E k \in 1..Len(wire') : k > Len(wire) /\ wire'[k].topic = x
  <2>1. PICK k \in 1..Len(t) : t[k].topic = x
    BY <1>5, <1>8
  <2>2. /\ Len(wire) + k \in 1..Len(wire') /\ Len(wire) + k > Len(wire)
        /\ wire'[Len(wire) + k].topic = x
    BY <1>4, <2>1
  <2> QED BY <2>2
<1>9. ASSUME NEW x \in Feeds, x \in feeds, ~OnWire(x)' PROVE order'.filled = order.filled
  BY <1>8, <1>9 DEF OnWire
<1>10. SeenTrue'
  <2>1. \A x \in Feeds : seen[x] \in Int
    BY ViewTypes
  <2>2. ASSUME NEW x \in Feeds
        PROVE  /\ seen[x] <= order'.filled
               /\ seen[x] # -1 => ViewOf(x, seen[x]) /\ x \in feeds
    BY <1>2, <2>1 DEF ViewInv, SeenTrue
  <2>3. \A x \in Feeds : ViewOf(x, seen[x])' <=> ViewOf(x, seen[x])
    BY <1>1, <1>6 DEF ViewOf
  <2> QED BY <1>1, <2>2, <2>3 DEF SeenTrue
<1>11. WireTrue'
  <2>1. ASSUME NEW k \in 1..Len(wire')
        PROVE  wire'[k].topic \in feeds /\ wire'[k].filled <= order'.filled
    <3>1. CASE k \in 1..Len(wire)
      <4>1. wire[k].topic \in feeds /\ wire[k].filled <= order.filled
        BY <3>1 DEF ViewInv, WireTrue
      <4>2. wire[k].filled \in Int
        BY <3>1, ViewTypes
      <4> QED BY <1>2, <1>4, <3>1, <4>1, <4>2
    <3>2. CASE k \notin 1..Len(wire)
      <4>1. PICK j \in 1..Len(t) : wire'[k] = t[j]
        BY <1>4, <3>2
      <4> QED BY <1>5, <4>1
    <3> QED BY <3>1, <3>2
  <2> QED BY <1>1, <2>1 DEF WireTrue
<1>12. LastTrue'
  <2>1. ASSUME NEW x \in Feeds, NEW k \in 1..Len(wire'), wire'[k].topic = x,
               \A j \in 1..Len(wire') : j > k => wire'[j].topic # x
        PROVE  wire'[k].filled = order'.filled
    <3>1. CASE k \in 1..Len(wire)
      <4>1. wire'[k] = wire[k] /\ wire[k].topic = x /\ x \in feeds
        BY <1>4, <2>1, <3>1 DEF ViewInv, WireTrue
      <4>2. order'.filled = order.filled
        <5>1. SUFFICES ASSUME order'.filled # order.filled PROVE FALSE
          OBVIOUS
        <5>2. PICK j \in 1..Len(wire') : j > Len(wire) /\ wire'[j].topic = x
          BY <1>8, <4>1, <5>1
        <5>3. j > k
          BY <1>4, <3>1, <5>2
        <5> QED BY <2>1, <5>2, <5>3
      <4>3. \A j \in 1..Len(wire) : j > k => wire[j].topic # x
        BY <1>4, <2>1
      <4>4. wire[k].filled = order.filled
        BY <3>1, <4>1, <4>3, Zenon DEF ViewInv, LastTrue
      <4> QED BY <4>1, <4>2, <4>4
    <3>2. CASE k \notin 1..Len(wire)
      <4>1. PICK j \in 1..Len(t) : wire'[k] = t[j]
        BY <1>4, <3>2
      <4> QED BY <1>5, <2>1, <4>1
    <3> QED BY <3>1, <3>2
  <2> QED BY <2>1, Zenon DEF LastTrue
<1>13. SeenLast'
  <2>1. ASSUME NEW x \in Feeds, seen[x] # -1, ~OnWire(x)' PROVE seen[x] = order'.filled
    <3>1. x \in feeds
      BY <2>1 DEF ViewInv, SeenTrue
    <3>2. order'.filled = order.filled /\ ~OnWire(x)
      BY <1>7, <1>9, <2>1, <3>1
    <3> QED BY <2>1, <3>2 DEF ViewInv, SeenLast
  <2> QED BY <1>1, <2>1, Zenon DEF SeenLast
<1>14. AskedAfter'
  BY <1>1 DEF ViewInv, AskedAfter
<1>15. MineKnown'
  <2>1. ASSUME NEW x \in Feeds, call.mine, call.kind = x, call.image # <<>>
        PROVE  Image.filled = order'.filled \/ OnWire(x)' \/ seen[x] = order'.filled
    <3>1. x \in feeds
      BY <2>1 DEF ViewInv, AskedAfter
    <3>2. Image.filled = order.filled \/ OnWire(x) \/ seen[x] = order.filled
      BY <2>1, Zenon DEF ViewInv, MineKnown
    <3> QED BY <1>7, <1>9, <3>1, <3>2
  <2>2. Image' = Image
    BY <1>1 DEF Image
  <2> QED BY <1>1, <2>1, <2>2, Zenon DEF MineKnown
<1> QED BY <1>10, <1>11, <1>12, <1>13, <1>14, <1>15 DEF ViewInv

LEMMA ViewOfTail ==
  ASSUME ReportsInv, ViewInv, wire # <<>>, wire' = Tail(wire), asked' = asked,
         order' = order, feeds' = feeds, call' = call, fresh' = fresh,
         NEW y, NEW n, y = Head(wire).topic, n = Head(wire).filled,
         \A x \in Feeds : /\ x = y => seen'[x] = n /\ ViewOf(x, n)'
                          /\ x # y => seen'[x] = seen[x] /\ (ViewOf(x, seen[x]) => ViewOf(x, seen[x])')
  PROVE  ViewInv'
<1>0. TailOf(wire) /\ order.filled \in Nat
  BY ViewTypes, TailIndex
<1>1. /\ Len(wire) \in Nat /\ 1 \in 1..Len(wire) /\ wire[1].topic = y /\ wire[1].filled = n
      /\ Len(wire') = Len(wire) - 1
      /\ \A k \in 1..Len(wire') : k + 1 \in 1..Len(wire) /\ wire'[k] = wire[k + 1]
  BY <1>0 DEF TailOf
<1>2. y \in feeds /\ n <= order.filled
  BY <1>1 DEF ViewInv, WireTrue
<1>3. ASSUME NEW x \in Feeds, NEW k \in 1..Len(wire), wire[k].topic = x, k # 1
      PROVE  OnWire(x)'
  <2>1. PICK j \in 1..Len(wire') : j + 1 = k
    <3>1. k - 1 \in 1..Len(wire') /\ (k - 1) + 1 = k
      BY <1>1, <1>3
    <3> QED BY <3>1
  <2>2. wire'[j].topic = x
    BY <1>1, <1>3, <2>1
  <2> QED BY <2>2 DEF OnWire
<1>4. ASSUME NEW x \in Feeds, x # y, OnWire(x) PROVE OnWire(x)'
  <2>1. PICK k \in 1..Len(wire) : wire[k].topic = x
    BY <1>4 DEF OnWire
  <2> QED BY <1>1, <1>3, <1>4, <2>1
<1>5. ASSUME NEW x \in Feeds, x = y, ~OnWire(x)' PROVE n = order.filled
  <2>1. \A j \in 1..Len(wire) : j > 1 => wire[j].topic # x
    BY <1>3, <1>5
  <2>2. wire[1].filled = order.filled
    BY <1>1, <1>5, <2>1, Zenon DEF ViewInv, LastTrue
  <2> QED BY <1>1, <2>2
<1>6. SeenTrue'
  <2>1. ASSUME NEW x \in Feeds PROVE seen'[x] <= order.filled
    BY <1>2, <2>1 DEF ViewInv, SeenTrue
  <2>2. ASSUME NEW x \in Feeds, seen'[x] # -1 PROVE x \in feeds /\ ViewOf(x, seen[x])'
    <3>1. CASE x = y
      BY <1>2, <3>1 DEF ViewOf
    <3>2. CASE x # y
      BY <2>2, <3>2 DEF ViewInv, SeenTrue
    <3> QED BY <3>1, <3>2
  <2> QED BY <2>1, <2>2 DEF SeenTrue
<1>7. WireTrue'
  BY <1>1 DEF ViewInv, WireTrue
<1>8. LastTrue'
  <2>1. ASSUME NEW x \in Feeds, NEW k \in 1..Len(wire'), wire'[k].topic = x,
               \A j \in 1..Len(wire') : j > k => wire'[j].topic # x
        PROVE  wire'[k].filled = order.filled
    <3>1. k + 1 \in 1..Len(wire) /\ wire'[k] = wire[k + 1]
      BY <1>1
    <3>2. ASSUME NEW j \in 1..Len(wire), j > k + 1 PROVE wire[j].topic # x
      <4>1. j - 1 \in 1..Len(wire') /\ j - 1 > k /\ (j - 1) + 1 = j
        BY <1>1, <3>1, <3>2
      <4>2. wire'[j - 1] = wire[j]
        BY <1>1, <4>1
      <4> QED BY <2>1, <4>1, <4>2
    <3>3. wire[k + 1].filled = order.filled
      BY <2>1, <3>1, <3>2, Zenon DEF ViewInv, LastTrue
    <3> QED BY <3>1, <3>3
  <2> QED BY <2>1, Zenon DEF LastTrue
<1>9. SeenLast'
  <2>1. ASSUME NEW x \in Feeds, seen'[x] # -1, ~OnWire(x)' PROVE seen'[x] = order.filled
    <3>1. CASE x = y
      BY <1>5, <2>1, <3>1
    <3>2. CASE x # y
      <4>1. ~OnWire(x) /\ seen'[x] = seen[x]
        BY <1>4, <2>1, <3>2
      <4> QED BY <2>1, <4>1 DEF ViewInv, SeenLast
    <3> QED BY <3>1, <3>2
  <2> QED BY <2>1, Zenon DEF SeenLast
<1>10. AskedAfter'
  BY DEF ViewInv, AskedAfter
<1>11. MineKnown'
  <2>1. ASSUME NEW x \in Feeds, call.mine, call.kind = x, call.image # <<>>
        PROVE  Image.filled = order.filled \/ OnWire(x)' \/ seen'[x] = order.filled
    <3>1. Image.filled = order.filled \/ OnWire(x) \/ seen[x] = order.filled
      BY <2>1, Zenon DEF ViewInv, MineKnown
    <3>2. CASE x = y
      BY <1>5, <3>2
    <3>3. CASE x # y
      BY <1>4, <3>1, <3>3
    <3> QED BY <3>2, <3>3
  <2>2. Image' = Image
    BY DEF Image
  <2> QED BY <2>1, <2>2, Zenon DEF MineKnown
<1> QED BY <1>6, <1>7, <1>8, <1>9, <1>10, <1>11 DEF ViewInv

LEMMA ViewOfReading ==
  ASSUME ReportsInv, ViewInv, WalletBalanceChange \/ PositionChange
  PROVE  ViewInv'
<1>1. /\ wire # <<>> /\ wire' = Tail(wire) /\ asked' = asked /\ order' = order
      /\ feeds' = feeds /\ call' = call /\ fresh' = fresh
  BY DEF WalletBalanceChange, PositionChange, Receive, Quiet, board
<1>2. /\ view \in [balances : -1..Size, positions : [long : Nat, short : Nat]]
      /\ seen \in [Feeds -> -1..Size]
  BY DEF ReportsInv, TypeOK, Feeds
<1>3. PICK n : n = Head(wire).filled
  OBVIOUS
<1>4. \A m : Position(m)' = Position(m)
  BY <1>1, SameRequest
<1>5. CASE WalletBalanceChange
  <2>1. /\ Head(wire).topic = "balances" /\ seen' = [seen EXCEPT !["balances"] = n]
        /\ view' = [view EXCEPT !.balances = n]
    BY <1>3, <1>5 DEF WalletBalanceChange, Receive, Read
  <2>2. ViewOf("balances", n)' /\ seen'["balances"] = n
    BY <1>2, <2>1 DEF ViewOf, Feeds
  <2>3. seen'["positions"] = seen["positions"] /\ view'.positions = view.positions
    BY <1>2, <2>1 DEF Feeds
  <2>4. ViewOf("positions", seen["positions"]) => ViewOf("positions", seen["positions"])'
    BY <1>4, <2>3 DEF ViewOf
  <2> QED BY <1>1, <1>3, <2>1, <2>2, <2>3, <2>4, ViewOfTail DEF Feeds
<1>6. CASE PositionChange
  <2>1. /\ Head(wire).topic = "positions" /\ seen' = [seen EXCEPT !["positions"] = n]
        /\ view' = [view EXCEPT !.positions = Quantities(Position(n))]
    BY <1>3, <1>6 DEF PositionChange, Receive, Read
  <2>2. ViewOf("positions", n)' /\ seen'["positions"] = n
    BY <1>2, <1>4, <2>1 DEF ViewOf, Feeds
  <2>3. seen'["balances"] = seen["balances"] /\ view'.balances = view.balances
    BY <1>2, <2>1 DEF Feeds
  <2>4. ViewOf("balances", seen["balances"]) => ViewOf("balances", seen["balances"])'
    BY <2>3 DEF ViewOf
  <2> QED BY <1>1, <1>3, <2>1, <2>2, <2>3, <2>4, ViewOfTail DEF Feeds
<1> QED BY <1>5, <1>6

LEMMA ViewOfOrderChange ==
  ASSUME ReportsInv, ViewInv, OrderChange
  PROVE  ViewInv'
<1>1. /\ wire # <<>> /\ wire' = Tail(wire) /\ asked' = asked /\ order' = order
      /\ feeds' = feeds /\ call' = call /\ fresh' = fresh
      /\ seen' = seen /\ view' = view /\ Head(wire).topic = "open_orders"
  BY DEF OrderChange, Receive, Quiet, board
<1>2. \A m : Position(m)' = Position(m)
  BY <1>1, SameRequest
<1>3. \A x \in Feeds : ViewOf(x, seen[x]) => ViewOf(x, seen[x])'
  BY <1>1, <1>2 DEF ViewOf
<1>4. \A x \in Feeds : x # "open_orders"
  BY DEF Feeds
<1> QED BY <1>1, <1>3, <1>4, ViewOfTail

\* After an answer nothing is out.
LEMMA ViewOfAnswer ==
  ASSUME ViewInv, order' = order, wire' = wire, feeds' = feeds, fresh' = fresh,
         call' = NoCall,
         \A x \in Feeds :
           /\ seen'[x] <= order.filled
           /\ seen'[x] # -1 => ViewOf(x, seen[x])' /\ x \in feeds
           /\ seen'[x] # -1 /\ ~OnWire(x) => seen'[x] = order.filled
  PROVE  ViewInv'
<1>1. SeenTrue'
  BY DEF SeenTrue
<1>2. WireTrue' /\ LastTrue'
  BY DEF ViewInv, WireTrue, LastTrue
<1>3. SeenLast'
  BY DEF SeenLast, OnWire
<1>4. AskedAfter' /\ MineKnown'
  BY DEF ViewInv, AskedAfter, MineKnown, NoCall
<1> QED BY <1>1, <1>2, <1>3, <1>4 DEF ViewInv

LEMMA SeenKept ==
  ASSUME ReportsInv, ViewInv, asked' = asked, NEW x \in Feeds, seen'[x] = seen[x],
         IF x = "balances" THEN view'.balances = view.balances
         ELSE view'.positions = view.positions
  PROVE  /\ seen'[x] <= order.filled
         /\ seen'[x] # -1 => ViewOf(x, seen[x])' /\ x \in feeds
         /\ seen'[x] # -1 /\ ~OnWire(x) => seen'[x] = order.filled
<1>1. \A m : Position(m)' = Position(m)
  BY SameRequest
<1>2. ViewOf(x, seen[x]) => ViewOf(x, seen[x])'
  BY <1>1 DEF ViewOf
<1>3. /\ seen[x] <= order.filled
      /\ seen[x] # -1 => ViewOf(x, seen[x]) /\ x \in feeds
      /\ seen[x] # -1 /\ ~OnWire(x) => seen[x] = order.filled
  BY DEF ViewInv, SeenTrue, SeenLast
<1> QED BY <1>2, <1>3

\* A snapshot that was asked after the subscription and served before an event
\* that is not on its way any more is no older than what was read.
LEMMA SeenSnapshot ==
  ASSUME ReportsInv, ViewInv, NEW x \in Feeds, Answered(x), ReadImage(x)
  PROVE  \/ seen'[x] = -1
         \/ /\ seen'[x] = Image.filled /\ Image.filled <= order.filled /\ x \in feeds
            /\ ~OnWire(x) => Image.filled = order.filled
<1>1. /\ Image.filled \in Int /\ Image.filled <= order.filled /\ order.filled \in Int
      /\ seen[x] \in Int
  <2>1. x \in Kinds
    BY KindsOf DEF Feeds
  <2> QED BY <2>1, ImageOfAnswer, ViewTypes DEF ImageTrue
<1>2. seen'[x] = IF call.mine /\ Image.filled >= seen[x] THEN Image.filled ELSE -1
  BY DEF ReadImage, ReportsInv, TypeOK, Feeds
<1>3. CASE call.mine /\ Image.filled >= seen[x]
  <2>1. x \in feeds /\ call.kind = x /\ call.image # <<>>
    BY <1>3 DEF ViewInv, AskedAfter, Answered
  <2>2. Image.filled = order.filled \/ OnWire(x) \/ seen[x] = order.filled
    BY <1>3, <2>1, Zenon DEF ViewInv, MineKnown
  <2> QED BY <1>1, <1>2, <1>3, <2>1, <2>2
<1>4. CASE ~(call.mine /\ Image.filled >= seen[x])
  BY <1>2, <1>4
<1> QED BY <1>3, <1>4

LEMMA ViewOfAccountAck ==
  ASSUME ReportsInv, ViewInv, GetAccountAck
  PROVE  ViewInv'
<1>1. /\ asked' = asked /\ order' = order /\ wire' = wire /\ feeds' = feeds
      /\ fresh' = fresh /\ call' = NoCall
      /\ Answered("balances") /\ ReadImage("balances")
      /\ view' = [view EXCEPT !.balances = Image.filled]
  BY DEF GetAccountAck, Commit, exchange
<1>2. /\ view'.balances = Image.filled /\ view'.positions = view.positions
      /\ seen'["positions"] = seen["positions"]
  BY <1>1 DEF ReadImage, ReportsInv, TypeOK
<1>3. /\ seen'["balances"] <= order.filled
      /\ seen'["balances"] # -1 => ViewOf("balances", seen["balances"])' /\ "balances" \in feeds
      /\ seen'["balances"] # -1 /\ ~OnWire("balances") => seen'["balances"] = order.filled
  <2>1. order.filled \in Nat
    BY ViewTypes
  <2> QED BY <1>1, <1>2, <2>1, SeenSnapshot DEF Feeds, ViewOf
<1>4. /\ seen'["positions"] <= order.filled
      /\ seen'["positions"] # -1 =>
           ViewOf("positions", seen["positions"])' /\ "positions" \in feeds
      /\ seen'["positions"] # -1 /\ ~OnWire("positions") => seen'["positions"] = order.filled
  BY <1>1, <1>2, SeenKept DEF Feeds
<1> QED BY <1>1, <1>3, <1>4, ViewOfAnswer DEF Feeds

LEMMA ViewOfPositionsAck ==
  ASSUME ReportsInv, ViewInv, NEW listed \in BOOLEAN, GetPositionsAck(listed)
  PROVE  ViewInv'
<1>1. /\ asked' = asked /\ order' = order /\ wire' = wire /\ feeds' = feeds
      /\ fresh' = fresh /\ call' = NoCall /\ Answered("positions")
  BY DEF GetPositionsAck, Commit, exchange
<1>2. CASE listed
  <2>1. ReadImage("positions") /\ view' = [view EXCEPT !.positions = Quantities(Position(Image.filled))]
    BY <1>2 DEF GetPositionsAck
  <2>2. /\ view'.positions = Quantities(Position(Image.filled))
        /\ view'.balances = view.balances /\ seen'["balances"] = seen["balances"]
    BY <2>1 DEF ReadImage, ReportsInv, TypeOK
  <2>3. \A m : Position(m)' = Position(m)
    BY <1>1, SameRequest
  <2>4. /\ seen'["positions"] <= order.filled
        /\ seen'["positions"] # -1 =>
             ViewOf("positions", seen["positions"])' /\ "positions" \in feeds
        /\ seen'["positions"] # -1 /\ ~OnWire("positions") => seen'["positions"] = order.filled
    <3>1. order.filled \in Nat
      BY ViewTypes
    <3> QED BY <1>1, <2>1, <2>2, <2>3, <3>1, SeenSnapshot DEF Feeds, ViewOf
  <2>5. /\ seen'["balances"] <= order.filled
        /\ seen'["balances"] # -1 => ViewOf("balances", seen["balances"])' /\ "balances" \in feeds
        /\ seen'["balances"] # -1 /\ ~OnWire("balances") => seen'["balances"] = order.filled
    BY <1>1, <2>2, SeenKept DEF Feeds
  <2> QED BY <1>1, <2>4, <2>5, ViewOfAnswer DEF Feeds
<1>3. CASE ~listed
  <2>1. view' = view /\ seen' = seen
    BY <1>3 DEF GetPositionsAck
  <2>2. \A x \in Feeds :
          /\ seen'[x] <= order.filled
          /\ seen'[x] # -1 => ViewOf(x, seen[x])' /\ x \in feeds
          /\ seen'[x] # -1 /\ ~OnWire(x) => seen'[x] = order.filled
    BY <1>1, <2>1, SeenKept
  <2> QED BY <1>1, <2>2, ViewOfAnswer
<1> QED BY <1>2, <1>3

LEMMA ViewOfOthers ==
  ASSUME ReportsInv, ViewInv, GetOrdersAck \/ GetOrderAck \/ GetFillsAck \/ Fails
  PROVE  ViewInv'
<1>1. /\ asked' = asked /\ order' = order /\ wire' = wire /\ feeds' = feeds
      /\ fresh' = fresh /\ call' = NoCall /\ view' = view /\ seen' = seen
  BY DEF GetOrdersAck, GetOrderAck, GetFillsAck, Fails, Commit, exchange, server
<1>2. \A x \in Feeds :
        /\ seen'[x] <= order.filled
        /\ seen'[x] # -1 => ViewOf(x, seen[x])' /\ x \in feeds
        /\ seen'[x] # -1 /\ ~OnWire(x) => seen'[x] = order.filled
  BY <1>1, SeenKept
<1> QED BY <1>1, <1>2, ViewOfAnswer

\* Steps that only ask, serve or subscribe.
LEMMA ViewOfAsking ==
  ASSUME ReportsInv, ViewInv, asked' = asked, order' = order, wire' = wire, view' = view,
         seen' = seen, feeds \subseteq feeds', AskedAfter', MineKnown'
  PROVE  ViewInv'
<1>1. \A m : Position(m)' = Position(m)
  BY SameRequest
<1>2. \A x \in Feeds : ViewOf(x, seen[x]) => ViewOf(x, seen[x])'
  BY <1>1 DEF ViewOf
<1>3. SeenTrue'
  BY <1>2 DEF ViewInv, SeenTrue
<1>4. WireTrue' /\ LastTrue'
  BY DEF ViewInv, WireTrue, LastTrue
<1>5. SeenLast'
  BY DEF ViewInv, SeenLast, OnWire
<1> QED BY <1>3, <1>4, <1>5 DEF ViewInv

LEMMA MineStays ==
  ASSUME ViewInv, order' = order, wire' = wire, seen' = seen,
         \/ call'.image = <<>>
         \/ call' = call
  PROVE  MineKnown'
<1>1. CASE call'.image = <<>>
  BY <1>1 DEF MineKnown
<1>2. CASE call' = call
  BY <1>2 DEF ViewInv, MineKnown, Image, OnWire
<1> QED BY <1>1, <1>2

LEMMA ViewOfServe ==
  ASSUME ReportsInv, ViewInv, Serve
  PROVE  ViewInv'
<1>1. /\ asked' = asked /\ order' = order /\ wire' = wire /\ feeds' = feeds
      /\ view' = view /\ seen' = seen /\ fresh' = fresh
      /\ call' = [call EXCEPT !.image = <<order>>]
  BY DEF Serve, exchange, server, history
<1>2. call'.image = <<order>> /\ call'.kind = call.kind /\ call'.mine = call.mine
  BY <1>1 DEF ReportsInv, TypeOK
<1>3. AskedAfter'
  BY <1>1, <1>2 DEF ViewInv, AskedAfter
<1>4. MineKnown'
  <2>1. Image' = order
    BY <1>2 DEF Image
  <2> QED BY <1>1, <2>1 DEF MineKnown
<1> QED BY <1>1, <1>3, <1>4, ViewOfAsking

LEMMA ViewOfSubscribe ==
  ASSUME ReportsInv, ViewInv, Subscribe
  PROVE  ViewInv'
<1>1. /\ asked' = asked /\ order' = order /\ wire' = wire /\ feeds \subseteq feeds'
      /\ view' = view /\ seen' = seen /\ fresh' = fresh /\ call' = call
  BY DEF Subscribe, server, board
<1>2. AskedAfter'
  BY <1>1 DEF ViewInv, AskedAfter
<1> QED BY <1>1, <1>2, MineStays, ViewOfAsking

LEMMA ViewOfSession ==
  ASSUME ReportsInv, ViewInv, DropCopyWelcome \/ DropCopyAck
  PROVE  ViewInv'
<1>1. /\ asked' = asked /\ order' = order /\ wire' = wire /\ feeds' = feeds
      /\ view' = view /\ seen' = seen /\ call' = call
      /\ fresh' = fresh \cup Asked(Follows(stage, wanted))
  BY DEF DropCopyWelcome, DropCopyAck, Enter, exchange, server
<1>2. \A x \in Feeds : x \in Asked(Follows(stage, wanted)) => x \in feeds
  <2>1. CASE DropCopyWelcome
    BY <2>1 DEF DropCopyWelcome, Follows, Asked, Asks
  <2>2. CASE DropCopyAck
    <3>1. Subscribes[stage] \in feeds /\ stage \in DOMAIN Subscribes
      BY <2>2 DEF DropCopyAck
    <3>2. CASE stage = "SUBSCRIBE_BALANCES"
      BY <3>1, <3>2 DEF Follows, Asked, Asks, Subscribes
    <3>3. CASE stage = "SUBSCRIBE_POSITIONS"
      BY <3>1, <3>3 DEF Follows, Asked, Asks, Subscribes
    <3>4. CASE stage = "SUBSCRIBE_ORDERS"
      BY <3>1, <3>4 DEF Follows, Asked, Asks, Feeds
    <3> QED BY <3>1, <3>2, <3>3, <3>4 DEF Subscribes
  <2> QED BY <2>1, <2>2
<1>3. AskedAfter'
  BY <1>1, <1>2 DEF ViewInv, AskedAfter
<1> QED BY <1>1, <1>3, MineStays, ViewOfAsking

LEMMA ViewOfTimer ==
  ASSUME ReportsInv, ViewInv, NEW stale \in BOOLEAN, Timer(stale)
  PROVE  ViewInv'
<1>1. /\ asked' = asked /\ order' = order /\ wire' = wire /\ feeds' = feeds
      /\ view' = view /\ seen' = seen
  BY DEF Timer, exchange, server
<1>2. PICK w \in BOOLEAN :
        fresh' = fresh \/ (stage \in DOMAIN Asks /\ fresh' = fresh \cup Asked(Follows(stage, w)))
  <2> DEFINE sends == Sendable
             p == pending \ sends
             done == Answers(stage)
             scan == done # {} /\ stage = "GET_OPEN_ORDERS"
             w == (wanted /\ "stale_orders" \notin sends) \/ (scan /\ stale)
             t == IF done = {} THEN stage ELSE Follows(stage, w)
             due == t = "DONE" /\ stale /\ ~w
  <2>1. w \in BOOLEAN
    BY DEF ReportsInv, TypeOK
  <2>2. CASE due \/ done = {}
    BY <2>1, <2>2 DEF Timer
  <2>3. CASE ~due /\ done # {}
    <3>1. Enter(t, p, response \ done) /\ t = Follows(stage, w)
      BY <2>3 DEF Timer
    <3>2. stage \in DOMAIN Asks
      BY <2>3 DEF Answers
    <3>3. fresh' = fresh \cup Asked(Follows(stage, w))
      BY <3>1 DEF Enter
    <3> QED BY <2>1, <3>2, <3>3
  <2> QED BY <2>2, <2>3
<1>3. stage \in DOMAIN Asks => \A x \in Feeds : x \notin Asked(Follows(stage, w))
  <2>1. CASE stage = "GET_OPEN_ORDERS"
    BY <2>1 DEF Follows, Asked, Asks, AfterOrders, Feeds
  <2>2. CASE stage = "GET_STALE_ORDERS"
    BY <2>2 DEF Follows, Asked, Asks, AfterOrders, Feeds
  <2>3. CASE stage \in {"GET_BALANCES", "GET_POSITIONS", "GET_TRADES"}
    BY <2>3 DEF Follows, Asked, Asks
  <2> QED BY <2>1, <2>2, <2>3 DEF Asks
<1>4. \A x \in Feeds : x \in fresh' => x \in fresh
  BY <1>2, <1>3
<1>5. \/ call' = call
      \/ call'.image = <<>> /\ (call'.mine => call'.kind \in fresh)
  <2>1. CASE Sendable = {}
    BY <2>1 DEF Timer
  <2>2. CASE Sendable # {}
    <3>1. call' = [kind |-> CHOOSE k \in Sendable : TRUE, image |-> <<>>,
                   mine |-> Sendable \subseteq fresh]
      BY <2>2 DEF Timer
    <3>2. PICK k \in Sendable : k = CHOOSE i \in Sendable : TRUE
      BY <2>2
    <3> QED BY <3>1, <3>2
  <2> QED BY <2>1, <2>2
<1>6. AskedAfter'
  BY <1>1, <1>4, <1>5 DEF ViewInv, AskedAfter
<1> QED BY <1>1, <1>5, <1>6, MineStays, ViewOfAsking

LEMMA ViewOfDisconnected ==
  ASSUME ReportsInv, ViewInv, DropCopyDisconnected
  PROVE  ViewInv'
<1>1. /\ order' = order /\ wire' = <<>> /\ fresh' = {}
      /\ call' = [call EXCEPT !.mine = FALSE]
      /\ seen' = [x \in DOMAIN seen |-> -1]
  BY DEF DropCopyDisconnected
<1>2. Len(wire') = 0 /\ order.filled \in Nat
  BY <1>1, ViewTypes
<1>3. call'.mine = FALSE /\ \A x \in Feeds : seen'[x] = -1
  BY <1>1 DEF ReportsInv, TypeOK, Feeds
<1>4. SeenTrue' /\ SeenLast'
  BY <1>1, <1>2, <1>3 DEF SeenTrue, SeenLast
<1>5. WireTrue' /\ LastTrue'
  BY <1>2 DEF WireTrue, LastTrue
<1>6. AskedAfter' /\ MineKnown'
  BY <1>1, <1>3 DEF AskedAfter, MineKnown
<1> QED BY <1>4, <1>5, <1>6 DEF ViewInv

LEMMA ViewOfNext == ReportsInv /\ ViewInv /\ [Next]_vars => ViewInv'
<1> SUFFICES ASSUME ReportsInv, ViewInv, [Next]_vars PROVE ViewInv'
  OBVIOUS
<1>1. CASE ExchangeNext
  BY <1>1, ViewOfExchange, ViewOfSubscribe, ViewOfServe DEF ExchangeNext, Trading
<1>2. CASE AnswerNext
  BY <1>2, ViewOfAccountAck, ViewOfPositionsAck, ViewOfOthers DEF AnswerNext
<1>3. CASE DropCopyNext
  BY <1>3, ViewOfReading, ViewOfOrderChange, ViewOfSession, ViewOfDisconnected,
     ViewOfTimer DEF DropCopyNext
<1>4. CASE UNCHANGED vars
  <2>1. /\ asked' = asked /\ order' = order /\ wire' = wire /\ feeds' = feeds
        /\ view' = view /\ seen' = seen /\ fresh' = fresh /\ call' = call
    BY <1>4 DEF vars, exchange, server, board, history
  <2>2. AskedAfter'
    BY <2>1 DEF ViewInv, AskedAfter
  <2> QED BY <2>1, <2>2, MineStays, ViewOfAsking
<1> QED BY <1>1, <1>2, <1>3, <1>4 DEF Next

LEMMA ViewOfInit == Init => ViewInv
<1> SUFFICES ASSUME Init PROVE ViewInv
  OBVIOUS
<1>1. /\ order.filled = 0 /\ wire = <<>> /\ fresh = {} /\ call = NoCall
      /\ \A x \in Feeds : seen[x] = -1
  BY DEF Init, Feeds
<1>2. Len(wire) = 0
  BY <1>1
<1>3. SeenTrue /\ SeenLast
  BY <1>1 DEF SeenTrue, SeenLast
<1>4. WireTrue /\ LastTrue
  BY <1>2 DEF WireTrue, LastTrue
<1>5. AskedAfter /\ MineKnown
  BY <1>1 DEF AskedAfter, MineKnown, NoCall
<1> QED BY <1>3, <1>4, <1>5 DEF ViewInv

\* The invariant of the proof: the last event of a topic on its way, or the last
\* reading when none is, has the quantity that the order has traded.
THEOREM ViewInvariant == Spec => []ViewInv
<1>1. Init => ViewInv
  BY ViewOfInit
<1>2. ReportsInv /\ ViewInv /\ [Next]_vars => ViewInv'
  BY ViewOfNext
<1> QED BY <1>1, <1>2, InvariantHolds, PTL DEF Spec

\* Nothing falls between a snapshot and the events of its topic, for every size
\* of the order, every account and any number of faults.
THEOREM ViewCorrect == Spec => []ViewExact
<1>1. TypeOK /\ ViewInv => ViewExact
  BY ViewInvExact
<1> QED BY <1>1, TypeCorrect, ViewInvariant, PTL

----------------------------------------------------------------------------
(* Fields: what was encoded is decoded. *)

ToldAs ==
  told.fields = NoFields \/
    (Known /\ \E tif \in {"UNDEFINED", MapTimeInForce[Item.tif]} :
                told.fields = Fields(Item, tif))

MakersOnly == Wired.postOnly => \A t \in order.trades : t.liquidity = "maker"

ViewKnown ==
  view.positions = [long |-> 0, short |-> 0] \/
    \E n \in 0..Size : n <= order.filled /\ view.positions = Quantities(Position(n))

FieldsInv == ToldAs /\ MakersOnly /\ ViewKnown

\* With the order unchanged, what is told may only become what the item has.
LEMMA FieldsOfStep ==
  ASSUME ReportsInv, FieldsInv, asked' = asked, order' = order,
         \/ told'.fields = told.fields
         \/ Known /\ \E tif \in {"UNDEFINED", MapTimeInForce[Item.tif]} :
                       told'.fields = Fields(Item, tif),
         \/ view'.positions = view.positions
         \/ \E n \in 0..Size : n <= order.filled /\ view'.positions = Quantities(Position(n))
  PROVE  FieldsInv'
<1>1. Item' = Item /\ Wired' = Wired /\ (Known' <=> Known) /\ \A n : Position(n)' = Position(n)
  BY SameRequest DEF Known
<1>2. \A tif : Fields(Item, tif)' = Fields(Item, tif)
  BY <1>1 DEF Fields
<1>3. ToldAs'
  BY <1>1, <1>2 DEF FieldsInv, ToldAs
<1>4. MakersOnly'
  BY <1>1 DEF FieldsInv, MakersOnly
<1>5. ViewKnown'
  BY <1>1 DEF FieldsInv, ViewKnown
<1> QED BY <1>3, <1>4, <1>5 DEF FieldsInv

LEMMA FieldsOfExchange ==
  ASSUME ReportsInv, FieldsInv, Trading
  PROVE  FieldsInv'
<1>1. told' = told /\ view' = view /\ asked' = asked
  BY DEF Trading, Refuse, Accept, Rest, Cancel, Match, Unmoved, server
<1>2. /\ Known => Known'
      /\ order.filled <= order'.filled /\ order.filled \in Nat /\ order'.filled \in Nat
  BY SizeAssumption, ActsOfExchange DEF ReportsInv, TypeOK, Orders, Trading, Advances
<1>3. Item' = Item /\ Wired' = Wired /\ \A n : Position(n)' = Position(n)
  BY <1>1, SameRequest
<1>4. \A tif : Fields(Item, tif)' = Fields(Item, tif)
  BY <1>3 DEF Fields
<1>5. ToldAs'
  BY <1>1, <1>2, <1>3, <1>4 DEF FieldsInv, ToldAs
<1>6. MakersOnly'
  <2>1. PICK new \in SUBSET Trades :
          order'.trades = order.trades \cup new /\ \A u \in new : NewTrade(u)
    BY ExchangeAppends DEF ReportsInv, Appends
  <2> QED BY <1>3, <2>1 DEF FieldsInv, MakersOnly, NewTrade
<1>7. ViewKnown'
  <2>1. ASSUME NEW n \in 0..Size, n <= order.filled PROVE n <= order'.filled
    BY <1>2, <2>1
  <2> QED BY <1>1, <1>3, <2>1 DEF FieldsInv, ViewKnown
<1> QED BY <1>5, <1>6, <1>7 DEF FieldsInv

LEMMA FieldsUnchanged ==
  ASSUME ReportsInv, FieldsInv, asked' = asked, order' = order, told' = told, view' = view
  PROVE  FieldsInv'
  BY FieldsOfStep

LEMMA FieldsOfWallet ==
  ASSUME ReportsInv, FieldsInv, WalletBalanceChange \/ GetAccountAck
  PROVE  FieldsInv'
<1>1. asked' = asked /\ order' = order /\ told' = told
  BY DEF WalletBalanceChange, GetAccountAck, Commit, Quiet, exchange
<1>2. view'.positions = view.positions
  BY DEF WalletBalanceChange, GetAccountAck, ReportsInv, TypeOK
<1> QED BY <1>1, <1>2, FieldsOfStep

LEMMA FieldsOfPosition ==
  ASSUME ReportsInv, ViewInv, FieldsInv, PositionChange
  PROVE  FieldsInv'
<1>1. asked' = asked /\ order' = order /\ told' = told
  BY DEF PositionChange, Quiet
<1>2. Receive("positions") /\ Quiet /\ "positions" \in Topics
  BY DEF PositionChange, Topics
<1>3. Head(wire).filled \in 0..Size
  BY <1>2, Received
<1>4. Head(wire).filled <= order.filled
  <2>1. TailOf(wire)
    BY <1>2, TailIndex DEF Receive, ReportsInv, TypeOK
  <2>2. Head(wire) = wire[1] /\ 1 \in 1..Len(wire)
    BY <2>1 DEF TailOf
  <2> QED BY <2>2, Zenon DEF ViewInv, WireTrue
<1>5. view'.positions = Quantities(Position(Head(wire).filled))
  BY DEF PositionChange, ReportsInv, TypeOK
<1> QED BY <1>1, <1>3, <1>4, <1>5, FieldsOfStep

LEMMA FieldsOfPositionsAck ==
  ASSUME ReportsInv, FieldsInv, NEW listed \in BOOLEAN, GetPositionsAck(listed)
  PROVE  FieldsInv'
<1>1. asked' = asked /\ order' = order /\ told' = told /\ Answered("positions")
  BY DEF GetPositionsAck, Commit, exchange
<1>2. Image.filled \in 0..Size /\ Image.filled <= order.filled
  BY <1>1, ImageOfAnswer, KindsOf DEF ImageTrue
<1>3. CASE listed
  <2>1. view'.positions = Quantities(Position(Image.filled))
    BY <1>3 DEF GetPositionsAck, ReportsInv, TypeOK
  <2> QED BY <1>1, <1>2, <2>1, FieldsOfStep
<1>4. CASE ~listed
  <2>1. view' = view
    BY <1>4 DEF GetPositionsAck
  <2> QED BY <1>1, <2>1, FieldsUnchanged
<1> QED BY <1>3, <1>4

LEMMA FieldsOfOrderChange ==
  ASSUME ReportsInv, FieldsInv, OrderChange
  PROVE  FieldsInv'
<1>1. asked' = asked /\ order' = order /\ view' = view
  BY DEF OrderChange, Quiet
<1>2. Known
  <2>1. Receive("open_orders") /\ Quiet /\ "open_orders" \in Topics
    BY DEF OrderChange, Topics
  <2>2. Head(wire) \in Elems(wire) /\ Head(wire).topic = "open_orders"
    BY <2>1, Received
  <2> QED BY <2>2 DEF ReportsInv, WireOK, EventOK
<1>3. told' = told \/ told'.fields = Fields(Item, "UNDEFINED")
  BY DEF OrderChange, Update
<1> QED BY <1>1, <1>2, <1>3, FieldsOfStep

LEMMA FieldsOfItemUpdate ==
  ASSUME ReportsInv, FieldsInv, asked' = asked, order' = order, view' = view,
         NEW o \in Orders, ImageTrue(o), o.status \in {"taking", "resting", "done"},
         ItemUpdate(o)
  PROVE  FieldsInv'
<1>1. Known
  BY DEF ImageTrue, Known
<1>2. told' = told \/ told'.fields = Fields(Item, MapTimeInForce[Item.tif])
  BY DEF ItemUpdate, Update
<1> QED BY <1>1, <1>2, FieldsOfStep

LEMMA FieldsOfOrders ==
  ASSUME ReportsInv, FieldsInv, GetOrdersAck \/ GetOrderAck
  PROVE  FieldsInv'
<1>1. asked' = asked /\ order' = order /\ view' = view
  BY DEF GetOrdersAck, GetOrderAck, Commit, exchange
<1>2. Image \in Orders /\ ImageTrue(Image)
  BY ImageOfAnswer, KindsOf DEF GetOrdersAck, GetOrderAck
<1>3. CASE told'.fields = told.fields
  BY <1>1, <1>3, FieldsOfStep
<1>4. CASE told'.fields # told.fields
  <2>1. told \in Reports
    BY DEF ReportsInv, TypeOK
  <2>2. ItemUpdate(Image) /\ Image.status \in {"taking", "resting", "done"}
    <3>1. CASE GetOrdersAck
      BY <1>4, <3>1 DEF GetOrdersAck
    <3>2. CASE GetOrderAck
      <4>1. Image.status # "refused"
        BY <1>4, <2>1, <3>2 DEF GetOrderAck, Update, Reports
      <4>2. Image.status # "none"
        BY <3>2 DEF ReportsInv, ImageOK, Image, GetOrderAck, Answered
      <4> QED BY <1>2, <3>2, <4>1, <4>2 DEF GetOrderAck, Orders
    <3> QED BY <3>1, <3>2
  <2> QED BY <1>1, <1>2, <2>2, FieldsOfItemUpdate
<1> QED BY <1>3, <1>4

LEMMA FieldsOfNext == ReportsInv /\ ViewInv /\ FieldsInv /\ [Next]_vars => FieldsInv'
<1> SUFFICES ASSUME ReportsInv, ViewInv, FieldsInv, [Next]_vars PROVE FieldsInv'
  OBVIOUS
<1>1. CASE ExchangeNext
  <2>1. CASE Subscribe \/ Serve
    BY <2>1, FieldsUnchanged DEF Subscribe, Serve, exchange, server
  <2> QED BY <1>1, <2>1, FieldsOfExchange DEF ExchangeNext, Trading
<1>2. CASE AnswerNext
  <2>1. CASE GetFillsAck \/ Fails
    BY <2>1, FieldsUnchanged DEF GetFillsAck, Fails, Commit, exchange, server
  <2> QED BY <1>2, <2>1, FieldsOfWallet, FieldsOfPositionsAck, FieldsOfOrders DEF AnswerNext
<1>3. CASE DropCopyNext
  <2>1. CASE DropCopyWelcome \/ DropCopyAck \/ DropCopyDisconnected
             \/ (\E stale \in BOOLEAN : Timer(stale))
    BY <2>1, FieldsUnchanged
       DEF DropCopyWelcome, DropCopyAck, DropCopyDisconnected, Timer, exchange, server
  <2> QED BY <1>3, <2>1, FieldsOfWallet, FieldsOfPosition, FieldsOfOrderChange
          DEF DropCopyNext
<1>4. CASE UNCHANGED vars
  BY <1>4, FieldsUnchanged DEF vars, exchange, server
<1> QED BY <1>1, <1>2, <1>3, <1>4 DEF Next

LEMMA FieldsOfInit == Init => FieldsInv
  BY DEF Init, FieldsInv, ToldAs, MakersOnly, ViewKnown

\* The invariant of the proof: the server has no fields or those of this order, and
\* every position it was told is one the order went through.
THEOREM FieldsInvariant == Spec => []FieldsInv
<1>1. Init => FieldsInv
  BY FieldsOfInit
<1>2. ReportsInv /\ ViewInv /\ FieldsInv /\ [Next]_vars => FieldsInv'
  BY FieldsOfNext
<1> QED BY <1>1, <1>2, InvariantHolds, ViewInvariant, PTL DEF Spec

\* What an accepted order was asked to be is what its item is decoded to.
LEMMA DecodedFields ==
  ASSUME TypeOK, Acceptable, NEW tif \in {"UNDEFINED", MapTimeInForce[Item.tif]}
  PROVE  LET f == Fields(Item, tif)
         IN  /\ f.side = request.side /\ f.type = request.type
             /\ f.margin = IF Margin(request) = "CROSS" THEN "CROSS" ELSE "ISOLATED"
             /\ f.tif \in {"UNDEFINED", IF request.type = "LIMIT" THEN request.tif ELSE "GTC"}
             /\ f.effect = "OPEN" => Grows
             /\ f.effect = "CLOSE" => Reduces
<1>1. /\ request \in [side : Sides, type : OrderTypes, margin : MarginModes,
                      tif : TimesInForce, instructions : SUBSET Instructions]
      /\ account \in [start : Int, side : PositionSides]
  BY CasesAssumption DEF TypeOK
<1>2. MapSide[Item.side] = request.side
  BY <1>1 DEF MapSide, Item, Wired, AddOrder, RawSide, Sides
<1>3. MapOrderType[Item.type] = request.type
  BY <1>1 DEF MapOrderType, Item, Wired, AddOrder, RawOrderType, OrderTypes
<1>4. MapMarginMode[Item.margin] = IF Margin(request) = "CROSS" THEN "CROSS" ELSE "ISOLATED"
  <2>1. Item.margin = RawMarginMode[Margin(request)]
    BY DEF Item, Wired, AddOrder
  <2>2. Margin(request) \in MarginModes
    BY <1>1, FlagsAssumption DEF Margin
  <2> QED BY <2>1, <2>2 DEF MapMarginMode, RawMarginMode, MarginModes
<1>5. request.type = "LIMIT" => MapTimeInForce[Item.tif] = request.tif
  <2>1. SUFFICES ASSUME request.type = "LIMIT" PROVE MapTimeInForce[Item.tif] = request.tif
    OBVIOUS
  <2>2. Wired.tif = RawTimeInForce[request.tif] /\ Wired.tif # "undefined"
    BY <2>1 DEF Wired, AddOrder, Acceptable
  <2>3. request.tif \in {"GTC", "IOC", "FOK"} /\ Wired.tif = request.tif
    BY <1>1, <2>2 DEF RawTimeInForce
  <2>4. Item.tif = request.tif
    BY <2>3 DEF Item
  <2> QED BY <2>3, <2>4 DEF MapTimeInForce
<1>10. request.type # "LIMIT" => MapTimeInForce[Item.tif] = "GTC"
  BY DEF Item, Wired, AddOrder, MapTimeInForce
<1>6. /\ account.side \in PositionSides /\ account.start \in Int
      /\ Item.side = Wired.side /\ Item.positionSide = account.side
      /\ Wired.side \in {"buy", "sell"}
  BY <1>1, WiredValues DEF Item
<1>7. \A n \in 1..Size : n \in 0..Size /\ n - 1 \in 0..Size
  BY SizeAssumption
<1>8. MapPositionEffect(Item.positionSide, Item.side) = "OPEN" => Grows
  <2>1. CASE account.side = "LONG"
    <3>1. \A n \in 0..Size : Position(n) >= 0
      BY <2>1 DEF Acceptable
    <3>2. CASE Wired.side = "buy"
      <4>1. \A n \in 0..Size : Position(n) = account.start + n
        BY <3>2 DEF Position, Signed
      <4> QED BY <1>6, <1>7, <3>1, <4>1 DEF Grows, Magnitude
    <3>3. CASE Wired.side = "sell"
      BY <1>6, <2>1, <3>3 DEF MapPositionEffect
    <3> QED BY <1>6, <3>2, <3>3
  <2>2. CASE account.side = "SHORT"
    BY <1>6, <1>7, <2>2 DEF MapPositionEffect, Grows, Acceptable, Position, Signed, Magnitude
  <2>3. CASE account.side = "BOTH"
    BY <1>6, <2>3 DEF MapPositionEffect
  <2> QED BY <1>6, <2>1, <2>2, <2>3 DEF PositionSides
<1>9. MapPositionEffect(Item.positionSide, Item.side) = "CLOSE" => Reduces
  <2>1. CASE account.side = "LONG"
    BY <1>6, <1>7, <2>1 DEF MapPositionEffect, Reduces, Acceptable, Position, Signed, Magnitude
  <2>2. CASE account.side = "SHORT"
    BY <1>6, <1>7, <2>2 DEF MapPositionEffect, Reduces, Acceptable, Position, Signed, Magnitude
  <2>3. CASE account.side = "BOTH"
    BY <1>6, <2>3 DEF MapPositionEffect
  <2> QED BY <1>6, <2>1, <2>2, <2>3 DEF PositionSides
<1> QED BY <1>2, <1>3, <1>4, <1>5, <1>8, <1>9, <1>10 DEF Fields

\* A position that may only shrink is never larger than it was.
LEMMA Shrinks ==
  ASSUME TypeOK, Reduces, NEW n \in 0..Size
  PROVE  Magnitude(Position(n)) <= Magnitude(account.start)
<1>1. account.start \in Int /\ Wired.side \in {"buy", "sell"}
  BY WiredValues
<1>2. CASE n = 0
  BY <1>1, <1>2 DEF Position, Signed, Magnitude
<1>3. CASE n # 0
  <2>1. n \in 1..Size
    BY <1>3
  <2>2. Magnitude(Position(n)) < Magnitude(Position(n - 1))
    BY <2>1 DEF Reduces
  <2> QED BY <1>1, <2>1, <2>2 DEF Position, Signed, Magnitude
<1> QED BY <1>2, <1>3

LEMMA FieldsInvAgree == ReportsInv /\ FillsInv /\ FieldsInv => FieldsAgree
<1> SUFFICES ASSUME ReportsInv, FillsInv, FieldsInv PROVE FieldsAgree
  OBVIOUS
<1>1. ASSUME told.fields # NoFields
      PROVE  /\ told.fields.side = request.side /\ told.fields.type = request.type
             /\ told.fields.margin = IF Margin(request) = "CROSS" THEN "CROSS" ELSE "ISOLATED"
             /\ told.fields.tif \in
                  {"UNDEFINED", IF request.type = "LIMIT" THEN request.tif ELSE "GTC"}
             /\ told.fields.effect = "OPEN" => Grows
             /\ told.fields.effect = "CLOSE" => Reduces
  <2>1. PICK tif \in {"UNDEFINED", MapTimeInForce[Item.tif]} : told.fields = Fields(Item, tif)
    BY <1>1 DEF FieldsInv, ToldAs
  <2>2. Acceptable
    BY <1>1 DEF FieldsInv, ToldAs, ReportsInv, OrderOK
  <2> QED BY <2>1, <2>2, DecodedFields DEF ReportsInv
<1>2. ASSUME "PARTICIPATE_DO_NOT_INITIATE" \in request.instructions,
             NEW t \in Trades, fills[t] > 0
      PROVE  MapLiquidity[t.liquidity] = "MAKER"
  <2>1. t \in order.trades
    BY <1>2 DEF FillsInv, FillsMade
  <2>2. Wired.postOnly
    BY <1>2 DEF Wired, AddOrder
  <2>3. t.liquidity = "maker"
    BY <2>1, <2>2 DEF FieldsInv, MakersOnly
  <2> QED BY <2>3 DEF MapLiquidity
<1>3. ASSUME "DO_NOT_INCREASE" \in request.instructions
      PROVE  view.positions.long + view.positions.short <= Magnitude(account.start)
  <2>1. account.start \in Int /\ Wired.reduceOnly
    BY <1>3, WiredValues DEF ReportsInv, Wired, AddOrder
  <2>2. CASE view.positions = [long |-> 0, short |-> 0]
    BY <2>1, <2>2 DEF Magnitude
  <2>3. ASSUME NEW n \in 0..Size, n <= order.filled,
               view.positions = Quantities(Position(n))
        PROVE  view.positions.long + view.positions.short <= Magnitude(account.start)
    <3>1. Position(n) \in Int /\ view.positions.long + view.positions.short = Magnitude(Position(n))
      <4>1. Position(n) \in Int
        BY PositionInt DEF ReportsInv
      <4> QED BY <2>3, <4>1 DEF Quantities, Magnitude
    <3>2. Magnitude(Position(n)) <= Magnitude(account.start)
      <4>1. CASE Known
        BY <2>1, <4>1, Shrinks DEF ReportsInv, OrderOK, Acceptable
      <4>2. CASE ~Known
        <5>1. n = 0
          BY <2>3, <4>2 DEF ReportsInv, OrderOK
        <5>2. account.start \in Int /\ Wired.side \in {"buy", "sell"}
          BY WiredValues DEF ReportsInv
        <5> QED BY <5>1, <5>2 DEF Position, Signed, Magnitude
      <4> QED BY <4>1, <4>2
    <3> QED BY <3>1, <3>2
  <2> QED BY <2>2, <2>3 DEF FieldsInv, ViewKnown
<1> QED BY <1>1, <1>2, <1>3 DEF FieldsAgree

\* For every request, account and size of the order: side, type, position effect
\* and instructions are told as they were asked for, the margin mode and the time
\* in force with the exceptions that FieldsAgree names.
THEOREM FieldsCorrect == Spec => []FieldsAgree
<1>1. ReportsInv /\ FillsInv /\ FieldsInv => FieldsAgree
  BY FieldsInvAgree
<1> QED BY <1>1, InvariantHolds, FillsInvariant, FieldsInvariant, PTL
=============================================================================
