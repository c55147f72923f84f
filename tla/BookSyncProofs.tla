--------------------------- MODULE BookSyncProofs ---------------------------
(***************************************************************************)
(* Proofs about BookSync: whatever is lost, skipped or late, a published   *)
(* book is the exchange's and never goes back, and a sequencer that waits  *)
(* for a snapshot has a request for it on its way.                         *)
(***************************************************************************)
EXTENDS BookSync, TLAPS

\* What a symbol's sequencer knows: the changes it keeps have been delivered and
\* end no earlier than what is published, which is what lets the book they make
\* replace it, and a book that is live is published.
Knows(s) ==
  LET q == sequencer[s]
  IN  /\ sent[s] <= book[s] /\ published[s].number <= sent[s]
      /\ q.mode = "empty" => q.first = 0
      /\ q.mode \in {"waiting", "live"} => q.first # 0
      /\ q.first # 0 => /\ q.first <= q.last /\ q.last <= sent[s]
                        /\ published[s].number <= q.last
      /\ q.mode = "live" => published[s].number = q.last
      /\ published[s].changes = 1..published[s].number

Known == \A s \in Symbols : Knows(s)

Inv == TypeOK /\ Known /\ SnapshotRequested

\* A call is outstanding only on Rest's connection: the last part of TypeOK.
OnConnection == \A s \in Symbols : asked[s] > 0 \/ answers[s] # <<>> => ready

Records == [mode : Modes, first : Nat, last : Nat, image : Nat, retries : Nat]
Books == [number : Nat, changes : SUBSET Nat]

LEMMA ElemsAppend ==
  ASSUME NEW q \in Seq(Symbols), NEW s \in Symbols
  PROVE  /\ Append(q, s) \in Seq(Symbols)
         /\ Elems(Append(q, s)) = Elems(q) \cup {s}
<1>1. /\ Append(q, s) \in Seq(Symbols) /\ Len(Append(q, s)) = Len(q) + 1
      /\ Append(q, s)[Len(q) + 1] = s
      /\ \A k \in 1..Len(q) : Append(q, s)[k] = q[k]
  OBVIOUS
<1>2. 1..(Len(q) + 1) = 1..Len(q) \cup {Len(q) + 1}
  <2>1. Len(q) \in Nat
    OBVIOUS
  <2> QED BY <2>1
<1> QED BY <1>1, <1>2, Zenon DEF Elems

LEMMA ElemsTail ==
  ASSUME NEW q \in Seq(Symbols), q # <<>>
  PROVE  /\ Head(q) \in Symbols /\ Tail(q) \in Seq(Symbols)
         /\ \A s \in Elems(q) : s = Head(q) \/ s \in Elems(Tail(q))
<1>1. /\ Head(q) = q[1] /\ Len(q) \in Nat \ {0} /\ Tail(q) \in Seq(Symbols)
      /\ Len(Tail(q)) = Len(q) - 1
      /\ \A k \in 1..(Len(q) - 1) : Tail(q)[k] = q[k + 1]
  OBVIOUS
<1>2. ASSUME NEW k \in 1..Len(q), k # 1
      PROVE  k - 1 \in 1..Len(Tail(q)) /\ Tail(q)[k - 1] = q[k]
  BY <1>1, <1>2
<1>3. Head(q) \in Symbols
  BY <1>1
<1>4. ASSUME NEW k \in 1..Len(q)
      PROVE  q[k] = Head(q) \/ q[k] \in Elems(Tail(q))
  <2>1. CASE k = 1
    BY <2>1, <1>1
  <2>2. CASE k # 1
    BY <2>2, <1>2 DEF Elems
  <2> QED BY <2>1, <2>2
<1> QED BY <1>1, <1>3, <1>4 DEF Elems

LEMMA SpendKeeps ==
  ASSUME NEW f \in FaultKinds, Spend(f), TypeOK
  PROVE  budget' \in [FaultKinds -> Nat]
  BY DEF Spend, TypeOK

\* What a call of the sequencer does to its symbol s: sends says what has been
\* delivered when it is done.
Effect(s, sends) ==
  /\ \E q \in Records : sequencer' = [sequencer EXCEPT ![s] = q]
  /\ \E b \in Books : published' = [published EXCEPT ![s] = b]
  /\ queue' \in Seq(Symbols) /\ Elems(queue) \subseteq Elems(queue')
  /\ lost' \subseteq lost /\ lost \subseteq lost' \cup Elems(queue') /\ crash' \in BOOLEAN
  /\ crash => crash'
  /\ LET q == sequencer'[s]
     IN  /\ published'[s].number <= sends
         /\ q.mode = "empty" => q.first = 0
         /\ q.mode \in {"waiting", "live"} => q.first # 0
         /\ q.first # 0 => /\ q.first <= q.last /\ q.last <= sends
                           /\ published'[s].number <= q.last
         /\ q.mode = "live" => published'[s].number = q.last
         /\ published'[s].changes = 1..published'[s].number

\* The book published of s is not taken back.
Forward(s) == published[s].number <= published'[s].number

LEMMA SameForward ==
  ASSUME TypeOK, NEW s \in Symbols, UNCHANGED published PROVE Forward(s)
<1>1. published[s].number \in Nat
  BY DEF TypeOK
<1> QED BY <1>1 DEF Forward

\* A request for s is made, unless the process ends.
Asks(s) == crash' \/ s \in Elems(queue')

\* The sequencer of s is in this mode and keeps these changes.
MoveTo(s, mode, first, last) ==
  /\ \E q \in Records : sequencer' = [sequencer EXCEPT ![s] = q]
  /\ sequencer'[s].mode = mode
  /\ sequencer'[s].first = first /\ sequencer'[s].last = last

LEMMA MoveEffect ==
  ASSUME TypeOK, NEW s \in Symbols, NEW mode \in Modes, NEW first \in Nat,
         NEW last \in Nat, NEW image \in Nat, NEW retries \in Nat,
         Move(s, mode, first, last, image, retries)
  PROVE  MoveTo(s, mode, first, last)
<1> DEFINE r == [mode |-> mode, first |-> first, last |-> last, image |-> image,
                 retries |-> retries]
<1>1. r \in Records
  BY DEF Records
<1>2. sequencer' = [sequencer EXCEPT ![s] = r] /\ sequencer'[s] = r
  BY DEF Move, TypeOK
<1>3. r.mode = mode /\ r.first = first /\ r.last = last
  OBVIOUS
<1> HIDE DEF r
<1> QED BY <1>1, <1>2, <1>3 DEF MoveTo

LEMMA EnqueueAsks ==
  ASSUME TypeOK, NEW s \in Symbols, Enqueue(s)
  PROVE  /\ queue' \in Seq(Symbols) /\ Elems(queue') = Elems(queue) \cup {s}
         /\ lost' \subseteq lost /\ lost \subseteq lost' \cup Elems(queue')
<1>1. queue \in Seq(Symbols) /\ queue' = Append(queue, s) /\ lost' = lost \ {s}
  BY DEF TypeOK, Enqueue
<1>2. queue' \in Seq(Symbols) /\ Elems(queue') = Elems(queue) \cup {s}
  BY <1>1, ElemsAppend
<1> QED BY <1>1, <1>2

LEMMA RequestAsks ==
  ASSUME TypeOK, NEW s \in Symbols, NEW retries \in Nat, RequestSnapshot(s, retries)
  PROVE  /\ queue' \in Seq(Symbols) /\ Elems(queue) \subseteq Elems(queue')
         /\ lost' \subseteq lost /\ lost \subseteq lost' \cup Elems(queue')
         /\ crash' \in BOOLEAN /\ (crash => crash') /\ Asks(s)
<1>1. CASE crash' = TRUE /\ UNCHANGED <<queue, lost>>
  BY <1>1 DEF TypeOK, Asks
<1>2. CASE Enqueue(s) /\ UNCHANGED crash
  BY <1>2, EnqueueAsks DEF TypeOK, Asks
<1> QED BY <1>1, <1>2 DEF RequestSnapshot

\* Putting changes and snapshot together publishes every change up to the last.
LEMMA JoinEffect ==
  ASSUME TypeOK, NEW s \in Symbols, NEW image \in Nat, NEW first \in Nat \ {0},
         NEW last \in Nat, NEW sends \in Nat, first <= last, last <= sends,
         published[s].number <= sends, published[s].number <= last,
         published[s].changes = 1..published[s].number,
         Join(s, image, first, last)
  PROVE  /\ Effect(s, sends) /\ Forward(s)
         /\ sequencer'[s].mode = "waiting" => Asks(s)
<1> DEFINE retries == sequencer[s].retries
<1>0. /\ sequencer \in [Symbols -> Records] /\ published \in [Symbols -> Books]
      /\ queue \in Seq(Symbols) /\ crash \in BOOLEAN /\ lost \subseteq Symbols
  BY DEF TypeOK, Records, Books
<1>a. retries \in Nat
  BY <1>0 DEF Records
<1>b. published[s].number \in Nat
  BY <1>0 DEF Books
<1> HIDE DEF retries
<1>1. CASE /\ first > image + 1
           /\ Move(s, "waiting", first, last, 0, retries + 1)
           /\ RequestSnapshot(s, retries + 1)
           /\ UNCHANGED published
  <2>1. MoveTo(s, "waiting", first, last)
    <3>1. retries + 1 \in Nat /\ 0 \in Nat /\ "waiting" \in Modes
      BY <1>a DEF Modes
    <3> QED BY <1>1, <3>1, MoveEffect
  <2>2. /\ queue' \in Seq(Symbols) /\ Elems(queue) \subseteq Elems(queue')
        /\ lost' \subseteq lost /\ lost \subseteq lost' \cup Elems(queue')
        /\ crash' \in BOOLEAN /\ (crash => crash') /\ Asks(s)
    <3>1. retries + 1 \in Nat
      BY <1>a
    <3> QED BY <1>1, <3>1, RequestAsks
  <2>3. \E b \in Books : published' = [published EXCEPT ![s] = b]
    BY <1>1, <1>0
  <2>4. Effect(s, sends)
    BY <1>1, <1>b, <2>1, <2>2, <2>3 DEF Effect, MoveTo
  <2> QED BY <1>1, <2>2, <2>4, SameForward
<1>2. CASE /\ first <= image + 1 /\ image <= last
           /\ Move(s, "live", first, last, 0, 0)
           /\ PublishSnapshot(s, image, first, last)
           /\ UNCHANGED <<queue, lost, crash>>
  <2> DEFINE b == [number |-> last, changes |-> 1..image \cup first..last]
  <2>1. MoveTo(s, "live", first, last)
    BY <1>2, MoveEffect DEF Modes
  <2>2. 1..image \cup first..last = 1..last
    BY <1>2
  <2>3. b \in Books /\ b.number = last /\ b.changes = 1..last
    BY <2>2 DEF Books
  <2>4. published' = [published EXCEPT ![s] = b] /\ published'[s] = b
    BY <1>2, <1>0 DEF PublishSnapshot
  <2> HIDE DEF b
  <2>5. Effect(s, sends) /\ sequencer'[s].mode # "waiting"
    <3>1. /\ queue' = queue /\ lost' = lost /\ crash' = crash
          /\ published'[s].number = last /\ last <= last
          /\ published'[s].changes = 1..last
      BY <1>2, <2>3, <2>4
    <3>2. \E d \in Books : published' = [published EXCEPT ![s] = d]
      BY <2>3, <2>4
    <3>3. sequencer'[s].mode = "live"
      BY <2>1 DEF MoveTo
    <3> QED BY <1>0, <2>1, <3>1, <3>2, <3>3 DEF Effect, MoveTo
  <2>6. Forward(s)
    BY <1>b, <2>3, <2>4 DEF Forward
  <2> QED BY <2>5, <2>6
<1>3. CASE /\ first <= image + 1 /\ image > last
           /\ Move(s, "holding", first, last, image, retries)
           /\ UNCHANGED <<queue, lost, crash, published>>
  <2>1. MoveTo(s, "holding", first, last)
    BY <1>3, <1>a, MoveEffect DEF Modes
  <2>2. \E b \in Books : published' = [published EXCEPT ![s] = b]
    BY <1>3, <1>0
  <2>3. Effect(s, sends) /\ sequencer'[s].mode # "waiting"
    BY <1>0, <1>3, <1>b, <2>1, <2>2 DEF Effect, MoveTo
  <2> QED BY <1>3, <2>3, SameForward
<1> QED BY <1>1, <1>2, <1>3 DEF Join, retries

\* Starting over keeps what is published and queues a request.
LEMMA ResubscribeEffect ==
  ASSUME TypeOK, NEW s \in Symbols, NEW sends \in Nat, published[s].number <= sends,
         published[s].changes = 1..published[s].number, Resubscribe(s)
  PROVE  Effect(s, sends) /\ Forward(s) /\ sequencer'[s].mode # "waiting"
<1>0. /\ sequencer \in [Symbols -> Records] /\ published \in [Symbols -> Books]
      /\ queue \in Seq(Symbols) /\ crash \in BOOLEAN /\ lost \subseteq Symbols
  BY DEF TypeOK, Records, Books
<1>1. /\ Cleared \in Records /\ Cleared.mode = "empty" /\ Cleared.first = 0
  BY DEF Cleared, Records, Modes
<1>2. sequencer' = [sequencer EXCEPT ![s] = Cleared] /\ sequencer'[s] = Cleared
  BY <1>0 DEF Resubscribe
<1>3. /\ queue' \in Seq(Symbols) /\ Elems(queue') = Elems(queue) \cup {s}
      /\ lost' \subseteq lost /\ lost \subseteq lost' \cup Elems(queue')
  BY EnqueueAsks DEF Resubscribe
<1>4. \E b \in Books : published' = [published EXCEPT ![s] = b]
  BY <1>0 DEF Resubscribe
<1>5. Effect(s, sends)
  BY <1>0, <1>1, <1>2, <1>3, <1>4 DEF Effect, Resubscribe
<1> QED BY <1>1, <1>2, <1>5, SameForward DEF Resubscribe

\* A change is kept or published; the sequencer comes to wait for a snapshot only
\* if it asks for one.
LEMMA UpdateEffect ==
  ASSUME TypeOK, NEW s \in Symbols, Knows(s), Update(s, sent[s] + 1)
  PROVE  /\ Effect(s, sent[s] + 1) /\ Forward(s)
         /\ sequencer'[s].mode = "waiting" =>
              Asks(s) \/ (sequencer[s].mode = "waiting" /\ UNCHANGED <<queue, lost>>)
<1> DEFINE n == sent[s] + 1
           q == sequencer[s]
<1>0. /\ sequencer \in [Symbols -> Records] /\ published \in [Symbols -> Books]
      /\ queue \in Seq(Symbols) /\ crash \in BOOLEAN /\ lost \subseteq Symbols
  BY DEF TypeOK, Records, Books
<1>1. /\ sent[s] \in Nat /\ n \in Nat /\ n \in Nat \ {0} /\ n <= n
      /\ q.first \in Nat /\ q.last \in Nat /\ q.image \in Nat /\ q.retries \in Nat
      /\ 0 \in Nat
  BY <1>0 DEF TypeOK, Records
<1>2. /\ published[s].number <= n /\ published[s].number \in Nat
      /\ published[s].changes = 1..published[s].number
      /\ published[s].number <= sent[s]
  BY <1>0, <1>1 DEF Knows, Books
<1>3. /\ q.mode \in {"waiting", "live"} => q.first # 0
      /\ q.first # 0 => q.first <= n /\ q.first \in Nat \ {0}
      /\ q.first # 0 => published[s].number <= q.last /\ q.last <= sent[s]
      /\ q.mode = "live" => published[s].number = q.last
  BY <1>1 DEF Knows
<1>4. {"empty", "waiting", "holding", "live"} \subseteq Modes
  BY DEF Modes
<1>5. UNCHANGED published => \E b \in Books : published' = [published EXCEPT ![s] = b]
  BY <1>0
<1> HIDE DEF n, q
<1>6. CASE /\ Move(s, "waiting", n, n, 0, 0)
           /\ RequestSnapshot(s, 0) /\ UNCHANGED published
  <2>1. MoveTo(s, "waiting", n, n)
    BY <1>1, <1>4, <1>6, MoveEffect
  <2>2. /\ queue' \in Seq(Symbols) /\ Elems(queue) \subseteq Elems(queue')
        /\ lost' \subseteq lost /\ lost \subseteq lost' \cup Elems(queue')
        /\ crash' \in BOOLEAN /\ (crash => crash') /\ Asks(s)
    BY <1>1, <1>6, RequestAsks
  <2>3. Effect(s, n)
    BY <1>1, <1>2, <1>5, <1>6, <2>1, <2>2 DEF Effect, MoveTo
  <2> QED BY <1>6, <2>2, <2>3, SameForward DEF n
<1>7. CASE /\ q.mode = "waiting" /\ q.last = n - 1
           /\ Move(s, "waiting", q.first, n, 0, q.retries)
           /\ UNCHANGED <<queue, lost, crash, published>>
  <2>1. MoveTo(s, "waiting", q.first, n)
    BY <1>1, <1>4, <1>7, MoveEffect
  <2>2. Effect(s, n)
    BY <1>0, <1>1, <1>2, <1>3, <1>5, <1>7, <2>1 DEF Effect, MoveTo
  <2> QED BY <1>7, <2>2, SameForward DEF n, q
<1>8. CASE Join(s, q.image, n, n)
  <2>1. Effect(s, n) /\ Forward(s) /\ (sequencer'[s].mode = "waiting" => Asks(s))
    BY <1>1, <1>2, <1>8, JoinEffect
  <2> QED BY <2>1 DEF n
<1>9. CASE q.first # 0 /\ Join(s, q.image, q.first, n)
  <2>1. Effect(s, n) /\ Forward(s) /\ (sequencer'[s].mode = "waiting" => Asks(s))
    BY <1>1, <1>2, <1>3, <1>9, JoinEffect
  <2> QED BY <2>1 DEF n
<1>10. CASE /\ q.mode = "live" /\ q.last = n - 1
            /\ Move(s, "live", q.first, n, 0, 0)
            /\ PublishUpdate(s, n) /\ UNCHANGED <<queue, lost, crash>>
  <2> DEFINE b == [number |-> n, changes |-> published[s].changes \cup {n}]
  <2>1. MoveTo(s, "live", q.first, n)
    BY <1>1, <1>4, <1>10, MoveEffect
  <2>2. published[s].changes \cup {n} = 1..n
    BY <1>1, <1>2, <1>3, <1>10
  <2>3. b \in Books /\ b.number = n /\ b.changes = 1..n
    BY <1>1, <2>2 DEF Books
  <2>4. published' = [published EXCEPT ![s] = b] /\ published'[s] = b
    BY <1>10, <1>0 DEF PublishUpdate
  <2> HIDE DEF b
  <2>5. Effect(s, n)
    BY <1>0, <1>1, <1>3, <1>10, <2>1, <2>3, <2>4 DEF Effect, MoveTo
  <2>6. sequencer'[s].mode # "waiting"
    BY <2>1 DEF MoveTo
  <2>7. Forward(s)
    BY <1>2, <2>3, <2>4 DEF Forward
  <2> QED BY <2>5, <2>6, <2>7 DEF n
<1>11. CASE Resubscribe(s)
  BY <1>1, <1>2, <1>11, ResubscribeEffect DEF n
<1> QED BY <1>6, <1>7, <1>8, <1>9, <1>10, <1>11 DEF Update, n, q

\* A snapshot is held, joined or ignored.
LEMMA ImageEffect ==
  ASSUME TypeOK, NEW s \in Symbols, Knows(s), NEW image \in Nat, Image(s, image)
  PROVE  /\ Effect(s, sent[s]) /\ Forward(s)
         /\ sequencer'[s].mode = "waiting" => Asks(s)
<1> DEFINE q == sequencer[s]
<1>0. /\ sequencer \in [Symbols -> Records] /\ published \in [Symbols -> Books]
      /\ queue \in Seq(Symbols) /\ crash \in BOOLEAN /\ lost \subseteq Symbols
      /\ sent[s] \in Nat /\ published[s].number \in Nat
  BY DEF TypeOK, Records, Books
<1>1. q \in Records /\ q.first \in Nat /\ q.last \in Nat /\ 0 \in Nat
  BY <1>0 DEF Records
<1>2. /\ published[s].number <= sent[s]
      /\ published[s].changes = 1..published[s].number
      /\ q.mode = "empty" => q.first = 0
      /\ q.mode \in {"waiting", "live"} => q.first # 0
      /\ q.first # 0 => /\ q.first <= q.last /\ q.last <= sent[s]
                        /\ published[s].number <= q.last
      /\ q.mode = "live" => published[s].number = q.last
  BY DEF Knows
<1>3. UNCHANGED published => \E b \in Books : published' = [published EXCEPT ![s] = b]
  BY <1>0
<1>4. UNCHANGED sequencer => \E r \in Records : sequencer' = [sequencer EXCEPT ![s] = r]
  BY <1>0
<1> HIDE DEF q
<1>5. CASE /\ Move(s, "holding", 0, 0, image, 0)
           /\ UNCHANGED <<queue, lost, crash, published>>
  <2>1. "holding" \in Modes
    BY DEF Modes
  <2>2. MoveTo(s, "holding", 0, 0)
    BY <1>1, <1>5, <2>1, MoveEffect
  <2>3. Effect(s, sent[s]) /\ sequencer'[s].mode # "waiting"
    BY <1>0, <1>2, <1>3, <1>5, <2>2 DEF Effect, MoveTo
  <2> QED BY <1>5, <2>3, SameForward
<1>6. CASE q.first # 0 /\ Join(s, image, q.first, q.last)
  <2>1. q.first \in Nat \ {0}
    BY <1>1, <1>6
  <2> QED BY <1>0, <1>1, <1>2, <1>6, <2>1, JoinEffect
<1>7. CASE q.mode = "live" /\ UNCHANGED <<sequencer, queue, lost, crash, published>>
  <2>1. Effect(s, sent[s]) /\ sequencer'[s].mode # "waiting"
    BY <1>0, <1>2, <1>3, <1>4, <1>7 DEF Effect, q
  <2> QED BY <1>7, <2>1, SameForward
<1> QED BY <1>5, <1>6, <1>7 DEF Image, q

\* The part of SnapshotRequested for a symbol, kept while requests are.
RequestedFor(s) ==
  sequencer[s].mode = "waiting" => crash \/ s \in lost \/ Requested(s)

LEMMA RequestKept ==
  ASSUME NEW s \in Symbols, RequestedFor(s), crash => crash',
         sequencer[s].mode = "waiting" \/ sequencer'[s].mode # "waiting",
         lost \subseteq lost' \cup Elems(queue'),
         Elems(queue) \subseteq Elems(queue'),
         asked'[s] = asked[s], answers'[s] = answers[s]
  PROVE  RequestedFor(s)'
  BY DEF RequestedFor, Requested

\* A step of the sequencer of one symbol.
LEMMA EffectKeeps ==
  ASSUME Inv, NEW s \in Symbols, Effect(s, sent'[s]),
         UNCHANGED <<book, up, ready, asked>>, budget' \in [FaultKinds -> Nat],
         sent' \in [Symbols -> Nat], answers' \in [Symbols -> Seq(Nat)],
         sent'[s] <= book[s], answers'[s] # <<>> => answers[s] # <<>>,
         \A t \in Symbols \ {s} : sent'[t] = sent[t] /\ answers'[t] = answers[t],
         RequestedFor(s)'
  PROVE  Inv'
<1>0. /\ sequencer \in [Symbols -> Records] /\ published \in [Symbols -> Books]
      /\ lost \subseteq Symbols
  BY DEF Inv, TypeOK, Records, Books
<1>1. PICK q \in Records : sequencer' = [sequencer EXCEPT ![s] = q]
  BY DEF Effect
<1>2. PICK b \in Books : published' = [published EXCEPT ![s] = b]
  BY DEF Effect
<1>3. sequencer' \in [Symbols -> Records] /\ published' \in [Symbols -> Books]
  BY <1>0, <1>1, <1>2
<1>4. \A t \in Symbols \ {s} : sequencer'[t] = sequencer[t] /\ published'[t] = published[t]
  BY <1>0, <1>1, <1>2
<1>5. /\ queue' \in Seq(Symbols) /\ Elems(queue) \subseteq Elems(queue')
      /\ lost' \subseteq lost /\ lost \subseteq lost' \cup Elems(queue')
      /\ crash' \in BOOLEAN /\ (crash => crash')
  BY DEF Effect
<1>6. TypeOK'
  <2>1. OnConnection'
    BY DEF Inv, TypeOK, OnConnection
  <2> QED BY <1>0, <1>3, <1>5, <2>1 DEF Inv, TypeOK, Records, Books, OnConnection
<1>7. Knows(s)'
  BY DEF Effect, Knows
<1>8. ASSUME NEW t \in Symbols \ {s} PROVE Knows(t)'
  <2>1. Knows(t)
    BY DEF Inv, Known
  <2> QED BY <2>1, <1>4 DEF Knows
<1>9. Known'
  BY <1>7, <1>8 DEF Known
<1>10. ASSUME NEW t \in Symbols \ {s} PROVE RequestedFor(t)'
  <2>1. RequestedFor(t) /\ asked'[t] = asked[t] /\ answers'[t] = answers[t]
    BY DEF Inv, SnapshotRequested, RequestedFor
  <2> QED BY <2>1, <1>4, <1>5, RequestKept
<1>11. SnapshotRequested'
  BY <1>10 DEF SnapshotRequested, RequestedFor
<1> QED BY <1>6, <1>9, <1>11 DEF Inv

LEMMA Level2Inv == ASSUME Inv, NEW s \in Symbols, Level2(s) PROVE Inv'
<1>1. /\ TypeOK /\ Knows(s) /\ RequestedFor(s) /\ sent[s] < book[s]
      /\ sent \in [Symbols -> Nat] /\ book[s] \in Nat
      /\ answers \in [Symbols -> Seq(Nat)] /\ UNCHANGED answers
  BY DEF Inv, Known, SnapshotRequested, RequestedFor, TypeOK, Level2, restVars
<1>2. /\ sent' \in [Symbols -> Nat] /\ sent'[s] = sent[s] + 1
      /\ \A t \in Symbols \ {s} : sent'[t] = sent[t]
  BY <1>1 DEF Level2
<1>3. /\ UNCHANGED <<book, up, ready, asked, answers, budget>>
      /\ Update(s, sent[s] + 1)
  BY DEF Level2, restVars
<1>4. /\ Effect(s, sent[s] + 1)
      /\ sequencer'[s].mode = "waiting" =>
           Asks(s) \/ (sequencer[s].mode = "waiting" /\ UNCHANGED <<queue, lost>>)
  BY <1>1, <1>3, UpdateEffect
<1>5. crash => crash'
  BY <1>4 DEF Effect
<1>6. RequestedFor(s)'
  <2>1. CASE sequencer'[s].mode # "waiting"
    BY <2>1 DEF RequestedFor
  <2>2. CASE Asks(s)
    BY <2>2 DEF RequestedFor, Requested, Asks
  <2>3. CASE sequencer[s].mode = "waiting" /\ UNCHANGED <<queue, lost>>
    BY <2>3, <1>1, <1>3, <1>5 DEF RequestedFor, Requested
  <2> QED BY <1>4, <2>1, <2>2, <2>3
<1>7. Effect(s, sent'[s]) /\ sent'[s] <= book[s]
  BY <1>1, <1>2, <1>4
<1>8. budget' \in [FaultKinds -> Nat]
  BY <1>1, <1>3 DEF TypeOK
<1> QED BY <1>8, <1>1, <1>2, <1>3, <1>6, <1>7, EffectKeeps

LEMMA GetOrderBookAckInv == ASSUME Inv, NEW s \in Symbols, GetOrderBookAck(s) PROVE Inv'
<1>1. /\ TypeOK /\ Knows(s) /\ answers \in [Symbols -> Seq(Nat)]
      /\ answers[s] \in Seq(Nat) /\ answers[s] # <<>>
      /\ sent \in [Symbols -> Nat] /\ book[s] \in Nat
  BY DEF Inv, Known, TypeOK, GetOrderBookAck
<1>2. Head(answers[s]) \in Nat /\ Tail(answers[s]) \in Seq(Nat)
  BY <1>1
<1>3. /\ answers' = [answers EXCEPT ![s] = Tail(answers[s])]
      /\ UNCHANGED <<book, sent, up, ready, asked>>
      /\ \/ Image(s, Head(answers[s])) /\ UNCHANGED budget
         \/ Resubscribe(s) /\ Spend("bad")
  BY DEF GetOrderBookAck, exchangeVars
<1>4. answers' \in [Symbols -> Seq(Nat)] /\ \A t \in Symbols \ {s} : answers'[t] = answers[t]
  BY <1>1, <1>2, <1>3
<1>5. Effect(s, sent[s]) /\ (sequencer'[s].mode = "waiting" => Asks(s))
  <2>1. published[s].number <= sent[s] /\ published[s].changes = 1..published[s].number
    BY <1>1 DEF Knows
  <2>2. sent[s] \in Nat
    BY <1>1
  <2>3. CASE Image(s, Head(answers[s]))
    BY <1>1, <1>2, <2>3, ImageEffect
  <2>4. CASE Resubscribe(s)
    BY <1>1, <2>1, <2>2, <2>4, ResubscribeEffect
  <2> QED BY <1>3, <2>3, <2>4
<1>6. RequestedFor(s)'
  BY <1>5 DEF RequestedFor, Requested, Asks
<1>8. budget' \in [FaultKinds -> Nat]
  <2>1. CASE UNCHANGED budget
    BY <1>1, <2>1 DEF TypeOK
  <2>2. CASE Spend("bad")
    BY <1>1, <2>2, SpendKeeps DEF FaultKinds
  <2> QED BY <1>3, <2>1, <2>2
<1>7. Effect(s, sent'[s]) /\ sent'[s] <= book[s] /\ sent' \in [Symbols -> Nat]
  BY <1>1, <1>3, <1>5 DEF Knows
<1> QED BY <1>1, <1>3, <1>4, <1>6, <1>7, <1>8, EffectKeeps

LEMMA CheckRequestQueueInv == ASSUME Inv, CheckRequestQueue PROVE Inv'
<1>1. /\ queue \in Seq(Symbols) /\ queue # <<>> /\ asked \in [Symbols -> Nat]
      /\ queue' = Tail(queue) /\ asked' = [asked EXCEPT ![Head(queue)] = @ + 1]
      /\ UNCHANGED <<book, sent, up, ready, answers, sequencer, published, lost, crash,
                     budget>>
  BY DEF Inv, TypeOK, CheckRequestQueue, exchangeVars
<1>2. /\ Head(queue) \in Symbols /\ Tail(queue) \in Seq(Symbols)
      /\ \A s \in Elems(queue) : s = Head(queue) \/ s \in Elems(Tail(queue))
  BY <1>1, ElemsTail
<1>3. /\ asked' \in [Symbols -> Nat] /\ asked'[Head(queue)] > 0
      /\ \A s \in Symbols : asked[s] > 0 => asked'[s] > 0
  BY <1>1, <1>2
<1>4. TypeOK'
  <2>1. OnConnection'
    BY <1>1 DEF Inv, TypeOK, OnConnection, CheckRequestQueue
  <2> QED BY <1>1, <1>2, <1>3, <2>1 DEF Inv, TypeOK, OnConnection
<1>5. Known'
  BY <1>1 DEF Inv, Known, Knows
<1>6. SnapshotRequested'
  <2> SUFFICES ASSUME NEW s \in Symbols, sequencer[s].mode = "waiting"
               PROVE  crash \/ s \in lost \/ Requested(s)'
    BY <1>1 DEF SnapshotRequested
  <2>1. crash \/ s \in lost \/ Requested(s)
    BY DEF Inv, SnapshotRequested
  <2>2. Requested(s) => Requested(s)'
    BY <1>1, <1>2, <1>3 DEF Requested
  <2> QED BY <2>1, <2>2
<1> QED BY <1>4, <1>5, <1>6 DEF Inv

LEMMA InitInv == Init => Inv
<1> SUFFICES ASSUME Init PROVE Inv
  OBVIOUS
<1>1. TypeOK
  <2>1. <<>> \in Seq(Symbols) /\ <<>> \in Seq(Nat)
    OBVIOUS
  <2>2. Cleared \in Records
    BY DEF Cleared, Records, Modes
  <2>3. sequencer \in [Symbols -> Records]
    BY <2>2 DEF Init
  <2>4. published \in [Symbols -> Books]
    BY DEF Init, Books
  <2>5. OnConnection
    BY DEF Init, OnConnection
  <2> QED BY <2>1, <2>3, <2>4, <2>5, BoundsAssumption
          DEF Init, TypeOK, Records, Books, OnConnection
<1>2. Known
  <2>1. 1..0 = {}
    OBVIOUS
  <2>2. ASSUME NEW s \in Symbols PROVE Knows(s)
    <3>1. sent[s] = 0 /\ book[s] = 0 /\ sequencer[s] = Cleared
      BY DEF Init
    <3>2. published[s].number = 0 /\ published[s].changes = {}
      BY DEF Init
    <3>3. Cleared.mode = "empty" /\ Cleared.first = 0
      BY DEF Cleared
    <3> QED BY <2>1, <3>1, <3>2, <3>3 DEF Knows
  <2> QED BY <2>2 DEF Known
<1>3. SnapshotRequested
  BY DEF Init, SnapshotRequested, Cleared
<1> QED BY <1>1, <1>2, <1>3 DEF Inv

\* The steps of a stream and of the exchange that feeds it.
LEMMA StreamInv ==
  ASSUME Inv,
         \/ \E i \in Streams : StreamSubscribed(i) \/ StreamDisconnected(i)
         \/ \E s \in Symbols : Trade(s) \/ Skip(s)
  PROVE  Inv'
<1> USE DEF Inv
<1>0. /\ UNCHANGED <<queue, ready, asked, answers, published, lost, crash>>
  BY DEF StreamSubscribed, StreamDisconnected, Trade, Skip, restVars
<1>1. CASE \E i \in Streams : StreamSubscribed(i)
  <2>1. TypeOK'
    BY <1>0, <1>1 DEF TypeOK, StreamSubscribed
  <2>2. ASSUME NEW s \in Symbols PROVE Knows(s)'
    <3>1. /\ Knows(s) /\ sent[s] \in Nat /\ book[s] \in Nat
          /\ published[s].number \in Nat /\ sequencer[s].last \in Nat
      BY DEF Known, TypeOK
    <3>2. sent'[s] = book[s] \/ sent'[s] = sent[s]
      BY <1>1 DEF StreamSubscribed
    <3>3. book' = book /\ sequencer' = sequencer
      BY <1>1 DEF StreamSubscribed
    <3> QED BY <1>0, <3>1, <3>2, <3>3 DEF Knows
  <2>3. SnapshotRequested'
    BY <1>0, <1>1 DEF SnapshotRequested, Requested, StreamSubscribed
  <2> QED BY <2>1, <2>2, <2>3 DEF Known
<1>2. CASE \E i \in Streams : StreamDisconnected(i)
  <2>1. TypeOK'
    <3>1. Cleared \in Records
      BY DEF Cleared, Records, Modes
    <3>2. budget' \in [FaultKinds -> Nat]
      BY <1>2, SpendKeeps DEF StreamDisconnected, FaultKinds
    <3> QED BY <1>0, <1>2, <3>1, <3>2 DEF TypeOK, StreamDisconnected, Records
  <2>2. Known'
    BY <1>0, <1>2 DEF Known, Knows, StreamDisconnected, Cleared
  <2>3. SnapshotRequested'
    BY <1>2 DEF SnapshotRequested, StreamDisconnected, Cleared
  <2> QED BY <2>1, <2>2, <2>3
<1>3. CASE \E s \in Symbols : Trade(s)
  <2>1. TypeOK'
    BY <1>0, <1>3 DEF TypeOK, Trade
  <2>2. ASSUME NEW t \in Symbols PROVE Knows(t)'
    <3>1. Knows(t) /\ sent[t] \in Nat /\ book[t] \in Nat
      BY DEF Known, TypeOK
    <3>2. book'[t] = book[t] \/ book'[t] = book[t] + 1
      BY <1>3 DEF Trade, TypeOK
    <3>3. sent' = sent /\ sequencer' = sequencer /\ published' = published
      BY <1>0, <1>3 DEF Trade
    <3> QED BY <3>1, <3>2, <3>3 DEF Knows
  <2>3. SnapshotRequested'
    BY <1>0, <1>3 DEF SnapshotRequested, Requested, Trade
  <2> QED BY <2>1, <2>2, <2>3 DEF Known
<1>4. CASE \E s \in Symbols : Skip(s)
  <2>1. TypeOK'
    <3>1. budget' \in [FaultKinds -> Nat]
      BY <1>4, SpendKeeps DEF Skip, FaultKinds
    <3>2. sent' \in [Symbols -> Nat]
      BY <1>4 DEF TypeOK, Skip
    <3>3. UNCHANGED <<book, up, restVars, sequencer, queue, published, lost, crash>>
      BY <1>0, <1>4 DEF Skip, restVars
    <3> QED BY <3>1, <3>2, <3>3 DEF TypeOK, restVars
  <2>2. ASSUME NEW t \in Symbols PROVE Knows(t)'
    <3>1. /\ Knows(t) /\ sent[t] \in Nat /\ book[t] \in Nat
          /\ published[t].number \in Nat /\ sequencer[t].last \in Nat
      BY DEF Known, TypeOK
    <3>2. sent'[t] = sent[t] \/ (sent'[t] = sent[t] + 1 /\ sent[t] < book[t])
      BY <1>4 DEF Skip, TypeOK
    <3>3. book' = book /\ sequencer' = sequencer /\ published' = published
      BY <1>0, <1>4 DEF Skip
    <3>4. sent'[t] \in Nat /\ sent[t] <= sent'[t] /\ sent'[t] <= book[t]
      BY <3>1, <3>2 DEF Knows
    <3>5. published[t].number <= sent'[t]
      BY <3>1, <3>4 DEF Knows
    <3>6. sequencer[t].first # 0 =>
            sequencer[t].last <= sent'[t] /\ published[t].number <= sequencer[t].last
      BY <3>1, <3>4 DEF Knows
    <3> QED BY <3>1, <3>3, <3>4, <3>5, <3>6 DEF Knows
  <2>3. SnapshotRequested'
    BY <1>0, <1>4 DEF SnapshotRequested, Requested, Skip
  <2> QED BY <2>1, <2>2, <2>3 DEF Known
<1> QED BY <1>1, <1>2, <1>3, <1>4

\* The steps of Rest and of the calls it makes.
LEMMA RestInv ==
  ASSUME Inv,
         \/ RestReady \/ RestDisconnected
         \/ \E s \in Symbols : GetOrderBookError(s) \/ Serve(s)
  PROVE  Inv'
<1> USE DEF Inv
<1>0. UNCHANGED <<book, sent, up, sequencer, queue, published, crash>>
  BY DEF RestReady, RestDisconnected, GetOrderBookError, Serve, exchangeVars
<1>1. Known'
  BY <1>0 DEF Known, Knows
<1>2. CASE RestReady
  <2>1. TypeOK'
    BY <1>0, <1>2 DEF TypeOK, RestReady
  <2>2. SnapshotRequested'
    BY <1>0, <1>2 DEF SnapshotRequested, Requested, RestReady
  <2> QED BY <1>1, <2>1, <2>2
<1>3. CASE RestDisconnected
  <2>1. TypeOK'
    <3>1. budget' \in [FaultKinds -> Nat]
      BY <1>3, SpendKeeps DEF RestDisconnected, FaultKinds
    <3>2. <<>> \in Seq(Nat)
      OBVIOUS
    <3>3. OnConnection'
      BY <1>3 DEF OnConnection, RestDisconnected
    <3> QED BY <1>0, <1>3, <3>1, <3>2, <3>3 DEF TypeOK, RestDisconnected, OnConnection
  <2>2. SnapshotRequested'
    BY <1>0, <1>3 DEF SnapshotRequested, Requested, RestDisconnected
  <2> QED BY <1>1, <2>1, <2>2
<1>4. CASE \E s \in Symbols : GetOrderBookError(s)
  <2>1. PICK s \in Symbols : GetOrderBookError(s)
    BY <1>4
  <2>2. TypeOK'
    <3>1. budget' \in [FaultKinds -> Nat]
      BY <2>1, SpendKeeps DEF GetOrderBookError, FaultKinds
    <3>2. asked' \in [Symbols -> Nat]
      BY <2>1 DEF TypeOK, GetOrderBookError
    <3>3. lost' \subseteq Symbols /\ UNCHANGED <<ready, answers>>
      BY <2>1 DEF TypeOK, GetOrderBookError
    <3>4. OnConnection'
      BY <2>1, <3>3 DEF OnConnection, TypeOK, GetOrderBookError
    <3> QED BY <1>0, <3>1, <3>2, <3>3, <3>4 DEF TypeOK, OnConnection
  <2>3. SnapshotRequested'
    BY <1>0, <2>1 DEF SnapshotRequested, Requested, GetOrderBookError, TypeOK
  <2> QED BY <1>1, <2>2, <2>3
<1>5. CASE \E s \in Symbols : Serve(s)
  <2>1. PICK s \in Symbols : Serve(s)
    BY <1>5
  <2>2. PICK image \in Nat : /\ answers' = [answers EXCEPT ![s] = Append(@, image)]
                             /\ UNCHANGED budget \/ Spend("lag")
    <3>1. book[s] \in Nat /\ 0..book[s] \subseteq Nat
      BY DEF TypeOK
    <3>2. CASE answers' = [answers EXCEPT ![s] = Append(@, book[s])] /\ UNCHANGED budget
      BY <3>1, <3>2
    <3>3. CASE \E image \in 0..book[s] :
                 /\ image # book[s] /\ Spend("lag")
                 /\ answers' = [answers EXCEPT ![s] = Append(@, image)]
      BY <3>1, <3>3
    <3> QED BY <2>1, <3>2, <3>3 DEF Serve
  <2>3. budget' \in [FaultKinds -> Nat]
    BY <2>2, SpendKeeps DEF FaultKinds, TypeOK
  <2>4. /\ asked \in [Symbols -> Nat] /\ asked[s] > 0
        /\ asked' = [asked EXCEPT ![s] = @ - 1] /\ UNCHANGED <<ready, lost>>
    BY <2>1 DEF Serve, TypeOK
  <2>5. /\ answers \in [Symbols -> Seq(Nat)] /\ answers[s] \in Seq(Nat)
        /\ Append(answers[s], image) \in Seq(Nat) /\ Append(answers[s], image) # <<>>
    <3>1. answers \in [Symbols -> Seq(Nat)] /\ answers[s] \in Seq(Nat)
      BY DEF TypeOK
    <3>2. ASSUME NEW a \in Seq(Nat)
          PROVE  Append(a, image) \in Seq(Nat) /\ Append(a, image) # <<>>
      OBVIOUS
    <3> QED BY <3>1, <3>2
  <2>6. TypeOK'
    <3>1. asked' \in [Symbols -> Nat]
      BY <2>4
    <3>2. answers' \in [Symbols -> Seq(Nat)]
      BY <2>2, <2>5
    <3>3. OnConnection'
      BY <2>2, <2>4 DEF OnConnection, TypeOK
    <3> QED BY <1>0, <2>3, <2>4, <3>1, <3>2, <3>3 DEF TypeOK, OnConnection
  <2>7. SnapshotRequested'
    BY <1>0, <2>2, <2>4, <2>5 DEF SnapshotRequested, Requested
  <2> QED BY <1>1, <2>6, <2>7
<1> QED BY <1>2, <1>3, <1>4, <1>5

LEMMA NextInv == Inv /\ [Next]_vars => Inv'
<1> SUFFICES ASSUME Inv, [Next]_vars PROVE Inv'
  OBVIOUS
<1>1. CASE \E s \in Symbols : Level2(s)
  BY <1>1, Level2Inv
<1>2. CASE \E s \in Symbols : GetOrderBookAck(s)
  BY <1>2, GetOrderBookAckInv
<1>3. CASE CheckRequestQueue
  BY <1>3, CheckRequestQueueInv
<1>4. CASE \/ \E i \in Streams : StreamSubscribed(i) \/ StreamDisconnected(i)
           \/ \E s \in Symbols : Trade(s) \/ Skip(s)
  BY <1>4, StreamInv
<1>5. CASE \/ RestReady \/ RestDisconnected
           \/ \E s \in Symbols : GetOrderBookError(s) \/ Serve(s)
  BY <1>5, RestInv
<1>6. CASE UNCHANGED vars
  BY <1>6 DEF vars, exchangeVars, restVars, Inv, TypeOK, Known, Knows,
              SnapshotRequested, Requested
<1> QED BY <1>1, <1>2, <1>3, <1>4, <1>5, <1>6 DEF Next

\* The inductive invariant holds in every reachable state of MarketData, Rest and
\* the sequencers they share.
THEOREM Invariance == Spec => []Inv
  BY InitInv, NextInv, PTL DEF Spec

\* Every reachable state is well typed.
THEOREM TypeCorrect == Spec => []TypeOK
<1>1. Inv => TypeOK
  BY DEF Inv
<1> QED BY <1>1, Invariance, PTL

\* publish_update and publish_snapshot, with apply(), never publish a book with a
\* change missing or with one more than its sequence number says, for any number
\* of symbols and streams, of gaps, lost connections and late snapshots.
THEOREM BooksExact == Spec => []BookIsExact
<1>1. Inv => BookIsExact
  <2> SUFFICES ASSUME Inv, NEW s \in Symbols
               PROVE  /\ published[s].changes = 1..published[s].number
                      /\ published[s].number <= book[s]
    BY DEF BookIsExact
  <2>1. Knows(s) /\ published[s].number \in Nat /\ sent[s] \in Nat /\ book[s] \in Nat
    BY DEF Inv, Known, TypeOK
  <2> QED BY <2>1 DEF Knows
<1> QED BY <1>1, Invariance, PTL

\* Every way of coming to wait for a snapshot (first change, BadState, snapshot
\* too old) puts the symbol into depth_request_queue, and only a call that fails
\* takes the request away.
THEOREM SnapshotsRequested == Spec => []SnapshotRequested
<1>1. Inv => SnapshotRequested
  BY DEF Inv
<1> QED BY <1>1, Invariance, PTL

\* A call of the sequencer of one symbol takes back no book of another.
LEMMA EffectForward ==
  ASSUME TypeOK, NEW s \in Symbols, NEW n \in Nat, Effect(s, n), Forward(s)
  PROVE  \A t \in Symbols : Forward(t)
<1>1. published \in [Symbols -> Books]
  BY DEF TypeOK, Books
<1>2. PICK b \in Books : published' = [published EXCEPT ![s] = b]
  BY DEF Effect
<1>3. ASSUME NEW t \in Symbols \ {s} PROVE Forward(t)
  <2>1. published[t].number \in Nat /\ published'[t] = published[t]
    BY <1>1, <1>2 DEF Books
  <2> QED BY <2>1 DEF Forward
<1> QED BY <1>3

\* No step publishes a book that lacks a change already published: the
\* sequencer feeds publish_update and publish_snapshot in order although the
\* answers of GET depth may come late, twice and after it was cleared.
THEOREM NeverBack == Spec => NeverGoesBack
<1> DEFINE Onward == \A s \in Symbols : published[s].number <= published'[s].number
<1>1. Inv /\ [Next]_vars => [Onward]_vars
  <2> SUFFICES ASSUME Inv, Next PROVE Onward
    BY DEF Onward
  <2>0. TypeOK /\ \A s \in Symbols : Knows(s) /\ published[s].number \in Nat
    BY DEF Inv, Known, TypeOK
  <2>1. ASSUME NEW s \in Symbols, Level2(s) PROVE Onward
    <3>1. Effect(s, sent[s] + 1) /\ Forward(s)
      BY <2>0, <2>1, UpdateEffect DEF Level2
    <3>2. sent[s] + 1 \in Nat
      BY <2>0 DEF TypeOK
    <3> QED BY <2>0, <3>1, <3>2, EffectForward DEF Forward
  <2>2. ASSUME NEW s \in Symbols, GetOrderBookAck(s) PROVE Onward
    <3>1. /\ answers[s] \in Seq(Nat) /\ answers[s] # <<>>
          /\ Image(s, Head(answers[s])) \/ Resubscribe(s)
      BY <2>0, <2>2 DEF TypeOK, GetOrderBookAck
    <3>2. Head(answers[s]) \in Nat /\ sent[s] \in Nat
      BY <2>0, <3>1 DEF TypeOK
    <3>3. Effect(s, sent[s]) /\ Forward(s)
      <4>1. /\ published[s].number <= sent[s]
            /\ published[s].changes = 1..published[s].number
        BY <2>0 DEF Knows
      <4>2. CASE Image(s, Head(answers[s]))
        BY <2>0, <3>2, <4>2, ImageEffect
      <4>3. CASE Resubscribe(s)
        BY <2>0, <3>2, <4>1, <4>3, ResubscribeEffect
      <4> QED BY <3>1, <4>2, <4>3
    <3> QED BY <2>0, <3>2, <3>3, EffectForward DEF Forward
  <2>3. UNCHANGED published => Onward
    BY <2>0, SameForward DEF Forward
  <2>4. CASE \E i \in Streams : StreamSubscribed(i) \/ StreamDisconnected(i)
    BY <2>3, <2>4 DEF StreamSubscribed, StreamDisconnected
  <2>5. CASE \E s \in Symbols : Trade(s) \/ Skip(s) \/ Serve(s) \/ GetOrderBookError(s)
    BY <2>3, <2>5 DEF Trade, Skip, Serve, GetOrderBookError
  <2>6. CASE RestReady \/ RestDisconnected \/ CheckRequestQueue
    BY <2>3, <2>6 DEF RestReady, RestDisconnected, CheckRequestQueue
  <2> QED BY <2>1, <2>2, <2>4, <2>5, <2>6 DEF Next
<1>2. Spec => [][Onward]_vars
  BY <1>1, Invariance, PTL DEF Spec
<1> QED BY <1>2 DEF NeverGoesBack, Onward
=============================================================================
