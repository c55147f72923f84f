------------------------------ MODULE BookSync ------------------------------
(***************************************************************************)
(* How an order book is put together from changes and snapshots.           *)
(*                                                                         *)
(* A MarketData stream delivers the changes of its symbols, numbered       *)
(* without gaps.  The sequencer of a symbol keeps them until it has a      *)
(* snapshot they continue, which it asks Rest for through a queue.  Rest   *)
(* sends what is queued while it is ready and feeds the answers to the     *)
(* sequencers, which are shared by all streams: a stream that is lost      *)
(* clears the sequencers of all.                                           *)
(*                                                                         *)
(* The sequencer is a library class.  Its part is assumed from the calls   *)
(* and callbacks the gateway gives it: see Update and Image.               *)
(***************************************************************************)
EXTENDS Naturals, Sequences, FiniteSets

CONSTANTS
  Symbols,
  Streams,
  Home,        \* the stream that delivers the changes of a symbol
  MaxRetries,  \* ws.mbp_request_max_retries, 0 is no limit
  MaxChanges,  \* how often the exchange changes each book
  MaxFaults    \* how often each fault of the environment may happen

FaultKinds == {"stream", "rest", "error", "lag", "gap", "bad"}

ASSUME HomeAssumption == Home \in [Symbols -> Streams]
ASSUME BoundsAssumption == /\ MaxRetries \in Nat /\ MaxChanges \in Nat
                           /\ MaxFaults \in [FaultKinds -> Nat]

VARIABLES
  \* exchange
  book,       \* number of changes of each book so far
  sent,       \* the last of them the exchange has put on the stream
  up,         \* the stream is in a session, its symbols subscribed
  \* MarketData, Rest, Shared
  sequencer,  \* shared_.mbp_sequencer
  queue,      \* shared_.depth_request_queue
  ready,      \* Rest is ready
  asked,      \* calls the exchange has not served, per symbol
  answers,    \* snapshots on their way, in order, per symbol
  \* server
  published,  \* the sequence number of a book and the changes that are in it
  \* bookkeeping
  lost,       \* symbols whose last snapshot request came to nothing
  crash,      \* log::fatal stopped the process
  budget      \* faults the environment may still inject

restVars == <<ready, asked, answers>>
exchangeVars == <<book, sent, up>>
vars == <<exchangeVars, restVars, sequencer, queue, published, lost, crash, budget>>

Spend(f) == budget[f] > 0 /\ budget' = [budget EXCEPT ![f] = @ - 1]

\* What a sequencer is constructed as, and cleared to.
Cleared == [mode |-> "empty", first |-> 0, last |-> 0, image |-> 0, retries |-> 0]

Init ==
  /\ book = [s \in Symbols |-> 0] /\ sent = [s \in Symbols |-> 0]
  /\ up = [i \in Streams |-> FALSE]
  /\ sequencer = [s \in Symbols |-> Cleared] /\ queue = <<>>
  /\ ready = FALSE
  /\ asked = [s \in Symbols |-> 0] /\ answers = [s \in Symbols |-> <<>>]
  /\ published = [s \in Symbols |-> [number |-> 0, changes |-> {}]]
  /\ lost = {} /\ crash = FALSE /\ budget = MaxFaults

----------------------------------------------------------------------------
(* What the gateway does when the sequencer calls it back. *)

\* publish_update: the change continues the published book.
PublishUpdate(s, n) ==
  published' = [published EXCEPT ![s] = [number |-> n, changes |-> @.changes \cup {n}]]

\* (Mutation of PublishSnapshot: the changes kept are not applied.)
PublishBareSnapshot(s, image, first, last) ==
  published' = [published EXCEPT ![s] = [number |-> last, changes |-> 1..image]]

\* publish_snapshot: the snapshot, and apply() of the changes kept since.
PublishSnapshot(s, image, first, last) ==
  published' = [published EXCEPT ![s] =
                  [number |-> last, changes |-> 1..image \cup first..last]]

\* (Mutation of Enqueue: a symbol is not queued again while a call is out.)
EnqueueOnce(s) ==
  IF asked[s] > 0 \/ answers[s] # <<>> THEN UNCHANGED <<queue, lost>>
  ELSE queue' = Append(queue, s) /\ lost' = lost \ {s}

\* The symbol is queued for a snapshot.
Enqueue(s) == queue' = Append(queue, s) /\ lost' = lost \ {s}

\* request_snapshot: too many retries are fatal.
RequestSnapshot(s, retries) ==
  IF MaxRetries # 0 /\ MaxRetries < retries
    THEN crash' = TRUE /\ UNCHANGED <<queue, lost>>
    ELSE Enqueue(s) /\ UNCHANGED crash

\* catch (BadState &): start from nothing, with a snapshot.
Resubscribe(s) ==
  /\ sequencer' = [sequencer EXCEPT ![s] = Cleared]
  /\ Enqueue(s) /\ UNCHANGED <<published, crash>>

----------------------------------------------------------------------------
(* The sequencer. *)

\* The sequencer of s keeps the changes first to last, none if first is 0, and a
\* snapshot if it is holding one.
Move(s, mode, first, last, image, retries) ==
  sequencer' = [sequencer EXCEPT ![s] =
    [mode |-> mode, first |-> first, last |-> last, image |-> image,
     retries |-> retries]]

\* The changes kept, first to last, and a snapshot are put together if the
\* changes continue it, a snapshot that is too old is asked for again, and one
\* that is ahead of them waits for the changes it already has.
Join(s, image, first, last) ==
  LET retries == sequencer[s].retries
  IN  \/ /\ first > image + 1
         /\ Move(s, "waiting", first, last, 0, retries + 1)
         /\ RequestSnapshot(s, retries + 1) /\ UNCHANGED published
      \/ /\ first <= image + 1 /\ image <= last
         /\ Move(s, "live", first, last, 0, 0)
         /\ PublishSnapshot(s, image, first, last)
         /\ UNCHANGED <<queue, lost, crash>>
      \/ /\ first <= image + 1 /\ image > last
         /\ Move(s, "holding", first, last, image, retries)
         /\ UNCHANGED <<queue, lost, crash, published>>

\* Call with change n, which continues change n - 1: the first one asks for a
\* snapshot, later ones are kept until there is one, then published.
Update(s, n) ==
  LET q == sequencer[s]
      continues == q.last = n - 1
  IN  \/ /\ q.mode = "empty"
         /\ Move(s, "waiting", n, n, 0, 0)
         /\ RequestSnapshot(s, 0) /\ UNCHANGED published
      \/ /\ q.mode = "waiting" /\ continues
         /\ Move(s, "waiting", q.first, n, 0, q.retries)
         /\ UNCHANGED <<queue, lost, crash, published>>
      \/ /\ q.mode = "holding" /\ q.first = 0 /\ Join(s, q.image, n, n)
      \/ /\ q.mode = "holding" /\ q.first # 0 /\ continues
         /\ Join(s, q.image, q.first, n)
      \/ /\ q.mode = "live" /\ continues
         /\ Move(s, "live", q.first, n, 0, 0)
         /\ PublishUpdate(s, n) /\ UNCHANGED <<queue, lost, crash>>
      \/ /\ q.mode \in {"waiting", "holding", "live"} /\ q.first # 0
         /\ ~continues /\ Resubscribe(s)

\* Call with a snapshot: kept if there is no change to join it with, ignored if
\* the book is complete without it.
Image(s, image) ==
  LET q == sequencer[s]
  IN  \/ /\ q.mode \in {"empty", "holding"} /\ q.first = 0
         /\ Move(s, "holding", 0, 0, image, 0)
         /\ UNCHANGED <<queue, lost, crash, published>>
      \/ /\ q.mode \in {"waiting", "holding"} /\ q.first # 0
         /\ Join(s, image, q.first, q.last)
      \/ /\ q.mode = "live"
         /\ UNCHANGED <<sequencer, queue, lost, crash, published>>

----------------------------------------------------------------------------
(* MarketData. *)

\* Welcomed by the exchange, the stream has its symbols subscribed; the changes
\* before that are not delivered.
StreamSubscribed(i) ==
  /\ ~up[i] /\ up' = [up EXCEPT ![i] = TRUE]
  /\ sent' = [s \in Symbols |-> IF Home[s] = i THEN book[s] ELSE sent[s]]
  /\ UNCHANGED <<book, restVars, sequencer, queue, published, lost, crash, budget>>

\* The sequencers of all streams are cleared.
StreamDisconnected(i) ==
  /\ up[i] /\ Spend("stream") /\ up' = [up EXCEPT ![i] = FALSE]
  /\ sequencer' = [s \in Symbols |-> Cleared]
  /\ UNCHANGED <<book, sent, restVars, queue, published, lost, crash>>

\* The next change of the book arrives.
Level2(s) ==
  /\ up[Home[s]] /\ sent[s] < book[s]
  /\ sent' = [sent EXCEPT ![s] = @ + 1]
  /\ Update(s, sent[s] + 1)
  /\ UNCHANGED <<book, up, restVars, budget>>

----------------------------------------------------------------------------
(* Rest. *)

\* Its download is done.
RestReady ==
  /\ ~ready /\ ready' = TRUE
  /\ UNCHANGED <<exchangeVars, asked, answers, sequencer, queue, published, lost,
                 crash, budget>>

\* Every call outstanding ends in an error, which is logged.
RestDisconnected ==
  /\ ready /\ Spend("rest") /\ ready' = FALSE
  /\ asked' = [s \in Symbols |-> 0] /\ answers' = [s \in Symbols |-> <<>>]
  /\ lost' = lost \cup {s \in Symbols : asked[s] > 0 \/ answers[s] # <<>>}
  /\ UNCHANGED <<exchangeVars, sequencer, queue, published, crash>>

\* (Mutation of CheckRequestQueue: the queue is emptied, one call is made.)
CheckRequestQueueOnce ==
  /\ ready /\ queue # <<>>
  /\ queue' = <<>> /\ asked' = [asked EXCEPT ![Head(queue)] = @ + 1]
  /\ UNCHANGED <<exchangeVars, ready, answers, sequencer, published, lost, crash,
                 budget>>

\* (Mutation of CheckRequestQueue: the timer does not look at ready().)
CheckRequestQueueAlways ==
  /\ queue # <<>>
  /\ queue' = Tail(queue) /\ asked' = [asked EXCEPT ![Head(queue)] = @ + 1]
  /\ UNCHANGED <<exchangeVars, ready, answers, sequencer, published, lost, crash,
                 budget>>

\* The timer: the rate limiter and the delay of the queue let a call through.
CheckRequestQueue ==
  /\ ready /\ queue # <<>>
  /\ queue' = Tail(queue) /\ asked' = [asked EXCEPT ![Head(queue)] = @ + 1]
  /\ UNCHANGED <<exchangeVars, ready, answers, sequencer, published, lost, crash,
                 budget>>

\* (Mutation of GetOrderBookAck: the snapshot is published without the sequencer.)
GetOrderBookAckUnsequenced(s) ==
  /\ ready /\ answers[s] # <<>>
  /\ answers' = [answers EXCEPT ![s] = Tail(@)]
  /\ PublishSnapshot(s, Head(answers[s]), 1, Head(answers[s]))
  /\ UNCHANGED <<exchangeVars, ready, asked, sequencer, queue, lost, crash, budget>>

\* An answer arrives and is fed to the sequencer, which may throw BadState.
GetOrderBookAck(s) ==
  /\ ready /\ answers[s] # <<>>
  /\ answers' = [answers EXCEPT ![s] = Tail(@)]
  /\ \/ Image(s, Head(answers[s])) /\ UNCHANGED budget
     \/ Resubscribe(s) /\ Spend("bad")
  /\ UNCHANGED <<exchangeVars, ready, asked>>

\* A call fails: handle_error logs and does not ask again.
GetOrderBookError(s) ==
  /\ ready /\ asked[s] > 0 /\ Spend("error")
  /\ asked' = [asked EXCEPT ![s] = @ - 1] /\ lost' = lost \cup {s}
  /\ UNCHANGED <<exchangeVars, ready, answers, sequencer, queue, published, crash>>

----------------------------------------------------------------------------
(* Exchange. *)

Trade(s) ==
  /\ book[s] < MaxChanges /\ book' = [book EXCEPT ![s] = @ + 1]
  /\ UNCHANGED <<sent, up, restVars, sequencer, queue, published, lost, crash, budget>>

\* A change is not delivered.
Skip(s) ==
  /\ up[Home[s]] /\ sent[s] < book[s] /\ Spend("gap")
  /\ sent' = [sent EXCEPT ![s] = @ + 1]
  /\ UNCHANGED <<book, up, restVars, sequencer, queue, published, lost, crash>>

\* A call is served, at times with a book that is behind the stream.
Serve(s) ==
  /\ asked[s] > 0 /\ asked' = [asked EXCEPT ![s] = @ - 1]
  /\ \/ answers' = [answers EXCEPT ![s] = Append(@, book[s])] /\ UNCHANGED budget
     \/ \E image \in 0..book[s] :
          /\ image # book[s] /\ Spend("lag")
          /\ answers' = [answers EXCEPT ![s] = Append(@, image)]
  /\ UNCHANGED <<exchangeVars, ready, sequencer, queue, published, lost, crash>>

----------------------------------------------------------------------------
Running == ~crash

Next ==
  /\ Running
  /\ \/ \E i \in Streams : StreamSubscribed(i) \/ StreamDisconnected(i)
     \/ \E s \in Symbols : \/ Level2(s) \/ Trade(s) \/ Skip(s) \/ Serve(s)
                           \/ GetOrderBookAck(s) \/ GetOrderBookError(s)
     \/ RestReady \/ RestDisconnected \/ CheckRequestQueue

Spec == Init /\ [][Next]_vars

\* Streams and Rest are connected again, the exchange serves calls and delivers
\* changes, and the timer ticks.
Fairness ==
  /\ \A i \in Streams : WF_vars(Running /\ StreamSubscribed(i))
  /\ \A s \in Symbols : WF_vars(Running /\ Level2(s)) /\ WF_vars(Running /\ Serve(s))
                        /\ WF_vars(Running /\ GetOrderBookAck(s))
  /\ WF_vars(Running /\ RestReady) /\ WF_vars(Running /\ CheckRequestQueue)

FairSpec == Spec /\ Fairness

----------------------------------------------------------------------------
(* Safety. *)

Modes == {"empty", "waiting", "holding", "live"}

\* A call is outstanding only on Rest's connection.
TypeOK ==
  /\ book \in [Symbols -> Nat] /\ sent \in [Symbols -> Nat]
  /\ up \in [Streams -> BOOLEAN]
  /\ sequencer \in [Symbols -> [mode : Modes, first : Nat, last : Nat, image : Nat,
                                retries : Nat]]
  /\ queue \in Seq(Symbols) /\ ready \in BOOLEAN
  /\ asked \in [Symbols -> Nat] /\ answers \in [Symbols -> Seq(Nat)]
  /\ \A s \in Symbols : asked[s] > 0 \/ answers[s] # <<>> => ready
  /\ published \in [Symbols -> [number : Nat, changes : SUBSET Nat]]
  /\ lost \subseteq Symbols /\ crash \in BOOLEAN /\ budget \in [FaultKinds -> Nat]

\* A published book is the exchange's book at the sequence number it is
\* published with: every change up to it is in it and none after it, whatever is
\* lost, skipped or late, and whichever stream cleared the sequencer.
BookIsExact ==
  \A s \in Symbols : /\ published[s].changes = 1..published[s].number
                     /\ published[s].number <= book[s]

Elems(q) == {q[k] : k \in 1..Len(q)}

Requested(s) == s \in Elems(queue) \/ asked[s] > 0 \/ answers[s] # <<>>

\* A sequencer that waits for a snapshot has a request on its way, unless one
\* failed: clearing the sequencers and asking for them again leave none behind.
SnapshotRequested ==
  \A s \in Symbols :
    sequencer[s].mode = "waiting" => crash \/ s \in lost \/ Requested(s)

\* A published book never goes back: whatever is published next has the changes
\* already published, although answers may come late, two for one symbol may be
\* on their way, and a sequencer that was cleared starts from a snapshot again.
NeverGoesBack ==
  [][\A s \in Symbols : published[s].number <= published'[s].number]_vars

----------------------------------------------------------------------------
(* Liveness. *)

\* A book that waits for a snapshot gets one, unless a request for it failed.
SnapshotArrives ==
  \A s \in Symbols :
    sequencer[s].mode = "waiting"
      ~> (sequencer[s].mode # "waiting" \/ s \in lost \/ crash)
=============================================================================
