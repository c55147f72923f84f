----------------------------- MODULE MarketFeed -----------------------------
(***************************************************************************)
(* How symbols come to be subscribed on the exchange.                      *)
(*                                                                         *)
(* Rest downloads the public token and the list of contracts.  Controller  *)
(* keeps the token, gives each new symbol a place in the list of symbols,  *)
(* and creates a MarketData stream for each slice of PerStream places.  A  *)
(* stream queues the subscriptions of its slice when the exchange says     *)
(* welcome, those of later symbols when Controller tells it about them,    *)
(* and the timer sends what is queued as far as the rate limiter lets it.  *)
(* Clients of the server add symbols of their own.                         *)
(*                                                                         *)
(* A symbol has six topics.  subscribe() queues them topic by topic, the   *)
(* symbols in the same order in each; so a symbol is in the queue of the   *)
(* model until its last topic has been sent.  The session of a stream is   *)
(* detailed in StreamSession.                                              *)
(***************************************************************************)
EXTENDS Naturals, Sequences, FiniteSets

CONSTANTS
  Symbols,    \* what the exchange may list and clients may ask for
  Discarded,  \* symbols the server is configured to discard
  PerStream,  \* ws.max_subscriptions_per_stream
  MaxFaults   \* how often each fault of the environment may happen

FaultKinds == {"rest", "stream", "expiry", "error", "refusal"}

\* The stages in which a REST call is awaited.
Asking == {"PUBLIC_TOKEN", "CONTRACTS"}

\* No more streams than symbols.
Index == 1..Cardinality(Symbols)

ASSUME SymbolsAssumption == IsFiniteSet(Symbols) /\ Discarded \subseteq Symbols
ASSUME SliceAssumption == PerStream \in Nat \ {0}
ASSUME FaultsAssumption == MaxFaults \in [FaultKinds -> Nat]

VARIABLES
  \* Rest
  restUp,      \* the connection is established
  restStatus,  \* connection_status_
  stage,       \* download_.state()
  current,     \* calls outstanding, per stage, with the sequence of download_
  stale,       \* calls outstanding, per stage, with an earlier sequence
  \* Controller and Shared
  token,       \* public_ws_query_
  symbols,     \* shared_.symbols and all_symbols
  \* MarketData, per stream
  session,     \* "absent" until created
  wire,        \* query_
  queue,       \* subscribe_queue_
  \* exchange, process, environment
  subs,        \* the symbols subscribed in the stream's session
  crash,       \* why log::fatal stopped the process, "no" if it did not
  budget       \* faults the environment may still inject

restVars == <<restUp, restStatus, stage, current, stale>>
feedVars == <<token, symbols, session, wire, queue, subs>>
vars == <<restVars, feedVars, crash, budget>>

Spend(f) == budget[f] > 0 /\ budget' = [budget EXCEPT ![f] = @ - 1]

Init ==
  /\ restUp = FALSE /\ restStatus = "UNDEFINED" /\ stage = "UNDEFINED"
  /\ current = [s \in Asking |-> 0] /\ stale = [s \in Asking |-> 0]
  /\ token = "none" /\ symbols = <<>>
  /\ session = [i \in Index |-> "absent"] /\ wire = [i \in Index |-> "none"]
  /\ queue = [i \in Index |-> <<>>] /\ subs = [i \in Index |-> {}]
  /\ crash = "no" /\ budget = MaxFaults

----------------------------------------------------------------------------
(* Rest: connection and download. *)

\* The download callback on entering stage s: publish the status, make the call.
Enter(s, calls) ==
  /\ stage' = s
  /\ restStatus' = IF s = "DONE" THEN "READY" ELSE "DOWNLOADING"
  /\ current' = IF s = "DONE" THEN calls ELSE [calls EXCEPT ![s] = @ + 1]

\* A download in progress is bumped: its stage is asked again under a new
\* sequence.  Otherwise a download begins.
RestConnected ==
  /\ ~restUp /\ restUp' = TRUE
  /\ stale' = [s \in Asking |-> stale[s] + current[s]]
  /\ Enter(IF stage \in Asking THEN stage ELSE "PUBLIC_TOKEN",
           [s \in Asking |-> 0])
  /\ UNCHANGED <<feedVars, crash, budget>>

\* Only a download that is done is reset.
RestDisconnected ==
  /\ restUp /\ Spend("rest")
  /\ restUp' = FALSE /\ restStatus' = "DISCONNECTED"
  /\ stage' = IF stage \in Asking THEN stage ELSE "UNDEFINED"
  /\ UNCHANGED <<current, stale, feedVars, crash>>

\* A call of the current download, or of an earlier one, completes.
Completes(s) == current[s] > 0 /\ current' = [current EXCEPT ![s] = @ - 1]
CompletesLate(s) == stale[s] > 0 /\ stale' = [stale EXCEPT ![s] = @ - 1]

\* download_.skip: the answer is of an earlier download or of a stage passed.
AckSkipped(s) ==
  /\ restUp
  /\ \/ CompletesLate(s) /\ UNCHANGED current
     \/ stage # s /\ Completes(s) /\ UNCHANGED stale
  /\ UNCHANGED <<restUp, restStatus, stage, feedVars, crash, budget>>

\* (Mutation of AckError: a call that fails is not made again.)
AckErrorDropped(s) ==
  /\ \/ Completes(s) /\ UNCHANGED stale
     \/ CompletesLate(s) /\ UNCHANGED current
  /\ IF restUp THEN Spend("error") ELSE UNCHANGED budget
  /\ UNCHANGED <<restUp, restStatus, stage, feedVars, crash>>

\* (Mutation of AckError: the download is given up.)
AckErrorResets(s) ==
  /\ \/ Completes(s) /\ UNCHANGED stale
     \/ CompletesLate(s) /\ UNCHANGED current
  /\ IF restUp THEN Spend("error") ELSE UNCHANGED budget
  /\ stage' = "UNDEFINED"
  /\ UNCHANGED <<restUp, restStatus, feedVars, crash>>

\* A call fails, one of a lost connection for sure.  handle_error does not look
\* at the sequence: download_.retry makes the call again if s is the stage.
AckError(s) ==
  /\ IF restUp THEN Spend("error") ELSE UNCHANGED budget
  /\ \/ /\ current[s] > 0 /\ UNCHANGED stale
        /\ IF stage = s
           THEN Enter(s, [current EXCEPT ![s] = @ - 1])
           ELSE Completes(s) /\ UNCHANGED <<stage, restStatus>>
     \/ /\ CompletesLate(s)
        /\ IF stage = s
           THEN Enter(s, current)
           ELSE UNCHANGED <<stage, restStatus, current>>
  /\ UNCHANGED <<restUp, feedVars, crash>>

Processed(s) == restUp /\ stage = s /\ current[s] > 0

\* (Mutation of PublicTokenAck: Controller does not keep the token.)
PublicTokenAckNotKept ==
  /\ Processed("PUBLIC_TOKEN")
  /\ Enter("CONTRACTS", [current EXCEPT !["PUBLIC_TOKEN"] = @ - 1])
  /\ UNCHANGED <<restUp, stale, feedVars, crash, budget>>

\* Controller keeps the token for the streams it will create.
PublicTokenAck ==
  /\ Processed("PUBLIC_TOKEN")
  /\ Enter("CONTRACTS", [current EXCEPT !["PUBLIC_TOKEN"] = @ - 1])
  /\ token' = "valid"
  /\ UNCHANGED <<restUp, stale, symbols, session, wire, queue, subs, crash,
                 budget>>

\* A refused request, or a token without servers or ping interval, is fatal.
PublicTokenRefused ==
  /\ Processed("PUBLIC_TOKEN") /\ Spend("refusal")
  /\ crash' = "answer"
  /\ UNCHANGED <<restVars, feedVars>>

\* A call that the exchange redirects is fatal, whichever it is (process_response).
Redirected ==
  /\ restUp /\ (\E s \in Asking : current[s] + stale[s] > 0) /\ Spend("refusal")
  /\ crash' = "answer"
  /\ UNCHANGED <<restVars, feedVars>>

----------------------------------------------------------------------------
(* Controller: symbols and streams. *)

Elems(s) == {s[k] : k \in DOMAIN s}

\* core::Symbols: the places of stream i after the first `from`, of list s.
Slice(i, from, s) ==
  LET first == (i - 1) * PerStream
      last  == i * PerStream
  IN  SubSeq(s, 1 + (IF from < first THEN first ELSE from),
             IF Len(s) < last THEN Len(s) ELSE last)

\* (Mutation of Created: the last, partly filled slice gets no stream.)
CreatedWhenFull(i, s) == session[i] = "absent" /\ i * PerStream <= Len(s)

\* ensure_symbol_slices creates the streams of the slices that are not empty.
Created(i, s) == session[i] = "absent" /\ (i - 1) * PerStream < Len(s)

\* (Mutation of Subscribed: every stream is given all new symbols.)
SubscribedEverywhere(i, from, s) ==
  IF session[i] = "welcome" THEN queue[i] \o SubSeq(s, from + 1, Len(s))
  ELSE queue[i]

\* MarketData::subscribe(start_from), which a stream that is not ready ignores.
Subscribed(i, from, s) ==
  IF session[i] = "welcome" THEN queue[i] \o Slice(i, from, s) ELSE queue[i]

\* Controller's handler of SymbolsUpdate.
SymbolsUpdate(new) ==
  LET s == symbols \o new IN
  /\ symbols' = s
  /\ session' = [i \in Index |-> IF Created(i, s) THEN "down" ELSE session[i]]
  /\ wire' = [i \in Index |-> IF Created(i, s) THEN token ELSE wire[i]]
  /\ queue' = [i \in Index |-> Subscribed(i, Len(symbols), s)]
  /\ UNCHANGED <<token, subs>>

\* Lists of distinct symbols.
Lists(S) == {s \in UNION {[1..n -> S] : n \in 0..Cardinality(S)} :
               \A j \in DOMAIN s : \A k \in DOMAIN s : s[j] = s[k] => j = k}

\* all_symbols.emplace(symbol).second
Unknown == Symbols \ Elems(symbols)

\* The contracts that are new and not discarded are passed to Controller.
ContractsAck(new) ==
  /\ Processed("CONTRACTS")
  /\ Enter("DONE", [current EXCEPT !["CONTRACTS"] = @ - 1])
  /\ Elems(new) \subseteq Unknown \ Discarded
  /\ IF new = <<>> THEN UNCHANGED feedVars ELSE SymbolsUpdate(new)
  /\ UNCHANGED <<restUp, stale, crash, budget>>

\* The symbols of a client, whether or not there is a token.  Without one a stream
\* has no query for good, and public_ws_ping_frequency_ is not initialized:
\* MarketData ends the process if it is zero.
Subscribe(new) ==
  /\ Elems(new) \subseteq Unknown
  /\ \/ SymbolsUpdate(new) /\ UNCHANGED crash
     \/ /\ token = "none" /\ \E i \in Index : Created(i, symbols \o new)
        /\ crash' = "ping_frequency" /\ UNCHANGED feedVars
  /\ UNCHANGED <<restVars, budget>>

----------------------------------------------------------------------------
(* MarketData. *)

\* The socket is opened with query_, which never changes.
StreamConnected(i) ==
  /\ session[i] = "down"
  /\ session' = [session EXCEPT ![i] = "open"]
  /\ UNCHANGED <<restVars, token, symbols, wire, queue, subs, crash, budget>>

\* (Mutation of Welcome: only symbols that came since the last session.)
WelcomeKeepsOld(i) ==
  /\ session[i] = "open" /\ wire[i] = "valid"
  /\ session' = [session EXCEPT ![i] = "welcome"]
  /\ UNCHANGED <<restVars, token, symbols, wire, queue, subs, crash, budget>>

\* The exchange accepts the token; the whole slice is queued.
Welcome(i) ==
  /\ session[i] = "open" /\ wire[i] = "valid"
  /\ session' = [session EXCEPT ![i] = "welcome"]
  /\ queue' = [queue EXCEPT ![i] = @ \o Slice(i, 0, symbols)]
  /\ UNCHANGED <<restVars, token, symbols, wire, subs, crash, budget>>

\* What is queued stays in the queue.  The exchange drops an expired session.
StreamDisconnected(i) ==
  /\ session[i] \in {"open", "welcome"}
  /\ \/ wire[i] # "valid" /\ UNCHANGED budget
     \/ Spend("stream")
  /\ session' = [session EXCEPT ![i] = "down"]
  /\ subs' = [subs EXCEPT ![i] = {}]
  /\ UNCHANGED <<restVars, token, symbols, wire, queue, crash>>

\* What stream i sends in a tick in which the rate limiter gives out after the
\* k-th message of stream j: the timer serves the streams in order.
SentBy(i, j, k) == IF session[i] # "welcome" \/ i > j THEN 0
                   ELSE IF i = j THEN k ELSE Len(queue[i])

Timer(j, k) ==
  /\ session[j] = "welcome" /\ k <= Len(queue[j])
  /\ queue' = [i \in Index |->
       SubSeq(queue[i], SentBy(i, j, k) + 1, Len(queue[i]))]
  /\ subs' = [i \in Index |->
       subs[i] \cup Elems(SubSeq(queue[i], 1, SentBy(i, j, k)))]
  /\ UNCHANGED <<restVars, token, symbols, session, wire, crash, budget>>

\* The tokens issued so far expire.  A stream told so only logs it.
Expires(t) == IF t = "valid" THEN "expired" ELSE t
TokenExpires ==
  /\ token = "valid" /\ Spend("expiry")
  /\ token' = Expires(token)
  /\ wire' = [i \in Index |-> Expires(wire[i])]
  /\ UNCHANGED <<restVars, symbols, session, queue, subs, crash>>

----------------------------------------------------------------------------
Running == crash = "no"

Ticks == \E j \in Index : \E k \in 1..Len(queue[j]) : Timer(j, k)

Next ==
  /\ Running
  /\ \/ RestConnected \/ RestDisconnected
     \/ PublicTokenAck \/ PublicTokenRefused \/ Redirected
     \/ \E s \in Asking : AckSkipped(s) \/ AckError(s)
     \/ \E new \in Lists(Symbols) : ContractsAck(new) \/ Subscribe(new)
     \/ \E i \in Index : StreamConnected(i) \/ Welcome(i) \/ StreamDisconnected(i)
     \/ Ticks
     \/ TokenExpires

Spec == Init /\ [][Next]_vars

\* Connections are tried again, calls complete, the exchange says welcome to a
\* valid token, the timer ticks.
Fairness ==
  /\ WF_vars(Running /\ RestConnected)
  /\ WF_vars(Running /\ PublicTokenAck)
  /\ WF_vars(Running /\ \E new \in Lists(Symbols) : ContractsAck(new))
  /\ \A i \in Index : WF_vars(Running /\ StreamConnected(i))
  /\ \A i \in Index : WF_vars(Running /\ Welcome(i))
  /\ WF_vars(Running /\ Ticks)

FairSpec == Spec /\ Fairness

----------------------------------------------------------------------------
(* Safety. *)

TypeOK ==
  /\ restUp \in BOOLEAN
  /\ restStatus \in {"UNDEFINED", "DISCONNECTED", "DOWNLOADING", "READY"}
  /\ stage \in Asking \cup {"DONE"} \cup (IF restUp THEN {} ELSE {"UNDEFINED"})
  /\ current \in [Asking -> Nat] /\ stale \in [Asking -> Nat]
  /\ token \in {"none", "valid", "expired"} /\ symbols \in Seq(Symbols)
  /\ session \in [Index -> {"absent", "down", "open", "welcome"}]
  /\ wire \in [Index -> {"none", "valid", "expired"}]
  /\ queue \in [Index -> Seq(Symbols)] /\ subs \in [Index -> SUBSET Symbols]
  /\ crash \in {"no", "answer", "ping_frequency"}
  /\ budget \in [FaultKinds -> Nat]

\* While Rest downloads, a call that can complete the stage is outstanding,
\* however reconnects and late errors of lost calls fall.
DownloadAsked == stage \in Asking => current[stage] > 0

\* Rest is ready only on a connection, with a public token.
ReadyIsLoaded == restStatus = "READY" => restUp /\ stage = "DONE" /\ token # "none"

\* Every symbol has one place, in the slice of a stream that exists.
EverySymbolServed ==
  /\ \A j, k \in 1..Len(symbols) : symbols[j] = symbols[k] => j = k
  /\ \A i \in Index : (i - 1) * PerStream < Len(symbols) => session[i] # "absent"

\* In a session each symbol of the slice is subscribed or will be: symbols that
\* came while the stream was away are made up for by the welcome.
NoSymbolForgotten ==
  \A i \in Index : session[i] = "welcome" =>
    Elems(Slice(i, 0, symbols)) \subseteq subs[i] \cup Elems(queue[i])

\* A stream asks for symbols of its own slice only, so that no symbol is
\* delivered twice.
NoForeignSymbol ==
  \A i \in Index :
    subs[i] \cup Elems(queue[i]) \subseteq Elems(Slice(i, 0, symbols))

\* "could create first MarketData here, but this message will always arrive
\* first": streams are created with a token.
TokenFirst ==
  /\ crash # "ping_frequency"
  /\ \A i \in Index : session[i] # "absent" => wire[i] # "none"

----------------------------------------------------------------------------
(* Liveness. *)

\* Each stream ends up with all its symbols subscribed for good, unless its token
\* has expired or a client had it created before there was one.
EventuallySubscribed ==
  \A i \in Index : <>[](\/ crash # "no" \/ session[i] = "absent"
                        \/ wire[i] \in {"none", "expired"}
                        \/ Elems(Slice(i, 0, symbols)) \subseteq subs[i])

\* "Token refresh frequency": an expired public token is replaced.
PublicTokenRefreshed == token = "expired" ~> (token = "valid" \/ crash # "no")
=============================================================================
