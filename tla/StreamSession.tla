--------------------------- MODULE StreamSession ---------------------------
(***************************************************************************)
(* The life of one web socket of the gateway, against the clock.           *)
(*                                                                         *)
(* MarketData, OrderEntryWS and DropCopy handle their sockets in the same  *)
(* way: logon_timeout_ is set when the transport connects, the exchange's  *)
(* welcome starts the session, and from then on the timer sends a ping     *)
(* when next_ping_ has passed.  They differ in what they publish and in    *)
(* where the ping frequency comes from, so the stream is a variable that   *)
(* never changes.  AccountSync models what DropCopy does once welcome; it  *)
(* leaves out the time and the pings, which are the subject here.          *)
(*                                                                         *)
(* Time passes at the ticks of the timer.  Deadlines are kept as the time  *)
(* that has passed since they were set: logon_timeout_ < now says that     *)
(* more than LogonTimeout has passed since the connection.                 *)
(***************************************************************************)
EXTENDS Naturals

CONSTANTS
  PingInterval,   \* what the exchange allows between two pings
  LogonTimeout,   \* ws.request_timeout
  IdleTimeout,    \* net.disconnect_on_idle_timeout, MarketData only
  RetryLogon,     \* flag experimental.retry_logon
  MaxStep,        \* longest time between two ticks of the timer
  Horizon,        \* bound: a longer time is not told apart from this one
  MaxLosses       \* bound: how often the network fails

Streams == {"MarketData", "OrderEntryWS", "DropCopy"}

\* The timer ticks at least twice in an interval.
ASSUME PingAssumption ==
  /\ PingInterval \in Nat \ {0, 1}
  /\ MaxStep \in Nat \ {0} /\ 2 * MaxStep <= PingInterval
ASSUME TimeoutAssumption ==
  /\ LogonTimeout \in Nat /\ IdleTimeout \in Nat /\ Horizon \in Nat
  /\ PingInterval < Horizon /\ LogonTimeout < Horizon /\ IdleTimeout < Horizon
ASSUME BoundAssumption == RetryLogon \in BOOLEAN /\ MaxLosses \in Nat

VARIABLES
  stream,    \* which of the three
  link,      \* the web socket client
  closing,   \* it was told to close
  status,    \* connection_status_
  welcome,   \* welcome_
  pingFreq,  \* ping_frequency_, ping_freq_
  logon,     \* logon_timeout_ is set
  logonAge,  \* time since it was set
  pinged,    \* next_ping_ is set
  pingAge,   \* time since the last ping, or since the welcome
  idleAge,   \* time since the connection or the last touch
  refused,   \* the exchange has refused this session's login
  crash,     \* log::fatal has ended the process
  losses,    \* times the network has failed
  silence    \* history: what the exchange had gone without a ping at the last tick

vars == <<stream, link, closing, status, welcome, pingFreq, logon, logonAge,
          pinged, pingAge, idleAge, refused, crash, losses, silence>>

Older(age, d) == IF age + d > Horizon THEN Horizon ELSE age + d

\* OrderEntryWS learns the frequency from the welcome, the others are built with it.
GivenFreq(s) == IF s = "OrderEntryWS" THEN 0 ELSE PingInterval

Init ==
  /\ stream \in Streams
  /\ link = "down" /\ closing = FALSE
  /\ status = "UNDEFINED" /\ welcome = FALSE
  /\ pingFreq = GivenFreq(stream)
  /\ logon = FALSE /\ logonAge = 0
  /\ pinged = FALSE /\ pingAge = 0 /\ idleAge = 0
  /\ refused = FALSE /\ crash = FALSE /\ losses = 0 /\ silence = 0

----------------------------------------------------------------------------
(* The socket. *)

Connected ==
  /\ link = "down"
  /\ link' = "connected" /\ logon' = TRUE /\ logonAge' = 0 /\ idleAge' = 0
  /\ UNCHANGED <<stream, closing, status, welcome, pingFreq, pinged, pingAge,
                 refused, crash, losses, silence>>

\* (Mutation of Ready: every stream publishes that the login is sent.)
ReadyAlwaysLogin ==
  /\ link = "connected" /\ ~closing
  /\ link' = "ready" /\ status' = "LOGIN_SENT"
  /\ UNCHANGED <<stream, closing, welcome, pingFreq, logon, logonAge, pinged,
                 pingAge, idleAge, refused, crash, losses, silence>>

\* MarketData has nothing to publish yet.
Ready ==
  /\ link = "connected" /\ ~closing
  /\ link' = "ready"
  /\ status' = IF stream = "MarketData" THEN status ELSE "LOGIN_SENT"
  /\ UNCHANGED <<stream, closing, welcome, pingFreq, logon, logonAge, pinged,
                 pingAge, idleAge, refused, crash, losses, silence>>

\* (Mutation of Idle: the socket of MarketData is built without the timeout.)
IdleNever == FALSE

\* The client of MarketData disconnects a socket that has long not been touched.
Idle == stream = "MarketData" /\ IdleTimeout > 0 /\ idleAge > IdleTimeout

\* The socket closes on request, because it is idle, or because it is lost.
Disconnected ==
  /\ link # "down"
  /\ \/ (closing \/ Idle) /\ UNCHANGED losses
     \/ losses < MaxLosses /\ losses' = losses + 1
  /\ link' = "down" /\ closing' = FALSE
  /\ status' = "DISCONNECTED" /\ welcome' = FALSE
  /\ pingFreq' = GivenFreq(stream)
  /\ logon' = FALSE /\ logonAge' = 0
  /\ pinged' = FALSE /\ pingAge' = 0 /\ idleAge' = 0 /\ refused' = FALSE
  /\ UNCHANGED <<stream, crash, silence>>

----------------------------------------------------------------------------
(* The exchange. *)

Receiving == link = "ready" /\ ~closing

\* The challenge of the order entry socket is answered.
WSAuth ==
  /\ Receiving /\ stream = "OrderEntryWS" /\ ~welcome
  /\ status' = "LOGIN_SENT"
  /\ UNCHANGED <<stream, link, closing, welcome, pingFreq, logon, logonAge,
                 pinged, pingAge, idleAge, refused, crash, losses, silence>>

\* (Mutation of WSError: the refusal is only logged.)
WSErrorLogged ==
  /\ Receiving /\ stream = "OrderEntryWS"
  /\ losses < MaxLosses /\ losses' = losses + 1
  /\ refused' = TRUE
  /\ UNCHANGED <<stream, link, closing, status, welcome, pingFreq, logon,
                 logonAge, pinged, pingAge, idleAge, crash, silence>>

\* The login is refused, or no longer good: close and try again, or give up.
WSError ==
  /\ Receiving /\ stream = "OrderEntryWS"
  /\ losses < MaxLosses /\ losses' = losses + 1
  /\ refused' = TRUE
  /\ IF RetryLogon THEN closing' = TRUE /\ UNCHANGED crash
     ELSE crash' = TRUE /\ UNCHANGED closing
  /\ UNCHANGED <<stream, link, status, welcome, pingFreq, logon, logonAge,
                 pinged, pingAge, idleAge, silence>>

\* DropCopy starts its download, the others are ready.
Welcome ==
  /\ Receiving /\ ~welcome /\ ~refused
  /\ welcome' = TRUE
  /\ status' = IF stream = "DropCopy" THEN "DOWNLOADING" ELSE "READY"
  /\ pingFreq' = PingInterval
  /\ pingAge' = 0 /\ silence' = 0
  /\ idleAge' = IF stream = "MarketData" THEN 0 ELSE idleAge
  /\ UNCHANGED <<stream, link, closing, logon, logonAge, pinged, refused, crash,
                 losses>>

\* Market data touches the connection; acks and pongs do not.
Update ==
  /\ Receiving /\ stream = "MarketData" /\ welcome
  /\ idleAge' = 0
  /\ UNCHANGED <<stream, link, closing, status, welcome, pingFreq, logon,
                 logonAge, pinged, pingAge, refused, crash, losses, silence>>

----------------------------------------------------------------------------
(* The timer, d after the previous tick. *)

\* (Mutation of PingDue: next_ping_ is a whole interval away.)
PingDueLate(age) == ~pinged \/ age > pingFreq

\* next_ping_ < now: not set since the welcome, or half the interval ago.
PingDue(age) == ~pinged \/ age > pingFreq \div 2

\* (Mutation of TooLate: the logon timeout is not looked at.)
TooLateNever(age) == FALSE

\* (Mutation of TooLate: the socket need not be waiting to be ready.)
TooLateWhenReady(age) == logon /\ age > LogonTimeout

\* logon_timeout_ < now, looked at only while the socket is not ready.
TooLate(age) == link # "ready" /\ logon /\ age > LogonTimeout

Timer(d) ==
  /\ LET ping == link = "ready" /\ welcome /\ PingDue(Older(pingAge, d)) IN
       /\ pinged' = (pinged \/ ping)
       /\ pingAge' = IF ping \/ ~welcome THEN 0 ELSE Older(pingAge, d)
  /\ logonAge' = IF logon THEN Older(logonAge, d) ELSE 0
  /\ closing' = (closing \/ TooLate(Older(logonAge, d)))
  /\ idleAge' = IF link = "down" THEN 0 ELSE Older(idleAge, d)
  /\ silence' = IF welcome THEN Older(pingAge, d) ELSE 0
  /\ UNCHANGED <<stream, link, status, welcome, pingFreq, logon, refused, crash,
                 losses>>

Next ==
  /\ ~crash
  /\ \/ Connected
     \/ Ready
     \/ Disconnected
     \/ WSAuth
     \/ WSError
     \/ Welcome
     \/ Update
     \/ \E d \in 1..MaxStep : Timer(d)

Spec == Init /\ [][Next]_vars

----------------------------------------------------------------------------
(* Safety. *)

\* What each stream can publish.
Published(s) ==
  {"UNDEFINED", "DISCONNECTED"}
    \cup (IF s = "MarketData" THEN {} ELSE {"LOGIN_SENT"})
    \cup (IF s = "DropCopy" THEN {"DOWNLOADING"} ELSE {"READY"})

TypeOK ==
  /\ stream \in Streams /\ link \in {"down", "connected", "ready"}
  /\ closing \in BOOLEAN /\ welcome \in BOOLEAN /\ logon \in BOOLEAN
  /\ pinged \in BOOLEAN /\ refused \in BOOLEAN /\ crash \in BOOLEAN
  /\ status \in Published(stream)
  /\ pingFreq \in {0, PingInterval}
  /\ logonAge \in 0..Horizon /\ pingAge \in 0..Horizon /\ idleAge \in 0..Horizon
  /\ silence \in 0..Horizon
  /\ losses \in 0..MaxLosses

\* From the welcome on the exchange never goes longer than the interval it
\* asked for without a ping: half the interval, and the strict comparison in
\* Timer, leave room for one late tick.
KeptAlive == welcome => silence <= PingInterval

\* A connection that does not become ready is given up after the logon timeout.
HandshakeBounded == link = "connected" /\ ~closing => logonAge <= LogonTimeout

\* What is kept of a session agrees with the socket, so that the assertions of
\* Connected (no logon timeout yet), Timer (no welcome while the socket is not
\* ready) and send_ping (a frequency is known) hold.
SessionAgrees ==
  /\ logon <=> link # "down"
  /\ welcome => link = "ready" /\ pingFreq > 0
  /\ welcome <=> status \in {"READY", "DOWNLOADING"}
  /\ pinged => welcome

----------------------------------------------------------------------------
(* Liveness. *)

\* The timer ticks, the client closes when told to and reconnects.
Fairness ==
  /\ WF_vars(~crash /\ Connected)
  /\ WF_vars(~crash /\ (closing \/ Idle) /\ Disconnected)
  /\ WF_vars(~crash /\ \E d \in 1..MaxStep : Timer(d))

\* The exchange may accept connections and never say welcome.
FairSpec == Spec /\ Fairness

\* Of the connections tried again and again, some become ready in time, and of
\* the sessions that could get a welcome, some get it.
ExchangeAnswers == SF_vars(~crash /\ Ready) /\ SF_vars(~crash /\ Welcome)

\* Once the network stops failing, an exchange that answers gives the stream a
\* session again, unless the login was refused and the flag says to give up.
Reconnects ==
  ExchangeAnswers => []<>(status \in {"READY", "DOWNLOADING"} \/ crash)

\* The watchdog spares a session that was welcome: nothing but a failure closes
\* it, though logon_timeout_ stays set until the socket is disconnected.
SparesWelcome ==
  [][welcome /\ ~closing /\ losses' = losses => ~closing']_vars

\* The idle timeout ends a market data stream that gets no welcome.
MarketDataGivesUp ==
  (stream = "MarketData" /\ link = "ready" /\ ~welcome)
    ~> (welcome \/ link # "ready" \/ crash)

\* "Did not receive the welcome message, disconnecting now...": a socket that
\* gets no welcome is disconnected.
WelcomeWatchdog ==
  (link = "ready" /\ ~welcome) ~> (welcome \/ link # "ready" \/ crash)
=============================================================================
