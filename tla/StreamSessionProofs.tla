------------------------ MODULE StreamSessionProofs ------------------------
(***************************************************************************)
(* What holds of every stream, for every interval, timeout and tick: the   *)
(* exchange is pinged in time and a handshake is bounded.                  *)
(*                                                                         *)
(* KeptAlive is not inductive: that the exchange has heard a ping in time  *)
(* when a tick comes follows from where the tick before left next_ping_.   *)
(* PingBounded says where: after every tick of a welcome session, half an  *)
(* interval at most has passed since the last ping.                        *)
(***************************************************************************)
EXTENDS StreamSession, TLAPS

\* The strengthening: next_ping_ is at most half an interval away, and unset
\* only until the first tick of the session.
PingBounded ==
  welcome => /\ pingFreq = PingInterval
             /\ pinged => pingAge <= PingInterval \div 2
             /\ ~pinged => pingAge = 0

IInv == TypeOK /\ SessionAgrees /\ HandshakeBounded /\ PingBounded /\ KeptAlive

\* Time moves on within the horizon, and by the step at most.
LEMMA OlderBounds ==
  ASSUME NEW age \in 0..Horizon, NEW d \in 1..MaxStep
  PROVE  /\ Older(age, d) \in 0..Horizon
         /\ Older(age, d) <= age + d
  BY PingAssumption, TimeoutAssumption DEF Older

\* Half an interval and one tick fit into an interval, rounding included.
LEMMA HalfAndStep ==
  ASSUME NEW d \in 1..MaxStep
  PROVE  /\ PingInterval \div 2 \in Nat
         /\ (PingInterval \div 2) + d <= PingInterval
  BY PingAssumption

LEMMA InitIInv == Init => IInv
<1> SUFFICES ASSUME Init PROVE IInv
  OBVIOUS
<1>1. /\ 0 \in 0..Horizon /\ 0 \in 0..MaxLosses
      /\ GivenFreq(stream) \in {0, PingInterval}
  BY TimeoutAssumption, BoundAssumption DEF GivenFreq
<1>2. TypeOK
  BY <1>1 DEF Init, TypeOK, Published
<1>3. SessionAgrees
  BY DEF Init, SessionAgrees
<1>4. HandshakeBounded /\ PingBounded /\ KeptAlive
  BY DEF Init, HandshakeBounded, PingBounded, KeptAlive
<1>5. QED
  BY <1>2, <1>3, <1>4 DEF IInv

\* A tick: the ping is sent in time and an overdue handshake is given up.
LEMMA TimerIInv ==
  ASSUME IInv, NEW d \in 1..MaxStep, Timer(d)
  PROVE  IInv'
<1>0. logonAge \in 0..Horizon /\ pingAge \in 0..Horizon /\ idleAge \in 0..Horizon
  BY DEF IInv, TypeOK
<1> DEFINE age  == Older(pingAge, d)
           ping == link = "ready" /\ welcome /\ PingDue(age)
<1>1. /\ age \in 0..Horizon /\ age <= pingAge + d
      /\ Older(logonAge, d) \in 0..Horizon
      /\ Older(idleAge, d) \in 0..Horizon
  BY <1>0, OlderBounds
<1>2. /\ pinged' = (pinged \/ ping)
      /\ pingAge' = IF ping \/ ~welcome THEN 0 ELSE age
      /\ logonAge' = IF logon THEN Older(logonAge, d) ELSE 0
      /\ closing' = (closing \/ TooLate(Older(logonAge, d)))
      /\ idleAge' = IF link = "down" THEN 0 ELSE Older(idleAge, d)
      /\ silence' = IF welcome THEN age ELSE 0
      /\ UNCHANGED <<stream, link, status, welcome, pingFreq, logon, refused,
                     crash, losses>>
  BY DEF Timer
<1>3. 0 \in 0..Horizon
  BY TimeoutAssumption
<1>4. TypeOK'
  <2>1. /\ logonAge' \in 0..Horizon /\ pingAge' \in 0..Horizon
        /\ idleAge' \in 0..Horizon /\ silence' \in 0..Horizon
    BY <1>1, <1>2, <1>3
  <2>2. pinged' \in BOOLEAN /\ closing' \in BOOLEAN
    BY <1>2 DEF IInv, TypeOK
  <2>3. QED
    BY <1>2, <2>1, <2>2 DEF IInv, TypeOK
<1>5. SessionAgrees'
  BY <1>2 DEF IInv, SessionAgrees
<1>6. HandshakeBounded'
  <2> SUFFICES ASSUME link' = "connected", ~closing' PROVE logonAge' <= LogonTimeout
    BY DEF HandshakeBounded
  <2>1. link = "connected" /\ logon
    BY <1>2 DEF IInv, SessionAgrees
  <2>2. ~(Older(logonAge, d) > LogonTimeout)
    BY <1>2, <2>1 DEF TooLate
  <2>3. QED
    BY <1>1, <1>2, <2>1, <2>2, TimeoutAssumption
<1>7. PingBounded'
  <2>1. welcome' => pingFreq' = PingInterval
    BY <1>2 DEF IInv, PingBounded
  <2>2. CASE ~welcome
    BY <1>2, <2>2 DEF PingBounded
  <2>3. CASE welcome /\ ping
    BY <1>2, <2>1, <2>3, PingAssumption DEF PingBounded
  <2>4. CASE welcome /\ ~ping
    <3>1. link = "ready" /\ pingFreq = PingInterval
      BY <2>4 DEF IInv, SessionAgrees, PingBounded
    <3>2. pinged /\ ~(age > PingInterval \div 2)
      BY <2>4, <3>1 DEF PingDue
    <3>3. age <= PingInterval \div 2
      BY <1>1, <3>2, HalfAndStep
    <3>4. QED
      BY <1>2, <2>1, <2>4, <3>2, <3>3 DEF PingBounded
  <2>5. QED
    BY <2>2, <2>3, <2>4
<1>8. KeptAlive'
  <2>1. CASE ~welcome
    BY <1>2, <2>1 DEF KeptAlive
  <2>2. CASE welcome
    <3>1. pingAge <= PingInterval \div 2
      BY <2>2, HalfAndStep, PingAssumption DEF IInv, PingBounded
    <3>2. age <= PingInterval
      BY <1>0, <1>1, <3>1, HalfAndStep, PingAssumption
    <3>3. QED
      BY <1>2, <2>2, <3>2 DEF KeptAlive
  <2>3. QED
    BY <2>1, <2>2
<1>9. QED
  BY <1>4, <1>5, <1>6, <1>7, <1>8 DEF IInv

LEMMA StepIInv == IInv /\ [Next]_vars => IInv'
<1> SUFFICES ASSUME IInv, [Next]_vars PROVE IInv'
  OBVIOUS
<1> USE PingAssumption, TimeoutAssumption, BoundAssumption DEF IInv
<1>0. 0 \in 0..Horizon /\ GivenFreq(stream) \in {0, PingInterval}
  BY DEF GivenFreq
<1>a. (losses < MaxLosses => losses + 1 \in 0..MaxLosses) /\ losses \in 0..MaxLosses
  BY DEF TypeOK
<1>1. CASE Connected
  <2>1. TypeOK'
    BY <1>1, <1>0 DEF Connected, TypeOK
  <2>2. SessionAgrees'
    BY <1>1 DEF Connected, SessionAgrees
  <2>3. HandshakeBounded' /\ PingBounded' /\ KeptAlive'
    BY <1>1 DEF Connected, SessionAgrees, HandshakeBounded, PingBounded, KeptAlive
  <2>4. QED
    BY <2>1, <2>2, <2>3
<1>2. CASE Ready
  <2>1. TypeOK'
    BY <1>2 DEF Ready, TypeOK, Published
  <2>2. SessionAgrees'
    BY <1>2 DEF Ready, SessionAgrees
  <2>3. HandshakeBounded' /\ PingBounded' /\ KeptAlive'
    BY <1>2 DEF Ready, SessionAgrees, HandshakeBounded, PingBounded, KeptAlive
  <2>4. QED
    BY <2>1, <2>2, <2>3
<1>3. CASE Disconnected
  <2>1. TypeOK'
    <3>1. losses' \in 0..MaxLosses
      BY <1>3, <1>a DEF Disconnected
    <3>2. QED
      BY <1>3, <1>0, <3>1 DEF Disconnected, TypeOK, Published
  <2>2. SessionAgrees'
    BY <1>3 DEF Disconnected, SessionAgrees
  <2>3. HandshakeBounded' /\ PingBounded' /\ KeptAlive'
    BY <1>3 DEF Disconnected, SessionAgrees, HandshakeBounded, PingBounded, KeptAlive
  <2>4. QED
    BY <2>1, <2>2, <2>3
<1>4. CASE WSAuth
  <2>1. TypeOK'
    BY <1>4 DEF WSAuth, TypeOK, Published
  <2>2. SessionAgrees'
    BY <1>4 DEF WSAuth, Receiving, SessionAgrees
  <2>3. HandshakeBounded' /\ PingBounded' /\ KeptAlive'
    BY <1>4 DEF WSAuth, Receiving, SessionAgrees, HandshakeBounded, PingBounded, KeptAlive
  <2>4. QED
    BY <2>1, <2>2, <2>3
<1>5. CASE WSError
  <2>1. TypeOK'
    <3>1. losses' \in 0..MaxLosses
      BY <1>5, <1>a DEF WSError
    <3>2. closing' \in BOOLEAN /\ crash' \in BOOLEAN
      BY <1>5 DEF WSError, TypeOK
    <3>3. QED
      BY <1>5, <3>1, <3>2 DEF WSError, TypeOK
  <2>2. SessionAgrees'
    BY <1>5 DEF WSError, Receiving, SessionAgrees
  <2>3. HandshakeBounded' /\ PingBounded' /\ KeptAlive'
    BY <1>5 DEF WSError, Receiving, SessionAgrees, HandshakeBounded, PingBounded, KeptAlive
  <2>4. QED
    BY <2>1, <2>2, <2>3
<1>6. CASE Welcome
  <2>1. TypeOK'
    BY <1>6, <1>0 DEF Welcome, TypeOK, Published
  <2>2. SessionAgrees'
    BY <1>6 DEF Welcome, Receiving, SessionAgrees
  <2>3. HandshakeBounded' /\ PingBounded' /\ KeptAlive'
    BY <1>6 DEF Welcome, Receiving, SessionAgrees, HandshakeBounded, PingBounded, KeptAlive
  <2>4. QED
    BY <2>1, <2>2, <2>3
<1>7. CASE Update
  <2>1. TypeOK'
    BY <1>7, <1>0 DEF Update, TypeOK
  <2>2. SessionAgrees'
    BY <1>7 DEF Update, Receiving, SessionAgrees
  <2>3. HandshakeBounded' /\ PingBounded' /\ KeptAlive'
    BY <1>7 DEF Update, Receiving, SessionAgrees, HandshakeBounded, PingBounded, KeptAlive
  <2>4. QED
    BY <2>1, <2>2, <2>3
<1>8. ASSUME NEW d \in 1..MaxStep, Timer(d) PROVE IInv'
  BY <1>8, TimerIInv
<1>9. CASE UNCHANGED vars
  <2>1. TypeOK'
    BY <1>9 DEF vars, TypeOK
  <2>2. SessionAgrees' /\ HandshakeBounded' /\ PingBounded' /\ KeptAlive'
    BY <1>9 DEF vars, SessionAgrees, HandshakeBounded, PingBounded, KeptAlive
  <2>3. QED
    BY <2>1, <2>2
<1>10. QED
  BY <1>1, <1>2, <1>3, <1>4, <1>5, <1>6, <1>7, <1>8, <1>9 DEF Next

THEOREM Invariance == Spec => []IInv
  BY InitIInv, StepIInv, PTL DEF Spec

\* Every reachable state is well typed: the ages stay within the horizon, and the
\* status is one that the class of the stream publishes.
THEOREM TypeCorrect == Spec => []TypeOK
  BY Invariance, PTL DEF IInv

\* The exchange is pinged within its interval, whatever the interval and the
\* timer, as long as the timer ticks twice in it (next_ping_ in Timer and
\* send_ping of the three streams).
THEOREM PingsInTime == Spec => []KeptAlive
  BY Invariance, PTL DEF IInv

\* A connection that is not ready after the logon timeout is closed by the first
\* tick that sees it (logon_timeout_ in Timer).
THEOREM HandshakeInTime == Spec => []HandshakeBounded
  BY Invariance, PTL DEF IInv

\* The assertions of the socket handlers hold in every session.
THEOREM SessionCorrect == Spec => []SessionAgrees
  BY Invariance, PTL DEF IInv

\* The timer never closes a session that was welcome.
THEOREM WelcomeSpared == Spec => SparesWelcome
<1>1. IInv /\ [Next]_vars => [welcome /\ ~closing /\ losses' = losses => ~closing']_vars
  <2> SUFFICES ASSUME IInv, Next, welcome, ~closing, losses' = losses
               PROVE  ~closing'
    BY DEF vars
  <2>1. losses \in Nat
    BY BoundAssumption DEF IInv, TypeOK
  <2>2. ~WSError
    <3>1. WSError => losses' = losses + 1
      BY DEF WSError
    <3>2. losses + 1 # losses
      BY <2>1
    <3>3. QED
      BY <3>1, <3>2
  <2>3. ASSUME NEW d \in 1..MaxStep, Timer(d) PROVE ~closing'
    BY <2>3 DEF Timer, TooLate, IInv, SessionAgrees
  <2>4. QED
    BY <2>2, <2>3 DEF Next, Connected, Ready, Disconnected, WSAuth, Welcome, Update
<1>2. QED
  BY <1>1, Invariance, PTL DEF Spec, SparesWelcome

\* What the timer may do to a socket that is ready: nothing, with a welcome or
\* without.  Only a failure, a refused login or the idle timeout ends it.
ReadyStands ==
  link = "ready" /\ ~closing /\ ~Idle /\ losses' = losses =>
    link' = "ready" /\ ~closing'

\* The branch of Timer that speaks of a missing welcome closes no socket that is
\* ready: DropCopy and OrderEntryWS, without an idle timeout, stay as they are.
THEOREM WatchdogBlind == Spec => [][ReadyStands]_vars
<1>1. IInv /\ [Next]_vars => [ReadyStands]_vars
  <2> SUFFICES ASSUME IInv, Next, link = "ready", ~closing, ~Idle, losses' = losses
               PROVE  link' = "ready" /\ ~closing'
    BY DEF vars, ReadyStands
  <2>1. losses + 1 # losses
    BY BoundAssumption DEF IInv, TypeOK
  <2>2. ~WSError /\ ~Disconnected
    BY <2>1 DEF WSError, Disconnected
  <2>3. ASSUME NEW d \in 1..MaxStep, Timer(d) PROVE link' = "ready" /\ ~closing'
    BY <2>3 DEF Timer, TooLate
  <2> QED BY <2>2, <2>3 DEF Next, Connected, Ready, WSAuth, Welcome, Update
<1> QED BY <1>1, Invariance, PTL DEF Spec
=============================================================================
