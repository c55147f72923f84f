------------------------- MODULE AccountSyncProofs -------------------------
(* What AccountSync guarantees for every set of orders, every choice of the  *)
(* flags and every number of faults.                                        *)
EXTENDS AccountSync, FiniteSetTheorems, TLAPS

USE OrdersAssumption, FlagsAssumption, FaultsAssumption

\* Where OrderEntryREST stands: requests are sent only on a connection, and a
\* new connection starts without calls of the old one.
RestAgrees ==
  /\ restStatus = "READY" => restUp
  /\ restState = "PRIVATE_TOKEN" => restUp
  /\ lost # {} => ~restUp
  /\ live # {} => restUp

\* A subscription awaits its ack only in the stage that sent it.
SubscribeAgrees == subscribing => state \in Subs

\* One request is in flight at most.
OneInFlight == \A j, k \in sent : j = k

\* A batch of stale orders counts as sent, and no call of it is outstanding: no
\* answer will ever commit it.
EmptyBatch == "stale_orders" \in sent /\ Outstanding \cap Orders = {}

\* SentIsOutstanding but for an empty batch.
SentAccounted ==
  /\ \A k \in Kinds \ {"private_token", "stale_orders"} :
       k \in sent <=> k \in Outstanding
  /\ "private_token" \in sent => "private_token" \in Outstanding
  /\ Outstanding \cap Orders # {} => "stale_orders" \in sent
  /\ "stale_orders" \in sent =>
       OmsForgets \/ Outstanding \cap Orders # {}

\* The inductive invariant.
Inv ==
  /\ TypeOK
  /\ RestAgrees
  /\ SubscribeAgrees
  /\ StaleCounterExact
  /\ CounterNeverUnderflows
  /\ SentAccounted
  /\ OneInFlight
  /\ NoLostStaleOrder
  /\ NoSkippedSnapshot
  /\ AwaitedOnItsWay
  /\ SessionAgrees

\* A finite set of outstanding calls never has a negative or a wrong size:
\* removing one order takes one off, and only the empty set counts zero.
LEMMA OutstandingFinite ==
  ASSUME NEW S, S \subseteq Calls
  PROVE  /\ IsFiniteSet(S \cap Orders)
         /\ Cardinality(S \cap Orders) \in Nat
         /\ Cardinality(S \cap Orders) = 0 <=> S \cap Orders = {}
         /\ \A o \in S \cap Orders :
              Cardinality((S \ {o}) \cap Orders) = Cardinality(S \cap Orders) - 1
<1>1. IsFiniteSet(S \cap Orders)
  BY FS_Subset
<1>2. Cardinality(S \cap Orders) \in Nat
  BY <1>1, FS_CardinalityType
<1>3. Cardinality(S \cap Orders) = 0 <=> S \cap Orders = {}
  BY <1>1, FS_EmptySet
<1>4. ASSUME NEW o \in S \cap Orders
      PROVE  Cardinality((S \ {o}) \cap Orders) = Cardinality(S \cap Orders) - 1
  <2>1. (S \ {o}) \cap Orders = (S \cap Orders) \ {o}
    OBVIOUS
  <2> QED
    BY <1>1, <2>1, FS_RemoveElement
<1> QED
  BY <1>1, <1>2, <1>3, <1>4

LEMMA CallKinds ==
  /\ {"private_token", "balances", "positions", "open_orders", "trades"}
       \subseteq Calls \cap Kinds
  /\ "stale_orders" \in Kinds
  /\ \A k \in Kinds \ {"stale_orders"} : k \in Calls /\ k \notin Orders
  /\ Orders \subseteq Calls
  BY DEF Calls, Kinds

\* A fault is spent from a budget of naturals.
LEMMA SpendType ==
  ASSUME budget \in [FaultKinds -> Nat], NEW f \in FaultKinds, Spend(f)
  PROVE  budget' \in [FaultKinds -> Nat]
  BY DEF Spend

LEMMA FaultNames ==
  {"rest", "stream", "expiry", "stale", "error", "reject"} \subseteq FaultKinds
  BY DEF FaultKinds

\* A stage is followed by a stage, and a GET stage asks for a snapshot.
LEMMA Stage ==
  /\ \A s \in Stages : \A d : NextStage(s, d) \in Stages \ {"UNDEFINED"}
  /\ \A t \in Stages : Asked(t) \subseteq Kinds
  BY DEF NextStage, Follows, Stages, Subs, Gets, Asked, Asks, Kinds

THEOREM InitInv == Init => Inv
<1> SUFFICES ASSUME Init PROVE Inv
  OBVIOUS
<1>1. TypeOK
  BY DEF Init, TypeOK, Stages, Subs, Gets, Calls, Kinds, Snapshots
<1>2. StaleCounterExact
  BY FS_EmptySet DEF Init, StaleCounterExact, Outstanding
<1>3. RestAgrees /\ SubscribeAgrees /\ CounterNeverUnderflows
  BY DEF Init, RestAgrees, SubscribeAgrees, CounterNeverUnderflows
<1>4. SentAccounted /\ OneInFlight /\ NoLostStaleOrder
  BY DEF Init, SentAccounted, OneInFlight, NoLostStaleOrder, Outstanding
<1>5. NoSkippedSnapshot /\ SessionAgrees
  BY DEF Init, NoSkippedSnapshot, SessionAgrees, Subscribed, Stages
<1>6. AwaitedOnItsWay
  BY DEF Init, AwaitedOnItsWay, Gets, Subs
<1> QED
  BY <1>1, <1>2, <1>3, <1>4, <1>5, <1>6 DEF Inv


----------------------------------------------------------------------------
(* Type correctness, action by action. *)

LEMMA TypeRest ==
  ASSUME Inv, RestNext PROVE TypeOK'
<1> USE DEF Inv, TypeOK, restVars, callVars, boardVars, linkVars, dcVars
<1>1. CASE RestConnected
  BY <1>1, CallKinds DEF RestConnected
<1>2. CASE RestDisconnected
  <2>1. /\ restUp' \in BOOLEAN /\ restState' = "UNDEFINED"
        /\ restStatus' = "DISCONNECTED"
        /\ lost' \subseteq Calls /\ live' \subseteq Calls
    BY <1>2 DEF RestDisconnected
  <2>2. budget' \in [FaultKinds -> Nat]
    BY <1>2, SpendType, FaultNames DEF RestDisconnected
  <2>3. UNCHANGED <<hasToken, counter, boardVars, linkVars, dcVars,
                    stale, crash, fresh>>
    BY <1>2 DEF RestDisconnected
  <2> QED
    BY <2>1, <2>2, <2>3
<1>3. CASE GetPrivateTokenAckOk
  <2>1. /\ socket' \in {"absent", "down", "connected", "ready"}
        /\ suspended' \in BOOLEAN /\ query' = "valid" /\ hasToken' = TRUE
        /\ restState' \in {"UNDEFINED", "PRIVATE_TOKEN", "DONE"}
        /\ restStatus' \in {"UNDEFINED", "DISCONNECTED", "DOWNLOADING", "READY"}
    BY <1>3 DEF GetPrivateTokenAckOk
  <2>2. /\ live' \subseteq Calls /\ UNCHANGED <<lost, budget>>
        /\ sent' \subseteq Kinds /\ response' \subseteq Kinds
    BY <1>3, CallKinds DEF GetPrivateTokenAckOk, Answered, Commit
  <2>3. UNCHANGED <<restUp, counter, pending, details, closing, wire, logon,
                    simulated, status, state, ready, welcome, subscribing,
                    stale, crash, fresh>>
    BY <1>3 DEF GetPrivateTokenAckOk
  <2> QED
    BY <2>1, <2>2, <2>3
<1>4. CASE GetPrivateTokenAckError
  BY <1>4, CallKinds, SpendType, FaultNames
     DEF GetPrivateTokenAckError, Failed, Commit
<1>5. CASE GetPrivateTokenAckRejected
  BY <1>5, SpendType, FaultNames DEF GetPrivateTokenAckRejected
<1>6. CASE GetAccountAck
  BY <1>6, CallKinds, SpendType, FaultNames
     DEF GetAccountAck, SnapshotAck, Answered, Failed, Commit
<1>7. CASE GetPositionsAck
  BY <1>7, CallKinds, SpendType, FaultNames
     DEF GetPositionsAck, SnapshotAck, Answered, Failed, Commit
<1>8. CASE GetOrdersAck
  BY <1>8, CallKinds, SpendType, FaultNames
     DEF GetOrdersAck, SnapshotAck, Answered, Failed, Commit
<1>9. CASE GetFillsAck
  BY <1>9, CallKinds, SpendType, FaultNames
     DEF GetFillsAck, SnapshotAck, Answered, Failed, Commit
<1>10. ASSUME NEW o \in Orders, GetOrderAck(o)
       PROVE  TypeOK'
  BY <1>10, CallKinds, SpendType, FaultNames
     DEF GetOrderAck, Answered, Failed, Commit
<1>11. CASE Redirected
  BY <1>11, SpendType, FaultNames DEF Redirected
<1> QED
  BY <1>1, <1>2, <1>3, <1>4, <1>5, <1>6, <1>7, <1>8, <1>9, <1>10, <1>11
     DEF RestNext

LEMMA TypeDropCopy ==
  ASSUME Inv, DropCopyNext PROVE TypeOK'
<1> USE DEF Inv, TypeOK, restVars, callVars, boardVars, linkVars, dcVars
<1>1. CASE DropCopyConnected
  BY <1>1 DEF DropCopyConnected
<1>2. CASE DropCopyReady
  BY <1>2 DEF DropCopyReady
<1>3. CASE DropCopyDisconnected
  <2>1. /\ socket' \in {"absent", "down", "connected", "ready"}
        /\ closing' \in BOOLEAN /\ logon' \in BOOLEAN
        /\ ready' \in BOOLEAN /\ welcome' \in BOOLEAN /\ subscribing' \in BOOLEAN
        /\ status' \in {"UNDEFINED", "DISCONNECTED", "LOGIN_SENT",
                        "DOWNLOADING", "READY"}
    BY <1>3 DEF DropCopyDisconnected
  <2>2. budget' \in [FaultKinds -> Nat]
    BY <1>3, SpendType, FaultNames DEF DropCopyDisconnected
  <2>3. UNCHANGED <<suspended, wire, simulated, query, restVars, callVars,
                    boardVars, stale, crash>>
    BY <1>3 DEF DropCopyDisconnected
  <2>4. state' \in Stages
    BY <1>3 DEF DropCopyDisconnected, Stages
  <2>5. fresh' \subseteq Snapshots
    BY <1>3 DEF DropCopyDisconnected
  <2> QED
    BY <2>1, <2>2, <2>3, <2>4, <2>5
<1>4. CASE DropCopyWelcome
  BY <1>4, Stage DEF DropCopyWelcome, EnterStage, Stages
<1>5. CASE DropCopyAck
  BY <1>5, Stage DEF DropCopyAck, EnterStage
<1>6. CASE DropCopyError
  BY <1>6, CallKinds DEF DropCopyError
<1>7. ASSUME NEW o \in Orders, DropCopyOrderChange(o)
      PROVE  TypeOK'
  BY <1>7 DEF DropCopyOrderChange
<1> QED
  BY <1>1, <1>2, <1>3, <1>4, <1>5, <1>6, <1>7 DEF DropCopyNext

LEMMA TypeEnv ==
  ASSUME Inv, EnvNext PROVE TypeOK'
<1> USE DEF Inv, TypeOK, restVars, callVars, boardVars, linkVars, dcVars
<1>1. CASE SuspendElapsed
  <2>1. suspended' \in BOOLEAN
    BY <1>1 DEF SuspendElapsed
  <2>2. UNCHANGED <<socket, closing, wire, logon, simulated, dcVars, restVars,
                    callVars, boardVars, stale, crash, budget, fresh>>
    BY <1>1 DEF SuspendElapsed
  <2> QED
    BY <2>1, <2>2
<1>2. CASE TokenExpires
  BY <1>2, SpendType, FaultNames DEF TokenExpires, Expired
<1>3. ASSUME NEW o \in Orders, OrderTurnsStale(o)
      PROVE  TypeOK'
  BY <1>3, SpendType, FaultNames DEF OrderTurnsStale
<1> QED
  BY <1>1, <1>2, <1>3 DEF EnvNext

\* DropCopy's part of a tick, on any board that OrderEntryREST may have left.
LEMMA TypeDropCopyTimer ==
  ASSUME Inv, NEW p \in SUBSET Kinds, NEW r \in SUBSET Kinds,
         NEW d \in SUBSET Orders, NEW due \in BOOLEAN, NEW expire \in BOOLEAN,
         DropCopyTimer(p, r, d, due, expire)
  PROVE  /\ pending' \subseteq Kinds /\ response' \subseteq Kinds
         /\ details' \subseteq Orders
         /\ socket' \in {"absent", "down", "connected", "ready"}
         /\ closing' \in BOOLEAN /\ suspended' \in BOOLEAN /\ logon' \in BOOLEAN
         /\ status' \in {"UNDEFINED", "DISCONNECTED", "LOGIN_SENT",
                         "DOWNLOADING", "READY"}
         /\ state' \in Stages /\ ready' \in BOOLEAN /\ welcome' \in BOOLEAN
         /\ subscribing' \in BOOLEAN /\ simulated' \in BOOLEAN
         /\ query' \in {"none", "valid", "expired"}
         /\ wire' \in {"none", "valid", "expired"}
         /\ crash' \in {"no", "answer", "counter", "leftover"}
         /\ budget' \in [FaultKinds -> Nat]
<1> USE DEF Inv, TypeOK, linkVars, dcVars
<1>1. CASE DropCopyAbsent(p, r, d)
  BY <1>1 DEF DropCopyAbsent
<1>2. CASE DropCopyWait(p, r, d, expire)
  <2>1. /\ pending' \subseteq Kinds /\ response' \subseteq Kinds
        /\ details' \subseteq Orders
    BY <1>2, CallKinds DEF DropCopyWait
  <2>2. query' \in {"none", "valid", "expired"}
    BY <1>2 DEF DropCopyWait
  <2>3. suspended' \in BOOLEAN /\ closing' \in BOOLEAN /\ simulated' \in BOOLEAN
    BY <1>2 DEF DropCopyWait
  <2>4. budget' \in [FaultKinds -> Nat]
    BY <1>2, SpendType, FaultNames DEF DropCopyWait
  <2>5. UNCHANGED <<socket, wire, logon, status, state, ready, welcome,
                    subscribing, crash>>
    BY <1>2 DEF DropCopyWait
  <2> QED
    BY <2>1, <2>2, <2>3, <2>4, <2>5
<1>3. CASE DropCopyFatal(p, r, d)
  BY <1>3 DEF DropCopyFatal
<1>4. CASE DropCopyPoll(p, r, d, due, expire)
  <2> DEFINE t == IF Completes(r) THEN NextStage(state, Noted(r, d)) ELSE state
  <2>1. t \in Stages /\ Asked(t) \subseteq Kinds
    BY Stage
  <2>2. /\ state' \in Stages /\ ready' \in BOOLEAN /\ subscribing' \in BOOLEAN
        /\ status' \in {"UNDEFINED", "DISCONNECTED", "LOGIN_SENT",
                        "DOWNLOADING", "READY"}
    <3>1. CASE Completes(r)
      BY <1>4, <2>1, <3>1 DEF DropCopyPoll, EnterStage
    <3>2. CASE ~Completes(r)
      BY <1>4, <3>2 DEF DropCopyPoll
    <3> QED
      BY <3>1, <3>2
  <2>3. details' \subseteq Orders /\ pending' \subseteq Kinds
    BY <1>4, <2>1, CallKinds DEF DropCopyPoll, Noted
  <2>4. response' \subseteq Kinds
    BY <1>4 DEF DropCopyPoll
  <2>5. /\ query' \in {"none", "valid", "expired"} /\ suspended' \in BOOLEAN
        /\ closing' \in BOOLEAN /\ simulated' \in BOOLEAN
    BY <1>4 DEF DropCopyPoll
  <2>6. UNCHANGED <<socket, wire, logon, welcome, crash, budget>>
    BY <1>4 DEF DropCopyPoll
  <2> QED
    BY <2>2, <2>3, <2>4, <2>5, <2>6
<1> QED
  BY <1>1, <1>2, <1>3, <1>4 DEF DropCopyTimer

LEMMA TypeTimer ==
  ASSUME Inv, Timer PROVE TypeOK'
<1> PICK due \in BOOLEAN, expire \in BOOLEAN :
      \/ \E k \in Kinds, batch \in SUBSET Orders :
           TimerSend(k, batch, due, expire)
      \/ TimerIdle(due, expire)
  BY DEF Timer
<1>1. ASSUME NEW k \in Kinds, NEW batch \in SUBSET Orders,
             TimerSend(k, batch, due, expire)
      PROVE  TypeOK'
  <2> DEFINE d == IF k = "stale_orders" THEN {} ELSE details
  <2>1. /\ pending \ {k} \in SUBSET Kinds /\ response \in SUBSET Kinds
        /\ d \in SUBSET Orders
    BY DEF Inv, TypeOK
  <2>2. DropCopyTimer(pending \ {k}, response, d, due, expire)
    BY <1>1 DEF TimerSend
  <2>3. IsFiniteSet(batch) /\ Cardinality(batch) \in Nat
    BY FS_Subset, FS_CardinalityType
  <2>4. /\ counter' \in Nat /\ live' \subseteq Calls /\ lost' \subseteq Calls
        /\ sent' \subseteq Kinds /\ fresh' \subseteq Snapshots
    BY <1>1, <2>3, CallKinds DEF TimerSend, RestSend, Inv, TypeOK
  <2>5. UNCHANGED <<restVars, stale>>
    BY <1>1 DEF TimerSend
  <2> HIDE DEF d
  <2> QED
    BY <2>1, <2>2, <2>4, <2>5, TypeDropCopyTimer DEF Inv, TypeOK, restVars
<1>2. CASE TimerIdle(due, expire)
  <2>1. DropCopyTimer(pending, response, details, due, expire)
    BY <1>2 DEF TimerIdle
  <2>2. UNCHANGED <<restVars, stale, callVars, sent, fresh>>
    BY <1>2 DEF TimerIdle, RestIdle
  <2>3. /\ pending \in SUBSET Kinds /\ response \in SUBSET Kinds
        /\ details \in SUBSET Orders
    BY DEF Inv, TypeOK
  <2> QED
    BY <2>1, <2>2, <2>3, TypeDropCopyTimer DEF Inv, TypeOK, restVars, callVars
<1> QED
  BY <1>1, <1>2

LEMMA TypeStep ==
  ASSUME Inv, [Next]_vars PROVE TypeOK'
<1>1. CASE UNCHANGED vars
  BY <1>1 DEF Inv, TypeOK, vars, restVars, callVars, boardVars, linkVars, dcVars
<1> QED
  BY <1>1, TypeRest, TypeDropCopy, TypeEnv, TypeTimer DEF Next


----------------------------------------------------------------------------
(* What each group of actions leaves alone. *)

LEMMA FrameRest ==
  ASSUME RestNext
  PROVE  UNCHANGED <<pending, details, fresh, state, status, ready, welcome,
                     subscribing, logon>>
<1> USE DEF restVars, callVars, boardVars, linkVars, dcVars
<1>1. ASSUME NEW o \in Orders, GetOrderAck(o)
      PROVE  UNCHANGED <<pending, details, fresh, state, status, ready,
                         welcome, subscribing, logon>>
  BY <1>1 DEF GetOrderAck
<1> QED
  BY <1>1 DEF RestNext, RestConnected, RestDisconnected, GetPrivateTokenAckOk,
              GetPrivateTokenAckError, GetPrivateTokenAckRejected, Redirected,
              GetAccountAck, GetPositionsAck, GetOrdersAck, GetFillsAck,
              SnapshotAck

LEMMA FrameDropCopy ==
  ASSUME DropCopyNext
  PROVE  UNCHANGED <<restVars, callVars, sent, details, crash>>
<1> USE DEF restVars, callVars, boardVars, linkVars, dcVars
<1>1. ASSUME NEW o \in Orders, DropCopyOrderChange(o)
      PROVE  UNCHANGED <<restVars, callVars, sent, details, crash>>
  BY <1>1 DEF DropCopyOrderChange
<1> QED
  BY <1>1 DEF DropCopyNext, DropCopyConnected, DropCopyReady,
              DropCopyDisconnected, DropCopyWelcome, DropCopyAck, DropCopyError

LEMMA FrameEnv ==
  ASSUME EnvNext
  PROVE  UNCHANGED <<restVars, callVars, boardVars, fresh, crash, socket,
                     state, status, ready, welcome, subscribing, logon>>
  BY DEF EnvNext, SuspendElapsed, TokenExpires, OrderTurnsStale,
         restVars, callVars, boardVars, linkVars, dcVars

LEMMA FrameTimer ==
  ASSUME NEW p, NEW r, NEW d, NEW due, NEW expire,
         DropCopyTimer(p, r, d, due, expire)
  PROVE  /\ UNCHANGED <<socket, logon, welcome>>
         /\ crash' \in {crash, "leftover"}
  BY DEF DropCopyTimer, DropCopyAbsent, DropCopyWait, DropCopyFatal,
         DropCopyPoll, linkVars, dcVars

\* A tick is OrderEntryREST's part, which may send a request k, followed by
\* DropCopy's part on the board (p, d) that is left.
LEMMA TimerParts ==
  ASSUME Timer
  PROVE  \E due \in BOOLEAN, expire \in BOOLEAN :
           \/ \E k \in Kinds, batch \in SUBSET Orders :
                /\ RestSend(k, batch)
                /\ DropCopyTimer(pending \ {k}, response,
                     IF k = "stale_orders" THEN {} ELSE details, due, expire)
                /\ UNCHANGED <<restVars, stale>>
           \/ /\ UNCHANGED <<callVars, sent, fresh>>
              /\ DropCopyTimer(pending, response, details, due, expire)
              /\ UNCHANGED <<restVars, stale>>
  BY DEF Timer, TimerSend, TimerIdle, RestIdle

----------------------------------------------------------------------------
(* OrderEntryREST's own state. *)

LEMMA RestAgreesStep ==
  ASSUME Inv, [Next]_vars PROVE RestAgrees'
<1> USE DEF Inv, RestAgrees, restVars, callVars
<1>1. CASE RestNext
  <2>1. ASSUME NEW o \in Orders, GetOrderAck(o) PROVE RestAgrees'
    BY <2>1 DEF GetOrderAck, Answered, Failed
  <2>2. CASE RestConnected
    BY <2>2 DEF RestConnected, Outstanding
  <2>3. CASE RestDisconnected
    BY <2>3 DEF RestDisconnected
  <2>4. CASE GetPrivateTokenAckOk
    BY <2>4 DEF GetPrivateTokenAckOk, Answered
  <2>5. CASE GetPrivateTokenAckError
    BY <2>5 DEF GetPrivateTokenAckError, Failed
  <2>6. CASE GetPrivateTokenAckRejected \/ Redirected
    BY <2>6 DEF GetPrivateTokenAckRejected, Redirected
  <2>7. CASE GetAccountAck \/ GetPositionsAck \/ GetFillsAck \/ GetOrdersAck
    BY <2>7 DEF GetAccountAck, GetPositionsAck, GetFillsAck, GetOrdersAck,
                SnapshotAck, Answered, Failed
  <2> QED
    BY <1>1, <2>1, <2>2, <2>3, <2>4, <2>5, <2>6, <2>7 DEF RestNext
<1>2. CASE DropCopyNext \/ EnvNext \/ UNCHANGED vars
  BY <1>2, FrameDropCopy, FrameEnv DEF vars
<1>3. CASE Timer
  <2>1. ASSUME NEW k \in Kinds, NEW batch \in SUBSET Orders,
               RestSend(k, batch), UNCHANGED restVars
        PROVE  RestAgrees'
    BY <2>1 DEF RestSend, CanSend
  <2>2. ASSUME UNCHANGED <<restVars, callVars>>
        PROVE  RestAgrees'
    BY <2>2
  <2> QED
    BY <1>3, <2>1, <2>2, TimerParts
<1> QED
  BY <1>1, <1>2, <1>3 DEF Next

----------------------------------------------------------------------------
(* DropCopy's session. *)

LEMMA EnterStageAgrees ==
  ASSUME NEW s \in Stages, s # "UNDEFINED", EnterStage(s), SessionAgrees,
         ~ready, welcome', socket' = "ready", logon'
  PROVE  SessionAgrees' /\ SubscribeAgrees'
  BY DEF EnterStage, SessionAgrees, SubscribeAgrees, Subs

LEMMA SessionStep ==
  ASSUME Inv, [Next]_vars PROVE SessionAgrees' /\ SubscribeAgrees'
<1> USE DEF Inv
<1>1. CASE RestNext
  <2>1. UNCHANGED <<state, status, ready, welcome, subscribing, logon>>
    BY <1>1, FrameRest
  <2>2. socket' = socket \/ (socket = "absent" /\ socket' = "down")
    <3>1. ASSUME NEW o \in Orders, GetOrderAck(o) PROVE socket' = socket
      BY <3>1 DEF GetOrderAck, linkVars
    <3> QED
      BY <1>1, <3>1 DEF RestNext, RestConnected, RestDisconnected,
           GetPrivateTokenAckOk, GetPrivateTokenAckError, Redirected,
           GetPrivateTokenAckRejected, GetAccountAck, GetPositionsAck,
           GetOrdersAck, GetFillsAck, SnapshotAck, linkVars
  <2> QED
    BY <2>1, <2>2 DEF SessionAgrees, SubscribeAgrees
<1>2. CASE DropCopyNext
  <2> USE DEF linkVars, dcVars
  <2>1. CASE DropCopyConnected
    BY <2>1 DEF DropCopyConnected, SessionAgrees, SubscribeAgrees
  <2>2. CASE DropCopyReady
    BY <2>2 DEF DropCopyReady, SessionAgrees, SubscribeAgrees, Subs
  <2>3. CASE DropCopyDisconnected
    BY <2>3 DEF DropCopyDisconnected, SessionAgrees, SubscribeAgrees
  <2>4. CASE DropCopyWelcome
    <3>1. "UNDEFINED" \in Stages
      BY DEF Stages
    <3> QED
      BY <2>4, <3>1, Stage, EnterStageAgrees
         DEF DropCopyWelcome, Receiving, SessionAgrees
  <2>5. CASE DropCopyAck
    <3>1. state \in Subs /\ ~ready /\ welcome /\ socket = "ready" /\ logon
      BY <2>5 DEF DropCopyAck, Receiving, SessionAgrees, SubscribeAgrees, Subs
    <3>2. NextStage(state, details) \in Stages \ {"UNDEFINED"}
      BY Stage DEF TypeOK
    <3> QED
      BY <2>5, <3>1, <3>2, EnterStageAgrees DEF DropCopyAck
  <2>6. CASE DropCopyError
    BY <2>6 DEF DropCopyError, SessionAgrees, SubscribeAgrees
  <2>7. ASSUME NEW o \in Orders, DropCopyOrderChange(o)
        PROVE  SessionAgrees' /\ SubscribeAgrees'
    BY <2>7 DEF DropCopyOrderChange, SessionAgrees, SubscribeAgrees
  <2> QED
    BY <1>2, <2>1, <2>2, <2>3, <2>4, <2>5, <2>6, <2>7 DEF DropCopyNext
<1>3. CASE EnvNext
  BY <1>3, FrameEnv DEF SessionAgrees, SubscribeAgrees
<1>4. ASSUME NEW p, NEW r, NEW d, NEW due, NEW expire,
             DropCopyTimer(p, r, d, due, expire)
      PROVE  SessionAgrees' /\ SubscribeAgrees'
  <2>1. CASE /\ socket = "ready" /\ ~LeftOver(r, d) /\ Completes(r)
             /\ DropCopyPoll(p, r, d, due, expire)
    <3>1. state \in Gets /\ ~ready /\ welcome /\ logon
      BY <2>1 DEF Completes, SessionAgrees, Gets
    <3>2. NextStage(state, Noted(r, d)) \in Stages \ {"UNDEFINED"}
      BY Stage DEF TypeOK
    <3>3. EnterStage(NextStage(state, Noted(r, d)))
      BY <2>1 DEF DropCopyPoll
    <3> QED
      BY <2>1, <3>1, <3>2, <3>3, <1>4, FrameTimer, EnterStageAgrees
  <2>2. CASE UNCHANGED <<state, status, ready, subscribing>>
    BY <1>4, <2>2, FrameTimer DEF SessionAgrees, SubscribeAgrees
  <2> QED
    BY <1>4, <2>1, <2>2 DEF DropCopyTimer, DropCopyAbsent, DropCopyWait,
         DropCopyFatal, DropCopyPoll, dcVars
<1>5. CASE Timer
  BY <1>4, <1>5, TimerParts
<1>6. CASE UNCHANGED vars
  BY <1>6 DEF vars, linkVars, dcVars, SessionAgrees, SubscribeAgrees
<1> QED
  BY <1>1, <1>2, <1>3, <1>5, <1>6 DEF Next


----------------------------------------------------------------------------
(* The calls and the requests in flight. *)

CallsAgree ==
  StaleCounterExact /\ CounterNeverUnderflows /\ SentAccounted /\
  OneInFlight

LEMMA CallsRest ==
  ASSUME Inv, RestNext, crash = "no" PROVE CallsAgree'
<1> USE DEF Inv, TypeOK, CallsAgree, restVars, callVars, boardVars, linkVars,
            dcVars
<1>1. Outstanding \subseteq Calls
  BY DEF Outstanding
<1>2. ASSUME UNCHANGED <<counter, sent, crash>>, Outstanding' = Outstanding
      PROVE  CallsAgree'
  BY <1>2 DEF StaleCounterExact, CounterNeverUnderflows, SentAccounted,
              OneInFlight
\* A call that is not one of the batch completes and is committed.
<1>3. ASSUME NEW k \in Kinds \ {"stale_orders"}, Commit(k), counter' = counter,
             crash' = "no", Outstanding' \subseteq Outstanding,
             Outstanding \ Outstanding' \subseteq {k},
             k \in Outstanding' => k = "private_token"
      PROVE  CallsAgree'
  <2>1. k \notin Orders
    BY CallKinds
  <2>2. Outstanding' \cap Orders = Outstanding \cap Orders
    BY <1>3, <2>1
  <2>3. StaleCounterExact' /\ CounterNeverUnderflows'
    BY <1>3, <2>2 DEF StaleCounterExact, CounterNeverUnderflows
  <2>4. OneInFlight'
    BY <1>3 DEF Commit, OneInFlight
  <2>5. SentAccounted'
    BY <1>3, <2>2 DEF Commit, SentAccounted
  <2> QED
    BY <2>3, <2>4, <2>5
\* Of the calls of the old connection none is also one of the new.
<1>4. ASSUME NEW c, Answered(c) \/ Failed(c)
      PROVE  Outstanding' = Outstanding \ {c} /\ c \in Outstanding
  BY <1>4 DEF Answered, Failed, Outstanding, RestAgrees
<1>5. CASE RestConnected
  <2>1. Outstanding = {} /\ Outstanding' \subseteq {"private_token"}
    BY <1>5 DEF RestConnected, Outstanding
  <2>2. Outstanding' \cap Orders = Outstanding \cap Orders
    BY <2>1, CallKinds
  <2>3. UNCHANGED <<counter, sent, crash>>
    BY <1>5 DEF RestConnected
  <2> QED
    BY <2>1, <2>2, <2>3 DEF StaleCounterExact, CounterNeverUnderflows,
       SentAccounted, OneInFlight
<1>6. CASE RestDisconnected
  <2>1. UNCHANGED <<counter, sent, crash>> /\ Outstanding' = Outstanding
    BY <1>6 DEF RestDisconnected, Outstanding
  <2> QED
    BY <1>2, <2>1
<1>7. CASE GetPrivateTokenAckOk
  <2>1. /\ Outstanding' = Outstanding \ {"private_token"}
        /\ Commit("private_token") /\ counter' = counter /\ crash' = "no"
    BY <1>4, <1>7 DEF GetPrivateTokenAckOk
  <2> QED
    BY <1>3, <2>1, CallKinds DEF Kinds
<1>8. CASE GetPrivateTokenAckError
  <2>1. /\ Outstanding' = Outstanding \/ Outstanding' = Outstanding \ {"private_token"}
        /\ Commit("private_token") /\ counter' = counter /\ crash' = "no"
    BY <1>4, <1>8 DEF GetPrivateTokenAckError, Outstanding
  <2> QED
    BY <1>3, <2>1, CallKinds DEF Kinds
<1>9. CASE GetPrivateTokenAckRejected \/ Redirected
  <2>1. UNCHANGED <<counter, live, lost, sent>> /\ crash' = "answer"
    BY <1>9 DEF GetPrivateTokenAckRejected, Redirected
  <2> QED
    BY <2>1 DEF StaleCounterExact, CounterNeverUnderflows, SentAccounted,
                OneInFlight, Outstanding
<1>10. ASSUME NEW k \in {"balances", "positions", "open_orders", "trades"},
              Answered(k) \/ Failed(k), SnapshotAck(k)
       PROVE  CallsAgree'
  <2>1. Outstanding' = Outstanding \ {k}
    BY <1>4, <1>10
  <2>2. Commit(k) /\ counter' = counter /\ crash' = "no"
    BY <1>10 DEF SnapshotAck
  <2> QED
    BY <1>3, <2>1, <2>2, CallKinds
<1>11. CASE GetAccountAck \/ GetPositionsAck \/ GetOrdersAck \/ GetFillsAck
  BY <1>10, <1>11 DEF GetAccountAck, GetPositionsAck, GetOrdersAck, GetFillsAck
<1>12. ASSUME NEW o \in Orders, GetOrderAck(o)
       PROVE  CallsAgree'
  <2>1. Outstanding' = Outstanding \ {o} /\ o \in Outstanding \cap Orders
    BY <1>4, <1>12 DEF GetOrderAck
  <2>2. /\ counter # 0
        /\ Cardinality(Outstanding' \cap Orders) = counter - 1
        /\ counter - 1 = 0 <=> Outstanding' \cap Orders = {}
    <3>1. Outstanding' \subseteq Calls
      BY <1>1, <2>1
    <3> QED
      <4>1. Cardinality((Outstanding \ {o}) \cap Orders)
              = Cardinality(Outstanding \cap Orders) - 1
        BY <1>1, <2>1, OutstandingFinite
      <4>2. Cardinality(Outstanding \cap Orders) = 0 <=> Outstanding \cap Orders = {}
        BY <1>1, OutstandingFinite
      <4>3. Cardinality(Outstanding' \cap Orders) = 0 <=> Outstanding' \cap Orders = {}
        BY <3>1, OutstandingFinite
      <4>4. counter = Cardinality(Outstanding \cap Orders)
        BY DEF StaleCounterExact
      <4>5. Cardinality(Outstanding' \cap Orders) = counter - 1
        BY <2>1, <4>1, <4>4
      <4> QED
        BY <2>1, <4>2, <4>3, <4>4, <4>5
  <2>3. /\ counter' = counter - 1 /\ crash' = "no"
        /\ IF counter' = 0 THEN Commit("stale_orders") ELSE UNCHANGED sent
    BY <1>12, <2>2 DEF GetOrderAck
  <2>4. \A k \in Kinds : k \in Outstanding' <=> k \in Outstanding
    BY <2>1, OrdersAssumption
  <2>5. StaleCounterExact' /\ CounterNeverUnderflows'
    BY <2>2, <2>3 DEF StaleCounterExact, CounterNeverUnderflows
  <2>6. OneInFlight'
    BY <2>3 DEF OneInFlight, Commit
  <2>7. SentAccounted'
    <3>1. CASE counter' = 0
      BY <2>2, <2>3, <2>4, <3>1 DEF SentAccounted, Commit
    <3>2. CASE counter' # 0
      BY <2>1, <2>2, <2>3, <2>4, <3>2 DEF SentAccounted
    <3> QED
      BY <3>1, <3>2
  <2> QED
    BY <2>5, <2>6, <2>7
<1> QED
  BY <1>5, <1>6, <1>7, <1>8, <1>9, <1>11, <1>12 DEF RestNext

LEMMA CallsSend ==
  ASSUME Inv, NEW k \in Kinds, NEW batch \in SUBSET Orders, RestSend(k, batch),
         crash' # "counter"
  PROVE  CallsAgree'
<1> USE DEF Inv, TypeOK, CallsAgree
<1>1. /\ sent = {} /\ sent' = {k} /\ k \in pending
  BY DEF RestSend, CanSend
<1>2. Outstanding \subseteq Calls /\ Outstanding \cap Kinds \subseteq {"private_token"}
  BY <1>1 DEF Outstanding, SentAccounted, Calls
<1>3. Outstanding \cap Orders = {} /\ counter = 0
  <2>1. Outstanding \cap Orders = {}
    BY <1>1 DEF SentAccounted
  <2> QED
    BY <1>2, <2>1, OutstandingFinite DEF StaleCounterExact
<1>4. OneInFlight' /\ CounterNeverUnderflows'
  BY <1>1 DEF OneInFlight, CounterNeverUnderflows
<1>5. CASE k = "stale_orders"
  <2>1. /\ Outstanding' = Outstanding \cup batch
        /\ counter' = counter + Cardinality(batch)
        /\ batch \in Batches
    BY <1>5 DEF RestSend, Outstanding
  <2>2. Outstanding' \cap Orders = batch
    BY <1>3, <2>1
  <2>3. StaleCounterExact'
    <3>1. Cardinality(batch) \in Nat
      BY FS_Subset, FS_CardinalityType
    <3> QED
      <4>1. counter' = Cardinality(batch)
        BY <1>3, <2>1, <3>1
      <4> QED
        BY <2>2, <4>1 DEF StaleCounterExact
  <2>4. OmsForgets \/ batch # {}
    BY <1>1, <1>5, <2>1 DEF Batches, NoLostStaleOrder
  <2>5. Outstanding' \cap Kinds = Outstanding \cap Kinds
    BY <2>1, OrdersAssumption
  <2>6. SentAccounted'
    BY <1>1, <1>2, <1>5, <2>2, <2>4, <2>5 DEF SentAccounted
  <2> QED
    BY <1>4, <2>3, <2>6
<1>6. CASE k # "stale_orders"
  <2>1. Outstanding' = Outstanding \cup {k} /\ counter' = counter
    BY <1>6 DEF RestSend, Outstanding
  <2>2. Outstanding' \cap Orders = Outstanding \cap Orders
    BY <1>6, <2>1, CallKinds
  <2>3. StaleCounterExact'
    BY <2>1, <2>2 DEF StaleCounterExact
  <2>4. SentAccounted'
    BY <1>1, <1>2, <1>3, <1>6, <2>1, <2>2 DEF SentAccounted
  <2> QED
    BY <1>4, <2>3, <2>4
<1> QED
  BY <1>5, <1>6

LEMMA CallsStep ==
  ASSUME Inv, [Next]_vars PROVE CallsAgree'
<1>1. ASSUME UNCHANGED <<callVars, sent>>, crash' \in {crash, "leftover"}
      PROVE  CallsAgree'
  BY <1>1 DEF Inv, CallsAgree, StaleCounterExact, CounterNeverUnderflows,
       SentAccounted, OneInFlight, Outstanding, callVars
<1>2. CASE RestNext /\ crash = "no"
  BY <1>2, CallsRest
<1>3. CASE DropCopyNext \/ EnvNext \/ UNCHANGED vars
  BY <1>1, <1>3, FrameDropCopy, FrameEnv DEF vars, boardVars
<1>4. CASE Timer
  <2>1. crash' \in {crash, "leftover"}
    BY <1>4, TimerParts, FrameTimer
  <2>2. crash' # "counter"
    BY <2>1 DEF Inv, CounterNeverUnderflows
  <2> QED
    BY <1>1, <1>4, <2>1, <2>2, TimerParts, CallsSend
<1> QED
  BY <1>2, <1>3, <1>4 DEF Next


----------------------------------------------------------------------------
(* The stale orders that wait, and the snapshots that follow subscriptions. *)

\* The board as a tick of DropCopy leaves it, given what OrderEntryREST left.
LEMMA BoardTimer ==
  ASSUME Inv, NEW p, NEW r, NEW d \in SUBSET Orders, NEW due \in BOOLEAN,
         NEW expire \in BOOLEAN,
         d # {} <=> "stale_orders" \in p, DropCopyTimer(p, r, d, due, expire)
  PROVE  NoLostStaleOrder'
<1> USE DEF NoLostStaleOrder
<1>1. CASE DropCopyAbsent(p, r, d) \/ DropCopyFatal(p, r, d)
           \/ DropCopyWait(p, r, d, expire)
  BY <1>1 DEF DropCopyAbsent, DropCopyFatal, DropCopyWait
<1>2. CASE ~LeftOver(r, d) /\ DropCopyPoll(p, r, d, due, expire)
  <2> DEFINE d1 == Noted(r, d)
             t == IF Completes(r) THEN NextStage(state, d1) ELSE state
             scan == Scans(due, t)
             found == IF scan /\ ~(stale \subseteq d1) THEN {"stale_orders"} ELSE {}
             asked == IF Completes(r) THEN Asked(t) ELSE {}
  <2>1. details' = IF scan THEN d1 \cup stale ELSE d1
    BY <1>2 DEF DropCopyPoll
  <2>2. "stale_orders" \in pending' <=>
          "stale_orders" \in p \/ "stale_orders" \in asked
          \/ (scan /\ ~(stale \subseteq d1))
    BY <1>2 DEF DropCopyPoll
  <2>3. "stale_orders" \in asked <=> Completes(r) /\ t = "GET_STALE_ORDERS"
    BY DEF Asked, Asks, Gets
  <2>4. CASE Completes(r) /\ state = "GET_OPEN_ORDERS"
    <3>1. d1 = d \cup stale
      BY <2>4 DEF Noted
    <3>2. t = "GET_STALE_ORDERS" <=> d1 # {}
      BY <2>4 DEF NextStage
    <3>3. scan => d1 = {}
      BY <2>4 DEF NextStage, Scans
    <3> HIDE DEF d1, t, scan, asked
    <3> QED
      BY <2>1, <2>2, <2>3, <2>4, <3>1, <3>2, <3>3
  <2>5. CASE Completes(r) /\ state # "GET_OPEN_ORDERS"
    <3>1. d1 = d
      BY <2>5 DEF Noted
    <3>2. t # "GET_STALE_ORDERS"
      BY <2>5 DEF NextStage, Follows, Completes, Gets
    <3> HIDE DEF d1, t, scan, asked
    <3> QED
      BY <2>1, <2>2, <2>3, <2>5, <3>1, <3>2
  <2>6. CASE ~Completes(r)
    <3>1. d1 = d /\ asked = {}
      BY <2>6 DEF Noted
    <3> HIDE DEF d1, t, scan, asked
    <3> QED
      BY <2>1, <2>2, <3>1
  <2> QED
    BY <2>4, <2>5, <2>6
<1> QED
  BY <1>1, <1>2 DEF DropCopyTimer

LEMMA NoLostStep ==
  ASSUME Inv, [Next]_vars PROVE NoLostStaleOrder'
<1> USE DEF Inv, TypeOK
<1>1. CASE RestNext \/ EnvNext \/ UNCHANGED vars
  BY <1>1, FrameRest, FrameEnv DEF NoLostStaleOrder, vars, boardVars
<1>2. CASE DropCopyNext
  <2>1. details' = details
    BY <1>2, FrameDropCopy
  <2>2. "stale_orders" \in pending' <=> "stale_orders" \in pending
    <3>1. CASE DropCopyAck
      <4>1. state \in Subs
        BY <3>1 DEF DropCopyAck, SubscribeAgrees
      <4>2. "stale_orders" \notin Asked(NextStage(state, details))
        BY <4>1 DEF Subs, NextStage, Follows, Asked, Asks
      <4> QED
        BY <3>1, <4>2 DEF DropCopyAck
    <3>2. ASSUME NEW o \in Orders, DropCopyOrderChange(o)
          PROVE  pending' = pending
      BY <3>2 DEF DropCopyOrderChange, boardVars
    <3> QED
      BY <1>2, <3>1, <3>2 DEF DropCopyNext, DropCopyConnected, DropCopyReady,
           DropCopyDisconnected, DropCopyWelcome, DropCopyError, boardVars
  <2> QED
    BY <2>1, <2>2 DEF NoLostStaleOrder
<1>3. CASE Timer
  <2>1. ASSUME NEW k \in Kinds, NEW batch \in SUBSET Orders, RestSend(k, batch),
               NEW due \in BOOLEAN, NEW expire \in BOOLEAN,
               DropCopyTimer(pending \ {k}, response,
                 IF k = "stale_orders" THEN {} ELSE details, due, expire)
        PROVE  NoLostStaleOrder'
    <3> DEFINE d == IF k = "stale_orders" THEN {} ELSE details
    <3>1. d \in SUBSET Orders
      OBVIOUS
    <3>2. d # {} <=> "stale_orders" \in pending \ {k}
      BY DEF NoLostStaleOrder
    <3> HIDE DEF d
    <3> QED
      BY <2>1, <3>1, <3>2, BoardTimer DEF d
  <2>2. ASSUME NEW due \in BOOLEAN, NEW expire \in BOOLEAN,
               DropCopyTimer(pending, response, details, due, expire)
        PROVE  NoLostStaleOrder'
    BY <2>2, BoardTimer DEF NoLostStaleOrder
  <2> QED
    BY <1>3, <2>1, <2>2, TimerParts
<1> QED
  BY <1>1, <1>2, <1>3 DEF Next

\* A snapshot becomes due only by entering its GET stage, which asks for it.
LEMMA SubscribedNext ==
  ASSUME NEW k \in Snapshots, state \in Stages, NEW d,
         state' = NextStage(state, d), Subscribed(k)'
  PROVE  Subscribed(k) \/ k \in Asked(state')
  BY DEF Snapshots, Subscribed, NextStage, Follows, Asked, Asks, Stages, Subs, Gets

LEMMA SnapshotTimer ==
  ASSUME Inv, NEW p \in SUBSET Kinds, NEW r, NEW d, NEW due, NEW expire,
         DropCopyTimer(p, r, d, due, expire),
         \A k \in Snapshots : Subscribed(k) => k \in fresh' \/ k \in p
  PROVE  NoSkippedSnapshot'
<1> USE DEF Inv, TypeOK
<1>1. p \subseteq pending'
  BY DEF DropCopyTimer, DropCopyAbsent, DropCopyFatal, DropCopyWait, DropCopyPoll
<1>2. CASE UNCHANGED state
  BY <1>1, <1>2 DEF NoSkippedSnapshot, Subscribed
<1>3. CASE Completes(r) /\ DropCopyPoll(p, r, d, due, expire)
  <2>1. state' = NextStage(state, Noted(r, d))
    BY <1>3 DEF DropCopyPoll, EnterStage
  <2>2. Asked(state') \subseteq pending'
    BY <1>3 DEF DropCopyPoll, EnterStage
  <2> QED
    BY <1>1, <2>1, <2>2, SubscribedNext DEF NoSkippedSnapshot
<1> QED
  BY <1>2, <1>3 DEF DropCopyTimer, DropCopyAbsent, DropCopyFatal, DropCopyWait,
                    DropCopyPoll, dcVars

LEMMA NoSkippedStep ==
  ASSUME Inv, [Next]_vars PROVE NoSkippedSnapshot'
<1> USE DEF Inv, TypeOK
<1>1. CASE RestNext \/ EnvNext \/ UNCHANGED vars
  BY <1>1, FrameRest, FrameEnv
     DEF NoSkippedSnapshot, Subscribed, vars, boardVars, dcVars
<1>2. CASE DropCopyNext
  <2>1. CASE DropCopyAck
    BY <2>1, SubscribedNext DEF DropCopyAck, EnterStage, NoSkippedSnapshot
  <2>2. CASE DropCopyWelcome
    <3>1. state = "UNDEFINED" /\ state' = "SUBSCRIBE_BALANCES"
      BY <2>2 DEF DropCopyWelcome, EnterStage, NextStage, Follows, SessionAgrees
    <3> QED
      BY <3>1 DEF NoSkippedSnapshot, Subscribed
  <2>3. CASE DropCopyDisconnected
    BY <2>3 DEF DropCopyDisconnected, NoSkippedSnapshot, Subscribed
  <2>4. ASSUME pending \subseteq pending', UNCHANGED <<fresh, state>>
        PROVE  NoSkippedSnapshot'
    BY <2>4 DEF NoSkippedSnapshot, Subscribed
  <2>5. CASE DropCopyConnected \/ DropCopyReady \/ DropCopyError
    BY <2>4, <2>5 DEF DropCopyConnected, DropCopyReady, DropCopyError,
                      boardVars, dcVars
  <2>6. ASSUME NEW o \in Orders, DropCopyOrderChange(o)
        PROVE  NoSkippedSnapshot'
    BY <2>4, <2>6 DEF DropCopyOrderChange, boardVars, dcVars
  <2> QED
    BY <1>2, <2>1, <2>2, <2>3, <2>5, <2>6 DEF DropCopyNext
<1>3. CASE Timer
  <2>1. ASSUME NEW k \in Kinds, NEW batch \in SUBSET Orders, RestSend(k, batch),
               NEW due \in BOOLEAN, NEW expire \in BOOLEAN,
               DropCopyTimer(pending \ {k}, response,
                 IF k = "stale_orders" THEN {} ELSE details, due, expire)
        PROVE  NoSkippedSnapshot'
    <3>1. \A j \in Snapshots : Subscribed(j) => j \in fresh' \/ j \in pending \ {k}
      BY <2>1 DEF RestSend, NoSkippedSnapshot
    <3>2. pending \ {k} \in SUBSET Kinds
      OBVIOUS
    <3> QED
      BY <2>1, <3>1, <3>2, SnapshotTimer
  <2>2. ASSUME NEW due \in BOOLEAN, NEW expire \in BOOLEAN, fresh' = fresh,
               DropCopyTimer(pending, response, details, due, expire)
        PROVE  NoSkippedSnapshot'
    BY <2>2, SnapshotTimer DEF NoSkippedSnapshot
  <2> QED
    BY <1>3, <2>1, <2>2, TimerParts
<1> QED
  BY <1>1, <1>2, <1>3 DEF Next

----------------------------------------------------------------------------
(* What the download waits for. *)

\* An answer turns a request from sent to answered, and drops none.
LEMMA AnswersKeep ==
  ASSUME RestNext
  PROVE  sent \cup response \subseteq sent' \cup response'
<1>1. ASSUME NEW k, Commit(k)
      PROVE  sent \cup response \subseteq sent' \cup response'
  BY <1>1 DEF Commit
<1>2. CASE UNCHANGED <<sent, response>>
  BY <1>2
<1>3. ASSUME NEW o \in Orders, GetOrderAck(o)
      PROVE  (\E k : Commit(k)) \/ UNCHANGED <<sent, response>>
  BY <1>3 DEF GetOrderAck
<1>4. (\E k : Commit(k)) \/ UNCHANGED <<sent, response>>
  BY <1>3 DEF RestNext, RestConnected, RestDisconnected, GetPrivateTokenAckOk,
              GetPrivateTokenAckError, GetPrivateTokenAckRejected, Redirected,
              GetAccountAck, GetPositionsAck, GetOrdersAck, GetFillsAck,
              SnapshotAck, boardVars
<1> QED
  BY <1>1, <1>2, <1>4

\* A stage is entered with what it waits for on its way.
LEMMA EnteredAwaits ==
  ASSUME NEW t, EnterStage(t), Asked(t) \subseteq pending'
  PROVE  AwaitedOnItsWay'
  BY DEF EnterStage, Asked, AwaitedOnItsWay

\* DropCopy's part of a tick either completes the stage, with an answer that was
\* for it, or leaves what it waits for on the board.
LEMMA AwaitedTimer ==
  ASSUME Inv, NEW p \in SUBSET Kinds, NEW r \in SUBSET Kinds, NEW d, NEW due,
         NEW expire, DropCopyTimer(p, r, d, due, expire),
         state \in Gets => Asks[state] \in p \cup sent' \cup r
  PROVE  AwaitedOnItsWay'
<1>1. p \subseteq pending'
  BY DEF DropCopyTimer, DropCopyAbsent, DropCopyFatal, DropCopyWait, DropCopyPoll
<1>2. CASE Completes(r) /\ DropCopyPoll(p, r, d, due, expire)
  <2>1. PICK t : EnterStage(t) /\ Asked(t) \subseteq pending'
    BY <1>2 DEF DropCopyPoll
  <2> QED
    BY <2>1, EnteredAwaits
<1>3. ASSUME UNCHANGED <<state, subscribing>>,
             ~Completes(r) \/ r \ {"private_token"} \subseteq response'
      PROVE  AwaitedOnItsWay'
  <2>1. state \in Gets => Asks[state] # "private_token"
    BY DEF Gets, Asks
  <2> QED
    BY <1>1, <1>3, <2>1 DEF Inv, AwaitedOnItsWay, Completes
<1>4. CASE ~Completes(r) /\ DropCopyPoll(p, r, d, due, expire)
  BY <1>3, <1>4 DEF DropCopyPoll
<1>5. CASE \/ DropCopyAbsent(p, r, d) \/ DropCopyFatal(p, r, d)
           \/ DropCopyWait(p, r, d, expire)
  BY <1>3, <1>5 DEF DropCopyAbsent, DropCopyFatal, DropCopyWait, dcVars
<1> QED
  BY <1>2, <1>4, <1>5 DEF DropCopyTimer

LEMMA AwaitedStep ==
  ASSUME Inv, [Next]_vars PROVE AwaitedOnItsWay'
<1> USE DEF Inv, TypeOK
<1>1. ASSUME UNCHANGED <<state, subscribing>>, pending \subseteq pending',
             (sent \cup response) \ {"private_token"} \subseteq sent' \cup response'
      PROVE  AwaitedOnItsWay'
  <2>1. state \in Gets => Asks[state] # "private_token"
    BY DEF Gets, Asks
  <2> QED
    BY <1>1, <2>1 DEF AwaitedOnItsWay
<1>2. CASE RestNext
  BY <1>1, <1>2, FrameRest, AnswersKeep
<1>3. CASE EnvNext \/ UNCHANGED vars
  BY <1>1, <1>3, FrameEnv DEF vars, boardVars, dcVars
<1>4. CASE DropCopyNext
  <2>1. CASE DropCopyAck
    BY <2>1, EnteredAwaits DEF DropCopyAck
  <2>2. CASE DropCopyWelcome
    BY <2>2, EnteredAwaits
       DEF DropCopyWelcome, NextStage, Follows, Asked, Gets
  <2>3. CASE DropCopyDisconnected
    BY <2>3 DEF DropCopyDisconnected, AwaitedOnItsWay, Gets, Subs
  <2>4. CASE DropCopyConnected \/ DropCopyReady \/ DropCopyError
    BY <1>1, <2>4 DEF DropCopyConnected, DropCopyReady, DropCopyError,
                      boardVars, dcVars
  <2>5. ASSUME NEW o \in Orders, DropCopyOrderChange(o)
        PROVE  AwaitedOnItsWay'
    BY <1>1, <2>5 DEF DropCopyOrderChange, boardVars, dcVars
  <2> QED
    BY <1>4, <2>1, <2>2, <2>3, <2>4, <2>5 DEF DropCopyNext
<1>5. CASE Timer
  <2>1. ASSUME NEW k \in Kinds, NEW batch \in SUBSET Orders, RestSend(k, batch),
               NEW due \in BOOLEAN, NEW expire \in BOOLEAN,
               DropCopyTimer(pending \ {k}, response,
                 IF k = "stale_orders" THEN {} ELSE details, due, expire)
        PROVE  AwaitedOnItsWay'
    <3>1. sent' = sent \cup {k}
      BY <2>1 DEF RestSend
    <3>2. state \in Gets => Asks[state] \in (pending \ {k}) \cup sent' \cup response
      BY <3>1 DEF AwaitedOnItsWay
    <3> QED
      BY <2>1, <3>2, AwaitedTimer
  <2>2. ASSUME NEW due \in BOOLEAN, NEW expire \in BOOLEAN, sent' = sent,
               DropCopyTimer(pending, response, details, due, expire)
        PROVE  AwaitedOnItsWay'
    BY <2>2, AwaitedTimer DEF AwaitedOnItsWay
  <2> QED
    BY <1>5, <2>1, <2>2, TimerParts
<1> QED
  BY <1>2, <1>3, <1>4, <1>5 DEF Next

----------------------------------------------------------------------------
(* The theorems. *)

THEOREM InvStep == Inv /\ [Next]_vars => Inv'
  BY TypeStep, RestAgreesStep, SessionStep, CallsStep, NoLostStep,
     NoSkippedStep, AwaitedStep DEF Inv, CallsAgree

\* The inductive invariant holds in every reachable state.
THEOREM Invariance == Spec => []Inv
  BY InitInv, InvStep, PTL DEF Spec

\* Type correctness.
THEOREM TypeCorrect == Spec => []TypeOK
<1>1. Inv => TypeOK
  BY DEF Inv
<1> QED
  BY <1>1, Invariance, PTL

\* get_order_ack counts exactly the outstanding get_order calls, for any orders,
\* connection losses and errors.
THEOREM CounterCorrect == Spec => []StaleCounterExact
<1>1. Inv => StaleCounterExact
  BY DEF Inv
<1> QED
  BY <1>1, Invariance, PTL

\* get_order_ack never takes the counter of stale orders below zero.
THEOREM CounterSafe == Spec => []CounterNeverUnderflows
<1>1. Inv => CounterNeverUnderflows
  BY DEF Inv
<1> QED
  BY <1>1, Invariance, PTL

\* No request counts as sent without a call that will commit it, but for a batch
\* of stale orders of which find_order knew none.
THEOREM SentCommitted ==
  Spec => []((~EmptyBatch => SentIsOutstanding) /\ (EmptyBatch => OmsForgets))
<1>1. Inv => (~EmptyBatch => SentIsOutstanding) /\ (EmptyBatch => OmsForgets)
  BY DEF Inv, SentAccounted, SentIsOutstanding, EmptyBatch
<1> QED
  BY <1>1, Invariance, PTL

\* A stale order that was noted waits for a request that will query it.
THEOREM StaleOrdersKept == Spec => []NoLostStaleOrder
<1>1. Inv => NoLostStaleOrder
  BY DEF Inv
<1> QED
  BY <1>1, Invariance, PTL

\* No stage that follows a subscription goes without a snapshot of this session.
THEOREM SnapshotsFollow == Spec => []NoSkippedSnapshot
<1>1. Inv => NoSkippedSnapshot
  BY DEF Inv
<1> QED
  BY <1>1, Invariance, PTL

\* What the download waits for - an ack, the answer to a request - is on its way.
THEOREM AwaitedComes == Spec => []AwaitedOnItsWay
<1>1. Inv => AwaitedOnItsWay
  BY DEF Inv
<1> QED
  BY <1>1, Invariance, PTL

\* A stage that waits for an answer has it, or a call whose end brings it, or a
\* request that the next tick may send.
DownloadBacked ==
  state \in Gets =>
    \/ Asks[state] \in pending \cup response \cup Outstanding
    \/ state = "GET_STALE_ORDERS" /\ Outstanding \cap Orders # {}

\* The download always has something out that moves it on, unless a batch of
\* stale orders was empty, of which EmptyBatchBlocks says what it does.
THEOREM DownloadNeverStuck == Spec => [](DownloadBacked \/ EmptyBatch)
<1>1. Inv => DownloadBacked \/ EmptyBatch
  <2> SUFFICES ASSUME Inv, state \in Gets, Asks[state] \in sent, ~EmptyBatch
               PROVE  DownloadBacked
    BY DEF Inv, AwaitedOnItsWay, DownloadBacked
  <2>1. Asks[state] \in Kinds \ {"private_token"}
    BY DEF Gets, Asks, Kinds
  <2>2. Asks[state] = "stale_orders" => state = "GET_STALE_ORDERS"
    BY DEF Gets, Asks
  <2> QED
    BY <2>1, <2>2 DEF Inv, SentAccounted, EmptyBatch, DownloadBacked
<1> QED
  BY <1>1, Invariance, PTL

\* The assertions of DropCopy hold: ready_, the download and the status agree.
THEOREM SessionCorrect == Spec => []SessionAgrees
<1>1. Inv => SessionAgrees
  BY DEF Inv
<1> QED
  BY <1>1, Invariance, PTL

\* The step of an action that may leave GET_OPEN_ORDERS.
LEMMA SkipStep ==
  ASSUME Inv, [Next]_vars, state = "GET_OPEN_ORDERS",
         state' \in {"GET_TRADES", "DONE"}
  PROVE  stale = {}
<1> USE DEF Inv, TypeOK
<1>1. CASE RestNext \/ EnvNext \/ UNCHANGED vars
  BY <1>1, FrameRest, FrameEnv DEF vars, dcVars
<1>2. CASE DropCopyNext
  <2>1. ~DropCopyAck
    BY DEF DropCopyAck, SubscribeAgrees, Subs
  <2>2. ~DropCopyWelcome
    BY DEF DropCopyWelcome, SessionAgrees
  <2> QED
    BY <1>2, <2>1, <2>2 DEF DropCopyNext, DropCopyConnected, DropCopyReady,
       DropCopyDisconnected, DropCopyError, DropCopyOrderChange, dcVars
<1>3. ASSUME NEW p, NEW r, NEW d, NEW due, NEW expire,
             DropCopyTimer(p, r, d, due, expire)
      PROVE  stale = {}
  <2>1. Completes(r) /\ DropCopyPoll(p, r, d, due, expire)
    BY <1>3 DEF DropCopyTimer, DropCopyAbsent, DropCopyFatal, DropCopyWait,
                DropCopyPoll, dcVars
  <2>2. state' = NextStage(state, d \cup stale)
    BY <2>1 DEF DropCopyPoll, EnterStage, Noted
  <2> QED
    BY <2>2 DEF NextStage
<1>4. CASE Timer
  BY <1>3, <1>4, TimerParts
<1> QED
  BY <1>1, <1>2, <1>4 DEF Next

\* The download skips the stale orders only when there are none.
THEOREM StaleSkipJustified == Spec => NoStaleSkipped
<1>1. Inv /\ [Next]_vars =>
        [state = "GET_OPEN_ORDERS" /\ state' \in {"GET_TRADES", "DONE"}
           => stale = {}]_vars
  BY SkipStep
<1> QED
  BY <1>1, Invariance, PTL DEF Spec, NoStaleSkipped

----------------------------------------------------------------------------
(* The empty batch: the account is blocked for ever. *)

\* What a step may do to an empty batch: it stays what is sent, and comes only of
\* a tick that sends the request for stale orders when find_order knows none.
BatchMoves ==
  /\ EmptyBatch => EmptyBatch' /\ sent' = sent
  /\ EmptyBatch' =>
       \/ EmptyBatch
       \/ OmsForgets /\ Timer /\ CanSend("stale_orders") /\ UNCHANGED <<live, lost>>

\* While the batch is empty no other call of the board can complete.
LEMMA BatchRest ==
  ASSUME Inv, RestNext PROVE BatchMoves
<1> USE DEF Inv, TypeOK, restVars, callVars, boardVars
<1>1. ASSUME NEW c, Answered(c) \/ Failed(c)
      PROVE  Outstanding' = Outstanding \ {c} /\ c \in Outstanding
  BY <1>1 DEF Answered, Failed, Outstanding, RestAgrees
<1>2. ASSUME sent' = sent, Outstanding' \cap Orders = Outstanding \cap Orders
      PROVE  BatchMoves
  BY <1>2 DEF BatchMoves, EmptyBatch
<1>3. ASSUME NEW k \in Kinds \ {"stale_orders"}, k \in Outstanding, Commit(k),
             k # "private_token" => k \in sent,
             Outstanding' = Outstanding \/ Outstanding' = Outstanding \ {k}
      PROVE  BatchMoves
  <2>1. Outstanding' \cap Orders = Outstanding \cap Orders
    BY <1>3, CallKinds
  <2>2. "stale_orders" \in sent' <=> "stale_orders" \in sent
    BY <1>3 DEF Commit
  <2>3. EmptyBatch => k \notin sent
    BY <1>3 DEF EmptyBatch, OneInFlight
  <2>4. EmptyBatch => sent' = sent
    BY <1>3, <2>3 DEF Commit
  <2> QED BY <2>1, <2>2, <2>4 DEF BatchMoves, EmptyBatch
<1>4. CASE RestConnected
  <2>1. Outstanding = {} /\ Outstanding' \subseteq {"private_token"} /\ sent' = sent
    BY <1>4 DEF RestConnected, Outstanding
  <2> QED BY <1>2, <2>1, CallKinds
<1>5. CASE RestDisconnected
  BY <1>2, <1>5 DEF RestDisconnected, Outstanding
<1>6. CASE GetPrivateTokenAckOk
  BY <1>1, <1>3, <1>6, CallKinds DEF GetPrivateTokenAckOk
<1>7. CASE GetPrivateTokenAckError
  <2>1. /\ Commit("private_token") /\ "private_token" \in Outstanding
        /\ \/ Outstanding' = Outstanding
           \/ Outstanding' = Outstanding \ {"private_token"}
    BY <1>1, <1>7 DEF GetPrivateTokenAckError, Outstanding
  <2> QED BY <1>3, <2>1, CallKinds
<1>8. CASE GetPrivateTokenAckRejected \/ Redirected
  BY <1>2, <1>8 DEF GetPrivateTokenAckRejected, Redirected, Outstanding
<1>9. ASSUME NEW k \in {"balances", "positions", "open_orders", "trades"},
             Answered(k) \/ Failed(k), SnapshotAck(k)
      PROVE  BatchMoves
  <2>1. k \in Kinds \ {"private_token", "stale_orders"}
    BY DEF Kinds
  <2>2. k \in sent /\ k \in Outstanding /\ Outstanding' = Outstanding \ {k}
    BY <1>1, <1>9, <2>1 DEF SentAccounted
  <2>3. Commit(k)
    BY <1>9 DEF SnapshotAck
  <2> QED BY <1>3, <2>1, <2>2, <2>3
<1>10. CASE GetAccountAck \/ GetPositionsAck \/ GetOrdersAck \/ GetFillsAck
  BY <1>9, <1>10 DEF GetAccountAck, GetPositionsAck, GetOrdersAck, GetFillsAck
<1>11. ASSUME NEW o \in Orders, GetOrderAck(o)
       PROVE  BatchMoves
  <2>1. Outstanding' = Outstanding \ {o} /\ o \in Outstanding \cap Orders
    BY <1>1, <1>11 DEF GetOrderAck
  <2>2. counter # 0
    BY <2>1, OutstandingFinite DEF StaleCounterExact, Outstanding
  <2>3. /\ counter' = counter - 1
        /\ IF counter' = 0 THEN Commit("stale_orders") ELSE UNCHANGED sent
    BY <1>11, <2>2 DEF GetOrderAck
  <2>4. Outstanding \subseteq Calls
    BY DEF Outstanding
  <2>5. Cardinality(Outstanding' \cap Orders) = counter - 1
    BY <2>1, <2>4, OutstandingFinite DEF StaleCounterExact
  <2>6. Outstanding' \cap Orders = {} => counter - 1 = 0
    BY <2>5, FS_EmptySet
  <2>7. ~EmptyBatch'
    BY <2>3, <2>6 DEF EmptyBatch, Commit
  <2> QED BY <2>1, <2>7 DEF BatchMoves, EmptyBatch
<1> QED
  BY <1>4, <1>5, <1>6, <1>7, <1>8, <1>10, <1>11 DEF RestNext

LEMMA BatchTimer ==
  ASSUME Inv, Timer PROVE BatchMoves
<1> USE DEF Inv, TypeOK
<1>1. ASSUME NEW k \in Kinds, NEW batch \in SUBSET Orders, RestSend(k, batch)
      PROVE  BatchMoves
  <2>1. sent = {} /\ sent' = {k} /\ k \in pending /\ CanSend(k)
    BY <1>1 DEF RestSend, CanSend
  <2>2. CASE k # "stale_orders"
    BY <2>1, <2>2 DEF BatchMoves, EmptyBatch
  <2>3. CASE k = "stale_orders"
    <3>1. live' = live \cup batch /\ lost' = lost /\ batch \in Batches
      BY <1>1, <2>3 DEF RestSend
    <3>2. EmptyBatch' => batch = {}
      BY <3>1 DEF EmptyBatch, Outstanding
    <3>3. batch = {} => OmsForgets
      BY <2>1, <2>3, <3>1 DEF Batches, NoLostStaleOrder
    <3> QED BY <2>1, <2>3, <3>1, <3>2, <3>3 DEF BatchMoves, EmptyBatch
  <2> QED BY <2>2, <2>3
<1>2. ASSUME UNCHANGED <<callVars, sent>> PROVE BatchMoves
  BY <1>2 DEF callVars, BatchMoves, EmptyBatch, Outstanding
<1> QED BY <1>1, <1>2, TimerParts

\* A batch of which find_order knows no order blocks the account for ever: no
\* answer commits it and no other request is sent, through every reconnect.
\* Nothing else does.
THEOREM EmptyBatchBlocks == Spec => [][BatchMoves]_vars
<1>1. ASSUME UNCHANGED <<callVars, sent>> PROVE BatchMoves
  BY <1>1 DEF callVars, BatchMoves, EmptyBatch, Outstanding
<1>2. Inv /\ [Next]_vars => [BatchMoves]_vars
  BY <1>1, BatchRest, BatchTimer, FrameDropCopy, FrameEnv DEF Next, boardVars
<1> QED
  BY <1>2, Invariance, PTL DEF Spec

----------------------------------------------------------------------------
(* The token: a refresh that comes to nothing is final. *)

\* DropCopy exists once the first token came, and from then on a call for a token
\* is that of a request: the download of OrderEntryREST never asks again.
TokenCalls ==
  /\ hasToken <=> socket # "absent"
  /\ restState = "PRIVATE_TOKEN" => ~hasToken
  /\ socket = "absent" => query = "none" /\ "private_token" \notin pending \cup sent
  /\ socket # "absent" /\ "private_token" \in Outstanding => "private_token" \in sent

\* What a step may do to a refresh: one that is lost stays so, and only the error
\* of a call for the token loses one.
RefreshMoves ==
  /\ RefreshLost => RefreshLost'
  /\ RefreshLost' => RefreshLost \/ GetPrivateTokenAckError

\* Without a call, a request or a token given up, nothing of the token changes.
LEMMA TokenUnchanged ==
  ASSUME TokenCalls, UNCHANGED <<socket, hasToken, restState, query>>,
         "private_token" \in pending' <=> "private_token" \in pending,
         "private_token" \in sent' <=> "private_token" \in sent,
         "private_token" \in Outstanding' => "private_token" \in Outstanding
  PROVE  TokenCalls' /\ RefreshMoves
  BY DEF TokenCalls, RefreshMoves, RefreshLost

LEMMA TokenRest ==
  ASSUME Inv, TokenCalls, RestNext
  PROVE  TokenCalls' /\ RefreshMoves
<1> USE DEF Inv, TypeOK, restVars, callVars, boardVars, linkVars, dcVars
<1>1. pending' = pending
  BY FrameRest
<1>2. ASSUME NEW c, Answered(c) \/ Failed(c)
      PROVE  Outstanding' = Outstanding \ {c} /\ c \in Outstanding
  BY <1>2 DEF Answered, Failed, Outstanding, RestAgrees
<1>3. CASE RestConnected
  <2>1. UNCHANGED <<socket, hasToken, query, sent>>
    BY <1>3 DEF RestConnected
  <2>2. Outstanding = {} /\ (hasToken => Outstanding' = {} /\ restState' = "DONE")
    BY <1>3 DEF RestConnected, Outstanding
  <2>3. RefreshMoves
    BY <1>1, <2>1 DEF RefreshMoves, RefreshLost
  <2> QED BY <1>1, <2>1, <2>2, <2>3 DEF TokenCalls
<1>4. CASE RestDisconnected
  <2>1. /\ UNCHANGED <<socket, hasToken, query, sent>> /\ Outstanding' = Outstanding
        /\ restState' = "UNDEFINED"
    BY <1>4 DEF RestDisconnected, Outstanding
  <2> QED BY <1>1, <2>1 DEF TokenCalls, RefreshMoves, RefreshLost
<1>5. CASE GetPrivateTokenAckOk
  <2>1. /\ Outstanding' = Outstanding \ {"private_token"}
        /\ "private_token" \in Outstanding
    BY <1>2, <1>5 DEF GetPrivateTokenAckOk
  <2>2. /\ query' = "valid" /\ hasToken' = TRUE /\ socket' # "absent"
        /\ restState' # "PRIVATE_TOKEN"
    BY <1>5 DEF GetPrivateTokenAckOk
  <2>3. ~RefreshLost /\ ~RefreshLost'
    BY <2>1, <2>2 DEF RefreshLost, TokenCalls
  <2> QED BY <2>1, <2>2, <2>3 DEF TokenCalls, RefreshMoves
<1>6. CASE GetPrivateTokenAckError
  <2>1. /\ UNCHANGED <<socket, hasToken, restState, query>>
        /\ sent' = sent \ {"private_token"}
    BY <1>6 DEF GetPrivateTokenAckError, Commit
  <2>2. \/ restState = "PRIVATE_TOKEN" /\ Outstanding' = Outstanding
        \/ Outstanding' = Outstanding \ {"private_token"}
    BY <1>2, <1>6 DEF GetPrivateTokenAckError, Outstanding
  <2>3. RefreshMoves
    BY <1>1, <1>6, <2>1 DEF RefreshMoves, RefreshLost
  <2> QED BY <1>1, <2>1, <2>2, <2>3 DEF TokenCalls
<1>7. CASE GetPrivateTokenAckRejected \/ Redirected
  BY <1>7, TokenUnchanged DEF GetPrivateTokenAckRejected, Redirected, Outstanding
<1>8. CASE GetAccountAck \/ GetPositionsAck \/ GetOrdersAck \/ GetFillsAck
  <2>1. PICK k \in {"balances", "positions", "open_orders", "trades"} :
          (Answered(k) \/ Failed(k)) /\ SnapshotAck(k)
    BY <1>8 DEF GetAccountAck, GetPositionsAck, GetOrdersAck, GetFillsAck
  <2>2. UNCHANGED <<socket, hasToken, restState, query>> /\ sent' = sent \ {k}
    BY <2>1 DEF SnapshotAck, Commit
  <2>3. Outstanding' = Outstanding \ {k}
    BY <1>2, <2>1
  <2> QED BY <1>1, <2>2, <2>3, TokenUnchanged
<1>9. ASSUME NEW o \in Orders, GetOrderAck(o)
      PROVE  TokenCalls' /\ RefreshMoves
  <2>1. UNCHANGED <<socket, hasToken, restState, query>>
    BY <1>9 DEF GetOrderAck
  <2>2. sent' = sent \/ sent' = sent \ {"stale_orders"}
    BY <1>9 DEF GetOrderAck, Commit
  <2>3. Outstanding' = Outstanding \ {o}
    BY <1>2, <1>9 DEF GetOrderAck
  <2> QED BY <1>1, <2>1, <2>2, <2>3, TokenUnchanged
<1> QED
  BY <1>3, <1>4, <1>5, <1>6, <1>7, <1>8, <1>9 DEF RestNext

LEMMA TokenDropCopy ==
  ASSUME Inv, TokenCalls, DropCopyNext
  PROVE  TokenCalls' /\ RefreshMoves
<1>1. UNCHANGED <<hasToken, restState, sent>> /\ Outstanding' = Outstanding
  BY FrameDropCopy DEF restVars, callVars, Outstanding
<1>2. CASE DropCopyError
  <2>1. /\ UNCHANGED socket /\ socket = "ready" /\ query # "none"
        /\ pending' = pending \cup {"private_token"}
    BY <1>2 DEF DropCopyError, Receiving
  <2> QED BY <1>1, <2>1 DEF TokenCalls, RefreshMoves, RefreshLost
<1>3. CASE DropCopyConnected \/ DropCopyReady \/ DropCopyDisconnected
  <2>1. UNCHANGED <<query, pending>> /\ socket # "absent" /\ socket' # "absent"
    BY <1>3 DEF DropCopyConnected, DropCopyReady, DropCopyDisconnected, dcVars, boardVars
  <2> QED BY <1>1, <2>1 DEF TokenCalls, RefreshMoves, RefreshLost
<1>4. CASE DropCopyWelcome \/ DropCopyAck \/ \E o \in Orders : DropCopyOrderChange(o)
  <2>1. UNCHANGED <<socket, query>>
    BY <1>4 DEF DropCopyWelcome, DropCopyAck, DropCopyOrderChange, linkVars, dcVars
  <2>2. "private_token" \in pending' <=> "private_token" \in pending
    <3>1. \A t \in Stages : "private_token" \notin Asked(t)
      BY DEF Asked, Asks, Gets
    <3>2. NextStage(state, details) \in Stages
      BY Stage DEF Inv, TypeOK
    <3> QED BY <1>4, <3>1, <3>2 DEF DropCopyWelcome, DropCopyAck, DropCopyOrderChange,
                                   boardVars
  <2> QED BY <1>1, <2>1, <2>2, TokenUnchanged
<1> QED BY <1>2, <1>3, <1>4 DEF DropCopyNext

LEMMA TokenEnv ==
  ASSUME TokenCalls, EnvNext
  PROVE  TokenCalls' /\ RefreshMoves
<1>1. /\ UNCHANGED <<hasToken, restState, socket, pending, sent>>
      /\ Outstanding' = Outstanding
  BY FrameEnv DEF restVars, callVars, boardVars, Outstanding
<1>2. query' = query \/ (query = "valid" /\ query' = "expired")
  BY DEF EnvNext, SuspendElapsed, TokenExpires, OrderTurnsStale, dcVars
<1> QED BY <1>1, <1>2 DEF TokenCalls, RefreshMoves, RefreshLost

\* DropCopy gives a token up only together with a request for the next one.
LEMMA TokenRenewed ==
  ASSUME Inv, NEW p, NEW r, NEW d, NEW due, NEW expire,
         d \subseteq Orders, DropCopyTimer(p, r, d, due, expire)
  PROVE  \/ /\ query' = query
            /\ "private_token" \in pending' <=> "private_token" \in p
         \/ /\ socket # "absent" /\ query # "none" /\ query' = "none"
            /\ "private_token" \in pending'
<1> USE DEF Inv, TypeOK
<1>1. CASE DropCopyAbsent(p, r, d) \/ DropCopyFatal(p, r, d)
  BY <1>1 DEF DropCopyAbsent, DropCopyFatal, dcVars
<1>2. CASE socket \in {"down", "connected"} /\ DropCopyWait(p, r, d, expire)
  BY <1>2 DEF DropCopyWait
<1>3. CASE socket = "ready" /\ DropCopyPoll(p, r, d, due, expire)
  <2> DEFINE d1 == Noted(r, d)
             t == IF Completes(r) THEN NextStage(state, d1) ELSE state
             found == IF Scans(due, t) /\ ~(stale \subseteq d1) THEN {"stale_orders"}
                      ELSE {}
             asked == IF Completes(r) THEN Asked(t) ELSE {}
             renew == IF expire /\ simulated /\ query # "none"
                      THEN {"private_token"} ELSE {}
  <2>1. /\ pending' = p \cup asked \cup found \cup renew
        /\ query' = IF renew = {} THEN query ELSE "none"
    BY <1>3 DEF DropCopyPoll
  <2>2. "private_token" \notin asked \cup found
    <3>1. \A s : "private_token" \notin Asked(s)
      BY DEF Asked, Asks, Gets
    <3> QED BY <3>1
  <2>3. CASE renew = {}
    BY <2>1, <2>2, <2>3
  <2>4. CASE renew # {}
    <3>1. query # "none" /\ renew = {"private_token"}
      BY <2>4
    <3> QED BY <1>3, <2>1, <3>1
  <2> QED BY <2>3, <2>4
<1> QED BY <1>1, <1>2, <1>3 DEF DropCopyTimer

LEMMA TokenTimer ==
  ASSUME Inv, TokenCalls, Timer
  PROVE  TokenCalls' /\ RefreshMoves
<1> USE DEF Inv, TypeOK
<1>1. ASSUME NEW k \in Kinds, NEW batch \in SUBSET Orders, NEW p, NEW r,
             NEW d \in SUBSET Orders, NEW due, NEW expire,
             \/ RestSend(k, batch) /\ p = pending \ {k}
             \/ UNCHANGED <<callVars, sent>> /\ p = pending,
             DropCopyTimer(p, r, d, due, expire), UNCHANGED restVars
      PROVE  TokenCalls' /\ RefreshMoves
  <2>1. UNCHANGED <<socket, hasToken, restState>>
    BY <1>1, FrameTimer DEF restVars
  <2>2. \/ /\ k \in pending /\ p = pending \ {k} /\ sent' = sent \cup {k}
           /\ \/ Outstanding' = Outstanding \cup {k}
              \/ Outstanding' = Outstanding \cup batch
        \/ p = pending /\ sent' = sent /\ Outstanding' = Outstanding
    BY <1>1 DEF RestSend, CanSend, Outstanding, callVars
  <2>3. "private_token" \notin batch
    BY CallKinds
  <2>4. /\ "private_token" \in p \cup sent' <=> "private_token" \in pending \cup sent
        /\ "private_token" \in Outstanding' =>
             "private_token" \in Outstanding \/ "private_token" \in sent'
        /\ sent \subseteq sent'
    BY <2>2, <2>3
  <2>5. \/ /\ query' = query
           /\ "private_token" \in pending' <=> "private_token" \in p
        \/ /\ socket # "absent" /\ query # "none" /\ query' = "none"
           /\ "private_token" \in pending'
    BY <1>1, TokenRenewed
  <2> QED BY <2>1, <2>4, <2>5 DEF TokenCalls, RefreshMoves, RefreshLost
<1>2. PICK due \in BOOLEAN, expire \in BOOLEAN :
        \/ \E k \in Kinds, batch \in SUBSET Orders :
             /\ RestSend(k, batch)
             /\ DropCopyTimer(pending \ {k}, response,
                  IF k = "stale_orders" THEN {} ELSE details, due, expire)
             /\ UNCHANGED <<restVars, stale>>
        \/ /\ UNCHANGED <<callVars, sent, fresh>>
           /\ DropCopyTimer(pending, response, details, due, expire)
           /\ UNCHANGED <<restVars, stale>>
  BY TimerParts
<1>3. CASE \E k \in Kinds, batch \in SUBSET Orders :
             /\ RestSend(k, batch)
             /\ DropCopyTimer(pending \ {k}, response,
                  IF k = "stale_orders" THEN {} ELSE details, due, expire)
             /\ UNCHANGED <<restVars, stale>>
  BY <1>1, <1>3
<1>4. CASE /\ UNCHANGED <<callVars, sent, fresh>>
           /\ DropCopyTimer(pending, response, details, due, expire)
           /\ UNCHANGED <<restVars, stale>>
  <2>1. "balances" \in Kinds /\ {} \in SUBSET Orders
    BY CallKinds
  <2> QED BY <1>1, <1>4, <2>1
<1> QED BY <1>2, <1>3, <1>4

LEMMA TokenStep ==
  ASSUME Inv, TokenCalls, [Next]_vars
  PROVE  TokenCalls' /\ RefreshMoves
<1>1. CASE UNCHANGED vars
  BY <1>1, TokenUnchanged DEF vars, restVars, callVars, boardVars, linkVars, dcVars,
                              Outstanding
<1> QED BY <1>1, TokenRest, TokenDropCopy, TokenEnv, TokenTimer DEF Next

\* A refresh of the token that failed is lost for ever: from then on there is no
\* token and no request for one, whatever else happens.  Only the error of the
\* call for the token loses it.
THEOREM RefreshLostForGood == Spec => [][RefreshMoves]_vars
<1>1. Init => TokenCalls
  BY DEF Init, TokenCalls, Outstanding
<1>2. Inv /\ TokenCalls /\ [Next]_vars => TokenCalls'
  BY TokenStep
<1>3. Inv /\ TokenCalls /\ [Next]_vars => [RefreshMoves]_vars
  BY TokenStep
<1> QED
  BY <1>1, <1>2, <1>3, Invariance, PTL DEF Spec

----------------------------------------------------------------------------
(* The log::fatal on left over stale orders: not without a reconnect. *)

\* DropCopy has lost no connection, and no token has expired or is said to have.
FirstSession ==
  /\ budget["stream"] = MaxFaults["stream"]
  /\ budget["expiry"] = MaxFaults["expiry"]
  /\ ~SimulateExpired

\* The stages before the stale orders are looked for.
BeforeStale == {"UNDEFINED", "SUBSCRIBE_BALANCES", "GET_BALANCES",
                "SUBSCRIBE_POSITIONS", "GET_POSITIONS", "SUBSCRIBE_ORDERS",
                "GET_OPEN_ORDERS"}

\* In stage s, the query for stale orders on the board (p, b) of pending requests
\* and of those sent or answered: it is first made on entering GET_STALE_ORDERS,
\* and no second one comes before that stage is left.
AskedOnce(s, p, b) ==
  /\ s \in BeforeStale => "stale_orders" \notin p \cup b
  /\ s = "GET_STALE_ORDERS" => ~("stale_orders" \in p /\ "stale_orders" \in b)

\* What holds in the first session.
FirstBoard ==
  /\ ~simulated /\ ~closing
  /\ query # "expired"
  /\ query = "none" => socket = "absent"
  /\ socket \in {"connected", "ready"} => wire = "valid"
  /\ AskedOnce(state, pending, sent \cup response)
  /\ crash # "leftover"

FirstInv ==
  /\ budget["stream"] <= MaxFaults["stream"]
  /\ budget["expiry"] <= MaxFaults["expiry"]
  /\ FirstSession => FirstBoard

\* A budget is only ever spent, and by one step for one fault.
LEMMA BudgetStep ==
  ASSUME Inv, [Next]_vars
  PROVE  UNCHANGED budget \/ \E f \in FaultKinds : Spend(f)
<1> USE FaultNames
<1>1. CASE RestNext
  <2>1. ASSUME NEW c, Answered(c) \/ Failed(c)
        PROVE  UNCHANGED budget \/ Spend("error")
    BY <2>1 DEF Answered, Failed
  <2>2. ASSUME NEW o \in Orders, GetOrderAck(o)
        PROVE  UNCHANGED budget \/ Spend("error")
    BY <2>1, <2>2 DEF GetOrderAck
  <2>3. CASE GetAccountAck \/ GetPositionsAck \/ GetOrdersAck \/ GetFillsAck
    BY <2>1, <2>3 DEF GetAccountAck, GetPositionsAck, GetOrdersAck, GetFillsAck
  <2>4. CASE \/ RestConnected \/ RestDisconnected \/ GetPrivateTokenAckOk
             \/ GetPrivateTokenAckError \/ GetPrivateTokenAckRejected \/ Redirected
    BY <2>1, <2>4 DEF RestConnected, RestDisconnected, GetPrivateTokenAckOk,
         GetPrivateTokenAckError, GetPrivateTokenAckRejected, Redirected
  <2> QED BY <1>1, <2>2, <2>3, <2>4 DEF RestNext
<1>2. CASE DropCopyNext
  BY <1>2 DEF DropCopyNext, DropCopyConnected, DropCopyReady, DropCopyDisconnected,
       DropCopyWelcome, DropCopyAck, DropCopyError, DropCopyOrderChange
<1>3. CASE EnvNext
  BY <1>3 DEF EnvNext, SuspendElapsed, TokenExpires, OrderTurnsStale
<1>4. ASSUME NEW p, NEW r, NEW d, NEW due, NEW expire,
             DropCopyTimer(p, r, d, due, expire)
      PROVE  UNCHANGED budget \/ Spend("stream")
  BY <1>4 DEF DropCopyTimer, DropCopyAbsent, DropCopyWait, DropCopyFatal, DropCopyPoll
<1>5. CASE Timer
  BY <1>4, <1>5, TimerParts
<1>6. CASE UNCHANGED vars
  BY <1>6 DEF vars
<1> QED BY <1>1, <1>2, <1>3, <1>5, <1>6 DEF Next

\* The budgets of the two faults never rise; the first session, once over, is over.
LEMMA FirstBack ==
  ASSUME Inv, FirstInv, [Next]_vars
  PROVE  /\ budget'["stream"] <= MaxFaults["stream"]
         /\ budget'["expiry"] <= MaxFaults["expiry"]
         /\ FirstSession' => /\ FirstSession /\ FirstBoard
                             /\ ~Spend("stream") /\ ~Spend("expiry")
<1> USE DEF Inv, TypeOK, FirstInv
<1>1. /\ budget["stream"] \in Nat /\ budget["expiry"] \in Nat
      /\ MaxFaults["stream"] \in Nat /\ MaxFaults["expiry"] \in Nat
  BY FaultNames
<1>2. /\ budget'["stream"] <= budget["stream"] /\ budget'["stream"] \in Nat
      /\ budget'["expiry"] <= budget["expiry"] /\ budget'["expiry"] \in Nat
  <2>1. ASSUME NEW f \in FaultKinds, Spend(f), NEW g \in FaultKinds
        PROVE  budget'[g] <= budget[g] /\ budget'[g] \in Nat
    <3>1. budget[f] \in Nat /\ budget[g] \in Nat
      OBVIOUS
    <3> QED BY <2>1, <3>1 DEF Spend
  <2>2. CASE UNCHANGED budget
    BY <1>1, <2>2
  <2> QED BY <2>1, <2>2, BudgetStep, FaultNames
<1>3. Spend("stream") => budget'["stream"] < budget["stream"]
  BY <1>1, FaultNames DEF Spend
<1>4. Spend("expiry") => budget'["expiry"] < budget["expiry"]
  BY <1>1, FaultNames DEF Spend
<1> QED BY <1>1, <1>2, <1>3, <1>4 DEF FirstSession

LEMMA FirstRest ==
  ASSUME Inv, FirstBoard, RestNext, crash = "no"
  PROVE  FirstBoard'
<1> USE DEF Inv, restVars, callVars, boardVars, linkVars, dcVars
<1>1. UNCHANGED <<pending, state>>
  BY FrameRest
<1>2. "stale_orders" \in sent' \cup response' => "stale_orders" \in sent \cup response
  <2>1. ASSUME NEW o \in Orders, GetOrderAck(o)
        PROVE  "stale_orders" \in sent
    BY <2>1 DEF GetOrderAck, Answered, Failed, Outstanding, SentAccounted
  <2>2. ASSUME NEW o \in Orders, GetOrderAck(o)
        PROVE  "stale_orders" \in sent \cup response
    BY <2>1, <2>2
  <2> QED
    BY <2>2 DEF RestNext, RestConnected, RestDisconnected, GetPrivateTokenAckOk,
       GetPrivateTokenAckError, GetPrivateTokenAckRejected, Redirected, GetAccountAck,
       GetPositionsAck, GetOrdersAck, GetFillsAck, SnapshotAck, Commit
<1>3. AskedOnce(state, pending, sent \cup response)'
  BY <1>1, <1>2 DEF FirstBoard, AskedOnce
<1>4. /\ UNCHANGED <<simulated, closing, wire>> /\ crash' # "leftover"
      /\ \/ UNCHANGED <<query, socket>>
         \/ query' = "valid" /\ socket' = IF socket = "absent" THEN "down" ELSE socket
  <2>1. ASSUME NEW o \in Orders, GetOrderAck(o)
        PROVE  UNCHANGED <<simulated, closing, wire, query, socket>> /\ crash' # "leftover"
    BY <2>1 DEF GetOrderAck
  <2> QED
    BY <2>1 DEF RestNext, RestConnected, RestDisconnected, GetPrivateTokenAckOk,
       GetPrivateTokenAckError, GetPrivateTokenAckRejected, Redirected, GetAccountAck,
       GetPositionsAck, GetOrdersAck, GetFillsAck, SnapshotAck
<1> QED BY <1>3, <1>4 DEF FirstBoard

LEMMA FirstDropCopy ==
  ASSUME Inv, FirstSession, FirstBoard, DropCopyNext, ~Spend("stream")
  PROVE  FirstBoard'
<1> USE DEF Inv, restVars, callVars, boardVars, linkVars, dcVars
<1>1. UNCHANGED <<sent, crash>>
  BY FrameDropCopy
<1>2. CASE DropCopyConnected
  <2>1. /\ UNCHANGED <<closing, query, state, pending, response>> /\ ~simulated'
        /\ socket = "down" /\ socket' = "connected" /\ wire' = query
    BY <1>2 DEF DropCopyConnected, FirstSession, FirstBoard
  <2>2. query = "valid"
    BY <2>1 DEF FirstBoard, TypeOK
  <2> QED BY <1>1, <2>1, <2>2 DEF FirstBoard
<1>3. CASE DropCopyReady
  BY <1>1, <1>3 DEF DropCopyReady, FirstBoard
<1>4. ~DropCopyDisconnected /\ ~DropCopyError
  BY DEF DropCopyDisconnected, DropCopyError, Receiving, FirstBoard
<1>5. CASE DropCopyWelcome
  <2>1. state = "UNDEFINED" /\ state' = "SUBSCRIBE_BALANCES"
    BY <1>5 DEF DropCopyWelcome, SessionAgrees, EnterStage, NextStage, Follows
  <2>2. UNCHANGED <<simulated, closing, query, socket, wire, pending, response>>
    BY <1>5 DEF DropCopyWelcome
  <2> QED BY <1>1, <2>1, <2>2 DEF FirstBoard, AskedOnce, BeforeStale
<1>6. CASE DropCopyAck
  <2>1. PICK t : t = NextStage(state, details) /\ state' = t
                 /\ pending' = pending \cup Asked(t) /\ response' = response \ Asked(t)
    BY <1>6 DEF DropCopyAck, EnterStage
  <2>2. state \in Subs
    BY <1>6 DEF DropCopyAck, SubscribeAgrees
  <2>3. /\ t \in BeforeStale \ {"UNDEFINED"} /\ "stale_orders" \notin Asked(t)
        /\ state \in BeforeStale
    BY <2>1, <2>2 DEF Subs, NextStage, Follows, Asked, Asks, BeforeStale
  <2>4. AskedOnce(state, pending, sent \cup response)'
    BY <1>1, <2>1, <2>3 DEF FirstBoard, AskedOnce, BeforeStale
  <2> QED BY <1>1, <1>6, <2>4 DEF DropCopyAck, FirstBoard
<1>7. ASSUME NEW o \in Orders, DropCopyOrderChange(o) PROVE FirstBoard'
  BY <1>1, <1>7 DEF DropCopyOrderChange, FirstBoard
<1> QED BY <1>2, <1>3, <1>4, <1>5, <1>6, <1>7 DEF DropCopyNext

\* DropCopy's part of a tick, on a board where the query was made once at most.
LEMMA FirstTick ==
  ASSUME Inv, FirstBoard, crash = "no", ~Spend("stream"),
         NEW p \in SUBSET Kinds, NEW r \in SUBSET Kinds, NEW d \in SUBSET Orders,
         NEW due, NEW expire,
         d # {} <=> "stale_orders" \in p,
         AskedOnce(state, p, sent' \cup r),
         DropCopyTimer(p, r, d, due, expire)
  PROVE  FirstBoard'
<1> USE DEF Inv, linkVars, dcVars
<1>1. CASE DropCopyAbsent(p, r, d)
  BY <1>1 DEF DropCopyAbsent, FirstBoard
<1>2. CASE DropCopyWait(p, r, d, expire)
  <2>1. ~simulated /\ ~closing
    BY DEF FirstBoard
  <2>2. ~closing' /\ ~simulated'
    BY <1>2, <2>1 DEF DropCopyWait
  <2>3. UNCHANGED <<query, socket, wire, state, crash>> /\ pending' = p /\ response' \subseteq r
    BY <1>2, <2>1 DEF DropCopyWait
  <2> QED BY <2>2, <2>3 DEF FirstBoard, AskedOnce
<1>3. ~LeftOver(r, d)
  BY DEF LeftOver, Completes, Asks, AskedOnce
<1>4. CASE DropCopyPoll(p, r, d, due, expire)
  <2> DEFINE d1 == Noted(r, d)
             t == IF Completes(r) THEN NextStage(state, d1) ELSE state
             found == IF Scans(due, t) /\ ~(stale \subseteq d1) THEN {"stale_orders"}
                      ELSE {}
             asked == IF Completes(r) THEN Asked(t) ELSE {}
             renew == IF expire /\ simulated /\ query # "none"
                      THEN {"private_token"} ELSE {}
             seen == IF Completes(r) THEN {Asks[state]} ELSE {}
  <2>1. ~simulated /\ ~closing /\ renew = {}
    BY DEF FirstBoard
  <2>2. /\ UNCHANGED <<socket, wire, crash>>
        /\ closing' = (closing \/ renew # {})
        /\ simulated' = (simulated /\ ~expire)
        /\ query' = IF renew = {} THEN query ELSE "none"
        /\ pending' = p \cup asked \cup found \cup renew
        /\ response' = (r \ (seen \cup {"private_token"})) \ (asked \cup found)
        /\ IF Completes(r) THEN EnterStage(t)
           ELSE UNCHANGED <<state, status, ready, subscribing>>
    BY <1>4 DEF DropCopyPoll
  <2>3. state' = t
    BY <2>2 DEF EnterStage
  <2>4. /\ UNCHANGED <<query, socket, wire, crash>> /\ ~simulated' /\ ~closing'
        /\ pending' = p \cup asked \cup found /\ response' \subseteq r
        /\ state' = t
    <3> HIDE DEF d1, t, found, asked, renew, seen
    <3> QED BY <2>1, <2>2, <2>3
  <2>5. t \in BeforeStale \cup {"GET_STALE_ORDERS"} => found = {}
    BY DEF Scans, BeforeStale
  <2>6. CASE ~Completes(r)
    <3>1. t = state /\ asked = {}
      BY <2>6
    <3>2. AskedOnce(state', pending', sent' \cup response')
      <4> HIDE DEF t, asked, found
      <4> QED BY <2>4, <2>5, <3>1 DEF AskedOnce
    <3> HIDE DEF t, asked, found
    <3> QED BY <2>4, <3>2 DEF FirstBoard
  <2>7. CASE Completes(r)
    <3>1. /\ t \in BeforeStale => state \in BeforeStale
          /\ t = "GET_STALE_ORDERS" => state \in BeforeStale
          /\ t \in BeforeStale => "stale_orders" \notin asked
      BY <2>7 DEF Completes, Gets, NextStage, Follows, Asked, Asks, BeforeStale
    <3>2. AskedOnce(state', pending', sent' \cup response')
      <4> HIDE DEF t, asked, found
      <4> QED BY <2>4, <2>5, <3>1 DEF AskedOnce
    <3> HIDE DEF t, asked, found
    <3> QED BY <2>4, <3>2 DEF FirstBoard
  <2> QED BY <2>6, <2>7
<1> QED BY <1>1, <1>2, <1>3, <1>4 DEF DropCopyTimer

LEMMA FirstTimer ==
  ASSUME Inv, FirstBoard, crash = "no", Timer, ~Spend("stream")
  PROVE  FirstBoard'
<1> USE DEF Inv, TypeOK
<1>1. ASSUME NEW k \in Kinds, NEW batch \in SUBSET Orders, RestSend(k, batch),
             NEW due \in BOOLEAN, NEW expire \in BOOLEAN,
             DropCopyTimer(pending \ {k}, response,
               IF k = "stale_orders" THEN {} ELSE details, due, expire)
      PROVE  FirstBoard'
  <2> DEFINE d == IF k = "stale_orders" THEN {} ELSE details
  <2>1. k \in pending /\ sent' = sent \cup {k}
    BY <1>1 DEF RestSend, CanSend
  <2>2. AskedOnce(state, pending \ {k}, sent' \cup response)
    BY <2>1 DEF FirstBoard, AskedOnce
  <2>3. d \in SUBSET Orders /\ (d # {} <=> "stale_orders" \in pending \ {k})
    BY DEF NoLostStaleOrder
  <2> HIDE DEF d
  <2> QED BY <1>1, <2>2, <2>3, FirstTick DEF d
<1>2. ASSUME NEW due \in BOOLEAN, NEW expire \in BOOLEAN, sent' = sent,
             DropCopyTimer(pending, response, details, due, expire)
      PROVE  FirstBoard'
  <2>1. AskedOnce(state, pending, sent' \cup response)
    BY <1>2 DEF FirstBoard
  <2> QED BY <1>2, <2>1, FirstTick DEF NoLostStaleOrder
<1> QED BY <1>1, <1>2, TimerParts

LEMMA FirstStep ==
  ASSUME Inv, FirstInv, [Next]_vars
  PROVE  FirstInv'
<1> SUFFICES ASSUME FirstSession' PROVE FirstBoard'
  BY FirstBack DEF FirstInv, FirstSession
<1>1. FirstSession /\ FirstBoard /\ ~Spend("stream") /\ ~Spend("expiry")
  BY FirstBack
<1>2. CASE EnvNext
  <2>1. /\ UNCHANGED <<pending, sent, response, crash, socket, state>>
        /\ UNCHANGED <<simulated, closing, query, wire>>
    BY <1>1, <1>2, FrameEnv
       DEF EnvNext, SuspendElapsed, TokenExpires, OrderTurnsStale,
           boardVars, linkVars, dcVars
  <2> QED BY <1>1, <2>1 DEF FirstBoard
<1>3. CASE UNCHANGED vars
  BY <1>1, <1>3 DEF vars, boardVars, linkVars, dcVars, FirstBoard
<1> QED BY <1>1, <1>2, <1>3, FirstRest, FirstDropCopy, FirstTimer DEF Next

\* check_request_queue meets left over stale orders, and ends the process, only
\* after DropCopy lost a connection or a token expired: never in its first session,
\* for any orders, any connection losses of OrderEntryREST and any errors.
THEOREM LeftOverNeedsReconnect == Spec => [](FirstSession => NoLeftOver)
<1>1. Init => FirstInv
  <2>1. MaxFaults["stream"] \in Nat /\ MaxFaults["expiry"] \in Nat
    BY FaultNames
  <2> QED BY <2>1 DEF Init, FirstInv, FirstBoard, AskedOnce
<1>2. Inv /\ FirstInv /\ [Next]_vars => FirstInv'
  BY FirstStep
<1>3. FirstInv => (FirstSession => NoLeftOver)
  BY DEF FirstInv, FirstBoard, NoLeftOver
<1> QED
  BY <1>1, <1>2, <1>3, Invariance, PTL DEF Spec
=============================================================================
