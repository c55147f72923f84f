-------------------------- MODULE MarketFeedProofs --------------------------
(***************************************************************************)
(* Proofs about MarketFeed, for every finite set of symbols, every size of *)
(* a slice and any number of faults.                                       *)
(***************************************************************************)
EXTENDS MarketFeed, FiniteSetTheorems, SequenceTheorems, TLAPS

\* Place k of the list belongs to stream i.
Belongs(k, i) == (i - 1) * PerStream < k /\ k <= i * PerStream

LEMMA IndexNat == Index \subseteq Nat \ {0}
  BY FS_CardinalityType, SymbolsAssumption DEF Index

\* What a part of a list holds.
LEMMA SubSeqElems ==
  ASSUME NEW s \in Seq(Symbols), NEW m \in Nat \ {0}, NEW n \in 0..Len(s)
  PROVE  /\ SubSeq(s, m, n) \in Seq(Symbols)
         /\ Elems(SubSeq(s, m, n)) = {s[k] : k \in m..n}
<1>1. SubSeq(s, m, n) \in Seq(Symbols)
  OBVIOUS
<1>2. Len(SubSeq(s, m, n)) = IF m <= n THEN n - m + 1 ELSE 0
  OBVIOUS
<1>3. ASSUME NEW k \in 1..(n - m + 1) PROVE SubSeq(s, m, n)[k] = s[m + k - 1]
  OBVIOUS
<1>4. DOMAIN SubSeq(s, m, n) = 1..Len(SubSeq(s, m, n))
  BY <1>1
<1>5. ASSUME NEW k \in 1..Len(SubSeq(s, m, n))
      PROVE  SubSeq(s, m, n)[k] \in {s[j] : j \in m..n}
  <2>1. k \in 1..(n - m + 1) /\ m + k - 1 \in m..n
    BY <1>2
  <2> QED BY <1>3, <2>1
<1>6. ASSUME NEW k \in m..n PROVE s[k] \in Elems(SubSeq(s, m, n))
  <2>1. k - m + 1 \in 1..(n - m + 1) /\ m + (k - m + 1) - 1 = k
        /\ k - m + 1 \in 1..Len(SubSeq(s, m, n))
    BY <1>2
  <2>2. SubSeq(s, m, n)[k - m + 1] = s[k]
    BY <1>3, <2>1
  <2> QED BY <1>4, <2>1, <2>2 DEF Elems
<1> QED BY <1>1, <1>4, <1>5, <1>6 DEF Elems

LEMMA ElemsAll ==
  ASSUME NEW s \in Seq(Symbols)
  PROVE  Elems(s) = {s[k] : k \in 1..Len(s)}
  BY DEF Elems

LEMMA ProductNat == \A u, v \in Nat : u * v \in Nat
  OBVIOUS

\* What a slice holds: the elements at the places of the stream after `from`.
LEMMA SliceElems ==
  ASSUME NEW s \in Seq(Symbols), NEW i \in Index, NEW from \in 0..Len(s)
  PROVE  /\ Slice(i, from, s) \in Seq(Symbols)
         /\ Elems(Slice(i, from, s)) =
              {s[k] : k \in {j \in 1..Len(s) : from < j /\ Belongs(j, i)}}
<1>1. (i - 1) * PerStream \in Nat /\ i * PerStream \in Nat
  BY IndexNat, SliceAssumption, ProductNat
<1>2. PICK lo \in Nat, hi \in Nat : lo = (i - 1) * PerStream /\ hi = i * PerStream
  BY <1>1
<1>3. PICK m \in Nat \ {0}, n \in 0..Len(s) :
        /\ m = 1 + (IF from < lo THEN lo ELSE from)
        /\ n = IF Len(s) < hi THEN Len(s) ELSE hi
  <2>1. 1 + (IF from < lo THEN lo ELSE from) \in Nat \ {0}
    OBVIOUS
  <2>2. (IF Len(s) < hi THEN Len(s) ELSE hi) \in 0..Len(s)
    OBVIOUS
  <2> QED BY <2>1, <2>2
<1>4. Slice(i, from, s) = SubSeq(s, m, n)
  BY <1>2, <1>3 DEF Slice
<1>5. \A j : j \in m..n <=> j \in {k \in 1..Len(s) : from < k /\ Belongs(k, i)}
  <2>1. \A j \in Int : (m <= j /\ j <= n) <=>
          (1 <= j /\ j <= Len(s) /\ from < j /\ lo < j /\ j <= hi)
    BY <1>3
  <2> QED BY <1>2, <2>1 DEF Belongs
<1>6. m..n = {k \in 1..Len(s) : from < k /\ Belongs(k, i)}
  BY <1>5
<1> QED BY <1>4, <1>6, SubSeqElems

LEMMA ElemsConcat ==
  ASSUME NEW s \in Seq(Symbols), NEW t \in Seq(Symbols)
  PROVE  /\ s \o t \in Seq(Symbols)
         /\ Elems(s \o t) = Elems(s) \cup Elems(t)
<1>1. /\ s \o t \in Seq(Symbols) /\ Len(s \o t) = Len(s) + Len(t)
      /\ \A k \in 1..Len(s) : (s \o t)[k] = s[k]
      /\ \A k \in 1..Len(t) : (s \o t)[k + Len(s)] = t[k]
  BY ConcatProperties
<1>2. ASSUME NEW k \in 1..Len(s \o t) PROVE (s \o t)[k] \in Elems(s) \cup Elems(t)
  <2>1. CASE k <= Len(s)
    BY <1>1, <2>1 DEF Elems
  <2>2. CASE k > Len(s)
    <3>1. k - Len(s) \in 1..Len(t) /\ (k - Len(s)) + Len(s) = k
      BY <1>1, <2>2
    <3> QED BY <1>1, <3>1 DEF Elems
  <2> QED BY <2>1, <2>2
<1>3. ASSUME NEW k \in 1..Len(s) PROVE s[k] \in Elems(s \o t)
  BY <1>1 DEF Elems
<1>4. ASSUME NEW k \in 1..Len(t) PROVE t[k] \in Elems(s \o t)
  <2>1. k + Len(s) \in 1..Len(s \o t)
    BY <1>1
  <2> QED BY <1>1, <2>1 DEF Elems
<1>5. /\ Elems(s \o t) = {(s \o t)[k] : k \in 1..Len(s \o t)}
      /\ Elems(s) = {s[k] : k \in 1..Len(s)}
      /\ Elems(t) = {t[k] : k \in 1..Len(t)}
  BY <1>1, ElemsAll
<1>6. Elems(s \o t) \subseteq Elems(s) \cup Elems(t)
  <2> SUFFICES ASSUME NEW x \in Elems(s \o t)
               PROVE  x \in Elems(s) \cup Elems(t)
    OBVIOUS
  <2>1. PICK k \in 1..Len(s \o t) : x = (s \o t)[k]
    BY <1>5, Zenon
  <2> QED BY <1>2, <2>1, Zenon
<1>7. Elems(s) \subseteq Elems(s \o t)
  <2> SUFFICES ASSUME NEW x \in Elems(s) PROVE x \in Elems(s \o t)
    OBVIOUS
  <2>1. PICK k \in 1..Len(s) : x = s[k]
    BY <1>5, Zenon
  <2> QED BY <1>3, <2>1, Zenon
<1>8. Elems(t) \subseteq Elems(s \o t)
  <2> SUFFICES ASSUME NEW x \in Elems(t) PROVE x \in Elems(s \o t)
    OBVIOUS
  <2>1. PICK k \in 1..Len(t) : x = t[k]
    BY <1>5, Zenon
  <2> QED BY <1>4, <2>1, Zenon
<1>9. Elems(s \o t) = Elems(s) \cup Elems(t)
  BY <1>6, <1>7, <1>8, Zenon
<1> QED BY <1>1, <1>9

\* Cutting a list in two keeps its elements.
LEMMA ElemsCut ==
  ASSUME NEW s \in Seq(Symbols), NEW n \in 0..Len(s)
  PROVE  /\ SubSeq(s, n + 1, Len(s)) \in Seq(Symbols)
         /\ Elems(SubSeq(s, 1, n)) \cup Elems(SubSeq(s, n + 1, Len(s))) = Elems(s)
<1>1. Elems(SubSeq(s, 1, n)) = {s[k] : k \in 1..n}
  BY SubSeqElems
<1>2. /\ SubSeq(s, n + 1, Len(s)) \in Seq(Symbols)
      /\ Elems(SubSeq(s, n + 1, Len(s))) = {s[k] : k \in (n + 1)..Len(s)}
  <2>1. n + 1 \in Nat \ {0} /\ Len(s) \in 0..Len(s)
    OBVIOUS
  <2> QED BY <2>1, SubSeqElems
<1>3. (1..n) \cup ((n + 1)..Len(s)) = 1..Len(s)
  OBVIOUS
<1> QED BY <1>1, <1>2, <1>3, ElemsAll

LEMMA ListsAreSeqs ==
  ASSUME NEW new \in Lists(Symbols)
  PROVE  /\ new \in Seq(Symbols)
         /\ \A j, k \in 1..Len(new) : new[j] = new[k] => j = k
<1>1. PICK n \in Nat : new \in [1..n -> Symbols]
  <2>1. Cardinality(Symbols) \in Nat
    BY FS_CardinalityType, SymbolsAssumption
  <2> QED BY <2>1 DEF Lists
<1>2. new \in Seq(Symbols) /\ Len(new) = n /\ DOMAIN new = 1..n
  BY <1>1
<1> QED BY <1>2 DEF Lists

----------------------------------------------------------------------------
(* The inductive invariant. *)

\* The download passes the token before the contracts.
LoadedInOrder == stage \in {"CONTRACTS", "DONE"} => token # "none"

Inv ==
  /\ TypeOK
  /\ DownloadAsked
  /\ ReadyIsLoaded /\ LoadedInOrder
  /\ EverySymbolServed
  /\ NoSymbolForgotten
  /\ NoForeignSymbol

RestInv == DownloadAsked /\ ReadyIsLoaded /\ LoadedInOrder
FeedInv == EverySymbolServed /\ NoSymbolForgotten /\ NoForeignSymbol

LEMMA InitInv == Init => Inv
<1> SUFFICES ASSUME Init PROVE Inv
  OBVIOUS
<1>1. TypeOK
  <2>1. <<>> \in Seq(Symbols)
    OBVIOUS
  <2>2. queue \in [Index -> Seq(Symbols)] /\ symbols \in Seq(Symbols)
    BY <2>1 DEF Init
  <2> QED BY <2>2, FaultsAssumption DEF Init, TypeOK
<1>2. DownloadAsked /\ ReadyIsLoaded /\ LoadedInOrder
  BY DEF Init, DownloadAsked, ReadyIsLoaded, LoadedInOrder, Asking
<1>3. EverySymbolServed
  <2>1. Len(symbols) = 0 /\ \A i \in Index : (i - 1) * PerStream >= 0
    BY IndexNat, SliceAssumption, ProductNat DEF Init
  <2>2. \A i \in Index : (i - 1) * PerStream \in Nat
    BY IndexNat, SliceAssumption, ProductNat
  <2> QED BY <2>1, <2>2 DEF EverySymbolServed
<1>4. NoSymbolForgotten
  BY DEF Init, NoSymbolForgotten
<1>5. NoForeignSymbol
  BY DEF Init, NoForeignSymbol, Elems
<1> QED BY <1>1, <1>2, <1>3, <1>4, <1>5 DEF Inv

\* A step that leaves the feed alone keeps what is said of it.
LEMMA FeedUnchanged ==
  ASSUME FeedInv, UNCHANGED <<symbols, session, queue, subs>>
  PROVE  FeedInv'
<1>1. EverySymbolServed'
  BY DEF FeedInv, EverySymbolServed
<1>2. NoSymbolForgotten'
  BY DEF FeedInv, NoSymbolForgotten
<1>3. NoForeignSymbol'
  BY DEF FeedInv, NoForeignSymbol
<1> QED BY <1>1, <1>2, <1>3 DEF FeedInv

LEMMA SpendKeeps ==
  ASSUME NEW f \in FaultKinds, Spend(f), TypeOK
  PROVE  budget' \in [FaultKinds -> Nat]
  BY DEF Spend, TypeOK

\* Entering a stage that asks adds a call for it.
LEMMA EnterAsks ==
  ASSUME NEW s \in Asking, NEW calls \in [Asking -> Nat], Enter(s, calls)
  PROVE  /\ stage' = s /\ restStatus' = "DOWNLOADING"
         /\ current' \in [Asking -> Nat] /\ current'[s] > 0
  BY DEF Enter, Asking

\* The steps of Rest's connection and of calls that complete without effect.
LEMMA RestKeepsInv ==
  ASSUME Inv,
         \/ RestConnected \/ RestDisconnected
         \/ \E s \in Asking : AckSkipped(s) \/ AckError(s)
         \/ PublicTokenAck \/ PublicTokenRefused \/ Redirected
  PROVE  Inv'
<1> USE DEF Inv, RestInv
<1>1. CASE RestConnected
  <2>1. PICK s \in Asking : /\ s = IF stage \in Asking THEN stage ELSE "PUBLIC_TOKEN"
                            /\ Enter(s, [r \in Asking |-> 0])
    BY <1>1 DEF RestConnected, Asking
  <2>2. /\ stage' = s /\ restStatus' = "DOWNLOADING"
        /\ current' \in [Asking -> Nat] /\ current'[s] > 0
    <3>1. [r \in Asking |-> 0] \in [Asking -> Nat]
      OBVIOUS
    <3> QED BY <2>1, <3>1, EnterAsks
  <2>3. TypeOK'
    BY <1>1, <2>2 DEF RestConnected, TypeOK, feedVars, Asking
  <2>4. RestInv'
    BY <1>1, <2>1, <2>2 DEF RestConnected, DownloadAsked, ReadyIsLoaded,
       LoadedInOrder, feedVars, Asking
  <2>5. FeedInv'
    BY <1>1, FeedUnchanged DEF RestConnected, feedVars, FeedInv
  <2> QED BY <2>3, <2>4, <2>5 DEF FeedInv
<1>2. CASE RestDisconnected
  <2> budget' \in [FaultKinds -> Nat]
    BY <1>2, SpendKeeps DEF RestDisconnected, FaultKinds
  <2>1. TypeOK'
    BY <1>2 DEF RestDisconnected, TypeOK, feedVars, Asking
  <2>2. RestInv'
    BY <1>2 DEF RestDisconnected, TypeOK, DownloadAsked, ReadyIsLoaded,
       LoadedInOrder, feedVars, Asking
  <2>3. FeedInv'
    BY <1>2, FeedUnchanged DEF RestDisconnected, feedVars, FeedInv
  <2> QED BY <2>1, <2>2, <2>3 DEF FeedInv
<1>3. ASSUME NEW s \in Asking, AckSkipped(s) PROVE Inv'
  <2>1. TypeOK'
    BY <1>3 DEF AckSkipped, Completes, CompletesLate, TypeOK, feedVars, Asking
  <2>2. RestInv'
    BY <1>3 DEF AckSkipped, Completes, CompletesLate, TypeOK, DownloadAsked,
       ReadyIsLoaded, LoadedInOrder, feedVars, Asking
  <2>3. FeedInv'
    BY <1>3, FeedUnchanged DEF AckSkipped, feedVars, FeedInv
  <2> QED BY <2>1, <2>2, <2>3 DEF FeedInv
<1>4. ASSUME NEW s \in Asking, AckError(s) PROVE Inv'
  <2>1. /\ UNCHANGED <<restUp, feedVars, crash>>
        /\ budget' \in [FaultKinds -> Nat]
        /\ stale' \in [Asking -> Nat]
    <3>1. budget' \in [FaultKinds -> Nat]
      <4>1. CASE restUp
        BY <1>4, <4>1, SpendKeeps DEF AckError, FaultKinds
      <4>2. CASE ~restUp
        BY <1>4, <4>2 DEF AckError, TypeOK
      <4> QED BY <4>1, <4>2
    <3>2. stale' \in [Asking -> Nat]
      <4>1. stale \in [Asking -> Nat]
        BY DEF TypeOK
      <4>2. stale' = stale \/ CompletesLate(s)
        BY <1>4 DEF AckError
      <4> QED BY <4>1, <4>2 DEF CompletesLate
    <3> QED BY <1>4, <3>1, <3>2 DEF AckError
  <2>2. CASE stage = s /\ stage' = s /\ restStatus' = "DOWNLOADING"
             /\ current' \in [Asking -> Nat] /\ current'[s] > 0
    <3>1. TypeOK'
      BY <2>1, <2>2 DEF TypeOK, feedVars, Asking
    <3>2. RestInv'
      BY <2>1, <2>2 DEF DownloadAsked, ReadyIsLoaded, LoadedInOrder, feedVars
    <3> QED BY <2>1, <3>1, <3>2, FeedUnchanged DEF feedVars, FeedInv
  <2>3. CASE stage # s /\ UNCHANGED <<stage, restStatus>>
             /\ current' \in [Asking -> Nat]
             /\ \A r \in Asking : r # s => current'[r] = current[r]
    <3>1. TypeOK'
      BY <2>1, <2>3 DEF TypeOK, feedVars, Asking
    <3>2. RestInv'
      BY <2>1, <2>3 DEF DownloadAsked, ReadyIsLoaded, LoadedInOrder, feedVars, TypeOK
    <3> QED BY <2>1, <3>1, <3>2, FeedUnchanged DEF feedVars, FeedInv
  <2>4. CASE stage = s /\ \E calls \in [Asking -> Nat] : Enter(s, calls)
    BY <2>2, <2>4, EnterAsks
  <2>5. (stage = s /\ \E calls \in [Asking -> Nat] : Enter(s, calls))
        \/ (stage # s /\ UNCHANGED <<stage, restStatus>>
             /\ current' \in [Asking -> Nat]
             /\ \A r \in Asking : r # s => current'[r] = current[r])
    <3>1. current \in [Asking -> Nat]
      BY DEF TypeOK
    <3>2. current[s] > 0 => [current EXCEPT ![s] = @ - 1] \in [Asking -> Nat]
      BY <3>1
    <3> QED BY <1>4, <3>1, <3>2 DEF AckError, Completes
  <2> QED BY <2>3, <2>4, <2>5
<1>5. CASE PublicTokenAck
  <2>1. [current EXCEPT !["PUBLIC_TOKEN"] = @ - 1] \in [Asking -> Nat]
    BY <1>5 DEF PublicTokenAck, Processed, TypeOK, Asking
  <2>2. /\ stage' = "CONTRACTS" /\ restStatus' = "DOWNLOADING"
        /\ current' \in [Asking -> Nat] /\ current'["CONTRACTS"] > 0
    <3>1. "CONTRACTS" \in Asking
      BY DEF Asking
    <3> QED BY <1>5, <2>1, <3>1, EnterAsks DEF PublicTokenAck
  <2>3. TypeOK'
    BY <1>5, <2>2 DEF PublicTokenAck, TypeOK, Asking
  <2>4. RestInv'
    BY <1>5, <2>2 DEF PublicTokenAck, DownloadAsked, ReadyIsLoaded, LoadedInOrder
  <2>5. FeedInv'
    BY <1>5, FeedUnchanged DEF PublicTokenAck, FeedInv
  <2> QED BY <2>3, <2>4, <2>5 DEF FeedInv
<1>6. CASE PublicTokenRefused \/ Redirected
  <2> budget' \in [FaultKinds -> Nat]
    BY <1>6, SpendKeeps DEF PublicTokenRefused, Redirected, FaultKinds
  <2>1. TypeOK'
    BY <1>6 DEF PublicTokenRefused, Redirected, TypeOK, restVars, feedVars, Asking
  <2>2. RestInv'
    BY <1>6 DEF PublicTokenRefused, Redirected, DownloadAsked, ReadyIsLoaded,
       LoadedInOrder, restVars, feedVars
  <2>3. FeedInv'
    BY <1>6, FeedUnchanged DEF PublicTokenRefused, Redirected, feedVars, FeedInv
  <2> QED BY <2>1, <2>2, <2>3 DEF FeedInv
<1> QED BY <1>1, <1>2, <1>3, <1>4, <1>5, <1>6

----------------------------------------------------------------------------
(* Symbols. *)

\* New symbols: each slice keeps what it held, and grows by its part of them.
LEMMA SliceGrows ==
  ASSUME NEW s \in Seq(Symbols), NEW new \in Seq(Symbols), NEW i \in Index
  PROVE  /\ Slice(i, Len(s), s \o new) \in Seq(Symbols)
         /\ Elems(Slice(i, 0, s \o new)) =
              Elems(Slice(i, 0, s)) \cup Elems(Slice(i, Len(s), s \o new))
<1>1. /\ s \o new \in Seq(Symbols) /\ Len(s \o new) = Len(s) + Len(new)
      /\ \A k \in 1..Len(s) : (s \o new)[k] = s[k]
  BY ConcatProperties
<1>2. PICK all \in Seq(Symbols) : all = s \o new
  BY <1>1
<1>3. Len(s) \in 0..Len(all) /\ 0 \in 0..Len(all) /\ 0 \in 0..Len(s)
      /\ Len(s) \in Nat /\ Len(all) \in Nat /\ Len(s) <= Len(all)
      /\ \A k \in 1..Len(s) : all[k] = s[k]
  BY <1>1, <1>2
<1>4. Elems(Slice(i, 0, all)) =
        {all[k] : k \in {j \in 1..Len(all) : 0 < j /\ Belongs(j, i)}}
  BY <1>3, SliceElems
<1>5. /\ Slice(i, Len(s), all) \in Seq(Symbols)
      /\ Elems(Slice(i, Len(s), all)) =
           {all[k] : k \in {j \in 1..Len(all) : Len(s) < j /\ Belongs(j, i)}}
  BY <1>3, SliceElems
<1>6. Elems(Slice(i, 0, s)) =
        {s[k] : k \in {j \in 1..Len(s) : 0 < j /\ Belongs(j, i)}}
  BY <1>3, SliceElems
<1>7. Elems(Slice(i, 0, s)) =
        {all[k] : k \in {j \in 1..Len(s) : 0 < j /\ Belongs(j, i)}}
  BY <1>3, <1>6
<1>8. {j \in 1..Len(all) : 0 < j /\ Belongs(j, i)} =
        {j \in 1..Len(s) : 0 < j /\ Belongs(j, i)} \cup
        {j \in 1..Len(all) : Len(s) < j /\ Belongs(j, i)}
  BY <1>3
<1> QED BY <1>2, <1>4, <1>5, <1>7, <1>8

LEMMA UpdateKeepsFeed ==
  ASSUME TypeOK, FeedInv,
         NEW new \in Lists(Symbols), Elems(new) \subseteq Unknown,
         SymbolsUpdate(new)
  PROVE  /\ FeedInv'
         /\ symbols' \in Seq(Symbols) /\ queue' \in [Index -> Seq(Symbols)]
         /\ session' \in [Index -> {"absent", "down", "open", "welcome"}]
         /\ wire' \in [Index -> {"none", "valid", "expired"}]
         /\ \A i \in Index : session'[i] # "absent" =>
              \/ session[i] # "absent" /\ wire'[i] = wire[i]
              \/ wire'[i] = token
<1>1. /\ new \in Seq(Symbols) /\ symbols \in Seq(Symbols)
      /\ \A j, k \in 1..Len(new) : new[j] = new[k] => j = k
  BY ListsAreSeqs DEF TypeOK
<1>2. /\ symbols' = symbols \o new /\ symbols' \in Seq(Symbols)
      /\ Len(symbols') = Len(symbols) + Len(new)
      /\ \A k \in 1..Len(symbols) : symbols'[k] = symbols[k]
      /\ \A k \in 1..Len(new) : symbols'[k + Len(symbols)] = new[k]
  BY <1>1, ConcatProperties DEF SymbolsUpdate
<1>3. ASSUME NEW i \in Index
      PROVE  /\ session'[i] = IF session[i] = "absent"
                                /\ (i - 1) * PerStream < Len(symbols')
                              THEN "down" ELSE session[i]
             /\ wire'[i] = IF session[i] = "absent"
                             /\ (i - 1) * PerStream < Len(symbols')
                           THEN token ELSE wire[i]
             /\ queue'[i] = IF session[i] = "welcome"
                            THEN queue[i] \o Slice(i, Len(symbols), symbols')
                            ELSE queue[i]
             /\ subs'[i] = subs[i]
  BY <1>2 DEF SymbolsUpdate, Created, Subscribed
<1>4. session' \in [Index -> {"absent", "down", "open", "welcome"}]
  BY DEF SymbolsUpdate, TypeOK
<1>5. wire' \in [Index -> {"none", "valid", "expired"}]
  BY DEF SymbolsUpdate, TypeOK
<1>6. ASSUME NEW i \in Index
      PROVE  /\ Slice(i, Len(symbols), symbols') \in Seq(Symbols)
             /\ Elems(Slice(i, 0, symbols')) = Elems(Slice(i, 0, symbols))
                   \cup Elems(Slice(i, Len(symbols), symbols'))
  BY <1>1, <1>2, SliceGrows
<1>7. ASSUME NEW i \in Index
      PROVE  /\ queue'[i] \in Seq(Symbols)
             /\ Elems(queue'[i]) = Elems(queue[i]) \cup
                  (IF session[i] = "welcome"
                   THEN Elems(Slice(i, Len(symbols), symbols')) ELSE {})
  <2>1. queue[i] \in Seq(Symbols)
    BY DEF TypeOK
  <2> QED BY <1>3, <1>6, <2>1, ElemsConcat
<1>8. queue' \in [Index -> Seq(Symbols)]
  BY <1>7 DEF SymbolsUpdate
<1>9. EverySymbolServed'
  <2>1. ASSUME NEW j \in 1..Len(symbols'), NEW k \in 1..Len(symbols'),
               symbols'[j] = symbols'[k]
        PROVE  j = k
    <3>1. \A m \in 1..Len(symbols') :
            \/ m \in 1..Len(symbols) /\ symbols'[m] = symbols[m]
            \/ /\ m - Len(symbols) \in 1..Len(new) /\ m > Len(symbols)
               /\ symbols'[m] = new[m - Len(symbols)]
      <4> TAKE m \in 1..Len(symbols')
      <4>1. CASE m <= Len(symbols)
        BY <1>1, <1>2, <4>1
      <4>2. CASE m > Len(symbols)
        <5>1. m - Len(symbols) \in 1..Len(new)
              /\ (m - Len(symbols)) + Len(symbols) = m
          BY <1>1, <1>2, <4>2
        <5> QED BY <1>2, <4>2, <5>1
      <4> QED BY <4>1, <4>2, <1>1
    <3>2. \A m \in 1..Len(symbols), n \in 1..Len(new) : symbols[m] # new[n]
      BY <1>1 DEF Unknown, Elems
    <3>3. \A m, n \in 1..Len(symbols) : symbols[m] = symbols[n] => m = n
      BY DEF FeedInv, EverySymbolServed
    <3>4. Len(symbols) \in Nat
      BY <1>1
    <3> QED BY <1>1, <2>1, <3>1, <3>2, <3>3, <3>4
  <2>2. ASSUME NEW i \in Index, (i - 1) * PerStream < Len(symbols')
        PROVE  session'[i] # "absent"
    BY <1>3, <2>2
  <2> QED BY <2>1, <2>2 DEF EverySymbolServed
<1>10. NoSymbolForgotten'
  <2> SUFFICES ASSUME NEW i \in Index, session'[i] = "welcome"
               PROVE  Elems(Slice(i, 0, symbols'))
                        \subseteq subs'[i] \cup Elems(queue'[i])
    BY DEF NoSymbolForgotten
  <2>1. session[i] = "welcome"
    BY <1>3
  <2> QED BY <1>3, <1>6, <1>7, <2>1 DEF FeedInv, NoSymbolForgotten
<1>11. NoForeignSymbol'
  <2> SUFFICES ASSUME NEW i \in Index
               PROVE  subs'[i] \cup Elems(queue'[i])
                        \subseteq Elems(Slice(i, 0, symbols'))
    BY DEF NoForeignSymbol
  <2> QED BY <1>3, <1>6, <1>7 DEF FeedInv, NoForeignSymbol
<1> QED BY <1>2, <1>3, <1>4, <1>5, <1>8, <1>9, <1>10, <1>11 DEF FeedInv

LEMMA SymbolsKeepInv ==
  ASSUME Inv, NEW new \in Lists(Symbols), ContractsAck(new) \/ Subscribe(new)
  PROVE  Inv'
<1> USE DEF Inv
<1>1. FeedInv
  BY DEF FeedInv
<1>2. CASE ContractsAck(new)
  <2>1. /\ restUp /\ restUp' /\ stage' = "DONE" /\ restStatus' = "READY"
        /\ current' \in [Asking -> Nat] /\ stale' \in [Asking -> Nat]
        /\ token # "none" /\ token' = token /\ UNCHANGED <<crash, budget, subs>>
    BY <1>2 DEF ContractsAck, Processed, Enter, TypeOK, Asking, LoadedInOrder,
       SymbolsUpdate, feedVars
  <2>2. DownloadAsked' /\ ReadyIsLoaded' /\ LoadedInOrder'
    BY <2>1 DEF DownloadAsked, ReadyIsLoaded, LoadedInOrder, Asking
  <2>3. CASE UNCHANGED feedVars
    <3>1. TypeOK'
      BY <2>1, <2>3 DEF TypeOK, feedVars, Asking
    <3>2. FeedInv'
      BY <1>1, <2>3, FeedUnchanged DEF feedVars
    <3> QED BY <2>2, <3>1, <3>2 DEF FeedInv
  <2>4. CASE SymbolsUpdate(new)
    <3>1. Elems(new) \subseteq Unknown
      BY <1>2 DEF ContractsAck
    <3>2. /\ FeedInv'
          /\ symbols' \in Seq(Symbols) /\ queue' \in [Index -> Seq(Symbols)]
          /\ session' \in [Index -> {"absent", "down", "open", "welcome"}]
          /\ wire' \in [Index -> {"none", "valid", "expired"}]
          /\ \A i \in Index : session'[i] # "absent" =>
               \/ session[i] # "absent" /\ wire'[i] = wire[i]
               \/ wire'[i] = token
      BY <1>1, <2>4, <3>1, UpdateKeepsFeed
    <3>3. TypeOK'
      BY <2>1, <3>2 DEF TypeOK, Asking
    <3> QED BY <2>2, <3>2, <3>3 DEF FeedInv
  <2> QED BY <1>2, <2>3, <2>4 DEF ContractsAck
<1>3. CASE Subscribe(new)
  <2>1. /\ UNCHANGED <<restVars, budget>>
        /\ Elems(new) \subseteq Unknown
    BY <1>3 DEF Subscribe
  <2>2. CASE SymbolsUpdate(new) /\ UNCHANGED crash
    <3>1. /\ FeedInv'
          /\ symbols' \in Seq(Symbols) /\ queue' \in [Index -> Seq(Symbols)]
          /\ session' \in [Index -> {"absent", "down", "open", "welcome"}]
          /\ wire' \in [Index -> {"none", "valid", "expired"}]
          /\ \A i \in Index : session'[i] # "absent" =>
               \/ session[i] # "absent" /\ wire'[i] = wire[i]
               \/ wire'[i] = token
      BY <1>1, <2>1, <2>2, UpdateKeepsFeed
    <3>2. UNCHANGED <<token, subs>>
      BY <2>2 DEF SymbolsUpdate
    <3>3. TypeOK'
      BY <2>1, <2>2, <3>1, <3>2 DEF TypeOK, restVars
    <3>4. DownloadAsked' /\ ReadyIsLoaded' /\ LoadedInOrder'
      BY <2>1, <3>2 DEF DownloadAsked, ReadyIsLoaded, LoadedInOrder, restVars
    <3> QED BY <3>1, <3>3, <3>4 DEF FeedInv
  <2>3. CASE token = "none" /\ crash' = "ping_frequency" /\ UNCHANGED feedVars
    <3>1. TypeOK'
      BY <2>1, <2>3 DEF TypeOK, restVars, feedVars
    <3>2. DownloadAsked' /\ ReadyIsLoaded' /\ LoadedInOrder'
      BY <2>1, <2>3 DEF DownloadAsked, ReadyIsLoaded, LoadedInOrder, restVars,
         feedVars
    <3>3. FeedInv'
      BY <1>1, <2>3, FeedUnchanged DEF feedVars
    <3> QED BY <2>1, <2>3, <3>1, <3>2, <3>3 DEF FeedInv
  <2> QED BY <1>3, <2>2, <2>3 DEF Subscribe
<1> QED BY <1>2, <1>3

----------------------------------------------------------------------------
(* Streams. *)

LEMMA StreamsKeepInv ==
  ASSUME Inv, NEW i \in Index,
         StreamConnected(i) \/ Welcome(i) \/ StreamDisconnected(i)
  PROVE  Inv'
<1> USE DEF Inv
<1>1. /\ UNCHANGED <<restVars, token, symbols, wire, crash>>
      /\ budget' \in [FaultKinds -> Nat]
      /\ session[i] # "absent"
      /\ \A j \in Index \ {i} :
           session'[j] = session[j] /\ queue'[j] = queue[j] /\ subs'[j] = subs[j]
  <2>1. budget' \in [FaultKinds -> Nat]
    <3>1. budget' = budget \/ Spend("stream")
      BY DEF StreamConnected, Welcome, StreamDisconnected
    <3> QED BY <3>1, SpendKeeps DEF TypeOK, FaultKinds
  <2> QED BY <2>1 DEF StreamConnected, Welcome, StreamDisconnected, TypeOK
<1>2. Slice(i, 0, symbols) \in Seq(Symbols) /\ queue[i] \in Seq(Symbols)
  <2>1. symbols \in Seq(Symbols) /\ 0 \in 0..Len(symbols)
    BY DEF TypeOK
  <2> QED BY <2>1, SliceElems DEF TypeOK
<1>3. \/ queue' = queue
      \/ /\ queue' = [queue EXCEPT ![i] = @ \o Slice(i, 0, symbols)]
         /\ Elems(queue'[i]) = Elems(queue[i]) \cup Elems(Slice(i, 0, symbols))
         /\ queue'[i] \in Seq(Symbols)
         /\ subs' = subs
  <2>1. CASE Welcome(i)
    <3>1. /\ queue' = [queue EXCEPT ![i] = @ \o Slice(i, 0, symbols)]
          /\ subs' = subs
      BY <2>1 DEF Welcome
    <3>2. queue'[i] = queue[i] \o Slice(i, 0, symbols)
      BY <3>1 DEF TypeOK
    <3> QED BY <1>2, <3>1, <3>2, ElemsConcat
  <2>2. CASE StreamConnected(i) \/ StreamDisconnected(i)
    BY <2>2 DEF StreamConnected, StreamDisconnected
  <2> QED BY <2>1, <2>2
<1>4. /\ session' \in [Index -> {"absent", "down", "open", "welcome"}]
      /\ session'[i] \in {"down", "open", "welcome"}
      /\ session'[i] = "welcome" =>
           queue' = [queue EXCEPT ![i] = @ \o Slice(i, 0, symbols)]
      /\ subs' \in [Index -> SUBSET Symbols]
      /\ subs'[i] \subseteq subs[i]
  BY DEF StreamConnected, Welcome, StreamDisconnected, TypeOK
<1>5. TypeOK'
  <2>1. queue' \in [Index -> Seq(Symbols)]
    BY <1>2, <1>3 DEF TypeOK
  <2> QED BY <1>1, <1>4, <2>1 DEF TypeOK, restVars
<1>6. DownloadAsked' /\ ReadyIsLoaded' /\ LoadedInOrder'
  BY <1>1 DEF DownloadAsked, ReadyIsLoaded, LoadedInOrder, restVars
<1>7. EverySymbolServed'
  <2>1. \A j \in Index : session[j] # "absent" => session'[j] # "absent"
    BY <1>1, <1>4
  <2> QED BY <1>1, <2>1 DEF EverySymbolServed
<1>8. NoForeignSymbol'
  <2> SUFFICES ASSUME NEW j \in Index
               PROVE  subs'[j] \cup Elems(queue'[j])
                        \subseteq Elems(Slice(j, 0, symbols))
    BY <1>1 DEF NoForeignSymbol
  <2>1. CASE j # i
    BY <1>1, <2>1 DEF NoForeignSymbol
  <2>2. CASE j = i
    BY <1>3, <1>4, <2>2 DEF NoForeignSymbol
  <2> QED BY <2>1, <2>2
<1>9. NoSymbolForgotten'
  <2> SUFFICES ASSUME NEW j \in Index, session'[j] = "welcome"
               PROVE  Elems(Slice(j, 0, symbols))
                        \subseteq subs'[j] \cup Elems(queue'[j])
    BY <1>1 DEF NoSymbolForgotten
  <2>1. CASE j # i
    BY <1>1, <2>1 DEF NoSymbolForgotten
  <2>2. CASE j = i
    <3>1. queue'[i] = queue[i] \o Slice(i, 0, symbols)
      BY <1>4, <2>2 DEF TypeOK
    <3>2. Elems(queue'[i]) = Elems(queue[i]) \cup Elems(Slice(i, 0, symbols))
      BY <1>2, <3>1, ElemsConcat
    <3> QED BY <2>2, <3>2
  <2> QED BY <2>1, <2>2
<1> QED BY <1>5, <1>6, <1>7, <1>8, <1>9

LEMMA TimerKeepsInv ==
  ASSUME Inv, NEW j \in Index, NEW k \in 1..Len(queue[j]), Timer(j, k)
  PROVE  Inv'
<1> USE DEF Inv
<1>1. UNCHANGED <<restVars, token, symbols, session, wire, crash, budget>>
  BY DEF Timer
<1>2. ASSUME NEW i \in Index
      PROVE  /\ queue'[i] \in Seq(Symbols)
             /\ subs'[i] \in SUBSET Symbols
             /\ subs'[i] \cup Elems(queue'[i]) = subs[i] \cup Elems(queue[i])
  <2>1. queue[i] \in Seq(Symbols) /\ subs[i] \in SUBSET Symbols
    BY DEF TypeOK
  <2>2. SentBy(i, j, k) \in 0..Len(queue[i])
    BY <2>1 DEF SentBy
  <2>3. PICK n \in 0..Len(queue[i]) : n = SentBy(i, j, k)
    BY <2>2
  <2>4. /\ queue'[i] = SubSeq(queue[i], n + 1, Len(queue[i]))
        /\ subs'[i] = subs[i] \cup Elems(SubSeq(queue[i], 1, n))
    BY <2>3 DEF Timer
  <2>5. /\ SubSeq(queue[i], n + 1, Len(queue[i])) \in Seq(Symbols)
        /\ Elems(SubSeq(queue[i], 1, n))
             \cup Elems(SubSeq(queue[i], n + 1, Len(queue[i]))) = Elems(queue[i])
    BY <2>1, ElemsCut
  <2>6. Elems(queue[i]) \subseteq Symbols
    BY <2>1 DEF Elems
  <2> QED BY <2>1, <2>4, <2>5, <2>6
<1>3. TypeOK'
  <2>1. queue' \in [Index -> Seq(Symbols)] /\ subs' \in [Index -> SUBSET Symbols]
    BY <1>2 DEF Timer
  <2> QED BY <1>1, <2>1 DEF TypeOK, restVars
<1>4. DownloadAsked' /\ ReadyIsLoaded' /\ LoadedInOrder'
  BY <1>1 DEF DownloadAsked, ReadyIsLoaded, LoadedInOrder, restVars
<1>5. EverySymbolServed'
  BY <1>1 DEF EverySymbolServed
<1>6. NoSymbolForgotten'
  BY <1>1, <1>2 DEF NoSymbolForgotten
<1>7. NoForeignSymbol'
  BY <1>1, <1>2 DEF NoForeignSymbol
<1> QED BY <1>3, <1>4, <1>5, <1>6, <1>7

LEMMA ExpiryKeepsInv ==
  ASSUME Inv, TokenExpires
  PROVE  Inv'
<1> USE DEF Inv
<1>1. /\ UNCHANGED <<restVars, symbols, session, queue, subs, crash>>
      /\ budget' \in [FaultKinds -> Nat] /\ token' = "expired"
      /\ wire' = [i \in Index |-> Expires(wire[i])]
  BY SpendKeeps DEF TokenExpires, FaultKinds, Expires
<1>2. /\ wire' \in [Index -> {"none", "valid", "expired"}]
      /\ \A i \in Index : wire[i] # "none" => wire'[i] # "none"
  BY <1>1 DEF Expires, TypeOK
<1>3. TypeOK'
  BY <1>1, <1>2 DEF TypeOK, restVars
<1>4. DownloadAsked' /\ ReadyIsLoaded' /\ LoadedInOrder'
  BY <1>1 DEF DownloadAsked, ReadyIsLoaded, LoadedInOrder, restVars
<1>5. FeedInv'
  BY <1>1, FeedUnchanged DEF FeedInv
<1> QED BY <1>3, <1>4, <1>5 DEF FeedInv

----------------------------------------------------------------------------
(* Theorems. *)

LEMMA NextInv == Inv /\ [Next]_vars => Inv'
<1> SUFFICES ASSUME Inv, [Next]_vars PROVE Inv'
  OBVIOUS
<1>1. CASE \/ RestConnected \/ RestDisconnected
           \/ \E s \in Asking : AckSkipped(s) \/ AckError(s)
           \/ PublicTokenAck \/ PublicTokenRefused \/ Redirected
  BY <1>1, RestKeepsInv
<1>2. ASSUME NEW new \in Lists(Symbols), ContractsAck(new) \/ Subscribe(new)
      PROVE  Inv'
  BY <1>2, SymbolsKeepInv
<1>3. ASSUME NEW i \in Index,
             StreamConnected(i) \/ Welcome(i) \/ StreamDisconnected(i)
      PROVE  Inv'
  BY <1>3, StreamsKeepInv
<1>4. ASSUME NEW j \in Index, NEW k \in 1..Len(queue[j]), Timer(j, k)
      PROVE  Inv'
  BY <1>4, TimerKeepsInv
<1>5. CASE TokenExpires
  BY <1>5, ExpiryKeepsInv
<1>6. CASE UNCHANGED vars
  <2>1. TypeOK'
    BY <1>6 DEF Inv, TypeOK, vars, restVars, feedVars
  <2>2. DownloadAsked' /\ ReadyIsLoaded' /\ LoadedInOrder'
    BY <1>6 DEF Inv, DownloadAsked, ReadyIsLoaded, LoadedInOrder, vars, restVars,
       feedVars
  <2>3. FeedInv'
    BY <1>6, FeedUnchanged DEF Inv, FeedInv, vars, feedVars
  <2> QED BY <2>1, <2>2, <2>3 DEF Inv, FeedInv
<1> QED BY <1>1, <1>2, <1>3, <1>4, <1>5, <1>6 DEF Next, Ticks

\* The inductive invariant holds in every reachable state of Rest, Controller
\* and the MarketData streams.
THEOREM Invariance == Spec => []Inv
  BY InitInv, NextInv, PTL DEF Spec

\* Every reachable state is well typed; a connected Rest downloads or is done.
THEOREM TypeCorrect == Spec => []TypeOK
<1>1. Inv => TypeOK
  BY DEF Inv
<1> QED BY <1>1, Invariance, PTL

\* Rest never waits for an answer that nobody will give, however the sequence
\* of download_ was bumped and the errors of lost calls came.
THEOREM DownloadNeverStuck == Spec => []DownloadAsked
<1>1. Inv => DownloadAsked
  BY DEF Inv
<1> QED BY <1>1, Invariance, PTL

\* Rest publishes READY on a live connection with the token downloaded.
THEOREM ReadyCorrect == Spec => []ReadyIsLoaded
<1>1. Inv => ReadyIsLoaded
  BY DEF Inv
<1> QED BY <1>1, Invariance, PTL

\* shared_.symbols holds a symbol once, and ensure_symbol_slices has created the
\* stream of its slice.
THEOREM SymbolsServed == Spec => []EverySymbolServed
<1>1. Inv => EverySymbolServed
  BY DEF Inv
<1> QED BY <1>1, Invariance, PTL

\* subscribe() and check_subscribe_queue together cover the slice of a session,
\* whenever the symbols came and whatever was left in the queue.
THEOREM SymbolsCovered == Spec => []NoSymbolForgotten
<1>1. Inv => NoSymbolForgotten
  BY DEF Inv
<1> QED BY <1>1, Invariance, PTL

\* No stream subscribes a symbol of another stream's slice.
THEOREM SlicesRespected == Spec => []NoForeignSymbol
<1>1. Inv => NoForeignSymbol
  BY DEF Inv
<1> QED BY <1>1, Invariance, PTL

----------------------------------------------------------------------------
(* An expired token is not replaced while Rest keeps its connection. *)

\* A stream that was not created has no query.
AbsentBlank == \A i \in Index : session[i] = "absent" => wire[i] = "none"

\* What a step may do to expired tokens: a ready Rest that keeps its connection asks
\* for no other, and a stream is stuck with its own, which opens no session.
ExpiryStands ==
  /\ restStatus = "READY" /\ token = "expired" /\ restUp' =>
       restStatus' = "READY" /\ token' = "expired"
  /\ \A i \in Index : wire[i] = "expired" =>
       /\ wire'[i] = "expired"
       /\ session[i] # "welcome" => session'[i] # "welcome"

\* Streams are created, and nothing else is done to their queries and sessions.
LEMMA UpdateStands ==
  ASSUME TypeOK, AbsentBlank, NEW new, SymbolsUpdate(new)
  PROVE  /\ AbsentBlank' /\ token' = token
         /\ \A i \in Index : wire[i] = "expired" =>
              /\ wire'[i] = "expired"
              /\ session[i] # "welcome" => session'[i] # "welcome"
<1>1. PICK s : /\ session' = [i \in Index |-> IF Created(i, s) THEN "down" ELSE session[i]]
               /\ wire' = [i \in Index |-> IF Created(i, s) THEN token ELSE wire[i]]
  BY DEF SymbolsUpdate
<1>2. \A i \in Index : Created(i, s) => session[i] = "absent"
  BY DEF Created
<1>3. token' = token
  BY DEF SymbolsUpdate
<1> QED BY <1>1, <1>2, <1>3 DEF AbsentBlank

LEMMA FeedStands ==
  ASSUME AbsentBlank, UNCHANGED <<token, session, wire>>
  PROVE  /\ AbsentBlank'
         /\ \A i \in Index : wire[i] = "expired" =>
              /\ wire'[i] = "expired"
              /\ session[i] # "welcome" => session'[i] # "welcome"
  BY DEF AbsentBlank

LEMMA StandsNext ==
  ASSUME Inv, AbsentBlank, [Next]_vars
  PROVE  AbsentBlank' /\ ExpiryStands
<1> USE DEF Inv, TypeOK
<1>1. restStatus = "READY" => restUp /\ stage = "DONE" /\ "DONE" \notin Asking
  BY DEF ReadyIsLoaded, Asking
<1>2. CASE RestConnected \/ RestDisconnected \/ PublicTokenRefused \/ Redirected
           \/ (\E s \in Asking : AckSkipped(s) \/ AckError(s))
  <2>1. UNCHANGED <<token, session, wire>>
    BY <1>2 DEF RestConnected, RestDisconnected, PublicTokenRefused, Redirected,
                AckSkipped, AckError, feedVars
  <2>2. restStatus = "READY" /\ restUp' => restStatus' = "READY"
    BY <1>1, <1>2 DEF RestConnected, RestDisconnected, PublicTokenRefused, Redirected,
                      AckSkipped, AckError, restVars
  <2> QED BY <2>1, <2>2, FeedStands DEF ExpiryStands
<1>3. CASE PublicTokenAck
  <2>1. UNCHANGED <<session, wire>> /\ stage = "PUBLIC_TOKEN"
    BY <1>3 DEF PublicTokenAck, Processed
  <2> QED BY <1>1, <2>1 DEF AbsentBlank, ExpiryStands
<1>4. ASSUME NEW new \in Lists(Symbols), ContractsAck(new)
      PROVE  AbsentBlank' /\ ExpiryStands
  <2>1. stage = "CONTRACTS" /\ (SymbolsUpdate(new) \/ UNCHANGED <<token, session, wire>>)
    BY <1>4 DEF ContractsAck, Processed, feedVars
  <2> QED BY <1>1, <2>1, UpdateStands, FeedStands DEF ExpiryStands
<1>5. ASSUME NEW new \in Lists(Symbols), Subscribe(new)
      PROVE  AbsentBlank' /\ ExpiryStands
  <2>1. /\ SymbolsUpdate(new) \/ UNCHANGED <<token, session, wire>>
        /\ restStatus' = restStatus
    BY <1>5 DEF Subscribe, feedVars, restVars
  <2>2. token' = token
    BY <2>1, UpdateStands
  <2> QED BY <2>1, <2>2, UpdateStands, FeedStands DEF ExpiryStands
<1>6. ASSUME NEW i \in Index, StreamConnected(i) \/ Welcome(i) \/ StreamDisconnected(i)
      PROVE  AbsentBlank' /\ ExpiryStands
  <2>1. /\ UNCHANGED <<restStatus, token, wire>> /\ session[i] # "absent"
        /\ \/ session' = [session EXCEPT ![i] = "open"]
           \/ session' = [session EXCEPT ![i] = "down"]
           \/ session' = [session EXCEPT ![i] = "welcome"] /\ wire[i] = "valid"
    BY <1>6 DEF StreamConnected, Welcome, StreamDisconnected, restVars
  <2> QED BY <2>1 DEF AbsentBlank, ExpiryStands
<1>7. CASE Ticks \/ UNCHANGED vars
  <2>1. UNCHANGED <<restStatus, token, session, wire>>
    BY <1>7 DEF Ticks, Timer, vars, restVars, feedVars
  <2> QED BY <2>1, FeedStands DEF ExpiryStands
<1>8. CASE TokenExpires
  <2>1. /\ UNCHANGED <<restStatus, session>> /\ token # "expired"
        /\ wire' = [i \in Index |-> Expires(wire[i])]
    BY <1>8 DEF TokenExpires, restVars
  <2>2. \A i \in Index : /\ wire[i] = "expired" => wire'[i] = "expired"
                         /\ wire[i] = "none" => wire'[i] = "none"
    BY <2>1 DEF Expires
  <2> QED BY <2>1, <2>2 DEF AbsentBlank, ExpiryStands
<1> QED BY <1>2, <1>3, <1>4, <1>5, <1>6, <1>7, <1>8 DEF Next

\* Nothing replaces an expired public token as long as Rest keeps its connection,
\* and a stream that was created with one never has a session again.
THEOREM ExpiryForGood == Spec => [][ExpiryStands]_vars
<1>1. Init => AbsentBlank
  BY DEF Init, AbsentBlank
<1>2. Inv /\ AbsentBlank /\ [Next]_vars => AbsentBlank'
  BY StandsNext
<1>3. Inv /\ AbsentBlank /\ [Next]_vars => [ExpiryStands]_vars
  BY StandsNext
<1> QED BY <1>1, <1>2, <1>3, Invariance, PTL DEF Spec

----------------------------------------------------------------------------
(* A stream that was created without a token. *)

Tokenless(i) == session[i] # "absent" /\ wire[i] = "none"

TokenlessShut == \A i \in Index : Tokenless(i) => session[i] # "welcome"

\* What a step may do to such a stream: it stays without a token, and is created by
\* a client's Subscribe that Controller handles before it knows the public token.
TokenlessMoves ==
  \A i \in Index :
    /\ Tokenless(i) => Tokenless(i)'
    /\ Tokenless(i)' =>
         \/ Tokenless(i)
         \/ token = "none" /\ \E new \in Lists(Symbols) : Subscribe(new)

\* Streams are created with the token that Controller has.
LEMMA UpdateTokenless ==
  ASSUME TypeOK, TokenlessShut, NEW new, SymbolsUpdate(new)
  PROVE  /\ TokenlessShut'
         /\ \A i \in Index : Tokenless(i) => Tokenless(i)'
         /\ \A i \in Index : Tokenless(i)' => Tokenless(i) \/ token = "none"
<1>1. PICK s : /\ session' = [i \in Index |-> IF Created(i, s) THEN "down" ELSE session[i]]
               /\ wire' = [i \in Index |-> IF Created(i, s) THEN token ELSE wire[i]]
  BY DEF SymbolsUpdate
<1>2. \A i \in Index : Created(i, s) => session[i] = "absent"
  BY DEF Created
<1> QED BY <1>1, <1>2 DEF Tokenless, TokenlessShut

LEMMA TokenlessStep ==
  ASSUME Inv, TokenlessShut, [Next]_vars
  PROVE  TokenlessShut' /\ TokenlessMoves
<1> USE DEF Inv, TypeOK
<1>1. ASSUME UNCHANGED <<session, wire>>
      PROVE  TokenlessShut' /\ TokenlessMoves
  BY <1>1 DEF TokenlessShut, TokenlessMoves, Tokenless
<1>2. CASE \/ RestConnected \/ RestDisconnected \/ PublicTokenRefused \/ Redirected
           \/ PublicTokenAck \/ Ticks \/ UNCHANGED vars
           \/ \E s \in Asking : AckSkipped(s) \/ AckError(s)
  BY <1>1, <1>2 DEF RestConnected, RestDisconnected, PublicTokenRefused, Redirected,
     PublicTokenAck, Ticks, Timer, AckSkipped, AckError, vars, feedVars
<1>3. ASSUME NEW new \in Lists(Symbols), ContractsAck(new)
      PROVE  TokenlessShut' /\ TokenlessMoves
  <2>1. token # "none"
    BY <1>3 DEF ContractsAck, Processed, LoadedInOrder
  <2>2. SymbolsUpdate(new) \/ UNCHANGED <<session, wire>>
    BY <1>3 DEF ContractsAck, feedVars
  <2> QED BY <1>1, <2>1, <2>2, UpdateTokenless DEF TokenlessMoves
<1>4. ASSUME NEW new \in Lists(Symbols), Subscribe(new)
      PROVE  TokenlessShut' /\ TokenlessMoves
  <2>1. SymbolsUpdate(new) \/ UNCHANGED <<session, wire>>
    BY <1>4 DEF Subscribe, feedVars
  <2> QED BY <1>1, <1>4, <2>1, UpdateTokenless DEF TokenlessMoves
<1>5. ASSUME NEW i \in Index, StreamConnected(i) \/ Welcome(i) \/ StreamDisconnected(i)
      PROVE  TokenlessShut' /\ TokenlessMoves
  <2>1. /\ wire' = wire /\ session[i] # "absent"
        /\ \/ session' = [session EXCEPT ![i] = "open"]
           \/ session' = [session EXCEPT ![i] = "down"]
           \/ session' = [session EXCEPT ![i] = "welcome"] /\ wire[i] = "valid"
    BY <1>5 DEF StreamConnected, Welcome, StreamDisconnected
  <2> QED BY <2>1 DEF TokenlessShut, TokenlessMoves, Tokenless
<1>6. CASE TokenExpires
  <2>1. session' = session /\ wire' = [i \in Index |-> Expires(wire[i])]
    BY <1>6 DEF TokenExpires
  <2>2. \A i \in Index : wire'[i] = "none" <=> wire[i] = "none"
    BY <2>1 DEF Expires
  <2> QED BY <2>1, <2>2 DEF TokenlessShut, TokenlessMoves, Tokenless
<1> QED BY <1>2, <1>3, <1>4, <1>5, <1>6 DEF Next

\* A stream that a client's Subscribe made Controller create before the public token
\* came is lost: it keeps its empty query, the token that comes later included, and
\* never has a session.  No other stream is without a token.
THEOREM TokenlessForGood == Spec => []TokenlessShut /\ [][TokenlessMoves]_vars
<1>1. Init => TokenlessShut
  BY DEF Init, TokenlessShut, Tokenless
<1>2. Inv /\ TokenlessShut /\ [Next]_vars => TokenlessShut'
  BY TokenlessStep
<1>3. Inv /\ TokenlessShut /\ [Next]_vars => [TokenlessMoves]_vars
  BY TokenlessStep
<1> QED BY <1>1, <1>2, <1>3, Invariance, PTL DEF Spec
=============================================================================
