----------------------------- MODULE StartupProofs -----------------------------
(***************************************************************************)
(* The start of the process is safe for every list of assets, every set of  *)
(* answers of the Gamma API, every length of the window and every bound of *)
(* the attempts.                                                           *)
(***************************************************************************)
EXTENDS Startup, FiniteSetTheorems, WellFoundedInduction, TLAPS

(* A nonempty set of naturals has a first element, the one that First takes. *)
LEMMA FirstIsLeast ==
  ASSUME NEW S \in SUBSET Nat, S # {}
  PROVE  First(S) \in S /\ \A j \in S : First(S) <= j
<1>1. \E k \in S : \A j \in S : ~(<<j, k>> \in OpToRel(<, Nat))
  BY NatLessThanWellFounded, WFMin, Zenon
<1>2. PICK k \in S : \A j \in S : ~(<<j, k>> \in OpToRel(<, Nat))
  BY <1>1
<1>3. ASSUME NEW j \in S PROVE k <= j
  <2>1. <<j, k>> \in Nat \X Nat /\ ~(<<j, k>> \in OpToRel(<, Nat))
    BY <1>2
  <2>2. ~(<<j, k>>[1] < <<j, k>>[2])
    BY <2>1, Zenon DEF OpToRel
  <2> QED
    BY <2>2
<1> QED
  BY <1>3, Zenon DEF First

(* Two texts of an event never move to the same place. *)
LEMMA TextsFinite ==
  ASSUME NEW event, event.outcomes \in Seq(STRING)
  PROVE  /\ Texts(event) \subseteq 1 .. Len(event.outcomes)
         /\ IsFiniteSet(Texts(event))
<1>1. Texts(event) \subseteq 1 .. Len(event.outcomes)
  BY DEF Texts
<1>2. IsFiniteSet(1 .. Len(event.outcomes))
  BY FS_Interval
<1> QED
  BY <1>1, <1>2, FS_Subset

LEMMA PlacesDiffer ==
  ASSUME NEW event, event.outcomes \in Seq(STRING),
         NEW j \in Texts(event), NEW k \in Texts(event), j < k
  PROVE  /\ Place(event, j) \in Nat /\ Place(event, k) \in Nat
         /\ Place(event, j) < Place(event, k)
<1> DEFINE Upto(m) == {i \in Texts(event) : i <= m}
<1>1. /\ Texts(event) \subseteq Nat /\ IsFiniteSet(Texts(event))
      /\ j \in Nat /\ k \in Nat
  BY TextsFinite
<1>2. IsFiniteSet(Upto(k)) /\ IsFiniteSet(Upto(j))
  BY <1>1, FS_Subset
<1>3. Upto(j) \subseteq Upto(k) /\ Upto(k) # Upto(j)
  BY <1>1
<1> HIDE DEF Upto
<1>4. Cardinality(Upto(j)) <= Cardinality(Upto(k)) /\ Cardinality(Upto(j)) # Cardinality(Upto(k))
  BY <1>2, <1>3, FS_Subset
<1>5. Cardinality(Upto(j)) \in Nat /\ Cardinality(Upto(k)) \in Nat
  BY <1>2, FS_CardinalityType
<1>6. Place(event, j) = Cardinality(Upto(j)) /\ Place(event, k) = Cardinality(Upto(k))
  BY DEF Place, Upto
<1> QED
  BY <1>4, <1>5, <1>6

(* Where all outcomes are text, each keeps its place. *)
LEMMA PlaceOfText ==
  ASSUME NEW event, event.outcomes \in Seq(STRING),
         \A i \in DOMAIN event.outcomes : IsText(event.outcomes[i])
  PROVE  /\ Texts(event) = DOMAIN event.outcomes
         /\ \A k \in Texts(event) : Place(event, k) = k
<1>1. Texts(event) = DOMAIN event.outcomes
  BY DEF Texts
<1>2. ASSUME NEW k \in Texts(event) PROVE Place(event, k) = k
  <2>1. k \in 1 .. Len(event.outcomes) /\ Texts(event) = 1 .. Len(event.outcomes)
    BY <1>1
  <2>2. {i \in Texts(event) : i <= k} = 1 .. k
    BY <2>1
  <2>3. Cardinality(1 .. k) = k
    BY <2>1, FS_Interval
  <2> QED
    BY <2>2, <2>3 DEF Place
<1> QED
  BY <1>1, <1>2

(* The first place of a name is that of one of the texts that bear it. *)
LEMMA FirstOfNames ==
  ASSUME NEW event, event.outcomes \in Seq(STRING), NEW names,
         Positions(event, names) # {}
  PROVE  \E k \in Texts(event) :
           /\ event.outcomes[k] \in names
           /\ First(Positions(event, names)) = Place(event, k)
           /\ Place(event, k) \in Nat \ {0}
<1>1. ASSUME NEW k \in Texts(event) PROVE Place(event, k) \in Nat \ {0}
  <2> DEFINE Upto == {i \in Texts(event) : i <= k}
  <2>1. IsFiniteSet(Upto) /\ k \in Upto
    BY TextsFinite, FS_Subset
  <2> HIDE DEF Upto
  <2>2. Cardinality(Upto) \in Nat /\ Cardinality(Upto) # 0
    BY <2>1, FS_CardinalityType, FS_EmptySet
  <2> QED
    BY <2>2 DEF Place, Upto
<1>2. Positions(event, names) \in SUBSET Nat
  BY <1>1 DEF Positions
<1>3. First(Positions(event, names)) \in Positions(event, names)
  BY <1>2, FirstIsLeast
<1>4. PICK k \in {j \in Texts(event) : event.outcomes[j] \in names} :
        First(Positions(event, names)) = Place(event, k)
  BY <1>3, Zenon DEF Positions
<1> QED
  BY <1>1, <1>4
-----------------------------------------------------------------------------
(* The two tokens of an event are different ones and, where the outcomes    *)
(* name all of them, pay for the direction that they stand for.            *)
LEMMA TokensAsNamed ==
  ASSUME NEW event, IsEvent(event), Len(event.ids) >= 2
  PROVE  /\ ExtractTokenIds(event)[1] # ExtractTokenIds(event)[2]
         /\ Named(event) => /\ ExtractTokenIds(event)[1] \in {"Up", "Yes"}
                            /\ ExtractTokenIds(event)[2] \in {"Down", "No"}
<1> DEFINE ups   == Positions(event, {"Up", "Yes"})
           downs == Positions(event, {"Down", "No"})
           named == /\ ups # {} /\ First(ups) <= Len(event.ids)
                    /\ downs # {} /\ First(downs) <= Len(event.ids)
<1>1. /\ event.ids \in Seq(STRING) /\ event.outcomes \in Seq(STRING)
      /\ \A j, k \in DOMAIN event.ids : event.ids[j] = event.ids[k] => j = k
  BY DEF IsEvent
<1>2. ExtractTokenIds(event) = IF named
                               THEN <<event.ids[First(ups)], event.ids[First(downs)]>>
                               ELSE <<event.ids[1], event.ids[2]>>
  BY DEF ExtractTokenIds
<1> HIDE DEF ups, downs
<1>3. CASE named
  <2>1. PICK k \in Texts(event) : /\ event.outcomes[k] \in {"Up", "Yes"}
                                  /\ First(ups) = Place(event, k)
                                  /\ Place(event, k) \in Nat \ {0}
    BY <1>1, <1>3, FirstOfNames, Zenon DEF ups
  <2>2. PICK j \in Texts(event) : /\ event.outcomes[j] \in {"Down", "No"}
                                  /\ First(downs) = Place(event, j)
                                  /\ Place(event, j) \in Nat \ {0}
    BY <1>1, <1>3, FirstOfNames, Zenon DEF downs
  <2>3. k # j
    BY <2>1, <2>2
  <2>4. k \in Nat /\ j \in Nat
    BY <1>1, TextsFinite
  <2>5. Place(event, k) # Place(event, j)
    <3>1. CASE k < j
      BY <1>1, <3>1, PlacesDiffer
    <3>2. CASE j < k
      BY <1>1, <3>2, PlacesDiffer
    <3> QED
      BY <2>3, <2>4, <3>1, <3>2
  <2>6. First(ups) \in DOMAIN event.ids /\ First(downs) \in DOMAIN event.ids
    BY <1>1, <1>3, <2>1, <2>2
  <2>7. /\ ExtractTokenIds(event)[1] = event.ids[First(ups)]
        /\ ExtractTokenIds(event)[2] = event.ids[First(downs)]
    BY <1>2, <1>3
  <2>8. ExtractTokenIds(event)[1] # ExtractTokenIds(event)[2]
    BY <1>1, <2>1, <2>2, <2>5, <2>6, <2>7
  <2>9. ASSUME Named(event)
        PROVE  /\ ExtractTokenIds(event)[1] \in {"Up", "Yes"}
               /\ ExtractTokenIds(event)[2] \in {"Down", "No"}
    <3>1. event.outcomes = event.ids
      BY <2>9 DEF Named, IsEvent
    <3>2. Place(event, k) = k /\ Place(event, j) = j
      BY <1>1, <2>9, PlaceOfText DEF Named
    <3> QED
      BY <2>1, <2>2, <2>7, <3>1, <3>2
  <2> QED
    BY <2>8, <2>9
<1>4. CASE ~named
  <2>1. /\ ExtractTokenIds(event)[1] = event.ids[1]
        /\ ExtractTokenIds(event)[2] = event.ids[2]
    BY <1>2, <1>4
  <2>2. 1 \in DOMAIN event.ids /\ 2 \in DOMAIN event.ids
    BY <1>1
  <2>3. ExtractTokenIds(event)[1] # ExtractTokenIds(event)[2]
    BY <1>1, <2>1, <2>2
  <2>4. ~Named(event)
    <3>1. SUFFICES ASSUME Named(event) PROVE named
      BY <1>4
    <3>2. /\ Texts(event) = 1 .. Len(event.ids)
          /\ \A k \in Texts(event) : Place(event, k) = k
      BY <1>1, <3>1, PlaceOfText DEF Named
    <3>3. ups # {} /\ downs # {}
      BY <1>1, <3>1, <3>2 DEF Named, Positions, ups, downs
    <3>4. First(ups) <= Len(event.ids)
      BY <1>1, <3>2, <3>3, FirstOfNames DEF ups
    <3>5. First(downs) <= Len(event.ids)
      BY <1>1, <3>2, <3>3, FirstOfNames DEF downs
    <3> QED
      BY <3>3, <3>4, <3>5
  <2> QED
    BY <2>3, <2>4
<1> QED
  BY <1>3, <1>4
-----------------------------------------------------------------------------
LEMMA WindowEndFact ==
  ASSUME NEW now \in Nat
  PROVE  WindowEnd(now) \in Nat /\ WindowEnd(now) > now
BY WindowAssumption, SMT DEF WindowEnd

LEMMA BackoffDelayFact ==
  /\ \A n \in Nat : BackoffDelay(n) \in InitialDelay .. MaxDelay
  /\ \A m, n \in Nat : m <= n => BackoffDelay(m) <= BackoffDelay(n)
<1>1. /\ Factor(0) = 1 /\ Factor(1) = 2 /\ Factor(2) = 4 /\ Factor(3) = 8
      /\ Factor(4) = 16 /\ Factor(5) = 32 /\ Factor(6) = 64
  BY DEF Factor, Factors
<1>2. ASSUME NEW n \in Nat
      PROVE  Lower(n, MaxRetries) \in 0 .. 6
  BY DEF Lower, MaxRetries
<1>3. ASSUME NEW m \in 0 .. 6, NEW n \in 0 .. 6, m <= n
      PROVE  /\ Factor(m) \in 1 .. 64 /\ Factor(n) \in 1 .. 64
             /\ Factor(m) <= Factor(n)
  <2>1. /\ m \in {0, 1, 2, 3, 4, 5, 6}
        /\ n \in {0, 1, 2, 3, 4, 5, 6}
    OBVIOUS
  <2> QED
    BY <1>1, <1>3, <2>1
<1>4. ASSUME NEW n \in Nat
      PROVE  BackoffDelay(n) \in InitialDelay .. MaxDelay
  <2>1. Factor(Lower(n, MaxRetries)) \in 1 .. 64
    BY <1>2, <1>3
  <2>2. ASSUME NEW x \in 1 .. 64
        PROVE  Lower(InitialDelay * x, MaxDelay) \in InitialDelay .. MaxDelay
    BY DEF Lower, InitialDelay, MaxDelay
  <2> QED
    BY <2>1, <2>2, Zenon DEF BackoffDelay
<1>5. ASSUME NEW m \in Nat, NEW n \in Nat, m <= n
      PROVE  BackoffDelay(m) <= BackoffDelay(n)
  <2>1. Lower(m, MaxRetries) <= Lower(n, MaxRetries)
    BY <1>5 DEF Lower, MaxRetries
  <2>2. /\ Factor(Lower(m, MaxRetries)) \in 1 .. 64
        /\ Factor(Lower(n, MaxRetries)) \in 1 .. 64
        /\ Factor(Lower(m, MaxRetries)) <= Factor(Lower(n, MaxRetries))
    BY <1>2, <1>3, <2>1
  <2> QED
    BY <2>2 DEF BackoffDelay, Lower, InitialDelay, MaxDelay
<1> QED
  BY <1>4, <1>5

(* The steps of the connection, of the process and of the tasks. *)
LEMMA ConnectionType ==
  ASSUME ConnTypeOK, ConnNext \/ Start
  PROVE  ConnTypeOK'
<1> USE AttemptAssumption DEF ConnTypeOK
<1>1. CASE Start \/ Connected
  BY <1>1 DEF Start, Connected
<1>2. CASE ConnectionError
  <2>1. BackoffDelay(attempt) \in InitialDelay .. MaxDelay
    BY BackoffDelayFact
  <2>2. delay' \in 0 .. MaxDelay
    BY <1>2, <2>1 DEF ConnectionError, InitialDelay
  <2> QED
    BY <1>2, <2>2 DEF ConnectionError
<1>3. CASE BackoffOver
  BY <1>3 DEF BackoffOver, Lower
<1>4. CASE StreamEnds
  BY <1>4 DEF StreamEnds
<1> QED
  BY <1>1, <1>2, <1>3, <1>4 DEF ConnNext

(* The requests that there may be. *)
Requests ==
  [kind : {"update"}, by : {"main", "rollover"}, expiry : Nat,
   step : {"primary", "fallback", "market", "expiry", "arm"}]

LEMMA RequestType ==
  ASSUME wall \in Nat, NEW by \in {"main", "rollover"}
  PROVE  /\ Request(by) \in Requests /\ Request(by) # NoRequest
         /\ Request(by).by = by /\ Request(by).step = "primary"
         /\ Request(by).expiry > wall
BY WindowEndFact DEF Request, Requests, NoRequest

(* The variables of main, of the fetch, of the market and of the connection *)
(* keep their types, whatever the Gamma API answers.                       *)
THEOREM TypeCorrect == Spec => []TypeOK
<1>1. Init => TypeOK
  <2> SUFFICES ASSUME Init PROVE TypeOK
    OBVIOUS
  <2>1. ConnTypeOK
    BY AttemptAssumption DEF Init, ConnInit, ConnTypeOK, MaxDelay
  <2>2. /\ pc = "config" /\ env \in Environments /\ wall \in Nat
        /\ request = NoRequest /\ market = NoMarket /\ market_expiry \in Nat
        /\ tasks \subseteq Tasks /\ fetched = NoMarket
        /\ in_flight \in 0 .. MaxOrders
    BY StartupAssumption DEF Init
  <2>3. {is_armed, wallet, l2_creds} \subseteq BOOLEAN
    BY DEF Init
  <2> QED
    BY <2>1, <2>2, <2>3 DEF TypeOK
<1>2. TypeOK /\ [Next]_vars => TypeOK'
  <2> SUFFICES ASSUME TypeOK, [Next]_vars PROVE TypeOK'
    OBVIOUS
  <2> USE DEF TypeOK, ConnTypeOK, mainVars, sniperVars, marketVars, authVars, fetchVars,
        connVars
  <2>1. CASE Clock
    BY <2>1 DEF Clock
  <2>2. CASE LoadConfig
    <3>1. request' = request \/ request' \in Requests
      BY <2>2, RequestType DEF LoadConfig
    <3> QED
      BY <2>2, <3>1 DEF LoadConfig, Requests
  <2>3. CASE NewExecutor
    BY <2>3 DEF NewExecutor
  <2>4. CASE AuthSucceeds \/ AuthFails
    BY <2>4 DEF AuthSucceeds, AuthFails
  <2>5. CASE SpawnTasks
    <3>1. tasks' \subseteq Tasks
      <4>1. \/ tasks' = {"situation_room"} \/ tasks' = tasks \cup {"polymarket"}
            \/ tasks' = tasks \cup {"binance"} \/ tasks' = Tasks
        BY <2>5 DEF SpawnTasks
      <4> QED
        BY <4>1 DEF Tasks
    <3>2. pc' \in {"spawn", "running"}
      BY <2>5 DEF SpawnTasks
    <3>3. ConnTypeOK'
      <4>1. CASE UNCHANGED connVars
        BY <4>1
      <4>2. CASE Start
        BY <4>2, ConnectionType
      <4> QED
        BY <2>5, <4>1, <4>2 DEF SpawnTasks
    <3> QED
      BY <2>5, <3>1, <3>2, <3>3 DEF SpawnTasks
  <2>6. CASE Shutdown
    BY <2>6, StartupAssumption DEF Shutdown
  <2>7. CASE AskFallback \/ PublishMarket \/ PublishExpiry
    <3>1. request \in Requests
      BY <2>7 DEF AskFallback, PublishMarket, PublishExpiry, Requests
    <3>2. request' \in Requests
      BY <2>7, <3>1 DEF AskFallback, PublishMarket, PublishExpiry, Requests
    <3>3. market_expiry' \in Nat
      BY <2>7, <3>1 DEF AskFallback, PublishMarket, PublishExpiry, Requests
    <3> QED
      BY <2>7, <3>2, <3>3 DEF AskFallback, PublishMarket, PublishExpiry, Requests
  <2>8. CASE FetchSucceeds
    <3>1. PICK answer \in Answers :
            /\ Resolves(answer)
            /\ Resolved(answer, request.expiry) # Failed
            /\ fetched' = Resolved(answer, request.expiry)
      BY <2>8 DEF FetchSucceeds
    <3>2. fetched'.kind = "market"
      BY <3>1 DEF Resolved, MarketOf
    <3>3. request \in Requests
      BY <3>1 DEF Resolves, Requests
    <3>4. request' \in Requests
      BY <2>8, <3>3 DEF FetchSucceeds, Requests
    <3> QED
      BY <2>8, <3>2, <3>4 DEF FetchSucceeds, Requests
  <2>9. CASE FetchFails \/ Arm
    <3>1. /\ RequestDone /\ request' = NoRequest /\ market' = market
          /\ pc' = "executor" \/ pc' = pc
      BY <2>9 DEF FetchFails, Arm, RequestDone
    <3>2. market_expiry' \in Nat /\ is_armed' \in BOOLEAN
      BY <2>9, WindowEndFact DEF FetchFails, Arm
    <3> QED
      BY <3>1, <3>2 DEF RequestDone
  <2>10. CASE Rollover
    <3>1. request' \in Requests
      BY <2>10, RequestType DEF Rollover
    <3> QED
      BY <2>10, <3>1 DEF Rollover, Requests
  <2>11. CASE Connection
    <3>1. ConnTypeOK'
      BY <2>11, ConnectionType DEF Connection
    <3> QED
      BY <2>11, <3>1 DEF Connection
  <2>12. CASE TakeRight \/ GiveBack
    <3> MaxOrders \in Nat /\ in_flight \in 0 .. MaxOrders
      BY StartupAssumption
    <3>1. in_flight' \in 0 .. MaxOrders
      <4>1. CASE TakeRight
        BY <4>1 DEF TakeRight
      <4>2. CASE GiveBack
        BY <4>2 DEF GiveBack
      <4> QED
        BY <2>12, <4>1, <4>2
    <3>2. is_armed' \in BOOLEAN
      BY <2>12 DEF TakeRight, GiveBack
    <3>3. UNCHANGED <<mainVars, wall, fetchVars, market, market_expiry, authVars, tasks,
                      connVars>>
      BY <2>12 DEF TakeRight, GiveBack
    <3> QED
      BY <3>1, <3>2, <3>3
  <2>13. CASE UNCHANGED vars
    BY <2>13 DEF vars
  <2> QED
    BY <2>1, <2>2, <2>3, <2>4, <2>5, <2>6, <2>7, <2>8, <2>9, <2>10, <2>11, <2>12,
      <2>13 DEF Next
<1> QED
  BY <1>1, <1>2, PTL DEF Spec
-----------------------------------------------------------------------------
(* main goes past the authentication with what a live mode needs, tasks run *)
(* only where it has, and a request of its own is out only while it waits.  *)
CredentialsInv ==
  /\ pc \in {"spawn", "running"} => env.paper \/ (wallet /\ l2_creds)
  /\ tasks # {} => pc \in {"spawn", "running"}
  /\ request # NoRequest => pc # "config"
  /\ request # NoRequest /\ request.by = "main" => pc = "market"

LEMMA CredentialsInductive ==
  ASSUME TypeOK, CredentialsInv, [Next]_vars
  PROVE  CredentialsInv'
<1> USE DEF CredentialsInv, mainVars, authVars, fetchVars
<1>1. CASE LoadConfig
  BY <1>1, RequestType DEF LoadConfig, TypeOK
<1>2. CASE NewExecutor
  <2>1. /\ pc' = "spawn" \/ (pc' = "auth" /\ pc = "executor")
        /\ pc' = "spawn" => env'.paper
        /\ request' = request /\ tasks' = tasks
    BY <1>2 DEF NewExecutor, TypeOK, Environments
  <2> QED
    BY <1>2, <2>1 DEF NewExecutor
<1>3. CASE AuthSucceeds \/ AuthFails
  BY <1>3 DEF AuthSucceeds, AuthFails
<1>4. CASE SpawnTasks
  BY <1>4 DEF SpawnTasks
<1>5. CASE Shutdown
  BY <1>5 DEF Shutdown
<1>6. CASE AskFallback \/ FetchSucceeds \/ PublishMarket \/ PublishExpiry
  <2>1. /\ request # NoRequest /\ request'.by = request.by
        /\ UNCHANGED <<mainVars, authVars, tasks>>
    BY <1>6 DEF AskFallback, FetchSucceeds, Resolves, PublishMarket, PublishExpiry, TypeOK
  <2> QED
    BY <2>1
<1>7. CASE FetchFails \/ Arm
  <2>1. request # NoRequest /\ RequestDone
    BY <1>7 DEF FetchFails, Resolves, Arm
  <2> QED
    BY <2>1 DEF RequestDone
<1>8. CASE Rollover
  <2>1. tasks # {} /\ request'.by = "rollover" /\ UNCHANGED <<mainVars, authVars, tasks>>
    BY <1>8 DEF Rollover, Request, TickArrives
  <2> QED
    BY <2>1
<1>9. CASE Clock \/ TakeRight \/ GiveBack \/ Connection \/ UNCHANGED vars
  BY <1>9 DEF Clock, TakeRight, GiveBack, Connection, vars
<1> QED
  BY <1>1, <1>2, <1>3, <1>4, <1>5, <1>6, <1>7, <1>8, <1>9 DEF Next

LEMMA CredentialsInvariant == Spec => []CredentialsInv
<1>1. Init => CredentialsInv
  BY DEF Init, CredentialsInv
<1>2. TypeOK /\ CredentialsInv /\ [Next]_vars => CredentialsInv'
  BY CredentialsInductive
<1> QED
  BY <1>1, <1>2, TypeCorrect, PTL DEF Spec

(* No task of a live process runs without the wallet and the credentials,  *)
(* whatever the key, the answers and the moment of a signal.               *)
THEOREM TasksHaveCredentials == Spec => []LiveNeedsCredentials
<1>1. CredentialsInv => LiveNeedsCredentials
  BY DEF CredentialsInv, LiveNeedsCredentials
<1> QED
  BY <1>1, CredentialsInvariant, PTL
-----------------------------------------------------------------------------
(* What update_market returns: two different tokens, as the outcomes say.   *)
Whole(m) ==
  /\ m # NoMarket
  /\ m.tokens[1] # m.tokens[2]
  /\ Named(m.event) => m.tokens[1] \in {"Up", "Yes"} /\ m.tokens[2] \in {"Down", "No"}

(* There is a market before the sniper is armed for the first time, and it  *)
(* stays: a later one ends later, and is published before its expiry.  So   *)
(* whoever gives a right back, at whatever moment, arms with a market; and  *)
(* only main, before there is one, sets an expiry without a market.        *)
MarketInv ==
  /\ market # NoMarket => Whole(market) /\ market_expiry <= market.expiry
  /\ is_armed \/ in_flight > 0 => market # NoMarket
  /\ pc = "config" => market = NoMarket /\ market_expiry = 0
  /\ request # NoRequest =>
       /\ market_expiry <= request.expiry
       /\ request.step \in {"expiry", "arm"} => market # NoMarket
       /\ request.step = "expiry" => market.expiry = request.expiry
       /\ request.step = "market" => Whole(fetched) /\ fetched.expiry = request.expiry
       /\ request.by = "main" /\ request.step \in {"primary", "fallback", "market"}
          => market = NoMarket

LEMMA FetchedIsWhole ==
  ASSUME FetchSucceeds
  PROVE  Whole(fetched') /\ fetched'.expiry = request.expiry
<1>1. PICK answer \in Answers :
        /\ Resolved(answer, request.expiry) # Failed
        /\ fetched' = Resolved(answer, request.expiry)
  BY DEF FetchSucceeds
<1>2. answer.kind = "event"
  BY <1>1 DEF Resolved
<1>3. IsEvent(answer)
  BY <1>2, AnswerAssumption DEF Failed, Missing
<1>4. /\ fetched' = [kind |-> "market", expiry |-> request.expiry,
                     tokens |-> ExtractTokenIds(answer), event |-> answer]
      /\ ~(Len(answer.ids) < 2)
  BY <1>1, <1>2, Zenon DEF Resolved, MarketOf
<1>5. Len(answer.ids) >= 2
  BY <1>3, <1>4 DEF IsEvent
<1>6. /\ fetched' # NoMarket /\ fetched'.expiry = request.expiry
      /\ fetched'.tokens = ExtractTokenIds(answer) /\ fetched'.event = answer
  BY <1>4 DEF NoMarket
<1> QED
  BY <1>3, <1>5, <1>6, TokensAsNamed DEF Whole

LEMMA MarketInductive ==
  ASSUME TypeOK, CredentialsInv, MarketInv, [Next]_vars
  PROVE  MarketInv'
<1> USE DEF mainVars, sniperVars, marketVars, fetchVars
<1>0. /\ wall \in Nat /\ market_expiry \in Nat
      /\ request # NoRequest => request \in Requests
  BY DEF TypeOK, Requests
<1>1. CASE LoadConfig
  <2>1. /\ market' = NoMarket /\ market_expiry' = 0 /\ UNCHANGED sniperVars
        /\ ~is_armed /\ ~(in_flight > 0)
    BY <1>1 DEF LoadConfig, MarketInv
  <2>2. \/ pc' = "market" /\ request' = Request("main")
        \/ pc' = "exited" /\ request' = request /\ request = NoRequest
    BY <1>1 DEF LoadConfig, CredentialsInv
  <2>3. request' # NoRequest => 0 <= request'.expiry /\ request'.step = "primary"
    <3>1. CASE request' = Request("main")
      <4>1. /\ Request("main").expiry > wall /\ Request("main").step = "primary"
            /\ Request("main").expiry \in Nat
        BY <1>0, RequestType DEF Requests
      <4> QED
        BY <1>0, <3>1, <4>1
    <3> QED
      BY <2>2, <3>1
  <2> QED
    BY <2>1, <2>2, <2>3 DEF MarketInv
<1>2. CASE AskFallback
  <2>1. /\ request # NoRequest /\ request'.step = "fallback" /\ request.step = "primary"
        /\ request'.by = request.by /\ request'.expiry = request.expiry
        /\ UNCHANGED <<pc, marketVars>>
    BY <1>0, <1>2 DEF AskFallback, Requests
  <2> QED
    BY <2>1 DEF MarketInv, Whole
<1>3. CASE FetchSucceeds
  <2>1. /\ request # NoRequest /\ request'.step = "market"
        /\ request.step \in {"primary", "fallback"}
        /\ request'.by = request.by /\ request'.expiry = request.expiry
        /\ UNCHANGED <<pc, marketVars>>
    BY <1>0, <1>3 DEF FetchSucceeds, Resolves, Requests
  <2>2. Whole(fetched') /\ fetched'.expiry = request.expiry
    BY <1>3, FetchedIsWhole
  <2> QED
    BY <2>1, <2>2 DEF MarketInv, Whole
<1>4. CASE PublishMarket
  <2>1. /\ request # NoRequest /\ request.step = "market" /\ request'.step = "expiry"
        /\ request'.by = request.by /\ request'.expiry = request.expiry
        /\ market' = fetched /\ UNCHANGED <<pc, market_expiry, sniperVars>>
    BY <1>0, <1>4 DEF PublishMarket, Requests
  <2>2. Whole(market') /\ market'.expiry = request.expiry /\ market' # NoMarket
    BY <2>1 DEF MarketInv, Whole
  <2>3. pc' # "config"
    BY <2>1 DEF CredentialsInv
  <2> QED
    BY <2>1, <2>2, <2>3 DEF MarketInv
<1>5. CASE PublishExpiry
  <2>1. /\ request # NoRequest /\ request.step = "expiry" /\ request'.step = "arm"
        /\ request'.by = request.by /\ request'.expiry = request.expiry
        /\ market_expiry' = request.expiry /\ UNCHANGED <<pc, market, sniperVars>>
    BY <1>0, <1>5 DEF PublishExpiry, Requests
  <2>2. market # NoMarket /\ market.expiry = request.expiry /\ request.expiry \in Nat
    BY <1>0, <2>1 DEF MarketInv, Requests
  <2>3. pc' # "config"
    BY <2>1 DEF CredentialsInv
  <2> QED
    BY <2>1, <2>2, <2>3 DEF MarketInv, Whole
<1>6. CASE Arm
  <2>1. /\ market # NoMarket /\ request # NoRequest /\ request' = NoRequest
        /\ pc' = "executor" \/ pc' = pc
        /\ UNCHANGED <<market, market_expiry, in_flight>>
    BY <1>6 DEF Arm, RequestDone, MarketInv
  <2>2. pc' # "config"
    BY <2>1 DEF CredentialsInv
  <2> QED
    BY <2>1, <2>2 DEF MarketInv, Whole
<1>7. CASE FetchFails
  <2>1. /\ request # NoRequest /\ request' = NoRequest
        /\ request.step \in {"primary", "fallback"}
        /\ pc' = "executor" \/ pc' = pc
        /\ UNCHANGED <<market, sniperVars>>
        /\ request.by # "main" => market_expiry' = market_expiry
    BY <1>7 DEF FetchFails, Resolves, RequestDone
  <2>2. request.by = "main" => market = NoMarket
    BY <2>1 DEF MarketInv
  <2>3. pc' # "config"
    BY <2>1 DEF CredentialsInv
  <2> QED
    BY <2>1, <2>2, <2>3 DEF MarketInv, Whole
<1>8. CASE Rollover
  <2>1. /\ wall >= market_expiry /\ request' = Request("rollover") /\ ~is_armed'
        /\ UNCHANGED <<pc, market, market_expiry, in_flight>>
    BY <1>8 DEF Rollover
  <2>2. /\ request'.by = "rollover" /\ request'.step = "primary"
        /\ request'.expiry > wall /\ request'.expiry \in Nat
    BY <1>0, <2>1, RequestType DEF Requests
  <2>3. market_expiry' <= request'.expiry
    BY <1>0, <2>1, <2>2
  <2> QED
    BY <2>1, <2>2, <2>3 DEF MarketInv, Whole
<1>9. CASE TakeRight
  BY <1>9 DEF TakeRight, MarketInv, Whole
<1>10. CASE GiveBack
  BY <1>10 DEF GiveBack, MarketInv, Whole
<1>11. CASE Shutdown
  BY <1>11 DEF Shutdown, MarketInv, Whole
<1>12. CASE NewExecutor \/ AuthSucceeds \/ AuthFails \/ SpawnTasks
  <2>1. pc' # "config" /\ UNCHANGED <<fetchVars, marketVars>>
    BY <1>12 DEF NewExecutor, AuthSucceeds, AuthFails, SpawnTasks
  <2> QED
    BY <2>1 DEF MarketInv, Whole
<1>13. CASE Clock \/ Connection \/ UNCHANGED vars
  <2>1. UNCHANGED <<pc, fetchVars, marketVars>>
    BY <1>13 DEF Clock, Connection, vars
  <2> QED
    BY <2>1 DEF MarketInv, Whole
<1> QED
  BY <1>1, <1>2, <1>3, <1>4, <1>5, <1>6, <1>7, <1>8, <1>9, <1>10, <1>11, <1>12, <1>13
    DEF Next

(* Whoever arms the sniper, and when, it has a market that is not over      *)
(* before the expiry that lets ticks through, with two tokens that pay as   *)
(* the outcomes say, however the answers list, encode or lose them.        *)
THEOREM ArmedMarketMatches == Spec => []ArmedMarketIsWhole
<1>1. Init => MarketInv
  BY DEF Init, MarketInv
<1>2. TypeOK /\ CredentialsInv /\ MarketInv /\ [Next]_vars => MarketInv'
  BY MarketInductive
<1>3. MarketInv => ArmedMarketIsWhole
  BY DEF MarketInv, Whole, ArmedMarketIsWhole
<1> QED
  BY <1>1, <1>2, <1>3, TypeCorrect, CredentialsInvariant, PTL DEF Spec
-----------------------------------------------------------------------------
(* The last delay is that of the attempts so far, or of fewer of them.     *)
DelayInv ==
  /\ conn = "backoff" => delay = BackoffDelay(attempt)
  /\ attempt > 0 => delay <= BackoffDelay(attempt)

LEMMA DelayInductive ==
  ASSUME TypeOK, DelayInv, [Next]_vars
  PROVE  DelayInv' /\ (conn' = "backoff" /\ conn # "backoff"
                       => /\ delay' \in InitialDelay .. MaxDelay
                          /\ attempt > 0 => delay' >= delay)
<1> USE DEF DelayInv
<1>1. /\ attempt \in Nat /\ delay \in Nat
      /\ BackoffDelay(attempt) \in InitialDelay .. MaxDelay
      /\ BackoffDelay(attempt) \in Nat
  <2>1. attempt \in Nat /\ delay \in Nat
    BY AttemptAssumption DEF TypeOK, ConnTypeOK
  <2>2. BackoffDelay(attempt) \in InitialDelay .. MaxDelay
    BY <2>1, BackoffDelayFact
  <2>3. ASSUME NEW d \in InitialDelay .. MaxDelay PROVE d \in Nat
    BY DEF InitialDelay, MaxDelay
  <2> QED
    BY <2>1, <2>2, <2>3, Zenon
<1>2. CASE ConnectionError
  <2>1. /\ conn' = "backoff" /\ attempt' = attempt
        /\ delay' = BackoffDelay(attempt)
    BY <1>2 DEF ConnectionError
  <2> QED
    BY <1>1, <2>1
<1>3. CASE BackoffOver
  <2>1. /\ conn = "backoff" /\ conn' = "connect" /\ delay' = delay
        /\ attempt' = Lower(attempt + 1, U32Max)
    BY <1>3 DEF BackoffOver
  <2>2. attempt' \in Nat /\ attempt <= attempt'
    BY <2>1, AttemptAssumption DEF TypeOK, ConnTypeOK, Lower
  <2>3. BackoffDelay(attempt) <= BackoffDelay(attempt')
    BY <1>1, <2>2, BackoffDelayFact
  <2>4. delay' <= BackoffDelay(attempt')
    BY <2>1, <2>3
  <2> QED
    BY <2>1, <2>4
<1>4. CASE StreamEnds
  BY <1>4 DEF StreamEnds
<1>5. CASE Connected \/ Start \/ Shutdown \/ UNCHANGED connVars
  <2>1. /\ attempt' = attempt /\ delay' = delay
        /\ conn' = "backoff" => conn = "backoff"
    BY <1>5 DEF Connected, Start, Shutdown, connVars
  <2> QED
    BY <2>1
<1>6. ConnNext \/ Start \/ Shutdown \/ UNCHANGED connVars
  BY DEF Next, Clock, LoadConfig, NewExecutor, AuthSucceeds, AuthFails, SpawnTasks,
    AskFallback, FetchSucceeds, FetchFails, PublishMarket, PublishExpiry, Arm, RequestDone,
    Rollover, TakeRight, GiveBack, Connection, vars
<1> QED
  BY <1>2, <1>3, <1>4, <1>5, <1>6 DEF ConnNext

(* In an outage each wait is no shorter than the one before, for any bound *)
(* of the attempts, also where they saturate.                              *)
THEOREM WaitsNeverShrink == Spec => BackoffGrows
<1>1. Init => DelayInv
  BY DEF Init, ConnInit, DelayInv
<1>2. TypeOK /\ DelayInv /\ [Next]_vars => DelayInv'
  BY DelayInductive
<1>3. TypeOK /\ DelayInv /\ [Next]_vars
      => [conn' = "backoff" /\ conn # "backoff"
            => /\ delay' \in InitialDelay .. MaxDelay
               /\ attempt > 0 => delay' >= delay]_vars
  BY DelayInductive
<1> QED
  BY <1>1, <1>2, <1>3, TypeCorrect, PTL DEF Spec, BackoffGrows
=============================================================================
