-------------------------- MODULE NatTraversalProofs --------------------------
(***************************************************************************)
(* What holds of the traversal for every number of peers and servers and   *)
(* datagrams of any length.                                                *)
(***************************************************************************)
EXTENDS NatTraversal, TLAPS

USE TraversalAssumption

-----------------------------------------------------------------------------
(* The operators *)

\* A reading is one of the endpoints.
LEMMA Readings ==
    ASSUME NEW a
    PROVE  /\ ReadByDetector(a) \in {"none", "panic", "shifted"}
           /\ ReadByClient(a) \in {"none", "masked", "told"}
BY DEF ReadByDetector, ReadByClient

\* The strategy does not depend on who asks.
LEMMA StrategyIsSymmetric ==
    \A a, b \in NatType :
        /\ DetermineStrategy(a, b) = DetermineStrategy(b, a)
        /\ DetermineStrategy(a, b) \in Strategy
BY DEF DetermineStrategy, Strategy

\* What the two ways of detection say.
LEMMA Detections ==
    ASSUME NEW b \in Bind, NEW e \in Endpoint
    PROVE  /\ ByIp(b) \in [nat : NatType, endpoint : Endpoint]
           /\ ByStun(e) \in [nat : NatType, endpoint : Endpoint]
           /\ ByIp(b).nat = "Open" <=> ~IsPrivate(b)
           /\ ~IsPrivate(b) <=> b \notin {"private", "loopback"}
           /\ e # "local" => ByStun(e).nat = "Symmetric"
           /\ ByStun(e).endpoint = e
BY DEF ByIp, ByStun, IsPrivate, NatType, Endpoint

-----------------------------------------------------------------------------
(* Type correctness *)

LEMMA TypeOKInit == Init => TypeOK
<1> SUFFICES ASSUME Init PROVE TypeOK
  OBVIOUS
<1>1. info \in [Peer -> [nat : NatType, endpoint : Endpoint]]
  BY DEF Init, NoInfo, NatType, Endpoint
<1>2. packets \in [Peer -> 0..PunchCount] /\ at \in [Peer -> 0..NumServers + 1]
  BY DEF Init
<1>3. QED BY <1>1, <1>2 DEF Init, TypeOK, Place, Strategy

\* A peer that waits is at a server, and one that punches has packets left.
BoundInv ==
    \A p \in Peer :
        /\ pc[p] = "wait" => at[p] \in 1..NumServers
        /\ pc[p] = "punch" => packets[p] < PunchCount /\ target[p] \in Peer

\* The end of a discovery.
LEMMA FoundTyped ==
    ASSUME TypeOK, NEW p \in Peer,
           NEW e \in [nat : NatType, endpoint : Endpoint], Found(p, e),
           answered' \in [Peer -> BOOLEAN]
    PROVE  TypeOK'
<1>1. pc' \in [Peer -> Place]
      /\ info' \in [Peer -> [nat : NatType, endpoint : Endpoint]]
  BY DEF Found, MoveTo, TypeOK, Place, Ended
<1>2. at' \in [Peer -> 0..NumServers + 1]
  BY DEF Found, Close, TypeOK
<1>3. QED BY <1>1, <1>2 DEF Found, punching, TypeOK

LEMMA UnderstandTyped ==
    ASSUME TypeOK, NEW p \in Peer,
           NEW e \in [nat : NatType, endpoint : Endpoint], Understand(p, e)
    PROVE  TypeOK'
<1>1. answered' \in [Peer -> BOOLEAN]
  BY DEF Understand, TypeOK
<1>2. QED BY <1>1, FoundTyped DEF Understand

LEMMA TypeOKNext == TypeOK /\ BoundInv /\ [Next]_vars => TypeOK'
<1> SUFFICES ASSUME TypeOK, BoundInv, [Next]_vars PROVE TypeOK'
  OBVIOUS
<1> USE DEF discovery, punching
<1>1. ASSUME NEW p \in Peer, StartDiscovery(p) PROVE TypeOK'
  <2>1. at' \in [Peer -> 0..NumServers + 1] /\ pc' \in [Peer -> Place]
    BY <1>1 DEF StartDiscovery, MoveTo, TypeOK, Place
  <2>2. QED BY <1>1, <2>1 DEF StartDiscovery, TypeOK
<1>2. ASSUME NEW p \in Peer, Proceed(p) PROVE TypeOK'
  <2>1. CASE Ask(p)
    BY <2>1 DEF Ask, MoveTo, TypeOK, Place
  <2>a. ASSUME NextServer(p), at[p] \in 1..NumServers PROVE TypeOK'
    <3>1. at[p] + 1 \in 0..NumServers + 1
      BY <2>a
    <3>2. at' \in [Peer -> 0..NumServers + 1] /\ pc' \in [Peer -> Place]
      BY <2>a, <3>1 DEF NextServer, MoveTo, TypeOK, Place
    <3>3. QED BY <2>a, <3>2 DEF NextServer, TypeOK
  <2>2. CASE AskFails(p) \/ Timeout(p)
    BY <2>a, <2>2 DEF AskFails, Timeout, BoundInv
  <2>3. CASE Receive(p)
    <3>1. PICK a \in Answer :
             \/ DetectorFinds(p, a)
             \/ DetectorPanics(p, a)
             \/ ClientFinds(p, a)
             \/ AnswerIsUseless(p, a)
      BY <2>3 DEF Receive
    <3>2. CASE DetectorFinds(p, a)
      <4>1. ReadByDetector(a) = "shifted"
        BY <3>2, Readings DEF DetectorFinds
      <4>2. ByStun(ReadByDetector(a)) \in [nat : NatType, endpoint : Endpoint]
        BY <4>1, Detections DEF TypeOK, Endpoint
      <4>3. QED BY <3>2, <4>2, UnderstandTyped DEF DetectorFinds
    <3>3. CASE DetectorPanics(p, a)
      <4>1. pc' \in [Peer -> Place]
        BY <3>3 DEF DetectorPanics, MoveTo, TypeOK, Place, Ended
      <4>2. at' \in [Peer -> 0..NumServers + 1]
        BY <3>3 DEF DetectorPanics, Close, TypeOK
      <4>3. QED BY <3>3, <4>1, <4>2 DEF DetectorPanics, TypeOK
    <3>4. CASE ClientFinds(p, a)
      <4>1. [nat |-> "Unknown", endpoint |-> ReadByClient(a)]
               \in [nat : NatType, endpoint : Endpoint]
        BY <3>4, Readings DEF ClientFinds, NatType, Endpoint
      <4>2. QED BY <3>4, <4>1, UnderstandTyped DEF ClientFinds
    <3>5. CASE AnswerIsUseless(p, a)
      BY <2>a, <3>5 DEF AnswerIsUseless, Arrives, BoundInv
    <3>6. QED BY <3>1, <3>2, <3>3, <3>4, <3>5
  <2>4. CASE FallBack(p)
    <3>1. NoInfo \in [nat : NatType, endpoint : Endpoint]
      BY DEF NoInfo, NatType, Endpoint
    <3>2. ByIp(bind[p]) \in [nat : NatType, endpoint : Endpoint]
      BY Detections DEF TypeOK, Endpoint
    <3>3. answered' \in [Peer -> BOOLEAN]
      BY <2>4 DEF FallBack, TypeOK
    <3>4. CASE tool[p] = "detector"
      BY <2>4, <3>2, <3>3, <3>4, FoundTyped DEF FallBack
    <3>5. CASE tool[p] # "detector"
      BY <2>4, <3>1, <3>3, <3>5, FoundTyped DEF FallBack
    <3>6. QED BY <3>4, <3>5
  <2>5. CASE PunchFails(p)
    BY <2>5 DEF PunchFails, MoveTo, TypeOK, Place, Ended
  <2>6. CASE SendPunch(p)
    <3>1. packets[p] \in 0..PunchCount - 1
      BY <2>6 DEF SendPunch, BoundInv, TypeOK
    <3>2. packets' \in [Peer -> 0..PunchCount] /\ pc' \in [Peer -> Place]
      BY <2>6, <3>1 DEF SendPunch, MoveTo, TypeOK, Place, Ended
    <3>3. QED BY <2>6, <3>2 DEF SendPunch, TypeOK
  <2>7. QED BY <1>2, <2>1, <2>2, <2>3, <2>4, <2>5, <2>6 DEF Proceed
<1>3. ASSUME NEW p \in Peer, NEW q \in Peer, PunchHole(p, q) PROVE TypeOK'
  <2> DEFINE s == DetermineStrategy(DetectAgain(p).nat, info[q].nat)
  <2>1. s \in Strategy
    BY StrategyIsSymmetric, Detections DEF DetectAgain, TypeOK, Endpoint
  <2>2. strategy' \in [Peer -> Strategy] /\ target' \in [Peer -> Peer \cup {NoPeer}]
    BY <1>3, <2>1 DEF PunchHole, TypeOK
  <2>3. pc' \in [Peer -> Place]
    BY <1>3, <2>1 DEF PunchHole, MoveTo, TypeOK, Place, Ended, Strategy
  <2>4. QED BY <1>3, <2>2, <2>3 DEF PunchHole, TypeOK
<1>4. CASE UNCHANGED vars
  BY <1>4 DEF vars, TypeOK
<1>5. QED BY <1>1, <1>2, <1>3, <1>4 DEF Next

\* A step of one peer keeps the bounds of the others.
LEMMA BoundMove ==
    ASSUME TypeOK, BoundInv, NEW p \in Peer, NEW place \in Place, MoveTo(p, place),
           \A r \in Peer \ {p} : at'[r] = at[r] /\ packets'[r] = packets[r]
                                 /\ target'[r] = target[r],
           place = "wait" => at'[p] \in 1..NumServers,
           place = "punch" => packets'[p] < PunchCount /\ target'[p] \in Peer
    PROVE  BoundInv'
BY DEF BoundInv, MoveTo, TypeOK

LEMMA PunchHoleMoves ==
    ASSUME TypeOK, NEW p \in Peer, NEW q \in Peer, PunchHole(p, q)
    PROVE  MoveTo(p, "connected") \/ MoveTo(p, "failed") \/ MoveTo(p, "punch")
<1>1. DetermineStrategy(DetectAgain(p).nat, info[q].nat) \in Strategy
  BY StrategyIsSymmetric, Detections DEF DetectAgain, TypeOK, Endpoint
<1>2. QED BY <1>1 DEF PunchHole, Strategy

\* A peer that is discovering has sent no packet.
QuietInv == \A p \in Peer : pc[p] \in {"idle", "try", "wait", "found"} => packets[p] = 0

LEMMA BoundInvNext == TypeOK /\ QuietInv /\ BoundInv /\ [Next]_vars => BoundInv'
<1> SUFFICES ASSUME TypeOK, QuietInv, BoundInv, [Next]_vars PROVE BoundInv'
  OBVIOUS
<1> USE DEF discovery, punching, Place, Ended
<1>1. ASSUME NEW p \in Peer, StartDiscovery(p) PROVE BoundInv'
  BY <1>1, BoundMove DEF StartDiscovery, TypeOK
\* The loop over the servers goes on, or is over.
<1>2. ASSUME NEW p \in Peer,
             MoveTo(p, "try") \/ MoveTo(p, "found") \/ MoveTo(p, "failed")
                \/ MoveTo(p, "panicked"),
             packets[p] = 0,
             \A r \in Peer \ {p} : at'[r] = at[r],
             UNCHANGED punching
      PROVE  BoundInv'
  BY <1>2, BoundMove
<1>3. ASSUME NEW p \in Peer, Proceed(p) PROVE BoundInv'
  <2>1. CASE Ask(p)
    BY <2>1, BoundMove DEF Ask
  <2>2. CASE AskFails(p) \/ Timeout(p)
    BY <2>2, <1>2 DEF AskFails, Timeout, NextServer, QuietInv, TypeOK
  <2>3. CASE Receive(p)
    <3>1. PICK a \in Answer :
             \/ DetectorFinds(p, a)
             \/ DetectorPanics(p, a)
             \/ ClientFinds(p, a)
             \/ AnswerIsUseless(p, a)
      BY <2>3 DEF Receive
    <3>2. packets[p] = 0
      BY <3>1 DEF DetectorFinds, DetectorPanics, ClientFinds, AnswerIsUseless,
                  Arrives, QuietInv
    <3>3. CASE DetectorFinds(p, a) \/ ClientFinds(p, a)
      BY <3>2, <3>3, <1>2 DEF DetectorFinds, ClientFinds, Understand, Found, Close,
                              TypeOK
    <3>4. CASE DetectorPanics(p, a) \/ AnswerIsUseless(p, a)
      BY <3>2, <3>4, <1>2
         DEF DetectorPanics, AnswerIsUseless, NextServer, Close, TypeOK
    <3>5. QED BY <3>1, <3>3, <3>4
  <2>4. CASE FallBack(p)
    BY <2>4, <1>2 DEF FallBack, Found, Close, QuietInv, TypeOK
  <2>5. CASE PunchFails(p)
    BY <2>5, BoundMove DEF PunchFails
  <2>6. CASE SendPunch(p)
    <3>1. packets'[p] = packets[p] + 1 /\ packets[p] \in 0..PunchCount - 1
      BY <2>6 DEF SendPunch, BoundInv, TypeOK
    <3>2. target'[p] \in Peer
      BY <2>6 DEF SendPunch, BoundInv
    <3>3. \A r \in Peer \ {p} : packets'[r] = packets[r]
      BY <2>6 DEF SendPunch, TypeOK
    <3>4. CASE packets'[p] = PunchCount
      BY <2>6, <3>3, <3>4, BoundMove DEF SendPunch
    <3>5. CASE packets'[p] # PunchCount
      BY <2>6, <3>1, <3>2, <3>3, <3>5, BoundMove DEF SendPunch
    <3>6. QED BY <3>4, <3>5
  <2>7. QED BY <1>3, <2>1, <2>2, <2>3, <2>4, <2>5, <2>6 DEF Proceed
<1>4. ASSUME NEW p \in Peer, NEW q \in Peer, PunchHole(p, q) PROVE BoundInv'
  <2>1. packets'[p] = 0
    BY <1>4 DEF PunchHole, QuietInv
  <2>2. target'[p] = q
    BY <1>4 DEF PunchHole, TypeOK
  <2>3. MoveTo(p, "connected") \/ MoveTo(p, "failed") \/ MoveTo(p, "punch")
    BY <1>4, PunchHoleMoves
  <2>4. QED BY <1>4, <2>1, <2>2, <2>3, BoundMove DEF PunchHole, TypeOK
<1>5. CASE UNCHANGED vars
  BY <1>5 DEF vars, BoundInv
<1>6. QED BY <1>1, <1>3, <1>4, <1>5 DEF Next

LEMMA QuietInvNext == TypeOK /\ QuietInv /\ [Next]_vars => QuietInv'
<1> SUFFICES ASSUME TypeOK, QuietInv, [Next]_vars PROVE QuietInv'
  OBVIOUS
<1> USE DEF discovery, punching
\* Only a peer that punches sends packets, and no step leads back from there.
<1>1. ASSUME NEW p \in Peer, NEW place, MoveTo(p, place), UNCHANGED packets,
             pc[p] \notin {"idle", "try", "wait", "found"}
                => place \notin {"idle", "try", "wait", "found"}
      PROVE  QuietInv'
  BY <1>1 DEF QuietInv, MoveTo, TypeOK
<1>2. ASSUME NEW p \in Peer, StartDiscovery(p) PROVE QuietInv'
  BY <1>2, <1>1 DEF StartDiscovery
<1>3. ASSUME NEW p \in Peer, Proceed(p) PROVE QuietInv'
  <2>1. CASE Ask(p) \/ AskFails(p) \/ Timeout(p)
    BY <2>1, <1>1 DEF Ask, AskFails, Timeout, NextServer
  <2>2. CASE Receive(p)
    <3>1. PICK a \in Answer :
             \/ DetectorFinds(p, a)
             \/ DetectorPanics(p, a)
             \/ ClientFinds(p, a)
             \/ AnswerIsUseless(p, a)
      BY <2>2 DEF Receive
    <3>2. CASE DetectorFinds(p, a) \/ ClientFinds(p, a)
      BY <3>2, <1>1 DEF DetectorFinds, ClientFinds, Arrives, Understand, Found
    <3>3. CASE DetectorPanics(p, a) \/ AnswerIsUseless(p, a)
      BY <3>3, <1>1 DEF DetectorPanics, AnswerIsUseless, NextServer, Arrives
    <3>4. QED BY <3>1, <3>2, <3>3
  <2>3. CASE FallBack(p)
    BY <2>3, <1>1 DEF FallBack, Found
  <2>4. CASE PunchFails(p)
    BY <2>4, <1>1 DEF PunchFails
  <2>5. CASE SendPunch(p)
    BY <2>5 DEF SendPunch, MoveTo, QuietInv, TypeOK
  <2>6. QED BY <1>3, <2>1, <2>2, <2>3, <2>4, <2>5 DEF Proceed
<1>4. ASSUME NEW p \in Peer, NEW q \in Peer, PunchHole(p, q) PROVE QuietInv'
  BY <1>4, <1>1 DEF PunchHole
<1>5. CASE UNCHANGED vars
  BY <1>5 DEF vars, QuietInv
<1>6. QED BY <1>2, <1>3, <1>4, <1>5 DEF Next

BaseInv == TypeOK /\ QuietInv /\ BoundInv

LEMMA BaseInvariant == Spec => []BaseInv
<1>1. Init => BaseInv
  <2>1. Init => QuietInv /\ BoundInv
    BY DEF Init, QuietInv, BoundInv
  <2>2. QED BY <2>1, TypeOKInit DEF BaseInv
<1>2. BaseInv /\ [Next]_vars => BaseInv'
  BY TypeOKNext, QuietInvNext, BoundInvNext DEF BaseInv
<1>3. QED BY <1>1, <1>2, PTL DEF Spec

\* Every reachable state keeps its types, for any peers, servers and answers.
THEOREM Typing == Spec => []TypeOK
BY BaseInvariant, PTL DEF BaseInv

-----------------------------------------------------------------------------
(* What a peer has found *)

\* The information of p agrees with its address, and with whether a datagram
\* gave it.
Fits(p) ==
    /\ info[p].nat = "Open" => ~IsPrivate(bind[p])
    /\ Told(p) /\ ~answered[p] => info[p] = ByIp(bind[p])
    /\ Told(p) /\ answered[p] => info[p] = ByStun("shifted")
    /\ pc[p] \in {"idle", "try", "wait"} => ~answered[p]

FitInv == \A p \in Peer : Fits(p)

\* The end of a discovery of p, where e fits.
LEMMA FitsWhenFound ==
    ASSUME TypeOK, FitInv, NEW p \in Peer, NEW e, Found(p, e),
           \A r \in Peer \ {p} : answered'[r] = answered[r],
           e.nat = "Open" => ~IsPrivate(bind[p]),
           tool[p] = "detector" /\ ~answered'[p] => e = ByIp(bind[p]),
           tool[p] = "detector" /\ answered'[p] => e = ByStun("shifted")
    PROVE  FitInv'
<1>1. ASSUME NEW r \in Peer \ {p} PROVE Fits(r)'
  <2>1. pc'[r] = pc[r] /\ info'[r] = info[r]
    BY DEF Found, MoveTo, TypeOK
  <2>2. QED BY <2>1 DEF FitInv, Fits, Found, Told
<1>2. Fits(p)'
  <2>1. CASE Unparsable(p)
    <3>1. pc'[p] = "failed" /\ info'[p] = info[p]
      BY <2>1 DEF Found, MoveTo, TypeOK
    <3>2. QED BY <2>1, <3>1 DEF FitInv, Fits, Found, Told, Unparsable
  <2>2. CASE ~Unparsable(p)
    <3>1. info'[p] = e /\ pc'[p] = "found"
      BY <2>2 DEF Found, MoveTo, TypeOK
    <3>2. QED BY <3>1 DEF Fits, Found, Told
  <2>3. QED BY <2>1, <2>2
<1>3. QED BY <1>1, <1>2 DEF FitInv

\* A step that finds nothing, and after which no peer can tell what it could
\* not tell before.
LEMMA FitsWhenKept ==
    ASSUME TypeOK, FitInv, UNCHANGED discovery,
           \A p \in Peer : Told(p)' => Told(p),
           \A p \in Peer : pc'[p] \in {"idle", "try", "wait"}
                             => pc[p] \in {"idle", "try", "wait"}
    PROVE  FitInv'
BY DEF FitInv, Fits, discovery

LEMMA FitInvNext == TypeOK /\ FitInv /\ [Next]_vars => FitInv'
<1> SUFFICES ASSUME TypeOK, FitInv, [Next]_vars PROVE FitInv'
  OBVIOUS
<1>1. ASSUME NEW p \in Peer, NEW place, MoveTo(p, place), UNCHANGED discovery,
             place \in {"found", "punch", "connected", "failed"}
                => pc[p] \in {"found", "punch", "connected", "failed"},
             place \in {"idle", "try", "wait"} => pc[p] \in {"idle", "try", "wait"}
      PROVE  FitInv'
  BY <1>1, FitsWhenKept DEF MoveTo, Told, discovery, TypeOK
<1>2. ASSUME NEW p \in Peer, StartDiscovery(p) PROVE FitInv'
  BY <1>2, <1>1 DEF StartDiscovery
<1>3. ASSUME NEW p \in Peer, Proceed(p) PROVE FitInv'
  <2>1. CASE Ask(p) \/ AskFails(p) \/ Timeout(p)
    BY <2>1, <1>1 DEF Ask, AskFails, Timeout, NextServer
  <2>2. CASE Receive(p)
    <3>1. PICK a \in Answer :
             \/ DetectorFinds(p, a)
             \/ DetectorPanics(p, a)
             \/ ClientFinds(p, a)
             \/ AnswerIsUseless(p, a)
      BY <2>2 DEF Receive
    <3>2. CASE DetectorFinds(p, a)
      <4>1. ReadByDetector(a) = "shifted"
        BY <3>2, Readings DEF DetectorFinds
      <4>2. answered'[p] /\ \A r \in Peer \ {p} : answered'[r] = answered[r]
        BY <3>2 DEF DetectorFinds, Understand, TypeOK
      <4>3. ByStun("shifted").nat # "Open"
        BY DEF ByStun
      <4>4. Found(p, ByStun("shifted"))
        BY <3>2, <4>1 DEF DetectorFinds, Understand
      <4>5. QED BY <4>2, <4>3, <4>4, FitsWhenFound
    <3>3. CASE ClientFinds(p, a)
      <4> DEFINE e == [nat |-> "Unknown", endpoint |-> ReadByClient(a)]
      <4>1. \A r \in Peer \ {p} : answered'[r] = answered[r]
        BY <3>3 DEF ClientFinds, Understand, TypeOK
      <4>2. tool[p] # "detector" /\ e.nat # "Open"
        BY <3>3 DEF ClientFinds
      <4>3. Found(p, e)
        BY <3>3 DEF ClientFinds, Understand
      <4> HIDE DEF e
      <4>4. QED BY <4>1, <4>2, <4>3, FitsWhenFound
    <3>4. CASE DetectorPanics(p, a) \/ AnswerIsUseless(p, a)
      BY <3>4, <1>1 DEF DetectorPanics, AnswerIsUseless, NextServer, Arrives
    <3>5. QED BY <3>1, <3>2, <3>3, <3>4
  <2>3. CASE FallBack(p)
    <3> DEFINE e == IF tool[p] = "detector" THEN ByIp(bind[p]) ELSE NoInfo
    <3>1. e.nat = "Open" => ~IsPrivate(bind[p])
      BY Detections DEF TypeOK, NoInfo, Endpoint
    <3>2. ~answered[p] /\ UNCHANGED answered
      BY <2>3 DEF FallBack, FitInv, Fits
    <3>3. tool[p] = "detector" => e = ByIp(bind[p])
      OBVIOUS
    <3>4. Found(p, e)
      BY <2>3 DEF FallBack
    <3> HIDE DEF e
    <3>5. QED BY <3>1, <3>2, <3>3, <3>4, FitsWhenFound
  <2>4. CASE PunchFails(p)
    BY <2>4, <1>1 DEF PunchFails
  <2>5. CASE SendPunch(p)
    BY <2>5, <1>1 DEF SendPunch
  <2>6. QED BY <1>3, <2>1, <2>2, <2>3, <2>4, <2>5 DEF Proceed
<1>4. ASSUME NEW p \in Peer, NEW q \in Peer, PunchHole(p, q) PROVE FitInv'
  <2>1. MoveTo(p, "connected") \/ MoveTo(p, "failed") \/ MoveTo(p, "punch")
    BY <1>4, PunchHoleMoves
  <2>2. pc[p] = "found" /\ UNCHANGED discovery
    BY <1>4 DEF PunchHole
  <2>3. QED BY <2>1, <2>2, <1>1
<1>5. CASE UNCHANGED vars
  BY <1>5, FitsWhenKept DEF vars, Told, discovery
<1>6. QED BY <1>2, <1>3, <1>4, <1>5 DEF Next

LEMMA FitInvariant == Spec => [](BaseInv /\ FitInv)
<1>1. Init => FitInv
  BY DEF Init, FitInv, Fits, Told, NoInfo
<1>2. BaseInv /\ FitInv /\ [Next]_vars => FitInv'
  BY FitInvNext DEF BaseInv
<1>3. QED BY <1>1, <1>2, BaseInvariant, PTL DEF Spec

\* For any number of servers and datagrams of any length, no datagram makes a
\* peer with a private or loopback address Open.
THEOREM PrivatePeersAreNeverOpen == Spec => []PrivateIsNeverOpen
<1>1. FitInv => PrivateIsNeverOpen
  BY DEF FitInv, Fits, PrivateIsNeverOpen, IsPrivate
<1>2. QED BY <1>1, FitInvariant, PTL

-----------------------------------------------------------------------------
(* Agreement *)

\* What a peer was called with is still what the other one says.
AgreeInv ==
    \A p \in Peer : target[p] # NoPeer =>
        /\ Told(target[p])
        /\ strategy[p] = DetermineStrategy(ByIp(bind[p]).nat, info[target[p]].nat)

\* A peer that can tell what it found keeps it.
LEMMA ToldStays ==
    ASSUME TypeOK, Next, NEW q \in Peer, Told(q)
    PROVE  Told(q)' /\ info'[q] = info[q] /\ UNCHANGED bind
<1> USE DEF discovery, punching
<1>1. ASSUME NEW p \in Peer, NEW place, MoveTo(p, place), UNCHANGED discovery,
             pc[p] \in {"found", "punch", "connected", "failed"}
                => place \in {"found", "punch", "connected", "failed"}
      PROVE  Told(q)' /\ info'[q] = info[q] /\ UNCHANGED bind
  BY <1>1 DEF MoveTo, Told, TypeOK
<1>2. ASSUME NEW p \in Peer, StartDiscovery(p)
      PROVE  Told(q)' /\ info'[q] = info[q] /\ UNCHANGED bind
  BY <1>2, <1>1 DEF StartDiscovery
<1>3. ASSUME NEW p \in Peer, Proceed(p)
      PROVE  Told(q)' /\ info'[q] = info[q] /\ UNCHANGED bind
  <2>1. CASE Ask(p) \/ AskFails(p) \/ Timeout(p)
    BY <2>1, <1>1 DEF Ask, AskFails, Timeout, NextServer
  \* Who finds something could not tell anything before.
  <2>2. ASSUME NEW e, Found(p, e), pc[p] \in {"try", "wait"}
        PROVE  Told(q)' /\ info'[q] = info[q] /\ UNCHANGED bind
    <3>1. p # q
      BY <2>2 DEF Told
    <3>2. pc'[q] = pc[q] /\ info'[q] = info[q]
      BY <2>2, <3>1 DEF Found, MoveTo, TypeOK
    <3>3. QED BY <2>2, <3>2 DEF Found, Told
  <2>3. CASE Receive(p)
    <3>1. PICK a \in Answer :
             \/ DetectorFinds(p, a)
             \/ DetectorPanics(p, a)
             \/ ClientFinds(p, a)
             \/ AnswerIsUseless(p, a)
      BY <2>3 DEF Receive
    <3>2. CASE DetectorFinds(p, a) \/ ClientFinds(p, a)
      BY <3>2, <2>2 DEF DetectorFinds, ClientFinds, Arrives, Understand
    <3>3. CASE DetectorPanics(p, a) \/ AnswerIsUseless(p, a)
      BY <3>3, <1>1 DEF DetectorPanics, AnswerIsUseless, NextServer, Arrives
    <3>4. QED BY <3>1, <3>2, <3>3
  <2>4. CASE FallBack(p)
    BY <2>4, <2>2 DEF FallBack
  <2>5. CASE PunchFails(p)
    BY <2>5, <1>1 DEF PunchFails
  <2>6. CASE SendPunch(p)
    BY <2>6, <1>1 DEF SendPunch
  <2>7. QED BY <1>3, <2>1, <2>3, <2>4, <2>5, <2>6 DEF Proceed
<1>4. ASSUME NEW p \in Peer, NEW r \in Peer, PunchHole(p, r)
      PROVE  Told(q)' /\ info'[q] = info[q] /\ UNCHANGED bind
  <2>1. MoveTo(p, "connected") \/ MoveTo(p, "failed") \/ MoveTo(p, "punch")
    BY <1>4, PunchHoleMoves
  <2>2. UNCHANGED discovery
    BY <1>4 DEF PunchHole
  <2>3. QED BY <2>1, <2>2, <1>1
<1>5. QED BY <1>2, <1>3, <1>4 DEF Next

LEMMA AgreeInvNext == TypeOK /\ AgreeInv /\ [Next]_vars => AgreeInv'
<1> SUFFICES ASSUME TypeOK, AgreeInv, [Next]_vars PROVE AgreeInv'
  OBVIOUS
<1>1. CASE UNCHANGED vars
  BY <1>1 DEF vars, AgreeInv, Told
\* A pairing that stays keeps what it was made with.
<1>2. ASSUME Next, NEW p \in Peer, target[p] # NoPeer, target'[p] = target[p],
             strategy'[p] = strategy[p]
      PROVE  /\ Told(target[p])' /\ target[p]' = target[p]
             /\ strategy'[p] = DetermineStrategy(ByIp(bind[p]).nat,
                                                 info[target[p]].nat)'
  <2>1. target[p] \in Peer /\ Told(target[p])
    BY <1>2 DEF TypeOK, AgreeInv
  <2>2. PICK q \in Peer : q = target[p]
    BY <2>1
  <2>3. Told(q)' /\ info'[q] = info[q] /\ bind' = bind
    BY <1>2, <2>1, <2>2, ToldStays
  <2>4. strategy[p] = DetermineStrategy(ByIp(bind[p]).nat, info[q].nat)
    BY <1>2, <2>2 DEF AgreeInv
  <2>5. target'[p] = q
    BY <1>2, <2>2
  <2>6. QED BY <1>2, <2>2, <2>3, <2>4, <2>5 DEF Told, DetermineStrategy, ByIp, IsPrivate
<1>3. CASE Next /\ UNCHANGED <<target, strategy>>
  BY <1>2, <1>3 DEF AgreeInv
<1>4. ASSUME NEW p \in Peer, NEW q \in Peer, PunchHole(p, q) PROVE AgreeInv'
  <2>1. Next
    BY <1>4 DEF Next
  <2>2. Told(q)' /\ info'[q] = info[q] /\ bind' = bind
    BY <1>4, <2>1, ToldStays DEF PunchHole
  <2>3. target'[p] = q
        /\ strategy'[p] = DetermineStrategy(ByIp(bind[p]).nat, info[q].nat)
    BY <1>4 DEF PunchHole, DetectAgain, TypeOK
  <2>4. \A r \in Peer \ {p} : target'[r] = target[r] /\ strategy'[r] = strategy[r]
    BY <1>4 DEF PunchHole, TypeOK
  <2>5. ASSUME NEW r \in Peer, target'[r] # NoPeer
        PROVE  /\ Told(target[r])'
               /\ strategy'[r] = DetermineStrategy(ByIp(bind[r]).nat,
                                                   info[target[r]].nat)'
    <3>1. CASE r = p
      BY <2>2, <2>3, <3>1 DEF Told, DetermineStrategy, ByIp, IsPrivate
    <3>2. CASE r # p
      BY <2>1, <2>4, <2>5, <3>2, <1>2
    <3>3. QED BY <3>1, <3>2
  <2>6. QED BY <2>5 DEF AgreeInv
<1>5. Next /\ ~(\E p, q \in Peer : PunchHole(p, q)) => UNCHANGED <<target, strategy>>
  BY DEF Next, StartDiscovery, Proceed, Ask, AskFails, Timeout, NextServer, Receive,
         DetectorFinds, DetectorPanics, ClientFinds, AnswerIsUseless, Understand, Found,
         FallBack, PunchFails, SendPunch, punching
<1>6. QED BY <1>1, <1>3, <1>4, <1>5

\* What p is told of q and what it detects itself decide the strategy: the one
\* is Open or Unknown by the address of p, the other depends on a datagram too.
LEMMA Strategies ==
    ASSUME BaseInv, FitInv, AgreeInv, NEW p \in Peer, NEW q \in Peer, target[p] = q
    PROVE  /\ IsPrivate(bind[p]) /\ (IsPrivate(bind[q]) \/ answered[q])
                 => strategy[p] = "HolePunch"
           /\ ~IsPrivate(bind[p]) \/ (~IsPrivate(bind[q]) /\ ~answered[q])
                 => strategy[p] = "Direct"
<1>1. Told(q) /\ strategy[p] = DetermineStrategy(ByIp(bind[p]).nat, info[q].nat)
  BY TraversalAssumption DEF AgreeInv
<1>2. /\ ~answered[q] => info[q] = ByIp(bind[q])
      /\ answered[q] => info[q] = ByStun("shifted")
  BY <1>1 DEF FitInv, Fits
<1>3. answered[q] \in BOOLEAN
  BY DEF BaseInv, TypeOK
<1>4. QED BY <1>1, <1>2, <1>3 DEF DetermineStrategy, ByIp, ByStun

LEMMA AgreeInvariant == Spec => [](BaseInv /\ FitInv /\ AgreeInv)
<1>1. Init => AgreeInv
  BY DEF Init, AgreeInv
<1>2. BaseInv /\ AgreeInv /\ [Next]_vars => AgreeInv'
  BY AgreeInvNext DEF BaseInv
<1>3. QED BY <1>1, <1>2, FitInvariant, PTL DEF Spec

LEMMA SameUnlessHidden ==
    BaseInv /\ FitInv /\ AgreeInv => StrategiesAgree
<1> SUFFICES ASSUME BaseInv, FitInv, AgreeInv, NEW p \in Peer, NEW q \in Peer,
                    target[p] = q, target[q] = p, ~Hides(p, q), ~Hides(q, p)
             PROVE  strategy[p] = strategy[q]
  BY DEF StrategiesAgree
<1>1. CASE IsPrivate(bind[p]) /\ IsPrivate(bind[q])
  BY <1>1, Strategies
<1>2. CASE ~IsPrivate(bind[p]) /\ ~IsPrivate(bind[q])
  BY <1>2, Strategies
<1>3. CASE IsPrivate(bind[p]) /\ ~IsPrivate(bind[q])
  BY <1>3, Strategies DEF Hides
<1>4. CASE ~IsPrivate(bind[p]) /\ IsPrivate(bind[q])
  BY <1>4, Strategies DEF Hides
<1>5. QED BY <1>1, <1>2, <1>3, <1>4

\* For any number of peers, whatever their addresses and whatever datagrams they
\* took, two that punch for each other take the same strategy, unless one of
\* them hides its public address behind what a datagram said.
THEOREM PeersAgree == Spec => []StrategiesAgree
BY SameUnlessHidden, AgreeInvariant, PTL

-----------------------------------------------------------------------------
(* Discoveries and punches use up what they may still do *)

Advances(p) ==
    InProgress(p) /\ Position(p)' # Position(p)
    => StepsLeft(p)' < StepsLeft(p)

\* The count of what is left is never spent before the peer is done.
SomethingIsLeft ==
    \A p \in Peer : StepsLeft(p) \in Nat /\ (InProgress(p) => StepsLeft(p) > 0)

LEMMA StepsAreCounted ==
    ASSUME BaseInv, NEW p \in Peer
    PROVE  /\ StepsLeft(p) \in Nat
           /\ InProgress(p) => StepsLeft(p) > 0
<1>1. /\ at[p] \in 0..NumServers + 1 /\ packets[p] \in 0..PunchCount
      /\ NumServers \in Nat /\ PunchCount \in Nat /\ PunchCount > 0
  BY TraversalAssumption DEF BaseInv, TypeOK
<1>2. CASE pc[p] = "try"
  BY <1>1, <1>2 DEF StepsLeft
<1>3. CASE pc[p] = "wait"
  <2>1. at[p] <= NumServers
    BY <1>1, <1>3 DEF BaseInv, BoundInv
  <2>2. QED BY <1>1, <1>3, <2>1 DEF StepsLeft
<1>4. CASE pc[p] = "punch"
  <2>1. packets[p] < PunchCount
    BY <1>4 DEF BaseInv, BoundInv
  <2>2. QED BY <1>1, <1>4, <2>1 DEF StepsLeft
<1>5. CASE ~InProgress(p)
  BY <1>5 DEF StepsLeft, InProgress
<1>6. QED BY <1>2, <1>3, <1>4, <1>5 DEF InProgress

\* A step that ends the discovery or the punch uses up all that is left.
LEMMA EndsAdvance ==
    ASSUME BaseInv, NEW p \in Peer, NEW place, MoveTo(p, place),
           place \notin {"try", "wait", "punch"}
    PROVE  Advances(p)
<1>1. pc'[p] = place
  BY DEF MoveTo, BaseInv, TypeOK
<1>2. StepsLeft(p)' = 0
  BY <1>1 DEF StepsLeft
<1>3. QED BY <1>2, StepsAreCounted DEF Advances

\* One that goes on to the next server has one server fewer to ask.
LEMMA NextServerAdvances ==
    ASSUME BaseInv, NEW p \in Peer, pc[p] \in {"try", "wait"}, MoveTo(p, "try"),
           at' = [at EXCEPT ![p] = @ + 1]
    PROVE  Advances(p)
<1>1. /\ at[p] \in 0..NumServers + 1 /\ NumServers \in Nat
      /\ pc'[p] = "try" /\ at'[p] = at[p] + 1
  BY TraversalAssumption DEF MoveTo, BaseInv, TypeOK
<1>2. /\ StepsLeft(p)' = 2 * (NumServers - at[p]) + 1
      /\ pc[p] = "try" => StepsLeft(p) = 2 * (NumServers + 1 - at[p]) + 1
      /\ pc[p] = "wait" => StepsLeft(p) = 2 * (NumServers + 1 - at[p])
  BY <1>1 DEF StepsLeft
<1>3. QED BY <1>1, <1>2 DEF Advances

\* What the others do leaves a peer where it is.
LEMMA OthersStay ==
    ASSUME BaseInv, NEW r \in Peer, NEW p \in Peer \ {r},
           StartDiscovery(r) \/ Proceed(r) \/ \E q \in Peer : PunchHole(r, q)
    PROVE  Position(p)' = Position(p)
<1> USE DEF discovery, punching, Position, MoveTo, BaseInv, TypeOK
<1>1. CASE StartDiscovery(r)
  BY <1>1 DEF StartDiscovery
<1>2. CASE Ask(r) \/ AskFails(r) \/ Timeout(r)
  BY <1>2 DEF Ask, AskFails, Timeout, NextServer
<1>3. CASE Receive(r)
  <2>1. PICK a \in Answer :
           \/ DetectorFinds(r, a)
           \/ DetectorPanics(r, a)
           \/ ClientFinds(r, a)
           \/ AnswerIsUseless(r, a)
    BY <1>3 DEF Receive
  <2>2. CASE DetectorFinds(r, a) \/ ClientFinds(r, a)
    BY <2>2 DEF DetectorFinds, ClientFinds, Understand, Found, Close
  <2>3. CASE DetectorPanics(r, a) \/ AnswerIsUseless(r, a)
    BY <2>3 DEF DetectorPanics, AnswerIsUseless, NextServer, Close
  <2>4. QED BY <2>1, <2>2, <2>3
<1>4. CASE FallBack(r)
  BY <1>4 DEF FallBack, Found, Close
<1>5. CASE PunchFails(r) \/ SendPunch(r)
  BY <1>5 DEF PunchFails, SendPunch
<1>6. CASE \E q \in Peer : PunchHole(r, q)
  BY <1>6 DEF PunchHole
<1>7. QED BY <1>1, <1>2, <1>3, <1>4, <1>5, <1>6 DEF Proceed

LEMMA ProceedAdvances ==
    ASSUME BaseInv, NEW p \in Peer, Proceed(p)
    PROVE  Advances(p)
<1> USE DEF discovery, punching
<1>1. CASE Ask(p)
  <2>1. /\ at[p] \in 0..NumServers + 1 /\ NumServers \in Nat
        /\ pc[p] = "try" /\ pc'[p] = "wait" /\ at'[p] = at[p]
    BY <1>1, TraversalAssumption DEF Ask, MoveTo, BaseInv, TypeOK
  <2>2. /\ StepsLeft(p) = 2 * (NumServers + 1 - at[p]) + 1
        /\ StepsLeft(p)' = 2 * (NumServers + 1 - at[p])
    BY <2>1 DEF StepsLeft
  <2>3. QED BY <2>1, <2>2 DEF Advances
<1>2. CASE AskFails(p) \/ Timeout(p)
  BY <1>2, NextServerAdvances DEF AskFails, Timeout, NextServer
<1>3. CASE Receive(p)
  <2>1. PICK a \in Answer :
           \/ DetectorFinds(p, a)
           \/ DetectorPanics(p, a)
           \/ ClientFinds(p, a)
           \/ AnswerIsUseless(p, a)
    BY <1>3 DEF Receive
  <2>2. CASE DetectorFinds(p, a) \/ ClientFinds(p, a)
    BY <2>2, EndsAdvance DEF DetectorFinds, ClientFinds, Understand, Found
  <2>3. CASE DetectorPanics(p, a)
    BY <2>3, EndsAdvance DEF DetectorPanics
  <2>4. CASE AnswerIsUseless(p, a)
    BY <2>4, NextServerAdvances DEF AnswerIsUseless, NextServer, Arrives
  <2>5. QED BY <2>1, <2>2, <2>3, <2>4
<1>4. CASE FallBack(p)
  BY <1>4, EndsAdvance DEF FallBack, Found
<1>5. CASE PunchFails(p)
  BY <1>5, EndsAdvance DEF PunchFails
<1>6. CASE SendPunch(p)
  <2>1. /\ packets[p] \in Nat /\ PunchCount \in Nat
        /\ pc[p] = "punch" /\ packets'[p] = packets[p] + 1
    BY <1>6, TraversalAssumption DEF SendPunch, BaseInv, TypeOK
  <2>2. CASE packets'[p] = PunchCount
    BY <1>6, <2>2, EndsAdvance DEF SendPunch
  <2>3. CASE packets'[p] # PunchCount
    <3>1. pc'[p] = "punch"
      BY <1>6, <2>3 DEF SendPunch, MoveTo, BaseInv, TypeOK
    <3>2. /\ StepsLeft(p) = PunchCount - packets[p]
          /\ StepsLeft(p)' = PunchCount - (packets[p] + 1)
      BY <2>1, <3>1 DEF StepsLeft
    <3>3. QED BY <2>1, <3>2 DEF Advances
  <2>4. QED BY <2>2, <2>3
<1>7. QED BY <1>1, <1>2, <1>3, <1>4, <1>5, <1>6 DEF Proceed

\* For any number of servers and packets, and whatever datagrams come or do not
\* come, each step of a discovery or a punch leaves it fewer to take: none
\* asks a server again or waits for it twice.  The number starts at two per
\* server and one, and a peer in progress has at least one left.
THEOREM AttemptsComeToAnEnd ==
    Spec => AttemptsAreUsedUp /\ []SomethingIsLeft
<1>1. BaseInv => SomethingIsLeft
  BY StepsAreCounted DEF SomethingIsLeft
<1>2. BaseInv /\ [Next]_vars => \A p \in Peer : Advances(p)
  <2> SUFFICES ASSUME BaseInv, [Next]_vars, NEW p \in Peer PROVE Advances(p)
    OBVIOUS
  <2>1. CASE Position(p)' = Position(p)
    BY <2>1 DEF Advances
  <2>2. CASE ~InProgress(p)
    BY <2>2 DEF Advances
  <2>3. CASE InProgress(p) /\ Position(p)' # Position(p)
    <3>1. Proceed(p)
      <4>1. PICK r \in Peer :
               \/ StartDiscovery(r) \/ Proceed(r)
               \/ \E q \in Peer : PunchHole(r, q)
        BY <2>3 DEF Next, vars, Position
      <4>2. r = p
        BY <2>3, <4>1, OthersStay
      <4>3. QED
        BY <2>3, <4>1, <4>2 DEF InProgress, StartDiscovery, PunchHole
    <3>2. QED BY <3>1, ProceedAdvances
  <2>4. QED BY <2>1, <2>2, <2>3
<1>3. Spec => []BaseInv /\ [][\A p \in Peer : Advances(p)]_vars
  BY <1>2, BaseInvariant, PTL DEF Spec
<1>4. Spec => AttemptsAreUsedUp
  BY <1>3, PTL DEF AttemptsAreUsedUp, Advances
<1>5. QED BY <1>1, <1>3, <1>4, PTL

Punched(p) ==
    \/ pc[p] = "punch" /\ packets[p] > 0
    \/ pc[p] = "connected" /\ strategy[p] = "HolePunch"

\* A discovery has begun with a server, and a punch that has sent a packet has
\* read an endpoint that parses.
StartedInv ==
    \A p \in Peer :
        /\ pc[p] = "try" => at[p] > 0
        /\ Punched(p) => target[p] \in Peer /\ info[target[p]].endpoint # "shifted"

LEMMA StartedInvNext == BaseInv /\ AgreeInv /\ StartedInv /\ [Next]_vars => StartedInv'
<1> SUFFICES ASSUME BaseInv, AgreeInv, StartedInv, [Next]_vars PROVE StartedInv'
  OBVIOUS
<1>t. TypeOK
  BY DEF BaseInv
<1>1. CASE UNCHANGED vars
  BY <1>1 DEF vars, StartedInv, Punched
<1>2. ASSUME Next, NEW p \in Peer
      PROVE  /\ pc'[p] = "try" => at'[p] > 0
             /\ Punched(p)' => target'[p] \in Peer
                               /\ info'[target'[p]].endpoint # "shifted"
  \* Whom it punches for has found its endpoint for good.
  <2>1. CASE Position(p)' = Position(p)
    <3>1. /\ pc'[p] = pc[p] /\ at'[p] = at[p] /\ packets'[p] = packets[p]
      BY <2>1 DEF Position
    <3>2. target'[p] = target[p] /\ strategy'[p] = strategy[p]
      <4>1. ASSUME NEW r \in Peer, NEW q \in Peer, PunchHole(r, q)
            PROVE  target'[p] = target[p] /\ strategy'[p] = strategy[p]
        <5>1. pc[r] = "found"
          BY <4>1 DEF PunchHole
        <5>2. pc'[r] # "found"
          BY <1>t, <4>1, PunchHoleMoves DEF MoveTo, TypeOK
        <5>3. r # p
          BY <3>1, <5>1, <5>2
        <5>4. QED BY <1>t, <4>1, <5>3 DEF PunchHole, TypeOK
      <4>2. Next /\ ~(\E r, q \in Peer : PunchHole(r, q))
               => UNCHANGED <<target, strategy>>
        BY DEF Next, StartDiscovery, Proceed, Ask, AskFails, Timeout, NextServer,
               Receive, DetectorFinds, DetectorPanics, ClientFinds,
               AnswerIsUseless, Understand, Found, FallBack, PunchFails,
               SendPunch, punching
      <4>3. QED BY <1>2, <4>1, <4>2
    <3>3. CASE ~Punched(p)
      BY <3>1, <3>2, <3>3 DEF Punched, StartedInv
    <3>4. CASE Punched(p)
      <4>1. PICK q \in Peer : q = target[p]
        BY <3>4 DEF StartedInv
      <4>2. Told(q)
        BY <4>1, TraversalAssumption DEF AgreeInv
      <4>3. info'[q] = info[q]
        BY <1>2, <1>t, <4>2, ToldStays
      <4>4. QED BY <3>1, <3>2, <3>4, <4>1, <4>3 DEF StartedInv
    <3>5. QED BY <3>3, <3>4
  <2>2. CASE Position(p)' # Position(p)
    <3>1. PICK r \in Peer :
             \/ StartDiscovery(r) \/ Proceed(r)
             \/ \E q \in Peer : PunchHole(r, q)
      BY <1>2, <2>2 DEF Next
    <3>2. r = p
      BY <2>2, <3>1, OthersStay
    <3>3. CASE StartDiscovery(p)
      BY <1>t, <3>3 DEF StartDiscovery, MoveTo, Punched, TypeOK
    <3>4. CASE \E q \in Peer : PunchHole(p, q)
      <4>1. pc'[p] # "try"
        BY <1>t, <3>4, PunchHoleMoves DEF MoveTo, TypeOK
      <4>2. packets'[p] = 0
        BY <3>4 DEF PunchHole, BaseInv, QuietInv
      <4>3. pc'[p] = "connected" => strategy'[p] # "HolePunch"
        BY <1>t, <3>4 DEF PunchHole, MoveTo, TypeOK
      <4>4. QED BY <4>1, <4>2, <4>3 DEF Punched
    <3>5. CASE Proceed(p) /\ pc[p] # "punch"
      <4>1. /\ pc'[p] \notin {"punch", "connected"}
            /\ pc'[p] = "try" => at'[p] = at[p] + 1
        <5>1. CASE Ask(p) \/ AskFails(p) \/ Timeout(p)
          BY <1>t, <5>1 DEF Ask, AskFails, Timeout, NextServer, MoveTo, TypeOK
        <5>2. CASE Receive(p) \/ FallBack(p)
          BY <1>t, <5>2
             DEF Receive, DetectorFinds, DetectorPanics, ClientFinds,
                 AnswerIsUseless, NextServer, FallBack, Understand, Found, MoveTo,
                 TypeOK
        <5>3. QED BY <3>5, <5>1, <5>2 DEF Proceed, PunchFails, SendPunch
      <4>2. at[p] \in 0..NumServers + 1 /\ NumServers \in Nat
        BY <1>t, TraversalAssumption DEF TypeOK
      <4>3. QED BY <4>1, <4>2 DEF Punched
    <3>6. CASE Proceed(p) /\ pc[p] = "punch"
      <4>1. PunchFails(p) \/ SendPunch(p)
        BY <3>6 DEF Proceed, Ask, AskFails, Timeout, Receive, DetectorFinds,
                    DetectorPanics, ClientFinds, AnswerIsUseless, Arrives, FallBack
      <4>2. pc'[p] # "try"
        BY <1>t, <4>1 DEF PunchFails, SendPunch, MoveTo, TypeOK
      <4>3. CASE PunchFails(p)
        BY <1>t, <4>3 DEF PunchFails, MoveTo, Punched, TypeOK
      <4>4. CASE SendPunch(p)
        <5>1. target[p] \in Peer
          BY <3>6 DEF BaseInv, BoundInv
        <5>2. QED BY <4>2, <4>4, <5>1 DEF SendPunch, discovery
      <4>5. QED BY <4>1, <4>3, <4>4
    <3>7. QED BY <3>1, <3>2, <3>3, <3>4, <3>5, <3>6
  <2>3. QED BY <2>1, <2>2
<1>3. QED BY <1>1, <1>2 DEF StartedInv

LEMMA StartedInvariant == Spec => [](BaseInv /\ FitInv /\ AgreeInv /\ StartedInv)
<1>1. Init => StartedInv
  BY DEF Init, StartedInv, Punched
<1>2. QED BY <1>1, StartedInvNext, AgreeInvariant, PTL DEF Spec

\* For any number of peers, two of which each takes itself for connected to the
\* other have taken the same strategy, whatever datagrams they took: who is told
\* of three octets and would punch for them never sends a packet.
THEOREM ConnectedPeersDidTheSame == Spec => []ConnectedPeersAgree
<1>1. BaseInv /\ FitInv /\ AgreeInv /\ StartedInv => ConnectedPeersAgree
  <2> SUFFICES ASSUME BaseInv, FitInv, AgreeInv, StartedInv,
                      NEW p \in Peer, NEW q \in Peer,
                      target[p] = q, target[q] = p,
                      pc[p] = "connected", pc[q] = "connected"
               PROVE  strategy[p] = strategy[q]
    BY DEF ConnectedPeersAgree
  <2>1. ASSUME NEW r \in Peer, NEW o \in Peer, target[r] = o, answered[o],
               pc[r] = "connected"
        PROVE  strategy[r] # "HolePunch"
    <3>1. info[o] = ByStun("shifted")
      BY <2>1, TraversalAssumption DEF FitInv, Fits, AgreeInv
    <3>2. info[o].endpoint = "shifted"
      BY <3>1 DEF ByStun
    <3>3. QED BY <2>1, <3>2 DEF StartedInv, Punched
  <2>2. CASE Hides(p, q)
    BY <2>1, <2>2, Strategies DEF Hides
  <2>3. CASE Hides(q, p)
    BY <2>1, <2>3, Strategies DEF Hides
  <2>4. CASE ~Hides(p, q) /\ ~Hides(q, p)
    BY <2>4, SameUnlessHidden DEF StrategiesAgree
  <2>5. QED BY <2>2, <2>3, <2>4
<1>2. QED BY <1>1, StartedInvariant, PTL

\* The guards of what a peer in progress may do without any answer: go on to
\* the next server, fall back, give the punch up or send a packet.
CanGoOn ==
    \A p \in Peer : InProgress(p) =>
        \/ pc[p] = "try" /\ (at[p] \in 1..NumServers \/ at[p] > NumServers)
        \/ pc[p] = "wait"
        \/ pc[p] = "punch"
              /\ (packets[p] = 0 \/ info[target[p]].endpoint # "shifted")

\* No peer is ever stuck in a discovery or a punch: whatever answers it waits
\* for and whatever the other peers do, one of its own steps is open to it that
\* needs neither.  In particular a punch that has begun never finds out later
\* that the other's endpoint does not parse.
THEOREM NobodyIsStuck == Spec => []CanGoOn
<1>1. BaseInv /\ StartedInv => CanGoOn
  <2> SUFFICES ASSUME BaseInv, StartedInv, NEW p \in Peer, InProgress(p)
               PROVE  \/ pc[p] = "try"
                            /\ (at[p] \in 1..NumServers \/ at[p] > NumServers)
                      \/ pc[p] = "wait"
                      \/ pc[p] = "punch"
                            /\ (packets[p] = 0
                                  \/ info[target[p]].endpoint # "shifted")
    BY DEF CanGoOn
  <2>1. /\ at[p] \in 0..NumServers + 1 /\ packets[p] \in 0..PunchCount
        /\ NumServers \in Nat /\ PunchCount \in Nat
    BY TraversalAssumption DEF BaseInv, TypeOK
  <2>2. QED BY <2>1 DEF InProgress, StartedInv, Punched
<1>2. QED BY <1>1, StartedInvariant, PTL
=============================================================================
