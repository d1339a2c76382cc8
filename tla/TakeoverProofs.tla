---------------------------- MODULE TakeoverProofs ----------------------------
(***************************************************************************)
(* How long a cluster of any size goes without a leader, and how long with *)
(* two that believe to lead.                                               *)
(***************************************************************************)
EXTENDS Takeover, ClusterProofs

\* The least that TakeoverBound may be: the lease runs out on the slowest
\* clock, and the round that sees it is up to one interval away and late.
BoundCoversTakeover ==
    /\ TakeoverBound \in Nat
    /\ LeaderTimeout + HeartbeatInterval + MaxDelay + MaxSkew <= TakeoverBound

\* The true time at which the lease of the dead leader has run out on the
\* clock of s.
SeenExpired(s) == vacancy.since + MaxSkew + LeaderTimeout - Skew[s]

\* The due time of the last round that s has completed, if it began before
\* the lease ran out.
LastRound(s) ==
    IF pc[s] = "idle" THEN due[s] - HeartbeatInterval
    ELSE due[s] - HeartbeatInterval - HeartbeatInterval

\* A round is not due before it begins, nor the next by more than an interval.
DueInv ==
    \A s \in Running : LastRound(s) <= now

\* The time of the last failure that left a doubt, or an earlier one if it is
\* long ago.
LastFault == now - calm

WatchTypeOK ==
    /\ vacancy \in [since : Nat, standby : SUBSET Server]
    /\ vacancy.standby \subseteq Running
    /\ calm \in 0..(HealBound + 1)

\* While a vacancy lasts the row is as the dead leader left it, and no round
\* of a server that is watched has ended with an expired lease.
VacancyInv ==
    vacancy.standby # {} =>
        /\ clusterState.last_heartbeat <= vacancy.since + MaxSkew
        /\ \A s \in vacancy.standby : LastRound(s) <= SeenExpired(s)

LEMMA WatchingIsHarmless == WatchSpec => Spec
<1>1. WatchInit => Init
  BY DEF WatchInit
<1>2. [WatchNext]_watched => [Next]_vars
  BY DEF WatchNext, watched
<1>3. QED BY <1>1, <1>2, PTL DEF WatchSpec, Spec

-----------------------------------------------------------------------------
(* What a step does to a running server *)

\* A server writes no other server's variables.
LEMMA StepsOfOthers ==
    ASSUME TypeOK, NEW s \in Server, NEW t \in Server, ServerStep(t), t # s
    PROVE  /\ pc'[s] = pc[s] /\ due'[s] = due[s]
           /\ readAt'[s] = readAt[s] /\ isLeader'[s] = isLeader[s]
<1> USE DEF TypeOK
<1>1. CASE Start(t) \/ Heartbeat(t)
  BY <1>1
     DEF Start, Boot, RegisterServer, RegisterServerFails, Heartbeat, Tick,
         SendHeartbeat, SendHeartbeatFails, EndRound
<1>2. CASE Decide(t)
  BY <1>2
     DEF Decide, SeeVacancy, SeeSelf, SeeOther, ReadStateFails, MoveTo, EndRound
<1>3. CASE TryBecomeLeader(t)
  BY <1>3
     DEF TryBecomeLeader, ReadTerm, ReadTermFails, BecomeLeader,
         BecomeLeaderRefused, BecomeLeaderFails, MoveTo, EndRound
<1>4. CASE Renew(t) \/ SetFlag(t)
  BY <1>4
     DEF Renew, RenewLeadership, RenewLeadershipRefused, RenewLeadershipFails,
         SetFlag, RaiseFlag, DropFlag, MoveTo, EndRound
<1>5. CASE MarkServersUnhealthy(t) \/ Stop(t)
  BY <1>5 DEF MarkServersUnhealthy, Stop, Shutdown, ShutdownFails, Crash
<1>6. QED BY <1>1, <1>2, <1>3, <1>4, <1>5 DEF ServerStep

\* A step leaves the due time of a round alone, begins a round or ends one;
\* one that ends early has met an error.
LEMMA StepsOfRounds ==
    ASSUME TypeOK, [Next]_vars, NEW s \in Running, s \in Running'
    PROVE  \/ pc[s] = "idle" /\ pc'[s] = "idle" /\ due'[s] = due[s]
           \/ pc[s] # "idle" /\ pc'[s] # "idle" /\ due'[s] = due[s]
           \/ /\ pc[s] = "idle" /\ pc'[s] # "idle"
              /\ due'[s] = due[s] + HeartbeatInterval
           \/ /\ pc[s] # "idle" /\ pc'[s] = "idle"
              /\ due'[s] = due[s]
              /\ dbErrors' = dbErrors => pc[s] \in {"claim", "won", "lost"}
<1>t. /\ pc \in [Server -> Waiting \cup Body]
      /\ due \in [Server -> Nat]
      /\ dbErrors \in Nat
      /\ HeartbeatInterval \in Nat \ {0}
      /\ s \in Server
      /\ pc[s] \notin {"down", "boot"} /\ pc'[s] \notin {"down", "boot"}
  BY ClusterAssumption DEF TypeOK, Running
<1> USE <1>t DEF DbError, tables, budgets
<1>1. CASE AdvanceTime \/ UNCHANGED vars
  BY <1>1 DEF AdvanceTime, vars
<1>2. ASSUME NEW t \in Server, ServerStep(t), t # s
      PROVE  pc'[s] = pc[s] /\ due'[s] = due[s]
  BY <1>2, StepsOfOthers
<1>3. CASE Start(s)
  BY <1>3 DEF Start, Boot, RegisterServer, RegisterServerFails
<1>4. CASE Heartbeat(s)
  BY <1>4 DEF Heartbeat, Tick, SendHeartbeat, SendHeartbeatFails
<1>5. CASE Decide(s)
  BY <1>5 DEF Decide, SeeVacancy, SeeSelf, SeeOther, ReadStateFails, MoveTo
<1>6. CASE TryBecomeLeader(s)
  BY <1>6 DEF TryBecomeLeader, ReadTerm, ReadTermFails, BecomeLeader,
              BecomeLeaderRefused, BecomeLeaderFails, MoveTo, EndRound
<1>7. CASE Renew(s)
  BY <1>7 DEF Renew, RenewLeadership, RenewLeadershipRefused,
              RenewLeadershipFails, MoveTo
<1>8. CASE SetFlag(s)
  BY <1>8 DEF SetFlag, RaiseFlag, DropFlag, EndRound
<1>9. CASE MarkServersUnhealthy(s) \/ Stop(s)
  BY <1>9 DEF MarkServersUnhealthy, Stop, Shutdown, ShutdownFails, Crash
<1>10. QED
  BY <1>1, <1>2, <1>3, <1>4, <1>5, <1>6, <1>7, <1>8, <1>9 DEF Next, ServerStep

\* A server that starts to run is due at once.
LEMMA NewlyRunning ==
    ASSUME TypeOK, [Next]_vars, NEW s \in Running', s \notin Running
    PROVE  pc'[s] = "idle" /\ due'[s] = now
<1>t. /\ pc \in [Server -> Waiting \cup Body]
      /\ due \in [Server -> Nat]
      /\ s \in Server
      /\ pc[s] \in {"down", "boot"} /\ pc'[s] \notin {"down", "boot"}
  BY DEF TypeOK, Running
<1>1. PICK t \in Server : ServerStep(t)
  BY <1>t DEF Next, AdvanceTime, vars
<1>2. CASE RegisterServer(t)
  BY <1>2, <1>t DEF RegisterServer, EndRound
<1>3. CASE Boot(t) \/ RegisterServerFails(t) \/ Heartbeat(t) \/ Decide(t)
  BY <1>3, <1>t
     DEF Boot, RegisterServerFails, Heartbeat, Tick, SendHeartbeat,
         SendHeartbeatFails, Decide, SeeVacancy, SeeSelf, SeeOther,
         ReadStateFails, MoveTo, EndRound
<1>4. CASE TryBecomeLeader(t) \/ Renew(t) \/ SetFlag(t)
  BY <1>4, <1>t
     DEF TryBecomeLeader, ReadTerm, ReadTermFails, BecomeLeader,
         BecomeLeaderRefused, BecomeLeaderFails, Renew, RenewLeadership,
         RenewLeadershipRefused, RenewLeadershipFails, SetFlag, RaiseFlag,
         DropFlag, MoveTo, EndRound
<1>5. CASE MarkServersUnhealthy(t) \/ Stop(t)
  BY <1>5, <1>t DEF MarkServersUnhealthy, Stop, Shutdown, ShutdownFails, Crash
<1>6. QED BY <1>1, <1>2, <1>3, <1>4, <1>5 DEF ServerStep, Start

\* Time and the count of errors only rise, and no server dies as time passes.
LEMMA TimeAndErrors ==
    ASSUME TypeOK, [Next]_vars
    PROVE  /\ now' = now \/ (now' = now + 1 /\ pc' = pc)
           /\ dbErrors' = 0 => dbErrors = 0
<1>t. dbErrors \in Nat
  BY ClusterAssumption DEF TypeOK
<1> USE DEF tables, budgets, DbError
<1>1. CASE AdvanceTime \/ UNCHANGED vars
  BY <1>1 DEF AdvanceTime, vars
<1>2. ASSUME NEW s \in Server, ServerStep(s)
      PROVE  now' = now /\ (dbErrors' = 0 => dbErrors = 0)
  <2>1. CASE Start(s) \/ Heartbeat(s) \/ Decide(s)
    BY <2>1, <1>t
       DEF Start, Boot, RegisterServer, RegisterServerFails, Heartbeat, Tick,
           SendHeartbeat, SendHeartbeatFails, Decide, SeeVacancy, SeeSelf,
           SeeOther, ReadStateFails
  <2>2. CASE TryBecomeLeader(s) \/ Renew(s) \/ SetFlag(s)
    BY <2>2, <1>t
       DEF TryBecomeLeader, ReadTerm, ReadTermFails, BecomeLeader,
           BecomeLeaderRefused, BecomeLeaderFails, Renew, RenewLeadership,
           RenewLeadershipRefused, RenewLeadershipFails, SetFlag, RaiseFlag,
           DropFlag
  <2>3. CASE MarkServersUnhealthy(s) \/ Stop(s)
    BY <2>3, <1>t
       DEF MarkServersUnhealthy, Stop, Shutdown, ShutdownFails, Crash
  <2>4. QED BY <1>2, <2>1, <2>2, <2>3 DEF ServerStep
<1>3. QED BY <1>1, <1>2 DEF Next

-----------------------------------------------------------------------------
(* The invariants *)

\* A round does not begin before it is due.
LEMMA RoundHasBegun ==
    ASSUME BaseInv, NEW s \in Running, pc[s] # "idle"
    PROVE  /\ due[s] - HeartbeatInterval <= readAt[s] - Skew[s]
           /\ due[s] - HeartbeatInterval <= now
<1>1. s \in Server /\ pc[s] \in Body
  BY DEF Running, BaseInv, TypeOK, Waiting, Body
<1>2. /\ due[s] - HeartbeatInterval <= readAt[s] - Skew[s]
      /\ readAt[s] <= now + Skew[s]
  BY <1>1 DEF BaseInv, TimeInv, Clock
<1>3. due[s] \in Nat /\ readAt[s] \in Nat /\ now \in Nat /\ Skew[s] \in Nat
  BY <1>1, ClusterAssumption DEF BaseInv, TypeOK
<1>4. QED BY <1>1, <1>2, <1>3, ClusterAssumption

LEMMA DueInvNext == BaseInv /\ DueInv /\ [Next]_vars => DueInv'
<1> SUFFICES ASSUME BaseInv, DueInv, [Next]_vars, NEW s \in Running'
             PROVE  LastRound(s)' <= now'
  BY DEF DueInv
<1>t. /\ s \in Server
      /\ due[s] \in Nat
      /\ now \in Nat
      /\ HeartbeatInterval \in Nat
      /\ TypeOK
  BY ClusterAssumption DEF BaseInv, TypeOK, Running
<1>n. now <= now'
  BY <1>t, TimeAndErrors
<1>1. CASE s \notin Running
  <2>1. pc'[s] = "idle" /\ due'[s] = now
    BY <1>1, <1>t, NewlyRunning
  <2>2. LastRound(s)' = now - HeartbeatInterval
    BY <2>1 DEF LastRound
  <2>3. now' \in Nat
    BY <1>t, TypeOKNext DEF TypeOK
  <2>4. QED BY <2>2, <2>3, <1>t, <1>n
<1>2. CASE s \in Running
  <2>1. LastRound(s) <= now
    BY <1>2 DEF DueInv
  <2>2. pc[s] # "idle" => due[s] - HeartbeatInterval <= now
    BY <1>2, RoundHasBegun
  <2>3. QED BY <1>2, <1>t, <1>n, <2>1, <2>2, StepsOfRounds, TypeOKNext
               DEF LastRound, TypeOK
<1>3. QED BY <1>1, <1>2

LEMMA WatchTypeOKNext ==
    TypeOK /\ WatchTypeOK /\ [WatchNext]_watched => WatchTypeOK'
<1> SUFFICES ASSUME TypeOK, WatchTypeOK, [WatchNext]_watched
             PROVE  WatchTypeOK'
  OBVIOUS
<1>1. CASE UNCHANGED watched
  BY <1>1 DEF watched, vars, WatchTypeOK, Running
<1>2. CASE WatchNext
  <2>1. /\ vacancy' \in [since : Nat, standby : SUBSET Server]
        /\ vacancy'.standby \subseteq Running'
    <3>1. /\ Running' \subseteq Server /\ now \in Nat
          /\ Undisturbed \subseteq Running'
      BY DEF Running, Undisturbed, TypeOK
    <3>2. QED BY <1>2, <3>1 DEF WatchNext, WatchLease, Watch, WatchTypeOK,
                              NoVacancy
  <2>2. calm' \in 0..(HealBound + 1)
    BY <1>2, ClusterAssumption DEF WatchNext, WatchFaults, WatchTypeOK, HealBound
  <2>3. QED BY <2>1, <2>2 DEF WatchTypeOK
<1>3. QED BY <1>1, <1>2

\* As long as there is a doubt, the time of the last failure only rises, and a
\* failure is the last one.
LEMMA FaultsPass ==
    ASSUME TypeOK, WatchTypeOK, [WatchNext]_watched, Doubt'
    PROVE  /\ LastFault \in Int /\ LastFault' \in Int
           /\ LastFault <= LastFault'
           /\ Fault => LastFault' = now'
<1>1. [Next]_vars
  BY DEF WatchNext, watched
<1>2. /\ now \in Nat /\ calm \in Nat
      /\ now' = now \/ now' = now + 1
  BY <1>1, TimeAndErrors, ClusterAssumption DEF TypeOK, WatchTypeOK, HealBound
<1>3. CASE UNCHANGED watched
  BY <1>2, <1>3 DEF watched, vars, LastFault, Fault
<1>4. CASE WatchFaults
  BY <1>2, <1>4, ClusterAssumption DEF WatchFaults, Fault, LastFault, HealBound
<1>5. QED BY <1>3, <1>4 DEF WatchNext

\* A vacancy opens: the lease is no newer than the clock of the server that
\* dies, and no round lies ahead of the time.
LEMMA VacancyOpens ==
    ASSUME BaseInv, DueInv, [Next]_vars, WatchTypeOK',
           UNCHANGED clusterState,
           NEW d \in Server, clusterState.leader_id = d, Up(d), ~Up(d)',
           vacancy' = Watch(now, Running')
    PROVE  VacancyInv'
<1>t. /\ now \in Nat
      /\ clusterState.last_heartbeat \in Nat
      /\ {MaxSkew, LeaderTimeout} \subseteq Nat
      /\ \A s \in Server : Skew[s] \in 0..MaxSkew
      /\ TypeOK
  BY ClusterAssumption DEF BaseInv, TypeOK
<1> SUFFICES ASSUME vacancy'.standby # {} PROVE VacancyInv'
  BY DEF VacancyInv
<1>w. vacancy' = [since |-> now, standby |-> Running']
  BY DEF Watch, NoVacancy
<1>1. now' = now
  BY <1>t, TimeAndErrors DEF Up
<1>2. clusterState'.last_heartbeat <= vacancy'.since + MaxSkew
  BY <1>t, <1>w DEF BaseInv, LeaseInv, Clock
<1>3. ASSUME NEW s \in Running' PROVE LastRound(s)' <= SeenExpired(s)'
  <2>1. s \in Server /\ LastRound(s)' <= now
    BY <1>1, <1>3, DueInvNext DEF DueInv, Running
  <2>2. LastRound(s)' \in Int
    BY <2>1, TypeOKNext, <1>t, ClusterAssumption DEF LastRound, TypeOK
  <2>3. SeenExpired(s)' = now + MaxSkew + LeaderTimeout - Skew[s]
    BY <1>w DEF SeenExpired
  <2>4. QED BY <2>1, <2>2, <2>3, <1>t
<1>4. QED BY <1>2, <1>3, <1>w DEF VacancyInv

\* A vacancy lasts: a watched server that ends a round has not seen the lease
\* expired.
LEMMA VacancyLasts ==
    ASSUME LoopWaitsForClaims, BaseInv, DecidedInv, WatchTypeOK, VacancyInv,
           [Next]_vars, UNCHANGED clusterState,
           vacancy' = Watch(vacancy.since, vacancy.standby \cap Undisturbed)
    PROVE  VacancyInv'
<1> SUFFICES ASSUME vacancy'.standby # {} PROVE VacancyInv'
  BY DEF VacancyInv
<1>1. /\ vacancy'.since = vacancy.since
      /\ vacancy'.standby = vacancy.standby \cap Undisturbed
      /\ vacancy.standby \subseteq Running
      /\ vacancy.since \in Nat
  BY DEF WatchTypeOK, Watch, NoVacancy
<1>2. /\ clusterState.last_heartbeat <= vacancy.since + MaxSkew
      /\ \A s \in vacancy.standby : LastRound(s) <= SeenExpired(s)
  BY <1>1 DEF VacancyInv
<1>3. ASSUME NEW s \in vacancy'.standby
      PROVE  LastRound(s)' <= SeenExpired(s)'
  <2>t. /\ s \in Server /\ s \in Running /\ s \in Running'
        /\ dbErrors' = dbErrors \/ pc'[s] = pc[s]
        /\ due[s] \in Nat /\ readAt[s] \in Nat
        /\ clusterState.last_heartbeat \in Nat
        /\ {HeartbeatInterval, MaxSkew, LeaderTimeout} \subseteq Nat
        /\ Skew[s] \in 0..MaxSkew
        /\ TypeOK
    BY <1>1, <1>3, ClusterAssumption DEF BaseInv, TypeOK, Running, Undisturbed
  <2>1. SeenExpired(s)' = SeenExpired(s)
    BY <1>1 DEF SeenExpired
  <2>2. CASE pc[s] # "idle" /\ pc'[s] = "idle"
    <3>1. pc[s] \in {"claim", "won", "lost"} /\ due'[s] = due[s]
      BY <2>2, <2>t, StepsOfRounds
    <3>2. ~LeaderExpired(s)
      BY <2>2, <3>1, <2>t, RoundEnds
    <3>3. due[s] - HeartbeatInterval <= readAt[s] - Skew[s]
      BY <2>2, <2>t, RoundHasBegun
    <3>4. LastRound(s)' = due[s] - HeartbeatInterval
      BY <2>2, <3>1 DEF LastRound
    <3>5. QED BY <1>1, <1>2, <2>1, <3>2, <3>3, <3>4, <2>t
                 DEF LeaderExpired, SeenExpired
  <2>3. CASE ~(pc[s] # "idle" /\ pc'[s] = "idle")
    <3>1. LastRound(s)' = LastRound(s)
      BY <2>3, <2>t, StepsOfRounds DEF LastRound
    <3>2. QED BY <1>1, <1>2, <1>3, <2>1, <3>1
  <2>4. QED BY <2>2, <2>3
<1>4. QED BY <1>1, <1>2, <1>3 DEF VacancyInv

LEMMA VacancyInvNext ==
    ASSUME LoopWaitsForClaims, BaseInv, DecidedInv, DueInv, WatchTypeOK,
           VacancyInv, [WatchNext]_watched
    PROVE  VacancyInv'
<1>1. CASE UNCHANGED watched
  BY <1>1 DEF watched, vars, VacancyInv, LastRound, SeenExpired
<1>2. CASE WatchNext
  <2>1. CASE clusterState' # clusterState
    BY <1>2, <2>1 DEF WatchNext, WatchLease, NoVacancy, VacancyInv
  <2>2. CASE /\ clusterState' = clusterState
             /\ \E d \in Server : clusterState.leader_id = d /\ Up(d) /\ ~Up(d)'
    <3>1. vacancy' = Watch(now, Running')
      BY <1>2, <2>2 DEF WatchNext, WatchLease
    <3>2. WatchTypeOK'
      BY WatchTypeOKNext DEF BaseInv
    <3>3. QED BY <1>2, <2>2, <3>1, <3>2, VacancyOpens DEF WatchNext
  <2>3. CASE /\ clusterState' = clusterState
             /\ ~\E d \in Server : clusterState.leader_id = d /\ Up(d) /\ ~Up(d)'
    <3>1. vacancy' = Watch(vacancy.since, vacancy.standby \cap Undisturbed)
      BY <1>2, <2>3 DEF WatchNext, WatchLease
    <3>2. QED BY <1>2, <2>3, <3>1, VacancyLasts DEF WatchNext
  <2>4. QED BY <2>1, <2>2, <2>3
<1>3. QED BY <1>1, <1>2

\* The next round of a watched server sees the lease expired, and is not later
\* than its deadline.
LEMMA VacancyIsBounded ==
    ASSUME BoundCoversTakeover, BaseInv, WatchTypeOK, VacancyInv
    PROVE  TakeoverWithinBound
<1> SUFFICES ASSUME NEW s \in vacancy.standby
             PROVE  now - vacancy.since <= TakeoverBound
  BY DEF TakeoverWithinBound
<1>t. /\ s \in Server
      /\ pc[s] \notin {"down", "boot"}
      /\ due[s] \in Nat /\ now \in Nat /\ vacancy.since \in Nat
      /\ {HeartbeatInterval, MaxDelay, MaxSkew, LeaderTimeout} \subseteq Nat
      /\ Skew[s] \in 0..MaxSkew
  BY ClusterAssumption DEF BaseInv, TypeOK, WatchTypeOK, Running
<1>1. LastRound(s) <= SeenExpired(s)
  BY DEF VacancyInv
<1>2. now <= Deadline(s)
  BY <1>t DEF BaseInv, TimeInv, Up
<1>3. QED BY <1>1, <1>2, <1>t
             DEF LastRound, SeenExpired, Deadline, BoundCoversTakeover

-----------------------------------------------------------------------------
\* While a server that ran at the death of the leader runs on and its calls are
\* answered, the next leader comes within a timeout, an interval, a delay and
\* the skew, for any number of servers, crashes and restarts, and whatever
\* errors the others meet or were met before.
THEOREM NextLeaderComesInTime ==
    ASSUME LoopWaitsForClaims, BoundCoversTakeover
    PROVE  WatchSpec => []TakeoverWithinBound
<1>1. WatchInit => DueInv /\ WatchTypeOK /\ VacancyInv
  BY ClusterAssumption
     DEF WatchInit, Init, NoVacancy, DueInv, Running, WatchTypeOK, VacancyInv,
         HealBound
<1>2. BaseInv /\ DueInv /\ [WatchNext]_watched => DueInv'
  BY DueInvNext DEF WatchNext, watched
<1>3. BaseInv /\ WatchTypeOK /\ [WatchNext]_watched => WatchTypeOK'
  BY WatchTypeOKNext DEF BaseInv
<1>4. BaseInv /\ DecidedInv /\ DueInv /\ WatchTypeOK /\ VacancyInv
         /\ [WatchNext]_watched => VacancyInv'
  BY VacancyInvNext
<1>5. BaseInv /\ WatchTypeOK /\ VacancyInv => TakeoverWithinBound
  BY VacancyIsBounded
<1>6. QED
  BY <1>1, <1>2, <1>3, <1>4, <1>5, WatchingIsHarmless, BaseInvariant,
     DecidedInvariant, PTL DEF WatchSpec

-----------------------------------------------------------------------------
(* How two leaders become one again *)

\* Another server has the lease, and renews it in time.
Beaten(s) == \E t \in Server \ {s} : Holds(t)

\* A claim that has just succeeded is the lease.
WonInv == \A s \in Server : pc[s] = "won" => Holds(s)

\* A server with its flag raised that claims in a round begun after the last
\* failure is only refused if another has beaten it.
ClaimInv ==
    \A s \in Server : isLeader[s] /\ pc[s] \in {"elect", "claim"} =>
        \/ due[s] - HeartbeatInterval <= LastFault
        \/ Claimable(s)
        \/ Beaten(s)

\* A flag belongs to the holder, or no round of its server has run since the
\* last failure, or only one, which was beaten and will see it in the next.
FlagInv ==
    \A s \in Server : isLeader[s] =>
        /\ s \in Running
        /\ \/ Holds(s)
           \/ LastRound(s) <= LastFault
           \/ /\ LastRound(s) - HeartbeatInterval <= LastFault
              /\ Beaten(s)
              /\ pc[s] \in {"idle", "beat", "read", "lost"}

HealInv == WonInv /\ ClaimInv /\ FlagInv

\* The steps of a server while nothing fails.
CleanStep(s) ==
    \/ Boot(s) \/ RegisterServer(s)
    \/ Tick(s) \/ SendHeartbeat(s)
    \/ SeeVacancy(s) \/ SeeSelf(s) \/ SeeOther(s)
    \/ ReadTerm(s) \/ BecomeLeader(s) \/ BecomeLeaderRefused(s)
    \/ RenewLeadership(s) \/ RenewLeadershipRefused(s)
    \/ RaiseFlag(s) \/ DropFlag(s)

\* Without a failure a server takes one of these steps, or is left alone.
LEMMA CleanSteps ==
    ASSUME TypeOK, [Next]_vars, ~Fault, NEW s \in Server
    PROVE  \/ CleanStep(s)
           \/ /\ pc'[s] = pc[s] /\ due'[s] = due[s]
              /\ readAt'[s] = readAt[s] /\ isLeader'[s] = isLeader[s]
<1>t. dbErrors \in Nat /\ crashes \in Nat
  BY ClusterAssumption DEF TypeOK
<1>1. CASE AdvanceTime \/ UNCHANGED vars
  BY <1>1 DEF AdvanceTime, vars
<1>2. ASSUME NEW t \in Server, ServerStep(t), t # s
      PROVE  /\ pc'[s] = pc[s] /\ due'[s] = due[s]
             /\ readAt'[s] = readAt[s] /\ isLeader'[s] = isLeader[s]
  BY <1>2, StepsOfOthers
<1>3. CASE Start(s) \/ Heartbeat(s) \/ Decide(s) \/ SetFlag(s)
  BY <1>3, <1>t
     DEF Fault, DbError, CleanStep, Start, RegisterServerFails, Heartbeat,
         SendHeartbeatFails, Decide, ReadStateFails, SetFlag
<1>4. CASE TryBecomeLeader(s) \/ Renew(s)
  BY <1>4, <1>t
     DEF Fault, DbError, CleanStep, TryBecomeLeader, ReadTermFails,
         BecomeLeaderFails, Renew, RenewLeadershipFails
<1>5. CASE MarkServersUnhealthy(s) \/ Stop(s)
  BY <1>5, <1>t
     DEF Fault, DbError, MarkServersUnhealthy, Stop, Shutdown, ShutdownFails,
         Crash
<1>6. QED BY <1>1, <1>2, <1>3, <1>4, <1>5 DEF Next, ServerStep

\* A claim or a renewal makes a holder.
LEMMA WritersHold ==
    ASSUME BaseInv, NEW s \in Server, BecomeLeader(s) \/ RenewLeadership(s)
    PROVE  Holds(s)' /\ pc'[s] = "won"
<1>1. pc'[s] = "won" /\ due'[s] = due[s]
  BY DEF BaseInv, TypeOK, BecomeLeader, RenewLeadership, MoveTo
<1>2. clusterState'.leader_id = s /\ clusterState'.last_heartbeat = readAt[s]
  BY LeaseWritten DEF BaseInv, BecomeLeader, RenewLeadership
<1>3. /\ due[s] - HeartbeatInterval <= readAt[s] - Skew[s]
      /\ due[s] \in Nat /\ readAt[s] \in Nat
      /\ Skew[s] \in Nat /\ HeartbeatInterval \in Nat
  BY ClusterAssumption
     DEF BaseInv, TypeOK, TimeInv, Body, BecomeLeader, RenewLeadership
<1>4. LastRenewal(s)' = due[s] - HeartbeatInterval
  BY <1>1 DEF LastRenewal
<1>5. QED BY <1>1, <1>2, <1>3, <1>4 DEF Holds

\* Without a failure the row is only written by a server that then holds it.
LEMMA RowChangesHands ==
    ASSUME BaseInv, [Next]_vars, ~Fault, clusterState' # clusterState
    PROVE  \E s \in Server : Holds(s)' /\ pc'[s] = "won"
<1>1. PICK s \in Server : BecomeLeader(s) \/ RenewLeadership(s)
  <2>t. dbErrors \in Nat
    BY ClusterAssumption DEF BaseInv, TypeOK
  <2>1. PICK s \in Server : TryBecomeLeader(s) \/ Renew(s)
    BY DEF Next, ServerStep, vars, AdvanceTime, Start, Boot, RegisterServer,
           RegisterServerFails, Heartbeat, Tick, SendHeartbeat,
           SendHeartbeatFails, Decide, SeeVacancy, SeeSelf, SeeOther,
           ReadStateFails, SetFlag, RaiseFlag, DropFlag, MarkServersUnhealthy,
           Stop, Shutdown, ShutdownFails, MarkServer, Crash, tables
  <2>2. QED
    BY <2>1, <2>t
       DEF Fault, DbError, tables, TryBecomeLeader, ReadTerm, ReadTermFails,
           BecomeLeaderRefused, BecomeLeaderFails, Renew,
           RenewLeadershipRefused, RenewLeadershipFails
<1>2. QED BY <1>1, WritersHold

\* A write to the row leaves it with its holder.
LEMMA RowStaysWithHolder ==
    ASSUME PromptRenewals, BaseInv, [Next]_vars, NEW s \in Server, Holds(s)
    PROVE  /\ clusterState'.leader_id = s
           /\ clusterState'.last_heartbeat >= clusterState.last_heartbeat
<1>1. CASE clusterState' = clusterState
  BY <1>1 DEF BaseInv, TypeOK, Holds
<1>2. CASE clusterState' # clusterState
  <2>1. PICK t \in Server :
           \/ pc[t] = "claim" /\ Claimable(t) /\ ClaimRow(t)
           \/ pc[t] = "renew" /\ clusterState.leader_id = t /\ RenewRow(t)
    BY <1>2, WritersOfTheLease
  <2>2. pc[t] = "renew" /\ clusterState.leader_id = t /\ RenewRow(t)
    BY <2>1, HolderIsSafe
  <2>3. t = s
    BY <2>2 DEF Holds
  <2>4. QED BY <2>2, <2>3, LeaseWritten DEF BaseInv
<1>3. QED BY <1>1, <1>2

\* A holder goes on to hold the lease until one of its own calls fails.
LEMMA HolderHolds ==
    ASSUME PromptRenewals, BaseInv, [Next]_vars, NEW s \in Server, Holds(s),
           Fault => pc'[s] = pc[s]
    PROVE  Holds(s)'
<1>t. /\ due \in [Server -> Nat]
      /\ pc \in [Server -> Waiting \cup Body]
      /\ clusterState.last_heartbeat \in Nat
      /\ clusterState'.last_heartbeat \in Nat
      /\ Skew[s] \in Nat /\ HeartbeatInterval \in Nat \ {0}
      /\ TypeOK
  BY TypeOKNext, ClusterAssumption DEF BaseInv, TypeOK
<1>h. /\ clusterState.leader_id = s
      /\ pc[s] \in {"idle", "beat", "read", "renew", "won"}
      /\ clusterState.last_heartbeat >= LastRenewal(s) + Skew[s]
  BY DEF Holds
<1>r. /\ clusterState'.leader_id = s
      /\ clusterState'.last_heartbeat >= clusterState.last_heartbeat
  BY RowStaysWithHolder
\* Steps that renew nothing and end no round.
<1>m. ASSUME pc'[s] \in {"idle", "beat", "read", "renew", "won"},
             LastRenewal(s)' = LastRenewal(s)
      PROVE  Holds(s)'
  <2>1. LastRenewal(s) \in Int
    BY <1>t DEF LastRenewal
  <2>2. QED BY <1>h, <1>r, <1>t, <1>m, <2>1 DEF Holds
<1>1. CASE pc'[s] = pc[s]
  <2>1. s \in Running /\ s \in Running'
    BY <1>1, <1>h DEF Running
  <2>2. due'[s] = due[s]
    BY <1>1, <2>1, <1>t, StepsOfRounds
  <2>3. QED BY <1>1, <1>h, <2>2, <1>m DEF LastRenewal
<1>2. CASE CleanStep(s)
  <2>1. CASE Tick(s)
    BY <2>1, <1>h, <1>t, <1>m DEF Tick, LastRenewal
  <2>2. CASE SendHeartbeat(s)
    BY <2>2, <1>h, <1>t, <1>m DEF SendHeartbeat, LastRenewal
  <2>3. CASE SeeSelf(s)
    BY <2>3, <1>h, <1>t, <1>m DEF SeeSelf, MoveTo, LastRenewal
  <2>4. CASE RenewLeadership(s)
    BY <2>4, WritersHold
  <2>5. CASE RaiseFlag(s)
    BY <2>5, <1>h, <1>t, <1>m DEF RaiseFlag, EndRound, LastRenewal
  <2>6. CASE SeeVacancy(s) \/ SeeOther(s)
    BY <2>6, <1>h, HolderIsSafe, ClusterAssumption DEF SeeVacancy, SeeOther
  <2>7. QED
    BY <1>2, <1>h, <2>1, <2>2, <2>3, <2>4, <2>5, <2>6
       DEF CleanStep, Boot, RegisterServer, ReadTerm, BecomeLeader,
           BecomeLeaderRefused, RenewLeadershipRefused, DropFlag
<1>3. QED BY <1>1, <1>2, <1>t, CleanSteps

\* No round sees the lease of a holder expired.
LEMMA OthersSeeTheHolder ==
    ASSUME PromptRenewals, LoopWaitsForClaims, BaseInv,
           NEW t \in Server, Holds(t), NEW s \in Server, pc[s] = "read"
    PROVE  ~LeaderExpired(s)
<1>1. now <= LastRenewal(t) + HeartbeatInterval + MaxDelay
  BY ClusterAssumption
     DEF Holds, BaseInv, TypeOK, TimeInv, Up, Deadline, LastRenewal
<1>2. readAt[s] <= now + Skew[s]
  BY DEF BaseInv, TimeInv, Body, Clock
<1>3. /\ now \in Nat /\ readAt[s] \in Nat
      /\ clusterState.last_heartbeat \in Nat
      /\ LastRenewal(t) \in Int
      /\ Skew[s] \in 0..MaxSkew /\ Skew[t] \in Nat
      /\ {MaxSkew, MaxDelay, HeartbeatInterval, ClaimTimeout, LeaderTimeout}
            \subseteq Nat
  BY ClusterAssumption DEF BaseInv, TypeOK, LastRenewal
<1>4. QED BY <1>1, <1>2, <1>3
             DEF Holds, LeaderExpired, PromptRenewals, LoopWaitsForClaims

\* Whoever is beaten stays so while nothing fails.
LEMMA BeatenStays ==
    ASSUME PromptRenewals, BaseInv, [Next]_vars, ~Fault, NEW s \in Server, Beaten(s)
    PROVE  Beaten(s)'
BY HolderHolds DEF Beaten

LEMMA WonInvNext ==
    PromptRenewals /\ BaseInv /\ WonInv /\ [Next]_vars => WonInv'
<1> SUFFICES ASSUME PromptRenewals, BaseInv, WonInv, [Next]_vars,
                    NEW s \in Server, pc'[s] = "won"
             PROVE  Holds(s)'
  BY DEF WonInv
<1>t. TypeOK
  BY DEF BaseInv
<1>1. CASE pc[s] = "won"
  BY <1>1, HolderHolds DEF WonInv
<1>2. CASE pc[s] # "won"
  <2>1. BecomeLeader(s) \/ RenewLeadership(s)
    <3>1. PICK t \in Server : ServerStep(t)
      BY <1>2 DEF Next, AdvanceTime, vars
    <3>2. t = s
      BY <1>2, <1>t, <3>1, StepsOfOthers
    <3>3. ~Start(s) /\ ~Heartbeat(s) /\ ~Decide(s)
      BY <1>2, <1>t
         DEF TypeOK, Start, Boot, RegisterServer, RegisterServerFails,
             Heartbeat, Tick, SendHeartbeat, SendHeartbeatFails, Decide,
             SeeVacancy, SeeSelf, SeeOther, ReadStateFails, MoveTo, EndRound
    <3>4. ~SetFlag(s) /\ ~MarkServersUnhealthy(s) /\ ~Stop(s)
      BY <1>2, <1>t
         DEF TypeOK, SetFlag, RaiseFlag, DropFlag, MarkServersUnhealthy, Stop,
             Shutdown, ShutdownFails, Crash, EndRound
    <3>5. CASE TryBecomeLeader(s)
      BY <1>2, <1>t, <3>5
         DEF TypeOK, TryBecomeLeader, ReadTerm, ReadTermFails,
             BecomeLeaderRefused, BecomeLeaderFails, EndRound
    <3>6. CASE Renew(s)
      BY <1>2, <1>t, <3>6
         DEF TypeOK, Renew, RenewLeadershipRefused, RenewLeadershipFails, MoveTo
    <3>7. QED BY <3>1, <3>2, <3>3, <3>4, <3>5, <3>6 DEF ServerStep
  <2>2. QED BY <2>1, WritersHold
<1>3. QED BY <1>1, <1>2

\* Only a running server has its flag raised.
LEMMA FlagsOfRunning ==
    ASSUME TypeOK, FlagInv, [Next]_vars, NEW s \in Server, isLeader'[s]
    PROVE  s \in Running'
<1>t. /\ pc \in [Server -> Waiting \cup Body]
      /\ isLeader \in [Server -> BOOLEAN]
  BY DEF TypeOK
<1>1. CASE isLeader[s] /\ s \in Running
  <2>1. CASE AdvanceTime \/ UNCHANGED vars
    BY <1>1, <2>1 DEF AdvanceTime, vars, Running
  <2>2. ASSUME NEW t \in Server, ServerStep(t), t # s
        PROVE  s \in Running'
    BY <1>1, <2>2, StepsOfOthers DEF Running
  <2>3. CASE Start(s) \/ Heartbeat(s) \/ Decide(s)
    BY <1>1, <1>t, <2>3
       DEF Running, Start, Boot, RegisterServer, RegisterServerFails,
           Heartbeat, Tick, SendHeartbeat, SendHeartbeatFails, Decide,
           SeeVacancy, SeeSelf, SeeOther, ReadStateFails, MoveTo, EndRound
  <2>4. CASE TryBecomeLeader(s)
    BY <1>1, <1>t, <2>4
       DEF Running, TryBecomeLeader, ReadTerm, ReadTermFails, BecomeLeader,
           BecomeLeaderRefused, BecomeLeaderFails, MoveTo, EndRound
  <2>5. CASE Renew(s) \/ SetFlag(s)
    BY <1>1, <1>t, <2>5
       DEF Running, Renew, RenewLeadership, RenewLeadershipRefused,
           RenewLeadershipFails, SetFlag, RaiseFlag, DropFlag, MoveTo, EndRound
  <2>6. CASE MarkServersUnhealthy(s) \/ Stop(s)
    BY <1>1, <1>t, <2>6
       DEF Running, MarkServersUnhealthy, Stop, Shutdown, ShutdownFails, Crash
  <2>7. QED BY <2>1, <2>2, <2>3, <2>4, <2>5, <2>6 DEF Next, ServerStep
<1>2. CASE ~isLeader[s]
  <2>1. RaiseFlag(s)
    <3>1. PICK t \in Server : ServerStep(t)
      BY <1>2 DEF Next, AdvanceTime, vars
    <3>2. t = s
      BY <1>2, <3>1, StepsOfOthers
    <3>3. QED
      BY <1>2, <1>t, <3>1, <3>2
         DEF ServerStep, Start, Boot, RegisterServer, RegisterServerFails,
             Heartbeat, Tick, SendHeartbeat, SendHeartbeatFails, Decide,
             SeeVacancy, SeeSelf, SeeOther, ReadStateFails, TryBecomeLeader,
             ReadTerm, ReadTermFails, BecomeLeader, BecomeLeaderRefused,
             BecomeLeaderFails, Renew, RenewLeadership, RenewLeadershipRefused,
             RenewLeadershipFails, SetFlag, DropFlag, MarkServersUnhealthy,
             Stop, Shutdown, ShutdownFails, Crash
  <2>2. QED BY <1>t, <2>1 DEF RaiseFlag, EndRound, Running
<1>3. QED BY <1>1, <1>2 DEF FlagInv

\* When something fails and leaves a doubt, every round under way is due before
\* the last failure.
LEMMA FaultsStartAnew ==
    ASSUME BaseInv, DueInv, WatchTypeOK, FlagInv, [WatchNext]_watched,
           Doubt', Fault
    PROVE  ClaimInv' /\ FlagInv'
<1>n. [Next]_vars /\ TypeOK /\ TypeOK' /\ TimeInv'
  BY TypeOKNext, TimeInvNext DEF WatchNext, watched, BaseInv
<1>f. LastFault' = now'
  BY <1>n, FaultsPass
<1>1. ClaimInv'
  <2> SUFFICES ASSUME NEW s \in Server, pc'[s] \in {"elect", "claim"}
               PROVE  due'[s] - HeartbeatInterval <= LastFault'
    BY DEF ClaimInv
  <2>1. /\ due'[s] - HeartbeatInterval <= readAt'[s] - Skew[s]
        /\ readAt'[s] <= now' + Skew[s]
    BY <1>n DEF TimeInv, Body, Clock
  <2>2. /\ due'[s] \in Nat /\ readAt'[s] \in Nat /\ now' \in Nat
        /\ Skew[s] \in Nat /\ HeartbeatInterval \in Nat
    BY <1>n, ClusterAssumption DEF TypeOK
  <2>3. QED BY <1>f, <2>1, <2>2
<1>2. FlagInv'
  <2> SUFFICES ASSUME NEW s \in Server, isLeader'[s]
               PROVE  s \in Running' /\ LastRound(s)' <= LastFault'
    BY DEF FlagInv
  <2>1. s \in Running'
    BY <1>n, FlagsOfRunning
  <2>2. QED BY <1>f, <1>n, <2>1, DueInvNext DEF DueInv
<1>3. QED BY <1>1, <1>2

\* A claim of a clean round is allowed when it is prepared, and after that
\* only another server's claim or renewal forbids it.
LEMMA ClaimInvNext ==
    ASSUME PromptRenewals, LoopWaitsForClaims, BaseInv, WatchTypeOK, ClaimInv,
           [WatchNext]_watched, Doubt', ~Fault
    PROVE  ClaimInv'
<1>n. [Next]_vars /\ TypeOK
  BY DEF WatchNext, watched, BaseInv
<1> SUFFICES ASSUME NEW s \in Server, isLeader'[s],
                    pc'[s] \in {"elect", "claim"}
             PROVE  \/ due'[s] - HeartbeatInterval <= LastFault'
                    \/ Claimable(s)'
                    \/ Beaten(s)'
  BY DEF ClaimInv
<1>t. /\ pc \in [Server -> Waiting \cup Body]
      /\ due[s] \in Nat /\ HeartbeatInterval \in Nat
      /\ LastFault \in Int /\ LastFault' \in Int /\ LastFault <= LastFault'
      /\ readAt[s] \in Nat /\ clusterState.last_heartbeat \in Nat
      /\ ClaimTimeout \in Nat /\ LeaderTimeout \in Nat
  BY <1>n, FaultsPass, ClusterAssumption DEF TypeOK
<1>1. CASE SeeVacancy(s)
  BY <1>1, <1>t
     DEF SeeVacancy, MoveTo, tables, LeaderExpired, Claimable,
         LoopWaitsForClaims
<1>2. CASE /\ pc[s] \in {"elect", "claim"} /\ due'[s] = due[s]
           /\ readAt'[s] = readAt[s] /\ isLeader'[s] = isLeader[s]
  <2>1. CASE due[s] - HeartbeatInterval <= LastFault
    BY <1>2, <1>t, <2>1
  <2>2. CASE Beaten(s)
    BY <1>n, <2>2, BeatenStays
  <2>3. CASE Claimable(s) /\ clusterState' = clusterState
    BY <1>2, <2>3 DEF Claimable
  <2>4. CASE clusterState' # clusterState
    BY <1>n, <2>4, RowChangesHands DEF Beaten
  <2>5. QED BY <1>2, <2>1, <2>2, <2>3, <2>4 DEF ClaimInv
<1>3. \/ SeeVacancy(s)
      \/ /\ pc[s] \in {"elect", "claim"} /\ due'[s] = due[s]
         /\ readAt'[s] = readAt[s] /\ isLeader'[s] = isLeader[s]
  <2>1. CASE CleanStep(s)
    BY <1>t, <2>1
       DEF CleanStep, Boot, RegisterServer, Tick, SendHeartbeat, SeeSelf,
           SeeOther, ReadTerm, BecomeLeader, BecomeLeaderRefused,
           RenewLeadership, RenewLeadershipRefused, RaiseFlag, DropFlag,
           MoveTo, EndRound
  <2>2. QED BY <1>n, <2>1, CleanSteps
<1>4. QED BY <1>1, <1>2, <1>3

\* A flag that nothing refreshes is dropped in the second clean round.
LEMMA FlagInvNext ==
    ASSUME PromptRenewals, LoopWaitsForClaims, BaseInv, WatchTypeOK, HealInv,
           [WatchNext]_watched, Doubt', ~Fault
    PROVE  FlagInv'
<1>n. [Next]_vars /\ TypeOK
  BY DEF WatchNext, watched, BaseInv
<1> SUFFICES ASSUME NEW s \in Server, isLeader'[s]
             PROVE  /\ s \in Running'
                    /\ \/ Holds(s)'
                       \/ LastRound(s)' <= LastFault'
                       \/ /\ LastRound(s)' - HeartbeatInterval <= LastFault'
                          /\ Beaten(s)'
                          /\ pc'[s] \in {"idle", "beat", "read", "lost"}
  BY DEF FlagInv
<1>r. s \in Running'
  BY <1>n, FlagsOfRunning DEF HealInv
<1>t. /\ pc \in [Server -> Waiting \cup Body]
      /\ isLeader \in [Server -> BOOLEAN]
      /\ due \in [Server -> Nat] /\ HeartbeatInterval \in Nat \ {0}
      /\ LastFault \in Int /\ LastFault' \in Int /\ LastFault <= LastFault'
      /\ dbErrors' = dbErrors
      /\ LastRound(s) \in Int
  BY <1>n, FaultsPass, ClusterAssumption DEF TypeOK, Fault, LastRound
<1>1. CASE Holds(s)
  BY <1>n, <1>r, <1>1, HolderHolds
<1>2. CASE ~Holds(s)
  <2>w. pc[s] # "won"
    BY <1>2 DEF HealInv, WonInv
  <2>1. isLeader[s]
    <3>1. CASE CleanStep(s)
      BY <1>t, <2>w, <3>1
         DEF CleanStep, Boot, RegisterServer, Tick, SendHeartbeat, SeeVacancy,
             SeeSelf, SeeOther, ReadTerm, BecomeLeader, BecomeLeaderRefused,
             RenewLeadership, RenewLeadershipRefused, RaiseFlag, DropFlag
    <3>2. QED BY <1>n, <3>1, CleanSteps
  <2>2. /\ s \in Running
        /\ \/ LastRound(s) <= LastFault
           \/ /\ LastRound(s) - HeartbeatInterval <= LastFault
              /\ Beaten(s)
              /\ pc[s] \in {"idle", "beat", "read", "lost"}
    BY <1>2, <2>1 DEF HealInv, FlagInv
\* The round goes on, or a new one begins.
  <2>3. CASE ~(pc[s] # "idle" /\ pc'[s] = "idle")
    <3>1. LastRound(s)' = LastRound(s)
      BY <1>n, <1>r, <1>t, <2>2, <2>3, StepsOfRounds DEF LastRound
    <3>2. CASE LastRound(s) <= LastFault
      BY <1>r, <1>t, <3>1, <3>2
    <3>3. CASE /\ LastRound(s) - HeartbeatInterval <= LastFault
               /\ Beaten(s)
               /\ pc[s] \in {"idle", "beat", "read", "lost"}
      <4>1. clusterState.leader_id \notin {NoLeader, s}
        BY <3>3, ClusterAssumption DEF Beaten, Holds
      <4>2. pc[s] = "read" => ~LeaderExpired(s)
        BY <3>3, OthersSeeTheHolder DEF Beaten
      <4>3. pc'[s] \in {"idle", "beat", "read", "lost"}
        <5>1. CASE CleanStep(s)
          BY <1>t, <3>3, <4>1, <4>2, <5>1
             DEF CleanStep, Boot, RegisterServer, Tick, SendHeartbeat,
                 SeeVacancy, SeeSelf, SeeOther, ReadTerm, BecomeLeader,
                 BecomeLeaderRefused, RenewLeadership, RenewLeadershipRefused,
                 RaiseFlag, DropFlag, MoveTo, EndRound
        <5>2. QED BY <1>n, <3>3, <5>1, CleanSteps
      <4>4. Beaten(s)'
        BY <1>n, <3>3, BeatenStays
      <4>5. QED BY <1>r, <1>t, <3>1, <3>3, <4>3, <4>4
    <3>4. QED BY <2>2, <3>2, <3>3
\* A round ends, and the flag stays up: its claim was refused.
  <2>4. CASE pc[s] # "idle" /\ pc'[s] = "idle"
    <3>1. BecomeLeaderRefused(s)
      <4>1. CASE CleanStep(s)
        BY <1>t, <2>2, <2>4, <2>w, <4>1
           DEF CleanStep, Running, Boot, RegisterServer, Tick, SendHeartbeat,
               SeeVacancy, SeeSelf, SeeOther, ReadTerm, BecomeLeader,
               RenewLeadership, RenewLeadershipRefused, RaiseFlag, DropFlag,
               MoveTo, EndRound
      <4>2. QED BY <1>n, <2>4, <4>1, CleanSteps
    <3>2. pc[s] = "claim" /\ ~Claimable(s) /\ due' = due
      BY <3>1 DEF BecomeLeaderRefused
    <3>3. /\ LastRound(s)' = due[s] - HeartbeatInterval
          /\ LastRound(s) = due[s] - HeartbeatInterval - HeartbeatInterval
      BY <2>4, <3>2 DEF LastRound
    <3>4. LastRound(s) <= LastFault
      BY <2>2, <3>2
    <3>5. CASE due[s] - HeartbeatInterval <= LastFault
      BY <1>r, <1>t, <3>3, <3>5
    <3>6. CASE Beaten(s)
      <4>1. Beaten(s)'
        BY <1>n, <3>6, BeatenStays
      <4>2. QED BY <1>r, <1>t, <2>4, <3>3, <3>4, <4>1
    <3>7. QED BY <2>1, <3>2, <3>5, <3>6 DEF HealInv, ClaimInv
  <2>5. QED BY <2>3, <2>4
<1>3. QED BY <1>1, <1>2

LEMMA HealInvNext ==
    ASSUME PromptRenewals, LoopWaitsForClaims, BaseInv, DueInv, WatchTypeOK,
           HealInv, [WatchNext]_watched
    PROVE  HealInv'
<1>n. [Next]_vars
  BY DEF WatchNext, watched
<1>1. WonInv'
  BY <1>n, WonInvNext DEF HealInv
<1>2. CASE ~Doubt'
  <2>1. \A s \in Server : isLeader'[s] => s \in Running' /\ Holds(s)'
    BY <1>n, <1>2, FlagsOfRunning DEF HealInv, Doubt, BaseInv
  <2>2. FlagInv'
    BY <2>1 DEF FlagInv
  <2>3. ClaimInv'
    BY <2>1 DEF ClaimInv, Holds
  <2>4. QED BY <1>1, <2>2, <2>3 DEF HealInv
<1>3. CASE Doubt' /\ Fault
  BY <1>1, <1>3, FaultsStartAnew DEF HealInv
<1>4. CASE Doubt' /\ ~Fault
  BY <1>1, <1>4, ClaimInvNext, FlagInvNext DEF HealInv
<1>5. QED BY <1>2, <1>3, <1>4

\* HealBound after the last failure every running server has ended two clean
\* rounds.
LEMMA HealedInTime ==
    ASSUME BaseInv, WatchTypeOK, HealInv
    PROVE  SplitBrainHeals
<1> SUFFICES ASSUME calm > HealBound, NEW s \in Server, isLeader[s]
             PROVE  clusterState.leader_id = s
  BY DEF SplitBrainHeals
<1>1. s \in Running /\ now <= Deadline(s)
  BY DEF HealInv, FlagInv, Running, BaseInv, TimeInv, Up
<1>2. /\ due[s] \in Nat /\ now \in Nat /\ calm \in Int
      /\ HeartbeatInterval \in Nat /\ MaxDelay \in Nat
  BY ClusterAssumption DEF BaseInv, TypeOK, WatchTypeOK, HealBound
<1>3. LastRound(s) - HeartbeatInterval > LastFault
  BY <1>1, <1>2 DEF LastRound, LastFault, Deadline, HealBound
<1>4. LastRound(s) > LastFault
  BY <1>2, <1>3 DEF LastRound, LastFault
<1>5. Holds(s)
  BY <1>2, <1>3, <1>4 DEF HealInv, FlagInv, LastRound, LastFault
<1>6. QED BY <1>5 DEF Holds

\* Whatever failed before, and for any number of servers, errors and crashes:
\* from two intervals and a delay after the last failure on, a server that
\* believes to lead is the one that holds the lease.
THEOREM SplitBrainHealsInTime ==
    ASSUME PromptRenewals, LoopWaitsForClaims
    PROVE  WatchSpec => []SplitBrainHeals
<1>1. WatchInit => DueInv /\ WatchTypeOK /\ HealInv
  BY ClusterAssumption
     DEF WatchInit, Init, NoVacancy, DueInv, Running, WatchTypeOK, HealBound,
         HealInv, WonInv, ClaimInv, FlagInv
<1>2. BaseInv /\ DueInv /\ [WatchNext]_watched => DueInv'
  BY DueInvNext DEF WatchNext, watched
<1>3. BaseInv /\ WatchTypeOK /\ [WatchNext]_watched => WatchTypeOK'
  BY WatchTypeOKNext DEF BaseInv
<1>4. BaseInv /\ DueInv /\ WatchTypeOK /\ HealInv /\ [WatchNext]_watched
         => HealInv'
  BY HealInvNext
<1>5. BaseInv /\ WatchTypeOK /\ HealInv => SplitBrainHeals
  BY HealedInTime
<1>6. QED
  BY <1>1, <1>2, <1>3, <1>4, <1>5, WatchingIsHarmless, BaseInvariant, PTL
     DEF WatchSpec
=============================================================================
