---------------------------- MODULE ClusterProofs ----------------------------
(***************************************************************************)
(* What holds of the election for every number of servers, every timeout   *)
(* and every bound of the model.                                           *)
(***************************************************************************)
EXTENDS Cluster, TLAPS

USE ClusterAssumption

-----------------------------------------------------------------------------
(* Type correctness *)

\* The rows that the updates of table servers write.
LEMMA RowUpdates ==
    /\ \A at \in Nat, h \in BOOLEAN :
          [last_heartbeat |-> at, is_healthy |-> h] \in ServerRow
    /\ \A row \in ServerRow : row.last_heartbeat \in Nat
    /\ \A row \in ServerRow, at \in Nat :
          [row EXCEPT !.last_heartbeat = at] \in ServerRow
    /\ \A row \in ServerRow : [row EXCEPT !.is_healthy = FALSE] \in ServerRow
<1>1. \A row \in ServerRow : [row EXCEPT !.is_healthy = FALSE] \in ServerRow
  BY DEF ServerRow
<1>2. QED BY <1>1 DEF ServerRow

LEMMA TypeOKInit == Init => TypeOK
<1> SUFFICES ASSUME Init PROVE TypeOK
  OBVIOUS
<1>1. servers \in [Server -> ServerRow]
  BY RowUpdates DEF Init
<1>2. QED BY <1>1 DEF Init, TypeOK, Waiting, Body

LEMMA TypeOKNext == TypeOK /\ [Next]_vars => TypeOK'
<1> SUFFICES ASSUME TypeOK, [Next]_vars PROVE TypeOK'
  OBVIOUS
<1> USE DEF TypeOK, tables, budgets, DbError, Clock, Waiting, Body
<1>1. CASE AdvanceTime
  BY <1>1 DEF AdvanceTime
<1>2. ASSUME NEW s \in Server, Start(s) PROVE TypeOK'
  <2>1. CASE Boot(s)
    BY <2>1 DEF Boot
  <2>2. CASE RegisterServer(s)
    <3>1. servers' \in [Server -> ServerRow]
      BY <2>2, RowUpdates DEF RegisterServer, RegisterRow
    <3>2. QED BY <2>2, <3>1 DEF RegisterServer, RegisterRow, EndRound
  <2>3. CASE RegisterServerFails(s)
    <3>1. servers' \in [Server -> ServerRow]
      <4>1. CASE RegisterRow(s)
        BY <4>1, RowUpdates DEF RegisterRow
      <4>2. QED BY <2>3, <4>1 DEF RegisterServerFails
    <3>2. /\ pc' \in [Server -> Waiting \cup Body]
          /\ readAt' \in [Server -> Nat]
          /\ newTerm' \in [Server -> Nat]
          /\ due' \in [Server -> Nat]
      BY <2>3 DEF RegisterServerFails
    <3>3. QED BY <2>3, <3>1, <3>2 DEF RegisterServerFails
  <2>4. QED BY <1>2, <2>1, <2>2, <2>3 DEF Start
<1>3. ASSUME NEW s \in Server, Heartbeat(s) PROVE TypeOK'
  <2>1. CASE Tick(s)
    BY <2>1 DEF Tick
  <2>2. CASE SendHeartbeat(s)
    <3>1. servers' \in [Server -> ServerRow]
      BY <2>2, RowUpdates DEF SendHeartbeat, HeartbeatRow
    <3>2. QED BY <2>2, <3>1 DEF SendHeartbeat, HeartbeatRow
  <2>3. CASE SendHeartbeatFails(s)
    <3>1. servers' \in [Server -> ServerRow]
      <4>1. CASE HeartbeatRow(s)
        BY <4>1, RowUpdates DEF HeartbeatRow
      <4>2. QED BY <2>3, <4>1 DEF SendHeartbeatFails
    <3>2. /\ pc' \in [Server -> Waiting \cup Body]
          /\ readAt' \in [Server -> Nat]
          /\ newTerm' \in [Server -> Nat]
          /\ due' \in [Server -> Nat]
      BY <2>3 DEF SendHeartbeatFails, EndRound
    <3>3. QED BY <2>3, <3>1, <3>2 DEF SendHeartbeatFails
  <2>4. QED BY <1>3, <2>1, <2>2, <2>3 DEF Heartbeat
<1>4. ASSUME NEW s \in Server, Decide(s) PROVE TypeOK'
  <2>1. CASE SeeVacancy(s)
    BY <2>1 DEF SeeVacancy, MoveTo
  <2>2. CASE SeeSelf(s)
    BY <2>2 DEF SeeSelf, MoveTo
  <2>3. CASE SeeOther(s)
    BY <2>3 DEF SeeOther, MoveTo
  <2>4. CASE ReadStateFails(s)
    BY <2>4 DEF ReadStateFails, EndRound
  <2>5. QED BY <1>4, <2>1, <2>2, <2>3, <2>4 DEF Decide
<1>5. ASSUME NEW s \in Server, TryBecomeLeader(s) PROVE TypeOK'
  <2>1. CASE ReadTerm(s)
    BY <2>1 DEF ReadTerm
  <2>2. CASE ReadTermFails(s)
    BY <2>2 DEF ReadTermFails
  <2>3. CASE BecomeLeader(s)
    BY <2>3 DEF BecomeLeader, ClaimRow, MoveTo
  <2>4. CASE BecomeLeaderRefused(s)
    BY <2>4 DEF BecomeLeaderRefused, EndRound
  <2>5. CASE BecomeLeaderFails(s)
    BY <2>5 DEF BecomeLeaderFails, ClaimRow, EndRound
  <2>6. QED BY <1>5, <2>1, <2>2, <2>3, <2>4, <2>5 DEF TryBecomeLeader
<1>6. ASSUME NEW s \in Server, Renew(s) PROVE TypeOK'
  <2>1. CASE RenewLeadership(s)
    BY <2>1 DEF RenewLeadership, RenewRow, MoveTo
  <2>2. CASE RenewLeadershipRefused(s)
    BY <2>2 DEF RenewLeadershipRefused, MoveTo
  <2>3. CASE RenewLeadershipFails(s)
    BY <2>3 DEF RenewLeadershipFails, RenewRow, MoveTo
  <2>4. QED BY <1>6, <2>1, <2>2, <2>3 DEF Renew
<1>7. ASSUME NEW s \in Server, SetFlag(s) PROVE TypeOK'
  <2>1. CASE RaiseFlag(s)
    BY <2>1 DEF RaiseFlag, EndRound
  <2>2. CASE DropFlag(s)
    BY <2>2 DEF DropFlag, EndRound
  <2>3. QED BY <1>7, <2>1, <2>2 DEF SetFlag
<1>8. ASSUME NEW s \in Server, MarkServersUnhealthy(s) PROVE TypeOK'
  <2>1. servers' \in [Server -> ServerRow]
    BY <1>8, RowUpdates DEF MarkServersUnhealthy
  <2>2. QED BY <1>8, <2>1 DEF MarkServersUnhealthy
<1>9. ASSUME NEW s \in Server, Stop(s) PROVE TypeOK'
  <2>1. CASE Shutdown(s)
    <3>1. servers' \in [Server -> ServerRow]
      BY <2>1, RowUpdates DEF Shutdown, MarkServer
    <3>2. QED BY <2>1, <3>1 DEF Shutdown, MarkServer
  <2>2. CASE ShutdownFails(s)
    <3>1. MarkServer(s) => servers' \in [Server -> ServerRow]
      BY RowUpdates DEF MarkServer
    <3>2. servers' \in [Server -> ServerRow]
      BY <2>2, <3>1 DEF ShutdownFails
    <3>3. /\ stopped' \in [Server -> BOOLEAN]
          /\ dbErrors' \in 0..MaxDbErrors
          /\ UNCHANGED <<now, clusterState, pc, readAt, newTerm, due, isLeader,
                         crashes>>
      BY <2>2 DEF ShutdownFails, DbError
    <3>4. QED BY <3>2, <3>3
  <2>3. CASE Crash(s)
    BY <2>3 DEF Crash
  <2>4. QED BY <1>9, <2>1, <2>2, <2>3 DEF Stop
<1>10. CASE UNCHANGED vars
  BY <1>10 DEF vars
<1>11. QED
  BY <1>1, <1>2, <1>3, <1>4, <1>5, <1>6, <1>7, <1>8, <1>9, <1>10
     DEF Next, ServerStep

\* Every reachable state of the election keeps the types of TypeOK, whatever
\* the servers, clocks, timeouts and failures.
THEOREM Typing == Spec => []TypeOK
BY TypeOKInit, TypeOKNext, PTL DEF Spec

-----------------------------------------------------------------------------
(* The clock values that a round works with *)

\* A server is never later than its deadline, and the clock value of a round
\* was read within the round.
TimeInv ==
    \A s \in Server :
        /\ Up(s) => now <= Deadline(s)
        /\ pc[s] \in Body =>
              /\ due[s] - HeartbeatInterval <= readAt[s] - Skew[s]
              /\ readAt[s] <= Clock(s)

LEMMA TimeInvInit == Init => TimeInv
BY DEF Init, TimeInv, Up, Body

\* Steps that move one server between two awaits of a round.
LEMMA TimeInvMove ==
    ASSUME TypeOK, TimeInv, NEW s \in Server,
           pc[s] \in Body, UNCHANGED <<now, due>>,
           \/ \E p \in Body : pc' = [pc EXCEPT ![s] = p] /\ UNCHANGED readAt
           \/ EndRound(s)
    PROVE  TimeInv'
BY ClusterAssumption DEF TypeOK, TimeInv, Up, Deadline, Clock, Body, Waiting, EndRound

LEMMA TimeInvNext == TypeOK /\ TimeInv /\ [Next]_vars => TimeInv'
<1> SUFFICES ASSUME TypeOK, TimeInv, [Next]_vars PROVE TimeInv'
  OBVIOUS
<1> USE DEF Up, Deadline, Clock, Body, Waiting, tables, budgets
<1>1. CASE AdvanceTime
  BY <1>1 DEF AdvanceTime, TypeOK, TimeInv
<1>2. ASSUME NEW s \in Server, Start(s) PROVE TimeInv'
  <2>1. CASE Boot(s)
    BY <2>1 DEF Boot, TypeOK, TimeInv
  <2>2. CASE RegisterServer(s)
    BY <2>2 DEF RegisterServer, EndRound, TypeOK, TimeInv
  <2>3. CASE RegisterServerFails(s)
    BY <2>3 DEF RegisterServerFails, TypeOK, TimeInv
  <2>4. QED BY <1>2, <2>1, <2>2, <2>3 DEF Start
<1>3. ASSUME NEW s \in Server, Heartbeat(s) PROVE TimeInv'
  <2>1. CASE Tick(s)
    BY <2>1 DEF Tick, TypeOK, TimeInv
  <2>2. CASE SendHeartbeat(s)
    BY <2>2 DEF SendHeartbeat, TypeOK, TimeInv
  <2>3. CASE SendHeartbeatFails(s)
    BY <2>3, TimeInvMove DEF SendHeartbeatFails
  <2>4. QED BY <1>3, <2>1, <2>2, <2>3 DEF Heartbeat
<1>4. ASSUME NEW s \in Server, Decide(s) PROVE TimeInv'
  BY <1>4, TimeInvMove
     DEF Decide, SeeVacancy, SeeSelf, SeeOther, ReadStateFails, MoveTo
<1>5. ASSUME NEW s \in Server, TryBecomeLeader(s) PROVE TimeInv'
  BY <1>5, TimeInvMove
     DEF TryBecomeLeader, ReadTerm, ReadTermFails, BecomeLeader,
         BecomeLeaderRefused, BecomeLeaderFails, MoveTo
<1>6. ASSUME NEW s \in Server, Renew(s) PROVE TimeInv'
  BY <1>6, TimeInvMove
     DEF Renew, RenewLeadership, RenewLeadershipRefused,
         RenewLeadershipFails, MoveTo
<1>7. ASSUME NEW s \in Server, SetFlag(s) PROVE TimeInv'
  BY <1>7, TimeInvMove DEF SetFlag, RaiseFlag, DropFlag
<1>8. ASSUME NEW s \in Server, MarkServersUnhealthy(s) PROVE TimeInv'
  BY <1>8 DEF MarkServersUnhealthy, TimeInv
<1>9. ASSUME NEW s \in Server, Stop(s) PROVE TimeInv'
  <2>1. CASE Shutdown(s)
    BY <2>1 DEF Shutdown, MarkServer, TimeInv
  <2>2. CASE ShutdownFails(s)
    BY <2>2 DEF ShutdownFails, MarkServer, TimeInv
  <2>3. CASE Crash(s)
    BY <2>3 DEF Crash, TypeOK, TimeInv
  <2>4. QED BY <1>9, <2>1, <2>2, <2>3 DEF Stop
<1>10. CASE UNCHANGED vars
  BY <1>10 DEF vars, TimeInv
<1>11. QED
  BY <1>1, <1>2, <1>3, <1>4, <1>5, <1>6, <1>7, <1>8, <1>9, <1>10
     DEF Next, ServerStep

-----------------------------------------------------------------------------
(* The lease *)

\* The holder of the lease wrote it with its own clock, so its clock, and the
\* clock value of the round it is in, are at or past the lease.
LeaseInv ==
    /\ clusterState.leader_id = NoLeader => clusterState.last_heartbeat = 0
    /\ \A s \in Server : clusterState.leader_id = s =>
          /\ clusterState.last_heartbeat <= Clock(s)
          /\ pc[s] \in Body => clusterState.last_heartbeat <= readAt[s]

LEMMA LeaseInvInit == Init => LeaseInv
BY DEF Init, LeaseInv

\* Steps that leave the lease alone.
LEMMA LeaseInvMove ==
    ASSUME TypeOK, LeaseInv, NEW s \in Server, UNCHANGED <<now, clusterState>>,
           \/ /\ pc[s] \in Body
              /\ \E p \in Body : pc' = [pc EXCEPT ![s] = p]
              /\ UNCHANGED readAt
           \/ /\ \E p \in Body : pc' = [pc EXCEPT ![s] = p]
              /\ readAt' = [readAt EXCEPT ![s] = Clock(s)]
           \/ /\ pc' = [pc EXCEPT ![s] = "down"]
              /\ readAt' = [readAt EXCEPT ![s] = 0]
           \/ EndRound(s)
           \/ UNCHANGED <<pc, readAt>>
    PROVE  LeaseInv'
BY ClusterAssumption DEF TypeOK, LeaseInv, Clock, Body, Waiting, EndRound

\* A claim or a renewal writes the clock value of the writer's round, which is
\* no older than the lease it replaces.
LEMMA LeaseWritten ==
    ASSUME TypeOK, TimeInv, LeaseInv, NEW s \in Server,
           \/ pc[s] = "claim" /\ Claimable(s) /\ ClaimRow(s)
           \/ pc[s] = "renew" /\ clusterState.leader_id = s /\ RenewRow(s)
    PROVE  /\ clusterState'.leader_id = s
           /\ clusterState'.last_heartbeat = readAt[s]
           /\ clusterState'.last_heartbeat >= clusterState.last_heartbeat
           /\ readAt[s] <= Clock(s)
<1>1. readAt[s] <= Clock(s)
  BY DEF TimeInv, Body
<1>2. clusterState.last_heartbeat <= readAt[s]
  BY ClusterAssumption DEF TypeOK, LeaseInv, Claimable, Body
<1>3. CASE pc[s] = "claim" /\ ClaimRow(s)
  BY <1>1, <1>2, <1>3 DEF ClaimRow, TypeOK
<1>4. CASE clusterState.leader_id = s /\ RenewRow(s)
  BY <1>1, <1>2, <1>4 DEF RenewRow, TypeOK
<1>5. QED BY <1>3, <1>4

LEMMA LeaseInvNext ==
    TypeOK /\ TimeInv /\ LeaseInv /\ [Next]_vars => LeaseInv'
<1> SUFFICES ASSUME TypeOK, TimeInv, LeaseInv, [Next]_vars PROVE LeaseInv'
  OBVIOUS
<1> USE DEF tables, budgets
\* The two ways in which a write of s ends.
<1>w. ASSUME NEW s \in Server,
             \/ pc[s] = "claim" /\ Claimable(s) /\ ClaimRow(s)
             \/ pc[s] = "renew" /\ clusterState.leader_id = s /\ RenewRow(s),
             UNCHANGED now,
             \/ MoveTo(s, "won")
             \/ MoveTo(s, "lost")
             \/ EndRound(s)
      PROVE  LeaseInv'
  BY <1>w, LeaseWritten, ClusterAssumption
     DEF LeaseInv, TypeOK, Clock, MoveTo, EndRound, Body
<1>1. CASE AdvanceTime
  BY <1>1 DEF AdvanceTime, TypeOK, LeaseInv, Clock
<1>2. ASSUME NEW s \in Server, Start(s) PROVE LeaseInv'
  BY <1>2, LeaseInvMove
     DEF Start, Boot, RegisterServer, RegisterServerFails, Body
<1>3. ASSUME NEW s \in Server, Heartbeat(s) PROVE LeaseInv'
  BY <1>3, LeaseInvMove
     DEF Heartbeat, Tick, SendHeartbeat, SendHeartbeatFails, Body
<1>4. ASSUME NEW s \in Server, Decide(s) PROVE LeaseInv'
  BY <1>4, LeaseInvMove
     DEF Decide, SeeVacancy, SeeSelf, SeeOther, ReadStateFails, MoveTo, Body
<1>5. ASSUME NEW s \in Server, TryBecomeLeader(s) PROVE LeaseInv'
  <2>1. CASE ReadTerm(s) \/ ReadTermFails(s) \/ BecomeLeaderRefused(s)
    BY <2>1, LeaseInvMove DEF ReadTerm, ReadTermFails, BecomeLeaderRefused, Body
  <2>2. CASE BecomeLeader(s)
    BY <2>2, <1>w DEF BecomeLeader
  <2>3. CASE BecomeLeaderFails(s)
    BY <2>3, <1>w, LeaseInvMove DEF BecomeLeaderFails
  <2>4. QED BY <1>5, <2>1, <2>2, <2>3 DEF TryBecomeLeader
<1>6. ASSUME NEW s \in Server, Renew(s) PROVE LeaseInv'
  <2>1. CASE RenewLeadership(s)
    BY <2>1, <1>w DEF RenewLeadership
  <2>2. CASE RenewLeadershipRefused(s)
    BY <2>2, LeaseInvMove DEF RenewLeadershipRefused, MoveTo, Body
  <2>3. CASE RenewLeadershipFails(s)
    <3>1. CASE UNCHANGED clusterState
      BY <2>3, <3>1, LeaseInvMove DEF RenewLeadershipFails, MoveTo, Body
    <3>2. CASE clusterState.leader_id = s /\ RenewRow(s)
      BY <2>3, <3>2, <1>w DEF RenewLeadershipFails
    <3>3. QED BY <2>3, <3>1, <3>2 DEF RenewLeadershipFails
  <2>4. QED BY <1>6, <2>1, <2>2, <2>3 DEF Renew
<1>7. ASSUME NEW s \in Server, SetFlag(s) PROVE LeaseInv'
  BY <1>7, LeaseInvMove DEF SetFlag, RaiseFlag, DropFlag
<1>8. ASSUME NEW s \in Server, MarkServersUnhealthy(s) PROVE LeaseInv'
  BY <1>8 DEF MarkServersUnhealthy, LeaseInv, Clock
<1>9. ASSUME NEW s \in Server, Stop(s) PROVE LeaseInv'
  BY <1>9, LeaseInvMove DEF Stop, Shutdown, ShutdownFails, MarkServer, Crash
<1>10. CASE UNCHANGED vars
  BY <1>10 DEF vars, LeaseInv, Clock
<1>11. QED
  BY <1>1, <1>2, <1>3, <1>4, <1>5, <1>6, <1>7, <1>8, <1>9, <1>10
     DEF Next, ServerStep

\* The states of the election that the theorems below start from.
BaseInv == TypeOK /\ TimeInv /\ LeaseInv

LEMMA BaseInvariant == Spec => []BaseInv
<1>1. Init => BaseInv
  BY TypeOKInit, TimeInvInit, LeaseInvInit DEF BaseInv
<1>2. BaseInv /\ [Next]_vars => BaseInv'
  BY TypeOKNext, TimeInvNext, LeaseInvNext DEF BaseInv
<1>3. QED BY <1>1, <1>2, PTL DEF Spec

\* Only a claim or a renewal writes the row of cluster_state.
LEMMA WritersOfTheLease ==
    ASSUME [Next]_vars, clusterState' # clusterState
    PROVE  \E s \in Server :
              \/ pc[s] = "claim" /\ Claimable(s) /\ ClaimRow(s)
              \/ pc[s] = "renew" /\ clusterState.leader_id = s /\ RenewRow(s)
<1> USE DEF tables, budgets
<1>1. PICK s \in Server : TryBecomeLeader(s) \/ Renew(s)
  BY DEF Next, ServerStep, vars, AdvanceTime, Start, Boot, RegisterServer,
         RegisterServerFails, Heartbeat, Tick, SendHeartbeat,
         SendHeartbeatFails, Decide, SeeVacancy, SeeSelf, SeeOther,
         ReadStateFails, SetFlag, RaiseFlag, DropFlag, MarkServersUnhealthy,
         Stop, Shutdown, ShutdownFails, MarkServer, Crash
<1>2. QED
  BY <1>1 DEF TryBecomeLeader, ReadTerm, ReadTermFails, BecomeLeader,
       BecomeLeaderRefused, BecomeLeaderFails, Renew, RenewLeadership,
       RenewLeadershipRefused, RenewLeadershipFails, MoveTo

\* A lease is never moved back, whatever fails and whatever the clocks show.
THEOREM LeaseNeverMovesBack == Spec => LeaseNeverShrinks
<1>1. ASSUME BaseInv, [Next]_vars
      PROVE  clusterState'.last_heartbeat >= clusterState.last_heartbeat
  <2>1. CASE clusterState' = clusterState
    BY <1>1, <2>1 DEF BaseInv, TypeOK
  <2>2. CASE clusterState' # clusterState
    BY <1>1, <2>2, WritersOfTheLease, LeaseWritten DEF BaseInv
  <2>3. QED BY <2>1, <2>2
<1>2. QED BY <1>1, BaseInvariant, PTL DEF Spec, LeaseNeverShrinks

-----------------------------------------------------------------------------
(* Terms *)

\* A round runs so little late, and the clocks differ so little, that a claim
\* prepared before another server's write is older than that write.
PromptClaims == MaxDelay + MaxSkew <= ClaimTimeout

\* The term that a claim carries succeeds the term of the row, unless the read
\* for it failed, or the claim has lost to a write made since.
TermInv ==
    \A s \in Server : pc[s] = "claim" =>
        \/ newTerm[s] = clusterState.leader_term + 1
        \/ newTerm[s] = 1 /\ dbErrors > 0
        \/ ~Claimable(s)

LEMMA TermInvInit == Init => TermInv
BY DEF Init, TermInv

\* After a write no claim under way can succeed any more.
LEMMA WriteBeatsClaims ==
    ASSUME PromptClaims, BaseInv, NEW s \in Server, NEW t \in Server,
           pc[t] = "claim", readAt'[t] = readAt[t],
           \/ pc[s] = "claim" /\ Claimable(s) /\ ClaimRow(s)
           \/ pc[s] = "renew" /\ clusterState.leader_id = s /\ RenewRow(s)
    PROVE  ~Claimable(t)'
<1>1. clusterState'.leader_id = s /\ clusterState'.last_heartbeat = readAt[s]
  BY LeaseWritten DEF BaseInv
<1>2. now - MaxDelay <= readAt[s]
  BY ClusterAssumption DEF BaseInv, TypeOK, TimeInv, Up, Deadline, Body
<1>3. readAt[t] <= now + MaxSkew
  BY ClusterAssumption DEF BaseInv, TypeOK, TimeInv, Clock, Body
<1>4. readAt[s] >= readAt[t] - ClaimTimeout
  BY <1>2, <1>3, ClusterAssumption DEF PromptClaims, BaseInv, TypeOK
<1>5. QED BY <1>1, <1>4, ClusterAssumption DEF Claimable, BaseInv, TypeOK

\* Steps that leave the row alone and prepare no claim.
LEMMA TermInvMove ==
    ASSUME TypeOK, TermInv, UNCHANGED clusterState,
           dbErrors' = dbErrors \/ dbErrors' = dbErrors + 1,
           NEW s \in Server,
           \/ /\ \E p \in (Waiting \cup Body) \ {"claim"} :
                    pc' = [pc EXCEPT ![s] = p]
              /\ \A t \in Server \ {s} :
                    readAt'[t] = readAt[t] /\ newTerm'[t] = newTerm[t]
           \/ UNCHANGED <<pc, readAt, newTerm>>
    PROVE  TermInv'
<1> SUFFICES ASSUME NEW t \in Server, pc'[t] = "claim"
             PROVE  \/ newTerm'[t] = clusterState'.leader_term + 1
                    \/ newTerm'[t] = 1 /\ dbErrors' > 0
                    \/ ~Claimable(t)'
  BY DEF TermInv
<1>1. pc[t] = "claim" /\ readAt'[t] = readAt[t] /\ newTerm'[t] = newTerm[t]
  BY DEF TypeOK, Waiting, Body
<1>2. QED BY <1>1 DEF TermInv, TypeOK, Claimable

\* Steps that write the row.
LEMMA TermInvWrite ==
    ASSUME PromptClaims, BaseInv, TermInv, NEW s \in Server,
           \/ pc[s] = "claim" /\ Claimable(s) /\ ClaimRow(s)
           \/ pc[s] = "renew" /\ clusterState.leader_id = s /\ RenewRow(s),
           MoveTo(s, "won") \/ MoveTo(s, "lost") \/ EndRound(s)
    PROVE  TermInv'
<1>1. SUFFICES ASSUME NEW t \in Server, pc'[t] = "claim" PROVE ~Claimable(t)'
  BY DEF TermInv
<1>2. pc[t] = "claim" /\ readAt'[t] = readAt[t]
  BY <1>1 DEF BaseInv, TypeOK, MoveTo, EndRound
<1>3. QED BY <1>2, WriteBeatsClaims

LEMMA TermInvNext ==
    PromptClaims /\ BaseInv /\ TermInv /\ [Next]_vars => TermInv'
<1> SUFFICES ASSUME PromptClaims, BaseInv, TermInv, [Next]_vars PROVE TermInv'
  OBVIOUS
<1>t. TypeOK
  BY DEF BaseInv
<1> USE DEF tables, budgets, DbError
<1>1. CASE AdvanceTime
  BY <1>1 DEF AdvanceTime, TermInv, Claimable
<1>2. ASSUME NEW s \in Server, Start(s) PROVE TermInv'
  BY <1>2, <1>t, TermInvMove
     DEF Start, Boot, RegisterServer, RegisterServerFails, EndRound, TypeOK,
         Waiting, Body
<1>3. ASSUME NEW s \in Server, Heartbeat(s) PROVE TermInv'
  BY <1>3, <1>t, TermInvMove
     DEF Heartbeat, Tick, SendHeartbeat, SendHeartbeatFails, EndRound, TypeOK,
         Waiting, Body
<1>4. ASSUME NEW s \in Server, Decide(s) PROVE TermInv'
  BY <1>4, <1>t, TermInvMove
     DEF Decide, SeeVacancy, SeeSelf, SeeOther, ReadStateFails, MoveTo,
         EndRound, TypeOK, Waiting, Body
<1>5. ASSUME NEW s \in Server, TryBecomeLeader(s) PROVE TermInv'
  <2>1. CASE ReadTerm(s)
    BY <2>1, <1>t DEF ReadTerm, TermInv, TypeOK, Claimable
  <2>2. CASE ReadTermFails(s)
    BY <2>2, <1>t DEF ReadTermFails, TermInv, TypeOK, Claimable
  <2>3. CASE BecomeLeader(s)
    BY <2>3, TermInvWrite DEF BecomeLeader
  <2>4. CASE BecomeLeaderRefused(s)
    BY <2>4, <1>t, TermInvMove
       DEF BecomeLeaderRefused, EndRound, TypeOK, Waiting, Body
  <2>5. CASE BecomeLeaderFails(s)
    <3>1. CASE UNCHANGED clusterState
      BY <2>5, <3>1, <1>t, TermInvMove
         DEF BecomeLeaderFails, EndRound, TypeOK, Waiting, Body
    <3>2. CASE Claimable(s) /\ ClaimRow(s)
      BY <2>5, <3>2, TermInvWrite DEF BecomeLeaderFails
    <3>3. QED BY <2>5, <3>1, <3>2 DEF BecomeLeaderFails
  <2>6. QED BY <1>5, <2>1, <2>2, <2>3, <2>4, <2>5 DEF TryBecomeLeader
<1>6. ASSUME NEW s \in Server, Renew(s) PROVE TermInv'
  <2>1. CASE RenewLeadership(s)
    BY <2>1, TermInvWrite DEF RenewLeadership
  <2>2. CASE RenewLeadershipRefused(s)
    BY <2>2, <1>t, TermInvMove
       DEF RenewLeadershipRefused, MoveTo, TypeOK, Waiting, Body
  <2>3. CASE RenewLeadershipFails(s)
    <3>1. CASE UNCHANGED clusterState
      BY <2>3, <3>1, <1>t, TermInvMove
         DEF RenewLeadershipFails, MoveTo, TypeOK, Waiting, Body
    <3>2. CASE clusterState.leader_id = s /\ RenewRow(s)
      BY <2>3, <3>2, TermInvWrite DEF RenewLeadershipFails
    <3>3. QED BY <2>3, <3>1, <3>2 DEF RenewLeadershipFails
  <2>4. QED BY <1>6, <2>1, <2>2, <2>3 DEF Renew
<1>7. ASSUME NEW s \in Server, SetFlag(s) PROVE TermInv'
  BY <1>7, <1>t, TermInvMove
     DEF SetFlag, RaiseFlag, DropFlag, EndRound, TypeOK, Waiting, Body
<1>8. ASSUME NEW s \in Server, MarkServersUnhealthy(s) PROVE TermInv'
  BY <1>8, <1>t, TermInvMove DEF MarkServersUnhealthy
<1>9. ASSUME NEW s \in Server, Stop(s) PROVE TermInv'
  BY <1>9, <1>t, TermInvMove
     DEF Stop, Shutdown, ShutdownFails, MarkServer, Crash, TypeOK, Waiting, Body
<1>10. CASE UNCHANGED vars
  BY <1>10 DEF vars, TermInv, Claimable
<1>11. QED
  BY <1>1, <1>2, <1>3, <1>4, <1>5, <1>6, <1>7, <1>8, <1>9, <1>10
     DEF Next, ServerStep

\* When rounds run promptly with respect to the claim timeout, a leadership
\* begins with the next term, or with 1 after a failed read.
THEOREM TermsOfElections == ASSUME PromptClaims PROVE Spec => ElectionsRaiseTerm
<1>1. Spec => []TermInv
  BY TermInvInit, TermInvNext, BaseInvariant, PTL DEF Spec
<1>2. ASSUME BaseInv, TermInv, [Next]_vars
      PROVE  \/ /\ clusterState'.leader_id = clusterState.leader_id
                /\ clusterState'.leader_term = clusterState.leader_term
             \/ clusterState'.leader_term = clusterState.leader_term + 1
             \/ clusterState'.leader_term = 1 /\ dbErrors > 0
  <2>1. CASE clusterState' = clusterState
    BY <2>1
  <2>2. CASE clusterState' # clusterState
    <3>1. PICK s \in Server :
             \/ pc[s] = "claim" /\ Claimable(s) /\ ClaimRow(s)
             \/ pc[s] = "renew" /\ clusterState.leader_id = s /\ RenewRow(s)
      BY <1>2, <2>2, WritersOfTheLease
    <3>2. CASE pc[s] = "claim" /\ Claimable(s) /\ ClaimRow(s)
      BY <3>2, <1>2 DEF TermInv, ClaimRow
    <3>3. CASE RenewRow(s)
      BY <3>3, <1>2 DEF RenewRow, BaseInv, TypeOK
    <3>4. QED BY <3>1, <3>2, <3>3
  <2>3. QED BY <2>1, <2>2
<1>3. QED BY <1>1, <1>2, BaseInvariant, PTL DEF Spec, ElectionsRaiseTerm

-----------------------------------------------------------------------------
(* The row as a lease *)

\* Time passes alone, and a step counts at most one failed call.
LEMMA TimeAndFaults ==
    ASSUME [Next]_vars
    PROVE  \/ now' = now + 1 /\ UNCHANGED <<clusterState, dbErrors>>
           \/ now' = now /\ dbErrors' \in {dbErrors, dbErrors + 1}
<1> USE DEF tables, budgets, DbError
<1>1. CASE AdvanceTime
  BY <1>1 DEF AdvanceTime
<1>2. ASSUME NEW s \in Server,
             Start(s) \/ Heartbeat(s) \/ Decide(s)
      PROVE  now' = now /\ dbErrors' \in {dbErrors, dbErrors + 1}
  BY <1>2 DEF Start, Boot, RegisterServer, RegisterServerFails, Heartbeat,
       Tick, SendHeartbeat, SendHeartbeatFails, Decide, SeeVacancy, SeeSelf,
       SeeOther, ReadStateFails
<1>3. ASSUME NEW s \in Server, TryBecomeLeader(s) \/ Renew(s)
      PROVE  now' = now /\ dbErrors' \in {dbErrors, dbErrors + 1}
  BY <1>3 DEF TryBecomeLeader, ReadTerm, ReadTermFails, BecomeLeader,
       BecomeLeaderRefused, BecomeLeaderFails, Renew, RenewLeadership,
       RenewLeadershipRefused, RenewLeadershipFails
<1>4. ASSUME NEW s \in Server,
             SetFlag(s) \/ MarkServersUnhealthy(s) \/ Stop(s)
      PROVE  now' = now /\ dbErrors' \in {dbErrors, dbErrors + 1}
  BY <1>4 DEF SetFlag, RaiseFlag, DropFlag, MarkServersUnhealthy, Stop,
       Shutdown, ShutdownFails, Crash
<1>5. QED BY <1>1, <1>2, <1>3, <1>4 DEF Next, ServerStep, vars

\* A claim takes the lease, and a renewal extends it.
LEMMA WritesAreLeaseSteps ==
    ASSUME BaseInv, TermInv, NEW s \in Server,
           \/ pc[s] = "claim" /\ Claimable(s) /\ ClaimRow(s)
           \/ pc[s] = "renew" /\ clusterState.leader_id = s /\ RenewRow(s),
           now' = now, dbErrors' \in {dbErrors, dbErrors + 1}
    PROVE  L!Take(s) \/ L!Extend
<1>t. /\ now \in Nat /\ dbErrors \in Nat
      /\ readAt[s] \in Nat
      /\ clusterState.last_heartbeat \in Nat
      /\ Skew[s] \in 0..MaxSkew
      /\ ClaimTimeout \in Nat /\ MaxSkew \in Nat
  BY ClusterAssumption DEF BaseInv, TypeOK
<1>1. /\ clusterState'.leader_id = s
      /\ clusterState'.last_heartbeat = readAt[s]
      /\ clusterState'.last_heartbeat >= clusterState.last_heartbeat
      /\ readAt[s] <= now + Skew[s]
  BY LeaseWritten DEF BaseInv, Clock
<1>2. L!Stamp
  BY <1>t, <1>1 DEF L!Stamp
<1>3. (dbErrors > 0)' \in {dbErrors > 0, TRUE}
  <2>1. CASE dbErrors' = dbErrors
    BY <2>1, Zenon
  <2>2. CASE dbErrors' = dbErrors + 1
    <3>1. dbErrors' > 0
      BY <2>2, <1>t
    <3>2. (dbErrors > 0)' = TRUE
      BY <3>1
    <3>3. QED BY <3>2, Zenon
  <2>3. QED BY <2>1, <2>2
<1>4. CASE pc[s] = "claim" /\ Claimable(s) /\ ClaimRow(s)
  <2>1. clusterState.leader_id = NoLeader \/ L!Expired
    BY <1>4, <1>t, <1>1 DEF Claimable, L!Expired
  <2>2. \/ clusterState'.leader_term = clusterState.leader_term + 1
        \/ dbErrors > 0 /\ clusterState'.leader_term = 1
    BY <1>4 DEF TermInv, ClaimRow
  <2>3. QED BY <1>1, <1>2, <1>3, <2>1, <2>2 DEF L!Take
<1>5. CASE pc[s] = "renew" /\ clusterState.leader_id = s /\ RenewRow(s)
  <2>1. /\ clusterState'.leader_id = clusterState.leader_id
        /\ clusterState'.leader_term = clusterState.leader_term
    BY <1>5 DEF RenewRow, BaseInv, TypeOK
  <2>2. clusterState.leader_id # NoLeader
    BY <1>5, ClusterAssumption
  <2>3. QED BY <1>2, <1>3, <2>1, <2>2 DEF L!Extend
<1>6. QED BY <1>4, <1>5

\* When rounds run promptly with respect to the claim timeout, the loops of
\* any number of servers implement the lease, step by step.
THEOREM LeaseIsImplemented == ASSUME PromptClaims PROVE Spec => ImplementsLease
<1>1. Spec => []TermInv
  BY TermInvInit, TermInvNext, BaseInvariant, PTL DEF Spec
<1>2. Init => L!Init
  BY DEF Init, L!Init
<1>3. ASSUME BaseInv, TermInv, [Next]_vars PROVE [L!Next]_(L!vars)
  <2>1. dbErrors \in Nat
    BY <1>3, ClusterAssumption DEF BaseInv, TypeOK
  <2>2. CASE now' = now + 1 /\ UNCHANGED <<clusterState, dbErrors>>
    BY <2>2 DEF L!Next, L!AdvanceTime
  <2>3. CASE /\ now' = now /\ dbErrors' \in {dbErrors, dbErrors + 1}
             /\ clusterState' # clusterState
    <3>1. PICK s \in Server :
             \/ pc[s] = "claim" /\ Claimable(s) /\ ClaimRow(s)
             \/ pc[s] = "renew" /\ clusterState.leader_id = s /\ RenewRow(s)
      BY <1>3, <2>3, WritersOfTheLease
    <3>2. L!Take(s) \/ L!Extend
      BY <1>3, <2>3, <3>1, WritesAreLeaseSteps
    <3>3. QED BY <3>2 DEF L!Next
  <2>4. CASE /\ now' = now /\ dbErrors' = dbErrors + 1
             /\ clusterState' = clusterState
    <3>1. (dbErrors > 0)' = TRUE
      BY <2>1, <2>4
    <3>2. QED BY <2>4, <3>1 DEF L!Next, L!Fail
  <2>5. CASE UNCHANGED <<now, clusterState, dbErrors>>
    BY <2>5 DEF L!vars
  <2>6. QED BY <1>3, <2>2, <2>3, <2>4, <2>5, TimeAndFaults
<1>4. QED BY <1>1, <1>2, <1>3, BaseInvariant, PTL
             DEF Spec, ImplementsLease, L!Spec

-----------------------------------------------------------------------------
(* One leader *)

\* A leader renews its lease before it expires for itself or for another.
PromptRenewals ==
    /\ HeartbeatInterval + MaxDelay + MaxSkew <= ClaimTimeout
    /\ HeartbeatInterval + MaxDelay <= LeaderTimeout

Leads(s) == isLeader[s] \/ pc[s] = "won"

\* A server that believes it leads, or is about to, holds the lease.
LeaderInv ==
    dbErrors = 0 => \A s \in Server : Leads(s) => Holds(s)

LEMMA LeaderInvInit == Init => LeaderInv
BY DEF Init, LeaderInv, Leads

\* The lease of a holder has not run out, for itself or for a claim.
LEMMA HolderIsSafe ==
    ASSUME PromptRenewals, BaseInv, NEW s \in Server, Holds(s)
    PROVE  /\ pc[s] = "read" => ~LeaderExpired(s)
           /\ \A t \in Server : pc[t] = "claim" => ~Claimable(t)
<1>1. /\ clusterState.leader_id = s
      /\ pc[s] \in {"idle", "beat", "read", "renew", "won"}
      /\ clusterState.last_heartbeat >= LastRenewal(s) + Skew[s]
  BY DEF Holds
<1>2. now <= LastRenewal(s) + HeartbeatInterval + MaxDelay
  BY <1>1, ClusterAssumption
     DEF BaseInv, TypeOK, TimeInv, Up, Deadline, LastRenewal
<1>t. /\ now \in Nat
      /\ clusterState.last_heartbeat \in Nat
      /\ LastRenewal(s) \in Int
      /\ Skew[s] \in 0..MaxSkew
      /\ readAt \in [Server -> Nat]
      /\ {MaxSkew, MaxDelay, HeartbeatInterval, ClaimTimeout, LeaderTimeout}
            \subseteq Nat
  BY ClusterAssumption DEF BaseInv, TypeOK, LastRenewal
<1>3. pc[s] = "read" => ~LeaderExpired(s)
  <2>1. pc[s] = "read" => readAt[s] <= now + Skew[s]
    BY DEF BaseInv, TimeInv, Body, Clock
  <2>2. QED BY <1>1, <1>2, <1>t, <2>1 DEF LeaderExpired, PromptRenewals
<1>4. ASSUME NEW t \in Server, pc[t] = "claim" PROVE ~Claimable(t)
  <2>1. readAt[t] <= now + MaxSkew
    BY <1>4, ClusterAssumption DEF BaseInv, TypeOK, TimeInv, Body, Clock
  <2>2. clusterState.leader_id # NoLeader
    BY <1>1, ClusterAssumption
  <2>3. QED BY <1>1, <1>2, <1>t, <2>1, <2>2 DEF Claimable, PromptRenewals
<1>5. QED BY <1>3, <1>4

LEMMA LeaderInvNext ==
    PromptRenewals /\ BaseInv /\ LeaderInv /\ [Next]_vars => LeaderInv'
<1> SUFFICES ASSUME PromptRenewals, BaseInv, LeaderInv, [Next]_vars,
                    dbErrors' = 0
             PROVE  LeaderInv'
  BY DEF LeaderInv
<1>t. TypeOK
  BY DEF BaseInv
<1>e. dbErrors \in Nat
  BY <1>t, ClusterAssumption DEF TypeOK
<1> USE DEF tables, budgets, DbError, Leads, Holds, LastRenewal
<1>1. CASE AdvanceTime
  BY <1>1 DEF AdvanceTime, LeaderInv
<1>2. ASSUME NEW s \in Server, Start(s) PROVE LeaderInv'
  <2>1. CASE Boot(s)
    BY <2>1, <1>t DEF Boot, LeaderInv, TypeOK
  <2>2. CASE RegisterServer(s)
    BY <2>2, <1>t DEF RegisterServer, EndRound, LeaderInv, TypeOK
  <2>3. QED BY <1>2, <1>e, <2>1, <2>2 DEF Start, RegisterServerFails
<1>3. ASSUME NEW s \in Server, Heartbeat(s) PROVE LeaderInv'
  <2>1. CASE Tick(s)
    BY <2>1, <1>t, ClusterAssumption DEF Tick, LeaderInv, TypeOK
  <2>2. CASE SendHeartbeat(s)
    BY <2>2, <1>t DEF SendHeartbeat, LeaderInv, TypeOK
  <2>3. QED BY <1>3, <1>e, <2>1, <2>2 DEF Heartbeat, SendHeartbeatFails
<1>4. ASSUME NEW s \in Server, Decide(s) PROVE LeaderInv'
  <2>1. CASE SeeVacancy(s)
    <3>1. ~Leads(s)
      BY <2>1, <1>t, HolderIsSafe, ClusterAssumption DEF SeeVacancy, LeaderInv
    <3>2. QED BY <2>1, <3>1, <1>t DEF SeeVacancy, MoveTo, LeaderInv, TypeOK
  <2>2. CASE SeeSelf(s)
    BY <2>2, <1>t DEF SeeSelf, MoveTo, LeaderInv, TypeOK
  <2>3. CASE SeeOther(s)
    <3>1. ~Leads(s)
      BY <2>3 DEF SeeOther, LeaderInv
    <3>2. QED BY <2>3, <3>1, <1>t DEF SeeOther, MoveTo, LeaderInv, TypeOK
  <2>4. QED BY <1>4, <1>e, <2>1, <2>2, <2>3 DEF Decide, ReadStateFails
<1>5. ASSUME NEW s \in Server, TryBecomeLeader(s) PROVE LeaderInv'
  <2>1. CASE ReadTerm(s)
    BY <2>1, <1>t DEF ReadTerm, LeaderInv, TypeOK
  <2>2. CASE BecomeLeader(s)
    <3>1. \A t \in Server : ~Leads(t)
      BY <2>2, HolderIsSafe DEF BecomeLeader, LeaderInv
    <3>2. readAt[s] >= due[s] - HeartbeatInterval + Skew[s]
      BY <2>2, <1>t, ClusterAssumption
         DEF BecomeLeader, BaseInv, TimeInv, Body, TypeOK
    <3>3. QED BY <2>2, <3>1, <3>2, <1>t
                 DEF BecomeLeader, ClaimRow, MoveTo, LeaderInv, TypeOK
  <2>3. CASE BecomeLeaderRefused(s)
    BY <2>3, <1>t DEF BecomeLeaderRefused, EndRound, LeaderInv, TypeOK
  <2>4. QED BY <1>5, <1>e, <2>1, <2>2, <2>3
               DEF TryBecomeLeader, ReadTermFails, BecomeLeaderFails
<1>6. ASSUME NEW s \in Server, Renew(s) PROVE LeaderInv'
  <2>1. CASE RenewLeadership(s)
    <3>1. \A t \in Server \ {s} : ~Leads(t)
      BY <2>1 DEF RenewLeadership, LeaderInv
    <3>2. readAt[s] >= due[s] - HeartbeatInterval + Skew[s]
      BY <2>1, <1>t, ClusterAssumption
         DEF RenewLeadership, BaseInv, TimeInv, Body, TypeOK
    <3>3. QED BY <2>1, <3>1, <3>2, <1>t
                 DEF RenewLeadership, RenewRow, MoveTo, LeaderInv, TypeOK
  <2>2. CASE RenewLeadershipRefused(s)
    <3>1. ~Leads(s)
      BY <2>2 DEF RenewLeadershipRefused, LeaderInv
    <3>2. QED BY <2>2, <3>1, <1>t
                 DEF RenewLeadershipRefused, MoveTo, LeaderInv, TypeOK
  <2>3. QED BY <1>6, <1>e, <2>1, <2>2 DEF Renew, RenewLeadershipFails
<1>7. ASSUME NEW s \in Server, SetFlag(s) PROVE LeaderInv'
  <2>1. CASE RaiseFlag(s)
    BY <2>1, <1>t DEF RaiseFlag, EndRound, LeaderInv, TypeOK
  <2>2. CASE DropFlag(s)
    BY <2>2, <1>t DEF DropFlag, EndRound, LeaderInv, TypeOK
  <2>3. QED BY <1>7, <2>1, <2>2 DEF SetFlag
<1>8. ASSUME NEW s \in Server, MarkServersUnhealthy(s) PROVE LeaderInv'
  BY <1>8 DEF MarkServersUnhealthy, LeaderInv
<1>9. ASSUME NEW s \in Server, Stop(s) PROVE LeaderInv'
  <2>1. CASE Shutdown(s)
    BY <2>1 DEF Shutdown, MarkServer, LeaderInv
  <2>2. CASE Crash(s)
    BY <2>2, <1>t DEF Crash, LeaderInv, TypeOK
  <2>3. QED BY <1>9, <1>e, <2>1, <2>2 DEF Stop, ShutdownFails, MarkServer
<1>10. CASE UNCHANGED vars
  BY <1>10 DEF vars, LeaderInv
<1>11. QED
  BY <1>1, <1>2, <1>3, <1>4, <1>5, <1>6, <1>7, <1>8, <1>9, <1>10
     DEF Next, ServerStep

\* When leaders renew promptly and the database answers, no two servers ever
\* believe to lead, for any number of servers, crashes and restarts.
THEOREM OneLeader == ASSUME PromptRenewals PROVE Spec => []AtMostOneLeader
<1>1. Spec => []LeaderInv
  BY LeaderInvInit, LeaderInvNext, BaseInvariant, PTL DEF Spec
<1>2. LeaderInv => AtMostOneLeader
  BY DEF LeaderInv, AtMostOneLeader, Leads, Holds
<1>3. QED BY <1>1, <1>2, PTL

-----------------------------------------------------------------------------
(* Rounds that end *)

\* The WHERE clause of become_leader takes no longer than the loop to find a
\* lease expired: LEADER_TIMEOUT_MS is not below the literal 15000.
LoopWaitsForClaims == ClaimTimeout <= LeaderTimeout

\* A round that has seen a live lease, or has written one, still sees it: the
\* row is never given up and its stamp never moves back.
DecidedInv ==
    \A s \in Server : pc[s] \in {"renew", "won", "lost"} =>
        /\ clusterState.leader_id # NoLeader
        /\ ~LeaderExpired(s)

\* What a step may do to the lease, and to a round that has decided.
LEMMA LeaseLastsForTheRound ==
    ASSUME BaseInv, [Next]_vars
    PROVE  /\ clusterState.leader_id # NoLeader => clusterState'.leader_id # NoLeader
           /\ clusterState'.last_heartbeat >= clusterState.last_heartbeat
<1>1. CASE clusterState' = clusterState
  BY <1>1 DEF BaseInv, TypeOK
<1>2. CASE clusterState' # clusterState
  BY <1>2, WritersOfTheLease, LeaseWritten, ClusterAssumption DEF BaseInv
<1>3. QED BY <1>1, <1>2

\* A server that keeps its clock value keeps what it has decided.
LEMMA DecidedStays ==
    ASSUME BaseInv, DecidedInv, [Next]_vars, NEW s \in Server,
           pc[s] \in {"renew", "won", "lost"}, readAt'[s] = readAt[s]
    PROVE  clusterState'.leader_id # NoLeader /\ ~LeaderExpired(s)'
<1>1. /\ clusterState.leader_id # NoLeader
      /\ ~LeaderExpired(s)
  BY DEF DecidedInv
<1>2. /\ clusterState.last_heartbeat \in Nat
      /\ clusterState'.last_heartbeat \in Nat
      /\ readAt[s] \in Nat
      /\ LeaderTimeout \in Nat
  BY TypeOKNext, ClusterAssumption DEF BaseInv, TypeOK
<1>3. QED BY <1>1, <1>2, LeaseLastsForTheRound DEF LeaderExpired

LEMMA DecidedInvNext == BaseInv /\ DecidedInv /\ [Next]_vars => DecidedInv'
<1> SUFFICES ASSUME BaseInv, DecidedInv, [Next]_vars,
                    NEW s \in Server, pc'[s] \in {"renew", "won", "lost"}
             PROVE  clusterState'.leader_id # NoLeader /\ ~LeaderExpired(s)'
  BY DEF DecidedInv
<1>t. /\ pc \in [Server -> Waiting \cup Body]
      /\ readAt \in [Server -> Nat]
      /\ clusterState.last_heartbeat \in Nat
      /\ LeaderTimeout \in Nat
      /\ NoLeader \notin Server
  BY ClusterAssumption DEF BaseInv, TypeOK
<1>1. CASE pc[s] \in {"renew", "won", "lost"} /\ readAt'[s] = readAt[s]
  BY <1>1, DecidedStays
<1>2. CASE SeeSelf(s) \/ SeeOther(s)
  BY <1>2, <1>t DEF SeeSelf, SeeOther, MoveTo, LeaderExpired, tables
<1>3. CASE BecomeLeader(s)
  <2>1. clusterState'.leader_id = s /\ clusterState'.last_heartbeat = readAt[s]
    BY <1>3, LeaseWritten DEF BecomeLeader, BaseInv
  <2>2. readAt'[s] = readAt[s]
    BY <1>3 DEF BecomeLeader, MoveTo
  <2>3. QED BY <2>1, <2>2, <1>t DEF LeaderExpired
<1>4. \/ pc[s] \in {"renew", "won", "lost"} /\ readAt'[s] = readAt[s]
      \/ SeeSelf(s) \/ SeeOther(s)
      \/ BecomeLeader(s)
  <2> USE <1>t
  <2>1. ASSUME NEW t \in Server, ServerStep(t)
        PROVE  \/ UNCHANGED <<pc, readAt>>
               \/ /\ t # s
                  /\ pc'[s] = pc[s] /\ readAt'[s] = readAt[s]
               \/ t = s /\ (SeeSelf(s) \/ SeeOther(s) \/ BecomeLeader(s))
               \/ t = s /\ pc[s] = "renew" /\ readAt'[s] = readAt[s]
    <3>1. ASSUME Start(t)
          PROVE  t # s /\ pc'[s] = pc[s] /\ readAt'[s] = readAt[s]
      BY <3>1 DEF Start, Boot, RegisterServer, RegisterServerFails, EndRound
    <3>2. ASSUME Heartbeat(t)
          PROVE  t # s /\ pc'[s] = pc[s] /\ readAt'[s] = readAt[s]
      BY <3>2 DEF Heartbeat, Tick, SendHeartbeat, SendHeartbeatFails, EndRound
    <3>3. CASE Decide(t)
      BY <3>3 DEF Decide, SeeVacancy, SeeSelf, SeeOther, ReadStateFails,
                  MoveTo, EndRound
    <3>4. CASE TryBecomeLeader(t)
      BY <3>4 DEF TryBecomeLeader, ReadTerm, ReadTermFails, BecomeLeader,
                  BecomeLeaderRefused, BecomeLeaderFails, MoveTo, EndRound
    <3>5. CASE Renew(t)
      BY <3>5 DEF Renew, RenewLeadership, RenewLeadershipRefused,
                  RenewLeadershipFails, MoveTo
    <3>6. CASE SetFlag(t)
      BY <3>6 DEF SetFlag, RaiseFlag, DropFlag, EndRound
    <3>7. CASE MarkServersUnhealthy(t)
      BY <3>7 DEF MarkServersUnhealthy
    <3>8. CASE Stop(t)
      BY <3>8 DEF Stop, Shutdown, ShutdownFails, Crash
    <3>9. QED BY <2>1, <3>1, <3>2, <3>3, <3>4, <3>5, <3>6, <3>7, <3>8
                 DEF ServerStep
  <2>2. CASE AdvanceTime \/ UNCHANGED vars
    BY <2>2 DEF AdvanceTime, vars
  <2>3. QED BY <2>1, <2>2 DEF Next
<1>5. QED BY <1>1, <1>2, <1>3, <1>4

LEMMA DecidedInvariant == Spec => []DecidedInv
<1>1. Init => DecidedInv
  BY DEF Init, DecidedInv
<1>2. QED BY <1>1, DecidedInvNext, BaseInvariant, PTL DEF Spec

\* The end of the round of one server.
LEMMA RoundEnds ==
    ASSUME LoopWaitsForClaims, BaseInv, DecidedInv, [Next]_vars, NEW s \in Server,
           pc[s] \in {"claim", "won", "lost"}, pc'[s] = "idle", dbErrors' = dbErrors
    PROVE  clusterState.leader_id # NoLeader /\ ~LeaderExpired(s)
<1>1. CASE pc[s] \in {"won", "lost"}
  BY <1>1 DEF DecidedInv
<1>2. CASE pc[s] = "claim"
  <2>t. /\ pc \in [Server -> Waiting \cup Body]
        /\ readAt[s] \in Nat
        /\ clusterState.last_heartbeat \in Nat
        /\ {ClaimTimeout, LeaderTimeout} \subseteq Nat
        /\ dbErrors \in Nat
    BY ClusterAssumption DEF BaseInv, TypeOK
  <2>1. ~Claimable(s)
    <3>1. PICK t \in Server : ServerStep(t)
      BY <1>2 DEF Next, AdvanceTime, vars
    <3>2. t = s
      BY <3>1, <1>2, <2>t
         DEF ServerStep, Start, Boot, RegisterServer, RegisterServerFails,
             Heartbeat, Tick, SendHeartbeat, SendHeartbeatFails,
             Decide, SeeVacancy, SeeSelf, SeeOther, ReadStateFails,
             TryBecomeLeader, ReadTerm, ReadTermFails, BecomeLeader,
             BecomeLeaderRefused, BecomeLeaderFails,
             Renew, RenewLeadership, RenewLeadershipRefused,
             RenewLeadershipFails, SetFlag, RaiseFlag, DropFlag,
             MarkServersUnhealthy, Stop, Shutdown, ShutdownFails, Crash,
             MoveTo, EndRound
    <3>3. TryBecomeLeader(s)
      BY <3>1, <3>2, <1>2, <2>t
         DEF ServerStep, Start, Boot, RegisterServer, RegisterServerFails,
             Heartbeat, Tick, SendHeartbeat, SendHeartbeatFails,
             Decide, SeeVacancy, SeeSelf, SeeOther, ReadStateFails,
             Renew, RenewLeadership, RenewLeadershipRefused,
             RenewLeadershipFails, SetFlag, RaiseFlag, DropFlag,
             MarkServersUnhealthy, Stop, Shutdown, ShutdownFails, Crash
    <3>4. QED BY <3>3, <1>2, <2>t
                 DEF TryBecomeLeader, ReadTerm, ReadTermFails, BecomeLeader,
                     BecomeLeaderRefused, BecomeLeaderFails, MoveTo, DbError
  <2>2. QED BY <2>1, <2>t DEF Claimable, LeaderExpired, LoopWaitsForClaims
<1>3. QED BY <1>1, <1>2

\* A round that ends without an error of its own leaves a leader whose lease has
\* not run out, whatever failed before and for any number of servers, if the
\* loop waits for what a claim needs.
THEOREM RoundsLeaveALease ==
    ASSUME LoopWaitsForClaims PROVE Spec => RoundLeavesLiveLease
<1>1. BaseInv /\ DecidedInv /\ [Next]_vars =>
        [ \A s \in Server :
            (/\ pc[s] \in {"claim", "won", "lost"}
             /\ pc'[s] = "idle"
             /\ dbErrors' = dbErrors)
            => /\ clusterState.leader_id # NoLeader
               /\ ~LeaderExpired(s) ]_vars
  BY RoundEnds
<1>2. QED BY <1>1, BaseInvariant, DecidedInvariant, PTL
             DEF Spec, RoundLeavesLiveLease

-----------------------------------------------------------------------------
(* Health *)

\* A running server stamps its row before the timeout of any other's cleanup,
\* the first time after it starts included.
PromptHeartbeats ==
    /\ MaxDelay <= HeartbeatInterval
    /\ HeartbeatInterval + MaxDelay + MaxSkew <= LeaderTimeout

IsRunning(s) == pc[s] \notin {"down", "boot"}

\* The earliest time that the row of s may show: the last round but one in the
\* call that replaces it, the last round otherwise.
LastStamp(s) ==
    IF pc[s] = "beat" THEN due[s] - HeartbeatInterval - HeartbeatInterval
    ELSE due[s] - HeartbeatInterval

\* The row of a running server is healthy and as recent as its rounds.
HealthInv ==
    dbErrors = 0 => \A s \in Server : IsRunning(s) =>
        /\ ~stopped[s] => servers[s].is_healthy
        /\ servers[s].last_heartbeat >= LastStamp(s) + Skew[s]

LEMMA HealthInvInit == Init => HealthInv
BY DEF Init, HealthInv, IsRunning

\* A server writes no other server's row before it marks the unhealthy ones.
LEMMA HealthInvMove ==
    ASSUME TypeOK, HealthInv, dbErrors = 0, NEW s \in Server,
           \A t \in Server \ {s} :
              /\ pc'[t] = pc[t]
              /\ due'[t] = due[t]
              /\ stopped'[t] = stopped[t]
              /\ servers'[t] = servers[t],
           IsRunning(s)' =>
              /\ ~stopped'[s] => servers'[s].is_healthy
              /\ servers'[s].last_heartbeat >= LastStamp(s)' + Skew[s]
    PROVE  HealthInv'
BY DEF HealthInv, IsRunning, LastStamp

LEMMA HealthInvNext ==
    PromptHeartbeats /\ BaseInv /\ HealthInv /\ [Next]_vars => HealthInv'
<1> SUFFICES ASSUME PromptHeartbeats, BaseInv, HealthInv, [Next]_vars,
                    dbErrors' = 0
             PROVE  HealthInv'
  BY DEF HealthInv
<1>t. TypeOK
  BY DEF BaseInv
<1>e. dbErrors \in Nat
  BY <1>t, ClusterAssumption DEF TypeOK
<1>c. /\ {HeartbeatInterval, MaxDelay, MaxSkew, LeaderTimeout} \subseteq Nat
      /\ \A s \in Server : Skew[s] \in 0..MaxSkew
  BY ClusterAssumption
<1>r. \A s \in Server : servers[s].last_heartbeat \in Nat
  BY <1>t, RowUpdates DEF TypeOK
<1> USE DEF tables, budgets, DbError
<1>1. CASE AdvanceTime
  BY <1>1 DEF AdvanceTime, HealthInv, IsRunning, LastStamp
<1>2. ASSUME NEW s \in Server, Start(s) PROVE HealthInv'
  <2>1. CASE Boot(s)
    BY <2>1, <1>t, HealthInvMove DEF Boot, TypeOK, IsRunning
  <2>2. CASE RegisterServer(s)
    <3>1. readAt[s] >= now - MaxDelay + Skew[s]
      BY <2>2, <1>t, <1>c
         DEF RegisterServer, BaseInv, TimeInv, TypeOK, Body, Up, Deadline
    <3>2. servers'[s] = [last_heartbeat |-> readAt[s], is_healthy |-> TRUE]
      BY <2>2, <1>t DEF RegisterServer, RegisterRow, TypeOK
    <3>3. due'[s] = now /\ pc'[s] = "idle"
      BY <2>2, <1>t DEF RegisterServer, EndRound, TypeOK
    <3>4. servers'[s].last_heartbeat >= LastStamp(s)' + Skew[s]
      BY <3>1, <3>2, <3>3, <1>t, <1>c DEF LastStamp, PromptHeartbeats, TypeOK
    <3>5. QED BY <2>2, <3>2, <3>4, <1>t, HealthInvMove
                 DEF RegisterServer, RegisterRow, EndRound, TypeOK
  <2>3. QED BY <1>2, <1>e, <2>1, <2>2 DEF Start, RegisterServerFails
<1>3. ASSUME NEW s \in Server, Heartbeat(s) PROVE HealthInv'
  <2>1. CASE Tick(s)
    <3>1. LastStamp(s)' = LastStamp(s)
      BY <2>1, <1>t, <1>c DEF Tick, LastStamp, TypeOK
    <3>2. QED BY <2>1, <3>1, <1>t, HealthInvMove
                 DEF Tick, HealthInv, IsRunning, TypeOK
  <2>2. CASE SendHeartbeat(s)
    <3>1. readAt[s] >= due[s] - HeartbeatInterval + Skew[s]
      BY <2>2, <1>t, <1>c DEF SendHeartbeat, BaseInv, TimeInv, TypeOK, Body
    <3>2. servers'[s] = [servers[s] EXCEPT !.last_heartbeat = readAt[s]]
      BY <2>2, <1>t DEF SendHeartbeat, HeartbeatRow, TypeOK
    <3>3. /\ servers'[s].last_heartbeat = readAt[s]
          /\ servers'[s].is_healthy = servers[s].is_healthy
      BY <3>2, <1>t DEF TypeOK, ServerRow
    <3>4. servers'[s].last_heartbeat >= LastStamp(s)' + Skew[s]
      BY <2>2, <3>1, <3>3, <1>t DEF SendHeartbeat, LastStamp, TypeOK
    <3>5. QED BY <2>2, <3>3, <3>4, <1>t, HealthInvMove
                 DEF SendHeartbeat, HeartbeatRow, HealthInv, IsRunning, TypeOK
  <2>3. QED BY <1>3, <1>e, <2>1, <2>2 DEF Heartbeat, SendHeartbeatFails
\* The awaits between the heartbeat and the end of the round.
<1>m. ASSUME NEW s \in Server, pc[s] \notin {"down", "boot", "beat"},
             \E p \in (Waiting \cup Body) \ {"beat"} :
                pc' = [pc EXCEPT ![s] = p],
             UNCHANGED <<servers, due, stopped>>, dbErrors = 0
      PROVE  HealthInv'
  BY <1>m, <1>t DEF HealthInv, IsRunning, LastStamp, TypeOK
<1>4. ASSUME NEW s \in Server, Decide(s) PROVE HealthInv'
  BY <1>4, <1>e, <1>m
     DEF Decide, SeeVacancy, SeeSelf, SeeOther, ReadStateFails, MoveTo,
         EndRound, Waiting, Body
<1>5. ASSUME NEW s \in Server, TryBecomeLeader(s) PROVE HealthInv'
  BY <1>5, <1>e, <1>m
     DEF TryBecomeLeader, ReadTerm, ReadTermFails, BecomeLeader,
         BecomeLeaderRefused, BecomeLeaderFails, MoveTo, EndRound, Waiting, Body
<1>6. ASSUME NEW s \in Server, Renew(s) PROVE HealthInv'
  BY <1>6, <1>e, <1>m
     DEF Renew, RenewLeadership, RenewLeadershipRefused, RenewLeadershipFails,
         MoveTo, Waiting, Body
<1>7. ASSUME NEW s \in Server, SetFlag(s) PROVE HealthInv'
  BY <1>7, <1>e, <1>m DEF SetFlag, RaiseFlag, DropFlag, EndRound, Waiting, Body
<1>8. ASSUME NEW s \in Server, MarkServersUnhealthy(s) PROVE HealthInv'
  <2>1. PICK age \in 0..MaxDelay :
          servers' = [t \in Server |->
              IF servers[t].last_heartbeat < Clock(s) - age - LeaderTimeout
              THEN [servers[t] EXCEPT !.is_healthy = FALSE]
              ELSE servers[t]]
    BY <1>8 DEF MarkServersUnhealthy
  <2>2. dbErrors = 0 /\ UNCHANGED <<pc, due, stopped>>
    BY <1>8 DEF MarkServersUnhealthy
  <2>3. ASSUME NEW t \in Server, IsRunning(t) PROVE servers'[t] = servers[t]
    <3>1. servers[t].last_heartbeat >= LastStamp(t) + Skew[t]
      BY <2>2, <2>3 DEF HealthInv
    <3>2. now <= LastStamp(t) + HeartbeatInterval + MaxDelay
      BY <2>3, <1>t, <1>c
         DEF IsRunning, BaseInv, TimeInv, Up, Deadline, LastStamp, TypeOK
    <3>3. ~(servers[t].last_heartbeat < Clock(s) - age - LeaderTimeout)
      BY <3>1, <3>2, <1>t, <1>c, <1>r
         DEF PromptHeartbeats, Clock, TypeOK, LastStamp
    <3>4. QED BY <2>1, <3>3
  <2>4. QED BY <2>2, <2>3 DEF HealthInv, IsRunning, LastStamp
<1>9. ASSUME NEW s \in Server, Stop(s) PROVE HealthInv'
  <2>1. CASE Shutdown(s)
    <3>1. servers'[s].last_heartbeat = servers[s].last_heartbeat
      BY <2>1, <1>t DEF Shutdown, MarkServer, TypeOK, ServerRow
    <3>2. QED BY <2>1, <3>1, <1>t, HealthInvMove
                 DEF Shutdown, MarkServer, HealthInv, IsRunning, LastStamp, TypeOK
  <2>2. CASE Crash(s)
    BY <2>2, <1>t, HealthInvMove DEF Crash, TypeOK, IsRunning
  <2>3. QED BY <1>9, <1>e, <2>1, <2>2 DEF Stop, ShutdownFails, MarkServer
<1>10. CASE UNCHANGED vars
  BY <1>10 DEF vars, HealthInv, IsRunning, LastStamp
<1>11. QED
  BY <1>1, <1>2, <1>3, <1>4, <1>5, <1>6, <1>7, <1>8, <1>9, <1>10
     DEF Next, ServerStep

\* When heartbeats are prompt and the database answers, no cleanup loop ever
\* marks a running server unhealthy.
THEOREM RunningServersAreHealthy ==
    ASSUME PromptHeartbeats PROVE Spec => []LiveServerStaysHealthy
<1>1. Spec => []HealthInv
  BY HealthInvInit, HealthInvNext, BaseInvariant, PTL DEF Spec
<1>2. HealthInv => LiveServerStaysHealthy
  BY DEF HealthInv, LiveServerStaysHealthy, IsRunning
<1>3. QED BY <1>1, <1>2, PTL

-----------------------------------------------------------------------------
(* The servers table as the registry relies on it *)

\* The row of s is past the timeout on the fastest clock.
IsPast(s) == servers[s].last_heartbeat + LeaderTimeout < now + MaxSkew

Alive == {s \in Server : IsRunning(s)}
Quitting == {s \in Server : stopped[s]}
Healthy == {s \in Server : servers[s].is_healthy}
Late == {s \in Alive : IsPast(s)}

R == INSTANCE ServerRows WITH
        alive <- Alive, quit <- Quitting, healthy <- Healthy, late <- Late,
        faulty <- dbErrors > 0

\* Only a running process has had its Ctrl-C.
StopInv == Quitting \subseteq Alive

LEMMA StopInvNext == TypeOK /\ StopInv /\ [Next]_vars => StopInv'
<1> SUFFICES ASSUME TypeOK, StopInv, [Next]_vars, NEW s \in Server, stopped'[s]
             PROVE  IsRunning(s)'
  BY DEF StopInv, Quitting, Alive
<1> USE DEF TypeOK, StopInv, Quitting, Alive, IsRunning
<1>1. CASE AdvanceTime \/ UNCHANGED vars
  BY <1>1 DEF AdvanceTime, vars
<1>2. ASSUME NEW t \in Server, Start(t) \/ Heartbeat(t) \/ Decide(t)
      PROVE  IsRunning(s)'
  BY <1>2 DEF Start, Boot, RegisterServer, RegisterServerFails, Heartbeat,
     Tick, SendHeartbeat, SendHeartbeatFails, Decide, SeeVacancy, SeeSelf,
     SeeOther, ReadStateFails, MoveTo, EndRound
<1>3. ASSUME NEW t \in Server, TryBecomeLeader(t) \/ Renew(t) \/ SetFlag(t)
      PROVE  IsRunning(s)'
  BY <1>3 DEF TryBecomeLeader, ReadTerm, ReadTermFails, BecomeLeader,
     BecomeLeaderRefused, BecomeLeaderFails, Renew, RenewLeadership,
     RenewLeadershipRefused, RenewLeadershipFails, SetFlag, RaiseFlag, DropFlag,
     MoveTo, EndRound
<1>4. ASSUME NEW t \in Server, MarkServersUnhealthy(t) \/ Stop(t)
      PROVE  IsRunning(s)'
  BY <1>4 DEF MarkServersUnhealthy, Stop, Shutdown, ShutdownFails, Crash
<1>5. QED BY <1>1, <1>2, <1>3, <1>4 DEF Next, ServerStep

\* While the database answers, no running process lags behind.
LateInv == dbErrors = 0 => Late = {}

LEMMA NobodyIsLate ==
    ASSUME PromptHeartbeats, BaseInv, HealthInv
    PROVE  LateInv
<1> SUFFICES ASSUME dbErrors = 0, NEW s \in Server, IsRunning(s)
             PROVE  ~IsPast(s)
  BY DEF LateInv, Late, Alive
<1>1. servers[s].last_heartbeat >= LastStamp(s) + Skew[s]
  BY DEF HealthInv
<1>2. now <= LastStamp(s) + HeartbeatInterval + MaxDelay
  BY ClusterAssumption
     DEF IsRunning, BaseInv, TimeInv, Up, Deadline, LastStamp, TypeOK
<1>3. /\ servers[s].last_heartbeat \in Nat /\ now \in Nat
      /\ LastStamp(s) \in Int /\ Skew[s] \in Nat
      /\ {HeartbeatInterval, MaxDelay, MaxSkew, LeaderTimeout} \subseteq Nat
  BY RowUpdates, ClusterAssumption DEF BaseInv, TypeOK, LastStamp
<1>4. QED BY <1>1, <1>2, <1>3 DEF IsPast, PromptHeartbeats

\* A row that is written now is not past, however late the call.
LEMMA NewStampIsNotPast ==
    ASSUME PromptHeartbeats, BaseInv, NEW s \in Server, pc[s] \in {"boot", "beat"}
    PROVE  readAt[s] + LeaderTimeout >= now + MaxSkew
<1>1. /\ due[s] - HeartbeatInterval <= readAt[s] - Skew[s]
      /\ now <= due[s] - HeartbeatInterval + MaxDelay
  BY DEF BaseInv, TimeInv, Body, Up, Deadline
<1>2. /\ readAt[s] \in Nat /\ due[s] \in Nat /\ now \in Nat /\ Skew[s] \in Nat
      /\ {HeartbeatInterval, MaxDelay, MaxSkew, LeaderTimeout} \subseteq Nat
  BY ClusterAssumption DEF BaseInv, TypeOK
<1>3. QED BY <1>1, <1>2 DEF PromptHeartbeats

\* A failed call counts as one, and time does not pass in it.
LEMMA FaultsAreKept ==
    ASSUME TypeOK, [Next]_vars
    PROVE  /\ R!MayFail
           /\ dbErrors' = dbErrors + 1 => (dbErrors > 0)' = TRUE
           /\ dbErrors > 0 => (dbErrors > 0)' = TRUE
<1>1. dbErrors \in Nat /\ dbErrors' \in {dbErrors, dbErrors + 1}
  BY TimeAndFaults, ClusterAssumption DEF TypeOK
<1>2. dbErrors' = dbErrors + 1 => (dbErrors > 0)' = TRUE
  BY <1>1
<1>3. dbErrors > 0 => (dbErrors > 0)' = TRUE
  BY <1>1
<1>4. CASE dbErrors' = dbErrors
  <2>1. (dbErrors > 0)' = (dbErrors > 0)
    BY <1>4, Zenon
  <2>2. QED BY <1>2, <1>3, <2>1, Zenon DEF R!MayFail
<1>5. CASE dbErrors' = dbErrors + 1
  BY <1>2, <1>3, <1>5, Zenon DEF R!MayFail
<1>6. QED BY <1>1, <1>4, <1>5

\* The awaits that write no row, and start or end no process.
LEMMA RoundsLeaveTheRows ==
    ASSUME TypeOK, [Next]_vars, UNCHANGED <<now, servers, stopped, Alive>>
    PROVE  R!CatchUp
<1>1. Late' = Late /\ Healthy' = Healthy /\ Quitting' = Quitting
  BY DEF Late, IsPast, Healthy, Quitting
<1>2. QED BY <1>1, FaultsAreKept, Zenon DEF R!CatchUp

\* A heartbeat makes its own row recent, and touches no other.
LEMMA HeartbeatsCatchUp ==
    ASSUME PromptHeartbeats, BaseInv, [Next]_vars, NEW s \in Server,
           pc[s] = "beat", HeartbeatRow(s),
           UNCHANGED <<now, stopped, Alive>>
    PROVE  R!CatchUp
<1>1. /\ servers'[s] = [servers[s] EXCEPT !.last_heartbeat = readAt[s]]
      /\ \A t \in Server \ {s} : servers'[t] = servers[t]
  BY DEF HeartbeatRow, BaseInv, TypeOK
<1>2. /\ servers'[s].last_heartbeat = readAt[s]
      /\ servers'[s].is_healthy = servers[s].is_healthy
  BY <1>1 DEF BaseInv, TypeOK, ServerRow
<1>3. Healthy' = Healthy /\ Quitting' = Quitting
  BY <1>1, <1>2 DEF Healthy, Quitting
<1>4. s \notin Late'
  <2>1. readAt[s] + LeaderTimeout >= now + MaxSkew
    BY NewStampIsNotPast
  <2>2. /\ readAt[s] \in Nat /\ now \in Nat
        /\ LeaderTimeout \in Nat /\ MaxSkew \in Nat
    BY ClusterAssumption DEF BaseInv, TypeOK
  <2>3. QED BY <1>2, <2>1, <2>2 DEF Late, IsPast
<1>5. Late' \subseteq Late
  BY <1>1, <1>4 DEF Late, Alive, IsPast
<1>6. QED BY <1>3, <1>5, FaultsAreKept, Zenon DEF R!CatchUp, BaseInv

\* The upsert of a process that starts, or of one that gives up.
LEMMA StartsRegister ==
    ASSUME PromptHeartbeats, BaseInv, [Next]_vars, NEW s \in Server, Start(s)
    PROVE  R!CatchUp \/ R!Register(s)
<1>t. TypeOK
  BY DEF BaseInv
<1>1. CASE Boot(s)
  <2>1. UNCHANGED <<now, servers, stopped, Alive>>
    BY <1>1, <1>t DEF Boot, tables, Alive, IsRunning, TypeOK
  <2>2. QED BY <1>t, <2>1, RoundsLeaveTheRows
<1>2. CASE RegisterServerFails(s) /\ UNCHANGED servers
  <2>1. UNCHANGED <<now, servers, stopped, Alive>>
    BY <1>2, <1>t DEF RegisterServerFails, Alive, IsRunning, TypeOK
  <2>2. QED BY <1>t, <2>1, RoundsLeaveTheRows
<1>3. CASE /\ RegisterServer(s) \/ RegisterServerFails(s)
           /\ RegisterRow(s)
  <2>1. /\ pc[s] = "boot" /\ UNCHANGED <<now, stopped>>
        /\ \A t \in Server \ {s} : pc'[t] = pc[t] /\ servers'[t] = servers[t]
        /\ servers'[s] = [last_heartbeat |-> readAt[s], is_healthy |-> TRUE]
    BY <1>3, <1>t
       DEF RegisterServer, RegisterServerFails, RegisterRow, EndRound, budgets,
           TypeOK
  <2>2. s \notin Alive /\ Healthy' = Healthy \cup {s} /\ Quitting' = Quitting
    BY <2>1 DEF Alive, IsRunning, Healthy, Quitting
  <2>3. s \notin Late'
    <3>1. readAt[s] + LeaderTimeout >= now + MaxSkew
      BY <2>1, NewStampIsNotPast
    <3>2. /\ readAt[s] \in Nat /\ now \in Nat
          /\ LeaderTimeout \in Nat /\ MaxSkew \in Nat
      BY <1>t, ClusterAssumption DEF TypeOK
    <3>3. QED BY <2>1, <3>1, <3>2 DEF Late, IsPast
  <2>4. Late' = Late
    BY <2>1, <2>2, <2>3 DEF Late, Alive, IsRunning, IsPast
  <2>5. CASE RegisterServer(s)
    <3>1. Alive' = Alive \cup {s}
      BY <2>1, <2>5, <1>t DEF RegisterServer, EndRound, Alive, IsRunning, TypeOK
    <3>2. (dbErrors > 0)' = (dbErrors > 0)
      BY <2>5 DEF RegisterServer, budgets
    <3>3. QED BY <2>2, <2>4, <3>1, <3>2, Zenon DEF R!Register
  <2>6. CASE RegisterServerFails(s)
    <3>1. Alive' = Alive
      BY <2>1, <2>6, <1>t DEF RegisterServerFails, Alive, IsRunning, TypeOK
    <3>2. (dbErrors > 0)' = TRUE
      BY <2>6, <1>t, FaultsAreKept DEF RegisterServerFails, DbError
    <3>3. QED BY <2>2, <2>4, <3>1, <3>2, Zenon DEF R!Register
  <2>7. QED BY <1>3, <2>5, <2>6
<1>4. QED BY <1>1, <1>2, <1>3 DEF Start, RegisterServer, RegisterServerFails

\* A cleanup only finds rows too old that lag behind, however late it comes.
LEMMA CleanupsMark ==
    ASSUME BaseInv, [Next]_vars, NEW s \in Server, MarkServersUnhealthy(s)
    PROVE  R!Mark
<1>1. PICK age \in 0..MaxDelay :
        servers' = [t \in Server |->
            IF servers[t].last_heartbeat < Clock(s) - age - LeaderTimeout
            THEN [servers[t] EXCEPT !.is_healthy = FALSE]
            ELSE servers[t]]
  BY DEF MarkServersUnhealthy
<1>2. \A t \in Server :
         /\ servers'[t].last_heartbeat = servers[t].last_heartbeat
         /\ servers'[t].is_healthy => servers[t].is_healthy
         /\ servers[t].is_healthy /\ ~servers'[t].is_healthy => IsPast(t)
  <2> SUFFICES ASSUME NEW t \in Server
               PROVE  /\ servers'[t].last_heartbeat = servers[t].last_heartbeat
                      /\ servers'[t].is_healthy => servers[t].is_healthy
                      /\ servers[t].is_healthy /\ ~servers'[t].is_healthy
                            => IsPast(t)
    OBVIOUS
  <2>1. CASE servers[t].last_heartbeat < Clock(s) - age - LeaderTimeout
    <3>1. servers'[t] = [servers[t] EXCEPT !.is_healthy = FALSE]
      BY <1>1, <2>1
    <3>2. servers[t] \in ServerRow
      BY DEF BaseInv, TypeOK
    <3>3. /\ servers'[t].last_heartbeat = servers[t].last_heartbeat
          /\ servers'[t].is_healthy = FALSE
      BY <3>1, <3>2 DEF ServerRow
    <3>4. IsPast(t)
      <4>1. /\ servers[t].last_heartbeat \in Nat /\ now \in Nat
            /\ Skew[s] \in 0..MaxSkew /\ age \in Nat
            /\ LeaderTimeout \in Nat /\ MaxSkew \in Nat
        BY <3>2, ClusterAssumption DEF BaseInv, TypeOK, ServerRow
      <4>2. QED BY <2>1, <4>1 DEF Clock, IsPast
    <3>5. QED BY <3>3, <3>4
  <2>2. CASE ~(servers[t].last_heartbeat < Clock(s) - age - LeaderTimeout)
    BY <1>1, <2>2
  <2>3. QED BY <2>1, <2>2
<1>3. UNCHANGED <<now, pc, stopped>>
  BY DEF MarkServersUnhealthy
<1>4. Alive' = Alive /\ Quitting' = Quitting
  BY <1>3 DEF Alive, IsRunning, Quitting
<1>5. Late' = Late
  BY <1>2, <1>3, <1>4 DEF Late, Alive, IsPast
<1>6. Healthy' \subseteq Healthy /\ (Healthy \ Healthy') \cap Alive \subseteq Late
  BY <1>2 DEF Healthy, Late, Alive
<1>7. QED BY <1>4, <1>5, <1>6, FaultsAreKept, Zenon DEF R!Mark, BaseInv

\* The handler of Ctrl-C, and the end of a process.
LEMMA StopsQuitOrDie ==
    ASSUME BaseInv, StopInv, [Next]_vars, NEW s \in Server, Stop(s)
    PROVE  R!CatchUp \/ R!Quit(s) \/ R!Die(s)
<1>t. TypeOK
  BY DEF BaseInv
<1>1. CASE Crash(s)
  <2>1. /\ UNCHANGED <<now, servers>>
        /\ Alive' = Alive \ {s} /\ Quitting' = Quitting \ {s}
    BY <1>1, <1>t DEF Crash, tables, Alive, IsRunning, Quitting, TypeOK
  <2>2. Late' = Late \ {s} /\ Healthy' = Healthy
    BY <2>1 DEF Late, IsPast, Healthy
  <2>3. CASE s \in Alive
    BY <1>t, <2>1, <2>2, <2>3, FaultsAreKept, Zenon DEF R!Die
  <2>4. CASE s \notin Alive
    <3>1. Alive' = Alive /\ Quitting' = Quitting /\ Late' = Late
      BY <2>1, <2>2, <2>4 DEF StopInv, Late
    <3>2. QED BY <1>t, <2>2, <3>1, FaultsAreKept, Zenon DEF R!CatchUp
  <2>5. QED BY <2>3, <2>4
<1>2. CASE Shutdown(s) \/ ShutdownFails(s)
  <2>1. /\ UNCHANGED <<now, pc>>
        /\ s \in Alive \ Quitting /\ Quitting' = Quitting \cup {s}
    BY <1>2, <1>t
       DEF Shutdown, ShutdownFails, Alive, IsRunning, Quitting, TypeOK
  <2>2. Alive' = Alive
    BY <2>1 DEF Alive, IsRunning
  <2>3. CASE MarkServer(s)
    <3>1. /\ servers'[s] = [servers[s] EXCEPT !.is_healthy = FALSE]
          /\ \A t \in Server \ {s} : servers'[t] = servers[t]
      BY <2>3, <1>t DEF MarkServer, TypeOK
    <3>2. /\ servers'[s].last_heartbeat = servers[s].last_heartbeat
          /\ servers'[s].is_healthy = FALSE
      BY <3>1, <1>t DEF TypeOK, ServerRow
    <3>3. Healthy' = Healthy \ {s}
      BY <3>1, <3>2 DEF Healthy
    <3>4. Late' = Late
      BY <2>1, <2>2, <3>1, <3>2 DEF Late, Alive, IsPast
    <3>5. QED BY <1>t, <2>1, <2>2, <3>3, <3>4, FaultsAreKept, Zenon DEF R!Quit
  <2>4. CASE UNCHANGED servers /\ dbErrors' = dbErrors + 1
    <3>1. Healthy' = Healthy /\ Late' = Late
      BY <2>1, <2>2, <2>4 DEF Healthy, Late, IsPast
    <3>2. QED BY <1>t, <2>1, <2>2, <2>4, <3>1, FaultsAreKept, Zenon DEF R!Quit
  <2>5. QED BY <1>2, <2>3, <2>4 DEF Shutdown, ShutdownFails, DbError
<1>3. QED BY <1>1, <1>2 DEF Stop

\* When heartbeats are prompt the loops of any number of servers, with any
\* clocks within MaxSkew and whatever fails, implement the table that
\* AgentRegistry relies on (ImplementsServerRows there): a row only becomes
\* healthy as its process registers, and only becomes unhealthy when it quits,
\* is gone or lags behind, which none does before a call has failed.
THEOREM ServerRowsAreImplemented == ASSUME PromptHeartbeats PROVE Spec => R!Spec
<1>1. Spec => [](BaseInv /\ StopInv /\ LateInv)
  <2>1. Init => StopInv
    BY DEF Init, StopInv, Quitting
  <2>2. BaseInv /\ StopInv /\ [Next]_vars => StopInv'
    BY StopInvNext DEF BaseInv
  <2>3. BaseInv /\ HealthInv => LateInv
    BY NobodyIsLate
  <2>4. QED BY <2>1, <2>2, <2>3, HealthInvInit, HealthInvNext, BaseInvariant,
               PTL DEF Spec
<1>2. Init => R!Init
  <2> SUFFICES ASSUME Init PROVE R!Init
    OBVIOUS
  <2>1. Alive = {} /\ Quitting = {} /\ Late = {} /\ Healthy \in SUBSET Server
    BY DEF Init, Alive, IsRunning, Quitting, Late, Healthy
  <2>2. (dbErrors > 0) = FALSE
    BY DEF Init
  <2>3. QED BY <2>1, <2>2, Zenon DEF R!Init
<1>3. ASSUME BaseInv, StopInv, LateInv', [Next]_vars
      PROVE  [R!Next]_(R!vars)
  <2>t. TypeOK
    BY <1>3 DEF BaseInv
  <2>1. CASE AdvanceTime
    <3>1. /\ UNCHANGED <<servers, pc, stopped, dbErrors>>
          /\ now \in Nat /\ now' = now + 1
      BY <2>1, <2>t DEF AdvanceTime, tables, budgets, TypeOK
    <3>2. Alive' = Alive /\ Quitting' = Quitting /\ Healthy' = Healthy
      BY <3>1 DEF Alive, IsRunning, Quitting, Healthy
    <3>3. CASE dbErrors = 0
      <4>1. Late' = {}
        BY <1>3, <3>1, <3>3 DEF LateInv
      <4>2. QED BY <1>3, <2>t, <3>2, <4>1, FaultsAreKept, Zenon
                   DEF R!Next, R!CatchUp
    <3>4. CASE dbErrors # 0
      <4>1. \A s \in Server : IsPast(s) => IsPast(s)'
        <5>1. \A s \in Server : servers[s].last_heartbeat \in Nat
          BY <2>t, RowUpdates DEF TypeOK
        <5>2. LeaderTimeout \in Nat /\ MaxSkew \in Nat
          BY ClusterAssumption
        <5>3. QED BY <3>1, <5>1, <5>2 DEF IsPast
      <4>2. Late \subseteq Late' /\ Late' \subseteq Alive
        BY <3>2, <4>1 DEF Late, Alive
      <4>3. dbErrors > 0
        BY <2>t, <3>4, ClusterAssumption DEF TypeOK
      <4>4. QED BY <1>3, <2>t, <3>2, <4>2, <4>3, FaultsAreKept, Zenon
                   DEF R!Next, R!Lag
    <3>5. QED BY <3>3, <3>4
  <2>2. ASSUME NEW s \in Server, Start(s) PROVE R!Next
    BY <1>3, <2>2, StartsRegister, Zenon DEF R!Next
  <2>3. ASSUME NEW s \in Server, Stop(s) PROVE R!Next
    BY <1>3, <2>3, StopsQuitOrDie, Zenon DEF R!Next
  <2>4. ASSUME NEW s \in Server, MarkServersUnhealthy(s) PROVE R!Next
    BY <1>3, <2>4, CleanupsMark, Zenon DEF R!Next
  <2>5. ASSUME NEW s \in Server, Heartbeat(s) PROVE R!Next
    <3>1. UNCHANGED <<now, stopped, Alive>>
      BY <2>5, <2>t
         DEF Heartbeat, Tick, SendHeartbeat, SendHeartbeatFails, EndRound,
             tables, Alive, IsRunning, TypeOK
    <3>2. UNCHANGED servers \/ (pc[s] = "beat" /\ HeartbeatRow(s))
      BY <2>5 DEF Heartbeat, Tick, SendHeartbeat, SendHeartbeatFails, tables
    <3>3. QED BY <1>3, <2>t, <3>1, <3>2, RoundsLeaveTheRows, HeartbeatsCatchUp,
                 Zenon DEF R!Next
  <2>6. ASSUME NEW s \in Server,
               Decide(s) \/ TryBecomeLeader(s) \/ Renew(s) \/ SetFlag(s)
        PROVE  R!Next
    <3>1. UNCHANGED <<now, servers, stopped>>
      BY <2>6
         DEF Decide, SeeVacancy, SeeSelf, SeeOther, ReadStateFails,
             TryBecomeLeader, ReadTerm, ReadTermFails, BecomeLeader,
             BecomeLeaderRefused, BecomeLeaderFails, Renew, RenewLeadership,
             RenewLeadershipRefused, RenewLeadershipFails, SetFlag, RaiseFlag,
             DropFlag, tables
    <3>2. /\ pc[s] \notin {"down", "boot"}
          /\ \E p \in {"idle", "elect", "claim", "renew", "won", "lost"} :
                pc' = [pc EXCEPT ![s] = p]
      BY <2>6
         DEF Decide, SeeVacancy, SeeSelf, SeeOther, ReadStateFails,
             TryBecomeLeader, ReadTerm, ReadTermFails, BecomeLeader,
             BecomeLeaderRefused, BecomeLeaderFails, Renew, RenewLeadership,
             RenewLeadershipRefused, RenewLeadershipFails, SetFlag, RaiseFlag,
             DropFlag, MoveTo, EndRound
    <3>3. Alive' = Alive
      BY <2>t, <3>2 DEF Alive, IsRunning, TypeOK
    <3>4. QED BY <1>3, <2>t, <3>1, <3>3, RoundsLeaveTheRows, Zenon DEF R!Next
  <2>7. CASE UNCHANGED vars
    <3>1. UNCHANGED <<Alive, Quitting, Healthy, Late>>
      BY <2>7 DEF vars, Alive, IsRunning, Quitting, Healthy, Late, IsPast
    <3>2. (dbErrors > 0)' = (dbErrors > 0)
      BY <2>7 DEF vars
    <3>3. QED BY <3>1, <3>2, Zenon DEF R!vars
  <2>8. QED
    BY <1>3, <2>1, <2>2, <2>3, <2>4, <2>5, <2>6, <2>7 DEF Next, ServerStep
<1>4. QED BY <1>1, <1>2, <1>3, PTL DEF Spec, R!Spec

=============================================================================
