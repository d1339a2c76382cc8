------------------------ MODULE TcpFacilitatorProofs ------------------------
(***************************************************************************)
(* What holds of the TCP sessions for any number of agents, clients and    *)
(* reports, whoever sends them and in whatever order.                      *)
(***************************************************************************)
EXTENDS TcpFacilitator, LocalAgentsProofs, FiniteSetTheorems

USE LocalAgentsAssumption, FacilitatorAssumption

-----------------------------------------------------------------------------
(* Type correctness *)

\* TypeOK bounds the counters; that is inductive only together with: no report
\* is counted twice.
CountInv == direct_successes + relay_used <= reports

\* What the reports write.
LEMMA SessionUpdates ==
    /\ \A c \in SessionRecord, e \in Endpoint, nat \in AgentNat, p \in Status :
          [[[c EXCEPT !.agent_endpoint = e] EXCEPT !.agent_nat = nat]
              EXCEPT !.status = p] \in SessionRecord
    /\ \A c \in SessionRecord, p \in Status :
          [c EXCEPT !.status = p] \in SessionRecord
    /\ \A c \in SessionRecord : [c EXCEPT !.old = TRUE] \in SessionRecord
<1>1. \A c \in SessionRecord : [c EXCEPT !.old = TRUE] \in SessionRecord
  BY DEF SessionRecord
<1>2. QED BY <1>1 DEF SessionRecord

\* What request_connection writes of its own.
LEMMA RequestUpdates ==
    /\ \A q \in ClientRequest, d \in Subdomain \cup {None},
          status \in {"202", "404", "500"} :
          [[[q EXCEPT !.pc = "done"] EXCEPT !.subdomain = d]
              EXCEPT !.answer = status] \in ClientRequest
    /\ \A q \in ClientRequest : [q EXCEPT !.pc = "send"] \in ClientRequest
BY DEF ClientRequest

\* TypeOK is inductive, given CountInv.
LEMMA TypeOKInit == Init => TypeOK /\ CountInv
BY AgentsInitTyped DEF Init, TypeOK, CountInv, ClientRequest

\* A report is about a session in the map, and counts at most one success.
LEMMA ReportsCount ==
    ASSUME NEW s \in Session, ReportStep(s)
    PROVE  /\ sessions[s] # None
           /\ reports < MaxReports /\ reports' = reports + 1
           /\ \/ UNCHANGED counters
              \/ /\ direct_successes' = direct_successes + 1
                 /\ relay_used' = relay_used
              \/ /\ relay_used' = relay_used + 1
                 /\ direct_successes' = direct_successes
<1>1. Report(s)
  BY Zenon DEF ReportStep, AgentListening, ClientConnected, ConnectionFailed
<1>2. CASE AgentListening(s) \/ ConnectionFailed(s)
  <2>1. UNCHANGED counters
    BY <1>2, Zenon DEF AgentListening, ConnectionFailed
  <2>2. QED BY <1>1, <2>1 DEF Report
<1>3. CASE ClientConnected(s)
  <2>1. MarkSuccess(sessions[s].direct_connection)
    BY <1>3, Zenon DEF ClientConnected
  <2>2. QED BY <1>1, <2>1 DEF Report, MarkSuccess
<1>4. QED BY <1>2, <1>3 DEF ReportStep

\* CountInv is inductive, given TypeOK.
LEMMA CountInvNext == TypeOK /\ CountInv /\ [Next]_vars => CountInv'
<1> SUFFICES ASSUME TypeOK, CountInv, [Next]_vars PROVE CountInv'
  OBVIOUS
<1> USE DEF TypeOK, CountInv
<1>1. CASE UNCHANGED <<counters, reports>>
  BY <1>1 DEF counters
<1>2. ASSUME NEW s \in Session, ReportStep(s) PROVE CountInv'
  <2>1. direct_successes \in Nat /\ relay_used \in Nat /\ reports \in Nat
    OBVIOUS
  <2>2. QED BY <2>1, <1>2, ReportsCount DEF counters
<1>3. QED BY <1>1, <1>2 DEF Next, vars, RequestStep, AddressMissing, FindAgent,
          FindNoTcpAgent, InsertSession, SendListenRequest, SessionExpires,
          CleanupSessions

\* Every action keeps the types; ReportsCount keeps the counters in bounds.
LEMMA TypeOKNext == TypeOK /\ CountInv /\ [Next]_vars => TypeOK'
<1> SUFFICES ASSUME TypeOK, CountInv, [Next]_vars PROVE TypeOK'
  OBVIOUS
<1> USE DEF TypeOK
<1>1. ASSUME NEW s \in Session, RequestStep(s) PROVE TypeOK'
  <2>1. AgentsTypeOK' /\ relays' = relays /\ counters' = counters
        /\ reports' = reports
    BY <1>1, AgentsUnchanged DEF RequestStep, AddressMissing, FindAgent,
       FindNoTcpAgent, InsertSession, SendListenRequest
  <2>2. CASE AddressMissing(s) \/ FindNoTcpAgent(s) \/ SendListenRequest(s)
    <3>1. PICK d \in Subdomain \cup {None}, status \in {"202", "404", "500"} :
              Answer(s, d, status)
      BY <2>2 DEF AddressMissing, FindNoTcpAgent, SendListenRequest, ClientRequest
    <3>2. request' \in [Session -> ClientRequest]
      BY <3>1, RequestUpdates DEF Answer
    <3>3. \A t \in Session : request'[t].pc \in {"insert", "send"} =>
              request'[t] = request[t]
      BY <3>1 DEF Answer, ClientRequest
    <3>4. sessions' = sessions
      BY <2>2 DEF AddressMissing, FindNoTcpAgent, SendListenRequest
    <3>5. QED BY <2>1, <3>2, <3>3, <3>4 DEF counters
  <2>3. CASE FindAgent(s)
    <3>1. PICK d \in Subdomain, address \in {"private", "public"},
               a \in Entries \cap Tcp :
              request' = [request EXCEPT ![s] =
                  [pc |-> "insert", subdomain |-> d, agent |-> a,
                   client_nat |-> DetectClientNat(address), answer |-> None]]
      BY <2>3 DEF FindAgent, Found
    <3>2. DetectClientNat(address) \in NatType /\ a \in Agent
      BY DEF DetectClientNat, NatType
    <3>3. request' \in [Session -> ClientRequest]
      BY <3>1, <3>2 DEF ClientRequest
    <3>4. \A t \in Session : request'[t].pc \in {"insert", "send"} =>
              request'[t].agent # None /\ request'[t].client_nat # None
      BY <3>1, <3>2
    <3>5. QED BY <2>1, <2>3, <3>3, <3>4 DEF FindAgent, counters
  <2>4. CASE InsertSession(s)
    <3>1. request' \in [Session -> ClientRequest]
      BY <2>4, RequestUpdates DEF InsertSession
    <3>2. /\ request[s].agent \in Agent
          /\ request[s].client_nat \in NatType
          /\ CanUseDirectConnection(request[s].client_nat) \in BOOLEAN
      BY <2>4 DEF InsertSession, ClientRequest, CanUseDirectConnection
    <3>3. sessions' \in [Session -> SessionRecord \cup {None}]
      BY <2>4, <3>2 DEF InsertSession, SessionRecord, Status
    <3>4. \A t \in Session : request'[t].pc \in {"insert", "send"} =>
              request'[t].agent # None /\ request'[t].client_nat # None
      BY <2>4 DEF InsertSession, ClientRequest
    <3>5. QED BY <2>1, <3>1, <3>3, <3>4 DEF counters
  <2>5. QED BY <1>1, <2>2, <2>3, <2>4 DEF RequestStep
<1>2. ASSUME NEW s \in Session, ReportStep(s) PROVE TypeOK'
  <2>1. AgentsTypeOK' /\ request' = request
    BY <1>2, AgentsUnchanged DEF ReportStep, AgentListening, ClientConnected,
       ConnectionFailed
  <2>2. sessions[s] \in SessionRecord
    BY <1>2, ReportsCount
  <2>3. sessions' \in [Session -> SessionRecord \cup {None}]
    <3>1. CASE AgentListening(s)
      <4>1. PICK e \in Endpoint, nat \in AgentNat, p \in Status :
                sessions' = [sessions EXCEPT ![s] =
                    [[[sessions[s] EXCEPT !.agent_endpoint = e]
                        EXCEPT !.agent_nat = nat] EXCEPT !.status = p]]
        BY <3>1 DEF AgentListening, Status
      <4>2. QED BY <4>1, <2>2, SessionUpdates
    <3>2. CASE ClientConnected(s)
      BY <3>2, <2>2, SessionUpdates DEF ClientConnected, Status
    <3>3. CASE ConnectionFailed(s)
      BY <3>3, <2>2, SessionUpdates DEF ConnectionFailed, Status
    <3>4. QED BY <1>2, <3>1, <3>2, <3>3 DEF ReportStep
  <2>4. relays' \subseteq Session
    BY <1>2 DEF ReportStep, AgentListening, ClientConnected, ConnectionFailed,
       CreateRelay
  <2>5. {direct_successes', relay_used', reports'} \subseteq 0..MaxReports
    <3>1. /\ direct_successes \in Nat /\ relay_used \in Nat
          /\ reports \in 0..MaxReports
      OBVIOUS
    <3>2. direct_successes + relay_used <= reports
      BY DEF CountInv
    <3>3. /\ direct_successes' \in 0..MaxReports
          /\ relay_used' \in 0..MaxReports
          /\ reports' \in 0..MaxReports
      BY <1>2, <3>1, <3>2, ReportsCount DEF counters
    <3>4. QED BY <3>3
  <2>6. QED BY <2>1, <2>3, <2>4, <2>5
<1>3. ASSUME NEW s \in Session, SessionExpires(s) PROVE TypeOK'
  <2>1. sessions' \in [Session -> SessionRecord \cup {None}]
    BY <1>3, SessionUpdates DEF SessionExpires
  <2>2. QED BY <1>3, <2>1, AgentsUnchanged DEF SessionExpires, counters
<1>4. CASE CleanupSessions
  BY <1>4, AgentsUnchanged DEF CleanupSessions, counters
<1>5. ASSUME NEW a \in Agent, AgentStep(a),
             UNCHANGED <<request, sessions, relays, counters, reports>>
      PROVE  TypeOK'
  BY <1>5, AgentStepTyped DEF counters
<1>6. CASE UNCHANGED vars
  BY <1>6, AgentsUnchanged DEF vars, counters
<1>7. QED BY <1>1, <1>2, <1>3, <1>4, <1>5, <1>6 DEF Next

\* TypeOK of TcpFacilitator: sessions, requests and relays keep their types and
\* the counters stay within the number of reports.
THEOREM Typing == Spec => []TypeOK
<1>1. QED BY TypeOKInit, TypeOKNext, CountInvNext, PTL DEF Spec

-----------------------------------------------------------------------------
(* The sessions *)

\* What may become of a session in a step.
LEMMA SessionChanges ==
    ASSUME TypeOK, [Next]_vars, NEW t \in Session
    PROVE  \/ sessions'[t] \in {sessions[t], None}
           \/ InsertSession(t)
           \/ AgentListening(t)
           \/ ClientConnected(t)
           \/ ConnectionFailed(t)
           \/ SessionExpires(t)
<1> USE DEF TypeOK
<1>1. CASE UNCHANGED sessions
  BY <1>1
<1>2. ASSUME NEW s \in Session, s # t,
             \/ InsertSession(s)
             \/ AgentListening(s)
             \/ ClientConnected(s)
             \/ ConnectionFailed(s)
             \/ SessionExpires(s)
      PROVE  sessions'[t] = sessions[t]
  BY <1>2 DEF InsertSession, AgentListening, ClientConnected, ConnectionFailed,
     SessionExpires
<1>3. CASE CleanupSessions
  BY <1>3 DEF CleanupSessions
<1>4. QED BY <1>1, <1>2, <1>3 DEF Next, vars, RequestStep, ReportStep,
          AddressMissing, FindAgent, FindNoTcpAgent, SendListenRequest

\* The session that each of its steps leaves.
LEMMA SessionAfter ==
    ASSUME TypeOK, NEW t \in Session
    PROVE  /\ InsertSession(t) =>
                /\ request[t].pc = "insert"
                /\ sessions'[t].status = "FindingAgent"
           /\ AgentListening(t) =>
                /\ sessions'[t].agent_endpoint \in Endpoint
                /\ sessions'[t].status =
                      IF NeedsHolePunching(sessions'[t].client_nat,
                                           sessions'[t].agent_nat)
                      THEN "HolePunching" ELSE "Ready"
           /\ ClientConnected(t) => sessions'[t].status = "Connected"
           /\ ConnectionFailed(t) => sessions'[t].status = "Relayed"
           /\ SessionExpires(t) =>
                /\ sessions[t] # None
                /\ sessions'[t].status = sessions[t].status
                /\ sessions'[t].agent_endpoint = sessions[t].agent_endpoint
                /\ sessions'[t].client_nat = sessions[t].client_nat
                /\ sessions'[t].agent_nat = sessions[t].agent_nat
<1> USE DEF TypeOK
<1>1. InsertSession(t) => /\ request[t].pc = "insert"
                          /\ sessions'[t].status = "FindingAgent"
  BY DEF InsertSession
<1>2. ASSUME AgentListening(t)
      PROVE  /\ sessions'[t].agent_endpoint \in Endpoint
             /\ sessions'[t].status =
                   IF NeedsHolePunching(sessions'[t].client_nat,
                                        sessions'[t].agent_nat)
                   THEN "HolePunching" ELSE "Ready"
  <2>1. sessions[t] \in SessionRecord
    BY <1>2 DEF AgentListening, Report
  <2>2. PICK e \in Endpoint, nat \in AgentNat :
            sessions' = [sessions EXCEPT ![t] =
                [[[sessions[t] EXCEPT !.agent_endpoint = e]
                    EXCEPT !.agent_nat = nat]
                    EXCEPT !.status =
                        IF NeedsHolePunching(sessions[t].client_nat, nat)
                        THEN "HolePunching" ELSE "Ready"]]
    BY <1>2 DEF AgentListening
  <2>3. /\ sessions'[t].agent_endpoint = e
        /\ sessions'[t].agent_nat = nat
        /\ sessions'[t].client_nat = sessions[t].client_nat
        /\ sessions'[t].status =
              IF NeedsHolePunching(sessions[t].client_nat, nat)
              THEN "HolePunching" ELSE "Ready"
    BY <2>1, <2>2 DEF SessionRecord
  <2>4. QED BY <2>3
<1>3. ASSUME ClientConnected(t) PROVE sessions'[t].status = "Connected"
  <2>1. sessions[t] \in SessionRecord
    BY <1>3 DEF ClientConnected, Report
  <2>2. QED BY <1>3, <2>1 DEF ClientConnected, SessionRecord
<1>4. ASSUME ConnectionFailed(t) PROVE sessions'[t].status = "Relayed"
  <2>1. sessions[t] \in SessionRecord
    BY <1>4 DEF ConnectionFailed, Report
  <2>2. QED BY <1>4, <2>1 DEF ConnectionFailed, SessionRecord
<1>5. ASSUME SessionExpires(t)
      PROVE  /\ sessions[t] # None
             /\ sessions'[t].status = sessions[t].status
             /\ sessions'[t].agent_endpoint = sessions[t].agent_endpoint
             /\ sessions'[t].client_nat = sessions[t].client_nat
             /\ sessions'[t].agent_nat = sessions[t].agent_nat
  <2>1. sessions[t] \in SessionRecord
    BY <1>5 DEF SessionExpires
  <2>2. QED BY <1>5, <2>1 DEF SessionExpires, SessionRecord
<1>6. QED BY <1>1, <1>2, <1>3, <1>4, <1>5

\* Only agent_listening makes a session wait for its client.
LEMMA StrategyNext == TypeOK /\ StrategyFitsNats /\ [Next]_vars => StrategyFitsNats'
<1> SUFFICES ASSUME TypeOK, StrategyFitsNats, [Next]_vars, NEW t \in Session,
                    sessions'[t] # None,
                    sessions'[t].status \in {"Ready", "HolePunching"}
             PROVE  /\ sessions'[t].agent_endpoint # None
                    /\ (sessions'[t].status = "HolePunching") <=>
                          NeedsHolePunching(sessions'[t].client_nat,
                                            sessions'[t].agent_nat)
  BY DEF StrategyFitsNats
<1>1. CASE sessions'[t] = sessions[t]
  BY <1>1 DEF StrategyFitsNats
<1>2. CASE AgentListening(t)
  BY <1>2, SessionAfter
<1>3. CASE SessionExpires(t)
  BY <1>3, SessionAfter DEF StrategyFitsNats
<1>4. QED BY <1>1, <1>2, <1>3, SessionChanges, SessionAfter

\* StrategyFitsNats: whatever reports come, in whatever order, a session that
\* waits for its client has an endpoint and the strategy that its NATs require.
THEOREM SessionsFitNats == Spec => []StrategyFitsNats
<1>1. Init => StrategyFitsNats
  BY DEF Init, StrategyFitsNats
<1>2. QED BY <1>1, TypeOKInit, TypeOKNext, CountInvNext, StrategyNext, PTL
          DEF Spec

-----------------------------------------------------------------------------
(* The counters of /stats *)

\* What is known of a client is what its address said when it asked, and its
\* session is direct exactly if that was a public address.
ClientInv ==
    \A s \in Session :
        /\ request[s].client_nat \in {None, "Open", "Unknown"}
        /\ request[s].pc = "idle" =>
              request[s].client_nat = None /\ sessions[s] = None
        /\ sessions[s] # None =>
              /\ request[s].client_nat # None
              /\ sessions[s].direct_connection <=> request[s].client_nat = "Open"

\* Only the lookup sets the client's NAT, and no request becomes idle again.
LEMMA ClientChanges ==
    ASSUME TypeOK, [Next]_vars, NEW t \in Session
    PROVE  \/ /\ request[t].pc = "idle" /\ request'[t].pc = "insert"
              /\ request'[t].client_nat \in {"Open", "Unknown"}
              /\ sessions' = sessions
           \/ /\ request'[t].client_nat = request[t].client_nat
              /\ request'[t].pc = "idle" => request[t].pc = "idle"
<1> USE DEF TypeOK
<1>1. CASE UNCHANGED request
  BY <1>1
<1>2. ASSUME NEW s \in Session, FindAgent(s)
      PROVE  \/ s # t /\ request'[t] = request[t]
             \/ /\ request[t].pc = "idle" /\ request'[t].pc = "insert"
                /\ request'[t].client_nat \in {"Open", "Unknown"}
                /\ sessions' = sessions
  BY <1>2 DEF FindAgent, DetectClientNat
<1>3. ASSUME NEW s \in Session, InsertSession(s)
      PROVE  /\ request'[t].client_nat = request[t].client_nat
             /\ request'[t].pc = "idle" => request[t].pc = "idle"
  BY <1>3 DEF InsertSession, ClientRequest
<1>4. ASSUME NEW s \in Session,
             AddressMissing(s) \/ FindNoTcpAgent(s) \/ SendListenRequest(s)
      PROVE  /\ request'[t].client_nat = request[t].client_nat
             /\ request'[t].pc = "idle" => request[t].pc = "idle"
  <2>1. PICK d \in Subdomain \cup {None}, status \in {"202", "404", "500"} :
            Answer(s, d, status)
    BY <1>4 DEF AddressMissing, FindNoTcpAgent, SendListenRequest, ClientRequest
  <2>2. QED BY <2>1 DEF Answer, ClientRequest
<1>5. QED BY <1>1, <1>2, <1>3, <1>4 DEF Next, vars, RequestStep, ReportStep,
          AgentListening, ClientConnected, ConnectionFailed, SessionExpires,
          CleanupSessions

\* A session is made for the client that asked, and stays direct or not.
LEMMA DirectKept ==
    ASSUME TypeOK, NEW t \in Session
    PROVE  /\ InsertSession(t) =>
                /\ request[t].client_nat # None
                /\ sessions'[t].direct_connection
                     <=> CanUseDirectConnection(request[t].client_nat)
           /\ \/ AgentListening(t)
              \/ ClientConnected(t)
              \/ ConnectionFailed(t)
              \/ SessionExpires(t)
              => /\ sessions[t] # None
                 /\ sessions'[t].direct_connection
                      <=> sessions[t].direct_connection
<1> USE DEF TypeOK
<1>1. ASSUME InsertSession(t)
      PROVE  /\ request[t].client_nat # None
             /\ sessions'[t].direct_connection
                  <=> CanUseDirectConnection(request[t].client_nat)
  BY <1>1 DEF InsertSession
<1>2. ASSUME AgentListening(t) \/ ClientConnected(t) \/ ConnectionFailed(t)
             \/ SessionExpires(t)
      PROVE  /\ sessions[t] # None
             /\ sessions'[t].direct_connection = sessions[t].direct_connection
  <2>1. sessions[t] # None /\ sessions[t] \in SessionRecord
    BY <1>2 DEF AgentListening, ClientConnected, ConnectionFailed, Report,
       SessionExpires
  <2>2. CASE AgentListening(t)
    <3>1. PICK e \in Endpoint, nat \in AgentNat, p \in Status :
              sessions' = [sessions EXCEPT ![t] =
                  [[[sessions[t] EXCEPT !.agent_endpoint = e]
                      EXCEPT !.agent_nat = nat] EXCEPT !.status = p]]
      BY <2>2 DEF AgentListening, Status
    <3>2. QED BY <2>1, <3>1 DEF SessionRecord
  <2>3. CASE ClientConnected(t)
    BY <2>1, <2>3 DEF ClientConnected, SessionRecord
  <2>4. CASE ConnectionFailed(t)
    BY <2>1, <2>4 DEF ConnectionFailed, SessionRecord
  <2>5. CASE SessionExpires(t)
    BY <2>1, <2>5 DEF SessionExpires, SessionRecord
  <2>6. QED BY <1>2, <2>1, <2>2, <2>3, <2>4, <2>5
<1>3. QED BY <1>1, <1>2

\* ClientInv is inductive, given TypeOK.
LEMMA ClientInvNext == TypeOK /\ ClientInv /\ [Next]_vars => ClientInv'
<1> SUFFICES ASSUME TypeOK, ClientInv, [Next]_vars, NEW t \in Session
             PROVE  /\ request'[t].client_nat \in {None, "Open", "Unknown"}
                    /\ request'[t].pc = "idle" =>
                          request'[t].client_nat = None /\ sessions'[t] = None
                    /\ sessions'[t] # None =>
                          /\ request'[t].client_nat # None
                          /\ sessions'[t].direct_connection
                                <=> request'[t].client_nat = "Open"
  BY DEF ClientInv
<1>1. CASE /\ request[t].pc = "idle" /\ request'[t].pc = "insert"
           /\ request'[t].client_nat \in {"Open", "Unknown"}
           /\ sessions' = sessions
  BY <1>1 DEF ClientInv
<1>2. CASE /\ request'[t].client_nat = request[t].client_nat
           /\ request'[t].pc = "idle" => request[t].pc = "idle"
  <2>1. CASE sessions'[t] \in {sessions[t], None}
    BY <1>2, <2>1 DEF ClientInv
  <2>2. CASE InsertSession(t)
    <3>1. /\ request[t].pc = "insert" /\ request[t].client_nat # None
          /\ sessions'[t].direct_connection
               <=> CanUseDirectConnection(request[t].client_nat)
      BY <2>2, DirectKept, SessionAfter
    <3>2. request[t].client_nat \in {"Open", "Unknown"}
      BY <3>1 DEF ClientInv
    <3>3. CanUseDirectConnection(request[t].client_nat)
            <=> request[t].client_nat = "Open"
      BY <3>2 DEF CanUseDirectConnection, NatType
    <3>4. QED BY <1>2, <3>1, <3>2, <3>3
  <2>3. CASE AgentListening(t) \/ ClientConnected(t) \/ ConnectionFailed(t)
             \/ SessionExpires(t)
    BY <1>2, <2>3, DirectKept DEF ClientInv
  <2>4. QED BY <2>1, <2>2, <2>3, SessionChanges
<1>3. QED BY <1>1, <1>2, ClientChanges

\* A success is counted by a report on a session whose client fits it.
LEMMA SuccessesNext ==
    TypeOK /\ ClientInv /\ SuccessesFitClients /\ [Next]_vars
        => SuccessesFitClients'
<1> SUFFICES ASSUME TypeOK, ClientInv, SuccessesFitClients, [Next]_vars
             PROVE  SuccessesFitClients'
  OBVIOUS
<1>1. \A s \in Session : request[s].client_nat \in {"Open", "Unknown"} =>
          request'[s].client_nat = request[s].client_nat
  BY ClientChanges DEF ClientInv, NatType
<1>2. \A address : DetectClientNat(address) \in {"Open", "Unknown"}
  BY DEF DetectClientNat
<1>3. CASE UNCHANGED counters
  BY <1>1, <1>2, <1>3 DEF SuccessesFitClients, counters, DetectClientNat
<1>4. ASSUME NEW s \in Session, ClientConnected(s) PROVE SuccessesFitClients'
  <2>1. MarkSuccess(sessions[s].direct_connection) /\ sessions[s] # None
    BY <1>4 DEF ClientConnected, Report
  <2>2. request[s].client_nat =
            IF sessions[s].direct_connection THEN "Open" ELSE "Unknown"
    BY <2>1 DEF ClientInv
  <2>3. QED BY <1>1, <2>1, <2>2 DEF MarkSuccess, SuccessesFitClients,
            DetectClientNat
<1>5. QED BY <1>3, <1>4, Zenon DEF Next, vars, RequestStep, ReportStep,
          AddressMissing, FindAgent, FindNoTcpAgent, InsertSession,
          SendListenRequest, AgentListening, ConnectionFailed,
          SessionExpires, CleanupSessions

\* SuccessesFitClients: whatever is confirmed, and however late, what /stats
\* counts as direct or relayed fits the addresses of the clients that asked.
THEOREM StatisticsFitClients == Spec => []SuccessesFitClients
<1>1. Init => ClientInv /\ SuccessesFitClients
  BY DEF Init, ClientInv, SuccessesFitClients
<1>2. QED BY <1>1, TypeOKInit, TypeOKNext, CountInvNext, ClientInvNext,
          SuccessesNext, PTL DEF Spec

\* Of a counted set, what is left of it is counted; one more counts for one more.
LEMMA CountedSets ==
    ASSUME NEW S, IsFiniteSet(S), NEW n \in Nat, Cardinality(S) <= n
    PROVE  /\ \A T \in SUBSET S : IsFiniteSet(T) /\ Cardinality(T) <= n
           /\ \A x : \A T \in SUBSET (S \cup {x}) :
                 IsFiniteSet(T) /\ Cardinality(T) <= n + 1
<1>1. ASSUME NEW T \in SUBSET S PROVE IsFiniteSet(T) /\ Cardinality(T) <= n
  <2>1. Cardinality(S) \in Nat
    BY FS_CardinalityType
  <2>2. IsFiniteSet(T) /\ Cardinality(T) <= Cardinality(S)
    BY FS_Subset
  <2>3. Cardinality(T) \in Nat
    BY <2>2, FS_CardinalityType
  <2>4. QED BY <2>1, <2>2, <2>3
<1>2. ASSUME NEW x, NEW T \in SUBSET (S \cup {x})
      PROVE  IsFiniteSet(T) /\ Cardinality(T) <= n + 1
  <2>1. Cardinality(S) \in Nat
    BY FS_CardinalityType
  <2>2. /\ IsFiniteSet(S \cup {x})
        /\ Cardinality(S \cup {x}) <= n + 1
    <3>1. /\ IsFiniteSet(S \cup {x})
          /\ Cardinality(S \cup {x})
               = IF x \in S THEN Cardinality(S) ELSE Cardinality(S) + 1
      BY FS_AddElement, Zenon
    <3>2. QED BY <2>1, <3>1
  <2>3. Cardinality(S \cup {x}) \in Nat
    BY <2>2, FS_CardinalityType
  <2>4. IsFiniteSet(T) /\ Cardinality(T) <= Cardinality(S \cup {x})
    BY <2>2, FS_Subset
  <2>5. Cardinality(T) \in Nat
    BY <2>4, FS_CardinalityType
  <2>6. QED BY <2>2, <2>3, <2>4, <2>5
<1>3. QED BY <1>1, <1>2

\* ConnectedAreCounted compares numbers only if there are any.
ConnectedInv ==
    /\ IsFiniteSet(Connected(TRUE)) /\ IsFiniteSet(Connected(FALSE))
    /\ ConnectedAreCounted

\* A session comes to stand connected by a confirmation only, direct as it was.
LEMMA ConnectedChanges ==
    ASSUME TypeOK, [Next]_vars, NEW t \in Session, NEW direct \in BOOLEAN,
           t \in Connected(direct)'
    PROVE  \/ t \in Connected(direct)
           \/ ClientConnected(t) /\ sessions[t].direct_connection = direct
<1> USE DEF Connected
<1>1. CASE sessions'[t] = sessions[t]
  BY <1>1
<1>2. CASE InsertSession(t) \/ AgentListening(t) \/ ConnectionFailed(t)
  <2>1. sessions'[t].status # "Connected"
    BY <1>2, SessionAfter
  <2>2. QED BY <2>1
<1>3. CASE SessionExpires(t)
  <2>1. /\ sessions[t] # None
        /\ sessions'[t].status = sessions[t].status
        /\ sessions'[t].direct_connection <=> sessions[t].direct_connection
    BY <1>3, SessionAfter, DirectKept
  <2>2. sessions[t].direct_connection \in BOOLEAN
    BY <2>1 DEF TypeOK, SessionRecord
  <2>3. sessions'[t].direct_connection = direct
    OBVIOUS
  <2>4. QED BY <2>1, <2>2, <2>3
<1>4. CASE ClientConnected(t)
  <2>1. /\ sessions[t] # None
        /\ sessions'[t].direct_connection <=> sessions[t].direct_connection
    BY <1>4, DirectKept
  <2>2. sessions[t].direct_connection \in BOOLEAN
    BY <2>1 DEF TypeOK, SessionRecord
  <2>3. sessions'[t].direct_connection = direct
    OBVIOUS
  <2>4. QED BY <1>4, <2>1, <2>2, <2>3
<1>5. QED BY <1>1, <1>2, <1>3, <1>4, SessionChanges

\* A step that confirms no session leaves the counters alone.
LEMMA CountersChange ==
    ASSUME TypeOK, [Next]_vars
    PROVE  UNCHANGED counters \/ \E s \in Session : ClientConnected(s)
BY Zenon DEF Next, vars, RequestStep, ReportStep, AddressMissing, FindAgent,
   FindNoTcpAgent, InsertSession, SendListenRequest, AgentListening,
   ConnectionFailed, SessionExpires, CleanupSessions

\* ConnectedInv is inductive, given TypeOK.
LEMMA ConnectedInvNext == TypeOK /\ ConnectedInv /\ [Next]_vars => ConnectedInv'
<1> SUFFICES ASSUME TypeOK, ConnectedInv, [Next]_vars PROVE ConnectedInv'
  OBVIOUS
<1>1. direct_successes \in Nat /\ relay_used \in Nat
  BY DEF TypeOK
<1>2. /\ IsFiniteSet(Connected(TRUE)) /\ Cardinality(Connected(TRUE)) <= direct_successes
      /\ IsFiniteSet(Connected(FALSE)) /\ Cardinality(Connected(FALSE)) <= relay_used
  BY DEF ConnectedInv, ConnectedAreCounted
<1>3. Connected(TRUE)' \subseteq Session /\ Connected(FALSE)' \subseteq Session
  BY DEF Connected
<1>4. CASE \A t \in Session : ~ClientConnected(t)
  <2>1. UNCHANGED counters
    BY <1>4, CountersChange
  <2>2. /\ Connected(TRUE)' \in SUBSET Connected(TRUE)
        /\ Connected(FALSE)' \in SUBSET Connected(FALSE)
    BY <1>3, <1>4, ConnectedChanges
  <2>3. /\ IsFiniteSet(Connected(TRUE)') /\ Cardinality(Connected(TRUE)') <= direct_successes
        /\ IsFiniteSet(Connected(FALSE)') /\ Cardinality(Connected(FALSE)') <= relay_used
    BY <1>1, <1>2, <2>2, CountedSets
  <2>4. QED BY <2>1, <2>3 DEF counters, ConnectedInv, ConnectedAreCounted
<1>5. ASSUME NEW s \in Session, ClientConnected(s) PROVE ConnectedInv'
  <2>1. /\ sessions' = [sessions EXCEPT ![s].status = "Connected"]
        /\ MarkSuccess(sessions[s].direct_connection)
        /\ sessions[s].direct_connection \in BOOLEAN
    BY <1>5 DEF ClientConnected, Report, TypeOK, SessionRecord
  <2>2. \A t \in Session : t # s => sessions'[t] = sessions[t]
    BY <2>1 DEF TypeOK
  <2>3. /\ Connected(TRUE)' \in SUBSET (Connected(TRUE) \cup {s})
        /\ Connected(FALSE)' \in SUBSET (Connected(FALSE) \cup {s})
    BY <1>3, <2>2 DEF Connected
  <2>4. CASE sessions[s].direct_connection = TRUE
    <3>1. direct_successes' = direct_successes + 1 /\ relay_used' = relay_used
      BY <2>1, <2>4 DEF MarkSuccess
    <3>2. Connected(FALSE)' \in SUBSET Connected(FALSE)
      BY <1>3, <2>2, <2>4, ConnectedChanges DEF Connected
    <3>3. /\ IsFiniteSet(Connected(TRUE)')
          /\ Cardinality(Connected(TRUE)') <= direct_successes + 1
      BY <1>1, <1>2, <2>3, CountedSets
    <3>4. IsFiniteSet(Connected(FALSE)') /\ Cardinality(Connected(FALSE)') <= relay_used
      BY <1>1, <1>2, <3>2, CountedSets
    <3>5. QED BY <3>1, <3>3, <3>4 DEF ConnectedInv, ConnectedAreCounted
  <2>5. CASE sessions[s].direct_connection = FALSE
    <3>1. relay_used' = relay_used + 1 /\ direct_successes' = direct_successes
      BY <2>1, <2>5 DEF MarkSuccess
    <3>2. Connected(TRUE)' \in SUBSET Connected(TRUE)
      BY <1>3, <2>2, <2>5, ConnectedChanges DEF Connected
    <3>3. /\ IsFiniteSet(Connected(FALSE)')
          /\ Cardinality(Connected(FALSE)') <= relay_used + 1
      BY <1>1, <1>2, <2>3, CountedSets
    <3>4. IsFiniteSet(Connected(TRUE)') /\ Cardinality(Connected(TRUE)') <= direct_successes
      BY <1>1, <1>2, <3>2, CountedSets
    <3>5. QED BY <3>1, <3>3, <3>4 DEF ConnectedInv, ConnectedAreCounted
  <2>6. QED BY <2>1, <2>4, <2>5
<1>6. QED BY <1>4, <1>5

\* ConnectedAreCounted: for any number of sessions and reports, no session
\* stands connected that /stats has not counted, under the kind it was found.
THEOREM ConnectionsAreCounted == Spec => []ConnectedAreCounted
<1>1. ASSUME Init PROVE ConnectedInv
  <2>1. Connected(TRUE) = {} /\ Connected(FALSE) = {}
    BY <1>1 DEF Init, Connected
  <2>2. IsFiniteSet({}) /\ Cardinality({}) = 0
    BY FS_EmptySet
  <2>3. /\ IsFiniteSet(Connected(TRUE)) /\ Cardinality(Connected(TRUE)) = 0
        /\ IsFiniteSet(Connected(FALSE)) /\ Cardinality(Connected(FALSE)) = 0
    BY <2>1, <2>2, Zenon
  <2>4. direct_successes = 0 /\ relay_used = 0
    BY <1>1 DEF Init
  <2>5. ConnectedAreCounted
    <3> DEFINE n == Cardinality(Connected(TRUE))
               m == Cardinality(Connected(FALSE))
    <3>1. n = 0 /\ m = 0
      BY <2>3, Zenon
    <3> HIDE DEF n, m
    <3>2. n <= direct_successes /\ m <= relay_used
      BY <2>4, <3>1
    <3>3. QED BY <3>2, Zenon DEF ConnectedAreCounted, n, m
  <2>6. QED BY <2>3, <2>5 DEF ConnectedInv
<1>2. ConnectedInv => ConnectedAreCounted
  BY DEF ConnectedInv
<1>3. QED BY <1>1, <1>2, TypeOKInit, TypeOKNext, CountInvNext,
          ConnectedInvNext, PTL DEF Spec
=============================================================================
