---------------------------- MODULE TcpFacilitator ----------------------------
(***************************************************************************)
(* ConnectionFacilitator of src/tcp/mod.rs, on one server: a client asks   *)
(* for the TCP service of an agent, a session is kept for the two, and     *)
(* both report on it over HTTP and WebSocket.                              *)
(*                                                                         *)
(* Every method that changes a session holds the lock of the map for its   *)
(* whole length, so it is one step; request_connection takes three locks,  *)
(* one after the other.  The reports come from whoever has the session id: *)
(* the server gives it to the client in its 202, and to nobody else (the   *)
(* message that would tell the agent is lost with the receiving end of its *)
(* channel, see LocalAgents).  They come in any order, and repeatedly.     *)
(*                                                                         *)
(* An operator whose name extends another's by what it does differently    *)
(* (AgentListeningByEarlierNat) is no part of the model: it is a plausible *)
(* mistake in that code, which a property is expected to notice.           *)
(***************************************************************************)
EXTENDS LocalAgents

CONSTANTS
    Session,            \* the session ids
    Endpoint,           \* the addresses at which agents listen
    AgentNat,           \* what they say of their NAT: a type, or None
    ConnectInfo,        \* whether the router is served with the clients'
                        \* addresses: a set of booleans, {FALSE} in main.rs
    CleanupCalled,      \* something calls cleanup_old_sessions (in main.rs
                        \* it has no route, and no task calls it)
    MaxReports          \* bound on the reports of clients and agents

NatType == {"Open", "FullCone", "RestrictedCone", "PortRestrictedCone",
            "Symmetric", "Unknown"}

ASSUME FacilitatorAssumption ==
    /\ AgentNat \subseteq NatType \cup {None}
    /\ None \notin NatType \cup Endpoint
    /\ ConnectInfo \subseteq BOOLEAN
    /\ CleanupCalled \in BOOLEAN
    /\ MaxReports \in Nat

VARIABLES
    request,            \* request_connection, per session id
    sessions,
    relays,             \* SimpleRelayServer::connections
    direct_successes, relay_used,
    reports

counters == <<direct_successes, relay_used>>
vars == <<agentVars, request, sessions, relays, counters, reports>>

Status == {"FindingAgent", "HolePunching", "Ready", "Connected", "Relayed"}

SessionRecord ==
    [agent_id : Agent, agent_endpoint : Endpoint \cup {None}, status : Status,
     client_nat : NatType, agent_nat : NatType \cup {None},
     direct_connection : BOOLEAN, old : BOOLEAN]

\* subdomain and agent are locals of request_connection; answer: the response.
ClientRequest ==
    [pc : {"idle", "insert", "send", "done"}, subdomain : Subdomain \cup {None},
     agent : Agent \cup {None}, client_nat : NatType \cup {None},
     answer : {None, "202", "404", "500"}]

Init ==
    /\ AgentsInit
    /\ request = [s \in Session |->
          [pc |-> "idle", subdomain |-> None, agent |-> None,
           client_nat |-> None, answer |-> None]]
    /\ sessions = [s \in Session |-> None]
    /\ relays = {}
    /\ direct_successes = 0 /\ relay_used = 0
    /\ reports = 0

-----------------------------------------------------------------------------
(* The choice of a strategy *)

\* detect_client_nat: all that is known of the client is its address.
DetectClientNat(address) == IF address = "private" THEN "Unknown" ELSE "Open"

CanUseDirectConnectionIfAsked(nat) == nat \notin {None, "Symmetric"}

CanUseDirectConnection(nat) == nat \notin {None, "Symmetric", "Unknown"}

NeedsHolePunching(client, agent) == None \notin {client, agent}
                                    /\ "Open" \notin {client, agent}

-----------------------------------------------------------------------------
(* request_connection *)

Answer(s, d, status) ==
    request' = [request EXCEPT ![s].pc = "done", ![s].subdomain = d,
                               ![s].answer = status]

\* The extractor of the client's address fails before the handler is called.
AddressMissing(s) ==
    /\ request[s].pc = "idle"
    /\ FALSE \in ConnectInfo
    /\ \E d \in Subdomain : Answer(s, d, "500")
    /\ UNCHANGED <<agentVars, sessions, relays, counters, reports>>

FindAgentOfUnknownAddress(s) ==
    /\ request[s].pc = "idle"
    /\ TRUE \in ConnectInfo
    /\ \E d \in Subdomain : \E a \in Found(d) \cap Tcp :
          request' = [request EXCEPT ![s].pc = "insert", ![s].subdomain = d,
                                     ![s].agent = a]
    /\ UNCHANGED <<agentVars, sessions, relays, counters, reports>>

FindAgent(s) ==
    /\ request[s].pc = "idle"
    /\ TRUE \in ConnectInfo
    /\ \E d \in Subdomain, address \in {"private", "public"} :
       \E a \in Found(d) \cap Tcp :
          request' = [request EXCEPT ![s] =
              [pc |-> "insert", subdomain |-> d, agent |-> a,
               client_nat |-> DetectClientNat(address), answer |-> None]]
    /\ UNCHANGED <<agentVars, sessions, relays, counters, reports>>

\* TunnelNotFound, or an agent that serves HTTP: both become a 404.
FindNoTcpAgent(s) ==
    /\ request[s].pc = "idle"
    /\ TRUE \in ConnectInfo
    /\ \E d \in Subdomain :
          /\ Found(d) = {} \/ Found(d) \ Tcp # {}
          /\ Answer(s, d, "404")
    /\ UNCHANGED <<agentVars, sessions, relays, counters, reports>>

\* The session is in the map before the agent is asked.
InsertSession(s) ==
    /\ request[s].pc = "insert"
    /\ sessions' = [sessions EXCEPT ![s] =
          [agent_id |-> request[s].agent, agent_endpoint |-> None,
           status |-> "FindingAgent",
           client_nat |-> request[s].client_nat, agent_nat |-> None,
           direct_connection |-> CanUseDirectConnection(request[s].client_nat),
           old |-> FALSE]]
    /\ request' = [request EXCEPT ![s].pc = "send"]
    /\ UNCHANGED <<agentVars, relays, counters, reports>>

\* send_message; when it fails, the session stays.
SendListenRequest(s) ==
    /\ request[s].pc = "send"
    /\ Answer(s, request[s].subdomain,
              IF CanReceive(request[s].agent) THEN "202" ELSE "404")
    /\ UNCHANGED <<agentVars, sessions, relays, counters, reports>>

-----------------------------------------------------------------------------
(* The reports *)

\* A report on a session in the map, by one who has its id.  (On any other
\* the report is an error, and changes nothing.)
Report(s) ==
    /\ request[s].answer = "202"
    /\ sessions[s] # None
    /\ reports < MaxReports
    /\ reports' = reports + 1

AgentListeningByEarlierNat(s) ==
    /\ Report(s)
    /\ \E endpoint \in Endpoint, nat \in AgentNat :
          sessions' = [sessions EXCEPT ![s] = [@ EXCEPT
              !.agent_endpoint = endpoint,
              !.agent_nat = nat,
              !.status = IF NeedsHolePunching(sessions[s].client_nat,
                                             sessions[s].agent_nat)
                         THEN "HolePunching" ELSE "Ready"]]
    /\ UNCHANGED <<agentVars, request, relays, counters>>

\* agent_listening, whatever the status of the session.
AgentListening(s) ==
    /\ Report(s)
    /\ \E endpoint \in Endpoint, nat \in AgentNat :
          sessions' = [sessions EXCEPT ![s] = [@ EXCEPT
              !.agent_endpoint = endpoint,
              !.agent_nat = nat,
              !.status = IF NeedsHolePunching(sessions[s].client_nat, nat)
                         THEN "HolePunching" ELSE "Ready"]]
    /\ UNCHANGED <<agentVars, request, relays, counters>>

\* mark_success: what is not direct counts as relayed.
MarkSuccess(direct) ==
    IF direct
    THEN direct_successes' = direct_successes + 1 /\ UNCHANGED relay_used
    ELSE relay_used' = relay_used + 1 /\ UNCHANGED direct_successes

ClientConnectedCountsNoRelayed(s) ==
    /\ Report(s)
    /\ sessions' = [sessions EXCEPT ![s].status = "Connected"]
    /\ IF sessions[s].status = "Relayed" THEN UNCHANGED counters
       ELSE MarkSuccess(sessions[s].direct_connection)
    /\ UNCHANGED <<agentVars, request, relays>>

\* client_connected, on the ConnectionEstablished of an agent.
ClientConnected(s) ==
    /\ Report(s)
    /\ sessions' = [sessions EXCEPT ![s].status = "Connected"]
    /\ MarkSuccess(sessions[s].direct_connection)
    /\ UNCHANGED <<agentVars, request, relays>>

\* create_relay.
CreateRelay(s) == relays' = relays \cup {s}

\* connection_failed; mark_failed only logs.
ConnectionFailed(s) ==
    /\ Report(s)
    /\ CreateRelay(s)
    /\ sessions' = [sessions EXCEPT ![s].status = "Relayed"]
    /\ UNCHANGED <<agentVars, request, counters>>

\* created_at falls behind the cutoff of cleanup_sessions.
SessionExpires(s) ==
    /\ sessions[s] # None
    /\ ~sessions[s].old
    /\ sessions' = [sessions EXCEPT ![s].old = TRUE]
    /\ UNCHANGED <<agentVars, request, relays, counters, reports>>

IsOld(s) == sessions[s] # None /\ sessions[s].old

CleanupSessions ==
    /\ CleanupCalled
    /\ sessions' = [s \in Session |-> IF IsOld(s) THEN None ELSE sessions[s]]
    /\ UNCHANGED <<agentVars, request, relays, counters, reports>>

-----------------------------------------------------------------------------
RequestStep(s) ==
    \/ AddressMissing(s)
    \/ FindAgent(s)
    \/ FindNoTcpAgent(s)
    \/ InsertSession(s)
    \/ SendListenRequest(s)

ReportStep(s) ==
    \/ AgentListening(s)
    \/ ClientConnected(s)
    \/ ConnectionFailed(s)

Next ==
    \/ \E s \in Session :
          RequestStep(s) \/ ReportStep(s) \/ SessionExpires(s)
    \/ CleanupSessions
    \/ \E a \in Agent :
          /\ AgentStep(a)
          /\ UNCHANGED <<request, sessions, relays, counters, reports>>

Spec == Init /\ [][Next]_vars

-----------------------------------------------------------------------------
(* What get_session_status answers to a client that polls *)

Polled(s) ==
    IF sessions[s] = None THEN "404"
    ELSE CASE sessions[s].status = "FindingAgent" -> "pending"
           [] sessions[s].status = "HolePunching" -> "hole_punching"
           [] sessions[s].status = "Ready" ->
                IF sessions[s].agent_endpoint # None THEN "ready" ELSE "pending"
           [] sessions[s].status = "Connected" -> "connected"
           [] sessions[s].status = "Relayed" -> "relayed"

-----------------------------------------------------------------------------
(* Properties *)

\* The sessions, their requests and the counters.
TypeOK ==
    /\ AgentsTypeOK
    /\ request \in [Session -> ClientRequest]
    /\ sessions \in [Session -> SessionRecord \cup {None}]
    /\ relays \subseteq Session
    /\ {direct_successes, relay_used, reports} \subseteq 0..MaxReports
    /\ \A s \in Session : request[s].pc \in {"insert", "send"} =>
                             request[s].agent # None /\ request[s].client_nat # None

\* After any number of reports in any order, a session that waits for the
\* client to connect has an endpoint, and asks for hole punching exactly when
\* the two NATs it has now require it.
StrategyFitsNats ==
    \A s \in Session :
        sessions[s] # None /\ sessions[s].status \in {"Ready", "HolePunching"} =>
            /\ sessions[s].agent_endpoint # None
            /\ (sessions[s].status = "HolePunching") <=>
                  NeedsHolePunching(sessions[s].client_nat, sessions[s].agent_nat)

\* How far a session has come, as its client is told.
Stage(s) ==
    CASE Polled(s) = "pending" -> 0
      [] Polled(s) \in {"hole_punching", "ready"} -> 1
      [] Polled(s) \in {"connected", "relayed"} -> 2

\* "Connection established successfully" and "Connection relayed through
\* server" (get_session_status) are final: a client that has polled one of them
\* is not told later that the traversal is in progress, or to connect.  (The
\* code does not keep to it: AgentListening overwrites either.)
PollsGoForward ==
    [][ \A s \in Session :
          sessions[s] # None /\ sessions'[s] # None => Stage(s)' >= Stage(s) ]_vars

\* The sessions that stand connected, and were found direct or not.
Connected(direct) ==
    {s \in Session : /\ sessions[s] # None
                     /\ sessions[s].status = "Connected"
                     /\ sessions[s].direct_connection = direct}

\* /stats never has fewer successes, direct or other, than sessions that stand
\* connected, though the reports on a session come twice and in any order, a
\* relayed one is confirmed, and a connected one set back and confirmed again.
ConnectedAreCounted ==
    /\ Cardinality(Connected(TRUE)) <= direct_successes
    /\ Cardinality(Connected(FALSE)) <= relay_used

\* What /stats counts as direct or relayed fits the addresses from which
\* clients asked: the counters are moved by a confirmation that may come long
\* after the strategy was chosen, and after the session was relayed.
SuccessesFitClients ==
    /\ direct_successes > 0 =>
          \E s \in Session : request[s].client_nat = DetectClientNat("public")
    /\ relay_used > 0 =>
          \E s \in Session : request[s].client_nat = DetectClientNat("private")
=============================================================================
