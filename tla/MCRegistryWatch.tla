--------------------------- MODULE MCRegistryWatch ---------------------------
(***************************************************************************)
(* AgentRegistry watched by a history variable that tells the stamp of a   *)
(* heartbeat from that of a registration.                                  *)
(***************************************************************************)
EXTENDS AgentRegistry

\* The subdomains whose row carries the fresh stamp of a heartbeat.
VARIABLE stamped

WatchInit == Init /\ stamped = {}

Watch == stamped' =
    {d \in Rows' : /\ agents'[d].fresh
                   /\ \/ d \in stamped
                      \/ \E c \in Conn : AgentHeartbeat(c)
                                         /\ agents'[d].id = conn[c].agent}

WatchSpec == WatchInit /\ [][Next /\ Watch]_<<vars, stamped>>

\* test_agent_cleanup: "Agent should still be there (heartbeat just
\* happened)": no cleanup removes an agent whose row has a fresh heartbeat.
HeartbeatKeepsAgent ==
    [][ \A s \in Server : \A e \in entries[s] :
          up'[s] /\ RowsOfId(e.id) \cap stamped # {}
          => \E f \in entries'[s] : f.id = e.id ]_vars
=============================================================================
