---------------------------- MODULE AgentRegistry ----------------------------
(***************************************************************************)
(* Which server serves which subdomain: the agents and servers tables      *)
(* (src/db/mod.rs), the in-memory registry of every server                 *)
(* (src/agent/registry.rs), the WebSocket handler that fills it            *)
(* (src/agent/mod.rs), the loop that empties it (Cluster::cleanup_loop)    *)
(* and Cluster::shutdown.                                                  *)
(*                                                                         *)
(* Every database call is an action of its own.  Time is abstracted to     *)
(* what the code asks of it: whether a timestamp is newer than the cutoff  *)
(* (`fresh', not `old').  A timestamp goes stale at any moment; that of a  *)
(* running server only by a fault.                                         *)
(*                                                                         *)
(* An operator whose name extends another's by what it does differently    *)
(* (MarkServersUnhealthyIfAny) is no part of the model: it is a plausible  *)
(* mistake in that code, which a property is expected to notice.           *)
(***************************************************************************)
EXTENDS Integers

CONSTANTS
    Server, Subdomain,
    Conn,               \* agents, each on at most one WebSocket connection
    Authorized,         \* the agents whose API key is in the database
    AgentId,            \* the uuids; one that nothing refers to is new again
    Stoppable,          \* the servers that may get a Ctrl-C
    Restarted,          \* the servers that are certain to be started again
    None,
    UniqueSubdomain,    \* whether the agents table has the unique subdomain
                        \* that register_agent's ON CONFLICT names: a set of
                        \* booleans ({FALSE} for migrations/001_init.sql)
    NullReadsAsText,    \* whether the database client reads a NULL as a
                        \* String: a set of booleans ({FALSE} for libsql,
                        \* which returns an error)
    MaxFaults           \* bound: crashes, lost connections, database errors
                        \* and late heartbeats of running servers, together

ASSUME RegistryAssumption ==
    /\ Authorized \subseteq Conn
    /\ Stoppable \cup Restarted \subseteq Server
    /\ None \notin Server \cup Subdomain \cup AgentId
    /\ None \notin [id : AgentId, server_id : Server, active : BOOLEAN,
                    fresh : BOOLEAN]
    /\ UniqueSubdomain \subseteq BOOLEAN
    /\ NullReadsAsText \subseteq BOOLEAN
    /\ MaxFaults \in Nat

VARIABLES
    up,         \* the server processes that run
    servers,    \* table servers
    agents,     \* table agents: at most one row per subdomain, or None
    entries,    \* AgentRegistry::agents of each server
    conn,       \* handle_agent_connection, per connection
    loop,       \* where cleanup_loop of each server is
    doomed,     \* cleanup_stale's list of ids still to unregister
    stopping,   \* how far Cluster::shutdown of this process has come
    faults

tables == <<servers, agents>>
cleanup == <<loop, doomed>>
vars == <<up, servers, agents, entries, conn, loop, doomed, stopping, faults>>

-----------------------------------------------------------------------------
ServerRow == [is_healthy : BOOLEAN, fresh : BOOLEAN]

AgentRow == [id : AgentId, server_id : Server, active : BOOLEAN, fresh : BOOLEAN]

Entry == [id : AgentId, subdomain : Subdomain, old : BOOLEAN]

\* pc: no connection, waiting for a message, or an await of registry.register;
\* agent: the handler's agent_id; subdomain, id, owner: locals of register.
Connection ==
    [pc : {"closed", "open", "lookup", "owner", "upsert", "insert"},
     server : Server \cup {None}, agent : AgentId \cup {None},
     subdomain : Subdomain \cup {None}, id : AgentId \cup {None},
     owner : Server \cup {None}]

Closed == [pc |-> "closed", server |-> None, agent |-> None,
           subdomain |-> None, id |-> None, owner |-> None]

Fault == faults < MaxFaults /\ faults' = faults + 1

Listed(d) == agents[d] # None

\* What get_agent_by_subdomain finds.
Active(d) == agents[d] # None /\ agents[d].active

\* The handler returns, and the connection with it.
Drop(c) == conn' = [conn EXCEPT ![c] = Closed]

MoveConn(c, place) == conn' = [conn EXCEPT ![c].pc = place]

\* The subdomains that have a row.
Rows == {d \in Subdomain : agents[d] # None}

\* UPDATE agents SET active = 0, for the rows of D.
Deactivate(D) ==
    agents' = [d \in Subdomain |->
        IF d \in D THEN [agents[d] EXCEPT !.active = FALSE] ELSE agents[d]]

\* UPDATE agents SET active = 0, last_heartbeat = now, for the rows of D.
Unlist(D) ==
    agents' = [d \in Subdomain |->
        IF d \in D THEN [agents[d] EXCEPT !.active = FALSE, !.fresh = TRUE]
        ELSE agents[d]]

\* The rows of an agent id, and of a server.
RowsOfId(id) == {d \in Rows : agents[d].id = id}
RowsOfServer(s) == {d \in Rows : agents[d].server_id = s}

\* An id that no row, no entry and no handler holds.
NewId(id) ==
    /\ RowsOfId(id) = {}
    /\ \A s \in Server : \A e \in entries[s] : e.id # id
    /\ \A c \in Conn : id \notin {conn[c].agent, conn[c].id}

-----------------------------------------------------------------------------
Init ==
    /\ up = [s \in Server |-> TRUE]
    /\ servers = [s \in Server |-> [is_healthy |-> TRUE, fresh |-> TRUE]]
    /\ agents = [d \in Subdomain |-> None]
    /\ entries = [s \in Server |-> {}]
    /\ conn = [c \in Conn |-> Closed]
    /\ loop = [s \in Server |-> "rest"]
    /\ doomed = [s \in Server |-> {}]
    /\ stopping = [s \in Server |-> "no"]
    /\ faults = 0

-----------------------------------------------------------------------------
(* handle_agent_connection and registry.register *)

\* The load balancer hands the connection to some running server.
Connect(c) ==
    /\ conn[c].pc = "closed"
    /\ \E s \in Server :
          /\ up[s]
          /\ conn' = [conn EXCEPT ![c] = [Closed EXCEPT !.pc = "open",
                                                        !.server = s]]
    /\ UNCHANGED <<up, tables, entries, cleanup, stopping, faults>>

RegisterWithoutId(c) ==
    /\ conn[c].pc = "open"
    /\ c \in Authorized
    /\ \E d \in Subdomain :
          conn' = [conn EXCEPT ![c].pc = "lookup", ![c].subdomain = d]
    /\ UNCHANGED <<up, tables, entries, cleanup, stopping, faults>>

\* A Register message with a key of the database.  A connection may register
\* again; the entry of its first registration stays.
Register(c) ==
    /\ conn[c].pc = "open"
    /\ c \in Authorized
    /\ \E d \in Subdomain, id \in AgentId :
          /\ NewId(id)
          /\ conn' = [conn EXCEPT ![c].pc = "lookup", ![c].subdomain = d,
                                  ![c].id = id]
    /\ UNCHANGED <<up, tables, entries, cleanup, stopping, faults>>

\* Ok(false): the handler returns.
RejectKey(c) ==
    /\ conn[c].pc = "open"
    /\ c \notin Authorized
    /\ Drop(c)
    /\ UNCHANGED <<up, tables, entries, cleanup, stopping, faults>>

\* get_agent_by_subdomain finds no active row, or a row of this server.
LookupFree(c) ==
    LET d == conn[c].subdomain IN
    /\ conn[c].pc = "lookup"
    /\ Active(d) => TRUE \in NullReadsAsText /\ agents[d].server_id = conn[c].server
    /\ MoveConn(c, "upsert")
    /\ UNCHANGED <<up, tables, entries, cleanup, stopping, faults>>

\* It finds a row of another server.
LookupTaken(c) ==
    LET d == conn[c].subdomain IN
    /\ conn[c].pc = "lookup"
    /\ Active(d)
    /\ TRUE \in NullReadsAsText
    /\ agents[d].server_id # conn[c].server
    /\ conn' = [conn EXCEPT ![c].pc = "owner", ![c].owner = agents[d].server_id]
    /\ UNCHANGED <<up, tables, entries, cleanup, stopping, faults>>

\* It finds a row, and fails to read its tunnel_id, which is always NULL.
LookupUnreadable(c) ==
    /\ conn[c].pc = "lookup"
    /\ Active(conn[c].subdomain)
    /\ FALSE \in NullReadsAsText
    /\ Drop(c)
    /\ UNCHANGED <<up, tables, entries, cleanup, stopping, faults>>

\* get_server: SubdomainTaken.
OwnerHealthy(c) ==
    /\ conn[c].pc = "owner"
    /\ servers[conn[c].owner].is_healthy
    /\ Drop(c)
    /\ UNCHANGED <<up, tables, entries, cleanup, stopping, faults>>

\* get_server: the name may be taken over.
OwnerUnhealthy(c) ==
    /\ conn[c].pc = "owner"
    /\ ~servers[conn[c].owner].is_healthy
    /\ MoveConn(c, "upsert")
    /\ UNCHANGED <<up, tables, entries, cleanup, stopping, faults>>

\* The row after register_agent: a row that exists keeps its id.
UpsertRow(c) ==
    LET d == conn[c].subdomain IN
    agents' = [agents EXCEPT ![d] =
        [id |-> IF @ = None THEN conn[c].id ELSE @.id,
         server_id |-> conn[c].server, active |-> TRUE, fresh |-> TRUE]]

Upsert(c) ==
    /\ conn[c].pc = "upsert"
    /\ TRUE \in UniqueSubdomain
    /\ UpsertRow(c)
    /\ MoveConn(c, "insert")
    /\ UNCHANGED <<up, servers, entries, cleanup, stopping, faults>>

UpsertRejectedUnnoticed(c) ==
    /\ conn[c].pc = "upsert"
    /\ FALSE \in UniqueSubdomain
    /\ MoveConn(c, "insert")
    /\ UNCHANGED <<up, tables, entries, cleanup, stopping, faults>>

\* ON CONFLICT(subdomain) names no unique column.
UpsertRejected(c) ==
    /\ conn[c].pc = "upsert"
    /\ FALSE \in UniqueSubdomain
    /\ Drop(c)
    /\ UNCHANGED <<up, tables, entries, cleanup, stopping, faults>>

\* An error of any of the calls, the upsert done or not: the handler returns.
RegisterFails(c) ==
    /\ conn[c].pc \in {"open", "lookup", "owner", "upsert"}
    /\ Fault
    /\ \/ conn[c].pc = "upsert" /\ TRUE \in UniqueSubdomain /\ UpsertRow(c)
       \/ UNCHANGED agents
    /\ Drop(c)
    /\ UNCHANGED <<up, servers, entries, cleanup, stopping>>

\* The entry goes into the map, and the agent gets its Welcome.
InsertEntry(c) ==
    LET s == conn[c].server IN
    /\ conn[c].pc = "insert"
    /\ entries' = [entries EXCEPT ![s] = @ \cup
          {[id |-> conn[c].id, subdomain |-> conn[c].subdomain, old |-> FALSE]}]
    /\ conn' = [conn EXCEPT ![c] = [Closed EXCEPT !.pc = "open", !.server = s,
                                                  !.agent = conn[c].id]]
    /\ UNCHANGED <<up, tables, cleanup, stopping, faults>>

\* update_heartbeat: the row of this id, if there is one, is stamped; the
\* entry's own timestamp is left alone.  An error of the call is dropped.
AgentHeartbeat(c) ==
    /\ conn[c].pc = "open"
    /\ conn[c].agent # None
    /\ agents' = [d \in Subdomain |->
          IF d \in RowsOfId(conn[c].agent)
          THEN [agents[d] EXCEPT !.fresh = TRUE] ELSE agents[d]]
    /\ UNCHANGED <<up, servers, entries, conn, cleanup, stopping, faults>>

\* The connection is lost.  Nothing is unregistered.
Disconnect(c) ==
    /\ conn[c].pc = "open"
    /\ Fault
    /\ Drop(c)
    /\ UNCHANGED <<up, tables, entries, cleanup, stopping>>

-----------------------------------------------------------------------------
(* cleanup_loop: "rest" -> mark_servers_unhealthy (two statements) ->      *)
(* cleanup_stale (scan, one unregister per id, cleanup_stale_agents) ->    *)
(* cleanup_stale_agents once more                                          *)

LoopTo(s, place) == loop' = [loop EXCEPT ![s] = place]

MarkRows ==
    servers' = [t \in Server |->
        [servers[t] EXCEPT !.is_healthy = @ /\ servers[t].fresh]]

MarkServersUnhealthyIfAny(s) ==
    /\ up[s] /\ loop[s] = "rest"
    /\ MarkRows
    /\ LoopTo(s, IF servers' # servers THEN "deactivate" ELSE "scan")
    /\ UNCHANGED <<up, agents, entries, conn, doomed, stopping, faults>>

MarkServersUnhealthy(s) ==
    /\ up[s] /\ loop[s] = "rest"
    /\ MarkRows
    /\ LoopTo(s, "deactivate")
    /\ UNCHANGED <<up, agents, entries, conn, doomed, stopping, faults>>

\* The first statement fails: the second is not tried.
MarkServersFails(s) ==
    /\ up[s] /\ loop[s] = "rest"
    /\ Fault
    /\ MarkRows \/ UNCHANGED servers
    /\ LoopTo(s, "scan")
    /\ UNCHANGED <<up, agents, entries, conn, doomed, stopping>>

\* The second statement: the rows of whichever servers are unhealthy now.
RowsOfUnhealthy == {d \in Rows : ~servers[agents[d].server_id].is_healthy}

DeactivateAgents(s) ==
    /\ up[s] /\ loop[s] = "deactivate"
    /\ Deactivate(RowsOfUnhealthy)
    /\ LoopTo(s, "scan")
    /\ UNCHANGED <<up, servers, entries, conn, doomed, stopping, faults>>

DeactivateAgentsFails(s) ==
    /\ up[s] /\ loop[s] = "deactivate"
    /\ Fault
    /\ LoopTo(s, "scan")
    /\ UNCHANGED <<up, tables, entries, conn, doomed, stopping>>

ScanStale(s) ==
    /\ up[s] /\ loop[s] = "scan"
    /\ doomed' = [doomed EXCEPT ![s] = {e.id : e \in {f \in entries[s] : f.old}}]
    /\ LoopTo(s, "reap")
    /\ UNCHANGED <<up, tables, entries, conn, stopping, faults>>

RemoveEntriesOfName(s, id) ==
    entries' = [entries EXCEPT ![s] =
        {e \in @ : \A f \in @ : f.id = id => e.subdomain # f.subdomain}]

RemoveEntry(s, id) ==
    entries' = [entries EXCEPT ![s] = {e \in @ : e.id # id}]

\* unregister: the map's lock is held until the row is updated.
Unregister(s) ==
    /\ up[s] /\ loop[s] = "reap"
    /\ \E id \in doomed[s] :
          /\ doomed' = [doomed EXCEPT ![s] = @ \ {id}]
          /\ RemoveEntry(s, id)
          /\ Unlist(RowsOfId(id))
    /\ UNCHANGED <<up, servers, conn, loop, stopping, faults>>

\* An error ends cleanup_stale; the entry is gone, the row updated or not.
UnregisterFails(s) ==
    /\ up[s] /\ loop[s] = "reap"
    /\ Fault
    /\ \E id \in doomed[s] :
          /\ RemoveEntry(s, id)
          /\ Unlist(RowsOfId(id)) \/ UNCHANGED agents
    /\ doomed' = [doomed EXCEPT ![s] = {}]
    /\ LoopTo(s, "sweepAgain")
    /\ UNCHANGED <<up, servers, conn, stopping>>

SweepAllRows(s) == Deactivate(RowsOfServer(s))

\* cleanup_stale_agents of server s.
SweepRows(s) == Deactivate({d \in RowsOfServer(s) : ~agents[d].fresh})

Sweep(s) ==
    /\ up[s] /\ loop[s] = "reap"
    /\ doomed[s] = {}
    /\ SweepRows(s)
    /\ LoopTo(s, "sweepAgain")
    /\ UNCHANGED <<up, servers, entries, conn, doomed, stopping, faults>>

SweepAgain(s) ==
    /\ up[s] /\ loop[s] = "sweepAgain"
    /\ SweepRows(s)
    /\ LoopTo(s, "rest")
    /\ UNCHANGED <<up, servers, entries, conn, doomed, stopping, faults>>

SweepFails(s) ==
    /\ up[s]
    /\ \/ loop[s] = "reap" /\ doomed[s] = {} /\ LoopTo(s, "sweepAgain")
       \/ loop[s] = "sweepAgain" /\ LoopTo(s, "rest")
    /\ Fault
    /\ UNCHANGED <<up, tables, entries, conn, doomed, stopping>>

-----------------------------------------------------------------------------
(* The server process and its heartbeat *)

SendHeartbeatHeals(s) ==
    /\ up[s]
    /\ ~servers[s].fresh
    /\ servers' = [servers EXCEPT ![s] = [is_healthy |-> TRUE, fresh |-> TRUE]]
    /\ UNCHANGED <<up, agents, entries, conn, cleanup, stopping, faults>>

\* heartbeat_loop keeps the row fresh; it does not make it healthy again.
SendHeartbeat(s) ==
    /\ up[s]
    /\ ~servers[s].fresh
    /\ servers' = [servers EXCEPT ![s].fresh = TRUE]
    /\ UNCHANGED <<up, agents, entries, conn, cleanup, stopping, faults>>

MarkServer(s) == servers' = [servers EXCEPT ![s].is_healthy = FALSE]

\* Cluster::shutdown, first call.  The process runs on.
ShutdownMarks(s) ==
    /\ up[s] /\ s \in Stoppable
    /\ stopping[s] = "no"
    /\ MarkServer(s)
    /\ stopping' = [stopping EXCEPT ![s] = "marked"]
    /\ UNCHANGED <<up, agents, entries, conn, cleanup, faults>>

\* Cluster::shutdown, second call: unregister_all_agents.
ShutdownUnregisters(s) ==
    /\ up[s] /\ stopping[s] = "marked"
    /\ Unlist(RowsOfServer(s))
    /\ stopping' = [stopping EXCEPT ![s] = "done"]
    /\ UNCHANGED <<up, servers, entries, conn, cleanup, faults>>

\* An error of either call ends shutdown.
ShutdownFails(s) ==
    /\ up[s] /\ s \in Stoppable
    /\ stopping[s] \in {"no", "marked"}
    /\ Fault
    /\ (stopping[s] = "no" /\ MarkServer(s)) \/ UNCHANGED servers
    /\ stopping' = [stopping EXCEPT ![s] = "done"]
    /\ UNCHANGED <<up, agents, entries, conn, cleanup>>

Crash(s) ==
    /\ up[s]
    /\ Fault
    /\ up' = [up EXCEPT ![s] = FALSE]
    /\ entries' = [entries EXCEPT ![s] = {}]
    /\ conn' = [c \in Conn |-> IF conn[c].server = s THEN Closed ELSE conn[c]]
    /\ loop' = [loop EXCEPT ![s] = "rest"]
    /\ doomed' = [doomed EXCEPT ![s] = {}]
    /\ stopping' = [stopping EXCEPT ![s] = "no"]
    /\ UNCHANGED tables

\* The process is started again and registers itself.
Restart(s) ==
    /\ ~up[s]
    /\ up' = [up EXCEPT ![s] = TRUE]
    /\ servers' = [servers EXCEPT ![s] = [is_healthy |-> TRUE, fresh |-> TRUE]]
    /\ UNCHANGED <<agents, entries, conn, cleanup, stopping, faults>>

-----------------------------------------------------------------------------
(* Time passes the cutoffs *)

\* The heartbeat of a process that is gone, or by a fault of one that runs.
ServerExpires(s) ==
    /\ servers[s].fresh
    /\ IF up[s] THEN Fault ELSE UNCHANGED faults
    /\ servers' = [servers EXCEPT ![s].fresh = FALSE]
    /\ UNCHANGED <<up, agents, entries, conn, cleanup, stopping>>

RowExpires(d) ==
    /\ agents[d] # None
    /\ agents[d].fresh
    /\ agents' = [agents EXCEPT ![d].fresh = FALSE]
    /\ UNCHANGED <<up, servers, entries, conn, cleanup, stopping, faults>>

\* Nothing refreshes an entry.
EntryExpires(s) ==
    /\ \E e \in entries[s] :
          /\ ~e.old
          /\ entries' = [entries EXCEPT ![s] =
                (@ \ {e}) \cup {[e EXCEPT !.old = TRUE]}]
    /\ UNCHANGED <<up, tables, conn, cleanup, stopping, faults>>

-----------------------------------------------------------------------------
Registration(c) ==
    \/ LookupFree(c)
    \/ LookupTaken(c)
    \/ LookupUnreadable(c)
    \/ OwnerHealthy(c)
    \/ OwnerUnhealthy(c)
    \/ Upsert(c)
    \/ UpsertRejected(c)
    \/ InsertEntry(c)

\* What the handler does with a message; those not listed change nothing here.
ConnStep(c) ==
    \/ Connect(c)
    \/ Register(c)
    \/ RejectKey(c)
    \/ Registration(c)
    \/ RegisterFails(c)
    \/ AgentHeartbeat(c)
    \/ Disconnect(c)

LoopStep(s) ==
    \/ MarkServersUnhealthy(s)
    \/ DeactivateAgents(s)
    \/ ScanStale(s)
    \/ Unregister(s)
    \/ Sweep(s)
    \/ SweepAgain(s)

LoopFails(s) ==
    \/ MarkServersFails(s)
    \/ DeactivateAgentsFails(s)
    \/ UnregisterFails(s)
    \/ SweepFails(s)

ProcessStep(s) ==
    \/ SendHeartbeat(s)
    \/ ShutdownMarks(s)
    \/ ShutdownUnregisters(s)
    \/ ShutdownFails(s)
    \/ Crash(s)
    \/ Restart(s)

ServerStep(s) ==
    \/ LoopStep(s)
    \/ LoopFails(s)
    \/ ProcessStep(s)
    \/ ServerExpires(s)
    \/ EntryExpires(s)

Next ==
    \/ \E c \in Conn : ConnStep(c)
    \/ \E s \in Server : ServerStep(s)
    \/ \E d \in Subdomain : RowExpires(d)

Spec == Init /\ [][Next]_vars

\* No agent stamps the row of d any more.
Silent(d) == \A c \in Conn : conn[c].agent # None =>
                                d \notin RowsOfId(conn[c].agent)

\* What goes on by itself: the cleanup loops, systemd's restart where it is
\* set up, timestamps growing old, and an agent without its Welcome trying
\* again.
Fairness ==
    /\ \A s \in Server :
          /\ WF_vars(LoopStep(s))
          /\ WF_vars(~up[s] /\ ServerExpires(s))
          /\ WF_vars(EntryExpires(s))
    /\ \A s \in Restarted : WF_vars(Restart(s))
    /\ \A d \in Subdomain : WF_vars(Silent(d) /\ RowExpires(d))
    /\ \A c \in Conn :
          /\ WF_vars(Connect(c))
          /\ WF_vars(conn[c].agent = None /\ Register(c))
          /\ WF_vars(Registration(c))

FairSpec == Spec /\ Fairness

-----------------------------------------------------------------------------
(* Properties *)

\* Every variable keeps its type, and the calls under way have their locals.
TypeOK ==
    /\ up \in [Server -> BOOLEAN]
    /\ servers \in [Server -> ServerRow]
    /\ agents \in [Subdomain -> AgentRow \cup {None}]
    /\ entries \in [Server -> SUBSET Entry]
    /\ conn \in [Conn -> Connection]
    /\ loop \in [Server -> {"rest", "deactivate", "scan", "reap", "sweepAgain"}]
    /\ doomed \in [Server -> SUBSET AgentId]
    /\ stopping \in [Server -> {"no", "marked", "done"}]
    /\ faults \in 0..MaxFaults
    /\ \A c \in Conn :
          /\ conn[c].pc # "closed" => conn[c].server # None
          /\ conn[c].pc \notin {"closed", "open"} =>
                conn[c].subdomain # None /\ conn[c].id # None

\* A name is only taken off the list for a reason that concerns it: its server
\* is unhealthy, nobody stamps its row, or the entry that created the row has
\* grown old.  (Five statements of three loops and of shutdown write `active'.)
DeactivationJustified ==
    [][ \A d \in Subdomain : Active(d) /\ ~Active(d)' =>
          \/ ~servers[agents[d].server_id].is_healthy
          \/ ~agents[d].fresh
          \/ \E s \in Server : \E e \in entries[s] \ entries'[s] :
                e.old /\ e.id = agents[d].id ]_vars

\* The scan and the removals are separate steps: an agent that registers in
\* between, for the same name and server too, is never the one removed.
CleanupSparesNewEntries ==
    [][ \A s \in Server : \A e \in entries[s] :
          ~e.old /\ up'[s] => \E f \in entries'[s] : f.id = e.id ]_vars

\* An agent is never served by a server, nor welcomed, unless the table that
\* the other servers route by has a row for its subdomain.
EntriesAreListed ==
    \A s \in Server : \A e \in entries[s] : agents[e.subdomain] # None

\* The servers table as Cluster keeps it, in true time.
R == INSTANCE ServerRows WITH
        alive <- {s \in Server : up[s]},
        quit <- {s \in Server : stopping[s] # "no"},
        healthy <- {s \in Server : servers[s].is_healthy},
        late <- {s \in Server : up[s] /\ ~servers[s].fresh},
        faulty <- faults > 0

\* The time of the servers table is abstracted to what Cluster promises of it:
\* a row is only marked unhealthy for a process that is gone, has had its
\* Ctrl-C or lags behind by a fault, and only a restart makes it healthy again.
ImplementsServerRows == R!Spec

\* The names of a server that dies and stays dead are freed, although the
\* loop that frees them does so in two statements and may die in between.
NamesOfDeadServersAreFreed ==
    \A s \in Server : \A d \in Subdomain :
        d \in RowsOfServer(s) /\ Active(d) /\ ~up[s]
        ~> ~Active(d) \/ d \notin RowsOfServer(s) \/ up[s]

\* An agent that has lost its connection or its server, and keeps trying, is
\* welcomed again in the end.
AgentIsWelcomed ==
    \A c \in Authorized : conn[c].agent = None ~> conn[c].agent # None
=============================================================================
