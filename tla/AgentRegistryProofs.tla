------------------------- MODULE AgentRegistryProofs -------------------------
(***************************************************************************)
(* What holds of the registry for any number of servers, agents, names and *)
(* faults.                                                                 *)
(***************************************************************************)
EXTENDS AgentRegistry, TLAPS

USE RegistryAssumption

-----------------------------------------------------------------------------
(* Type correctness, and the rows that never go away *)

ConnOK ==
    /\ conn \in [Conn -> Connection]
    /\ \A c \in Conn :
          /\ conn[c].pc # "closed" => conn[c].server # None
          /\ conn[c].pc \notin {"closed", "open"} =>
                conn[c].subdomain # None /\ conn[c].id # None

AgentsOK == agents \in [Subdomain -> AgentRow \cup {None}]

\* No statement deletes a row.
RowsKept == \A d \in Subdomain : agents[d] # None => agents'[d] # None

RestOK ==
    /\ up \in [Server -> BOOLEAN]
    /\ servers \in [Server -> ServerRow]
    /\ entries \in [Server -> SUBSET Entry]
    /\ loop \in [Server -> {"rest", "deactivate", "scan", "reap", "sweepAgain"}]
    /\ doomed \in [Server -> SUBSET AgentId]
    /\ stopping \in [Server -> {"no", "marked", "done"}]
    /\ faults \in 0..MaxFaults

LEMMA Parts ==
    /\ TypeOK <=> ConnOK /\ AgentsOK /\ RestOK
    /\ TypeOK' <=> ConnOK' /\ AgentsOK' /\ RestOK'
BY DEF TypeOK, ConnOK, AgentsOK, RestOK

LEMMA ClosedTyped == Closed \in Connection
BY DEF Closed, Connection

\* The handler's state after one of its steps.
LEMMA DropTyped ==
    ASSUME ConnOK, NEW c \in Conn, Drop(c)
    PROVE  ConnOK'
BY ClosedTyped DEF ConnOK, Drop, Closed

LEMMA SetTyped ==
    ASSUME ConnOK, NEW c \in Conn, NEW k \in Connection,
           conn' = [conn EXCEPT ![c] = k],
           k.pc # "closed" => k.server # None,
           k.pc \notin {"closed", "open"} => k.subdomain # None /\ k.id # None
    PROVE  ConnOK'
BY DEF ConnOK

LEMMA MoveTyped ==
    ASSUME ConnOK, NEW c \in Conn,
           NEW place \in {"upsert", "insert"}, MoveConn(c, place),
           conn[c].pc \notin {"closed", "open"}
    PROVE  ConnOK'
<1> DEFINE k == [conn[c] EXCEPT !.pc = place]
<1>1. conn[c] \in Connection
  BY DEF ConnOK
<1>2. k \in Connection /\ k.pc = place /\ k.server = conn[c].server
      /\ k.subdomain = conn[c].subdomain /\ k.id = conn[c].id
  BY <1>1 DEF Connection
<1>3. conn' = [conn EXCEPT ![c] = k]
  BY DEF MoveConn
<1>4. conn[c].server # None /\ conn[c].subdomain # None /\ conn[c].id # None
  BY DEF ConnOK
<1> HIDE DEF k
<1>5. QED BY <1>2, <1>3, <1>4, SetTyped

\* The agents table after each statement.
LEMMA UpsertTyped ==
    ASSUME ConnOK, AgentsOK, NEW c \in Conn, conn[c].pc = "upsert", UpsertRow(c)
    PROVE  AgentsOK' /\ RowsKept
<1>1. conn[c] \in Connection /\ conn[c].server # None /\ conn[c].id # None
  BY DEF ConnOK
<1>2. conn[c].server \in Server /\ conn[c].id \in AgentId
  BY <1>1 DEF Connection
<1> DEFINE d == conn[c].subdomain
           r == [id |-> IF agents[d] = None THEN conn[c].id ELSE agents[d].id,
                 server_id |-> conn[c].server, active |-> TRUE, fresh |-> TRUE]
<1>3. d \in Subdomain
  BY DEF ConnOK, Connection
<1>4. r \in AgentRow
  BY <1>2, <1>3 DEF AgentsOK, AgentRow
<1>5. agents' = [agents EXCEPT ![d] = r]
  BY <1>3 DEF UpsertRow, AgentsOK
<1> HIDE DEF r, d
<1>6. QED BY <1>3, <1>4, <1>5 DEF AgentsOK, RowsKept, AgentRow

LEMMA DeactivateTyped ==
    ASSUME AgentsOK, NEW D, D \subseteq Rows, Deactivate(D)
    PROVE  AgentsOK' /\ RowsKept
BY DEF AgentsOK, Deactivate, Rows, RowsKept, AgentRow

LEMMA UnlistTyped ==
    ASSUME AgentsOK, NEW D, D \subseteq Rows, Unlist(D)
    PROVE  AgentsOK' /\ RowsKept
BY DEF AgentsOK, Unlist, Rows, RowsKept, AgentRow

LEMMA Kept == UNCHANGED agents => RowsKept
BY DEF RowsKept

\* A step of a handler.
LEMMA ConnStepTyped ==
    ASSUME TypeOK, NEW c \in Conn, ConnStep(c)
    PROVE  TypeOK' /\ RowsKept
<1> USE DEF tables, cleanup
<1>0. ConnOK /\ AgentsOK /\ RestOK
  BY Parts
<1>1. conn[c] \in Connection
  BY <1>0 DEF ConnOK
\* Most steps leave everything but the handler alone.
<1>2. ASSUME ConnOK', UNCHANGED agents, RestOK'
      PROVE  TypeOK' /\ RowsKept
  BY <1>2, Parts, Kept DEF AgentsOK
<1>3. CASE Connect(c)
  <2>1. PICK s \in Server :
           conn' = [conn EXCEPT ![c] = [Closed EXCEPT !.pc = "open", !.server = s]]
    BY <1>3 DEF Connect
  <2>2. ConnOK'
    <3> DEFINE k == [Closed EXCEPT !.pc = "open", !.server = s]
    <3>1. k \in Connection /\ k.pc = "open" /\ k.server # None
      BY DEF Closed, Connection
    <3> HIDE DEF k
    <3>2. conn' = [conn EXCEPT ![c] = k]
      BY <2>1 DEF k
    <3>3. QED BY <1>0, <3>1, <3>2, SetTyped
  <2>3. QED BY <1>0, <1>2, <1>3, <2>2 DEF Connect, RestOK
<1>4. CASE Register(c)
  <2>1. PICK d \in Subdomain, id \in AgentId :
           conn' = [conn EXCEPT ![c].pc = "lookup", ![c].subdomain = d, ![c].id = id]
    BY <1>4 DEF Register
  <2>2. ConnOK'
    <3> DEFINE k == [conn[c] EXCEPT !.pc = "lookup", !.subdomain = d, !.id = id]
    <3>1. /\ k \in Connection /\ k.server = conn[c].server
          /\ k.subdomain # None /\ k.id # None
      BY <1>1 DEF Connection
    <3>2. conn[c].server # None
      BY <1>0, <1>4 DEF Register, ConnOK
    <3>3. conn' = [conn EXCEPT ![c] = k]
      BY <2>1, <1>0 DEF ConnOK
    <3> HIDE DEF k
    <3>4. QED BY <1>0, <3>1, <3>2, <3>3, SetTyped
  <2>3. QED BY <1>0, <1>2, <1>4, <2>2 DEF Register, RestOK
<1>5. CASE RejectKey(c)
  BY <1>0, <1>2, <1>5, DropTyped DEF RejectKey, RestOK
<1>6. CASE LookupFree(c) \/ OwnerUnhealthy(c)
  <2>1. ConnOK'
    BY <1>0, <1>6, MoveTyped DEF LookupFree, OwnerUnhealthy
  <2>2. QED BY <1>0, <1>2, <1>6, <2>1 DEF LookupFree, OwnerUnhealthy, RestOK
<1>7. CASE LookupTaken(c)
  <2>1. ConnOK'
    <3> DEFINE o == agents[conn[c].subdomain].server_id
               k == [conn[c] EXCEPT !.pc = "owner", !.owner = o]
    <3>1. conn[c].subdomain \in Subdomain
      BY <1>0, <1>1, <1>7 DEF LookupTaken, ConnOK, Connection
    <3>2. o \in Server
      BY <1>0, <1>7, <3>1 DEF LookupTaken, Active, AgentsOK, AgentRow
    <3> HIDE DEF o
    <3>3. /\ k \in Connection /\ k.server = conn[c].server
          /\ k.subdomain = conn[c].subdomain /\ k.id = conn[c].id
      BY <1>1, <3>2 DEF Connection
    <3>4. conn[c].server # None /\ conn[c].subdomain # None /\ conn[c].id # None
      BY <1>0, <1>7 DEF LookupTaken, ConnOK
    <3>5. conn' = [conn EXCEPT ![c] = k]
      BY <1>0, <1>7 DEF LookupTaken, ConnOK, o
    <3> HIDE DEF k
    <3>6. QED BY <1>0, <3>3, <3>4, <3>5, SetTyped
  <2>2. QED BY <1>0, <1>2, <1>7, <2>1 DEF LookupTaken, RestOK
<1>8. CASE LookupUnreadable(c) \/ OwnerHealthy(c) \/ UpsertRejected(c)
  <2>1. Drop(c) /\ UNCHANGED <<up, tables, entries, cleanup, stopping, faults>>
    BY <1>8 DEF LookupUnreadable, OwnerHealthy, UpsertRejected
  <2>2. QED BY <1>0, <1>2, <2>1, DropTyped DEF RestOK
<1>9. CASE Upsert(c)
  <2>1. ConnOK'
    BY <1>0, <1>9, MoveTyped DEF Upsert
  <2>2. AgentsOK' /\ RowsKept
    BY <1>0, <1>9, UpsertTyped DEF Upsert
  <2>3. RestOK'
    BY <1>0, <1>9 DEF Upsert, RestOK
  <2>4. QED BY <2>1, <2>2, <2>3, Parts
<1>10. CASE InsertEntry(c)
  <2> DEFINE k == [Closed EXCEPT !.pc = "open", !.server = conn[c].server,
                                 !.agent = conn[c].id]
             e == [id |-> conn[c].id, subdomain |-> conn[c].subdomain, old |-> FALSE]
  <2>1. conn[c].server # None /\ conn[c].subdomain # None /\ conn[c].id # None
    BY <1>0, <1>10 DEF InsertEntry, ConnOK
  <2>2. /\ conn[c].server \in Server /\ conn[c].subdomain \in Subdomain
        /\ conn[c].id \in AgentId
    BY <1>1, <2>1 DEF Connection
  <2>3. k \in Connection /\ k.pc = "open" /\ k.server # None
    BY <2>2 DEF Closed, Connection
  <2>4. e \in Entry
    BY <2>2 DEF Entry
  <2>5. conn' = [conn EXCEPT ![c] = k]
    BY <1>10 DEF InsertEntry
  <2>6. entries' = [entries EXCEPT ![conn[c].server] = @ \cup {e}]
    BY <1>10 DEF InsertEntry
  <2> HIDE DEF k, e
  <2>7. ConnOK'
    BY <1>0, <2>3, <2>5, SetTyped
  <2>8. entries' \in [Server -> SUBSET Entry]
    BY <1>0, <2>2, <2>4, <2>6 DEF RestOK
  <2>9. QED BY <1>0, <1>2, <1>10, <2>7, <2>8 DEF InsertEntry, RestOK
<1>11. CASE RegisterFails(c)
  <2>1. ConnOK'
    BY <1>0, <1>11, DropTyped DEF RegisterFails
  <2>2. AgentsOK' /\ RowsKept
    <3>1. CASE conn[c].pc = "upsert" /\ UpsertRow(c)
      BY <1>0, <3>1, UpsertTyped
    <3>2. CASE UNCHANGED agents
      BY <1>0, <3>2, Kept DEF AgentsOK
    <3>3. QED BY <1>11, <3>1, <3>2 DEF RegisterFails
  <2>3. RestOK'
    BY <1>0, <1>11 DEF RegisterFails, Fault, RestOK
  <2>4. QED BY <2>1, <2>2, <2>3, Parts
<1>12. CASE AgentHeartbeat(c)
  <2>1. AgentsOK' /\ RowsKept
    BY <1>0, <1>12 DEF AgentHeartbeat, AgentsOK, RowsOfId, Rows, RowsKept, AgentRow
  <2>2. ConnOK' /\ RestOK'
    BY <1>0, <1>12 DEF AgentHeartbeat, ConnOK, RestOK
  <2>3. QED BY <2>1, <2>2, Parts
<1>13. CASE Disconnect(c)
  <2>1. RestOK'
    BY <1>0, <1>13 DEF Disconnect, Fault, RestOK
  <2>2. QED BY <1>0, <1>2, <1>13, <2>1, DropTyped DEF Disconnect
<1>14. QED
  BY <1>3, <1>4, <1>5, <1>6, <1>7, <1>8, <1>9, <1>10, <1>11, <1>12, <1>13
     DEF ConnStep, Registration

\* A step of a cleanup loop.
LEMMA LoopStepTyped ==
    ASSUME TypeOK, NEW s \in Server, LoopStep(s) \/ LoopFails(s)
    PROVE  TypeOK' /\ RowsKept
<1> USE DEF tables, cleanup
<1>0. ConnOK /\ AgentsOK /\ RestOK
  BY Parts
\* No step of the loop touches a handler.
<1>1. ASSUME UNCHANGED conn, AgentsOK', RowsKept, RestOK'
      PROVE  TypeOK' /\ RowsKept
  BY <1>0, <1>1, Parts DEF ConnOK
<1>2. ASSUME UNCHANGED <<conn, agents>>, RestOK'
      PROVE  TypeOK' /\ RowsKept
  BY <1>0, <1>1, <1>2, Kept DEF AgentsOK
<1>3. MarkRows => servers' \in [Server -> ServerRow]
  BY <1>0 DEF MarkRows, RestOK, ServerRow
<1>4. CASE MarkServersUnhealthy(s)
  BY <1>0, <1>2, <1>3, <1>4 DEF MarkServersUnhealthy, LoopTo, RestOK
<1>5. CASE MarkServersFails(s)
  BY <1>0, <1>2, <1>3, <1>5 DEF MarkServersFails, LoopTo, Fault, RestOK
<1>6. CASE DeactivateAgents(s)
  <2>1. AgentsOK' /\ RowsKept
    BY <1>0, <1>6, DeactivateTyped DEF DeactivateAgents, RowsOfUnhealthy
  <2>2. RestOK'
    BY <1>0, <1>6 DEF DeactivateAgents, LoopTo, RestOK
  <2>3. QED BY <1>1, <1>6, <2>1, <2>2 DEF DeactivateAgents
<1>7. CASE DeactivateAgentsFails(s) \/ SweepFails(s)
  BY <1>0, <1>2, <1>7 DEF DeactivateAgentsFails, SweepFails, LoopTo, Fault, RestOK
<1>8. CASE ScanStale(s)
  <2>1. {e.id : e \in {f \in entries[s] : f.old}} \subseteq AgentId
    BY <1>0 DEF RestOK, Entry
  <2>2. doomed' \in [Server -> SUBSET AgentId]
    BY <1>0, <1>8, <2>1 DEF ScanStale, RestOK
  <2>3. QED BY <1>0, <1>2, <1>8, <2>2 DEF ScanStale, LoopTo, RestOK
<1>9. ASSUME NEW id, RemoveEntry(s, id) PROVE entries' \in [Server -> SUBSET Entry]
  BY <1>0, <1>9 DEF RemoveEntry, RestOK
<1>10. CASE Unregister(s)
  <2>1. PICK id \in doomed[s] :
           /\ doomed' = [doomed EXCEPT ![s] = @ \ {id}]
           /\ RemoveEntry(s, id)
           /\ Unlist(RowsOfId(id))
    BY <1>10 DEF Unregister
  <2>2. AgentsOK' /\ RowsKept
    BY <1>0, <2>1, UnlistTyped DEF RowsOfId
  <2>3. doomed' \in [Server -> SUBSET AgentId]
    BY <1>0, <2>1 DEF RestOK
  <2>4. RestOK'
    BY <1>0, <1>9, <1>10, <2>1, <2>3 DEF Unregister, RestOK
  <2>5. QED BY <1>1, <1>10, <2>2, <2>4 DEF Unregister
<1>11. CASE UnregisterFails(s)
  <2>1. PICK id \in doomed[s] :
           /\ RemoveEntry(s, id)
           /\ Unlist(RowsOfId(id)) \/ UNCHANGED agents
    BY <1>11 DEF UnregisterFails
  <2>2. AgentsOK' /\ RowsKept
    BY <1>0, <2>1, UnlistTyped, Kept DEF RowsOfId, AgentsOK
  <2>3. RestOK'
    BY <1>0, <1>9, <1>11, <2>1 DEF UnregisterFails, LoopTo, Fault, RestOK
  <2>4. QED BY <1>1, <1>11, <2>2, <2>3 DEF UnregisterFails
<1>12. CASE Sweep(s) \/ SweepAgain(s)
  <2>1. AgentsOK' /\ RowsKept
    <3>1. Deactivate({d \in RowsOfServer(s) : ~agents[d].fresh})
      BY <1>12 DEF Sweep, SweepAgain, SweepRows
    <3>2. QED BY <1>0, <3>1, DeactivateTyped DEF RowsOfServer
  <2>2. RestOK'
    BY <1>0, <1>12 DEF Sweep, SweepAgain, LoopTo, RestOK
  <2>3. QED BY <1>1, <1>12, <2>1, <2>2 DEF Sweep, SweepAgain
<1>13. QED
  BY <1>4, <1>5, <1>6, <1>7, <1>8, <1>10, <1>11, <1>12 DEF LoopStep, LoopFails

\* A step of a process outside its loop, or of time.
LEMMA ProcessStepTyped ==
    ASSUME TypeOK, NEW s \in Server,
           ProcessStep(s) \/ ServerExpires(s) \/ EntryExpires(s)
    PROVE  TypeOK' /\ RowsKept
<1> USE DEF tables, cleanup
<1>0. ConnOK /\ AgentsOK /\ RestOK
  BY Parts
<1>1. ASSUME UNCHANGED <<conn, agents>>, RestOK'
      PROVE  TypeOK' /\ RowsKept
  BY <1>0, <1>1, Parts, Kept DEF AgentsOK, ConnOK
<1>2. CASE SendHeartbeat(s) \/ ServerExpires(s)
  <2>1. servers' \in [Server -> ServerRow]
    <3>1. PICK b \in BOOLEAN : servers' = [servers EXCEPT ![s].fresh = b]
      BY <1>2 DEF SendHeartbeat, ServerExpires
    <3>2. [servers[s] EXCEPT !.fresh = b] \in ServerRow
      BY <1>0 DEF RestOK, ServerRow
    <3>3. QED BY <1>0, <3>1, <3>2 DEF RestOK
  <2>2. faults' \in 0..MaxFaults
    BY <1>0, <1>2 DEF SendHeartbeat, ServerExpires, Fault, RestOK
  <2>3. RestOK' /\ UNCHANGED <<conn, agents>>
    BY <1>0, <1>2, <2>1, <2>2 DEF SendHeartbeat, ServerExpires, RestOK
  <2>4. QED BY <1>1, <2>3
<1>3. CASE ShutdownMarks(s) \/ ShutdownFails(s)
  <2>1. MarkServer(s) \/ UNCHANGED servers
    BY <1>3 DEF ShutdownMarks, ShutdownFails
  <2>2. servers' \in [Server -> ServerRow]
    <3>1. ASSUME NEW b \in BOOLEAN
          PROVE  [servers[s] EXCEPT !.is_healthy = b] \in ServerRow
      BY <1>0 DEF RestOK, ServerRow
    <3>2. CASE MarkServer(s)
      <4>1. PICK b \in BOOLEAN : servers' = [servers EXCEPT ![s].is_healthy = b]
        BY <3>2 DEF MarkServer
      <4>2. QED BY <1>0, <3>1, <4>1 DEF RestOK
    <3>3. CASE UNCHANGED servers
      BY <1>0, <3>3 DEF RestOK
    <3>4. QED BY <2>1, <3>2, <3>3
  <2>3. stopping' \in [Server -> {"no", "marked", "done"}] /\ faults' \in 0..MaxFaults
    BY <1>0, <1>3 DEF ShutdownMarks, ShutdownFails, Fault, RestOK
  <2>4. RestOK' /\ UNCHANGED <<conn, agents>>
    BY <1>0, <1>3, <2>2, <2>3 DEF ShutdownMarks, ShutdownFails, RestOK
  <2>5. QED BY <1>1, <2>4
<1>4. CASE ShutdownUnregisters(s)
  <2>1. AgentsOK' /\ RowsKept
    BY <1>0, <1>4, UnlistTyped DEF ShutdownUnregisters, RowsOfServer
  <2>2. ConnOK' /\ RestOK'
    BY <1>0, <1>4 DEF ShutdownUnregisters, ConnOK, RestOK
  <2>3. QED BY <2>1, <2>2, Parts
<1>5. CASE Crash(s)
  <2>1. ConnOK'
    BY <1>0, <1>5, ClosedTyped DEF Crash, ConnOK, Closed
  <2>2. RestOK'
    BY <1>0, <1>5 DEF Crash, Fault, RestOK
  <2>3. AgentsOK' /\ RowsKept
    BY <1>0, <1>5, Kept DEF Crash, AgentsOK
  <2>4. QED BY <2>1, <2>2, <2>3, Parts
<1>6. CASE Restart(s)
  BY <1>0, <1>1, <1>6 DEF Restart, RestOK, ServerRow
<1>7. CASE EntryExpires(s)
  <2>1. PICK e \in entries[s] :
           entries' = [entries EXCEPT ![s] = (@ \ {e}) \cup {[e EXCEPT !.old = TRUE]}]
    BY <1>7 DEF EntryExpires
  <2>2. e \in Entry
    BY <1>0 DEF RestOK
  <2>3. [e EXCEPT !.old = TRUE] \in Entry
    BY <2>2 DEF Entry
  <2>4. entries' \in [Server -> SUBSET Entry]
    BY <1>0, <2>1, <2>3 DEF RestOK
  <2>5. QED BY <1>0, <1>1, <1>7, <2>4 DEF EntryExpires, RestOK
<1>8. QED BY <1>2, <1>3, <1>4, <1>5, <1>6, <1>7 DEF ProcessStep

LEMMA TypeOKNext == TypeOK /\ [Next]_vars => TypeOK' /\ RowsKept
<1> SUFFICES ASSUME TypeOK, [Next]_vars PROVE TypeOK' /\ RowsKept
  OBVIOUS
<1>1. ASSUME NEW d \in Subdomain, RowExpires(d) PROVE TypeOK' /\ RowsKept
  <2>1. AgentsOK' /\ RowsKept
    BY <1>1, Parts DEF RowExpires, AgentsOK, RowsKept, AgentRow
  <2>2. ConnOK' /\ RestOK'
    BY <1>1, Parts DEF RowExpires, ConnOK, RestOK, cleanup
  <2>3. QED BY <2>1, <2>2, Parts
<1>2. CASE UNCHANGED vars
  BY <1>2, Kept DEF vars, TypeOK
<1>3. QED BY <1>1, <1>2, ConnStepTyped, LoopStepTyped, ProcessStepTyped
          DEF Next, ServerStep

LEMMA TypeOKInit == Init => TypeOK
BY ClosedTyped DEF Init, TypeOK, ServerRow, Closed

\* Every reachable state keeps its types, for any servers, agents and faults.
THEOREM Typing == Spec => []TypeOK
BY TypeOKInit, TypeOKNext, PTL DEF Spec

-----------------------------------------------------------------------------
(* How the maps of entries and the handlers change *)

\* Every entry was there before, perhaps younger.
EntriesKept ==
    \A s \in Server : \A f \in entries'[s] :
        \E e \in entries[s] : e.id = f.id /\ e.subdomain = f.subdomain

\* No handler has a new id, nor comes to the insertion.
HandlersKept ==
    \A c \in Conn :
        /\ conn'[c].id \in {conn[c].id, None}
        /\ conn'[c].pc = "insert" =>
              conn[c].pc = "insert" /\ conn'[c].subdomain = conn[c].subdomain

LEMMA EntriesSame == UNCHANGED entries => EntriesKept
BY DEF EntriesKept

LEMMA HandlersSame == UNCHANGED conn => HandlersKept
BY DEF HandlersKept

LEMMA EntryRemoved ==
    ASSUME TypeOK, NEW s \in Server, NEW id, RemoveEntry(s, id)
    PROVE  EntriesKept
BY DEF TypeOK, RemoveEntry, EntriesKept

LEMMA EntryAged ==
    ASSUME TypeOK, NEW s \in Server, EntryExpires(s)
    PROVE  EntriesKept
<1>1. PICK e \in entries[s] :
         entries' = [entries EXCEPT ![s] = (@ \ {e}) \cup {[e EXCEPT !.old = TRUE]}]
  BY DEF EntryExpires
<1>2. e \in Entry
  BY DEF TypeOK
<1> DEFINE f == [e EXCEPT !.old = TRUE]
<1>3. f.id = e.id /\ f.subdomain = e.subdomain
  BY <1>2 DEF Entry
<1>4. entries' = [entries EXCEPT ![s] = (@ \ {e}) \cup {f}]
  BY <1>1
<1> HIDE DEF f
<1>5. QED BY <1>3, <1>4 DEF TypeOK, EntriesKept

LEMMA HandlerDropped ==
    ASSUME TypeOK, NEW c \in Conn, Drop(c)
    PROVE  HandlersKept
BY DEF TypeOK, Drop, Closed, HandlersKept

LEMMA HandlerMoved ==
    ASSUME TypeOK, NEW c \in Conn, NEW place, MoveConn(c, place), place # "insert"
    PROVE  HandlersKept
BY DEF TypeOK, MoveConn, HandlersKept, Connection

\* Only three steps do more than keep entries and handlers.
LEMMA Changes ==
    ASSUME TypeOK, Next
    PROVE  \/ \E c \in Conn : Register(c)
           \/ \E c \in Conn : Upsert(c)
           \/ \E c \in Conn : InsertEntry(c)
           \/ EntriesKept /\ HandlersKept
<1>1. ASSUME NEW c \in Conn, ConnStep(c),
             ~(Register(c) \/ Upsert(c) \/ InsertEntry(c))
      PROVE  EntriesKept /\ HandlersKept
  <2>1. EntriesKept
    BY <1>1, EntriesSame
       DEF ConnStep, Registration, Connect, RejectKey, LookupFree, LookupTaken,
           LookupUnreadable, OwnerHealthy, OwnerUnhealthy, UpsertRejected,
           RegisterFails, AgentHeartbeat, Disconnect
  <2>2. CASE Connect(c)
    BY <2>1, <2>2 DEF Connect, HandlersKept, TypeOK, Closed
  <2>3. CASE LookupTaken(c)
    BY <2>1, <2>3 DEF LookupTaken, HandlersKept, TypeOK, Connection
  <2>4. CASE LookupFree(c) \/ OwnerUnhealthy(c)
    BY <2>1, <2>4, HandlerMoved DEF LookupFree, OwnerUnhealthy
  <2>5. CASE \/ RejectKey(c) \/ LookupUnreadable(c) \/ OwnerHealthy(c)
             \/ UpsertRejected(c) \/ RegisterFails(c) \/ Disconnect(c)
    BY <2>1, <2>5, HandlerDropped
       DEF RejectKey, LookupUnreadable, OwnerHealthy, UpsertRejected, RegisterFails,
           Disconnect
  <2>6. CASE AgentHeartbeat(c)
    BY <2>1, <2>6, HandlersSame DEF AgentHeartbeat
  <2>7. QED BY <1>1, <2>2, <2>3, <2>4, <2>5, <2>6 DEF ConnStep, Registration
<1>2. ASSUME NEW s \in Server, ServerStep(s) PROVE EntriesKept /\ HandlersKept
  <2>1. CASE Unregister(s) \/ UnregisterFails(s)
    BY <2>1, EntryRemoved, HandlersSame DEF Unregister, UnregisterFails
  <2>2. CASE EntryExpires(s)
    BY <2>2, EntryAged, HandlersSame DEF EntryExpires
  <2>3. CASE Crash(s)
    BY <2>3 DEF Crash, EntriesKept, HandlersKept, TypeOK, Closed
  <2>4. CASE ~(Unregister(s) \/ UnregisterFails(s) \/ EntryExpires(s) \/ Crash(s))
    <3>1. UNCHANGED <<entries, conn>>
      BY <1>2, <2>4
         DEF ServerStep, LoopStep, LoopFails, ProcessStep, MarkServersUnhealthy,
             DeactivateAgents, ScanStale, Sweep, SweepAgain, MarkServersFails,
             DeactivateAgentsFails, SweepFails, SendHeartbeat, ShutdownMarks,
             ShutdownUnregisters, ShutdownFails, Restart, ServerExpires
    <3>2. QED BY <3>1, EntriesSame, HandlersSame
  <2>5. QED BY <2>1, <2>2, <2>3, <2>4
<1>3. ASSUME NEW d \in Subdomain, RowExpires(d) PROVE EntriesKept /\ HandlersKept
  BY <1>3, EntriesSame, HandlersSame DEF RowExpires
<1>4. QED BY <1>1, <1>2, <1>3 DEF Next

-----------------------------------------------------------------------------
(* Entries have rows *)

\* The row is there when the handler comes to the insertion.
InsertInv ==
    \A c \in Conn : conn[c].pc = "insert" => agents[conn[c].subdomain] # None

LEMMA ListedNext ==
    TypeOK /\ EntriesAreListed /\ InsertInv /\ [Next]_vars
    => EntriesAreListed' /\ InsertInv'
<1> SUFFICES ASSUME TypeOK, EntriesAreListed, InsertInv, [Next]_vars
             PROVE  EntriesAreListed' /\ InsertInv'
  OBVIOUS
<1>0. TypeOK' /\ RowsKept
  BY TypeOKNext
<1>1. EntriesKept => EntriesAreListed'
  <2> SUFFICES ASSUME EntriesKept, NEW s \in Server, NEW f \in entries'[s]
               PROVE  agents'[f.subdomain] # None
    BY DEF EntriesAreListed
  <2>1. PICK e \in entries[s] : e.subdomain = f.subdomain
    BY DEF EntriesKept
  <2>2. e.subdomain \in Subdomain /\ agents[e.subdomain] # None
    BY DEF EntriesAreListed, TypeOK, Entry
  <2>3. QED BY <1>0, <2>1, <2>2 DEF RowsKept
<1>2. ASSUME NEW c \in Conn, conn[c].pc = "insert"
      PROVE  conn[c].subdomain \in Subdomain /\ agents'[conn[c].subdomain] # None
  <2>1. conn[c].subdomain \in Subdomain
    BY <1>2 DEF TypeOK, Connection
  <2>2. QED BY <1>0, <1>2, <2>1 DEF RowsKept, InsertInv
<1>3. HandlersKept => InsertInv'
  BY <1>2 DEF HandlersKept, InsertInv
<1>4. ASSUME NEW c \in Conn, Register(c) PROVE EntriesAreListed' /\ InsertInv'
  <2>1. \A b \in Conn : conn'[b].pc = "insert" => conn'[b] = conn[b]
    BY <1>4 DEF Register, TypeOK, Connection
  <2>2. QED BY <1>1, <1>2, <1>4, <2>1, EntriesSame DEF Register, InsertInv
<1>5. ASSUME NEW c \in Conn, Upsert(c) PROVE EntriesAreListed' /\ InsertInv'
  <2>1. conn[c].subdomain \in Subdomain
    BY <1>5 DEF Upsert, TypeOK, Connection
  <2>2. agents'[conn[c].subdomain] # None
    <3>2. agents'[conn[c].subdomain] =
             [id |-> IF agents[conn[c].subdomain] = None THEN conn[c].id
                     ELSE agents[conn[c].subdomain].id,
              server_id |-> conn[c].server, active |-> TRUE, fresh |-> TRUE]
      BY <1>5, <2>1 DEF Upsert, UpsertRow, TypeOK
    <3>3. CASE agents[conn[c].subdomain] # None
      BY <1>0, <2>1, <3>3 DEF RowsKept
    <3>4. CASE agents[conn[c].subdomain] = None
      <4>1. conn[c].id \in AgentId /\ conn[c].server \in Server
        BY <1>5 DEF Upsert, TypeOK, Connection
      <4>2. agents'[conn[c].subdomain] =
               [id |-> conn[c].id, server_id |-> conn[c].server,
                active |-> TRUE, fresh |-> TRUE]
        BY <3>2, <3>4
      <4>3. agents'[conn[c].subdomain] \in AgentRow
        BY <4>1, <4>2 DEF AgentRow
      <4>4. QED BY <4>3 DEF AgentRow
    <3>5. QED BY <3>3, <3>4
  <2>3. /\ conn'[c].subdomain = conn[c].subdomain
        /\ \A b \in Conn \ {c} : conn'[b] = conn[b]
    BY <1>5 DEF Upsert, MoveConn, TypeOK, Connection
  <2>4. InsertInv'
    BY <1>2, <2>2, <2>3 DEF InsertInv
  <2>5. QED BY <1>1, <1>5, <2>4, EntriesSame DEF Upsert
<1>6. ASSUME NEW c \in Conn, InsertEntry(c) PROVE EntriesAreListed' /\ InsertInv'
  <2>1. \A b \in Conn : conn'[b].pc = "insert" => conn'[b] = conn[b]
    BY <1>6 DEF InsertEntry, TypeOK, Closed
  <2>2. \A s \in Server : \A f \in entries'[s] :
           f \in entries[s] \/ f.subdomain = conn[c].subdomain
    BY <1>6 DEF InsertEntry, TypeOK
  <2>3. agents' = agents /\ conn[c].pc = "insert"
    BY <1>6 DEF InsertEntry, tables
  <2>4. QED BY <1>2, <2>1, <2>2, <2>3 DEF EntriesAreListed, InsertInv
<1>7. CASE UNCHANGED vars
  BY <1>7 DEF vars, EntriesAreListed, InsertInv
<1>8. QED BY <1>1, <1>3, <1>4, <1>5, <1>6, <1>7, Changes

\* Every entry of every server has a row, for any servers, agents and faults,
\* and although the row is written before the entry and by another statement.
THEOREM EntriesHaveRows == Spec => []EntriesAreListed
<1>1. Init => EntriesAreListed /\ InsertInv
  BY DEF Init, EntriesAreListed, InsertInv, Closed
<1>2. TypeOK /\ EntriesAreListed /\ InsertInv /\ [Next]_vars
      => EntriesAreListed' /\ InsertInv'
  BY ListedNext
<1>3. QED BY <1>1, <1>2, Typing, PTL DEF Spec

-----------------------------------------------------------------------------
(* Identifiers *)

\* An id that is being registered is in nobody else's hands.
IdInv ==
    \A c \in Conn : conn[c].id # None =>
        /\ \A s \in Server : \A e \in entries[s] : e.id # conn[c].id
        /\ \A b \in Conn \ {c} : conn[b].id # conn[c].id

\* A map is keyed by ids.
KeyInv == \A s \in Server : \A e, f \in entries[s] : e.id = f.id => e = f

\* What the scan has found is still there, and old.
DoomedInv ==
    \A s \in Server : \A id \in doomed[s] :
        \E e \in entries[s] : e.id = id /\ e.old

\* Only the first half of shutdown, which marks the row, comes before the second.
MarkInv ==
    \A s \in Server : stopping[s] = "marked" => up[s] /\ ~servers[s].is_healthy

LEMMA IdNext == TypeOK /\ IdInv /\ [Next]_vars => IdInv'
<1> SUFFICES ASSUME TypeOK, IdInv, [Next]_vars PROVE IdInv'
  OBVIOUS
<1>1. ASSUME EntriesKept, \A c \in Conn : conn'[c].id \in {conn[c].id, None}
      PROVE  IdInv'
  <2> SUFFICES ASSUME NEW c \in Conn, conn'[c].id # None
               PROVE  /\ \A s \in Server : \A f \in entries'[s] : f.id # conn'[c].id
                      /\ \A b \in Conn \ {c} : conn'[b].id # conn'[c].id
    BY DEF IdInv
  <2>1. conn'[c].id = conn[c].id
    BY <1>1
  <2>2. ASSUME NEW s \in Server, NEW f \in entries'[s] PROVE f.id # conn'[c].id
    BY <1>1, <2>1, <2>2 DEF EntriesKept, IdInv
  <2>3. ASSUME NEW b \in Conn \ {c} PROVE conn'[b].id # conn'[c].id
    BY <1>1, <2>1, <2>3 DEF IdInv
  <2>4. QED BY <2>2, <2>3
<1>2. ASSUME NEW c \in Conn, Register(c) PROVE IdInv'
  <2>1. PICK id \in AgentId :
           /\ NewId(id)
           /\ conn'[c].id = id
           /\ \A b \in Conn \ {c} : conn'[b] = conn[b]
    BY <1>2 DEF Register, TypeOK, Connection
  <2>2. /\ \A b \in Conn : conn[b].id # id
        /\ \A s \in Server : \A e \in entries[s] : e.id # id
    BY <2>1 DEF NewId
  <2>3. UNCHANGED entries
    BY <1>2 DEF Register
  <2>4. QED BY <2>1, <2>2, <2>3 DEF IdInv
<1>3. ASSUME NEW c \in Conn, Upsert(c) PROVE IdInv'
  <2>1. \A b \in Conn : conn'[b].id = conn[b].id
    BY <1>3 DEF Upsert, MoveConn, TypeOK, Connection
  <2>2. QED BY <1>1, <1>3, <2>1, EntriesSame DEF Upsert
<1>4. ASSUME NEW c \in Conn, InsertEntry(c) PROVE IdInv'
  <2>1. /\ conn'[c].id = None
        /\ \A b \in Conn \ {c} : conn'[b] = conn[b]
    BY <1>4 DEF InsertEntry, TypeOK, Closed
  <2>2. \A s \in Server : \A f \in entries'[s] : f \in entries[s] \/ f.id = conn[c].id
    BY <1>4 DEF InsertEntry, TypeOK
  <2>3. QED BY <2>1, <2>2 DEF IdInv
<1>5. CASE UNCHANGED vars
  BY <1>5 DEF vars, IdInv
<1>6. QED BY <1>1, <1>2, <1>3, <1>4, <1>5, Changes DEF HandlersKept

\* The steps that change the maps of entries.
LEMMA EntrySteps ==
    ASSUME Next
    PROVE  \/ UNCHANGED entries
           \/ \E c \in Conn : InsertEntry(c)
           \/ \E s \in Server :
                 Unregister(s) \/ UnregisterFails(s) \/ EntryExpires(s) \/ Crash(s)
BY DEF Next, ConnStep, Registration, Connect, Register, RejectKey, LookupFree,
       LookupTaken, LookupUnreadable, OwnerHealthy, OwnerUnhealthy, Upsert,
       UpsertRejected, RegisterFails, AgentHeartbeat, Disconnect, ServerStep, LoopStep,
       LoopFails, ProcessStep, MarkServersUnhealthy, DeactivateAgents, ScanStale, Sweep,
       SweepAgain, MarkServersFails, DeactivateAgentsFails, SweepFails, SendHeartbeat,
       ShutdownMarks, ShutdownUnregisters, ShutdownFails, Restart, ServerExpires,
       RowExpires

\* What those steps leave of a map.
LEMMA Inserted ==
    ASSUME TypeOK, NEW c \in Conn, InsertEntry(c)
    PROVE  /\ conn[c].id # None
           /\ \A s \in Server :
                 /\ entries[s] \subseteq entries'[s]
                 /\ \A f \in entries'[s] :
                       \/ f \in entries[s]
                       \/ f = [id |-> conn[c].id, subdomain |-> conn[c].subdomain,
                               old |-> FALSE]
BY DEF InsertEntry, TypeOK

LEMMA Removed ==
    ASSUME TypeOK, NEW s \in Server, Unregister(s) \/ UnregisterFails(s)
    PROVE  \E id \in doomed[s] :
              /\ entries' = [entries EXCEPT ![s] = {e \in entries[s] : e.id # id}]
              /\ doomed'[s] \subseteq doomed[s] \ {id}
              /\ \A t \in Server \ {s} : doomed'[t] = doomed[t]
              /\ agents' # agents => Unlist(RowsOfId(id))
BY DEF Unregister, UnregisterFails, RemoveEntry, TypeOK

LEMMA Aged ==
    ASSUME TypeOK, NEW s \in Server, EntryExpires(s)
    PROVE  \E e \in entries[s], f \in Entry :
              /\ f.id = e.id /\ f.old
              /\ entries' = [entries EXCEPT ![s] = (entries[s] \ {e}) \cup {f}]
<1>1. PICK e \in entries[s] :
         entries' = [entries EXCEPT ![s] = (@ \ {e}) \cup {[e EXCEPT !.old = TRUE]}]
  BY DEF EntryExpires
<1>2. e \in Entry
  BY DEF TypeOK
<1> DEFINE f == [e EXCEPT !.old = TRUE]
<1>3. f \in Entry /\ f.id = e.id /\ f.old
  BY <1>2 DEF Entry
<1>4. entries' = [entries EXCEPT ![s] = (@ \ {e}) \cup {f}]
  BY <1>1
<1> HIDE DEF f
<1>5. QED BY <1>3, <1>4

LEMMA KeyNext == TypeOK /\ IdInv /\ KeyInv /\ [Next]_vars => KeyInv'
<1> SUFFICES ASSUME TypeOK, IdInv, KeyInv, [Next]_vars PROVE KeyInv'
  OBVIOUS
<1>1. CASE UNCHANGED entries
  BY <1>1 DEF KeyInv
<1>2. ASSUME NEW c \in Conn, InsertEntry(c) PROVE KeyInv'
  <2> SUFFICES ASSUME NEW s \in Server, NEW e \in entries'[s], NEW f \in entries'[s],
                      e.id = f.id
               PROVE  e = f
    BY DEF KeyInv
  <2> DEFINE n == [id |-> conn[c].id, subdomain |-> conn[c].subdomain, old |-> FALSE]
  <2>1. n.id = conn[c].id
    OBVIOUS
  <2>2. \A g \in entries[s] : g.id # conn[c].id
    BY <1>2, Inserted DEF IdInv
  <2>3. \A g \in entries'[s] : g \in entries[s] \/ g = n
    BY <1>2, Inserted
  <2> HIDE DEF n
  <2>4. QED BY <2>1, <2>2, <2>3 DEF KeyInv
<1>3. ASSUME NEW s \in Server, Unregister(s) \/ UnregisterFails(s) PROVE KeyInv'
  BY <1>3, Removed DEF KeyInv, TypeOK
<1>4. ASSUME NEW s \in Server, EntryExpires(s) PROVE KeyInv'
  BY <1>4, Aged DEF KeyInv, TypeOK
<1>5. ASSUME NEW s \in Server, Crash(s) PROVE KeyInv'
  BY <1>5 DEF Crash, KeyInv, TypeOK
<1>6. QED BY <1>1, <1>2, <1>3, <1>4, <1>5, EntrySteps DEF vars

LEMMA DoomedNext == TypeOK /\ KeyInv /\ DoomedInv /\ [Next]_vars => DoomedInv'
<1> SUFFICES ASSUME TypeOK, KeyInv, DoomedInv, [Next]_vars PROVE DoomedInv'
  OBVIOUS
<1>1. CASE UNCHANGED <<entries, doomed>>
  BY <1>1 DEF DoomedInv
<1>2. ASSUME NEW c \in Conn, InsertEntry(c) PROVE DoomedInv'
  <2>1. UNCHANGED doomed
    BY <1>2 DEF InsertEntry, cleanup
  <2>2. QED BY <1>2, <2>1, Inserted DEF DoomedInv
<1>3. ASSUME NEW s \in Server, Unregister(s) \/ UnregisterFails(s) PROVE DoomedInv'
  BY <1>3, Removed DEF DoomedInv, TypeOK
<1>4. ASSUME NEW s \in Server, EntryExpires(s) PROVE DoomedInv'
  <2>1. UNCHANGED doomed
    BY <1>4 DEF EntryExpires, cleanup
  <2>2. PICK e \in entries[s], f \in Entry :
           /\ f.id = e.id /\ f.old
           /\ entries' = [entries EXCEPT ![s] = (entries[s] \ {e}) \cup {f}]
    BY <1>4, Aged
  <2>3. QED BY <2>1, <2>2 DEF DoomedInv, TypeOK
<1>5. ASSUME NEW s \in Server, Crash(s) PROVE DoomedInv'
  BY <1>5 DEF Crash, DoomedInv, TypeOK
<1>6. ASSUME NEW s \in Server, ScanStale(s) PROVE DoomedInv'
  BY <1>6 DEF ScanStale, DoomedInv, TypeOK
<1>7. \/ UNCHANGED doomed
      \/ \E s \in Server :
            ScanStale(s) \/ Unregister(s) \/ UnregisterFails(s) \/ Crash(s)
  BY DEF vars, Next, ConnStep, Registration, Connect, Register, RejectKey, LookupFree,
         LookupTaken, LookupUnreadable, OwnerHealthy, OwnerUnhealthy, Upsert,
         UpsertRejected, InsertEntry, RegisterFails, AgentHeartbeat, Disconnect,
         ServerStep, LoopStep, LoopFails, ProcessStep, MarkServersUnhealthy,
         DeactivateAgents, Sweep, SweepAgain, MarkServersFails, DeactivateAgentsFails,
         SweepFails, SendHeartbeat, ShutdownMarks, ShutdownUnregisters, ShutdownFails,
         Restart, ServerExpires, EntryExpires, RowExpires, cleanup
<1>8. QED BY <1>1, <1>2, <1>3, <1>4, <1>5, <1>6, <1>7, EntrySteps DEF vars

CleanupInv == TypeOK /\ IdInv /\ KeyInv /\ DoomedInv

LEMMA CleanupInvariant == Spec => []CleanupInv
<1>1. Init => CleanupInv
  <2>1. Init => IdInv /\ KeyInv /\ DoomedInv
    BY DEF Init, IdInv, KeyInv, DoomedInv, Closed
  <2>2. QED BY <2>1, TypeOKInit DEF CleanupInv
<1>2. CleanupInv /\ [Next]_vars => CleanupInv'
  BY TypeOKNext, IdNext, KeyNext, DoomedNext DEF CleanupInv
<1>3. QED BY <1>1, <1>2, PTL DEF Spec

SparesNewEntries ==
    \A s \in Server : \A e \in entries[s] :
        ~e.old /\ up'[s] => \E f \in entries'[s] : f.id = e.id

\* No cleanup, on any server and however long after its scan, removes an entry
\* that is not old.
THEOREM CleanupSparesTheNew == Spec => CleanupSparesNewEntries
<1>1. CleanupInv /\ [Next]_vars => SparesNewEntries
  <2> SUFFICES ASSUME CleanupInv, [Next]_vars, NEW s \in Server, NEW e \in entries[s],
                      ~e.old, up'[s]
               PROVE  \E f \in entries'[s] : f.id = e.id
    BY DEF SparesNewEntries
  <2> USE DEF CleanupInv
  <2>1. CASE UNCHANGED entries
    BY <2>1
  <2>2. ASSUME NEW c \in Conn, InsertEntry(c) PROVE \E f \in entries'[s] : f.id = e.id
    BY <2>2, Inserted
  <2>3. ASSUME NEW t \in Server, Unregister(t) \/ UnregisterFails(t)
        PROVE  \E f \in entries'[s] : f.id = e.id
    <3>1. PICK id \in doomed[t] :
             entries' = [entries EXCEPT ![t] = {f \in entries[t] : f.id # id}]
      BY <2>3, Removed
    <3>2. PICK f \in entries[t] : f.id = id /\ f.old
      BY DEF DoomedInv
    <3>3. s = t => e.id # id
      BY <3>2 DEF KeyInv
    <3>4. e \in entries'[s]
      BY <3>1, <3>3 DEF TypeOK
    <3>5. QED BY <3>4
  <2>4. ASSUME NEW t \in Server, EntryExpires(t) PROVE \E f \in entries'[s] : f.id = e.id
    BY <2>4, Aged DEF TypeOK
  <2>5. ASSUME NEW t \in Server, Crash(t) PROVE \E f \in entries'[s] : f.id = e.id
    BY <2>5 DEF Crash, TypeOK
  <2>6. QED BY <2>1, <2>2, <2>3, <2>4, <2>5, EntrySteps DEF vars
<1>2. Spec => [][SparesNewEntries]_vars
  BY <1>1, CleanupInvariant, PTL DEF Spec
<1>3. QED BY <1>2, PTL DEF CleanupSparesNewEntries, SparesNewEntries

-----------------------------------------------------------------------------
(* Why a name is taken off the list *)

LEMMA MarkNext == TypeOK /\ MarkInv /\ [Next]_vars => MarkInv'
<1> SUFFICES ASSUME TypeOK, MarkInv, [Next]_vars PROVE MarkInv'
  OBVIOUS
<1> USE DEF tables, cleanup
\* Nothing but a restart makes a row healthy.
<1>1. ASSUME UNCHANGED <<up, stopping>>,
             \A s \in Server : servers'[s].is_healthy => servers[s].is_healthy
      PROVE  MarkInv'
  BY <1>1 DEF MarkInv
<1>2. MarkRows => \A s \in Server : servers'[s].is_healthy => servers[s].is_healthy
  BY DEF MarkRows, TypeOK, ServerRow
<1>3. ASSUME NEW s \in Server, MarkServersUnhealthy(s) \/ MarkServersFails(s)
      PROVE  MarkInv'
  BY <1>1, <1>2, <1>3 DEF MarkServersUnhealthy, MarkServersFails
<1>4. ASSUME NEW s \in Server, SendHeartbeat(s) \/ ServerExpires(s) PROVE MarkInv'
  <2>1. \A t \in Server : servers'[t].is_healthy = servers[t].is_healthy
    <3>1. PICK b \in BOOLEAN : servers' = [servers EXCEPT ![s].fresh = b]
      BY <1>4 DEF SendHeartbeat, ServerExpires
    <3>2. servers[s] \in ServerRow
      BY DEF TypeOK
    <3>3. [servers[s] EXCEPT !.fresh = b].is_healthy = servers[s].is_healthy
      BY <3>2 DEF ServerRow
    <3>4. QED BY <3>1, <3>3 DEF TypeOK
  <2>2. QED BY <1>1, <1>4, <2>1 DEF SendHeartbeat, ServerExpires
<1>5. ASSUME NEW s \in Server, ShutdownMarks(s) PROVE MarkInv'
  <2>1. ~servers'[s].is_healthy
    BY <1>5 DEF ShutdownMarks, MarkServer, TypeOK, ServerRow
  <2>2. \A t \in Server \ {s} : servers'[t] = servers[t]
    BY <1>5 DEF ShutdownMarks, MarkServer, TypeOK
  <2>3. QED BY <1>5, <2>1, <2>2 DEF ShutdownMarks, MarkInv, TypeOK
<1>6. ASSUME NEW s \in Server, ShutdownFails(s) PROVE MarkInv'
  <2>1. \A t \in Server \ {s} : servers'[t] = servers[t]
    BY <1>6 DEF ShutdownFails, MarkServer, TypeOK
  <2>2. QED BY <1>6, <2>1 DEF ShutdownFails, MarkInv, TypeOK
<1>7. ASSUME NEW s \in Server, ShutdownUnregisters(s) \/ Crash(s) PROVE MarkInv'
  BY <1>7 DEF ShutdownUnregisters, Crash, MarkInv, TypeOK
<1>8. ASSUME NEW s \in Server, Restart(s) PROVE MarkInv'
  BY <1>8 DEF Restart, MarkInv, TypeOK
<1>9. \/ UNCHANGED <<up, servers, stopping>>
      \/ \E s \in Server :
            \/ MarkServersUnhealthy(s) \/ MarkServersFails(s) \/ SendHeartbeat(s)
            \/ ServerExpires(s) \/ ShutdownMarks(s) \/ ShutdownFails(s)
            \/ ShutdownUnregisters(s) \/ Crash(s) \/ Restart(s)
  BY DEF vars, Next, ConnStep, Registration, Connect, Register, RejectKey, LookupFree,
         LookupTaken, LookupUnreadable, OwnerHealthy, OwnerUnhealthy, Upsert,
         UpsertRejected, InsertEntry, RegisterFails, AgentHeartbeat, Disconnect,
         ServerStep, LoopStep, LoopFails, ProcessStep, DeactivateAgents, ScanStale,
         Unregister, Sweep, SweepAgain, DeactivateAgentsFails, UnregisterFails,
         SweepFails, EntryExpires, RowExpires
<1>10. QED BY <1>1, <1>3, <1>4, <1>5, <1>6, <1>7, <1>8, <1>9

\* The reasons that DeactivationJustified lists.
Reason(d) ==
    \/ ~servers[agents[d].server_id].is_healthy
    \/ ~agents[d].fresh
    \/ \E s \in Server : \E e \in entries[s] \ entries'[s] :
          e.old /\ e.id = agents[d].id

Justified == \A d \in Subdomain : Active(d) /\ ~Active(d)' => Reason(d)

\* A statement that sets active to 0 in the rows of D, each for a reason.
LEMMA TakenOff ==
    ASSUME TypeOK, NEW D, D \subseteq Rows, Deactivate(D) \/ Unlist(D),
           \A d \in D : Reason(d)
    PROVE  Justified
<1>1. \A d \in Subdomain \ D : agents'[d] = agents[d]
  BY DEF Deactivate, Unlist
<1>2. QED BY <1>1 DEF Justified, Active

LEMMA RowSetFresh ==
    ASSUME NEW r \in AgentRow, NEW b
    PROVE  [r EXCEPT !.fresh = b].active = r.active
BY DEF AgentRow

LEMMA NextIsJustified == CleanupInv /\ MarkInv /\ [Next]_vars => Justified
<1> SUFFICES ASSUME CleanupInv, MarkInv, [Next]_vars PROVE Justified
  OBVIOUS
<1> USE DEF tables, cleanup
<1>0. TypeOK /\ TypeOK' /\ RowsKept
  BY TypeOKNext DEF CleanupInv
<1>1. CASE UNCHANGED agents
  BY <1>1 DEF Justified, Active
<1>2. ASSUME \A d \in Subdomain : Active(d) => agents'[d].active PROVE Justified
  BY <1>0, <1>2 DEF Justified, Active, RowsKept
<1>3. ASSUME NEW c \in Conn, UpsertRow(c) PROVE Justified
  <2>1. \A d \in Subdomain : agents'[d].active \/ agents'[d] = agents[d]
    BY <1>0, <1>3 DEF UpsertRow, TypeOK
  <2>2. QED BY <1>2, <2>1 DEF Active
<1>4. ASSUME NEW c \in Conn, AgentHeartbeat(c) PROVE Justified
  <2>1. \A d \in Subdomain : Active(d) => agents'[d].active = agents[d].active
    <3>1. \A d \in Subdomain :
             agents'[d] = [agents[d] EXCEPT !.fresh = TRUE] \/ agents'[d] = agents[d]
      BY <1>4 DEF AgentHeartbeat
    <3>2. \A d \in Subdomain : Active(d) =>
             [agents[d] EXCEPT !.fresh = TRUE].active = agents[d].active
      BY <1>0, RowSetFresh DEF Active, TypeOK
    <3>3. QED BY <3>1, <3>2
  <2>2. QED BY <1>2, <2>1 DEF Active
<1>5. ASSUME NEW d \in Subdomain, RowExpires(d) PROVE Justified
  <2>1. \A x \in Subdomain : Active(x) => agents'[x].active = agents[x].active
    <3>1. \A x \in Subdomain :
             agents'[x] = [agents[x] EXCEPT !.fresh = FALSE] \/ agents'[x] = agents[x]
      BY <1>0, <1>5 DEF RowExpires, TypeOK
    <3>2. \A x \in Subdomain : Active(x) =>
             [agents[x] EXCEPT !.fresh = FALSE].active = agents[x].active
      BY <1>0, RowSetFresh DEF Active, TypeOK
    <3>3. QED BY <3>1, <3>2
  <2>2. QED BY <1>2, <2>1 DEF Active
<1>6. ASSUME NEW s \in Server, DeactivateAgents(s) PROVE Justified
  BY <1>0, <1>6, TakenOff DEF DeactivateAgents, RowsOfUnhealthy, Reason
<1>7. ASSUME NEW s \in Server, Unregister(s) \/ UnregisterFails(s) PROVE Justified
  <2>1. PICK id \in doomed[s] :
           /\ entries' = [entries EXCEPT ![s] = {e \in entries[s] : e.id # id}]
           /\ agents' # agents => Unlist(RowsOfId(id))
    BY <1>0, <1>7, Removed
  <2>2. PICK e \in entries[s] : e.id = id /\ e.old
    BY DEF CleanupInv, DoomedInv
  <2>3. e \in entries[s] \ entries'[s]
    BY <1>0, <2>1, <2>2 DEF TypeOK
  <2>4. \A d \in RowsOfId(id) : Reason(d)
    BY <2>2, <2>3 DEF RowsOfId, Reason
  <2>5. RowsOfId(id) \subseteq Rows
    BY DEF RowsOfId
  <2>6. QED BY <1>0, <1>1, <2>1, <2>4, <2>5, TakenOff
<1>8. ASSUME NEW s \in Server, Sweep(s) \/ SweepAgain(s) PROVE Justified
  <2> DEFINE D == {d \in RowsOfServer(s) : ~agents[d].fresh}
  <2>1. Deactivate(D)
    BY <1>8 DEF Sweep, SweepAgain, SweepRows
  <2>2. D \subseteq Rows /\ \A d \in D : Reason(d)
    BY DEF RowsOfServer, Reason
  <2>3. QED BY <1>0, <2>1, <2>2, TakenOff
<1>9. ASSUME NEW s \in Server, ShutdownUnregisters(s) PROVE Justified
  <2>1. ~servers[s].is_healthy
    BY <1>9 DEF ShutdownUnregisters, MarkInv
  <2>2. RowsOfServer(s) \subseteq Rows /\ \A d \in RowsOfServer(s) : Reason(d)
    BY <2>1 DEF RowsOfServer, Reason
  <2>3. QED BY <1>0, <1>9, <2>2, TakenOff DEF ShutdownUnregisters
<1>10. \/ UNCHANGED agents
       \/ \E c \in Conn : UpsertRow(c) \/ AgentHeartbeat(c)
       \/ \E d \in Subdomain : RowExpires(d)
       \/ \E s \in Server :
             \/ DeactivateAgents(s) \/ Unregister(s) \/ UnregisterFails(s)
             \/ Sweep(s) \/ SweepAgain(s) \/ ShutdownUnregisters(s)
  BY DEF vars, Next, ConnStep, Registration, Connect, Register, RejectKey, LookupFree,
         LookupTaken, LookupUnreadable, OwnerHealthy, OwnerUnhealthy, Upsert,
         UpsertRejected, InsertEntry, RegisterFails, Disconnect, ServerStep, LoopStep,
         LoopFails, ProcessStep, MarkServersUnhealthy, ScanStale, MarkServersFails,
         DeactivateAgentsFails, SweepFails, SendHeartbeat, ShutdownMarks, ShutdownFails,
         Crash, Restart, ServerExpires, EntryExpires
<1>11. QED BY <1>1, <1>3, <1>4, <1>5, <1>6, <1>7, <1>8, <1>9, <1>10

\* Whatever fails and whoever stops, a name that goes off the list has lost its
\* server, its heartbeats or the entry that made its row.
THEOREM DeactivationsAreJustified == Spec => DeactivationJustified
<1>1. Init => MarkInv
  BY DEF Init, MarkInv
<1>2. CleanupInv /\ MarkInv /\ [Next]_vars => MarkInv'
  BY MarkNext DEF CleanupInv
<1>3. Spec => [][Justified]_vars
  BY <1>1, <1>2, NextIsJustified, CleanupInvariant, PTL DEF Spec
<1>4. QED BY <1>3, PTL DEF DeactivationJustified, Justified, Reason
-----------------------------------------------------------------------------
(* The servers table that Cluster keeps *)

\* The variables of ServerRows, read off the registry.
Alive == {s \in Server : up[s]}
Quitting == {s \in Server : stopping[s] # "no"}
Healthy == {s \in Server : servers[s].is_healthy}
Late == {s \in Server : up[s] /\ ~servers[s].fresh}

\* Faults are counted, and none is forgotten.
LEMMA FaultsAreKept ==
    ASSUME TypeOK, faults' \in {faults, faults + 1}
    PROVE  /\ R!MayFail
           /\ faults' = faults + 1 => (faults > 0)' = TRUE
<1>1. faults \in Nat
  BY DEF TypeOK
<1>2. faults' = faults + 1 => (faults > 0)' = TRUE
  BY <1>1
<1>3. faults' = faults => (faults > 0)' = (faults > 0)
  OBVIOUS
<1>4. QED BY <1>2, <1>3, Zenon DEF R!MayFail

LEMMA StepsCountFaults ==
    ASSUME [Next]_vars PROVE faults' \in {faults, faults + 1}
BY DEF vars, Next, Fault, ConnStep, Registration, Connect, Register, RejectKey,
       LookupFree, LookupTaken, LookupUnreadable, OwnerHealthy, OwnerUnhealthy,
       Upsert, UpsertRejected, InsertEntry, RegisterFails, AgentHeartbeat,
       Disconnect, ServerStep, LoopStep, LoopFails, ProcessStep,
       MarkServersUnhealthy, MarkServersFails, DeactivateAgents, ScanStale,
       Unregister, Sweep, SweepAgain, DeactivateAgentsFails, UnregisterFails,
       SweepFails, SendHeartbeat, ShutdownMarks, ShutdownUnregisters,
       ShutdownFails, Crash, Restart, ServerExpires, EntryExpires, RowExpires

\* A cleanup marks what has fallen behind or died, if its statement succeeds.
LEMMA CleanupsMark ==
    ASSUME TypeOK, R!MayFail, NEW s \in Server,
           MarkServersUnhealthy(s) \/ MarkServersFails(s)
    PROVE  R!Mark
<1>1. UNCHANGED <<up, stopping>> /\ (MarkRows \/ UNCHANGED servers)
  BY DEF MarkServersUnhealthy, MarkServersFails
<1>2. \A t \in Server :
         /\ servers'[t].fresh = servers[t].fresh
         /\ servers'[t].is_healthy => servers[t].is_healthy
         /\ servers[t].is_healthy /\ ~servers'[t].is_healthy => ~servers[t].fresh
  BY <1>1 DEF MarkRows, TypeOK, ServerRow
<1>3. /\ Alive' = Alive /\ Quitting' = Quitting /\ Late' = Late
      /\ Healthy' \subseteq Healthy
      /\ (Healthy \ Healthy') \cap Alive \subseteq Late
  BY <1>1, <1>2 DEF Alive, Quitting, Late, Healthy
<1>4. QED BY <1>3, Zenon DEF R!Mark, Alive, Quitting, Late, Healthy

\* A stamp written, or one that grows old: of a running server by a fault.
LEMMA StampsChange ==
    ASSUME TypeOK, R!MayFail, NEW s \in Server,
           SendHeartbeat(s) \/ ServerExpires(s)
    PROVE  R!CatchUp \/ R!Lag
<1>1. PICK b \in BOOLEAN :
         servers' = [servers EXCEPT ![s].fresh = b] /\ (b <=> SendHeartbeat(s))
  BY DEF SendHeartbeat, ServerExpires
<1>2. UNCHANGED <<up, stopping>>
  BY DEF SendHeartbeat, ServerExpires
<1>3. /\ \A t \in Server : servers'[t].is_healthy = servers[t].is_healthy
      /\ \A t \in Server \ {s} : servers'[t].fresh = servers[t].fresh
      /\ servers'[s].fresh = b
  BY <1>1 DEF TypeOK, ServerRow
<1>4. Alive' = Alive /\ Quitting' = Quitting /\ Healthy' = Healthy
  BY <1>2, <1>3 DEF Alive, Quitting, Healthy
<1>5. CASE b \/ ~up[s]
  <2>1. Late' \subseteq Late
    BY <1>2, <1>3, <1>5 DEF Late
  <2>2. QED BY <1>4, <2>1, Zenon DEF R!CatchUp, Alive, Quitting, Late, Healthy
<1>6. CASE ~b /\ up[s]
  <2>1. Late \subseteq Late' /\ Late' \subseteq Alive
    BY <1>2, <1>3, <1>6 DEF Late, Alive
  <2>2. faults' = faults + 1
    BY <1>1, <1>6 DEF ServerExpires, Fault
  <2>3. (faults > 0)' = TRUE
    BY <2>2, FaultsAreKept
  <2>4. QED BY <1>4, <2>1, <2>3, Zenon DEF R!Lag, Alive, Quitting, Late, Healthy
<1>7. QED BY <1>5, <1>6

\* Cluster::shutdown quits with its first call, and only once.
LEMMA ShutdownsQuit ==
    ASSUME TypeOK, R!MayFail, NEW s \in Server,
           ShutdownMarks(s) \/ ShutdownUnregisters(s) \/ ShutdownFails(s)
    PROVE  R!CatchUp \/ R!Quit(s)
<1>1. s \in Alive /\ Alive' = Alive
  BY DEF ShutdownMarks, ShutdownUnregisters, ShutdownFails, Alive
<1>2. /\ stopping'[s] # "no"
      /\ \A t \in Server \ {s} : stopping'[t] = stopping[t]
  BY DEF ShutdownMarks, ShutdownUnregisters, ShutdownFails, TypeOK
<1>3. Quitting' = Quitting \cup {s}
  BY <1>2 DEF Quitting
<1>4. CASE stopping[s] # "no"
  <2>1. UNCHANGED <<up, servers>> /\ Quitting' = Quitting
    BY <1>3, <1>4
       DEF ShutdownMarks, ShutdownUnregisters, ShutdownFails, Quitting
  <2>2. Healthy' = Healthy /\ Late' = Late
    BY <2>1 DEF Healthy, Late
  <2>3. QED BY <1>1, <2>1, <2>2, Zenon
               DEF R!CatchUp, Alive, Quitting, Late, Healthy
<1>5. CASE stopping[s] = "no" /\ MarkServer(s)
  <2>1. UNCHANGED up
    BY DEF ShutdownMarks, ShutdownUnregisters, ShutdownFails
  <2>2. /\ \A t \in Server \ {s} : servers'[t] = servers[t]
        /\ servers'[s].is_healthy = FALSE
        /\ servers'[s].fresh = servers[s].fresh
    BY <1>5 DEF MarkServer, TypeOK, ServerRow
  <2>3. Healthy' = Healthy \ {s} /\ Late' = Late
    BY <2>1, <2>2 DEF Healthy, Late
  <2>4. s \in Alive \ Quitting
    BY <1>1, <1>5 DEF Quitting
  <2>5. QED BY <1>1, <1>3, <2>3, <2>4, Zenon
               DEF R!Quit, Alive, Quitting, Late, Healthy
<1>6. CASE stopping[s] = "no" /\ ~MarkServer(s)
  <2>1. ShutdownFails(s) /\ UNCHANGED <<up, servers>>
    BY <1>6 DEF ShutdownMarks, ShutdownUnregisters, ShutdownFails
  <2>2. Healthy' = Healthy /\ Late' = Late /\ s \in Alive \ Quitting
    BY <1>1, <1>6, <2>1 DEF Healthy, Late, Quitting
  <2>3. (faults > 0)' = TRUE
    BY <2>1, FaultsAreKept DEF ShutdownFails, Fault
  <2>4. QED BY <1>1, <1>3, <2>2, <2>3, Zenon
               DEF R!Quit, Alive, Quitting, Late, Healthy
<1>7. QED BY <1>4, <1>5, <1>6

LEMMA CrashesDie ==
    ASSUME TypeOK, R!MayFail, NEW s \in Server, Crash(s)
    PROVE  R!Die(s)
<1>1. /\ s \in Alive /\ UNCHANGED servers
      /\ up' = [up EXCEPT ![s] = FALSE]
      /\ stopping' = [stopping EXCEPT ![s] = "no"]
  BY DEF Crash, Alive, tables
<1>2. /\ Alive' = Alive \ {s} /\ Quitting' = Quitting \ {s}
      /\ Late' = Late \ {s} /\ Healthy' = Healthy
  BY <1>1 DEF Alive, Quitting, Late, Healthy, TypeOK
<1>3. QED BY <1>1, <1>2, Zenon DEF R!Die, Alive, Quitting, Late, Healthy

LEMMA RestartsRegister ==
    ASSUME TypeOK, NEW s \in Server, Restart(s)
    PROVE  R!Register(s)
<1>1. /\ s \notin Alive /\ UNCHANGED <<stopping, faults>>
      /\ up' = [up EXCEPT ![s] = TRUE]
      /\ \A t \in Server \ {s} : servers'[t] = servers[t]
      /\ servers'[s].is_healthy = TRUE /\ servers'[s].fresh = TRUE
  BY DEF Restart, Alive, TypeOK
<1>2. /\ Alive' = Alive \cup {s} /\ Quitting' = Quitting
      /\ Late' = Late /\ Healthy' = Healthy \cup {s}
  BY <1>1 DEF Alive, Quitting, Late, Healthy, TypeOK
<1>3. (faults > 0)' = (faults > 0)
  BY <1>1
<1>4. QED BY <1>1, <1>2, <1>3, Zenon
             DEF R!Register, Alive, Quitting, Late, Healthy

\* What the registry of any number of servers assumes of the servers table is
\* what ClusterProofs!ServerRowsAreImplemented shows of the loops that keep it:
\* the untimed `fresh' and `is_healthy' change as the timed rows may, whatever
\* the handlers, the cleanups, the shutdowns and the crashes do in between.
THEOREM RegistryImplementsServerRows == Spec => ImplementsServerRows
<1>1. Init => R!Init
  <2> SUFFICES ASSUME Init PROVE R!Init
    OBVIOUS
  <2>1. /\ Alive = Server /\ Healthy = Server
        /\ Quitting = {} /\ Late = {}
    BY DEF Init, Alive, Healthy, Quitting, Late
  <2>2. (faults > 0) = FALSE
    BY DEF Init
  <2>3. QED BY <2>1, <2>2, Zenon DEF R!Init, Alive, Quitting, Late, Healthy
<1>2. ASSUME TypeOK, [Next]_vars PROVE [R!Next]_(R!vars)
  <2>1. R!MayFail
    BY <1>2, StepsCountFaults, FaultsAreKept
  <2>2. CASE UNCHANGED <<up, servers, stopping>>
    <3>1. /\ Alive' = Alive /\ Quitting' = Quitting
          /\ Late' = Late /\ Healthy' = Healthy
      BY <2>2 DEF Alive, Quitting, Late, Healthy
    <3>2. QED BY <2>1, <3>1, Zenon
                 DEF R!Next, R!CatchUp, Alive, Quitting, Late, Healthy
  <2>3. ASSUME NEW s \in Server, ServerStep(s) PROVE
           \/ UNCHANGED <<up, servers, stopping>>
           \/ R!Next
    <3>1. CASE MarkServersUnhealthy(s) \/ MarkServersFails(s)
      BY <1>2, <2>1, <3>1, CleanupsMark, Zenon DEF R!Next
    <3>2. CASE SendHeartbeat(s) \/ ServerExpires(s)
      BY <1>2, <2>1, <3>2, StampsChange, Zenon DEF R!Next
    <3>3. CASE ShutdownMarks(s) \/ ShutdownUnregisters(s) \/ ShutdownFails(s)
      BY <1>2, <2>1, <3>3, ShutdownsQuit, Zenon DEF R!Next
    <3>4. CASE Crash(s)
      BY <1>2, <2>1, <3>4, CrashesDie, Zenon DEF R!Next
    <3>5. CASE Restart(s)
      BY <1>2, <3>5, RestartsRegister, Zenon DEF R!Next
    <3>6. QED
      BY <2>3, <3>1, <3>2, <3>3, <3>4, <3>5
         DEF ServerStep, LoopStep, LoopFails, ProcessStep, DeactivateAgents,
             ScanStale, Unregister, Sweep, SweepAgain, DeactivateAgentsFails,
             UnregisterFails, SweepFails, EntryExpires, tables
  <2>4. \A c \in Conn : ConnStep(c) => UNCHANGED <<up, servers, stopping>>
    BY DEF ConnStep, Registration, Connect, Register, RejectKey, LookupFree,
           LookupTaken, LookupUnreadable, OwnerHealthy, OwnerUnhealthy, Upsert,
           UpsertRejected, InsertEntry, RegisterFails, AgentHeartbeat, Disconnect,
           tables
  <2>5. UNCHANGED vars \/ (\E d \in Subdomain : RowExpires(d))
           => UNCHANGED <<up, servers, stopping>>
    BY DEF vars, RowExpires
  <2>6. QED BY <1>2, <2>2, <2>3, <2>4, <2>5 DEF Next
<1>3. QED BY <1>1, <1>2, Typing, PTL DEF Spec, ImplementsServerRows, R!Spec
=============================================================================
