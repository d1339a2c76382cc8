------------------------------ MODULE HttpProxy ------------------------------
(***************************************************************************)
(* proxy_http (src/tunnel/mod.rs) on one server, with the pending requests *)
(* of AgentRegistry.  A handler is a future that its connection owns: when *)
(* the client goes away, it is dropped at the await where it is.           *)
(*                                                                         *)
(* No agent ever reads a request: what is put into an open channel is      *)
(* dropped with its receiving end.  So no agent learns a request id, an    *)
(* HttpResponse finds no pending request, and there is no action for the   *)
(* other branch of handle_response.                                        *)
(***************************************************************************)
EXTENDS LocalAgents

CONSTANT Request    \* the requests to this server, each with its uuid

VARIABLES
    request,        \* the handler of each: where it is, agent_id, response
    pending         \* AgentRegistry::pending

vars == <<agentVars, request, pending>>

Handler == [pc : {"idle", "body", "create", "send", "wait", "unsent", "expired", "done"},
            agent : Agent \cup {None},
            answer : {None, "307", "404", "502", "504", "dropped"}]

\* The handler is at one of its awaits, after the lookup.
UnderWay(r) == request[r].pc \notin {"idle", "done"}

MoveTo(r, place) == request' = [request EXCEPT ![r].pc = place]

Answer(r, status) ==
    request' = [request EXCEPT ![r].pc = "done", ![r].answer = status]

Init ==
    /\ AgentsInit
    /\ request = [r \in Request |->
          [pc |-> "idle", agent |-> None, answer |-> None]]
    /\ pending = {}

-----------------------------------------------------------------------------
(* An operator whose name extends another's by what it does differently    *)
(* (SendFailsForgotten) is no part of the model: it is a plausible mistake *)
(* in that code, which a property is expected to notice.                   *)

FindAgentUnrecorded(r) ==
    /\ request[r].pc = "idle"
    /\ \E d \in Subdomain : Found(d) # {}
    /\ MoveTo(r, "body")
    /\ UNCHANGED <<agentVars, pending>>

\* The agent is on this server; the body is waited for.
FindAgent(r) ==
    /\ request[r].pc = "idle"
    /\ \E d \in Subdomain : \E a \in Found(d) :
          request' = [request EXCEPT ![r].pc = "body", ![r].agent = a]
    /\ UNCHANGED <<agentVars, pending>>

\* It is not, and the agents table has an active row of that name, or not (or
\* the query fails).
FindNoAgent(r) ==
    /\ request[r].pc = "idle"
    /\ \E d \in Subdomain : Found(d) = {}
    /\ \E status \in {"307", "404"} : Answer(r, status)
    /\ UNCHANGED <<agentVars, pending>>

\* body.collect() is over: the client has sent the end of its body, or what is
\* no body, which counts as an empty one.  There is no timeout here.
BodyArrives(r) ==
    /\ request[r].pc = "body"
    /\ MoveTo(r, "create")
    /\ UNCHANGED <<agentVars, pending>>

CreatePendingRequest(r) ==
    /\ request[r].pc = "create"
    /\ pending' = pending \cup {r}
    /\ MoveTo(r, "send")
    /\ UNCHANGED agentVars

\* send_message: into an open channel.  (It has room for 100 messages and is
\* open too briefly to fill.)
SendMessage(r) ==
    /\ request[r].pc = "send"
    /\ CanReceive(request[r].agent)
    /\ MoveTo(r, "wait")
    /\ UNCHANGED <<agentVars, pending>>

SendFailsForgotten(r) ==
    /\ request[r].pc = "send"
    /\ ~CanReceive(request[r].agent)
    /\ Answer(r, "502")
    /\ UNCHANGED <<agentVars, pending>>

\* The channel is closed, or the entry has left the map since the lookup.
SendFails(r) ==
    /\ request[r].pc = "send"
    /\ ~CanReceive(request[r].agent)
    /\ MoveTo(r, "unsent")
    /\ UNCHANGED <<agentVars, pending>>

TimeoutOfForgotten(r) ==
    /\ request[r].pc = "wait"
    /\ r \notin pending
    /\ MoveTo(r, "expired")
    /\ UNCHANGED <<agentVars, pending>>

\* Nobody can answer: 30 seconds pass.
Timeout(r) ==
    /\ request[r].pc = "wait"
    /\ MoveTo(r, "expired")
    /\ UNCHANGED <<agentVars, pending>>

\* remove_pending_request of either error path, and its response.
RemovePendingRequest(r) ==
    /\ \/ request[r].pc = "unsent" /\ Answer(r, "502")
       \/ request[r].pc = "expired" /\ Answer(r, "504")
    /\ pending' = pending \ {r}
    /\ UNCHANGED agentVars

\* The client closes its connection: the handler is dropped.
ClientGoes(r) ==
    /\ UnderWay(r)
    /\ Answer(r, "dropped")
    /\ UNCHANGED <<agentVars, pending>>

\* What the handler does of its own.
HandlerStep(r) ==
    \/ CreatePendingRequest(r)
    \/ SendMessage(r)
    \/ SendFails(r)
    \/ Timeout(r)
    \/ RemovePendingRequest(r)

RequestStep(r) ==
    \/ FindAgent(r)
    \/ FindNoAgent(r)
    \/ BodyArrives(r)
    \/ HandlerStep(r)
    \/ ClientGoes(r)

Next ==
    \/ \E r \in Request : RequestStep(r)
    \/ \E a \in Agent : AgentStep(a) /\ UNCHANGED <<request, pending>>

Spec == Init /\ [][Next]_vars

\* The runtime polls every handler that can go on, and its timer fires.  A
\* client need not send its body.
FairSpec == Spec /\ \A r \in Request : WF_vars(HandlerStep(r))

-----------------------------------------------------------------------------
(* Properties *)

\* The handlers, and their agent once they have found one.
TypeOK ==
    /\ AgentsTypeOK
    /\ request \in [Request -> Handler]
    /\ pending \subseteq Request
    /\ \A r \in Request : UnderWay(r) => request[r].agent # None

\* The map of pending requests does not grow with the requests answered: an
\* entry belongs to a handler that is under way, or to one that its client
\* has abandoned (nothing removes the entry of the latter).
PendingIsAwaited ==
    \A r \in pending : UnderWay(r) \/ request[r].answer = "dropped"

\* A handler that has its request complete comes to an end, whatever becomes of
\* the agent in the meantime and although nobody answers.
RequestIsAnswered ==
    \A r \in Request :
        UnderWay(r) /\ request[r].pc # "body" ~> request[r].pc = "done"

\* docs/ARCHITECTURE.md: "If agent is local -> forward directly": only the
\* request for an agent that has left is answered with an error of the agent.
LocalAgentGetsRequest ==
    [][ \A r \in Request :
          request[r].answer = None /\ request'[r].answer = "502" =>
              request[r].agent \notin Entries ]_vars
=============================================================================
