--------------------------- MODULE HttpProxyProofs ---------------------------
(***************************************************************************)
(* What holds of the proxy for any number of agents, names and requests.   *)
(***************************************************************************)
EXTENDS HttpProxy, LocalAgentsProofs

USE LocalAgentsAssumption

-----------------------------------------------------------------------------
(* Type correctness *)

\* Moving a handler, and answering its request, give a handler.
LEMMA HandlerUpdates ==
    /\ \A h \in Handler,
          p \in {"idle", "body", "create", "send", "wait", "unsent", "expired",
                 "done"} :
          [h EXCEPT !.pc = p] \in Handler
    /\ \A h \in Handler, status \in {"307", "404", "502", "504", "dropped"} :
          [[h EXCEPT !.pc = "done"] EXCEPT !.answer = status] \in Handler
    /\ \A h \in Handler, a \in Agent :
          [[h EXCEPT !.pc = "body"] EXCEPT !.agent = a] \in Handler
BY DEF Handler

\* TypeOK is inductive.
LEMMA TypeOKInit == Init => TypeOK
BY AgentsInitTyped DEF Init, TypeOK, Handler, UnderWay

LEMMA TypeOKNext == TypeOK /\ [Next]_vars => TypeOK'
<1> SUFFICES ASSUME TypeOK, [Next]_vars PROVE TypeOK'
  OBVIOUS
<1> USE DEF TypeOK
<1>1. ASSUME NEW r \in Request, RequestStep(r) PROVE TypeOK'
  <2>1. AgentsTypeOK'
    BY <1>1, AgentsUnchanged DEF RequestStep, HandlerStep, FindAgent,
       FindNoAgent, BodyArrives, CreatePendingRequest, SendMessage, SendFails,
       Timeout, RemovePendingRequest, ClientGoes
  <2>2. CASE FindAgent(r)
    <3>1. PICK a \in Entries : request' =
              [request EXCEPT ![r].pc = "body", ![r].agent = a]
      BY <2>2 DEF FindAgent, Found
    <3>2. a \in Agent /\ a # None
      BY DEF Entries
    <3>3. request' \in [Request -> Handler]
      BY <3>1, <3>2, HandlerUpdates
    <3>4. \A q \in Request : UnderWay(q)' => request'[q].agent # None
      BY <3>1, <3>2 DEF UnderWay, Handler
    <3>5. QED BY <2>1, <2>2, <3>3, <3>4 DEF FindAgent
  <2>3. CASE FindNoAgent(r)
    <3>1. PICK status \in {"307", "404"} : Answer(r, status)
      BY <2>3 DEF FindNoAgent
    <3>2. request' \in [Request -> Handler]
      BY <3>1, HandlerUpdates DEF Answer
    <3>3. \A q \in Request : UnderWay(q)' => request'[q].agent # None
      BY <3>1 DEF Answer, UnderWay, Handler
    <3>4. QED BY <2>1, <2>3, <3>2, <3>3 DEF FindNoAgent
  <2>4. CASE \/ BodyArrives(r)
             \/ CreatePendingRequest(r)
             \/ SendMessage(r)
             \/ SendFails(r)
             \/ Timeout(r)
    <3> USE DEF BodyArrives, CreatePendingRequest, SendMessage, SendFails, Timeout
    <3>1. PICK place \in {"create", "send", "wait", "unsent", "expired"} :
              MoveTo(r, place)
      BY <2>4
    <3>2. request' \in [Request -> Handler]
      BY <3>1, HandlerUpdates DEF MoveTo
    <3>3. UnderWay(r)
      BY <2>4 DEF UnderWay
    <3>4. \A q \in Request : UnderWay(q)' => request'[q].agent # None
      BY <3>1, <3>3 DEF MoveTo, UnderWay, Handler
    <3>5. pending' \subseteq Request
      BY <2>4
    <3>6. QED BY <2>1, <3>2, <3>4, <3>5
  <2>5. CASE RemovePendingRequest(r) \/ ClientGoes(r)
    <3>1. PICK status \in {"502", "504", "dropped"} : Answer(r, status)
      BY <2>5 DEF RemovePendingRequest, ClientGoes
    <3>2. request' \in [Request -> Handler]
      BY <3>1, HandlerUpdates DEF Answer
    <3>3. \A q \in Request : UnderWay(q)' => request'[q].agent # None
      BY <3>1 DEF Answer, UnderWay, Handler
    <3>4. pending' \subseteq Request
      BY <2>5 DEF RemovePendingRequest, ClientGoes
    <3>5. QED BY <2>1, <3>2, <3>3, <3>4
  <2>6. QED BY <1>1, <2>2, <2>3, <2>4, <2>5 DEF RequestStep, HandlerStep
<1>2. ASSUME NEW a \in Agent, AgentStep(a), UNCHANGED <<request, pending>>
      PROVE  TypeOK'
  BY <1>2, AgentStepTyped DEF UnderWay
<1>3. CASE UNCHANGED vars
  BY <1>3, AgentsUnchanged DEF vars, UnderWay
<1>4. QED BY <1>1, <1>2, <1>3 DEF Next

\* TypeOK of HttpProxy: the handlers and the map of agents keep their types,
\* and a handler past the lookup has an agent.
THEOREM Typing == Spec => []TypeOK
<1>1. QED BY TypeOKInit, TypeOKNext, PTL DEF Spec

-----------------------------------------------------------------------------
(* The pending requests *)

\* PendingIsAwaited does not say that a request is not pending before it is
\* made, without which a lookup that ends at once could leave one behind.
PendingInv ==
    /\ PendingIsAwaited
    /\ \A r \in Request : request[r].pc = "idle" => r \notin pending

\* PendingInv is inductive, given TypeOK.
LEMMA PendingInvInit == Init => PendingInv
BY DEF Init, PendingInv, PendingIsAwaited

LEMMA PendingInvNext == TypeOK /\ PendingInv /\ [Next]_vars => PendingInv'
<1> SUFFICES ASSUME TypeOK, PendingInv, [Next]_vars PROVE PendingInv'
  OBVIOUS
<1> USE DEF TypeOK, PendingInv, PendingIsAwaited, UnderWay, Handler
<1>1. ASSUME NEW r \in Request, RequestStep(r) PROVE PendingInv'
  <2>1. \A q \in Request : q # r => request'[q] = request[q]
                                   /\ (q \in pending' <=> q \in pending)
    BY <1>1 DEF RequestStep, HandlerStep, FindAgent, FindNoAgent,
       BodyArrives, CreatePendingRequest, SendMessage, SendFails, Timeout,
       RemovePendingRequest, ClientGoes, MoveTo, Answer
  <2>2. /\ r \in pending' => UnderWay(r)' \/ request'[r].answer = "dropped"
        /\ request'[r].pc = "idle" => r \notin pending'
    <3>1. CASE FindAgent(r)
      BY <3>1 DEF FindAgent
    <3>2. CASE FindNoAgent(r)
      BY <3>2 DEF FindNoAgent, Answer
    <3>3. CASE HandlerStep(r)
      BY <3>3 DEF HandlerStep, CreatePendingRequest, SendMessage, SendFails,
         Timeout, RemovePendingRequest, MoveTo, Answer
    <3>4. CASE ClientGoes(r)
      BY <3>4 DEF ClientGoes, Answer
    <3>5. CASE BodyArrives(r)
      BY <3>5 DEF BodyArrives, MoveTo
    <3>6. QED BY <1>1, <3>1, <3>2, <3>3, <3>4, <3>5 DEF RequestStep
  <2>3. pending' \subseteq Request
    BY TypeOKNext
  <2>4. QED BY <2>1, <2>2, <2>3
<1>2. CASE UNCHANGED <<request, pending>>
  BY <1>2
<1>3. QED BY <1>1, <1>2 DEF Next, vars

\* PendingIsAwaited: whatever number of requests and agents there are, the map
\* of pending requests only keeps what a handler awaits or a client abandoned.
THEOREM PendingRequestsAreAwaited == Spec => []PendingIsAwaited
<1>1. PendingInv => PendingIsAwaited
  BY DEF PendingInv
<1>2. QED BY <1>1, TypeOKInit, TypeOKNext, PendingInvInit, PendingInvNext, PTL
          DEF Spec
=============================================================================
