----------------------------- MODULE NatTraversal -----------------------------
(***************************************************************************)
(* Peers that find their public endpoint over STUN, tell each other what   *)
(* they found and punch a hole: NatDetector and HolePuncher of             *)
(* src/nat/mod.rs, StunClient of src/stun/mod.rs.                          *)
(*                                                                         *)
(* A discovery asks its servers one after the other, each from a new       *)
(* socket bound to the same address, and takes the first datagram that     *)
(* comes for the answer: neither its sender nor its transaction id is      *)
(* looked at.  So any datagram may come at any wait, an answer that was    *)
(* meant for an earlier server, a copy of one, a packet of a peer that     *)
(* punches, or none.  A datagram is told apart by the kinds of its         *)
(* attributes, an endpoint by what a reader has made of it.                *)
(***************************************************************************)
EXTENDS Integers, Sequences, FiniteSets

CONSTANTS
    Peer,
    NumServers,     \* the length of the list of STUN servers
    HostNames,      \* the servers given by name, which never parse
    PunchCount,     \* the literal 5 of perform_hole_punch
    MaxAttrs,       \* bound: attributes of an answer
    NoPeer

ASSUME TraversalAssumption ==
    /\ {NumServers, PunchCount, MaxAttrs} \subseteq Nat
    /\ PunchCount > 0
    /\ HostNames \subseteq 1..NumServers
    /\ NoPeer \notin Peer

VARIABLES
    bind,       \* what kind of local address each peer was given
    tool,       \* what each peer discovers with
    pc,         \* where each peer is
    at,         \* the server it is at
    answered,   \* history: whether a datagram ended its discovery
    info,       \* what it found: a NAT type and an endpoint
    target,     \* the peer that punch_hole was called for
    strategy,   \* what determine_strategy said
    packets     \* punch packets sent so far

vars == <<bind, tool, pc, at, answered, info, target, strategy, packets>>
discovery == <<bind, tool, answered, info>>
punching == <<target, strategy, packets>>

-----------------------------------------------------------------------------
(* An operator whose name extends another's by what it does differently    *)
(* (IsPrivateButLoopback) is no part of the model: it is a plausible       *)
(* mistake in that code, which a property is expected to notice.           *)

(* Types.  "name" is an address that does not parse, "wildcard" is         *)
(* 0.0.0.0.  An endpoint is what the datagram "told"; "masked" when its    *)
(* port is still XORed; "shifted" when it is three octets of the address   *)
(* beside two bytes that are not the port; the peer's own "local" address; *)
(* or 0.0.0.0:0, "zero".                                                   *)

Bind == {"private", "loopback", "public", "wildcard", "name"}
NatType == {"Open", "FullCone", "RestrictedCone", "PortRestrictedCone",
            "Symmetric", "Unknown"}
Endpoint == {"local", "zero", "told", "masked", "shifted"}
Strategy == {"Direct", "HolePunch", "Relay"}
NoInfo == [nat |-> "Unknown", endpoint |-> "zero"]

Ended == {"connected", "failed", "panicked"}
Place == {"idle", "try", "wait", "found", "punch"} \cup Ended

\* A datagram: whether it is a binding response, its attributes, and whether
\* the last of them is whole or ends within its first bytes.  One that is too
\* short or has another magic cookie is refused like one without attributes.
Attribute == {"mapped", "mapped6", "xor", "error", "other"}
Answer == [ok : BOOLEAN, whole : BOOLEAN,
           attrs : UNION {[1..n -> Attribute] : n \in 0..MaxAttrs}]

-----------------------------------------------------------------------------
(* What the two readers make of a datagram                                 *)

\* NatDetector::parse_stun_response takes the first MAPPED-ADDRESS, whatever
\* its family and the message type, and reads a byte too far to the right:
\* beyond the datagram when that one is cut, or an IPv4 one that ends it.
ReadByDetector(a) ==
    LET Mapped == {i \in DOMAIN a.attrs : a.attrs[i] \in {"mapped", "mapped6"}}
        First(i) == i \in Mapped /\ \A j \in Mapped : i <= j
        TooShort(i) == i = Len(a.attrs) /\ (a.whole => a.attrs[i] = "mapped")
    IN  IF Mapped = {} THEN "none"
        ELSE IF \E i \in Mapped : First(i) /\ TooShort(i) THEN "panic"
        ELSE "shifted"

\* StunClient::parse_stun_response reads the whole attributes of a response
\* without an ERROR-CODE, takes the last IPv4 address of them and leaves the
\* port of an XOR-MAPPED-ADDRESS as it is.
ReadByClient(a) ==
    LET Whole == {i \in DOMAIN a.attrs : a.whole \/ i < Len(a.attrs)}
        Mapped == {i \in Whole : a.attrs[i] \in {"mapped", "xor"}}
        Last(i) == i \in Mapped /\ \A j \in Mapped : j <= i
    IN  IF ~a.ok \/ (\E i \in Whole : a.attrs[i] = "error") \/ Mapped = {}
        THEN "none"
        ELSE IF \E i \in Mapped : Last(i) /\ a.attrs[i] = "xor"
        THEN "masked" ELSE "told"

IsPrivateButLoopback(b) == b = "private"

\* is_private_ip
IsPrivate(b) == b \in {"private", "loopback"}

\* detect_by_ip, for an address that parses.
ByIp(b) ==
    IF IsPrivate(b) THEN [nat |-> "Unknown", endpoint |-> "zero"]
    ELSE [nat |-> "Open", endpoint |-> "local"]

\* detect compares the endpoint with the local address, as strings.
ByStun(endpoint) ==
    [nat |-> IF endpoint = "local" THEN "Open" ELSE "Symmetric",
     endpoint |-> endpoint]

DetermineStrategyOneSided(local, remote) ==
    IF local = "Open" THEN "Direct"
    ELSE IF "FullCone" \in {local, remote} THEN "HolePunch"
    ELSE IF {local, remote} = {"Symmetric"} THEN "Relay"
    ELSE "HolePunch"

DetermineStrategy(local, remote) ==
    IF "Open" \in {local, remote} THEN "Direct"
    ELSE IF "FullCone" \in {local, remote} THEN "HolePunch"
    ELSE IF {local, remote} = {"Symmetric"} THEN "Relay"
    ELSE "HolePunch"

-----------------------------------------------------------------------------
Init ==
    /\ bind \in [Peer -> Bind]
    /\ tool \in [Peer -> {"detector", "client"}]
    /\ pc = [p \in Peer |-> "idle"]
    /\ at = [p \in Peer |-> 0]
    /\ answered = [p \in Peer |-> FALSE]
    /\ info = [p \in Peer |-> NoInfo]
    /\ target = [p \in Peer |-> NoPeer]
    /\ strategy = [p \in Peer |-> "HolePunch"]
    /\ packets = [p \in Peer |-> 0]

MoveTo(p, place) == pc' = [pc EXCEPT ![p] = place]

-----------------------------------------------------------------------------
(* Discovery: detect and discover_public_endpoint *)

StartDiscovery(p) ==
    /\ pc[p] = "idle"
    /\ MoveTo(p, "try")
    /\ at' = [at EXCEPT ![p] = 1]
    /\ UNCHANGED <<discovery, punching>>

\* The socket is bound and the request sent.
Ask(p) ==
    /\ pc[p] = "try"
    /\ at[p] \in (1..NumServers) \ HostNames
    /\ MoveTo(p, "wait")
    /\ UNCHANGED <<at, discovery, punching>>

NextServer(p) ==
    /\ MoveTo(p, "try")
    /\ at' = [at EXCEPT ![p] = @ + 1]
    /\ UNCHANGED <<discovery, punching>>

\* The server is a name, or the bind or the send fails.
AskFails(p) ==
    /\ pc[p] = "try"
    /\ at[p] \in 1..NumServers
    /\ NextServer(p)

TimeoutAsksAgain(p) ==
    /\ pc[p] = "wait"
    /\ MoveTo(p, "try")
    /\ UNCHANGED <<at, discovery, punching>>

\* recv_from has waited for three seconds.
Timeout(p) ==
    /\ pc[p] = "wait"
    /\ NextServer(p)

\* The loop is over and its last socket closed.
Close(p) == at' = [at EXCEPT ![p] = 0]

\* detect parses the local address only now.
Unparsable(p) == tool[p] = "detector" /\ bind[p] = "name"

\* The discovery ends with e.
Found(p, e) ==
    /\ IF Unparsable(p) THEN MoveTo(p, "failed") /\ UNCHANGED info
       ELSE MoveTo(p, "found") /\ info' = [info EXCEPT ![p] = e]
    /\ Close(p)
    /\ UNCHANGED <<bind, tool, punching>>

\* recv_from takes a datagram of anyone to p's address.
Arrives(p) == pc[p] = "wait"

Understand(p, e) ==
    /\ answered' = [answered EXCEPT ![p] = TRUE]
    /\ Found(p, e)

\* The detector understands the datagram.
DetectorFinds(p, a) ==
    /\ Arrives(p)
    /\ tool[p] = "detector"
    /\ ReadByDetector(a) \notin {"none", "panic"}
    /\ Understand(p, ByStun(ReadByDetector(a)))

\* The index is out of range: the task of the caller panics.
DetectorPanics(p, a) ==
    /\ Arrives(p)
    /\ tool[p] = "detector"
    /\ ReadByDetector(a) = "panic"
    /\ MoveTo(p, "panicked")
    /\ Close(p)
    /\ UNCHANGED <<discovery, punching>>

\* The client understands the datagram.
ClientFinds(p, a) ==
    /\ Arrives(p)
    /\ tool[p] = "client"
    /\ ReadByClient(a) # "none"
    /\ Understand(p, [nat |-> "Unknown", endpoint |-> ReadByClient(a)])

\* No address in the datagram: on to the next server.
AnswerIsUseless(p, a) ==
    /\ Arrives(p)
    /\ \/ tool[p] = "detector" /\ ReadByDetector(a) = "none"
       \/ tool[p] = "client" /\ ReadByClient(a) = "none"
    /\ NextServer(p)

\* All servers have failed: detect_by_ip, or the endpoint 0.0.0.0:0.
FallBack(p) ==
    /\ pc[p] = "try"
    /\ at[p] > NumServers
    /\ Found(p, IF tool[p] = "detector" THEN ByIp(bind[p]) ELSE NoInfo)
    /\ UNCHANGED answered

-----------------------------------------------------------------------------
(* HolePuncher *)

\* What the puncher's own detect finds: its servers are the default ones, all
\* of them names, so it falls back whatever p has found before.
DetectAgain(p) == ByIp(bind[p])

\* q has found its NAT type and can tell it.
Told(q) ==
    /\ tool[q] = "detector" /\ bind[q] # "name"
    /\ pc[q] \in {"found", "punch", "connected", "failed"}

\* punch_hole, with what q has told of itself; Direct and Relay end it.
PunchHole(p, q) ==
    LET s == DetermineStrategy(DetectAgain(p).nat, info[q].nat) IN
    /\ pc[p] = "found" /\ tool[p] = "detector"
    /\ q # p /\ Told(q)
    /\ target' = [target EXCEPT ![p] = q]
    /\ strategy' = [strategy EXCEPT ![p] = s]
    /\ MoveTo(p, CASE s = "Direct" -> "connected"
                   [] s = "Relay" -> "failed"
                   [] s = "HolePunch" -> "punch")
    /\ UNCHANGED <<at, discovery, packets>>

\* The endpoint of q does not parse, or the address is in use.
PunchFails(p) ==
    /\ pc[p] = "punch"
    /\ packets[p] = 0
    /\ MoveTo(p, "failed")
    /\ UNCHANGED <<at, discovery, punching>>

SendPunchUnparsed(p) ==
    /\ pc[p] = "punch"
    /\ packets' = [packets EXCEPT ![p] = @ + 1]
    /\ MoveTo(p, IF packets'[p] = PunchCount THEN "connected" ELSE "punch")
    /\ UNCHANGED <<at, discovery, target, strategy>>

SendPunchOnceMore(p) ==
    /\ pc[p] = "punch"
    /\ info[target[p]].endpoint # "shifted"
    /\ packets' = [packets EXCEPT ![p] = @ + 1]
    /\ MoveTo(p, IF packets'[p] > PunchCount THEN "connected" ELSE "punch")
    /\ UNCHANGED <<at, discovery, target, strategy>>

\* A packet is sent, or its error logged; the last one ends the punch.
SendPunch(p) ==
    /\ pc[p] = "punch"
    /\ info[target[p]].endpoint # "shifted"
    /\ packets' = [packets EXCEPT ![p] = @ + 1]
    /\ MoveTo(p, IF packets'[p] = PunchCount THEN "connected" ELSE "punch")
    /\ UNCHANGED <<at, discovery, target, strategy>>

Receive(p) ==
    \E a \in Answer :
        \/ DetectorFinds(p, a)
        \/ DetectorPanics(p, a)
        \/ ClientFinds(p, a)
        \/ AnswerIsUseless(p, a)

\* What a peer does once a discovery has begun.
Proceed(p) ==
    \/ Ask(p)
    \/ AskFails(p)
    \/ Timeout(p)
    \/ Receive(p)
    \/ FallBack(p)
    \/ PunchFails(p)
    \/ SendPunch(p)

Next ==
    \/ \E p \in Peer : StartDiscovery(p) \/ Proceed(p)
    \/ \E p, q \in Peer : PunchHole(p, q)

Spec == Init /\ [][Next]_vars

\* Discoveries and punches go on; callers need not begin any.  The network need
\* not deliver anything: the timeout is a step of the peer as well.
FairSpec == Spec /\ \A p \in Peer : WF_vars(Proceed(p))

-----------------------------------------------------------------------------
(* Properties *)

\* Every variable keeps its type.
TypeOK ==
    /\ bind \in [Peer -> Bind]
    /\ tool \in [Peer -> {"detector", "client"}]
    /\ pc \in [Peer -> Place]
    /\ at \in [Peer -> 0..NumServers + 1]
    /\ answered \in [Peer -> BOOLEAN]
    /\ info \in [Peer -> [nat : NatType, endpoint : Endpoint]]
    /\ target \in [Peer -> Peer \cup {NoPeer}]
    /\ strategy \in [Peer -> Strategy]
    /\ packets \in [Peer -> 0..PunchCount]

\* No peer with a private or loopback address is ever found to be Open,
\* whatever datagrams it took and whomever they were from.
PrivateIsNeverOpen ==
    \A p \in Peer : info[p].nat = "Open" => bind[p] \notin {"private", "loopback"}

\* p has a public address but tells q, which has none, what a datagram said:
\* its own second detection finds it Open, q is told that it is Symmetric.
Hides(p, q) == answered[p] /\ ~IsPrivate(bind[p]) /\ IsPrivate(bind[q])

\* Two peers that punch for each other choose the same strategy, although each
\* is told the other's first detection and makes a second one of its own, which
\* never asks a server: all but a pair of which one hides from the other.
StrategiesAgree ==
    \A p, q \in Peer :
        /\ target[p] = q /\ target[q] = p
        /\ ~Hides(p, q) /\ ~Hides(q, p)
        => strategy[p] = strategy[q]

\* Two peers of which each takes itself for connected to the other have taken
\* the same strategy, whatever they were told: one that differs punches for an
\* endpoint of three octets, and fails before its first packet.
ConnectedPeersAgree ==
    \A p, q \in Peer :
        /\ target[p] = q /\ target[q] = p
        /\ pc[p] = "connected" /\ pc[q] = "connected"
        => strategy[p] = strategy[q]

InProgress(p) == pc[p] \in {"try", "wait", "punch"}

\* How many more steps of its own a discovery or a punch may take.
StepsLeft(p) ==
    CASE pc[p] = "try" -> 2 * (NumServers + 1 - at[p]) + 1
      [] pc[p] = "wait" -> 2 * (NumServers + 1 - at[p])
      [] pc[p] = "punch" -> PunchCount - packets[p]
      [] OTHER -> 0

\* What a step of its own changes.
Position(p) == <<pc[p], at[p], packets[p]>>

\* No server is asked twice and no packet is sent again, however many answers
\* come late, doubled or useless and whatever fails: a discovery is over within
\* two steps per server and one, a punch within its packets.
AttemptsAreUsedUp ==
    [][ \A p \in Peer :
          InProgress(p) /\ Position(p)' # Position(p)
          => StepsLeft(p)' < StepsLeft(p) ]_vars

\* With all answers lost, late or useless a discovery still ends, and so does
\* every punch.
DiscoveryEnds ==
    \A p \in Peer : InProgress(p) ~> pc[p] \in {"found"} \cup Ended
=============================================================================
