# A TLA+ model of jrok

jrok is a tunnelling service: agents behind a NAT connect to one of several
servers over a WebSocket and claim a subdomain; the servers forward HTTP requests
to them and help TCP clients reach them.  All that the servers share is one
SQL database (Turso/libsql).  This directory models the parts in which the order of
things matters, checks them with TLC, and proves with TLAPS what the checks found true.

* [The system](#the-system)
* [The modules and the code](#the-modules-and-the-code)
* [The runs](#the-runs)
* [Where the code and its documents disagree](#where-the-code-and-its-documents-disagree)
* [The proofs](#the-proofs)
* [What is not modelled](#what-is-not-modelled)
* [Plan](#plan)

## The system

| Component | State | Operations | What makes it hard | What makes it correct |
|---|---|---|---|---|
| Leader election, `src/cluster/mod.rs`, `src/db/mod.rs:36-157` | rows `servers`, `cluster_state`; per process the flag `is_leader` | `start`, `heartbeat_loop`, `try_become_leader`, `renew_leadership`, `shutdown` | decisions made on a read and carried out by a later statement; two timeouts for one lease; clocks that differ; calls that fail after they took effect | one leader, terms that rise, a lease that never moves back, a successor in bounded time, no live server marked unhealthy |
| Agent registry, `src/agent/registry.rs`, `src/db/mod.rs:241-379` | row per agent, the map `agents` of each process | `register`, `unregister`, `update_heartbeat`, `cleanup_stale` | check-then-act over several calls; row and map entry age apart; cleanup on every server at once | a name is unlisted only for a reason, entries have rows, names of dead servers are freed, agents get back in |
| Cleanup loop, `src/cluster/mod.rs:127-148`, and shutdown | none of its own | two statements on `servers` and `agents`, a scan, the removals, two sweeps | any statement may fail or be the last before a crash | the same as of the registry |
| WebSocket handler, `src/agent/mod.rs` | `agent_id` of the connection | `Register`, `Heartbeat`, reports for TCP sessions | an agent may register twice, or vanish without a word | the same as of the registry |
| HTTP proxy, `src/tunnel/mod.rs` and `pending` of the registry | a handler per request, the map `pending` | `proxy_http`, `create_pending_request`, `handle_response` | the agent leaves between lookup and send; a client leaves at any await; nobody answers | every handler ends, `pending` does not keep what was answered |
| TCP facilitator, `src/tcp/mod.rs` | `sessions`, relays, counters | `request_connection`, `agent_listening`, `client_connected`, `connection_failed`, `cleanup_sessions` | reports that come late, twice, in any order | the strategy fits the NATs, the counters fit the sessions; that a poll never goes back is [refuted](#where-the-code-and-its-documents-disagree) |
| Relay and tracker library, `src/relay/mod.rs` | three atomics, records and relays per session | `track_attempt`, `mark_success`, `mark_failed`, `create_relay`, `close_relay`, `cleanup_old`, `get_stats` | a call takes several locks and atomics one after the other, and may be dropped in between | successes are attempts, what a record shows was counted, a rate is at most 1 |
| NAT and STUN, `src/nat/mod.rs`, `src/stun/mod.rs` | locals of a discovery and of a punch | `detect`, `discover_public_endpoint`, the two parsers, `determine_strategy`, `punch_hole` | answers that are late, lost, doubled, short or from nobody that was asked; two peers that decide on what the other said | a private host is never Open, two peers that connect took the same strategy, a discovery ends |
| TCP ports and tunnels, `src/db/mod.rs:380-466` | tables `tunnels`, `tcp_ports` | `create_tunnel`, `allocate_tcp_port`, `deallocate_tcp_port` | an insert per port, whose error means "in use" | the primary key; [not modelled](#what-is-not-modelled) |
| API keys, configuration, CLI, deployment | table `api_keys` | single statements | none | only as a guard, a constant, an assumption of fairness |

How they interact.  Every server runs all of them in one tokio process.  The election
and the cleanup are two tasks that share the database rows and nothing in memory.  The
WebSocket handler calls the registry and, for TCP sessions, the facilitator.  The proxy
and the facilitator look an agent up in the registry's map, let go of its lock, and put
a message into the agent's channel later.  Servers meet in the database only: the
cleanup loop of one reads the heartbeats that another wrote, and the registry of one
reads the rows of another.  Of the relay, NAT and STUN libraries the server uses
only `is_private_ip` and the types (the facilitator has a tracker and a relay of its own): they are modelled with
callers that do anything their interface allows.

## The modules and the code

| Module | Models | Extends |
|---|---|---|
| `Cluster` | the election: `cluster/mod.rs`, and the statements it calls | |
| `Takeover` | `Cluster` with two history variables: one times a vacancy, one the calm since a failure | `Cluster` |
| `Lease` | what the row of `cluster_state` promises: the abstract specification that `Cluster` implements | |
| `ServerRows` | what the table `servers` promises to those who ask it for a healthy server: the abstract specification that both `Cluster` and `AgentRegistry` implement | |
| `MCTakeover` | clock skews for TLC | `Takeover` |
| `AgentRegistry` | registration, cleanup, shutdown over the tables `agents` and `servers` | |
| `MCAgentRegistry`, `MCRegistryWatch` | symmetry; what tests and documents say of the registry | `AgentRegistry` |
| `LocalAgents` | the map of agents of one server as its two users see it | |
| `HttpProxy` | `proxy_http` and `pending` | `LocalAgents` |
| `TcpFacilitator` | `tcp/mod.rs` | `LocalAgents` |
| `RelayTracker` | `ConnectionTracker` and `RelayServer` of `relay/mod.rs` | |
| `NatTraversal` | `NatDetector`, `HolePuncher` of `nat/mod.rs` and `StunClient` of `stun/mod.rs` | |
| `ClusterProofs`, `AgentRegistryProofs`, `LocalAgentsProofs`, `HttpProxyProofs`, `TcpFacilitatorProofs`, `RelayTrackerProofs`, `NatTraversalProofs` | theorems about the module each is named after | that module |
| `TakeoverProofs` | the bounds on a vacancy and on two leaders | `Takeover`, `ClusterProofs` |

`PROJECT.json` maps each definition to its lines.  A definition whose name extends
another's by what it does differently (`ClaimRowKeepsHeartbeat`) is not part of a model:
it is a plausible mistake in that code, and substituting it must break a property.

### Cluster

`pc[s]` is the place of server `s` in `heartbeat_loop`: `idle` between ticks, and one
value per await (`beat`, `read`, `elect`, `claim`, `renew`); `won` and `lost` are the two
answers the loop has not acted upon yet.  Every database call is one action for its
success and one for its error.  The error of a write comes with or without the effect.

Time is a number.  Server `s` reads `now + Skew[s]`; `readAt[s]` is the value of the
local `now` of its round, and is what the round writes, however late.  The interval
catches up on late ticks (`due` moves by exactly one interval), as tokio's does by
default.  `AdvanceTime` is the only timing assumption: a live server ends the round due
at `t` by `t + MaxDelay`.  In particular `become_leader` compares its stale `readAt`
with the lease, and with the literal 15000 (`ClaimTimeout`), where the loop compares
with `leader_timeout_ms` (`LeaderTimeout`).

The cleanup's `mark_servers_unhealthy` may come at any moment of a running process with
a cutoff up to `MaxDelay` old: more than the loop does, so that the safety of
`is_healthy` does not depend on its interval.  `Shutdown` marks the row and lets the
loops go on, as the Ctrl-C task in `main.rs:71-78` does.

`Lease` knows a holder, a term, a stamp and a clock; nothing of loops, reads and calls.
The holder changes only when the lease is vacant or has expired on the fastest clock; each change
begins the next term; the stamp moves forward and never ahead of that clock.  `Cluster!ImplementsLease`
reads the row as such a lease, with `ClaimTimeout` as its duration, `MaxSkew` as the drift, and
`dbErrors > 0` as the licence to begin the terms at 1 again, which the fallback
of `try_become_leader` takes.  A step of `Cluster` is a `Take`, an `Extend`, a `Fail` (also together
with one of the two), an `AdvanceTime`, or a stutter.

`Takeover` adds no behaviour.  `vacancy` is the time at which the process that held the lease died, with the
servers that have run since without an error of a call of their own (`standby`); a claim or a renewal ends it.  `calm` is the time since
a failure, kept only while there is a doubt: some server believes to lead and does not hold the lease.
A heartbeat that fails (`cluster/mod.rs:67`) and a claim that is beaten (`:82`) end the round without a look at the flag, so
errors may leave two servers that believe to lead; `SplitBrainHeals` says how long: the calm of `HealBound`, two
intervals and a delay, undoes it.

`ServerRows` is where the timed and the untimed model meet.  It keeps four sets of servers (running, quitting, healthy, late) and whether
anything has failed, and says: a row turns healthy when its process registers and by nothing else; it turns
unhealthy when its process quits, or is marked while it is dead or late; nobody is late before a call has failed.
In `Cluster`, late is a stamp that the cutoff of some server may find too old; in `AgentRegistry`, that `fresh` is
false.  So the abstraction of time below is what the timed model promises, and no more.

### AgentRegistry

Timestamps are abstracted to the question that the code asks of them: newer than the
cutoff (`fresh`) or not.  A fresh stamp may turn stale at any moment, so every order of
two cutoffs is covered.  The stamp of a running server turns stale by a fault only.
`conn[c]` is the handler of agent `c`'s connection, with the locals of
`register` between its calls: `lookup`, `owner`, `upsert`, `insert`.  `loop[s]` walks
through the statements of `cleanup_loop`; `doomed[s]` is the list that `cleanup_stale`
collects before it removes.

Two constants are sets of booleans because the answer lies outside `src/`:
`UniqueSubdomain` (whether the database enforces a unique `agents.subdomain`, which the
`ON CONFLICT(subdomain)` of `register_agent` needs; the migration in the repository does
not, a deployment may) and `NullReadsAsText` (whether the client turns the NULL of
`tunnel_id`, which `register_agent` never sets, into a `String`; libsql returns an error).
`{TRUE, FALSE}` lets each call meet either.  The safety run uses that.  The liveness runs
and the violations fix them, each as said below.

### LocalAgents, HttpProxy, TcpFacilitator

`LocalAgents` keeps, of the registry's map, what a lookup followed by a send can tell
apart: whether the entry is there, and whether its channel has a receiver.  `register`
binds the receiving end to the local `_rx`, so the channel is open from the insertion
until `register` returns and closed afterwards.

`HttpProxy` has one action per await of `proxy_http`.  The wait for the body of the request (`tunnel/mod.rs:55`) is one of them, has no timeout,
and ends by a step of the client, `BodyArrives`.  `ClientGoes` drops a handler at
any of them, as hyper does with a future whose connection closed.  Because no message
in a channel is ever read, no agent knows a request id, and the branch of
`handle_response` that finds a pending request has no action: it is unreachable.

`TcpFacilitator` has one action per critical section.  `ConnectInfo` is a set of
booleans: `main.rs:80` serves the router without `into_make_service_with_connect_info`,
so the extractor of the client's address fails and `{FALSE}` would describe it; with
`{TRUE, FALSE}` the code behind the extractor is explored as well.  `CleanupCalled` says
whether something calls `cleanup_old_sessions`, which has no route.

### RelayTracker

A task is a caller.  `task[t]` is what it has left to do after an await: the insertion of
`track_attempt`, whose count comes before the lock, or the record of `close_relay`, whose removal of the
relay comes before it.  `Drop` drops the caller there.  The three loads of `get_stats` are
relaxed and may be carried out in any order; `seen` is what they have found.  A record is `old` when its age
exceeds `max_age_ms`.  Session ids may be used again.  `repeated` is a history variable: a caller
has reported the success of one record twice, which `mark_success` counts twice, as it does not look at
the flag it sets.

### NatTraversal

`pc[p]` walks a peer through a discovery (`try` a server, `wait` for its answer), then through a
`punch`.  Each server is asked from a new socket on the same address, and the first datagram that comes is taken for its answer: neither reader
looks at the sender or the transaction id (`nat/mod.rs:176`, `stun/mod.rs:145`).  So `Receive` takes any datagram at any wait: the answer itself, that of a
server asked before, a copy of it, a packet of a peer that punches, or what nobody was asked for.  Which of them it was makes no difference to the code,
and the model does not record it.  A datagram is whether it is a binding response, its attributes' kinds (`mapped`, `mapped6`,
`xor`, `error`, `other`), and whether the last one is whole.  The endpoint is what a reader makes of it: `shifted` is what
`NatDetector` makes of every datagram, as it indexes a byte too far (`nat/mod.rs:238-242`), and a MAPPED-ADDRESS that
ends the datagram makes it panic; `told` and `masked` are what `StunClient` makes of a MAPPED-ADDRESS and of an XOR-MAPPED-ADDRESS, whose port stays
as it came.  `answered` is a history variable: a datagram ended the discovery.
`punch_hole` detects a second time with the default servers, which are host names and never parse as
a `SocketAddr`, hence `DetectAgain` is the fallback by address, whatever the first detection said.

## The runs

Every bound is a constant and is named in the module that has it.

| Run | Checks | Instance and why it is enough |
|---|---|---|
| `cluster` | `TypeOK`, `AtMostOneLeader`, `LiveServerStaysHealthy`, `TakeoverWithinBound`, `SplitBrainHeals`, `RoundLeavesLiveLease`, `ElectionsRaiseTerm`, `LeaseNeverShrinks`, `ImplementsLease` | two servers, one of which may get a Ctrl-C, clocks 1 apart, delay 1, both timeouts 3 (the smallest that satisfy `PromptRenewals` and `PromptHeartbeats` below), one crash, one failing call with or without its effect, 7 units of time: two boots, a claim, a crash, an expiry and a contended takeover fit in, and so do an error that leaves two leaders and the rounds that heal it. 1.4 million states. One run, because the nine are questions about the same executions |
| `registry_safety` | `TypeOK`, `EntriesAreListed`, `DeactivationJustified`, `CleanupSparesNewEntries` | two servers, two agents, two ids, one name, one fault: two registrations of a name may interleave with a cleanup on each server, a shutdown and one failure. Ids, servers and agents are symmetric |
| `registry_freed` | `NamesOfDeadServersAreFreed` | two servers, one of which may stay dead, two faults: one kills the owner, one the cleaner half way; a second agent has a bad key |
| `registry_welcomed` | `AgentIsWelcomed`, `ImplementsServerRows` | one agent with two ids, whose first registration, connection or server is lost; one of the two servers may quit, each may die, lag behind and be marked by the other |
| `registry_heartbeat` | `HeartbeatKeepsAgent` is violated | one agent, no faults |
| `registry_one_server` | `NameHasOneServer` is violated | two agents, no faults |
| `proxy` | `TypeOK`, `PendingIsAwaited`, `RequestIsAnswered` | two requests, two agents of either protocol, two names, so that a name may have two entries and a request may outlive its agent |
| `proxy_forward` | `LocalAgentGetsRequest` is violated | one request, one agent |
| `tcp_sessions` | `TypeOK`, `StrategyFitsNats`, `SuccessesFitClients`, `ConnectedAreCounted` | two sessions and four reports: every pair of reports on each session, or one that is connected, set back, connected and set back again. 413 000 states |
| `tcp_setback` | `PollsGoForward` is violated | one session, two reports |
| `relay` | `TypeOK`, `SuccessesFitAttempts`, `FlagsAreCounted`, `RateIsARatio` | two callers, two sessions, counters up to 2: an attempt may be counted between the two halves of another, a record be replaced while a relay of its id closes, and a reader be overtaken between loads. 2.0 million states |
| `nat` | `TypeOK`, `PrivateIsNeverOpen`, `StrategiesAgree`, `ConnectedPeersAgree`, `DiscoveryEnds`, `AttemptsAreUsedUp` | two peers of every kind of address and either tool, two servers (a first wait and a later one), datagrams of at most two attributes (so that a first, a last, and a pair in either order exist), the code's five packets. No server is a host name: the attempts on one fail at once, which `AskFails` covers |

`TakeoverBound = 6` is `LeaderTimeout + HeartbeatInterval + MaxDelay + MaxSkew`, and is
tight: with 5 TLC finds a counterexample.  ARCHITECTURE.md promises 15 seconds, which is
the timeout alone; a successor may take as much longer as an interval, a delay and the skew.
The run's one failing call leaves two leaders when a heartbeat fails and another server takes the lease.  A former leader that is *beaten* to
its lease, with the flag still up, needs two failing rounds before.  The same instance with `MaxDbErrors = 2` (3.7 million states, too long for a
regular run) and, without crash and Ctrl-C, with 3 satisfies `SplitBrainHeals` too; in the latter a `HealBound` of 2 instead of 3 is
violated, so the bound is tight.  For all other values there is the theorem.

The two `HttpProxy` runs and `nat` do not check for deadlock: the instances have finitely many requests,
agents and peers, and the system rests when all are done.  Everywhere else the loops go on.

Fairness.  `cluster`, `registry_safety`, `tcp_sessions` and `relay` have none; they check safety,
and `TakeoverWithinBound` turns the one promise of progress of the election into safety by
means of explicit time.  `HttpProxy!FairSpec` is weak fairness of a handler's own steps:
the runtime polls a future that can go on, and its timer fires.  A client's steps are not fair: it may keep its body back for ever, and
`RequestIsAnswered` begins when the body is there.
`NatTraversal!FairSpec` is weak fairness of what a peer does once a discovery has begun: `recv_from` is wrapped
in a timeout of 3 seconds, and the loops over servers and packets are of fixed length.  Callers need not begin a discovery, and
the network need not deliver anything.  `DiscoveryEnds` counts the panic of the detector as an end: the task is gone.
`AgentRegistry!FairSpec` is weak fairness of the cleanup loops (a tokio interval), of
the ageing of stamps that nobody refreshes, of an agent that connects and registers as long as it has no
Welcome (the retry loop of `cli/src/main.rs:75`), and of the restart of the servers in
`Restarted` (systemd's `Restart=on-failure`, docs/DEPLOYMENT.md:235).  No fairness is assumed of
faults, shutdowns, or the death of anything.  Both registry runs restart `s2` only: `s1` may
stay dead for good, and `s2` may get a Ctrl-C, after which its row stays
unhealthy while it runs on.  They fix `UniqueSubdomain = {TRUE}` and `NullReadsAsText = {FALSE}`:
without the constraint nobody is ever welcomed.

## Where the code and its documents disagree

Four disagreements have a run that shows them (`findings` in `PROJECT.json`):

1. `update_heartbeat` does not refresh the entry that `cleanup_stale` looks at.
2. The ownership check of `register` and its upsert are separate.
3. `register` drops the receiving end of the agent's channel: forwarding never works.
4. `agent_listening` does not look at the status it overwrites: a late or repeated report of the agent sets a session that a poll called "connected"
   or "relayed" back to "hole_punching" or "ready".  (The run has a client address, `ConnectInfo = {TRUE}`.)

These can be read off the code and have no run of their own:

* `register_agent` says `ON CONFLICT(subdomain)` (`db/mod.rs:304`), for which the migration creates no unique index; SQLite refuses that, and
  `test_agent_registration` (`tests/integration_test.rs:18-23`) cannot pass.  `registry_safety` has both kinds of database.
* `become_leader` compares with the literal 15000 instead of `leader_timeout_ms` (`README.md:176` makes it a
  setting): with a smaller one even the holder of an expired lease can neither renew nor claim it.
  `RoundLeavesLiveLease` then fails, and its theorem assumes the contrary (`LoopWaitsForClaims`).
* `cleanup_loop` runs on every server; ARCHITECTURE.md:67-69 gives the background tasks to the leader.
* Ctrl-C runs `shutdown` and nothing else: listener and loops go on (`main.rs:71-78`), so
  a server marked unhealthy still leads and accepts agents.
* A failed read makes the new term 1 (`cluster/mod.rs:111`); `ElectionsRaiseTerm` has the exception.
* A failed heartbeat skips the round with the flag unchanged (`cluster/mod.rs:67`), which is
  why `AtMostOneLeader` asks for a database that answers; `SplitBrainHeals` says when it holds again.
* No `ConnectInfo` (`main.rs:80`), no caller of `cleanup_old_sessions` (`tcp/mod.rs:572`), and a
  `mark_failed` that counts nothing (`tcp/mod.rs:65`).
* A redirect follows the row, whether or not that server has the entry (`tunnel/mod.rs:30`).

* A success by way of a relay counts in `relay_used`, and counts there again when the relay is closed; `direct_success`
  of its record is set all the same (`relay/mod.rs:67-98`, `:256`).
* The default STUN servers are host names, which never parse as socket addresses: a detection by default always falls back to the
  local address, and `punch_hole` never finds "relay".
* A public host whose STUN query succeeds is found Symmetric; `tests/nat_traversal_test.rs:25` expects Open.
  0.0.0.0, an address of no host, is found Open.
* Two peers of which one has a public address and an answer of a server choose differently when the other is private: the one is told "Symmetric" and punches, the
  other finds itself Open and calls itself connected.  `StrategiesAgree` has the exception (`Hides`); `ConnectedPeersAgree` says that the one that punches then fails.
* `StunClient` leaves the port of an XOR-MAPPED-ADDRESS XORed (`stun/mod.rs:271`, though `:274` says "need to XOR with magic cookie"), and names the server it was asking
  although the datagram may be another's (`:251`).  `NatDetector` panics on a MAPPED-ADDRESS that ends the datagram.
* A private peer whose detection fell back tells 0.0.0.0:0, and a punch for that endpoint reaches nobody and succeeds (`nat/mod.rs:396-421`).
* The body of a request is awaited without a timeout (`tunnel/mod.rs:55`), in front of the one of 30 seconds.
* The CLI returns from `try_connect` as soon as it is welcomed, which drops the connection, and connects again
  (`cli/src/main.rs:75-143`).

## The proofs

`ClusterProofs` proves, for every set of servers, every skew, timeout and bound that satisfies
`ClusterAssumption`:

| Theorem | Further assumption | Inductive invariant |
|---|---|---|
| `Typing`: `Spec => []TypeOK` | none | `TypeOK` |
| `LeaseNeverMovesBack`: `Spec => LeaseNeverShrinks` | none | `BaseInv` |
| `TermsOfElections`: `Spec => ElectionsRaiseTerm` | `PromptClaims` | `BaseInv /\ TermInv` |
| `OneLeader`: `Spec => []AtMostOneLeader` | `PromptRenewals` | `BaseInv /\ LeaderInv` |
| `RunningServersAreHealthy`: `Spec => []LiveServerStaysHealthy` | `PromptHeartbeats` | `BaseInv /\ HealthInv` |
| `LeaseIsImplemented`: `Spec => ImplementsLease` | `PromptClaims` | `BaseInv /\ TermInv` |
| `RoundsLeaveALease`: `Spec => RoundLeavesLiveLease` | `LoopWaitsForClaims` | `BaseInv /\ DecidedInv` |
| `ServerRowsAreImplemented`: `Spec => R!Spec`, the table of `ServerRows` | `PromptHeartbeats` | `BaseInv /\ HealthInv /\ StopInv` |
| `TakeoverProofs!NextLeaderComesInTime`: `WatchSpec => []TakeoverWithinBound` | `LoopWaitsForClaims`, `BoundCoversTakeover` | `BaseInv /\ DecidedInv /\ DueInv /\ WatchTypeOK /\ VacancyInv` |
| `TakeoverProofs!SplitBrainHealsInTime`: `WatchSpec => []SplitBrainHeals` | `PromptRenewals`, `LoopWaitsForClaims` | `BaseInv /\ DueInv /\ WatchTypeOK /\ HealInv` |

`BaseInv` is `TypeOK /\ TimeInv /\ LeaseInv`.  `TimeInv`: a live server is not past its deadline,
and the clock value of its round was read within that round.  This is what bounds
how stale a write can be.  `LeaseInv`: the holder's clock is at or past the lease, as it wrote it with that
clock.  A renewal therefore never moves it back, and a claim overwrites only an older time;
this needs no assumption about clocks or delays at all.

`TermInv`: a prepared claim carries the successor of the term in the row, or its
read of the term failed, or the row has been written since by so recent a write
that the claim will match nothing.  The last case needs
`PromptClaims`: `MaxDelay + MaxSkew <= ClaimTimeout`.

`LeaderInv`: a server whose flag is up, or is about to be, holds the lease and renewed it in its
last complete round.  It is not in the branch that claims.  That the lease has not expired for itself or for
another needs `PromptRenewals`: `HeartbeatInterval + MaxDelay + MaxSkew <= ClaimTimeout`
and `HeartbeatInterval + MaxDelay <= LeaderTimeout`.  With the defaults (5 s and twice 15 s) delay and
skew may reach 10 s together.  `AtMostOneLeader` by itself is not inductive: it does not
say that the holder of the flag holds the lease.

`HealthInv`: the stamp of a running server is as recent as its rounds; `PromptHeartbeats` bounds
its age at any other's cutoff.

`DecidedInv`: a round that has seen a live lease, or written one, would see it still; the row is never given up and
its stamp never moves back.  `LoopWaitsForClaims` is `ClaimTimeout <= LeaderTimeout`: a claim that is refused has met a lease that the
loop takes for live too.

`VacancyInv`: while a vacancy lasts the row is as the dead leader left it, and no watched server has completed a round that began
after the lease ran out on its clock, because by `RoundsLeaveALease` such a round changes the row.  The next
round is one interval later at most, and `MaxDelay` late: the bound is `LeaderTimeout + HeartbeatInterval + MaxDelay + MaxSkew`
for any number of servers, the value that TLC finds to be tight for two.

Neither `NextLeaderComesInTime` nor `RoundsLeaveALease` asks for a database that has never failed: errors of other servers and
earlier errors are among the behaviours, and only a server whose own call is answered by an error stops being on standby.

`HealInv` has three parts.  `FlagInv`: a raised flag belongs to the holder of the lease, or its server has completed no round
begun after the last failure, or only one, in which another beat it to the lease.  `ClaimInv`: a server that claims
with its flag raised, in a round begun after the last failure, finds the lease claimable or has been beaten.
`WonInv`: a claim that has just succeeded is the lease.  The second round of a beaten server reads a live lease of another and lowers the flag,
which is why the bound has two intervals and not one.  `PromptRenewals` keeps the winner's lease alive until then.

`ServerRowsAreImplemented` needs `HealthInv` for the servers that are not late while nothing has failed, and `StopInv` (only a
registered process has a Ctrl-C behind it).  TLC confirmed the same refinement on the instance of `cluster`; it is no property of that
run because it doubles its time.

`AgentRegistryProofs` proves, from `RegistryAssumption` alone and for any numbers of servers, agents, ids, names and faults:

| Theorem | Inductive invariant |
|---|---|
| `AgentRegistryProofs!Typing` | `TypeOK` |
| `EntriesHaveRows`: `Spec => []EntriesAreListed` | `TypeOK /\ EntriesAreListed /\ InsertInv` |
| `CleanupSparesTheNew`: `Spec => CleanupSparesNewEntries` | `TypeOK /\ IdInv /\ KeyInv /\ DoomedInv` |
| `DeactivationsAreJustified`: `Spec => DeactivationJustified` | the same and `MarkInv` |
| `RegistryImplementsServerRows`: `Spec => ImplementsServerRows` | `TypeOK` |

`InsertInv`: a handler that comes to the insertion has its row.  `IdInv`: an id that is being registered is in nobody else's hands
(the code draws a UUID per registration), so that what the scan has found (`DoomedInv`: it is still there, and old) is
never the entry of a newcomer.  `MarkInv`: the second statement of a shutdown finds its server marked.
`RegistryImplementsServerRows` and `ServerRowsAreImplemented` together tie the two models: they have one specification of the table in common.

`HttpProxyProofs` and `TcpFacilitatorProofs` prove, for all agents, requests, sessions and reports, and from the
assumptions on constants in the two modules alone:

| Theorem | Inductive invariant |
|---|---|
| `HttpProxyProofs!Typing` | `TypeOK` |
| `PendingRequestsAreAwaited`: `Spec => []PendingIsAwaited` | `TypeOK /\ PendingInv` |
| `TcpFacilitatorProofs!Typing` | `TypeOK /\ CountInv` |
| `SessionsFitNats`: `Spec => []StrategyFitsNats` | `TypeOK /\ StrategyFitsNats` |
| `ConnectionsAreCounted`: `Spec => []ConnectedAreCounted` | `TypeOK /\ ConnectedInv` |
| `StatisticsFitClients`: `Spec => []SuccessesFitClients` | `TypeOK /\ ClientInv /\ SuccessesFitClients` |

`PendingInv` adds that a request is not pending before it is made: otherwise a lookup that answers
at once could leave an entry behind.  `CountInv` says that a report counts at most one success, without which no
bound on reports bounds the counters.  `ClientInv` ties a session to the request that made it: it is direct exactly if the client's
address was public, so a success counted on it has a client of that kind.  The proofs for sessions go through
`SessionChanges` (what a step may do to one session) and `SessionAfter` (what each step leaves).

`RelayTrackerProofs` and `NatTraversalProofs` do the same for any callers, sessions, peers, servers and lengths of answers:

| Theorem | Inductive invariant |
|---|---|
| `RelayTrackerProofs!Typing` | `TypeOK` |
| `SuccessesAreAttempts`: `Spec => []SuccessesFitAttempts` | `CountInv` |
| `RecordsAreCounted`: `Spec => []FlagsAreCounted` | `CountInv` |
| `RatesAreRatios`: `Spec => []RateIsARatio` | `CountInv` |
| `NatTraversalProofs!Typing` | `TypeOK /\ QuietInv /\ BoundInv` |
| `PrivatePeersAreNeverOpen`: `Spec => []PrivateIsNeverOpen` | the same and `FitInv` |
| `PeersAgree`: `Spec => []StrategiesAgree` | the same, `FitInv` and `AgreeInv` |
| `ConnectedPeersDidTheSame`: `Spec => []ConnectedPeersAgree` | the same and `StartedInv` |
| `AttemptsComeToAnEnd`: `Spec => AttemptsAreUsedUp`, with a count that is a natural number, positive in progress | `TypeOK /\ QuietInv /\ BoundInv` |
| `NobodyIsStuck`: `Spec => []CanGoOn` | the same, `FitInv`, `AgreeInv` and `StartedInv` |

`CountInv` has a budget in it: successes counted, records that may still succeed and records about to be
inserted are together no more than the attempts.  Without the last two, a success could spend an attempt that another record
has spent already.  `SeenInv` says that counters only rise above what a reader has loaded.
`FitInv` ties what a peer has found to its address and to whether a datagram ended its discovery; `AgreeInv` says that what a peer was called
with is still what the other one says.  From the two, `Strategies` gives the strategy of a peer by its own address, the other's and whether a datagram answered the
other: the one case in which two peers differ is `Hides`.  There `StartedInv` takes over: a peer that connected by punching has read an endpoint
that parses, and one told by a datagram is of three octets.

`AttemptsComeToAnEnd` and `NobodyIsStuck` are the two halves of `DiscoveryEnds` that need no temporal reasoning, for any number of servers and packets:
each step of a peer in progress lowers a natural number, and one that needs no answer is always open to it.
`StartedInv` and `AgreeInv` are why a punch does not stall: whom it punches for has found its endpoint for good, and
the first packet has read it.  That such steps are taken is the fairness of `FairSpec`.

Model-checked only: liveness (`NamesOfDeadServersAreFreed`, `AgentIsWelcomed`,
`RequestIsAnswered`, `DiscoveryEnds`), as temporal reasoning with fairness and ENABLED is beyond the prover.

## What is not modelled

* The contents of requests, responses, headers and messages, and what an agent does with them.
* `TcpConnect`, `TcpData`, `TcpDisconnect`: they echo or log, and change no state.
* The CLI's input and output, the scripts and the infrastructure.
* Key creation and deletion: single statements; whether a key is valid is `Authorized`.
* The `Ok(None)` arm of `heartbeat_loop` (`cluster/mod.rs:95-100`): the migration inserts the row of `cluster_state`, and nothing deletes it.
* Clocks that are set back, and a database that loses a committed statement.
* TCP ports and tunnels: single statements on tables that nothing else reads, with no caller but a test.
  Between two servers the primary key of `tcp_ports` decides; a model would say no more than that.
* `UdpHolePuncher` and the byte counts of a relay: a loop of fixed length without a caller, and numbers that are only logged.
* Whether a packet gets through a NAT: `punch_hole` does not wait for one, it succeeds when five have been sent.

## Plan

Done: the election and the lease it implements, the registry, the table of servers that both implement, the proxy, the facilitator, the tracker,
the traversal, and the proofs above, which cover every safety property of a passing run.  Next, in this order:

1. For the other liveness properties what `AttemptsComeToAnEnd` and `NobodyIsStuck` are for `DiscoveryEnds`: a measure of the handler of `proxy_http`,
   and of the cleanup loop.
2. An abstract routing table (a name, and the servers that may be asked for it) that `AgentRegistry` implements, in a run of one name.
3. Three servers in `cluster`, on fewer units of time: the third contends for a takeover.
4. Runs that compose the proxy and the facilitator over one `LocalAgents`.
