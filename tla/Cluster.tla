------------------------------- MODULE Cluster -------------------------------
(***************************************************************************)
(* The coordination loop of a jrok server (src/cluster/mod.rs) and the two *)
(* tables it works on (servers and cluster_state, src/db/mod.rs).          *)
(*                                                                         *)
(* The servers never talk to each other: each stamps its row of `servers', *)
(* reads the single row of `cluster_state' and either claims, renews or    *)
(* gives up the leadership, one database call after the other.  Every call *)
(* is an action, and every call may fail, with or without its effect.      *)
(*                                                                         *)
(* Time is explicit.  `now' is the true time, server s reads now + Skew[s],*)
(* and the only timing assumption is Deadline: a live server ends the      *)
(* round that was due at time t no later than t + MaxDelay.                *)
(***************************************************************************)
EXTENDS Integers

CONSTANTS
    Server,             \* the servers of the deployment
    Stoppable,          \* the servers that may get a Ctrl-C
    NoLeader,           \* a NULL leader_id
    HeartbeatInterval,  \* config.heartbeat_interval_ms
    LeaderTimeout,      \* config.leader_timeout_ms
    ClaimTimeout,       \* the literal 15000 in become_leader
    MaxDelay,           \* longest time a round of the loop runs late
    MaxSkew,            \* bound on the clocks' difference
    Skew,               \* Skew[s]: how far the clock of s is ahead
    MaxTime,            \* bound: the true time at which the model stops
    MaxCrashes,         \* bound: how many times a process dies
    MaxDbErrors         \* bound: how many database calls return an error

ASSUME ClusterAssumption ==
    /\ NoLeader \notin Server
    /\ Stoppable \subseteq Server
    /\ HeartbeatInterval \in Nat \ {0}
    /\ {LeaderTimeout, ClaimTimeout, MaxDelay, MaxSkew} \subseteq Nat
    /\ {MaxTime, MaxCrashes, MaxDbErrors} \subseteq Nat
    /\ Skew \in [Server -> 0..MaxSkew]

VARIABLES
    now,            \* true time
    servers,        \* table servers: last_heartbeat and is_healthy of a row
    clusterState,   \* the row of table cluster_state
    pc,             \* where each server's heartbeat_loop is
    readAt,         \* the clock value the round has read last
    newTerm,        \* try_become_leader's new_term
    due,            \* when the interval ticks next
    isLeader,       \* the flag Cluster::is_leader
    stopped,        \* the Ctrl-C handler of this process has run
    crashes,        \* processes that died so far
    dbErrors        \* database calls that returned an error so far

tables == <<servers, clusterState>>
budgets == <<crashes, dbErrors>>
vars == <<now, servers, clusterState, pc, readAt, newTerm, due, isLeader,
          stopped, crashes, dbErrors>>

-----------------------------------------------------------------------------
(* Where a server can be.  "down": no process; "boot": register_server is  *)
(* under way; "idle": between two ticks; the others are the awaits of one  *)
(* round, "won" and "lost" standing for an answer not yet acted upon.      *)
(* An operator whose name extends another's by what it does differently    *)
(* (LeaderExpiredOneBeatLate) is no part of the model: it is a plausible   *)
(* mistake in that code, which a property is expected to notice.           *)

Waiting == {"down", "idle"}
Body == {"boot", "beat", "read", "elect", "claim", "renew", "won", "lost"}

\* SystemTime on server s.
Clock(s) == now + Skew[s]

Up(s) == pc[s] # "down"

\* The time at which s has to have moved on: the start of the round it is
\* in, or of its next round, plus MaxDelay.
Deadline(s) ==
    IF pc[s] = "idle" THEN due[s] + MaxDelay
    ELSE due[s] - HeartbeatInterval + MaxDelay

\* A database call that returns Err.
DbError ==
    /\ dbErrors < MaxDbErrors
    /\ dbErrors' = dbErrors + 1

\* s waits for its next tick; the locals of the round are gone.
EndRound(s) ==
    /\ pc' = [pc EXCEPT ![s] = "idle"]
    /\ readAt' = [readAt EXCEPT ![s] = 0]
    /\ newTerm' = [newTerm EXCEPT ![s] = 0]

MoveTo(s, place) ==
    /\ pc' = [pc EXCEPT ![s] = place]
    /\ UNCHANGED <<readAt, newTerm>>

LeaderExpiredOneBeatLate(s) ==
    readAt[s] - clusterState.last_heartbeat > LeaderTimeout + HeartbeatInterval

\* heartbeat_loop's `leader_expired', for the lease as it is now.
LeaderExpired(s) == readAt[s] - clusterState.last_heartbeat > LeaderTimeout

ClaimableAlways(s) == s \in Server

\* The WHERE clause of become_leader.
Claimable(s) ==
    \/ clusterState.leader_id = NoLeader
    \/ clusterState.last_heartbeat < readAt[s] - ClaimTimeout

-----------------------------------------------------------------------------
Init ==
    /\ now = 0
    /\ servers = [s \in Server |-> [last_heartbeat |-> 0, is_healthy |-> FALSE]]
    /\ clusterState = [leader_id |-> NoLeader, leader_term |-> 0,
                       last_heartbeat |-> 0]
    /\ pc = [s \in Server |-> "down"]
    /\ readAt = [s \in Server |-> 0]
    /\ newTerm = [s \in Server |-> 0]
    /\ due = [s \in Server |-> 0]
    /\ isLeader = [s \in Server |-> FALSE]
    /\ stopped = [s \in Server |-> FALSE]
    /\ crashes = 0
    /\ dbErrors = 0

-----------------------------------------------------------------------------
(* Cluster::start *)

\* A process starts and sends the upsert of register_server.
Boot(s) ==
    /\ pc[s] = "down"
    /\ pc' = [pc EXCEPT ![s] = "boot"]
    /\ readAt' = [readAt EXCEPT ![s] = Clock(s)]
    /\ due' = [due EXCEPT ![s] = now + HeartbeatInterval]
    /\ UNCHANGED <<now, tables, newTerm, isLeader, stopped, budgets>>

RegisterRowKeepsHealth(s) ==
    servers' = [servers EXCEPT ![s].last_heartbeat = readAt[s]]

RegisterRow(s) ==
    servers' = [servers EXCEPT ![s] = [last_heartbeat |-> readAt[s],
                                       is_healthy |-> TRUE]]

\* The row is written; the loops are spawned and tick at once.
RegisterServer(s) ==
    /\ pc[s] = "boot"
    /\ RegisterRow(s)
    /\ EndRound(s)
    /\ due' = [due EXCEPT ![s] = now]
    /\ UNCHANGED <<now, clusterState, isLeader, stopped, budgets>>

\* expect("Failed to register server"): the process is gone.
RegisterServerFails(s) ==
    /\ pc[s] = "boot"
    /\ DbError
    /\ RegisterRow(s) \/ UNCHANGED servers
    /\ pc' = [pc EXCEPT ![s] = "down"]
    /\ readAt' = [readAt EXCEPT ![s] = 0]
    /\ due' = [due EXCEPT ![s] = 0]
    /\ UNCHANGED <<now, clusterState, newTerm, isLeader, stopped, crashes>>

-----------------------------------------------------------------------------
(* heartbeat_loop *)

\* The interval fires (late ticks are made up for, so due moves by exactly
\* one interval) and the heartbeat is sent with the clock of this moment.
Tick(s) ==
    /\ pc[s] = "idle"
    /\ due[s] <= now
    /\ pc' = [pc EXCEPT ![s] = "beat"]
    /\ readAt' = [readAt EXCEPT ![s] = Clock(s)]
    /\ due' = [due EXCEPT ![s] = @ + HeartbeatInterval]
    /\ UNCHANGED <<now, tables, newTerm, isLeader, stopped, budgets>>

HeartbeatRow(s) ==
    servers' = [servers EXCEPT ![s].last_heartbeat = readAt[s]]

\* send_heartbeat returns, and the clock is read again for the election.
SendHeartbeat(s) ==
    /\ pc[s] = "beat"
    /\ HeartbeatRow(s)
    /\ pc' = [pc EXCEPT ![s] = "read"]
    /\ readAt' = [readAt EXCEPT ![s] = Clock(s)]
    /\ UNCHANGED <<now, clusterState, newTerm, due, isLeader, stopped, budgets>>

\* `continue': the flag stays what it was.
SendHeartbeatFails(s) ==
    /\ pc[s] = "beat"
    /\ DbError
    /\ HeartbeatRow(s) \/ UNCHANGED servers
    /\ EndRound(s)
    /\ UNCHANGED <<now, clusterState, due, isLeader, stopped, crashes>>

\* The vacant or expired branch: try_become_leader.
SeeVacancy(s) ==
    /\ pc[s] = "read"
    /\ clusterState.leader_id = NoLeader \/ LeaderExpired(s)
    /\ MoveTo(s, "elect")
    /\ UNCHANGED <<now, tables, due, isLeader, stopped, budgets>>

\* A live lease of this server: renew_leadership.
SeeSelf(s) ==
    /\ pc[s] = "read"
    /\ clusterState.leader_id = s
    /\ ~LeaderExpired(s)
    /\ MoveTo(s, "renew")
    /\ UNCHANGED <<now, tables, due, isLeader, stopped, budgets>>

SeeOtherAndGoOn(s) ==
    /\ pc[s] = "read"
    /\ clusterState.leader_id \notin {NoLeader, s}
    /\ ~LeaderExpired(s)
    /\ EndRound(s)
    /\ UNCHANGED <<now, tables, due, isLeader, stopped, budgets>>

\* A live lease of another server.
SeeOther(s) ==
    /\ pc[s] = "read"
    /\ clusterState.leader_id \notin {NoLeader, s}
    /\ ~LeaderExpired(s)
    /\ MoveTo(s, "lost")
    /\ UNCHANGED <<now, tables, due, isLeader, stopped, budgets>>

\* The Err arm: the flag stays what it was.
ReadStateFails(s) ==
    /\ pc[s] = "read"
    /\ DbError
    /\ EndRound(s)
    /\ UNCHANGED <<now, tables, due, isLeader, stopped, crashes>>

ReadTermNoIncrement(s) ==
    /\ pc[s] = "elect"
    /\ pc' = [pc EXCEPT ![s] = "claim"]
    /\ newTerm' = [newTerm EXCEPT ![s] = clusterState.leader_term]
    /\ UNCHANGED <<now, tables, readAt, due, isLeader, stopped, budgets>>

ReadTermDecrement(s) ==
    /\ pc[s] = "elect"
    /\ pc' = [pc EXCEPT ![s] = "claim"]
    /\ newTerm' = [newTerm EXCEPT ![s] = clusterState.leader_term - 1]
    /\ UNCHANGED <<now, tables, readAt, due, isLeader, stopped, budgets>>

\* try_become_leader reads the row a second time, for the term.
ReadTerm(s) ==
    /\ pc[s] = "elect"
    /\ pc' = [pc EXCEPT ![s] = "claim"]
    /\ newTerm' = [newTerm EXCEPT ![s] = clusterState.leader_term + 1]
    /\ UNCHANGED <<now, tables, readAt, due, isLeader, stopped, budgets>>

\* `_ => 1': a failed second read does not stop the claim.
ReadTermFails(s) ==
    /\ pc[s] = "elect"
    /\ DbError
    /\ pc' = [pc EXCEPT ![s] = "claim"]
    /\ newTerm' = [newTerm EXCEPT ![s] = 1]
    /\ UNCHANGED <<now, tables, readAt, due, isLeader, stopped, crashes>>

ClaimRowKeepsHeartbeat(s) ==
    clusterState' = [clusterState EXCEPT !.leader_id = s,
                                         !.leader_term = newTerm[s]]

ClaimRow(s) ==
    clusterState' = [leader_id |-> s, leader_term |-> newTerm[s],
                     last_heartbeat |-> readAt[s]]

\* become_leader updates the row.
BecomeLeader(s) ==
    /\ pc[s] = "claim"
    /\ Claimable(s)
    /\ ClaimRow(s)
    /\ MoveTo(s, "won")
    /\ UNCHANGED <<now, servers, due, isLeader, stopped, budgets>>

\* become_leader matches no row; the flag stays what it was.
BecomeLeaderRefused(s) ==
    /\ pc[s] = "claim"
    /\ ~Claimable(s)
    /\ EndRound(s)
    /\ UNCHANGED <<now, tables, due, isLeader, stopped, budgets>>

\* become_leader returns Err, its update done or not.
BecomeLeaderFails(s) ==
    /\ pc[s] = "claim"
    /\ DbError
    /\ (Claimable(s) /\ ClaimRow(s)) \/ UNCHANGED clusterState
    /\ EndRound(s)
    /\ UNCHANGED <<now, servers, due, isLeader, stopped, crashes>>

RenewRowWithExpiry(s) ==
    clusterState' = [clusterState EXCEPT !.last_heartbeat = readAt[s] + LeaderTimeout]

RenewRow(s) ==
    clusterState' = [clusterState EXCEPT !.last_heartbeat = readAt[s]]

RenewLeadershipOfAnyone(s) ==
    /\ pc[s] = "renew"
    /\ RenewRow(s)
    /\ MoveTo(s, "won")
    /\ UNCHANGED <<now, servers, due, isLeader, stopped, budgets>>

\* renew_leadership updates the row of a leadership that is still s's.
RenewLeadership(s) ==
    /\ pc[s] = "renew"
    /\ clusterState.leader_id = s
    /\ RenewRow(s)
    /\ MoveTo(s, "won")
    /\ UNCHANGED <<now, servers, due, isLeader, stopped, budgets>>

\* renew_leadership matches no row.
RenewLeadershipRefused(s) ==
    /\ pc[s] = "renew"
    /\ clusterState.leader_id # s
    /\ MoveTo(s, "lost")
    /\ UNCHANGED <<now, tables, due, isLeader, stopped, budgets>>

\* renew_leadership returns Err, its update done or not.
RenewLeadershipFails(s) ==
    /\ pc[s] = "renew"
    /\ DbError
    /\ (clusterState.leader_id = s /\ RenewRow(s)) \/ UNCHANGED clusterState
    /\ MoveTo(s, "lost")
    /\ UNCHANGED <<now, servers, due, isLeader, stopped, crashes>>

\* is_leader.store(true)
RaiseFlag(s) ==
    /\ pc[s] = "won"
    /\ isLeader' = [isLeader EXCEPT ![s] = TRUE]
    /\ EndRound(s)
    /\ UNCHANGED <<now, tables, due, stopped, budgets>>

\* is_leader.store(false)
DropFlag(s) ==
    /\ pc[s] = "lost"
    /\ isLeader' = [isLeader EXCEPT ![s] = FALSE]
    /\ EndRound(s)
    /\ UNCHANGED <<now, tables, due, stopped, budgets>>

-----------------------------------------------------------------------------
(* cleanup_loop (what it does to the servers table) and Cluster::shutdown *)

\* mark_servers_unhealthy at any moment of a running process; the cutoff was
\* computed when the call was sent, at most MaxDelay before it is applied.
MarkServersUnhealthy(s) ==
    /\ pc[s] \notin {"down", "boot"}
    /\ \E age \in 0..MaxDelay :
          servers' = [t \in Server |->
              IF servers[t].last_heartbeat < Clock(s) - age - LeaderTimeout
              THEN [servers[t] EXCEPT !.is_healthy = FALSE]
              ELSE servers[t]]
    /\ UNCHANGED <<now, clusterState, pc, readAt, newTerm, due, isLeader,
                   stopped, budgets>>

MarkServer(s) == servers' = [servers EXCEPT ![s].is_healthy = FALSE]

\* Ctrl-C: the row is marked, and the loops go on as before.
Shutdown(s) ==
    /\ pc[s] \notin {"down", "boot"}
    /\ s \in Stoppable /\ ~stopped[s]
    /\ stopped' = [stopped EXCEPT ![s] = TRUE]
    /\ MarkServer(s)
    /\ UNCHANGED <<now, clusterState, pc, readAt, newTerm, due, isLeader,
                   budgets>>

\* The error of mark_server_unhealthy is dropped, the update done or not.
ShutdownFails(s) ==
    /\ pc[s] \notin {"down", "boot"}
    /\ s \in Stoppable /\ ~stopped[s]
    /\ DbError
    /\ stopped' = [stopped EXCEPT ![s] = TRUE]
    /\ MarkServer(s) \/ UNCHANGED servers
    /\ UNCHANGED <<now, clusterState, pc, readAt, newTerm, due, isLeader,
                   crashes>>

-----------------------------------------------------------------------------
(* The environment *)

\* The process dies: its memory is gone, its rows stay.
Crash(s) ==
    /\ Up(s)
    /\ crashes < MaxCrashes
    /\ crashes' = crashes + 1
    /\ pc' = [pc EXCEPT ![s] = "down"]
    /\ readAt' = [readAt EXCEPT ![s] = 0]
    /\ newTerm' = [newTerm EXCEPT ![s] = 0]
    /\ due' = [due EXCEPT ![s] = 0]
    /\ isLeader' = [isLeader EXCEPT ![s] = FALSE]
    /\ stopped' = [stopped EXCEPT ![s] = FALSE]
    /\ UNCHANGED <<now, tables, dbErrors>>

\* Time passes unless a live server has reached its deadline.
AdvanceTime ==
    /\ now < MaxTime
    /\ \A s \in Server : Up(s) => now < Deadline(s)
    /\ now' = now + 1
    /\ UNCHANGED <<tables, pc, readAt, newTerm, due, isLeader, stopped, budgets>>

-----------------------------------------------------------------------------
Start(s) == Boot(s) \/ RegisterServer(s) \/ RegisterServerFails(s)

Heartbeat(s) == Tick(s) \/ SendHeartbeat(s) \/ SendHeartbeatFails(s)

\* The Ok(None) arm has no action: the migration inserts the only row, and nothing
\* deletes it.
Decide(s) ==
    SeeVacancy(s) \/ SeeSelf(s) \/ SeeOther(s) \/ ReadStateFails(s)

TryBecomeLeader(s) ==
    \/ ReadTerm(s)
    \/ ReadTermFails(s)
    \/ BecomeLeader(s)
    \/ BecomeLeaderRefused(s)
    \/ BecomeLeaderFails(s)

Renew(s) ==
    \/ RenewLeadership(s)
    \/ RenewLeadershipRefused(s)
    \/ RenewLeadershipFails(s)

SetFlag(s) == RaiseFlag(s) \/ DropFlag(s)

Stop(s) == Shutdown(s) \/ ShutdownFails(s) \/ Crash(s)

ServerStep(s) ==
    \/ Start(s)
    \/ Heartbeat(s)
    \/ Decide(s)
    \/ TryBecomeLeader(s)
    \/ Renew(s)
    \/ SetFlag(s)
    \/ MarkServersUnhealthy(s)
    \/ Stop(s)

Next == AdvanceTime \/ \E s \in Server : ServerStep(s)

Spec == Init /\ [][Next]_vars

-----------------------------------------------------------------------------
(* Properties *)

ServerRow == [last_heartbeat : Nat, is_healthy : BOOLEAN]

\* Every variable keeps its type.
TypeOK ==
    /\ now \in Nat
    /\ servers \in [Server -> ServerRow]
    /\ clusterState \in [leader_id : Server \cup {NoLeader},
                         leader_term : Nat, last_heartbeat : Nat]
    /\ pc \in [Server -> Waiting \cup Body]
    /\ readAt \in [Server -> Nat]
    /\ newTerm \in [Server -> Nat]
    /\ due \in [Server -> Nat]
    /\ isLeader \in [Server -> BOOLEAN]
    /\ stopped \in [Server -> BOOLEAN]
    /\ crashes \in 0..MaxCrashes
    /\ dbErrors \in 0..MaxDbErrors

\* The due time of the last round of s that may have renewed the lease.
LastRenewal(s) ==
    IF pc[s] \in {"idle", "won"} THEN due[s] - HeartbeatInterval
    ELSE due[s] - HeartbeatInterval - HeartbeatInterval

\* The row names s, s has renewed it in its last complete round, and is not in
\* a branch of the round that claims or gives up.
Holds(s) ==
    /\ clusterState.leader_id = s
    /\ pc[s] \in {"idle", "beat", "read", "renew", "won"}
    /\ clusterState.last_heartbeat >= LastRenewal(s) + Skew[s]

\* While the database answers, two servers never both believe they lead:
\* a flag is only raised by a round that holds the lease, and the holder
\* renews before another server may claim it.
AtMostOneLeader ==
    dbErrors = 0 =>
        \A s, t \in Server : isLeader[s] /\ isLeader[t] => s = t

\* Whatever fails, a leadership begins with the next term, although the term
\* comes from a read made before the conditional update; the one exception is
\* the fallback of try_become_leader, which needs a failed read and starts
\* the terms again at 1.
ElectionsRaiseTerm ==
    [][ \/ /\ clusterState'.leader_id = clusterState.leader_id
           /\ clusterState'.leader_term = clusterState.leader_term
        \/ clusterState'.leader_term = clusterState.leader_term + 1
        \/ clusterState'.leader_term = 1 /\ dbErrors > 0 ]_vars

\* Whatever fails, and however far apart the clocks are, the lease is never
\* moved back: a claim overwrites an older time, and a renewal comes from the
\* holder, whose clock has gone on since it wrote the lease.
LeaseNeverShrinks ==
    [][ clusterState'.last_heartbeat >= clusterState.last_heartbeat ]_vars

\* While the database answers, no cleanup loop marks a running server
\* unhealthy: only its own Ctrl-C handler does.
LiveServerStaysHealthy ==
    dbErrors = 0 =>
        \A s \in Server :
            pc[s] \notin {"down", "boot"} /\ ~stopped[s] =>
                servers[s].is_healthy

\* Whatever failed before, a round that decides leaves the cluster with a
\* leader whose lease has not expired: its own, or the one that beat it.
RoundLeavesLiveLease ==
    [][ \A s \in Server :
          (/\ pc[s] \in {"claim", "won", "lost"}
           /\ pc'[s] = "idle"
           /\ dbErrors' = dbErrors)
          => /\ clusterState.leader_id # NoLeader
             /\ ~LeaderExpired(s) ]_vars

\* The row of cluster_state as an abstract lease.
L == INSTANCE Lease WITH
        Holder <- Server, Nobody <- NoLeader,
        Duration <- ClaimTimeout, Drift <- MaxSkew,
        holder <- clusterState.leader_id, term <- clusterState.leader_term,
        stamp <- clusterState.last_heartbeat, faulty <- dbErrors > 0

\* However the rounds of the servers interleave, their claims and renewals
\* implement the lease: nobody loses the leadership before ClaimTimeout has
\* passed on the fastest clock, although a claim is decided on one read, takes
\* its term from another and its stamp from a clock read before both.
ImplementsLease == L!Spec
=============================================================================
