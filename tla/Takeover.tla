------------------------------- MODULE Takeover -------------------------------
(***************************************************************************)
(* How long the cluster goes without a leader, and how long with two.  The *)
(* election of Cluster is watched by two history variables: the death of   *)
(* the process that held the lease, with the servers whose loops have been *)
(* running since, and the time since a failure that has left a doubt about *)
(* who leads.                                                              *)
(***************************************************************************)
EXTENDS Cluster

CONSTANT TakeoverBound      \* promised time from a death to the next leader

VARIABLES
    vacancy,                \* [since, standby] of the leader's death
    calm                    \* time since a failure, up to HealBound + 1

NoVacancy == [since |-> 0, standby |-> {}]

Running == {s \in Server : pc[s] \notin {"down", "boot"}}

\* The servers that run on, the one whose call returns an error left out.
Undisturbed ==
    {s \in Running' : dbErrors' = dbErrors \/ pc'[s] = pc[s]}

\* Two intervals, and the delay of the round that ends the second.
HealBound == 2 * HeartbeatInterval + MaxDelay

\* Some server believes to lead that does not hold the lease, or has not
\* renewed it in its last round.
Doubt == \E s \in Server : isLeader[s] /\ ~Holds(s)

\* A database call returns an error, or a process dies.
Fault == dbErrors' # dbErrors \/ crashes' # crashes

watched == <<vars, vacancy, calm>>

WatchInit == Init /\ vacancy = NoVacancy /\ calm = HealBound + 1

Watch(since, standby) ==
    IF standby = {} THEN NoVacancy ELSE [since |-> since, standby |-> standby]

\* A death of the holder opens a vacancy, any death or error thins its standby
\* servers, and a claim or a renewal closes it.
WatchLease ==
    vacancy' =
        IF clusterState' # clusterState THEN NoVacancy
        ELSE IF \E s \in Server : clusterState.leader_id = s /\ Up(s) /\ ~Up(s)'
        THEN Watch(now, Running')
        ELSE Watch(vacancy.since, vacancy.standby \cap Undisturbed)

\* A failure only counts as long as there is a doubt.
WatchFaults ==
    calm' = IF ~Doubt' THEN HealBound + 1
            ELSE IF Fault THEN 0
            ELSE IF now' # now /\ calm <= HealBound THEN calm + 1
            ELSE calm

WatchNext == Next /\ WatchLease /\ WatchFaults

WatchSpec == WatchInit /\ [][WatchNext]_watched

\* docs/ARCHITECTURE.md: "Another server automatically becomes leader within
\* 15 seconds" of the leader's death, for the value that TakeoverBound has:
\* while a server that ran at the time of the death runs on and its calls are
\* answered, the vacancy is no older than that, whatever failed before.
TakeoverWithinBound ==
    vacancy.standby # {} => now - vacancy.since <= TakeoverBound

\* A round that meets an error, and a claim that is beaten, end without a look
\* at the flag, so two servers may believe to lead.  When nothing fails any
\* more the rounds undo it: from HealBound after the last failure on, and as
\* long as every flag has had its lease renewed, only the server that holds
\* the lease believes to lead, whatever failed before.
SplitBrainHeals ==
    calm > HealBound =>
        \A s \in Server : isLeader[s] => clusterState.leader_id = s
=============================================================================
