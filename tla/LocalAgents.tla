----------------------------- MODULE LocalAgents -----------------------------
(***************************************************************************)
(* The map of connected agents in one server process, as the two users of  *)
(* it see it: HttpProxy and TcpFacilitator look an agent up by name and    *)
(* then put a message into its channel.  (AgentRegistry has the rest of    *)
(* the map: who may register, and what the database says.)                 *)
(*                                                                         *)
(* AgentRegistry::register makes the channel and keeps its receiving end   *)
(* in a local variable, so that the channel is open from the moment the    *)
(* entry is in the map until register returns, and closed ever after.      *)
(***************************************************************************)
EXTENDS Integers, FiniteSets

CONSTANTS
    Agent,          \* the agent ids: uuids, each used once
    Tcp,            \* those that register with Protocol::Tcp
    Subdomain,
    None

ASSUME LocalAgentsAssumption ==
    /\ Tcp \subseteq Agent
    /\ None \notin Agent \cup Subdomain

VARIABLES
    channel,        \* "none" before the entry, "gone" after it
    name            \* the subdomain in the entry

agentVars == <<channel, name>>

Entries == {a \in Agent : channel[a] \in {"open", "closed"}}

\* What get_by_subdomain may return: the map is searched in any order, and may
\* hold several entries of one name.
Found(d) == {a \in Entries : name[a] = d}

CanReceive(a) == channel[a] = "open"

AgentsInit ==
    /\ channel = [a \in Agent |-> "none"]
    /\ name = [a \in Agent |-> None]

\* register puts the entry into the map.
InsertEntry(a) ==
    /\ channel[a] = "none"
    /\ channel' = [channel EXCEPT ![a] = "open"]
    /\ \E d \in Subdomain : name' = [name EXCEPT ![a] = d]

\* register returns and drops the receiving end.
RegisterReturns(a) ==
    /\ channel[a] = "open"
    /\ channel' = [channel EXCEPT ![a] = "closed"]
    /\ UNCHANGED name

\* cleanup_stale unregisters an entry that is older than its timeout.
Unregister(a) ==
    /\ channel[a] = "closed"
    /\ channel' = [channel EXCEPT ![a] = "gone"]
    /\ UNCHANGED name

AgentStep(a) == InsertEntry(a) \/ RegisterReturns(a) \/ Unregister(a)

\* The entries and their names.
AgentsTypeOK ==
    /\ channel \in [Agent -> {"none", "open", "closed", "gone"}]
    /\ name \in [Agent -> Subdomain \cup {None}]
    /\ \A a \in Entries : name[a] # None
=============================================================================
