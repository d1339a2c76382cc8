------------------------------ MODULE ServerRows ------------------------------
(***************************************************************************)
(* What the servers table promises to whoever asks it for a healthy        *)
(* server.  The timed model of the loops that write it (Cluster) and the   *)
(* untimed one of the registry that relies on it (AgentRegistry) both      *)
(* implement it: it is where the two agree.                                *)
(*                                                                         *)
(*  - A row becomes healthy when a process registers, and not before: no   *)
(*    heartbeat heals it.                                                  *)
(*  - It becomes unhealthy when its process quits, is dead or lags behind. *)
(*  - No process lags behind before a call has failed (`faulty').          *)
(***************************************************************************)
CONSTANT Server

VARIABLES       \* all but the last are sets of servers
    alive,      \* the processes that have registered and run
    quit,       \* those that have had a Ctrl-C
    healthy,    \* is_healthy of each row
    late,       \* running processes whose row is past the timeout
    faulty      \* some call has failed

vars == <<alive, quit, healthy, late, faulty>>

Init ==
    /\ alive \in SUBSET Server
    /\ healthy \in SUBSET Server
    /\ alive \subseteq healthy
    /\ quit = {}
    /\ late = {}
    /\ faulty = FALSE

\* A step whose call may have returned an error, its effect done.
MayFail == faulty' \in {faulty, TRUE}

\* Processes that lag catch up, or a call fails to no effect.
CatchUp ==
    /\ UNCHANGED <<alive, quit, healthy>>
    /\ late' \subseteq late
    /\ MayFail

\* The call of a process that then does not start may have had its effect.
Register(s) ==
    /\ s \notin alive
    /\ healthy' = healthy \cup {s}
    /\ \/ alive' = alive \cup {s} /\ UNCHANGED faulty
       \/ faulty' = TRUE /\ UNCHANGED alive
    /\ UNCHANGED <<quit, late>>

Die(s) ==
    /\ s \in alive
    /\ alive' = alive \ {s}
    /\ quit' = quit \ {s}
    /\ late' = late \ {s}
    /\ MayFail
    /\ UNCHANGED healthy

\* The mark is set before the process stops, if it stops.
Quit(s) ==
    /\ s \in alive \ quit
    /\ quit' = quit \cup {s}
    /\ \/ healthy' = healthy \ {s} /\ MayFail
       \/ faulty' = TRUE /\ UNCHANGED healthy
    /\ UNCHANGED <<alive, late>>

\* Rows are found to be too old.
Mark ==
    /\ healthy' \subseteq healthy
    /\ (healthy \ healthy') \cap alive \subseteq late
    /\ MayFail
    /\ UNCHANGED <<alive, quit, late>>

\* Failed heartbeats let running processes fall behind.
Lag ==
    /\ late \subseteq late'
    /\ late' \subseteq alive
    /\ faulty' = TRUE
    /\ UNCHANGED <<alive, quit, healthy>>

Next ==
    \/ CatchUp
    \/ Mark
    \/ Lag
    \/ \E s \in Server : Register(s) \/ Die(s) \/ Quit(s)

Spec == Init /\ [][Next]_vars
=============================================================================
