--------------------------- MODULE MCAgentRegistry ---------------------------
(***************************************************************************)
(* Instances of AgentRegistry for TLC, and what the code says of the       *)
(* registry where it does otherwise.                                       *)
(***************************************************************************)
EXTENDS AgentRegistry, TLC

Symmetry ==
    Permutations(AgentId) \cup Permutations(Server) \cup Permutations(Conn)

-----------------------------------------------------------------------------
\* error.rs: "Subdomain already taken": two running, healthy servers never
\* serve the same subdomain.
NameHasOneServer ==
    \A s, t \in Server : \A e \in entries[s], f \in entries[t] :
        /\ servers[s].is_healthy /\ servers[t].is_healthy
        /\ ~e.old /\ ~f.old
        /\ e.subdomain = f.subdomain
        => s = t
=============================================================================
