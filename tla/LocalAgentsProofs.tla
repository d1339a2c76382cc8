-------------------------- MODULE LocalAgentsProofs --------------------------
(***************************************************************************)
(* The map of agents keeps its type, whoever uses it.                      *)
(***************************************************************************)
EXTENDS LocalAgents, TLAPS

\* The map is empty at first.
LEMMA AgentsInitTyped == AgentsInit => AgentsTypeOK
BY DEF AgentsInit, AgentsTypeOK, Entries

\* Every entry of the map has a name, at every step of an agent.
LEMMA AgentStepTyped ==
    ASSUME AgentsTypeOK, NEW a \in Agent, AgentStep(a)
    PROVE  AgentsTypeOK'
<1> USE LocalAgentsAssumption DEF AgentsTypeOK, Entries
<1>1. CASE InsertEntry(a)
  <2>1. PICK d \in Subdomain : name' = [name EXCEPT ![a] = d]
    BY <1>1 DEF InsertEntry
  <2>2. QED BY <1>1, <2>1 DEF InsertEntry
<1>2. CASE RegisterReturns(a)
  BY <1>2 DEF RegisterReturns
<1>3. CASE Unregister(a)
  BY <1>3 DEF Unregister
<1>4. QED BY <1>1, <1>2, <1>3 DEF AgentStep

\* A step that is no step of an agent leaves the map as it is.
LEMMA AgentsUnchanged ==
    ASSUME AgentsTypeOK, UNCHANGED agentVars
    PROVE  AgentsTypeOK'
BY DEF AgentsTypeOK, Entries, agentVars
=============================================================================
