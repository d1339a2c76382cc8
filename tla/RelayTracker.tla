----------------------------- MODULE RelayTracker -----------------------------
(***************************************************************************)
(* The connection tracker and the relay server of src/relay/mod.rs, shared *)
(* by any number of concurrent callers.                                    *)
(*                                                                         *)
(* A call holds a lock or touches an atomic for one step only: an attempt  *)
(* is counted before its record is inserted, a relay is removed before its *)
(* use is recorded, and the statistics are loaded one by one.  A caller    *)
(* may be dropped between two steps, and may use a session id again.       *)
(* Addresses, latencies, byte counts and completion times are stored and   *)
(* never read: they are left out.                                          *)
(***************************************************************************)
EXTENDS Integers, FiniteSets

CONSTANTS
    Task,       \* the concurrent callers
    Session,    \* session ids
    Idle,       \* a task between two calls
    None,       \* no record, no relay
    Unread,     \* a statistic not loaded yet
    MaxCount    \* bound: the largest value of a counter

VARIABLES
    records,        \* ConnectionTracker::stats
    relays,         \* RelayServer::connections
    counters,       \* total_attempts, direct_successes and relay_used
    task,           \* the second half of a call that each task has to do
    seen,           \* what get_stats or direct_success_rate has loaded
    repeated        \* history: a record was marked successful twice

(* An operator whose name extends another's by what it does differently    *)
(* (LoadOffByOne) is no part of the model: it is a plausible mistake in    *)
(* that code, which a property is expected to notice.                      *)

maps == <<records, relays>>
vars == <<maps, counters, task, seen, repeated>>

Counter == {"total", "direct", "relay"}
Record == [direct_success : BOOLEAN, relay_used : BOOLEAN, old : BOOLEAN]
Relay == [old : BOOLEAN]
Rest == [op : {"insert", "mark"}, session : Session]

ASSUME RelayAssumption ==
    /\ IsFiniteSet(Task) /\ IsFiniteSet(Session)
    /\ MaxCount \in Nat
    /\ Unread \notin Nat
    /\ Idle \notin Rest

TypeOK ==
    /\ records \in [Session -> Record \cup {None}]
    /\ relays \in [Session -> Relay \cup {None}]
    /\ counters \in [Counter -> 0..MaxCount]
    /\ task \in [Task -> Rest \cup {Idle}]
    /\ seen \in [Counter -> (0..MaxCount) \cup {Unread}]
    /\ repeated \in BOOLEAN

Init ==
    /\ records = [s \in Session |-> None]
    /\ relays = [s \in Session |-> None]
    /\ counters = [c \in Counter |-> 0]
    /\ task = [t \in Task |-> Idle]
    /\ seen = [c \in Counter |-> Unread]
    /\ repeated = FALSE

\* fetch_add(1) on a counter.
Add(c) ==
    /\ counters[c] < MaxCount
    /\ counters' = [counters EXCEPT ![c] = @ + 1]

Start(t, op, s) ==
    /\ task[t] = Idle
    /\ task' = [task EXCEPT ![t] = [op |-> op, session |-> s]]

\* t goes on with the second half of a call.
Finish(t, op, s) ==
    /\ task[t] = [op |-> op, session |-> s]
    /\ task' = [task EXCEPT ![t] = Idle]

-----------------------------------------------------------------------------
(* ConnectionTracker *)

\* track_attempt counts before it waits for the lock.
TrackAttempt(t, s) ==
    /\ Start(t, "insert", s)
    /\ Add("total")
    /\ UNCHANGED <<maps, seen, repeated>>

\* The record replaces one of the same id.
InsertRecord(t, s) ==
    /\ Finish(t, "insert", s)
    /\ records' = [records EXCEPT ![s] = [direct_success |-> FALSE,
                                          relay_used |-> FALSE, old |-> FALSE]]
    /\ UNCHANGED <<relays, counters, seen, repeated>>

MarkSuccessUntracked(s, direct) ==
    /\ Add(IF direct THEN "direct" ELSE "relay")
    /\ records' = IF records[s] = None THEN records
                  ELSE [records EXCEPT ![s].direct_success = TRUE]
    /\ repeated' = (repeated \/ (records[s] # None /\ records[s].direct_success))
    /\ UNCHANGED <<relays, task, seen>>

\* mark_success: the flag is raised for a relayed success too.
MarkSuccess(s, direct) ==
    /\ records[s] # None
    /\ Add(IF direct THEN "direct" ELSE "relay")
    /\ records' = [records EXCEPT ![s].direct_success = TRUE]
    /\ repeated' = (repeated \/ records[s].direct_success)
    /\ UNCHANGED <<relays, task, seen>>

UseRelayUncounted(s) ==
    /\ records' = [records EXCEPT ![s].relay_used = TRUE]
    /\ IF records[s].direct_success THEN UNCHANGED counters ELSE Add("relay")

\* What mark_failed does to the record of a relayed session.
UseRelay(s) ==
    /\ records' = [records EXCEPT ![s].relay_used = TRUE]
    /\ Add("relay")

\* mark_failed with relay_used; without it only a time is written.
MarkFailed(s) ==
    /\ records[s] # None
    /\ UseRelay(s)
    /\ UNCHANGED <<relays, task, seen, repeated>>

\* The record has become older than max_age_ms.
RecordExpires(s) ==
    /\ records[s] # None
    /\ records' = [records EXCEPT ![s].old = TRUE]
    /\ UNCHANGED <<relays, counters, task, seen, repeated>>

\* ConnectionTracker::cleanup_old
CleanupRecords ==
    /\ records' = [s \in Session |->
                      IF records[s] # None /\ records[s].old THEN None
                      ELSE records[s]]
    /\ UNCHANGED <<relays, counters, task, seen, repeated>>

LoadOffByOne(c) ==
    /\ seen[c] = Unread
    /\ seen' = [seen EXCEPT ![c] = counters[c] - 1]
    /\ UNCHANGED <<maps, counters, task, repeated>>

LoadRelayForDirect(c) ==
    /\ seen[c] = Unread
    /\ seen' = [seen EXCEPT ![c] = counters[IF c = "direct" THEN "relay" ELSE c]]
    /\ UNCHANGED <<maps, counters, task, repeated>>

\* A relaxed load; those of one call may be carried out in any order.
Load(c) ==
    /\ seen[c] = Unread
    /\ seen' = [seen EXCEPT ![c] = counters[c]]
    /\ UNCHANGED <<maps, counters, task, repeated>>

\* get_stats (all three loaded) or direct_success_rate (two) returns.
ReturnStats ==
    /\ seen["total"] # Unread /\ seen["direct"] # Unread
    /\ seen' = [c \in Counter |-> Unread]
    /\ UNCHANGED <<maps, counters, task, repeated>>

-----------------------------------------------------------------------------
(* RelayServer *)

\* create_relay, which replaces a relay of the same id.
CreateRelay(s) ==
    /\ relays' = [relays EXCEPT ![s] = [old |-> FALSE]]
    /\ UNCHANGED <<records, counters, task, seen, repeated>>

\* close_relay removes the relay; nothing more is done without one.
CloseRelay(t, s) ==
    /\ relays[s] # None
    /\ relays' = [relays EXCEPT ![s] = None]
    /\ Start(t, "mark", s)
    /\ UNCHANGED <<records, counters, seen, repeated>>

\* The mark_failed of close_relay, on the record there is by then.
MarkClosed(t, s) ==
    /\ Finish(t, "mark", s)
    /\ IF records[s] # None THEN UseRelay(s) ELSE UNCHANGED <<records, counters>>
    /\ UNCHANGED <<relays, seen, repeated>>

RelayExpires(s) ==
    /\ relays[s] # None
    /\ relays' = [relays EXCEPT ![s].old = TRUE]
    /\ UNCHANGED <<records, counters, task, seen, repeated>>

\* RelayServer::cleanup_old removes relays without recording their use.
CleanupRelays ==
    /\ relays' = [s \in Session |->
                     IF relays[s] # None /\ relays[s].old THEN None
                     ELSE relays[s]]
    /\ UNCHANGED <<records, counters, task, seen, repeated>>

\* The future of a call is dropped at the await between its two halves.
Drop(t) ==
    /\ task[t] # Idle
    /\ task' = [task EXCEPT ![t] = Idle]
    /\ UNCHANGED <<maps, counters, seen, repeated>>

-----------------------------------------------------------------------------
TwoStepCall(t, s) ==
    \/ TrackAttempt(t, s)
    \/ InsertRecord(t, s)
    \/ CloseRelay(t, s)
    \/ MarkClosed(t, s)

OneStepCall(s) ==
    \/ \E direct \in BOOLEAN : MarkSuccess(s, direct)
    \/ MarkFailed(s)
    \/ CreateRelay(s)

Aging(s) == RecordExpires(s) \/ RelayExpires(s)

Read == ReturnStats \/ \E c \in Counter : Load(c)

Next ==
    \/ \E t \in Task, s \in Session : TwoStepCall(t, s)
    \/ \E t \in Task : Drop(t)
    \/ \E s \in Session : OneStepCall(s) \/ Aging(s)
    \/ CleanupRecords
    \/ CleanupRelays
    \/ Read

Spec == Init /\ [][Next]_vars

-----------------------------------------------------------------------------
(* Properties *)

Present == {s \in Session : records[s] # None}

\* If no caller reports the success of one record twice, there are never more
\* direct successes than attempts, although ids are used again, records are
\* replaced and cleaned up, and an attempt may be counted and never recorded.
SuccessesFitAttempts ==
    ~repeated => counters["direct"] <= counters["total"]

\* The records never show more than the counters: a record whose relay was
\* used has been counted, although its relay was closed in a step of its own,
\* and so has a success, which counts as a relay when it was not direct.
FlagsAreCounted ==
    /\ Cardinality({s \in Present : records[s].relay_used}) <= counters["relay"]
    /\ Cardinality({s \in Present : records[s].direct_success})
          <= counters["direct"] + counters["relay"]

\* A success rate above 1 needs an attempt that began between the loads of
\* the reader, or a success that was reported twice.
RateIsARatio ==
    /\ seen["total"] # Unread /\ seen["direct"] # Unread
    /\ seen["total"] = counters["total"]
    /\ ~repeated
    => seen["direct"] <= seen["total"]
=============================================================================
