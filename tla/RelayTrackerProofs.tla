-------------------------- MODULE RelayTrackerProofs --------------------------
(***************************************************************************)
(* What holds of the connection statistics for every number of callers and *)
(* sessions.  Each record is worth one attempt and may be spent once.      *)
(***************************************************************************)
EXTENDS RelayTracker, FiniteSetTheorems, TLAPS

USE RelayAssumption

-----------------------------------------------------------------------------
(* Type correctness *)

LEMMA RecordUpdates ==
    /\ [direct_success |-> FALSE, relay_used |-> FALSE, old |-> FALSE] \in Record
    /\ \A r \in Record : /\ [r EXCEPT !.direct_success = TRUE] \in Record
                         /\ [r EXCEPT !.relay_used = TRUE] \in Record
                         /\ [r EXCEPT !.old = TRUE] \in Record
<1>1. \A r \in Record : /\ [r EXCEPT !.direct_success = TRUE] \in Record
                        /\ [r EXCEPT !.relay_used = TRUE] \in Record
                        /\ [r EXCEPT !.old = TRUE] \in Record
  BY DEF Record
<1>2. QED BY <1>1 DEF Record

LEMMA RelayUpdates ==
    /\ [old |-> FALSE] \in Relay
    /\ \A r \in Relay : [r EXCEPT !.old = TRUE] \in Relay
BY DEF Relay

\* fetch_add(1) within the bound.
LEMMA AddTyped ==
    ASSUME TypeOK, NEW c \in Counter, Add(c)
    PROVE  /\ counters' \in [Counter -> 0..MaxCount]
           /\ counters'[c] = counters[c] + 1
           /\ \A d \in Counter \ {c} : counters'[d] = counters[d]
BY DEF TypeOK, Add

\* What the use of a relay writes.
LEMMA UseRelayTyped ==
    ASSUME TypeOK, NEW s \in Session, records[s] # None, UseRelay(s)
    PROVE  /\ records' \in [Session -> Record \cup {None}]
           /\ counters' \in [Counter -> 0..MaxCount]
<1>1. records' \in [Session -> Record \cup {None}]
  BY RecordUpdates DEF UseRelay, TypeOK
<1>2. QED BY <1>1, AddTyped DEF UseRelay, Counter

LEMMA TypeOKInit == Init => TypeOK
<1> SUFFICES ASSUME Init PROVE TypeOK
  OBVIOUS
<1>1. counters \in [Counter -> 0..MaxCount]
  BY DEF Init
<1>2. QED BY <1>1 DEF Init, TypeOK

LEMMA TypeOKNext == TypeOK /\ [Next]_vars => TypeOK'
<1> SUFFICES ASSUME TypeOK, [Next]_vars PROVE TypeOK'
  OBVIOUS
<1> USE DEF maps
<1>1. ASSUME NEW t \in Task, NEW s \in Session, TwoStepCall(t, s) PROVE TypeOK'
  <2>1. CASE TrackAttempt(t, s)
    <3>1. task' \in [Task -> Rest \cup {Idle}]
      BY <2>1 DEF TrackAttempt, Start, TypeOK, Rest
    <3>2. QED BY <2>1, <3>1, AddTyped DEF TrackAttempt, TypeOK, Counter
  <2>2. CASE InsertRecord(t, s)
    BY <2>2, RecordUpdates DEF InsertRecord, Finish, TypeOK
  <2>3. CASE CloseRelay(t, s)
    <3>1. task' \in [Task -> Rest \cup {Idle}]
      BY <2>3 DEF CloseRelay, Start, TypeOK, Rest
    <3>2. QED BY <2>3, <3>1 DEF CloseRelay, TypeOK
  <2>4. CASE MarkClosed(t, s)
    <3>1. task' \in [Task -> Rest \cup {Idle}]
      BY <2>4 DEF MarkClosed, Finish, TypeOK
    <3>2. /\ records' \in [Session -> Record \cup {None}]
          /\ counters' \in [Counter -> 0..MaxCount]
      BY <2>4, UseRelayTyped DEF MarkClosed, TypeOK
    <3>3. QED BY <2>4, <3>1, <3>2 DEF MarkClosed, TypeOK
  <2>5. QED BY <1>1, <2>1, <2>2, <2>3, <2>4 DEF TwoStepCall
<1>2. ASSUME NEW t \in Task, Drop(t) PROVE TypeOK'
  BY <1>2 DEF Drop, TypeOK
<1>3. ASSUME NEW s \in Session, OneStepCall(s) \/ Aging(s) PROVE TypeOK'
  <2>1. ASSUME NEW direct \in BOOLEAN, MarkSuccess(s, direct) PROVE TypeOK'
    <3>1. records' \in [Session -> Record \cup {None}]
      BY <2>1, RecordUpdates DEF MarkSuccess, TypeOK
    <3>2. records[s].direct_success \in BOOLEAN
      BY <2>1 DEF MarkSuccess, TypeOK, Record
    <3>3. counters' \in [Counter -> 0..MaxCount]
      BY <2>1, AddTyped DEF MarkSuccess, Counter
    <3>4. repeated' \in BOOLEAN
      BY <2>1, <3>2 DEF MarkSuccess, TypeOK
    <3>5. QED BY <2>1, <3>1, <3>3, <3>4 DEF MarkSuccess, TypeOK
  <2>2. CASE MarkFailed(s)
    BY <2>2, UseRelayTyped DEF MarkFailed, TypeOK
  <2>3. CASE CreateRelay(s)
    BY <2>3, RelayUpdates DEF CreateRelay, TypeOK
  <2>4. CASE RecordExpires(s)
    BY <2>4, RecordUpdates DEF RecordExpires, TypeOK
  <2>5. CASE RelayExpires(s)
    BY <2>5, RelayUpdates DEF RelayExpires, TypeOK
  <2>6. QED BY <1>3, <2>1, <2>2, <2>3, <2>4, <2>5 DEF OneStepCall, Aging
<1>4. CASE CleanupRecords
  BY <1>4 DEF CleanupRecords, TypeOK
<1>5. CASE CleanupRelays
  BY <1>5 DEF CleanupRelays, TypeOK
<1>6. CASE Read
  BY <1>6 DEF Read, Load, ReturnStats, TypeOK
<1>7. CASE UNCHANGED vars
  BY <1>7 DEF vars, TypeOK
<1>8. QED BY <1>1, <1>2, <1>3, <1>4, <1>5, <1>6, <1>7 DEF Next

\* Every reachable state of the tracker and the relay server keeps its types,
\* for any callers and sessions.
THEOREM Typing == Spec => []TypeOK
BY TypeOKInit, TypeOKNext, PTL DEF Spec

-----------------------------------------------------------------------------
(* Counting *)

Inserting == {t \in Task : task[t] # Idle /\ task[t].op = "insert"}
Fresh == {s \in Present : ~records[s].direct_success}
Succeeded == {s \in Present : records[s].direct_success}
Relayed == {s \in Present : records[s].relay_used}

\* Attempts whose record is under way or not yet successful are attempts that
\* no direct success has been counted for.
SpentInv ==
    ~repeated => counters["direct"] + Cardinality(Fresh) + Cardinality(Inserting)
                    <= counters["total"]

FlagInv ==
    /\ Cardinality(Relayed) <= counters["relay"]
    /\ Cardinality(Succeeded) <= counters["direct"] + counters["relay"]

\* What a reader has loaded is no more than the counter is by now.
SeenInv == \A c \in Counter : seen[c] # Unread => seen[c] <= counters[c]

CountInv == TypeOK /\ SpentInv /\ FlagInv /\ SeenInv

\* Sizes of sets that differ by an element.
LEMMA SetSizes ==
    ASSUME NEW S, IsFiniteSet(S), NEW T
    PROVE  /\ Cardinality(S) \in Nat
           /\ T \subseteq S => Cardinality(T) \in Nat /\ Cardinality(T) <= Cardinality(S)
           /\ \A x : T \subseteq S \cup {x} =>
                 Cardinality(T) \in Nat /\ Cardinality(T) <= Cardinality(S) + 1
           /\ \A x \in S : T \subseteq S \ {x} =>
                 Cardinality(T) \in Nat /\ Cardinality(T) + 1 <= Cardinality(S)
<1>1. Cardinality(S) \in Nat
  BY FS_CardinalityType
<1>2. ASSUME NEW U, IsFiniteSet(U), T \subseteq U
      PROVE  Cardinality(T) \in Nat /\ Cardinality(U) \in Nat
             /\ Cardinality(T) <= Cardinality(U)
  BY <1>2, FS_Subset, FS_CardinalityType
<1>3. ASSUME NEW x, T \subseteq S \cup {x}
      PROVE  Cardinality(T) \in Nat /\ Cardinality(T) <= Cardinality(S) + 1
  <2>1. IsFiniteSet(S \cup {x}) /\ Cardinality(S \cup {x}) <= Cardinality(S) + 1
    <3>1. /\ IsFiniteSet(S \cup {x})
          /\ \/ Cardinality(S \cup {x}) = Cardinality(S)
             \/ Cardinality(S \cup {x}) = Cardinality(S) + 1
      BY FS_AddElement
    <3>2. QED BY <1>1, <3>1
  <2>2. /\ Cardinality(T) \in Nat /\ Cardinality(S \cup {x}) \in Nat
        /\ Cardinality(T) <= Cardinality(S \cup {x})
    BY <1>2, <1>3, <2>1
  <2>3. QED BY <1>1, <2>1, <2>2
<1>4. ASSUME NEW x \in S, T \subseteq S \ {x}
      PROVE  Cardinality(T) \in Nat /\ Cardinality(T) + 1 <= Cardinality(S)
  <2>1. IsFiniteSet(S \ {x}) /\ Cardinality(S \ {x}) = Cardinality(S) - 1
    BY <1>1, FS_RemoveElement
  <2>2. /\ Cardinality(T) \in Nat /\ Cardinality(S \ {x}) \in Nat
        /\ Cardinality(T) <= Cardinality(S \ {x})
    BY <1>2, <1>4, <2>1
  <2>3. QED BY <1>1, <2>1, <2>2
<1>5. QED BY <1>1, <1>2, <1>3, <1>4

\* The counted sets are finite.
LEMMA CountedSetsAreFinite ==
    /\ IsFiniteSet(Inserting) /\ IsFiniteSet(Fresh)
    /\ IsFiniteSet(Succeeded) /\ IsFiniteSet(Relayed)
<1>1. /\ Inserting \subseteq Task
      /\ Fresh \subseteq Session /\ Succeeded \subseteq Session
      /\ Relayed \subseteq Session
  BY DEF Inserting, Fresh, Succeeded, Relayed, Present
<1>2. QED BY <1>1, FS_Subset

LEMMA CountersTyped ==
    TypeOK => /\ counters["total"] \in Nat /\ counters["direct"] \in Nat
              /\ counters["relay"] \in Nat
BY DEF TypeOK, Counter

LEMMA CountInvInit == Init => CountInv
<1> SUFFICES ASSUME Init PROVE CountInv
  OBVIOUS
<1>1. /\ Inserting = {} /\ Fresh = {} /\ Succeeded = {} /\ Relayed = {}
  BY DEF Init, Inserting, Fresh, Succeeded, Relayed, Present
<1>2. \A c \in Counter : counters[c] = 0 /\ seen[c] = Unread
  BY DEF Init
<1>3. SpentInv /\ FlagInv
  BY <1>1, <1>2, FS_EmptySet DEF SpentInv, FlagInv, Counter
<1>4. QED BY <1>2, <1>3, TypeOKInit DEF CountInv, SeenInv

\* A loaded statistic stays below a counter that only rises.
LEMMA SeenKept ==
    ASSUME TypeOK, SeenInv, UNCHANGED seen,
           \/ UNCHANGED counters
           \/ \E c \in Counter : Add(c)
    PROVE  SeenInv'
BY DEF TypeOK, SeenInv, Add

\* Steps that count nothing and add to none of the sets.
LEMMA Uncounted ==
    ASSUME CountInv, UNCHANGED <<counters, repeated>>,
           Inserting' \subseteq Inserting,
           Fresh' \subseteq Fresh,
           Succeeded' \subseteq Succeeded,
           Relayed' \subseteq Relayed
    PROVE  SpentInv' /\ FlagInv'
<1>1. /\ Cardinality(Inserting') \in Nat /\ Cardinality(Inserting) \in Nat
      /\ Cardinality(Inserting') <= Cardinality(Inserting)
      /\ Cardinality(Fresh') \in Nat /\ Cardinality(Fresh) \in Nat
      /\ Cardinality(Fresh') <= Cardinality(Fresh)
      /\ Cardinality(Succeeded') \in Nat /\ Cardinality(Succeeded) \in Nat
      /\ Cardinality(Succeeded') <= Cardinality(Succeeded)
      /\ Cardinality(Relayed') \in Nat /\ Cardinality(Relayed) \in Nat
      /\ Cardinality(Relayed') <= Cardinality(Relayed)
  BY CountedSetsAreFinite, SetSizes
<1>2. QED BY <1>1, CountersTyped DEF CountInv, SpentInv, FlagInv

\* The use of a relay is counted where it is recorded.
LEMMA RelayCounted ==
    ASSUME CountInv, NEW s \in Session, records[s] # None, UseRelay(s),
           UNCHANGED repeated, Inserting' \subseteq Inserting
    PROVE  SpentInv' /\ FlagInv'
<1>1. /\ counters'["relay"] = counters["relay"] + 1
      /\ counters'["total"] = counters["total"]
      /\ counters'["direct"] = counters["direct"]
  BY AddTyped DEF UseRelay, CountInv, Counter
<1>2. /\ Fresh' \subseteq Fresh
      /\ Succeeded' \subseteq Succeeded
      /\ Relayed' \subseteq Relayed \cup {s}
  BY DEF UseRelay, CountInv, TypeOK, Fresh, Succeeded, Relayed, Present, Record
<1>3. /\ Cardinality(Inserting') \in Nat /\ Cardinality(Inserting) \in Nat
      /\ Cardinality(Inserting') <= Cardinality(Inserting)
      /\ Cardinality(Fresh') \in Nat /\ Cardinality(Fresh) \in Nat
      /\ Cardinality(Fresh') <= Cardinality(Fresh)
      /\ Cardinality(Succeeded') \in Nat /\ Cardinality(Succeeded) \in Nat
      /\ Cardinality(Succeeded') <= Cardinality(Succeeded)
      /\ Cardinality(Relayed') \in Nat /\ Cardinality(Relayed) \in Nat
      /\ Cardinality(Relayed') <= Cardinality(Relayed) + 1
  BY <1>2, CountedSetsAreFinite, SetSizes
<1>4. QED BY <1>1, <1>3, CountersTyped DEF CountInv, SpentInv, FlagInv

\* An attempt is counted before it is under way.
LEMMA AttemptCounted ==
    ASSUME CountInv, NEW t \in Task, NEW s \in Session, TrackAttempt(t, s)
    PROVE  SpentInv' /\ FlagInv'
<1>1. /\ counters'["total"] = counters["total"] + 1
      /\ counters'["relay"] = counters["relay"]
      /\ counters'["direct"] = counters["direct"]
  BY AddTyped DEF TrackAttempt, CountInv, Counter
<1>2. /\ Inserting' \subseteq Inserting \cup {t}
      /\ Fresh' = Fresh /\ Succeeded' = Succeeded /\ Relayed' = Relayed
  BY DEF TrackAttempt, Start, maps, CountInv, TypeOK, Rest, Inserting, Fresh,
         Succeeded, Relayed, Present
<1>3. /\ Cardinality(Inserting') \in Nat /\ Cardinality(Inserting) \in Nat
      /\ Cardinality(Inserting') <= Cardinality(Inserting) + 1
      /\ Cardinality(Fresh) \in Nat /\ Cardinality(Succeeded) \in Nat
      /\ Cardinality(Relayed) \in Nat
  BY <1>2, CountedSetsAreFinite, SetSizes
<1>4. QED BY <1>1, <1>2, <1>3, CountersTyped
             DEF TrackAttempt, CountInv, SpentInv, FlagInv

\* The record of an attempt takes the place of the attempt under way.
LEMMA RecordInserted ==
    ASSUME CountInv, NEW t \in Task, NEW s \in Session, InsertRecord(t, s)
    PROVE  SpentInv' /\ FlagInv'
<1>1. t \in Inserting /\ Inserting' \subseteq Inserting \ {t}
  BY DEF InsertRecord, Finish, CountInv, TypeOK, Rest, Inserting
<1>2. /\ Fresh' \subseteq Fresh \cup {s}
      /\ Succeeded' \subseteq Succeeded
      /\ Relayed' \subseteq Relayed
  BY DEF InsertRecord, CountInv, TypeOK, Fresh, Succeeded, Relayed, Present
<1>3. /\ Cardinality(Inserting') \in Nat /\ Cardinality(Inserting) \in Nat
      /\ Cardinality(Inserting') + 1 <= Cardinality(Inserting)
      /\ Cardinality(Fresh') \in Nat /\ Cardinality(Fresh) \in Nat
      /\ Cardinality(Fresh') <= Cardinality(Fresh) + 1
      /\ Cardinality(Succeeded') \in Nat /\ Cardinality(Succeeded) \in Nat
      /\ Cardinality(Succeeded') <= Cardinality(Succeeded)
      /\ Cardinality(Relayed') \in Nat /\ Cardinality(Relayed) \in Nat
      /\ Cardinality(Relayed') <= Cardinality(Relayed)
  BY <1>1, <1>2, CountedSetsAreFinite, SetSizes
<1>4. QED BY <1>3, CountersTyped DEF InsertRecord, CountInv, SpentInv, FlagInv

\* A first success spends its record.
LEMMA SuccessCounted ==
    ASSUME CountInv, NEW s \in Session, NEW direct \in BOOLEAN,
           MarkSuccess(s, direct)
    PROVE  SpentInv' /\ FlagInv'
<1> DEFINE c == IF direct THEN "direct" ELSE "relay"
<1>1. /\ counters'["total"] = counters["total"]
      /\ \/ /\ counters'["direct"] = counters["direct"] + 1
            /\ counters'["relay"] = counters["relay"]
         \/ /\ counters'["direct"] = counters["direct"]
            /\ counters'["relay"] = counters["relay"] + 1
  BY AddTyped DEF MarkSuccess, CountInv, Counter
<1>2. /\ Inserting' = Inserting
      /\ Fresh' \subseteq Fresh \ {s}
      /\ Succeeded' \subseteq Succeeded \cup {s}
      /\ Relayed' \subseteq Relayed
  BY DEF MarkSuccess, CountInv, TypeOK, Inserting, Fresh, Succeeded, Relayed,
         Present, Record
<1>3. ~repeated' => ~repeated /\ s \in Fresh
  BY DEF MarkSuccess, Fresh, Present
<1>4. /\ Cardinality(Inserting) \in Nat
      /\ Cardinality(Fresh') \in Nat /\ Cardinality(Fresh) \in Nat
      /\ s \in Fresh => Cardinality(Fresh') + 1 <= Cardinality(Fresh)
      /\ Cardinality(Succeeded') \in Nat /\ Cardinality(Succeeded) \in Nat
      /\ Cardinality(Succeeded') <= Cardinality(Succeeded) + 1
      /\ Cardinality(Relayed') \in Nat /\ Cardinality(Relayed) \in Nat
      /\ Cardinality(Relayed') <= Cardinality(Relayed)
  BY <1>2, CountedSetsAreFinite, SetSizes
<1>5. QED BY <1>1, <1>2, <1>3, <1>4, CountersTyped DEF CountInv, SpentInv, FlagInv

LEMMA CountInvNext == CountInv /\ [Next]_vars => CountInv'
<1> SUFFICES ASSUME CountInv, [Next]_vars PROVE CountInv'
  OBVIOUS
<1>t. TypeOK /\ TypeOK'
  BY TypeOKNext DEF CountInv
<1>s. SeenInv
  BY DEF CountInv
<1> SUFFICES SpentInv' /\ FlagInv' /\ SeenInv'
  BY <1>t DEF CountInv
<1> USE DEF maps
<1>1. ASSUME NEW t \in Task, NEW s \in Session, TwoStepCall(t, s)
      PROVE  SpentInv' /\ FlagInv' /\ SeenInv'
  <2>1. CASE TrackAttempt(t, s)
    BY <2>1, <1>t, <1>s, AttemptCounted, SeenKept DEF TrackAttempt, Counter
  <2>2. CASE InsertRecord(t, s)
    BY <2>2, <1>t, <1>s, RecordInserted, SeenKept DEF InsertRecord
  <2>3. CASE CloseRelay(t, s)
    <3>1. Inserting' \subseteq Inserting
      BY <2>3, <1>t DEF CloseRelay, Start, TypeOK, Inserting
    <3>2. Fresh' = Fresh /\ Succeeded' = Succeeded /\ Relayed' = Relayed
      BY <2>3 DEF CloseRelay, Fresh, Succeeded, Relayed, Present
    <3>3. QED BY <2>3, <3>1, <3>2, <1>t, <1>s, Uncounted, SeenKept DEF CloseRelay
  <2>4. CASE MarkClosed(t, s)
    <3>1. Inserting' \subseteq Inserting
      BY <2>4, <1>t DEF MarkClosed, Finish, TypeOK, Inserting
    <3>2. CASE records[s] # None
      BY <2>4, <3>1, <3>2, <1>t, <1>s, RelayCounted, SeenKept
         DEF MarkClosed, UseRelay, Counter
    <3>3. CASE records[s] = None
      <4>1. Fresh' = Fresh /\ Succeeded' = Succeeded /\ Relayed' = Relayed
        BY <2>4, <3>3 DEF MarkClosed, Fresh, Succeeded, Relayed, Present
      <4>2. QED BY <2>4, <3>1, <3>3, <4>1, <1>t, <1>s, Uncounted, SeenKept
                   DEF MarkClosed
    <3>4. QED BY <3>2, <3>3
  <2>5. QED BY <1>1, <2>1, <2>2, <2>3, <2>4 DEF TwoStepCall
<1>2. ASSUME NEW t \in Task, Drop(t) PROVE SpentInv' /\ FlagInv' /\ SeenInv'
  <2>1. Inserting' \subseteq Inserting
    BY <1>2, <1>t DEF Drop, TypeOK, Inserting
  <2>2. Fresh' = Fresh /\ Succeeded' = Succeeded /\ Relayed' = Relayed
    BY <1>2 DEF Drop, Fresh, Succeeded, Relayed, Present
  <2>3. QED BY <1>2, <2>1, <2>2, <1>t, <1>s, Uncounted, SeenKept DEF Drop
<1>3. ASSUME NEW s \in Session, OneStepCall(s) \/ Aging(s)
      PROVE  SpentInv' /\ FlagInv' /\ SeenInv'
  <2>1. ASSUME NEW direct \in BOOLEAN, MarkSuccess(s, direct)
        PROVE  SpentInv' /\ FlagInv' /\ SeenInv'
    BY <2>1, <1>t, <1>s, SuccessCounted, SeenKept DEF MarkSuccess, Counter
  <2>2. CASE MarkFailed(s)
    <3>1. Inserting' = Inserting
      BY <2>2 DEF MarkFailed, Inserting
    <3>2. QED BY <2>2, <3>1, <1>t, <1>s, RelayCounted, SeenKept
                 DEF MarkFailed, UseRelay, Counter
  <2>3. CASE CreateRelay(s) \/ RelayExpires(s)
    <3>1. /\ Inserting' = Inserting /\ Fresh' = Fresh
          /\ Succeeded' = Succeeded /\ Relayed' = Relayed
      BY <2>3 DEF CreateRelay, RelayExpires, Inserting, Fresh, Succeeded,
                  Relayed, Present
    <3>2. QED BY <2>3, <3>1, <1>t, <1>s, Uncounted, SeenKept
                 DEF CreateRelay, RelayExpires
  <2>4. CASE RecordExpires(s)
    <3>1. /\ Inserting' = Inserting /\ Fresh' \subseteq Fresh
          /\ Succeeded' \subseteq Succeeded /\ Relayed' \subseteq Relayed
      BY <2>4, <1>t DEF RecordExpires, Inserting, Fresh, Succeeded, Relayed,
                        Present, TypeOK, Record
    <3>2. QED BY <2>4, <3>1, <1>t, <1>s, Uncounted, SeenKept DEF RecordExpires
  <2>5. QED BY <1>3, <2>1, <2>2, <2>3, <2>4 DEF OneStepCall, Aging
<1>4. CASE CleanupRecords
  <2>1. /\ Inserting' = Inserting /\ Fresh' \subseteq Fresh
        /\ Succeeded' \subseteq Succeeded /\ Relayed' \subseteq Relayed
    BY <1>4 DEF CleanupRecords, Inserting, Fresh, Succeeded, Relayed, Present
  <2>2. QED BY <1>4, <2>1, <1>t, <1>s, Uncounted, SeenKept DEF CleanupRecords
<1>5. CASE CleanupRelays
  <2>1. /\ Inserting' = Inserting /\ Fresh' = Fresh
        /\ Succeeded' = Succeeded /\ Relayed' = Relayed
    BY <1>5 DEF CleanupRelays, Inserting, Fresh, Succeeded, Relayed, Present
  <2>2. QED BY <1>5, <2>1, <1>t, <1>s, Uncounted, SeenKept DEF CleanupRelays
<1>6. CASE Read \/ UNCHANGED vars
  <2>1. /\ UNCHANGED <<records, task, counters, repeated>>
        /\ Inserting' = Inserting /\ Fresh' = Fresh
        /\ Succeeded' = Succeeded /\ Relayed' = Relayed
    BY <1>6 DEF Read, Load, ReturnStats, vars, Inserting, Fresh, Succeeded,
                Relayed, Present
  <2>2. SeenInv'
    BY <1>6, <1>t, <1>s DEF Read, Load, ReturnStats, vars, SeenInv, TypeOK
  <2>3. QED BY <2>1, <2>2, Uncounted
<1>7. QED BY <1>1, <1>2, <1>3, <1>4, <1>5, <1>6 DEF Next

LEMMA CountInvariant == Spec => []CountInv
BY CountInvInit, CountInvNext, PTL DEF Spec

\* For any number of callers and sessions: unless a success is reported twice,
\* the direct successes never exceed the attempts.
THEOREM SuccessesAreAttempts == Spec => []SuccessesFitAttempts
<1>1. CountInv => SuccessesFitAttempts
  BY CountedSetsAreFinite, FS_CardinalityType, CountersTyped
     DEF CountInv, SpentInv, SuccessesFitAttempts
<1>2. QED BY <1>1, CountInvariant, PTL

\* For any number of callers and sessions: no record shows a success or the use
\* of a relay that was not counted.
THEOREM RecordsAreCounted == Spec => []FlagsAreCounted
<1>1. CountInv => FlagsAreCounted
  BY DEF CountInv, FlagInv, FlagsAreCounted, Relayed, Succeeded
<1>2. QED BY <1>1, CountInvariant, PTL

\* For any number of callers and sessions: a success rate above 1 comes from a
\* race with a new attempt or from a success reported twice.
THEOREM RatesAreRatios == Spec => []RateIsARatio
<1>1. ASSUME CountInv PROVE RateIsARatio
  <2>1. CountInv => SuccessesFitAttempts
    BY CountedSetsAreFinite, FS_CardinalityType, CountersTyped
       DEF CountInv, SpentInv, SuccessesFitAttempts
  <2>2. seen["direct"] # Unread => /\ seen["direct"] \in Nat
                                   /\ seen["direct"] <= counters["direct"]
    BY <1>1 DEF CountInv, SeenInv, TypeOK, Counter
  <2>3. QED BY <1>1, <2>1, <2>2, CountersTyped
               DEF CountInv, SuccessesFitAttempts, RateIsARatio
<1>2. QED BY <1>1, CountInvariant, PTL
=============================================================================
