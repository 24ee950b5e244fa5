------------------------- MODULE CurrentStateProofs -------------------------
(***************************************************************************)
(* Proofs about CurrentState: what requests may answer, and what clients   *)
(* see of the whole backend, for any agents, readers, disruptions, and     *)
(* with a Redis that may lose everything; as long as nobody deletes rows.  *)
(***************************************************************************)
EXTENDS CurrentState, AgentRegistryProofs

\* What the invariants of the batcher say, as far as readers rely on it.
BatcherInv ==
  TypeOK /\ Order /\ StoredOnceInOrder /\ Stamped
    /\ OutputsAreDurable /\ WindowStored

RegistryPart == FleetTypeInv /\ RegistryInv

\* The condition of one reader in step s, with missed agent c, fetched row f,
\* answer w and history q at the request, over the rows of the table.
ReaderOK(rows, s, c, f, w, q) ==
  /\ s \in {"idle", "cache", "row", "repopulate"}
  /\ c \in SUBSET Agents /\ f \in SUBSET rows
  /\ w \in [Agents -> Nat \cup {Unlisted}] /\ q \in [Agents -> Nat]
  /\ s \in {"row", "repopulate"} <=> c # {}
  /\ s = "repopulate" <=> f # {}
  /\ \A x, y \in c : x = y
  /\ s = "idle" => \A a \in Agents : w[a] = Unlisted
  /\ \A t \in f : t.agent \in c /\ t.recordedAt >= q[t.agent]
  /\ \A a \in Agents :
       /\ w[a] \notin {Unlisted, 0} => \E t \in rows : t.agent = a /\ t.seq = w[a]
       /\ w[a] = 0 => q[a] = 0
       /\ q[a] # 0 => \E t \in rows : t.agent = a /\ t.recordedAt >= q[a]

Shapes ==
  /\ step \in [Readers -> {"idle", "cache", "row", "repopulate"}]
  /\ remaining \in [Readers -> SUBSET Agents]
  /\ current \in [Readers -> SUBSET Agents]
  /\ found \in [Readers -> SUBSET telemetry]
  /\ answer \in [Readers -> [Agents -> Nat \cup {Unlisted}]]
  /\ asked \in [Readers -> [Agents -> Nat]]

ReadersInv ==
  /\ Shapes
  /\ \A r \in Readers :
       ReaderOK(telemetry, step[r], current[r], found[r], answer[r], asked[r])

-----------------------------------------------------------------------------
(* The batcher's part *)

LEMMA TelemetryGrows == [Next]_vars => telemetry \subseteq telemetry'
<1> SUFFICES ASSUME [Next]_vars PROVE telemetry \subseteq telemetry'
  OBVIOUS
<1> USE DEF durable
<1>1. CASE Commit \/ CommitReplyLost
  BY <1>1 DEF Commit, CommitReplyLost, CommitEffect
<1>2. CASE Flush
  BY <1>1, <1>2 DEF Flush, Drain, Evaluate, SqlFails, ConnectFails, SqlHangs, WriteRedis,
                    RedisHangs, Emit, CommitEffect
<1>3. ASSUME NEW a \in Agents, NEW b \in Batteries, Ingest(a, b)
      PROVE  telemetry' = telemetry
  BY <1>3 DEF Ingest
<1> QED
  BY <1>2, <1>3 DEF Next, Start, Stop, Crash, vars

LEMMA BatcherKeeps == BatcherInv /\ [Next]_vars => BatcherInv'
BY NextType, NextOrder, NextStored, NextOutputs DEF BatcherInv

\* Writing a durable state into the cache disturbs nothing of the batcher.
LEMMA CacheWrite ==
  ASSUME BatcherInv, redis' \in [Agents -> Nat],
         UNCHANGED <<volatile, durable, broadcast, window, accepted, reported>>,
         \A a \in Agents : redis'[a] # 0 => IsStored(a, redis'[a])
  PROVE  BatcherInv'
<1> USE DEF volatile, durable
<1>1. TypeOK' /\ Order'
  BY DEF BatcherInv, TypeOK, Order, Sorted
<1>2. StoredOnceInOrder' /\ Stamped' /\ WindowStored'
  BY DEF BatcherInv, StoredOnceInOrder, Stamped, WindowStored, IsStored
<1>3. OutputsAreDurable'
  BY DEF BatcherInv, OutputsAreDurable, IsStored
<1> QED BY <1>1, <1>2, <1>3 DEF BatcherInv

-----------------------------------------------------------------------------
(* The readers' part *)

LEMMA ReaderGrows ==
  ASSUME NEW rows, NEW more, rows \subseteq more,
         NEW s, NEW c, NEW f, NEW w, NEW q, ReaderOK(rows, s, c, f, w, q)
  PROVE  ReaderOK(more, s, c, f, w, q)
BY DEF ReaderOK

\* Rows are only added, and the readers stand still.
LEMMA ReadersWait ==
  ASSUME ReadersInv, UNCHANGED readerVars, telemetry \subseteq telemetry'
  PROVE  ReadersInv'
<1>1. Shapes'
  BY DEF ReadersInv, Shapes, readerVars
<1>2. \A r \in Readers :
        ReaderOK(telemetry', step[r], current[r], found[r], answer[r], asked[r])
  BY ReaderGrows DEF ReadersInv
<1> QED BY <1>1, <1>2 DEF ReadersInv, readerVars

\* One reader moves to a condition that is in order.
LEMMA ReaderMoves ==
  ASSUME ReadersInv, telemetry' = telemetry, NEW r \in Readers,
         NEW s, NEW c, NEW f, NEW w, NEW q, ReaderOK(telemetry, s, c, f, w, q),
         step' = [step EXCEPT ![r] = s], current' = [current EXCEPT ![r] = c],
         found' = [found EXCEPT ![r] = f], answer' = [answer EXCEPT ![r] = w],
         asked' = [asked EXCEPT ![r] = q], remaining' \in [Readers -> SUBSET Agents]
  PROVE  ReadersInv'
<1>1. Shapes'
  BY DEF ReadersInv, Shapes, ReaderOK
<1>2. ASSUME NEW x \in Readers
      PROVE  ReaderOK(telemetry, step'[x], current'[x], found'[x], answer'[x], asked'[x])
  <2>1. CASE x = r
    BY <2>1 DEF ReadersInv, Shapes
  <2>2. CASE x # r
    BY <2>2 DEF ReadersInv, Shapes
  <2> QED BY <2>1, <2>2
<1> QED BY <1>1, <1>2 DEF ReadersInv

LEMMA LargestWindow ==
  ASSUME NEW n \in Nat, NEW M \in SUBSET (0 .. n), M # {}
  PROVE  \E m \in M : \A k \in M : k <= m
<1> DEFINE up == {m + 1 : m \in M}
<1>1. up \in SUBSET (1 .. n + 1) /\ up # {} /\ n + 1 \in Nat
  <2>1. \A m \in M : m + 1 \in 1 .. n + 1
    OBVIOUS
  <2>2. PICK m \in M : TRUE
    OBVIOUS
  <2>3. m + 1 \in up
    OBVIOUS
  <2> QED BY <2>1, <2>3
<1>2. PICK u \in up : \A v \in up : v <= u
  BY <1>1, LargestIndexExists
<1>3. PICK m \in M : u = m + 1
  OBVIOUS
<1>4. \A k \in M : k <= m
  <2> TAKE k \in M
  <2>1. k + 1 <= u
    BY <1>2
  <2> QED BY <1>3, <2>1
<1> QED BY <1>4

\* NewestWindow is the window of some row of the agent.
LEMMA NewestWindowIsThere ==
  ASSUME BatcherInv, NEW a \in Agents
  PROVE  /\ NewestWindow(a) \in Nat
         /\ NewestWindow(a) # 0 =>
              \E t \in telemetry : t.agent = a /\ t.recordedAt >= NewestWindow(a)
<1>1. CASE RowsOf(a) = {}
  BY <1>1 DEF NewestWindow
<1>2. CASE RowsOf(a) # {}
  <2> DEFINE M == {t.recordedAt : t \in RowsOf(a)}
  <2>1. M \in SUBSET (0 .. window) /\ M # {} /\ window \in Nat
    BY <1>2 DEF BatcherInv, Stamped, TypeOK, Row, RowsOf
  <2>2. PICK m \in M : \A k \in M : k <= m
    BY <2>1, LargestWindow
  <2>3. \E t \in RowsOf(a) : t.recordedAt = m
    OBVIOUS
  <2> DEFINE Newest(w) == \A t \in RowsOf(a) : t.recordedAt <= w
  <2>4. m \in M /\ Newest(m)
    BY <2>2
  <2> HIDE DEF M, Newest
  <2>5. /\ (CHOOSE w \in M : Newest(w)) \in M
    BY <2>4
  <2>6. NewestWindow(a) \in M
    BY <1>2, <2>5 DEF NewestWindow, M, Newest
  <2> QED BY <2>1, <2>6 DEF M, RowsOf
<1> QED BY <1>1, <1>2

-----------------------------------------------------------------------------
(* Every step *)

LEMMA RequestKeeps ==
  ASSUME BatcherInv, RegistryPart, ReadersInv, NEW r \in Readers, Request(r)
  PROVE  ReadersInv'
<1> DEFINE q == [a \in Agents |-> NewestWindow(a)]
<1>1. /\ telemetry' = telemetry
      /\ step' = [step EXCEPT ![r] = "cache"]
      /\ current' = [current EXCEPT ![r] = current[r]]
      /\ found' = [found EXCEPT ![r] = found[r]]
      /\ answer' = [answer EXCEPT ![r] = answer[r]]
      /\ asked' = [asked EXCEPT ![r] = q]
      /\ remaining' \in [Readers -> SUBSET Agents]
  BY DEF Request, fleetVars, vars, durable, ReadersInv, Shapes, RegistryPart,
         FleetTypeInv, FleetTypeOK
<1>2. step[r] = "idle"
  BY DEF Request
<1>3. \A a \in Agents :
        /\ q[a] \in Nat
        /\ q[a] # 0 => \E t \in telemetry : t.agent = a /\ t.recordedAt >= q[a]
  BY NewestWindowIsThere
<1>4. ReaderOK(telemetry, step[r], current[r], found[r], answer[r], asked[r])
  BY DEF ReadersInv
<1>5. q \in [Agents -> Nat]
  BY <1>3
<1> HIDE DEF q
<1>6. ReaderOK(telemetry, "cache", current[r], found[r], answer[r], q)
  BY <1>2, <1>3, <1>4, <1>5 DEF ReaderOK, Unlisted
<1> QED BY <1>1, <1>6, ReaderMoves

\* The agent is listed with None, or with the ordinal of one of its rows.
LEMMA AnswerKeeps ==
  ASSUME BatcherInv, ReadersInv, telemetry' = telemetry,
         NEW r \in Readers, step[r] # "idle", NEW a \in Agents, NEW state \in Nat,
         state # 0 => IsStored(a, state),
         state = 0 => asked[r][a] = 0,
         Answer(r, a, state)
  PROVE  ReadersInv'
<1> DEFINE w == [answer[r] EXCEPT ![a] = state]
<1>1. /\ step' = [step EXCEPT ![r] = "cache"]
      /\ current' = [current EXCEPT ![r] = {}]
      /\ found' = [found EXCEPT ![r] = {}]
      /\ answer' = [answer EXCEPT ![r] = w]
      /\ asked' = [asked EXCEPT ![r] = asked[r]]
      /\ remaining' \in [Readers -> SUBSET Agents]
  BY DEF Answer, ReadersInv, Shapes
<1>2. ReaderOK(telemetry, step[r], current[r], found[r], answer[r], asked[r])
  BY DEF ReadersInv
<1>3. ReaderOK(telemetry, "cache", {}, {}, w, asked[r])
  BY <1>2 DEF ReaderOK, IsStored, Unlisted
<1> HIDE DEF w
<1> QED BY <1>1, <1>3, ReaderMoves

LEMMA ReadCacheKeeps ==
  ASSUME BatcherInv, ReadersInv, NEW r \in Readers, NEW a \in Agents,
         ReadCache(r, a)
  PROVE  ReadersInv'
<1>1. telemetry' = telemetry /\ step[r] = "cache"
  BY DEF ReadCache, fleetVars, vars, durable
<1>2. CASE redis[a] # 0 /\ Answer(r, a, redis[a])
  <2>1. redis[a] \in Nat /\ IsStored(a, redis[a])
    BY <1>2, DurableUnfolded DEF BatcherInv, TypeOK
  <2> QED BY <1>1, <1>2, <2>1, AnswerKeeps
<1>3. CASE /\ step' = [step EXCEPT ![r] = "row"]
           /\ current' = [current EXCEPT ![r] = {a}]
           /\ UNCHANGED <<remaining, found, answer, asked>>
  <2>1. /\ step' = [step EXCEPT ![r] = "row"]
        /\ current' = [current EXCEPT ![r] = {a}]
        /\ found' = [found EXCEPT ![r] = found[r]]
        /\ answer' = [answer EXCEPT ![r] = answer[r]]
        /\ asked' = [asked EXCEPT ![r] = asked[r]]
        /\ remaining' \in [Readers -> SUBSET Agents]
    BY <1>3 DEF ReadersInv, Shapes
  <2>2. ReaderOK(telemetry, step[r], current[r], found[r], answer[r], asked[r])
    BY DEF ReadersInv
  <2>3. ReaderOK(telemetry, "row", {a}, found[r], answer[r], asked[r])
    BY <1>1, <2>2 DEF ReaderOK
  <2> QED BY <1>1, <2>1, <2>3, ReaderMoves
<1> QED BY <1>2, <1>3 DEF ReadCache

LEMMA ReadRowKeeps ==
  ASSUME BatcherInv, ReadersInv, NEW r \in Readers, NEW a \in Agents,
         ReadRow(r, a)
  PROVE  ReadersInv'
<1>1. telemetry' = telemetry /\ step[r] = "row" /\ a \in current[r]
  BY DEF ReadRow, fleetVars, vars, durable
<1>2. ReaderOK(telemetry, step[r], current[r], found[r], answer[r], asked[r])
  BY DEF ReadersInv
<1>3. CASE RowsOf(a) = {} /\ Answer(r, a, 0)
  <2>1. asked[r][a] = 0
    BY <1>2, <1>3 DEF ReaderOK, RowsOf
  <2> QED BY <1>1, <1>3, <2>1, AnswerKeeps
<1>4. ASSUME NEW t \in NewestRows(a),
             found' = [found EXCEPT ![r] = {t}],
             step' = [step EXCEPT ![r] = "repopulate"],
             UNCHANGED <<remaining, current, answer, asked>>
      PROVE  ReadersInv'
  <2>1. /\ step' = [step EXCEPT ![r] = "repopulate"]
        /\ current' = [current EXCEPT ![r] = current[r]]
        /\ found' = [found EXCEPT ![r] = {t}]
        /\ answer' = [answer EXCEPT ![r] = answer[r]]
        /\ asked' = [asked EXCEPT ![r] = asked[r]]
        /\ remaining' \in [Readers -> SUBSET Agents]
    BY <1>4 DEF ReadersInv, Shapes
  <2>2. t \in telemetry /\ t.agent = a /\ t.recordedAt \in Nat
    BY DEF NewestRows, RowsOf, BatcherInv, TypeOK, Row
  <2>3. t.recordedAt >= asked[r][a]
    <3>1. CASE asked[r][a] = 0
      BY <2>2, <3>1
    <3>2. CASE asked[r][a] # 0
      <4>1. PICK u \in telemetry : u.agent = a /\ u.recordedAt >= asked[r][a]
        BY <1>2, <3>2 DEF ReaderOK
      <4>2. u.recordedAt <= t.recordedAt
        BY <4>1 DEF NewestRows, RowsOf
      <4>3. u.recordedAt \in Nat /\ asked[r][a] \in Nat
        BY <1>2 DEF ReaderOK, BatcherInv, TypeOK, Row
      <4> QED BY <2>2, <4>1, <4>2, <4>3
    <3> QED BY <3>1, <3>2
  <2>4. ReaderOK(telemetry, "repopulate", current[r], {t}, answer[r], asked[r])
    BY <1>1, <1>2, <2>2, <2>3 DEF ReaderOK
  <2> QED BY <1>1, <2>1, <2>4, ReaderMoves
<1> QED BY <1>3, <1>4 DEF ReadRow

LEMMA RepopulateKeeps ==
  ASSUME BatcherInv, ReadersInv, NEW r \in Readers, NEW a \in Agents,
         Repopulate(r, a)
  PROVE  BatcherInv' /\ ReadersInv'
<1>1. telemetry' = telemetry /\ step[r] = "repopulate" /\ a \in current[r]
  BY DEF Repopulate, durable
<1>2. ReaderOK(telemetry, step[r], current[r], found[r], answer[r], asked[r])
  BY DEF ReadersInv
<1>3. PICK t \in found[r] :
        /\ redis' \in {redis, [redis EXCEPT ![a] = t.seq]}
        /\ Answer(r, a, t.seq)
  BY DEF Repopulate
<1>4. t \in telemetry /\ t.agent = a
  BY <1>1, <1>2 DEF ReaderOK
<1>5. t.seq \in Nat /\ t.seq # 0 /\ IsStored(a, t.seq)
  BY <1>4 DEF BatcherInv, TypeOK, Row, Seqs, IsStored
<1>6. ReadersInv'
  BY <1>1, <1>3, <1>5, AnswerKeeps
<1>7. redis' \in [Agents -> Nat]
  BY <1>3, <1>5 DEF BatcherInv, TypeOK
<1>8. \A x \in Agents : redis'[x] # 0 => IsStored(x, redis'[x])
  <2>1. \A x \in Agents : redis[x] # 0 => IsStored(x, redis[x])
    BY DurableUnfolded DEF BatcherInv
  <2>2. redis \in [Agents -> Nat]
    BY DEF BatcherInv, TypeOK
  <2> QED BY <1>3, <1>5, <2>1, <2>2
<1>9. BatcherInv'
  BY <1>7, <1>8, CacheWrite DEF Repopulate
<1> QED BY <1>6, <1>9

LEMMA FinishKeeps ==
  ASSUME BatcherInv, ReadersInv, NEW r \in Readers, Finish(r)
  PROVE  ReadersInv'
<1>1. ReaderOK(telemetry, "idle", {}, {}, NoStates, NoWindow)
  BY DEF ReaderOK, NoStates, NoWindow, Unlisted
<1>2. telemetry' = telemetry /\ remaining' \in [Readers -> SUBSET Agents]
  BY DEF Finish, fleetVars, vars, durable, ReadersInv, Shapes
<1> QED BY <1>1, <1>2, ReaderMoves DEF Finish

LEMMA CrashKeeps ==
  ASSUME step' = Idle, remaining' = Nothing, current' = Nothing, found' = Nothing,
         answer' = [r \in Readers |-> NoStates],
         asked' = [r \in Readers |-> NoWindow]
  PROVE  ReadersInv'
<1>1. \A rows : ReaderOK(rows, "idle", {}, {}, NoStates, NoWindow)
  BY DEF ReaderOK, NoStates, NoWindow, Unlisted
<1>2. Shapes'
  BY DEF Shapes, Idle, Nothing, NoStates, NoWindow, Unlisted
<1> QED BY <1>1, <1>2 DEF ReadersInv, Idle, Nothing

-----------------------------------------------------------------------------
(* The rest of the backend under the readers *)

\* Readers and a restarting Redis change nothing but the cache.
CacheOnly ==
  /\ redis' \in [Agents -> Nat]
  /\ UNCHANGED <<volatile, durable, broadcast, window, accepted, reported>>
  /\ UNCHANGED registryVars

LEMMA RegistryKeeps ==
  ASSUME "cleanup" \notin RegistryDisruptions, BatcherInv, RegistryPart,
         [FleetNext]_fleetVars \/ CacheOnly
  PROVE  RegistryPart'
<1>1. CASE [FleetNext]_fleetVars
  BY <1>1, NextFleetType, NextRegistry DEF RegistryPart, BatcherInv
<1>2. CASE CacheOnly
  <2>1. TypeOK'
    BY <1>2 DEF CacheOnly, BatcherInv, TypeOK, volatile, durable
  <2>2. UNCHANGED <<mode, buffer, batch, agentRows, known, refreshing, registered>>
    BY <1>2 DEF CacheOnly, volatile, registryVars
  <2>3. FleetTypeInv'
    BY <2>1, <2>2 DEF RegistryPart, FleetTypeInv, FleetTypeOK
  <2>4. AgentsOf(buffer') = AgentsOf(buffer) /\ AgentsOf(batch') = AgentsOf(batch)
    BY <2>2
  <2>5. RegistryInv'
    BY <2>2, <2>4 DEF RegistryPart, RegistryInv, InMemoryAgentsExist, AcknowledgedIsKnown
  <2> QED BY <2>3, <2>5 DEF RegistryPart
<1> QED BY <1>1, <1>2

StateInv == BatcherInv /\ RegistryPart /\ ReadersInv

LEMMA RegistryStepIsFleetStep == RegistryStep => FleetNext
<1>1. ASSUME NEW a \in Agents, AgentStep(a) PROVE FleetNext
  BY <1>1 DEF FleetNext
<1>2. ASSUME StartProcess \/ StopProcess \/ CrashProcess PROVE FleetNext
  BY <1>2 DEF FleetNext, LifespanStep, StartProcess, StopProcess, CrashProcess, ForgetIfDown
<1>3. ASSUME FlushChecked \/ FlushCache \/ Truncate PROVE FleetNext
  BY <1>3 DEF FleetNext, CleanUp
<1> QED BY <1>1, <1>2, <1>3 DEF RegistryStep

LEMMA StateSteps ==
  ASSUME BatcherInv, ReadersInv, [StateNext]_stateVars
  PROVE  [FleetNext]_fleetVars \/ CacheOnly
<1>1. CASE RegistryStep
  BY <1>1, RegistryStepIsFleetStep
<1>2. ASSUME NEW r \in Readers, NEW a \in Agents, Repopulate(r, a)
      PROVE  CacheOnly
  <2>1. PICK t \in found[r] : redis' \in {redis, [redis EXCEPT ![a] = t.seq]}
    BY <1>2 DEF Repopulate
  <2>2. t.seq \in Nat /\ redis \in [Agents -> Nat]
    BY DEF ReadersInv, Shapes, BatcherInv, TypeOK, Row, Seqs
  <2> QED BY <1>2, <2>1, <2>2 DEF Repopulate, CacheOnly
<1>3. ASSUME NEW r \in Readers, ReaderStep(r)
      PROVE  UNCHANGED fleetVars \/ CacheOnly
  BY <1>2, <1>3
  DEF ReaderStep, Request, ReadCache, ReadRow, Respond, RequestFails, Finish
<1>4. CASE ColdRedis
  BY <1>4 DEF ColdRedis, CacheOnly, NoKeys
<1>5. CASE UNCHANGED stateVars
  BY <1>5 DEF stateVars
<1> QED BY <1>1, <1>3, <1>4, <1>5 DEF StateNext

LEMMA FleetStepUnderReaders ==
  ASSUME "cleanup" \notin RegistryDisruptions, RegistryPart, [FleetNext]_fleetVars
  PROVE  [Next]_vars
BY FleetStepIsBatcherStep DEF RegistryPart, RegistryInv

LEMMA NextState ==
  ASSUME "cleanup" \notin RegistryDisruptions, StateInv, [StateNext]_stateVars
  PROVE  StateInv'
<1> USE DEF StateInv
<1>0. RegistryPart'
  BY StateSteps, RegistryKeeps
<1> SUFFICES BatcherInv' /\ ReadersInv'
  BY <1>0
<1>1. ASSUME [FleetNext]_fleetVars, UNCHANGED readerVars
      PROVE  BatcherInv' /\ ReadersInv'
  BY <1>1, FleetStepUnderReaders, BatcherKeeps, TelemetryGrows, ReadersWait
<1>2. CASE RegistryStep
  <2>1. FleetNext
    BY <1>2, RegistryStepIsFleetStep
  <2>2. CASE UNCHANGED readerVars
    BY <1>1, <2>1, <2>2
  <2>3. CASE /\ step' = Idle /\ remaining' = Nothing /\ current' = Nothing
             /\ found' = Nothing /\ answer' = [r \in Readers |-> NoStates]
             /\ asked' = [r \in Readers |-> NoWindow]
    BY <2>1, <2>3, FleetStepUnderReaders, BatcherKeeps, CrashKeeps
  <2> QED BY <1>2, <2>2, <2>3 DEF RegistryStep
<1>3. ASSUME UNCHANGED fleetVars, ReadersInv'
      PROVE  BatcherInv' /\ ReadersInv'
  <2>1. [Next]_vars
    BY <1>3 DEF fleetVars
  <2> QED BY <1>3, <2>1, BatcherKeeps
<1>4. ASSUME NEW r \in Readers, Request(r)
      PROVE  BatcherInv' /\ ReadersInv'
  BY <1>3, <1>4, RequestKeeps DEF Request
<1>5. ASSUME NEW r \in Readers, NEW a \in Agents, ReadCache(r, a)
      PROVE  BatcherInv' /\ ReadersInv'
  BY <1>3, <1>5, ReadCacheKeeps DEF ReadCache
<1>6. ASSUME NEW r \in Readers, NEW a \in Agents, ReadRow(r, a)
      PROVE  BatcherInv' /\ ReadersInv'
  BY <1>3, <1>6, ReadRowKeeps DEF ReadRow
<1>7. ASSUME NEW r \in Readers, NEW a \in Agents, Repopulate(r, a)
      PROVE  BatcherInv' /\ ReadersInv'
  BY <1>7, RepopulateKeeps
<1>8. ASSUME NEW r \in Readers, Respond(r) \/ RequestFails(r)
      PROVE  BatcherInv' /\ ReadersInv'
  <2>1. Finish(r)
    BY <1>8 DEF Respond, RequestFails
  <2>2. UNCHANGED fleetVars
    BY <2>1 DEF Finish
  <2> QED BY <1>3, <2>1, <2>2, FinishKeeps
<1>9. CASE ColdRedis
  <2>1. redis' = [a \in Agents |-> 0] /\ UNCHANGED readerVars
        /\ UNCHANGED <<volatile, durable, broadcast, window, accepted, reported>>
    BY <1>9 DEF ColdRedis, NoKeys
  <2>2. BatcherInv'
    BY <2>1, CacheWrite
  <2>3. ReadersInv'
    BY <2>1, ReadersWait DEF durable
  <2> QED BY <2>2, <2>3
<1>10. CASE UNCHANGED stateVars
  BY <1>1, <1>10 DEF stateVars
<1> QED
  BY <1>2, <1>4, <1>5, <1>6, <1>7, <1>8, <1>9, <1>10 DEF StateNext, ReaderStep

LEMMA InitState == StateInit => StateInv
<1>1. StateInit => BatcherInv
  BY InitType DEF StateInit, FleetInit, BatcherInv, Init, Order, Sorted,
                  StoredOnceInOrder, Stamped, OutputsAreDurable, WindowStored
<1>2. StateInit => RegistryPart
  BY InitFleetType DEF StateInit, FleetInit, InitRegistry, Init, RegistryPart, RegistryInv,
                       InMemoryAgentsExist, AcknowledgedIsKnown, AgentsOf
<1>3. StateInit => ReadersInv
  <2>1. \A rows : ReaderOK(rows, "idle", {}, {}, NoStates, NoWindow)
    BY DEF ReaderOK, NoStates, NoWindow, Unlisted
  <2>2. StateInit => Shapes
    BY DEF StateInit, InitReaders, Shapes, Idle, Nothing, NoStates, NoWindow, Unlisted
  <2> QED BY <2>1, <2>2 DEF ReadersInv, StateInit, InitReaders, Idle, Nothing
<1> QED BY <1>1, <1>2, <1>3 DEF StateInv

LEMMA StateInvCorrect ==
  ASSUME "cleanup" \notin RegistryDisruptions
  PROVE  StateSpec => []StateInv
BY InitState, NextState, PTL DEF StateSpec

-----------------------------------------------------------------------------
\* The state a request lists for an agent is a stored reading of that agent,
\* however the request interleaves with flushes, failures and other requests.
THEOREM AnswersAreDurableCorrect ==
  ASSUME "cleanup" \notin RegistryDisruptions
  PROVE  StateSpec => []AnswersAreDurable
<1>1. StateInv => AnswersAreDurable
  BY DEF StateInv, ReadersInv, ReaderOK, AnswersAreDurable, RowsOf
<1> QED BY <1>1, StateInvCorrect, PTL

\* A Redis that lost everything never hides an agent that has a history.
THEOREM NoneOnlyWithoutHistoryCorrect ==
  ASSUME "cleanup" \notin RegistryDisruptions
  PROVE  StateSpec => []NoneOnlyWithoutHistory
<1>1. StateInv => NoneOnlyWithoutHistory
  BY DEF StateInv, ReadersInv, ReaderOK, NoneOnlyWithoutHistory
<1> QED BY <1>1, StateInvCorrect, PTL

\* The fallback never goes further back than the newest window that was stored
\* when the request came in.
THEOREM FallbackFromNewestWindowCorrect ==
  ASSUME "cleanup" \notin RegistryDisruptions
  PROVE  StateSpec => []FallbackFromNewestWindow
<1>1. StateInv => FallbackFromNewestWindow
  BY DEF StateInv, ReadersInv, ReaderOK, FallbackFromNewestWindow
<1> QED BY <1>1, StateInvCorrect, PTL

\* With readers writing to Redis as well, it still only holds stored readings.
THEOREM ReadersKeepOutputsDurable ==
  ASSUME "cleanup" \notin RegistryDisruptions
  PROVE  StateSpec => []OutputsAreDurable
<1>1. StateInv => OutputsAreDurable
  BY DEF StateInv, BatcherInv
<1> QED BY <1>1, StateInvCorrect, PTL

\* A reader that missed in Redis has one agent in hand, and the row it fetched
\* is a row of that agent which the table still holds.
THEOREM StateTypeCorrect ==
  ASSUME "cleanup" \notin RegistryDisruptions
  PROVE  StateSpec => []StateTypeOK
<1>1. StateInv => StateTypeOK
  BY DEF StateInv, RegistryPart, FleetTypeInv, ReadersInv, Shapes, ReaderOK, StateTypeOK
<1> QED BY <1>1, StateInvCorrect, PTL

-----------------------------------------------------------------------------
(* What readers leave alone *)

LEMMA CacheOnlyAlerts ==
  ASSUME AlertInv, WindowAlarms, CacheOnly
  PROVE  AlertInv' /\ WindowAlarms'
<1> USE DEF CacheOnly, volatile, durable
<1>1. AlertInv'
  BY DEF AlertInv, OneActiveAlert, AtMostOneActive, AlertHistoryExact, Transaction
<1>2. WindowAlarms'
  BY DEF WindowAlarms, AlarmAfterFirst
<1> QED BY <1>1, <1>2

LEMMA StateAlertsCorrect ==
  ASSUME "cleanup" \notin RegistryDisruptions
  PROVE  StateSpec => [](StateInv /\ AlertInv /\ WindowAlarms)
<1>1. StateInit => AlertInv /\ WindowAlarms
  BY DEF StateInit, FleetInit, Init, AlertInv, OneActiveAlert, AtMostOneActive,
         AlertHistoryExact, Below, WindowAlarms
<1>2. StateInv /\ AlertInv /\ WindowAlarms /\ [StateNext]_stateVars
        => AlertInv' /\ WindowAlarms'
  BY StateSteps, FleetStepUnderReaders, NextAlerts, NextAlarms, CacheOnlyAlerts
     DEF StateInv, BatcherInv
<1> QED BY <1>1, <1>2, StateInvCorrect, PTL DEF StateSpec

\* No read of the current state, and no loss of the cache, disturbs the history
\* of the alerts or the order in which readings are stored.
THEOREM ReadersKeepHistory ==
  ASSUME "cleanup" \notin RegistryDisruptions
  PROVE  StateSpec => [](AlertHistoryExact /\ StoredOnceInOrder)
<1>1. StateInv /\ AlertInv => AlertHistoryExact /\ StoredOnceInOrder
  BY DEF StateInv, BatcherInv, AlertInv
<1> QED BY <1>1, StateAlertsCorrect, PTL

\* Beside any number of readers, and with a Redis that loses everything, the
\* batcher keeps its promise: Redis is a copy nothing durable depends on.
THEOREM ReadersKeepThePromise ==
  ASSUME "cleanup" \notin RegistryDisruptions
  PROVE  StateSpec => ImplementsDurable
<1>1. StateInit => Durable!DurableInit
  BY InitImplements DEF StateInit, FleetInit
<1>2. StateInv /\ StateInv' /\ WindowAlarms /\ [StateNext]_stateVars
        => [Durable!DurableNext]_Durable!durableVars
  <2>1. CacheOnly => UNCHANGED Durable!durableVars
    BY DEF CacheOnly, volatile, durable, Undecided, History, Alarm, Durable!durableVars
  <2> QED BY <2>1, StateSteps, FleetStepUnderReaders, StepImplements DEF StateInv, BatcherInv
<1> QED
  BY <1>1, <1>2, StateAlertsCorrect, PTL
     DEF StateSpec, ImplementsDurable, Durable!DurableSpec

-----------------------------------------------------------------------------
(* What the clients see of the backend *)

Within == accepted <= MaxReadings

\* A flush that has left the loop's sleep has a window in hand.
Loaded == pc \in {"evaluate", "stalled", "redis", "hung", "emit"} => batch # <<>>

FeedInv == StateInv /\ Within /\ Loaded

LEMMA NextWithin ==
  ASSUME TypeOK, Within, Loaded, [Next]_vars
  PROVE  Within' /\ Loaded'
<1>1. \/ accepted' = accepted
      \/ accepted < MaxReadings /\ accepted' = accepted + 1
  BY DEF vars, Next, Start, Ingest, Flush, Drain, SwapBuffer, Evaluate, Commit,
         CommitReplyLost, SqlFails, ConnectFails, SqlHangs, WriteRedis, RedisHangs,
         Emit, Return, Stop, Crash
<1>2. Loaded'
  BY DEF vars, volatile, Loaded, Next, Start, Ingest, Flush, Drain, SwapBuffer, Evaluate,
         Commit, CommitEffect, CommitReplyLost, SqlFails, ConnectFails, SqlHangs,
         WriteRedis, RedisHangs, Emit, Return, Stop, Crash
<1> QED BY <1>1, <1>2, BatcherAssumption DEF TypeOK, Within

LEMMA NextFeed ==
  ASSUME "cleanup" \notin RegistryDisruptions, FeedInv, [StateNext]_stateVars
  PROVE  FeedInv'
<1>1. StateInv'
  BY NextState DEF FeedInv
<1>2. Within' /\ Loaded'
  <2>1. CacheOnly /\ Within /\ Loaded => Within' /\ Loaded'
    BY DEF CacheOnly, volatile, Within, Loaded
  <2> QED BY <2>1, StateSteps, FleetStepUnderReaders, NextWithin
      DEF FeedInv, StateInv, BatcherInv
<1> QED BY <1>1, <1>2 DEF FeedInv

LEMMA InitFeed == StateInit => FeedInv
<1>1. StateInit => Within /\ Loaded
  BY BatcherAssumption DEF StateInit, FleetInit, Init, Within, Loaded
<1> QED BY <1>1, InitState DEF FeedInv

LEMMA FeedInvCorrect ==
  ASSUME "cleanup" \notin RegistryDisruptions
  PROVE  StateSpec => []FeedInv
BY InitFeed, NextFeed, PTL DEF StateSpec

LEMMA NewestChosen ==
  ASSUME NEW rows, \A t \in rows : t.seq \in Nat,
         NEW u \in rows, \A t \in rows : t.seq <= u.seq
  PROVE  NewestSeq(rows) = u.seq
<1> DEFINE S == {t.seq : t \in rows}
           Greatest(s) == \A t \in rows : t.seq <= s
<1>1. u.seq \in S /\ Greatest(u.seq)
  OBVIOUS
<1>2. \A s \in S : Greatest(s) => s = u.seq
  OBVIOUS
<1> HIDE DEF S, Greatest
<1>3. (CHOOSE s \in S : Greatest(s)) = u.seq
  BY <1>1, <1>2
<1> QED BY <1>3 DEF NewestSeq, S, Greatest

LEMMA NewestBounds ==
  ASSUME NEW n \in Nat, NEW rows, \A t \in rows : t.seq \in 1 .. n
  PROVE  /\ NewestSeq(rows) \in 0 .. n
         /\ \A t \in rows : t.seq <= NewestSeq(rows)
<1>1. CASE rows = {}
  BY <1>1 DEF NewestSeq
<1>2. CASE rows # {}
  <2> DEFINE S == {t.seq : t \in rows}
  <2>1. S \in SUBSET (1 .. n) /\ S # {}
    BY <1>2
  <2>2. PICK m \in S : \A k \in S : k <= m
    BY <2>1, LargestIndexExists
  <2>3. PICK u \in rows : u.seq = m
    OBVIOUS
  <2>4. \A t \in rows : t.seq <= u.seq
    BY <2>2, <2>3
  <2>5. NewestSeq(rows) = u.seq
    BY <2>4, NewestChosen
  <2> QED BY <2>4, <2>5
<1> QED BY <1>1, <1>2

\* The last states of the window in hand.
LastStates == [a \in AgentsOf(batch) |-> LastOf(batch, a)]

LEMMA RowSeqs ==
  ASSUME TypeOK, Order
  PROVE  \A t \in telemetry : t.seq \in 1 .. accepted
BY DEF TypeOK, Order, Row, Seqs

LEMMA NewestKnown ==
  ASSUME TypeOK, Order, NEW a \in Agents
  PROVE  /\ NewestStates[a] \in 0 .. accepted
         /\ \A t \in RowsOf(a) : t.seq \in 1 .. NewestStates[a]
<1>1. \A t \in RowsOf(a) : t.seq \in 1 .. accepted
  BY RowSeqs DEF RowsOf
<1>2. /\ NewestSeq(RowsOf(a)) \in 0 .. accepted
      /\ \A t \in RowsOf(a) : t.seq <= NewestSeq(RowsOf(a))
  BY <1>1, NewestBounds DEF TypeOK
<1> QED BY <1>1, <1>2 DEF NewestStates

\* A commit moves the newest states on to the last ones of its window.
LEMMA CommitNewest ==
  ASSUME TypeOK, Order, CommitEffect
  PROVE  /\ \A a \in AgentsOf(batch) : /\ a \in Agents
                                       /\ LastOf(batch, a) \in 1 .. accepted
                                       /\ LastOf(batch, a) > NewestStates[a]
         /\ NewestStates' = Feed!Put(LastStates, NewestStates)
<1> Ordinals
  BY OrdinalsFromType
<1>1. ASSUME NEW a \in AgentsOf(batch)
      PROVE  /\ a \in Agents /\ LastOf(batch, a) \in 1 .. accepted
             /\ LastOf(batch, a) > NewestStates[a]
             /\ NewestSeq(RowsOf(a)') = LastOf(batch, a)
  <2>1. a \in Agents
    BY ReadingOfSequence DEF TypeOK, AgentsOf
  <2>2. PICK i \in DOMAIN batch : batch[i].agent = a /\ LastOf(batch, a) = batch[i].seq
    BY LastOfIsThere DEF TypeOK
  <2>3. batch[i].seq \in 1 .. accepted
    BY ReadingOfSequence DEF TypeOK, Order, Seqs
  <2>4. \A t \in RowsOf(a) : t.seq < batch[i].seq
    BY DEF CommitEffect, Order, RowsOf
  <2>5. LastOf(batch, a) > NewestStates[a]
    <3>1. CASE RowsOf(a) = {}
      BY <2>1, <2>2, <2>3, <3>1 DEF NewestStates, NewestSeq
    <3>2. CASE RowsOf(a) # {}
      <4> DEFINE S == {t.seq : t \in RowsOf(a)}
      <4>1. S \in SUBSET (1 .. accepted) /\ S # {}
        BY <3>2, RowSeqs DEF RowsOf
      <4>2. PICK m \in S : \A k \in S : k <= m
        BY <4>1, LargestIndexExists DEF TypeOK
      <4>3. PICK u \in RowsOf(a) : u.seq = m
        OBVIOUS
      <4>4. /\ \A t \in RowsOf(a) : t.seq <= u.seq
            /\ \A t \in RowsOf(a) : t.seq \in Nat
        BY <4>2, <4>3 DEF RowsOf, Ordinals
      <4>5. NewestSeq(RowsOf(a)) = u.seq
        BY <4>4, NewestChosen
      <4> QED BY <2>1, <2>2, <2>3, <2>4, <4>4, <4>5 DEF NewestStates
    <3> QED BY <3>1, <3>2
  <2>6. RowOf(batch[i]) \in RowsOf(a)' /\ RowOf(batch[i]).seq = batch[i].seq
    BY <2>2 DEF CommitEffect, RowsOf, RowOf
  <2>7. ASSUME NEW t \in RowsOf(a)'
        PROVE  t.seq \in Nat /\ t.seq <= batch[i].seq
    <3>1. CASE t \in telemetry
      BY <2>4, <3>1 DEF RowsOf, Ordinals
    <3>2. CASE t \notin telemetry
      <4>1. PICK j \in DOMAIN batch : t = RowOf(batch[j])
        BY <3>2 DEF RowsOf, CommitEffect
      <4>2. batch[j].agent = a /\ t.seq = batch[j].seq
        BY <4>1 DEF RowsOf, RowOf
      <4>3. batch[j].seq <= LastOf(batch, a)
        BY <4>2, LastOfIsNewest DEF TypeOK, Order, Sorted
      <4> QED BY <2>2, <4>2, <4>3 DEF Ordinals
    <3> QED BY <3>1, <3>2
  <2>8. NewestSeq(RowsOf(a)') = RowOf(batch[i]).seq
    BY <2>6, <2>7, NewestChosen
  <2> QED BY <2>1, <2>2, <2>3, <2>5, <2>6, <2>8
<1>2. ASSUME NEW a \in Agents, a \notin AgentsOf(batch)
      PROVE  NewestSeq(RowsOf(a)') = NewestSeq(RowsOf(a))
  <2>1. RowsOf(a)' = RowsOf(a)
    BY <1>2 DEF RowsOf, CommitEffect, RowOf, AgentsOf
  <2> QED BY <2>1
<1>3. NewestStates' = [a \in Agents |-> NewestSeq(RowsOf(a)')]
  BY DEF NewestStates
<1>4. DOMAIN LastStates \cup DOMAIN NewestStates = Agents
  BY <1>1 DEF LastStates, NewestStates
<1>5. \A a \in Agents :
        NewestSeq(RowsOf(a)')
          = IF a \in DOMAIN LastStates THEN LastStates[a] ELSE NewestStates[a]
  BY <1>1, <1>2 DEF LastStates, NewestStates
<1>6. Feed!Put(LastStates, NewestStates)
        = [a \in Agents |->
             IF a \in DOMAIN LastStates THEN LastStates[a] ELSE NewestStates[a]]
  BY <1>4 DEF Feed!Put
<1> QED BY <1>1, <1>3, <1>5, <1>6

Busy == pc \in {"redis", "hung", "emit"}

LEMMA OutgoingNow ==
  ASSUME TypeOK, Loaded
  PROVE  /\ ~ Busy => Outgoing = Feed!Empty
         /\ Busy => Outgoing = LastStates /\ Outgoing # Feed!Empty
<1>1. CASE ~ Busy
  <2>1. Outgoing = [a \in {} |-> LastOf(batch, a)]
    BY <1>1 DEF Outgoing, Busy
  <2>2. [a \in {} |-> LastOf(batch, a)] = [a \in {} |-> 0]
    OBVIOUS
  <2> QED BY <1>1, <2>1, <2>2 DEF Feed!Empty
<1>2. CASE Busy
  <2>1. Outgoing = LastStates
    BY <1>2 DEF Outgoing, LastStates, Busy
  <2>2. batch # <<>> /\ batch \in Seq(Reading)
    BY <1>2 DEF Loaded, Busy, TypeOK
  <2>3. batch[1].agent \in DOMAIN LastStates
    BY <2>2 DEF LastStates, AgentsOf
  <2>4. DOMAIN Feed!Empty = {}
    BY DEF Feed!Empty
  <2> QED BY <1>2, <2>1, <2>3, <2>4
<1> QED BY <1>1, <1>2

LEMMA OutgoingNext ==
  ASSUME ~ Busy'
  PROVE  Outgoing' = Feed!Empty
<1>1. Outgoing' = [a \in {} |-> LastOf(batch', a)]
  BY DEF Outgoing, Busy
<1>2. [a \in {} |-> LastOf(batch', a)] = [a \in {} |-> 0]
  OBVIOUS
<1> QED BY <1>1, <1>2 DEF Feed!Empty

LEMMA NewestStays ==
  ASSUME telemetry' = telemetry
  PROVE  NewestStates' = NewestStates
BY DEF NewestStates, RowsOf

\* The clients see no difference.
LEMMA SameFeed ==
  ASSUME UNCHANGED <<agentRows, telemetry, redis, pc, batch>>
  PROVE  UNCHANGED Feed!backend
BY NewestStays DEF Feed!backend, Outgoing

LEMMA QuietFeed ==
  ASSUME TypeOK, Loaded, UNCHANGED <<agentRows, telemetry, redis>>, ~ Busy, ~ Busy'
  PROVE  UNCHANGED Feed!backend
BY NewestStays, OutgoingNow, OutgoingNext DEF Feed!backend, Busy

LEMMA CommitStates ==
  ASSUME TypeOK, Order, RegistryInv, Within, Loaded, CommitEffect,
         UNCHANGED <<agentRows, redis>>, pc' \notin {"hung", "emit"}
  PROVE  /\ Outgoing = Feed!Empty /\ Feed!Stores(LastStates)
         /\ AgentsOf(batch) \in SUBSET agentRows
         /\ LastStates \in [AgentsOf(batch) -> 1 .. MaxReadings]
<1>1. /\ \A a \in AgentsOf(batch) : /\ a \in Agents /\ LastOf(batch, a) \in 1 .. MaxReadings
                                    /\ LastOf(batch, a) > NewestStates[a]
      /\ NewestStates' = Feed!Put(LastStates, NewestStates)
  BY CommitNewest, BatcherAssumption DEF Within, TypeOK
<1>2. pc = "evaluate" /\ ~ Busy
  BY DEF CommitEffect, Busy
<1>3. Outgoing = Feed!Empty
  BY <1>2, OutgoingNow
<1>4. AgentsOf(batch) \in SUBSET agentRows
  BY DEF RegistryInv, InMemoryAgentsExist
<1>5. LastStates \in [AgentsOf(batch) -> 1 .. MaxReadings]
  BY <1>1 DEF LastStates
<1>6. LastStates # Feed!Empty
  <2>1. batch # <<>> /\ batch \in Seq(Reading)
    BY <1>2 DEF Loaded, TypeOK
  <2>2. batch[1].agent \in DOMAIN LastStates
    BY <2>1 DEF LastStates, AgentsOf
  <2>3. DOMAIN Feed!Empty = {}
    BY DEF Feed!Empty
  <2> QED BY <2>2, <2>3
<1>7. \A a \in DOMAIN LastStates : LastStates[a] > NewestStates[a]
  BY <1>1 DEF LastStates
<1>8. DOMAIN LastStates \subseteq agentRows
  BY <1>4 DEF LastStates
<1>9. (pc' \in {"hung", "emit"}) = (pc \in {"hung", "emit"})
  BY <1>2
<1>10. Feed!Stores(LastStates)
  BY <1>1, <1>6, <1>7, <1>8, <1>9 DEF Feed!Stores
<1> QED BY <1>3, <1>4, <1>5, <1>10

\* A window is stored, and published afterwards or never.
LEMMA CommitFeed ==
  ASSUME TypeOK, Order, RegistryInv, Within, Loaded, CommitEffect,
         UNCHANGED <<agentRows, redis>>,
         (pc' = "redis" /\ batch' = batch) \/ ~ Busy'
  PROVE  Feed!FeedNext
<1>1. /\ Outgoing = Feed!Empty /\ Feed!Stores(LastStates)
      /\ AgentsOf(batch) \in SUBSET agentRows
      /\ LastStates \in [AgentsOf(batch) -> 1 .. MaxReadings]
  BY CommitStates DEF Busy
<1>2. CASE pc' = "redis" /\ batch' = batch
  <2>1. Outgoing' = LastStates
    BY <1>2 DEF Outgoing, LastStates
  <2>2. Feed!FeedStore(LastStates)
    BY <1>1, <2>1 DEF Feed!FeedStore
  <2> QED BY <1>1, <2>2 DEF Feed!FeedNext
<1>3. CASE ~ Busy'
  <2>1. Outgoing' = Feed!Empty
    BY <1>3, OutgoingNext
  <2>2. Feed!FeedStoreOnly(LastStates)
    BY <1>1, <2>1 DEF Feed!FeedStoreOnly
  <2> QED BY <1>1, <2>2 DEF Feed!FeedNext
<1> QED BY <1>2, <1>3

LEMMA PipelineFeed ==
  ASSUME TypeOK, Loaded, WriteRedis \/ RedisHangs, agentRows' = agentRows
  PROVE  Feed!FeedNext
<1>1. /\ pc = "redis" /\ pc' \in {"hung", "emit"} /\ batch' = batch
      /\ telemetry' = telemetry
  BY DEF WriteRedis, RedisHangs, durable
<1>2. PICK written \in SUBSET AgentsOf(batch) : redis' = Publish(redis, batch, written)
  BY DEF WriteRedis, RedisHangs
<1>3. Outgoing = LastStates /\ Outgoing # Feed!Empty
  BY <1>1, OutgoingNow DEF Busy
<1>4. Outgoing' = Outgoing /\ NewestStates' = NewestStates
  BY <1>1, NewestStays DEF Outgoing
<1>5. DOMAIN Outgoing = AgentsOf(batch)
  BY <1>3 DEF LastStates
<1>6. redis' = Feed!Put([a \in written |-> Outgoing[a]], redis)
  <2>1. written \subseteq Agents
    BY ReadingOfSequence DEF TypeOK, AgentsOf
  <2>2. written \cup DOMAIN redis = Agents
    BY <2>1 DEF TypeOK
  <2>3. \A a \in written : Outgoing[a] = LastOf(batch, a)
    BY <1>3 DEF LastStates
  <2> QED BY <1>2, <2>2, <2>3 DEF Publish, Feed!Put
<1>7. (pc \in {"hung", "emit"}) = FALSE /\ (pc' \in {"hung", "emit"}) = TRUE
  BY <1>1
<1>8. Feed!FeedCache(written)
  BY <1>3, <1>4, <1>5, <1>6, <1>7 DEF Feed!FeedCache
<1> QED BY <1>5, <1>8 DEF Feed!FeedNext

\* The broadcast, or the end of the process before it.
LEMMA TakenFeed ==
  ASSUME TypeOK, Loaded, UNCHANGED <<agentRows, telemetry, redis>>, Busy, ~ Busy'
  PROVE  Feed!FeedNext
<1>1. Outgoing # Feed!Empty /\ Outgoing' = Feed!Empty /\ NewestStates' = NewestStates
  BY OutgoingNow, OutgoingNext, NewestStays
<1>2. (pc' \in {"hung", "emit"}) = FALSE
  BY DEF Busy
<1>3. Feed!FeedLost
  BY <1>1, <1>2 DEF Feed!FeedLost
<1> QED BY <1>3 DEF Feed!FeedNext

LEMMA BatcherFeed ==
  ASSUME TypeOK, Order, RegistryInv, Within, Loaded, [Next]_vars, agentRows' = agentRows
  PROVE  [Feed!FeedNext]_(Feed!backend)
<1>1. CASE UNCHANGED <<telemetry, redis, pc, batch>>
  BY <1>1, SameFeed
<1>2. CASE UNCHANGED <<telemetry, redis>> /\ ~ Busy'
  BY <1>2, QuietFeed, TakenFeed
<1>3. CASE Start \/ \E a \in Agents, b \in Batteries : Ingest(a, b)
  BY <1>1, <1>3 DEF Start, Ingest, durable, outputs
<1>4. CASE Drain \/ Evaluate \/ SqlFails \/ ConnectFails \/ Emit \/ Stop \/ Crash
  BY <1>1, <1>2, <1>4
  DEF Drain, SwapBuffer, Evaluate, SqlFails, ConnectFails, Emit, Stop, Crash, Return, Busy,
      durable, outputs
<1>5. CASE Commit \/ CommitReplyLost
  BY <1>5, CommitFeed DEF Commit, CommitReplyLost, Return, Busy, outputs
<1>6. CASE SqlHangs
  <2>1. redis' = redis /\ ~ Busy'
    BY <1>6 DEF SqlHangs, Busy, outputs
  <2>2. CASE CommitEffect
    BY <2>1, <2>2, CommitFeed
  <2>3. CASE UNCHANGED durable
    BY <1>2, <2>1, <2>3 DEF durable
  <2> QED BY <1>6, <2>2, <2>3 DEF SqlHangs
<1>7. CASE WriteRedis \/ RedisHangs
  BY <1>7, PipelineFeed
<1>8. CASE UNCHANGED vars
  BY <1>1, <1>8 DEF vars, volatile, durable, outputs
<1> QED BY <1>3, <1>4, <1>5, <1>6, <1>7, <1>8 DEF Next, Flush

LEMMA FleetFeed ==
  ASSUME "cleanup" \notin RegistryDisruptions, FeedInv, [FleetNext]_fleetVars
  PROVE  [Feed!FeedNext]_(Feed!backend)
<1>1. ASSUME NEW a \in Agents, CommitAgent(a) PROVE Feed!FeedNext
  <2>1. /\ a \notin agentRows /\ agentRows' = agentRows \cup {a}
        /\ UNCHANGED <<telemetry, redis, pc, batch>>
    BY <1>1 DEF CommitAgent, vars, volatile, durable, outputs
  <2>2. Outgoing' = Outgoing /\ NewestStates' = NewestStates
    BY <2>1, NewestStays DEF Outgoing
  <2>3. (pc' \in {"hung", "emit"}) = (pc \in {"hung", "emit"})
    BY <2>1
  <2> QED BY <2>1, <2>2, <2>3 DEF Feed!FeedNext, Feed!FeedRegister
<1>2. ASSUME \A a \in Agents : ~ CommitAgent(a)
      PROVE  agentRows' = agentRows
  BY <1>2
  DEF FleetNext, LifespanStep, AgentStep, RegisterAgent, RefreshFails, IngestKnown,
      FlushChecked, ForgetIfDown, CleanUp, Truncate, FlushCache, fleetVars, registryVars
<1>3. [Next]_vars
  BY FleetStepUnderReaders DEF FeedInv, StateInv
<1> QED BY <1>1, <1>2, <1>3, BatcherFeed DEF FeedInv, StateInv, BatcherInv, RegistryPart

\* A reader puts a row back, whatever has been stored and cached since.
LEMMA RepopulateFeed ==
  ASSUME FeedInv, NEW r \in Readers, NEW a \in Agents, Repopulate(r, a)
  PROVE  [Feed!FeedNext]_(Feed!backend)
<1>1. PICK t \in found[r] : redis' \in {redis, [redis EXCEPT ![a] = t.seq]}
  BY DEF Repopulate
<1>2. UNCHANGED <<agentRows, telemetry, pc, batch>> /\ a \in current[r]
  BY DEF Repopulate, volatile, durable, registryVars
<1>3. CASE redis' = redis
  BY <1>2, <1>3, SameFeed
<1>4. CASE redis' = [redis EXCEPT ![a] = t.seq]
  <2>1. t \in RowsOf(a)
    BY <1>2 DEF FeedInv, StateInv, ReadersInv, ReaderOK, RowsOf
  <2>2. t.seq \in 1 .. NewestStates[a] /\ NewestStates[a] \in 0 .. accepted
    BY <2>1, NewestKnown DEF FeedInv, StateInv, BatcherInv
  <2>3. t.seq \in 0 .. MaxReadings
    BY <2>2, BatcherAssumption DEF FeedInv, Within, StateInv, BatcherInv, TypeOK
  <2>4. UNCHANGED <<Outgoing, NewestStates>>
    BY <1>2, NewestStays DEF Outgoing
  <2>5. (pc' \in {"hung", "emit"}) = (pc \in {"hung", "emit"})
    BY <1>2
  <2>6. Feed!FeedWriteBack(a, t.seq)
    BY <1>2, <1>4, <2>2, <2>4, <2>5 DEF Feed!FeedWriteBack
  <2> QED BY <2>3, <2>6 DEF Feed!FeedNext, Feed!Versions
<1> QED BY <1>1, <1>3, <1>4

LEMMA ColdFeed ==
  ASSUME ColdRedis
  PROVE  Feed!FeedNext
<1>1. UNCHANGED <<agentRows, telemetry, pc, batch>> /\ redis' = NoKeys
  BY DEF ColdRedis, volatile, durable, registryVars
<1>2. UNCHANGED <<Outgoing, NewestStates>>
  BY <1>1, NewestStays DEF Outgoing
<1>3. (pc' \in {"hung", "emit"}) = (pc \in {"hung", "emit"})
  BY <1>1
<1> QED BY <1>1, <1>2, <1>3 DEF Feed!FeedNext, Feed!FeedCold, Feed!NoKeys, NoKeys

LEMMA StateFeed ==
  ASSUME "cleanup" \notin RegistryDisruptions, FeedInv, [StateNext]_stateVars
  PROVE  [Feed!FeedNext]_(Feed!backend)
<1>1. CASE [FleetNext]_fleetVars
  BY <1>1, FleetFeed
<1>2. CASE \E r \in Readers, a \in Agents : Repopulate(r, a)
  BY <1>2, RepopulateFeed
<1>3. CASE ColdRedis
  BY <1>3, ColdFeed
<1>4. CASE RegistryStep
  BY <1>1, <1>4, RegistryStepIsFleetStep
<1>5. ASSUME NEW r \in Readers, ReaderStep(r), \A a \in Agents : ~ Repopulate(r, a)
      PROVE  UNCHANGED fleetVars
  BY <1>5 DEF ReaderStep, Request, ReadCache, ReadRow, Respond, RequestFails, Finish
<1>6. CASE UNCHANGED stateVars
  BY <1>1, <1>6 DEF stateVars
<1> QED BY <1>1, <1>2, <1>3, <1>4, <1>5, <1>6 DEF StateNext

\* The dashboard's picture of the backend is right: whatever fails in the flush,
\* however registrations, shutdowns, crashes, Redis restarts and the write-backs
\* of any number of requests interleave with it, its clients see the steps of
\* LiveFeed and no others.
THEOREM ImplementsLiveFeedCorrect ==
  ASSUME "cleanup" \notin RegistryDisruptions
  PROVE  StateSpec => ImplementsLiveFeed
<1>1. StateInit => Feed!FeedInit
  <2> SUFFICES ASSUME StateInit PROVE Feed!FeedInit
    OBVIOUS
  <2> USE DEF StateInit, FleetInit, Init, InitRegistry
  <2>1. Outgoing = Feed!Empty
    <3>1. Outgoing = [a \in {} |-> LastOf(batch, a)]
      BY DEF Outgoing
    <3>2. [a \in {} |-> LastOf(batch, a)] = [a \in {} |-> 0]
      OBVIOUS
    <3> QED BY <3>1, <3>2 DEF Feed!Empty
  <2>2. NewestStates = [a \in Agents |-> 0]
    BY DEF NewestStates, NewestSeq, RowsOf
  <2>3. (pc \in {"hung", "emit"}) = FALSE
    OBVIOUS
  <2> QED BY <2>1, <2>2, <2>3 DEF Feed!FeedInit, Feed!NoKeys
<1>2. FeedInv /\ [StateNext]_stateVars => [Feed!FeedNext]_(Feed!backend)
  BY StateFeed
<1> QED BY <1>1, <1>2, FeedInvCorrect, PTL DEF StateSpec, ImplementsLiveFeed, Feed!FeedSpec
=============================================================================
