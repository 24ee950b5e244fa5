------------------------ MODULE AgentRegistryProofs ------------------------
(***************************************************************************)
(* Proofs about AgentRegistry.  As long as nobody deletes rows, the        *)
(* foreign key never fires; so every step is a step of TelemetryBatcher or *)
(* leaves its variables alone, and its theorems hold of the composition.   *)
(***************************************************************************)
EXTENDS AgentRegistry, BatcherRefinementProofs

RegistryInv ==
  /\ InMemoryAgentsExist
  /\ AcknowledgedIsKnown
  /\ refreshing \subseteq agentRows

\* The foreign key holds, so the extra step of the composition cannot happen.
LEMMA FleetStepIsBatcherStep ==
  ASSUME "cleanup" \notin RegistryDisruptions,
         InMemoryAgentsExist, [FleetNext]_fleetVars
  PROVE  [Next]_vars
<1>1. CASE StartProcess
  BY <1>1 DEF StartProcess, Next
<1>2. ASSUME NEW a \in Agents, CommitAgent(a) \/ RegisterAgent(a) \/ RefreshFails(a)
      PROVE  [Next]_vars
  BY <1>2 DEF CommitAgent, RegisterAgent, RefreshFails
<1>3. ASSUME NEW a \in Agents, NEW b \in Batteries, IngestKnown(a, b)
      PROVE  [Next]_vars
  BY <1>3 DEF IngestKnown, Next
<1>4. CASE FlushChecked
  <2>1. ~ InsertFails
    BY DEF InMemoryAgentsExist, InsertFails, ForeignKeysHold
  <2>2. Flush
    BY <1>4, <2>1 DEF FlushChecked, Flush, EvaluateInserted
  <2> QED BY <2>2 DEF Next
<1>5. CASE StopProcess
  BY <1>5 DEF StopProcess, Next
<1>6. CASE CrashProcess
  BY <1>6 DEF CrashProcess, Next
<1>7. CASE CleanUp
  BY <1>7 DEF CleanUp, Truncate, FlushCache
<1>8. CASE UNCHANGED fleetVars
  BY <1>8 DEF fleetVars
<1> QED
  BY <1>1, <1>2, <1>3, <1>4, <1>5, <1>6, <1>7, <1>8 DEF FleetNext, LifespanStep, AgentStep

\* What a step of the flush, a shutdown or a crash may do to the memory.
LEMMA FlushMemory ==
  ASSUME FlushChecked \/ StopProcess \/ CrashProcess
  PROVE  /\ AgentsOf(buffer') \cup AgentsOf(batch')
              \subseteq AgentsOf(buffer) \cup AgentsOf(batch)
         /\ mode' = "serving" => mode = "serving" /\ known' = known
         /\ known' \subseteq known
         /\ UNCHANGED <<agentRows, registered>>
         /\ refreshing' \subseteq refreshing
<1> DEFINE Kept == /\ mode' = "serving" => mode = "serving"
                   /\ \/ buffer' = buffer /\ batch' \in {<<>>, batch}
                      \/ buffer' = <<>> /\ batch' \in {<<>>, buffer}
<1>1. Kept
  <2>1. CASE FlushChecked
    BY <2>1
    DEF FlushChecked, Drain, SwapBuffer, EvaluateInserted, Evaluate,
        InsertFails, Commit, CommitReplyLost, SqlFails, ConnectFails, SqlHangs,
        WriteRedis, RedisHangs, Emit, Return
  <2>2. CASE StopProcess
    BY <2>2 DEF StopProcess, Stop, SwapBuffer
  <2>3. CASE CrashProcess
    BY <2>3 DEF CrashProcess, Crash
  <2> QED BY <2>1, <2>2, <2>3
<1>2. AgentsOf(<<>>) = {}
  BY DEF AgentsOf
<1>3. AgentsOf(buffer') \cup AgentsOf(batch')
        \subseteq AgentsOf(buffer) \cup AgentsOf(batch)
  BY <1>1, <1>2
<1>4. ForgetIfDown /\ refreshing' \subseteq refreshing
  BY DEF FlushChecked, StopProcess, CrashProcess
<1> QED BY <1>1, <1>3, <1>4 DEF ForgetIfDown

LEMMA IngestAgents ==
  ASSUME TypeOK, NEW a \in Agents, NEW b \in Batteries, Ingest(a, b)
  PROVE  AgentsOf(buffer') = AgentsOf(buffer) \cup {a}
<1>1. buffer \in Seq(Reading)
  BY DEF TypeOK
<1> QED BY <1>1 DEF Ingest, AgentsOf

LEMMA NextRegistry ==
  ASSUME "cleanup" \notin RegistryDisruptions,
         TypeOK, RegistryInv, [FleetNext]_fleetVars
  PROVE  TypeOK' /\ RegistryInv'
<1>1. TypeOK'
  BY FleetStepIsBatcherStep, NextType DEF RegistryInv
<1> USE DEF RegistryInv, InMemoryAgentsExist, AcknowledgedIsKnown
<1>2. CASE StartProcess
  <2>1. UNCHANGED <<buffer, batch, agentRows, refreshing, registered>>
        /\ known' = agentRows
    BY <1>2 DEF StartProcess, Start, LoadKnown
  <2>2. AgentsOf(buffer') = AgentsOf(buffer) /\ AgentsOf(batch') = AgentsOf(batch)
    BY <2>1
  <2> QED BY <1>1, <2>1, <2>2
<1>3. ASSUME NEW a \in Agents, CommitAgent(a)
      PROVE  RegistryInv'
  <2>1. UNCHANGED <<mode, buffer, batch, known, registered>>
        /\ agentRows' = agentRows \cup {a}
        /\ refreshing' \subseteq refreshing \cup {a}
    BY <1>3 DEF CommitAgent, vars, volatile
  <2>2. AgentsOf(buffer') = AgentsOf(buffer) /\ AgentsOf(batch') = AgentsOf(batch)
    BY <2>1
  <2> QED BY <2>1, <2>2
<1>4. ASSUME NEW a \in Agents, RegisterAgent(a) \/ RefreshFails(a)
      PROVE  RegistryInv'
  <2>1. UNCHANGED <<mode, buffer, batch, agentRows>>
        /\ refreshing' \subseteq refreshing
        /\ \/ UNCHANGED <<known, registered>>
           \/ /\ a \in agentRows
              /\ known' = known \cup {a} /\ registered' = registered \cup {a}
    BY <1>4 DEF RegisterAgent, RefreshFails, vars, volatile
  <2>2. AgentsOf(buffer') = AgentsOf(buffer) /\ AgentsOf(batch') = AgentsOf(batch)
    BY <2>1
  <2> QED BY <2>1, <2>2
<1>5. ASSUME NEW a \in Agents, NEW b \in Batteries, IngestKnown(a, b)
      PROVE  RegistryInv'
  <2>1. AgentsOf(buffer') = AgentsOf(buffer) \cup {a} /\ a \in agentRows
    BY <1>5, IngestAgents DEF IngestKnown
  <2>2. UNCHANGED <<mode, batch, agentRows, known, refreshing, registered>>
    BY <1>5 DEF IngestKnown, Ingest, registryVars
  <2>3. AgentsOf(batch') = AgentsOf(batch)
    BY <2>2
  <2> QED BY <2>1, <2>2, <2>3
<1>6. CASE FlushChecked \/ StopProcess \/ CrashProcess
  <2>1. /\ AgentsOf(buffer') \cup AgentsOf(batch')
             \subseteq AgentsOf(buffer) \cup AgentsOf(batch)
        /\ mode' = "serving" => mode = "serving" /\ known' = known
        /\ known' \subseteq known
        /\ agentRows' = agentRows /\ registered' = registered
        /\ refreshing' \subseteq refreshing
    BY <1>6, FlushMemory, Zenon
  <2>2. InMemoryAgentsExist'
    BY <2>1
  <2>3. AcknowledgedIsKnown'
    BY <2>1
  <2> QED BY <1>1, <2>1, <2>2, <2>3
<1>7. CASE CleanUp
  BY <1>7 DEF CleanUp, Truncate, FlushCache
<1>8. CASE UNCHANGED fleetVars
  <2>1. UNCHANGED <<mode, buffer, batch, agentRows, known, refreshing, registered>>
    BY <1>8 DEF fleetVars, vars, volatile, registryVars
  <2>2. AgentsOf(buffer') = AgentsOf(buffer) /\ AgentsOf(batch') = AgentsOf(batch)
    BY <2>1
  <2> QED BY <1>1, <2>1, <2>2
<1> HIDE DEF RegistryInv, InMemoryAgentsExist, AcknowledgedIsKnown
<1> QED
  BY <1>1, <1>2, <1>3, <1>4, <1>5, <1>6, <1>7, <1>8, Zenon
     DEF FleetNext, LifespanStep, AgentStep

LEMMA RegistryInvCorrect ==
  ASSUME "cleanup" \notin RegistryDisruptions
  PROVE  FleetSpec => [](TypeOK /\ RegistryInv)
<1>1. FleetInit => TypeOK /\ RegistryInv
  BY InitType DEF FleetInit, InitRegistry, RegistryInv, InMemoryAgentsExist,
                  AcknowledgedIsKnown, Init, AgentsOf
<1>2. TypeOK /\ RegistryInv /\ [FleetNext]_fleetVars => TypeOK' /\ RegistryInv'
  BY NextRegistry
<1> QED BY <1>1, <1>2, PTL DEF FleetSpec

-----------------------------------------------------------------------------
\* Whatever fails between the COMMIT of a registration and its answer, and
\* after any restart or crash: an id that was answered with 201 has a row and
\* is accepted by the ingest path of every serving process.
THEOREM AcknowledgedIsKnownCorrect ==
  ASSUME "cleanup" \notin RegistryDisruptions
  PROVE  FleetSpec => []AcknowledgedIsKnown
<1>1. RegistryInv => AcknowledgedIsKnown
  BY DEF RegistryInv
<1> QED BY <1>1, RegistryInvCorrect, PTL

\* No reading in memory belongs to an agent without a row, so the foreign key
\* of the telemetry table never rejects a window.
THEOREM InMemoryAgentsExistCorrect ==
  ASSUME "cleanup" \notin RegistryDisruptions
  PROVE  FleetSpec => []InMemoryAgentsExist
<1>1. RegistryInv => InMemoryAgentsExist
  BY DEF RegistryInv
<1> QED BY <1>1, RegistryInvCorrect, PTL

\* The backend with registration and foreign keys implements the batcher of
\* TelemetryBatcher, so every theorem about Spec holds of it.
THEOREM ImplementsBatcherCorrect ==
  ASSUME "cleanup" \notin RegistryDisruptions
  PROVE  FleetSpec => ImplementsBatcher
<1>1. FleetInit => Init
  BY DEF FleetInit
<1>2. RegistryInv /\ [FleetNext]_fleetVars => [Next]_vars
  BY FleetStepIsBatcherStep DEF RegistryInv
<1> QED BY <1>1, <1>2, RegistryInvCorrect, PTL DEF FleetSpec, Spec, ImplementsBatcher

-----------------------------------------------------------------------------
(* Types, with cleanups too *)

\* A shutdown begins after the last registration has been answered.
FleetTypeInv ==
  /\ FleetTypeOK
  /\ mode # "serving" => refreshing = {}

LEMMA InitFleetType == FleetInit => FleetTypeInv
BY InitType DEF FleetInit, InitRegistry, FleetTypeInv, FleetTypeOK

\* The composition has steps that the batcher does not have.
LEMMA FleetSteps ==
  [FleetNext]_fleetVars => [Next]_vars \/ InsertFails \/ CleanUp
BY DEF FleetNext, LifespanStep, fleetVars, StartProcess, AgentStep, CommitAgent,
       RegisterAgent, RefreshFails, IngestKnown, FlushChecked, EvaluateInserted,
       StopProcess, CrashProcess, Next, Flush

LEMMA ExtraStepType ==
  ASSUME TypeOK, InsertFails \/ CleanUp
  PROVE  TypeOK'
<1>1. CASE InsertFails
  <2>1. reported' \subseteq Seqs
    BY <1>1, ReadingOfSequence DEF InsertFails, ReportFailure, SeqsOf, TypeOK
  <2> QED BY <1>1, <2>1 DEF InsertFails, Return, TypeOK, durable, outputs
<1>2. CASE Truncate
  BY <1>2 DEF Truncate, TypeOK, outputs
<1>3. CASE FlushCache
  BY <1>3 DEF FlushCache, NoKeys, TypeOK, volatile, durable
<1> QED BY <1>1, <1>2, <1>3 DEF CleanUp

LEMMA NextFleetType ==
  ASSUME FleetTypeInv, [FleetNext]_fleetVars
  PROVE  FleetTypeInv'
<1> USE DEF FleetTypeInv, FleetTypeOK
<1>1. CASE StartProcess
  <2>1. TypeOK'
    BY <1>1, NextType DEF StartProcess, Next
  <2> QED BY <1>1, <2>1 DEF StartProcess, Start, LoadKnown
<1>2. ASSUME NEW a \in Agents, CommitAgent(a) \/ RegisterAgent(a) \/ RefreshFails(a)
      PROVE  FleetTypeInv'
  <2>1. UNCHANGED vars
    BY <1>2 DEF CommitAgent, RegisterAgent, RefreshFails
  <2>2. TypeOK' /\ mode' = mode
    BY <2>1, NextType DEF vars, volatile
  <2> QED BY <1>2, <2>2 DEF CommitAgent, RegisterAgent, RefreshFails
<1>3. ASSUME NEW a \in Agents, NEW b \in Batteries, IngestKnown(a, b)
      PROVE  FleetTypeInv'
  <2>1. TypeOK'
    BY <1>3, NextType DEF IngestKnown, Next
  <2> QED BY <1>3, <2>1 DEF IngestKnown, Ingest, registryVars
<1>4. CASE FlushChecked
  <2>1. TypeOK'
    BY <1>4, NextType, ExtraStepType DEF FlushChecked, EvaluateInserted, Next, Flush
  <2>2. mode' = mode \/ mode = "stopping"
    BY <1>4
    DEF FlushChecked, Drain, SwapBuffer, EvaluateInserted, Evaluate, InsertFails, Commit,
        CommitReplyLost, SqlFails, ConnectFails, SqlHangs, WriteRedis, RedisHangs, Emit,
        Return
  <2> QED BY <1>4, <2>1, <2>2 DEF FlushChecked, ForgetIfDown
<1>5. CASE StopProcess \/ CrashProcess
  <2>1. TypeOK'
    BY <1>5, NextType DEF StopProcess, CrashProcess, Next
  <2> QED BY <1>5, <2>1 DEF StopProcess, CrashProcess, ForgetIfDown
<1>6. CASE CleanUp
  BY <1>6, ExtraStepType DEF CleanUp, Truncate, FlushCache, volatile, registryVars
<1>7. CASE UNCHANGED fleetVars
  <2>1. TypeOK'
    BY <1>7, NextType DEF fleetVars
  <2> QED BY <1>7, <2>1 DEF fleetVars, vars, volatile, registryVars
<1> QED
  BY <1>1, <1>2, <1>3, <1>4, <1>5, <1>6, <1>7 DEF FleetNext, LifespanStep, AgentStep

\* The registry keeps its types, cleanups included: a process that is down
\* knows no agent and has no registration under way.
THEOREM FleetTypeCorrect == FleetSpec => []FleetTypeOK
<1>1. FleetTypeInv => FleetTypeOK
  BY DEF FleetTypeInv
<1> QED BY <1>1, InitFleetType, NextFleetType, PTL DEF FleetSpec

-----------------------------------------------------------------------------
(* Alerts and cache, with cleanups and rejected windows *)

\* A rejected window is rolled back; a cleanup leaves no row to be wrong about.
LEMMA ExtraStepAlerts ==
  ASSUME TypeOK, Order, AlertInv, InsertFails \/ CleanUp
  PROVE  Order' /\ AlertInv'
<1>1. CASE InsertFails
  <2>1. /\ UNCHANGED <<buffer, durable, accepted>> /\ batch' = <<>>
        /\ pc' = "sleep" /\ txAlerts' = {}
    BY <1>1 DEF InsertFails, Return
  <2>2. AlertInv'
    BY <2>1, RollbackAlerts
  <2> QED BY <2>1, <2>2 DEF Order, Sorted, durable
<1>2. CASE Truncate
  <2>1. /\ UNCHANGED <<pc, buffer, batch, next, accepted>>
        /\ telemetry' = {} /\ alerts' = {} /\ txAlerts' = {}
        /\ pc = "evaluate" => next <= 1
    BY <1>2 DEF Truncate, TypeOK
  <2>2. \A i \in DOMAIN batch : i \in Nat \ {0}
    BY DEF TypeOK
  <2>3. Order'
    BY <2>1 DEF Order, Sorted
  <2>4. pc = "evaluate" => \A i \in DOMAIN batch : ~ (i < next)
    BY <2>1, <2>2 DEF TypeOK
  <2>5. pc = "evaluate" => Transaction'
    BY <2>1, <2>4 DEF Transaction, Below
  <2>6. OneActiveAlert' /\ AlertHistoryExact'
    BY <2>1 DEF OneActiveAlert, AtMostOneActive, AlertHistoryExact
  <2> QED BY <2>1, <2>3, <2>5, <2>6 DEF AlertInv, Below
<1>3. CASE FlushCache
  <2>1. UNCHANGED <<pc, buffer, batch, next, txAlerts, telemetry, alerts, accepted>>
    BY <1>3 DEF FlushCache, volatile, durable
  <2>2. Order' /\ OneActiveAlert' /\ AlertHistoryExact'
    BY <2>1 DEF Order, Sorted, AlertInv, OneActiveAlert, AtMostOneActive, AlertHistoryExact
  <2>3. Transaction => Transaction'
    BY <2>1 DEF Transaction
  <2> QED BY <2>1, <2>2, <2>3 DEF AlertInv
<1> QED BY <1>1, <1>2, <1>3 DEF CleanUp

FleetAlertInv == FleetTypeInv /\ Order /\ AlertInv

LEMMA FleetAlertInvCorrect == FleetSpec => []FleetAlertInv
<1>1. FleetInit => FleetAlertInv
  BY InitFleetType
  DEF FleetInit, Init, FleetAlertInv, Order, Sorted, AlertInv, OneActiveAlert,
      AtMostOneActive, AlertHistoryExact, Below
<1>2. FleetAlertInv /\ [FleetNext]_fleetVars => FleetAlertInv'
  <2> SUFFICES ASSUME FleetAlertInv, [FleetNext]_fleetVars PROVE FleetAlertInv'
    OBVIOUS
  <2>1. TypeOK /\ Order /\ AlertInv
    BY DEF FleetAlertInv, FleetTypeInv, FleetTypeOK
  <2>2. Order' /\ AlertInv'
    BY <2>1, FleetSteps, NextOrder, NextAlerts, ExtraStepAlerts
  <2> QED BY <2>2, NextFleetType DEF FleetAlertInv
<1> QED BY <1>1, <1>2, PTL DEF FleetSpec

\* Whatever is rolled back, rejected for a stale id or truncated under a running
\* backend: the alerts are the exact history of the telemetry that is stored.
THEOREM FleetAlertHistoryExact == FleetSpec => []AlertHistoryExact
<1>1. FleetAlertInv => AlertHistoryExact
  BY DEF FleetAlertInv, AlertInv
<1> QED BY <1>1, FleetAlertInvCorrect, PTL

LEMMA ExtraStepViews ==
  ASSUME TypeOK, ViewsBehind, InsertFails \/ CleanUp
  PROVE  /\ ViewsBehind'
         /\ broadcast' = broadcast /\ redis' \in {redis, NoKeys}
<1>1. CASE InsertFails
  BY <1>1 DEF InsertFails, Return, ReportFailure, ViewsBehind, Known, Behind, outputs
<1>2. CASE Truncate
  BY <1>2 DEF Truncate, ViewsBehind, Known, Behind, outputs
<1>3. CASE FlushCache
  <2>1. UNCHANGED <<pc, buffer, batch, broadcast, accepted>> /\ redis' = NoKeys
    BY <1>3 DEF FlushCache, volatile
  <2>2. /\ \A i \in DOMAIN buffer : 0 < buffer[i].seq
        /\ \A i \in DOMAIN batch : 0 < batch[i].seq
    BY ReadingOfSequence DEF TypeOK, Seqs
  <2>3. /\ \A a \in Agents : redis'[a] <= accepted'
        /\ Behind(redis', buffer) /\ Behind(redis', batch)
    BY <2>1, <2>2 DEF NoKeys, Behind, TypeOK
  <2> QED BY <2>1, <2>3 DEF ViewsBehind, Known, Behind
<1> QED BY <1>1, <1>2, <1>3 DEF CleanUp

LEMMA FleetViews == FleetSpec => [](FleetAlertInv /\ ViewsBehind)
<1>1. FleetInit => ViewsBehind
  BY DEF FleetInit, Init, ViewsBehind, Known, Behind
<1>2. FleetAlertInv /\ ViewsBehind /\ [FleetNext]_fleetVars => ViewsBehind'
  BY FleetSteps, NextViews, ExtraStepViews DEF FleetAlertInv, FleetTypeInv, FleetTypeOK
<1> QED BY <1>1, <1>2, FleetAlertInvCorrect, PTL DEF FleetSpec

\* From its commit on, the readings of a window are the newest in the table.
WindowNewest ==
  pc \in {"stalled", "redis", "hung"} =>
    \A t \in telemetry :
      \/ \A i \in DOMAIN batch : t.seq < batch[i].seq
      \/ \E i \in DOMAIN batch : batch[i].agent = t.agent /\ batch[i].seq = t.seq

\* A row is cached, superseded, without a key, or in the window to be cached.
CachedInv ==
  \A t \in telemetry :
    \/ redis[t.agent] = 0
    \/ t.seq <= redis[t.agent]
    \/ /\ pc \in {"stalled", "redis", "hung"}
       /\ \E i \in DOMAIN batch : batch[i].agent = t.agent /\ batch[i].seq = t.seq

LEMMA CommitCached ==
  ASSUME TypeOK, Order, CachedInv, CommitEffect, UNCHANGED <<batch, redis>>,
         pc' \in {"stalled", "redis"}
  PROVE  WindowNewest' /\ CachedInv'
<1>1. ASSUME NEW t \in telemetry', t \notin telemetry
      PROVE  \E i \in DOMAIN batch : batch[i].agent = t.agent /\ batch[i].seq = t.seq
  <2>1. PICK i \in DOMAIN batch : t = RowOf(batch[i])
    BY <1>1 DEF CommitEffect
  <2> QED BY <2>1 DEF RowOf
<1>2. ASSUME NEW t \in telemetry
      PROVE  /\ \A i \in DOMAIN batch : t.seq < batch[i].seq
             /\ redis[t.agent] = 0 \/ t.seq <= redis[t.agent]
  BY DEF CommitEffect, Order, CachedInv
<1> QED BY <1>1, <1>2 DEF WindowNewest, CachedInv

\* The pipeline never leaves a key behind a row of the table.
LEMMA WriteCached ==
  ASSUME TypeOK, Order, WindowNewest, CachedInv, pc = "redis",
         NEW written \in SUBSET AgentsOf(batch),
         redis' = Publish(redis, batch, written), UNCHANGED <<telemetry, batch>>,
         NEW t \in telemetry
  PROVE  \/ redis'[t.agent] = 0
         \/ t.seq <= redis'[t.agent]
         \/ /\ t.agent \notin written
            /\ \E i \in DOMAIN batch : batch[i].agent = t.agent /\ batch[i].seq = t.seq
<1> USE DEF Ordinals
<1>0. Ordinals /\ t.agent \in Agents
  BY OrdinalsFromType DEF TypeOK, Row
<1>1. CASE t.agent \notin written
  <2>1. redis'[t.agent] = redis[t.agent]
    BY <1>0, <1>1 DEF Publish
  <2> QED BY <1>1, <2>1 DEF CachedInv
<1>2. CASE t.agent \in written
  <2>1. redis'[t.agent] = LastOf(batch, t.agent)
    BY <1>0, <1>2 DEF Publish
  <2>2. PICK i \in DOMAIN batch : batch[i].seq = LastOf(batch, t.agent)
    BY <1>2, LastOfIsThere DEF TypeOK
  <2>3. CASE t.seq < batch[i].seq
    BY <1>0, <2>1, <2>2, <2>3
  <2>4. ASSUME NEW j \in DOMAIN batch, batch[j].agent = t.agent, batch[j].seq = t.seq
        PROVE  t.seq <= redis'[t.agent]
    BY <1>2, <2>1, <2>4, LastOfIsNewest DEF TypeOK, Order, Sorted
  <2> QED BY <2>3, <2>4 DEF WindowNewest
<1> QED BY <1>1, <1>2

LEMMA NextCached ==
  ASSUME Disruptions \cap Unpublishing = {},
         TypeOK, Order, WindowNewest, CachedInv, [Next]_vars
  PROVE  WindowNewest' /\ CachedInv'
<1> USE DEF durable, outputs
<1>0. /\ "redis" \notin Disruptions /\ "reply" \notin Disruptions
      /\ "stop" \notin Disruptions /\ "crash" \notin Disruptions
  BY DEF Unpublishing
<1>1. CASE UNCHANGED <<telemetry, redis, pc, batch>>
  BY <1>1 DEF WindowNewest, CachedInv
<1>2. CASE /\ UNCHANGED <<telemetry, redis>>
           /\ pc \notin {"stalled", "redis", "hung"} /\ pc' \notin {"stalled", "redis", "hung"}
  BY <1>2 DEF WindowNewest, CachedInv
<1>3. CASE Start \/ \E a \in Agents, b \in Batteries : Ingest(a, b)
  BY <1>1, <1>3 DEF Start, Ingest
<1>4. CASE Drain \/ Evaluate \/ SqlFails \/ ConnectFails \/ Emit
  BY <1>1, <1>2, <1>4
  DEF Drain, SwapBuffer, Evaluate, SqlFails, ConnectFails, Emit, Return
<1>5. CASE Commit
  BY <1>5, CommitCached DEF Commit
<1>6. CASE SqlHangs
  <2>1. CASE CommitEffect
    BY <1>6, <2>1, CommitCached DEF SqlHangs
  <2>2. CASE UNCHANGED durable
    BY <1>6, <2>2 DEF SqlHangs, Order, WindowNewest, CachedInv
  <2> QED BY <1>6, <2>1, <2>2 DEF SqlHangs
<1>7. CASE WriteRedis
  <2>1. /\ redis' = Publish(redis, batch, AgentsOf(batch))
        /\ UNCHANGED <<telemetry, batch>> /\ pc = "redis" /\ pc' = "emit"
    BY <1>0, <1>7 DEF WriteRedis
  <2>2. CachedInv'
    <3> SUFFICES ASSUME NEW t \in telemetry
                 PROVE  redis'[t.agent] = 0 \/ t.seq <= redis'[t.agent]
      BY <2>1 DEF CachedInv
    <3>1. \A i \in DOMAIN batch : batch[i].agent \in AgentsOf(batch)
      BY DEF AgentsOf
    <3> QED BY <2>1, <3>1, WriteCached
  <2> QED BY <2>1, <2>2 DEF WindowNewest
<1>8. CASE RedisHangs
  <2>1. UNCHANGED <<telemetry, batch>> /\ pc = "redis" /\ pc' = "hung"
    BY <1>8 DEF RedisHangs
  <2>2. PICK written \in SUBSET AgentsOf(batch) : redis' = Publish(redis, batch, written)
    BY <1>8 DEF RedisHangs
  <2>3. CachedInv'
    BY <2>1, <2>2, WriteCached DEF CachedInv
  <2> QED BY <2>1, <2>3 DEF WindowNewest
<1>9. CASE CommitReplyLost \/ Stop \/ Crash
  BY <1>0, <1>9 DEF CommitReplyLost, Stop, Crash
<1>10. CASE UNCHANGED vars
  BY <1>1, <1>10 DEF vars, volatile
<1> QED
  BY <1>3, <1>4, <1>5, <1>6, <1>7, <1>8, <1>9, <1>10 DEF Next, Flush

LEMMA ExtraStepCached ==
  ASSUME TypeOK, WindowNewest, CachedInv, InsertFails \/ CleanUp
  PROVE  WindowNewest' /\ CachedInv'
<1>1. CASE InsertFails
  BY <1>1 DEF InsertFails, Return, WindowNewest, CachedInv, durable, outputs
<1>2. CASE Truncate
  BY <1>2 DEF Truncate, WindowNewest, CachedInv
<1>3. CASE FlushCache
  <2>1. UNCHANGED <<telemetry, pc, batch>> /\ \A a \in Agents : redis'[a] = 0
    BY <1>3 DEF FlushCache, NoKeys, volatile, durable
  <2>2. \A t \in telemetry : t.agent \in Agents
    BY DEF TypeOK, Row
  <2> QED BY <2>1, <2>2 DEF WindowNewest, CachedInv
<1> QED BY <1>1, <1>2, <1>3 DEF CleanUp

\* With the tables truncated, Redis flushed, only one of the two, or both at any
\* two steps of a flush: unless the pipeline or the answer to COMMIT fails or the
\* process ends, a key that Redis holds after the pipeline of a window is not
\* behind the rows of its agent.
THEOREM FleetCachedIsNewest ==
  ASSUME Disruptions \cap Unpublishing = {}
  PROVE  FleetSpec => []CachedIsNewest
<1>1. FleetInit => WindowNewest /\ CachedInv
  BY DEF FleetInit, Init, WindowNewest, CachedInv
<1>2. FleetAlertInv => TypeOK /\ Order
  BY DEF FleetAlertInv, FleetTypeInv, FleetTypeOK
<1>3. FleetAlertInv /\ WindowNewest /\ CachedInv /\ [FleetNext]_fleetVars
        => WindowNewest' /\ CachedInv'
  BY <1>2, FleetSteps, NextCached, ExtraStepCached
<1>4. FleetAlertInv /\ CachedInv => CachedIsNewest
  <2> SUFFICES ASSUME FleetAlertInv, CachedInv, ~ Suspended, pc # "redis",
                      NEW t \in telemetry, redis[t.agent] # 0
               PROVE  redis[t.agent] >= t.seq
    BY DEF CachedIsNewest
  <2>1. t.seq <= redis[t.agent]
    BY DEF CachedInv, Suspended
  <2>2. t.agent \in Agents /\ t.seq \in Nat /\ redis[t.agent] \in Nat
    BY <1>2 DEF TypeOK, Row, Seqs
  <2> QED BY <2>1, <2>2
<1> QED BY <1>1, <1>3, <1>4, FleetAlertInvCorrect, PTL DEF FleetSpec

\* The clients too hear of the newest stored reading of every agent, whatever a
\* stale id makes the foreign key reject.
LEMMA ExtraStepSent ==
  ASSUME SentInv, InsertFails \/ CleanUp
  PROVE  SentInv'
<1>1. CASE InsertFails
  BY <1>1 DEF InsertFails, SentInv, durable, outputs
<1>2. CASE Truncate
  BY <1>2 DEF Truncate, SentInv
<1>3. CASE FlushCache
  BY <1>3 DEF FlushCache, SentInv, volatile, durable
<1> QED BY <1>1, <1>2, <1>3 DEF CleanUp

\* After a cleanup, and beside rejected windows, the clients have been sent the
\* newest stored reading of every agent as soon as a flush is over.
THEOREM FleetClientsFollowDatabase ==
  ASSUME Disruptions \cap Undelivering = {}
  PROVE  FleetSpec => []ClientsFollowDatabase
<1>1. FleetInit => SentInv
  BY DEF FleetInit, Init, SentInv
<1>2. FleetAlertInv => TypeOK /\ Order
  BY DEF FleetAlertInv, FleetTypeInv, FleetTypeOK
<1>3. FleetAlertInv /\ ViewsBehind /\ SentInv /\ [FleetNext]_fleetVars => SentInv'
  BY <1>2, FleetSteps, NextSent, ExtraStepSent
<1>4. FleetAlertInv /\ SentInv => ClientsFollowDatabase
  BY <1>2, SentInvSuffices
<1> QED BY <1>1, <1>3, <1>4, FleetViews, PTL DEF FleetSpec

\* A truncated table does not turn the clock back: what the flush puts into Redis
\* and sends to the clients is never older than what it replaces, although the
\* rows of what is replaced may be gone, and Redis may be emptied at any step.
THEOREM FleetNeverGoesBackCorrect == FleetSpec => FleetNeverGoesBack
<1>1. FleetAlertInv /\ ViewsBehind /\ [FleetNext]_fleetVars
        => [\A a \in Agents : /\ redis[a] <= redis'[a] \/ redis'[a] = 0
                              /\ broadcast[a] <= broadcast'[a]]_fleetVars
  <2> SUFFICES ASSUME FleetAlertInv, ViewsBehind, [FleetNext]_fleetVars, NEW a \in Agents
               PROVE  /\ redis[a] <= redis'[a] \/ redis'[a] = 0
                      /\ broadcast[a] <= broadcast'[a]
    OBVIOUS
  <2>1. TypeOK /\ Order
    BY DEF FleetAlertInv, FleetTypeInv, FleetTypeOK
  <2>2. CASE [Next]_vars
    BY <2>1, <2>2, NextViews DEF Advances
  <2>3. CASE InsertFails \/ CleanUp
    <3>1. broadcast' = broadcast /\ redis' \in {redis, NoKeys}
      BY <2>1, <2>3, ExtraStepViews
    <3> QED BY <2>1, <3>1 DEF TypeOK, NoKeys
  <2> QED BY <2>2, <2>3, FleetSteps
<1> QED BY <1>1, FleetViews, PTL DEF FleetSpec, FleetNeverGoesBack

\* Readings are stored once and in order, also in a table that was truncated
\* under the buffer of a running backend.
THEOREM FleetStoredOnceInOrder == FleetSpec => []StoredOnceInOrder
<1>1. FleetInit => StoredOnceInOrder /\ Stamped
  BY DEF FleetInit, Init, StoredOnceInOrder, Stamped
<1>2. InsertFails \/ CleanUp => telemetry' \subseteq telemetry /\ window' = window
  BY DEF InsertFails, Return, CleanUp, Truncate, FlushCache, durable
<1>3. FleetAlertInv /\ StoredOnceInOrder /\ Stamped /\ [FleetNext]_fleetVars
        => StoredOnceInOrder' /\ Stamped'
  <2> SUFFICES ASSUME FleetAlertInv, StoredOnceInOrder, Stamped, [FleetNext]_fleetVars
               PROVE  StoredOnceInOrder' /\ Stamped'
    OBVIOUS
  <2>1. CASE [Next]_vars
    BY <2>1, NextStored DEF FleetAlertInv, FleetTypeInv, FleetTypeOK
  <2>2. CASE InsertFails \/ CleanUp
    BY <1>2, <2>2 DEF StoredOnceInOrder, Stamped
  <2> QED BY <2>1, <2>2, FleetSteps
<1> QED BY <1>1, <1>3, FleetAlertInvCorrect, PTL DEF FleetSpec

\* The partial unique index never fires in the composition either: neither a
\* rejected window nor a truncated table leaves two active alerts of an agent.
THEOREM FleetOneActiveAlert == FleetSpec => []OneActiveAlert
<1>1. FleetAlertInv => OneActiveAlert
  BY DEF FleetAlertInv, AlertInv
<1> QED BY <1>1, FleetAlertInvCorrect, PTL

\* With the agents and the foreign key added, windows still become history in
\* order, atomically and with their alarms, or are lost as a whole.
THEOREM FleetImplementsDurable ==
  ASSUME "cleanup" \notin RegistryDisruptions
  PROVE  FleetSpec => ImplementsDurable
BY ImplementsBatcherCorrect, ImplementsDurableCorrect, PTL DEF ImplementsBatcher

\* A registration that fails half way never costs a reading: whatever was
\* answered with 201 is in memory, stored or in a window whose failure was logged.
THEOREM FleetNoSilentLoss ==
  ASSUME "cleanup" \notin RegistryDisruptions, Disruptions \cap Fatal = {}
  PROVE  FleetSpec => NoSilentLoss
BY ImplementsBatcherCorrect, NoSilentLossCorrect, PTL DEF ImplementsBatcher

-----------------------------------------------------------------------------
(* The two channels agree *)

\* After a pipeline that did not fail Redis holds the states to be broadcast.
Written == pc = "emit" => \A a \in AgentsOf(batch) : redis[a] = LastOf(batch, a)

LEMMA NextWritten ==
  ASSUME "redis" \notin Disruptions, TypeOK, Written, [Next]_vars
  PROVE  Written'
<1>1. CASE UNCHANGED <<redis, pc, batch>>
  BY <1>1 DEF Written
<1>2. CASE pc' # "emit"
  BY <1>2 DEF Written
<1>3. CASE WriteRedis
  <2>1. redis' = Publish(redis, batch, AgentsOf(batch)) /\ batch' = batch
    BY <1>3 DEF WriteRedis
  <2>2. \A a \in AgentsOf(batch) : a \in Agents
    BY ReadingOfSequence DEF TypeOK, AgentsOf
  <2> QED BY <2>1, <2>2 DEF Publish, Written
<1>4. CASE Next /\ ~ WriteRedis
  BY <1>1, <1>2, <1>4
  DEF Next, Start, Ingest, Flush, Drain, SwapBuffer, Evaluate, Commit, CommitReplyLost,
      SqlFails, ConnectFails, SqlHangs, RedisHangs, Emit, Return, Stop, Crash, outputs
<1>5. CASE UNCHANGED vars
  BY <1>1, <1>5 DEF vars, volatile, outputs
<1> QED BY <1>3, <1>4, <1>5

\* While the pipeline does not fail and nothing else writes to Redis, every
\* broadcast carries exactly the states that Redis holds at that moment.
THEOREM BroadcastIsCachedCorrect ==
  ASSUME "cleanup" \notin RegistryDisruptions, "redis" \notin Disruptions
  PROVE  FleetSpec => BroadcastIsCached
<1>1. FleetInit => Written
  BY DEF FleetInit, Init, Written
<1>2. RegistryInv /\ [FleetNext]_fleetVars => [Next]_vars
  BY FleetStepIsBatcherStep DEF RegistryInv
<1>3. TypeOK /\ RegistryInv /\ Written /\ [FleetNext]_fleetVars => Written'
  BY <1>2, NextWritten
<1>4. TypeOK /\ RegistryInv /\ Written /\ [FleetNext]_fleetVars
        => [broadcast' # broadcast =>
              \A a \in Agents : broadcast'[a] \in {broadcast[a], redis[a]}]_fleetVars
  <2> SUFFICES ASSUME Written, [Next]_vars, broadcast' # broadcast, NEW a \in Agents
               PROVE  broadcast'[a] \in {broadcast[a], redis[a]}
    BY <1>2
  <2>1. pc = "emit" /\ broadcast' = Publish(broadcast, batch, AgentsOf(batch))
    BY DEF Next, vars, outputs, Start, Ingest, Flush, Drain, Evaluate, Commit,
           CommitReplyLost, SqlFails, ConnectFails, SqlHangs, WriteRedis, RedisHangs,
           Emit, Stop, Crash
  <2> QED BY <2>1 DEF Publish, Written
<1> QED BY <1>1, <1>3, <1>4, RegistryInvCorrect, PTL DEF FleetSpec, BroadcastIsCached
=============================================================================
