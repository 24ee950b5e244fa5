-------------------------- MODULE LiveSystemProofs --------------------------
(***************************************************************************)
(* Theorems about LiveSystem, for any agents, readings, readers,           *)
(* disruptions of the backend and faults of the page, as long as nobody    *)
(* deletes rows.                                                           *)
(***************************************************************************)
EXTENDS LiveSystem, CurrentStateProofs

\* IsHistory over given rows.
HistoryIn(rows, map) ==
  \A a \in DOMAIN map : map[a] = 0 \/ \E t \in rows : t.agent = a /\ t.seq = map[a]

\* What the page shows, compares with or is reading.
Maps ==
  ({agents, queued, agentsRef} \ {NotLoaded}) \cup {pending}
    \cup {data[q] : q \in Page!Requests} \cup {row[q] : q \in Page!Requests}

\* Batches under way to the page are history too.
ShownInv ==
  /\ \A map \in Maps : HistoryIn(telemetry, map)
  /\ inbox \in Seq(Page!Snapshots)
  /\ \A i \in 1 .. Len(inbox) : HistoryIn(telemetry, inbox[i])
  /\ DOMAIN data = Page!Requests /\ DOMAIN row = Page!Requests

SystemInv == FeedInv /\ ShownInv

LEMMA HistoryGrows ==
  ASSUME NEW rows, NEW more, rows \subseteq more, NEW map, HistoryIn(rows, map)
  PROVE  HistoryIn(more, map)
BY DEF HistoryIn

LEMMA HistoryPut ==
  ASSUME NEW rows, NEW f, NEW g, HistoryIn(rows, f), HistoryIn(rows, g)
  PROVE  HistoryIn(rows, Page!Put(f, g))
BY DEF HistoryIn, Page!Put

LEMMA HistoryEmpty == \A rows : HistoryIn(rows, Page!Empty)
BY DEF HistoryIn, Page!Empty

LEMMA HistoryOf ==
  ASSUME NEW rows, NEW a, NEW s, s = 0 \/ \E t \in rows : t.agent = a /\ t.seq = s
  PROVE  HistoryIn(rows, [b \in {a} |-> s])
BY DEF HistoryIn

-----------------------------------------------------------------------------
(* The backend's part *)

\* A step of the page leaves the backend alone, except for the write-back.
LEMMA SystemSteps ==
  ASSUME [SystemNext]_systemVars
  PROVE  [StateNext]_stateVars \/ \E q \in Page!Requests : Rebuild(q)
BY DEF SystemNext, BackendMoves, PageMoves, Lookup, systemVars

LEMMA RebuildKeeps ==
  ASSUME "cleanup" \notin RegistryDisruptions, SystemInv,
         NEW q \in Page!Requests, Rebuild(q)
  PROVE  FeedInv' /\ CacheOnly
<1>1. PICK a \in Agents : Page!WriteBack(q, a)
  BY DEF Rebuild
<1>2. a \in DOMAIN row[q] /\ HistoryIn(telemetry, row[q])
  BY <1>1 DEF Page!WriteBack, SystemInv, ShownInv, Maps
<1>3. \/ redis' = redis
      \/ redis' = [redis EXCEPT ![a] = row[q][a]] /\ row[q][a] \in 1 .. NewestStates[a]
  BY <1>1 DEF Page!WriteBack, Page!FeedWriteBack, Page!backend
<1>4. NewestStates[a] \in Nat /\ redis \in [Agents -> Nat]
  BY NewestKnown DEF SystemInv, FeedInv, StateInv, BatcherInv, TypeOK
<1>5. CacheOnly
  BY <1>3, <1>4 DEF CacheOnly, Rebuild
<1>6. \A x \in Agents : redis'[x] # 0 => IsStored(x, redis'[x])
  <2>1. \A x \in Agents : redis[x] # 0 => IsStored(x, redis[x])
    BY DurableUnfolded DEF SystemInv, FeedInv, StateInv, BatcherInv
  <2>2. row[q][a] # 0 => IsStored(a, row[q][a])
    BY <1>2 DEF HistoryIn, IsStored
  <2> QED BY <1>3, <1>4, <2>1, <2>2
<1>7. BatcherInv'
  BY <1>5, <1>6, CacheWrite DEF CacheOnly, SystemInv, FeedInv, StateInv
<1>8. RegistryPart'
  BY <1>5, RegistryKeeps DEF SystemInv, FeedInv, StateInv
<1>9. ReadersInv'
  BY ReadersWait DEF SystemInv, FeedInv, StateInv, Rebuild, durable
<1>10. Within' /\ Loaded'
  BY DEF SystemInv, FeedInv, Within, Loaded, Rebuild, volatile
<1> QED BY <1>5, <1>7, <1>8, <1>9, <1>10 DEF FeedInv, StateInv

LEMMA SystemKeepsFeed ==
  ASSUME "cleanup" \notin RegistryDisruptions, SystemInv, [SystemNext]_systemVars
  PROVE  FeedInv'
BY SystemSteps, RebuildKeeps, NextFeed DEF SystemInv

\* Rows are only added.
LEMMA RowsStay ==
  ASSUME "cleanup" \notin RegistryDisruptions, SystemInv, [SystemNext]_systemVars
  PROVE  telemetry \subseteq telemetry'
<1>1. CASE CacheOnly
  BY <1>1 DEF CacheOnly, durable
<1>2. CASE [FleetNext]_fleetVars
  BY <1>2, FleetStepUnderReaders, TelemetryGrows DEF SystemInv, FeedInv, StateInv
<1> QED BY <1>1, <1>2, SystemSteps, RebuildKeeps, StateSteps DEF SystemInv, FeedInv, StateInv

\* The clients are told something new only by the emit of a window.
LEMMA BroadcastStep ==
  ASSUME [FleetNext]_fleetVars, broadcast' # broadcast
  PROVE  /\ pc = "emit" /\ pc' = "sleep"
         /\ UNCHANGED <<agentRows, telemetry, redis>>
<1>1. CASE FlushChecked
  BY <1>1 DEF FlushChecked, ForgetIfDown, Drain, EvaluateInserted, Evaluate, InsertFails,
              Commit, CommitReplyLost, SqlFails, ConnectFails, SqlHangs, WriteRedis,
              RedisHangs, Emit, Return, outputs, durable
<1>2. CASE LifespanStep
  BY <1>2 DEF LifespanStep, StartProcess, StopProcess, CrashProcess, Start, Stop, Crash,
              outputs
<1>3. ASSUME NEW a \in Agents, AgentStep(a) PROVE broadcast' = broadcast
  BY <1>3 DEF AgentStep, CommitAgent, RegisterAgent, RefreshFails, IngestKnown, Ingest,
              vars, outputs
<1>4. CASE CleanUp
  BY <1>4 DEF CleanUp, Truncate, FlushCache, outputs
<1>5. CASE UNCHANGED fleetVars
  BY <1>5 DEF fleetVars, vars, outputs
<1> QED BY <1>1, <1>2, <1>3, <1>4, <1>5 DEF FleetNext

LEMMA BroadcastByEmit ==
  ASSUME FeedInv, StateNext, broadcast' # broadcast
  PROVE  /\ pc = "emit" /\ pc' = "sleep"
         /\ UNCHANGED <<agentRows, telemetry, redis>>
<1>1. ~ CacheOnly
  BY DEF CacheOnly
<1> QED BY <1>1, StateSteps, BroadcastStep DEF FeedInv, StateInv

\* What is broadcast is a state the page knows how to hold, and it is stored.
LEMMA PayloadIsHistory ==
  ASSUME FeedInv, pc = "emit"
  PROVE  Payload \in Page!Snapshots /\ HistoryIn(telemetry, Payload)
<1>1. ASSUME NEW a \in AgentsOf(batch)
      PROVE  /\ a \in Agents /\ LastOf(batch, a) \in 0 .. MaxReadings
             /\ IsStored(a, LastOf(batch, a))
  <2>1. batch \in Seq(Reading)
    BY DEF FeedInv, StateInv, BatcherInv, TypeOK
  <2>2. PICK i \in DOMAIN batch : batch[i].agent = a /\ LastOf(batch, a) = batch[i].seq
    BY <2>1, LastOfIsThere
  <2>3. batch[i].agent \in Agents /\ batch[i].seq \in Nat
    BY <2>1, ReadingOfSequence DEF Seqs
  <2>4. batch[i].seq <= accepted /\ accepted \in Nat /\ accepted <= MaxReadings
    BY DEF FeedInv, StateInv, BatcherInv, Order, Within, TypeOK
  <2>5. IsStored(a, batch[i].seq)
    BY <2>2 DEF FeedInv, StateInv, BatcherInv, WindowStored
  <2> QED BY <2>2, <2>3, <2>4, <2>5, BatcherAssumption
<1>2. AgentsOf(batch) \in SUBSET Agents
  BY <1>1
<1>3. Payload \in [AgentsOf(batch) -> Page!Versions]
  BY <1>1 DEF Payload, Page!Versions
<1>4. Payload \in Page!Snapshots
  BY <1>2, <1>3 DEF Page!Snapshots
<1> QED BY <1>1, <1>4 DEF HistoryIn, IsStored, Payload

-----------------------------------------------------------------------------
(* Only history is shown *)

\* Every map of the page is an old one, or history as well.
LEMMA ShownMoves ==
  ASSUME ShownInv, telemetry \subseteq telemetry',
         \A map \in Maps' : map \in Maps \/ HistoryIn(telemetry', map),
         inbox' \in Seq(Page!Snapshots),
         \A i \in 1 .. Len(inbox') :
           HistoryIn(telemetry', inbox'[i]) \/ \E j \in 1 .. Len(inbox) : inbox'[i] = inbox[j],
         DOMAIN data' = Page!Requests, DOMAIN row' = Page!Requests
  PROVE  ShownInv'
<1>1. \A map \in Maps' : HistoryIn(telemetry', map)
  BY HistoryGrows DEF ShownInv
<1>2. \A i \in 1 .. Len(inbox') : HistoryIn(telemetry', inbox'[i])
  BY HistoryGrows DEF ShownInv
<1> QED BY <1>1, <1>2 DEF ShownInv

\* At most one batch comes into the inbox.
LEMMA BackendShows ==
  ASSUME "cleanup" \notin RegistryDisruptions, SystemInv, BackendMoves
  PROVE  ShownInv'
<1>1. telemetry \subseteq telemetry'
  BY RowsStay DEF SystemNext
<1>2. UNCHANGED <<agents, queued, agentsRef, pending, data, row>>
  BY DEF BackendMoves, Receive, page, client
<1>3. Maps' = Maps
  BY <1>2 DEF Maps
<1>4. CASE inbox' = inbox
  BY <1>1, <1>2, <1>3, <1>4, ShownMoves DEF SystemInv, ShownInv
<1>5. CASE broadcast' # broadcast /\ inbox' = Append(inbox, Payload)
  <2>1. Payload \in Page!Snapshots /\ HistoryIn(telemetry', Payload)
    BY <1>1, <1>5, BroadcastByEmit, PayloadIsHistory, HistoryGrows DEF SystemInv, BackendMoves
  <2>2. inbox' \in Seq(Page!Snapshots)
    BY <1>5, <2>1 DEF SystemInv, ShownInv
  <2>3. \A i \in 1 .. Len(inbox') :
          HistoryIn(telemetry', inbox'[i]) \/ \E j \in 1 .. Len(inbox) : inbox'[i] = inbox[j]
    BY <1>5, <2>1 DEF SystemInv, ShownInv
  <2> QED BY <1>1, <1>2, <1>3, <2>2, <2>3, ShownMoves DEF SystemInv, ShownInv
<1> QED BY <1>4, <1>5 DEF BackendMoves, Receive, page

\* A request of the page answers with, fetches or drops something.
LEMMA RequestShows ==
  ASSUME SystemInv, telemetry' = telemetry,
         UNCHANGED <<agents, queued, agentsRef, pending, inbox>>,
         NEW q \in Page!Requests,
         NEW f, HistoryIn(telemetry, f), row' \in {row, [row EXCEPT ![q] = f]},
         NEW g, HistoryIn(telemetry, g), data' \in {data, [data EXCEPT ![q] = g]}
  PROVE  ShownInv'
<1>1. DOMAIN data' = Page!Requests /\ DOMAIN row' = Page!Requests
  BY DEF SystemInv, ShownInv
<1>2. \A p \in Page!Requests : /\ row'[p] = row[p] \/ row'[p] = f
                               /\ data'[p] = data[p] \/ data'[p] = g
  BY DEF SystemInv, ShownInv
<1>3. \A map \in Maps' : map \in Maps \/ HistoryIn(telemetry', map)
  BY <1>2 DEF Maps
<1> QED BY <1>1, <1>3, ShownMoves DEF SystemInv, ShownInv

LEMMA AnswerShows ==
  ASSUME SystemInv, telemetry' = telemetry,
         UNCHANGED <<agents, queued, agentsRef, pending, inbox>>,
         NEW q \in Page!Requests, row' \in {row, [row EXCEPT ![q] = Page!Empty]},
         NEW a, NEW s, s = 0 \/ \E t \in telemetry : t.agent = a /\ t.seq = s,
         Page!Answered(q, a, s)
  PROVE  ShownInv'
<1> DEFINE g == Page!Put([b \in {a} |-> s], data[q])
<1>1. data' = [data EXCEPT ![q] = g]
  BY DEF Page!Answered, SystemInv, ShownInv
<1>2. HistoryIn(telemetry, data[q])
  BY DEF SystemInv, ShownInv, Maps
<1>3. HistoryIn(telemetry, g)
  <2>1. HistoryIn(telemetry, [b \in {a} |-> s])
    BY DEF HistoryIn
  <2> QED BY <1>2, <2>1, HistoryPut
<1> HIDE DEF g
<1> QED BY <1>1, <1>3, HistoryEmpty, RequestShows

\* get_current_state answers with what Redis or the table holds.
LEMMA LookupShows ==
  ASSUME SystemInv, NEW q \in Page!Requests, Lookup(q)
  PROVE  ShownInv'
<1>1. telemetry' = telemetry
  BY DEF Lookup, stateVars, fleetVars, vars, durable
<1>2. HistoryIn(telemetry, Page!Empty)
  BY HistoryEmpty
<1>3. CASE Page!List(q)
  BY <1>1, <1>2, <1>3, RequestShows DEF Page!List, Page!react
<1>4. ASSUME NEW a \in Agents, Page!ReadCache(q, a)
      PROVE  ShownInv'
  <2>1. redis[a] = 0 \/ \E t \in telemetry : t.agent = a /\ t.seq = redis[a]
    BY DurableUnfolded DEF SystemInv, FeedInv, StateInv, BatcherInv, IsStored
  <2>2. UNCHANGED <<agents, queued, agentsRef, pending, inbox, row>>
    BY <1>4 DEF Page!ReadCache, Page!react
  <2>3. CASE Page!Answered(q, a, redis[a])
    BY <1>1, <2>1, <2>2, <2>3, AnswerShows
  <2>4. CASE data' = data
    BY <1>1, <1>2, <2>2, <2>4, RequestShows
  <2> QED BY <1>4, <2>3, <2>4 DEF Page!ReadCache
<1>5. ASSUME NEW a \in Agents, NEW s \in FallbackStates(a), Page!ReadRow(q, a, s)
      PROVE  ShownInv'
  <2>1. s = 0 \/ \E t \in telemetry : t.agent = a /\ t.seq = s
    BY DEF FallbackStates, NewestRows, RowsOf
  <2>2. UNCHANGED <<agents, queued, agentsRef, pending, inbox>>
    BY <1>5 DEF Page!ReadRow, Page!react
  <2>3. CASE Page!Answered(q, a, 0) /\ row' = row
    BY <1>1, <2>2, <2>3, AnswerShows
  <2>4. CASE row' = [row EXCEPT ![q] = [b \in {a} |-> s]] /\ data' = data
    <3>1. HistoryIn(telemetry, [b \in {a} |-> s])
      BY <2>1, HistoryOf
    <3> QED BY <1>1, <1>2, <2>2, <2>4, <3>1, RequestShows
  <2> QED BY <1>5, <2>3, <2>4 DEF Page!ReadRow
<1> QED BY <1>3, <1>4, <1>5 DEF Lookup

LEMMA RebuildShows ==
  ASSUME SystemInv, NEW q \in Page!Requests, Rebuild(q)
  PROVE  ShownInv'
<1>1. PICK a \in Agents : Page!WriteBack(q, a)
  BY DEF Rebuild
<1>2. /\ telemetry' = telemetry
      /\ UNCHANGED <<agents, queued, agentsRef, pending, inbox>>
      /\ row' = [row EXCEPT ![q] = Page!Empty] /\ Page!Answered(q, a, row[q][a])
      /\ a \in DOMAIN row[q]
  BY <1>1 DEF Rebuild, durable, Page!WriteBack, Page!react
<1>3. row[q][a] = 0 \/ \E t \in telemetry : t.agent = a /\ t.seq = row[q][a]
  BY <1>2 DEF SystemInv, ShownInv, Maps, HistoryIn
<1> QED BY <1>2, <1>3, AnswerShows

\* The page only passes on what it has received or read.
LEMMA PageShows ==
  ASSUME SystemInv, PageMoves
  PROVE  ShownInv'
<1>1. telemetry' = telemetry
  BY DEF PageMoves, stateVars, fleetVars, vars, durable
<1>2. /\ inbox \in Seq(Page!Snapshots)
      /\ \A map \in Maps : HistoryIn(telemetry, map)
      /\ \A i \in 1 .. Len(inbox) : HistoryIn(telemetry, inbox[i])
      /\ DOMAIN data = Page!Requests /\ DOMAIN row = Page!Requests
  BY DEF SystemInv, ShownInv
<1>3. ASSUME UNCHANGED <<data, row>>,
             agents' \in {agents, queued}, agentsRef' \in {agentsRef, agents},
             queued' = queued \/ HistoryIn(telemetry', queued'), HistoryIn(telemetry', pending'),
             inbox' \in {inbox, <<>>} \/ (inbox # <<>> /\ inbox' = Tail(inbox))
      PROVE  ShownInv'
  <2>1. \A map \in Maps' : map \in Maps \/ HistoryIn(telemetry', map)
    BY <1>3 DEF Maps
  <2>2. /\ inbox' \in Seq(Page!Snapshots)
        /\ \A i \in 1 .. Len(inbox') : \E j \in 1 .. Len(inbox) : inbox'[i] = inbox[j]
    <3>1. CASE inbox' = inbox
      BY <1>2, <3>1
    <3>2. CASE inbox' = <<>>
      <4>1. Len(inbox') = 0
        BY <3>2
      <4> QED BY <3>2, <4>1
    <3>3. CASE inbox # <<>> /\ inbox' = Tail(inbox)
      <4>1. \A i \in 1 .. Len(inbox') : inbox'[i] = inbox[i + 1] /\ i + 1 \in 1 .. Len(inbox)
        BY <1>2, <3>3
      <4> QED BY <1>2, <3>3, <4>1
    <3> QED BY <1>3, <3>1, <3>2, <3>3
  <2>3. DOMAIN data' = Page!Requests /\ DOMAIN row' = Page!Requests
    BY <1>2, <1>3
  <2> QED BY <1>1, <2>1, <2>2, <2>3, ShownMoves DEF SystemInv
<1>4. {agents, queued, agentsRef} \ {NotLoaded} \subseteq Maps /\ pending \in Maps
  BY DEF Maps
<1>5. ASSUME NEW q \in Page!Requests, NEW outcome, Page!EndRequest(q, outcome),
             UNCHANGED <<agents, inbox, pending>>,
             queued' \in {queued, data[q]}, agentsRef' \in {agentsRef, data[q]}
      PROVE  ShownInv'
  <2>1. \A p \in Page!Requests : /\ row'[p] = row[p] \/ row'[p] = Page!Empty
                                 /\ data'[p] = data[p] \/ data'[p] = Page!Empty
    BY <1>2, <1>5 DEF Page!EndRequest
  <2>2. \A map \in Maps' : map \in Maps \/ map = Page!Empty
    BY <1>5, <2>1 DEF Maps
  <2>3. DOMAIN data' = Page!Requests /\ DOMAIN row' = Page!Requests
    BY <1>2, <1>5 DEF Page!EndRequest
  <2> QED BY <1>1, <1>2, <1>5, <2>2, <2>3, HistoryEmpty, ShownMoves DEF SystemInv
<1>6. ASSUME NEW q \in Page!Requests, Page!RequestFails(q) \/ Page!RequestHangs(q)
      PROVE  ShownInv'
  BY <1>5, <1>6 DEF Page!RequestFails, Page!RequestHangs, Page!react
<1>7. CASE Page!LoadDone \/ Page!ResyncDone
  BY <1>5, <1>7 DEF Page!LoadDone, Page!ResyncDone, Page!Requests
<1>8. CASE Page!Connect \/ Page!Join \/ Page!Drop
  <2>1. UNCHANGED <<agents, queued, agentsRef, pending, data, row>> /\ inbox' \in {inbox, <<>>}
    BY <1>8 DEF Page!Connect, Page!Join, Page!Drop, Page!StartResync, Page!react, Page!handler
  <2>2. HistoryIn(telemetry', pending')
    BY <1>1, <1>2, <1>4, <2>1
  <2> QED BY <1>3, <2>1, <2>2
<1>9. CASE Page!HandleBatch
  <2>1. /\ UNCHANGED <<agents, queued, agentsRef, data, row>>
        /\ inbox # <<>> /\ inbox' = Tail(inbox)
        /\ pending' \in {pending, Page!Put(Page!Known(Head(inbox)), pending)}
    BY <1>9 DEF Page!HandleBatch, Page!StartResync, Page!react, Page!handler
  <2>2. HistoryIn(telemetry, Head(inbox))
    BY <1>2, <2>1
  <2>3. HistoryIn(telemetry, Page!Known(Head(inbox)))
    BY <2>2 DEF HistoryIn, Page!Known
  <2>4. HistoryIn(telemetry', pending')
    BY <1>1, <1>2, <1>4, <2>1, <2>3, HistoryPut
  <2> QED BY <1>3, <2>1, <2>4
<1>10. CASE Page!Tick
  <2>1. /\ UNCHANGED <<agents, agentsRef, data, row, inbox>>
        /\ pending' = Page!Empty
        /\ queued' = IF queued = NotLoaded THEN queued ELSE Page!Merge(pending, queued)
    BY <1>10 DEF Page!Tick, Page!handler
  <2>2. queued # NotLoaded => HistoryIn(telemetry, Page!Merge(pending, queued))
    BY <1>2, <1>4 DEF HistoryIn, Page!Merge
  <2>3. queued' = queued \/ HistoryIn(telemetry', queued')
    BY <1>1, <2>1, <2>2
  <2>4. HistoryIn(telemetry', pending')
    BY <1>1, <2>1, HistoryEmpty
  <2> QED BY <1>3, <2>1, <2>3, <2>4
<1>11. CASE Page!Render \/ Page!AlignRef
  <2>1. /\ UNCHANGED <<queued, pending, data, row, inbox>>
        /\ agents' \in {agents, queued} /\ agentsRef' \in {agentsRef, agents}
    BY <1>11 DEF Page!Render, Page!AlignRef, Page!handler
  <2>2. HistoryIn(telemetry', pending')
    BY <1>1, <1>2, <1>4, <2>1
  <2> QED BY <1>3, <2>1, <2>2
<1> QED
  BY <1>6, <1>7, <1>8, <1>9, <1>10, <1>11
  DEF PageMoves, Page!NetworkStep, Page!BrowserStep

LEMMA InitSystem == SystemInit => SystemInv
<1> SUFFICES ASSUME SystemInit PROVE SystemInv
  OBVIOUS
<1>1. /\ {agents, queued, agentsRef} = {NotLoaded} /\ pending = Page!Empty
      /\ row = [q \in Page!Requests |-> Page!Empty]
      /\ data = [q \in Page!Requests |-> Page!Empty]
      /\ inbox = <<>> /\ Len(inbox) = 0
  BY DEF SystemInit, Page!Init, Page!NoRequest
<1>2. \A map \in Maps : map = Page!Empty
  BY <1>1 DEF Maps
<1>3. FeedInv
  BY InitFeed DEF SystemInit
<1> QED BY <1>1, <1>2, <1>3, HistoryEmpty DEF SystemInv, ShownInv

LEMMA SystemInvCorrect ==
  ASSUME "cleanup" \notin RegistryDisruptions
  PROVE  SystemSpec => []SystemInv
<1>1. SystemInv /\ [SystemNext]_systemVars => SystemInv'
  <2> SUFFICES ASSUME SystemInv, [SystemNext]_systemVars PROVE SystemInv'
    OBVIOUS
  <2>1. FeedInv'
    BY SystemKeepsFeed
  <2>2. CASE UNCHANGED systemVars
    <3>1. UNCHANGED <<agents, queued, agentsRef, pending, data, row, inbox, telemetry>>
      BY <2>2 DEF systemVars, page, client, stateVars, fleetVars, vars, durable
    <3> QED BY <2>1, <3>1 DEF SystemInv, ShownInv, Maps
  <2>3. ShownInv'
    BY <2>2, BackendShows, PageShows, LookupShows, RebuildShows DEF SystemNext, SystemInv
  <2> QED BY <2>1, <2>3 DEF SystemInv
<1> QED BY <1>1, InitSystem, PTL DEF SystemSpec

\* From the ingest path to the map, whatever fails in the flush, on the connection
\* or in a request, and whoever puts old rows back into Redis: every state the
\* page shows, is about to show, compares with or is reading is a reading that
\* Postgres holds.
THEOREM OnlyHistoryIsShownCorrect ==
  ASSUME "cleanup" \notin RegistryDisruptions
  PROVE  SystemSpec => []OnlyHistoryIsShown
<1>1. SystemInv => OnlyHistoryIsShown
  BY DEF SystemInv, ShownInv, Maps, HistoryIn, OnlyHistoryIsShown, IsHistory
<1> QED BY <1>1, SystemInvCorrect, PTL

-----------------------------------------------------------------------------
(* The page is the one of Dashboard *)

\* The same map, written as the flush does and as Dashboard does.
LEMMA PublishIsPut ==
  ASSUME TypeOK, Outgoing = LastStates
  PROVE  Publish(redis, batch, AgentsOf(batch))
           = Page!Put([a \in DOMAIN Outgoing |-> Outgoing[a]], redis)
<1>1. AgentsOf(batch) \subseteq Agents
  BY ReadingOfSequence DEF TypeOK, AgentsOf
<1>2. AgentsOf(batch) \cup DOMAIN redis = Agents
  BY <1>1 DEF TypeOK
<1> QED BY <1>2 DEF Publish, LastStates, Page!Put

\* Busy is what "piped" and "outgoing" say of it.
LEMMA OutgoingPage ==
  ASSUME FeedInv
  PROVE  /\ ~ Busy => Outgoing = Page!Empty
         /\ Busy => Outgoing = LastStates /\ Outgoing # Page!Empty
BY OutgoingNow DEF FeedInv, StateInv, BatcherInv, Feed!Empty, Page!Empty

\* The steps of LiveFeed, in Dashboard's names.
LEMMA PageFeed ==
  ASSUME "cleanup" \notin RegistryDisruptions, FeedInv, StateNext
  PROVE  \/ UNCHANGED Page!backend
         \/ \E a \in Agents : \/ Page!FeedRegister(a)
                              \/ \E state \in Page!Versions : Page!FeedWriteBack(a, state)
         \/ \E reporting \in SUBSET agentRows :
              \E states \in [reporting -> 1 .. MaxReadings] :
                Page!FeedStore(states) \/ Page!FeedStoreOnly(states)
         \/ \E written \in SUBSET DOMAIN Outgoing : Page!FeedCache(written)
         \/ Page!FeedLost
         \/ Page!FeedCold
<1>1. Feed!FeedNext \/ UNCHANGED Feed!backend
  BY StateFeed
<1>2. UNCHANGED Feed!backend => UNCHANGED Page!backend
  BY DEF Feed!backend, Page!backend
<1>3. \A a : Feed!FeedRegister(a) => Page!FeedRegister(a)
  BY DEF Feed!FeedRegister, Page!FeedRegister
<1>4. \A a, state : Feed!FeedWriteBack(a, state) => Page!FeedWriteBack(a, state)
  BY DEF Feed!FeedWriteBack, Page!FeedWriteBack
<1>5. \A states : /\ Feed!FeedStore(states) => Page!FeedStore(states)
                  /\ Feed!FeedStoreOnly(states) => Page!FeedStoreOnly(states)
  BY DEF Feed!FeedStore, Page!FeedStore, Feed!FeedStoreOnly, Page!FeedStoreOnly,
         Feed!Stores, Page!Stores, Feed!Empty, Page!Empty, Feed!Put, Page!Put
<1>6. \A written : Feed!FeedCache(written) => Page!FeedCache(written)
  BY DEF Feed!FeedCache, Page!FeedCache, Feed!Empty, Page!Empty, Feed!Put, Page!Put
<1>7. Feed!FeedTaken \/ Feed!FeedLost => Page!FeedLost
  BY DEF Feed!FeedTaken, Feed!FeedLost, Page!FeedLost, Feed!Empty, Page!Empty
<1>8. Feed!FeedCold => Page!FeedCold
  BY DEF Feed!FeedCold, Page!FeedCold, Feed!NoKeys, Page!NoKeys
<1> QED
  BY <1>1, <1>2, <1>3, <1>4, <1>5, <1>6, <1>7, <1>8
  DEF Feed!FeedNext, Feed!Versions, Page!Versions

\* The emit that reaches the clients is Dashboard's.
LEMMA ReceiveIsEmit ==
  ASSUME FeedInv, StateNext, broadcast' # broadcast, Receive
  PROVE  Page!Next
<1>1. /\ pc = "emit" /\ pc' = "sleep"
      /\ UNCHANGED <<agentRows, telemetry, redis>>
  BY BroadcastByEmit
<1>2. Outgoing = Payload /\ Outgoing # Page!Empty
  BY <1>1, OutgoingPage DEF Busy, LastStates, Payload
<1>3. Outgoing' = Page!Empty
  BY <1>1, OutgoingNext DEF Busy, Feed!Empty, Page!Empty
<1>4. NewestStates' = NewestStates
  BY <1>1, NewestStays
<1>5. (pc \in {"hung", "emit"}) = TRUE /\ (pc' \in {"hung", "emit"}) = FALSE
  BY <1>1
<1>6. Page!FeedTaken
  BY <1>1, <1>2, <1>3, <1>4, <1>5 DEF Page!FeedTaken
<1>7. Page!Emit
  BY <1>2, <1>6 DEF Receive, client, Page!Emit, Page!react, Page!handler
<1> QED BY <1>7 DEF Page!Next, Page!BackendStep

LEMMA PageStays ==
  ASSUME UNCHANGED page
  PROVE  UNCHANGED Page!page
BY DEF page, client, Page!page, Page!react, Page!handler

\* A step of the backend that disturbs nothing.
LEMMA CalmStep ==
  ASSUME "cleanup" \notin RegistryDisruptions, FeedInv, StateNext,
         \A kind \in BackendFaults : ~ Disturbs(kind), UNCHANGED page
  PROVE  [Page!Next]_(Page!vars)
<1>1. UNCHANGED Page!page
  BY PageStays
<1>2. /\ ~ Disturbs("emit") /\ ~ Disturbs("reply") /\ ~ Disturbs("redis")
      /\ ~ Disturbs("cold")
  BY DEF BackendFaults
<1>3. CASE UNCHANGED Page!backend
  BY <1>1, <1>3 DEF Page!vars
<1>4. ASSUME NEW a \in Agents, Page!FeedRegister(a) PROVE Page!Next
  BY <1>1, <1>4 DEF Page!Register, Page!Next, Page!BackendStep
<1>5. ASSUME NEW a \in Agents, NEW state \in Page!Versions, Page!FeedWriteBack(a, state)
      PROVE  Page!Next
  <2>1. Page!OtherWriteBack(a, state) /\ state \in 1 .. NewestStates[a]
    BY <1>1, <1>5 DEF Page!OtherWriteBack, Page!FeedWriteBack
  <2> QED BY <2>1 DEF Page!Next, Page!BackendStep
<1>6. ASSUME NEW reporting \in SUBSET agentRows,
             NEW states \in [reporting -> 1 .. MaxReadings], Page!FeedStore(states)
      PROVE  Page!Next
  BY <1>1, <1>6 DEF Page!Report, Page!Next, Page!BackendStep
<1>7. ASSUME NEW states, Page!FeedStoreOnly(states)
      PROVE  UNCHANGED Page!backend
  <2>1. Outgoing' = Page!Empty /\ telemetry' = telemetry
    BY <1>2, <1>7 DEF Page!FeedStoreOnly, Disturbs
  <2>2. NewestStates' = NewestStates
    BY <2>1, NewestStays
  <2> QED BY <1>7, <2>2 DEF Page!FeedStoreOnly, Page!Stores, Page!backend
<1>8. ASSUME NEW written \in SUBSET DOMAIN Outgoing, Page!FeedCache(written)
      PROVE  Page!Next
  <2>1. Outgoing # Page!Empty /\ pc \notin {"hung", "emit"} /\ pc' \in {"hung", "emit"}
    BY <1>8 DEF Page!FeedCache
  <2>2. pc = "redis" /\ Outgoing = LastStates
    BY <2>1, OutgoingPage DEF Busy
  <2>3. redis' = Publish(redis, batch, AgentsOf(batch))
    BY <1>2, <2>1, <2>2 DEF Disturbs
  <2>4. redis' = Page!Put([a \in DOMAIN Outgoing |-> Outgoing[a]], redis)
    BY <2>2, <2>3, PublishIsPut DEF FeedInv, StateInv, BatcherInv
  <2>5. Page!FeedCache(DOMAIN Outgoing)
    BY <1>8, <2>4 DEF Page!FeedCache
  <2>6. Page!Cache(DOMAIN Outgoing)
    BY <1>1, <2>5 DEF Page!Cache, Page!page
  <2> QED BY <2>6 DEF Page!Next, Page!BackendStep
<1>9. ~ Page!FeedLost
  BY <1>2 DEF Disturbs, Page!FeedLost
<1>10. ASSUME Page!FeedCold
       PROVE  UNCHANGED Page!backend
  <2>1. redis' = redis
    BY <1>2, <1>10 DEF Disturbs, Page!FeedCold, Page!NoKeys, NoKeys
  <2> QED BY <1>10, <2>1 DEF Page!FeedCold, Page!backend
<1> QED
  BY <1>3, <1>4, <1>5, <1>6, <1>7, <1>8, <1>9, <1>10, PageFeed

-----------------------------------------------------------------------------
(* What disturbs the page *)

\* Only a commit adds rows, and it moves the newest states on.
LEMMA RowsMoveNewest ==
  ASSUME "cleanup" \notin RegistryDisruptions, FeedInv, StateNext, telemetry' # telemetry
  PROVE  NewestStates' # NewestStates
<1>1. [Next]_vars
  <2>1. ~ CacheOnly
    BY DEF CacheOnly, durable
  <2> QED BY <2>1, StateSteps, FleetStepUnderReaders DEF FeedInv, StateInv
<1>2. CommitEffect
  BY <1>1
  DEF Next, vars, durable, Start, Ingest, Flush, Drain, Evaluate, Commit, CommitReplyLost,
      SqlFails, ConnectFails, SqlHangs, WriteRedis, RedisHangs, Emit, Stop, Crash
<1>3. batch # <<>> /\ batch \in Seq(Reading)
  BY <1>2 DEF CommitEffect, FeedInv, Loaded, StateInv, BatcherInv, TypeOK
<1>4. batch[1].agent \in AgentsOf(batch)
  BY <1>3 DEF AgentsOf
<1> DEFINE a == batch[1].agent
<1>5. /\ a \in Agents /\ LastOf(batch, a) > NewestStates[a]
      /\ LastOf(batch, a) \in 1 .. accepted
      /\ NewestStates' = Feed!Put(LastStates, NewestStates)
  BY <1>2, <1>4, CommitNewest DEF FeedInv, StateInv, BatcherInv
<1>6. NewestStates[a] \in 0 .. accepted /\ accepted \in Nat
  BY <1>5, NewestKnown DEF FeedInv, StateInv, BatcherInv, TypeOK
<1>7. NewestStates'[a] = LastOf(batch, a)
  BY <1>4, <1>5 DEF Feed!Put, LastStates
<1> QED BY <1>5, <1>6, <1>7

\* The pipeline writes readings.
LEMMA CachesReadings ==
  ASSUME FeedInv, NEW a \in DOMAIN Outgoing
  PROVE  Outgoing[a] # 0 /\ a \in Agents
<1>1. batch \in Seq(Reading) /\ a \in AgentsOf(batch)
  BY DEF Outgoing, FeedInv, StateInv, BatcherInv, TypeOK
<1>2. PICK i \in DOMAIN batch : batch[i].agent = a /\ LastOf(batch, a) = batch[i].seq
  BY <1>1, LastOfIsThere
<1>3. batch[i].seq \in Seqs /\ a \in Agents
  BY <1>1, <1>2, ReadingOfSequence
<1> QED BY <1>2, <1>3 DEF Outgoing, Seqs

\* A fault of the page is the step of LiveFeed that its name says.
LEMMA FaultyStep ==
  ASSUME "cleanup" \notin RegistryDisruptions, FeedInv, StateNext,
         NEW kind \in BackendFaults, Disturbs(kind), Page!Fault(kind),
         UNCHANGED <<client, inbox>>
  PROVE  Page!Next
<1>1. UNCHANGED <<link, inbox, Page!react, agentsRef, pending, get, Page!handler, error>>
  BY DEF client, Page!react, Page!handler
<1>2. CASE kind = "emit"
  <2>1. Outgoing # Page!Empty /\ Outgoing' = Page!Empty
    BY <1>2 DEF Disturbs
  <2>2. Page!FeedLost
    BY <2>1, PageFeed
    DEF Page!backend, Page!FeedRegister, Page!FeedWriteBack, Page!FeedStore,
        Page!FeedStoreOnly, Page!FeedCache, Page!FeedCold
  <2>3. Page!EmitFails
    BY <1>1, <1>2, <2>2 DEF Page!EmitFails
  <2> QED BY <2>3 DEF Page!Next, Page!BackendStep
<1>3. CASE kind = "reply"
  <2>1. telemetry' # telemetry /\ Outgoing' = Page!Empty
    BY <1>3 DEF Disturbs
  <2>2. NewestStates' # NewestStates
    BY <2>1, RowsMoveNewest
  <2>3. PICK reporting \in SUBSET agentRows :
          \E states \in [reporting -> 1 .. MaxReadings] : Page!FeedStoreOnly(states)
    BY <2>1, <2>2, PageFeed
    DEF Page!backend, Page!FeedRegister, Page!FeedWriteBack, Page!FeedStore, Page!Stores,
        Page!FeedCache, Page!FeedLost, Page!FeedCold
  <2>4. \E states \in [reporting -> 1 .. MaxReadings] : Page!ReportUnanswered(states)
    BY <1>1, <1>3, <2>3 DEF Page!ReportUnanswered
  <2> QED BY <2>4 DEF Page!Next, Page!BackendStep
<1>4. CASE kind = "redis"
  <2>1. ~ (pc \in {"hung", "emit"}) /\ pc' \in {"hung", "emit"}
    BY <1>4 DEF Disturbs
  <2>2. PICK written \in SUBSET DOMAIN Outgoing : Page!FeedCache(written)
    BY <2>1, PageFeed
    DEF Page!backend, Page!FeedRegister, Page!FeedWriteBack, Page!FeedStore, Page!Stores,
        Page!FeedStoreOnly, Page!FeedLost, Page!FeedCold
  <2>3. Page!Cache(written)
    BY <1>1, <1>4, <2>2 DEF Page!Cache
  <2> QED BY <2>3 DEF Page!Next, Page!BackendStep
<1>5. CASE kind = "cold"
  <2>1. redis # NoKeys /\ redis' = NoKeys /\ redis \in [Agents -> Nat]
    BY <1>5 DEF Disturbs, FeedInv, StateInv, BatcherInv, TypeOK
  <2>2. ASSUME NEW a \in Agents, NEW state, Page!FeedWriteBack(a, state)
        PROVE  FALSE
    <3>1. redis'[a] = state /\ state # 0
      BY <2>1, <2>2 DEF Page!FeedWriteBack
    <3> QED BY <2>1, <3>1 DEF NoKeys
  <2>3. ASSUME NEW written \in SUBSET DOMAIN Outgoing, Page!FeedCache(written)
        PROVE  FALSE
    <3>1. redis' = Page!Put([a \in written |-> Outgoing[a]], redis)
      BY <2>3 DEF Page!FeedCache
    <3>2. CASE written = {}
      <4>1. Page!Put([a \in written |-> Outgoing[a]], redis) = redis
        BY <2>1, <3>2 DEF Page!Put
      <4> QED BY <2>1, <3>1, <4>1
    <3>3. CASE written # {}
      <4>1. PICK a \in written : TRUE
        BY <3>3
      <4>2. redis'[a] = Outgoing[a]
        BY <3>1, <4>1 DEF Page!Put
      <4> QED BY <2>1, <4>1, <4>2, CachesReadings DEF NoKeys
    <3> QED BY <3>2, <3>3
  <2>4. Page!FeedCold
    BY <2>1, <2>2, <2>3, PageFeed
    DEF Page!backend, Page!FeedRegister, Page!FeedStore, Page!Stores, Page!FeedStoreOnly,
        Page!FeedLost
  <2>5. Page!ColdRedis
    BY <1>1, <1>5, <2>4 DEF Page!ColdRedis
  <2> QED BY <2>5 DEF Page!Next, Page!BackendStep
<1> QED BY <1>2, <1>3, <1>4, <1>5 DEF BackendFaults

\* Over the whole backend - failing windows, shutdowns, crashes, a Redis that
\* forgets, and every request's fallback and write-back - the page is the one of
\* Dashboard; so its updates stay in order, it never runs ahead of what Postgres
\* holds, and the live path keeps it in sync.
THEOREM ImplementsDashboardCorrect ==
  ASSUME "cleanup" \notin RegistryDisruptions
  PROVE  SystemSpec => ImplementsDashboard
<1>1. SystemInit => Page!Init
  BY DEF SystemInit
<1>2. SystemInv /\ [SystemNext]_systemVars => [Page!Next]_(Page!vars)
  <2> SUFFICES ASSUME SystemInv, [SystemNext]_systemVars
               PROVE  [Page!Next]_(Page!vars)
    OBVIOUS
  <2>1. CASE BackendMoves
    BY <2>1, ReceiveIsEmit, FaultyStep, CalmStep DEF BackendMoves, SystemInv
  <2>2. CASE PageMoves
    BY <2>2 DEF PageMoves, Page!Next
  <2>3. ASSUME NEW q \in Page!Requests, Lookup(q) \/ Rebuild(q)
        PROVE  Page!Next
    <3>1. Page!HandlerStep(q)
      BY <2>3 DEF Lookup, Rebuild, Page!HandlerStep, Page!ReadRow
    <3> QED BY <3>1 DEF Page!Next
  <2>4. CASE UNCHANGED systemVars
    <3>1. UNCHANGED <<agentRows, telemetry, redis, pc, batch, page>>
      BY <2>4 DEF systemVars, stateVars, fleetVars, vars, volatile, durable, outputs,
                  registryVars
    <3>2. Outgoing' = Outgoing /\ NewestStates' = NewestStates
      BY <3>1, NewestStays DEF Outgoing
    <3>3. (pc' \in {"hung", "emit"}) = (pc \in {"hung", "emit"})
      BY <3>1
    <3>4. UNCHANGED Page!page
      BY <3>1, PageStays
    <3> QED BY <3>1, <3>2, <3>3, <3>4 DEF Page!vars, Page!backend
  <2> QED BY <2>1, <2>2, <2>3, <2>4 DEF SystemNext
<1> QED
  BY <1>1, <1>2, SystemInvCorrect, PTL DEF SystemSpec, ImplementsDashboard, Page!Spec
=============================================================================
