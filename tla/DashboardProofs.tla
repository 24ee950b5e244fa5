--------------------------- MODULE DashboardProofs ---------------------------
(***************************************************************************)
(* Theorems about Dashboard: types, the order of the updates, that the     *)
(* page stays behind the database, and that the live path - batches,       *)
(* pending map, tick, render, effect - loses none of them.                 *)
(***************************************************************************)
EXTENDS Dashboard, TLAPS

-----------------------------------------------------------------------------
(* Maps from some agents to versions *)

LEMMA SnapshotIntro ==
  ASSUME NEW f, NEW known \in SUBSET Agents, f \in [known -> Versions]
  PROVE  f \in Snapshots
BY DEF Snapshots

LEMMA SnapshotElim ==
  ASSUME NEW f \in Snapshots
  PROVE  DOMAIN f \in SUBSET Agents /\ f \in [DOMAIN f -> Versions]
BY DEF Snapshots

LEMMA EmptyIsSnapshot == Empty \in Snapshots /\ DOMAIN Empty = {}
<1>1. Empty \in [{} -> Versions]
  BY DEF Empty
<1> QED BY <1>1, SnapshotIntro

LEMMA PutIsSnapshot ==
  ASSUME NEW f \in Snapshots, NEW g \in Snapshots
  PROVE  Put(f, g) \in Snapshots
<1>1. DOMAIN f \cup DOMAIN g \in SUBSET Agents
  BY SnapshotElim
<1>2. \A a \in DOMAIN f : f[a] \in Versions
  BY SnapshotElim
<1>3. \A a \in DOMAIN g : g[a] \in Versions
  BY SnapshotElim
<1>4. Put(f, g) \in [DOMAIN f \cup DOMAIN g -> Versions]
  BY <1>2, <1>3 DEF Put
<1> QED BY <1>1, <1>4, SnapshotIntro

LEMMA MergeIsSnapshot ==
  ASSUME NEW f \in Snapshots, NEW g \in Snapshots
  PROVE  Merge(f, g) \in Snapshots
<1>1. DOMAIN g \in SUBSET Agents
  BY SnapshotElim
<1>2. \A a \in DOMAIN f : f[a] \in Versions
  BY SnapshotElim
<1>3. \A a \in DOMAIN g : g[a] \in Versions
  BY SnapshotElim
<1>4. Merge(f, g) \in [DOMAIN g -> Versions]
  BY <1>2, <1>3 DEF Merge
<1> QED BY <1>1, <1>4, SnapshotIntro

LEMMA KnownIsSnapshot ==
  ASSUME NEW f \in Snapshots
  PROVE  Known(f) \in Snapshots
<1>1. DOMAIN f \cap DOMAIN agentsRef \in SUBSET Agents
  BY SnapshotElim
<1>2. \A a \in DOMAIN f : f[a] \in Versions
  BY SnapshotElim
<1>3. Known(f) \in [DOMAIN f \cap DOMAIN agentsRef -> Versions]
  BY <1>2 DEF Known
<1> QED BY <1>1, <1>3, SnapshotIntro

LEMMA SingleIsSnapshot ==
  ASSUME NEW a \in Agents, NEW state \in Versions
  PROVE  [b \in {a} |-> state] \in Snapshots
<1>1. [b \in {a} |-> state] \in [{a} -> Versions]
  OBVIOUS
<1> QED BY <1>1, SnapshotIntro

LEMMA NewestStates ==
  ASSUME newest \in [Agents -> Versions], NEW a \in Agents
  PROVE  /\ newest[a] \in Nat
         /\ 1 .. newest[a] \subseteq Versions /\ RowStates(a) \subseteq Versions
         /\ \A state \in RowStates(a) : state <= newest[a]
BY DashboardAssumption DEF RowStates, Versions

\* A stored window only raises newest, and carries the raised states.
LEMMA StoresStep ==
  ASSUME fleet \subseteq Agents, newest \in [Agents -> Versions],
         NEW reporting \in SUBSET fleet, NEW states \in [reporting -> 1 .. MaxVersion],
         Stores(states)
  PROVE  /\ newest' \in [Agents -> Versions] /\ states \in Snapshots
         /\ \A a \in Agents : newest'[a] \in Nat
         /\ \A a \in reporting : newest'[a] = states[a] /\ newest'[a] <= states[a]
         /\ \A a \in Agents \ reporting : newest'[a] = newest[a]
         /\ \A a \in Agents : newest[a] <= newest'[a]
<1>1. /\ \A a \in reporting : states[a] > newest[a] \/ states[a] = MaxVersion
      /\ newest' = Put(states, newest) /\ DOMAIN states = reporting
  BY DEF Stores
<1>2. reporting \cup Agents = Agents
  OBVIOUS
<1>3. newest' = [a \in Agents |-> IF a \in reporting THEN states[a] ELSE newest[a]]
  BY <1>1, <1>2 DEF Put
<1>4. \A a \in reporting : states[a] \in Versions
  BY DashboardAssumption DEF Versions
<1>5. newest' \in [Agents -> Versions]
  BY <1>3, <1>4
<1>6. \A a \in Agents : newest[a] <= newest'[a]
  BY <1>1, <1>3, DashboardAssumption DEF Versions
<1>7. states \in Snapshots
  <2>1. states \in [reporting -> Versions]
    BY <1>4
  <2> QED BY <2>1, SnapshotIntro
<1>8. \A a \in Agents : newest'[a] \in Nat
  BY <1>5, DashboardAssumption DEF Versions
<1>9. \A a \in reporting : newest'[a] = states[a] /\ newest'[a] <= states[a]
  BY <1>3, <1>8
<1> QED BY <1>3, <1>5, <1>6, <1>7, <1>8, <1>9

LEMMA CacheStep ==
  ASSUME outgoing \in Snapshots, cached \in [Agents -> Versions],
         NEW written \in SUBSET DOMAIN outgoing, FeedCache(written)
  PROVE  /\ cached' \in [Agents -> Versions]
         /\ \A a \in Agents : cached'[a] = IF a \in written THEN outgoing[a] ELSE cached[a]
<1>1. DOMAIN outgoing \subseteq Agents /\ \A a \in written : outgoing[a] \in Versions
  BY SnapshotElim
<1>2. written \cup Agents = Agents
  BY <1>1
<1>3. cached' = [a \in Agents |-> IF a \in written THEN outgoing[a] ELSE cached[a]]
  BY <1>2 DEF FeedCache, Put
<1> QED BY <1>1, <1>3

LEMMA AnsweredIsSnapshots ==
  ASSUME DashTypeOK, NEW q \in Requests, NEW a \in Agents, NEW state \in Versions,
         Answered(q, a, state)
  PROVE  data' \in [Requests -> Snapshots]
<1>1. Put([b \in {a} |-> state], data[q]) \in Snapshots
  BY SingleIsSnapshot, PutIsSnapshot DEF DashTypeOK
<1> QED BY <1>1 DEF Answered, DashTypeOK

-----------------------------------------------------------------------------
(* Types *)

LEMMA InitDashType == Init => DashTypeOK
<1> SUFFICES ASSUME Init PROVE DashTypeOK
  OBVIOUS
<1> USE DEF Init
<1>1. /\ fleet \in SUBSET Agents /\ piped \in BOOLEAN
      /\ newest \in [Agents -> Versions] /\ cached \in [Agents -> Versions]
  <2>1. 0 \in Versions
    BY DashboardAssumption DEF Versions
  <2> QED BY <2>1 DEF FeedInit, NoKeys
<1>2. {outgoing, pending} \subseteq Snapshots
  BY EmptyIsSnapshot DEF FeedInit
<1>3. inbox \in Seq(Snapshots) /\ faults \in 0 .. MaxFaults
  BY DashboardAssumption
<1>4. /\ get \in [Requests -> {"no", "asked", "reading", "silent"}]
      /\ left \in [Requests -> SUBSET Agents] /\ missed \in [Requests -> SUBSET Agents]
      /\ row \in [Requests -> Snapshots] /\ data \in [Requests -> Snapshots]
  BY EmptyIsSnapshot DEF NoRequest
<1> QED BY <1>1, <1>2, <1>3, <1>4 DEF DashTypeOK

\* A page that has loaded is one that may come about.
LEMMA LoadedDashType == LoadedInit => DashTypeOK
<1> SUFFICES ASSUME LoadedInit PROVE DashTypeOK
  OBVIOUS
<1> USE DEF LoadedInit
<1>1. Snapshot \in Snapshots
  <2>1. Snapshot \in [fleet -> Versions]
    BY DEF Snapshot
  <2> QED BY <2>1, SnapshotIntro
<1>2. {outgoing, pending} \subseteq Snapshots
  BY EmptyIsSnapshot
<1>3. inbox \in Seq(Snapshots) /\ faults \in 0 .. MaxFaults
  BY DashboardAssumption
<1>4. /\ get \in [Requests -> {"no", "asked", "reading", "silent"}]
      /\ left \in [Requests -> SUBSET Agents] /\ missed \in [Requests -> SUBSET Agents]
      /\ row \in [Requests -> Snapshots] /\ data \in [Requests -> Snapshots]
  BY EmptyIsSnapshot DEF NoRequest
<1> QED BY <1>1, <1>2, <1>3, <1>4 DEF DashTypeOK

LEMMA BackendDashType == DashTypeOK /\ BackendStep => DashTypeOK'
<1> SUFFICES ASSUME DashTypeOK, BackendStep PROVE DashTypeOK'
  OBVIOUS
<1> USE DEF DashTypeOK
<1>f. ASSUME NEW kind, Fault(kind) PROVE faults' \in 0 .. MaxFaults
  BY <1>f, DashboardAssumption DEF Fault
<1>1. ASSUME NEW a \in Agents, Register(a) PROVE DashTypeOK'
  BY <1>1 DEF Register, FeedRegister, page, react, handler
<1>2. ASSUME NEW a \in Agents, NEW state \in 1 .. newest[a], OtherWriteBack(a, state)
      PROVE  DashTypeOK'
  BY <1>2, NewestStates DEF OtherWriteBack, FeedWriteBack, page, react, handler
<1>3. ASSUME NEW reporting \in SUBSET fleet, NEW states \in [reporting -> 1 .. MaxVersion],
             Report(states)
      PROVE  DashTypeOK'
  <2>1. newest' \in [Agents -> Versions] /\ states \in Snapshots
    BY <1>3, StoresStep DEF Report, FeedStore
  <2> QED BY <1>3, <2>1 DEF Report, FeedStore, Stores, page, react, handler
<1>4. ASSUME NEW reporting \in SUBSET fleet, NEW states \in [reporting -> 1 .. MaxVersion],
             ReportUnanswered(states)
      PROVE  DashTypeOK'
  <2>1. newest' \in [Agents -> Versions]
    BY <1>4, StoresStep DEF ReportUnanswered, FeedStoreOnly
  <2> QED BY <1>4, <1>f, <2>1
      DEF ReportUnanswered, FeedStoreOnly, Stores, react, handler
<1>5. ASSUME NEW written \in SUBSET DOMAIN outgoing, Cache(written) PROVE DashTypeOK'
  <2>1. cached' \in [Agents -> Versions]
    BY <1>5, CacheStep DEF Cache
  <2>2. faults' \in 0 .. MaxFaults
    BY <1>5, <1>f DEF Cache
  <2> QED BY <1>5, <2>1, <2>2 DEF Cache, FeedCache, react, handler
<1>6. CASE Emit
  <2>1. inbox' \in Seq(Snapshots)
    BY <1>6 DEF Emit
  <2> QED BY <1>6, <2>1, EmptyIsSnapshot DEF Emit, FeedTaken, react, handler
<1>7. CASE EmitFails
  BY <1>7, <1>f, EmptyIsSnapshot DEF EmitFails, FeedLost, react, handler
<1>8. CASE ColdRedis
  BY <1>8, <1>f, DashboardAssumption DEF ColdRedis, FeedCold, NoKeys, Versions, react, handler
<1> QED
  BY <1>1, <1>2, <1>3, <1>4, <1>5, <1>6, <1>7, <1>8 DEF BackendStep

LEMMA HandlerDashType ==
  ASSUME DashTypeOK, NEW q \in Requests, HandlerStep(q)
  PROVE  DashTypeOK'
<1> USE DEF DashTypeOK
<1>1. CASE List(q)
  BY <1>1 DEF List, backend, react
<1>2. ASSUME NEW a \in Agents, ReadCache(q, a) PROVE DashTypeOK'
  <2>1. data' \in [Requests -> Snapshots]
    BY <1>2, AnsweredIsSnapshots DEF ReadCache
  <2> QED BY <1>2, <2>1 DEF ReadCache, backend, react
<1>3. ASSUME NEW a \in Agents, NEW state \in RowStates(a), ReadRow(q, a, state)
      PROVE  DashTypeOK'
  <2>1. state \in Versions
    BY NewestStates
  <2>2. data' \in [Requests -> Snapshots]
    BY <1>3, <2>1, AnsweredIsSnapshots DEF ReadRow
  <2>3. row' \in [Requests -> Snapshots]
    BY <1>3, <2>1, SingleIsSnapshot DEF ReadRow
  <2> QED BY <1>3, <2>2, <2>3 DEF ReadRow, backend, react
<1>4. ASSUME NEW a \in Agents, WriteBack(q, a) PROVE DashTypeOK'
  <2>1. row[q][a] \in Versions
    BY <1>4, SnapshotElim DEF WriteBack
  <2>2. data' \in [Requests -> Snapshots] /\ row' \in [Requests -> Snapshots]
    BY <1>4, <2>1, AnsweredIsSnapshots, EmptyIsSnapshot DEF WriteBack
  <2>3. cached' \in [Agents -> Versions] /\ faults' \in 0 .. MaxFaults
    BY <1>4, <2>1, DashboardAssumption DEF WriteBack, FeedWriteBack, Fault, backend
  <2>4. UNCHANGED <<fleet, newest, outgoing, piped>>
    BY <1>4 DEF WriteBack, FeedWriteBack, backend
  <2> QED BY <1>4, <2>2, <2>3, <2>4 DEF WriteBack, react
<1> QED BY <1>1, <1>2, <1>3, <1>4 DEF HandlerStep

\* The end of a request leaves nothing of it behind.
LEMMA EndedDashType ==
  ASSUME DashTypeOK, NEW q \in Requests, NEW outcome \in {"no", "silent"},
         EndRequest(q, outcome)
  PROVE  /\ get' \in [Requests -> {"no", "asked", "reading", "silent"}]
         /\ left' \in [Requests -> SUBSET Agents] /\ missed' \in [Requests -> SUBSET Agents]
         /\ row' \in [Requests -> Snapshots] /\ data' \in [Requests -> Snapshots]
BY EmptyIsSnapshot DEF EndRequest, DashTypeOK

LEMMA NetworkDashType == DashTypeOK /\ NetworkStep => DashTypeOK'
<1> SUFFICES ASSUME DashTypeOK, NetworkStep PROVE DashTypeOK'
  OBVIOUS
<1>f. ASSUME NEW kind, Fault(kind) PROVE faults' \in 0 .. MaxFaults
  BY <1>f, DashboardAssumption DEF Fault, DashTypeOK
<1>1. ASSUME NEW q \in Requests, RequestFails(q) PROVE DashTypeOK'
  BY <1>1, <1>f, EndedDashType DEF RequestFails, DashTypeOK, backend, react
<1>2. ASSUME NEW q \in Requests, RequestHangs(q) PROVE DashTypeOK'
  BY <1>2, <1>f, EndedDashType DEF RequestHangs, DashTypeOK, backend, react
<1>3. CASE Connect
  BY <1>3 DEF Connect, StartResync, DashTypeOK, Requests, backend, react, handler
<1>4. CASE Join
  BY <1>4 DEF Join, DashTypeOK, backend, react, handler
<1>5. CASE Drop
  BY <1>5, <1>f DEF Drop, DashTypeOK, backend, react, handler
<1> QED BY <1>1, <1>2, <1>3, <1>4, <1>5 DEF NetworkStep

LEMMA BrowserDashType == DashTypeOK /\ (BrowserStep \/ AlignRef) => DashTypeOK'
<1> SUFFICES ASSUME DashTypeOK, BrowserStep \/ AlignRef PROVE DashTypeOK'
  OBVIOUS
<1> USE DEF DashTypeOK
<1>r. "load" \in Requests /\ "resync" \in Requests
  BY DEF Requests
<1>1. CASE LoadDone
  BY <1>1, <1>r, EndedDashType DEF LoadDone, backend
<1>2. CASE ResyncDone
  BY <1>2, <1>r, EndedDashType DEF ResyncDone, backend
<1>3. CASE HandleBatch
  <2>1. Head(inbox) \in Snapshots /\ inbox' \in Seq(Snapshots)
    BY <1>3 DEF HandleBatch
  <2>2. pending' \in Snapshots
    BY <1>3, <2>1, KnownIsSnapshot, PutIsSnapshot DEF HandleBatch
  <2>3. get' \in [Requests -> {"no", "asked", "reading", "silent"}] /\ UNCHANGED handler
    BY <1>3, <1>r DEF HandleBatch, StartResync
  <2> QED BY <1>3, <2>1, <2>2, <2>3 DEF HandleBatch, backend, react, handler
<1>4. CASE Tick
  BY <1>4, EmptyIsSnapshot, MergeIsSnapshot DEF Tick, backend, handler
<1>5. CASE Render
  BY <1>5 DEF Render, backend, handler
<1>6. CASE AlignRef
  BY <1>6 DEF AlignRef, backend, handler
<1> QED BY <1>1, <1>2, <1>3, <1>4, <1>5, <1>6 DEF BrowserStep

LEMMA NextDashType == DashTypeOK /\ [Next]_vars => DashTypeOK'
<1> SUFFICES ASSUME DashTypeOK, [Next]_vars PROVE DashTypeOK'
  OBVIOUS
<1>1. CASE UNCHANGED vars
  BY <1>1 DEF vars, page, backend, react, handler, DashTypeOK
<1> QED BY <1>1, BackendDashType, HandlerDashType, NetworkDashType, BrowserDashType DEF Next

\* Every variable keeps its type, for any number of agents, versions and faults.
THEOREM DashTypeCorrect ==
  (Spec => []DashTypeOK) /\ (LoadedSpec => []DashTypeOK)
BY InitDashType, LoadedDashType, NextDashType, PTL DEF Spec, LoadedSpec

-----------------------------------------------------------------------------
(* The order of the updates *)

LEMMA EmptyNotNewer ==
  ASSUME NEW f
  PROVE  NotNewer(Empty, f) /\ NotNewer(f, Empty)
BY EmptyIsSnapshot DEF NotNewer

\* Both maps of a Put lie below g, so the result does.
LEMMA PutNotNewer ==
  ASSUME NEW f, NEW h, NEW g, NotNewer(f, g), NotNewer(h, g)
  PROVE  NotNewer(Put(f, h), g)
BY DEF NotNewer, Put

LEMMA KnownNotNewer ==
  ASSUME NEW f, NEW g, NotNewer(f, g)
  PROVE  NotNewer(Known(f), g)
BY DEF NotNewer, Known

LEMMA StoresAdvance ==
  ASSUME DashTypeOK, NEW reporting \in SUBSET fleet,
         NEW states \in [reporting -> 1 .. MaxVersion], Stores(states),
         NEW f \in Snapshots, NotNewer(f, newest)
  PROVE  NotNewer(f, newest') /\ NotNewer(f, states)
<1>1. /\ \A a \in Agents : newest'[a] \in Nat /\ newest[a] <= newest'[a]
      /\ DOMAIN states = reporting /\ \A a \in reporting : states[a] = newest'[a]
  <2>1. fleet \subseteq Agents /\ newest \in [Agents -> Versions]
    BY DEF DashTypeOK
  <2> QED BY <2>1, StoresStep
<1>2. \A a \in DOMAIN f : a \in Agents /\ f[a] \in Nat
  BY SnapshotElim, DashboardAssumption DEF Versions
<1>3. DOMAIN newest = Agents /\ \A a \in Agents : newest[a] \in Nat
  BY DashboardAssumption DEF DashTypeOK, Versions
<1>4. \A a \in DOMAIN f : f[a] <= newest'[a]
  BY <1>1, <1>2, <1>3 DEF NotNewer
<1> QED BY <1>1, <1>4 DEF NotNewer

LEMMA InitOrder == Init \/ LoadedInit => UpdatesInOrder
<1> SUFFICES ASSUME Init \/ LoadedInit PROVE UpdatesInOrder
  OBVIOUS
<1>1. outgoing = Empty /\ pending = Empty /\ Len(inbox) = 0
  BY DEF Init, FeedInit, LoadedInit
<1> QED BY <1>1, EmptyNotNewer DEF UpdatesInOrder

\* A window that is stored, and published later or never.
LEMMA StoresKeepsOrder ==
  ASSUME DashTypeOK, UpdatesInOrder, NEW reporting \in SUBSET fleet,
         NEW states \in [reporting -> 1 .. MaxVersion], Stores(states),
         outgoing' \in {states, Empty}, UNCHANGED <<inbox, pending>>
  PROVE  UpdatesInOrder'
<1>1. \A i \in 1 .. Len(inbox) : inbox[i] \in Snapshots
  BY DEF DashTypeOK
<1>2. NotNewer(states, newest')
  <2>1. \A a \in reporting : newest'[a] = states[a] /\ newest'[a] \in Nat
    <3>1. fleet \subseteq Agents /\ newest \in [Agents -> Versions]
      BY DEF DashTypeOK
    <3> QED BY <3>1, StoresStep
  <2> QED BY <2>1 DEF NotNewer
<1>3. NotNewer(outgoing', newest')
  BY <1>2, EmptyNotNewer
<1>4. ASSUME NEW f \in Snapshots, NotNewer(f, newest)
      PROVE  NotNewer(f, newest') /\ NotNewer(f, outgoing')
  BY <1>4, StoresAdvance, EmptyNotNewer
<1>5. \A i \in 1 .. Len(inbox) : NotNewer(inbox[i], newest') /\ NotNewer(inbox[i], outgoing')
  BY <1>1, <1>4 DEF UpdatesInOrder
<1>6. NotNewer(pending, newest') /\ NotNewer(pending, outgoing')
  BY <1>4 DEF UpdatesInOrder, DashTypeOK
<1> QED BY <1>3, <1>5, <1>6 DEF UpdatesInOrder

LEMMA EmitKeepsOrder == DashTypeOK /\ UpdatesInOrder /\ Emit => UpdatesInOrder'
<1> SUFFICES ASSUME DashTypeOK, UpdatesInOrder, Emit PROVE UpdatesInOrder'
  OBVIOUS
<1>1. outgoing' = Empty /\ newest' = newest /\ pending' = pending
  BY DEF Emit, FeedTaken
<1>2. CASE link # "joined"
  BY <1>1, <1>2, EmptyNotNewer DEF UpdatesInOrder, Emit
<1>3. CASE link = "joined"
  <2>1. inbox' = Append(inbox, outgoing) /\ inbox \in Seq(Snapshots)
    BY <1>3 DEF Emit, DashTypeOK
  <2>2. /\ Len(inbox') = Len(inbox) + 1 /\ Len(inbox) \in Nat
        /\ inbox'[Len(inbox) + 1] = outgoing
        /\ \A i \in 1 .. Len(inbox) : inbox'[i] = inbox[i]
    BY <2>1
  <2>3. NotNewer(outgoing, outgoing)
    BY SnapshotElim, DashboardAssumption DEF NotNewer, DashTypeOK, Versions
  <2>4. ASSUME NEW i \in 1 .. Len(inbox')
        PROVE  /\ NotNewer(pending, inbox'[i])
               /\ NotNewer(inbox'[i], newest)
               /\ \A j \in 1 .. i : NotNewer(inbox'[j], inbox'[i])
    <3>1. CASE i \in 1 .. Len(inbox)
      BY <2>2, <3>1 DEF UpdatesInOrder
    <3>2. CASE i = Len(inbox) + 1
      <4>1. ASSUME NEW j \in 1 .. i PROVE NotNewer(inbox'[j], outgoing)
        <5>1. j \in 1 .. Len(inbox) \/ j = Len(inbox) + 1
          BY <2>2, <3>2
        <5> QED BY <5>1, <2>2, <2>3 DEF UpdatesInOrder
      <4> QED BY <2>2, <3>2, <4>1 DEF UpdatesInOrder
    <3> QED BY <2>2, <3>1, <3>2
  <2> QED BY <1>1, <2>4, EmptyNotNewer DEF UpdatesInOrder
<1> QED BY <1>2, <1>3

LEMMA HandleKeepsOrder == DashTypeOK /\ UpdatesInOrder /\ HandleBatch => UpdatesInOrder'
<1> SUFFICES ASSUME DashTypeOK, UpdatesInOrder, HandleBatch PROVE UpdatesInOrder'
  OBVIOUS
<1>1. outgoing' = outgoing /\ newest' = newest
  BY DEF HandleBatch, backend
<1>2. /\ inbox \in Seq(Snapshots) /\ inbox # <<>> /\ inbox' = Tail(inbox)
  BY DEF HandleBatch, DashTypeOK
<1>3. /\ Len(inbox) \in Nat /\ Len(inbox') = Len(inbox) - 1 /\ Head(inbox) = inbox[1]
      /\ 1 \in 1 .. Len(inbox)
      /\ \A i \in 1 .. Len(inbox') : inbox'[i] = inbox[i + 1] /\ i + 1 \in 1 .. Len(inbox)
  BY <1>2
<1>4. pending' = pending \/ pending' = Put(Known(inbox[1]), pending)
  BY <1>3 DEF HandleBatch
<1>5. NotNewer(inbox[1], outgoing) /\ NotNewer(inbox[1], newest)
  BY <1>3 DEF UpdatesInOrder
<1>6. NotNewer(pending', outgoing) /\ NotNewer(pending', newest)
  BY <1>4, <1>5, KnownNotNewer, PutNotNewer DEF UpdatesInOrder
<1>7. ASSUME NEW i \in 1 .. Len(inbox') PROVE NotNewer(pending', inbox'[i])
  <2>1. 1 \in 1 .. i + 1
    BY <1>3
  <2>2. NotNewer(inbox[1], inbox[i + 1]) /\ NotNewer(pending, inbox[i + 1])
    BY <1>3, <2>1 DEF UpdatesInOrder
  <2> QED BY <1>3, <1>4, <2>2, KnownNotNewer, PutNotNewer
<1>8. ASSUME NEW i \in 1 .. Len(inbox'), NEW j \in 1 .. i
      PROVE  NotNewer(inbox'[j], inbox'[i])
  <2>1. j \in 1 .. Len(inbox') /\ j + 1 \in 1 .. i + 1
    BY <1>3
  <2> QED BY <1>3, <2>1 DEF UpdatesInOrder
<1> QED BY <1>1, <1>3, <1>6, <1>7, <1>8 DEF UpdatesInOrder

LEMMA NextOrder == DashTypeOK /\ UpdatesInOrder /\ [Next]_vars => UpdatesInOrder'
<1> SUFFICES ASSUME DashTypeOK, UpdatesInOrder, [Next]_vars PROVE UpdatesInOrder'
  OBVIOUS
<1>u. ASSUME UNCHANGED <<outgoing, newest, inbox, pending>> PROVE UpdatesInOrder'
  BY <1>u DEF UpdatesInOrder
<1>1. ASSUME BackendStep PROVE UpdatesInOrder'
  <2>1. ASSUME NEW a \in Agents, Register(a) PROVE UpdatesInOrder'
    BY <2>1, <1>u DEF Register, FeedRegister, page
  <2>2. ASSUME NEW a \in Agents, NEW state \in 1 .. newest[a], OtherWriteBack(a, state)
        PROVE  UpdatesInOrder'
    BY <2>2, <1>u DEF OtherWriteBack, FeedWriteBack, page
  <2>3. ASSUME NEW reporting \in SUBSET fleet, NEW states \in [reporting -> 1 .. MaxVersion],
               Report(states) \/ ReportUnanswered(states)
        PROVE  UpdatesInOrder'
    <3>1. /\ Stores(states) /\ outgoing' \in {states, Empty}
          /\ UNCHANGED <<inbox, pending>>
      BY <2>3 DEF Report, ReportUnanswered, FeedStore, FeedStoreOnly, page
    <3> QED BY <3>1, StoresKeepsOrder
  <2>4. ASSUME NEW written \in SUBSET DOMAIN outgoing, Cache(written) PROVE UpdatesInOrder'
    BY <2>4, <1>u DEF Cache, FeedCache
  <2>5. ASSUME Emit PROVE UpdatesInOrder'
    BY <2>5, EmitKeepsOrder
  <2>6. ASSUME EmitFails PROVE UpdatesInOrder'
    <3>1. outgoing' = Empty /\ UNCHANGED <<newest, inbox, pending>>
      BY <2>6 DEF EmitFails, FeedLost
    <3> QED BY <3>1, EmptyNotNewer DEF UpdatesInOrder
  <2>7. ASSUME ColdRedis PROVE UpdatesInOrder'
    BY <2>7, <1>u DEF ColdRedis, FeedCold
  <2> QED BY <1>1, <2>1, <2>2, <2>3, <2>4, <2>5, <2>6, <2>7 DEF BackendStep
<1>2. ASSUME NEW q \in Requests, HandlerStep(q) PROVE UpdatesInOrder'
  <2>1. UNCHANGED <<outgoing, newest, inbox, pending>>
    BY <1>2 DEF HandlerStep, List, ReadCache, ReadRow, WriteBack, FeedWriteBack, backend
  <2> QED BY <2>1, <1>u
<1>3. ASSUME NetworkStep, ~ Drop PROVE UpdatesInOrder'
  <2>1. UNCHANGED <<outgoing, newest, inbox, pending>>
    BY <1>3 DEF NetworkStep, RequestFails, RequestHangs, Connect, Join, backend
  <2> QED BY <2>1, <1>u
<1>4. ASSUME Drop PROVE UpdatesInOrder'
  <2>1. inbox' = <<>> /\ UNCHANGED <<outgoing, newest, pending>>
    BY <1>4 DEF Drop, backend
  <2>2. Len(inbox') = 0
    BY <2>1
  <2> QED BY <2>1, <2>2 DEF UpdatesInOrder
<1>5. ASSUME LoadDone \/ ResyncDone \/ Render \/ AlignRef PROVE UpdatesInOrder'
  BY <1>5, <1>u DEF LoadDone, ResyncDone, Render, AlignRef, backend
<1>6. ASSUME HandleBatch PROVE UpdatesInOrder'
  BY <1>6, HandleKeepsOrder
<1>7. ASSUME Tick PROVE UpdatesInOrder'
  <2>1. pending' = Empty /\ UNCHANGED <<outgoing, newest, inbox>>
    BY <1>7 DEF Tick, backend
  <2> QED BY <2>1, EmptyNotNewer DEF UpdatesInOrder
<1>8. ASSUME UNCHANGED vars PROVE UpdatesInOrder'
  BY <1>8, <1>u DEF vars, page, backend
<1> QED
  BY <1>1, <1>2, <1>3, <1>4, <1>5, <1>6, <1>7, <1>8 DEF Next, BrowserStep

LEMMA DashInvCorrect ==
  /\ Spec => [](DashTypeOK /\ UpdatesInOrder)
  /\ LoadedSpec => [](DashTypeOK /\ UpdatesInOrder)
<1>1. Init \/ LoadedInit => DashTypeOK /\ UpdatesInOrder
  BY InitDashType, LoadedDashType, InitOrder
<1>2. DashTypeOK /\ UpdatesInOrder /\ [Next]_vars => DashTypeOK' /\ UpdatesInOrder'
  BY NextDashType, NextOrder
<1> QED BY <1>1, <1>2, PTL DEF Spec, LoadedSpec

\* Whichever way batches, ticks, renders and faults interleave, an update that the
\* live channel applies later is never older, so "last write wins" is right there.
THEOREM UpdatesInOrderCorrect ==
  (Spec => []UpdatesInOrder) /\ (LoadedSpec => []UpdatesInOrder)
BY DashInvCorrect, PTL

-----------------------------------------------------------------------------
(* The page runs behind the database *)

LEMMA BackedEmpty == Backed(Empty)
BY EmptyIsSnapshot, EmptyNotNewer DEF Backed

LEMMA BackedPut ==
  ASSUME NEW f, NEW g, Backed(f), Backed(g)
  PROVE  Backed(Put(f, g))
<1>1. NotNewer(Put(f, g), newest)
  BY PutNotNewer DEF Backed
<1> QED BY <1>1 DEF Backed, Put

LEMMA BackedMerge ==
  ASSUME NEW f, NEW g, Backed(f), Backed(g)
  PROVE  Backed(Merge(f, g))
BY DEF Backed, Merge, NotNewer

LEMMA BackedKnown ==
  ASSUME NEW f, Backed(f)
  PROVE  Backed(Known(f))
<1>1. NotNewer(Known(f), newest)
  BY KnownNotNewer DEF Backed
<1> QED BY <1>1 DEF Backed, Known

LEMMA BackedSingle ==
  ASSUME NEW a \in fleet, NEW state, state <= newest[a]
  PROVE  Backed([b \in {a} |-> state])
BY DEF Backed, NotNewer

\* Batches under way, cached states, and agents that a handler has listed, are
\* backed too.
AheadInv ==
  /\ NeverAhead
  /\ Backed(outgoing)
  /\ \A i \in 1 .. Len(inbox) : Backed(inbox[i])
  /\ \A q \in Requests : left[q] \subseteq fleet /\ missed[q] \subseteq fleet
  /\ \A a \in Agents : cached[a] <= newest[a]

\* What was backed stays so while agents are added and states advance.
LEMMA StaysBacked ==
  ASSUME DashTypeOK, AheadInv, fleet \subseteq fleet',
         \A a \in Agents : newest[a] <= newest'[a], newest' \in [Agents -> Versions],
         UNCHANGED <<link, inbox, react, agentsRef, pending, get, handler, error, cached>>
  PROVE  /\ NeverAhead'
         /\ (\A i \in 1 .. Len(inbox) : Backed(inbox[i]))'
         /\ (\A q \in Requests : left[q] \subseteq fleet /\ missed[q] \subseteq fleet)'
         /\ (\A a \in Agents : cached[a] <= newest[a])'
<1>1. \A a \in Agents : newest[a] \in Nat /\ newest'[a] \in Nat /\ cached[a] \in Nat
  BY DashboardAssumption DEF DashTypeOK, Versions
<1>2. ASSUME NEW f \in Snapshots, Backed(f)
      PROVE  DOMAIN f \subseteq fleet' /\ NotNewer(f, newest')
  <2>1. \A a \in DOMAIN f : a \in Agents /\ f[a] \in Nat
    BY SnapshotElim, DashboardAssumption DEF Versions
  <2>2. DOMAIN newest = Agents
    BY DEF DashTypeOK
  <2> QED BY <1>1, <1>2, <2>1, <2>2 DEF Backed, NotNewer
<1>3. UNCHANGED <<inbox, agents, queued, agentsRef, pending, left, missed, row, data>>
  BY DEF react, handler
<1>4. /\ \A map \in {agents, queued, agentsRef, pending} \ {NotLoaded} : map \in Snapshots
      /\ \A q \in Requests : data[q] \in Snapshots /\ row[q] \in Snapshots
  BY DEF DashTypeOK
<1>5. NeverAhead'
  BY <1>2, <1>3, <1>4 DEF AheadInv, NeverAhead, Backed
<1>6. ASSUME NEW i \in 1 .. Len(inbox)
      PROVE  DOMAIN inbox[i] \subseteq fleet' /\ NotNewer(inbox[i], newest')
  <2>1. inbox[i] \in Snapshots
    BY DEF DashTypeOK
  <2> QED BY <1>2, <2>1 DEF AheadInv
<1>7. (\A i \in 1 .. Len(inbox) : Backed(inbox[i]))'
  BY <1>3, <1>6 DEF Backed
<1>8. (\A q \in Requests : left[q] \subseteq fleet /\ missed[q] \subseteq fleet)'
  BY <1>3 DEF AheadInv
<1>9. (\A a \in Agents : cached[a] <= newest[a])'
  BY <1>1 DEF AheadInv
<1> QED BY <1>5, <1>7, <1>8, <1>9

\* A window that is stored, and published later or never.
LEMMA StoresAhead ==
  ASSUME DashTypeOK, AheadInv, NEW reporting \in SUBSET fleet,
         NEW states \in [reporting -> 1 .. MaxVersion], Stores(states),
         outgoing' \in {states, Empty},
         UNCHANGED <<link, inbox, react, agentsRef, pending, get, handler, error>>
  PROVE  AheadInv'
<1>1. fleet' = fleet /\ UNCHANGED cached
  BY DEF Stores
<1>2. /\ newest' \in [Agents -> Versions] /\ \A c \in Agents : newest[c] <= newest'[c]
      /\ \A a \in reporting : newest'[a] = states[a]
  BY StoresStep DEF DashTypeOK
<1>3. NotNewer(outgoing', newest') /\ DOMAIN outgoing' \subseteq fleet
  <2>1. NotNewer(states, newest')
    BY <1>2, DashboardAssumption DEF NotNewer
  <2> QED BY <2>1, EmptyNotNewer, EmptyIsSnapshot
<1>4. Backed(outgoing)'
  BY <1>1, <1>3 DEF Backed
<1>5. /\ NeverAhead'
      /\ (\A i \in 1 .. Len(inbox) : Backed(inbox[i]))'
      /\ (\A q \in Requests : left[q] \subseteq fleet /\ missed[q] \subseteq fleet)'
      /\ (\A a \in Agents : cached[a] <= newest[a])'
  BY <1>1, <1>2, StaysBacked
<1> QED BY <1>4, <1>5 DEF AheadInv

\* A step that leaves the agents and their rows alone: it is enough to look at
\* the maps that it touches.
LEMMA StillAhead ==
  ASSUME UNCHANGED <<fleet, newest>>,
         Backed(outgoing'), \A i \in 1 .. Len(inbox') : Backed(inbox'[i]),
         \A map \in {agents', queued', agentsRef', pending'} \ {NotLoaded} : Backed(map),
         \A q \in Requests : /\ Backed(data'[q]) /\ Backed(row'[q])
                             /\ left'[q] \subseteq fleet /\ missed'[q] \subseteq fleet,
         \A a \in Agents : cached'[a] <= newest[a]
  PROVE  AheadInv'
BY DEF AheadInv, NeverAhead, Backed

LEMMA BackendAhead == DashTypeOK /\ AheadInv /\ BackendStep => AheadInv'
<1> SUFFICES ASSUME DashTypeOK, AheadInv, BackendStep PROVE AheadInv'
  OBVIOUS
<1>1. ASSUME NEW a \in Agents, Register(a) PROVE AheadInv'
  <2>1. fleet \subseteq fleet' /\ UNCHANGED <<newest, outgoing, cached, page>>
    BY <1>1 DEF Register, FeedRegister
  <2>2. \A c \in Agents : newest[c] <= newest'[c] /\ newest' \in [Agents -> Versions]
    BY <2>1, DashboardAssumption DEF DashTypeOK, Versions
  <2>3. Backed(outgoing)'
    BY <2>1 DEF Backed, AheadInv
  <2>4. UNCHANGED <<link, inbox, react, agentsRef, pending, get, handler, error, cached>>
    BY <2>1 DEF page
  <2> QED BY <2>1, <2>2, <2>3, <2>4, StaysBacked DEF AheadInv
<1>2. ASSUME NEW reporting \in SUBSET fleet, NEW states \in [reporting -> 1 .. MaxVersion],
             Report(states) \/ ReportUnanswered(states)
      PROVE  AheadInv'
  <2>1. /\ Stores(states) /\ outgoing' \in {states, Empty}
        /\ UNCHANGED <<link, inbox, react, agentsRef, pending, get, handler, error>>
    BY <1>2 DEF Report, ReportUnanswered, FeedStore, FeedStoreOnly, page
  <2> QED BY <2>1, StoresAhead
<1>p. ASSUME UNCHANGED <<fleet, newest, link, inbox, react, agentsRef, pending, get, handler>>,
             Backed(outgoing'), \A a \in Agents : cached'[a] <= newest[a]
      PROVE  AheadInv'
  BY <1>p, StillAhead DEF AheadInv, NeverAhead, react, handler
<1>3. ASSUME NEW a \in Agents, NEW state \in 1 .. newest[a], OtherWriteBack(a, state)
      PROVE  AheadInv'
  <2>1. \A b \in Agents : cached'[b] <= newest[b]
    BY <1>3, NewestStates DEF OtherWriteBack, FeedWriteBack, DashTypeOK, AheadInv
  <2> QED BY <1>3, <1>p, <2>1 DEF OtherWriteBack, FeedWriteBack, page, AheadInv
<1>4. ASSUME NEW written \in SUBSET DOMAIN outgoing, Cache(written) PROVE AheadInv'
  <2>1. \A b \in Agents : cached'[b] = IF b \in written THEN outgoing[b] ELSE cached[b]
    BY <1>4, CacheStep DEF Cache, DashTypeOK
  <2>2. \A b \in Agents : cached'[b] <= newest[b]
    BY <2>1 DEF AheadInv, Backed, NotNewer, DashTypeOK
  <2> QED BY <1>4, <1>p, <2>2 DEF Cache, FeedCache, AheadInv
<1>5. ASSUME Emit PROVE AheadInv'
  <2>1. \A i \in 1 .. Len(inbox') : Backed(inbox'[i])
    <3>1. CASE inbox' = inbox
      BY <3>1 DEF AheadInv
    <3>2. CASE inbox' = Append(inbox, outgoing)
      BY <3>2 DEF DashTypeOK, AheadInv
    <3> QED BY <1>5, <3>1, <3>2 DEF Emit
  <2>2. Backed(outgoing')
    BY <1>5, BackedEmpty DEF Emit, FeedTaken
  <2> QED BY <1>5, <2>1, <2>2, StillAhead DEF Emit, FeedTaken, AheadInv, NeverAhead, react, handler
<1>6. ASSUME EmitFails PROVE AheadInv'
  BY <1>6, <1>p, BackedEmpty DEF EmitFails, FeedLost, AheadInv
<1>7. ASSUME ColdRedis PROVE AheadInv'
  <2>1. \A b \in Agents : cached'[b] <= newest[b]
    BY <1>7, NewestStates DEF ColdRedis, FeedCold, NoKeys, DashTypeOK
  <2> QED BY <1>7, <1>p, <2>1 DEF ColdRedis, FeedCold, AheadInv
<1> QED BY <1>1, <1>2, <1>3, <1>4, <1>5, <1>6, <1>7 DEF BackendStep

\* An answer grows by a cached state, or by that of a row.
LEMMA AnsweredAhead ==
  ASSUME DashTypeOK, AheadInv, NEW q \in Requests, NEW a \in fleet, NEW state,
         state <= newest[a], Answered(q, a, state)
  PROVE  \A p \in Requests : Backed(data'[p])
<1>1. Backed(Put([b \in {a} |-> state], data[q]))
  BY BackedSingle, BackedPut DEF AheadInv, NeverAhead
<1>2. \A p \in Requests :
        data'[p] = IF p = q THEN Put([b \in {a} |-> state], data[q]) ELSE data[p]
  BY DEF Answered, DashTypeOK
<1> QED BY <1>1, <1>2 DEF AheadInv, NeverAhead

LEMMA HandlerAhead ==
  ASSUME DashTypeOK, AheadInv, NEW q \in Requests, HandlerStep(q)
  PROVE  AheadInv'
<1>1. ASSUME List(q) PROVE AheadInv'
  <2>1. \A p \in Requests : left'[p] = IF p = q THEN fleet ELSE left[p]
    BY <1>1 DEF List, DashTypeOK
  <2> QED BY <1>1, <2>1, StillAhead DEF List, AheadInv, NeverAhead, backend, react
<1>2. ASSUME NEW a \in Agents, ReadCache(q, a) PROVE AheadInv'
  <2>1. a \in fleet /\ cached[a] <= newest[a]
    BY <1>2 DEF ReadCache, AheadInv
  <2>2. \A p \in Requests : Backed(data'[p])
    BY <1>2, <2>1, AnsweredAhead DEF ReadCache, AheadInv, NeverAhead
  <2>3. \A p \in Requests : left'[p] \subseteq fleet /\ missed'[p] \subseteq fleet
    BY <1>2, <2>1 DEF ReadCache, AheadInv, DashTypeOK
  <2> QED BY <1>2, <2>2, <2>3, StillAhead DEF ReadCache, AheadInv, NeverAhead, backend, react
<1>3. ASSUME NEW a \in Agents, NEW state \in RowStates(a), ReadRow(q, a, state)
      PROVE  AheadInv'
  <2>1. a \in fleet /\ state <= newest[a]
    BY <1>3, NewestStates DEF ReadRow, AheadInv, DashTypeOK
  <2>2. \A p \in Requests : Backed(data'[p])
    BY <1>3, <2>1, AnsweredAhead DEF ReadRow, AheadInv, NeverAhead
  <2>3. \A p \in Requests : missed'[p] \subseteq fleet
    BY <1>3 DEF ReadRow, AheadInv, DashTypeOK
  <2>4. \A p \in Requests : Backed(row'[p])
    <3>1. Backed([b \in {a} |-> state])
      BY <2>1, BackedSingle
    <3>2. UNCHANGED row \/ row' = [row EXCEPT ![q] = [b \in {a} |-> state]]
      BY <1>3 DEF ReadRow
    <3>3. \A p \in Requests : row'[p] \in {row[p], [b \in {a} |-> state]}
      BY <3>2 DEF DashTypeOK
    <3> QED BY <3>1, <3>3 DEF AheadInv, NeverAhead
  <2> QED BY <1>3, <2>2, <2>3, <2>4, StillAhead
      DEF ReadRow, AheadInv, NeverAhead, backend, react
<1>4. ASSUME NEW a \in Agents, WriteBack(q, a) PROVE AheadInv'
  <2>1. a \in fleet /\ row[q][a] <= newest[a]
    BY <1>4 DEF WriteBack, AheadInv, NeverAhead, Backed, NotNewer, DashTypeOK
  <2>2. \A p \in Requests : Backed(data'[p])
    BY <1>4, <2>1, AnsweredAhead DEF WriteBack
  <2>3. \A p \in Requests : Backed(row'[p])
    BY <1>4, BackedEmpty DEF WriteBack, AheadInv, NeverAhead, DashTypeOK
  <2>4. \A b \in Agents : cached'[b] <= newest[b]
    BY <1>4, <2>1 DEF WriteBack, FeedWriteBack, backend, AheadInv, DashTypeOK
  <2>5. UNCHANGED <<fleet, newest, outgoing>>
    BY <1>4 DEF WriteBack, FeedWriteBack, backend
  <2> QED BY <1>4, <2>2, <2>3, <2>4, <2>5, StillAhead DEF WriteBack, AheadInv, NeverAhead, react
<1> QED BY <1>1, <1>2, <1>3, <1>4 DEF HandlerStep

LEMMA EndedAhead ==
  ASSUME DashTypeOK, AheadInv, NEW q \in Requests, NEW outcome, EndRequest(q, outcome)
  PROVE  \A p \in Requests : /\ Backed(data'[p]) /\ Backed(row'[p])
                             /\ left'[p] \subseteq fleet /\ missed'[p] \subseteq fleet
BY BackedEmpty DEF EndRequest, AheadInv, NeverAhead, DashTypeOK

LEMMA NetworkAhead == DashTypeOK /\ AheadInv /\ NetworkStep => AheadInv'
<1> SUFFICES ASSUME DashTypeOK, AheadInv, NetworkStep PROVE AheadInv'
  OBVIOUS
<1>1. ASSUME NEW q \in Requests, RequestFails(q) \/ RequestHangs(q) PROVE AheadInv'
  <2>1. /\ EndRequest(q, "no") \/ EndRequest(q, "silent")
        /\ UNCHANGED <<backend, link, inbox, react, agentsRef, pending>>
    BY <1>1 DEF RequestFails, RequestHangs
  <2>2. \A p \in Requests : /\ Backed(data'[p]) /\ Backed(row'[p])
                            /\ left'[p] \subseteq fleet /\ missed'[p] \subseteq fleet
    BY <2>1, EndedAhead
  <2> QED BY <2>1, <2>2, StillAhead DEF AheadInv, NeverAhead, backend, react
<1>2. ASSUME Connect \/ Join \/ Drop PROVE AheadInv'
  <2>1. /\ inbox' \in {inbox, <<>>}
        /\ UNCHANGED <<backend, react, agentsRef, pending, handler>>
    BY <1>2 DEF Connect, Join, Drop, StartResync
  <2>2. \A i \in 1 .. Len(inbox') : Backed(inbox'[i])
    BY <2>1 DEF AheadInv
  <2> QED BY <2>1, <2>2, StillAhead DEF AheadInv, NeverAhead, backend, react, handler
<1> QED BY <1>1, <1>2 DEF NetworkStep

LEMMA BrowserAhead == DashTypeOK /\ AheadInv /\ (BrowserStep \/ AlignRef) => AheadInv'
<1> SUFFICES ASSUME DashTypeOK, AheadInv, BrowserStep \/ AlignRef PROVE AheadInv'
  OBVIOUS
<1>r. "load" \in Requests /\ "resync" \in Requests
  BY DEF Requests
<1>p. Backed(pending)
  BY DashboardAssumption DEF DashTypeOK, AheadInv, NeverAhead
<1>1. ASSUME LoadDone \/ ResyncDone PROVE AheadInv'
  <2>1. /\ EndRequest("load", "no") \/ EndRequest("resync", "no")
        /\ UNCHANGED <<backend, inbox, agents, pending>>
        /\ queued' \in {data["load"], data["resync"]}
        /\ agentsRef' \in {agentsRef, data["resync"]}
    BY <1>1 DEF LoadDone, ResyncDone
  <2>2. \A p \in Requests : /\ Backed(data'[p]) /\ Backed(row'[p])
                            /\ left'[p] \subseteq fleet /\ missed'[p] \subseteq fleet
    BY <1>r, <2>1, EndedAhead
  <2> QED BY <1>r, <2>1, <2>2, StillAhead DEF AheadInv, NeverAhead, backend
<1>2. ASSUME HandleBatch PROVE AheadInv'
  <2>1. UNCHANGED <<backend, agents, queued, agentsRef, handler>>
    BY <1>2 DEF HandleBatch, StartResync, react
  <2>2. inbox \in Seq(Snapshots) /\ inbox # <<>> /\ inbox' = Tail(inbox)
    BY <1>2 DEF HandleBatch, DashTypeOK
  <2>3. /\ 1 \in 1 .. Len(inbox) /\ Head(inbox) = inbox[1]
        /\ \A i \in 1 .. Len(inbox') : inbox'[i] = inbox[i + 1] /\ i + 1 \in 1 .. Len(inbox)
    BY <2>2
  <2>4. Backed(pending')
    BY <1>2, <1>p, <2>3, BackedKnown, BackedPut DEF HandleBatch, AheadInv
  <2>5. \A i \in 1 .. Len(inbox') : Backed(inbox'[i])
    BY <2>3 DEF AheadInv
  <2> QED BY <2>1, <2>4, <2>5, StillAhead DEF AheadInv, NeverAhead, backend, handler
<1>3. ASSUME Tick PROVE AheadInv'
  <2>1. pending' = Empty /\ UNCHANGED <<backend, inbox, agents, agentsRef, handler>>
    BY <1>3 DEF Tick
  <2>2. queued' = NotLoaded \/ Backed(queued')
    BY <1>3, <1>p, BackedMerge DEF Tick, AheadInv, NeverAhead
  <2> QED BY <2>1, <2>2, BackedEmpty, StillAhead DEF AheadInv, NeverAhead, backend, handler
<1>4. ASSUME Render \/ AlignRef PROVE AheadInv'
  <2>1. /\ UNCHANGED <<backend, inbox, queued, pending, handler>>
        /\ agents' \in {agents, queued} /\ agentsRef' \in {agentsRef, agents}
    BY <1>4 DEF Render, AlignRef
  <2> QED BY <2>1, StillAhead DEF AheadInv, NeverAhead, backend, handler
<1> QED BY <1>1, <1>2, <1>3, <1>4 DEF BrowserStep

LEMMA NextAhead == DashTypeOK /\ AheadInv /\ [Next]_vars => AheadInv'
<1> SUFFICES ASSUME DashTypeOK, AheadInv, [Next]_vars PROVE AheadInv'
  OBVIOUS
<1>1. ASSUME UNCHANGED vars PROVE AheadInv'
  BY <1>1, StillAhead DEF vars, page, AheadInv, NeverAhead, backend, react, handler
<1> QED BY <1>1, BackendAhead, HandlerAhead, NetworkAhead, BrowserAhead DEF Next

\* Whatever the order of answers, write-backs, batches, ticks and renders, the page
\* never shows an agent that does not exist or a state that the database does not
\* hold yet, for any number of agents, versions and faults.
THEOREM NeverAheadCorrect ==
  (Spec => []NeverAhead) /\ (LoadedSpec => []NeverAhead)
<1>1. Init => AheadInv
  <2> SUFFICES ASSUME Init PROVE AheadInv
    OBVIOUS
  <2>1. /\ {agents, queued, agentsRef} = {NotLoaded}
        /\ {outgoing, pending} = {Empty} /\ Len(inbox) = 0 /\ NoRequest
        /\ \A a \in Agents : cached[a] <= newest[a]
    BY DEF Init, FeedInit, NoKeys
  <2>2. \A q \in Requests : /\ data[q] = Empty /\ row[q] = Empty
                            /\ left[q] = {} /\ missed[q] = {}
    BY <2>1 DEF NoRequest
  <2> QED BY <2>1, <2>2, BackedEmpty DEF AheadInv, NeverAhead
<1>2. LoadedInit => AheadInv
  <2> SUFFICES ASSUME LoadedInit PROVE AheadInv
    OBVIOUS
  <2>1. /\ {agents, queued, agentsRef} = {Snapshot}
        /\ {outgoing, pending} = {Empty} /\ Len(inbox) = 0 /\ NoRequest
        /\ cached = newest
    BY DEF LoadedInit
  <2>2. \A a \in Agents : newest[a] \in Nat
    BY LoadedDashType, DashboardAssumption DEF DashTypeOK, Versions
  <2>3. Backed(Snapshot)
    BY <2>2, LoadedDashType DEF DashTypeOK, Backed, Snapshot, NotNewer
  <2>4. \A q \in Requests : /\ data[q] = Empty /\ row[q] = Empty
                            /\ left[q] = {} /\ missed[q] = {}
    BY <2>1 DEF NoRequest
  <2>5. \A a \in Agents : cached[a] <= newest[a]
    <3>1. \A v \in Nat : v <= v
      OBVIOUS
    <3> QED BY <2>1, <2>2, <3>1
  <2> QED BY <2>1, <2>3, <2>4, <2>5, BackedEmpty DEF AheadInv, NeverAhead
<1>3. AheadInv => NeverAhead
  BY DEF AheadInv
<1> QED BY <1>1, <1>2, <1>3, NextAhead, DashTypeCorrect, PTL DEF Spec, LoadedSpec

-----------------------------------------------------------------------------
(* Rendering *)

LEMMA MergeEmpties ==
  ASSUME NEW f \in Snapshots, NEW g \in Snapshots
  PROVE  Merge(Empty, Merge(f, g)) = Merge(f, g)
BY EmptyIsSnapshot DEF Merge

LEMMA NextRendering ==
  DashTypeOK /\ [Next]_vars => (get' = get /\ inbox' = inbox => View' = View)
<1> SUFFICES ASSUME DashTypeOK, [Next]_vars, get' = get, inbox' = inbox
             PROVE  View' = View
  OBVIOUS
<1>u. ASSUME UNCHANGED <<pending, queued>> PROVE View' = View
  BY <1>u DEF View, Merge
<1>1. ASSUME BackendStep PROVE View' = View
  <2>1. UNCHANGED <<pending, queued>>
    BY <1>1 DEF BackendStep, Register, OtherWriteBack, Report, ReportUnanswered, Cache, Emit,
                EmitFails, ColdRedis, page, react
  <2> QED BY <2>1, <1>u
<1>2. ASSUME NEW q \in Requests, HandlerStep(q) PROVE View' = View
  <2>1. UNCHANGED <<pending, queued>>
    BY <1>2 DEF HandlerStep, List, ReadCache, ReadRow, WriteBack, react
  <2> QED BY <2>1, <1>u
<1>3. ASSUME NetworkStep PROVE View' = View
  <2>1. UNCHANGED <<pending, queued>>
    BY <1>3 DEF NetworkStep, RequestFails, RequestHangs, Connect, Join, Drop, react
  <2> QED BY <2>1, <1>u
<1>4. ASSUME LoadDone \/ ResyncDone PROVE FALSE
  BY <1>4 DEF LoadDone, ResyncDone, Complete, EndRequest, DashTypeOK, Requests
<1>5. ASSUME HandleBatch PROVE FALSE
  <2>1. inbox \in Seq(Snapshots) /\ inbox # <<>> /\ inbox' = Tail(inbox)
    BY <1>5 DEF HandleBatch, DashTypeOK
  <2>2. Len(inbox') = Len(inbox) - 1 /\ Len(inbox) \in Nat
    BY <2>1
  <2> QED BY <2>2
<1>6. ASSUME Tick PROVE View' = View
  <2>1. CASE queued = NotLoaded
    BY <1>6, <2>1 DEF Tick, View
  <2>2. CASE queued # NotLoaded
    <3>1. queued \in Snapshots /\ pending \in Snapshots
      BY <2>2 DEF DashTypeOK
    <3>2. Merge(pending, queued) # NotLoaded
      BY <3>1, MergeIsSnapshot, DashboardAssumption
    <3>3. queued' = Merge(pending, queued) /\ pending' = Empty
      BY <1>6, <2>2 DEF Tick
    <3> QED BY <2>2, <3>1, <3>2, <3>3, MergeEmpties DEF View
  <2> QED BY <2>1, <2>2
<1>7. ASSUME Render \/ AlignRef PROVE View' = View
  BY <1>7, <1>u DEF Render, AlignRef
<1>8. ASSUME UNCHANGED vars PROVE View' = View
  BY <1>8, <1>u DEF vars, page, react
<1> QED
  BY <1>1, <1>2, <1>3, <1>4, <1>5, <1>6, <1>7, <1>8 DEF Next, BrowserStep

\* The tick's snapshot-and-clear, the queued updater, the render and the
\* effect change nothing of what the operator comes to see.
THEOREM RenderingLosesNothingCorrect ==
  (Spec => RenderingLosesNothing) /\ (LoadedSpec => RenderingLosesNothing)
<1>1. DashTypeOK /\ [Next]_vars =>
        [get' = get /\ inbox' = inbox => View' = View]_vars
  BY NextRendering
<1> QED BY <1>1, DashTypeCorrect, PTL DEF Spec, LoadedSpec, RenderingLosesNothing

-----------------------------------------------------------------------------
(* Sync *)

\* InSync depends on four variables only.
LEMMA SyncFrame ==
  ASSUME InSync, UNCHANGED <<newest, outgoing, inbox, pending, queued>>
  PROVE  InSync'
<1>1. ASSUME NEW a PROVE UnderWay(a)' = UnderWay(a)
  BY DEF UnderWay
<1> QED BY <1>1 DEF InSync

\* A property of the updates that are under way, channel by channel.
LEMMA UnderWayParts ==
  ASSUME NEW a
  PROVE  /\ a \in DOMAIN outgoing => outgoing[a] \in UnderWay(a)
         /\ \A i \in 1 .. Len(inbox) :
              a \in DOMAIN inbox[i] => inbox[i][a] \in UnderWay(a)
         /\ a \in DOMAIN pending => pending[a] \in UnderWay(a)
         /\ \A v \in UnderWay(a) :
              \/ a \in DOMAIN outgoing /\ v = outgoing[a]
              \/ \E i \in 1 .. Len(inbox) : a \in DOMAIN inbox[i] /\ v = inbox[i][a]
              \/ a \in DOMAIN pending /\ v = pending[a]
BY DEF UnderWay

LEMMA ReportKeepsSync ==
  ASSUME DashTypeOK, queued # NotLoaded, InSync, NEW reporting \in SUBSET fleet,
         NEW states \in [reporting -> 1 .. MaxVersion], Report(states)
  PROVE  InSync'
<1>1. inbox' = inbox /\ pending' = pending /\ queued' = queued
  BY DEF Report, page, react
<1>2. /\ outgoing = Empty /\ outgoing' = states /\ Stores(states)
  BY DEF Report, FeedStore
<1>3. /\ DOMAIN outgoing = {} /\ DOMAIN outgoing' = reporting
      /\ \A a \in reporting : outgoing'[a] = newest'[a]
      /\ \A a \in Agents \ reporting : newest'[a] = newest[a]
  <2>1. fleet \subseteq Agents /\ newest \in [Agents -> Versions]
    BY DEF DashTypeOK
  <2> QED BY <1>2, <2>1, StoresStep, EmptyIsSnapshot
<1>4. ASSUME NEW a \in reporting
      PROVE  UnderWay(a)' # {} /\ newest'[a] \in UnderWay(a)'
  BY <1>3 DEF UnderWay
<1>5. ASSUME NEW a, a \notin reporting PROVE UnderWay(a)' = UnderWay(a)
  BY <1>1, <1>3, <1>5 DEF UnderWay
<1> SUFFICES ASSUME NEW a \in DOMAIN queued,
                    ~ (IF UnderWay(a)' = {} THEN queued[a] = newest'[a]
                       ELSE newest'[a] \in UnderWay(a)')
             PROVE  FALSE
  BY <1>1 DEF InSync
<1>6. CASE a \in reporting
  BY <1>4, <1>6
<1>7. CASE a \in Agents \ reporting
  BY <1>1, <1>3, <1>5, <1>7 DEF InSync
<1> QED BY <1>6, <1>7, SnapshotElim DEF DashTypeOK

\* The window moves from the backend into the inbox.
LEMMA EmitKeepsSync ==
  ASSUME DashTypeOK, link = "joined", InSync, Emit
  PROVE  InSync'
<1>1. /\ inbox' = Append(inbox, outgoing) /\ inbox \in Seq(Snapshots)
      /\ outgoing' = Empty /\ pending' = pending /\ queued' = queued /\ newest' = newest
  BY DEF Emit, FeedTaken, DashTypeOK, react
<1>2. /\ Len(inbox') = Len(inbox) + 1 /\ Len(inbox) \in Nat
      /\ inbox'[Len(inbox) + 1] = outgoing
      /\ \A i \in 1 .. Len(inbox) : inbox'[i] = inbox[i]
  BY <1>1
<1>3. DOMAIN outgoing' = {}
  BY <1>1, EmptyIsSnapshot
<1>4. ASSUME NEW a PROVE UnderWay(a)' = UnderWay(a)
  <2>1. {inbox'[i][a] : i \in {j \in 1 .. Len(inbox') : a \in DOMAIN inbox'[j]}}
          = {inbox[i][a] : i \in {j \in 1 .. Len(inbox) : a \in DOMAIN inbox[j]}}
            \cup (IF a \in DOMAIN outgoing THEN {outgoing[a]} ELSE {})
    <3>1. \A i \in 1 .. Len(inbox') : i \in 1 .. Len(inbox) \/ i = Len(inbox) + 1
      BY <1>2
    <3>2. 1 .. Len(inbox) \subseteq 1 .. Len(inbox') /\ Len(inbox) + 1 \in 1 .. Len(inbox')
      BY <1>2
    <3> QED BY <1>2, <3>1, <3>2
  <2> QED BY <1>1, <1>3, <2>1 DEF UnderWay
<1> QED BY <1>1, <1>4 DEF InSync

LEMMA HandleKeepsSync ==
  ASSUME DashTypeOK, UpdatesInOrder, Calm, InSync, HandleBatch, Calm'
  PROVE  InSync'
<1>1. /\ inbox \in Seq(Snapshots) /\ inbox # <<>> /\ inbox' = Tail(inbox)
      /\ outgoing' = outgoing /\ queued' = queued /\ newest' = newest
  BY DEF HandleBatch, DashTypeOK, backend, react
<1>2. /\ Len(inbox) \in Nat /\ Len(inbox') = Len(inbox) - 1
      /\ Head(inbox) = inbox[1] /\ 1 \in 1 .. Len(inbox) /\ inbox[1] \in Snapshots
      /\ \A i \in 1 .. Len(inbox') : inbox'[i] = inbox[i + 1] /\ i + 1 \in 1 .. Len(inbox)
  BY <1>1
<1>3. DOMAIN inbox[1] \subseteq DOMAIN agentsRef
  <2>1. ASSUME StartResync PROVE FALSE
    BY <2>1 DEF StartResync, Calm, DashTypeOK, Requests
  <2> QED BY <1>2, <2>1 DEF HandleBatch, Calm
<1>4. Known(inbox[1]) = inbox[1]
  <2>1. DOMAIN inbox[1] \cap DOMAIN agentsRef = DOMAIN inbox[1]
    BY <1>3
  <2>2. inbox[1] = [a \in DOMAIN inbox[1] |-> inbox[1][a]]
    BY <1>2, SnapshotElim
  <2> QED BY <2>1, <2>2 DEF Known
<1>5. pending' = Put(inbox[1], pending)
  BY <1>2, <1>4 DEF HandleBatch, Calm
<1>6. /\ DOMAIN pending' = DOMAIN inbox[1] \cup DOMAIN pending
      /\ \A a \in DOMAIN inbox[1] : pending'[a] = inbox[1][a]
      /\ \A a \in DOMAIN pending \ DOMAIN inbox[1] : pending'[a] = pending[a]
  BY <1>5 DEF Put
<1> SUFFICES ASSUME NEW a \in DOMAIN queued
             PROVE  IF UnderWay(a)' = {} THEN queued[a] = newest[a]
                    ELSE newest[a] \in UnderWay(a)'
  BY <1>1 DEF InSync
<1>7. \A v \in UnderWay(a)' : v \in UnderWay(a)
  <2> SUFFICES ASSUME NEW v \in UnderWay(a)' PROVE v \in UnderWay(a)
    OBVIOUS
  <2>1. \/ a \in DOMAIN outgoing /\ v = outgoing[a]
        \/ \E i \in 1 .. Len(inbox') : a \in DOMAIN inbox'[i] /\ v = inbox'[i][a]
        \/ a \in DOMAIN pending' /\ v = pending'[a]
    BY <1>1 DEF UnderWay
  <2> QED BY <1>2, <1>6, <2>1, UnderWayParts
\* What leaves the set is an older pending value, replaced by the batch's.
<1>8. \A v \in UnderWay(a) :
        \/ v \in UnderWay(a)'
        \/ /\ a \in DOMAIN inbox[1] /\ a \in DOMAIN pending
           /\ v = pending[a] /\ inbox[1][a] \in UnderWay(a)'
  <2> SUFFICES ASSUME NEW v \in UnderWay(a), v \notin UnderWay(a)'
               PROVE  /\ a \in DOMAIN inbox[1] /\ a \in DOMAIN pending
                      /\ v = pending[a] /\ inbox[1][a] \in UnderWay(a)'
    OBVIOUS
  <2>1. a \in DOMAIN pending' => pending'[a] \in UnderWay(a)'
    BY DEF UnderWay
  <2>2. ~ (a \in DOMAIN outgoing /\ v = outgoing[a])
    BY <1>1 DEF UnderWay
  <2>3. ASSUME NEW i \in 1 .. Len(inbox), a \in DOMAIN inbox[i], v = inbox[i][a]
        PROVE  FALSE
    <3>1. CASE i = 1
      BY <1>6, <2>1, <2>3, <3>1
    <3>2. CASE i # 1
      <4>1. i - 1 \in 1 .. Len(inbox') /\ inbox'[i - 1] = inbox[i]
        BY <1>2, <3>2
      <4> QED BY <2>3, <4>1 DEF UnderWay
    <3> QED BY <3>1, <3>2
  <2>4. a \in DOMAIN pending /\ v = pending[a]
    BY <2>2, <2>3, UnderWayParts
  <2> QED BY <1>6, <2>1, <2>4
<1>9. CASE UnderWay(a) = {}
  BY <1>7, <1>9 DEF InSync
<1>10. CASE UnderWay(a) # {} /\ newest[a] \in UnderWay(a)'
  BY <1>10
<1>11. CASE UnderWay(a) # {} /\ newest[a] \notin UnderWay(a)'
  <2>1. newest[a] \in UnderWay(a)
    BY <1>11 DEF InSync
  <2>2. /\ a \in DOMAIN inbox[1] /\ a \in DOMAIN pending
        /\ newest[a] = pending[a] /\ inbox[1][a] \in UnderWay(a)'
    BY <1>8, <1>11, <2>1
  <2>3. pending[a] <= inbox[1][a] /\ inbox[1][a] <= newest[a]
    BY <1>2, <2>2, SnapshotElim DEF UpdatesInOrder, NotNewer, DashTypeOK
  <2>4. pending[a] \in Nat /\ inbox[1][a] \in Nat
    BY <1>2, <2>2, SnapshotElim, DashboardAssumption DEF DashTypeOK, Versions
  <2> QED BY <1>11, <2>2, <2>3, <2>4
<1> QED BY <1>9, <1>10, <1>11

LEMMA TickKeepsSync ==
  ASSUME DashTypeOK, UpdatesInOrder, queued # NotLoaded, InSync, Tick
  PROVE  InSync'
<1>1. /\ UNCHANGED <<outgoing, inbox, newest>>
      /\ pending' = Empty /\ queued' = Merge(pending, queued)
  BY DEF Tick, backend
<1>2. DOMAIN pending' = {} /\ DOMAIN queued' = DOMAIN queued
  BY <1>1, EmptyIsSnapshot DEF Merge
<1>3. DOMAIN queued \subseteq Agents
  BY SnapshotElim DEF DashTypeOK
<1> SUFFICES ASSUME NEW a \in DOMAIN queued
             PROVE  IF UnderWay(a)' = {} THEN queued'[a] = newest[a]
                    ELSE newest[a] \in UnderWay(a)'
  BY <1>1, <1>2 DEF InSync
<1>4. UnderWay(a) = UnderWay(a)' \cup (IF a \in DOMAIN pending THEN {pending[a]} ELSE {})
  BY <1>1, <1>2 DEF UnderWay
<1>5. CASE a \notin DOMAIN pending
  BY <1>1, <1>4, <1>5 DEF InSync, Merge
<1>6. CASE a \in DOMAIN pending /\ UnderWay(a)' = {}
  BY <1>1, <1>4, <1>6 DEF InSync, Merge
<1>7. CASE a \in DOMAIN pending /\ UnderWay(a)' # {}
  <2>1. newest[a] \in UnderWay(a)' \/ newest[a] = pending[a]
    BY <1>4, <1>7 DEF InSync
  <2>2. PICK v \in UnderWay(a)' : TRUE
    BY <1>7
  <2>3. \/ a \in DOMAIN outgoing /\ v = outgoing[a]
        \/ \E i \in 1 .. Len(inbox) : a \in DOMAIN inbox[i] /\ v = inbox[i][a]
    BY <1>1, <1>2, <2>2 DEF UnderWay
  <2>4. a \in DOMAIN newest
    BY <1>3 DEF DashTypeOK
  <2>5. pending[a] <= v /\ v <= newest[a] /\ v \in Nat
    <3>1. CASE a \in DOMAIN outgoing /\ v = outgoing[a]
      BY <1>7, <2>4, <3>1, SnapshotElim, DashboardAssumption
      DEF UpdatesInOrder, NotNewer, DashTypeOK, Versions
    <3>2. ASSUME NEW i \in 1 .. Len(inbox), a \in DOMAIN inbox[i], v = inbox[i][a]
          PROVE  pending[a] <= v /\ v <= newest[a] /\ v \in Nat
      <4>1. inbox[i] \in Snapshots
        BY DEF DashTypeOK
      <4>2. NotNewer(pending, inbox[i]) /\ NotNewer(inbox[i], newest)
        BY DEF UpdatesInOrder
      <4>3. v \in Nat
        BY <3>2, <4>1, SnapshotElim, DashboardAssumption DEF Versions
      <4> QED BY <1>7, <2>4, <3>2, <4>2, <4>3 DEF NotNewer
    <3> QED BY <2>3, <3>1, <3>2
  <2>6. pending[a] \in Nat /\ newest[a] \in Nat
    BY <1>3, <1>7, SnapshotElim, DashboardAssumption DEF DashTypeOK, Versions
  <2> QED BY <2>1, <2>2, <2>5, <2>6, <1>7
<1> QED BY <1>5, <1>6, <1>7

LEMMA NextSync ==
  DashTypeOK /\ UpdatesInOrder /\ [Next]_vars =>
    (Calm /\ InSync /\ Calm' /\ faults' = faults => InSync')
<1> SUFFICES ASSUME DashTypeOK, UpdatesInOrder, [Next]_vars,
                    Calm, InSync, Calm', faults' = faults
             PROVE  InSync'
  OBVIOUS
<1>q. queued # NotLoaded /\ link = "joined" /\ get["load"] = "no" /\ get["resync"] = "no"
  BY DEF Calm
<1>f. ASSUME NEW kind, Fault(kind) PROVE FALSE
  BY <1>f, DashboardAssumption DEF Fault, DashTypeOK
<1>1. ASSUME BackendStep PROVE InSync'
  <2>1. ASSUME NEW a \in Agents, Register(a) PROVE InSync'
    BY <2>1, SyncFrame DEF Register, FeedRegister, page, react
  <2>2. ASSUME NEW a \in Agents, NEW state \in 1 .. newest[a], OtherWriteBack(a, state)
        PROVE  InSync'
    BY <2>2, SyncFrame DEF OtherWriteBack, FeedWriteBack, page, react
  <2>3. ASSUME NEW reporting \in SUBSET fleet, NEW states \in [reporting -> 1 .. MaxVersion],
               Report(states)
        PROVE  InSync'
    BY <2>3, <1>q, ReportKeepsSync
  <2>4. ASSUME NEW written \in SUBSET DOMAIN outgoing, Cache(written) PROVE InSync'
    BY <2>4, SyncFrame DEF Cache, FeedCache, react
  <2>5. ASSUME Emit PROVE InSync'
    BY <2>5, <1>q, EmitKeepsSync
  <2>6. ASSUME NEW states, ReportUnanswered(states) PROVE FALSE
    BY <2>6, <1>f DEF ReportUnanswered
  <2>7. ASSUME EmitFails \/ ColdRedis PROVE FALSE
    BY <2>7, <1>f DEF EmitFails, ColdRedis
  <2> QED BY <1>1, <2>1, <2>2, <2>3, <2>4, <2>5, <2>6, <2>7 DEF BackendStep
<1>2. ASSUME NEW q \in Requests, HandlerStep(q) PROVE InSync'
  <2>1. UNCHANGED <<newest, outgoing, inbox, pending, queued>>
    BY <1>2 DEF HandlerStep, List, ReadCache, ReadRow, WriteBack, FeedWriteBack, backend, react
  <2> QED BY <2>1, SyncFrame
<1>3. ASSUME NetworkStep PROVE FALSE
  <2>1. ASSUME NEW q \in Requests, RequestFails(q) \/ RequestHangs(q) PROVE FALSE
    BY <2>1, <1>f DEF RequestFails, RequestHangs
  <2>2. ASSUME Connect \/ Join PROVE FALSE
    BY <2>2, <1>q DEF Connect, Join
  <2>3. ASSUME Drop PROVE FALSE
    BY <2>3, <1>f DEF Drop
  <2> QED BY <1>3, <2>1, <2>2, <2>3 DEF NetworkStep
<1>4. ASSUME LoadDone \/ ResyncDone PROVE FALSE
  BY <1>4, <1>q DEF LoadDone, ResyncDone, Complete
<1>5. ASSUME HandleBatch PROVE InSync'
  BY <1>5, HandleKeepsSync
<1>6. ASSUME Tick PROVE InSync'
  BY <1>6, <1>q, TickKeepsSync
<1>7. ASSUME Render \/ AlignRef PROVE InSync'
  BY <1>7, SyncFrame DEF Render, AlignRef, backend
<1>8. ASSUME UNCHANGED vars PROVE InSync'
  BY <1>8, SyncFrame DEF vars, page, backend, react
<1> QED
  BY <1>1, <1>2, <1>3, <1>4, <1>5, <1>6, <1>7, <1>8 DEF Next, BrowserStep

\* Batches, pending map and tick never make a dashboard that is in sync miss an
\* update, whichever agents a batch names and however many are under way.
THEOREM StaysInSyncCorrect ==
  (Spec => StaysInSync) /\ (LoadedSpec => StaysInSync)
<1>1. DashTypeOK /\ UpdatesInOrder /\ [Next]_vars =>
        [Calm /\ InSync /\ Calm' /\ faults' = faults => InSync']_vars
  BY NextSync
<1> QED BY <1>1, DashInvCorrect, PTL DEF Spec, LoadedSpec, StaysInSync

-----------------------------------------------------------------------------
(* A page that nothing disturbs *)

\* No agent registers and nothing fails: the page knows every agent that can
\* report, so it needs no resync, and its renders catch up with the queue.
UndisturbedInv ==
  /\ get = [q \in Requests |-> "no"] /\ link = "joined"
  /\ {agents, queued, agentsRef} \subseteq Snapshots
  /\ DOMAIN agents = fleet /\ DOMAIN queued = fleet /\ DOMAIN agentsRef = fleet
  /\ DOMAIN outgoing \subseteq fleet
  /\ \A i \in 1 .. Len(inbox) : DOMAIN inbox[i] \subseteq fleet
  /\ ~renderDue => agents = queued
  /\ InSync

LEMMA InitUndisturbed == LoadedInit => UndisturbedInv
<1> SUFFICES ASSUME LoadedInit PROVE UndisturbedInv
  OBVIOUS
<1>1. DashTypeOK
  BY LoadedDashType
<1>2. /\ agents = Snapshot /\ queued = Snapshot /\ agentsRef = Snapshot
      /\ outgoing = Empty /\ pending = Empty /\ Len(inbox) = 0
      /\ get = [q \in Requests |-> "no"] /\ link = "joined"
  BY DEF LoadedInit
<1>3. Snapshot \in Snapshots /\ DOMAIN Snapshot = fleet
  <2>1. fleet \subseteq Agents /\ Snapshot \in [fleet -> Versions]
    BY <1>1 DEF DashTypeOK, Snapshot
  <2> QED BY <2>1, SnapshotIntro
<1>4. InSync
  BY <1>2, EmptyIsSnapshot DEF InSync, UnderWay, Snapshot
<1> QED BY <1>2, <1>3, <1>4, EmptyIsSnapshot DEF UndisturbedInv

LEMMA NextUndisturbed ==
  DashTypeOK /\ UpdatesInOrder /\ UndisturbedInv /\ [Next]_vars
    /\ fleet' = fleet /\ faults = 0 /\ faults' = 0
  => UndisturbedInv'
<1> SUFFICES ASSUME DashTypeOK, UpdatesInOrder, UndisturbedInv, [Next]_vars,
                    fleet' = fleet, faults = 0, faults' = 0
             PROVE  UndisturbedInv'
  OBVIOUS
<1> DEFINE Frame ==
      /\ get = [q \in Requests |-> "no"] /\ link = "joined"
      /\ {agents, queued, agentsRef} \subseteq Snapshots
      /\ DOMAIN agents = fleet /\ DOMAIN queued = fleet /\ DOMAIN agentsRef = fleet
      /\ DOMAIN outgoing \subseteq fleet
      /\ \A i \in 1 .. Len(inbox) : DOMAIN inbox[i] \subseteq fleet
      /\ ~renderDue => agents = queued
<1>0. Frame /\ InSync
  BY DEF UndisturbedInv
<1>f. ASSUME NEW kind, Fault(kind) PROVE FALSE
  BY <1>f DEF Fault
<1>n. NotLoaded \notin Snapshots
  BY DashboardAssumption
<1>1. ASSUME BackendStep PROVE Frame'
  <2>1. ASSUME NEW a \in Agents, Register(a) PROVE FALSE
    BY <2>1 DEF Register, FeedRegister
  <2>2. ASSUME NEW a \in Agents, NEW state \in 1 .. newest[a], OtherWriteBack(a, state)
        PROVE  Frame'
    BY <1>0, <2>2 DEF OtherWriteBack, FeedWriteBack, page, react
  <2>3. ASSUME NEW reporting \in SUBSET fleet, NEW states \in [reporting -> 1 .. MaxVersion],
               Report(states)
        PROVE  Frame'
    BY <1>0, <2>3 DEF Report, FeedStore, page, react
  <2>4. ASSUME NEW written \in SUBSET DOMAIN outgoing, Cache(written) PROVE Frame'
    BY <1>0, <2>4 DEF Cache, FeedCache, react
  <2>5. ASSUME Emit PROVE Frame'
    <3>1. inbox' = Append(inbox, outgoing) /\ inbox \in Seq(Snapshots)
      BY <1>0, <2>5 DEF Emit, DashTypeOK
    <3>2. \A i \in 1 .. Len(inbox') : DOMAIN inbox'[i] \subseteq fleet
      BY <1>0, <3>1
    <3>3. DOMAIN outgoing' = {}
      BY <2>5, EmptyIsSnapshot DEF Emit, FeedTaken
    <3> QED BY <1>0, <2>5, <3>2, <3>3 DEF Emit, react
  <2>6. ASSUME NEW states, ReportUnanswered(states) PROVE FALSE
    BY <2>6, <1>f DEF ReportUnanswered
  <2>7. ASSUME EmitFails \/ ColdRedis PROVE FALSE
    BY <2>7, <1>f DEF EmitFails, ColdRedis
  <2> QED BY <1>1, <2>1, <2>2, <2>3, <2>4, <2>5, <2>6, <2>7 DEF BackendStep
<1>2. ASSUME NEW q \in Requests, HandlerStep(q) PROVE Frame'
  <2>1. ASSUME List(q) PROVE FALSE
    BY <1>0, <2>1 DEF List
  <2>2. UNCHANGED <<outgoing, get, link, inbox, agentsRef, agents, queued, renderDue>>
    BY <1>2, <2>1 DEF HandlerStep, ReadCache, ReadRow, WriteBack, FeedWriteBack, backend, react
  <2> QED BY <1>0, <2>2
<1>3. ASSUME NetworkStep PROVE FALSE
  <2>1. ASSUME NEW q \in Requests, RequestFails(q) \/ RequestHangs(q) PROVE FALSE
    BY <2>1, <1>f DEF RequestFails, RequestHangs
  <2>2. ASSUME Connect \/ Join PROVE FALSE
    BY <1>0, <2>2 DEF Connect, Join
  <2>3. ASSUME Drop PROVE FALSE
    BY <2>3, <1>f DEF Drop
  <2> QED BY <1>3, <2>1, <2>2, <2>3 DEF NetworkStep
<1>4. ASSUME LoadDone \/ ResyncDone PROVE FALSE
  BY <1>0, <1>4 DEF LoadDone, ResyncDone, Complete, Requests
<1>5. ASSUME HandleBatch PROVE Frame'
  <2>1. inbox \in Seq(Snapshots) /\ inbox # <<>> /\ inbox' = Tail(inbox)
    BY <1>5 DEF HandleBatch, DashTypeOK
  <2>2. /\ 1 \in 1 .. Len(inbox) /\ Head(inbox) = inbox[1]
        /\ \A i \in 1 .. Len(inbox') : inbox'[i] = inbox[i + 1] /\ i + 1 \in 1 .. Len(inbox)
    BY <2>1
  <2>3. DOMAIN Head(inbox) \subseteq DOMAIN agentsRef /\ agentsRef # NotLoaded
    BY <1>0, <1>n, <2>2
  <2>4. UNCHANGED get
    BY <1>5, <2>3 DEF HandleBatch
  <2> QED BY <1>0, <1>5, <2>2, <2>4 DEF HandleBatch, backend, react
<1>6. ASSUME Tick PROVE Frame'
  <2>1. queued \in Snapshots /\ pending \in Snapshots /\ queued # NotLoaded
    BY <1>0, <1>n DEF DashTypeOK
  <2>2. queued' = Merge(pending, queued) /\ renderDue'
    BY <1>6, <2>1 DEF Tick
  <2>3. queued' \in Snapshots /\ DOMAIN queued' = fleet
    BY <1>0, <2>1, <2>2, MergeIsSnapshot DEF Merge
  <2> QED BY <1>0, <1>6, <2>2, <2>3 DEF Tick, backend
<1>7. ASSUME Render \/ AlignRef PROVE Frame'
  BY <1>0, <1>7 DEF Render, AlignRef, backend
<1>8. ASSUME UNCHANGED vars PROVE Frame'
  BY <1>0, <1>8 DEF vars, page, backend, react
<1>9. Frame'
  BY <1>1, <1>2, <1>3, <1>4, <1>5, <1>6, <1>7, <1>8 DEF Next, BrowserStep
<1>10. Calm /\ Calm'
  BY <1>0, <1>9, <1>n DEF Calm, Requests
<1>11. InSync'
  BY <1>0, <1>10, NextSync
<1> QED BY <1>9, <1>11 DEF UndisturbedInv

\* A loaded page to which no agent is added and no fault happens shows, whenever
\* nothing is under way, exactly the fleet in its newest states: for any number
\* of agents, of reports and of batches between two ticks.
THEOREM UndisturbedPageIsExact ==
  LoadedSpec /\ [][fleet' = fleet]_vars /\ [](faults = 0) => [](Quiet => agents = Snapshot)
<1>1. UndisturbedInv /\ DashTypeOK /\ UpdatesInOrder /\ [Next]_vars
        /\ [fleet' = fleet]_vars /\ faults = 0 /\ (faults = 0)'
      => UndisturbedInv'
  <2>1. [fleet' = fleet]_vars => fleet' = fleet
    BY DEF vars, backend
  <2> QED BY <2>1, NextUndisturbed
<1>2. DashTypeOK /\ UndisturbedInv => (Quiet => agents = Snapshot)
  <2> SUFFICES ASSUME DashTypeOK, UndisturbedInv, Quiet PROVE agents = Snapshot
    OBVIOUS
  <2>1. agents = queued /\ agents \in Snapshots /\ DOMAIN agents = fleet /\ InSync
    BY DEF UndisturbedInv, Quiet
  <2>2. \A a \in fleet : UnderWay(a) = {}
    BY EmptyIsSnapshot DEF Quiet, UnderWay
  <2>3. \A a \in fleet : agents[a] = newest[a]
    BY <2>1, <2>2 DEF InSync
  <2>4. agents = [a \in fleet |-> agents[a]]
    BY <2>1, SnapshotElim
  <2> QED BY <2>3, <2>4 DEF Snapshot
<1> QED BY <1>1, <1>2, InitUndisturbed, DashInvCorrect, PTL DEF LoadedSpec
==============================================================================
