------------------------------ MODULE Dashboard ------------------------------
(***************************************************************************)
(* The live fleet view of the browser (frontend/src/App.tsx): the initial  *)
(* REST load, the Socket.IO batches collected in pendingUpdatesRef and     *)
(* applied once per second, and the REST resync after a reconnect or an    *)
(* unknown agent.  Every callback runs to completion, so each is one       *)
(* action; what may interleave is their order.  An agent's state is        *)
(* abstracted to its version: 0 is latest_state null.  The backend is      *)
(* reduced to what a client sees of it, the steps of LiveFeed.             *)
(***************************************************************************)
EXTENDS LiveFeed, Sequences

CONSTANTS
  MaxInbox,    \* bound on the batches under way to the browser
  MaxFaults,   \* bound on the faults of a behaviour
  Faults,      \* which faults the environment may cause
  Bystanders,  \* whether other clients ask for the current state too
  Reporters,   \* the agents of the running simulator
  NotLoaded    \* null, the initial agents state

AllFaults ==
  {"drop",    \* the Socket.IO connection breaks
   "emit",    \* a broadcast raises, or never comes
   "reply",   \* the answer to the COMMIT of a window is lost
   "redis",   \* a pipeline fails half way, or a SET
   "cold",    \* Redis restarts empty
   "load",    \* the initial GET current-state fails
   "resync",  \* the GET of a resync fails
   "silent"}  \* a GET is never answered; fetch has no timeout

Snapshots == UNION {[known -> Versions] : known \in SUBSET Agents}

ASSUME DashboardAssumption ==
  /\ MaxVersion \in Nat /\ MaxInbox \in Nat /\ MaxFaults \in Nat
  /\ Faults \subseteq AllFaults
  /\ Bystanders \in BOOLEAN /\ Reporters \subseteq Agents
  /\ NotLoaded \notin Snapshots

VARIABLES
  link,       \* "new", "down", "open" (transport only) or "joined"
  inbox,      \* batches emitted to this client, in order
  agents,     \* the rendered React state
  queued,     \* that state with the queued setAgents calls applied
  renderDue,  \* React has a render to do
  effectDue,  \* a render is committed, its effect has not run
  agentsRef,  \* agentsRef.current
  pending,    \* pendingUpdatesRef.current
  get,        \* per request: "no", "asked", "reading" or "silent"
  left,       \* per request: the agents it has listed and not come to yet
  missed,     \* per request: the agent whose key was missing in Redis
  row,        \* per request: its row, read and not written back yet
  data,       \* per request: its answer so far
  error,      \* the table shows the error branch
  faults      \* number of faults so far

react   == <<agents, queued, renderDue, effectDue>>
handler == <<left, missed, row, data>>
page    == <<link, inbox, react, agentsRef, pending, get, handler, error, faults>>
vars    == <<backend, page>>

\* The GETs of current-state: the initial load and the one resync.
Requests == {"load", "resync"}

Snapshot == [a \in fleet |-> newest[a]]

\* The updater of the flush tick: known agents get their newest state.
Merge(updates, state) ==
  [a \in DOMAIN state |->
     IF a \in DOMAIN updates THEN updates[a] ELSE state[a]]

Fault(kind) == kind \in Faults /\ faults < MaxFaults /\ faults' = faults + 1

-----------------------------------------------------------------------------
(* The backend as the client sees it *)

Register(a) == FeedRegister(a) /\ UNCHANGED page

\* Faulty variant of Report: the window is broadcast before it is stored.
ReportUnstored(states) ==
  /\ outgoing = Empty
  /\ states # Empty /\ DOMAIN states \subseteq fleet
  /\ outgoing' = states
  /\ UNCHANGED <<fleet, newest, cached, piped, page>>

\* A window is stored; its pipeline and its broadcast come later.
Report(states) == FeedStore(states) /\ UNCHANGED page

ReportUnanswered(states) ==
  /\ FeedStoreOnly(states) /\ Fault("reply")
  /\ UNCHANGED <<link, inbox, react, agentsRef, pending, get, handler, error>>

Cache(written) ==
  /\ FeedCache(written)
  /\ \/ written = DOMAIN outgoing /\ UNCHANGED faults
     \/ Fault("redis")
  /\ UNCHANGED <<link, inbox, react, agentsRef, pending, get, handler, error>>

\* sio.emit reaches the clients that have joined at that moment.
Emit ==
  /\ FeedTaken
  /\ link = "joined" => Len(inbox) < MaxInbox
  /\ inbox' = IF link = "joined" THEN Append(inbox, outgoing) ELSE inbox
  /\ UNCHANGED <<link, react, agentsRef, pending, get, handler, error, faults>>

EmitFails ==
  /\ FeedLost /\ Fault("emit")
  /\ UNCHANGED <<link, inbox, react, agentsRef, pending, get, handler, error>>

\* The GET of another client rebuilds the cache for an agent.
OtherWriteBack(a, state) ==
  /\ Bystanders
  /\ FeedWriteBack(a, state)
  /\ UNCHANGED page

ColdRedis ==
  /\ FeedCold /\ Fault("cold")
  /\ UNCHANGED <<link, inbox, react, agentsRef, pending, get, handler, error>>

-----------------------------------------------------------------------------
(* GET current-state: the initial load, and the resync *)

\* resyncCurrentState up to the fetch: skipped while one is in flight.
StartResync ==
  /\ get' = IF get["resync"] = "no" THEN [get EXCEPT !["resync"] = "asked"] ELSE get
  /\ UNCHANGED handler

\* get_current_state lists the agents, then awaits the state of one after the
\* other: its answer mixes moments.  The order is left open, which also covers
\* a pipeline that is half executed.
List(q) ==
  /\ get[q] = "asked"
  /\ get' = [get EXCEPT ![q] = "reading"] /\ left' = [left EXCEPT ![q] = fleet]
  /\ UNCHANGED <<backend, link, inbox, react, agentsRef, pending, missed, row, data,
                 error, faults>>

Answered(q, a, state) ==
  data' = [data EXCEPT ![q] = Put([b \in {a} |-> state], @)]

\* The key of the next agent is there, or its row has to be read.
ReadCache(q, a) ==
  /\ a \in left[q] /\ missed[q] = {} /\ row[q] = Empty
  /\ left' = [left EXCEPT ![q] = @ \ {a}]
  /\ \/ cached[a] # 0 /\ Answered(q, a, cached[a]) /\ UNCHANGED missed
     \/ cached[a] = 0 /\ missed' = [missed EXCEPT ![q] = {a}] /\ UNCHANGED data
  /\ UNCHANGED <<backend, link, inbox, react, agentsRef, pending, get, row, error, faults>>

ReadRow(q, a, state) ==
  /\ a \in missed[q] /\ state \in RowStates(a)
  /\ missed' = [missed EXCEPT ![q] = {}]
  /\ \/ state = 0 /\ Answered(q, a, 0) /\ UNCHANGED row
     \/ /\ state # 0 /\ row' = [row EXCEPT ![q] = [b \in {a} |-> state]]
        /\ UNCHANGED data
  /\ UNCHANGED <<backend, link, inbox, react, agentsRef, pending, get, left, error, faults>>

\* The SET has no guard; its failure is only logged.
WriteBack(q, a) ==
  /\ a \in DOMAIN row[q]
  /\ \/ FeedWriteBack(a, row[q][a]) /\ UNCHANGED faults
     \/ Fault("redis") /\ UNCHANGED backend
  /\ Answered(q, a, row[q][a]) /\ row' = [row EXCEPT ![q] = Empty]
  /\ UNCHANGED <<link, inbox, react, agentsRef, pending, get, left, missed, error>>

Complete(q) == get[q] = "reading" /\ left[q] = {} /\ missed[q] = {} /\ row[q] = Empty

EndRequest(q, outcome) ==
  /\ get' = [get EXCEPT ![q] = outcome]
  /\ left' = [left EXCEPT ![q] = {}] /\ missed' = [missed EXCEPT ![q] = {}]
  /\ row' = [row EXCEPT ![q] = Empty] /\ data' = [data EXCEPT ![q] = Empty]

\* The answer of the initial load arrives.
LoadDone ==
  /\ Complete("load") /\ EndRequest("load", "no")
  /\ queued' = data["load"] /\ renderDue' = TRUE
  /\ UNCHANGED <<backend, link, inbox, agents, effectDue, agentsRef, pending, error,
                 faults>>

\* The answer of a resync replaces the whole array, and agentsRef eagerly.
ResyncDone ==
  /\ Complete("resync") /\ EndRequest("resync", "no")
  /\ agentsRef' = data["resync"] /\ queued' = data["resync"] /\ renderDue' = TRUE
  /\ UNCHANGED <<backend, link, inbox, agents, effectDue, pending, error, faults>>

\* Faulty variant of RequestFails: the guard is released only after success.
RequestFailsKeepsGuard(q) ==
  /\ get[q] \in {"asked", "reading"} /\ Fault(q)
  /\ EndRequest(q, "stuck")
  /\ error' = (error \/ q = "load")
  /\ UNCHANGED <<backend, link, inbox, react, agentsRef, pending>>

\* A failed load shows the error branch; a failed resync is only logged.
RequestFails(q) ==
  /\ get[q] \in {"asked", "reading"} /\ Fault(q)
  /\ EndRequest(q, "no")
  /\ error' = (error \/ q = "load")
  /\ UNCHANGED <<backend, link, inbox, react, agentsRef, pending>>

RequestHangs(q) ==
  /\ get[q] \in {"asked", "reading"} /\ Fault("silent")
  /\ EndRequest(q, "silent")
  /\ UNCHANGED <<backend, link, inbox, react, agentsRef, pending, error>>

-----------------------------------------------------------------------------
(* The connection *)

\* The transport is open.  The Manager fires "reconnect" here, before the
\* namespace is joined, after an outage or a failed first attempt.
Connect ==
  /\ link \in {"new", "down"} /\ link' = "open"
  /\ \/ StartResync
     \/ link = "new" /\ UNCHANGED <<get, handler>>
  /\ UNCHANGED <<backend, inbox, react, agentsRef, pending, error, faults>>

Join ==
  /\ link = "open" /\ link' = "joined"
  /\ UNCHANGED <<backend, inbox, react, agentsRef, pending, get, handler, error, faults>>

\* What was under way is lost; there is no replay.
Drop ==
  /\ link \in {"open", "joined"} /\ Fault("drop")
  /\ link' = "down" /\ inbox' = <<>>
  /\ UNCHANGED <<backend, react, agentsRef, pending, get, handler, error>>

-----------------------------------------------------------------------------
(* Live updates *)

Known(batch)   == [a \in DOMAIN batch \cap DOMAIN agentsRef |-> batch[a]]

\* Faulty variant of HandleBatch: the first update of a tick wins.
HandleBatchFirstWins ==
  /\ inbox # <<>>
  /\ inbox' = Tail(inbox)
  /\ IF agentsRef = NotLoaded
     THEN UNCHANGED <<pending, get, handler>>
     ELSE /\ pending' = Put(pending, Known(Head(inbox)))
          /\ IF DOMAIN Head(inbox) \subseteq DOMAIN agentsRef
             THEN UNCHANGED <<get, handler>> ELSE StartResync
  /\ UNCHANGED <<backend, link, react, agentsRef, error, faults>>

\* Faulty variant of HandleBatch: unknown agents are skipped silently.
HandleBatchKnownOnly ==
  /\ inbox # <<>>
  /\ inbox' = Tail(inbox)
  /\ pending' = IF agentsRef = NotLoaded THEN pending
                ELSE Put(Known(Head(inbox)), pending)
  /\ UNCHANGED <<backend, link, react, agentsRef, get, handler, error, faults>>

\* onTelemetryBatch.  Before the first snapshot a batch is ignored; the
\* first unknown agent triggers the shared resync.
HandleBatch ==
  /\ inbox # <<>>
  /\ inbox' = Tail(inbox)
  /\ IF agentsRef = NotLoaded
     THEN UNCHANGED <<pending, get, handler>>
     ELSE /\ pending' = Put(Known(Head(inbox)), pending)
          /\ IF DOMAIN Head(inbox) \subseteq DOMAIN agentsRef
             THEN UNCHANGED <<get, handler>> ELSE StartResync
  /\ UNCHANGED <<backend, link, react, agentsRef, error, faults>>

\* Faulty variant of Tick: the pending map is cleared after the render, so
\* its updates are applied to the state of the last render.
TickOverRendered ==
  /\ pending # Empty
  /\ pending' = Empty
  /\ queued' = IF agents = NotLoaded THEN queued ELSE Merge(pending, agents)
  /\ renderDue' = (renderDue \/ agents # NotLoaded)
  /\ UNCHANGED <<backend, link, inbox, agents, effectDue, agentsRef, get, handler, error,
                 faults>>

\* The one-second flush: snapshot, clear, and queue the functional update.
Tick ==
  /\ pending # Empty
  /\ pending' = Empty
  /\ queued' = IF queued = NotLoaded THEN queued ELSE Merge(pending, queued)
  /\ renderDue' = (renderDue \/ queued # NotLoaded)
  /\ UNCHANGED <<backend, link, inbox, agents, effectDue, agentsRef, get, handler, error,
                 faults>>

\* React renders the queued updates; the effect of the previous render has
\* run by then.
Render ==
  /\ renderDue /\ ~effectDue
  /\ agents' = queued /\ renderDue' = FALSE /\ effectDue' = TRUE
  /\ UNCHANGED <<backend, link, inbox, queued, agentsRef, pending, get, handler, error,
                 faults>>

\* The effect on [agents].
AlignRef ==
  /\ effectDue
  /\ agentsRef' = agents /\ effectDue' = FALSE
  /\ UNCHANGED <<backend, link, inbox, agents, queued, renderDue, pending, get, handler,
                 error, faults>>

-----------------------------------------------------------------------------

NoRequest ==
  /\ left = [q \in Requests |-> {}] /\ missed = [q \in Requests |-> {}]
  /\ row = [q \in Requests |-> Empty] /\ data = [q \in Requests |-> Empty]

Init ==
  /\ FeedInit
  /\ link = "new" /\ inbox = <<>>
  /\ agents = NotLoaded /\ queued = NotLoaded /\ agentsRef = NotLoaded
  /\ renderDue = FALSE /\ effectDue = FALSE /\ pending = Empty
  /\ get = [q \in Requests |-> IF q = "load" THEN "asked" ELSE "no"] /\ NoRequest
  /\ error = FALSE /\ faults = 0

BackendStep ==
  \/ \E a \in Agents :
       Register(a) \/ \E state \in 1 .. newest[a] : OtherWriteBack(a, state)
  \/ \E reporting \in SUBSET fleet : \E states \in [reporting -> 1 .. MaxVersion] :
       Report(states) \/ ReportUnanswered(states)
  \/ \E written \in SUBSET DOMAIN outgoing : Cache(written)
  \/ Emit
  \/ EmitFails
  \/ ColdRedis

\* The handler of get_current_state.
HandlerStep(q) ==
  \/ List(q)
  \/ \E a \in Agents :
       \/ ReadCache(q, a)
       \/ \E state \in RowStates(a) : ReadRow(q, a, state)
       \/ WriteBack(q, a)

NetworkStep ==
  \/ \E q \in Requests : RequestFails(q) \/ RequestHangs(q)
  \/ Connect \/ Join \/ Drop

\* The callbacks of the browser's event loop.
BrowserStep == LoadDone \/ ResyncDone \/ HandleBatch \/ Tick \/ Render

Next ==
  \/ BackendStep
  \/ \E q \in Requests : HandlerStep(q)
  \/ NetworkStep
  \/ BrowserStep
  \/ AlignRef

Spec == Init /\ [][Next]_vars

\* A page that has loaded and joined, with nothing under way and a warm cache.
LoadedInit ==
  /\ fleet \in SUBSET Agents /\ newest \in [Agents -> Versions]
  /\ \A a \in Agents \ fleet : newest[a] = 0
  /\ cached = newest /\ outgoing = Empty /\ piped = FALSE
  /\ link = "joined" /\ inbox = <<>>
  /\ agents = Snapshot /\ queued = Snapshot /\ agentsRef = Snapshot
  /\ renderDue = FALSE /\ effectDue = FALSE /\ pending = Empty
  /\ get = [q \in Requests |-> "no"] /\ NoRequest
  /\ error = FALSE /\ faults = 0

LoadedSpec == LoadedInit /\ [][Next]_vars

\* The browser runs its callbacks, the network reconnects, a handler that is not
\* left without an answer goes on, a stored window is published, and the agents
\* of the running simulator report for ever.  Nothing else is promised: other
\* rows of the agents table (of registrations that were given up, of earlier
\* runs) may never report.
Fairness ==
  /\ WF_vars(\E written \in SUBSET DOMAIN outgoing : Cache(written)) /\ WF_vars(Emit)
  /\ WF_vars(Connect) /\ WF_vars(Join)
  /\ \A q \in Requests : WF_vars(HandlerStep(q))
  /\ WF_vars(LoadDone) /\ WF_vars(ResyncDone) /\ WF_vars(HandleBatch)
  /\ WF_vars(Tick) /\ WF_vars(Render) /\ WF_vars(AlignRef)
  /\ \A a \in Reporters :
       SF_vars(\E reporting \in SUBSET fleet : \E states \in [reporting -> 1 .. MaxVersion] :
                 a \in reporting /\ Report(states))

LiveSpec == Spec /\ Fairness

-----------------------------------------------------------------------------
(* Properties *)

\* Every variable has a value its declaration in App.tsx, or the wire, allows.
DashTypeOK ==
  /\ fleet \subseteq Agents
  /\ newest \in [Agents -> Versions] /\ cached \in [Agents -> Versions]
  /\ outgoing \in Snapshots /\ piped \in BOOLEAN
  /\ link \in {"new", "down", "open", "joined"} /\ inbox \in Seq(Snapshots)
  /\ agents \in Snapshots \cup {NotLoaded}
  /\ queued \in Snapshots \cup {NotLoaded}
  /\ agentsRef \in Snapshots \cup {NotLoaded}
  /\ renderDue \in BOOLEAN /\ effectDue \in BOOLEAN /\ pending \in Snapshots
  /\ get \in [Requests -> {"no", "asked", "reading", "silent"}]
  /\ left \in [Requests -> SUBSET Agents] /\ missed \in [Requests -> SUBSET Agents]
  /\ row \in [Requests -> Snapshots] /\ data \in [Requests -> Snapshots]
  /\ error \in BOOLEAN /\ faults \in 0 .. MaxFaults

\* f is nowhere newer than g.
NotNewer(f, g) == \A a \in DOMAIN f \cap DOMAIN g : f[a] <= g[a]

\* On the live channel an update that waits for the tick is not newer than any
\* that is still under way, those are ordered, and none is newer than what
\* Postgres holds: the last write of a tick picks the newest update.  Nothing of
\* the kind holds for REST, whose answers may be older (see RebuildIsSafe).
UpdatesInOrder ==
  /\ NotNewer(outgoing, newest)
  /\ \A i \in 1 .. Len(inbox) :
       /\ NotNewer(pending, inbox[i]) /\ NotNewer(inbox[i], outgoing)
       /\ NotNewer(inbox[i], newest)
       /\ \A j \in 1 .. i : NotNewer(inbox[j], inbox[i])
  /\ NotNewer(pending, outgoing) /\ NotNewer(pending, newest)

\* The states of a map are of agents that exist, and none is newer than what
\* Postgres holds.
Backed(map) == DOMAIN map \subseteq fleet /\ NotNewer(map, newest)

\* The page runs behind the database, never ahead of it: whatever it shows, is
\* about to show, waits for the tick, or has been read for it so far names agents
\* that exist, in states not newer than the newest stored one; although batches,
\* rows and cached states, old ones written back included, reach it on different
\* ways and in any order.
NeverAhead ==
  /\ \A map \in {agents, queued, agentsRef, pending} \ {NotLoaded} : Backed(map)
  /\ \A q \in Requests : Backed(data[q]) /\ Backed(row[q])

\* What the operator will see once the browser has nothing left to run.
View == IF queued = NotLoaded THEN NotLoaded ELSE Merge(pending, queued)

\* The pending map, the queued updates, the renders and the effect are
\* invisible: only an applied REST answer or a received batch changes what
\* the operator is about to see, so no update is lost between two ticks.
RenderingLosesNothing ==
  [][get' = get /\ inbox' = inbox => View' = View]_vars

\* The updates of agent a that are still to be applied.
UnderWay(a) ==
  (IF a \in DOMAIN outgoing THEN {outgoing[a]} ELSE {})
  \cup {inbox[i][a] : i \in {j \in 1 .. Len(inbox) : a \in DOMAIN inbox[j]}}
  \cup (IF a \in DOMAIN pending THEN {pending[a]} ELSE {})

\* Every agent of the dashboard shows, or is about to show, its newest state.
InSync ==
  \A a \in DOMAIN queued :
    IF UnderWay(a) = {} THEN queued[a] = newest[a] ELSE newest[a] \in UnderWay(a)

\* The live path alone is at work: no REST request is in flight, the
\* namespace is joined, and agentsRef knows exactly the agents on display.
Calm ==
  /\ get["load"] = "no" /\ get["resync"] = "no" /\ link = "joined"
  /\ queued # NotLoaded /\ agentsRef # NotLoaded
  /\ DOMAIN agentsRef = DOMAIN queued

\* Once in sync, the live path keeps the dashboard in sync: only a REST
\* answer or a fault can make it miss an update.
StaysInSync ==
  [][Calm /\ InSync /\ Calm' /\ faults' = faults => InSync']_vars

\* However the load, the connection, resyncs, other clients and registrations
\* interleave, when the faults have ended, every registered agent of the running
\* simulator comes to be listed with its newest state, beside agents that never
\* report; unless the initial load failed, for nothing ever clears that error, or
\* a GET is never answered, for then its guard stays set.
Converges ==
  <>[](\/ error \/ \E q \in Requests : get[q] = "silent"
       \/ /\ agents # NotLoaded
          /\ \A a \in Reporters \cap fleet :
               a \in DOMAIN agents /\ agents[a] = newest[a])

\* Nothing is under way anywhere.
Quiet ==
  /\ outgoing = Empty /\ inbox = <<>> /\ link = "joined"
  /\ get = [q \in Requests |-> "no"] /\ pending = Empty
  /\ ~renderDue /\ ~effectDue /\ ~error

\* docs/decision-log.md: re-reading current-state on reconnect "recovers any
\* missed deltas in one round trip": a page that was up to date is up to date
\* again when the reconnect and its resync are over.
ReconnectRecovers ==
  Quiet /\ faults > 0 => \A a \in DOMAIN agents : agents[a] = newest[a]
==============================================================================
