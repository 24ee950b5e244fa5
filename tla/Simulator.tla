------------------------------ MODULE Simulator ------------------------------
(***************************************************************************)
(* The fleet simulator (simulator/app/simulator.py, client.py) composed    *)
(* with the backend of AgentRegistry: the only client that registers       *)
(* agents and sends telemetry.  It awaits one request at a time and never  *)
(* repeats one.  A request that the client gave up may still be handled    *)
(* late, after any number of later ones, or never; its connection is not   *)
(* the one of the next request, and no item carries a sequence number.     *)
(*                                                                         *)
(* The developer's cleanup is left to AgentRegistry.                       *)
(***************************************************************************)
EXTENDS AgentRegistry, Placement

CONSTANTS
  Configs,        \* configurations the simulator may be started with
  FullBattery,    \* AgentState.battery of a newly registered agent
  EmptyBattery,   \* the level it never falls below
  Connections,    \* bound on the requests under way that nobody awaits
  SimDisruptions  \* which of these the environment may cause

AllSimDisruptions ==
  {"timeout",    \* the client gives up a request, or loses its answer
   "late",       \* a request nobody awaits any more is handled all the same
   "rerun"}      \* the simulator is stopped, and may be started again

ASSUME SimulatorAssumption ==
  /\ Configs \subseteq Config
  /\ FullBattery \in Int /\ EmptyBattery \in Int /\ EmptyBattery < FullBattery
  /\ EmptyBattery .. FullBattery - 1 \subseteq Batteries
  /\ SimDisruptions \subseteq AllSimDisruptions

VARIABLES
  phase,     \* the simulator: "off", "registering" or "running"
  specs,     \* while it registers: what build_agent_specs returned
  tried,     \* while it registers: how many of them it has tried
  created,   \* backend: the spec an agent's row was created from
  roster,    \* Simulator._agents, in order of registration
  request,   \* what it awaits: "none", "register" or "batch"
  stage,     \* of that request: "sent", "working", "answered", "failed"
  assigned,  \* ids the backend has assigned to that registration: one or none
  todo,      \* items of that batch which the handler has not looked at
  taken,     \* the handler's count of accepted items
  abandoned, \* per connection: the request nobody awaits, none or one
  lateTodo,  \* items of such a batch which its handler has not looked at
  late       \* auxiliary: seqs of the readings buffered from such batches

placement   == <<specs, tried>>
requestVars == <<request, stage, assigned, todo, taken>>
lateVars    == <<abandoned, lateTodo, late>>
simVars     == <<phase, placement, created, roster, requestVars, lateVars>>
systemVars  == <<fleetVars, simVars>>

NoSpec == [name |-> 0, at |-> <<0, 0>>]

NoRequest ==
  request = "none" /\ stage = "failed" /\ assigned = {} /\ todo = <<>> /\ taken = 0

EndRequest ==
  request' = "none" /\ stage' = "failed" /\ assigned' = {} /\ todo' = <<>> /\ taken' = 0

SendRequest(kind) ==
  /\ request = "none"
  /\ request' = kind /\ stage' = "sent"
  /\ UNCHANGED <<assigned, todo, taken>>

Ids(items) == {items[i].agent : i \in DOMAIN items}

\* What the client has sent and is waiting for.
Sent == [spec  |-> IF request = "register" THEN specs[tried] ELSE NoSpec,
         items |-> IF request = "batch" THEN roster ELSE <<>>]

\* The client stops waiting: the request is lost, or its handler is at work, or
\* it has not reached its handler yet.
Abandon ==
  \/ UNCHANGED abandoned
  \/ /\ "late" \in SimDisruptions /\ stage = "sent" /\ mode = "serving"
     /\ \E c \in Connections :
          abandoned[c] = {} /\ abandoned' = [abandoned EXCEPT ![c] = {Sent}]

-----------------------------------------------------------------------------
(* main(), register_agents() *)

\* A configuration that build_agent_specs rejects ends the program: no step.
Launch ==
  /\ phase = "off"
  /\ \E config \in Configs : Accepts(config) /\ specs' = BuildAgentSpecs(config)
  /\ phase' = "registering" /\ tried' = 0 /\ roster' = <<>>
  /\ UNCHANGED <<fleetVars, created, requestVars, lateVars>>

\* register_agent posts the next spec.
PostAgent ==
  /\ phase = "registering" /\ tried < Len(specs)
  /\ SendRequest("register")
  /\ tried' = tried + 1
  /\ UNCHANGED <<fleetVars, phase, specs, created, roster, lateVars>>

\* create_agent up to the refresh.
HandleAgent(a) ==
  /\ request = "register" /\ stage = "sent"
  /\ CommitAgent(a)
  /\ created' = [created EXCEPT ![a] = specs[tried]]
  /\ IF a \in refreshing' THEN stage' = "working" /\ assigned' = {a}
                          ELSE stage' = "failed"  /\ assigned' = {}
  /\ UNCHANGED <<phase, placement, roster, request, todo, taken, lateVars>>

\* The rest of create_agent, whether or not the client still waits for it.
AnswerAgent(a) ==
  /\ \/ RegisterAgent(a) /\ stage' = IF a \in assigned THEN "answered" ELSE stage
     \/ RefreshFails(a)  /\ stage' = IF a \in assigned THEN "failed" ELSE stage
  /\ UNCHANGED <<phase, placement, created, roster, request, assigned, todo, taken, lateVars>>

\* Faulty variant of AddAgent: specs and ids are paired by their positions in
\* the two lists, as if no registration failed.
AddAgentByPosition(a) ==
  /\ request = "register" /\ stage = "answered" /\ a \in assigned
  /\ roster' = Append(roster, [agent |-> a, battery |-> FullBattery,
                              at |-> specs[Len(roster) + 1].at])
  /\ EndRequest
  /\ UNCHANGED <<fleetVars, phase, placement, created, lateVars>>

\* The 201 arrives, and the agent joins the roster.
AddAgent(a) ==
  /\ request = "register" /\ stage = "answered" /\ a \in assigned
  /\ roster' = Append(roster, [agent |-> a, battery |-> FullBattery, at |-> specs[tried].at])
  /\ EndRequest
  /\ UNCHANGED <<fleetVars, phase, placement, created, lateVars>>

\* register_agents returns; run() exits at once without an agent.
EndRegistration ==
  /\ phase = "registering" /\ tried = Len(specs) /\ request = "none"
  /\ phase' = IF roster = <<>> THEN "off" ELSE "running"
  /\ specs' = <<>> /\ tried' = 0
  /\ UNCHANGED <<fleetVars, created, roster, requestVars, lateVars>>

-----------------------------------------------------------------------------
(* _tick() *)

\* Faulty variant of Drained: an empty battery is replaced.
DrainedOrReplaced(b) == IF b > EmptyBattery THEN b - 1 ELSE FullBattery - 1

\* _next_telemetry: the battery falls by one step, not below its minimum.
Drained(b) == IF b > EmptyBattery THEN b - 1 ELSE b

\* The telemetry of the whole roster goes out in one request.
PostTick ==
  /\ phase = "running"
  /\ accepted + Len(roster) <= MaxReadings
  /\ SendRequest("batch")
  /\ roster' = [i \in DOMAIN roster |->
                  [roster[i] EXCEPT !.battery = Drained(roster[i].battery)]]
  /\ UNCHANGED <<fleetVars, phase, placement, created, lateVars>>

\* post_telemetry_batch reaches ingest_telemetry_batch.
HandleTick ==
  /\ request = "batch" /\ stage = "sent" /\ mode = "serving"
  /\ stage' = "working" /\ todo' = roster
  /\ UNCHANGED <<fleetVars, phase, placement, created, roster, request, assigned, taken, lateVars>>

\* One turn of its loop, which has no await: nothing else runs in between.
HandleItem ==
  /\ todo # <<>>
  /\ todo' = Tail(todo)
  /\ stage' = IF Len(todo) = 1 THEN "answered" ELSE stage
  /\ IF Head(todo).agent \in known
     THEN IngestKnown(Head(todo).agent, Head(todo).battery) /\ taken' = taken + 1
     ELSE UNCHANGED <<fleetVars, taken>>
  /\ UNCHANGED <<phase, placement, created, roster, request, assigned, lateVars>>

\* The answer arrives: whatever it says, every item is counted as sent.
EndTick ==
  /\ request = "batch" /\ stage = "answered"
  /\ EndRequest
  /\ UNCHANGED <<fleetVars, phase, placement, created, roster, lateVars>>

\* An HTTPError: the registration is skipped, the tick counts nothing.
GiveUp ==
  /\ request # "none"
  /\ \/ /\ stage = "failed" \/ mode # "serving"
        /\ UNCHANGED abandoned
     \/ "timeout" \in SimDisruptions /\ Abandon
  /\ EndRequest
  /\ UNCHANGED <<fleetVars, phase, placement, created, roster, lateTodo, late>>

\* The simulator ends with all it knows; its agents stay registered.
Quit ==
  /\ "rerun" \in SimDisruptions
  /\ phase # "off" /\ phase' = "off"
  /\ specs' = <<>> /\ tried' = 0 /\ roster' = <<>>
  /\ IF request = "none" THEN UNCHANGED abandoned ELSE Abandon
  /\ EndRequest
  /\ UNCHANGED <<fleetVars, created, lateTodo, late>>

-----------------------------------------------------------------------------
(* Requests that are handled when nobody awaits them *)

NoneAbandoned == [c \in Connections |-> {}]

\* create_agent for a registration that counts as failed.
HandleLateAgent(c, a) ==
  /\ \E r \in abandoned[c] :
       r.items = <<>> /\ created' = [created EXCEPT ![a] = r.spec]
  /\ CommitAgent(a)
  /\ abandoned' = [abandoned EXCEPT ![c] = {}]
  /\ UNCHANGED <<phase, placement, roster, requestVars, lateTodo, late>>

\* Within the bound on readings, the batch that is awaited comes first.
HandleLateTick(c) ==
  /\ mode = "serving"
  /\ \E r \in abandoned[c] :
       /\ r.items # <<>>
       /\ accepted + Len(r.items) + (IF request = "batch" THEN Len(roster) ELSE 0)
            <= MaxReadings
       /\ lateTodo' = r.items
  /\ abandoned' = [abandoned EXCEPT ![c] = {}]
  /\ UNCHANGED <<fleetVars, phase, placement, created, roster, requestVars, late>>

\* HandleItem for such a batch; its count is answered to nobody.
HandleLateItem ==
  /\ lateTodo # <<>>
  /\ lateTodo' = Tail(lateTodo)
  /\ IF Head(lateTodo).agent \in known
     THEN /\ IngestKnown(Head(lateTodo).agent, Head(lateTodo).battery)
          /\ late' = late \cup {accepted'}
     ELSE UNCHANGED <<fleetVars, late>>
  /\ UNCHANGED <<phase, placement, created, roster, requestVars, abandoned>>

-----------------------------------------------------------------------------
(* The backend process beside its handlers *)

\* The connections break with the process; an answer may still arrive.
BreakRequest ==
  /\ stage' = IF stage = "answered" THEN stage ELSE "failed"
  /\ abandoned' = NoneAbandoned
  /\ UNCHANGED <<phase, placement, created, roster, request, assigned, todo, taken>>
  /\ UNCHANGED <<lateTodo, late>>

BackendStep ==
  \/ (StartProcess \/ FlushChecked) /\ UNCHANGED simVars
  \/ StopProcess /\ BreakRequest
  \/ CrashProcess /\ BreakRequest

SimInit ==
  /\ FleetInit
  /\ phase = "off" /\ specs = <<>> /\ tried = 0 /\ created = [a \in Agents |-> NoSpec]
  /\ roster = <<>> /\ NoRequest
  /\ abandoned = NoneAbandoned /\ lateTodo = <<>> /\ late = {}

SimStep ==
  \/ Launch
  \/ PostAgent
  \/ \E a \in Agents : HandleAgent(a) \/ AnswerAgent(a) \/ AddAgent(a)
  \/ EndRegistration
  \/ PostTick
  \/ HandleTick
  \/ EndTick
  \/ GiveUp
  \/ Quit

LateStep ==
  \E c \in Connections : HandleLateTick(c) \/ \E a \in Agents : HandleLateAgent(c, a)

SimNext ==
  \/ HandleItem
  \/ HandleLateItem
  \/ todo = <<>> /\ lateTodo = <<>> /\ (SimStep \/ LateStep \/ BackendStep)

SimSpec == SimInit /\ [][SimNext]_systemVars

-----------------------------------------------------------------------------
(* Properties *)

Item == [agent : Agents, battery : Batteries, at : Nat \X Nat]

SimTypeOK ==
  /\ FleetTypeOK
  /\ phase \in {"off", "registering", "running"}
  /\ specs \in Seq(AgentSpec) /\ tried \in 0 .. Len(specs)
  /\ created \in [Agents -> AgentSpec]
  /\ roster \in Seq([agent : Agents, battery : EmptyBattery .. FullBattery,
                     at : Nat \X Nat])
  /\ request \in {"none", "register", "batch"}
  /\ stage \in {"sent", "working", "answered", "failed"}
  /\ assigned \subseteq Agents
  /\ todo \in Seq(Item)
  /\ taken \in Nat
  /\ abandoned \in [Connections -> SUBSET [spec : AgentSpec, items : Seq(Item)]]
  /\ lateTodo \in Seq(Item) /\ late \subseteq 1 .. accepted

\* The simulator ignores the accepted count of the answer: "on success every
\* item in the batch was buffered".  It may, for the service never skips one
\* of its agents, whichever registrations failed and whenever the backend or
\* the simulator was restarted.
SentMeansBuffered ==
  request = "batch" /\ stage = "answered" => taken = Len(roster)

\* An agent moves from where it was registered: the row, name and id of an
\* agent and its place in the simulation come from one spec, whichever
\* registrations before it failed, were given up or answered too late.
StartsWhereRegistered ==
  \A i \in DOMAIN roster : roster[i].at = created[roster[i].agent].at

\* The battery of a simulated agent only falls, so its alert stays active for
\* ever, whatever windows, answers and processes were lost on the way; unless a
\* batch that the client had given up was handled after a newer one: only such a
\* late, older reading resolves an alert, and so lets a second one be raised.
OnlyLateReadingsResolve ==
  \A r \in alerts : r.resolvedBy = Unresolved \/ r.resolvedBy \in late
=============================================================================
