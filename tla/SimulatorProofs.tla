--------------------------- MODULE SimulatorProofs ---------------------------
(***************************************************************************)
(* Theorems about Simulator: with its one client, whose requests may be    *)
(* handled late, the backend still is the one of AgentRegistry; the client *)
(* may ignore the accepted count; only a late batch brings back a charge.  *)
(***************************************************************************)
EXTENDS Simulator, AgentRegistryProofs

Member == [agent : Agents, battery : EmptyBattery .. FullBattery, at : Nat \X Nat]
Posted == [agent : Agents, battery : EmptyBattery .. FullBattery - 1, at : Nat \X Nat]
Message == [spec : AgentSpec, items : Seq(Posted)]

ClientType ==
  /\ specs \in Seq(AgentSpec) /\ tried \in 0 .. Len(specs)
  /\ phase = "off" => request = "none"
  /\ request = "register" => tried > 0
  /\ created \in [Agents -> AgentSpec]
  /\ request \in {"none", "register", "batch"}
  /\ stage \in {"sent", "working", "answered", "failed"}
  /\ assigned \subseteq Agents
  /\ roster \in Seq(Member) /\ todo \in Seq(Posted)
  /\ taken \in Nat
  /\ request = "batch" => roster \in Seq(Posted)

LateType ==
  /\ abandoned \in [Connections -> SUBSET Message]
  /\ lateTodo \in Seq(Posted)

ItemsOf(items) == {items[i] : i \in DOMAIN items}

\* What the backend may still be told in requests that nobody awaits.
Waiting == UNION {abandoned[c] : c \in Connections}
Delayed == ItemsOf(lateTodo) \cup UNION {ItemsOf(m.items) : m \in Waiting}

\* What the client and the handler of its request know of the registry.
RequestInv ==
  /\ Ids(roster) \subseteq registered
  /\ request # "register" => assigned = {}
  /\ \A a, b \in assigned : a = b
  /\ stage = "answered" => assigned \subseteq registered
  /\ todo # <<>> => request = "batch" /\ stage = "working" /\ mode = "serving"
  /\ request # "batch" \/ stage = "sent" => taken = 0
  /\ request = "batch" /\ stage = "working" =>
       /\ taken + Len(todo) = Len(roster)
       /\ Ids(todo) \subseteq registered
  /\ request = "batch" /\ stage = "answered" => taken = Len(roster)

\* What a late request is about has been registered.
LateInv ==
  /\ assigned \subseteq agentRows
  /\ \A d \in Delayed : d.agent \in registered
  /\ late \subseteq 1 .. accepted

ClientInv == RequestInv /\ LateInv

-----------------------------------------------------------------------------
(* The backend *)

LEMMA SentBattery ==
  ASSUME NEW item \in Posted
  PROVE  item.agent \in Agents /\ item.battery \in Batteries
BY SimulatorAssumption DEF Posted

\* Every step is one of the backend, or leaves the backend as it is.
LEMMA SimStepIsFleetStep ==
  ASSUME ClientType, LateType, [SimNext]_systemVars
  PROVE  [FleetNext]_fleetVars
<1>1. CASE HandleItem
  <2>1. CASE Head(todo).agent \in known
    <3>1. Head(todo) \in Posted
      BY <1>1 DEF HandleItem, ClientType
    <3>2. IngestKnown(Head(todo).agent, Head(todo).battery)
      BY <1>1, <2>1 DEF HandleItem
    <3> QED BY <3>1, <3>2, SentBattery DEF FleetNext, AgentStep
  <2>2. CASE Head(todo).agent \notin known
    BY <1>1, <2>2 DEF HandleItem
  <2> QED BY <2>1, <2>2
<1>6. CASE HandleLateItem
  <2>1. CASE Head(lateTodo).agent \in known
    <3>1. Head(lateTodo) \in Posted
      BY <1>6 DEF HandleLateItem, LateType
    <3>2. IngestKnown(Head(lateTodo).agent, Head(lateTodo).battery)
      BY <1>6, <2>1 DEF HandleLateItem
    <3> QED BY <3>1, <3>2, SentBattery DEF FleetNext, AgentStep
  <2>2. CASE Head(lateTodo).agent \notin known
    BY <1>6, <2>2 DEF HandleLateItem
  <2> QED BY <2>1, <2>2
<1>2. ASSUME NEW a \in Agents, HandleAgent(a) \/ AnswerAgent(a) \/ AddAgent(a)
      PROVE  [FleetNext]_fleetVars
  BY <1>2 DEF HandleAgent, AnswerAgent, AddAgent, FleetNext, AgentStep
<1>7. CASE LateStep
  BY <1>7 DEF LateStep, HandleLateTick, HandleLateAgent, FleetNext, AgentStep
<1>3. CASE Launch \/ PostAgent \/ EndRegistration \/ PostTick \/ HandleTick
           \/ EndTick \/ GiveUp \/ Quit
  BY <1>3 DEF Launch, PostAgent, EndRegistration, PostTick, HandleTick, EndTick,
              GiveUp, Quit
<1>4. CASE BackendStep
  BY <1>4 DEF BackendStep, FleetNext, LifespanStep, StartProcess, StopProcess,
              CrashProcess, ForgetIfDown
<1>5. CASE UNCHANGED systemVars
  BY <1>5 DEF systemVars
<1> QED BY <1>1, <1>2, <1>3, <1>4, <1>5, <1>6, <1>7 DEF SimNext, SimStep

-----------------------------------------------------------------------------
(* Types *)

LEMMA SentIsItem == Seq(Posted) \subseteq Seq(Member)
<1>1. Posted \subseteq Member
  BY SimulatorAssumption DEF Posted, Member
<1> QED BY <1>1

LEMMA BuiltSpecs ==
  ASSUME NEW config \in Config
  PROVE  BuildAgentSpecs(config) \in Seq(AgentSpec)
<1>1. CASE config.mode = "local_cluster"
  <2>1. config.count \in Nat
    BY <1>1 DEF Config
  <2>2. LocalCluster(config.count) \in [1 .. config.count -> AgentSpec]
    BY <2>1 DEF LocalCluster, AgentSpec
  <2> QED BY <1>1, <2>1, <2>2 DEF BuildAgentSpecs
<1>2. CASE config.mode # "local_cluster"
  <2>1. config.entries \in Seq(Entry)
    BY <1>2 DEF Config
  <2>2. /\ DOMAIN config.entries = 1 .. Len(config.entries)
        /\ Len(config.entries) \in Nat
        /\ \A i \in DOMAIN config.entries : config.entries[i] \in Entry
    BY <2>1
  <2>3. FixedPoints(config.entries) \in [1 .. Len(config.entries) -> AgentSpec]
    BY <2>2 DEF FixedPoints, Entry, AgentSpec
  <2> QED BY <1>2, <2>2, <2>3 DEF BuildAgentSpecs
<1> QED BY <1>1, <1>2

\* The spec that is being registered.
LEMMA TriedSpec ==
  ASSUME ClientType, request = "register"
  PROVE  specs[tried] \in AgentSpec /\ specs[tried].at \in Nat \X Nat
<1>1. specs \in Seq(AgentSpec) /\ tried \in 1 .. Len(specs)
  BY DEF ClientType
<1>2. specs[tried] \in AgentSpec
  BY <1>1
<1> QED BY <1>2 DEF AgentSpec

LEMMA DrainedTick ==
  ASSUME roster \in Seq(Member), PostTick
  PROVE  /\ roster' \in Seq(Posted) /\ DOMAIN roster' = DOMAIN roster
         /\ \A i \in DOMAIN roster : roster'[i].agent = roster[i].agent
         /\ \A i \in DOMAIN roster : roster'[i].at = roster[i].at
<1>1. \A b \in EmptyBattery .. FullBattery : Drained(b) \in EmptyBattery .. FullBattery - 1
  BY SimulatorAssumption DEF Drained
<1>2. roster' = [i \in 1 .. Len(roster) |->
                   [roster[i] EXCEPT !.battery = Drained(roster[i].battery)]]
  BY DEF PostTick
<1>3. ASSUME NEW i \in 1 .. Len(roster)
      PROVE  /\ [roster[i] EXCEPT !.battery = Drained(roster[i].battery)] \in Posted
             /\ [roster[i] EXCEPT !.battery = Drained(roster[i].battery)].agent
                  = roster[i].agent
             /\ [roster[i] EXCEPT !.battery = Drained(roster[i].battery)].at
                  = roster[i].at
  <2>1. roster[i] \in Member
    OBVIOUS
  <2> QED BY <1>1, <2>1 DEF Member, Posted
<1>4. Len(roster) \in Nat /\ DOMAIN roster = 1 .. Len(roster)
  OBVIOUS
<1>5. roster' \in [1 .. Len(roster) -> Posted]
  BY <1>2, <1>3
<1>6. roster' \in Seq(Posted)
  BY <1>4, <1>5
<1> QED BY <1>2, <1>3, <1>4, <1>6

LEMMA NextClientType ==
  ASSUME ClientType, LateType, [SimNext]_systemVars
  PROVE  ClientType'
<1> USE DEF ClientType
<1>1. CASE HandleItem
  BY <1>1 DEF HandleItem, placement
<1>2. ASSUME NEW a \in Agents, HandleAgent(a) PROVE ClientType'
  <2>1. created' \in [Agents -> AgentSpec]
    BY <1>2, TriedSpec DEF HandleAgent
  <2> QED BY <1>2, <2>1 DEF HandleAgent, placement
<1>3. ASSUME NEW a \in Agents, AnswerAgent(a) PROVE ClientType'
  BY <1>3 DEF AnswerAgent, placement
<1>4. ASSUME NEW a \in Agents, AddAgent(a) PROVE ClientType'
  <2>1. [agent |-> a, battery |-> FullBattery, at |-> specs[tried].at] \in Member
    BY <1>4, TriedSpec, SimulatorAssumption DEF AddAgent, Member
  <2> QED BY <1>4, <2>1 DEF AddAgent, EndRequest, placement
<1>5. CASE Launch
  <2>1. specs' \in Seq(AgentSpec)
    BY <1>5, BuiltSpecs, SimulatorAssumption DEF Launch
  <2>2. tried' \in 0 .. Len(specs') /\ request' = request
    BY <1>5, <2>1 DEF Launch, requestVars
  <2> QED BY <1>5, <2>1, <2>2 DEF Launch, requestVars
<1>6. CASE PostAgent
  <2>1. tried' \in 0 .. Len(specs') /\ tried' > 0
    BY <1>6 DEF PostAgent
  <2> QED BY <1>6, <2>1 DEF PostAgent, SendRequest
<1>7. CASE EndRegistration
  BY <1>7 DEF EndRegistration, requestVars
<1>8. CASE PostTick
  <2>1. roster' \in Seq(Posted)
    BY <1>8, DrainedTick
  <2> QED BY <1>8, <2>1, SentIsItem DEF PostTick, SendRequest, placement
<1>9. CASE HandleTick
  BY <1>9 DEF HandleTick, placement
<1>10. CASE EndTick \/ GiveUp
  <2>1. EndRequest /\ UNCHANGED <<roster, placement, created>>
    BY <1>10 DEF EndTick, GiveUp
  <2> QED BY <2>1 DEF EndRequest, placement
<1>11. CASE Quit
  BY <1>11 DEF Quit, EndRequest
<1>12. CASE BackendStep
  BY <1>12 DEF BackendStep, BreakRequest, simVars, requestVars, placement
<1>13. CASE UNCHANGED systemVars
  BY <1>13 DEF systemVars, simVars, requestVars, placement
<1>14. ASSUME NEW c \in Connections, HandleLateTick(c) PROVE ClientType'
  BY <1>14 DEF HandleLateTick, requestVars, placement
<1>15. ASSUME NEW c \in Connections, NEW a \in Agents, HandleLateAgent(c, a)
       PROVE  ClientType'
  <2>1. PICK r \in abandoned[c] : created' = [created EXCEPT ![a] = r.spec]
    BY <1>15 DEF HandleLateAgent
  <2>2. r \in Message
    BY <2>1 DEF LateType
  <2>3. created' \in [Agents -> AgentSpec]
    BY <2>1, <2>2 DEF Message
  <2> QED BY <1>15, <2>3 DEF HandleLateAgent, requestVars, placement
<1>16. CASE HandleLateItem
  BY <1>16 DEF HandleLateItem, requestVars, placement
<1> QED
  BY <1>1, <1>2, <1>3, <1>4, <1>5, <1>6, <1>7, <1>8, <1>9, <1>10, <1>11, <1>12, <1>13,
     <1>14, <1>15, <1>16
  DEF SimNext, SimStep, LateStep

LEMMA InitClientType == SimInit => ClientType
<1> SUFFICES ASSUME SimInit PROVE ClientType
  OBVIOUS
<1>1. NoSpec \in AgentSpec
  BY DEF NoSpec, AgentSpec
<1> QED BY <1>1 DEF SimInit, NoRequest, ClientType

-----------------------------------------------------------------------------
(* The requests that nobody awaits *)

\* Every step leaves the abandoned requests as they are, adds the one that was
\* awaited, or takes one away.
LEMMA LateSteps ==
  ASSUME [SimNext]_systemVars
  PROVE  \/ UNCHANGED <<abandoned, lateTodo>>
         \/ Abandon /\ UNCHANGED lateTodo /\ request # "none"
         \/ abandoned' = NoneAbandoned /\ UNCHANGED lateTodo
         \/ HandleLateItem
         \/ \E c \in Connections :
              /\ abandoned' = [abandoned EXCEPT ![c] = {}]
              /\ lateTodo' = lateTodo \/ \E r \in abandoned[c] : lateTodo' = r.items
<1>1. ASSUME NEW a \in Agents, HandleAgent(a) \/ AnswerAgent(a) \/ AddAgent(a)
      PROVE  UNCHANGED <<abandoned, lateTodo>>
  BY <1>1 DEF HandleAgent, AnswerAgent, AddAgent, lateVars
<1>2. CASE Launch \/ PostAgent \/ EndRegistration \/ PostTick \/ HandleTick
           \/ EndTick \/ HandleItem \/ UNCHANGED systemVars
  BY <1>2 DEF Launch, PostAgent, EndRegistration, PostTick, HandleTick, EndTick,
              HandleItem, systemVars, simVars, lateVars
<1>3. CASE GiveUp \/ Quit
  BY <1>3 DEF GiveUp, Quit
<1>4. CASE LateStep
  BY <1>4 DEF LateStep, HandleLateTick, HandleLateAgent
<1>5. CASE BackendStep
  BY <1>5 DEF BackendStep, BreakRequest, simVars, lateVars
<1> QED BY <1>1, <1>2, <1>3, <1>4, <1>5 DEF SimNext, SimStep

LEMMA SentMessage ==
  ASSUME ClientType
  PROVE  Sent \in Message
<1>1. NoSpec \in AgentSpec
  BY DEF NoSpec, AgentSpec
<1>2. <<>> \in Seq(Posted)
  OBVIOUS
<1> QED BY <1>1, <1>2, TriedSpec DEF Sent, Message, ClientType

LEMMA NextLateType ==
  ASSUME ClientType, LateType, [SimNext]_systemVars
  PROVE  LateType'
<1> USE DEF LateType
<1>1. CASE Abandon /\ UNCHANGED lateTodo
  BY <1>1, SentMessage DEF Abandon
<1>2. CASE abandoned' = NoneAbandoned /\ UNCHANGED lateTodo
  BY <1>2 DEF NoneAbandoned
<1>3. CASE HandleLateItem
  BY <1>3 DEF HandleLateItem
<1>4. ASSUME NEW c \in Connections, abandoned' = [abandoned EXCEPT ![c] = {}],
             lateTodo' = lateTodo \/ \E r \in abandoned[c] : lateTodo' = r.items
      PROVE  LateType'
  <2>1. \A r \in abandoned[c] : r.items \in Seq(Posted)
    BY DEF Message
  <2> QED BY <1>4, <2>1
<1> QED BY <1>1, <1>2, <1>3, <1>4, LateSteps

\* Nothing is told that the client has not posted.
LEMMA NextDelayed ==
  ASSUME LateType, [SimNext]_systemVars
  PROVE  Delayed' \subseteq Delayed \cup ItemsOf(roster)
<1>1. CASE UNCHANGED <<abandoned, lateTodo>>
  BY <1>1 DEF Delayed, Waiting, ItemsOf
<1>2. CASE Abandon /\ UNCHANGED lateTodo
  <2>1. Waiting' \subseteq Waiting \cup {Sent}
    BY <1>2 DEF Abandon, Waiting, LateType
  <2>2. ItemsOf(Sent.items) \subseteq ItemsOf(roster)
    BY DEF Sent, ItemsOf
  <2>3. ItemsOf(lateTodo') = ItemsOf(lateTodo)
    BY <1>2
  <2> QED BY <2>1, <2>2, <2>3 DEF Delayed
<1>3. CASE abandoned' = NoneAbandoned /\ UNCHANGED lateTodo
  <2>1. Waiting' = {}
    BY <1>3 DEF Waiting, NoneAbandoned
  <2> QED BY <1>3, <2>1 DEF Delayed, ItemsOf
<1>4. CASE HandleLateItem
  <2>1. \A i \in DOMAIN lateTodo' : i + 1 \in DOMAIN lateTodo /\ lateTodo'[i] = lateTodo[i + 1]
    BY <1>4 DEF HandleLateItem, LateType
  <2>2. Waiting' = Waiting
    BY <1>4 DEF HandleLateItem, Waiting
  <2> QED BY <2>1, <2>2 DEF Delayed, ItemsOf
<1>5. ASSUME NEW c \in Connections, abandoned' = [abandoned EXCEPT ![c] = {}],
             lateTodo' = lateTodo \/ \E r \in abandoned[c] : lateTodo' = r.items
      PROVE  Delayed' \subseteq Delayed
  <2>1. Waiting' \subseteq Waiting
    BY <1>5 DEF Waiting, LateType
  <2>2. ItemsOf(lateTodo') \subseteq Delayed
    BY <1>5 DEF Delayed, Waiting
  <2> QED BY <2>1, <2>2 DEF Delayed
<1> QED BY <1>1, <1>2, <1>3, <1>4, <1>5, LateSteps

LEMMA InitLate == SimInit => LateType /\ Delayed = {}
<1> SUFFICES ASSUME SimInit PROVE LateType /\ Delayed = {}
  OBVIOUS
<1>1. Waiting = {} /\ lateTodo = <<>> /\ abandoned = NoneAbandoned
  BY DEF SimInit, Waiting, NoneAbandoned
<1>2. ItemsOf(<<>>) = {}
  BY DEF ItemsOf
<1> QED BY <1>1, <1>2 DEF Delayed, LateType, NoneAbandoned

-----------------------------------------------------------------------------
(* The roster, the request and the registry *)

\* Without a cleanup, an answered registration is never forgotten.
LEMMA RegisteredGrows ==
  ASSUME "cleanup" \notin RegistryDisruptions, [FleetNext]_fleetVars
  PROVE  registered \subseteq registered' /\ agentRows \subseteq agentRows'
BY DEF FleetNext, LifespanStep, fleetVars, registryVars, AgentStep, CommitAgent,
       RegisterAgent, RefreshFails, IngestKnown, FlushChecked, CleanUp, Truncate, FlushCache,
       ForgetIfDown

\* Steps that end the request, or start none, keep the invariant.
LEMMA EndKeepsInv ==
  ASSUME EndRequest, roster' \in {roster, <<>>}, RequestInv, registered \subseteq registered'
  PROVE  RequestInv'
BY DEF EndRequest, RequestInv, Ids

LEMMA ItemKeepsInv ==
  ASSUME ClientType, RequestInv, AcknowledgedIsKnown, HandleItem
  PROVE  RequestInv'
<1>1. /\ request = "batch" /\ stage = "working" /\ mode = "serving"
      /\ taken + Len(todo) = Len(roster) /\ Ids(todo) \subseteq registered
  BY DEF HandleItem, RequestInv
<1>2. todo \in Seq(Posted) /\ todo # <<>> /\ todo' = Tail(todo)
  BY DEF HandleItem, ClientType
<1>3. /\ Len(todo) \in Nat \ {0} /\ Len(todo') = Len(todo) - 1
      /\ Head(todo) = todo[1] /\ 1 \in DOMAIN todo
      /\ \A i \in DOMAIN todo' : i + 1 \in DOMAIN todo /\ todo'[i] = todo[i + 1]
  BY <1>2
<1>4. Head(todo).agent \in known
  BY <1>1, <1>3 DEF Ids, AcknowledgedIsKnown
<1>5. /\ taken' = taken + 1
      /\ UNCHANGED <<phase, mode, registered, roster, request, assigned>>
      /\ stage' = IF Len(todo) = 1 THEN "answered" ELSE stage
  BY <1>4 DEF HandleItem, IngestKnown, Ingest, registryVars
<1>6. Ids(todo') \subseteq registered
  BY <1>1, <1>3 DEF Ids
<1>7. taken \in Nat /\ Len(roster) \in Nat
  BY DEF ClientType
<1>8. assigned = {}
  BY <1>1 DEF RequestInv
<1>9. taken' + Len(todo') = Len(roster)
  BY <1>1, <1>3, <1>5, <1>7
<1>10. todo' # <<>> => stage' = "working"
  BY <1>1, <1>2, <1>3, <1>5
<1>11. stage' = "answered" => taken' = Len(roster)
  BY <1>1, <1>3, <1>5, <1>7
<1> QED BY <1>1, <1>5, <1>6, <1>8, <1>9, <1>10, <1>11 DEF RequestInv, Ids

LEMMA TickKeepsInv ==
  ASSUME ClientType, RequestInv, PostTick
  PROVE  RequestInv'
<1>1. /\ DOMAIN roster' = DOMAIN roster
      /\ \A i \in DOMAIN roster : roster'[i].agent = roster[i].agent
  BY DrainedTick DEF ClientType
<1>2. Ids(roster') = Ids(roster)
  BY <1>1 DEF Ids
<1>3. /\ UNCHANGED <<mode, registered, assigned, todo, taken>>
      /\ request = "none" /\ request' = "batch" /\ stage' = "sent" /\ phase' = "running"
  BY DEF PostTick, SendRequest, fleetVars, registryVars, vars, volatile
<1> QED BY <1>2, <1>3 DEF RequestInv, Ids

LEMMA AddKeepsInv ==
  ASSUME ClientType, RequestInv, NEW a \in Agents, AddAgent(a)
  PROVE  RequestInv'
<1>1. /\ roster' = Append(roster, [agent |-> a, battery |-> FullBattery,
                                   at |-> specs[tried].at])
      /\ a \in registered /\ registered' = registered
  BY DEF AddAgent, RequestInv, fleetVars, registryVars
<1>2. Ids(roster') = Ids(roster) \cup {a}
  <2>1. roster \in Seq(Member)
    BY DEF ClientType
  <2>2. /\ Len(roster') = Len(roster) + 1 /\ Len(roster) \in Nat
        /\ DOMAIN roster' = 1 .. Len(roster) + 1 /\ DOMAIN roster = 1 .. Len(roster)
        /\ roster'[Len(roster) + 1].agent = a
        /\ \A i \in 1 .. Len(roster) : roster'[i] = roster[i]
    BY <1>1, <2>1
  <2>3. \A i \in DOMAIN roster' : i \in DOMAIN roster \/ i = Len(roster) + 1
    BY <2>2
  <2>4. DOMAIN roster \subseteq DOMAIN roster' /\ Len(roster) + 1 \in DOMAIN roster'
    BY <2>2
  <2> QED BY <2>2, <2>3, <2>4 DEF Ids
<1>3. Ids(roster') \subseteq registered'
  BY <1>1, <1>2 DEF RequestInv
<1>4. EndRequest
  BY DEF AddAgent
<1> QED BY <1>3, <1>4 DEF RequestInv, EndRequest, Ids

LEMMA NextRequest ==
  ASSUME "cleanup" \notin RegistryDisruptions, ClientType, LateType, RequestInv,
         AcknowledgedIsKnown, [SimNext]_systemVars
  PROVE  RequestInv'
<1>r. registered \subseteq registered'
  BY SimStepIsFleetStep, RegisteredGrows
<1>n. SimNext /\ ~ HandleItem /\ ~ HandleLateItem => todo = <<>>
  BY DEF SimNext
<1>1. CASE HandleItem
  BY <1>1, ItemKeepsInv
<1>2. ASSUME NEW a \in Agents, HandleAgent(a), todo = <<>> PROVE RequestInv'
  <2>1. /\ request = "register" /\ UNCHANGED <<phase, roster, request, todo, taken>>
        /\ stage' \in {"working", "failed"} /\ assigned' \in {{a}, {}}
    BY <1>2 DEF HandleAgent
  <2> QED BY <1>2, <1>r, <2>1 DEF RequestInv, Ids
<1>3. ASSUME NEW a \in Agents, AnswerAgent(a), todo = <<>> PROVE RequestInv'
  <2>1. UNCHANGED <<phase, roster, request, assigned, todo, taken>>
    BY <1>3 DEF AnswerAgent
  <2>2. stage' = stage \/ (a \in assigned /\ stage' \in {"answered", "failed"})
    BY <1>3 DEF AnswerAgent
  <2>3. stage' = "answered" /\ stage # "answered" => a \in assigned /\ a \in registered'
    BY <1>3 DEF AnswerAgent, RegisterAgent
  <2> QED BY <1>3, <1>r, <2>1, <2>2, <2>3 DEF RequestInv, Ids
<1>4. ASSUME NEW a \in Agents, AddAgent(a) PROVE RequestInv'
  BY <1>4, AddKeepsInv
<1>5. CASE Launch
  <2>1. /\ roster' = <<>> /\ UNCHANGED <<mode, registered, requestVars>>
    BY <1>5 DEF Launch, fleetVars, registryVars, vars, volatile
  <2>2. phase = "off" /\ request = "none"
    BY <1>5 DEF Launch, ClientType, RequestInv
  <2> QED BY <2>1, <2>2 DEF RequestInv, requestVars, Ids
<1>6. CASE PostAgent /\ todo = <<>>
  <2>1. /\ request' = "register" /\ stage' = "sent" /\ request = "none" /\ phase' = "registering"
        /\ UNCHANGED <<roster, assigned, todo, taken>>
    BY <1>6 DEF PostAgent, SendRequest
  <2> QED BY <1>6, <1>r, <2>1 DEF RequestInv, Ids
<1>7. CASE EndRegistration /\ todo = <<>>
  <2>1. request = "none" /\ UNCHANGED <<roster, requestVars>>
    BY <1>7 DEF EndRegistration
  <2> QED BY <1>7, <1>r, <2>1 DEF RequestInv, requestVars, Ids
<1>8. CASE PostTick
  BY <1>8, TickKeepsInv
<1>9. CASE HandleTick
  <2>1. /\ request = "batch" /\ stage = "sent" /\ mode = "serving"
        /\ stage' = "working" /\ todo' = roster
        /\ UNCHANGED <<phase, mode, registered, roster, request, assigned, taken>>
    BY <1>9 DEF HandleTick, fleetVars, registryVars, vars, volatile
  <2>2. Len(roster) \in Nat
    BY DEF ClientType
  <2> QED BY <2>1, <2>2 DEF RequestInv, Ids
<1>10. CASE EndTick \/ GiveUp \/ Quit
  <2>1. EndRequest /\ roster' \in {roster, <<>>}
    BY <1>10 DEF EndTick, GiveUp, Quit
  <2> QED BY <1>r, <2>1, EndKeepsInv
<1>11. CASE BackendStep /\ todo = <<>>
  <2>1. /\ UNCHANGED <<phase, roster, request, assigned, todo, taken>>
        /\ stage' = stage \/ (stage # "answered" /\ stage' = "failed")
    BY <1>11 DEF BackendStep, BreakRequest, simVars, requestVars
  <2> QED BY <1>11, <1>r, <2>1 DEF RequestInv, Ids
<1>12. CASE UNCHANGED systemVars
  <2>1. UNCHANGED <<phase, mode, registered, roster, requestVars>>
    BY <1>12 DEF systemVars, fleetVars, vars, volatile, registryVars, simVars, requestVars
  <2> QED BY <2>1 DEF RequestInv, Ids, requestVars
<1>13. CASE LateStep
  <2>1. UNCHANGED <<mode, roster, requestVars>>
    BY <1>13 DEF LateStep, HandleLateTick, HandleLateAgent, CommitAgent, fleetVars, vars,
                 volatile
  <2> QED BY <1>r, <2>1 DEF RequestInv, Ids, requestVars
<1>14. CASE HandleLateItem
  <2>1. UNCHANGED <<mode, roster, requestVars>>
    BY <1>14 DEF HandleLateItem, IngestKnown, Ingest, fleetVars, vars, volatile
  <2> QED BY <1>r, <2>1 DEF RequestInv, Ids, requestVars
<1> QED
  BY <1>n, <1>1, <1>2, <1>3, <1>4, <1>5, <1>6, <1>7, <1>8, <1>9, <1>10, <1>11, <1>12,
     <1>13, <1>14
  DEF SimNext, SimStep

\* An id that is assigned has its row; no step of another registration takes it
\* away.
LEMMA AssignedHasRow ==
  ASSUME "cleanup" \notin RegistryDisruptions, ClientType, LateType, assigned \subseteq agentRows,
         [SimNext]_systemVars
  PROVE  assigned' \subseteq agentRows'
<1>r. agentRows \subseteq agentRows'
  BY SimStepIsFleetStep, RegisteredGrows
<1>1. ASSUME NEW a \in Agents, HandleAgent(a) PROVE assigned' \subseteq agentRows'
  BY <1>1 DEF HandleAgent, CommitAgent
<1>2. ASSUME ~ \E a \in Agents : HandleAgent(a) PROVE assigned' \subseteq assigned
  <2>1. ASSUME NEW a \in Agents, AnswerAgent(a) \/ AddAgent(a)
        PROVE  assigned' \subseteq assigned
    BY <2>1 DEF AnswerAgent, AddAgent, EndRequest
  <2>2. CASE LateStep
    BY <2>2 DEF LateStep, HandleLateTick, HandleLateAgent, requestVars
  <2>3. CASE BackendStep \/ UNCHANGED systemVars
    BY <2>3 DEF BackendStep, BreakRequest, systemVars, simVars, requestVars
  <2>4. CASE HandleItem \/ HandleLateItem
    BY <2>4 DEF HandleItem, HandleLateItem, requestVars
  <2>5. CASE Launch \/ PostAgent \/ EndRegistration \/ PostTick \/ HandleTick
             \/ EndTick \/ GiveUp \/ Quit
    BY <2>5 DEF Launch, PostAgent, EndRegistration, PostTick, HandleTick, EndTick,
                GiveUp, Quit, SendRequest, EndRequest, requestVars
  <2> QED BY <1>2, <2>1, <2>2, <2>3, <2>4, <2>5 DEF SimNext, SimStep
<1> QED BY <1>r, <1>1, <1>2

\* The backend counts what it accepts and never counts back.
LEMMA AcceptedGrows ==
  ASSUME TypeOK, [FleetNext]_fleetVars
  PROVE  accepted' \in {accepted, accepted + 1}
<1>1. CASE [Next]_vars
  BY <1>1 DEF Next, vars, Start, Ingest, Flush, Drain, SwapBuffer, Evaluate, Commit,
              CommitReplyLost, SqlFails, ConnectFails, SqlHangs, WriteRedis, RedisHangs, Emit,
              Return, Stop, Crash
<1>2. CASE InsertFails \/ CleanUp
  BY <1>2 DEF InsertFails, Return, CleanUp, Truncate, FlushCache
<1> QED BY <1>1, <1>2, FleetSteps

LEMMA LateWasAccepted ==
  ASSUME TypeOK, ClientType, LateType, late \subseteq 1 .. accepted, [SimNext]_systemVars
  PROVE  late' \subseteq 1 .. accepted'
<1>1. accepted \in Nat /\ accepted' \in {accepted, accepted + 1}
  BY SimStepIsFleetStep, AcceptedGrows DEF TypeOK
<1>2. CASE HandleLateItem
  BY <1>1, <1>2 DEF HandleLateItem, IngestKnown, Ingest
<1>3. CASE ~ HandleLateItem
  <2>1. ASSUME NEW a \in Agents, HandleAgent(a) \/ AnswerAgent(a) \/ AddAgent(a)
        PROVE  late' = late
    BY <2>1 DEF HandleAgent, AnswerAgent, AddAgent, lateVars
  <2>2. ASSUME LateStep PROVE late' = late
    BY <2>2 DEF LateStep, HandleLateTick, HandleLateAgent
  <2>3. ASSUME BackendStep \/ UNCHANGED systemVars PROVE late' = late
    BY <2>3 DEF BackendStep, BreakRequest, systemVars, simVars, lateVars
  <2>4. ASSUME \/ Launch \/ PostAgent \/ EndRegistration \/ PostTick \/ HandleTick
               \/ EndTick \/ GiveUp \/ Quit \/ HandleItem
        PROVE  late' = late
    BY <2>4 DEF Launch, PostAgent, EndRegistration, PostTick, HandleTick, EndTick,
                GiveUp, Quit, HandleItem, lateVars
  <2>5. late' = late
    BY <1>3, <2>1, <2>2, <2>3, <2>4 DEF SimNext, SimStep
  <2> QED BY <1>1, <2>5
<1> QED BY <1>2, <1>3

LEMMA NextClientInv ==
  ASSUME "cleanup" \notin RegistryDisruptions, TypeOK, ClientType, LateType, ClientInv,
         AcknowledgedIsKnown, [SimNext]_systemVars
  PROVE  ClientInv'
<1>1. RequestInv'
  BY NextRequest DEF ClientInv
<1>2. assigned' \subseteq agentRows'
  BY AssignedHasRow DEF ClientInv, LateInv
<1>3. ASSUME NEW d \in Delayed' PROVE d.agent \in registered'
  <2>1. d \in Delayed \/ d.agent \in Ids(roster)
    BY <1>3, NextDelayed DEF ItemsOf, Ids
  <2>2. d.agent \in registered
    BY <2>1 DEF ClientInv, LateInv, RequestInv
  <2> QED BY <2>2, SimStepIsFleetStep, RegisteredGrows
<1>4. late' \subseteq 1 .. accepted'
  BY LateWasAccepted DEF ClientInv, LateInv
<1> QED BY <1>1, <1>2, <1>3, <1>4 DEF ClientInv, LateInv

SimInv == TypeOK /\ RegistryInv /\ ClientType /\ LateType /\ ClientInv

LEMMA SimInvCorrect ==
  ASSUME "cleanup" \notin RegistryDisruptions
  PROVE  SimSpec => []SimInv
<1>1. SimInit => SimInv
  <2> SUFFICES ASSUME SimInit PROVE SimInv
    OBVIOUS
  <2>1. TypeOK
    BY InitType DEF SimInit, FleetInit
  <2>2. RegistryInv
    BY DEF SimInit, FleetInit, InitRegistry, RegistryInv, InMemoryAgentsExist,
           AcknowledgedIsKnown, Init, AgentsOf
  <2>3. ClientType /\ LateType /\ ClientInv
    BY InitClientType, InitLate DEF SimInit, NoRequest, ClientInv, RequestInv, LateInv, Ids
  <2> QED BY <2>1, <2>2, <2>3 DEF SimInv
<1>2. SimInv /\ [SimNext]_systemVars => SimInv'
  <2> SUFFICES ASSUME SimInv, [SimNext]_systemVars PROVE SimInv'
    OBVIOUS
  <2>1. TypeOK' /\ RegistryInv'
    BY SimStepIsFleetStep, NextRegistry DEF SimInv
  <2>2. ClientType' /\ LateType' /\ ClientInv'
    BY NextClientType, NextLateType, NextClientInv DEF SimInv, RegistryInv
  <2> QED BY <2>1, <2>2 DEF SimInv
<1> QED BY <1>1, <1>2, PTL DEF SimSpec

-----------------------------------------------------------------------------
\* "On success every item in the batch was buffered": however many answers were
\* lost and processes restarted, the handler never skips an agent of the roster.
THEOREM SentMeansBufferedCorrect ==
  ASSUME "cleanup" \notin RegistryDisruptions
  PROVE  SimSpec => []SentMeansBuffered
<1>1. SimInv => SentMeansBuffered
  BY DEF SimInv, ClientInv, RequestInv, SentMeansBuffered
<1> QED BY <1>1, SimInvCorrect, PTL

\* The backend driven by the simulator is the backend of AgentRegistry, so
\* what is proved of FleetSpec holds here: also of the batches that it handles
\* when the simulator no longer waits for them.
THEOREM SimImplementsFleet ==
  ASSUME "cleanup" \notin RegistryDisruptions
  PROVE  SimSpec => FleetSpec
<1>1. SimInit => FleetInit
  BY DEF SimInit
<1>2. SimInv /\ [SimNext]_systemVars => [FleetNext]_fleetVars
  BY SimStepIsFleetStep DEF SimInv
<1> QED BY <1>1, <1>2, SimInvCorrect, PTL DEF SimSpec, FleetSpec

\* What the simulator sends becomes history as DurableTelemetry promises: whole
\* windows, alarms that are their exact function, stored in the order in which
\* the backend accepted them, which is not always that in which they were sent.
THEOREM SimKeepsThePromise ==
  ASSUME "cleanup" \notin RegistryDisruptions
  PROVE  SimSpec => ImplementsDurable
BY SimImplementsFleet, FleetImplementsDurable, PTL

-----------------------------------------------------------------------------
\* The simulator and the request it awaits keep their types, beside those of
\* the backend; in particular no battery falls below the lowest level.
THEOREM SimTypeCorrect == SimSpec => []SimTypeOK
<1> DEFINE Phase == phase \in {"off", "registering", "running"}
           Accepted == late \subseteq 1 .. accepted
           Inv == FleetTypeInv /\ ClientType /\ LateType /\ Accepted /\ Phase
<1>1. SimInit => Inv
  <2> SUFFICES ASSUME SimInit PROVE Inv
    OBVIOUS
  <2>1. FleetTypeInv
    BY InitFleetType DEF SimInit
  <2>2. Phase /\ Accepted
    BY DEF SimInit
  <2> QED BY <2>1, <2>2, InitClientType, InitLate
<1>2. Inv /\ [SimNext]_systemVars => Inv'
  <2> SUFFICES ASSUME Inv, [SimNext]_systemVars PROVE Inv'
    OBVIOUS
  <2>1. FleetTypeInv'
    BY SimStepIsFleetStep, NextFleetType
  <2>2. ClientType' /\ LateType'
    BY NextClientType, NextLateType
  <2>4. Accepted'
    BY LateWasAccepted DEF FleetTypeInv, FleetTypeOK
  <2>3. Phase'
    <3>1. ASSUME NEW a \in Agents, HandleAgent(a) \/ AnswerAgent(a) \/ AddAgent(a)
          PROVE  UNCHANGED phase
      BY <3>1 DEF HandleAgent, AnswerAgent, AddAgent
    <3>2. HandleItem \/ HandleTick \/ EndTick \/ GiveUp \/ PostTick => UNCHANGED phase
      BY DEF HandleItem, HandleTick, EndTick, GiveUp, PostTick
    <3>4. HandleLateItem \/ LateStep => UNCHANGED phase
      BY DEF HandleLateItem, LateStep, HandleLateTick, HandleLateAgent
    <3>3. BackendStep \/ UNCHANGED systemVars => UNCHANGED phase
      BY DEF BackendStep, BreakRequest, systemVars, simVars
    <3> QED
      BY <3>1, <3>2, <3>3, <3>4
      DEF SimNext, SimStep, Launch, PostAgent, EndRegistration, Quit
  <2> QED BY <2>1, <2>2, <2>3, <2>4
<1>3. Inv => SimTypeOK
  <2> SUFFICES ASSUME Inv PROVE SimTypeOK
    OBVIOUS
  <2>1. Posted \subseteq Item
    BY SimulatorAssumption DEF Posted, Item
  <2>2. Seq(Posted) \subseteq Seq(Item)
    BY <2>1
  <2>3. Message \subseteq [spec : AgentSpec, items : Seq(Item)]
    BY <2>2 DEF Message
  <2>4. FleetTypeOK
    BY DEF FleetTypeInv
  <2>5. todo \in Seq(Item) /\ lateTodo \in Seq(Item)
    BY <2>2 DEF ClientType, LateType
  <2>6. abandoned \in [Connections -> SUBSET [spec : AgentSpec, items : Seq(Item)]]
    BY <2>3 DEF LateType
  <2> QED BY <2>4, <2>5, <2>6 DEF ClientType, Member, SimTypeOK
<1> QED BY <1>1, <1>2, <1>3, PTL DEF SimSpec

-----------------------------------------------------------------------------
(* Places *)

\* The registration under way made its row from the spec that was tried last.
PlaceInv ==
  /\ StartsWhereRegistered
  /\ \A a \in assigned : created[a] = specs[tried]

LEMMA AddKeepsPlace ==
  ASSUME ClientType, PlaceInv, NEW a \in Agents, AddAgent(a)
  PROVE  PlaceInv'
<1>1. /\ roster \in Seq(Member) /\ a \in assigned
      /\ roster' = Append(roster, [agent |-> a, battery |-> FullBattery,
                                   at |-> specs[tried].at])
      /\ created' = created /\ assigned' = {}
  BY DEF AddAgent, ClientType, EndRequest
<1> DEFINE n == Len(roster) + 1
<1>2. /\ DOMAIN roster' = DOMAIN roster \cup {n}
      /\ roster'[n].agent = a /\ roster'[n].at = specs[tried].at
      /\ \A i \in DOMAIN roster : roster'[i] = roster[i]
  BY <1>1
<1> HIDE DEF n
<1> QED BY <1>1, <1>2 DEF PlaceInv, StartsWhereRegistered

LEMMA NextPlace ==
  ASSUME SimInv, PlaceInv, [SimNext]_systemVars
  PROVE  PlaceInv'
<1> USE DEF PlaceInv, StartsWhereRegistered
<1>1. ASSUME NEW a \in Agents, HandleAgent(a) PROVE PlaceInv'
  <2>1. a \notin agentRows /\ UNCHANGED <<roster, specs, tried>> /\ assigned' \in {{a}, {}}
    BY <1>1 DEF HandleAgent, CommitAgent, placement
  <2>2. created' = [created EXCEPT ![a] = specs[tried]] /\ DOMAIN created = Agents
    BY <1>1 DEF HandleAgent, SimInv, ClientType
  <2>3. \A i \in DOMAIN roster : roster[i].agent # a
    BY <2>1 DEF SimInv, RegistryInv, AcknowledgedIsKnown, ClientInv, RequestInv, Ids
  <2> QED BY <2>1, <2>2, <2>3
<1>2. ASSUME NEW a \in Agents, AddAgent(a) PROVE PlaceInv'
  BY <1>2, AddKeepsPlace DEF SimInv
<1>3. ASSUME NEW a \in Agents, AnswerAgent(a) PROVE PlaceInv'
  BY <1>3 DEF AnswerAgent, placement
<1>4. CASE Launch \/ PostAgent \/ EndRegistration
  <2>1. /\ UNCHANGED <<created, assigned>> /\ roster' \in {roster, <<>>}
        /\ request = "none"
    BY <1>4 DEF Launch, PostAgent, EndRegistration, SendRequest, requestVars, SimInv,
                ClientType, ClientInv, RequestInv
  <2>2. assigned = {}
    BY <2>1 DEF SimInv, ClientInv, RequestInv
  <2> QED BY <2>1, <2>2
<1>5. CASE PostTick
  <2>1. /\ DOMAIN roster' = DOMAIN roster
        /\ \A i \in DOMAIN roster : roster'[i].agent = roster[i].agent
        /\ \A i \in DOMAIN roster : roster'[i].at = roster[i].at
    BY <1>5, DrainedTick DEF SimInv, ClientType
  <2>2. UNCHANGED <<created, assigned, specs, tried>>
    BY <1>5 DEF PostTick, SendRequest, placement
  <2> QED BY <2>1, <2>2
<1>6. CASE HandleTick \/ HandleItem
  BY <1>6 DEF HandleTick, HandleItem, placement
<1>7. CASE EndTick \/ GiveUp \/ Quit
  <2>1. assigned' = {} /\ created' = created /\ roster' \in {roster, <<>>}
    BY <1>7 DEF EndTick, GiveUp, Quit, EndRequest
  <2> QED BY <2>1
<1>8. CASE BackendStep
  BY <1>8 DEF BackendStep, BreakRequest, simVars, requestVars, placement
<1>9. CASE UNCHANGED systemVars
  BY <1>9 DEF systemVars, simVars, requestVars, placement
<1>10. ASSUME NEW c \in Connections, NEW a \in Agents, HandleLateAgent(c, a)
       PROVE  PlaceInv'
  <2>1. /\ a \notin agentRows /\ UNCHANGED <<roster, specs, tried, assigned>>
        /\ \A b \in Agents \ {a} : created'[b] = created[b]
    BY <1>10 DEF HandleLateAgent, CommitAgent, placement, requestVars, SimInv, ClientType
  <2>2. ASSUME NEW i \in DOMAIN roster
        PROVE  roster[i].agent # a /\ roster[i].agent \in Agents
    <3>1. roster[i] \in Member
      BY DEF SimInv, ClientType
    <3>2. roster[i].agent \in registered /\ registered \subseteq agentRows
      BY DEF SimInv, RegistryInv, AcknowledgedIsKnown, ClientInv, RequestInv, Ids
    <3> QED BY <2>1, <3>1, <3>2 DEF Member
  <2>3. a \notin assigned /\ assigned \subseteq Agents
    BY <2>1 DEF SimInv, ClientType, ClientInv, LateInv
  <2> QED BY <2>1, <2>2, <2>3
<1>11. ASSUME NEW c \in Connections, HandleLateTick(c) PROVE PlaceInv'
  BY <1>11 DEF HandleLateTick, placement, requestVars
<1>12. CASE HandleLateItem
  BY <1>12 DEF HandleLateItem, placement, requestVars
<1> QED
  BY <1>1, <1>2, <1>3, <1>4, <1>5, <1>6, <1>7, <1>8, <1>9, <1>10, <1>11, <1>12
  DEF SimNext, SimStep, LateStep

\* Whichever registrations fail, are given up or are handled late, an agent of
\* the roster stands where the row of its id says that it was created.
THEOREM StartsWhereRegisteredCorrect ==
  ASSUME "cleanup" \notin RegistryDisruptions
  PROVE  SimSpec => []StartsWhereRegistered
<1>1. SimInit => PlaceInv
  BY DEF SimInit, NoRequest, PlaceInv, StartsWhereRegistered
<1>2. SimInv /\ PlaceInv /\ [SimNext]_systemVars => PlaceInv'
  BY NextPlace
<1>3. PlaceInv => StartsWhereRegistered
  BY DEF PlaceInv
<1> QED BY <1>1, <1>2, <1>3, SimInvCorrect, PTL DEF SimSpec

-----------------------------------------------------------------------------
(* Alerts over the life of an agent *)

Low(x) == x.battery < Threshold

\* The readings whose alerts are still to be evaluated.
InWindow == IF pc = "evaluate" THEN {batch[i] : i \in {k \in DOMAIN batch : next <= k}}
                               ELSE {}
Pending  == {buffer[i] : i \in DOMAIN buffer} \cup InWindow

\* The alerts, committed or not.
Rows == alerts \cup txAlerts

Traced == {x.agent : x \in Pending \cup Delayed} \cup {r.agent : r \in Rows}

\* Charge is never gained: once a reading was low, or raised an alert, all that
\* is to come of that agent is low, but for the readings that come late.
Falling ==
  /\ \A x, y \in Pending :
       x.agent = y.agent /\ x.seq <= y.seq /\ Low(x) => Low(y) \/ y.seq \in late
  /\ \A x \in Pending \cup Delayed, i \in DOMAIN roster :
       x.agent = roster[i].agent /\ Low(x) => Low(roster[i])
  /\ \A r \in Rows, x \in Pending : r.agent = x.agent => Low(x) \/ x.seq \in late
  /\ \A r \in Rows, i \in DOMAIN roster : r.agent = roster[i].agent => Low(roster[i])

\* The ids are fresh: an agent joins the roster without a past.
Fresh ==
  /\ \A i, j \in DOMAIN roster : roster[i].agent = roster[j].agent => i = j
  /\ \A i \in DOMAIN todo : \E j \in DOMAIN roster : todo[i] = roster[j]
  /\ Traced \subseteq registered
  /\ assigned \cap (Traced \cup Ids(roster)) = {}

ChargeInv ==
  /\ \A r \in Rows : r.resolvedBy = Unresolved \/ r.resolvedBy \in late
  /\ Falling
  /\ Fresh

\* What leaves memory, is rolled back or resolved does no harm, nor does a batch
\* that the client stops waiting for.
LEMMA ShrinkKeepsCharge ==
  ASSUME ChargeInv, Pending' \subseteq Pending, late \subseteq late',
         \A r \in Rows' : /\ r.resolvedBy = Unresolved \/ r.resolvedBy \in late'
                          /\ \E q \in Rows : q.agent = r.agent,
         Delayed' \subseteq Delayed \cup ItemsOf(roster), Ids(roster) \subseteq registered,
         registered \subseteq registered', assigned' \subseteq assigned,
         \/ roster' = roster /\ todo' \in {<<>>, todo, roster}
         \/ roster' = <<>> /\ todo' = <<>>
  PROVE  ChargeInv'
<1>1. Traced' \subseteq Traced \cup Ids(roster)
  BY DEF Traced, ItemsOf, Ids
<1>2. Falling'
  <2>1. CASE roster' = <<>>
    BY <2>1 DEF ChargeInv, Falling, Low
  <2>2. CASE roster' = roster
    <3>1. \A i, j \in DOMAIN roster : roster[i].agent = roster[j].agent => i = j
      BY DEF ChargeInv, Fresh
    <3>2. \A x \in Pending' \cup Delayed', i \in DOMAIN roster :
            x.agent = roster[i].agent /\ Low(x) => Low(roster[i])
      BY <3>1 DEF ChargeInv, Falling, ItemsOf
    <3> QED BY <2>2, <3>2 DEF ChargeInv, Falling, Low
  <2> QED BY <2>1, <2>2
<1>3. Traced' \subseteq registered'
  BY <1>1 DEF ChargeInv, Fresh
<1>4. assigned' \cap (Traced' \cup Ids(roster')) = {}
  BY <1>1 DEF ChargeInv, Fresh, Ids
<1>5. Fresh'
  BY <1>3, <1>4 DEF ChargeInv, Fresh
<1> QED BY <1>2, <1>5 DEF ChargeInv

\* Every step of the backend but Ingest and Evaluate is of that kind.
LEMMA BackendShrinks ==
  ASSUME TypeOK, [Next]_vars, ~ Evaluate, accepted' = accepted
  PROVE  Pending' \subseteq Pending /\ Rows' \subseteq Rows
<1>1. CASE UNCHANGED <<pc, buffer, batch, next, alerts>> /\ txAlerts' = txAlerts
  BY <1>1 DEF Pending, InWindow, Rows
<1>2. CASE /\ UNCHANGED buffer /\ pc' # "evaluate"
           /\ alerts' \in {alerts, txAlerts} /\ txAlerts' \in {{}, txAlerts}
  BY <1>2 DEF Pending, InWindow, Rows
<1>3. CASE SwapBuffer /\ UNCHANGED alerts
  BY <1>3 DEF SwapBuffer, Pending, InWindow, Rows
<1>4. CASE buffer' = <<>> /\ pc' # "evaluate" /\ UNCHANGED alerts /\ txAlerts' = {}
  BY <1>4 DEF Pending, InWindow, Rows
<1>5. CASE Start
  BY <1>1, <1>5 DEF Start, durable
<1>6. CASE Drain
  BY <1>3, <1>6 DEF Drain, durable
<1>7. CASE Commit
  BY <1>2, <1>7 DEF Commit, CommitEffect
<1>8. CASE CommitReplyLost
  BY <1>2, <1>8 DEF CommitReplyLost, CommitEffect, Return
<1>9. CASE SqlFails
  BY <1>2, <1>9 DEF SqlFails, Return, durable
<1>10. CASE ConnectFails
  BY <1>2, <1>10 DEF ConnectFails, durable
<1>11. CASE WriteRedis \/ RedisHangs
  BY <1>2, <1>11 DEF WriteRedis, RedisHangs, durable
<1>12. CASE Emit
  BY <1>2, <1>12 DEF Emit, Return, durable
<1>13. CASE Stop
  BY <1>3, <1>4, <1>13 DEF Stop, durable
<1>14. CASE Crash
  BY <1>4, <1>14 DEF Crash, durable
<1>15. CASE UNCHANGED vars
  BY <1>1, <1>15 DEF vars, volatile, durable
<1>16. ASSUME NEW a \in Agents, NEW b \in Batteries PROVE ~ Ingest(a, b)
  BY DEF Ingest, TypeOK
<1>17. CASE SqlHangs
  BY <1>2, <1>17 DEF SqlHangs, CommitEffect, durable
<1> QED
  BY <1>5, <1>6, <1>7, <1>8, <1>9, <1>10, <1>11, <1>12, <1>13, <1>14, <1>15, <1>16, <1>17
  DEF Next, Flush

\* A reading that is evaluated opens the alert of its agent or does nothing,
\* or it came late and resolves it.
LEMMA EvaluateOpens ==
  ASSUME TypeOK, ChargeInv, Evaluate, next \in DOMAIN batch
  PROVE  \/ txAlerts' = txAlerts
         \/ /\ Low(batch[next])
            /\ txAlerts' = txAlerts \cup {[agent      |-> batch[next].agent,
                                           openedBy   |-> batch[next].seq,
                                           resolvedBy |-> Unresolved]}
         \/ /\ batch[next].seq \in late
            /\ \E row \in txAlerts :
                 txAlerts' = (txAlerts \ {row}) \cup {[row EXCEPT !.resolvedBy = batch[next].seq]}
<1> DEFINE x == batch[next]
<1>1. x \in Pending
  BY DEF Evaluate, Pending, InWindow
<1>2. txAlerts' = EvaluateLowBattery(txAlerts, x)
  BY DEF Evaluate
<1>3. ASSUME Resolves(txAlerts, x)
      PROVE  x.seq \in late /\ ActiveAlert(txAlerts, x.agent) \in txAlerts
  <2>1. ActiveAlert(txAlerts, x.agent) \in ActiveAlerts(txAlerts, x.agent)
    BY <1>3 DEF Resolves, ActiveAlert
  <2>2. ~ Low(x)
    BY <1>3 DEF Resolves, LowBattery, Low
  <2> HIDE DEF x
  <2> QED BY <1>1, <2>1, <2>2 DEF ChargeInv, Falling, Rows, ActiveAlerts
<1> HIDE DEF x
<1>4. \/ txAlerts' = txAlerts
      \/ Triggers(txAlerts, x) /\ txAlerts' = InsertAlert(txAlerts, x)
      \/ /\ Resolves(txAlerts, x)
         /\ txAlerts' = ResolveAlert(txAlerts, ActiveAlert(txAlerts, x.agent), x)
  BY <1>2 DEF EvaluateLowBattery
<1>5. CASE Triggers(txAlerts, x) /\ txAlerts' = InsertAlert(txAlerts, x)
  BY <1>5 DEF Triggers, LowBattery, InsertAlert, Low, x
<1>6. CASE /\ Resolves(txAlerts, x)
           /\ txAlerts' = ResolveAlert(txAlerts, ActiveAlert(txAlerts, x.agent), x)
  <2>1. x.seq \in late
    BY <1>3, <1>6
  <2>2. PICK row \in txAlerts : row = ActiveAlert(txAlerts, x.agent)
    BY <1>3, <1>6
  <2>3. txAlerts' = (txAlerts \ {row}) \cup {[row EXCEPT !.resolvedBy = x.seq]}
    BY <1>6, <2>2 DEF ResolveAlert
  <2> QED BY <2>1, <2>3 DEF x
<1> QED BY <1>4, <1>5, <1>6

LEMMA EvaluateKeepsCharge ==
  ASSUME TypeOK, Order, ChargeInv, Evaluate, Ids(roster) \subseteq registered,
         UNCHANGED <<registered, assigned, roster, todo, late>>,
         Delayed' \subseteq Delayed
  PROVE  ChargeInv'
<1> DEFINE x == batch[next]
           new == [agent |-> x.agent, openedBy |-> x.seq, resolvedBy |-> Unresolved]
<1>1. next \in DOMAIN batch /\ next \in Nat /\ batch \in Seq(Reading)
  BY DEF TypeOK, Evaluate
<1>2. x \in Pending
  BY <1>1 DEF Evaluate, Pending, InWindow
<1>3. /\ UNCHANGED <<pc, buffer, batch, alerts>> /\ next' = next + 1 /\ pc = "evaluate"
  BY DEF Evaluate, durable
<1>4. Pending' \subseteq Pending
  <2>1. \A k \in DOMAIN batch : next + 1 <= k => next <= k
    BY <1>1
  <2> QED BY <1>3, <2>1 DEF Pending, InWindow
<1>5. CASE txAlerts' = txAlerts
  <2>1. Rows' = Rows
    BY <1>3, <1>5 DEF Rows
  <2>2. \A r \in Rows' : /\ r.resolvedBy = Unresolved \/ r.resolvedBy \in late'
                         /\ \E q \in Rows : q.agent = r.agent
    BY <2>1 DEF ChargeInv
  <2> QED BY <1>4, <2>2, ShrinkKeepsCharge
<1>6. CASE Low(x) /\ txAlerts' = txAlerts \cup {new}
  <2>1. Rows' = Rows \cup {new}
    BY <1>3, <1>6 DEF Rows
  <2>2. new.agent = x.agent /\ new.resolvedBy = Unresolved
    OBVIOUS
  <2>3. \A y \in Pending' : x.seq <= y.seq
    <3>1. Ordinals
      BY OrdinalsFromType
    <3>2. \A k \in DOMAIN batch : next + 1 <= k => next < k
      BY <1>1
    <3> QED BY <1>1, <1>3, <3>1, <3>2 DEF Pending, InWindow, Order, Sorted, Ordinals
  <2>4. \A y \in Pending' : y.agent = x.agent => Low(y) \/ y.seq \in late
    BY <1>2, <1>4, <1>6, <2>3 DEF ChargeInv, Falling
  <2>5. \A i \in DOMAIN roster : roster[i].agent = x.agent => Low(roster[i])
    BY <1>2, <1>6 DEF ChargeInv, Falling
  <2>6. Traced' \subseteq Traced
    BY <1>2, <1>4, <2>1, <2>2 DEF Traced
  <2> HIDE DEF x, new
  <2>7. Falling'
    BY <1>4, <2>1, <2>2, <2>4, <2>5 DEF ChargeInv, Falling, Low
  <2>8. Fresh'
    BY <2>6 DEF ChargeInv, Fresh, Ids
  <2> QED BY <2>1, <2>2, <2>7, <2>8 DEF ChargeInv
<1>7. CASE /\ x.seq \in late
           /\ \E row \in txAlerts :
                txAlerts' = (txAlerts \ {row}) \cup {[row EXCEPT !.resolvedBy = x.seq]}
  <2> HIDE DEF x
  <2>1. PICK row \in txAlerts :
               txAlerts' = (txAlerts \ {row}) \cup {[row EXCEPT !.resolvedBy = x.seq]}
    BY <1>7
  <2> DEFINE old == [row EXCEPT !.resolvedBy = x.seq]
  <2>2. row \in Alert
    BY <2>1 DEF TypeOK
  <2>3. old.agent = row.agent /\ old.resolvedBy = x.seq
    BY <2>2 DEF Alert
  <2>4. Rows' \subseteq Rows \cup {old} /\ row \in Rows
    BY <1>3, <2>1 DEF Rows
  <2> HIDE DEF old
  <2>5. \A r \in Rows' : /\ r.resolvedBy = Unresolved \/ r.resolvedBy \in late'
                         /\ \E q \in Rows : q.agent = r.agent
    BY <1>7, <2>3, <2>4 DEF ChargeInv
  <2> QED BY <1>4, <2>5, ShrinkKeepsCharge
<1> QED BY <1>1, <1>5, <1>6, <1>7, EvaluateOpens

\* A new reading is as low as its agent is in the roster, or it comes late: then
\* the agent is at least as low.
LEMMA IngestKeepsCharge ==
  ASSUME TypeOK, Order, ChargeInv, NEW a \in Agents, NEW b \in Batteries,
         Ingest(a, b), a \in registered, a \notin assigned,
         UNCHANGED <<registered, assigned, roster>>, late \subseteq late',
         Delayed' \subseteq Delayed \cup ItemsOf(roster), Ids(roster) \subseteq registered,
         \A k \in DOMAIN todo' : \E j \in DOMAIN roster : todo'[k] = roster[j],
         \A i \in DOMAIN roster : a = roster[i].agent /\ b < Threshold => Low(roster[i]),
         \/ accepted + 1 \in late'
         \/ \E i \in DOMAIN roster : a = roster[i].agent /\ b = roster[i].battery
  PROVE  ChargeInv'
<1> DEFINE x == [agent |-> a, battery |-> b, seq |-> accepted + 1]
<1>1. /\ UNCHANGED <<pc, batch, next, txAlerts, alerts>>
      /\ buffer' = Append(buffer, x) /\ buffer \in Seq(Reading)
  BY DEF Ingest, durable, TypeOK
<1>2. Rows' = Rows /\ InWindow' = InWindow
  BY <1>1 DEF Rows, InWindow
<1>3. {buffer'[k] : k \in DOMAIN buffer'} = {buffer[k] : k \in DOMAIN buffer} \cup {x}
  <2>1. /\ DOMAIN buffer' = DOMAIN buffer \cup {Len(buffer) + 1}
        /\ \A k \in DOMAIN buffer : buffer'[k] = buffer[k]
    BY IngestBuffer
  <2>2. buffer'[Len(buffer) + 1] = x
    BY <1>1
  <2> QED BY <2>1, <2>2
<1>4. Pending' = Pending \cup {x}
  BY <1>2, <1>3 DEF Pending
<1>5. x.agent = a /\ x.battery = b /\ x.seq = accepted + 1
  OBVIOUS
<1>6. \A y \in Pending : y.seq \in Nat /\ y.seq <= accepted
  BY OrdinalsFromType DEF Pending, InWindow, Order, Ordinals
<1>7. accepted \in Nat
  BY DEF TypeOK
<1> HIDE DEF x
<1>8. \A y \in Pending : ~ (x.seq <= y.seq)
  BY <1>5, <1>6, <1>7
<1>9. Low(x) <=> b < Threshold
  BY <1>5 DEF Low
<1>10. \A i, j \in DOMAIN roster : roster[i].agent = roster[j].agent => i = j
  BY DEF ChargeInv, Fresh
<1>11. \A i \in DOMAIN roster : x.agent = roster[i].agent /\ Low(x) => Low(roster[i])
  BY <1>5, <1>9
<1>12. \/ x.seq \in late'
       \/ \E i \in DOMAIN roster : x.agent = roster[i].agent /\ (Low(roster[i]) => Low(x))
  BY <1>5 DEF Low
<1>13. \A y \in Pending : y.agent = x.agent /\ Low(y) => Low(x) \/ x.seq \in late'
  BY <1>12 DEF ChargeInv, Falling
<1>14. \A r \in Rows : r.agent = x.agent => Low(x) \/ x.seq \in late'
  BY <1>12 DEF ChargeInv, Falling
<1>15. \A y \in Pending' \cup Delayed', i \in DOMAIN roster :
         y.agent = roster[i].agent /\ Low(y) => Low(roster[i])
  BY <1>4, <1>10, <1>11 DEF ChargeInv, Falling, ItemsOf
<1>16. \A y, z \in Pending' :
         y.agent = z.agent /\ y.seq <= z.seq /\ Low(y) => Low(z) \/ z.seq \in late'
  BY <1>4, <1>8, <1>13 DEF ChargeInv, Falling
<1>17. \A r \in Rows, y \in Pending' : r.agent = y.agent => Low(y) \/ y.seq \in late'
  BY <1>4, <1>14 DEF ChargeInv, Falling
<1>18. Falling'
  BY <1>2, <1>15, <1>16, <1>17 DEF ChargeInv, Falling, Low
<1>19. Traced' \subseteq Traced \cup Ids(roster) \cup {a}
  BY <1>2, <1>4, <1>5 DEF Traced, ItemsOf, Ids
<1>20. Fresh'
  BY <1>19 DEF ChargeInv, Fresh, Ids
<1> QED BY <1>2, <1>18, <1>20 DEF ChargeInv

LEMMA UnchangedCharge ==
  ASSUME UNCHANGED vars
  PROVE  Pending' = Pending /\ Rows' = Rows
BY DEF vars, volatile, durable, Pending, InWindow, Rows

LEMMA ItemKeepsCharge ==
  ASSUME TypeOK, Order, ClientType, LateType, ClientInv, ChargeInv, HandleItem
  PROVE  ChargeInv'
<1>1. /\ request = "batch" /\ assigned = {}
      /\ Head(todo).agent \in registered
      /\ UNCHANGED <<roster, assigned, late, abandoned, lateTodo>>
  BY DEF HandleItem, ClientInv, RequestInv, ClientType, Ids, lateVars
<1>2. /\ todo \in Seq(Posted) /\ 1 \in DOMAIN todo /\ Head(todo) = todo[1]
      /\ todo' = Tail(todo)
      /\ \A k \in DOMAIN todo' : k + 1 \in DOMAIN todo /\ todo'[k] = todo[k + 1]
  BY DEF HandleItem, ClientType
<1>3. \A k \in DOMAIN todo' : \E j \in DOMAIN roster : todo'[k] = roster[j]
  BY <1>2 DEF ChargeInv, Fresh
<1>4. PICK i \in DOMAIN roster : Head(todo) = roster[i]
  BY <1>2 DEF ChargeInv, Fresh
<1>5. roster[i].agent \in Agents /\ roster[i].battery \in Batteries
  BY <1>2, <1>4, SentBattery
<1>6. Delayed' = Delayed /\ Ids(roster) \subseteq registered
  BY <1>1 DEF Delayed, Waiting, ItemsOf, ClientInv, RequestInv
<1>7. CASE Head(todo).agent \in known
  <2> DEFINE a == roster[i].agent
             b == roster[i].battery
  <2>1. Ingest(a, b) /\ registered' = registered
    BY <1>4, <1>7 DEF HandleItem, IngestKnown, registryVars
  <2>2. a \in registered /\ a \notin assigned
    BY <1>1, <1>4
  <2>3. \A j \in DOMAIN roster : a = roster[j].agent /\ b < Threshold => Low(roster[j])
    BY DEF ChargeInv, Fresh, Low
  <2>4. \E j \in DOMAIN roster : a = roster[j].agent /\ b = roster[j].battery
    OBVIOUS
  <2> HIDE DEF a, b
  <2>5. a \in Agents /\ b \in Batteries
    BY <1>5 DEF a, b
  <2> QED BY <1>1, <1>3, <1>6, <2>1, <2>2, <2>3, <2>4, <2>5, IngestKeepsCharge
<1>8. CASE Head(todo).agent \notin known
  <2>1. UNCHANGED <<vars, registered>>
    BY <1>8 DEF HandleItem, fleetVars, registryVars
  <2>2. Pending' = Pending /\ Rows' = Rows
    BY <2>1, UnchangedCharge
  <2>3. Falling' /\ Traced' = Traced
    BY <1>1, <1>6, <2>2 DEF ChargeInv, Falling, Traced, Low
  <2> QED BY <1>1, <1>3, <2>1, <2>2, <2>3 DEF ChargeInv, Fresh, Ids
<1> QED BY <1>7, <1>8

\* An item of a late batch: the agent was as low as that or lower when the
\* client stopped waiting.
LEMMA LateItemKeepsCharge ==
  ASSUME TypeOK, Order, ClientType, LateType, ClientInv, ChargeInv, HandleLateItem
  PROVE  ChargeInv'
<1>1. UNCHANGED <<roster, assigned, todo>> /\ late \subseteq late'
  BY DEF HandleLateItem, requestVars
<1>2. /\ lateTodo \in Seq(Posted) /\ 1 \in DOMAIN lateTodo /\ Head(lateTodo) = lateTodo[1]
  BY DEF HandleLateItem, LateType
<1> DEFINE a == Head(lateTodo).agent
           b == Head(lateTodo).battery
<1>3. Head(lateTodo) \in Delayed
  BY <1>2 DEF Delayed, ItemsOf
<1>4. a \in Agents /\ b \in Batteries
  BY <1>2, SentBattery
<1>5. /\ Delayed' \subseteq Delayed \cup ItemsOf(roster)
      /\ Ids(roster) \subseteq registered
      /\ \A k \in DOMAIN todo' : \E j \in DOMAIN roster : todo'[k] = roster[j]
  BY <1>1, NextDelayed DEF SimNext, ClientInv, RequestInv, ChargeInv, Fresh
<1>6. CASE a \in known
  <2>1. Ingest(a, b) /\ registered' = registered /\ late' = late \cup {accepted'}
    BY <1>6 DEF HandleLateItem, IngestKnown, registryVars
  <2>2. a \in Traced
    BY <1>3 DEF Traced
  <2>3. a \in registered /\ a \notin assigned
    BY <2>2 DEF ChargeInv, Fresh
  <2>4. \A j \in DOMAIN roster : a = roster[j].agent /\ b < Threshold => Low(roster[j])
    BY <1>3 DEF ChargeInv, Falling, Low
  <2>5. accepted + 1 \in late'
    BY <2>1 DEF Ingest
  <2> HIDE DEF a, b
  <2> QED BY <1>1, <1>4, <1>5, <2>1, <2>3, <2>4, <2>5, IngestKeepsCharge
<1>7. CASE a \notin known
  <2>1. UNCHANGED <<vars, registered, late>>
    BY <1>7 DEF HandleLateItem, fleetVars, registryVars
  <2>2. Pending' = Pending /\ Rows' = Rows
    BY <2>1, UnchangedCharge
  <2>3. \A r \in Rows' : /\ r.resolvedBy = Unresolved \/ r.resolvedBy \in late'
                         /\ \E q \in Rows : q.agent = r.agent
    BY <2>1, <2>2 DEF ChargeInv
  <2> QED BY <1>1, <1>5, <2>1, <2>2, <2>3, ShrinkKeepsCharge
<1> QED BY <1>6, <1>7

LEMMA TickKeepsCharge ==
  ASSUME ClientType, ClientInv, ChargeInv, PostTick
  PROVE  ChargeInv'
<1>1. /\ DOMAIN roster' = DOMAIN roster
      /\ \A i \in DOMAIN roster : roster'[i].agent = roster[i].agent
  BY DrainedTick DEF ClientType
<1>2. \A i \in DOMAIN roster : Low(roster[i]) => Low(roster'[i])
  <2> TAKE i \in DOMAIN roster
  <2>1. roster[i] \in Member
    BY DEF ClientType
  <2>2. roster'[i].battery = Drained(roster[i].battery)
    BY <2>1 DEF PostTick, Member
  <2>3. Drained(roster[i].battery) <= roster[i].battery
        /\ Drained(roster[i].battery) \in Int /\ roster[i].battery \in Int
    BY <2>1, SimulatorAssumption DEF Drained, Member
  <2> QED BY <2>2, <2>3, LevelsAssumption DEF Low
<1>3. UNCHANGED <<vars, registered, assigned, todo, late, abandoned, lateTodo>> /\ todo = <<>>
  BY DEF PostTick, SendRequest, ClientInv, RequestInv, fleetVars, registryVars, lateVars
<1>4. Pending' = Pending /\ Rows' = Rows /\ Delayed' = Delayed
  BY <1>3, UnchangedCharge DEF Delayed, Waiting, ItemsOf
<1>5. Falling'
  BY <1>1, <1>2, <1>3, <1>4 DEF ChargeInv, Falling, Low
<1>6. Traced' = Traced /\ Ids(roster') = Ids(roster)
  BY <1>1, <1>4 DEF Traced, Ids
<1>7. Fresh'
  BY <1>1, <1>3, <1>6 DEF ChargeInv, Fresh
<1> QED BY <1>3, <1>4, <1>5, <1>7 DEF ChargeInv

LEMMA AddKeepsCharge ==
  ASSUME ClientType, ClientInv, ChargeInv, NEW a \in Agents, AddAgent(a)
  PROVE  ChargeInv'
<1>1. /\ UNCHANGED <<vars, registered, late, abandoned, lateTodo>>
      /\ assigned' = {} /\ todo' = <<>> /\ a \in assigned
  BY DEF AddAgent, EndRequest, fleetVars, registryVars, lateVars
<1>2. Pending' = Pending /\ Rows' = Rows /\ Delayed' = Delayed
  BY <1>1, UnchangedCharge DEF Delayed, Waiting, ItemsOf
<1>3. /\ roster \in Seq(Member)
      /\ roster' = Append(roster, [agent |-> a, battery |-> FullBattery,
                                   at |-> specs[tried].at])
  BY DEF ClientType, AddAgent
<1> DEFINE n == Len(roster) + 1
<1>4. /\ DOMAIN roster' = DOMAIN roster \cup {n} /\ roster'[n].agent = a
      /\ \A i \in DOMAIN roster : roster'[i] = roster[i]
  BY <1>3
<1> HIDE DEF n
<1>5. a \notin Traced /\ a \notin Ids(roster)
  BY <1>1 DEF ChargeInv, Fresh
<1>6. Traced' = Traced
  BY <1>2 DEF Traced
<1>7. Falling'
  BY <1>1, <1>2, <1>4, <1>5 DEF ChargeInv, Falling, Low, Traced
<1>8. \A i, j \in DOMAIN roster' : roster'[i].agent = roster'[j].agent => i = j
  BY <1>4, <1>5 DEF ChargeInv, Fresh, Ids
<1>9. Fresh'
  BY <1>1, <1>6, <1>8 DEF ChargeInv, Fresh
<1> QED BY <1>1, <1>2, <1>7, <1>9 DEF ChargeInv

\* A registration gets an id without a past.
LEMMA AgentKeepsCharge ==
  ASSUME ClientInv, RegistryInv, ChargeInv, LateType, NEW a \in Agents, HandleAgent(a)
  PROVE  ChargeInv'
<1>1. /\ UNCHANGED <<vars, registered, roster, todo, late, abandoned, lateTodo>>
      /\ a \notin agentRows /\ assigned' \in {{a}, {}}
  BY DEF HandleAgent, CommitAgent, lateVars
<1>2. Pending' = Pending /\ Rows' = Rows /\ Delayed' = Delayed
  BY <1>1, UnchangedCharge DEF Delayed, Waiting, ItemsOf
<1>3. a \notin registered
  BY <1>1 DEF RegistryInv, AcknowledgedIsKnown
<1>4. a \notin Traced \cup Ids(roster)
  BY <1>3 DEF ChargeInv, Fresh, ClientInv, RequestInv
<1>5. Traced' = Traced
  BY <1>2 DEF Traced
<1>6. Falling'
  BY <1>1, <1>2 DEF ChargeInv, Falling, Low
<1>7. Fresh'
  BY <1>1, <1>4, <1>5 DEF ChargeInv, Fresh, Ids
<1> QED BY <1>1, <1>2, <1>6, <1>7 DEF ChargeInv

LEMMA BackendKeepsCharge ==
  ASSUME TypeOK, Order, RegistryInv, ClientInv, LateType, ChargeInv, BackendStep,
         Delayed' \subseteq Delayed \cup ItemsOf(roster)
  PROVE  ChargeInv'
<1>1. UNCHANGED <<registered, assigned, roster, todo, late>>
  BY DEF BackendStep, BreakRequest, simVars, requestVars, lateVars, StartProcess,
         FlushChecked, StopProcess, CrashProcess, ForgetIfDown
<1>2. Ids(roster) \subseteq registered
  BY DEF ClientInv, RequestInv
<1>3. CASE Evaluate
  <2>1. UNCHANGED <<abandoned, lateTodo>>
    BY <1>3 DEF BackendStep, StartProcess, Start, Evaluate, StopProcess, Stop, SwapBuffer,
                CrashProcess, Crash, simVars, lateVars
  <2>2. Delayed' = Delayed
    BY <2>1 DEF Delayed, Waiting, ItemsOf
  <2> QED BY <1>1, <1>2, <1>3, <2>2, EvaluateKeepsCharge
<1>4. CASE ~ Evaluate
  <2>1. ~ InsertFails
    BY DEF RegistryInv, InMemoryAgentsExist, InsertFails, ForeignKeysHold
  <2>2. Next /\ accepted' = accepted
    BY <2>1 DEF BackendStep, StartProcess, FlushChecked, StopProcess, CrashProcess, Next,
            Flush, EvaluateInserted, Start, Drain, SwapBuffer, Evaluate, Commit,
            CommitReplyLost, SqlFails, ConnectFails, SqlHangs, WriteRedis, RedisHangs, Emit,
            Return, Stop, Crash
  <2>3. Pending' \subseteq Pending /\ Rows' \subseteq Rows
    BY <1>4, <2>2, BackendShrinks
  <2>4. \A r \in Rows' : /\ r.resolvedBy = Unresolved \/ r.resolvedBy \in late'
                         /\ \E q \in Rows : q.agent = r.agent
    BY <1>1, <2>3 DEF ChargeInv
  <2> QED BY <1>1, <1>2, <2>3, <2>4, ShrinkKeepsCharge
<1> QED BY <1>3, <1>4

LEMMA NextCharge ==
  ASSUME TypeOK, Order, RegistryInv, ClientType, LateType, ClientInv, ChargeInv,
         [SimNext]_systemVars
  PROVE  ChargeInv'
<1>d. Delayed' \subseteq Delayed \cup ItemsOf(roster)
  BY NextDelayed
<1>i. Ids(roster) \subseteq registered
  BY DEF ClientInv, RequestInv
<1>s. ASSUME UNCHANGED <<vars, late>>, registered \subseteq registered',
             assigned' \subseteq assigned,
             \/ roster' = roster /\ todo' \in {<<>>, todo, roster}
             \/ roster' = <<>> /\ todo' = <<>>
      PROVE  ChargeInv'
  <2>1. Pending' = Pending /\ Rows' = Rows
    BY <1>s, UnchangedCharge
  <2>2. \A r \in Rows' : /\ r.resolvedBy = Unresolved \/ r.resolvedBy \in late'
                         /\ \E q \in Rows : q.agent = r.agent
    BY <1>s, <2>1 DEF ChargeInv
  <2> QED BY <1>d, <1>i, <1>s, <2>1, <2>2, ShrinkKeepsCharge
<1>1. CASE HandleItem
  BY <1>1, ItemKeepsCharge
<1>2. CASE HandleLateItem
  BY <1>2, LateItemKeepsCharge
<1>3. ASSUME NEW a \in Agents, HandleAgent(a) PROVE ChargeInv'
  BY <1>3, AgentKeepsCharge
<1>4. ASSUME NEW a \in Agents, AnswerAgent(a) PROVE ChargeInv'
  <2>1. /\ UNCHANGED <<vars, roster, assigned, todo, late>>
        /\ registered \subseteq registered'
    BY <1>4 DEF AnswerAgent, RegisterAgent, RefreshFails, lateVars
  <2> QED BY <1>s, <2>1
<1>5. ASSUME NEW a \in Agents, AddAgent(a) PROVE ChargeInv'
  BY <1>5, AddKeepsCharge
<1>6. CASE PostAgent \/ EndRegistration \/ HandleTick \/ UNCHANGED systemVars
  <2>1. UNCHANGED <<fleetVars, assigned, roster, late>> /\ todo' \in {todo, roster}
    BY <1>6 DEF PostAgent, SendRequest, EndRegistration, HandleTick, systemVars, simVars,
                requestVars, lateVars
  <2> QED BY <1>s, <2>1 DEF fleetVars, registryVars
<1>7. CASE PostTick
  BY <1>7, TickKeepsCharge
<1>8. CASE EndTick \/ GiveUp
  <2>1. UNCHANGED <<fleetVars, roster, late>> /\ assigned' = {} /\ todo' = <<>>
    BY <1>8 DEF EndTick, GiveUp, EndRequest, lateVars
  <2> QED BY <1>s, <2>1 DEF fleetVars, registryVars
<1>9. CASE Launch \/ Quit
  <2>1. /\ roster' = <<>> /\ UNCHANGED <<fleetVars, late>>
        /\ assigned' \subseteq assigned /\ todo' = <<>>
    BY <1>9 DEF Launch, Quit, EndRequest, requestVars, lateVars, ClientType, ClientInv,
                RequestInv
  <2> QED BY <1>s, <2>1 DEF fleetVars, registryVars
<1>10. CASE BackendStep
  BY <1>d, <1>10, BackendKeepsCharge
<1>11. CASE LateStep
  <2>1. /\ UNCHANGED <<vars, registered, assigned, roster, todo, late>>
    BY <1>11 DEF LateStep, HandleLateTick, HandleLateAgent, CommitAgent, requestVars,
                 fleetVars, registryVars
  <2> QED BY <1>s, <2>1
<1> QED
  BY <1>1, <1>2, <1>3, <1>4, <1>5, <1>6, <1>7, <1>8, <1>9, <1>10, <1>11 DEF SimNext, SimStep

LEMMA ChargeInvCorrect ==
  ASSUME "cleanup" \notin RegistryDisruptions
  PROVE  SimSpec => []ChargeInv
<1>1. SimSpec => []Order
  BY SimImplementsFleet, ImplementsBatcherCorrect, OrderCorrect, PTL DEF ImplementsBatcher
<1>2. SimInit => ChargeInv
  <2> SUFFICES ASSUME SimInit PROVE ChargeInv
    OBVIOUS
  <2>1. Pending = {} /\ Rows = {} /\ Traced = {}
    BY InitLate DEF SimInit, FleetInit, Init, Rows, Pending, InWindow, Traced
  <2>2. roster = <<>> /\ todo = <<>> /\ assigned = {}
    BY DEF SimInit, NoRequest
  <2> QED BY <2>1, <2>2 DEF ChargeInv, Falling, Fresh
<1>3. SimInv /\ Order /\ ChargeInv /\ [SimNext]_systemVars => ChargeInv'
  BY NextCharge DEF SimInv
<1> QED BY <1>1, <1>2, <1>3, SimInvCorrect, PTL DEF SimSpec

\* The battery of a simulated agent only falls, so whatever windows, answers and
\* processes are lost, no reading resolves its alert but one that was sent
\* before others that had been handled: one of a batch that the client gave up.
THEOREM OnlyLateReadingsResolveCorrect ==
  ASSUME "cleanup" \notin RegistryDisruptions
  PROVE  SimSpec => []OnlyLateReadingsResolve
<1>1. ChargeInv => OnlyLateReadingsResolve
  BY DEF ChargeInv, Rows, OnlyLateReadingsResolve
<1> QED BY <1>1, ChargeInvCorrect, PTL

\* An agent raises one alert in its life, until a reading comes late.
THEOREM OneAlertUntilALateReading ==
  ASSUME "cleanup" \notin RegistryDisruptions
  PROVE  SimSpec => [](late = {} => \A r, q \in alerts : r.agent = q.agent => r = q)
<1>1. SimSpec => []OneActiveAlert
  BY SimImplementsFleet, FleetOneActiveAlert, PTL
<1>2. ChargeInv /\ OneActiveAlert
        => (late = {} => \A r, q \in alerts : r.agent = q.agent => r = q)
  BY DEF ChargeInv, Rows, OneActiveAlert, AtMostOneActive
<1> QED BY <1>1, <1>2, ChargeInvCorrect, PTL
==============================================================================
