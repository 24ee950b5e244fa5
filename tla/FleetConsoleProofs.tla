-------------------------- MODULE FleetConsoleProofs --------------------------
(***************************************************************************)
(* Theorems about FleetConsole: the page behind the operator is the one of *)
(* Dashboard, and the map moves once per selection, to the agent selected. *)
(***************************************************************************)
EXTENDS FleetConsole, DashboardProofs

\* The page makes a step of its own, which at most renders, or runs its
\* effects, or is left alone by a click.
LEMMA PageStep ==
  ASSUME BackendStep \/ NetworkStep \/ BrowserStep \/ \E q \in Requests : HandlerStep(q)
  PROVE  effectDue' = TRUE \/ UNCHANGED <<agents, effectDue>>
<1>1. CASE BackendStep
  BY <1>1 DEF BackendStep, Register, OtherWriteBack, Report, ReportUnanswered, Cache, Emit,
              EmitFails, ColdRedis, page, react
<1>2. CASE NetworkStep
  BY <1>2 DEF NetworkStep, RequestFails, RequestHangs, Connect, Join, Drop, react
<1>3. CASE BrowserStep
  BY <1>3 DEF BrowserStep, LoadDone, ResyncDone, HandleBatch, Tick, Render, react
<1>4. CASE \E q \in Requests : HandlerStep(q)
  BY <1>4 DEF HandlerStep, List, ReadCache, ReadRow, WriteBack, react
<1> QED BY <1>1, <1>2, <1>3, <1>4

LEMMA ConsoleStepIsPageStep == [ConsoleNext]_allVars => [Next]_vars
BY DEF ConsoleNext, RunEffects, Select, Next, allVars

\* With the operator, the table and the map added, the page behaves as Dashboard
\* says: what is proved of Spec and LoadedSpec holds here.
THEOREM ConsoleImplementsDashboard ==
  (ConsoleSpec => Spec) /\ (LoadedConsoleSpec => LoadedSpec)
BY ConsoleStepIsPageStep, PTL
DEF ConsoleSpec, Spec, LoadedConsoleSpec, LoadedConsoleInit, LoadedSpec

-----------------------------------------------------------------------------
(* Types *)

LEMMA ControlMapType ==
  ASSUME NEW ref, NEW sel
  PROVE  /\ ControlMap(ref, sel).ref \in {ref, sel}
         /\ ControlMap(ref, sel).moves \in {0, 1}
BY DEF ControlMap

ConsoleRefs ==
  /\ {selectedId, prevSelectedId, shown} \subseteq Agents \cup {Nobody}
  /\ pans \in Nat

LEMMA NextConsoleRefs == ConsoleRefs /\ [ConsoleNext]_allVars => ConsoleRefs'
<1> SUFFICES ASSUME ConsoleRefs, [ConsoleNext]_allVars PROVE ConsoleRefs'
  OBVIOUS
<1> USE DEF ConsoleRefs
<1>1. CASE RunEffects
  BY <1>1, ControlMapType DEF RunEffects
<1>2. ASSUME NEW a \in Agents, Select(a) PROVE ConsoleRefs'
  BY <1>2, ControlMapType DEF Select
<1>3. CASE UNCHANGED consoleVars
  BY <1>3 DEF consoleVars
<1> QED BY <1>1, <1>2, <1>3 DEF ConsoleNext, allVars

\* The selection, the refs and the map keep their types, beside those of the
\* page, whether it starts empty or loaded.
THEOREM ConsoleTypeCorrect ==
  (ConsoleSpec => []ConsoleTypeOK) /\ (LoadedConsoleSpec => []ConsoleTypeOK)
<1>1. ConsoleInit => ConsoleRefs
  BY DEF ConsoleInit, ConsoleRefs
<1>2. DashTypeOK /\ ConsoleRefs /\ [ConsoleNext]_allVars => DashTypeOK' /\ ConsoleRefs'
  BY ConsoleStepIsPageStep, NextDashType, NextConsoleRefs
<1>3. DashTypeOK /\ ConsoleRefs => ConsoleTypeOK
  BY DEF ConsoleRefs, ConsoleTypeOK
<1> QED
  BY <1>1, <1>2, <1>3, InitDashType, LoadedDashType, PTL
  DEF ConsoleSpec, LoadedConsoleSpec, LoadedConsoleInit

-----------------------------------------------------------------------------
(* The map *)

\* The ref names the agent the map was last moved to.  Once it has moved for a
\* selection, the ref holds that selection and keeps the map still; once the
\* effects have run, the map has moved for every selection it can show.
MapInv ==
  /\ shown = prevSelectedId
  /\ pans \in {0, 1}
  /\ pans = 1 => prevSelectedId = selectedId
  /\ ~effectDue /\ selectedId \in Located(agents) => prevSelectedId = selectedId

LEMMA NextMapInv == MapInv /\ [ConsoleNext]_allVars => MapInv'
<1> SUFFICES ASSUME MapInv, [ConsoleNext]_allVars PROVE MapInv'
  OBVIOUS
<1> USE DEF MapInv
<1>1. CASE /\ BackendStep \/ NetworkStep \/ BrowserStep \/ \E q \in Requests : HandlerStep(q)
           /\ UNCHANGED consoleVars
  BY <1>1, PageStep DEF consoleVars, Located, Listed
<1>2. CASE RunEffects
  <2>1. agents' = agents /\ selectedId' = selectedId
    BY <1>2 DEF RunEffects, AlignRef
  <2>2. CASE selectedId # prevSelectedId /\ selectedId \in Located(agents)
    <3>1. prevSelectedId' = selectedId /\ shown' = selectedId /\ pans' = 1
      BY <1>2, <2>2 DEF RunEffects, ControlMap
    <3> QED BY <2>1, <3>1
  <2>3. CASE ~ (selectedId # prevSelectedId /\ selectedId \in Located(agents))
    <3>1. UNCHANGED <<prevSelectedId, shown, pans>>
      BY <1>2, <2>3 DEF RunEffects, ControlMap
    <3> QED BY <2>1, <2>3, <3>1 DEF Located, Listed
  <2> QED BY <2>2, <2>3
<1>3. ASSUME NEW a \in Agents, Select(a) PROVE MapInv'
  <2>1. selectedId' = a /\ UNCHANGED <<agents, effectDue>>
    BY <1>3 DEF Select, vars, page, react
  <2>2. CASE a # prevSelectedId /\ a \in Located(agents)
    <3>1. prevSelectedId' = a /\ shown' = a /\ pans' = 1
      BY <1>3, <2>2 DEF Select, ControlMap
    <3> QED BY <2>1, <3>1
  <2>3. CASE ~ (a # prevSelectedId /\ a \in Located(agents))
    <3>1. UNCHANGED <<prevSelectedId, shown>> /\ pans' = 0
      BY <1>3, <2>3 DEF Select, ControlMap
    <3> QED BY <2>1, <2>3, <3>1 DEF Located, Listed
  <2> QED BY <2>2, <2>3
<1>4. CASE UNCHANGED allVars
  BY <1>4 DEF allVars, vars, page, react, consoleVars, Located, Listed
<1> QED BY <1>1, <1>2, <1>3, <1>4 DEF ConsoleNext

LEMMA InitMapInv == (Init \/ LoadedInit) /\ ConsoleInit => MapInv
<1> SUFFICES ASSUME Init \/ LoadedInit, ConsoleInit PROVE MapInv
  OBVIOUS
<1>1. shown = prevSelectedId /\ selectedId = prevSelectedId /\ pans = 0
  BY DEF ConsoleInit
<1> QED BY <1>1 DEF MapInv

LEMMA MapInvCorrect == (ConsoleSpec => []MapInv) /\ (LoadedConsoleSpec => []MapInv)
BY InitMapInv, NextMapInv, PTL DEF ConsoleSpec, LoadedConsoleSpec, LoadedConsoleInit

\* A map that has moved for a selection is left to the operator: no tick, resync
\* or render moves it again, for any number of agents and of faults.
THEOREM OnePanPerSelectionCorrect ==
  (ConsoleSpec => []OnePanPerSelection) /\ (LoadedConsoleSpec => []OnePanPerSelection)
<1>1. MapInv => OnePanPerSelection
  BY DEF MapInv, OnePanPerSelection
<1> QED BY <1>1, MapInvCorrect, PTL

\* When the effects have run, the map shows the selected agent if it has a place.
THEOREM MapShowsSelectionCorrect ==
  (ConsoleSpec => []MapShowsSelection) /\ (LoadedConsoleSpec => []MapShowsSelection)
<1>1. MapInv => MapShowsSelection
  BY DEF MapInv, MapShowsSelection
<1> QED BY <1>1, MapInvCorrect, PTL
==============================================================================
