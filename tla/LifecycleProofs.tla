--------------------------- MODULE LifecycleProofs ---------------------------
(***************************************************************************)
(* The process and what it keeps for the user.                             *)
(*                                                                         *)
(* Lifecycle, Engine, Setup: the shutdown and the engine, for any number   *)
(* of requests, commands, workers and runs of the engine; and starts, the  *)
(* first-run setup and the provider row, for any servers, workspaces,      *)
(* configurations and environments.                                        *)
(*                                                                         *)
(* ListViews, TaskEditor: the views of any lists over any runs, and        *)
(* documents that are open while any number of snapshots arrive.  During a *)
(* run the remembered views are the chosen ones, between runs the stored   *)
(* ones are; a document keeps the identity it was rendered with, and what  *)
(* was made of it is known as long as its update is under way.             *)
(***************************************************************************)
EXTENDS Lifecycle, Engine, Setup, ListViews, TaskEditor, WellFoundedInduction, TLAPS

\* The steps of Run by which the door of the controller is shut.
Shut == {"wait", "stop_again", "wait_again", "close", "restore", "done"}

JobsTyped == job \in [Job -> {"none", "running", "storing", "leaving"}]

\* The store is closed late; by then the door is shut and nobody is left inside,
\* and the reader lives no longer than the interface.
ShutdownOrder ==
  /\ ~open => step \in {"restore", "done"}
  /\ step \in Shut => closing
  /\ step \in {"close", "restore", "done"} => Registered = {}
  /\ eventReader # "off" => step \in {"ui", "drain"}

ShutdownInv == JobsTyped /\ ShutdownOrder

\* A request that moves on was registered, and is none the less unless it leaves.
LEMMA MovesFacts ==
  ASSUME JobsTyped, NEW j \in Job,
         NEW from \in {"running", "storing", "leaving"},
         NEW to \in {"none", "running", "storing", "leaving"},
         Moves(j, from, to)
  PROVE  JobsTyped' /\ Registered # {}
  BY DEF JobsTyped, Moves, Registered

\* Every step keeps the order of the shutdown.
LEMMA ShutdownStep ==
  ASSUME ShutdownInv, [LifecycleNext]_lifecycleVars
  PROVE  ShutdownInv'
<1> USE DEF ShutdownInv, ShutdownOrder, Shut
<1>1. CASE RunStep
  <2>1. JobsTyped' /\ Registered' = Registered
    BY <1>1 DEF RunStep, Start, Initialize, LoadCache, Render, FailStart, RunUI, UIReturns,
       BeginShutdown, StopUI, StopHandler, SaveUIState, StopSync, StopReturns, StopTimesOut,
       CloseStore, FinishShutdown, Thread, JobsTyped, Registered
  <2>2. CASE Start \/ Initialize \/ LoadCache \/ Render \/ FailStart
    BY <2>1, <2>2 DEF Start, Initialize, LoadCache, Render, FailStart, Go, StartSteps
  <2>3. CASE RunUI \/ UIReturns \/ BeginShutdown \/ StopUI \/ StopHandler \/ SaveUIState
    BY <2>1, <2>3 DEF RunUI, UIReturns, BeginShutdown, StopUI, StopHandler, SaveUIState, Go
  <2>4. CASE StopSync
    BY <2>1, <2>4 DEF StopSync, CancelAll, Go
  <2>5. CASE StopReturns \/ StopTimesOut \/ CloseStore \/ FinishShutdown
    BY <2>1, <2>5 DEF StopReturns, StopTimesOut, CloseStore, FinishShutdown, Go
  <2> QED  BY <1>1, <2>2, <2>3, <2>4, <2>5 DEF RunStep
<1>2. CASE LeaveUI
  BY <1>2 DEF LeaveUI, Go, Thread, JobsTyped, Registered
<1>3. CASE Signal
  BY <1>3 DEF Signal, Beside, JobsTyped, Registered
<1>4. ASSUME NEW c \in Command, Dispatch(c) \/ Admit(c) \/ CommandEnds(c)  PROVE ShutdownInv'
  BY <1>4 DEF Dispatch, Admit, CommandEnds, Beside, JobsTyped, Registered
<1>5. ASSUME NEW c \in Command, NEW j \in Job, ScheduleRequest(c, j)  PROVE ShutdownInv'
  <2>1. JobsTyped' /\ step \notin Shut
    BY <1>5 DEF ScheduleRequest, JobsTyped
  <2> QED  BY <1>5, <2>1 DEF ScheduleRequest, Beside
<1>6. ASSUME NEW j \in Job, UseStore(j) \/ JobReturns(j) \/ JobLeaves(j)  PROVE ShutdownInv'
  <2>1. JobsTyped' /\ Registered # {}
    BY <1>6, MovesFacts DEF UseStore, JobReturns, JobLeaves
  <2> QED  BY <1>6, <2>1 DEF UseStore, JobReturns, JobLeaves, Beside
<1>7. CASE ReadEvent \/ Reloaded \/ ReaderStops
  BY <1>7 DEF ReadEvent, Reloaded, ReaderStops, Beside, JobsTyped, Registered
<1>8. CASE UNCHANGED lifecycleVars
  BY <1>8 DEF lifecycleVars, JobsTyped, Registered
<1> QED  BY <1>1, <1>2, <1>3, <1>4, <1>5, <1>6, <1>7, <1>8 DEF LifecycleNext

\* The store is closed over nobody's head (Runtime.Shutdown).
THEOREM ShutdownOutlives == LifecycleSpec => []StoreOutlivesSync
<1>1. LifecycleInit => ShutdownInv
  BY DEF LifecycleInit, ShutdownInv, JobsTyped, ShutdownOrder, Shut
<1>2. ShutdownInv /\ [LifecycleNext]_lifecycleVars => ShutdownInv'
  BY ShutdownStep
<1>3. ShutdownInv => StoreOutlivesSync
  BY DEF ShutdownInv, ShutdownOrder, StoreOutlivesSync
<1> QED  BY <1>1, <1>2, <1>3, PTL DEF LifecycleSpec

------------------------------------------------------------------------------
\* One caller of Stop at a time.
OneStopper == \A s, t \in Stopper : s = t

\* The engine knows its run, all other runs are over, and the run somebody waits
\* for is the current one.
RunsInOrder ==
  /\ started => current \in RunId
  /\ ~started => current = NoRun
  /\ \A r \in RunId : r # current => alive[r] = {}
  /\ \A r \in closed : alive[r] = {}
  /\ \A r \in stopped : r = current \/ r \in closed
  /\ \A s \in Stopper : stopping[s] # NoRun => started /\ stopping[s] = current

EngineInv == EngineTypeOK /\ RunsInOrder

\* No run has the number that says there is none.
LEMMA NoRunIsNone == NoRun \notin RunId
  BY EngineAssumption DEF NoRun, RunId

\* Every step keeps the runs in order, if only one caller stops the engine.
LEMMA EngineStep ==
  ASSUME OneStopper, EngineInv, [EngineNext]_evars
  PROVE  EngineInv'
<1> USE NoRunIsNone DEF EngineInv, EngineTypeOK, RunsInOrder
<1>1. ASSUME NEW r \in RunId, EngineStart(r)  PROVE EngineInv'
  BY <1>1 DEF EngineStart, Used
<1>2. ASSUME NEW r \in RunId, CloseDone(r)  PROVE EngineInv'
  BY <1>2 DEF CloseDone
<1>3. ASSUME NEW r \in RunId, NEW w \in Worker, WorkerReturns(r, w)  PROVE EngineInv'
  BY <1>3 DEF WorkerReturns
<1>4. CASE ParentEnds
  BY <1>4 DEF ParentEnds
<1>5. ASSUME NEW s \in Stopper, EngineStop(s)  PROVE EngineInv'
  BY <1>5 DEF EngineStop
<1>6. ASSUME NEW s \in Stopper, StopCompletes(s)  PROVE EngineInv'
  <2>1. stopping[s] = current /\ current \in closed
    BY <1>6 DEF StopCompletes
  <2>2. \A t \in Stopper : stopping'[t] = NoRun
    BY <1>6 DEF StopCompletes, OneStopper
  <2> QED  BY <1>6, <2>1, <2>2 DEF StopCompletes
<1>7. ASSUME NEW s \in Stopper, StopExpires(s)  PROVE EngineInv'
  BY <1>7 DEF StopExpires
<1>8. CASE UNCHANGED evars
  BY <1>8 DEF evars
<1> QED  BY <1>1, <1>2, <1>3, <1>4, <1>5, <1>6, <1>7, <1>8 DEF EngineNext

\* An engine that is not running has no worker left, if one caller at a time stops it
\* (sync.Engine.Stop).
THEOREM EngineOwns == ASSUME OneStopper PROVE EngineSpec => []EngineOwnsWorkers
<1>1. EngineInit => EngineInv
  BY NoRunIsNone DEF EngineInit, EngineInv, EngineTypeOK, RunsInOrder
<1>2. EngineInv /\ [EngineNext]_evars => EngineInv'
  BY EngineStep
<1>3. EngineInv => EngineOwnsWorkers
  BY NoRunIsNone DEF EngineInv, RunsInOrder, EngineOwnsWorkers
<1> QED  BY <1>1, <1>2, <1>3, PTL DEF EngineSpec

------------------------------------------------------------------------------
(* The setup. *)

\* What a start carries from step to step: who has asked for a token has it once
\* the configuration is saved, and the setup works on the defaults and the
\* environment it was begun with.
StartIsCoherent ==
  /\ stage = "choose" => way = "setup" /\ ~cfg.enabled
  /\ stage = "save_config" => way = "setup"
  /\ stage = "save_config" /\ (cfg.enabled \/ cfg.default = "clickup") => token = "saved"
  /\ way = "setup" /\ stage \in {"choose", "token", "save_config", "build"} =>
       /\ cfg.url = IF env.url = "" THEN DefaultUrl ELSE env.url
       /\ cfg.workspace = env.workspace
  /\ way = "setup" /\ stage \in {"token", "save_config", "build"} /\ cfg.default = "clickup" =>
       cfg.enabled

SetupInv == SetupTypeOK /\ StartIsCoherent /\ SavedSetupHasToken /\ PromptIsEnough /\ SetupOpens

------------------------------------------------------------------------------
\* The environment makes configurations of configurations.
LEMMA EnvironmentFacts ==
  ASSUME NEW c \in Config, NEW e \in Env
  PROVE  /\ ApplyEnvironment(c, e) \in Config
         /\ ApplyEnvironment(c, e).default = (IF e.default = "" THEN c.default ELSE e.default)
         /\ ApplyEnvironment(c, e).enabled = (IF e.enabled = "" THEN c.enabled ELSE e.enabled = "on")
         /\ ApplyEnvironment(c, e).url = (IF e.url = "" THEN c.url ELSE e.url)
         /\ ApplyEnvironment(c, e).workspace = (IF e.workspace = "" THEN c.workspace ELSE e.workspace)
  BY DEF ApplyEnvironment, Config, Env

\* So do the stored settings, which give way to settings that are given.
LEMMA PersistedFacts ==
  ASSUME NEW c \in Config, row \in Row \cup {NoRow}
  PROVE  /\ WithPersistedDefaults(c) \in Config
         /\ WithPersistedDefaults(c).default = c.default
         /\ WithPersistedDefaults(c).enabled = c.enabled
         /\ row # NoRow /\ c.url = DefaultUrl /\ c.workspace = "" =>
              /\ WithPersistedDefaults(c).url = row.url
              /\ WithPersistedDefaults(c).workspace = row.workspace
  BY SetupAssumption DEF WithPersistedDefaults, Config, Row

\* The defaults are a configuration.
LEMMA DefaultFacts == DefaultConfig \in Config
  BY SetupAssumption DEF DefaultConfig, Config, Provider, Variable

\* Main begins a coherent start.
LEMMA MainStep ==
  ASSUME SetupInv, Main
  PROVE  SetupInv'
<1> USE DEF SetupInv
<1>1. LoadConfig \in Config
  BY DefaultFacts, EnvironmentFacts DEF LoadConfig, SetupTypeOK, File
<1>2. SetupTypeOK'
  <2>1. cfg' = LoadConfig /\ starts < MaxStarts /\ starts' = starts + 1
        /\ UNCHANGED <<file, token, env, row>>
    BY DEF Main
  <2>2. starts' \in 0..MaxStarts
    <3>1. MaxStarts \in Nat /\ starts \in 0..MaxStarts
      BY SetupAssumption DEF SetupTypeOK
    <3> QED  BY <2>1, <3>1
  <2>3. way' \in {"nothing", "setup", "prompt", "headless"}
    BY DEF Main
  <2>4. stage' \in {"build", "choose", "token"}
    BY DEF Main
  <2> QED  BY <1>1, <2>1, <2>2, <2>3, <2>4 DEF SetupTypeOK, Phases
<1>3. way' = "setup" => /\ stage' = "choose" /\ ~cfg'.enabled /\ file = NoFile
                        /\ cfg'.url = IF env.url = "" THEN DefaultUrl ELSE env.url
                        /\ cfg'.workspace = env.workspace
  <2>1. file = NoFile => LoadConfig = ApplyEnvironment(DefaultConfig, env)
    BY DEF LoadConfig
  <2>2. DefaultConfig.url = DefaultUrl /\ DefaultConfig.workspace = ""
    BY DEF DefaultConfig
  <2>3. file = NoFile =>
             /\ LoadConfig.url = IF env.url = "" THEN DefaultUrl ELSE env.url
             /\ LoadConfig.workspace = env.workspace
    <3>1. env \in Env
      BY DEF SetupTypeOK
    <3>2. /\ ApplyEnvironment(DefaultConfig, env).url = (IF env.url = "" THEN DefaultUrl ELSE env.url)
          /\ ApplyEnvironment(DefaultConfig, env).workspace = env.workspace
      BY <2>2, <3>1, DefaultFacts, EnvironmentFacts
    <3> QED  BY <2>1, <3>2
  <2>4. way' = "setup" => stage' = "choose" /\ file = NoFile /\ ~LoadConfig.enabled /\ cfg' = LoadConfig
    BY DEF Main
  <2> QED  BY <2>3, <2>4
<1>4. /\ stage' \in {"choose", "token", "build"}
      /\ stage' = "choose" => way' = "setup"
      /\ stage' = "build" /\ way' # "headless" => way' = "nothing" /\ (cfg'.enabled => HasToken(cfg'))
      /\ stage' = "build" => way' # "setup"
      /\ stage' = "token" => way' = "prompt"
  BY DEF Main
<1>5. StartIsCoherent' /\ SetupOpens' /\ SavedSetupHasToken'
  BY <1>3, <1>4 DEF Main, StartIsCoherent, SetupOpens, SavedSetupHasToken
<1>6. PromptIsEnough'
  BY <1>4 DEF Main, PromptIsEnough, TokenResolves, HasToken, SetupTypeOK
<1> QED  BY <1>2, <1>5, <1>6

\* Build fails for no reason of its own.
LEMMA BuildStep ==
  ASSUME SetupInv, Build
  PROVE  SetupInv' /\ (row # NoRow => row' = row)
<1> USE DEF SetupInv
<1> DEFINE again == BuildConfig
           c == IF again.enabled THEN WithPersistedDefaults(again) ELSE again
<1>1. again \in Config
  BY EnvironmentFacts DEF BuildConfig, SetupTypeOK
<1>2. c \in Config /\ c.default = again.default /\ c.enabled = again.enabled
  BY <1>1, PersistedFacts DEF SetupTypeOK
<1>3. /\ cfg' = c
      /\ row' = IF c.enabled /\ Registers(c) THEN RowOf(c) ELSE row
      /\ stage' = IF (c.enabled => Registers(c)) /\ (c.default = "clickup" => c.enabled)
                    THEN "open" ELSE "failed"
      /\ UNCHANGED <<file, token, env, way, starts>>
      /\ stage = "build"
  BY DEF Build
<1> HIDE DEF c
<1>4. row' \in Row \cup {NoRow}
  BY <1>2, <1>3 DEF SetupTypeOK, RowOf, Row, Config
<1>5. SetupTypeOK'
  BY <1>2, <1>3, <1>4 DEF SetupTypeOK, Phases
<1>6. StartIsCoherent' /\ PromptIsEnough' /\ SavedSetupHasToken'
  BY <1>3 DEF StartIsCoherent, PromptIsEnough, SavedSetupHasToken
<1>7. SetupOpens'
  <2>1. SUFFICES ASSUME way = "setup", stage' = "failed",
                        env.enabled # "off", env.default # "clickup", token # "broken",
                        row' = NoRow \/ (env.url = "" /\ env.workspace = "")
                 PROVE  FALSE
    BY <1>3 DEF SetupOpens
  <2>2. /\ again.default = "clickup" => again.enabled
        /\ again.url = (IF env.url = "" THEN DefaultUrl ELSE env.url)
        /\ again.workspace = env.workspace
    <3>1. env \in Env /\ cfg \in Config
      BY DEF SetupTypeOK
    <3>2. /\ cfg.default = "clickup" => cfg.enabled
          /\ cfg.url = IF env.url = "" THEN DefaultUrl ELSE env.url
          /\ cfg.workspace = env.workspace
      BY <1>3, <2>1 DEF StartIsCoherent
    <3> QED  BY <2>1, <3>1, <3>2, EnvironmentFacts DEF BuildConfig, Env, Provider
  <2>3. c.enabled /\ ~Registers(c)
    BY <1>2, <1>3, <2>1, <2>2
  <2>4. row # NoRow /\ row' = row
    BY <1>3, <2>3 DEF Registers
  <2>5. c.url = row.url /\ c.workspace = row.workspace /\ row \in Row
    BY <1>1, <1>2, <2>1, <2>2, <2>3, <2>4, PersistedFacts DEF SetupTypeOK, c
  <2>6. row = RowOf(c)
    BY <2>5 DEF RowOf, Row
  <2> QED  BY <2>3, <2>6 DEF Registers
<1> QED  BY <1>3, <1>5, <1>6, <1>7 DEF Registers

\* Every step keeps a start coherent and the row what it is.
LEMMA SetupStep ==
  ASSUME SetupInv, [SetupNext]_setupVars
  PROVE  SetupInv' /\ (row # NoRow => row' = row)
<1> USE DEF SetupInv
<1>1. CASE Main
  BY <1>1, MainStep DEF Main
<1>2. CASE Build
  BY <1>2, BuildStep
<1>3. CASE ChooseLocal \/ ChooseClickUp
  <2>1. cfg' \in Config
    BY <1>3 DEF ChooseLocal, ChooseClickUp, SetupTypeOK, Config, Provider
  <2>2. /\ cfg'.url = cfg.url /\ cfg'.workspace = cfg.workspace
        /\ ChooseLocal => cfg'.enabled = cfg.enabled /\ cfg'.default = "local"
        /\ ChooseClickUp => cfg'.enabled
    BY <1>3 DEF ChooseLocal, ChooseClickUp, SetupTypeOK, Config
  <2> QED  BY <1>3, <2>1, <2>2 DEF ChooseLocal, ChooseClickUp, SetupTypeOK, Phases,
           StartIsCoherent, SavedSetupHasToken, PromptIsEnough, SetupOpens
<1>4. CASE SaveToken
  BY <1>4 DEF SaveToken, SetupTypeOK, Phases, StartIsCoherent, SavedSetupHasToken,
     PromptIsEnough, SetupOpens, TokenResolves
<1>5. CASE SaveConfig
  <2>1. file' \in File /\ (file'.is.default = cfg.default)
    BY <1>5, DefaultFacts DEF SaveConfig, SetupTypeOK, File, Config
  <2> QED  BY <1>5, <2>1 DEF SaveConfig, SetupTypeOK, Phases, StartIsCoherent,
           SavedSetupHasToken, PromptIsEnough, SetupOpens, TokenResolves
<1>6. CASE Abandon \/ Quit
  BY <1>6, DefaultFacts DEF Abandon, Quit, Ended, SetupTypeOK, Phases, StartIsCoherent,
     SavedSetupHasToken, PromptIsEnough, SetupOpens
<1>7. CASE ChangeEnvironment
  BY <1>7, SetupAssumption DEF ChangeEnvironment, SetupTypeOK, StartIsCoherent,
     SavedSetupHasToken, PromptIsEnough, SetupOpens
<1>8. CASE EditFile
  BY <1>8, SetupAssumption DEF EditFile, SetupTypeOK, File, StartIsCoherent,
     SavedSetupHasToken, PromptIsEnough, SetupOpens, TokenResolves
<1>9. CASE DamageToken
  BY <1>9 DEF DamageToken, SetupTypeOK, StartIsCoherent, SavedSetupHasToken,
     PromptIsEnough, SetupOpens
<1>10. CASE UNCHANGED setupVars
  BY <1>10 DEF setupVars, SetupTypeOK, StartIsCoherent, SavedSetupHasToken,
     PromptIsEnough, SetupOpens, TokenResolves
<1> QED  BY <1>1, <1>2, <1>3, <1>4, <1>5, <1>6, <1>7, <1>8, <1>9, <1>10 DEF SetupNext

\* The invariant of all starts.
THEOREM SetupSafety == SetupSpec => []SetupInv
<1>1. SetupInit => SetupInv
  <2>1. [default |-> "", enabled |-> "", url |-> "", workspace |-> "", secret |-> {}] \in Env
    BY DEF Env
  <2>2. SetupInit => SetupTypeOK
    <3>1. MaxStarts \in Nat
      BY SetupAssumption
    <3>2. 0 \in 0..MaxStarts
      BY <3>1
    <3> QED  BY <2>1, <3>2, DefaultFacts DEF SetupInit, SetupTypeOK, Phases
  <2> QED  BY <2>2 DEF SetupInit, SetupInv, StartIsCoherent, SavedSetupHasToken, PromptIsEnough,
           SetupOpens
<1>2. SetupInv /\ [SetupNext]_setupVars => SetupInv'
  BY SetupStep
<1> QED  BY <1>1, <1>2, PTL DEF SetupSpec

\* A session of ClickUp that could ask for a token has one (Main, the prompt, Build).
THEOREM SetupPrompts == SetupSpec => []PromptIsEnough
<1>1. SetupInv => PromptIsEnough
  BY DEF SetupInv
<1> QED  BY <1>1, SetupSafety, PTL

\* An answered first-run setup opens its session (Main to Build).
THEOREM SetupSucceeds == SetupSpec => []SetupOpens
<1>1. SetupInv => SetupOpens
  BY DEF SetupInv
<1> QED  BY <1>1, SetupSafety, PTL

\* A configuration the setup wrote for ClickUp is never without a token, wherever
\* the setup is cut off.
THEOREM SetupSavesToken == SetupSpec => []SavedSetupHasToken
<1>1. SetupInv => SavedSetupHasToken
  BY DEF SetupInv
<1> QED  BY <1>1, SetupSafety, PTL

\* The store binds a provider to one server and one workspace for ever.
THEOREM SetupKeepsServer == SetupSpec => ServerIsForEver
<1>1. SetupInv /\ [SetupNext]_setupVars => [row # NoRow => row' = row]_setupVars
  BY SetupStep
<1> QED  BY <1>1, SetupSafety, PTL DEF SetupSpec, ServerIsForEver

------------------------------------------------------------------------------

(* The views of the lists. *)

\* The screen and the stored state have their fields, and a view for every list.
ViewsKnown ==
  /\ screen = [f \in {"node", "view", "views"} |-> screen[f]]
  /\ screen.views = [l \in List |-> screen.views[l]]
  /\ savedState = [f \in {"list", "view", "views"} |-> savedState[f]]
  /\ savedState.views = [l \in List |-> savedState.views[l]]
  /\ chosenView = [l \in List |-> chosenView[l]]

\* What the user chose is stored, unless it was changed in this run or is lost.  In a run it
\* is remembered, and the view on the screen is the one remembered for its list; between
\* runs nothing is loaded or changed.
ViewsInv ==
  /\ ViewsKnown
  /\ \A l \in List \ changedViews : chosenView[l] \in {savedState.views[l], Lost}
  /\ Running => /\ screen.node \in List => screen.view = screen.views[screen.node]
                /\ \A l \in List : chosenView[l] \in {screen.views[l], Lost}
  /\ ~Running => changedViews = {} /\ screen = NoScreen /\ active = NoList

\* What one message leaves of the views, whatever it does to node and view.
LEMMA Settled ==
  ASSUME ViewsKnown, NEW node, NEW view, NEW new,
         new = [f \in {"node", "view", "views"} |->
                  IF f = "node" THEN node ELSE IF f = "view" THEN view ELSE screen.views],
         screen.node \in List => screen.view = screen.views[screen.node]
  PROVE  LET s == Settle(new)
         IN /\ s = [f \in {"node", "view", "views"} |-> s[f]] /\ s.node = node
            /\ s.views = [l \in List |-> s.views[l]]
            /\ node \in List => s.view = s.views[node]
            /\ node = screen.node => s.views = IF node \in List THEN [screen.views EXCEPT ![node] = view]
                                               ELSE screen.views
            /\ node # screen.node => s.views = screen.views
<1> DEFINE Is(s) == s = [f \in {"node", "view", "views"} |-> s[f]]
           left == IF IsList(screen.node) THEN Remember(new, screen.node, screen.view) ELSE new
           entered == IF IsList(new.node) /\ new.node # screen.node
                      THEN RestoreListView(left, new.node)
                      ELSE IF IsList(screen.node) /\ ~IsList(new.node)
                      THEN [left EXCEPT !.view.columns = NoColumns]
                      ELSE left
<1>1. Is(new) /\ new.node = node /\ new.view = view /\ new.views = screen.views
  OBVIOUS
<1>2. Is(left) /\ left.node = node /\ left.view = view /\ left.views = screen.views
  <2>1. [screen.views EXCEPT ![screen.node] = screen.view] = screen.views
    BY DEF ViewsKnown
  <2> QED  BY <1>1, <2>1 DEF Remember
<1>3. /\ Is(entered) /\ entered.node = node /\ entered.views = screen.views
      /\ node = screen.node => entered.view = view
      /\ IsList(node) /\ node # screen.node => entered.view = screen.views[node]
  <2>1. CASE IsList(node) /\ node # screen.node
    BY <1>1, <1>2, <2>1 DEF RestoreListView
  <2>2. CASE ~(IsList(node) /\ node # screen.node)
    <3>1. CASE IsList(screen.node) /\ ~IsList(node)
      BY <1>1, <1>2, <2>2, <3>1
    <3>2. CASE ~(IsList(screen.node) /\ ~IsList(node))
      <4>1. entered = left
        BY <1>1, <2>2, <3>2
      <4> QED  BY <1>2, <2>2, <4>1
    <3> QED  BY <3>1, <3>2
  <2> QED  BY <2>1, <2>2
<1>5. Settle(new) = IF IsList(node) THEN Remember(entered, node, entered.view) ELSE entered
  BY <1>1 DEF Settle
<1> HIDE DEF entered
<1>6. \A l \in List : IsList(l)
  BY ViewsAssumption DEF IsList
<1>7. CASE IsList(node)
  <2>1. /\ Is(Settle(new)) /\ Settle(new).node = node /\ Settle(new).view = entered.view
        /\ Settle(new).views = [screen.views EXCEPT ![node] = entered.view]
    BY <1>3, <1>5, <1>7 DEF Remember
  <2> QED  BY <1>3, <1>7, <2>1 DEF ViewsKnown
<1>8. CASE ~IsList(node)
  BY <1>3, <1>5, <1>6, <1>8 DEF ViewsKnown
<1> QED  BY <1>7, <1>8

\* A message in a run: the view of the list it stays on is chosen, or nothing is.
LEMMA ViewsMessage ==
  ASSUME ViewsInv, Running, NEW node, NEW view, UNCHANGED <<runPhase, savedState>>,
         screen' = Settle([f \in {"node", "view", "views"} |->
                     IF f = "node" THEN node ELSE IF f = "view" THEN view ELSE screen.views]),
         changedViews \subseteq changedViews',
         \/ /\ node \in List /\ node = screen.node /\ node \in changedViews'
            /\ chosenView' = [chosenView EXCEPT ![node] = view]
         \/ /\ chosenView' = chosenView
            /\ node \in List /\ node = screen.node => chosenView[node] = Lost
  PROVE  ViewsInv'
<1> DEFINE new == [f \in {"node", "view", "views"} |->
                     IF f = "node" THEN node ELSE IF f = "view" THEN view ELSE screen.views]
           s == Settle(new)
<1>1. /\ screen.node \in List => screen.view = screen.views[screen.node]
      /\ \A l \in List : chosenView[l] \in {screen.views[l], Lost}
      /\ \A l \in List \ changedViews : chosenView[l] \in {savedState.views[l], Lost}
  BY DEF ViewsInv
<1>0. ViewsKnown
  BY DEF ViewsInv
<1>2. /\ screen' = [f \in {"node", "view", "views"} |-> screen'[f]] /\ screen'.node = node
      /\ screen'.views = [l \in List |-> screen'.views[l]]
      /\ node \in List => screen'.view = screen'.views[node]
      /\ node = screen.node => screen'.views = IF node \in List
                                  THEN [screen.views EXCEPT ![node] = view] ELSE screen.views
      /\ node # screen.node => screen'.views = screen.views
  <2>1. /\ s = [f \in {"node", "view", "views"} |-> s[f]] /\ s.node = node
        /\ s.views = [l \in List |-> s.views[l]]
        /\ node \in List => s.view = s.views[node]
        /\ node = screen.node => s.views = IF node \in List
                                  THEN [screen.views EXCEPT ![node] = view] ELSE screen.views
        /\ node # screen.node => s.views = screen.views
    BY <1>0, <1>1, Settled
  <2>2. screen' = s
    OBVIOUS
  <2> HIDE DEF s
  <2> QED  BY <2>1, <2>2
<1> HIDE DEF new, s
<1>3. chosenView' = [l \in List |-> chosenView'[l]]
  BY <1>0 DEF ViewsKnown
<1>4. ViewsKnown'
  BY <1>0, <1>2, <1>3 DEF ViewsKnown
<1>5. ASSUME NEW l \in List
      PROVE  /\ chosenView'[l] \in {screen'.views[l], Lost}
             /\ l \notin changedViews' => chosenView'[l] = chosenView[l]
  <2>1. CASE node = screen.node /\ l = node
    BY <1>0, <1>1, <1>2, <2>1 DEF ViewsKnown
  <2>2. CASE ~(node = screen.node /\ l = node)
    <3>1. screen'.views[l] = screen.views[l]
      BY <1>0, <1>2, <2>2 DEF ViewsKnown
    <3>2. chosenView'[l] = chosenView[l]
      BY <1>0, <2>2 DEF ViewsKnown
    <3> QED  BY <1>1, <3>1, <3>2
  <2> QED  BY <2>1, <2>2
<1>6. \A l \in List \ changedViews' : chosenView'[l] \in {savedState'.views[l], Lost}
  BY <1>1, <1>5
<1> QED  BY <1>2, <1>4, <1>5, <1>6 DEF ViewsInv, Running

LEMMA ViewsStep ==
  ASSUME ViewsInv, [ViewsNext]_viewVars
  PROVE  ViewsInv'
<1> DEFINE To(node, view) ==
             [f \in {"node", "view", "views"} |->
                IF f = "node" THEN node ELSE IF f = "view" THEN view ELSE screen.views]
<1>1. ViewsKnown
  BY DEF ViewsInv
<1>2. ASSUME NEW node \in List \cup {Top}, Select(node)  PROVE ViewsInv'
  <2>1. [screen EXCEPT !.node = node] = To(node, screen.view)
    BY <1>1 DEF ViewsKnown
  <2>2. /\ Running /\ node # screen.node /\ screen' = Settle(To(node, screen.view))
        /\ UNCHANGED <<runPhase, savedState>> /\ chosenView' = chosenView /\ changedViews' = changedViews
    BY <1>2, <2>1 DEF Select, chosenVars
  <2> QED  BY <2>2, ViewsMessage
<1>3. ASSUME NEW view, Change(view)  PROVE ViewsInv'
  <2>1. [screen EXCEPT !.view = view] = To(screen.node, view)
    BY <1>1 DEF ViewsKnown
  <2>2. /\ Running /\ screen' = Settle(To(screen.node, view)) /\ UNCHANGED <<runPhase, savedState>>
        /\ IF IsList(screen.node) THEN Chooses(screen.node, view) ELSE UNCHANGED chosenVars
    BY <1>3, <2>1 DEF Change
  <2>3. /\ changedViews \subseteq changedViews'
        /\ \/ /\ screen.node \in List /\ screen.node \in changedViews'
              /\ chosenView' = [chosenView EXCEPT ![screen.node] = view]
           \/ chosenView' = chosenView /\ screen.node \notin List
    <3>1. screen.node \in List => IsList(screen.node)
      BY ViewsAssumption DEF IsList
    <3>2. screen.node \notin List => [chosenView EXCEPT ![screen.node] = view] = chosenView
      BY <1>1 DEF ViewsKnown
    <3> QED  BY <2>2, <3>1, <3>2 DEF Chooses, chosenVars
  <2> QED  BY <2>2, <2>3, ViewsMessage
<1>4. CASE SwitchProvider
  <2> DEFINE first == CHOOSE l \in List : \A m \in List : l <= m
             view == [screen.view EXCEPT !.filter = FALSE]
             chosen == [chosenView[first] EXCEPT !.filter = FALSE]
  <2>1. [screen EXCEPT !.node = first, !.view = view] = To(first, view)
    <3> HIDE DEF first, view
    <3> QED  BY <1>1 DEF ViewsKnown
  <2>2. /\ Running /\ UNCHANGED <<runPhase, savedState>>
        /\ screen' = Settle(To(first, view))
        /\ IF screen.node = first /\ chosenView[first] # Lost THEN Chooses(first, chosen)
           ELSE UNCHANGED chosenVars
    BY <1>4, <2>1 DEF SwitchProvider
  <2> HIDE DEF first
  <2>3. /\ changedViews \subseteq changedViews'
        /\ \/ /\ first \in List /\ first = screen.node /\ first \in changedViews'
              /\ chosenView' = [chosenView EXCEPT ![first] = view]
           \/ /\ chosenView' = chosenView
              /\ first \in List /\ first = screen.node => chosenView[first] = Lost
    <3>1. CASE first \in List /\ first = screen.node /\ chosenView[first] # Lost
      <4>1. chosenView[first] = screen.view
        BY <2>2, <3>1 DEF ViewsInv
      <4>2. chosen = view
        BY <4>1
      <4> QED  BY <2>2, <3>1, <4>2 DEF Chooses
    <3>2. CASE first \notin List
      <4>1. [chosenView EXCEPT ![first] = chosen] = chosenView
        BY <1>1, <3>2 DEF ViewsKnown
      <4> QED  BY <2>2, <3>2, <4>1 DEF Chooses, chosenVars
    <3>3. CASE first \in List /\ ~(first = screen.node /\ chosenView[first] # Lost)
      BY <2>2, <3>3 DEF chosenVars
    <3> QED  BY <3>1, <3>2, <3>3
  <2> HIDE DEF view
  <2> QED  BY <2>2, <2>3, ViewsMessage
<1>5. ASSUME NEW l \in List, Load(l)  PROVE ViewsInv'
  BY <1>5 DEF Load, chosenVars, ViewsInv, ViewsKnown, Running
<1>6. CASE StartRun
  BY <1>6 DEF StartRun, chosenVars, ViewsInv, ViewsKnown, Running
<1>7. CASE SetState
  <2>1. \A l \in List : IsList(l)
    BY ViewsAssumption DEF IsList
  <2>2. /\ ~Running /\ changedViews' = changedViews /\ chosenView' = chosenView
        /\ savedState' = savedState /\ Running'
        /\ screen' = [node |-> savedState.list, views |-> savedState.views,
                      view |-> IF IsList(savedState.list) THEN savedState.views[savedState.list]
                               ELSE [savedState.view EXCEPT !.columns = NoColumns]]
    BY <1>7 DEF SetState, chosenVars, Running
  <2>3. ViewsKnown'
    BY <1>1, <2>2 DEF ViewsKnown
  <2>4. /\ changedViews = {}
        /\ \A l \in List : chosenView[l] \in {savedState.views[l], Lost}
    BY <2>2 DEF ViewsInv
  <2> QED  BY <2>1, <2>2, <2>3, <2>4 DEF ViewsInv
<1>8. ASSUME NEW lost, Ends(lost), ~Running', savedState' = [f \in {"list", "view", "views"} |-> savedState'[f]],
             savedState'.views = [l \in List |-> savedState'.views[l]],
             \A l \in List \ lost : chosenView[l] \in {savedState'.views[l], Lost}
      PROVE  ViewsInv'
  <2>1. screen' = NoScreen /\ active' = NoList /\ changedViews' = {}
        /\ chosenView' = [l \in List |-> IF l \in lost THEN Lost ELSE chosenView[l]]
    BY <1>8 DEF Ends
  <2>2. ViewsKnown'
    BY <1>8, <2>1 DEF ViewsKnown, NoScreen
  <2> QED  BY <1>8, <2>1, <2>2 DEF ViewsInv
<1>9. /\ State = [f \in {"list", "view", "views"} |-> State[f]]
      /\ State.views = [l \in List |-> State.views[l]]
  BY <1>1 DEF State, ViewsKnown
<1>10. CASE Shutdown
  <2>1. /\ Running /\ ~Running' /\ savedState' = State /\ Ends({active} \ {screen.node, NoList})
    BY <1>10 DEF Shutdown, Running
  <2>2. ASSUME NEW l \in List \ ({active} \ {screen.node, NoList})
        PROVE  chosenView[l] \in {State.views[l], Lost}
    <3> DEFINE list == IF active # NoList THEN active ELSE screen.node
    <3>1. State.views = IF IsList(list) THEN [screen.views EXCEPT ![list] = screen.view]
                        ELSE screen.views
      BY DEF State
    <3>2. /\ chosenView[l] \in {screen.views[l], Lost}
          /\ l = screen.node => screen.view = screen.views[l]
      BY <2>1 DEF ViewsInv
    <3>3. l = list => l = screen.node
      BY <2>2
    <3> HIDE DEF list
    <3>4. State.views[l] = screen.views[l]
      BY <1>1, <3>1, <3>2, <3>3 DEF ViewsKnown
    <3> QED  BY <3>2, <3>4
  <2> QED  BY <1>8, <1>9, <2>1, <2>2
<1>11. CASE InterruptedStart
  <2>1. ~Running' /\ savedState' = State /\ Ends(List)
    BY <1>11 DEF InterruptedStart, Running
  <2> QED  BY <1>8, <1>9, <2>1
<1>12. CASE Crash
  <2>1. ~Running' /\ savedState' = savedState /\ Ends(changedViews)
    BY <1>12 DEF Crash, Running
  <2>2. \A l \in List \ changedViews : chosenView[l] \in {savedState.views[l], Lost}
    BY DEF ViewsInv
  <2> QED  BY <1>1, <1>8, <2>1, <2>2 DEF ViewsKnown
<1>13. CASE UNCHANGED viewVars
  BY <1>13 DEF viewVars, chosenVars, ViewsInv, ViewsKnown, Running
<1>14. ASSUME ApplyFilter \/ UpdateColumnConfig  PROVE ViewsInv'
  BY <1>3, <1>14 DEF ApplyFilter, UpdateColumnConfig
<1> QED  BY <1>2, <1>4, <1>5, <1>6, <1>7, <1>10, <1>11, <1>12, <1>13, <1>14 DEF ViewsNext

\* Every list has the view the user last gave it, over lists, loads, provider switches,
\* quits, crashes and starts (Update, SetState, State), unless the end of a run lost it in
\* one of the three ways the property names.
THEOREM ViewsFollow == ViewsSpec => []ViewsFollowTheUser
<1>1. ViewsInit => ViewsInv
  BY DEF ViewsInit, ViewsInv, ViewsKnown, NoScreen, NoState, Running
<1>2. ViewsInv /\ [ViewsNext]_viewVars => ViewsInv'
  BY ViewsStep
<1>3. ViewsInv => ViewsFollowTheUser
  BY DEF ViewsInv, ViewsFollowTheUser, ViewOf
<1> QED  BY <1>1, <1>2, <1>3, PTL DEF ViewsSpec

------------------------------------------------------------------------------
(* A task edited as a document. *)

Line == {"id"} \cup Field
Value == Item \cup Text \cup Status \cup Due \cup {NoDue}
Document == UNION {[lines -> Value] : lines \in SUBSET Line}

\* A document as it was rendered, and what the user has made of it.
Rendered == {d \in [Line -> Value] : d["id"] \in Item}
Session == {e \in [original : Rendered, buffer : Document \cup {Malformed}] :
              e.buffer = e.original \/ e.buffer \in Saved(e.original)}

\* An update that was sent had a reason, and went to the task it was meant for.
Update == {c \in [task : Item, text : Text, status : Status, due : Due \cup {NoDue},
                  clear : BOOLEAN, from : Session] :
             /\ "id" \in DOMAIN c.from.buffer => c.task = c.from.original.id
             /\ \/ Edited(c.from.buffer, c.from.original) # {}
                \/ DOMAIN c.from.buffer # DOMAIN c.from.original
             /\ c.clear = (c.due = NoDue)
             /\ \A f \in Edited(c.from.buffer, c.from.original) : c[f] = c.from.buffer[f]}

EditorInv ==
  /\ EditorTypeOK
  /\ editor = NoEditor \/ editor \in Session
  /\ sent \in Seq(Update)

LEMMA Rendering ==
  ASSUME NEW task \in Item, NEW content \in Content
  PROVE  /\ RenderTaskDocument(task, content) \in Rendered
         /\ RenderTaskDocument(task, content) \in Document
<1>1. content.text \in Value /\ content.status \in Value /\ content.due \in Value
  BY DEF Content, Value
<1>2. RenderTaskDocument(task, content) \in [Line -> Value]
  BY <1>1 DEF RenderTaskDocument, Line, Field, Value
<1> QED  BY <1>2 DEF Rendered, Document, RenderTaskDocument, Line

LEMMA Saving ==
  ASSUME NEW original \in Rendered, NEW d \in Saved(original)
  PROVE  d \in Document \cup {Malformed}
<1>1. SUFFICES ASSUME d # Malformed PROVE d \in Document
  OBVIOUS
<1>2. PICK missing \in {"none", "id", "status", "due"}, body \in Content :
        d = [line \in ({"id"} \cup Field) \ {missing} |-> IF line = "id" THEN original.id ELSE body[line]]
  BY <1>1 DEF Saved
<1>3. body.text \in Value /\ body.status \in Value /\ body.due \in Value
  BY DEF Content, Value
<1>4. original.id \in Value
  BY DEF Rendered, Value
<1>5. d \in [Line \ {missing} -> Value]
  BY <1>2, <1>3, <1>4 DEF Line, Field
<1> QED  BY <1>5 DEF Document

\* What the lines of a document that was saved are.
LEMMA SavedIs ==
  ASSUME NEW e \in Session, e.buffer # e.original, e.buffer # Malformed
  PROVE  /\ "id" \in DOMAIN e.buffer => e.buffer.id = e.original.id
         /\ "text" \in DOMAIN e.buffer => e.buffer.text \in Text
         /\ "status" \in DOMAIN e.buffer => e.buffer.status \in Status
         /\ "due" \in DOMAIN e.buffer => e.buffer.due \in Due \cup {NoDue}
         /\ \/ Edited(e.buffer, e.original) # {}
            \/ DOMAIN e.buffer # DOMAIN e.original
<1>1. e.buffer \in Saved(e.original) /\ e.original \in [Line -> Value]
  BY DEF Session, Rendered
<1>2. PICK missing \in {"none", "id", "status", "due"}, body \in Content :
        e.buffer = [line \in ({"id"} \cup Field) \ {missing} |->
                      IF line = "id" THEN e.original.id ELSE body[line]]
  <2> DEFINE b == e.buffer
             original == e.original
  <2> HIDE DEF b, original
  <2>1. b \in Saved(original) /\ b # Malformed
    BY <1>1 DEF b, original
  <2>2. \E missing \in {"none", "id", "status", "due"}, body \in Content :
          b = [line \in ({"id"} \cup Field) \ {missing} |->
                 IF line = "id" THEN original.id ELSE body[line]]
    BY <2>1 DEF Saved
  <2> QED  BY <2>2 DEF b, original
<1>3. body.text \in Text /\ body.status \in Status /\ body.due \in Due \cup {NoDue}
  BY DEF Content
<1>4. ASSUME DOMAIN e.buffer = DOMAIN e.original, Edited(e.buffer, e.original) = {}  PROVE FALSE
  <2>1. DOMAIN e.buffer = Line
    BY <1>1, <1>4
  <2>2. \A f \in Field : e.buffer[f] = e.original[f]
    BY <1>4, <2>1 DEF Edited, Line
  <2>3. e.buffer["id"] = e.original["id"]
    BY <1>2, <2>1 DEF Line
  <2>4. \A f \in Line : e.buffer[f] = e.original[f]
    BY <2>2, <2>3 DEF Line
  <2>5. e.buffer = e.original
    BY <1>1, <1>2, <2>1, <2>4
  <2> QED  BY <2>5
<1> QED  BY <1>2, <1>3, <1>4 DEF Field

LEMMA Parsing ==
  ASSUME NEW e \in Session, e.buffer # e.original, e.buffer # Malformed, NEW content \in Content
  PROVE  ParseTaskDocument(e.buffer, content) \in [Field -> Value]
         /\ ParseTaskDocument(e.buffer, content).text \in Text
         /\ ParseTaskDocument(e.buffer, content).status \in Status
         /\ ParseTaskDocument(e.buffer, content).due \in Due \cup {NoDue}
  BY SavedIs DEF ParseTaskDocument, Field, Content, Value

LEMMA Finishing ==
  ASSUME EditorInv, editor # NoEditor, FinishTaskEditor
  PROVE  sent' \in Seq(Update)
<1>1. editor \in Session
  BY DEF EditorInv
<1>2. CASE sent' = sent
  BY <1>2 DEF EditorInv
<1>3. CASE sent' # sent
  <2> DEFINE to == ParseTaskDocument(editor.buffer, onScreen.rows[picked])
             c == UpdateCommand(picked, to, editor)
  <2>1. TakenUp(editor) /\ sent' = Append(sent, c)
    BY <1>3 DEF FinishTaskEditor
  <2>2. /\ editor.buffer # editor.original /\ picked # NoItem
        /\ editor.buffer # Malformed
        /\ "id" \in DOMAIN editor.buffer => editor.buffer.id = picked
    BY <2>1 DEF TakenUp, Parses
  <2>3. picked \in Item /\ onScreen.rows[picked] \in Content
    BY <2>2 DEF EditorInv, EditorTypeOK, ShownSnapshot, ItemRows
  <2>4. to.text \in Text /\ to.status \in Status /\ to.due \in Due \cup {NoDue}
    BY <1>1, <2>2, <2>3, Parsing
  <2> HIDE DEF to
  <2>5. c = [task |-> picked, text |-> to.text, status |-> to.status, due |-> to.due,
             clear |-> to.due = NoDue, from |-> editor]
    BY DEF UpdateCommand
  <2>6. \A f \in Edited(editor.buffer, editor.original) : to[f] = editor.buffer[f]
    BY DEF to, ParseTaskDocument, Edited
  <2>7. \A f \in Edited(editor.buffer, editor.original) : c[f] = editor.buffer[f]
    BY <2>5, <2>6 DEF Edited, Field
  <2>8. c \in Update
    BY <1>1, <2>2, <2>3, <2>4, <2>5, <2>7, SavedIs DEF Update
  <2> QED  BY <2>1, <2>8 DEF EditorInv
<1> QED  BY <1>2, <1>3

\* Rows that are none.
LEMMA NoRows == ASSUME NEW rows \in ItemRows PROVE rows = <<>> <=> DOMAIN rows = {}
<1>1. PICK shown \in SUBSET Item : rows \in [shown -> Content]
  BY DEF ItemRows
<1>2. ASSUME DOMAIN rows = {}  PROVE rows = <<>>
  <2>1. rows = [i \in {} |-> rows[i]]
    BY <1>1, <1>2
  <2>2. <<>> = [i \in {} |-> rows[i]]
    OBVIOUS
  <2> QED  BY <2>1, <2>2
<1> QED  BY <1>2

\* A row patched by an update is a row.
LEMMA Patching ==
  ASSUME NEW content \in Content, NEW c \in Update PROVE Patched(content, c) \in Content
  BY DEF Patched, Content, Update

LEMMA Removing ==
  ASSUME NEW S, NEW s \in Seq(S), NEW i \in DOMAIN s  PROVE RemoveAt(s, i) \in Seq(S)
  BY DEF RemoveAt

\* Rows after one is written, or one is gone.
LEMMA RowsWritten ==
  ASSUME NEW rows \in ItemRows, NEW task \in Item, NEW content \in Content
  PROVE  /\ [t \in DOMAIN rows \cup {task} |-> IF t = task THEN content ELSE rows[t]] \in ItemRows
         /\ [t \in DOMAIN rows \ {task} |-> rows[t]] \in ItemRows
         /\ [rows EXCEPT ![task] = content] \in ItemRows
<1>1. PICK shown \in SUBSET Item : rows \in [shown -> Content]
  BY DEF ItemRows
<1>2. /\ [t \in shown \cup {task} |-> IF t = task THEN content ELSE rows[t]] \in [shown \cup {task} -> Content]
      /\ [t \in shown \ {task} |-> rows[t]] \in [shown \ {task} -> Content]
      /\ [rows EXCEPT ![task] = content] \in [shown -> Content]
  BY <1>1
<1>3. /\ shown \cup {task} \in SUBSET Item /\ shown \ {task} \in SUBSET Item /\ DOMAIN rows = shown
  BY <1>1
<1>4. \A domain \in SUBSET Item : [domain -> Content] \subseteq ItemRows
  BY DEF ItemRows
<1> QED  BY <1>2, <1>3, <1>4

LEMMA EditorStep ==
  ASSUME EditorInv, [EditorNext]_editorVars
  PROVE  EditorInv'
<1>0. /\ stored \in ShownSnapshot /\ onScreen \in ShownSnapshot
      /\ stored.rows \in ItemRows /\ onScreen.rows \in ItemRows
      /\ stored.statuses \in EditorOptions
  BY DEF EditorInv, EditorTypeOK, ShownSnapshot
<1>1. CASE StartTaskEditor
  <2> DEFINE document == RenderTaskDocument(picked, onScreen.rows[picked])
             e == [original |-> document, buffer |-> document]
  <2>1. picked \in Item /\ onScreen.rows[picked] \in Content
    BY <1>0, <1>1 DEF StartTaskEditor, EditorInv, EditorTypeOK, ItemRows
  <2>2. document \in Rendered /\ document \in Document
    BY <2>1, Rendering
  <2>3. editor' = e /\ edits' = edits + 1 /\ edits < MaxEdits
    BY <1>1 DEF StartTaskEditor
  <2> HIDE DEF document
  <2>4. e \in Session
    BY <2>2 DEF Session
  <2>5. edits' \in 0..MaxEdits
    BY <2>3, EditorAssumption DEF EditorInv, EditorTypeOK
  <2> QED  BY <1>1, <2>3, <2>4, <2>5 DEF StartTaskEditor, EditorInv, EditorTypeOK
<1>2. CASE Save
  <2>1. editor \in Session
    BY <1>2 DEF Save, EditorInv
  <2>2. PICK document \in Saved(editor.original) : editor' = [editor EXCEPT !.buffer = document]
    BY <1>2 DEF Save
  <2>3. document \in Document \cup {Malformed}
    BY <2>1, Saving DEF Session
  <2>4. editor' \in Session
    BY <2>1, <2>2, <2>3 DEF Session
  <2> QED  BY <1>2, <2>4 DEF Save, EditorInv, EditorTypeOK
<1>3. CASE FinishTaskEditor
  <2>1. sent' \in Seq(Update)
    BY <1>3, Finishing DEF FinishTaskEditor
  <2> QED  BY <1>3, <2>1 DEF FinishTaskEditor, EditorInv, EditorTypeOK
<1>4. CASE MoveSelection
  <2>1. picked' # NoItem
    BY <1>0, <1>4, EditorAssumption DEF MoveSelection, ItemRows
  <2>2. picked' = NoItem <=> picked = NoItem
    BY <1>4, <2>1 DEF MoveSelection
  <2> QED  BY <1>4, <2>2 DEF MoveSelection, EditorInv, EditorTypeOK
<1>5. CASE ReadSnapshot
  <2>1. reading' = <<stored>>
    BY <1>5 DEF ReadSnapshot
  <2>2. Len(reading') <= 1 /\ \A i \in DOMAIN reading' : reading'[i] \in ShownSnapshot
    BY <1>0, <2>1
  <2> QED  BY <1>5, <2>2 DEF ReadSnapshot, EditorInv, EditorTypeOK
<1>6. CASE ApplySnapshot
  <2> DEFINE next == onScreen'
  <2>1. reading # <<>> /\ next = Head(reading) /\ reading' = <<>>
    BY <1>6 DEF ApplySnapshot
  <2>2. next \in ShownSnapshot
    BY <2>1 DEF EditorInv, EditorTypeOK
  <2>3. next.rows \in ItemRows /\ DOMAIN next.rows \subseteq Item
    BY <2>2 DEF ShownSnapshot, ItemRows
  <2>4. IF picked \in DOMAIN next.rows THEN picked' = picked
        ELSE picked' \in IF DOMAIN next.rows = {} THEN {NoItem} ELSE DOMAIN next.rows
    BY <1>6, <2>1 DEF ApplySnapshot
  <2>5. picked' \in DOMAIN next.rows \cup {NoItem} /\ (picked' = NoItem <=> DOMAIN next.rows = {})
    BY <2>3, <2>4, EditorAssumption
  <2>6. picked' = NoItem <=> next.rows = <<>>
    BY <2>3, <2>5, NoRows
  <2> QED  BY <1>6, <2>1, <2>2, <2>5, <2>6 DEF ApplySnapshot, EditorInv, EditorTypeOK
<1>7. CASE Pull
  <2>1. stored' \in ShownSnapshot
    <3>1. CASE \E task \in Item, content \in Content :
                 stored' = [stored EXCEPT !.rows =
                   [t \in DOMAIN @ \cup {task} |-> IF t = task THEN content ELSE @[t]]]
      BY <1>0, <3>1, RowsWritten DEF ShownSnapshot
    <3>2. CASE \E task \in DOMAIN stored.rows :
                 stored' = [stored EXCEPT !.rows = [t \in DOMAIN @ \ {task} |-> @[t]]]
      <4>1. PICK task \in DOMAIN stored.rows :
              stored' = [stored EXCEPT !.rows = [t \in DOMAIN @ \ {task} |-> @[t]]]
        BY <3>2
      <4>2. task \in Item /\ stored.rows[task] \in Content
        BY <1>0 DEF ItemRows
      <4>3. [t \in DOMAIN stored.rows \ {task} |-> stored.rows[t]] \in ItemRows
        BY <1>0, <4>2, RowsWritten
      <4> QED  BY <1>0, <4>1, <4>3 DEF ShownSnapshot
    <3>3. CASE \E statuses \in EditorOptions : stored' = [stored EXCEPT !.statuses = statuses]
      BY <1>0, <3>3 DEF ShownSnapshot
    <3> QED  BY <1>7, <3>1, <3>2, <3>3 DEF Pull
  <2>2. pulls' \in 0..MaxPulls
    BY <1>7, EditorAssumption DEF Pull, EditorInv, EditorTypeOK
  <2> QED  BY <1>7, <2>1, <2>2 DEF Pull, EditorInv, EditorTypeOK
<1>8. ASSUME NEW i \in DOMAIN sent, Execute(i)  PROVE EditorInv'
  <2> DEFINE c == sent[i]
  <2>1. c \in Update /\ sent' \in Seq(Update)
    BY <1>8, Removing DEF Execute, EditorInv
  <2>2. c.task \in Item
    BY <2>1 DEF Update
  <2>3. stored' \in ShownSnapshot
    <3>1. CASE c.task \notin DOMAIN stored.rows
      BY <1>0, <1>8, <3>1 DEF Execute
    <3>2. CASE c.task \in DOMAIN stored.rows
      <4>1. stored.rows[c.task] \in Content
        BY <1>0, <3>2 DEF ItemRows
      <4>2. Patched(stored.rows[c.task], c) \in Content
        BY <2>1, <4>1, Patching
      <4>3. stored' = [stored EXCEPT !.rows = [stored.rows EXCEPT ![c.task] = Patched(stored.rows[c.task], c)]]
        BY <1>8, <3>2 DEF Execute
      <4> HIDE DEF c
      <4>4. [stored.rows EXCEPT ![c.task] = Patched(stored.rows[c.task], c)] \in ItemRows
        BY <1>0, <2>2, <4>2, RowsWritten
      <4> QED  BY <1>0, <4>3, <4>4 DEF ShownSnapshot
    <3> QED  BY <3>1, <3>2
  <2> QED  BY <1>8, <2>1, <2>3 DEF Execute, EditorInv, EditorTypeOK
<1>9. CASE UNCHANGED editorVars
  BY <1>9 DEF editorVars, EditorInv, EditorTypeOK
<1> QED  BY <1>1, <1>2, <1>3, <1>4, <1>5, <1>6, <1>7, <1>8, <1>9 DEF EditorNext

\* The types of rows, snapshots and documents, and the reasons of every update sent.
THEOREM EditorSafety == EditorSpec => []EditorInv
<1>1. EditorInit => EditorInv
  <2> SUFFICES ASSUME EditorInit PROVE EditorInv
    OBVIOUS
  <2>1. stored \in [rows : [Item -> Content], statuses : {{}}] /\ onScreen = stored /\ picked \in Item
    BY DEF EditorInit
  <2>2. stored.rows \in ItemRows /\ DOMAIN stored.rows = Item /\ stored \in ShownSnapshot
    BY <2>1 DEF ItemRows, ShownSnapshot, EditorOptions
  <2>3. picked # NoItem /\ stored.rows # <<>>
    BY <2>1, <2>2, NoRows, EditorAssumption
  <2> QED  BY <2>1, <2>2, <2>3, EditorAssumption DEF EditorInit, EditorInv, EditorTypeOK
<1>2. EditorInv /\ [EditorNext]_editorVars => EditorInv'
  BY EditorStep
<1> QED  BY <1>1, <1>2, PTL DEF EditorSpec

\* An update goes to the task its document names (ParseTaskDocumentWithOptions), whatever
\* has been selected since the document was opened.
THEOREM EditsReach == EditorSpec => []EditReachesItsTask
<1>1. EditorInv => EditReachesItsTask
  BY DEF EditorInv, EditReachesItsTask, Update
<1> QED  BY <1>1, EditorSafety, PTL

\* A document that was only looked at changes nothing (finishTaskEditor).
THEOREM EditsHaveReason == EditorSpec => []OnlyEditsAreSent
<1>1. EditorInv => OnlyEditsAreSent
  BY DEF EditorInv, OnlyEditsAreSent, Update
<1> QED  BY <1>1, EditorSafety, PTL

\* A set of numbers that is not empty has a least one.
LEMMA LeastNumber ==
  ASSUME NEW S \in SUBSET Nat, S # {}
  PROVE  \E x \in S : \A y \in S : x <= y
<1>1. PICK x \in S : \A y \in S : <<y, x>> \notin OpToRel(<, Nat)
  BY NatLessThanWellFounded, WFMin
<1>2. ASSUME NEW y \in S, y < x  PROVE FALSE
  <2> DEFINE pair == <<y, x>>
  <2>1. pair \in Nat \X Nat /\ pair[1] < pair[2]
    BY <1>2
  <2>2. pair \in OpToRel(<, Nat)
    BY <2>1 DEF OpToRel
  <2> QED  BY <1>1, <2>2
<1> QED  BY <1>2

LEMMA ConcatAt ==
  ASSUME NEW S, NEW s \in Seq(S), NEW t \in Seq(S), NEW n \in 1..(Len(s) + Len(t))
  PROVE  (s \o t)[n] = IF n <= Len(s) THEN s[n] ELSE t[n - Len(s)]
  OBVIOUS

\* What comes after an element moves up when it is removed.
LEMMA RemovedAt ==
  ASSUME NEW S, NEW s \in Seq(S), NEW i \in DOMAIN s, NEW n \in 1..(Len(s) - 1)
  PROVE  RemoveAt(s, i)[n] = IF n < i THEN s[n] ELSE s[n + 1]
<1>1. PICK front : front = SubSeq(s, 1, i - 1)
  OBVIOUS
<1>2. PICK back : back = SubSeq(s, i + 1, Len(s))
  OBVIOUS
<1>3. /\ front \in Seq(S) /\ Len(front) = i - 1
      /\ \A m \in 1..(i - 1) : front[m] = s[m]
  BY <1>1
<1>4. /\ back \in Seq(S) /\ Len(back) = Len(s) - i
      /\ \A m \in 1..(Len(s) - i) : back[m] = s[i + m]
  BY <1>2
<1>5. RemoveAt(s, i)[n] = IF n <= Len(front) THEN front[n] ELSE back[n - Len(front)]
  BY <1>1, <1>2, <1>3, <1>4, ConcatAt DEF RemoveAt
<1> QED  BY <1>3, <1>4, <1>5

\* Which of two equal neighbours is removed does not matter, and if it does not
\* matter they are equal.
LEMMA RemovedAlike ==
  ASSUME NEW S, NEW s \in Seq(S), NEW i \in DOMAIN s, NEW k \in DOMAIN s, i < k,
         RemoveAt(s, i) = RemoveAt(s, k)
  PROVE  s[i] = s[k]
<1>1. ASSUME NEW n \in i..(k - 1)  PROVE s[n + 1] = s[n]
  BY <1>1, RemovedAt
<1> DEFINE others == {n \in i..k : s[n] # s[i]}
<1>2. CASE others = {}
  BY <1>2
<1>3. CASE others # {}
  <2>1. PICK n \in others : \A m \in others : n <= m
    <3>1. others \in SUBSET Nat
      OBVIOUS
    <3> HIDE DEF others
    <3> QED  BY <1>3, <3>1, LeastNumber
  <2>2. n - 1 \in i..(k - 1) /\ n - 1 \notin others
    BY <2>1
  <2> QED  BY <1>1, <2>1, <2>2
<1> QED  BY <1>2, <1>3

\* Carrying an update out leaves every field the user edited as the document has it
\* (the patch of the update command), a due date that was cleared included.
THEOREM EditsTakeEffect == EditorSpec => EditsLand
<1>1. ASSUME EditorInv, [EditorNext]_editorVars, NEW i \in DOMAIN sent,
             sent' = RemoveAt(sent, i), sent[i].task \in DOMAIN stored.rows
      PROVE  \E j \in DOMAIN sent : sent' = RemoveAt(sent, j) /\
               \A f \in Edited(sent[j].from.buffer, sent[j].from.original) :
                 stored'.rows[sent[j].task][f] = sent[j].from.buffer[f]
  <2>1. Len(sent') = Len(sent) - 1 /\ sent \in Seq(Update)
    BY <1>1 DEF EditorInv, RemoveAt
  <2>2. ~(UNCHANGED sent) /\ \A c : sent' # Append(sent, c)
    BY <2>1
  <2>3. PICK j \in DOMAIN sent : Execute(j)
    BY <1>1, <2>2 DEF EditorNext, StartTaskEditor, Save, FinishTaskEditor, MoveSelection,
       ReadSnapshot, ApplySnapshot, Pull, editorVars
  <2>4. sent' = RemoveAt(sent, j)
    BY <2>3 DEF Execute
  <2>5. sent[j] = sent[i]
    <3>1. CASE i < j  BY <1>1, <2>1, <2>4, <3>1, RemovedAlike
    <3>2. CASE j < i  BY <1>1, <2>1, <2>4, <3>2, RemovedAlike
    <3> QED  BY <2>1, <3>1, <3>2
  <2> DEFINE c == sent[j]
             content == stored.rows[c.task]
  <2>6. c \in Update /\ c.task \in DOMAIN stored.rows
    BY <1>1, <2>1, <2>5
  <2>7. content \in Content /\ Patched(content, c) \in Content
    BY <1>1, <2>6, Patching DEF EditorInv, EditorTypeOK, ShownSnapshot, ItemRows
  <2>8. stored'.rows[c.task] = Patched(content, c)
    <3>1. stored' = [stored EXCEPT !.rows = [stored.rows EXCEPT ![c.task] = Patched(content, c)]]
      BY <2>3, <2>6 DEF Execute
    <3> QED  BY <1>1, <2>6, <3>1 DEF EditorInv, EditorTypeOK, ShownSnapshot, ItemRows
  <2> HIDE DEF content
  <2>9. ASSUME NEW f \in Edited(c.from.buffer, c.from.original)  PROVE Patched(content, c)[f] = c.from.buffer[f]
    <3>1. f \in Field /\ c[f] = c.from.buffer[f]
      BY <2>6 DEF Update, Edited
    <3>2. Patched(content, c)[f] = c[f]
      BY <2>6, <3>1 DEF Patched, Field, Update
    <3> QED  BY <3>1, <3>2
  <2> QED  BY <2>4, <2>8, <2>9
<1>2. EditorInv /\ [EditorNext]_editorVars => [\A i \in DOMAIN sent :
       LET c == sent[i] IN
       sent' = RemoveAt(sent, i) /\ c.task \in DOMAIN stored.rows =>
         \E j \in DOMAIN sent : sent' = RemoveAt(sent, j) /\
           \A f \in Edited(sent[j].from.buffer, sent[j].from.original) :
             stored'.rows[sent[j].task][f] = sent[j].from.buffer[f]]_editorVars
  BY <1>1
<1> QED  BY <1>2, EditorSafety, PTL DEF EditsLand, EditorSpec
==============================================================================
