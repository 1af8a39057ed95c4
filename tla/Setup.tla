-------------------------------- MODULE Setup --------------------------------
(***************************************************************************)
(* A start of the program up to its first session: configuration file and  *)
(* environment, first-run setup or the prompt for a token, the credential  *)
(* file, and the provider row the store binds to one server.  Starts       *)
(* follow each other; between them the user edits the file and changes the *)
(* environment, and any start may be cut off between two steps.            *)
(*                                                                         *)
(* Of the settings only those of ClickUp and the default provider are      *)
(* kept.  "" is a setting that is not given.                               *)
(***************************************************************************)
EXTENDS Naturals

CONSTANTS
  Url,        \* servers, DefaultUrl among them
  DefaultUrl,
  Workspace,  \* workspace ids, without ""
  NoFile, NoRow,
  Written,    \* inputs: the configurations the user writes,
  Exported,   \* and the environments of a start
  MaxStarts   \* bound: starts of a behaviour

VARIABLES
  file,      \* the configuration file, or NoFile
  token,     \* the credential file: "none", "saved", "broken"
  env,       \* the environment of the next start
  row,       \* ClickUp's row in the store, or NoRow
  stage,     \* where the start is
  cfg,       \* its configuration
  way,       \* what it asked: "nothing", "setup", "prompt", or "headless"
  starts

setupVars == <<file, token, env, row, stage, cfg, way, starts>>

Variable == {"standard", "other"}   \* names token_env can have
Provider == {"local", "clickup"}
Config == [default : Provider, enabled : BOOLEAN, url : Url,
           workspace : Workspace \cup {""}, tokenEnv : Variable]
\* What the lines of a file make of a configuration, and who wrote them.
File == [by : {"setup", "user"}, is : Config]
Row == [url : Url, workspace : Workspace \cup {""}]
\* secret: the variables that hold a token.
Env == [default : Provider \cup {""}, enabled : {"", "on", "off"}, url : Url \cup {""},
        workspace : Workspace \cup {""}, secret : SUBSET Variable]

ASSUME SetupAssumption ==
  /\ DefaultUrl \in Url /\ "" \notin Workspace /\ MaxStarts \in Nat
  /\ NoFile \notin File /\ NoRow \notin Row
  /\ Written \subseteq Config /\ Exported \subseteq Env

DefaultConfig == [default |-> "local", enabled |-> FALSE, url |-> DefaultUrl,
                  workspace |-> "", tokenEnv |-> "standard"]

Phases == {"off", "choose", "token", "save_config", "build", "open", "failed"}

------------------------------------------------------------------------------
(* Reading the configuration and the credentials.                             *)

ApplyEnvironment(c, e) ==
  [c EXCEPT !.default = IF e.default = "" THEN @ ELSE e.default,
            !.enabled = IF e.enabled = "" THEN @ ELSE e.enabled = "on",
            !.url = IF e.url = "" THEN @ ELSE e.url,
            !.workspace = IF e.workspace = "" THEN @ ELSE e.workspace]

LoadConfig == ApplyEnvironment(IF file = NoFile THEN DefaultConfig ELSE file.is, env)

\* foundationTokenSource: the file first; a broken file hides the environment.
TokenResolves(c) ==
  token = "saved" \/ (token = "none" /\ c.tokenEnv \in env.secret)

\* Mutant: the prompt looks at the standard variable.
HasTokenStandard(c) == token = "saved" \/ "standard" \in env.secret
HasToken(c) == token = "saved" \/ c.tokenEnv \in env.secret

\* What was stored stands in for what is not given; the default URL counts as
\* not given, and a workspace is taken over only for the same server.
\* Mutant: nothing is taken over.
WithPersistedDefaultsNot(c) == c
WithPersistedDefaults(c) ==
  IF row = NoRow THEN c
  ELSE LET url == IF c.url = DefaultUrl THEN row.url ELSE c.url
       IN [c EXCEPT !.url = url,
                    !.workspace = IF @ = "" /\ url = row.url THEN row.workspace ELSE @]

RowOf(c) == [url |-> c.url, workspace |-> c.workspace]
Registers(c) == row = NoRow \/ row = RowOf(c)

------------------------------------------------------------------------------
(* A start.                                                                   *)

\* Main reads the configuration and chooses between setup, prompt and build.
Main ==
  /\ stage = "off" /\ starts < MaxStarts
  /\ starts' = starts + 1
  /\ LET c == LoadConfig IN
     /\ cfg' = c
     /\ \/ way' = "headless" /\ stage' = "build"
        \/ /\ way' = IF file = NoFile /\ ~c.enabled THEN "setup"
                     ELSE IF c.enabled /\ ~HasToken(c) THEN "prompt" ELSE "nothing"
           /\ stage' = [setup |-> "choose", prompt |-> "token", nothing |-> "build"][way']
  /\ UNCHANGED <<file, token, env, row>>

\* The onboarding screen: a provider, and for ClickUp a token that is asked
\* for and saved before the configuration is.
ChooseLocal ==
  /\ stage = "choose"
  /\ cfg' = [cfg EXCEPT !.default = "local"]
  /\ stage' = "save_config"
  /\ UNCHANGED <<file, token, env, row, way, starts>>

ChooseClickUp ==
  /\ stage = "choose"
  /\ cfg' = [cfg EXCEPT !.default = "clickup", !.enabled = TRUE]
  /\ stage' = "token"
  /\ UNCHANGED <<file, token, env, row, way, starts>>

\* FileStore.Set installs the whole file by a rename; it does not replace a
\* file it cannot read.
SaveToken ==
  /\ stage = "token"
  /\ IF token = "broken"
       THEN stage' = "failed" /\ UNCHANGED token
       ELSE token' = "saved" /\ stage' = IF way = "setup" THEN "save_config" ELSE "build"
  /\ UNCHANGED <<file, env, row, cfg, way, starts>>

\* saveOnboardingConfig writes the settings of ClickUp only when it is enabled.
SaveConfig ==
  /\ stage = "save_config"
  /\ file' = [by |-> "setup",
              is |-> IF cfg.enabled THEN cfg ELSE [DefaultConfig EXCEPT !.default = cfg.default]]
  /\ stage' = "build"
  /\ UNCHANGED <<token, env, row, cfg, way, starts>>

\* Nothing of the process is left.
Ended == stage' = "off" /\ cfg' = DefaultConfig /\ way' = "nothing"

\* The user leaves the setup or the prompt, the process dies, a write fails.
Abandon ==
  /\ stage \in {"choose", "token", "save_config", "build"}
  /\ Ended
  /\ UNCHANGED <<file, token, env, row, starts>>

\* The environment is read again.
BuildConfig == ApplyEnvironment(cfg, env)

\* The providers are registered in the store before the default one is looked for.
Build ==
  LET again == BuildConfig
      c == IF again.enabled THEN WithPersistedDefaults(again) ELSE again
  IN
  /\ stage = "build"
  /\ cfg' = c
  /\ IF c.enabled /\ Registers(c) THEN row' = RowOf(c) ELSE UNCHANGED row
  /\ stage' = IF (c.enabled => Registers(c)) /\ (c.default = "clickup" => c.enabled)
                THEN "open" ELSE "failed"
  /\ UNCHANGED <<file, token, env, way, starts>>

Quit ==
  /\ stage \in {"open", "failed"}
  /\ Ended
  /\ UNCHANGED <<file, token, env, row, starts>>

\* Between two starts.
ChangeEnvironment ==
  /\ stage = "off"
  /\ env' \in Exported
  /\ UNCHANGED <<file, token, row, stage, cfg, way, starts>>
EditFile ==
  /\ stage = "off"
  /\ file' \in {NoFile} \cup [by : {"user"}, is : Written]
  /\ UNCHANGED <<token, env, row, stage, cfg, way, starts>>
DamageToken ==
  /\ stage = "off" /\ token = "saved"
  /\ token' = "broken"
  /\ UNCHANGED <<file, env, row, stage, cfg, way, starts>>

SetupInit ==
  /\ file = NoFile /\ token = "none" /\ row = NoRow
  /\ env = [default |-> "", enabled |-> "", url |-> "", workspace |-> "", secret |-> {}]
  /\ stage = "off" /\ cfg = DefaultConfig /\ way = "nothing" /\ starts = 0

SetupNext ==
  \/ Main \/ ChooseLocal \/ ChooseClickUp \/ SaveToken \/ SaveConfig \/ Abandon
  \/ Build \/ Quit \/ ChangeEnvironment \/ EditFile \/ DamageToken

SetupSpec == SetupInit /\ [][SetupNext]_setupVars

------------------------------------------------------------------------------
SetupTypeOK ==
  /\ file \in File \cup {NoFile}
  /\ token \in {"none", "saved", "broken"}
  /\ env \in Env /\ row \in Row \cup {NoRow}
  /\ stage \in Phases /\ cfg \in Config /\ way \in {"nothing", "setup", "prompt", "headless"} /\ starts \in 0..MaxStarts

\* However the first-run setup is cut off, a file it wrote that enables ClickUp
\* is never without a token.
SavedSetupHasToken ==
  file # NoFile /\ file.by = "setup" /\ file.is.default = "clickup" => token # "none"

\* A start of ClickUp that could ask for a token opens a session that has one,
\* unless the credential file cannot be read.
PromptIsEnough ==
  stage = "build" /\ way # "headless" /\ cfg.enabled => TokenResolves(cfg) \/ token = "broken"

\* A provider row stays with the server and the workspace it was created with.
ServerIsForEver == [][row # NoRow => row' = row]_setupVars

\* A first-run setup that is answered opens a session in the same start, unless
\* the environment contradicts the answer or the stored row.
SetupOpens ==
  way = "setup" /\ stage = "failed" =>
    \/ env.enabled = "off" \/ env.default = "clickup"
    \/ token = "broken"
    \/ row # NoRow /\ (env.url # "" \/ env.workspace # "")
=============================================================================
