----------------------------- MODULE MCLifecycle -----------------------------
(***************************************************************************)
(* Two parts that share no state: a behaviour follows one of them.         *)
(*                                                                         *)
(*   "program"  one run of the program, and next to it an engine somebody  *)
(*              drives;                                                    *)
(*   "setup"    starts and onboarding, with files in which a disabled      *)
(*              provider has no other settings, and environments that set  *)
(*              at most two variables.                                     *)
(***************************************************************************)
EXTENDS Lifecycle, Engine, Setup

CONSTANTS j1, j2, c1, c2, w1, w2, s1

VARIABLE part

MCWritten == {c \in Config : c.enabled \/ c = [DefaultConfig EXCEPT !.default = c.default]}

Given(e) == {f \in DOMAIN e \ {"secret"} : e[f] # ""} \cup {<<"secret", v>> : v \in e.secret}
MCExported == {e \in Env : e.url # DefaultUrl /\ Cardinality(Given(e)) <= 2}

MCInit == part \in {"program", "setup"} /\ LifecycleInit /\ EngineInit /\ SetupInit

ProgramNext ==
    \/ LifecycleNext /\ UNCHANGED evars
    \/ EngineNext /\ UNCHANGED lifecycleVars

MCNext ==
    /\ UNCHANGED part
    /\ \/ part = "program" /\ ProgramNext /\ UNCHANGED setupVars
       \/ part = "setup" /\ SetupNext /\ UNCHANGED <<lifecycleVars, evars>>

\* The part "setup" is there for its safety properties only: no behaviour of it
\* is fair to the program, which does not run.
MCSpec == MCInit /\ [][MCNext]_<<part, lifecycleVars, evars, setupVars>> /\ Fairness
==============================================================================
