----------------------------- MODULE RunChoice -----------------------------
(***************************************************************************)
(* What choosing runs in a list promises, on every page that offers it: the *)
(* list of runs, the page of a suite and the strip of a run's peers. Polls, *)
(* answers to deletions, filters and page turns are stuttering steps here.  *)
(***************************************************************************)
EXTENDS Naturals, FiniteSets

CONSTANTS Runs, Most    \* the runs a comparison has room for

VARIABLES mode, chosen

choiceVars == <<mode, chosen>>

ChoiceInit == mode = "off" /\ chosen = {}

\* A mode is entered, swapped for the other or left, with nothing chosen.
Switch == mode' \in {"off", "compare", "delete"} /\ chosen' = {}

Choose ==
    /\ mode # "off" /\ mode' = mode
    /\ chosen' \in SUBSET Runs /\ chosen \subseteq chosen'
    /\ mode = "compare" => Cardinality(chosen') <= Most

Unchoose == mode # "off" /\ mode' = mode /\ chosen' \subseteq chosen

ChoiceNext == Switch \/ Choose \/ Unchoose
ChoiceSpec == ChoiceInit /\ [][ChoiceNext]_choiceVars
=============================================================================
