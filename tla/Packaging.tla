------------------------------ MODULE Packaging ------------------------------
(***************************************************************************)
(* additional_packaging.py: the hook ucc-gen runs on its output.  It       *)
(* patches the generated monitoring dashboards in place, one definition    *)
(* file after the other, so that one time picker, the overview's, drives   *)
(* all of them.  A build may be interrupted anywhere, also after a file    *)
(* was truncated and before it is rewritten, and the hook may run again    *)
(* over the output of an earlier run.                                      *)
(*                                                                         *)
(* Names are told apart as far as the hook does: "label" stands for every  *)
(* visualization named after a timerange_label, "legacy" for every one of  *)
(* LEGACY_TIME_TOKENS, "tab_input" for every one of TAB_TIMERANGE_INPUTS.  *)
(***************************************************************************)
EXTENDS Naturals, Sequences

CONSTANTS
    Files,            \* DASHBOARD_DEFINITION_FILES, in this order
    Overview,         \* "overview_definition.json"
    Generated(_),     \* the definitions ucc-gen may write to a file
    Missing, Torn,    \* no such file; a file that is no JSON
    MaxRuns           \* bound: how often the hook is run

Range == {Files[i] : i \in DOMAIN Files}

Definitions ==
    [tokens: SUBSET {"legacy", "global_time"},       \* time tokens in searches
     picker: SUBSET [token: {"legacy", "global_time", "own"}, preset: {"-24h,now", "own"}],
                                                     \* overview_input, if it is a time picker
     inputs: SUBSET {"tab_input", "overview_input"},
     globalInputs: SUBSET {"tab_input", "overview_input"},
     visualizations: SUBSET {"label", "panel"},
     structure: SUBSET {"label", "panel"},
     dataSources: SUBSET {"label", "panel"},         \* by the visualization they feed
     refresh: {"60s", "own"}]

\* Nothing on the page refers to something that is not there.
Closed(d) ==
    /\ d.structure \subseteq d.visualizations
    /\ d.visualizations \subseteq d.dataSources
    /\ d.globalInputs \subseteq d.inputs

ASSUME PackagingAssumption ==
    /\ Files \in Seq(Range) /\ Len(Files) >= 1 /\ Overview \in Range
    /\ \A f \in Range : Generated(f) \subseteq {d \in Definitions : Closed(d)}
    /\ Missing # Torn /\ {Missing, Torn} \cap Definitions = {}
    /\ MaxRuns \in Nat

VARIABLES
    content,     \* what each file holds
    at,          \* the place in Files the hook is at, 0 when it does not run
    opened,      \* the definition it has open(path, "w") for, or Missing
    runs,
    finished     \* history: a run has gone through all files

vars == <<content, at, opened, runs, finished>>

-------------------------------------------------------------------------------
(* _patch_definition_object *)

Renamed(token) == IF token = "legacy" THEN "global_time" ELSE token

\* Seeded fault: tab and modal dashboards keep a picker of their own.
DroppedTabOnly(f) == {"tab_input"}

\* The inputs that must not be in globalInputs: the overview keeps its picker there.
Dropped(f) == {"tab_input"} \cup IF f = Overview THEN {} ELSE {"overview_input"}

GlobalPicker == [token |-> "global_time", preset |-> "-24h,now"]

Patched(f, d) ==
    [tokens         |-> {Renamed(t) : t \in d.tokens},
     picker         |-> IF f = Overview THEN {GlobalPicker : p \in d.picker}
                        ELSE {[p EXCEPT !.token = Renamed(@)] : p \in d.picker},
     inputs         |-> d.inputs \ {"tab_input"},
     globalInputs   |-> d.globalInputs \ Dropped(f),
     visualizations |-> d.visualizations \ {"label"},
     structure      |-> d.structure \ {"label"},
     dataSources    |-> d.dataSources \ {"label"},
     refresh        |-> "60s"]

\* Seeded fault: the overview counts as changed whenever it has a picker.
ChangedAnyPicker(f, d) ==
    \/ "legacy" \in d.tokens \cup {p.token : p \in d.picker}
    \/ "label" \in d.visualizations \cup d.dataSources \cup d.structure
    \/ "tab_input" \in d.inputs
    \/ d.globalInputs \cap Dropped(f) # {}
    \/ f = Overview /\ d.picker # {}
    \/ d.refresh # "60s"

\* The flag _patch_definition_object returns.
Changed(f, d) ==
    \/ "legacy" \in d.tokens \cup {p.token : p \in d.picker}
    \/ "label" \in d.visualizations \cup d.dataSources \cup d.structure
    \/ "tab_input" \in d.inputs
    \/ d.globalInputs \cap Dropped(f) # {}
    \/ f = Overview /\ \E p \in d.picker : p # GlobalPicker
    \/ d.refresh # "60s"

-------------------------------------------------------------------------------
(* patch_dashboard_definitions *)

Init ==
    /\ content \in [Range -> UNION {Generated(f) : f \in Range} \cup {Missing}]
    /\ \A f \in Range : content[f] \in Generated(f) \cup {Missing}
    /\ at = 0 /\ opened = Missing /\ runs = 0 /\ finished = FALSE

Start ==
    /\ at = 0 /\ runs < MaxRuns
    /\ at' = 1 /\ runs' = runs + 1
    /\ UNCHANGED <<content, opened, finished>>

Running == at \in DOMAIN Files /\ opened = Missing

\* The file is missing, or holds what the patch would make of it.
SkipFile ==
    /\ Running
    /\ content[Files[at]] # Torn
    /\ content[Files[at]] # Missing => ~Changed(Files[at], content[Files[at]])
    /\ at' = at + 1
    /\ UNCHANGED <<content, opened, runs, finished>>

\* open(path, "w") truncates the file ...
OpenFile ==
    /\ Running
    /\ content[Files[at]] \notin {Missing, Torn}
    /\ Changed(Files[at], content[Files[at]])
    /\ opened' = Patched(Files[at], content[Files[at]])
    /\ content' = [content EXCEPT ![Files[at]] = Torn]
    /\ UNCHANGED <<at, runs, finished>>

\* ... and json.dump fills it.
WriteFile ==
    /\ opened # Missing
    /\ content' = [content EXCEPT ![Files[at]] = opened]
    /\ opened' = Missing /\ at' = at + 1
    /\ UNCHANGED <<runs, finished>>

\* json.load raises on a torn file: the files after it are not looked at.
TornFile ==
    /\ Running
    /\ content[Files[at]] = Torn
    /\ at' = 0
    /\ UNCHANGED <<content, opened, runs, finished>>

Interrupted ==
    /\ at # 0
    /\ at' = 0 /\ opened' = Missing
    /\ UNCHANGED <<content, runs, finished>>

Finish ==
    /\ at = Len(Files) + 1
    /\ at' = 0 /\ finished' = TRUE
    /\ UNCHANGED <<content, opened, runs>>

Next == Start \/ SkipFile \/ OpenFile \/ WriteFile \/ TornFile \/ Interrupted \/ Finish

Spec == Init /\ [][Next]_vars

-------------------------------------------------------------------------------
(* Correctness *)

TypeOK ==
    /\ content \in [Range -> Definitions \cup {Missing, Torn}]
    /\ at \in 0 .. Len(Files) + 1
    /\ opened \in Definitions \cup {Missing}
    /\ runs \in 0 .. MaxRuns /\ finished \in BOOLEAN

\* Once a run has gone through all files, whatever runs were interrupted before it: no
\* file is torn; no dashboard refers to an input, a visualization or a data source that
\* is gone; all of them listen to global_time, and the only picker on any page is the
\* overview's, which sets it.
OneClock ==
    finished => \A f \in Range : content[f] # Missing =>
        /\ content[f] # Torn
        /\ Closed(content[f])
        /\ content[f].tokens \subseteq {"global_time"}
        /\ content[f].globalInputs # {} => f = Overview /\ content[f].picker \subseteq {GlobalPicker}
        /\ content[f].refresh = "60s"

\* Once a run has gone through all files, no later run opens one for writing, so that its
\* interruption does no harm: what the patch makes of a definition, it leaves alone.
HarmlessRerun ==
    [][finished => UNCHANGED content]_vars
===============================================================================
