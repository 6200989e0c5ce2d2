---------------------------- MODULE PackagingProofs ----------------------------
(***************************************************************************)
(* Proofs about Packaging: the dashboard patch is idempotent, so that a    *)
(* complete run leaves nothing for a later one to rewrite, and it leaves   *)
(* one time picker and no dangling reference.                              *)
(***************************************************************************)
EXTENDS Packaging, TLAPS

\* A file that the hook has nothing to do on.
Done(f) == content[f] # Torn /\ (content[f] # Missing => ~Changed(f, content[f]))

\* A run has done the files behind it; what it holds open it will not touch again; a
\* complete run has done them all.
Progress ==
    /\ \A i \in 1 .. at - 1 : Done(Files[i])
    /\ opened # Missing => at \in DOMAIN Files /\ ~Changed(Files[at], opened)
    /\ finished => opened = Missing /\ \A f \in Range : Done(f)

\* The definitions refer to nothing that is gone, at any moment.
AllClosed ==
    /\ \A f \in Range : content[f] \in Definitions => Closed(content[f])
    /\ opened \in Definitions => Closed(opened)

\* The types, but for those that are Boolean.
Shape ==
    /\ content \in [Range -> Definitions \cup {Missing, Torn}]
    /\ at \in 0 .. Len(Files) + 1
    /\ opened \in Definitions \cup {Missing}

PatchInvariant == Shape /\ Progress /\ AllClosed

-------------------------------------------------------------------------------
(* What the patch makes of one definition *)

\* What is patched is a definition.
LEMMA PatchedType ==
    ASSUME NEW f, NEW d \in Definitions
    PROVE  Patched(f, d) \in Definitions
<1>1. \A p \in d.picker : [p EXCEPT !.token = Renamed(@)]
                             \in [token: {"legacy", "global_time", "own"}, preset: {"-24h,now", "own"}]
    BY DEF Definitions, Renamed
<1>2. {Renamed(t) : t \in d.tokens} \subseteq {"legacy", "global_time"}
    BY DEF Definitions, Renamed
<1>3. GlobalPicker \in [token: {"legacy", "global_time", "own"}, preset: {"-24h,now", "own"}]
    BY DEF GlobalPicker
<1>4. (IF f = Overview THEN {GlobalPicker : p \in d.picker}
       ELSE {[p EXCEPT !.token = Renamed(@)] : p \in d.picker})
         \in SUBSET [token: {"legacy", "global_time", "own"}, preset: {"-24h,now", "own"}]
    BY <1>1, <1>3, ZenonT(60)
<1> QED
    BY <1>2, <1>4 DEF Definitions, Patched

\* What is patched is left alone: the patch is idempotent.
LEMMA PatchedStays ==
    ASSUME NEW f, NEW d \in Definitions
    PROVE  ~Changed(f, Patched(f, d))
<1> SUFFICES ASSUME NEW p, p = Patched(f, d) PROVE ~Changed(f, p)
    OBVIOUS
<1>1. /\ p.tokens = {Renamed(t) : t \in d.tokens}
      /\ p.picker = IF f = Overview THEN {GlobalPicker : q \in d.picker}
                    ELSE {[q EXCEPT !.token = Renamed(@)] : q \in d.picker}
      /\ p.inputs = d.inputs \ {"tab_input"} /\ p.globalInputs = d.globalInputs \ Dropped(f)
      /\ p.visualizations = d.visualizations \ {"label"} /\ p.structure = d.structure \ {"label"}
      /\ p.dataSources = d.dataSources \ {"label"} /\ p.refresh = "60s"
    BY DEF Patched
<1>2. "legacy" \notin p.tokens
    BY <1>1 DEF Renamed
<1>3. \A q \in p.picker : q.token # "legacy"
  <2>1. \A q \in d.picker : [q EXCEPT !.token = Renamed(@)].token = Renamed(q.token)
    BY DEF Definitions
  <2>2. \A t : Renamed(t) # "legacy"
    BY DEF Renamed
  <2>3. GlobalPicker.token # "legacy"
    BY DEF GlobalPicker
  <2>4. CASE f = Overview
    <3>1. p.picker = {GlobalPicker : q \in d.picker}
      BY <1>1, <2>4, Zenon
    <3>2. \A q \in p.picker : q = GlobalPicker
      BY <3>1
    <3> QED
      BY <3>2, <2>3, Zenon
  <2>5. CASE f # Overview
    <3>1. p.picker = {[q EXCEPT !.token = Renamed(@)] : q \in d.picker}
      BY <1>1, <2>5, Zenon
    <3>2. TAKE q \in p.picker
    <3>3. PICK r \in d.picker : q = [r EXCEPT !.token = Renamed(@)]
      BY <3>1
    <3>4. q.token = Renamed(r.token)
      BY <2>1, <3>3, Zenon
    <3> QED
      BY <2>2, <3>4, Zenon
  <2> QED
    BY <2>4, <2>5
<1>4. f = Overview => \A q \in p.picker : q = GlobalPicker
    BY <1>1
<1>5. /\ "label" \notin p.visualizations \cup p.dataSources \cup p.structure
      /\ "tab_input" \notin p.inputs /\ p.globalInputs \cap Dropped(f) = {}
    BY <1>1
<1>6. p.refresh = "60s"
    BY <1>1
<1>7. "legacy" \notin p.tokens \cup {q.token : q \in p.picker}
    BY <1>2, <1>3
<1> QED
    BY <1>4, <1>5, <1>6, <1>7, Zenon DEF Changed

LEMMA PatchedCloses ==
    ASSUME NEW f, NEW d \in Definitions, Closed(d)
    PROVE  Closed(Patched(f, d))
    BY DEF Closed, Patched, Dropped

-------------------------------------------------------------------------------
(* The invariant *)

LEMMA FilesKnown ==
    /\ Len(Files) \in Nat /\ DOMAIN Files = 1 .. Len(Files)
    /\ \A i \in DOMAIN Files : Files[i] \in Range
    /\ \A f \in Range : \E i \in 1 .. Len(Files) : Files[i] = f
    /\ Missing # Torn /\ Missing \notin Definitions /\ Torn \notin Definitions
    BY PackagingAssumption DEF Range

LEMMA PatchInit == Init => PatchInvariant
<1> SUFFICES ASSUME Init PROVE PatchInvariant
    OBVIOUS
<1>1. /\ content \in [Range -> UNION {Generated(f) : f \in Range} \cup {Missing}]
      /\ \A f \in Range : content[f] \in Generated(f) \cup {Missing}
      /\ at = 0 /\ opened = Missing /\ ~finished
    BY Zenon DEF Init
<1>2. \A f \in Range : content[f] \in {d \in Definitions : Closed(d)} \cup {Missing}
    BY <1>1, PackagingAssumption, Zenon
<1>3. Shape
    BY <1>1, <1>2, FilesKnown DEF Shape
<1>4. Progress
  <2>1. \A i \in 1 .. at - 1 : Done(Files[i])
    BY <1>1
  <2> QED
    BY <1>1, <2>1, Zenon DEF Progress
<1>5. AllClosed
    BY <1>1, <1>2, FilesKnown, Zenon DEF AllClosed
<1> QED
    BY <1>3, <1>4, <1>5 DEF PatchInvariant

\* A step that leaves the files alone keeps what is done.
LEMMA DoneStays ==
    ASSUME UNCHANGED content, NEW f, Done(f) PROVE Done(f)'
    BY Zenon DEF Done

\* The files that are open or torn are not done: opening one disturbs no other.
LEMMA OpenStep ==
    ASSUME PatchInvariant, OpenFile PROVE PatchInvariant'
<1> DEFINE here == Files[at]
<1>1. /\ at \in 1 .. Len(Files) /\ here \in Range /\ opened = Missing
      /\ content[here] \in Definitions /\ Changed(here, content[here])
      /\ opened' = Patched(here, content[here])
      /\ content' = [content EXCEPT ![here] = Torn]
      /\ at' = at /\ finished' = finished
    BY FilesKnown DEF OpenFile, Running, PatchInvariant, Shape
<1>2. ~Done(here)
    BY <1>1, FilesKnown, Zenon DEF Done
<1>3. content \in [Range -> Definitions \cup {Missing, Torn}]
    BY DEF PatchInvariant, Shape
<1>4. \A f \in Range : f # here => content'[f] = content[f]
    BY <1>1, <1>3, Zenon
<1>5. content'[here] = Torn
    BY <1>1, <1>3, Zenon
<1>6. opened' \in Definitions /\ ~Changed(here, opened')
    BY <1>1, PatchedType, PatchedStays, Zenon
<1>7. Shape'
  <2>1. content' \in [Range -> Definitions \cup {Missing, Torn}]
    BY <1>1, <1>3
  <2> QED
    BY <1>1, <1>6, <2>1 DEF PatchInvariant, Shape
<1>8. Progress'
  <2>1. \A i \in 1 .. at - 1 : Done(Files[i]) /\ Files[i] \in Range
    BY <1>1, FilesKnown DEF PatchInvariant, Progress
  <2>2. \A i \in 1 .. at - 1 : Done(Files[i])'
    BY <1>2, <1>4, <2>1, Zenon DEF Done
  <2>3. ~finished
    BY <1>1, <1>2, Zenon DEF PatchInvariant, Progress
  <2>4. at \in DOMAIN Files
    BY <1>1, FilesKnown, Zenon
  <2> QED
    BY <1>1, <1>6, <2>2, <2>3, <2>4, Zenon DEF Progress
<1>9. AllClosed'
  <2>1. Closed(opened')
    BY <1>1, PatchedCloses, Zenon DEF PatchInvariant, AllClosed
  <2> QED
    BY <1>4, <1>5, <2>1, FilesKnown, Zenon DEF PatchInvariant, AllClosed
<1> QED
    BY <1>7, <1>8, <1>9 DEF PatchInvariant

LEMMA WriteStep ==
    ASSUME PatchInvariant, WriteFile PROVE PatchInvariant'
<1>0. PICK here : here = Files[at]
    OBVIOUS
<1>1. /\ at \in 1 .. Len(Files) /\ here \in Range
      /\ opened \in Definitions /\ ~Changed(here, opened)
      /\ content' = [content EXCEPT ![here] = opened]
      /\ opened' = Missing /\ at' = at + 1
    BY <1>0, FilesKnown DEF WriteFile, PatchInvariant, Progress, Shape
<1>2. content \in [Range -> Definitions \cup {Missing, Torn}]
    BY DEF PatchInvariant, Shape
<1>3. /\ \A f \in Range : f # here => content'[f] = content[f]
      /\ content'[here] = opened
    BY <1>1, <1>2, Zenon
<1>4. Shape'
  <2>1. content' \in [Range -> Definitions \cup {Missing, Torn}]
    BY <1>1, <1>2
  <2> QED
    BY <1>1, <2>1, FilesKnown DEF Shape
<1>5. Done(here)'
    BY <1>1, <1>3, FilesKnown, Zenon DEF Done
<1>6. Progress'
  <2>1. \A i \in 1 .. at - 1 : Done(Files[i]) /\ Files[i] \in Range
    BY <1>1, FilesKnown DEF PatchInvariant, Progress
  <2>2. \A i \in 1 .. at - 1 : Done(Files[i])'
    BY <1>3, <1>5, <2>1, Zenon DEF Done
  <2>3. \A i \in 1 .. at' - 1 : i = at \/ i \in 1 .. at - 1
    BY <1>1
  <2>4. \A i \in 1 .. at' - 1 : Done(Files[i])'
    BY <1>0, <1>5, <2>2, <2>3, Zenon
  <2>5. finished => opened = Missing
    BY Zenon DEF PatchInvariant, Progress
  <2>6. ~finished /\ finished' = finished
    BY <1>1, <2>5, FilesKnown, Zenon DEF WriteFile
  <2> QED
    BY <1>1, <2>4, <2>6, Zenon DEF Progress
<1>7. AllClosed'
    BY <1>1, <1>3, FilesKnown, Zenon DEF PatchInvariant, AllClosed
<1> QED
    BY <1>4, <1>6, <1>7 DEF PatchInvariant

\* All other steps move the hook on and leave the files alone.
LEMMA MoveStep ==
    ASSUME PatchInvariant, Start \/ SkipFile \/ TornFile \/ Interrupted \/ Finish \/ UNCHANGED vars
    PROVE  PatchInvariant'
<1>1. content' = content
    BY Zenon DEF Start, SkipFile, TornFile, Interrupted, Finish, vars
<1>2. /\ at \in 0 .. Len(Files) + 1 /\ Len(Files) \in Nat
      /\ opened' \in {opened, Missing}
      /\ opened # Missing => at \in 1 .. Len(Files) /\ ~Changed(Files[at], opened)
    BY FilesKnown, Zenon
       DEF PatchInvariant, Shape, Progress, Start, SkipFile, TornFile, Interrupted, Finish, vars
<1>3. \/ at' = at /\ opened' = opened
      \/ at' \in {0, 1} /\ (opened' = Missing)
      \/ at' = at + 1 /\ at \in 1 .. Len(Files) /\ opened' = Missing /\ Done(Files[at])
  <2>1. CASE Start
    BY <1>2, <2>1 DEF Start
  <2>2. CASE SkipFile
    BY <1>2, <2>2, FilesKnown DEF SkipFile, Running, Done
  <2>3. CASE TornFile
    BY <2>3 DEF TornFile, Running
  <2>4. CASE Interrupted
    BY <2>4 DEF Interrupted
  <2>5. CASE Finish
    BY <1>2, <2>5 DEF Finish
  <2>6. CASE UNCHANGED vars
    BY <2>6 DEF vars
  <2> QED
    BY <2>1, <2>2, <2>3, <2>4, <2>5, <2>6
<1>4. Shape'
    BY <1>1, <1>2, <1>3 DEF PatchInvariant, Shape
<1>5. \A i \in 1 .. at' - 1 : Done(Files[i])'
  <2>1. \A i \in 1 .. at' - 1 : Done(Files[i])
    BY <1>2, <1>3 DEF PatchInvariant, Progress
  <2> QED
    BY <1>1, <2>1, Zenon DEF Done
<1>6. opened' # Missing => at' \in DOMAIN Files /\ ~Changed(Files[at'], opened')
    BY <1>2, <1>3, FilesKnown, Zenon
<1>7. (finished => opened = Missing /\ \A f \in Range : Done(f))
    BY Zenon DEF PatchInvariant, Progress
<1>8. finished' => opened' = Missing /\ \A f \in Range : Done(f)'
  <2>1. CASE Finish
    <3>1. at - 1 = Len(Files) /\ at \notin 1 .. Len(Files)
      BY <1>2, <2>1 DEF Finish
    <3>2. \A i \in 1 .. Len(Files) : Done(Files[i])
      BY <3>1, Zenon DEF PatchInvariant, Progress
    <3>3. \A f \in Range : Done(f)
      BY <3>2, FilesKnown, Zenon
    <3> QED
      BY <1>1, <1>2, <3>1, <3>3, Zenon DEF Done
  <2>2. CASE finished' = finished
    BY <1>1, <1>2, <1>7, <2>2, Zenon DEF Done
  <2> QED
    BY <2>1, <2>2, Zenon DEF Start, SkipFile, TornFile, Interrupted, vars
<1>9. Progress'
    BY <1>5, <1>6, <1>8, Zenon DEF Progress
<1>10. AllClosed'
    BY <1>1, <1>2, FilesKnown, Zenon DEF PatchInvariant, AllClosed
<1> QED
    BY <1>4, <1>9, <1>10 DEF PatchInvariant

LEMMA PatchStep == PatchInvariant /\ [Next]_vars => PatchInvariant'
    BY OpenStep, WriteStep, MoveStep, Zenon DEF Next

LEMMA SpecPatches == Spec => []PatchInvariant
    BY PatchInit, PatchStep, PTL DEF Spec

-------------------------------------------------------------------------------
(* Main results *)

\* The variables keep their types.
THEOREM PatchTypeCorrect == Spec => []TypeOK
<1> DEFINE Rest == runs \in 0 .. MaxRuns /\ finished \in BOOLEAN
<1>1. Init => Rest
  <2>1. 0 \in 0 .. MaxRuns /\ FALSE \in BOOLEAN
    BY PackagingAssumption
  <2> QED
    BY <2>1, Zenon DEF Init
<1>2. ASSUME Rest, [Next]_vars PROVE Rest'
  <2>1. runs' = runs \/ (runs < MaxRuns /\ runs' = runs + 1)
    BY <1>2, Zenon
       DEF Next, Start, SkipFile, OpenFile, WriteFile, TornFile, Interrupted, Finish, vars
  <2>2. runs' \in 0 .. MaxRuns
    BY <1>2, <2>1, PackagingAssumption
  <2>3. finished' \in BOOLEAN
    BY <1>2, Zenon
       DEF Next, Start, SkipFile, OpenFile, WriteFile, TornFile, Interrupted, Finish, vars
  <2> QED
    BY <2>2, <2>3
<1>3. PatchInvariant /\ Rest => TypeOK
    BY Zenon DEF PatchInvariant, Shape, TypeOK
<1> QED
    BY <1>1, <1>2, <1>3, SpecPatches, PTL DEF Spec

\* Once a run is complete, no later one writes: whatever definitions ucc-gen generates,
\* the patch is a fixed point.
THEOREM RerunsAreHarmless == Spec => HarmlessRerun
<1>1. PatchInvariant /\ [Next]_vars => [finished => UNCHANGED content]_vars
  <2> SUFFICES ASSUME PatchInvariant, Next, finished PROVE UNCHANGED content
    BY Zenon DEF vars
  <2>1. ~WriteFile
    BY Zenon DEF WriteFile, PatchInvariant, Progress
  <2>2. ~OpenFile
    BY FilesKnown, Zenon DEF OpenFile, Running, PatchInvariant, Progress, Done
  <2> QED
    BY <2>1, <2>2, Zenon DEF Next, Start, SkipFile, TornFile, Interrupted, Finish
<1> QED
    BY SpecPatches, <1>1, PTL DEF Spec, HarmlessRerun

\* Once a run is complete, one picker drives all dashboards and nothing refers to what
\* was removed, for every set of files and definitions ucc-gen may generate.
THEOREM OnePickerDrivesAll == Spec => []OneClock
<1>1. PatchInvariant => OneClock
  <2> SUFFICES ASSUME PatchInvariant, finished, NEW f \in Range, content[f] # Missing
      PROVE  /\ content[f] # Torn
             /\ Closed(content[f])
             /\ content[f].tokens \subseteq {"global_time"}
             /\ content[f].globalInputs # {} =>
                    f = Overview /\ content[f].picker \subseteq {GlobalPicker}
             /\ content[f].refresh = "60s"
    BY Zenon DEF OneClock
  <2>1. content[f] # Torn /\ ~Changed(f, content[f])
    BY Zenon DEF PatchInvariant, Progress, Done
  <2>2. content[f] \in Definitions
    BY <2>1, Zenon DEF PatchInvariant, Shape
  <2>3. Closed(content[f])
    BY <2>2, Zenon DEF PatchInvariant, AllClosed
  <2> DEFINE d == content[f]
  <2>4. d.tokens \subseteq {"legacy", "global_time"} /\ d.globalInputs \subseteq {"tab_input", "overview_input"}
    BY <2>2 DEF Definitions
  <2>5. /\ "legacy" \notin d.tokens /\ d.refresh = "60s" /\ d.globalInputs \cap Dropped(f) = {}
        /\ f = Overview => \A p \in d.picker : p = GlobalPicker
    BY <2>1, Zenon DEF Changed
  <2>6. f # Overview => d.globalInputs = {}
    BY <2>4, <2>5 DEF Dropped
  <2> QED
    BY <2>1, <2>3, <2>4, <2>5, <2>6
<1> QED
    BY SpecPatches, <1>1, PTL
===============================================================================
