---------------------------- MODULE StartupProofs ----------------------------
(***************************************************************************)
(* Proofs about Startup: its types, what may remain of the temporary files *)
(* with the client certificate and its key, and that settings the form and *)
(* validate_input let pass can be read by collect_events.                  *)
(***************************************************************************)
EXTENDS Startup, TLAPS

Building == {"cert", "key", "chain", "in"}
Left == {"raised", "exited"}
InTls == {"tls", "running"}

\* The context manager is in use behind the with statement only.  What it has registered
\* is what it has written, until __enter__ raises or __exit__ has run.
FilesKnown ==
    /\ pc \notin InTls => tls = "out"
    /\ tls = "out" => files = {} /\ registered = {}
    /\ tls \in Building => files = registered

Reason == spoiled \/ (tls = "raised" /\ PairRefused(broker))

\* A process that has left the context manager, by either way, has files only for a reason.
LeftWithReason == tls \in Left /\ files # {} => Reason

LeftoverInvariant == Shape /\ spoiled \in BOOLEAN /\ FilesKnown /\ LeftWithReason

-------------------------------------------------------------------------------
(* The kinds of steps, as far as files, counters and the place of the process go *)

Free == faults' = faults /\ edits' = edits

Counted ==
    \/ faults < MaxFaults /\ faults' = faults + 1 /\ edits' = edits
    \/ edits < MaxEdits /\ edits' = edits + 1 /\ faults' = faults

Elsewhere ==
    /\ UNCHANGED <<broker, tls, files, registered, spoiled>>
    /\ \/ Free \/ Counted
    /\ \/ pc' = pc
       \/ pc \notin InTls /\ pc' \in {"parameters", "token", "broker"}
       \/ pc = "tls" /\ pc' = "running"

ReadsRecord ==
    /\ UNCHANGED <<tls, files, registered, spoiled>> /\ Free
    /\ pc = "broker" /\ pc' = "tls" /\ broker' = record

EndsCleanly == Gone /\ Free /\ (pc \notin InTls \/ tls \in Left)

EndsStopped == Gone /\ Counted

InContext == pc \in InTls /\ UNCHANGED <<pc, broker>>

Enters ==
    /\ InContext /\ Free /\ tls = "out" /\ tls' \in {"in", "cert", "raised"}
    /\ UNCHANGED <<files, registered, spoiled>>

Writes ==
    /\ InContext /\ Free /\ UNCHANGED spoiled
    /\ \/ tls = "cert" /\ tls' = "key" /\ files' = files \cup {"cert"} /\ registered' = registered \cup {"cert"}
       \/ tls = "key" /\ tls' = "chain" /\ files' = files \cup {"key"} /\ registered' = registered \cup {"key"}
       \/ tls = "chain" /\ tls' = "in" /\ UNCHANGED <<files, registered>>

Refuses ==
    /\ InContext /\ Free /\ UNCHANGED <<files, registered, spoiled>>
    /\ tls = "chain" /\ tls' = "raised" /\ PairRefused(broker)

Raises ==
    /\ InContext /\ Counted /\ tls' = "raised" /\ spoiled' = TRUE
    /\ files' \in {files, files \cup {"cert"}, files \cup {"key"}}
    /\ tls \in Building
    /\ UNCHANGED registered

Leaves ==
    /\ InContext /\ tls = "in" /\ tls' = "exited"
    /\ \/ Free /\ files' = files \ registered /\ UNCHANGED spoiled
       \/ Counted /\ files' \subseteq files /\ spoiled' = TRUE
    /\ UNCHANGED registered

LEMMA EnterKinds ==
    ASSUME EnterTls PROVE Enters \/ Writes \/ Refuses
<1>1. pc \in InTls /\ UNCHANGED <<pc, spoiled, faults, edits>>
    BY Zenon DEF EnterTls, configVars, InTls
<1>2. CASE Enter(allowed)
  <2>1. AfterVerify(broker) \in {"in", "cert", "raised"}
      BY DEF AfterVerify
  <2>2. /\ tls = "out" /\ tls' \in {"in", "cert", "raised"}
        /\ UNCHANGED <<broker, files, registered>>
      BY <1>2, <2>1, Zenon DEF Enter
  <2> QED
      BY <1>1, <2>2, Zenon DEF Enters, InContext, Free
<1>3. CASE \E kind \in {"cert", "key"} : WriteTmp(kind)
  <2>1. PICK kind \in {"cert", "key"} : WriteTmp(kind)
      BY <1>3
  <2> QED
      BY <1>1, <2>1 DEF WriteTmp, Writes, InContext, Free
<1>4. CASE LoadChain
  <2>1. CASE PairRefused(broker)
    BY <1>1, <1>4, <2>1, Zenon DEF LoadChain, Refuses, InContext, Free
  <2>2. CASE ~PairRefused(broker)
    BY <1>1, <1>4, <2>2, Zenon DEF LoadChain, Writes, InContext, Free
  <2> QED
    BY <2>1, <2>2
<1> QED
    BY <1>2, <1>3, <1>4, Zenon DEF EnterTls, EnterStep

LEMMA TlsFailsRaises ==
    ASSUME TlsFails PROVE Raises
<1>1. pc \in InTls /\ UNCHANGED pc /\ Counted /\ spoiled' = TRUE
    BY Zenon DEF TlsFails, configVars, InTls, Fault, Counted
<1>2. PICK kind \in {"cert", "key"} : WriteTmpFails(kind)
    BY Zenon DEF TlsFails, EnterFails
<1> QED
    BY <1>1, <1>2 DEF WriteTmpFails, Raises, InContext, Building

LEMMA LoopEndsLeaves ==
    ASSUME LoopEnds PROVE Leaves
<1>1. pc \in InTls /\ tls = "in" /\ UNCHANGED pc /\ edits' = edits
    BY Zenon DEF LoopEnds, configVars, InTls
<1>2. CASE Exit({}) /\ UNCHANGED <<spoiled, faults>>
  <2>1. files \ (registered \ {}) = files \ registered
    OBVIOUS
  <2> QED
    BY <1>1, <1>2, <2>1, Zenon DEF Exit, Leaves, InContext, Free
<1>3. CASE Fault /\ spoiled' = TRUE /\ \E stuck \in SUBSET registered \ {{}} : Exit(stuck)
  <2>1. PICK stuck : Exit(stuck)
    BY <1>3
  <2>2. files \ (registered \ stuck) \subseteq files
    OBVIOUS
  <2> QED
    BY <1>1, <1>3, <2>1, <2>2, Zenon DEF Exit, Leaves, InContext, Counted, Fault
<1> QED
    BY <1>2, <1>3, Zenon DEF LoopEnds

StepKind ==
    \/ Elsewhere \/ ReadsRecord \/ EndsCleanly \/ EndsStopped
    \/ Enters \/ Writes \/ Refuses \/ Raises \/ Leaves

\* Each step of the specification is of one of these kinds.
LEMMA StepKinds ==
    ASSUME [Next]_vars PROVE StepKind
<1>1. CASE UNCHANGED vars
    BY <1>1, Zenon DEF vars, tlsVars, configVars, StepKind, Elsewhere, Free
<1>2. CASE Launch
    BY <1>2, Zenon DEF Launch, tlsVars, configVars, StepKind, Elsewhere, Free, InTls
<1>3. CASE ReadParameters \/ Provision
  <2>1. faults' = faults /\ pc \in {"parameters", "token"}
    BY <1>3, Zenon DEF ReadParameters, Provision
  <2>2. Ends \/ Continues("token") \/ Continues("broker")
    BY <1>3, Zenon DEF ReadParameters, Provision
  <2>3. pc \notin InTls
    BY <2>1 DEF InTls
  <2> QED
    BY <2>1, <2>2, <2>3, Zenon
       DEF Ends, Continues, tlsVars, configVars, StepKind, Elsewhere, EndsCleanly, Free
<1>4. CASE LoadBroker
  <2>1. pc \notin InTls /\ faults' = faults
    BY <1>4 DEF LoadBroker, InTls
  <2>2. CASE Ends
    BY <2>1, <2>2, Zenon DEF Ends, configVars, StepKind, EndsCleanly, Free
  <2>3. CASE ~Ends
    BY <1>4, <2>1, <2>3, Zenon DEF LoadBroker, configVars, StepKind, ReadsRecord, Free
  <2> QED
    BY <2>2, <2>3
<1>5. CASE SplunkdRefuses
    BY <1>5, Zenon DEF SplunkdRefuses, Fault, Ends, configVars, StepKind, EndsStopped, Counted
<1>6. CASE EnterTls
    BY <1>6, EnterKinds, Zenon DEF StepKind
<1>7. CASE TlsFails
    BY <1>7, TlsFailsRaises, Zenon DEF StepKind
<1>8. CASE TlsRaises
    BY <1>8, Zenon DEF TlsRaises, Ends, configVars, StepKind, EndsCleanly, Free, Left
<1>9. CASE EnterMainLoop
    BY <1>9, Zenon DEF EnterMainLoop, Continues, tlsVars, configVars, StepKind, Elsewhere, Free
<1>10. CASE LoopEnds
    BY <1>10, LoopEndsLeaves, Zenon DEF StepKind
<1>11. CASE ProcessExits
    BY <1>11, Zenon DEF ProcessExits, Ends, configVars, StepKind, EndsCleanly, Free, Left
<1>12. CASE Killed
    BY <1>12, Zenon DEF Killed, Fault, Ends, configVars, StepKind, EndsStopped, Counted
<1>13. CASE \E s \in Settings : Save(s)
    BY <1>13, Zenon DEF Save, Edit, StepKind, EndsStopped, Counted
<1>14. CASE ChangeOverride \/ \E b \in Brokers : SaveBroker(b)
    BY <1>14, Zenon DEF ChangeOverride, SaveBroker, Edit, tlsVars, StepKind, Elsewhere, Counted
<1> QED
    BY <1>1, <1>2, <1>3, <1>4, <1>5, <1>6, <1>7, <1>8, <1>9, <1>10, <1>11, <1>12, <1>13, <1>14, Zenon
       DEF Next, ProcessStep

-------------------------------------------------------------------------------
(* The invariant *)

LEMMA LeftoverInit == Init => LeftoverInvariant
<1> SUFFICES ASSUME Init PROVE LeftoverInvariant
    OBVIOUS
<1>1. /\ broker = {} /\ record \in Brokers /\ settings \in Settings
      /\ tls = "out" /\ files = {} /\ registered = {}
      /\ pc = "ended" /\ spoiled = FALSE /\ faults = 0 /\ edits = 0
    BY Zenon DEF Init, TlsInit
<1>2. MaxFaults \in Nat /\ MaxEdits \in Nat
    BY StartupAssumption
<1>3. Shape
    BY <1>1, <1>2 DEF Shape, TlsTypeOK, Places
<1>4. FilesKnown /\ LeftWithReason
    BY <1>1 DEF FilesKnown, LeftWithReason, Left, Building
<1> QED
    BY <1>1, <1>3, <1>4 DEF LeftoverInvariant

LEMMA ConfigurationStays ==
    ASSUME settings \in Settings, record \in Brokers, [Next]_vars
    PROVE  settings' \in Settings /\ record' \in Brokers
    BY Zenon DEF Next, ProcessStep, vars, tlsVars, configVars, Launch, ReadParameters, Provision,
        LoadBroker, SplunkdRefuses, EnterTls, TlsFails, TlsRaises, EnterMainLoop, LoopEnds,
        ProcessExits, Killed, Save, SaveBroker, ChangeOverride, Continues, Ends

LEMMA LeftoverStep ==
    ASSUME LeftoverInvariant, [Next]_vars PROVE LeftoverInvariant'
<1> DEFINE Pc == {"ended", "parameters", "token", "broker", "tls", "running"}
           Both == {"cert", "key"}
<1>1. /\ broker \in SUBSET BrokerFields /\ tls \in Places
      /\ files \in SUBSET Both /\ registered \in SUBSET Both
      /\ registered \subseteq files \/ tls = "exited"
      /\ pc \in Pc /\ spoiled \in BOOLEAN
      /\ faults \in 0 .. MaxFaults /\ edits \in 0 .. MaxEdits
      /\ FilesKnown /\ LeftWithReason
    BY Zenon DEF LeftoverInvariant, Shape, TlsTypeOK
<1>2. MaxFaults \in Nat /\ MaxEdits \in Nat
    BY StartupAssumption
<1>3. settings' \in Settings /\ record' \in Brokers
    BY ConfigurationStays, Zenon DEF LeftoverInvariant, Shape
<1>4. Brokers \subseteq SUBSET BrokerFields /\ record \in Brokers
    BY StartupAssumption, Zenon DEF LeftoverInvariant, Shape
<1> DEFINE Kept ==
        /\ broker' \in SUBSET BrokerFields /\ tls' \in Places
        /\ files' \in SUBSET Both /\ registered' \in SUBSET Both
        /\ registered' \subseteq files' \/ tls' = "exited"
        /\ pc' \in Pc /\ spoiled' \in BOOLEAN
        /\ faults' \in 0 .. MaxFaults /\ edits' \in 0 .. MaxEdits
        /\ FilesKnown' /\ LeftWithReason'
<1>5. ASSUME Elsewhere \/ ReadsRecord PROVE Kept
  <2>1. UNCHANGED <<tls, files, registered, spoiled>>
    BY <1>5 DEF Elsewhere, ReadsRecord
  <2>2. /\ broker' \in SUBSET BrokerFields /\ pc' \in Pc
        /\ pc' \notin InTls => pc \notin InTls
        /\ broker' = broker \/ pc = "broker"
    BY <1>1, <1>4, <1>5 DEF Elsewhere, ReadsRecord, InTls
  <2>3. faults' \in 0 .. MaxFaults /\ edits' \in 0 .. MaxEdits
    BY <1>1, <1>2, <1>5 DEF Elsewhere, ReadsRecord, Free, Counted
  <2>4. FilesKnown'
    BY <1>1, <2>1, <2>2 DEF FilesKnown
  <2>5. LeftWithReason'
    <3>1. CASE broker' = broker
      BY <1>1, <2>1, <3>1, Zenon DEF LeftWithReason, Reason, PairRefused
    <3>2. CASE pc = "broker"
      <4>1. tls = "out"
        BY <1>1, <3>2 DEF FilesKnown, InTls
      <4> QED
        BY <2>1, <4>1 DEF LeftWithReason, Left
    <3> QED
      BY <2>2, <3>1, <3>2
  <2> QED
    BY <1>1, <2>1, <2>2, <2>3, <2>4, <2>5
<1>6. ASSUME EndsCleanly \/ EndsStopped PROVE Kept
  <2>1. faults' \in 0 .. MaxFaults /\ edits' \in 0 .. MaxEdits
    BY <1>1, <1>2, <1>6 DEF EndsCleanly, EndsStopped, Free, Counted
  <2> QED
    BY <1>6, <2>1 DEF EndsCleanly, EndsStopped, Gone, FilesKnown, LeftWithReason, Left, Building,
       InTls, Places
<1>7. ASSUME Enters PROVE Kept
    BY <1>1, <1>7 DEF Enters, InContext, Free, FilesKnown, LeftWithReason, InTls, Building, Left, Places
<1>8. ASSUME Writes PROVE Kept
    BY <1>1, <1>8 DEF Writes, InContext, Free, FilesKnown, LeftWithReason, InTls, Building, Left, Places
<1>9. ASSUME Refuses PROVE Kept
  <2>1. Reason'
    BY <1>9, Zenon DEF Refuses, InContext, Reason
  <2> QED
    BY <1>1, <1>9, <2>1 DEF Refuses, InContext, Free, FilesKnown, LeftWithReason, InTls, Building, Left, Places
<1>10. ASSUME Raises PROVE Kept
  <2>1. faults' \in 0 .. MaxFaults /\ edits' \in 0 .. MaxEdits
    BY <1>1, <1>2, <1>10 DEF Raises, Counted
  <2> QED
    BY <1>1, <1>10, <2>1
       DEF Raises, InContext, FilesKnown, LeftWithReason, Reason, InTls, Building, Left, Places
<1>11. ASSUME Leaves PROVE Kept
  <2>1. faults' \in 0 .. MaxFaults /\ edits' \in 0 .. MaxEdits
    BY <1>1, <1>2, <1>11 DEF Leaves, Free, Counted
  <2>2. files = registered
    BY <1>1, <1>11 DEF Leaves, FilesKnown, Building
  <2>3. files' \subseteq files /\ (files' = {} \/ spoiled' = TRUE) /\ spoiled' \in BOOLEAN
    BY <1>1, <1>11, <2>2 DEF Leaves
  <2> QED
    BY <1>1, <1>11, <2>1, <2>3
       DEF Leaves, InContext, FilesKnown, LeftWithReason, Reason, InTls, Building, Left, Places
<1>12. Kept
    BY <1>5, <1>6, <1>7, <1>8, <1>9, <1>10, <1>11, StepKinds, Zenon DEF StepKind
<1> QED
    BY <1>3, <1>12, Zenon DEF LeftoverInvariant, Shape, TlsTypeOK

LEMMA SpecKeepsLeftovers == Spec => []LeftoverInvariant
<1>1. LeftoverInvariant /\ [Next]_vars => LeftoverInvariant'
    BY LeftoverStep
<1> QED
    BY LeftoverInit, <1>1, PTL DEF Spec

ExplainsLeftovers ==
    Alive /\ pc' = "ended" /\ files # {} =>
        Stopped \/ spoiled \/ (tls = "raised" /\ PairRefused(broker))

\* Whatever kills, faults, edits and starts there are: a process that is not stopped from
\* outside leaves its certificate files behind only if a call on them has failed or OpenSSL
\* has refused the pair.
THEOREM LeftoversAlwaysExplained == Spec => LeftoversExplained
<1>1. ASSUME LeftoverInvariant, [Next]_vars PROVE [ExplainsLeftovers]_vars
  <2> SUFFICES ASSUME Alive, pc' = "ended", files # {}, ~Stopped
               PROVE  spoiled \/ (tls = "raised" /\ PairRefused(broker))
    BY Zenon DEF ExplainsLeftovers
  <2>1. /\ pc \in {"ended", "parameters", "token", "broker", "tls", "running"}
        /\ faults \in 0 .. MaxFaults /\ edits \in 0 .. MaxEdits
        /\ FilesKnown /\ LeftWithReason
    BY <1>1, Zenon DEF LeftoverInvariant, Shape
  <2>2. faults' = faults /\ edits' = edits
    BY DEF Stopped
  <2>3. MaxFaults \in Nat /\ MaxEdits \in Nat
    BY StartupAssumption
  <2>4. ~Counted
    BY <2>1, <2>2, <2>3 DEF Counted
  <2>5. ~(pc' = pc)
    BY DEF Alive
  <2>6. EndsCleanly
    BY <1>1, <2>4, <2>5, StepKinds
       DEF StepKind, Elsewhere, ReadsRecord, EndsStopped, Enters, Writes, Refuses, Raises, Leaves, InContext
  <2>7. tls \in Left
    BY <2>1, <2>6 DEF EndsCleanly, FilesKnown
  <2> QED
    BY <2>1, <2>7, Zenon DEF LeftWithReason, Reason
<1> QED
    BY SpecKeepsLeftovers, <1>1, PTL DEF Spec, LeftoversExplained, ExplainsLeftovers

\* The variables keep their types; the TLS context is in use only behind the with
\* statement, and no file is on its list that does not exist.
THEOREM StartupTypeCorrect == Spec => []TypeOK
<1> DEFINE Booleans == checked \in BOOLEAN /\ allowed \in BOOLEAN /\ due \in BOOLEAN
<1>1. Init => Booleans
    BY Zenon DEF Init
<1>2. ASSUME Booleans, [Next]_vars PROVE Booleans'
  <2>1. Recurs(settings) \in BOOLEAN
    BY DEF Recurs
  <2>2. (~allowed) \in BOOLEAN
    OBVIOUS
  <2> QED
    BY <1>2, <2>1, <2>2, Zenon DEF Next, ProcessStep, vars, tlsVars, configVars, Launch, ReadParameters,
        Provision, LoadBroker, SplunkdRefuses, EnterTls, TlsFails, TlsRaises, EnterMainLoop,
        LoopEnds, ProcessExits, Killed, Save, SaveBroker, ChangeOverride, Continues, Ends
<1>3. LeftoverInvariant /\ Booleans => TypeOK
  <2> SUFFICES ASSUME LeftoverInvariant, Booleans PROVE TypeOK
    OBVIOUS
  <2>1. pc \notin {"tls", "running"} => tls = "out" /\ files = {} /\ registered = {}
    BY DEF LeftoverInvariant, FilesKnown, InTls
  <2> QED
    BY <2>1, Zenon DEF LeftoverInvariant, TypeOK
<1> QED
    BY <1>1, <1>2, <1>3, SpecKeepsLeftovers, PTL DEF Spec

-------------------------------------------------------------------------------
(* The rules of InputConfig *)

\* All that collect_events asks of its parameters but the permission for unverified TLS.
NumbersParse(s) ==
    /\ Given(s.qos, 0) \in Int
    /\ Given(s.interval, 30) \in Int
    /\ \A raw \in {s.hec_retry_max_attempts, s.limit} : Positive(Given(raw, 1))

\* The rules of form and validate_input together are at least as strict.
LEMMA AcceptedParses ==
    ASSUME NEW s, NEW permitted, RestAccepts(s), ValidateAccepts(s, permitted)
    PROVE  NumbersParse(s)
<1>1. /\ s.qos \in 0 .. 2
      /\ \A raw \in {s.interval, s.hec_retry_max_attempts, s.limit} : raw = Absent \/ Positive(raw)
    BY Zenon DEF RestAccepts, ValidateAccepts
<1>2. Given(s.qos, 0) \in Int
    BY <1>1 DEF Given
<1>3. \A raw : raw = Absent \/ Positive(raw) => Given(raw, 30) \in Int /\ Positive(Given(raw, 1))
    BY DEF Given, Positive, AtLeast, Unset
<1> QED
    BY <1>1, <1>2, <1>3, Zenon DEF NumbersParse

\* However settings, override and process change: what was let pass can be read, unless
\* HEC verification is off without permission.
THEOREM SavedSettingsAlwaysParse == Spec => []SavedSettingsParse
<1> DEFINE Numbers == checked => NumbersParse(settings)
<1>1. Init => Numbers
    BY Zenon DEF Init
<1>2. ASSUME Numbers, [Next]_vars PROVE Numbers'
  <2>1. CASE \E s \in Settings : Save(s)
    <3>1. PICK s \in Settings : Save(s)
      BY <2>1
    <3>2. NumbersParse(s) /\ settings' = s
      BY <3>1, AcceptedParses, Zenon DEF Save
    <3> QED
      BY <3>2, Zenon DEF NumbersParse
  <2>2. CASE UNCHANGED <<settings, checked>>
    BY <1>2, <2>2, Zenon DEF NumbersParse
  <2> QED
    BY <1>2, <2>1, <2>2, Zenon DEF Next, ProcessStep, vars, tlsVars, configVars, Launch, ReadParameters,
        Provision, LoadBroker, SplunkdRefuses, EnterTls, TlsFails, TlsRaises, EnterMainLoop,
        LoopEnds, ProcessExits, Killed, SaveBroker, ChangeOverride, Continues, Ends
<1>3. Numbers => SavedSettingsParse
    BY Zenon DEF NumbersParse, SavedSettingsParse, ParametersParse
<1> QED
    BY <1>1, <1>2, <1>3, PTL DEF Spec
===============================================================================
