------------------------------- MODULE Startup -------------------------------
(***************************************************************************)
(* The life of one input between its configuration and its main loop:      *)
(* settings are saved through REST or written by hand, splunkd starts the  *)
(* process, collect_events reads its parameters, provisions the token,     *)
(* loads the broker record, enters _TLSSetup and runs, until it ends or is *)
(* killed.  The rules come from InputConfig, the steps of the TLS context  *)
(* from TlsSetup.                                                          *)
(***************************************************************************)
EXTENDS InputConfig, TlsSetup

CONSTANTS
    Settings,    \* the settings an administrator tries
    Brokers,     \* the broker records an input may name
    MaxFaults,   \* bound: kills, I/O errors and refused calls of splunkd
    MaxEdits     \* bound: saves of settings or broker record, changes of allow_insecure_tls

ASSUME StartupAssumption ==
    /\ Settings \subseteq InputSettings /\ Brokers \subseteq SUBSET BrokerFields
    /\ MaxFaults \in Nat /\ MaxEdits \in Nat

VARIABLES
    settings,    \* the stanza of the input
    record,      \* the broker record it names; a process works on its copy, broker
    checked,     \* it has passed the REST handler and validate_input
    allowed,     \* allow_insecure_tls
    pc,          \* where the process is, "ended" when there is none
    due,         \* splunkd is going to start the input
    \* history, not in the code:
    spoiled,     \* a call on the temporary files of this process has failed
    faults, edits

tlsVars == <<broker, tls, files, registered>>
configVars == <<settings, record, checked, allowed, edits>>
vars == <<tlsVars, configVars, pc, due, spoiled, faults>>

Init ==
    /\ broker = {} /\ TlsInit
    /\ settings \in Settings /\ record \in Brokers /\ checked = FALSE
    /\ allowed \in BOOLEAN
    /\ pc = "ended" /\ due = TRUE
    /\ spoiled = FALSE /\ faults = 0 /\ edits = 0

Alive == pc # "ended"

Fault == faults < MaxFaults /\ faults' = faults + 1

\* The process is gone, and nobody knows of its files any more: those that exist in this
\* moment stay for good.
Gone ==
    /\ pc' = "ended" /\ spoiled' = FALSE
    /\ broker' = {} /\ tls' = "out" /\ files' = {} /\ registered' = {}

Ends == Gone /\ due' = Recurs(settings) /\ UNCHANGED configVars

Continues(place) == pc' = place /\ UNCHANGED <<tlsVars, configVars, due, spoiled>>

-------------------------------------------------------------------------------
(* The process *)

Launch ==
    /\ pc = "ended" /\ due
    /\ pc' = "parameters" /\ due' = FALSE
    /\ UNCHANGED <<tlsVars, configVars, spoiled, faults>>

ReadParameters ==
    /\ pc = "parameters"
    /\ IF ParametersParse(settings, allowed) THEN Continues("token") ELSE Ends
    /\ UNCHANGED faults

\* The token is provisioned, unless the input writes single events.
Provision ==
    /\ pc = "token"
    /\ IF EndpointMissing(settings) THEN Ends ELSE Continues("broker")
    /\ UNCHANGED faults

\* The record is read, for good; int() raises if the port is no number.
LoadBroker ==
    /\ pc = "broker"
    /\ \/ /\ "bad_port" \notin record
          /\ pc' = "tls" /\ broker' = record
          /\ UNCHANGED <<tls, files, registered, configVars, due, spoiled>>
       \/ "bad_port" \in record /\ Ends
    /\ UNCHANGED faults

\* splunkd does not give the token, resp. the broker record: log and return.
SplunkdRefuses ==
    /\ \/ pc = "token" /\ Batches(settings) /\ ~EndpointMissing(settings)
       \/ pc = "broker"
    /\ Fault /\ Ends

EnterTls ==
    /\ pc = "tls" /\ EnterStep(allowed)
    /\ UNCHANGED <<configVars, pc, due, spoiled, faults>>

TlsFails ==
    /\ pc = "tls" /\ EnterFails /\ Fault /\ spoiled' = TRUE
    /\ UNCHANGED <<configVars, pc, due>>

\* The with statement passes an exception of __enter__ on: the process ends.
TlsRaises == pc = "tls" /\ tls = "raised" /\ Ends /\ UNCHANGED faults

EnterMainLoop == pc = "tls" /\ tls = "in" /\ Continues("running") /\ UNCHANGED faults

\* An exception leaves the main loop: the with statement runs __exit__.
LoopEnds ==
    /\ pc = "running" /\ tls = "in"
    /\ \/ Exit({}) /\ UNCHANGED <<spoiled, faults>>
       \/ Fault /\ spoiled' = TRUE /\ \E stuck \in SUBSET registered \ {{}} : Exit(stuck)
    /\ UNCHANGED <<configVars, pc, due>>

ProcessExits == pc = "running" /\ tls = "exited" /\ Ends /\ UNCHANGED faults

\* External: splunkd, or the machine, stops the process.  No handler is installed.
Killed == Alive /\ Fault /\ Ends

-------------------------------------------------------------------------------
(* The administrator *)

Edit == edits < MaxEdits /\ edits' = edits + 1

\* A save through REST.  External: splunkd stops the process and starts the input anew.
Save(s) ==
    /\ Edit
    /\ RestAccepts(s) /\ ValidateAccepts(s, allowed)
    /\ settings' = s /\ checked' = TRUE
    /\ Gone /\ due' = TRUE
    /\ UNCHANGED <<record, allowed, faults>>

\* The broker record is saved; a process that has read it keeps what it has.
SaveBroker(b) ==
    /\ Edit
    /\ record' = b
    /\ UNCHANGED <<tlsVars, settings, checked, allowed, pc, due, spoiled, faults>>

\* allow_insecure_tls is changed; running inputs do not look at it again.
ChangeOverride ==
    /\ Edit
    /\ allowed' = ~allowed
    /\ UNCHANGED <<tlsVars, settings, record, checked, pc, due, spoiled, faults>>

ProcessStep ==
    \/ ReadParameters \/ Provision \/ LoadBroker \/ EnterTls \/ TlsRaises \/ EnterMainLoop
    \/ ProcessExits

Next ==
    \/ Launch \/ ProcessStep \/ SplunkdRefuses \/ TlsFails \/ LoopEnds \/ Killed
    \/ \E s \in Settings : Save(s)
    \/ \E b \in Brokers : SaveBroker(b)
    \/ ChangeOverride

\* splunkd starts what is due, and a start goes on: its calls have timeouts.
Fairness == WF_vars(Launch) /\ WF_vars(ProcessStep)

Spec == Init /\ [][Next]_vars /\ Fairness

-------------------------------------------------------------------------------
(* Correctness *)

Shape ==
    /\ TlsTypeOK
    /\ settings \in Settings /\ record \in Brokers
    /\ pc \in {"ended", "parameters", "token", "broker", "tls", "running"}
    /\ faults \in 0 .. MaxFaults /\ edits \in 0 .. MaxEdits

\* Every variable has its type; the TLS context is only in use by a process that has come
\* as far as its with statement, and it has no file on its list that does not exist.
TypeOK ==
    /\ Shape
    /\ checked \in BOOLEAN /\ allowed \in BOOLEAN /\ due \in BOOLEAN /\ spoiled \in BOOLEAN
    /\ pc \notin {"tls", "running"} => tls = "out" /\ files = {} /\ registered = {}

\* What REST handler and validate_input have both let pass never makes collect_events
\* raise while it reads its parameters, although each of the three has rules of its own;
\* unless HEC verification is off and the override was withdrawn after the save.
SavedSettingsParse ==
    checked =>
        \/ ParametersParse(settings, allowed)
        \/ ~VerifySettled(Given(settings.hec_verify_tls, 1), allowed)

\* splunkd, the machine or the administrator has ended the process: these steps are counted.
Stopped == ~UNCHANGED <<faults, edits>>

\* A process that ends leaves certificate or key behind for one of three reasons: it was
\* stopped from outside, a call on its files failed, or OpenSSL has refused the pair.
\* Else they are gone, wherever the start or the main loop has ended, whatever the record
\* has become meanwhile, and also when the override was withdrawn half-way.
LeftoversExplained ==
    [][ Alive /\ pc' = "ended" /\ files # {} =>
          Stopped \/ spoiled \/ (tls = "raised" /\ PairRefused(broker)) ]_vars

\* The record will bring a process through _TLSSetup, whatever process it is.
BrokerUsable ==
    /\ "bad_port" \notin record
    /\ "use_tls" \in record =>
          /\ GateOpen(record, allowed) /\ ~CaRefused(record)
          /\ AfterVerify(record) # "raised" /\ ~PairRefused(record)

\* Settings that were saved through REST bring their input up, once the broker record is
\* usable and the override fits, however many starts have failed before on a record that
\* was not, or through faults, and however stale the copy is a start works on: one of them
\* reaches the main loop.  Not so for an interval of -1, with which splunkd does not
\* repeat a start, nor for an empty batch_mode beside a blank endpoint: validate_input
\* takes that for an input without batches, collect_events for one with.
SavedInputComesUp ==
    LET fine == /\ checked /\ Recurs(settings) /\ BrokerUsable
                /\ VerifySettled(Given(settings.hec_verify_tls, 1), allowed)
                /\ ~(settings.batch_mode = Blank /\ settings.hec_endpoint = Spaces)
    IN  fine ~> pc = "running" \/ ~fine

-------------------------------------------------------------------------------
(* What the documents say and the code does not do *)

\* tasks/lessons.md, L-003: the temporary files are deleted "in the _TLSSetup.__exit__
\* cleanup path.  The context manager pattern ensures cleanup even on exception."  No
\* claim is made for calls on the files that fail themselves.
CleanedUpOnException ==
    [][ (TlsRaises \/ ProcessExits) /\ ~spoiled => files = {} ]_vars
===============================================================================
