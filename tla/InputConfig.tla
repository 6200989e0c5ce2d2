----------------------------- MODULE InputConfig -----------------------------
(***************************************************************************)
(* What the REST handler, validate_input and collect_events each make of   *)
(* the settings of an input.  A value is what stands in the stanza: an     *)
(* integer, or one of the texts below, told apart as far as the rules do.  *)
(***************************************************************************)
EXTENDS Integers

CONSTANTS
    Absent,     \* not in the stanza
    Blank,      \* the empty text
    Spaces,     \* nothing but spaces
    Fraction,   \* a decimal, or a cron schedule
    Text        \* any other text, but none that _is_true takes for true

Raw == Int \cup {Absent, Blank, Spaces, Fraction, Text}

ASSUME RawAssumption == {Absent, Blank, Spaces, Fraction, Text} \cap Int = {}

\* The settings with a rule of their own.  limit stands for queue_maxsize and for every
\* number of the HEC writer but hec_retry_max_attempts: these share their rules.
InputSettings ==
    [qos: Raw, interval: Raw, hec_retry_max_attempts: Raw, limit: Raw,
     batch_mode: Raw, hec_verify_tls: Raw, hec_endpoint: Raw]

Unset == {Absent, Blank}
AtLeast(raw, least) == raw \in Int /\ raw >= least
IsTrue(raw) == raw = 1

\* _parse_positive_int does not raise.
Positive(raw) == AtLeast(raw, 1)

\* The patterns of the REST handler.  External: a RestField that is not required checks
\* its value only when there is one.
RestAccepts(s) ==
    /\ s.qos \in 0 .. 2
    /\ s.interval \in Unset \cup {Fraction} \/ AtLeast(s.interval, -1)
    /\ s.hec_retry_max_attempts \in Unset   \/ AtLeast(s.hec_retry_max_attempts, 0)
    /\ s.limit \in Unset                    \/ AtLeast(s.limit, 1)
    /\ s.batch_mode \in Unset \cup {0, 1}

\* _require_insecure_tls_allowed lets the setting of hec_verify_tls pass.
VerifySettled(raw, allowed) == IsTrue(raw) \/ allowed

\* Seeded fault: nobody checks the interval.
ValidateAcceptsInterval(s, allowed) ==
    /\ s.qos \in {Absent} \cup 0 .. 2
    /\ \A raw \in {s.hec_retry_max_attempts, s.limit} : raw = Absent \/ Positive(raw)
    /\ s.batch_mode = Absent \/ IsTrue(s.batch_mode) => s.hec_endpoint \notin Unset \cup {Spaces}
    /\ s.hec_verify_tls = Absent \/ VerifySettled(s.hec_verify_tls, allowed)

\* Seeded fault: a batching input needs no endpoint.
ValidateAcceptsEndpoint(s, allowed) ==
    /\ s.qos \in {Absent} \cup 0 .. 2
    /\ \A raw \in {s.interval, s.hec_retry_max_attempts, s.limit} : raw = Absent \/ Positive(raw)
    /\ s.hec_verify_tls = Absent \/ VerifySettled(s.hec_verify_tls, allowed)

\* validate_input does not raise: a default stands in for what is absent, only.
ValidateAccepts(s, allowed) ==
    /\ s.qos \in {Absent} \cup 0 .. 2
    /\ \A raw \in {s.interval, s.hec_retry_max_attempts, s.limit} : raw = Absent \/ Positive(raw)
    /\ s.batch_mode = Absent \/ IsTrue(s.batch_mode) => s.hec_endpoint \notin Unset \cup {Spaces}
    /\ s.hec_verify_tls = Absent \/ VerifySettled(s.hec_verify_tls, allowed)

\* collect_events reads its parameters: what is absent comes from default/inputs.conf,
\* and `or` puts a default in the place of what is blank, too.
Given(raw, default) == IF raw \in Unset THEN default ELSE raw

ParametersParse(s, allowed) ==
    /\ Given(s.qos, 0) \in Int
    /\ Given(s.interval, 30) \in Int
    /\ \A raw \in {s.hec_retry_max_attempts, s.limit} : Positive(Given(raw, 1))
    /\ VerifySettled(Given(s.hec_verify_tls, 1), allowed)

Batches(s) == IsTrue(Given(s.batch_mode, 1))

\* "output_mode='hec_batch' requires hec_endpoint."
EndpointMissing(s) == Batches(s) /\ s.hec_endpoint = Spaces

\* External: splunkd starts an input again when it has ended, unless its interval is -1,
\* which default/inputs.conf sets for a stanza that does not.
Recurs(s) == s.interval \notin {Absent, -1}

=============================================================================
