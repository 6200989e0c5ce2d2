------------------------------ MODULE MCStartup ------------------------------
\* Startup for TLC: the shipped settings, and all that differ from them in one or two.
EXTENDS Startup

Shipped == [qos |-> 0, interval |-> 30, hec_retry_max_attempts |-> 5, limit |-> 500,
            batch_mode |-> 1, hec_verify_tls |-> 1, hec_endpoint |-> Text]

Tried ==
    [qos: {0, 7, Absent}, interval: {30, -1, Absent, Fraction},
     hec_retry_max_attempts: {5, 0}, limit: {500, 0, Blank},
     batch_mode: {1, 0, Blank}, hec_verify_tls: {1, 0}, hec_endpoint: {Text, Absent, Spaces}]

MCSettings ==
    {s \in Tried : Cardinality({f \in DOMAIN Shipped : s[f] # Shipped[f]}) <= 2}

\* Plain, TLS, with a CA, unverified, with a client pair, whole or half; and records with a
\* port, a CA or a pair that cannot be used.
MCBrokers ==
    {{}, {"bad_port"}, {"use_tls", "skip_verify"}, {"use_tls", "ca_cert"},
     {"use_tls", "ca_cert", "bad_ca"}, {"use_tls", "client_key"}, {"use_tls"} \cup ClientFields,
     {"use_tls", "skip_verify"} \cup ClientFields, {"use_tls", "bad_pair"} \cup ClientFields}
=============================================================================
