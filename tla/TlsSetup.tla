------------------------------ MODULE TlsSetup ------------------------------
(***************************************************************************)
(* _TLSSetup of package/bin/input_module/mqtt_subscriber.py: the context   *)
(* manager around the main loop that builds the SSL context and owns the   *)
(* temporary files which hold the client certificate and its key.          *)
(***************************************************************************)
EXTENDS Naturals, FiniteSets

VARIABLES
    broker,      \* _broker_config: the fields of the broker record that are set, resp. true
    tls,         \* where the context manager is, see Places
    files,       \* its temporary files that exist
    registered   \* _tmp_files

ClientFields == {"client_cert", "client_key"}

\* What may be wrong with the values of a record, so that every start fails alike: int()
\* does not read the port, or OpenSSL refuses the CA, resp. the client certificate with
\* its key.
Defects == {"bad_port", "bad_ca", "bad_pair"}

BrokerFields == {"use_tls", "skip_verify", "ca_cert"} \cup ClientFields \cup Defects

\* "cert" and "key": about to write that file.  "chain": about to load both.
\* "raised": __enter__ has raised, so __exit__ will not run.
Places == {"out", "cert", "key", "chain", "in", "raised", "exited"}

TlsInit == tls = "out" /\ files = {} /\ registered = {}

GateOpen(record, allowed) == "skip_verify" \in record => allowed

\* load_verify_locations raises.
CaRefused(record) == {"ca_cert", "bad_ca"} \subseteq record /\ "skip_verify" \notin record

\* load_cert_chain raises.
PairRefused(record) == ClientFields \cup {"bad_pair"} \subseteq record

\* Where _build_context goes on once it has settled how to verify the broker.
AfterVerify(record) ==
    CASE record \cap ClientFields = ClientFields -> "cert"
      [] record \cap ClientFields = {} -> "in"
      [] OTHER -> "raised"

\* __enter__ up to the client certificate; `allowed` is allow_insecure_tls.
Enter(allowed) ==
    /\ tls = "out"
    /\ tls' = IF "use_tls" \notin broker THEN "in"
              ELSE IF GateOpen(broker, allowed) /\ ~CaRefused(broker)
                   THEN AfterVerify(broker) ELSE "raised"
    /\ UNCHANGED <<broker, files, registered>>

WriteTmp(kind) ==
    /\ tls = kind
    /\ files' = files \cup {kind}
    /\ registered' = registered \cup {kind}
    /\ tls' = IF kind = "cert" THEN "key" ELSE "chain"
    /\ UNCHANGED broker

\* Seeded fault: the file is registered before it is written.
WriteTmpFailsRegistered(kind) ==
    /\ tls = kind
    /\ files' \in {files, files \cup {kind}}
    /\ registered' = registered \cup {kind}
    /\ tls' = "raised"
    /\ UNCHANGED broker

\* mkstemp, write or chmod raises.  The file is removed, unless that fails as well.
WriteTmpFails(kind) ==
    /\ tls = kind
    /\ files' \in {files, files \cup {kind}}
    /\ tls' = "raised"
    /\ UNCHANGED <<broker, registered>>

LoadChain ==
    /\ tls = "chain"
    /\ tls' = IF PairRefused(broker) THEN "raised" ELSE "in"
    /\ UNCHANGED <<broker, files, registered>>

\* Seeded fault: only the file written last is remembered.
ExitRemovesLast(stuck) ==
    /\ tls = "in"
    /\ files' = files \ ({"key"} \ stuck)
    /\ tls' = "exited"
    /\ UNCHANGED <<broker, registered>>

\* __exit__ removes each file it can: unlink fails for those in stuck.
Exit(stuck) ==
    /\ tls = "in"
    /\ files' = files \ (registered \ stuck)
    /\ tls' = "exited"
    /\ UNCHANGED <<broker, registered>>

\* The steps of __enter__: what they do depends on the record alone, but for WriteTmpFails.
EnterStep(allowed) == Enter(allowed) \/ (\E kind \in {"cert", "key"} : WriteTmp(kind)) \/ LoadChain
EnterFails == \E kind \in {"cert", "key"} : WriteTmpFails(kind)

TlsTypeOK ==
    /\ broker \in SUBSET BrokerFields
    /\ tls \in Places
    /\ files \in SUBSET {"cert", "key"} /\ registered \in SUBSET {"cert", "key"}
    /\ registered \subseteq files \/ tls = "exited"
=============================================================================
