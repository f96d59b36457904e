----------------------------- MODULE Deployment -----------------------------
(***************************************************************************)
(* From a Binding to a serving runtime: ValkeyAdapterFactory.create with   *)
(* the endpoints and the client it builds, the pins open compares, and     *)
(* verify_physical.  None of these steps reads or changes shared state, so *)
(* the whole is an operator: the error a Binding fails to start with.      *)
(***************************************************************************)
EXTENDS Settings

(* An endpoint as it is written; capitals: some letters of the host are.   *)
Points == [scheme : STRING, host : STRING, capitals : BOOLEAN, port : Int, extra : BOOLEAN]

(* parse_endpoint: the host is taken in lower case, a missing port and     *)
(* port 0 both become 6379.                                                *)
EndpointOK(e) ==
    /\ e.scheme \in {"valkey", "valkeys"} /\ ~ e.extra
    /\ e.host # ""
    /\ e.port \in 0 .. 65535

ParseEndpoint(e) ==
    [host |-> e.host, port |-> IF e.port = 0 THEN 6379 ELSE e.port, tls |-> e.scheme = "valkeys"]

(* _resolved_endpoints: the Binding's endpoint or what its service         *)
(* reference resolves to, then the seeds.  direct and resolved are the     *)
(* endpoints of the one and of the other.                                  *)
RawEndpoints(b) == (IF b.direct # <<>> THEN b.direct ELSE b.resolved) \o b.seeds

Endpoints(b) == [i \in DOMAIN RawEndpoints(b) |-> ParseEndpoint(RawEndpoints(b)[i])]

UniqueAsWritten(b) ==
    \A i, j \in DOMAIN RawEndpoints(b) : RawEndpoints(b)[i] = RawEndpoints(b)[j] => i = j

Unique(b) == \A i, j \in DOMAIN Endpoints(b) : Endpoints(b)[i] = Endpoints(b)[j] => i = j

EndpointChecks(b) ==
    <<Check("config", b.direct # <<>> \/ b.resolver),
      Check("config", \A i \in DOMAIN RawEndpoints(b) : EndpointOK(RawEndpoints(b)[i])),
      Check("config", RawEndpoints(b) # <<>>),
      Check("config", Unique(b))>>

(* create_client_handle without a client_builder, in its order. *)
TlsRequired(b) == b.tls # "disabled"

ClientChecks(b) ==
    <<Check("config", \A i \in DOMAIN Endpoints(b) : Endpoints(b)[i].tls = TlsRequired(b)),
      Check("config", TlsRequired(b) \/ b.settings.insecure),
      Check("config", b.tls # "mutual"),
      Check("config", b.identityUtf8),
      Check("config", TlsRequired(b) => b.authority = "pem" /\ b.serverName),
      Check("config", b.settings.topology.mode = "sentinel" \/ Len(Endpoints(b)) = 1)>>

(* The Sentinels a client asks for its master, and how many others each    *)
(* has to know of.                                                         *)
SentinelAddresses(b) ==
    [i \in DOMAIN Endpoints(b) |-> <<Endpoints(b)[i].host, Endpoints(b)[i].port>>]

MinOtherSentinels(b) == Len(SentinelAddresses(b)) - 1

-----------------------------------------------------------------------------
(* capability_manifest: of the settings, the fingerprint covers the        *)
(* limits, the maximum TTL, the generation and the topology.               *)
Fingerprint(version, s) ==
    [version |-> version, limits |-> s.limits, maximumTtl |-> s.ttl.maximum,
     generation |-> s.generation, topology |-> s.topology.mode]

(* ValkeyProbe.verify_physical of one Resource the registry places here. *)
VerifyChecks(s, r) ==
    <<Check("unsupported", r.catalog = "cache" /\
            r.profile \in {"cache", "disposable-cache", "disposable-key-value"}),
      Check("placement", r.name \in DOMAIN s.resources),
      Check("physical", r.name \in DOMAIN s.resources =>
            r.schema = s.resources[r.name].schema)>>

(* The Resources sorted by name; the first that fails decides. *)
VerifyError(b) ==
    IF b.physical = <<>> THEN "invalid"
    ELSE FirstError([i \in DOMAIN b.physical |->
                        FirstError(VerifyChecks(b.settings, b.physical[i]))])

(* KeyEncoder raises a plain ValueError, after the client was built. *)
NamespaceError(b) == Check("value", b.namespace \notin {"", "too long"})

(* The engine runs the release engine. *)
StartError(b, engine) ==
    LET s       == b.settings
        profile == IF s.topology.mode = "sentinel" THEN "valkey-sentinel" ELSE "valkey-standalone"
    IN  FirstError(<<Check("config", b.adapter),
                     FirstError(SettingsChecks(s)),
                     Check("config", b.profile = profile),
                     FirstError(EndpointChecks(b)),
                     FirstError(ClientChecks(b)),
                     NamespaceError(b),
                     Check("version", b.version = engine),
                     Check("fingerprint", b.pin = Fingerprint(engine, s)),
                     VerifyError(b)>>)
=============================================================================
