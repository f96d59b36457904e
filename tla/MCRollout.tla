------------------------------ MODULE MCRollout ------------------------------
(***************************************************************************)
(* Instances of Rollout for TLC: a Binding that starts, the Bindings it is *)
(* rolled to, and one that fails at each check between a Binding and a     *)
(* serving replica.                                                        *)
(***************************************************************************)
EXTENDS Rollout, TLC

Point(scheme, host, port) ==
    [scheme |-> scheme, host |-> host, capitals |-> FALSE, port |-> port, extra |-> FALSE]

Items == [schema |-> "s1", serializer |-> "canonical-json", default |-> None,
          staleness |-> 2, negative |-> TRUE, authoritative |-> FALSE]

Plain == [generation |-> 1,
          resources |-> ("items" :> Items),
          limits |-> [maxKeyBytes |-> 96, maxValueBytes |-> 2, maxBatchSize |-> 2],
          ttl |-> [default |-> 2, minimum |-> 1, maximum |-> 3, negative |-> 1],
          singleFlight |-> [lease |-> 10, wait |-> 10, poll |-> 1],
          memory |-> [policies |-> <<"allkeys-lru", "volatile-lru">>],
          topology |-> [mode |-> "standalone", replicas |-> 0, master |-> FALSE],
          database |-> 0, insecure |-> TRUE, malformed |-> {}]

Pinned(b) == [b EXCEPT !.pin = Fingerprint("9", b.settings)]

Base == Pinned([adapter |-> TRUE, profile |-> "valkey-standalone", namespace |-> "n1",
                version |-> "9", pin |-> <<>>, tls |-> "disabled", authority |-> "none",
                serverName |-> FALSE, identityUtf8 |-> TRUE, resolver |-> FALSE,
                direct |-> <<Point("valkey", "h", 0)>>, resolved |-> <<>>, seeds |-> <<>>,
                physical |-> <<[name |-> "items", catalog |-> "cache", profile |-> "cache",
                                schema |-> "s1"]>>,
                settings |-> Plain])

With(s) == Pinned([Base EXCEPT !.settings = s])

Schema2 == Pinned([Base EXCEPT !.settings.resources["items"].schema = "s2",
                               !.physical[1].schema = "s2"])

Sentinel == Pinned([Base EXCEPT
                !.profile = "valkey-sentinel", !.tls = "server", !.authority = "pem",
                !.serverName = TRUE, !.resolver = TRUE, !.direct = <<>>,
                !.resolved = <<Point("valkeys", "h", 6379)>>,
                !.seeds = <<Point("valkeys", "j", 0)>>,
                !.settings.insecure = FALSE, !.settings.generation = MaxInt,
                !.settings.resources["items"].default = 1,
                !.settings.resources["items"].staleness = None,
                !.settings.topology = [mode |-> "sentinel", replicas |-> 1, master |-> TRUE]])

(* Bindings that start. *)
Sound ==
    [base       |-> Base,
     schema2    |-> Schema2,
     strict     |-> With([Plain EXCEPT !.resources["items"].staleness = 1,
                                       !.limits.maxValueBytes = 1]),
     namespace2 |-> [Base EXCEPT !.namespace = "n2"],
     unwritable |-> With([Plain EXCEPT !.ttl.minimum = 2, !.ttl.negative = 2,
                                       !.resources["items"].staleness = 1]),
     sentinel   |-> Sentinel]

Malformed == [x \in {"malformed " \o y : y \in Sections} |->
                With([Plain EXCEPT !.malformed = {y \in Sections : x = "malformed " \o y}])]

(* Bindings that do not start, each for another reason. *)
Unsound ==
    [adapter    |-> [Base EXCEPT !.adapter = FALSE],
     empty      |-> [Base EXCEPT !.settings.resources = [x \in {} |-> Items]],
     authority  |-> With([Plain EXCEPT !.resources["items"].authoritative = TRUE]),
     gen0       |-> With([Plain EXCEPT !.generation = 0]),
     keys       |-> With([Plain EXCEPT !.limits.maxKeyBytes = 95]),
     negative   |-> With([Plain EXCEPT !.ttl.minimum = 2]),
     default    |-> With([Plain EXCEPT !.ttl.default = 4]),
     wait       |-> With([Plain EXCEPT !.singleFlight.wait = 11]),
     policies   |-> With([Plain EXCEPT !.memory.policies[2] = "allkeys-lru"]),
     master     |-> With([Plain EXCEPT !.topology.master = TRUE]),
     database   |-> With([Plain EXCEPT !.database = 16]),
     profile    |-> [Sentinel EXCEPT !.profile = "valkey-standalone"],
     resolver   |-> [Sentinel EXCEPT !.resolver = FALSE],
     scheme     |-> [Base EXCEPT !.direct[1].scheme = "http"],
     port       |-> [Base EXCEPT !.direct[1].port = 65536],
     nowhere    |-> [Sentinel EXCEPT !.resolved = <<>>, !.seeds = <<>>],
     twice      |-> [Sentinel EXCEPT !.seeds = <<Point("valkeys", "h", 0)>>],
     capital    |-> [Sentinel EXCEPT !.seeds = <<[Point("valkeys", "h", 6379)
                                                    EXCEPT !.capitals = TRUE]>>],
     mixed      |-> [Sentinel EXCEPT !.seeds = <<Point("valkey", "j", 0)>>],
     plaintext  |-> With([Plain EXCEPT !.insecure = FALSE]),
     mutual     |-> [Sentinel EXCEPT !.tls = "mutual"],
     identity   |-> [Base EXCEPT !.identityUtf8 = FALSE],
     pem        |-> [Sentinel EXCEPT !.authority = "bytes"],
     two        |-> [Base EXCEPT !.seeds = <<Point("valkey", "j", 0)>>],
     long       |-> [Base EXCEPT !.namespace = "too long"],
     version    |-> [Base EXCEPT !.version = "8"],
     pin        |-> [Base EXCEPT !.settings.generation = 2],
     unplaced   |-> [Base EXCEPT !.physical = <<>>],
     durable    |-> [Base EXCEPT !.physical[1].profile = "durable"],
     stranger   |-> [Base EXCEPT !.physical[1].name = "others"],
     drifted    |-> [Base EXCEPT !.physical[1].schema = "s2"]]

MCBindings == Sound @@ Unsound @@ Malformed

MCFirst == {"base"} \cup DOMAIN Unsound \cup DOMAIN Malformed
MCUpgrades == {"schema2", "strict", "unwritable", "sentinel", "pin"}

Request(kind, scope, keys, ttl, size) ==
    [kind |-> kind, scope |-> scope, resource |-> "items", keys |-> keys, ttl |-> ttl,
     negative |-> FALSE, size |-> size]

MCRequests ==
    {Request("put", "t1", <<"k1">>, None, 2),
     [Request("put", "t2", <<"k1">>, None, 1) EXCEPT !.negative = TRUE],
     Request("put", "t1", <<"k2">>, 5, 1),
     Request("put", "t1", <<"bad">>, None, 3),
     Request("delete", "t1", <<"k1">>, None, 0),
     [Request("delete", "t1", <<"k1">>, None, 0) EXCEPT !.resource = "others"],
     Request("batch", "t1", <<"k2", "k1">>, None, 0),
     Request("batch", "t1", <<"k1", "k2", "k1">>, None, 0)}

(* One replica's clock runs ahead. *)
MCSkew == [r \in Replicas |-> IF r = CHOOSE s \in Replicas : TRUE THEN 0 ELSE 1]
=============================================================================
