------------------------------- MODULE Rollout -------------------------------
(***************************************************************************)
(* A Binding that is changed while it is in use.  Several replicas of the  *)
(* service share one engine; each was started from the Binding deployed at *)
(* that moment and keeps its settings until it is rolled, so replicas with *)
(* different generations, Schemas, limits and TTL policies read and write  *)
(* side by side.  Callers of several scopes put, delete and look up        *)
(* batches of keys (put ends by decoding what it wrote, which changes      *)
(* nothing and is followed in SingleFlight and CacheOps).                  *)
(*                                                                         *)
(* Each engine command is one step.  A command that fails at its caller,   *)
(* or whose replica is stopped, may never be executed or be executed at    *)
(* any later time.                                                         *)
(***************************************************************************)
EXTENDS Deployment, KeyEncoding, SequencesExt

CONSTANTS
    Replicas,    \* processes serving the Binding
    Bindings,    \* Bindings by name
    First,       \* names of the Bindings deployed at first
    Upgrades,    \* names of the Bindings deployed later
    Engine,      \* release of the engine
    Requests,    \* requests the callers make
    BadKey,      \* a logical key that is null or an object
    Skew,        \* Skew[r]: how far r's wall clock runs ahead of the engine's
    MaxSkew,     \* most that two of these clocks disagree
    MaxOps,      \* bound: requests
    MaxChanges,  \* bound: later deployments
    MaxTime,     \* bound: time
    MaxLate,     \* bound: abandoned commands on their way at once
    MaxDamage    \* bound: damaged entries

Names == DOMAIN Bindings

ASSUME RolloutAssumption ==
    /\ First \subseteq Names /\ Upgrades \subseteq Names
    /\ "down" \notin Names
    /\ \A q \in Requests : /\ q.kind \in {"put", "batch", "delete"}
                           /\ q.keys \in Seq(STRING) /\ q.ttl \in Int
    /\ \A n \in Names : LET b == Bindings[n]
                       IN  /\ b.settings.generation \in Int
                           /\ {b.direct, b.resolved, b.seeds} \subseteq Seq(Points)
    /\ {MaxOps, MaxChanges, MaxTime, MaxLate, MaxDamage} \subseteq Nat

ASSUME SkewAssumption ==
    MaxSkew \in Nat /\ Skew \in [Replicas -> 0 .. MaxSkew]

(* Names of the Bindings that start: the factory creates a runtime, open   *)
(* finds its pins and the Resources verify.                                *)
Accepted == {n \in Names : StartError(Bindings[n], Engine) = "none"}

VARIABLES
    now,      \* engine time
    iac,      \* name of the Binding deployed
    changes,  \* number of later deployments so far
    store,    \* the engine: physical key -> entry, for the keys present
    damaged,  \* number of entries damaged so far
    late,     \* commands whose caller is gone, not executed yet
    proc,     \* name of the Binding each replica runs, "down" if none
    pc, loc,  \* control point and locals of each replica's request
    ops       \* number of requests begun

vars == <<now, iac, changes, store, damaged, late, proc, pc, loc, ops>>

(* owner, at, asOf and by are ghosts: whose entry it is, when it was put,  *)
(* the generation deployed at that time and the Binding it was put under.  *)
NoEntry == [owner |-> <<>>, schema |-> "", size |-> 0, created |-> 0, expires |-> 0,
            px |-> 0, intact |-> FALSE, at |-> 0, asOf |-> 0, by |-> "down"]

NoRequest == [kind |-> "none", scope |-> "", resource |-> "", keys |-> <<>>,
              ttl |-> None, negative |-> FALSE, size |-> 0]

(* new: the entry a put writes; raw: what MGET returned; i: the key whose  *)
(* turn it is; got: the results, an entry for a hit.                       *)
NoLocals == [req |-> NoRequest, new |-> NoEntry, i |-> 1, raw |-> <<>>, got |-> <<>>]

-----------------------------------------------------------------------------
(* A replica's view of its requests. *)

Running(r) == Bindings[proc[r]]

(* r's wall clock, the one its codec stamps and judges envelopes with. *)
Clock(r) == now + Skew[r]

Encoder(b) == [namespace |-> b.namespace, generation |-> b.settings.generation,
               maximum |-> b.settings.limits.maxKeyBytes]

Policy(b, resource) == b.settings.resources[resource]

MaterialWithoutScope(b, q, k) ==
    [scope |-> "", resource |-> q.resource, key |-> k,
     schema |-> Policy(b, q.resource).schema, group |-> NoGroup]

Material(b, q, k) == [scope |-> q.scope, resource |-> q.resource, key |-> k,
                      schema |-> Policy(b, q.resource).schema, group |-> NoGroup]

(* ValkeyCache.physical_key. *)
PhysicalKeyUngenerated(b, q, k) ==
    Encode([Encoder(b) EXCEPT !.generation = 1], Material(b, q, k))

PhysicalKey(b, q, k) == Encode(Encoder(b), Material(b, q, k))

Owner(b, q, k) == <<b.namespace, q.scope, q.resource, k, Policy(b, q.resource).schema>>

Key(r, i) == PhysicalKey(Running(r), loc[r].req, loc[r].req.keys[i])

TtlOf(b, q) ==
    EffectiveTtlMs(b.settings, Policy(b, q.resource), q.ttl,
                   q.negative /\ Policy(b, q.resource).negative)

(* What a request is refused with before any command: the batch bound, the *)
(* policy, the key material, the TTL, the size; a batch encodes all its    *)
(* keys first.                                                             *)
BatchOKUnbounded(b, q) == q.keys # <<>>

BatchOK(b, q) == Len(q.keys) \in 1 .. b.settings.limits.maxBatchSize

Refusal(b, q) ==
    LET placed == q.resource \in DOMAIN b.settings.resources
    IN  FirstError(<<
            Check("value", q.kind = "batch" => BatchOK(b, q)),
            Check("placement", placed),
            Check("value", BadKey \notin ToSet(q.keys)),
            Check("value", placed => \A k \in ToSet(q.keys) :
                                         Fits(Encoder(b), PhysicalKey(b, q, k))),
            Check("config", placed /\ q.kind = "put" => TtlOf(b, q) # None),
            Check("size", q.kind = "put" => q.size <= b.settings.limits.maxValueBytes)>>)

NewEntry(r, q) ==
    LET b == Running(r)
    IN  [owner |-> Owner(b, q, q.keys[1]), schema |-> Policy(b, q.resource).schema,
         size |-> q.size, created |-> Clock(r), expires |-> Clock(r) + TtlOf(b, q),
         px |-> 0, intact |-> TRUE, at |-> now,
         asOf |-> Bindings[iac].settings.generation, by |-> proc[r]]

(* EnvelopeCodec.decode under the reader's size limit, Schema, staleness   *)
(* and clock.                                                              *)
DecodesIgnoringStaleness(b, q, e, clock) ==
    /\ e.intact /\ e.size <= b.settings.limits.maxValueBytes
    /\ e.schema = Policy(b, q.resource).schema /\ e.expires > clock

Decodes(b, q, e, clock) ==
    /\ e.intact /\ e.size <= b.settings.limits.maxValueBytes
    /\ e.schema = Policy(b, q.resource).schema
    /\ e.expires > clock
    /\ LET staleness == Policy(b, q.resource).staleness
       IN  staleness # None => e.created + staleness > clock

-----------------------------------------------------------------------------
(* The engine. *)

Stored(k) == IF k \in DOMAIN store THEN store[k] ELSE NoEntry

(* A command is a key with the entry to SET, NoEntry to DEL; owner is a    *)
(* ghost.                                                                  *)
Command(k, e, owner) == [key |-> k, entry |-> e, owner |-> owner]

After(x) ==
    IF x.entry = NoEntry
    THEN [k \in DOMAIN store \ {x.key} |-> store[k]]
    ELSE [k \in DOMAIN store \cup {x.key} |->
             IF k = x.key
             THEN [x.entry EXCEPT !.px = now + x.entry.expires - x.entry.created]
             ELSE store[k]]

(* The command a replica is about to send, if it is one that changes       *)
(* anything.                                                               *)
Pending(r) ==
    IF pc[r] \notin {"set", "del", "clean"} THEN {}
    ELSE LET i == loc[r].i
         IN  {Command(Key(r, i), loc[r].new, Owner(Running(r), loc[r].req, loc[r].req.keys[i]))}

Move(r, l, v) ==
    /\ pc' = [pc EXCEPT ![r] = l]
    /\ loc' = [loc EXCEPT ![r] = v]

Done(r) == Move(r, "idle", NoLocals)

(* Result e of the next key of a batch. *)
Result(r, e) ==
    Move(r, IF loc[r].i = Len(loc[r].req.keys) THEN "return" ELSE "decode",
         [loc[r] EXCEPT !.got = [@ EXCEPT ![loc[r].i] = e], !.i = @ + 1])

-----------------------------------------------------------------------------
(* Requests. *)

FirstCommand == [put |-> "set", batch |-> "mget", delete |-> "del"]

Begin(r) ==
    /\ pc[r] = "idle" /\ proc[r] # "down" /\ ops < MaxOps
    /\ ops' = ops + 1
    /\ \E q \in Requests :
          LET refused == Refusal(Running(r), q) # "none"
          IN  \/ refused /\ UNCHANGED <<pc, loc>>
              \/ /\ ~ refused
                 /\ Move(r, FirstCommand[q.kind],
                         [NoLocals EXCEPT !.req = q,
                                          !.new = IF q.kind = "put" THEN NewEntry(r, q) ELSE @])
    /\ UNCHANGED <<now, iac, changes, store, damaged, late, proc>>

(* put's SET with the entry's TTL, or delete's DEL. *)
Write(r) ==
    /\ pc[r] \in {"set", "del"}
    /\ \E x \in Pending(r) : store' = After(x)
    /\ Done(r)
    /\ UNCHANGED <<now, iac, changes, damaged, late, proc, ops>>

(* batch_get: one MGET for all the keys. *)
Mget(r) ==
    /\ pc[r] = "mget"
    /\ Move(r, "decode",
            [loc[r] EXCEPT !.raw = [i \in DOMAIN loc[r].req.keys |-> Stored(Key(r, i))],
                           !.got = [i \in DOMAIN loc[r].req.keys |-> NoEntry]])
    /\ UNCHANGED <<now, iac, changes, store, damaged, late, proc, ops>>

(* batch_lookup's loop: a miss, a hit, or an entry to be cleaned up. *)
RawShifted(r) == loc[r].raw[Len(loc[r].raw) + 1 - loc[r].i]

Raw(r) == loc[r].raw[loc[r].i]

Decode(r) ==
    /\ pc[r] = "decode"
    /\ LET e     == Raw(r)
           valid == Decodes(Running(r), loc[r].req, e, Clock(r))
       IN  \/ e = NoEntry /\ Result(r, NoEntry)
           \/ e # NoEntry /\ valid /\ Result(r, e)
           \/ e # NoEntry /\ ~ valid /\ Move(r, "clean", loc[r])
    /\ UNCHANGED <<now, iac, changes, store, damaged, late, proc, ops>>

(* _best_effort_delete of whatever the key holds by now. *)
Clean(r) ==
    /\ pc[r] = "clean"
    /\ \E x \in Pending(r) : store' = After(x)
    /\ Result(r, NoEntry)
    /\ UNCHANGED <<now, iac, changes, damaged, late, proc, ops>>

Return(r) ==
    /\ pc[r] = "return"
    /\ Done(r)
    /\ UNCHANGED <<now, iac, changes, store, damaged, late, proc, ops>>

Abandon(r) ==
    \/ UNCHANGED late
    \/ Cardinality(late) < MaxLate /\ late' = late \cup Pending(r)

(* The command raises a ValkeyError: the request fails, a cleanup does not. *)
Fails(r) ==
    /\ pc[r] \in {"set", "del", "mget", "clean"}
    /\ Abandon(r)
    /\ IF pc[r] = "clean" THEN Result(r, NoEntry) ELSE Done(r)
    /\ UNCHANGED <<now, iac, changes, store, damaged, proc, ops>>

-----------------------------------------------------------------------------
(* Deployment. *)

(* Platform IaC deploys another Binding; generations are only incremented. *)
Deploy ==
    /\ changes < MaxChanges
    /\ \E n \in Upgrades \ {iac} :
          /\ Bindings[n].settings.generation >= Bindings[iac].settings.generation
          /\ iac' = n
    /\ changes' = changes + 1
    /\ UNCHANGED <<now, store, damaged, late, proc, pc, loc, ops>>

(* A replica is stopped, in the middle of a request or not, and started    *)
(* again from the Binding deployed now.                                    *)
Roll(r) ==
    /\ proc[r] # iac
    /\ proc' = [proc EXCEPT ![r] = IF iac \in Accepted THEN iac ELSE "down"]
    /\ Abandon(r)
    /\ Done(r)
    /\ UNCHANGED <<now, iac, changes, store, damaged, ops>>

LateArrives ==
    /\ \E x \in late : store' = After(x) /\ late' = late \ {x}
    /\ UNCHANGED <<now, iac, changes, damaged, proc, pc, loc, ops>>

(* Bytes that no longer verify. *)
Damage ==
    /\ damaged < MaxDamage /\ damaged' = damaged + 1
    /\ \E k \in DOMAIN store : store' = [store EXCEPT ![k].intact = FALSE]
    /\ UNCHANGED <<now, iac, changes, late, proc, pc, loc, ops>>

(* Time passes; a key goes when its PX has run out. *)
Tick ==
    /\ now < MaxTime /\ now' = now + 1
    /\ store' = [k \in {j \in DOMAIN store : store[j].px > now'} |-> store[k]]
    /\ UNCHANGED <<iac, changes, damaged, late, proc, pc, loc, ops>>

Finished ==
    /\ \A r \in Replicas : pc[r] = "idle"
    /\ UNCHANGED vars

Init ==
    /\ now = 0 /\ changes = 0 /\ damaged = 0
    /\ iac \in First
    /\ store = [k \in {} |-> NoEntry] /\ late = {}
    /\ proc = [r \in Replicas |-> "down"]
    /\ pc = [r \in Replicas |-> "idle"]
    /\ loc = [r \in Replicas |-> NoLocals]
    /\ ops = 0

Next ==
    \/ \E r \in Replicas :
          \/ Begin(r) \/ Write(r) \/ Mget(r) \/ Decode(r) \/ Clean(r) \/ Return(r)
          \/ Fails(r) \/ Roll(r)
    \/ Deploy \/ LateArrives \/ Damage \/ Tick
    \/ Finished

Spec == Init /\ [][Next]_vars

-----------------------------------------------------------------------------
(* Every variable keeps its type: a replica serves only a Binding that     *)
(* starts, and a batch never asks the engine for more keys than its        *)
(* replica's maxBatchSize.                                                 *)
TypeOK ==
    /\ now \in Nat /\ changes \in Nat /\ damaged \in Nat
    /\ iac \in Names
    /\ proc \in [Replicas -> Accepted \cup {"down"}]
    /\ pc \in [Replicas -> {"idle", "set", "del", "mget", "decode", "clean", "return"}]
    /\ \A r \in Replicas :
          /\ pc[r] # "idle" => proc[r] # "down"
          /\ loc[r].i \in 1 .. Len(loc[r].req.keys) + 1
          /\ pc[r] = "mget" => Len(loc[r].req.keys) <= Running(r).settings.limits.maxBatchSize
    /\ \A k \in DOMAIN store : store[k].px > now
    /\ ops \in 0 .. MaxOps

(* scope-isolation and Schema validation, as the descriptor guarantees     *)
(* them: each result of a batch that is a hit was put for the same         *)
(* namespace, scope, Resource, logical key and Schema as the key at that   *)
(* place of the request, whatever settings the replicas run.               *)
HitsAreOwn ==
    \A r \in Replicas : \A i \in DOMAIN loc[r].got :
        loc[r].got[i] # NoEntry =>
            loc[r].got[i].owner = Owner(Running(r), loc[r].req, loc[r].req.keys[i])

(* Incrementing namespaceGeneration makes old entries unreachable: a       *)
(* replica of generation g only returns entries put after generation g was *)
(* deployed, although replicas of older generations, and commands they     *)
(* left behind, still write.                                               *)
OldGenerationUnreachable ==
    \A r \in Replicas : \A i \in DOMAIN loc[r].got :
        loc[r].got[i] # NoEntry => loc[r].got[i].asOf >= Running(r).settings.generation

(* The ages entry e may have under policy p of its reader: p's staleness   *)
(* bound, and the staleness bound and maximum TTL of its writer.           *)
AgeBounds(e, p) ==
    LET s == Bindings[e.by].settings
    IN  {p.staleness, s.resources[e.owner[3]].staleness, s.ttl.maximum} \ {None}

(* Bounded staleness through a roll: an entry becomes a hit only if the    *)
(* real time since its put is below what the reader's settings and what    *)
(* the writer's settings allow, but for the clocks' disagreement.  The PX  *)
(* does not see to it: a SET that arrives late starts it afresh, and a     *)
(* batch decodes some time after its MGET; nor does the writer's TTL, when *)
(* the reader's Binding is the stricter one.                               *)
HitsWithinBounds ==
    [][\A r \in Replicas : \A i \in DOMAIN loc[r].got :
         LET e == loc'[r].got[i]
         IN  pc'[r] # "idle" /\ e # loc[r].got[i] =>
                \A n \in AgeBounds(e, Policy(Running(r), loc[r].req.resource)) :
                    now < e.at + n + MaxSkew]_vars

(* An entry is only replaced or removed by a command issued for its owner, *)
(* or by expiry: no put, delete, cleanup or late command of one scope,     *)
(* Resource, Schema or key reaches an entry of another.                    *)
ForeignUntouched ==
    [][\A k \in DOMAIN store :
         now' = now /\ damaged' = damaged
            /\ (k \notin DOMAIN store' \/ (k \in DOMAIN store' /\ store'[k] # store[k]))
         => \E x \in late \cup UNION {Pending(r) : r \in Replicas} :
               x.key = k /\ x.owner = store[k].owner]_vars

(* TTL is mandatory and bounded: every entry in the engine or on its way   *)
(* there lives at least the minimum and at most the maximum TTL and the    *)
(* Resource's staleness bound of the settings it was put under, and its PX *)
(* ends no later than that after its SET.                                  *)
TtlBounded ==
    \A e \in {store[k] : k \in DOMAIN store} \cup {x.entry : x \in {c \in late : c.entry # NoEntry}} :
        LET s         == Bindings[e.by].settings
            ttl       == e.expires - e.created
            staleness == s.resources[e.owner[3]].staleness
        IN  /\ ttl \in s.ttl.minimum .. s.ttl.maximum
            /\ staleness # None => ttl <= staleness
            /\ e.px <= now + ttl

-----------------------------------------------------------------------------
(* What start-up grants a Binding that is served. *)

Serving == {proc[r] : r \in Replicas} \ {"down"}

Materials(b) ==
    LET placed == {q \in Requests : q.resource \in DOMAIN b.settings.resources}
        plain  == {Material(b, q, k) : q \in placed, k \in UNION {ToSet(q.keys) : q \in placed}}
    IN  {[m EXCEPT !.group = g] : m \in plain, g \in {NoGroup, "group"}}

AllApart ==
    \A a, b \in {Bindings[n] : n \in Accepted} : \A l \in Materials(a), m \in Materials(b) :
        LET d == Encode(Encoder(a), l)
            e == Encode(Encoder(b), m)
        IN  /\ d = e => <<a.namespace, a.settings.generation, l>>
                            = <<b.namespace, b.settings.generation, m>>
            /\ LeaseKey(Encoder(a), d) # e
            /\ LeaseKey(Encoder(a), d) = LeaseKey(Encoder(b), e) => d = e
            /\ l.group # NoGroup => SharedHashSlot({d, LeaseKey(Encoder(a), d)})

(* Different key material, namespaces or generations never share a         *)
(* physical key, neither within a Binding that is served nor with any that *)
(* may run beside or after it; a lease key is no data key and guards one   *)
(* data key; the lease of a grouped key is in the group's hash slot.       *)
KeysApart == Serving # {} => AllApart

AllFit ==
    \A b \in {Bindings[n] : n \in Accepted} : \A m \in {x \in Materials(b) : x.group = NoGroup} :
        LET key == Encode(Encoder(b), m)
        IN  Fits(Encoder(b), key) /\ Fits(Encoder(b), LeaseKey(Encoder(b), key))

(* maxKeyBytes may be as low as 96, generations as high as 2^31 - 1: the   *)
(* data keys and lease keys of the cache operations fit all the same.      *)
KeysFit == Serving # {} => AllFit

(* The start-up checks leave effective_ttl_ms nothing to reject but what a *)
(* Resource's own numbers cause: if these are not below the deployment's   *)
(* minimum TTL, values and cached Nones can be put with no TTL requested.  *)
AcceptedIsWritable ==
    \A s \in {Bindings[n].settings : n \in Serving} :
    \A p \in {s.resources[x] : x \in DOMAIN s.resources} :
        (\A n \in {p.default, p.staleness} \ {None} : n >= s.ttl.minimum)
            => \A negative \in BOOLEAN : EffectiveTtlMs(s, p, None, negative) # None

(* The Sentinels a client is given are distinct addresses, so the number   *)
(* of others each has to know of counts real ones: the uniqueness test on  *)
(* host, port and scheme and the scheme test together see to it.           *)
SentinelsDistinct ==
    \A b \in {Bindings[n] : n \in Serving} :
        Cardinality(ToSet(SentinelAddresses(b))) = MinOtherSentinels(b) + 1
=============================================================================
