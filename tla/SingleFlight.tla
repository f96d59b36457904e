---------------------------- MODULE SingleFlight ----------------------------
(***************************************************************************)
(* ValkeyCache.get_or_load on one logical key: callers look the key up,    *)
(* compete for a lease, the winner loads from the authority, populates the *)
(* cache and releases the lease, the losers poll and finally load for      *)
(* themselves.  Every engine command is one atomic step of the engine;     *)
(* everything between two commands (reading a clock, decoding, the loader) *)
(* is a step of its own, so callers interleave as threads and processes    *)
(* do.  A command can fail at the client without having been executed, or  *)
(* fail at the client (socket timeout) and still be executed, at any later *)
(* time.  The client library never retries a command by itself.            *)
(*                                                                         *)
(* The engine may restart empty, evict either key, fail over to a replica  *)
(* that lags, or hold damaged bytes.                                       *)
(***************************************************************************)
EXTENDS Envelope, FiniteSets

CONSTANTS
    Procs,      \* concurrent callers (threads, processes, hosts)
    LeaseMs,    \* singleFlight.leaseMs
    WaitMs,     \* singleFlight.waitMs
    PollMs,     \* singleFlight.pollMs
    Skew,       \* Skew[p]: how far p's wall clock runs ahead of the engine's
    MaxSkew,    \* bound of Skew
    Faults,     \* which faults of the environment may happen
    MaxCalls,   \* bound: get_or_load calls of each caller
    MaxWrites,  \* bound: writes of the authority
    MaxTime,    \* bound: time up to which calls begin and the clock runs freely
    MaxLate     \* bound: abandoned commands still on their way at once

FaultKinds == {"drop", "late", "restart", "evict", "failover", "damage",
               "loader", "encode"}

ASSUME LeaseAssumption ==
    /\ LeaseMs \in Nat \ {0}
    /\ WaitMs \in Nat
    /\ PollMs \in Nat \ {0}
    /\ WaitMs <= LeaseMs

ASSUME SkewAssumption == MaxSkew \in Nat /\ Skew \in [Procs -> 0 .. MaxSkew]

ASSUME BoundAssumption ==
    /\ Faults \subseteq FaultKinds
    /\ MaxCalls \in Nat /\ MaxWrites \in Nat /\ MaxTime \in Nat /\ MaxLate \in Nat

VARIABLES
    now,      \* engine time in ms; also every caller's monotonic clock
    auth,     \* version counter of the authoritative value
    entry,    \* engine: the cache key, [env, px]; px = 0 when absent
    lease,    \* engine: the lease key, [tok, px]; px = 0 when absent
    scripts,  \* engine: the release script is in the script cache
    late,     \* commands whose caller saw an error, not executed yet
    replica,  \* the replica's copy of entry and lease
    pc,       \* control point of each caller
    loc,      \* local variables of each caller's call in progress
    calls,    \* number of calls each caller has begun
    res,      \* outcome of each caller's latest call
    loose     \* ghost: the caller that set lease.tok cannot know it is set

engineVars == <<entry, lease, scripts, late, replica>>
vars == <<now, auth, entry, lease, scripts, late, replica, pc, loc, calls, res, loose>>

(* A fresh secrets.token_bytes(32) per call: never repeated. *)
Token(p) == <<p, calls[p]>>

NoToken == <<>>
Tokens  == Procs \X Nat

NoEntry == [env |-> NoEnvelope, px |-> 0]
NoLease == [tok |-> NoToken, px |-> 0]

(* role: "caller" until the lease is decided, then "leader" or "waiter";   *)
(* buf: the envelope in hand, fetched or being written; deadline, wake: a  *)
(* waiter's timers; until: ghost, up to when the engine holds the lease    *)
(* for this leader (0 once the engine itself lost it).                     *)
NoLocals == [role |-> "caller", buf |-> NoEnvelope, deadline |-> 0,
             wake |-> 0, until |-> 0]

Locals == [role : {"caller", "leader", "waiter"}, buf : EnvelopeType,
           deadline : Nat, wake : Nat, until : Nat]

Entries == [env : EnvelopeType, px : Nat]
Leases  == [tok : Tokens \cup {NoToken}, px : Nat]

LeaderPcs == {"load", "encode", "set", "verify", "release", "reload", "rerelease"}
Pcs == LeaderPcs \cup {"idle", "get", "decode", "discard", "acquire",
                       "degraded", "contend", "wait", "sleep"}

ResultKinds == {"none", "hit", "loaded", "degraded", "raised", "expired"}

(* p's wall clock, the one envelopes are stamped and judged with. *)
Clock(p) == now + Skew[p]

(* p is between a granted lease and the end of its finally block. *)
Leading(p) == loc[p].role = "leader" /\ pc[p] \in LeaderPcs

-----------------------------------------------------------------------------
(* Engine commands.  A command that reaches the engine is executed         *)
(* atomically, whether its caller still waits for the answer or not.       *)

SetCommand(e)      == [op |-> "set", env |-> e, tok |-> NoToken]
DeleteCommand      == [op |-> "del", env |-> NoEnvelope, tok |-> NoToken]
AcquireCommand(t)  == [op |-> "acquire", env |-> NoEnvelope, tok |-> t]
ReleaseCommand(t)  == [op |-> "release", env |-> NoEnvelope, tok |-> t]

Commands == [op : {"set", "del", "acquire", "release"},
             env : EnvelopeType, tok : Tokens \cup {NoToken}]

(* put gives SET the TTL the envelope was encoded with. *)
PxOf(e) == e.expires - e.created

(* When the engine drops the entry; 0 would mean never. *)
EntryExpiryMissing(e) == 0

EntryExpiry(e) == now + PxOf(e)

(* SET key envelope PX ttl, and DEL key. *)
EntryAfter(c) ==
    CASE c.op = "set" -> [env |-> c.env, px |-> EntryExpiry(c.env)]
      [] c.op = "del" -> NoEntry
      [] OTHER        -> entry

(* RELEASE_LEASE_SCRIPT deletes the lease only while it holds the token. *)
Releasable(t) == lease # NoLease /\ lease.tok = t

(* SET lease token NX PX lease_ms, and the release script. *)
LeaseGrantedAlways == TRUE

LeaseGranted == lease = NoLease

(* When the lease runs out; 0 would mean never. *)
LeaseExpiryMissing == 0

LeaseExpiry == now + LeaseMs

LeaseAfter(c) ==
    CASE c.op = "acquire" /\ LeaseGranted -> [tok |-> c.tok, px |-> LeaseExpiry]
      [] c.op = "release" /\ scripts /\ Releasable(c.tok) -> NoLease
      [] OTHER -> lease

(* The command is executed and its answer arrives. *)
Executes(c) ==
    /\ entry' = EntryAfter(c)
    /\ lease' = LeaseAfter(c)
    /\ UNCHANGED <<scripts, late, replica>>

(* The caller sees a ValkeyError; the command is not, or not yet, executed. *)
Fails(c) ==
    /\ \/ "drop" \in Faults /\ late' = late
       \/ "late" \in Faults /\ Cardinality(late) < MaxLate /\ late' = late \cup {c}
    /\ UNCHANGED <<entry, lease, scripts, replica>>

-----------------------------------------------------------------------------
(* Control. *)

(* p goes on at l with locals r; a call that ends has none. *)
Move(p, l, r) ==
    /\ pc' = [pc EXCEPT ![p] = l]
    /\ loc' = [loc EXCEPT ![p] = IF l = "idle" THEN NoLocals ELSE r]

Outcome(p, k) == res' = [res EXCEPT ![p] = k]

(* A lookup that found nothing usable: the first one goes for the lease,   *)
(* a waiter's goes back to the deadline test.                              *)
Miss(p) == Move(p, IF loc[p].role = "caller" THEN "acquire" ELSE "wait",
                [loc[p] EXCEPT !.buf = NoEnvelope])

(* The call's outcome k is decided: a leader still runs its finally block. *)
ConcludeNoFinally(p, k) == Outcome(p, k) /\ Move(p, "idle", loc[p])

Conclude(p, k) ==
    /\ Outcome(p, k)
    /\ Move(p, IF loc[p].role = "leader" THEN "release" ELSE "idle",
            [loc[p] EXCEPT !.buf = NoEnvelope])

Start(p) ==
    /\ pc[p] = "idle" /\ calls[p] < MaxCalls /\ now <= MaxTime
    /\ calls' = [calls EXCEPT ![p] = @ + 1]
    /\ Outcome(p, "none")
    /\ Move(p, "get", NoLocals)
    /\ UNCHANGED <<now, auth, engineVars, loose>>

(* lookup: GET key. *)
Get(p) ==
    /\ pc[p] = "get"
    /\ \/ entry = NoEntry /\ Miss(p)
       \/ entry # NoEntry /\ Move(p, "decode", [loc[p] EXCEPT !.buf = entry.env])
    /\ UNCHANGED <<now, auth, engineVars, calls, res, loose>>

(* The first lookup degrades to the loader, a waiter's ends its wait. *)
GetFailsEscapes(p) ==
    /\ pc[p] = "get" /\ Faults \cap {"drop", "late"} # {}
    /\ Conclude(p, "ValkeyError")
    /\ UNCHANGED <<now, auth, engineVars, calls, loose>>

GetFails(p) ==
    /\ pc[p] = "get" /\ Faults \cap {"drop", "late"} # {}
    /\ Move(p, IF loc[p].role = "caller" THEN "degraded" ELSE "load", loc[p])
    /\ UNCHANGED <<now, auth, engineVars, calls, res, loose>>

(* lookup: decode under the reader's clock; anything invalid is discarded. *)
Decode(p) ==
    /\ pc[p] = "decode"
    /\ \/ Decodes(loc[p].buf, Clock(p)) /\ Outcome(p, "hit") /\ Move(p, "idle", loc[p])
       \/ ~ Decodes(loc[p].buf, Clock(p)) /\ Move(p, "discard", loc[p]) /\ UNCHANGED res
    /\ UNCHANGED <<now, auth, engineVars, calls, loose>>

(* _best_effort_delete: an error is counted and swallowed. *)
Discard(p) ==
    /\ pc[p] = "discard"
    /\ Executes(DeleteCommand) \/ Fails(DeleteCommand)
    /\ Miss(p)
    /\ UNCHANGED <<now, auth, calls, res, loose>>

(* acquire_lease: SET lease_key token NX PX lease_ms. *)
Acquire(p) ==
    /\ pc[p] = "acquire"
    /\ Executes(AcquireCommand(Token(p)))
    /\ \/ /\ LeaseGranted
          /\ Move(p, "load", [loc[p] EXCEPT !.role = "leader", !.until = now + LeaseMs])
          /\ loose' = FALSE
       \/ /\ ~ LeaseGranted
          /\ Move(p, "contend", [loc[p] EXCEPT !.role = "waiter"])
          /\ UNCHANGED loose
    /\ UNCHANGED <<now, auth, calls, res>>

AcquireFails(p) ==
    /\ pc[p] = "acquire"
    /\ Fails(AcquireCommand(Token(p)))
    /\ Move(p, "degraded", loc[p])
    /\ UNCHANGED <<now, auth, calls, res, loose>>

(* Engine unavailable: load and return without touching the cache. *)
LoadDegraded(p) ==
    /\ pc[p] = "degraded"
    /\ Conclude(p, "degraded")
    /\ UNCHANGED <<now, auth, engineVars, calls, loose>>

(* A None is returned uncached unless the Resource caches negatives. *)
CacheableAlways(v) == TRUE

Cacheable(v) == ~ Negative(v) \/ NegativeCaching

(* loader(), as leader or as a waiter that gave up. *)
Load(p) ==
    /\ pc[p] = "load"
    /\ \/ /\ Cacheable(auth)
          /\ Move(p, "encode", [loc[p] EXCEPT !.buf = Unencoded(auth)])
          /\ UNCHANGED res
       \/ ~ Cacheable(auth) /\ Conclude(p, "loaded")
    /\ UNCHANGED <<now, auth, engineVars, calls, loose>>

(* The loader raises; a leader releases its lease on the way out. *)
LoadRaises(p) ==
    /\ pc[p] \in {"load", "degraded"} /\ "loader" \in Faults
    /\ Conclude(p, "raised")
    /\ UNCHANGED <<now, auth, engineVars, calls, loose>>

(* put: effective TTL and encode, stamped with the writer's clock; the     *)
(* source version only passes through.                                     *)
EncodedBy(p, v) == Encoded(v, 0, EffectiveTtl(v), Clock(p), now)

Encode(p) ==
    /\ pc[p] = "encode"
    /\ Move(p, "set", [loc[p] EXCEPT !.buf = EncodedBy(p, @.val)])
    /\ UNCHANGED <<now, auth, engineVars, calls, res, loose>>

(* put raises before any command: TTL below the minimum, envelope too      *)
(* large, value and serializer disagree.                                   *)
EncodeRaises(p) ==
    /\ pc[p] = "encode" /\ "encode" \in Faults
    /\ Conclude(p, "raised")
    /\ UNCHANGED <<now, auth, engineVars, calls, loose>>

(* put: SET key envelope PX ttl. *)
Set(p) ==
    /\ pc[p] = "set"
    /\ Executes(SetCommand(loc[p].buf))
    /\ Move(p, "verify", loc[p])
    /\ UNCHANGED <<now, auth, calls, res, loose>>

SetFails(p) ==
    /\ pc[p] = "set"
    /\ Fails(SetCommand(loc[p].buf))
    /\ Conclude(p, "degraded")
    /\ UNCHANGED <<now, auth, calls, loose>>

(* put ends by decoding the envelope it wrote; by then it may have expired, *)
(* and EnvelopeExpiredError is not a ValkeyError.                           *)
Verify(p) ==
    /\ pc[p] = "verify"
    /\ Conclude(p, IF Decodes(loc[p].buf, Clock(p)) THEN "loaded" ELSE "expired")
    /\ UNCHANGED <<now, auth, engineVars, calls, loose>>

(* release_lease through _eval_script: EVALSHA, and after NOSCRIPT once    *)
(* SCRIPT LOAD and EVALSHA again.                                          *)
Release(p) ==
    /\ pc[p] \in {"release", "rerelease"} /\ scripts
    /\ Executes(ReleaseCommand(Token(p)))
    /\ Move(p, "idle", loc[p])
    /\ UNCHANGED <<now, auth, calls, res, loose>>

ReleaseNoScriptLoops(p) ==
    /\ pc[p] \in {"release", "rerelease"} /\ ~ scripts
    /\ Move(p, "reload", loc[p])
    /\ UNCHANGED <<now, auth, engineVars, calls, res, loose>>

ReleaseNoScript(p) ==
    /\ pc[p] = "release" /\ ~ scripts
    /\ Move(p, "reload", loc[p])
    /\ UNCHANGED <<now, auth, engineVars, calls, res, loose>>

ReloadScript(p) ==
    /\ pc[p] = "reload"
    /\ scripts' = TRUE
    /\ Move(p, "rerelease", loc[p])
    /\ UNCHANGED <<now, auth, entry, lease, late, replica, calls, res, loose>>

(* Any ValkeyError of the release is swallowed: an error of EVALSHA, of    *)
(* SCRIPT LOAD, or a second NOSCRIPT.  The lease is left to its PX.        *)
ReleaseFails(p) ==
    /\ \/ pc[p] \in {"release", "rerelease"} /\ Fails(ReleaseCommand(Token(p)))
       \/ /\ pc[p] = "reload" /\ Faults \cap {"drop", "late"} # {}
          /\ scripts' \in {scripts, TRUE}
          /\ UNCHANGED <<entry, lease, late, replica>>
       \/ pc[p] = "rerelease" /\ ~ scripts /\ UNCHANGED engineVars
    /\ loose' = (loose \/ lease.tok = Token(p))
    /\ Move(p, "idle", loc[p])
    /\ UNCHANGED <<now, auth, calls, res>>

(* deadline = monotonic() + wait_ms *)
Contend(p) ==
    /\ pc[p] = "contend"
    /\ Move(p, "wait", [loc[p] EXCEPT !.deadline = now + WaitMs])
    /\ UNCHANGED <<now, auth, engineVars, calls, res, loose>>

(* while monotonic() < deadline: sleep(poll_ms) *)
Wait(p) ==
    /\ pc[p] = "wait" /\ now < loc[p].deadline
    /\ Move(p, "sleep", [loc[p] EXCEPT !.wake = now + PollMs])
    /\ UNCHANGED <<now, auth, engineVars, calls, res, loose>>

Wake(p) ==
    /\ pc[p] = "sleep" /\ now >= loc[p].wake
    /\ Move(p, "get", loc[p])
    /\ UNCHANGED <<now, auth, engineVars, calls, res, loose>>

(* The wait is over: a duplicate load, without the lease. *)
GiveUp(p) ==
    /\ pc[p] = "wait" /\ now >= loc[p].deadline
    /\ Move(p, "load", loc[p])
    /\ UNCHANGED <<now, auth, engineVars, calls, res, loose>>

-----------------------------------------------------------------------------
(* Environment. *)

(* The authoritative value changes. *)
AuthorityWrite ==
    /\ auth < MaxWrites
    /\ auth' = auth + 1
    /\ UNCHANGED <<now, engineVars, pc, loc, calls, res, loose>>

(* Time passes, and the engine drops the keys whose PX is over.  Beyond    *)
(* MaxTime it passes only while a timer is pending; the entry's counts     *)
(* once all calls are over.                                                *)
TimerPending == \/ lease.px > now
                \/ entry.px > now /\ \A p \in Procs : pc[p] = "idle"
                \/ \E p \in Procs : pc[p] = "sleep" /\ loc[p].wake > now

(* A key without PX (px = 0) never expires. *)
ExpireKey(k, none, t) == IF k.px # 0 /\ k.px <= t THEN none ELSE k

Tick ==
    /\ now < MaxTime \/ TimerPending
    /\ now' = now + 1
    /\ entry' = ExpireKey(entry, NoEntry, now + 1)
    /\ lease' = ExpireKey(lease, NoLease, now + 1)
    /\ UNCHANGED <<auth, scripts, late, replica, pc, loc, calls, res, loose>>

(* A command its caller gave up on is executed after all. *)
LateArrives ==
    /\ \E c \in late :
          /\ entry' = EntryAfter(c)
          /\ lease' = LeaseAfter(c)
          /\ late' = late \ {c}
          /\ loose' = (loose \/ (c.op = "acquire" /\ LeaseGranted))
    /\ UNCHANGED <<now, auth, scripts, replica, pc, loc, calls, res>>

(* The engine lost or replaced the lease key: no leader may rely on it. *)
LeaseLost == loc' = [p \in Procs |-> [loc[p] EXCEPT !.until = 0]]

(* Persistence is off by policy, so a restarted engine is empty. *)
Restart ==
    /\ "restart" \in Faults
    /\ entry' = NoEntry /\ lease' = NoLease /\ scripts' = FALSE
    /\ LeaseLost
    /\ UNCHANGED <<now, auth, late, replica, pc, calls, res, loose>>

(* maxmemory eviction may take either key. *)
EvictEntry ==
    /\ "evict" \in Faults /\ entry # NoEntry
    /\ entry' = NoEntry
    /\ UNCHANGED <<now, auth, lease, scripts, late, replica, pc, loc, calls, res, loose>>

EvictLease ==
    /\ "evict" \in Faults /\ lease # NoLease
    /\ lease' = NoLease
    /\ LeaseLost
    /\ UNCHANGED <<now, auth, entry, scripts, late, replica, pc, calls, res, loose>>

(* The stored bytes no longer verify: bit rot, a foreign type or schema. *)
Damage ==
    /\ "damage" \in Faults /\ entry # NoEntry
    /\ entry' = [entry EXCEPT !.env.frame = "damaged"]
    /\ UNCHANGED <<now, auth, lease, scripts, late, replica, pc, loc, calls, res, loose>>

(* Replication is asynchronous; a promoted replica has an empty script     *)
(* cache and may bring a deleted entry or lease back.                      *)
Replicate ==
    /\ "failover" \in Faults
    /\ replica' = [entry |-> entry, lease |-> lease]
    /\ UNCHANGED <<now, auth, entry, lease, scripts, late, pc, loc, calls, res, loose>>

Failover ==
    /\ "failover" \in Faults
    /\ entry' = ExpireKey(replica.entry, NoEntry, now)
    /\ lease' = ExpireKey(replica.lease, NoLease, now)
    /\ scripts' = FALSE
    /\ LeaseLost
    /\ loose' = TRUE
    /\ UNCHANGED <<now, auth, late, replica, pc, calls, res>>

(* Every call is over and no more will begin. *)
Finished ==
    /\ \A p \in Procs : pc[p] = "idle" /\ (calls[p] = MaxCalls \/ now > MaxTime)
    /\ UNCHANGED vars

-----------------------------------------------------------------------------
Init ==
    /\ now = 0 /\ auth = 0
    /\ entry = NoEntry /\ lease = NoLease
    /\ scripts \in BOOLEAN
    /\ late = {}
    /\ replica = [entry |-> NoEntry, lease |-> NoLease]
    /\ pc = [p \in Procs |-> "idle"]
    /\ loc = [p \in Procs |-> NoLocals]
    /\ calls = [p \in Procs |-> 0]
    /\ res = [p \in Procs |-> "none"]
    /\ loose = FALSE

(* A call, once begun: every step of it that needs no failure. *)
Step(p) ==
    \/ Get(p) \/ Decode(p) \/ Discard(p) \/ Acquire(p)
    \/ LoadDegraded(p) \/ Load(p) \/ Encode(p) \/ Set(p) \/ Verify(p)
    \/ Release(p) \/ ReleaseNoScript(p) \/ ReloadScript(p)
    \/ Contend(p) \/ Wait(p) \/ Wake(p) \/ GiveUp(p)

Failure(p) ==
    \/ GetFails(p) \/ AcquireFails(p) \/ LoadRaises(p) \/ EncodeRaises(p)
    \/ SetFails(p) \/ ReleaseFails(p)

Environment ==
    \/ AuthorityWrite \/ Tick \/ LateArrives \/ Restart \/ EvictEntry
    \/ EvictLease \/ Damage \/ Replicate \/ Failover

Next ==
    \/ \E p \in Procs : Start(p) \/ Step(p) \/ Failure(p)
    \/ Environment
    \/ Finished

Spec == Init /\ [][Next]_vars

(* Threads are scheduled, commands answer or time out (socket_timeout),    *)
(* loaders return or raise, and time passes.                               *)
Fairness ==
    /\ \A p \in Procs : WF_vars(Step(p) \/ Failure(p))
    /\ WF_vars(Tick)

FairSpec == Spec /\ Fairness

-----------------------------------------------------------------------------
(* Every variable keeps its type: the control points, results and roles    *)
(* of get_or_load and the shapes of the engine's keys.                     *)
TypeOK ==
    /\ now \in Nat /\ auth \in Nat
    /\ entry \in Entries /\ lease \in Leases
    /\ scripts \in BOOLEAN
    /\ late \subseteq Commands
    /\ replica \in [entry : Entries, lease : Leases]
    /\ pc \in [Procs -> Pcs]
    /\ loc \in [Procs -> Locals]
    /\ calls \in [Procs -> Nat]
    /\ res \in [Procs -> ResultKinds]
    /\ loose \in BOOLEAN

(* p may rely on its lease: granted, not run out, not lost by the engine. *)
HasLease(p) == Leading(p) /\ now < loc[p].until

(* While a leader of get_or_load is within lease_ms of its grant, nobody   *)
(* else is: neither a failed release of an earlier call, executed late,    *)
(* nor an abandoned SET NX opens the lease to a second leader.             *)
LeaderExclusion ==
    \A p, q \in Procs : HasLease(p) /\ HasLease(q) => p = q

(* Every exit of get_or_load's leader branch (uncached None, loader or put *)
(* raising, an expired own envelope) passes its finally block: a lease key *)
(* always belongs to a leader still at work, unless the command that set   *)
(* or should have removed it failed at its caller, or a failover brought   *)
(* it back.                                                                *)
NoOrphanLease ==
    lease # NoLease =>
        \/ loose
        \/ \E p \in Procs : Leading(p) /\ lease.tok = Token(p)

(* A hit is never older than the value's effective TTL (the negative TTL   *)
(* for a None) plus the clocks' disagreement, whenever its SET reached the *)
(* engine, and never comes from bytes that do not verify: lookup relies on *)
(* the envelope's own expiry, not on the engine's PX.                      *)
HitsAreValid ==
    [][\A p \in Procs :
         res'[p] = "hit" /\ res[p] # "hit" =>
            LET e == loc[p].buf
            IN  e.frame = "intact" /\ now < e.at + EffectiveTtl(e.val) + MaxSkew]_vars

(* A None is in the cache, on its way there or on the replica only for a   *)
(* Resource that caches negatives, and then with the negative TTL, from    *)
(* the leader's put and from the duplicate load's alike.                   *)
NegativeOptIn ==
    \A e \in {entry.env, replica.entry.env} \cup {c.env : c \in late} :
        e # NoEnvelope /\ Negative(e.val) =>
            NegativeCaching /\ e.expires - e.created <= NegativeTtl

(* Every get_or_load call ends: waiting is bounded by wait_ms and one      *)
(* poll, whatever fails.                                                   *)
CallsReturn == \A p \in Procs : []<>(pc[p] = "idle")

(* Each lease goes away, also when its release failed or it was set by a   *)
(* command whose caller had given up: the mandatory PX frees it, so the    *)
(* next caller always gets its turn.                                       *)
LeaseFreed == []<>(lease = NoLease)

(* Nothing fences put: a leader slower than its lease, or a SET its caller *)
(* gave up on, may overwrite a newer value.  The mandatory PX makes that   *)
(* temporary: once the authority rests the cache holds its value or none.  *)
StaleDiesOut == <>[](entry = NoEntry \/ entry.env.val = auth)

(* What tests/real_cache_contract.py asserts of a stampede, here before    *)
(* any timer can run out: concurrent callers that find the key absent make *)
(* one load between them.                                                  *)
StampedeLoadsOnce ==
    now = 0 => Cardinality({p \in Procs : res[p] = "loaded"}) <= 1

(* What get_or_load's docstring says: it returns a hit or a loaded value,  *)
(* so a call whose loader answered never ends in EnvelopeExpiredError.     *)
SafeLoad == \A p \in Procs : res[p] # "expired"
=============================================================================
