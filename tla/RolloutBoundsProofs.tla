------------------------- MODULE RolloutBoundsProofs -------------------------
(***************************************************************************)
(* More proofs about Rollout, for any replicas, Bindings, requests, engine *)
(* and bounds: types and the batch bound, TTLs, the ages of hits, and what *)
(* start-up grants the Bindings that are served.                           *)
(***************************************************************************)
EXTENDS RolloutProofs, DeploymentProofs

Places == {"idle", "set", "del", "mget", "decode", "clean", "return"}

(* Entry e, at time t, has a TTL within the bounds it was put under, and   *)
(* its stamp is not further ahead of its put than clocks may be.           *)
Bounded(e, t) ==
    LET s         == Bindings[e.by].settings
        ttl       == e.expires - e.created
        staleness == s.resources[e.owner[3]].staleness
    IN  /\ e.created \in Int /\ e.expires \in Int /\ e.px \in Int
        /\ e.at \in Int /\ e.created <= e.at + MaxSkew
        /\ staleness \in Int /\ s.ttl.maximum \in Int
        /\ ttl >= 1 /\ ttl \in s.ttl.minimum .. s.ttl.maximum
        /\ staleness # None => ttl <= staleness
        /\ e.px <= t + ttl

StoreBounded(s, t) == \A k \in DOMAIN s : Bounded(s[k], t) /\ s[k].px > t

LateBounded(z, t) == \A x \in z : x.entry # NoEntry => Bounded(x.entry, t)

EntriesBounded(v, t) ==
    /\ v.new # NoEntry => Bounded(v.new, t)
    /\ \A j \in DOMAIN v.raw : v.raw[j] # NoEntry => Bounded(v.raw[j], t)

(* Locals v of a replica that runs Binding n and is at l: its request was  *)
(* not refused, and results come in one by one.                            *)
RequestAt(n, l, v) ==
    /\ l \in Places
    /\ l = "idle" => v = NoLocals
    /\ l # "idle" => /\ n \in Accepted /\ v.req \in Requests
                     /\ v.req.resource \in DOMAIN Bindings[n].settings.resources
    /\ l = "mget" => Len(v.req.keys) \in 1 .. Bindings[n].settings.limits.maxBatchSize
    /\ l \in {"set", "del", "mget"} => v.i = 1 /\ v.raw = <<>> /\ v.got = <<>>
    /\ l \in {"decode", "clean"} => v.i \in 1 .. Len(v.req.keys)
    /\ l = "return" => v.i = Len(v.req.keys) + 1
    /\ l \in {"decode", "clean", "return"} =>
          DOMAIN v.raw = 1 .. Len(v.req.keys) /\ DOMAIN v.got = 1 .. Len(v.req.keys)
    /\ \A j \in DOMAIN v.got : v.got[j] # NoEntry => j < v.i

CountersOK ==
    /\ now \in Nat /\ changes \in Nat /\ damaged \in Nat
    /\ ops \in 0 .. MaxOps

BoundsInv ==
    /\ CountersOK
    /\ proc \in [Replicas -> Accepted \cup {"down"}]
    /\ StoreBounded(store, now) /\ LateBounded(late, now)
    /\ \A r \in Replicas : RequestAt(proc[r], pc[r], loc[r]) /\ EntriesBounded(loc[r], now)

Inv == PlacedInv /\ BoundsInv

-----------------------------------------------------------------------------
(* What start-up grants. *)

(* The settings of a Binding that starts. *)
LEMMA AcceptedSettings ==
    ASSUME NEW n \in Accepted
    PROVE  LET s == Bindings[n].settings
           IN  /\ \A x \in DOMAIN s.resources : PolicyOK(s.resources[x])
               /\ LimitsOK(s.limits) /\ TtlOK(s.ttl)
<1>1. StartError(Bindings[n], Engine) = "none"
  BY DEF Accepted
<1>2. FirstError(SettingsChecks(Bindings[n].settings)) = "none"
  BY <1>1, StartGrants
<1> QED
  BY <1>2, SettingsGrant

(* What a request that is not refused satisfies. *)
LEMMA NotRefused ==
    ASSUME NEW b, NEW q, Refusal(b, q) = "none"
    PROVE  /\ q.resource \in DOMAIN b.settings.resources
           /\ q.kind = "batch" => BatchOK(b, q)
           /\ q.kind = "put" => TtlOf(b, q) # None
<1> DEFINE placed == q.resource \in DOMAIN b.settings.resources
           c1 == Check("value", q.kind = "batch" => BatchOK(b, q))
           c2 == Check("placement", placed)
           c3 == Check("value", BadKey \notin ToSet(q.keys))
           c4 == Check("value", placed => \A k \in ToSet(q.keys) :
                                              Fits(Encoder(b), PhysicalKey(b, q, k)))
           c5 == Check("config", placed /\ q.kind = "put" => TtlOf(b, q) # None)
           c6 == Check("size", q.kind = "put" => q.size <= b.settings.limits.maxValueBytes)
           c == <<c1, c2, c3, c4, c5, c6>>
<1>1. FirstError(c) = "none"
  BY DEF Refusal
<1>2. c1 = "none" /\ c2 = "none" /\ c5 = "none"
  <2> HIDE DEF c1, c2, c3, c4, c5, c6
  <2>1. DOMAIN c = 1 .. 6
    OBVIOUS
  <2>2. c[1] = "none" /\ c[2] = "none" /\ c[5] = "none"
    BY <1>1, <2>1, NoError
  <2> QED
    BY <2>2
<1> QED
  BY <1>2 DEF Check

(* A replica's clock is ahead of the engine's by at most MaxSkew. *)
LEMMA ClockBounded ==
    ASSUME now \in Nat, NEW r \in Replicas
    PROVE  Clock(r) \in Nat /\ now <= Clock(r) /\ Clock(r) <= now + MaxSkew
BY SkewAssumption DEF Clock

(* The entry of a put that is not refused keeps its bounds. *)
LEMMA NewEntryBounded ==
    ASSUME CountersOK, NEW r \in Replicas, proc[r] \in Accepted, NEW q \in Requests, q.kind = "put",
           Refusal(Running(r), q) = "none"
    PROVE  Bounded(NewEntry(r, q), now)
<1> DEFINE b == Bindings[proc[r]]
           s == b.settings
           p == s.resources[q.resource]
           negative == q.negative /\ p.negative
           ttl == EffectiveTtlMs(s, p, q.ttl, negative)
           e == NewEntry(r, q)
<1>1. q.resource \in DOMAIN s.resources /\ TtlOf(b, q) # None
  BY NotRefused DEF Running
<1>2. TtlOf(b, q) = ttl
  BY DEF TtlOf, Policy
<1>3. TtlOK(s.ttl) /\ PolicyOK(p) /\ q.ttl \in Int
  BY <1>1, AcceptedSettings, RolloutAssumption
<1>4. /\ ttl \in s.ttl.minimum .. s.ttl.maximum /\ ttl >= 1
      /\ p.staleness # None => ttl <= p.staleness
      /\ s.ttl.minimum \in Nat /\ s.ttl.maximum \in Nat /\ p.staleness \in Nat
  <2> HIDE DEF negative, s, p
  <2>1. p.staleness \in Nat
    BY <1>3 DEF PolicyOK, Optional, None
  <2> QED
    BY <1>1, <1>2, <1>3, <2>1, EffectiveTtlBounded, TtlNumbers
<1>5. /\ e.created = Clock(r) /\ e.expires = Clock(r) + TtlOf(b, q) /\ e.px = 0
      /\ e.at = now /\ e.by = proc[r] /\ e.owner[3] = q.resource
  BY DEF NewEntry, Owner, Running
<1> HIDE DEF e, ttl, negative
<1>6. /\ now \in Nat /\ ttl \in Nat
      /\ MaxSkew \in Nat /\ Clock(r) \in Nat /\ Clock(r) <= now + MaxSkew
  BY <1>4, ClockBounded, SkewAssumption DEF CountersOK
<1>7. e.expires - e.created = ttl /\ e.created \in Int /\ e.expires \in Int
  BY <1>2, <1>5, <1>6
<1>8. Bounded(e, now)
  BY <1>4, <1>5, <1>6, <1>7 DEF Bounded
<1> QED
  BY <1>8 DEF e

-----------------------------------------------------------------------------
(* Entries and commands. *)

(* Bounds hold on as time passes. *)
LEMMA BoundedLater ==
    ASSUME NEW e, NEW t \in Int, NEW u \in Int, t <= u, Bounded(e, t)
    PROVE  Bounded(e, u)
BY DEF Bounded

(* The engine gives an entry its TTL from now on. *)
LEMMA SetBounded ==
    ASSUME NEW e, EntryShape(e), NEW t \in Int, Bounded(e, t)
    PROVE  LET f == [e EXCEPT !.px = t + e.expires - e.created]
           IN  Bounded(f, t) /\ f.px > t
<1> DEFINE p == t + e.expires - e.created
           f == [e EXCEPT !.px = p]
<1>1. p \in Int /\ p = t + (e.expires - e.created) /\ p > t
  BY DEF Bounded
<1> HIDE DEF p
<1>2. /\ f.px = p /\ f.created = e.created /\ f.expires = e.expires /\ f.at = e.at
      /\ f.by = e.by /\ f.owner = e.owner
  BY DEF EntryShape
<1> HIDE DEF f
<1>3. Bounded(f, t)
  BY <1>1, <1>2 DEF Bounded
<1> QED
  BY <1>1, <1>2, <1>3 DEF f, p

(* A command leaves the store bounded. *)
LEMMA AfterBounded ==
    ASSUME NEW x, CommandOK(x), StoreBounded(store, now), now \in Nat,
           x.entry # NoEntry => Bounded(x.entry, now)
    PROVE  StoreBounded(After(x), now)
<1>1. CASE x.entry = NoEntry
  BY <1>1 DEF StoreBounded, After
<1>2. CASE x.entry # NoEntry
  <2> DEFINE f == [x.entry EXCEPT !.px = now + x.entry.expires - x.entry.created]
  <2>1. Bounded(f, now) /\ f.px > now
    BY <1>2, SetBounded DEF CommandOK, Placed
  <2>2. After(x) = [k \in DOMAIN store \cup {x.key} |-> IF k = x.key THEN f ELSE store[k]]
    BY <1>2 DEF After
  <2> HIDE DEF f
  <2> QED
    BY <2>1, <2>2 DEF StoreBounded
<1> QED
  BY <1>1, <1>2

(* A replica's command is in order, its entry bounded. *)
LEMMA PendingBounded ==
    ASSUME Inv, NEW r \in Replicas, NEW x \in Pending(r)
    PROVE  CommandOK(x) /\ (x.entry # NoEntry => Bounded(x.entry, now))
<1>1. CommandOK(x)
  BY PendingOK DEF Inv, PlacedInv
<1>2. x.entry = loc[r].new
  BY DEF Pending, Command
<1> QED
  BY <1>1, <1>2 DEF Inv, BoundsInv, EntriesBounded

(* So is what it leaves behind. *)
LEMMA AbandonBounded ==
    ASSUME Inv, NEW r \in Replicas, Abandon(r)
    PROVE  LateBounded(late', now)
<1>1. \A x \in Pending(r) : x.entry # NoEntry => Bounded(x.entry, now)
  BY PendingBounded
<1> QED
  BY <1>1 DEF Inv, BoundsInv, LateBounded, Abandon

-----------------------------------------------------------------------------
(* Steps. *)

(* One replica moves on, possibly under another Binding. *)
LEMMA MoveBounds ==
    ASSUME Inv, NEW r \in Replicas, NEW l, NEW v, Move(r, l, v), now' = now, CountersOK',
           proc' \in [Replicas -> Accepted \cup {"down"}],
           \A s \in Replicas \ {r} : proc'[s] = proc[s],
           StoreBounded(store', now), LateBounded(late', now),
           RequestAt(proc'[r], l, v), EntriesBounded(v, now)
    PROVE  BoundsInv'
<1>1. pc = [s \in Replicas |-> pc[s]] /\ loc = [s \in Replicas |-> loc[s]]
  BY DEF Inv, PlacedInv
<1>2. /\ pc'[r] = l /\ loc'[r] = v
      /\ \A s \in Replicas \ {r} : pc'[s] = pc[s] /\ loc'[s] = loc[s]
  BY <1>1 DEF Move
<1>3. ASSUME NEW s \in Replicas
      PROVE  RequestAt(proc'[s], pc'[s], loc'[s]) /\ EntriesBounded(loc'[s], now)
  <2>1. CASE s = r
    BY <1>2, <2>1
  <2>2. CASE s # r
    BY <1>2, <2>2 DEF Inv, BoundsInv
  <2> QED
    BY <2>1, <2>2
<1> QED
  BY <1>3 DEF BoundsInv

(* A replica moves on under the Binding it runs. *)
LEMMA StepBounds ==
    ASSUME Inv, NEW r \in Replicas, NEW l, NEW v, Move(r, l, v), UNCHANGED <<now, proc>>,
           CountersOK', StoreBounded(store', now), LateBounded(late', now),
           RequestAt(proc[r], l, v), EntriesBounded(v, now)
    PROVE  BoundsInv'
BY MoveBounds DEF Inv, BoundsInv

(* A request is over. *)
LEMMA IdleBounds ==
    ASSUME NEW n, NEW t
    PROVE  RequestAt(n, "idle", NoLocals) /\ EntriesBounded(NoLocals, t)
<1>1. NoLocals.new = NoEntry /\ NoLocals.raw = <<>> /\ NoLocals.got = <<>>
  BY DEF NoLocals
<1> QED
  BY <1>1 DEF RequestAt, EntriesBounded, Places

(* put, batch_lookup and delete up to their first command. *)
LEMMA BeginBounds ==
    ASSUME Inv, NEW r \in Replicas, Begin(r)
    PROVE  BoundsInv'
<1>1. /\ UNCHANGED <<now, changes, store, damaged, late, proc>> /\ ops' = ops + 1 /\ ops < MaxOps
      /\ proc[r] # "down"
  BY DEF Begin
<1>2. CountersOK'
  BY <1>1, RolloutAssumption DEF Inv, BoundsInv, CountersOK
<1>3. StoreBounded(store', now) /\ LateBounded(late', now) /\ CountersOK
      /\ proc[r] \in Accepted
  BY <1>1 DEF Inv, BoundsInv
<1>4. PICK q \in Requests :
         \/ UNCHANGED <<pc, loc>>
         \/ /\ Refusal(Running(r), q) = "none"
            /\ Move(r, FirstCommand[q.kind],
                    [NoLocals EXCEPT !.req = q,
                                     !.new = IF q.kind = "put" THEN NewEntry(r, q) ELSE @])
  BY DEF Begin
<1>5. CASE UNCHANGED <<pc, loc>>
  BY <1>1, <1>2, <1>3, <1>5 DEF Inv, BoundsInv
<1>6. CASE ~ UNCHANGED <<pc, loc>>
  <2> DEFINE new == IF q.kind = "put" THEN NewEntry(r, q) ELSE NoEntry
             v == [req |-> q, new |-> new, i |-> 1, raw |-> <<>>, got |-> <<>>]
  <2>0. [NoLocals EXCEPT !.req = q, !.new = IF q.kind = "put" THEN NewEntry(r, q) ELSE @] = v
    BY BeginLocals
  <2>1. Refusal(Running(r), q) = "none" /\ Move(r, FirstCommand[q.kind], v)
    BY <1>4, <1>6, <2>0
  <2>2. q.kind \in {"put", "batch", "delete"}
    BY RolloutAssumption
  <2>3. new # NoEntry => Bounded(new, now)
    BY <1>3, <2>1, NewEntryBounded
  <2>4. /\ q.resource \in DOMAIN Bindings[proc[r]].settings.resources
        /\ q.kind = "batch" => Len(q.keys) \in 1 .. Bindings[proc[r]].settings.limits.maxBatchSize
    BY <2>1, NotRefused DEF Running, BatchOK
  <2>5. /\ FirstCommand[q.kind] \in {"set", "mget", "del"}
        /\ FirstCommand[q.kind] = "mget" => q.kind = "batch"
    BY <2>2 DEF FirstCommand
  <2> HIDE DEF new
  <2>6. v.req = q /\ v.new = new /\ v.i = 1 /\ v.raw = <<>> /\ v.got = <<>>
    OBVIOUS
  <2> HIDE DEF v
  <2>7. RequestAt(proc[r], FirstCommand[q.kind], v)
    BY <1>3, <2>4, <2>5, <2>6 DEF RequestAt, Places
  <2>8. EntriesBounded(v, now)
    BY <2>3, <2>6 DEF EntriesBounded
  <2> QED
    BY <1>1, <1>2, <1>3, <2>1, <2>7, <2>8, StepBounds
<1> QED
  BY <1>5, <1>6

(* The SET of a put, the DEL of a delete. *)
LEMMA WriteBounds ==
    ASSUME Inv, NEW r \in Replicas, Write(r)
    PROVE  BoundsInv'
<1>1. PICK x \in Pending(r) : store' = After(x)
  BY DEF Write
<1>2. StoreBounded(store', now)
  BY <1>1, PendingBounded, AfterBounded DEF Inv, BoundsInv, CountersOK
<1>3. UNCHANGED <<now, changes, damaged, late, proc, ops>> /\ Move(r, "idle", NoLocals)
  BY DEF Write, Done
<1>4. CountersOK' /\ LateBounded(late', now)
  BY <1>3 DEF Inv, BoundsInv, CountersOK
<1> QED
  BY <1>2, <1>3, <1>4, IdleBounds, StepBounds

(* batch_lookup's MGET: what it returns was in the store. *)
LEMMA MgetBounds ==
    ASSUME Inv, NEW r \in Replicas, Mget(r)
    PROVE  BoundsInv'
<1> DEFINE old == loc[r]
           keys == old.req.keys
           raw == [i \in DOMAIN keys |-> Stored(Key(r, i))]
           got == [i \in DOMAIN keys |-> NoEntry]
           v   == [req |-> old.req, new |-> old.new, i |-> old.i, raw |-> raw, got |-> got]
<1>1. /\ UNCHANGED <<now, changes, store, damaged, late, proc, ops>> /\ pc[r] = "mget"
      /\ Move(r, "decode", [loc[r] EXCEPT !.raw = raw, !.got = got])
  BY DEF Mget
<1>2. /\ RequestAt(proc[r], "mget", old) /\ LocalsShape(old) /\ EntriesBounded(old, now)
      /\ StoreBounded(store, now)
  BY <1>1 DEF Inv, BoundsInv, PlacedInv, LocalsOK
<1>3. CountersOK' /\ LateBounded(late', now) /\ StoreBounded(store', now)
  BY <1>1 DEF Inv, BoundsInv, CountersOK
<1>4. Move(r, "decode", v)
  <2>1. [loc[r] EXCEPT !.raw = raw, !.got = got] = v
    <3> HIDE DEF raw, got
    <3> QED
      BY <1>2, MgetLocals
  <2> QED
    BY <1>1, <2>1
<1>5. /\ DOMAIN raw = DOMAIN keys /\ DOMAIN got = DOMAIN keys
      /\ \A j \in DOMAIN keys : got[j] = NoEntry
      /\ \A j \in DOMAIN keys : raw[j] # NoEntry => Bounded(raw[j], now)
  BY <1>2 DEF Stored, StoreBounded
<1> HIDE DEF raw, got
<1>6. /\ v.req = old.req /\ v.new = old.new /\ v.i = old.i /\ v.raw = raw /\ v.got = got
  OBVIOUS
<1>7. DOMAIN keys = 1 .. Len(keys) /\ Len(keys) \in Nat
  BY <1>2, RolloutAssumption DEF RequestAt
<1> HIDE DEF v
<1>8. RequestAt(proc[r], "decode", v)
  <2>1. v.i \in 1 .. Len(v.req.keys)
    BY <1>2, <1>6, <1>7 DEF RequestAt
  <2> QED
    BY <1>2, <1>5, <1>6, <1>7, <2>1 DEF RequestAt, Places
<1>9. EntriesBounded(v, now)
  BY <1>2, <1>5, <1>6 DEF EntriesBounded
<1> QED
  BY <1>1, <1>3, <1>4, <1>8, <1>9, StepBounds

(* One more result of a batch: none, or the entry it read. *)
LEMMA ResultBounds ==
    ASSUME Inv, NEW r \in Replicas, pc[r] \in {"decode", "clean"}, UNCHANGED <<now, proc>>,
           CountersOK', StoreBounded(store', now), LateBounded(late', now),
           NEW e, Result(r, e)
    PROVE  BoundsInv'
<1> DEFINE old == loc[r]
           keys == old.req.keys
           m == IF old.i = Len(keys) THEN "return" ELSE "decode"
           g == [old.got EXCEPT ![old.i] = e]
           v == [req |-> old.req, new |-> old.new, i |-> old.i + 1, raw |-> old.raw, got |-> g]
<1>1. RequestAt(proc[r], pc[r], old) /\ LocalsShape(old) /\ EntriesBounded(old, now)
  BY DEF Inv, BoundsInv, PlacedInv, LocalsOK
<1>2. Move(r, m, v)
  <2>1. [old EXCEPT !.got = g, !.i = old.i + 1] = v
    <3> HIDE DEF g
    <3> QED
      BY <1>1, ResultLocals
  <2>2. Move(r, m, [old EXCEPT !.got = g, !.i = old.i + 1])
    BY DEF Result
  <2> QED
    BY <2>1, <2>2
<1>3. /\ Len(keys) \in Nat /\ old.i \in 1 .. Len(keys)
      /\ DOMAIN old.raw = 1 .. Len(keys) /\ DOMAIN old.got = 1 .. Len(keys)
      /\ \A j \in DOMAIN old.got : old.got[j] # NoEntry => j < old.i
  <2>1. keys \in Seq(STRING)
    BY <1>1, RolloutAssumption DEF RequestAt
  <2> QED
    BY <1>1, <2>1 DEF RequestAt
<1>4. /\ DOMAIN g = 1 .. Len(keys)
      /\ \A j \in DOMAIN g : g[j] # NoEntry => j < old.i + 1
  BY <1>3
<1> HIDE DEF g
<1>5. v.req = old.req /\ v.new = old.new /\ v.i = old.i + 1 /\ v.raw = old.raw /\ v.got = g
  OBVIOUS
<1> HIDE DEF v
<1>6. /\ m \in {"return", "decode"}
      /\ m = "return" => v.i = Len(keys) + 1
      /\ m = "decode" => v.i \in 1 .. Len(keys)
  BY <1>3, <1>5
<1> HIDE DEF m
<1>7. RequestAt(proc[r], m, v)
  <2>1. /\ proc[r] \in Accepted /\ old.req \in Requests
        /\ old.req.resource \in DOMAIN Bindings[proc[r]].settings.resources
    BY <1>1 DEF RequestAt
  <2>2. \A j \in DOMAIN v.got : v.got[j] # NoEntry => j < v.i
    BY <1>4, <1>5
  <2> QED
    BY <1>3, <1>4, <1>5, <1>6, <2>1, <2>2 DEF RequestAt, Places
<1>8. EntriesBounded(v, now)
  BY <1>1, <1>5 DEF EntriesBounded
<1> QED
  BY <1>2, <1>7, <1>8, StepBounds

(* A miss, a hit, or an entry to be cleaned up. *)
LEMMA DecodeBounds ==
    ASSUME Inv, NEW r \in Replicas, Decode(r)
    PROVE  BoundsInv'
<1>1. UNCHANGED <<now, changes, store, damaged, late, proc, ops>> /\ pc[r] = "decode"
  BY DEF Decode
<1>2. CountersOK' /\ LateBounded(late', now) /\ StoreBounded(store', now)
  BY <1>1 DEF Inv, BoundsInv, CountersOK
<1>3. CASE Result(r, NoEntry) \/ Result(r, Raw(r))
  BY <1>1, <1>2, <1>3, ResultBounds
<1>4. CASE Move(r, "clean", loc[r])
  <2>1. RequestAt(proc[r], "decode", loc[r]) /\ EntriesBounded(loc[r], now)
    BY <1>1 DEF Inv, BoundsInv
  <2>2. RequestAt(proc[r], "clean", loc[r])
    BY <2>1 DEF RequestAt, Places
  <2> QED
    BY <1>1, <1>2, <1>4, <2>1, <2>2, StepBounds
<1> QED
  BY <1>3, <1>4 DEF Decode

(* _best_effort_delete, and a miss for that key. *)
LEMMA CleanBounds ==
    ASSUME Inv, NEW r \in Replicas, Clean(r)
    PROVE  BoundsInv'
<1>1. PICK x \in Pending(r) : store' = After(x)
  BY DEF Clean
<1>2. StoreBounded(store', now)
  BY <1>1, PendingBounded, AfterBounded DEF Inv, BoundsInv, CountersOK
<1>3. UNCHANGED <<now, changes, damaged, late, proc, ops>> /\ pc[r] = "clean" /\ Result(r, NoEntry)
  BY DEF Clean
<1>4. CountersOK' /\ LateBounded(late', now)
  BY <1>3 DEF Inv, BoundsInv, CountersOK
<1> QED
  BY <1>2, <1>3, <1>4, ResultBounds

(* A batch returns. *)
LEMMA ReturnBounds ==
    ASSUME Inv, NEW r \in Replicas, Return(r)
    PROVE  BoundsInv'
<1>1. UNCHANGED <<now, changes, store, damaged, late, proc, ops>> /\ Move(r, "idle", NoLocals)
  BY DEF Return, Done
<1>2. CountersOK' /\ LateBounded(late', now) /\ StoreBounded(store', now)
  BY <1>1 DEF Inv, BoundsInv, CountersOK
<1> QED
  BY <1>1, <1>2, IdleBounds, StepBounds

(* A command that fails at its caller. *)
LEMMA FailsBounds ==
    ASSUME Inv, NEW r \in Replicas, Fails(r)
    PROVE  BoundsInv'
<1>1. UNCHANGED <<now, changes, store, damaged, proc, ops>> /\ Abandon(r)
  BY DEF Fails
<1>2. CountersOK' /\ LateBounded(late', now) /\ StoreBounded(store', now)
  BY <1>1, AbandonBounded DEF Inv, BoundsInv, CountersOK
<1>3. CASE pc[r] = "clean"
  <2>1. Result(r, NoEntry)
    BY <1>3 DEF Fails
  <2> QED
    BY <1>1, <1>2, <1>3, <2>1, ResultBounds
<1>4. CASE pc[r] # "clean"
  <2>1. Move(r, "idle", NoLocals)
    BY <1>4 DEF Fails, Done
  <2> QED
    BY <1>1, <1>2, <2>1, IdleBounds, StepBounds
<1> QED
  BY <1>3, <1>4

(* A replica stopped and started from the Binding deployed, if it starts. *)
LEMMA RollBounds ==
    ASSUME Inv, NEW r \in Replicas, Roll(r)
    PROVE  BoundsInv'
<1> DEFINE n == IF iac \in Accepted THEN iac ELSE "down"
<1>1. /\ UNCHANGED <<now, changes, store, damaged, ops>> /\ Abandon(r)
      /\ proc' = [proc EXCEPT ![r] = n] /\ Move(r, "idle", NoLocals)
  BY DEF Roll, Done
<1>2. n \in Accepted \cup {"down"}
  OBVIOUS
<1> HIDE DEF n
<1>3. /\ proc' \in [Replicas -> Accepted \cup {"down"}]
      /\ \A s \in Replicas \ {r} : proc'[s] = proc[s]
  BY <1>1, <1>2 DEF Inv, BoundsInv
<1>4. CountersOK' /\ LateBounded(late', now) /\ StoreBounded(store', now)
  BY <1>1, AbandonBounded DEF Inv, BoundsInv, CountersOK
<1> QED
  BY <1>1, <1>3, <1>4, IdleBounds, MoveBounds

(* No replica moves: a deployment, a late command or damage. *)
LEMMA StayBounds ==
    ASSUME Inv, UNCHANGED <<now, proc, pc, loc>>, CountersOK', StoreBounded(store', now),
           LateBounded(late', now)
    PROVE  BoundsInv'
BY DEF Inv, BoundsInv

(* Another Binding is deployed. *)
LEMMA DeployBounds ==
    ASSUME Inv, Deploy
    PROVE  BoundsInv'
<1>1. UNCHANGED <<now, store, damaged, late, proc, pc, loc, ops>> /\ changes' = changes + 1
  BY DEF Deploy
<1>2. CountersOK' /\ LateBounded(late', now) /\ StoreBounded(store', now)
  BY <1>1 DEF Inv, BoundsInv, CountersOK
<1> QED
  BY <1>1, <1>2, StayBounds

(* A late command's entry gets its TTL when it arrives. *)
LEMMA LateBounds ==
    ASSUME Inv, LateArrives
    PROVE  BoundsInv'
<1>1. PICK x \in late : store' = After(x) /\ late' = late \ {x}
  BY DEF LateArrives
<1>2. UNCHANGED <<now, changes, damaged, proc, pc, loc, ops>>
  BY DEF LateArrives
<1>3. CommandOK(x) /\ (x.entry # NoEntry => Bounded(x.entry, now))
  BY DEF Inv, PlacedInv, BoundsInv, LateBounded
<1>4. StoreBounded(store', now)
  BY <1>1, <1>3, AfterBounded DEF Inv, BoundsInv, CountersOK
<1>5. CountersOK' /\ LateBounded(late', now)
  BY <1>1, <1>2 DEF Inv, BoundsInv, CountersOK, LateBounded
<1> QED
  BY <1>2, <1>4, <1>5, StayBounds

(* Damage changes no TTL. *)
LEMMA DamageBounds ==
    ASSUME Inv, Damage
    PROVE  BoundsInv'
<1>1. PICK k \in DOMAIN store : store' = [store EXCEPT ![k].intact = FALSE]
  BY DEF Damage
<1>2. /\ UNCHANGED <<now, changes, late, proc, pc, loc, ops>> /\ damaged' = damaged + 1
  BY DEF Damage
<1>3. EntryShape(store[k]) /\ Bounded(store[k], now) /\ store[k].px > now
  BY DEF Inv, PlacedInv, StoreOK, Placed, BoundsInv, StoreBounded
<1> DEFINE e == store[k]
           f == [e EXCEPT !.intact = FALSE]
<1>4. /\ f.px = e.px /\ f.created = e.created /\ f.expires = e.expires /\ f.at = e.at
      /\ f.by = e.by /\ f.owner = e.owner
  <2> HIDE DEF e
  <2> QED
    BY <1>3 DEF EntryShape, e
<1>5. store' = [store EXCEPT ![k] = f]
  BY <1>1
<1> HIDE DEF f
<1>6. Bounded(f, now) /\ f.px > now
  BY <1>3, <1>4 DEF Bounded
<1>7. StoreBounded(store', now)
  BY <1>5, <1>6 DEF Inv, BoundsInv, StoreBounded
<1>8. CountersOK' /\ LateBounded(late', now)
  BY <1>2 DEF Inv, BoundsInv, CountersOK
<1> QED
  BY <1>2, <1>7, <1>8, StayBounds

(* Time passes. *)
LEMMA TickBounds ==
    ASSUME Inv, Tick
    PROVE  BoundsInv'
<1>1. /\ UNCHANGED <<changes, damaged, late, proc, pc, loc, ops>> /\ now' = now + 1
      /\ store' = [k \in {j \in DOMAIN store : store[j].px > now'} |-> store[k]]
  BY DEF Tick
<1>2. now \in Int /\ now' \in Int /\ now <= now' /\ CountersOK'
  BY <1>1 DEF Inv, BoundsInv, CountersOK
<1>3. \A e : Bounded(e, now) => Bounded(e, now')
  BY <1>2, BoundedLater
<1>4. StoreBounded(store', now')
  BY <1>1, <1>3 DEF Inv, BoundsInv, StoreBounded
<1>5. LateBounded(late', now')
  BY <1>1, <1>3 DEF Inv, BoundsInv, LateBounded
<1>6. \A r \in Replicas : EntriesBounded(loc[r], now')
  BY <1>3 DEF Inv, BoundsInv, EntriesBounded
<1> QED
  BY <1>1, <1>2, <1>4, <1>5, <1>6 DEF Inv, BoundsInv

(* No entry, no command and no request at first. *)
LEMMA BoundsInit == Init => Inv
<1> SUFFICES ASSUME Init PROVE Inv
  OBVIOUS
<1>1. PlacedInv
  BY PlacedInit
<1>2. CountersOK
  BY RolloutAssumption DEF Init, CountersOK
<1>3. proc \in [Replicas -> Accepted \cup {"down"}]
  BY DEF Init
<1>4. \A r \in Replicas : pc[r] = "idle" /\ loc[r] = NoLocals
  BY DEF Init
<1>5. StoreBounded(store, now) /\ LateBounded(late, now)
  BY DEF Init, StoreBounded, LateBounded
<1> QED
  BY <1>1, <1>2, <1>3, <1>4, <1>5, IdleBounds DEF Inv, BoundsInv

(* Every step keeps both invariants. *)
LEMMA BoundsNext == Inv /\ [Next]_vars => Inv'
<1> SUFFICES ASSUME Inv, [Next]_vars PROVE Inv'
  OBVIOUS
<1>1. PlacedInv'
  BY PlacedNext DEF Inv
<1>2. ASSUME NEW r \in Replicas,
             Begin(r) \/ Write(r) \/ Mget(r) \/ Decode(r) \/ Clean(r) \/ Return(r)
               \/ Fails(r) \/ Roll(r)
      PROVE  BoundsInv'
  BY <1>2, BeginBounds, WriteBounds, MgetBounds, DecodeBounds, CleanBounds, ReturnBounds,
     FailsBounds, RollBounds, Zenon
<1>3. ASSUME Deploy \/ LateArrives \/ Damage \/ Tick PROVE BoundsInv'
  BY <1>3, DeployBounds, LateBounds, DamageBounds, TickBounds
<1>4. ASSUME UNCHANGED vars PROVE BoundsInv'
  BY <1>4 DEF vars, Inv, BoundsInv, CountersOK
<1>5. BoundsInv'
  BY <1>2, <1>3, <1>4 DEF Next, Finished
<1> QED
  BY <1>1, <1>5 DEF Inv

(* The invariant holds in every state. *)
LEMMA BoundsInvariance == Spec => []Inv
BY BoundsInit, BoundsNext, PTL DEF Spec

-----------------------------------------------------------------------------
(* Types and bounds: a replica serves only Bindings that start, a batch    *)
(* keeps within its replica's maxBatchSize, and the engine holds no entry  *)
(* whose PX has run out.                                                   *)
THEOREM TypeCorrect == Spec => []TypeOK
<1>1. Inv => TypeOK
  <2> SUFFICES ASSUME Inv PROVE TypeOK
    OBVIOUS
  <2>1. ASSUME NEW r \in Replicas
        PROVE  /\ pc[r] \in Places
               /\ pc[r] # "idle" => proc[r] # "down"
               /\ loc[r].i \in 1 .. Len(loc[r].req.keys) + 1
               /\ pc[r] = "mget" =>
                     Len(loc[r].req.keys) <= Running(r).settings.limits.maxBatchSize
    <3>1. RequestAt(proc[r], pc[r], loc[r])
      BY DEF Inv, BoundsInv
    <3>2. pc[r] \in Places
      BY <3>1 DEF RequestAt
    <3>3. CASE pc[r] = "idle"
      <4>1. loc[r].i = 1 /\ loc[r].req.keys = <<>>
        <5>1. loc[r] = NoLocals
          BY <3>1, <3>3 DEF RequestAt
        <5>2. NoLocals.i = 1 /\ NoLocals.req = NoRequest /\ NoRequest.keys = <<>>
          BY DEF NoLocals, NoRequest
        <5> QED
          BY <5>1, <5>2
      <4> QED
        BY <3>2, <3>3, <4>1
    <3>4. CASE pc[r] # "idle"
      <4>1. proc[r] \in Accepted /\ loc[r].req.keys \in Seq(STRING)
        BY <3>1, <3>4, RolloutAssumption DEF RequestAt
      <4>2. Len(loc[r].req.keys) \in Nat /\ proc[r] # "down"
        BY <4>1, RolloutAssumption DEF Accepted
      <4>3. loc[r].i \in 1 .. Len(loc[r].req.keys) + 1
        BY <3>1, <3>2, <3>4, <4>2 DEF RequestAt, Places
      <4>4. Bindings[proc[r]].settings.limits.maxBatchSize \in Nat
        BY <4>1, AcceptedSettings, LimitNumbers
      <4>5. pc[r] = "mget" =>
               Len(loc[r].req.keys) <= Running(r).settings.limits.maxBatchSize
        BY <3>1, <4>2, <4>4 DEF RequestAt, Running
      <4> QED
        BY <3>2, <4>2, <4>3, <4>5
    <3> QED
      BY <3>3, <3>4
  <2>2. pc \in [Replicas -> Places]
    BY <2>1 DEF Inv, PlacedInv
  <2>3. \A k \in DOMAIN store : store[k].px > now
    BY DEF Inv, BoundsInv, StoreBounded
  <2> QED
    BY <2>1, <2>2, <2>3 DEF Inv, PlacedInv, GenerationsOK, BoundsInv, CountersOK, Places, TypeOK
<1> QED
  BY <1>1, BoundsInvariance, PTL

(* TtlBounded: every entry, also one a stopped replica left on its way,    *)
(* lives within the bounds of the settings it was put under.               *)
THEOREM TtlBoundedHolds == Spec => []TtlBounded
<1>1. Inv => TtlBounded
  <2> SUFFICES ASSUME Inv,
                      NEW e \in {store[k] : k \in DOMAIN store}
                                  \cup {x.entry : x \in {c \in late : c.entry # NoEntry}}
               PROVE  Bounded(e, now)
    BY DEF TtlBounded, Bounded
  <2> QED
    BY DEF Inv, BoundsInv, StoreBounded, LateBounded
<1> QED
  BY <1>1, BoundsInvariance, PTL

(* An entry that decodes at replica r is younger than r's settings and its *)
(* writer's allow: its stamp is at most MaxSkew ahead of its put, its TTL  *)
(* within its writer's bounds, and r's clock is not behind.                *)
LEMMA DecodedAge ==
    ASSUME NEW r \in Replicas, NEW q, NEW e, Bounded(e, now), now \in Nat,
           Policy(Running(r), q.resource).staleness \in Nat,
           Decodes(Running(r), q, e, Clock(r)),
           NEW n \in AgeBounds(e, Policy(Running(r), q.resource))
    PROVE  now < e.at + n + MaxSkew
<1> DEFINE p == Policy(Running(r), q.resource)
           s == Bindings[e.by].settings
           w == s.resources[e.owner[3]].staleness
<1>1. Clock(r) \in Nat /\ now <= Clock(r) /\ MaxSkew \in Nat
  BY ClockBounded, SkewAssumption
<1>2. /\ e.created \in Int /\ e.expires \in Int /\ e.at \in Int
      /\ e.created <= e.at + MaxSkew /\ w \in Int /\ s.ttl.maximum \in Int
      /\ e.expires - e.created \in s.ttl.minimum .. s.ttl.maximum
      /\ w # None => e.expires - e.created <= w
  BY DEF Bounded
<1>3. e.expires > Clock(r) /\ (p.staleness # None => e.created + p.staleness > Clock(r))
  BY DEF Decodes
<1>4. n \in {p.staleness, w, s.ttl.maximum} /\ n # None
  BY DEF AgeBounds
<1>5. e.expires - e.created <= s.ttl.maximum
  BY <1>2
<1> HIDE DEF p, s, w
<1>6. CASE n = p.staleness
  BY <1>1, <1>2, <1>3, <1>4, <1>6 DEF p
<1>7. CASE n = w \/ n = s.ttl.maximum
  <2>1. e.expires - e.created <= n /\ n \in Int
    BY <1>2, <1>4, <1>5, <1>7
  <2> QED
    BY <1>1, <1>2, <1>3, <2>1
<1> QED
  BY <1>4, <1>6, <1>7

(* A step gives replica r a hit within its bounds, or no new one. *)
HitsYoung(r) ==
    \A i \in DOMAIN loc[r].got :
       LET e == loc'[r].got[i]
       IN  pc'[r] # "idle" /\ e # loc[r].got[i] =>
              \A n \in AgeBounds(e, Policy(Running(r), loc[r].req.resource)) :
                  now < e.at + n + MaxSkew

(* One more result: a hit has decoded, and what becomes a miss was none    *)
(* before.                                                                 *)
LEMMA ResultYoung ==
    ASSUME Inv, NEW r \in Replicas, pc[r] \in {"decode", "clean"}, NEW e, Result(r, e),
           e = NoEntry \/ (e = Raw(r) /\ e # NoEntry /\ Decodes(Running(r), loc[r].req, e, Clock(r)))
    PROVE  HitsYoung(r)
<1> DEFINE old == loc[r]
           g == [old.got EXCEPT ![old.i] = e]
           p == Policy(Running(r), old.req.resource)
<1>1. RequestAt(proc[r], pc[r], old) /\ LocalsShape(old) /\ EntriesBounded(old, now)
      /\ loc = [s \in Replicas |-> loc[s]] /\ now \in Nat
  BY DEF Inv, BoundsInv, CountersOK, PlacedInv, LocalsOK
<1>2. loc'[r].got = g
  <2>1. [old EXCEPT !.got = g, !.i = old.i + 1]
          = [req |-> old.req, new |-> old.new, i |-> old.i + 1, raw |-> old.raw, got |-> g]
    <3> HIDE DEF g
    <3> QED
      BY <1>1, ResultLocals
  <2>2. loc' = [loc EXCEPT ![r] = [old EXCEPT !.got = g, !.i = old.i + 1]]
    BY DEF Result, Move
  <2>3. loc'[r] = [old EXCEPT !.got = g, !.i = old.i + 1]
    BY <1>1, <2>2
  <2> HIDE DEF g
  <2> QED
    BY <2>1, <2>3
<1>3. \A j \in DOMAIN old.got : g[j] = IF j = old.i THEN e ELSE old.got[j]
  OBVIOUS
<1>4. old.i \in DOMAIN old.raw /\ old.i \in Int
      /\ \A j \in DOMAIN old.got : old.got[j] # NoEntry => j < old.i
  <2>1. Len(old.req.keys) \in Nat
    BY <1>1, RolloutAssumption DEF RequestAt
  <2> QED
    BY <1>1, <2>1 DEF RequestAt
<1>5. CASE e = NoEntry
  <2>1. \A j \in DOMAIN old.got : g[j] = old.got[j]
    BY <1>3, <1>4, <1>5
  <2> HIDE DEF g
  <2> QED
    BY <1>2, <2>1 DEF HitsYoung
<1>6. CASE e = Raw(r) /\ e # NoEntry /\ Decodes(Running(r), old.req, e, Clock(r))
  <2>1. Bounded(e, now)
    BY <1>1, <1>4, <1>6 DEF EntriesBounded, Raw
  <2>2. p.staleness \in Nat
    <3>1. proc[r] \in Accepted /\ old.req.resource \in DOMAIN Bindings[proc[r]].settings.resources
      BY <1>1 DEF RequestAt
    <3>2. PolicyOK(p)
      BY <3>1, AcceptedSettings DEF Policy, Running
    <3> QED
      BY <3>2 DEF PolicyOK, Optional, None
  <2>3. \A n \in AgeBounds(e, p) : now < e.at + n + MaxSkew
    BY <1>1, <1>6, <2>1, <2>2, DecodedAge
  <2> HIDE DEF g
  <2> QED
    BY <1>2, <1>3, <2>3 DEF HitsYoung
<1> QED
  BY <1>5, <1>6

(* HitsWithinBounds: through any roll, with any clocks that disagree by at *)
(* most MaxSkew and however late a SET arrives, the real age of a hit is   *)
(* below the bounds of its reader's and of its writer's settings.          *)
THEOREM HitsWithinBoundsHold == Spec => HitsWithinBounds
<1>1. ASSUME Inv, [Next]_vars, NEW r \in Replicas PROVE HitsYoung(r)
  <2>0. pc = [s \in Replicas |-> pc[s]] /\ loc = [s \in Replicas |-> loc[s]]
        /\ RequestAt(proc[r], pc[r], loc[r])
    BY <1>1 DEF Inv, PlacedInv, BoundsInv
  <2>1. CASE loc'[r] = loc[r] \/ pc'[r] = "idle"
    BY <2>1 DEF HitsYoung
  <2>2. CASE Begin(r) \/ Mget(r)
    <3>1. pc[r] \in {"idle", "mget"}
      BY <2>2 DEF Begin, Mget
    <3>2. loc[r].got = <<>>
      BY <2>0, <3>1 DEF RequestAt, NoLocals
    <3> QED
      BY <3>2 DEF HitsYoung
  <2>3. CASE Write(r) \/ Return(r) \/ Roll(r)
    <3>1. pc'[r] = "idle"
      BY <2>0, <2>3 DEF Write, Return, Roll, Done, Move
    <3> QED
      BY <2>1, <3>1
  <2>4. CASE Decode(r)
    <3>1. pc[r] = "decode"
      BY <2>4 DEF Decode
    <3>2. CASE Move(r, "clean", loc[r])
      <4>1. loc'[r] = loc[r]
        BY <2>0, <3>2 DEF Move
      <4> QED
        BY <2>1, <4>1
    <3>3. CASE Result(r, NoEntry)
      BY <1>1, <3>1, <3>3, ResultYoung
    <3>4. CASE /\ Raw(r) # NoEntry /\ Decodes(Running(r), loc[r].req, Raw(r), Clock(r))
               /\ Result(r, Raw(r))
      BY <1>1, <3>1, <3>4, ResultYoung
    <3> QED
      BY <2>4, <3>2, <3>3, <3>4 DEF Decode
  <2>5. CASE Clean(r) \/ (Fails(r) /\ pc[r] = "clean")
    <3>1. pc[r] = "clean" /\ Result(r, NoEntry)
      BY <2>5 DEF Clean, Fails
    <3> QED
      BY <1>1, <3>1, ResultYoung
  <2>6. CASE Fails(r) /\ pc[r] # "clean"
    <3>1. pc'[r] = "idle"
      BY <2>0, <2>6 DEF Fails, Done, Move
    <3> QED
      BY <2>1, <3>1
  <2>7. ASSUME NEW s \in Replicas, s # r,
               Begin(s) \/ Write(s) \/ Mget(s) \/ Decode(s) \/ Clean(s) \/ Return(s)
                 \/ Fails(s) \/ Roll(s)
        PROVE  HitsYoung(r)
    <3>1. loc' = loc \/ \E v : loc' = [loc EXCEPT ![s] = v]
      BY <2>7, Zenon DEF Begin, Write, Mget, Decode, Clean, Return, Fails, Roll, Done, Result, Move
    <3>2. loc'[r] = loc[r]
      BY <2>0, <2>7, <3>1
    <3> QED
      BY <2>1, <3>2
  <2>8. CASE Deploy \/ LateArrives \/ Damage \/ Tick \/ UNCHANGED vars
    <3>1. loc' = loc
      BY <2>8 DEF Deploy, LateArrives, Damage, Tick, vars
    <3> QED
      BY <2>1, <3>1
  <2> QED
    BY <1>1, <2>2, <2>3, <2>4, <2>5, <2>6, <2>7, <2>8 DEF Next, Finished
<1>2. Inv /\ [Next]_vars =>
         [\A r \in Replicas : \A i \in DOMAIN loc[r].got :
            LET e == loc'[r].got[i]
            IN  pc'[r] # "idle" /\ e # loc[r].got[i] =>
                   \A n \in AgeBounds(e, Policy(Running(r), loc[r].req.resource)) :
                       now < e.at + n + MaxSkew]_vars
  BY <1>1, Zenon DEF HitsYoung
<1> QED
  BY <1>2, BoundsInvariance, PTL DEF Spec, HitsWithinBounds

-----------------------------------------------------------------------------
(* The Bindings that are served are among those that start. *)
LEMMA ServingAccepted == Inv => Serving \subseteq Accepted
BY DEF Inv, BoundsInv, Serving

(* KeysFit: with any accepted maxKeyBytes, generation, namespace and       *)
(* material, data keys and lease keys of the cache operations fit.         *)
THEOREM KeysAlwaysFit == Spec => []KeysFit
<1>1. ASSUME NEW n \in Accepted, NEW m, m.group = NoGroup
      PROVE  LET b   == Bindings[n]
                 key == Encode(Encoder(b), m)
             IN  Fits(Encoder(b), key) /\ Fits(Encoder(b), LeaseKey(Encoder(b), key))
  <2> DEFINE enc == Encoder(Bindings[n])
             key == Encode(enc, m)
  <2>1. enc.maximum \in Nat /\ enc.maximum >= 96
    BY AcceptedSettings, LimitNumbers DEF Encoder
  <2>2. key.tag = NoTag /\ LeaseKey(enc, key).tag = NoTag
    BY <1>1 DEF Encode, LeaseKey, GroupTag
  <2> HIDE DEF key, enc
  <2>3. Fits(enc, key) /\ Fits(enc, LeaseKey(enc, key))
    BY <2>1, <2>2, UntaggedFits
  <2> QED
    BY <2>3 DEF key, enc
<1>2. AllFit
  BY <1>1 DEF AllFit
<1>3. Inv => KeysFit
  BY <1>2 DEF KeysFit
<1> QED
  BY <1>3, BoundsInvariance, PTL

(* AcceptedIsWritable: a Binding that is served can be written to with no  *)
(* TTL requested, but for Resources whose own numbers forbid it.           *)
THEOREM AcceptedIsWritableHolds == Spec => []AcceptedIsWritable
<1>1. ASSUME NEW n \in Accepted, NEW x \in DOMAIN Bindings[n].settings.resources,
             NEW negative \in BOOLEAN,
             \A d \in {Bindings[n].settings.resources[x].default,
                       Bindings[n].settings.resources[x].staleness} \ {None} :
                d >= Bindings[n].settings.ttl.minimum
      PROVE  EffectiveTtlMs(Bindings[n].settings, Bindings[n].settings.resources[x], None,
                            negative) # None
  <2>1. TtlOK(Bindings[n].settings.ttl) /\ PolicyOK(Bindings[n].settings.resources[x])
    BY AcceptedSettings
  <2> QED
    BY <1>1, <2>1, DefaultWritable
<1>2. Inv => AcceptedIsWritable
  BY <1>1, ServingAccepted DEF AcceptedIsWritable
<1> QED
  BY <1>2, BoundsInvariance, PTL

(* SentinelsDistinct: no client counts a Sentinel twice. *)
THEOREM SentinelsDistinctHolds == Spec => []SentinelsDistinct
<1>1. ASSUME NEW n \in Accepted
      PROVE  LET b == Bindings[n]
             IN  Cardinality(ToSet(SentinelAddresses(b))) = MinOtherSentinels(b) + 1
  <2> DEFINE b == Bindings[n]
             a == SentinelAddresses(b)
  <2>1. RawEndpoints(b) \in Seq(Points)
    <3>1. b.direct \in Seq(Points) /\ b.resolved \in Seq(Points) /\ b.seeds \in Seq(Points)
      BY RolloutAssumption DEF Accepted
    <3> HIDE DEF b
    <3> QED
      BY <3>1 DEF RawEndpoints
  <2>2. StartError(b, Engine) = "none"
    BY DEF Accepted
  <2> HIDE DEF b
  <2>3. Unique(b) /\ \A i \in DOMAIN Endpoints(b) : Endpoints(b)[i].tls = TlsRequired(b)
    BY <2>2, StartGrants, EndpointsGrant
  <2>4. Cardinality({a[i] : i \in DOMAIN a}) = Len(a)
    BY <2>1, <2>3, AddressesDistinct
  <2>5. Len(a) \in Nat
    BY <2>1 DEF SentinelAddresses, Endpoints
  <2>6. Cardinality(ToSet(a)) = Len(a)
    BY <2>4, Zenon DEF ToSet
  <2>7. Cardinality(ToSet(a)) = MinOtherSentinels(b) + 1
    BY <2>5, <2>6 DEF MinOtherSentinels
  <2> QED
    BY <2>7 DEF b
<1>2. Inv => SentinelsDistinct
  BY <1>1, ServingAccepted DEF SentinelsDistinct
<1> QED
  BY <1>2, BoundsInvariance, PTL
=============================================================================
