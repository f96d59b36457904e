---------------------------- MODULE RolloutProofs ----------------------------
(***************************************************************************)
(* Proofs about Rollout, for any replicas, Bindings, requests, engine and  *)
(* bounds.  The argument: every entry lies under a key that names its      *)
(* owner and a generation not newer than the one deployed when it was put, *)
(* and a key names one owner and one generation.                           *)
(***************************************************************************)
EXTENDS Rollout, TLAPS

(* Key k is a data key of owner o. *)
Under(k, o) ==
    /\ o = <<o[1], o[2], o[3], o[4], o[5]>>
    /\ k.prefix.namespace = Sha256(o[1])
    /\ k.digest = Sha256([scope |-> o[2], resource |-> o[3], key |-> o[4], schema |-> o[5],
                          generation |-> k.prefix.generation])

(* e is an entry, with all its fields. *)
EntryShape(e) ==
    e = [owner |-> e.owner, schema |-> e.schema, size |-> e.size, created |-> e.created,
         expires |-> e.expires, px |-> e.px, intact |-> e.intact, at |-> e.at, asOf |-> e.asOf,
         by |-> e.by]

(* Entry e may lie under key k. *)
Placed(k, e) ==
    /\ EntryShape(e)
    /\ Under(k, e.owner)
    /\ k.prefix.generation \in Int /\ e.asOf \in Int
    /\ e.asOf >= k.prefix.generation

CommandOK(x) ==
    /\ Under(x.key, x.owner)
    /\ x.entry # NoEntry => Placed(x.key, x.entry) /\ x.entry.owner = x.owner

LocalsShape(v) ==
    v = [req |-> v.req, new |-> v.new, i |-> v.i, raw |-> v.raw, got |-> v.got]

KeyAt(n, v, i) == PhysicalKey(Bindings[n], v.req, v.req.keys[i])

(* Locals v of a replica that runs Binding n and is at l. *)
LocalsOK(n, l, v) ==
    /\ LocalsShape(v)
    /\ v.new = NoEntry \/ (l = "set" /\ Placed(KeyAt(n, v, v.i), v.new))
    /\ v.got = [i \in DOMAIN v.raw |-> v.got[i]]
    /\ \A i \in DOMAIN v.raw :
          /\ v.raw[i] = NoEntry \/ Placed(KeyAt(n, v, i), v.raw[i])
          /\ v.got[i] = NoEntry \/ Placed(KeyAt(n, v, i), v.got[i])

StoreOK(s) == \A k \in DOMAIN s : Placed(k, s[k])

(* Replicas run the Binding deployed or one of no newer generation. *)
GenerationsOK ==
    /\ iac \in Names
    /\ \A r \in Replicas : proc[r] # "down" =>
          /\ proc[r] \in Names
          /\ Bindings[proc[r]].settings.generation <= Bindings[iac].settings.generation

PlacedInv ==
    /\ proc = [r \in Replicas |-> proc[r]]
    /\ pc = [r \in Replicas |-> pc[r]]
    /\ loc = [r \in Replicas |-> loc[r]]
    /\ GenerationsOK
    /\ StoreOK(store)
    /\ \A x \in late : CommandOK(x)
    /\ \A r \in Replicas : LocalsOK(proc[r], pc[r], loc[r])

-----------------------------------------------------------------------------
(* A key names one owner: digests are injective. *)
LEMMA OwnerUnique ==
    ASSUME NEW k, NEW o, NEW p, Under(k, o), Under(k, p)
    PROVE  o = p
<1>1. o[1] = p[1]
  BY DEF Under, Sha256
<1>2. [scope |-> o[2], resource |-> o[3], key |-> o[4], schema |-> o[5],
       generation |-> k.prefix.generation]
        = [scope |-> p[2], resource |-> p[3], key |-> p[4], schema |-> p[5],
           generation |-> k.prefix.generation]
  BY DEF Under, Sha256
<1>3. o[2] = p[2] /\ o[3] = p[3] /\ o[4] = p[4] /\ o[5] = p[5]
  BY <1>2
<1> QED
  BY <1>1, <1>3 DEF Under

(* physical_key builds the key of its caller, in its encoder's generation. *)
LEMMA KeyOfOwner ==
    ASSUME NEW b, NEW q, NEW l
    PROVE  /\ Under(PhysicalKey(b, q, l), Owner(b, q, l))
           /\ PhysicalKey(b, q, l).prefix.generation = b.settings.generation
BY DEF Under, PhysicalKey, Owner, Encode, Encoder, Material, Prefix, Body

(* What lies under a caller's key is the caller's. *)
LEMMA PlacedIsOwn ==
    ASSUME NEW b, NEW q, NEW l, NEW e, Placed(PhysicalKey(b, q, l), e)
    PROVE  /\ e.owner = Owner(b, q, l)
           /\ e.asOf >= b.settings.generation
BY KeyOfOwner, OwnerUnique DEF Placed

(* The engine sets px, and damage clears intact: the entry stays in place. *)
LEMMA PlacedStays ==
    ASSUME NEW k, NEW e, Placed(k, e), NEW t
    PROVE  Placed(k, [e EXCEPT !.px = t]) /\ Placed(k, [e EXCEPT !.intact = t])
BY DEF Placed, EntryShape

(* A command of its key's owner leaves the store in order. *)
LEMMA AfterOK ==
    ASSUME NEW x, CommandOK(x), StoreOK(store)
    PROVE  StoreOK(After(x))
<1>1. CASE x.entry = NoEntry
  BY <1>1 DEF StoreOK, After
<1>2. CASE x.entry # NoEntry
  <2>1. Placed(x.key, [x.entry EXCEPT !.px = now + x.entry.expires - x.entry.created])
    BY <1>2, PlacedStays DEF CommandOK
  <2> QED
    BY <1>2, <2>1 DEF StoreOK, After
<1> QED
  BY <1>1, <1>2

(* The command a replica is about to send is for its own key. *)
LEMMA PendingOK ==
    ASSUME NEW r \in Replicas, LocalsOK(proc[r], pc[r], loc[r]), NEW x \in Pending(r)
    PROVE  CommandOK(x)
<1> DEFINE b == Bindings[proc[r]]
           q == loc[r].req
           l == q.keys[loc[r].i]
<1>1. x = [key |-> PhysicalKey(b, q, l), entry |-> loc[r].new, owner |-> Owner(b, q, l)]
  BY DEF Pending, Command, Key, Running
<1>2. loc[r].new # NoEntry => Placed(PhysicalKey(b, q, l), loc[r].new)
  BY DEF LocalsOK, KeyAt
<1> QED
  BY <1>1, <1>2, KeyOfOwner, PlacedIsOwn DEF CommandOK

(* A request that is over leaves nothing behind. *)
LEMMA NoLocalsOK ==
    ASSUME NEW n, NEW l
    PROVE  LocalsOK(n, l, NoLocals)
BY DEF LocalsOK, LocalsShape, NoLocals

(* The locals of a batch that has one more result, *)
LEMMA ResultLocals ==
    ASSUME NEW v, LocalsShape(v), NEW g
    PROVE  [v EXCEPT !.got = g, !.i = v.i + 1]
             = [req |-> v.req, new |-> v.new, i |-> v.i + 1, raw |-> v.raw, got |-> g]
<1> DEFINE j == v.i + 1
           u == [v EXCEPT !.got = g]
<1> HIDE DEF j
<1>1. u = [req |-> v.req, new |-> v.new, i |-> v.i, raw |-> v.raw, got |-> g]
  BY DEF LocalsShape
<1>2. [v EXCEPT !.got = g, !.i = j] = [u EXCEPT !.i = j]
  OBVIOUS
<1> HIDE DEF u
<1>3. [v EXCEPT !.got = g, !.i = j]
        = [req |-> v.req, new |-> v.new, i |-> j, raw |-> v.raw, got |-> g]
  BY <1>1, <1>2
<1> QED
  BY <1>3, Zenon DEF j

(* of one that was sent its values, *)
LEMMA MgetLocals ==
    ASSUME NEW v, LocalsShape(v), NEW raw, NEW got
    PROVE  [v EXCEPT !.raw = raw, !.got = got]
             = [req |-> v.req, new |-> v.new, i |-> v.i, raw |-> raw, got |-> got]
<1> DEFINE u == [v EXCEPT !.raw = raw]
<1>1. u = [req |-> v.req, new |-> v.new, i |-> v.i, raw |-> raw, got |-> v.got]
  BY DEF LocalsShape
<1>2. [v EXCEPT !.raw = raw, !.got = got] = [u EXCEPT !.got = got]
  OBVIOUS
<1> HIDE DEF u
<1> QED
  BY <1>1, <1>2

(* and of a request that has just begun. *)
LEMMA BeginLocals ==
    ASSUME NEW r, NEW q
    PROVE  [NoLocals EXCEPT !.req = q, !.new = IF q.kind = "put" THEN NewEntry(r, q) ELSE @]
             = [req |-> q, new |-> IF q.kind = "put" THEN NewEntry(r, q) ELSE NoEntry,
                i |-> 1, raw |-> <<>>, got |-> <<>>]
<1> DEFINE n == IF q.kind = "put" THEN NewEntry(r, q) ELSE NoEntry
           u == [NoLocals EXCEPT !.req = q]
<1>1. u = [req |-> q, new |-> NoEntry, i |-> 1, raw |-> <<>>, got |-> <<>>]
  BY DEF NoLocals
<1>2. [NoLocals EXCEPT !.req = q, !.new = IF q.kind = "put" THEN NewEntry(r, q) ELSE @]
        = [u EXCEPT !.new = n]
  BY <1>1
<1> HIDE DEF u, n
<1>3. [u EXCEPT !.new = n] = [req |-> q, new |-> n, i |-> 1, raw |-> <<>>, got |-> <<>>]
  BY <1>1
<1> QED
  BY <1>2, <1>3 DEF n

(* A result that is none or was read from the key's place may be reported. *)
LEMMA ResultOK ==
    ASSUME NEW n, NEW l, NEW m, NEW v, NEW e, LocalsOK(n, l, v),
           v.new = NoEntry,
           v.i \in DOMAIN v.raw => e = NoEntry \/ Placed(KeyAt(n, v, v.i), e)
    PROVE  LocalsOK(n, m, [v EXCEPT !.got = [v.got EXCEPT ![v.i] = e], !.i = v.i + 1])
<1> DEFINE g == [v.got EXCEPT ![v.i] = e]
           w == [req |-> v.req, new |-> v.new, i |-> v.i + 1, raw |-> v.raw, got |-> g]
<1>1. [v EXCEPT !.got = g, !.i = v.i + 1] = w
  BY ResultLocals DEF LocalsOK
<1>2. g = [i \in DOMAIN v.raw |-> IF i = v.i THEN e ELSE v.got[i]]
  BY DEF LocalsOK
<1>3. \A i : KeyAt(n, w, i) = KeyAt(n, v, i)
  BY DEF KeyAt
<1>4. LocalsOK(n, m, w)
  <2> HIDE DEF g
  <2>1. LocalsShape(w) /\ w.new = NoEntry
    BY DEF LocalsShape
  <2>2. w.got = [i \in DOMAIN w.raw |-> w.got[i]]
    BY <1>2
  <2>3. ASSUME NEW i \in DOMAIN w.raw
        PROVE  /\ w.raw[i] = NoEntry \/ Placed(KeyAt(n, w, i), w.raw[i])
               /\ w.got[i] = NoEntry \/ Placed(KeyAt(n, w, i), w.got[i])
    BY <1>2, <1>3, <2>3 DEF LocalsOK
  <2> QED
    BY <2>1, <2>2, <2>3 DEF LocalsOK
<1> QED
  BY <1>1, <1>4

-----------------------------------------------------------------------------
(* One replica moves on; the others keep their Binding and their locals. *)
LEMMA MoveOK ==
    ASSUME PlacedInv, NEW r \in Replicas, NEW l, NEW v, Move(r, l, v),
           proc' = [s \in Replicas |-> proc'[s]],
           \A s \in Replicas \ {r} : proc'[s] = proc[s],
           LocalsOK(proc'[r], l, v)
    PROVE  /\ pc' = [s \in Replicas |-> pc'[s]]
           /\ loc' = [s \in Replicas |-> loc'[s]]
           /\ \A s \in Replicas : LocalsOK(proc'[s], pc'[s], loc'[s])
<1>1. /\ pc' = [pc EXCEPT ![r] = l]
      /\ loc' = [loc EXCEPT ![r] = v]
      /\ pc = [s \in Replicas |-> pc[s]]
      /\ loc = [s \in Replicas |-> loc[s]]
  BY DEF Move, PlacedInv
<1>2. pc' = [s \in Replicas |-> pc'[s]] /\ loc' = [s \in Replicas |-> loc'[s]]
  BY <1>1
<1>3. pc'[r] = l /\ loc'[r] = v
  BY <1>1
<1>4. ASSUME NEW s \in Replicas \ {r}
      PROVE  LocalsOK(proc'[s], pc'[s], loc'[s])
  <2>1. pc'[s] = pc[s] /\ loc'[s] = loc[s] /\ proc'[s] = proc[s]
    BY <1>1, <1>4
  <2> QED
    BY <2>1 DEF PlacedInv
<1> QED
  BY <1>2, <1>3, <1>4

(* Nothing but the store, the late commands, the time and the counters     *)
(* changes.                                                                *)
LEMMA SameLocals ==
    ASSUME PlacedInv, UNCHANGED <<iac, proc, pc, loc>>, StoreOK(store'),
           \A x \in late' : CommandOK(x)
    PROVE  PlacedInv'
BY DEF PlacedInv, GenerationsOK

(* A request's step: a replica moves on under the Binding it runs. *)
LEMMA RequestStep ==
    ASSUME PlacedInv, UNCHANGED <<iac, proc>>, NEW r \in Replicas, NEW l, NEW v,
           Move(r, l, v), LocalsOK(proc[r], l, v), StoreOK(store'),
           \A x \in late' : CommandOK(x)
    PROVE  PlacedInv'
<1>1. proc = [s \in Replicas |-> proc[s]]
  BY DEF PlacedInv
<1>2. /\ pc' = [s \in Replicas |-> pc'[s]]
      /\ loc' = [s \in Replicas |-> loc'[s]]
      /\ \A s \in Replicas : LocalsOK(proc'[s], pc'[s], loc'[s])
  BY <1>1, MoveOK
<1> QED
  BY <1>1, <1>2 DEF PlacedInv, GenerationsOK

(* The entry a put is about to write lies under its key's place: the       *)
(* Binding deployed is of no older generation than the replica's.          *)
LEMMA NewEntryPlaced ==
    ASSUME PlacedInv, NEW r \in Replicas, proc[r] # "down", NEW q
    PROVE  Placed(PhysicalKey(Running(r), q, q.keys[1]), NewEntry(r, q))
<1> DEFINE b == Running(r)
           k == PhysicalKey(b, q, q.keys[1])
           e == NewEntry(r, q)
<1>1. e.owner = Owner(b, q, q.keys[1]) /\ e.asOf = Bindings[iac].settings.generation
      /\ EntryShape(e)
  BY DEF NewEntry, EntryShape
<1>2. Under(k, e.owner) /\ k.prefix.generation = b.settings.generation
  BY <1>1, KeyOfOwner
<1>3. /\ b.settings.generation \in Int
      /\ Bindings[iac].settings.generation \in Int
      /\ b.settings.generation <= Bindings[iac].settings.generation
  BY RolloutAssumption DEF PlacedInv, GenerationsOK, Running
<1>4. /\ k.prefix.generation \in Int /\ e.asOf \in Int
      /\ e.asOf >= k.prefix.generation
  <2> HIDE DEF e, k, b
  <2> QED
    BY <1>1, <1>2, <1>3
<1> HIDE DEF e, k
<1>5. Placed(k, e)
  BY <1>1, <1>2, <1>4 DEF Placed
<1> QED
  BY <1>5 DEF e, k

(* put, batch_lookup and delete up to their first command. *)
LEMMA BeginOK ==
    ASSUME PlacedInv, NEW r \in Replicas, Begin(r)
    PROVE  PlacedInv'
<1>1. UNCHANGED <<iac, proc, store, late>>
  BY DEF Begin
<1>2. StoreOK(store') /\ \A x \in late' : CommandOK(x)
  BY <1>1 DEF PlacedInv
<1>3. PICK q \in Requests :
         \/ UNCHANGED <<pc, loc>>
         \/ Move(r, FirstCommand[q.kind],
                 [NoLocals EXCEPT !.req = q,
                                  !.new = IF q.kind = "put" THEN NewEntry(r, q) ELSE @])
  BY DEF Begin
<1>4. CASE UNCHANGED <<pc, loc>>
  BY <1>1, <1>2, <1>4, SameLocals
<1>5. CASE ~ UNCHANGED <<pc, loc>>
  <2> DEFINE n == IF q.kind = "put" THEN NewEntry(r, q) ELSE NoEntry
             v == [req |-> q, new |-> n, i |-> 1, raw |-> <<>>, got |-> <<>>]
  <2>1. [NoLocals EXCEPT !.req = q, !.new = IF q.kind = "put" THEN NewEntry(r, q) ELSE @] = v
    BY BeginLocals
  <2>2. n # NoEntry => FirstCommand[q.kind] = "set"
    BY RolloutAssumption DEF FirstCommand
  <2>3. n # NoEntry => Placed(KeyAt(proc[r], v, 1), n)
    <3>1. proc[r] # "down"
      BY DEF Begin
    <3>2. KeyAt(proc[r], v, 1) = PhysicalKey(Running(r), q, q.keys[1])
      <4> HIDE DEF n
      <4> QED
        BY DEF KeyAt, Running
    <3> QED
      BY <3>1, <3>2, NewEntryPlaced
  <2>4. LocalsOK(proc[r], FirstCommand[q.kind], v)
    <3> HIDE DEF n
    <3> QED
      BY <2>2, <2>3 DEF LocalsOK, LocalsShape
  <2>5. Move(r, FirstCommand[q.kind], v)
    BY <1>3, <1>5, <2>1
  <2> HIDE DEF v
  <2> QED
    BY <1>1, <1>2, <2>4, <2>5, RequestStep
<1> QED
  BY <1>4, <1>5

(* The SET of a put, the DEL of a delete. *)
LEMMA WriteOK ==
    ASSUME PlacedInv, NEW r \in Replicas, Write(r)
    PROVE  PlacedInv'
<1>1. PICK x \in Pending(r) : store' = After(x)
  BY DEF Write
<1>2. StoreOK(store')
  BY <1>1, PendingOK, AfterOK DEF PlacedInv
<1>3. UNCHANGED <<iac, proc, late>> /\ Move(r, "idle", NoLocals)
  BY DEF Write, Done
<1>4. \A y \in late' : CommandOK(y)
  BY <1>3 DEF PlacedInv
<1> QED
  BY <1>2, <1>3, <1>4, NoLocalsOK, RequestStep

(* batch_lookup's MGET: what it returns at i lies under key i. *)
LEMMA MgetOK ==
    ASSUME PlacedInv, NEW r \in Replicas, Mget(r)
    PROVE  PlacedInv'
<1> DEFINE old == loc[r]
           raw == [i \in DOMAIN old.req.keys |-> Stored(Key(r, i))]
           got == [i \in DOMAIN old.req.keys |-> NoEntry]
           v   == [req |-> old.req, new |-> old.new, i |-> old.i, raw |-> raw, got |-> got]
<1>1. UNCHANGED <<iac, proc, store, late>> /\ pc[r] = "mget"
      /\ Move(r, "decode", [loc[r] EXCEPT !.raw = raw, !.got = got])
  BY DEF Mget
<1>2. LocalsOK(proc[r], "mget", old)
  BY <1>1 DEF PlacedInv
<1>3. [loc[r] EXCEPT !.raw = raw, !.got = got] = v
  <2>1. LocalsShape(old)
    BY <1>2 DEF LocalsOK
  <2> HIDE DEF raw, got
  <2> QED
    BY <2>1, MgetLocals
<1>4. \A i \in DOMAIN raw : raw[i] = NoEntry \/ Placed(KeyAt(proc[r], old, i), raw[i])
  BY DEF PlacedInv, StoreOK, Stored, Key, KeyAt, Running
<1>5. LocalsOK(proc[r], "decode", v)
  <2>1. \A i : KeyAt(proc[r], v, i) = KeyAt(proc[r], old, i)
    BY DEF KeyAt
  <2>2. DOMAIN got = DOMAIN raw /\ got = [i \in DOMAIN raw |-> got[i]]
        /\ \A i \in DOMAIN raw : got[i] = NoEntry
    OBVIOUS
  <2>3. old.new = NoEntry
    BY <1>2 DEF LocalsOK
  <2> HIDE DEF raw, got
  <2> QED
    BY <1>4, <2>1, <2>2, <2>3 DEF LocalsOK, LocalsShape
<1>6. StoreOK(store') /\ \A x \in late' : CommandOK(x)
  BY <1>1 DEF PlacedInv
<1>7. Move(r, "decode", v)
  BY <1>1, <1>3
<1> HIDE DEF v
<1> QED
  BY <1>1, <1>5, <1>6, <1>7, RequestStep

(* Whatever a batch reports of a key it read. *)
LEMMA ReportOK ==
    ASSUME PlacedInv, NEW r \in Replicas, pc[r] \in {"decode", "clean"},
           UNCHANGED <<iac, proc>>, StoreOK(store'), \A x \in late' : CommandOK(x),
           NEW e, Result(r, e), e = NoEntry \/ e = Raw(r)
    PROVE  PlacedInv'
<1> DEFINE m == IF loc[r].i = Len(loc[r].req.keys) THEN "return" ELSE "decode"
           v == [loc[r] EXCEPT !.got = [loc[r].got EXCEPT ![loc[r].i] = e],
                               !.i = loc[r].i + 1]
<1>1. Move(r, m, v)
  BY DEF Result
<1>2. LocalsOK(proc[r], pc[r], loc[r]) /\ loc[r].new = NoEntry
  BY DEF PlacedInv, LocalsOK
<1>3. loc[r].i \in DOMAIN loc[r].raw =>
         e = NoEntry \/ Placed(KeyAt(proc[r], loc[r], loc[r].i), e)
  BY <1>2 DEF LocalsOK, Raw
<1>4. LocalsOK(proc[r], m, v)
  BY <1>2, <1>3, ResultOK
<1> HIDE DEF m, v
<1> QED
  BY <1>1, <1>4, RequestStep

(* A miss, a hit, or an entry to be cleaned up. *)
LEMMA DecodeOK ==
    ASSUME PlacedInv, NEW r \in Replicas, Decode(r)
    PROVE  PlacedInv'
<1>1. UNCHANGED <<iac, proc, store, late>> /\ pc[r] = "decode"
  BY DEF Decode
<1>2. StoreOK(store') /\ \A x \in late' : CommandOK(x)
  BY <1>1 DEF PlacedInv
<1>3. CASE Result(r, NoEntry)
  BY <1>1, <1>2, <1>3, ReportOK
<1>4. CASE Result(r, Raw(r))
  BY <1>1, <1>2, <1>4, ReportOK
<1>5. CASE Move(r, "clean", loc[r])
  <2>1. LocalsOK(proc[r], "clean", loc[r])
    BY <1>1 DEF PlacedInv, LocalsOK
  <2> QED
    BY <1>1, <1>2, <1>5, <2>1, RequestStep
<1> QED
  BY <1>3, <1>4, <1>5 DEF Decode

(* _best_effort_delete, and a miss for that key. *)
LEMMA CleanOK ==
    ASSUME PlacedInv, NEW r \in Replicas, Clean(r)
    PROVE  PlacedInv'
<1>1. PICK x \in Pending(r) : store' = After(x)
  BY DEF Clean
<1>2. StoreOK(store')
  BY <1>1, PendingOK, AfterOK DEF PlacedInv
<1>3. UNCHANGED <<iac, proc, late>> /\ pc[r] = "clean" /\ Result(r, NoEntry)
  BY DEF Clean
<1>4. \A y \in late' : CommandOK(y)
  BY <1>3 DEF PlacedInv
<1> QED
  BY <1>2, <1>3, <1>4, ReportOK

(* A batch returns. *)
LEMMA ReturnOK ==
    ASSUME PlacedInv, NEW r \in Replicas, Return(r)
    PROVE  PlacedInv'
<1>1. UNCHANGED <<iac, proc, store, late>> /\ Move(r, "idle", NoLocals)
  BY DEF Return, Done
<1>2. StoreOK(store') /\ \A x \in late' : CommandOK(x)
  BY <1>1 DEF PlacedInv
<1> QED
  BY <1>1, <1>2, NoLocalsOK, RequestStep

(* An abandoned command is the one its replica was about to send. *)
LEMMA AbandonOK ==
    ASSUME PlacedInv, NEW r \in Replicas, Abandon(r)
    PROVE  \A x \in late' : CommandOK(x)
BY PendingOK DEF PlacedInv, Abandon

(* A command that fails at its caller. *)
LEMMA FailsOK ==
    ASSUME PlacedInv, NEW r \in Replicas, Fails(r)
    PROVE  PlacedInv'
<1>1. UNCHANGED <<iac, proc, store>> /\ Abandon(r)
  BY DEF Fails
<1>2. StoreOK(store') /\ \A x \in late' : CommandOK(x)
  BY <1>1, AbandonOK DEF PlacedInv
<1>3. CASE pc[r] = "clean"
  <2>1. Result(r, NoEntry)
    BY <1>3 DEF Fails
  <2> QED
    BY <1>1, <1>2, <1>3, <2>1, ReportOK
<1>4. CASE pc[r] # "clean"
  <2>1. Move(r, "idle", NoLocals)
    BY <1>4 DEF Fails, Done
  <2> QED
    BY <1>1, <1>2, <2>1, NoLocalsOK, RequestStep
<1> QED
  BY <1>3, <1>4

(* A replica stopped and started from the Binding deployed. *)
LEMMA RollOK ==
    ASSUME PlacedInv, NEW r \in Replicas, Roll(r)
    PROVE  PlacedInv'
<1> DEFINE n == IF iac \in Accepted THEN iac ELSE "down"
<1>1. /\ UNCHANGED <<iac, store>> /\ Abandon(r)
      /\ proc' = [proc EXCEPT ![r] = n] /\ proc = [s \in Replicas |-> proc[s]]
      /\ Move(r, "idle", NoLocals)
  BY DEF Roll, Done, PlacedInv
<1>2. StoreOK(store') /\ \A x \in late' : CommandOK(x)
  BY <1>1, AbandonOK DEF PlacedInv
<1>3. n = iac \/ n = "down"
  OBVIOUS
<1> HIDE DEF n
<1>4. /\ proc' = [s \in Replicas |-> proc'[s]]
      /\ proc'[r] = n
      /\ \A s \in Replicas \ {r} : proc'[s] = proc[s]
  BY <1>1
<1>5. /\ pc' = [s \in Replicas |-> pc'[s]]
      /\ loc' = [s \in Replicas |-> loc'[s]]
      /\ \A s \in Replicas : LocalsOK(proc'[s], pc'[s], loc'[s])
  BY <1>1, <1>4, NoLocalsOK, MoveOK
<1>6. Bindings[iac].settings.generation <= Bindings[iac].settings.generation
  BY RolloutAssumption DEF PlacedInv, GenerationsOK
<1>7. GenerationsOK'
  BY <1>1, <1>3, <1>4, <1>6 DEF PlacedInv, GenerationsOK
<1> QED
  BY <1>2, <1>4, <1>5, <1>7 DEF PlacedInv

(* Generations are only incremented, so the Binding deployed stays the     *)
(* newest.                                                                 *)
LEMMA DeployOK ==
    ASSUME PlacedInv, Deploy
    PROVE  PlacedInv'
<1>1. /\ iac' \in Names
      /\ Bindings[iac'].settings.generation >= Bindings[iac].settings.generation
      /\ UNCHANGED <<store, late, proc, pc, loc>>
  BY RolloutAssumption DEF Deploy
<1>2. \A n \in Names : Bindings[n].settings.generation \in Int
  BY RolloutAssumption
<1>3. GenerationsOK'
  BY <1>1, <1>2 DEF PlacedInv, GenerationsOK
<1> QED
  BY <1>1, <1>3 DEF PlacedInv

(* A late command was in order when it was left behind and still is. *)
LEMMA LateArrivesOK ==
    ASSUME PlacedInv, LateArrives
    PROVE  PlacedInv'
<1>1. PICK x \in late : store' = After(x) /\ late' = late \ {x}
  BY DEF LateArrives
<1>2. StoreOK(store') /\ \A y \in late' : CommandOK(y)
  BY <1>1, AfterOK DEF PlacedInv
<1>3. UNCHANGED <<iac, proc, pc, loc>>
  BY DEF LateArrives
<1> QED
  BY <1>2, <1>3, SameLocals

(* Damaged bytes stay where they are. *)
LEMMA DamageOK ==
    ASSUME PlacedInv, Damage
    PROVE  PlacedInv'
<1>1. PICK k \in DOMAIN store : store' = [store EXCEPT ![k].intact = FALSE]
  BY DEF Damage
<1>2. Placed(k, [store[k] EXCEPT !.intact = FALSE])
  BY PlacedStays DEF PlacedInv, StoreOK
<1>3. StoreOK(store')
  <2> DEFINE e == [store[k] EXCEPT !.intact = FALSE]
  <2>1. store' = [store EXCEPT ![k] = e]
    BY <1>1
  <2> HIDE DEF e
  <2>2. DOMAIN store' = DOMAIN store
    BY <2>1
  <2>3. \A j \in DOMAIN store : store'[j] = IF j = k THEN e ELSE store[j]
    BY <2>1
  <2>4. Placed(k, e)
    BY <1>2 DEF e
  <2> QED
    BY <2>2, <2>3, <2>4 DEF PlacedInv, StoreOK
<1>4. UNCHANGED <<iac, late, proc, pc, loc>>
  BY DEF Damage
<1> QED
  BY <1>3, <1>4, SameLocals DEF PlacedInv

(* Expiry only removes. *)
LEMMA TickOK ==
    ASSUME PlacedInv, Tick
    PROVE  PlacedInv'
<1>1. StoreOK(store')
  BY DEF Tick, PlacedInv, StoreOK
<1>2. UNCHANGED <<iac, late, proc, pc, loc>>
  BY DEF Tick
<1> QED
  BY <1>1, <1>2, SameLocals DEF PlacedInv

(* No entry, no command and no replica at first. *)
LEMMA PlacedInit == Init => PlacedInv
<1> SUFFICES ASSUME Init PROVE PlacedInv
  OBVIOUS
<1>1. \A r \in Replicas : loc[r] = NoLocals /\ proc[r] = "down"
  BY DEF Init
<1>2. iac \in Names
  BY RolloutAssumption DEF Init
<1>3. StoreOK(store)
  BY DEF Init, StoreOK
<1>4. /\ proc = [r \in Replicas |-> proc[r]]
      /\ pc = [r \in Replicas |-> pc[r]]
      /\ loc = [r \in Replicas |-> loc[r]]
  BY DEF Init
<1>5. late = {}
  BY DEF Init
<1> QED
  BY <1>1, <1>2, <1>3, <1>4, <1>5, NoLocalsOK DEF PlacedInv, GenerationsOK

(* Every step keeps entries and commands under their owners' keys. *)
LEMMA PlacedNext == PlacedInv /\ [Next]_vars => PlacedInv'
<1> SUFFICES ASSUME PlacedInv, [Next]_vars PROVE PlacedInv'
  OBVIOUS
<1>1. ASSUME NEW r \in Replicas,
             Begin(r) \/ Write(r) \/ Mget(r) \/ Decode(r) \/ Clean(r) \/ Return(r)
               \/ Fails(r) \/ Roll(r)
      PROVE  PlacedInv'
  BY <1>1, BeginOK, WriteOK, MgetOK, DecodeOK, CleanOK, ReturnOK, FailsOK, RollOK
<1>2. CASE Deploy \/ LateArrives \/ Damage \/ Tick
  BY <1>2, DeployOK, LateArrivesOK, DamageOK, TickOK
<1>3. CASE UNCHANGED vars
  BY <1>3, SameLocals DEF vars, PlacedInv
<1> QED
  BY <1>1, <1>2, <1>3 DEF Next, Finished

-----------------------------------------------------------------------------
(* Every entry lies under a key of its owner and of no newer generation,   *)
(* whatever commands of whichever replicas arrive late.                    *)
THEOREM PlacedInvariant == Spec => []PlacedInv
<1> QED
  BY PlacedInit, PlacedNext, PTL DEF Spec

(* A result that is a hit lies under the key at its place. *)
LEMMA GotIsPlaced ==
    ASSUME PlacedInv, NEW r \in Replicas, NEW i \in DOMAIN loc[r].got,
           loc[r].got[i] # NoEntry
    PROVE  Placed(PhysicalKey(Running(r), loc[r].req, loc[r].req.keys[i]), loc[r].got[i])
<1>1. LocalsOK(proc[r], pc[r], loc[r])
  BY DEF PlacedInv
<1>2. i \in DOMAIN loc[r].raw
  BY <1>1 DEF LocalsOK
<1> QED
  BY <1>1, <1>2 DEF LocalsOK, KeyAt, Running

(* HitsAreOwn: no batch of any replica, under any settings, returns an     *)
(* entry of another namespace, scope, Resource, logical key or Schema, or  *)
(* returns one at another key's place.                                     *)
THEOREM HitsAreOwnAlways == Spec => []HitsAreOwn
<1>1. PlacedInv => HitsAreOwn
  BY GotIsPlaced, PlacedIsOwn DEF HitsAreOwn
<1> QED
  BY <1>1, PlacedInvariant, PTL

(* OldGenerationUnreachable: once a replica runs generation g, all it      *)
(* returns was put after g was deployed.                                   *)
THEOREM OldGenerationNeverReached == Spec => []OldGenerationUnreachable
<1>1. PlacedInv => OldGenerationUnreachable
  BY GotIsPlaced, PlacedIsOwn DEF OldGenerationUnreachable
<1> QED
  BY <1>1, PlacedInvariant, PTL

-----------------------------------------------------------------------------
(* Time and damage are counted. *)
Counting == now \in Nat /\ damaged \in Nat

(* Time and damage only count up. *)
LEMMA CountingNext == Counting /\ [Next]_vars => Counting'
<1> SUFFICES ASSUME Counting, [Next]_vars PROVE Counting'
  OBVIOUS
<1>1. UNCHANGED <<now, damaged>> \/ (now' = now + 1 /\ UNCHANGED damaged)
        \/ (damaged' = damaged + 1 /\ UNCHANGED now)
  BY DEF Next, vars, Begin, Write, Mget, Decode, Clean, Return, Fails, Roll, Deploy,
         LateArrives, Damage, Tick, Finished
<1> QED
  BY <1>1 DEF Counting

(* A command reaches its own key and what lies there is its owner's. *)
LEMMA CommandReachesOwn ==
    ASSUME NEW x, CommandOK(x), StoreOK(store), NEW k \in DOMAIN store,
           k \notin DOMAIN After(x) \/ After(x)[k] # store[k]
    PROVE  x.key = k /\ x.owner = store[k].owner
<1>1. x.key = k
  BY DEF After
<1>2. Under(k, x.owner) /\ Under(k, store[k].owner)
  BY <1>1 DEF CommandOK, StoreOK, Placed
<1> QED
  BY <1>1, <1>2, OwnerUnique

(* A step that is neither expiry nor damage changes the store by one       *)
(* pending or late command, or not at all.                                 *)
LEMMA StoreStep ==
    ASSUME Counting, [Next]_vars, now' = now, damaged' = damaged
    PROVE  \/ store' = store
           \/ \E x \in late \cup UNION {Pending(r) : r \in Replicas} : store' = After(x)
<1>1. ASSUME NEW r \in Replicas, Write(r) \/ Clean(r)
      PROVE  \E x \in UNION {Pending(s) : s \in Replicas} : store' = After(x)
  <2>1. PICK x \in Pending(r) : store' = After(x)
    BY <1>1 DEF Write, Clean
  <2> QED
    BY <2>1
<1>2. CASE LateArrives
  BY <1>2 DEF LateArrives
<1>3. ~ Damage /\ ~ Tick
  BY DEF Damage, Tick, Counting
<1>4. ASSUME NEW r \in Replicas,
             Begin(r) \/ Mget(r) \/ Decode(r) \/ Return(r) \/ Fails(r) \/ Roll(r)
      PROVE  store' = store
  BY <1>4 DEF Begin, Mget, Decode, Return, Fails, Roll
<1>5. CASE Deploy \/ UNCHANGED vars
  BY <1>5 DEF Deploy, vars
<1> QED
  BY <1>1, <1>2, <1>3, <1>4, <1>5 DEF Next, Finished

(* ForeignUntouched: between expiry and damage, an entry is replaced or    *)
(* removed only by a put, delete, cleanup or late command of its owner.    *)
THEOREM ForeignNeverTouched == Spec => ForeignUntouched
<1>1. Init => Counting
  BY DEF Init, Counting
<1>2. ASSUME PlacedInv, Counting, [Next]_vars, NEW k \in DOMAIN store,
             now' = now, damaged' = damaged,
             k \notin DOMAIN store' \/ (k \in DOMAIN store' /\ store'[k] # store[k])
      PROVE  \E x \in late \cup UNION {Pending(r) : r \in Replicas} :
                x.key = k /\ x.owner = store[k].owner
  <2>1. PICK x \in late \cup UNION {Pending(r) : r \in Replicas} : store' = After(x)
    BY <1>2, StoreStep
  <2>2. CommandOK(x)
    BY PendingOK, <1>2 DEF PlacedInv
  <2> QED
    BY <1>2, <2>1, <2>2, CommandReachesOwn DEF PlacedInv
<1>3. PlacedInv /\ Counting /\ [Next]_vars
        => [\A k \in DOMAIN store :
              now' = now /\ damaged' = damaged
                 /\ (k \notin DOMAIN store' \/ (k \in DOMAIN store' /\ store'[k] # store[k]))
              => \E x \in late \cup UNION {Pending(r) : r \in Replicas} :
                    x.key = k /\ x.owner = store[k].owner]_vars
  BY <1>2
<1> QED
  BY <1>1, <1>3, CountingNext, PlacedInvariant, PTL DEF Spec, ForeignUntouched

-----------------------------------------------------------------------------
(* Key material has its five fields. *)
LEMMA MaterialShape ==
    ASSUME NEW b, NEW m \in Materials(b)
    PROVE  m = [scope |-> m.scope, resource |-> m.resource, key |-> m.key,
                schema |-> m.schema, group |-> m.group]
BY DEF Materials, Material

(* The digest holds the material but for the group, the tag the group. *)
LEMMA EncodeInjective ==
    ASSUME NEW c, NEW d, NEW l, NEW m, Encode(c, l) = Encode(d, m)
    PROVE  /\ c.namespace = d.namespace /\ c.generation = d.generation
           /\ l.scope = m.scope /\ l.resource = m.resource /\ l.key = m.key
           /\ l.schema = m.schema /\ l.group = m.group
<1>1. Prefix(c) = Prefix(d) /\ GroupTag(c, l) = GroupTag(d, m)
      /\ Sha256(Body(c, l)) = Sha256(Body(d, m))
  BY DEF Encode
<1>2. c.generation = d.generation /\ Sha256(c.namespace) = Sha256(d.namespace)
  BY <1>1 DEF Prefix
<1>3. Body(c, l) = Body(d, m) /\ c.namespace = d.namespace
  BY <1>1, <1>2 DEF Sha256
<1>4. l.scope = m.scope /\ l.resource = m.resource /\ l.key = m.key /\ l.schema = m.schema
  BY <1>3 DEF Body
<1>5. l.group = m.group
  <2> DEFINE u == [scope |-> l.scope, resource |-> l.resource, group |-> l.group,
                   generation |-> c.generation]
             w == [scope |-> m.scope, resource |-> m.resource, group |-> m.group,
                   generation |-> d.generation]
  <2>1. CASE l.group = NoGroup \/ m.group = NoGroup
    BY <1>1, <2>1 DEF GroupTag, NoTag, Sha256
  <2>2. CASE l.group # NoGroup /\ m.group # NoGroup
    <3>1. <<Sha256(u)>> = <<Sha256(w)>>
      BY <1>1, <2>2 DEF GroupTag
    <3> HIDE DEF u, w
    <3>2. u = w
      BY <3>1 DEF Sha256
    <3> QED
      BY <3>2 DEF u, w
  <2> QED
    BY <2>1, <2>2
<1> QED
  BY <1>2, <1>3, <1>4, <1>5

(* KeysApart: physical keys tell namespaces, generations and key material  *)
(* apart; a lease key is no data key, guards one data key and shares its   *)
(* group's slot.                                                           *)
THEOREM KeysStayApart == Spec => []KeysApart
<1>1. ASSUME NEW a, NEW b, NEW l \in Materials(a), NEW m \in Materials(b)
      PROVE  /\ Encode(Encoder(a), l) = Encode(Encoder(b), m) =>
                    <<a.namespace, a.settings.generation, l>>
                        = <<b.namespace, b.settings.generation, m>>
             /\ LeaseKey(Encoder(a), Encode(Encoder(a), l)) # Encode(Encoder(b), m)
             /\ LeaseKey(Encoder(a), Encode(Encoder(a), l))
                   = LeaseKey(Encoder(b), Encode(Encoder(b), m))
                 => Encode(Encoder(a), l) = Encode(Encoder(b), m)
             /\ l.group # NoGroup =>
                   SharedHashSlot({Encode(Encoder(a), l),
                                   LeaseKey(Encoder(a), Encode(Encoder(a), l))})
  <2> DEFINE d == Encode(Encoder(a), l)
             e == Encode(Encoder(b), m)
  <2>1. ASSUME d = e
        PROVE  <<a.namespace, a.settings.generation, l>>
                 = <<b.namespace, b.settings.generation, m>>
    <3>1. /\ Encoder(a).namespace = Encoder(b).namespace
          /\ Encoder(a).generation = Encoder(b).generation
          /\ l.scope = m.scope /\ l.resource = m.resource /\ l.key = m.key
          /\ l.schema = m.schema /\ l.group = m.group
      BY <2>1, EncodeInjective
    <3>2. l = m
      BY <3>1, MaterialShape
    <3>3. a.namespace = b.namespace /\ a.settings.generation = b.settings.generation
      BY <3>1 DEF Encoder
    <3> QED
      BY <3>2, <3>3
  <2>2. LeaseKey(Encoder(a), d) # e
    <3>1. LeaseKey(Encoder(a), d).kind = "l" /\ e.kind = "d"
      BY DEF LeaseKey, Encode
    <3> QED
      BY <3>1
  <2>3. LeaseKey(Encoder(a), d) = LeaseKey(Encoder(b), e) => d = e
    <3> HIDE DEF d, e
    <3>1. LeaseKey(Encoder(a), d) = LeaseKey(Encoder(b), e) => Sha256(d) = Sha256(e)
      BY DEF LeaseKey
    <3> QED
      BY <3>1 DEF Sha256
  <2>4. l.group # NoGroup => SharedHashSlot({d, LeaseKey(Encoder(a), d)})
    <3>1. d.tag = GroupTag(Encoder(a), l) /\ LeaseKey(Encoder(a), d).tag = d.tag
      BY DEF LeaseKey, Encode
    <3>2. l.group # NoGroup => d.tag # NoTag
      BY <3>1 DEF GroupTag, NoTag
    <3> HIDE DEF d
    <3> QED
      BY <3>1, <3>2 DEF SharedHashSlot, HashSlot
  <2> QED
    BY <2>1, <2>2, <2>3, <2>4
<1>2. AllApart
  BY <1>1 DEF AllApart
<1> QED
  BY <1>2, PTL DEF KeysApart
=============================================================================
