------------------------------ MODULE CacheOps ------------------------------
(***************************************************************************)
(* The typed operations of ValkeyCache on one key, step by step: lookup,   *)
(* put, put_if_absent, compare_and_set, delete, and AtomicExecutor's       *)
(* numeric increment.  Each engine command is one step; decoding and       *)
(* encoding between two commands read the clock at a moment of their own.  *)
(* A failed command may never be executed or be executed later.  The       *)
(* engine may lose its data but is not replaced by a lagging replica.      *)
(***************************************************************************)
EXTENDS Envelope, FiniteSets

CONSTANTS
    Clients,    \* concurrent users of the cache
    Kinds,      \* operations they use
    Values,     \* values they write
    Sources,    \* source versions they give put and put_if_absent
    NonNumeric, \* written values that are no numbers, out of increments' reach
    Amount,     \* increment amount
    Retries,    \* increment's retry bound
    Faults,     \* which faults of the environment may happen
    MaxOps,     \* bound: operations of each client
    MaxTime,    \* bound: time
    MaxLate     \* bound: abandoned commands on their way at once

OpKinds == {"lookup", "put", "pifa", "cas", "delete", "incr"}
FaultKinds == {"drop", "late", "execloss", "restart", "damage", "encode"}

ASSUME OpsAssumption ==
    /\ Kinds \subseteq OpKinds
    /\ Values \subseteq Nat /\ Sources \subseteq Nat /\ Amount \in Nat
    /\ Retries \in Nat \ {0}
    /\ Faults \subseteq FaultKinds
    /\ MaxOps \in Nat /\ MaxTime \in Nat /\ MaxLate \in Nat

VARIABLES
    now,     \* time, the same for the engine and every client
    entry,   \* the key in the engine, [env, px]
    scripts, \* the CAS script is in the script cache
    watch,   \* engine: state of each client connection's WATCH on the key
    late,    \* commands whose client saw an error, not executed yet
    pc, loc, \* control point and locals of each client's operation
    seen,    \* envelope a client last obtained, source of expected versions
    ops,     \* number of operations each client has begun
    res      \* outcome of each client's latest operation

vars == <<now, entry, scripts, watch, late, pc, loc, seen, ops, res>>

NoEntry == [env |-> NoEnvelope, px |-> 0]

NoRequest == [id |-> <<>>, kind |-> "none", val |-> 0, expect |-> <<>>]

(* buf: the envelope fetched; new: the one to write; tries: increments's   *)
(* attempts so far; out: what the engine decided; hits: ghost, how often   *)
(* the increment in progress was executed.                                 *)
NoLocals == [req |-> NoRequest, src |-> 0, buf |-> NoEnvelope, new |-> NoEnvelope,
             tries |-> 0, out |-> "none", hits |-> 0]

Outcomes == {"none", "done", "refused", "error"}

Pcs == {"idle", "get", "decode", "discard", "encode", "set", "setnx", "evalcas",
        "reload", "reeval", "del", "watch", "wget", "wdecode", "exec", "verify", "reply"}

(* compare_and_set and increment do not select the negative TTL. *)
PlainTtl == Least(Ttl, Least(MaxTtl, MaxStaleness))

(* expected_version in {current.envelope_version, current.source_version} *)
Expected(e, expect) == expect \in {Version(e), <<e.src>>}

-----------------------------------------------------------------------------
(* Engine commands on the key. *)

Command(o, c) == [op |-> o, req |-> loc[c].req, env |-> loc[c].new,
                  ver |-> Version(loc[c].buf)]

Cleanup(c) == [op |-> "cleanup", req |-> NoRequest, env |-> NoEnvelope, ver |-> <<>>]

Stored(e) == [env |-> e, px |-> now + (e.expires - e.created)]

(* CAS_SCRIPT compares the version prefix of whatever bytes are there. *)
ScriptMatchesAny(ver) == entry # NoEntry

ScriptMatches(ver) ==
    entry # NoEntry /\ entry.env.frame # "foreign" /\ Version(entry.env) = ver

(* The command changes the key. *)
Applies(x) ==
    CASE x.op = "setnx" -> entry = NoEntry
      [] x.op = "cas"   -> scripts /\ ScriptMatches(x.ver)
      [] OTHER          -> TRUE

EntryAfter(x) ==
    CASE ~ Applies(x)                 -> entry
      [] x.op \in {"del", "cleanup"}  -> NoEntry
      [] OTHER                        -> Stored(x.env)

(* A key that is written, removed or expires invalidates every WATCH on it. *)
Touched == [d \in Clients |-> IF watch[d] = "clean" THEN "dirty" ELSE watch[d]]

Executes(x) ==
    /\ entry' = EntryAfter(x)
    /\ watch' = IF Applies(x) /\ <<entry, entry'>> # <<NoEntry, NoEntry>>
                THEN Touched ELSE watch

(* The client sees a ValkeyError; the command is not, or not yet, executed. *)
Fails(x) ==
    /\ \/ "drop" \in Faults /\ late' = late
       \/ "late" \in Faults /\ Cardinality(late) < MaxLate /\ late' = late \cup {x}
    /\ UNCHANGED <<entry, scripts>>

Unreachable == Faults \cap {"drop", "late"} # {}

-----------------------------------------------------------------------------
(* Control. *)

Move(c, l, r) ==
    /\ pc' = [pc EXCEPT ![c] = l]
    /\ loc' = [loc EXCEPT ![c] = r]

(* The operation ends with outcome k; increment's pipeline.reset unwatches. *)
Return(c, k) ==
    /\ Move(c, "idle", NoLocals)
    /\ res' = [res EXCEPT ![c] = k]
    /\ watch' = [watch EXCEPT ![c] = "off"]

(* The engine decided; the client has yet to act on the reply. *)
Decided(c, l, o) == Move(c, l, [loc[c] EXCEPT !.out = o])

FirstPc(k) == CASE k \in {"lookup", "cas"} -> "get"
                [] k \in {"put", "pifa"}   -> "encode"
                [] k = "delete"            -> "del"
                [] k = "incr"              -> "watch"

(* Expected versions are ones the client was given before. *)
Begin(c) ==
    /\ pc[c] = "idle" /\ ops[c] < MaxOps
    /\ \E k \in Kinds, v \in Values, s \in Sources, x \in {Version(seen[c]), <<seen[c].src>>} :
          Move(c, FirstPc(k),
               [NoLocals EXCEPT
                  !.req = [id |-> <<c, ops[c] + 1>>, kind |-> k,
                           val |-> IF k \in {"put", "pifa", "cas"} THEN v ELSE 0,
                           expect |-> IF k = "cas" THEN x ELSE <<>>],
                  !.src = IF k \in {"put", "pifa"} THEN s ELSE 0])
    /\ ops' = [ops EXCEPT ![c] = @ + 1]
    /\ res' = [res EXCEPT ![c] = "none"]
    /\ UNCHANGED <<now, entry, scripts, watch, late, seen>>

(* lookup, compare_and_set: GET. *)
Get(c) ==
    /\ pc[c] = "get"
    /\ \/ entry = NoEntry /\ Return(c, "refused")
       \/ /\ entry # NoEntry
          /\ Move(c, "decode", [loc[c] EXCEPT !.buf = entry.env])
          /\ UNCHANGED <<watch, res>>
    /\ UNCHANGED <<now, entry, scripts, late, seen, ops>>

(* A valid envelope is the hit, or is compared with the expected version;  *)
(* anything else is discarded.                                             *)
Decode(c) ==
    /\ pc[c] = "decode"
    /\ \/ /\ Decodes(loc[c].buf, now) /\ loc[c].req.kind = "lookup"
          /\ seen' = [seen EXCEPT ![c] = loc[c].buf]
          /\ Return(c, "done")
       \/ /\ Decodes(loc[c].buf, now) /\ loc[c].req.kind = "cas"
          /\ ~ Expected(loc[c].buf, loc[c].req.expect)
          /\ seen' = [seen EXCEPT ![c] = loc[c].buf]
          /\ Return(c, "refused")
       \/ /\ Decodes(loc[c].buf, now) /\ loc[c].req.kind = "cas"
          /\ Expected(loc[c].buf, loc[c].req.expect)
          /\ Move(c, "encode", loc[c])
          /\ UNCHANGED <<watch, seen, res>>
       \/ /\ ~ Decodes(loc[c].buf, now)
          /\ Move(c, "discard", loc[c])
          /\ UNCHANGED <<watch, seen, res>>
    /\ UNCHANGED <<now, entry, scripts, late, ops>>

(* _best_effort_delete: DEL whatever is there now; errors are swallowed. *)
Discard(c) ==
    /\ pc[c] = "discard"
    /\ \/ Executes(Cleanup(c)) /\ UNCHANGED <<scripts, late>>
       \/ Fails(Cleanup(c)) /\ UNCHANGED watch
    /\ Decided(c, "reply", "refused")
    /\ UNCHANGED <<now, seen, ops, res>>

(* put, put_if_absent with the effective TTL; compare_and_set keeps the    *)
(* source version of the envelope it replaces.                             *)
NewEnvelope(c) ==
    LET r == loc[c].req
    IN  IF r.kind = "cas" THEN Encoded(r.val, loc[c].buf.src, PlainTtl, now, now)
                          ELSE Encoded(r.val, loc[c].src, EffectiveTtl(r.val), now, now)

Encode(c) ==
    /\ pc[c] = "encode"
    /\ Move(c, CASE loc[c].req.kind = "put"  -> "set"
                 [] loc[c].req.kind = "pifa" -> "setnx"
                 [] loc[c].req.kind = "cas"  -> "evalcas",
            [loc[c] EXCEPT !.new = NewEnvelope(c)])
    /\ UNCHANGED <<now, entry, scripts, watch, late, seen, ops, res>>

(* SET PX and SET NX PX. *)
Set(c) ==
    /\ pc[c] \in {"set", "setnx"}
    /\ Executes(Command(pc[c], c))
    /\ Decided(c, "verify", IF Applies(Command(pc[c], c)) THEN "done" ELSE "refused")
    /\ UNCHANGED <<now, scripts, late, seen, ops, res>>

(* DEL; delete reports whether there was anything to delete, which counts  *)
(* as done either way.                                                     *)
Delete(c) ==
    /\ pc[c] = "del"
    /\ Executes(Command("del", c))
    /\ Decided(c, "reply", "done")
    /\ UNCHANGED <<now, scripts, late, seen, ops, res>>

(* EVALSHA of the CAS script: 1, or one of -1, -2 and 0, with which the    *)
(* caller is given the envelope it was compared with.                      *)
EvalCas(c) ==
    /\ pc[c] \in {"evalcas", "reeval"} /\ scripts
    /\ Executes(Command("cas", c))
    /\ \/ /\ Applies(Command("cas", c))
          /\ Decided(c, "verify", "done")
          /\ UNCHANGED seen
       \/ /\ ~ Applies(Command("cas", c))
          /\ Decided(c, "reply", "refused")
          /\ seen' = [seen EXCEPT ![c] = loc[c].buf]
    /\ UNCHANGED <<now, scripts, late, ops, res>>

EvalNoScript(c) ==
    /\ pc[c] = "evalcas" /\ ~ scripts
    /\ Move(c, "reload", loc[c])
    /\ UNCHANGED <<now, entry, scripts, watch, late, seen, ops, res>>

ReloadScript(c) ==
    /\ pc[c] = "reload"
    /\ scripts' = TRUE
    /\ Move(c, "reeval", loc[c])
    /\ UNCHANGED <<now, entry, watch, late, seen, ops, res>>

(* The operation raises: GET, SET, DEL, EVALSHA, SCRIPT LOAD or WATCH      *)
(* failed, the script was gone again right after it was loaded, or the     *)
(* TTL or the value does not pass the effective TTL's or encode's checks.  *)
Raise(c) ==
    /\ \/ /\ pc[c] = "encode" /\ "encode" \in Faults
          /\ UNCHANGED <<entry, scripts, late>>
       \/ /\ pc[c] \in {"get", "reload", "watch"} /\ Unreachable
          /\ UNCHANGED <<entry, scripts, late>>
       \/ pc[c] \in {"set", "setnx", "del"} /\ Fails(Command(pc[c], c))
       \/ pc[c] \in {"evalcas", "reeval"} /\ Fails(Command("cas", c))
       \/ pc[c] = "reeval" /\ ~ scripts /\ UNCHANGED <<entry, scripts, late>>
    /\ Return(c, "error")
    /\ UNCHANGED <<now, seen, ops>>

(* put, put_if_absent, a swapped compare_and_set and increment end by      *)
(* decoding the envelope they sent, which may have expired meanwhile.      *)
Verify(c) ==
    /\ pc[c] = "verify"
    /\ \/ /\ Decodes(loc[c].new, now)
          /\ seen' = [seen EXCEPT ![c] = loc[c].new]
          /\ Return(c, loc[c].out)
       \/ /\ ~ Decodes(loc[c].new, now)
          /\ Return(c, "error")
          /\ UNCHANGED seen
    /\ UNCHANGED <<now, entry, scripts, late, ops>>

Reply(c) ==
    /\ pc[c] = "reply"
    /\ Return(c, loc[c].out)
    /\ UNCHANGED <<now, entry, scripts, late, seen, ops>>

-----------------------------------------------------------------------------
(* increment: WATCH, GET, decode and add, MULTI/SET/EXEC, at most Retries  *)
(* times while the key changes under it.                                   *)

Watch(c) ==
    /\ pc[c] = "watch"
    /\ watch' = [watch EXCEPT ![c] = "clean"]
    /\ Move(c, "wget", [loc[c] EXCEPT !.tries = @ + 1])
    /\ UNCHANGED <<now, entry, scripts, late, seen, ops, res>>

WatchedGet(c) ==
    /\ pc[c] = "wget" /\ watch[c] # "broken"
    /\ \/ entry = NoEntry /\ Return(c, "refused")
       \/ /\ entry # NoEntry
          /\ Move(c, "wdecode", [loc[c] EXCEPT !.buf = entry.env])
          /\ UNCHANGED <<watch, res>>
    /\ UNCHANGED <<now, entry, scripts, late, seen, ops>>

Add(c) ==
    /\ pc[c] = "wdecode"
    /\ LET e == loc[c].buf
       IN  \/ /\ Decodes(e, now) /\ e.val \notin NonNumeric
              /\ Move(c, "exec", [loc[c] EXCEPT
                    !.new = Encoded(e.val + Amount, e.src, PlainTtl, now, now)])
              /\ UNCHANGED <<watch, res>>
           \/ ~ (Decodes(e, now) /\ e.val \notin NonNumeric) /\ Return(c, "refused")
    /\ UNCHANGED <<now, entry, scripts, late, seen, ops>>

(* EXEC is executed unless the watched key was touched. *)
ExecAllowed(c) == watch[c] = "clean"

Exec(c) ==
    /\ pc[c] = "exec" /\ ExecAllowed(c)
    /\ entry' = Stored(loc[c].new)
    /\ watch' = [Touched EXCEPT ![c] = "off"]
    /\ Move(c, "verify", [loc[c] EXCEPT !.out = "done", !.hits = @ + 1])
    /\ UNCHANGED <<now, scripts, late, seen, ops, res>>

(* WatchError: once more, or give up after the bound. *)
RetryForever(c) ==
    /\ Move(c, "watch", [loc[c] EXCEPT !.tries = 0, !.buf = NoEnvelope, !.new = NoEnvelope])
    /\ watch' = [watch EXCEPT ![c] = "off"]
    /\ UNCHANGED res

RetryOneMore(c) ==
    IF loc[c].tries <= Retries
    THEN /\ Move(c, "watch", [loc[c] EXCEPT !.buf = NoEnvelope, !.new = NoEnvelope])
         /\ watch' = [watch EXCEPT ![c] = "off"]
         /\ UNCHANGED res
    ELSE Return(c, "error")

Retry(c) ==
    IF loc[c].tries < Retries
    THEN /\ Move(c, "watch", [loc[c] EXCEPT !.buf = NoEnvelope, !.new = NoEnvelope])
         /\ watch' = [watch EXCEPT ![c] = "off"]
         /\ UNCHANGED res
    ELSE Return(c, "error")

ExecConflict(c) ==
    /\ pc[c] = "exec" /\ ~ ExecAllowed(c)
    /\ Retry(c)
    /\ UNCHANGED <<now, entry, scripts, late, seen, ops>>

(* The client library turns a connection failure on a watching connection  *)
(* into WatchError, so the attempt is repeated, ...                        *)
WatchedFails(c) ==
    /\ \/ pc[c] = "wget" /\ (Unreachable \/ watch[c] = "broken")
       \/ pc[c] = "exec" /\ Unreachable
    /\ Retry(c)
    /\ UNCHANGED <<now, entry, scripts, late, seen, ops>>

(* ... also when EXEC was executed and only its reply was lost. *)
ExecLost(c) ==
    /\ pc[c] = "exec" /\ ExecAllowed(c) /\ "execloss" \in Faults
    /\ entry' = Stored(loc[c].new)
    /\ IF loc[c].tries < Retries
       THEN /\ Move(c, "watch", [loc[c] EXCEPT
                  !.buf = NoEnvelope, !.new = NoEnvelope, !.hits = @ + 1])
            /\ UNCHANGED res
       ELSE Move(c, "idle", NoLocals) /\ res' = [res EXCEPT ![c] = "error"]
    /\ watch' = [Touched EXCEPT ![c] = "off"]
    /\ UNCHANGED <<now, scripts, late, seen, ops>>

-----------------------------------------------------------------------------
(* Environment. *)

Tick ==
    /\ now < MaxTime
    /\ now' = now + 1
    /\ IF entry # NoEntry /\ entry.px <= now + 1
       THEN entry' = NoEntry /\ watch' = Touched
       ELSE UNCHANGED <<entry, watch>>
    /\ UNCHANGED <<scripts, late, pc, loc, seen, ops, res>>

LateArrives ==
    /\ \E x \in late : Executes(x) /\ late' = late \ {x}
    /\ UNCHANGED <<now, scripts, pc, loc, seen, ops, res>>

(* Persistence is off by policy; connections break. *)
Restart ==
    /\ "restart" \in Faults
    /\ entry' = NoEntry /\ scripts' = FALSE
    /\ watch' = [c \in Clients |-> IF watch[c] = "off" THEN "off" ELSE "broken"]
    /\ UNCHANGED <<now, late, pc, loc, seen, ops, res>>

Damage ==
    /\ "damage" \in Faults /\ entry.env.frame = "intact"
    /\ \E f \in Frames \ {"intact"} : entry' = [entry EXCEPT !.env.frame = f]
    /\ UNCHANGED <<now, scripts, watch, late, pc, loc, seen, ops, res>>

Finished ==
    /\ \A c \in Clients : pc[c] = "idle" /\ ops[c] = MaxOps
    /\ UNCHANGED vars

(* Every client has seen the envelope an earlier put left, or tried to. *)
Init ==
    /\ now = 0
    /\ \E v \in Values, s \in Sources :
          LET e == Encoded(v, s, EffectiveTtl(v), 0, 0)
          IN  entry \in {NoEntry, Stored(e)} /\ seen = [c \in Clients |-> e]
    /\ scripts \in BOOLEAN
    /\ watch = [c \in Clients |-> "off"]
    /\ late = {}
    /\ pc = [c \in Clients |-> "idle"]
    /\ loc = [c \in Clients |-> NoLocals]
    /\ ops = [c \in Clients |-> 0]
    /\ res = [c \in Clients |-> "none"]

Step(c) ==
    \/ Get(c) \/ Decode(c) \/ Discard(c) \/ Encode(c) \/ Set(c) \/ Delete(c)
    \/ EvalCas(c) \/ EvalNoScript(c) \/ ReloadScript(c) \/ Verify(c) \/ Reply(c)
    \/ Raise(c)
    \/ Watch(c) \/ WatchedGet(c) \/ Add(c) \/ Exec(c) \/ ExecConflict(c)
    \/ WatchedFails(c) \/ ExecLost(c)

Next ==
    \/ \E c \in Clients : Begin(c) \/ Step(c)
    \/ Tick \/ LateArrives \/ Restart \/ Damage
    \/ Finished

Spec == Init /\ [][Next]_vars

(* Commands answer or time out, and threads are scheduled. *)
FairSpec == Spec /\ \A c \in Clients : WF_vars(Step(c))

-----------------------------------------------------------------------------
Requests == [id : {<<>>} \cup (Clients \X Nat), kind : OpKinds \cup {"none"},
             val : Nat, expect : {<<>>} \cup {<<n>> : n \in Sources}
                               \cup (Nat \X Nat \X Nat \X Nat)]

(* Every variable keeps its type: the control points, outcomes and retry   *)
(* bound of the operations and the shape of the engine's key.              *)
TypeOK ==
    /\ now \in Nat
    /\ entry \in [env : EnvelopeType, px : Nat]
    /\ scripts \in BOOLEAN
    /\ watch \in [Clients -> {"off", "clean", "dirty", "broken"}]
    /\ \A x \in late : /\ x.op \in {"set", "setnx", "cas", "del", "cleanup"}
                       /\ x.req \in Requests /\ x.env \in EnvelopeType
    /\ pc \in [Clients -> Pcs]
    /\ loc \in [Clients -> [req : Requests, src : Nat, buf : EnvelopeType,
                           new : EnvelopeType, tries : 0 .. Retries,
                           out : Outcomes, hits : Nat]]
    /\ seen \in [Clients -> EnvelopeType]
    /\ ops \in [Clients -> Nat]
    /\ res \in [Clients -> Outcomes]

Atomic == INSTANCE AtomicCache WITH
    cell  <- entry.env,
    call  <- [c \in Clients |-> loc[c].req],
    eff   <- [c \in Clients |-> loc[c].out = "done"],
    ret   <- res,
    limbo <- {x.req : x \in {y \in late : y.op # "cleanup"}}

(* put, put_if_absent, compare_and_set, delete and increment implement     *)
(* AtomicCache: however their commands interleave, fail, arrive late or    *)
(* meet a restarted engine, each takes effect at most once and atomically, *)
(* a swap replaces what the caller expected, an increment adds to exactly  *)
(* the value it replaces, and the reported outcome is the real one.        *)
ImplementsAtomicCache == Atomic!AbsSpec

(* Every operation ends, increment under endless connection failures by    *)
(* its retry bound.                                                        *)
OpsReturn == \A c \in Clients : []<>(pc[c] = "idle")

(* What increment's docstring says ("Atomically increment"): one call adds *)
(* its amount once.                                                        *)
IncrementOnce == \A c \in Clients : loc[c].hits <= 1
=============================================================================
