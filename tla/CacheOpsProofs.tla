--------------------------- MODULE CacheOpsProofs ---------------------------
(***************************************************************************)
(* Proofs about CacheOps, for any clients, values, source versions, TTLs,  *)
(* retry bounds and faults: its types, and, unless the reply of an EXEC    *)
(* can be lost, that it implements AtomicCache.                            *)
(***************************************************************************)
EXTENDS CacheOps, TLAPS

Locals == [req : Requests, src : Nat, buf : EnvelopeType, new : EnvelopeType,
           tries : 0 .. Retries, out : Outcomes, hits : Nat]

(* An envelope some operation encoded, whatever became of its bytes. *)
Real(e) == e \in EnvelopeType /\ e.created < e.expires /\ e.src \in Sources

Fresh(e) == Real(e) /\ e.frame = "intact"

(* The places of compare_and_set after its comparison, ... *)
Comparing(l, k) == l \in {"evalcas", "reload", "reeval"} \/ (l = "encode" /\ k = "cas")

(* ... and the operations that come by a place. *)
KindsAt(l) ==
    CASE l \in {"get", "decode", "discard"} -> {"lookup", "cas"}
      [] l = "encode" -> {"put", "pifa", "cas"}
      [] l = "set" -> {"put"}
      [] l = "setnx" -> {"pifa"}
      [] l \in {"evalcas", "reload", "reeval"} -> {"cas"}
      [] l = "del" -> {"delete"}
      [] l \in {"watch", "wget", "wdecode", "exec"} -> {"incr"}
      [] OTHER -> OpKinds

(* Client c, in its n-th operation, is at l with locals v. *)
RequestAt(c, l, v, n) ==
    /\ l # "idle" => v.req.id = <<c, n>> /\ v.req.kind \in KindsAt(l)
    /\ l = "idle" => v = NoLocals
    /\ v.out = "none" <=> l \notin {"verify", "reply"}
    /\ l \in {"verify", "reply"} => v.out \in {"done", "refused"}
    /\ l = "watch" => v.tries < Retries

EnvelopesAt(l, v) ==
    /\ l = "encode" /\ v.req.kind \in {"put", "pifa"} => v.src \in Sources
    /\ l \in {"decode", "wdecode", "exec"} \/ Comparing(l, v.req.kind) => Real(v.buf)
    /\ Comparing(l, v.req.kind) => Expected(v.buf, v.req.expect)
    /\ l \in {"set", "setnx", "evalcas", "reload", "reeval", "exec", "verify"} => Fresh(v.new)
    /\ l \in {"set", "setnx", "evalcas", "reload", "reeval"} => v.new.val = v.req.val
    /\ l \in {"evalcas", "reload", "reeval", "exec"} => v.new.src = v.buf.src
    /\ l = "exec" => v.new.val = v.buf.val + Amount

At(c, l, v, n) == v \in Locals /\ l \in Pcs /\ RequestAt(c, l, v, n) /\ EnvelopesAt(l, v)

ControlInv ==
    /\ pc \in [Clients -> Pcs] /\ loc \in [Clients -> Locals] /\ ops \in [Clients -> Nat]
    /\ \A c \in Clients : At(c, pc[c], loc[c], ops[c])

StoreInv ==
    /\ now \in Nat /\ scripts \in BOOLEAN
    /\ entry \in [env : EnvelopeType, px : Nat]
    /\ entry = NoEntry \/ Real(entry.env)

(* As long as a WATCH is clean the key holds what was read under it. *)
WatchInv ==
    /\ watch \in [Clients -> {"off", "clean", "dirty", "broken"}]
    /\ \A c \in Clients :
          watch[c] = "clean" /\ pc[c] \in {"wdecode", "exec"} =>
             entry # NoEntry /\ Version(entry.env) = Version(loc[c].buf)

(* A command on its way still fits the request it was made for. *)
OnItsWay(x) ==
    /\ x.op \in {"set", "setnx", "cas", "del", "cleanup"}
    /\ x.req \in Requests /\ x.env \in EnvelopeType
    /\ x.op = "set" => x.req.kind = "put"
    /\ x.op = "setnx" => x.req.kind = "pifa"
    /\ x.op = "cas" => x.req.kind = "cas"
    /\ x.op = "del" => x.req.kind = "delete"
    /\ x.op \in {"set", "setnx", "cas"} => Fresh(x.env) /\ x.env.val = x.req.val
    /\ x.op = "cas" =>
          \E b \in EnvelopeType :
             x.ver = Version(b) /\ Expected(b, x.req.expect) /\ x.env.src = b.src

(* No request is on its way twice, or while its call is in progress. *)
LateInv ==
    /\ \A x \in late : OnItsWay(x)
    /\ \A x, y \in late : x.op # "cleanup" /\ y.op # "cleanup" /\ x.req = y.req => x = y
    /\ \A x \in late, c \in Clients, n \in Nat :
          x.op # "cleanup" /\ x.req.id = <<c, n>> =>
             n <= ops[c] /\ (pc[c] # "idle" => n < ops[c])

AnswerInv ==
    /\ seen \in [Clients -> EnvelopeType] /\ \A c \in Clients : Real(seen[c])
    /\ res \in [Clients -> Outcomes]

Inv == ControlInv /\ StoreInv /\ WatchInv /\ LateInv /\ AnswerInv

-----------------------------------------------------------------------------
(* Values. *)

(* The TTLs are positive, so what is encoded expires after it is created. *)
LEMMA Ttls ==
    /\ PlainTtl \in Nat \ {0}
    /\ \A v : EffectiveTtl(v) \in Nat \ {0}
BY TtlAssumption DEF PlainTtl, EffectiveTtl, EffectiveTtlUnclamped, Least

(* What an operation encodes is a fresh envelope. *)
LEMMA EncodedFresh ==
    ASSUME NEW v \in Nat, NEW s \in Sources, NEW ttl \in Nat \ {0}, NEW t \in Nat
    PROVE  /\ Fresh(Encoded(v, s, ttl, t, t))
           /\ Encoded(v, s, ttl, t, t).val = v /\ Encoded(v, s, ttl, t, t).src = s
<1>1. s \in Nat
  BY OpsAssumption
<1> DEFINE e == Encoded(v, s, ttl, t, t)
<1>2. /\ e.val = v /\ e.src = s /\ e.created = t /\ e.expires = t + ttl
      /\ e.frame = "intact"
  BY DEF Encoded
<1>3. e \in EnvelopeType
  BY <1>1 DEF Encoded, EnvelopeType, Frames
<1> HIDE DEF e
<1>4. t < t + ttl
  OBVIOUS
<1> QED
  BY <1>2, <1>3, <1>4 DEF Fresh, Real, e

(* The absent envelope is none that was encoded. *)
LEMMA NoEnvelopeType ==
    /\ NoEnvelope \in EnvelopeType /\ ~ Real(NoEnvelope)
    /\ NoEnvelope.frame = "foreign"
    /\ NoEntry \in [env : EnvelopeType, px : Nat] /\ NoEntry.env = NoEnvelope
<1>1. NoEnvelope \in EnvelopeType /\ ~ Real(NoEnvelope) /\ NoEnvelope.frame = "foreign"
  BY DEF NoEnvelope, Unencoded, EnvelopeType, Frames, Real
<1> QED
  BY <1>1 DEF NoEntry

(* A version is a tuple of four numbers. *)
LEMMA VersionType == \A e \in EnvelopeType : Version(e) \in Nat \X Nat \X Nat \X Nat
BY DEF Version, EnvelopeType

(* The key holds an envelope put into it. *)
LEMMA StoredType ==
    ASSUME now \in Nat, NEW e, Real(e)
    PROVE  Stored(e) \in [env : EnvelopeType, px : Nat] /\ Stored(e).env = e
<1>1. e \in EnvelopeType /\ e.expires - e.created \in Nat
  BY DEF Real, EnvelopeType
<1> QED
  BY <1>1 DEF Stored

(* An operation has no locals before it begins. *)
LEMMA NoLocalsType == NoLocals \in Locals /\ NoLocals.req = NoRequest /\ NoLocals.out = "none"
<1>1. NoRequest \in Requests
  BY DEF NoRequest, Requests
<1>2. 0 \in 0 .. Retries
  BY OpsAssumption
<1> QED
  BY <1>1, <1>2, NoEnvelopeType DEF NoLocals, Locals, Outcomes

(* A client that is idle. *)
LEMMA IdleAt == \A c, n : At(c, "idle", NoLocals, n)
BY NoLocalsType DEF At, RequestAt, EnvelopesAt, Comparing, Pcs

(* What an assignment to one local leaves of the others. *)
LEMMA BufOf ==
    ASSUME NEW v \in Locals, NEW b \in EnvelopeType
    PROVE  /\ [v EXCEPT !.buf = b] \in Locals
           /\ [v EXCEPT !.buf = b].buf = b
           /\ [v EXCEPT !.buf = b].new = v.new /\ [v EXCEPT !.buf = b].req = v.req
           /\ [v EXCEPT !.buf = b].src = v.src /\ [v EXCEPT !.buf = b].out = v.out
           /\ [v EXCEPT !.buf = b].tries = v.tries
BY DEF Locals

(* The same for the envelope to write, *)
LEMMA NewOf ==
    ASSUME NEW v \in Locals, NEW b \in EnvelopeType
    PROVE  /\ [v EXCEPT !.new = b] \in Locals
           /\ [v EXCEPT !.new = b].new = b
           /\ [v EXCEPT !.new = b].buf = v.buf /\ [v EXCEPT !.new = b].req = v.req
           /\ [v EXCEPT !.new = b].src = v.src /\ [v EXCEPT !.new = b].out = v.out
           /\ [v EXCEPT !.new = b].tries = v.tries
BY DEF Locals

(* the engine's decision, *)
LEMMA OutOf ==
    ASSUME NEW v \in Locals, NEW o \in Outcomes
    PROVE  /\ [v EXCEPT !.out = o] \in Locals
           /\ [v EXCEPT !.out = o].out = o
           /\ [v EXCEPT !.out = o].buf = v.buf /\ [v EXCEPT !.out = o].req = v.req
           /\ [v EXCEPT !.out = o].src = v.src /\ [v EXCEPT !.out = o].new = v.new
           /\ [v EXCEPT !.out = o].tries = v.tries
BY DEF Locals

(* an attempt of increment, *)
LEMMA TriesOf ==
    ASSUME NEW v \in Locals, NEW n \in 0 .. Retries
    PROVE  /\ [v EXCEPT !.tries = n] \in Locals
           /\ [v EXCEPT !.tries = n].tries = n
           /\ [v EXCEPT !.tries = n].buf = v.buf /\ [v EXCEPT !.tries = n].req = v.req
           /\ [v EXCEPT !.tries = n].src = v.src /\ [v EXCEPT !.tries = n].new = v.new
           /\ [v EXCEPT !.tries = n].out = v.out
BY DEF Locals

(* and for an attempt that is given up. *)
LEMMA DroppedOf ==
    ASSUME NEW v \in Locals, NEW h \in Nat
    PROVE  LET w == [v EXCEPT !.buf = NoEnvelope, !.new = NoEnvelope, !.hits = h]
           IN  w \in Locals /\ w.req = v.req /\ w.out = v.out /\ w.tries = v.tries
BY NoEnvelopeType DEF Locals

-----------------------------------------------------------------------------
(* One client moves, the engine and the commands on their way do not. *)

(* The others stay where they are. *)
LEMMA MoveEffect ==
    ASSUME ControlInv, NEW c \in Clients, NEW l, NEW v, Move(c, l, v)
    PROVE  /\ pc'[c] = l /\ loc'[c] = v
           /\ pc' = [pc EXCEPT ![c] = l] /\ loc' = [loc EXCEPT ![c] = v]
           /\ \A d \in Clients \ {c} : pc'[d] = pc[d] /\ loc'[d] = loc[d]
BY DEF ControlInv, Move

(* A client moves to a place its locals fit. *)
LEMMA ControlMove ==
    ASSUME ControlInv, NEW c \in Clients, NEW l, NEW v, Move(c, l, v),
           At(c, l, v, ops[c]), UNCHANGED ops
    PROVE  ControlInv'
<1>1. /\ pc'[c] = l /\ loc'[c] = v
      /\ \A d \in Clients \ {c} : pc'[d] = pc[d] /\ loc'[d] = loc[d]
  BY MoveEffect
<1>2. l \in Pcs /\ v \in Locals
  BY DEF At
<1>3. pc' \in [Clients -> Pcs] /\ loc' \in [Clients -> Locals]
  BY <1>2 DEF ControlInv, Move
<1> QED
  BY <1>1, <1>3 DEF ControlInv

(* No command is sent, and no operation begun. *)
LEMMA LateKept ==
    ASSUME ControlInv, LateInv, late' \subseteq late, UNCHANGED ops,
           \A d \in Clients : pc'[d] # "idle" => pc[d] # "idle"
    PROVE  LateInv'
<1>1. \A x \in late' : x \in late
  OBVIOUS
<1>2. \A x \in late' : OnItsWay(x)
  BY <1>1 DEF LateInv
<1>3. \A x, y \in late' : x.op # "cleanup" /\ y.op # "cleanup" /\ x.req = y.req => x = y
  BY <1>1 DEF LateInv
<1>4. \A x \in late', c \in Clients, n \in Nat :
          x.op # "cleanup" /\ x.req.id = <<c, n>> =>
             n <= ops[c] /\ (pc'[c] # "idle" => n < ops[c])
  BY <1>1 DEF LateInv
<1> QED
  BY <1>2, <1>3, <1>4 DEF LateInv

(* A command is abandoned by the client that ends its operation with it,   *)
(* or is a cleanup.                                                        *)
LEMMA LateAdded ==
    ASSUME ControlInv, LateInv, NEW c \in Clients, NEW x, OnItsWay(x),
           late' \subseteq late \cup {x}, UNCHANGED ops, pc[c] # "idle",
           \A d \in Clients \ {c} : pc'[d] = pc[d],
           x.op # "cleanup" => x.req.id = <<c, ops[c]>> /\ pc'[c] = "idle"
    PROVE  LateInv'
<1>0. ops[c] \in Nat
  BY DEF ControlInv
<1>1. \A y \in late' : y \in late \/ y = x
  OBVIOUS
<1>2. \A y \in late' : OnItsWay(y)
  BY <1>1 DEF LateInv
<1>3. ASSUME NEW y \in late, y.op # "cleanup", x.op # "cleanup" PROVE y.req # x.req
  <2>1. y.req.id = <<c, ops[c]>> => ops[c] < ops[c]
    BY <1>0, <1>3 DEF LateInv
  <2> QED
    BY <1>0, <1>3, <2>1
<1>4. \A y, z \in late' : y.op # "cleanup" /\ z.op # "cleanup" /\ y.req = z.req => y = z
  BY <1>1, <1>3 DEF LateInv
<1>5. ASSUME NEW y \in late', NEW d \in Clients, NEW n \in Nat,
             y.op # "cleanup", y.req.id = <<d, n>>
      PROVE  n <= ops[d] /\ (pc'[d] # "idle" => n < ops[d])
  <2>1. CASE y \in late
    BY <1>5, <2>1 DEF LateInv
  <2>2. CASE y = x
    <3>1. d = c /\ n = ops[c] /\ pc'[c] = "idle"
      BY <1>5, <2>2
    <3> QED
      BY <1>0, <3>1
  <2> QED
    BY <1>1, <2>1, <2>2
<1> QED
  BY <1>2, <1>4, <1>5 DEF LateInv

(* A WATCH stays clean only while the key stays what it is. *)
LEMMA WatchMove ==
    ASSUME ControlInv, WatchInv, NEW c \in Clients, NEW l, NEW v, Move(c, l, v),
           watch' \in [Clients -> {"off", "clean", "dirty", "broken"}],
           \A d \in Clients \ {c} :
              watch'[d] = "clean" => watch[d] = "clean" /\ entry' = entry,
           l \in {"wdecode", "exec"} /\ watch'[c] = "clean" =>
              entry' # NoEntry /\ Version(entry'.env) = Version(v.buf)
    PROVE  WatchInv'
<1>1. /\ pc'[c] = l /\ loc'[c] = v
      /\ \A d \in Clients \ {c} : pc'[d] = pc[d] /\ loc'[d] = loc[d]
  BY MoveEffect
<1>2. ASSUME NEW d \in Clients, watch'[d] = "clean", pc'[d] \in {"wdecode", "exec"}
      PROVE  entry' # NoEntry /\ Version(entry'.env) = Version(loc'[d].buf)
  <2>1. CASE d = c
    BY <1>1, <1>2, <2>1
  <2>2. CASE d # c
    BY <1>1, <1>2, <2>2 DEF WatchInv
  <2> QED
    BY <2>1, <2>2
<1>3. \A d \in Clients : watch'[d] = "clean" /\ pc'[d] \in {"wdecode", "exec"} =>
             entry' # NoEntry /\ Version(entry'.env) = Version(loc'[d].buf)
  BY <1>2
<1> QED
  BY <1>3 DEF WatchInv, Version

(* A step between two commands. *)
LEMMA QuietMove ==
    ASSUME Inv, NEW c \in Clients, pc[c] # "idle", NEW l, NEW v, Move(c, l, v),
           At(c, l, v, ops[c]), UNCHANGED <<now, entry, late, ops>>, scripts' \in BOOLEAN,
           watch' = watch \/ \E w \in {"off", "clean"} : watch' = [watch EXCEPT ![c] = w],
           l \in {"wdecode", "exec"} /\ watch'[c] = "clean" =>
              entry # NoEntry /\ Version(entry.env) = Version(v.buf),
           AnswerInv'
    PROVE  Inv'
<1>1. ControlInv'
  BY ControlMove DEF Inv
<1>2. StoreInv'
  BY DEF Inv, StoreInv
<1>3. \A d \in Clients : pc'[d] # "idle" => pc[d] # "idle"
  BY MoveEffect DEF Inv
<1>4. LateInv'
  BY <1>3, LateKept DEF Inv
<1>5. /\ watch' \in [Clients -> {"off", "clean", "dirty", "broken"}]
      /\ \A d \in Clients \ {c} : watch'[d] = watch[d]
  BY DEF Inv, WatchInv
<1>6. WatchInv'
  BY <1>5, WatchMove DEF Inv
<1> QED
  BY <1>1, <1>2, <1>4, <1>6 DEF Inv

(* The answers, when no operation ends. *)
LEMMA AnswersKept == AnswerInv /\ UNCHANGED <<seen, res>> => AnswerInv'
BY DEF AnswerInv

(* An operation ends without a command. *)
LEMMA QuietReturn ==
    ASSUME Inv, NEW c \in Clients, pc[c] # "idle", NEW k \in Outcomes, Return(c, k),
           UNCHANGED <<now, entry, late, ops>>, scripts' \in BOOLEAN,
           UNCHANGED seen \/ \E e : Real(e) /\ seen' = [seen EXCEPT ![c] = e]
    PROVE  Inv'
<1>1. /\ Move(c, "idle", NoLocals) /\ At(c, "idle", NoLocals, ops[c])
      /\ watch' = [watch EXCEPT ![c] = "off"] /\ res' = [res EXCEPT ![c] = k]
  BY IdleAt DEF Return
<1>2. AnswerInv'
  <2>1. res' \in [Clients -> Outcomes]
    BY <1>1 DEF Inv, AnswerInv
  <2>2. CASE \E e : Real(e) /\ seen' = [seen EXCEPT ![c] = e]
    <3>1. PICK e : Real(e) /\ seen' = [seen EXCEPT ![c] = e]
      BY <2>2
    <3>2. e \in EnvelopeType
      BY <3>1 DEF Real
    <3>3. seen' \in [Clients -> EnvelopeType] /\ \A d \in Clients : seen'[d] = seen[d] \/ seen'[d] = e
      BY <3>1, <3>2 DEF Inv, AnswerInv
    <3>4. \A d \in Clients : Real(seen'[d])
      BY <3>1, <3>3 DEF Inv, AnswerInv
    <3> QED
      BY <2>1, <3>3, <3>4 DEF AnswerInv, Real
  <2>3. CASE UNCHANGED seen
    BY <2>1, <2>3 DEF Inv, AnswerInv
  <2> QED
    BY <2>2, <2>3
<1> QED
  BY <1>1, <1>2, QuietMove

-----------------------------------------------------------------------------
(* Commands. *)

(* What the engine does with a command: the key holds nothing or a real    *)
(* envelope, and no WATCH stays clean on a key that changed.               *)
LEMMA ExecutesEffect ==
    ASSUME StoreInv, WatchInv, NEW x, OnItsWay(x), Executes(x)
    PROVE  /\ entry' \in [env : EnvelopeType, px : Nat]
           /\ entry' = NoEntry \/ Real(entry'.env)
           /\ watch' \in [Clients -> {"off", "clean", "dirty", "broken"}]
           /\ \A d \in Clients : watch'[d] = "clean" => watch[d] = "clean" /\ entry' = entry
<1>0. ASSUME ~ Applies(x) PROVE entry' = entry
  <2>1. x.op \notin {"del", "cleanup"}
    BY <1>0 DEF Applies
  <2> QED
    BY <1>0, <2>1 DEF Executes, EntryAfter
<1>1. entry' \in [env : EnvelopeType, px : Nat] /\ (entry' = NoEntry \/ Real(entry'.env))
  <2>1. CASE ~ Applies(x)
    BY <1>0, <2>1 DEF StoreInv
  <2>2. CASE Applies(x) /\ x.op \in {"del", "cleanup"}
    BY <2>2, NoEnvelopeType DEF Executes, EntryAfter
  <2>3. CASE Applies(x) /\ x.op \notin {"del", "cleanup"}
    <3>1. entry' = Stored(x.env)
      BY <2>3 DEF Executes, EntryAfter
    <3>2. Real(x.env)
      BY <2>3 DEF OnItsWay, Fresh
    <3>3. Stored(x.env) \in [env : EnvelopeType, px : Nat] /\ Stored(x.env).env = x.env
      BY <3>2, StoredType DEF StoreInv
    <3> QED
      BY <3>1, <3>2, <3>3
  <2> QED
    BY <2>1, <2>2, <2>3
<1>2. /\ Touched \in [Clients -> {"off", "clean", "dirty", "broken"}]
      /\ \A d \in Clients : Touched[d] # "clean"
  BY DEF Touched, WatchInv
<1>3. CASE watch' = Touched
  BY <1>1, <1>2, <1>3
<1>4. CASE watch' = watch /\ entry' = entry
  BY <1>1, <1>4 DEF WatchInv
<1>5. \/ watch' = Touched
      \/ watch' = watch /\ entry' = entry
  BY <1>0 DEF Executes
<1> QED
  BY <1>3, <1>4, <1>5

(* A client's command fits its request. *)
LEMMA CommandFits ==
    ASSUME Inv, NEW c \in Clients
    PROVE  /\ pc[c] \in {"set", "setnx", "del"} => OnItsWay(Command(pc[c], c))
           /\ pc[c] \in {"evalcas", "reeval"} => OnItsWay(Command("cas", c))
           /\ OnItsWay(Cleanup(c))
<1>1. /\ loc[c] \in Locals /\ At(c, pc[c], loc[c], ops[c])
  BY DEF Inv, ControlInv
<1>2. loc[c].req \in Requests /\ loc[c].new \in EnvelopeType /\ loc[c].buf \in EnvelopeType
  BY <1>1 DEF Locals
<1>3. ASSUME NEW o, NEW r, NEW e, NEW w
      PROVE  LET x == [op |-> o, req |-> r, env |-> e, ver |-> w]
             IN  x.op = o /\ x.req = r /\ x.env = e /\ x.ver = w
  OBVIOUS
<1>4. ASSUME pc[c] \in {"set", "setnx", "del"} PROVE OnItsWay(Command(pc[c], c))
  <2> DEFINE x == Command(pc[c], c)
  <2>1. x.op = pc[c] /\ x.req = loc[c].req /\ x.env = loc[c].new
    BY DEF Command
  <2> HIDE DEF x
  <2>2. /\ pc[c] = "set" => loc[c].req.kind = "put"
        /\ pc[c] = "setnx" => loc[c].req.kind = "pifa"
        /\ pc[c] = "del" => loc[c].req.kind = "delete"
        /\ pc[c] \in {"set", "setnx"} => Fresh(loc[c].new) /\ loc[c].new.val = loc[c].req.val
    BY <1>1, <1>4 DEF At, RequestAt, EnvelopesAt, KindsAt
  <2>3. OnItsWay(x)
    BY <1>2, <1>4, <2>1, <2>2 DEF OnItsWay
  <2> QED
    BY <2>3 DEF x
<1>5. ASSUME pc[c] \in {"evalcas", "reeval"} PROVE OnItsWay(Command("cas", c))
  <2> DEFINE x == Command("cas", c)
  <2>1. x.op = "cas" /\ x.req = loc[c].req /\ x.env = loc[c].new /\ x.ver = Version(loc[c].buf)
    BY DEF Command
  <2> HIDE DEF x
  <2>2. /\ loc[c].req.kind = "cas" /\ Fresh(loc[c].new) /\ loc[c].new.val = loc[c].req.val
        /\ Expected(loc[c].buf, loc[c].req.expect) /\ loc[c].new.src = loc[c].buf.src
    BY <1>1, <1>5 DEF At, RequestAt, EnvelopesAt, KindsAt, Comparing
  <2>3. OnItsWay(x)
    BY <1>2, <2>1, <2>2 DEF OnItsWay
  <2> QED
    BY <2>3 DEF x
<1>6. OnItsWay(Cleanup(c))
  <2>1. NoRequest \in Requests
    BY DEF NoRequest, Requests
  <2> DEFINE x == Cleanup(c)
  <2>2. x.op = "cleanup" /\ x.req = NoRequest /\ x.env = NoEnvelope
    BY DEF Cleanup
  <2> HIDE DEF x
  <2>3. OnItsWay(x)
    BY <2>1, <2>2, NoEnvelopeType DEF OnItsWay
  <2> QED
    BY <2>3 DEF x
<1> QED
  BY <1>4, <1>5, <1>6

(* A command is executed and answered. *)
LEMMA ExecutesMove ==
    ASSUME Inv, NEW c \in Clients, pc[c] # "idle", NEW x, OnItsWay(x), Executes(x),
           NEW l, NEW v, Move(c, l, v), At(c, l, v, ops[c]), l \notin {"wdecode", "exec"},
           UNCHANGED <<now, scripts, late, ops>>, AnswerInv'
    PROVE  Inv'
<1>1. ControlInv'
  BY ControlMove DEF Inv
<1>2. /\ entry' \in [env : EnvelopeType, px : Nat] /\ (entry' = NoEntry \/ Real(entry'.env))
      /\ watch' \in [Clients -> {"off", "clean", "dirty", "broken"}]
      /\ \A d \in Clients : watch'[d] = "clean" => watch[d] = "clean" /\ entry' = entry
  BY ExecutesEffect DEF Inv
<1>3. StoreInv'
  BY <1>2 DEF Inv, StoreInv, Real
<1>4. \A d \in Clients : pc'[d] # "idle" => pc[d] # "idle"
  BY MoveEffect DEF Inv
<1>5. LateInv'
  BY <1>4, LateKept DEF Inv
<1>6. WatchInv'
  BY <1>2, WatchMove DEF Inv
<1> QED
  BY <1>1, <1>3, <1>5, <1>6 DEF Inv

(* The engine decided: the client goes on with the decision. *)
LEMMA DecidedAt ==
    ASSUME Inv, NEW c \in Clients, NEW o \in {"done", "refused"}, NEW l \in {"verify", "reply"},
           pc[c] # "idle", l = "verify" => Fresh(loc[c].new)
    PROVE  At(c, l, [loc[c] EXCEPT !.out = o], ops[c])
<1> DEFINE v == [loc[c] EXCEPT !.out = o]
<1>1. loc[c] \in Locals /\ At(c, pc[c], loc[c], ops[c])
  BY DEF Inv, ControlInv
<1>2. v \in Locals /\ v.out = o /\ v.new = loc[c].new /\ v.req = loc[c].req
  <2>1. o \in Outcomes
    BY DEF Outcomes
  <2> QED
    BY <1>1, <2>1, OutOf
<1> HIDE DEF v
<1>3. v.req.id = <<c, ops[c]>> /\ v.req.kind \in OpKinds
  <2>1. \A k : KindsAt(k) \subseteq OpKinds
    BY DEF KindsAt, OpKinds
  <2> QED
    BY <1>1, <1>2, <2>1 DEF At, RequestAt
<1>4. KindsAt(l) = OpKinds /\ l \in Pcs
  BY DEF KindsAt, Pcs
<1>5. RequestAt(c, l, v, ops[c])
  BY <1>2, <1>3, <1>4 DEF RequestAt
<1>6. EnvelopesAt(l, v)
  BY <1>2 DEF EnvelopesAt, Comparing
<1>7. At(c, l, v, ops[c])
  BY <1>2, <1>4, <1>5, <1>6 DEF At
<1> QED
  BY <1>7 DEF v

(* DEL of an entry that did not decode. *)
LEMMA DiscardInv ==
    ASSUME Inv, NEW c \in Clients, Discard(c)
    PROVE  Inv'
<1> DEFINE v == [loc[c] EXCEPT !.out = "refused"]
<1>1. /\ pc[c] = "discard" /\ Move(c, "reply", v) /\ UNCHANGED <<now, seen, ops, res>>
      /\ \/ Executes(Cleanup(c)) /\ UNCHANGED <<scripts, late>>
         \/ Fails(Cleanup(c)) /\ UNCHANGED watch
  BY DEF Discard, Decided
<1>2. At(c, "reply", v, ops[c])
  BY <1>1, DecidedAt
<1> HIDE DEF v
<1>3. AnswerInv' /\ OnItsWay(Cleanup(c))
  BY <1>1, AnswersKept, CommandFits DEF Inv
<1>4. CASE Executes(Cleanup(c)) /\ UNCHANGED <<scripts, late>>
  BY <1>1, <1>2, <1>3, <1>4, ExecutesMove
<1>5. CASE Fails(Cleanup(c)) /\ UNCHANGED watch
  <2>1. ControlInv'
    BY <1>1, <1>2, ControlMove DEF Inv
  <2>2. StoreInv'
    BY <1>1, <1>5 DEF Fails, Inv, StoreInv
  <2>3. Cleanup(c).op = "cleanup"
    BY DEF Cleanup
  <2>4. \A d \in Clients \ {c} : pc'[d] = pc[d]
    BY <1>1, MoveEffect DEF Inv
  <2>5. late' \subseteq late \cup {Cleanup(c)}
    BY <1>5 DEF Fails
  <2>6. LateInv'
    BY <1>1, <1>3, <2>3, <2>4, <2>5, LateAdded DEF Inv
  <2>7. entry' = entry /\ watch' \in [Clients -> {"off", "clean", "dirty", "broken"}]
    BY <1>5 DEF Fails, Inv, WatchInv
  <2>8. WatchInv'
    BY <1>1, <1>5, <2>7, WatchMove DEF Inv
  <2> QED
    BY <1>3, <2>1, <2>2, <2>6, <2>8 DEF Inv
<1> QED
  BY <1>1, <1>4, <1>5

(* SET, SET NX, DEL and the CAS script, answered. *)
LEMMA MutationInv ==
    ASSUME Inv, NEW c \in Clients, Set(c) \/ Delete(c) \/ EvalCas(c)
    PROVE  Inv'
<1>1. At(c, pc[c], loc[c], ops[c]) /\ StoreInv /\ AnswerInv
  BY DEF Inv, ControlInv
<1>2. CASE Set(c)
  <2> DEFINE x == Command(pc[c], c)
             o == IF Applies(x) THEN "done" ELSE "refused"
             v == [loc[c] EXCEPT !.out = o]
  <2>1. /\ pc[c] \in {"set", "setnx"} /\ Executes(x) /\ Move(c, "verify", v)
        /\ UNCHANGED <<now, scripts, late, seen, ops, res>>
    BY <1>2 DEF Set, Decided
  <2>2. Fresh(loc[c].new) /\ o \in {"done", "refused"}
    BY <1>1, <2>1 DEF At, EnvelopesAt
  <2> HIDE DEF o
  <2>3. At(c, "verify", v, ops[c])
    BY <2>1, <2>2, DecidedAt
  <2>4. OnItsWay(x) /\ AnswerInv'
    BY <1>1, <2>1, CommandFits, AnswersKept
  <2> HIDE DEF v, x
  <2> QED
    BY <2>1, <2>3, <2>4, ExecutesMove
<1>3. CASE Delete(c)
  <2> DEFINE x == Command(pc[c], c)
             v == [loc[c] EXCEPT !.out = "done"]
  <2>1. /\ pc[c] = "del" /\ Executes(x) /\ Move(c, "reply", v)
        /\ UNCHANGED <<now, scripts, late, seen, ops, res>>
    BY <1>3 DEF Delete, Decided
  <2>2. At(c, "reply", v, ops[c])
    BY <2>1, DecidedAt
  <2>3. OnItsWay(x) /\ AnswerInv'
    BY <1>1, <2>1, CommandFits, AnswersKept
  <2> HIDE DEF v, x
  <2> QED
    BY <2>1, <2>2, <2>3, ExecutesMove
<1>4. CASE EvalCas(c)
  <2> DEFINE x == Command("cas", c)
  <2>1. /\ pc[c] \in {"evalcas", "reeval"} /\ Executes(x)
        /\ UNCHANGED <<now, scripts, late, ops, res>>
    BY <1>4 DEF EvalCas
  <2>2. Fresh(loc[c].new) /\ Real(loc[c].buf)
    BY <1>1, <2>1 DEF At, EnvelopesAt, Comparing
  <2>3. OnItsWay(x)
    BY <2>1, CommandFits
  <2>4. CASE Decided(c, "verify", "done") /\ UNCHANGED seen
    <3>1. At(c, "verify", [loc[c] EXCEPT !.out = "done"], ops[c])
      BY <2>1, <2>2, DecidedAt
    <3>2. AnswerInv'
      BY <1>1, <2>1, <2>4, AnswersKept
    <3> HIDE DEF x
    <3> QED
      BY <2>1, <2>3, <2>4, <3>1, <3>2, ExecutesMove DEF Decided
  <2>5. CASE Decided(c, "reply", "refused") /\ seen' = [seen EXCEPT ![c] = loc[c].buf]
    <3>1. At(c, "reply", [loc[c] EXCEPT !.out = "refused"], ops[c])
      BY <2>1, DecidedAt
    <3> DEFINE b == loc[c].buf
    <3>2. Real(b) /\ seen' = [seen EXCEPT ![c] = b]
      BY <2>2, <2>5
    <3> HIDE DEF b
    <3>3. seen' \in [Clients -> EnvelopeType] /\ \A d \in Clients : seen'[d] = seen[d] \/ seen'[d] = b
      BY <1>1, <3>2 DEF AnswerInv, Real
    <3>4. AnswerInv'
      BY <1>1, <2>1, <3>2, <3>3 DEF AnswerInv, Real
    <3> HIDE DEF x
    <3> QED
      BY <2>1, <2>3, <2>5, <3>1, <3>4, ExecutesMove DEF Decided
  <2> QED
    BY <1>4, <2>4, <2>5 DEF EvalCas
<1> QED
  BY <1>2, <1>3, <1>4

-----------------------------------------------------------------------------
(* The steps of the operations. *)

(* A client begins an operation, with an id and, for compare_and_set, an   *)
(* expected version it was given before.                                   *)
LEMMA BeginInv ==
    ASSUME Inv, NEW c \in Clients, Begin(c)
    PROVE  Inv'
<1>1. PICK k \in Kinds, w \in Values, s \in Sources, x \in {Version(seen[c]), <<seen[c].src>>} :
          Move(c, FirstPc(k),
               [NoLocals EXCEPT
                  !.req = [id |-> <<c, ops[c] + 1>>, kind |-> k,
                           val |-> IF k \in {"put", "pifa", "cas"} THEN w ELSE 0,
                           expect |-> IF k = "cas" THEN x ELSE <<>>],
                  !.src = IF k \in {"put", "pifa"} THEN s ELSE 0])
  BY DEF Begin
<1> DEFINE n == ops[c] + 1
           a == IF k \in {"put", "pifa", "cas"} THEN w ELSE 0
           y == IF k = "cas" THEN x ELSE <<>>
           r == [id |-> <<c, n>>, kind |-> k, val |-> a, expect |-> y]
           z == IF k \in {"put", "pifa"} THEN s ELSE 0
           v == [NoLocals EXCEPT !.req = r, !.src = z]
           l == FirstPc(k)
<1>2. Move(c, l, v)
  BY <1>1
<1>3. n \in Nat /\ a \in Nat /\ k \in OpKinds /\ z \in Nat
  BY OpsAssumption DEF Inv, ControlInv
<1>4. y \in {<<>>} \cup {<<m>> : m \in Sources} \cup (Nat \X Nat \X Nat \X Nat)
  <2>1. Real(seen[c])
    BY DEF Inv, AnswerInv
  <2>2. seen[c].src \in Sources /\ Version(seen[c]) \in Nat \X Nat \X Nat \X Nat
    BY <2>1, VersionType DEF Real
  <2> QED
    BY <2>2
<1>5. \/ l = "get" /\ k \in {"lookup", "cas"}
      \/ l = "encode" /\ k \in {"put", "pifa"}
      \/ l = "del" /\ k = "delete"
      \/ l = "watch" /\ k = "incr"
  BY <1>3 DEF FirstPc, OpKinds
<1>6. k \in {"put", "pifa"} => z \in Sources
  OBVIOUS
<1> HIDE DEF n, a, y, z, l
<1>7. r \in Requests /\ r.id = <<c, n>> /\ r.kind = k
  BY <1>3, <1>4 DEF Requests
<1> HIDE DEF r
<1>8. /\ v \in Locals /\ v.req = r /\ v.src = z /\ v.out = "none" /\ v.tries = 0
  <2>1. NoLocals \in Locals /\ NoLocals.out = "none" /\ NoLocals.tries = 0
    BY NoLocalsType DEF NoLocals
  <2> QED
    BY <1>3, <1>7, <2>1 DEF Locals
<1> HIDE DEF v
<1>9. At(c, l, v, n)
  <2>1. RequestAt(c, l, v, n)
    BY <1>5, <1>7, <1>8, OpsAssumption DEF RequestAt, KindsAt
  <2>2. EnvelopesAt(l, v)
    BY <1>5, <1>6, <1>7, <1>8 DEF EnvelopesAt, Comparing
  <2>3. l \in Pcs
    BY <1>5 DEF Pcs
  <2> QED
    BY <1>8, <2>1, <2>2, <2>3 DEF At
<1>10. /\ pc[c] = "idle" /\ ops' = [ops EXCEPT ![c] = n] /\ res' = [res EXCEPT ![c] = "none"]
       /\ UNCHANGED <<now, entry, scripts, watch, late, seen>>
  BY DEF Begin, n
<1>11. /\ pc'[c] = l /\ loc'[c] = v /\ ops'[c] = n
       /\ \A d \in Clients \ {c} : pc'[d] = pc[d] /\ loc'[d] = loc[d] /\ ops'[d] = ops[d]
  BY <1>2, <1>10, MoveEffect DEF Inv, ControlInv
<1>12. ControlInv'
  <2>1. l \in Pcs /\ v \in Locals
    BY <1>9 DEF At
  <2>2. /\ pc' \in [Clients -> Pcs] /\ loc' \in [Clients -> Locals] /\ ops' \in [Clients -> Nat]
    BY <1>2, <1>3, <1>10, <2>1 DEF Move, Inv, ControlInv
  <2> QED
    BY <1>9, <1>11, <2>2 DEF Inv, ControlInv
<1>13. StoreInv' /\ AnswerInv'
  BY <1>10 DEF Inv, StoreInv, AnswerInv, Outcomes
<1>14. WatchInv'
  BY <1>2, <1>5, <1>10, WatchMove DEF Inv, WatchInv
<1>15. LateInv'
  <2>1. n > ops[c] /\ ops[c] \in Nat
    BY DEF n, Inv, ControlInv
  <2>2. ASSUME NEW q \in late, NEW d \in Clients, NEW m \in Nat,
               q.op # "cleanup", q.req.id = <<d, m>>
        PROVE  m <= ops'[d] /\ (pc'[d] # "idle" => m < ops'[d])
    <3>1. m <= ops[d] /\ (pc[d] # "idle" => m < ops[d])
      BY <2>2 DEF Inv, LateInv
    <3> QED
      BY <1>3, <1>11, <2>1, <3>1
  <2> QED
    BY <1>10, <2>2 DEF Inv, LateInv
<1> QED
  BY <1>12, <1>13, <1>14, <1>15 DEF Inv

(* GET, on the operation's connection or under a WATCH. *)
LEMMA GetInv ==
    ASSUME Inv, NEW c \in Clients, Get(c) \/ WatchedGet(c)
    PROVE  Inv'
<1>1. /\ pc[c] \in {"get", "wget"} /\ UNCHANGED <<now, entry, scripts, late, seen, ops>>
      /\ scripts' \in BOOLEAN /\ "refused" \in Outcomes
  BY DEF Get, WatchedGet, Outcomes, Inv, StoreInv
<1>2. CASE Return(c, "refused")
  BY <1>1, <1>2, QuietReturn
<1> DEFINE e == entry.env
           v == [loc[c] EXCEPT !.buf = e]
<1>3. CASE \E l : /\ <<pc[c], l>> \in {<<"get", "decode">>, <<"wget", "wdecode">>}
                  /\ entry # NoEntry /\ Move(c, l, v) /\ UNCHANGED <<watch, res>>
  <2>1. PICK l : /\ <<pc[c], l>> \in {<<"get", "decode">>, <<"wget", "wdecode">>}
                 /\ entry # NoEntry /\ Move(c, l, v) /\ UNCHANGED <<watch, res>>
    BY <1>3
  <2>2. Real(e) /\ e \in EnvelopeType
    BY <2>1 DEF Inv, StoreInv, Real
  <2>3. loc[c] \in Locals /\ At(c, pc[c], loc[c], ops[c])
    BY DEF Inv, ControlInv
  <2> HIDE DEF e
  <2>4. v \in Locals /\ v.buf = e /\ v.req = loc[c].req /\ v.out = loc[c].out
    BY <2>2, <2>3, BufOf
  <2> HIDE DEF v
  <2>5. RequestAt(c, l, v, ops[c])
    BY <2>1, <2>3, <2>4 DEF At, RequestAt, KindsAt
  <2>6. EnvelopesAt(l, v) /\ l \in Pcs
    BY <2>1, <2>2, <2>4 DEF EnvelopesAt, Comparing, Pcs
  <2>7. At(c, l, v, ops[c])
    BY <2>4, <2>5, <2>6 DEF At
  <2>8. AnswerInv'
    BY <1>1, <2>1, AnswersKept DEF Inv
  <2> QED
    BY <1>1, <2>1, <2>4, <2>7, <2>8, QuietMove DEF e
<1> QED
  BY <1>2, <1>3 DEF Get, WatchedGet

(* decode, and the comparison of compare_and_set. *)
LEMMA DecodeInv ==
    ASSUME Inv, NEW c \in Clients, Decode(c)
    PROVE  Inv'
<1>1. /\ pc[c] = "decode" /\ UNCHANGED <<now, entry, scripts, late, ops>>
      /\ scripts' \in BOOLEAN /\ {"refused", "done"} \subseteq Outcomes
  BY DEF Decode, Outcomes, Inv, StoreInv
<1>2. loc[c] \in Locals /\ At(c, "decode", loc[c], ops[c])
  BY <1>1 DEF Inv, ControlInv
<1>3. Real(loc[c].buf)
  BY <1>2 DEF At, EnvelopesAt
<1>4. CASE \E k \in {"refused", "done"} :
              Return(c, k) /\ seen' = [seen EXCEPT ![c] = loc[c].buf]
  BY <1>1, <1>3, <1>4, QuietReturn
<1>5. CASE \E l : /\ \/ l = "discard"
                     \/ /\ l = "encode" /\ loc[c].req.kind = "cas"
                        /\ Expected(loc[c].buf, loc[c].req.expect)
                  /\ Move(c, l, loc[c]) /\ UNCHANGED <<watch, seen, res>>
  <2>1. PICK l : /\ \/ l = "discard"
                    \/ /\ l = "encode" /\ loc[c].req.kind = "cas"
                       /\ Expected(loc[c].buf, loc[c].req.expect)
                 /\ Move(c, l, loc[c]) /\ UNCHANGED <<watch, seen, res>>
    BY <1>5
  <2>2. RequestAt(c, l, loc[c], ops[c])
    BY <1>2, <2>1 DEF At, RequestAt, KindsAt
  <2>3. EnvelopesAt(l, loc[c]) /\ l \in Pcs
    BY <1>3, <2>1 DEF EnvelopesAt, Comparing, Pcs
  <2>4. At(c, l, loc[c], ops[c]) /\ AnswerInv'
    BY <1>2, <2>1, <2>2, <2>3, AnswersKept DEF At, Inv
  <2> QED
    BY <1>1, <2>1, <2>4, QuietMove
<1> QED
  BY <1>4, <1>5 DEF Decode

(* encode: the new envelope carries the request's value and, for a swap,   *)
(* the source version of what it replaces.                                 *)
LEMMA EncodeInv ==
    ASSUME Inv, NEW c \in Clients, Encode(c)
    PROVE  Inv'
<1> DEFINE e == NewEnvelope(c)
           v == [loc[c] EXCEPT !.new = e]
           l == CASE loc[c].req.kind = "put"  -> "set"
                  [] loc[c].req.kind = "pifa" -> "setnx"
                  [] loc[c].req.kind = "cas"  -> "evalcas"
<1>1. /\ pc[c] = "encode" /\ Move(c, l, v)
      /\ UNCHANGED <<now, entry, scripts, watch, late, seen, ops, res>>
  BY DEF Encode
<1>2. loc[c] \in Locals /\ At(c, "encode", loc[c], ops[c]) /\ now \in Nat
  BY <1>1 DEF Inv, ControlInv, StoreInv
<1>3. loc[c].req.kind \in {"put", "pifa", "cas"} /\ loc[c].req.val \in Nat
  BY <1>2 DEF At, RequestAt, KindsAt, Locals, Requests
<1>4. /\ Fresh(e) /\ e.val = loc[c].req.val
      /\ loc[c].req.kind = "cas" => e.src = loc[c].buf.src
  <2>1. CASE loc[c].req.kind = "cas"
    <3>1. loc[c].buf.src \in Sources
      BY <1>2, <2>1 DEF At, EnvelopesAt, Comparing, Real
    <3> QED
      BY <1>2, <1>3, <2>1, <3>1, Ttls, EncodedFresh DEF NewEnvelope
  <2>2. CASE loc[c].req.kind # "cas"
    <3>1. loc[c].src \in Sources
      BY <1>2, <1>3, <2>2 DEF At, EnvelopesAt
    <3> QED
      BY <1>2, <1>3, <2>2, <3>1, Ttls, EncodedFresh DEF NewEnvelope
  <2> QED
    BY <2>1, <2>2
<1>5. \/ l = "set" /\ loc[c].req.kind = "put"
      \/ l = "setnx" /\ loc[c].req.kind = "pifa"
      \/ l = "evalcas" /\ loc[c].req.kind = "cas"
  BY <1>3
<1> HIDE DEF e, l
<1>6. v \in Locals /\ v.new = e /\ v.buf = loc[c].buf /\ v.req = loc[c].req /\ v.out = loc[c].out
  BY <1>2, <1>4, NewOf DEF Fresh, Real
<1> HIDE DEF v
<1>7. RequestAt(c, l, v, ops[c])
  BY <1>2, <1>5, <1>6 DEF At, RequestAt, KindsAt
<1>8. loc[c].req.kind = "cas" => Real(loc[c].buf) /\ Expected(loc[c].buf, loc[c].req.expect)
  BY <1>2 DEF At, EnvelopesAt, Comparing
<1>9. EnvelopesAt(l, v) /\ l \in Pcs
  BY <1>4, <1>5, <1>6, <1>8 DEF EnvelopesAt, Comparing, Pcs
<1>10. At(c, l, v, ops[c]) /\ AnswerInv' /\ scripts' \in BOOLEAN
  BY <1>1, <1>6, <1>7, <1>9, AnswersKept DEF At, Inv, StoreInv
<1>11. l \notin {"wdecode", "exec"}
  BY <1>5
<1> QED
  BY <1>1, <1>10, <1>11, QuietMove

(* NOSCRIPT, and SCRIPT LOAD. *)
LEMMA ScriptInv ==
    ASSUME Inv, NEW c \in Clients, EvalNoScript(c) \/ ReloadScript(c)
    PROVE  Inv'
<1>1. PICK l \in {"reload", "reeval"} : Move(c, l, loc[c])
  BY DEF EvalNoScript, ReloadScript
<1>2. /\ pc[c] \in {"evalcas", "reload"} /\ scripts' \in BOOLEAN
      /\ UNCHANGED <<now, entry, watch, late, seen, ops, res>>
  BY DEF EvalNoScript, ReloadScript, Inv, StoreInv
<1>3. At(c, pc[c], loc[c], ops[c])
  BY DEF Inv, ControlInv
<1>4. RequestAt(c, l, loc[c], ops[c])
  BY <1>2, <1>3 DEF At, RequestAt, KindsAt
<1>5. EnvelopesAt(l, loc[c]) /\ l \in Pcs
  BY <1>2, <1>3 DEF At, EnvelopesAt, Comparing, Pcs
<1>6. At(c, l, loc[c], ops[c]) /\ AnswerInv'
  BY <1>2, <1>3, <1>4, <1>5, AnswersKept DEF At, Inv
<1> QED
  BY <1>1, <1>2, <1>6, QuietMove

(* An operation raises; its command may be on its way. *)
LEMMA RaiseInv ==
    ASSUME Inv, NEW c \in Clients, Raise(c)
    PROVE  Inv'
<1>1. /\ pc[c] # "idle" /\ Return(c, "error") /\ UNCHANGED <<now, seen, ops>>
      /\ entry' = entry /\ scripts' = scripts /\ "error" \in Outcomes /\ scripts \in BOOLEAN
  BY DEF Raise, Fails, Outcomes, Inv, StoreInv
<1>2. CASE UNCHANGED late
  BY <1>1, <1>2, QuietReturn
<1>3. ASSUME NEW x, OnItsWay(x), Fails(x), x.op # "cleanup", x.req = loc[c].req
      PROVE  Inv'
  <2>1. /\ Move(c, "idle", NoLocals) /\ At(c, "idle", NoLocals, ops[c])
        /\ watch' = [watch EXCEPT ![c] = "off"] /\ res' = [res EXCEPT ![c] = "error"]
    BY <1>1, IdleAt DEF Return
  <2>2. ControlInv'
    BY <1>1, <2>1, ControlMove DEF Inv
  <2>3. StoreInv' /\ AnswerInv'
    BY <1>1, <2>1 DEF Inv, StoreInv, AnswerInv
  <2>4. /\ watch' \in [Clients -> {"off", "clean", "dirty", "broken"}]
        /\ \A d \in Clients \ {c} : watch'[d] = watch[d]
    BY <2>1 DEF Inv, WatchInv
  <2>5. WatchInv'
    BY <1>1, <2>1, <2>4, WatchMove DEF Inv
  <2>6. x.req.id = <<c, ops[c]>>
    BY <1>1, <1>3 DEF Inv, ControlInv, At, RequestAt
  <2>7. pc'[c] = "idle" /\ \A d \in Clients \ {c} : pc'[d] = pc[d]
    BY <2>1, MoveEffect DEF Inv
  <2>8. late' \subseteq late \cup {x}
    BY <1>3 DEF Fails
  <2>9. LateInv'
    BY <1>1, <1>3, <2>6, <2>7, <2>8, LateAdded DEF Inv
  <2> QED
    BY <2>2, <2>3, <2>5, <2>9 DEF Inv
<1>4. CASE pc[c] \in {"set", "setnx", "del"} /\ Fails(Command(pc[c], c))
  <2>1. Command(pc[c], c).op = pc[c] /\ Command(pc[c], c).req = loc[c].req
    BY DEF Command
  <2> QED
    BY <1>3, <1>4, <2>1, CommandFits
<1>5. CASE pc[c] \in {"evalcas", "reeval"} /\ Fails(Command("cas", c))
  <2>1. Command("cas", c).op = "cas" /\ Command("cas", c).req = loc[c].req
    BY DEF Command
  <2> QED
    BY <1>3, <1>5, <2>1, CommandFits
<1> QED
  BY <1>2, <1>4, <1>5 DEF Raise

(* The operation decodes what it wrote, or acts on the reply. *)
LEMMA ReplyInv ==
    ASSUME Inv, NEW c \in Clients, Verify(c) \/ Reply(c)
    PROVE  Inv'
<1>1. /\ pc[c] \in {"verify", "reply"} /\ UNCHANGED <<now, entry, scripts, late, ops>>
      /\ scripts' \in BOOLEAN /\ "error" \in Outcomes
  BY DEF Verify, Reply, Outcomes, Inv, StoreInv
<1>2. loc[c] \in Locals /\ At(c, pc[c], loc[c], ops[c])
  BY DEF Inv, ControlInv
<1>3. loc[c].out \in Outcomes /\ (pc[c] = "verify" => Real(loc[c].new))
  BY <1>2 DEF Locals, At, EnvelopesAt, Fresh
<1>4. CASE pc[c] = "verify" /\ Return(c, loc[c].out) /\ seen' = [seen EXCEPT ![c] = loc[c].new]
  BY <1>1, <1>3, <1>4, QuietReturn
<1>5. CASE (Return(c, loc[c].out) \/ Return(c, "error")) /\ UNCHANGED seen
  BY <1>1, <1>3, <1>5, QuietReturn
<1> QED
  BY <1>4, <1>5 DEF Verify, Reply

-----------------------------------------------------------------------------
(* increment, and the environment. *)

(* WATCH: one attempt more, never more than Retries. *)
LEMMA WatchStepInv ==
    ASSUME Inv, NEW c \in Clients, Watch(c)
    PROVE  Inv'
<1> DEFINE n == loc[c].tries + 1
           v == [loc[c] EXCEPT !.tries = n]
<1>1. /\ pc[c] = "watch" /\ Move(c, "wget", v) /\ watch' = [watch EXCEPT ![c] = "clean"]
      /\ UNCHANGED <<now, entry, scripts, late, seen, ops, res>>
  BY DEF Watch
<1>2. loc[c] \in Locals /\ At(c, "watch", loc[c], ops[c])
  BY <1>1 DEF Inv, ControlInv
<1>3. n \in 0 .. Retries
  BY <1>2, OpsAssumption DEF At, RequestAt, Locals
<1> HIDE DEF n
<1>4. v \in Locals /\ v.req = loc[c].req /\ v.out = loc[c].out
  BY <1>2, <1>3, TriesOf
<1> HIDE DEF v
<1>5. RequestAt(c, "wget", v, ops[c])
  BY <1>2, <1>4 DEF At, RequestAt, KindsAt
<1>6. EnvelopesAt("wget", v) /\ "wget" \in Pcs
  BY DEF EnvelopesAt, Comparing, Pcs
<1>7. At(c, "wget", v, ops[c]) /\ AnswerInv' /\ scripts' \in BOOLEAN
  BY <1>1, <1>4, <1>5, <1>6, AnswersKept DEF At, Inv, StoreInv
<1> QED
  BY <1>1, <1>7, QuietMove

(* The sum is encoded for the envelope that was read. *)
LEMMA AddInv ==
    ASSUME Inv, NEW c \in Clients, Add(c)
    PROVE  Inv'
<1> DEFINE b == loc[c].buf
           e == Encoded(b.val + Amount, b.src, PlainTtl, now, now)
           v == [loc[c] EXCEPT !.new = e]
<1>1. /\ pc[c] = "wdecode" /\ UNCHANGED <<now, entry, scripts, late, seen, ops>>
      /\ scripts' \in BOOLEAN /\ "refused" \in Outcomes
  BY DEF Add, Outcomes, Inv, StoreInv
<1>2. CASE Return(c, "refused")
  BY <1>1, <1>2, QuietReturn
<1>3. CASE Move(c, "exec", v) /\ UNCHANGED <<watch, res>>
  <2>1. loc[c] \in Locals /\ At(c, "wdecode", loc[c], ops[c]) /\ now \in Nat
    BY <1>1 DEF Inv, ControlInv, StoreInv
  <2>2. Real(b)
    BY <2>1 DEF At, EnvelopesAt
  <2>3. b.val + Amount \in Nat /\ b.src \in Sources
    BY <2>2, OpsAssumption DEF Real, EnvelopeType
  <2>4. Fresh(e) /\ e.val = b.val + Amount /\ e.src = b.src
    BY <2>1, <2>3, Ttls, EncodedFresh
  <2> HIDE DEF e
  <2>5. v \in Locals /\ v.new = e /\ v.buf = b /\ v.req = loc[c].req /\ v.out = loc[c].out
    BY <2>1, <2>4, NewOf DEF Fresh, Real
  <2> HIDE DEF v
  <2>6. RequestAt(c, "exec", v, ops[c])
    BY <2>1, <2>5 DEF At, RequestAt, KindsAt
  <2>7. EnvelopesAt("exec", v) /\ "exec" \in Pcs
    BY <2>2, <2>4, <2>5 DEF EnvelopesAt, Comparing, Pcs
  <2>8. At(c, "exec", v, ops[c]) /\ AnswerInv'
    BY <1>1, <1>3, <2>5, <2>6, <2>7, AnswersKept DEF At, Inv
  <2>9. watch'[c] = "clean" => entry # NoEntry /\ Version(entry.env) = Version(b)
    BY <1>1, <1>3 DEF Inv, WatchInv
  <2> HIDE DEF b
  <2> QED
    BY <1>1, <1>3, <2>5, <2>8, <2>9, QuietMove
<1> QED
  BY <1>2, <1>3 DEF Add

(* A conflict, or a connection that failed: once more, or the error. *)
LEMMA RetryInv ==
    ASSUME Inv, NEW c \in Clients, ExecConflict(c) \/ WatchedFails(c)
    PROVE  Inv'
<1>1. /\ pc[c] \in {"wget", "exec"} /\ Retry(c)
      /\ UNCHANGED <<now, entry, scripts, late, seen, ops>>
      /\ scripts' \in BOOLEAN /\ "error" \in Outcomes
  BY DEF ExecConflict, WatchedFails, Outcomes, Inv, StoreInv
<1>2. CASE Return(c, "error")
  BY <1>1, <1>2, QuietReturn
<1> DEFINE v == [loc[c] EXCEPT !.buf = NoEnvelope, !.new = NoEnvelope]
<1>3. CASE /\ loc[c].tries < Retries /\ Move(c, "watch", v)
           /\ watch' = [watch EXCEPT ![c] = "off"] /\ UNCHANGED res
  <2>1. loc[c] \in Locals /\ At(c, pc[c], loc[c], ops[c])
    BY DEF Inv, ControlInv
  <2>2. v \in Locals /\ v.req = loc[c].req /\ v.out = loc[c].out /\ v.tries = loc[c].tries
    BY <2>1, NoEnvelopeType DEF Locals
  <2> HIDE DEF v
  <2>3. RequestAt(c, "watch", v, ops[c])
    BY <1>1, <1>3, <2>1, <2>2 DEF At, RequestAt, KindsAt
  <2>4. EnvelopesAt("watch", v) /\ "watch" \in Pcs
    BY DEF EnvelopesAt, Comparing, Pcs
  <2>5. At(c, "watch", v, ops[c]) /\ AnswerInv'
    BY <1>1, <1>3, <2>2, <2>3, <2>4, AnswersKept DEF At, Inv
  <2> QED
    BY <1>1, <1>3, <2>5, QuietMove
<1> QED
  BY <1>1, <1>2, <1>3 DEF Retry

(* EXEC writes the sum, whether its reply arrives or not. *)
LEMMA ExecEffect ==
    ASSUME Inv, NEW c \in Clients, pc[c] = "exec", entry' = Stored(loc[c].new),
           watch' = [Touched EXCEPT ![c] = "off"], UNCHANGED <<now, scripts, late, ops>>,
           NEW l, NEW v, Move(c, l, v), At(c, l, v, ops[c]), AnswerInv'
    PROVE  Inv'
<1>1. ControlInv'
  BY ControlMove DEF Inv
<1>2. Real(loc[c].new) /\ now \in Nat
  BY DEF Inv, ControlInv, StoreInv, At, EnvelopesAt, Fresh
<1>3. entry' \in [env : EnvelopeType, px : Nat] /\ Real(entry'.env)
  BY <1>2, StoredType
<1>4. StoreInv'
  BY <1>3 DEF Inv, StoreInv, Real
<1>5. /\ watch' \in [Clients -> {"off", "clean", "dirty", "broken"}]
      /\ \A d \in Clients : watch'[d] # "clean"
  BY DEF Inv, WatchInv, Touched
<1>6. WatchInv'
  BY <1>5, WatchMove DEF Inv
<1>7. \A d \in Clients : pc'[d] # "idle" => pc[d] # "idle"
  BY MoveEffect DEF Inv
<1>8. LateInv'
  BY <1>7, LateKept DEF Inv
<1> QED
  BY <1>1, <1>4, <1>6, <1>8 DEF Inv

(* EXEC is answered. *)
LEMMA ExecInv ==
    ASSUME Inv, NEW c \in Clients, Exec(c)
    PROVE  Inv'
<1> DEFINE h == loc[c].hits + 1
           v == [loc[c] EXCEPT !.out = "done", !.hits = h]
<1>1. /\ pc[c] = "exec" /\ entry' = Stored(loc[c].new) /\ Move(c, "verify", v)
      /\ watch' = [Touched EXCEPT ![c] = "off"]
      /\ UNCHANGED <<now, scripts, late, seen, ops, res>>
  BY DEF Exec
<1>2. loc[c] \in Locals /\ At(c, "exec", loc[c], ops[c])
  BY <1>1 DEF Inv, ControlInv
<1>3. h \in Nat
  BY <1>2 DEF Locals
<1> HIDE DEF h
<1>4. v \in Locals /\ v.out = "done" /\ v.new = loc[c].new /\ v.req = loc[c].req
  BY <1>2, <1>3 DEF Locals, Outcomes
<1> HIDE DEF v
<1>5. RequestAt(c, "verify", v, ops[c])
  BY <1>2, <1>4 DEF At, RequestAt, KindsAt, OpKinds
<1>6. EnvelopesAt("verify", v) /\ "verify" \in Pcs
  BY <1>2, <1>4 DEF At, EnvelopesAt, Comparing, Pcs
<1>7. At(c, "verify", v, ops[c]) /\ AnswerInv'
  BY <1>1, <1>4, <1>5, <1>6, AnswersKept DEF At, Inv
<1> QED
  BY <1>1, <1>7, ExecEffect

(* The reply of an EXEC is lost: the increment is repeated or given up. *)
LEMMA ExecLostInv ==
    ASSUME Inv, NEW c \in Clients, ExecLost(c)
    PROVE  Inv'
<1>1. /\ pc[c] = "exec" /\ entry' = Stored(loc[c].new)
      /\ watch' = [Touched EXCEPT ![c] = "off"]
      /\ UNCHANGED <<now, scripts, late, seen, ops>>
  BY DEF ExecLost
<1>2. loc[c] \in Locals /\ At(c, "exec", loc[c], ops[c])
  BY <1>1 DEF Inv, ControlInv
<1>3. CASE loc[c].tries < Retries
  <2> DEFINE h == loc[c].hits + 1
             v == [loc[c] EXCEPT !.buf = NoEnvelope, !.new = NoEnvelope, !.hits = h]
  <2>1. Move(c, "watch", v) /\ UNCHANGED res
    BY <1>3 DEF ExecLost
  <2>2. h \in Nat
    BY <1>2 DEF Locals
  <2> HIDE DEF h
  <2>3. v \in Locals /\ v.req = loc[c].req /\ v.out = loc[c].out /\ v.tries = loc[c].tries
    BY <1>2, <2>2, DroppedOf
  <2> HIDE DEF v
  <2>4. RequestAt(c, "watch", v, ops[c])
    BY <1>2, <1>3, <2>3 DEF At, RequestAt, KindsAt
  <2>5. EnvelopesAt("watch", v) /\ "watch" \in Pcs
    BY DEF EnvelopesAt, Comparing, Pcs
  <2>6. At(c, "watch", v, ops[c]) /\ AnswerInv'
    BY <1>1, <2>1, <2>3, <2>4, <2>5, AnswersKept DEF At, Inv
  <2> QED
    BY <1>1, <2>1, <2>6, ExecEffect
<1>4. CASE ~ (loc[c].tries < Retries)
  <2>1. Move(c, "idle", NoLocals) /\ res' = [res EXCEPT ![c] = "error"]
    BY <1>4 DEF ExecLost
  <2>2. AnswerInv'
    BY <1>1, <2>1 DEF Inv, AnswerInv, Outcomes
  <2> QED
    BY <1>1, <2>1, <2>2, IdleAt, ExecEffect
<1> QED
  BY <1>3, <1>4

(* Only the key, the WATCHes and the commands on their way change. *)
LEMMA EnvironmentInv ==
    ASSUME Inv, Tick \/ LateArrives \/ Restart \/ Damage
    PROVE  Inv'
<1>1. UNCHANGED <<pc, loc, seen, ops, res>> /\ late' \subseteq late
  BY DEF Tick, LateArrives, Restart, Damage
<1>2. ControlInv' /\ AnswerInv' /\ LateInv'
  <2>1. LateInv'
    BY <1>1, LateKept DEF Inv
  <2> QED
    BY <1>1, <2>1 DEF Inv, ControlInv, AnswerInv
<1>3. ASSUME watch' \in [Clients -> {"off", "clean", "dirty", "broken"}],
             \A d \in Clients : watch'[d] = "clean" =>
                /\ watch[d] = "clean"
                /\ \/ entry' = entry
                   \/ /\ entry # NoEntry => entry' # NoEntry
                      /\ Version(entry'.env) = Version(entry.env)
      PROVE  WatchInv'
  <2>1. \A d \in Clients : watch'[d] = "clean" /\ pc'[d] \in {"wdecode", "exec"} =>
             entry' # NoEntry /\ Version(entry'.env) = Version(loc'[d].buf)
    BY <1>1, <1>3 DEF Inv, WatchInv
  <2> QED
    BY <1>3, <2>1 DEF WatchInv, Version
<1>4. /\ Touched \in [Clients -> {"off", "clean", "dirty", "broken"}]
      /\ \A d \in Clients : Touched[d] # "clean"
      /\ watch \in [Clients -> {"off", "clean", "dirty", "broken"}] /\ StoreInv
  BY DEF Touched, Inv, WatchInv
<1>5. CASE Tick
  <2>1. StoreInv'
    BY <1>4, <1>5, NoEnvelopeType DEF Tick, StoreInv
  <2>2. WatchInv'
    BY <1>3, <1>4, <1>5 DEF Tick
  <2> QED
    BY <1>2, <2>1, <2>2 DEF Inv
<1>6. CASE LateArrives
  <2>1. PICK x \in late : Executes(x)
    BY <1>6 DEF LateArrives
  <2>2. OnItsWay(x)
    BY DEF Inv, LateInv
  <2>3. /\ entry' \in [env : EnvelopeType, px : Nat] /\ (entry' = NoEntry \/ Real(entry'.env))
        /\ watch' \in [Clients -> {"off", "clean", "dirty", "broken"}]
        /\ \A d \in Clients : watch'[d] = "clean" => watch[d] = "clean" /\ entry' = entry
    BY <2>1, <2>2, ExecutesEffect DEF Inv
  <2>4. StoreInv'
    BY <1>4, <1>6, <2>3 DEF LateArrives, StoreInv, Real
  <2>5. WatchInv'
    BY <1>3, <2>3
  <2> QED
    BY <1>2, <2>4, <2>5 DEF Inv
<1>7. CASE Restart
  <2>1. StoreInv'
    BY <1>4, <1>7, NoEnvelopeType DEF Restart, StoreInv
  <2>2. /\ watch' \in [Clients -> {"off", "clean", "dirty", "broken"}]
        /\ \A d \in Clients : watch'[d] # "clean"
    BY <1>7 DEF Restart
  <2>3. WatchInv'
    BY <1>3, <2>2
  <2> QED
    BY <1>2, <2>1, <2>3 DEF Inv
<1>8. CASE Damage
  <2>1. PICK f \in Frames \ {"intact"} : entry' = [entry EXCEPT !.env.frame = f]
    BY <1>8 DEF Damage
  <2> DEFINE e == [entry.env EXCEPT !.frame = f]
  <2>2. entry # NoEntry /\ UNCHANGED <<now, scripts, watch>>
    BY <1>8, NoEnvelopeType DEF Damage
  <2>3. Real(entry.env) /\ entry \in [env : EnvelopeType, px : Nat]
    BY <1>4, <2>2 DEF StoreInv
  <2>4. entry' = [entry EXCEPT !.env = e]
    BY <2>1
  <2>5. e \in EnvelopeType /\ Real(e) /\ Version(e) = Version(entry.env)
    BY <2>3 DEF Real, EnvelopeType, Version
  <2> HIDE DEF e
  <2>6. entry' \in [env : EnvelopeType, px : Nat] /\ entry'.env = e
    BY <2>3, <2>4, <2>5
  <2>7. entry' # NoEntry
    BY <2>5, <2>6, NoEnvelopeType
  <2>8. StoreInv'
    BY <1>4, <2>2, <2>5, <2>6 DEF StoreInv, Real
  <2>9. WatchInv'
    BY <1>3, <1>4, <2>2, <2>5, <2>6, <2>7
  <2> QED
    BY <1>2, <2>8, <2>9 DEF Inv
<1> QED
  BY <1>5, <1>6, <1>7, <1>8

(* Every client has seen an envelope that was put, and none is at work. *)
LEMMA InitInv == Init => Inv
<1> SUFFICES ASSUME Init PROVE Inv
  OBVIOUS
<1>1. PICK v \in Values, s \in Sources :
         LET e == Encoded(v, s, EffectiveTtl(v), 0, 0)
         IN  entry \in {NoEntry, Stored(e)} /\ seen = [c \in Clients |-> e]
  BY DEF Init
<1> DEFINE e == Encoded(v, s, EffectiveTtl(v), 0, 0)
<1>2. Real(e) /\ e \in EnvelopeType
  <2>1. v \in Nat /\ EffectiveTtl(v) \in Nat \ {0}
    BY OpsAssumption, Ttls
  <2> QED
    BY <2>1, EncodedFresh DEF Fresh, Real
<1>3. entry \in {NoEntry, Stored(e)} /\ seen = [c \in Clients |-> e]
  BY <1>1
<1> HIDE DEF e
<1>4. StoreInv
  <2>1. now \in Nat /\ scripts \in BOOLEAN
    BY DEF Init
  <2> QED
    BY <1>2, <1>3, <2>1, StoredType, NoEnvelopeType DEF StoreInv
<1>5. AnswerInv
  BY <1>2, <1>3 DEF Init, AnswerInv, Outcomes
<1>6. ControlInv
  <2>1. /\ pc \in [Clients -> Pcs] /\ loc \in [Clients -> Locals] /\ ops \in [Clients -> Nat]
        /\ \A c \in Clients : pc[c] = "idle" /\ loc[c] = NoLocals
    BY NoLocalsType DEF Init, Pcs
  <2> QED
    BY <2>1, IdleAt DEF ControlInv
<1>7. WatchInv /\ LateInv
  BY DEF Init, WatchInv, LateInv
<1> QED
  BY <1>4, <1>5, <1>6, <1>7 DEF Inv

(* Every step keeps the invariant. *)
LEMMA NextInv == Inv /\ [Next]_vars => Inv'
<1> SUFFICES ASSUME Inv, [Next]_vars PROVE Inv'
  OBVIOUS
<1>1. ASSUME NEW c \in Clients, Begin(c) \/ Step(c) PROVE Inv'
  BY <1>1, BeginInv, GetInv, DecodeInv, DiscardInv, EncodeInv, MutationInv, ScriptInv,
     RaiseInv, ReplyInv, WatchStepInv, AddInv, ExecInv, RetryInv, ExecLostInv DEF Step
<1>2. CASE UNCHANGED vars
  <2>1. ControlInv' /\ StoreInv' /\ AnswerInv'
    BY <1>2 DEF vars, Inv, ControlInv, StoreInv, AnswerInv
  <2>2. WatchInv' /\ LateInv'
    BY <1>2 DEF vars, Inv, WatchInv, LateInv
  <2> QED
    BY <2>1, <2>2 DEF Inv
<1> QED
  BY <1>1, <1>2, EnvironmentInv DEF Next, Finished

(* Types, expected versions and the retry bound hold for any number of     *)
(* clients, operations and faults: no increment makes more attempts than   *)
(* its bound.                                                              *)
THEOREM TypeCorrect == Spec => []TypeOK
<1>1. Inv => TypeOK
  BY DEF Inv, ControlInv, StoreInv, WatchInv, LateInv, AnswerInv, OnItsWay, Locals, TypeOK
<1> QED
  BY <1>1, InitInv, NextInv, PTL DEF Spec

-----------------------------------------------------------------------------
(* CacheOps implements AtomicCache.  The state AtomicCache is given: *)

Calls == [c \in Clients |-> loc[c].req]

Effects == [c \in Clients |-> loc[c].out = "done"]

Limbo == {x.req : x \in {y \in late : y.op # "cleanup"}}

(* A client at work has a request, one that is idle has none. *)
LEMMA Requested ==
    ASSUME Inv, NEW c \in Clients
    PROVE  /\ Calls[c] = loc[c].req /\ (Effects[c] <=> loc[c].out = "done")
           /\ pc[c] # "idle" => Calls[c] # NoRequest /\ Calls[c].kind \in OpKinds
           /\ pc[c] = "idle" => Calls[c] = NoRequest /\ ~ Effects[c]
<1>1. At(c, pc[c], loc[c], ops[c])
  BY DEF Inv, ControlInv
<1>2. Calls[c] = loc[c].req /\ (Effects[c] <=> loc[c].out = "done")
  BY DEF Calls, Effects
<1>3. pc[c] # "idle" => loc[c].req.kind \in OpKinds
  BY <1>1 DEF At, RequestAt, KindsAt, OpKinds
<1>4. pc[c] = "idle" => loc[c] = NoLocals
  BY <1>1 DEF At, RequestAt
<1>5. NoRequest.kind \notin OpKinds
  BY DEF NoRequest, OpKinds
<1> QED
  BY <1>2, <1>3, <1>4, <1>5, NoLocalsType

(* A step of one client changes its request and its effect only. *)
LEMMA MoveMapped ==
    ASSUME Inv, NEW c \in Clients, NEW l, NEW v, Move(c, l, v)
    PROVE  /\ Calls' = [Calls EXCEPT ![c] = v.req]
           /\ Effects' = [Effects EXCEPT ![c] = (v.out = "done")]
<1>1. loc' = [loc EXCEPT ![c] = v] /\ loc'[c] = v /\ \A d \in Clients \ {c} : loc'[d] = loc[d]
  BY MoveEffect DEF Inv
<1>2. Calls' = [d \in Clients |-> loc'[d].req] /\ Effects' = [d \in Clients |-> loc'[d].out = "done"]
  BY DEF Calls, Effects
<1>3. Calls' = [Calls EXCEPT ![c] = v.req]
  <2>1. \A d \in Clients : loc'[d].req = IF d = c THEN v.req ELSE loc[d].req
    BY <1>1
  <2> QED
    BY <1>2, <2>1 DEF Calls
<1>4. Effects' = [Effects EXCEPT ![c] = (v.out = "done")]
  BY <1>1, <1>2 DEF Effects
<1> QED
  BY <1>3, <1>4

(* Nothing happens to the key or to what callers know. *)
LEMMA Stutters ==
    ASSUME Inv, NEW c \in Clients, NEW l, NEW v, Move(c, l, v), v.req = loc[c].req,
           v.out = loc[c].out \/ "done" \notin {v.out, loc[c].out},
           entry'.env = entry.env, Limbo' = Limbo, UNCHANGED res
    PROVE  UNCHANGED Atomic!absVars
<1>0. /\ Calls' = [Calls EXCEPT ![c] = v.req]
      /\ Effects' = [Effects EXCEPT ![c] = (v.out = "done")]
  BY MoveMapped
<1>1. Calls' = Calls
  BY <1>0 DEF Calls
<1>2. Effects' = Effects
  <2>1. (v.out = "done") = (loc[c].out = "done")
    OBVIOUS
  <2> QED
    BY <1>0, <2>1 DEF Effects
<1> QED
  BY <1>1, <1>2 DEF Atomic!absVars, Calls, Effects, Limbo

(* The reply is what the engine decided, or a lookup's hit. *)
LEMMA Returns ==
    ASSUME Inv, NEW c \in Clients, pc[c] # "idle", NEW k, Return(c, k),
           \/ k = IF loc[c].out = "done" THEN "done" ELSE "refused"
           \/ k = "done" /\ loc[c].req.kind = "lookup",
           UNCHANGED <<entry, late>>
    PROVE  Atomic!AbsNext
<1>0. /\ Calls' = [Calls EXCEPT ![c] = NoLocals.req]
      /\ Effects' = [Effects EXCEPT ![c] = (NoLocals.out = "done")]
  BY MoveMapped DEF Return
<1>1. Calls' = [Calls EXCEPT ![c] = NoRequest] /\ Effects' = [Effects EXCEPT ![c] = FALSE]
  <2>1. NoLocals.req = NoRequest /\ (NoLocals.out = "done") = FALSE
    BY NoLocalsType
  <2> QED
    BY <1>0, <2>1
<1>2. Calls[c] # NoRequest /\ Calls[c] = loc[c].req /\ (Effects[c] <=> loc[c].out = "done")
  BY Requested
<1>3. /\ res' = [res EXCEPT ![c] = k] /\ entry'.env = entry.env /\ Limbo' = Limbo
      /\ \/ k = IF Effects[c] THEN "done" ELSE "refused"
         \/ k = "done" /\ Calls[c].kind = "lookup"
  BY <1>2 DEF Return, Limbo
<1>4. Atomic!Return(c)
  BY <1>1, <1>2, <1>3 DEF Atomic!Return, Atomic!NoRequest, NoRequest, Calls, Effects, Limbo
<1> QED
  BY <1>4 DEF Atomic!AbsNext

(* The caller is told of an error; its command may be on its way. *)
LEMMA FailsMapped ==
    ASSUME Inv, NEW c \in Clients, pc[c] # "idle", Return(c, "error"),
           entry'.env = entry.env,
           Limbo' = Limbo \/ (loc[c].out # "done" /\ Limbo' = Limbo \cup {loc[c].req})
    PROVE  Atomic!AbsNext
<1>0. /\ Calls' = [Calls EXCEPT ![c] = NoLocals.req]
      /\ Effects' = [Effects EXCEPT ![c] = (NoLocals.out = "done")]
  BY MoveMapped DEF Return
<1>1. Calls' = [Calls EXCEPT ![c] = NoRequest] /\ Effects' = [Effects EXCEPT ![c] = FALSE]
  <2>1. NoLocals.req = NoRequest /\ (NoLocals.out = "done") = FALSE
    BY NoLocalsType
  <2> QED
    BY <1>0, <2>1
<1>2. Calls[c] # NoRequest /\ Calls[c] = loc[c].req /\ (Effects[c] <=> loc[c].out = "done")
  BY Requested
<1>3. Limbo' \in {Limbo, Limbo \cup {r \in {Calls[c]} : ~ Effects[c]}}
  BY <1>2
<1>4. Atomic!Fail(c)
  BY <1>1, <1>2, <1>3 DEF Atomic!Fail, Atomic!NoRequest, NoRequest, Calls, Effects, Limbo, Return
<1> QED
  BY <1>4 DEF Atomic!AbsNext

(* The engine executes the client's mutation. *)
LEMMA TakesEffect ==
    ASSUME Inv, NEW c \in Clients, pc[c] # "idle", NEW l, NEW v, Move(c, l, v),
           v.req = loc[c].req, loc[c].out = "none", v.out = "done",
           Atomic!Effect(loc[c].req, entry.env, entry'.env), UNCHANGED <<late, res>>
    PROVE  Atomic!AbsNext
<1>0. /\ Calls' = [Calls EXCEPT ![c] = v.req]
      /\ Effects' = [Effects EXCEPT ![c] = (v.out = "done")]
  BY MoveMapped
<1>1. Calls' = [Calls EXCEPT ![c] = loc[c].req] /\ Effects' = [Effects EXCEPT ![c] = TRUE]
  <2>1. (v.out = "done") = TRUE
    OBVIOUS
  <2> QED
    BY <1>0, <2>1
<1>2. Calls[c] # NoRequest /\ Calls[c] = loc[c].req /\ ~ Effects[c]
  BY Requested
<1>3. Calls' = Calls /\ Limbo' = Limbo
  BY <1>1, <1>2 DEF Calls, Limbo
<1>4. Atomic!TakeEffect(c)
  BY <1>1, <1>2, <1>3 DEF Atomic!TakeEffect, Atomic!NoRequest, NoRequest, Calls, Effects, Limbo
<1> QED
  BY <1>4 DEF Atomic!AbsNext

(* A command that changes the key does to it what its request asks for,    *)
(* whenever it arrives.                                                    *)
LEMMA CommandEffect ==
    ASSUME StoreInv, NEW x, OnItsWay(x), x.op # "cleanup", Executes(x), Applies(x)
    PROVE  Atomic!Effect(x.req, entry.env, entry'.env)
<1>1. CASE x.op = "del"
  <2>1. entry' = NoEntry /\ x.req.kind = "delete"
    BY <1>1 DEF Executes, EntryAfter, OnItsWay
  <2>2. entry'.env = NoEnvelope
    BY <2>1, NoEnvelopeType
  <2> QED
    BY <2>1, <2>2 DEF Atomic!Effect, Atomic!NoEnvelope, Atomic!Unencoded, NoEnvelope, Unencoded
<1>2. ASSUME x.op \in {"set", "setnx", "cas"}
      PROVE  entry'.env = x.env /\ x.env.frame = "intact" /\ x.env.val = x.req.val
  <2>1. Real(x.env) /\ x.env.frame = "intact" /\ x.env.val = x.req.val
    BY <1>2 DEF OnItsWay, Fresh
  <2>2. entry' = Stored(x.env)
    BY <1>2 DEF Executes, EntryAfter
  <2> QED
    BY <2>1, <2>2, StoredType DEF StoreInv
<1>3. CASE x.op = "set"
  BY <1>2, <1>3 DEF OnItsWay, Atomic!Effect
<1>4. CASE x.op = "setnx"
  <2>1. entry = NoEntry /\ x.req.kind = "pifa"
    BY <1>4 DEF Applies, OnItsWay
  <2> QED
    BY <1>2, <1>4, <2>1, NoEnvelopeType
    DEF Atomic!Effect, Atomic!NoEnvelope, Atomic!Unencoded, NoEnvelope, Unencoded
<1>5. CASE x.op = "cas"
  <2>1. PICK b \in EnvelopeType :
           x.ver = Version(b) /\ Expected(b, x.req.expect) /\ x.env.src = b.src
    BY <1>5 DEF OnItsWay
  <2>2. entry # NoEntry /\ Version(entry.env) = Version(b) /\ x.req.kind = "cas"
    BY <1>5, <2>1 DEF Applies, ScriptMatches, OnItsWay
  <2>3. entry.env # NoEnvelope
    BY <2>2, NoEnvelopeType DEF StoreInv
  <2>4. entry.env.src = b.src
    BY <2>2 DEF Version
  <2>5. x.req.expect \in {Version(entry.env), <<entry.env.src>>}
    BY <2>1, <2>2, <2>4 DEF Expected
  <2>6. Atomic!Matches(entry.env, x.req.expect)
    BY <2>5 DEF Atomic!Matches, Atomic!Version, Version
  <2> QED
    BY <1>2, <1>5, <2>1, <2>2, <2>3, <2>4, <2>6
    DEF Atomic!Effect, Atomic!NoEnvelope, Atomic!Unencoded, NoEnvelope, Unencoded
<1> QED
  BY <1>1, <1>3, <1>4, <1>5 DEF OnItsWay

(* One that does not leaves it alone. *)
LEMMA NoCommandEffect ==
    ASSUME NEW x, Executes(x), ~ Applies(x)
    PROVE  entry' = entry
<1>1. x.op \notin {"del", "cleanup"}
  BY DEF Applies
<1> QED
  BY <1>1 DEF Executes, EntryAfter

(* What is left of the places after an action of their own. *)
LEMMA Undecided ==
    ASSUME Inv, NEW c \in Clients, pc[c] \notin {"verify", "reply"}
    PROVE  loc[c] \in Locals /\ loc[c].out = "none"
BY DEF Inv, ControlInv, At, RequestAt

(* A call is made. *)
LEMMA BeginRefines ==
    ASSUME Inv, NEW c \in Clients, Begin(c)
    PROVE  Atomic!AbsNext
<1>1. PICK k \in Kinds, v \in Values, s \in Sources, x \in {Version(seen[c]), <<seen[c].src>>} :
        Move(c, FirstPc(k),
             [NoLocals EXCEPT
                !.req = [id |-> <<c, ops[c] + 1>>, kind |-> k,
                         val |-> IF k \in {"put", "pifa", "cas"} THEN v ELSE 0,
                         expect |-> IF k = "cas" THEN x ELSE <<>>],
                !.src = IF k \in {"put", "pifa"} THEN s ELSE 0])
  BY DEF Begin
<1> DEFINE r == [id |-> <<c, ops[c] + 1>>, kind |-> k,
                 val |-> IF k \in {"put", "pifa", "cas"} THEN v ELSE 0,
                 expect |-> IF k = "cas" THEN x ELSE <<>>]
           t == IF k \in {"put", "pifa"} THEN s ELSE 0
           w == [NoLocals EXCEPT !.req = r, !.src = t]
<1>2. Move(c, FirstPc(k), w)
  BY <1>1
<1>3. r.kind = k
  OBVIOUS
<1> HIDE DEF r, t
<1>4. w.req = r /\ w.out = "none"
  BY NoLocalsType DEF Locals
<1> HIDE DEF w
<1>5. r # NoRequest
  BY <1>3, OpsAssumption DEF NoRequest, OpKinds
<1>6. Calls[c] = NoRequest /\ ~ Effects[c]
  BY Requested DEF Begin
<1>7. /\ Calls' = [Calls EXCEPT ![c] = r]
      /\ Effects' = [Effects EXCEPT ![c] = (w.out = "done")]
  BY <1>2, <1>4, MoveMapped
<1>8. Effects' = Effects
  <2>1. (w.out = "done") = (loc[c].out = "done")
    <3>1. loc[c].out = "none"
      BY Undecided DEF Begin
    <3> QED
      BY <1>4, <3>1
  <2> QED
    BY <1>7, <2>1 DEF Effects
<1>9. Calls'[c] = r
  BY <1>7 DEF Calls
<1>10. Atomic!Invoke(c)
  BY <1>5, <1>6, <1>7, <1>8, <1>9
  DEF Begin, Atomic!Invoke, Atomic!NoRequest, NoRequest, Calls, Effects, Limbo
<1> QED
  BY <1>10 DEF Atomic!AbsNext

(* lookup and compare_and_set up to the command that may change the key.   *)
LEMMA ReadRefines ==
    ASSUME Inv, NEW c \in Clients, Get(c) \/ Decode(c) \/ Encode(c) \/ EvalNoScript(c)
                                   \/ ReloadScript(c)
    PROVE  Atomic!AbsNext \/ UNCHANGED Atomic!absVars
<1>1. /\ pc[c] \notin {"idle", "verify", "reply"} /\ UNCHANGED <<entry, late>>
      /\ entry.env = entry'.env /\ Limbo' = Limbo
  BY DEF Get, Decode, Encode, EvalNoScript, ReloadScript, Limbo
<1>2. loc[c] \in Locals /\ loc[c].out = "none"
  BY <1>1, Undecided
<1>3. CASE Return(c, "refused") \/ (loc[c].req.kind = "lookup" /\ Return(c, "done"))
  BY <1>1, <1>2, <1>3, Returns
<1>4. ASSUME NEW l, NEW v, Move(c, l, v), v.req = loc[c].req, v.out = "none", UNCHANGED res
      PROVE  UNCHANGED Atomic!absVars
  BY <1>1, <1>2, <1>4, Stutters
<1>5. ASSUME Get(c), entry # NoEntry PROVE UNCHANGED Atomic!absVars
  <2>1. Move(c, "decode", [loc[c] EXCEPT !.buf = entry.env]) /\ UNCHANGED res
    BY <1>5 DEF Get
  <2>2. entry.env \in EnvelopeType
    BY DEF Inv, StoreInv
  <2> QED
    BY <1>2, <1>4, <2>1, <2>2, BufOf
<1>6. ASSUME Encode(c) PROVE UNCHANGED Atomic!absVars
  <2> DEFINE e == NewEnvelope(c)
             v == [loc[c] EXCEPT !.new = e]
  <2> HIDE DEF e
  <2>1. v.req = loc[c].req /\ v.out = loc[c].out
    BY <1>2 DEF Locals
  <2>2. UNCHANGED res /\ \E l : Move(c, l, v)
    BY <1>6 DEF Encode, e
  <2> HIDE DEF v
  <2> QED
    BY <1>2, <1>4, <2>1, <2>2
<1>7. CASE UNCHANGED res /\ \E l : Move(c, l, loc[c])
  BY <1>2, <1>4, <1>7
<1>8. CASE Get(c)
  BY <1>3, <1>5, <1>8 DEF Get
<1>9. CASE Decode(c)
  BY <1>3, <1>7, <1>9 DEF Decode
<1>10. CASE EvalNoScript(c) \/ ReloadScript(c)
  BY <1>7, <1>10 DEF EvalNoScript, ReloadScript
<1> QED
  BY <1>6, <1>8, <1>9, <1>10

(* _best_effort_delete: the key is lost, at once, later or not at all. *)
LEMMA DiscardRefines ==
    ASSUME Inv, NEW c \in Clients, Discard(c)
    PROVE  Atomic!AbsNext \/ UNCHANGED Atomic!absVars
<1> DEFINE v == [loc[c] EXCEPT !.out = "refused"]
<1>1. loc[c] \in Locals /\ loc[c].out = "none"
  BY Undecided DEF Discard
<1>2. Move(c, "reply", v) /\ UNCHANGED res /\ v.req = loc[c].req /\ v.out = "refused"
  BY <1>1, OutOf DEF Discard, Decided, Outcomes
<1> HIDE DEF v
<1>3. Cleanup(c).op = "cleanup"
  BY DEF Cleanup
<1>4. CASE Fails(Cleanup(c))
  <2>1. Limbo' = Limbo /\ entry'.env = entry.env
    BY <1>3, <1>4 DEF Fails, Limbo
  <2> QED
    BY <1>1, <1>2, <2>1, Stutters
<1>5. CASE Executes(Cleanup(c)) /\ UNCHANGED late
  <2>1. entry' = NoEntry
    BY <1>3, <1>5 DEF Executes, EntryAfter, Applies
  <2>2. entry'.env = NoEnvelope
    BY <2>1, NoEnvelopeType
  <2>3. Calls' = [Calls EXCEPT ![c] = v.req] /\ Effects' = [Effects EXCEPT ![c] = (v.out = "done")]
    BY <1>2, MoveMapped
  <2>4. Calls' = Calls
    BY <1>2, <2>3 DEF Calls
  <2>5. Effects' = Effects
    <3>1. (v.out = "done") = (loc[c].out = "done")
      BY <1>1, <1>2
    <3> QED
      BY <2>3, <3>1 DEF Effects
  <2>6. Atomic!Lose
    BY <1>2, <1>5, <2>2, <2>4, <2>5
    DEF Atomic!Lose, Atomic!NoEnvelope, Atomic!Unencoded, NoEnvelope, Unencoded,
        Calls, Effects, Limbo
  <2> QED
    BY <2>6 DEF Atomic!AbsNext
<1> QED
  BY <1>4, <1>5 DEF Discard

(* SET, SET NX, DEL and the script take effect, or are refused. *)
LEMMA MutationRefines ==
    ASSUME Inv, NEW c \in Clients, Set(c) \/ Delete(c) \/ EvalCas(c)
    PROVE  Atomic!AbsNext \/ UNCHANGED Atomic!absVars
<1>1. /\ pc[c] \notin {"idle", "verify", "reply"} /\ UNCHANGED <<late, res>>
      /\ Limbo' = Limbo
  BY DEF Set, Delete, EvalCas, Limbo
<1>2. loc[c] \in Locals /\ loc[c].out = "none" /\ StoreInv
  BY <1>1, Undecided DEF Inv
<1>3. ASSUME NEW x, OnItsWay(x), x.op # "cleanup", x.req = loc[c].req, Executes(x), Applies(x),
             NEW l, Decided(c, l, "done")
      PROVE  Atomic!AbsNext
  <2> DEFINE v == [loc[c] EXCEPT !.out = "done"]
  <2>1. Move(c, l, v) /\ v.req = loc[c].req /\ v.out = "done"
    BY <1>2, <1>3, OutOf DEF Decided, Outcomes
  <2> HIDE DEF v
  <2>2. Atomic!Effect(loc[c].req, entry.env, entry'.env)
    BY <1>2, <1>3, CommandEffect
  <2> QED
    BY <1>1, <1>2, <2>1, <2>2, TakesEffect
<1>4. ASSUME NEW x, Executes(x), ~ Applies(x), NEW l, Decided(c, l, "refused")
      PROVE  UNCHANGED Atomic!absVars
  <2> DEFINE v == [loc[c] EXCEPT !.out = "refused"]
  <2>1. Move(c, l, v) /\ v.req = loc[c].req /\ v.out = "refused"
    BY <1>2, <1>4, OutOf DEF Decided, Outcomes
  <2> HIDE DEF v
  <2>2. entry'.env = entry.env
    BY <1>4, NoCommandEffect
  <2> QED
    BY <1>1, <1>2, <2>1, <2>2, Stutters
<1>5. CASE Set(c)
  <2> DEFINE x == Command(pc[c], c)
  <2>1. x.op = pc[c] /\ x.req = loc[c].req
    BY DEF Command
  <2>2. OnItsWay(x) /\ x.op # "cleanup" /\ Executes(x)
    BY <1>5, <2>1, CommandFits DEF Set
  <2>3. Decided(c, "verify", IF Applies(x) THEN "done" ELSE "refused")
    BY <1>5 DEF Set
  <2> HIDE DEF x
  <2> QED
    BY <1>3, <1>4, <2>1, <2>2, <2>3
<1>6. CASE Delete(c)
  <2> DEFINE x == Command("del", c)
  <2>1. x.op = "del" /\ x.req = loc[c].req /\ pc[c] = "del"
    BY <1>6 DEF Command, Delete
  <2>2. OnItsWay(x) /\ Executes(x) /\ Decided(c, "reply", "done")
    BY <1>6, <2>1, CommandFits DEF Delete
  <2> HIDE DEF x
  <2>3. Applies(x)
    BY <2>1 DEF Applies
  <2> QED
    BY <1>3, <2>1, <2>2, <2>3
<1>7. CASE EvalCas(c)
  <2> DEFINE x == Command("cas", c)
  <2>1. x.op = "cas" /\ x.req = loc[c].req
    BY DEF Command
  <2>2. OnItsWay(x) /\ Executes(x)
    BY <1>7, CommandFits DEF EvalCas
  <2>3. \/ Applies(x) /\ Decided(c, "verify", "done")
        \/ ~ Applies(x) /\ Decided(c, "reply", "refused")
    BY <1>7 DEF EvalCas
  <2> HIDE DEF x
  <2> QED
    BY <1>3, <1>4, <2>1, <2>2, <2>3
<1> QED
  BY <1>5, <1>6, <1>7

(* The caller is told of an error. *)
LEMMA RaiseRefines ==
    ASSUME Inv, NEW c \in Clients, Raise(c)
    PROVE  Atomic!AbsNext
<1>1. /\ pc[c] \notin {"idle", "verify", "reply"} /\ Return(c, "error")
      /\ entry' = entry /\ entry'.env = entry.env
  BY DEF Raise, Fails
<1>2. loc[c].out = "none"
  BY <1>1, Undecided
<1>3. CASE UNCHANGED late
  <2>1. Limbo' = Limbo
    BY <1>3 DEF Limbo
  <2> QED
    BY <1>1, <2>1, FailsMapped
<1>4. ASSUME NEW x, x.op # "cleanup", x.req = loc[c].req, Fails(x)
      PROVE  Atomic!AbsNext
  <2>1. late' = late \/ late' = late \cup {x}
    BY <1>4 DEF Fails
  <2>2. Limbo' = Limbo \/ Limbo' = Limbo \cup {loc[c].req}
    BY <1>4, <2>1 DEF Limbo
  <2> QED
    BY <1>1, <1>2, <2>2, FailsMapped
<1>5. \A o : Command(o, c).op = o /\ Command(o, c).req = loc[c].req
  BY DEF Command
<1>6. CASE pc[c] \in {"set", "setnx", "del"} /\ Fails(Command(pc[c], c))
  BY <1>4, <1>5, <1>6
<1>7. CASE Fails(Command("cas", c))
  BY <1>4, <1>5, <1>7
<1> QED
  BY <1>3, <1>6, <1>7 DEF Raise

(* The caller is told the decision, or of an error because what was        *)
(* written has expired.                                                    *)
LEMMA ReplyRefines ==
    ASSUME Inv, NEW c \in Clients, Verify(c) \/ Reply(c)
    PROVE  Atomic!AbsNext
<1>1. /\ pc[c] \in {"verify", "reply"} /\ UNCHANGED <<entry, late>>
      /\ entry'.env = entry.env /\ Limbo' = Limbo
      /\ Return(c, loc[c].out) \/ Return(c, "error")
  BY DEF Verify, Reply, Limbo
<1>2. loc[c].out \in {"done", "refused"}
  BY <1>1 DEF Inv, ControlInv, At, RequestAt
<1>3. CASE Return(c, loc[c].out)
  BY <1>1, <1>2, <1>3, Returns
<1>4. CASE Return(c, "error")
  BY <1>1, <1>4, FailsMapped
<1> QED
  BY <1>1, <1>3, <1>4

(* increment up to EXEC, and its attempts after a conflict. *)
LEMMA AttemptRefines ==
    ASSUME Inv, NEW c \in Clients, Watch(c) \/ WatchedGet(c) \/ Add(c) \/ ExecConflict(c)
                                   \/ WatchedFails(c)
    PROVE  Atomic!AbsNext \/ UNCHANGED Atomic!absVars
<1>1. /\ pc[c] \notin {"idle", "verify", "reply"} /\ UNCHANGED <<entry, late>>
      /\ entry'.env = entry.env /\ Limbo' = Limbo
  BY DEF Watch, WatchedGet, Add, ExecConflict, WatchedFails, Limbo
<1>2. loc[c] \in Locals /\ loc[c].out = "none"
  BY <1>1, Undecided
<1>3. ASSUME NEW l, NEW v, Move(c, l, v), v.req = loc[c].req, v.out = loc[c].out, UNCHANGED res
      PROVE  UNCHANGED Atomic!absVars
  BY <1>1, <1>2, <1>3, Stutters
<1>4. CASE Return(c, "refused")
  BY <1>1, <1>2, <1>4, Returns
<1>5. CASE Return(c, "error")
  BY <1>1, <1>5, FailsMapped
<1>6. CASE Watch(c)
  <2> DEFINE n == loc[c].tries + 1
             v == [loc[c] EXCEPT !.tries = n]
  <2>1. Move(c, "wget", v) /\ UNCHANGED res
    BY <1>6 DEF Watch
  <2> HIDE DEF n
  <2>2. v.req = loc[c].req /\ v.out = loc[c].out
    BY <1>2 DEF Locals
  <2> HIDE DEF v
  <2> QED
    BY <1>3, <2>1, <2>2
<1>7. CASE WatchedGet(c)
  <2>1. CASE entry # NoEntry
    <3>1. Move(c, "wdecode", [loc[c] EXCEPT !.buf = entry.env]) /\ UNCHANGED res
      BY <1>7, <2>1 DEF WatchedGet
    <3>2. entry.env \in EnvelopeType
      BY DEF Inv, StoreInv
    <3> QED
      BY <1>2, <1>3, <3>1, <3>2, BufOf
  <2> QED
    BY <1>4, <1>7, <2>1 DEF WatchedGet
<1>8. CASE Add(c)
  <2> DEFINE e == Encoded(loc[c].buf.val + Amount, loc[c].buf.src, PlainTtl, now, now)
             v == [loc[c] EXCEPT !.new = e]
  <2>1. Return(c, "refused") \/ (Move(c, "exec", v) /\ UNCHANGED res)
    BY <1>8 DEF Add
  <2> HIDE DEF e
  <2>2. v.req = loc[c].req /\ v.out = loc[c].out
    BY <1>2 DEF Locals
  <2> HIDE DEF v
  <2> QED
    BY <1>3, <1>4, <2>1, <2>2
<1>9. CASE ExecConflict(c) \/ WatchedFails(c)
  <2> DEFINE v == [loc[c] EXCEPT !.buf = NoEnvelope, !.new = NoEnvelope]
  <2>1. Return(c, "error") \/ (Move(c, "watch", v) /\ UNCHANGED res)
    BY <1>9 DEF ExecConflict, WatchedFails, Retry
  <2>2. v.req = loc[c].req /\ v.out = loc[c].out
    BY <1>2 DEF Locals
  <2> HIDE DEF v
  <2> QED
    BY <1>3, <1>5, <2>1, <2>2
<1> QED
  BY <1>6, <1>7, <1>8, <1>9

(* An EXEC that is executed adds to what the key holds: its WATCH is       *)
(* clean, so that is what was read.                                        *)
LEMMA ExecRefines ==
    ASSUME Inv, NEW c \in Clients, Exec(c)
    PROVE  Atomic!AbsNext
<1> DEFINE h == loc[c].hits + 1
           v == [loc[c] EXCEPT !.out = "done", !.hits = h]
           b == loc[c].buf
           e == loc[c].new
<1>1. /\ pc[c] = "exec" /\ watch[c] = "clean" /\ entry' = Stored(e) /\ Move(c, "verify", v)
      /\ UNCHANGED <<late, res>>
  BY DEF Exec, ExecAllowed
<1>2. loc[c] \in Locals /\ loc[c].out = "none" /\ At(c, "exec", loc[c], ops[c])
  BY <1>1, Undecided DEF Inv, ControlInv
<1> HIDE DEF h
<1>3. v.req = loc[c].req /\ v.out = "done"
  BY <1>2 DEF Locals
<1>4. /\ loc[c].req.kind = "incr" /\ Real(e) /\ e.frame = "intact"
      /\ e.val = b.val + Amount /\ e.src = b.src
  BY <1>2 DEF At, RequestAt, EnvelopesAt, KindsAt, Fresh
<1>5. entry # NoEntry /\ Version(entry.env) = Version(b)
  BY <1>1 DEF Inv, WatchInv
<1>6. entry.env.val = b.val /\ entry.env.src = b.src
  BY <1>5 DEF Version
<1>7. entry.env # NoEnvelope
  BY <1>5, NoEnvelopeType DEF Inv, StoreInv
<1>8. entry'.env = e
  BY <1>1, <1>4, StoredType DEF Inv, StoreInv
<1> HIDE DEF v, b, e
<1>9. Atomic!Effect(loc[c].req, entry.env, entry'.env)
  BY <1>4, <1>6, <1>7, <1>8
  DEF Atomic!Effect, Atomic!NoEnvelope, Atomic!Unencoded, NoEnvelope, Unencoded
<1> QED
  BY <1>1, <1>2, <1>3, <1>9, TakesEffect

(* The key expires, is lost or damaged, or a late command arrives. *)
LEMMA EnvironmentRefines ==
    ASSUME Inv, Tick \/ LateArrives \/ Restart \/ Damage
    PROVE  Atomic!AbsNext \/ UNCHANGED Atomic!absVars
<1>1. UNCHANGED <<Calls, Effects, res>>
  BY DEF Tick, LateArrives, Restart, Damage, Calls, Effects
<1>2. ASSUME entry' = NoEntry, Limbo' = Limbo PROVE Atomic!AbsNext
  <2>1. entry'.env = NoEnvelope
    BY <1>2, NoEnvelopeType
  <2>2. Atomic!Lose
    BY <1>1, <1>2, <2>1
    DEF Atomic!Lose, Atomic!NoEnvelope, Atomic!Unencoded, NoEnvelope, Unencoded,
        Calls, Effects, Limbo
  <2> QED
    BY <2>2 DEF Atomic!AbsNext
<1>3. CASE Tick
  <2>1. Limbo' = Limbo
    BY <1>3 DEF Tick, Limbo
  <2>2. CASE entry' = entry
    BY <1>1, <2>1, <2>2 DEF Atomic!absVars, Calls, Effects, Limbo
  <2> QED
    BY <1>2, <1>3, <2>1, <2>2 DEF Tick
<1>4. CASE Restart
  BY <1>2, <1>4 DEF Restart, Limbo
<1>5. CASE Damage
  <2>1. PICK f \in Frames \ {"intact"} : entry' = [entry EXCEPT !.env.frame = f]
    BY <1>5 DEF Damage
  <2>2. entry # NoEntry /\ Limbo' = Limbo
    BY <1>5, NoEnvelopeType DEF Damage, Limbo
  <2>3. Real(entry.env) /\ entry \in [env : EnvelopeType, px : Nat]
    BY <2>2 DEF Inv, StoreInv
  <2> DEFINE e == [entry.env EXCEPT !.frame = f]
  <2>4. entry' = [entry EXCEPT !.env = e]
    BY <2>1
  <2>5. Real(e) /\ e.frame # "intact"
    BY <2>3 DEF Real, EnvelopeType
  <2> HIDE DEF e
  <2>6. entry'.env = e
    BY <2>3, <2>4
  <2>7. entry.env # NoEnvelope /\ entry'.env # NoEnvelope /\ entry'.env.frame # "intact"
    BY <2>3, <2>5, <2>6, NoEnvelopeType
  <2>8. Atomic!Rot
    BY <1>1, <2>2, <2>7
    DEF Atomic!Rot, Atomic!NoEnvelope, Atomic!Unencoded, NoEnvelope, Unencoded,
        Calls, Effects, Limbo
  <2> QED
    BY <2>8 DEF Atomic!AbsNext
<1>6. CASE LateArrives
  <2>1. PICK x \in late : Executes(x) /\ late' = late \ {x}
    BY <1>6 DEF LateArrives
  <2>2. OnItsWay(x) /\ StoreInv
    BY DEF Inv, LateInv
  <2>3. CASE x.op = "cleanup"
    <3>1. entry' = NoEntry
      BY <2>1, <2>3 DEF Executes, EntryAfter, Applies
    <3>2. Limbo' = Limbo
      BY <2>1, <2>3 DEF Limbo
    <3> QED
      BY <1>2, <3>1, <3>2
  <2>4. CASE x.op # "cleanup"
    <3>1. \A y \in late : y.op # "cleanup" /\ y.req = x.req => y = x
      BY <2>4 DEF Inv, LateInv
    <3>2. x.req \in Limbo /\ Limbo' = Limbo \ {x.req}
      BY <2>1, <2>4, <3>1 DEF Limbo
    <3>3. entry'.env = entry.env \/ Atomic!Effect(x.req, entry.env, entry'.env)
      BY <2>1, <2>2, <2>4, CommandEffect, NoCommandEffect
    <3>4. Atomic!Straggle
      BY <1>1, <3>2, <3>3 DEF Atomic!Straggle, Calls, Effects, Limbo
    <3> QED
      BY <3>4 DEF Atomic!AbsNext
  <2> QED
    BY <2>3, <2>4
<1> QED
  BY <1>3, <1>4, <1>5, <1>6

(* Every step is one of AtomicCache or changes nothing it sees, unless the *)
(* reply of an EXEC is lost.                                               *)
LEMMA NextRefines ==
    ASSUME "execloss" \notin Faults, Inv, [Next]_vars
    PROVE  [Atomic!AbsNext]_(Atomic!absVars)
<1>1. ASSUME NEW c \in Clients, Begin(c) \/ Step(c)
      PROVE  Atomic!AbsNext \/ UNCHANGED Atomic!absVars
  <2>1. ~ ExecLost(c)
    BY DEF ExecLost
  <2> QED
    BY <1>1, <2>1, BeginRefines, ReadRefines, DiscardRefines, MutationRefines, RaiseRefines,
       ReplyRefines, AttemptRefines, ExecRefines DEF Step
<1>2. CASE UNCHANGED vars
  BY <1>2 DEF vars, Atomic!absVars
<1> QED
  BY <1>1, <1>2, EnvironmentRefines DEF Next, Finished

(* Nobody has called yet. *)
LEMMA InitRefines == Init => Atomic!AbsInit
<1> SUFFICES ASSUME Init PROVE Atomic!AbsInit
  OBVIOUS
<1>1. \A c \in Clients : loc[c] = NoLocals
  BY DEF Init
<1>2. [c \in Clients |-> loc[c].req] = [c \in Clients |-> NoRequest]
  BY <1>1, NoLocalsType
<1>3. [c \in Clients |-> loc[c].out = "done"] = [c \in Clients |-> FALSE]
  <2>1. \A c \in Clients : (loc[c].out = "done") = FALSE
    BY <1>1, NoLocalsType
  <2> QED
    BY <2>1
<1>4. res = [c \in Clients |-> "none"] /\ {x.req : x \in {y \in late : y.op # "cleanup"}} = {}
  BY DEF Init
<1> QED
  BY <1>2, <1>3, <1>4 DEF Atomic!AbsInit, Atomic!NoRequest, NoRequest

(* put, put_if_absent, compare_and_set, delete and increment implement the *)
(* atomic cache for any number of clients and operations, with lost and    *)
(* late commands, restarts and damage, provided that no connection breaks  *)
(* between an EXEC and its reply; the client library turns that into a     *)
(* conflict, and the increment is executed again.                          *)
THEOREM OperationsAreAtomic ==
    ASSUME "execloss" \notin Faults
    PROVE  Spec => ImplementsAtomicCache
<1>1. Inv /\ [Next]_vars => [Atomic!AbsNext]_(Atomic!absVars)
  BY NextRefines
<1> QED
  BY <1>1, InitInv, NextInv, InitRefines, PTL DEF Spec, ImplementsAtomicCache, Atomic!AbsSpec
=============================================================================
