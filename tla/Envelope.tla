------------------------------ MODULE Envelope ------------------------------
(***************************************************************************)
(* What the cache layer sees of a value envelope: the value it carries     *)
(* (for cache-aside, a version of the authority's value), the source       *)
(* version, the writer's creation and expiry instants, and whether the     *)
(* bytes still verify.  The framing itself (magic, digests, canonical      *)
(* JSON) is abstracted to the single field frame: decode either accepts    *)
(* the whole frame or rejects it.  All instants are milliseconds of some       *)
(* client's wall clock, except at, which is a ghost (the global time of    *)
(* the encode, which no client can see).                                   *)
(***************************************************************************)
EXTENDS Integers

CONSTANTS
    Ttl,             \* requested or default TTL of a present value
    NegativeTtl,     \* ttl.negativeTtlMs, for a cached None
    MaxTtl,          \* ttl.maximumTtlMs
    MaxStaleness,    \* the Resource's maximumStalenessMs
    AbsentVersions,  \* authority versions in which the value does not exist
    NegativeCaching  \* the Resource's negativeCaching flag

ASSUME TtlAssumption ==
    /\ Ttl \in Nat \ {0}
    /\ NegativeTtl \in Nat \ {0}
    /\ MaxTtl \in Nat \ {0}
    /\ MaxStaleness \in Nat \ {0}

ASSUME NegativeAssumption ==
    /\ AbsentVersions \subseteq Nat
    /\ NegativeCaching \in BOOLEAN

(* "intact": decode accepts the frame; "damaged": the magic and version    *)
(* prefix are there, the rest does not verify; "foreign": not even those.  *)
Frames == {"intact", "damaged", "foreign"}

EnvelopeType ==
    {e \in [val : Nat, src : Nat, created : Nat, expires : Nat,
            frame : Frames, at : Nat] :
        e.created <= e.expires}

(* A value in hand that is not encoded yet. *)
Unencoded(v) ==
    [val |-> v, src |-> 0, created |-> 0, expires |-> 0, frame |-> "foreign", at |-> 0]

NoEnvelope == Unencoded(0)

(* The loader's answer for this authority version is None. *)
Negative(v) == v \in AbsentVersions

Least(a, b) == IF a <= b THEN a ELSE b

(* ValkeySettings.effective_ttl_ms; the rejection of a result below the    *)
(* deployment minimum is the encode failure of the modules that put.       *)
EffectiveTtlUnclamped(v) ==
    IF Negative(v) /\ NegativeCaching THEN NegativeTtl ELSE Ttl

EffectiveTtlNegativeIgnored(v) == Least(Ttl, Least(MaxTtl, MaxStaleness))

EffectiveTtl(v) ==
    Least(EffectiveTtlUnclamped(v), Least(MaxTtl, MaxStaleness))

(* EnvelopeCodec.encode of value v with source version s, by a client      *)
(* whose wall clock shows clock while the global time is t.                *)
Encoded(v, s, ttl, clock, t) ==
    [val |-> v, src |-> s, created |-> clock, expires |-> clock + ttl,
     frame |-> "intact", at |-> t]

(* The envelope version is a digest of header and payload: injective, and  *)
(* equal for equal contents.                                               *)
Version(e) == <<e.val, e.src, e.created, e.expires>>

(* EnvelopeCodec.decode's two expiry tests. *)
UnexpiredInclusive(e, clock) == /\ e.expires >= clock
                                /\ e.created + MaxStaleness >= clock

Unexpired(e, clock) == /\ e.expires > clock
                       /\ e.created + MaxStaleness > clock

(* decode returns normally. *)
Decodes(e, clock) == e.frame = "intact" /\ Unexpired(e, clock)
=============================================================================
