---------------------------- MODULE EnvelopeCodec ----------------------------
(***************************************************************************)
(* EnvelopeCodec: a writer encodes a value, the stored bytes may change in *)
(* any of their parts, a reader with its own limits, Schema and clock      *)
(* decodes them.  Bytes are abstracted to the parts the codec tells apart; *)
(* SHA-256 is an injective constructor.                                    *)
(***************************************************************************)
EXTENDS Integers, FiniteSets

CONSTANTS
    Bodies,        \* payload contents
    Schemas,       \* Schema fingerprints
    Sources,       \* source versions
    WriterTtl,     \* ttl_ms given to encode
    Staleness,     \* the reader's maximum_staleness_ms
    Overhead,      \* bytes of a frame besides its payload
    WriterLimit,   \* maximum_value_bytes of the writer
    ReaderLimit,   \* maximum_value_bytes of the reader
    MaxLength,     \* bound: payload bytes
    MaxDamage,     \* bound: parts that change in storage
    MaxTime        \* bound: the reader's clock

ASSUME CodecAssumption ==
    /\ WriterTtl \in Nat \ {0} /\ Staleness \in Nat \ {0}
    /\ Overhead \in Nat /\ WriterLimit \in Nat \ {0} /\ ReaderLimit \in Nat \ {0}
    /\ MaxLength \in Nat /\ MaxDamage \in Nat /\ MaxTime \in Nat
    /\ Sources \subseteq Nat

(* "canonical": canonical JSON text; "loose": JSON in another spelling;    *)
(* "bytes": not JSON at all.                                               *)
Texts == {"canonical", "loose", "bytes"}
Payloads == [body : Bodies, text : Texts, len : 0 .. MaxLength]

Serializers == {"canonical-json", "raw-bytes"}

(* Source versions no encode writes: an array or object, a NaN. *)
Structured == -1
NonFinite == -2

(* The instants a damaged header may hold. *)
Times == 0 .. WriterTtl

(* SHA-256 of a payload, alone or after a header's text; Malformed is a    *)
(* string that is no fingerprint.                                          *)
NoBase == [format |-> "none"]
Sha256(base, payload) == [base |-> base, payload |-> payload]
Digest(payload) == Sha256(NoBase, payload)
Malformed == [base |-> NoBase]

(* Schema fingerprints are well formed: the Resource computes them. *)
ASSUME SchemaAssumption == Malformed \notin Schemas

(* The header's fields that the version digest covers. *)
BaseHeader(serializer, schema, source, created, expires, payload) ==
    [format |-> "v1", serializer |-> serializer, schema |-> schema, source |-> source,
     created |-> created, expires |-> expires, digest |-> Digest(payload),
     length |-> payload.len]

VersionOf(base, payload) == Sha256(base, payload)

(* prefix: magic and version in front; size: the header's length field,    *)
(* right or wrong, in the spelling encode uses or another one that int()   *)
(* accepts; fields: which of the header's keys are there; spelling of the  *)
(* header's JSON.                                                          *)
Frame(base, payload) ==
    [magic |-> "MRVK1", prefix |-> VersionOf(base, payload),
     size |-> "right", sizeSpelling |-> "canonical",
     fields |-> "all", spelling |-> "canonical",
     base |-> base, version |-> VersionOf(base, payload), payload |-> payload]

FrameLength(f) == Overhead + f.payload.len

VARIABLES
    clock,   \* the wall clock of writer and reader
    value,   \* what the writer encoded: [payload, serializer, schema, source]
    frame,   \* the stored bytes
    damage,  \* number of changes in storage
    expected,\* the Schema fingerprint the reader expects
    out      \* "none", encode's or decode's outcome

vars == <<clock, value, frame, damage, expected, out>>

NoFrame == [magic |-> "none"]
NoValue == [serializer |-> "none"]

-----------------------------------------------------------------------------
(* encode. *)

(* canonical_json_bytes of a JSON value is canonical; raw bytes are what   *)
(* they are.                                                               *)
Values ==
    {v \in [payload : Payloads, serializer : Serializers, schema : Schemas, source : Sources] :
        v.serializer = "canonical-json" => v.payload.text = "canonical"}

EncodedFrame(v, t) ==
    Frame(BaseHeader(v.serializer, v.schema, v.source, t, t + WriterTtl, v.payload), v.payload)

Fits(v) == v.payload.len <= WriterLimit /\ FrameLength([payload |-> v.payload]) <= WriterLimit

Encode ==
    /\ frame = NoFrame /\ out = "none"
    /\ \E v \in Values :
          /\ Fits(v)
          /\ value' = v /\ frame' = EncodedFrame(v, clock)
    /\ UNCHANGED <<clock, damage, expected, out>>

EncodeTooLarge ==
    /\ frame = NoFrame /\ out = "none"
    /\ \E v \in Values : ~ Fits(v)
    /\ out' = "too large"
    /\ UNCHANGED <<clock, value, frame, damage, expected>>

-----------------------------------------------------------------------------
(* Storage: one part of the frame changes. *)

Digests(f) ==
    {Malformed, f.prefix} \cup
    {Digest([f.payload EXCEPT !.body = b]) : b \in Bodies} \cup
    {VersionOf([f.base EXCEPT !.schema = s], f.payload) : s \in Schemas}

DamagedBases(f) ==
    {[f.base EXCEPT !.format = "v0"]} \cup
    {[f.base EXCEPT !.serializer = s] : s \in Serializers \cup {"other"}} \cup
    {[f.base EXCEPT !.schema = s] : s \in Schemas \cup {Malformed}} \cup
    {[f.base EXCEPT !.source = s] : s \in Sources \cup {Structured, NonFinite}} \cup
    {[f.base EXCEPT !.created = t] : t \in Times \cup {-1}} \cup
    {[f.base EXCEPT !.expires = t] : t \in Times \cup {-1}} \cup
    {[f.base EXCEPT !.digest = d] : d \in Digests(f)} \cup
    {[f.base EXCEPT !.length = n] : n \in 0 .. MaxLength}

Damaged(f) ==
    {[f EXCEPT !.magic = "other"], [f EXCEPT !.size = "wrong"],
     [f EXCEPT !.sizeSpelling = "other"],
     [f EXCEPT !.fields = "other"], [f EXCEPT !.spelling = "other"]} \cup
    {[f EXCEPT !.prefix = d] : d \in Digests(f)} \cup
    {[f EXCEPT !.version = d] : d \in Digests(f)} \cup
    {[f EXCEPT !.base = b] : b \in DamagedBases(f)} \cup
    {[f EXCEPT !.payload = p] : p \in Payloads}

Damage ==
    /\ frame # NoFrame /\ out = "none" /\ damage < MaxDamage
    /\ frame' \in Damaged(frame) \ {frame}
    /\ damage' = damage + 1
    /\ UNCHANGED <<clock, value, expected, out>>

-----------------------------------------------------------------------------
(* decode. *)

IsFingerprint(d) == d # Malformed

(* extract_version. *)
PrefixOK(f) == f.magic = "MRVK1" /\ IsFingerprint(f.prefix)

(* The header is an object with exactly the V1 fields, each well formed. *)
HeaderOK(f) ==
    /\ f.size = "right" /\ f.fields = "all"
    /\ f.base.format = "v1" /\ f.base.serializer \in Serializers
    /\ IsFingerprint(f.base.schema) /\ IsFingerprint(f.base.digest)
    /\ IsFingerprint(f.version)
    /\ f.base.created >= 0 /\ f.base.expires >= 0
    /\ f.base.expires > f.base.created

(* The payload is the one the header describes, and both copies of the     *)
(* version agree.                                                          *)
PayloadMatches(f) ==
    /\ f.base.length = f.payload.len
    /\ f.base.digest = Digest(f.payload)
    /\ f.version = f.prefix

(* The version is the digest of header and payload, the header's spelling  *)
(* canonical, the source version a string, an integer or null.             *)
VersionMatchesTrusted(f) ==
    f.spelling = "canonical" /\ f.base.source \in Sources

VersionMatches(f) ==
    /\ VersionOf(f.base, f.payload) = f.prefix
    /\ f.spelling = "canonical"
    /\ f.base.source \in Sources

ExpiredInclusive(f, t) == f.base.expires < t \/ f.base.created + Staleness < t

Expired(f, t) == f.base.expires <= t \/ f.base.created + Staleness <= t

PayloadOK(f) == f.base.serializer = "canonical-json" => f.payload.text = "canonical"

SchemaOKSkipped(f, schema) == TRUE

SchemaOK(f, schema) == f.base.schema = schema

(* canonical_json_bytes raises ValueError for a non-finite number, which   *)
(* json.loads accepts and nobody turns into EnvelopeCorruptionError here.  *)
Canonicalizable(base) == base.source # NonFinite

DecodeResult(f, schema, t) ==
    CASE FrameLength(f) > ReaderLimit                       -> "corrupt"
      [] ~ (PrefixOK(f) /\ HeaderOK(f) /\ PayloadMatches(f)) -> "corrupt"
      [] ~ Canonicalizable(f.base)                           -> "raised"
      [] ~ VersionMatches(f)                                 -> "corrupt"
      [] ~ SchemaOK(f, schema)                               -> "schema"
      [] Expired(f, t)                                       -> "expired"
      [] ~ PayloadOK(f)                                      -> "corrupt"
      [] OTHER                                               -> "decoded"

Decode ==
    /\ frame # NoFrame /\ out = "none"
    /\ out' = DecodeResult(frame, expected, clock)
    /\ UNCHANGED <<clock, value, frame, damage, expected>>

Tick ==
    /\ clock < MaxTime /\ out = "none"
    /\ clock' = clock + 1
    /\ UNCHANGED <<value, frame, damage, expected, out>>

Finished == out # "none" /\ UNCHANGED vars

(* The reader expects the writer's Schema or, during a rollout, another. *)
Init ==
    /\ clock = 0 /\ value = NoValue /\ frame = NoFrame
    /\ damage = 0 /\ expected \in Schemas /\ out = "none"

Next == Encode \/ EncodeTooLarge \/ Damage \/ Tick \/ Decode \/ Finished

Spec == Init /\ [][Next]_vars

-----------------------------------------------------------------------------
Decided == frame # NoFrame /\ out # "none"
Accepted == Decided /\ out = "decoded"

Least(a, b) == IF a <= b THEN a ELSE b

(* Undamaged bytes are accepted by a reader of the same Schema and at      *)
(* least the writer's size limit for exactly as long as their TTL and the  *)
(* staleness bound last.                                                   *)
RoundTrip ==
    Decided /\ damage = 0 /\ expected = value.schema /\ WriterLimit <= ReaderLimit =>
        (Accepted <=> clock < frame.base.created + Least(WriterTtl, Staleness))

(* What decode accepts, after any few changes in storage, is what encode   *)
(* makes of some value of the reader's Schema: header, payload and both    *)
(* copies of the version agree, so equal versions (what compare-and-set    *)
(* compares) mean equal content.                                           *)
AcceptsOnlyEncodings ==
    Accepted =>
        LET b == frame.base
        IN  /\ frame = [Frame(BaseHeader(b.serializer, expected, b.source, b.created,
                                         b.expires, frame.payload), frame.payload)
                          EXCEPT !.sizeSpelling = frame.sizeSpelling]
            /\ PayloadOK(frame)

(* What the README says of stored entries: a corrupt one is treated as a   *)
(* miss, so decode ends in one of the errors lookup handles.               *)
CorruptIsMiss == Decided => out # "raised"
=============================================================================
