------------------------- MODULE EnvelopeCodecProofs -------------------------
(***************************************************************************)
(* Proofs about EnvelopeCodec, for any payloads, Schemas, TTLs and limits, *)
(* and for any number of changes in storage.                               *)
(***************************************************************************)
EXTENDS EnvelopeCodec, TLAPS

(* The parts a frame and a header have, whatever storage did to them. *)
WellShaped(f) ==
    /\ f = [magic |-> f.magic, prefix |-> f.prefix, size |-> f.size,
            sizeSpelling |-> f.sizeSpelling, fields |-> f.fields, spelling |-> f.spelling,
            base |-> f.base, version |-> f.version, payload |-> f.payload]
    /\ f.base = [format |-> f.base.format, serializer |-> f.base.serializer,
                 schema |-> f.base.schema, source |-> f.base.source,
                 created |-> f.base.created, expires |-> f.base.expires,
                 digest |-> f.base.digest, length |-> f.base.length]
    /\ f.size \in {"right", "wrong"} /\ f.fields \in {"all", "other"}

(* What decode decided is still what it would decide: nothing changes the  *)
(* bytes, the reader or its clock afterwards.                              *)
DecisionInv ==
    /\ frame # NoFrame => WellShaped(frame)
    /\ frame # NoFrame /\ out # "none" => out = DecodeResult(frame, expected, clock)

(* encode makes a frame with all its parts. *)
LEMMA FrameShape ==
    ASSUME NEW s, NEW c, NEW o, NEW a, NEW b, NEW p
    PROVE  WellShaped(Frame(BaseHeader(s, c, o, a, b, p), p))
BY DEF WellShaped, Frame, BaseHeader

(* A part that storage changes is still that part. *)
LEMMA DamagedShape ==
    ASSUME NEW f, WellShaped(f), NEW g \in Damaged(f)
    PROVE  WellShaped(g)
<1>1. CASE \E b \in DamagedBases(f) : g = [f EXCEPT !.base = b]
  <2>1. PICK b \in DamagedBases(f) : g = [f EXCEPT !.base = b]
    BY <1>1
  <2>2. b = [format |-> b.format, serializer |-> b.serializer, schema |-> b.schema,
             source |-> b.source, created |-> b.created, expires |-> b.expires,
             digest |-> b.digest, length |-> b.length]
    BY DEF DamagedBases, WellShaped
  <2> QED
    BY <2>1, <2>2 DEF WellShaped
<1>2. CASE ~ \E b \in DamagedBases(f) : g = [f EXCEPT !.base = b]
  BY <1>2 DEF Damaged, WellShaped
<1> QED
  BY <1>1, <1>2

(* No step changes what was decided. *)
LEMMA DecisionNext == DecisionInv /\ [Next]_vars => DecisionInv'
<1> SUFFICES ASSUME DecisionInv, [Next]_vars PROVE DecisionInv'
  OBVIOUS
<1>1. CASE Encode
  <2>1. out' = "none" /\ \E v \in Values : frame' = EncodedFrame(v, clock)
    BY <1>1 DEF Encode
  <2>2. WellShaped(frame')
    BY <2>1, FrameShape DEF EncodedFrame
  <2> QED
    BY <2>1, <2>2 DEF DecisionInv
<1>2. CASE EncodeTooLarge
  BY <1>2 DEF EncodeTooLarge, DecisionInv
<1>3. CASE Damage
  BY <1>3, DamagedShape DEF Damage, DecisionInv
<1>4. CASE Decode
  BY <1>4 DEF Decode, DecisionInv
<1>5. CASE Tick
  BY <1>5 DEF Tick, DecisionInv
<1>6. CASE UNCHANGED vars
  BY <1>6 DEF vars, DecisionInv
<1> QED
  BY <1>1, <1>2, <1>3, <1>4, <1>5, <1>6 DEF Next, Finished

(* Only a frame that passes every check is decoded. *)
LEMMA DecodedPasses ==
    ASSUME NEW f, NEW c, NEW t, DecodeResult(f, c, t) = "decoded"
    PROVE  /\ PrefixOK(f) /\ HeaderOK(f) /\ PayloadMatches(f)
           /\ VersionMatches(f) /\ SchemaOK(f, c) /\ PayloadOK(f)
           /\ ~ Expired(f, t)
BY DEF DecodeResult

(* AcceptsOnlyEncodings: however many parts of the stored bytes changed,   *)
(* what decode accepts is an encoding of its payload under its header.     *)
THEOREM AcceptsOnlyEncodingsHolds == Spec => []AcceptsOnlyEncodings
<1>1. Init => DecisionInv
  BY DEF Init, DecisionInv
<1>2. DecisionInv => AcceptsOnlyEncodings
  <2> SUFFICES ASSUME DecisionInv, Accepted PROVE AcceptsOnlyEncodings
    BY DEF AcceptsOnlyEncodings
  <2>1. WellShaped(frame) /\ DecodeResult(frame, expected, clock) = "decoded"
    BY DEF DecisionInv, Accepted, Decided
  <2>2. /\ PrefixOK(frame) /\ HeaderOK(frame) /\ PayloadMatches(frame)
        /\ VersionMatches(frame) /\ SchemaOK(frame, expected) /\ PayloadOK(frame)
    BY <2>1, DecodedPasses
  <2> DEFINE b == frame.base
             h == BaseHeader(b.serializer, expected, b.source, b.created, b.expires,
                             frame.payload)
  <2>3. b = h
    BY <2>1, <2>2 DEF WellShaped, BaseHeader, PayloadMatches, HeaderOK, SchemaOK
  <2>4. frame.prefix = VersionOf(b, frame.payload) /\ frame.version = frame.prefix
    BY <2>2 DEF VersionMatches, PayloadMatches
  <2>5. /\ frame.magic = "MRVK1" /\ frame.size = "right" /\ frame.fields = "all"
        /\ frame.spelling = "canonical"
    BY <2>2 DEF PrefixOK, HeaderOK, VersionMatches
  <2> DEFINE V == VersionOf(b, frame.payload)
  <2>6. frame = [magic |-> "MRVK1", prefix |-> V, size |-> "right",
                 sizeSpelling |-> frame.sizeSpelling, fields |-> "all",
                 spelling |-> "canonical", base |-> b, version |-> V,
                 payload |-> frame.payload]
    BY <2>1, <2>4, <2>5 DEF WellShaped
  <2>7. frame = [Frame(b, frame.payload) EXCEPT !.sizeSpelling = frame.sizeSpelling]
    <3> HIDE DEF V
    <3>1. Frame(b, frame.payload)
            = [magic |-> "MRVK1", prefix |-> V, size |-> "right",
               sizeSpelling |-> "canonical", fields |-> "all", spelling |-> "canonical",
               base |-> b, version |-> V, payload |-> frame.payload]
      BY DEF Frame, V
    <3> HIDE DEF b
    <3> QED
      BY <2>6, <3>1
  <2> QED
    BY <2>2, <2>3, <2>7 DEF AcceptsOnlyEncodings
<1> QED
  BY <1>1, <1>2, DecisionNext, PTL DEF Spec

-----------------------------------------------------------------------------
(* Undamaged frames. *)

(* Bytes no storage changed are those encode made of the value, at some    *)
(* earlier instant of the clock.                                           *)
Untouched ==
    /\ value \in Values /\ Fits(value)
    /\ frame.base.created \in Nat /\ frame.base.created <= clock
    /\ frame = EncodedFrame(value, frame.base.created)

UndamagedInv ==
    /\ clock \in Nat /\ damage \in Nat
    /\ frame # NoFrame /\ damage = 0 => Untouched

(* A SHA-256 is a well-formed fingerprint. *)
LEMMA DigestIsFingerprint ==
    ASSUME NEW b, NEW p
    PROVE  Sha256(b, p) # Malformed
<1>1. DOMAIN Sha256(b, p) = {"base", "payload"}
  BY DEF Sha256
<1>2. DOMAIN Malformed = {"base"}
  BY DEF Malformed
<1> QED
  BY <1>1, <1>2

(* No step separates an undamaged frame from its value. *)
LEMMA UndamagedNext == UndamagedInv /\ [Next]_vars => UndamagedInv'
<1> SUFFICES ASSUME UndamagedInv, [Next]_vars PROVE UndamagedInv'
  OBVIOUS
<1>1. CASE Encode
  <2>1. PICK v \in Values : Fits(v) /\ value' = v /\ frame' = EncodedFrame(v, clock)
    BY <1>1 DEF Encode
  <2>2. UNCHANGED <<clock, damage>>
    BY <1>1 DEF Encode
  <2>3. frame'.base.created = clock
    BY <2>1 DEF EncodedFrame, Frame, BaseHeader
  <2> QED
    BY <2>1, <2>2, <2>3 DEF UndamagedInv, Untouched
<1>2. CASE EncodeTooLarge
  BY <1>2 DEF EncodeTooLarge, UndamagedInv, Untouched
<1>3. CASE Damage
  BY <1>3 DEF Damage, UndamagedInv
<1>4. CASE Decode
  BY <1>4 DEF Decode, UndamagedInv, Untouched
<1>5. CASE Tick
  BY <1>5 DEF Tick, UndamagedInv, Untouched
<1>6. CASE UNCHANGED vars
  BY <1>6 DEF vars, UndamagedInv, Untouched
<1> QED
  BY <1>1, <1>2, <1>3, <1>4, <1>5, <1>6 DEF Next, Finished

(* A frame encode made passes every check but the Schema's and the clock's. *)
LEMMA EncodingPasses ==
    ASSUME NEW v \in Values, NEW c \in Nat, NEW f, f = EncodedFrame(v, c)
    PROVE  /\ PrefixOK(f) /\ HeaderOK(f) /\ PayloadMatches(f) /\ Canonicalizable(f.base)
           /\ VersionMatches(f) /\ PayloadOK(f)
           /\ f.base.schema = v.schema /\ f.payload = v.payload
           /\ f.base.created = c /\ f.base.expires = c + WriterTtl
<1> DEFINE b == BaseHeader(v.serializer, v.schema, v.source, c, c + WriterTtl, v.payload)
           p == v.payload
<1>1. /\ v.serializer \in Serializers /\ v.schema \in Schemas /\ v.source \in Sources
      /\ v.serializer = "canonical-json" => p.text = "canonical"
  BY DEF Values
<1>2. /\ b.format = "v1" /\ b.serializer = v.serializer /\ b.schema = v.schema
      /\ b.source = v.source /\ b.created = c /\ b.expires = c + WriterTtl
      /\ b.digest = Digest(p) /\ b.length = p.len
  BY DEF BaseHeader
<1>3. f = Frame(b, p)
  BY DEF EncodedFrame
<1> HIDE DEF b, p
<1>4. /\ f.magic = "MRVK1" /\ f.prefix = VersionOf(b, p) /\ f.size = "right"
      /\ f.fields = "all" /\ f.spelling = "canonical" /\ f.base = b
      /\ f.version = VersionOf(b, p) /\ f.payload = p
  BY <1>3 DEF Frame
<1>5. IsFingerprint(VersionOf(b, p)) /\ IsFingerprint(Digest(p)) /\ IsFingerprint(b.schema)
  BY <1>1, <1>2, DigestIsFingerprint, SchemaAssumption DEF IsFingerprint, VersionOf, Digest
<1>6. PrefixOK(f)
  BY <1>4, <1>5 DEF PrefixOK
<1>7. HeaderOK(f)
  BY <1>1, <1>2, <1>4, <1>5, CodecAssumption DEF HeaderOK
<1>8. PayloadMatches(f)
  BY <1>2, <1>4 DEF PayloadMatches
<1>9. Canonicalizable(f.base)
  BY <1>1, <1>2, <1>4, CodecAssumption DEF Canonicalizable, NonFinite
<1>10. VersionMatches(f)
  BY <1>1, <1>2, <1>4 DEF VersionMatches
<1>11. PayloadOK(f)
  BY <1>1, <1>2, <1>4 DEF PayloadOK
<1> QED
  BY <1>2, <1>4, <1>6, <1>7, <1>8, <1>9, <1>10, <1>11 DEF p

(* RoundTrip: undamaged bytes are accepted by a reader of the same Schema  *)
(* and no smaller limit, exactly until the earlier of TTL and staleness    *)
(* bound.                                                                  *)
THEOREM RoundTripHolds == Spec => []RoundTrip
<1>1. Init => UndamagedInv /\ DecisionInv
  BY DEF Init, UndamagedInv, DecisionInv
<1>2. UndamagedInv /\ DecisionInv => RoundTrip
  <2> SUFFICES ASSUME UndamagedInv, DecisionInv, Decided, damage = 0,
                      expected = value.schema, WriterLimit <= ReaderLimit
               PROVE  Accepted <=> clock < frame.base.created + Least(WriterTtl, Staleness)
    BY DEF RoundTrip
  <2> DEFINE c == frame.base.created
  <2>1. /\ Untouched /\ out = DecodeResult(frame, expected, clock) /\ clock \in Nat
    BY DEF UndamagedInv, DecisionInv, Decided
  <2>2. value \in Values /\ c \in Nat /\ frame = EncodedFrame(value, c)
    BY <2>1 DEF Untouched
  <2>3. /\ PrefixOK(frame) /\ HeaderOK(frame) /\ PayloadMatches(frame)
        /\ Canonicalizable(frame.base) /\ VersionMatches(frame) /\ PayloadOK(frame)
        /\ frame.base.schema = value.schema /\ frame.payload = value.payload
        /\ frame.base.expires = c + WriterTtl
    BY <2>2, EncodingPasses
  <2>4. FrameLength(frame) <= ReaderLimit /\ FrameLength(frame) \in Int
    <3>1. value.payload.len \in Nat
      BY <2>2 DEF Values, Payloads
    <3> QED
      BY <2>1, <2>3, <3>1, CodecAssumption DEF Untouched, Fits, FrameLength
  <2>5. ~ (FrameLength(frame) > ReaderLimit)
    BY <2>4, CodecAssumption
  <2>6. out = IF Expired(frame, clock) THEN "expired" ELSE "decoded"
    BY <2>1, <2>3, <2>5 DEF DecodeResult, SchemaOK
  <2>7. Expired(frame, clock) <=> ~ (clock < c + Least(WriterTtl, Staleness))
    BY <2>1, <2>2, <2>3, CodecAssumption DEF Expired, Least
  <2> QED
    BY <2>6, <2>7 DEF Accepted, Decided
<1> QED
  BY <1>1, <1>2, DecisionNext, UndamagedNext, PTL DEF Spec
=============================================================================
