----------------------------- MODULE KeyEncoding -----------------------------
(***************************************************************************)
(* Physical keys: what KeyEncoder builds from a Binding's namespace, its   *)
(* generation and the material of one logical key.  SHA-256 is an          *)
(* injective constructor, and so are the 16 and 22 characters kept of a    *)
(* digest (96 and 132 bits); a hash slot is the string CRC16 is applied    *)
(* to, so equal strings have equal slots and nothing more is assumed.      *)
(***************************************************************************)
EXTENDS Integers, FiniteSets

Sha256(x) == <<"sha256", x>>

NoGroup == "no group"
NoTag == <<>>

(* The "mrvk:v1:<namespace>:g<generation>" that starts every key. *)
Prefix(enc) == [namespace |-> Sha256(enc.namespace), generation |-> enc.generation]

(* The digested body of a data key; the atomic group is no part of it. *)
Body(enc, m) ==
    [scope |-> m.scope, resource |-> m.resource, key |-> m.key, schema |-> m.schema,
     generation |-> enc.generation]

(* The hash tag of an atomic group: neither logical key nor Schema. *)
GroupTag(enc, m) ==
    IF m.group = NoGroup
    THEN NoTag
    ELSE <<Sha256([scope |-> m.scope, resource |-> m.resource, group |-> m.group,
                   generation |-> enc.generation])>>

Encode(enc, m) ==
    [prefix |-> Prefix(enc), tag |-> GroupTag(enc, m), kind |-> "d",
     digest |-> Sha256(Body(enc, m))]

(* lease_key digests the data key and keeps its hash tag. *)
LeaseKeyAsData(enc, key) ==
    [prefix |-> Prefix(enc), tag |-> key.tag, kind |-> "d", digest |-> key.digest]

LeaseKey(enc, key) ==
    [prefix |-> Prefix(enc), tag |-> key.tag, kind |-> "l", digest |-> Sha256(key)]

(* Decimal digits of a generation, at most ten. *)
Digits(n) == Cardinality({i \in 0 .. 9 : 10 ^ i <= n})

DigestCharsHex == 64

DigestChars == 43

(* "mrvk:v1:" 16 ":g" digits, then ":{" 22 "}" if tagged, then ":d:" or    *)
(* ":l:" and the unpadded base64url digest.                                *)
KeyBytes(key) ==
    8 + 16 + 2 + Digits(key.prefix.generation)
      + (IF key.tag = NoTag THEN 0 ELSE 25) + 3 + DigestChars

Fits(enc, key) == KeyBytes(key) <= enc.maximum

(* What CRC16 is applied to: the hash tag, or the whole key. *)
HashSlot(key) == IF key.tag = NoTag THEN <<key>> ELSE key.tag

(* require_shared_hash_slot accepts the keys. *)
SharedHashSlot(keys) == keys # {} /\ \A j, k \in keys : HashSlot(j) = HashSlot(k)
=============================================================================
