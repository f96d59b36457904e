-------------------------- MODULE DeploymentProofs --------------------------
(***************************************************************************)
(* What the start-up checks grant every Binding that starts, and what      *)
(* effective_ttl_ms and the key encoder make of it.                        *)
(***************************************************************************)
EXTENDS Deployment, KeyEncoding, WellFoundedInduction, FiniteSetTheorems, FunctionTheorems,
        TLAPS

(* Natural numbers have a least one. *)
LEMMA LeastNumber ==
    ASSUME NEW S \in SUBSET Nat, S # {}
    PROVE  \E m \in S : \A n \in S : m <= n
<1>1. PICK m \in S : \A n \in S : <<n, m>> \notin OpToRel(<, Nat)
  BY WFMin, NatLessThanWellFounded, Zenon
<1>2. \A n \in S : <<n, m>> \in Nat \X Nat /\ ~ (n < m)
  BY <1>1, Zenon DEF OpToRel
<1>3. m \in Nat /\ \A n \in S : n \in Nat /\ ~ (n < m)
  BY <1>2
<1>4. \A n \in S : m <= n
  BY <1>3
<1> QED
  BY <1>4

(* A list has no first error only if it has none at all. *)
LEMMA NoError ==
    ASSUME NEW errors, DOMAIN errors \subseteq Nat, FirstError(errors) = "none"
    PROVE  \A i \in DOMAIN errors : errors[i] = "none"
<1> DEFINE failing == {i \in DOMAIN errors : errors[i] # "none"}
<1> SUFFICES ASSUME failing # {} PROVE FALSE
  OBVIOUS
<1>1. \E m \in failing : \A n \in failing : m <= n
  BY LeastNumber
<1>2. Min(failing) \in failing
  <2> HIDE DEF failing
  <2> QED
    BY <1>1, Zenon DEF Min
<1>3. errors[Min(failing)] = "none"
  BY DEF FirstError
<1> QED
  BY <1>2, <1>3

(* The settings are checked in fourteen places. *)
LEMMA SettingsChecksCount ==
    ASSUME NEW s
    PROVE  DOMAIN SettingsChecks(s) = 1 .. 14
BY DEF SettingsChecks

(* What from_mapping grants the settings it accepts. *)
LEMMA SettingsGrant ==
    ASSUME NEW s, FirstError(SettingsChecks(s)) = "none"
    PROVE  /\ \A r \in DOMAIN s.resources : PolicyOK(s.resources[r])
           /\ s.generation \in 1 .. MaxInt
           /\ LimitsOK(s.limits)
           /\ TtlOK(s.ttl)
<1> DEFINE c == SettingsChecks(s)
<1>1. DOMAIN c = 1 .. 14
  BY SettingsChecksCount
<1>2. \A i \in 1 .. 14 : c[i] = "none"
  BY <1>1, NoError
<1>3. /\ c[4] = Check("config", \A r \in DOMAIN s.resources : PolicyOK(s.resources[r]))
      /\ c[7] = Check("config", s.generation \in 1 .. MaxInt)
      /\ c[8] = Check("config", Well(s, "limits") /\ LimitsOK(s.limits))
      /\ c[9] = Check("config", Well(s, "ttl") /\ TtlOK(s.ttl))
  BY DEF SettingsChecks
<1> HIDE DEF c
<1>4. c[4] = "none" /\ c[7] = "none" /\ c[8] = "none" /\ c[9] = "none"
  BY <1>2
<1> QED
  BY <1>3, <1>4 DEF Check

(* What the client grants its endpoints: one scheme, no address twice. *)
LEMMA EndpointsGrant ==
    ASSUME NEW b, FirstError(EndpointChecks(b)) = "none", FirstError(ClientChecks(b)) = "none"
    PROVE  /\ Unique(b)
           /\ \A i \in DOMAIN Endpoints(b) : Endpoints(b)[i].tls = TlsRequired(b)
<1> DEFINE c == EndpointChecks(b)
           d == ClientChecks(b)
<1>1. DOMAIN c = 1 .. 4 /\ DOMAIN d = 1 .. 6
  BY DEF EndpointChecks, ClientChecks
<1>2. c[4] = "none" /\ d[1] = "none"
  BY <1>1, NoError
<1>3. /\ c[4] = Check("config", Unique(b))
      /\ d[1] = Check("config", \A i \in DOMAIN Endpoints(b) : Endpoints(b)[i].tls = TlsRequired(b))
  BY DEF EndpointChecks, ClientChecks
<1> HIDE DEF c, d
<1> QED
  BY <1>2, <1>3 DEF Check

(* What a Binding that starts is granted. *)
LEMMA StartGrants ==
    ASSUME NEW b, NEW engine, StartError(b, engine) = "none"
    PROVE  /\ FirstError(SettingsChecks(b.settings)) = "none"
           /\ FirstError(EndpointChecks(b)) = "none"
           /\ FirstError(ClientChecks(b)) = "none"
           /\ VerifyError(b) = "none"
<1> DEFINE s == b.settings
           profile == IF s.topology.mode = "sentinel" THEN "valkey-sentinel"
                      ELSE "valkey-standalone"
           c == <<Check("config", b.adapter), FirstError(SettingsChecks(s)),
                  Check("config", b.profile = profile), FirstError(EndpointChecks(b)),
                  FirstError(ClientChecks(b)), NamespaceError(b),
                  Check("version", b.version = engine),
                  Check("fingerprint", b.pin = Fingerprint(engine, s)), VerifyError(b)>>
<1>1. FirstError(c) = "none"
  BY DEF StartError
<1>2. DOMAIN c = 1 .. 9
  OBVIOUS
<1>3. \A i \in 1 .. 9 : c[i] = "none"
  BY <1>1, <1>2, NoError
<1>4. c[2] = "none" /\ c[4] = "none" /\ c[5] = "none" /\ c[9] = "none"
  BY <1>3
<1> QED
  BY <1>4

-----------------------------------------------------------------------------

(* Effective TTLs. *)

(* The numbers of accepted settings are numbers. *)
LEMMA TtlNumbers ==
    ASSUME NEW s, NEW p, TtlOK(s.ttl), PolicyOK(p)
    PROVE  /\ s.ttl.minimum \in Nat /\ s.ttl.maximum \in Nat /\ s.ttl.minimum >= 1
           /\ s.ttl.default \in s.ttl.minimum .. s.ttl.maximum
           /\ s.ttl.negative \in s.ttl.minimum .. s.ttl.maximum
           /\ p.default \in Nat /\ p.staleness \in Nat
<1>1. \A n \in 1 .. MaxInt : n \in Nat /\ n >= 1
  OBVIOUS
<1>2. \A n : Optional(n) => n \in Nat
  BY <1>1 DEF Optional, None
<1> QED
  BY <1>1, <1>2 DEF TtlOK, PolicyOK

(* A TTL that is not refused lies within the deployment's bounds and the   *)
(* Resource's staleness bound, whatever was requested.                     *)
LEMMA EffectiveTtlBounded ==
    ASSUME NEW s, NEW p, NEW requested \in Int, NEW negative, TtlOK(s.ttl), PolicyOK(p),
           EffectiveTtlMs(s, p, requested, negative) # None
    PROVE  LET ttl == EffectiveTtlMs(s, p, requested, negative)
           IN  /\ ttl \in s.ttl.minimum .. s.ttl.maximum /\ ttl >= 1
               /\ p.staleness # None => ttl <= p.staleness
<1> DEFINE selected == SelectedTtl(s, p, requested, negative)
           ttl == ClampedTtl(s, p, selected)
<1>1. /\ s.ttl.minimum \in Nat /\ s.ttl.maximum \in Nat /\ s.ttl.minimum >= 1
      /\ s.ttl.default \in Nat /\ s.ttl.negative \in Nat
      /\ p.default \in Nat /\ p.staleness \in Nat
  BY TtlNumbers
<1>2. selected \in Int
  BY <1>1 DEF SelectedTtl
<1> HIDE DEF selected
<1>3. /\ ttl \in Int /\ ttl <= s.ttl.maximum
      /\ p.staleness # None => ttl <= p.staleness
  BY <1>1, <1>2 DEF ClampedTtl, Smaller
<1> HIDE DEF ttl
<1>4. EffectiveTtlMs(s, p, requested, negative) = IF ttl < s.ttl.minimum THEN None ELSE ttl
  BY DEF EffectiveTtlMs, ttl, selected
<1> QED
  BY <1>1, <1>3, <1>4

(* With no TTL requested, only a Resource's own number below the minimum   *)
(* has its entries refused.                                                *)
LEMMA DefaultWritable ==
    ASSUME NEW s, NEW p, NEW negative, TtlOK(s.ttl), PolicyOK(p),
           \A n \in {p.default, p.staleness} \ {None} : n >= s.ttl.minimum
    PROVE  EffectiveTtlMs(s, p, None, negative) # None
<1> DEFINE selected == SelectedTtl(s, p, None, negative)
           ttl == ClampedTtl(s, p, selected)
<1>1. /\ s.ttl.minimum \in Nat /\ s.ttl.maximum \in Nat /\ s.ttl.minimum >= 1
      /\ s.ttl.default \in s.ttl.minimum .. s.ttl.maximum
      /\ s.ttl.negative \in s.ttl.minimum .. s.ttl.maximum
      /\ p.default \in Nat /\ p.staleness \in Nat
  BY TtlNumbers
<1>2. /\ p.default # None => p.default >= s.ttl.minimum
      /\ p.staleness # None => p.staleness >= s.ttl.minimum
  OBVIOUS
<1>3. selected \in Nat /\ selected >= s.ttl.minimum
  BY <1>1, <1>2 DEF SelectedTtl, None
<1> HIDE DEF selected
<1>4. ttl \in Nat /\ ttl >= s.ttl.minimum
  BY <1>1, <1>2, <1>3 DEF ClampedTtl, Smaller
<1> HIDE DEF ttl
<1>5. EffectiveTtlMs(s, p, None, negative) = IF ttl < s.ttl.minimum THEN None ELSE ttl
  BY DEF EffectiveTtlMs, ttl, selected
<1> QED
  BY <1>1, <1>4, <1>5 DEF None

-----------------------------------------------------------------------------
(* Keys. *)

(* The limits the proofs use. *)
LEMMA LimitNumbers ==
    ASSUME NEW l, LimitsOK(l)
    PROVE  l.maxKeyBytes \in Nat /\ l.maxKeyBytes >= 96 /\ l.maxBatchSize \in Nat
BY DEF LimitsOK

(* A generation has at most ten digits. *)
LEMMA DigitsBounded ==
    ASSUME NEW n
    PROVE  Digits(n) \in 0 .. 10
<1> DEFINE D == {i \in 0 .. 9 : 10 ^ i <= n}
<1>1. IsFiniteSet(0 .. 9) /\ Cardinality(0 .. 9) = 10
  <2>1. \A a, c \in Int : IsFiniteSet(a .. c)
                             /\ Cardinality(a .. c) = IF a > c THEN 0 ELSE c - a + 1
    BY FS_Interval
  <2>2. 0 \in Int /\ 9 \in Int /\ ~ (0 > 9) /\ 9 - 0 + 1 = 10
    OBVIOUS
  <2>3. IsFiniteSet(0 .. 9) /\ Cardinality(0 .. 9) = IF 0 > 9 THEN 0 ELSE 9 - 0 + 1
    BY <2>1, <2>2, Zenon
  <2> QED
    BY <2>2, <2>3
<1>2. D \subseteq 0 .. 9
  OBVIOUS
<1> HIDE DEF D
<1>3. Cardinality(D) \in Nat /\ Cardinality(D) <= 10
  BY <1>1, <1>2, FS_Subset, FS_CardinalityType
<1> QED
  BY <1>3 DEF D, Digits

(* An untagged key of any namespace, generation and material fits every    *)
(* maxKeyBytes that is accepted.                                           *)
LEMMA UntaggedFits ==
    ASSUME NEW enc, enc.maximum \in Nat, enc.maximum >= 96, NEW key, key.tag = NoTag
    PROVE  Fits(enc, key)
<1>1. KeyBytes(key) = 72 + Digits(key.prefix.generation)
  <2>1. Digits(key.prefix.generation) \in Int
    BY DigitsBounded
  <2> QED
    BY <2>1 DEF KeyBytes, DigestChars
<1>2. Digits(key.prefix.generation) \in 0 .. 10
  BY DigitsBounded
<1> QED
  BY <1>1, <1>2 DEF Fits

-----------------------------------------------------------------------------
(* Endpoints. *)

(* Endpoints of one scheme that are not equal differ in host or port, so   *)
(* there are as many addresses as endpoints.                               *)
LEMMA AddressesDistinct ==
    ASSUME NEW b, NEW S, RawEndpoints(b) \in Seq(S), Unique(b),
           \A i \in DOMAIN Endpoints(b) : Endpoints(b)[i].tls = TlsRequired(b)
    PROVE  LET a == SentinelAddresses(b)
           IN  Cardinality({a[i] : i \in DOMAIN a}) = Len(a)
<1> DEFINE n == Len(RawEndpoints(b))
           e == Endpoints(b)
           a == SentinelAddresses(b)
           T == {a[i] : i \in 1 .. n}
<1>1. n \in Nat /\ DOMAIN RawEndpoints(b) = 1 .. n
  OBVIOUS
<1>2. DOMAIN e = 1 .. n /\ \A i \in 1 .. n : e[i] = ParseEndpoint(RawEndpoints(b)[i])
  BY <1>1 DEF Endpoints
<1>3. DOMAIN a = 1 .. n /\ \A i \in 1 .. n : a[i] = <<e[i].host, e[i].port>>
  BY <1>2 DEF SentinelAddresses
<1>4. a = [i \in 1 .. n |-> a[i]]
  BY <1>2 DEF SentinelAddresses
<1>5. \A i, j \in 1 .. n : a[i] = a[j] => i = j
  <2> SUFFICES ASSUME NEW i \in 1 .. n, NEW j \in 1 .. n, a[i] = a[j] PROVE i = j
    OBVIOUS
  <2>1. e[i].host = e[j].host /\ e[i].port = e[j].port
    BY <1>3
  <2>2. e[i].tls = e[j].tls
    BY <1>2
  <2>3. \A k \in 1 .. n : e[k] = [host |-> e[k].host, port |-> e[k].port, tls |-> e[k].tls]
    BY <1>2 DEF ParseEndpoint
  <2>4. e[i] = e[j]
    BY <2>1, <2>2, <2>3
  <2> QED
    BY <1>2, <2>4 DEF Unique
<1> HIDE DEF a, e, n
<1>6. a \in [1 .. n -> T]
  BY <1>4
<1>7. a \in Bijection(1 .. n, T)
  BY <1>5, <1>6 DEF Bijection, Injection, IsInjective, Surjection
<1>8. Cardinality(T) = n
  <2>1. IsFiniteSet(1 .. n) /\ Cardinality(1 .. n) = n
    BY <1>1, FS_Interval
  <2>2. ExistsBijection(1 .. n, T)
    BY <1>7 DEF ExistsBijection
  <2> HIDE DEF T
  <2> QED
    BY <2>1, <2>2, FS_Bijection
<1>9. Len(a) = n
  BY <1>1, <1>6
<1> QED
  BY <1>3, <1>8, <1>9 DEF a
=============================================================================
