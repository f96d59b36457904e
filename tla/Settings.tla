------------------------------ MODULE Settings ------------------------------
(***************************************************************************)
(* ValkeySettings: which Binding settings from_mapping accepts, and the    *)
(* TTL effective_ttl_ms gives an entry.                                    *)
(*                                                                         *)
(* Settings are a record of the parsed numbers, defaults filled in.        *)
(* malformed names the sections that are not objects, have unknown fields  *)
(* or hold a value of the wrong type; an integer of the wrong type is one  *)
(* out of range.  None stands for an optional number that is not given.    *)
(***************************************************************************)
EXTENDS Integers, FiniteSets, Sequences, FiniteSetsExt

None == 0
MaxInt == 2147483647
MaxKeyLimit == 4096
MaxValueLimit == 67108864
MaxBatchLimit == 10000

Sections == {"settings", "resources", "resource", "resource name", "seeds", "limits", "ttl",
             "singleFlight", "memory", "topology", "flags"}

(* A check's error, "none" if it passes, and the first error of a list. *)
Check(error, ok) == IF ok THEN "none" ELSE error

FirstError(errors) ==
    LET failing == {i \in DOMAIN errors : errors[i] # "none"}
    IN  IF failing = {} THEN "none" ELSE errors[Min(failing)]

Optional(n) == n = None \/ n \in 1 .. MaxInt

(* ResourceCachePolicy.from_mapping: a Resource's own TTL and staleness    *)
(* are not compared with the deployment's bounds.                          *)
PolicyOK(p) ==
    /\ ~ p.authoritative
    /\ p.serializer \in {"canonical-json", "raw-bytes"}
    /\ Optional(p.default) /\ Optional(p.staleness)

LimitsOK(l) ==
    /\ l.maxKeyBytes \in 96 .. MaxKeyLimit
    /\ l.maxValueBytes \in 1 .. MaxValueLimit
    /\ l.maxBatchSize \in 1 .. MaxBatchLimit

(* The deployment's defaults fall within the deployment's bounds. *)
TtlOKNegativeUnchecked(t) ==
    /\ \A n \in {t.default, t.minimum, t.maximum, t.negative} : n \in 1 .. MaxInt
    /\ t.default \in t.minimum .. t.maximum

TtlOK(t) ==
    /\ \A n \in {t.default, t.minimum, t.maximum, t.negative} : n \in 1 .. MaxInt
    /\ {t.default, t.negative} \subseteq t.minimum .. t.maximum

SingleFlightOK(f) ==
    /\ f.lease \in 10 .. 600000 /\ f.wait \in 0 .. 600000 /\ f.poll \in 1 .. 60000
    /\ f.wait <= f.lease

(* The allowed eviction policies are unique; the flags are just Booleans. *)
MemoryOK(m) ==
    LET policies == {m.policies[i] : i \in DOMAIN m.policies}
    IN  policies # {} /\ Cardinality(policies) = Len(m.policies)

TopologyOK(t) ==
    /\ t.replicas \in 0 .. 100
    /\ CASE t.mode = "standalone" -> ~ t.master /\ t.replicas = 0
         [] t.mode = "sentinel"   -> t.master /\ t.replicas >= 1
         [] OTHER                 -> FALSE

(* A section is an object of known fields and right types. *)
Well(s, section) == section \notin s.malformed

(* ValkeySettings.from_mapping, in its order.  A Resource name that is no  *)
(* safe token raises a plain ValueError, everything else a                 *)
(* ConfigurationError.                                                     *)
SettingsChecks(s) ==
    <<Check("config", Well(s, "settings") /\ Well(s, "resources")),
      Check("value", Well(s, "resource name")),
      Check("config", Well(s, "resource")),
      Check("config", \A r \in DOMAIN s.resources : PolicyOK(s.resources[r])),
      Check("config", DOMAIN s.resources # {}),
      Check("config", Well(s, "seeds")),
      Check("config", s.generation \in 1 .. MaxInt),
      Check("config", Well(s, "limits") /\ LimitsOK(s.limits)),
      Check("config", Well(s, "ttl") /\ TtlOK(s.ttl)),
      Check("config", Well(s, "singleFlight") /\ SingleFlightOK(s.singleFlight)),
      Check("config", Well(s, "memory") /\ MemoryOK(s.memory)),
      Check("config", Well(s, "topology") /\ TopologyOK(s.topology)),
      Check("config", s.database \in 0 .. 15),
      Check("config", Well(s, "flags"))>>

-----------------------------------------------------------------------------
Smaller(a, b) == IF a <= b THEN a ELSE b

(* requested: the caller's TTL or None; negative: a None is being cached   *)
(* for a Resource that allows it.                                          *)
SelectedTtl(s, p, requested, negative) ==
    IF negative THEN s.ttl.negative
    ELSE IF requested # None THEN requested
    ELSE IF p.default # None THEN p.default
    ELSE s.ttl.default

ClampedTtl(s, p, selected) ==
    Smaller(selected, IF p.staleness = None THEN s.ttl.maximum
                      ELSE Smaller(s.ttl.maximum, p.staleness))

(* effective_ttl_ms; None when it raises CONFIG_INVALID. *)
EffectiveTtlMsUnclamped(s, p, requested, negative) ==
    SelectedTtl(s, p, requested, negative)

EffectiveTtlMs(s, p, requested, negative) ==
    LET ttl == ClampedTtl(s, p, SelectedTtl(s, p, requested, negative))
    IN  IF ttl < s.ttl.minimum THEN None ELSE ttl
=============================================================================
