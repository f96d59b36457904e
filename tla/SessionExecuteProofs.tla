------------------------ MODULE SessionExecuteProofs ------------------------
(***************************************************************************)
(* Proofs about SessionExecute, for any threads, keys, key lists, batch    *)
(* bound, defects and engine errors: types and the batch bound, that what  *)
(* was invalidated stays gone, that removals are counted once, that the    *)
(* retry hint is right, and that a refused request changed nothing.        *)
(***************************************************************************)
EXTENDS SessionExecute, FiniteSetTheorems, FunctionTheorems, TLAPS

Requests == [contract : Contracts \cup {"none"}, keys : Seq(Keys \cup {BadKey}),
             expect : Nat, defects : SUBSET AllDefects]

Locals == [req : Requests, i : Nat, count : Nat, took : SUBSET Nat, doomed : SUBSET Nat]

Places == {"idle", "validate", "call", "finish"}

Removes(v) == v.req.contract \in {"delete", "invalidate"}

(* A thread is at l with locals v, w entries written so far. *)
RequestAt(l, v) ==
    /\ l = "idle" => v = NoLocals
    /\ l # "idle" => v.req.contract \in Contracts
    /\ l # "idle" /\ v.req.contract # "invalidate" => Len(v.req.keys) = 1
    /\ l = "call" /\ v.req.contract # "invalidate" => v.req.keys[1] \in Keys
    /\ l = "call" /\ v.req.contract = "invalidate" => Len(v.req.keys) \in 1 .. MaxBatch

ProgressAt(l, v) ==
    /\ l = "validate" => v.i = 1 /\ v.took = {}
    /\ l = "call" /\ v.req.contract # "invalidate" => v.i = 1 /\ v.took = {}
    /\ l = "call" /\ v.req.contract = "invalidate" =>
          /\ v.i \in 1 .. Len(v.req.keys) + 1 /\ v.count < v.i
          /\ "resource" \in v.req.defects => v.i = 1
    /\ l = "finish" => v.i \in 1 .. MaxBatch + 1 /\ v.count \in 0 .. MaxBatch

At(l, v) ==
    /\ v \in Locals /\ l \in Places
    /\ IsFiniteSet(v.took) /\ v.count = Cardinality(v.took)
    /\ RequestAt(l, v) /\ ProgressAt(l, v)

(* The doomed entries that the store still holds are those of keys whose   *)
(* turn is yet to come; none is left when the request has made its calls.  *)
DoomedAt(l, v, s) ==
    /\ l \in {"validate", "call"} =>
          \A k \in Keys : s[k] \in v.doomed =>
             \E j \in v.i .. Len(v.req.keys) : v.req.keys[j] = k
    /\ l = "finish" /\ Removes(v) => \A k \in Keys : s[k] \notin v.doomed

(* An entry is of one key, and no key holds an entry yet to be written. *)
StoreInv ==
    /\ written \in Nat
    /\ store \in [Keys -> 0 .. written]
    /\ \A j, k \in Keys : store[j] = store[k] /\ store[j] # 0 => j = k

ControlInv ==
    /\ pc \in [Threads -> Places] /\ loc \in [Threads -> Locals]
    /\ \A t \in Threads : /\ At(pc[t], loc[t]) /\ DoomedAt(pc[t], loc[t], store)
                          /\ loc[t].doomed \cup loc[t].took \subseteq 1 .. written

(* What was removed is not in the store, and was removed once. *)
ClaimInv ==
    /\ claimed \cup gone \subseteq 1 .. written
    /\ \A k \in Keys : store[k] \notin claimed \cup gone
    /\ \A t \in Threads :
          /\ loc[t].took \cap claimed = {}
          /\ \A k \in Keys : store[k] \notin loc[t].took
          /\ \A u \in Threads \ {t} : loc[t].took \cap loc[u].took = {}

Results == [out : Codes, retry : BOOLEAN, fault : DOMAIN Bases \cup {"none"}]

OutcomeInv ==
    /\ sclosed \in BOOLEAN
    /\ ops \in [Threads -> 0 .. MaxOps]
    /\ \A x \in late : x.contract \in Contracts /\ x.key \in Keys
    /\ res \in [Threads -> Results]
    /\ RetryHintSound

Inv == StoreInv /\ ControlInv /\ ClaimInv /\ OutcomeInv

-----------------------------------------------------------------------------
(* Error translation. *)

(* A least number of a set is its minimum. *)
LEMMA MinIs ==
    ASSUME NEW S \in SUBSET Nat, NEW m \in S, \A n \in S : m <= n
    PROVE  Min(S) = m
<1>1. \E x \in S : \A y \in S : x <= y
  OBVIOUS
<1>2. Min(S) \in S /\ \A y \in S : Min(S) <= y
  BY <1>1, Zenon DEF Min
<1>3. Min(S) \in Nat /\ Min(S) <= m /\ m <= Min(S)
  BY <1>2
<1> QED
  BY <1>3

(* The rules, by number. *)
LEMMA Rules ==
    /\ DOMAIN Translation = 1 .. 8
    /\ Translation[1] = AuthenticationRule /\ Translation[2] = AuthorizationRule
    /\ Translation[3] = TimeoutRule /\ Translation[4] = CrossSlotRule
    /\ Translation[5] = ConflictRule /\ Translation[6] = CapacityRule
    /\ Translation[7] = UnavailableRule /\ Translation[8] = RejectedRule
BY DEF Translation

(* What each rule says. *)
LEMMA RuleParts ==
    /\ AuthenticationRule.classes = {"AuthenticationError"}
    /\ AuthenticationRule.code = "authentication" /\ AuthenticationRule.retry = FALSE
    /\ AuthorizationRule.classes = {"AuthorizationError", "NoPermissionError"}
    /\ AuthorizationRule.code = "authorization" /\ AuthorizationRule.retry = FALSE
    /\ TimeoutRule.classes = {"TimeoutError"}
    /\ TimeoutRule.code = "timeout" /\ TimeoutRule.retry = TRUE
    /\ CrossSlotRule.classes = {"ClusterCrossSlotError"}
    /\ CrossSlotRule.code = "cross slot" /\ CrossSlotRule.retry = FALSE
    /\ ConflictRule.classes = {"WatchError"}
    /\ ConflictRule.code = "conflict" /\ ConflictRule.retry = TRUE
    /\ CapacityRule.classes = {"MaxConnectionsError", "OutOfMemoryError"}
    /\ CapacityRule.code = "capacity" /\ CapacityRule.retry = TRUE
    /\ UnavailableRule.classes = {"BusyLoadingError", "ClusterDownError", "ConnectionError",
                                        "MasterDownError", "ReadOnlyError", "TryAgainError"}
    /\ UnavailableRule.code = "unavailable" /\ UnavailableRule.retry = TRUE
    /\ RejectedRule.classes = {"DataError", "ResponseError"}
    /\ RejectedRule.code = "rejected" /\ RejectedRule.retry = FALSE
    /\ Rule({}, "internal", FALSE).code = "internal"
    /\ Rule({}, "internal", FALSE).retry = FALSE
<1>1. /\ AuthenticationRule.classes = {"AuthenticationError"}
      /\ AuthenticationRule.code = "authentication" /\ AuthenticationRule.retry = FALSE
  BY DEF AuthenticationRule, Rule
<1>2. /\ AuthorizationRule.classes = {"AuthorizationError", "NoPermissionError"}
      /\ AuthorizationRule.code = "authorization" /\ AuthorizationRule.retry = FALSE
  BY DEF AuthorizationRule, Rule
<1>3. /\ TimeoutRule.classes = {"TimeoutError"}
      /\ TimeoutRule.code = "timeout" /\ TimeoutRule.retry = TRUE
  BY DEF TimeoutRule, Rule
<1>4. /\ CrossSlotRule.classes = {"ClusterCrossSlotError"}
      /\ CrossSlotRule.code = "cross slot" /\ CrossSlotRule.retry = FALSE
  BY DEF CrossSlotRule, Rule
<1>5. /\ ConflictRule.classes = {"WatchError"}
      /\ ConflictRule.code = "conflict" /\ ConflictRule.retry = TRUE
  BY DEF ConflictRule, Rule
<1>6. /\ CapacityRule.classes = {"MaxConnectionsError", "OutOfMemoryError"}
      /\ CapacityRule.code = "capacity" /\ CapacityRule.retry = TRUE
  BY DEF CapacityRule, Rule
<1>7. /\ UnavailableRule.classes = {"BusyLoadingError", "ClusterDownError", "ConnectionError",
                                  "MasterDownError", "ReadOnlyError", "TryAgainError"}
      /\ UnavailableRule.code = "unavailable" /\ UnavailableRule.retry = TRUE
  BY DEF UnavailableRule, Rule
<1>8. /\ RejectedRule.classes = {"DataError", "ResponseError"}
      /\ RejectedRule.code = "rejected" /\ RejectedRule.retry = FALSE
  BY DEF RejectedRule, Rule
<1>9. Rule({}, "internal", FALSE).code = "internal" /\ Rule({}, "internal", FALSE).retry = FALSE
  BY DEF Rule
<1> QED
  BY <1>1, <1>2, <1>3, <1>4, <1>5, <1>6, <1>7, <1>8, <1>9

(* The first rule that names the class or one of its bases decides. *)
LEMMA FirstRule ==
    ASSUME NEW c, NEW i \in 1 .. 8, IsInstance(c, Translation[i].classes),
           \A j \in 1 .. (i - 1) : ~ IsInstance(c, Translation[j].classes)
    PROVE  Translate(c) = Translation[i]
<1> DEFINE M == {j \in DOMAIN Translation : IsInstance(c, Translation[j].classes)}
<1>1. M \in SUBSET Nat /\ i \in M /\ \A j \in M : i <= j
  BY Rules
<1>2. Min(M) = i
  BY <1>1, MinIs
<1>3. M # {}
  BY <1>1
<1> QED
  BY <1>2, <1>3 DEF Translate

(* The client library's classes and their bases. *)
LEMMA Classes ==
    /\ DOMAIN Bases = {"AuthenticationError", "AuthorizationError", "BusyLoadingError",
                       "MaxConnectionsError", "ConnectionError", "TimeoutError",
                       "WatchError", "DataError", "NoPermissionError",
                       "OutOfMemoryError", "ReadOnlyError", "TryAgainError",
                       "ClusterCrossSlotError", "ClusterDownError", "MasterDownError",
                       "ResponseError", "OtherError"}
    /\ Bases["AuthenticationError"] = {"ConnectionError"}
    /\ Bases["AuthorizationError"] = {"ConnectionError"}
    /\ Bases["BusyLoadingError"] = {"ConnectionError"}
    /\ Bases["MaxConnectionsError"] = {"ConnectionError"}
    /\ Bases["ConnectionError"] = {}
    /\ Bases["TimeoutError"] = {}
    /\ Bases["WatchError"] = {}
    /\ Bases["DataError"] = {}
    /\ Bases["NoPermissionError"] = {"ResponseError"}
    /\ Bases["OutOfMemoryError"] = {"ResponseError"}
    /\ Bases["ReadOnlyError"] = {"ResponseError"}
    /\ Bases["TryAgainError"] = {"ResponseError"}
    /\ Bases["ClusterCrossSlotError"] = {"ResponseError"}
    /\ Bases["ClusterDownError"] = {"ResponseError"}
    /\ Bases["MasterDownError"] = {"ClusterDownError", "ResponseError"}
    /\ Bases["ResponseError"] = {}
    /\ Bases["OtherError"] = {}
BY DEF Bases

(* Subclasses come before their bases: every class meets the rule meant    *)
(* for it.                                                                 *)
LEMMA ClassRules ==
    /\ Translate("AuthenticationError") = AuthenticationRule
    /\ Translate("AuthorizationError") = AuthorizationRule
    /\ Translate("BusyLoadingError") = UnavailableRule
    /\ Translate("MaxConnectionsError") = CapacityRule
    /\ Translate("ConnectionError") = UnavailableRule
    /\ Translate("TimeoutError") = TimeoutRule
    /\ Translate("WatchError") = ConflictRule
    /\ Translate("DataError") = RejectedRule
    /\ Translate("NoPermissionError") = AuthorizationRule
    /\ Translate("OutOfMemoryError") = CapacityRule
    /\ Translate("ReadOnlyError") = UnavailableRule
    /\ Translate("TryAgainError") = UnavailableRule
    /\ Translate("ClusterCrossSlotError") = CrossSlotRule
    /\ Translate("ClusterDownError") = UnavailableRule
    /\ Translate("MasterDownError") = UnavailableRule
    /\ Translate("ResponseError") = RejectedRule
    /\ Translate("OtherError") = Rule({}, "internal", FALSE)
<1> DEFINE R(i) == Translation[i].classes
<1>1. /\ R(1) = {"AuthenticationError"}
      /\ R(2) = {"AuthorizationError", "NoPermissionError"}
      /\ R(3) = {"TimeoutError"}
      /\ R(4) = {"ClusterCrossSlotError"}
      /\ R(5) = {"WatchError"}
      /\ R(6) = {"MaxConnectionsError", "OutOfMemoryError"}
      /\ R(7) = {"BusyLoadingError", "ClusterDownError", "ConnectionError",
                 "MasterDownError", "ReadOnlyError", "TryAgainError"}
      /\ R(8) = {"DataError", "ResponseError"}
  <2>1. /\ R(1) = AuthenticationRule.classes /\ R(2) = AuthorizationRule.classes
        /\ R(3) = TimeoutRule.classes /\ R(4) = CrossSlotRule.classes
        /\ R(5) = ConflictRule.classes /\ R(6) = CapacityRule.classes
        /\ R(7) = UnavailableRule.classes /\ R(8) = RejectedRule.classes
    BY Rules
  <2> QED
    BY <2>1, RuleParts
<1> HIDE DEF R
<1>2. Translate("AuthenticationError") = AuthenticationRule
  <2> DEFINE N == {"AuthenticationError"} \cup Bases["AuthenticationError"]
  <2>1. N \cap R(1) # {}
    BY <1>1, Classes
  <2>2. Translate("AuthenticationError") = Translation[1]
    BY <2>1, FirstRule DEF IsInstance, R
  <2> QED
    BY <2>2, Rules
<1>3. Translate("AuthorizationError") = AuthorizationRule
  <2> DEFINE N == {"AuthorizationError"} \cup Bases["AuthorizationError"]
  <2>1. N \cap R(2) # {} /\ \A j \in 1 .. 1 : N \cap R(j) = {}
    BY <1>1, Classes
  <2>2. Translate("AuthorizationError") = Translation[2]
    BY <2>1, FirstRule DEF IsInstance, R
  <2> QED
    BY <2>2, Rules
<1>4. Translate("BusyLoadingError") = UnavailableRule
  <2> DEFINE N == {"BusyLoadingError"} \cup Bases["BusyLoadingError"]
  <2>1. N \cap R(7) # {} /\ \A j \in 1 .. 6 : N \cap R(j) = {}
    BY <1>1, Classes
  <2>2. Translate("BusyLoadingError") = Translation[7]
    BY <2>1, FirstRule DEF IsInstance, R
  <2> QED
    BY <2>2, Rules
<1>5. Translate("MaxConnectionsError") = CapacityRule
  <2> DEFINE N == {"MaxConnectionsError"} \cup Bases["MaxConnectionsError"]
  <2>1. N \cap R(6) # {} /\ \A j \in 1 .. 5 : N \cap R(j) = {}
    BY <1>1, Classes
  <2>2. Translate("MaxConnectionsError") = Translation[6]
    BY <2>1, FirstRule DEF IsInstance, R
  <2> QED
    BY <2>2, Rules
<1>6. Translate("ConnectionError") = UnavailableRule
  <2> DEFINE N == {"ConnectionError"} \cup Bases["ConnectionError"]
  <2>1. N \cap R(7) # {} /\ \A j \in 1 .. 6 : N \cap R(j) = {}
    BY <1>1, Classes
  <2>2. Translate("ConnectionError") = Translation[7]
    BY <2>1, FirstRule DEF IsInstance, R
  <2> QED
    BY <2>2, Rules
<1>7. Translate("TimeoutError") = TimeoutRule
  <2> DEFINE N == {"TimeoutError"} \cup Bases["TimeoutError"]
  <2>1. N \cap R(3) # {} /\ \A j \in 1 .. 2 : N \cap R(j) = {}
    BY <1>1, Classes
  <2>2. Translate("TimeoutError") = Translation[3]
    BY <2>1, FirstRule DEF IsInstance, R
  <2> QED
    BY <2>2, Rules
<1>8. Translate("WatchError") = ConflictRule
  <2> DEFINE N == {"WatchError"} \cup Bases["WatchError"]
  <2>1. N \cap R(5) # {} /\ \A j \in 1 .. 4 : N \cap R(j) = {}
    BY <1>1, Classes
  <2>2. Translate("WatchError") = Translation[5]
    BY <2>1, FirstRule DEF IsInstance, R
  <2> QED
    BY <2>2, Rules
<1>9. Translate("DataError") = RejectedRule
  <2> DEFINE N == {"DataError"} \cup Bases["DataError"]
  <2>1. N \cap R(8) # {} /\ \A j \in 1 .. 7 : N \cap R(j) = {}
    BY <1>1, Classes
  <2>2. Translate("DataError") = Translation[8]
    BY <2>1, FirstRule DEF IsInstance, R
  <2> QED
    BY <2>2, Rules
<1>10. Translate("NoPermissionError") = AuthorizationRule
  <2> DEFINE N == {"NoPermissionError"} \cup Bases["NoPermissionError"]
  <2>1. N \cap R(2) # {} /\ \A j \in 1 .. 1 : N \cap R(j) = {}
    BY <1>1, Classes
  <2>2. Translate("NoPermissionError") = Translation[2]
    BY <2>1, FirstRule DEF IsInstance, R
  <2> QED
    BY <2>2, Rules
<1>11. Translate("OutOfMemoryError") = CapacityRule
  <2> DEFINE N == {"OutOfMemoryError"} \cup Bases["OutOfMemoryError"]
  <2>1. N \cap R(6) # {} /\ \A j \in 1 .. 5 : N \cap R(j) = {}
    BY <1>1, Classes
  <2>2. Translate("OutOfMemoryError") = Translation[6]
    BY <2>1, FirstRule DEF IsInstance, R
  <2> QED
    BY <2>2, Rules
<1>12. Translate("ReadOnlyError") = UnavailableRule
  <2> DEFINE N == {"ReadOnlyError"} \cup Bases["ReadOnlyError"]
  <2>1. N \cap R(7) # {} /\ \A j \in 1 .. 6 : N \cap R(j) = {}
    BY <1>1, Classes
  <2>2. Translate("ReadOnlyError") = Translation[7]
    BY <2>1, FirstRule DEF IsInstance, R
  <2> QED
    BY <2>2, Rules
<1>13. Translate("TryAgainError") = UnavailableRule
  <2> DEFINE N == {"TryAgainError"} \cup Bases["TryAgainError"]
  <2>1. N \cap R(7) # {} /\ \A j \in 1 .. 6 : N \cap R(j) = {}
    BY <1>1, Classes
  <2>2. Translate("TryAgainError") = Translation[7]
    BY <2>1, FirstRule DEF IsInstance, R
  <2> QED
    BY <2>2, Rules
<1>14. Translate("ClusterCrossSlotError") = CrossSlotRule
  <2> DEFINE N == {"ClusterCrossSlotError"} \cup Bases["ClusterCrossSlotError"]
  <2>1. N \cap R(4) # {} /\ \A j \in 1 .. 3 : N \cap R(j) = {}
    BY <1>1, Classes
  <2>2. Translate("ClusterCrossSlotError") = Translation[4]
    BY <2>1, FirstRule DEF IsInstance, R
  <2> QED
    BY <2>2, Rules
<1>15. Translate("ClusterDownError") = UnavailableRule
  <2> DEFINE N == {"ClusterDownError"} \cup Bases["ClusterDownError"]
  <2>1. N \cap R(7) # {} /\ \A j \in 1 .. 6 : N \cap R(j) = {}
    BY <1>1, Classes
  <2>2. Translate("ClusterDownError") = Translation[7]
    BY <2>1, FirstRule DEF IsInstance, R
  <2> QED
    BY <2>2, Rules
<1>16. Translate("MasterDownError") = UnavailableRule
  <2> DEFINE N == {"MasterDownError"} \cup Bases["MasterDownError"]
  <2>1. N \cap R(7) # {} /\ \A j \in 1 .. 6 : N \cap R(j) = {}
    BY <1>1, Classes
  <2>2. Translate("MasterDownError") = Translation[7]
    BY <2>1, FirstRule DEF IsInstance, R
  <2> QED
    BY <2>2, Rules
<1>17. Translate("ResponseError") = RejectedRule
  <2> DEFINE N == {"ResponseError"} \cup Bases["ResponseError"]
  <2>1. N \cap R(8) # {} /\ \A j \in 1 .. 7 : N \cap R(j) = {}
    BY <1>1, Classes
  <2>2. Translate("ResponseError") = Translation[8]
    BY <2>1, FirstRule DEF IsInstance, R
  <2> QED
    BY <2>2, Rules
<1>18. Translate("OtherError") = Rule({}, "internal", FALSE)
  <2>1. \A j \in 1 .. 8 : ({"OtherError"} \cup Bases["OtherError"]) \cap R(j) = {}
    BY <1>1, Classes
  <2>2. {j \in DOMAIN Translation : IsInstance("OtherError", Translation[j].classes)} = {}
    BY <2>1, Rules DEF IsInstance, R
  <2> QED
    BY <2>2 DEF Translate
<1> QED
  BY <1>2, <1>3, <1>4, <1>5, <1>6, <1>7, <1>8, <1>9, <1>10, <1>11, <1>12, <1>13, <1>14, <1>15, <1>16, <1>17, <1>18

(* What a request refused for what it asks is told. *)
Refusals == {"closed", "scope", "unsupported", "placement", "config", "key"}

(* An error is retryable when it is transient, and its code is none of     *)
(* those for requests that are wrong themselves.                           *)
LEMMA Hints ==
    ASSUME NEW c \in DOMAIN Bases
    PROVE  /\ c \in Transient => Translate(c).retry = TRUE
           /\ c \notin Transient => Translate(c).retry = FALSE
           /\ Translate(c).code \in Codes \ Refusals
<1>2. \A i \in 1 .. 8 : Translation[i].code \in Codes
  BY Rules DEF Codes
<1>3. "internal" \in Codes \ Refusals
  BY DEF Codes, Refusals
<1> DEFINE Good(r) == r.code \in Codes \ Refusals
<1>5. /\ AuthenticationRule.code \notin Refusals /\ AuthorizationRule.code \notin Refusals
      /\ CrossSlotRule.code \notin Refusals /\ RejectedRule.code \notin Refusals
      /\ TimeoutRule.code \notin Refusals /\ ConflictRule.code \notin Refusals
      /\ CapacityRule.code \notin Refusals /\ UnavailableRule.code \notin Refusals
  BY RuleParts DEF Refusals
<1>6. /\ Good(AuthenticationRule) /\ Good(AuthorizationRule) /\ Good(CrossSlotRule)
      /\ Good(RejectedRule) /\ Good(TimeoutRule) /\ Good(ConflictRule)
      /\ Good(CapacityRule) /\ Good(UnavailableRule)
  <2>1. /\ AuthenticationRule.code \in Codes /\ AuthorizationRule.code \in Codes
        /\ CrossSlotRule.code \in Codes /\ RejectedRule.code \in Codes
        /\ TimeoutRule.code \in Codes /\ ConflictRule.code \in Codes
        /\ CapacityRule.code \in Codes /\ UnavailableRule.code \in Codes
    BY <1>2, Rules
  <2> QED
    BY <1>5, <2>1
<1> HIDE DEF Good
<1>7. Good(Translate(c))
  <2>1. Good(Rule({}, "internal", FALSE))
    BY <1>3, RuleParts DEF Good
  <2> QED
    BY <1>6, <2>1, ClassRules, Classes
<1>8. ASSUME c \in Transient PROVE Translate(c).retry = TRUE
  <2>1. Translate(c) \in {TimeoutRule, ConflictRule, CapacityRule, UnavailableRule}
    BY <1>8, ClassRules DEF Transient
  <2> QED
    BY <2>1, RuleParts
<1>9. ASSUME c \notin Transient PROVE Translate(c).retry = FALSE
  <2>1. Translate(c) \in {AuthenticationRule, AuthorizationRule, CrossSlotRule, RejectedRule,
                          Rule({}, "internal", FALSE)}
    BY <1>9, Classes, ClassRules DEF Transient
  <2> QED
    BY <2>1, RuleParts
<1> QED
  BY <1>7, <1>8, <1>9 DEF Good

-----------------------------------------------------------------------------
(* The store. *)

(* No entry comes back: a key keeps what it has, loses it, or holds one    *)
(* that is new.                                                            *)
Evolves ==
    /\ StoreInv' /\ written <= written'
    /\ \A k \in Keys : store'[k] \in {store[k], 0} \/ store'[k] > written

(* Nothing happens to it. *)
LEMMA SameStore == StoreInv /\ UNCHANGED <<store, written>> => Evolves
BY DEF StoreInv, Evolves

(* One key loses its entry. *)
LEMMA Loses ==
    ASSUME StoreInv, NEW k \in Keys, store' = [store EXCEPT ![k] = 0], UNCHANGED written
    PROVE  Evolves
<1>1. \A j \in Keys : store'[j] = IF j = k THEN 0 ELSE store[j]
  BY DEF StoreInv
<1>2. store' \in [Keys -> 0 .. written] /\ written \in Nat
  BY DEF StoreInv
<1>3. \A i, j \in Keys : store'[i] = store'[j] /\ store'[i] # 0 => i = j
  BY <1>1 DEF StoreInv
<1> QED
  BY <1>1, <1>2, <1>3 DEF StoreInv, Evolves

(* One key is given a new entry. *)
LEMMA Gains ==
    ASSUME StoreInv, NEW k \in Keys, written' = written + 1,
           store' = [store EXCEPT ![k] = written + 1]
    PROVE  Evolves
<1>1. \A j \in Keys : store'[j] = IF j = k THEN written + 1 ELSE store[j]
  BY DEF StoreInv
<1>2. written \in Nat /\ \A j \in Keys : store[j] \in 0 .. written
  BY DEF StoreInv
<1>3. store' \in [Keys -> 0 .. written']
  BY <1>1, <1>2 DEF StoreInv
<1>4. \A i, j \in Keys : store'[i] = store'[j] /\ store'[i] # 0 => i = j
  BY <1>1, <1>2 DEF StoreInv
<1> QED
  BY <1>1, <1>2, <1>3, <1>4 DEF StoreInv, Evolves

(* A call of the cache does one or the other, or nothing; a removal leaves *)
(* its key without an entry.                                               *)
LEMMA TakesEvolves ==
    ASSUME StoreInv, NEW x, Takes(x)
    PROVE  /\ Evolves
           /\ x.contract \in {"delete", "invalidate"} /\ x.key \in Keys =>
                 /\ store' = [store EXCEPT ![x.key] = 0]
                 /\ Took(x) = {store[x.key]} \ {0}
                 /\ Deleted(x) = IF store[x.key] # 0 THEN 1 ELSE 0
<1>1. CASE x.key \notin Keys
  <2>1. store' = store
    BY <1>1 DEF Takes, StoreInv
  <2>2. written' \in {written, written + 1}
    BY DEF Takes
  <2> QED
    BY <1>1, <2>1, <2>2 DEF StoreInv, Evolves
<1>2. CASE x.key \in Keys /\ ~ Applies(x)
  <2>1. UNCHANGED <<store, written>>
    BY <1>2 DEF Takes, StoreInv
  <2>2. x.contract \in {"delete", "invalidate"} =>
           store[x.key] = 0 /\ Took(x) = {} /\ Deleted(x) = 0
    BY <1>2 DEF Applies, Took, Deleted
  <2> QED
    BY <1>2, <2>1, <2>2, SameStore DEF StoreInv
<1>3. CASE x.key \in Keys /\ Applies(x) /\ x.contract \in Writes
  <2>1. written' = written + 1 /\ store' = [store EXCEPT ![x.key] = written + 1]
    BY <1>3 DEF Takes
  <2> QED
    BY <1>3, <2>1, Gains DEF Writes
<1>4. CASE x.key \in Keys /\ Applies(x) /\ x.contract \notin Writes
  <2>1. written' = written /\ store' = [store EXCEPT ![x.key] = 0]
    BY <1>4 DEF Takes
  <2>2. x.contract \in {"delete", "invalidate"} =>
           store[x.key] # 0 /\ Took(x) = {store[x.key]} /\ Deleted(x) = 1
    BY <1>4 DEF Applies, Took, Deleted
  <2> QED
    BY <1>4, <2>1, <2>2, Loses
<1> QED
  BY <1>1, <1>2, <1>3, <1>4

(* Where there is nothing to remove from the store, there still is not. *)
LEMMA StaysOut ==
    ASSUME StoreInv, Evolves, NEW S \in SUBSET (1 .. written), NEW k \in Keys,
           store[k] \notin S
    PROVE  store'[k] \notin S
<1>1. written \in Nat /\ \A d \in S : d \in Nat /\ d # 0 /\ d <= written
  BY DEF StoreInv
<1>2. store'[k] \in {store[k], 0} \/ store'[k] > written
  BY DEF Evolves
<1>3. store'[k] \in 0 .. written'
  BY DEF Evolves, StoreInv
<1> QED
  BY <1>1, <1>2, <1>3

(* A thread that waits still has the entries it was to remove before it. *)
LEMMA DoomedKept ==
    ASSUME StoreInv, Evolves, NEW l, NEW v, v.doomed \subseteq 1 .. written,
           DoomedAt(l, v, store)
    PROVE  DoomedAt(l, v, store')
<1>1. \A k \in Keys : store'[k] \in v.doomed => store[k] \in v.doomed
  BY StaysOut
<1> QED
  BY <1>1 DEF DoomedAt

-----------------------------------------------------------------------------
(* Steps of one thread. *)

(* The others stay where they are. *)
LEMMA MoveEffect ==
    ASSUME ControlInv, NEW t \in Threads, NEW l, NEW v, Move(t, l, v)
    PROVE  /\ pc'[t] = l /\ loc'[t] = v
           /\ \A u \in Threads \ {t} : pc'[u] = pc[u] /\ loc'[u] = loc[u]
BY DEF ControlInv, Move

(* A thread that is idle. *)
LEMMA IdleAt ==
    /\ At("idle", NoLocals) /\ \A s : DoomedAt("idle", NoLocals, s)
    /\ NoLocals.took = {} /\ NoLocals.doomed = {}
<1>1. /\ NoLocals.req = NoRequest /\ NoLocals.i = 1 /\ NoLocals.count = 0
      /\ NoLocals.took = {} /\ NoLocals.doomed = {}
  BY DEF NoLocals
<1>2. NoRequest \in Requests
  <2>1. <<>> \in Seq(Keys \cup {BadKey})
    OBVIOUS
  <2> QED
    BY <2>1 DEF NoRequest, Requests
<1>3. NoLocals \in Locals
  BY <1>2 DEF NoLocals, Locals
<1>4. RequestAt("idle", NoLocals) /\ ProgressAt("idle", NoLocals) /\ "idle" \in Places
  BY DEF RequestAt, ProgressAt, Places
<1>5. IsFiniteSet({}) /\ Cardinality({}) = 0
  BY FS_EmptySet
<1> QED
  BY <1>1, <1>3, <1>4, <1>5 DEF At, DoomedAt

(* A thread goes on; what its request removed now was in the store. *)
LEMMA StepInv ==
    ASSUME Inv, NEW t \in Threads, NEW l, NEW v, Move(t, l, v), Evolves, At(l, v),
           DoomedAt(l, v, store'), v.doomed \subseteq 1 .. written',
           v.took \subseteq loc[t].took \cup ({store[k] : k \in Keys} \ {0}),
           \A k \in Keys : store'[k] \notin v.took,
           UNCHANGED <<claimed, gone>>, OutcomeInv'
    PROVE  Inv'
<1>1. /\ pc'[t] = l /\ loc'[t] = v
      /\ \A u \in Threads \ {t} : pc'[u] = pc[u] /\ loc'[u] = loc[u]
  BY MoveEffect DEF Inv
<1>2. StoreInv /\ StoreInv' /\ 1 .. written \subseteq 1 .. written'
  BY DEF Inv, Evolves, StoreInv
<1>3. v.took \subseteq 1 .. written
  <2>1. loc[t].took \subseteq 1 .. written
    BY DEF Inv, ControlInv
  <2>2. \A k \in Keys : store[k] # 0 => store[k] \in 1 .. written
    BY DEF Inv, StoreInv
  <2> QED
    BY <2>1, <2>2
<1>4. ControlInv'
  <2>1. l \in Places /\ v \in Locals
    BY DEF At
  <2>2. pc' \in [Threads -> Places] /\ loc' \in [Threads -> Locals]
    BY <2>1 DEF Inv, ControlInv, Move
  <2>3. ASSUME NEW u \in Threads
        PROVE  /\ At(pc'[u], loc'[u]) /\ DoomedAt(pc'[u], loc'[u], store')
               /\ loc'[u].doomed \cup loc'[u].took \subseteq 1 .. written'
    <3>1. CASE u = t
      BY <1>1, <1>2, <1>3, <3>1
    <3>2. CASE u # t
      <4>1. /\ At(pc[u], loc[u]) /\ DoomedAt(pc[u], loc[u], store)
            /\ loc[u].doomed \cup loc[u].took \subseteq 1 .. written
        BY DEF Inv, ControlInv
      <4>2. DoomedAt(pc[u], loc[u], store')
        BY <1>2, <4>1, DoomedKept
      <4> QED
        BY <1>1, <1>2, <3>2, <4>1, <4>2
    <3> QED
      BY <3>1, <3>2
  <2> QED
    BY <2>2, <2>3 DEF ControlInv
<1>5. ClaimInv'
  <2>1. claimed \cup gone \subseteq 1 .. written /\ \A k \in Keys : store[k] \notin claimed \cup gone
    BY DEF Inv, ClaimInv
  <2>2. \A k \in Keys : store'[k] \notin claimed \cup gone
    BY <1>2, <2>1, StaysOut
  <2>3. ASSUME NEW u \in Threads \ {t}
        PROVE  loc[u].took \subseteq 1 .. written /\ \A k \in Keys : store'[k] \notin loc[u].took
    <3>1. loc[u].took \subseteq 1 .. written /\ \A k \in Keys : store[k] \notin loc[u].took
      BY DEF Inv, ControlInv, ClaimInv
    <3> QED
      BY <1>2, <3>1, StaysOut
  <2>4. v.took \cap claimed = {} /\ \A u \in Threads \ {t} : v.took \cap loc[u].took = {}
    BY DEF Inv, ClaimInv
  <2>5. ASSUME NEW u \in Threads
        PROVE  /\ loc'[u].took \cap claimed = {}
               /\ \A k \in Keys : store'[k] \notin loc'[u].took
               /\ \A w \in Threads \ {u} : loc'[u].took \cap loc'[w].took = {}
    <3>1. CASE u = t
      BY <1>1, <2>4, <3>1
    <3>2. CASE u # t
      BY <1>1, <2>3, <2>4, <3>2 DEF Inv, ClaimInv
    <3> QED
      BY <3>1, <3>2
  <2> QED
    BY <1>2, <2>1, <2>2, <2>5 DEF ClaimInv
<1> QED
  BY <1>2, <1>4, <1>5 DEF Inv

(* A request ends without a report of removals. *)
LEMMA EndInv ==
    ASSUME Inv, NEW t \in Threads, NEW k, NEW retry, NEW fault, Outcome(t, k, retry, fault),
           Evolves, UNCHANGED <<claimed, gone>>, OutcomeInv'
    PROVE  Inv'
<1>1. Move(t, "idle", NoLocals)
  BY DEF Outcome
<1>2. NoLocals.took = {} /\ NoLocals.doomed = {}
  BY IdleAt
<1> QED
  BY <1>1, <1>2, IdleAt, StepInv

(* The outcome of one request, *)
LEMMA OneOutcome ==
    ASSUME Inv, NEW t \in Threads, NEW r \in Results,
           r.fault # "none" => (r.retry <=> r.fault \in Transient),
           res' = [res EXCEPT ![t] = r], sclosed' \in BOOLEAN,
           UNCHANGED ops, \A x \in late' : x.contract \in Contracts /\ x.key \in Keys
    PROVE  OutcomeInv'
<1>1. res' \in [Threads -> Results]
  BY DEF Inv, OutcomeInv
<1>2. \A u \in Threads : res'[u] = IF u = t THEN r ELSE res[u]
  BY DEF Inv, OutcomeInv
<1>3. \A u \in Threads : res'[u].fault # "none" => (res'[u].retry <=> res'[u].fault \in Transient)
  BY <1>2 DEF Inv, OutcomeInv, RetryHintSound
<1> QED
  BY <1>1, <1>3 DEF Inv, OutcomeInv, RetryHintSound

(* one that is refused or succeeds, *)
LEMMA PlainOutcome ==
    ASSUME Inv, NEW t \in Threads, NEW k \in Codes, Outcome(t, k, FALSE, "none"),
           UNCHANGED <<sclosed, late, ops>>
    PROVE  OutcomeInv'
<1> DEFINE r == [out |-> k, retry |-> FALSE, fault |-> "none"]
<1>1. r \in Results /\ r.fault = "none"
  BY DEF Results
<1>2. res' = [res EXCEPT ![t] = r]
  BY DEF Outcome
<1> HIDE DEF r
<1> QED
  BY <1>1, <1>2, OneOutcome DEF Inv, OutcomeInv

(* and none yet. *)
LEMMA NoOutcome ==
    ASSUME Inv, UNCHANGED <<late, ops, res>>, sclosed' \in BOOLEAN
    PROVE  OutcomeInv'
BY DEF Inv, OutcomeInv, RetryHintSound

(* What a refused request is told. *)
LEMMA ErrorCodes == \A d : ErrorFor(d) \in Codes
BY DEF ErrorFor, Codes

-----------------------------------------------------------------------------
(* Actions. *)

(* A request is submitted: its keys hold all the entries it has doomed. *)
LEMMA SubmitInv ==
    ASSUME Inv, NEW t \in Threads, Submit(t)
    PROVE  Inv'
<1>0. PICK c \in Contracts : \E d \in {{}} \cup {{x} : x \in Defects \cap Carries(c)} :
        \E ks \in KeyLists(c), e \in IF c = "compare_and_set" THEN 0 .. written ELSE {0} :
           Move(t, "validate",
                [NoLocals EXCEPT
                   !.req = [contract |-> c, keys |-> ks, expect |-> e, defects |-> d],
                   !.doomed = {store[k] : k \in ToSet(ks) \cap Keys} \ {0}])
  BY DEF Submit
<1>1. PICK d \in {{}} \cup {{x} : x \in Defects \cap Carries(c)}, ks \in KeyLists(c),
           e \in IF c = "compare_and_set" THEN 0 .. written ELSE {0} :
         Move(t, "validate",
              [NoLocals EXCEPT
                 !.req = [contract |-> c, keys |-> ks, expect |-> e, defects |-> d],
                 !.doomed = {store[k] : k \in ToSet(ks) \cap Keys} \ {0}])
  BY <1>0
<1> DEFINE r == [contract |-> c, keys |-> ks, expect |-> e, defects |-> d]
           dm == {store[k] : k \in ToSet(ks) \cap Keys} \ {0}
           v == [NoLocals EXCEPT !.req = r, !.doomed = dm]
<1>2. Move(t, "validate", v)
  BY <1>1
<1>3. ks \in Seq(Keys \cup {BadKey}) /\ (c # "invalidate" => Len(ks) = 1)
  <2>1. CASE c = "invalidate"
    BY <2>1, SessionAssumption DEF KeyLists
  <2>2. CASE c # "invalidate"
    <3>1. PICK k \in Keys \cup {BadKey} : ks = <<k>>
      BY <2>2 DEF KeyLists
    <3> QED
      BY <3>1
  <2> QED
    BY <2>1, <2>2
<1>4. r \in Requests /\ r.contract = c /\ r.keys = ks /\ r.defects = d
  <2>1. d \in SUBSET AllDefects /\ e \in Nat
    BY SessionAssumption
  <2> QED
    BY <1>3, <2>1 DEF Requests
<1>5. dm \subseteq 1 .. written /\ dm \subseteq Nat
  BY DEF Inv, StoreInv
<1>6. \A k \in Keys : store[k] \in dm => \E j \in 1 .. Len(ks) : ks[j] = k
  <2> SUFFICES ASSUME NEW k \in Keys, store[k] \in dm PROVE \E j \in 1 .. Len(ks) : ks[j] = k
    OBVIOUS
  <2>1. PICK m \in ToSet(ks) \cap Keys : store[k] = store[m] /\ store[k] # 0
    OBVIOUS
  <2>2. m = k
    BY <2>1 DEF Inv, StoreInv
  <2>3. DOMAIN ks = 1 .. Len(ks)
    BY <1>3
  <2> QED
    BY <2>1, <2>2, <2>3 DEF ToSet
<1> HIDE DEF r, dm
<1>7. NoLocals \in Locals /\ NoLocals.i = 1 /\ NoLocals.count = 0 /\ NoLocals.took = {}
  BY IdleAt DEF At, NoLocals
<1>8. /\ v \in Locals /\ v.req = r /\ v.doomed = dm
      /\ v.i = 1 /\ v.count = 0 /\ v.took = {}
  BY <1>4, <1>5, <1>7 DEF Locals
<1> HIDE DEF v
<1>9. At("validate", v)
  <2>1. RequestAt("validate", v) /\ ProgressAt("validate", v) /\ "validate" \in Places
    BY <1>3, <1>4, <1>8 DEF RequestAt, ProgressAt, Places
  <2> QED
    BY <1>8, <2>1, FS_EmptySet DEF At
<1>10. UNCHANGED <<store, written, claimed, gone, sclosed, late>> /\ Evolves
  BY SameStore DEF Submit, Inv
<1>11. DoomedAt("validate", v, store')
  BY <1>4, <1>6, <1>8, <1>10 DEF DoomedAt
<1>12. OutcomeInv'
  <2>1. NoResult \in Results /\ NoResult.fault = "none"
    BY DEF NoResult, Results, Codes
  <2>2. \A u \in Threads : res'[u] = IF u = t THEN NoResult ELSE res[u]
    BY DEF Submit, Inv, OutcomeInv
  <2>3. res' \in [Threads -> Results]
    BY <2>1 DEF Submit, Inv, OutcomeInv
  <2>4. RetryHintSound'
    BY <2>1, <2>2 DEF RetryHintSound, Inv, OutcomeInv
  <2>5. ops' \in [Threads -> 0 .. MaxOps]
    BY SessionAssumption DEF Submit, Inv, OutcomeInv
  <2> QED
    BY <1>10, <2>3, <2>4, <2>5 DEF Inv, OutcomeInv
<1>13. dm \subseteq 1 .. written'
  BY <1>5, <1>10
<1> QED
  BY <1>2, <1>8, <1>9, <1>10, <1>11, <1>12, <1>13, StepInv

(* The selector of an invalidate, and the key of everything else, is one   *)
(* of the checks.                                                          *)
LEMMA KeysChecked ==
    /\ \E i \in DOMAIN Checks("invalidate") : Checks("invalidate")[i] = "selector"
    /\ \A c \in AllContracts \ {"invalidate"} :
          \E i \in DOMAIN Checks(c) : Checks(c)[i] = "key"
<1> DEFINE two == <<"binding", "shape">>
<1>1. /\ Checks("invalidate") = two \o <<"selector">>
      /\ \A c \in {"get", "delete"} : Checks(c) = two \o <<"resource", "key">>
      /\ \A c \in {"put", "put_if_absent"} :
            Checks(c) = two \o <<"resource", "value", "ttl", "source", "key", "ttlbound", "size">>
      /\ Checks("compare_and_set") = two \o <<"version", "resource", "value", "ttl", "key">>
  BY DEF Checks
<1>2. 3 \in DOMAIN Checks("invalidate") /\ Checks("invalidate")[3] = "selector"
  <2>1. LET s == two \o <<"selector">> IN 3 \in DOMAIN s /\ s[3] = "selector"
    OBVIOUS
  <2> HIDE DEF two
  <2> QED
    BY <1>1, <2>1
<1>3. ASSUME NEW c \in {"get", "delete"} PROVE 4 \in DOMAIN Checks(c) /\ Checks(c)[4] = "key"
  <2>1. LET s == two \o <<"resource", "key">> IN 4 \in DOMAIN s /\ s[4] = "key"
    OBVIOUS
  <2> HIDE DEF two
  <2> QED
    BY <1>1, <2>1
<1>4. ASSUME NEW c \in {"put", "put_if_absent"}
      PROVE  7 \in DOMAIN Checks(c) /\ Checks(c)[7] = "key"
  <2>1. LET s == two \o <<"resource", "value", "ttl", "source", "key", "ttlbound", "size">>
        IN  7 \in DOMAIN s /\ s[7] = "key"
    OBVIOUS
  <2> HIDE DEF two
  <2> QED
    BY <1>1, <2>1
<1>5. 7 \in DOMAIN Checks("compare_and_set") /\ Checks("compare_and_set")[7] = "key"
  <2>1. LET s == two \o <<"version", "resource", "value", "ttl", "key">>
        IN  7 \in DOMAIN s /\ s[7] = "key"
    OBVIOUS
  <2> HIDE DEF two
  <2> QED
    BY <1>1, <2>1
<1> QED
  BY <1>2, <1>3, <1>4, <1>5 DEF AllContracts

(* A request that passes its checks has at most MaxBatch keys. *)
LEMMA ValidateInv ==
    ASSUME Inv, NEW t \in Threads, Validate(t)
    PROVE  Inv'
<1> DEFINE r == loc[t].req
           checks == Checks(r.contract)
           failed == {i \in DOMAIN checks : checks[i] \in Wrong(r)}
<1>1. /\ pc[t] = "validate" /\ UNCHANGED <<store, written, sclosed, late, ops, claimed, gone>>
      /\ Evolves
  BY SameStore DEF Validate, Inv
<1>2. CASE Reject(t, "closed") \/ \E d : Reject(t, ErrorFor(d))
  <2>1. PICK k \in Codes : Outcome(t, k, FALSE, "none")
    BY <1>2, ErrorCodes DEF Reject, Codes
  <2> QED
    BY <1>1, <2>1, PlainOutcome, EndInv
<1>3. CASE failed = {} /\ Move(t, "call", loc[t]) /\ UNCHANGED res
  <2>1. /\ At("validate", loc[t]) /\ DoomedAt("validate", loc[t], store)
        /\ loc[t].doomed \subseteq 1 .. written /\ \A k \in Keys : store[k] \notin loc[t].took
    BY <1>1 DEF Inv, ControlInv, ClaimInv
  <2>2. r.contract = "invalidate" => Len(r.keys) \in 1 .. MaxBatch
    <3> SUFFICES ASSUME r.contract = "invalidate" PROVE SelectorOK(r.keys)
      BY DEF SelectorOK
    <3>1. "selector" \notin Wrong(r)
      BY <1>3, KeysChecked
    <3> QED
      BY <3>1 DEF Wrong
  <2>0. r.contract # "invalidate" => r.keys[1] \in Keys
    <3> SUFFICES ASSUME r.contract # "invalidate" PROVE r.keys[1] \in Keys
      OBVIOUS
    <3>1. r.contract \in AllContracts \ {"invalidate"} /\ r \in Requests /\ Len(r.keys) = 1
      BY <2>1, SessionAssumption DEF At, RequestAt, Locals
    <3>2. "key" \notin Wrong(r)
      BY <1>3, <3>1, KeysChecked
    <3>3. BadKey \notin ToSet(r.keys)
      BY <3>2 DEF Wrong
    <3>4. r.keys \in Seq(Keys \cup {BadKey})
      BY <3>1 DEF Requests
    <3>5. 1 \in DOMAIN r.keys /\ r.keys[1] \in Keys \cup {BadKey}
      <4>1. ASSUME NEW S, NEW ks \in Seq(S), Len(ks) = 1 PROVE 1 \in DOMAIN ks /\ ks[1] \in S
        BY <4>1
      <4> QED
        BY <3>1, <3>4, <4>1
    <3> QED
      BY <3>3, <3>5 DEF ToSet
  <2>3. loc[t] \in Locals /\ loc[t].i = 1 /\ loc[t].took = {} /\ loc[t].count = 0
    BY <2>1, FS_EmptySet DEF At, ProgressAt
  <2>4. RequestAt("call", loc[t])
    BY <2>0, <2>1, <2>2 DEF At, RequestAt
  <2>5. ProgressAt("call", loc[t])
    BY <2>2, <2>3 DEF ProgressAt
  <2>6. At("call", loc[t])
    BY <2>1, <2>4, <2>5 DEF At, Places
  <2>7. DoomedAt("call", loc[t], store')
    BY <1>1, <2>1 DEF DoomedAt
  <2>8. OutcomeInv'
    BY <1>1, <1>3, NoOutcome DEF Inv, OutcomeInv
  <2> QED
    BY <1>1, <1>3, <2>1, <2>6, <2>7, <2>8, StepInv
<1> QED
  BY <1>2, <1>3 DEF Validate

(* What a thread that makes its calls relies on. *)
LEMMA Calling ==
    ASSUME Inv, NEW t \in Threads, pc[t] = "call"
    PROVE  /\ At("call", loc[t]) /\ DoomedAt("call", loc[t], store) /\ StoreInv
           /\ loc[t] \in Locals /\ loc[t].req \in Requests
           /\ loc[t].req.keys \in Seq(Keys \cup {BadKey}) /\ loc[t].req.contract \in Contracts
           /\ loc[t].doomed \subseteq 1 .. written /\ loc[t].took \subseteq 1 .. written
           /\ \A k \in Keys : store[k] \notin loc[t].took
<1>1. /\ At("call", loc[t]) /\ DoomedAt("call", loc[t], store) /\ StoreInv
      /\ loc[t].doomed \subseteq 1 .. written /\ loc[t].took \subseteq 1 .. written
      /\ \A k \in Keys : store[k] \notin loc[t].took
  BY DEF Inv, ControlInv, ClaimInv
<1>2. loc[t] \in Locals /\ loc[t].req.contract \in Contracts
  BY <1>1 DEF At, RequestAt
<1> QED
  BY <1>1, <1>2 DEF Locals, Requests

(* The parts of a call, the key of every contract but invalidate. *)
LEMMA CallParts ==
    ASSUME NEW r, NEW k
    PROVE  Call(r, k).contract = r.contract /\ Call(r, k).key = k
BY DEF Call

(* A request is refused after its GET, or its envelope expired early. *)
LEMMA WriteFailsInv ==
    ASSUME Inv, NEW t \in Threads, SwapRejected(t) \/ WriteOutlived(t)
    PROVE  Inv'
<1>1. UNCHANGED <<sclosed, late, ops, claimed, gone>> /\ Evolves
  BY SameStore, TakesEvolves DEF SwapRejected, WriteOutlived, Inv
<1>2. PICK k \in Codes : Outcome(t, k, FALSE, "none")
  BY ErrorCodes DEF SwapRejected, WriteOutlived, Reject, Codes
<1> QED
  BY <1>1, <1>2, PlainOutcome, EndInv

(* A set of at most one entry. *)
LEMMA TookOne ==
    ASSUME NEW d
    PROVE  LET S == {d} \ {0}
           IN  IsFiniteSet(S) /\ Cardinality(S) = IF d # 0 THEN 1 ELSE 0
<1>1. CASE d = 0
  <2>1. {d} \ {0} = {}
    BY <1>1
  <2> QED
    BY <1>1, <2>1, FS_EmptySet
<1>2. CASE d # 0
  <2>1. {d} \ {0} = {d}
    BY <1>2
  <2> QED
    BY <1>2, <2>1, FS_Singleton
<1> QED
  BY <1>1, <1>2

(* One entry more. *)
LEMMA TookMore ==
    ASSUME NEW S, IsFiniteSet(S), NEW d, d \notin S, NEW T, T = S \cup {d}
    PROVE  IsFiniteSet(T) /\ Cardinality(T) = Cardinality(S) + 1
<1>1. IsFiniteSet(S \cup {d}) /\ Cardinality(S \cup {d}) = Cardinality(S) + 1
  BY FS_AddElement
<1> QED
  BY <1>1, Zenon

(* One call: a delete leaves its key without the entry it had. *)
LEMMA CallOneInv ==
    ASSUME Inv, NEW t \in Threads, CallOne(t)
    PROVE  Inv'
<1> DEFINE r == loc[t].req
           k == r.keys[1]
           x == Call(r, Head(r.keys))
           n == IF x.contract = "delete" THEN Deleted(x) ELSE 0
           s == IF x.contract = "delete" THEN Took(x) ELSE {}
           v == [loc[t] EXCEPT !.count = n, !.took = s]
<1>1. /\ pc[t] = "call" /\ r.contract # "invalidate" /\ Takes(x) /\ Move(t, "finish", v)
      /\ UNCHANGED <<sclosed, late, ops, res, claimed, gone>>
  BY DEF CallOne
<1>2. /\ At("call", loc[t]) /\ DoomedAt("call", loc[t], store) /\ StoreInv
      /\ loc[t] \in Locals /\ r \in Requests /\ r.keys \in Seq(Keys \cup {BadKey})
      /\ loc[t].doomed \subseteq 1 .. written
  BY <1>1, Calling
<1>3. /\ Len(r.keys) = 1 /\ k \in Keys /\ loc[t].i = 1
  BY <1>1, <1>2 DEF At, RequestAt, ProgressAt
<1>4. Head(r.keys) = k
  BY <1>2, <1>3
<1>5. x.contract = r.contract /\ x.key = k
  BY <1>4, CallParts
<1> HIDE DEF x
<1>6. /\ Evolves
      /\ r.contract = "delete" => /\ store' = [store EXCEPT ![k] = 0]
                                  /\ Took(x) = {store[k]} \ {0}
                                  /\ Deleted(x) = IF store[k] # 0 THEN 1 ELSE 0
  BY <1>1, <1>2, <1>3, <1>5, TakesEvolves
<1>7. IsFiniteSet(s) /\ n = Cardinality(s) /\ n \in {0, 1}
  BY <1>5, <1>6, TookOne, FS_EmptySet
<1>8. s \subseteq {store[j] : j \in Keys} \ {0}
  BY <1>3, <1>5, <1>6
<1>9. s \in SUBSET Nat
  BY <1>2, <1>8 DEF StoreInv
<1>10. \A j \in Keys : store'[j] \notin s
  <2>1. CASE r.contract = "delete"
    BY <1>2, <1>3, <1>5, <1>6, <2>1 DEF StoreInv
  <2>2. CASE r.contract # "delete"
    BY <1>5, <2>2
  <2> QED
    BY <2>1, <2>2
<1> HIDE DEF n, s
<1>11. /\ v \in Locals /\ v.req = r /\ v.i = 1 /\ v.count = n /\ v.took = s
       /\ v.doomed = loc[t].doomed
  <2>1. n \in Nat /\ loc[t] \in Locals
    BY <1>2, <1>7
  <2>2. /\ v \in Locals /\ v.count = n /\ v.took = s
        /\ v.req = loc[t].req /\ v.i = loc[t].i /\ v.doomed = loc[t].doomed
    BY <1>9, <2>1 DEF Locals
  <2> QED
    BY <1>3, <2>2
<1> HIDE DEF v
<1>12. RequestAt("finish", v)
  BY <1>1, <1>2, <1>11 DEF At, RequestAt
<1>13. ProgressAt("finish", v)
  BY <1>7, <1>11, SessionAssumption DEF ProgressAt
<1>14. At("finish", v)
  BY <1>7, <1>11, <1>12, <1>13 DEF At, Places
<1>15. DoomedAt("finish", v, store')
  <2> SUFFICES ASSUME Removes(v), NEW j \in Keys, store'[j] \in v.doomed PROVE FALSE
    BY DEF DoomedAt
  <2>1. r.contract = "delete"
    BY <1>1, <1>11 DEF Removes
  <2>2. store[j] \in loc[t].doomed
    BY <1>2, <1>6, <1>11, StaysOut
  <2>3. j = k
    BY <1>2, <1>3, <2>2 DEF DoomedAt
  <2>4. store'[j] = 0
    BY <1>2, <1>6, <2>1, <2>3 DEF StoreInv
  <2> QED
    BY <1>2, <1>11, <2>4
<1>16. v.doomed \subseteq 1 .. written'
  BY <1>2, <1>6, <1>11 DEF Evolves, StoreInv
<1>17. OutcomeInv'
  BY <1>1, NoOutcome DEF Inv, OutcomeInv
<1> QED
  BY <1>1, <1>6, <1>8, <1>10, <1>11, <1>14, <1>15, <1>16, <1>17, StepInv

(* The next key of an invalidate; the keys before it hold no entry that    *)
(* was doomed.                                                             *)
LEMMA InvalidateKeyInv ==
    ASSUME Inv, NEW t \in Threads, InvalidateKey(t)
    PROVE  Inv'
<1> DEFINE r == loc[t].req
           i == loc[t].i
           k == r.keys[i]
           x == Call(r, k)
           j == i + 1
           n == loc[t].count + Deleted(x)
           s == loc[t].took \cup Took(x)
           v == [loc[t] EXCEPT !.i = j, !.count = n, !.took = s]
<1>1. /\ pc[t] = "call" /\ r.contract = "invalidate" /\ i <= Len(r.keys)
      /\ UNCHANGED <<sclosed, late, ops, claimed, gone>>
  BY DEF InvalidateKey, LastKey
<1>2. CASE /\ Reject(t, "placement") \/ Reject(t, "key")
           /\ UNCHANGED <<store, written>>
  <2>1. Evolves
    BY <1>2, SameStore DEF Inv
  <2>2. PICK c \in Codes : Outcome(t, c, FALSE, "none")
    BY <1>2 DEF Reject, Codes
  <2> QED
    BY <1>1, <2>1, <2>2, PlainOutcome, EndInv
<1>3. CASE /\ "resource" \notin r.defects /\ k # BadKey /\ Takes(x)
           /\ Move(t, "call", v) /\ UNCHANGED res
  <2>1. /\ At("call", loc[t]) /\ DoomedAt("call", loc[t], store) /\ StoreInv
        /\ loc[t] \in Locals /\ r \in Requests /\ r.keys \in Seq(Keys \cup {BadKey})
        /\ loc[t].doomed \subseteq 1 .. written /\ loc[t].took \subseteq 1 .. written
        /\ \A m \in Keys : store[m] \notin loc[t].took
    BY <1>1, Calling
  <2>2. /\ Len(r.keys) \in 1 .. MaxBatch /\ i \in 1 .. Len(r.keys) /\ loc[t].count < i
        /\ loc[t].count \in Nat /\ MaxBatch \in Nat
    <3>1. Len(r.keys) \in 1 .. MaxBatch /\ i \in 1 .. Len(r.keys) + 1 /\ loc[t].count < i
      BY <1>1, <2>1 DEF At, RequestAt, ProgressAt
    <3> QED
      BY <1>1, <2>1, <3>1, SessionAssumption DEF Locals
  <2>3. k \in Keys
    BY <1>3, <2>1, <2>2
  <2>4. x.contract = "invalidate" /\ x.key = k
    BY <1>1, CallParts
  <2> HIDE DEF x
  <2>5. /\ Evolves /\ store' = [store EXCEPT ![k] = 0]
        /\ Took(x) = {store[k]} \ {0} /\ Deleted(x) = IF store[k] # 0 THEN 1 ELSE 0
    BY <1>3, <2>1, <2>3, <2>4, TakesEvolves
  <2>6. IsFiniteSet(loc[t].took) /\ loc[t].count = Cardinality(loc[t].took)
    BY <2>1 DEF At
  <2>7. IsFiniteSet(s) /\ n = Cardinality(s)
    <3>1. CASE store[k] = 0
      <4>1. s = loc[t].took /\ Deleted(x) = 0
        BY <2>5, <3>1
      <4> HIDE DEF s
      <4> QED
        BY <2>2, <2>6, <4>1
    <3>2. CASE store[k] # 0
      <4>1. s = loc[t].took \cup {store[k]} /\ Deleted(x) = 1 /\ store[k] \notin loc[t].took
        BY <2>1, <2>3, <2>5, <3>2
      <4> HIDE DEF s
      <4>2. IsFiniteSet(s) /\ Cardinality(s) = Cardinality(loc[t].took) + 1
        BY <2>6, <4>1, TookMore, Zenon
      <4> QED
        BY <2>6, <4>1, <4>2
    <3> QED
      BY <3>1, <3>2
  <2>8. n \in Nat /\ n < j /\ j \in Nat /\ j \in 1 .. Len(r.keys) + 1
    BY <2>2, <2>5
  <2>9. s \subseteq loc[t].took \cup ({store[m] : m \in Keys} \ {0})
    BY <2>3, <2>5
  <2>10. s \in SUBSET Nat
    BY <2>1, <2>9 DEF StoreInv
  <2>11. \A m \in Keys : store'[m] \notin s
    <3>1. \A m \in Keys : store'[m] \notin loc[t].took
      BY <2>1, <2>5, StaysOut
    <3>2. \A m \in Keys : store'[m] \notin {store[k]} \ {0}
      BY <2>1, <2>3, <2>5 DEF StoreInv
    <3> QED
      BY <2>5, <3>1, <3>2
  <2> HIDE DEF n, s, j
  <2>12. /\ v \in Locals /\ v.req = r /\ v.i = j /\ v.count = n /\ v.took = s
         /\ v.doomed = loc[t].doomed
    <3>1. n \in Nat /\ j \in Nat /\ loc[t] \in Locals
      BY <2>1, <2>8
    <3> QED
      BY <2>10, <3>1 DEF Locals
  <2> HIDE DEF v
  <2>13. RequestAt("call", v)
    BY <2>1, <2>12 DEF At, RequestAt
  <2>14. ProgressAt("call", v)
    BY <1>1, <1>3, <2>8, <2>12 DEF ProgressAt
  <2>15. At("call", v)
    BY <2>7, <2>12, <2>13, <2>14 DEF At, Places
  <2>16. DoomedAt("call", v, store')
    <3> SUFFICES ASSUME NEW m \in Keys, store'[m] \in loc[t].doomed
                 PROVE  \E h \in j .. Len(r.keys) : r.keys[h] = m
      BY <2>12 DEF DoomedAt
    <3>1. store[m] \in loc[t].doomed
      BY <2>1, <2>5, StaysOut
    <3>2. m # k
      BY <2>1, <2>5 DEF StoreInv
    <3>3. PICK h \in i .. Len(r.keys) : r.keys[h] = m
      BY <2>1, <3>1 DEF DoomedAt
    <3>4. h # i /\ h \in j .. Len(r.keys)
      BY <2>2, <3>2, <3>3 DEF j
    <3> QED
      BY <3>3, <3>4
  <2>17. v.doomed \subseteq 1 .. written'
    BY <2>1, <2>5, <2>12 DEF Evolves, StoreInv
  <2>18. OutcomeInv'
    BY <1>1, <1>3, NoOutcome DEF Inv, OutcomeInv
  <2>19. Move(t, "call", v) /\ UNCHANGED <<claimed, gone>> /\ v.took = s /\ Evolves
    BY <1>1, <1>3, <2>5, <2>12
  <2> QED
    BY <2>9, <2>11, <2>15, <2>16, <2>17, <2>18, <2>19, StepInv
<1> QED
  BY <1>2, <1>3 DEF InvalidateKey

(* All keys of an invalidate have had their turn. *)
LEMMA InvalidateDoneInv ==
    ASSUME Inv, NEW t \in Threads, InvalidateDone(t)
    PROVE  Inv'
<1> DEFINE v == loc[t]
<1>1. /\ pc[t] = "call" /\ v.req.contract = "invalidate" /\ v.i > Len(v.req.keys)
      /\ Move(t, "finish", v)
      /\ UNCHANGED <<store, written, sclosed, late, ops, res, claimed, gone>>
  BY DEF InvalidateDone, LastKey
<1>2. /\ At("call", v) /\ DoomedAt("call", v, store) /\ StoreInv /\ v \in Locals
      /\ v.doomed \subseteq 1 .. written /\ \A k \in Keys : store[k] \notin v.took
  BY <1>1, Calling
<1> HIDE DEF v
<1>3. /\ Len(v.req.keys) \in 1 .. MaxBatch /\ v.i \in 1 .. Len(v.req.keys) + 1
      /\ v.count < v.i /\ v.count \in Nat
  BY <1>1, <1>2 DEF At, RequestAt, ProgressAt, Locals
<1>4. RequestAt("finish", v)
  BY <1>1, <1>2 DEF At, RequestAt
<1>5. ProgressAt("finish", v)
  BY <1>3, SessionAssumption DEF ProgressAt
<1>6. At("finish", v)
  BY <1>2, <1>4, <1>5 DEF At, Places
<1>7. \A k \in Keys : store[k] \notin v.doomed
  BY <1>1, <1>2, <1>3 DEF DoomedAt
<1>8. DoomedAt("finish", v, store') /\ Evolves
  BY <1>1, <1>2, <1>7, SameStore DEF DoomedAt
<1>9. OutcomeInv'
  BY <1>1, NoOutcome DEF Inv, OutcomeInv
<1>10. v.took \subseteq loc[t].took
  BY DEF v
<1>11. UNCHANGED <<written, store, claimed, gone>>
  BY <1>1
<1> QED
  BY <1>1, <1>2, <1>6, <1>8, <1>9, <1>10, <1>11, StepInv

(* The client library raises: a get degrades, everything else ends with    *)
(* the translated error, and its command may be on its way.                *)
LEMMA CallFailsInv ==
    ASSUME Inv, NEW t \in Threads, CallFails(t)
    PROVE  Inv'
<1> DEFINE r == loc[t].req
           k == r.keys[loc[t].i]
<1>1. /\ pc[t] = "call" /\ loc[t].i <= Len(r.keys) /\ k # BadKey
      /\ UNCHANGED <<store, written, sclosed, ops, claimed, gone>>
  BY DEF CallFails, LastKey
<1>2. /\ At("call", loc[t]) /\ DoomedAt("call", loc[t], store) /\ StoreInv
      /\ loc[t] \in Locals /\ r.keys \in Seq(Keys \cup {BadKey}) /\ r.contract \in Contracts
      /\ loc[t].doomed \subseteq 1 .. written /\ \A m \in Keys : store[m] \notin loc[t].took
  BY <1>1, Calling
<1>3. Evolves
  BY <1>1, <1>2, SameStore
<1>4. k \in Keys
  <2>1. loc[t].i \in Nat /\ loc[t].i >= 1
    BY <1>2 DEF At, ProgressAt, Locals
  <2> QED
    BY <1>1, <1>2, <2>1
<1>5. \A x \in late' : x.contract \in Contracts /\ x.key \in Keys
  <2>1. late' = late \/ late' = late \cup {Call(r, k)}
    BY DEF CallFails
  <2>2. Call(r, k).contract \in Contracts /\ Call(r, k).key \in Keys
    BY <1>2, <1>4, CallParts
  <2>3. \A x \in late : x.contract \in Contracts /\ x.key \in Keys
    BY DEF Inv, OutcomeInv
  <2> QED
    BY <2>1, <2>2, <2>3
<1>6. CASE r.contract = "get"
  <2>1. Move(t, "finish", loc[t]) /\ res' = [res EXCEPT ![t].out = "degraded"]
    BY <1>6 DEF CallFails
  <2>2. loc[t].i = 1 /\ loc[t].took = {} /\ loc[t].count = 0
    BY <1>2, <1>6, FS_EmptySet DEF At, ProgressAt
  <2>3. RequestAt("finish", loc[t])
    BY <1>2, <1>6 DEF At, RequestAt
  <2>4. ProgressAt("finish", loc[t])
    BY <2>2, SessionAssumption DEF ProgressAt
  <2>5. At("finish", loc[t])
    BY <1>2, <2>3, <2>4 DEF At, Places
  <2>6. DoomedAt("finish", loc[t], store')
    BY <1>6 DEF DoomedAt, Removes
  <2> DEFINE o == [res[t] EXCEPT !.out = "degraded"]
  <2>7. res[t] \in Results /\ "degraded" \in Codes
    BY DEF Inv, OutcomeInv, Codes
  <2>8. o \in Results /\ o.retry = res[t].retry /\ o.fault = res[t].fault
    BY <2>7 DEF Results
  <2>9. res' = [res EXCEPT ![t] = o]
    BY <2>1
  <2> HIDE DEF o
  <2>10. o.fault # "none" => (o.retry <=> o.fault \in Transient)
    BY <2>8 DEF Inv, OutcomeInv, RetryHintSound
  <2>11. sclosed' \in BOOLEAN
    BY <1>1 DEF Inv, OutcomeInv
  <2>12. OutcomeInv'
    BY <1>1, <1>5, <2>8, <2>9, <2>10, <2>11, OneOutcome
  <2>13. \A m \in Keys : store'[m] \notin loc[t].took
    BY <2>2
  <2>14. loc[t].doomed \subseteq 1 .. written'
    BY <1>1, <1>2
  <2> QED
    BY <1>1, <1>3, <2>1, <2>5, <2>6, <2>12, <2>13, <2>14, StepInv
<1>7. CASE r.contract # "get"
  <2>1. PICK c \in Errors : Outcome(t, Translate(c).code, Translate(c).retry, c)
    BY <1>7 DEF CallFails
  <2>2. c \in DOMAIN Bases
    BY SessionAssumption
  <2> DEFINE code == Translate(c).code
             retry == Translate(c).retry
             o == [out |-> code, retry |-> retry, fault |-> c]
  <2>3. res' = [res EXCEPT ![t] = o]
    BY <2>1 DEF Outcome
  <2>4. /\ code \in Codes /\ (c \in Transient => retry = TRUE)
        /\ c \notin Transient => retry = FALSE
    BY <2>2, Hints
  <2> HIDE DEF code, retry
  <2>5. retry \in BOOLEAN
    BY <2>4
  <2>6. o \in Results /\ o.retry = retry /\ o.fault = c
    BY <2>2, <2>4, <2>5 DEF Results
  <2> HIDE DEF o
  <2>7. o.fault # "none" => (o.retry <=> o.fault \in Transient)
    BY <2>4, <2>6
  <2>8. sclosed' \in BOOLEAN
    BY <1>1 DEF Inv, OutcomeInv
  <2>9. OutcomeInv'
    BY <1>1, <1>5, <2>3, <2>6, <2>7, <2>8, OneOutcome
  <2> QED
    BY <1>1, <1>3, <2>1, <2>9, EndInv
<1> QED
  BY <1>6, <1>7

(* A request reports: its removals are claimed, what it had doomed is      *)
(* gone.                                                                   *)
LEMMA FinishInv ==
    ASSUME Inv, NEW t \in Threads, Finish(t)
    PROVE  Inv'
<1>1. pc[t] = "finish" /\ UNCHANGED <<store, written, sclosed, late, ops>> /\ StoreInv /\ Evolves
  BY SameStore DEF Finish, Inv
<1>2. PICK o \in Codes : Outcome(t, o, FALSE, "none")
  BY DEF Finish, Reject, Codes
<1>3. OutcomeInv'
  BY <1>1, <1>2, PlainOutcome
<1>4. CASE UNCHANGED <<claimed, gone>>
  BY <1>1, <1>2, <1>3, <1>4, EndInv
<1>5. CASE /\ claimed' = claimed \cup loc[t].took
           /\ gone' = gone \/ (Removes(loc[t]) /\ gone' = gone \cup loc[t].doomed)
  <2>1. Move(t, "idle", NoLocals)
    BY <1>2 DEF Outcome
  <2>2. /\ pc'[t] = "idle" /\ loc'[t] = NoLocals
        /\ \A u \in Threads \ {t} : pc'[u] = pc[u] /\ loc'[u] = loc[u]
    BY <2>1, MoveEffect DEF Inv
  <2>3. /\ At("idle", NoLocals) /\ \A s : DoomedAt("idle", NoLocals, s)
        /\ NoLocals.took = {} /\ NoLocals.doomed = {}
    BY IdleAt
  <2>4. ControlInv'
    <3>1. NoLocals \in Locals /\ "idle" \in Places
      BY <2>3 DEF At
    <3>2. pc' \in [Threads -> Places] /\ loc' \in [Threads -> Locals]
      BY <2>1, <3>1 DEF Inv, ControlInv, Move
    <3>3. ASSUME NEW u \in Threads
          PROVE  /\ At(pc'[u], loc'[u]) /\ DoomedAt(pc'[u], loc'[u], store')
                 /\ loc'[u].doomed \cup loc'[u].took \subseteq 1 .. written'
      <4>1. CASE u = t
        BY <2>2, <2>3, <4>1
      <4>2. CASE u # t
        BY <1>1, <2>2, <4>2 DEF Inv, ControlInv
      <4> QED
        BY <4>1, <4>2
    <3> QED
      BY <3>2, <3>3 DEF ControlInv
  <2>5. /\ loc[t].took \subseteq 1 .. written /\ loc[t].doomed \subseteq 1 .. written
        /\ \A k \in Keys : store[k] \notin loc[t].took
        /\ Removes(loc[t]) => \A k \in Keys : store[k] \notin loc[t].doomed
    BY <1>1 DEF Inv, ControlInv, ClaimInv, DoomedAt
  <2>6. ClaimInv'
    <3>1. claimed' \cup gone' \subseteq 1 .. written'
      BY <1>1, <1>5, <2>5 DEF Inv, ClaimInv
    <3>2. \A k \in Keys : store'[k] \notin claimed' \cup gone'
      BY <1>1, <1>5, <2>5 DEF Inv, ClaimInv
    <3>3. ASSUME NEW u \in Threads
          PROVE  /\ loc'[u].took \cap claimed' = {}
                 /\ \A k \in Keys : store'[k] \notin loc'[u].took
                 /\ \A w \in Threads \ {u} : loc'[u].took \cap loc'[w].took = {}
      <4>1. CASE u = t
        BY <2>2, <2>3, <4>1
      <4>2. CASE u # t
        <5>1. /\ loc[u].took \cap claimed = {} /\ loc[u].took \cap loc[t].took = {}
              /\ \A k \in Keys : store[k] \notin loc[u].took
              /\ \A w \in Threads \ {u} : loc[u].took \cap loc[w].took = {}
          BY <4>2 DEF Inv, ClaimInv
        <5>2. loc'[u].took \cap claimed' = {} /\ \A k \in Keys : store'[k] \notin loc'[u].took
          BY <1>1, <1>5, <2>2, <4>2, <5>1
        <5>3. \A w \in Threads \ {u} : loc'[u].took \cap loc'[w].took = {}
          BY <2>2, <2>3, <4>2, <5>1
        <5> QED
          BY <5>2, <5>3
      <4> QED
        BY <4>1, <4>2
    <3> QED
      BY <3>1, <3>2, <3>3 DEF ClaimInv
  <2> QED
    BY <1>1, <1>3, <2>4, <2>6 DEF Inv, Evolves
<1> QED
  BY <1>4, <1>5 DEF Finish, Removes

(* No thread moves: the session is closed, a late call arrives or an entry *)
(* vanishes.                                                               *)
LEMMA EnvironmentInv ==
    ASSUME Inv, CloseSession \/ LateArrives \/ Vanish \/ UNCHANGED vars
    PROVE  Inv'
<1>1. UNCHANGED <<pc, loc, ops, res, claimed, gone>> /\ sclosed' \in BOOLEAN
  BY DEF CloseSession, LateArrives, Vanish, vars, Inv, OutcomeInv
<1>2. StoreInv
  BY DEF Inv
<1>3. Evolves
  <2>1. CASE CloseSession \/ UNCHANGED vars
    BY <1>2, <2>1, SameStore DEF CloseSession, vars
  <2>2. CASE LateArrives
    BY <1>2, <2>2, TakesEvolves DEF LateArrives
  <2>3. CASE Vanish
    BY <1>2, <2>3, Loses DEF Vanish
  <2> QED
    BY <2>1, <2>2, <2>3
<1>4. 1 .. written \subseteq 1 .. written' /\ StoreInv'
  BY <1>2, <1>3 DEF Evolves, StoreInv
<1>5. OutcomeInv'
  <2>1. late' \subseteq late
    BY DEF CloseSession, LateArrives, Vanish, vars
  <2> QED
    BY <1>1, <2>1 DEF Inv, OutcomeInv, RetryHintSound
<1>6. ControlInv'
  <2>1. \A t \in Threads : DoomedAt(pc[t], loc[t], store')
    BY <1>2, <1>3, DoomedKept DEF Inv, ControlInv
  <2> QED
    BY <1>1, <1>4, <2>1 DEF Inv, ControlInv
<1>7. ClaimInv'
  <2>1. claimed \cup gone \subseteq 1 .. written /\ \A k \in Keys : store[k] \notin claimed \cup gone
    BY DEF Inv, ClaimInv
  <2>2. \A k \in Keys : store'[k] \notin claimed \cup gone
    BY <1>2, <1>3, <2>1, StaysOut
  <2>3. \A t \in Threads : \A k \in Keys : store'[k] \notin loc[t].took
    <3> SUFFICES ASSUME NEW t \in Threads, NEW k \in Keys PROVE store'[k] \notin loc[t].took
      OBVIOUS
    <3>1. loc[t].took \subseteq 1 .. written /\ store[k] \notin loc[t].took
      BY DEF Inv, ControlInv, ClaimInv
    <3> QED
      BY <1>2, <1>3, <3>1, StaysOut
  <2> QED
    BY <1>1, <1>4, <2>1, <2>2, <2>3 DEF Inv, ClaimInv
<1> QED
  BY <1>4, <1>5, <1>6, <1>7 DEF Inv

(* The keys are finitely many, so they can have an entry each. *)
LEMMA FirstEntriesDistinct ==
    /\ Cardinality(Keys) \in Nat
    /\ FirstEntries \in [Keys -> 1 .. Cardinality(Keys)]
    /\ \A j, k \in Keys : FirstEntries[j] = FirstEntries[k] => j = k
<1>1. Cardinality(Keys) \in Nat /\ ExistsBijection(1 .. Cardinality(Keys), Keys)
  BY SessionAssumption, FS_CardinalityType
<1>2. ExistsBijection(Keys, 1 .. Cardinality(Keys))
  BY <1>1, Fun_ExistsBijSymmetric
<1>3. Injection(Keys, 1 .. Cardinality(Keys)) # {}
  BY <1>2 DEF ExistsBijection, Bijection
<1>4. FirstEntries \in Injection(Keys, 1 .. Cardinality(Keys))
  BY <1>3, Zenon DEF FirstEntries
<1> QED
  BY <1>1, <1>4 DEF Injection, IsInjective

(* Every key has its entry, no request was made. *)
LEMMA InitInv == Init => Inv
<1> SUFFICES ASSUME Init PROVE Inv
  OBVIOUS
<1>1. StoreInv
  BY FirstEntriesDistinct DEF Init, StoreInv
<1>2. /\ At("idle", NoLocals) /\ \A s : DoomedAt("idle", NoLocals, s)
      /\ NoLocals.took = {} /\ NoLocals.doomed = {}
  BY IdleAt
<1>3. \A t \in Threads : pc[t] = "idle" /\ loc[t] = NoLocals
  BY DEF Init
<1>4. ControlInv
  <2>1. NoLocals \in Locals /\ "idle" \in Places
    BY <1>2 DEF At
  <2>2. pc \in [Threads -> Places] /\ loc \in [Threads -> Locals]
    BY <2>1 DEF Init
  <2> QED
    BY <1>2, <1>3, <2>2 DEF ControlInv
<1>5. ClaimInv
  BY <1>2, <1>3 DEF Init, ClaimInv
<1>6. OutcomeInv
  <2>1. NoResult \in Results /\ NoResult.fault = "none"
    BY DEF NoResult, Results, Codes
  <2>2. 0 \in 0 .. MaxOps
    BY SessionAssumption
  <2> QED
    BY <2>1, <2>2 DEF Init, OutcomeInv, RetryHintSound
<1> QED
  BY <1>1, <1>4, <1>5, <1>6 DEF Inv

(* Every step keeps the invariant. *)
LEMMA NextInv == Inv /\ [Next]_vars => Inv'
<1> SUFFICES ASSUME Inv, [Next]_vars PROVE Inv'
  OBVIOUS
<1>1. ASSUME NEW t \in Threads, Submit(t) \/ Step(t) PROVE Inv'
  BY <1>1, SubmitInv, ValidateInv, WriteFailsInv, CallOneInv, InvalidateKeyInv,
     InvalidateDoneInv, CallFailsInv, FinishInv DEF Step
<1> QED
  BY <1>1, EnvironmentInv DEF Next, Finished

(* The invariant holds in every state. *)
LEMMA Invariance == Spec => []Inv
BY InitInv, NextInv, PTL DEF Spec

(* Types and bounds hold for any keys, key lists and batch bound: an       *)
(* invalidate never sends more than MaxBatch deletes.                      *)
THEOREM TypeCorrect == Spec => []TypeOK
<1>1. Inv => TypeOK
  <2> SUFFICES ASSUME Inv PROVE TypeOK
    OBVIOUS
  <2>1. ASSUME NEW t \in Threads
        PROVE  loc[t].i \in 1 .. MaxBatch + 1 /\ loc[t].count \in 0 .. MaxBatch
    <3>1. At(pc[t], loc[t]) /\ loc[t] \in Locals
      BY DEF Inv, ControlInv
    <3>2. loc[t].count \in Nat /\ loc[t].i \in Nat /\ MaxBatch \in Nat \ {0}
      BY <3>1, SessionAssumption DEF Locals
    <3>3. CASE pc[t] = "idle"
      <4>1. loc[t].i = 1 /\ loc[t].count = 0
        BY <3>1, <3>3 DEF At, RequestAt, NoLocals
      <4> QED
        BY <3>2, <4>1
    <3>4. CASE pc[t] # "idle" /\ loc[t].took = {} /\ loc[t].i = 1
      <4>1. loc[t].count = 0
        BY <3>1, <3>4, FS_EmptySet DEF At
      <4> QED
        BY <3>2, <3>4, <4>1
    <3>5. CASE pc[t] = "call" /\ loc[t].req.contract = "invalidate"
      BY <3>1, <3>2, <3>5 DEF At, RequestAt, ProgressAt
    <3>6. CASE pc[t] = "finish"
      BY <3>1, <3>6 DEF At, ProgressAt
    <3> QED
      BY <3>1, <3>3, <3>4, <3>5, <3>6 DEF At, ProgressAt, Places
  <2> QED
    BY <2>1 DEF Inv, StoreInv, ControlInv, ClaimInv, OutcomeInv, Places, Results, TypeOK
<1> QED
  BY <1>1, Invariance, PTL

(* An entry a successful delete or invalidate was to remove never comes    *)
(* back, for any number of threads, keys, late calls and expiries.         *)
THEOREM InvalidatedStaysGoneHolds == Spec => []InvalidatedStaysGone
<1>1. Inv => InvalidatedStaysGone
  BY DEF Inv, ClaimInv, InvalidatedStaysGone
<1> QED
  BY <1>1, Invariance, PTL

(* Deletes and invalidates count exactly the entries they removed, each    *)
(* entry once, however they overlap.                                       *)
THEOREM RemovalsClaimedOnceHolds == Spec => []RemovalsClaimedOnce
<1>1. Inv => RemovalsClaimedOnce
  BY DEF Inv, ControlInv, ClaimInv, At, RemovalsClaimedOnce
<1> QED
  BY <1>1, Invariance, PTL

(* The retry hint is right for every exception class of the client         *)
(* library.                                                                *)
THEOREM RetryHintSoundHolds == Spec => []RetryHintSound
<1>1. Inv => RetryHintSound
  BY DEF Inv, OutcomeInv
<1> QED
  BY <1>1, Invariance, PTL

-----------------------------------------------------------------------------
(* Refusals. *)

(* A step of thread t refuses nothing, or refuses a request that changed   *)
(* nothing.                                                                *)
CleanAt(t) ==
    \/ res'[t] = res[t]
    \/ res'[t].out \notin Refusals
    \/ res'[t].out = "key" /\ loc[t].req.contract = "invalidate"
    \/ store' = store /\ loc[t].i = 1 /\ pc[t] # "finish"

(* The outcome a thread was given. *)
LEMMA OutcomeIs ==
    ASSUME Inv, NEW t \in Threads, NEW k, NEW retry, NEW fault, Outcome(t, k, retry, fault)
    PROVE  res'[t].out = k /\ \A u \in Threads \ {t} : res'[u] = res[u]
<1>1. res \in [Threads -> Results]
  BY DEF Inv, OutcomeInv
<1> QED
  BY <1>1 DEF Outcome

(* A request is found wrong before its first call. *)
LEMMA ValidateClean ==
    ASSUME Inv, NEW t \in Threads, Validate(t)
    PROVE  CleanAt(t) /\ \A u \in Threads \ {t} : res'[u] = res[u]
<1>1. pc[t] = "validate" /\ store' = store
  BY DEF Validate
<1>2. loc[t].i = 1
  BY <1>1 DEF Inv, ControlInv, At, ProgressAt
<1>3. res' = res \/ \E k : Outcome(t, k, FALSE, "none")
  BY Zenon DEF Validate, Reject
<1> QED
  BY <1>1, <1>2, <1>3, OutcomeIs DEF CleanAt

(* compare_and_set computes its TTL before it writes; a write that took    *)
(* effect is never refused for what it asked.                              *)
LEMMA WriteFailsClean ==
    ASSUME Inv, NEW t \in Threads, SwapRejected(t) \/ WriteOutlived(t)
    PROVE  CleanAt(t) /\ \A u \in Threads \ {t} : res'[u] = res[u]
<1>1. CASE SwapRejected(t)
  <2>1. pc[t] = "call" /\ loc[t].req.contract # "invalidate" /\ store' = store
    BY <1>1 DEF SwapRejected, SwapFaulty
  <2>2. loc[t].i = 1
    BY <2>1 DEF Inv, ControlInv, At, ProgressAt
  <2>3. \E k : Outcome(t, k, FALSE, "none")
    BY <1>1, Zenon DEF SwapRejected, Reject
  <2> QED
    BY <2>1, <2>2, <2>3, OutcomeIs DEF CleanAt
<1>2. CASE WriteOutlived(t)
  <2>1. Outcome(t, "invalid", FALSE, "none")
    BY <1>2, Zenon DEF WriteOutlived, Reject
  <2>2. res'[t].out = "invalid" /\ \A u \in Threads \ {t} : res'[u] = res[u]
    BY <2>1, OutcomeIs
  <2>3. "invalid" \notin Refusals
    BY DEF Refusals
  <2> QED
    BY <2>2, <2>3 DEF CleanAt
<1> QED
  BY <1>1, <1>2

(* An invalidate of a Resource that is not placed is refused at its first  *)
(* key.                                                                    *)
LEMMA InvalidateKeyClean ==
    ASSUME Inv, NEW t \in Threads, InvalidateKey(t)
    PROVE  CleanAt(t) /\ \A u \in Threads \ {t} : res'[u] = res[u]
<1>1. pc[t] = "call" /\ loc[t].req.contract = "invalidate"
  BY DEF InvalidateKey
<1>2. CASE "resource" \in loc[t].req.defects /\ Outcome(t, "placement", FALSE, "none") /\ store' = store
  <2>1. loc[t].i = 1
    BY <1>1, <1>2 DEF Inv, ControlInv, At, ProgressAt
  <2> QED
    BY <1>1, <1>2, <2>1, OutcomeIs DEF CleanAt
<1>3. CASE Outcome(t, "key", FALSE, "none")
  BY <1>1, <1>3, OutcomeIs DEF CleanAt
<1>4. CASE res' = res
  BY <1>4 DEF CleanAt
<1> QED
  BY <1>2, <1>3, <1>4, Zenon DEF InvalidateKey, Reject

(* No engine error is reported as a refusal. *)
LEMMA CallFailsClean ==
    ASSUME Inv, NEW t \in Threads, CallFails(t)
    PROVE  CleanAt(t) /\ \A u \in Threads \ {t} : res'[u] = res[u]
<1>1. PICK c \in Errors : \/ res' = [res EXCEPT ![t].out = "degraded"]
                          \/ Outcome(t, Translate(c).code, Translate(c).retry, c)
  BY DEF CallFails
<1>2. CASE res' = [res EXCEPT ![t].out = "degraded"]
  <2>1. res \in [Threads -> Results] /\ res[t] \in Results
    BY DEF Inv, OutcomeInv
  <2>2. res'[t] = [res[t] EXCEPT !.out = "degraded"] /\ \A u \in Threads \ {t} : res'[u] = res[u]
    BY <1>2, <2>1
  <2>3. res'[t].out = "degraded"
    BY <2>1, <2>2 DEF Results
  <2> QED
    BY <2>2, <2>3 DEF CleanAt, Refusals
<1>3. CASE Outcome(t, Translate(c).code, Translate(c).retry, c)
  <2>1. Translate(c).code \notin Refusals
    BY Hints, SessionAssumption
  <2> QED
    BY <1>3, <2>1, OutcomeIs DEF CleanAt
<1> QED
  BY <1>1, <1>2, <1>3

(* The end of a request is no refusal, its submission neither. *)
LEMMA OtherClean ==
    ASSUME Inv, NEW t \in Threads,
           Submit(t) \/ CallOne(t) \/ InvalidateDone(t) \/ Finish(t)
    PROVE  CleanAt(t) /\ \A u \in Threads \ {t} : res'[u] = res[u]
<1>1. CASE CallOne(t) \/ InvalidateDone(t)
  BY <1>1 DEF CallOne, InvalidateDone, CleanAt
<1>2. CASE Submit(t)
  <2>1. res' = [res EXCEPT ![t] = NoResult] /\ res \in [Threads -> Results]
    BY <1>2 DEF Submit, Inv, OutcomeInv
  <2>2. res'[t] = NoResult /\ \A u \in Threads \ {t} : res'[u] = res[u]
    BY <2>1
  <2> QED
    BY <2>2 DEF CleanAt, NoResult, Refusals
<1>3. CASE Finish(t)
  <2>1. \E k \in {"ok", "degraded", "limit"} : Outcome(t, k, FALSE, "none")
    BY <1>3 DEF Finish, Reject
  <2> QED
    BY <2>1, OutcomeIs DEF CleanAt, Refusals
<1> QED
  BY <1>1, <1>2, <1>3

(* A request refused for what it asks changed nothing, whichever check     *)
(* found it; only an invalidate with a malformed later key leaves the keys *)
(* before it deleted.                                                      *)
THEOREM CleanRefusalHolds == Spec => CleanRefusal
<1>1. ASSUME Inv, [Next]_vars, NEW t \in Threads PROVE CleanAt(t)
  <2>1. ASSUME NEW u \in Threads, Submit(u) \/ Step(u) PROVE CleanAt(t)
    <3>1. CleanAt(u) /\ \A w \in Threads \ {u} : res'[w] = res[w]
      BY <1>1, <2>1, ValidateClean, WriteFailsClean, InvalidateKeyClean, CallFailsClean,
         OtherClean DEF Step
    <3> QED
      BY <3>1 DEF CleanAt
  <2>2. CASE CloseSession \/ LateArrives \/ Vanish \/ UNCHANGED vars
    BY <2>2 DEF CloseSession, LateArrives, Vanish, vars, CleanAt
  <2> QED
    BY <1>1, <2>1, <2>2 DEF Next, Finished
<1> DEFINE Clean ==
      \A t \in Threads :
         /\ res'[t] # res[t]
         /\ \/ res'[t].out \in {"closed", "scope", "unsupported", "placement", "config"}
            \/ res'[t].out = "key" /\ loc[t].req.contract # "invalidate"
         => store' = store /\ loc[t].i = 1 /\ pc[t] # "finish"
<1>2. Inv /\ [Next]_vars => Clean
  BY <1>1 DEF CleanAt, Refusals
<1>3. Inv /\ [Next]_vars => [Clean]_vars
  BY <1>2
<1> QED
  BY <1>3, Invariance, PTL DEF Spec, CleanRefusal
=============================================================================
