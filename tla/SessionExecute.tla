--------------------------- MODULE SessionExecute ---------------------------
(***************************************************************************)
(* ValkeyAdapterSession.execute: validation, dispatch to the cache, result *)
(* limit and error translation, by several threads on one session, over    *)
(* several keys.  A call of ValkeyCache is one step here (CacheOps shows   *)
(* that it takes effect atomically, at most once); invalidate is a         *)
(* sequence of such calls.  A failed call may never take effect or take    *)
(* effect later.  The engine may lose entries but is not replaced by a     *)
(* lagging replica, which could bring a removed one back.                  *)
(***************************************************************************)
EXTENDS Integers, Sequences, FiniteSets, SequencesExt, FiniteSetsExt

CONSTANTS
    Threads,    \* threads sharing the session
    Keys,       \* logical keys
    BadKey,     \* a logical key that is null or an object
    MaxBatch,   \* limits.maxBatchSize
    Contracts,  \* contracts the threads use
    Selectors,  \* key lists the threads invalidate
    Defects,    \* what may be wrong with a request
    Errors,     \* exception classes the client library raises
    MaxOps,     \* bound: requests of each thread
    MaxLate     \* bound: abandoned commands on their way at once

AllContracts == {"get", "put", "put_if_absent", "compare_and_set", "delete", "invalidate"}
Writes == {"put", "put_if_absent", "compare_and_set"}

AllDefects == {"binding", "shape", "version", "resource", "value", "ttl", "source",
               "ttlbound", "size"}

-----------------------------------------------------------------------------
(* Error translation. *)

(* The client library's exception classes and their bases. *)
Bases == [AuthenticationError   |-> {"ConnectionError"},
          AuthorizationError    |-> {"ConnectionError"},
          BusyLoadingError      |-> {"ConnectionError"},
          MaxConnectionsError   |-> {"ConnectionError"},
          ConnectionError       |-> {},
          TimeoutError          |-> {},
          WatchError            |-> {},
          DataError             |-> {},
          NoPermissionError     |-> {"ResponseError"},
          OutOfMemoryError      |-> {"ResponseError"},
          ReadOnlyError         |-> {"ResponseError"},
          TryAgainError         |-> {"ResponseError"},
          ClusterCrossSlotError |-> {"ResponseError"},
          ClusterDownError      |-> {"ResponseError"},
          MasterDownError       |-> {"ClusterDownError", "ResponseError"},
          ResponseError         |-> {},
          OtherError            |-> {}]

ASSUME SessionAssumption ==
    /\ IsFiniteSet(Keys) /\ BadKey \notin Keys
    /\ MaxBatch \in Nat \ {0}
    /\ Contracts \subseteq AllContracts /\ Defects \subseteq AllDefects
    /\ Selectors \subseteq Seq(Keys \cup {BadKey})
    /\ Errors \subseteq DOMAIN Bases
    /\ MaxOps \in Nat /\ MaxLate \in Nat

IsInstance(c, classes) == ({c} \cup Bases[c]) \cap classes # {}

Rule(classes, code, retry) == [classes |-> classes, code |-> code, retry |-> retry]

AuthenticationRule == Rule({"AuthenticationError"}, "authentication", FALSE)
AuthorizationRule  == Rule({"AuthorizationError", "NoPermissionError"}, "authorization", FALSE)
TimeoutRule        == Rule({"TimeoutError"}, "timeout", TRUE)
CrossSlotRule      == Rule({"ClusterCrossSlotError"}, "cross slot", FALSE)
ConflictRule       == Rule({"WatchError"}, "conflict", TRUE)
CapacityRule       == Rule({"MaxConnectionsError", "OutOfMemoryError"}, "capacity", TRUE)
UnavailableRule    == Rule({"BusyLoadingError", "ClusterDownError", "ConnectionError",
                            "MasterDownError", "ReadOnlyError", "TryAgainError"},
                           "unavailable", TRUE)
RejectedRule       == Rule({"DataError", "ResponseError"}, "rejected", FALSE)

(* translate_engine_error's isinstance tests, in their order; subclasses   *)
(* have to come before their bases.                                        *)
TranslationUnavailableFirst ==
    <<UnavailableRule, AuthenticationRule, AuthorizationRule, TimeoutRule, CrossSlotRule,
      ConflictRule, CapacityRule, RejectedRule>>

Translation ==
    <<AuthenticationRule, AuthorizationRule, TimeoutRule, CrossSlotRule, ConflictRule,
      CapacityRule, UnavailableRule, RejectedRule>>

Translate(c) ==
    LET matching == {i \in DOMAIN Translation : IsInstance(c, Translation[i].classes)}
    IN  IF matching = {} THEN Rule({}, "internal", FALSE) ELSE Translation[Min(matching)]

-----------------------------------------------------------------------------
VARIABLES
    store,    \* engine: the entry's identity of each key, 0 when absent
    written,  \* number of entries written so far; also the latest identity
    sclosed,  \* the session's _closed
    late,     \* cache calls whose caller saw an error, not executed yet
    pc, loc,  \* control point and locals of each thread
    ops, res, \* requests begun by each thread, outcome of the latest one
    claimed,  \* ghost: entries whose removal a finished request reported
    gone      \* ghost: entries a finished delete or invalidate was to remove

vars == <<store, written, sclosed, late, pc, loc, ops, res, claimed, gone>>

NoRequest == [contract |-> "none", keys |-> <<>>, expect |-> 0, defects |-> {}]

(* i: next key of an invalidate; count: removals so far; took: ghost, the  *)
(* entries the request's DELs removed; doomed: ghost, the entries of the   *)
(* request's keys when it was submitted.                                   *)
NoLocals == [req |-> NoRequest, i |-> 1, count |-> 0, took |-> {}, doomed |-> {}]

(* fault: ghost, the exception the outcome stands for. *)
NoResult == [out |-> "none", retry |-> FALSE, fault |-> "none"]

Codes == {"none", "ok", "closed", "scope", "unsupported", "invalid", "placement",
          "config", "key", "limit", "degraded", "internal"}
         \cup {Translation[i].code : i \in DOMAIN Translation}

Move(t, l, r) ==
    /\ pc' = [pc EXCEPT ![t] = l]
    /\ loc' = [loc EXCEPT ![t] = r]

Outcome(t, k, retry, fault) ==
    /\ Move(t, "idle", NoLocals)
    /\ res' = [res EXCEPT ![t] = [out |-> k, retry |-> retry, fault |-> fault]]

Reject(t, k) == Outcome(t, k, FALSE, "none")

KeyLists(contract) ==
    IF contract = "invalidate"
    THEN Selectors
    ELSE {<<k>> : k \in Keys \cup {BadKey}}

(* The checks each contract makes before its first engine command, in      *)
(* order; the last two of compare_and_set come after its GET.              *)
Checks(contract) ==
    <<"binding", "shape">> \o
    CASE contract \in {"get", "delete"} -> <<"resource", "key">>
      [] contract \in {"put", "put_if_absent"} ->
            <<"resource", "value", "ttl", "source", "key", "ttlbound", "size">>
      [] contract = "compare_and_set" -> <<"version", "resource", "value", "ttl", "key">>
      [] contract = "invalidate" -> <<"selector">>

(* The defects a request of the contract can have. *)
Carries(contract) ==
    ToSet(Checks(contract)) \cup
    CASE contract = "compare_and_set" -> {"ttlbound", "size"}
      [] contract = "invalidate"      -> {"resource"}
      [] OTHER                        -> {}

(* compare_and_set expects some entry written before; a request is wrong   *)
(* only in what its contract carries.                                      *)
Submit(t) ==
    /\ pc[t] = "idle" /\ ops[t] < MaxOps
    /\ \E c \in Contracts : \E d \in {{}} \cup {{x} : x \in Defects \cap Carries(c)} :
       \E ks \in KeyLists(c), e \in IF c = "compare_and_set" THEN 0 .. written ELSE {0} :
          Move(t, "validate",
               [NoLocals EXCEPT
                  !.req = [contract |-> c, keys |-> ks, expect |-> e, defects |-> d],
                  !.doomed = {store[k] : k \in ToSet(ks) \cap Keys} \ {0}])
    /\ ops' = [ops EXCEPT ![t] = @ + 1]
    /\ res' = [res EXCEPT ![t] = NoResult]
    /\ UNCHANGED <<store, written, sclosed, late, claimed, gone>>

(* The selector names one key or a non-empty list within the batch bound. *)
SelectorOKUnbounded(ks) == Len(ks) >= 1

SelectorOK(ks) == Len(ks) \in 1 .. MaxBatch

(* What is wrong with the request, the keys and the selector included. *)
Wrong(r) ==
    r.defects \cup (IF BadKey \in ToSet(r.keys) THEN {"key"} ELSE {})
              \cup (IF SelectorOK(r.keys) THEN {} ELSE {"selector"})

ErrorFor(d) ==
    CASE d = "binding"  -> "scope"
      [] d = "shape"    -> "unsupported"
      [] d = "resource" -> "placement"
      [] d = "ttlbound" -> "config"
      [] d = "key"      -> "key"        \* a ValueError, not a Meridian error
      [] OTHER          -> "invalid"

(* execute up to the first engine command. *)
Validate(t) ==
    /\ pc[t] = "validate"
    /\ LET r      == loc[t].req
           checks == Checks(r.contract)
           failed == {i \in DOMAIN checks : checks[i] \in Wrong(r)}
       IN  \/ sclosed /\ Reject(t, "closed")
           \/ ~ sclosed /\ failed # {} /\ Reject(t, ErrorFor(checks[Min(failed)]))
           \/ ~ sclosed /\ failed = {} /\ Move(t, "call", loc[t]) /\ UNCHANGED res
    /\ UNCHANGED <<store, written, sclosed, late, ops, claimed, gone>>

-----------------------------------------------------------------------------
(* Calls of the cache. *)

Call(r, k) == [contract |-> r.contract, key |-> k, expect |-> r.expect]

(* Call x changes its key now. *)
Applies(x) ==
    CASE x.contract = "put" -> TRUE
      [] x.contract = "put_if_absent" -> store[x.key] = 0
      [] x.contract = "compare_and_set" -> store[x.key] # 0 /\ store[x.key] = x.expect
      [] x.contract \in {"delete", "invalidate"} -> store[x.key] # 0
      [] OTHER -> FALSE

Takes(x) ==
    /\ written' = IF Applies(x) /\ x.contract \in Writes THEN written + 1 ELSE written
    /\ store' = [store EXCEPT ![x.key] = IF ~ Applies(x) THEN @
                                         ELSE IF x.contract \in Writes THEN written' ELSE 0]

(* ValkeyCache.delete: DEL's reply, the number of keys it removed. *)
DeletedAlways(x) == 1

Deleted(x) == IF Applies(x) THEN 1 ELSE 0

Took(x) == IF Applies(x) THEN {store[x.key]} ELSE {}

(* compare_and_set finds the expected version and only then computes the   *)
(* TTL and encodes.                                                        *)
SwapFaulty(r) ==
    /\ r.contract = "compare_and_set" /\ r.defects \cap {"ttlbound", "size"} # {}
    /\ Applies(Call(r, Head(r.keys)))

SwapRejectedLate(t) ==
    /\ pc[t] = "call" /\ SwapFaulty(loc[t].req)
    /\ Takes(Call(loc[t].req, Head(loc[t].req.keys)))
    /\ Reject(t, ErrorFor(IF "ttlbound" \in loc[t].req.defects THEN "ttlbound" ELSE "size"))
    /\ UNCHANGED <<sclosed, late, ops, claimed, gone>>

SwapRejected(t) ==
    /\ pc[t] = "call" /\ SwapFaulty(loc[t].req)
    /\ Reject(t, ErrorFor(IF "ttlbound" \in loc[t].req.defects THEN "ttlbound" ELSE "size"))
    /\ UNCHANGED <<store, written, sclosed, late, ops, claimed, gone>>

(* get, put, put_if_absent, compare_and_set, delete. *)
CallOne(t) ==
    /\ pc[t] = "call" /\ loc[t].req.contract # "invalidate"
    /\ ~ SwapFaulty(loc[t].req)
    /\ LET x == Call(loc[t].req, Head(loc[t].req.keys))
       IN  /\ Takes(x)
           /\ Move(t, "finish", [loc[t] EXCEPT
                 !.count = IF x.contract = "delete" THEN Deleted(x) ELSE 0,
                 !.took = IF x.contract = "delete" THEN Took(x) ELSE {}])
    /\ UNCHANGED <<sclosed, late, ops, res, claimed, gone>>

(* A write whose envelope expired before the cache decoded it again: the   *)
(* EnvelopeError is reported like a bad value, after the effect.           *)
WriteOutlived(t) ==
    /\ pc[t] = "call" /\ loc[t].req.contract \in Writes
    /\ ~ SwapFaulty(loc[t].req)
    /\ LET x == Call(loc[t].req, Head(loc[t].req.keys))
       IN  (Applies(x) \/ x.contract = "put_if_absent") /\ Takes(x)
    /\ Reject(t, "invalid")
    /\ UNCHANGED <<sclosed, late, ops, claimed, gone>>

(* invalidate: sum of the deletes of its keys, one after the other; the    *)
(* policy and each key are only checked when its turn comes.               *)
LastKeySkipped(r) == Len(r.keys) - 1

LastKey(r) == Len(r.keys)

InvalidateKey(t) ==
    /\ pc[t] = "call" /\ loc[t].req.contract = "invalidate" /\ loc[t].i <= LastKey(loc[t].req)
    /\ LET r == loc[t].req
           k == r.keys[loc[t].i]
       IN  \/ /\ "resource" \in r.defects
              /\ Reject(t, "placement")
              /\ UNCHANGED <<store, written>>
           \/ /\ "resource" \notin r.defects /\ k = BadKey
              /\ Reject(t, "key")
              /\ UNCHANGED <<store, written>>
           \/ /\ "resource" \notin r.defects /\ k # BadKey
              /\ Takes(Call(r, k))
              /\ Move(t, "call", [loc[t] EXCEPT !.i = @ + 1, !.count = @ + Deleted(Call(r, k)),
                                               !.took = @ \cup Took(Call(r, k))])
              /\ UNCHANGED res
    /\ UNCHANGED <<sclosed, late, ops, claimed, gone>>

InvalidateDone(t) ==
    /\ pc[t] = "call" /\ loc[t].req.contract = "invalidate" /\ loc[t].i > LastKey(loc[t].req)
    /\ Move(t, "finish", loc[t])
    /\ UNCHANGED <<store, written, sclosed, late, ops, res, claimed, gone>>

(* The client library raises.  A get becomes a degraded miss, everything   *)
(* else is translated; what an invalidate removed so far is not reported.  *)
CallFails(t) ==
    /\ pc[t] = "call"
    /\ loc[t].i <= LastKey(loc[t].req) /\ loc[t].req.keys[loc[t].i] # BadKey
    /\ ~ ("resource" \in loc[t].req.defects)
    /\ \E c \in Errors :
          IF loc[t].req.contract = "get"
          THEN Move(t, "finish", loc[t]) /\ res' = [res EXCEPT ![t].out = "degraded"]
          ELSE Outcome(t, Translate(c).code, Translate(c).retry, c)
    /\ \/ UNCHANGED late
       \/ /\ Cardinality(late) < MaxLate /\ loc[t].req.contract # "get"
          /\ late' = late \cup {Call(loc[t].req, loc[t].req.keys[loc[t].i])}
    /\ UNCHANGED <<store, written, sclosed, ops, claimed, gone>>

(* The result of any contract is measured, and refused above               *)
(* max_result_bytes although the cache may have changed.                   *)
Finish(t) ==
    /\ pc[t] = "finish"
    /\ \/ /\ Outcome(t, IF res[t].out = "degraded" THEN "degraded" ELSE "ok", FALSE, "none")
          /\ claimed' = claimed \cup loc[t].took
          /\ gone' = IF loc[t].req.contract \in {"delete", "invalidate"}
                     THEN gone \cup loc[t].doomed ELSE gone
       \/ Reject(t, "limit") /\ UNCHANGED <<claimed, gone>>
    /\ UNCHANGED <<store, written, sclosed, late, ops>>

-----------------------------------------------------------------------------
CloseSession ==
    /\ ~ sclosed
    /\ sclosed' = TRUE
    /\ UNCHANGED <<store, written, late, pc, loc, ops, res, claimed, gone>>

LateArrives ==
    /\ \E x \in late : Takes(x) /\ late' = late \ {x}
    /\ UNCHANGED <<sclosed, pc, loc, ops, res, claimed, gone>>

(* An entry expires or is evicted. *)
Vanish ==
    /\ \E k \in Keys : store[k] # 0 /\ store' = [store EXCEPT ![k] = 0]
    /\ UNCHANGED <<written, sclosed, late, pc, loc, ops, res, claimed, gone>>

Finished ==
    /\ \A t \in Threads : pc[t] = "idle" /\ ops[t] = MaxOps
    /\ UNCHANGED vars

(* Every key holds an entry of its own. *)
FirstEntries == CHOOSE s \in Injection(Keys, 1 .. Cardinality(Keys)) : TRUE

Init ==
    /\ store = FirstEntries
    /\ written = Cardinality(Keys)
    /\ sclosed = FALSE /\ late = {}
    /\ pc = [t \in Threads |-> "idle"]
    /\ loc = [t \in Threads |-> NoLocals]
    /\ ops = [t \in Threads |-> 0]
    /\ res = [t \in Threads |-> NoResult]
    /\ claimed = {} /\ gone = {}

Step(t) ==
    \/ Validate(t) \/ SwapRejected(t) \/ CallOne(t) \/ WriteOutlived(t)
    \/ InvalidateKey(t) \/ InvalidateDone(t) \/ CallFails(t) \/ Finish(t)

Next ==
    \/ \E t \in Threads : Submit(t) \/ Step(t)
    \/ CloseSession \/ LateArrives \/ Vanish
    \/ Finished

Spec == Init /\ [][Next]_vars

-----------------------------------------------------------------------------
(* Every variable keeps its type; an invalidate never sends more than      *)
(* MaxBatch deletes.                                                       *)
TypeOK ==
    /\ store \in [Keys -> 0 .. written]
    /\ written \in Nat
    /\ sclosed \in BOOLEAN
    /\ \A x \in late : x.contract \in Contracts /\ x.key \in Keys
    /\ pc \in [Threads -> {"idle", "validate", "call", "finish"}]
    /\ \A t \in Threads : /\ loc[t].i \in 1 .. MaxBatch + 1
                          /\ loc[t].count \in 0 .. MaxBatch
                          /\ loc[t].doomed \cup loc[t].took \subseteq 1 .. written
    /\ ops \in [Threads -> 0 .. MaxOps]
    /\ res \in [Threads -> [out : Codes, retry : BOOLEAN,
                            fault : DOMAIN Bases \cup {"none"}]]
    /\ claimed \cup gone \subseteq 1 .. written

(* After a delete or invalidate that reported success, no entry its keys   *)
(* held when it was submitted is in the cache, whatever the other threads, *)
(* late commands and failed requests did meanwhile.                        *)
InvalidatedStaysGone == \A k \in Keys : store[k] \notin gone

(* Concurrent deletes and invalidates, also of the same key twice, count   *)
(* the entries they removed and no others, and no entry's removal is       *)
(* counted by two requests.                                                *)
RemovalsClaimedOnce ==
    \A t \in Threads :
       /\ loc[t].count = Cardinality(loc[t].took)
       /\ loc[t].took \cap claimed = {}
       /\ \A u \in Threads \ {t} : loc[t].took \cap loc[u].took = {}

(* A request refused for what it asks (session closed, scope, shape,       *)
(* placement, TTL bound, key) changed nothing, in whichever of its checks  *)
(* or calls that was found; the exception is an invalidate whose later key *)
(* is malformed, which leaves the keys before it deleted.                  *)
CleanRefusal ==
    [][\A t \in Threads :
         /\ res'[t] # res[t]
         /\ \/ res'[t].out \in {"closed", "scope", "unsupported", "placement", "config"}
            \/ res'[t].out = "key" /\ loc[t].req.contract # "invalidate"
         => store' = store /\ loc[t].i = 1 /\ pc[t] # "finish"]_vars

Transient == {"TimeoutError", "WatchError", "MaxConnectionsError", "OutOfMemoryError",
              "BusyLoadingError", "ClusterDownError", "ConnectionError", "MasterDownError",
              "ReadOnlyError", "TryAgainError"}

(* A failed request is marked retryable exactly when the engine's error is *)
(* transient: a rejected identity or permission, although the client       *)
(* library derives them from its connection and response errors, is not.   *)
RetryHintSound ==
    \A t \in Threads : res[t].fault # "none" => (res[t].retry <=> res[t].fault \in Transient)
=============================================================================
