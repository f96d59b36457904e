-------------------------- MODULE RuntimeLifecycle --------------------------
(***************************************************************************)
(* ValkeyAdapterRuntime used by several threads: open, probe, the uses of  *)
(* an open runtime, and close.  The runtime has no lock, so every read and *)
(* write of its fields _closed, _opened and _manifest is a step of its     *)
(* own, and so is every command ValkeyProbe.probe sends; the engine can be *)
(* reconfigured, replaced or restarted between any two of them.            *)
(***************************************************************************)
EXTENDS Integers, Sequences, FiniteSets

CONSTANTS
    Threads,     \* threads sharing the runtime
    Versions,    \* engine releases
    Pinned,      \* release the Binding's version and fingerprint pins name
    Unfit,       \* facts the engine may fail the Binding's policy in
    Waived,      \* facts the Binding does not require
    NHandles,    \* handles to close: the client and one per Sentinel seed
    MaxOps,      \* bound: calls of each thread
    MaxChanges   \* bound: changes of the engine

(* The commands of one probe, each named for a fact it reads. *)
ProbeCommands == <<"ping", "server", "memory", "replication", "commands", "policy",
                   "appendonly", "save", "loadcas", "loadrelease", "exists">>

(* INFO memory tells two: that maxmemory is a number ("maxmemory"), and    *)
(* that it is a bound ("memory"), which a Binding may not require.         *)
Reads(k) == IF k = "memory" THEN {"memory", "maxmemory"} ELSE {k}

Facts == {ProbeCommands[i] : i \in DOMAIN ProbeCommands} \cup {"maxmemory"}

ASSUME RuntimeAssumption ==
    /\ Pinned \in Versions
    /\ Unfit \subseteq Facts \ {"exists"}
    /\ Waived \subseteq {"memory", "appendonly", "save"}
    /\ NHandles \in Nat \ {0} /\ MaxOps \in Nat /\ MaxChanges \in Nat

NoVersion == "no version"
ASSUME NoVersionAssumption == NoVersion \notin Versions

VARIABLES
    opened, closed, manifest, \* the runtime's fields; manifest: its release
    engine,   \* [version, bad, scripts]: release, failing facts, loaded scripts
    changes,  \* number of engine changes so far
    tried,    \* handles whose close was attempted
    pc, loc,  \* control point and locals of each thread
    ops, res  \* calls begun by each thread, outcome of the latest one

vars == <<opened, closed, manifest, engine, changes, tried, pc, loc, ops, res>>

Uses == {"session", "transaction", "verify", "cache"}
Operations == {"open", "probe", "close"} \cup Uses

(* step: next probe command or next handle; ver: release read; noted:      *)
(* facts read as failing and not judged yet; failed: a closer raised;      *)
(* late: ghost, the call began on a closed runtime; lasting: ghost, what   *)
(* was wrong with the engine during the whole probe so far.                *)
NoLocals == [op |-> "none", step |-> 1, ver |-> NoVersion, noted |-> {},
             failed |-> FALSE, late |-> FALSE, lasting |-> {}]

Pcs == {"idle", "closed?", "opened?", "probe", "compare", "publish", "published",
        "close?", "closing", "closing2", "handles"}

Outcomes == {"none", "ok", "closed", "state", "unsupported", "invalid",
             "unavailable", "incompatible", "headless", "raised"}

(* The manifest's fingerprint is a digest of the release and the Binding's *)
(* settings, which never change.                                           *)
Fingerprint(v) == <<"fingerprint", v>>

-----------------------------------------------------------------------------
Move(t, l, r) ==
    /\ pc' = [pc EXCEPT ![t] = l]
    /\ loc' = [loc EXCEPT ![t] = r]

Goto(t, l) == Move(t, l, loc[t])

Return(t, k) ==
    /\ Move(t, "idle", NoLocals)
    /\ res' = [res EXCEPT ![t] = k]

Begin(t) ==
    /\ pc[t] = "idle" /\ ops[t] < MaxOps
    /\ \E o \in Operations :
          Move(t, IF o = "close" THEN "close?" ELSE "closed?",
               [NoLocals EXCEPT !.op = o, !.late = closed])
    /\ ops' = [ops EXCEPT ![t] = @ + 1]
    /\ res' = [res EXCEPT ![t] = "none"]
    /\ UNCHANGED <<opened, closed, manifest, engine, changes, tried>>

(* _ensure_not_closed, of every call but close. *)
EnsureNotClosedSkipped(t) ==
    /\ pc[t] = "closed?"
    /\ Goto(t, "opened?")
    /\ UNCHANGED <<opened, closed, manifest, engine, changes, tried, ops, res>>

EnsureNotClosed(t) ==
    /\ pc[t] = "closed?"
    /\ \/ closed /\ Return(t, "closed")
       \/ ~ closed /\ Goto(t, "opened?") /\ UNCHANGED res
    /\ UNCHANGED <<opened, closed, manifest, engine, changes, tried, ops>>

(* What the probe about to start ought to find wrong. *)
Wrong == engine.bad \cup (IF engine.version = Pinned THEN {} ELSE {"version"})

StartProbe(t) == Move(t, "probe", [loc[t] EXCEPT !.lasting = Wrong]) /\ UNCHANGED res

(* open's early return and the rest of _ensure_open.  open_session refuses *)
(* transactions, verify_physical checks the Resources against settings.    *)
CheckOpened(t) ==
    /\ pc[t] = "opened?"
    /\ \/ loc[t].op = "open" /\ opened /\ Return(t, "ok")
       \/ loc[t].op = "open" /\ ~ opened /\ StartProbe(t)
       \/ loc[t].op # "open" /\ ~ opened /\ Return(t, "state")
       \/ loc[t].op = "probe" /\ opened /\ StartProbe(t)
       \/ loc[t].op \in {"session", "cache"} /\ opened /\ Return(t, "ok")
       \/ loc[t].op = "transaction" /\ opened /\ Return(t, "unsupported")
       \/ loc[t].op = "verify" /\ opened /\ \E k \in {"ok", "invalid"} : Return(t, k)
    /\ UNCHANGED <<opened, closed, manifest, engine, changes, tried, ops>>

-----------------------------------------------------------------------------
(* ValkeyProbe.probe. *)

(* The facts judged once a command has answered: what INFO says is read    *)
(* first and judged between the later commands.                            *)
JudgedMemoryForgotten(k) ==
    CASE k \in {"server", "memory", "appendonly"} -> {}
      [] k = "replication" -> {"server"}
      [] k = "commands" -> {"commands", "maxmemory"}
      [] k = "save" -> {"appendonly", "save", "replication"}
      [] OTHER -> {k}

Judged(k) ==
    CASE k \in {"server", "memory", "appendonly"} -> {}
      [] k = "replication" -> {"server"}
      [] k = "commands" -> {"commands", "maxmemory"}
      [] k = "policy" -> {"memory", "policy"}
      [] k = "save" -> {"appendonly", "save", "replication"}
      [] OTHER -> {k}

(* What the k-th command finds failing; SCRIPT EXISTS fails when a script  *)
(* is gone again since it was loaded.                                      *)
Failing(k) ==
    IF k = "exists" THEN (IF engine.scripts = {"cas", "release"} THEN {} ELSE {k})
                    ELSE engine.bad \cap Reads(k)

ScriptsAfter(k) ==
    engine.scripts \cup (CASE k = "loadcas" -> {"cas"}
                           [] k = "loadrelease" -> {"release"}
                           [] OTHER -> {})

ProbeCommand(t) ==
    /\ pc[t] = "probe"
    /\ LET k     == ProbeCommands[loc[t].step]
           noted == (loc[t].noted \cup Failing(k)) \ Waived
       IN  /\ engine' = [engine EXCEPT !.scripts = ScriptsAfter(k)]
           /\ \/ noted \cap Judged(k) # {} /\ Return(t, "incompatible")
              \/ /\ noted \cap Judged(k) = {}
                 /\ Move(t, IF loc[t].step = Len(ProbeCommands) THEN "compare" ELSE "probe",
                         [loc[t] EXCEPT !.step = @ + 1, !.noted = noted,
                              !.ver = IF k = "server" THEN engine.version ELSE @])
                 /\ UNCHANGED res
    /\ UNCHANGED <<opened, closed, manifest, changes, tried, ops>>

(* Any command may fail with a ValkeyError, which is translated. *)
ProbeFailsUntranslated(t) ==
    /\ pc[t] = "probe"
    /\ Return(t, "ValkeyError")
    /\ UNCHANGED <<opened, closed, manifest, engine, changes, tried, ops>>

ProbeFails(t) ==
    /\ pc[t] = "probe"
    /\ Return(t, "unavailable")
    /\ UNCHANGED <<opened, closed, manifest, engine, changes, tried, ops>>

(* open compares with the Binding's pins, probe with the startup probe. *)
Compare(t) ==
    /\ pc[t] = "compare"
    /\ LET v == loc[t].ver
           pins == v = Pinned /\ Fingerprint(v) = Fingerprint(Pinned)
       IN  \/ loc[t].op = "open" /\ pins /\ Goto(t, "publish") /\ UNCHANGED res
           \/ loc[t].op = "open" /\ ~ pins /\ Return(t, "incompatible")
           \/ loc[t].op = "probe" /\ manifest = NoVersion /\ Return(t, "headless")
           \/ /\ loc[t].op = "probe" /\ manifest # NoVersion
              /\ Return(t, IF Fingerprint(v) = Fingerprint(manifest)
                           THEN "ok" ELSE "incompatible")
    /\ UNCHANGED <<opened, closed, manifest, engine, changes, tried, ops>>

(* self._manifest = probe, then self._opened = True, even if the runtime   *)
(* was closed meanwhile.                                                   *)
PublishOpenedFirst(t) ==
    /\ pc[t] = "publish"
    /\ opened' = TRUE
    /\ Goto(t, "published")
    /\ UNCHANGED <<closed, manifest, engine, changes, tried, ops, res>>

Publish(t) ==
    /\ pc[t] = "publish"
    /\ manifest' = loc[t].ver
    /\ Goto(t, "published")
    /\ UNCHANGED <<opened, closed, engine, changes, tried, ops, res>>

PublishOpened(t) ==
    /\ pc[t] = "published"
    /\ opened' = TRUE
    /\ Return(t, "ok")
    /\ UNCHANGED <<closed, manifest, engine, changes, tried, ops>>

-----------------------------------------------------------------------------
(* close. *)

CloseCheck(t) ==
    /\ pc[t] = "close?"
    /\ \/ closed /\ Return(t, "ok")
       \/ ~ closed /\ Goto(t, "closing") /\ UNCHANGED res
    /\ UNCHANGED <<opened, closed, manifest, engine, changes, tried, ops>>

MarkClosed(t) ==
    /\ pc[t] = "closing"
    /\ closed' = TRUE
    /\ Goto(t, "closing2")
    /\ UNCHANGED <<opened, manifest, engine, changes, tried, ops, res>>

MarkNotOpened(t) ==
    /\ pc[t] = "closing2"
    /\ opened' = FALSE
    /\ Goto(t, "handles")
    /\ UNCHANGED <<closed, manifest, engine, changes, tried, ops, res>>

(* ClientHandle.close: the next handle's close returns or raises; a        *)
(* failure is kept and the loop goes on, the first one is raised at the    *)
(* end.                                                                    *)
CloseHandleStopsEarly(t) ==
    /\ pc[t] = "handles"
    /\ tried' = tried \cup {loc[t].step}
    /\ \/ Return(t, "raised")
       \/ loc[t].step = NHandles /\ Return(t, "ok")
       \/ /\ loc[t].step < NHandles
          /\ Move(t, "handles", [loc[t] EXCEPT !.step = @ + 1])
          /\ UNCHANGED res
    /\ UNCHANGED <<opened, closed, manifest, engine, changes, ops>>

CloseHandle(t) ==
    /\ pc[t] = "handles"
    /\ tried' = tried \cup {loc[t].step}
    /\ \E failed \in {loc[t].failed, TRUE} :
          \/ /\ loc[t].step = NHandles
             /\ Return(t, IF failed THEN "raised" ELSE "ok")
          \/ /\ loc[t].step < NHandles
             /\ Move(t, "handles", [loc[t] EXCEPT !.step = @ + 1, !.failed = failed])
             /\ UNCHANGED res
    /\ UNCHANGED <<opened, closed, manifest, engine, changes, ops>>

-----------------------------------------------------------------------------
(* The engine is reconfigured, upgraded, failed over or restarted. *)
EngineChange ==
    /\ changes < MaxChanges
    /\ \E v \in Versions, b \in SUBSET Unfit, s \in {engine.scripts, {}} :
          engine' = [version |-> v, bad |-> b, scripts |-> s]
    /\ loc' = [t \in Threads |-> [loc[t] EXCEPT !.lasting = @ \cap Wrong']]
    /\ changes' = changes + 1
    /\ UNCHANGED <<opened, closed, manifest, tried, pc, ops, res>>

Finished ==
    /\ \A t \in Threads : pc[t] = "idle" /\ ops[t] = MaxOps
    /\ UNCHANGED vars

Init ==
    /\ opened = FALSE /\ closed = FALSE /\ manifest = NoVersion
    /\ \E v \in Versions, b \in SUBSET Unfit :
          engine = [version |-> v, bad |-> b, scripts |-> {}]
    /\ changes = 0 /\ tried = {}
    /\ pc = [t \in Threads |-> "idle"]
    /\ loc = [t \in Threads |-> NoLocals]
    /\ ops = [t \in Threads |-> 0]
    /\ res = [t \in Threads |-> "none"]

Step(t) ==
    \/ EnsureNotClosed(t) \/ CheckOpened(t)
    \/ ProbeCommand(t) \/ ProbeFails(t) \/ Compare(t) \/ Publish(t) \/ PublishOpened(t)
    \/ CloseCheck(t) \/ MarkClosed(t) \/ MarkNotOpened(t) \/ CloseHandle(t)

Next ==
    \/ \E t \in Threads : Begin(t) \/ Step(t)
    \/ EngineChange
    \/ Finished

Spec == Init /\ [][Next]_vars

-----------------------------------------------------------------------------
(* Every variable keeps its type; no call ends in an error of the client   *)
(* library.                                                                *)
TypeOK ==
    /\ opened \in BOOLEAN /\ closed \in BOOLEAN
    /\ manifest \in Versions \cup {NoVersion}
    /\ engine \in [version : Versions, bad : SUBSET Unfit,
                   scripts : SUBSET {"cas", "release"}]
    /\ changes \in Nat
    /\ tried \subseteq 1 .. NHandles
    /\ pc \in [Threads -> Pcs]
    /\ loc \in [Threads -> [op : Operations \cup {"none"},
                            step : 1 .. Len(ProbeCommands) + NHandles + 1,
                            ver : Versions \cup {NoVersion}, noted : SUBSET Facts,
                            failed : BOOLEAN, late : BOOLEAN,
                            lasting : SUBSET (Facts \cup {"version"})]]
    /\ ops \in [Threads -> Nat]
    /\ res \in [Threads -> Outcomes]

(* A call that begins on a closed runtime is refused, although an open     *)
(* still in its probe sets _opened again after close cleared it: neither a *)
(* session nor the cache is handed out any more.                           *)
NoUseAfterClose ==
    [][\A t \in Threads :
         loc[t].late /\ loc[t].op # "close" /\ pc'[t] = "idle"
            => res'[t] = "closed"]_vars

(* An opened runtime holds the startup probe of the pinned release, so     *)
(* probe's "startup probe is absent" never happens, however opens, closes  *)
(* and engine upgrades interleave.                                         *)
OpenedIsPinned ==
    /\ opened => manifest = Pinned
    /\ \A t \in Threads : res[t] # "headless"

(* An open or a probe that succeeds met an engine in which every required  *)
(* fact held at some moment of the probe: nothing that was wrong with it   *)
(* from the first command to the last is overlooked.                       *)
DriftDetected ==
    [][\A t \in Threads :
         pc[t] \in {"compare", "published"} /\ pc'[t] = "idle" /\ res'[t] = "ok"
            => loc[t].lasting \subseteq Waived]_vars

(* Once a runtime is closed and no close is at work on it, the close of    *)
(* every handle it owns was attempted, whichever of them raised and        *)
(* however many threads closed it.                                         *)
CloseIsComplete ==
    closed /\ (\A t \in Threads : pc[t] \notin {"closing", "closing2", "handles"})
        => tried = 1 .. NHandles
=============================================================================
