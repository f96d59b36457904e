------------------------ MODULE RuntimeLifecycleProofs ------------------------
(***************************************************************************)
(* Proofs about RuntimeLifecycle, for any number of threads and calls, any *)
(* releases, pins and policies, any number of handles and engine changes.  *)
(***************************************************************************)
EXTENDS RuntimeLifecycle, TLAPS

Locals == [op : Operations \cup {"none"}, step : 1 .. Len(ProbeCommands) + NHandles + 1,
           ver : Versions \cup {NoVersion}, noted : SUBSET Facts,
           failed : BOOLEAN, late : BOOLEAN, lasting : SUBSET (Facts \cup {"version"})]

Engines == [version : Versions, bad : SUBSET Unfit, scripts : SUBSET {"cas", "release"}]

(* A thread at l with locals v: the commands and the handles are counted   *)
(* from the first to the last.                                             *)
Counts(l, v) ==
    /\ l \in {"closed?", "opened?", "close?", "closing", "closing2"} => v.step = 1
    /\ l = "probe" => v.step \in 1 .. 11
    /\ l = "compare" => v.step = 12
    /\ l = "handles" => v.step \in 1 .. NHandles

TypeInv == TypeOK /\ \A t \in Threads : Counts(pc[t], loc[t])

-----------------------------------------------------------------------------
(* The eleven commands of a probe. *)
LEMMA Commands ==
    /\ Len(ProbeCommands) = 11
    /\ ProbeCommands[1] = "ping" /\ ProbeCommands[2] = "server"
    /\ ProbeCommands[3] = "memory" /\ ProbeCommands[4] = "replication"
    /\ ProbeCommands[5] = "commands" /\ ProbeCommands[6] = "policy"
    /\ ProbeCommands[7] = "appendonly" /\ ProbeCommands[8] = "save"
    /\ ProbeCommands[9] = "loadcas" /\ ProbeCommands[10] = "loadrelease"
    /\ ProbeCommands[11] = "exists"
    /\ \A i \in 1 .. 11 : ProbeCommands[i] \in Facts
    /\ Facts = {"ping", "server", "memory", "replication", "commands", "policy",
                "appendonly", "save", "loadcas", "loadrelease", "exists", "maxmemory"}
BY DEF ProbeCommands, Facts

(* A call begins with no locals. *)
LEMMA NoLocalsType == NoLocals \in Locals /\ NoLocals.step = 1
BY RuntimeAssumption, Commands DEF NoLocals, Locals, Operations

(* One thread moves on, the others stay where they are. *)
LEMMA MoveEffect ==
    ASSUME TypeInv, NEW t \in Threads, NEW l, NEW v, Move(t, l, v)
    PROVE  /\ pc'[t] = l /\ loc'[t] = v
           /\ \A s \in Threads \ {t} : pc'[s] = pc[s] /\ loc'[s] = loc[s]
BY DEF TypeInv, TypeOK, Move

(* A thread moves to a known place with locals of their type. *)
LEMMA MoveType ==
    ASSUME TypeInv, NEW t \in Threads, NEW l \in Pcs, NEW v \in Locals, Counts(l, v),
           Move(t, l, v)
    PROVE  /\ pc' \in [Threads -> Pcs] /\ loc' \in [Threads -> Locals]
           /\ \A s \in Threads : Counts(pc'[s], loc'[s])
<1>1. pc' \in [Threads -> Pcs] /\ loc' \in [Threads -> Locals]
  BY DEF TypeInv, TypeOK, Locals, Move
<1>2. \A s \in Threads : Counts(pc'[s], loc'[s])
  BY MoveEffect DEF TypeInv
<1> QED
  BY <1>1, <1>2

(* A call that returns leaves nothing behind. *)
LEMMA ReturnType ==
    ASSUME TypeInv, NEW t \in Threads, NEW k \in Outcomes, Return(t, k)
    PROVE  /\ pc' \in [Threads -> Pcs] /\ loc' \in [Threads -> Locals]
           /\ \A s \in Threads : Counts(pc'[s], loc'[s])
           /\ res' \in [Threads -> Outcomes]
<1>1. "idle" \in Pcs /\ Counts("idle", NoLocals) /\ Move(t, "idle", NoLocals)
  BY DEF Pcs, Counts, Return
<1>2. res' \in [Threads -> Outcomes]
  BY DEF Return, TypeInv, TypeOK
<1> QED
  BY <1>1, <1>2, MoveType, NoLocalsType

(* A step that leaves the locals as they are. *)
LEMMA GotoType ==
    ASSUME TypeInv, NEW t \in Threads, NEW l \in Pcs, Counts(l, loc[t]), Goto(t, l)
    PROVE  /\ pc' \in [Threads -> Pcs] /\ loc' \in [Threads -> Locals]
           /\ \A s \in Threads : Counts(pc'[s], loc'[s])
<1>1. loc[t] \in Locals /\ Move(t, l, loc[t])
  BY DEF TypeInv, TypeOK, Locals, Goto
<1> QED
  BY <1>1, MoveType

(* No thread has begun a call. *)
LEMMA TypeInit == Init => TypeInv
<1> SUFFICES ASSUME Init PROVE TypeInv
  OBVIOUS
<1>1. engine \in Engines
  BY DEF Init, Engines
<1>2. /\ pc \in [Threads -> Pcs] /\ loc \in [Threads -> Locals]
      /\ ops \in [Threads -> Nat] /\ res \in [Threads -> Outcomes]
  BY NoLocalsType DEF Init, Pcs, Outcomes
<1>3. \A t \in Threads : Counts(pc[t], loc[t])
  BY DEF Init, Counts
<1> QED
  BY <1>1, <1>2, <1>3 DEF Init, TypeInv, TypeOK, Engines, Locals

(* A call begins: every operation but close tests _closed first. *)
LEMMA BeginType ==
    ASSUME TypeInv, NEW t \in Threads, Begin(t)
    PROVE  TypeInv'
<1>1. PICK o \in Operations :
         Move(t, IF o = "close" THEN "close?" ELSE "closed?",
              [NoLocals EXCEPT !.op = o, !.late = closed])
  BY DEF Begin
<1> DEFINE l == IF o = "close" THEN "close?" ELSE "closed?"
           v == [NoLocals EXCEPT !.op = o, !.late = closed]
<1>2. l \in Pcs
  BY DEF Pcs
<1>3. v \in Locals /\ v.step = 1
  BY NoLocalsType DEF Locals, TypeInv, TypeOK
<1> HIDE DEF v
<1>4. Counts(l, v)
  BY <1>3 DEF Counts
<1> HIDE DEF l
<1>5. /\ pc' \in [Threads -> Pcs] /\ loc' \in [Threads -> Locals]
      /\ \A s \in Threads : Counts(pc'[s], loc'[s])
  BY <1>1, <1>2, <1>3, <1>4, MoveType DEF l, v
<1>6. ops' \in [Threads -> Nat] /\ res' \in [Threads -> Outcomes]
  BY DEF Begin, TypeInv, TypeOK, Outcomes
<1>7. UNCHANGED <<opened, closed, manifest, engine, changes, tried>>
  BY DEF Begin
<1> QED
  BY <1>5, <1>6, <1>7 DEF TypeInv, TypeOK, Locals

(* Nothing but pc, loc and res changes. *)
LEMMA ControlType ==
    ASSUME TypeInv, UNCHANGED <<opened, closed, manifest, engine, changes, tried, ops>>,
           pc' \in [Threads -> Pcs], loc' \in [Threads -> Locals],
           \A s \in Threads : Counts(pc'[s], loc'[s]),
           res' \in [Threads -> Outcomes]
    PROVE  TypeInv'
BY DEF TypeInv, TypeOK, Locals

(* _ensure_not_closed and close's test of _closed. *)
LEMMA EnsureType ==
    ASSUME TypeInv, NEW t \in Threads, EnsureNotClosed(t) \/ CloseCheck(t)
    PROVE  TypeInv'
<1>1. UNCHANGED <<opened, closed, manifest, engine, changes, tried, ops>>
  BY DEF EnsureNotClosed, CloseCheck
<1>2. CASE \E k \in {"closed", "ok"} : Return(t, k)
  BY <1>1, <1>2, ReturnType, ControlType DEF Outcomes
<1>3. CASE \E l \in {"opened?", "closing"} : Goto(t, l) /\ UNCHANGED res
  <2>1. PICK l \in {"opened?", "closing"} : Goto(t, l) /\ UNCHANGED res
    BY <1>3
  <2>2. loc[t].step = 1
    BY DEF EnsureNotClosed, CloseCheck, TypeInv, Counts
  <2>3. l \in Pcs /\ Counts(l, loc[t])
    BY <2>2 DEF Pcs, Counts
  <2>4. res' \in [Threads -> Outcomes]
    BY <2>1 DEF TypeInv, TypeOK
  <2> QED
    BY <1>1, <2>1, <2>3, <2>4, GotoType, ControlType
<1> QED
  BY <1>2, <1>3 DEF EnsureNotClosed, CloseCheck

(* What can be wrong with an engine is a fact or the release. *)
LEMMA WrongType == TypeInv => Wrong \subseteq Facts \cup {"version"}
BY RuntimeAssumption DEF TypeInv, TypeOK, Wrong

(* A probe starts with its first command. *)
LEMMA StartProbeType ==
    ASSUME TypeInv, NEW t \in Threads, loc[t].step = 1, StartProbe(t)
    PROVE  /\ pc' \in [Threads -> Pcs] /\ loc' \in [Threads -> Locals]
           /\ \A s \in Threads : Counts(pc'[s], loc'[s])
           /\ res' \in [Threads -> Outcomes]
<1> DEFINE w == Wrong
           v == [loc[t] EXCEPT !.lasting = w]
<1>1. w \in SUBSET (Facts \cup {"version"})
  BY WrongType
<1> HIDE DEF w
<1>2. v \in Locals /\ v.step = 1
  <2>1. loc[t] \in Locals
    BY DEF TypeInv, TypeOK, Locals
  <2> QED
    BY <1>1, <2>1 DEF Locals
<1>3. Move(t, "probe", v) /\ UNCHANGED res
  BY DEF StartProbe, w
<1> HIDE DEF v
<1>4. "probe" \in Pcs /\ Counts("probe", v)
  BY <1>2 DEF Pcs, Counts
<1> QED
  BY <1>2, <1>3, <1>4, MoveType DEF TypeInv, TypeOK

(* open returns at once or probes; the other calls return or probe. *)
LEMMA CheckOpenedType ==
    ASSUME TypeInv, NEW t \in Threads, CheckOpened(t)
    PROVE  TypeInv'
<1>1. UNCHANGED <<opened, closed, manifest, engine, changes, tried, ops>>
  BY DEF CheckOpened
<1>2. CASE \E k \in Outcomes : Return(t, k)
  BY <1>1, <1>2, ReturnType, ControlType
<1>3. CASE StartProbe(t)
  <2>1. loc[t].step = 1
    BY DEF CheckOpened, TypeInv, Counts
  <2> QED
    BY <1>1, <1>3, <2>1, StartProbeType, ControlType
<1> QED
  BY <1>2, <1>3 DEF CheckOpened, Outcomes

(* What a command of the probe finds failing is the fact it reads. *)
LEMMA FailingType ==
    ASSUME NEW k \in Facts
    PROVE  Failing(k) \subseteq Reads(k) /\ Reads(k) \subseteq Facts
BY Commands DEF Failing, Reads

(* A probe's command is answered and what it found not judged a failure. *)
ProbeGoesOn(t, k, noted) ==
    Move(t, IF loc[t].step = Len(ProbeCommands) THEN "compare" ELSE "probe",
         [loc[t] EXCEPT !.step = @ + 1, !.noted = noted,
                        !.ver = IF k = "server" THEN engine.version ELSE @])

(* The next command, or the comparison after the last one. *)
LEMMA ProbeGoesOnType ==
    ASSUME TypeInv, NEW t \in Threads, pc[t] = "probe",
           NEW k, NEW noted \in SUBSET Facts, ProbeGoesOn(t, k, noted)
    PROVE  /\ pc' \in [Threads -> Pcs] /\ loc' \in [Threads -> Locals]
           /\ \A s \in Threads : Counts(pc'[s], loc'[s])
<1> DEFINE l == IF loc[t].step = Len(ProbeCommands) THEN "compare" ELSE "probe"
           r == IF k = "server" THEN engine.version ELSE loc[t].ver
           v == [loc[t] EXCEPT !.step = @ + 1, !.noted = noted, !.ver = r]
<1>1. loc[t] \in Locals /\ r \in Versions \cup {NoVersion} /\ loc[t].step \in 1 .. 11
  BY DEF TypeInv, TypeOK, Locals, Counts
<1>2. Move(t, l, v)
  BY DEF ProbeGoesOn
<1>3. l \in Pcs
  BY DEF Pcs
<1> HIDE DEF r
<1>4. v \in Locals /\ v.step = loc[t].step + 1
  <2> DEFINE n == loc[t].step + 1
  <2>1. n \in 1 .. Len(ProbeCommands) + NHandles + 1
    BY <1>1, Commands, RuntimeAssumption
  <2>2. v = [loc[t] EXCEPT !.step = n, !.noted = noted, !.ver = r]
    OBVIOUS
  <2> HIDE DEF n, v
  <2>3. v \in Locals /\ v.step = n
    BY <1>1, <2>1, <2>2 DEF Locals
  <2> QED
    BY <2>3 DEF n
<1> HIDE DEF v
<1>5. Counts(l, v)
  BY <1>1, <1>4, Commands DEF Counts
<1> HIDE DEF l
<1> QED
  BY <1>2, <1>3, <1>4, <1>5, MoveType

(* A command loads its script, and the probe goes on or is refused. *)
LEMMA ProbeCommandType ==
    ASSUME TypeInv, NEW t \in Threads, ProbeCommand(t)
    PROVE  TypeInv'
<1> DEFINE k     == ProbeCommands[loc[t].step]
           noted == (loc[t].noted \cup Failing(k)) \ Waived
<1>1. /\ pc[t] = "probe" /\ UNCHANGED <<opened, closed, manifest, changes, tried, ops>>
      /\ engine' = [engine EXCEPT !.scripts = ScriptsAfter(k)]
      /\ \/ Return(t, "incompatible")
         \/ ProbeGoesOn(t, k, noted) /\ UNCHANGED res
  BY DEF ProbeCommand, ProbeGoesOn
<1>2. loc[t].step \in 1 .. 11 /\ k \in Facts
  BY <1>1, Commands DEF TypeInv, Counts
<1>3. noted \in SUBSET Facts
  BY <1>2, FailingType DEF TypeInv, TypeOK
<1>4. engine' \in Engines
  <2>1. engine \in Engines
    BY DEF TypeInv, TypeOK, Engines
  <2>2. ScriptsAfter(k) \in SUBSET {"cas", "release"}
    BY <2>1 DEF ScriptsAfter, Engines
  <2> QED
    BY <1>1, <2>1, <2>2 DEF Engines
<1> HIDE DEF k, noted
<1>5. /\ pc' \in [Threads -> Pcs] /\ loc' \in [Threads -> Locals]
      /\ \A s \in Threads : Counts(pc'[s], loc'[s])
      /\ res' \in [Threads -> Outcomes]
  <2>1. CASE Return(t, "incompatible")
    BY <2>1, ReturnType DEF Outcomes
  <2>2. CASE ProbeGoesOn(t, k, noted) /\ UNCHANGED res
    BY <1>1, <1>3, <2>2, ProbeGoesOnType DEF TypeInv, TypeOK
  <2> QED
    BY <1>1, <2>1, <2>2
<1> QED
  BY <1>1, <1>4, <1>5 DEF TypeInv, TypeOK, Locals, Engines

(* A failed command, and the comparison with the pins or the manifest. *)
LEMMA CompareType ==
    ASSUME TypeInv, NEW t \in Threads, ProbeFails(t) \/ Compare(t)
    PROVE  TypeInv'
<1>1. UNCHANGED <<opened, closed, manifest, engine, changes, tried, ops>>
  BY DEF ProbeFails, Compare
<1>2. CASE \E k \in Outcomes : Return(t, k)
  BY <1>1, <1>2, ReturnType, ControlType
<1>3. CASE Goto(t, "publish") /\ UNCHANGED res
  BY <1>1, <1>3, GotoType, ControlType DEF Pcs, Counts, TypeInv, TypeOK
<1> QED
  BY <1>2, <1>3 DEF ProbeFails, Compare, Outcomes

(* The writes of open: _manifest, then _opened. *)
LEMMA PublishType ==
    ASSUME TypeInv, NEW t \in Threads, Publish(t) \/ PublishOpened(t)
    PROVE  TypeInv'
<1>1. CASE Publish(t)
  <2>1. /\ pc' \in [Threads -> Pcs] /\ loc' \in [Threads -> Locals]
        /\ \A s \in Threads : Counts(pc'[s], loc'[s])
    BY <1>1, GotoType DEF Publish, Pcs, Counts
  <2>2. manifest' \in Versions \cup {NoVersion}
    BY <1>1 DEF Publish, TypeInv, TypeOK
  <2> QED
    BY <1>1, <2>1, <2>2 DEF Publish, TypeInv, TypeOK, Locals
<1>2. CASE PublishOpened(t)
  <2>1. /\ pc' \in [Threads -> Pcs] /\ loc' \in [Threads -> Locals]
        /\ \A s \in Threads : Counts(pc'[s], loc'[s])
        /\ res' \in [Threads -> Outcomes]
    BY <1>2, ReturnType DEF PublishOpened, Outcomes
  <2> QED
    BY <1>2, <2>1 DEF PublishOpened, TypeInv, TypeOK, Locals
<1> QED
  BY <1>1, <1>2

(* The writes of close: _closed, then _opened. *)
LEMMA MarkType ==
    ASSUME TypeInv, NEW t \in Threads, MarkClosed(t) \/ MarkNotOpened(t)
    PROVE  TypeInv'
<1>1. loc[t].step = 1
  BY DEF MarkClosed, MarkNotOpened, TypeInv, Counts
<1>2. /\ pc' \in [Threads -> Pcs] /\ loc' \in [Threads -> Locals]
      /\ \A s \in Threads : Counts(pc'[s], loc'[s])
  <2>1. PICK l \in {"closing2", "handles"} : Goto(t, l)
    BY DEF MarkClosed, MarkNotOpened
  <2>2. l \in Pcs /\ Counts(l, loc[t])
    BY <1>1, RuntimeAssumption DEF Pcs, Counts
  <2> QED
    BY <2>1, <2>2, GotoType
<1>3. /\ opened' \in BOOLEAN /\ closed' \in BOOLEAN
      /\ UNCHANGED <<manifest, engine, changes, tried, ops, res>>
  BY DEF MarkClosed, MarkNotOpened, TypeInv, TypeOK
<1> QED
  BY <1>2, <1>3 DEF TypeInv, TypeOK, Locals

(* The loop over the handles ends with the last one. *)
LEMMA CloseHandleType ==
    ASSUME TypeInv, NEW t \in Threads, CloseHandle(t)
    PROVE  TypeInv'
<1>1. PICK failed \in {loc[t].failed, TRUE} :
         \/ /\ loc[t].step = NHandles
            /\ Return(t, IF failed THEN "raised" ELSE "ok")
         \/ /\ loc[t].step < NHandles
            /\ Move(t, "handles", [loc[t] EXCEPT !.step = @ + 1, !.failed = failed])
            /\ UNCHANGED res
  BY DEF CloseHandle
<1>2. loc[t].step \in 1 .. NHandles /\ loc[t] \in Locals
  BY DEF CloseHandle, TypeInv, TypeOK, Counts, Locals
<1>3. tried' \subseteq 1 .. NHandles
  BY <1>2 DEF CloseHandle, TypeInv, TypeOK
<1>4. /\ pc' \in [Threads -> Pcs] /\ loc' \in [Threads -> Locals]
      /\ \A s \in Threads : Counts(pc'[s], loc'[s])
      /\ res' \in [Threads -> Outcomes]
  <2>1. CASE Return(t, IF failed THEN "raised" ELSE "ok")
    BY <2>1, ReturnType DEF Outcomes
  <2>2. CASE /\ loc[t].step < NHandles
             /\ Move(t, "handles", [loc[t] EXCEPT !.step = @ + 1, !.failed = failed])
             /\ UNCHANGED res
    <3> DEFINE v == [loc[t] EXCEPT !.step = @ + 1, !.failed = failed]
    <3>1. v \in Locals /\ v.step = loc[t].step + 1
      <4> DEFINE n == loc[t].step + 1
      <4>0. failed \in BOOLEAN
        BY <1>1, <1>2 DEF Locals
      <4>1. n \in 1 .. Len(ProbeCommands) + NHandles + 1
        BY <1>2, <2>2, RuntimeAssumption, Commands
      <4>2. v = [loc[t] EXCEPT !.step = n, !.failed = failed]
        OBVIOUS
      <4> HIDE DEF n, v
      <4>3. v \in Locals /\ v.step = n
        BY <1>2, <4>0, <4>1, <4>2 DEF Locals
      <4> QED
        BY <4>3 DEF n
    <3> HIDE DEF v
    <3>2. "handles" \in Pcs /\ Counts("handles", v)
      BY <1>2, <2>2, <3>1, RuntimeAssumption DEF Pcs, Counts
    <3>3. Move(t, "handles", v)
      BY <2>2 DEF v
    <3> QED
      BY <2>2, <3>1, <3>2, <3>3, MoveType DEF TypeInv, TypeOK
  <2> QED
    BY <1>1, <2>1, <2>2
<1>5. UNCHANGED <<opened, closed, manifest, engine, changes, ops>>
  BY DEF CloseHandle
<1> QED
  BY <1>3, <1>4, <1>5 DEF TypeInv, TypeOK, Locals

(* A change of the engine leaves the threads where they are. *)
LEMMA EngineChangeType ==
    ASSUME TypeInv, EngineChange
    PROVE  TypeInv'
<1>1. PICK v \in Versions, b \in SUBSET Unfit, s \in {engine.scripts, {}} :
         engine' = [version |-> v, bad |-> b, scripts |-> s]
  BY DEF EngineChange
<1>2. engine' \in Engines
  BY <1>1 DEF TypeInv, TypeOK, Engines
<1>3. loc' \in [Threads -> Locals]
  <2>1. ASSUME NEW t \in Threads
        PROVE  [loc[t] EXCEPT !.lasting = @ \cap Wrong'] \in Locals
    <3> DEFINE w == loc[t].lasting \cap Wrong'
    <3>1. loc[t] \in Locals
      BY DEF TypeInv, TypeOK, Locals
    <3>2. w \in SUBSET (Facts \cup {"version"})
      BY <3>1 DEF Locals
    <3>3. [loc[t] EXCEPT !.lasting = @ \cap Wrong'] = [loc[t] EXCEPT !.lasting = w]
      OBVIOUS
    <3> HIDE DEF w
    <3> QED
      BY <3>1, <3>2, <3>3 DEF Locals
  <2> QED
    BY <2>1 DEF EngineChange
<1>4. \A t \in Threads : loc'[t].step = loc[t].step
  BY DEF EngineChange, TypeInv, TypeOK
<1>5. UNCHANGED <<opened, closed, manifest, tried, pc, ops, res>> /\ changes' \in Nat
  BY DEF EngineChange, TypeInv, TypeOK
<1>6. \A t \in Threads : Counts(pc'[t], loc'[t])
  BY <1>4, <1>5 DEF TypeInv, Counts
<1> QED
  BY <1>2, <1>3, <1>5, <1>6 DEF TypeInv, TypeOK, Locals, Engines

(* Every step keeps the types and the counts. *)
LEMMA TypeNext == TypeInv /\ [Next]_vars => TypeInv'
<1> SUFFICES ASSUME TypeInv, [Next]_vars PROVE TypeInv'
  OBVIOUS
<1>1. ASSUME NEW t \in Threads, Begin(t) \/ Step(t) PROVE TypeInv'
  BY <1>1, BeginType, EnsureType, CheckOpenedType, ProbeCommandType, CompareType,
     PublishType, MarkType, CloseHandleType DEF Step
<1>2. CASE UNCHANGED vars
  BY <1>2 DEF vars, TypeInv, TypeOK
<1> QED
  BY <1>1, <1>2, EngineChangeType DEF Next, Finished

(* Every field, local and counter of the runtime keeps its type; handles   *)
(* and probe commands are never counted past their end.                    *)
THEOREM TypeCorrect == Spec => []TypeOK
<1>1. Spec => []TypeInv
  BY TypeInit, TypeNext, PTL DEF Spec
<1>2. TypeInv => TypeOK
  BY DEF TypeInv
<1> QED
  BY <1>1, <1>2, PTL

-----------------------------------------------------------------------------
(* The manifest of an opened runtime. *)

(* A thread at l with locals v while the manifest is m: a probe of an open *)
(* runtime has a manifest to compare with, and open publishes the pinned   *)
(* release only.                                                           *)
PinnedAt(l, v, m) ==
    /\ l \in {"probe", "compare"} /\ v.op = "probe" => m = Pinned
    /\ l \in {"publish", "published"} => v.ver = Pinned
    /\ l = "published" => m = Pinned

PinnedInv ==
    /\ manifest \in {NoVersion, Pinned}
    /\ opened => manifest = Pinned
    /\ \A t \in Threads : PinnedAt(pc[t], loc[t], manifest) /\ res[t] # "headless"

(* One thread moves; the manifest stays or becomes the pinned one. *)
LEMMA PinnedMove ==
    ASSUME TypeInv, PinnedInv, NEW t \in Threads, NEW l, NEW v, Move(t, l, v),
           PinnedAt(l, v, manifest'), manifest' = manifest \/ manifest' = Pinned,
           opened' => manifest' = Pinned,
           UNCHANGED res \/ \E k : k # "headless" /\ res' = [res EXCEPT ![t] = k]
    PROVE  PinnedInv'
<1>1. /\ pc'[t] = l /\ loc'[t] = v
      /\ \A s \in Threads \ {t} : pc'[s] = pc[s] /\ loc'[s] = loc[s]
  BY MoveEffect
<1>2. \A s \in Threads : res'[s] # "headless"
  BY DEF PinnedInv, TypeInv, TypeOK
<1>3. \A s \in Threads \ {t} : PinnedAt(pc'[s], loc'[s], manifest')
  BY <1>1 DEF PinnedInv, PinnedAt
<1> QED
  BY <1>1, <1>2, <1>3 DEF PinnedInv

(* A call returns, without having found the manifest absent. *)
LEMMA PinnedReturn ==
    ASSUME TypeInv, PinnedInv, NEW t \in Threads, NEW k, k # "headless", Return(t, k),
           UNCHANGED manifest, opened' => manifest' = Pinned
    PROVE  PinnedInv'
BY PinnedMove DEF Return, PinnedAt

(* The facts open, probe and close change leave OpenedIsPinned's invariant *)
(* alone, whichever thread comes first.                                    *)
LEMMA PinnedNext == TypeInv /\ PinnedInv /\ [Next]_vars => PinnedInv'
<1> SUFFICES ASSUME TypeInv, PinnedInv, [Next]_vars PROVE PinnedInv'
  OBVIOUS
<1>1. ASSUME NEW t \in Threads, Begin(t) PROVE PinnedInv'
  <2>1. PICK o \in Operations :
           Move(t, IF o = "close" THEN "close?" ELSE "closed?",
                [NoLocals EXCEPT !.op = o, !.late = closed])
    BY <1>1 DEF Begin
  <2> DEFINE v == [NoLocals EXCEPT !.op = o, !.late = closed]
  <2>2. UNCHANGED <<manifest, opened>> /\ res' = [res EXCEPT ![t] = "none"]
    BY <1>1 DEF Begin
  <2> HIDE DEF v
  <2>3. \A l \in {"close?", "closed?"} : PinnedAt(l, v, manifest')
    BY DEF PinnedAt
  <2>4. opened' => manifest' = Pinned
    BY <2>2 DEF PinnedInv
  <2> QED
    BY <2>1, <2>2, <2>3, <2>4, PinnedMove DEF v
<1>2. ASSUME NEW t \in Threads, EnsureNotClosed(t) \/ CloseCheck(t) PROVE PinnedInv'
  <2>1. UNCHANGED <<manifest, opened>> /\ (opened' => manifest' = Pinned)
    BY <1>2 DEF EnsureNotClosed, CloseCheck, PinnedInv
  <2>2. CASE \E k \in {"closed", "ok"} : Return(t, k)
    BY <2>1, <2>2, PinnedReturn
  <2>3. CASE \E l \in {"opened?", "closing"} : Goto(t, l) /\ UNCHANGED res
    BY <2>1, <2>3, PinnedMove DEF Goto, PinnedAt
  <2> QED
    BY <1>2, <2>2, <2>3 DEF EnsureNotClosed, CloseCheck
<1>3. ASSUME NEW t \in Threads, CheckOpened(t) PROVE PinnedInv'
  <2>1. UNCHANGED <<manifest, opened>> /\ (opened' => manifest' = Pinned)
    BY <1>3 DEF CheckOpened, PinnedInv
  <2>2. CASE \E k \in {"ok", "state", "unsupported", "invalid"} : Return(t, k)
    BY <2>1, <2>2, PinnedReturn
  <2>3. CASE StartProbe(t) /\ (loc[t].op = "probe" => opened)
    <3> DEFINE w == Wrong
               v == [loc[t] EXCEPT !.lasting = w]
    <3>1. Move(t, "probe", v) /\ UNCHANGED res
      BY <2>3 DEF StartProbe
    <3> HIDE DEF w
    <3>2. v.op = loc[t].op
      BY DEF TypeInv, TypeOK
    <3>3. PinnedAt("probe", v, manifest')
      BY <2>1, <2>3, <3>2 DEF PinnedAt
    <3> QED
      BY <2>1, <3>1, <3>3, PinnedMove
  <2> QED
    BY <1>3, <2>2, <2>3 DEF CheckOpened
<1>4. ASSUME NEW t \in Threads, ProbeCommand(t) PROVE PinnedInv'
  <2> DEFINE k     == ProbeCommands[loc[t].step]
             noted == (loc[t].noted \cup Failing(k)) \ Waived
             r == IF k = "server" THEN engine.version ELSE loc[t].ver
             l == IF loc[t].step = Len(ProbeCommands) THEN "compare" ELSE "probe"
             v == [loc[t] EXCEPT !.step = @ + 1, !.noted = noted, !.ver = r]
  <2>1. UNCHANGED <<manifest, opened>> /\ (opened' => manifest' = Pinned)
    BY <1>4 DEF ProbeCommand, PinnedInv
  <2>2. Return(t, "incompatible") \/ (Move(t, l, v) /\ UNCHANGED res)
    BY <1>4 DEF ProbeCommand
  <2>3. l \in {"probe", "compare"}
    OBVIOUS
  <2> HIDE DEF k, noted, r, l
  <2>4. v.op = loc[t].op
    BY DEF TypeInv, TypeOK
  <2>5. PinnedAt(pc[t], loc[t], manifest) /\ pc[t] = "probe"
    BY <1>4 DEF ProbeCommand, PinnedInv
  <2>6. PinnedAt(l, v, manifest')
    BY <2>1, <2>3, <2>4, <2>5 DEF PinnedAt
  <2> QED
    BY <2>1, <2>2, <2>6, PinnedMove, PinnedReturn
<1>5. ASSUME NEW t \in Threads, ProbeFails(t) \/ Compare(t) PROVE PinnedInv'
  <2>1. UNCHANGED <<manifest, opened>> /\ (opened' => manifest' = Pinned)
    BY <1>5 DEF ProbeFails, Compare, PinnedInv
  <2>2. ~ (pc[t] = "compare" /\ loc[t].op = "probe" /\ manifest = NoVersion)
    BY RuntimeAssumption, NoVersionAssumption DEF PinnedInv, PinnedAt
  <2>3. CASE \E k \in {"ok", "unavailable", "incompatible"} : Return(t, k)
    BY <2>1, <2>3, PinnedReturn
  <2>4. CASE Goto(t, "publish") /\ UNCHANGED res /\ loc[t].ver = Pinned
    BY <2>1, <2>4, PinnedMove DEF Goto, PinnedAt
  <2> QED
    BY <1>5, <2>2, <2>3, <2>4 DEF ProbeFails, Compare
<1>6. ASSUME NEW t \in Threads, Publish(t) PROVE PinnedInv'
  <2>1. manifest' = Pinned /\ loc[t].ver = Pinned /\ Goto(t, "published") /\ UNCHANGED res
    BY <1>6 DEF Publish, PinnedInv, PinnedAt
  <2> QED
    BY <2>1, PinnedMove DEF Goto, PinnedAt
<1>7. ASSUME NEW t \in Threads, PublishOpened(t) PROVE PinnedInv'
  BY <1>7, PinnedReturn DEF PublishOpened, PinnedInv, PinnedAt
<1>8. ASSUME NEW t \in Threads, MarkClosed(t) \/ MarkNotOpened(t) PROVE PinnedInv'
  BY <1>8, PinnedMove DEF MarkClosed, MarkNotOpened, Goto, PinnedInv, PinnedAt
<1>9. ASSUME NEW t \in Threads, CloseHandle(t) PROVE PinnedInv'
  <2>1. UNCHANGED <<manifest, opened>> /\ (opened' => manifest' = Pinned)
    BY <1>9 DEF CloseHandle, PinnedInv
  <2>2. CASE \E k \in {"raised", "ok"} : Return(t, k)
    BY <2>1, <2>2, PinnedReturn
  <2>3. CASE \E v : Move(t, "handles", v) /\ UNCHANGED res
    BY <2>1, <2>3, PinnedMove DEF PinnedAt
  <2> QED
    BY <1>9, <2>2, <2>3 DEF CloseHandle
<1>10. CASE EngineChange
  <2>1. \A t \in Threads : loc'[t].op = loc[t].op /\ loc'[t].ver = loc[t].ver
    BY <1>10 DEF EngineChange, TypeInv, TypeOK
  <2>2. UNCHANGED <<opened, manifest, pc, res>>
    BY <1>10 DEF EngineChange
  <2> QED
    BY <2>1, <2>2 DEF PinnedInv, PinnedAt
<1>11. CASE UNCHANGED vars
  BY <1>11 DEF vars, PinnedInv
<1> QED
  BY <1>1, <1>2, <1>3, <1>4, <1>5, <1>6, <1>7, <1>8, <1>9, <1>10, <1>11
     DEF Next, Step, Finished

(* OpenedIsPinned: an opened runtime holds a startup probe of the pinned   *)
(* release, and probe never finds it absent, for any threads and changes.  *)
THEOREM OpenedIsPinnedHolds == Spec => []OpenedIsPinned
<1>1. Init => PinnedInv
  BY DEF Init, PinnedInv, PinnedAt
<1>2. PinnedInv => OpenedIsPinned
  BY DEF PinnedInv, OpenedIsPinned
<1> QED
  BY <1>1, <1>2, TypeInit, TypeNext, PinnedNext, PTL DEF Spec

-----------------------------------------------------------------------------
(* Closing the handles. *)

(* The handles before a closer's next one were tried, ... *)
HandlesTried == \A t \in Threads : pc[t] = "handles" => 1 .. (loc[t].step - 1) \subseteq tried

(* ... and as long as not all were, whoever set _closed is still at work. *)
CloserAtWork ==
    closed => \/ tried = 1 .. NHandles
              \/ \E t \in Threads : pc[t] \in {"closing2", "handles"}

CloseInv == HandlesTried /\ CloserAtWork

(* A thread that is no closer moves on. *)
LEMMA CloseMove ==
    ASSUME TypeInv, CloseInv, NEW t \in Threads, NEW l, NEW v, Move(t, l, v),
           pc[t] \notin {"closing2", "handles"}, l # "handles",
           UNCHANGED <<closed, tried>>
    PROVE  CloseInv'
<1>1. /\ pc'[t] = l /\ loc'[t] = v
      /\ \A s \in Threads \ {t} : pc'[s] = pc[s] /\ loc'[s] = loc[s]
  BY MoveEffect
<1>2. HandlesTried'
  BY <1>1 DEF CloseInv, HandlesTried
<1>3. CloserAtWork'
  BY <1>1 DEF CloseInv, CloserAtWork
<1> QED
  BY <1>2, <1>3 DEF CloseInv

(* No step loses a handle, however many threads close the runtime. *)
LEMMA CloseNext == TypeInv /\ CloseInv /\ [Next]_vars => CloseInv'
<1> SUFFICES ASSUME TypeInv, CloseInv, [Next]_vars PROVE CloseInv'
  OBVIOUS
<1>1. ASSUME NEW t \in Threads,
             \/ Begin(t) \/ EnsureNotClosed(t) \/ CheckOpened(t) \/ ProbeCommand(t)
             \/ ProbeFails(t) \/ Compare(t) \/ Publish(t) \/ PublishOpened(t)
             \/ CloseCheck(t)
      PROVE  CloseInv'
  <2>1. UNCHANGED <<closed, tried>> /\ pc[t] \notin {"closing2", "handles"}
    BY <1>1 DEF Begin, EnsureNotClosed, CheckOpened, ProbeCommand, ProbeFails, Compare,
                Publish, PublishOpened, CloseCheck
  <2>2. \E l, v : l # "handles" /\ Move(t, l, v)
    BY <1>1 DEF Begin, EnsureNotClosed, CheckOpened, ProbeCommand, ProbeFails, Compare,
                Publish, PublishOpened, CloseCheck, Return, Goto, StartProbe
  <2> QED
    BY <2>1, <2>2, CloseMove
<1>2. ASSUME NEW t \in Threads, MarkClosed(t) PROVE CloseInv'
  <2>1. /\ pc'[t] = "closing2" /\ UNCHANGED tried
        /\ \A s \in Threads \ {t} : pc'[s] = pc[s] /\ loc'[s] = loc[s]
    BY <1>2, MoveEffect DEF MarkClosed, Goto
  <2> QED
    BY <2>1 DEF CloseInv, HandlesTried, CloserAtWork
<1>3. ASSUME NEW t \in Threads, MarkNotOpened(t) PROVE CloseInv'
  <2>1. /\ pc'[t] = "handles" /\ loc'[t] = loc[t] /\ UNCHANGED <<closed, tried>>
        /\ \A s \in Threads \ {t} : pc'[s] = pc[s] /\ loc'[s] = loc[s]
    BY <1>3, MoveEffect DEF MarkNotOpened, Goto
  <2>2. 1 .. (loc'[t].step - 1) \subseteq tried'
    BY <1>3, <2>1 DEF MarkNotOpened, TypeInv, Counts
  <2> QED
    BY <2>1, <2>2 DEF CloseInv, HandlesTried, CloserAtWork
<1>4. ASSUME NEW t \in Threads, CloseHandle(t) PROVE CloseInv'
  <2>1. /\ pc[t] = "handles" /\ UNCHANGED closed /\ tried' = tried \cup {loc[t].step}
        /\ loc[t].step \in 1 .. NHandles
    BY <1>4 DEF CloseHandle, TypeInv, Counts
  <2>2. 1 .. loc[t].step \subseteq tried'
    BY <2>1 DEF CloseInv, HandlesTried
  <2>3. CASE loc[t].step = NHandles /\ \E v : Move(t, "idle", v)
    <3>1. pc'[t] = "idle" /\ \A s \in Threads \ {t} : pc'[s] = pc[s] /\ loc'[s] = loc[s]
      BY <2>3, MoveEffect
    <3>2. tried' = 1 .. NHandles
      BY <2>1, <2>2, <2>3 DEF TypeInv, TypeOK
    <3> QED
      BY <2>1, <3>1, <3>2 DEF CloseInv, HandlesTried, CloserAtWork
  <2>4. CASE \E failed \in BOOLEAN :
                Move(t, "handles", [loc[t] EXCEPT !.step = @ + 1, !.failed = failed])
    <3>1. PICK failed \in BOOLEAN :
                Move(t, "handles", [loc[t] EXCEPT !.step = @ + 1, !.failed = failed])
      BY <2>4
    <3>2. /\ pc'[t] = "handles"
          /\ loc'[t] = [loc[t] EXCEPT !.step = @ + 1, !.failed = failed]
          /\ \A s \in Threads \ {t} : pc'[s] = pc[s] /\ loc'[s] = loc[s]
      BY <3>1, MoveEffect
    <3>3. loc'[t].step = loc[t].step + 1
      BY <3>2 DEF TypeInv, TypeOK
    <3>4. 1 .. (loc'[t].step - 1) \subseteq tried'
      BY <2>1, <2>2, <3>3
    <3> QED
      BY <2>1, <3>2, <3>4 DEF CloseInv, HandlesTried, CloserAtWork
  <2>5. loc[t].failed \in BOOLEAN
    BY DEF TypeInv, TypeOK
  <2> QED
    BY <1>4, <2>3, <2>4, <2>5 DEF CloseHandle, Return
<1>5. CASE EngineChange
  <2>1. \A t \in Threads : loc'[t].step = loc[t].step
    BY <1>5 DEF EngineChange, TypeInv, TypeOK
  <2>2. UNCHANGED <<closed, tried, pc>>
    BY <1>5 DEF EngineChange
  <2> QED
    BY <2>1, <2>2 DEF CloseInv, HandlesTried, CloserAtWork
<1>6. CASE UNCHANGED vars
  BY <1>6 DEF vars, CloseInv, HandlesTried, CloserAtWork
<1> QED
  BY <1>1, <1>2, <1>3, <1>4, <1>5, <1>6 DEF Next, Step, Finished

(* CloseIsComplete: a closed runtime on which no close is at work has      *)
(* attempted to close each of its handles, however many closes raced and   *)
(* whichever handles raised.                                               *)
THEOREM CloseIsCompleteHolds == Spec => []CloseIsComplete
<1>1. Init => CloseInv
  BY DEF Init, CloseInv, HandlesTried, CloserAtWork
<1>2. CloseInv => CloseIsComplete
  BY DEF CloseInv, CloserAtWork, CloseIsComplete
<1> QED
  BY <1>1, <1>2, TypeInit, TypeNext, CloseNext, PTL DEF Spec

-----------------------------------------------------------------------------
(* Calls on a closed runtime. *)

(* A call that began on a closed runtime has not passed its first test. *)
LateInv ==
    \A t \in Threads : loc[t].late => closed /\ (loc[t].op = "close" \/ pc[t] = "closed?")

(* _closed is never cleared. *)
LEMMA StaysClosed == TypeInv /\ [Next]_vars => (closed => closed')
BY DEF Next, vars, Begin, Step, EnsureNotClosed, CheckOpened, ProbeCommand, ProbeFails,
       Compare, Publish, PublishOpened, CloseCheck, MarkClosed, MarkNotOpened,
       CloseHandle, EngineChange, Finished

(* One thread moves and, if its call began on a closed runtime, not past   *)
(* the first test.                                                         *)
LEMMA LateMove ==
    ASSUME TypeInv, LateInv, [Next]_vars, NEW t \in Threads, NEW l, NEW v, Move(t, l, v),
           v.late => closed /\ (v.op = "close" \/ l = "closed?")
    PROVE  LateInv'
<1>1. /\ pc'[t] = l /\ loc'[t] = v
      /\ \A s \in Threads \ {t} : pc'[s] = pc[s] /\ loc'[s] = loc[s]
  BY MoveEffect
<1> QED
  BY <1>1, StaysClosed DEF LateInv

(* A call that returned is no longer late. *)
LEMMA LateReturn ==
    ASSUME TypeInv, LateInv, [Next]_vars, NEW t \in Threads, NEW k, Return(t, k)
    PROVE  LateInv'
BY LateMove DEF Return, NoLocals

(* No step takes a late call past _ensure_not_closed. *)
LEMMA LateNext == TypeInv /\ LateInv /\ [Next]_vars => LateInv'
<1> SUFFICES ASSUME TypeInv, LateInv, [Next]_vars PROVE LateInv'
  OBVIOUS
<1>1. ASSUME NEW t \in Threads, Begin(t) PROVE LateInv'
  <2>1. PICK o \in Operations :
           Move(t, IF o = "close" THEN "close?" ELSE "closed?",
                [NoLocals EXCEPT !.op = o, !.late = closed])
    BY <1>1 DEF Begin
  <2> DEFINE v == [NoLocals EXCEPT !.op = o, !.late = closed]
             l == IF o = "close" THEN "close?" ELSE "closed?"
  <2>2. v.op = o /\ v.late = closed
    BY DEF NoLocals
  <2>3. Move(t, l, v)
    BY <2>1
  <2> HIDE DEF v
  <2>4. v.late => closed /\ (v.op = "close" \/ l = "closed?")
    BY <2>2
  <2> QED
    BY <2>3, <2>4, LateMove
<1>2. ASSUME NEW t \in Threads, pc[t] # "closed?", NEW l, NEW v, Move(t, l, v),
             v.late = loc[t].late, v.op = loc[t].op
      PROVE  LateInv'
  BY <1>2, LateMove DEF LateInv
<1>3. ASSUME NEW t \in Threads, EnsureNotClosed(t) PROVE LateInv'
  <2>1. CASE Goto(t, "opened?") /\ ~ closed
    BY <2>1, LateMove DEF Goto, LateInv
  <2> QED
    BY <1>3, <2>1, LateReturn DEF EnsureNotClosed
<1>4. ASSUME NEW t \in Threads, CheckOpened(t) PROVE LateInv'
  <2>1. CASE StartProbe(t)
    <3> DEFINE w == Wrong
               v == [loc[t] EXCEPT !.lasting = w]
    <3>1. Move(t, "probe", v) /\ pc[t] # "closed?"
      BY <1>4, <2>1 DEF CheckOpened, StartProbe
    <3> HIDE DEF w
    <3>2. v.late = loc[t].late /\ v.op = loc[t].op
      BY DEF TypeInv, TypeOK
    <3> QED
      BY <1>2, <3>1, <3>2
  <2>2. StartProbe(t) \/ \E k : Return(t, k)
    BY <1>4 DEF CheckOpened
  <2> QED
    BY <2>1, <2>2, LateReturn
<1>5. ASSUME NEW t \in Threads, ProbeCommand(t) PROVE LateInv'
  <2> DEFINE k     == ProbeCommands[loc[t].step]
             noted == (loc[t].noted \cup Failing(k)) \ Waived
             r == IF k = "server" THEN engine.version ELSE loc[t].ver
             l == IF loc[t].step = Len(ProbeCommands) THEN "compare" ELSE "probe"
             v == [loc[t] EXCEPT !.step = @ + 1, !.noted = noted, !.ver = r]
  <2>1. pc[t] # "closed?" /\ (Return(t, "incompatible") \/ Move(t, l, v))
    BY <1>5 DEF ProbeCommand
  <2> HIDE DEF k, noted, r, l
  <2>2. v.op = loc[t].op /\ v.late = loc[t].late
    BY DEF TypeInv, TypeOK
  <2> QED
    BY <1>2, <2>1, <2>2, LateReturn
<1>6. ASSUME NEW t \in Threads,
             ProbeFails(t) \/ Compare(t) \/ Publish(t) \/ PublishOpened(t) \/ CloseCheck(t)
               \/ MarkClosed(t) \/ MarkNotOpened(t)
      PROVE  LateInv'
  <2>1. pc[t] # "closed?" /\ ((\E k : Return(t, k)) \/ \E l : Move(t, l, loc[t]))
    BY <1>6 DEF ProbeFails, Compare, Publish, PublishOpened, CloseCheck, MarkClosed,
                MarkNotOpened, Goto
  <2> QED
    BY <1>2, <2>1, LateReturn
<1>7. ASSUME NEW t \in Threads, CloseHandle(t) PROVE LateInv'
  <2>1. ASSUME NEW failed, Move(t, "handles", [loc[t] EXCEPT !.step = @ + 1, !.failed = failed])
        PROVE  LateInv'
    <3> DEFINE v == [loc[t] EXCEPT !.step = @ + 1, !.failed = failed]
    <3>1. v.op = loc[t].op /\ v.late = loc[t].late
      BY DEF TypeInv, TypeOK
    <3>2. pc[t] # "closed?"
      BY <1>7 DEF CloseHandle
    <3> QED
      BY <1>2, <2>1, <3>1, <3>2
  <2> QED
    BY <1>7, <2>1, LateReturn DEF CloseHandle
<1>8. CASE EngineChange
  <2>1. \A t \in Threads : loc'[t].op = loc[t].op /\ loc'[t].late = loc[t].late
    BY <1>8 DEF EngineChange, TypeInv, TypeOK
  <2>2. UNCHANGED <<closed, pc>>
    BY <1>8 DEF EngineChange
  <2> QED
    BY <2>1, <2>2 DEF LateInv
<1>9. CASE UNCHANGED vars
  BY <1>9 DEF vars, LateInv
<1> QED
  BY <1>1, <1>3, <1>4, <1>5, <1>6, <1>7, <1>8, <1>9 DEF Next, Step, Finished

(* A thread's place changes by its own steps only. *)
LEMMA OwnSteps ==
    ASSUME TypeInv, [Next]_vars, NEW t \in Threads, pc'[t] # pc[t]
    PROVE  Begin(t) \/ Step(t)
<1>1. ASSUME NEW s \in Threads, Begin(s) \/ Step(s)
      PROVE  \E l, v : Move(s, l, v)
  BY <1>1 DEF Begin, Step, EnsureNotClosed, CheckOpened, ProbeCommand, ProbeFails, Compare,
              Publish, PublishOpened, CloseCheck, MarkClosed, MarkNotOpened, CloseHandle,
              Return, Goto, StartProbe
<1>2. ASSUME NEW s \in Threads, Begin(s) \/ Step(s)
      PROVE  s = t
  BY <1>1, <1>2, MoveEffect
<1>3. ~ EngineChange /\ ~ UNCHANGED vars
  BY DEF EngineChange, vars
<1> QED
  BY <1>2, <1>3 DEF Next, Finished

(* NoUseAfterClose: a call that begins on a closed runtime ends with the   *)
(* closed error, although an open that is late sets _opened again.         *)
THEOREM NoUseAfterCloseHolds == Spec => NoUseAfterClose
<1>1. Init => LateInv
  BY DEF Init, LateInv, NoLocals
<1>2. ASSUME TypeInv, LateInv, [Next]_vars, NEW t \in Threads,
             loc[t].late, loc[t].op # "close", pc'[t] = "idle"
      PROVE  res'[t] = "closed"
  <2>1. closed /\ pc[t] = "closed?"
    BY <1>2 DEF LateInv
  <2>2. Begin(t) \/ Step(t)
    BY <1>2, <2>1, OwnSteps
  <2>3. EnsureNotClosed(t)
    BY <2>1, <2>2 DEF Begin, Step, CheckOpened, ProbeCommand, ProbeFails, Compare, Publish,
                      PublishOpened, CloseCheck, MarkClosed, MarkNotOpened, CloseHandle
  <2> QED
    BY <1>2, <2>1, <2>3 DEF EnsureNotClosed, Return, TypeInv, TypeOK
<1>3. TypeInv /\ LateInv /\ [Next]_vars
        => [\A t \in Threads : loc[t].late /\ loc[t].op # "close" /\ pc'[t] = "idle"
               => res'[t] = "closed"]_vars
  BY <1>2
<1> QED
  BY <1>1, <1>3, TypeInit, TypeNext, LateNext, PTL DEF Spec, NoUseAfterClose

-----------------------------------------------------------------------------
(* What a probe cannot overlook. *)

(* The facts read, and those judged, before the n-th command. *)
Read(n) == {f \in Facts : \E i \in 1 .. n - 1 : f \in Reads(ProbeCommands[i])}
JudgedBefore(n) == {f \in Facts : \E i \in 1 .. n - 1 : f \in Judged(ProbeCommands[i])}

(* A thread at l with locals v while w is wrong with the engine.  What was *)
(* wrong all along still is, was noted when it was read, and nothing noted *)
(* was passed by its judgement.                                            *)
DriftAt(l, v, w) ==
    /\ l \in {"closed?", "opened?"} => v.noted = {}
    /\ l = "probe" => v.lasting \subseteq w
    /\ l \in {"probe", "compare"} =>
          /\ (v.lasting \cap Read(v.step)) \ Waived \subseteq v.noted
          /\ v.noted \cap JudgedBefore(v.step) = {}
          /\ v.step > 2 /\ "version" \in v.lasting => v.ver # Pinned
    /\ l \in {"publish", "published"} => v.lasting \subseteq Waived

DriftInv == \A t \in Threads : DriftAt(pc[t], loc[t], Wrong)

(* A fact is not judged before it is read. *)
LEMMA ReadBeforeJudged ==
    \A n \in 1 .. 11 : Reads(ProbeCommands[n]) \cap JudgedBefore(n) = {}
<1> SUFFICES ASSUME NEW n \in 1 .. 11, NEW i \in 1 .. n - 1
             PROVE  Reads(ProbeCommands[n]) \cap Judged(ProbeCommands[i]) = {}
  BY DEF JudgedBefore
<1>1. i \in 1 .. 10 /\ i < n
  OBVIOUS
<1>2. \A j \in 1 .. 10 : \/ j = 1 \/ j = 2 \/ j = 3 \/ j = 4 \/ j = 5 \/ j = 6 \/ j = 7
                         \/ j = 8 \/ j = 9 \/ j = 10
  OBVIOUS
<1>3. \A j \in 1 .. 11 : \/ j = 1 \/ j = 2 \/ j = 3 \/ j = 4 \/ j = 5 \/ j = 6 \/ j = 7
                         \/ j = 8 \/ j = 9 \/ j = 10 \/ j = 11
  OBVIOUS
<1>4. CASE i \in {1, 5, 6}
  BY <1>1, <1>3, <1>4, Commands DEF Judged, Reads
<1>5. CASE i \in {2, 3, 7}
  BY <1>5, Commands DEF Judged
<1>6. CASE i \in {4, 8}
  BY <1>1, <1>3, <1>6, Commands DEF Judged, Reads
<1>7. CASE i \in {9, 10}
  BY <1>1, <1>3, <1>7, Commands DEF Judged, Reads
<1> QED
  BY <1>1, <1>2, <1>4, <1>5, <1>6, <1>7

(* In the end every fact has been judged. *)
LEMMA AllJudged == Read(12) = Facts /\ JudgedBefore(12) = Facts
<1>1. ASSUME NEW f \in Facts PROVE f \in Read(12)
  <2>1. \E i \in 1 .. 11 : f = ProbeCommands[i] \/ (f = "maxmemory" /\ i = 3)
    BY Commands
  <2>2. \E i \in 1 .. 11 : f \in Reads(ProbeCommands[i])
    BY <2>1, Commands DEF Reads
  <2> QED
    BY <2>2 DEF Read
<1>2. ASSUME NEW f \in Facts PROVE f \in JudgedBefore(12)
  <2>1. CASE f \in {"ping", "server", "memory", "maxmemory", "replication", "commands"}
    <3>1. f \in Judged(ProbeCommands[1]) \/ f \in Judged(ProbeCommands[4])
            \/ f \in Judged(ProbeCommands[6]) \/ f \in Judged(ProbeCommands[8])
            \/ f \in Judged(ProbeCommands[5])
      BY <2>1, Commands DEF Judged
    <3> QED
      BY <3>1 DEF JudgedBefore
  <2>2. CASE f \in {"policy", "appendonly", "save", "loadcas", "loadrelease", "exists"}
    <3>1. f \in Judged(ProbeCommands[6]) \/ f \in Judged(ProbeCommands[8])
            \/ f \in Judged(ProbeCommands[9]) \/ f \in Judged(ProbeCommands[10])
            \/ f \in Judged(ProbeCommands[11])
      BY <2>2, Commands DEF Judged
    <3> QED
      BY <3>1 DEF JudgedBefore
  <2> QED
    BY <2>1, <2>2, Commands
<1> QED
  BY <1>1, <1>2 DEF Read, JudgedBefore

(* The n-th command reads its facts and has its judgement made. *)
LEMMA ReadNext ==
    ASSUME NEW n \in 1 .. 11
    PROVE  /\ Read(n + 1) = Read(n) \cup Reads(ProbeCommands[n])
           /\ JudgedBefore(n + 1)
                = JudgedBefore(n) \cup (Judged(ProbeCommands[n]) \cap Facts)
<1>1. \A i : i \in 1 .. n <=> i \in 1 .. n - 1 \/ i = n
  OBVIOUS
<1>2. n + 1 - 1 = n
  OBVIOUS
<1>3. Read(n + 1) = {f \in Facts : \E i \in 1 .. n : f \in Reads(ProbeCommands[i])}
  BY <1>2 DEF Read
<1>4. JudgedBefore(n + 1) = {f \in Facts : \E i \in 1 .. n : f \in Judged(ProbeCommands[i])}
  BY <1>2 DEF JudgedBefore
<1>5. Read(n + 1) = Read(n) \cup Reads(ProbeCommands[n])
  <2>1. Reads(ProbeCommands[n]) \subseteq Facts
    BY Commands, FailingType
  <2> QED
    BY <1>1, <1>3, <2>1 DEF Read
<1>6. JudgedBefore(n + 1) = JudgedBefore(n) \cup (Judged(ProbeCommands[n]) \cap Facts)
  BY <1>1, <1>4 DEF JudgedBefore
<1> QED
  BY <1>5, <1>6

(* Only an engine change alters what is wrong with the engine. *)
LEMMA DriftMove ==
    ASSUME TypeInv, DriftInv, NEW t \in Threads, NEW l, NEW v, Move(t, l, v),
           Wrong' = Wrong, DriftAt(l, v, Wrong)
    PROVE  DriftInv'
<1>1. /\ pc'[t] = l /\ loc'[t] = v
      /\ \A s \in Threads \ {t} : pc'[s] = pc[s] /\ loc'[s] = loc[s]
  BY MoveEffect
<1> QED
  BY <1>1 DEF DriftInv

(* A call that returns has nothing left to overlook. *)
LEMMA DriftReturn ==
    ASSUME TypeInv, DriftInv, NEW t \in Threads, NEW k, Return(t, k), Wrong' = Wrong
    PROVE  DriftInv'
<1>1. Move(t, "idle", NoLocals) /\ DriftAt("idle", NoLocals, Wrong)
  BY DEF Return, DriftAt
<1> QED
  BY <1>1, DriftMove

(* A probe starts with no fact read and none judged. *)
LEMMA DriftStart ==
    ASSUME TypeInv, DriftInv, NEW t \in Threads, pc[t] = "opened?", StartProbe(t),
           Wrong' = Wrong
    PROVE  DriftInv'
<1> DEFINE w == Wrong
           v == [loc[t] EXCEPT !.lasting = w]
<1>1. Move(t, "probe", v)
  BY DEF StartProbe
<1>2. loc[t].step = 1 /\ loc[t].noted = {}
  BY DEF TypeInv, Counts, DriftInv, DriftAt
<1> HIDE DEF w
<1>3. v.step = 1 /\ v.noted = {} /\ v.lasting = w
  BY <1>2 DEF TypeInv, TypeOK
<1> HIDE DEF v
<1>4. Read(1) = {} /\ JudgedBefore(1) = {}
  BY DEF Read, JudgedBefore
<1>5. DriftAt("probe", v, w)
  BY <1>3, <1>4 DEF DriftAt
<1> QED
  BY <1>1, <1>5, DriftMove DEF w

(* A command notes what it finds; the judgements made so far are passed by *)
(* nothing noted.                                                          *)
LEMMA DriftCommand ==
    ASSUME TypeInv, DriftInv, NEW t \in Threads, ProbeCommand(t), Wrong' = Wrong
    PROVE  DriftInv'
<1> DEFINE n     == loc[t].step
           k     == ProbeCommands[n]
           noted == (loc[t].noted \cup Failing(k)) \ Waived
           r     == IF k = "server" THEN engine.version ELSE loc[t].ver
           l     == IF n = Len(ProbeCommands) THEN "compare" ELSE "probe"
           v     == [loc[t] EXCEPT !.step = n + 1, !.noted = noted, !.ver = r]
<1>1. /\ pc[t] = "probe"
      /\ \/ Return(t, "incompatible")
         \/ noted \cap Judged(k) = {} /\ Move(t, l, v)
  BY DEF ProbeCommand
<1>2. CASE Return(t, "incompatible")
  BY <1>2, DriftReturn
<1>3. CASE noted \cap Judged(k) = {} /\ Move(t, l, v)
  <2>1. n \in 1 .. 11 /\ k \in Facts
    BY <1>1, Commands DEF TypeInv, Counts
  <2>2. loc[t] \in Locals /\ loc[t].lasting \subseteq Wrong
    BY <1>1 DEF TypeInv, TypeOK, Locals, DriftInv, DriftAt
  <2>3. /\ (loc[t].lasting \cap Read(n)) \ Waived \subseteq loc[t].noted
        /\ loc[t].noted \cap JudgedBefore(n) = {}
        /\ n > 2 /\ "version" \in loc[t].lasting => loc[t].ver # Pinned
    BY <1>1 DEF DriftInv, DriftAt
  <2>4. Failing(k) \subseteq Reads(k) /\ loc[t].lasting \cap Reads(k) \subseteq Failing(k)
    <3>1. "version" \notin Reads(k)
      BY <2>1, Commands, FailingType
    <3>2. Wrong \cap Reads(k) \subseteq engine.bad
      BY <3>1 DEF Wrong
    <3>3. "exists" \notin engine.bad
      BY RuntimeAssumption DEF TypeInv, TypeOK
    <3> QED
      BY <2>1, <2>2, <3>2, <3>3, FailingType DEF Failing, Reads
  <2>5. /\ Read(n + 1) = Read(n) \cup Reads(k)
        /\ JudgedBefore(n + 1) = JudgedBefore(n) \cup (Judged(k) \cap Facts)
        /\ Reads(k) \cap JudgedBefore(n) = {}
    BY <2>1, ReadNext, ReadBeforeJudged
  <2>6. (loc[t].lasting \cap Read(n + 1)) \ Waived \subseteq noted
    BY <2>3, <2>4, <2>5
  <2>7. noted \cap JudgedBefore(n + 1) = {}
    BY <1>3, <2>3, <2>4, <2>5
  <2>8. n + 1 > 2 /\ "version" \in loc[t].lasting => r # Pinned
    <3>1. CASE n = 2
      <4>1. "version" \notin engine.bad
        BY RuntimeAssumption, Commands DEF TypeInv, TypeOK
      <4> QED
        BY <3>1, <4>1, <2>2, Commands DEF Wrong
    <3>2. CASE n > 2
      <4>1. \A i \in 1 .. 11 : i > 2 => ProbeCommands[i] # "server"
        <5>1. \A i \in 1 .. 11 : i > 2 => i \in {3, 4, 5, 6, 7, 8, 9, 10, 11}
          OBVIOUS
        <5> QED
          BY <5>1, Commands
      <4> QED
        BY <2>1, <2>3, <3>2, <4>1
    <3> QED
      BY <2>1, <3>1, <3>2
  <2>9. n + 1 \in Nat /\ n \in Nat
    BY <2>1
  <2> DEFINE m == n + 1
  <2> HIDE DEF noted, r, k
  <2>10. v.step = m /\ v.noted = noted /\ v.ver = r /\ v.lasting = loc[t].lasting
    BY <2>2 DEF Locals
  <2> HIDE DEF v, l
  <2>11. l \in {"probe", "compare"}
    BY DEF l
  <2>12. DriftAt(l, v, Wrong)
    BY <2>2, <2>6, <2>7, <2>8, <2>10, <2>11 DEF DriftAt
  <2> QED
    BY <1>3, <2>12, DriftMove
<1> QED
  BY <1>1, <1>2, <1>3

(* A probe that read the pinned release and was not refused overlooked     *)
(* nothing that was wrong all along.                                       *)
LEMMA NothingOverlooked ==
    ASSUME TypeInv, DriftInv, NEW t \in Threads, pc[t] = "compare", loc[t].ver = Pinned
    PROVE  loc[t].lasting \subseteq Waived
<1>1. loc[t].step = 12 /\ loc[t].lasting \subseteq Facts \cup {"version"}
  BY DEF TypeInv, TypeOK, Counts
<1>2. /\ (loc[t].lasting \cap Facts) \ Waived \subseteq loc[t].noted
      /\ loc[t].noted \cap Facts = {}
      /\ "version" \notin loc[t].lasting
  BY <1>1, AllJudged DEF DriftInv, DriftAt
<1> QED
  BY <1>1, <1>2

(* What was wrong all along gets no more by a change of the engine. *)
LEMMA DriftChange == TypeInv /\ DriftInv /\ EngineChange => DriftInv'
<1> SUFFICES ASSUME TypeInv, DriftInv, EngineChange, NEW t \in Threads
             PROVE  DriftAt(pc'[t], loc'[t], Wrong')
  BY DEF DriftInv
<1>1. /\ loc'[t].lasting = loc[t].lasting \cap Wrong'
      /\ loc'[t].step = loc[t].step /\ loc'[t].noted = loc[t].noted
      /\ loc'[t].ver = loc[t].ver /\ pc'[t] = pc[t]
  BY DEF EngineChange, TypeInv, TypeOK
<1>2. DriftAt(pc[t], loc[t], Wrong)
  BY DEF DriftInv
<1> QED
  BY <1>1, <1>2 DEF DriftAt

(* No step makes a probe overlook what was wrong all along. *)
LEMMA DriftNext == TypeInv /\ DriftInv /\ [Next]_vars => DriftInv'
<1> SUFFICES ASSUME TypeInv, DriftInv, [Next]_vars PROVE DriftInv'
  OBVIOUS
<1>1. ASSUME NEW t \in Threads, Begin(t) \/ Step(t) PROVE Wrong' = Wrong
  <2>1. UNCHANGED engine \/ \E s : engine' = [engine EXCEPT !.scripts = s]
    BY <1>1 DEF Begin, Step, EnsureNotClosed, CheckOpened, ProbeCommand, ProbeFails,
                Compare, Publish, PublishOpened, CloseCheck, MarkClosed, MarkNotOpened,
                CloseHandle
  <2>2. engine'.bad = engine.bad /\ engine'.version = engine.version
    BY <2>1 DEF TypeInv, TypeOK
  <2> QED
    BY <2>2 DEF Wrong
<1>2. ASSUME NEW t \in Threads, Begin(t) PROVE DriftInv'
  <2>1. PICK o \in Operations :
           Move(t, IF o = "close" THEN "close?" ELSE "closed?",
                [NoLocals EXCEPT !.op = o, !.late = closed])
    BY <1>2 DEF Begin
  <2> DEFINE v == [NoLocals EXCEPT !.op = o, !.late = closed]
             l == IF o = "close" THEN "close?" ELSE "closed?"
  <2>2. v.noted = {}
    BY DEF NoLocals
  <2> HIDE DEF v
  <2>3. DriftAt(l, v, Wrong)
    BY <2>2 DEF DriftAt
  <2> QED
    BY <1>1, <1>2, <2>1, <2>3, DriftMove DEF v
<1>3. ASSUME NEW t \in Threads, EnsureNotClosed(t) \/ CloseCheck(t) PROVE DriftInv'
  <2>1. CASE \E k : Return(t, k)
    BY <1>1, <1>3, <2>1, DriftReturn DEF Step
  <2>2. CASE pc[t] = "closed?" /\ Goto(t, "opened?")
    <3>1. DriftAt("opened?", loc[t], Wrong)
      BY <2>2 DEF DriftInv, DriftAt
    <3> QED
      BY <1>1, <1>3, <2>2, <3>1, DriftMove DEF Step, Goto
  <2>3. CASE Goto(t, "closing")
    BY <1>1, <1>3, <2>3, DriftMove DEF Step, Goto, DriftAt
  <2> QED
    BY <1>3, <2>1, <2>2, <2>3 DEF EnsureNotClosed, CloseCheck
<1>4. ASSUME NEW t \in Threads, CheckOpened(t) PROVE DriftInv'
  <2>1. pc[t] = "opened?" /\ (StartProbe(t) \/ \E k : Return(t, k))
    BY <1>4 DEF CheckOpened
  <2> QED
    BY <1>1, <1>4, <2>1, DriftStart, DriftReturn DEF Step
<1>5. ASSUME NEW t \in Threads, ProbeCommand(t) PROVE DriftInv'
  BY <1>1, <1>5, DriftCommand DEF Step
<1>6. ASSUME NEW t \in Threads, ProbeFails(t) \/ Compare(t) PROVE DriftInv'
  <2>1. CASE \E k : Return(t, k)
    BY <1>1, <1>6, <2>1, DriftReturn DEF Step
  <2>2. CASE pc[t] = "compare" /\ loc[t].ver = Pinned /\ Goto(t, "publish")
    <3>1. DriftAt("publish", loc[t], Wrong)
      BY <2>2, NothingOverlooked DEF DriftAt
    <3> QED
      BY <1>1, <1>6, <2>2, <3>1, DriftMove DEF Step, Goto
  <2> QED
    BY <1>6, <2>1, <2>2 DEF ProbeFails, Compare
<1>7. ASSUME NEW t \in Threads, Publish(t) PROVE DriftInv'
  <2>1. pc[t] = "publish" /\ Goto(t, "published")
    BY <1>7 DEF Publish
  <2>2. DriftAt("published", loc[t], Wrong)
    BY <2>1 DEF DriftInv, DriftAt
  <2> QED
    BY <1>1, <1>7, <2>1, <2>2, DriftMove DEF Step, Goto
<1>8. ASSUME NEW t \in Threads, PublishOpened(t) PROVE DriftInv'
  BY <1>1, <1>8, DriftReturn DEF Step, PublishOpened
<1>9. ASSUME NEW t \in Threads, MarkClosed(t) \/ MarkNotOpened(t) PROVE DriftInv'
  BY <1>1, <1>9, DriftMove DEF Step, MarkClosed, MarkNotOpened, Goto, DriftAt
<1>10. ASSUME NEW t \in Threads, CloseHandle(t) PROVE DriftInv'
  <2>1. (\E k : Return(t, k)) \/ \E v : Move(t, "handles", v)
    BY <1>10 DEF CloseHandle
  <2>2. \A v : DriftAt("handles", v, Wrong)
    BY DEF DriftAt
  <2> QED
    BY <1>1, <1>10, <2>1, <2>2, DriftMove, DriftReturn DEF Step
<1>11. CASE UNCHANGED vars
  BY <1>11 DEF vars, DriftInv, Wrong
<1> QED
  BY <1>2, <1>3, <1>4, <1>5, <1>6, <1>7, <1>8, <1>9, <1>10, <1>11, DriftChange
     DEF Next, Step, Finished

(* DriftDetected: an open or a probe that succeeds overlooked nothing that *)
(* was wrong with the engine from its first command to its last, however   *)
(* often the engine changed meanwhile and whatever the Binding waives.     *)
THEOREM DriftDetectedHolds == Spec => DriftDetected
<1>1. Init => DriftInv
  BY DEF Init, DriftInv, DriftAt
<1>2. ASSUME TypeInv, PinnedInv, DriftInv, [Next]_vars, NEW t \in Threads,
             pc[t] \in {"compare", "published"}, pc'[t] = "idle", res'[t] = "ok"
      PROVE  loc[t].lasting \subseteq Waived
  <2>1. CASE pc[t] = "published"
    BY <2>1, <1>2 DEF DriftInv, DriftAt
  <2>2. CASE pc[t] = "compare"
    <3>1. Begin(t) \/ Step(t)
      BY <1>2, <2>2, OwnSteps
    <3>2. Compare(t)
      BY <2>2, <3>1 DEF Begin, Step, EnsureNotClosed, CheckOpened, ProbeCommand, ProbeFails,
                        Publish, PublishOpened, CloseCheck, MarkClosed, MarkNotOpened,
                        CloseHandle
    <3>3. ~ Goto(t, "publish")
      BY <1>2, MoveEffect DEF Goto
    <3>4. \A k : Return(t, k) => k = "ok"
      BY <1>2 DEF Return, TypeInv, TypeOK
    <3>5. loc[t].op = "probe" /\ Fingerprint(loc[t].ver) = Fingerprint(manifest)
      BY <3>2, <3>3, <3>4 DEF Compare
    <3>6. manifest = Pinned /\ loc[t].ver = manifest
      BY <2>2, <1>2, <3>5 DEF PinnedInv, PinnedAt, Fingerprint
    <3> QED
      BY <1>2, <2>2, <3>6, NothingOverlooked
  <2> QED
    BY <1>2, <2>1, <2>2
<1>3. TypeInv /\ PinnedInv /\ DriftInv /\ [Next]_vars
        => [\A t \in Threads :
              pc[t] \in {"compare", "published"} /\ pc'[t] = "idle" /\ res'[t] = "ok"
                 => loc[t].lasting \subseteq Waived]_vars
  BY <1>2
<1>4. Init => PinnedInv
  BY DEF Init, PinnedInv, PinnedAt
<1> QED
  BY <1>1, <1>3, <1>4, TypeInit, TypeNext, PinnedNext, DriftNext, PTL
     DEF Spec, DriftDetected
=============================================================================
