-------------------------- MODULE SingleFlightProofs --------------------------
(***************************************************************************)
(* Proofs about SingleFlight, for any set of callers, any lease, wait,     *)
(* poll and TTL durations, any clock skew and any combination of faults.   *)
(***************************************************************************)
EXTENDS SingleFlight, TLAPS

(* effective_ttl_ms yields a positive duration. *)
LEMMA EffectiveTtlPositive ==
    ASSUME NEW v
    PROVE  EffectiveTtl(v) \in Nat \ {0}
BY TtlAssumption DEF EffectiveTtl, EffectiveTtlUnclamped, Least

(* The envelopes the code builds are envelopes. *)
LEMMA EnvelopeTypes ==
    /\ NoEnvelope \in EnvelopeType
    /\ \A v \in Nat : Unencoded(v) \in EnvelopeType
    /\ \A e \in EnvelopeType : [e EXCEPT !.frame = "damaged"] \in EnvelopeType
    /\ \A v, s, ttl, clock, t \in Nat : Encoded(v, s, ttl, clock, t) \in EnvelopeType
<1>1. NoEnvelope \in EnvelopeType
  BY DEF EnvelopeType, NoEnvelope, Unencoded, Frames
<1>2. ASSUME NEW v \in Nat
      PROVE  Unencoded(v) \in EnvelopeType
  BY DEF EnvelopeType, Unencoded, Frames
<1>3. ASSUME NEW e \in EnvelopeType
      PROVE  [e EXCEPT !.frame = "damaged"] \in EnvelopeType
  BY DEF EnvelopeType, Frames
<1>4. ASSUME NEW v \in Nat, NEW s \in Nat, NEW ttl \in Nat, NEW clock \in Nat, NEW t \in Nat
      PROVE  Encoded(v, s, ttl, clock, t) \in EnvelopeType
  BY DEF EnvelopeType, Encoded, Frames
<1> QED
  BY <1>1, <1>2, <1>3, <1>4

(* A control step to a known point with typed locals keeps pc and loc typed. *)
LEMMA MoveType ==
    ASSUME TypeOK, NEW p \in Procs, NEW l \in Pcs, NEW r \in Locals, Move(p, l, r)
    PROVE  pc' \in [Procs -> Pcs] /\ loc' \in [Procs -> Locals]
<1>1. NoLocals \in Locals
  BY EnvelopeTypes DEF NoLocals, Locals
<1> QED
  BY <1>1 DEF TypeOK, Move

(* Executing a command keeps the engine's two keys typed. *)
LEMMA CommandType ==
    ASSUME TypeOK, NEW c \in Commands
    PROVE  EntryAfter(c) \in Entries /\ LeaseAfter(c) \in Leases
<1>1. NoEntry \in Entries /\ NoLease \in Leases
  BY EnvelopeTypes DEF NoEntry, NoLease, Entries, Leases
<1>2. EntryAfter(c) \in Entries
  BY <1>1 DEF TypeOK, EntryAfter, EntryExpiry, Entries, Commands, PxOf, EnvelopeType
<1>3. LeaseAfter(c) \in Leases
  BY <1>1, LeaseAssumption DEF TypeOK, LeaseAfter, LeaseExpiry, Leases, Commands
<1> QED
  BY <1>2, <1>3

(* The commands get_or_load sends are commands. *)
LEMMA CommandsSent ==
    ASSUME TypeOK, NEW p \in Procs
    PROVE  /\ Token(p) \in Tokens
           /\ DeleteCommand \in Commands
           /\ AcquireCommand(Token(p)) \in Commands
           /\ ReleaseCommand(Token(p)) \in Commands
           /\ SetCommand(loc[p].buf) \in Commands
BY EnvelopeTypes DEF TypeOK, Token, Tokens, DeleteCommand, AcquireCommand,
   ReleaseCommand, SetCommand, Commands, Locals

(* A command executed or failed keeps the engine's variables typed. *)
LEMMA ExecutesType ==
    ASSUME TypeOK, NEW c \in Commands, Executes(c) \/ Fails(c)
    PROVE  /\ entry' \in Entries /\ lease' \in Leases
           /\ scripts' \in BOOLEAN /\ late' \subseteq Commands
           /\ replica' \in [entry : Entries, lease : Leases]
BY CommandType DEF TypeOK, Executes, Fails

(* get_or_load starts well typed. *)
LEMMA InitType == Init => TypeOK
<1>1. NoEntry \in Entries /\ NoLease \in Leases /\ NoLocals \in Locals
  BY EnvelopeTypes DEF NoEntry, NoLease, NoLocals, Entries, Leases, Locals
<1> SUFFICES ASSUME Init PROVE TypeOK
  OBVIOUS
<1>2. pc \in [Procs -> Pcs] /\ res \in [Procs -> ResultKinds] /\ calls \in [Procs -> Nat]
  BY DEF Init, Pcs, ResultKinds
<1>3. /\ now \in Nat /\ auth \in Nat /\ scripts \in BOOLEAN /\ loose \in BOOLEAN
      /\ late \subseteq Commands
  BY DEF Init
<1>4. /\ entry \in Entries /\ lease \in Leases /\ loc \in [Procs -> Locals]
      /\ replica \in [entry : Entries, lease : Leases]
  BY <1>1 DEF Init
<1> QED
  BY <1>2, <1>3, <1>4 DEF TypeOK

(* The end of a call's branch is a control step with typed locals. *)
LEMMA ConcludeType ==
    ASSUME TypeOK, NEW p \in Procs, NEW k \in ResultKinds, Conclude(p, k)
    PROVE  /\ pc' \in [Procs -> Pcs] /\ loc' \in [Procs -> Locals]
           /\ res' \in [Procs -> ResultKinds]
<1> DEFINE r == [loc[p] EXCEPT !.buf = NoEnvelope]
<1>1. r \in Locals
  BY EnvelopeTypes DEF TypeOK, Locals
<1>2. \E l \in Pcs : Move(p, l, r)
  BY DEF Conclude, Pcs, LeaderPcs
<1> HIDE DEF r
<1>3. pc' \in [Procs -> Pcs] /\ loc' \in [Procs -> Locals]
  BY <1>1, <1>2, MoveType
<1> QED
  BY <1>3 DEF Conclude, Outcome, TypeOK

(* A lookup that missed is a control step with typed locals. *)
LEMMA MissType ==
    ASSUME TypeOK, NEW p \in Procs, Miss(p)
    PROVE  pc' \in [Procs -> Pcs] /\ loc' \in [Procs -> Locals]
<1> DEFINE r == [loc[p] EXCEPT !.buf = NoEnvelope]
<1>1. r \in Locals
  BY EnvelopeTypes DEF TypeOK, Locals
<1>2. \E l \in Pcs : Move(p, l, r)
  BY DEF Miss, Pcs
<1> HIDE DEF r
<1> QED
  BY <1>1, <1>2, MoveType

(* Every change a call makes to its locals keeps their type. *)
LEMMA LocalsType ==
    ASSUME TypeOK, NEW p \in Procs
    PROVE  /\ loc[p] \in Locals /\ NoLocals \in Locals
           /\ [loc[p] EXCEPT !.buf = entry.env] \in Locals
           /\ [loc[p] EXCEPT !.role = "leader", !.until = now + LeaseMs] \in Locals
           /\ [loc[p] EXCEPT !.role = "waiter"] \in Locals
           /\ [loc[p] EXCEPT !.buf = Unencoded(auth)] \in Locals
           /\ [loc[p] EXCEPT !.buf = EncodedBy(p, @.val)] \in Locals
           /\ [loc[p] EXCEPT !.deadline = now + WaitMs] \in Locals
           /\ [loc[p] EXCEPT !.wake = now + PollMs] \in Locals
           /\ [loc[p] EXCEPT !.until = 0] \in Locals
<1> DEFINE e == EncodedBy(p, loc[p].buf.val)
<1>1. loc[p] \in Locals /\ entry.env \in EnvelopeType
  BY DEF TypeOK, Entries
<1>2. loc[p].buf.val \in Nat /\ Clock(p) \in Nat /\ now \in Nat /\ auth \in Nat
  BY <1>1, SkewAssumption DEF TypeOK, Locals, EnvelopeType, Clock
<1>3. e \in EnvelopeType
  BY <1>2, EnvelopeTypes, EffectiveTtlPositive DEF EncodedBy
<1>4. [loc[p] EXCEPT !.buf = EncodedBy(p, @.val)] = [loc[p] EXCEPT !.buf = e]
  OBVIOUS
<1> HIDE DEF e
<1>5. Unencoded(auth) \in EnvelopeType /\ NoEnvelope \in EnvelopeType
  BY <1>2, EnvelopeTypes
<1>6. \A b \in EnvelopeType : [loc[p] EXCEPT !.buf = b] \in Locals
  BY <1>1 DEF Locals
<1>7. /\ NoLocals \in Locals
      /\ [loc[p] EXCEPT !.role = "leader", !.until = now + LeaseMs] \in Locals
      /\ [loc[p] EXCEPT !.role = "waiter"] \in Locals
  <2>1. NoLocals \in Locals
    BY <1>5 DEF Locals, NoLocals
  <2>2. now + LeaseMs \in Nat
    BY <1>2, LeaseAssumption
  <2>3. [loc[p] EXCEPT !.role = "leader", !.until = now + LeaseMs] \in Locals
    BY <1>1, <2>2 DEF Locals
  <2>4. [loc[p] EXCEPT !.role = "waiter"] \in Locals
    BY <1>1 DEF Locals
  <2> QED
    BY <2>1, <2>3, <2>4
<1>8. /\ [loc[p] EXCEPT !.deadline = now + WaitMs] \in Locals
      /\ [loc[p] EXCEPT !.wake = now + PollMs] \in Locals
      /\ [loc[p] EXCEPT !.until = 0] \in Locals
  BY <1>1, <1>2, LeaseAssumption DEF Locals
<1> QED
  BY <1>1, <1>3, <1>4, <1>5, <1>6, <1>7, <1>8

(* Every step of get_or_load and of its environment keeps the types. *)
LEMMA NextType == TypeOK /\ [Next]_vars => TypeOK'
<1> SUFFICES ASSUME TypeOK, [Next]_vars PROVE TypeOK'
  OBVIOUS
<1>0. \A l \in Pcs, p \in Procs, r \in Locals :
         Move(p, l, r) => pc' \in [Procs -> Pcs] /\ loc' \in [Procs -> Locals]
  BY MoveType
<1>1. ASSUME NEW p \in Procs, Start(p) PROVE TypeOK'
  <2>1. pc' \in [Procs -> Pcs] /\ loc' \in [Procs -> Locals]
    BY <1>1, <1>0, LocalsType DEF Start, Pcs
  <2> QED
    BY <2>1, <1>1 DEF TypeOK, Start, Outcome, engineVars, ResultKinds
<1>2. ASSUME NEW p \in Procs, Step(p) PROVE TypeOK'
  <2>1. CASE Get(p)
    <3>1. pc' \in [Procs -> Pcs] /\ loc' \in [Procs -> Locals]
      BY <2>1, <1>0, MissType, LocalsType DEF Get, Pcs
    <3> QED
      BY <3>1, <2>1 DEF TypeOK, Get, engineVars
  <2>2. CASE Decode(p)
    <3>1. pc' \in [Procs -> Pcs] /\ loc' \in [Procs -> Locals]
      BY <2>2, <1>0, LocalsType DEF Decode, Pcs
    <3> QED
      BY <3>1, <2>2 DEF TypeOK, Decode, engineVars, Outcome, ResultKinds
  <2>3. CASE Discard(p)
    <3>1. pc' \in [Procs -> Pcs] /\ loc' \in [Procs -> Locals]
      BY <2>3, MissType DEF Discard
    <3>2. Executes(DeleteCommand) \/ Fails(DeleteCommand)
      BY <2>3 DEF Discard
    <3> QED
      BY <3>1, <3>2, <2>3, ExecutesType, CommandsSent DEF TypeOK, Discard
  <2>4. CASE Acquire(p)
    <3>1. pc' \in [Procs -> Pcs] /\ loc' \in [Procs -> Locals]
      BY <2>4, <1>0, LocalsType DEF Acquire, Pcs, LeaderPcs
    <3>2. Executes(AcquireCommand(Token(p)))
      BY <2>4 DEF Acquire
    <3> QED
      BY <3>1, <3>2, <2>4, ExecutesType, CommandsSent DEF TypeOK, Acquire
  <2>5. CASE LoadDegraded(p)
    BY <2>5, ConcludeType DEF TypeOK, LoadDegraded, engineVars, ResultKinds
  <2>6. CASE Load(p)
    <3>1. /\ pc' \in [Procs -> Pcs] /\ loc' \in [Procs -> Locals]
          /\ res' \in [Procs -> ResultKinds]
      BY <2>6, <1>0, ConcludeType, LocalsType DEF Load, Pcs, LeaderPcs, TypeOK, ResultKinds
    <3> QED
      BY <3>1, <2>6 DEF TypeOK, Load, engineVars
  <2>7. CASE Encode(p)
    <3>1. pc' \in [Procs -> Pcs] /\ loc' \in [Procs -> Locals]
      BY <2>7, <1>0, LocalsType DEF Encode, Pcs, LeaderPcs
    <3> QED
      BY <3>1, <2>7 DEF TypeOK, Encode, engineVars
  <2>8. CASE Set(p)
    <3>1. pc' \in [Procs -> Pcs] /\ loc' \in [Procs -> Locals]
      BY <2>8, <1>0, LocalsType DEF Set, Pcs, LeaderPcs
    <3>2. Executes(SetCommand(loc[p].buf))
      BY <2>8 DEF Set
    <3> QED
      BY <3>1, <3>2, <2>8, ExecutesType, CommandsSent DEF TypeOK, Set
  <2>9. CASE Verify(p)
    BY <2>9, ConcludeType DEF TypeOK, Verify, engineVars, ResultKinds
  <2>10. CASE Release(p)
    <3>1. pc' \in [Procs -> Pcs] /\ loc' \in [Procs -> Locals]
      BY <2>10, <1>0, LocalsType DEF Release, Pcs
    <3>2. Executes(ReleaseCommand(Token(p)))
      BY <2>10 DEF Release
    <3> QED
      BY <3>1, <3>2, <2>10, ExecutesType, CommandsSent DEF TypeOK, Release
  <2>11. CASE ReleaseNoScript(p) \/ ReloadScript(p)
    <3>1. pc' \in [Procs -> Pcs] /\ loc' \in [Procs -> Locals]
      BY <2>11, <1>0, LocalsType DEF ReleaseNoScript, ReloadScript, Pcs, LeaderPcs
    <3> QED
      BY <3>1, <2>11 DEF TypeOK, ReleaseNoScript, ReloadScript, engineVars
  <2>12. CASE Contend(p) \/ Wait(p) \/ Wake(p) \/ GiveUp(p)
    <3>1. pc' \in [Procs -> Pcs] /\ loc' \in [Procs -> Locals]
      BY <2>12, <1>0, LocalsType DEF Contend, Wait, Wake, GiveUp, Pcs, LeaderPcs
    <3> QED
      BY <3>1, <2>12 DEF TypeOK, Contend, Wait, Wake, GiveUp, engineVars
  <2> QED
    BY <1>2, <2>1, <2>2, <2>3, <2>4, <2>5, <2>6, <2>7, <2>8, <2>9, <2>10, <2>11,
       <2>12 DEF Step
<1>3. ASSUME NEW p \in Procs, Failure(p) PROVE TypeOK'
  <2>1. CASE GetFails(p)
    <3>1. pc' \in [Procs -> Pcs] /\ loc' \in [Procs -> Locals]
      BY <2>1, <1>0, LocalsType DEF GetFails, Pcs, LeaderPcs
    <3> QED
      BY <3>1, <2>1 DEF TypeOK, GetFails, engineVars
  <2>2. CASE AcquireFails(p)
    <3>1. pc' \in [Procs -> Pcs] /\ loc' \in [Procs -> Locals]
      BY <2>2, <1>0, LocalsType DEF AcquireFails, Pcs
    <3>2. Fails(AcquireCommand(Token(p)))
      BY <2>2 DEF AcquireFails
    <3> QED
      BY <3>1, <3>2, <2>2, ExecutesType, CommandsSent DEF TypeOK, AcquireFails
  <2>3. CASE LoadRaises(p) \/ EncodeRaises(p)
    BY <2>3, ConcludeType DEF TypeOK, LoadRaises, EncodeRaises, engineVars, ResultKinds
  <2>4. CASE SetFails(p)
    <3>1. /\ pc' \in [Procs -> Pcs] /\ loc' \in [Procs -> Locals]
          /\ res' \in [Procs -> ResultKinds]
      BY <2>4, ConcludeType DEF SetFails, ResultKinds
    <3>2. Fails(SetCommand(loc[p].buf))
      BY <2>4 DEF SetFails
    <3> QED
      BY <3>1, <3>2, <2>4, ExecutesType, CommandsSent DEF TypeOK, SetFails
  <2>5. CASE ReleaseFails(p)
    <3>1. pc' \in [Procs -> Pcs] /\ loc' \in [Procs -> Locals]
      BY <2>5, <1>0, LocalsType DEF ReleaseFails, Pcs
    <3>2. /\ entry' \in Entries /\ lease' \in Leases
          /\ scripts' \in BOOLEAN /\ late' \subseteq Commands
          /\ replica' \in [entry : Entries, lease : Leases]
      <4>1. CASE Fails(ReleaseCommand(Token(p)))
        BY <4>1, ExecutesType, CommandsSent
      <4>2. CASE ~ Fails(ReleaseCommand(Token(p)))
        BY <4>2, <2>5 DEF ReleaseFails, engineVars, TypeOK
      <4> QED
        BY <4>1, <4>2
    <3> QED
      BY <3>1, <3>2, <2>5 DEF TypeOK, ReleaseFails
  <2> QED
    BY <1>3, <2>1, <2>2, <2>3, <2>4, <2>5 DEF Failure
<1>4. ASSUME Environment PROVE TypeOK'
  <2>0. NoEntry \in Entries /\ NoLease \in Leases
    BY EnvelopeTypes DEF NoEntry, NoLease, Entries, Leases
  <2>1. CASE AuthorityWrite \/ Replicate
    BY <2>1 DEF TypeOK, AuthorityWrite, Replicate, engineVars
  <2>2. CASE Tick
    BY <2>2, <2>0 DEF TypeOK, Tick, ExpireKey
  <2>3. CASE LateArrives
    BY <2>3, CommandType DEF TypeOK, LateArrives
  <2>4. CASE Restart \/ EvictEntry \/ EvictLease \/ Failover
    <3>1. loc' \in [Procs -> Locals]
      BY <2>4, LocalsType DEF TypeOK, Restart, EvictEntry, EvictLease, Failover, LeaseLost
    <3> QED
      BY <3>1, <2>4, <2>0 DEF TypeOK, Restart, EvictEntry, EvictLease, Failover, ExpireKey
  <2>5. CASE Damage
    <3>1. entry' \in Entries
      BY <2>5, EnvelopeTypes DEF TypeOK, Damage, Entries
    <3> QED
      BY <3>1, <2>5 DEF TypeOK, Damage
  <2> QED
    BY <1>4, <2>1, <2>2, <2>3, <2>4, <2>5 DEF Environment
<1>5. CASE UNCHANGED vars
  BY <1>5 DEF TypeOK, vars
<1> QED
  BY <1>1, <1>2, <1>3, <1>4, <1>5 DEF Next, Finished

(* Types are invariant in every behaviour of get_or_load. *)
THEOREM TypeCorrect == Spec => []TypeOK
BY InitType, NextType, PTL DEF Spec

-----------------------------------------------------------------------------
(* Mutual exclusion of leaders.                                            *)

(* The engine holds exactly the key that was granted to the leader, ...    *)
LeaseHeld ==
    \A p \in Procs : HasLease(p) => lease = [tok |-> Token(p), px |-> loc[p].until]

(* ... and an abandoned release still on its way belongs to a call that is *)
(* over, so its token is not the one of a call in progress.                *)
OldReleases ==
    \A c \in late, p \in Procs, n \in Nat :
        c.op = "release" /\ c.tok = <<p, n>> =>
            n <= calls[p] /\ (pc[p] # "idle" => n < calls[p])

(* Only the leader branch runs with the leader's role. *)
LeaderPlace == \A p \in Procs : loc[p].role = "leader" => pc[p] \in LeaderPcs

LeaseInv == TypeOK /\ LeaderPlace /\ LeaseHeld /\ OldReleases /\ NoOrphanLease

(* What a control step changes. *)
LEMMA MoveEffect ==
    ASSUME TypeOK, NEW p \in Procs, NEW l, NEW r, Move(p, l, r)
    PROVE  /\ pc'[p] = l
           /\ loc'[p] = IF l = "idle" THEN NoLocals ELSE r
           /\ \A q \in Procs \ {p} : pc'[q] = pc[q] /\ loc'[q] = loc[q]
BY DEF TypeOK, Move

(* A call in progress makes a step that leaves the lease alone and keeps   *)
(* its own claim on it.                                                    *)
LEMMA QuietStep ==
    ASSUME LeaseInv, TypeOK', NEW p \in Procs,
           now' = now, lease' = lease, calls' = calls, loose' = loose,
           \A c \in late' : c \in late \/ c.op # "release",
           pc[p] # "idle",
           \A q \in Procs \ {p} : pc'[q] = pc[q] /\ loc'[q] = loc[q],
           Leading(p) <=> Leading(p)', loc'[p].role = "leader" => Leading(p)',
           loc'[p].until = loc[p].until \/ ~ Leading(p)
    PROVE  LeaseInv'
<1>1. \A q \in Procs : Token(q)' = Token(q) /\ (Leading(q) <=> Leading(q)')
  BY DEF Token, Leading
<1>2. LeaseHeld'
  BY <1>1 DEF LeaseInv, LeaseHeld, HasLease
<1>3. OldReleases'
  BY DEF LeaseInv, OldReleases
<1>4. NoOrphanLease'
  BY <1>1 DEF LeaseInv, NoOrphanLease
<1>5. LeaderPlace'
  BY DEF LeaseInv, LeaderPlace, Leading
<1> QED
  BY <1>2, <1>3, <1>4, <1>5 DEF LeaseInv

(* The steps of a call that neither take nor give back the lease. *)
LEMMA QuietActions ==
    ASSUME LeaseInv, TypeOK', NEW p \in Procs,
           \/ Get(p) \/ GetFails(p) \/ Decode(p) \/ Discard(p) \/ AcquireFails(p)
           \/ LoadDegraded(p) \/ Load(p) \/ LoadRaises(p) \/ Encode(p)
           \/ EncodeRaises(p) \/ Set(p) \/ SetFails(p) \/ Verify(p)
           \/ ReleaseNoScript(p) \/ ReloadScript(p)
           \/ Contend(p) \/ Wait(p) \/ Wake(p) \/ GiveUp(p)
    PROVE  LeaseInv'
<1>0. TypeOK
  BY DEF LeaseInv
<1>1. now' = now /\ calls' = calls /\ loose' = loose
  BY DEF Get, GetFails, Decode, Discard, AcquireFails, LoadDegraded, Load,
     LoadRaises, Encode, EncodeRaises, Set, SetFails, Verify, ReleaseNoScript,
     ReloadScript, Contend, Wait, Wake, GiveUp
<1>2. lease' = lease /\ \A c \in late' : c \in late \/ c.op # "release"
  <2>1. ASSUME NEW c, c.op \in {"set", "del", "acquire"},
               Fails(c) \/ (c.op # "acquire" /\ Executes(c))
        PROVE  lease' = lease /\ \A d \in late' : d \in late \/ d.op # "release"
    BY <2>1 DEF Fails, Executes, LeaseAfter
  <2>2. CASE Discard(p) \/ AcquireFails(p) \/ Set(p) \/ SetFails(p)
    BY <2>1, <2>2 DEF Discard, AcquireFails, Set, SetFails, SetCommand,
       DeleteCommand, AcquireCommand
  <2>3. CASE ~ (Discard(p) \/ AcquireFails(p) \/ Set(p) \/ SetFails(p))
    BY <2>3 DEF Get, GetFails, Decode, LoadDegraded, Load, LoadRaises, Encode,
       EncodeRaises, Verify, ReleaseNoScript, ReloadScript, Contend, Wait, Wake,
       GiveUp, engineVars
  <2> QED
    BY <2>2, <2>3
<1>3. /\ pc[p] # "idle"
      /\ \A q \in Procs \ {p} : pc'[q] = pc[q] /\ loc'[q] = loc[q]
  <2>1. \E l, r : Move(p, l, r)
    BY DEF Get, GetFails, Decode, Discard, AcquireFails, LoadDegraded, Load,
       LoadRaises, Encode, EncodeRaises, Set, SetFails, Verify, ReleaseNoScript,
       ReloadScript, Contend, Wait, Wake, GiveUp, Miss, Conclude
  <2>2. pc[p] # "idle"
    BY DEF Get, GetFails, Decode, Discard, AcquireFails, LoadDegraded, Load,
       LoadRaises, Encode, EncodeRaises, Set, SetFails, Verify, ReleaseNoScript,
       ReloadScript, Contend, Wait, Wake, GiveUp
  <2> QED
    BY <1>0, <2>1, <2>2, MoveEffect
<1>4. /\ Leading(p) <=> Leading(p)'
      /\ loc'[p].role = "leader" => Leading(p)'
      /\ loc'[p].until = loc[p].until \/ ~ Leading(p)
  <2>0. loc[p] \in Locals /\ (loc[p].role = "leader" => pc[p] \in LeaderPcs)
    BY <1>0 DEF TypeOK, LeaseInv, LeaderPlace
  <2>1. CASE Get(p) \/ GetFails(p) \/ Discard(p)
    BY <1>0, <2>0, <2>1, MoveEffect
       DEF Get, GetFails, Discard, Miss, Leading, LeaderPcs, Locals
  <2>2. CASE Decode(p) \/ AcquireFails(p) \/ Contend(p) \/ Wait(p) \/ Wake(p) \/ GiveUp(p)
    BY <1>0, <2>0, <2>2, MoveEffect
       DEF Decode, AcquireFails, Contend, Wait, Wake, GiveUp, Leading, LeaderPcs,
           Locals, NoLocals
  <2>3. CASE LoadDegraded(p) \/ LoadRaises(p) \/ EncodeRaises(p) \/ SetFails(p) \/ Verify(p)
    BY <1>0, <2>0, <2>3, MoveEffect
       DEF LoadDegraded, LoadRaises, EncodeRaises, SetFails, Verify, Conclude,
           Leading, LeaderPcs, Locals, NoLocals
  <2>4. CASE Load(p) \/ Encode(p) \/ Set(p) \/ ReleaseNoScript(p) \/ ReloadScript(p)
    BY <1>0, <2>0, <2>4, MoveEffect
       DEF Load, Encode, Set, ReleaseNoScript, ReloadScript, Conclude, Leading,
           LeaderPcs, Locals, NoLocals
  <2> QED
    BY <2>1, <2>2, <2>3, <2>4
<1> QED
  BY <1>1, <1>2, <1>3, <1>4, QuietStep

(* A new call gets a token no key and no command carries. *)
LEMMA StartLease ==
    ASSUME LeaseInv, TypeOK', NEW p \in Procs, Start(p)
    PROVE  LeaseInv'
<1>0. TypeOK
  BY DEF LeaseInv
<1>1. /\ now' = now /\ lease' = lease /\ late' = late /\ loose' = loose
      /\ pc[p] = "idle" /\ calls' = [calls EXCEPT ![p] = @ + 1]
  BY DEF Start, engineVars
<1>2. /\ pc'[p] = "get" /\ loc'[p] = NoLocals
      /\ \A q \in Procs \ {p} : pc'[q] = pc[q] /\ loc'[q] = loc[q]
  BY <1>0, MoveEffect DEF Start
<1>3. \A q \in Procs \ {p} : Token(q)' = Token(q) /\ (Leading(q) <=> Leading(q)')
  BY <1>0, <1>1, <1>2 DEF Token, Leading, TypeOK
<1>4. ~ Leading(p) /\ ~ Leading(p)' /\ loc'[p].role = "caller"
  BY <1>1, <1>2 DEF Leading, LeaderPcs, NoLocals
<1>5. LeaderPlace'
  BY <1>2, <1>4 DEF LeaseInv, LeaderPlace
<1>6. LeaseHeld'
  BY <1>1, <1>2, <1>3, <1>4 DEF LeaseInv, LeaseHeld, HasLease
<1>7. OldReleases'
  BY <1>0, <1>1, <1>2 DEF LeaseInv, OldReleases, TypeOK
<1>8. NoOrphanLease'
  BY <1>1, <1>3, <1>4 DEF LeaseInv, NoOrphanLease
<1> QED
  BY <1>5, <1>6, <1>7, <1>8 DEF LeaseInv

(* While a leader has its lease the key is there, so SET NX grants nothing. *)
LEMMA GrantedMeansFree ==
    ASSUME LeaseInv, LeaseGranted, NEW q \in Procs
    PROVE  ~ HasLease(q)
<1> SUFFICES ASSUME HasLease(q) PROVE FALSE
  OBVIOUS
<1>1. lease.px = loc[q].until /\ now < loc[q].until
  BY DEF LeaseInv, LeaseHeld, HasLease
<1>2. lease.px = 0
  BY DEF LeaseGranted, NoLease
<1> QED
  BY <1>1, <1>2 DEF LeaseInv, TypeOK

(* A granted or refused SET NX keeps the lease invariant: the winner owns  *)
(* the key it has just set, the loser changes nothing.                     *)
LEMMA AcquireLease ==
    ASSUME LeaseInv, TypeOK', NEW p \in Procs, Acquire(p)
    PROVE  LeaseInv'
<1>0. TypeOK /\ loc[p] \in Locals
  BY DEF LeaseInv, TypeOK
<1>1. /\ now' = now /\ calls' = calls /\ late' = late /\ pc[p] = "acquire"
      /\ lease' = LeaseAfter(AcquireCommand(Token(p)))
  BY DEF Acquire, Executes
<1>2. /\ pc'[p] # "idle"
      /\ \A q \in Procs \ {p} : pc'[q] = pc[q] /\ loc'[q] = loc[q]
  BY <1>0, MoveEffect DEF Acquire
<1>3. \A q \in Procs : Token(q)' = Token(q)
  BY <1>1 DEF Token
<1>4. \A q \in Procs \ {p} : Leading(q) <=> Leading(q)'
  BY <1>2 DEF Leading
<1>5. OldReleases'
  BY <1>1, <1>2 DEF LeaseInv, OldReleases
<1>6. CASE LeaseGranted
  <2>1. /\ pc'[p] = "load" /\ loc'[p].until = now + LeaseMs
        /\ loc'[p].role = "leader"
    <3> DEFINE r == [loc[p] EXCEPT !.role = "leader", !.until = now + LeaseMs]
    <3>1. r.role = "leader" /\ r.until = now + LeaseMs
      BY <1>0 DEF Locals
    <3>2. Move(p, "load", r)
      BY <1>6 DEF Acquire
    <3> HIDE DEF r
    <3> QED
      BY <1>0, <3>1, <3>2, MoveEffect
  <2>2. lease' = [tok |-> Token(p), px |-> now + LeaseMs]
    BY <1>1, <1>6 DEF LeaseAfter, AcquireCommand, LeaseExpiry
  <2>3. Leading(p)'
    BY <2>1 DEF Leading, LeaderPcs
  <2>4. LeaderPlace'
    BY <1>2, <2>1 DEF LeaseInv, LeaderPlace, LeaderPcs
  <2>5. LeaseHeld'
    BY <1>1, <1>2, <1>3, <1>4, <1>6, <2>1, <2>2, GrantedMeansFree DEF LeaseHeld, HasLease
  <2>6. NoOrphanLease'
    BY <1>3, <2>2, <2>3 DEF NoOrphanLease
  <2> QED
    BY <1>5, <2>4, <2>5, <2>6 DEF LeaseInv
<1>7. CASE ~ LeaseGranted
  <2>1. loc'[p].role = "waiter" /\ pc'[p] = "contend" /\ loose' = loose
    BY <1>0, <1>7, MoveEffect DEF Acquire, Locals
  <2>2. lease' = lease
    BY <1>1, <1>7 DEF LeaseAfter, AcquireCommand
  <2>3. ~ Leading(p)' /\ ~ Leading(p)
    BY <1>1, <2>1 DEF Leading, LeaderPcs
  <2>4. LeaderPlace'
    BY <1>2, <2>1 DEF LeaseInv, LeaderPlace
  <2>5. LeaseHeld'
    BY <1>1, <1>2, <1>3, <1>4, <2>2, <2>3 DEF LeaseInv, LeaseHeld, HasLease
  <2>6. NoOrphanLease'
    BY <1>3, <1>4, <2>1, <2>2, <2>3 DEF LeaseInv, NoOrphanLease
  <2> QED
    BY <1>5, <2>4, <2>5, <2>6 DEF LeaseInv
<1> QED
  BY <1>6, <1>7

(* A release, executed or failed, ends p's call; the token test keeps it   *)
(* away from every other caller's key.                                     *)
LEMMA ReleaseLease ==
    ASSUME LeaseInv, TypeOK', NEW p \in Procs, Release(p) \/ ReleaseFails(p)
    PROVE  LeaseInv'
<1>0. TypeOK
  BY DEF LeaseInv
<1>1. /\ now' = now /\ calls' = calls /\ pc[p] # "idle"
      /\ Move(p, "idle", loc[p])
  BY DEF Release, ReleaseFails
<1>2. /\ pc'[p] = "idle" /\ loc'[p] = NoLocals
      /\ \A q \in Procs \ {p} : pc'[q] = pc[q] /\ loc'[q] = loc[q]
  BY <1>0, <1>1, MoveEffect
<1>3. /\ \A q \in Procs : Token(q)' = Token(q)
      /\ \A q \in Procs \ {p} : Leading(q) <=> Leading(q)'
      /\ ~ Leading(p)'
  BY <1>1, <1>2 DEF Token, Leading, LeaderPcs
<1>4. LeaderPlace'
  BY <1>2 DEF LeaseInv, LeaderPlace, NoLocals
<1>5. /\ lease' = lease \/ (lease.tok = Token(p) /\ lease' = NoLease)
      /\ late' \subseteq late \cup {ReleaseCommand(Token(p))}
      /\ lease' # NoLease => (loose => loose') /\ (lease.tok = Token(p) => loose')
  <2>1. CASE Release(p)
    BY <2>1 DEF Release, Executes, LeaseAfter, Releasable, ReleaseCommand
  <2>2. CASE ReleaseFails(p)
    BY <2>2 DEF ReleaseFails, Fails, engineVars
  <2> QED
    BY <2>1, <2>2
<1>6. LeaseHeld'
  <2>1. \A q \in Procs \ {p} : Token(q) # Token(p)
    BY DEF Token
  <2> QED
    BY <1>1, <1>2, <1>3, <1>5, <2>1 DEF LeaseInv, LeaseHeld, HasLease
<1>7. OldReleases'
  <2> SUFFICES ASSUME NEW c \in late', NEW q \in Procs, NEW n \in Nat,
                      c.op = "release", c.tok = <<q, n>>
               PROVE  n <= calls[q] /\ (pc'[q] # "idle" => n < calls[q])
    BY <1>1 DEF OldReleases
  <2>1. CASE c \in late
    BY <1>2, <2>1 DEF LeaseInv, OldReleases
  <2>2. CASE c = ReleaseCommand(Token(p))
    <3>1. q = p /\ n = calls[p]
      BY <2>2 DEF ReleaseCommand, Token
    <3> QED
      BY <3>1, <1>0, <1>2 DEF TypeOK
  <2> QED
    BY <1>5, <2>1, <2>2
<1>8. NoOrphanLease'
  <2> SUFFICES ASSUME lease' # NoLease, ~ loose'
               PROVE  \E q \in Procs : Leading(q)' /\ lease'.tok = Token(q)'
    BY DEF NoOrphanLease
  <2>1. lease' = lease /\ lease.tok # Token(p) /\ ~ loose
    BY <1>5
  <2>2. PICK q \in Procs : Leading(q) /\ lease.tok = Token(q)
    BY <2>1 DEF LeaseInv, NoOrphanLease
  <2> QED
    BY <1>3, <2>1, <2>2
<1> QED
  BY <1>4, <1>6, <1>7, <1>8 DEF LeaseInv

(* Time, lost commands arriving and the engine's own faults. *)
LEMMA EnvironmentLease ==
    ASSUME LeaseInv, TypeOK', Environment
    PROVE  LeaseInv'
<1>0. TypeOK
  BY DEF LeaseInv
<1>1. calls' = calls /\ pc' = pc
  BY DEF Environment, AuthorityWrite, Tick, LateArrives, Restart, EvictEntry,
     EvictLease, Damage, Replicate, Failover
<1>2. \A q \in Procs : Token(q)' = Token(q)
  BY <1>1 DEF Token
<1>3. CASE AuthorityWrite \/ EvictEntry \/ Damage \/ Replicate
  <2>1. now' = now /\ lease' = lease /\ late' = late /\ loc' = loc /\ loose' = loose
    BY <1>3 DEF AuthorityWrite, EvictEntry, Damage, Replicate, engineVars
  <2> QED
    BY <1>1, <1>2, <2>1 DEF LeaseInv, LeaderPlace, LeaseHeld, OldReleases, NoOrphanLease,
       HasLease, Leading
<1>4. CASE Tick
  <2>1. /\ now' = now + 1 /\ late' = late /\ loc' = loc /\ loose' = loose
        /\ lease' = ExpireKey(lease, NoLease, now + 1)
    BY <1>4 DEF Tick
  <2>2. LeaseHeld'
    BY <1>0, <1>1, <1>2, <2>1 DEF LeaseInv, LeaseHeld, HasLease, Leading, ExpireKey, TypeOK, Locals
  <2>3. LeaderPlace' /\ OldReleases'
    BY <1>1, <2>1 DEF LeaseInv, LeaderPlace, OldReleases
  <2>4. NoOrphanLease'
    BY <1>1, <1>2, <2>1 DEF LeaseInv, NoOrphanLease, Leading, ExpireKey
  <2> QED
    BY <2>2, <2>3, <2>4 DEF LeaseInv
<1>5. CASE LateArrives
  <2>1. PICK c \in late : /\ lease' = LeaseAfter(c) /\ late' = late \ {c}
                          /\ loose' = (loose \/ (c.op = "acquire" /\ LeaseGranted))
    BY <1>5 DEF LateArrives
  <2>2. now' = now /\ loc' = loc
    BY <1>5 DEF LateArrives
  <2>3. LeaderPlace' /\ OldReleases'
    BY <1>1, <2>1, <2>2 DEF LeaseInv, LeaderPlace, OldReleases
  <2>4. CASE lease' = lease
    BY <1>1, <1>2, <2>1, <2>2, <2>3, <2>4 DEF LeaseInv, LeaseHeld, NoOrphanLease, HasLease, Leading
  <2>5. CASE c.op = "acquire" /\ LeaseGranted
    <3>1. LeaseHeld'
      BY <1>1, <2>2, <2>5, GrantedMeansFree DEF LeaseHeld, HasLease, Leading
    <3> QED
      BY <3>1, <2>1, <2>3, <2>5 DEF LeaseInv, NoOrphanLease
  <2>6. CASE c.op = "release" /\ Releasable(c.tok) /\ lease' = NoLease
    <3>1. ASSUME NEW q \in Procs PROVE ~ HasLease(q)
      <4> SUFFICES ASSUME HasLease(q) PROVE FALSE
        OBVIOUS
      <4>1. lease.tok = Token(q) /\ pc[q] # "idle"
        BY DEF LeaseInv, LeaseHeld, HasLease, Leading, LeaderPcs
      <4>2. c.tok = <<q, calls[q]>> /\ calls[q] \in Nat
        BY <1>0, <2>6, <4>1 DEF Releasable, Token, TypeOK
      <4> QED
        BY <4>1, <4>2, <2>6 DEF LeaseInv, OldReleases
    <3> QED
      BY <3>1, <1>1, <2>2, <2>3, <2>6 DEF LeaseInv, LeaseHeld, NoOrphanLease, HasLease, Leading
  <2> QED
    BY <2>1, <2>4, <2>5, <2>6 DEF LeaseAfter
<1>6. CASE Restart \/ EvictLease \/ Failover
  <2>1. /\ now' = now /\ late' = late
        /\ loc' = [q \in Procs |-> [loc[q] EXCEPT !.until = 0]]
        /\ lease' = NoLease \/ loose'
    BY <1>6 DEF Restart, EvictLease, Failover, LeaseLost
  <2>2. \A q \in Procs : loc'[q].until = 0 /\ loc'[q].role = loc[q].role
    BY <1>0, <2>1 DEF TypeOK, Locals
  <2>3. LeaseHeld'
    BY <1>0, <2>1, <2>2 DEF LeaseHeld, HasLease, TypeOK
  <2>4. LeaderPlace' /\ OldReleases'
    BY <1>1, <2>1, <2>2 DEF LeaseInv, LeaderPlace, OldReleases
  <2>5. NoOrphanLease'
    BY <2>1 DEF NoOrphanLease
  <2> QED
    BY <2>3, <2>4, <2>5 DEF LeaseInv
<1> QED
  BY <1>3, <1>4, <1>5, <1>6 DEF Environment

(* Nobody leads and no lease key exists at the start. *)
LEMMA InitLease == Init => LeaseInv
<1> SUFFICES ASSUME Init PROVE LeaseInv
  OBVIOUS
<1>1. TypeOK
  BY InitType
<1>2. LeaderPlace /\ LeaseHeld
  BY DEF Init, LeaderPlace, LeaseHeld, HasLease, Leading, LeaderPcs, NoLocals
<1>3. OldReleases /\ NoOrphanLease
  BY DEF Init, OldReleases, NoOrphanLease
<1> QED
  BY <1>1, <1>2, <1>3 DEF LeaseInv

(* Every step of get_or_load and of its environment keeps LeaseInv. *)
LEMMA NextLease == LeaseInv /\ [Next]_vars => LeaseInv'
<1> SUFFICES ASSUME LeaseInv, [Next]_vars PROVE LeaseInv'
  OBVIOUS
<1>0. TypeOK'
  BY NextType DEF LeaseInv
<1>1. ASSUME NEW p \in Procs, Start(p) PROVE LeaseInv'
  BY <1>0, <1>1, StartLease
<1>2. ASSUME NEW p \in Procs, Step(p) PROVE LeaseInv'
  BY <1>0, <1>2, QuietActions, AcquireLease, ReleaseLease DEF Step
<1>3. ASSUME NEW p \in Procs, Failure(p) PROVE LeaseInv'
  BY <1>0, <1>3, QuietActions, ReleaseLease DEF Failure
<1>4. CASE Environment
  BY <1>0, <1>4, EnvironmentLease
<1>5. CASE UNCHANGED vars
  <2>1. \A q \in Procs : Token(q)' = Token(q) /\ (Leading(q) <=> Leading(q)')
    BY <1>5 DEF vars, Token, Leading
  <2> QED
    BY <1>0, <1>5, <2>1 DEF vars, LeaseInv, LeaderPlace, LeaseHeld, OldReleases,
       NoOrphanLease, HasLease
<1> QED
  BY <1>1, <1>2, <1>3, <1>4, <1>5 DEF Next, Finished

(* Two callers never both hold an unexpired lease: LeaseHeld says whose    *)
(* token the key carries, and no two calls share a token.                  *)
THEOREM LeaderExclusionHolds == Spec => []LeaderExclusion
<1>1. LeaseInv => LeaderExclusion
  <2> SUFFICES ASSUME LeaseInv, NEW p \in Procs, NEW q \in Procs, HasLease(p), HasLease(q)
               PROVE  p = q
    BY DEF LeaderExclusion
  <2>1. Token(p) = Token(q)
    BY DEF LeaseInv, LeaseHeld
  <2> QED
    BY <2>1 DEF Token
<1> QED
  BY <1>1, InitLease, NextLease, PTL DEF Spec

(* No exit of get_or_load forgets the lease. *)
THEOREM NoOrphanLeaseHolds == Spec => []NoOrphanLease
<1>1. LeaseInv => NoOrphanLease
  BY DEF LeaseInv
<1> QED
  BY <1>1, InitLease, NextLease, PTL DEF Spec

-----------------------------------------------------------------------------
(* Envelopes, in the engine, on the replica, on their way and in hand.     *)

(* put made this envelope of a value it may cache, whatever became of the  *)
(* bytes: stamped by a clock at most MaxSkew ahead, with the effective TTL. *)
Stamped(e) ==
    /\ e \in EnvelopeType /\ Cacheable(e.val)
    /\ e.created <= e.at + MaxSkew
    /\ e.expires = e.created + EffectiveTtl(e.val)

StoredKey(k) == k = NoEntry \/ Stamped(k.env)

Carried(c) == IF c.op = "set" THEN Stamped(c.env) ELSE c.env = NoEnvelope

EngineStamped ==
    /\ StoredKey(entry) /\ StoredKey(replica.entry)
    /\ \A c \in late : Carried(c)

(* The envelope b in hand of a caller at l. *)
InHand(l, b) ==
    /\ l \in {"decode", "set", "verify"} => Stamped(b)
    /\ l = "encode" => Cacheable(b.val)

StampedInv == EngineStamped /\ \A p \in Procs : InHand(pc[p], loc[p].buf)

(* A caller moves on. *)
LEMMA StampedMove ==
    ASSUME TypeOK, StampedInv, EngineStamped', NEW p \in Procs, NEW l, NEW r,
           Move(p, l, r), l = "idle" \/ InHand(l, r.buf)
    PROVE  StampedInv'
<1>1. /\ pc'[p] = l /\ (l # "idle" => loc'[p] = r)
      /\ \A q \in Procs \ {p} : pc'[q] = pc[q] /\ loc'[q] = loc[q]
  BY MoveEffect
<1>2. InHand(pc'[p], loc'[p].buf)
  BY <1>1 DEF InHand
<1> QED
  BY <1>1, <1>2 DEF StampedInv

(* Executed or failed, a command leaves only stamped envelopes behind. *)
LEMMA StampedCommand ==
    ASSUME EngineStamped, NEW c, Carried(c), Executes(c) \/ Fails(c)
    PROVE  EngineStamped'
<1>1. c.op = "set" => StoredKey([env |-> c.env, px |-> EntryExpiry(c.env)])
  BY DEF StoredKey, Carried
<1>2. StoredKey(EntryAfter(c))
  BY <1>1 DEF EntryAfter, EngineStamped, StoredKey
<1> QED
  BY <1>2 DEF EngineStamped, Executes, Fails

(* The engine's keys are as they were. *)
LEMMA StampedEngine ==
    ASSUME EngineStamped, UNCHANGED <<entry, late, replica>>
    PROVE  EngineStamped'
BY DEF EngineStamped

(* encode stamps what the loader returned. *)
LEMMA StampedEncoding ==
    ASSUME TypeOK, NEW p \in Procs, NEW v \in Nat, Cacheable(v)
    PROVE  Stamped(EncodedBy(p, v))
<1> DEFINE T == EffectiveTtl(v)
<1>1. now \in Nat /\ Skew[p] \in 0 .. MaxSkew /\ MaxSkew \in Nat /\ Clock(p) = now + Skew[p]
  BY SkewAssumption DEF TypeOK, Clock
<1>2. T \in Nat /\ Clock(p) \in Nat
  BY <1>1, EffectiveTtlPositive
<1> DEFINE e == Encoded(v, 0, T, Clock(p), now)
<1>3. EncodedBy(p, v) = e
  BY DEF EncodedBy
<1> HIDE DEF T
<1>4. e \in EnvelopeType
  BY <1>1, <1>2, EnvelopeTypes
<1>5. /\ e.val = v /\ e.created = now + Skew[p] /\ e.at = now
      /\ e.expires = now + Skew[p] + T
  BY <1>1 DEF Encoded
<1> HIDE DEF e
<1> QED
  BY <1>1, <1>2, <1>3, <1>4, <1>5 DEF Stamped, T

(* A call's branch ends. *)
LEMMA StampedConclude ==
    ASSUME TypeOK, StampedInv, EngineStamped', NEW p \in Procs, NEW k, Conclude(p, k)
    PROVE  StampedInv'
<1>1. \E l \in {"release", "idle"} : \E r : Move(p, l, r)
  BY DEF Conclude
<1>2. \A l \in {"release", "idle"} : \A b : InHand(l, b)
  BY DEF InHand
<1> QED
  BY <1>1, <1>2, StampedMove

(* A lookup missed. *)
LEMMA StampedMiss ==
    ASSUME TypeOK, StampedInv, EngineStamped', NEW p \in Procs, Miss(p)
    PROVE  StampedInv'
<1>1. \E l \in {"acquire", "wait"} : \E r : Move(p, l, r)
  BY DEF Miss
<1>2. \A l \in {"acquire", "wait"} : \A b : InHand(l, b)
  BY DEF InHand
<1> QED
  BY <1>1, <1>2, StampedMove

(* Every step of a caller keeps the envelopes stamped. *)
LEMMA StampedStep ==
    ASSUME TypeOK, StampedInv, NEW p \in Procs, Start(p) \/ Step(p) \/ Failure(p)
    PROVE  StampedInv'
<1>0. loc[p] \in Locals /\ EngineStamped /\ InHand(pc[p], loc[p].buf)
  BY DEF TypeOK, StampedInv
<1>1. CASE \/ Start(p) \/ GetFails(p) \/ ReloadScript(p) \/ ReleaseNoScript(p)
           \/ Contend(p) \/ Wait(p) \/ Wake(p) \/ GiveUp(p)
  <2>1. EngineStamped'
    BY <1>0, <1>1, StampedEngine DEF Start, GetFails, ReloadScript, ReleaseNoScript,
       Contend, Wait, Wake, GiveUp, engineVars
  <2>2. \E l \in Pcs \ {"decode", "encode", "set", "verify"} : \E r : Move(p, l, r)
    BY <1>1 DEF Start, GetFails, ReloadScript, ReleaseNoScript, Contend, Wait, Wake,
       GiveUp, Pcs, LeaderPcs
  <2>3. \A l \in Pcs \ {"decode", "encode", "set", "verify"} : \A b : InHand(l, b)
    BY DEF InHand
  <2> QED
    BY <2>1, <2>2, <2>3, StampedMove
<1>2. CASE LoadDegraded(p) \/ LoadRaises(p) \/ EncodeRaises(p) \/ Verify(p)
  <2>1. EngineStamped'
    BY <1>0, <1>2, StampedEngine DEF LoadDegraded, LoadRaises, EncodeRaises, Verify, engineVars
  <2>2. \E k : Conclude(p, k)
    BY <1>2 DEF LoadDegraded, LoadRaises, EncodeRaises, Verify
  <2> QED
    BY <2>1, <2>2, StampedConclude
<1>3. CASE Get(p)
  <2>1. EngineStamped'
    BY <1>0, <1>3, StampedEngine DEF Get, engineVars
  <2>2. CASE entry # NoEntry /\ Move(p, "decode", [loc[p] EXCEPT !.buf = entry.env])
    <3> DEFINE e == entry.env
               r == [loc[p] EXCEPT !.buf = e]
    <3>1. Stamped(e)
      BY <1>0, <2>2 DEF EngineStamped, StoredKey
    <3>2. Move(p, "decode", r)
      BY <2>2
    <3> HIDE DEF e
    <3>3. r.buf = e
      BY <1>0 DEF Locals
    <3> HIDE DEF r
    <3> QED
      BY <2>1, <3>1, <3>2, <3>3, StampedMove DEF InHand
  <2> QED
    BY <1>3, <2>1, <2>2, StampedMiss DEF Get
<1>4. CASE Decode(p)
  <2>1. EngineStamped'
    BY <1>0, <1>4, StampedEngine DEF Decode, engineVars
  <2>2. \E l \in {"idle", "discard"} : Move(p, l, loc[p])
    BY <1>4 DEF Decode
  <2> QED
    BY <2>1, <2>2, StampedMove DEF InHand
<1>5. CASE Discard(p)
  <2>1. EngineStamped'
    BY <1>0, <1>5, StampedCommand DEF Discard, DeleteCommand, Carried
  <2> QED
    BY <1>5, <2>1, StampedMiss DEF Discard
<1>6. CASE Acquire(p) \/ AcquireFails(p)
  <2>1. EngineStamped'
    BY <1>0, <1>6, StampedCommand DEF Acquire, AcquireFails, AcquireCommand, Carried
  <2>2. \E l \in {"load", "contend", "degraded"} : \E r : Move(p, l, r)
    BY <1>6 DEF Acquire, AcquireFails
  <2>3. \A l \in {"load", "contend", "degraded"} : \A b : InHand(l, b)
    BY DEF InHand
  <2> QED
    BY <2>1, <2>2, <2>3, StampedMove
<1>7. CASE Load(p)
  <2>1. EngineStamped'
    BY <1>0, <1>7, StampedEngine DEF Load, engineVars
  <2>2. CASE Cacheable(auth) /\ Move(p, "encode", [loc[p] EXCEPT !.buf = Unencoded(auth)])
    <3> DEFINE e == Unencoded(auth)
               r == [loc[p] EXCEPT !.buf = e]
    <3>1. e.val = auth
      BY DEF Unencoded
    <3>2. Move(p, "encode", r)
      BY <2>2
    <3> HIDE DEF e
    <3>3. r.buf = e
      BY <1>0 DEF Locals
    <3> HIDE DEF r
    <3> QED
      BY <2>1, <2>2, <3>1, <3>2, <3>3, StampedMove DEF InHand
  <2> QED
    BY <1>7, <2>1, <2>2, StampedConclude DEF Load
<1>8. CASE Encode(p)
  <2>1. EngineStamped'
    BY <1>0, <1>8, StampedEngine DEF Encode, engineVars
  <2> DEFINE v == loc[p].buf.val
             e == EncodedBy(p, v)
             r == [loc[p] EXCEPT !.buf = e]
  <2>2. v \in Nat /\ Cacheable(v) /\ Move(p, "set", r)
    BY <1>0, <1>8 DEF Encode, InHand, Locals, EnvelopeType
  <2>3. Stamped(e)
    BY <2>2, StampedEncoding
  <2> HIDE DEF e
  <2>4. r.buf = e
    BY <1>0 DEF Locals
  <2> HIDE DEF r
  <2> QED
    BY <2>1, <2>2, <2>3, <2>4, StampedMove DEF InHand
<1>9. CASE Set(p) \/ SetFails(p)
  <2>1. Stamped(loc[p].buf)
    BY <1>0, <1>9 DEF Set, SetFails, InHand
  <2>2. EngineStamped'
    BY <1>0, <1>9, <2>1, StampedCommand DEF Set, SetFails, SetCommand, Carried
  <2> QED
    BY <1>9, <2>1, <2>2, StampedMove, StampedConclude DEF Set, SetFails, InHand
<1>10. CASE Release(p) \/ ReleaseFails(p)
  <2>1. EngineStamped'
    BY <1>0, <1>10, StampedCommand, StampedEngine
       DEF Release, ReleaseFails, ReleaseCommand, Carried, engineVars
  <2> QED
    BY <1>10, <2>1, StampedMove DEF Release, ReleaseFails
<1> QED
  BY <1>1, <1>2, <1>3, <1>4, <1>5, <1>6, <1>7, <1>8, <1>9, <1>10 DEF Step, Failure

(* Time, late commands, eviction, damage and failover bring no envelope    *)
(* into the cache that put did not make.                                   *)
LEMMA StampedEnvironment ==
    ASSUME TypeOK, StampedInv, Environment
    PROVE  StampedInv'
<1>1. pc' = pc /\ \A p \in Procs : loc'[p].buf = loc[p].buf
  BY DEF Environment, AuthorityWrite, Tick, LateArrives, Restart, EvictEntry, EvictLease,
         Damage, Replicate, Failover, LeaseLost, TypeOK, Locals
<1>2. EngineStamped'
  <2>1. EngineStamped
    BY DEF StampedInv
  <2>2. \A k, t : StoredKey(k) => StoredKey(ExpireKey(k, NoEntry, t))
    BY DEF StoredKey, ExpireKey
  <2>3. CASE AuthorityWrite \/ EvictLease \/ Restart \/ EvictEntry
    BY <2>1, <2>3 DEF AuthorityWrite, EvictLease, Restart, EvictEntry, engineVars,
       EngineStamped, StoredKey
  <2>4. CASE Tick \/ Failover
    BY <2>1, <2>2, <2>4 DEF Tick, Failover, EngineStamped
  <2>5. CASE LateArrives
    <3>1. PICK c \in late : entry' = EntryAfter(c) /\ late' = late \ {c}
      BY <2>5 DEF LateArrives
    <3>2. Carried(c) /\ UNCHANGED replica
      BY <2>1, <2>5 DEF EngineStamped, LateArrives
    <3>3. c.op = "set" => StoredKey([env |-> c.env, px |-> EntryExpiry(c.env)])
      BY <3>2 DEF StoredKey, Carried
    <3>4. StoredKey(EntryAfter(c))
      BY <2>1, <3>3 DEF EntryAfter, EngineStamped, StoredKey
    <3> QED
      BY <2>1, <3>1, <3>2, <3>4 DEF EngineStamped
  <2>6. CASE Damage
    <3> DEFINE e == [entry.env EXCEPT !.frame = "damaged"]
    <3>1. entry # NoEntry /\ entry' = [entry EXCEPT !.env = e] /\ UNCHANGED <<late, replica>>
      BY <2>6 DEF Damage
    <3>2. Stamped(entry.env) /\ entry.env \in EnvelopeType
      BY <2>1, <3>1 DEF EngineStamped, StoredKey, TypeOK, Entries
    <3>3. /\ e \in EnvelopeType
          /\ e.val = entry.env.val /\ e.created = entry.env.created
          /\ e.expires = entry.env.expires /\ e.at = entry.env.at
      BY <3>2, EnvelopeTypes DEF EnvelopeType
    <3> HIDE DEF e
    <3>4. Stamped(e)
      BY <3>2, <3>3 DEF Stamped
    <3>5. entry'.env = e
      BY <3>1 DEF TypeOK, Entries
    <3> QED
      BY <2>1, <3>1, <3>4, <3>5 DEF EngineStamped, StoredKey
  <2>7. CASE Replicate
    BY <2>1, <2>7 DEF Replicate, EngineStamped
  <2> QED
    BY <2>3, <2>4, <2>5, <2>6, <2>7 DEF Environment
<1> QED
  BY <1>1, <1>2 DEF StampedInv

(* The cache starts empty. *)
LEMMA StampedInit == Init => StampedInv
BY DEF Init, StampedInv, EngineStamped, StoredKey, InHand

(* Every step keeps the envelopes stamped. *)
LEMMA StampedNext == TypeOK /\ StampedInv /\ [Next]_vars => StampedInv'
<1> SUFFICES ASSUME TypeOK, StampedInv, [Next]_vars PROVE StampedInv'
  OBVIOUS
<1>1. CASE UNCHANGED vars
  BY <1>1 DEF vars, StampedInv, EngineStamped
<1> QED
  BY <1>1, StampedStep, StampedEnvironment DEF Next, Finished

(* NegativeOptIn: wherever a None is cached, the Resource caches negatives *)
(* and the entry lives no longer than the negative TTL.                    *)
THEOREM NegativeOptInHolds == Spec => []NegativeOptIn
<1>1. ASSUME NEW e, Stamped(e), Negative(e.val)
      PROVE  NegativeCaching /\ e.expires - e.created <= NegativeTtl
  <2>1. NegativeCaching /\ e.expires = e.created + EffectiveTtl(e.val) /\ e.created \in Nat
    BY <1>1 DEF Stamped, Cacheable, EnvelopeType
  <2>2. EffectiveTtl(e.val) \in Nat /\ EffectiveTtl(e.val) <= NegativeTtl
    BY <1>1, <2>1, EffectiveTtlPositive, TtlAssumption
       DEF EffectiveTtl, EffectiveTtlUnclamped, Least
  <2> QED
    BY <2>1, <2>2, TtlAssumption
<1>2. StampedInv => NegativeOptIn
  <2> SUFFICES ASSUME StampedInv,
                      NEW e \in {entry.env, replica.entry.env} \cup {c.env : c \in late},
                      e # NoEnvelope, Negative(e.val)
               PROVE  NegativeCaching /\ e.expires - e.created <= NegativeTtl
    BY DEF NegativeOptIn
  <2>1. Stamped(e)
    BY DEF StampedInv, EngineStamped, StoredKey, Carried, NoEntry
  <2> QED
    BY <1>1, <2>1
<1> QED
  BY <1>2, InitType, NextType, StampedInit, StampedNext, PTL DEF Spec

(* HitsAreValid: whatever was written late, damaged, replicated or brought *)
(* back, a hit verifies and is younger than the effective TTL of its value *)
(* plus the skew of the clocks.                                            *)
THEOREM HitsAreValidHolds == Spec => HitsAreValid
<1>1. ASSUME TypeOK, StampedInv, [Next]_vars, NEW p \in Procs, res'[p] = "hit", res[p] # "hit"
      PROVE  /\ loc[p].buf.frame = "intact"
             /\ now < loc[p].buf.at + EffectiveTtl(loc[p].buf.val) + MaxSkew
  <2>1. ASSUME NEW q \in Procs, NEW k, Outcome(q, k)
        PROVE  q = p /\ k = "hit"
    BY <1>1, <2>1 DEF Outcome, TypeOK
  <2>2. ~ UNCHANGED res
    BY <1>1
  <2>3. ASSUME NEW q \in Procs, Start(q) \/ Step(q) \/ Failure(q)
        PROVE  q = p /\ Decode(p)
    <3>1. CASE Decode(q)
      BY <2>1, <2>2, <3>1 DEF Decode
    <3>2. CASE LoadDegraded(q) \/ Load(q) \/ Verify(q)
      BY <2>1, <2>2, <3>2 DEF LoadDegraded, Load, Verify, Conclude
    <3>3. CASE Start(q) \/ LoadRaises(q) \/ EncodeRaises(q) \/ SetFails(q)
      BY <2>1, <3>3 DEF Start, LoadRaises, EncodeRaises, SetFails, Conclude
    <3>4. CASE \/ Get(q) \/ Discard(q) \/ Acquire(q) \/ Encode(q) \/ Set(q) \/ Release(q)
               \/ ReleaseNoScript(q) \/ ReloadScript(q) \/ Contend(q) \/ Wait(q) \/ Wake(q)
               \/ GiveUp(q)
      BY <2>2, <3>4 DEF Get, Discard, Acquire, Encode, Set, Release, ReleaseNoScript,
         ReloadScript, Contend, Wait, Wake, GiveUp
    <3>5. CASE GetFails(q) \/ AcquireFails(q) \/ ReleaseFails(q)
      BY <2>2, <3>5 DEF GetFails, AcquireFails, ReleaseFails
    <3> QED
      BY <2>3, <3>1, <3>2, <3>3, <3>4, <3>5 DEF Step, Failure
  <2>4. ~ Environment /\ ~ UNCHANGED vars
    BY <2>2 DEF Environment, AuthorityWrite, Tick, LateArrives, Restart, EvictEntry,
       EvictLease, Damage, Replicate, Failover, vars
  <2>5. Decode(p)
    BY <1>1, <2>3, <2>4 DEF Next, Finished
  <2> DEFINE e == loc[p].buf
  <2>6. Stamped(e) /\ Decodes(e, Clock(p))
    BY <1>1, <2>2, <2>5 DEF Decode, StampedInv, InHand
  <2>7. /\ now \in Nat /\ Skew[p] \in 0 .. MaxSkew /\ MaxSkew \in Nat
        /\ EffectiveTtl(e.val) \in Nat
    BY <1>1, SkewAssumption, EffectiveTtlPositive DEF TypeOK
  <2>8. /\ e.frame = "intact" /\ e.expires > now + Skew[p]
        /\ e.created <= e.at + MaxSkew /\ e.expires = e.created + EffectiveTtl(e.val)
        /\ e.created \in Nat /\ e.at \in Nat
    BY <2>6 DEF Decodes, Unexpired, Clock, Stamped, EnvelopeType
  <2> HIDE DEF e
  <2>9. now < e.at + EffectiveTtl(e.val) + MaxSkew
    BY <2>7, <2>8
  <2> QED
    BY <2>8, <2>9 DEF e
<1>2. TypeOK /\ StampedInv /\ [Next]_vars
        => [\A p \in Procs :
              res'[p] = "hit" /\ res[p] # "hit" =>
                LET e == loc[p].buf
                IN  e.frame = "intact" /\ now < e.at + EffectiveTtl(e.val) + MaxSkew]_vars
  BY <1>1
<1> QED
  BY <1>2, InitType, NextType, StampedInit, StampedNext, PTL DEF Spec, HitsAreValid
=============================================================================
