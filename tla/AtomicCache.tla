----------------------------- MODULE AtomicCache -----------------------------
(***************************************************************************)
(* What the typed Cache operations on one key promise their callers.  The  *)
(* cache is one cell whose content may disappear or rot at any time.  A    *)
(* mutation takes effect at most once, in one atomic step, between its     *)
(* call and its return, or after its caller was told of an error; it is    *)
(* reported as done only if it took effect and as refused only if it did   *)
(* not and never will.                                                     *)
(***************************************************************************)
EXTENDS Envelope

CONSTANTS Clients, Amount

VARIABLES
    cell,   \* the key's content; NoEnvelope when absent
    call,   \* request each client is waiting for; NoRequest when none
    eff,    \* whether the request in progress has taken effect
    ret,    \* what the latest request's caller was told
    limbo   \* requests whose callers were told "error", not yet executed

absVars == <<cell, call, eff, ret, limbo>>

NoRequest == [id |-> <<>>, kind |-> "none", val |-> 0, expect |-> <<>>]

(* A compare-and-set may name the envelope version or the source version. *)
Matches(e, expect) == expect \in {Version(e), <<e.src>>}

(* Request r, executed on content old, leaves content new. *)
Effect(r, old, new) ==
    \/ r.kind = "put" /\ new.frame = "intact" /\ new.val = r.val
    \/ r.kind = "pifa" /\ old = NoEnvelope /\ new.frame = "intact" /\ new.val = r.val
    \/ /\ r.kind = "cas" /\ old # NoEnvelope /\ Matches(old, r.expect)
       /\ new.frame = "intact" /\ new.val = r.val /\ new.src = old.src
    \/ /\ r.kind = "incr" /\ old # NoEnvelope
       /\ new.frame = "intact" /\ new.val = old.val + Amount /\ new.src = old.src
    \/ r.kind = "delete" /\ new = NoEnvelope

AbsInit ==
    /\ call = [c \in Clients |-> NoRequest]
    /\ eff = [c \in Clients |-> FALSE]
    /\ ret = [c \in Clients |-> "none"]
    /\ limbo = {}

Invoke(c) ==
    /\ call[c] = NoRequest
    /\ call'[c] # NoRequest
    /\ call' = [call EXCEPT ![c] = call'[c]]
    /\ ret' = [ret EXCEPT ![c] = "none"]
    /\ UNCHANGED <<cell, eff, limbo>>

TakeEffect(c) ==
    /\ call[c] # NoRequest /\ ~ eff[c]
    /\ Effect(call[c], cell, cell')
    /\ eff' = [eff EXCEPT ![c] = TRUE]
    /\ UNCHANGED <<call, ret, limbo>>

(* A lookup changes nothing and may report a hit or a miss. *)
Return(c) ==
    /\ call[c] # NoRequest
    /\ \/ ret' = [ret EXCEPT ![c] = IF eff[c] THEN "done" ELSE "refused"]
       \/ call[c].kind = "lookup" /\ ret' = [ret EXCEPT ![c] = "done"]
    /\ call' = [call EXCEPT ![c] = NoRequest]
    /\ eff' = [eff EXCEPT ![c] = FALSE]
    /\ UNCHANGED <<cell, limbo>>

Fail(c) ==
    /\ call[c] # NoRequest
    /\ ret' = [ret EXCEPT ![c] = "error"]
    /\ limbo' \in {limbo, limbo \cup {r \in {call[c]} : ~ eff[c]}}
    /\ call' = [call EXCEPT ![c] = NoRequest]
    /\ eff' = [eff EXCEPT ![c] = FALSE]
    /\ UNCHANGED cell

Straggle ==
    /\ \E r \in limbo : /\ limbo' = limbo \ {r}
                        /\ cell' = cell \/ Effect(r, cell, cell')
    /\ UNCHANGED <<call, eff, ret>>

Lose == cell' = NoEnvelope /\ UNCHANGED <<call, eff, ret, limbo>>

Rot ==
    /\ cell # NoEnvelope /\ cell' # NoEnvelope
    /\ cell'.frame # "intact"
    /\ UNCHANGED <<call, eff, ret, limbo>>

AbsNext ==
    \/ \E c \in Clients : Invoke(c) \/ TakeEffect(c) \/ Return(c) \/ Fail(c)
    \/ Straggle \/ Lose \/ Rot

AbsSpec == AbsInit /\ [][AbsNext]_absVars
=============================================================================
