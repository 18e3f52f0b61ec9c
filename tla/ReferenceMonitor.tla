--------------------------- MODULE ReferenceMonitor ---------------------------
(***************************************************************************)
(* What the invocation pipeline promises, without its awaits: a command    *)
(* handler starts in one atomic check against the live state.  The check   *)
(* asks three things: the live state forbids nothing, every reason the     *)
(* live policy wants confirmed was accepted by the user, and each identity *)
(* the call acts under was seen to be valid after the user's last answer.  *)
(***************************************************************************)

CONSTANTS
    Calls,          \* tool calls
    Reason,         \* confirmation reasons
    Forbidden       \* need[c] of a call the live state refuses altogether

VARIABLES
    need,           \* input: reasons the live state wants confirmed, per call
    valid,          \* input: the identities of a call that MA accepts now
    identities,     \* input: the identities a call acts under
    stage,          \* "open", "running" or "closed"
    granted,        \* reasons the user accepted for the call
    checked         \* identities seen valid since the user's last answer

mvars == <<need, valid, identities, stage, granted, checked>>

Init ==
    /\ stage = [c \in Calls |-> "open"]
    /\ granted = [c \in Calls |-> {}]
    /\ checked = [c \in Calls |-> {}]

(* The user answers a prompt: what was seen before it no longer counts. *)
Accept(c) ==
    /\ stage[c] = "open"
    /\ \E reasons \in SUBSET Reason :
          granted' = [granted EXCEPT ![c] = @ \cup reasons]
    /\ checked' = [checked EXCEPT ![c] = {}]
    /\ UNCHANGED stage

(* MA is asked about one identity of the call and accepts it. *)
Observe(c) ==
    /\ stage[c] = "open"
    /\ \E party \in valid[c] : checked' = [checked EXCEPT ![c] = @ \cup {party}]
    /\ UNCHANGED <<stage, granted>>

(* An earlier observation may be discarded. *)
Forget(c) ==
    /\ stage[c] = "open"
    /\ checked' = [checked EXCEPT ![c] = {}]
    /\ UNCHANGED <<stage, granted>>

(* The only way to execute: one step, judged on the state of that step. *)
Start(c) ==
    /\ stage[c] = "open"
    /\ need[c] # Forbidden
    /\ need[c] \subseteq granted[c]
    /\ identities[c] \subseteq checked[c]
    /\ stage' = [stage EXCEPT ![c] = "running"]
    /\ UNCHANGED <<granted, checked>>

(* The call ends: refused before it started, or done after. *)
Close(c) ==
    /\ stage[c] \in {"open", "running"}
    /\ stage' = [stage EXCEPT ![c] = "closed"]
    /\ checked' = [checked EXCEPT ![c] = {}]
    /\ UNCHANGED granted

Next ==
    \/ \E c \in Calls : Accept(c) \/ Observe(c) \/ Forget(c) \/ Start(c) \/ Close(c)
    \/ UNCHANGED <<stage, granted, checked>>

Spec == Init /\ [][Next]_mvars
===============================================================================
