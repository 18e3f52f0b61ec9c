--------------------------- MODULE InvocationProofs ---------------------------
(***************************************************************************)
(* Proofs about Invocation: every call is well placed, its audit trail is  *)
(* consistent, and the pipeline implements the atomic reference monitor.   *)
(***************************************************************************)
EXTENDS Invocation, TLAPS

(***************************************************************************)
(* The inductive invariant: the type invariant and, per call, what its     *)
(* audit counts are at the place it stands.                                *)
(***************************************************************************)
Prompts(r) ==
    CASE r.phase \in {"idle", "visible"} -> 0
      [] r.phase = "first" -> IF r.step = "elicit" THEN 1 ELSE 0
      [] r.phase = "second" -> IF r.step = "elicit" THEN 2 ELSE 1
      [] OTHER -> 2

Trail(r) ==
    /\ r.audit["requested"] <= Prompts(r)
    /\ r.phase # "ended" =>
          /\ Verdicts(r) = 0
          /\ r.audit["requested"] =
                r.audit["accepted"] + (IF r.step = "elicit" THEN 1 ELSE 0)
    /\ r.phase = "ended" =>
          /\ Verdicts(r) <= 1
          /\ \/ r.audit["requested"] = Answers(r)
             \/ /\ r.audit["requested"] = Answers(r) + 1
                /\ r.result \in {"error", "cancelled"}
          /\ ~r.started => r.audit["failed"] + r.audit["succeeded"] = 0
          /\ r.started /\ r.command \in Audited /\ r.result # "cancelled"
             => ExecutionVerdicts(r) = 1

IInv == TypeOK /\ \A c \in Calls : Trail(call[c])

(***************************************************************************)
(* Facts about the shared pieces.                                          *)
(***************************************************************************)

(* What the user is asked about are capabilities or the impersonation. *)
LEMMA EvidenceIsReasons ==
    ASSUME NEW p, NEW required \in SUBSET Capability,
           NEW alternatives \in SUBSET Capability, NEW impersonating \in BOOLEAN
    PROVE  ConfirmationEvidence(p, required, alternatives, impersonating) \subseteq Reason
<1>1. ConfirmedCapabilities(p, required, alternatives) \subseteq Reason
  BY DEF ConfirmedCapabilities, Reason
<1>2. ConfirmationCapability(required) \in Reason
  BY DEF ConfirmationCapability, Reason
<1>3. QED
  BY <1>1, <1>2 DEF ConfirmationEvidence, Reason

(* An ended call keeps its identity, evidence and records, nothing else. *)
LEMMA EndedFacts ==
    ASSUME NEW r \in CallState, NEW result \in Result
    PROVE  /\ Ended(r, result) \in CallState
           /\ Ended(r, result).phase = "ended"
           /\ Ended(r, result).step = "none"
           /\ Ended(r, result).result = result
           /\ Ended(r, result).audit = r.audit
           /\ Ended(r, result).started = r.started
           /\ Ended(r, result).evidence = r.evidence
           /\ Ended(r, result).command = r.command
           /\ Ended(r, result).asked = {}
  BY DEF Ended, CallState, Phase, Step, Class

(* Recording an outcome changes the count of that outcome alone. *)
LEMMA RecordedFacts ==
    ASSUME NEW r \in CallState, NEW outcome \in Outcome
    PROVE  /\ Recorded(r, outcome) \in CallState
           /\ \A o \in Outcome : Recorded(r, outcome).audit[o] =
                    IF o = outcome THEN r.audit[o] + 1 ELSE r.audit[o]
           /\ Recorded(r, outcome).phase = r.phase
           /\ Recorded(r, outcome).step = r.step
           /\ Recorded(r, outcome).result = r.result
           /\ Recorded(r, outcome).started = r.started
           /\ Recorded(r, outcome).evidence = r.evidence
           /\ Recorded(r, outcome).command = r.command
           /\ Recorded(r, outcome).auth = r.auth
           /\ Recorded(r, outcome).got = r.got
           /\ Recorded(r, outcome).impersonating = r.impersonating
           /\ Recorded(r, outcome).asked = r.asked
  BY DEF Recorded, CallState

(* No verdict at all: each of the five counts is zero. *)
LEMMA NoVerdict ==
    ASSUME NEW r \in CallState, Verdicts(r) = 0
    PROVE  /\ r.audit["denied"] = 0 /\ r.audit["declined"] = 0
           /\ r.audit["unsupported"] = 0 /\ r.audit["failed"] = 0
           /\ r.audit["succeeded"] = 0
           /\ r.audit["requested"] \in Nat /\ r.audit["accepted"] \in Nat
<1>1. /\ r.audit["denied"] \in Nat /\ r.audit["declined"] \in Nat
      /\ r.audit["unsupported"] \in Nat /\ r.audit["failed"] \in Nat
      /\ r.audit["succeeded"] \in Nat
      /\ r.audit["requested"] \in Nat /\ r.audit["accepted"] \in Nat
  BY DEF CallState, Outcome
<1> DEFINE d == r.audit["denied"]
           n == r.audit["declined"]
           u == r.audit["unsupported"]
           f == r.audit["failed"]
           s == r.audit["succeeded"]
<1>2. d + n + u + f + s = 0
  BY DEF Verdicts
<1>3. d \in Nat /\ n \in Nat /\ u \in Nat /\ f \in Nat /\ s \in Nat
  BY <1>1
<1> HIDE DEF d, n, u, f, s
<1>4. d = 0 /\ n = 0 /\ u = 0 /\ f = 0 /\ s = 0
  BY <1>2, <1>3
<1>5. QED
  BY <1>1, <1>4 DEF d, n, u, f, s

(* A step that replaces one call by a good one keeps the invariant. *)
LEMMA BecomeKeepsIInv ==
    ASSUME IInv, NEW c \in Calls, NEW r \in CallState, Placed(r), Trail(r), Become(c, r)
    PROVE  IInv'
  BY DEF IInv, TypeOK, Become, environment

(* What the records of a call must say when it ends with a given result. *)
EndsWell(r, result) ==
    /\ r.audit["requested"] <= 2
    /\ Verdicts(r) <= 1
    /\ \/ r.audit["requested"] = Answers(r)
       \/ r.audit["requested"] = Answers(r) + 1 /\ result \in {"error", "cancelled"}
    /\ ~r.started => r.audit["failed"] + r.audit["succeeded"] = 0
    /\ r.started /\ r.command \in Audited /\ result # "cancelled"
       => ExecutionVerdicts(r) = 1

LEMMA EndedIsGood ==
    ASSUME NEW r \in CallState, NEW result \in Result \ {"pending"}, EndsWell(r, result)
    PROVE  LET e == Ended(r, result) IN e \in CallState /\ Placed(e) /\ Trail(e)
<1> DEFINE e == Ended(r, result)
<1>1. /\ e \in CallState /\ e.phase = "ended" /\ e.step = "none" /\ e.result = result
      /\ e.audit = r.audit /\ e.started = r.started /\ e.command = r.command
      /\ e.asked = {}
  BY EndedFacts
<1> HIDE DEF e
<1>2. Placed(e)
  BY <1>1 DEF Placed, Places
<1>3. Prompts(e) = 2
  BY <1>1 DEF Prompts
<1>4. Trail(e)
  BY <1>1, <1>3 DEF Trail, EndsWell, Verdicts, Answers, ExecutionVerdicts
<1>5. QED
  BY <1>1, <1>2, <1>4 DEF e

(* A refusal before the handler starts leaves one denial and nothing else. *)
LEMMA DeniedIsGood ==
    ASSUME NEW r \in CallState, Placed(r), Trail(r),
           r.phase \notin {"idle", "run", "ended"}, r.step # "elicit"
    PROVE  Denied(r) \in CallState /\ Placed(Denied(r)) /\ Trail(Denied(r))
<1> DEFINE s == Recorded(r, "denied")
<1>1. /\ s \in CallState /\ s.started = r.started /\ s.command = r.command
      /\ \A o \in Outcome : s.audit[o] = IF o = "denied" THEN r.audit[o] + 1
                                         ELSE r.audit[o]
  BY RecordedFacts DEF Outcome
<1>2. r.started = FALSE
  BY DEF Placed, CallState
<1> HIDE DEF s
<1>3. /\ r.audit["requested"] = r.audit["accepted"] /\ Verdicts(r) = 0
      /\ r.audit["requested"] <= 2
  BY DEF Trail, Prompts, CallState, Outcome, Phase
<1>4. /\ s.audit["denied"] = 1 /\ s.audit["declined"] = 0
      /\ s.audit["unsupported"] = 0 /\ s.audit["failed"] = 0
      /\ s.audit["succeeded"] = 0 /\ s.audit["requested"] = s.audit["accepted"]
      /\ s.audit["requested"] \in Nat /\ s.audit["requested"] <= 2
  BY <1>1, <1>3, NoVerdict DEF Outcome
<1>5. EndsWell(s, "denied")
  BY <1>1, <1>2, <1>4 DEF EndsWell, Verdicts, Answers
<1>6. QED
  BY <1>1, <1>5, EndedIsGood DEF Denied, Result, s

(* A step that prompts for nothing, records nothing and does not end. *)
LEMMA QuietIsGood ==
    ASSUME NEW r \in CallState, NEW s \in CallState, Trail(r),
           r.phase # "ended", s.phase # "ended", r.step # "elicit", s.step # "elicit",
           s.audit = r.audit, Prompts(r) <= Prompts(s)
    PROVE  Trail(s)
<1>1. Prompts(r) \in Nat /\ Prompts(s) \in Nat
  BY DEF Prompts
<1>2. r.audit["requested"] \in Nat
  BY DEF CallState, Outcome
<1>3. Verdicts(s) = Verdicts(r)
  BY DEF Verdicts
<1>4. r.audit["requested"] <= Prompts(s)
  BY <1>1, <1>2 DEF Trail
<1>5. QED
  BY <1>3, <1>4 DEF Trail

(* A call that stops without any record: nothing was executed. *)
LEMMA StopIsGood ==
    ASSUME NEW r \in CallState, Placed(r), Trail(r), r.phase # "ended",
           NEW result \in Result \ {"pending"},
           \/ r.step # "elicit" /\ ~r.started
           \/ result \in {"error", "cancelled"},
           r.started => result = "cancelled"
    PROVE  LET e == Ended(r, result) IN e \in CallState /\ Placed(e) /\ Trail(e)
<1>1. /\ Verdicts(r) = 0 /\ r.audit["requested"] <= 2
      /\ r.audit["requested"] =
            r.audit["accepted"] + (IF r.step = "elicit" THEN 1 ELSE 0)
  BY DEF Trail, Prompts, CallState, Outcome, Phase
<1>2. EndsWell(r, result)
  BY <1>1, NoVerdict DEF EndsWell, Answers
<1>3. QED
  BY <1>2, EndedIsGood

(* The facts about one call that the invariant provides. *)
LEMMA CallFacts ==
    ASSUME IInv, NEW c \in Calls
    PROVE  /\ call[c] \in CallState /\ Placed(call[c]) /\ Trail(call[c])
           /\ call[c].bearer \in Bearer /\ call[c].command \in Command
  BY DEF IInv, TypeOK, CallState

(* Asking for a record that keeps the call waiting preserves the invariant. *)
LEMMA QuietStep ==
    ASSUME IInv, NEW c \in Calls, NEW s \in CallState, Become(c, s), Placed(s),
           call[c].phase # "ended", s.phase # "ended",
           call[c].step # "elicit", s.step # "elicit",
           s.audit = call[c].audit, Prompts(call[c]) <= Prompts(s)
    PROVE  IInv'
<1>1. Trail(s)
  BY CallFacts, QuietIsGood
<1>2. QED
  BY <1>1, BecomeKeepsIInv

(* A denial before the handler starts preserves the invariant. *)
LEMMA DeniedStep ==
    ASSUME IInv, NEW c \in Calls, Become(c, Denied(call[c])),
           call[c].phase \notin {"idle", "run", "ended"}, call[c].step # "elicit"
    PROVE  IInv'
  BY CallFacts, DeniedIsGood, BecomeKeepsIInv

(* The first phase starts with nothing asked and nothing recorded. *)
LEMMA ArriveStep ==
    ASSUME IInv, NEW c \in Calls, Arrive(c)
    PROVE  IInv'
<1>1. PICK b \in Bearer, m \in Command, act \in BOOLEAN :
          Become(c, [call[c] EXCEPT !.phase = "visible", !.step = "user",
                                    !.bearer = b, !.command = m,
                                    !.impersonating = act, !.entry = handler[m]])
  BY DEF Arrive
<1> DEFINE s == [call[c] EXCEPT !.phase = "visible", !.step = "user",
                               !.bearer = b, !.command = m,
                               !.impersonating = act, !.entry = handler[m]]
<1>2. call[c] \in CallState /\ Placed(call[c]) /\ call[c].phase = "idle"
  BY CallFacts DEF Arrive
<1>3. handler[m] \in Handler \cup {None}
  BY DEF IInv, TypeOK
<1>4. /\ s \in CallState /\ s.phase = "visible" /\ s.step = "user"
      /\ s.audit = call[c].audit /\ s.started = call[c].started
      /\ s.asked = call[c].asked /\ s.result = call[c].result
  BY <1>2, <1>3 DEF CallState, Phase, Step
<1>5. Placed(s)
  BY <1>2, <1>4 DEF Placed, Places
<1>6. Prompts(call[c]) <= Prompts(s) /\ call[c].step # "elicit"
  BY <1>2, <1>4 DEF Prompts, Placed, Places
<1>7. Become(c, s)
  BY <1>1
<1> HIDE DEF s
<1>8. QED
  BY <1>2, <1>4, <1>5, <1>6, <1>7, QuietStep

(* The two reads of _authentication and the read of the target. *)
LEMMA LookUpStep ==
    ASSUME IInv, NEW c \in Calls, LookUpUser(c) \/ LookUpTokenId(c) \/ LookUpTarget(c)
    PROVE  IInv'
<1> DEFINE r == call[c]
<1>1. /\ r \in CallState /\ Placed(r) /\ r.bearer \in Bearer
      /\ account[r.bearer] \in Account /\ target \in Account
      /\ r.got \in Account \cup {None}
  BY CallFacts DEF IInv, TypeOK, CallState
<1>2. ASSUME NEW found \in Account \cup {None}, r.step = "user",
             Become(c, [r EXCEPT !.step = "id", !.got = found])
      PROVE  IInv'
  <2> DEFINE s == [r EXCEPT !.step = "id", !.got = found]
  <2>1. /\ s \in CallState /\ s.phase = r.phase /\ s.step = "id"
        /\ s.audit = r.audit /\ s.started = r.started /\ s.asked = r.asked
        /\ s.result = r.result
    BY <1>1, <1>2 DEF CallState, Step
  <2>2. Placed(s) /\ r.phase # "ended"
    BY <1>1, <1>2, <2>1 DEF Placed, Places, Step, CallState, Phase
  <2>3. Prompts(r) <= Prompts(s)
    BY <1>1, <1>2, <2>1 DEF Prompts
  <2>4. QED
    BY <1>2, <2>1, <2>2, <2>3, QuietStep
<1>3. ASSUME NEW found \in Account \cup {None}, r.step = "id",
             Become(c, [r EXCEPT !.step = "authenticated", !.auth = found, !.got = None])
      PROVE  IInv'
  <2> DEFINE s == [r EXCEPT !.step = "authenticated", !.auth = found, !.got = None]
  <2>1. /\ s \in CallState /\ s.phase = r.phase /\ s.step = "authenticated"
        /\ s.audit = r.audit /\ s.started = r.started /\ s.asked = r.asked
        /\ s.result = r.result /\ s.got = None
    BY <1>1, <1>3 DEF CallState, Step
  <2>2. Placed(s) /\ r.phase # "ended"
    BY <1>1, <1>3, <2>1 DEF Placed, Places, Step, CallState, Phase
  <2>3. Prompts(r) <= Prompts(s)
    BY <1>1, <1>3, <2>1 DEF Prompts
  <2>4. QED
    BY <1>3, <2>1, <2>2, <2>3, QuietStep
<1>4. ASSUME r.step = "target", Become(c, [r EXCEPT !.step = "resolved", !.got = target])
      PROVE  IInv'
  <2> DEFINE s == [r EXCEPT !.step = "resolved", !.got = target]
  <2>1. /\ s \in CallState /\ s.phase = r.phase /\ s.step = "resolved"
        /\ s.audit = r.audit /\ s.started = r.started /\ s.asked = r.asked
        /\ s.result = r.result /\ s.impersonating = r.impersonating
    BY <1>1, <1>4 DEF CallState, Step
  <2>2. Placed(s) /\ r.phase # "ended"
    BY <1>1, <1>4, <2>1 DEF Placed, Places, Step, CallState, Phase
  <2>3. Prompts(r) <= Prompts(s)
    BY <1>1, <1>4, <2>1 DEF Prompts
  <2>4. QED
    BY <1>4, <2>1, <2>2, <2>3, QuietStep
<1>5. QED
  BY <1>1, <1>2, <1>3, <1>4 DEF LookUpUser, LookUpTokenId, LookUpTarget

(* What a call keeps when it only moves on: it stays among the phases of    *)
(* the authorization, and neither its records nor its prompts change.       *)
Moves(r, s) ==
    /\ s.audit = r.audit /\ s.started = r.started /\ s.asked = r.asked
    /\ s.result = r.result /\ s.impersonating = r.impersonating
    /\ r.phase \notin {"idle", "run", "ended"} /\ r.step # "elicit"
    /\ s.phase \notin {"idle", "run", "ended"} /\ s.step # "elicit"
    /\ s.step \in Places[s.phase]
    /\ s.step \in {"authenticated", "target"} => s.got = None
    /\ s.step \in {"target", "resolved"} => s.impersonating
    /\ Prompts(r) <= Prompts(s)

LEMMA MovesStep ==
    ASSUME IInv, NEW c \in Calls, NEW s \in CallState, Become(c, s), Moves(call[c], s)
    PROVE  IInv'
<1>1. call[c] \in CallState /\ Placed(call[c])
  BY CallFacts
<1>2. Placed(s)
  BY <1>1 DEF Placed, Moves, CallState
<1>3. QED
  BY <1>2, QuietStep DEF Moves

(* The catalog lookup hands over to the first authorization, or denies. *)
LEMMA ResolveEntryStep ==
    ASSUME IInv, NEW c \in Calls, ResolveEntry(c)
    PROVE  IInv'
<1> DEFINE r == call[c]
           s == Advance(r, "first", "user")
<1>1. /\ r \in CallState /\ Placed(r)
      /\ r.phase = "visible" /\ r.step = "authenticated"
  BY CallFacts DEF ResolveEntry, At
<1>2. CASE Become(c, Denied(r))
  BY <1>1, <1>2, DeniedStep
<1>3. CASE Become(c, s)
  <2>1. s \in CallState /\ s.phase = "first" /\ s.step = "user"
        /\ s.audit = r.audit /\ s.started = r.started /\ s.asked = r.asked
        /\ s.result = r.result /\ s.impersonating = r.impersonating
    BY <1>1 DEF Advance, CallState, Phase, Step
  <2> HIDE DEF s
  <2>2. Moves(r, s)
    BY <1>1, <2>1 DEF Moves, Places, Prompts, Step
  <2>3. QED
    BY <1>3, <2>1, <2>2, MovesStep
<1>4. QED
  BY <1>2, <1>3 DEF ResolveEntry

(* A change of step within one phase of the authorization. *)
LEMMA StepWithin ==
    ASSUME IInv, NEW c \in Calls,
           call[c].phase \in AuthorizePhase \cup {"final"},
           call[c].step # "elicit",
           NEW step \in {"target", "preflight", "user", "classified"},
           step = "target" => call[c].impersonating /\ call[c].got = None,
           NEW s \in CallState, Become(c, s), s.phase = call[c].phase, s.step = step,
           s.got = call[c].got \/ step # "target",
           s.audit = call[c].audit, s.started = call[c].started,
           s.asked = call[c].asked, s.result = call[c].result,
           s.impersonating = call[c].impersonating
    PROVE  IInv'
<1>1. call[c] \in CallState /\ Placed(call[c])
  BY CallFacts
<1>2. Prompts(call[c]) <= Prompts(s)
  BY DEF Prompts, AuthorizePhase
<1>3. Moves(call[c], s)
  BY <1>1, <1>2 DEF Moves, Places, AuthorizePhase, Step, CallState
<1>4. QED
  BY <1>3, MovesStep

LEMMA BeginAuthorizeStep ==
    ASSUME IInv, NEW c \in Calls, BeginAuthorize(c)
    PROVE  IInv'
<1> DEFINE r == call[c]
<1>1. /\ r \in CallState /\ Placed(r)
      /\ r.phase \in AuthorizePhase /\ r.step = "authenticated" /\ r.got = None
  BY CallFacts DEF BeginAuthorize, Placed
<1>2. CASE Become(c, Denied(r))
  BY <1>1, <1>2, DeniedStep DEF AuthorizePhase
<1>3. ASSUME NEW step \in {"target", "preflight"}, step = "target" => r.impersonating,
             Become(c, [r EXCEPT !.step = step])
      PROVE  IInv'
  <2> DEFINE s == [r EXCEPT !.step = step]
  <2>1. s \in CallState /\ s.phase = r.phase /\ s.step = step /\ s.got = r.got
        /\ s.audit = r.audit /\ s.started = r.started /\ s.asked = r.asked
        /\ s.result = r.result /\ s.impersonating = r.impersonating
    BY <1>1, <1>3 DEF CallState, Phase, Step
  <2>2. Become(c, s)
    BY <1>3
  <2> HIDE DEF s
  <2>3. QED
    BY <1>1, <1>3, <2>1, <2>2, StepWithin
<1>4. QED
  BY <1>1, <1>2, <1>3 DEF BeginAuthorize

LEMMA ResolveTargetStep ==
    ASSUME IInv, NEW c \in Calls, ResolveTarget(c)
    PROVE  IInv'
<1> DEFINE r == call[c]
           s == [r EXCEPT !.step = "preflight"]
<1>1. /\ r \in CallState /\ Placed(r)
      /\ r.phase \in AuthorizePhase /\ r.step = "resolved"
  BY CallFacts DEF ResolveTarget
<1>2. CASE Become(c, Denied(r))
  BY <1>1, <1>2, DeniedStep DEF AuthorizePhase
<1>3. CASE Become(c, s)
  <2>1. s \in CallState /\ s.phase = r.phase /\ s.step = "preflight" /\ s.got = r.got
        /\ s.audit = r.audit /\ s.started = r.started /\ s.asked = r.asked
        /\ s.result = r.result /\ s.impersonating = r.impersonating
    BY <1>1 DEF CallState, Phase, Step
  <2> HIDE DEF s
  <2>2. QED
    BY <1>1, <1>3, <2>1, StepWithin
<1>4. QED
  BY <1>2, <1>3 DEF ResolveTarget

LEMMA ClassifyStep ==
    ASSUME IInv, NEW c \in Calls, Classify(c)
    PROVE  IInv'
<1> DEFINE r == call[c]
           class == IF Preflight[r.command] = "none" THEN {} ELSE category[r.command]
           s == [r EXCEPT !.step = "classified", !.class = class]
<1>1. /\ r \in CallState /\ Placed(r) /\ r.step = "preflight" /\ r.command \in Command
  BY CallFacts DEF Classify
<1>2. class \in Class
  BY <1>1 DEF IInv, TypeOK, Class
<1>3. r.phase \in AuthorizePhase \cup {"final"}
  BY <1>1 DEF Placed, Places, CallState, Phase, AuthorizePhase
<1> HIDE DEF class
<1>4. s \in CallState /\ s.phase = r.phase /\ s.step = "classified" /\ s.got = r.got
      /\ s.audit = r.audit /\ s.started = r.started /\ s.asked = r.asked
      /\ s.result = r.result /\ s.impersonating = r.impersonating
  BY <1>1, <1>2 DEF CallState, Phase, Step
<1>5. Become(c, s)
  BY DEF Classify, class
<1> HIDE DEF s
<1>6. QED
  BY <1>1, <1>3, <1>4, <1>5, StepWithin

(* The three places that only deny. *)
LEMMA RefusalStep ==
    ASSUME IInv, NEW c \in Calls,
           Unauthenticated(c) \/ RefuseAuthorization(c) \/ RefuseSeal(c)
    PROVE  IInv'
<1>1. call[c] \in CallState /\ Placed(call[c]) /\ Become(c, Denied(call[c]))
  BY CallFacts DEF Unauthenticated, RefuseAuthorization, RefuseSeal
<1>2. call[c].phase \notin {"idle", "run", "ended"} /\ call[c].step # "elicit"
  BY <1>1 DEF Unauthenticated, RefuseAuthorization, RefuseSeal, AtSeal,
             AuthorizePhase, Placed, Places, CallState, Phase
<1>3. QED
  BY <1>1, <1>2, DeniedStep

LEMMA ProceedStep ==
    ASSUME IInv, NEW c \in Calls, Proceed(c)
    PROVE  IInv'
<1> DEFINE r == call[c]
<1>1. /\ r \in CallState /\ Placed(r)
      /\ r.phase \in AuthorizePhase /\ r.step = "classified"
  BY CallFacts DEF Proceed
<1>2. ASSUME NEW phase \in {"second", "final"}, NEW step \in {"user", "preflight"},
             phase = "second" => r.phase = "first",
             Become(c, Advance(r, phase, step))
      PROVE  IInv'
  <2> DEFINE s == Advance(r, phase, step)
  <2>1. s \in CallState /\ s.phase = phase /\ s.step = step
        /\ s.audit = r.audit /\ s.started = r.started /\ s.asked = r.asked
        /\ s.result = r.result /\ s.impersonating = r.impersonating
    BY <1>1, <1>2 DEF Advance, CallState, Phase, Step
  <2>2. Become(c, s)
    BY <1>2
  <2> HIDE DEF s
  <2>3. Prompts(r) <= Prompts(s)
    BY <1>1, <1>2, <2>1 DEF Prompts, AuthorizePhase
  <2>4. Moves(r, s)
    BY <1>1, <1>2, <2>1, <2>3 DEF Moves, Places, AuthorizePhase, Step
  <2>5. QED
    BY <2>1, <2>2, <2>4, MovesStep
<1>3. QED
  BY <1>1, <1>2 DEF Proceed

LEMMA BeginFinalStep ==
    ASSUME IInv, NEW c \in Calls, BeginFinal(c)
    PROVE  IInv'
<1> DEFINE r == call[c]
           s == [r EXCEPT !.step = "user", !.got = None, !.auth = None]
<1>1. /\ r \in CallState /\ Placed(r) /\ r.phase = "final" /\ r.step = "classified"
  BY CallFacts DEF BeginFinal, At
<1>2. CASE Become(c, Denied(r))
  BY <1>1, <1>2, DeniedStep
<1>3. CASE Become(c, s)
  <2>1. s \in CallState /\ s.phase = r.phase /\ s.step = "user"
        /\ s.audit = r.audit /\ s.started = r.started /\ s.asked = r.asked
        /\ s.result = r.result /\ s.impersonating = r.impersonating
    BY <1>1 DEF CallState, Phase, Step
  <2> HIDE DEF s
  <2>2. QED
    BY <1>1, <1>3, <2>1, StepWithin
<1>4. QED
  BY <1>2, <1>3 DEF BeginFinal

LEMMA FinalTargetStep ==
    ASSUME IInv, NEW c \in Calls, FinalTarget(c)
    PROVE  IInv'
<1> DEFINE r == call[c]
           s == [r EXCEPT !.step = "target"]
<1>1. /\ r \in CallState /\ Placed(r) /\ r.phase = "final" /\ r.step = "authenticated"
      /\ r.impersonating /\ r.got = None /\ Become(c, s)
  BY CallFacts DEF FinalTarget, At, Placed
<1>2. s \in CallState /\ s.phase = r.phase /\ s.step = "target" /\ s.got = r.got
      /\ s.audit = r.audit /\ s.started = r.started /\ s.asked = r.asked
      /\ s.result = r.result /\ s.impersonating = r.impersonating
  BY <1>1 DEF CallState, Phase, Step
<1> HIDE DEF s
<1>3. QED
  BY <1>1, <1>2, StepWithin

(* The request is recorded when the prompt opens. *)
LEMMA PromptStep ==
    ASSUME IInv, NEW c \in Calls, Prompt(c)
    PROVE  IInv'
<1> DEFINE r == call[c]
           q == Recorded(r, "requested")
           asked == EvidenceOf(r, r.class)
           s == [q EXCEPT !.step = "elicit", !.asked = asked]
<1>1. /\ r \in CallState /\ Placed(r) /\ Trail(r)
      /\ r.phase \in {"first", "second"} /\ r.step = "classified" /\ Become(c, s)
  BY CallFacts DEF Prompt
<1>2. asked \in SUBSET Reason
  <2>1. r.class \in SUBSET Capability
    BY <1>1 DEF Prompt, Authorized, CallState, Class
  <2>2. Required[r.command] \cup r.class \in SUBSET Capability
    BY <1>1, <2>1, InvocationAssumption DEF CallState
  <2>3. Alternatives[r.command] \in SUBSET Capability /\ r.impersonating \in BOOLEAN
    BY <1>1, InvocationAssumption DEF CallState
  <2>4. QED
    BY <2>2, <2>3, EvidenceIsReasons DEF EvidenceOf
<1>3. /\ q \in CallState /\ q.phase = r.phase /\ q.result = r.result
      /\ q.started = r.started /\ q.impersonating = r.impersonating
      /\ \A o \in Outcome : q.audit[o] = IF o = "requested" THEN r.audit[o] + 1
                                         ELSE r.audit[o]
  BY <1>1, RecordedFacts DEF Outcome
<1> HIDE DEF q, asked
<1>4. /\ s \in CallState /\ s.phase = r.phase /\ s.step = "elicit"
      /\ s.audit = q.audit /\ s.started = r.started /\ s.result = r.result
  BY <1>2, <1>3 DEF CallState, Step
<1> HIDE DEF s
<1>5. Placed(s)
  BY <1>1, <1>4 DEF Placed, Places, Step
<1>6. r.audit["requested"] \in Nat /\ r.audit["accepted"] \in Nat
  BY <1>1 DEF CallState, Outcome
<1>7. /\ r.audit["requested"] = r.audit["accepted"] /\ Verdicts(r) = 0
      /\ r.audit["requested"] <= Prompts(r)
  BY <1>1, <1>6 DEF Trail
<1>8. Prompts(s) = Prompts(r) + 1 /\ Prompts(r) \in Nat
  BY <1>1, <1>4 DEF Prompts
<1>9. s.audit["requested"] = r.audit["requested"] + 1
      /\ s.audit["accepted"] = r.audit["accepted"] /\ Verdicts(s) = 0
  BY <1>3, <1>4, <1>7 DEF Outcome, Verdicts
<1>10. s.audit["requested"] <= Prompts(s)
  BY <1>6, <1>7, <1>8, <1>9
<1>11. Trail(s)
  BY <1>1, <1>4, <1>6, <1>8, <1>9, <1>10 DEF Trail
<1>12. QED
  BY <1>1, <1>4, <1>5, <1>11, BecomeKeepsIInv

(* The accepted prompt is closed and the next authorization begins. *)
LEMMA AcceptPromptStep ==
    ASSUME IInv, NEW c \in Calls, AcceptPrompt(c)
    PROVE  IInv'
<1> DEFINE r == call[c]
           phase == IF r.phase = "first" THEN "second" ELSE "third"
           a == Advance(r, phase, "user")
           q == Recorded(a, "accepted")
           s == [q EXCEPT !.evidence = @ \cup r.asked, !.asked = {}]
<1>1. /\ r \in CallState /\ Placed(r) /\ Trail(r) /\ r.step = "elicit" /\ Become(c, s)
  BY CallFacts DEF AcceptPrompt
<1>2. r.phase \in {"first", "second"} /\ r.asked \in SUBSET Reason
  BY <1>1 DEF Placed, Places, CallState, Phase
<1>3. /\ a \in CallState /\ a.phase = phase /\ a.step = "user" /\ a.audit = r.audit
      /\ a.started = r.started /\ a.result = r.result
  BY <1>1 DEF Advance, CallState, Phase, Step
<1> HIDE DEF a
<1>4. /\ q \in CallState /\ q.phase = phase /\ q.step = "user" /\ q.result = r.result
      /\ q.started = r.started
      /\ \A o \in Outcome : q.audit[o] = IF o = "accepted" THEN r.audit[o] + 1
                                         ELSE r.audit[o]
  BY <1>3, RecordedFacts DEF Outcome
<1> HIDE DEF q
<1>5. /\ s \in CallState /\ s.phase = phase /\ s.step = "user" /\ s.asked = {}
      /\ s.audit = q.audit /\ s.started = r.started /\ s.result = r.result
  BY <1>2, <1>4 DEF CallState
<1> HIDE DEF s
<1>6. Placed(s)
  BY <1>1, <1>2, <1>5 DEF Placed, Places, Step
<1>7. /\ r.audit["requested"] = r.audit["accepted"] + 1 /\ Verdicts(r) = 0
      /\ r.audit["requested"] <= Prompts(r) /\ r.audit["accepted"] \in Nat
  BY <1>1, <1>2 DEF Trail, CallState, Outcome
<1>8. Prompts(s) = Prompts(r)
  BY <1>1, <1>2, <1>5 DEF Prompts
<1>9. /\ s.audit["requested"] = r.audit["requested"]
      /\ s.audit["accepted"] = r.audit["accepted"] + 1 /\ Verdicts(s) = 0
  BY <1>4, <1>5, <1>7 DEF Outcome, Verdicts
<1>10. Trail(s)
  BY <1>5, <1>7, <1>8, <1>9 DEF Trail
<1>11. QED
  BY <1>1, <1>5, <1>6, <1>10, BecomeKeepsIInv

(* Whatever the seal classifies is a classification. *)
LEMMA SealedClassesType ==
    ASSUME IInv, NEW r \in CallState
    PROVE  SealedClasses(r) \subseteq Class
<1>1. category[r.command] \in Class /\ r.class \in Class
  BY DEF IInv, TypeOK, CallState
<1>2. category[r.command] # Unclassified =>
         category[r.command] \cup {SecretWrite} \in Class
  BY <1>1, InvocationAssumption DEF Class
<1>3. QED
  BY <1>1, <1>2 DEF SealedClasses, Class

LEMMA StartStep ==
    ASSUME IInv, NEW c \in Calls, Start(c)
    PROVE  IInv'
<1> DEFINE r == call[c]
<1>1. /\ r \in CallState /\ Placed(r) /\ Trail(r) /\ r.phase = "final"
      /\ r.step \in {"resolved", "authenticated"}
  BY CallFacts DEF Start, AtSeal
<1>2. PICK class \in SealedClasses(r) :
          Become(c, [Advance([r EXCEPT !.class = class], "run", "handler")
                       EXCEPT !.started = TRUE])
  BY DEF Start
<1> DEFINE s == [Advance([r EXCEPT !.class = class], "run", "handler")
                   EXCEPT !.started = TRUE]
<1>3. class \in Class
  BY <1>1, <1>2, SealedClassesType
<1>4. /\ s \in CallState /\ s.phase = "run" /\ s.step = "handler" /\ s.started
      /\ s.audit = r.audit /\ s.asked = r.asked /\ s.result = r.result
  BY <1>1, <1>3 DEF Advance, CallState, Phase, Step
<1>5. Become(c, s)
  BY <1>2
<1> HIDE DEF s
<1>6. Placed(s)
  BY <1>1, <1>4 DEF Placed, Places
<1>7. Prompts(r) <= Prompts(s)
  BY <1>1, <1>4 DEF Prompts
<1>8. QED
  BY <1>1, <1>4, <1>5, <1>6, <1>7, QuietStep

LEMMA HandlerReturnsStep ==
    ASSUME IInv, NEW c \in Calls, HandlerReturns(c)
    PROVE  IInv'
<1> DEFINE r == call[c]
           s == [r EXCEPT !.step = "postflight"]
<1>1. /\ r \in CallState /\ Placed(r) /\ r.phase = "run" /\ r.step = "handler"
      /\ Become(c, s)
  BY CallFacts DEF HandlerReturns, At
<1>2. /\ s \in CallState /\ s.phase = "run" /\ s.step = "postflight"
      /\ s.audit = r.audit /\ s.asked = r.asked /\ s.result = r.result
      /\ s.started = r.started
  BY <1>1 DEF CallState, Step
<1> HIDE DEF s
<1>3. Placed(s) /\ Prompts(r) <= Prompts(s)
  BY <1>1, <1>2 DEF Placed, Places, Prompts
<1>4. QED
  BY <1>1, <1>2, <1>3, QuietStep

(* Ending a call without a record. *)
LEMMA StopStep ==
    ASSUME IInv, NEW c \in Calls, InvalidArguments(c) \/ Break(c) \/ Cancel(c)
    PROVE  IInv'
<1> DEFINE r == call[c]
<1>1. r \in CallState /\ Placed(r) /\ Trail(r)
  BY CallFacts
<1>2. CASE InvalidArguments(c)
  <2>1. r.phase = "first" /\ r.step = "authenticated" /\ Become(c, Ended(r, "invalid"))
    BY <1>2 DEF InvalidArguments, At
  <2>2. ~r.started
    BY <1>1, <2>1 DEF Placed
  <2>3. QED
    BY <1>1, <2>1, <2>2, StopIsGood, BecomeKeepsIInv DEF Result
<1>3. CASE Break(c)
  <2>1. r.step \in {"target", "preflight", "elicit"} /\ Become(c, Ended(r, "error"))
    BY <1>3 DEF Break
  <2>2. ~r.started /\ r.phase # "ended"
    BY <1>1, <2>1 DEF Placed, Places
  <2>3. QED
    BY <1>1, <2>1, <2>2, StopIsGood, BecomeKeepsIInv DEF Result
<1>4. CASE Cancel(c)
  BY <1>1, <1>4, StopIsGood, BecomeKeepsIInv DEF Cancel, Result
<1>5. QED
  BY <1>2, <1>3, <1>4

(* The user refuses or the client cannot ask: one record, one verdict. *)
LEMMA RefusePromptStep ==
    ASSUME IInv, NEW c \in Calls, RefusePrompt(c)
    PROVE  IInv'
<1> DEFINE r == call[c]
<1>1. r \in CallState /\ Placed(r) /\ Trail(r) /\ r.step = "elicit"
  BY CallFacts DEF RefusePrompt
<1>2. PICK o \in {"declined", "unsupported"} :
          Become(c, Ended(Recorded(r, o), "unconfirmed"))
  BY DEF RefusePrompt
<1>3. r.started = FALSE /\ r.phase # "ended" /\ Prompts(r) <= 2
  BY <1>1 DEF Placed, Places, CallState, Phase, Prompts
<1> DEFINE s == Recorded(r, o)
<1>4. /\ s \in CallState /\ s.started = r.started
      /\ \A x \in Outcome : s.audit[x] = IF x = o THEN r.audit[x] + 1 ELSE r.audit[x]
  BY <1>1, RecordedFacts DEF Outcome
<1> HIDE DEF s
<1>5. /\ Verdicts(r) = 0 /\ r.audit["requested"] = r.audit["accepted"] + 1
      /\ r.audit["requested"] <= Prompts(r) /\ Prompts(r) \in Nat
      /\ r.audit["requested"] \in Nat /\ r.audit["accepted"] \in Nat
  BY <1>1, <1>3 DEF Trail, Prompts, CallState, Outcome
<1>6. /\ s.audit["requested"] = r.audit["requested"]
      /\ s.audit["accepted"] = r.audit["accepted"]
      /\ s.audit["denied"] = 0 /\ s.audit["failed"] = 0 /\ s.audit["succeeded"] = 0
      /\ s.audit["declined"] + s.audit["unsupported"] = 1
      /\ s.audit["declined"] \in Nat /\ s.audit["unsupported"] \in Nat
  BY <1>1, <1>4, <1>5, NoVerdict DEF Outcome
<1>7. r.audit["requested"] <= 2
  BY <1>3, <1>5
<1>8. Verdicts(s) <= 1 /\ s.audit["requested"] = Answers(s)
  BY <1>5, <1>6 DEF Verdicts, Answers
<1>9. EndsWell(s, "unconfirmed")
  BY <1>3, <1>4, <1>6, <1>7, <1>8 DEF EndsWell
<1>10. QED
  BY <1>2, <1>4, <1>9, EndedIsGood, BecomeKeepsIInv DEF Result, s

(* A started handler is recorded once, and only when it is audited. *)
LEMMA ExecutedIsGood ==
    ASSUME NEW r \in CallState, Placed(r), Trail(r), r.phase = "run",
           NEW outcome \in {"denied", "failed", "succeeded"},
           NEW result \in Result \ {"pending"}
    PROVE  LET e == Ended(ExecutionRecord(r, outcome), result)
           IN  e \in CallState /\ Placed(e) /\ Trail(e)
<1>1. /\ r.started /\ r.step # "elicit" /\ Verdicts(r) = 0
      /\ r.audit["requested"] <= 2
      /\ r.audit["requested"] \in Nat /\ r.audit["accepted"] \in Nat
      /\ r.audit["requested"] = r.audit["accepted"]
  BY DEF Placed, Places, Trail, Prompts, CallState, Outcome
<1>2. CASE r.command \notin Audited
  <2>1. EndsWell(r, result)
    BY <1>1, <1>2, NoVerdict DEF EndsWell, Answers
  <2>2. QED
    BY <1>2, <2>1, EndedIsGood DEF ExecutionRecord
<1>3. CASE r.command \in Audited
  <2> DEFINE s == Recorded(r, outcome)
  <2>1. /\ s \in CallState /\ s.started = r.started
        /\ \A o \in Outcome : s.audit[o] = IF o = outcome THEN r.audit[o] + 1
                                           ELSE r.audit[o]
    BY RecordedFacts DEF Outcome
  <2> HIDE DEF s
  <2>2. /\ s.audit["requested"] = r.audit["requested"]
        /\ s.audit["accepted"] = r.audit["accepted"]
        /\ s.audit["declined"] = 0 /\ s.audit["unsupported"] = 0
    BY <1>1, <2>1, NoVerdict DEF Outcome
  <2>3. /\ s.audit["denied"] = IF outcome = "denied" THEN 1 ELSE 0
        /\ s.audit["failed"] = IF outcome = "failed" THEN 1 ELSE 0
        /\ s.audit["succeeded"] = IF outcome = "succeeded" THEN 1 ELSE 0
    BY <1>1, <2>1, NoVerdict DEF Outcome
  <2>4. ExecutionVerdicts(s) = 1 /\ Verdicts(s) = 1
    BY <2>2, <2>3 DEF ExecutionVerdicts, Verdicts
  <2>5. s.audit["requested"] = Answers(s) /\ s.audit["requested"] <= 2
    BY <1>1, <2>2 DEF Answers
  <2>6. EndsWell(s, result)
    BY <1>1, <2>1, <2>4, <2>5 DEF EndsWell
  <2>7. QED
    BY <1>3, <2>1, <2>6, EndedIsGood DEF ExecutionRecord, s
<1>4. QED
  BY <1>2, <1>3

LEMMA ExecutedStep ==
    ASSUME IInv, NEW c \in Calls, Succeed(c) \/ Fail(c) \/ RefuseCaller(c) \/ Timeout(c)
    PROVE  IInv'
<1> DEFINE r == call[c]
<1>1. r \in CallState /\ Placed(r) /\ Trail(r)
  BY CallFacts
<1>2. ASSUME r.phase = "run",
             NEW outcome \in {"denied", "failed", "succeeded"},
             NEW result \in Result \ {"pending"},
             Become(c, Ended(ExecutionRecord(r, outcome), result))
      PROVE  IInv'
  BY <1>1, <1>2, ExecutedIsGood, BecomeKeepsIInv
<1>3. CASE Timeout(c)
  <2>1. CASE r.started
    <3>1. r.phase = "run"
      BY <1>1, <1>3, <2>1 DEF Timeout, Placed
    <3>2. Become(c, Ended(ExecutionRecord(r, "failed"), "timeout"))
      BY <1>3, <2>1 DEF Timeout
    <3>3. QED
      BY <1>2, <3>1, <3>2 DEF Result
  <2>2. CASE ~r.started
    <3>1. r.phase = "final" /\ Become(c, Ended(r, "timeout"))
      BY <1>1, <1>3, <2>2 DEF Timeout, Placed
    <3>2. r.step # "elicit"
      BY <1>1, <3>1 DEF Placed, Places
    <3>3. QED
      BY <1>1, <2>2, <3>1, <3>2, StopIsGood, BecomeKeepsIInv DEF Result
  <2>3. QED
    BY <2>1, <2>2
<1>4. CASE Succeed(c)
  BY <1>2, <1>4 DEF Succeed, At, Result
<1>5. CASE Fail(c)
  BY <1>2, <1>5 DEF Fail, Result
<1>6. CASE RefuseCaller(c)
  BY <1>2, <1>6 DEF RefuseCaller, Result
<1>7. QED
  BY <1>3, <1>4, <1>5, <1>6

(* The environment leaves the calls alone and keeps the types. *)
LEMMA EnvironmentStep ==
    ASSUME IInv, Environment
    PROVE  IInv'
<1>1. call' = call /\ changes' \in Nat
  BY DEF Environment, SavePolicy, Revoke, Rebind, EditUsers, Reregister, Reclassify,
         Change, IInv, TypeOK
<1> DEFINE Typed == /\ live \in [Bearer -> BOOLEAN] /\ bound \in [Bearer -> BOOLEAN]
                    /\ account \in [Bearer -> Account] /\ target \in Account
                    /\ policy \in [Bearer -> Policies]
                    /\ handler \in [Command -> Handler \cup {None}]
                    /\ category \in [Command -> Class]
<1>2. Typed
  BY DEF IInv, TypeOK
<1>3. ASSUME NEW b \in Bearer, SavePolicy(b) \/ Revoke(b) \/ Rebind(b)
      PROVE  Typed'
  BY <1>2, <1>3 DEF SavePolicy, Revoke, Rebind
<1>4. ASSUME EditUsers PROVE Typed'
  BY <1>2, <1>4 DEF EditUsers
<1>5. ASSUME NEW m \in Command, Reregister(m) PROVE Typed'
  BY <1>2, <1>5 DEF Reregister
<1>6. ASSUME NEW m \in Command, Reclassify(m) PROVE Typed'
  <2>1. PICK k \in Categories[m] : category' = [category EXCEPT ![m] = k]
    BY <1>6 DEF Reclassify
  <2>2. k \in Class
    <3>1. Categories[m] \in SUBSET Class
      BY InvocationAssumption
    <3>2. QED
      BY <2>1, <3>1
  <2>3. QED
    BY <1>2, <1>6, <2>1, <2>2 DEF Reclassify
<1>7. Typed'
  BY <1>3, <1>4, <1>5, <1>6 DEF Environment
<1>8. QED
  BY <1>1, <1>7 DEF IInv, TypeOK

LEMMA InitIInv == Init => IInv
<1> SUFFICES ASSUME Init PROVE IInv
  OBVIOUS
<1>1. \A m \in Command : Categories[m] \subseteq Class
  BY InvocationAssumption
<1>2. /\ live \in [Bearer -> BOOLEAN] /\ bound \in [Bearer -> BOOLEAN]
      /\ account \in [Bearer -> Account] /\ target \in Account
      /\ policy \in [Bearer -> Policies]
      /\ handler \in [Command -> Handler \cup {None}]
      /\ changes \in Nat
  BY DEF Init, Account
<1>3. category \in [Command -> Class]
  BY <1>1 DEF Init
<1> DEFINE zero == [o \in Outcome |-> 0]
<1>4. zero \in [Outcome -> Nat] /\ \A o \in Outcome : zero[o] = 0
  OBVIOUS
<1>5. (CHOOSE b \in Bearer : TRUE) \in Bearer /\ (CHOOSE m \in Command : TRUE) \in Command
  BY InvocationAssumption
<1> HIDE DEF zero
<1>6. IdleCall.audit = zero
  BY DEF IdleCall, zero
<1>7. IdleCall \in CallState
  <2>1. {} \in Class
    BY DEF Class
  <2>2. QED
    BY <1>4, <1>5, <2>1 DEF IdleCall, CallState, Phase, Step, Result, zero
<1>8. Placed(IdleCall)
  BY DEF IdleCall, Placed, Places
<1>9. Trail(IdleCall)
  <2>1. IdleCall.phase = "idle" /\ IdleCall.step = "none"
    BY DEF IdleCall
  <2>2. QED
    BY <1>4, <1>6, <2>1 DEF Trail, Verdicts, Prompts, Outcome
<1>10. QED
  BY <1>2, <1>3, <1>7, <1>8, <1>9 DEF Init, IInv, TypeOK

LEMMA NextIInv == IInv /\ [Next]_vars => IInv'
<1> SUFFICES ASSUME IInv, [Next]_vars PROVE IInv'
  OBVIOUS
<1>1. ASSUME NEW c \in Calls, Progress(c)
      PROVE  IInv'
  BY <1>1, LookUpStep, ClassifyStep, RefusalStep, ResolveEntryStep, BeginAuthorizeStep,
     ResolveTargetStep, PromptStep, ProceedStep, BeginFinalStep, FinalTargetStep,
     StartStep DEF Progress
<1>2. ASSUME NEW c \in Calls, Outside(c)
      PROVE  IInv'
  BY <1>2, ArriveStep, StopStep, AcceptPromptStep, RefusePromptStep, HandlerReturnsStep,
     ExecutedStep DEF Outside
<1>3. CASE Environment
  BY <1>3, EnvironmentStep
<1>4. CASE UNCHANGED vars
  BY <1>4 DEF IInv, TypeOK, vars
<1>5. QED
  BY <1>1, <1>2, <1>3, <1>4 DEF Next

LEMMA InvariantHolds == Spec => []IInv
<1>1. Init => IInv
  BY InitIInv
<1>2. IInv /\ [Next]_vars => IInv'
  BY NextIInv
<1>3. QED
  BY <1>1, <1>2, PTL DEF Spec

(***************************************************************************)
(* Theorems.                                                               *)
(***************************************************************************)

(* Every variable keeps its type, and what a call holds follows from where  *)
(* in the pipeline it stands, at every await and under every interleaving.  *)
THEOREM TypeCorrect == Spec => []TypeOK
<1>1. IInv => TypeOK
  BY DEF IInv
<1>2. QED
  BY <1>1, InvariantHolds, PTL

(* No call ever leaves two verdicts in the audit trail, whatever the policy, *)
(* registry and user changes at its awaits (execution.py, the audit calls).  *)
THEOREM OneVerdictHolds == Spec => []OneVerdict
<1>1. IInv => OneVerdict
  <2> SUFFICES ASSUME IInv, NEW c \in Calls PROVE Verdicts(call[c]) <= 1
    BY DEF OneVerdict
  <2>1. Trail(call[c])
    BY CallFacts
  <2>2. QED
    BY <2>1 DEF Trail
<1>2. QED
  BY <1>1, InvariantHolds, PTL

(* Every prompt the user saw has its answer in the audit trail, and no call *)
(* prompts a third time (_confirm and the two rounds of _call).             *)
THEOREM PromptsAnsweredHolds == Spec => []PromptsAnswered
<1>1. IInv => PromptsAnswered
  <2> SUFFICES ASSUME IInv PROVE PromptsAnswered
    OBVIOUS
  <2> SUFFICES ASSUME NEW c \in Calls
               PROVE  LET r == call[c]
                      IN  /\ r.audit["requested"] <= 2
                          /\ \/ r.audit["requested"] = Answers(r)
                             \/ /\ r.audit["requested"] = Answers(r) + 1
                                /\ r.step = "elicit" \/ r.result \in {"error", "cancelled"}
    BY DEF PromptsAnswered
  <2> DEFINE r == call[c]
  <2>1. r \in CallState /\ Placed(r) /\ Trail(r)
    BY CallFacts
  <2>2. r.audit["requested"] \in Nat /\ r.audit["accepted"] \in Nat
        /\ Prompts(r) \in 0 .. 2
    BY <2>1 DEF CallState, Outcome, Prompts
  <2> HIDE DEF r
  <2>3. r.audit["requested"] <= 2
    BY <2>1, <2>2 DEF Trail
  <2>4. CASE r.phase # "ended"
    <3>1. /\ Verdicts(r) = 0
          /\ r.audit["requested"] =
                r.audit["accepted"] + (IF r.step = "elicit" THEN 1 ELSE 0)
      BY <2>1, <2>4 DEF Trail
    <3>2. Answers(r) = r.audit["accepted"]
      BY <2>1, <2>2, <3>1, NoVerdict DEF Answers
    <3>3. QED
      BY <2>2, <2>3, <3>1, <3>2 DEF r
  <2>5. CASE r.phase = "ended"
    BY <2>1, <2>3, <2>5 DEF Trail, r
  <2>6. QED
    BY <2>4, <2>5
<1>2. QED
  BY <1>1, InvariantHolds, PTL

(* A privileged handler that ran and was not cancelled left exactly one      *)
(* record of its outcome; none is left for a handler that never started.     *)
THEOREM ExecutionAuditedHolds == Spec => []ExecutionAudited
<1>1. IInv => ExecutionAudited
  <2> SUFFICES ASSUME IInv, NEW c \in Calls
               PROVE  LET r == call[c]
                      IN  /\ ~r.started => r.audit["failed"] + r.audit["succeeded"] = 0
                          /\ /\ r.phase = "ended" /\ r.started
                             /\ r.command \in Audited /\ r.result # "cancelled"
                             => ExecutionVerdicts(r) = 1
    BY DEF ExecutionAudited
  <2>1. call[c] \in CallState /\ Trail(call[c])
    BY CallFacts
  <2>2. CASE call[c].phase # "ended"
    BY <2>1, <2>2, NoVerdict DEF Trail
  <2>3. CASE call[c].phase = "ended"
    BY <2>1, <2>3 DEF Trail
  <2>4. QED
    BY <2>2, <2>3
<1>2. QED
  BY <1>1, InvariantHolds, PTL

(***************************************************************************)
(* Invocation implements ReferenceMonitor for every value of the constants. *)
(* A step of one call is a step of the monitor on that call or a stutter;  *)
(* the environment's steps are stutters.                                   *)
(***************************************************************************)
(***************************************************************************)
(* The permission arithmetic: asking for more never needs less.            *)
(***************************************************************************)

(* A capability set is denied when one member is, or when nothing is asked. *)
LEMMA DenyIsMonotone ==
    ASSUME NEW p \in Policy, NEW alternatives \in SUBSET Capability,
           NEW base \in SUBSET Capability, NEW small \in SUBSET Capability,
           NEW large \in SUBSET Capability, base \subseteq small, small \subseteq large,
           EffectiveMode(p, base, alternatives) # "deny",
           EffectiveMode(p, large, alternatives) # "deny"
    PROVE  EffectiveMode(p, small, alternatives) # "deny"
<1> DEFINE best == IF alternatives = {} THEN {} ELSE {BestOf(ModesOf(p, alternatives))}
<1>1. \A s \in SUBSET Capability :
         EffectiveMode(p, s, alternatives) = "deny"
            <=> \/ ModesOf(p, s) \cup best = {}
                \/ "deny" \in ModesOf(p, s) \cup best
  BY DEF EffectiveMode, Combine
<1>2. ModesOf(p, base) \subseteq ModesOf(p, small)
      /\ ModesOf(p, small) \subseteq ModesOf(p, large)
  BY DEF ModesOf
<1> HIDE DEF best
<1>3. QED
  BY <1>1, <1>2

(* Every confirm mode gives a reason, so the default reason is only for the *)
(* empty case and never hides the ones that matter.                         *)
LEMMA ConfirmHasReason ==
    ASSUME NEW p \in Policy, NEW alternatives \in SUBSET Capability,
           NEW required \in SUBSET Capability,
           EffectiveMode(p, required, alternatives) = "confirm"
    PROVE  ConfirmedCapabilities(p, required, alternatives) # {}
<1>1. \/ "confirm" \in ModesOf(p, required)
      \/ alternatives # {} /\ BestOf(ModesOf(p, alternatives)) = "confirm"
  BY DEF EffectiveMode, Combine
<1>2. CASE "confirm" \in ModesOf(p, required)
  BY <1>2 DEF ModesOf, ConfirmedCapabilities
<1>3. CASE BestOf(ModesOf(p, alternatives)) = "confirm"
  <2>1. "confirm" \in ModesOf(p, alternatives) /\ "allow" \notin ModesOf(p, alternatives)
    BY <1>3 DEF BestOf
  <2>2. PICK k \in alternatives : p[k] = "confirm"
    BY <2>1 DEF ModesOf
  <2>3. QED
    BY <2>1, <2>2 DEF ConfirmedCapabilities
<1>4. QED
  BY <1>1, <1>2, <1>3

LEMMA ModeIsOne ==
    ASSUME NEW p, NEW required, NEW alternatives
    PROVE  EffectiveMode(p, required, alternatives) \in Mode
  BY DEF EffectiveMode, Combine, Mode

(* Accepting the reasons of a larger set is accepting those of a smaller.   *)
LEMMA EvidenceIsMonotone ==
    ASSUME NEW p \in Policy, NEW alternatives \in SUBSET Capability,
           NEW small \in SUBSET Capability, NEW large \in SUBSET Capability,
           NEW impersonating \in BOOLEAN, small \subseteq large,
           EffectiveMode(p, small, alternatives) # "deny",
           EffectiveMode(p, large, alternatives) # "deny"
    PROVE  ConfirmationEvidence(p, small, alternatives, impersonating)
              \subseteq ConfirmationEvidence(p, large, alternatives, impersonating)
<1> DEFINE mode(s) == EffectiveMode(p, s, alternatives)
           reasons(s) == ConfirmedCapabilities(p, s, alternatives) \cup
                         (IF impersonating THEN {Impersonation} ELSE {})
<1>1. mode(small) \in {"allow", "confirm"} /\ mode(large) \in {"allow", "confirm"}
  BY ModeIsOne DEF Mode
<1>2. mode(small) = "confirm" => mode(large) = "confirm"
  BY DEF EffectiveMode, Combine, ModesOf
<1>3. reasons(small) \subseteq reasons(large)
  BY DEF ConfirmedCapabilities
<1>4. CASE mode(small) = "allow" /\ ~impersonating
  BY <1>4 DEF ConfirmationEvidence, InvocationMode
<1>5. CASE mode(small) = "confirm" \/ impersonating
  <2>1. reasons(small) # {}
    BY <1>5, ConfirmHasReason
  <2>2. InvocationMode(p, small, alternatives, impersonating) # "allow"
        /\ InvocationMode(p, large, alternatives, impersonating) # "allow"
    BY <1>1, <1>2, <1>5 DEF InvocationMode
  <2>3. /\ ConfirmationEvidence(p, small, alternatives, impersonating) = reasons(small)
        /\ ConfirmationEvidence(p, large, alternatives, impersonating) = reasons(large)
    BY <1>3, <2>1, <2>2 DEF ConfirmationEvidence
  <2>4. QED
    BY <1>3, <2>3
<1>6. QED
  BY <1>1, <1>4, <1>5

(***************************************************************************)
(* What the monitor sees of a call, and how a step changes it.             *)
(***************************************************************************)
StageOf == [c \in Calls |-> Stage(call[c])]
GrantedOf == [c \in Calls |-> call[c].evidence]
CheckedOf == [c \in Calls |-> Checked(call[c])]

(* A call's step shows on that call alone. *)
LEMMA BecomeShows ==
    ASSUME IInv, NEW c \in Calls, NEW s, Become(c, s)
    PROVE  /\ StageOf' = [StageOf EXCEPT ![c] = Stage(s)]
           /\ GrantedOf' = [GrantedOf EXCEPT ![c] = s.evidence]
           /\ CheckedOf' = [CheckedOf EXCEPT ![c] = Checked(s)]
<1>1. call' = [call EXCEPT ![c] = s] /\ call \in [Calls -> CallState]
  BY DEF Become, IInv, TypeOK
<1>2. call'[c] = s /\ \A d \in Calls \ {c} : call'[d] = call[d]
  BY <1>1
<1>3. \A d \in Calls : /\ Stage(call[d])' = Stage(call'[d])
                       /\ Checked(call[d])' = Checked(call'[d])
                       /\ call[d].evidence' = call'[d].evidence
  BY DEF Stage, Checked, Caller, HasScope
<1>4. StageOf' = [StageOf EXCEPT ![c] = Stage(s)]
  BY <1>2, <1>3 DEF StageOf
<1>5. GrantedOf' = [GrantedOf EXCEPT ![c] = s.evidence]
  BY <1>2, <1>3 DEF GrantedOf
<1>6. CheckedOf' = [CheckedOf EXCEPT ![c] = Checked(s)]
  BY <1>2, <1>3 DEF CheckedOf
<1>7. QED
  BY <1>4, <1>5, <1>6

(* Writing a call's own value back changes nothing. *)
LEMMA Same ==
    ASSUME NEW c \in Calls
    PROVE  /\ [StageOf EXCEPT ![c] = Stage(call[c])] = StageOf
           /\ [GrantedOf EXCEPT ![c] = call[c].evidence] = GrantedOf
           /\ [CheckedOf EXCEPT ![c] = Checked(call[c])] = CheckedOf
  BY DEF StageOf, GrantedOf, CheckedOf

(* A step that the monitor does not see. *)
LEMMA Unseen ==
    ASSUME IInv, NEW c \in Calls, NEW s, Become(c, s), Stage(s) = Stage(call[c]),
           s.evidence = call[c].evidence, Checked(s) = Checked(call[c])
    PROVE  Monitor!Next
<1>1. StageOf' = StageOf /\ GrantedOf' = GrantedOf /\ CheckedOf' = CheckedOf
  BY BecomeShows, Same
<1>2. QED
  BY <1>1 DEF Monitor!Next, StageOf, GrantedOf, CheckedOf

(* The end of a call, whatever its result. *)
LEMMA EndCloses ==
    ASSUME IInv, NEW c \in Calls, NEW r \in CallState, NEW result \in Result,
           Become(c, Ended(r, result)), call[c].phase # "ended",
           r.evidence = call[c].evidence
    PROVE  Monitor!Next
<1> DEFINE s == Ended(r, result)
<1>1. Stage(s) = "closed" /\ s.evidence = call[c].evidence /\ Checked(s) = {}
  BY EndedFacts DEF Stage, Checked
<1> HIDE DEF s
<1>2. /\ StageOf' = [StageOf EXCEPT ![c] = "closed"] /\ GrantedOf' = GrantedOf
      /\ CheckedOf' = [CheckedOf EXCEPT ![c] = {}]
  <2>1. /\ StageOf' = [StageOf EXCEPT ![c] = Stage(s)]
        /\ GrantedOf' = [GrantedOf EXCEPT ![c] = s.evidence]
        /\ CheckedOf' = [CheckedOf EXCEPT ![c] = Checked(s)]
    BY BecomeShows DEF s
  <2>2. QED
    BY <1>1, <2>1, Same
<1>3. StageOf[c] \in {"open", "running"}
  BY DEF StageOf, Stage
<1>4. Monitor!Close(c)
  BY <1>2, <1>3 DEF Monitor!Close, StageOf, GrantedOf, CheckedOf
<1>5. QED
  BY <1>4 DEF Monitor!Next

(* A refusal is an end. *)
LEMMA DenialCloses ==
    ASSUME IInv, NEW c \in Calls, Become(c, Denied(call[c])), call[c].phase # "ended"
    PROVE  Monitor!Next
  BY CallFacts, RecordedFacts, EndCloses DEF Denied, Outcome, Result

(***************************************************************************)
(* Action by action.                                                       *)
(***************************************************************************)

(* Before the final authentication nothing a call reads counts as checked. *)
Early(r) ==
    /\ r.phase \notin {"run", "ended"}
    /\ r.phase = "final" => r.step \in {"preflight", "classified", "user"}

LEMMA EarlyUnseen ==
    ASSUME IInv, NEW c \in Calls, NEW s, Become(c, s), Early(call[c]), Early(s),
           s.evidence = call[c].evidence
    PROVE  Monitor!Next
<1>1. Stage(call[c]) = "open" /\ Stage(s) = "open"
      /\ Checked(call[c]) = {} /\ Checked(s) = {}
  BY DEF Early, Stage, Checked
<1>2. QED
  BY <1>1, Unseen

LEMMA EarlyActions ==
    ASSUME IInv, NEW c \in Calls,
           \/ Arrive(c) \/ ResolveEntry(c) \/ BeginAuthorize(c) \/ ResolveTarget(c)
           \/ Classify(c) \/ Prompt(c) \/ Proceed(c) \/ BeginFinal(c)
    PROVE  Monitor!Next
<1> DEFINE r == call[c]
<1>1. r \in CallState /\ Placed(r)
  BY CallFacts
<1>2. CASE Arrive(c)
  <2>1. PICK b \in Bearer, m \in Command, act \in BOOLEAN :
            Become(c, [r EXCEPT !.phase = "visible", !.step = "user", !.bearer = b,
                                !.command = m, !.impersonating = act,
                                !.entry = handler[m]])
    BY <1>2 DEF Arrive
  <2> DEFINE s == [r EXCEPT !.phase = "visible", !.step = "user", !.bearer = b,
                            !.command = m, !.impersonating = act, !.entry = handler[m]]
  <2>2. Early(r) /\ Early(s) /\ s.evidence = r.evidence
    BY <1>1, <1>2 DEF Arrive, Early, CallState
  <2>3. Become(c, s)
    BY <2>1
  <2> HIDE DEF s
  <2>4. QED
    BY <2>2, <2>3, EarlyUnseen
<1>3. ASSUME Become(c, Denied(r)), r.phase # "ended" PROVE Monitor!Next
  BY <1>3, DenialCloses
<1>4. ASSUME NEW phase \in Phase \ {"run", "ended"}, NEW step \in Step, Early(r),
             phase = "final" => step \in {"preflight", "classified", "user"},
             Become(c, Advance(r, phase, step))
      PROVE  Monitor!Next
  <2> DEFINE s == Advance(r, phase, step)
  <2>1. s.phase = phase /\ s.step = step /\ s.evidence = r.evidence
    BY <1>1 DEF Advance, CallState
  <2>2. Early(s)
    BY <1>4, <2>1 DEF Early
  <2>3. Become(c, s)
    BY <1>4
  <2> HIDE DEF s
  <2>4. QED
    BY <1>4, <2>1, <2>2, <2>3, EarlyUnseen
<1>5. ASSUME NEW step \in Step, Early(r), r.phase # "final", Become(c, [r EXCEPT !.step = step])
      PROVE  Monitor!Next
  <2> DEFINE s == [r EXCEPT !.step = step]
  <2>1. s.phase = r.phase /\ s.evidence = r.evidence /\ Become(c, s)
    BY <1>1, <1>5 DEF CallState
  <2>2. Early(s)
    BY <1>5, <2>1 DEF Early
  <2> HIDE DEF s
  <2>3. QED
    BY <1>5, <2>1, <2>2, EarlyUnseen
<1>6. CASE ResolveEntry(c)
  <2>1. r.phase = "visible" /\ Early(r)
    BY <1>6 DEF ResolveEntry, At, Early
  <2>2. QED
    BY <1>3, <1>4, <1>6, <2>1 DEF ResolveEntry, Phase, Step
<1>7. CASE BeginAuthorize(c) \/ ResolveTarget(c)
  <2>1. r.phase \in AuthorizePhase /\ Early(r)
    BY <1>7 DEF BeginAuthorize, ResolveTarget, AuthorizePhase, Early
  <2>2. QED
    BY <1>3, <1>5, <1>7, <2>1 DEF BeginAuthorize, ResolveTarget, AuthorizePhase, Step
<1>8. CASE Classify(c)
  <2> DEFINE class == IF Preflight[r.command] = "none" THEN {} ELSE category[r.command]
             s == [r EXCEPT !.step = "classified", !.class = class]
  <2>1. Become(c, s) /\ r.step = "preflight"
    BY <1>8 DEF Classify
  <2> HIDE DEF class
  <2>2. s.phase = r.phase /\ s.step = "classified" /\ s.evidence = r.evidence
    BY <1>1 DEF CallState
  <2>3. Early(r) /\ Early(s)
    BY <1>1, <2>1, <2>2 DEF Early, Placed, Places
  <2> HIDE DEF s
  <2>4. QED
    BY <2>1, <2>2, <2>3, EarlyUnseen
<1>9. CASE Prompt(c)
  <2> DEFINE q == Recorded(r, "requested")
             asked == EvidenceOf(r, r.class)
             s == [q EXCEPT !.step = "elicit", !.asked = asked]
  <2>1. Become(c, s) /\ r.phase \in {"first", "second"}
    BY <1>9 DEF Prompt
  <2>2. q \in CallState /\ q.phase = r.phase /\ q.evidence = r.evidence
    BY <1>1, RecordedFacts DEF Outcome
  <2> HIDE DEF q, asked
  <2>3. s.phase = r.phase /\ s.evidence = r.evidence
    BY <2>2 DEF CallState
  <2>4. Early(r) /\ Early(s)
    BY <2>1, <2>3 DEF Early
  <2> HIDE DEF s
  <2>5. QED
    BY <2>1, <2>3, <2>4, EarlyUnseen
<1>10. CASE Proceed(c)
  <2>1. r.phase \in AuthorizePhase /\ Early(r)
    BY <1>10 DEF Proceed, AuthorizePhase, Early
  <2>2. QED
    BY <1>4, <1>10, <2>1 DEF Proceed, Phase, Step
<1>11. CASE BeginFinal(c)
  <2> DEFINE s == [r EXCEPT !.step = "user", !.got = None, !.auth = None]
  <2>1. r.phase = "final" /\ r.step = "classified"
    BY <1>11 DEF BeginFinal, At
  <2>2. s.phase = "final" /\ s.step = "user" /\ s.evidence = r.evidence
    BY <1>1, <2>1 DEF CallState
  <2>3. Early(r) /\ Early(s)
    BY <2>1, <2>2 DEF Early
  <2> HIDE DEF s
  <2>4. CASE Become(c, s)
    BY <2>2, <2>3, <2>4, EarlyUnseen
  <2>5. QED
    BY <1>3, <1>11, <2>1, <2>4 DEF BeginFinal, s
<1>12. QED
  BY <1>2, <1>6, <1>7, <1>8, <1>9, <1>10, <1>11

(* Every end of a call, from wherever it stands. *)
LEMMA EndingActions ==
    ASSUME IInv, NEW c \in Calls,
           \/ Unauthenticated(c) \/ RefuseAuthorization(c) \/ RefuseSeal(c)
           \/ InvalidArguments(c) \/ RefusePrompt(c) \/ Break(c) \/ Cancel(c)
           \/ Succeed(c) \/ Fail(c) \/ RefuseCaller(c) \/ Timeout(c)
    PROVE  Monitor!Next
<1> DEFINE r == call[c]
<1>1. r \in CallState /\ Placed(r)
  BY CallFacts
<1>2. r.phase # "ended"
  BY <1>1 DEF Unauthenticated, RefuseAuthorization, RefuseSeal, InvalidArguments,
     RefusePrompt, Break, Cancel, Succeed, Fail, RefuseCaller, Timeout, At, AtSeal,
     AuthorizePhase, Placed, Places
<1>3. ASSUME NEW result \in Result, Become(c, Ended(r, result)) PROVE Monitor!Next
  BY <1>1, <1>2, <1>3, EndCloses
<1>4. ASSUME NEW result \in Result, NEW outcome \in Outcome,
             Become(c, Ended(Recorded(r, outcome), result))
      PROVE  Monitor!Next
  BY <1>1, <1>2, <1>4, RecordedFacts, EndCloses
<1>5. CASE Unauthenticated(c) \/ RefuseAuthorization(c) \/ RefuseSeal(c)
  BY <1>2, <1>5, DenialCloses DEF Unauthenticated, RefuseAuthorization, RefuseSeal
<1>6. CASE InvalidArguments(c) \/ Break(c) \/ Cancel(c)
  BY <1>3, <1>6 DEF InvalidArguments, Break, Cancel, Result
<1>7. CASE RefusePrompt(c)
  BY <1>4, <1>7 DEF RefusePrompt, Result, Outcome
<1>8. CASE Succeed(c) \/ Fail(c) \/ RefuseCaller(c)
  BY <1>3, <1>4, <1>8 DEF Succeed, Fail, RefuseCaller, ExecutionRecord, Result, Outcome
<1>9. CASE Timeout(c)
  BY <1>3, <1>4, <1>9 DEF Timeout, ExecutionRecord, Result, Outcome
<1>10. QED
  BY <1>5, <1>6, <1>7, <1>8, <1>9

(* A changed set of checked identities that only grew by a valid one. *)
LEMMA CheckedGrows ==
    ASSUME IInv, NEW c \in Calls, NEW s, Become(c, s), NEW party \in Valid(call[c]),
           Stage(call[c]) = "open", Stage(s) = "open", s.evidence = call[c].evidence,
           Checked(s) = Checked(call[c]) \cup {party}
    PROVE  Monitor!Next
<1>1. /\ StageOf' = StageOf /\ GrantedOf' = GrantedOf
      /\ CheckedOf' = [CheckedOf EXCEPT ![c] = Checked(s)]
  BY BecomeShows, Same
<1>2. CheckedOf' = [CheckedOf EXCEPT ![c] = @ \cup {party}]
  BY <1>1 DEF CheckedOf
<1>3. Monitor!Observe(c)
  BY <1>1, <1>2 DEF Monitor!Observe, StageOf, GrantedOf, CheckedOf
<1>4. QED
  BY <1>3 DEF Monitor!Next

(* What was checked is discarded. *)
LEMMA CheckedForgotten ==
    ASSUME IInv, NEW c \in Calls, NEW s, Become(c, s),
           Stage(call[c]) = "open", Stage(s) = "open", s.evidence = call[c].evidence,
           Checked(s) = {}
    PROVE  Monitor!Next
<1>1. /\ StageOf' = StageOf /\ GrantedOf' = GrantedOf
      /\ CheckedOf' = [CheckedOf EXCEPT ![c] = {}]
  BY BecomeShows, Same
<1>2. Monitor!Forget(c)
  BY <1>1 DEF Monitor!Forget, StageOf, GrantedOf, CheckedOf
<1>3. QED
  BY <1>2 DEF Monitor!Next

(* The reads of the final phase are the monitor's observations. *)
LEMMA ReadingActions ==
    ASSUME IInv, NEW c \in Calls,
           LookUpUser(c) \/ LookUpTokenId(c) \/ LookUpTarget(c) \/ FinalTarget(c)
    PROVE  Monitor!Next
<1> DEFINE r == call[c]
<1>1. r \in CallState /\ Placed(r) /\ None \notin Account
  BY CallFacts, InvocationAssumption
<1>2. ~HasScope(None)
  BY <1>1 DEF HasScope, Account
<1>3. CASE LookUpUser(c)
  <2> DEFINE user == IF live[r.bearer] /\ account[r.bearer] # "disabled"
                     THEN account[r.bearer] ELSE None
  <2>1. PICK found \in {user, None} : Become(c, [r EXCEPT !.step = "id", !.got = found])
    BY <1>3 DEF LookUpUser
  <2> DEFINE s == [r EXCEPT !.step = "id", !.got = found]
  <2>2. /\ r.step = "user" /\ Become(c, s) /\ s.phase = r.phase /\ s.step = "id"
        /\ s.evidence = r.evidence /\ s.got = found /\ s.impersonating = r.impersonating
    BY <1>1, <1>3, <2>1 DEF LookUpUser, CallState
  <2>3. Caller(s, found) \subseteq Valid(r) /\ Caller(s, found) \subseteq {"caller"}
    BY <1>2, <2>2 DEF Valid, Caller
  <2> HIDE DEF s, user
  <2>4. CASE r.phase # "final"
    <3>1. r.phase \notin {"run", "ended"}
      BY <1>1, <2>2 DEF Placed, Places
    <3>2. Early(r) /\ Early(s)
      BY <2>2, <2>4, <3>1 DEF Early
    <3>3. QED
      BY <2>2, <3>2, EarlyUnseen
  <2>5. CASE r.phase = "final"
    <3>1. Checked(r) = {} /\ Checked(s) = Caller(s, found)
          /\ Stage(r) = "open" /\ Stage(s) = "open"
      BY <2>2, <2>5 DEF Checked, Stage
    <3>2. CASE Caller(s, found) = {}
      BY <2>2, <3>1, <3>2, Unseen
    <3>3. CASE Caller(s, found) = {"caller"}
      BY <2>2, <2>3, <3>1, <3>3, CheckedGrows
    <3>4. QED
      BY <2>3, <3>2, <3>3
  <2>6. QED
    BY <2>4, <2>5
<1>4. CASE LookUpTokenId(c)
  <2>1. PICK found \in {r.got, None} :
           Become(c, [r EXCEPT !.step = "authenticated", !.auth = found, !.got = None])
    BY <1>4 DEF LookUpTokenId
  <2> DEFINE s == [r EXCEPT !.step = "authenticated", !.auth = found, !.got = None]
  <2>2. /\ r.step = "id" /\ Become(c, s) /\ s.phase = r.phase
        /\ s.step = "authenticated" /\ s.auth = found /\ s.got = None
        /\ s.evidence = r.evidence /\ s.impersonating = r.impersonating
    BY <1>1, <1>4, <2>1 DEF LookUpTokenId, CallState
  <2> HIDE DEF s
  <2>3. CASE r.phase # "final"
    <3>1. r.phase \notin {"run", "ended"}
      BY <1>1, <2>2 DEF Placed, Places
    <3>2. Early(r) /\ Early(s)
      BY <2>2, <2>3, <3>1 DEF Early
    <3>3. QED
      BY <2>2, <3>2, EarlyUnseen
  <2>4. CASE r.phase = "final"
    <3>1. /\ Checked(r) = Caller(r, r.got) /\ Stage(r) = "open" /\ Stage(s) = "open"
          /\ Checked(s) = Caller(s, found)
      BY <1>1, <2>2, <2>4 DEF Checked, Stage, Account
    <3>2. CASE found = None
      <4>1. Checked(s) = {}
        BY <1>2, <3>1, <3>2 DEF Caller, Account
      <4>2. QED
        BY <2>2, <3>1, <4>1, CheckedForgotten
    <3>3. CASE found = r.got
      <4>1. Checked(s) = Checked(r)
        BY <2>2, <3>1, <3>3 DEF Caller
      <4>2. QED
        BY <2>2, <3>1, <4>1, Unseen
    <3>4. QED
      BY <3>2, <3>3
  <2>5. QED
    BY <2>3, <2>4
<1>5. CASE LookUpTarget(c)
  <2> DEFINE s == [r EXCEPT !.step = "resolved", !.got = target]
  <2>1. /\ r.step = "target" /\ Become(c, s) /\ s.phase = r.phase /\ s.step = "resolved"
        /\ s.auth = r.auth /\ s.got = target /\ s.evidence = r.evidence
        /\ s.impersonating = r.impersonating /\ r.got = None /\ r.impersonating
    BY <1>1, <1>5 DEF LookUpTarget, CallState, Placed
  <2> HIDE DEF s
  <2>2. CASE r.phase # "final"
    <3>1. r.phase \notin {"run", "ended"}
      BY <1>1, <2>1 DEF Placed, Places
    <3>2. Early(r) /\ Early(s)
      BY <2>1, <2>2, <3>1 DEF Early
    <3>3. QED
      BY <2>1, <3>2, EarlyUnseen
  <2>3. CASE r.phase = "final"
    <3>1. /\ Checked(r) = Caller(r, r.auth) /\ Stage(r) = "open" /\ Stage(s) = "open"
          /\ Checked(s) = Caller(s, s.auth) \cup
                          (IF s.got = "granted" THEN {"target"} ELSE {})
      BY <1>1, <2>1, <2>3 DEF Checked, Stage, Account
    <3>2. Caller(s, s.auth) = Caller(r, r.auth)
      BY <2>1 DEF Caller
    <3>3. CASE target = "granted"
      <4>1. "target" \in Valid(r)
        BY <3>3 DEF Valid
      <4>2. QED
        BY <2>1, <3>1, <3>2, <3>3, <4>1, CheckedGrows
    <3>4. CASE target # "granted"
      BY <2>1, <3>1, <3>2, <3>4, Unseen
    <3>5. QED
      BY <3>3, <3>4
  <2>4. QED
    BY <2>2, <2>3
<1>6. CASE FinalTarget(c)
  <2> DEFINE s == [r EXCEPT !.step = "target"]
  <2>1. /\ r.phase = "final" /\ r.step = "authenticated" /\ r.got = None
        /\ Become(c, s) /\ s.phase = "final" /\ s.step = "target" /\ s.got = r.got
        /\ s.auth = r.auth /\ s.evidence = r.evidence
        /\ s.impersonating = r.impersonating
    BY <1>1, <1>6 DEF FinalTarget, At, CallState, Placed
  <2> HIDE DEF s
  <2>2. Checked(s) = Checked(r) /\ Stage(s) = Stage(r)
    BY <2>1 DEF Checked, Stage, Caller
  <2>3. QED
    BY <2>1, <2>2, Unseen
<1>7. QED
  BY <1>3, <1>4, <1>5, <1>6

LEMMA HandlerReturnsUnseen ==
    ASSUME IInv, NEW c \in Calls, HandlerReturns(c)
    PROVE  Monitor!Next
<1> DEFINE r == call[c]
           s == [r EXCEPT !.step = "postflight"]
<1>1. /\ r.phase = "run" /\ r.step = "handler" /\ Become(c, s) /\ s.phase = "run"
      /\ s.step = "postflight" /\ s.got = r.got /\ s.auth = r.auth
      /\ s.evidence = r.evidence /\ s.impersonating = r.impersonating
  BY CallFacts DEF HandlerReturns, At, CallState
<1> HIDE DEF s
<1>2. Checked(s) = Checked(r) /\ Stage(s) = Stage(r)
  BY <1>1 DEF Checked, Stage, Caller
<1>3. QED
  BY <1>1, <1>2, Unseen

(* The user's acceptance adds reasons and voids what was checked. *)
LEMMA AcceptPromptAccepts ==
    ASSUME IInv, NEW c \in Calls, AcceptPrompt(c)
    PROVE  Monitor!Next
<1> DEFINE r == call[c]
           a == Advance(r, IF r.phase = "first" THEN "second" ELSE "third", "user")
           q == Recorded(a, "accepted")
           s == [q EXCEPT !.evidence = @ \cup r.asked, !.asked = {}]
<1>1. r \in CallState /\ Placed(r) /\ r.step = "elicit" /\ Become(c, s)
  BY CallFacts DEF AcceptPrompt
<1>2. r.phase \in {"first", "second"} /\ r.asked \in SUBSET Reason
  BY <1>1 DEF Placed, Places, CallState, Phase
<1>3. a \in CallState /\ a.phase \in {"second", "third"} /\ a.evidence = r.evidence
  BY <1>1 DEF Advance, CallState, Phase, Step
<1> HIDE DEF a
<1>4. q \in CallState /\ q.phase = a.phase /\ q.evidence = r.evidence
  BY <1>3, RecordedFacts DEF Outcome
<1> HIDE DEF q
<1>5. s.phase \in {"second", "third"} /\ s.evidence = r.evidence \cup r.asked
  BY <1>3, <1>4 DEF CallState
<1> HIDE DEF s
<1>6. Stage(r) = "open" /\ Stage(s) = "open" /\ Checked(s) = {}
  BY <1>2, <1>5 DEF Stage, Checked
<1>7. /\ StageOf' = StageOf
      /\ GrantedOf' = [GrantedOf EXCEPT ![c] = s.evidence]
      /\ CheckedOf' = [CheckedOf EXCEPT ![c] = {}]
  BY <1>1, <1>6, BecomeShows, Same
<1>8. GrantedOf' = [GrantedOf EXCEPT ![c] = @ \cup r.asked]
  BY <1>5, <1>7 DEF GrantedOf
<1>9. Monitor!Accept(c)
  BY <1>2, <1>6, <1>7, <1>8 DEF Monitor!Accept, StageOf, GrantedOf, CheckedOf
<1>10. QED
  BY <1>9 DEF Monitor!Next

(***************************************************************************)
(* The seal: what was confirmed and checked covers what is live.           *)
(***************************************************************************)

(* The class the seal judges covers the live one, so what the seal accepts  *)
(* the live state does not refuse, and its evidence is enough.              *)
LEMMA SealMeetsNeed ==
    ASSUME IInv, NEW r \in CallState, NEW class \in SealedClasses(r),
           Sealed([r EXCEPT !.class = class])
    PROVE  Need(r) # Forbidden /\ Need(r) \subseteq r.evidence
<1> DEFINE s == [r EXCEPT !.class = class]
<1>1. /\ s.class = class /\ s.bearer = r.bearer /\ s.command = r.command
      /\ s.entry = r.entry /\ s.auth = r.auth /\ s.got = r.got
      /\ s.impersonating = r.impersonating /\ s.evidence = r.evidence
  BY DEF CallState
<1>2. Sealed(s)
  OBVIOUS
<1> HIDE DEF s
<1> DEFINE p == RequestPolicy(r.bearer)
           base == Required[r.command]
           anyOf == Alternatives[r.command]
           now == LiveClass(r)
<1>3. /\ bound[r.bearer] /\ class # Unclassified /\ handler[r.command] = r.entry
      /\ r.entry # None
      /\ EffectiveMode(p, base \cup {}, anyOf) # "deny"
      /\ EffectiveMode(p, base \cup class, anyOf) # "deny"
      /\ ConfirmationEvidence(p, base \cup class, anyOf, r.impersonating)
            \subseteq r.evidence
  BY <1>1, <1>2 DEF Sealed, Authorized, Confirmed, EntryHolds, CallMode, EvidenceOf
<1>4. p \in Policy
  BY InvocationAssumption DEF RequestPolicy, IInv, TypeOK, CallState
<1>5. base \in SUBSET Capability /\ anyOf \in SUBSET Capability /\ r.impersonating \in BOOLEAN
  BY InvocationAssumption DEF CallState
<1>6. now # Unclassified /\ now \subseteq class
  BY <1>3 DEF SealedClasses, LiveClass
<1>7. class \in SUBSET Capability /\ now \in SUBSET Capability
  <2>1. class \in Class
    BY SealedClassesType
  <2>2. QED
    BY <1>3, <1>6, <2>1 DEF Class
<1>8. /\ base \cup {} \in SUBSET Capability /\ base \cup now \in SUBSET Capability
      /\ base \cup class \in SUBSET Capability
      /\ base \cup {} \subseteq base \cup now /\ base \cup now \subseteq base \cup class
  BY <1>5, <1>6, <1>7
<1>9. CallMode(r, now) = EffectiveMode(p, base \cup now, anyOf)
      /\ EvidenceOf(r, now) = ConfirmationEvidence(p, base \cup now, anyOf, r.impersonating)
  BY DEF CallMode, EvidenceOf
<1> HIDE DEF p, base, anyOf, now
<1>10. EffectiveMode(p, base \cup now, anyOf) # "deny"
  BY <1>3, <1>4, <1>5, <1>8, DenyIsMonotone
<1>11. EvidenceOf(r, now) \subseteq r.evidence
  <2>1. ConfirmationEvidence(p, base \cup now, anyOf, r.impersonating) \subseteq
        ConfirmationEvidence(p, base \cup class, anyOf, r.impersonating)
    BY <1>3, <1>4, <1>5, <1>8, <1>10, EvidenceIsMonotone
  <2>2. QED
    BY <1>3, <1>9, <2>1
<1>12. Need(r) = EvidenceOf(r, now)
  BY <1>3, <1>6, <1>9, <1>10 DEF Need, now
<1>13. EvidenceOf(r, now) # Forbidden
  <2>1. EvidenceOf(r, now) \subseteq Reason
    BY <1>5, <1>8, <1>9, EvidenceIsReasons
  <2>2. QED
    BY <2>1, InvocationAssumption DEF Forbidden
<1>14. QED
  BY <1>11, <1>12, <1>13

LEMMA StartStarts ==
    ASSUME IInv, NEW c \in Calls, Start(c)
    PROVE  Monitor!Next
<1> DEFINE r == call[c]
<1>1. /\ r \in CallState /\ Placed(r) /\ r.phase = "final" /\ r.auth # None
      /\ r.step = IF r.impersonating THEN "resolved" ELSE "authenticated"
  BY CallFacts DEF Start, AtSeal
<1>2. PICK class \in SealedClasses(r) :
         /\ Sealed([r EXCEPT !.class = class])
         /\ Become(c, [Advance([r EXCEPT !.class = class], "run", "handler")
                         EXCEPT !.started = TRUE])
  BY DEF Start
<1> DEFINE k == [r EXCEPT !.class = class]
           s == [Advance(k, "run", "handler") EXCEPT !.started = TRUE]
<1>3. /\ s.phase = "run" /\ s.step = "handler" /\ s.got = r.got /\ s.auth = r.auth
      /\ s.evidence = r.evidence /\ s.impersonating = r.impersonating
  BY <1>1 DEF Advance, CallState
<1>4. Become(c, s)
  BY <1>2
<1>5. Need(r) # Forbidden /\ Need(r) \subseteq r.evidence
  BY <1>1, <1>2, SealMeetsNeed
<1>6. HasScope(r.auth) /\ FiltersHold(r)
  BY <1>1, <1>2 DEF Sealed, Authorized, EntryHolds, FiltersHold, CallState
<1> HIDE DEF s
<1>7. Identities(r) \subseteq Checked(r)
  BY <1>1, <1>6 DEF Identities, Checked, Caller, FiltersHold
<1>8. Checked(s) = Checked(r) /\ Stage(r) = "open" /\ Stage(s) = "running"
  BY <1>1, <1>3 DEF Checked, Stage, Caller
<1>9. /\ StageOf' = [StageOf EXCEPT ![c] = "running"] /\ GrantedOf' = GrantedOf
      /\ CheckedOf' = CheckedOf
  BY <1>3, <1>4, <1>8, BecomeShows, Same
<1>10. Monitor!Start(c)
  BY <1>5, <1>7, <1>8, <1>9 DEF Monitor!Start, StageOf, GrantedOf, CheckedOf
<1>11. QED
  BY <1>10 DEF Monitor!Next

(***************************************************************************)
(* The theorem.                                                            *)
(***************************************************************************)
LEMMA InitRefines == Init => Monitor!Init
<1> SUFFICES ASSUME Init PROVE Monitor!Init
  OBVIOUS
<1>1. \A c \in Calls : call[c].phase = "idle" /\ call[c].evidence = {}
  BY DEF Init, IdleCall
<1>2. \A c \in Calls : Stage(call[c]) = "open" /\ Checked(call[c]) = {}
  BY <1>1 DEF Stage, Checked
<1>3. QED
  BY <1>1, <1>2 DEF Monitor!Init

LEMMA NextRefines == IInv /\ [Next]_vars => [Monitor!Next]_(Monitor!mvars)
<1> SUFFICES ASSUME IInv, [Next]_vars PROVE Monitor!Next
  OBVIOUS
<1>1. ASSUME NEW c \in Calls, Progress(c)
      PROVE  Monitor!Next
  BY <1>1, EarlyActions, ReadingActions, EndingActions, StartStarts DEF Progress
<1>2. ASSUME NEW c \in Calls, Outside(c)
      PROVE  Monitor!Next
  BY <1>2, EarlyActions, EndingActions, AcceptPromptAccepts, HandlerReturnsUnseen
     DEF Outside
<1>3. ASSUME call' = call
      PROVE  Monitor!Next
  BY <1>3 DEF Monitor!Next, Stage, Checked, Caller, HasScope
<1>4. CASE Environment
  BY <1>3, <1>4 DEF Environment, SavePolicy, Revoke, Rebind, EditUsers, Reregister,
     Reclassify, Change
<1>5. CASE UNCHANGED vars
  BY <1>3, <1>5 DEF vars
<1>6. QED
  BY <1>1, <1>2, <1>4, <1>5 DEF Next

(* Whatever happens at its awaits, a call starts its handler as if it had    *)
(* been authorized in one atomic step on the state of that instant: the      *)
(* pipeline of execution.py is the reference monitor, for any number of      *)
(* calls, tokens, commands, policies and changes.                            *)
THEOREM ImplementsMonitor == Spec => MonitorSpec
<1>1. Init => Monitor!Init
  BY InitRefines
<1>2. IInv /\ [Next]_vars => [Monitor!Next]_(Monitor!mvars)
  BY NextRefines
<1>3. QED
  BY <1>1, <1>2, InvariantHolds, PTL DEF Spec, MonitorSpec, Monitor!Spec
================================================================================
