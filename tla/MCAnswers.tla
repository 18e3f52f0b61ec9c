------------------------------ MODULE MCAnswers ------------------------------
(* How a request gets in, what decides about it and how its answer gets out, *)
(* one part at a time: a behaviour belongs to one part and leaves the others *)
(* as they start.                                                            *)
EXTENDS Bridge, LogScan, LogPages, Discovery, CommandPolicy, Preflight, Envelope

CONSTANTS
    Parts,          \* the parts to check
    MaxBytes        \* bound: length of a file to scan

VARIABLE part

partVars ==
    <<part, bridgeVars, scanVars, logVars, discoveryVars, policyVars, preflightVars,
      envelopeVars>>

(* Every file of no more than so many bytes, newlines anywhere. *)
MCTexts == UNION {[1 .. n -> Byte \cup {Newline}] : n \in 0 .. MaxBytes}

(* Lines of one byte and of two; a record may be over the budget of three. *)
MCLine ==
    {[header |-> TRUE, wanted |-> TRUE, size |-> 1], [header |-> TRUE, wanted |-> TRUE, size |-> 2],
     [header |-> FALSE, wanted |-> TRUE, size |-> 2], [header |-> TRUE, wanted |-> FALSE, size |-> 1]}

MCLogs ==
    UNION {{[file |-> f, older |-> o] :
               f \in UNION {[1 .. n -> MCLine] : n \in 0 .. m}, o \in [1 .. 3 - m -> MCLine]} :
                   m \in {1, 3}}
    \cup {[file |-> f, older |-> o] : f \in {<<x>> : x \in MCLine}, o \in [1 .. 1 -> MCLine]}

(* Four commands; a re-registration (edition 2) and one that comes and goes. *)
MCRegistries ==
    {[a |-> 1, b |-> 1, c |-> 1, z |-> 1], [a |-> 2, b |-> 1, c |-> 1, z |-> 1],
     [a |-> 1, b |-> 1, c |-> 0, z |-> 2]}

(* Every mode, and policies that differ in one command only. *)
MCPolicies ==
    {[a |-> x, b |-> y, c |-> "allow", z |-> "allow"] :
        x \in {"deny", "allow", "confirm"}, y \in {"deny", "allow"}}

MCBefore == {<<"a", "b">>, <<"a", "c">>, <<"b", "c">>}

(* The scores depend on the whole registry, as BM25's do. *)
MCRelevance ==
    [snap \in Fingerprints |->
        [c \in Command \ HardDenied |->
            CASE c = "a" -> IF snap["c"] = 0 THEN 1 ELSE 2
              [] c = "b" -> 2
              [] c = "c" -> IF snap["a"] = 2 THEN 0 ELSE 3]]

(* Every family, named and with a verb, and names of no family. *)
MCTails == {<<"items">>, <<"remove", "_", "items">>, <<"volume", "_", "set">>}

MCRegistered ==
    UNION {{IF f.prefix[Len(f.prefix)] \in {"/", "_"} THEN f.prefix \o t
            ELSE f.prefix \o <<"/">> \o t : t \in MCTails} : f \in FamilyPolicies}
    \cup {<<"providers">>, <<"info">>, <<"tasks", "/", "list">>, <<"auth", "/", "me">>,
          <<"dashboard", "/", "register">>, <<"player", "_", "queues", "/", "next">>}
    \cup {<<"party", "/">> \o t : t \in MCTails}

MCSingle ==
    {<<"library", "read">>, <<"library", "write">>, <<"queues", "control">>,
     <<"players", "read">>, <<"config.core", "write">>, <<"system", "manage">>,
     <<"users", "impersonate">>, <<"none", "none">>}

MCScopes == {<<>>} \cup {<<x>> : x \in MCSingle} \cup {<<x, y>> : x, y \in MCSingle}

MCExact ==
    [c \in {<<"player", "_", "queues", "/", "next">>} |-> Needs("control:playback", "control")]

(* Data to be cut to a small budget, lists whose number gains a digit, and    *)
(* frames about every number of digits for the budgets in use.                *)
MCCases ==
    {[cap |-> cap, frame |-> 6, cut |-> cut, nested |-> nested, data |-> data] :
        cap \in {16, 24, 30, 36}, cut \in BOOLEAN, nested \in BOOLEAN,
        data \in UNION {[1 .. n -> 0 .. 3] : n \in 0 .. 3}}
    \cup {[cap |-> cap, frame |-> 6, cut |-> cut, nested |-> TRUE, data |-> [i \in 1 .. n |-> size]] :
            cap \in 32 .. 42, cut \in BOOLEAN, n \in 9 .. 12, size \in 0 .. 1}
    \cup {[cap |-> cap, frame |-> frame, cut |-> FALSE, nested |-> TRUE, data |-> <<>>] :
            cap \in {12288, 65536},
            frame \in UNION {{n - i : i \in 6 .. 15} : n \in {21, 100, 1000, 10000, 12288, 65536}}}

Init ==
    /\ part \in Parts
    /\ part # "bridge" => length = 0
    /\ BridgeInit
    /\ part # "scan" => text = <<>>
    /\ ScanInit
    /\ part # "log" => file = <<>> /\ older = <<>>
    /\ LogInit
    /\ part # "discovery" => /\ registry = CHOOSE r \in Registries : TRUE
                             /\ mode = CHOOSE m \in Policies : TRUE
                             /\ walk = [w \in Walk |-> Start("catalog")]
    /\ DiscoveryInit
    /\ part # "preflight" => /\ kind = "favorite_clear" /\ supplied = FALSE
                             /\ type = "plain" /\ flow = "gone"
    /\ PreflightInit
    /\ part # "envelope" => case = CHOOSE c \in Cases : TRUE
    /\ EnvelopeInit
    /\ part # "policy" =>
          request = [command |-> <<"info">>, scopes |-> <<>>, override |-> "none"]
    /\ PolicyInit

Next ==
    \/ /\ part = "bridge" /\ BridgeNext
       /\ UNCHANGED <<part, scanVars, logVars, discoveryVars, policyVars,
                      preflightVars, envelopeVars>>
    \/ /\ part = "scan" /\ ScanNext
       /\ UNCHANGED <<part, bridgeVars, logVars, discoveryVars, policyVars, preflightVars,
                      envelopeVars>>
    \/ /\ part = "log" /\ LogNext
       /\ UNCHANGED <<part, bridgeVars, scanVars, discoveryVars, policyVars,
                      preflightVars, envelopeVars>>
    \/ /\ part = "discovery" /\ DiscoveryNext
       /\ UNCHANGED <<part, bridgeVars, scanVars, logVars, policyVars, preflightVars,
                      envelopeVars>>
    \/ /\ part = "policy" /\ Decide
       /\ UNCHANGED <<part, bridgeVars, scanVars, logVars, discoveryVars,
                      preflightVars, envelopeVars>>
    \/ /\ part = "preflight" /\ PreflightNext
       /\ UNCHANGED <<part, bridgeVars, scanVars, logVars, discoveryVars, policyVars,
                      envelopeVars>>
    \/ /\ part = "envelope" /\ Answer
       /\ UNCHANGED <<part, bridgeVars, scanVars, logVars, discoveryVars, policyVars,
                      preflightVars>>

Spec == Init /\ [][Next]_partVars

(* The event loop runs the pump and the handler, an application takes what is *)
(* in its queue and winds down once it has read of a disconnect; callers that *)
(* page through the log or the catalog go on asking, and MA answers.          *)
FairSpec ==
    /\ Spec
    /\ WF_bridgeVars(part = "bridge" /\ PumpLosesClient)
    /\ WF_bridgeVars(part = "bridge" /\ AppReceives)
    /\ WF_bridgeVars(part = "bridge" /\ WindDown)
    /\ WF_bridgeVars(part = "bridge" /\ CancelPump)
    /\ WF_bridgeVars(part = "bridge" /\ HandlerEnds)
    /\ WF_logVars(part = "log" /\ FetchPage)
    /\ \A w \in Walk :
          /\ WF_discoveryVars(part = "discovery" /\ RequestPage(w))
          /\ WF_discoveryVars(part = "discovery" /\ AnswerKnown(w))

(* Every variable of every part keeps its type; a page is cut from a snapshot *)
(* taken for it alone, what is denied needs nothing and the rest something.   *)
TypeOK ==
    /\ BridgeTypeOK /\ ScanTypeOK /\ LogTypeOK /\ DiscoveryTypeOK
    /\ PolicyTypeOK /\ PreflightTypeOK /\ EnvelopeTypeOK

(* Nothing is left hanging: no handler whose client is gone, no walk through  *)
(* the log that follows its hints, and no walk through the catalog that       *)
(* starts over when it is told to.                                            *)
AnswersEnd ==
    /\ NoAbandonedHandler
    /\ part = "log" => WalkEnds
    /\ part = "discovery" => WalksComplete
===============================================================================
