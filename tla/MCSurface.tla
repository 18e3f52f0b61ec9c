------------------------------ MODULE MCSurface ------------------------------
(* The parts of the surface a caller meets beside tool calls, one at a time: *)
(* a behaviour belongs to one part and leaves the others as they start.      *)
EXTENDS Reads, Commands, EventBuffer, PlayerQueue

CONSTANTS
    MaxSeen         \* bound: events sent to one ring

VARIABLE part

partVars == <<part, readVars, commandVars, bufferVars, queueVars>>

(* Small filters: one of two players, one of two sources, both, or none. *)
MCPlayers == {"kitchen", "hall"}
MCSources == {"spotify", "spotify2", "local"}

MCFilter(players, sources) == [admin |-> FALSE, players |-> players, sources |-> sources]

MCAccounts ==
    {[enabled |-> TRUE, scopes |-> {"library", "player", "queue"}, filter |-> f] :
        f \in {MCFilter({}, {}), MCFilter({"hall"}, {}), MCFilter({}, {"spotify2"}),
               MCFilter({"kitchen"}, {"local"}), [Unfiltered EXCEPT !.players = {"hall"}]}}
    \cup {[enabled |-> FALSE, scopes |-> {"player"}, filter |-> MCFilter({}, {})],
          [enabled |-> TRUE, scopes |-> {"player"}, filter |-> MCFilter({}, {})]}

MCRow(own, mappings, links) == [own |-> own, mappings |-> mappings, links |-> links]

MCLink(form, source) == [form |-> form, source |-> source]

(* Rows by what they carry: an instance, a domain and its instance's uri,     *)
(* MA's own, both, nothing; a player; and references of each form.            *)
MCCatalogue ==
    {MCRow({"spotify2"}, {}, {}),
     MCRow({"spotify"}, {"spotify2"}, {}),
     MCRow({"spotify"}, {}, {MCLink("uri", "spotify2")}),
     MCRow({"library"}, {"local"}, {}),
     MCRow({"library"}, {}, {}),
     MCRow({}, {}, {}),
     MCRow({"kitchen"}, {}, {}),
     MCRow({"hall"}, {}, {}),
     MCRow({}, {}, {MCLink("share", "spotify")}),
     MCRow({}, {}, {MCLink("brokenShare", "spotify")}),
     MCRow({}, {}, {MCLink("stream", "local")}),
     MCRow({}, {}, {MCLink("plain", "local")})}

MCItems == {MCRow({"spotify"}, {"spotify2"}, {}), MCRow({"library"}, {}, {}), MCRow({}, {}, {})}

(* Two instances of one domain, the first known but not loaded. *)
MCProviders ==
    {[instance |-> "spotify", domain |-> "spotify", music |-> TRUE, available |-> FALSE],
     [instance |-> "spotify2", domain |-> "spotify", music |-> TRUE, available |-> TRUE],
     [instance |-> "local", domain |-> "local", music |-> FALSE, available |-> TRUE]}

MCDefaultModes == [k \in Guarded |-> IF k = "player" THEN "allow" ELSE "deny"]

MCDefinition == <<"remove_items_safe", "tail_log">>

MCKindOf == [e \in Event |-> IF e = "e1" THEN "added" ELSE "updated"]

Init ==
    /\ part \in {"reads", "commands", "ring", "queue"}
    /\ ReadsInit /\ CommandsInit /\ BufferInit /\ QueueInit
    /\ \E m \in {"deny", "allow", "confirm"} : modes = [k \in Guarded |-> m]
    /\ part # "reads" => /\ account = CHOOSE a \in Accounts : TRUE
                         /\ modes["player"] = "deny" /\ ~required
    /\ part # "commands" => ~secured /\ mode = [m \in CommandName |-> "deny"]
    /\ part # "ring" => \A c \in Capacities : capacity <= c
    /\ part # "queue" => items = <<>>

Next ==
    \/ /\ part = "reads" /\ ReadsNext
       /\ UNCHANGED <<part, commandVars, bufferVars, queueVars>>
    \/ /\ part = "commands" /\ CommandsNext
       /\ UNCHANGED <<part, readVars, bufferVars, queueVars>>
    \/ /\ part = "ring" /\ seen < MaxSeen /\ BufferNext
       /\ UNCHANGED <<part, readVars, commandVars, queueVars>>
    \/ /\ part = "queue" /\ QueueNext
       /\ UNCHANGED <<part, readVars, commandVars, bufferVars>>

Spec == Init /\ [][Next]_partVars

(* Every variable of every part keeps its type, and a read at a step has what *)
(* the step needs.                                                            *)
TypeOK == ReadsTypeOK /\ CommandsTypeOK /\ BufferTypeOK /\ QueueTypeOK

(* Every refusal of a read and every outcome of a command of our own leaves   *)
(* one record, however it comes to it, and nothing else leaves any.           *)
OutcomesAudited == RefusalsAudited /\ CommandAudited

(* What a caller is shown of lists and events is what the rules let it see    *)
(* one by one, and a page lacks nothing else.  (The parts not at work stay as *)
(* they start.)                                                               *)
ShownRight ==
    /\ part = "reads" => ListingAgrees /\ EventsWithinReach
    /\ part = "ring" => PageComplete
===============================================================================
