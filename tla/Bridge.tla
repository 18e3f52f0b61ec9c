-------------------------------- MODULE Bridge --------------------------------
(***************************************************************************)
(* One HTTP request on its way through the bridge (http_bridge.py): a pump *)
(* task feeds the request body to a queue the ASGI application receives    *)
(* from, `send` writes what the application answers, and the handler ends  *)
(* the pump when the application is through.                               *)
(*                                                                         *)
(* The client may leave at any moment; pump, send and the application's    *)
(* own awaits notice it, or the cancellation aiohttp answers it with,      *)
(* independently.  A step is the code between two awaits.                  *)
(***************************************************************************)
EXTENDS Naturals, Sequences, FiniteSets

CONSTANTS
    MaxChunks       \* bound: chunks of the request body

ASSUME BridgeAssumption == MaxChunks \in Nat

VARIABLES
    length,         \* chunks the client's body has
    present,        \* the client is connected
    pumped,         \* chunks read from the request so far
    pump,           \* the pump task
    body,           \* body_queue
    received,       \* what the application has taken from it
    disconnected,   \* response_state["disconnected"]
    response,       \* response_state["response"]: none, prepared, ended
    app,            \* the application: it runs, or how it ended
    outcome         \* what the handler returned to aiohttp

bridgeVars ==
    <<length, present, pumped, pump, body, received, disconnected, response, app, outcome>>

Message == {"chunk", "end", "disconnect"}

BridgeInit ==
    /\ length \in 0 .. MaxChunks
    /\ present = TRUE /\ pumped = 0 /\ pump = "running"
    /\ body = <<>> /\ received = <<>>
    /\ disconnected = FALSE /\ response = "none"
    /\ app = "running" /\ outcome = "none"

ClientLeaves ==
    /\ present /\ present' = FALSE
    /\ UNCHANGED <<length, pumped, pump, body, received, disconnected, response, app, outcome>>

(***************************************************************************)
(* pump_request_body.                                                      *)
(***************************************************************************)
PumpChunk ==
    /\ pump = "running" /\ present /\ pumped < length
    /\ pumped' = pumped + 1
    /\ body' = Append(body, "chunk")
    /\ UNCHANGED <<length, present, pump, received, disconnected, response, app, outcome>>

PumpEnds ==
    /\ pump = "running" /\ present /\ pumped = length
    /\ pump' = "done"
    /\ body' = Append(body, "end")
    /\ UNCHANGED <<length, present, pumped, received, disconnected, response, app, outcome>>

(* The connection is gone. *)
PumpLosesClient ==
    /\ pump = "running" /\ ~present
    /\ pump' = "done" /\ disconnected' = TRUE
    /\ body' = Append(body, "disconnect")
    /\ UNCHANGED <<length, present, pumped, received, response, app, outcome>>

(* Mutant: the body is closed whatever became of it. *)
PumpBreaksQuietly ==
    /\ pump = "running"
    /\ pump' = "done"
    /\ body' = Append(body, "end")
    /\ UNCHANGED <<length, present, pumped, received, disconnected, response, app, outcome>>

(* Any other failure to read the body tells the application alone. *)
PumpBreaks ==
    /\ pump = "running"
    /\ pump' = "done"
    /\ body' = Append(body, "disconnect")
    /\ UNCHANGED <<length, present, pumped, received, disconnected, response, app, outcome>>

(***************************************************************************)
(* The application: receive and send.                                      *)
(***************************************************************************)
AppReceives ==
    /\ app = "running" /\ body # <<>>
    /\ received' = Append(received, Head(body))
    /\ body' = Tail(body)
    /\ UNCHANGED <<length, present, pumped, pump, disconnected, response, app, outcome>>

(* A message that gets through; the application starts once, then writes. *)
Sends ==
    /\ app = "running" /\ ~disconnected
    /\ \/ response = "none" /\ response' = "prepared"
       \/ response = "prepared" /\ response' \in {"prepared", "ended"}
    /\ UNCHANGED <<length, present, pumped, pump, body, received, disconnected, app, outcome>>

(* Mutant: the break is noted and not passed on. *)
SendBreaksUntold ==
    /\ app = "running" /\ ~disconnected /\ response # "ended"
    /\ disconnected' = TRUE
    /\ UNCHANGED <<length, present, pumped, pump, body, received, response, app, outcome>>

(* The write fails or is cancelled: send returns as if it had worked, and     *)
(* leaves the news in the queue.  Every later send does nothing.              *)
SendBreaks ==
    /\ app = "running" /\ ~disconnected /\ response # "ended"
    /\ disconnected' = TRUE
    /\ body' = Append(body, "disconnect")
    /\ UNCHANGED <<length, present, pumped, pump, received, response, app, outcome>>

(* It returns, also without an answer; or a broken connection or cancellation *)
(* ends one of its own awaits; or it raises, as it does when it sends a body  *)
(* before the start.                                                          *)
AppReturns ==
    /\ app = "running" /\ app' = "returned"
    /\ UNCHANGED <<length, present, pumped, pump, body, received, disconnected, response, outcome>>

AppCancelled ==
    /\ app = "running" /\ app' = "cancelled"
    /\ disconnected' = TRUE
    /\ UNCHANGED <<length, present, pumped, pump, body, received, response, outcome>>

AppRaises ==
    /\ app = "running" /\ app' = "raised"
    /\ UNCHANGED <<length, present, pumped, pump, body, received, disconnected, response, outcome>>

(***************************************************************************)
(* The end of the handler.                                                 *)
(***************************************************************************)

(* The finally: the pump is cancelled and awaited.  A pump that runs takes it *)
(* for a disconnect; one the loop has not started yet is only dropped.        *)
CancelPump ==
    /\ app # "running" /\ pump = "running" /\ outcome = "none"
    /\ pump' = "done"
    /\ \/ disconnected' = TRUE /\ body' = Append(body, "disconnect")
       \/ pumped = 0 /\ UNCHANGED <<disconnected, body>>
    /\ UNCHANGED <<length, present, pumped, received, response, app, outcome>>

(* What the bridge makes up itself (500, 204) never goes out on a connection  *)
(* on which the application has begun to answer.                              *)
HandlerEnds ==
    /\ app # "running" /\ pump = "done" /\ outcome = "none"
    /\ outcome' = CASE app = "raised" /\ response = "none" -> "error500"
                    [] app = "raised" /\ response # "none" -> "raised"
                    [] app # "raised" /\ response = "none" -> "empty204"
                    [] app # "raised" /\ response # "none" -> "response"
    /\ UNCHANGED <<length, present, pumped, pump, body, received, disconnected, response, app>>

BridgeNext ==
    \/ ClientLeaves
    \/ PumpChunk \/ PumpEnds \/ PumpLosesClient \/ PumpBreaks
    \/ AppReceives \/ Sends \/ SendBreaks
    \/ AppReturns \/ AppCancelled \/ AppRaises
    \/ CancelPump \/ HandlerEnds

BridgeSpec == BridgeInit /\ [][BridgeNext]_bridgeVars

(* The application has been told that the client is gone. *)
Told == \E i \in DOMAIN received : received[i] = "disconnect"

WindDown == Told /\ AppReturns

(***************************************************************************)
(* Properties.                                                             *)
(***************************************************************************)
BridgeTypeOK ==
    /\ length \in 0 .. MaxChunks /\ pumped \in 0 .. length
    /\ present \in BOOLEAN
    /\ pump \in {"running", "done"}
    /\ body \in Seq(Message) /\ received \in Seq(Message)
    /\ disconnected \in BOOLEAN
    /\ response \in {"none", "prepared", "ended"}
    /\ app \in {"running", "returned", "cancelled", "raised"}
    /\ outcome \in {"none", "error500", "raised", "empty204", "response"}

(* What the application has got and will get. *)
Stream == received \o body

Positions(kind) == {i \in DOMAIN Stream : Stream[i] = kind}

(* An upload that was cut off is never taken for a whole one: news of a       *)
(* disconnect aside, the application gets a beginning of the body, and its    *)
(* end once, after all of it.                                                 *)
BodyWholeOrCut ==
    /\ Cardinality(Positions("chunk")) <= length
    /\ \A e \in Positions("end") :
          /\ Cardinality({c \in Positions("chunk") : c < e}) = length
          /\ Positions("end") = {e}

(* Sends that do nothing are never the last word: an application whose sends  *)
(* have been switched off has, or will find in its queue, the reason.         *)
SilenceExplained == disconnected /\ app = "running" => Positions("disconnect") # {}

(* Once pump or send has noticed that the client is gone the handler ends: no *)
(* application and no pump is left running for it.                            *)
NoAbandonedHandler == disconnected ~> outcome # "none"
===============================================================================
