----------------------------- MODULE AnswersProofs -----------------------------
(***************************************************************************)
(* How an answer gets out: the bridge for a body of any length, and the    *)
(* pages of the catalog for every registry, policy and order of names.  At *)
(* the end every part together, whichever of them is at work.              *)
(***************************************************************************)
EXTENDS MCAnswers, ClassificationProofs, BudgetProofs, FunctionTheorems

(***************************************************************************)
(* Bridge: SilenceExplained is inductive once the news of a disconnect is  *)
(* looked for in what was received and in the queue separately: receiving  *)
(* moves it from one to the other.                                         *)
(***************************************************************************)
Has(s, x) == \E i \in DOMAIN s : s[i] = x

(* The news is on its way in the queue. *)
Waiting == Has(body, "disconnect")

Explained == disconnected /\ app = "running" => Told \/ Waiting

BridgeInv == BridgeTypeOK /\ Explained

(***************************************************************************)
(* Sequences of messages.                                                  *)
(***************************************************************************)
LEMMA AppendFinds ==
  ASSUME NEW s \in Seq(Message), NEW m \in Message
  PROVE  /\ Append(s, m) \in Seq(Message)
         /\ \A x \in Message : Has(Append(s, m), x) <=> x = m \/ Has(s, x)
<1>1. Append(s, m) \in Seq(Message) /\ Len(Append(s, m)) = Len(s) + 1 /\ Len(s) \in Nat
  OBVIOUS
<1>2. /\ DOMAIN s = 1 .. Len(s) /\ DOMAIN Append(s, m) = 1 .. Len(s) + 1
      /\ Append(s, m)[Len(s) + 1] = m
      /\ \A i \in 1 .. Len(s) : Append(s, m)[i] = s[i]
  OBVIOUS
<1>3. \A i \in 1 .. Len(s) + 1 : i \in 1 .. Len(s) \/ i = Len(s) + 1
  BY <1>1
<1>4. 1 .. Len(s) \subseteq 1 .. Len(s) + 1 /\ Len(s) + 1 \in 1 .. Len(s) + 1
  BY <1>1
<1> DEFINE a == Append(s, m)
           n == Len(s)
<1> HIDE DEF a, n
<1>5. \A x \in Message : Has(a, x) <=> x = m \/ Has(s, x)
  BY <1>2, <1>3, <1>4 DEF a, n, Has
<1> QED
  BY <1>1, <1>5 DEF a

LEMMA TailFinds ==
  ASSUME NEW s \in Seq(Message), s # <<>>, NEW x \in Message, Has(s, x)
  PROVE  Head(s) = x \/ Has(Tail(s), x)
<1>1. PICK i \in DOMAIN s : s[i] = x
  BY DEF Has
<1>2. /\ DOMAIN s = 1 .. Len(s) /\ Len(s) \in Nat /\ Head(s) = s[1]
      /\ DOMAIN Tail(s) = 1 .. Len(s) - 1
      /\ \A j \in 1 .. Len(s) - 1 : Tail(s)[j] = s[j + 1]
  OBVIOUS
<1>3. CASE i = 1
  BY <1>1, <1>2, <1>3
<1>4. CASE i # 1
  <2>1. i - 1 \in 1 .. Len(s) - 1 /\ (i - 1) + 1 = i
    BY <1>1, <1>2, <1>4
  <2> QED
    BY <1>1, <1>2, <2>1 DEF Has
<1> QED
  BY <1>3, <1>4

(***************************************************************************)
(* Types.                                                                  *)
(***************************************************************************)
LEMMA BridgeInitInv == BridgeInit => BridgeInv
<1> SUFFICES ASSUME BridgeInit PROVE BridgeInv
  OBVIOUS
<1>1. body \in Seq(Message) /\ received \in Seq(Message)
  BY DEF BridgeInit
<1>2. length \in 0 .. MaxChunks /\ pumped \in 0 .. length
  BY BridgeAssumption DEF BridgeInit, BridgeAssumption
<1> QED
  BY <1>1, <1>2 DEF BridgeInit, BridgeInv, BridgeTypeOK, Explained

LEMMA BridgeTypes == BridgeTypeOK /\ [BridgeNext]_bridgeVars => BridgeTypeOK'
<1> SUFFICES ASSUME BridgeTypeOK, [BridgeNext]_bridgeVars PROVE BridgeTypeOK'
  OBVIOUS
<1>1. body \in Seq(Message) /\ received \in Seq(Message)
  BY DEF BridgeTypeOK
<1>2. /\ Append(body, "chunk") \in Seq(Message)
      /\ Append(body, "end") \in Seq(Message)
      /\ Append(body, "disconnect") \in Seq(Message)
  BY <1>1, AppendFinds DEF Message
<1>3. ASSUME body # <<>>
      PROVE  Append(received, Head(body)) \in Seq(Message) /\ Tail(body) \in Seq(Message)
  <2>1. Head(body) \in Message /\ Tail(body) \in Seq(Message)
    BY <1>1, <1>3
  <2> QED
    BY <1>1, <2>1, AppendFinds
<1>4. body' \in Seq(Message) /\ received' \in Seq(Message)
  <2>1. CASE AppReceives
    BY <1>3, <2>1 DEF AppReceives
  <2>2. CASE UNCHANGED received /\ (UNCHANGED body \/ body' = Append(body, "chunk")
             \/ body' = Append(body, "end") \/ body' = Append(body, "disconnect"))
    BY <1>1, <1>2, <2>2
  <2> QED
    BY <2>1, <2>2 DEF BridgeNext, ClientLeaves, PumpChunk, PumpEnds, PumpLosesClient,
       PumpBreaks, Sends, SendBreaks, AppReturns, AppCancelled, AppRaises, CancelPump,
       HandlerEnds, bridgeVars
<1>5. length' \in 0 .. MaxChunks /\ pumped' \in 0 .. length'
  <2>1. length \in 0 .. MaxChunks /\ pumped \in 0 .. length /\ MaxChunks \in Nat
    BY BridgeAssumption DEF BridgeTypeOK, BridgeAssumption
  <2>2. CASE PumpChunk
    BY <2>1, <2>2 DEF PumpChunk
  <2>3. CASE UNCHANGED <<length, pumped>>
    BY <2>1, <2>3
  <2> QED
    BY <2>2, <2>3 DEF BridgeNext, ClientLeaves, PumpEnds, PumpLosesClient, PumpBreaks,
       AppReceives, Sends, SendBreaks, AppReturns, AppCancelled, AppRaises, CancelPump,
       HandlerEnds, bridgeVars
<1>6. /\ present' \in BOOLEAN /\ pump' \in {"running", "done"} /\ disconnected' \in BOOLEAN
      /\ response' \in {"none", "prepared", "ended"}
      /\ app' \in {"running", "returned", "cancelled", "raised"}
  BY DEF BridgeTypeOK, BridgeNext, ClientLeaves, PumpChunk, PumpEnds, PumpLosesClient,
     PumpBreaks, AppReceives, Sends, SendBreaks, AppReturns, AppCancelled, AppRaises,
     CancelPump, HandlerEnds, bridgeVars
<1>7. outcome' \in {"none", "error500", "raised", "empty204", "response"}
  <2>1. CASE HandlerEnds
    BY <2>1 DEF HandlerEnds
  <2>2. CASE UNCHANGED outcome
    BY <2>2 DEF BridgeTypeOK
  <2> QED
    BY <2>1, <2>2 DEF BridgeNext, ClientLeaves, PumpChunk, PumpEnds, PumpLosesClient,
       PumpBreaks, AppReceives, Sends, SendBreaks, AppReturns, AppCancelled, AppRaises,
       CancelPump, bridgeVars
<1> QED
  BY <1>4, <1>5, <1>6, <1>7 DEF BridgeTypeOK

(***************************************************************************)
(* The news of a disconnect is never lost.                                 *)
(***************************************************************************)
LEMMA ExplainedStep == BridgeInv /\ [BridgeNext]_bridgeVars => Explained'
<1> SUFFICES ASSUME BridgeInv, [BridgeNext]_bridgeVars PROVE Explained'
  OBVIOUS
<1>1. body \in Seq(Message) /\ received \in Seq(Message) /\ Explained
  BY DEF BridgeInv, BridgeTypeOK
<1>2. "disconnect" \in Message /\ "chunk" \in Message /\ "end" \in Message
  BY DEF Message
<1>3. ASSUME NEW m \in Message, body' = Append(body, m)
      PROVE  (Waiting => Waiting') /\ (m = "disconnect" => Waiting')
  <2>1. Has(Append(body, m), "disconnect") <=> "disconnect" = m \/ Has(body, "disconnect")
    BY <1>1, <1>2, AppendFinds
  <2> QED
    BY <1>3, <2>1 DEF Waiting
<1>4. CASE AppReceives
  <2>1. /\ body # <<>> /\ received' = Append(received, Head(body)) /\ body' = Tail(body)
        /\ UNCHANGED <<disconnected, app>>
    BY <1>4 DEF AppReceives
  <2>2. Head(body) \in Message
    BY <1>1, <2>1
  <2>3. Has(Append(received, Head(body)), "disconnect")
        <=> "disconnect" = Head(body) \/ Has(received, "disconnect")
    BY <1>1, <1>2, <2>2, AppendFinds
  <2>4. Told' <=> (Head(body) = "disconnect" \/ Told)
    BY <2>1, <2>3 DEF Told, Has
  <2>5. Waiting => Head(body) = "disconnect" \/ Waiting'
    BY <1>1, <1>2, <2>1, TailFinds DEF Waiting
  <2> QED
    BY <1>1, <2>1, <2>4, <2>5 DEF Explained
<1>5. CASE PumpChunk \/ PumpEnds
  <2>1. UNCHANGED <<received, disconnected, app>> /\ (Waiting => Waiting')
    BY <1>2, <1>3, <1>5 DEF PumpChunk, PumpEnds
  <2> QED
    BY <1>1, <2>1 DEF Explained, Told
<1>6. CASE PumpLosesClient \/ PumpBreaks \/ SendBreaks
  <2>1. Waiting'
    BY <1>2, <1>3, <1>6 DEF PumpLosesClient, PumpBreaks, SendBreaks
  <2> QED
    BY <2>1 DEF Explained
<1>7. CASE AppReturns \/ AppCancelled \/ AppRaises \/ CancelPump
  BY <1>7 DEF AppReturns, AppCancelled, AppRaises, CancelPump, Explained
<1>8. CASE UNCHANGED <<body, received, disconnected, app>>
  BY <1>1, <1>8 DEF Explained, Told, Waiting, Has
<1> QED
  BY <1>4, <1>5, <1>6, <1>7, <1>8
  DEF BridgeNext, ClientLeaves, Sends, HandlerEnds, bridgeVars

LEMMA BridgeStep == BridgeInv /\ [BridgeNext]_bridgeVars => BridgeInv'
BY BridgeTypes, ExplainedStep DEF BridgeInv

(* What is received and what waits make one stream. *)
LEMMA StreamExplains == BridgeInv => SilenceExplained
<1> SUFFICES ASSUME BridgeInv, disconnected, app = "running"
             PROVE  \E i \in DOMAIN Stream : Stream[i] = "disconnect"
  BY DEF SilenceExplained, Positions
<1>1. body \in Seq(Message) /\ received \in Seq(Message) /\ (Told \/ Waiting)
  BY DEF BridgeInv, BridgeTypeOK, Explained
<1>2. /\ Len(received) \in Nat /\ Len(body) \in Nat
      /\ DOMAIN received = 1 .. Len(received) /\ DOMAIN body = 1 .. Len(body)
      /\ DOMAIN Stream = 1 .. Len(received) + Len(body)
      /\ \A i \in 1 .. Len(received) : Stream[i] = received[i]
  BY <1>1 DEF Stream
<1>3. \A i \in 1 .. Len(body) : Stream[Len(received) + i] = body[i]
  BY <1>1 DEF Stream
<1>4. CASE Told
  <2>1. PICK i \in 1 .. Len(received) : received[i] = "disconnect"
    BY <1>2, <1>4 DEF Told
  <2>2. i \in 1 .. Len(received) + Len(body)
    BY <1>2
  <2> QED
    BY <1>2, <2>1, <2>2
<1>5. CASE Waiting
  <2>1. PICK i \in 1 .. Len(body) : body[i] = "disconnect"
    BY <1>2, <1>5 DEF Waiting, Has
  <2>2. Len(received) + i \in 1 .. Len(received) + Len(body)
    BY <1>2
  <2> QED
    BY <1>2, <1>3, <2>1, <2>2
<1> QED
  BY <1>1, <1>4, <1>5

(***************************************************************************)
(* The body: the pump has put as many chunks into the stream as it has     *)
(* read, and the end only after the last of them.                          *)
(***************************************************************************)
Pumped ==
    /\ IsFiniteSet(Positions("chunk")) /\ Cardinality(Positions("chunk")) = pumped
    /\ pump = "running" => Positions("end") = {}
    /\ \A e \in Positions("end") :
          /\ pumped = length /\ Positions("end") = {e}
          /\ \A c \in Positions("chunk") : c < e

(* Receiving moves a message within the stream; whatever is put into the      *)
(* queue ends it.                                                             *)
LEMMA ReceivedStream ==
  ASSUME BridgeTypeOK, AppReceives
  PROVE  Stream' = Stream
<1>1. /\ body \in Seq(Message) /\ received \in Seq(Message) /\ body # <<>>
      /\ received' = Append(received, Head(body)) /\ body' = Tail(body)
  BY DEF BridgeTypeOK, AppReceives
<1>2. Head(body) \in Message /\ Tail(body) \in Seq(Message) /\ <<Head(body)>> \in Seq(Message)
  BY <1>1, HeadTailProperties
<1>3. body = <<Head(body)>> \o Tail(body)
  BY <1>1
<1>4. received' = received \o <<Head(body)>>
  BY <1>1, <1>2, AppendIsConcat
<1>5. (received \o <<Head(body)>>) \o Tail(body) = received \o (<<Head(body)>> \o Tail(body))
  BY <1>1, <1>2, ConcatAssociative
<1> QED
  BY <1>1, <1>3, <1>4, <1>5 DEF Stream

LEMMA LongerStream ==
  ASSUME BridgeTypeOK, NEW m \in Message, body' = Append(body, m), received' = received
  PROVE  \A x : Positions(x)' = Positions(x) \cup (IF m = x THEN {Len(Stream) + 1} ELSE {})
<1>1. body \in Seq(Message) /\ received \in Seq(Message) /\ <<m>> \in Seq(Message)
  BY DEF BridgeTypeOK
<1>2. body' = body \o <<m>>
  BY <1>1, AppendIsConcat
<1>3. (received \o body) \o <<m>> = received \o (body \o <<m>>)
  BY <1>1, ConcatAssociative
<1>4. Stream \in Seq(Message) /\ Stream' = Stream \o <<m>>
  BY <1>1, <1>2, <1>3 DEF Stream
<1>5. /\ Len(Stream) \in Nat
      /\ DOMAIN Stream = 1 .. Len(Stream) /\ DOMAIN Stream' = 1 .. Len(Stream) + 1
      /\ \A i \in 1 .. Len(Stream) : Stream'[i] = Stream[i]
      /\ Stream'[Len(Stream) + 1] = m
  BY <1>4
<1> QED
  BY <1>5 DEF Positions

LEMMA PumpedStep == BridgeTypeOK /\ Pumped /\ [BridgeNext]_bridgeVars => Pumped'
<1> SUFFICES ASSUME BridgeTypeOK, Pumped, [BridgeNext]_bridgeVars PROVE Pumped'
  OBVIOUS
<1>1. CASE UNCHANGED <<length, pumped, pump>> /\ UNCHANGED Stream
  BY <1>1 DEF Pumped, Positions
<1>2. \A i \in Positions("chunk") \cup Positions("end") : i < Len(Stream) + 1
  <2>1. Stream \in Seq(Message)
    BY DEF BridgeTypeOK, Stream
  <2> QED
    BY <2>1 DEF Positions
<1>3. CASE PumpChunk
  <2>1. /\ pump = "running" /\ pumped' = pumped + 1 /\ UNCHANGED <<length, pump>>
        /\ Positions("chunk")' = Positions("chunk") \cup {Len(Stream) + 1}
        /\ Positions("end")' = Positions("end")
    BY <1>3, LongerStream DEF PumpChunk, Message
  <2>2. Len(Stream) + 1 \notin Positions("chunk")
    BY <1>2
  <2>3. /\ IsFiniteSet(Positions("chunk")')
        /\ Cardinality(Positions("chunk")') = Cardinality(Positions("chunk")) + 1
    BY <2>1, <2>2, FS_AddElement DEF Pumped
  <2> QED
    BY <2>1, <2>3 DEF Pumped
<1>4. CASE PumpEnds
  <2>1. /\ pump = "running" /\ pumped = length /\ pump' = "done" /\ UNCHANGED <<length, pumped>>
        /\ Positions("chunk")' = Positions("chunk")
        /\ Positions("end")' = Positions("end") \cup {Len(Stream) + 1}
    BY <1>4, LongerStream DEF PumpEnds, Message
  <2>2. Positions("end")' = {Len(Stream) + 1}
    BY <2>1 DEF Pumped
  <2> QED
    BY <1>2, <2>1, <2>2 DEF Pumped
<1>5. CASE PumpLosesClient \/ PumpBreaks \/ SendBreaks \/ CancelPump
  <2>1. /\ UNCHANGED <<length, pumped>> /\ pump' \in {pump, "done"}
        /\ \/ UNCHANGED Stream
           \/ body' = Append(body, "disconnect") /\ received' = received
    BY <1>5 DEF PumpLosesClient, PumpBreaks, SendBreaks, CancelPump, Stream
  <2>2. Positions("chunk")' = Positions("chunk") /\ Positions("end")' = Positions("end")
    <3>1. CASE UNCHANGED Stream
      BY <3>1 DEF Positions
    <3>2. CASE body' = Append(body, "disconnect") /\ received' = received
      BY <3>2, LongerStream DEF Message
    <3> QED
      BY <2>1, <3>1, <3>2
  <2> QED
    BY <2>1, <2>2 DEF Pumped
<1>6. CASE AppReceives
  BY <1>1, <1>6, ReceivedStream DEF AppReceives
<1>7. CASE ClientLeaves \/ Sends \/ AppReturns \/ AppCancelled \/ AppRaises \/ HandlerEnds
           \/ UNCHANGED bridgeVars
  BY <1>1, <1>7 DEF ClientLeaves, Sends, AppReturns, AppCancelled, AppRaises, HandlerEnds,
     bridgeVars, Stream
<1> QED
  BY <1>3, <1>4, <1>5, <1>6, <1>7 DEF BridgeNext

LEMMA PumpedInit == BridgeInit => Pumped
<1> SUFFICES ASSUME BridgeInit PROVE Pumped
  OBVIOUS
<1>1. \A m : Positions(m) = {}
  BY DEF BridgeInit, Positions, Stream
<1> QED
  BY <1>1, FS_EmptySet DEF Pumped, BridgeInit

(***************************************************************************)
(* Theorems.                                                               *)
(***************************************************************************)

(* The variables of the bridge keep their types, for a body of any length.   *)
THEOREM BridgeTypeCorrect == BridgeSpec => []BridgeTypeOK
<1>1. BridgeInv => BridgeTypeOK
  BY DEF BridgeInv
<1> QED
  BY BridgeInitInv, BridgeStep, <1>1, PTL DEF BridgeSpec

(* An application whose sends do nothing has been told why, or will be by    *)
(* the next receive (`send` of http_bridge.py, and pump_request_body).       *)
THEOREM SilenceExplainedHolds == BridgeSpec => []SilenceExplained
BY BridgeInitInv, BridgeStep, StreamExplains, PTL DEF BridgeSpec

(* The application never takes part of an upload for all of it, wherever     *)
(* pump, send and the client leave off (pump_request_body).                  *)
THEOREM BodyWholeOrCutHolds == BridgeSpec => []BodyWholeOrCut
<1>1. BridgeTypeOK /\ Pumped => BodyWholeOrCut
  <2> SUFFICES ASSUME BridgeTypeOK, Pumped PROVE BodyWholeOrCut
    OBVIOUS
  <2>1. pumped <= length
    BY BridgeAssumption DEF BridgeTypeOK
  <2>2. \A e \in Positions("end") : {c \in Positions("chunk") : c < e} = Positions("chunk")
    BY DEF Pumped
  <2> QED
    BY <2>1, <2>2 DEF Pumped, BodyWholeOrCut
<1> QED
  BY BridgeTypeCorrect, PumpedInit, PumpedStep, <1>1, PTL DEF BridgeSpec

(***************************************************************************)
(* Discovery: every finite set of items has its list in a strict order, so *)
(* the pages are slices of lists.                                          *)
(***************************************************************************)
Orders(order, view) ==
    \A x, y \in view :
        /\ <<x, y>> \in order => <<y, x>> \notin order
        /\ x # y => <<x, y>> \in order \/ <<y, x>> \in order
        /\ \A z \in view : <<x, y>> \in order /\ <<y, z>> \in order => <<x, z>> \in order

(* The place of an item is the number of items up to it. *)
LEMMA Places ==
    ASSUME NEW view, IsFiniteSet(view), NEW order, Orders(order, view),
           NEW place, place = [x \in view |->
                                 Cardinality({y \in view : y = x \/ <<y, x>> \in order})]
    PROVE  /\ place \in [view -> 1 .. Cardinality(view)]
           /\ \A x, y \in view : <<x, y>> \in order => place[x] < place[y]
<1> DEFINE upto(x) == {y \in view : y = x \/ <<y, x>> \in order}
<1>1. \A x \in view : /\ IsFiniteSet(upto(x)) /\ Cardinality(upto(x)) \in Nat
                      /\ Cardinality(upto(x)) <= Cardinality(view)
  BY FS_Subset, FS_CardinalityType
<1>2. Cardinality(view) \in Nat
  BY FS_CardinalityType
<1>3. ASSUME NEW x \in view PROVE Cardinality(upto(x)) # 0
  <2>1. x \in upto(x)
    OBVIOUS
  <2> HIDE DEF upto
  <2> QED
    BY <1>1, <2>1, FS_EmptySet
<1>4. ASSUME NEW x \in view, NEW y \in view, <<x, y>> \in order
      PROVE  Cardinality(upto(x)) < Cardinality(upto(y))
  <2>1. upto(x) \subseteq upto(y)
    BY <1>4 DEF Orders
  <2>2. y \in upto(y) /\ y \notin upto(x)
    BY <1>4 DEF Orders
  <2> HIDE DEF upto
  <2>3. Cardinality(upto(x)) <= Cardinality(upto(y)) /\ Cardinality(upto(x)) # Cardinality(upto(y))
    BY <1>1, <2>1, <2>2, FS_Subset
  <2> QED
    BY <1>1, <2>3
<1>5. \A x \in view : place[x] = Cardinality(upto(x))
  OBVIOUS
<1>6. place \in [view -> 1 .. Cardinality(view)]
  <2>1. DOMAIN place = view /\ place = [x \in view |-> place[x]]
    OBVIOUS
  <2> HIDE DEF upto
  <2>2. \A x \in view : place[x] \in 1 .. Cardinality(view)
    BY <1>1, <1>2, <1>3, <1>5
  <2> QED
    BY <2>1, <2>2
<1> HIDE DEF upto
<1> QED
  BY <1>4, <1>5, <1>6

LEMMA SortedIs ==
    ASSUME NEW view, IsFiniteSet(view), NEW order, Orders(order, view)
    PROVE  Sorted(view, order) \in [1 .. Cardinality(view) -> view]
<1> DEFINE n == Cardinality(view)
           place == [x \in view |-> Cardinality({y \in view : y = x \/ <<y, x>> \in order})]
<1>1. /\ place \in [view -> 1 .. n]
      /\ \A x, y \in view : <<x, y>> \in order => place[x] < place[y]
  BY Places
<1> HIDE DEF place
<1>2. n \in Nat
  BY FS_CardinalityType
<1>3. \A x \in view : place[x] \in Nat
  BY <1>1, <1>2
<1>4. ASSUME NEW x \in view, NEW y \in view, place[x] = place[y]
      PROVE  x = y
  <2>1. x # y => <<x, y>> \in order \/ <<y, x>> \in order
    BY DEF Orders
  <2>2. /\ <<x, y>> \in order => place[x] < place[y]
        /\ <<y, x>> \in order => place[y] < place[x]
    BY <1>1
  <2>3. place[x] \in Nat /\ place[y] \in Nat
    BY <1>3
  <2> QED
    BY <1>4, <2>1, <2>2, <2>3
<1>5. place \in Injection(view, 1 .. n)
  BY <1>1, <1>4, Fun_IsInj
<1>6. IsFiniteSet(1 .. n) /\ Cardinality(1 .. n) = n
  BY <1>2, FS_Interval
<1>7. place \in Surjection(view, 1 .. n)
  BY <1>5, <1>6, FS_Injection
<1>8. \A i \in 1 .. n : \E x \in view : place[x] = i
  BY <1>7 DEF Surjection
<1> DEFINE list == [i \in 1 .. n |-> CHOOSE x \in view : place[x] = i]
<1>9. /\ list \in [1 .. n -> view]
      /\ \A i \in 1 .. n : list[i] \in view /\ place[list[i]] = i
  BY <1>8
<1> HIDE DEF list, n
<1>10. ASSUME NEW i \in 1 .. n, NEW j \in 1 .. n, i < j
       PROVE  <<list[i], list[j]>> \in order
  <2>1. list[i] \in view /\ list[j] \in view /\ place[list[i]] = i /\ place[list[j]] = j
    BY <1>9
  <2>2. list[i] # list[j]
    BY <1>2, <1>10, <2>1
  <2>3. <<list[j], list[i]>> \in order => j < i
    BY <1>1, <2>1
  <2>4. ~(j < i)
    BY <1>2, <1>10
  <2> QED
    BY <2>1, <2>2, <2>3, <2>4 DEF Orders
<1>11. DOMAIN list = 1 .. n
  BY <1>9
<1>12. \E l \in [1 .. n -> view] : \A i, j \in DOMAIN l : i < j => <<l[i], l[j]>> \in order
  BY <1>9, <1>10, <1>11
<1> QED
  BY <1>12 DEF Sorted, n

(* What a caller may see: every command once. *)
View(view) ==
    /\ view \subseteq [name : Command \ HardDenied, mode : {"allow", "confirm"}]
    /\ \A x, y \in view : x.name = y.name => x = y

LEMMA ViewFinite ==
    ASSUME NEW view, View(view)
    PROVE  IsFiniteSet(view)
<1> DEFINE name == [x \in view |-> x.name]
<1>1. name \in [view -> Command] /\ \A x, y \in view : name[x] = name[y] => x = y
  BY DEF View
<1>2. name \in Injection(view, Command)
  BY <1>1, Fun_IsInj
<1> QED
  BY <1>2, FS_Injection, DiscoveryAssumption

LEMMA AlphabeticalOrders ==
    ASSUME NEW view, View(view)
    PROVE  Orders(Alphabetical(view), view)
<1>1. \A x, y \in view : <<x, y>> \in Alphabetical(view) <=> <<x.name, y.name>> \in Before
  BY DEF Alphabetical
<1> SUFFICES ASSUME NEW x \in view, NEW y \in view, NEW z \in view
             PROVE  LET order == Alphabetical(view)
                    IN  /\ <<x, y>> \in order => <<y, x>> \notin order
                        /\ x # y => <<x, y>> \in order \/ <<y, x>> \in order
                        /\ <<x, y>> \in order /\ <<y, z>> \in order => <<x, z>> \in order
  BY DEF Orders
<1>2. /\ x.name \in Command \ HardDenied /\ y.name \in Command \ HardDenied
      /\ z.name \in Command \ HardDenied
      /\ x # y => x.name # y.name
  BY DEF View
<1>3. /\ <<x.name, y.name>> \in Before => <<y.name, x.name>> \notin Before
      /\ x.name # y.name => <<x.name, y.name>> \in Before \/ <<y.name, x.name>> \in Before
      /\ <<x.name, y.name>> \in Before /\ <<y.name, z.name>> \in Before
            => <<x.name, z.name>> \in Before
  BY <1>2, DiscoveryAssumption
<1> QED
  BY <1>1, <1>2, <1>3

LEMMA ListingIs ==
    ASSUME NEW query, NEW snap \in Fingerprints, NEW view, View(view)
    PROVE  Listing(query, snap, view) \in Seq(view)
<1> DEFINE score(x) == Relevance[snap][x.name]
           shown == {x \in view : snap[x.name] # 0 /\ score(x) > 0}
           higher == {p \in view \X view :
                         \/ score(p[1]) > score(p[2])
                         \/ score(p[1]) = score(p[2]) /\ p \in Alphabetical(view)}
<1>1. IsFiniteSet(view) /\ Cardinality(view) \in Nat
  BY ViewFinite, FS_CardinalityType
<1>2. Sorted(view, Alphabetical(view)) \in [1 .. Cardinality(view) -> view]
  BY <1>1, AlphabeticalOrders, SortedIs
<1>3. \A x \in view : score(x) \in Nat
  <2>1. Relevance[snap] \in [Command \ HardDenied -> Nat]
    BY DiscoveryAssumption
  <2> QED
    BY <2>1 DEF View
<1>4. \A x, y \in view : <<x, y>> \in higher <=>
          \/ score(x) > score(y)
          \/ score(x) = score(y) /\ <<x, y>> \in Alphabetical(view)
  OBVIOUS
<1>5. shown \subseteq view /\ IsFiniteSet(shown) /\ Cardinality(shown) \in Nat
  BY <1>1, FS_Subset, FS_CardinalityType
<1>6. Ranked(snap, view) = Sorted(shown, higher)
  BY DEF Ranked
<1> HIDE DEF score, shown, higher
<1>7. Orders(higher, shown)
  <2> USE DEF Orders
  <2> SUFFICES ASSUME NEW x \in view, NEW y \in view, NEW z \in view
               PROVE  /\ <<x, y>> \in higher => <<y, x>> \notin higher
                      /\ x # y => <<x, y>> \in higher \/ <<y, x>> \in higher
                      /\ <<x, y>> \in higher /\ <<y, z>> \in higher => <<x, z>> \in higher
    BY <1>5
  <2>1. score(x) \in Nat /\ score(y) \in Nat /\ score(z) \in Nat
    BY <1>3
  <2>2. LET order == Alphabetical(view)
        IN  /\ <<x, y>> \in order => <<y, x>> \notin order
            /\ x # y => <<x, y>> \in order \/ <<y, x>> \in order
            /\ <<x, y>> \in order /\ <<y, z>> \in order => <<x, z>> \in order
    BY AlphabeticalOrders
  <2>3. /\ <<x, y>> \in higher <=>
              score(x) > score(y) \/ (score(x) = score(y) /\ <<x, y>> \in Alphabetical(view))
        /\ <<y, x>> \in higher <=>
              score(y) > score(x) \/ (score(y) = score(x) /\ <<y, x>> \in Alphabetical(view))
        /\ <<y, z>> \in higher <=>
              score(y) > score(z) \/ (score(y) = score(z) /\ <<y, z>> \in Alphabetical(view))
        /\ <<x, z>> \in higher <=>
              score(x) > score(z) \/ (score(x) = score(z) /\ <<x, z>> \in Alphabetical(view))
    BY <1>4
  <2> QED
    BY <2>1, <2>2, <2>3
<1>8. Sorted(shown, higher) \in [1 .. Cardinality(shown) -> shown]
  BY <1>5, <1>7, SortedIs
<1>9. \A n \in Nat : \A l \in [1 .. n -> view] : l \in Seq(view)
  OBVIOUS
<1>10. Sorted(shown, higher) \in [1 .. Cardinality(shown) -> view]
  BY <1>5, <1>8
<1> QED
  BY <1>1, <1>2, <1>5, <1>6, <1>9, <1>10 DEF Listing

(***************************************************************************)
(* The walks.  A cursor stands for the list it was cut from: the revision  *)
(* holds all the list depends on, so that a request that passes the check  *)
(* cuts the next slice of the same list.                                   *)
(***************************************************************************)
Cursor == [offset : Nat, revision : SUBSET (Fingerprints \X SUBSET Entry)]

WalkState ==
    [at : {"ready", "asked", "done"}, query : {"search", "catalog"},
     snap : Fingerprints \cup {NoSnapshot}, cursor : Cursor,
     got : Seq(Entry), first : Seq(Entry), error : {"none", "changed", "outside"}]

(* A walk that has a cursor: what it was cut from, and how far it got. *)
Cut(s) ==
    \E snap \in Fingerprints, view \in SUBSET Entry :
        /\ View(view)
        /\ s.cursor.revision = {<<snap, view>>}
        /\ s.first = Listing(s.query, snap, view)
        /\ s.cursor.offset < Len(s.first)
        /\ s.got = SubSeq(s.first, 1, s.cursor.offset)

Joined(s) ==
    /\ s.error # "outside"
    /\ s.at = "asked" <=> s.snap \in Fingerprints
    /\ s.at = "done" => s.got = s.first
    /\ s.at # "done" /\ s.cursor = NoCursor => s.got = <<>> /\ s.first = <<>>
    /\ s.at # "done" /\ s.cursor # NoCursor => Cut(s)

WalksInv ==
    /\ registry \in Registries /\ mode \in Policies
    /\ walk \in [Walk -> WalkState]
    /\ \A w \in Walk : Joined(walk[w])

LEMMA VisibleIs ==
    ASSUME WalksInv, NEW snap \in Fingerprints, NEW known \in BOOLEAN
    PROVE  View(Visible(snap, known)) /\ Visible(snap, known) \in SUBSET Entry
<1>1. mode \in [Command -> Mode]
  BY DiscoveryAssumption DEF WalksInv
<1> QED
  BY <1>1 DEF Visible, View, Entry, Mode

LEMMA CaptureIs ==
    ASSUME WalksInv
    PROVE  Capture(registry) \in Fingerprints
BY DEF WalksInv, Fingerprints

LEMMA StartIs ==
    ASSUME NEW query \in {"search", "catalog"}, NEW error \in {"none", "changed"}
    PROVE  /\ [Start(query) EXCEPT !.error = error] \in WalkState
           /\ Start(query) \in WalkState
           /\ Joined([Start(query) EXCEPT !.error = error]) /\ Joined(Start(query))
<1>1. <<>> \in Seq(Entry) /\ NoCursor \in Cursor
  BY DEF NoCursor, Cursor
<1> QED
  BY <1>1, DiscoveryAssumption DEF Start, WalkState, Joined

(* A slice goes on where the one before it ended. *)
LEMMA Slices ==
    ASSUME NEW S, NEW list \in Seq(S), NEW offset \in Nat, offset <= Len(list)
    PROVE  LET slice == Slice(list, offset)
               next == offset + Len(slice)
           IN  /\ next \in Nat /\ next <= Len(list)
               /\ SubSeq(list, 1, offset) \o slice = SubSeq(list, 1, next)
<1> DEFINE last == IF offset + PageLimit < Len(list) THEN offset + PageLimit ELSE Len(list)
<1>1. last \in Nat /\ offset <= last /\ last <= Len(list) /\ Len(list) \in Nat
  BY DiscoveryAssumption
<1>2. Slice(list, offset) = SubSeq(list, offset + 1, last)
  BY DEF Slice
<1> HIDE DEF last
<1>3. Len(SubSeq(list, offset + 1, last)) = last - offset
  BY <1>1, SubSeqProperties
<1>4. SubSeq(list, 1, offset) \o SubSeq(list, offset + 1, last) = SubSeq(list, 1, last)
  BY <1>1, ConcatAdjacentSubSeq
<1> QED
  BY <1>1, <1>2, <1>3, <1>4

LEMMA WalksInit == DiscoveryInit => WalksInv
<1> SUFFICES ASSUME DiscoveryInit PROVE WalksInv
  OBVIOUS
<1>1. PICK query \in [Walk -> {"search", "catalog"}] : walk = [w \in Walk |-> Start(query[w])]
  BY DEF DiscoveryInit
<1>2. \A w \in Walk : Start(query[w]) \in WalkState /\ Joined(Start(query[w]))
  BY StartIs
<1> QED
  BY <1>1, <1>2 DEF WalksInv, DiscoveryInit

LEMMA RequestKeeps ==
    ASSUME WalksInv, NEW w \in Walk, RequestPage(w)
    PROVE  WalksInv'
<1> DEFINE s == walk[w]
           t == [s EXCEPT !.at = "asked", !.snap = Capture(registry)]
<1>1. Capture(registry) \in Fingerprints
  BY CaptureIs
<1>2. s \in WalkState /\ Joined(s) /\ s.at = "ready"
  BY DEF WalksInv, RequestPage
<1>3. t \in WalkState
  BY <1>1, <1>2 DEF WalkState
<1>4. /\ t.at = "asked" /\ t.snap \in Fingerprints /\ t.error = s.error /\ t.cursor = s.cursor
      /\ t.got = s.got /\ t.first = s.first /\ t.query = s.query
  BY <1>1, <1>2 DEF WalkState
<1>5. Joined(t)
  BY <1>2, <1>4 DEF Joined, Cut
<1>6. walk' = [walk EXCEPT ![w] = t] /\ UNCHANGED <<registry, mode>>
  BY DEF RequestPage
<1> HIDE DEF t
<1> QED
  BY <1>3, <1>5, <1>6 DEF WalksInv

LEMMA AnswerKeeps ==
    ASSUME WalksInv, NEW w \in Walk, NEW known \in BOOLEAN, AnswerPage(w, known)
    PROVE  WalksInv'
<1> DEFINE s == walk[w]
           view == Visible(s.snap, known)
           revision == Revision(s.snap, view)
           list == Listing(s.query, s.snap, view)
           offset == s.cursor.offset
           slice == Slice(list, offset)
           next == offset + Len(slice)
           stale == Stale(s.cursor, revision)
           outside == ~stale /\ offset > 0 /\ offset >= Len(list)
           t == [s EXCEPT !.at = IF next < Len(list) THEN "ready" ELSE "done",
                          !.snap = NoSnapshot, !.error = "none",
                          !.cursor = IF next < Len(list)
                                     THEN [offset |-> next, revision |-> revision]
                                     ELSE NoCursor,
                          !.got = @ \o slice,
                          !.first = IF offset = 0 THEN list ELSE @]
<1>1. s \in WalkState /\ Joined(s) /\ s.at = "asked" /\ s.snap \in Fingerprints
  BY DEF WalksInv, AnswerPage, Joined
<1>2. /\ s.query \in {"search", "catalog"} /\ s.cursor \in Cursor /\ offset \in Nat
      /\ s.got \in Seq(Entry) /\ s.first \in Seq(Entry)
  BY <1>1 DEF WalkState, Cursor
<1>3. View(view) /\ view \in SUBSET Entry
  BY <1>1, VisibleIs
<1>4. list \in Seq(view)
  BY <1>1, <1>3, ListingIs
<1>5. list \in Seq(Entry) /\ Len(list) \in Nat
  BY <1>3, <1>4
<1>6. revision = {<<s.snap, view>>} /\ revision \in SUBSET (Fingerprints \X SUBSET Entry)
  BY <1>1, <1>3 DEF Revision
<1>7. /\ UNCHANGED <<registry, mode>>
      /\ walk' = [walk EXCEPT ![w] =
            IF stale THEN [Start(s.query) EXCEPT !.error = "changed"]
            ELSE IF outside THEN [Start(s.query) EXCEPT !.error = "outside"]
            ELSE t]
  BY DEF AnswerPage
<1> HIDE DEF view, revision, list, stale, outside, slice, t
(* A cursor that passes was cut from this very list, at this very place. *)
<1>8. ASSUME ~stale
      PROVE  /\ offset <= Len(list) /\ s.got = SubSeq(list, 1, offset)
             /\ offset # 0 => s.first = list
             /\ offset > 0 => offset < Len(list)
  <2>1. CASE s.cursor = NoCursor
    <3>1. offset = 0 /\ s.got = <<>>
      BY <1>1, <2>1 DEF Joined, NoCursor
    <3>2. SubSeq(list, 1, 0) = <<>>
      BY SubSeqEmpty
    <3> QED
      BY <1>5, <3>1, <3>2
  <2>2. CASE s.cursor # NoCursor
    <3>1. Cut(s)
      BY <1>1, <2>2 DEF Joined
    <3>2. s.cursor.revision = revision
      BY <1>8, <2>2 DEF stale, Stale
    <3>3. PICK snap \in Fingerprints, kept \in SUBSET Entry :
              /\ s.cursor.revision = {<<snap, kept>>}
              /\ s.first = Listing(s.query, snap, kept)
              /\ offset < Len(s.first) /\ s.got = SubSeq(s.first, 1, offset)
      BY <3>1 DEF Cut
    <3>4. snap = s.snap /\ kept = view
      BY <1>6, <3>2, <3>3
    <3>5. s.first = list /\ offset < Len(list) /\ s.got = SubSeq(list, 1, offset)
      BY <3>3, <3>4 DEF list
    <3> QED
      BY <1>2, <1>5, <3>5
  <2> QED
    BY <2>1, <2>2
<1>9. ~outside
  BY <1>2, <1>5, <1>8 DEF outside
<1>10. ASSUME ~stale PROVE t \in WalkState /\ Joined(t)
  <2>1. /\ next \in Nat /\ next <= Len(list) /\ s.got \o slice = SubSeq(list, 1, next)
    BY <1>2, <1>5, <1>8, <1>10, Slices DEF slice
  <2> DEFINE onward == IF next < Len(list)
                       THEN [offset |-> next, revision |-> revision] ELSE NoCursor
  <2>2. /\ t.at = (IF next < Len(list) THEN "ready" ELSE "done")
        /\ t.snap = NoSnapshot /\ t.error = "none" /\ t.query = s.query
        /\ t.cursor = onward /\ t.got = SubSeq(list, 1, next) /\ t.first = list
    BY <1>1, <1>8, <1>10, <2>1 DEF t, WalkState
  <2>3. SubSeq(list, 1, next) \in Seq(Entry)
    BY <1>5, <2>1
  <2>4. onward \in Cursor
    BY <1>6, <2>1 DEF Cursor, NoCursor
  <2>5. /\ s.got \o slice \in Seq(Entry)
        /\ (IF offset = 0 THEN list ELSE s.first) \in Seq(Entry)
        /\ (IF next < Len(list) THEN "ready" ELSE "done") \in {"ready", "asked", "done"}
    BY <1>2, <1>5, <2>1, <2>3
  <2>6. t \in WalkState
    <3> HIDE DEF onward, next
    <3>1. t = [s EXCEPT !.at = IF next < Len(list) THEN "ready" ELSE "done",
                        !.snap = NoSnapshot, !.error = "none", !.cursor = onward,
                        !.got = s.got \o slice,
                        !.first = IF offset = 0 THEN list ELSE s.first]
      BY DEF t, onward, next
    <3> HIDE DEF s, offset
    <3> QED
      BY <1>1, <2>4, <2>5, <3>1 DEF WalkState
  <2>7. CASE next < Len(list)
    <3>1. Cut(t)
      <4>1. t.cursor.revision = {<<s.snap, view>>} /\ t.cursor.offset = next
        BY <1>6, <2>2, <2>7
      <4> QED
        BY <1>1, <1>3, <2>2, <2>7, <4>1 DEF Cut, list
    <3>2. t.cursor # NoCursor
      BY <1>6, <2>2, <2>7 DEF NoCursor
    <3> QED
      BY <2>2, <2>6, <2>7, <3>1, <3>2, DiscoveryAssumption DEF Joined
  <2>8. CASE ~(next < Len(list))
    <3>1. t.got = list
      BY <1>5, <2>1, <2>2, <2>8, SubSeqFull
    <3> QED
      BY <2>2, <2>6, <2>8, <3>1, DiscoveryAssumption DEF Joined
  <2> QED
    BY <2>6, <2>7, <2>8
<1> DEFINE u == IF stale THEN [Start(s.query) EXCEPT !.error = "changed"] ELSE t
<1>11. u \in WalkState /\ Joined(u)
  BY <1>2, <1>10, StartIs
<1>12. walk' = [walk EXCEPT ![w] = u]
  BY <1>7, <1>9
<1> HIDE DEF u
<1> QED
  BY <1>7, <1>11, <1>12 DEF WalksInv

LEMMA WalksStep == WalksInv /\ [DiscoveryNext]_discoveryVars => WalksInv'
<1> SUFFICES ASSUME WalksInv, [DiscoveryNext]_discoveryVars PROVE WalksInv'
  OBVIOUS
<1>1. CASE EditRegistry \/ EditMode \/ EditScopes
  BY <1>1 DEF WalksInv, EditRegistry, EditMode, EditScopes
<1>2. ASSUME NEW w \in Walk, RequestPage(w) PROVE WalksInv'
  BY <1>2, RequestKeeps
<1>3. ASSUME NEW w \in Walk, AnswerKnown(w) \/ AnswerUnknown(w) PROVE WalksInv'
  BY <1>3, AnswerKeeps DEF AnswerKnown, AnswerUnknown
<1>4. CASE UNCHANGED discoveryVars
  BY <1>4 DEF WalksInv, discoveryVars
<1> QED
  BY <1>1, <1>2, <1>3, <1>4 DEF DiscoveryNext

LEMMA WalksAlways == DiscoverySpec => []WalksInv
BY WalksInit, WalksStep, PTL DEF DiscoverySpec

(* The bounds the environment keeps to. *)
Around == scoped \subseteq Command /\ edits \in 0 .. MaxEdits

LEMMA AroundInitially == DiscoveryInit => Around
BY DiscoveryAssumption DEF DiscoveryInit, Around

LEMMA AroundStep == Around /\ [DiscoveryNext]_discoveryVars => Around'
<1> SUFFICES ASSUME Around, [DiscoveryNext]_discoveryVars PROVE Around'
  OBVIOUS
<1> USE DiscoveryAssumption DEF Around, Edit
<1>1. CASE EditRegistry \/ EditMode \/ EditScopes
  BY <1>1 DEF EditRegistry, EditMode, EditScopes
<1>2. ASSUME NEW w \in Walk, RequestPage(w) \/ AnswerKnown(w) \/ AnswerUnknown(w)
      PROVE  Around'
  <2>1. UNCHANGED scoped
    BY <1>2 DEF RequestPage, AnswerKnown, AnswerUnknown, AnswerPage
  <2>2. UNCHANGED edits \/ Edit
    BY <1>2 DEF RequestPage, AnswerKnown, AnswerUnknown
  <2> QED
    BY <2>1, <2>2
<1>3. CASE UNCHANGED discoveryVars
  BY <1>3 DEF discoveryVars
<1> QED
  BY <1>1, <1>2, <1>3 DEF DiscoveryNext

LEMMA AroundAlways == DiscoverySpec => []Around
BY AroundInitially, AroundStep, PTL DEF DiscoverySpec

LEMMA DiscoveryTypes == WalksInv /\ Around => DiscoveryTypeOK
BY DEF WalksInv, Around, DiscoveryTypeOK, WalkState, Cursor, Joined

(* Every variable keeps its type, and a request's snapshot is there from the  *)
(* moment it is asked to the moment it is answered.                           *)
THEOREM DiscoveryTypeCorrect == DiscoverySpec => []DiscoveryTypeOK
BY DiscoveryTypes, WalksAlways, AroundAlways, PTL

(* A cursor's walk has got a part of the list, and a finished one all of it. *)
LEMMA WalksJoin == WalksInv => PagesJoin
<1> SUFFICES ASSUME WalksInv, NEW w \in Walk
             PROVE  LET s == walk[w]
                    IN  /\ Len(s.got) <= Len(s.first) /\ s.got = SubSeq(s.first, 1, Len(s.got))
                        /\ s.at = "done" => s.got = s.first
                        /\ s.error # "outside"
  BY DEF PagesJoin
<1> DEFINE s == walk[w]
<1>1. /\ s \in WalkState /\ Joined(s)
      /\ s.got \in Seq(Entry) /\ s.first \in Seq(Entry) /\ s.cursor.offset \in Nat
  BY DEF WalksInv, WalkState, Cursor
<1> HIDE DEF s
<1>2. CASE s.got = s.first
  BY <1>1, <1>2, SubSeqFull DEF Joined, s
<1>3. CASE s.got # s.first
  <2>1. Cut(s)
    BY <1>1, <1>3 DEF Joined
  <2>2. s.cursor.offset < Len(s.first) /\ s.got = SubSeq(s.first, 1, s.cursor.offset)
    BY <2>1 DEF Cut
  <2>3. Len(s.got) = s.cursor.offset
    BY <1>1, <2>2
  <2> QED
    BY <1>1, <1>3, <2>2, <2>3 DEF Joined, s
<1> QED
  BY <1>2, <1>3

(* The pages a caller joins are slices of one list, and the last one ends it, *)
(* whatever changes of registry, policy and scopes come between the requests. *)
THEOREM PagesJoinHolds == DiscoverySpec => []PagesJoin
BY WalksAlways, WalksJoin, PTL

(***************************************************************************)
(* The scan of a log file: the blocks lie one before the other, and the    *)
(* last one is no longer than what the cap leaves.                         *)
(***************************************************************************)
LEMMA ScanInitially == ScanInit => ScanTypeOK
<1> SUFFICES ASSUME ScanInit PROVE ScanTypeOK
  OBVIOUS
<1>1. Len(text) \in Nat /\ MaxScan \in Nat
  BY LogScanAssumption, LenProperties DEF ScanInit, LogScanAssumption
<1> QED
  BY <1>1 DEF ScanInit, ScanTypeOK

LEMMA ScanStep == ScanTypeOK /\ [ScanNext]_scanVars => ScanTypeOK'
<1> SUFFICES ASSUME ScanTypeOK, [ScanNext]_scanVars PROVE ScanTypeOK'
  OBVIOUS
<1>1. Len(text) \in Nat /\ MaxScan \in Nat /\ BlockSize \in Nat \ {0}
  BY LogScanAssumption, LenProperties DEF ScanTypeOK, LogScanAssumption
<1>2. CASE ReadBlock
  <2>1. /\ position \in Nat /\ scanned \in Nat /\ MaxScan - scanned \in Nat
        /\ position > 0 /\ scanned < MaxScan
    BY <1>1, <1>2 DEF ReadBlock, Reading, ScanTypeOK
  <2>2. ReadSize \in {BlockSize, position, MaxScan - scanned}
        /\ ReadSize <= position /\ ReadSize <= MaxScan - scanned
    BY <1>1, <2>1, MinIs, {BlockSize, position, MaxScan - scanned} \subseteq Nat DEF ReadSize
  <2>3. ReadSize \in Nat
    BY <1>1, <2>1, <2>2
  <2>4. position' = position - ReadSize /\ scanned' = scanned + ReadSize
        /\ UNCHANGED <<text, ending>>
    BY <1>2 DEF ReadBlock
  <2> HIDE DEF ReadSize
  <2> QED
    BY <1>1, <2>1, <2>2, <2>3, <2>4 DEF ScanTypeOK
<1>3. CASE ReachStart \/ StopAtCap \/ UNCHANGED scanVars
  BY <1>3 DEF ReachStart, StopAtCap, scanVars, ScanTypeOK
<1> QED
  BY <1>2, <1>3 DEF ScanNext

(***************************************************************************)
(* All parts: each has its invariant, and a step of one leaves the others. *)
(***************************************************************************)
AnswersInv ==
    BridgeInv /\ ScanTypeOK /\ LogInv /\ WalksInv /\ Around /\ PolicyInv /\ PreflightInv /\ EnvelopeInv

LEMMA AnswersInitially == Init => AnswersInv
BY BridgeInitInv, ScanInitially, LogInitially, WalksInit, AroundInitially, PolicyInitially,
   PreflightInitInv, EnvelopeInitially
   DEF Init, AnswersInv

LEMMA AnswersStep == AnswersInv /\ [Next]_partVars => AnswersInv'
<1> SUFFICES ASSUME AnswersInv, [Next]_partVars PROVE AnswersInv'
  OBVIOUS
<1>1. /\ [BridgeNext]_bridgeVars /\ [ScanNext]_scanVars /\ [LogNext]_logVars
      /\ [DiscoveryNext]_discoveryVars /\ [Decide]_policyVars
      /\ [PreflightNext]_preflightVars /\ [Answer]_envelopeVars
  BY DEF Next, partVars
<1> QED
  BY <1>1, BridgeStep, ScanStep, LogStep, WalksStep, AroundStep, PolicyStep, PreflightStep, EnvelopeStep
     DEF AnswersInv

LEMMA AnswersAlways == Spec => []AnswersInv
BY AnswersInitially, AnswersStep, PTL DEF Spec

(* Every variable of every part keeps its type, whatever part is at work and  *)
(* whatever the others wait for.                                              *)
THEOREM AnswersTypeCorrect == Spec => []TypeOK
<1>1. AnswersInv => TypeOK
  BY DiscoveryTypes, PolicyTypes, EnvelopeMeans
     DEF AnswersInv, BridgeInv, LogInv, PreflightInv, TypeOK
<1> QED
  BY <1>1, AnswersAlways, PTL

================================================================================
