-------------------------------- MODULE Envelope --------------------------------
(***************************************************************************)
(* Cutting the answer of a command to its byte budget                      *)
(* (dynamic_serialization.py, execution.py).  Items are taken off the end  *)
(* of the longest list, one at a time, until the envelope fits; how many   *)
(* is found by bisection.  If no number of them is enough the data shrink  *)
(* to their minimal shape, and the frame to what it must have.  The        *)
(* envelope names its own size in bytes.                                   *)
(*                                                                         *)
(* The data are lists of items of one size, in a list or under keys.       *)
(***************************************************************************)
EXTENDS Naturals, SequencesExt, FiniteSetsExt

CONSTANTS
    Cases,          \* budgets, frames and data to be answered with
    ItemSize,       \* bytes of an item, with its separator
    CountSize,      \* bytes of a frame's total_count
    FieldsSize      \* bytes of its applied.fields

(* `frame` is what of the envelope stays the same: all but data, byte count,  *)
(* `truncated` and `returned_count`; `cut` is that data have been left out    *)
(* before.  Digits counts up to nine; the budgets are 12288 and 65536 bytes.  *)
Case == [cap : Nat \ {0}, frame : Nat, cut : BOOLEAN, nested : BOOLEAN, data : Seq(Nat)]

ASSUME EnvelopeAssumption ==
    /\ {ItemSize, CountSize, FieldsSize} \subseteq Nat
    /\ \A c \in Cases : c \in Case /\ c.frame >= CountSize + FieldsSize /\ c.cap < 10 ^ 9
    /\ \A c \in Cases : Len(c.data) < 10 ^ 9

VARIABLES
    case,       \* the budget, the frame and the data of one answer
    envelope    \* what became of it

envelopeVars == <<case, envelope>>

Digits(n) == CHOOSE d \in 1 .. 9 : n < 10 ^ d /\ (d > 1 => n >= 10 ^ (d - 1))

Items(data) == FoldLeft(LAMBDA total, n : total + n, 0, data)

(* _set_returned_count: the lists of a list, and one for a mapping. *)
Returned(c, data) == IF c.nested THEN Len(data) ELSE 1

(* The frame with the words true or false and the count of what is returned. *)
Frame(c, data, cut) == c.frame + (IF cut THEN 4 ELSE 5) + Digits(Returned(c, data))

(* _encoded_size of an envelope whose byte count reads `named`. *)
Encoded(data, frame, named) ==
    frame + Digits(named) + 2 + 2 * Len(data) + Items(data) * ItemSize

(* The heap of _simulate_list_removals: the longest list loses its last item, *)
(* of equal ones the outermost and then the first; a list that is taken off   *)
(* takes its own items with it.                                               *)
RemoveOne(data, nested) ==
    LET longest == Max(Range(data))
        place == CHOOSE i \in DOMAIN data :
                    data[i] = longest /\ \A j \in 1 .. (i - 1) : data[j] < longest
    IN  IF data = <<>> THEN data
        ELSE IF nested /\ Len(data) >= longest THEN Front(data)
        ELSE IF longest > 0 THEN [data EXCEPT ![place] = @ - 1] ELSE data

Without(c, removals) ==
    FoldLeft(LAMBDA rest, i : RemoveOne(rest, c.nested), c.data, [i \in 1 .. removals |-> i])

(* _count_list_items, an upper bound of the removals there can be. *)
Removals(c) == (IF c.nested THEN Len(c.data) ELSE 0) + Items(c.data)

Fits(data, frame, cap) == Encoded(data, frame, cap) <= cap

(* The envelope fits after so many removals, and says if there were any. *)
Suffice(c, removals) ==
    LET data == Without(c, removals)
    IN  Fits(data, Frame(c, data, c.cut \/ removals > 0), c.cap)

(* Mutant: the upper end leaves out the middle that was found to fit. *)
FewestOffByOne(c) ==
    LET halve(range, i) ==
            LET middle == (range.low + range.high) \div 2
            IN  IF range.low >= range.high THEN range
                ELSE IF Suffice(c, middle)
                     THEN [range EXCEPT !.high = middle - 1]
                     ELSE [range EXCEPT !.low = middle + 1]
    IN  FoldLeft(halve, [low |-> 1, high |-> Removals(c)], [i \in 1 .. Removals(c) |-> i]).low

(* The bisection of fit_json_envelope; `low` ends at the number taken. *)
Fewest(c) ==
    LET halve(range, i) ==
            LET middle == (range.low + range.high) \div 2
            IN  IF range.low >= range.high THEN range
                ELSE IF Suffice(c, middle)
                     THEN [range EXCEPT !.high = middle]
                     ELSE [range EXCEPT !.low = middle + 1]
    IN  FoldLeft(halve, [low |-> 1, high |-> Removals(c)], [i \in 1 .. Removals(c) |-> i]).low

(* _set_measured_bytes: the count is part of what it counts, so it is written *)
(* and measured up to three times.                                            *)
Measured(data, frame, cap) ==
    FoldLeft(LAMBDA named, attempt : Encoded(data, frame, named), cap, <<1, 2, 3>>)

Sent(c, data, frame, truncated) ==
    LET named == Measured(data, frame, c.cap)
    IN  [data |-> data, named |-> named, size |-> Encoded(data, frame, named),
         truncated |-> truncated, outcome |-> "sent"]

Unsent == [data |-> <<>>, named |-> 0, size |-> 0, truncated |-> FALSE, outcome |-> "none"]

(* fit_json_envelope *)
Fitted(c) ==
    LET enough == Removals(c) > 0 /\ Suffice(c, Removals(c))
        reduced == Without(c, Fewest(c))
        bare == Frame(c, <<>>, TRUE) - CountSize
        barest == bare - FieldsSize
    IN  IF Suffice(c, 0) THEN Sent(c, c.data, Frame(c, c.data, c.cut), c.cut)
        ELSE IF enough THEN Sent(c, reduced, Frame(c, reduced, TRUE), TRUE)
        ELSE IF Fits(<<>>, bare, c.cap) THEN Sent(c, <<>>, bare, TRUE)
        ELSE IF Fits(<<>>, barest, c.cap) THEN Sent(c, <<>>, barest, TRUE)
        ELSE [Unsent EXCEPT !.outcome = "failed"]

EnvelopeInit == case \in Cases /\ envelope = Unsent

Answer == envelope = Unsent /\ envelope' = Fitted(case) /\ UNCHANGED case

EnvelopeSpec == EnvelopeInit /\ [][Answer]_envelopeVars

(***************************************************************************)
(* Properties.                                                             *)
(***************************************************************************)
EnvelopeTypeOK ==
    /\ envelope.data \in Seq(Nat) /\ envelope.named \in Nat /\ envelope.size \in Nat
    /\ envelope.truncated \in BOOLEAN
    /\ envelope.outcome \in {"none", "sent", "failed"}

(* An answer is within its budget, and the size it names is the size it has   *)
(* with that name in it.                                                      *)
SizeTrue ==
    envelope.outcome = "sent" => envelope.named = envelope.size /\ envelope.size <= case.cap

(* What is left of several lists is even: none keeps more than one item over  *)
(* another that lost some.                                                    *)
EvenlyCut ==
    envelope.outcome = "sent" /\ envelope.data # <<>> =>
        \A i, j \in DOMAIN envelope.data :
            envelope.data[i] < case.data[i] => envelope.data[j] <= envelope.data[i] + 1

(* No item is withheld that there was room for: the answer lacks as few as    *)
(* possible in the order items go, and says so if it lacks any, here or from  *)
(* before; it fails only if an empty one is too long.                         *)
FewestWithheld ==
    LET sufficient == {k \in 0 .. Removals(case) : Suffice(case, k)}
        barest == Frame(case, <<>>, TRUE) - CountSize - FieldsSize
    IN  /\ envelope.outcome = "sent" /\ sufficient # {} =>
              /\ envelope.data = Without(case, Min(sufficient))
              /\ envelope.truncated <=> case.cut \/ Min(sufficient) > 0
        /\ envelope.outcome = "failed" => sufficient = {} /\ ~Fits(<<>>, barest, case.cap)

(* The three at once: budget and byte count, and what is cut and how.         *)
CutFairly == SizeTrue /\ EvenlyCut /\ FewestWithheld
===============================================================================
