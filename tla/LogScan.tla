------------------------------- MODULE LogScan -------------------------------
(***************************************************************************)
(* Reading a log from its end (log_reader.py, _iter_lines_backwards): block *)
(* by block, each split into lines together with what the block after it    *)
(* left over, until the start of the file or a cap on the bytes read.       *)
(*                                                                          *)
(* LogPages builds its pages from lines; this is where the lines and their  *)
(* offsets come from.                                                       *)
(***************************************************************************)
EXTENDS Integers, SequencesExt

CONSTANTS
    Byte,           \* bytes of a line
    Newline,        \* the byte that ends one
    Texts,          \* what may be in the file when it is opened
    BlockSize,      \* _BLOCK_SIZE
    MaxScan         \* _MAX_SCAN_BYTES

ASSUME LogScanAssumption ==
    /\ Newline \notin Byte
    /\ Texts \subseteq Seq(Byte \cup {Newline})
    /\ {BlockSize, MaxScan} \subseteq Nat \ {0}

VARIABLES
    text,       \* the file up to the end that was sought
    position,   \* offset of the first byte read
    scanned,    \* _ScanState.bytes_scanned
    buffer,     \* the first part of what was read, whose beginning is not known
    yielded,    \* lines with their offsets, in the order they were yielded
    ending      \* reached_start, truncated, or neither yet

scanVars == <<text, position, scanned, buffer, yielded, ending>>

ScanInit ==
    /\ text \in Texts /\ position = Len(text)
    /\ scanned = 0 /\ buffer = <<>> /\ yielded = <<>> /\ ending = "reading"

(* bytes.split: one part more than there are newlines. *)
Split(bytes) ==
    FoldLeft(LAMBDA parts, b : IF b = Newline THEN Append(parts, <<>>)
                               ELSE [parts EXCEPT ![Len(parts)] = Append(@, b)],
             << <<>> >>, bytes)

(* Mutant: the newlines between the parts are not counted. *)
OffsetUncounted(parts, at, i) == at + MapThenSumSet(LAMBDA j : Len(parts[j]), 1 .. (i - 1))

(* Where the i-th part begins, if the first one begins at `at`. *)
OffsetOf(parts, at, i) == at + MapThenSumSet(LAMBDA j : Len(parts[j]) + 1, 1 .. (i - 1))

(* All parts but the first are lines; the newest first, the empty ones not. *)
LinesOf(parts, at) ==
    SelectSeq(Reverse(Tail([i \in DOMAIN parts |->
                  [offset |-> OffsetOf(parts, at, i), line |-> parts[i]]])),
              LAMBDA l : l.line # <<>>)

Reading == position > 0 /\ scanned < MaxScan

ReadSize == Min({BlockSize, position, MaxScan - scanned})

ReadBlock ==
    /\ Reading
    /\ LET at == position - ReadSize
           parts == Split(SubSeq(text, at + 1, position) \o buffer)
       IN  /\ position' = at /\ scanned' = scanned + ReadSize
           /\ buffer' = Head(parts)
           /\ yielded' = yielded \o LinesOf(parts, at)
    /\ UNCHANGED <<text, ending>>

(* What is left over is the first line of the file, or a piece of one. *)
ReachStart ==
    /\ ending = "reading" /\ position = 0
    /\ ending' = "start"
    /\ yielded' = yielded \o (IF buffer = <<>> THEN <<>> ELSE <<[offset |-> 0, line |-> buffer]>>)
    /\ UNCHANGED <<text, position, scanned, buffer>>

StopAtCap ==
    /\ ending = "reading" /\ position > 0 /\ scanned >= MaxScan
    /\ ending' = "cap"
    /\ UNCHANGED <<text, position, scanned, buffer, yielded>>

ScanNext == ReadBlock \/ ReachStart \/ StopAtCap

ScanSpec == ScanInit /\ [][ScanNext]_scanVars

(***************************************************************************)
(* Properties.                                                             *)
(***************************************************************************)

(* No more is read than the cap, and nothing twice or left out               *)
(* (SafeLogTail._iter_lines_backwards); what it is made into, ScanFaithful.  *)
ScanTypeOK ==
    /\ text \in Texts /\ position \in 0 .. Len(text)
    /\ scanned \in 0 .. MaxScan /\ scanned = Len(text) - position
    /\ ending \in {"reading", "start", "cap"}

(* Offsets at which a line begins that is not empty. *)
Begins ==
    {o \in 0 .. (Len(text) - 1) : text[o + 1] # Newline /\ (o > 0 => text[o] = Newline)}

(* The line that begins at an offset, without its newline. *)
LineAt(o) ==
    SubSeq(text, o + 1, Min({i \in (o + 1) .. Len(text) : text[i] = Newline} \cup {Len(text) + 1}) - 1)

(* At whatever line the caller stops listening, it has had the newest lines   *)
(* of the file, each whole and at its own offset wherever the blocks divide   *)
(* it, and none twice or out of order; when the scan is over these are all    *)
(* lines of a file no longer than the cap, and of a longer one those whose    *)
(* preceding newline lies within it (what LogPages!Reached takes for granted, *)
(* with the number of a line for its offset).                                 *)
ScanFaithful ==
    LET offsets == {yielded[i].offset : i \in DOMAIN yielded}
        ended == ending # "reading"
    IN  /\ \A i \in DOMAIN yielded :
              /\ yielded[i].offset \in Begins
              /\ yielded[i].line = LineAt(yielded[i].offset)
        /\ \A i, j \in DOMAIN yielded : i < j => yielded[i].offset > yielded[j].offset
        /\ \A o \in offsets, newer \in Begins : newer > o => newer \in offsets
        /\ ended =>
              IF Len(text) <= MaxScan THEN ending = "start" /\ offsets = Begins
              ELSE ending = "cap" /\ offsets = {o \in Begins : Len(text) - o < MaxScan}
===============================================================================
