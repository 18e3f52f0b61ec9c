------------------------------- MODULE LogPages -------------------------------
(***************************************************************************)
(* Paging backwards through Music Assistant's (MA) log (log_reader.py).    *)
(* Each call reads the file from its end, groups lines into records, and   *)
(* returns the newest records that match and lie before the cursor, within *)
(* a limit of records, a budget of bytes for the response and a cap on the *)
(* bytes read.  A hint says how to go on; the walk follows it, while MA    *)
(* appends to the log and rotates it.                                      *)
(*                                                                         *)
(* The offset of a line is its number: how lines and offsets are read from *)
(* the file, block by block, is LogScan.                                   *)
(***************************************************************************)
EXTENDS Naturals, Sequences, FiniteSetsExt

CONSTANTS
    Line,           \* the lines a log may have
    Logs,           \* the logs there may be when the walk begins, with the rotated ones
    Limit,          \* records asked for per page
    Budget,         \* _MAX_RESPONSE_BYTES
    ScanCap,        \* _MAX_SCAN_BYTES
    MaxLines        \* bound: lines of both logs

(* A header begins a record; a `wanted` line matches the caller's filters. *)
LineRecord == [header : BOOLEAN, wanted : BOOLEAN, size : Nat \ {0}]

ASSUME LogPagesAssumption ==
    /\ Line \subseteq LineRecord
    /\ \A logs \in Logs : logs.file \in Seq(Line) /\ logs.older \in Seq(Line)
    /\ \A logs \in Logs : Len(logs.file) + Len(logs.older) <= MaxLines
    /\ {Limit, Budget, ScanCap, MaxLines} \subseteq Nat \ {0}

VARIABLES
    file,       \* musicassistant.log, oldest line first
    older,      \* musicassistant.log.1, empty if there is none
    rotated,    \* history: MA has rotated the log during the walk
    start,      \* history: lines of `file` when the walk began
    cursor,     \* the offset the next page must stay below
    inOlder,    \* the walk has gone on to the rotated log
    page,       \* records on the last page
    given,      \* records on the pages before it
    hint        \* what the last page told the caller to do

logVars == <<file, older, rotated, start, cursor, inOlder, page, given, hint>>

(* Above every offset. *)
Uncut == MaxLines + 1

LogInit ==
    /\ \E logs \in Logs : file = logs.file /\ older = logs.older
    /\ rotated = FALSE /\ start = Len(file)
    /\ cursor = Uncut /\ inOlder = FALSE
    /\ page = {} /\ given = {} /\ hint = "begin"

(***************************************************************************)
(* MA writes its log.                                                      *)
(***************************************************************************)
Grow ==
    /\ Len(file) + Len(older) < MaxLines
    /\ \E line \in Line : file' = Append(file, line)
    /\ UNCHANGED <<older, rotated, start, cursor, inOlder, page, given, hint>>

Rotate ==
    /\ ~rotated /\ file # <<>>
    /\ rotated' = TRUE
    /\ older' = file /\ file' = <<>>
    /\ UNCHANGED <<start, cursor, inOlder, page, given, hint>>

(***************************************************************************)
(* One page.                                                               *)
(***************************************************************************)
Size(log, lines) == MapThenSumSet(LAMBDA i : log[i].size, lines)

(* The whole log fits under the cap, and the scan reaches its start. *)
Whole(log) == Size(log, DOMAIN log) <= ScanCap

(* _iter_lines_backwards: of a longer log, the lines whose beginning the scan *)
(* has seen; the piece of a line before them is dropped.                      *)
Reached(log) ==
    IF Whole(log) THEN DOMAIN log
    ELSE {i \in DOMAIN log : Size(log, i .. Len(log)) < ScanCap}

(* A header takes the lines up to the next one with it. *)
Headed(log, reached) ==
    {[at |-> i, offset |-> i,
      lines |-> {j \in i .. Len(log) : \A k \in (i + 1) .. j : ~log[k].header}] :
        i \in {j \in reached : log[j].header}}

(* Mutant: lines before the first header lie one before it begins. *)
HeaderlessBefore(log) ==
    {[at |-> i, offset |-> 0, lines |-> {i}] :
        i \in {j \in DOMAIN log : \A k \in 1 .. j : ~log[k].header}}

(* Lines before the first header are records of their own, all with the       *)
(* offset of the first.                                                       *)
Headerless(log) ==
    {[at |-> i, offset |-> 1, lines |-> {i}] :
        i \in {j \in DOMAIN log : \A k \in 1 .. j : ~log[k].header}}

(* _iter_records_backwards: headerless lines only where the scan got there. *)
Records(log) ==
    Headed(log, Reached(log)) \cup (IF Whole(log) THEN Headerless(log) ELSE {})

Matches(log, r) == \E i \in r.lines : log[i].wanted

Candidates(log, below) == {r \in Records(log) : Matches(log, r) /\ r.offset < below}

(* Mutant: a page is filled from the old end. *)
TakenOldest(log, candidates) ==
    {r \in candidates :
        LET until == {x \in candidates : x.at <= r.at}
        IN  /\ Cardinality(until) <= Limit
            /\ until = {r} \/ Size(log, UNION {x.lines : x \in until}) <= Budget}

(* The loop of tail(), newest first: it ends at the limit, or at the record   *)
(* the budget has no room for; the first one is cut to fit, never dropped.    *)
Taken(log, candidates) ==
    {r \in candidates :
        LET newer == {x \in candidates : x.at >= r.at}
        IN  /\ Cardinality(newer) <= Limit
            /\ newer = {r} \/ Size(log, UNION {x.lines : x \in newer}) <= Budget}

(* Mutant: an empty page asks for more of the same. *)
HintAgain(log, candidates, taken) ==
    LET left == candidates # taken
    IN  CASE left \/ ~Whole(log) -> "page"
          [] ~left /\ Whole(log) /\ ~inOlder /\ older # <<>> -> "next"
          [] ~left /\ Whole(log) /\ (inOlder \/ older = <<>>) -> "none"

(* _build_hint: there is more, or there may be; else the next log, if any.    *)
(* A page that has nothing has no offset to go on from either.                *)
Hint(log, candidates, taken) ==
    LET left == candidates # taken
        cut == \E r \in taken : Size(log, r.lines) > Budget
        more == left \/ cut \/ ~Whole(log)
    IN  CASE more /\ taken # {} -> "page"
          [] more /\ taken = {} -> "narrow"
          [] ~more /\ ~inOlder /\ older # <<>> -> "next"
          [] ~more /\ (inOlder \/ older = <<>>) -> "none"

WalkOver == hint \in {"none", "narrow"}

(* A call of tail(), with the cursor and the name its predecessor hinted at. *)
NextPage(log) ==
    LET candidates == Candidates(log, cursor)
        taken == Taken(log, candidates)
    IN  /\ given' = given \cup page
        /\ page' = {[old |-> inOlder, at |-> r.at] : r \in taken}
        /\ hint' = Hint(log, candidates, taken)
        /\ cursor' = CASE hint' = "page" /\ taken # {} -> Min({r.offset : r \in taken})
                       [] hint' = "page" /\ taken = {} -> cursor
                       [] hint' # "page" -> Uncut
        /\ inOlder' = (inOlder \/ hint' = "next")
        /\ UNCHANGED <<file, older, rotated, start>>

FetchPage == ~WalkOver /\ NextPage(IF inOlder THEN older ELSE file)

LogNext == Grow \/ Rotate \/ FetchPage

LogSpec == LogInit /\ [][LogNext]_logVars

(***************************************************************************)
(* Properties.                                                             *)
(***************************************************************************)
LogTypeOK ==
    LET entry == [old : BOOLEAN, at : 1 .. MaxLines]
    IN  /\ file \in Seq(Line) /\ older \in Seq(Line)
        /\ rotated \in BOOLEAN /\ start \in 0 .. MaxLines
        /\ cursor \in 1 .. Uncut /\ inOlder \in BOOLEAN
        /\ page \subseteq entry /\ given \subseteq entry
        /\ hint \in {"begin", "page", "next", "narrow", "none"}

Delivered == given \cup page

(* The records the caller is owed: those that matched when it began. *)
Owed ==
    LET before == SubSeq(file, 1, start)
        of(log, old) == {[old |-> old, at |-> r.at] :
                            r \in {x \in Headed(log, DOMAIN log) \cup Headerless(log) : Matches(log, x)}}
    IN  of(before, FALSE) \cup of(older, TRUE)

(* A log that starts in the middle of a record is paged with losses            *)
(* (PagingLossless).  So is one longer than a scan: every call scans from the  *)
(* end of the file again, so no offset leads deeper than the cap.              *)
Pageable ==
    /\ ~rotated
    /\ \A log \in {file, older} : Whole(log) /\ (Len(log) > 1 => log[1].header \/ log[2].header)

(* No record is on two pages, however the log grows meanwhile; and none is    *)
(* skipped: when one has been given, so have all newer ones that matched when *)
(* the walk began, and when the hints end, all of them have ("lines=N means   *)
(* the N most recent matching records").                                      *)
PagesFaithful ==
    /\ ~rotated => page \cap given = {}
    /\ Pageable =>
          /\ \A r \in Delivered, o \in Owed :
                \/ r.old = o.old /\ o.at > r.at
                \/ r.old /\ ~o.old
                => o \in Delivered
          /\ WalkOver => Owed \subseteq Delivered

(* Following the hints comes to an end. *)
WalkEnds == <>WalkOver

(* A walk that ends without a hint has given everything ("or page older       *)
(* records with" the offset, log_reader.py:435; "offset paging is lossless",  *)
(* line 154), also where the log begins with lines of no record.              *)
PagingLossless == ~rotated /\ hint = "none" => Owed \subseteq Delivered
===============================================================================
