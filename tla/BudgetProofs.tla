-------------------------------- MODULE BudgetProofs ---------------------------------
(***************************************************************************)
(* What is cut to a byte budget: the pages of the log for any log, any     *)
(* budgets and any growth and rotation while they are asked for, and the   *)
(* envelope of an answer for any data, frame and size of item.             *)
(***************************************************************************)
EXTENDS LogPages, Envelope, FoldTheorems, SequenceTheorems

(***************************************************************************)
(* Sizes of lines.                                                         *)
(***************************************************************************)
Weights(log) == [i \in DOMAIN log |-> log[i].size]

LEMMA LogIs ==
    ASSUME NEW log \in Seq(Line)
    PROVE  /\ Len(log) \in Nat /\ DOMAIN log = 1 .. Len(log) /\ IsFiniteSet(DOMAIN log)
           /\ \A i \in DOMAIN log : log[i] \in Line
           /\ Weights(log) \in [DOMAIN log -> Nat]
           /\ \A i \in DOMAIN log : Weights(log)[i] = log[i].size
<1>1. Len(log) \in Nat /\ DOMAIN log = 1 .. Len(log) /\ \A i \in DOMAIN log : log[i] \in Line
  OBVIOUS
<1>2. \A i \in DOMAIN log : log[i].size \in Nat
  BY <1>1, LogPagesAssumption DEF LogPagesAssumption, LineRecord
<1>3. IsFiniteSet(DOMAIN log)
  BY <1>1, FS_Interval
<1> QED
  BY <1>1, <1>2, <1>3 DEF Weights

LEMMA SizeFolds ==
    ASSUME NEW log, NEW lines
    PROVE  \E it : /\ it = (CHOOSE f : f = [s \in SUBSET lines |->
                                IF s = {} THEN 0 ELSE log[Whichever(s)].size + f[s \ {Whichever(s)}]])
                   /\ Size(log, lines) = it[lines]
BY DEF Size, MapThenSumSet, MapThenFoldSet, Whichever

LEMMA SizeIs ==
    ASSUME NEW log \in Seq(Line), NEW f, Adds(f, Weights(log), DOMAIN log),
           NEW lines \in SUBSET DOMAIN log
    PROVE  Size(log, lines) = f[lines]
<1> DEFINE w == [i \in lines |-> log[i].size]
<1>1. IsFiniteSet(lines) /\ w \in [lines -> Nat] /\ \A i \in lines : w[i] = Weights(log)[i]
  <2>1. IsFiniteSet(lines)
    BY LogIs, FS_Subset
  <2>2. \A i \in lines : log[i].size \in Nat /\ Weights(log)[i] = log[i].size
    BY LogIs
  <2> QED
    BY <2>1, <2>2
<1>2. \A s \in SUBSET lines : s # {} => Whichever(s) \in lines
  BY DEF Whichever
<1>3. \A g : Sums(g, w, lines) <=> g = [s \in SUBSET lines |->
                                IF s = {} THEN 0 ELSE log[Whichever(s)].size + g[s \ {Whichever(s)}]]
  BY <1>2 DEF Sums
<1> HIDE DEF w
<1>4. PICK h : Sums(h, w, lines)
  BY <1>1, SumExists
<1>5. PICK it : /\ it = (CHOOSE g : g = [s \in SUBSET lines |->
                                IF s = {} THEN 0 ELSE log[Whichever(s)].size + g[s \ {Whichever(s)}]])
                /\ Size(log, lines) = it[lines]
  BY SizeFolds
<1>6. Sums(it, w, lines)
  <2>1. h = [s \in SUBSET lines |-> IF s = {} THEN 0 ELSE log[Whichever(s)].size + h[s \ {Whichever(s)}]]
    BY <1>3, <1>4
  <2>2. it = [s \in SUBSET lines |-> IF s = {} THEN 0 ELSE log[Whichever(s)].size + it[s \ {Whichever(s)}]]
    BY <1>5, <2>1
  <2> QED
    BY <1>3, <2>2
<1>7. Adds(it, w, lines)
  BY <1>1, <1>6, AddsIs
<1>8. \A s \in SUBSET lines : it[s] = f[s]
  BY <1>1, <1>7, SumAgrees
<1> QED
  BY <1>5, <1>8

LEMMA SizeSums ==
    ASSUME NEW log \in Seq(Line)
    PROVE  \E f : /\ Adds(f, Weights(log), DOMAIN log)
                  /\ \A lines \in SUBSET DOMAIN log : Size(log, lines) = f[lines]
<1>1. IsFiniteSet(DOMAIN log) /\ Weights(log) \in [DOMAIN log -> Nat]
  BY LogIs
<1>2. PICK f : Sums(f, Weights(log), DOMAIN log)
  BY <1>1, SumExists
<1>3. Adds(f, Weights(log), DOMAIN log)
  BY <1>1, <1>2, AddsIs
<1> QED
  BY <1>3, SizeIs

(* Fewer lines are not longer. *)
LEMMA SizeGrows ==
    ASSUME NEW log \in Seq(Line), NEW lines \in SUBSET DOMAIN log, NEW few \in SUBSET lines
    PROVE  /\ Size(log, lines) \in Nat /\ Size(log, few) \in Nat
           /\ Size(log, few) <= Size(log, lines)
<1>1. IsFiniteSet(DOMAIN log) /\ Weights(log) \in [DOMAIN log -> Nat]
  BY LogIs
<1>2. PICK f : /\ Adds(f, Weights(log), DOMAIN log)
               /\ \A l \in SUBSET DOMAIN log : Size(log, l) = f[l]
  BY SizeSums
<1>3. f[few] <= f[lines]
  BY <1>1, <1>2, SumGrows
<1>4. f[few] \in Nat /\ f[lines] \in Nat
  BY <1>2 DEF Adds
<1> QED
  BY <1>2, <1>3, <1>4

(* A log that fits under the cap did so before it grew. *)
LEMMA WholeBefore ==
    ASSUME NEW log \in Seq(Line), NEW line \in Line, Whole(Append(log, line))
    PROVE  Whole(log)
<1> DEFINE more == Append(log, line)
<1>1. /\ more \in Seq(Line) /\ DOMAIN log \subseteq DOMAIN more
      /\ \A i \in DOMAIN log : more[i] = log[i]
  OBVIOUS
<1> HIDE DEF more
<1>2. PICK f : /\ Adds(f, Weights(log), DOMAIN log)
               /\ \A lines \in SUBSET DOMAIN log : Size(log, lines) = f[lines]
  BY SizeSums
<1>3. PICK g : /\ Adds(g, Weights(more), DOMAIN more)
               /\ \A lines \in SUBSET DOMAIN more : Size(more, lines) = g[lines]
  BY <1>1, SizeSums
<1>4. /\ IsFiniteSet(DOMAIN log) /\ Weights(log) \in [DOMAIN log -> Nat]
      /\ \A i \in DOMAIN log : Weights(more)[i] = Weights(log)[i]
  BY <1>1, LogIs
<1>5. f[DOMAIN log] = g[DOMAIN log]
  <2>1. Adds(f, Weights(log), DOMAIN log) /\ Adds(g, Weights(more), DOMAIN more)
    BY <1>2, <1>3
  <2>2. \A s \in SUBSET DOMAIN log : f[s] = g[s]
    BY <1>1, <1>4, <2>1, SumAgrees
  <2> QED
    BY <2>2
<1>6. /\ Size(more, DOMAIN log) <= Size(more, DOMAIN more)
      /\ Size(more, DOMAIN log) \in Nat /\ Size(more, DOMAIN more) \in Nat
  BY <1>1, SizeGrows
<1>7. Size(log, DOMAIN log) = Size(more, DOMAIN log)
  BY <1>1, <1>2, <1>3, <1>5
<1>8. ScanCap \in Nat
  BY LogPagesAssumption DEF LogPagesAssumption
<1>9. Size(more, DOMAIN more) <= ScanCap
  BY DEF Whole, more
<1> QED
  BY <1>6, <1>7, <1>8, <1>9 DEF Whole

(***************************************************************************)
(* Records.                                                                *)
(***************************************************************************)
(* The offset of the record that begins at a line. *)
Offset(log, i) == IF log[i].header THEN i ELSE 1

(* Lines where a record begins that matches. *)
Matching(log) ==
    {i \in DOMAIN log :
        \/ /\ log[i].header
           /\ \E j \in i .. Len(log) : (\A k \in (i + 1) .. j : ~log[k].header) /\ log[j].wanted
        \/ (\A k \in 1 .. i : ~log[k].header) /\ log[i].wanted}

LEMMA RecordIs ==
    ASSUME NEW log \in Seq(Line), NEW r \in Headed(log, DOMAIN log) \cup Headerless(log)
    PROVE  /\ r.at \in DOMAIN log /\ r.lines \in SUBSET DOMAIN log
           /\ r.offset = Offset(log, r.at) /\ r.offset \in 1 .. r.at
           /\ log[r.at].header => r \in Headed(log, DOMAIN log)
           /\ ~log[r.at].header => r \in Headerless(log)
           /\ Matches(log, r) <=> r.at \in Matching(log)
<1>1. Len(log) \in Nat /\ DOMAIN log = 1 .. Len(log)
  BY LogIs
<1>2. CASE r \in Headed(log, DOMAIN log)
  <2>1. PICK i \in DOMAIN log :
           /\ log[i].header
           /\ r = [at |-> i, offset |-> i,
                   lines |-> {j \in i .. Len(log) : \A k \in (i + 1) .. j : ~log[k].header}]
    BY <1>2 DEF Headed
  <2>2. i .. Len(log) \subseteq DOMAIN log
    BY <1>1
  <2>3. /\ r.at = i /\ r.offset = i
        /\ r.lines = {j \in i .. Len(log) : \A k \in (i + 1) .. j : ~log[k].header}
    BY <2>1
  <2>4. ~(\A k \in 1 .. i : ~log[k].header)
    BY <1>1, <2>1
  <2>5. Matches(log, r) <=> i \in Matching(log)
    BY <2>1, <2>3, <2>4 DEF Matches, Matching
  <2> QED
    BY <1>1, <1>2, <2>1, <2>2, <2>3, <2>5 DEF Offset
<1>3. CASE r \in Headerless(log)
  <2>1. PICK i \in DOMAIN log :
           (\A k \in 1 .. i : ~log[k].header) /\ r = [at |-> i, offset |-> 1, lines |-> {i}]
    BY <1>3 DEF Headerless
  <2>2. i \in 1 .. i /\ 1 \in 1 .. i
    BY <1>1
  <2>3. ~log[i].header
    BY <2>1, <2>2
  <2>4. r.at = i /\ r.offset = 1 /\ r.lines = {i}
    BY <2>1
  <2>5. Matches(log, r) <=> i \in Matching(log)
    BY <2>1, <2>3, <2>4 DEF Matches, Matching
  <2> QED
    BY <1>1, <1>3, <2>2, <2>3, <2>4, <2>5 DEF Offset
<1> QED
  BY <1>2, <1>3

LEMMA RecordsAre ==
    ASSUME NEW log \in Seq(Line)
    PROVE  /\ Records(log) \subseteq Headed(log, DOMAIN log) \cup Headerless(log)
           /\ Whole(log) => Records(log) = Headed(log, DOMAIN log) \cup Headerless(log)
<1>1. Reached(log) \subseteq DOMAIN log
  BY DEF Reached
<1>2. Headed(log, Reached(log)) \subseteq Headed(log, DOMAIN log)
  BY <1>1 DEF Headed
<1>3. Whole(log) => Headed(log, Reached(log)) = Headed(log, DOMAIN log)
  BY DEF Reached
<1> QED
  BY <1>2, <1>3 DEF Records

(* No two records begin at a line. *)
LEMMA OneRecordEach ==
    ASSUME NEW log \in Seq(Line), NEW r \in Records(log), NEW s \in Records(log), r.at = s.at
    PROVE  r = s
<1>1. r \in Headed(log, DOMAIN log) \cup Headerless(log) /\ s \in Headed(log, DOMAIN log) \cup Headerless(log)
  BY RecordsAre
<1>2. CASE log[r.at].header
  <2>1. r \in Headed(log, DOMAIN log) /\ s \in Headed(log, DOMAIN log)
    BY <1>1, <1>2, RecordIs
  <2> DEFINE Of(i) == [at |-> i, offset |-> i,
                       lines |-> {j \in i .. Len(log) : \A k \in (i + 1) .. j : ~log[k].header}]
  <2>2. \A x \in Headed(log, DOMAIN log) : x = Of(x.at)
    BY DEF Headed
  <2> HIDE DEF Of
  <2> QED
    BY <2>1, <2>2
<1>3. CASE ~log[r.at].header
  <2>1. r \in Headerless(log) /\ s \in Headerless(log)
    BY <1>1, <1>3, RecordIs
  <2>2. \A x \in Headerless(log) : x = [at |-> x.at, offset |-> 1, lines |-> {x.at}]
    BY DEF Headerless
  <2> QED
    BY <2>1, <2>2
<1> QED
  BY <1>2, <1>3

LEMMA RecordsFinite ==
    ASSUME NEW log \in Seq(Line)
    PROVE  IsFiniteSet(Records(log))
<1> DEFINE from == [r \in Records(log) |-> r.at]
<1>1. from \in [Records(log) -> DOMAIN log]
  BY RecordsAre, RecordIs
<1>2. from \in Injection(Records(log), DOMAIN log)
  BY <1>1, OneRecordEach DEF Injection, IsInjective
<1> QED
  BY <1>2, LogIs, FS_Injection

LEMMA CandidatesAre ==
    ASSUME NEW log \in Seq(Line), NEW below
    PROVE  /\ Candidates(log, below) \subseteq Records(log)
           /\ IsFiniteSet(Candidates(log, below))
           /\ \A r \in Candidates(log, below) : r.at \in Matching(log) /\ r.offset < below
           /\ Whole(log) =>
                 \A i \in Matching(log) :
                    Offset(log, i) < below => \E r \in Candidates(log, below) : r.at = i
<1>1. Candidates(log, below) \subseteq Records(log)
  BY DEF Candidates
<1>2. IsFiniteSet(Candidates(log, below))
  BY <1>1, RecordsFinite, FS_Subset
<1>3. ASSUME NEW r \in Candidates(log, below) PROVE r.at \in Matching(log) /\ r.offset < below
  BY RecordsAre, RecordIs DEF Candidates
<1>4. ASSUME Whole(log), NEW i \in Matching(log), Offset(log, i) < below
      PROVE  \E r \in Candidates(log, below) : r.at = i
  <2>1. \E r \in Headed(log, DOMAIN log) \cup Headerless(log) : r.at = i
    <3>1. CASE log[i].header
      <4>1. [at |-> i, offset |-> i,
             lines |-> {j \in i .. Len(log) : \A k \in (i + 1) .. j : ~log[k].header}]
            \in Headed(log, DOMAIN log)
        BY <3>1 DEF Headed, Matching
      <4> QED
        BY <4>1
    <3>2. CASE ~log[i].header
      <4>1. [at |-> i, offset |-> 1, lines |-> {i}] \in Headerless(log)
        BY <3>2 DEF Headerless, Matching
      <4> QED
        BY <4>1
    <3> QED
      BY <3>1, <3>2
  <2>2. PICK r \in Headed(log, DOMAIN log) \cup Headerless(log) : r.at = i
    BY <2>1
  <2>3. r \in Records(log) /\ Matches(log, r) /\ r.offset < below
    BY <1>4, <2>2, RecordsAre, RecordIs
  <2> QED
    BY <2>2, <2>3 DEF Candidates
<1> QED
  BY <1>1, <1>2, <1>3, <1>4

(***************************************************************************)
(* A page.                                                                 *)
(***************************************************************************)
LEMMA UptoBudget ==
    ASSUME NEW log \in Seq(Line), NEW C \in SUBSET Records(log)
    PROVE  \A r \in C : UNION {x.lines : x \in {y \in C : y.at >= r.at}} \in SUBSET DOMAIN log
<1>1. \A x \in C : x.lines \in SUBSET DOMAIN log
  BY RecordsAre, RecordIs
<1> QED
  BY <1>1

(* Of a record that is taken, all newer candidates are too. *)
LEMMA NewerTaken ==
    ASSUME NEW log \in Seq(Line), NEW C \in SUBSET Records(log), NEW r \in Taken(log, C),
           NEW x \in C, x.at > r.at
    PROVE  x \in Taken(log, C)
<1> DEFINE newer(y) == {z \in C : z.at >= y.at}
           lines(y) == UNION {z.lines : z \in newer(y)}
<1>1. \A z \in C : z.at \in Nat
  <2>1. DOMAIN log \subseteq Nat
    BY LogIs
  <2> QED
    BY <2>1, RecordsAre, RecordIs
<1>2. r \in C /\ Cardinality(newer(r)) <= Limit /\ (newer(r) = {r} \/ Size(log, lines(r)) <= Budget)
  BY DEF Taken
<1>3. newer(x) \subseteq newer(r) /\ x \in newer(r) /\ x # r
  BY <1>1, <1>2
<1>4. Cardinality(newer(x)) <= Limit
  <2>1. IsFiniteSet(newer(r))
    BY RecordsFinite, FS_Subset
  <2>2. /\ Cardinality(newer(x)) <= Cardinality(newer(r))
        /\ Cardinality(newer(x)) \in Nat /\ Cardinality(newer(r)) \in Nat
    BY <1>3, <2>1, FS_Subset, FS_CardinalityType
  <2>3. Limit \in Nat
    BY LogPagesAssumption DEF LogPagesAssumption
  <2> QED
    BY <1>2, <2>2, <2>3
<1>5. Size(log, lines(x)) <= Budget
  <2>1. Size(log, lines(r)) <= Budget
    BY <1>2, <1>3
  <2>2. lines(r) \in SUBSET DOMAIN log /\ lines(x) \in SUBSET lines(r)
    BY <1>2, <1>3, UptoBudget
  <2>3. Budget \in Nat
    BY LogPagesAssumption DEF LogPagesAssumption
  <2> HIDE DEF lines
  <2>4. /\ Size(log, lines(r)) \in Nat /\ Size(log, lines(x)) \in Nat
        /\ Size(log, lines(x)) <= Size(log, lines(r))
    BY <2>2, SizeGrows
  <2> QED
    BY <2>1, <2>3, <2>4
<1> QED
  BY <1>4, <1>5 DEF Taken

(* A page is not empty as long as there is anything for it. *)
LEMMA SomeTaken ==
    ASSUME NEW log \in Seq(Line), NEW C \in SUBSET Records(log), C # {}
    PROVE  Taken(log, C) # {}
<1>1. \A z \in C : z.at \in 0 .. Len(log)
  <2>1. DOMAIN log \subseteq 0 .. Len(log)
    BY LogIs
  <2> QED
    BY <2>1, RecordsAre, RecordIs
<1> DEFINE places == {z.at : z \in C}
<1>2. places \subseteq 0 .. Len(log) /\ places # {}
  BY <1>1
<1>3. PICK newest \in places : \A p \in places : p <= newest
  BY <1>2, LogIs, MaxIs
<1>4. PICK r \in C : r.at = newest
  OBVIOUS
<1>5. {z \in C : z.at >= r.at} = {r}
  <2>1. ASSUME NEW z \in C, z.at >= r.at PROVE z = r
    <3>1. z.at <= r.at /\ z.at \in Nat /\ r.at \in Nat
      BY <1>1, <1>3, <1>4
    <3>2. z.at = r.at
      BY <2>1, <3>1
    <3> QED
      BY <3>2, OneRecordEach
  <2>2. r.at >= r.at
    BY <1>1
  <2> QED
    BY <2>1, <2>2
<1>6. Cardinality({r}) <= Limit
  <2>1. Cardinality({r}) = 1
    BY FS_Singleton
  <2>2. Limit \in Nat \ {0}
    BY LogPagesAssumption DEF LogPagesAssumption
  <2> QED
    BY <2>1, <2>2
<1> QED
  BY <1>5, <1>6 DEF Taken

(***************************************************************************)
(* Types, and the room there is.                                           *)
(***************************************************************************)
Room == Len(file) + Len(older) <= MaxLines

LEMMA LogInitTypes == LogInit => LogTypeOK /\ Room
<1> SUFFICES ASSUME LogInit PROVE LogTypeOK /\ Room
  OBVIOUS
<1>1. PICK logs \in Logs : file = logs.file /\ older = logs.older
  BY DEF LogInit
<1>2. file \in Seq(Line) /\ older \in Seq(Line) /\ Len(file) + Len(older) <= MaxLines
  BY <1>1, LogPagesAssumption DEF LogPagesAssumption
<1>3. Len(file) \in Nat /\ Len(older) \in Nat /\ MaxLines \in Nat \ {0}
  BY <1>2, LogPagesAssumption DEF LogPagesAssumption
<1>4. start \in 0 .. MaxLines /\ cursor \in 1 .. Uncut
  <2>1. start = Len(file) /\ cursor = MaxLines + 1
    BY DEF LogInit, Uncut
  <2> QED
    BY <1>2, <1>3, <2>1 DEF Uncut
<1> QED
  BY <1>2, <1>4 DEF LogInit, LogTypeOK, Room

LEMMA HintMeans ==
    ASSUME NEW log, NEW candidates, NEW taken
    PROVE  /\ Hint(log, candidates, taken) \in {"page", "next", "narrow", "none"}
           /\ Hint(log, candidates, taken) = "page" => taken # {}
           /\ Hint(log, candidates, taken) = "narrow" =>
                 taken = {} /\ (candidates # taken \/ ~Whole(log))
           /\ Hint(log, candidates, taken) = "next" =>
                 ~inOlder /\ candidates = taken /\ Whole(log)
           /\ Hint(log, candidates, taken) = "none" =>
                 (inOlder \/ older = <<>>) /\ candidates = taken /\ Whole(log)
<1> DEFINE left == candidates # taken
           cut == \E r \in taken : Size(log, r.lines) > Budget
           more == left \/ cut \/ ~Whole(log)
<1>1. Hint(log, candidates, taken) =
        CASE more /\ taken # {} -> "page"
          [] more /\ taken = {} -> "narrow"
          [] ~more /\ ~inOlder /\ older # <<>> -> "next"
          [] ~more /\ (inOlder \/ older = <<>>) -> "none"
  BY DEF Hint
<1>2. taken = {} => (more <=> candidates # taken \/ ~Whole(log))
  OBVIOUS
<1>3. ~more => candidates = taken /\ Whole(log)
  OBVIOUS
<1> HIDE DEF more
<1>4. CASE more /\ taken # {}
  BY <1>1, <1>4
<1>5. CASE more /\ taken = {}
  BY <1>1, <1>2, <1>5
<1>6. CASE ~more /\ ~inOlder /\ older # <<>>
  BY <1>1, <1>3, <1>6
<1>7. CASE ~more /\ (inOlder \/ older = <<>>)
  BY <1>1, <1>3, <1>7
<1> QED
  BY <1>4, <1>5, <1>6, <1>7

Current == IF inOlder THEN older ELSE file

(* What a call does. *)
Fetches(C, T) ==
    /\ ~WalkOver
    /\ C = Candidates(Current, cursor) /\ T = Taken(Current, C) /\ T \subseteq C
    /\ given' = given \cup page
    /\ page' = {[old |-> inOlder, at |-> r.at] : r \in T}
    /\ hint' = Hint(Current, C, T)
    /\ hint' = "page" =>
          \E m \in T : cursor' = m.offset /\ \A r \in T : m.offset <= r.offset
    /\ hint' # "page" => cursor' = Uncut
    /\ inOlder' = (inOlder \/ hint' = "next")
    /\ UNCHANGED <<file, older, rotated, start>>

LEMMA FetchIs ==
    ASSUME LogTypeOK, FetchPage
    PROVE  /\ Current \in Seq(Line)
           /\ \E C, T : Fetches(C, T)
<1>1. Current \in Seq(Line)
  BY DEF LogTypeOK, Current
<1> DEFINE C == Candidates(Current, cursor)
           T == Taken(Current, C)
<1>2. T \subseteq C
  BY DEF Taken
<1>3. NextPage(Current)
  BY DEF FetchPage, Current
<1>4. /\ ~WalkOver
      /\ given' = given \cup page
      /\ page' = {[old |-> inOlder, at |-> r.at] : r \in T}
      /\ hint' = Hint(Current, C, T)
      /\ cursor' = CASE hint' = "page" /\ T # {} -> Min({r.offset : r \in T})
                     [] hint' = "page" /\ T = {} -> cursor
                     [] hint' # "page" -> Uncut
      /\ inOlder' = (inOlder \/ hint' = "next")
      /\ UNCHANGED <<file, older, rotated, start>>
  BY <1>3 DEF FetchPage, NextPage
<1>5. C \subseteq Records(Current)
  BY <1>1, CandidatesAre
<1> HIDE DEF C, T
<1>6. ASSUME hint' = "page"
      PROVE  \E m \in T : cursor' = m.offset /\ \A r \in T : m.offset <= r.offset
  <2>1. T # {}
    <3>1. Hint(Current, C, T) = "page"
      BY <1>4, <1>6
    <3> QED
      BY <3>1, HintMeans
  <2>2. cursor' = Min({r.offset : r \in T})
    BY <1>4, <1>6, <2>1
  <2> DEFINE offsets == {r.offset : r \in T}
  <2>3. \A r \in T : r.offset \in Nat
    <3>1. ASSUME NEW r \in T PROVE r.offset \in Nat
      <4>1. r \in Records(Current)
        BY <1>2, <1>5
      <4>2. r.offset \in 1 .. r.at /\ r.at \in DOMAIN Current
        BY <1>1, <4>1, RecordsAre, RecordIs
      <4> QED
        BY <1>1, <4>2, LogIs
    <3> QED
      BY <3>1
  <2>4. offsets \subseteq Nat /\ offsets # {}
    BY <2>1, <2>3
  <2>5. Min(offsets) \in offsets /\ \A o \in offsets : Min(offsets) <= o
    <3> HIDE DEF offsets
    <3> QED
      BY <2>4, MinIs
  <2> QED
    BY <2>2, <2>5
<1>7. hint' # "page" => cursor' = Uncut
  BY <1>4
<1>8. Fetches(C, T)
  BY <1>2, <1>4, <1>6, <1>7 DEF Fetches, C, T
<1> QED
  BY <1>1, <1>8

LEMMA EntriesOf ==
    ASSUME NEW log \in Seq(Line), NEW below, NEW r \in Candidates(log, below)
    PROVE  /\ r.at \in 1 .. Len(log) /\ Len(log) \in Nat /\ r.offset = Offset(log, r.at)
           /\ r.offset \in 1 .. r.at /\ r.offset < below
<1>1. r \in Headed(log, DOMAIN log) \cup Headerless(log) /\ r.offset < below
  BY CandidatesAre, RecordsAre
<1> QED
  BY <1>1, RecordIs, LogIs

LEMMA LogTypes == LogTypeOK /\ Room /\ [LogNext]_logVars => LogTypeOK' /\ Room'
<1> SUFFICES ASSUME LogTypeOK, Room, [LogNext]_logVars PROVE LogTypeOK' /\ Room'
  OBVIOUS
<1>1. /\ file \in Seq(Line) /\ older \in Seq(Line) /\ Len(file) \in Nat /\ Len(older) \in Nat
      /\ MaxLines \in Nat \ {0}
  <2>1. file \in Seq(Line) /\ older \in Seq(Line)
    BY DEF LogTypeOK
  <2> QED
    BY <2>1, LogPagesAssumption DEF LogPagesAssumption
<1>2. CASE Grow
  <2>1. PICK line \in Line : file' = Append(file, line)
    BY <1>2 DEF Grow
  <2>2. file' \in Seq(Line) /\ Len(file') = Len(file) + 1
    BY <1>1, <2>1
  <2>3. /\ UNCHANGED <<older, rotated, start, cursor, inOlder, page, given, hint>>
        /\ Len(file) + Len(older) < MaxLines
    BY <1>2 DEF Grow
  <2>4. Len(file') + Len(older') <= MaxLines
    BY <1>1, <2>2, <2>3
  <2> QED
    BY <2>2, <2>3, <2>4 DEF LogTypeOK, Room, Uncut
<1>3. CASE Rotate
  <2>1. file' = <<>> /\ older' = file /\ rotated' = TRUE
        /\ UNCHANGED <<start, cursor, inOlder, page, given, hint>>
    BY <1>3 DEF Rotate
  <2>2. file' \in Seq(Line) /\ Len(file') = 0
    BY <2>1
  <2>3. Len(file') + Len(older') <= MaxLines
    BY <1>1, <2>1, <2>2 DEF Room
  <2> QED
    BY <1>1, <2>1, <2>2, <2>3 DEF LogTypeOK, Room, Uncut
<1>4. CASE FetchPage
  <2>1. Current \in Seq(Line)
    BY <1>4, FetchIs
  <2>2. PICK C, T : Fetches(C, T)
    BY <1>4, FetchIs
  <2>3. ASSUME NEW r \in T
        PROVE  r.at \in 1 .. MaxLines /\ r.offset \in 1 .. MaxLines + 1
    <3>1. r \in Candidates(Current, cursor)
      BY <2>2 DEF Fetches
    <3>2. r.at \in 1 .. Len(Current) /\ r.offset \in 1 .. r.at
      BY <2>1, <3>1, EntriesOf
    <3>3. Len(Current) <= MaxLines /\ Len(Current) \in Nat
      BY <1>1 DEF Room, Current
    <3> QED
      BY <1>1, <3>2, <3>3
  <2>4. cursor' \in 1 .. MaxLines + 1
    <3>1. CASE hint' = "page"
      BY <2>2, <2>3, <3>1 DEF Fetches
    <3>2. CASE hint' # "page"
      <4>1. cursor' = MaxLines + 1
        BY <2>2, <3>2 DEF Fetches, Uncut
      <4> QED
        BY <1>1, <4>1
    <3> QED
      BY <3>1, <3>2
  <2>5. inOlder \in BOOLEAN /\ page \subseteq [old : BOOLEAN, at : 1 .. MaxLines]
    BY DEF LogTypeOK
  <2>6. page' \subseteq [old : BOOLEAN, at : 1 .. MaxLines]
    <3>1. page' = {[old |-> inOlder, at |-> r.at] : r \in T}
      BY <2>2 DEF Fetches
    <3> QED
      BY <2>3, <2>5, <3>1
  <2>7. hint' \in {"page", "next", "narrow", "none"}
    BY <2>2, HintMeans DEF Fetches
  <2>8. inOlder' \in BOOLEAN /\ given' \subseteq [old : BOOLEAN, at : 1 .. MaxLines]
    BY <2>2, <2>5 DEF Fetches, LogTypeOK
  <2>9. UNCHANGED <<file, older, rotated, start>>
    BY <2>2 DEF Fetches
  <2> QED
    BY <2>4, <2>6, <2>7, <2>8, <2>9 DEF LogTypeOK, Room, Uncut
<1>5. CASE UNCHANGED logVars
  BY <1>5 DEF logVars, LogTypeOK, Room, Uncut
<1> QED
  BY <1>2, <1>3, <1>4, <1>5 DEF LogNext

(***************************************************************************)
(* What has been delivered lies at the cursor or above it, so that no page *)
(* gives a record again; what lies there and is owed has been delivered,   *)
(* so that none is skipped.  A log that is not being rotated only grows    *)
(* behind what the caller is owed.                                         *)
(***************************************************************************)
Apart ==
    ~rotated =>
        /\ start <= Len(file)
        /\ page \cap given = {}
        /\ ~inOlder => \A d \in Delivered : ~d.old
        /\ ~WalkOver =>
              \A d \in Delivered :
                 d.old = inOlder => d.at \in DOMAIN Current /\ Offset(Current, d.at) >= cursor

SoFar ==
    Pageable =>
        /\ ~WalkOver => \A o \in Owed : o.old = inOlder /\ o.at >= cursor => o \in Delivered
        /\ inOlder => \A o \in Owed : ~o.old => o \in Delivered
        /\ WalkOver => Owed \subseteq Delivered

LogInv == LogTypeOK /\ Room /\ Apart /\ SoFar

(* The records the caller is owed match in the log as it is. *)
LEMMA OwedAre ==
    ASSUME LogTypeOK, start <= Len(file), NEW o \in Owed
    PROVE  /\ o \in [old : BOOLEAN, at : Nat]
           /\ ~o.old => o.at \in Matching(file)
           /\ o.old => o.at \in Matching(older)
<1> DEFINE before == SubSeq(file, 1, start)
           of(log, old) == {[old |-> old, at |-> r.at] :
                            r \in {x \in Headed(log, DOMAIN log) \cup Headerless(log) : Matches(log, x)}}
<1>1. file \in Seq(Line) /\ older \in Seq(Line) /\ start \in Nat /\ Len(file) \in Nat
  BY LogPagesAssumption DEF LogTypeOK, LogPagesAssumption
<1>2. /\ before \in Seq(Line) /\ Len(before) = start
      /\ \A i \in 1 .. start : before[i] = file[i]
  BY <1>1
<1>3. o \in of(before, FALSE) \cup of(older, TRUE)
  BY DEF Owed
<1> HIDE DEF before
<1>4. ASSUME NEW log \in Seq(Line), NEW old \in BOOLEAN, NEW e \in of(log, old)
      PROVE  e.old = old /\ e.at \in Matching(log) /\ e \in [old : BOOLEAN, at : Nat]
  <2>1. PICK r \in Headed(log, DOMAIN log) \cup Headerless(log) :
           Matches(log, r) /\ e = [old |-> old, at |-> r.at]
    BY <1>4
  <2>2. r.at \in Matching(log) /\ r.at \in DOMAIN log /\ DOMAIN log \subseteq Nat
    BY <2>1, RecordIs, LogIs
  <2> QED
    BY <2>1, <2>2
<1>5. ASSUME NEW i \in Matching(before) PROVE i \in Matching(file)
  <2>1. DOMAIN before = 1 .. start /\ DOMAIN file = 1 .. Len(file)
    BY <1>1, <1>2, LogIs
  <2>2. i \in 1 .. start /\ i \in 1 .. Len(file)
    BY <1>1, <2>1 DEF Matching
  <2>3. CASE /\ before[i].header
             /\ \E j \in i .. start : (\A k \in (i + 1) .. j : ~before[k].header) /\ before[j].wanted
    <3>1. PICK j \in i .. start : (\A k \in (i + 1) .. j : ~before[k].header) /\ before[j].wanted
      BY <2>3
    <3>2. j \in 1 .. start /\ j \in i .. Len(file) /\ (i + 1) .. j \subseteq 1 .. start
      BY <1>1, <2>2
    <3>3. (\A k \in (i + 1) .. j : ~file[k].header) /\ file[j].wanted /\ file[i].header
      BY <1>2, <2>2, <2>3, <3>1, <3>2
    <3> QED
      BY <2>1, <2>2, <3>2, <3>3 DEF Matching
  <2>4. CASE (\A k \in 1 .. i : ~before[k].header) /\ before[i].wanted
    <3>1. 1 .. i \subseteq 1 .. start
      BY <1>1, <2>2
    <3>2. (\A k \in 1 .. i : ~file[k].header) /\ file[i].wanted
      BY <1>2, <2>2, <2>4, <3>1
    <3> QED
      BY <2>1, <2>2, <3>2 DEF Matching
  <2> QED
    BY <1>2, <2>3, <2>4 DEF Matching
<1> HIDE DEF of
<1>6. CASE o \in of(before, FALSE)
  BY <1>2, <1>4, <1>5, <1>6
<1>7. CASE o \in of(older, TRUE)
  BY <1>1, <1>4, <1>7
<1> QED
  BY <1>3, <1>6, <1>7

LEMMA LogInitially == LogInit => LogInv
<1> SUFFICES ASSUME LogInit PROVE LogInv
  OBVIOUS
<1>1. LogTypeOK /\ Room
  BY LogInitTypes
<1>2. /\ hint = "begin" /\ page = {} /\ given = {} /\ inOlder = FALSE /\ cursor = MaxLines + 1
      /\ start = Len(file)
  BY DEF LogInit, Uncut
<1>3. Len(file) \in Nat /\ ~WalkOver /\ Delivered = {}
  BY <1>1, <1>2 DEF LogTypeOK, WalkOver, Delivered
<1>4. Apart
  BY <1>2, <1>3 DEF Apart
<1>5. ASSUME NEW o \in Owed, o.old = inOlder PROVE ~(o.at >= cursor)
  <2>1. o.at \in Matching(file)
    <3>1. start <= Len(file) /\ o.old = FALSE
      BY <1>2, <1>3, <1>5
    <3> QED
      BY <1>1, <3>1, OwedAre
  <2>2. file \in Seq(Line) /\ Len(file) + Len(older) <= MaxLines /\ MaxLines \in Nat
        /\ Len(file) \in Nat /\ Len(older) \in Nat
    BY <1>1, LogPagesAssumption DEF LogTypeOK, Room, LogPagesAssumption
  <2>3. o.at \in 1 .. Len(file)
    BY <2>1, <2>2, LogIs DEF Matching
  <2> QED
    BY <1>2, <2>2, <2>3
<1>6. SoFar
  BY <1>2, <1>3, <1>5 DEF SoFar
<1> QED
  BY <1>1, <1>4, <1>6 DEF LogInv

LEMMA GrowKeeps ==
    ASSUME LogInv, Grow, LogTypeOK', Room'
    PROVE  LogInv'
<1>1. PICK line \in Line : file' = Append(file, line)
  BY DEF Grow
<1>2. UNCHANGED <<older, rotated, start, cursor, inOlder, page, given, hint>>
  BY DEF Grow
<1>3. /\ file \in Seq(Line) /\ older \in Seq(Line) /\ Len(file) \in Nat /\ start \in Nat
      /\ Apart /\ SoFar
  BY LogPagesAssumption DEF LogInv, LogTypeOK, LogPagesAssumption
<1>4. /\ Len(file') = Len(file) + 1 /\ DOMAIN file \subseteq DOMAIN file'
      /\ \A i \in DOMAIN file : file'[i] = file[i]
  BY <1>1, <1>3
<1>5. Delivered' = Delivered /\ WalkOver' = WalkOver
  BY <1>2 DEF Delivered, WalkOver
<1>6. Apart'
  <2>1. SUFFICES ASSUME ~rotated PROVE Apart'
    BY <1>2 DEF Apart
  <2>2. start' <= Len(file')
    BY <1>2, <1>3, <1>4, <2>1 DEF Apart
  <2>3. ASSUME NEW i \in DOMAIN Current
        PROVE  i \in DOMAIN Current' /\ Offset(Current', i) = Offset(Current, i)
    <3>1. CASE inOlder
      BY <1>2, <3>1 DEF Current
    <3>2. CASE ~inOlder
      <4>1. Current = file /\ Current' = file'
        BY <1>2, <3>2 DEF Current
      <4> QED
        BY <1>4, <4>1 DEF Offset
    <3> QED
      BY <3>1, <3>2
  <2> QED
    BY <1>2, <1>3, <1>5, <2>1, <2>2, <2>3 DEF Apart
<1>7. SoFar'
  <2>1. SUFFICES ASSUME Pageable' PROVE SoFar'
    BY DEF SoFar
  <2>2. ~rotated /\ start <= Len(file)
    BY <1>2, <1>3, <2>1 DEF Pageable, Apart
  <2>3. Whole(file) /\ Whole(older)
    <3>1. Whole(file') /\ Whole(older')
      BY <2>1 DEF Pageable
    <3> QED
      BY <1>1, <1>2, <1>3, <3>1, WholeBefore
  <2>4. \A log \in {file, older} : Len(log) > 1 => log[1].header \/ log[2].header
    <3>1. Len(older) > 1 => older[1].header \/ older[2].header
      BY <1>2, <2>1 DEF Pageable
    <3>2. ASSUME Len(file) > 1 PROVE file[1].header \/ file[2].header
      <4>1. 1 \in DOMAIN file /\ 2 \in DOMAIN file /\ Len(file') > 1
        BY <1>3, <1>4, <3>2
      <4>2. file'[1].header \/ file'[2].header
        BY <2>1, <4>1 DEF Pageable
      <4> QED
        BY <1>4, <4>1, <4>2
    <3> QED
      BY <3>1, <3>2
  <2>5. Pageable
    BY <2>2, <2>3, <2>4 DEF Pageable
  <2>6. Owed' = Owed
    <3>1. SubSeq(file', 1, start) = SubSeq(file, 1, start)
      BY <1>1, <1>3, <2>2
    <3> QED
      BY <1>2, <3>1 DEF Owed
  <2> QED
    BY <1>2, <1>3, <1>5, <2>5, <2>6 DEF SoFar
<1> QED
  BY <1>6, <1>7 DEF LogInv

LEMMA RotateKeeps ==
    ASSUME LogInv, Rotate, LogTypeOK', Room'
    PROVE  LogInv'
<1>1. rotated' = TRUE
  BY DEF Rotate
<1> QED
  BY <1>1 DEF LogInv, Apart, SoFar, Pageable

LEMMA FetchApart ==
    ASSUME LogInv, FetchPage
    PROVE  Apart'
<1>1. Current \in Seq(Line) /\ Apart /\ LogTypeOK
  BY FetchIs DEF LogInv
<1>2. PICK C, T : Fetches(C, T)
  BY <1>1, FetchIs
<1>3. /\ ~WalkOver
      /\ page' = {[old |-> inOlder, at |-> r.at] : r \in T}
      /\ given' = Delivered /\ Delivered' = Delivered \cup page'
      /\ inOlder' = (inOlder \/ hint' = "next") /\ hint' = Hint(Current, C, T)
      /\ UNCHANGED <<file, older, rotated, start>>
  BY <1>2 DEF Fetches, Delivered
<1>4. SUFFICES ASSUME ~rotated PROVE Apart'
  BY <1>3 DEF Apart
<1>5. /\ start' <= Len(file')
      /\ ~inOlder => \A d \in Delivered : ~d.old
      /\ \A d \in Delivered :
            d.old = inOlder => d.at \in DOMAIN Current /\ Offset(Current, d.at) >= cursor
  BY <1>1, <1>3, <1>4 DEF Apart
<1>6. ASSUME NEW d \in page'
      PROVE  /\ d.old = inOlder /\ d.at \in DOMAIN Current
             /\ Offset(Current, d.at) \in Nat /\ Offset(Current, d.at) < cursor
             /\ \E r \in T : d.at = r.at /\ r.offset = Offset(Current, d.at)
  <2>1. PICK r \in T : d = [old |-> inOlder, at |-> r.at]
    BY <1>3
  <2>2. r \in Candidates(Current, cursor)
    BY <1>2 DEF Fetches
  <2>3. /\ r.at \in 1 .. Len(Current) /\ Len(Current) \in Nat
        /\ r.offset = Offset(Current, r.at) /\ r.offset \in 1 .. r.at /\ r.offset < cursor
    BY <1>1, <2>2, EntriesOf
  <2>4. DOMAIN Current = 1 .. Len(Current)
    BY <1>1, LogIs
  <2> QED
    BY <2>1, <2>3, <2>4
<1>7. cursor \in Nat /\ inOlder \in BOOLEAN
  BY <1>1, LogPagesAssumption DEF LogTypeOK, LogPagesAssumption
<1>8. page' \cap given' = {}
  <2>1. SUFFICES ASSUME NEW d \in page', d \in Delivered PROVE FALSE
    BY <1>3
  <2>2. Offset(Current, d.at) >= cursor
    BY <1>5, <1>6, <2>1
  <2> QED
    BY <1>6, <1>7, <2>2
<1>9. ~inOlder' => \A d \in Delivered' : ~d.old
  BY <1>3, <1>5, <1>6
<1>10. ASSUME ~WalkOver', NEW d \in Delivered', d.old = inOlder'
       PROVE  d.at \in DOMAIN Current' /\ Offset(Current', d.at) >= cursor'
  <2>1. CASE hint' = "page"
    <3>1. inOlder' = inOlder /\ Current' = Current
      BY <1>3, <1>7, <2>1 DEF Current
    <3>2. PICK m \in T : cursor' = m.offset /\ \A r \in T : m.offset <= r.offset
      BY <1>2, <2>1 DEF Fetches
    <3>3. m.offset \in Nat /\ m.offset < cursor
      <4>1. m \in Candidates(Current, cursor)
        BY <1>2 DEF Fetches
      <4> QED
        BY <1>1, <4>1, EntriesOf
    <3>4. CASE d \in page'
      BY <1>6, <3>1, <3>2, <3>3, <3>4
    <3>5. CASE d \in Delivered
      <4>1. d.at \in DOMAIN Current /\ Offset(Current, d.at) >= cursor
        BY <1>5, <1>10, <3>1, <3>5
      <4>2. Offset(Current, d.at) \in Nat
        BY <1>1, <4>1, LogIs DEF Offset
      <4> QED
        BY <1>7, <3>1, <3>2, <3>3, <4>1, <4>2
    <3> QED
      BY <1>3, <3>4, <3>5
  <2>2. CASE hint' = "next"
    <3>1. Hint(Current, C, T) = "next"
      BY <1>3, <2>2
    <3>2. ~inOlder
      BY <3>1, HintMeans
    <3>3. ~d.old /\ inOlder'
      BY <1>3, <1>5, <1>6, <2>2, <3>2
    <3> QED
      BY <1>10, <3>3
  <2>3. hint' \in {"page", "next", "narrow", "none"}
    BY <1>3, HintMeans
  <2> QED
    BY <1>10, <2>1, <2>2, <2>3 DEF WalkOver
<1> QED
  BY <1>5, <1>8, <1>9, <1>10 DEF Apart

(* In a log that can be paged a record begins at its offset. *)
LEMMA BeginsAtOffset ==
    ASSUME LogTypeOK, NEW log \in {file, older}, NEW i \in Matching(log)
    PROVE  /\ i \in Nat /\ Offset(log, i) \in Nat /\ Offset(log, i) <= i
           /\ Pageable => Offset(log, i) = i
<1>1. log \in Seq(Line)
  BY DEF LogTypeOK
<1>2. i \in 1 .. Len(log) /\ Len(log) \in Nat
  BY <1>1, LogIs DEF Matching
<1>3. ASSUME Pageable, ~log[i].header PROVE i = 1
  <2>1. SUFFICES ASSUME i # 1 PROVE FALSE
    OBVIOUS
  <2>2. 1 \in 1 .. i /\ 2 \in 1 .. i /\ Len(log) > 1
    BY <1>2, <2>1
  <2>3. ~log[1].header /\ ~log[2].header
    BY <1>3, <2>2 DEF Matching
  <2> QED
    BY <1>3, <2>2, <2>3 DEF Pageable
<1> QED
  BY <1>2, <1>3 DEF Offset

LEMMA FetchSoFar ==
    ASSUME LogInv, FetchPage
    PROVE  SoFar'
<1>1. Current \in Seq(Line) /\ Apart /\ SoFar /\ LogTypeOK /\ Room
  BY FetchIs DEF LogInv
<1>2. PICK C, T : Fetches(C, T)
  BY <1>1, FetchIs
<1>3. /\ ~WalkOver
      /\ page' = {[old |-> inOlder, at |-> r.at] : r \in T}
      /\ given' = Delivered /\ Delivered' = Delivered \cup page'
      /\ inOlder' = (inOlder \/ hint' = "next") /\ hint' = Hint(Current, C, T)
      /\ C = Candidates(Current, cursor) /\ T = Taken(Current, C) /\ T \subseteq C
      /\ UNCHANGED <<file, older, rotated, start>>
  BY <1>2 DEF Fetches, Delivered
<1>4. Pageable' = Pageable /\ Owed' = Owed
  BY <1>3 DEF Pageable, Owed
<1>5. SUFFICES ASSUME Pageable PROVE SoFar'
  BY <1>4 DEF SoFar
<1>6. ~rotated /\ start <= Len(file) /\ Current \in {file, older} /\ Whole(Current)
  BY <1>1, <1>5 DEF Pageable, Apart, Current
<1>7. /\ \A o \in Owed : o.old = inOlder /\ o.at >= cursor => o \in Delivered
      /\ inOlder => \A o \in Owed : ~o.old => o \in Delivered
  BY <1>1, <1>3, <1>5 DEF SoFar
<1>8. cursor \in Nat /\ inOlder \in BOOLEAN
  BY <1>1, LogPagesAssumption DEF LogTypeOK, LogPagesAssumption
<1>9. ASSUME NEW o \in Owed
      PROVE  /\ o \in [old : BOOLEAN, at : Nat]
             /\ ~o.old => o.at \in Matching(file)
             /\ o.old => o.at \in Matching(older)
  BY <1>1, <1>6, OwedAre
<1>10. ASSUME NEW o \in Owed, o.old = inOlder, o.at < cursor
       PROVE  \E x \in C : x.at = o.at
  <2>1. o.at \in Matching(Current)
    BY <1>8, <1>9, <1>10 DEF Current
  <2>2. Offset(Current, o.at) < cursor
    <3>1. Offset(Current, o.at) \in Nat /\ o.at \in Nat /\ Offset(Current, o.at) <= o.at
      BY <1>1, <1>6, <2>1, BeginsAtOffset
    <3> QED
      BY <1>8, <1>10, <3>1
  <2> QED
    BY <1>1, <1>3, <1>6, <2>1, <2>2, CandidatesAre
<1>11. ASSUME NEW o \in Owed, o.old = inOlder, NEW x \in T, x.at = o.at PROVE o \in page'
  <2>1. o = [old |-> inOlder, at |-> x.at]
    BY <1>9, <1>11
  <2> QED
    BY <1>3, <2>1
<1>12. ASSUME C = T, NEW o \in Owed, o.old = inOlder PROVE o \in Delivered'
  <2>1. CASE o.at >= cursor
    BY <1>3, <1>7, <1>12, <2>1
  <2>2. CASE o.at < cursor
    BY <1>3, <1>10, <1>11, <1>12, <2>2
  <2> QED
    BY <1>8, <1>9, <2>1, <2>2
<1>13. C \in SUBSET Records(Current)
  BY <1>1, <1>3, CandidatesAre
<1>14. CASE hint' = "page"
  <2>1. inOlder' = inOlder /\ ~WalkOver'
    BY <1>3, <1>8, <1>14 DEF WalkOver
  <2>2. ASSUME NEW o \in Owed, o.old = inOlder, o.at >= cursor' PROVE o \in Delivered'
    <3>1. CASE o.at >= cursor
      BY <1>3, <1>7, <2>2, <3>1
    <3>2. CASE o.at < cursor
      <4>1. PICK x \in C : x.at = o.at
        BY <1>10, <2>2, <3>2
      <4>2. PICK m \in T : cursor' = m.offset
        BY <1>2, <1>14 DEF Fetches
      <4>3. m.at \in Matching(Current)
        BY <1>1, <1>3, CandidatesAre
      <4>4. m.offset = Offset(Current, m.at)
        BY <1>1, <1>3, EntriesOf
      <4>5. m.offset = m.at /\ m.at \in Nat /\ o.at \in Nat
        BY <1>1, <1>5, <1>6, <1>9, <4>3, <4>4, BeginsAtOffset
      <4>6. x.at >= m.at
        BY <2>2, <4>1, <4>2, <4>5
      <4>7. CASE x.at = m.at
        <5>1. x = m
          BY <1>1, <1>3, <1>13, <4>7, OneRecordEach
        <5> QED
          BY <1>3, <1>11, <2>2, <4>1, <5>1
      <4>8. CASE x.at > m.at
        <5>1. x \in T
          BY <1>1, <1>3, <1>13, <4>8, NewerTaken
        <5> QED
          BY <1>3, <1>11, <2>2, <4>1, <5>1
      <4> QED
        BY <4>1, <4>5, <4>6, <4>7, <4>8
    <3> QED
      BY <1>8, <1>9, <3>1, <3>2
  <2> QED
    BY <1>3, <1>4, <1>7, <2>1, <2>2 DEF SoFar
<1>15. CASE hint' = "next"
  <2>1. ~inOlder /\ C = T
    <3>1. Hint(Current, C, T) = "next"
      BY <1>3, <1>15
    <3> QED
      BY <3>1, HintMeans
  <2>2. inOlder' = TRUE /\ ~WalkOver' /\ cursor' = Uncut
    BY <1>2, <1>3, <1>15 DEF WalkOver, Fetches
  <2>3. ASSUME NEW o \in Owed, ~o.old PROVE o \in Delivered'
    <3>1. o.old = inOlder
      BY <1>8, <1>9, <2>1, <2>3
    <3> QED
      BY <1>12, <2>1, <3>1
  <2>4. ASSUME NEW o \in Owed, o.old PROVE ~(o.at >= cursor')
    <3>1. o.at \in 1 .. Len(older) /\ older \in Seq(Line) /\ file \in Seq(Line)
      BY <1>1, <1>9, <2>4, LogIs DEF LogTypeOK, Matching
    <3>2. Len(older) \in Nat /\ Len(file) \in Nat /\ MaxLines \in Nat /\ Len(file) + Len(older) <= MaxLines
      BY <1>1, <3>1, LogPagesAssumption DEF Room, LogPagesAssumption
    <3>3. cursor' = MaxLines + 1
      BY <2>2 DEF Uncut
    <3> QED
      BY <3>1, <3>2, <3>3
  <2> QED
    BY <1>4, <2>2, <2>3, <2>4 DEF SoFar
<1>16. CASE hint' = "narrow"
  <2>1. T = {} /\ (C # T \/ ~Whole(Current))
    <3>1. Hint(Current, C, T) = "narrow"
      BY <1>3, <1>16
    <3> QED
      BY <3>1, HintMeans
  <2> QED
    BY <1>1, <1>3, <1>6, <1>13, <2>1, SomeTaken
<1>17. CASE hint' = "none"
  <2>1. (inOlder \/ older = <<>>) /\ C = T
    <3>1. Hint(Current, C, T) = "none"
      BY <1>3, <1>17
    <3> QED
      BY <3>1, HintMeans
  <2>2. ASSUME NEW o \in Owed PROVE o \in Delivered'
    <3>1. CASE o.old = inOlder
      BY <1>12, <2>1, <3>1
    <3>2. CASE inOlder /\ ~o.old
      BY <1>3, <1>7, <3>2
    <3>3. CASE ~inOlder /\ o.old
      <4>1. older = <<>> /\ o.at \in Matching(older)
        BY <1>9, <2>1, <3>3
      <4>2. DOMAIN older = {}
        BY <4>1
      <4> QED
        BY <4>1, <4>2 DEF Matching
    <3> QED
      BY <1>8, <1>9, <3>1, <3>2, <3>3
  <2>3. WalkOver' /\ inOlder' = inOlder
    BY <1>3, <1>8, <1>17 DEF WalkOver
  <2> QED
    BY <1>4, <2>2, <2>3 DEF SoFar
<1>18. hint' \in {"page", "next", "narrow", "none"}
  BY <1>3, HintMeans
<1> QED
  BY <1>14, <1>15, <1>16, <1>17, <1>18

LEMMA LogStep == LogInv /\ [LogNext]_logVars => LogInv'
<1> SUFFICES ASSUME LogInv, [LogNext]_logVars PROVE LogInv'
  OBVIOUS
<1>1. LogTypeOK' /\ Room'
  BY LogTypes DEF LogInv
<1>2. CASE Grow
  BY <1>1, <1>2, GrowKeeps
<1>3. CASE Rotate
  BY <1>1, <1>3, RotateKeeps
<1>4. CASE FetchPage
  BY <1>1, <1>4, FetchApart, FetchSoFar DEF LogInv
<1>5. CASE UNCHANGED logVars
  <2>1. Apart' /\ SoFar'
    BY <1>5 DEF LogInv, Apart, SoFar, Pageable, Owed, Delivered, WalkOver, Current, logVars
  <2> QED
    BY <1>1, <2>1 DEF LogInv
<1> QED
  BY <1>2, <1>3, <1>4, <1>5 DEF LogNext

LEMMA LogAlways == LogSpec => []LogInv
BY LogInitially, LogStep, PTL DEF LogSpec

(* An entry below one that was delivered has been delivered. *)
LEMMA PagesAre == LogInv => PagesFaithful
<1> SUFFICES ASSUME LogInv PROVE PagesFaithful
  OBVIOUS
<1>1. LogTypeOK /\ Apart /\ SoFar
  BY DEF LogInv
<1>2. ~rotated => page \cap given = {}
  BY <1>1 DEF Apart
<1>3. ASSUME Pageable
      PROVE  \A r \in Delivered, o \in Owed :
                \/ r.old = o.old /\ o.at > r.at
                \/ r.old /\ ~o.old
                => o \in Delivered
  <2> SUFFICES ASSUME NEW r \in Delivered, NEW o \in Owed,
                      (r.old = o.old /\ o.at > r.at) \/ (r.old /\ ~o.old)
               PROVE  o \in Delivered
    OBVIOUS
  <2>1. ~rotated /\ start <= Len(file)
    BY <1>1, <1>3 DEF Pageable, Apart
  <2>2. o \in [old : BOOLEAN, at : Nat]
    BY <1>1, <2>1, OwedAre
  <2>3. CASE WalkOver
    BY <1>1, <1>3, <2>3 DEF SoFar
  <2>4. CASE inOlder /\ ~o.old
    BY <1>1, <1>3, <2>4 DEF SoFar
  <2>5. CASE ~inOlder /\ r.old
    BY <1>1, <2>1, <2>5 DEF Apart
  <2>6. CASE ~WalkOver /\ r.old = inOlder /\ o.old = inOlder /\ o.at > r.at
    <3>1. r.at \in DOMAIN Current /\ Offset(Current, r.at) >= cursor
      BY <1>1, <2>1, <2>6 DEF Apart
    <3>2. Current \in Seq(Line) /\ cursor \in Nat
      BY <1>1, LogPagesAssumption DEF LogTypeOK, Current, LogPagesAssumption
    <3>3. r.at \in Nat /\ Offset(Current, r.at) \in Nat /\ Offset(Current, r.at) <= r.at
      BY <3>1, <3>2, LogIs DEF Offset
    <3>4. o.at >= cursor
      BY <2>2, <2>6, <3>1, <3>2, <3>3
    <3> QED
      BY <1>1, <1>3, <2>6, <3>4 DEF SoFar
  <2>7. inOlder \in BOOLEAN /\ r.old \in BOOLEAN
    BY <1>1, <1>3 DEF LogTypeOK, Delivered
  <2> QED
    BY <1>3, <2>2, <2>3, <2>4, <2>5, <2>6, <2>7
<1>4. Pageable => (WalkOver => Owed \subseteq Delivered)
  BY <1>1 DEF SoFar
<1> QED
  BY <1>2, <1>3, <1>4 DEF PagesFaithful

(* The logs, the cursor, the hint and the pages keep their types (log_reader.py), *)
(* whatever the lines and however far the log may grow.                        *)
THEOREM LogTypeCorrect == LogSpec => []LogTypeOK
<1>1. LogInv => LogTypeOK
  BY DEF LogInv
<1> QED
  BY <1>1, LogAlways, PTL

(* While nothing is rotated no record is on two pages (log_reader.py, tail and *)
(* _build_hint), however the log grows between them; of a log that can be      *)
(* paged, what has been given is the newest of what the caller is owed, and    *)
(* when the hints end all of it has been given.                                *)
THEOREM PagesFaithfulHolds == LogSpec => []PagesFaithful
BY LogAlways, PagesAre, PTL

Power(d) == 10 ^ d

LEMMA CasesAre ==
    ASSUME NEW c \in Cases
    PROVE  /\ c.cap \in Nat /\ c.cap < Power(9) /\ c.frame \in Nat /\ c.nested \in BOOLEAN
           /\ c.cut \in BOOLEAN /\ c.data \in Seq(Nat) /\ Len(c.data) < Power(9)
           /\ ItemSize \in Nat /\ CountSize \in Nat /\ FieldsSize \in Nat
           /\ c.frame >= CountSize + FieldsSize
<1>1. c \in Case /\ c.frame >= CountSize + FieldsSize /\ c.cap < 10 ^ 9 /\ Len(c.data) < 10 ^ 9
  BY EnvelopeAssumption DEF EnvelopeAssumption
<1>2. ItemSize \in Nat /\ CountSize \in Nat /\ FieldsSize \in Nat
  BY EnvelopeAssumption DEF EnvelopeAssumption
<1>3. c.frame \in Nat
  BY <1>1 DEF Case
<1> QED
  BY <1>1, <1>2, <1>3 DEF Case, Power

(***************************************************************************)
(* Digits.                                                                 *)
(***************************************************************************)
LEMMA Powers ==
    /\ Power(0) = 1 /\ Power(1) = 10 /\ Power(2) = 100 /\ Power(3) = 1000 /\ Power(4) = 10000
    /\ Power(5) = 100000 /\ Power(6) = 1000000 /\ Power(7) = 10000000 /\ Power(8) = 100000000
    /\ Power(9) = 1000000000
BY SMT DEF Power

LEMMA PowersGrow ==
    \A d \in 1 .. 9 :
        /\ Power(d) \in Nat /\ Power(d - 1) \in Nat
        /\ d > 1 => Power(d - 1) + 90 <= Power(d)
        /\ \A e \in 1 .. 9 : d < e => Power(d) <= Power(e - 1)
<1> SUFFICES ASSUME NEW d \in 1 .. 9
             PROVE  /\ Power(d) \in Nat /\ Power(d - 1) \in Nat
                    /\ d > 1 => Power(d - 1) + 90 <= Power(d)
                    /\ \A e \in 1 .. 9 : d < e => Power(d) <= Power(e - 1)
  OBVIOUS
<1>1. d = 1 \/ d = 2 \/ d = 3 \/ d = 4 \/ d = 5 \/ d = 6 \/ d = 7 \/ d = 8 \/ d = 9
  OBVIOUS
<1>2. \A e \in 1 .. 9 : e = 1 \/ e = 2 \/ e = 3 \/ e = 4 \/ e = 5 \/ e = 6 \/ e = 7 \/ e = 8 \/ e = 9
  OBVIOUS
<1>3. Power(d) \in Nat /\ Power(d - 1) \in Nat /\ (d > 1 => Power(d - 1) + 90 <= Power(d))
  BY <1>1, Powers
<1>4. ASSUME NEW e \in 1 .. 9, d < e PROVE Power(d) <= Power(e - 1)
  BY <1>1, <1>2, <1>4, Powers
<1> QED
  BY <1>3, <1>4

LEMMA DigitsAre ==
    ASSUME NEW n \in Nat, n < Power(9)
    PROVE  /\ Digits(n) \in 1 .. 9 /\ n < Power(Digits(n))
           /\ Digits(n) > 1 => n >= Power(Digits(n) - 1)
<1> DEFINE Is(d) == d \in 1 .. 9 /\ n < Power(d) /\ (d > 1 => n >= Power(d - 1))
<1>1. \E d : Is(d)
  <2>1. n < 10 => Is(1)
    BY Powers
  <2>2. n >= 10 /\ n < 100 => Is(2)
    BY Powers
  <2>3. n >= 100 /\ n < 1000 => Is(3)
    BY Powers
  <2>4. n >= 1000 /\ n < 10000 => Is(4)
    BY Powers
  <2>5. n >= 10000 /\ n < 100000 => Is(5)
    BY Powers
  <2>6. n >= 100000 /\ n < 1000000 => Is(6)
    BY Powers
  <2>7. n >= 1000000 /\ n < 10000000 => Is(7)
    BY Powers
  <2>8. n >= 10000000 /\ n < 100000000 => Is(8)
    BY Powers
  <2>9. n >= 100000000 => Is(9)
    BY Powers
  <2> HIDE DEF Is
  <2> QED
    BY <2>1, <2>2, <2>3, <2>4, <2>5, <2>6, <2>7, <2>8, <2>9
<1>2. \E d \in 1 .. 9 : n < 10 ^ d /\ (d > 1 => n >= 10 ^ (d - 1))
  BY <1>1 DEF Power
<1>3. /\ Digits(n) \in 1 .. 9 /\ n < 10 ^ Digits(n)
      /\ Digits(n) > 1 => n >= 10 ^ (Digits(n) - 1)
  BY <1>2, Zenon DEF Digits
<1> QED
  BY <1>3 DEF Power

LEMMA FewerDigits ==
    ASSUME NEW m \in Nat, NEW n \in Nat, m <= n, n < Power(9)
    PROVE  Digits(m) <= Digits(n) /\ m < Power(9)
<1>1. Power(9) \in Nat /\ m < Power(9)
  BY PowersGrow
<1>2. Digits(m) \in 1 .. 9 /\ (Digits(m) > 1 => m >= Power(Digits(m) - 1))
  BY <1>1, DigitsAre
<1>3. Digits(n) \in 1 .. 9 /\ n < Power(Digits(n))
  BY DigitsAre
<1>4. ASSUME Digits(n) < Digits(m) PROVE FALSE
  <2>1. Power(Digits(n)) <= Power(Digits(m) - 1) /\ Power(Digits(n)) \in Nat
        /\ Power(Digits(m) - 1) \in Nat
    BY <1>2, <1>3, <1>4, PowersGrow
  <2> QED
    BY <1>2, <1>3, <1>4, <2>1
<1> QED
  BY <1>1, <1>2, <1>3, <1>4

(* Writing the count and measuring again settles by the third time: no two *)
(* powers of ten lie between numbers that are less than nine apart.        *)
LEMMA CountSettles ==
    ASSUME NEW b \in Nat, NEW cap \in Nat, cap < Power(9), b + Digits(cap) <= cap,
           NEW one, one = b + Digits(cap), NEW two, two = b + Digits(one),
           NEW three, three = b + Digits(two)
    PROVE  three \in Nat /\ three <= cap /\ b + Digits(three) = three
<1>1. Digits(cap) \in 1 .. 9
  BY DigitsAre
<1>2. one \in Nat /\ one <= cap
  BY <1>1
<1>3. Digits(one) \in 1 .. 9 /\ Digits(one) <= Digits(cap) /\ one < Power(9)
  BY <1>2, DigitsAre, FewerDigits
<1>4. two \in Nat /\ two <= one /\ two <= cap
  BY <1>1, <1>2, <1>3
<1>5. Digits(two) \in 1 .. 9 /\ Digits(two) <= Digits(one) /\ two < Power(9)
  BY <1>2, <1>3, <1>4, DigitsAre, FewerDigits
<1>6. three \in Nat /\ three <= two /\ three <= cap
  BY <1>1, <1>2, <1>3, <1>4, <1>5
<1>7. Digits(three) \in 1 .. 9 /\ Digits(three) <= Digits(two) /\ three < Power(9)
  BY <1>4, <1>5, <1>6, DigitsAre, FewerDigits
<1>8. Digits(three) = Digits(two)
  <2> SUFFICES ASSUME Digits(three) < Digits(two) PROVE FALSE
    BY <1>5, <1>7
  <2>1. Digits(two) < Digits(one)
    <3>1. CASE Digits(two) = Digits(one)
      BY <3>1
    <3> QED
      BY <1>3, <1>5, <3>1
  <2>2. one - three < 9
    BY <1>1, <1>5
  <2> DEFINE high == Power(Digits(two))
             low == Power(Digits(two) - 1)
  <2>3. /\ high \in Nat /\ low \in Nat /\ low + 90 <= high
        /\ high <= Power(Digits(one) - 1) /\ Power(Digits(one) - 1) \in Nat
    BY <1>3, <1>5, <1>7, <2>1, PowersGrow
  <2>4. one >= Power(Digits(one) - 1)
    <3>1. Digits(one) > 1
      BY <1>3, <1>5, <2>1
    <3> QED
      BY <1>2, <1>3, <3>1, DigitsAre
  <2>5. three < Power(Digits(three)) /\ Power(Digits(three)) <= low /\ Power(Digits(three)) \in Nat
    BY <1>5, <1>6, <1>7, DigitsAre, PowersGrow
  <2> HIDE DEF high, low
  <2> QED
    BY <1>2, <1>6, <2>2, <2>3, <2>4, <2>5
<1> QED
  BY <1>6, <1>8

(***************************************************************************)
(* Data.                                                                   *)
(***************************************************************************)
(* A finite set of numbers has a greatest one. *)
LEMMA GreatestOf ==
    ASSUME NEW S, IsFiniteSet(S), S \subseteq Nat, S # {}
    PROVE  Max(S) \in S /\ \A y \in S : y <= Max(S)
<1> DEFINE T == {s \in SUBSET S : s = {} \/ \E x \in s : \A y \in s : x >= y}
<1>1. ASSUME NEW s \in SUBSET S, \A t \in SUBSET S : Cardinality(t) < Cardinality(s) => t \in T
      PROVE  s \in T
  <2>1. CASE s = {}
    BY <2>1
  <2>2. CASE s # {}
    <3>1. PICK z \in s : TRUE
      BY <2>2
    <3>2. IsFiniteSet(s)
      BY FS_Subset
    <3>3. s \ {z} \in T
      BY <1>1, <3>2, OneLess
    <3>4. CASE s \ {z} = {}
      <4>1. s = {z} /\ z \in Nat
        BY <3>4
      <4> QED
        BY <4>1
    <3>5. CASE \E x \in s \ {z} : \A y \in s \ {z} : x >= y
      <4>1. PICK x \in s \ {z} : \A y \in s \ {z} : x >= y
        BY <3>5
      <4>2. x \in Nat /\ z \in Nat /\ \A y \in s : y \in Nat /\ (y = z \/ y \in s \ {z})
        OBVIOUS
      <4>3. CASE x >= z
        BY <4>1, <4>2, <4>3
      <4>4. CASE z >= x
        <5>1. \A y \in s : z >= y
          BY <4>1, <4>2, <4>4
        <5> QED
          BY <5>1
      <4> QED
        BY <4>2, <4>3, <4>4
    <3> QED
      BY <3>3, <3>4, <3>5
  <2> QED
    BY <2>1, <2>2
<1> HIDE DEF T
<1>2. S \in T
  BY <1>1, BySize
<1>3. \E x \in S : \A y \in S : x >= y
  BY <1>2 DEF T
<1>4. Max(S) \in S /\ \A y \in S : Max(S) >= y
  BY <1>3 DEF Max
<1> QED
  BY <1>4

(* No longer, and none of its lists longer. *)
Within(some, data) ==
    /\ some \in Seq(Nat) /\ data \in Seq(Nat)
    /\ Len(some) <= Len(data)
    /\ \A i \in 1 .. Len(some) : some[i] <= data[i]

(* None keeps more than one item over another that lost some. *)
Even(some, data) ==
    \A i, j \in DOMAIN some : some[i] < data[i] => some[j] <= some[i] + 1

LEMMA LongestIs ==
    ASSUME NEW data \in Seq(Nat), data # <<>>,
           NEW longest, longest = Max(Range(data)),
           NEW place, place = CHOOSE i \in DOMAIN data :
                                data[i] = longest /\ \A j \in 1 .. (i - 1) : data[j] < longest
    PROVE  /\ longest \in Nat /\ \A j \in DOMAIN data : data[j] <= longest
           /\ place \in DOMAIN data /\ data[place] = longest
<1>1. /\ Len(data) \in Nat /\ DOMAIN data = 1 .. Len(data) /\ Len(data) # 0
      /\ \A i \in DOMAIN data : data[i] \in Nat
  OBVIOUS
<1>2. Range(data) = {data[i] : i \in DOMAIN data}
  BY DEF Range
<1>3. IsFiniteSet(Range(data)) /\ Range(data) \subseteq Nat /\ Range(data) # {}
  <2>1. IsFiniteSet(DOMAIN data)
    BY <1>1, FS_Interval
  <2>2. 1 \in DOMAIN data
    BY <1>1
  <2>3. IsFiniteSet(Range(data))
    <3>1. data \in [DOMAIN data -> Range(data)]
      BY <1>1, <1>2
    <3>2. data \in Surjection(DOMAIN data, Range(data))
      BY <1>2, <3>1 DEF Surjection
    <3> QED
      BY <2>1, <3>2, FS_Surjection
  <2>4. \A y \in Range(data) : y \in Nat
    BY <1>1, <1>2
  <2>5. data[1] \in Range(data)
    BY <1>2, <2>2
  <2> QED
    BY <2>3, <2>4, <2>5
<1>4. longest \in Range(data) /\ \A y \in Range(data) : y <= longest
  BY <1>3, GreatestOf
<1>5. longest \in Nat /\ \A j \in DOMAIN data : data[j] <= longest
  BY <1>2, <1>3, <1>4
<1> DEFINE T == {i \in DOMAIN data : data[i] = longest}
<1>6. T \subseteq Nat /\ T # {}
  <2>1. \E i \in DOMAIN data : data[i] = longest
    BY <1>2, <1>4
  <2>2. DOMAIN data \subseteq Nat
    BY <1>1
  <2> QED
    BY <2>1, <2>2
<1>7. PICK i \in T : \A m \in T : i <= m
  BY <1>6, Least
<1>8. ASSUME NEW j \in 1 .. (i - 1) PROVE data[j] < longest
  <2>1. j \in DOMAIN data /\ j < i /\ i \in Nat
    BY <1>1
  <2>2. j \notin T
    BY <1>7, <2>1
  <2>3. data[j] # longest /\ data[j] <= longest /\ data[j] \in Nat
    BY <1>1, <1>5, <2>1, <2>2
  <2> QED
    BY <1>5, <2>3
<1>9. \E x \in DOMAIN data : data[x] = longest /\ \A j \in 1 .. (x - 1) : data[j] < longest
  BY <1>8
<1>10. place \in DOMAIN data /\ data[place] = longest
  BY <1>9
<1> QED
  BY <1>5, <1>10

(* An item less. *)
LEMMA RemoveOneIs ==
    ASSUME NEW data \in Seq(Nat), NEW nested \in BOOLEAN
    PROVE  /\ Within(RemoveOne(data, nested), data)
           /\ \A all : Even(data, all) => Even(RemoveOne(data, nested), all)
<1> DEFINE longest == Max(Range(data))
           place == CHOOSE i \in DOMAIN data :
                      data[i] = longest /\ \A j \in 1 .. (i - 1) : data[j] < longest
           rest == RemoveOne(data, nested)
<1>1. /\ Len(data) \in Nat /\ DOMAIN data = 1 .. Len(data)
      /\ \A i \in DOMAIN data : data[i] \in Nat
  OBVIOUS
<1>2. Within(data, data)
  BY <1>1 DEF Within
<1>3. rest = IF data = <<>> THEN data
             ELSE IF nested /\ Len(data) >= longest THEN Front(data)
             ELSE IF longest > 0 THEN [data EXCEPT ![place] = @ - 1] ELSE data
  BY DEF RemoveOne
<1>4. CASE data = <<>> \/ rest = data
  BY <1>2, <1>3, <1>4
<1>5. data # <<>> => /\ longest \in Nat /\ \A j \in DOMAIN data : data[j] <= longest
                     /\ place \in DOMAIN data /\ data[place] = longest
  BY LongestIs
<1> HIDE DEF longest, place, rest
<1>6. CASE data # <<>> /\ rest = Front(data)
  <2>1. rest = SubSeq(data, 1, Len(data) - 1) /\ Len(data) # 0
    BY <1>6 DEF Front
  <2>2. /\ rest \in Seq(Nat) /\ Len(rest) = Len(data) - 1 /\ DOMAIN rest = 1 .. Len(data) - 1
        /\ \A i \in 1 .. Len(data) - 1 : rest[i] = data[i]
    BY <1>1, <2>1
  <2>3. \A i \in 1 .. Len(data) - 1 : i \in DOMAIN data /\ rest[i] <= data[i]
    BY <1>1, <2>2
  <2>4. Within(rest, data)
    <3>1. Len(rest) <= Len(data)
      BY <1>1, <2>2
    <3>2. \A i \in 1 .. Len(rest) : rest[i] <= data[i]
      BY <2>2, <2>3
    <3> QED
      BY <2>2, <3>1, <3>2 DEF Within
  <2>5. ASSUME NEW all, Even(data, all) PROVE Even(rest, all)
    <3>1. \A i \in DOMAIN rest : i \in DOMAIN data /\ rest[i] = data[i]
      BY <2>2, <2>3
    <3> QED
      BY <2>5, <3>1 DEF Even
  <2> QED
    BY <2>4, <2>5 DEF rest
<1>7. CASE data # <<>> /\ longest > 0 /\ rest = [data EXCEPT ![place] = @ - 1]
  <2>1. /\ longest \in Nat /\ \A j \in DOMAIN data : data[j] <= longest
        /\ place \in DOMAIN data /\ data[place] = longest
    BY <1>5, <1>7
  <2>2. /\ DOMAIN rest = DOMAIN data /\ rest[place] = longest - 1
        /\ \A i \in DOMAIN data : i # place => rest[i] = data[i]
    BY <1>1, <1>7, <2>1
  <2>3. \A i \in DOMAIN data : rest[i] \in Nat /\ rest[i] <= data[i] /\ rest[i] <= longest
    BY <1>1, <1>7, <2>1, <2>2
  <2>4. rest \in Seq(Nat) /\ Len(rest) = Len(data)
    <3>1. rest \in [1 .. Len(data) -> Nat]
      BY <1>1, <1>7, <2>2, <2>3
    <3> QED
      BY <1>1, <3>1
  <2>5. Within(rest, data)
    <3>1. Len(rest) <= Len(data)
      BY <1>1, <2>4
    <3>2. \A i \in 1 .. Len(rest) : rest[i] <= data[i]
      BY <1>1, <2>3, <2>4
    <3> QED
      BY <2>4, <3>1, <3>2 DEF Within
  <2>6. ASSUME NEW all, Even(data, all), NEW i \in DOMAIN rest, NEW j \in DOMAIN rest,
               rest[i] < all[i]
        PROVE  rest[j] <= rest[i] + 1
    <3>1. CASE i = place
      BY <2>1, <2>2, <2>3, <3>1
    <3>2. CASE i # place
      <4>1. data[i] < all[i] /\ rest[i] = data[i]
        BY <2>2, <2>6, <3>2
      <4>2. data[j] <= data[i] + 1
        BY <2>2, <2>6, <4>1 DEF Even
      <4> QED
        BY <1>1, <2>2, <2>3, <4>1, <4>2
    <3> QED
      BY <3>1, <3>2
  <2> QED
    BY <2>5, <2>6 DEF Even, rest
<1> QED
  BY <1>3, <1>4, <1>6, <1>7 DEF rest

(***************************************************************************)
(* Several items less: one at a time.                                      *)
(***************************************************************************)
LEMMA WithoutFolds ==
    ASSUME NEW c, NEW k \in Nat
    PROVE  \E it : /\ it = (CHOOSE f : f = [s \in SUBSET (1 .. k) |->
                            IF s = {} THEN c.data ELSE RemoveOne(f[s \ {Max(s)}], c.nested)])
                   /\ Without(c, k) = it[1 .. k]
<1>1. DOMAIN [i \in 1 .. k |-> i] = 1 .. k
  OBVIOUS
<1>2. \E it : /\ it = (CHOOSE f : f = [s \in SUBSET DOMAIN [i \in 1 .. k |-> i] |->
                          IF s = {} THEN c.data ELSE RemoveOne(f[s \ {Max(s)}], c.nested)])
              /\ Without(c, k) = it[DOMAIN [i \in 1 .. k |-> i]]
  BY DEF Without, FoldLeft, MapThenFoldSet
<1> QED
  BY <1>1, <1>2

LEMMA WithoutSteps ==
    ASSUME NEW c, c.data \in Seq(Nat), c.nested \in BOOLEAN, NEW k \in Nat
    PROVE  \E g : /\ g[0] = c.data
                  /\ \A n \in 1 .. k : g[n] = RemoveOne(g[n - 1], c.nested)
                  /\ Without(c, k) = g[k]
<1> DEFINE Is(f) == f = [s \in SUBSET (1 .. k) |->
                            IF s = {} THEN c.data ELSE RemoveOne(f[s \ {Max(s)}], c.nested)]
           step == [p \in (1 .. k) \X Seq(Nat) |-> RemoveOne(p[2], c.nested)]
<1>1. \A d \in Seq(Nat) : RemoveOne(d, c.nested) \in Seq(Nat)
  BY RemoveOneIs DEF Within
<1>2. Steps(step, k, Seq(Nat)) /\ \A n \in 1 .. k, d \in Seq(Nat) : step[<<n, d>>] = RemoveOne(d, c.nested)
  BY <1>1 DEF Steps
<1> HIDE DEF step
<1>3. PICK f \in [SUBSET (1 .. k) -> Seq(Nat)] : InOrder(f, c.data, step, k)
  BY <1>2, FoldsInOrder
<1>4. Is(f)
  <2>1. ASSUME NEW s \in SUBSET (1 .. k), s # {}
        PROVE  step[<<Max(s), f[s \ {Max(s)}]>>] = RemoveOne(f[s \ {Max(s)}], c.nested)
    <3>1. Max(s) \in 1 .. k /\ f[s \ {Max(s)}] \in Seq(Nat)
      BY <1>3, <2>1, PrefixesAre
    <3> QED
      BY <1>2, <3>1
  <2> QED
    BY <1>3, <2>1 DEF InOrder
<1>5. PICK it : it = (CHOOSE h : Is(h)) /\ Without(c, k) = it[1 .. k]
  BY WithoutFolds
<1>6. Is(it)
  BY <1>4, <1>5
<1> DEFINE g == [n \in 0 .. k |-> it[1 .. n]]
<1>7. \A s \in SUBSET (1 .. k) :
         it[s] = IF s = {} THEN c.data ELSE RemoveOne(it[s \ {Max(s)}], c.nested)
  BY <1>6
<1> HIDE DEF Is
<1>8. g[0] = c.data /\ g[k] = Without(c, k)
  <2>1. 0 \in 0 .. k /\ k \in 0 .. k
    OBVIOUS
  <2>2. it[1 .. 0] = c.data
    BY <1>7, PrefixesAre
  <2> QED
    BY <1>5, <2>1, <2>2
<1>9. ASSUME NEW n \in 1 .. k PROVE g[n] = RemoveOne(g[n - 1], c.nested)
  <2>1. g[n] = it[1 .. n] /\ g[n - 1] = it[1 .. n - 1]
    BY PrefixesAre
  <2>2. it[1 .. n] = RemoveOne(it[1 .. n - 1], c.nested)
    <3>1. /\ 1 .. n \in SUBSET (1 .. k) /\ 1 .. n # {}
          /\ Max(1 .. n) = n /\ (1 .. n) \ {n} = 1 .. n - 1
      BY PrefixesAre
    <3> QED
      BY <1>7, <3>1
  <2> QED
    BY <2>1, <2>2
<1> HIDE DEF g
<1> QED
  BY <1>8, <1>9

LEMMA WithoutNext ==
    ASSUME NEW c, c.data \in Seq(Nat), c.nested \in BOOLEAN
    PROVE  /\ Without(c, 0) = c.data
           /\ \A k \in Nat : Without(c, k + 1) = RemoveOne(Without(c, k), c.nested)
<1>1. Without(c, 0) = c.data
  BY WithoutSteps
<1>2. ASSUME NEW k \in Nat PROVE Without(c, k + 1) = RemoveOne(Without(c, k), c.nested)
  <2>1. PICK g : /\ g[0] = c.data
                 /\ \A n \in 1 .. k : g[n] = RemoveOne(g[n - 1], c.nested)
                 /\ Without(c, k) = g[k]
    BY WithoutSteps
  <2>2. PICK h : /\ h[0] = c.data
                 /\ \A n \in 1 .. k + 1 : h[n] = RemoveOne(h[n - 1], c.nested)
                 /\ Without(c, k + 1) = h[k + 1]
    <3>1. k + 1 \in Nat
      OBVIOUS
    <3> QED
      BY <3>1, WithoutSteps, Zenon
  <2> DEFINE T == {n \in 0 .. k : g[n] = h[n]}
  <2>3. 0 \in T
    BY <2>1, <2>2
  <2>4. ASSUME NEW n \in 1 .. k, n - 1 \in T PROVE n \in T
    <3>1. n \in 1 .. k + 1 /\ n \in 0 .. k /\ g[n - 1] = h[n - 1]
      BY <2>4
    <3>2. g[n] = RemoveOne(g[n - 1], c.nested) /\ h[n] = RemoveOne(h[n - 1], c.nested)
      BY <2>1, <2>2, <3>1
    <3> QED
      BY <3>1, <3>2
  <2> HIDE DEF T
  <2>5. \A n \in 0 .. k : n \in T
    BY <2>3, <2>4, Upto
  <2>6. h[k + 1] = RemoveOne(h[k], c.nested)
    <3>1. k + 1 \in 1 .. k + 1 /\ (k + 1) - 1 = k
      OBVIOUS
    <3> QED
      BY <2>2, <3>1
  <2> QED
    <3>1. k \in T
      BY <2>5
    <3> QED
      BY <2>1, <2>2, <2>6, <3>1 DEF T
<1> QED
  BY <1>1, <1>2

LEMMA WithinAll ==
    ASSUME NEW a, NEW b, NEW d, Within(a, b), Within(b, d)
    PROVE  Within(a, d)
<1>1. /\ a \in Seq(Nat) /\ b \in Seq(Nat) /\ d \in Seq(Nat)
      /\ Len(a) <= Len(b) /\ Len(b) <= Len(d)
      /\ \A i \in 1 .. Len(a) : a[i] <= b[i]
      /\ \A i \in 1 .. Len(b) : b[i] <= d[i]
  BY DEF Within
<1>2. /\ Len(a) \in Nat /\ \A i \in 1 .. Len(a) : a[i] \in Nat
      /\ Len(b) \in Nat /\ \A i \in 1 .. Len(b) : b[i] \in Nat
      /\ Len(d) \in Nat /\ \A i \in 1 .. Len(d) : d[i] \in Nat
  <2>1. \A s \in Seq(Nat) : Len(s) \in Nat /\ \A i \in 1 .. Len(s) : s[i] \in Nat
    OBVIOUS
  <2> QED
    BY <1>1, <2>1
<1>3. ASSUME NEW i \in 1 .. Len(a) PROVE a[i] <= d[i]
  <2>1. i \in 1 .. Len(b) /\ i \in 1 .. Len(d)
    <3>1. i \in Nat /\ 1 <= i /\ i <= Len(a)
      BY <1>2
    <3>2. i <= Len(b) /\ i <= Len(d)
      BY <1>1, <1>2, <3>1
    <3> QED
      BY <1>2, <3>1, <3>2
  <2>2. a[i] \in Nat /\ b[i] \in Nat /\ d[i] \in Nat
    BY <1>2, <2>1
  <2>3. a[i] <= b[i] /\ b[i] <= d[i]
    BY <1>1, <2>1
  <2> QED
    BY <2>2, <2>3
<1>4. Len(a) <= Len(d)
  BY <1>1, <1>2
<1> QED
  BY <1>1, <1>3, <1>4 DEF Within

(* The more is taken off, the less is left, and what is left is even. *)
LEMMA WithoutIs ==
    ASSUME NEW c, c.data \in Seq(Nat), c.nested \in BOOLEAN
    PROVE  \A k \in Nat : /\ Without(c, k) \in Seq(Nat) /\ Even(Without(c, k), c.data)
                          /\ \A j \in 0 .. k : Within(Without(c, k), Without(c, j))
<1> SUFFICES ASSUME NEW k \in Nat
             PROVE  /\ Without(c, k) \in Seq(Nat) /\ Even(Without(c, k), c.data)
                    /\ \A j \in 0 .. k : Within(Without(c, k), Without(c, j))
  OBVIOUS
<1> DEFINE T == {n \in 0 .. k : /\ Without(c, n) \in Seq(Nat) /\ Even(Without(c, n), c.data)
                                /\ \A j \in 0 .. n : Within(Without(c, n), Without(c, j))}
<1>1. 0 \in T
  <2>1. Without(c, 0) = c.data /\ \A j \in 0 .. 0 : j = 0
    BY WithoutNext
  <2>2. Within(c.data, c.data)
    <3>1. Len(c.data) \in Nat /\ \A i \in 1 .. Len(c.data) : c.data[i] \in Nat
      OBVIOUS
    <3> QED
      BY <3>1 DEF Within
  <2>3. Even(c.data, c.data)
    <3>1. \A i \in DOMAIN c.data : c.data[i] \in Nat
      OBVIOUS
    <3> QED
      BY <3>1 DEF Even
  <2> QED
    BY <2>1, <2>2, <2>3
<1>2. ASSUME NEW n \in 1 .. k, n - 1 \in T PROVE n \in T
  <2> DEFINE before == Without(c, n - 1)
  <2>1. n - 1 \in Nat /\ (n - 1) + 1 = n /\ n \in 0 .. k
    OBVIOUS
  <2>2. Without(c, n) = RemoveOne(before, c.nested)
    BY <2>1, WithoutNext
  <2>3. /\ before \in Seq(Nat) /\ Even(before, c.data)
        /\ \A j \in 0 .. n - 1 : Within(before, Without(c, j))
    BY <1>2
  <2> HIDE DEF before
  <2>4. Within(Without(c, n), before) /\ Even(Without(c, n), c.data)
    BY <2>2, <2>3, RemoveOneIs
  <2>5. Without(c, n) \in Seq(Nat)
    BY <2>4 DEF Within
  <2>6. ASSUME NEW j \in 0 .. n PROVE Within(Without(c, n), Without(c, j))
    <3>1. CASE j = n
      <4>1. Len(Without(c, n)) \in Nat
            /\ \A i \in 1 .. Len(Without(c, n)) : Without(c, n)[i] \in Nat
        BY <2>5
      <4> QED
        BY <2>5, <3>1, <4>1 DEF Within
    <3>2. CASE j # n
      <4>1. j \in 0 .. n - 1
        BY <3>2
      <4> QED
        BY <2>3, <2>4, <4>1, WithinAll
    <3> QED
      BY <3>1, <3>2
  <2> QED
    BY <2>1, <2>4, <2>5, <2>6
<1> HIDE DEF T
<1>3. \A n \in 0 .. k : n \in T
  BY <1>1, <1>2, Upto
<1> QED
  BY <1>3 DEF T

(***************************************************************************)
(* The size of an envelope.                                                *)
(***************************************************************************)
LEMMA ItemsFold ==
    ASSUME NEW data \in Seq(Nat)
    PROVE  \E it : /\ it = (CHOOSE f : f = [s \in SUBSET (1 .. Len(data)) |->
                            IF s = {} THEN 0 ELSE f[s \ {Max(s)}] + data[Max(s)]])
                   /\ Items(data) = it[1 .. Len(data)]
<1>1. DOMAIN data = 1 .. Len(data)
  OBVIOUS
<1>2. \E it : /\ it = (CHOOSE f : f = [s \in SUBSET DOMAIN data |->
                          IF s = {} THEN 0 ELSE f[s \ {Max(s)}] + data[Max(s)]])
              /\ Items(data) = it[DOMAIN data]
  BY DEF Items, FoldLeft, MapThenFoldSet
<1> QED
  BY <1>1, <1>2

LEMMA ItemsSteps ==
    ASSUME NEW data \in Seq(Nat)
    PROVE  \E g : /\ g[0] = 0
                  /\ \A n \in 1 .. Len(data) : g[n] = g[n - 1] + data[n]
                  /\ Items(data) = g[Len(data)]
<1> DEFINE k == Len(data)
           Is(f) == f = [s \in SUBSET (1 .. k) |->
                            IF s = {} THEN 0 ELSE f[s \ {Max(s)}] + data[Max(s)]]
           step == [p \in (1 .. k) \X Nat |-> p[2] + data[p[1]]]
<1>1. k \in Nat /\ \A n \in 1 .. k : data[n] \in Nat
  OBVIOUS
<1>2. Steps(step, k, Nat) /\ \A n \in 1 .. k, t \in Nat : step[<<n, t>>] = t + data[n]
  BY <1>1 DEF Steps
<1>3. \E it : it = (CHOOSE h : Is(h)) /\ Items(data) = it[1 .. k]
  BY ItemsFold
<1> HIDE DEF step, k
<1>4. PICK f \in [SUBSET (1 .. k) -> Nat] : InOrder(f, 0, step, k)
  BY <1>1, <1>2, FoldsInOrder
<1>5. Is(f)
  <2>1. ASSUME NEW s \in SUBSET (1 .. k), s # {}
        PROVE  step[<<Max(s), f[s \ {Max(s)}]>>] = f[s \ {Max(s)}] + data[Max(s)]
    <3>1. Max(s) \in 1 .. k /\ f[s \ {Max(s)}] \in Nat
      BY <1>1, <1>4, <2>1, PrefixesAre
    <3> QED
      BY <1>2, <3>1
  <2> QED
    BY <1>4, <2>1 DEF InOrder
<1>6. PICK it : it = (CHOOSE h : Is(h)) /\ Items(data) = it[1 .. k]
  BY <1>3
<1>7. Is(it)
  BY <1>5, <1>6
<1> DEFINE g == [n \in 0 .. k |-> it[1 .. n]]
<1>8. \A s \in SUBSET (1 .. k) : it[s] = IF s = {} THEN 0 ELSE it[s \ {Max(s)}] + data[Max(s)]
  BY <1>7
<1> HIDE DEF Is
<1>9. g[0] = 0 /\ g[k] = Items(data)
  <2>1. 0 \in 0 .. k /\ k \in 0 .. k
    BY <1>1
  <2>2. it[1 .. 0] = 0
    BY <1>1, <1>8, PrefixesAre
  <2> QED
    BY <1>6, <2>1, <2>2
<1>10. ASSUME NEW n \in 1 .. k PROVE g[n] = g[n - 1] + data[n]
  <2>1. g[n] = it[1 .. n] /\ g[n - 1] = it[1 .. n - 1]
    BY <1>1, PrefixesAre
  <2>2. it[1 .. n] = it[1 .. n - 1] + data[n]
    <3>1. /\ 1 .. n \in SUBSET (1 .. k) /\ 1 .. n # {}
          /\ Max(1 .. n) = n /\ (1 .. n) \ {n} = 1 .. n - 1
      BY <1>1, PrefixesAre
    <3> QED
      BY <1>8, <3>1
  <2> QED
    BY <2>1, <2>2
<1> HIDE DEF g
<1> QED
  BY <1>9, <1>10 DEF k

LEMMA ItemsAre ==
    ASSUME NEW data \in Seq(Nat)
    PROVE  Items(data) \in Nat
<1>1. PICK g : /\ g[0] = 0
               /\ \A n \in 1 .. Len(data) : g[n] = g[n - 1] + data[n]
               /\ Items(data) = g[Len(data)]
  BY ItemsSteps
<1> DEFINE T == {n \in 0 .. Len(data) : g[n] \in Nat}
<1>2. Len(data) \in Nat /\ \A n \in 1 .. Len(data) : data[n] \in Nat
  OBVIOUS
<1>3. 0 \in T
  BY <1>1, <1>2
<1>4. ASSUME NEW n \in 1 .. Len(data), n - 1 \in T PROVE n \in T
  BY <1>1, <1>2, <1>4
<1> HIDE DEF T
<1>5. \A n \in 0 .. Len(data) : n \in T
  BY <1>2, <1>3, <1>4, Upto
<1>6. Len(data) \in T
  BY <1>2, <1>5
<1> QED
  BY <1>1, <1>6 DEF T

(* Fewer or shorter lists have no more items. *)
LEMMA FewerItems ==
    ASSUME NEW some, NEW data, Within(some, data)
    PROVE  Items(some) <= Items(data)
<1>1. /\ some \in Seq(Nat) /\ data \in Seq(Nat) /\ Len(some) <= Len(data)
      /\ \A i \in 1 .. Len(some) : some[i] <= data[i]
  BY DEF Within
<1>2. /\ Len(some) \in Nat /\ Len(data) \in Nat
      /\ \A i \in 1 .. Len(some) : some[i] \in Nat
      /\ \A i \in 1 .. Len(data) : data[i] \in Nat
  BY <1>1
<1>3. PICK g : /\ g[0] = 0
               /\ \A n \in 1 .. Len(some) : g[n] = g[n - 1] + some[n]
               /\ Items(some) = g[Len(some)]
  BY <1>1, ItemsSteps
<1>4. PICK h : /\ h[0] = 0
               /\ \A n \in 1 .. Len(data) : h[n] = h[n - 1] + data[n]
               /\ Items(data) = h[Len(data)]
  BY <1>1, ItemsSteps
<1> DEFINE m == Len(some)
           k == Len(data)
           T == {n \in 0 .. k : h[n] \in Nat /\ IF n <= m THEN g[n] \in Nat /\ g[n] <= h[n]
                                                ELSE g[m] \in Nat /\ g[m] <= h[n]}
<1>5. 0 \in T
  BY <1>2, <1>3, <1>4
<1>6. ASSUME NEW n \in 1 .. k, n - 1 \in T PROVE n \in T
  <2>1. h[n] = h[n - 1] + data[n] /\ data[n] \in Nat /\ h[n - 1] \in Nat /\ n \in 0 .. k
    BY <1>2, <1>4, <1>6
  <2>2. CASE n <= m
    <3>1. n \in 1 .. m /\ n - 1 <= m
      BY <1>2, <2>2
    <3>2. /\ g[n] = g[n - 1] + some[n] /\ some[n] \in Nat /\ some[n] <= data[n]
          /\ g[n - 1] \in Nat /\ g[n - 1] <= h[n - 1]
      BY <1>1, <1>2, <1>3, <1>6, <3>1
    <3>3. g[n] \in Nat /\ g[n] <= h[n] /\ h[n] \in Nat
      BY <2>1, <3>2
    <3> QED
      BY <2>1, <2>2, <3>3
  <2>3. CASE n > m
    <3>1. g[m] \in Nat /\ g[m] <= h[n - 1]
      <4>1. CASE n - 1 <= m
        <5>1. n - 1 = m
          BY <1>2, <2>3, <4>1
        <5> QED
          BY <1>6, <5>1
      <4>2. CASE ~(n - 1 <= m)
        BY <1>6, <4>2
      <4> QED
        BY <4>1, <4>2
    <3>2. g[m] <= h[n] /\ h[n] \in Nat
      BY <2>1, <3>1
    <3> QED
      BY <1>2, <2>1, <2>3, <3>1, <3>2
  <2> QED
    BY <1>2, <2>2, <2>3
<1> HIDE DEF T
<1>7. \A n \in 0 .. k : n \in T
  BY <1>2, <1>5, <1>6, Upto
<1>8. k \in T
  BY <1>2, <1>7
<1>9. CASE k <= m
  <2>1. k = m
    BY <1>1, <1>2, <1>9
  <2> QED
    BY <1>3, <1>4, <1>8, <1>9, <2>1 DEF T
<1>10. CASE ~(k <= m)
  BY <1>3, <1>4, <1>8, <1>10 DEF T
<1> QED
  BY <1>9, <1>10

LEMMA Times == \A a, b, c \in Nat : a * c \in Nat /\ (a <= b => a * c <= b * c)
OBVIOUS

(* The size without the digits of the count. *)
Rest(data, frame) == frame + 2 + 2 * Len(data) + Items(data) * ItemSize

LEMMA EncodedIs ==
    ASSUME NEW data \in Seq(Nat), NEW frame \in Nat, NEW named \in Nat, named < Power(9)
    PROVE  /\ Rest(data, frame) \in Nat /\ Encoded(data, frame, named) \in Nat
           /\ Encoded(data, frame, named) = Rest(data, frame) + Digits(named)
<1>1. Items(data) \in Nat /\ Len(data) \in Nat /\ ItemSize \in Nat
  BY ItemsAre, EnvelopeAssumption DEF EnvelopeAssumption
<1>2. Items(data) * ItemSize \in Nat
  BY <1>1, Times
<1>3. Digits(named) \in 1 .. 9
  BY DigitsAre
<1> DEFINE items == Items(data) * ItemSize
           length == Len(data)
           digits == Digits(named)
<1>4. /\ Encoded(data, frame, named) = frame + digits + 2 + 2 * length + items
      /\ Rest(data, frame) = frame + 2 + 2 * length + items
  BY DEF Rest, Encoded
<1>5. items \in Nat /\ length \in Nat /\ digits \in Nat
  BY <1>1, <1>2, <1>3
<1> HIDE DEF items, length, digits
<1>6. frame + digits + 2 + 2 * length + items = (frame + 2 + 2 * length + items) + digits
  BY <1>5
<1>7. /\ frame + 2 + 2 * length + items \in Nat
      /\ frame + digits + 2 + 2 * length + items \in Nat
  BY <1>5
<1> QED
  BY <1>4, <1>6, <1>7 DEF digits

(* What fits still fits when there is less of it, in a frame no larger. *)
LEMMA LessFits ==
    ASSUME NEW some, NEW data, Within(some, data),
           NEW smaller \in Nat, NEW frame \in Nat, smaller <= frame,
           NEW cap \in Nat, cap < Power(9), Fits(data, frame, cap)
    PROVE  Fits(some, smaller, cap)
<1>1. some \in Seq(Nat) /\ data \in Seq(Nat) /\ Len(some) <= Len(data)
  BY DEF Within
<1>2. Items(some) \in Nat /\ Items(data) \in Nat /\ ItemSize \in Nat
  BY <1>1, ItemsAre, EnvelopeAssumption DEF EnvelopeAssumption
<1>3. Items(some) * ItemSize <= Items(data) * ItemSize
  BY <1>2, Times, FewerItems
<1>4. Items(some) * ItemSize \in Nat /\ Items(data) * ItemSize \in Nat
  BY <1>2, Times
<1>5. Len(some) \in Nat /\ Len(data) \in Nat
  BY <1>1
<1> HIDE DEF Within
<1>6. Rest(some, smaller) <= Rest(data, frame)
  BY <1>1, <1>3, <1>4, <1>5 DEF Rest
<1>7. /\ Rest(some, smaller) \in Nat /\ Rest(data, frame) \in Nat /\ Digits(cap) \in 1 .. 9
      /\ Encoded(some, smaller, cap) = Rest(some, smaller) + Digits(cap)
      /\ Encoded(data, frame, cap) = Rest(data, frame) + Digits(cap)
  BY <1>1, EncodedIs, DigitsAre
<1> QED
  BY <1>6, <1>7 DEF Fits

(***************************************************************************)
(* The frame: the less is returned the shorter its count, and `true` is    *)
(* shorter than `false`.                                                   *)
(***************************************************************************)
LEMMA FrameIs ==
    ASSUME NEW c \in Cases, NEW data \in Seq(Nat), Len(data) < Power(9), NEW cut \in BOOLEAN
    PROVE  /\ Frame(c, data, cut) \in Nat
           /\ Frame(c, data, cut) - CountSize \in Nat
           /\ Frame(c, data, cut) - CountSize - FieldsSize \in Nat
<1>1. /\ c.frame \in Nat /\ CountSize \in Nat /\ FieldsSize \in Nat
      /\ c.frame >= CountSize + FieldsSize
  BY CasesAre
<1>2. Returned(c, data) \in Nat /\ Returned(c, data) < Power(9)
  <2>1. Len(data) \in Nat /\ 1 < Power(9)
    BY Powers
  <2> QED
    BY <2>1 DEF Returned
<1>3. Digits(Returned(c, data)) \in 1 .. 9
  BY <1>2, DigitsAre
<1> DEFINE digits == Digits(Returned(c, data))
           flag == IF cut THEN 4 ELSE 5
<1>4. digits \in Nat /\ flag \in Nat
  BY <1>3
<1>5. Frame(c, data, cut) = c.frame + flag + digits
  BY DEF Frame
<1> HIDE DEF digits, flag
<1> QED
  BY <1>1, <1>4, <1>5

LEMMA FrameShrinks ==
    ASSUME NEW c \in Cases, NEW some, NEW data, Within(some, data), Len(data) < Power(9),
           NEW cut \in BOOLEAN, NEW before \in BOOLEAN, before => cut
    PROVE  Frame(c, some, cut) <= Frame(c, data, before)
<1>1. /\ some \in Seq(Nat) /\ data \in Seq(Nat) /\ Len(some) <= Len(data)
      /\ Len(some) \in Nat /\ Len(data) \in Nat
  BY DEF Within
<1>2. /\ Returned(c, some) \in Nat /\ Returned(c, data) \in Nat
      /\ Returned(c, some) <= Returned(c, data) /\ Returned(c, data) < Power(9)
  BY <1>1, Powers DEF Returned
<1>3. Digits(Returned(c, some)) <= Digits(Returned(c, data)) /\ Returned(c, some) < Power(9)
  BY <1>2, FewerDigits
<1>4. Digits(Returned(c, some)) \in 1 .. 9 /\ Digits(Returned(c, data)) \in 1 .. 9
  BY <1>2, <1>3, DigitsAre
<1>5. c.frame \in Nat
  BY CasesAre
<1> DEFINE less == Digits(Returned(c, some))
           more == Digits(Returned(c, data))
           new == IF cut THEN 4 ELSE 5
           old == IF before THEN 4 ELSE 5
<1>6. less \in Nat /\ more \in Nat /\ less <= more /\ new \in Nat /\ old \in Nat /\ new <= old
  BY <1>3, <1>4
<1>7. Frame(c, some, cut) = c.frame + new + less /\ Frame(c, data, before) = c.frame + old + more
  BY DEF Frame
<1> HIDE DEF less, more, new, old
<1> QED
  BY <1>5, <1>6, <1>7

(* What is left after any removals is a case's data or less. *)
LEMMA WithoutFits ==
    ASSUME NEW c \in Cases, NEW k \in Nat, NEW cut \in BOOLEAN
    PROVE  /\ Without(c, k) \in Seq(Nat) /\ Len(Without(c, k)) < Power(9)
           /\ Frame(c, Without(c, k), cut) \in Nat
<1>1. c.data \in Seq(Nat) /\ c.nested \in BOOLEAN /\ Len(c.data) < Power(9)
  BY CasesAre
<1>2. Without(c, 0) = c.data /\ 0 \in 0 .. k
  BY <1>1, WithoutNext
<1>3. Without(c, k) \in Seq(Nat) /\ Within(Without(c, k), c.data)
  BY <1>1, <1>2, WithoutIs
<1>4. Len(Without(c, k)) <= Len(c.data) /\ Len(Without(c, k)) \in Nat /\ Len(c.data) \in Nat
  BY <1>1, <1>3 DEF Within
<1>5. Power(9) \in Nat
  BY PowersGrow
<1>6. Len(Without(c, k)) < Power(9)
  BY <1>1, <1>4, <1>5
<1> QED
  BY <1>3, <1>6, FrameIs

(* When some removals suffice, so do more. *)
LEMMA SufficeMore ==
    ASSUME NEW c \in Cases, NEW k \in Nat, NEW m \in 0 .. k, Suffice(c, m)
    PROVE  Suffice(c, k)
<1>1. /\ c.data \in Seq(Nat) /\ c.nested \in BOOLEAN /\ c.cut \in BOOLEAN
      /\ c.cap \in Nat /\ c.cap < Power(9)
  BY CasesAre
<1> DEFINE some == Without(c, k)
           data == Without(c, m)
           cut == c.cut \/ k > 0
           before == c.cut \/ m > 0
<1>2. m \in Nat /\ cut \in BOOLEAN /\ before \in BOOLEAN /\ (before => cut)
  BY <1>1
<1>3. Within(some, data)
  BY <1>1, WithoutIs
<1>4. Fits(data, Frame(c, data, before), c.cap)
  BY DEF Suffice
<1>5. Len(data) < Power(9)
  BY <1>2, WithoutFits
<1>6. Frame(c, some, cut) \in Nat /\ Frame(c, data, before) \in Nat
  BY <1>2, WithoutFits
<1> HIDE DEF some, data, cut, before
<1>7. Frame(c, some, cut) <= Frame(c, data, before)
  BY <1>2, <1>3, <1>5, FrameShrinks
<1>8. Fits(some, Frame(c, some, cut), c.cap)
  BY <1>1, <1>3, <1>4, <1>6, <1>7, LessFits
<1> QED
  BY <1>8 DEF Suffice, some, cut

(***************************************************************************)
(* The bisection: below `low` no number of removals is enough, `high` is,  *)
(* and their distance has gone by the time the steps have.                 *)
(***************************************************************************)
Bounds == [low : Nat, high : Nat]

Halved(c, range) ==
    LET middle == (range.low + range.high) \div 2
    IN  IF range.low >= range.high THEN range
        ELSE IF Suffice(c, middle)
             THEN [range EXCEPT !.high = middle]
             ELSE [range EXCEPT !.low = middle + 1]

LEMMA FewestFolds ==
    ASSUME NEW c, Removals(c) \in Nat
    PROVE  \E it : /\ it = (CHOOSE f : f = [s \in SUBSET (1 .. Removals(c)) |->
                            IF s = {} THEN [low |-> 1, high |-> Removals(c)]
                            ELSE Halved(c, f[s \ {Max(s)}])])
                   /\ Fewest(c) = it[1 .. Removals(c)].low
<1>1. DOMAIN [i \in 1 .. Removals(c) |-> i] = 1 .. Removals(c)
  OBVIOUS
<1>2. \E it : /\ it = (CHOOSE f : f = [s \in SUBSET DOMAIN [i \in 1 .. Removals(c) |-> i] |->
                          IF s = {} THEN [low |-> 1, high |-> Removals(c)]
                          ELSE Halved(c, f[s \ {Max(s)}])])
              /\ Fewest(c) = it[DOMAIN [i \in 1 .. Removals(c) |-> i]].low
  BY DEF Fewest, FoldLeft, MapThenFoldSet, Halved
<1> QED
  BY <1>1, <1>2

LEMMA HalvedIs ==
    ASSUME NEW c, NEW range \in Bounds, range.low <= range.high
    PROVE  /\ range.low = range.high => Halved(c, range) = range
           /\ range.low # range.high =>
                 \E middle \in range.low .. range.high - 1 :
                    \/ /\ Suffice(c, middle)
                       /\ Halved(c, range) = [low |-> range.low, high |-> middle]
                    \/ /\ ~Suffice(c, middle)
                       /\ Halved(c, range) = [low |-> middle + 1, high |-> range.high]
<1>1. range.low \in Nat /\ range.high \in Nat /\ range = [low |-> range.low, high |-> range.high]
  BY DEF Bounds
<1>2. CASE range.low = range.high
  BY <1>1, <1>2 DEF Halved
<1>3. CASE range.low # range.high
  <2> DEFINE middle == (range.low + range.high) \div 2
  <2>1. range.low < range.high
    BY <1>1, <1>3
  <2>2. middle \in range.low .. range.high - 1
    BY <1>1, <2>1
  <2>3. Halved(c, range) = IF Suffice(c, middle)
                           THEN [range EXCEPT !.high = middle]
                           ELSE [range EXCEPT !.low = middle + 1]
    <3>1. ~(range.low >= range.high)
      BY <1>1, <2>1
    <3> QED
      BY <3>1 DEF Halved
  <2> HIDE DEF middle
  <2>4. /\ [range EXCEPT !.high = middle] = [low |-> range.low, high |-> middle]
        /\ [range EXCEPT !.low = middle + 1] = [low |-> middle + 1, high |-> range.high]
    BY <1>1
  <2> QED
    BY <1>3, <2>2, <2>3, <2>4
<1> QED
  BY <1>2, <1>3

LEMMA HalvedTypes ==
    ASSUME NEW c, NEW range \in Bounds
    PROVE  Halved(c, range) \in Bounds
<1>1. range.low \in Nat /\ range.high \in Nat
  BY DEF Bounds
<1>2. CASE range.low >= range.high
  BY <1>2 DEF Halved
<1>3. CASE ~(range.low >= range.high)
  <2>1. range.low <= range.high /\ range.low # range.high
    BY <1>1, <1>3
  <2>2. PICK middle \in range.low .. range.high - 1 :
           \/ Halved(c, range) = [low |-> range.low, high |-> middle]
           \/ Halved(c, range) = [low |-> middle + 1, high |-> range.high]
    BY <2>1, HalvedIs
  <2>3. middle \in Nat
    BY <1>1
  <2> QED
    BY <1>1, <2>2, <2>3 DEF Bounds
<1> QED
  BY <1>2, <1>3

LEMMA FewestSteps ==
    ASSUME NEW c, Removals(c) \in Nat
    PROVE  \E g : /\ g[0] = [low |-> 1, high |-> Removals(c)]
                  /\ \A n \in 1 .. Removals(c) : g[n] = Halved(c, g[n - 1])
                  /\ Fewest(c) = g[Removals(c)].low
<1> DEFINE k == Removals(c)
           whole == [low |-> 1, high |-> k]
           Is(f) == f = [s \in SUBSET (1 .. k) |->
                            IF s = {} THEN whole ELSE Halved(c, f[s \ {Max(s)}])]
           step == [p \in (1 .. k) \X Bounds |-> Halved(c, p[2])]
<1>1. k \in Nat /\ whole \in Bounds
  BY DEF Bounds
<1>2. Steps(step, k, Bounds) /\ \A n \in 1 .. k, r \in Bounds : step[<<n, r>>] = Halved(c, r)
  BY HalvedTypes DEF Steps
<1>3. \E it : it = (CHOOSE h : Is(h)) /\ Fewest(c) = it[1 .. k].low
  BY FewestFolds
<1> HIDE DEF step, k, whole
<1>4. PICK f \in [SUBSET (1 .. k) -> Bounds] : InOrder(f, whole, step, k)
  BY <1>1, <1>2, FoldsInOrder
<1>5. Is(f)
  <2>1. ASSUME NEW s \in SUBSET (1 .. k), s # {}
        PROVE  step[<<Max(s), f[s \ {Max(s)}]>>] = Halved(c, f[s \ {Max(s)}])
    <3>1. Max(s) \in 1 .. k /\ f[s \ {Max(s)}] \in Bounds
      BY <1>1, <1>4, <2>1, PrefixesAre
    <3> QED
      BY <1>2, <3>1
  <2> QED
    BY <1>4, <2>1 DEF InOrder
<1>6. PICK it : it = (CHOOSE h : Is(h)) /\ Fewest(c) = it[1 .. k].low
  BY <1>3
<1>7. Is(it)
  BY <1>5, <1>6
<1> DEFINE g == [n \in 0 .. k |-> it[1 .. n]]
<1>8. \A s \in SUBSET (1 .. k) : it[s] = IF s = {} THEN whole ELSE Halved(c, it[s \ {Max(s)}])
  BY <1>7
<1> HIDE DEF Is
<1>9. g[0] = whole /\ g[k].low = Fewest(c)
  <2>1. 0 \in 0 .. k /\ k \in 0 .. k
    BY <1>1
  <2>2. it[1 .. 0] = whole
    BY <1>1, <1>8, PrefixesAre
  <2> QED
    BY <1>6, <2>1, <2>2
<1>10. ASSUME NEW n \in 1 .. k PROVE g[n] = Halved(c, g[n - 1])
  <2>1. g[n] = it[1 .. n] /\ g[n - 1] = it[1 .. n - 1]
    BY <1>1, PrefixesAre
  <2>2. it[1 .. n] = Halved(c, it[1 .. n - 1])
    <3>1. /\ 1 .. n \in SUBSET (1 .. k) /\ 1 .. n # {}
          /\ Max(1 .. n) = n /\ (1 .. n) \ {n} = 1 .. n - 1
      BY <1>1, PrefixesAre
    <3> QED
      BY <1>8, <3>1
  <2> QED
    BY <2>1, <2>2
<1> HIDE DEF g
<1> QED
  BY <1>9, <1>10 DEF k, whole

LEMMA FewestIs ==
    ASSUME NEW c \in Cases, Removals(c) \in Nat, Removals(c) > 0,
           Suffice(c, Removals(c))
    PROVE  /\ Fewest(c) \in 1 .. Removals(c)
           /\ Suffice(c, Fewest(c))
           /\ \A k \in 1 .. Fewest(c) - 1 : ~Suffice(c, k)
<1> DEFINE R == Removals(c)
           Enough(k) == Suffice(c, k)
           Search(range, n) ==
              /\ range \in Bounds /\ 1 <= range.low /\ range.low <= range.high /\ range.high <= R
              /\ Enough(range.high) /\ \A k \in 1 .. range.low - 1 : ~Enough(k)
              /\ range.low = range.high \/ range.high - range.low + n <= R - 1
<1>1. ASSUME NEW k \in Nat, NEW m \in 0 .. k, Enough(m) PROVE Enough(k)
  BY <1>1, SufficeMore
<1>2. PICK g : /\ g[0] = [low |-> 1, high |-> R]
               /\ \A n \in 1 .. R : g[n] = Halved(c, g[n - 1])
               /\ Fewest(c) = g[R].low
  BY FewestSteps
<1>3. R \in Nat /\ R > 0 /\ Enough(R)
  OBVIOUS
<1>4. \A range \in Bounds : range.low \in Nat /\ range.high \in Nat
  BY DEF Bounds
<1>5. ASSUME NEW range, NEW n \in Nat, Search(range, n)
      PROVE  Search(Halved(c, range), n + 1)
  <2>1. range.low \in Nat /\ range.high \in Nat /\ range.low <= range.high /\ range \in Bounds
    BY <1>4, <1>5
  <2>2. CASE range.low = range.high
    <3>1. Halved(c, range) = range
      BY <2>1, <2>2, HalvedIs
    <3> QED
      BY <1>5, <2>2, <3>1
  <2>3. CASE range.low # range.high
    <3>1. PICK middle \in range.low .. range.high - 1 :
             \/ /\ Enough(middle)
                /\ Halved(c, range) = [low |-> range.low, high |-> middle]
             \/ /\ ~Enough(middle)
                /\ Halved(c, range) = [low |-> middle + 1, high |-> range.high]
      BY <2>1, <2>3, HalvedIs
    <3>2. middle \in Nat /\ middle + 1 <= range.high /\ range.low <= middle
      BY <2>1
    <3>3. /\ 1 <= range.low /\ range.high <= R /\ range.high - range.low + n <= R - 1
          /\ Enough(range.high) /\ \A k \in 1 .. range.low - 1 : ~Enough(k)
      BY <1>5, <2>3
    <3> HIDE DEF R, Enough
    <3>4. CASE Enough(middle) /\ Halved(c, range) = [low |-> range.low, high |-> middle]
      <4> DEFINE new == [low |-> range.low, high |-> middle]
      <4>1. new \in Bounds /\ new.low = range.low /\ new.high = middle
        BY <2>1, <3>2 DEF Bounds
      <4>2. middle <= R /\ middle - range.low + (n + 1) <= R - 1
        BY <1>3, <2>1, <3>2, <3>3
      <4> HIDE DEF new
      <4>3. Search(new, n + 1)
        BY <3>2, <3>3, <3>4, <4>1, <4>2
      <4> QED
        BY <3>4, <4>3 DEF new
    <3>5. CASE ~Enough(middle) /\ Halved(c, range) = [low |-> middle + 1, high |-> range.high]
      <4> DEFINE new == [low |-> middle + 1, high |-> range.high]
      <4>1. new \in Bounds /\ new.low = middle + 1 /\ new.high = range.high
        BY <2>1, <3>2 DEF Bounds
      <4>2. 1 <= middle + 1 /\ range.high - (middle + 1) + (n + 1) <= R - 1
        BY <1>3, <2>1, <3>2, <3>3
      <4>3. ASSUME NEW k \in 1 .. (middle + 1) - 1 PROVE ~Enough(k)
        <5>1. k \in Nat /\ k \in 0 .. middle
          BY <3>2
        <5> QED
          BY <1>1, <3>2, <3>5, <5>1
      <4> HIDE DEF new
      <4>4. Search(new, n + 1)
        BY <3>2, <3>3, <4>1, <4>2, <4>3
      <4> QED
        BY <3>5, <4>4 DEF new
    <3> QED
      BY <3>1, <3>4, <3>5
  <2> QED
    BY <2>2, <2>3
<1> DEFINE T == {n \in 0 .. R : Search(g[n], n)}
<1>6. 0 \in T
  <2> DEFINE first == [low |-> 1, high |-> R]
  <2>1. first \in Bounds /\ first.low = 1 /\ first.high = R
    BY <1>3 DEF Bounds
  <2> HIDE DEF first, R, Enough
  <2>2. Search(first, 0)
    BY <1>3, <2>1
  <2> QED
    BY <1>2, <1>3, <2>2 DEF first
<1>7. ASSUME NEW n \in 1 .. R, n - 1 \in T PROVE n \in T
  <2>1. n - 1 \in Nat /\ (n - 1) + 1 = n /\ n \in 0 .. R /\ Search(g[n - 1], n - 1)
    BY <1>3, <1>7
  <2> HIDE DEF Search
  <2>2. Search(Halved(c, g[n - 1]), n)
    BY <1>5, <2>1
  <2> QED
    BY <1>2, <2>1, <2>2
<1> HIDE DEF T, Search
<1>8. \A n \in 0 .. R : n \in T
  BY <1>3, <1>6, <1>7, Upto
<1>9. Search(g[R], R)
  BY <1>3, <1>8 DEF T
<1> HIDE DEF R, Enough
<1>10. /\ g[R].low \in Nat /\ g[R].high \in Nat /\ g[R].low = g[R].high
       /\ 1 <= g[R].low /\ g[R].high <= R /\ Enough(g[R].high)
       /\ \A k \in 1 .. g[R].low - 1 : ~Enough(k)
  BY <1>3, <1>4, <1>9 DEF Search
<1> QED
  BY <1>2, <1>3, <1>10 DEF R, Enough

LEMMA RemovalsAre == ASSUME NEW c \in Cases PROVE Removals(c) \in Nat
<1>1. c.data \in Seq(Nat) /\ c.nested \in BOOLEAN
  BY CasesAre
<1>2. Len(c.data) \in Nat /\ Items(c.data) \in Nat
  BY <1>1, ItemsAre
<1>3. (IF c.nested THEN Len(c.data) ELSE 0) \in Nat
  BY <1>2
<1> QED
  BY <1>2, <1>3 DEF Removals

(***************************************************************************)
(* The byte count.                                                         *)
(***************************************************************************)
Rewrites(f, data, frame, cap) ==
    f = [s \in SUBSET (1 .. 3) |-> IF s = {} THEN cap ELSE Encoded(data, frame, f[s \ {Max(s)}])]

LEMMA MeasuredFolds ==
    ASSUME NEW data, NEW frame, NEW cap, NEW g, Rewrites(g, data, frame, cap)
    PROVE  \E it : Rewrites(it, data, frame, cap) /\ Measured(data, frame, cap) = it[1 .. 3]
<1>1. DOMAIN <<1, 2, 3>> = 1 .. 3
  OBVIOUS
<1>2. \E it : /\ it = (CHOOSE f : f = [s \in SUBSET DOMAIN <<1, 2, 3>> |->
                          IF s = {} THEN cap ELSE Encoded(data, frame, f[s \ {Max(s)}])])
              /\ Measured(data, frame, cap) = it[DOMAIN <<1, 2, 3>>]
  BY DEF Measured, FoldLeft, MapThenFoldSet
<1>3. PICK it : /\ it = (CHOOSE f : f = [s \in SUBSET (1 .. 3) |->
                          IF s = {} THEN cap ELSE Encoded(data, frame, f[s \ {Max(s)}])])
                /\ Measured(data, frame, cap) = it[1 .. 3]
  BY <1>1, <1>2
<1>4. Rewrites(it, data, frame, cap)
  BY <1>3 DEF Rewrites
<1> QED
  BY <1>3, <1>4

(* What fits with the budget as its count fits with any smaller one. *)
LEMMA SmallerCount ==
    ASSUME NEW data \in Seq(Nat), NEW frame \in Nat, NEW cap \in Nat, cap < Power(9),
           Fits(data, frame, cap), NEW named \in 0 .. cap
    PROVE  Encoded(data, frame, named) \in 0 .. cap
<1>1. named \in Nat /\ named <= cap
  OBVIOUS
<1>2. named < Power(9) /\ Digits(named) <= Digits(cap)
  BY <1>1, FewerDigits
<1>3. /\ Rest(data, frame) \in Nat /\ Encoded(data, frame, named) \in Nat
      /\ Encoded(data, frame, named) = Rest(data, frame) + Digits(named)
      /\ Encoded(data, frame, cap) = Rest(data, frame) + Digits(cap)
      /\ Digits(named) \in 1 .. 9 /\ Digits(cap) \in 1 .. 9
  BY <1>1, <1>2, EncodedIs, DigitsAre
<1>4. Rest(data, frame) + Digits(cap) <= cap
  BY <1>3 DEF Fits
<1>5. Encoded(data, frame, named) <= cap
  <2> DEFINE total == Encoded(data, frame, named)
             body == Rest(data, frame)
             ten == Digits(named)
             most == Digits(cap)
  <2>1. total = body + ten /\ body + most <= cap /\ ten <= most
        /\ body \in Nat /\ ten \in Nat /\ most \in Nat
    BY <1>2, <1>3, <1>4
  <2> HIDE DEF total, body, ten, most
  <2>2. total <= cap
    BY <2>1
  <2> QED
    BY <2>2 DEF total
<1> QED
  BY <1>3, <1>5

LEMMA MeasuredSteps ==
    ASSUME NEW data \in Seq(Nat), NEW frame \in Nat, NEW cap \in Nat, cap < Power(9),
           Fits(data, frame, cap)
    PROVE  Measured(data, frame, cap) =
              Encoded(data, frame, Encoded(data, frame, Encoded(data, frame, cap)))
<1> DEFINE R == 0 .. cap
           step == [p \in (1 .. 3) \X R |-> Encoded(data, frame, p[2])]
<1>1. \A d \in R : Encoded(data, frame, d) \in R
  BY SmallerCount
<1>2. Steps(step, 3, R) /\ \A n \in 1 .. 3, d \in R : step[<<n, d>>] = Encoded(data, frame, d)
  BY <1>1 DEF Steps
<1>3. cap \in R /\ 3 \in Nat
  OBVIOUS
<1> HIDE DEF step, R
<1>4. PICK f \in [SUBSET (1 .. 3) -> R] : InOrder(f, cap, step, 3)
  BY <1>2, <1>3, FoldsInOrder
<1>5. Rewrites(f, data, frame, cap)
  <2>1. ASSUME NEW s \in SUBSET (1 .. 3), s # {}
        PROVE  step[<<Max(s), f[s \ {Max(s)}]>>] = Encoded(data, frame, f[s \ {Max(s)}])
    <3>1. Max(s) \in 1 .. 3 /\ f[s \ {Max(s)}] \in R
      BY <1>3, <1>4, <2>1, PrefixesAre
    <3> QED
      BY <1>2, <3>1
  <2> QED
    BY <1>4, <2>1 DEF InOrder, Rewrites
<1>6. PICK it : Rewrites(it, data, frame, cap) /\ Measured(data, frame, cap) = it[1 .. 3]
  BY <1>5, MeasuredFolds
<1>7. \A s \in SUBSET (1 .. 3) : it[s] = IF s = {} THEN cap ELSE Encoded(data, frame, it[s \ {Max(s)}])
  BY <1>6 DEF Rewrites
<1>8. it[1 .. 0] = cap
  BY <1>3, <1>7, PrefixesAre
<1>9. ASSUME NEW n \in 1 .. 3 PROVE it[1 .. n] = Encoded(data, frame, it[1 .. n - 1])
  <2>1. /\ 1 .. n \in SUBSET (1 .. 3) /\ 1 .. n # {}
        /\ Max(1 .. n) = n /\ (1 .. n) \ {n} = 1 .. n - 1
    BY <1>3, PrefixesAre
  <2> QED
    BY <1>7, <2>1
<1>10. /\ it[1 .. 1] = Encoded(data, frame, it[1 .. 0])
       /\ it[1 .. 2] = Encoded(data, frame, it[1 .. 1])
       /\ it[1 .. 3] = Encoded(data, frame, it[1 .. 2])
  <2>1. 1 \in 1 .. 3 /\ 2 \in 1 .. 3 /\ 3 \in 1 .. 3 /\ 1 - 1 = 0 /\ 2 - 1 = 1 /\ 3 - 1 = 2
    OBVIOUS
  <2> QED
    BY <1>9, <2>1
<1> QED
  BY <1>6, <1>8, <1>10

(* The count that is written is the size, and within the budget. *)
LEMMA MeasuredIs ==
    ASSUME NEW data \in Seq(Nat), NEW frame \in Nat, NEW cap \in Nat, cap < Power(9),
           Fits(data, frame, cap)
    PROVE  /\ Measured(data, frame, cap) \in Nat /\ Measured(data, frame, cap) <= cap
           /\ Encoded(data, frame, Measured(data, frame, cap)) = Measured(data, frame, cap)
<1> DEFINE one == Encoded(data, frame, cap)
           two == Encoded(data, frame, one)
           three == Encoded(data, frame, two)
<1>1. Measured(data, frame, cap) = three
  BY MeasuredSteps
<1>2. cap \in 0 .. cap
  OBVIOUS
<1>3. one \in 0 .. cap
  BY <1>2, SmallerCount
<1>4. two \in 0 .. cap
  BY <1>3, SmallerCount
<1>5. three \in 0 .. cap
  BY <1>4, SmallerCount
<1> DEFINE b == Rest(data, frame)
<1> HIDE DEF one, two, three
<1>6. \A n \in 0 .. cap : n \in Nat /\ n < Power(9)
  <2>1. Power(9) \in Nat
    BY PowersGrow
  <2> QED
    BY <2>1
<1>7. b \in Nat /\ \A n \in 0 .. cap : Encoded(data, frame, n) = b + Digits(n)
  BY <1>6, EncodedIs
<1> HIDE DEF b
<1>8. one = b + Digits(cap) /\ two = b + Digits(one) /\ three = b + Digits(two)
  BY <1>2, <1>3, <1>4, <1>7 DEF one, two, three
<1>9. b + Digits(cap) <= cap
  BY <1>8 DEF Fits, one
<1>10. three \in Nat /\ three <= cap /\ b + Digits(three) = three
  BY <1>7, <1>8, <1>9, CountSettles
<1> QED
  BY <1>1, <1>5, <1>7, <1>10

(***************************************************************************)
(* Answers.                                                                *)
(***************************************************************************)
Typed(sent) ==
    /\ sent.data \in Seq(Nat) /\ sent.named \in Nat /\ sent.size \in Nat
    /\ sent.truncated \in BOOLEAN /\ sent.outcome \in {"none", "sent", "failed"}

LEMMA SentIs ==
    ASSUME NEW c \in Cases, NEW data \in Seq(Nat), NEW frame \in Nat, Fits(data, frame, c.cap),
           NEW truncated \in BOOLEAN
    PROVE  LET sent == Sent(c, data, frame, truncated)
           IN  /\ Typed(sent) /\ sent.outcome = "sent" /\ sent.data = data
               /\ sent.truncated = truncated /\ sent.named = sent.size /\ sent.size <= c.cap
<1> DEFINE named == Measured(data, frame, c.cap)
<1>1. c.cap \in Nat /\ c.cap < Power(9)
  BY CasesAre
<1>2. named \in Nat /\ named <= c.cap /\ Encoded(data, frame, named) = named
  BY <1>1, MeasuredIs
<1>3. Sent(c, data, frame, truncated) =
         [data |-> data, named |-> named, size |-> Encoded(data, frame, named),
          truncated |-> truncated, outcome |-> "sent"]
  BY DEF Sent
<1> HIDE DEF named
<1> QED
  BY <1>2, <1>3 DEF Typed

(* What CutFairly says of an answer, of a case and what was made of it. *)
Fair(c, sent) ==
    LET sufficient == {k \in 0 .. Removals(c) : Suffice(c, k)}
        barest == Frame(c, <<>>, TRUE) - CountSize - FieldsSize
    IN  /\ sent.outcome = "sent" =>
              /\ sent.named = sent.size /\ sent.size <= c.cap
              /\ sent.data # <<>> => Even(sent.data, c.data)
        /\ sent.outcome = "sent" /\ sufficient # {} =>
              /\ sent.data = Without(c, Min(sufficient))
              /\ sent.truncated <=> c.cut \/ Min(sufficient) > 0
        /\ sent.outcome = "failed" => sufficient = {} /\ ~Fits(<<>>, barest, c.cap)

LEMMA FittedFair ==
    ASSUME NEW c \in Cases
    PROVE  Typed(Fitted(c)) /\ Fair(c, Fitted(c))
<1> DEFINE R == Removals(c)
           sufficient == {k \in 0 .. R : Suffice(c, k)}
           enough == R > 0 /\ Suffice(c, R)
           reduced == Without(c, Fewest(c))
           bare == Frame(c, <<>>, TRUE) - CountSize
           barest == bare - FieldsSize
<1>1. /\ c.cap \in Nat /\ c.cap < Power(9) /\ c.nested \in BOOLEAN /\ c.cut \in BOOLEAN
      /\ c.data \in Seq(Nat) /\ Len(c.data) < Power(9)
  BY CasesAre
<1>2. R \in Nat
  BY RemovalsAre
<1>3. Without(c, 0) = c.data
  BY <1>1, WithoutNext
<1>4. \A k \in Nat : Without(c, k) \in Seq(Nat) /\ Even(Without(c, k), c.data)
  BY <1>1, WithoutIs
<1>5. <<>> \in Seq(Nat) /\ bare \in Nat /\ barest \in Nat
  <2>1. <<>> \in Seq(Nat) /\ Len(<<>>) < Power(9)
    BY Powers
  <2> QED
    BY <2>1, FrameIs
<1>6. Fitted(c) = IF Suffice(c, 0) THEN Sent(c, c.data, Frame(c, c.data, c.cut), c.cut)
                  ELSE IF enough THEN Sent(c, reduced, Frame(c, reduced, TRUE), TRUE)
                  ELSE IF Fits(<<>>, bare, c.cap) THEN Sent(c, <<>>, bare, TRUE)
                  ELSE IF Fits(<<>>, barest, c.cap) THEN Sent(c, <<>>, barest, TRUE)
                  ELSE [Unsent EXCEPT !.outcome = "failed"]
  BY DEF Fitted
<1>7. sufficient \subseteq Nat /\ \A k \in sufficient : k \in 0 .. R
  OBVIOUS
<1>8. ~Suffice(c, 0) /\ ~enough => sufficient = {}
  <2> SUFFICES ASSUME ~Suffice(c, 0), ~enough, NEW k \in sufficient PROVE FALSE
    OBVIOUS
  <2>1. k \in 0 .. R /\ Suffice(c, k)
    OBVIOUS
  <2>2. Suffice(c, R)
    BY <1>2, <2>1, SufficeMore
  <2>3. R = 0
    BY <1>2, <2>2
  <2>4. k = 0
    BY <2>1, <2>3
  <2> QED
    BY <2>1, <2>4
<1>9. CASE Suffice(c, 0)
  <2> DEFINE frame == Frame(c, c.data, c.cut)
             sent == Sent(c, c.data, frame, c.cut)
  <2>1. Fitted(c) = sent
    BY <1>6, <1>9
  <2>2. frame \in Nat
    BY <1>1, FrameIs
  <2>3. Fits(c.data, frame, c.cap)
    <3>1. (c.cut \/ 0 > 0) <=> c.cut
      OBVIOUS
    <3>2. Frame(c, c.data, c.cut \/ 0 > 0) = frame
      BY <3>1 DEF Frame
    <3> QED
      BY <1>3, <1>9, <3>2 DEF Suffice
  <2> HIDE DEF frame
  <2>4. /\ Typed(sent) /\ sent.outcome = "sent" /\ sent.data = c.data
        /\ sent.truncated = c.cut /\ sent.named = sent.size /\ sent.size <= c.cap
    BY <1>1, <2>2, <2>3, SentIs
  <2>5. 0 \in sufficient
    BY <1>2, <1>9
  <2>6. Min(sufficient) \in sufficient /\ \A y \in sufficient : Min(sufficient) <= y
    BY <1>7, <2>5, MinIs
  <2>7. Min(sufficient) = 0
    BY <1>2, <2>5, <2>6
  <2>8. Even(c.data, c.data)
    BY <1>3, <1>4
  <2> HIDE DEF sent, sufficient
  <2>9. sent.data = Without(c, Min(sufficient)) /\ (sent.truncated <=> c.cut \/ Min(sufficient) > 0)
    <3>1. ~(Min(sufficient) > 0)
      BY <2>7
    <3> QED
      BY <1>3, <2>4, <2>7, <3>1, Zenon
  <2>10. Fair(c, sent)
    BY <2>4, <2>8, <2>9 DEF Fair, sufficient
  <2> QED
    BY <2>1, <2>4, <2>10
<1>10. CASE ~Suffice(c, 0) /\ enough
  <2> DEFINE F == Fewest(c)
             data == Without(c, F)
             frame == Frame(c, data, TRUE)
             sent == Sent(c, data, frame, TRUE)
  <2>1. Fitted(c) = sent
    BY <1>6, <1>10
  <2>2. F \in 1 .. R /\ Suffice(c, F) /\ \A k \in 1 .. F - 1 : ~Suffice(c, k)
    BY <1>2, <1>10, FewestIs
  <2>3. F \in Nat /\ F > 0 /\ F \in sufficient
    BY <1>2, <2>2
  <2>4. data \in Seq(Nat) /\ Even(data, c.data) /\ frame \in Nat
    BY <1>4, <2>3, WithoutFits
  <2>5. Fits(data, frame, c.cap)
    <3>1. (c.cut \/ F > 0) <=> TRUE
      BY <2>3
    <3>2. Frame(c, data, c.cut \/ F > 0) = frame
      BY <3>1 DEF Frame
    <3> QED
      BY <2>2, <3>2 DEF Suffice
  <2>6. Min(sufficient) \in sufficient /\ \A y \in sufficient : Min(sufficient) <= y
    BY <1>7, <2>3, MinIs
  <2>7. Min(sufficient) = F
    <3>1. Min(sufficient) # 0
      BY <1>10, <2>6
    <3>2. Min(sufficient) \notin 1 .. F - 1
      BY <2>2, <2>6
    <3>3. Min(sufficient) \in Nat /\ Min(sufficient) <= F
      BY <2>3, <2>6
    <3> QED
      BY <2>3, <3>1, <3>2, <3>3
  <2> HIDE DEF F, frame, sufficient
  <2>8. /\ Typed(sent) /\ sent.outcome = "sent" /\ sent.data = data
        /\ sent.truncated = TRUE /\ sent.named = sent.size /\ sent.size <= c.cap
    BY <1>1, <2>4, <2>5, SentIs
  <2> HIDE DEF sent
  <2>9. sent.data = Without(c, Min(sufficient)) /\ (sent.truncated <=> c.cut \/ Min(sufficient) > 0)
    <3>1. Min(sufficient) > 0
      BY <2>3, <2>7
    <3> QED
      BY <2>7, <2>8, <3>1
  <2>10. Fair(c, sent)
    BY <2>4, <2>8, <2>9 DEF Fair, sufficient
  <2> QED
    BY <2>1, <2>8, <2>10
<1>11. ASSUME ~Suffice(c, 0), ~enough, NEW frame \in Nat, Fits(<<>>, frame, c.cap),
              Fitted(c) = Sent(c, <<>>, frame, TRUE)
       PROVE  Typed(Fitted(c)) /\ Fair(c, Fitted(c))
  <2> DEFINE sent == Sent(c, <<>>, frame, TRUE)
  <2>1. /\ Typed(sent) /\ sent.outcome = "sent" /\ sent.data = <<>>
        /\ sent.named = sent.size /\ sent.size <= c.cap
    BY <1>5, <1>11, SentIs
  <2>2. sufficient = {}
    BY <1>8, <1>11
  <2> HIDE DEF sent, sufficient
  <2>3. Fair(c, sent)
    BY <2>1, <2>2 DEF Fair, sufficient
  <2> QED
    BY <1>11, <2>1, <2>3 DEF sent
<1>12. CASE ~Suffice(c, 0) /\ ~enough /\ ~Fits(<<>>, bare, c.cap) /\ ~Fits(<<>>, barest, c.cap)
  <2>1. Fitted(c) = [Unsent EXCEPT !.outcome = "failed"]
    BY <1>6, <1>12
  <2>2. /\ Fitted(c).data = <<>> /\ Fitted(c).named = 0 /\ Fitted(c).size = 0
        /\ Fitted(c).truncated = FALSE /\ Fitted(c).outcome = "failed"
    BY <2>1 DEF Unsent
  <2>3. sufficient = {}
    BY <1>8, <1>12
  <2> DEFINE sent == Fitted(c)
  <2> HIDE DEF sent
  <2>4. Typed(sent)
    <3>1. /\ sent.data = <<>> /\ sent.named = 0 /\ sent.size = 0
          /\ sent.truncated = FALSE /\ sent.outcome = "failed"
      BY <2>2 DEF sent
    <3>2. sent.data \in Seq(Nat)
      BY <1>5, <3>1
    <3>3. sent.named \in Nat /\ sent.size \in Nat
      BY <3>1
    <3>4. sent.truncated \in BOOLEAN /\ sent.outcome \in {"none", "sent", "failed"}
      BY <3>1, Zenon
    <3> QED
      BY <3>2, <3>3, <3>4 DEF Typed
  <2> HIDE DEF sufficient
  <2>5. Fair(c, sent)
    BY <1>12, <2>2, <2>3 DEF Fair, sufficient, sent
  <2> QED
    BY <2>4, <2>5 DEF sent
<1> HIDE DEF enough, reduced, bare, barest
<1>13. CASE ~Suffice(c, 0) /\ ~enough /\ Fits(<<>>, bare, c.cap)
  <2>1. Fitted(c) = Sent(c, <<>>, bare, TRUE)
    BY <1>6, <1>13
  <2> QED
    BY <1>5, <1>11, <1>13, <2>1
<1>14. CASE ~Suffice(c, 0) /\ ~enough /\ ~Fits(<<>>, bare, c.cap) /\ Fits(<<>>, barest, c.cap)
  <2>1. Fitted(c) = Sent(c, <<>>, barest, TRUE)
    BY <1>6, <1>14
  <2> QED
    BY <1>5, <1>11, <1>14, <2>1
<1> QED
  BY <1>9, <1>10, <1>12, <1>13, <1>14

(***************************************************************************)
(* The invariant: no answer yet, or the one of the case.                   *)
(***************************************************************************)
EnvelopeInv == case \in Cases /\ (envelope = Unsent \/ envelope = Fitted(case))

LEMMA EnvelopeMeans == EnvelopeInv => EnvelopeTypeOK /\ CutFairly
<1> SUFFICES ASSUME EnvelopeInv PROVE EnvelopeTypeOK /\ CutFairly
  OBVIOUS
<1>1. case \in Cases
  BY DEF EnvelopeInv
<1>2. Typed(envelope) /\ Fair(case, envelope)
  <2>1. CASE envelope = Unsent
    BY <2>1 DEF Unsent, Typed, Fair
  <2>2. CASE envelope = Fitted(case)
    BY <1>1, <2>2, FittedFair
  <2> QED
    BY <2>1, <2>2 DEF EnvelopeInv
<1>3. EnvelopeTypeOK
  BY <1>2 DEF Typed, EnvelopeTypeOK
<1>4. SizeTrue
  BY <1>2 DEF Fair, SizeTrue
<1>5. EvenlyCut
  BY <1>2 DEF Fair, EvenlyCut, Even
<1>6. FewestWithheld
  BY <1>2 DEF Fair, FewestWithheld
<1> QED
  BY <1>3, <1>4, <1>5, <1>6 DEF CutFairly

LEMMA EnvelopeInitially == EnvelopeInit => EnvelopeInv
BY DEF EnvelopeInit, EnvelopeInv

LEMMA EnvelopeStep == EnvelopeInv /\ [Answer]_envelopeVars => EnvelopeInv'
BY DEF EnvelopeInv, Answer, envelopeVars

LEMMA EnvelopeAlways == EnvelopeSpec => []EnvelopeInv
BY EnvelopeInitially, EnvelopeStep, PTL DEF EnvelopeSpec

(* An answer has data, a size and the size it names (dynamic_serialization.py, *)
(* fit_json_envelope), whatever the budgets, the frames and the data.          *)
THEOREM EnvelopeTypeCorrect == EnvelopeSpec => []EnvelopeTypeOK
BY EnvelopeAlways, EnvelopeMeans, PTL

(* Every answer is within its budget and names the size it has with that name  *)
(* in it; what is left of several lists is even; and no item is withheld that  *)
(* there was room for.  The byte count that _set_measured_bytes writes three   *)
(* times has settled by then, and the bisection of fit_json_envelope ends at   *)
(* the fewest removals, for every size of item and every data.                 *)
THEOREM CutFairlyHolds == EnvelopeSpec => []CutFairly
BY EnvelopeAlways, EnvelopeMeans, PTL
================================================================================
