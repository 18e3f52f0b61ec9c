-------------------------- MODULE ClassificationProofs --------------------------
(***************************************************************************)
(* What a command needs, by its name and scopes (CommandPolicy) and by its *)
(* arguments (Preflight).                                                  *)
(***************************************************************************)
EXTENDS CommandPolicy, Preflight, FoldTheorems

(***************************************************************************)
(* The classification of a command: a read column is never a mutating one, *)
(* and of several scopes the least one counts.                             *)
(***************************************************************************)
Operations == {"read", "control", "write", "system"}

LEMMA Ranks ==
    Rank("read") = 1 /\ Rank("control") = 2 /\ Rank("write") = 3 /\ Rank("system") = 4
BY DEF Rank, OperationOrder

LEMMA WeakestIs ==
    ASSUME NEW ops, ops \subseteq Operations, ops # {}
    PROVE  Weakest(ops) \in ops /\ \A p \in ops : Rank(Weakest(ops)) <= Rank(p)
<1>1. \E o \in ops : \A p \in ops : Rank(o) <= Rank(p)
  <2>1. \A o \in ops : Rank(o) \in 1 .. 4
    BY Ranks DEF Operations
  <2>2. CASE "read" \in ops
    BY <2>1, <2>2, Ranks
  <2>3. CASE "read" \notin ops /\ "control" \in ops
    BY <2>3, Ranks DEF Operations
  <2>4. CASE ops \cap {"read", "control"} = {} /\ "write" \in ops
    BY <2>4, Ranks DEF Operations
  <2>5. CASE ops \cap {"read", "control", "write"} = {}
    <3>1. "system" \in ops /\ \A p \in ops : p = "system"
      BY <2>5 DEF Operations
    <3> QED
      BY <3>1, Ranks
  <2> QED
    BY <2>2, <2>3, <2>4, <2>5
<1> QED
  BY <1>1 DEF Weakest

(* No column but the first leads to a read capability. *)
ReadsOnlyToRead(f) == \A o \in DOMAIN f.columns : o # "read" => f.columns[o] \notin ReadCapability

LEMMA FamilyColumns == \A f \in FamilyPolicies : ReadsOnlyToRead(f)
<1>1. \A p : ReadsOnlyToRead(Family(p, PlaylistColumns))
  BY DEF ReadsOnlyToRead, Family, PlaylistColumns, ReadCapability
<1>2. \A p : ReadsOnlyToRead(Family(p, [read |-> "query:library", write |-> "edit:favorites",
                                      delete |-> "delete:favorites"]))
  BY DEF ReadsOnlyToRead, Family, ReadCapability
<1>3. \A p : ReadsOnlyToRead(Family(p, [read |-> "query:library", control |-> "control:media",
                                      write |-> "edit:library", delete |-> "delete:library"]))
  BY DEF ReadsOnlyToRead, Family, ReadCapability
<1>4. \A p : /\ ReadsOnlyToRead(Family(p, [control |-> "control:volume"]))
             /\ ReadsOnlyToRead(Family(p, [control |-> "control:players"]))
  BY DEF ReadsOnlyToRead, Family, ReadCapability
<1>5. \A p : ReadsOnlyToRead(Family(p, [read |-> "query:players", control |-> "control:playback",
                                      delete |-> "control:playback"]))
  BY DEF ReadsOnlyToRead, Family, ReadCapability
<1>6. \A p : ReadsOnlyToRead(Family(p, [read |-> "query:queue", control |-> "edit:queue",
                                      write |-> "edit:queue", delete |-> "delete:queue"]))
  BY DEF ReadsOnlyToRead, Family, ReadCapability
<1>7. \A p : /\ ReadsOnlyToRead(Family(p, ConfigColumns("config:write:provider")))
             /\ ReadsOnlyToRead(Family(p, ConfigColumns("config:write:core")))
             /\ ReadsOnlyToRead(Family(p, ConfigColumns("config:write:player")))
  BY DEF ReadsOnlyToRead, Family, ConfigColumns, ReadCapability
<1>8. \A p, c : ReadsOnlyToRead(Family(p, [read |-> c])) /\ ReadsOnlyToRead(ReadonlyFamily(p, c))
  BY DEF ReadsOnlyToRead, Family, ReadonlyFamily
<1> HIDE DEF PlaylistColumns
<1> QED
  BY <1>1, <1>2, <1>3, <1>4, <1>5, <1>6, <1>7, <1>8 DEF FamilyPolicies

(* What no read column of a scope leads to. *)
Written ==
    {"control:players", "edit:queue", "delete:queue", "edit:library", "delete:library",
     "config:write:player", "config:write:provider", "config:write:core", "system:admin"}

LEMMA MappedColumns ==
    ASSUME NEW scope, Mapped(scope)
    PROVE  /\ RightOperation(scope) \in Operations
           /\ RightOperation(scope) \in DOMAIN ScopeColumns(scope)
           /\ DOMAIN ScopeColumns(scope) \subseteq {RightOperation(scope), "delete"}
           /\ \A o \in DOMAIN ScopeColumns(scope) :
                 o # "read" => ScopeColumns(scope)[o] \notin ReadCapability
<1>1. RightOperation(scope) \in Operations
  BY DEF Mapped, ScopeColumns, RightOperation, Operations
<1>2. RightOperation(scope) \in DOMAIN ScopeColumns(scope)
  BY DEF Mapped, ScopeColumns, RightOperation
<1>3. DOMAIN ScopeColumns(scope) \subseteq {RightOperation(scope), "delete"}
  BY DEF Mapped, ScopeColumns, RightOperation
<1>4. \A o \in DOMAIN ScopeColumns(scope) : o # "read" => ScopeColumns(scope)[o] \in Written
  BY DEF Mapped, ScopeColumns, Written
<1>5. Written \cap ReadCapability = {}
  BY DEF Written, ReadCapability
<1> QED
  BY <1>1, <1>2, <1>3, <1>4, <1>5

(* The first column of a scope's family is the right the scope gives. *)
LEMMA FirstIsRight ==
    ASSUME NEW scope, Mapped(scope)
    PROVE  FirstOperation(ScopeColumns(scope)) = RightOperation(scope)
<1>1. DOMAIN ScopeColumns(scope) \ {"delete"} = {RightOperation(scope)}
  BY MappedColumns DEF Operations
<1>2. {RightOperation(scope)} \subseteq Operations
  BY MappedColumns
<1> QED
  BY <1>1, <1>2, WeakestIs DEF FirstOperation

LEMMA RightIs == \A scope : RightOperation(scope) \in Operations \cup {"none"}
BY DEF RightOperation, Operations

LEMMA ScopeOperationIs ==
    ASSUME NEW scopes
    PROVE  LET rights == {RightOperation(scopes[i]) : i \in DOMAIN scopes} \ {"none"}
           IN  /\ rights = {} => ScopeOperation(scopes) = "none"
               /\ rights # {} => /\ ScopeOperation(scopes) \in rights
                                 /\ \A p \in rights : Rank(ScopeOperation(scopes)) <= Rank(p)
<1> DEFINE rights == {RightOperation(scopes[i]) : i \in DOMAIN scopes} \ {"none"}
<1>1. rights \subseteq Operations
  BY RightIs
<1>2. ScopeOperation(scopes) = IF rights = {} THEN "none" ELSE Weakest(rights)
  BY DEF ScopeOperation
<1> HIDE DEF rights
<1>3. /\ rights = {} => ScopeOperation(scopes) = "none"
      /\ rights # {} => /\ ScopeOperation(scopes) \in rights
                        /\ \A p \in rights : Rank(ScopeOperation(scopes)) <= Rank(p)
  BY <1>1, <1>2, WeakestIs
<1> QED
  BY <1>3 DEF rights

(* A sole scope has its own right. *)
LEMMA SoleScope ==
    ASSUME NEW scope
    PROVE  ScopeOperation(<<scope>>) = RightOperation(scope)
<1> DEFINE rights == {RightOperation(<<scope>>[i]) : i \in DOMAIN <<scope>>} \ {"none"}
<1>1. rights = {RightOperation(scope)} \ {"none"}
  OBVIOUS
<1>2. /\ rights = {} => ScopeOperation(<<scope>>) = "none"
      /\ rights # {} => ScopeOperation(<<scope>>) \in rights
  BY ScopeOperationIs
<1> HIDE DEF rights
<1> QED
  BY <1>1, <1>2

LEMMA SoleFamily ==
    ASSUME NEW scope, Mapped(scope)
    PROVE  ScopeFamily(<<scope>>) = ScopeColumns(scope)
<1> DEFINE first(i) == Rank(FirstOperation(ScopeColumns(<<scope>>[i])))
           weakest == {i \in DOMAIN <<scope>> : \A j \in DOMAIN <<scope>> : first(i) <= first(j)}
           chosen == CHOOSE i \in weakest : \A j \in weakest : i <= j
<1>1. DOMAIN <<scope>> = {1} /\ <<scope>>[1] = scope /\ <<scope>> # <<>>
  OBVIOUS
<1>2. first(1) \in 1 .. 4
  BY <1>1, FirstIsRight, MappedColumns, Ranks DEF Operations
<1>3. weakest = {1}
  BY <1>1, <1>2
<1>4. chosen = 1
  BY <1>3
<1>5. ScopeFamily(<<scope>>) = ScopeColumns(<<scope>>[chosen])
  BY <1>1 DEF ScopeFamily
<1> QED
  BY <1>1, <1>4, <1>5

(* The columns of several scopes are those of a scope with the least right. *)
LEMMA ScopeFamilyIs ==
    ASSUME NEW scopes \in Seq(STRING \X STRING), ScopeFamily(scopes) # <<>>
    PROVE  \E i \in DOMAIN scopes :
               /\ ScopeFamily(scopes) = ScopeColumns(scopes[i])
               /\ \A j \in DOMAIN scopes :
                     /\ Mapped(scopes[j])
                     /\ Rank(RightOperation(scopes[i])) <= Rank(RightOperation(scopes[j]))
<1> DEFINE first(i) == Rank(FirstOperation(ScopeColumns(scopes[i])))
           weakest == {i \in DOMAIN scopes : \A j \in DOMAIN scopes : first(i) <= first(j)}
           chosen == CHOOSE i \in weakest : \A j \in weakest : i <= j
<1>1. /\ scopes # <<>> /\ \A j \in DOMAIN scopes : Mapped(scopes[j])
      /\ ScopeFamily(scopes) = ScopeColumns(scopes[chosen])
  BY DEF ScopeFamily
<1>2. \A i \in DOMAIN scopes : /\ first(i) = Rank(RightOperation(scopes[i]))
                               /\ first(i) \in 1 .. 4
  BY <1>1, FirstIsRight, MappedColumns, Ranks DEF Operations
<1> HIDE DEF first
<1>3. weakest # {}
  <2> DEFINE T == {first(i) : i \in DOMAIN scopes}
  <2>1. 1 \in DOMAIN scopes
    BY <1>1
  <2>2. T \subseteq Nat /\ first(1) \in T
    BY <1>2, <2>1
  <2> HIDE DEF T
  <2>3. PICK n \in T : \A m \in T : n <= m
    BY <2>2, Least
  <2> QED
    BY <2>3 DEF T
<1>4. weakest \subseteq Nat
  OBVIOUS
<1> HIDE DEF weakest
<1>5. chosen \in weakest
  BY <1>3, <1>4, Least
<1> HIDE DEF chosen
<1> QED
  BY <1>1, <1>2, <1>5 DEF weakest

-------------------------------------------------------------------------------

PolicyInv ==
    /\ request \in [command : Registered, scopes : Scopes, override : Overrides]
    /\ decision \in {Undecided, Resolve(request)}

LEMMA PolicyInitially == PolicyInit => PolicyInv
BY DEF PolicyInit, PolicyInv

LEMMA PolicyStep == PolicyInv /\ [Decide]_policyVars => PolicyInv'
BY DEF PolicyInv, Decide, policyVars

LEMMA PolicyAlways == PolicySpec => []PolicyInv
BY PolicyInitially, PolicyStep, PTL DEF PolicySpec

(* How one request was decided. *)
LEMMA Decided ==
    ASSUME NEW r, Resolve(r).needs # {}
    PROVE  \/ r.command \in DOMAIN Exact /\ Resolve(r) = Exact[r.command]
           \/ Resolve(r) = Needs("system:admin", "system")
           \/ \E f \in FamilyPolicies : Resolve(r) = FamilyDecision(r, f)
           \/ Resolve(r) = ScopeFallback(r)
<1>1. MatchingFamily(r.command) \subseteq FamilyPolicies
  BY DEF MatchingFamily
<1> QED
  BY <1>1 DEF Resolve, NeverAllowed

(***************************************************************************)
(* Types: what has an operation of its own needs something, and nothing    *)
(* else does.                                                              *)
(***************************************************************************)
Columns(columns) == DOMAIN columns \subseteq Operations \cup {"delete"}

Coherent(d) ==
    /\ d.operation \in Operations \cup {"none", "delete"}
    /\ d.operation # "none" <=> d.needs # {}

LEMMA FamilyTypes == \A f \in FamilyPolicies : Columns(f.columns)
<1> USE DEF Columns, Family, Operations
<1>1. \A p : Columns(Family(p, PlaylistColumns).columns)
  BY DEF PlaylistColumns
<1>2. \A p : Columns(Family(p, [read |-> "query:library", write |-> "edit:favorites",
                               delete |-> "delete:favorites"]).columns)
  OBVIOUS
<1>3. \A p : Columns(Family(p, [read |-> "query:library", control |-> "control:media",
                               write |-> "edit:library", delete |-> "delete:library"]).columns)
  OBVIOUS
<1>4. \A p, c : Columns(Family(p, [control |-> c]).columns)
  OBVIOUS
<1>5. \A p : Columns(Family(p, [read |-> "query:players", control |-> "control:playback",
                               delete |-> "control:playback"]).columns)
  OBVIOUS
<1>6. \A p : Columns(Family(p, [read |-> "query:queue", control |-> "edit:queue",
                               write |-> "edit:queue", delete |-> "delete:queue"]).columns)
  OBVIOUS
<1>7. \A p, w : Columns(Family(p, ConfigColumns(w)).columns)
  BY DEF ConfigColumns
<1>8. \A p, c : /\ Columns(Family(p, [read |-> c]).columns)
                /\ Columns(ReadonlyFamily(p, c).columns)
  BY DEF ReadonlyFamily
<1> HIDE DEF Columns, Family, Operations
<1> QED
  BY <1>1, <1>2, <1>3, <1>4, <1>5, <1>6, <1>7, <1>8 DEF FamilyPolicies

LEMMA OperationIs ==
    ASSUME NEW r, r.override \in Overrides, NEW columns, Columns(columns), NEW readonly \in BOOLEAN
    PROVE  Operation(r, columns, readonly) \in Operations \cup {"delete"}
<1>1. r.override # "none" => r.override \in Operations
  BY PolicyAssumption DEF PolicyAssumption, Operations
<1>2. ScopeOperation(r.scopes) # "none" => ScopeOperation(r.scopes) \in Operations
  <2> DEFINE rights == {RightOperation(r.scopes[i]) : i \in DOMAIN r.scopes} \ {"none"}
  <2>1. rights \subseteq Operations
    BY RightIs
  <2>2. /\ rights = {} => ScopeOperation(r.scopes) = "none"
        /\ rights # {} => ScopeOperation(r.scopes) \in rights
    BY ScopeOperationIs
  <2> HIDE DEF rights
  <2> QED
    BY <2>1, <2>2
<1>3. Cardinality(DOMAIN columns) = 1 =>
         (CHOOSE o \in DOMAIN columns : TRUE) \in Operations \cup {"delete"}
  <2> SUFFICES ASSUME Cardinality(DOMAIN columns) = 1
               PROVE  (CHOOSE o \in DOMAIN columns : TRUE) \in Operations \cup {"delete"}
    OBVIOUS
  <2>1. DOMAIN columns # {}
    BY FS_EmptySet
  <2>2. (CHOOSE o \in DOMAIN columns : TRUE) \in DOMAIN columns
    BY <2>1
  <2> QED
    BY <2>2 DEF Columns
<1>4. "read" \in Operations /\ "system" \in Operations
  BY DEF Operations
<1> DEFINE sole == CHOOSE o \in DOMAIN columns : TRUE
<1>5. \/ Operation(r, columns, readonly) \in {"read", "delete", "system"}
      \/ r.override # "none" /\ Operation(r, columns, readonly) = r.override
      \/ /\ ScopeOperation(r.scopes) # "none"
         /\ Operation(r, columns, readonly) = ScopeOperation(r.scopes)
      \/ Cardinality(DOMAIN columns) = 1 /\ Operation(r, columns, readonly) = sole
  BY DEF Operation
<1> HIDE DEF sole
<1> QED
  BY <1>1, <1>2, <1>3, <1>4, <1>5 DEF sole

LEMMA NeedsIs == \A c, o : o \in Operations \cup {"delete"} => Coherent(Needs(c, o))
BY DEF Needs, Coherent, Operations

LEMMA ResolveIs ==
    ASSUME NEW r \in [command : Registered, scopes : Scopes, override : Overrides]
    PROVE  Coherent(Resolve(r))
<1>1. Coherent(NeverAllowed)
  BY DEF NeverAllowed, Coherent, Operations
<1>2. ASSUME r.command \in DOMAIN Exact PROVE Coherent(Exact[r.command])
  BY <1>2, PolicyAssumption DEF PolicyAssumption, Coherent, Operations
<1>3. Coherent(Needs("system:admin", "system"))
  BY NeedsIs DEF Operations
<1>4. ASSUME NEW f \in FamilyPolicies PROVE Coherent(FamilyDecision(r, f))
  <2> DEFINE operation == Operation(r, f.columns, f.readonly)
  <2>1. \/ operation \in DOMAIN f.columns
           /\ FamilyDecision(r, f) = Needs(f.columns[operation], operation)
        \/ operation = "delete" /\ FamilyDecision(r, f) = Needs(f.columns["write"], operation)
        \/ FamilyDecision(r, f) = NeverAllowed
    BY DEF FamilyDecision
  <2> HIDE DEF operation
  <2>2. operation \in DOMAIN f.columns => operation \in Operations \cup {"delete"}
    BY FamilyTypes DEF Columns
  <2> QED
    BY <1>1, <2>1, <2>2, NeedsIs
<1>5. Coherent(ScopeFallback(r))
  <2> DEFINE columns == ScopeFamily(r.scopes)
             operation == Operation(r, columns, FALSE)
  <2>1. \/ columns # <<>> /\ ScopeFallback(r) = Needs(columns[operation], operation)
        \/ /\ columns # <<>>
           /\ ScopeFallback(r) = Needs(columns[FirstOperation(columns)], operation)
        \/ ScopeFallback(r) = NeverAllowed
    BY DEF ScopeFallback
  <2>2. columns # <<>> => Columns(columns)
    <3>1. r.scopes \in Seq(STRING \X STRING)
      BY PolicyAssumption DEF PolicyAssumption
    <3>2. columns # <<>> => \E scope : Mapped(scope) /\ columns = ScopeColumns(scope)
      BY <3>1, ScopeFamilyIs
    <3> QED
      BY <3>2, MappedColumns DEF Columns
  <2>3. columns # <<>> => operation \in Operations \cup {"delete"}
    BY <2>2, OperationIs
  <2> HIDE DEF columns, operation
  <2> QED
    BY <1>1, <2>1, <2>3, NeedsIs
<1>6. MatchingFamily(r.command) \subseteq FamilyPolicies
  BY DEF MatchingFamily
<1>7. \/ Resolve(r) = NeverAllowed
      \/ r.command \in DOMAIN Exact /\ Resolve(r) = Exact[r.command]
      \/ Resolve(r) = Needs("system:admin", "system")
      \/ \E f \in FamilyPolicies : Resolve(r) = FamilyDecision(r, f)
      \/ Resolve(r) = ScopeFallback(r)
  BY <1>6 DEF Resolve
<1> QED
  BY <1>1, <1>2, <1>3, <1>4, <1>5, <1>7

LEMMA PolicyTypes == PolicyInv => PolicyTypeOK
<1> SUFFICES ASSUME PolicyInv PROVE PolicyTypeOK
  OBVIOUS
<1>1. Range(OperationOrder) = Operations
  <2>1. DOMAIN OperationOrder = {1, 2, 3, 4}
    BY DEF OperationOrder
  <2>2. /\ OperationOrder[1] = "read" /\ OperationOrder[2] = "control"
        /\ OperationOrder[3] = "write" /\ OperationOrder[4] = "system"
    BY DEF OperationOrder
  <2> QED
    BY <2>1, <2>2 DEF Range, Operations
<1>2. request \in [command : Registered, scopes : Scopes, override : Overrides]
  BY DEF PolicyInv
<1>3. CASE decision = Undecided
  BY <1>1, <1>2, <1>3 DEF Undecided, PolicyTypeOK
<1>4. CASE decision = Resolve(request)
  <2>1. Coherent(decision)
    BY <1>2, <1>4, ResolveIs
  <2>2. "undecided" \notin Operations \cup {"none", "delete"}
    BY DEF Operations
  <2> QED
    BY <1>1, <1>2, <2>1, <2>2 DEF Coherent, PolicyTypeOK
<1> QED
  BY <1>3, <1>4 DEF PolicyInv

(* A decision has an operation, and needs something exactly when it is one   *)
(* that can be done (command_policy.py, resolve_command_policy), for every   *)
(* command, every sequence of scopes and every override.                     *)
THEOREM PolicyTypeCorrect == PolicySpec => []PolicyTypeOK
BY PolicyAlways, PolicyTypes, PTL

Mutating == {"control", "write", "delete", "system"}

LEMMA FamilyNeverReads ==
    ASSUME NEW r, NEW f \in FamilyPolicies, FamilyDecision(r, f).operation \in Mutating
    PROVE  FamilyDecision(r, f).needs \cap ReadCapability = {}
<1> DEFINE operation == Operation(r, f.columns, f.readonly)
<1>1. \/ operation \in DOMAIN f.columns
         /\ FamilyDecision(r, f) = Needs(f.columns[operation], operation)
      \/ "write" \in DOMAIN f.columns
         /\ FamilyDecision(r, f) = Needs(f.columns["write"], operation)
      \/ FamilyDecision(r, f) = NeverAllowed
  BY DEF FamilyDecision
<1> HIDE DEF operation
<1> QED
  BY <1>1, FamilyColumns DEF ReadsOnlyToRead, Needs, NeverAllowed, Mutating

LEMMA FallbackNeverReads ==
    ASSUME NEW r, r.scopes \in Seq(STRING \X STRING), ScopeFallback(r).operation \in Mutating
    PROVE  ScopeFallback(r).needs \cap ReadCapability = {}
<1> DEFINE columns == ScopeFamily(r.scopes)
           operation == Operation(r, columns, FALSE)
           first == FirstOperation(columns)
<1>1. \/ columns # <<>> /\ operation \in DOMAIN columns
         /\ ScopeFallback(r) = Needs(columns[operation], operation)
      \/ columns # <<>> /\ (operation = "read" \/ first # "read")
         /\ ScopeFallback(r) = Needs(columns[first], operation)
      \/ ScopeFallback(r) = NeverAllowed
  BY DEF ScopeFallback
<1>2. columns # <<>> => \E scope : Mapped(scope) /\ columns = ScopeColumns(scope)
  BY ScopeFamilyIs
<1>3. columns # <<>> => /\ first \in DOMAIN columns
                       /\ \A o \in DOMAIN columns : o # "read" => columns[o] \notin ReadCapability
  BY <1>2, FirstIsRight, MappedColumns
<1> HIDE DEF columns, operation, first
<1> QED
  BY <1>1, <1>3 DEF Needs, NeverAllowed, Mutating

(* A command that may change something never needs a read capability only.   *)
THEOREM ReadNeverMutatesHolds == PolicySpec => []ReadNeverMutates
<1>1. ASSUME PolicyInv PROVE ReadNeverMutates
  <2> SUFFICES ASSUME decision.operation \in Mutating, request.command \notin DOMAIN Exact,
                      decision.needs # {}
               PROVE  decision.needs \cap ReadCapability = {}
    BY DEF ReadNeverMutates, Mutating
  <2>1. decision = Resolve(request)
    BY <1>1 DEF PolicyInv, Undecided
  <2>2. request.scopes \in Seq(STRING \X STRING)
    BY <1>1, PolicyAssumption DEF PolicyInv
  <2>3. CASE decision = Needs("system:admin", "system")
    BY <2>3 DEF Needs, ReadCapability
  <2> QED
    BY <2>1, <2>2, <2>3, Decided, FamilyNeverReads, FallbackNeverReads
<1> QED
  BY <1>1, PolicyAlways, PTL

(* Of several scopes one decides, and none gives a lesser right. *)
LEMMA WeakestScope ==
    ASSUME NEW scopes \in Seq(STRING \X STRING), scopes # <<>>
    PROVE  \E i \in DOMAIN scopes :
               /\ RightOperation(scopes[i]) = ScopeOperation(scopes)
               /\ \A j \in DOMAIN scopes :
                     RightOperation(scopes[j]) # "none" =>
                         /\ RightOperation(scopes[i]) # "none"
                         /\ Rank(RightOperation(scopes[i])) <= Rank(RightOperation(scopes[j]))
<1> DEFINE rights == {RightOperation(scopes[i]) : i \in DOMAIN scopes} \ {"none"}
<1>1. CASE rights = {}
  <2>1. \A i \in DOMAIN scopes : RightOperation(scopes[i]) = "none"
    BY <1>1
  <2>2. 1 \in DOMAIN scopes
    OBVIOUS
  <2>3. ScopeOperation(scopes) = "none"
    BY <1>1, ScopeOperationIs
  <2> QED
    BY <2>1, <2>2, <2>3
<1>2. CASE rights # {}
  <2>1. /\ ScopeOperation(scopes) \in rights
        /\ \A p \in rights : Rank(ScopeOperation(scopes)) <= Rank(p)
    BY <1>2, ScopeOperationIs
  <2> QED
    BY <2>1
<1> QED
  BY <1>1, <1>2

(* The scope with the least right decides alone as all of them do. *)
LEMMA OneScopeDecides ==
    ASSUME NEW r \in [command : Registered, scopes : Scopes, override : Overrides],
           Resolve(r).needs # {}, r.scopes # <<>>
    PROVE  \E i \in DOMAIN r.scopes :
               /\ Resolve(r) = Resolve([r EXCEPT !.scopes = <<r.scopes[i]>>])
               /\ \A j \in DOMAIN r.scopes :
                     RightOperation(r.scopes[j]) # "none" =>
                         /\ RightOperation(r.scopes[i]) # "none"
                         /\ Rank(RightOperation(r.scopes[i])) <= Rank(RightOperation(r.scopes[j]))
<1> DEFINE alone(i) == [r EXCEPT !.scopes = <<r.scopes[i]>>]
<1>1. r.scopes \in Seq(STRING \X STRING)
  BY PolicyAssumption
<1>2. \A i : /\ alone(i).command = r.command /\ alone(i).override = r.override
             /\ alone(i).scopes = <<r.scopes[i]>>
  OBVIOUS
<1>3. PICK w \in DOMAIN r.scopes :
          /\ RightOperation(r.scopes[w]) = ScopeOperation(r.scopes)
          /\ \A j \in DOMAIN r.scopes :
                RightOperation(r.scopes[j]) # "none" =>
                    /\ RightOperation(r.scopes[w]) # "none"
                    /\ Rank(RightOperation(r.scopes[w])) <= Rank(RightOperation(r.scopes[j]))
  BY <1>1, WeakestScope
<1> HIDE DEF alone
(* The operation is the one of any scope with the least right. *)
<1>4. ASSUME NEW i, RightOperation(r.scopes[i]) = ScopeOperation(r.scopes)
      PROVE  \A columns, readonly :
                 Operation(alone(i), columns, readonly) = Operation(r, columns, readonly)
  <2>1. ScopeOperation(alone(i).scopes) = ScopeOperation(r.scopes)
    BY <1>2, <1>4, SoleScope
  <2> QED
    BY <1>2, <2>1 DEF Operation
<1>5. ASSUME NEW i, RightOperation(r.scopes[i]) = ScopeOperation(r.scopes), NEW f
      PROVE  FamilyDecision(alone(i), f) = FamilyDecision(r, f)
  BY <1>4, <1>5 DEF FamilyDecision
<1>6. CASE ScopeFamily(r.scopes) # <<>>
  <2>1. PICK i \in DOMAIN r.scopes :
            /\ ScopeFamily(r.scopes) = ScopeColumns(r.scopes[i])
            /\ \A j \in DOMAIN r.scopes :
                  /\ Mapped(r.scopes[j])
                  /\ Rank(RightOperation(r.scopes[i])) <= Rank(RightOperation(r.scopes[j]))
    BY <1>1, <1>6, ScopeFamilyIs
  <2>2. \A j \in DOMAIN r.scopes : RightOperation(r.scopes[j]) \in Operations
    BY <2>1, MappedColumns
  <2>3. RightOperation(r.scopes[i]) = RightOperation(r.scopes[w])
    BY <1>3, <2>1, <2>2, Ranks DEF Operations
  <2>4. RightOperation(r.scopes[i]) = ScopeOperation(r.scopes)
    BY <1>3, <2>3
  <2>5. ScopeFamily(alone(i).scopes) = ScopeFamily(r.scopes)
    BY <1>2, <2>1, SoleFamily
  <2>6. ScopeFallback(alone(i)) = ScopeFallback(r)
    BY <1>4, <2>4, <2>5 DEF ScopeFallback
  <2>7. Resolve(alone(i)) = Resolve(r)
    BY <1>2, <1>5, <2>4, <2>6 DEF Resolve
  <2> QED
    BY <1>3, <2>3, <2>7 DEF alone
<1>7. CASE ScopeFamily(r.scopes) = <<>>
  <2>1. ScopeFallback(r) = NeverAllowed
    BY <1>7 DEF ScopeFallback
  <2>2. Resolve(r) # NeverAllowed
    BY DEF NeverAllowed
  <2>3. IsHardDenied(r.command) \/ MatchingFamily(r.command) # {}
           \/ IsSystem(r.command) \/ r.command \in DOMAIN Exact
    BY <2>1, <2>2 DEF Resolve
  <2>4. Resolve(alone(w)) = Resolve(r)
    BY <1>2, <1>3, <1>5, <2>3 DEF Resolve
  <2> QED
    BY <1>3, <2>4 DEF alone
<1> QED
  BY <1>6, <1>7

(* With any number of scopes a command is decided as with one of them alone, *)
(* and none of the others gives a lesser right.                             *)
THEOREM MemberDecidesHolds == PolicySpec => []MemberDecides
<1>1. ASSUME PolicyInv PROVE MemberDecides
  BY <1>1, OneScopeDecides DEF PolicyInv, MemberDecides, Undecided
<1> QED
  BY <1>1, PolicyAlways, PTL

-------------------------------------------------------------------------------
(***************************************************************************)
(* The preflights, however often entry and flow change.  ClassHolds is not *)
(* inductive: what a call is authorized under depends on the class of the  *)
(* first check, and what is shown at the end on that of the second.  The   *)
(* invariant adds how the class fits what each check saw.                  *)
(***************************************************************************)

Capability == Secret \cup {"write:provider", "write:player", "delete:favorites"}

Class == [secure : BOOLEAN, required : SUBSET Capability]

(* Before the seal, the class is that of the entry last looked at. *)
ClassFits ==
    stage = "checked" =>
        /\ kind = "config_secret_read" => (class.secure <=> seen.before = "secure")
        /\ kind = "config_secret_write" /\ seen.before = "secure" => Secret \subseteq class.required

(* From the seal on, it is that of the flow there and of the entry judged. *)
SealFits ==
    stage \in {"sealed", "executed", "done"} =>
        /\ kind = "config_secret_read" => (class.secure <=> Judged = "secure")
        /\ kind = "config_secret_write" /\ Judged = "secure" => Secret \subseteq class.required
        /\ kind = "config_flow_submit" /\ seen.sealed = "secure" => Secret \subseteq class.required
        /\ kind \in {"config_flow_submit", "config_flow_abort"} =>
              FlowCapability(seen.flow) # {} /\ FlowCapability(seen.flow) \subseteq class.required

(* What is shown at the end was secret neither for the class nor by then. *)
ReadFits ==
    /\ kind = "config_secret_read" /\ result = "plain" =>
          stage = "done" /\ ~class.secure /\ type # "secure"
    /\ stage \notin {"done", "refused"} => result = "none"

PreflightInv == PreflightTypeOK /\ class \in Class /\ ClassFits /\ SealFits /\ ReadFits

LEMMA PreflightInitInv == PreflightInit => PreflightInv
<1> SUFFICES ASSUME PreflightInit PROVE PreflightInv
  OBVIOUS
<1>1. PreflightTypeOK
  BY DEF PreflightInit, PreflightTypeOK, NoClass, Unseen, Type, Flow
<1>2. ClassFits /\ SealFits /\ ReadFits
  BY DEF PreflightInit, ClassFits, SealFits, ReadFits
<1>3. class \in Class
  BY DEF PreflightInit, NoClass, Class
<1> QED
  BY <1>1, <1>2, <1>3 DEF PreflightInv

(***************************************************************************)
(* The classes the two checks find.                                        *)
(***************************************************************************)
LEMMA Partitions ==
  /\ \A f \in Flow : FlowCapability(f) \subseteq Capability
  /\ SecretWrite \subseteq Capability /\ Secret \subseteq Capability
  /\ type = "secure" => SecretWrite = Secret
BY DEF FlowCapability, Flow, SecretWrite, Secret, Capability

(* The class of the first check, for each kind. *)
LEMMA ClassifiedIs ==
  ASSUME PreflightTypeOK
  PROVE  /\ Classified \in Class
         /\ kind = "config_secret_read" => (Classified.secure <=> type = "secure")
         /\ kind = "config_secret_write" => Classified.required = SecretWrite
         /\ kind = "config_flow_submit" =>
               Classified.required = FlowCapability(flow) \cup SecretWrite
         /\ kind = "config_flow_abort" => Classified.required = FlowCapability(flow)
<1>1. FlowCapability(flow) \subseteq Capability /\ SecretWrite \subseteq Capability
  BY Partitions DEF PreflightTypeOK
<1>2. FromArguments \in Class \/ kind \notin {"storage_secret_write", "favorite_clear"}
  BY DEF FromArguments, NoClass, Class, Capability, Secret, PreflightTypeOK
<1>3. CASE kind = "config_secret_read"
  <2>1. Classified = [secure |-> (type = "secure"), required |-> {}]
    BY <1>3 DEF Classified, NoClass
  <2> QED
    BY <1>3, <2>1 DEF Class
<1>4. CASE kind = "config_secret_write"
  <2>1. Classified = [secure |-> FALSE, required |-> SecretWrite]
    BY <1>4 DEF Classified, NoClass
  <2> QED
    BY <1>1, <1>4, <2>1 DEF Class
<1>5. CASE kind = "config_flow_submit"
  <2>1. Classified = [secure |-> FALSE, required |-> FlowCapability(flow) \cup SecretWrite]
    BY <1>5 DEF Classified, NoClass
  <2> QED
    BY <1>1, <1>5, <2>1 DEF Class
<1>6. CASE kind = "config_flow_abort"
  <2>1. Classified = [secure |-> FALSE, required |-> FlowCapability(flow)]
    BY <1>6 DEF Classified, NoClass
  <2> QED
    BY <1>1, <1>6, <2>1 DEF Class
<1>7. CASE kind \in {"storage_secret_write", "favorite_clear"}
  <2>1. Classified = FromArguments
    BY <1>7 DEF Classified
  <2> QED
    BY <1>2, <1>7, <2>1
<1> QED
  BY <1>3, <1>4, <1>5, <1>6, <1>7 DEF PreflightTypeOK, Kind

(* The second check errs on the side of a secret where it knows less, or     *)
(* keeps the class of the first.                                             *)
LEMMA ReclassifiedIs ==
  ASSUME PreflightTypeOK, class \in Class, NEW proven \in BOOLEAN,
         NEW c, c = Reclassified(proven)
  PROVE  /\ c \in Class
         /\ kind = "config_secret_read" =>
               IF proven /\ type \in {"secure", "plain"}
               THEN c.secure <=> type = "secure" ELSE c = class
         /\ kind = "config_secret_write" =>
               IF proven THEN c.required = SecretWrite ELSE c = class
         /\ kind = "config_flow_submit" =>
               /\ FlowCapability(flow) \subseteq c.required
               /\ SecretWrite \subseteq c.required
         /\ kind = "config_flow_abort" => c.required = FlowCapability(flow)
<1>1. /\ FlowCapability(flow) \subseteq Capability
      /\ SecretWrite \subseteq Secret /\ Secret \subseteq Capability
  BY Partitions DEF PreflightTypeOK, SecretWrite
<1>2. FromArguments \in Class \/ kind \notin {"storage_secret_write", "favorite_clear"}
  BY DEF FromArguments, NoClass, Class, Capability, Secret, PreflightTypeOK
<1>3. CASE kind = "config_secret_read"
  <2>1. IF proven /\ type \in {"secure", "plain"}
        THEN c = [secure |-> (type = "secure"), required |-> {}] ELSE c = class
    BY <1>3 DEF Reclassified, NoClass, PreflightTypeOK, Type
  <2>2. CASE ~(proven /\ type \in {"secure", "plain"})
    BY <1>3, <2>1, <2>2
  <2>3. CASE proven /\ type \in {"secure", "plain"}
    <3> DEFINE masked == (type = "secure")
    <3>1. c = [secure |-> masked, required |-> {}] /\ masked \in BOOLEAN
      BY <2>1, <2>3
    <3>2. masked <=> type = "secure"
      OBVIOUS
    <3> HIDE DEF masked
    <3>3. c \in Class /\ c.secure = masked
      BY <3>1 DEF Class
    <3> QED
      BY <1>3, <2>3, <3>2, <3>3
  <2> QED
    BY <2>2, <2>3
<1>4. CASE kind = "config_secret_write"
  <2>1. IF proven THEN c = [secure |-> FALSE, required |-> SecretWrite] ELSE c = class
    BY <1>4 DEF Reclassified, NoClass
  <2>2. CASE ~proven
    BY <1>4, <2>1, <2>2
  <2>3. CASE proven
    <3>1. c = [secure |-> FALSE, required |-> SecretWrite]
      BY <2>1, <2>3
    <3>2. c \in Class /\ c.required = SecretWrite
      BY <1>1, <3>1 DEF Class
    <3> QED
      BY <1>4, <2>3, <3>2
  <2> QED
    BY <2>2, <2>3
<1>5. CASE kind = "config_flow_submit"
  <2>1. \/ c = [secure |-> FALSE, required |-> FlowCapability(flow) \cup SecretWrite]
        \/ c = [secure |-> FALSE, required |-> FlowCapability(flow) \cup Secret]
    BY <1>5 DEF Reclassified, NoClass
  <2>2. CASE c = [secure |-> FALSE, required |-> FlowCapability(flow) \cup SecretWrite]
    BY <1>1, <1>5, <2>2 DEF Class
  <2>3. CASE c = [secure |-> FALSE, required |-> FlowCapability(flow) \cup Secret]
    BY <1>1, <1>5, <2>3 DEF Class
  <2> QED
    BY <2>1, <2>2, <2>3
<1>6. CASE kind = "config_flow_abort"
  <2>1. c = [secure |-> FALSE, required |-> FlowCapability(flow)]
    BY <1>6 DEF Reclassified, NoClass
  <2> QED
    BY <1>1, <1>6, <2>1 DEF Class
<1>7. CASE kind \in {"storage_secret_write", "favorite_clear"}
  <2>1. c = FromArguments
    BY <1>7 DEF Reclassified
  <2> QED
    BY <1>2, <1>7, <2>1
<1> QED
  BY <1>3, <1>4, <1>5, <1>6, <1>7 DEF PreflightTypeOK, Kind

(***************************************************************************)
(* Preservation.                                                           *)
(***************************************************************************)
LEMMA TypesFromClass ==
  ASSUME kind' \in Kind, supplied' \in BOOLEAN, type' \in Type, flow' \in Flow,
         stage' \in {"decided", "checked", "sealed", "executed", "done", "refused"},
         class' \in Class, held' \in Type,
         result' \in {"none", "plain", "masked", "failed"},
         seen' \in [before : Type, sealed : Type, flow : Flow, proven : BOOLEAN]
  PROVE  PreflightTypeOK'
<1>1. class'.secure \in BOOLEAN /\ class'.required \subseteq Capability
  BY DEF Class
<1> QED
  BY <1>1 DEF PreflightTypeOK, Capability

(* No class is of what entry and flow are now, but of what the checks saw.    *)
LEMMA MoveInv == ASSUME PreflightInv, Move PROVE PreflightInv'
<1>1. /\ UNCHANGED <<kind, supplied, stage, class, held, result, seen>>
      /\ stage \notin {"done", "refused"} /\ type' \in Type /\ flow' \in Flow
  BY DEF PreflightInv, PreflightTypeOK, Move
<1>2. PreflightTypeOK'
  BY <1>1 DEF PreflightInv, PreflightTypeOK
<1>3. ClassFits'
  BY <1>1 DEF PreflightInv, ClassFits
<1>4. SealFits'
  BY <1>1 DEF PreflightInv, SealFits, Judged
<1>5. ReadFits'
  BY <1>1 DEF PreflightInv, ReadFits
<1> QED
  BY <1>1, <1>2, <1>3, <1>4, <1>5 DEF PreflightInv

LEMMA CheckBeforeInv == ASSUME PreflightInv, CheckBefore PROVE PreflightInv'
<1>1. /\ UNCHANGED <<kind, supplied, type, flow, held, result>>
      /\ stage \in {"decided", "checked"} /\ seen' = [seen EXCEPT !.before = type]
  BY DEF CheckBefore
<1>2. /\ Classified \in Class /\ NoClass \in Class
      /\ type = "secure" => SecretWrite = Secret
  BY ClassifiedIs, Partitions DEF PreflightInv, NoClass, Class
<1>3. class' \in Class /\ stage' \in {"refused", "checked"}
  BY <1>2 DEF CheckBefore
<1>4. /\ seen' \in [before : Type, sealed : Type, flow : Flow, proven : BOOLEAN]
      /\ seen'.before = type
  BY <1>1 DEF PreflightInv, PreflightTypeOK
<1>5. PreflightTypeOK'
  BY <1>1, <1>3, <1>4, TypesFromClass DEF PreflightInv, PreflightTypeOK
<1>6. ClassFits'
  <2>1. CASE stage' = "refused"
    BY <2>1 DEF ClassFits
  <2>2. CASE stage' = "checked"
    <3>1. class' = Classified
      BY <2>2 DEF CheckBefore
    <3> HIDE DEF Classified
    <3>2. /\ kind = "config_secret_read" => (class'.secure <=> type = "secure")
          /\ kind = "config_secret_write" => class'.required = SecretWrite
      BY <3>1, ClassifiedIs DEF PreflightInv
    <3> QED
      BY <1>1, <1>2, <1>4, <3>2 DEF ClassFits
  <2> QED
    BY <1>3, <2>1, <2>2
<1>7. SealFits'
  BY <1>3 DEF SealFits
<1>8. ReadFits'
  BY <1>1, <1>3 DEF PreflightInv, ReadFits
<1> QED
  BY <1>3, <1>5, <1>6, <1>7, <1>8 DEF PreflightInv

(* The seal judges by the entry as it is, or by the class of the first check, *)
(* which fits the entry it looked at.                                         *)
LEMMA CheckAgainInv == ASSUME PreflightInv, CheckAgain PROVE PreflightInv'
<1>1. /\ UNCHANGED <<kind, supplied, type, flow, held, result>> /\ stage = "checked"
      /\ stage' = IF NoFlow THEN "refused" ELSE "sealed"
  BY DEF CheckAgain
<1>2. PICK proven \in BOOLEAN :
         /\ class' = IF NoFlow THEN NoClass ELSE Reclassified(proven)
         /\ seen' = [seen EXCEPT !.sealed = type, !.flow = flow, !.proven = proven]
  BY DEF CheckAgain, Seal
<1>3. /\ seen' \in [before : Type, sealed : Type, flow : Flow, proven : BOOLEAN]
      /\ seen'.sealed = type /\ seen'.flow = flow /\ seen'.proven = proven
      /\ seen'.before = seen.before
  BY <1>2 DEF PreflightInv, PreflightTypeOK
<1>4. ReadFits'
  BY <1>1 DEF PreflightInv, ReadFits
<1>5. CASE NoFlow
  <2>1. class' \in Class /\ stage' = "refused"
    BY <1>1, <1>2, <1>5 DEF NoClass, Class
  <2>2. PreflightTypeOK'
    BY <1>1, <1>3, <2>1, TypesFromClass DEF PreflightInv, PreflightTypeOK
  <2>3. ClassFits' /\ SealFits'
    BY <2>1 DEF ClassFits, SealFits
  <2> QED
    BY <1>4, <2>1, <2>2, <2>3 DEF PreflightInv
<1>6. CASE ~NoFlow
  <2>1. class' = Reclassified(proven) /\ stage' = "sealed"
    BY <1>1, <1>2, <1>6
  <2>2. /\ class' \in Class
        /\ kind = "config_secret_read" =>
              IF proven /\ type \in {"secure", "plain"}
              THEN class'.secure <=> type = "secure" ELSE class' = class
        /\ kind = "config_secret_write" =>
              IF proven THEN class'.required = SecretWrite ELSE class' = class
        /\ kind = "config_flow_submit" =>
              /\ FlowCapability(flow) \subseteq class'.required
              /\ SecretWrite \subseteq class'.required
        /\ kind = "config_flow_abort" => class'.required = FlowCapability(flow)
    BY <2>1, ReclassifiedIs DEF PreflightInv
  <2>3. kind \in {"config_flow_submit", "config_flow_abort"} => FlowCapability(flow) # {}
    BY <1>6 DEF NoFlow
  <2>4. type = "secure" => SecretWrite = Secret
    BY Partitions
  <2>5. PreflightTypeOK'
    BY <1>1, <1>3, <2>1, <2>2, TypesFromClass DEF PreflightInv, PreflightTypeOK
  <2>6. SealFits'
    <3>1. kind = "config_secret_read" => (class'.secure <=> Judged' = "secure")
      <4>1. ASSUME kind = "config_secret_read" PROVE class.secure <=> seen.before = "secure"
        BY <1>1, <4>1 DEF PreflightInv, ClassFits
      <4> QED
        BY <1>1, <1>3, <2>2, <4>1 DEF Judged
    <3>2. kind = "config_secret_write" /\ Judged' = "secure" => Secret \subseteq class'.required
      <4>1. ASSUME kind = "config_secret_write", seen.before = "secure"
            PROVE  Secret \subseteq class.required
        BY <1>1, <4>1 DEF PreflightInv, ClassFits
      <4> QED
        BY <1>1, <1>3, <2>2, <2>4, <4>1 DEF Judged
    <3>3. kind = "config_flow_submit" /\ seen'.sealed = "secure" => Secret \subseteq class'.required
      BY <1>3, <2>2, <2>4
    <3>4. kind \in {"config_flow_submit", "config_flow_abort"} =>
             FlowCapability(seen'.flow) # {} /\ FlowCapability(seen'.flow) \subseteq class'.required
      BY <1>3, <2>2, <2>3
    <3> QED
      BY <1>1, <3>1, <3>2, <3>3, <3>4 DEF SealFits
  <2>7. ClassFits'
    BY <2>1 DEF ClassFits
  <2> QED
    BY <1>4, <2>2, <2>5, <2>6, <2>7 DEF PreflightInv
<1> QED
  BY <1>5, <1>6

LEMMA ExecuteInv == ASSUME PreflightInv, Execute PROVE PreflightInv'
<1>1. /\ UNCHANGED <<kind, supplied, type, flow, class, result, seen>>
      /\ stage = "sealed" /\ stage' = "executed" /\ held' = type
  BY DEF Execute
<1>2. PreflightTypeOK'
  BY <1>1 DEF PreflightInv, PreflightTypeOK
<1>3. ClassFits' /\ SealFits'
  BY <1>1 DEF PreflightInv, ClassFits, SealFits, Judged
<1>4. ReadFits'
  BY <1>1 DEF PreflightInv, ReadFits
<1> QED
  BY <1>1, <1>2, <1>3, <1>4 DEF PreflightInv

LEMMA SanitizeInv == ASSUME PreflightInv, Sanitize PROVE PreflightInv'
<1>1. /\ UNCHANGED <<kind, supplied, type, flow, class, held, seen>>
      /\ stage = "executed" /\ stage' = "done"
  BY DEF Sanitize
<1>2. /\ result' \in {"plain", "masked", "failed"}
      /\ result' = "plain" /\ kind = "config_secret_read" => ~(class.secure \/ type = "secure")
  <2>1. CASE kind # "config_secret_read"
    BY <2>1 DEF Sanitize, Unclassifiable
  <2>2. CASE kind = "config_secret_read" /\ Unclassifiable
    BY <2>2 DEF Sanitize
  <2>3. CASE kind = "config_secret_read" /\ ~Unclassifiable
    <3>1. result' = IF class.secure \/ type = "secure" THEN "masked" ELSE "plain"
      BY <2>3 DEF Sanitize
    <3> QED
      BY <3>1
  <2> QED
    BY <2>1, <2>2, <2>3
<1>3. PreflightTypeOK'
  BY <1>1, <1>2 DEF PreflightInv, PreflightTypeOK
<1>4. ClassFits' /\ SealFits'
  BY <1>1 DEF PreflightInv, ClassFits, SealFits, Judged
<1>5. ReadFits'
  BY <1>1, <1>2 DEF PreflightInv, ReadFits
<1> QED
  BY <1>1, <1>3, <1>4, <1>5 DEF PreflightInv

LEMMA PreflightStep == PreflightInv /\ [PreflightNext]_preflightVars => PreflightInv'
<1> SUFFICES ASSUME PreflightInv, [PreflightNext]_preflightVars PROVE PreflightInv'
  OBVIOUS
<1>1. CASE UNCHANGED preflightVars
  <2>1. PreflightTypeOK' /\ class' \in Class
    BY <1>1 DEF preflightVars, PreflightInv, PreflightTypeOK
  <2>2. ClassFits' /\ SealFits' /\ ReadFits'
    BY <1>1 DEF preflightVars, PreflightInv, ClassFits, SealFits, ReadFits, Judged
  <2> QED
    BY <2>1, <2>2 DEF PreflightInv
<1> QED
  BY <1>1, MoveInv, CheckBeforeInv, CheckAgainInv, ExecuteInv, SanitizeInv DEF PreflightNext

(***************************************************************************)
(* Theorems.                                                               *)
(***************************************************************************)

(* The variables keep their types, however often entries and flows change.   *)
THEOREM PreflightTypeCorrect == PreflightSpec => []PreflightTypeOK
<1>1. PreflightInv => PreflightTypeOK
  BY DEF PreflightInv
<1> QED
  BY PreflightInitInv, PreflightStep, <1>1, PTL DEF PreflightSpec

(* What preflight_command, its synchronous repetition and postflight_command *)
(* promise of secrets and flows, however often entry and flow change before, *)
(* between and after them: a call is authorized for the flow as it was at    *)
(* the seal and for the secret last known, and what is shown was neither.    *)
THEOREM ClassHoldsAlways == PreflightSpec => []ClassHolds
<1>1. PreflightInv => ClassHolds
  BY DEF PreflightInv, SealFits, ReadFits, ClassHolds
<1> QED
  BY PreflightInitInv, PreflightStep, <1>1, PTL DEF PreflightSpec
================================================================================
