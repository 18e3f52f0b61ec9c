-------------------------------- MODULE SurfaceProofs --------------------------------
(***************************************************************************)
(* The parts of the surface beside tool calls, for any users, commands,    *)
(* rings, queues and numbers of them: reads of native resources, the       *)
(* provider's commands, the queue removal, the event ring, and all of them *)
(* together.                                                               *)
(***************************************************************************)
EXTENDS MCSurface, FoldTheorems, SequenceTheorems

(***************************************************************************)
(* Reads of native resources for any users, players and items, and any     *)
(* number of reads and of changes around them.  Whatever is claimed of a   *)
(* read follows from its own record: Sound says what a record can be, each *)
(* step of a read leads to a sound record, and the environment changes     *)
(* none.  That a read implements the reference monitor follows with it.    *)
(***************************************************************************)
(* The records of reads, by how far they are. *)
Placed(s) ==
    /\ s.at = "id" => s.user # Nobody
    /\ s.at = "item" => s.kind \in Guarded
    /\ s.kind \in {"player", "queue"} => s.target # Nobody
    /\ s.kind = "library" /\ s.at # "done" => s.row # Nobody
    /\ s.as \in {s.user, Nobody}

Recorded(s) ==
    /\ s.denials = (IF \/ s.result = "denied"
                       \/ s.result = "empty" /\ s.row # Nobody THEN 1 ELSE 0)
    /\ s.kind = "library" /\ s.result = "content" => ItemAllowed(s)

(* Nothing is recorded before the end, no user is named before MA is asked    *)
(* nor acted for before the seal, and only a library read is about an item.   *)
Pending(s) ==
    /\ s.at # "done" => s.denials = 0 /\ s.result = "none"
    /\ s.at \in {"idle", "tags", "user"} => s.user = Nobody
    /\ s.at \in {"idle", "tags", "user", "id", "seal"} => s.as = Nobody
    /\ s.kind \in {"player", "queue"} => s.row = Nobody

Sound(s) == s \in ReadState /\ Placed(s) /\ Recorded(s) /\ Pending(s)

SettingsOK ==
    /\ required \in BOOLEAN /\ valid \in BOOLEAN /\ known \in BOOLEAN
    /\ account \in Accounts
    /\ modes \in ModeTable
    /\ edits \in 0 .. MaxEdits

ReadsInv ==
    /\ SettingsOK
    /\ read \in [Read -> ReadState]
    /\ \A r \in Read : Sound(read[r])

LEMMA InvGives == ReadsInv => ReadsTypeOK /\ RefusalsAudited
<1> SUFFICES ASSUME ReadsInv PROVE ReadsTypeOK /\ RefusalsAudited
  OBVIOUS
<1>1. ReadsTypeOK
  BY DEF ReadsInv, ReadsTypeOK, SettingsOK, Sound, Placed
<1>2. \A r \in Read : Recorded(read[r])
  BY DEF ReadsInv, Sound
<1>3. RefusalsAudited
  BY <1>2 DEF Recorded, RefusalsAudited
<1> QED
  BY <1>1, <1>3

(***************************************************************************)
(* A step replaces one record, or changes the settings.                    *)
(***************************************************************************)
LEMMA BecomeSound ==
  ASSUME ReadsInv, NEW r \in Read, NEW t, Sound(t), Become(r, t)
  PROVE  ReadsInv'
<1>1. read' = [read EXCEPT ![r] = t] /\ UNCHANGED settings
  BY DEF Become
<1>2. t \in ReadState
  BY DEF Sound
<1>3. read' \in [Read -> ReadState] /\ read'[r] = t
      /\ \A x \in Read \ {r} : read'[x] = read[x]
  BY <1>1, <1>2 DEF ReadsInv
<1>4. \A x \in Read : Sound(read'[x])
  BY <1>3 DEF ReadsInv
<1>5. SettingsOK'
  BY <1>1 DEF ReadsInv, SettingsOK, settings
<1> QED
  BY <1>3, <1>4, <1>5 DEF ReadsInv, Sound, Placed, Recorded, Pending, ItemAllowed

EnvironmentStep ==
    \/ \E kind \in Guarded : SaveModesOf(kind)
    \/ ToggleAuth \/ EditAccount \/ RevokeBearer \/ RebindBearer

LEMMA EnvironmentSound ==
  ASSUME ReadsInv, EnvironmentStep
  PROVE  ReadsInv' /\ UNCHANGED read
<1>1. edits < MaxEdits /\ edits' = edits + 1 /\ UNCHANGED read
  BY DEF EnvironmentStep, SaveModesOf, ToggleAuth, EditAccount, RevokeBearer, RebindBearer, Edit
<1>2. edits' \in 0 .. MaxEdits
  BY <1>1, ReadsAssumption DEF ReadsAssumption, ReadsInv, SettingsOK
<1>3. modes' \in ModeTable
  BY DEF EnvironmentStep, SaveModesOf, ToggleAuth, EditAccount, RevokeBearer, RebindBearer,
         ReadsInv, SettingsOK, ModeTable
<1>4. /\ required' \in BOOLEAN /\ valid' \in BOOLEAN /\ known' \in BOOLEAN
      /\ account' \in Accounts
  BY DEF EnvironmentStep, SaveModesOf, ToggleAuth, EditAccount, RevokeBearer, RebindBearer,
         ReadsInv, SettingsOK
<1>5. SettingsOK'
  BY <1>2, <1>3, <1>4 DEF SettingsOK
<1>6. \A x \in Read : Sound(read'[x])
  BY <1>1 DEF ReadsInv
<1> QED
  BY <1>1, <1>5, <1>6 DEF ReadsInv, Sound, Placed, Recorded, Pending, ItemAllowed

(***************************************************************************)
(* The record each step leads to.                                          *)
(***************************************************************************)
LEMMA SoundHere == ASSUME ReadsInv, NEW r \in Read
                   PROVE  /\ read[r] \in ReadState /\ Sound(read[r])
                          /\ read[r].kind \in Kind /\ read[r].at \in At
                          /\ read[r].user \in Accounts \cup {Nobody}
                          /\ read[r].denials \in Nat
BY DEF ReadsInv, Sound, ReadState

LEMMA ArrivesTo ==
  ASSUME ReadsInv, NEW r \in Read, Arrives(r)
  PROVE  \E t : Sound(t) /\ Become(r, t) /\ t.at = "tags" /\ read[r].at = "idle"
<1> DEFINE s == read[r]
<1>1. s.at = "idle" /\ s \in ReadState /\ Sound(s)
  BY SoundHere DEF Arrives
<1>2. PICK kind \in Kind, target \in Players, row \in Items :
         Become(r, [s EXCEPT !.at = "tags", !.kind = kind,
              !.target = IF kind \in {"player", "queue"} THEN target ELSE Nobody,
              !.row = IF kind = "library" THEN row ELSE Nobody])
  BY DEF Arrives
<1> DEFINE aim == IF kind \in {"player", "queue"} THEN target ELSE Nobody
           about == IF kind = "library" THEN row ELSE Nobody
           t == [s EXCEPT !.at = "tags", !.kind = kind, !.target = aim, !.row = about]
<1>3. /\ aim \in Players \cup {Nobody} /\ about \in Items \cup {Nobody}
      /\ kind \in {"player", "queue"} => aim # Nobody /\ about = Nobody
      /\ kind = "library" => about # Nobody
  BY ReadsAssumption DEF ReadsAssumption
<1>4. Become(r, t)
  BY <1>2
<1> HIDE DEF s, aim, about
<1>5. t \in ReadState /\ t.at = "tags" /\ t.kind = kind /\ t.target = aim /\ t.row = about
      /\ t.user = s.user /\ t.as = s.as /\ t.denials = s.denials /\ t.result = s.result
  BY <1>1, <1>3 DEF ReadState, At
<1>6. s.user = Nobody /\ s.as = Nobody /\ s.denials = 0 /\ s.result = "none"
  BY <1>1 DEF Sound, Pending
<1> HIDE DEF t
<1>7. Sound(t)
  BY <1>3, <1>5, <1>6 DEF Sound, Placed, Recorded, Pending
<1> QED
  BY <1>1, <1>4, <1>5, <1>7 DEF s

(* A step on the way that fills in what MA answered. *)
LEMMA OnTheWay ==
  ASSUME NEW s, Sound(s), s.at \in {"tags", "user", "id"},
         NEW t \in ReadState, t.at \in {"user", "id", "seal"},
         t.at = "id" => t.user # Nobody, t.at = "user" => t.user = Nobody,
         t.kind = s.kind, t.target = s.target, t.row = s.row, t.as = s.as,
         t.denials = s.denials, t.result = s.result
  PROVE  Sound(t)
<1>1. s.denials = 0 /\ s.result = "none" /\ s.as = Nobody
  BY DEF Sound, Pending
<1>2. Placed(t)
  BY <1>1 DEF Sound, Placed
<1> QED
  BY <1>1, <1>2 DEF Sound, Recorded, Pending

LEMMA TaggedTo ==
  ASSUME ReadsInv, NEW r \in Read, Tagged(r)
  PROVE  \E t : /\ Sound(t) /\ Become(r, t) /\ t.at \in {"user", "seal"}
                /\ t.user = Nobody /\ read[r].at = "tags"
<1> DEFINE s == read[r]
           at == IF required THEN "user" ELSE "seal"
           t == [s EXCEPT !.at = at]
<1>1. s.at = "tags" /\ Become(r, t)
  BY DEF Tagged
<1>2. Sound(s) /\ s \in ReadState /\ s.user = Nobody
  BY <1>1, SoundHere DEF Sound, Pending
<1>3. at \in {"user", "seal"}
  OBVIOUS
<1> HIDE DEF s, at
<1>4. /\ t \in ReadState /\ t.at = at /\ t.user = Nobody
      /\ t.kind = s.kind /\ t.target = s.target /\ t.row = s.row /\ t.as = s.as
      /\ t.denials = s.denials /\ t.result = s.result
  BY <1>2, <1>3 DEF ReadState, At
<1> HIDE DEF t
<1>5. Sound(t)
  BY <1>1, <1>2, <1>3, <1>4, OnTheWay
<1> QED
  BY <1>1, <1>3, <1>4, <1>5 DEF s

(* A resource of the catalog is handed on without a record. *)
LEMMA UntaggedTo ==
  ASSUME ReadsInv, NEW r \in Read, Untagged(r)
  PROVE  read[r].at = "tags" /\ \E t : Sound(t) /\ Become(r, t) /\ t.at = "done"
<1> DEFINE s == read[r]
           t == [s EXCEPT !.at = "done", !.result = "handed on"]
<1>1. s.at = "tags" /\ s.kind = "catalog" /\ Become(r, t)
  BY DEF Untagged
<1>2. Sound(s) /\ s \in ReadState
  BY SoundHere
<1>3. s.user = Nobody /\ s.as = Nobody /\ s.denials = 0
  BY <1>1, <1>2 DEF Sound, Pending
<1> HIDE DEF s
<1>4. /\ t \in ReadState /\ t.at = "done" /\ t.result = "handed on" /\ t.kind = "catalog"
      /\ t.user = Nobody /\ t.as = Nobody /\ t.denials = 0
  BY <1>1, <1>2, <1>3 DEF ReadState, At
<1> HIDE DEF t
<1>5. Sound(t)
  BY <1>4 DEF Sound, Placed, Recorded, Pending
<1> QED
  BY <1>1, <1>4, <1>5 DEF s

LEMMA FindUserTo ==
  ASSUME ReadsInv, NEW r \in Read, FindUser(r)
  PROVE  \E t : /\ Sound(t) /\ Become(r, t) /\ t.kind = read[r].kind
                /\ t.target = read[r].target /\ read[r].at = "user"
                /\ \/ t.at = "seal" /\ t.user = Nobody
                   \/ t.at = "id" /\ t.user = account /\ valid /\ account.enabled
<1> DEFINE s == read[r]
<1>1. s.at = "user" /\ Sound(s) /\ s \in ReadState
  BY SoundHere DEF FindUser
<1>2. PICK user \in {Nobody} \cup (IF valid /\ account.enabled THEN {account} ELSE {}) :
         Become(r, [s EXCEPT !.user = user, !.at = IF user = Nobody THEN "seal" ELSE "id"])
  BY DEF FindUser
<1> DEFINE at == IF user = Nobody THEN "seal" ELSE "id"
           t == [s EXCEPT !.user = user, !.at = at]
<1>3. Become(r, t)
  BY <1>2
<1>4. /\ user \in Accounts \cup {Nobody}
      /\ \/ user = Nobody /\ at = "seal"
         \/ user # Nobody /\ at = "id" /\ user = account /\ valid /\ account.enabled
  BY DEF ReadsInv, SettingsOK
<1> HIDE DEF s, at
<1>5. /\ t \in ReadState /\ t.at = at /\ t.user = user
      /\ t.kind = s.kind /\ t.target = s.target /\ t.row = s.row /\ t.as = s.as
      /\ t.denials = s.denials /\ t.result = s.result
  BY <1>1, <1>4 DEF ReadState, At
<1> HIDE DEF t
<1>6. Sound(t)
  BY <1>1, <1>4, <1>5, OnTheWay
<1> QED
  BY <1>1, <1>3, <1>4, <1>5, <1>6 DEF s

LEMMA FindIdTo ==
  ASSUME ReadsInv, NEW r \in Read, FindId(r)
  PROVE  \E t : /\ Sound(t) /\ Become(r, t) /\ t.kind = read[r].kind
                /\ t.target = read[r].target /\ t.user = read[r].user
                /\ t.at = "seal" /\ read[r].at = "id"
<1> DEFINE s == read[r]
<1>1. s.at = "id" /\ Sound(s) /\ s \in ReadState
  BY SoundHere DEF FindId
<1>2. PICK exact \in {FALSE, valid} : Become(r, [s EXCEPT !.exact = exact, !.at = "seal"])
  BY DEF FindId
<1>3. exact \in BOOLEAN
  BY DEF ReadsInv, SettingsOK
<1> DEFINE t == [s EXCEPT !.exact = exact, !.at = "seal"]
<1>4. Become(r, t)
  BY <1>2
<1> HIDE DEF s
<1>5. /\ t \in ReadState /\ t.at = "seal" /\ t.user = s.user
      /\ t.kind = s.kind /\ t.target = s.target /\ t.row = s.row /\ t.as = s.as
      /\ t.denials = s.denials /\ t.result = s.result
  BY <1>1, <1>3 DEF ReadState, At
<1> HIDE DEF t
<1>6. Sound(t)
  BY <1>1, <1>5, OnTheWay
<1> QED
  BY <1>1, <1>4, <1>5, <1>6 DEF s

(* The seal: what it lets through goes on for the user that was verified.    *)
LEMMA SealTo ==
  ASSUME ReadsInv, NEW r \in Read, Seal(r)
  PROVE  /\ read[r].at = "seal"
         /\ \E t : /\ Sound(t) /\ Become(r, t)
                   /\ \/ t.at = "done"
                      \/ /\ t.at = "item" /\ Permitted(read[r]) /\ t.user = read[r].user
                         /\ t.kind = read[r].kind /\ t.target = read[r].target
<1> DEFINE s == read[r]
<1>1. s.at = "seal" /\ Sound(s) /\ s \in ReadState /\ s.user \in Accounts \cup {Nobody}
  BY SoundHere DEF Seal
<1>2. s.denials = 0 /\ s.result = "none" /\ s.as = Nobody
      /\ Placed(s) /\ Pending(s)
  BY <1>1 DEF Sound, Pending
<1>3. CASE Permitted(s)
  <2> DEFINE as == IF IdentityHolds(s) THEN s.user ELSE Nobody
             t == [s EXCEPT !.at = "item", !.as = as]
  <2>1. Become(r, t)
    BY <1>3 DEF Seal
  <2>2. s.kind \in Guarded
    BY <1>3 DEF Permitted, LiveMode
  <2>3. as \in {s.user, Nobody}
    OBVIOUS
  <2> HIDE DEF s, as
  <2>4. t \in ReadState /\ t.at = "item" /\ t.as = as /\ t.user = s.user
        /\ t.kind = s.kind /\ t.target = s.target
        /\ t.row = s.row /\ t.denials = s.denials /\ t.result = s.result
    BY <1>1, <2>3 DEF ReadState, At
  <2> HIDE DEF t
  <2>5. Sound(t)
    BY <1>1, <1>2, <2>2, <2>3, <2>4 DEF Sound, Placed, Recorded, Pending
  <2> QED
    BY <1>1, <1>3, <2>1, <2>4, <2>5 DEF s
<1>4. CASE ~Permitted(s)
  <2> DEFINE t == DeniedRead(s)
  <2>1. Become(r, t)
    BY <1>4 DEF Seal
  <2>4. t = [s EXCEPT !.at = "done", !.denials = 1, !.result = "denied"]
    BY <1>2 DEF DeniedRead
  <2> HIDE DEF s, t
  <2>2. t \in ReadState /\ t.at = "done" /\ t.denials = 1 /\ t.result = "denied"
        /\ t.kind = s.kind /\ t.target = s.target /\ t.row = s.row /\ t.user = s.user
        /\ t.as = s.as
    BY <1>1, <2>4 DEF ReadState, At
  <2>3. Sound(t)
    BY <1>2, <2>2 DEF Sound, Placed, Recorded, Pending
  <2> QED
    BY <1>1, <2>1, <2>2, <2>3 DEF s
<1> QED
  BY <1>3, <1>4

(* A delivery is final; of what it withholds it leaves a record. *)
LEMMA Final ==
  ASSUME NEW s, Sound(s), s.at = "item", NEW n \in {0, 1}, NEW row \in {s.row, Nobody},
         NEW result \in {"content", "empty", "error"},
         n = IF result = "empty" /\ row # Nobody THEN 1 ELSE 0,
         s.kind = "library" /\ result = "content" => ItemAllowed(s) /\ row = s.row,
         NEW t, t = [s EXCEPT !.at = "done", !.result = result, !.denials = n, !.row = row]
  PROVE  Sound(t) /\ t.at = "done"
<1>1. s \in ReadState
  BY DEF Sound
<1>2. t \in ReadState /\ t.at = "done" /\ t.denials = n /\ t.result = result
      /\ t.kind = s.kind /\ t.target = s.target /\ t.row = row /\ t.user = s.user
      /\ t.as = s.as
  BY <1>1 DEF ReadState, At
<1>3. ItemAllowed(s) /\ row = s.row => ItemAllowed(t)
  BY <1>2 DEF ItemAllowed
<1>4. Sound(t)
  BY <1>2, <1>3 DEF Sound, Placed, Recorded, Pending
<1> QED
  BY <1>2, <1>4

LEMMA DeliverTo ==
  ASSUME ReadsInv, NEW r \in Read, DeliverLibrary(r) \/ DeliverPlayer(r)
  PROVE  read[r].at = "item" /\ \E t : Sound(t) /\ Become(r, t) /\ t.at = "done"
<1> DEFINE s == read[r]
           End(result, n, row) ==
              [s EXCEPT !.at = "done", !.result = result, !.denials = n, !.row = row]
<1>1. s.at = "item" /\ Sound(s) /\ s \in ReadState /\ s.denials = 0
  BY SoundHere DEF DeliverLibrary, DeliverPlayer, Sound, Pending
<1>2. \A result : [s EXCEPT !.at = "done", !.result = result] = End(result, 0, s.row)
  BY <1>1 DEF ReadState
<1>3. \A result : [s EXCEPT !.at = "done", !.result = result, !.denials = @ + 1]
                  = End(result, 1, s.row)
  <2>1. s.denials + 1 = 1
    BY <1>1
  <2>2. \A result : [s EXCEPT !.at = "done", !.result = result, !.denials = @ + 1]
                    = [s EXCEPT !.at = "done", !.result = result, !.denials = 1]
    BY <2>1
  <2> QED
    BY <1>1, <2>2 DEF ReadState
<1>4. \A result : [s EXCEPT !.at = "done", !.result = result, !.row = Nobody]
                  = End(result, 0, Nobody)
  BY <1>1 DEF ReadState
<1>5. CASE DeliverLibrary(r)
  <2>1. s.kind = "library" /\ s.row # Nobody
    BY <1>1, <1>5 DEF DeliverLibrary, Sound, Placed
  <2>2. \/ ItemAllowed(s) /\ Become(r, End("content", 0, s.row))
        \/ Become(r, End("empty", 1, s.row))
        \/ Become(r, End("empty", 0, Nobody))
        \/ Become(r, End("error", 0, s.row))
    BY <1>2, <1>3, <1>4, <1>5 DEF DeliverLibrary
  <2> HIDE DEF s
  <2>3. ItemAllowed(s) => Sound(End("content", 0, s.row)) /\ End("content", 0, s.row).at = "done"
    BY <1>1, Final
  <2>4. Sound(End("empty", 1, s.row)) /\ End("empty", 1, s.row).at = "done"
    <3>1. /\ s.row \in {s.row, Nobody} /\ 1 \in {0, 1}
          /\ 1 = IF "empty" = "empty" /\ s.row # Nobody THEN 1 ELSE 0
          /\ "empty" \in {"content", "empty", "error"} /\ "empty" # "content"
      BY <2>1
    <3> QED
      BY <1>1, <3>1, Final
  <2>5. Sound(End("empty", 0, Nobody)) /\ End("empty", 0, Nobody).at = "done"
    BY <1>1, Final
  <2>6. Sound(End("error", 0, s.row)) /\ End("error", 0, s.row).at = "done"
    BY <1>1, Final
  <2> HIDE DEF End
  <2> QED
    BY <1>1, <2>2, <2>3, <2>4, <2>5, <2>6 DEF s
<1>6. CASE DeliverPlayer(r)
  <2>1. s.kind \in {"player", "queue"} /\ s.row = Nobody
    BY <1>1, <1>6 DEF DeliverPlayer, Sound, Pending
  <2>2. \/ Become(r, End("content", 0, s.row)) \/ Become(r, End("empty", 0, s.row))
        \/ Become(r, End("error", 0, s.row))
    BY <1>2, <1>6 DEF DeliverPlayer
  <2>3. s.kind # "library"
    BY <2>1
  <2> HIDE DEF s
  <2>4. Sound(End("content", 0, s.row)) /\ End("content", 0, s.row).at = "done"
    BY <1>1, <2>3, Final
  <2>5. Sound(End("empty", 0, Nobody)) /\ End("empty", 0, Nobody).at = "done"
    BY <1>1, <2>3, Final
  <2>6. End("empty", 0, Nobody) = End("empty", 0, s.row)
    BY <2>1
  <2>7. Sound(End("error", 0, s.row)) /\ End("error", 0, s.row).at = "done"
    BY <1>1, <2>3, Final
  <2> HIDE DEF End
  <2> QED
    BY <1>1, <2>2, <2>4, <2>5, <2>6, <2>7 DEF s
<1> QED
  BY <1>5, <1>6

(* The records a step can lead to, whatever the step. *)
LEMMA StepSound == ReadsInv /\ [ReadsNext]_readVars => ReadsInv'
<1> SUFFICES ASSUME ReadsInv, [ReadsNext]_readVars PROVE ReadsInv'
  OBVIOUS
<1>1. CASE EnvironmentStep
  BY <1>1, EnvironmentSound
<1>2. ASSUME NEW r \in Read,
             \/ Arrives(r) \/ Untagged(r) \/ Tagged(r) \/ FindUser(r) \/ FindId(r) \/ Seal(r)
             \/ DeliverLibrary(r) \/ DeliverPlayer(r)
      PROVE  ReadsInv'
  <2>1. \E t : Sound(t) /\ Become(r, t)
    BY <1>2, ArrivesTo, UntaggedTo, TaggedTo, FindUserTo, FindIdTo, SealTo, DeliverTo
  <2> QED
    BY <2>1, BecomeSound
<1>3. CASE UNCHANGED readVars
  <2>1. UNCHANGED read /\ SettingsOK'
    BY <1>3 DEF readVars, ReadsInv, SettingsOK
  <2> QED
    BY <2>1 DEF ReadsInv, Sound, Placed, Recorded, Pending, ItemAllowed
<1> QED
  BY <1>1, <1>2, <1>3 DEF ReadsNext, EnvironmentStep

LEMMA InitSound == ReadsInit => ReadsInv
<1> SUFFICES ASSUME ReadsInit PROVE ReadsInv
  OBVIOUS
<1>1. SettingsOK
  BY ReadsAssumption DEF ReadsInit, SettingsOK, ReadsAssumption
<1>2. Fresh \in ReadState
  BY DEF Fresh, ReadState, At, Kind
<1>3. Sound(Fresh)
  BY <1>2 DEF Sound, Placed, Recorded, Pending, Fresh, Guarded
<1> QED
  BY <1>1, <1>2, <1>3 DEF ReadsInit, ReadsInv

(***************************************************************************)
(* The refinement: what the monitor sees of a read.                        *)
(***************************************************************************)
StageOf == [r \in Read |-> ReadStage(read[r])]
SeenOf == [r \in Read |-> Seen(read[r])]

LEMMA BecomeShows ==
  ASSUME ReadsInv, NEW r \in Read, NEW t, Sound(t), Become(r, t)
  PROVE  /\ StageOf' = [StageOf EXCEPT ![r] = ReadStage(t)]
         /\ SeenOf' = [SeenOf EXCEPT ![r] = Seen(t)]
<1>1. read' = [read EXCEPT ![r] = t] /\ read \in [Read -> ReadState]
  BY DEF Become, ReadsInv
<1>2. read'[r] = t /\ \A x \in Read \ {r} : read'[x] = read[x]
  BY <1>1
<1>3. \A x \in Read : /\ ReadStage(read[x])' = ReadStage(read'[x])
                      /\ Seen(read[x])' = Seen(read'[x])
  BY DEF ReadStage, Seen, Vouched, TargetPermitted, Within
<1>4. StageOf' = [StageOf EXCEPT ![r] = ReadStage(t)]
  BY <1>2, <1>3 DEF StageOf
<1>5. SeenOf' = [SeenOf EXCEPT ![r] = Seen(t)]
  BY <1>2, <1>3 DEF SeenOf
<1> QED
  BY <1>4, <1>5

(* What MA is asked depends on the address and the user alone. *)
LEMMA VouchedBy ==
  ASSUME NEW s \in ReadState, NEW t \in ReadState, s.kind = t.kind, s.target = t.target,
         NEW user \in Accounts \cup {Nobody}
  PROVE  Vouched(s, user) = Vouched(t, user)
<1> DEFINE u == [s EXCEPT !.user = user]
           v == [t EXCEPT !.user = user]
<1>1. u.kind = v.kind /\ u.target = v.target /\ u.user = user /\ v.user = user
  BY DEF ReadState
<1> HIDE DEF u, v
<1>2. TargetPermitted(u) <=> TargetPermitted(v)
  BY <1>1 DEF TargetPermitted
<1> QED
  BY <1>2 DEF Vouched, u, v

(* A step the monitor does not see. *)
LEMMA Unseen ==
  ASSUME ReadsInv, NEW r \in Read, NEW t, Sound(t), Become(r, t),
         ReadStage(t) = ReadStage(read[r]), Seen(t) = Seen(read[r])
  PROVE  ReadMonitor!Next
<1>1. /\ StageOf' = [StageOf EXCEPT ![r] = ReadStage(t)]
      /\ SeenOf' = [SeenOf EXCEPT ![r] = Seen(t)]
  BY BecomeShows
<1>2. [StageOf EXCEPT ![r] = ReadStage(read[r])] = StageOf
  BY DEF StageOf
<1>3. [SeenOf EXCEPT ![r] = Seen(read[r])] = SeenOf
  BY DEF SeenOf
<1>4. StageOf' = StageOf /\ SeenOf' = SeenOf
  BY <1>1, <1>2, <1>3
<1> QED
  BY <1>4 DEF ReadMonitor!Next, StageOf, SeenOf

(* The end of a read. *)
LEMMA Closes ==
  ASSUME ReadsInv, NEW r \in Read, NEW t, Sound(t), Become(r, t), t.at = "done",
         read[r].at # "done"
  PROVE  ReadMonitor!Next
<1>1. ReadStage(t) = "closed" /\ Seen(t) = {} /\ StageOf[r] \in {"open", "running"}
  BY DEF ReadStage, Seen, StageOf
<1>2. StageOf' = [StageOf EXCEPT ![r] = "closed"] /\ SeenOf' = [SeenOf EXCEPT ![r] = {}]
  BY <1>1, BecomeShows
<1>3. ReadMonitor!Close(r)
  BY <1>1, <1>2 DEF ReadMonitor!Close, StageOf, SeenOf
<1> QED
  BY <1>3 DEF ReadMonitor!Next

(* MA's answer is an observation, unless the user may not do this at all. *)
LEMMA FindUserObserves ==
  ASSUME ReadsInv, NEW r \in Read, FindUser(r)
  PROVE  ReadMonitor!Next
<1>1. PICK t : /\ Sound(t) /\ Become(r, t) /\ t.kind = read[r].kind
               /\ t.target = read[r].target /\ read[r].at = "user"
               /\ \/ t.at = "seal" /\ t.user = Nobody
                  \/ t.at = "id" /\ t.user = account /\ valid /\ account.enabled
  BY FindUserTo
<1>2. /\ t \in ReadState /\ read[r] \in ReadState /\ account \in Accounts
      /\ Seen(read[r]) = {} /\ ReadStage(read[r]) = "open" /\ ReadStage(t) = "open"
  BY <1>1, SoundHere DEF Sound, Seen, ReadStage, ReadsInv, SettingsOK
<1>3. CASE t.user = Nobody
  <2>1. Seen(t) = {}
    BY <1>3 DEF Seen, Vouched
  <2> QED
    BY <1>1, <1>2, <2>1, Unseen
<1>4. CASE t.at = "id" /\ t.user = account /\ valid /\ account.enabled
  <2>1. Seen(t) = Vouched(read[r], account)
    BY <1>1, <1>2, <1>4, VouchedBy DEF Seen
  <2>2. CASE Vouched(read[r], account) = {}
    BY <1>1, <1>2, <2>1, <2>2, Unseen
  <2>3. CASE Vouched(read[r], account) = {"caller"}
    <3>1. /\ StageOf' = [StageOf EXCEPT ![r] = "open"] /\ StageOf[r] = "open"
          /\ SeenOf' = [SeenOf EXCEPT ![r] = {"caller"}] /\ SeenOf[r] = {}
      <4>1. ReadStage(t) = "open" /\ Seen(t) = {"caller"}
        BY <1>2, <2>1, <2>3
      <4>2. StageOf' = [StageOf EXCEPT ![r] = "open"] /\ SeenOf' = [SeenOf EXCEPT ![r] = {"caller"}]
        BY <1>1, <4>1, BecomeShows
      <4>3. StageOf[r] = "open" /\ SeenOf[r] = {}
        BY <1>2 DEF StageOf, SeenOf
      <4> QED
        BY <4>2, <4>3
    <3>2. StageOf' = StageOf /\ SeenOf' = [SeenOf EXCEPT ![r] = SeenOf[r] \cup {"caller"}]
      BY <3>1 DEF StageOf, SeenOf
    <3>3. "caller" \in [x \in Read |-> IF valid /\ account.enabled
                                       THEN Vouched(read[x], account) ELSE {}][r]
      BY <1>4, <2>3
    <3>4. ReadMonitor!Observe(r)
      BY <3>1, <3>2, <3>3 DEF ReadMonitor!Observe, StageOf, SeenOf
    <3> QED
      BY <3>4 DEF ReadMonitor!Next
  <2> QED
    BY <2>2, <2>3 DEF Vouched
<1> QED
  BY <1>1, <1>3, <1>4

(* What the seal lets through is what the monitor starts, in the same step.  *)
LEMMA SealStarts ==
  ASSUME ReadsInv, NEW r \in Read, Seal(r)
  PROVE  ReadMonitor!Next
<1> DEFINE s == read[r]
<1>1. s.at = "seal" /\ s \in ReadState /\ s.user \in Accounts \cup {Nobody}
  BY SealTo, SoundHere
<1>2. PICK t : /\ Sound(t) /\ Become(r, t)
               /\ \/ t.at = "done"
                  \/ /\ t.at = "item" /\ Permitted(s) /\ t.user = s.user
                     /\ t.kind = s.kind /\ t.target = s.target
  BY SealTo
<1>3. CASE t.at = "done"
  BY <1>1, <1>2, <1>3, Closes
<1>4. CASE /\ t.at = "item" /\ Permitted(s) /\ t.user = s.user
           /\ t.kind = s.kind /\ t.target = s.target
  <2>1. t \in ReadState
    BY <1>2 DEF Sound
  <2>2. Seen(t) = Vouched(s, s.user) /\ Seen(s) = Vouched(s, s.user)
    BY <1>1, <1>4, <2>1, VouchedBy DEF Seen
  <2>3. ReadStage(t) = "running" /\ ReadStage(s) = "open"
    BY <1>1, <1>4 DEF ReadStage
  <2>4. /\ StageOf' = [StageOf EXCEPT ![r] = "running"] /\ StageOf[r] = "open"
        /\ SeenOf' = SeenOf /\ SeenOf[r] = Vouched(s, s.user)
    <3>1. SeenOf' = [SeenOf EXCEPT ![r] = Seen(s)]
      BY <1>2, <2>2, BecomeShows
    <3>2. SeenOf[r] = Seen(s)
      BY DEF SeenOf
    <3>3. [SeenOf EXCEPT ![r] = Seen(s)] = SeenOf
      BY <3>2 DEF SeenOf
    <3> QED
      BY <1>2, <2>2, <2>3, <3>1, <3>2, <3>3, BecomeShows DEF StageOf
  <2>5. Need(s) = {}
    BY <1>4 DEF Need, Permitted, IdentityHolds
  <2>6. required => "caller" \in Vouched(s, s.user)
    <3>1. [s EXCEPT !.user = s.user] = s
      BY <1>1 DEF ReadState
    <3> QED
      BY <1>4, <3>1 DEF Permitted, IdentityHolds, Vouched
  <2>7. ReadMonitor!Start(r)
    BY <2>4, <2>5, <2>6 DEF ReadMonitor!Start, StageOf, SeenOf, Refused
  <2> QED
    BY <2>7 DEF ReadMonitor!Next
<1> QED
  BY <1>2, <1>3, <1>4

LEMMA StepRefines == ReadsInv /\ [ReadsNext]_readVars => [ReadMonitor!Next]_(ReadMonitor!mvars)
<1> SUFFICES ASSUME ReadsInv, [ReadsNext]_readVars PROVE ReadMonitor!Next
  OBVIOUS
<1>1. CASE EnvironmentStep \/ UNCHANGED readVars
  <2>1. UNCHANGED read
    BY <1>1, EnvironmentSound DEF readVars
  <2>2. StageOf' = StageOf /\ SeenOf' = SeenOf
    BY <2>1 DEF StageOf, SeenOf, ReadStage, Seen, Vouched, TargetPermitted, Within
  <2> QED
    BY <2>2 DEF ReadMonitor!Next, StageOf, SeenOf
<1>2. ASSUME NEW r \in Read, Arrives(r) PROVE ReadMonitor!Next
  <2>1. PICK t : Sound(t) /\ Become(r, t) /\ t.at = "tags" /\ read[r].at = "idle"
    BY <1>2, ArrivesTo
  <2>2. ReadStage(t) = ReadStage(read[r]) /\ Seen(t) = Seen(read[r])
    BY <2>1 DEF ReadStage, Seen
  <2> QED
    BY <2>1, <2>2, Unseen
<1>3. ASSUME NEW r \in Read, Tagged(r) PROVE ReadMonitor!Next
  <2>1. PICK t : /\ Sound(t) /\ Become(r, t) /\ t.at \in {"user", "seal"}
                 /\ t.user = Nobody /\ read[r].at = "tags"
    BY <1>3, TaggedTo
  <2>2. ReadStage(t) = ReadStage(read[r]) /\ Seen(t) = Seen(read[r])
    BY <2>1 DEF ReadStage, Seen, Vouched
  <2> QED
    BY <2>1, <2>2, Unseen
<1>4. ASSUME NEW r \in Read, FindId(r) PROVE ReadMonitor!Next
  <2>1. PICK t : /\ Sound(t) /\ Become(r, t) /\ t.kind = read[r].kind
                 /\ t.target = read[r].target /\ t.user = read[r].user
                 /\ t.at = "seal" /\ read[r].at = "id"
    BY <1>4, FindIdTo
  <2>2. /\ t \in ReadState /\ read[r] \in ReadState
        /\ read[r].user \in Accounts \cup {Nobody}
    BY <2>1, SoundHere DEF Sound
  <2>3. ReadStage(t) = ReadStage(read[r]) /\ Seen(t) = Seen(read[r])
    BY <2>1, <2>2, VouchedBy DEF ReadStage, Seen
  <2> QED
    BY <2>1, <2>3, Unseen
<1>5. ASSUME NEW r \in Read, Untagged(r) \/ DeliverLibrary(r) \/ DeliverPlayer(r)
      PROVE  ReadMonitor!Next
  BY <1>5, UntaggedTo, DeliverTo, Closes
<1> QED
  BY <1>1, <1>2, <1>3, <1>4, <1>5, FindUserObserves, SealStarts DEF ReadsNext, EnvironmentStep

LEMMA InitRefines == ReadsInit => ReadMonitor!Init
<1> SUFFICES ASSUME ReadsInit PROVE ReadMonitor!Init
  OBVIOUS
<1>1. \A r \in Read : ReadStage(read[r]) = "open" /\ Seen(read[r]) = {}
  BY DEF ReadsInit, Fresh, ReadStage, Seen
<1> QED
  BY <1>1 DEF ReadMonitor!Init

(***************************************************************************)
(* The filters.  A listing keeps the rows an item read alone would pass,   *)
(* and a user is told of an event only for a reason for which it could     *)
(* have named the event's object in a command.                             *)
(***************************************************************************)
LEMMA ListingIsRowwise ==
    ASSUME NEW user, NEW rows, NEW kind
    PROVE  \A row \in rows : RowAllowed(user, row, kind) <=> row \in FilterCollection(user, rows, kind)
BY DEF RowAllowed, FilterCollection, FilterRows

LEMMA ToldOnlyNameable ==
    ASSUME NEW user \in User, NEW row \in Row, IsEventObject(row),
           EventVisible(user, Providers, Players, row)
    PROVE  LET named == row.own \cup UNION {ReferenceNames(x) : x \in row.links}
               kind == IF row.own \cap Players # {} THEN "players" ELSE "sources"
           IN  Enforced(user, Providers, {[kind |-> kind, names |-> named]})
<1> DEFINE cited == UNION {ReferenceNames(x) : x \in row.links}
           named == row.own \cup cited
           kind == IF row.own \cap Players # {} THEN "players" ELSE "sources"
<1>1. user.players \subseteq PlayerName /\ user.sources \subseteq SourceName
  BY DEF User
<1>2. (row.own # {} => cited = {}) /\ (cited # {} => row.own = {})
  BY DEF IsEventObject
<1>3. \/ ~Filtered(user)
      \/ row.own \cap Players # {} /\ Within(row.own, user.players)
      \/ row.own \cap Players = {} /\ row.own # {} /\ Within(row.own, user.sources)
      \/ cited # {} /\ (user.sources = {} \/ cited \subseteq user.sources \cup Internal)
  BY DEF EventVisible
<1> SUFFICES Enforced(user, Providers, {[kind |-> kind, names |-> named]})
  OBVIOUS
<1> HIDE DEF cited
<1>4. Enforced(user, Providers, {[kind |-> kind, names |-> named]}) <=>
          \/ user.admin
          \/ kind = "players" /\ Within(named, user.players)
          \/ kind = "sources" /\ \/ user.sources = {}
                                 \/ \A name \in named : SourceAllowed(user, Providers, name)
  BY DEF Enforced
<1>5. \A name \in Internal \cup user.sources : SourceAllowed(user, Providers, name)
  BY DEF SourceAllowed
<1>6. CASE row.own \cap Players # {}
  <2>1. row.own # {}
    BY <1>6
  <2>2. kind = "players" /\ named = row.own /\ cited = {}
    BY <1>2, <1>6, <2>1
  <2>3. user.admin \/ Within(row.own, user.players)
    BY <1>3, <1>6, <2>2 DEF Filtered, Within
  <2> QED
    BY <1>4, <2>2, <2>3
<1>7. CASE row.own \cap Players = {}
  <2>1. kind = "sources"
    BY <1>7
  <2>2. \/ user.admin \/ user.sources = {}
        \/ cited = {} /\ row.own \subseteq user.sources
        \/ cited # {} /\ cited \subseteq user.sources \cup Internal
    BY <1>2, <1>3, <1>7 DEF Filtered, Within
  <2>3. \/ user.admin \/ user.sources = {}
        \/ named \subseteq user.sources \cup Internal
    BY <1>2, <2>2
  <2> QED
    BY <1>4, <1>5, <2>1, <2>3
<1> QED
  BY <1>6, <1>7

LEMMA InvShows == ReadsInv => ListingAgrees /\ EventsWithinReach
<1> SUFFICES ASSUME ReadsInv PROVE ListingAgrees /\ EventsWithinReach
  OBVIOUS
<1>1. account.filter \in User /\ Catalogue \subseteq Row
  BY ReadsAssumption DEF ReadsInv, SettingsOK, AccountRecord
<1>2. ListingAgrees
  BY ListingIsRowwise DEF ListingAgrees
<1>3. EventsWithinReach
  BY <1>1, ToldOnlyNameable DEF EventsWithinReach
<1> QED
  BY <1>2, <1>3

(***************************************************************************)
(* Theorems.                                                               *)
(***************************************************************************)

(* Settings and reads keep their types, and a read at a step has what the    *)
(* step needs (ResourceAuthorizer.authorize).                                *)
THEOREM ReadsTypeCorrect == ReadsSpec => []ReadsTypeOK
<1>1. ReadsInv => ReadsTypeOK
  BY InvGives
<1> QED
  BY InitSound, StepSound, <1>1, PTL DEF ReadsSpec

(* A refused read and an item withheld leave one record each, anything else  *)
(* none, and no item outside the user's filter is delivered.                 *)
THEOREM RefusalsAuditedHolds == ReadsSpec => []RefusalsAudited
<1>1. ReadsInv => RefusalsAudited
  BY InvGives
<1> QED
  BY InitSound, StepSound, <1>1, PTL DEF ReadsSpec

(* A read reaches its handler only past a check that is right in its step,   *)
(* whatever changed at its awaits: it implements the monitor of the calls.   *)
THEOREM ReadsImplementMonitor == ReadsSpec => ReadMonitorSpec
BY InitSound, StepSound, InitRefines, StepRefines, PTL
DEF ReadsSpec, ReadMonitorSpec, ReadMonitor!Spec

(* A listing hides exactly the rows that an item read alone hides            *)
(* (filter_collection_result, collection_row_allowed).                       *)
THEOREM ListingAgreesHolds == ReadsSpec => []ListingAgrees
BY InitSound, StepSound, InvShows, PTL DEF ReadsSpec

(* No user is told of an event whose object it may not name in a command     *)
(* (event_object_visible, enforce_target_filters).                           *)
THEOREM EventsWithinReachHolds == ReadsSpec => []EventsWithinReach
BY InitSound, StepSound, InvShows, PTL DEF ReadsSpec

(***************************************************************************)
(* The provider's commands for any set of them, any tasks and any number   *)
(* of grants.  CommandAudited is inductive with the types.                 *)
(* ConfirmedInDispatch is not: it needs to know that an active grant is    *)
(* the one its owner carries, made for what the owner executes, so that no *)
(* copy of it another task carries is ever good for anything.  AllOrNothing *)
(* is not either: inside the loops MA has the commands whose callbacks are *)
(* left and those whose withdrawal raised, and no command is both.         *)
(***************************************************************************)
(* An active grant is in use, and by nobody else. *)
GrantsInUse ==
    \A g \in DOMAIN grant :
        grant[g].active =>
            /\ running[grant[g].owner].command = grant[g].command
            /\ running[grant[g].owner].accepted = (IF grant[g].covers THEN "own" ELSE "another")
            /\ carried[grant[g].owner] = g

(* A dispatcher carries a grant of its own as long as it executes what its    *)
(* user accepted.                                                             *)
DispatcherCarries ==
    \A t \in Dispatcher :
        running[t].accepted # "nothing" =>
            /\ carried[t] \in DOMAIN grant
            /\ grant[carried[t]].owner = t

(* What a running command was admitted on, and what it has left so far. *)
TasksSound ==
    /\ \A t \in Task :
          /\ task[t].entered = "confirm" => task[t].command # NoCommand
          /\ task[t].command # NoCommand => task[t].outcome = "none"
    /\ CommandAudited
    /\ ConfirmedInDispatch

(* The invariant of the calls. *)
CallsInv == CommandsTypeOK /\ GrantsInUse /\ DispatcherCarries /\ TasksSound

(***************************************************************************)
(* Types.                                                                  *)
(***************************************************************************)
LEMMA LoopBounds ==
    /\ Len(Definition) \in Nat /\ DOMAIN Definition = 1 .. Len(Definition)
    /\ CommandName = {Definition[i] : i \in 1 .. Len(Definition)}
BY CommandsAssumption DEF CommandsAssumption, CommandName

LEMMA LoopTyped ==
  ASSUME CommandsTypeOK
  PROVE  callbacks \in Nat /\ callbacks <= Len(Definition)
<1>1. callbacks \in 0 .. Len(Definition)
  BY DEF CommandsTypeOK
<1> QED
  BY <1>1, LoopBounds

LEMMA InitTypes == CommandsInit => CommandsTypeOK
<1> SUFFICES ASSUME CommandsInit PROVE CommandsTypeOK
  OBVIOUS
<1>1. grant = << >> /\ grant \in Seq(Grant) /\ Len(grant) = 0
  BY DEF CommandsInit
<1>5. Len(grant) <= MaxGrants /\ saves \in 0 .. MaxSaves
  BY <1>1, CommandsAssumption DEF CommandsInit, CommandsAssumption
<1>6. /\ phase \in Phase /\ started \in BOOLEAN /\ secured \in BOOLEAN
      /\ installed \subseteq CommandName /\ stuck \subseteq CommandName
      /\ mode \in [CommandName -> Mode]
  BY DEF CommandsInit, Phase
<1>7. callbacks \in 0 .. Len(Definition)
  BY LoopBounds DEF CommandsInit
<1>2. task \in [Task -> Invocation]
  BY DEF CommandsInit, Quiet, Invocation, Mode
<1>3. carried \in [Task -> 0 .. Len(grant)]
  BY <1>1 DEF CommandsInit
<1>4. running \in [Dispatcher -> Execution]
  BY DEF CommandsInit, Execution
<1> QED
  BY <1>1, <1>2, <1>3, <1>4, <1>5, <1>6, <1>7 DEF CommandsTypeOK

(* Registration and withdrawal touch nothing the calls use. *)
LEMMA SetTypes ==
  ASSUME CommandsTypeOK, SetNext
  PROVE  CommandsTypeOK' /\ UNCHANGED callVars
<1>1. UNCHANGED callVars
  BY DEF SetNext, Start, Register, Started, StartFails, Stop, Withdraw, Withdrawn
<1>2. phase' \in Phase /\ started' \in BOOLEAN
  BY DEF SetNext, Start, Register, Started, StartFails, Stop, Withdraw, Withdrawn,
         CommandsTypeOK, Phase
<1> DEFINE n == Len(Definition)
<1>3. n \in Nat /\ callbacks \in Nat /\ callbacks <= n
      /\ \A i \in 1 .. n : Definition[i] \in CommandName
  BY LoopBounds, LoopTyped
<1>4. installed \subseteq CommandName /\ stuck \subseteq CommandName
  BY DEF CommandsTypeOK
<1> HIDE DEF n
<1>5. \/ callbacks' = callbacks /\ UNCHANGED <<installed, stuck>>
      \/ callbacks' = 0 /\ UNCHANGED <<installed, stuck>>
      \/ /\ callbacks < n /\ callbacks' = callbacks + 1 /\ UNCHANGED stuck
         /\ installed' = installed \cup {Definition[callbacks + 1]}
      \/ /\ callbacks > 0 /\ callbacks' = callbacks - 1
         /\ \/ installed' = installed \ {Definition[callbacks]} /\ UNCHANGED stuck
            \/ stuck' = stuck \cup {Definition[callbacks]} /\ UNCHANGED installed
  BY DEF n, SetNext, Start, Register, Started, StartFails, Stop, Withdraw, Withdrawn
<1>6. callbacks' \in 0 .. n
  BY <1>3, <1>5
<1>7. installed' \subseteq CommandName /\ stuck' \subseteq CommandName
  <2>1. callbacks < n => Definition[callbacks + 1] \in CommandName
    BY <1>3
  <2>2. callbacks > 0 => Definition[callbacks] \in CommandName
    BY <1>3
  <2> QED
    BY <1>4, <1>5, <2>1, <2>2
<1> QED
  BY <1>1, <1>2, <1>6, <1>7 DEF n, callVars, CommandsTypeOK

LEMMA SaveTypes ==
  ASSUME CommandsTypeOK, SaveModes
  PROVE  CommandsTypeOK'
BY CommandsAssumption DEF CommandsAssumption, SaveModes, setVars, CommandsTypeOK

LEMMA DispatchTypes ==
  ASSUME CommandsTypeOK, NEW t \in Dispatcher, NEW m \in CommandName, NEW accepted \in Accepted,
         Dispatch(t, m, accepted)
  PROVE  CommandsTypeOK'
<1> DEFINE made == [command |-> m, owner |-> t, covers |-> accepted = "own", active |-> TRUE]
<1>1. made \in Grant
  BY DEF Grant
<1>2. grant \in Seq(Grant) /\ Len(grant) \in Nat /\ Len(grant) <= MaxGrants
      /\ carried \in [Task -> 0 .. Len(grant)] /\ t \in Task
  BY DEF CommandsTypeOK, Task
<1>3. running' \in [Dispatcher -> Execution]
  BY DEF Dispatch, CommandsTypeOK, Execution
<1>4. CASE accepted = "nothing"
  BY <1>3, <1>4 DEF Dispatch, setVars, CommandsTypeOK
<1>5. CASE accepted # "nothing"
  <2>1. /\ grant' = Append(grant, made) /\ Len(grant) < MaxGrants
        /\ carried' = [carried EXCEPT ![t] = Len(grant) + 1]
    BY <1>5 DEF Dispatch
  <2>2. grant' \in Seq(Grant) /\ Len(grant') = Len(grant) + 1
    BY <1>1, <1>2, <2>1
  <2>3. Len(grant') <= MaxGrants
    BY <1>2, <2>1, <2>2, CommandsAssumption DEF CommandsAssumption
  <2>4. carried' \in [Task -> 0 .. Len(grant')]
    BY <1>2, <2>1, <2>2
  <2> QED
    BY <1>3, <2>2, <2>3, <2>4 DEF Dispatch, setVars, CommandsTypeOK
<1> QED
  BY <1>4, <1>5

LEMMA DispatchEndsTypes ==
  ASSUME CommandsTypeOK, DispatcherCarries, NEW t \in Dispatcher, DispatchEnds(t)
  PROVE  CommandsTypeOK' /\ DOMAIN grant' = DOMAIN grant
<1> DEFINE g == carried[t]
<1>1. running' \in [Dispatcher -> Execution]
  BY DEF DispatchEnds, CommandsTypeOK, Execution
<1>2. CASE running[t].accepted = "nothing"
  BY <1>1, <1>2 DEF DispatchEnds, setVars, CommandsTypeOK
<1>3. CASE running[t].accepted # "nothing"
  <2>1. g \in DOMAIN grant /\ grant \in Seq(Grant) /\ grant[g] \in Grant
    BY <1>3 DEF DispatcherCarries, CommandsTypeOK
  <2>2. grant' = [grant EXCEPT ![g].active = FALSE]
        /\ carried' = [carried EXCEPT ![t] = 0]
    BY <1>3 DEF DispatchEnds
  <2>3. [grant[g] EXCEPT !.active = FALSE] \in Grant
    BY <2>1 DEF Grant
  <2>4. grant' \in Seq(Grant) /\ Len(grant') = Len(grant) /\ DOMAIN grant' = DOMAIN grant
    BY <2>1, <2>2, <2>3
  <2>5. carried' \in [Task -> 0 .. Len(grant)]
    BY <2>2 DEF CommandsTypeOK, Task
  <2> QED
    BY <1>1, <2>4, <2>5 DEF DispatchEnds, setVars, CommandsTypeOK
<1> QED
  BY <1>2, <1>3

LEMMA SpawnTypes ==
  ASSUME CommandsTypeOK, NEW t \in Dispatcher, NEW s \in Spawned, Spawn(t, s)
  PROVE  CommandsTypeOK'
<1>1. carried' \in [Task -> 0 .. Len(grant)]
  BY DEF Spawn, CommandsTypeOK, Task
<1> QED
  BY <1>1 DEF Spawn, setVars, CommandsTypeOK

LEMMA InvokeTypes ==
  ASSUME CommandsTypeOK, NEW t \in Task, NEW m \in CommandName, Invoke(t, m)
  PROVE  CommandsTypeOK'
<1>1. [Quiet EXCEPT !.command = m, !.entered = mode[m]] \in Invocation
  BY DEF Quiet, Invocation, CommandsTypeOK, Mode
<1>2. [Quiet EXCEPT !.records = 1, !.outcome = "denied"] \in Invocation
  BY DEF Quiet, Invocation, Mode
<1>3. task' \in [Task -> Invocation]
  BY <1>1, <1>2 DEF Invoke, CommandsTypeOK
<1> QED
  BY <1>3 DEF Invoke, setVars, CommandsTypeOK

LEMMA ReturnsTypes ==
  ASSUME CommandsTypeOK, NEW t \in Task, Returns(t)
  PROVE  CommandsTypeOK'
<1>1. task[t] \in Invocation /\ task[t].records \in Nat
  BY DEF CommandsTypeOK, Invocation
<1> DEFINE n == task[t].records + 1
           left == [Quiet EXCEPT !.records = n, !.outcome = "returned"]
<1>2. left \in Invocation
  <2>1. n \in Nat
    BY <1>1
  <2> HIDE DEF n
  <2> QED
    BY <2>1 DEF Quiet, Invocation, Mode
<1>4. task' = [task EXCEPT ![t] = left]
  BY DEF Returns
<1> HIDE DEF left
<1>3. task' \in [Task -> Invocation]
  BY <1>2, <1>4 DEF CommandsTypeOK
<1> QED
  BY <1>3 DEF Returns, setVars, CommandsTypeOK

(***************************************************************************)
(* Preservation.                                                           *)
(***************************************************************************)
LEMMA InitCalls == CommandsInit => CallsInv
<1> SUFFICES ASSUME CommandsInit PROVE CallsInv
  OBVIOUS
<1>1. CommandsTypeOK
  BY InitTypes
<1>2. GrantsInUse /\ DispatcherCarries
  BY DEF CommandsInit, GrantsInUse, DispatcherCarries, Resting
<1>3. TasksSound
  BY DEF CommandsInit, TasksSound, CommandAudited, ConfirmedInDispatch, Quiet
<1> QED
  BY <1>1, <1>2, <1>3 DEF CallsInv

(* The grant of an execution that starts is a new one, so no dispatcher      *)
(* carries it; no grant of its owner was active before.                      *)
LEMMA DispatchInv ==
  ASSUME CallsInv, NEW t \in Dispatcher, NEW m \in CommandName, NEW accepted \in Accepted,
         Dispatch(t, m, accepted)
  PROVE  CallsInv'
<1> DEFINE made == [command |-> m, owner |-> t, covers |-> accepted = "own", active |-> TRUE]
           new  == Len(grant) + 1
           exec == [command |-> m, accepted |-> accepted]
<1>1. CommandsTypeOK'
  BY DispatchTypes DEF CallsInv
<1>2. /\ grant \in Seq(Grant) /\ Len(grant) \in Nat /\ DOMAIN grant = 1 .. Len(grant)
      /\ carried \in [Task -> 0 .. Len(grant)] /\ t \in Task
      /\ running \in [Dispatcher -> Execution]
      /\ task \in [Task -> Invocation]
  BY DEF CallsInv, CommandsTypeOK, Task
<1>3. /\ running' = [running EXCEPT ![t] = exec]
      /\ running[t] = Resting /\ IdleTask(t) /\ UNCHANGED task
  BY DEF Dispatch
<1>4. /\ running'[t] = exec
      /\ \A s \in Dispatcher \ {t} : running'[s] = running[s]
  BY <1>2, <1>3
<1>5. m # NoCommand /\ running[t].command = NoCommand
  BY <1>3, CommandsAssumption DEF CommandsAssumption, Resting
<1>6. \A g \in DOMAIN grant : grant[g] \in Grant
  BY <1>2
<1>7. \A g \in DOMAIN grant : grant[g].active => grant[g].owner \in Dispatcher \ {t}
  <2> SUFFICES ASSUME NEW g \in DOMAIN grant, grant[g].active
               PROVE  grant[g].owner \in Dispatcher \ {t}
    OBVIOUS
  <2>1. grant[g].owner \in Dispatcher /\ grant[g].command \in CommandName
    BY <1>6 DEF Grant
  <2>2. running[grant[g].owner].command = grant[g].command
    BY DEF CallsInv, GrantsInUse
  <2> QED
    BY <1>5, <2>1, <2>2, CommandsAssumption DEF CommandsAssumption
<1>8. TasksSound'
  <2>1. \A s \in Task : task[s].entered = "confirm" => task[s].command # NoCommand
    BY DEF CallsInv, TasksSound
  <2>2. task[t].entered # "confirm"
    BY <1>2, <1>3, <2>1 DEF IdleTask
  <2> QED
    BY <1>3, <1>4, <2>2 DEF CallsInv, TasksSound, CommandAudited, ConfirmedInDispatch
<1> HIDE DEF made, exec
<1>9. exec.command = m /\ exec.accepted = accepted
  BY DEF exec
<1>10. CASE accepted = "nothing"
  <2>1. UNCHANGED <<grant, carried>>
    BY <1>10 DEF Dispatch
  <2>2. GrantsInUse'
    BY <2>1, <1>4, <1>7 DEF CallsInv, GrantsInUse
  <2>3. DispatcherCarries'
    BY <2>1, <1>4, <1>9, <1>10 DEF CallsInv, DispatcherCarries
  <2> QED
    BY <1>1, <1>8, <2>2, <2>3 DEF CallsInv
<1>11. CASE accepted # "nothing"
  <2>1. grant' = Append(grant, made) /\ carried' = [carried EXCEPT ![t] = new]
    BY <1>11 DEF Dispatch, made
  <2>2. made \in Grant /\ made.owner = t /\ made.command = m /\ made.covers = (accepted = "own")
    BY DEF made, Grant
  <2>3. /\ DOMAIN grant' = 1 .. new
        /\ grant'[new] = made
        /\ \A g \in 1 .. Len(grant) : grant'[g] = grant[g]
    BY <1>2, <2>1, <2>2
  <2>4. /\ carried'[t] = new
        /\ \A s \in Dispatcher \ {t} : carried'[s] = carried[s]
    BY <1>2, <2>1 DEF Task
  <2>5. accepted = (IF made.covers THEN "own" ELSE "another")
    BY <1>11, <2>2 DEF Accepted
  <2>6. GrantsInUse'
    <3> SUFFICES ASSUME NEW g \in DOMAIN grant', grant'[g].active
                 PROVE  /\ running'[grant'[g].owner].command = grant'[g].command
                        /\ running'[grant'[g].owner].accepted
                              = (IF grant'[g].covers THEN "own" ELSE "another")
                        /\ carried'[grant'[g].owner] = g
      BY DEF GrantsInUse
    <3>1. CASE g = new
      BY <3>1, <1>4, <1>9, <2>2, <2>3, <2>4, <2>5
    <3>2. CASE g # new
      <4>1. g \in 1 .. Len(grant) /\ grant'[g] = grant[g]
        BY <3>2, <1>2, <2>3
      <4>2. grant[g].owner \in Dispatcher \ {t}
        BY <4>1, <1>2, <1>7
      <4> QED
        BY <4>1, <4>2, <1>2, <1>4, <2>4 DEF CallsInv, GrantsInUse
    <3> QED
      BY <3>1, <3>2
  <2>7. DispatcherCarries'
    <3> SUFFICES ASSUME NEW s \in Dispatcher, running'[s].accepted # "nothing"
                 PROVE  carried'[s] \in DOMAIN grant' /\ grant'[carried'[s]].owner = s
      BY DEF DispatcherCarries
    <3>1. CASE s = t
      BY <3>1, <1>2, <2>2, <2>3, <2>4
    <3>2. CASE s # t
      <4>1. carried[s] \in 1 .. Len(grant) /\ grant[carried[s]].owner = s
        BY <3>2, <1>2, <1>4 DEF CallsInv, DispatcherCarries
      <4> QED
        BY <3>2, <4>1, <1>2, <2>3, <2>4
    <3> QED
      BY <3>1, <3>2
  <2> QED
    BY <1>1, <1>8, <2>6, <2>7 DEF CallsInv
<1> QED
  BY <1>10, <1>11

(* The grant an execution ends with is the only one its task owns that was   *)
(* active.                                                                   *)
LEMMA DispatchEndsInv ==
  ASSUME CallsInv, NEW t \in Dispatcher, DispatchEnds(t)
  PROVE  CallsInv'
<1> DEFINE old == carried[t]
<1>1. CommandsTypeOK' /\ DOMAIN grant' = DOMAIN grant
  BY DispatchEndsTypes DEF CallsInv
<1>2. /\ grant \in Seq(Grant)
      /\ carried \in [Task -> 0 .. Len(grant)] /\ t \in Task
      /\ running \in [Dispatcher -> Execution]
      /\ task \in [Task -> Invocation]
  BY DEF CallsInv, CommandsTypeOK, Task
<1>3. /\ running' = [running EXCEPT ![t] = Resting]
      /\ running[t] # Resting /\ IdleTask(t) /\ UNCHANGED task
  BY DEF DispatchEnds
<1>4. /\ running'[t] = Resting
      /\ \A s \in Dispatcher \ {t} : running'[s] = running[s]
  BY <1>2, <1>3
<1>5. \A g \in DOMAIN grant : grant[g] \in Grant /\ grant[g].owner \in Dispatcher
  <2>1. \A g \in DOMAIN grant : grant[g] \in Grant
    BY <1>2
  <2> QED
    BY <2>1 DEF Grant
<1>6. TasksSound'
  <2>1. \A s \in Task : task[s].entered = "confirm" => task[s].command # NoCommand
    BY DEF CallsInv, TasksSound
  <2>2. task[t].entered # "confirm"
    BY <1>2, <1>3, <2>1 DEF IdleTask
  <2> QED
    BY <1>3, <1>4, <2>2 DEF CallsInv, TasksSound, CommandAudited, ConfirmedInDispatch
<1>7. Resting.accepted = "nothing"
  BY DEF Resting
<1>8. CASE running[t].accepted = "nothing"
  <2>1. UNCHANGED <<grant, carried>>
    BY <1>8 DEF DispatchEnds
  <2>2. \A g \in DOMAIN grant : grant[g].active => grant[g].owner # t
    <3> SUFFICES ASSUME NEW g \in DOMAIN grant, grant[g].active, grant[g].owner = t PROVE FALSE
      OBVIOUS
    <3>1. running[t].accepted = (IF grant[g].covers THEN "own" ELSE "another")
      BY DEF CallsInv, GrantsInUse
    <3> QED
      BY <1>8, <3>1
  <2>3. GrantsInUse'
    BY <2>1, <2>2, <1>4, <1>5 DEF CallsInv, GrantsInUse
  <2>4. DispatcherCarries'
    BY <2>1, <1>4, <1>7 DEF CallsInv, DispatcherCarries
  <2> QED
    BY <1>1, <1>6, <2>3, <2>4 DEF CallsInv
<1>9. CASE running[t].accepted # "nothing"
  <2>1. old \in DOMAIN grant /\ grant[old].owner = t
    BY <1>9 DEF CallsInv, DispatcherCarries
  <2>2. grant' = [grant EXCEPT ![old].active = FALSE] /\ carried' = [carried EXCEPT ![t] = 0]
    BY <1>9 DEF DispatchEnds
  <2>3. /\ ~grant'[old].active
        /\ \A g \in DOMAIN grant \ {old} : grant'[g] = grant[g]
        /\ \A g \in DOMAIN grant : grant'[g].owner = grant[g].owner
    <3> DEFINE ended == [grant[old] EXCEPT !.active = FALSE]
    <3>1. ~ended.active /\ ended.owner = grant[old].owner
      BY <1>5, <2>1 DEF Grant
    <3>2. grant' = [grant EXCEPT ![old] = ended]
      BY <2>2
    <3> HIDE DEF ended
    <3>3. grant'[old] = ended /\ \A g \in DOMAIN grant \ {old} : grant'[g] = grant[g]
      BY <3>2, <1>2, <2>1
    <3> QED
      BY <3>1, <3>3
  <2>4. \A s \in Dispatcher \ {t} : carried'[s] = carried[s]
    BY <1>2, <2>2 DEF Task
  <2>5. GrantsInUse'
    <3> SUFFICES ASSUME NEW g \in DOMAIN grant, grant'[g].active
                 PROVE  /\ running'[grant'[g].owner].command = grant'[g].command
                        /\ running'[grant'[g].owner].accepted
                              = (IF grant'[g].covers THEN "own" ELSE "another")
                        /\ carried'[grant'[g].owner] = g
      BY <1>1 DEF GrantsInUse
    <3>1. g # old /\ grant'[g] = grant[g]
      BY <2>3
    <3>2. carried[grant[g].owner] = g /\ grant[g].owner \in Dispatcher
      BY <3>1, <1>5 DEF CallsInv, GrantsInUse
    <3>3. grant[g].owner # t
      BY <3>1, <3>2
    <3> QED
      BY <3>1, <3>2, <3>3, <1>4, <2>4 DEF CallsInv, GrantsInUse
  <2>6. DispatcherCarries'
    BY <1>1, <1>4, <1>7, <2>3, <2>4 DEF CallsInv, DispatcherCarries
  <2> QED
    BY <1>1, <1>6, <2>5, <2>6 DEF CallsInv
<1> QED
  BY <1>8, <1>9

(* A spawned task copies a grant it does not own. *)
LEMMA SpawnInv ==
  ASSUME CallsInv, NEW t \in Dispatcher, NEW s \in Spawned, Spawn(t, s)
  PROVE  CallsInv'
<1>1. CommandsTypeOK'
  BY SpawnTypes DEF CallsInv
<1>2. UNCHANGED <<grant, running, task>>
  BY DEF Spawn
<1>3. \A d \in Dispatcher : carried'[d] = carried[d]
  BY CommandsAssumption DEF CommandsAssumption, Spawn, CallsInv, CommandsTypeOK, Task
<1>4. GrantsInUse'
  <2>1. grant \in Seq(Grant)
    BY DEF CallsInv, CommandsTypeOK
  <2>2. \A g \in DOMAIN grant : grant[g] \in Grant
    BY <2>1
  <2>3. \A g \in DOMAIN grant : grant[g].owner \in Dispatcher
    BY <2>2 DEF Grant
  <2> QED
    BY <1>2, <1>3, <2>3 DEF CallsInv, GrantsInUse
<1>5. DispatcherCarries'
  BY <1>2, <1>3 DEF CallsInv, DispatcherCarries
<1>6. TasksSound'
  BY <1>2 DEF CallsInv, TasksSound, CommandAudited, ConfirmedInDispatch
<1> QED
  BY <1>1, <1>4, <1>5, <1>6 DEF CallsInv

(* Whoever finds the command confirmed owns an active grant for it, and is   *)
(* therefore the dispatcher that executes it.                                *)
LEMMA InvokeInv ==
  ASSUME CallsInv, NEW t \in Task, NEW m \in CommandName, Invoke(t, m)
  PROVE  CallsInv'
<1>1. CommandsTypeOK'
  BY InvokeTypes DEF CallsInv
<1>2. UNCHANGED <<grant, carried, running>>
  BY DEF Invoke
<1>3. PICK caller \in Caller :
        task' = [task EXCEPT ![t] =
            IF Admitted(t, m, caller)
            THEN [Quiet EXCEPT !.command = m, !.entered = mode[m]]
            ELSE [Quiet EXCEPT !.records = 1, !.outcome = "denied"]]
  BY DEF Invoke
<1>4. GrantsInUse' /\ DispatcherCarries'
  BY <1>2 DEF CallsInv, GrantsInUse, DispatcherCarries
<1>5. /\ task \in [Task -> Invocation]
      /\ \A s \in Task \ {t} : task'[s] = task[s]
  BY <1>3 DEF CallsInv, CommandsTypeOK
<1>6. m # NoCommand
  BY CommandsAssumption DEF CommandsAssumption
<1>7. CASE Admitted(t, m, caller)
  <2>1. task'[t] = [Quiet EXCEPT !.command = m, !.entered = mode[m]]
    BY <1>3, <1>5, <1>7
  <2>2. /\ task'[t].command = m /\ task'[t].entered = mode[m]
        /\ task'[t].records = 0 /\ task'[t].outcome = "none"
    BY <2>1 DEF Quiet
  <2>3. ASSUME mode[m] = "confirm"
        PROVE  t \in Dispatcher /\ running[t] = [command |-> m, accepted |-> "own"]
    <3> DEFINE g == carried[t]
    <3>1. /\ g # 0 /\ grant[g].active /\ grant[g].owner = t
          /\ grant[g].command = m /\ grant[g].covers
      BY <1>7, <2>3 DEF Admitted, Confirmed
    <3>2. g \in DOMAIN grant /\ grant[g] \in Grant
      <4>1. g \in 0 .. Len(grant) /\ grant \in Seq(Grant)
        BY DEF CallsInv, CommandsTypeOK
      <4> QED
        BY <4>1, <3>1
    <3>3. t \in Dispatcher
      BY <3>1, <3>2 DEF Grant
    <3>4. running[t].command = m /\ running[t].accepted = "own"
      BY <3>1, <3>2 DEF CallsInv, GrantsInUse
    <3>5. running[t] \in Execution /\ m # NoCommand
      BY <3>3, <1>6 DEF CallsInv, CommandsTypeOK
    <3>6. running[t] \in [command : CommandName, accepted : Accepted]
      BY <3>4, <3>5 DEF Execution, Resting
    <3> QED
      BY <3>3, <3>4, <3>6
  <2> QED
    BY <1>1, <1>2, <1>4, <1>5, <1>6, <2>2, <2>3
    DEF CallsInv, TasksSound, CommandAudited, ConfirmedInDispatch
<1>8. CASE ~Admitted(t, m, caller)
  <2>1. task'[t] = [Quiet EXCEPT !.records = 1, !.outcome = "denied"]
    BY <1>3, <1>5, <1>8
  <2>2. /\ task'[t].command = NoCommand /\ task'[t].entered = "deny"
        /\ task'[t].records = 1 /\ task'[t].outcome = "denied"
    BY <2>1 DEF Quiet
  <2> QED
    BY <1>1, <1>2, <1>4, <1>5, <2>2
    DEF CallsInv, TasksSound, CommandAudited, ConfirmedInDispatch
<1> QED
  BY <1>7, <1>8

(* Only a command that runs ends, and it has left no record yet. *)
LEMMA ReturnsInv ==
  ASSUME CallsInv, NEW t \in Task, Returns(t)
  PROVE  CallsInv'
<1>1. CommandsTypeOK'
  BY ReturnsTypes DEF CallsInv
<1>2. GrantsInUse' /\ DispatcherCarries' /\ UNCHANGED running
  BY DEF Returns, CallsInv, GrantsInUse, DispatcherCarries
<1>3. task[t].records = 0
  BY DEF Returns, IdleTask, CallsInv, TasksSound, CommandAudited
<1>4. task' = [task EXCEPT ![t] = [Quiet EXCEPT !.records = 1, !.outcome = "returned"]]
  BY <1>3 DEF Returns
<1>5. /\ task \in [Task -> Invocation]
      /\ \A s \in Task \ {t} : task'[s] = task[s]
      /\ task'[t] = [Quiet EXCEPT !.records = 1, !.outcome = "returned"]
  BY <1>4 DEF CallsInv, CommandsTypeOK
<1>6. /\ task'[t].command = NoCommand /\ task'[t].entered = "deny"
      /\ task'[t].records = 1 /\ task'[t].outcome = "returned"
  BY <1>5 DEF Quiet
<1>7. TasksSound'
  <2>1. \A s \in Task \ {t} : task'[s] = task[s]
    BY <1>5
  <2>2. TasksSound
    BY DEF CallsInv
  <2> QED
    BY <1>2, <1>6, <2>1, <2>2 DEF TasksSound, CommandAudited, ConfirmedInDispatch
<1> QED
  BY <1>1, <1>2, <1>7 DEF CallsInv

LEMMA CallsStep == CallsInv /\ [CommandsNext]_commandVars => CallsInv'
<1> SUFFICES ASSUME CallsInv, [CommandsNext]_commandVars PROVE CallsInv'
  OBVIOUS
<1>1. CASE SetNext
  <2>1. CommandsTypeOK' /\ UNCHANGED callVars
    BY <1>1, SetTypes DEF CallsInv
  <2>2. GrantsInUse' /\ DispatcherCarries' /\ TasksSound'
    BY <2>1 DEF callVars, CallsInv, GrantsInUse, DispatcherCarries, TasksSound,
                CommandAudited, ConfirmedInDispatch
  <2> QED
    BY <2>1, <2>2 DEF CallsInv
<1>2. CASE SaveModes
  <2>1. CommandsTypeOK' /\ UNCHANGED <<grant, carried, running, task>>
    BY <1>2, SaveTypes DEF CallsInv, SaveModes
  <2>2. GrantsInUse' /\ DispatcherCarries' /\ TasksSound'
    BY <2>1 DEF CallsInv, GrantsInUse, DispatcherCarries, TasksSound,
                CommandAudited, ConfirmedInDispatch
  <2> QED
    BY <2>1, <2>2 DEF CallsInv
<1>3. CASE \E t \in Dispatcher : DispatchEnds(t)
  BY <1>3, DispatchEndsInv
<1>4. CASE \E t \in Dispatcher, m \in CommandName, a \in Accepted : Dispatch(t, m, a)
  BY <1>4, DispatchInv
<1>5. CASE \E t \in Dispatcher, s \in Spawned : Spawn(t, s)
  BY <1>5, SpawnInv
<1>6. CASE \E t \in Task, m \in CommandName : Invoke(t, m)
  BY <1>6, InvokeInv
<1>7. CASE \E t \in Task : Returns(t)
  BY <1>7, ReturnsInv
<1>8. CASE UNCHANGED commandVars
  BY <1>8 DEF commandVars, setVars, callVars, CallsInv, CommandsTypeOK, GrantsInUse, DispatcherCarries,
              TasksSound, CommandAudited, ConfirmedInDispatch
<1> QED
  BY <1>1, <1>2, <1>3, <1>4, <1>5, <1>6, <1>7, <1>8 DEF CommandsNext, CallsNext

(***************************************************************************)
(* Theorems.                                                               *)
(***************************************************************************)

(* The variables keep their types in every run of the commands. *)
THEOREM CommandsTypeCorrect == CommandsSpec => []CommandsTypeOK
<1>1. CallsInv => CommandsTypeOK
  BY DEF CallsInv
<1> QED
  BY InitCalls, CallsStep, <1>1, PTL DEF CommandsSpec

(* Each invocation of a command, returned, raised, cancelled or refused,     *)
(* leaves one audit record, and none before it ends (execute_audited).       *)
THEOREM CommandAuditedHolds == CommandsSpec => []CommandAudited
<1>1. CallsInv => CommandAudited
  BY DEF CallsInv, TasksSound
<1> QED
  BY InitCalls, CallsStep, <1>1, PTL DEF CommandsSpec

(* What capability_was_confirmed admits runs in the dispatcher's task whose  *)
(* user accepted this command's capability for this execution.               *)
THEOREM ConfirmedInDispatchHolds == CommandsSpec => []ConfirmedInDispatch
<1>1. CallsInv => ConfirmedInDispatch
  BY DEF CallsInv, TasksSound
<1> QED
  BY InitCalls, CallsStep, <1>1, PTL DEF CommandsSpec

(* Where the loops are: MA has the commands whose callbacks are left, and     *)
(* those that would not be withdrawn.                                         *)
Left == {Definition[i] : i \in 1 .. callbacks}

LoopInv ==
    /\ CommandsTypeOK
    /\ installed = Left \cup stuck /\ Left \cap stuck = {}
    /\ phase = "rest" => callbacks = (IF started THEN Len(Definition) ELSE 0)
    /\ started => phase = "rest"

LEMMA PrefixGrows ==
  ASSUME NEW n \in Nat
  PROVE  {Definition[i] : i \in 1 .. n + 1} = {Definition[i] : i \in 1 .. n} \cup {Definition[n + 1]}
<1>1. 1 .. n + 1 = (1 .. n) \cup {n + 1}
  OBVIOUS
<1> QED
  BY <1>1

LEMMA LoopsKeep ==
  ASSUME LoopInv, CommandsTypeOK', SetNext
  PROVE  LoopInv'
<1>1. CASE Start
  <2>1. callbacks = 0 /\ callbacks' = 0 /\ UNCHANGED <<started, installed, stuck>>
    BY <1>1 DEF Start, LoopInv
  <2> QED
    BY <1>1, <2>1 DEF Start, LoopInv, Left
<1>2. CASE Register
  <2> DEFINE name == Definition[callbacks + 1]
  <2>1. /\ phase = "registering" /\ name \notin installed
        /\ installed' = installed \cup {name} /\ callbacks' = callbacks + 1
        /\ UNCHANGED <<phase, started, stuck>>
    BY <1>2 DEF Register
  <2>2. Left' = Left \cup {name}
    <3>1. callbacks \in Nat
      BY LoopTyped DEF LoopInv
    <3> QED
      BY <2>1, <3>1, PrefixGrows DEF Left
  <2> QED
    BY <2>1, <2>2 DEF LoopInv
<1>3. CASE Started
  BY <1>3 DEF Started, LoopInv, Left
<1>4. CASE StartFails
  BY <1>4 DEF StartFails, LoopInv, Left
<1>5. CASE Stop
  BY <1>5 DEF Stop, LoopInv, Left
<1>6. CASE Withdraw
  <2> DEFINE name == Definition[callbacks]
  <2>1. /\ phase \in {"unwinding", "withdrawing"} /\ callbacks > 0 /\ callbacks' = callbacks - 1
        /\ \/ installed' = installed \ {name} /\ UNCHANGED stuck
           \/ stuck' = stuck \cup {name} /\ UNCHANGED installed
        /\ UNCHANGED <<phase, started>>
    BY <1>6 DEF Withdraw
  <2>2. callbacks \in 1 .. Len(Definition) /\ callbacks' \in Nat
    <3>1. callbacks \in Nat /\ callbacks <= Len(Definition) /\ Len(Definition) \in Nat
      BY LoopTyped, LoopBounds DEF LoopInv
    <3> QED
      BY <2>1, <3>1
  <2>3. Left = Left' \cup {name}
    <3>1. callbacks = callbacks' + 1
      BY <2>1, <2>2
    <3> QED
      BY <2>2, <3>1, PrefixGrows DEF Left
  <2>4. name \notin Left'
    <3> SUFFICES ASSUME NEW i \in 1 .. callbacks', Definition[i] = name PROVE FALSE
      BY DEF Left
    <3>1. i \in DOMAIN Definition /\ callbacks \in DOMAIN Definition
      BY <2>1, <2>2, LoopBounds
    <3>2. i = callbacks
      BY <3>1, CommandsAssumption DEF CommandsAssumption
    <3> QED
      BY <2>1, <2>2, <3>2
  <2>5. installed' = Left' \cup stuck' /\ Left' \cap stuck' = {}
    BY <2>1, <2>3, <2>4 DEF LoopInv
  <2> QED
    BY <2>1, <2>5 DEF LoopInv
<1>7. CASE Withdrawn
  BY <1>7 DEF Withdrawn, LoopInv, Left
<1> QED
  BY <1>1, <1>2, <1>3, <1>4, <1>5, <1>6, <1>7 DEF SetNext

(* Between starts and stops MA has all of the commands, or none but those    *)
(* whose withdrawal raised, whatever a start fails at and however many       *)
(* withdrawals do (ProviderCommandSet).                                      *)
THEOREM AllOrNothingHolds == CommandsSpec => []AllOrNothing
<1>1. CommandsInit => LoopInv
  <2> SUFFICES ASSUME CommandsInit PROVE LoopInv
    OBVIOUS
  <2>1. CommandsTypeOK
    BY InitTypes
  <2>2. Left = {}
    BY DEF CommandsInit, Left
  <2> QED
    BY <2>1, <2>2 DEF CommandsInit, LoopInv
<1>2. CommandsTypeOK' /\ LoopInv /\ [CommandsNext]_commandVars => LoopInv'
  <2> SUFFICES ASSUME CommandsTypeOK', LoopInv, [CommandsNext]_commandVars PROVE LoopInv'
    OBVIOUS
  <2>1. CASE SetNext
    BY <2>1, LoopsKeep
  <2>2. CASE UNCHANGED setVars
    BY <2>2 DEF setVars, LoopInv, Left
  <2> QED
    BY <2>1, <2>2
    DEF CommandsNext, CallsNext, SaveModes, DispatchEnds, Dispatch, Spawn, Invoke, Returns,
        commandVars
<1>3. LoopInv => AllOrNothing
  <2> SUFFICES ASSUME LoopInv, phase = "rest"
               PROVE  installed = (IF started THEN CommandName ELSE stuck) /\ (started => stuck = {})
    BY DEF AllOrNothing
  <2>1. CASE started
    <3>1. Left = CommandName
      BY <2>1, LoopBounds DEF LoopInv, Left
    <3>2. stuck \subseteq CommandName
      BY DEF LoopInv, CommandsTypeOK
    <3> QED
      BY <2>1, <3>1, <3>2 DEF LoopInv
  <2>2. CASE ~started
    <3>1. Left = {}
      BY <2>2 DEF LoopInv, Left
    <3> QED
      BY <2>2, <3>1 DEF LoopInv
  <2> QED
    BY <2>1, <2>2
<1> QED
  BY <1>1, <1>2, <1>3, CommandsTypeCorrect, PTL DEF CommandsSpec

(***************************************************************************)
(* Removing queue items.  What one turn of the loop keeps is Held; so it   *)
(* holds after any number of turns.                                        *)
(***************************************************************************)
(* Taking one item out of a sequence of distinct ones. *)
LEMMA RemoveAtIs ==
    ASSUME NEW S, NEW s \in Seq(S), IsInjective(s), NEW i \in 1 .. Len(s)
    PROVE  LET t == RemoveAt(s, i)
           IN  /\ t \in Seq(S) /\ Len(t) = Len(s) - 1 /\ IsInjective(t)
               /\ \A j \in 1 .. i - 1 : j \in 1 .. Len(t) /\ t[j] = s[j]
               /\ Range(t) = Range(s) \ {s[i]}
<1> DEFINE t == RemoveAt(s, i)
           n == Len(s)
           a == SubSeq(s, 1, i - 1)
           b == SubSeq(s, i + 1, n)
<1>1. n \in Nat /\ i \in 1 .. n /\ i \in Nat /\ i <= n /\ i >= 1
  OBVIOUS
<1>2. a \in Seq(S) /\ Len(a) = i - 1 /\ \A j \in 1 .. i - 1 : a[j] = s[j]
  BY <1>1, SubSeqProperties
<1>3. b \in Seq(S) /\ Len(b) = n - i /\ \A j \in 1 .. n - i : b[j] = s[i + j]
  BY <1>1, SubSeqProperties
<1>4. t = a \o b
  BY DEF RemoveAt
<1> HIDE DEF a, b, n, t
<1>5. t \in Seq(S) /\ Len(t) = n - 1
  <2>1. a \o b \in Seq(S) /\ Len(a \o b) = Len(a) + Len(b)
    BY <1>2, <1>3, ConcatProperties
  <2>2. (i - 1) + (n - i) = n - 1
    BY <1>1
  <2> QED
    BY <1>2, <1>3, <1>4, <2>1, <2>2
<1>6. \A j \in 1 .. i - 1 : j \in 1 .. n - 1 /\ t[j] = s[j]
  BY <1>1, <1>2, <1>3, <1>4
<1>7. \A j \in i .. n - 1 : t[j] = s[j + 1]
  <2> TAKE j \in i .. n - 1
  <2>1. j - (i - 1) \in 1 .. n - i /\ i + (j - (i - 1)) = j + 1 /\ j \in Nat
    BY <1>1
  <2>2. t[j] = b[j - (i - 1)]
    BY <1>1, <1>2, <1>3, <1>4, <2>1
  <2> QED
    BY <1>3, <2>1, <2>2
<1> DEFINE from(j) == IF j < i THEN j ELSE j + 1
<1>8. \A j \in 1 .. n - 1 : from(j) \in 1 .. n /\ from(j) # i /\ t[j] = s[from(j)]
  BY <1>1, <1>6, <1>7
<1>9. DOMAIN s = 1 .. n /\ DOMAIN t = 1 .. n - 1
  BY <1>5 DEF n
<1>10. \A j, k \in 1 .. n : s[j] = s[k] => j = k
  BY <1>9 DEF IsInjective
<1>11. IsInjective(t)
  <2> SUFFICES ASSUME NEW j \in 1 .. n - 1, NEW k \in 1 .. n - 1, t[j] = t[k] PROVE j = k
    BY <1>9 DEF IsInjective
  <2>1. from(j) = from(k)
    BY <1>8, <1>10
  <2> QED
    BY <1>1, <2>1
<1>12. Range(t) \subseteq Range(s) \ {s[i]}
  <2> SUFFICES ASSUME NEW j \in 1 .. n - 1 PROVE t[j] \in Range(s) /\ t[j] # s[i]
    BY <1>9 DEF Range
  <2> QED
    BY <1>1, <1>8, <1>9, <1>10 DEF Range
<1>13. ASSUME NEW k \in 1 .. n, k # i PROVE s[k] \in Range(t)
  <2>1. CASE k < i
    BY <1>1, <1>6, <1>9, <2>1 DEF Range
  <2>2. CASE k > i
    <3>1. k - 1 \in i .. n - 1 /\ k - 1 \in 1 .. n - 1 /\ (k - 1) + 1 = k
      BY <1>1, <2>2
    <3> QED
      BY <1>7, <1>9, <3>1 DEF Range
  <2> QED
    BY <1>1, <1>13, <2>1, <2>2
<1>14. Range(s) \ {s[i]} \subseteq Range(t)
  <2> SUFFICES ASSUME NEW k \in 1 .. n, s[k] # s[i] PROVE s[k] \in Range(t)
    BY <1>9 DEF Range
  <2> QED
    BY <1>13
<1> QED
  BY <1>5, <1>6, <1>11, <1>12, <1>14 DEF n, t

(* What the player has heard or fetched: these positions a removal leaves. *)
Heard(i) == i <= current \/ i <= buffered

Behind == current <= Len(items) /\ buffered <= Len(items) /\ Len(items) <= MaxItems

Turn == [items : Seq(Item), told : Report]

Held(r, refused) ==
    /\ IsInjective(r.items) /\ Len(r.items) <= Len(items)
    /\ \A i \in 1 .. Len(items) : Heard(i) => i <= Len(r.items) /\ r.items[i] = items[i]
    /\ r.told["removed"] \cap Range(r.items) = {}
    /\ \A x \in r.told["played"] \cup r.told["buffered"] :
          /\ x \in Range(r.items)
          /\ x \in refused \/ \E i \in 1 .. Len(items) : Heard(i) /\ items[i] = x

LEMMA AfterKeeps ==
    ASSUME QueueTypeOK, Behind, NEW id \in Item, NEW broken, NEW refused,
           NEW r \in Turn, Held(r, refused)
    PROVE  After(r, id, broken, refused) \in Turn /\ Held(After(r, id, broken, refused), refused)
<1> DEFINE index == CHOOSE i \in 1 .. Len(r.items) : r.items[i] = id
           t == After(r, id, broken, refused)
<1>1. /\ r.items \in Seq(Item) /\ r.told \in Report /\ IsInjective(r.items)
      /\ items \in Seq(Item) /\ current \in Nat /\ buffered \in Nat
      /\ Len(items) \in Nat /\ Len(r.items) \in Nat
  BY PlayerQueueAssumption DEF Turn, Held, QueueTypeOK
<1> HIDE DEF t
<1>2. ASSUME t = Filed(r, r.items, "missing", id)
      PROVE  t \in Turn /\ Held(t, refused)
  <2>1. /\ t \in Turn /\ t.items = r.items /\ t.told["removed"] = r.told["removed"]
        /\ t.told["played"] \cup t.told["buffered"] = r.told["played"] \cup r.told["buffered"]
    BY <1>1, <1>2 DEF Filed, Turn, Report, Outcome
  <2> QED
    BY <2>1 DEF Held
<1>3. ASSUME id \in Range(r.items)
      PROVE  index \in 1 .. Len(r.items) /\ r.items[index] = id
  <2>1. \E i \in 1 .. Len(r.items) : r.items[i] = id
    BY <1>1, <1>3 DEF Range
  <2> QED
    BY <2>1
<1> HIDE DEF index
<1>4. ASSUME id \in Range(r.items), Heard(index)
      PROVE  \E i \in 1 .. Len(items) : Heard(i) /\ items[i] = id
  <2>1. index \in 1 .. Len(items)
    BY <1>1, <1>3, <1>4 DEF Held
  <2>2. items[index] = id
    BY <1>3, <1>4, <2>1 DEF Held
  <2> QED
    BY <1>4, <2>1, <2>2
<1>5. ASSUME id \in Range(r.items), Heard(index) \/ id \in refused,
             t = Filed(r, r.items, "played", id) \/ t = Filed(r, r.items, "buffered", id)
      PROVE  t \in Turn /\ Held(t, refused)
  <2>1. /\ t \in Turn /\ t.items = r.items /\ t.told["removed"] = r.told["removed"]
        /\ t.told["played"] \cup t.told["buffered"] =
              (r.told["played"] \cup r.told["buffered"]) \cup {id}
    BY <1>1, <1>5 DEF Filed, Turn, Report, Outcome
  <2> QED
    BY <1>4, <1>5, <2>1 DEF Held
<1>6. ASSUME id \in Range(r.items), ~Heard(index), id \notin refused,
             t = Filed(r, RemoveAt(r.items, index), "removed", id)
      PROVE  t \in Turn /\ Held(t, refused)
  <2>1. index \in 1 .. Len(r.items) /\ r.items[index] = id
    BY <1>3, <1>6
  <2> DEFINE left == RemoveAt(r.items, index)
  <2>2. /\ left \in Seq(Item) /\ Len(left) = Len(r.items) - 1 /\ IsInjective(left)
        /\ \A j \in 1 .. index - 1 : j \in 1 .. Len(left) /\ left[j] = r.items[j]
        /\ Range(left) = Range(r.items) \ {id}
    BY <1>1, <2>1, RemoveAtIs
  <2> HIDE DEF left
  <2>4. /\ t \in Turn /\ t.items = left
        /\ t.told["removed"] = r.told["removed"] \cup {id}
        /\ t.told["played"] = r.told["played"] /\ t.told["buffered"] = r.told["buffered"]
    <3>1. t = Filed(r, left, "removed", id)
      BY <1>6 DEF left
    <3> QED
      BY <1>1, <2>2, <3>1 DEF Filed, Turn, Report, Outcome
  <2>5. /\ t.items \in Seq(Item) /\ Len(t.items) = Len(r.items) - 1 /\ IsInjective(t.items)
        /\ \A j \in 1 .. index - 1 : j \in 1 .. Len(t.items) /\ t.items[j] = r.items[j]
        /\ Range(t.items) = Range(r.items) \ {id}
    BY <2>2, <2>4
  <2>6. ASSUME NEW i \in 1 .. Len(items), Heard(i)
        PROVE  i <= Len(t.items) /\ t.items[i] = items[i]
    <3>1. i <= Len(r.items) /\ r.items[i] = items[i]
      BY <2>6 DEF Held
    <3>2. i \in 1 .. index - 1
      BY <1>1, <1>6, <2>1, <2>6 DEF Heard
    <3> QED
      BY <2>5, <3>1, <3>2
  <2>7. ASSUME NEW x \in t.told["played"] \cup t.told["buffered"]
        PROVE  /\ x \in Range(t.items)
               /\ x \in refused \/ \E i \in 1 .. Len(items) : Heard(i) /\ items[i] = x
    <3>1. /\ x \in Range(r.items)
          /\ x \in refused \/ \E i \in 1 .. Len(items) : Heard(i) /\ items[i] = x
      BY <2>4, <2>7 DEF Held
    <3>2. ASSUME NEW i \in 1 .. Len(items), Heard(i), items[i] = id PROVE FALSE
      <4>1. r.items[i] = id /\ i \in 1 .. Len(r.items)
        BY <1>1, <3>2 DEF Held
      <4>2. i = index
        BY <1>1, <2>1, <4>1 DEF IsInjective
      <4> QED
        BY <1>6, <3>2, <4>2
    <3> QED
      BY <1>6, <2>5, <3>1, <3>2
  <2>8. t.told["removed"] \cap Range(t.items) = {}
    BY <2>4, <2>5 DEF Held
  <2>9. Len(t.items) <= Len(items)
    BY <1>1, <2>5 DEF Held
  <2> QED
    BY <2>4, <2>5, <2>6, <2>7, <2>8, <2>9 DEF Held
<1>7. \/ t = Filed(r, r.items, "missing", id)
      \/ /\ id \in Range(r.items) /\ (Heard(index) \/ id \in refused)
         /\ t = Filed(r, r.items, "played", id) \/ t = Filed(r, r.items, "buffered", id)
      \/ /\ id \in Range(r.items) /\ ~Heard(index) /\ id \notin refused
         /\ t = Filed(r, RemoveAt(r.items, index), "removed", id)
  BY <1>1 DEF After, Heard, t, index
<1>8. t \in Turn /\ Held(t, refused)
  <2>1. CASE t = Filed(r, r.items, "missing", id)
    BY <1>2, <2>1
  <2>2. CASE /\ id \in Range(r.items) /\ (Heard(index) \/ id \in refused)
             /\ t = Filed(r, r.items, "played", id) \/ t = Filed(r, r.items, "buffered", id)
    BY <1>5, <2>2
  <2>3. CASE /\ id \in Range(r.items) /\ ~Heard(index) /\ id \notin refused
             /\ t = Filed(r, RemoveAt(r.items, index), "removed", id)
    BY <1>6, <2>3
  <2> QED
    BY <1>7, <2>1, <2>2, <2>3
<1> QED
  BY <1>8 DEF t

(* Any number of turns: the ids one after the other. *)
LEMMA TurnsKeep ==
    ASSUME QueueTypeOK, Behind, ReportTrue, NEW ids \in Requests, NEW broken, NEW refused
    PROVE  Turns(ids, broken, refused) \in Turn /\ Held(Turns(ids, broken, refused), refused)
<1> DEFINE k == Len(ids)
           R == {r \in Turn : Held(r, refused)}
           start == [items |-> items, told |-> Nothing]
           step == [x \in (1 .. k) \X R |-> After(x[2], ids[x[1]], broken, refused)]
           Runs(f) == f = [n \in 0 .. k |->
                              IF n = 0 THEN start
                              ELSE After(f[n - 1], ids[n], broken, refused)]
           upto == CHOOSE f : Runs(f)
<1>1. k \in Nat /\ \A n \in 1 .. k : ids[n] \in Item
  <2>1. PICK m \in 1 .. MaxRequest : ids \in [1 .. m -> Item]
    BY DEF Requests
  <2>2. m \in Nat /\ Len(ids) = m
    BY <2>1, PlayerQueueAssumption
  <2> QED
    BY <2>1, <2>2
<1>2. start \in R
  <2>1. start \in Turn
    BY DEF Turn, QueueTypeOK, Nothing, Report, Outcome
  <2>2. /\ start.items = items /\ start.told["removed"] = {}
        /\ start.told["played"] = {} /\ start.told["buffered"] = {}
    BY DEF Nothing, Outcome
  <2> HIDE DEF start
  <2> QED
    BY <2>1, <2>2 DEF Held, QueueTypeOK
<1>3. \A n \in 1 .. k, r \in R : After(r, ids[n], broken, refused) \in R
  BY <1>1, AfterKeeps
<1> HIDE DEF R
<1>4. Steps(step, k, R)
  <2>1. \A x \in (1 .. k) \X R : x[1] \in 1 .. k /\ x[2] \in R
    OBVIOUS
  <2> QED
    BY <1>3, <2>1 DEF Steps
<1>5. \A n \in 1 .. k, r \in R : step[<<n, r>>] = After(r, ids[n], broken, refused)
  OBVIOUS
<1>6. Turns(ids, broken, refused) = upto[k]
  BY DEF Turns
<1> HIDE DEF step, k, start
<1>7. \E f : Follows(f, start, step, k, R)
  BY <1>1, <1>2, <1>4, Stepwise
<1>8. PICK f \in [0 .. k -> R] :
          f[0] = start /\ \A n \in 1 .. k : f[n] = step[<<n, f[n - 1]>>]
  BY <1>7 DEF Follows
<1>9. \A n \in 1 .. k : n - 1 \in 0 .. k /\ f[n] = After(f[n - 1], ids[n], broken, refused)
  <2> TAKE n \in 1 .. k
  <2>1. n - 1 \in 0 .. k
    BY <1>1
  <2>2. f[n - 1] \in R /\ f[n] = step[<<n, f[n - 1]>>]
    BY <1>8, <2>1
  <2> QED
    BY <1>5, <2>1, <2>2
<1>10. Runs(f)
  <2> DEFINE e(n) == IF n = 0 THEN start ELSE After(f[n - 1], ids[n], broken, refused)
  <2>1. ASSUME NEW n \in 0 .. k PROVE f[n] = e(n)
    <3>1. n # 0 => n \in 1 .. k
      BY <1>1
    <3> QED
      BY <1>8, <1>9, <3>1
  <2> HIDE DEF e
  <2>2. f = [n \in 0 .. k |-> e(n)]
    BY <1>8, <2>1
  <2> QED
    BY <2>2 DEF e
<1>11. Runs(upto)
  BY <1>10
<1> HIDE DEF upto
<1> DEFINE T == {n \in 0 .. k : upto[n] \in R}
<1>12. /\ upto[0] = start
       /\ \A n \in 1 .. k : upto[n] = After(upto[n - 1], ids[n], broken, refused)
  <2> DEFINE e(n) == IF n = 0 THEN start ELSE After(upto[n - 1], ids[n], broken, refused)
  <2>1. \A n \in 0 .. k : upto[n] = e(n)
    <3>1. upto = [n \in 0 .. k |-> e(n)]
      BY <1>11
    <3> HIDE DEF e
    <3> QED
      BY <3>1
  <2>2. 0 \in 0 .. k /\ \A n \in 1 .. k : n \in 0 .. k /\ n # 0
    BY <1>1
  <2> QED
    BY <2>1, <2>2
<1>13. 0 \in T /\ \A n \in 1 .. k : n - 1 \in T => n \in T
  BY <1>1, <1>2, <1>3, <1>12
<1> HIDE DEF T
<1>14. \A n \in 0 .. k : n \in T
  BY <1>1, <1>13, Upto
<1>15. upto[k] \in R
  BY <1>1, <1>14 DEF T
<1> QED
  BY <1>6, <1>15 DEF R

QueueInv == QueueTypeOK /\ Behind /\ ReportTrue

(* What a step may do to the queue. *)
Kindly ==
    \A i \in 1 .. Len(items) :
        i <= current \/ i <= buffered => i <= Len(items') /\ items'[i] = items[i]

LEMMA QueueInitially == QueueInit => QueueInv
<1> SUFFICES ASSUME QueueInit PROVE QueueInv
  OBVIOUS
<1>1. PICK n \in 0 .. MaxItems : items = [i \in 1 .. n |-> i]
  BY DEF QueueInit
<1>2. n \in Nat /\ n <= MaxItems
  BY PlayerQueueAssumption
<1>3. \A i \in 1 .. n : i \in Item
  BY <1>2, PlayerQueueAssumption DEF Item
<1>4. items \in Seq(Item) /\ Len(items) = n
  BY <1>1, <1>2, <1>3
<1>5. IsInjective(items)
  BY <1>1 DEF IsInjective
<1>6. told \in Report /\ told["removed"] = {} /\ told["played"] = {} /\ told["buffered"] = {}
  BY DEF QueueInit, Nothing, Report, Outcome
<1> QED
  BY <1>2, <1>4, <1>5, <1>6, PlayerQueueAssumption
  DEF QueueInit, QueueInv, QueueTypeOK, Behind, ReportTrue

LEMMA AdvanceKeeps == QueueInv /\ Advance => QueueInv' /\ Kindly
<1> SUFFICES ASSUME QueueInv, Advance PROVE QueueInv' /\ Kindly
  OBVIOUS
<1>1. /\ items \in Seq(Item) /\ Len(items) \in Nat /\ MaxItems \in Nat
      /\ current \in Nat /\ buffered \in Nat
      /\ current <= Len(items) /\ buffered <= Len(items) /\ Len(items) <= MaxItems
  BY PlayerQueueAssumption DEF QueueInv, QueueTypeOK, Behind
<1>2. UNCHANGED <<items, told>>
  BY DEF Advance
<1>3. /\ current' \in Nat /\ current' <= Len(items)
      /\ buffered' \in Nat /\ buffered' <= Len(items)
  BY <1>1 DEF Advance
<1> QED
  BY <1>1, <1>2, <1>3 DEF QueueInv, QueueTypeOK, Behind, ReportTrue, Kindly

LEMMA RemovalKeeps ==
    ASSUME QueueInv, NEW ids \in Requests, RemoveItemsSafe(ids)
    PROVE  QueueInv' /\ Kindly
<1>1. PICK broken, refused :
          /\ items' = Turns(ids, broken, refused).items
          /\ told' = Turns(ids, broken, refused).told
          /\ UNCHANGED <<current, buffered>>
  BY DEF RemoveItemsSafe
<1> DEFINE r == Turns(ids, broken, refused)
<1>2. r \in Turn /\ Held(r, refused)
  BY TurnsKeep DEF QueueInv
<1> HIDE DEF r
<1>3. items' = r.items /\ told' = r.told /\ UNCHANGED <<current, buffered>>
  BY <1>1 DEF r
<1>4. /\ items \in Seq(Item) /\ Len(items) \in Nat /\ MaxItems \in Nat
      /\ current \in Nat /\ buffered \in Nat /\ current <= MaxItems /\ buffered <= MaxItems
      /\ current <= Len(items) /\ buffered <= Len(items) /\ Len(items) <= MaxItems
  BY PlayerQueueAssumption DEF QueueInv, QueueTypeOK, Behind
<1>5. /\ r.items \in Seq(Item) /\ Len(r.items) \in Nat /\ r.told \in Report
      /\ IsInjective(r.items) /\ Len(r.items) <= Len(items)
  BY <1>2 DEF Turn, Held
<1>6. Kindly
  BY <1>2, <1>3 DEF Kindly, Held, Heard
<1>7. current <= Len(r.items) /\ buffered <= Len(r.items)
  <2>1. \A i \in 1 .. Len(items) : Heard(i) => i <= Len(r.items)
    BY <1>2 DEF Held
  <2>2. \A i \in 0 .. Len(items) : i = 0 \/ i \in 1 .. Len(items)
    BY <1>4
  <2> QED
    BY <1>4, <1>5, <2>1, <2>2 DEF Heard
<1>8. ReportTrue'
  BY <1>2, <1>3 DEF ReportTrue, Held
<1>9. QueueTypeOK' /\ Behind'
  BY <1>3, <1>4, <1>5, <1>7 DEF QueueTypeOK, Behind
<1> QED
  BY <1>6, <1>8, <1>9 DEF QueueInv

LEMMA QueueStep == QueueInv /\ [QueueNext]_queueVars => QueueInv' /\ [Kindly]_queueVars
<1> SUFFICES ASSUME QueueInv, [QueueNext]_queueVars PROVE QueueInv' /\ [Kindly]_queueVars
  OBVIOUS
<1>1. CASE UNCHANGED queueVars
  BY <1>1 DEF queueVars, QueueInv, QueueTypeOK, Behind, ReportTrue
<1>2. CASE Advance
  BY <1>2, AdvanceKeeps
<1>3. ASSUME NEW ids \in Requests, RemoveItemsSafe(ids) PROVE QueueInv' /\ Kindly
  BY <1>3, RemovalKeeps
<1> QED
  BY <1>1, <1>2, <1>3 DEF QueueNext

LEMMA QueueAlways == QueueSpec => []QueueInv
BY QueueInitially, QueueStep, PTL DEF QueueSpec

(* Positions and reports keep their types. *)
THEOREM QueueTypeCorrect == QueueSpec => []QueueTypeOK
<1>1. QueueInv => QueueTypeOK
  BY DEF QueueInv
<1> QED
  BY <1>1, QueueAlways, PTL

(* Whatever was asked for, refused or broke, a removal leaves what the player *)
(* has heard or fetched in its place, and its report is true.                 *)
THEOREM RemovalSafeHolds == QueueSpec => RemovalSafe
<1>1. QueueInv => ReportTrue
  BY DEF QueueInv
<1>2. QueueSpec => [][Kindly]_queueVars
  BY QueueAlways, QueueStep, PTL DEF QueueSpec
<1>3. [][Kindly]_queueVars => HeardStays
  BY DEF Kindly, HeardStays
<1> QED
  BY <1>1, <1>2, <1>3, QueueAlways, PTL DEF RemovalSafe

(***************************************************************************)
(* What a filter keeps of a sequence of events.                            *)
(***************************************************************************)
Due(events, due, n) == {i \in 1 .. n : events[i] \in due}

LEMMA DueGrows ==
    ASSUME NEW events, NEW due, NEW n \in Nat \ {0}
    PROVE  /\ IsFiniteSet(Due(events, due, n)) /\ Cardinality(Due(events, due, n)) \in Nat
           /\ Cardinality(Due(events, due, n)) =
                 Cardinality(Due(events, due, n - 1)) + (IF events[n] \in due THEN 1 ELSE 0)
<1> DEFINE D(m) == Due(events, due, m)
<1>1. \A m \in Nat : D(m) \in SUBSET (1 .. m)
  BY DEF Due
<1>2. \A m \in Nat : IsFiniteSet(1 .. m)
  BY FS_Interval
<1>3. \A m \in Nat : IsFiniteSet(D(m)) /\ Cardinality(D(m)) \in Nat
  BY <1>1, <1>2, FS_Subset, FS_CardinalityType
<1>4. n - 1 \in Nat /\ n \notin D(n - 1)
  BY DEF Due
<1>5. CASE events[n] \in due
  <2>1. D(n) = D(n - 1) \cup {n}
    BY <1>5 DEF Due
  <2> HIDE DEF D
  <2>2. Cardinality(D(n)) = Cardinality(D(n - 1)) + 1
    BY <1>3, <1>4, <2>1, FS_AddElement
  <2> QED
    BY <1>3, <1>5, <2>2 DEF D
<1>6. CASE events[n] \notin due
  <2>1. D(n) = D(n - 1)
    BY <1>6 DEF Due
  <2> QED
    BY <1>3, <1>4, <1>6, <2>1
<1> QED
  BY <1>3, <1>5, <1>6

LEMMA KeptIs ==
    ASSUME NEW S, NEW events \in Seq(S), NEW due
    PROVE  LET place(i) == Cardinality(Due(events, due, i))
           IN  /\ Kept(events, due) \in Seq(S)
               /\ Len(Kept(events, due)) = place(Len(events))
               /\ \A i \in Due(events, due, Len(events)) :
                     place(i) \in 1 .. Len(Kept(events, due))
                     /\ Kept(events, due)[place(i)] = events[i]
<1> DEFINE k == Len(events)
           place(i) == Cardinality(Due(events, due, i))
           step == [x \in (1 .. k) \X Seq(S) |->
                       IF events[x[1]] \in due THEN Append(x[2], events[x[1]]) ELSE x[2]]
           Grown(f) == f = [n \in 0 .. k |->
                               IF n = 0 THEN <<>>
                               ELSE IF events[n] \in due THEN Append(f[n - 1], events[n])
                               ELSE f[n - 1]]
           upto == CHOOSE f : Grown(f)
<1>1. k \in Nat /\ \A n \in 1 .. k : events[n] \in S
  OBVIOUS
<1>2. Steps(step, k, Seq(S))
  BY <1>1 DEF Steps
<1>3. <<>> \in Seq(S)
  OBVIOUS
<1>4. \A n \in 1 .. k, r \in Seq(S) :
          step[<<n, r>>] = IF events[n] \in due THEN Append(r, events[n]) ELSE r
  OBVIOUS
<1> HIDE DEF step, k
<1>5. \E f : Follows(f, <<>>, step, k, Seq(S))
  BY <1>1, <1>2, <1>3, Stepwise
<1>14. PICK f \in [0 .. k -> Seq(S)] :
          f[0] = <<>> /\ \A n \in 1 .. k : f[n] = step[<<n, f[n - 1]>>]
  BY <1>5 DEF Follows
<1>6. \A n \in 1 .. k : f[n] = IF events[n] \in due THEN Append(f[n - 1], events[n]) ELSE f[n - 1]
  <2> TAKE n \in 1 .. k
  <2>1. n - 1 \in 0 .. k
    BY <1>1
  <2> QED
    BY <1>4, <1>14, <2>1
<1>7. Grown(f)
  <2> DEFINE e(n) == IF n = 0 THEN <<>>
                     ELSE IF events[n] \in due THEN Append(f[n - 1], events[n])
                     ELSE f[n - 1]
  <2>1. ASSUME NEW n \in 0 .. k PROVE f[n] = e(n)
    <3>1. n # 0 => n \in 1 .. k
      BY <1>1
    <3> QED
      BY <1>14, <1>6, <3>1
  <2> HIDE DEF e
  <2>2. f = [n \in 0 .. k |-> e(n)]
    BY <2>1
  <2> QED
    BY <2>2 DEF e
<1>8. Grown(upto)
  BY <1>7
<1>9. Kept(events, due) = upto[k]
  BY DEF Kept, k
<1> HIDE DEF upto
<1>10. /\ upto[0] = <<>>
       /\ \A n \in 1 .. k : upto[n] = IF events[n] \in due
                                      THEN Append(upto[n - 1], events[n]) ELSE upto[n - 1]
  <2> DEFINE e(n) == IF n = 0 THEN <<>>
                     ELSE IF events[n] \in due THEN Append(upto[n - 1], events[n])
                     ELSE upto[n - 1]
  <2>1. \A n \in 0 .. k : upto[n] = e(n)
    <3>1. upto = [n \in 0 .. k |-> e(n)]
      BY <1>8
    <3> HIDE DEF e
    <3> QED
      BY <3>1
  <2>2. 0 \in 0 .. k /\ \A n \in 1 .. k : n \in 0 .. k /\ n # 0
    BY <1>1
  <2> QED
    BY <2>1, <2>2
(* Up to every place the filter has kept what was due, at its number. *)
<1> DEFINE Good(n) == /\ upto[n] \in Seq(S) /\ Len(upto[n]) = place(n)
                      /\ \A i \in Due(events, due, n) :
                            place(i) \in 1 .. place(n) /\ upto[n][place(i)] = events[i]
           T == {n \in 0 .. k : Good(n)}
<1>11. 0 \in T
  <2>1. Due(events, due, 0) = {}
    BY DEF Due
  <2>2. place(0) = 0
    BY <2>1, FS_EmptySet
  <2>3. upto[0] \in Seq(S) /\ Len(upto[0]) = 0
    BY <1>10
  <2>4. Good(0)
    BY <2>1, <2>2, <2>3
  <2> QED
    BY <1>1, <2>4
<1>12. ASSUME NEW n \in 1 .. k, n - 1 \in T PROVE n \in T
  <2>1. Good(n - 1) /\ n \in Nat \ {0} /\ events[n] \in S /\ n - 1 \in Nat
    BY <1>1, <1>12
  <2>2. place(n) \in Nat /\ place(n) = place(n - 1) + (IF events[n] \in due THEN 1 ELSE 0)
    BY <2>1, DueGrows
  <2>3. place(n - 1) \in Nat
    BY <2>1
  <2> HIDE DEF place
  <2>4. CASE events[n] \in due
    <3>1. upto[n] = Append(upto[n - 1], events[n])
      BY <1>10, <2>4
    <3>2. /\ upto[n] \in Seq(S) /\ Len(upto[n]) = place(n) /\ upto[n][place(n)] = events[n]
          /\ \A j \in 1 .. place(n - 1) : upto[n][j] = upto[n - 1][j]
      BY <2>1, <2>2, <2>3, <2>4, <3>1
    <3>3. ASSUME NEW i \in Due(events, due, n), i # n PROVE i \in Due(events, due, n - 1)
      BY <2>1, <3>3 DEF Due
    <3>4. ASSUME NEW i \in Due(events, due, n)
          PROVE  place(i) \in 1 .. place(n) /\ upto[n][place(i)] = events[i]
      <4>1. CASE i = n
        BY <2>2, <2>3, <2>4, <3>2, <4>1
      <4>2. CASE i # n
        <5>1. i \in Due(events, due, n - 1)
          BY <3>3, <4>2
        <5>2. place(i) \in 1 .. place(n - 1) /\ upto[n - 1][place(i)] = events[i]
          BY <2>1, <5>1
        <5>3. place(i) \in 1 .. place(n)
          BY <2>2, <2>3, <5>2
        <5> QED
          BY <3>2, <5>2, <5>3
      <4> QED
        BY <4>1, <4>2
    <3> QED
      BY <3>2, <3>4
  <2>5. CASE events[n] \notin due
    <3>1. upto[n] = upto[n - 1] /\ place(n) = place(n - 1)
      BY <1>10, <2>2, <2>3, <2>5
    <3>2. Due(events, due, n) = Due(events, due, n - 1)
      BY <2>1, <2>5 DEF Due
    <3> QED
      BY <2>1, <3>1, <3>2
  <2> QED
    BY <2>4, <2>5
<1> HIDE DEF T
<1>13. k \in T
  <2>1. \A n \in 1 .. k : n - 1 \in T => n \in T
    BY <1>12
  <2>2. \A n \in 0 .. k : n \in T
    BY <1>1, <1>11, <2>1, Upto
  <2> QED
    BY <1>1, <2>2
<1> QED
  BY <1>9, <1>13 DEF T, k

(* The newest of them, and as many as were asked for. *)
LEMMA NewestIs ==
    ASSUME NEW S, NEW kept \in Seq(S), NEW limit \in Nat \ {0}
    PROVE  LET page == Newest(kept, limit)
               length == IF Len(kept) > limit THEN limit ELSE Len(kept)
           IN  /\ Len(page) = length
               /\ \A m \in Nat : m < length => page[length - m] = kept[Len(kept) - m]
<1> DEFINE n == Len(kept)
           from == IF n > limit THEN n - limit + 1 ELSE 1
           page == SubSeq(kept, from, n)
           length == IF n > limit THEN limit ELSE n
<1>1. n \in Nat /\ from \in 1 .. n + 1 /\ length = n - from + 1 /\ length \in Nat
  OBVIOUS
<1>2. \A i \in from .. n : kept[i] \in S
  BY <1>1
<1> HIDE DEF from, n
<1>3. Len(page) = length /\ \A i \in 1 .. n - from + 1 : page[i] = kept[from + i - 1]
  BY <1>1, <1>2, SubSeqProperties
<1>4. ASSUME NEW m \in Nat, m < length PROVE page[length - m] = kept[n - m]
  <2>1. length - m \in 1 .. n - from + 1 /\ from + (length - m) - 1 = n - m
    BY <1>1, <1>4
  <2> HIDE DEF page, length
  <2> QED
    BY <1>3, <2>1
<1> QED
  BY <1>3, <1>4 DEF Newest, from, n

LEMMA PageIs ==
    ASSUME NEW S, NEW events \in Seq(S), NEW due, NEW limit \in Nat \ {0}
    PROVE  LET page == Newest(Kept(events, due), limit)
               wanted == {i \in 1 .. Len(events) : events[i] \in due}
           IN  /\ Len(page) <= limit
               /\ \A i \in wanted :
                     LET later == {j \in wanted : j > i}
                     IN  Cardinality(later) < limit =>
                           /\ Cardinality(later) < Len(page)
                           /\ page[Len(page) - Cardinality(later)] = events[i]
<1> DEFINE k == Len(events)
           kept == Kept(events, due)
           page == Newest(kept, limit)
           wanted == {i \in 1 .. k : events[i] \in due}
           place(i) == Cardinality(Due(events, due, i))
<1>1. k \in Nat /\ wanted = Due(events, due, k)
  BY DEF Due
<1>2. /\ kept \in Seq(S) /\ Len(kept) = place(k)
      /\ \A i \in wanted : place(i) \in 1 .. Len(kept) /\ kept[place(i)] = events[i]
  BY <1>1, KeptIs
<1>3. /\ Len(page) = IF Len(kept) > limit THEN limit ELSE Len(kept)
      /\ \A m \in Nat : m < Len(page) => page[Len(page) - m] = kept[Len(kept) - m]
  BY <1>2, NewestIs
<1>4. Len(kept) \in Nat
  BY <1>2
<1> HIDE DEF kept, page
<1>5. ASSUME NEW i \in wanted, NEW later, later = {j \in wanted : j > i}
      PROVE  Cardinality(later) \in Nat /\ place(i) + Cardinality(later) = Len(kept)
  <2> DEFINE upto == Due(events, due, i)
  <2>1. i \in 1 .. k /\ i \in Nat
    BY <1>1
  <2>2. upto \cup later = wanted /\ upto \cap later = {}
    BY <1>1, <1>5, <2>1 DEF Due
  <2>3. upto \subseteq 1 .. k /\ later \subseteq 1 .. k
    BY <1>1, <1>5, <2>1 DEF Due
  <2>4. IsFiniteSet(1 .. k)
    BY <1>1, FS_Interval
  <2> HIDE DEF upto, wanted
  <2>5. IsFiniteSet(upto) /\ IsFiniteSet(later)
    BY <2>3, <2>4, FS_Subset
  <2>6. Cardinality(wanted) = Cardinality(upto) + Cardinality(later) - Cardinality(upto \cap later)
    BY <2>2, <2>5, FS_Union
  <2>7. Cardinality(upto \cap later) = 0 /\ Cardinality(later) \in Nat /\ Cardinality(upto) \in Nat
    BY <2>2, <2>5, FS_EmptySet, FS_CardinalityType
  <2> QED
    BY <1>1, <1>2, <2>6, <2>7 DEF upto
<1>6. ASSUME NEW i \in wanted, NEW later, later = {j \in wanted : j > i},
             Cardinality(later) < limit
      PROVE  Cardinality(later) < Len(page) /\ page[Len(page) - Cardinality(later)] = events[i]
  <2> DEFINE m == Cardinality(later)
  <2>1. m \in Nat /\ place(i) + m = Len(kept)
    BY <1>5, <1>6
  <2>2. place(i) \in 1 .. Len(kept) /\ kept[place(i)] = events[i]
    BY <1>2
  <2> HIDE DEF m, place, wanted
  <2>3. m < limit
    BY <1>6 DEF m
  <2>4. m < Len(page) /\ place(i) = Len(kept) - m
    <3>1. place(i) \in Nat /\ place(i) >= 1
      BY <1>4, <2>2
    <3>2. m < Len(kept) /\ place(i) = Len(kept) - m
      BY <1>4, <2>1, <3>1
    <3>3. Len(page) = IF Len(kept) > limit THEN limit ELSE Len(kept)
      BY <1>3
    <3> QED
      BY <2>3, <3>2, <3>3
  <2>5. page[Len(page) - m] = events[i]
    BY <1>3, <2>1, <2>2, <2>4
  <2> QED
    BY <2>4, <2>5 DEF m
<1>7. Len(page) <= limit
  BY <1>3, <1>4
<1> QED
  BY <1>6, <1>7 DEF page, kept

LEMMA PagesComplete == BufferTypeOK => PageComplete
<1> SUFFICES ASSUME BufferTypeOK, NEW wanted \in SUBSET Event, NEW visible \in SUBSET Event,
                    NEW limit \in 1 .. capacity + 1
             PROVE  LET page == Snapshot(ring, wanted, visible, limit)
                        due == {i \in 1 .. Len(ring) : ring[i] \in wanted \cap visible}
                    IN  /\ Len(page) <= limit
                        /\ \A i \in due :
                              LET later == {j \in due : j > i}
                              IN  Cardinality(later) < limit =>
                                    /\ Cardinality(later) < Len(page)
                                    /\ page[Len(page) - Cardinality(later)] = ring[i]
  BY DEF PageComplete
<1>1. ring \in Seq(Event) /\ limit \in Nat \ {0}
  BY EventBufferAssumption DEF BufferTypeOK
<1> QED
  BY <1>1, PageIs, ZenonT(60) DEF Snapshot

(***************************************************************************)
(* RingAccounting for any capacities, events and number of them.  It is    *)
(* not inductive: that nothing is counted as dropped while the ring has    *)
(* room follows from a ring being full once it has forgotten an event, and *)
(* a full ring has seen its length and what it forgot.                     *)
(***************************************************************************)
(* What every event and every reconfiguration keeps. *)
Ring ==
    /\ BufferTypeOK
    /\ Len(ring) <= capacity
    /\ seen = Len(ring) + evicted
    /\ evicted > 0 => Len(ring) = capacity

USE EventBufferAssumption DEF EventBufferAssumption

LEMMA InitRing == BufferInit => Ring
<1> SUFFICES ASSUME BufferInit PROVE Ring
  OBVIOUS
<1>1. Len(ring) = 0 /\ ring \in Seq(Event)
  BY DEF BufferInit
<1>2. capacity \in Nat
  BY DEF BufferInit
<1>3. BufferTypeOK
  BY <1>1 DEF BufferInit, BufferTypeOK
<1> QED
  BY <1>1, <1>2, <1>3 DEF BufferInit, Ring

(* Appending to a full ring drops its head: the length stays. *)
LEMMA Forgetting ==
  ASSUME NEW S, NEW s \in Seq(S), NEW e \in S, Len(s) > 0
  PROVE  Append(Tail(s), e) \in Seq(S) /\ Len(Append(Tail(s), e)) = Len(s)
<1>1. s # << >>
  OBVIOUS
<1>2. Tail(s) \in Seq(S) /\ Len(Tail(s)) = Len(s) - 1
  BY <1>1, HeadTailProperties
<1> QED
  BY <1>2, AppendProperties, LenProperties

LEMMA EventKeepsRing ==
  ASSUME Ring, NEW e \in Event, OnEvent(e)
  PROVE  Ring'
<1>1. capacity \in Capacities /\ capacity \in Nat \ {0} /\ ring \in Seq(Event) /\ Len(ring) \in Nat
      /\ seen \in Nat /\ evicted \in Nat
  BY LenProperties DEF Ring, BufferTypeOK
<1>2. capacity' = capacity /\ subscribed' = subscribed /\ seen' = seen + 1
  BY DEF OnEvent
<1>3. counts' \in [EventKind -> Nat]
  BY DEF OnEvent, Ring, BufferTypeOK
<1>4. CASE Len(ring) = capacity
  <2>1. ring' = Append(Tail(ring), e) /\ evicted' = evicted + 1
    BY <1>4 DEF OnEvent
  <2>2. ring' \in Seq(Event) /\ Len(ring') = Len(ring)
    BY <2>1, <1>1, <1>4, Forgetting
  <2>3. evicted' = evicted + 1
    BY <2>1
  <2>4. BufferTypeOK'
    BY <2>2, <2>3, <1>1, <1>2, <1>3 DEF Ring, BufferTypeOK
  <2> QED
    BY <2>2, <2>3, <2>4, <1>1, <1>2, <1>4 DEF Ring
<1>5. CASE Len(ring) # capacity
  <2>1. ring' = Append(ring, e) /\ evicted' = evicted
    BY <1>5 DEF OnEvent
  <2>2. ring' \in Seq(Event) /\ Len(ring') = Len(ring) + 1
    BY <2>1, <1>1, AppendProperties
  <2>3. evicted = 0
    BY <1>5, <1>1 DEF Ring
  <2> QED
    BY <2>1, <2>2, <2>3, <1>1, <1>2, <1>3, <1>5 DEF Ring, BufferTypeOK
<1> QED
  BY <1>4, <1>5

LEMMA ConfigureKeepsRing ==
  ASSUME Ring, NEW enabled \in BOOLEAN, NEW size \in Capacities, Configure(enabled, size)
  PROVE  Ring'
<1>1. CASE size = capacity
  BY <1>1 DEF Configure, Ring, BufferTypeOK
<1>2. CASE size # capacity
  <2>1. ring' = << >> /\ seen' = 0 /\ evicted' = 0 /\ capacity' = size
    BY <1>2 DEF Configure
  <2>2. ring' \in Seq(Event) /\ Len(ring') = 0 /\ size \in Nat \ {0}
    BY <2>1
  <2>3. counts' \in [EventKind -> Nat] /\ subscribed' \in BOOLEAN
    BY <1>2 DEF Configure
  <2> QED
    BY <2>1, <2>2, <2>3 DEF Ring, BufferTypeOK
<1> QED
  BY <1>1, <1>2

LEMMA StepRing == Ring /\ [BufferNext]_bufferVars => Ring'
<1> SUFFICES ASSUME Ring, [BufferNext]_bufferVars PROVE Ring'
  OBVIOUS
<1>1. CASE \E e \in Event : OnEvent(e)
  BY <1>1, EventKeepsRing
<1>2. CASE \E enabled \in BOOLEAN, size \in Capacities : Configure(enabled, size)
  BY <1>2, ConfigureKeepsRing
<1>3. CASE Unsubscribe
  BY <1>3 DEF Unsubscribe, Ring, BufferTypeOK
<1>4. CASE UNCHANGED bufferVars
  BY <1>4 DEF bufferVars, Ring, BufferTypeOK
<1> QED
  BY <1>1, <1>2, <1>3, <1>4 DEF BufferNext

LEMMA RingAdds == Ring => RingAccounting
<1> SUFFICES ASSUME Ring PROVE RingAccounting
  OBVIOUS
<1>1. capacity \in Nat /\ Len(ring) \in Nat /\ seen \in Nat /\ evicted \in Nat
  BY LenProperties DEF Ring, BufferTypeOK
<1> QED
  BY <1>1 DEF Ring, RingAccounting, Dropped

(* Every event the buffer has seen is in the ring or counted as dropped, and *)
(* the ring is never longer than its capacity (event_buffer.py).             *)
THEOREM RingAccountingHolds == BufferSpec => []RingAccounting
<1>1. BufferInit => Ring
  BY InitRing
<1>2. Ring /\ [BufferNext]_bufferVars => Ring'
  BY StepRing
<1>3. Ring => RingAccounting
  BY RingAdds
<1> QED
  BY <1>1, <1>2, <1>3, PTL DEF BufferSpec

(* The ring's variables keep their types through events and resizes.         *)
THEOREM BufferTypeCorrect == BufferSpec => []BufferTypeOK
<1>1. Ring => BufferTypeOK
  BY DEF Ring
<1> QED
  BY InitRing, StepRing, <1>1, PTL DEF BufferSpec

(* A page of recent events, filtered for its caller, lacks no event it could *)
(* have had: the filter comes before the limit (EventBuffer.snapshot).       *)
THEOREM PageCompleteHolds == BufferSpec => []PageComplete
<1>1. Ring => PageComplete
  BY PagesComplete DEF Ring
<1> QED
  BY InitRing, StepRing, <1>1, PTL DEF BufferSpec

(***************************************************************************)
(* All parts together: a step of one leaves the others' variables alone.   *)
(***************************************************************************)
SurfaceInv == ReadsInv /\ CallsInv /\ Ring /\ QueueInv

LEMMA SurfaceInitially == Init => SurfaceInv
BY InitSound, InitCalls, InitRing, QueueInitially DEF Init, SurfaceInv

LEMMA SurfaceStep == SurfaceInv /\ [Next]_partVars => SurfaceInv'
<1> SUFFICES ASSUME SurfaceInv, [Next]_partVars PROVE SurfaceInv'
  OBVIOUS
<1>1. /\ [ReadsNext]_readVars /\ [CommandsNext]_commandVars
      /\ [BufferNext]_bufferVars /\ [QueueNext]_queueVars
  BY DEF Next, partVars
<1> QED
  BY <1>1, StepSound, CallsStep, StepRing, QueueStep DEF SurfaceInv

LEMMA SurfaceAlways == Spec => []SurfaceInv
BY SurfaceInitially, SurfaceStep, PTL DEF Spec

(* Every variable of every part keeps its type, whatever part is at work.    *)
THEOREM SurfaceTypeCorrect == Spec => []TypeOK
<1>1. SurfaceInv => TypeOK
  BY InvGives DEF SurfaceInv, CallsInv, Ring, QueueInv, TypeOK
<1> QED
  BY <1>1, SurfaceAlways, PTL

(* Every refusal of a read leaves one record and every invocation of a       *)
(* command of ours one, at its end, whatever else the surface does meanwhile *)
(* (resource_authorization.py and registry.py, their audit calls).           *)
THEOREM OutcomesAuditedHolds == Spec => []OutcomesAudited
<1>1. SurfaceInv => OutcomesAudited
  BY InvGives DEF SurfaceInv, CallsInv, TasksSound, OutcomesAudited
<1> QED
  BY <1>1, SurfaceAlways, PTL

(* A listing has the rows an item read alone would give, an event tells a    *)
(* user of nothing it could not have named, and a page lacks nothing else.   *)
THEOREM ShownRightHolds == Spec => []ShownRight
<1>1. SurfaceInv => ShownRight
  BY InvShows, PagesComplete DEF SurfaceInv, Ring, ShownRight
<1> QED
  BY <1>1, SurfaceAlways, PTL
====================================================================================
