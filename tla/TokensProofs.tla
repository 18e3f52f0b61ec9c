------------------------------ MODULE TokensProofs ------------------------------
(***************************************************************************)
(* Theorems about Tokens.  SpentOnce is not inductive: it rests on where   *)
(* every request is (Placed) and on what an exchange has done before it    *)
(* may mint (Paying).                                                      *)
(***************************************************************************)
EXTENDS Tokens, TLAPS

Made == {t \in Token : token[t] # Unused}

(* What a request has at each place, given the tokens handed out and made. *)
Placed(r, h, made) ==
    /\ r \in RequestState
    /\ r.at = "revoke" => r.todo # {}
    /\ r.kind = "exchange" => r.todo \subseteq {r.bearer} /\ r.bearer \in h
    /\ r.at \in {"verify", "resolve"} => r.bearer \in h
    /\ r.at = "verify" => r.kind \in {"exchange", "mint", "request"}
    /\ r.at = "resolve" => r.kind \in {"exchange", "request"}
    /\ r.at = "list" => r.kind \in {"open", "mint"}
    /\ r.at \in {"login", "whoami"} => r.kind = "login"
    /\ r.at \in {"identify", "whoami"} => r.new \in made
    /\ r.at = "bind" /\ r.kind # "request" => r.new \in made

Typed ==
    /\ token \in [Token -> TokenState]
    /\ enabled \subseteq User
    /\ held \subseteq Made
    /\ req \in [Request -> RequestState]
    /\ past \in [Token -> [paid : Token \cup {NoToken}, seen : SUBSET Token]]

PlacedOK == \A q \in Request : Placed(req[q], held, Made)

TInv == Typed /\ PlacedOK

(* The requests a step leaves alone stay where they are as long as no token  *)
(* is taken back.                                                           *)
LEMMA Stays ==
    ASSUME TInv, Typed', held \subseteq held', Made \subseteq Made',
           \A p \in Request : req'[p] = req[p] \/ Placed(req'[p], held', Made')
    PROVE  TInv'
BY DEF TInv, PlacedOK, Placed

LEMMA IdlePlaced == \A h, made : Placed(Idle, h, made)
BY TokensAssumption DEF Placed, Idle, RequestState, Kind, At, Name

(* One request moves, and what MA holds is what it was. *)
LEMMA Moves ==
    ASSUME TInv, NEW q \in Request, NEW r,
           Placed(r, held, Made), req' = [req EXCEPT ![q] = r],
           UNCHANGED <<token, held, past>>, enabled' = enabled
    PROVE  TInv'
<1>1. r \in RequestState
  BY DEF Placed
<1>2. Made' = Made
  BY DEF Made
<1>3. Typed'
  BY <1>1, <1>2 DEF TInv, Typed
<1>4. \A p \in Request : req'[p] = req[p] \/ Placed(req'[p], held', Made')
  BY <1>2 DEF TInv, Typed
<1> QED
  BY <1>2, <1>3, <1>4, Stays

LEMMA RevokingPlaced ==
    ASSUME NEW r \in RequestState, NEW h, NEW made,
           r.kind = "exchange" => r.todo \subseteq {r.bearer} /\ r.bearer \in h
    PROVE  Placed(Revoking(r), h, made)
<1>1. CASE r.todo # {}
  BY <1>1 DEF Revoking, Placed, RequestState, At
<1>2. CASE r.todo = {} /\ r.clean
  BY <1>2 DEF Revoking, Placed, RequestState, At
<1>3. CASE r.todo = {} /\ ~r.clean
  BY <1>3, IdlePlaced DEF Revoking
<1> QED
  BY <1>1, <1>2, <1>3

(* A token that is revoked has been made all the same. *)
LEMMA GoneTyped ==
    ASSUME TInv, NEW t \in Token, Valid(t),
           token' = [token EXCEPT ![t].life = "gone"]
    PROVE  /\ token' \in [Token -> TokenState]
           /\ Made' = Made
           /\ \A s \in Token : token[s].life = "gone" => token'[s].life = "gone"
           /\ token'[t].life = "gone"
BY DEF TInv, Typed, Made, Valid, Unused, TokenState

LEMMA IssueTyped ==
    ASSUME TInv, NEW q \in Request, NEW t \in Token, Issue(q, t)
    PROVE  /\ token' \in [Token -> TokenState]
           /\ past' \in [Token -> [paid : Token \cup {NoToken}, seen : SUBSET Token]]
           /\ Made' = Made \cup {t}
           /\ \A s \in Token : token[s].life = "gone" => token'[s].life = "gone"
           /\ \A s \in Token : s # t => past'[s] = past[s]
           /\ past'[t].paid = IF req[q].kind = "exchange" THEN req[q].bearer ELSE NoToken
<1>1. req[q] \in RequestState
  BY DEF TInv, Typed
<1>2. [life |-> "valid", owner |-> req[q].user, name |-> req[q].name] \in TokenState
  BY <1>1 DEF RequestState, TokenState
<1>3. req[q].bearer \in Token \cup {NoToken} /\ req[q].seen \in SUBSET Token
  BY <1>1 DEF RequestState
<1>4. token' \in [Token -> TokenState]
  BY <1>2 DEF TInv, Typed, Issue
<1>5. Made' = Made \cup {t}
  BY DEF TInv, Typed, Made, Issue, Unused
<1> QED
  BY <1>3, <1>4, <1>5 DEF TInv, Typed, Issue, Unused

(* The invariant of types and places is inductive. *)
LEMMA TInvInit == Init => TInv
<1> SUFFICES ASSUME Init PROVE TInv
  OBVIOUS
<1>1. Unused \in TokenState
  BY DEF Unused, TokenState, Name
<1>2. Idle \in RequestState
  BY IdlePlaced DEF Placed
<1>3. Typed
  BY <1>1, <1>2 DEF Init, Typed
<1> QED
  BY <1>3, IdlePlaced DEF TInv, PlacedOK, Init

LEMMA TInvArrive ==
    ASSUME TInv, NEW q \in Request, Arrive(q)
    PROVE  TInv'
<1>1. ASSUME NEW u \in User, Open(q, u) PROVE TInv'
  <2> DEFINE r == [Idle EXCEPT !.kind = "open", !.at = "list", !.user = u, !.name = "bootstrap"]
  <2>1. Placed(r, held, Made)
    BY DEF Placed, Idle, RequestState, Kind, At, Name
  <2> QED
    BY <1>1, <2>1, Moves DEF Open, Now
<1>2. ASSUME NEW u \in User, PresentPassword(q, u) PROVE TInv'
  <2> DEFINE r == [Idle EXCEPT !.kind = "login", !.at = "login", !.user = u]
  <2>1. Placed(r, held, Made)
    BY DEF Placed, Idle, RequestState, Kind, At, Name
  <2> QED
    BY <1>2, <2>1, Moves DEF PresentPassword, Now
<1>3. ASSUME NEW b \in held, NEW kind \in {"exchange", "mint", "request"},
             NEW name \in Name, Present(q, b, kind, name)
      PROVE  TInv'
  <2> DEFINE r == [Idle EXCEPT !.kind = kind, !.at = "verify", !.bearer = b, !.name = name]
  <2>1. b \in Token
    BY DEF TInv, Typed, Made
  <2>2. Placed(r, held, Made)
    BY <2>1 DEF Placed, Idle, RequestState, Kind, At, Name
  <2> QED
    BY <1>3, <2>2, Moves DEF Present, Now
<1>4. "session" \in Name /\ "login" \in Name /\ Client \subseteq Name
  BY DEF Name
<1> QED
  BY <1>1, <1>2, <1>3, <1>4 DEF Arrive

(* Steps that only move their request, or register an identity. *)
LEMMA TInvAnswers ==
    ASSUME TInv, NEW q \in Request,
           \/ Admit(q) \/ Reject(q) \/ Resolve(q) \/ List(q) \/ Fail(q)
           \/ RevokeFails(q) \/ WhoAmI(q) \/ Identify(q) \/ BindVerified(q)
    PROVE  TInv'
<1> DEFINE r == req[q]
<1>0. /\ r \in RequestState /\ Placed(r, held, Made)
      /\ token \in [Token -> TokenState] /\ held \subseteq Token
  BY DEF TInv, PlacedOK, Typed, Made
<1>1. CASE Admit(q)
  <2> DEFINE user == token[r.bearer].owner
             known == [r EXCEPT !.user = user]
  <2>1. user \in User \cup {NoUser} /\ r.bearer \in held
    BY <1>0, <1>1 DEF Admit, Placed, TokenState
  <2>2. Placed([known EXCEPT !.at = "list"], held, Made) \/ r.kind # "mint"
    BY <1>0, <2>1 DEF Placed, RequestState, At
  <2>3. Placed([known EXCEPT !.at = "resolve"], held, Made) \/ r.kind = "mint"
    BY <1>0, <1>1, <2>1 DEF Admit, Placed, RequestState, At
  <2>4. \/ req' = [req EXCEPT ![q] = Idle]
        \/ r.kind = "mint" /\ req' = [req EXCEPT ![q] = [known EXCEPT !.at = "list"]]
        \/ r.kind # "mint" /\ req' = [req EXCEPT ![q] = [known EXCEPT !.at = "resolve"]]
    BY <1>1 DEF Admit, Now
  <2> QED
    BY <1>1, <2>2, <2>3, <2>4, IdlePlaced, Moves DEF Admit
<1>2. CASE Reject(q)
  BY <1>2, IdlePlaced, Moves DEF Reject, Now
<1>3. CASE Resolve(q)
  <2>1. PICK i \in Resolved(r.bearer) :
            Now(q, CASE r.kind = "request" -> [r EXCEPT !.at = "bind", !.id = i]
                     [] r.kind = "exchange" /\ i = NoToken -> Idle
                     [] r.kind = "exchange" /\ i # NoToken ->
                          [r EXCEPT !.at = "revoke", !.todo = {i}])
    BY <1>3 DEF Resolve
  <2>2. i \in {NoToken, r.bearer} /\ i \in Token \cup {NoToken} /\ r.bearer \in Token
    BY <1>0, <1>3 DEF Resolved, Placed, Resolve
  <2>3. r.kind \in {"request", "exchange"} /\ r.at = "resolve"
    BY <1>0, <1>3 DEF Resolve, Placed
  <2>4. CASE r.kind = "request"
    <3>1. Placed([r EXCEPT !.at = "bind", !.id = i], held, Made)
      BY <1>0, <2>2, <2>4 DEF Placed, RequestState, At
    <3> QED
      BY <1>3, <2>1, <2>4, <3>1, Moves DEF Resolve, Now
  <2>5. CASE r.kind = "exchange" /\ i = NoToken
    BY <1>3, <2>1, <2>5, IdlePlaced, Moves DEF Resolve, Now
  <2>6. CASE r.kind = "exchange" /\ i # NoToken
    <3>1. Placed([r EXCEPT !.at = "revoke", !.todo = {i}], held, Made)
      BY <1>0, <2>2, <2>6 DEF Placed, RequestState, At
    <3> QED
      BY <1>3, <2>1, <2>6, <3>1, Moves DEF Resolve, Now
  <2> QED
    BY <2>3, <2>4, <2>5, <2>6
<1>4. CASE List(q)
  <2> DEFINE mine == {t \in Token : Valid(t) /\ token[t].owner = r.user}
             old == {t \in mine : token[t].name \in Replaced(r.name)}
  <2>1. r.kind # "exchange"
    BY <1>0, <1>4 DEF List, Placed
  <2>2. [r EXCEPT !.seen = mine, !.todo = old] \in RequestState
    BY <1>0 DEF RequestState
  <2>3. Placed(Revoking([r EXCEPT !.seen = mine, !.todo = old]), held, Made)
    BY <1>0, <2>1, <2>2, RevokingPlaced DEF RequestState
  <2> QED
    BY <1>4, <2>3, Moves DEF List, Now
<1>5. CASE Fail(q)
  BY <1>5, IdlePlaced, Moves DEF Fail, Now
<1>6. CASE RevokeFails(q)
  <2>1. PICK t \in r.todo :
            Now(q, IF r.kind = "open"
                   THEN Revoking([r EXCEPT !.todo = @ \ {t}, !.clean = FALSE])
                   ELSE Idle)
    BY <1>6 DEF RevokeFails
  <2>2. Placed(Revoking([r EXCEPT !.todo = @ \ {t}, !.clean = FALSE]), held, Made)
    <3>1. [r EXCEPT !.todo = @ \ {t}, !.clean = FALSE] \in RequestState
      BY <1>0 DEF RequestState
    <3> QED
      BY <1>0, <3>1, RevokingPlaced DEF Placed, RequestState
  <2> QED
    BY <1>6, <2>1, <2>2, IdlePlaced, Moves DEF RevokeFails, Now
<1>7. CASE WhoAmI(q)
  <2>1. Placed([r EXCEPT !.at = "identify"], held, Made)
    BY <1>0, <1>7 DEF WhoAmI, Placed, RequestState, At
  <2> QED
    BY <1>7, <2>1, Moves DEF WhoAmI, Now
<1>8. CASE Identify(q)
  <2>1. PICK i \in Resolved(r.new) : Now(q, [r EXCEPT !.at = "bind", !.id = i])
    BY <1>8 DEF Identify
  <2>2. Placed([r EXCEPT !.at = "bind", !.id = i], held, Made)
    BY <1>0, <1>8 DEF Identify, Resolved, Placed, RequestState, At
  <2> QED
    BY <1>8, <2>1, <2>2, Moves DEF Identify, Now
<1>9. CASE BindVerified(q)
  BY <1>9, IdlePlaced, Moves DEF BindVerified, Now
<1> QED
  BY <1>1, <1>2, <1>3, <1>4, <1>5, <1>6, <1>7, <1>8, <1>9

(* Steps that revoke, make or hand out a token. *)
LEMMA TInvTokens ==
    ASSUME TInv, NEW q \in Request,
           Revoke(q) \/ Create(q) \/ LogIn(q) \/ Anonymous(q) \/ BindMinted(q)
    PROVE  TInv'
<1> DEFINE r == req[q]
<1>0. r \in RequestState /\ Placed(r, held, Made) /\ held \subseteq Made
  BY DEF TInv, PlacedOK, Typed
<1>1. CASE Revoke(q)
  <2>1. PICK t \in r.todo :
            /\ Valid(t)
            /\ token' = [token EXCEPT ![t].life = "gone"]
            /\ Now(q, Revoking([r EXCEPT !.todo = @ \ {t}]))
    BY <1>1 DEF Revoke
  <2>2. token' \in [Token -> TokenState] /\ Made' = Made
    BY <1>0, <2>1, GoneTyped DEF RequestState
  <2>3. Placed(Revoking([r EXCEPT !.todo = @ \ {t}]), held, Made)
    <3>1. [r EXCEPT !.todo = @ \ {t}] \in RequestState
      BY <1>0 DEF RequestState
    <3> QED
      BY <1>0, <3>1, RevokingPlaced DEF Placed, RequestState
  <2> HIDE DEF r
  <2>4. Typed' /\ held \subseteq held' /\ Made \subseteq Made'
    BY <1>1, <2>1, <2>2, <2>3 DEF TInv, Typed, Revoke, Now, Placed
  <2> QED
    BY <1>1, <2>1, <2>2, <2>3, <2>4, Stays DEF TInv, Typed, Now, Revoke
<1>2. CASE Create(q)
  <2>1. PICK t \in Token :
            /\ Issue(q, t)
            /\ IF r.kind = "open"
               THEN Now(q, Idle) /\ held' \in {held, held \cup {t}}
               ELSE Now(q, [r EXCEPT !.at = "identify", !.new = t]) /\ UNCHANGED held
    BY <1>2 DEF Create
  <2>2. Made' = Made \cup {t} /\ held \subseteq held' /\ held' \subseteq Made'
    BY <1>0, <2>1, IssueTyped
  <2>3. Placed(Idle, held', Made')
    BY IdlePlaced
  <2>4. r.kind # "open" => Placed([r EXCEPT !.at = "identify", !.new = t], held', Made')
    BY <1>0, <2>1, <2>2 DEF Placed, RequestState, At
  <2>5. PICK n : Placed(n, held', Made') /\ req' = [req EXCEPT ![q] = n]
    BY <2>1, <2>3, <2>4 DEF Now
  <2> HIDE DEF r
  <2>6. Typed'
    BY <1>2, <2>1, <2>2, <2>5, IssueTyped DEF TInv, Typed, Create, Placed
  <2> QED
    BY <2>2, <2>5, <2>6, Stays DEF TInv, Typed
<1>3. CASE LogIn(q)
  <2>1. PICK t \in Token, next \in {"identify", "whoami"} :
            Issue(q, t) /\ Now(q, [r EXCEPT !.at = next, !.new = t])
    BY <1>3 DEF LogIn
  <2>2. Made' = Made \cup {t} /\ held' = held
    BY <1>3, <2>1, IssueTyped DEF LogIn
  <2>3. Placed([r EXCEPT !.at = next, !.new = t], held', Made')
    BY <1>0, <1>3, <2>1, <2>2 DEF LogIn, Placed, RequestState, At
  <2>4. PICK n : Placed(n, held', Made') /\ req' = [req EXCEPT ![q] = n]
    BY <2>1, <2>3 DEF Now
  <2> HIDE DEF r
  <2>5. Typed'
    BY <1>0, <1>3, <2>1, <2>2, <2>4, IssueTyped DEF TInv, Typed, LogIn, Placed
  <2> QED
    BY <2>2, <2>4, <2>5, Stays DEF TInv, Typed
<1>4. CASE Anonymous(q) \/ BindMinted(q)
  <2>1. /\ held' = held \cup {r.new} /\ req' = [req EXCEPT ![q] = Idle]
        /\ UNCHANGED <<token, enabled, past>> /\ r.new \in Made
    BY <1>0, <1>4 DEF Anonymous, BindMinted, Now, Placed
  <2>2. Made' = Made /\ Idle \in RequestState
    BY <2>1, IdlePlaced DEF Made, Placed
  <2>3. Placed(Idle, held', Made')
    BY IdlePlaced
  <2>4. Typed'
    BY <1>0, <2>1, <2>2 DEF TInv, Typed
  <2> QED
    BY <2>1, <2>2, <2>3, <2>4, Stays DEF TInv, Typed
<1> QED
  BY <1>1, <1>2, <1>3, <1>4

LEMMA TInvEnvironment ==
    ASSUME TInv, Environment \/ UNCHANGED vars
    PROVE  TInv'
<1>1. ASSUME NEW t \in Token, Lapse(t) PROVE TInv'
  <2>1. token' \in [Token -> TokenState] /\ Made' = Made
    BY <1>1, GoneTyped DEF Lapse
  <2>2. Typed'
    BY <1>1, <2>1 DEF TInv, Typed, Lapse
  <2> QED
    BY <1>1, <2>1, <2>2, Stays DEF Lapse
<1>2. CASE /\ UNCHANGED <<token, held, req, past>> /\ enabled' \subseteq User
  <2>1. Typed' /\ Made' = Made
    BY <1>2 DEF TInv, Typed, Made
  <2> QED
    BY <1>2, <2>1, Stays
<1>3. ASSUME NEW u \in User, SetEnabled(u) PROVE TInv'
  BY <1>2, <1>3 DEF SetEnabled, TInv, Typed
<1>4. ASSUME NEW b \in Bound(entries), Consult(b) PROVE TInv'
  BY <1>2, <1>4 DEF Consult, TInv, Typed
<1>5. CASE UNCHANGED vars
  BY <1>2, <1>5 DEF vars, TInv, Typed
<1> QED
  BY <1>1, <1>3, <1>4, <1>5 DEF Environment

LEMMA TInvNext == TInv /\ [Next]_vars => TInv'
BY TInvArrive, TInvAnswers, TInvTokens, TInvEnvironment DEF Next, Step

(* Every variable keeps its type, and what a request works on is where its   *)
(* place says, for any number of requests, tokens, users and clients.       *)
THEOREM TypeCorrect == Spec => []TypeOK
<1>1. TInv => TypeOK
  BY DEF TInv, Typed, PlacedOK, Placed, Made, TypeOK
<1> QED
  BY <1>1, TInvInit, TInvNext, PTL DEF Spec

(***************************************************************************)
(* A bearer is spent by the exchange whose revocation MA accepted: that    *)
(* request alone may mint, until it has, or gives up.                      *)
(***************************************************************************)
Paying(r) == r.kind = "exchange" /\ r.at = "create"

Settling ==
    \A q \in Request :
        Paying(req[q]) =>
            /\ token[req[q].bearer].life = "gone"
            /\ \A s \in Token : past[s].paid # req[q].bearer

Alone ==
    \A p, q \in Request :
        Paying(req[p]) /\ Paying(req[q]) /\ req[p].bearer = req[q].bearer => p = q

SInv == Settling /\ Alone /\ SpentOnce

(* A step that revives no token, buys nothing and lets nobody pay anew. *)
LEMMA SInvQuiet ==
    ASSUME TInv, SInv, past' = past,
           \A s \in Token : token[s].life = "gone" => token'[s].life = "gone",
           \A p \in Request : Paying(req'[p]) => req'[p] = req[p]
    PROVE  SInv'
<1>1. \A p \in Request : Paying(req[p]) => req[p].bearer \in Token
  BY DEF TInv, Typed, PlacedOK, Placed, Paying, Made
<1>2. \A s \in Token : past[s].paid \in Token \cup {NoToken}
  BY DEF TInv, Typed
<1>3. Settling'
  BY <1>1 DEF SInv, Settling
<1>4. Alone'
  BY DEF SInv, Alone
<1>5. SpentOnce'
  BY <1>2 DEF SInv, SpentOnce
<1> QED
  BY <1>3, <1>4, <1>5 DEF SInv

LEMMA RevokingFacts ==
    ASSUME NEW r \in RequestState
    PROVE  Paying(Revoking(r)) =>
             r.kind = "exchange" /\ r.todo = {} /\ Revoking(r).bearer = r.bearer
<1>1. CASE r.todo = {} /\ r.clean
  BY <1>1 DEF Revoking, Paying, RequestState
<1>2. CASE ~(r.todo = {} /\ r.clean)
  BY <1>2 DEF Revoking, Paying, RequestState, Idle
<1> QED
  BY <1>1, <1>2

(* Making a token: only a paying exchange buys with it. *)
LEMMA SInvIssue ==
    ASSUME TInv, SInv, NEW q \in Request, NEW t \in Token, Issue(q, t),
           req[q].kind = "exchange" => Paying(req[q]),
           ~Paying(req'[q]), \A p \in Request \ {q} : req'[p] = req[p]
    PROVE  SInv'
<1>0. /\ \A p \in Request : Paying(req[p]) => req[p].bearer \in Token
      /\ \A s \in Token : past[s].paid \in Token \cup {NoToken}
  BY DEF TInv, Typed, PlacedOK, Placed, Paying, Made
<1>1. /\ \A s \in Token : token[s].life = "gone" => token'[s].life = "gone"
      /\ \A s \in Token : s # t => past'[s] = past[s]
      /\ past'[t].paid = IF req[q].kind = "exchange" THEN req[q].bearer ELSE NoToken
  BY IssueTyped
<1>2. Alone'
  BY DEF SInv, Alone
<1>3. CASE req[q].kind = "exchange"
  <2> DEFINE b == req[q].bearer
  <2>1. Paying(req[q]) /\ b \in Token /\ past'[t].paid = b
    BY <1>0, <1>1, <1>3
  <2>2. token[b].life = "gone" /\ \A s \in Token : past[s].paid # b
    BY <2>1 DEF SInv, Settling
  <2>3. \A p \in Request : Paying(req'[p]) => req'[p] = req[p] /\ req[p].bearer # b
    BY <2>1 DEF SInv, Alone
  <2>4. Settling'
    BY <1>0, <1>1, <2>1, <2>3 DEF SInv, Settling
  <2>5. SpentOnce'
    BY <1>0, <1>1, <2>1, <2>2 DEF SInv, SpentOnce
  <2> QED
    BY <1>2, <2>4, <2>5 DEF SInv
<1>4. CASE req[q].kind # "exchange"
  <2>1. past'[t].paid = NoToken
    BY <1>1, <1>4
  <2>2. Settling'
    BY <1>0, <1>1, <2>1, TokensAssumption DEF SInv, Settling
  <2>3. SpentOnce'
    BY <1>0, <1>1, <2>1 DEF SInv, SpentOnce
  <2> QED
    BY <1>2, <2>2, <2>3 DEF SInv
<1> QED
  BY <1>3, <1>4

(* MA revokes a token once: whoever it answers had it to itself. *)
LEMMA SInvRevoke ==
    ASSUME TInv, SInv, NEW q \in Request, Revoke(q)
    PROVE  SInv'
<1> DEFINE r == req[q]
<1>0. /\ r \in RequestState /\ Placed(r, held, Made)
      /\ req \in [Request -> RequestState]
  BY DEF TInv, PlacedOK, Typed
<1>1. PICK t \in r.todo :
          /\ Valid(t)
          /\ token' = [token EXCEPT ![t].life = "gone"]
          /\ req' = [req EXCEPT ![q] = Revoking([r EXCEPT !.todo = @ \ {t}])]
          /\ past' = past
  BY DEF Revoke, Now
<1>2. /\ t \in Token
      /\ \A s \in Token : token[s].life = "gone" => token'[s].life = "gone"
      /\ token'[t].life = "gone" /\ token[t].life # "gone"
  BY <1>0, <1>1, GoneTyped DEF RequestState, Valid
<1>3. \A p \in Request \ {q} : req'[p] = req[p]
  BY <1>0, <1>1
<1>4. CASE ~Paying(req'[q])
  BY <1>1, <1>2, <1>3, <1>4, SInvQuiet
<1>5. CASE Paying(req'[q])
  <2>1. r.kind = "exchange" /\ req'[q].bearer = r.bearer
    <3>1. [r EXCEPT !.todo = @ \ {t}] \in RequestState
      BY <1>0 DEF RequestState
    <3> QED
      BY <1>0, <1>1, <1>5, <3>1, RevokingFacts DEF RequestState
  <2>2. t = r.bearer
    BY <1>0, <1>1, <2>1 DEF Placed
  <2>3. \A s \in Token : past[s].paid # t
    BY <1>2, TokensAssumption DEF SInv, SpentOnce
  <2>4. \A p \in Request : Paying(req[p]) => req[p].bearer # t /\ req[p].bearer \in Token
    BY <1>2 DEF SInv, Settling, TInv, Typed, PlacedOK, Placed, Paying, Made
  <2>5. Settling'
    BY <1>1, <1>2, <1>3, <2>1, <2>2, <2>3, <2>4 DEF SInv, Settling
  <2>6. Alone'
    BY <1>3, <2>1, <2>2, <2>4 DEF SInv, Alone
  <2>7. SpentOnce'
    BY <1>1, <1>2 DEF SInv, SpentOnce, TInv, Typed
  <2> QED
    BY <2>5, <2>6, <2>7 DEF SInv
<1> QED
  BY <1>4, <1>5

LEMMA SInvStep ==
    ASSUME TInv, SInv, NEW q \in Request, Arrive(q) \/ Step(q)
    PROVE  SInv'
<1> DEFINE r == req[q]
<1>0. /\ r \in RequestState /\ Placed(r, held, Made)
      /\ req \in [Request -> RequestState] /\ ~Paying(Idle)
  BY DEF TInv, PlacedOK, Typed, Paying, Idle
<1>1. ASSUME NEW n, ~Paying(n), Now(q, n), UNCHANGED <<token, past>> PROVE SInv'
  BY <1>0, <1>1, SInvQuiet DEF Now
<1>2. CASE Arrive(q)
  <2>1. ASSUME NEW u \in User, Open(q, u) \/ PresentPassword(q, u) PROVE SInv'
    BY <1>1, <2>1 DEF Open, PresentPassword, Paying, Idle
  <2>2. ASSUME NEW b, NEW kind, NEW name, Present(q, b, kind, name) PROVE SInv'
    BY <1>1, <2>2 DEF Present, Paying, Idle
  <2> QED
    BY <1>2, <2>1, <2>2 DEF Arrive
<1>3. CASE Admit(q)
  <2> DEFINE known == [r EXCEPT !.user = token[r.bearer].owner]
  <2>1. ~Paying([known EXCEPT !.at = "list"]) /\ ~Paying([known EXCEPT !.at = "resolve"])
    BY <1>0 DEF Paying, RequestState
  <2>2. /\ UNCHANGED <<token, past>>
        /\ \/ Now(q, Idle) \/ Now(q, [known EXCEPT !.at = "list"])
           \/ Now(q, [known EXCEPT !.at = "resolve"])
    BY <1>3 DEF Admit
  <2> QED
    BY <1>0, <1>1, <2>1, <2>2
<1>4. CASE Reject(q) \/ Fail(q) \/ Anonymous(q) \/ BindMinted(q) \/ BindVerified(q)
  BY <1>0, <1>1, <1>4 DEF Reject, Fail, Anonymous, BindMinted, BindVerified
<1>5. CASE Resolve(q)
  <2>1. PICK i \in Resolved(r.bearer) :
            Now(q, CASE r.kind = "request" -> [r EXCEPT !.at = "bind", !.id = i]
                     [] r.kind = "exchange" /\ i = NoToken -> Idle
                     [] r.kind = "exchange" /\ i # NoToken ->
                          [r EXCEPT !.at = "revoke", !.todo = {i}])
    BY <1>5 DEF Resolve
  <2>2. r.kind \in {"request", "exchange"}
    BY <1>0, <1>5 DEF Resolve, Placed
  <2>3. /\ ~Paying([r EXCEPT !.at = "bind", !.id = i])
        /\ ~Paying([r EXCEPT !.at = "revoke", !.todo = {i}])
    BY <1>0 DEF Paying, RequestState
  <2> QED
    BY <1>0, <1>1, <1>5, <2>1, <2>2, <2>3 DEF Resolve
<1>6. CASE List(q)
  <2> DEFINE mine == {t \in Token : Valid(t) /\ token[t].owner = r.user}
             old == {t \in mine : token[t].name \in Replaced(r.name)}
             n == [r EXCEPT !.seen = mine, !.todo = old]
  <2>1. n \in RequestState /\ n.kind # "exchange"
    BY <1>0, <1>6 DEF List, Placed, RequestState
  <2>2. ~Paying(Revoking(n))
    BY <2>1, RevokingFacts
  <2>3. Now(q, Revoking(n)) /\ UNCHANGED <<token, past>>
    BY <1>6 DEF List
  <2> QED
    BY <1>1, <2>2, <2>3
<1>7. CASE RevokeFails(q)
  <2>1. PICK t \in r.todo :
            Now(q, IF r.kind = "open"
                   THEN Revoking([r EXCEPT !.todo = @ \ {t}, !.clean = FALSE])
                   ELSE Idle)
    BY <1>7 DEF RevokeFails
  <2> DEFINE n == [r EXCEPT !.todo = @ \ {t}, !.clean = FALSE]
  <2>2. r.kind = "open" => ~Paying(Revoking(n))
    <3>1. n \in RequestState /\ n.kind = r.kind
      BY <1>0 DEF RequestState
    <3> QED
      BY <3>1, RevokingFacts
  <2> QED
    BY <1>0, <1>1, <1>7, <2>1, <2>2 DEF RevokeFails
<1>8. CASE WhoAmI(q) \/ Identify(q)
  <2>1. ~Paying([r EXCEPT !.at = "identify"])
    BY <1>0 DEF Paying, RequestState
  <2>2. \A i : ~Paying([r EXCEPT !.at = "bind", !.id = i])
    BY <1>0 DEF Paying, RequestState
  <2> QED
    BY <1>1, <1>8, <2>1, <2>2 DEF WhoAmI, Identify
<1>9. CASE Create(q)
  <2>1. PICK t \in Token :
            /\ Issue(q, t)
            /\ Now(q, Idle) \/ Now(q, [r EXCEPT !.at = "identify", !.new = t])
    BY <1>9 DEF Create
  <2>2. ~Paying([r EXCEPT !.at = "identify", !.new = t])
    BY <1>0 DEF Paying, RequestState
  <2>3. r.kind = "exchange" => Paying(r)
    BY <1>9 DEF Create, Paying
  <2>4. ~Paying(req'[q]) /\ \A p \in Request \ {q} : req'[p] = req[p]
    BY <1>0, <2>1, <2>2 DEF Now
  <2> QED
    BY <2>1, <2>3, <2>4, SInvIssue
<1>10. CASE LogIn(q)
  <2>1. PICK t \in Token, next \in {"identify", "whoami"} :
            Issue(q, t) /\ Now(q, [r EXCEPT !.at = next, !.new = t])
    BY <1>10 DEF LogIn
  <2>2. ~Paying([r EXCEPT !.at = next, !.new = t]) /\ r.kind # "exchange"
    BY <1>0, <1>10 DEF Paying, RequestState, LogIn, Placed
  <2>3. ~Paying(req'[q]) /\ \A p \in Request \ {q} : req'[p] = req[p]
    BY <1>0, <2>1, <2>2 DEF Now
  <2> QED
    BY <2>1, <2>2, <2>3, SInvIssue
<1> QED
  BY <1>2, <1>3, <1>4, <1>5, <1>6, <1>7, <1>8, <1>9, <1>10, SInvRevoke DEF Step

LEMMA SInvNext == TInv /\ SInv /\ [Next]_vars => SInv'
<1> SUFFICES ASSUME TInv, SInv, [Next]_vars PROVE SInv'
  OBVIOUS
<1>1. ASSUME NEW t \in Token, Lapse(t) PROVE SInv'
  BY <1>1, GoneTyped, SInvQuiet DEF Lapse
<1>2. CASE UNCHANGED <<token, req, past>>
  BY <1>2, SInvQuiet
<1>3. CASE Environment
  BY <1>1, <1>2, <1>3 DEF Environment, SetEnabled, Consult
<1> QED
  BY <1>2, <1>3, SInvStep DEF Next, vars

(* A bearer buys at most one session and is no good afterwards, however many *)
(* exchanges of it race and wherever MA fails.                              *)
THEOREM SpentOnceHolds == Spec => []SpentOnce
<1>1. Init => SInv
  BY TokensAssumption DEF Init, SInv, Settling, Alone, SpentOnce, Paying, Idle
<1>2. SInv => SpentOnce
  BY DEF SInv
<1> QED
  BY <1>1, <1>2, TInvInit, TInvNext, SInvNext, PTL DEF Spec

(***************************************************************************)
(* Rotated: of what MA listed to a request, all that its token replaces is *)
(* still to be revoked, revoked, or the reason why nothing will be minted. *)
(***************************************************************************)
Swept(r, store) ==
    /\ \A s \in r.seen :
          /\ store[s] # Unused
          /\ store[s].owner = r.user /\ store[s].name \in Replaced(r.name) =>
                s \in r.todo \/ ~r.clean \/ store[s].life # "valid"
    /\ r.at \in {"list", "verify", "resolve", "login"} => r.seen = {}
    /\ r.at = "create" => r.todo = {} /\ r.clean

SeenMade ==
    \A t \in Token : \A s \in past[t].seen : token[s] # Unused /\ token[t] # Unused

RInv == /\ \A q \in Request : Swept(req[q], token)
        /\ SeenMade
        /\ Rotated

(* The tokens MA has made keep owner and name, and are not revived. *)
Settled ==
    \A s \in Token : token[s] # Unused =>
        /\ token'[s] # Unused
        /\ token'[s].owner = token[s].owner /\ token'[s].name = token[s].name
        /\ token'[s].life = "valid" => token[s].life = "valid"

LEMMA GoneSettled ==
    ASSUME TInv, NEW t \in Token, Valid(t),
           token' = [token EXCEPT ![t].life = "gone"]
    PROVE  Settled
BY DEF TInv, Typed, TokenState, Settled, Valid, Unused

LEMMA IssueSettled ==
    ASSUME TInv, NEW q \in Request, NEW t \in Token, Issue(q, t)
    PROVE  Settled /\ token'[t] # Unused
BY DEF TInv, Typed, Settled, Issue, Unused

LEMMA SweptStays ==
    ASSUME TInv, Settled, NEW r \in RequestState, Swept(r, token)
    PROVE  Swept(r, token')
BY DEF Swept, Settled, RequestState

(* Nothing is minted: what was rotated stays so. *)
LEMMA RInvQuiet ==
    ASSUME TInv, RInv, Settled, past' = past,
           \A p \in Request : req'[p] = req[p] \/ Swept(req'[p], token')
    PROVE  RInv'
<1>1. \A p \in Request : Swept(req'[p], token')
  BY SweptStays DEF RInv, TInv, Typed
<1>2. \A t \in Token : past[t].seen \subseteq Token
  BY DEF TInv, Typed
<1>3. SeenMade'
  BY <1>2 DEF RInv, SeenMade, Settled
<1>4. Rotated'
  BY <1>2 DEF RInv, SeenMade, Rotated, Settled, Valid
<1> QED
  BY <1>1, <1>3, <1>4 DEF RInv

(* A request moves to a place where what it listed is accounted for. *)
LEMMA RInvMoves ==
    ASSUME TInv, RInv, NEW q \in Request, NEW n,
           Swept(n, token), Now(q, n), UNCHANGED <<token, past>>
    PROVE  RInv'
<1>1. Settled
  BY DEF Settled
<1>2. \A p \in Request : req'[p] = req[p] \/ Swept(req'[p], token')
  BY DEF Now, TInv, Typed
<1> QED
  BY <1>1, <1>2, RInvQuiet

LEMMA SweptIdle == \A store : Swept(Idle, store)
BY DEF Swept, Idle

LEMMA SweptRevoking ==
    ASSUME NEW r \in RequestState, NEW store, Swept(r, store)
    PROVE  Swept([r EXCEPT !.at = "revoke"], store) /\ Swept(Revoking(r), store)
<1>1. Swept([r EXCEPT !.at = "revoke"], store)
  BY DEF Swept, RequestState
<1>2. CASE r.todo = {} /\ r.clean
  <2>1. Swept([r EXCEPT !.at = "create"], store)
    BY <1>2 DEF Swept, RequestState
  <2> QED
    BY <1>1, <1>2, <2>1 DEF Revoking
<1>3. CASE ~(r.todo = {} /\ r.clean)
  BY <1>1, <1>3, SweptIdle DEF Revoking
<1> QED
  BY <1>2, <1>3

(* Whatever has nothing to replace, or has it all revoked, may be minted. *)
LEMMA RInvIssue ==
    ASSUME TInv, RInv, NEW q \in Request, NEW t \in Token, Issue(q, t),
           req[q].at \in {"create", "login"},
           NEW n, Swept(n, token'), Now(q, n)
    PROVE  RInv'
<1> DEFINE r == req[q]
<1>0. /\ r \in RequestState /\ Swept(r, token) /\ token[t] = Unused
      /\ \A u \in Token : past[u].seen \subseteq Token
  BY DEF TInv, Typed, RInv, Issue
<1>1. Settled /\ token'[t] # Unused
  BY IssueSettled
<1>2. \A p \in Request : Swept(req'[p], token')
  <2>1. \A p \in Request : req'[p] = req[p] \/ Swept(req'[p], token')
    BY DEF Now, TInv, Typed
  <2> QED
    BY <1>1, <2>1, SweptStays DEF RInv, TInv, Typed
<1>3. /\ \A u \in Token : u # t => past'[u] = past[u]
      /\ past'[t].seen = r.seen
      /\ token'[t].owner = r.user /\ token'[t].name = r.name
  BY DEF Issue, TInv, Typed
<1>4. r.seen \subseteq Token /\ \A s \in r.seen :
          /\ token[s] # Unused
          /\ token[s].owner = r.user /\ token[s].name \in Replaced(r.name) => ~Valid(s)
  BY <1>0 DEF Swept, RequestState, Valid
<1>5. SeenMade'
  BY <1>0, <1>1, <1>3, <1>4 DEF RInv, SeenMade, Settled
<1>6. Rotated'
  <2>1. ASSUME NEW u \in Token, NEW s \in past'[u].seen,
               token'[s].owner = token'[u].owner, token'[s].name \in Replaced(token'[u].name)
        PROVE  token'[s].life # "valid"
    <3>1. CASE u = t
      BY <1>1, <1>3, <1>4, <2>1, <3>1 DEF Settled, Valid
    <3>2. CASE u # t
      BY <1>0, <1>1, <1>3, <2>1, <3>2 DEF Settled, Valid, RInv, SeenMade, Rotated
    <3> QED
      BY <3>1, <3>2
  <2> QED
    BY <2>1 DEF Rotated, Valid
<1> QED
  BY <1>2, <1>5, <1>6 DEF RInv

LEMMA RInvStep ==
    ASSUME TInv, RInv, NEW q \in Request, Arrive(q) \/ Step(q)
    PROVE  RInv'
<1> DEFINE r == req[q]
<1>0. r \in RequestState /\ Swept(r, token) /\ Placed(r, held, Made)
  BY DEF TInv, PlacedOK, Typed, RInv
<1>1. CASE Arrive(q)
  <2>1. ASSUME NEW u \in User, Open(q, u) \/ PresentPassword(q, u) PROVE RInv'
    BY <2>1, RInvMoves DEF Open, PresentPassword, Swept, Idle
  <2>2. ASSUME NEW b, NEW kind, NEW name, Present(q, b, kind, name) PROVE RInv'
    BY <2>2, RInvMoves DEF Present, Swept, Idle
  <2> QED
    BY <1>1, <2>1, <2>2 DEF Arrive
<1>2. CASE Admit(q)
  <2> DEFINE known == [r EXCEPT !.user = token[r.bearer].owner]
  <2>1. /\ Swept([known EXCEPT !.at = "list"], token)
        /\ Swept([known EXCEPT !.at = "resolve"], token)
    BY <1>0, <1>2 DEF Admit, Swept, RequestState
  <2>2. /\ UNCHANGED <<token, past>>
        /\ \/ Now(q, Idle) \/ Now(q, [known EXCEPT !.at = "list"])
           \/ Now(q, [known EXCEPT !.at = "resolve"])
    BY <1>2 DEF Admit
  <2> QED
    BY <2>1, <2>2, SweptIdle, RInvMoves
<1>3. CASE Reject(q) \/ Fail(q) \/ Anonymous(q) \/ BindMinted(q) \/ BindVerified(q)
  BY <1>3, SweptIdle, RInvMoves DEF Reject, Fail, Anonymous, BindMinted, BindVerified
<1>4. CASE Resolve(q)
  <2>1. PICK i \in Resolved(r.bearer) :
            Now(q, CASE r.kind = "request" -> [r EXCEPT !.at = "bind", !.id = i]
                     [] r.kind = "exchange" /\ i = NoToken -> Idle
                     [] r.kind = "exchange" /\ i # NoToken ->
                          [r EXCEPT !.at = "revoke", !.todo = {i}])
    BY <1>4 DEF Resolve
  <2>2. r.kind \in {"request", "exchange"}
    BY <1>0, <1>4 DEF Resolve, Placed
  <2>3. /\ Swept([r EXCEPT !.at = "bind", !.id = i], token)
        /\ Swept([r EXCEPT !.at = "revoke", !.todo = {i}], token)
    BY <1>0, <1>4 DEF Resolve, Swept, RequestState
  <2> QED
    BY <1>4, <2>1, <2>2, <2>3, SweptIdle, RInvMoves DEF Resolve
<1>5. CASE List(q)
  <2> DEFINE mine == {t \in Token : Valid(t) /\ token[t].owner = r.user}
             old == {t \in mine : token[t].name \in Replaced(r.name)}
             n == [r EXCEPT !.seen = mine, !.todo = old]
             m == [n EXCEPT !.at = "revoke"]
  <2>1. n \in RequestState /\ m \in RequestState
    BY <1>0 DEF RequestState, At
  <2>2. Revoking(m) = Revoking(n)
    BY <1>0 DEF Revoking, RequestState
  <2>3. Swept(m, token)
    BY <1>0 DEF Swept, RequestState, Valid, Unused
  <2>4. Swept(Revoking(n), token)
    BY <2>1, <2>2, <2>3, SweptRevoking
  <2>5. Now(q, Revoking(n)) /\ UNCHANGED <<token, past>>
    BY <1>5 DEF List
  <2> QED
    BY <2>4, <2>5, RInvMoves
<1>6. CASE Revoke(q)
  <2>1. PICK t \in r.todo :
            /\ Valid(t)
            /\ token' = [token EXCEPT ![t].life = "gone"]
            /\ Now(q, Revoking([r EXCEPT !.todo = @ \ {t}]))
            /\ past' = past
    BY <1>6 DEF Revoke
  <2>2. t \in Token
    BY <1>0 DEF RequestState
  <2>3. Settled /\ token'[t].life = "gone"
    BY <2>1, <2>2, GoneSettled, GoneTyped
  <2>4. Swept(r, token')
    BY <1>0, <2>3, SweptStays
  <2>5. /\ [r EXCEPT !.todo = @ \ {t}] \in RequestState
        /\ Swept([r EXCEPT !.todo = @ \ {t}], token')
    BY <1>0, <2>3, <2>4 DEF Swept, RequestState
  <2>6. Swept(Revoking([r EXCEPT !.todo = @ \ {t}]), token')
    BY <2>5, SweptRevoking
  <2>7. \A p \in Request : req'[p] = req[p] \/ Swept(req'[p], token')
    BY <2>1, <2>6 DEF Now, TInv, Typed
  <2> QED
    BY <2>1, <2>3, <2>7, RInvQuiet
<1>7. CASE RevokeFails(q)
  <2>1. PICK t \in r.todo :
            Now(q, IF r.kind = "open"
                   THEN Revoking([r EXCEPT !.todo = @ \ {t}, !.clean = FALSE])
                   ELSE Idle)
    BY <1>7 DEF RevokeFails
  <2> DEFINE n == [r EXCEPT !.todo = @ \ {t}, !.clean = FALSE]
  <2>2. n \in RequestState /\ Swept(n, token)
    BY <1>0, <1>7 DEF RevokeFails, Swept, RequestState
  <2>3. Swept(Revoking(n), token)
    BY <2>2, SweptRevoking
  <2> QED
    BY <1>7, <2>1, <2>3, SweptIdle, RInvMoves DEF RevokeFails
<1>8. CASE WhoAmI(q)
  <2>1. Swept([r EXCEPT !.at = "identify"], token)
    BY <1>0 DEF Swept, RequestState
  <2> QED
    BY <1>8, <2>1, RInvMoves DEF WhoAmI
<1>9. CASE Identify(q)
  <2>1. \A i : Swept([r EXCEPT !.at = "bind", !.id = i], token)
    BY <1>0 DEF Swept, RequestState
  <2> QED
    BY <1>9, <2>1, RInvMoves DEF Identify
<1>10. CASE Create(q) \/ LogIn(q)
  <2>1. PICK t \in Token, next \in {"identify", "whoami"} :
            /\ Issue(q, t)
            /\ Now(q, Idle) \/ Now(q, [r EXCEPT !.at = next, !.new = t])
    BY <1>10 DEF Create, LogIn
  <2>2. Swept(r, token')
    BY <1>0, <2>1, IssueSettled, SweptStays
  <2>3. Swept([r EXCEPT !.at = next, !.new = t], token')
    BY <1>0, <2>2 DEF Swept, RequestState
  <2> QED
    BY <1>10, <2>1, <2>3, SweptIdle, RInvIssue DEF Create, LogIn
<1> QED
  BY <1>1, <1>2, <1>3, <1>4, <1>5, <1>6, <1>7, <1>8, <1>9, <1>10 DEF Step

LEMMA RInvNext == TInv /\ RInv /\ [Next]_vars => RInv'
<1> SUFFICES ASSUME TInv, RInv, [Next]_vars PROVE RInv'
  OBVIOUS
<1>1. ASSUME NEW t \in Token, Lapse(t) PROVE RInv'
  BY <1>1, GoneSettled, RInvQuiet DEF Lapse
<1>2. CASE UNCHANGED <<token, req, past>>
  BY <1>2, RInvQuiet DEF Settled
<1>3. CASE Environment
  BY <1>1, <1>2, <1>3 DEF Environment, SetEnabled, Consult
<1> QED
  BY <1>2, <1>3, RInvStep DEF Next, vars

(* When the wizard has made a token, everything MA had listed that the token *)
(* replaces is gone, whatever failed or ran at the same time.               *)
THEOREM RotatedHolds == Spec => []Rotated
<1>1. Init => RInv
  BY SweptIdle DEF Init, RInv, SeenMade, Rotated
<1>2. RInv => Rotated
  BY DEF RInv
<1> QED
  BY <1>1, <1>2, TInvInit, TInvNext, RInvNext, PTL DEF Spec

(***************************************************************************)
(* The identity registry: deleting, binding and using an entry, then what  *)
(* a request knows of the bearer it is about to bind.                      *)
(***************************************************************************)
(* No bearer is bound twice. *)
Distinct(s) == \A i, j \in DOMAIN s : s[i].bearer = s[j].bearer => i = j

(* Deleting one place closes the gap. *)
LEMMA Deleted ==
    ASSUME NEW S, NEW s \in Seq(S), NEW p \in 1 .. Len(s)
    PROVE  LET t == SubSeq(s, 1, p - 1) \o SubSeq(s, p + 1, Len(s))
           IN  /\ t \in Seq(S)
               /\ Len(t) = Len(s) - 1
               /\ \A i \in 1 .. Len(s) - 1 : t[i] = IF i < p THEN s[i] ELSE s[i + 1]
<1> DEFINE a == SubSeq(s, 1, p - 1)
           z == SubSeq(s, p + 1, Len(s))
<1>1. a \in Seq(S) /\ Len(a) = p - 1 /\ \A i \in 1 .. p - 1 : a[i] = s[i]
  OBVIOUS
<1>2. z \in Seq(S) /\ Len(z) = Len(s) - p /\ \A i \in 1 .. Len(s) - p : z[i] = s[p + i]
  OBVIOUS
<1> HIDE DEF a, z
<1>3. Len(a \o z) = Len(s) - 1 /\ a \o z \in Seq(S)
  <2>1. a \o z \in Seq(S)
    BY <1>1, <1>2
  <2>2. Len(a \o z) = Len(a) + Len(z)
    <3>1. a \in Seq(S) /\ z \in Seq(S)
      BY <1>1, <1>2
    <3> QED
      BY <3>1
  <2> QED
    BY <1>1, <1>2, <2>1, <2>2
<1>4. ASSUME NEW i \in 1 .. Len(s) - 1
      PROVE  (a \o z)[i] = IF i < p THEN s[i] ELSE s[i + 1]
  BY <1>1, <1>2
<1> QED
  BY <1>3, <1>4 DEF a, z

LEMMA PlaceOf ==
    ASSUME NEW s, NEW b \in Bound(s)
    PROVE  Place(s, b) \in DOMAIN s /\ s[Place(s, b)].bearer = b
BY DEF Place, Bound

LEMMA WithoutFacts ==
    ASSUME NEW S, NEW s \in Seq(S), Distinct(s), NEW b
    PROVE  /\ Without(s, b) \in Seq(S)
           /\ Distinct(Without(s, b))
           /\ Len(Without(s, b)) <= Len(s)
           /\ b \in Bound(s) => Len(Without(s, b)) < Len(s)
           /\ Entries(Without(s, b)) = {e \in Entries(s) : e.bearer # b}
<1> DEFINE p == Place(s, b)
           t == Without(s, b)
<1>1. CASE b \in Bound(s)
  <2>1. p \in 1 .. Len(s) /\ s[p].bearer = b
    BY <1>1, PlaceOf
  <2>2. /\ t \in Seq(S) /\ Len(t) = Len(s) - 1
        /\ \A i \in 1 .. Len(s) - 1 : t[i] = IF i < p THEN s[i] ELSE s[i + 1]
    BY <1>1, <2>1, Deleted DEF Without
  <2> HIDE DEF p, t
  <2>3. Distinct(t)
    <3> DEFINE from(i) == IF i < p THEN i ELSE i + 1
    <3>1. ASSUME NEW i \in DOMAIN t PROVE from(i) \in DOMAIN s /\ t[i] = s[from(i)]
      BY <2>1, <2>2
    <3>2. \A i, j \in DOMAIN t : from(i) = from(j) => i = j
      BY <2>1, <2>2
    <3> HIDE DEF from
    <3> QED
      BY <3>1, <3>2 DEF Distinct
  <2>4. ASSUME NEW i \in DOMAIN t PROVE t[i] \in Entries(s) /\ t[i].bearer # b
    BY <2>1, <2>2 DEF Distinct, Entries
  <2>5. ASSUME NEW i \in DOMAIN s, s[i].bearer # b PROVE s[i] \in Entries(t)
    <3>1. CASE i < p
      BY <2>1, <2>2, <3>1 DEF Entries
    <3>2. CASE i > p
      <4>1. i - 1 \in DOMAIN t /\ t[i - 1] = s[i]
        BY <2>1, <2>2, <3>2
      <4> QED
        BY <4>1 DEF Entries
    <3> QED
      BY <2>1, <2>5, <3>1, <3>2
  <2>6. Entries(t) = {e \in Entries(s) : e.bearer # b}
    BY <2>4, <2>5 DEF Entries
  <2> QED
    BY <2>2, <2>3, <2>6 DEF t
<1>2. CASE b \notin Bound(s)
  BY <1>2 DEF Without, Bound, Entries
<1> QED
  BY <1>1, <1>2

LEMMA AppendFacts ==
    ASSUME NEW S, NEW s \in Seq(S), Distinct(s), NEW e \in S,
           \A x \in Entries(s) : x.bearer # e.bearer
    PROVE  /\ Append(s, e) \in Seq(S) /\ Len(Append(s, e)) = Len(s) + 1
           /\ Distinct(Append(s, e))
           /\ Entries(Append(s, e)) = Entries(s) \cup {e}
<1> DEFINE t == Append(s, e)
<1>1. /\ t \in Seq(S) /\ Len(t) = Len(s) + 1
      /\ t[Len(s) + 1] = e /\ \A i \in 1 .. Len(s) : t[i] = s[i]
  OBVIOUS
<1> HIDE DEF t
<1>2. Distinct(t)
  BY <1>1 DEF Distinct, Entries
<1>3. Entries(t) = Entries(s) \cup {e}
  <2>1. ASSUME NEW i \in DOMAIN t PROVE t[i] \in Entries(s) \cup {e}
    BY <1>1 DEF Entries
  <2>2. ASSUME NEW i \in DOMAIN s PROVE s[i] \in Entries(t)
    BY <1>1 DEF Entries
  <2>3. e \in Entries(t)
    BY <1>1 DEF Entries
  <2> QED
    BY <2>1, <2>2, <2>3 DEF Entries
<1> QED
  BY <1>1, <1>2, <1>3 DEF t

LEMMA TailFacts ==
    ASSUME NEW S, NEW s \in Seq(S), Distinct(s), Len(s) > 0
    PROVE  /\ Tail(s) \in Seq(S) /\ Len(Tail(s)) = Len(s) - 1
           /\ Distinct(Tail(s))
           /\ Entries(Tail(s)) \subseteq Entries(s)
<1> DEFINE t == Tail(s)
<1>1. /\ t \in Seq(S) /\ Len(t) = Len(s) - 1
      /\ \A i \in 1 .. Len(s) - 1 : t[i] = s[i + 1]
  OBVIOUS
<1> HIDE DEF t
<1>2. \A i \in DOMAIN t : i + 1 \in DOMAIN s /\ t[i] = s[i + 1]
  BY <1>1
<1>3. Distinct(t)
  <2> SUFFICES ASSUME NEW i \in DOMAIN t, NEW j \in DOMAIN t, t[i].bearer = t[j].bearer
               PROVE  i = j
    BY DEF Distinct
  <2>1. i + 1 = j + 1
    BY <1>2 DEF Distinct
  <2> QED
    BY <1>1, <2>1
<1>4. Entries(t) \subseteq Entries(s)
  BY <1>2 DEF Entries
<1> QED
  BY <1>1, <1>3, <1>4 DEF t

LEMMA BindFacts ==
    ASSUME NEW S, NEW s \in Seq(S), Distinct(s), Len(s) <= Capacity, NEW e \in S
    PROVE  /\ Bind(s, e) \in Seq(S) /\ Len(Bind(s, e)) <= Capacity
           /\ Distinct(Bind(s, e))
           /\ Entries(Bind(s, e)) \subseteq Entries(s) \cup {e}
<1> DEFINE w == Without(s, e.bearer)
           t == Append(w, e)
<1>1. /\ w \in Seq(S) /\ Distinct(w) /\ Len(w) <= Len(s)
      /\ Entries(w) = {x \in Entries(s) : x.bearer # e.bearer}
  BY WithoutFacts
<1> HIDE DEF w
<1>2. /\ t \in Seq(S) /\ Len(t) = Len(w) + 1 /\ Distinct(t)
      /\ Entries(t) \subseteq Entries(s) \cup {e}
  BY <1>1, AppendFacts
<1> HIDE DEF t
<1>3. Bind(s, e) = IF Len(t) > Capacity THEN Tail(t) ELSE t
  BY DEF Bind, w, t
<1> QED
  BY <1>1, <1>2, <1>3, TailFacts, CapacityAssumption

(* Using a binding keeps all of them. *)
LEMMA LookupFacts ==
    ASSUME NEW S, NEW s \in Seq(S), Distinct(s), Len(s) <= Capacity, NEW b
    PROVE  /\ Lookup(s, b) \in Seq(S) /\ Len(Lookup(s, b)) <= Capacity
           /\ Distinct(Lookup(s, b))
           /\ Entries(Lookup(s, b)) = Entries(s)
<1>1. CASE b \in Bound(s)
  <2> DEFINE e == s[Place(s, b)]
             w == Without(s, b)
  <2>1. e \in Entries(s) /\ e.bearer = b /\ e \in S
    BY <1>1, PlaceOf DEF Entries
  <2>2. /\ w \in Seq(S) /\ Distinct(w) /\ Len(w) < Len(s)
        /\ Entries(w) = {x \in Entries(s) : x.bearer # b}
    BY <1>1, WithoutFacts
  <2>3. Lookup(s, b) = Append(w, e)
    BY <1>1 DEF Lookup
  <2> HIDE DEF e, w
  <2>4. \A x \in Entries(s) : x.bearer = b => x = e
    <3>1. \A i \in DOMAIN s : s[i].bearer = b => i = Place(s, b)
      BY <1>1, PlaceOf DEF Distinct
    <3> QED
      BY <3>1 DEF Entries, e
  <2>5. /\ Append(w, e) \in Seq(S) /\ Len(Append(w, e)) = Len(w) + 1
        /\ Distinct(Append(w, e)) /\ Entries(Append(w, e)) = Entries(w) \cup {e}
    BY <2>1, <2>2, AppendFacts
  <2> QED
    BY <2>1, <2>2, <2>3, <2>4, <2>5, CapacityAssumption
<1>2. CASE b \notin Bound(s)
  BY <1>2 DEF Lookup
<1> QED
  BY <1>1, <1>2

(* What the registry says of a bearer is so. *)
Entry == [bearer : Token, user : User \cup {NoUser}, id : Token \cup {NoToken}]

Truthful(e, store) ==
    /\ store[e.bearer] # Unused
    /\ e.user = store[e.bearer].owner
    /\ e.id \in {NoToken, e.bearer}

Registry(s, store) ==
    /\ s \in Seq(Entry) /\ Len(s) <= Capacity /\ Distinct(s)
    /\ \A e \in Entries(s) : Truthful(e, store)

(* A request knows the owner of the bearer it will bind: the one it          *)
(* presented, or the one MA made for it.                                    *)
Knows(r, t, store) ==
    /\ t \in Token /\ store[t] # Unused
    /\ r.user = store[t].owner
    /\ r.at = "bind" => r.id \in {NoToken, t}

Knowing(r, store) ==
    /\ r.kind = "request" => r.at \in {"verify", "resolve", "bind"}
    /\ r.kind = "request" /\ r.at \in {"resolve", "bind"} => Knows(r, r.bearer, store)
    /\ r.kind # "request" /\ r.at \in {"whoami", "identify", "bind"} => Knows(r, r.new, store)

BInv == /\ Registry(entries, token)
        /\ compiled = TokenIds(entries)
        /\ \A q \in Request : Knowing(req[q], token)

LEMMA RegistryStays ==
    ASSUME Settled, NEW s, Registry(s, token)
    PROVE  Registry(s, token')
<1>1. \A e \in Entries(s) : e \in Entry
  BY DEF Registry, Entries
<1>2. \A e \in Entries(s) : e.bearer \in Token
  BY <1>1 DEF Entry
<1> QED
  BY <1>2 DEF Registry, Truthful, Settled

LEMMA KnowingStays ==
    ASSUME Settled, NEW r \in RequestState, Knowing(r, token)
    PROVE  Knowing(r, token')
BY DEF Knowing, Knows, Settled

LEMMA BInvMoves ==
    ASSUME TInv, BInv, Settled, Registry(entries', token'), compiled' = TokenIds(entries'),
           \A p \in Request : req'[p] = req[p] \/ Knowing(req'[p], token')
    PROVE  BInv'
<1>1. \A p \in Request : req[p] \in RequestState /\ Knowing(req[p], token)
  BY DEF TInv, Typed, BInv
<1> QED
  BY <1>1, KnowingStays DEF BInv

(* The registry is left alone. *)
LEMMA BInvQuiet ==
    ASSUME TInv, BInv, Settled, UNCHANGED registry,
           \A p \in Request : req'[p] = req[p] \/ Knowing(req'[p], token')
    PROVE  BInv'
<1>1. Registry(entries', token') /\ compiled' = TokenIds(entries')
  BY RegistryStays DEF BInv, registry
<1> QED
  BY <1>1, BInvMoves

LEMMA BInvOne ==
    ASSUME TInv, BInv, NEW q \in Request, NEW n, Knowing(n, token), Now(q, n),
           UNCHANGED <<token, registry>>
    PROVE  BInv'
<1>1. Settled
  BY DEF Settled
<1>2. \A p \in Request : req'[p] = req[p] \/ Knowing(req'[p], token')
  BY DEF Now, TInv, Typed
<1> QED
  BY <1>1, <1>2, BInvQuiet

LEMMA KnowingIdle == \A store : Knowing(Idle, store)
BY DEF Knowing, Idle

(* Whatever the registry becomes, the resolver is compiled for its ids: when *)
(* no entry changes no id does.                                             *)
LEMMA Compiles ==
    ASSUME compiled = TokenIds(entries), NEW next, Register(next)
    PROVE  entries' = next /\ compiled' = TokenIds(entries')
<1>1. \A s : TokenIds(s) = {e.id : e \in Entries(s)} \ {NoToken}
  BY DEF TokenIds, Entries
<1>2. Entries(entries) = Entries(next) => TokenIds(entries) = TokenIds(next)
  BY <1>1
<1> QED
  BY <1>2 DEF Register, Notifies

LEMMA BInvRegister ==
    ASSUME TInv, BInv, NEW q \in Request, NEW next,
           Registry(next, token), Register(next), Now(q, Idle), token' = token
    PROVE  BInv'
<1>1. Settled /\ entries' = next /\ compiled' = TokenIds(entries')
  BY Compiles DEF BInv, Settled
<1>2. \A p \in Request : req'[p] = req[p] \/ Knowing(req'[p], token')
  BY KnowingIdle DEF Now, TInv, Typed
<1> QED
  BY <1>1, <1>2, BInvMoves

LEMMA RegistryWithout ==
    ASSUME NEW s, NEW store, Registry(s, store), NEW b
    PROVE  Registry(Without(s, b), store)
<1>1. s \in Seq(Entry) /\ Distinct(s) /\ Len(s) <= Capacity
  BY DEF Registry
<1>2. /\ Without(s, b) \in Seq(Entry) /\ Distinct(Without(s, b))
      /\ Len(Without(s, b)) <= Len(s)
      /\ Entries(Without(s, b)) = {e \in Entries(s) : e.bearer # b}
  BY <1>1, WithoutFacts
<1>3. Len(Without(s, b)) <= Capacity
  BY <1>1, <1>2, CapacityAssumption
<1> QED
  BY <1>2, <1>3 DEF Registry

LEMMA RegistryBind ==
    ASSUME NEW s, NEW store, Registry(s, store), NEW e \in Entry, Truthful(e, store)
    PROVE  Registry(Bind(s, e), store)
<1>1. s \in Seq(Entry) /\ Distinct(s) /\ Len(s) <= Capacity
  BY DEF Registry
<1>2. /\ Bind(s, e) \in Seq(Entry) /\ Len(Bind(s, e)) <= Capacity
      /\ Distinct(Bind(s, e)) /\ Entries(Bind(s, e)) \subseteq Entries(s) \cup {e}
  BY <1>1, BindFacts
<1> QED
  BY <1>2 DEF Registry

LEMMA BInvStep ==
    ASSUME TInv, BInv, NEW q \in Request, Arrive(q) \/ Step(q)
    PROVE  BInv'
<1> DEFINE r == req[q]
<1>0. /\ r \in RequestState /\ Knowing(r, token) /\ Placed(r, held, Made)
      /\ Registry(entries, token) /\ held \subseteq Made
  BY DEF TInv, PlacedOK, Typed, BInv
<1>1. CASE Arrive(q)
  <2>1. ASSUME NEW u \in User, Open(q, u) \/ PresentPassword(q, u) PROVE BInv'
    BY <2>1, BInvOne DEF Open, PresentPassword, Knowing, Idle
  <2>2. ASSUME NEW b, NEW kind, NEW name, Present(q, b, kind, name) PROVE BInv'
    BY <2>2, BInvOne DEF Present, Knowing, Idle
  <2> QED
    BY <1>1, <2>1, <2>2 DEF Arrive
<1>2. CASE Admit(q)
  <2> DEFINE known == [r EXCEPT !.user = token[r.bearer].owner]
  <2>1. r.bearer \in Made
    BY <1>0, <1>2 DEF Admit, Placed
  <2>2. /\ r.kind = "mint" => Knowing([known EXCEPT !.at = "list"], token)
        /\ Knowing([known EXCEPT !.at = "resolve"], token)
    BY <1>0, <2>1 DEF Knowing, Knows, RequestState, Made
  <2>3. /\ UNCHANGED <<token, registry>>
        /\ \/ Now(q, Idle)
           \/ r.kind = "mint" /\ Now(q, [known EXCEPT !.at = "list"])
           \/ Now(q, [known EXCEPT !.at = "resolve"])
    BY <1>2 DEF Admit
  <2> QED
    BY <2>2, <2>3, KnowingIdle, BInvOne
<1>3. CASE Reject(q)
  <2>1. CASE r.kind = "request"
    <3>1. Registry(Without(entries, r.bearer), token)
      BY <1>0, RegistryWithout
    <3> QED
      BY <1>3, <2>1, <3>1, BInvRegister DEF Reject
  <2>2. CASE r.kind # "request"
    BY <1>3, <2>2, KnowingIdle, BInvOne DEF Reject
  <2> QED
    BY <2>1, <2>2
<1>4. CASE Resolve(q)
  <2>1. PICK i \in Resolved(r.bearer) :
            Now(q, CASE r.kind = "request" -> [r EXCEPT !.at = "bind", !.id = i]
                     [] r.kind = "exchange" /\ i = NoToken -> Idle
                     [] r.kind = "exchange" /\ i # NoToken ->
                          [r EXCEPT !.at = "revoke", !.todo = {i}])
    BY <1>4 DEF Resolve
  <2>2. r.kind \in {"request", "exchange"} /\ i \in {NoToken, r.bearer}
    BY <1>0, <1>4 DEF Resolve, Placed, Resolved
  <2>3. r.kind = "request" => Knowing([r EXCEPT !.at = "bind", !.id = i], token)
    BY <1>0, <1>4, <2>2 DEF Resolve, Knowing, Knows, RequestState
  <2>4. r.kind = "exchange" => Knowing([r EXCEPT !.at = "revoke", !.todo = {i}], token)
    BY <1>0 DEF Knowing, RequestState
  <2> QED
    BY <1>4, <2>1, <2>2, <2>3, <2>4, KnowingIdle, BInvOne DEF Resolve
<1>5. CASE List(q)
  <2> DEFINE mine == {t \in Token : Valid(t) /\ token[t].owner = r.user}
             old == {t \in mine : token[t].name \in Replaced(r.name)}
             n == [r EXCEPT !.seen = mine, !.todo = old]
  <2>1. n \in RequestState /\ n.kind # "request"
    BY <1>0, <1>5 DEF RequestState, List, Placed
  <2>2. Knowing(Revoking(n), token)
    BY <2>1, KnowingIdle DEF Revoking, Knowing, RequestState
  <2>3. Now(q, Revoking(n)) /\ UNCHANGED <<token, registry>>
    BY <1>5 DEF List
  <2> QED
    BY <2>2, <2>3, BInvOne
<1>6. CASE Revoke(q)
  <2>1. PICK t \in r.todo :
            /\ Valid(t)
            /\ token' = [token EXCEPT ![t].life = "gone"]
            /\ Now(q, Revoking([r EXCEPT !.todo = @ \ {t}]))
            /\ UNCHANGED registry
    BY <1>6 DEF Revoke
  <2> DEFINE n == [r EXCEPT !.todo = @ \ {t}]
  <2>2. t \in Token /\ n \in RequestState /\ n.kind # "request"
    BY <1>0, <1>6 DEF RequestState, Revoke, Knowing
  <2>3. Settled
    BY <2>1, <2>2, GoneSettled
  <2>4. Knowing(Revoking(n), token')
    BY <2>2, KnowingIdle DEF Revoking, Knowing, RequestState
  <2>5. \A p \in Request : req'[p] = req[p] \/ Knowing(req'[p], token')
    BY <2>1, <2>4 DEF Now, TInv, Typed
  <2> QED
    BY <2>1, <2>3, <2>5, BInvQuiet
<1>7. CASE RevokeFails(q)
  <2>1. PICK t \in r.todo :
            Now(q, IF r.kind = "open"
                   THEN Revoking([r EXCEPT !.todo = @ \ {t}, !.clean = FALSE])
                   ELSE Idle)
    BY <1>7 DEF RevokeFails
  <2> DEFINE n == [r EXCEPT !.todo = @ \ {t}, !.clean = FALSE]
  <2>2. n \in RequestState /\ n.kind # "request"
    BY <1>0, <1>7 DEF RequestState, RevokeFails, Knowing
  <2>3. Knowing(Revoking(n), token)
    BY <2>2, KnowingIdle DEF Revoking, Knowing, RequestState
  <2> QED
    BY <1>7, <2>1, <2>3, KnowingIdle, BInvOne DEF RevokeFails
<1>8. CASE Fail(q) \/ Anonymous(q)
  BY <1>8, KnowingIdle, BInvOne DEF Fail, Anonymous
<1>9. CASE WhoAmI(q)
  <2>1. r.kind # "request"
    BY <1>0, <1>9 DEF WhoAmI, Placed
  <2>2. Knowing([r EXCEPT !.at = "identify"], token)
    BY <1>0, <1>9, <2>1 DEF WhoAmI, Knowing, Knows, RequestState
  <2> QED
    BY <1>9, <2>2, BInvOne DEF WhoAmI
<1>10. CASE Identify(q)
  <2>1. PICK i \in Resolved(r.new) : Now(q, [r EXCEPT !.at = "bind", !.id = i])
    BY <1>10 DEF Identify
  <2>2. i \in {NoToken, r.new} /\ r.at = "identify"
    BY <1>10 DEF Resolved, Identify
  <2>3. r.kind # "request"
    BY <1>0, <2>2 DEF Knowing
  <2>4. Knowing([r EXCEPT !.at = "bind", !.id = i], token)
    BY <1>0, <2>2, <2>3 DEF Knowing, Knows, RequestState
  <2> QED
    BY <1>10, <2>1, <2>4, BInvOne DEF Identify
<1>11. CASE Create(q) \/ LogIn(q)
  <2>1. PICK t \in Token, next \in {"identify", "whoami"} :
            /\ Issue(q, t)
            /\ Now(q, Idle) \/ Now(q, [r EXCEPT !.at = next, !.new = t])
    BY <1>11 DEF Create, LogIn
  <2>2. Settled /\ token'[t] # Unused /\ token'[t].owner = r.user
    BY <2>1, IssueSettled DEF Issue, TInv, Typed
  <2>3. r.kind # "request" => Knowing([r EXCEPT !.at = next, !.new = t], token')
    BY <1>0, <2>2 DEF Knowing, Knows, RequestState
  <2>4. r.kind # "request"
    BY <1>0, <1>11 DEF Create, LogIn, Knowing, Placed
  <2>5. \A p \in Request : req'[p] = req[p] \/ Knowing(req'[p], token')
    BY <2>1, <2>3, <2>4, KnowingIdle DEF Now, TInv, Typed
  <2> QED
    BY <1>11, <2>2, <2>5, BInvQuiet DEF Create, LogIn
<1>12. CASE BindMinted(q)
  <2> DEFINE e == [bearer |-> r.new, user |-> r.user, id |-> r.id]
  <2>1. e \in Entry /\ Truthful(e, token)
    BY <1>0, <1>12 DEF BindMinted, Knowing, Knows, Entry, Truthful, RequestState
  <2>2. Registry(Bind(entries, e), token)
    BY <1>0, <2>1, RegistryBind
  <2> QED
    BY <1>12, <2>2, BInvRegister DEF BindMinted
<1>13. CASE BindVerified(q)
  <2> DEFINE e == [bearer |-> r.bearer, user |-> r.user, id |-> r.id]
  <2>1. e \in Entry /\ Truthful(e, token)
    BY <1>0, <1>13 DEF BindVerified, Knowing, Knows, Entry, Truthful, RequestState
  <2>2. Registry(Bind(entries, e), token) /\ Registry(Without(entries, r.bearer), token)
    BY <1>0, <2>1, RegistryBind, RegistryWithout
  <2> QED
    BY <1>13, <2>2, BInvRegister DEF BindVerified
<1> QED
  BY <1>1, <1>2, <1>3, <1>4, <1>5, <1>6, <1>7, <1>8, <1>9, <1>10, <1>11, <1>12, <1>13
     DEF Step

LEMMA BInvConsult ==
    ASSUME TInv, BInv, NEW b, Consult(b)
    PROVE  BInv'
<1>1. /\ entries' \in Seq(Entry) /\ Len(entries') <= Capacity
      /\ Distinct(entries') /\ Entries(entries') = Entries(entries)
  BY LookupFacts DEF BInv, Registry, Consult
<1>2. Registry(entries', token') /\ Settled
  BY <1>1 DEF BInv, Registry, Consult, Settled
<1>3. \A s : TokenIds(s) = {e.id : e \in Entries(s)} \ {NoToken}
  BY DEF TokenIds, Entries
<1>4. compiled' = TokenIds(entries')
  BY <1>1, <1>3 DEF BInv, Consult
<1> QED
  BY <1>2, <1>4, BInvMoves DEF Consult

LEMMA BInvNext == TInv /\ BInv /\ [Next]_vars => BInv'
<1> SUFFICES ASSUME TInv, BInv, [Next]_vars PROVE BInv'
  OBVIOUS
<1>1. ASSUME NEW t \in Token, Lapse(t) PROVE BInv'
  BY <1>1, GoneSettled, BInvQuiet DEF Lapse
<1>2. CASE UNCHANGED <<token, req, registry>>
  BY <1>2, BInvQuiet DEF Settled
<1>3. CASE Environment
  BY <1>1, <1>2, <1>3, BInvConsult DEF Environment, SetEnabled
<1> QED
  BY <1>2, <1>3, BInvStep DEF Next, vars, registry

LEMMA BInvInit == Init => BInv
<1> SUFFICES ASSUME Init PROVE BInv
  OBVIOUS
<1>1. Entries(entries) = {} /\ Distinct(entries) /\ TokenIds(entries) = {}
  BY DEF Init, Entries, Distinct, TokenIds
<1>2. entries \in Seq(Entry) /\ Len(entries) <= Capacity
  BY CapacityAssumption DEF Init
<1> QED
  BY <1>1, <1>2, KnowingIdle DEF Init, BInv, Registry

(* However requests, mints, lookups and evictions interleave, a bearer is    *)
(* bound once, to its owner and to its own id or none.                      *)
THEOREM BindingsTrueHolds == Spec => []BindingsTrue
<1>1. BInv => BindingsTrue
  BY DEF BInv, Registry, Truthful, Entries, Distinct, BindingsTrue
<1> QED
  BY <1>1, TInvInit, TInvNext, BInvInit, BInvNext, PTL DEF Spec

(* The policy resolver is never compiled for other token ids than the        *)
(* registry's.                                                              *)
THEOREM ResolverKnowsBoundHolds == Spec => []ResolverKnowsBound
<1>1. BInv => ResolverKnowsBound
  BY DEF BInv, ResolverKnowsBound
<1> QED
  BY <1>1, TInvInit, TInvNext, BInvInit, BInvNext, PTL DEF Spec

===============================================================================
