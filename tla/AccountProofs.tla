--------------------------- MODULE AccountProofs ----------------------------
(***************************************************************************)
(* The account of a buyer, for every number of users, tokens, links,       *)
(* batches and requests in flight.  Its sessions: what a revocation        *)
(* covers, what overlapping requests may repeat.  Its identity documents:  *)
(* files and rows stay together, a purge that ends has erased everything,  *)
(* and a validated account has its documents.                              *)
(***************************************************************************)
EXTENDS AuthSessions, Kyc, FiniteSetTheorems, TLAPS

(***************************************************************************)
(*                           The sessions                                  *)
(***************************************************************************)

\* What a request in flight holds: a refresh has a token of its user, a reset
\* a link, the others nothing.
CallShape ==
    \A q \in Requests :
        /\ call[q].op = "refresh" =>
              /\ call[q].of \in Tokens
              /\ token[call[q].of].owner = call[q].user
              /\ call[q].user \in Users
        /\ call[q].op = "reset" =>
              /\ call[q].of \in Links /\ call[q].step = "checked"
              /\ link[call[q].of].owner \in Users
        /\ call[q].op = "refresh" /\ call[q].step = "issuing" =>
              ~token[call[q].of].live

\* A row has an owner, and replaces a row that is there.
TokenShape ==
    \A t \in Tokens :
        /\ token[t].owner = None => ~token[t].live /\ token[t].previous = None
        /\ token[t].previous # None => token[token[t].previous].owner # None

\* A revocation finds tokens that are there, and with a token the requests
\* that are about to replace it.
CutShape ==
    /\ \A t \in Tokens : t \in cut => token[t].owner # None
    /\ \A q \in Requests :
          /\ call[q].op = "refresh" /\ call[q].step \in {"checked", "issuing"}
          /\ q \notin cut
          => call[q].of \notin cut

\* A link has an owner.
LinkShape == \A l \in Links : link[l] # NoLink => link[l].owner \in Users

IInv ==
    /\ AuthTypeOK
    /\ CallShape
    /\ TokenShape
    /\ LinkShape
    /\ CutShape
    /\ ReplacedIsRevoked
    /\ RevokedForGood

-----------------------------------------------------------------------------
(* Types.                                                                  *)

LEMMA IdleFields ==
    /\ Idle.op = "idle" /\ Idle.step = "idle" /\ Idle.user = None /\ Idle.of = None
    /\ NoToken.owner = None /\ NoToken.live = FALSE /\ NoToken.previous = None
BY DEF Idle, NoToken

\* The fields of a row and of a request in flight.
LEMMA Fields ==
    ASSUME AuthTypeOK
    PROVE  /\ \A t \in Tokens : /\ token[t].owner \in Users \cup {None}
                                /\ token[t].live \in BOOLEAN
                                /\ token[t].previous \in Tokens \cup {None}
                                /\ token[t] = [owner |-> token[t].owner,
                                              live |-> token[t].live,
                                              previous |-> token[t].previous]
           /\ \A l \in Links : /\ link[l].owner \in Users \cup {None}
                               /\ link[l].uses \in Nat
           /\ \A q \in Requests : call[q].step # "idle" =>
                 /\ call[q] \in Calls
                 /\ call[q].user \in Users
                 /\ call[q].of \in Tokens \cup Links \cup {None}
BY IdleFields DEF AuthTypeOK, Calls

\* Revoking tokens leaves the shape of the table as it is.
LEMMA RevokingKeepsShape ==
    ASSUME IInv,
           \A s \in Tokens : token'[s].owner = token[s].owner,
           \A s \in Tokens : token'[s].previous = token[s].previous,
           \A s \in Tokens : token'[s].live => token[s].live
    PROVE  TokenShape' /\ ReplacedIsRevoked'
<1>1. \A s \in Tokens : token[s].previous \in Tokens \cup {None}
  BY DEF IInv, AuthTypeOK
<1>2. ASSUME NEW s \in Tokens, token'[s].owner = None
      PROVE  ~token'[s].live /\ token'[s].previous = None
  BY <1>2 DEF IInv, TokenShape
<1>3. ASSUME NEW s \in Tokens, token'[s].previous # None
      PROVE  token'[token'[s].previous].owner # None /\ ~token'[token'[s].previous].live
  <2>1. token[s].previous \in Tokens /\ token'[s].previous = token[s].previous
    BY <1>1, <1>3
  <2>2. token[token[s].previous].owner # None /\ ~token[token[s].previous].live
    BY <1>3, <2>1 DEF IInv, TokenShape, ReplacedIsRevoked
  <2> QED BY <2>1, <2>2
<1> QED BY <1>2, <1>3 DEF TokenShape, ReplacedIsRevoked

\* A token is there when it has an owner.
LEMMA Existing ==
    ASSUME AuthTypeOK, TokenShape, NEW t \in Tokens
    PROVE  token[t] # NoToken <=> token[t].owner \in Users
<1>1. token[t].owner # None => token[t] # NoToken
  BY IdleFields
<1>2. token[t].owner = None => token[t] = NoToken
  <2>1. token[t] = [owner |-> token[t].owner, live |-> token[t].live,
                    previous |-> token[t].previous]
    BY Fields
  <2> QED BY <2>1, Fields DEF TokenShape, NoToken
<1> QED BY <1>1, <1>2, Fields, AuthAssumption

\* A request that begins.
LEMMA BeginFields ==
    ASSUME AuthTypeOK, NEW q \in Requests, NEW op \in Ops,
           NEW step \in {"counted", "checked", "revoking", "issuing"},
           NEW u \in Users, NEW of \in Tokens \cup Links \cup {None},
           Begin(q, op, step, u, of)
    PROVE  /\ AuthTypeOK'
           /\ call'[q] = [op |-> op, step |-> step, user |-> u, of |-> of]
           /\ \A p \in Requests : p # q => call'[p] = call[p]
           /\ UNCHANGED <<tables, cut>>
BY DEF Begin, AuthTypeOK, Calls, tables

\* A request that goes on.
LEMMA StepFields ==
    ASSUME AuthTypeOK, NEW q \in Requests, call[q].step # "idle",
           NEW step \in {"counted", "checked", "revoking", "issuing"},
           call' = [call EXCEPT ![q].step = step]
    PROVE  /\ call' \in [Requests -> Calls \cup {Idle}]
           /\ call'[q].op = call[q].op /\ call'[q].step = step
           /\ call'[q].user = call[q].user /\ call'[q].of = call[q].of
           /\ \A p \in Requests : p # q => call'[p] = call[p]
<1>1. call[q] \in Calls
  BY Fields
<1>2. [call[q] EXCEPT !.step = step] \in Calls
  BY <1>1 DEF Calls
<1>3. call'[q] = [call[q] EXCEPT !.step = step]
  BY DEF AuthTypeOK
<1> QED BY <1>1, <1>2, <1>3 DEF AuthTypeOK, Calls

\* One token is revoked.
LEMMA RevokeOne ==
    ASSUME AuthTypeOK, NEW t \in Tokens, token' = [token EXCEPT ![t].live = FALSE]
    PROVE  /\ token' \in [Tokens -> [owner : Users \cup {None}, live : BOOLEAN,
                                     previous : Tokens \cup {None}]]
           /\ ~token'[t].live
           /\ \A s \in Tokens : /\ token'[s].owner = token[s].owner
                                /\ token'[s].previous = token[s].previous
                                /\ token'[s].live => token[s].live
<1> DEFINE Rows == [owner : Users \cup {None}, live : BOOLEAN, previous : Tokens \cup {None}]
<1> DEFINE row == [token[t] EXCEPT !.live = FALSE]
<1>1. token[t] \in Rows
  BY DEF AuthTypeOK
<1>2. /\ row \in Rows
      /\ row.owner = token[t].owner /\ row.live = FALSE
      /\ row.previous = token[t].previous
  BY <1>1
<1>3. token' = [token EXCEPT ![t] = row]
  OBVIOUS
<1> HIDE DEF row
<1> QED BY <1>2, <1>3 DEF AuthTypeOK

\* The sessions of a user are revoked.
LEMMA RevokeFields ==
    ASSUME AuthTypeOK, NEW u \in Users, NEW q \in Requests \cup {None}, RevokeAll(u, q)
    PROVE  /\ token' \in [Tokens -> [owner : Users \cup {None}, live : BOOLEAN,
                                     previous : Tokens \cup {None}]]
           /\ cut' \subseteq Tokens \cup Requests
           /\ \A t \in Tokens : /\ token'[t].owner = token[t].owner
                                /\ token'[t].previous = token[t].previous
                                /\ token'[t].live => token[t].live /\ token[t].owner # u
           /\ \A t \in Tokens : t \in cut' <=> t \in cut \/ token[t].owner = u
           /\ \A p \in Requests :
                 p \in cut' <=> p # q /\ (p \in cut \/ call[p].user = u)
<1>1. \A t \in Tokens :
          /\ token'[t] \in [owner : Users \cup {None}, live : BOOLEAN,
                            previous : Tokens \cup {None}]
          /\ token'[t].owner = token[t].owner
          /\ token'[t].previous = token[t].previous
          /\ token'[t].live => token[t].live /\ token[t].owner # u
  BY Fields DEF RevokeAll, AuthTypeOK
<1>2. token' \in [Tokens -> [owner : Users \cup {None}, live : BOOLEAN,
                             previous : Tokens \cup {None}]]
  BY <1>1 DEF RevokeAll
<1>3. cut' \subseteq Tokens \cup Requests
  BY DEF RevokeAll, AuthTypeOK
<1>4. \A t \in Tokens : t \in cut' <=> t \in cut \/ token[t].owner = u
  BY AuthAssumption DEF RevokeAll
<1>5. \A p \in Requests : p \in cut' <=> p # q /\ (p \in cut \/ call[p].user = u)
  BY AuthAssumption DEF RevokeAll
<1> QED BY <1>1, <1>2, <1>3, <1>4, <1>5

\* A request that ends.
LEMMA EndFields ==
    ASSUME AuthTypeOK, NEW q \in Requests, call' = [call EXCEPT ![q] = Idle]
    PROVE  /\ call' \in [Requests -> Calls \cup {Idle}]
           /\ call'[q] = Idle
           /\ \A p \in Requests : p # q => call'[p] = call[p]
BY DEF AuthTypeOK

LEMMA TypeStep ==
    ASSUME IInv, [Next]_vars
    PROVE  AuthTypeOK'
<1> USE DEF IInv
<1>1. ASSUME NEW q \in Requests, NEW u \in Users, RegisterRead(q, u)
      PROVE  AuthTypeOK'
  BY <1>1, BeginFields DEF RegisterRead, Ops
<1>2. ASSUME NEW q \in Requests, NEW u \in Users, SetupCount(q, u)
      PROVE  AuthTypeOK'
  BY <1>2, BeginFields DEF SetupCount, Ops
<1>3. ASSUME NEW q \in Requests, SetupRead(q)
      PROVE  AuthTypeOK'
  BY <1>3, StepFields DEF SetupRead, At, AuthTypeOK, tables
<1>4. ASSUME NEW q \in Requests, CreateAccount(q)
      PROVE  AuthTypeOK'
  <2>1. account' \in [Users -> Roles \cup {None}]
    BY <1>4, Fields DEF CreateAccount, AuthTypeOK, Roles
  <2>2. call' \in [Requests -> Calls \cup {Idle}]
    BY <1>4, StepFields DEF CreateAccount
  <2>3. UNCHANGED <<token, link, cut>>
    BY <1>4 DEF CreateAccount
  <2> QED BY <2>1, <2>2, <2>3 DEF AuthTypeOK
<1>5. ASSUME NEW q \in Requests, NEW u \in Users, LoginCheck(q, u)
      PROVE  AuthTypeOK'
  BY <1>5, BeginFields DEF LoginCheck, Ops
<1>6. ASSUME NEW q \in Requests, NEW t \in Tokens, RefreshRead(q, t)
      PROVE  AuthTypeOK'
  <2>1. token[t].owner \in Users
    BY <1>6, Existing DEF RefreshRead
  <2> QED BY <1>6, <2>1, BeginFields DEF RefreshRead, Ops
<1>7. ASSUME NEW q \in Requests, Rotate(q)
      PROVE  AuthTypeOK'
  <2>1. call[q].of \in Tokens
    BY <1>7 DEF Rotate, At, CallShape
  <2>2. token' \in [Tokens -> [owner : Users \cup {None}, live : BOOLEAN,
                               previous : Tokens \cup {None}]]
    BY <1>7, <2>1, RevokeOne DEF Rotate
  <2>3. call' \in [Requests -> Calls \cup {Idle}]
    BY <1>7, StepFields DEF Rotate, At
  <2> QED BY <1>7, <2>2, <2>3 DEF Rotate, AuthTypeOK
<1>8. ASSUME NEW q \in Requests, NEW t \in Tokens, IssueToken(q, t)
      PROVE  AuthTypeOK'
  <2>1. call[q].user \in Users
    BY <1>8, Fields DEF IssueToken
  <2>2. (IF call[q].op = "refresh" THEN call[q].of ELSE None) \in Tokens \cup {None}
    BY DEF CallShape
  <2>3. token' \in [Tokens -> [owner : Users \cup {None}, live : BOOLEAN,
                               previous : Tokens \cup {None}]]
    BY <1>8, <2>1, <2>2 DEF IssueToken, AuthTypeOK
  <2> QED BY <1>8, <2>3, EndFields DEF IssueToken, AuthTypeOK
<1>9. ASSUME NEW t \in Tokens, Logout(t)
      PROVE  AuthTypeOK'
  <2>1. token' \in [Tokens -> [owner : Users \cup {None}, live : BOOLEAN,
                               previous : Tokens \cup {None}]]
    BY <1>9, RevokeOne DEF Logout
  <2>2. UNCHANGED <<account, link, call, cut>>
    BY <1>9 DEF Logout
  <2> QED BY <2>1, <2>2 DEF AuthTypeOK
<1>10. ASSUME NEW u \in Users, LogoutAll(u)
       PROVE  AuthTypeOK'
  BY <1>10, RevokeFields DEF LogoutAll, AuthTypeOK
<1>11. ASSUME NEW q \in Requests, RevokeReused(q)
       PROVE  AuthTypeOK'
  <2>1. call[q].user \in Users
    BY <1>11, Fields DEF RevokeReused, At
  <2> QED BY <1>11, <2>1, RevokeFields, EndFields DEF RevokeReused, AuthTypeOK
<1>12. ASSUME NEW u \in Users, NEW l \in Links, IssueLink(u, l)
       PROVE  AuthTypeOK'
  BY <1>12 DEF IssueLink, AuthTypeOK
<1>13. ASSUME NEW q \in Requests, NEW l \in Links, ResetRead(q, l)
       PROVE  AuthTypeOK'
  <2>1. link[l].owner \in Users
    BY <1>13 DEF ResetRead, LinkShape
  <2> QED BY <1>13, <2>1, BeginFields DEF ResetRead, Ops
<1>14. ASSUME NEW q \in Requests, ResetCommit(q)
       PROVE  AuthTypeOK'
  <2>1. call[q].user \in Users /\ call[q].of \in Links
    BY <1>14, Fields DEF ResetCommit, At, CallShape
  <2>2. link' \in [Links -> [owner : Users \cup {None}, uses : Nat]]
    BY <1>14, <2>1, Fields DEF ResetCommit, AuthTypeOK
  <2> QED BY <1>14, <2>1, <2>2, RevokeFields, EndFields DEF ResetCommit, AuthTypeOK
<1>15. ASSUME NEW q \in Requests, NEW u \in Users, ChangeRead(q, u)
       PROVE  AuthTypeOK'
  BY <1>15, BeginFields DEF ChangeRead, Ops
<1>16. ASSUME NEW q \in Requests, ChangeCommit(q)
       PROVE  AuthTypeOK'
  <2>1. call[q].user \in Users
    BY <1>16, Fields DEF ChangeCommit, At
  <2> QED BY <1>16, <2>1, RevokeFields, EndFields DEF ChangeCommit, AuthTypeOK
<1>17. ASSUME NEW q \in Requests, Abort(q)
       PROVE  AuthTypeOK'
  BY <1>17, EndFields DEF Abort, AuthTypeOK, tables
<1>18. CASE UNCHANGED vars
  BY <1>18 DEF vars, tables, AuthTypeOK
<1> QED BY <1>1, <1>2, <1>3, <1>4, <1>5, <1>6, <1>7, <1>8, <1>9, <1>10, <1>11, <1>12,
          <1>13, <1>14, <1>15, <1>16, <1>17, <1>18 DEF Next, Request

-----------------------------------------------------------------------------
(* The invariant.                                                          *)

\* A request that begins as CallShape and CutShape want it.
LEMMA BeginStep ==
    ASSUME IInv, NEW q \in Requests, NEW op \in Ops,
           NEW step \in {"counted", "checked", "revoking"},
           NEW u \in Users, NEW of \in Tokens \cup Links \cup {None},
           Begin(q, op, step, u, of),
           op = "refresh" => /\ of \in Tokens /\ token[of].owner = u
                             /\ step = "checked" => of \notin cut,
           op = "reset" => /\ of \in Links /\ step = "checked"
                           /\ link[of].owner \in Users
    PROVE  IInv'
<1> USE DEF IInv
<1>1. /\ AuthTypeOK'
      /\ call'[q] = [op |-> op, step |-> step, user |-> u, of |-> of]
      /\ \A p \in Requests : p # q => call'[p] = call[p]
      /\ token' = token /\ link' = link /\ cut' = cut
  BY BeginFields DEF tables
<1>2. call'[q].op = op /\ call'[q].step = step /\ call'[q].user = u /\ call'[q].of = of
  BY <1>1
<1>3. CallShape'
  BY <1>1, <1>2 DEF CallShape
<1>4. TokenShape' /\ LinkShape' /\ ReplacedIsRevoked' /\ RevokedForGood'
  BY <1>1 DEF TokenShape, LinkShape, ReplacedIsRevoked, RevokedForGood
<1>5. CutShape'
  BY <1>1, <1>2 DEF CutShape
<1> QED BY <1>1, <1>3, <1>4, <1>5

\* login and change begin at once with what they need.
LEMMA LoginStep ==
    ASSUME IInv, NEW q \in Requests, NEW u \in Users, LoginCheck(q, u)
    PROVE  IInv'
<1> USE DEF IInv
<1>1. /\ AuthTypeOK'
      /\ call'[q] = [op |-> "login", step |-> "issuing", user |-> u, of |-> None]
      /\ \A p \in Requests : p # q => call'[p] = call[p]
      /\ token' = token /\ link' = link /\ cut' = cut
  BY BeginFields DEF LoginCheck, Ops, tables
<1>2. call'[q].op = "login"
  BY <1>1
<1>3. CallShape' /\ CutShape'
  BY <1>1, <1>2 DEF CallShape, CutShape
<1>4. TokenShape' /\ LinkShape' /\ ReplacedIsRevoked' /\ RevokedForGood'
  BY <1>1 DEF TokenShape, LinkShape, ReplacedIsRevoked, RevokedForGood
<1> QED BY <1>1, <1>3, <1>4

\* A token that works is not in cut when it is read.
LEMMA RefreshReadStep ==
    ASSUME IInv, NEW q \in Requests, NEW t \in Tokens, RefreshRead(q, t)
    PROVE  IInv'
<1> USE DEF IInv
<1>1. token[t].owner \in Users /\ token[t] # NoToken
  BY Existing DEF RefreshRead
<1>2. CASE token[t].live
  <2>1. t \notin cut
    BY <1>2 DEF RevokedForGood
  <2>2. Begin(q, "refresh", "checked", token[t].owner, t)
    BY <1>2 DEF RefreshRead
  <2> QED BY <1>1, <2>1, <2>2, BeginStep DEF Ops
<1>3. CASE ~token[t].live
  <2>1. Begin(q, "refresh", "revoking", token[t].owner, t)
    BY <1>3 DEF RefreshRead
  <2> QED BY <1>1, <2>1, BeginStep DEF Ops
<1> QED BY <1>2, <1>3

\* Requests of a set-up: no token is concerned.
LEMMA AccountStep ==
    ASSUME IInv, AuthTypeOK', NEW q \in Requests, SetupRead(q) \/ CreateAccount(q)
    PROVE  IInv'
<1> USE DEF IInv
<1>1. /\ call[q].op \in {"register", "setup"} /\ call'[q].op = call[q].op
      /\ \A p \in Requests : p # q => call'[p] = call[p]
      /\ token' = token /\ link' = link /\ cut' = cut
  <2>1. CASE SetupRead(q)
    BY <2>1, StepFields DEF SetupRead, At, tables
  <2>2. CASE CreateAccount(q)
    BY <2>2, StepFields DEF CreateAccount
  <2> QED BY <2>1, <2>2
<1>2. CallShape' /\ CutShape'
  BY <1>1 DEF CallShape, CutShape
<1>3. TokenShape' /\ LinkShape' /\ ReplacedIsRevoked' /\ RevokedForGood'
  BY <1>1 DEF TokenShape, LinkShape, ReplacedIsRevoked, RevokedForGood
<1> QED BY <1>2, <1>3

\* The token to be replaced is revoked first.
LEMMA RotateStep ==
    ASSUME IInv, AuthTypeOK', NEW q \in Requests, Rotate(q)
    PROVE  IInv'
<1> USE DEF IInv
<1> DEFINE t == call[q].of
<1>1. t \in Tokens /\ call[q].op = "refresh" /\ call[q].step = "checked"
  BY DEF Rotate, At, CallShape
<1>2. /\ call'[q].op = "refresh" /\ call'[q].step = "issuing"
      /\ call'[q].user = call[q].user /\ call'[q].of = t
      /\ \A p \in Requests : p # q => call'[p] = call[p]
      /\ link' = link /\ cut' = cut
  BY <1>1, StepFields DEF Rotate
<1>3. /\ ~token'[t].live
      /\ \A s \in Tokens : /\ token'[s].owner = token[s].owner
                           /\ token'[s].previous = token[s].previous
                           /\ token'[s].live => token[s].live
  BY <1>1, RevokeOne DEF Rotate
<1>6. CallShape'
  BY <1>1, <1>2, <1>3 DEF CallShape
<1>7. TokenShape' /\ ReplacedIsRevoked'
  BY <1>3, RevokingKeepsShape
<1>8. CutShape'
  BY <1>1, <1>2, <1>3 DEF CutShape
<1>9. LinkShape' /\ RevokedForGood'
  BY <1>2, <1>3 DEF LinkShape, RevokedForGood
<1> QED BY <1>6, <1>7, <1>8, <1>9

LEMMA LogoutStep ==
    ASSUME IInv, AuthTypeOK', NEW t \in Tokens, Logout(t)
    PROVE  IInv'
<1> USE DEF IInv
<1>1. link' = link /\ cut' = cut /\ call' = call
  BY DEF Logout
<1>2. \A s \in Tokens : /\ token'[s].owner = token[s].owner
                        /\ token'[s].previous = token[s].previous
                        /\ token'[s].live => token[s].live
  BY RevokeOne DEF Logout
<1>4. CallShape'
  BY <1>1, <1>2 DEF CallShape
<1>5. TokenShape' /\ ReplacedIsRevoked'
  BY <1>2, RevokingKeepsShape
<1>6. LinkShape' /\ RevokedForGood' /\ CutShape'
  BY <1>1, <1>2 DEF LinkShape, RevokedForGood, CutShape
<1> QED BY <1>4, <1>5, <1>6

\* A new token: nothing is chained to it yet, and its predecessor is revoked.
LEMMA IssueStep ==
    ASSUME IInv, AuthTypeOK', NEW q \in Requests, NEW t \in Tokens, IssueToken(q, t)
    PROVE  IInv'
<1> USE DEF IInv
<1> DEFINE from == IF call[q].op = "refresh" THEN call[q].of ELSE None
<1>1. /\ call[q].step = "issuing" /\ call[q].user \in Users
      /\ token[t].owner = None
      /\ from \in Tokens \cup {None}
  BY Fields, IdleFields DEF IssueToken, CallShape
<1>2. from # None =>
          from \in Tokens /\ token[from].owner \in Users /\ ~token[from].live /\ from # t
  BY <1>1, AuthAssumption DEF CallShape
<1>3. /\ call'[q] = Idle
      /\ \A p \in Requests : p # q => call'[p] = call[p]
      /\ link' = link
  BY EndFields DEF IssueToken
<1>4. /\ token'[t] = [owner |-> call[q].user, live |-> TRUE, previous |-> from]
      /\ \A s \in Tokens : s # t => token'[s] = token[s]
  BY DEF IssueToken, AuthTypeOK
<1>5. /\ token'[t].owner = call[q].user /\ token'[t].previous = from
      /\ token'[t].owner # None
  BY <1>1, <1>4, AuthAssumption
<1>6. \A s \in Tokens : s \in cut' <=> s \in cut
  <2>1. from \in cut => q \in cut
    BY <1>1, <1>2, AuthAssumption DEF CutShape, AuthTypeOK
  <2>2. cut' = cut \ {q} \/ (cut' = cut \cup {t} /\ q \notin cut /\ from \in cut)
    BY DEF IssueToken
  <2> QED BY <2>1, <2>2, AuthAssumption
<1>7. \A p \in Requests : p # q => (p \in cut' <=> p \in cut)
  <2>1. from \in cut => q \in cut
    BY <1>1, <1>2, AuthAssumption DEF CutShape, AuthTypeOK
  <2>2. cut' = cut \ {q} \/ (cut' = cut \cup {t} /\ q \notin cut /\ from \in cut)
    BY DEF IssueToken
  <2> QED BY <2>1, <2>2
<1>8. CallShape'
  <2>1. ASSUME NEW p \in Requests, p # q, call[p].op = "refresh"
        PROVE  call[p].of \in Tokens /\ token'[call[p].of] = token[call[p].of]
    BY <1>1, <1>4, <2>1, AuthAssumption DEF CallShape
  <2> QED BY <1>3, <2>1, IdleFields DEF CallShape
<1>9. TokenShape'
  <2>1. token'[t].previous # None => token'[token'[t].previous].owner # None
    BY <1>2, <1>4, <1>5, AuthAssumption
  <2>2. ASSUME NEW s \in Tokens, s # t
        PROVE  /\ token'[s].owner = None => ~token'[s].live /\ token'[s].previous = None
               /\ token'[s].previous # None => token'[token'[s].previous].owner # None
    <3>1. token'[s] = token[s]
      BY <1>4, <2>2
    <3>2. token[s].previous # None =>
              token[s].previous \in Tokens /\ token[s].previous # t
      BY <1>1, Fields DEF TokenShape
    <3> QED BY <1>4, <3>1, <3>2 DEF TokenShape
  <2> QED BY <1>5, <2>1, <2>2 DEF TokenShape
<1>10. LinkShape'
  BY <1>3 DEF LinkShape
<1>11. CutShape'
  <2>1. \A s \in Tokens : s \in cut' => token'[s].owner # None
    BY <1>4, <1>5, <1>6 DEF CutShape
  <2>2. ASSUME NEW p \in Requests, call'[p].op = "refresh",
               call'[p].step \in {"checked", "issuing"}, p \notin cut'
        PROVE  call'[p].of \notin cut'
    <3>1. p # q /\ call'[p] = call[p] /\ p \notin cut
      BY <1>3, <1>7, <2>2, IdleFields
    <3>2. call[p].of \in Tokens /\ call[p].of \notin cut
      BY <2>2, <3>1 DEF CallShape, CutShape
    <3> QED BY <1>6, <3>1, <3>2
  <2> QED BY <2>1, <2>2 DEF CutShape
<1>12. ReplacedIsRevoked'
  <2>1. ASSUME NEW s \in Tokens, token'[s].previous # None
        PROVE  ~token'[token'[s].previous].live
    <3>1. CASE s = t
      BY <1>2, <1>4, <1>5, <2>1, <3>1
    <3>2. CASE s # t
      <4>1. token[s].previous # None /\ token[s].previous \in Tokens
        BY <1>4, <2>1, <3>2, Fields
      <4>2. token[s].previous # t
        BY <1>1, <4>1 DEF TokenShape
      <4> QED BY <1>4, <3>2, <4>1, <4>2 DEF ReplacedIsRevoked
    <3> QED BY <3>1, <3>2
  <2> QED BY <2>1 DEF ReplacedIsRevoked
<1>13. RevokedForGood'
  BY <1>1, <1>4, <1>6 DEF RevokedForGood, CutShape
<1> QED BY <1>8, <1>9, <1>10, <1>11, <1>12, <1>13

\* All the sessions of a user are revoked, at the end of a request or not.
LEMMA RevokeStep ==
    ASSUME IInv, AuthTypeOK', LinkShape', NEW u \in Users, NEW q \in Requests \cup {None},
           RevokeAll(u, q),
           \A l \in Links : link[l].owner \in Users => link'[l].owner \in Users,
           \/ q = None /\ call' = call
           \/ q \in Requests /\ call' = [call EXCEPT ![q] = Idle]
    PROVE  IInv'
<1> USE DEF IInv
<1>1. \A t \in Tokens : token'[t].owner = token[t].owner
  BY RevokeFields
<1>2. \A t \in Tokens : token'[t].previous = token[t].previous
  BY RevokeFields
<1>3. \A t \in Tokens : token'[t].live => token[t].live /\ token[t].owner # u
  BY RevokeFields
<1>4. \A t \in Tokens : t \in cut' <=> t \in cut \/ token[t].owner = u
  BY RevokeFields
<1>5. \A p \in Requests : p \in cut' <=> p # q /\ (p \in cut \/ call[p].user = u)
  BY RevokeFields
<1>6. \A p \in Requests : (p = q /\ call'[p] = Idle) \/ (p # q /\ call'[p] = call[p])
  BY EndFields, AuthAssumption
<1>7. CallShape'
  <2>1. \A p \in Requests : call'[p] = Idle \/ call'[p] = call[p]
    BY <1>6
  <2> QED BY <1>1, <1>3, <2>1, IdleFields DEF CallShape
<1>8. TokenShape' /\ ReplacedIsRevoked'
  BY <1>1, <1>2, <1>3, RevokingKeepsShape
<1>9. CutShape'
  <2>1. ASSUME NEW t \in Tokens, t \in cut'
        PROVE  token'[t].owner # None
    BY <1>1, <1>4, <2>1, AuthAssumption DEF CutShape
  <2>2. ASSUME NEW p \in Requests, call'[p].op = "refresh",
               call'[p].step \in {"checked", "issuing"}, p \notin cut'
        PROVE  call'[p].of \notin cut'
    <3>1. call'[p] = call[p] /\ p \notin cut /\ call[p].user # u
      BY <1>5, <1>6, <2>2, IdleFields
    <3>2. call[p].of \in Tokens /\ call[p].of \notin cut /\ token[call[p].of].owner # u
      BY <2>2, <3>1 DEF CallShape, CutShape
    <3> QED BY <1>4, <3>1, <3>2
  <2> QED BY <2>1, <2>2 DEF CutShape
<1>10. RevokedForGood'
  BY <1>3, <1>4 DEF RevokedForGood
<1> QED BY <1>7, <1>8, <1>9, <1>10

LEMMA AbortStep ==
    ASSUME IInv, AuthTypeOK', NEW q \in Requests, Abort(q)
    PROVE  IInv'
<1> USE DEF IInv
<1>1. /\ call'[q] = Idle
      /\ \A p \in Requests : p # q => call'[p] = call[p]
      /\ token' = token /\ link' = link /\ cut' = cut \ {q}
  BY EndFields DEF Abort, tables
<1>2. \A t \in Tokens : t \in cut' <=> t \in cut
  BY <1>1, AuthAssumption
<1>3. CallShape'
  BY <1>1, IdleFields DEF CallShape
<1>4. TokenShape' /\ LinkShape' /\ ReplacedIsRevoked' /\ RevokedForGood'
  BY <1>1, <1>2 DEF TokenShape, LinkShape, ReplacedIsRevoked, RevokedForGood
<1>5. CutShape'
  <2>1. ASSUME NEW p \in Requests, call'[p].op = "refresh",
               call'[p].step \in {"checked", "issuing"}, p \notin cut'
        PROVE  call'[p].of \notin cut'
    <3>1. p # q /\ call'[p] = call[p] /\ p \notin cut
      BY <1>1, <2>1, IdleFields
    <3> QED BY <1>1, <2>1, <3>1 DEF CutShape
  <2> QED BY <1>1, <1>2, <2>1 DEF CutShape
<1> QED BY <1>3, <1>4, <1>5

\* Links concern no token.
LEMMA LinkStep ==
    ASSUME IInv, AuthTypeOK', NEW u \in Users, NEW l \in Links, IssueLink(u, l)
    PROVE  IInv'
<1> USE DEF IInv
<1>1. token' = token /\ cut' = cut /\ call' = call
  BY DEF IssueLink
<1>2. LinkShape'
  <2>1. link'[l].owner = u /\ \A k \in Links : k # l => link'[k] = link[k]
    BY DEF IssueLink, AuthTypeOK
  <2> QED BY <2>1 DEF LinkShape
<1>3. CallShape'
  <2>1. link'[l].owner = u /\ \A k \in Links : k # l => link'[k] = link[k]
    BY DEF IssueLink, AuthTypeOK
  <2> QED BY <1>1, <2>1 DEF CallShape
<1>4. TokenShape' /\ CutShape' /\ ReplacedIsRevoked' /\ RevokedForGood'
  BY <1>1 DEF TokenShape, CutShape, ReplacedIsRevoked, RevokedForGood
<1> QED BY <1>2, <1>3, <1>4

LEMMA ResetCommitStep ==
    ASSUME IInv, AuthTypeOK', NEW q \in Requests, ResetCommit(q)
    PROVE  IInv'
<1> USE DEF IInv
<1>1. call[q].user \in Users /\ call[q].of \in Links
  BY Fields DEF ResetCommit, At, CallShape
<1>2. LinkShape'
  <2>1. \A k \in Links : link[k].owner \in Users => link'[k].owner \in Users
    BY <1>1 DEF ResetCommit, AuthTypeOK
  <2>2. \A k \in Links : k # call[q].of => link'[k] = link[k]
    BY <1>1 DEF ResetCommit, AuthTypeOK
  <2>3. link[call[q].of].owner \in Users
    BY <1>1 DEF CallShape, ResetCommit, At
  <2> QED BY <2>1, <2>2, <2>3 DEF LinkShape
<1>3. \A l \in Links : link[l].owner \in Users => link'[l].owner \in Users
  BY <1>1 DEF ResetCommit, AuthTypeOK
<1> QED BY <1>1, <1>2, <1>3, RevokeStep DEF ResetCommit

LEMMA InvStep ==
    ASSUME IInv, [Next]_vars
    PROVE  IInv'
<1>0. AuthTypeOK'
  BY TypeStep
<1> USE DEF IInv
<1>1. ASSUME NEW q \in Requests, NEW u \in Users,
             RegisterRead(q, u) \/ SetupCount(q, u) \/ ChangeRead(q, u)
      PROVE  IInv'
  BY <1>1, BeginStep DEF RegisterRead, SetupCount, ChangeRead, Ops
<1>2. ASSUME NEW q \in Requests, NEW l \in Links, ResetRead(q, l)
      PROVE  IInv'
  <2>1. link[l].owner \in Users
    BY <1>2 DEF ResetRead, LinkShape
  <2> QED BY <1>2, <2>1, BeginStep DEF ResetRead, Ops
<1>3. ASSUME NEW u \in Users, LogoutAll(u)
      PROVE  IInv'
  <2>1. LinkShape'
    BY <1>3 DEF LogoutAll, LinkShape
  <2> QED BY <1>0, <1>3, <2>1, RevokeStep DEF LogoutAll
<1>4. ASSUME NEW q \in Requests, RevokeReused(q) \/ ChangeCommit(q)
      PROVE  IInv'
  <2>1. LinkShape'
    BY <1>4 DEF RevokeReused, ChangeCommit, LinkShape
  <2>2. call[q].user \in Users
    BY <1>4, Fields DEF RevokeReused, ChangeCommit, At
  <2> QED BY <1>0, <1>4, <2>1, <2>2, RevokeStep DEF RevokeReused, ChangeCommit
<1>5. CASE UNCHANGED vars
  BY <1>5 DEF vars, tables, AuthTypeOK, CallShape, TokenShape, LinkShape,
              CutShape, ReplacedIsRevoked, RevokedForGood
<1> QED BY <1>0, <1>1, <1>2, <1>3, <1>4, <1>5, LoginStep, RefreshReadStep, AccountStep,
          RotateStep, LogoutStep, IssueStep, AbortStep, LinkStep, ResetCommitStep
       DEF Next, Request

LEMMA InitInv == Init => IInv
<1> SUFFICES ASSUME Init PROVE IInv
  OBVIOUS
<1>1. AuthTypeOK
  BY IdleFields DEF Init, AuthTypeOK, NoToken, NoLink
<1>2. /\ \A t \in Tokens : token[t] = NoToken
      /\ \A l \in Links : link[l] = NoLink
      /\ \A q \in Requests : call[q] = Idle
      /\ cut = {}
  BY DEF Init
<1>3. CallShape /\ TokenShape /\ LinkShape /\ CutShape
  BY <1>2, IdleFields DEF CallShape, TokenShape, LinkShape, CutShape
<1>4. ReplacedIsRevoked /\ RevokedForGood
  BY <1>2, IdleFields DEF ReplacedIsRevoked, RevokedForGood
<1> QED BY <1>1, <1>3, <1>4 DEF IInv

LEMMA SpecInv == Spec => []IInv
<1>1. Init => IInv
  BY InitInv
<1>2. IInv /\ [Next]_vars => IInv'
  BY InvStep
<1> QED BY <1>1, <1>2, PTL DEF Spec

\* Type correctness of the accounts and their sessions.
THEOREM AuthType == Spec => []AuthTypeOK
<1>1. IInv => AuthTypeOK
  BY DEF IInv
<1> QED BY SpecInv, <1>1, PTL

\* A token that has been replaced never works again (refresh).
THEOREM ReplacedTokensAreRevoked == Spec => []ReplacedIsRevoked
<1>1. IInv => ReplacedIsRevoked
  BY DEF IInv
<1> QED BY SpecInv, <1>1, PTL

\* The revocation of all the sessions of a user is final for those it finds
\* and for whatever replaces them (revokeAllUserTokens, resetPassword,
\* changePassword).
THEOREM RevocationIsFinal == Spec => []RevokedForGood
<1>1. IInv => RevokedForGood
  BY DEF IInv
<1> QED BY SpecInv, <1>1, PTL

-----------------------------------------------------------------------------
(* What overlapping requests do twice.                                     *)

\* Fewer of both keep a bound on their sum.
LEMMA FewerOfBoth ==
    ASSUME NEW A, NEW B, NEW A1, NEW B1, NEW n \in Nat,
           IsFiniteSet(A), IsFiniteSet(B), A1 \subseteq A, B1 \subseteq B,
           Cardinality(A) + Cardinality(B) <= n
    PROVE  Cardinality(A1) + Cardinality(B1) <= n
<1>1. /\ Cardinality(A) \in Nat /\ Cardinality(B) \in Nat
      /\ IsFiniteSet(A1) /\ Cardinality(A1) <= Cardinality(A)
      /\ IsFiniteSet(B1) /\ Cardinality(B1) <= Cardinality(B)
  BY FS_Subset, FS_CardinalityType
<1>2. Cardinality(A1) \in Nat /\ Cardinality(B1) \in Nat
  BY <1>1, FS_CardinalityType
<1> QED BY <1>1, <1>2

\* What leaves the one for the other keeps it too.
LEMMA OneMoves ==
    ASSUME NEW A, NEW B, NEW A1, NEW B1, NEW n \in Nat,
           IsFiniteSet(A), IsFiniteSet(B), \E x : A1 \subseteq A \cup {x},
           \E y \in B : B1 \subseteq B \ {y},
           Cardinality(A) + Cardinality(B) <= n
    PROVE  Cardinality(A1) + Cardinality(B1) <= n
<1>0. PICK x : A1 \subseteq A \cup {x}
  OBVIOUS
<1>9. PICK y \in B : B1 \subseteq B \ {y}
  OBVIOUS
<1>1. Cardinality(A) \in Nat /\ Cardinality(B) \in Nat
  BY FS_CardinalityType
<1>2. /\ IsFiniteSet(A \cup {x})
      /\ Cardinality(A \cup {x}) <= Cardinality(A) + 1
  <2>1. /\ IsFiniteSet(A \cup {x})
        /\ Cardinality(A \cup {x}) = IF x \in A THEN Cardinality(A) ELSE Cardinality(A) + 1
    BY FS_AddElement, Zenon
  <2> QED BY <1>1, <2>1
<1>3. IsFiniteSet(B \ {y}) /\ Cardinality(B \ {y}) = Cardinality(B) - 1
  BY FS_RemoveElement
<1>4. Cardinality(A \cup {x}) \in Nat /\ Cardinality(B \ {y}) \in Nat
  BY <1>2, <1>3, FS_CardinalityType
<1>5. Cardinality(A \cup {x}) + Cardinality(B \ {y}) <= n
  BY <1>1, <1>2, <1>3, <1>4
<1> QED BY <1>0, <1>9, <1>2, <1>3, <1>5, FewerOfBoth

\* Nothing of the first, and requests in flight.
LEMMA OnlyRequests ==
    ASSUME NEW B \in SUBSET Requests
    PROVE  /\ IsFiniteSet(B) /\ Cardinality(B) \in Nat
           /\ Cardinality(B) <= Cardinality(Requests)
           /\ Cardinality(Requests) \in Nat
           /\ Cardinality({}) = 0
BY FS_Subset, FS_CardinalityType, FS_EmptySet, AuthAssumption

\* What a step does to a request: it is left alone, answered, goes on, or begins.
LEMMA CallStep ==
    ASSUME IInv, [Next]_vars, NEW p \in Requests
    PROVE  \/ call'[p] = call[p] \/ call'[p] = Idle
           \/ /\ call[p].step # "idle"
              /\ call'[p].op = call[p].op /\ call'[p].of = call[p].of
              /\ \/ /\ call[p].step = "counted" /\ call'[p].step = "checked"
                    /\ call[p].op = "setup"
                 \/ call[p].step = "checked" /\ call'[p].step = "issuing"
           \/ call'[p].op \in {"register", "login", "change"}
           \/ call'[p].op = "setup" /\ \A v \in Users : account[v] # "ADMIN"
           \/ \E t \in Tokens : /\ call'[p].op = "refresh" /\ call'[p].of = t
                                /\ call'[p].step # "issuing"
                                /\ call'[p].step = "checked" => token[t].live
           \/ \E l \in Links : /\ call'[p].op = "reset" /\ call'[p].of = l
                               /\ link[l].uses = 0
<1> USE DEF IInv
<1> DEFINE Goal ==
           \/ call'[p] = call[p] \/ call'[p] = Idle
           \/ /\ call[p].step # "idle"
              /\ call'[p].op = call[p].op /\ call'[p].of = call[p].of
              /\ \/ /\ call[p].step = "counted" /\ call'[p].step = "checked"
                    /\ call[p].op = "setup"
                 \/ call[p].step = "checked" /\ call'[p].step = "issuing"
           \/ call'[p].op \in {"register", "login", "change"}
           \/ call'[p].op = "setup" /\ \A v \in Users : account[v] # "ADMIN"
           \/ \E t \in Tokens : /\ call'[p].op = "refresh" /\ call'[p].of = t
                                /\ call'[p].step # "issuing"
                                /\ call'[p].step = "checked" => token[t].live
           \/ \E l \in Links : /\ call'[p].op = "reset" /\ call'[p].of = l
                               /\ link[l].uses = 0
<1>1. ASSUME NEW q \in Requests, NEW u \in Users,
             \/ RegisterRead(q, u) \/ SetupCount(q, u)
             \/ ChangeRead(q, u) \/ LoginCheck(q, u)
      PROVE  Goal
  BY <1>1 DEF RegisterRead, SetupCount, ChangeRead, LoginCheck, Begin, AuthTypeOK
<1>2. ASSUME NEW q \in Requests, NEW t \in Tokens, RefreshRead(q, t)
      PROVE  Goal
  <2>1. CASE p = q
    <3>1. /\ call'[p].op = "refresh" /\ call'[p].of = t
          /\ call'[p].step = IF token[t].live THEN "checked" ELSE "revoking"
      BY <1>2, <2>1 DEF RefreshRead, Begin, AuthTypeOK
    <3>2. /\ call'[p].step # "issuing"
          /\ call'[p].step = "checked" => token[t].live
      BY <3>1
    <3> QED BY <3>1, <3>2
  <2>2. CASE p # q
    BY <1>2, <2>2 DEF RefreshRead, Begin, AuthTypeOK
  <2> QED BY <2>1, <2>2
<1>3. ASSUME NEW q \in Requests, NEW l \in Links, ResetRead(q, l)
      PROVE  Goal
  BY <1>3 DEF ResetRead, Begin, AuthTypeOK
<1>4. ASSUME NEW q \in Requests, SetupRead(q) \/ CreateAccount(q) \/ Rotate(q)
      PROVE  Goal
  <2>1. CASE SetupRead(q)
    BY <2>1, StepFields DEF SetupRead, At
  <2>2. CASE CreateAccount(q)
    BY <2>2, StepFields DEF CreateAccount
  <2>3. CASE Rotate(q)
    BY <2>3, StepFields DEF Rotate, At
  <2> QED BY <1>4, <2>1, <2>2, <2>3
<1>5. ASSUME NEW q \in Requests,
             \/ RevokeReused(q) \/ ResetCommit(q) \/ ChangeCommit(q) \/ Abort(q)
             \/ \E t \in Tokens : IssueToken(q, t)
      PROVE  Goal
  <2>1. call' = [call EXCEPT ![q] = Idle]
    BY <1>5 DEF RevokeReused, ResetCommit, ChangeCommit, Abort, IssueToken
  <2> QED BY <2>1, EndFields
<1>6. ASSUME \/ \E t \in Tokens : Logout(t)
             \/ \E u \in Users : LogoutAll(u)
             \/ \E u \in Users, l \in Links : IssueLink(u, l)
             \/ UNCHANGED vars
      PROVE  Goal
  BY <1>6 DEF Logout, LogoutAll, IssueLink, vars
<1> QED BY <1>1, <1>2, <1>3, <1>4, <1>5, <1>6 DEF Next, Request

\* Rows that a step adds to the successors of a token.
LEMMA NewSuccessor ==
    ASSUME IInv, [Next]_vars, NEW t \in Tokens, NEW s \in Tokens,
           token'[s].previous = t, token[s].previous # t
    PROVE  \E q \in Refreshing(t) :
              /\ call'[q] = Idle
              /\ token[s].owner = None
              /\ \A r \in Tokens : r # s => token'[r] = token[r]
<1> USE DEF IInv
<1>1. ASSUME NEW q \in Requests, NEW r \in Tokens, IssueToken(q, r)
      PROVE  q \in Refreshing(t) /\ call'[q] = Idle /\ token[s].owner = None
                /\ \A z \in Tokens : z # s => token'[z] = token[z]
  <2>1. /\ call[q].step = "issuing" /\ call'[q] = Idle
        /\ \A z \in Tokens : z # r => token'[z] = token[z]
        /\ token'[r].previous = IF call[q].op = "refresh" THEN call[q].of ELSE None
    BY <1>1 DEF IssueToken, AuthTypeOK
  <2>2. r = s
    BY <2>1
  <2>3. call[q].op = "refresh" /\ call[q].of = t
    BY <2>1, <2>2, AuthAssumption
  <2>4. token[s].owner = None
    BY <1>1, <2>2, IdleFields DEF IssueToken
  <2> QED BY <2>1, <2>2, <2>3, <2>4 DEF Refreshing
<1>2. ASSUME NEW u \in Users, NEW q \in Requests \cup {None}, RevokeAll(u, q)
      PROVE  FALSE
  BY <1>2, RevokeFields
<1>3. ASSUME NEW q \in Requests, RevokeReused(q) \/ ResetCommit(q) \/ ChangeCommit(q)
      PROVE  FALSE
  BY <1>2, <1>3, Fields DEF RevokeReused, ResetCommit, ChangeCommit, At
<1>4. ASSUME NEW r \in Tokens, Logout(r)
      PROVE  FALSE
  BY <1>4, RevokeOne DEF Logout
<1>5. ASSUME NEW q \in Requests, Rotate(q)
      PROVE  FALSE
  BY <1>5, RevokeOne DEF Rotate, At, CallShape
<1>6. ASSUME NEW u \in Users, LogoutAll(u)
      PROVE  FALSE
  BY <1>2, <1>6 DEF LogoutAll
<1>7. CASE token' = token
  BY <1>7
<1> QED BY <1>1, <1>3, <1>4, <1>5, <1>6, <1>7
       DEF Next, Request, RegisterRead, SetupCount, LoginCheck, ChangeRead, RefreshRead,
           ResetRead, SetupRead, CreateAccount, Abort, IssueLink, Begin, vars, tables

\* A refresh that begins on a token that works finds it without a successor;
\* one that goes on was there before.
LEMMA SuccessorsStep ==
    ASSUME IInv, IInv', SuccessorsNeedOverlap, [Next]_vars
    PROVE  SuccessorsNeedOverlap'
<1> USE DEF IInv
<1> SUFFICES ASSUME NEW t \in Tokens
             PROVE  Cardinality(Successors(t)') + Cardinality(Refreshing(t)')
                        <= Cardinality(Requests)
  BY DEF SuccessorsNeedOverlap
<1>1. /\ IsFiniteSet(Successors(t)) /\ IsFiniteSet(Refreshing(t))
      /\ Cardinality(Requests) \in Nat
      /\ Cardinality(Successors(t)) + Cardinality(Refreshing(t)) <= Cardinality(Requests)
  BY FS_Subset, FS_CardinalityType, AuthAssumption
     DEF Successors, Refreshing, SuccessorsNeedOverlap
<1>2. CASE token'[t].live
  <2>1. Successors(t)' = {}
    BY <1>2, AuthAssumption DEF ReplacedIsRevoked, Successors
  <2>2. Refreshing(t)' \in SUBSET Requests
    BY DEF Refreshing
  <2> QED BY <2>1, <2>2, OnlyRequests
<1>3. CASE ~token'[t].live /\ token[t].live
  <2>1. Successors(t)' = {}
    <3>1. ASSUME NEW s \in Tokens, token'[s].previous = t
          PROVE  FALSE
      <4>1. token[s].previous # t
        BY <1>3, AuthAssumption DEF ReplacedIsRevoked
      <4>2. /\ token[s].owner = None
            /\ \A r \in Tokens : r # s => token'[r] = token[r]
        BY <3>1, <4>1, NewSuccessor
      <4>3. t = s
        BY <1>3, <4>2
      <4>4. token[t].owner # None
        BY <1>3 DEF TokenShape
      <4> QED BY <4>2, <4>3, <4>4
    <3> QED BY <3>1 DEF Successors
  <2>2. Refreshing(t)' \in SUBSET Requests
    BY DEF Refreshing
  <2> QED BY <2>1, <2>2, OnlyRequests
<1>4. CASE ~token'[t].live /\ ~token[t].live
  <2>1. Refreshing(t)' \subseteq Refreshing(t)
    <3>1. ASSUME NEW p \in Requests, call'[p].op = "refresh", call'[p].of = t,
                 call'[p].step \in {"checked", "issuing"}
          PROVE  p \in Refreshing(t)
      BY <1>4, <3>1, CallStep, IdleFields DEF Refreshing
    <3> QED BY <3>1 DEF Refreshing
  <2>2. CASE Successors(t)' \subseteq Successors(t)
    BY <1>1, <2>1, <2>2, FewerOfBoth
  <2>3. CASE ~(Successors(t)' \subseteq Successors(t))
    <3>1. PICK s \in Tokens : token'[s].previous = t /\ token[s].previous # t
      BY <2>3 DEF Successors
    <3>2. PICK q \in Refreshing(t) :
              call'[q] = Idle /\ \A r \in Tokens : r # s => token'[r] = token[r]
      BY <3>1, NewSuccessor
    <3>3. \E x : Successors(t)' \subseteq Successors(t) \cup {x}
      <4>1. Successors(t)' \subseteq Successors(t) \cup {s}
        BY <3>2 DEF Successors
      <4> QED BY <4>1
    <3>4. q \notin Refreshing(t)'
      BY <3>2, IdleFields DEF Refreshing
    <3>5. \E y \in Refreshing(t) : Refreshing(t)' \subseteq Refreshing(t) \ {y}
      BY <2>1, <3>2, <3>4
    <3> QED BY <1>1, <3>3, <3>5, OneMoves
  <2> QED BY <2>2, <2>3
<1> QED BY <1>2, <1>3, <1>4

\* A set-up that begins finds no administrator.
LEMMA AdminsStep ==
    ASSUME IInv, AdminsNeedOverlap, [Next]_vars
    PROVE  AdminsNeedOverlap'
<1> USE DEF IInv
<1>1. /\ IsFiniteSet(Admins) /\ IsFiniteSet(SettingUp)
      /\ Cardinality(Requests) \in Nat
      /\ Cardinality(Admins) + Cardinality(SettingUp) <= Cardinality(Requests)
  BY FS_Subset, FS_CardinalityType, AuthAssumption
     DEF Admins, SettingUp, AdminsNeedOverlap
<1>2. ASSUME NEW q \in Requests, CreateAccount(q), call[q].op = "setup"
      PROVE  AdminsNeedOverlap'
  <2>1. /\ q \in SettingUp
        /\ call'[q].step = "issuing"
        /\ \A p \in Requests : p # q => call'[p] = call[p]
    BY <1>2, StepFields DEF CreateAccount, SettingUp
  <2>2. \E x : Admins' \subseteq Admins \cup {x}
    <3>1. Admins' \subseteq Admins \cup {call[q].user}
      BY <1>2 DEF CreateAccount, Admins, AuthTypeOK
    <3> QED BY <3>1
  <2>3. \E y \in SettingUp : SettingUp' \subseteq SettingUp \ {y}
    <3>1. SettingUp' \subseteq SettingUp \ {q}
      BY <2>1 DEF SettingUp
    <3> QED BY <2>1, <3>1
  <2>4. Cardinality(Admins') + Cardinality(SettingUp') <= Cardinality(Requests)
    BY <1>1, <2>2, <2>3, OneMoves
  <2> QED BY <2>4 DEF AdminsNeedOverlap
<1>3. CASE ~\E q \in Requests : CreateAccount(q) /\ call[q].op = "setup"
  <2>1. Admins' \subseteq Admins
    <3>1. ASSUME NEW q \in Requests, CreateAccount(q)
          PROVE  Admins' \subseteq Admins
      BY <1>3, <3>1 DEF CreateAccount, Admins, AuthTypeOK
    <3>2. CASE account' = account
      BY <3>2 DEF Admins
    <3> QED BY <3>1, <3>2
           DEF Next, Request, RegisterRead, SetupCount, LoginCheck, ChangeRead,
               RefreshRead, ResetRead, SetupRead, Rotate, IssueToken, RevokeReused,
               ResetCommit, ChangeCommit, Abort, Logout, LogoutAll, IssueLink, Begin,
               vars, tables
  <2>2. CASE Admins = {}
    <3>1. Admins' = {} /\ SettingUp' \in SUBSET Requests
      BY <2>1, <2>2 DEF SettingUp
    <3>2. Cardinality(Admins') + Cardinality(SettingUp') <= Cardinality(Requests)
      BY <3>1, OnlyRequests
    <3> QED BY <3>2 DEF AdminsNeedOverlap
  <2>3. CASE Admins # {}
    <3>1. SettingUp' \subseteq SettingUp
      <4>1. ~ \A v \in Users : account[v] # "ADMIN"
        BY <2>3 DEF Admins
      <4>2. ASSUME NEW p \in Requests, call'[p].op = "setup",
                   call'[p].step \in {"counted", "checked"}
            PROVE  p \in SettingUp
        BY <4>1, <4>2, CallStep, IdleFields DEF SettingUp
      <4> QED BY <4>2 DEF SettingUp
    <3>2. Cardinality(Admins') + Cardinality(SettingUp') <= Cardinality(Requests)
      BY <1>1, <2>1, <3>1, FewerOfBoth
    <3> QED BY <3>2 DEF AdminsNeedOverlap
  <2> QED BY <2>2, <2>3
<1> QED BY <1>2, <1>3

\* A reset that begins finds its link unused; the one that commits ends.
LEMMA LinkUsesStep ==
    ASSUME IInv, LinkUsesNeedOverlap, [Next]_vars
    PROVE  LinkUsesNeedOverlap'
<1> USE DEF IInv
<1> SUFFICES ASSUME NEW l \in Links
             PROVE  link'[l].uses + Cardinality(Resetting(l)') <= Cardinality(Requests)
  BY DEF LinkUsesNeedOverlap
<1>1. /\ IsFiniteSet(Resetting(l)) /\ Cardinality(Resetting(l)) \in Nat
      /\ Resetting(l)' \in SUBSET Requests
      /\ IsFiniteSet(Resetting(l)') /\ Cardinality(Resetting(l)') \in Nat
      /\ Cardinality(Resetting(l)') <= Cardinality(Requests)
      /\ Cardinality(Requests) \in Nat
      /\ link[l].uses + Cardinality(Resetting(l)) <= Cardinality(Requests)
      /\ link[l].uses \in Nat
  BY OnlyRequests, Fields DEF Resetting, LinkUsesNeedOverlap
<1>2. ASSUME NEW q \in Requests, ResetCommit(q), call[q].of = l
      PROVE  link'[l].uses + Cardinality(Resetting(l)') <= Cardinality(Requests)
  <2>1. q \in Resetting(l) /\ call'[q] = Idle
        /\ \A p \in Requests : p # q => call'[p] = call[p]
    BY <1>2, EndFields DEF ResetCommit, At, Resetting
  <2>2. link'[l].uses = link[l].uses + 1
    BY <1>2, Fields DEF ResetCommit, AuthTypeOK
  <2>3. Resetting(l)' = Resetting(l) \ {q}
    BY <2>1, IdleFields DEF Resetting
  <2>4. Cardinality(Resetting(l)') = Cardinality(Resetting(l)) - 1
    BY <1>1, <2>1, <2>3, FS_RemoveElement
  <2> QED BY <1>1, <2>2, <2>4
<1>3. CASE ~\E q \in Requests : ResetCommit(q) /\ call[q].of = l
  <2>1. link'[l].uses = link[l].uses \/ link'[l].uses = 0
    <3>1. ASSUME NEW q \in Requests, ResetCommit(q)
          PROVE  link'[l] = link[l]
      BY <1>3, <3>1 DEF ResetCommit, AuthTypeOK
    <3>2. ASSUME NEW u \in Users, NEW k \in Links, IssueLink(u, k)
          PROVE  link'[l] = link[l] \/ link'[l].uses = 0
      BY <3>2 DEF IssueLink, AuthTypeOK
    <3>3. CASE link' = link
      BY <3>3
    <3> QED BY <3>1, <3>2, <3>3
           DEF Next, Request, RegisterRead, SetupCount, LoginCheck, ChangeRead,
               RefreshRead, ResetRead, SetupRead, CreateAccount, Rotate, IssueToken,
               RevokeReused, ChangeCommit, Abort, Logout, LogoutAll, Begin, vars, tables
  <2>2. CASE link'[l].uses = 0
    BY <1>1, <2>2
  <2>3. CASE link'[l].uses = link[l].uses /\ link[l].uses # 0
    <3>1. ASSUME NEW p \in Requests, call'[p].op = "reset", call'[p].of = l
          PROVE  p \in Resetting(l)
      BY <2>3, <3>1, CallStep, IdleFields DEF Resetting
    <3>2. Resetting(l)' \subseteq Resetting(l)
      BY <3>1 DEF Resetting
    <3>3. Cardinality(Resetting(l)') <= Cardinality(Resetting(l))
      BY <1>1, <3>2, FS_Subset
    <3> QED BY <1>1, <2>3, <3>3
  <2> QED BY <2>1, <2>2, <2>3
<1> QED BY <1>2, <1>3

LEMMA InitOverlap ==
    Init => SuccessorsNeedOverlap /\ AdminsNeedOverlap /\ LinkUsesNeedOverlap
<1> SUFFICES ASSUME Init
             PROVE  SuccessorsNeedOverlap /\ AdminsNeedOverlap /\ LinkUsesNeedOverlap
  OBVIOUS
<1>1. ASSUME NEW q \in Requests
      PROVE  call[q].op = "idle" /\ call[q].of = None
  BY DEF Init, Idle
<1>2. ASSUME NEW t \in Tokens
      PROVE  Successors(t) = {} /\ Refreshing(t) = {}
  BY <1>1, AuthAssumption DEF Init, Successors, Refreshing, NoToken
<1>3. Admins = {} /\ SettingUp = {}
  BY <1>1, AuthAssumption DEF Init, Admins, SettingUp
<1>4. ASSUME NEW l \in Links
      PROVE  link[l].uses = 0 /\ Resetting(l) = {}
  BY <1>1, AuthAssumption DEF Init, Resetting, NoLink
<1>5. Cardinality({}) = 0 /\ Cardinality(Requests) \in Nat
  BY FS_EmptySet, FS_CardinalityType, AuthAssumption
<1>6. SuccessorsNeedOverlap
  BY <1>2, <1>5 DEF SuccessorsNeedOverlap
<1>7. AdminsNeedOverlap
  BY <1>3, <1>5 DEF AdminsNeedOverlap
<1>8. LinkUsesNeedOverlap
  BY <1>4, <1>5 DEF LinkUsesNeedOverlap
<1> QED BY <1>6, <1>7, <1>8

LEMMA OverlapStep ==
    ASSUME IInv, [Next]_vars, SuccessorsNeedOverlap, AdminsNeedOverlap, LinkUsesNeedOverlap
    PROVE  SuccessorsNeedOverlap' /\ AdminsNeedOverlap' /\ LinkUsesNeedOverlap'
BY InvStep, SuccessorsStep, AdminsStep, LinkUsesStep

\* One request at a time, a token has one successor, the set-up makes one
\* administrator and a link changes the password once; overlapping requests
\* do no more of it than they are (refresh, setupAdmin, resetPassword).
THEOREM RepetitionNeedsOverlap ==
    Spec => [](SuccessorsNeedOverlap /\ AdminsNeedOverlap /\ LinkUsesNeedOverlap)
<1>1. /\ IInv /\ SuccessorsNeedOverlap /\ AdminsNeedOverlap /\ LinkUsesNeedOverlap
      /\ [Next]_vars
      => (SuccessorsNeedOverlap /\ AdminsNeedOverlap /\ LinkUsesNeedOverlap)'
  BY OverlapStep
<1> QED BY SpecInv, InitOverlap, <1>1, PTL DEF Spec

\* The refreshes of a token split its session at most as often as they overlap.
THEOREM SessionsSplitByOverlap == Spec => []SuccessorsNeedOverlap
BY RepetitionNeedsOverlap, PTL

\* The set-up makes at most as many administrators as requests overlap.
THEOREM AdminsByOverlap == Spec => []AdminsNeedOverlap
BY RepetitionNeedsOverlap, PTL

\* A reset link works at most as often as its requests overlap.
THEOREM LinkUsesByOverlap == Spec => []LinkUsesNeedOverlap
BY RepetitionNeedsOverlap, PTL

-----------------------------------------------------------------------------
(***************************************************************************)
(*                      The identity documents                             *)
(***************************************************************************)

\* Faces are stored in order, and inserted once all of them are.
UploadInv ==
    \A b \in Batches :
        /\ upload[b].step \in {"none", "storing", "cleaning", "stored"} =>
              rows[b] = {} /\ createdAt[b] = 0
        /\ upload[b].step = "none" => objects[b] = {}
        /\ upload[b].step \in {"storing", "cleaning", "stored"} => upload[b].kept \subseteq objects[b]
        /\ upload[b].step = "cleaning" => objects[b] \subseteq upload[b].kept \/ b \in abandoned
        /\ upload[b].step \in {"storing", "stored"} => objects[b] \subseteq upload[b].kept
        /\ b \in abandoned => upload[b].step \in {"cleaning", "done"}
        /\ upload[b].step = "stored" => upload[b].kept # {}
        /\ upload[b].step = "listed" => createdAt[b] > 0
        /\ upload[b].step = "done" =>
              createdAt[b] > 0 \/ b \in abandoned \/ objects[b] = {}

\* What was never inserted has no row; what was has all its files, and keeps
\* its rows until it is rejected.
RowInv ==
    \A b \in Batches :
        /\ createdAt[b] = 0 => rows[b] = {} /\ b \notin rejected
        /\ createdAt[b] > 0 =>
              /\ b \notin abandoned
              /\ objects[b] \subseteq rows[b]
              /\ b \notin rejected => rows[b] # {} /\ objects[b] = rows[b]

\* A batch under review has been inserted; one whose purge is to be queued is
\* rejected.
ReviewInv ==
    \A h \in Reviewers :
        review[h] # NoReview =>
            /\ createdAt[review[h].batch] > 0
            /\ review[h].step = "written" => review[h].batch \in rejected

\* The worker runs the active job, which has all the rows left to erase.
PurgeInv ==
    /\ \A b \in Batches, f \in Faces :
          /\ job[b][f] # "none" => b \in rejected
          /\ job[b][f] = "active" <=> purge # NoPurge /\ purge.batch = b /\ purge.face = f
    /\ purge # NoPurge =>
          /\ purge.faces = rows[purge.batch] /\ purge.faces # {}
          /\ purge.gone \subseteq purge.faces
          /\ purge.gone \cap objects[purge.batch] = {}

\* The purge of a batch was cut once.
Cut(b) == \E g \in Faces : job[b][g] = "failed" \/ <<b, g>> \in stalled

\* A face that was reviewed is still there, unless its batch is being purged,
\* was purged, or its purge was cut.
FaceInv ==
    \A b \in Batches, f \in Faces :
        \/ f \in rows[b]
        \/ rows[b] = {}
        \/ purge # NoPurge /\ purge.batch = b
        \/ Cut(b)
        \/ /\ job[b][f] = "none"
           /\ \A h \in Reviewers :
                 review[h] # NoReview => review[h].batch # b \/ review[h].face # f

\* A finished job has erased the rows.
DoneInv ==
    \A b \in Batches, f \in Faces : job[b][f] = "done" => rows[b] = {} \/ Cut(b)

\* The inductive invariant.
KycInv ==
    /\ KycTypeOK
    /\ UploadInv
    /\ RowInv
    /\ ReviewInv
    /\ PurgeInv
    /\ FaceInv
    /\ DoneInv

-----------------------------------------------------------------------------

\* A batch inserted now is dated.
LEMMA NextDate ==
    ASSUME NEW S \in SUBSET Batches
    PROVE  1 + Cardinality(S) \in Nat \ {0}
BY FS_Subset, FS_CardinalityType, KycAssumption

\* A request in flight has the fields of its kind.
LEMMA ReviewFields ==
    ASSUME KycTypeOK, NEW h \in Reviewers, review[h] # NoReview
    PROVE  /\ review[h] \in ReviewRecords
           /\ review[h].batch \in Batches /\ review[h].face \in Faces
BY DEF KycTypeOK, ReviewRecords

\* So has the purge of the worker.
LEMMA PurgeFields ==
    ASSUME KycTypeOK, purge # NoPurge
    PROVE  /\ purge \in PurgeRecords
           /\ purge.batch \in Batches /\ purge.face \in Faces
           /\ purge.faces \subseteq Faces /\ purge.gone \subseteq Faces
BY DEF KycTypeOK, PurgeRecords

LEMMA KycInitInv == KycInit => KycInv
<1> SUFFICES ASSUME KycInit PROVE KycInv
  OBVIOUS
<1>1. KycTypeOK
  BY DEF KycInit, KycTypeOK, KycStatuses, UploadRecords, JobStates
<1>2. UploadInv /\ RowInv /\ ReviewInv
  BY DEF KycInit, UploadInv, RowInv, ReviewInv
<1>3. PurgeInv /\ FaceInv /\ DoneInv
  BY DEF KycInit, PurgeInv, FaceInv, DoneInv
<1> QED BY <1>1, <1>2, <1>3 DEF KycInv

-----------------------------------------------------------------------------
(* One lemma per part of the handlers.                                     *)

\* Submissions touch one batch that was not inserted before.
LEMMA KycUploadStep ==
    ASSUME KycInv, NEW b \in Batches,
           \/ \E faces \in SUBSET Faces : StartUpload(b, faces)
           \/ Upload(b)
           \/ UploadAborts(b)
    PROVE  KycInv'
<1> USE DEF KycInv
<1>1. /\ UNCHANGED <<review, job, stalled, purge, rejected>>
      /\ \A c \in Batches \ {b} :
            /\ rows'[c] = rows[c] /\ objects'[c] = objects[c]
            /\ createdAt'[c] = createdAt[c] /\ upload'[c] = upload[c]
            /\ c \in abandoned' <=> c \in abandoned
  BY DEF Upload, StartUpload, PutFace, PutFails, CleanFaces, InsertRows, MarkSubmitted,
         UploadAborts, kycTables, jobs, kycHistory, KycTypeOK
<1>2. KycTypeOK'
  <2> USE DEF KycTypeOK, UploadRecords, kycTables, jobs, kycHistory, reviewHistory
  <2>0. upload[b] \in UploadRecords /\ NextFace(b) \in Faces
    BY DEF NextFace, Faces
  <2>1. CASE \E faces \in SUBSET Faces : StartUpload(b, faces)
    BY <2>1 DEF StartUpload
  <2>2. CASE PutFace(b)
    <3> HIDE DEF kycHistory, reviewHistory
    <3>1. upload'[b] \in UploadRecords /\ \A c \in Batches \ {b} : upload'[c] = upload[c]
      BY <2>0, <2>2 DEF PutFace
    <3>2. upload' = [c \in Batches |-> upload'[c]] /\ objects' \in [Batches -> SUBSET Faces]
      BY <2>0, <2>2 DEF PutFace
    <3>3. UNCHANGED kycHistory
      BY <2>2 DEF PutFace
    <3> QED BY <2>2, <3>1, <3>2, <3>3 DEF PutFace, kycHistory, reviewHistory
  <2>3. CASE PutFails(b)
    <3>0. UNCHANGED reviewHistory
      BY <2>3 DEF PutFails
    <3> HIDE DEF kycHistory, reviewHistory
    <3>1. upload' \in [Batches -> UploadRecords] /\ abandoned' \subseteq Batches
      BY <2>0, <2>3 DEF PutFails
    <3>2. CASE UNCHANGED objects
      BY <2>3, <3>0, <3>1, <3>2 DEF PutFails, reviewHistory
    <3>3. CASE objects' = [objects EXCEPT ![b] = @ \cup {NextFace(b)}]
      <4>1. objects[b] \cup {NextFace(b)} \in SUBSET Faces
        BY <2>0
      <4>2. objects' \in [Batches -> SUBSET Faces]
        BY <3>3, <4>1
      <4> QED BY <2>3, <3>0, <3>1, <4>2 DEF PutFails, reviewHistory
    <3> QED BY <2>3, <3>2, <3>3 DEF PutFails
  <2>4. CASE CleanFaces(b)
    BY <2>4 DEF CleanFaces
  <2>5. CASE InsertRows(b)
    <3>1. overtaken' \subseteq Reviewers
      BY <2>5 DEF InsertRows
    <3> QED BY <2>5, <3>1, NextDate DEF InsertRows
  <2>6. CASE MarkSubmitted(b)
    BY <2>6 DEF MarkSubmitted, KycStatuses
  <2>7. CASE UploadAborts(b)
    BY <2>7 DEF UploadAborts
  <2> QED BY <2>1, <2>2, <2>3, <2>4, <2>5, <2>6, <2>7 DEF Upload
<1>3. /\ rows'[b] # rows[b] \/ createdAt'[b] # createdAt[b] => InsertRows(b)
      /\ createdAt[b] > 0 => UNCHANGED <<rows, createdAt, objects>> /\ b \notin abandoned'
  <2> USE DEF KycTypeOK, UploadInv, RowInv, kycTables, kycHistory
  <2>1. CASE \E faces \in SUBSET Faces : StartUpload(b, faces)
    BY <2>1 DEF StartUpload
  <2>2. CASE PutFace(b) \/ PutFails(b) \/ CleanFaces(b)
    BY <2>2 DEF PutFace, PutFails, CleanFaces
  <2>3. CASE InsertRows(b)
    BY <2>3 DEF InsertRows
  <2>4. CASE MarkSubmitted(b) \/ UploadAborts(b)
    BY <2>4 DEF MarkSubmitted, UploadAborts, UploadRecords
  <2> QED BY <2>1, <2>2, <2>3, <2>4 DEF Upload
<1>4. UploadInv'
  <2>1. CASE \E faces \in SUBSET Faces : StartUpload(b, faces)
    BY <1>1, <2>1 DEF StartUpload, UploadInv, KycTypeOK, UploadRecords, kycTables,
         kycHistory
  <2>2. CASE PutFace(b)
    <3>1. /\ upload[b].step = "storing" /\ upload'[b].step \in {"storing", "stored"}
          /\ upload'[b].kept = upload[b].kept \cup {NextFace(b)}
          /\ objects'[b] = objects[b] \cup {NextFace(b)}
          /\ UNCHANGED <<rows, createdAt, abandoned>>
      BY <2>2 DEF PutFace, KycTypeOK, UploadRecords, kycTables, kycHistory
    <3> QED BY <1>1, <3>1 DEF UploadInv
  <2>3. CASE PutFails(b)
    BY <1>1, <2>3 DEF PutFails, NextFace, UploadInv, KycTypeOK, UploadRecords, kycTables,
         kycHistory
  <2>4. CASE CleanFaces(b)
    BY <1>1, <2>4 DEF CleanFaces, UploadInv, KycTypeOK, UploadRecords, kycTables,
         kycHistory
  <2>5. CASE InsertRows(b)
    <3>1. createdAt'[b] > 0 /\ upload'[b].step = "listed"
      BY <2>5, NextDate DEF InsertRows, KycTypeOK, UploadRecords
    <3>2. UNCHANGED <<objects, abandoned>> /\ b \notin abandoned
      BY <2>5 DEF InsertRows, UploadInv
    <3> QED BY <1>1, <3>1, <3>2 DEF UploadInv
  <2>6. CASE MarkSubmitted(b) \/ UploadAborts(b)
    BY <1>1, <2>6 DEF MarkSubmitted, UploadAborts, UploadInv, KycTypeOK, UploadRecords, kycTables,
         kycHistory
  <2> QED BY <2>1, <2>2, <2>3, <2>4, <2>5, <2>6 DEF Upload
<1>5. RowInv'
  <2>1. CASE InsertRows(b)
    <3>1. createdAt'[b] > 0 /\ rows'[b] = upload[b].kept /\ objects' = objects
      BY <2>1, NextDate DEF InsertRows, KycTypeOK
    <3>2. b \notin rejected /\ b \notin abandoned /\ abandoned' = abandoned
      BY <2>1 DEF InsertRows, RowInv, UploadInv
    <3>3. upload[b].kept # {} /\ objects[b] = upload[b].kept
      BY <2>1, <3>2 DEF InsertRows, UploadInv
    <3> QED BY <1>1, <3>1, <3>2, <3>3 DEF RowInv
  <2>2. CASE ~InsertRows(b)
    BY <1>1, <1>3, <2>2 DEF RowInv, KycTypeOK
  <2> QED BY <2>1, <2>2
<1>6. ReviewInv'
  BY <1>1, <1>3, ReviewFields DEF ReviewInv
<1>7. \A c \in Batches : c \in rejected => rows'[c] = rows[c] /\ objects'[c] = objects[c]
  BY <1>1, <1>3 DEF RowInv, KycTypeOK
<1>8. PurgeInv'
  BY <1>1, <1>7, PurgeFields DEF PurgeInv
<1>9. FaceInv'
  <2> SUFFICES ASSUME NEW c \in Batches, NEW f \in Faces,
                      f \notin rows'[c], rows'[c] # {},
                      ~(purge # NoPurge /\ purge.batch = c), ~Cut(c)
               PROVE  /\ job[c][f] = "none"
                      /\ \A h \in Reviewers :
                            review[h] # NoReview => review[h].batch # c \/ review[h].face # f
    BY <1>1 DEF FaceInv, Cut
  <2>1. CASE rows'[c] = rows[c]
    BY <2>1 DEF FaceInv
  <2>2. CASE rows'[c] # rows[c]
    <3>1. createdAt[c] = 0
      BY <1>1, <1>3, <2>2 DEF KycTypeOK
    <3> QED BY <3>1, ReviewFields DEF RowInv, PurgeInv, ReviewInv
  <2> QED BY <2>1, <2>2
<1>10. DoneInv'
  BY <1>1, <1>7 DEF DoneInv, Cut, PurgeInv
<1> QED BY <1>2, <1>4, <1>5, <1>6, <1>8, <1>9, <1>10

\* Reviews touch the status, the rejections and the job of one face.
LEMMA KycReviewStep ==
    ASSUME KycInv, NEW h \in Reviewers,
           \/ \E op \in {"approve", "reject"}, b \in Batches, f \in Faces : ReviewRead(h, op, b, f)
           \/ Review(h)
           \/ ReviewAborts(h)
    PROVE  KycInv'
<1> USE DEF KycInv
<1>1. /\ UNCHANGED <<rows, objects, createdAt, upload, stalled, purge, abandoned>>
      /\ rejected \subseteq rejected'
  BY DEF Review, ReviewRead, ReviewCheck, Approve, Reject, EnqueuePurge, ReviewAborts, kycTables, jobs,
         kycHistory
<1>2. /\ review' \in [Reviewers -> ReviewRecords \cup {NoReview}]
      /\ \A g \in Reviewers \ {h} : review'[g] = review[g]
  <2> USE ReviewFields DEF KycTypeOK, EndReview
  <2>1. CASE \E op \in {"approve", "reject"}, b \in Batches, f \in Faces : ReviewRead(h, op, b, f)
    BY <2>1 DEF ReviewRead, ReviewRecords
  <2>2. CASE ReviewCheck(h)
    <3>1. [review[h] EXCEPT !.step = "checked"] \in ReviewRecords
      BY <2>2 DEF ReviewCheck, ReviewRecords
    <3> QED BY <2>2, <3>1 DEF ReviewCheck
  <2>3. CASE Reject(h)
    <3>1. [review[h] EXCEPT !.step = "written"] \in ReviewRecords
      BY <2>3 DEF Reject, ReviewRecords
    <3> QED BY <2>3, <3>1 DEF Reject
  <2>4. CASE Approve(h) \/ EnqueuePurge(h) \/ ReviewAborts(h)
    BY <2>4 DEF Approve, EnqueuePurge, ReviewAborts
  <2> QED BY <2>1, <2>2, <2>3, <2>4 DEF Review
<1>3. review'[h] # NoReview =>
         \/ \E b \in Batches, f \in Faces :
               /\ f \in rows[b] /\ review'[h].batch = b /\ review'[h].face = f
               /\ review'[h].step = "read"
         \/ /\ review[h] # NoReview
            /\ review'[h].batch = review[h].batch /\ review'[h].face = review[h].face
            /\ review'[h].step = "written" => review[h].batch \in rejected'
  <2> USE ReviewFields DEF KycTypeOK, EndReview
  <2>1. ASSUME NEW op \in {"approve", "reject"}, NEW b \in Batches, NEW f \in Faces,
               ReviewRead(h, op, b, f)
        PROVE  \E c \in Batches, g \in Faces :
                  g \in rows[c] /\ review'[h].batch = c /\ review'[h].face = g /\ review'[h].step = "read"
    <3>1. f \in rows[b] /\ review'[h] = [op |-> op, step |-> "read", batch |-> b, face |-> f]
      BY <2>1 DEF ReviewRead
    <3> QED BY <3>1
  <2>2. CASE ReviewCheck(h)
    <3>1. review[h] # NoReview /\ review'[h] \in {NoReview, [review[h] EXCEPT !.step = "checked"]}
      BY <2>2 DEF ReviewCheck
    <3> QED BY <3>1 DEF ReviewRecords
  <2>3. CASE Reject(h)
    <3>1. /\ review[h] # NoReview /\ review'[h] = [review[h] EXCEPT !.step = "written"]
          /\ rejected' = rejected \cup {review[h].batch}
      BY <2>3 DEF Reject
    <3> QED BY <3>1 DEF ReviewRecords
  <2>4. CASE Approve(h) \/ EnqueuePurge(h) \/ ReviewAborts(h)
    BY <2>4 DEF Approve, EnqueuePurge, ReviewAborts
  <2> QED BY <2>1, <2>2, <2>3, <2>4 DEF Review
<1>4. \/ job' = job
      \/ /\ review[h] # NoReview
         /\ review[h].batch \in rejected /\ rejected' = rejected
         /\ job[review[h].batch][review[h].face] = "none"
         /\ job' = [job EXCEPT ![review[h].batch][review[h].face] = "delayed"]
  <2>1. CASE EnqueuePurge(h)
    BY <2>1, ReviewFields DEF EnqueuePurge, kycTables, ReviewInv, KycTypeOK
  <2>2. CASE ~EnqueuePurge(h)
    BY <2>2 DEF Review, ReviewRead, ReviewCheck, Approve, Reject, ReviewAborts, jobs
  <2> QED BY <2>1, <2>2
<1>5. /\ job' \in [Batches -> [Faces -> JobStates]]
      /\ \A b \in Batches, f \in Faces :
            \/ job'[b][f] = job[b][f]
            \/ /\ review[h] # NoReview /\ review[h].batch = b /\ review[h].face = f
               /\ b \in rejected /\ job[b][f] = "none" /\ job'[b][f] = "delayed"
  <2>1. CASE job' = job
    BY <2>1 DEF KycTypeOK
  <2>2. CASE job' # job
    <3> DEFINE b0 == review[h].batch
               f0 == review[h].face
    <3>1. /\ b0 \in Batches /\ f0 \in Faces /\ review[h] # NoReview
          /\ b0 \in rejected /\ job[b0][f0] = "none"
          /\ job' = [job EXCEPT ![b0][f0] = "delayed"]
      BY <1>4, <2>2, ReviewFields
    <3> HIDE DEF b0, f0
    <3>2. /\ job' \in [Batches -> [Faces -> JobStates]]
          /\ \A b \in Batches, f \in Faces :
                job'[b][f] = IF b = b0 /\ f = f0 THEN "delayed" ELSE job[b][f]
      BY <3>1 DEF KycTypeOK, JobStates
    <3> QED BY <3>1, <3>2 DEF b0, f0
  <2> QED BY <2>1, <2>2
<1>6. \/ rejected' = rejected
      \/ review[h] # NoReview /\ rejected' = rejected \cup {review[h].batch}
  BY DEF Review, ReviewRead, ReviewCheck, Approve, Reject, EnqueuePurge, ReviewAborts, kycTables
<1>7. KycTypeOK'
  <2>1. kyc' \in KycStatuses /\ rejected' \subseteq Batches
    <3>1. kyc' \in KycStatuses
      BY DEF Review, ReviewRead, ReviewCheck, Approve, Reject, EnqueuePurge, ReviewAborts,
             kycTables, KycStatuses, KycTypeOK
    <3> QED BY <1>6, <3>1, ReviewFields DEF KycTypeOK
  <2>2. overtaken' \subseteq Reviewers
    <3>1. \/ overtaken' \in {overtaken, overtaken \ {h}}
          \/ OvertakeReviews(h)
      BY DEF Review, ReviewRead, ReviewCheck, Approve, Reject, EnqueuePurge, ReviewAborts,
             EndReview, kycHistory, reviewHistory
    <3> QED BY <3>1 DEF OvertakeReviews, KycTypeOK
  <2>3. unqueued' \subseteq Batches
    <3>1. \/ unqueued' \subseteq unqueued
          \/ review[h] # NoReview /\ unqueued' = unqueued \cup {review[h].batch}
      BY DEF Review, ReviewRead, ReviewCheck, Approve, Reject, EnqueuePurge, ReviewAborts,
             kycHistory, reviewHistory
    <3> QED BY <3>1, ReviewFields DEF KycTypeOK
  <2> QED BY <1>1, <1>2, <1>5, <2>1, <2>2, <2>3 DEF KycTypeOK
<1>8. UploadInv'
  BY <1>1 DEF UploadInv
<1>9. RowInv'
  BY <1>1, <1>6, ReviewFields DEF RowInv, ReviewInv
<1>10. ReviewInv'
  <2> SUFFICES ASSUME NEW g \in Reviewers, review'[g] # NoReview
               PROVE  /\ createdAt[review'[g].batch] > 0
                      /\ review'[g].step = "written" => review'[g].batch \in rejected'
    BY <1>1 DEF ReviewInv
  <2>1. CASE g = h
    <3>1. \A b \in Batches : rows[b] # {} => createdAt[b] > 0
      BY DEF RowInv, KycTypeOK
    <3> QED BY <1>3, <2>1, <3>1 DEF ReviewInv
  <2>2. CASE g # h
    BY <1>1, <1>2, <2>2 DEF ReviewInv
  <2> QED BY <2>1, <2>2
<1>11. PurgeInv'
  BY <1>1, <1>5, ReviewFields, PurgeFields DEF PurgeInv, ReviewInv
<1>12. \A b \in Batches : Cut(b)' = Cut(b)
  BY <1>1, <1>5 DEF Cut
<1>13. FaceInv'
  <2> SUFFICES ASSUME NEW b \in Batches, NEW f \in Faces,
                      f \notin rows[b], rows[b] # {},
                      ~(purge # NoPurge /\ purge.batch = b), ~Cut(b)
               PROVE  /\ job'[b][f] = "none"
                      /\ \A g \in Reviewers :
                            review'[g] # NoReview => review'[g].batch # b \/ review'[g].face # f
    BY <1>1, <1>12 DEF FaceInv
  <2>1. /\ job[b][f] = "none"
        /\ \A g \in Reviewers :
              review[g] # NoReview => review[g].batch # b \/ review[g].face # f
    BY DEF FaceInv
  <2>2. job'[b][f] = "none"
    BY <1>5, <2>1
  <2>3. ASSUME NEW g \in Reviewers, review'[g] # NoReview
        PROVE  review'[g].batch # b \/ review'[g].face # f
    <3>1. CASE g = h
      BY <1>3, <2>1, <2>3, <3>1
    <3>2. CASE g # h
      BY <1>2, <2>1, <2>3, <3>2
    <3> QED BY <3>1, <3>2
  <2> QED BY <2>2, <2>3
<1>14. DoneInv'
  BY <1>1, <1>5, <1>12 DEF DoneInv
<1> QED BY <1>7, <1>8, <1>9, <1>10, <1>11, <1>13, <1>14

\* The worker takes one job at a time, and erases the batch of its document.
LEMMA KycPurgeStep ==
    ASSUME KycInv, Purge \/ PurgeFails \/ PurgeDies
    PROVE  KycInv'
<1> USE DEF KycInv
<1>1. UNCHANGED <<kyc, createdAt, rejected, upload, review, abandoned, overtaken, unqueued>>
  BY DEF Purge, PurgeStart, PurgeObject, PurgeRow, PurgeFails, PurgeDies, kycTables, kycHistory,
         reviewHistory
<1>2. ReviewInv'
  BY <1>1 DEF ReviewInv
<1>3. ASSUME NEW b \in Batches, NEW f \in Faces, PurgeStart(b, f)
      PROVE  KycInv'
  <2>1. /\ UNCHANGED <<rows, objects, stalled>> /\ purge = NoPurge
        /\ job[b][f] = "delayed" /\ b \in rejected
    BY <1>3 DEF PurgeStart, kycTables, PurgeInv
  <2>2. CASE f \in rows[b]
    <3>1. /\ purge' = [batch |-> b, face |-> f, faces |-> rows[b], gone |-> {}]
          /\ job' = [job EXCEPT ![b][f] = "active"]
      BY <1>3, <2>1, <2>2 DEF PurgeStart
    <3>2. /\ job' \in [Batches -> [Faces -> JobStates]]
          /\ \A c \in Batches, g \in Faces :
                job'[c][g] = IF c = b /\ g = f THEN "active" ELSE job[c][g]
      BY <3>1 DEF KycTypeOK, JobStates
    <3>3. purge' \in PurgeRecords /\ purge' # NoPurge
      BY <3>1 DEF PurgeRecords, KycTypeOK, NoPurge
    <3>4. KycTypeOK' /\ UploadInv' /\ RowInv'
      BY <1>1, <2>1, <3>2, <3>3 DEF KycTypeOK, UploadInv, RowInv
    <3>5. PurgeInv'
      BY <1>1, <2>1, <2>2, <3>1, <3>2, <3>3 DEF PurgeInv
    <3>6. \A c \in Batches : Cut(c)' = Cut(c)
      BY <2>1, <3>2 DEF Cut
    <3>7. FaceInv'
      BY <1>1, <2>1, <3>1, <3>2, <3>3, <3>6 DEF FaceInv
    <3>8. DoneInv'
      BY <2>1, <3>2, <3>6 DEF DoneInv
    <3> QED BY <1>2, <3>4, <3>5, <3>7, <3>8
  <2>3. CASE f \notin rows[b]
    <3>1. purge' = purge /\ job' = [job EXCEPT ![b][f] = "done"]
      BY <1>3, <2>3 DEF PurgeStart
    <3>2. /\ job' \in [Batches -> [Faces -> JobStates]]
          /\ \A c \in Batches, g \in Faces :
                job'[c][g] = IF c = b /\ g = f THEN "done" ELSE job[c][g]
      BY <3>1 DEF KycTypeOK, JobStates
    <3>3. KycTypeOK' /\ UploadInv' /\ RowInv'
      BY <1>1, <2>1, <3>1, <3>2 DEF KycTypeOK, UploadInv, RowInv
    <3>4. PurgeInv'
      BY <1>1, <2>1, <3>1, <3>2 DEF PurgeInv
    <3>5. \A c \in Batches : Cut(c)' = Cut(c)
      BY <2>1, <3>2 DEF Cut
    <3>6. rows[b] = {} \/ Cut(b)
      BY <2>1, <2>3 DEF FaceInv
    <3>7. FaceInv'
      BY <1>1, <2>1, <3>1, <3>2, <3>5, <3>6 DEF FaceInv
    <3>8. DoneInv'
      BY <2>1, <3>2, <3>5, <3>6 DEF DoneInv
    <3> QED BY <1>2, <3>3, <3>4, <3>7, <3>8
  <2> QED BY <2>2, <2>3
<1>4. ASSUME NEW f \in Faces, PurgeObject(f)
      PROVE  KycInv'
  <2> DEFINE b == purge.batch
  <2>1. /\ UNCHANGED <<rows, job, stalled>> /\ purge # NoPurge /\ f \in purge.faces
        /\ objects' = [objects EXCEPT ![b] = @ \ {f}]
        /\ purge' = [purge EXCEPT !.gone = {f}]
    BY <1>4 DEF PurgeObject, kycTables
  <2>2. /\ b \in Batches /\ purge.face \in Faces /\ purge.faces \subseteq Faces
        /\ purge \in PurgeRecords
    BY <2>1, PurgeFields
  <2>3. /\ purge' \in PurgeRecords /\ purge' # NoPurge
        /\ purge'.batch = b /\ purge'.face = purge.face
        /\ purge'.faces = purge.faces /\ purge'.gone = {f}
    BY <2>1, <2>2 DEF PurgeRecords, NoPurge
  <2>4. b \in rejected
    BY <2>1, <2>2 DEF PurgeInv
  <2> HIDE DEF b
  <2>5. /\ objects' \in [Batches -> SUBSET Faces]
        /\ \A c \in Batches : objects'[c] = IF c = b THEN objects[c] \ {f} ELSE objects[c]
    BY <2>1, <2>2 DEF KycTypeOK
  <2>6. KycTypeOK'
    BY <1>1, <2>1, <2>3, <2>5 DEF KycTypeOK
  <2>7. RowInv'
    BY <1>1, <2>1, <2>4, <2>5 DEF RowInv
  <2>8. UploadInv'
    <3>1. createdAt[b] > 0
      BY <2>2, <2>4 DEF RowInv, KycTypeOK
    <3>2. upload[b].step \notin {"none", "storing", "cleaning", "stored"}
      BY <2>2, <3>1 DEF UploadInv
    <3> QED BY <1>1, <2>1, <2>5, <3>2 DEF UploadInv
  <2>9. PurgeInv'
    BY <1>1, <2>1, <2>2, <2>3, <2>5 DEF PurgeInv, b
  <2>10. \A c \in Batches : Cut(c)' = Cut(c)
    BY <2>1 DEF Cut
  <2>11. DoneInv'
    BY <2>1, <2>10 DEF DoneInv
  <2>12. FaceInv'
    BY <1>1, <2>1, <2>3, <2>10 DEF FaceInv, b
  <2> QED BY <1>2, <2>6, <2>7, <2>8, <2>9, <2>11, <2>12
<1>5. ASSUME PurgeRow
      PROVE  KycInv'
  <2> DEFINE b == purge.batch
             left == purge.faces \ purge.gone
  <2>1. /\ UNCHANGED <<objects, stalled>> /\ purge # NoPurge
        /\ rows' = [rows EXCEPT ![b] = @ \ purge.gone]
        /\ purge' = IF left = {} THEN NoPurge
                    ELSE [purge EXCEPT !.faces = left, !.gone = {}]
        /\ job' = IF left = {} THEN [job EXCEPT ![b][purge.face] = "done"] ELSE job
    BY <1>5 DEF PurgeRow
  <2>2. /\ b \in Batches /\ purge.face \in Faces /\ purge.faces \subseteq Faces
        /\ purge \in PurgeRecords
    BY <2>1, PurgeFields
  <2>3. /\ b \in rejected /\ job[b][purge.face] = "active"
        /\ purge.faces = rows[b] /\ purge.gone \cap objects[b] = {}
    BY <2>1, <2>2 DEF PurgeInv
  <2>4. left # {} => /\ purge' \in PurgeRecords /\ purge' # NoPurge
                     /\ purge'.batch = b /\ purge'.face = purge.face
                     /\ purge'.faces = left /\ purge'.gone = {}
    BY <2>1, <2>2 DEF PurgeRecords, NoPurge
  <2>5. /\ rows' \in [Batches -> SUBSET Faces]
        /\ \A c \in Batches : rows'[c] = IF c = b THEN left ELSE rows[c]
    BY <2>1, <2>2, <2>3 DEF KycTypeOK
  <2>6. /\ job' \in [Batches -> [Faces -> JobStates]]
        /\ \A c \in Batches, g \in Faces :
              job'[c][g] = IF left = {} /\ c = b /\ g = purge.face THEN "done" ELSE job[c][g]
    BY <2>1, <2>2 DEF KycTypeOK, JobStates
  <2> HIDE DEF b, left
  <2>7. KycTypeOK'
    BY <1>1, <2>1, <2>4, <2>5, <2>6 DEF KycTypeOK
  <2>8. RowInv'
    <3>1. createdAt[b] > 0
      BY <2>2, <2>3 DEF RowInv, KycTypeOK
    <3>2. objects[b] \subseteq left
      BY <2>2, <2>3, <3>1 DEF RowInv, left
    <3> QED BY <1>1, <2>1, <2>2, <2>3, <2>5, <3>1, <3>2 DEF RowInv
  <2>9. UploadInv'
    <3>1. left \subseteq rows[b]
      BY <2>3 DEF left
    <3> QED BY <1>1, <2>1, <2>5, <3>1 DEF UploadInv
  <2>10. PurgeInv'
    <3>1. CASE left = {}
      <4>1. purge' = NoPurge
        BY <2>1, <3>1
      <4> QED BY <1>1, <2>1, <2>2, <2>3, <2>6, <3>1, <4>1 DEF PurgeInv, b
    <3>2. CASE left # {}
      <4>1. \A c \in Batches, g \in Faces : job'[c][g] = job[c][g]
        BY <2>6, <3>2
      <4> QED BY <1>1, <2>1, <2>2, <2>3, <2>4, <2>5, <3>2, <4>1 DEF PurgeInv, b
    <3> QED BY <3>1, <3>2
  <2>11. \A c \in Batches : Cut(c)' = Cut(c)
    BY <2>1, <2>2, <2>3, <2>6 DEF Cut
  <2>12. FaceInv'
    <3> SUFFICES ASSUME NEW c \in Batches, NEW f \in Faces,
                        f \notin rows'[c], rows'[c] # {}, ~Cut(c),
                        ~(purge' # NoPurge /\ purge'.batch = c)
                 PROVE  /\ job'[c][f] = "none"
                        /\ \A h \in Reviewers :
                              review[h] # NoReview => review[h].batch # c \/ review[h].face # f
      BY <1>1, <2>11 DEF FaceInv
    <3>1. c # b
      BY <2>4, <2>5
    <3> QED BY <2>5, <2>6, <3>1 DEF FaceInv, b
  <2>13. DoneInv'
    <3>1. left \subseteq rows[b]
      BY <2>3 DEF left
    <3> QED BY <2>2, <2>5, <2>6, <2>11, <3>1 DEF DoneInv
  <2> QED BY <1>2, <2>7, <2>8, <2>9, <2>10, <2>12, <2>13
<1>6. ASSUME PurgeFails \/ PurgeDies
      PROVE  KycInv'
  <2>0. PICK b \in Batches, f \in Faces : b = purge.batch /\ f = purge.face
    BY <1>6, PurgeFields DEF PurgeFails, PurgeDies
  <2>1. purge # NoPurge /\ purge' = NoPurge
    BY <1>6 DEF PurgeFails, PurgeDies
  <2>2. b \in rejected /\ job[b][f] = "active"
    BY <2>0, <2>1 DEF PurgeInv
  <2>3. /\ UNCHANGED <<rows, objects>>
        /\ stalled \subseteq stalled' /\ stalled' \subseteq Batches \X Faces
        /\ job' \in [Batches -> [Faces -> JobStates]]
        /\ \A c \in Batches, g \in Faces :
              /\ c # b \/ g # f => job'[c][g] = job[c][g]
              /\ c = b /\ g = f => job'[c][g] \in {"failed", "delayed"}
        /\ job'[b][f] = "failed" \/ <<b, f>> \in stalled'
    <3>1. CASE PurgeFails
      <4>1. job' = [job EXCEPT ![b][f] = "failed"] /\ UNCHANGED <<rows, objects, stalled>>
        BY <2>0, <3>1 DEF PurgeFails, kycTables
      <4> QED BY <2>1, <4>1 DEF KycTypeOK, JobStates
    <3>2. CASE PurgeDies
      <4>1. /\ job' = [job EXCEPT ![b][f] = IF <<b, f>> \in stalled THEN "failed" ELSE "delayed"]
            /\ stalled' = stalled \cup {<<b, f>>} /\ UNCHANGED <<rows, objects>>
        BY <2>0, <3>2 DEF PurgeDies, kycTables
      <4>2. stalled \in SUBSET (Batches \X Faces) /\ <<b, f>> \in Batches \X Faces
        BY <2>1 DEF KycTypeOK
      <4>3. stalled \subseteq stalled' /\ stalled' \subseteq Batches \X Faces /\ <<b, f>> \in stalled'
        BY <4>1, <4>2
      <4>4. /\ job' \in [Batches -> [Faces -> JobStates]]
            /\ \A c \in Batches, g \in Faces :
                  /\ c # b \/ g # f => job'[c][g] = job[c][g]
                  /\ c = b /\ g = f => job'[c][g] \in {"failed", "delayed"}
        BY <2>1, <4>1 DEF KycTypeOK, JobStates
      <4> QED BY <4>1, <4>3, <4>4
    <3> QED BY <1>6, <3>1, <3>2
  <2>4. KycTypeOK' /\ UploadInv' /\ RowInv'
    BY <1>1, <2>1, <2>3 DEF KycTypeOK, UploadInv, RowInv
  <2>5. PurgeInv'
    BY <1>1, <2>0, <2>1, <2>2, <2>3 DEF PurgeInv
  <2>6. Cut(b)' /\ \A c \in Batches : Cut(c) => Cut(c)'
    <3>1. Cut(b)'
      BY <2>1, <2>3 DEF Cut
    <3>2. ASSUME NEW c \in Batches, Cut(c) PROVE Cut(c)'
      <4>1. PICK g \in Faces : job[c][g] = "failed" \/ <<c, g>> \in stalled
        BY <3>2 DEF Cut
      <4>2. job'[c][g] = "failed" \/ <<c, g>> \in stalled' \/ c = b
        BY <2>2, <2>3, <4>1
      <4> QED BY <3>1, <4>2 DEF Cut
    <3> QED BY <3>1, <3>2
  <2>7. FaceInv'
    <3> SUFFICES ASSUME NEW c \in Batches, NEW g \in Faces,
                        g \notin rows[c], rows[c] # {}, ~Cut(c)'
                 PROVE  /\ job'[c][g] = "none"
                        /\ \A h \in Reviewers :
                              review[h] # NoReview => review[h].batch # c \/ review[h].face # g
      BY <1>1, <2>3 DEF FaceInv
    <3>1. c # b /\ ~Cut(c)
      BY <2>6
    <3> QED BY <2>0, <2>3, <3>1 DEF FaceInv
  <2>8. DoneInv'
    BY <2>1, <2>3, <2>6 DEF DoneInv
  <2> QED BY <1>2, <2>4, <2>5, <2>7, <2>8
<1> QED BY <1>3, <1>4, <1>5, <1>6 DEF Purge

-----------------------------------------------------------------------------

LEMMA KycInvStep == KycInv /\ [KycNext]_kycVars => KycInv'
<1> SUFFICES ASSUME KycInv, [KycNext]_kycVars PROVE KycInv'
  OBVIOUS
<1>1. CASE UNCHANGED kycVars
  <2> USE <1>1 DEF KycInv, kycVars, kycTables, jobs, kycHistory, reviewHistory
  <2>1. KycTypeOK' /\ UploadInv' /\ RowInv' /\ ReviewInv' /\ PurgeInv'
    BY DEF KycTypeOK, UploadInv, RowInv, ReviewInv, PurgeInv
  <2>2. \A b \in Batches : Cut(b)' = Cut(b)
    BY DEF Cut
  <2>3. FaceInv' /\ DoneInv'
    BY <2>2 DEF FaceInv, DoneInv
  <2> QED BY <2>1, <2>3
<1>2. CASE KycNext
  BY <1>2, KycUploadStep, KycReviewStep, KycPurgeStep DEF KycNext
<1> QED BY <1>1, <1>2

\* The invariant holds in every reachable state.
LEMMA KycInvariant == KycSpec => []KycInv
BY KycInitInv, KycInvStep, PTL DEF KycSpec

\* Every variable keeps its type.
THEOREM KycType == KycSpec => []KycTypeOK
<1>1. KycInv => KycTypeOK
  BY DEF KycInv
<1> QED BY KycInvariant, <1>1, PTL

\* A document that the administration can open has its file (uploadKyc,
\* purgeRejectedDocument).
THEOREM ListedFacesAreStored == KycSpec => []ListedFaceIsStored
<1>1. KycInv => ListedFaceIsStored
  BY DEF KycInv, RowInv, ListedFaceIsStored, KycTypeOK
<1> QED BY KycInvariant, <1>1, PTL

\* No identity document is left in the storage without its row, but by a
\* submission that died or could not clean up (uploadKyc).
THEOREM StoredFacesAreListed == KycSpec => []StoredFaceIsListed
<1>1. KycInv => StoredFaceIsListed
  <2> SUFFICES ASSUME KycInv, NEW b \in Batches, objects[b] \ rows[b] # {}, b \notin abandoned
               PROVE  upload[b].step \in {"storing", "cleaning", "stored"}
    BY DEF StoredFaceIsListed
  <2> QED BY DEF KycInv, RowInv, UploadInv, KycTypeOK, UploadRecords
<1> QED BY KycInvariant, <1>1, PTL

\* The rows and the storage keep together (uploadKyc, purgeRejectedDocument).
THEOREM RowsAndObjectsMatch == KycSpec => []FacesMatchObjects
<1>1. ListedFaceIsStored /\ StoredFaceIsListed => FacesMatchObjects
  BY DEF FacesMatchObjects
<1> QED BY ListedFacesAreStored, StoredFacesAreListed, <1>1, PTL

\* A purge that was not cut has erased the whole batch (purgeRejectedDocument).
THEOREM FinishedPurgesErased == KycSpec => []FinishedPurgeErased
<1>1. KycInv => FinishedPurgeErased
  <2> SUFFICES ASSUME KycInv, NEW b \in Batches, NEW f \in Faces, job[b][f] = "done", ~Cut(b)
               PROVE  rows[b] = {} /\ objects[b] = {}
    BY DEF FinishedPurgeErased, Cut
  <2>1. rows[b] = {} /\ b \in rejected
    BY DEF KycInv, DoneInv, PurgeInv
  <2>2. createdAt[b] > 0
    BY <2>1 DEF KycInv, RowInv, KycTypeOK
  <2> QED BY <2>1, <2>2 DEF KycInv, RowInv
<1> QED BY KycInvariant, <1>1, PTL

-----------------------------------------------------------------------------
(* A rejected batch has a purge to come.                                   *)

QueueInv ==
    \A b \in rejected :
        \/ Queued(b)
        \/ \E h \in Reviewers :
              review[h] # NoReview /\ review[h].step = "written" /\ review[h].batch = b
        \/ b \in unqueued

LEMMA QueueStep == KycInv /\ QueueInv /\ [KycNext]_kycVars => QueueInv'
<1> SUFFICES ASSUME KycInv, QueueInv, [KycNext]_kycVars
             PROVE  QueueInv'
  OBVIOUS
<1>1. CASE UNCHANGED <<rejected, review, job, unqueued>>
  BY <1>1 DEF QueueInv, Queued
<1>2. ASSUME NEW b \in Batches,
             (\E faces \in SUBSET Faces : StartUpload(b, faces)) \/ Upload(b) \/ UploadAborts(b)
      PROVE  UNCHANGED <<rejected, review, job, unqueued>>
  BY <1>2 DEF StartUpload, Upload, PutFace, PutFails, CleanFaces, InsertRows, MarkSubmitted,
     UploadAborts, kycTables, jobs, kycHistory, reviewHistory
<1>3. ASSUME NEW h \in Reviewers,
             \/ \E op \in {"approve", "reject"}, b \in Batches, f \in Faces : ReviewRead(h, op, b, f)
             \/ ReviewCheck(h)
             \/ Approve(h)
      PROVE  QueueInv'
  <2>1. /\ UNCHANGED <<rejected, job, unqueued>>
        /\ review[h] = NoReview \/ review[h].step # "written"
        /\ \A g \in Reviewers \ {h} : review'[g] = review[g]
    BY <1>3 DEF ReviewRead, ReviewCheck, Approve, EndReview, kycTables, jobs, kycHistory,
                reviewHistory, KycInv, KycTypeOK, ReviewRecords
  <2> QED BY <2>1 DEF QueueInv, Queued
<1>4. ASSUME NEW h \in Reviewers, Reject(h)
      PROVE  QueueInv'
  <2>1. /\ rejected' = rejected \cup {review[h].batch} /\ UNCHANGED <<job, unqueued>>
        /\ review[h].step # "written"
        /\ review'[h] # NoReview /\ review'[h].step = "written"
        /\ review'[h].batch = review[h].batch
        /\ \A g \in Reviewers \ {h} : review'[g] = review[g]
    BY <1>4, ReviewFields DEF Reject, jobs, KycInv, KycTypeOK, ReviewRecords, NoReview
  <2> QED BY <2>1 DEF QueueInv, Queued
<1>5. ASSUME NEW h \in Reviewers, EnqueuePurge(h)
      PROVE  QueueInv'
  <2>1. PICK b \in Batches, f \in Faces : b = review[h].batch /\ f = review[h].face
    BY <1>5, ReviewFields DEF EnqueuePurge, KycInv
  <2>2. /\ rejected' = rejected /\ unqueued' = unqueued \ {b}
        /\ job' = [job EXCEPT ![b][f] = IF @ = "none" THEN "delayed" ELSE @]
        /\ \A g \in Reviewers \ {h} : review'[g] = review[g]
    BY <1>5, <2>1 DEF EnqueuePurge, EndReview, kycTables, KycInv, KycTypeOK
  <2>3. /\ job'[b][f] # "none"
        /\ \A c \in Batches, g \in Faces : job[c][g] # "none" => job'[c][g] # "none"
    BY <2>2 DEF KycInv, KycTypeOK
  <2>4. Queued(b)' /\ \A c \in Batches : Queued(c) => Queued(c)'
    BY <2>3 DEF Queued
  <2>5. rejected \subseteq Batches
    BY DEF KycInv, KycTypeOK
  <2> QED BY <2>1, <2>2, <2>4, <2>5 DEF QueueInv
<1>6. ASSUME NEW h \in Reviewers, ReviewAborts(h)
      PROVE  QueueInv'
  <2>1. /\ UNCHANGED <<rejected, job>> /\ review[h] # NoReview
        /\ unqueued' = IF review[h].step = "written" /\ ~Queued(review[h].batch)
                       THEN unqueued \cup {review[h].batch} ELSE unqueued
        /\ \A g \in Reviewers \ {h} : review'[g] = review[g]
    BY <1>6 DEF ReviewAborts, EndReview, kycTables, jobs, KycInv, KycTypeOK
  <2>2. \A c : Queued(c)' <=> Queued(c)
    BY <2>1 DEF Queued
  <2> QED BY <2>1, <2>2 DEF QueueInv
<1>7. CASE Purge \/ PurgeFails \/ PurgeDies
  <2>1. UNCHANGED <<rejected, review, unqueued>>
    BY <1>7 DEF Purge, PurgeStart, PurgeObject, PurgeRow, PurgeFails, PurgeDies, kycTables,
       kycHistory, reviewHistory
  <2>2. \A b \in Batches, f \in Faces : job[b][f] # "none" => job'[b][f] # "none"
    <3>1. CASE \/ \E b \in Batches, f \in Faces : PurgeStart(b, f)
               \/ \E f \in Faces : PurgeObject(f)
      BY <3>1 DEF PurgeStart, PurgeObject, KycInv, KycTypeOK
    <3>2. CASE PurgeRow
      <4>1. purge.batch \in Batches /\ purge.face \in Faces
        BY <3>2, PurgeFields DEF PurgeRow, KycInv
      <4>2. \/ job' = job
            \/ job' = [job EXCEPT ![purge.batch][purge.face] = "done"]
        BY <3>2 DEF PurgeRow
      <4> QED BY <4>1, <4>2 DEF KycInv, KycTypeOK
    <3>3. CASE PurgeFails \/ PurgeDies
      <4>1. purge.batch \in Batches /\ purge.face \in Faces
        BY <3>3, PurgeFields DEF PurgeFails, PurgeDies, KycInv
      <4>2. \/ job' = [job EXCEPT ![purge.batch][purge.face] = "failed"]
            \/ job' = [job EXCEPT ![purge.batch][purge.face] = "delayed"]
        BY <3>3 DEF PurgeFails, PurgeDies
      <4> QED BY <4>1, <4>2 DEF KycInv, KycTypeOK
    <3> QED BY <1>7, <3>1, <3>2, <3>3 DEF Purge
  <2>3. rejected \subseteq Batches /\ \A b \in Batches : Queued(b) => Queued(b)'
    BY <2>2 DEF Queued, KycInv, KycTypeOK
  <2> QED BY <2>1, <2>3 DEF QueueInv
<1> QED
  BY <1>1, <1>2, <1>3, <1>4, <1>5, <1>6, <1>7 DEF KycNext, Review, kycVars, kycTables, jobs,
     kycHistory, reviewHistory

\* A rejected document has a purge to come until it has none of its rows, but
\* for a rejection cut before retentionQueue.add and for a purge that was cut
\* (reject, purgeRejectedDocument).
THEOREM RejectionsArePurged == KycSpec => []RejectedHasPurge
<1>1. KycInit => QueueInv
  BY DEF KycInit, QueueInv
<1>2. KycInv /\ QueueInv => RejectedHasPurge
  <2> SUFFICES ASSUME KycInv, QueueInv, NEW b \in rejected, Queued(b), rows[b] # {}
               PROVE  \E f \in Faces : \/ job[b][f] \in {"delayed", "active", "failed"}
                                        \/ <<b, f>> \in stalled
    BY DEF QueueInv, RejectedHasPurge
  <2>1. PICK f \in Faces : job[b][f] # "none"
    BY DEF Queued
  <2>2. b \in Batches /\ job[b][f] \in JobStates
    BY DEF KycInv, KycTypeOK
  <2>3. CASE job[b][f] = "done"
    BY <2>2, <2>3 DEF KycInv, DoneInv, Cut
  <2> QED BY <2>1, <2>2, <2>3 DEF JobStates
<1> QED BY <1>1, <1>2, QueueStep, KycInvariant, PTL DEF KycSpec

\* The whole way from the rejection of a document to its erasure.
THEOREM RejectedAreErased == KycSpec => []RejectedIsErased
<1>1. RejectedHasPurge /\ FinishedPurgeErased => RejectedIsErased
  BY DEF RejectedIsErased
<1> QED BY RejectionsArePurged, FinishedPurgesErased, <1>1, PTL

-----------------------------------------------------------------------------
(* A validated account stands on its last submission.                      *)

Dated == {b \in Batches : createdAt[b] # 0}

\* Batches are dated in the order of their insertion.
DateInv == \A b \in Batches : createdAt[b] <= Cardinality(Dated)

\* A request that nothing overtook stands on what it has read and checked.
StandInv ==
    \A h \in Reviewers :
        review[h] # NoReview /\ review[h].step \in {"read", "checked"} /\ h \notin overtaken =>
            /\ review[h].batch \notin rejected
            /\ review[h].step = "checked" => \A c \in Later(review[h].batch) : rows[c] = {}

\* A batch that is inserted is later than all the others.
LEMMA InsertedIsLast ==
    ASSUME KycInv, DateInv, NEW b \in Batches, InsertRows(b)
    PROVE  /\ \A c \in Batches : createdAt'[c] <= createdAt'[b]
           /\ DateInv'
<1>1. /\ createdAt[b] = 0
      /\ createdAt' = [createdAt EXCEPT ![b] = 1 + Cardinality(Dated)]
  BY DEF InsertRows, KycInv, UploadInv, Dated
<1>2. IsFiniteSet(Dated) /\ Cardinality(Dated) \in Nat /\ b \notin Dated
  <2>1. Dated \subseteq Batches
    BY DEF Dated
  <2> QED BY <1>1, <2>1, KycAssumption, FS_Subset, FS_CardinalityType DEF Dated
<1>3. createdAt'[b] = 1 + Cardinality(Dated) /\ \A c \in Batches \ {b} : createdAt'[c] = createdAt[c]
  BY <1>1 DEF KycInv, KycTypeOK
<1>4. \A c \in Batches : createdAt'[c] <= 1 + Cardinality(Dated)
  BY <1>2, <1>3 DEF DateInv, KycInv, KycTypeOK
<1>5. Dated' = Dated \cup {b}
  BY <1>2, <1>3 DEF Dated
<1>6. Cardinality(Dated') = 1 + Cardinality(Dated)
  BY <1>2, <1>5, FS_AddElement
<1> QED BY <1>3, <1>4, <1>6 DEF DateInv

\* Nothing else of a submission touches the dates, the rows or the rejections.
LEMMA UploadKeeps ==
    ASSUME KycInv, NEW b \in Batches, ~InsertRows(b),
           (\E faces \in SUBSET Faces : StartUpload(b, faces)) \/ Upload(b) \/ UploadAborts(b)
    PROVE  /\ UNCHANGED <<createdAt, rows, rejected, review, overtaken>>
           /\ MarkSubmitted(b) \/ kyc' = kyc
           /\ \A c \in Batches \ {b} : upload'[c] = upload[c]
           /\ upload[b].step = "listed" => MarkSubmitted(b) \/ UploadAborts(b)
BY DEF StartUpload, Upload, PutFace, PutFails, CleanFaces, MarkSubmitted, UploadAborts, kycTables,
   kycHistory, reviewHistory, KycInv, KycTypeOK

\* The purge touches the rows only.
LEMMA PurgeKeeps ==
    ASSUME KycInv, Purge \/ PurgeFails \/ PurgeDies
    PROVE  /\ UNCHANGED <<kyc, createdAt, rejected, upload, review, overtaken>>
           /\ \A b \in Batches : rows'[b] \subseteq rows[b]
<1>1. UNCHANGED <<kyc, createdAt, rejected, upload, review, overtaken>>
  BY DEF Purge, PurgeStart, PurgeObject, PurgeRow, PurgeFails, PurgeDies, kycTables, kycHistory,
     reviewHistory
<1>2. rows' = rows \/ rows' = [rows EXCEPT ![purge.batch] = @ \ purge.gone]
  BY DEF Purge, PurgeStart, PurgeObject, PurgeRow, PurgeFails, PurgeDies, kycTables
<1> QED BY <1>1, <1>2 DEF KycInv, KycTypeOK

LEMMA DateStep == KycInv /\ DateInv /\ [KycNext]_kycVars => DateInv'
<1> SUFFICES ASSUME KycInv, DateInv, [KycNext]_kycVars
             PROVE  DateInv'
  OBVIOUS
<1>1. CASE createdAt' = createdAt
  BY <1>1 DEF DateInv, Dated
<1>2. CASE \E b \in Batches : InsertRows(b)
  BY <1>2, InsertedIsLast
<1>3. CASE ~ \E b \in Batches : InsertRows(b)
  <2>1. CASE UNCHANGED kycVars
    BY <1>1, <2>1 DEF kycVars, kycTables
  <2>2. ASSUME NEW h \in Reviewers,
               \/ \E op \in {"approve", "reject"}, b \in Batches, f \in Faces : ReviewRead(h, op, b, f)
               \/ Review(h)
               \/ ReviewAborts(h)
        PROVE  createdAt' = createdAt
    BY <2>2 DEF ReviewRead, Review, ReviewCheck, Approve, Reject, EnqueuePurge, ReviewAborts, kycTables
  <2> QED BY <1>1, <1>3, <2>1, <2>2, UploadKeeps, PurgeKeeps DEF KycNext
<1> QED BY <1>2, <1>3

LEMMA StandStep == KycInv /\ StandInv /\ [KycNext]_kycVars => StandInv'
<1> SUFFICES ASSUME KycInv, StandInv, [KycNext]_kycVars
             PROVE  StandInv'
  OBVIOUS
<1>1. CASE UNCHANGED <<createdAt, rows, rejected, review, overtaken>>
  BY <1>1 DEF StandInv, Later
<1>2. ASSUME NEW b \in Batches, InsertRows(b)
      PROVE  StandInv'
  <2>1. /\ UNCHANGED <<review, rejected>>
        /\ overtaken' = overtaken \cup
              {h \in Reviewers : review[h] # NoReview /\ review[h].step = "checked"}
    BY <1>2 DEF InsertRows
  <2> QED BY <2>1 DEF StandInv
<1>3. ASSUME NEW h \in Reviewers,
             NEW op \in {"approve", "reject"}, NEW b \in Batches, NEW f \in Faces, ReviewRead(h, op, b, f)
      PROVE  StandInv'
  <2>1. /\ UNCHANGED <<createdAt, rows, rejected, overtaken>> /\ b \notin rejected
        /\ review'[h].step = "read" /\ review'[h].batch = b
        /\ \A g \in Reviewers \ {h} : review'[g] = review[g]
    BY <1>3 DEF ReviewRead, kycTables, kycHistory, reviewHistory, KycInv, KycTypeOK
  <2> QED BY <2>1 DEF StandInv, Later
<1>4. ASSUME NEW h \in Reviewers, EndReview(h), UNCHANGED <<createdAt, rows, rejected>>
      PROVE  StandInv'
  <2>1. /\ review'[h] = NoReview /\ overtaken' = overtaken \ {h}
        /\ \A g \in Reviewers \ {h} : review'[g] = review[g]
    BY <1>4 DEF EndReview, KycInv, KycTypeOK
  <2> QED BY <1>4, <2>1 DEF StandInv, Later
<1>5. ASSUME NEW h \in Reviewers, ReviewCheck(h)
      PROVE  StandInv'
  <2>1. CASE IsLatest(review[h].batch)
    <3>1. /\ UNCHANGED <<createdAt, rows, rejected, overtaken>>
          /\ review[h] # NoReview /\ review[h].step = "read"
          /\ review'[h].step = "checked" /\ review'[h].batch = review[h].batch
          /\ \A g \in Reviewers \ {h} : review'[g] = review[g]
      BY <1>5, <2>1, ReviewFields DEF ReviewCheck, kycTables, KycInv, KycTypeOK, ReviewRecords
    <3>2. \A c \in Later(review[h].batch) : rows[c] = {}
      <4>1. review[h].batch \in Batches
        BY <3>1, ReviewFields DEF KycInv
      <4> QED BY <2>1, <4>1 DEF IsLatest, Later, KycInv, KycTypeOK
    <3> QED BY <3>1, <3>2 DEF StandInv, Later
  <2>2. CASE ~IsLatest(review[h].batch)
    BY <1>4, <1>5, <2>2 DEF ReviewCheck, kycTables
  <2> QED BY <2>1, <2>2
<1>6. ASSUME NEW h \in Reviewers, Reject(h)
      PROVE  StandInv'
  <2>1. /\ UNCHANGED <<createdAt, rows>>
        /\ rejected' = rejected \cup {review[h].batch}
        /\ overtaken' = overtaken \cup
              {g \in Reviewers \ {h} : review[g] # NoReview /\ review[g].batch = review[h].batch}
        /\ review'[h].step = "written"
        /\ \A g \in Reviewers \ {h} : review'[g] = review[g]
    BY <1>6, ReviewFields DEF Reject, OvertakeReviews, KycInv, KycTypeOK, ReviewRecords
  <2> QED BY <2>1 DEF StandInv, Later
<1>7. ASSUME NEW h \in Reviewers, Approve(h) \/ EnqueuePurge(h) \/ ReviewAborts(h)
      PROVE  StandInv'
  BY <1>4, <1>7 DEF Approve, EnqueuePurge, ReviewAborts, kycTables
<1>8. CASE Purge \/ PurgeFails \/ PurgeDies
  BY <1>8, PurgeKeeps DEF StandInv, Later
<1>9. CASE UNCHANGED kycVars
  BY <1>1, <1>9 DEF kycVars, kycTables, kycHistory, reviewHistory
<1> QED
  BY <1>1, <1>2, <1>3, <1>5, <1>6, <1>7, <1>8, <1>9, UploadKeeps DEF KycNext, Review

\* An approval that nothing overtook leaves the account on its last
\* submission, unless the later ones have been purged.
LEMMA ApprovalStands ==
    ASSUME KycInv, StandInv, NEW h \in Reviewers, Approve(h), h \notin overtaken,
           ~Revived(review[h].batch)
    PROVE  Backed'
<1> DEFINE b == review[h].batch
<1>1. /\ review[h] # NoReview /\ review[h].step = "checked"
      /\ UNCHANGED <<createdAt, rows, rejected, upload>>
  BY DEF Approve
<1>2. b \in Batches /\ b \notin rejected /\ \A c \in Later(b) : rows[c] = {}
  BY <1>1, ReviewFields DEF StandInv, KycInv
<1>3. createdAt[b] > 0 /\ rows[b] # {}
  BY <1>1, <1>2 DEF KycInv, ReviewInv, RowInv
<1>4. \A c \in Batches : createdAt[c] <= createdAt[b]
  BY <1>2 DEF Revived, Later, KycInv, KycTypeOK
<1> QED BY <1>1, <1>2, <1>3, <1>4 DEF Backed

\* A validated account stands on its last submission, but for an approval
\* that was overtaken or that revives an older batch, and for the death of a
\* submission before the status (approve, uploadKyc).
THEOREM ValidatedOnLastBatch == KycSpec => UnbackedInNamedWaysOnly
<1> DEFINE Named == \/ \E h \in Reviewers :
                         Approve(h) /\ (h \in overtaken \/ Revived(review[h].batch))
                    \/ \E b \in Batches : UploadAborts(b) /\ upload[b].step = "listed"
<1>1. KycInit => DateInv /\ StandInv
  <2> SUFFICES ASSUME KycInit PROVE DateInv /\ StandInv
    OBVIOUS
  <2>1. Dated = {} /\ Cardinality(Dated) = 0
    BY FS_EmptySet DEF KycInit, Dated
  <2> QED BY <2>1 DEF KycInit, DateInv, StandInv
<1>2. KycInv /\ KycInv' /\ DateInv /\ StandInv /\ [KycNext]_kycVars =>
         [Backed /\ ~Backed' => Named]_kycVars
  <2> SUFFICES ASSUME KycInv, KycInv', DateInv, StandInv, KycNext, Backed, ~Backed', ~Named
               PROVE  FALSE
    BY DEF Backed, kycVars, kycTables
  <2>1. kyc' = "VALIDE"
    BY DEF Backed
  <2>2. kyc' = kyc => \E b \in Batches :
                         /\ \A c \in Batches : createdAt[c] <= createdAt[b]
                         /\ upload[b].step = "listed" \/ (rows[b] # {} /\ b \notin rejected)
    BY <2>1 DEF Backed
  <2>3. ASSUME NEW b \in Batches, InsertRows(b)
        PROVE  FALSE
    <3>1. upload'[b].step = "listed"
      BY <2>3 DEF InsertRows, KycInv, KycTypeOK, UploadRecords
    <3> QED BY <2>3, <3>1, InsertedIsLast DEF Backed
  <2>4. ASSUME NEW b \in Batches, ~InsertRows(b),
               (\E faces \in SUBSET Faces : StartUpload(b, faces)) \/ Upload(b) \/ UploadAborts(b)
        PROVE  FALSE
    <3>1. ~MarkSubmitted(b)
      BY <2>1 DEF MarkSubmitted
    <3>2. /\ kyc' = kyc /\ UNCHANGED <<createdAt, rows, rejected>>
          /\ \A c \in Batches : upload[c].step = "listed" => upload'[c].step = "listed"
      BY <2>4, <3>1, UploadKeeps
    <3> QED BY <2>2, <3>2 DEF Backed
  <2>5. ASSUME NEW h \in Reviewers, ~Approve(h),
               \/ \E op \in {"approve", "reject"}, b \in Batches, f \in Faces : ReviewRead(h, op, b, f)
               \/ Review(h)
               \/ ReviewAborts(h)
        PROVE  FALSE
    <3>1. ~Reject(h)
      BY <2>1 DEF Reject
    <3>2. kyc' = kyc /\ UNCHANGED <<createdAt, rows, rejected, upload>>
      BY <2>5, <3>1 DEF ReviewRead, Review, ReviewCheck, EnqueuePurge, ReviewAborts, kycTables
    <3> QED BY <2>2, <3>2 DEF Backed
  <2>6. ASSUME NEW h \in Reviewers, Approve(h)
        PROVE  FALSE
    BY <2>6, ApprovalStands
  <2>7. CASE Purge \/ PurgeFails \/ PurgeDies
    <3>1. UNCHANGED <<kyc, createdAt, rejected, upload>>
      BY <2>7, PurgeKeeps
    <3>2. \A b \in Batches : rows[b] # {} /\ b \notin rejected => rows'[b] # {}
      BY <3>1 DEF KycInv, RowInv, KycTypeOK
    <3> QED BY <2>2, <3>1, <3>2 DEF Backed
  <2> QED BY <2>3, <2>4, <2>5, <2>6, <2>7 DEF KycNext
<1> QED
  BY <1>1, <1>2, DateStep, StandStep, KycInvariant, PTL DEF KycSpec, UnbackedInNamedWaysOnly

=============================================================================
