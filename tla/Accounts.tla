------------------------------ MODULE Accounts ------------------------------
(***************************************************************************)
(* The internal user and the API tokens: first setup, login, change of     *)
(* password, update of the profile, tokens and their end, the reset from   *)
(* the command line.  Handlers read and write whole rows of the users      *)
(* table, without transactions; every database call is a step.             *)
(***************************************************************************)
EXTENDS Naturals

CONSTANTS
  Slots,              \* requests that may be open at a time
  Passwords, Names, Tokens,
  None,
  MaxEvents           \* bound: requests, failures and expiries together

ASSUME NoneAssumption == None \notin Passwords \cup Names \cup Tokens
ASSUME BoundAssumption == MaxEvents \in Nat

VARIABLES
  user,       \* the row of the internal user
  tokens,     \* the api_tokens table
  op          \* the open requests

(* Observations: no action reads them, except for the bound. *)
VARIABLES
  last,       \* the password and the name that were written last
  met,        \* which kinds of request have been open together
  events

vars == <<user, tokens, op, last, met, events>>

\* A login turns "forced" when it finds that the password has to be set.
Kinds == {"login", "forced", "change", "profile", "issue", "revoke", "reset"}
SetPassword == {"forced", "change", "reset"}

User == [there: BOOLEAN, pass: Passwords \cup {None}, name: Names \cup {None}, force: BOOLEAN]
NoUser == [there |-> FALSE, pass |-> None, name |-> None, force |-> FALSE]

\* A session ends by itself, a lasting token does not.
TokenStates == {"new", "session", "lasting", "dead"}

Phases == {"idle", "auth", "user", "admin", "create", "verify", "fetch", "write", "issue", "revoke"}

\* pass: the password given; new: the one to be set, ok: whether it is strong
\* enough and confirmed; row: the user as read.
Op == [kind: Kinds, phase: Phases, token: Tokens \cup {None}, pass: Passwords \cup {None},
       new: Passwords \cup {None}, ok: BOOLEAN, name: Names \cup {None}, row: User]
Idle == [kind |-> "login", phase |-> "idle", token |-> None, pass |-> None, new |-> None,
         ok |-> FALSE, name |-> None, row |-> NoUser]

At(p, ph) == op[p].phase = ph
Go(p, ph) == op' = [op EXCEPT ![p].phase = ph]
End(p) == op' = [op EXCEPT ![p] = Idle]
Open == {p \in Slots : ~At(p, "idle")}
Meet(p, k) == met' = met \cup {{k, op[q].kind} : q \in Open \ {p}}

----------------------------------------------------------------------------
(* Requests come in: with or without a token. *)

Ask(p, o) ==
  /\ At(p, "idle") /\ events < MaxEvents
  /\ events' = events + 1
  /\ op' = [op EXCEPT ![p] = o]
  /\ Meet(p, o.kind)
  /\ UNCHANGED <<user, tokens, last>>

AskLogin(p, w, ok) ==
  Ask(p, [Idle EXCEPT !.phase = "admin", !.pass = w, !.new = w, !.ok = ok])
AskReset(p, w) ==
  Ask(p, [Idle EXCEPT !.kind = "reset", !.phase = "admin", !.new = w, !.ok = TRUE])

Signed(k, t) == [Idle EXCEPT !.kind = k, !.phase = "auth", !.token = t]

AskChange(p, t, w, new, ok) ==
  Ask(p, [Signed("change", t) EXCEPT !.pass = w, !.new = new, !.ok = ok])
AskProfile(p, t, n) == Ask(p, [Signed("profile", t) EXCEPT !.name = n])
AskToken(p, t, k) == Ask(p, Signed(k, t))

----------------------------------------------------------------------------
(* authMiddleware. *)

GetTokenByValue(p) ==
  /\ At(p, "auth")
  /\ IF tokens[op[p].token] \in {"session", "lasting"} THEN Go(p, "user") ELSE End(p)
  /\ UNCHANGED <<user, tokens, last, met, events>>

AfterUser(k) == CASE k = "change" -> "verify"
              [] k = "revoke" -> "revoke"
              [] OTHER        -> "admin"

\* Mutant: a password that has to be set does not bar the way.
GetUserForced(p) ==
  /\ At(p, "user")
  /\ IF user.there THEN Go(p, AfterUser(op[p].kind)) ELSE End(p)
  /\ UNCHANGED <<user, tokens, last, met, events>>

GetUserByID(p) ==
  /\ At(p, "user")
  /\ IF user.there /\ ~user.force THEN Go(p, AfterUser(op[p].kind)) ELSE End(p)
  /\ UNCHANGED <<user, tokens, last, met, events>>

----------------------------------------------------------------------------
(* handleLogin. *)

\* No admin: a first setup, and any error in looking for one counts as that.
FirstSetup(p) ==
  /\ At(p, "admin") /\ op[p].kind = "login"
  /\ \/ ~user.there /\ UNCHANGED events
     \/ events < MaxEvents /\ events' = events + 1
  /\ IF op[p].ok THEN Go(p, "create") ELSE End(p)
  /\ UNCHANGED <<user, tokens, last, met>>

PasswordLogin(p) ==
  /\ At(p, "admin") /\ op[p].kind = "login" /\ user.there /\ ~user.force
  /\ IF op[p].pass = user.pass THEN Go(p, "issue") ELSE End(p)
  /\ UNCHANGED <<user, tokens, last, met, events>>

ForcedLogin(p) ==
  /\ At(p, "admin") /\ op[p].kind = "login" /\ user.there /\ user.force
  /\ IF op[p].ok
     THEN op' = [op EXCEPT ![p].kind = "forced", ![p].phase = "fetch"] /\ Meet(p, "forced")
     ELSE End(p) /\ UNCHANGED met
  /\ UNCHANGED <<user, tokens, last, events>>

\* Mutant: a user who is there already counts as made.
CreateUserOnce(p) ==
  /\ At(p, "create")
  /\ \E n \in Names :
       /\ user' = IF user.there THEN user
                  ELSE [there |-> TRUE, pass |-> op[p].pass, name |-> n, force |-> FALSE]
       /\ last' = IF user.there THEN last ELSE [pass |-> op[p].pass, name |-> n]
  /\ Go(p, "issue")
  /\ UNCHANGED <<tokens, met, events>>

\* The name of the user is fixed and unique: a second setup fails.
CreateUser(p) ==
  /\ At(p, "create")
  /\ IF user.there
     THEN End(p) /\ UNCHANGED <<user, last>>
     ELSE /\ \E n \in Names :
               /\ user' = [there |-> TRUE, pass |-> op[p].pass, name |-> n, force |-> FALSE]
               /\ last' = [pass |-> op[p].pass, name |-> n]
          /\ Go(p, "issue")
  /\ UNCHANGED <<tokens, met, events>>

----------------------------------------------------------------------------
(* Changes of the row. *)

\* handleUsers, handleTokens and the command line look for the admin.
FindAdmin(p) ==
  /\ At(p, "admin") /\ op[p].kind # "login"
  /\ LET next == CASE op[p].kind = "profile" -> "write"
                   [] op[p].kind = "issue"   -> "issue"
                   [] OTHER                  -> "fetch"
     IN IF user.there THEN op' = [op EXCEPT ![p].phase = next, ![p].row = user] ELSE End(p)
  /\ UNCHANGED <<user, tokens, last, met, events>>

\* Mutant: any current password will do.
VerifyNothing(p) ==
  /\ At(p, "verify")
  /\ IF op[p].ok THEN Go(p, "fetch") ELSE End(p)
  /\ UNCHANGED <<user, tokens, last, met, events>>

\* ChangePasswordWithCurrent, and the strength of the new password.
VerifyCurrent(p) ==
  /\ At(p, "verify")
  /\ IF op[p].pass = user.pass /\ op[p].ok THEN Go(p, "fetch") ELSE End(p)
  /\ UNCHANGED <<user, tokens, last, met, events>>

\* ChangePassword reads the user again.
FetchUser(p) ==
  /\ At(p, "fetch")
  /\ op' = [op EXCEPT ![p].phase = "write", ![p].row = user]
  /\ UNCHANGED <<user, tokens, last, met, events>>

\* Mutant: a profile is written without the password.
UpdateUserBare(p) ==
  LET o == op[p]
      row == IF o.kind = "profile" THEN [o.row EXCEPT !.name = o.name, !.pass = None]
             ELSE [o.row EXCEPT !.pass = o.new, !.force = FALSE]
  IN /\ At(p, "write")
     /\ user' = row
     /\ last' = IF o.kind = "profile" THEN [last EXCEPT !.name = o.name]
                ELSE [last EXCEPT !.pass = o.new]
     /\ IF o.kind = "forced" THEN Go(p, "issue") ELSE End(p)
     /\ UNCHANGED <<tokens, met, events>>

\* UpdateUser writes every column of the row that was read.
UpdateUser(p) ==
  LET o == op[p]
      row == IF o.kind = "profile" THEN [o.row EXCEPT !.name = o.name]
             ELSE [o.row EXCEPT !.pass = o.new, !.force = FALSE]
  IN /\ At(p, "write")
     /\ user' = row
     /\ last' = IF o.kind = "profile" THEN [last EXCEPT !.name = o.name]
                ELSE [last EXCEPT !.pass = o.new]
     /\ IF o.kind = "forced" THEN Go(p, "issue") ELSE End(p)
     /\ UNCHANGED <<tokens, met, events>>

----------------------------------------------------------------------------
(* Tokens. *)

\* A login makes a session of 24 hours, a request for a token either.
CreateToken(p) ==
  /\ At(p, "issue")
  /\ \E t \in Tokens, s \in IF op[p].kind = "issue" THEN {"session", "lasting"} ELSE {"session"} :
       tokens[t] = "new" /\ tokens' = [tokens EXCEPT ![t] = s]
  /\ End(p)
  /\ UNCHANGED <<user, last, met, events>>

\* The token ends, whatever requests it has let in.
Die(t) == tokens' = [tokens EXCEPT ![t] = IF @ = "new" THEN @ ELSE "dead"]

\* An identifier that is not in the table is answered with success, too.
RevokeToken(p, t) ==
  /\ At(p, "revoke")
  /\ Die(t)
  /\ End(p)
  /\ UNCHANGED <<user, last, met, events>>

Expire(t) ==
  /\ tokens[t] = "session" /\ events < MaxEvents
  /\ Die(t)
  /\ events' = events + 1
  /\ UNCHANGED <<user, op, last, met>>

\* A database call fails, and the request with it.
Fail(p) ==
  /\ ~At(p, "idle") /\ events < MaxEvents
  /\ events' = events + 1
  /\ End(p)
  /\ UNCHANGED <<user, tokens, last, met>>

----------------------------------------------------------------------------
\* An installation without a user, or one whose password has to be set, with
\* or without a token from before.
Init ==
  /\ \E n \in Names, w \in Passwords :
       user \in {NoUser, [there |-> TRUE, pass |-> w, name |-> n, force |-> TRUE]}
  /\ tokens \in [Tokens -> {"new"} \cup (IF user.there THEN {"lasting"} ELSE {})]
  /\ \E t \in Tokens : tokens[t] = "new"
  /\ op = [p \in Slots |-> Idle]
  /\ last = [pass |-> user.pass, name |-> user.name]
  /\ met = {} /\ events = 0

Requests(p) ==
  \/ \E w \in Passwords : AskReset(p, w) \/ \E ok \in BOOLEAN : AskLogin(p, w, ok)
  \/ \E t \in Tokens :
       \/ \E w, new \in Passwords, ok \in BOOLEAN : AskChange(p, t, w, new, ok)
       \/ \E n \in Names : AskProfile(p, t, n)
       \/ \E k \in {"issue", "revoke"} : AskToken(p, t, k)

Admission(p) == GetTokenByValue(p) \/ GetUserByID(p)
Login(p) == FirstSetup(p) \/ PasswordLogin(p) \/ ForcedLogin(p) \/ CreateUser(p)
Change(p) == FindAdmin(p) \/ VerifyCurrent(p) \/ FetchUser(p) \/ UpdateUser(p)
TokenStep(p) == CreateToken(p) \/ \E t \in Tokens : RevokeToken(p, t)

Next ==
  \/ \E p \in Slots :
       Requests(p) \/ Admission(p) \/ Login(p) \/ Change(p) \/ TokenStep(p) \/ Fail(p)
  \/ \E t \in Tokens : Expire(t)

Spec == Init /\ [][Next]_vars

----------------------------------------------------------------------------
(* Properties. *)

Met(A, B) == \E a \in A, b \in B : {a, b} \in met

TypeOK ==
  /\ user \in User
  /\ tokens \in [Tokens -> TokenStates]
  /\ op \in [Slots -> Op]
  /\ last \in [pass: Passwords \cup {None}, name: Names \cup {None}]
  /\ met \subseteq SUBSET Kinds
  /\ events \in Nat

\* The row holds the password and the name that were set last.  Both are
\* written together, as they were read: an update of the profile that overlaps
\* with a new password loses one of the two, and nothing else does.
NothingLost ==
  [pass |-> user.pass, name |-> user.name] = last \/ Met({"profile"}, SetPassword)

\* A login that is answered with a token gave the password in force, even when
\* two first setups run into each other.
LoginKnows ==
  [][\A p \in Slots : CreateToken(p) /\ op[p].kind \in {"login", "forced"} =>
       \/ op[p].pass = user.pass
       \/ Met({"login", "forced"}, SetPassword \cup {"profile"})]_vars

\* A change replaces the password it proved, unless another write came between
\* the proof and the change.
ProvenChange ==
  [][\A p \in Slots : UpdateUser(p) /\ op[p].kind = "change" =>
       op[p].pass = user.pass \/ Met({"change"}, SetPassword \cup {"profile"})]_vars

\* A password that had to be set is set once: no whole-row write brings the
\* demand back, because no request with a token gets past it while it stands.
ForcedIsOver == [][user.there /\ ~user.force => user'.there /\ ~user'.force]_vars
=============================================================================
