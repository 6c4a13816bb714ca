--------------------------- MODULE AccountsProofs ---------------------------
(***************************************************************************)
(* Proofs about Accounts, for any requests, passwords, names and tokens:   *)
(* one inductive invariant, which says of every open request what it has   *)
(* seen of the row of the user and whether that still holds.               *)
(***************************************************************************)
EXTENDS Accounts, TLAPS

----------------------------------------------------------------------------
(* The invariant. *)

\* The overlaps that the properties name.
Lost == Met({"profile"}, SetPassword)
Shadowed == Met({"change"}, SetPassword \cup {"profile"})
Outrun == Met({"login", "forced"}, SetPassword \cup {"profile"})

\* Where a request of each kind can be.
Placed(o) ==
  /\ o.phase = "create" => o.kind = "login"
  /\ o.phase \in {"auth", "user"} => o.kind \in {"change", "profile", "issue", "revoke"}
  /\ o.phase = "verify" => o.kind = "change"
  /\ o.phase = "fetch" => o.kind \in SetPassword
  /\ o.phase = "write" => o.kind \in SetPassword \cup {"profile"}
  /\ o.phase = "admin" => o.kind \in {"login", "reset", "profile", "issue"}
  /\ o.kind \in {"login", "forced"} => o.new = o.pass

\* A request that is past the look for the user found one.
Present(o) ==
  /\ o.phase \in {"verify", "fetch", "write", "issue"} => user.there
  /\ o.phase = "write" => o.row.there

\* A request for the profile that is past authMiddleware never meets a user
\* whose password has to be set.
Admitted(o) ==
  /\ o.kind = "profile" /\ o.phase \in {"admin", "write"} => user.there /\ ~user.force
  /\ o.kind = "profile" /\ o.phase = "write" => ~o.row.force

\* The column that a whole-row write leaves alone is as it was read.
Current(o) ==
  o.phase = "write" => \/ Lost
                       \/ /\ o.kind = "profile" => o.row.pass = user.pass
                          /\ o.kind \in SetPassword => o.row.name = user.name

\* What a request has proved still holds.
Proved(o) ==
  /\ o.kind = "change" /\ o.phase \in {"fetch", "write"} => o.pass = user.pass \/ Shadowed
  /\ o.kind \in {"login", "forced"} /\ o.phase = "issue" => o.pass = user.pass \/ Outrun

Sound(o) == Placed(o) /\ Present(o) /\ Admitted(o) /\ Current(o) /\ Proved(o)

\* Requests that are open together are noted.
Noted == \A p, q \in Open : p # q => {op[p].kind, op[q].kind} \in met

IInv == TypeOK /\ NothingLost /\ Noted /\ \A p \in Slots : Sound(op[p])

----------------------------------------------------------------------------
(* What has met stays so. *)

LEMMA MetGrows ==
  ASSUME met \subseteq met'
  PROVE  (Lost => Lost') /\ (Shadowed => Shadowed') /\ (Outrun => Outrun')
BY DEF Lost, Shadowed, Outrun, Met

\* Two open requests of these kinds are an overlap that a property names.
LEMMA Together ==
  ASSUME Noted, NEW p \in Open, NEW q \in Open, p # q,
         op[p].kind \in SetPassword \cup {"profile"}
  PROVE  /\ op[p].kind = "profile" /\ op[q].kind \in SetPassword => Lost
         /\ op[p].kind \in SetPassword /\ op[q].kind = "profile" => Lost
         /\ op[q].kind = "change" => Shadowed
         /\ op[q].kind \in {"login", "forced"} => Outrun
<1>1. {op[p].kind, op[q].kind} \in met /\ {op[q].kind, op[p].kind} \in met
  BY DEF Noted
<1>2. QED
  BY <1>1 DEF Lost, Shadowed, Outrun, Met

\* A step that leaves the user alone and moves one request to a sound place.
LEMMA Moves ==
  ASSUME IInv, NEW p \in Slots, NEW o \in Op,
         op' = [op EXCEPT ![p] = o], UNCHANGED <<user, last>>, met \subseteq met',
         tokens' \in [Tokens -> TokenStates], met' \subseteq SUBSET Kinds, events' \in Nat,
         Sound(o),
         o.phase # "idle" => \A q \in Open : q # p => {o.kind, op[q].kind} \in met'
  PROVE  IInv'
<1>1. TypeOK'
  BY DEF IInv, TypeOK
<1>2. NothingLost'
  <2>1. CASE Lost
    BY <2>1, MetGrows DEF NothingLost, Lost
  <2>2. CASE [pass |-> user.pass, name |-> user.name] = last
    BY <2>2 DEF NothingLost
  <2>3. QED
    BY <2>1, <2>2 DEF IInv, NothingLost, Lost
<1>3. Noted'
  <2> SUFFICES ASSUME NEW q \in Slots, NEW r \in Slots, q # r,
                      op'[q].phase # "idle", op'[r].phase # "idle"
               PROVE  {op'[q].kind, op'[r].kind} \in met'
    BY DEF Noted, Open, At
  <2>1. op'[p] = o /\ \A s \in Slots : s # p => op'[s] = op[s]
    BY DEF IInv, TypeOK
  <2>2. CASE q = p
    BY <2>1, <2>2 DEF Open, At
  <2>3. CASE r = p
    <3>1. {o.kind, op[q].kind} \in met'
      BY <2>1, <2>3 DEF Open, At
    <3>2. {o.kind, op[q].kind} = {op'[q].kind, op'[r].kind}
      BY <2>1, <2>3
    <3>3. QED
      BY <3>1, <3>2
  <2>4. CASE q # p /\ r # p
    BY <2>1, <2>4 DEF IInv, Noted, Open, At
  <2>5. QED
    BY <2>2, <2>3, <2>4
<1>4. ASSUME NEW q \in Slots PROVE Sound(op[q])'
  <2>1. \A s \in Op : Sound(s) => Placed(s) /\ Present(s)' /\ Admitted(s)'
    BY DEF Sound, Present, Admitted
  <2>2. ASSUME NEW s \in Op, Sound(s) PROVE Current(s)' /\ Proved(s)'
    BY <2>2, MetGrows DEF Sound, Current, Proved
  <2>3. op[q] \in Op /\ Sound(op[q])
    BY DEF IInv, TypeOK
  <2>4. PICK s \in Op : s = op'[q] /\ Sound(s)
    BY <2>3 DEF IInv, TypeOK
  <2>5. Sound(s)'
    BY <2>1, <2>2, <2>4 DEF Sound, Placed
  <2>6. QED
    BY <2>4, <2>5 DEF Sound, Placed, Present, Admitted, Current, Proved
<1>5. QED
  BY <1>1, <1>2, <1>3, <1>4 DEF IInv

\* A request that has ended says nothing of the user.
LEMMA IdleIsSound == Idle \in Op /\ Sound(Idle)
BY DEF Idle, Op, NoUser, User, Kinds, Phases, SetPassword,
       Sound, Placed, Present, Admitted, Current, Proved

LEMMA Ends ==
  ASSUME IInv, NEW p \in Slots, End(p), UNCHANGED <<user, last>>, met \subseteq met',
         tokens' \in [Tokens -> TokenStates], met' \subseteq SUBSET Kinds, events' \in Nat
  PROVE  IInv'
<1>1. PICK o \in Op : o = Idle
  BY IdleIsSound
<1>2. op' = [op EXCEPT ![p] = o] /\ Sound(o) /\ o.phase = "idle"
  BY <1>1, IdleIsSound DEF End, Idle, Sound, Placed, Present, Admitted, Current, Proved
<1>3. QED
  BY <1>1, <1>2, Moves

\* A request that goes on has been noted already.
LEMMA Advances ==
  ASSUME IInv, NEW p \in Slots, ~At(p, "idle"), NEW ph \in Phases, NEW row \in User,
         op' = [op EXCEPT ![p] = [op[p] EXCEPT !.phase = ph, !.row = row]],
         UNCHANGED <<user, last, met>>,
         tokens' \in [Tokens -> TokenStates], events' \in Nat,
         Sound([op[p] EXCEPT !.phase = ph, !.row = row])
  PROVE  IInv'
<1>1. op[p] \in Op
  BY DEF IInv, TypeOK
<1>2. PICK o \in Op : o = [op[p] EXCEPT !.phase = ph, !.row = row]
  BY <1>1 DEF Op
<1>3. o.kind = op[p].kind
  BY <1>1, <1>2 DEF Op
<1>4. Sound(o)
  BY <1>2
<1>5. \A q \in Open : q # p => {o.kind, op[q].kind} \in met'
  BY <1>3 DEF IInv, Noted, Open
<1>6. op' = [op EXCEPT ![p] = o] /\ met \subseteq met' /\ met' \subseteq SUBSET Kinds
  BY <1>2 DEF IInv, TypeOK
<1>7. QED
  BY <1>2, <1>4, <1>5, <1>6, Moves

\* The same for a request that keeps the row it holds.
LEMMA Goes ==
  ASSUME IInv, NEW p \in Slots, ~At(p, "idle"), NEW ph \in Phases, Go(p, ph),
         UNCHANGED <<user, last, met>>,
         tokens' \in [Tokens -> TokenStates], events' \in Nat,
         Sound([op[p] EXCEPT !.phase = ph])
  PROVE  IInv'
<1>1. op[p] \in Op /\ op[p].row \in User
  BY DEF IInv, TypeOK, Op
<1>2. [op[p] EXCEPT !.phase = ph, !.row = op[p].row] = [op[p] EXCEPT !.phase = ph]
  BY <1>1 DEF Op
<1>3. op' = [op EXCEPT ![p] = [op[p] EXCEPT !.phase = ph, !.row = op[p].row]]
  BY <1>2 DEF Go
<1>4. PICK row \in User : row = op[p].row
  BY <1>1
<1>5. QED
  BY <1>2, <1>3, <1>4, Advances

----------------------------------------------------------------------------
(* Requests come in. *)

LEMMA Asked ==
  ASSUME IInv, NEW p \in Slots, NEW o \in Op, Ask(p, o), Sound(o)
  PROVE  IInv'
<1>1. PICK r \in Op : r = o
  OBVIOUS
<1>2. op' = [op EXCEPT ![p] = r] /\ Sound(r)
  BY <1>1 DEF Ask
<1>3. met \subseteq met' /\ \A q \in Open : q # p => {r.kind, op[q].kind} \in met'
  BY <1>1 DEF Ask, Meet
<1>4. met' \subseteq SUBSET Kinds
  <2>1. \A q \in Slots : op[q].kind \in Kinds
    BY DEF IInv, TypeOK, Op
  <2>2. r.kind \in Kinds
    BY DEF Op
  <2>3. QED
    BY <1>1, <2>1, <2>2 DEF Ask, Meet, Open, IInv, TypeOK
<1>5. tokens' \in [Tokens -> TokenStates] /\ events' \in Nat /\ UNCHANGED <<user, last>>
  BY DEF Ask, IInv, TypeOK
<1>6. QED
  BY <1>2, <1>3, <1>4, <1>5, Moves

LEMMA RequestsKeep ==
  ASSUME IInv, NEW p \in Slots, Requests(p)
  PROVE  IInv'
<1> USE DEF Sound, Placed, Present, Admitted, Current, Proved
<1>1. ASSUME NEW w \in Passwords, AskReset(p, w) PROVE IInv'
  <2>1. PICK o : o = [Idle EXCEPT !.kind = "reset", !.phase = "admin", !.new = w, !.ok = TRUE]
    OBVIOUS
  <2>2. o \in Op /\ Sound(o)
    BY <2>1 DEF Idle, Op, NoUser, User, Kinds, Phases, SetPassword
  <2>3. Ask(p, o)
    BY <1>1, <2>1 DEF AskReset
  <2>4. QED
    BY <2>2, <2>3, Asked
<1>2. ASSUME NEW w \in Passwords, NEW ok \in BOOLEAN, AskLogin(p, w, ok) PROVE IInv'
  <2>1. PICK o : o = [Idle EXCEPT !.phase = "admin", !.pass = w, !.new = w, !.ok = ok]
    OBVIOUS
  <2>2. o \in Op /\ Sound(o)
    BY <2>1 DEF Idle, Op, NoUser, User, Kinds, Phases, SetPassword
  <2>3. Ask(p, o)
    BY <1>2, <2>1 DEF AskLogin
  <2>4. QED
    BY <2>2, <2>3, Asked
<1>3. ASSUME NEW t \in Tokens, NEW w \in Passwords, NEW new \in Passwords, NEW ok \in BOOLEAN,
             AskChange(p, t, w, new, ok)
      PROVE  IInv'
  <2>1. PICK o : o = [Signed("change", t) EXCEPT !.pass = w, !.new = new, !.ok = ok]
    OBVIOUS
  <2>2. o \in Op /\ Sound(o)
    BY <2>1 DEF Signed, Idle, Op, NoUser, User, Kinds, Phases, SetPassword
  <2>3. Ask(p, o)
    BY <1>3, <2>1 DEF AskChange
  <2>4. QED
    BY <2>2, <2>3, Asked
<1>4. ASSUME NEW t \in Tokens, NEW n \in Names, AskProfile(p, t, n) PROVE IInv'
  <2>1. PICK o : o = [Signed("profile", t) EXCEPT !.name = n]
    OBVIOUS
  <2>2. o \in Op /\ Sound(o)
    BY <2>1 DEF Signed, Idle, Op, NoUser, User, Kinds, Phases, SetPassword
  <2>3. Ask(p, o)
    BY <1>4, <2>1 DEF AskProfile
  <2>4. QED
    BY <2>2, <2>3, Asked
<1>5. ASSUME NEW t \in Tokens, NEW k \in {"issue", "revoke"}, AskToken(p, t, k) PROVE IInv'
  <2>1. PICK o : o = Signed(k, t)
    OBVIOUS
  <2>2. o \in Op /\ Sound(o)
    BY <2>1 DEF Signed, Idle, Op, NoUser, User, Kinds, Phases, SetPassword
  <2>3. Ask(p, o)
    BY <1>5, <2>1 DEF AskToken
  <2>4. QED
    BY <2>2, <2>3, Asked
<1>6. QED
  BY <1>1, <1>2, <1>3, <1>4, <1>5 DEF Requests

----------------------------------------------------------------------------
(* Steps that leave the user alone. *)

LEMMA AdmissionKeeps ==
  ASSUME IInv, NEW p \in Slots, Admission(p)
  PROVE  IInv'
<1>1. /\ op[p] \in Op /\ Sound(op[p])
      /\ met \subseteq met' /\ met' \subseteq SUBSET Kinds
      /\ tokens' \in [Tokens -> TokenStates] /\ events' \in Nat /\ UNCHANGED <<user, last, met>>
  BY DEF IInv, TypeOK, Admission, GetTokenByValue, GetUserByID
<1>2. CASE End(p)
  BY <1>1, <1>2, Ends
<1>3. CASE At(p, "auth") /\ Go(p, "user")
  <2>1. Sound([op[p] EXCEPT !.phase = "user"])
    BY <1>1, <1>3 DEF At, Op, Sound, Placed, Present, Admitted, Current, Proved
  <2>2. QED
    BY <1>1, <1>3, <2>1, Goes DEF At, Phases
<1>4. CASE At(p, "user") /\ user.there /\ ~user.force /\ Go(p, AfterUser(op[p].kind))
  <2>1. PICK ph \in Phases : ph = AfterUser(op[p].kind)
    BY <1>1, <1>4 DEF AfterUser, At, Sound, Placed, Phases
  <2>2. /\ op[p].kind = "change" => ph = "verify"
        /\ op[p].kind = "revoke" => ph = "revoke"
        /\ op[p].kind \in {"profile", "issue"} => ph = "admin"
    BY <2>1 DEF AfterUser
  <2>3. Sound([op[p] EXCEPT !.phase = ph])
    BY <1>1, <1>4, <2>2 DEF At, Op, Sound, Placed, Present, Admitted, Current, Proved
  <2>4. QED
    BY <1>1, <1>4, <2>1, <2>3, Goes DEF At
<1>5. QED
  BY <1>2, <1>3, <1>4 DEF Admission, GetTokenByValue, GetUserByID

LEMMA LookKeeps ==
  ASSUME IInv, NEW p \in Slots, FirstSetup(p) \/ PasswordLogin(p) \/ VerifyCurrent(p)
  PROVE  IInv'
<1>1. /\ op[p] \in Op /\ Sound(op[p])
      /\ met \subseteq met' /\ met' \subseteq SUBSET Kinds
      /\ tokens' \in [Tokens -> TokenStates] /\ events' \in Nat /\ UNCHANGED <<user, last, met>>
  BY DEF IInv, TypeOK, FirstSetup, PasswordLogin, VerifyCurrent
<1>2. CASE End(p)
  BY <1>1, <1>2, Ends
<1>3. CASE FirstSetup(p) /\ Go(p, "create")
  <2>1. Sound([op[p] EXCEPT !.phase = "create"]) /\ At(p, "admin")
    BY <1>1, <1>3 DEF FirstSetup, At, Op, Sound, Placed, Present, Admitted, Current, Proved
  <2>2. QED
    BY <1>1, <1>3, <2>1, Goes DEF At, Phases
<1>4. CASE PasswordLogin(p) /\ op[p].pass = user.pass /\ Go(p, "issue")
  <2>1. Sound([op[p] EXCEPT !.phase = "issue"]) /\ At(p, "admin")
    BY <1>1, <1>4 DEF PasswordLogin, At, Op, Sound, Placed, Present, Admitted, Current, Proved
  <2>2. QED
    BY <1>1, <1>4, <2>1, Goes DEF At, Phases
<1>5. CASE VerifyCurrent(p) /\ op[p].pass = user.pass /\ Go(p, "fetch")
  <2>1. Sound([op[p] EXCEPT !.phase = "fetch"]) /\ At(p, "verify")
    BY <1>1, <1>5
    DEF VerifyCurrent, At, Op, Sound, Placed, Present, Admitted, Current, Proved, SetPassword
  <2>2. QED
    BY <1>1, <1>5, <2>1, Goes DEF At, Phases
<1>6. QED
  BY <1>2, <1>3, <1>4, <1>5 DEF FirstSetup, PasswordLogin, VerifyCurrent

LEMMA ForcedLoginKeeps ==
  ASSUME IInv, NEW p \in Slots, ForcedLogin(p)
  PROVE  IInv'
<1>1. /\ op[p] \in Op /\ Sound(op[p])
      /\ tokens' \in [Tokens -> TokenStates] /\ events' \in Nat /\ UNCHANGED <<user, last>>
  BY DEF IInv, TypeOK, ForcedLogin
<1>2. CASE End(p) /\ UNCHANGED met
  BY <1>1, <1>2, Ends DEF IInv, TypeOK
<1>3. CASE op' = [op EXCEPT ![p].kind = "forced", ![p].phase = "fetch"] /\ Meet(p, "forced")
  <2>1. PICK o : o = [op[p] EXCEPT !.kind = "forced", !.phase = "fetch"]
    OBVIOUS
  <2>2. o \in Op /\ Sound(o)
    BY <1>1, <2>1
    DEF ForcedLogin, At, Op, Kinds, Phases, SetPassword,
        Sound, Placed, Present, Admitted, Current, Proved
  <2>3. op' = [op EXCEPT ![p] = o]
    BY <1>1, <1>3, <2>1 DEF Op, IInv, TypeOK
  <2>4. met \subseteq met' /\ \A q \in Open : q # p => {o.kind, op[q].kind} \in met'
    BY <1>1, <1>3, <2>1 DEF Meet, Op
  <2>5. met' \subseteq SUBSET Kinds
    BY <1>3 DEF Meet, Open, IInv, TypeOK, Op, Kinds
  <2>6. QED
    BY <1>1, <2>2, <2>3, <2>4, <2>5, Moves
<1>4. QED
  BY <1>2, <1>3 DEF ForcedLogin

LEMMA FindAdminKeeps ==
  ASSUME IInv, NEW p \in Slots, FindAdmin(p)
  PROVE  IInv'
<1>1. /\ op[p] \in Op /\ Sound(op[p]) /\ user \in User
      /\ met \subseteq met' /\ met' \subseteq SUBSET Kinds
      /\ tokens' \in [Tokens -> TokenStates] /\ events' \in Nat /\ UNCHANGED <<user, last, met>>
  BY DEF IInv, TypeOK, FindAdmin
<1>2. CASE End(p)
  BY <1>1, <1>2, Ends
<1>3. CASE ~End(p)
  <2>1. PICK ph \in {"write", "issue", "fetch"} :
          /\ op[p].kind = "profile" => ph = "write"
          /\ op[p].kind = "issue" => ph = "issue"
          /\ op[p].kind \notin {"profile", "issue"} => ph = "fetch"
          /\ user.there
          /\ op' = [op EXCEPT ![p].phase = ph, ![p].row = user]
    BY <1>3 DEF FindAdmin
  <2>2. PICK row \in User : row = user
    BY <1>1
  <2>3. op' = [op EXCEPT ![p] = [op[p] EXCEPT !.phase = ph, !.row = row]]
    BY <1>1, <2>1, <2>2 DEF IInv, TypeOK, Op
  <2>4. PICK o : o = [op[p] EXCEPT !.phase = ph, !.row = row]
    OBVIOUS
  <2>5. /\ o.phase = ph /\ o.row = user /\ o.kind = op[p].kind
        /\ o.new = op[p].new /\ o.pass = op[p].pass
    BY <1>1, <2>2, <2>4 DEF Op
  <2>6. Sound(o)
    BY <1>1, <2>1, <2>5
    DEF FindAdmin, At, SetPassword, Sound, Placed, Present, Admitted, Current, Proved
  <2>7. ph \in Phases /\ ~At(p, "idle")
    BY DEF Phases, FindAdmin, At
  <2>8. QED
    BY <1>1, <2>2, <2>3, <2>4, <2>6, <2>7, Advances
<1>4. QED
  BY <1>2, <1>3

LEMMA FetchUserKeeps ==
  ASSUME IInv, NEW p \in Slots, FetchUser(p)
  PROVE  IInv'
<1>1. /\ op[p] \in Op /\ Sound(op[p]) /\ user \in User
      /\ tokens' \in [Tokens -> TokenStates] /\ events' \in Nat /\ UNCHANGED <<user, last, met>>
  BY DEF IInv, TypeOK, FetchUser
<1>2. PICK row \in User : row = user
  BY <1>1
<1>3. op' = [op EXCEPT ![p] = [op[p] EXCEPT !.phase = "write", !.row = row]]
  BY <1>1, <1>2 DEF IInv, TypeOK, Op, FetchUser
<1>4. PICK o : o = [op[p] EXCEPT !.phase = "write", !.row = row]
  OBVIOUS
<1>5. /\ o.phase = "write" /\ o.row = user /\ o.kind = op[p].kind
      /\ o.new = op[p].new /\ o.pass = op[p].pass
  BY <1>1, <1>2, <1>4 DEF Op
<1>6. Sound(o)
  BY <1>1, <1>5
  DEF FetchUser, At, SetPassword, Sound, Placed, Present, Admitted, Current, Proved
<1>7. "write" \in Phases /\ ~At(p, "idle")
  BY DEF Phases, FetchUser, At
<1>8. QED
  BY <1>1, <1>2, <1>3, <1>4, <1>6, <1>7, Advances

LEMMA TokenStepKeeps ==
  ASSUME IInv, NEW p \in Slots, TokenStep(p) \/ Fail(p)
  PROVE  IInv'
<1>1. /\ End(p) /\ UNCHANGED <<user, last, met>> /\ events' \in Nat
      /\ met \subseteq met' /\ met' \subseteq SUBSET Kinds
  BY DEF IInv, TypeOK, TokenStep, CreateToken, RevokeToken, Fail
<1>2. tokens' \in [Tokens -> TokenStates]
  BY DEF IInv, TypeOK, TokenStep, CreateToken, RevokeToken, Fail, Die, TokenStates
<1>3. QED
  BY <1>1, <1>2, Ends

LEMMA ExpireKeeps ==
  ASSUME IInv, NEW t \in Tokens, Expire(t)
  PROVE  IInv'
<1>1. TypeOK'
  BY DEF IInv, TypeOK, Expire, Die, TokenStates
<1>2. UNCHANGED <<user, op, last, met>>
  BY DEF Expire
<1>3. QED
  BY <1>1, <1>2
  DEF IInv, NothingLost, Noted, Open, At, Sound, Placed, Present, Admitted, Current, Proved,
      Lost, Shadowed, Outrun, Met

----------------------------------------------------------------------------
(* Steps that write the row of the user.  What they find and what they leave  *)
(* there is the same for the other open requests, or an overlap is named.   *)

LEMMA CreateUserKeeps ==
  ASSUME IInv, NEW p \in Slots, CreateUser(p)
  PROVE  IInv'
<1>1. /\ op[p] \in Op /\ Sound(op[p]) /\ UNCHANGED <<tokens, met, events>>
      /\ tokens' \in [Tokens -> TokenStates] /\ events' \in Nat
      /\ met \subseteq met' /\ met' \subseteq SUBSET Kinds
  BY DEF IInv, TypeOK, CreateUser
<1>2. CASE user.there
  BY <1>1, <1>2, Ends DEF CreateUser
<1>3. CASE ~user.there
  <2>1. PICK n \in Names :
          /\ user' = [there |-> TRUE, pass |-> op[p].pass, name |-> n, force |-> FALSE]
          /\ last' = [pass |-> op[p].pass, name |-> n]
    BY <1>3 DEF CreateUser
  <2>2. op' = [op EXCEPT ![p].phase = "issue"] /\ At(p, "create")
    BY <1>3 DEF CreateUser, Go
  <2>3. PICK o : o = [op[p] EXCEPT !.phase = "issue"]
    OBVIOUS
  <2>4. /\ o \in Op /\ o.phase = "issue" /\ o.kind = "login"
        /\ o.pass = op[p].pass /\ o.new = op[p].new /\ o.kind = op[p].kind
    BY <1>1, <2>2, <2>3 DEF Op, Phases, At, Sound, Placed
  <2>5. op' = [op EXCEPT ![p] = o]
    BY <2>2, <2>3
  <2>6. TypeOK'
    BY <1>1, <2>1, <2>4, <2>5 DEF IInv, TypeOK, User, Op
  <2>7. NothingLost'
    BY <2>1 DEF NothingLost
  <2>8. \A q \in Slots : (op'[q].phase # "idle" => op[q].phase # "idle") /\ op'[q].kind = op[q].kind
    BY <2>2, <2>4, <2>5 DEF IInv, TypeOK, At
  <2>9. Noted'
    BY <1>1, <2>8 DEF IInv, Noted, Open, At
  <2>10. ASSUME NEW q \in Slots PROVE Sound(op[q])'
    <3>1. CASE q = p
      <4>1. op'[q] = o /\ user'.pass = o.pass /\ user'.there
        BY <2>1, <2>4, <2>5, <3>1 DEF IInv, TypeOK
      <4>2. Placed(o)
        BY <1>1, <2>4 DEF Sound, Placed
      <4>3. QED
        BY <2>4, <4>1, <4>2 DEF Sound, Placed, Present, Admitted, Current, Proved
    <3>2. CASE q # p
      <4>1. op'[q] = op[q] /\ Sound(op[q])
        BY <2>5, <3>2 DEF IInv, TypeOK
      <4>2. op[q].phase \notin {"verify", "fetch", "write", "issue"}
        BY <1>3, <4>1 DEF Sound, Present
      <4>3. ~(op[q].kind = "profile" /\ op[q].phase = "admin")
        BY <1>3, <4>1 DEF Sound, Admitted
      <4>4. QED
        BY <4>1, <4>2, <4>3 DEF Sound, Placed, Present, Admitted, Current, Proved
    <3>3. QED
      BY <3>1, <3>2
  <2>11. QED
    BY <2>6, <2>7, <2>9, <2>10 DEF IInv
<1>4. QED
  BY <1>2, <1>3

\* What UpdateUser writes.
LEMMA Written ==
  ASSUME IInv, NEW p \in Slots, UpdateUser(p)
  PROVE  /\ user' \in User /\ user'.there
         /\ op[p].kind = "profile" =>
              /\ user'.name = op[p].name /\ user'.pass = op[p].row.pass
              /\ user'.force = op[p].row.force
              /\ last' = [last EXCEPT !.name = op[p].name]
         /\ op[p].kind # "profile" =>
              /\ user'.pass = op[p].new /\ user'.name = op[p].row.name /\ ~user'.force
              /\ last' = [last EXCEPT !.pass = op[p].new]
         /\ last' \in [pass: Passwords \cup {None}, name: Names \cup {None}]
<1>1. op[p] \in Op /\ Sound(op[p]) /\ op[p].phase = "write"
  BY DEF IInv, TypeOK, UpdateUser, At
<1>2. PICK row \in User : row = op[p].row
  BY <1>1 DEF Op
<1>3. row.there
  BY <1>1, <1>2 DEF Sound, Present
<1>4. PICK new \in Passwords \cup {None}, name \in Names \cup {None} :
        new = op[p].new /\ name = op[p].name
  BY <1>1 DEF Op
<1>5. CASE op[p].kind = "profile"
  <2>1. user' = [row EXCEPT !.name = name] /\ last' = [last EXCEPT !.name = name]
    BY <1>2, <1>4, <1>5 DEF UpdateUser
  <2>2. QED
    BY <1>2, <1>3, <1>4, <1>5, <2>1 DEF User, IInv, TypeOK
<1>6. CASE op[p].kind # "profile"
  <2>1. user' = [row EXCEPT !.pass = new, !.force = FALSE] /\ last' = [last EXCEPT !.pass = new]
    BY <1>2, <1>4, <1>6 DEF UpdateUser
  <2>2. QED
    BY <1>2, <1>3, <1>4, <1>6, <2>1 DEF User, IInv, TypeOK
<1>7. QED
  BY <1>5, <1>6

LEMMA UpdateUserKeeps ==
  ASSUME IInv, NEW p \in Slots, UpdateUser(p)
  PROVE  IInv'
<1>1. /\ op[p] \in Op /\ Sound(op[p]) /\ op[p].phase = "write" /\ p \in Open
      /\ UNCHANGED <<tokens, met, events>>
  BY DEF IInv, TypeOK, UpdateUser, At, Open
<1>2. op[p].kind \in SetPassword \cup {"profile"}
  BY <1>1 DEF Sound, Placed
<1>3. PICK o \in Op : /\ op' = [op EXCEPT ![p] = o] /\ o.phase \in {"idle", "issue"}
                      /\ o.phase = "issue" => /\ o.kind = "forced" /\ op[p].kind = "forced"
                                              /\ o.pass = op[p].pass /\ o.new = op[p].new
                      /\ o.phase = "idle" => o = Idle
  <2>1. CASE op[p].kind = "forced"
    <3>1. PICK r : r = [op[p] EXCEPT !.phase = "issue"]
      OBVIOUS
    <3>2. /\ r \in Op /\ r.phase = "issue" /\ r.kind = "forced"
          /\ r.pass = op[p].pass /\ r.new = op[p].new
      BY <1>1, <2>1, <3>1 DEF Op, Phases
    <3>3. op' = [op EXCEPT ![p] = r]
      BY <2>1, <3>1 DEF UpdateUser, Go
    <3>4. QED
      BY <2>1, <3>2, <3>3
  <2>2. CASE op[p].kind # "forced"
    BY <2>2, IdleIsSound DEF UpdateUser, End, Idle
  <2>3. QED
    BY <2>1, <2>2
<1>4. op'[p] = o /\ \A q \in Slots : q # p => op'[q] = op[q]
  BY <1>3 DEF IInv, TypeOK
<1>5. TypeOK'
  BY <1>1, <1>3, Written DEF IInv, TypeOK
<1>6. NothingLost'
  <2>1. CASE Lost
    BY <1>1, <2>1, MetGrows DEF NothingLost, Lost
  <2>2. CASE ~Lost
    <3>1. PICK lp \in Passwords \cup {None}, ln \in Names \cup {None} :
            last = [pass |-> lp, name |-> ln] /\ user.pass = lp /\ user.name = ln
      BY <2>2 DEF IInv, TypeOK, NothingLost, Lost, User
    <3>2. CASE op[p].kind = "profile"
      <4>1. op[p].row.pass = user.pass
        BY <1>1, <2>2, <3>2 DEF Sound, Current
      <4>2. QED
        BY <3>1, <3>2, <4>1, Written DEF NothingLost
    <3>3. CASE op[p].kind \in SetPassword
      <4>1. op[p].row.name = user.name /\ op[p].kind # "profile"
        BY <1>1, <2>2, <3>3 DEF Sound, Current, SetPassword
      <4>2. QED
        BY <3>1, <4>1, Written DEF NothingLost
    <3>4. QED
      BY <1>2, <3>2, <3>3
  <2>3. QED
    BY <2>1, <2>2
<1>7. Noted'
  <2>1. \A q \in Slots : op'[q].phase # "idle" => op[q].phase # "idle" /\ op'[q].kind = op[q].kind
    BY <1>1, <1>3, <1>4
  <2>2. QED
    BY <1>1, <2>1 DEF IInv, Noted, Open, At
<1>8. ASSUME NEW q \in Slots PROVE Sound(op[q])'
  <2>1. CASE q = p /\ o.phase = "idle"
    BY <1>3, <1>4, <2>1
    DEF Idle, SetPassword, Sound, Placed, Present, Admitted, Current, Proved
  <2>2. CASE q = p /\ o.phase = "issue"
    <3>1. user'.pass = o.pass
      BY <1>1, <1>3, <2>2, Written DEF Sound, Placed
    <3>2. o.new = o.pass
      BY <1>1, <1>3, <2>2 DEF Sound, Placed
    <3>3. QED
      BY <1>3, <1>4, <2>2, <3>1, <3>2, Written
      DEF Sound, Placed, Present, Admitted, Current, Proved
  <2>3. CASE q # p
    <3>1. op'[q] = op[q] /\ Sound(op[q])
      BY <1>4, <2>3 DEF IInv
    <3>2. Placed(op[q]) /\ (Lost => Lost') /\ (Shadowed => Shadowed') /\ (Outrun => Outrun')
      BY <1>1, <3>1, MetGrows DEF Sound
    <3>3. op[q].phase # "idle" =>
            /\ op[p].kind = "profile" /\ op[q].kind \in SetPassword => Lost
            /\ op[p].kind \in SetPassword /\ op[q].kind = "profile" => Lost
            /\ op[q].kind = "change" => Shadowed
            /\ op[q].kind \in {"login", "forced"} => Outrun
      BY <1>1, <1>2, <2>3, Together DEF IInv, Open, At
    <3>4. Present(op[q])'
      BY <3>1, Written DEF Sound, Present
    <3>5. Admitted(op[q])'
      <4>1. CASE op[p].kind = "profile"
        BY <1>1, <3>1, <4>1, Written DEF Sound, Admitted
      <4>2. CASE op[p].kind # "profile"
        BY <3>1, <4>2, Written DEF Sound, Admitted
      <4>3. QED
        BY <4>1, <4>2
    <3>6. Current(op[q])'
      <4> SUFFICES ASSUME op[q].phase = "write", ~Lost
                   PROVE  /\ op[q].kind = "profile" => op[q].row.pass = user'.pass
                          /\ op[q].kind \in SetPassword => op[q].row.name = user'.name
        BY <3>1, <3>2 DEF Current
      <4>1. CASE op[p].kind = "profile"
        BY <1>1, <3>1, <3>3, <4>1, Written DEF Sound, Current
      <4>2. CASE op[p].kind \in SetPassword
        <5>1. op[p].kind # "profile"
          BY <4>2 DEF SetPassword
        <5>2. QED
          BY <1>1, <3>1, <3>3, <4>2, <5>1, Written DEF Sound, Current
      <4>3. QED
        BY <1>2, <4>1, <4>2
    <3>7. Proved(op[q])'
      BY <3>1, <3>2, <3>3 DEF Proved
    <3>8. QED
      BY <3>1, <3>2, <3>4, <3>5, <3>6, <3>7 DEF Sound, Placed
  <2>4. QED
    BY <1>3, <2>1, <2>2, <2>3
<1>9. QED
  BY <1>5, <1>6, <1>7, <1>8 DEF IInv

----------------------------------------------------------------------------
(* The invariant holds. *)

LEMMA InitHolds == Init => IInv
<1> SUFFICES ASSUME Init PROVE IInv
  OBVIOUS
<1>1. TypeOK
  <2>1. user \in User
    <3>1. PICK n \in Names, w \in Passwords :
            user \in {NoUser, [there |-> TRUE, pass |-> w, name |-> n, force |-> TRUE]}
      BY DEF Init
    <3>2. CASE user = NoUser
      BY <3>2 DEF NoUser, User
    <3>3. CASE user = [there |-> TRUE, pass |-> w, name |-> n, force |-> TRUE]
      <4>1. w \in Passwords \cup {None} /\ n \in Names \cup {None}
        OBVIOUS
      <4>2. QED
        BY <3>3, <4>1 DEF User
    <3>4. QED
      BY <3>1, <3>2, <3>3
  <2>2. op \in [Slots -> Op]
    BY IdleIsSound DEF Init
  <2>3. tokens \in [Tokens -> TokenStates]
    BY DEF Init, TokenStates
  <2>4. QED
    BY <2>1, <2>2, <2>3 DEF Init, TypeOK, User
<1>2. NothingLost
  BY DEF Init, NothingLost
<1>3. Noted
  BY DEF Init, Noted, Open, At, Idle
<1>4. \A p \in Slots : Sound(op[p])
  BY IdleIsSound DEF Init
<1>5. QED
  BY <1>1, <1>2, <1>3, <1>4 DEF IInv

LEMMA StepKeeps == IInv /\ [Next]_vars => IInv'
<1> SUFFICES ASSUME IInv, [Next]_vars PROVE IInv'
  OBVIOUS
<1>1. ASSUME NEW p \in Slots, Requests(p) PROVE IInv'
  BY <1>1, RequestsKeep
<1>2. ASSUME NEW p \in Slots, Admission(p) PROVE IInv'
  BY <1>2, AdmissionKeeps
<1>3. ASSUME NEW p \in Slots, Login(p) PROVE IInv'
  BY <1>3, LookKeeps, ForcedLoginKeeps, CreateUserKeeps DEF Login
<1>4. ASSUME NEW p \in Slots, Change(p) PROVE IInv'
  BY <1>4, LookKeeps, FindAdminKeeps, FetchUserKeeps, UpdateUserKeeps DEF Change
<1>5. ASSUME NEW p \in Slots, TokenStep(p) \/ Fail(p) PROVE IInv'
  BY <1>5, TokenStepKeeps
<1>6. ASSUME NEW t \in Tokens, Expire(t) PROVE IInv'
  BY <1>6, ExpireKeeps
<1>7. CASE UNCHANGED vars
  BY <1>7
  DEF vars, IInv, TypeOK, NothingLost, Noted, Open, At, Sound, Placed, Present, Admitted, Current,
      Proved, Lost, Shadowed, Outrun, Met
<1>8. QED
  BY <1>1, <1>2, <1>3, <1>4, <1>5, <1>6, <1>7 DEF Next

\* Types of the rows and of the open requests of the accounts.
THEOREM AccountsTyped == Spec => []TypeOK
<1>1. IInv => TypeOK
  BY DEF IInv
<1>2. QED
  BY <1>1, InitHolds, StepKeeps, PTL DEF Spec

LEMMA Invariance == Spec => []IInv
BY InitHolds, StepKeeps, PTL DEF Spec

\* Whole-row writes lose a value in the named overlap only, however many
\* requests are open and whatever fails (UpdateUser, internal/db/models.go:538).
THEOREM RowKept == Spec => []NothingLost
<1>1. IInv => NothingLost
  BY DEF IInv
<1>2. QED
  BY <1>1, Invariance, PTL

\* A password that had to be set is set once.
THEOREM ForcedOnce == Spec => ForcedIsOver
<1>1. ASSUME IInv, [Next]_vars, user.there, ~user.force
      PROVE  user'.there /\ ~user'.force
  <2>1. CASE UNCHANGED user
    BY <1>1, <2>1
  <2>2. ASSUME NEW p \in Slots, CreateUser(p) PROVE user'.there /\ ~user'.force
    BY <1>1, <2>2 DEF CreateUser
  <2>3. ASSUME NEW p \in Slots, UpdateUser(p) PROVE user'.there /\ ~user'.force
    <3>1. op[p].phase = "write" /\ Sound(op[p])
      BY <1>1, <2>3 DEF UpdateUser, At, IInv
    <3>2. QED
      BY <1>1, <2>3, <3>1, Written DEF Sound, Admitted
  <2>4. ASSUME NEW p \in Slots, Requests(p) \/ Admission(p) PROVE UNCHANGED user
    BY <2>4 DEF Requests, AskReset, AskLogin, AskChange, AskProfile, AskToken, Ask,
                Admission, GetTokenByValue, GetUserByID
  <2>5. ASSUME NEW p \in Slots, Login(p), ~CreateUser(p) PROVE UNCHANGED user
    BY <2>5 DEF Login, FirstSetup, PasswordLogin, ForcedLogin
  <2>6. ASSUME NEW p \in Slots, Change(p), ~UpdateUser(p) PROVE UNCHANGED user
    BY <2>6 DEF Change, FindAdmin, VerifyCurrent, FetchUser
  <2>7. ASSUME NEW p \in Slots, TokenStep(p) \/ Fail(p) PROVE UNCHANGED user
    BY <2>7 DEF TokenStep, CreateToken, RevokeToken, Fail
  <2>8. ASSUME NEW t \in Tokens, Expire(t) PROVE UNCHANGED user
    BY <2>8 DEF Expire
  <2>9. CASE UNCHANGED vars
    BY <2>1, <2>9 DEF vars
  <2>10. QED
    BY <1>1, <2>1, <2>2, <2>3, <2>4, <2>5, <2>6, <2>7, <2>8, <2>9 DEF Next
<1>2. IInv /\ [Next]_vars => [user.there /\ ~user.force => user'.there /\ ~user'.force]_vars
  BY <1>1
<1>3. QED
  BY <1>2, Invariance, PTL DEF Spec, ForcedIsOver

\* A login that is answered with a token gave the password in force.
THEOREM TokensAreEarned == Spec => LoginKnows
<1>1. ASSUME IInv, NEW p \in Slots, CreateToken(p), op[p].kind \in {"login", "forced"}
      PROVE  op[p].pass = user.pass \/ Outrun
  BY <1>1 DEF IInv, Sound, Proved, CreateToken, At
<1>2. IInv /\ [Next]_vars =>
        [\A p \in Slots : CreateToken(p) /\ op[p].kind \in {"login", "forced"} =>
           \/ op[p].pass = user.pass
           \/ Met({"login", "forced"}, SetPassword \cup {"profile"})]_vars
  BY <1>1 DEF Outrun
<1>3. QED
  BY <1>2, Invariance, PTL DEF Spec, LoginKnows

\* A change of password replaces the password it proved.
THEOREM ChangesAreProven == Spec => ProvenChange
<1>1. ASSUME IInv, NEW p \in Slots, UpdateUser(p), op[p].kind = "change"
      PROVE  op[p].pass = user.pass \/ Shadowed
  BY <1>1 DEF IInv, Sound, Proved, UpdateUser, At
<1>2. IInv /\ [Next]_vars =>
        [\A p \in Slots : UpdateUser(p) /\ op[p].kind = "change" =>
           op[p].pass = user.pass \/ Met({"change"}, SetPassword \cup {"profile"})]_vars
  BY <1>1 DEF Shadowed
<1>3. QED
  BY <1>2, Invariance, PTL DEF Spec, ProvenChange
=============================================================================
