--------------------------- MODULE AccountAccess ---------------------------
(***************************************************************************)
(* Studio accounts, what they sign in with, and their sessions.  Requests  *)
(* read an account, work (hash a password, check a code, wait for the      *)
(* browser) and write later, guarded by the auth revision they read: every *)
(* change of an account draws a new one.  Administrators change other      *)
(* accounts in the same way.                                               *)
(***************************************************************************)
EXTENDS Integers, FiniteSets

CONSTANTS
  Users,        \* row ids of users
  Requests,     \* requests that can be under way together
  Steps,        \* time steps of one-time codes
  MaxSessions,  \* MAX_CONCURRENT_SESSIONS
  MaxPasskeys,  \* MAX_WEBAUTHN_CREDENTIALS
  MaxSerial     \* bound: random values drawn (revisions, tokens, secrets, ids)

NoId == 0

ASSUME ConstantAssumption ==
  /\ Steps \subseteq Nat \ {0}
  /\ MaxSessions \in Nat \ {0}
  /\ MaxPasskeys \in Nat
  /\ MaxSerial \in Nat

VARIABLES
  account,     \* users and user_roles
  factor,      \* user_mfa_factors: the TOTP secret and the last step used
  setup,       \* user_setup_tokens: the link of the account, if any
  passkeys,    \* user_webauthn_credentials
  challenges,  \* webauthn_challenges: the registrations that have a row
  sessions,    \* sessions, each with what its user has proved
  request,     \* what each request has read and is about to do
  accepted,    \* history: the codes accepted, as secret and step
  serial       \* random values drawn so far

accessVars == <<factor, setup, passkeys>>
vars == <<account, factor, setup, passkeys, challenges, sessions, request, accepted, serial>>

Roles == {"admin", "editor"}
NoAccount == [status |-> "none", role |-> "none", revision |-> NoId, password |-> NoId]
NoFactor == [secret |-> NoId, last |-> 0]
NoSetup == [id |-> NoId, purpose |-> "none", nonce |-> NoId, consumed |-> FALSE]
Idle == [at |-> "idle", kind |-> "none", user |-> "none", session |-> NoId, revision |-> NoId,
         id |-> NoId, step |-> 0, proof |-> {}]

Fresh == serial + 1
Draw == Fresh <= MaxSerial /\ serial' = Fresh

Active(u) == account[u].status = "active"
HasFactor(u) == factor[u] # NoFactor
IsCurrent(u, revision) == Active(u) /\ account[u].revision = revision

Password(n) == <<"password", n>>
Totp(n) == <<"totp", n>>
Passkey(n) == <<"passkey", n>>

\* What the account accepts.
Credentials(u) ==
  {Password(account[u].password)} \cup {Passkey(k) : k \in passkeys[u]}
    \cup (IF HasFactor(u) THEN {Totp(factor[u].secret)} ELSE {})

SessionsOf(u) == {s \in sessions : s.user = u}
Usable(s) == s \in sessions /\ IsCurrent(s.user, s.revision)

Opened(status, role, n) == [status |-> status, role |-> role, revision |-> n, password |-> n]

Link(purpose, n) == [id |-> n, purpose |-> purpose, nonce |-> NoId, consumed |-> FALSE]

\* An installed site: administrators who are signed in, and invited users.
Installed(admins, invited) ==
  /\ account = [u \in Users |->
       IF u \in admins THEN Opened("active", "admin", 1)
       ELSE IF invited[u] \in Roles THEN Opened("pending", invited[u], 1) ELSE NoAccount]
  /\ factor = [u \in Users |-> IF u \in admins THEN [secret |-> 1, last |-> 0] ELSE NoFactor]
  /\ sessions = {[id |-> 1, user |-> u, revision |-> 1, proof |-> {Password(1), Totp(1)}] : u \in admins}
  /\ setup = [u \in Users |->
       IF u \notin admins /\ invited[u] \in Roles THEN Link("invitation", 1) ELSE NoSetup]
  /\ passkeys = [u \in Users |-> {}]
  /\ challenges = {}
  /\ request = [r \in Requests |-> Idle]
  /\ accepted = {}
  /\ serial = 1

Init ==
  \E admins \in (SUBSET Users) \ {{}} : \E invited \in [Users \ admins -> Roles \cup {"none"}] :
    Installed(admins, invited)

-----------------------------------------------------------------------------
(* Requests.                                                               *)

Move(r, next) == request' = [request EXCEPT ![r] = next]

\* A request that fails, is refused or is given up; its challenge expires.
Stop(r) ==
  /\ request[r].at # "idle"
  /\ Move(r, Idle)
  /\ challenges' = challenges \ {r}
  /\ UNCHANGED <<account, accessVars, sessions, accepted, serial>>

\* The session that a request came with, as it was when it came.
CameWith(r, s) ==
  /\ s.id = request[r].session
  /\ s.user = request[r].user
  /\ s.revision = request[r].revision

\* Deleting a session deletes the challenges it asked for.
Cascade(kept) ==
  {c \in challenges : \E s \in kept : s.id = request[c].session /\ s.user = request[c].user}

Keep(kept) == sessions' = kept /\ challenges' = Cascade(kept)

\* Logout and expiry end one session, "sign out elsewhere" all but one.
EndSessions(u, kept) ==
  /\ kept \subseteq SessionsOf(u)
  /\ kept # SessionsOf(u)
  /\ \/ \E s \in SessionsOf(u) : kept = SessionsOf(u) \ {s}
     \/ \E s \in kept : kept = {s} /\ Usable(s)
  /\ Keep((sessions \ SessionsOf(u)) \cup kept)
  /\ UNCHANGED <<account, accessVars, request, accepted, serial>>

-----------------------------------------------------------------------------
(* Sign-in, and the code that protected account changes ask for.           *)

ReadOnly == UNCHANGED <<account, accessVars, challenges, sessions, accepted, serial>>

\* The continuation that the browser gets carries the revision.
ProvePassword(r, u) ==
  /\ request[r] = Idle
  /\ Active(u)
  /\ HasFactor(u)
  /\ Move(r, [Idle EXCEPT !.at = "proven", !.kind = "signIn", !.user = u,
                          !.revision = account[u].revision, !.proof = {Password(account[u].password)}])
  /\ ReadOnly

ProveAgain(r, s) ==
  /\ request[r] = Idle
  /\ Usable(s)
  /\ Move(r, [Idle EXCEPT !.at = "proven", !.kind = "authorize", !.user = s.user,
                          !.revision = s.revision])
  /\ ReadOnly

ReadFactor(r, step) ==
  LET q == request[r] IN
  /\ q.at = "proven"
  /\ IsCurrent(q.user, q.revision)
  /\ HasFactor(q.user)
  /\ step > factor[q.user].last
  /\ Move(r, [q EXCEPT !.at = "code", !.id = factor[q.user].secret, !.step = step])
  /\ ReadOnly

\* Faulty variant: the row is not compared with what was read.
IsUnusedOnRead(u, step) == TRUE

IsUnused(u, step) == factor[u].last < step

ConsumeStep(r) ==
  LET q == request[r] IN
  /\ q.at = "code"
  /\ IsCurrent(q.user, q.revision)
  /\ HasFactor(q.user)
  /\ IsUnused(q.user, q.step)
  /\ factor' = [factor EXCEPT ![q.user].last = q.step]
  /\ accepted' = accepted \cup {<<q.user, q.id, q.step>>}
  /\ Move(r, [q EXCEPT !.at = "verified", !.proof = @ \cup {Totp(q.id)}])
  /\ UNCHANGED <<account, setup, passkeys, challenges, sessions, serial>>

\* A passkey instead of password and code ...
DiscoverPasskey(r, u, k) ==
  /\ request[r] = Idle
  /\ Active(u)
  /\ k \in passkeys[u]
  /\ Move(r, [Idle EXCEPT !.at = "asserted", !.kind = "passwordless", !.user = u,
                          !.revision = account[u].revision, !.id = k])
  /\ ReadOnly

\* ... or instead of the code.
ChoosePasskey(r, k) ==
  LET q == request[r] IN
  /\ q.at = "proven"
  /\ q.kind = "signIn"
  /\ IsCurrent(q.user, q.revision)
  /\ k \in passkeys[q.user]
  /\ Move(r, [q EXCEPT !.at = "asserted", !.id = k])
  /\ ReadOnly

\* Only the passwordless update compares the revision of the account.
CompletePasskey(r) ==
  LET q == request[r] IN
  /\ q.at = "asserted"
  /\ q.id \in passkeys[q.user]
  /\ q.kind = "passwordless" => IsCurrent(q.user, q.revision)
  /\ Move(r, [q EXCEPT !.at = "verified", !.proof = @ \cup {Passkey(q.id)}])
  /\ ReadOnly

\* Faulty variant: any active account gets its session.
MayIssueToActive(q) == Active(q.user)

MayIssue(q) == IsCurrent(q.user, q.revision)

\* The sessions used longest ago make room, whether or not one is issued.
IssueSession(r) ==
  LET q == request[r]
      New == [id |-> Fresh, user |-> q.user, revision |-> account[q.user].revision, proof |-> q.proof] IN
  /\ q.at = "verified"
  /\ q.kind # "authorize"
  /\ \E kept \in SUBSET SessionsOf(q.user) :
       /\ Cardinality(kept) < MaxSessions
       /\ kept = SessionsOf(q.user) \/ Cardinality(kept) = MaxSessions - 1
       /\ \/ /\ MayIssue(q)
             /\ Draw
             /\ Keep((sessions \ SessionsOf(q.user)) \cup kept \cup {New})
          \/ /\ ~MayIssue(q)
             /\ Keep((sessions \ SessionsOf(q.user)) \cup kept)
             /\ UNCHANGED serial
  /\ Move(r, Idle)
  /\ UNCHANGED <<account, accessVars, accepted>>

-----------------------------------------------------------------------------
(* Protected changes.  The grant for one is bound to a session and its     *)
(* revision; it is checked with the session, some time before the write.   *)

\* Which change it is about shows when it is written.  A grant is only given for
\* the password.
Authorize(r, s, kind) ==
  /\ request[r] = Idle
  /\ Usable(s)
  /\ kind = "administer" => account[s.user].role = "admin"
  /\ Move(r, [Idle EXCEPT !.at = "authorized", !.kind = kind, !.user = s.user,
                          !.session = s.id, !.revision = s.revision,
                          !.proof = {Password(account[s.user].password)}])
  /\ ReadOnly

Changing(r) == request[r].at = "authorized" /\ request[r].kind = "change"

\* It does not ask whether the session is still there.
ChangePassword(r) ==
  LET q == request[r] IN
  /\ Changing(r)
  /\ IsCurrent(q.user, q.revision)
  /\ Draw
  /\ account' = [account EXCEPT ![q.user] = [@ EXCEPT !.password = Fresh, !.revision = Fresh]]
  /\ Keep(sessions \ SessionsOf(q.user))
  /\ Move(r, Idle)
  /\ UNCHANGED <<accessVars, accepted>>

\* The batch fails as a whole unless account and session both move on.
CarryOver(r, s, proof) ==
  LET u == request[r].user IN
  /\ IsCurrent(u, request[r].revision)
  /\ s \in sessions
  /\ CameWith(r, s)
  /\ Draw
  /\ account' = [account EXCEPT ![u].revision = Fresh]
  /\ Keep((sessions \ SessionsOf(u)) \cup {[s EXCEPT !.revision = Fresh, !.proof = proof]})
  /\ Move(r, Idle)

ReplaceTotp(r, s, step) ==
  LET u == request[r].user IN
  /\ Changing(r)
  /\ HasFactor(u)
  /\ factor' = [factor EXCEPT ![u] = [secret |-> Fresh, last |-> step]]
  /\ accepted' = accepted \cup {<<u, Fresh, step>>}
  /\ CarryOver(r, s, (s.proof \ {Totp(factor[u].secret)}) \cup {Totp(Fresh)})
  /\ UNCHANGED <<setup, passkeys>>

\* The session goes on, on what the grant was given for if it was opened with
\* this passkey.
RemovePasskey(r, s, k) ==
  LET u == request[r].user IN
  /\ Changing(r)
  /\ k \in passkeys[u]
  /\ passkeys' = [passkeys EXCEPT ![u] = @ \ {k}]
  /\ CarryOver(r, s, (s.proof \ {Passkey(k)}) \cup request[r].proof)
  /\ UNCHANGED <<factor, setup, accepted>>

AskForPasskey(r, s) ==
  LET q == request[r] IN
  /\ Changing(r)
  /\ IsCurrent(q.user, q.revision)
  /\ s \in sessions
  /\ CameWith(r, s)
  /\ challenges' = challenges \cup {r}
  /\ Move(r, [q EXCEPT !.at = "challenged"])
  /\ UNCHANGED <<account, accessVars, sessions, accepted, serial>>

\* The browser answers under the same session.
AnswerChallenge(r, s) ==
  LET q == request[r] IN
  /\ q.at = "challenged"
  /\ Usable(s)
  /\ CameWith(r, s)
  /\ r \in challenges
  /\ Move(r, [q EXCEPT !.at = "registering"])
  /\ ReadOnly

\* Faulty variant: the challenge was found when the request came.
HasChallengeOnRead(r) == TRUE

HasChallenge(r) == r \in challenges

RegisterPasskey(r) ==
  LET u == request[r].user IN
  /\ request[r].at = "registering"
  /\ HasChallenge(r)
  /\ Cardinality(passkeys[u]) < MaxPasskeys
  /\ Draw
  /\ passkeys' = [passkeys EXCEPT ![u] = @ \cup {Fresh}]
  /\ challenges' = challenges \ {r}
  /\ Move(r, Idle)
  /\ UNCHANGED <<account, factor, setup, sessions, accepted>>

-----------------------------------------------------------------------------
(* Administration.                                                         *)

RoleOf == [makeAdmin |-> "admin", makeEditor |-> "editor"]
Inspected == {"reissue", "reset", "makeAdmin", "makeEditor", "activate", "deactivate"}

Administering(r) == request[r].at = "authorized" /\ request[r].kind = "administer"

\* An active administrator stays only if there is another one.
OtherAdmin(u) == \E v \in Users \ {u} : Active(v) /\ account[v].role = "admin"

LeavesAdmin(u, kind) ==
  (kind \in {"reset", "makeEditor", "deactivate"} /\ Active(u) /\ account[u].role = "admin")
    => OtherAdmin(u)

Recovering(u) == account[u].status = "pending" /\ setup[u].purpose = "credential_recovery"

\* What a change asks of the account, when it is read and when it is written.
Allows(u, kind) ==
  CASE kind = "reissue" -> account[u].status \in {"pending", "inactive"} /\ ~HasFactor(u)
    [] kind = "reset" -> Recovering(u) \/ (account[u].status \in {"active", "inactive"} /\ HasFactor(u))
    [] kind = "activate" -> account[u].status = "inactive" /\ HasFactor(u)
    [] kind = "deactivate" -> account[u].status \in {"active", "pending"}
    [] OTHER -> account[u] # NoAccount /\ account[u].role # RoleOf[kind]

Inspect(r, kind, u) ==
  /\ Administering(r)
  /\ kind = "reset" => u # request[r].user
  /\ kind = "reissue" => setup[u].purpose # "credential_recovery"
  /\ Allows(u, kind)
  /\ LeavesAdmin(u, kind)
  /\ Move(r, [Idle EXCEPT !.at = "inspected", !.kind = kind, !.user = u,
                          !.revision = account[u].revision])
  /\ ReadOnly

\* Faulty variant: the write relies on what was read.
MayChangeUnguarded(u, kind) == Allows(u, kind)

MayChange(u, kind) == Allows(u, kind) /\ LeavesAdmin(u, kind)

\* An inspected change that applies ends the sessions of the account.
Change(r, kinds, next) ==
  LET q == request[r] IN
  /\ q.at = "inspected"
  /\ q.kind \in kinds
  /\ account[q.user].revision = q.revision
  /\ MayChange(q.user, q.kind)
  /\ Draw
  /\ account' = [account EXCEPT ![q.user] = next]
  /\ Keep(sessions \ SessionsOf(q.user))
  /\ Move(r, Idle)
  /\ UNCHANGED accepted

ChangeRole(r) ==
  LET q == request[r] IN
  /\ Change(r, {"makeAdmin", "makeEditor"},
            [account[q.user] EXCEPT !.role = RoleOf[q.kind], !.revision = Fresh])
  /\ UNCHANGED accessVars

Activate(r) ==
  /\ Change(r, {"activate"}, [account[request[r].user] EXCEPT !.status = "active", !.revision = Fresh])
  /\ UNCHANGED accessVars

Deactivate(r) ==
  LET u == request[r].user IN
  /\ Change(r, {"deactivate"}, [account[u] EXCEPT !.status = "inactive", !.revision = Fresh])
  /\ setup' = [setup EXCEPT ![u] = NoSetup]
  /\ UNCHANGED <<factor, passkeys>>

Reissue(r) ==
  LET u == request[r].user IN
  /\ Change(r, {"reissue"}, [account[u] EXCEPT !.status = "pending", !.revision = Fresh])
  /\ setup' = [setup EXCEPT ![u] = Link("invitation", Fresh)]
  /\ UNCHANGED <<factor, passkeys>>

ResetAccess(r) ==
  LET u == request[r].user IN
  /\ Change(r, {"reset"}, [account[u] EXCEPT !.status = "pending", !.revision = Fresh])
  /\ factor' = [factor EXCEPT ![u] = NoFactor]
  /\ passkeys' = [passkeys EXCEPT ![u] = {}]
  /\ setup' = [setup EXCEPT ![u] = Link("credential_recovery", Fresh)]

\* A row id is used once; the model reuses one that no request refers to.
Invite(r, u, role) ==
  /\ Administering(r)
  /\ account[u] = NoAccount
  /\ \A other \in Requests : request[other].user # u
  /\ Draw
  /\ account' = [account EXCEPT ![u] = Opened("pending", role, Fresh)]
  /\ setup' = [setup EXCEPT ![u] = Link("invitation", Fresh)]
  /\ Move(r, Idle)
  /\ UNCHANGED <<factor, passkeys, challenges, sessions, accepted>>

\* An unused invitation is cancelled, an inactive account deleted; all that
\* belongs to it goes too.
DeleteAccount(r, u) ==
  /\ Administering(r)
  /\ u # request[r].user
  /\ \/ /\ account[u].status = "pending"
        /\ setup[u].purpose = "invitation"
        /\ ~setup[u].consumed
        /\ ~HasFactor(u)
     \/ account[u].status = "inactive"
  /\ account' = [account EXCEPT ![u] = NoAccount]
  /\ factor' = [factor EXCEPT ![u] = NoFactor]
  /\ setup' = [setup EXCEPT ![u] = NoSetup]
  /\ passkeys' = [passkeys EXCEPT ![u] = {}]
  /\ Keep(sessions \ SessionsOf(u))
  /\ Move(r, Idle)
  /\ UNCHANGED <<accepted, serial>>

-----------------------------------------------------------------------------
(* Setup.  The holder of the link chooses a password and gets a TOTP       *)
(* secret for the browser to keep; a code of the secret activates both.    *)

CanSetUp(u) == account[u].status = "pending" /\ setup[u] # NoSetup /\ ~setup[u].consumed

\* The link keeps the password; its number stands for the nonce, the password
\* and the secret of this setup.
StoreSetup(r, u) ==
  /\ request[r] = Idle
  /\ CanSetUp(u)
  /\ Draw
  /\ setup' = [setup EXCEPT ![u].nonce = Fresh]
  /\ Move(r, [Idle EXCEPT !.at = "stored", !.kind = "setup", !.user = u,
                          !.session = setup[u].id, !.id = Fresh])
  /\ UNCHANGED <<account, factor, passkeys, challenges, sessions, accepted>>

ReadSetup(r) ==
  LET q == request[r] IN
  /\ q.at = "stored"
  /\ CanSetUp(q.user)
  /\ setup[q.user].id = q.session
  /\ Move(r, [q EXCEPT !.at = "enrolled", !.revision = account[q.user].revision])
  /\ ReadOnly

\* Faulty variant: any prepared setup of the account is completed.
IsPreparedSomehow(q) == setup[q.user].nonce # NoId

IsPrepared(q) == setup[q.user].nonce = q.id

\* A link that was stored can be completed beyond the bound, once.
CompleteSetup(r, step) ==
  LET q == request[r]
      u == q.user IN
  /\ q.at = "enrolled"
  /\ account[u].revision = q.revision
  /\ CanSetUp(u)
  /\ ~HasFactor(u)
  /\ setup[u].id = q.session
  /\ IsPrepared(q)
  /\ serial' = Fresh
  /\ account' = [account EXCEPT ![u] =
       [@ EXCEPT !.status = "active", !.password = setup[u].nonce, !.revision = Fresh]]
  /\ factor' = [factor EXCEPT ![u] = [secret |-> q.id, last |-> step]]
  /\ setup' = [setup EXCEPT ![u].nonce = NoId, ![u].consumed = TRUE]
  /\ accepted' = accepted \cup {<<u, q.id, step>>}
  /\ Move(r, Idle)
  /\ UNCHANGED <<passkeys, challenges, sessions>>

-----------------------------------------------------------------------------
SignIn(r) ==
  \/ \E u \in Users : ProvePassword(r, u) \/ \E k \in passkeys[u] : DiscoverPasskey(r, u, k)
  \/ \E s \in sessions : ProveAgain(r, s)
  \/ \E step \in Steps : ReadFactor(r, step)
  \/ ConsumeStep(r)
  \/ request[r].user \in Users /\ \E k \in passkeys[request[r].user] : ChoosePasskey(r, k)
  \/ CompletePasskey(r)
  \/ IssueSession(r)

OwnChange(r) ==
  \/ \E s \in sessions : Authorize(r, s, "change")
  \/ ChangePassword(r)
  \/ \E s \in sessions :
       \/ \E step \in Steps : ReplaceTotp(r, s, step)
       \/ request[r].user \in Users /\ \E k \in passkeys[request[r].user] : RemovePasskey(r, s, k)
       \/ AskForPasskey(r, s)
       \/ AnswerChallenge(r, s)
  \/ RegisterPasskey(r)

Administration(r) ==
  \/ \E s \in sessions : Authorize(r, s, "administer")
  \/ \E kind \in Inspected, u \in Users : Inspect(r, kind, u)
  \/ ChangeRole(r) \/ Activate(r) \/ Deactivate(r) \/ Reissue(r) \/ ResetAccess(r)
  \/ \E u \in Users : DeleteAccount(r, u) \/ \E role \in Roles : Invite(r, u, role)

Setup(r) ==
  \/ \E u \in Users : StoreSetup(r, u)
  \/ ReadSetup(r)
  \/ \E step \in Steps : CompleteSetup(r, step)

Next ==
  \/ \E u \in Users : \E kept \in SUBSET SessionsOf(u) : EndSessions(u, kept)
  \/ \E r \in Requests : SignIn(r) \/ OwnChange(r) \/ Administration(r) \/ Setup(r) \/ Stop(r)

Spec == Init /\ [][Next]_vars

-----------------------------------------------------------------------------
(* Properties.                                                             *)

States == {"idle", "proven", "code", "asserted", "verified", "authorized", "challenged",
           "registering", "inspected", "stored", "enrolled"}

Kinds == {"none", "signIn", "authorize", "passwordless", "change", "administer", "setup"} \cup Inspected

Proofs == {"password", "totp", "passkey"} \X Nat

\* The types.
TypeOK ==
  /\ account \in [Users -> [status : {"none", "pending", "active", "inactive"},
                            role : Roles \cup {"none"}, revision : Nat, password : Nat]]
  /\ factor \in [Users -> [secret : Nat, last : Nat]]
  /\ setup \in [Users -> [id : Nat, purpose : {"none", "invitation", "credential_recovery"},
                          nonce : Nat, consumed : BOOLEAN]]
  /\ passkeys \in [Users -> SUBSET Nat]
  /\ challenges \subseteq Requests
  /\ sessions \subseteq [id : Nat, user : Users, revision : Nat, proof : SUBSET Proofs]
  /\ request \in [Requests -> [at : States, kind : Kinds, user : Users \cup {"none"}, session : Nat,
                               revision : Nat, id : Nat, step : Nat, proof : SUBSET Proofs]]
  /\ accepted \subseteq Users \X Nat \X Nat
  /\ serial \in Nat

\* However administrators demote, deactivate, reset and delete each other at
\* the same time, someone who can sign in administers the site.
AdministratorRemains ==
  \E u \in Users : Active(u) /\ account[u].role = "admin" /\ HasFactor(u)

\* A session that is accepted was proved with what the account accepts now: no
\* sign-in that began under an older password, secret or passkey ends in one,
\* none outlives their replacement, and one that removes its own passkey has
\* given the password since.
SessionsAreProven ==
  \A s \in sessions : Usable(s) => s.proof # {} /\ s.proof \subseteq Credentials(s.user)

\* A pending account has nothing to sign in with but its link, although
\* sign-ins and passkey registrations may be under way when it is reset.
NoCredentialIsLeft ==
  \A u \in Users : account[u].status = "pending" =>
    ~HasFactor(u) /\ passkeys[u] = {} /\ SessionsOf(u) = {}

\* A code is accepted once, whichever requests check it at the same time and
\* whether it enrolls, signs in or authorizes.
StepUsedOnce ==
  [][\A r \in Requests :
       request[r].at = "code" /\ request'[r].at = "verified" =>
         <<request[r].user, request[r].id, request[r].step>> \notin accepted]_vars

\* Password and secret of an activated account come from the same setup, even
\* when its link is open in two browsers.
SetupIsPaired ==
  [][\A u \in Users :
       account[u].status = "pending" /\ account'[u].status = "active" =>
         account'[u].password = factor'[u].secret]_vars
=============================================================================
