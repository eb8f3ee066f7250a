------------------------ MODULE AccountAccessProofs ------------------------
(***************************************************************************)
(* Proofs about AccountAccess for any set of users and requests, any       *)
(* limits and any number of changes.                                       *)
(***************************************************************************)
EXTENDS AccountAccess, TLAPS

\* Every request but an idle one is about a user; a code has a step, and a setup
\* under way a number.
RequestInv ==
  \A r \in Requests :
    /\ request[r].at # "idle" => request[r].user \in Users
    /\ request[r].at = "code" => request[r].step \in Steps
    /\ request[r].at \in {"stored", "enrolled"} => request[r].id # NoId

TypeInv == TypeOK /\ RequestInv

\* Who may sign in has a factor, and nothing is left to sign in with without one.
AccessInv ==
  /\ \A u \in Users : Active(u) => HasFactor(u)
  /\ \A u \in Users : account[u].status \in {"none", "pending"} => ~HasFactor(u)
  /\ \A u \in Users : passkeys[u] # {} => HasFactor(u)
  /\ \A s \in sessions : HasFactor(s.user)

\* A challenge is as old as the session that asked for it.
ChallengeInv ==
  \A c \in challenges :
    /\ request[c].at \in {"challenged", "registering"}
    /\ \E s \in sessions : s.id = request[c].session /\ s.user = request[c].user

Proving == {"proven", "code", "asserted", "verified", "authorized"}

\* Good for a sign-in as long as the revision is that of the account.
Proven(user, revision, proof) == IsCurrent(user, revision) => proof \subseteq Credentials(user)

RequestIsProven(q) ==
  q.at \in Proving =>
    /\ Proven(q.user, q.revision, q.proof)
    /\ q.at = "verified" => q.proof # {}
    /\ q.at = "authorized" => \E n \in Nat : q.proof = {Password(n)}
    /\ q.at = "code" /\ IsCurrent(q.user, q.revision) => q.id = factor[q.user].secret

\* What anyone has proved is what the account accepts, unless its revision has
\* moved on; revisions are never drawn again.
SessionIsProven(s) ==
  s.revision <= serial /\ s.proof # {} /\ Proven(s.user, s.revision, s.proof)
Vouched(r) == request[r].revision <= serial /\ RequestIsProven(request[r])

ProofInv ==
  /\ \A u \in Users : account[u].revision <= serial
  /\ \A s \in sessions : SessionIsProven(s)
  /\ \A r \in Requests : Vouched(r)

CoreInv == TypeInv /\ AccessInv /\ ChallengeInv /\ AdministratorRemains

-----------------------------------------------------------------------------
(* Types.                                                                  *)

Accounts == [status : {"none", "pending", "active", "inactive"},
             role : Roles \cup {"none"}, revision : Nat, password : Nat]

Factors == [secret : Nat, last : Nat]

Setups == [id : Nat, purpose : {"none", "invitation", "credential_recovery"},
           nonce : Nat, consumed : BOOLEAN]

Sessions == [id : Nat, user : Users, revision : Nat, proof : SUBSET Proofs]

RequestRecords ==
  [at : States, kind : Kinds, user : Users \cup {"none"}, session : Nat,
   revision : Nat, id : Nat, step : Nat, proof : SUBSET Proofs]

\* What a request may become.
Sound(q) ==
  /\ q \in RequestRecords
  /\ q.at # "idle" => q.user \in Users
  /\ q.at = "code" => q.step \in Steps
  /\ q.at \in {"stored", "enrolled"} => q.id # NoId

LEMMA IdleIsSound == Sound(Idle)
BY DEF Sound, Idle, RequestRecords, States, Kinds, NoId

LEMMA Types ==
  ASSUME TypeInv
  PROVE  /\ account \in [Users -> Accounts] /\ factor \in [Users -> Factors]
         /\ setup \in [Users -> Setups] /\ passkeys \in [Users -> SUBSET Nat]
         /\ challenges \subseteq Requests /\ sessions \subseteq Sessions
         /\ request \in [Requests -> RequestRecords] /\ \A r \in Requests : Sound(request[r])
         /\ accepted \subseteq Users \X Nat \X Nat /\ serial \in Nat
<1>1. request \in [Requests -> RequestRecords]
  BY DEF TypeInv, TypeOK, RequestRecords
<1>2. \A r \in Requests : Sound(request[r])
  BY <1>1 DEF TypeInv, RequestInv, Sound
<1> QED
  BY <1>1, <1>2 DEF TypeInv, TypeOK, Accounts, Factors, Setups, Sessions

LEMMA TypesNext ==
  ASSUME account' \in [Users -> Accounts], factor' \in [Users -> Factors],
         setup' \in [Users -> Setups], passkeys' \in [Users -> SUBSET Nat],
         challenges' \subseteq Requests, sessions' \subseteq Sessions,
         request' \in [Requests -> RequestRecords], \A r \in Requests : Sound(request'[r]),
         accepted' \subseteq Users \X Nat \X Nat, serial' \in Nat
  PROVE  TypeInv'
<1>1. TypeOK'
  BY DEF TypeOK, Accounts, Factors, Setups, Sessions, RequestRecords
<1>2. RequestInv'
  BY DEF RequestInv, Sound
<1> QED
  BY <1>1, <1>2 DEF TypeInv

LEMMA MoveIsTyped ==
  ASSUME TypeInv, NEW r \in Requests, NEW q, Sound(q), Move(r, q)
  PROVE  request' \in [Requests -> RequestRecords] /\ \A t \in Requests : Sound(request'[t])
<1>1. request' = [request EXCEPT ![r] = q] /\ q \in RequestRecords
  BY DEF Move, Sound
<1>2. request \in [Requests -> RequestRecords] /\ \A t \in Requests : Sound(request[t])
  BY Types
<1> QED
  BY <1>1, <1>2

LEMMA KeepIsTyped ==
  ASSUME TypeInv, NEW kept, kept \subseteq Sessions, Keep(kept)
  PROVE  sessions' \subseteq Sessions /\ challenges' \subseteq Requests
BY Types DEF Keep, Cascade

LEMMA FreshIsTyped ==
  ASSUME TypeInv
  PROVE  Fresh \in Nat /\ Fresh > serial /\ Fresh # NoId
BY Types DEF Fresh, NoId

LEMMA ReadIsTyped ==
  ASSUME TypeInv, NEW r \in Requests, NEW q, Sound(q), Move(r, q), ReadOnly
  PROVE  TypeInv'
BY Types, TypesNext, MoveIsTyped DEF ReadOnly, accessVars

LEMMA AccountChanges ==
  ASSUME NEW a \in Accounts, NEW n \in Nat
  PROVE  /\ \A x \in {"pending", "active", "inactive"} : [a EXCEPT !.status = x, !.revision = n] \in Accounts
         /\ \A x \in Roles : [a EXCEPT !.role = x, !.revision = n] \in Accounts
BY DEF Accounts

LEMMA CarryOverIsTyped ==
  ASSUME TypeInv, NEW r \in Requests, NEW s \in sessions, NEW proof \in SUBSET Proofs,
         request[r].user \in Users, CarryOver(r, s, proof)
  PROVE  /\ request' \in [Requests -> RequestRecords] /\ \A t \in Requests : Sound(request'[t])
         /\ sessions' \subseteq Sessions /\ challenges' \subseteq Requests
         /\ account' \in [Users -> Accounts] /\ serial' \in Nat
<1>1. request' \in [Requests -> RequestRecords] /\ \A t \in Requests : Sound(request'[t])
  BY IdleIsSound, MoveIsTyped DEF CarryOver
<1>2. account' \in [Users -> Accounts] /\ serial' \in Nat
  BY Types, FreshIsTyped DEF CarryOver, Accounts, Draw
<1>3. sessions \subseteq Sessions /\ [s EXCEPT !.revision = Fresh, !.proof = proof] \in Sessions
  BY Types, FreshIsTyped DEF Sessions
<1>4. (sessions \ SessionsOf(request[r].user)) \cup {[s EXCEPT !.revision = Fresh, !.proof = proof]} \subseteq Sessions
  BY <1>3
<1>5. sessions' \subseteq Sessions /\ challenges' \subseteq Requests
  BY <1>4, KeepIsTyped DEF CarryOver
<1> QED
  BY <1>1, <1>2, <1>5

LEMMA ChangeIsTyped ==
  ASSUME TypeInv, NEW r \in Requests, NEW kinds, NEW next \in Accounts,
         request[r].user \in Users, Change(r, kinds, next)
  PROVE  /\ request' \in [Requests -> RequestRecords] /\ \A t \in Requests : Sound(request'[t])
         /\ sessions' \subseteq Sessions /\ challenges' \subseteq Requests
         /\ account' \in [Users -> Accounts] /\ serial' \in Nat /\ accepted' = accepted
<1>1. request' \in [Requests -> RequestRecords] /\ \A t \in Requests : Sound(request'[t])
  BY IdleIsSound, MoveIsTyped DEF Change
<1>2. account' \in [Users -> Accounts] /\ serial' \in Nat /\ accepted' = accepted
  BY Types, FreshIsTyped DEF Change, Draw
<1>3. sessions' \subseteq Sessions /\ challenges' \subseteq Requests
  BY Types, KeepIsTyped DEF Change, SessionsOf
<1> QED
  BY <1>1, <1>2, <1>3

LEMMA TypeStep ==
  ASSUME TypeInv, [Next]_vars
  PROVE  TypeInv'
<1> USE ConstantAssumption DEF NoId
<1>t. /\ account \in [Users -> Accounts] /\ factor \in [Users -> Factors]
      /\ setup \in [Users -> Setups] /\ passkeys \in [Users -> SUBSET Nat]
      /\ challenges \subseteq Requests /\ sessions \subseteq Sessions
      /\ request \in [Requests -> RequestRecords] /\ \A r \in Requests : Sound(request[r])
      /\ accepted \subseteq Users \X Nat \X Nat /\ serial \in Nat
  BY Types
<1>f. Fresh \in Nat /\ Fresh > serial /\ Fresh # NoId
  BY FreshIsTyped
<1>1. ASSUME NEW u \in Users, NEW kept \in SUBSET SessionsOf(u), EndSessions(u, kept)
    PROVE  TypeInv'
  <2>s. sessions' \subseteq Sessions /\ challenges' \subseteq Requests
    BY <1>1, <1>t, KeepIsTyped DEF EndSessions, SessionsOf
  <2> QED
    BY <1>1, <1>t, <1>f, <2>s, TypesNext DEF EndSessions, accessVars
<1>2. ASSUME NEW r \in Requests, NEW u \in Users, ProvePassword(r, u)
    PROVE  TypeInv'
  <2>0. account[u].revision \in Nat /\ {Password(account[u].password)} \in SUBSET Proofs
    BY <1>t DEF Accounts, Password, Proofs
  <2>1. Sound([Idle EXCEPT !.at = "proven", !.kind = "signIn", !.user = u,
                          !.revision = account[u].revision, !.proof = {Password(account[u].password)}])
    BY <1>2, <1>t, <2>0 DEF ProvePassword, Sound, RequestRecords, States, Kinds, Proofs, Idle
  <2> QED
    BY <1>2, <2>1, ReadIsTyped DEF ProvePassword
<1>3. ASSUME NEW r \in Requests, NEW s \in sessions, ProveAgain(r, s)
    PROVE  TypeInv'
  <2>1. Sound([Idle EXCEPT !.at = "proven", !.kind = "authorize", !.user = s.user, !.revision = s.revision])
    BY <1>3, <1>t DEF ProveAgain, Sound, RequestRecords, States, Kinds, Proofs, Idle, Sessions
  <2> QED
    BY <1>3, <2>1, ReadIsTyped DEF ProveAgain
<1>4. ASSUME NEW r \in Requests, NEW step \in Steps, ReadFactor(r, step)
    PROVE  TypeInv'
  <2>u. request[r] \in RequestRecords /\ request[r].user \in Users
    BY <1>4, <1>t DEF ReadFactor, Sound
  <2>1. Sound([request[r] EXCEPT !.at = "code", !.id = factor[request[r].user].secret, !.step = step])
    BY <1>4, <2>u, <1>t DEF ReadFactor, Sound, RequestRecords, States, Kinds, Proofs, Idle, Factors
  <2> QED
    BY <1>4, <2>1, ReadIsTyped DEF ReadFactor
<1>5. ASSUME NEW r \in Requests, ConsumeStep(r)
    PROVE  TypeInv'
  <2>u. request[r] \in RequestRecords /\ request[r].user \in Users
    BY <1>5, <1>t DEF ConsumeStep, Sound
  <2>0. request[r].proof \cup {Totp(request[r].id)} \in SUBSET Proofs
    BY <2>u DEF RequestRecords, Totp, Proofs
  <2>1. Sound([request[r] EXCEPT !.at = "verified", !.proof = request[r].proof \cup {Totp(request[r].id)}])
    BY <2>u, <2>0 DEF Sound, RequestRecords, States, Kinds, Proofs, Idle
  <2>r. request' \in [Requests -> RequestRecords] /\ \A t \in Requests : Sound(request'[t])
    BY <1>5, <2>1, <2>u, MoveIsTyped DEF ConsumeStep
  <2>2. request[r].id \in Nat /\ request[r].step \in Nat
    BY <2>u DEF RequestRecords
  <2>3. factor' \in [Users -> Factors]
    BY <1>5, <1>t, <2>u, <2>2 DEF ConsumeStep, Factors
  <2>4. accepted' \subseteq Users \X Nat \X Nat
    BY <1>5, <1>t, <2>u, <2>2 DEF ConsumeStep
  <2> QED
    BY <1>5, <1>t, <2>r, <2>3, <2>4, TypesNext DEF ConsumeStep
<1>6. ASSUME NEW r \in Requests, NEW u \in Users, NEW k \in passkeys[u], DiscoverPasskey(r, u, k)
    PROVE  TypeInv'
  <2>1. Sound([Idle EXCEPT !.at = "asserted", !.kind = "passwordless", !.user = u,
                          !.revision = account[u].revision, !.id = k])
    BY <1>6, <1>t DEF DiscoverPasskey, Sound, RequestRecords, States, Kinds, Proofs, Idle, Accounts
  <2> QED
    BY <1>6, <2>1, ReadIsTyped DEF DiscoverPasskey
<1>7. ASSUME NEW r \in Requests, NEW k \in passkeys[request[r].user], ChoosePasskey(r, k)
    PROVE  TypeInv'
  <2>u. request[r] \in RequestRecords /\ request[r].user \in Users
    BY <1>7, <1>t DEF ChoosePasskey, Sound
  <2>k. k \in Nat
    BY <2>u, <1>t
  <2>1. Sound([request[r] EXCEPT !.at = "asserted", !.id = k])
    BY <1>7, <2>u, <1>t, <2>k DEF ChoosePasskey, Sound, RequestRecords, States, Kinds, Proofs, Idle
  <2> QED
    BY <1>7, <2>1, ReadIsTyped DEF ChoosePasskey
<1>8. ASSUME NEW r \in Requests, CompletePasskey(r)
    PROVE  TypeInv'
  <2>u. request[r] \in RequestRecords /\ request[r].user \in Users
    BY <1>8, <1>t DEF CompletePasskey, Sound
  <2>0. request[r].proof \cup {Passkey(request[r].id)} \in SUBSET Proofs
    BY <2>u DEF RequestRecords, Passkey, Proofs
  <2>1. Sound([request[r] EXCEPT !.at = "verified", !.proof = @ \cup {Passkey(request[r].id)}])
    BY <1>8, <2>u, <1>t, <2>0 DEF CompletePasskey, Sound, RequestRecords, States, Kinds, Proofs, Idle
  <2> QED
    BY <1>8, <2>1, ReadIsTyped DEF CompletePasskey
<1>9. ASSUME NEW r \in Requests, IssueSession(r)
    PROVE  TypeInv'
  <2>u. request[r] \in RequestRecords /\ request[r].user \in Users
    BY <1>9, <1>t DEF IssueSession, Sound
  <2>r. request' \in [Requests -> RequestRecords] /\ \A t \in Requests : Sound(request'[t])
    BY <1>9, IdleIsSound, MoveIsTyped DEF IssueSession
  <2> DEFINE New == [id |-> Fresh, user |-> request[r].user, revision |-> account[request[r].user].revision,
                     proof |-> request[r].proof]
  <2>1. New \in Sessions
    BY <1>t, <1>f, <2>u DEF Sessions, Accounts, RequestRecords
  <2>2. PICK kept \in SUBSET SessionsOf(request[r].user) :
          \/ Keep((sessions \ SessionsOf(request[r].user)) \cup kept \cup {New}) /\ Draw
          \/ Keep((sessions \ SessionsOf(request[r].user)) \cup kept) /\ UNCHANGED serial
    BY <1>9 DEF IssueSession
  <2>s. sessions' \subseteq Sessions /\ challenges' \subseteq Requests
    <3>1. (sessions \ SessionsOf(request[r].user)) \cup kept \subseteq Sessions
      BY <1>t DEF SessionsOf
    <3>2. (sessions \ SessionsOf(request[r].user)) \cup kept \cup {New} \subseteq Sessions
      BY <2>1, <3>1
    <3> HIDE DEF New
    <3> QED
      BY <2>2, <3>1, <3>2, KeepIsTyped
  <2>3. serial' \in Nat
    BY <2>2, <1>t, <1>f DEF Draw
  <2> QED
    BY <1>9, <1>t, <2>r, <2>s, <2>3, TypesNext DEF IssueSession, accessVars
<1>10. ASSUME NEW r \in Requests, NEW s \in sessions, NEW kind \in {"change", "administer"}, Authorize(r, s, kind)
    PROVE  TypeInv'
  <2>0. {Password(account[s.user].password)} \in SUBSET Proofs
    BY <1>t DEF Accounts, Sessions, Password, Proofs
  <2>1. Sound([Idle EXCEPT !.at = "authorized", !.kind = kind, !.user = s.user,
                          !.session = s.id, !.revision = s.revision,
                          !.proof = {Password(account[s.user].password)}])
    BY <1>10, <1>t, <2>0 DEF Authorize, Sound, RequestRecords, States, Kinds, Proofs, Idle, Sessions
  <2> QED
    BY <1>10, <2>1, ReadIsTyped DEF Authorize
<1>11. ASSUME NEW r \in Requests, ChangePassword(r)
    PROVE  TypeInv'
  <2>u. request[r] \in RequestRecords /\ request[r].user \in Users
    BY <1>11, <1>t DEF ChangePassword, Sound, Changing
  <2>r. request' \in [Requests -> RequestRecords] /\ \A t \in Requests : Sound(request'[t])
    BY <1>11, IdleIsSound, MoveIsTyped DEF ChangePassword
  <2>s. sessions' \subseteq Sessions /\ challenges' \subseteq Requests
    BY <1>11, <1>t, KeepIsTyped DEF ChangePassword, SessionsOf
  <2>1. account' \in [Users -> Accounts]
    BY <1>11, <1>t, <1>f, <2>u DEF ChangePassword, Accounts
  <2> QED
    BY <1>11, <1>t, <1>f, <2>r, <2>s, <2>1, TypesNext DEF ChangePassword, accessVars, Draw
<1>12. ASSUME NEW r \in Requests, NEW s \in sessions, NEW step \in Steps, ReplaceTotp(r, s, step)
    PROVE  TypeInv'
  <2>u. request[r] \in RequestRecords /\ request[r].user \in Users
    BY <1>12, <1>t DEF ReplaceTotp, Sound, Changing
  <2>c. CarryOver(r, s, (s.proof \ {Totp(factor[request[r].user].secret)}) \cup {Totp(Fresh)})
    BY <1>12 DEF ReplaceTotp
  <2>p. (s.proof \ {Totp(factor[request[r].user].secret)}) \cup {Totp(Fresh)} \in SUBSET Proofs
    BY <1>t, <1>f, <2>u DEF Sessions, Proofs, Totp, Passkey, Factors
  <2>1. /\ request' \in [Requests -> RequestRecords] /\ \A t \in Requests : Sound(request'[t])
        /\ sessions' \subseteq Sessions /\ challenges' \subseteq Requests
        /\ account' \in [Users -> Accounts] /\ serial' \in Nat
    BY <2>u, <2>c, <2>p, CarryOverIsTyped
  <2>2. factor' \in [Users -> Factors] /\ accepted' \subseteq Users \X Nat \X Nat
    BY <1>12, <1>t, <1>f, <2>u DEF ReplaceTotp, Factors
  <2> QED
    BY <1>12, <1>t, <1>f, <2>1, <2>2, TypesNext DEF ReplaceTotp, accessVars
<1>13. ASSUME NEW r \in Requests, NEW s \in sessions, NEW k \in passkeys[request[r].user], RemovePasskey(r, s, k)
    PROVE  TypeInv'
  <2>u. request[r] \in RequestRecords /\ request[r].user \in Users
    BY <1>13, <1>t DEF RemovePasskey, Sound, Changing
  <2>c. CarryOver(r, s, (s.proof \ {Passkey(k)}) \cup request[r].proof)
    BY <1>13 DEF RemovePasskey
  <2>p. (s.proof \ {Passkey(k)}) \cup request[r].proof \in SUBSET Proofs
    BY <1>t, <2>u DEF Sessions, RequestRecords
  <2>1. /\ request' \in [Requests -> RequestRecords] /\ \A t \in Requests : Sound(request'[t])
        /\ sessions' \subseteq Sessions /\ challenges' \subseteq Requests
        /\ account' \in [Users -> Accounts] /\ serial' \in Nat
    BY <2>u, <2>c, <2>p, CarryOverIsTyped
  <2>2. passkeys' \in [Users -> SUBSET Nat]
    BY <1>13, <1>t, <2>u DEF RemovePasskey
  <2> QED
    BY <1>13, <1>t, <1>f, <2>1, <2>2, TypesNext DEF RemovePasskey, accessVars
<1>14. ASSUME NEW r \in Requests, NEW s \in sessions, AskForPasskey(r, s)
    PROVE  TypeInv'
  <2>u. request[r] \in RequestRecords /\ request[r].user \in Users
    BY <1>14, <1>t DEF AskForPasskey, Sound, Changing
  <2>1. Sound([request[r] EXCEPT !.at = "challenged"])
    BY <2>u DEF Sound, RequestRecords, States, Kinds, Proofs, Idle
  <2>r. request' \in [Requests -> RequestRecords] /\ \A t \in Requests : Sound(request'[t])
    BY <1>14, <2>1, MoveIsTyped DEF AskForPasskey
  <2> QED
    BY <1>14, <1>t, <1>f, <2>r, TypesNext DEF AskForPasskey, accessVars
<1>15. ASSUME NEW r \in Requests, NEW s \in sessions, AnswerChallenge(r, s)
    PROVE  TypeInv'
  <2>1. Sound([request[r] EXCEPT !.at = "registering"])
    <3> DEFINE n == [request[r] EXCEPT !.at = "registering"]
    <3>1. request[r].at = "challenged" /\ request[r] \in RequestRecords /\ request[r].user \in Users
      BY <1>15, <1>t DEF AnswerChallenge, Sound
    <3>2. n \in RequestRecords /\ n.at = "registering" /\ n.user = request[r].user
      BY <3>1 DEF RequestRecords, States
    <3> QED
      BY <3>1, <3>2 DEF Sound
  <2> QED
    BY <1>15, <2>1, ReadIsTyped DEF AnswerChallenge
<1>16. ASSUME NEW r \in Requests, RegisterPasskey(r)
    PROVE  TypeInv'
  <2>u. request[r] \in RequestRecords /\ request[r].user \in Users
    BY <1>16, <1>t DEF RegisterPasskey, Sound
  <2>r. request' \in [Requests -> RequestRecords] /\ \A t \in Requests : Sound(request'[t])
    BY <1>16, IdleIsSound, MoveIsTyped DEF RegisterPasskey
  <2>1. passkeys' \in [Users -> SUBSET Nat]
    BY <1>16, <1>t, <1>f, <2>u DEF RegisterPasskey
  <2> QED
    BY <1>16, <1>t, <1>f, <2>r, <2>1, TypesNext DEF RegisterPasskey, accessVars, Draw
<1>17. ASSUME NEW r \in Requests, NEW kind \in Inspected, NEW u \in Users, Inspect(r, kind, u)
    PROVE  TypeInv'
  <2>1. Sound([Idle EXCEPT !.at = "inspected", !.kind = kind, !.user = u, !.revision = account[u].revision])
    BY <1>17, <1>t DEF Inspect, Sound, RequestRecords, States, Kinds, Proofs, Idle, Accounts, Inspected
  <2> QED
    BY <1>17, <2>1, ReadIsTyped DEF Inspect
<1>18. ASSUME NEW r \in Requests, ChangeRole(r)
    PROVE  TypeInv'
  <2>u. request[r] \in RequestRecords /\ request[r].user \in Users
    BY <1>18, <1>t DEF ChangeRole, Sound, Change
  <2>c. Change(r, {"makeAdmin", "makeEditor"}, [account[request[r].user] EXCEPT !.role = RoleOf[request[r].kind], !.revision = Fresh])
    BY <1>18 DEF ChangeRole
  <2>p. [account[request[r].user] EXCEPT !.role = RoleOf[request[r].kind], !.revision = Fresh] \in Accounts
    <3>1. RoleOf[request[r].kind] \in Roles
      BY <2>c DEF Change, RoleOf, Roles
    <3> QED
      BY <3>1, <1>t, <1>f, <2>u, AccountChanges
  <2>1. /\ request' \in [Requests -> RequestRecords] /\ \A t \in Requests : Sound(request'[t])
        /\ sessions' \subseteq Sessions /\ challenges' \subseteq Requests
        /\ account' \in [Users -> Accounts] /\ serial' \in Nat /\ accepted' = accepted
    BY <2>u, <2>c, <2>p, ChangeIsTyped
  <2> QED
    BY <1>18, <1>t, <1>f, <2>1, TypesNext DEF ChangeRole, accessVars
<1>19. ASSUME NEW r \in Requests, Activate(r)
    PROVE  TypeInv'
  <2>u. request[r] \in RequestRecords /\ request[r].user \in Users
    BY <1>19, <1>t DEF Activate, Sound, Change
  <2>c. Change(r, {"activate"}, [account[request[r].user] EXCEPT !.status = "active", !.revision = Fresh])
    BY <1>19 DEF Activate
  <2>p. [account[request[r].user] EXCEPT !.status = "active", !.revision = Fresh] \in Accounts
    BY <1>19, <1>t, <1>f, <2>u, AccountChanges DEF Activate, Change, RoleOf
  <2>1. /\ request' \in [Requests -> RequestRecords] /\ \A t \in Requests : Sound(request'[t])
        /\ sessions' \subseteq Sessions /\ challenges' \subseteq Requests
        /\ account' \in [Users -> Accounts] /\ serial' \in Nat /\ accepted' = accepted
    BY <2>u, <2>c, <2>p, ChangeIsTyped
  <2> QED
    BY <1>19, <1>t, <1>f, <2>1, TypesNext DEF Activate, accessVars
<1>20. ASSUME NEW r \in Requests, Deactivate(r)
    PROVE  TypeInv'
  <2>u. request[r] \in RequestRecords /\ request[r].user \in Users
    BY <1>20, <1>t DEF Deactivate, Sound, Change
  <2>c. Change(r, {"deactivate"}, [account[request[r].user] EXCEPT !.status = "inactive", !.revision = Fresh])
    BY <1>20 DEF Deactivate
  <2>p. [account[request[r].user] EXCEPT !.status = "inactive", !.revision = Fresh] \in Accounts
    BY <1>20, <1>t, <1>f, <2>u, AccountChanges DEF Deactivate, Change, RoleOf
  <2>1. /\ request' \in [Requests -> RequestRecords] /\ \A t \in Requests : Sound(request'[t])
        /\ sessions' \subseteq Sessions /\ challenges' \subseteq Requests
        /\ account' \in [Users -> Accounts] /\ serial' \in Nat /\ accepted' = accepted
    BY <2>u, <2>c, <2>p, ChangeIsTyped
  <2>2. setup' \in [Users -> Setups]
    BY <1>20, <1>t, <1>f, <2>u DEF Deactivate, Setups, NoSetup, Link
  <2> QED
    BY <1>20, <1>t, <1>f, <2>1, <2>2, TypesNext DEF Deactivate, accessVars
<1>21. ASSUME NEW r \in Requests, Reissue(r)
    PROVE  TypeInv'
  <2>u. request[r] \in RequestRecords /\ request[r].user \in Users
    BY <1>21, <1>t DEF Reissue, Sound, Change
  <2>c. Change(r, {"reissue"}, [account[request[r].user] EXCEPT !.status = "pending", !.revision = Fresh])
    BY <1>21 DEF Reissue
  <2>p. [account[request[r].user] EXCEPT !.status = "pending", !.revision = Fresh] \in Accounts
    BY <1>21, <1>t, <1>f, <2>u, AccountChanges DEF Reissue, Change, RoleOf
  <2>1. /\ request' \in [Requests -> RequestRecords] /\ \A t \in Requests : Sound(request'[t])
        /\ sessions' \subseteq Sessions /\ challenges' \subseteq Requests
        /\ account' \in [Users -> Accounts] /\ serial' \in Nat /\ accepted' = accepted
    BY <2>u, <2>c, <2>p, ChangeIsTyped
  <2>2. setup' \in [Users -> Setups]
    BY <1>21, <1>t, <1>f, <2>u DEF Reissue, Setups, NoSetup, Link
  <2> QED
    BY <1>21, <1>t, <1>f, <2>1, <2>2, TypesNext DEF Reissue, accessVars
<1>22. ASSUME NEW r \in Requests, ResetAccess(r)
    PROVE  TypeInv'
  <2>u. request[r] \in RequestRecords /\ request[r].user \in Users
    BY <1>22, <1>t DEF ResetAccess, Sound, Change
  <2>c. Change(r, {"reset"}, [account[request[r].user] EXCEPT !.status = "pending", !.revision = Fresh])
    BY <1>22 DEF ResetAccess
  <2>p. [account[request[r].user] EXCEPT !.status = "pending", !.revision = Fresh] \in Accounts
    BY <1>22, <1>t, <1>f, <2>u, AccountChanges DEF ResetAccess, Change, RoleOf
  <2>1. /\ request' \in [Requests -> RequestRecords] /\ \A t \in Requests : Sound(request'[t])
        /\ sessions' \subseteq Sessions /\ challenges' \subseteq Requests
        /\ account' \in [Users -> Accounts] /\ serial' \in Nat /\ accepted' = accepted
    BY <2>u, <2>c, <2>p, ChangeIsTyped
  <2>2. setup' \in [Users -> Setups]
    BY <1>22, <1>t, <1>f, <2>u DEF ResetAccess, Setups, NoSetup, Link
  <2>3. factor' \in [Users -> Factors] /\ passkeys' \in [Users -> SUBSET Nat]
    BY <1>22, <1>t, <2>u DEF ResetAccess, Factors, NoFactor
  <2> QED
    BY <1>22, <1>t, <1>f, <2>1, <2>2, <2>3, TypesNext DEF ResetAccess, accessVars
<1>23. ASSUME NEW r \in Requests, NEW u \in Users, NEW role \in Roles, Invite(r, u, role)
    PROVE  TypeInv'
  <2>r. request' \in [Requests -> RequestRecords] /\ \A t \in Requests : Sound(request'[t])
    BY <1>23, IdleIsSound, MoveIsTyped DEF Invite
  <2>1. account' \in [Users -> Accounts]
    BY <1>23, <1>t, <1>f DEF Invite, Accounts, Opened
  <2>2. setup' \in [Users -> Setups]
    BY <1>23, <1>t, <1>f DEF Invite, Setups, Link
  <2> QED
    BY <1>23, <1>t, <1>f, <2>r, <2>1, <2>2, TypesNext DEF Invite, accessVars, Draw
<1>24. ASSUME NEW r \in Requests, NEW u \in Users, DeleteAccount(r, u)
    PROVE  TypeInv'
  <2>r. request' \in [Requests -> RequestRecords] /\ \A t \in Requests : Sound(request'[t])
    BY <1>24, IdleIsSound, MoveIsTyped DEF DeleteAccount
  <2>s. sessions' \subseteq Sessions /\ challenges' \subseteq Requests
    BY <1>24, <1>t, KeepIsTyped DEF DeleteAccount, SessionsOf
  <2>1. account' \in [Users -> Accounts] /\ setup' \in [Users -> Setups]
    BY <1>24, <1>t DEF DeleteAccount, Accounts, NoAccount, Setups, NoSetup
  <2>2. factor' \in [Users -> Factors] /\ passkeys' \in [Users -> SUBSET Nat]
    BY <1>24, <1>t DEF DeleteAccount, Factors, NoFactor
  <2> QED
    BY <1>24, <1>t, <1>f, <2>r, <2>s, <2>1, <2>2, TypesNext DEF DeleteAccount, accessVars
<1>25. ASSUME NEW r \in Requests, NEW u \in Users, StoreSetup(r, u)
    PROVE  TypeInv'
  <2>0. setup[u].id \in Nat
    BY <1>t DEF Setups
  <2>1. Sound([Idle EXCEPT !.at = "stored", !.kind = "setup", !.user = u, !.session = setup[u].id, !.id = Fresh])
    BY <2>0, <1>f DEF Sound, RequestRecords, States, Kinds, Proofs, Idle
  <2>r. request' \in [Requests -> RequestRecords] /\ \A t \in Requests : Sound(request'[t])
    BY <1>25, <2>1, MoveIsTyped DEF StoreSetup
  <2>2. setup' \in [Users -> Setups]
    BY <1>25, <1>t, <1>f DEF StoreSetup, Setups
  <2> QED
    BY <1>25, <1>t, <1>f, <2>r, <2>2, TypesNext DEF StoreSetup, accessVars, Draw
<1>26. ASSUME NEW r \in Requests, ReadSetup(r)
    PROVE  TypeInv'
  <2>u. request[r] \in RequestRecords /\ request[r].user \in Users
    BY <1>26, <1>t DEF ReadSetup, Sound
  <2>1. Sound([request[r] EXCEPT !.at = "enrolled", !.revision = account[request[r].user].revision])
    BY <1>26, <2>u, <1>t DEF ReadSetup, Sound, RequestRecords, States, Kinds, Proofs, Idle, Accounts
  <2> QED
    BY <1>26, <2>1, ReadIsTyped DEF ReadSetup
<1>27. ASSUME NEW r \in Requests, NEW step \in Steps, CompleteSetup(r, step)
    PROVE  TypeInv'
  <2>u. request[r] \in RequestRecords /\ request[r].user \in Users
    BY <1>27, <1>t DEF CompleteSetup, Sound
  <2>r. request' \in [Requests -> RequestRecords] /\ \A t \in Requests : Sound(request'[t])
    BY <1>27, IdleIsSound, MoveIsTyped DEF CompleteSetup
  <2>0. request[r].id \in Nat /\ setup[request[r].user].nonce \in Nat /\ step \in Nat
    BY <1>t, <2>u DEF RequestRecords, Setups
  <2>1. account' \in [Users -> Accounts]
    <3>1. [account[request[r].user] EXCEPT !.status = "active", !.password = setup[request[r].user].nonce,
                                           !.revision = Fresh] \in Accounts
      BY <1>t, <1>f, <2>u, <2>0 DEF Accounts
    <3> QED
      BY <1>27, <1>t, <2>u, <3>1 DEF CompleteSetup
  <2>2. factor' \in [Users -> Factors] /\ accepted' \subseteq Users \X Nat \X Nat
    BY <1>27, <1>t, <2>u, <2>0 DEF CompleteSetup, Factors
  <2>3. setup' \in [Users -> Setups]
    BY <1>27, <1>t, <2>u DEF CompleteSetup, Setups
  <2> QED
    BY <1>27, <1>t, <1>f, <2>r, <2>1, <2>2, <2>3, TypesNext DEF CompleteSetup, accessVars, Draw
<1>28. ASSUME NEW r \in Requests, Stop(r)
    PROVE  TypeInv'
  <2>r. request' \in [Requests -> RequestRecords] /\ \A t \in Requests : Sound(request'[t])
    BY <1>28, IdleIsSound, MoveIsTyped DEF Stop
  <2> QED
    BY <1>28, <1>t, <1>f, <2>r, TypesNext DEF Stop, accessVars
<1>29. CASE UNCHANGED vars
  BY <1>29, <1>t, TypesNext DEF vars, accessVars
<1> QED
  BY <1>1, <1>2, <1>3, <1>4, <1>5, <1>6, <1>7, <1>8, <1>9, <1>10, <1>11, <1>12, <1>13, <1>14, <1>15, <1>16, <1>17, <1>18, <1>19, <1>20, <1>21, <1>22, <1>23, <1>24, <1>25, <1>26, <1>27, <1>28, <1>29
     DEF Next, SignIn, OwnChange, Administration, Setup

LEMMA TypeInit == Init => TypeInv
<1> SUFFICES ASSUME Init PROVE TypeInv
  OBVIOUS
<1>1. PICK admins \in (SUBSET Users) \ {{}} : \E invited \in [Users \ admins -> Roles \cup {"none"}] :
    Installed(admins, invited)
  BY DEF Init
<1>2. PICK invited \in [Users \ admins -> Roles \cup {"none"}] : Installed(admins, invited)
  BY <1>1
<1>3. account \in [Users -> Accounts]
  <2>1. Opened("active", "admin", 1) \in Accounts /\ NoAccount \in Accounts
    BY DEF Accounts, Opened, NoAccount, NoId, Roles
  <2>2. \A role \in Roles : Opened("pending", role, 1) \in Accounts
    BY DEF Accounts, Opened
  <2> QED
    BY <1>2, <2>1, <2>2 DEF Installed
<1>4. factor \in [Users -> Factors] /\ setup \in [Users -> Setups]
  BY <1>2 DEF Installed, Factors, NoFactor, Setups, NoSetup, Link, NoId
<1>5. {Password(1), Totp(1)} \in SUBSET Proofs
  BY DEF Password, Totp, Proofs
<1>6. sessions \subseteq Sessions
  BY <1>2, <1>5 DEF Installed, Sessions
<1>7. request \in [Requests -> RequestRecords] /\ \A r \in Requests : Sound(request[r])
  BY <1>2, IdleIsSound DEF Installed, Sound
<1>8. TypeOK
  BY <1>2, <1>3, <1>4, <1>6, <1>7 DEF Installed, TypeOK, Accounts, Factors, Setups, Sessions, RequestRecords
<1> QED
  BY <1>7, <1>8 DEF TypeInv, RequestInv, Sound

\* Every value has its type, and every request but an idle one is about a user.
THEOREM TypeCorrect == Spec => []TypeOK
<1>1. TypeInv => TypeOK
  BY DEF TypeInv
<1> QED
  BY <1>1, TypeInit, TypeStep, PTL DEF Spec

-----------------------------------------------------------------------------
(* Administrators, and what is left of an account.                         *)

LEMMA CoreInit == Init => CoreInv
<1> SUFFICES ASSUME Init PROVE CoreInv
  OBVIOUS
<1>1. PICK admins \in (SUBSET Users) \ {{}} : \E invited \in [Users \ admins -> Roles \cup {"none"}] :
    Installed(admins, invited)
  BY DEF Init
<1>2. PICK invited \in [Users \ admins -> Roles \cup {"none"}] : Installed(admins, invited)
  BY <1>1
<1>3. \A u \in Users : (HasFactor(u) <=> u \in admins) /\ (Active(u) <=> u \in admins)
  BY <1>2 DEF Installed, HasFactor, Active, NoFactor, Opened, NoAccount, NoId
<1>4. AdministratorRemains
  <2>0. admins # {}
    OBVIOUS
  <2>1. PICK u \in admins : u \in Users
    BY <2>0
  <2>2. account[u].role = "admin"
    BY <1>2 DEF Installed, Opened
  <2> QED
    BY <1>3, <2>1, <2>2 DEF AdministratorRemains
<1>5. \A u \in Users : account[u].status \in {"none", "pending"} => u \notin admins
  BY <1>2 DEF Installed, Opened, NoAccount
<1>6. \A s \in sessions : s.user \in admins
  BY <1>2 DEF Installed
<1>7. AccessInv
  BY <1>2, <1>3, <1>5, <1>6 DEF AccessInv, Installed
<1>8. ChallengeInv
  BY <1>2 DEF ChallengeInv, Installed
<1> QED
  BY <1>4, <1>7, <1>8, TypeInit DEF CoreInv

\* Steps that change neither status nor role of a user, nor whether there is a factor.
LEMMA StableAccess ==
  ASSUME CoreInv,
         \A u \in Users :
           /\ account'[u].status = account[u].status /\ account'[u].role = account[u].role
           /\ HasFactor(u)' <=> HasFactor(u)
           /\ passkeys'[u] # {} => HasFactor(u),
         \A s \in sessions' : s.user \in Users /\ HasFactor(s.user)
  PROVE  AccessInv' /\ AdministratorRemains'
BY DEF CoreInv, AccessInv, AdministratorRemains, Active

LEMMA ChallengesOfKept ==
  ASSUME CoreInv, NEW kept, Keep(kept), NEW r \in Requests \ challenges, NEW q, Move(r, q)
  PROVE  ChallengeInv'
<1>1. \A c \in challenges' :
        /\ c \in challenges /\ c # r /\ c \in Requests
        /\ \E s \in kept : s.id = request[c].session /\ s.user = request[c].user
  BY Types DEF Keep, Cascade, CoreInv
<1>2. \A c \in challenges' : request'[c] = request[c]
  BY <1>1, Types DEF Move, CoreInv
<1> QED
  BY <1>1, <1>2 DEF Keep, ChallengeInv, CoreInv

LEMMA ChallengesOfStable ==
  ASSUME CoreInv, sessions' = sessions, challenges' \subseteq challenges,
         NEW r \in Requests, NEW q, Move(r, q),
         r \in challenges' =>
           q.at \in {"challenged", "registering"} /\ q.user = request[r].user /\ q.session = request[r].session
  PROVE  ChallengeInv'
<1>1. request' = [request EXCEPT ![r] = q] /\ request \in [Requests -> RequestRecords] /\ challenges \subseteq Requests
  BY Types DEF Move, CoreInv
<1>2. \A c \in challenges' : c = r \/ request'[c] = request[c]
  BY <1>1
<1>3. r \in challenges' => request'[r] = q
  BY <1>1
<1> QED
  BY <1>2, <1>3 DEF ChallengeInv, CoreInv

\* Steps that change one user, who was no administrator, stays one or has a colleague.
LEMMA AdministratorStays ==
  ASSUME CoreInv, NEW u \in Users,
         \A v \in Users \ {u} : account'[v] = account[v] /\ factor'[v] = factor[v],
         \/ ~Active(u) \/ account[u].role # "admin" \/ OtherAdmin(u)
         \/ account'[u].status = "active" /\ account'[u].role = "admin" /\ HasFactor(u)'
  PROVE  AdministratorRemains'
<1>1. PICK w \in Users : Active(w) /\ account[w].role = "admin" /\ HasFactor(w)
  BY DEF CoreInv, AdministratorRemains
<1>2. CASE w # u
  BY <1>1, <1>2 DEF AdministratorRemains, Active, HasFactor
<1>3. CASE w = u /\ OtherAdmin(u)
  <2>1. PICK v \in Users \ {u} : Active(v) /\ account[v].role = "admin"
    BY <1>3 DEF OtherAdmin
  <2>2. HasFactor(v)
    BY <2>1 DEF CoreInv, AccessInv
  <2> QED
    BY <2>1, <2>2 DEF AdministratorRemains, Active, HasFactor
<1>4. CASE w = u /\ ~OtherAdmin(u)
  BY <1>1, <1>4 DEF AdministratorRemains, Active
<1> QED
  BY <1>2, <1>3, <1>4

LEMMA ChangeIsLocal ==
  ASSUME CoreInv, NEW r \in Requests, request[r].user \in Users, NEW kinds, NEW next, Change(r, kinds, next)
  PROVE  /\ account' = [account EXCEPT ![request[r].user] = next] /\ account'[request[r].user] = next
         /\ \A v \in Users \ {request[r].user} : account'[v] = account[v]
         /\ \A s \in sessions' : s \in sessions /\ s.user # request[r].user
         /\ Allows(request[r].user, request[r].kind) /\ LeavesAdmin(request[r].user, request[r].kind)
         /\ request[r].kind \in kinds
         /\ ChallengeInv'
<1>1. r \in Requests \ challenges
  BY DEF CoreInv, ChallengeInv, Change
<1>2. ChallengeInv'
  BY <1>1, ChallengesOfKept DEF Change
<1> QED
  BY <1>2, Types DEF CoreInv, Change, Keep, SessionsOf, MayChange

LEMMA CoreStep ==
  ASSUME CoreInv, [Next]_vars
  PROVE  CoreInv'
<1> USE ConstantAssumption DEF NoId
<1>t. /\ account \in [Users -> Accounts] /\ factor \in [Users -> Factors]
      /\ setup \in [Users -> Setups] /\ passkeys \in [Users -> SUBSET Nat]
      /\ challenges \subseteq Requests /\ sessions \subseteq Sessions
      /\ request \in [Requests -> RequestRecords] /\ \A r \in Requests : Sound(request[r])
      /\ accepted \subseteq Users \X Nat \X Nat /\ serial \in Nat
  BY Types DEF CoreInv
<1>f. Fresh \in Nat /\ Fresh > serial /\ Fresh # NoId
  BY FreshIsTyped DEF CoreInv
<1>y. TypeInv'
  BY TypeStep DEF CoreInv
<1>a. AccessInv /\ ChallengeInv /\ AdministratorRemains
  BY DEF CoreInv
<1>s. \A s \in sessions : s.user \in Users
  BY <1>t DEF Sessions
<1>b. \A r \in challenges : request[r].at \in {"challenged", "registering"}
  BY <1>a DEF ChallengeInv
<1>1. ASSUME NEW u \in Users, NEW kept \in SUBSET SessionsOf(u), EndSessions(u, kept)
    PROVE  CoreInv'
  <2>1. AccessInv' /\ AdministratorRemains'
    BY <1>1, <1>a, <1>s, StableAccess DEF EndSessions, accessVars, AccessInv, Keep, SessionsOf, HasFactor
  <2>2. ChallengeInv'
    BY <1>1, <1>a DEF EndSessions, Keep, Cascade, ChallengeInv
  <2> QED
    BY <2>1, <2>2, <1>y DEF CoreInv
<1>2. ASSUME NEW r \in Requests, NEW u \in Users, ProvePassword(r, u)
    PROVE  CoreInv'
  <2>1. AccessInv' /\ AdministratorRemains'
    BY <1>2, <1>a, <1>s, StableAccess DEF ProvePassword, ReadOnly, accessVars, AccessInv, HasFactor
  <2>2. ChallengeInv'
    <3>1. r \notin challenges
      BY <1>2, <1>b DEF ProvePassword, Idle
    <3> QED
      BY <1>2, <3>1, ChallengesOfStable DEF ProvePassword, ReadOnly
  <2> QED
    BY <2>1, <2>2, <1>y DEF CoreInv
<1>3. ASSUME NEW r \in Requests, NEW s \in sessions, ProveAgain(r, s)
    PROVE  CoreInv'
  <2>1. AccessInv' /\ AdministratorRemains'
    BY <1>3, <1>a, <1>s, StableAccess DEF ProveAgain, ReadOnly, accessVars, AccessInv, HasFactor
  <2>2. ChallengeInv'
    <3>1. r \notin challenges
      BY <1>3, <1>b DEF ProveAgain, Idle
    <3> QED
      BY <1>3, <3>1, ChallengesOfStable DEF ProveAgain, ReadOnly
  <2> QED
    BY <2>1, <2>2, <1>y DEF CoreInv
<1>4. ASSUME NEW r \in Requests, NEW step \in Steps, ReadFactor(r, step)
    PROVE  CoreInv'
  <2>1. AccessInv' /\ AdministratorRemains'
    BY <1>4, <1>a, <1>s, StableAccess DEF ReadFactor, ReadOnly, accessVars, AccessInv, HasFactor
  <2>2. ChallengeInv'
    <3>1. r \notin challenges
      BY <1>4, <1>b DEF ReadFactor
    <3> QED
      BY <1>4, <3>1, ChallengesOfStable DEF ReadFactor, ReadOnly
  <2> QED
    BY <2>1, <2>2, <1>y DEF CoreInv
<1>5. ASSUME NEW r \in Requests, ConsumeStep(r)
    PROVE  CoreInv'
  <2>u. request[r] \in RequestRecords /\ request[r].user \in Users
    BY <1>5, <1>t DEF ConsumeStep, Sound
  <2>1. AccessInv' /\ AdministratorRemains'
    <3>1. factor[request[r].user].last \in Nat /\ request[r].step \in Nat
      BY <1>t, <2>u DEF Factors, RequestRecords
    <3>2. factor'[request[r].user].last # 0
      BY <1>5, <1>t, <2>u, <3>1 DEF ConsumeStep, IsUnused, Factors
    <3>3. \A u \in Users : HasFactor(u)' <=> HasFactor(u)
      BY <1>5, <1>t, <2>u, <3>2 DEF ConsumeStep, HasFactor, NoFactor
    <3> QED
      BY <1>5, <1>a, <1>s, <3>3, StableAccess DEF ConsumeStep, AccessInv
  <2>3. ChallengeInv'
    <3>1. r \in Requests \ challenges
      BY <1>5, <1>b DEF ConsumeStep
    <3> QED
      BY <1>5, <3>1, ChallengesOfStable DEF ConsumeStep
  <2> QED
    BY <2>1, <2>3, <1>y DEF CoreInv
<1>6. ASSUME NEW r \in Requests, NEW u \in Users, NEW k \in passkeys[u], DiscoverPasskey(r, u, k)
    PROVE  CoreInv'
  <2>1. AccessInv' /\ AdministratorRemains'
    BY <1>6, <1>a, <1>s, StableAccess DEF DiscoverPasskey, ReadOnly, accessVars, AccessInv, HasFactor
  <2>2. ChallengeInv'
    <3>1. r \notin challenges
      BY <1>6, <1>b DEF DiscoverPasskey, Idle
    <3> QED
      BY <1>6, <3>1, ChallengesOfStable DEF DiscoverPasskey, ReadOnly
  <2> QED
    BY <2>1, <2>2, <1>y DEF CoreInv
<1>7. ASSUME NEW r \in Requests, NEW k \in passkeys[request[r].user], ChoosePasskey(r, k)
    PROVE  CoreInv'
  <2>1. AccessInv' /\ AdministratorRemains'
    BY <1>7, <1>a, <1>s, StableAccess DEF ChoosePasskey, ReadOnly, accessVars, AccessInv, HasFactor
  <2>2. ChallengeInv'
    <3>1. r \notin challenges
      BY <1>7, <1>b DEF ChoosePasskey
    <3> QED
      BY <1>7, <3>1, ChallengesOfStable DEF ChoosePasskey, ReadOnly
  <2> QED
    BY <2>1, <2>2, <1>y DEF CoreInv
<1>8. ASSUME NEW r \in Requests, CompletePasskey(r)
    PROVE  CoreInv'
  <2>1. AccessInv' /\ AdministratorRemains'
    BY <1>8, <1>a, <1>s, StableAccess DEF CompletePasskey, ReadOnly, accessVars, AccessInv, HasFactor
  <2>2. ChallengeInv'
    <3>1. r \notin challenges
      BY <1>8, <1>b DEF CompletePasskey
    <3> QED
      BY <1>8, <3>1, ChallengesOfStable DEF CompletePasskey, ReadOnly
  <2> QED
    BY <2>1, <2>2, <1>y DEF CoreInv
<1>9. ASSUME NEW r \in Requests, IssueSession(r)
    PROVE  CoreInv'
  <2>u. request[r] \in RequestRecords /\ request[r].user \in Users
    BY <1>9, <1>t DEF IssueSession, Sound
  <2>1. AccessInv' /\ AdministratorRemains'
    <3>1. \A s \in sessions' : s \in sessions \/ (s.user = request[r].user /\ Active(request[r].user))
      BY <1>9 DEF IssueSession, Keep, SessionsOf, MayIssue, IsCurrent
    <3> QED
      BY <1>9, <1>a, <1>s, <2>u, <3>1, StableAccess DEF IssueSession, accessVars, AccessInv, HasFactor
  <2>3. ChallengeInv'
    <3>1. r \in Requests \ challenges
      BY <1>9, <1>b DEF IssueSession
    <3>2. PICK kept : Keep(kept)
      BY <1>9 DEF IssueSession
    <3> QED
      BY <1>9, <3>1, <3>2, ChallengesOfKept DEF IssueSession
  <2> QED
    BY <2>1, <2>3, <1>y DEF CoreInv
<1>10. ASSUME NEW r \in Requests, NEW s \in sessions, NEW kind \in {"change", "administer"}, Authorize(r, s, kind)
    PROVE  CoreInv'
  <2>1. AccessInv' /\ AdministratorRemains'
    BY <1>10, <1>a, <1>s, StableAccess DEF Authorize, ReadOnly, accessVars, AccessInv, HasFactor
  <2>2. ChallengeInv'
    <3>1. r \notin challenges
      BY <1>10, <1>b DEF Authorize, Idle
    <3> QED
      BY <1>10, <3>1, ChallengesOfStable DEF Authorize, ReadOnly
  <2> QED
    BY <2>1, <2>2, <1>y DEF CoreInv
<1>11. ASSUME NEW r \in Requests, ChangePassword(r)
    PROVE  CoreInv'
  <2>u. request[r] \in RequestRecords /\ request[r].user \in Users
    BY <1>11, <1>t DEF ChangePassword, Sound, Changing
  <2>1. AccessInv' /\ AdministratorRemains'
    <3>1. \A u \in Users : account'[u].status = account[u].status /\ account'[u].role = account[u].role
      BY <1>11, <1>t, <2>u DEF ChangePassword, Accounts
    <3> QED
      BY <1>11, <1>a, <1>s, <3>1, StableAccess DEF ChangePassword, accessVars, AccessInv, HasFactor, Keep, SessionsOf
  <2>3. ChallengeInv'
    <3>1. r \in Requests \ challenges
      BY <1>11, <1>b DEF ChangePassword, Changing
    <3> QED
      BY <1>11, <3>1, ChallengesOfKept DEF ChangePassword
  <2> QED
    BY <2>1, <2>3, <1>y DEF CoreInv
<1>12. ASSUME NEW r \in Requests, NEW s \in sessions, NEW step \in Steps, ReplaceTotp(r, s, step)
    PROVE  CoreInv'
  <2>u. request[r] \in RequestRecords /\ request[r].user \in Users
    BY <1>12, <1>t DEF ReplaceTotp, Sound, Changing
  <2>c. CarryOver(r, s, (s.proof \ {Totp(factor[request[r].user].secret)}) \cup {Totp(Fresh)})
    BY <1>12 DEF ReplaceTotp
  <2>1. AccessInv' /\ AdministratorRemains'
    <3>1. \A u \in Users : account'[u].status = account[u].status /\ account'[u].role = account[u].role
      BY <1>t, <2>c, <2>u DEF CarryOver, Accounts
    <3>2. \A t \in sessions' : t \in sessions \/ t.user = s.user
      BY <1>t, <2>c DEF CarryOver, Keep, Sessions
    <3>3. \A u \in Users : HasFactor(u)' <=> HasFactor(u)
      BY <1>12, <1>t, <1>f, <2>u DEF ReplaceTotp, HasFactor, NoFactor
    <3> QED
      BY <1>12, <1>a, <1>s, <3>1, <3>2, <3>3, StableAccess DEF ReplaceTotp, AccessInv
  <2>3. ChallengeInv'
    <3>1. r \in Requests \ challenges
      BY <1>12, <1>b DEF ReplaceTotp, Changing
    <3> QED
      BY <2>c, <3>1, ChallengesOfKept DEF CarryOver
  <2> QED
    BY <2>1, <2>3, <1>y DEF CoreInv
<1>13. ASSUME NEW r \in Requests, NEW s \in sessions, NEW k \in passkeys[request[r].user], RemovePasskey(r, s, k)
    PROVE  CoreInv'
  <2>u. request[r] \in RequestRecords /\ request[r].user \in Users
    BY <1>13, <1>t DEF RemovePasskey, Sound, Changing
  <2>c. CarryOver(r, s, (s.proof \ {Passkey(k)}) \cup request[r].proof)
    BY <1>13 DEF RemovePasskey
  <2>1. AccessInv' /\ AdministratorRemains'
    <3>1. \A u \in Users : account'[u].status = account[u].status /\ account'[u].role = account[u].role
      BY <1>t, <2>c, <2>u DEF CarryOver, Accounts
    <3>2. \A t \in sessions' : t \in sessions \/ t.user = s.user
      BY <1>t, <2>c DEF CarryOver, Keep, Sessions
    <3>3. \A u \in Users : passkeys'[u] # {} => passkeys[u] # {}
      BY <1>13, <1>t, <2>u DEF RemovePasskey
    <3> QED
      BY <1>13, <1>a, <1>s, <3>1, <3>2, <3>3, StableAccess DEF RemovePasskey, AccessInv, HasFactor
  <2>3. ChallengeInv'
    <3>1. r \in Requests \ challenges
      BY <1>13, <1>b DEF RemovePasskey, Changing
    <3> QED
      BY <2>c, <3>1, ChallengesOfKept DEF CarryOver
  <2> QED
    BY <2>1, <2>3, <1>y DEF CoreInv
<1>14. ASSUME NEW r \in Requests, NEW s \in sessions, AskForPasskey(r, s)
    PROVE  CoreInv'
  <2>u. request[r] \in RequestRecords /\ request[r].user \in Users
    BY <1>14, <1>t DEF AskForPasskey, Sound, Changing
  <2>1. AccessInv' /\ AdministratorRemains'
    BY <1>14, <1>a, <1>s, StableAccess DEF AskForPasskey, accessVars, AccessInv, HasFactor
  <2>3. ChallengeInv'
    <3>1. r \in Requests \ challenges
      BY <1>14, <1>b DEF AskForPasskey, Changing
    <3>2. \A c \in challenges : request'[c] = request[c]
      BY <1>14, <1>t, <3>1 DEF AskForPasskey, Move
    <3>3. request'[r].at = "challenged" /\ request'[r].session = request[r].session /\ request'[r].user = request[r].user
      BY <1>14, <1>t DEF AskForPasskey, Move, RequestRecords
    <3> QED
      BY <1>14, <1>a, <3>2, <3>3 DEF AskForPasskey, ChallengeInv, CameWith
  <2> QED
    BY <2>1, <2>3, <1>y DEF CoreInv
<1>15. ASSUME NEW r \in Requests, NEW s \in sessions, AnswerChallenge(r, s)
    PROVE  CoreInv'
  <2>1. AccessInv' /\ AdministratorRemains'
    BY <1>15, <1>a, <1>s, StableAccess DEF AnswerChallenge, ReadOnly, accessVars, AccessInv, HasFactor
  <2>2. ChallengeInv'
    <3> DEFINE n == [request[r] EXCEPT !.at = "registering"]
    <3>1. n.at = "registering" /\ n.user = request[r].user /\ n.session = request[r].session
      BY <1>t DEF RequestRecords
    <3>2. Move(r, n)
      BY <1>15 DEF AnswerChallenge
    <3> HIDE DEF n
    <3> QED
      BY <1>15, <3>1, <3>2, ChallengesOfStable DEF AnswerChallenge, ReadOnly
  <2> QED
    BY <2>1, <2>2, <1>y DEF CoreInv
<1>16. ASSUME NEW r \in Requests, RegisterPasskey(r)
    PROVE  CoreInv'
  <2>u. request[r] \in RequestRecords /\ request[r].user \in Users
    BY <1>16, <1>t DEF RegisterPasskey, Sound
  <2>1. AccessInv' /\ AdministratorRemains'
    <3>1. HasFactor(request[r].user)
      BY <1>16, <1>a DEF RegisterPasskey, HasChallenge, ChallengeInv, AccessInv
    <3>2. \A u \in Users : u = request[r].user \/ passkeys'[u] = passkeys[u]
      BY <1>16, <1>t DEF RegisterPasskey
    <3> QED
      BY <1>16, <1>a, <1>s, <3>1, <3>2, StableAccess DEF RegisterPasskey, AccessInv, HasFactor
  <2>3. ChallengeInv'
    BY <1>16, ChallengesOfStable DEF RegisterPasskey
  <2> QED
    BY <2>1, <2>3, <1>y DEF CoreInv
<1>17. ASSUME NEW r \in Requests, NEW kind \in Inspected, NEW u \in Users, Inspect(r, kind, u)
    PROVE  CoreInv'
  <2>1. AccessInv' /\ AdministratorRemains'
    BY <1>17, <1>a, <1>s, StableAccess DEF Inspect, ReadOnly, accessVars, AccessInv, HasFactor
  <2>2. ChallengeInv'
    <3>1. r \notin challenges
      BY <1>17, <1>b DEF Inspect, Administering
    <3> QED
      BY <1>17, <3>1, ChallengesOfStable DEF Inspect, ReadOnly
  <2> QED
    BY <2>1, <2>2, <1>y DEF CoreInv
<1>18. ASSUME NEW r \in Requests, ChangeRole(r)
    PROVE  CoreInv'
  <2>u. request[r] \in RequestRecords /\ request[r].user \in Users
    BY <1>18, <1>t DEF ChangeRole, Sound, Change
  <2>c. Change(r, {"makeAdmin", "makeEditor"}, [account[request[r].user] EXCEPT !.role = RoleOf[request[r].kind], !.revision = Fresh])
    BY <1>18 DEF ChangeRole
  <2>v. PICK u \in Users : u = request[r].user
    BY <2>u
  <2>1. /\ account'[u] = [account[request[r].user] EXCEPT !.role = RoleOf[request[r].kind], !.revision = Fresh]
        /\ \A v \in Users \ {u} : account'[v] = account[v]
        /\ \A s \in sessions' : s \in sessions /\ s.user # u
        /\ Allows(u, request[r].kind) /\ LeavesAdmin(u, request[r].kind) /\ request[r].kind \in {"makeAdmin", "makeEditor"}
        /\ ChallengeInv'
    BY <2>v, <2>u, <2>c, ChangeIsLocal
  <2>2. account'[u].status = account[u].status /\ account'[u].role = RoleOf[request[r].kind]
    BY <2>v, <1>t, <2>u, <2>1 DEF Accounts
  <2>3. request[r].kind = "makeAdmin" => account'[u].role = "admin"
    BY <2>v, <2>2 DEF RoleOf
  <2>4. AccessInv'
    <3>1. \A v \in Users : account'[v].status = account[v].status
      BY <2>v, <2>1, <2>2
    <3>2. factor' = factor /\ passkeys' = passkeys
      BY <1>18 DEF ChangeRole, accessVars
    <3> QED
      BY <1>a, <1>s, <2>1, <3>1, <3>2 DEF AccessInv, Active, HasFactor
  <2>5. AdministratorRemains'
    <3>1. Active(u) => HasFactor(u)
      BY <2>v, <1>a, <2>u DEF AccessInv
    <3> QED
      BY <2>v, <1>18, <2>u, <2>1, <2>2, <2>3, <3>1, AdministratorStays
         DEF ChangeRole, accessVars, LeavesAdmin, Active, HasFactor
  <2> QED
    BY <2>v, <2>1, <2>4, <2>5, <1>y DEF CoreInv
<1>19. ASSUME NEW r \in Requests, Activate(r)
    PROVE  CoreInv'
  <2>u. request[r] \in RequestRecords /\ request[r].user \in Users
    BY <1>19, <1>t DEF Activate, Sound, Change
  <2>c. Change(r, {"activate"}, [account[request[r].user] EXCEPT !.status = "active", !.revision = Fresh])
    BY <1>19 DEF Activate
  <2>v. PICK u \in Users : u = request[r].user
    BY <2>u
  <2>1. /\ account'[u] = [account[request[r].user] EXCEPT !.status = "active", !.revision = Fresh]
        /\ \A v \in Users \ {u} : account'[v] = account[v]
        /\ \A s \in sessions' : s \in sessions /\ s.user # u
        /\ Allows(u, request[r].kind) /\ LeavesAdmin(u, request[r].kind) /\ request[r].kind \in {"activate"}
        /\ ChallengeInv'
    BY <2>v, <2>u, <2>c, ChangeIsLocal
  <2>2. account'[u].status = "active" /\ account[u].status = "inactive" /\ HasFactor(u)
    BY <2>v, <1>t, <2>u, <2>1 DEF Accounts, Allows
  <2>4. AccessInv'
    BY <2>v, <1>19, <1>a, <1>s, <2>u, <2>1, <2>2 DEF Activate, accessVars, AccessInv, Active, HasFactor
  <2>5. AdministratorRemains'
    BY <2>v, <1>19, <2>u, <2>1, <2>2, AdministratorStays DEF Activate, accessVars, Active
  <2> QED
    BY <2>v, <2>1, <2>4, <2>5, <1>y DEF CoreInv
<1>20. ASSUME NEW r \in Requests, Deactivate(r)
    PROVE  CoreInv'
  <2>u. request[r] \in RequestRecords /\ request[r].user \in Users
    BY <1>20, <1>t DEF Deactivate, Sound, Change
  <2>c. Change(r, {"deactivate"}, [account[request[r].user] EXCEPT !.status = "inactive", !.revision = Fresh])
    BY <1>20 DEF Deactivate
  <2>v. PICK u \in Users : u = request[r].user
    BY <2>u
  <2>1. /\ account'[u] = [account[request[r].user] EXCEPT !.status = "inactive", !.revision = Fresh]
        /\ \A v \in Users \ {u} : account'[v] = account[v]
        /\ \A s \in sessions' : s \in sessions /\ s.user # u
        /\ Allows(u, request[r].kind) /\ LeavesAdmin(u, request[r].kind) /\ request[r].kind \in {"deactivate"}
        /\ ChallengeInv'
    BY <2>v, <2>u, <2>c, ChangeIsLocal
  <2>2. account'[u].status = "inactive"
    BY <2>v, <1>t, <2>u, <2>1 DEF Accounts
  <2>4. AccessInv'
    BY <2>v, <1>20, <1>a, <1>s, <2>u, <2>1, <2>2 DEF Deactivate, AccessInv, Active, HasFactor
  <2>5. AdministratorRemains'
    BY <2>v, <1>20, <2>u, <2>1, AdministratorStays DEF Deactivate, LeavesAdmin
  <2> QED
    BY <2>v, <2>1, <2>4, <2>5, <1>y DEF CoreInv
<1>21. ASSUME NEW r \in Requests, Reissue(r)
    PROVE  CoreInv'
  <2>u. request[r] \in RequestRecords /\ request[r].user \in Users
    BY <1>21, <1>t DEF Reissue, Sound, Change
  <2>c. Change(r, {"reissue"}, [account[request[r].user] EXCEPT !.status = "pending", !.revision = Fresh])
    BY <1>21 DEF Reissue
  <2>v. PICK u \in Users : u = request[r].user
    BY <2>u
  <2>1. /\ account'[u] = [account[request[r].user] EXCEPT !.status = "pending", !.revision = Fresh]
        /\ \A v \in Users \ {u} : account'[v] = account[v]
        /\ \A s \in sessions' : s \in sessions /\ s.user # u
        /\ Allows(u, request[r].kind) /\ LeavesAdmin(u, request[r].kind) /\ request[r].kind \in {"reissue"}
        /\ ChallengeInv'
    BY <2>v, <2>u, <2>c, ChangeIsLocal
  <2>2. account'[u].status = "pending" /\ ~Active(u) /\ ~HasFactor(u)
    BY <2>v, <1>t, <2>u, <2>1 DEF Accounts, Allows, Active
  <2>4. AccessInv'
    BY <2>v, <1>21, <1>a, <1>s, <2>u, <2>1, <2>2 DEF Reissue, AccessInv, Active, HasFactor
  <2>5. AdministratorRemains'
    BY <2>v, <1>21, <2>u, <2>1, <2>2, AdministratorStays DEF Reissue
  <2> QED
    BY <2>v, <2>1, <2>4, <2>5, <1>y DEF CoreInv
<1>22. ASSUME NEW r \in Requests, ResetAccess(r)
    PROVE  CoreInv'
  <2>u. request[r] \in RequestRecords /\ request[r].user \in Users
    BY <1>22, <1>t DEF ResetAccess, Sound, Change
  <2>c. Change(r, {"reset"}, [account[request[r].user] EXCEPT !.status = "pending", !.revision = Fresh])
    BY <1>22 DEF ResetAccess
  <2>v. PICK u \in Users : u = request[r].user
    BY <2>u
  <2>1. /\ account'[u] = [account[request[r].user] EXCEPT !.status = "pending", !.revision = Fresh]
        /\ \A v \in Users \ {u} : account'[v] = account[v]
        /\ \A s \in sessions' : s \in sessions /\ s.user # u
        /\ Allows(u, request[r].kind) /\ LeavesAdmin(u, request[r].kind) /\ request[r].kind \in {"reset"}
        /\ ChallengeInv'
    BY <2>v, <2>u, <2>c, ChangeIsLocal
  <2>2. account'[u].status = "pending" /\ ~HasFactor(u)' /\ passkeys'[u] = {}
    <3>1. account'[u].status = "pending"
      BY <2>v, <1>t, <2>u, <2>1 DEF Accounts
    <3>2. factor'[u] = NoFactor /\ passkeys'[u] = {}
      BY <2>v, <1>22, <1>t, <2>u DEF ResetAccess
    <3> QED
      BY <2>v, <3>1, <3>2 DEF HasFactor
  <2>3. \A v \in Users \ {u} : factor'[v] = factor[v] /\ passkeys'[v] = passkeys[v]
    BY <2>v, <1>22, <1>t, <2>u DEF ResetAccess
  <2>4. AccessInv'
    <3>1. \A v \in Users \ {u} : (HasFactor(v)' <=> HasFactor(v)) /\ (Active(v)' <=> Active(v))
      BY <2>v, <2>1, <2>3 DEF HasFactor, Active
    <3>2. ~Active(u)' /\ \A s \in sessions' : s \in sessions /\ s.user \in Users \ {u}
      BY <2>v, <1>s, <2>1, <2>2 DEF Active
    <3> QED
      BY <2>v, <1>a, <2>1, <2>2, <2>3, <3>1, <3>2 DEF AccessInv
  <2>5. AdministratorRemains'
    BY <2>v, <2>u, <2>1, <2>3, AdministratorStays DEF LeavesAdmin
  <2> QED
    BY <2>v, <2>1, <2>4, <2>5, <1>y DEF CoreInv
<1>23. ASSUME NEW r \in Requests, NEW u \in Users, NEW role \in Roles, Invite(r, u, role)
    PROVE  CoreInv'
  <2>1. account[u].status = "none" /\ ~HasFactor(u)
    BY <1>23, <1>a DEF Invite, NoAccount, AccessInv
  <2>2. account'[u].status = "pending" /\ \A v \in Users \ {u} : account'[v] = account[v]
    BY <1>23, <1>t DEF Invite, Opened
  <2>3. ChallengeInv'
    <3>1. r \in Requests \ challenges
      BY <1>23, <1>b DEF Invite, Administering
    <3> QED
      BY <1>23, <3>1, ChallengesOfStable DEF Invite
  <2>4. AccessInv'
    BY <1>23, <1>a, <1>s, <2>1, <2>2 DEF Invite, AccessInv, Active, HasFactor
  <2>5. AdministratorRemains'
    BY <1>23, <2>1, <2>2, AdministratorStays DEF Invite, Active
  <2> QED
    BY <2>3, <2>4, <2>5, <1>y DEF CoreInv
<1>24. ASSUME NEW r \in Requests, NEW u \in Users, DeleteAccount(r, u)
    PROVE  CoreInv'
  <2>1. account'[u].status = "none" /\ ~HasFactor(u)' /\ passkeys'[u] = {}
    BY <1>24, <1>t DEF DeleteAccount, NoAccount, HasFactor
  <2>2. \A v \in Users \ {u} : account'[v] = account[v] /\ factor'[v] = factor[v] /\ passkeys'[v] = passkeys[v]
    BY <1>24, <1>t DEF DeleteAccount
  <2>s. \A s \in sessions' : s \in sessions /\ s.user # u
    BY <1>24 DEF DeleteAccount, Keep, SessionsOf
  <2>3. ChallengeInv'
    <3>1. r \in Requests \ challenges
      BY <1>24, <1>b DEF DeleteAccount, Administering
    <3> QED
      BY <1>24, <3>1, ChallengesOfKept DEF DeleteAccount
  <2>4. AccessInv'
    BY <1>a, <1>s, <2>1, <2>2, <2>s DEF AccessInv, Active, HasFactor
  <2>5. AdministratorRemains'
    BY <1>24, <2>2, AdministratorStays DEF DeleteAccount, Active
  <2> QED
    BY <2>3, <2>4, <2>5, <1>y DEF CoreInv
<1>25. ASSUME NEW r \in Requests, NEW u \in Users, StoreSetup(r, u)
    PROVE  CoreInv'
  <2>1. AccessInv' /\ AdministratorRemains'
    BY <1>25, <1>a, <1>s, StableAccess DEF StoreSetup, AccessInv, HasFactor
  <2>3. ChallengeInv'
    <3>1. r \in Requests \ challenges
      BY <1>25, <1>b DEF StoreSetup, Idle
    <3> QED
      BY <1>25, <3>1, ChallengesOfStable DEF StoreSetup
  <2> QED
    BY <2>1, <2>3, <1>y DEF CoreInv
<1>26. ASSUME NEW r \in Requests, ReadSetup(r)
    PROVE  CoreInv'
  <2>1. AccessInv' /\ AdministratorRemains'
    BY <1>26, <1>a, <1>s, StableAccess DEF ReadSetup, ReadOnly, accessVars, AccessInv, HasFactor
  <2>2. ChallengeInv'
    <3>1. r \notin challenges
      BY <1>26, <1>b DEF ReadSetup
    <3> QED
      BY <1>26, <3>1, ChallengesOfStable DEF ReadSetup, ReadOnly
  <2> QED
    BY <2>1, <2>2, <1>y DEF CoreInv
<1>27. ASSUME NEW r \in Requests, NEW step \in Steps, CompleteSetup(r, step)
    PROVE  CoreInv'
  <2>u. request[r] \in RequestRecords /\ request[r].user \in Users
    BY <1>27, <1>t DEF CompleteSetup, Sound
  <2>v. PICK u \in Users : u = request[r].user
    BY <2>u
  <2>1. account'[u].status = "active" /\ HasFactor(u)' /\ account[u].status = "pending"
    <3>1. factor'[u].last # 0
      BY <2>v, <1>27, <1>t, <2>u DEF CompleteSetup
    <3>2. account'[u].status = "active" /\ account[u].status = "pending"
      BY <2>v, <1>27, <1>t, <2>u DEF CompleteSetup, CanSetUp, Accounts
    <3> QED
      BY <2>v, <3>1, <3>2 DEF HasFactor, NoFactor
  <2>2. \A v \in Users \ {u} : account'[v] = account[v] /\ factor'[v] = factor[v]
    BY <2>v, <1>27, <1>t, <2>u DEF CompleteSetup
  <2>3. ChallengeInv'
    <3>1. r \in Requests \ challenges
      BY <2>v, <1>27, <1>b DEF CompleteSetup
    <3> QED
      BY <2>v, <1>27, <3>1, ChallengesOfStable DEF CompleteSetup
  <2>4. AccessInv'
    <3>1. \A v \in Users \ {u} : (HasFactor(v)' <=> HasFactor(v)) /\ (Active(v)' <=> Active(v))
      BY <2>v, <2>2 DEF HasFactor, Active
    <3>2. passkeys' = passkeys /\ sessions' = sessions
      BY <2>v, <1>27 DEF CompleteSetup
    <3> QED
      BY <2>v, <1>a, <1>s, <2>u, <2>1, <2>2, <3>1, <3>2 DEF AccessInv
  <2>5. AdministratorRemains'
    BY <2>v, <2>u, <2>1, <2>2, AdministratorStays DEF Active
  <2> QED
    BY <2>v, <2>3, <2>4, <2>5, <1>y DEF CoreInv
<1>28. ASSUME NEW r \in Requests, Stop(r)
    PROVE  CoreInv'
  <2>1. AccessInv' /\ AdministratorRemains'
    BY <1>28, <1>a, <1>s, StableAccess DEF Stop, accessVars, AccessInv, HasFactor
  <2>2. ChallengeInv'
    BY <1>28, ChallengesOfStable DEF Stop
  <2> QED
    BY <2>1, <2>2, <1>y DEF CoreInv
<1>29. CASE UNCHANGED vars
  BY <1>29, <1>y, <1>a DEF vars, accessVars, CoreInv, AccessInv, ChallengeInv, AdministratorRemains, Active, HasFactor
<1> QED
  BY <1>1, <1>2, <1>3, <1>4, <1>5, <1>6, <1>7, <1>8, <1>9, <1>10, <1>11, <1>12, <1>13, <1>14, <1>15, <1>16, <1>17, <1>18, <1>19, <1>20, <1>21, <1>22, <1>23, <1>24, <1>25, <1>26, <1>27, <1>28, <1>29
     DEF Next, SignIn, OwnChange, Administration, Setup

\* However administrators demote, deactivate, reset and delete each other,
\* someone who can sign in administers the site.
THEOREM AnAdministratorRemains == Spec => []AdministratorRemains
<1>1. CoreInv => AdministratorRemains
  BY DEF CoreInv
<1> QED
  BY <1>1, CoreInit, CoreStep, PTL DEF Spec

\* A pending account has neither factor nor passkeys nor sessions, although
\* registrations and sign-ins may have been under way when it was reset.
THEOREM NothingIsLeft == Spec => []NoCredentialIsLeft
<1>1. CoreInv => NoCredentialIsLeft
  BY DEF CoreInv, AccessInv, NoCredentialIsLeft, SessionsOf
<1> QED
  BY <1>1, CoreInit, CoreStep, PTL DEF Spec

-----------------------------------------------------------------------------
(* What sessions and sign-ins have proved.                                 *)

\* A step keeps what the user may sign in with, or outdates what was proved.
CredentialsKept(u) ==
  \/ ~Active(u)'
  \/ account'[u].revision = Fresh /\ serial' = Fresh
  \/ /\ account'[u].revision = account[u].revision /\ Active(u)
     /\ Credentials(u) \subseteq Credentials(u)'
     /\ factor'[u].secret = factor[u].secret

LEMMA ProofsLast ==
  ASSUME TypeInv, ProofInv, NEW u \in Users, CredentialsKept(u)
  PROVE  /\ \A n \in Nat : \A proof : n <= serial /\ Proven(u, n, proof) => Proven(u, n, proof)'
         /\ \A n \in Nat : n <= serial /\ IsCurrent(u, n)' =>
              IsCurrent(u, n) /\ factor'[u].secret = factor[u].secret
<1>1. Fresh > serial /\ serial \in Nat /\ Fresh \in Nat
  BY FreshIsTyped, Types
<1> QED
  BY <1>1 DEF CredentialsKept, Proven, IsCurrent, Active

LEMMA ProofsPreserved ==
  ASSUME TypeInv, TypeInv', ProofInv, serial <= serial',
         \A u \in Users : CredentialsKept(u) /\ account'[u].revision <= serial',
         \A s \in sessions' :
           s \in sessions \/ SessionIsProven(s)',
         \A t \in Requests : request'[t] = request[t] \/ Vouched(t)'
  PROVE  ProofInv'
<1>t. /\ account \in [Users -> Accounts] /\ factor \in [Users -> Factors]
      /\ setup \in [Users -> Setups] /\ passkeys \in [Users -> SUBSET Nat]
      /\ challenges \subseteq Requests /\ sessions \subseteq Sessions
      /\ request \in [Requests -> RequestRecords] /\ \A r \in Requests : Sound(request[r])
      /\ accepted \subseteq Users \X Nat \X Nat /\ serial \in Nat
  BY Types
<1>f. Fresh \in Nat /\ Fresh > serial /\ Fresh # NoId
  BY FreshIsTyped
<1>n. serial' \in Nat
  BY DEF TypeInv, TypeOK
<1>1. ASSUME NEW s \in sessions'
      PROVE  SessionIsProven(s)'
  <2>1. CASE s \in sessions
    <3>1. /\ s.user \in Users /\ s.revision \in Nat /\ s.revision <= serial
          /\ s.proof # {} /\ Proven(s.user, s.revision, s.proof)
      BY <1>t, <2>1 DEF Sessions, ProofInv, SessionIsProven
    <3> QED
      BY <3>1, <1>t, <1>n, ProofsLast DEF SessionIsProven
  <2> QED
    BY <2>1
<1>2. ASSUME NEW r \in Requests
      PROVE  Vouched(r)'
  <2>1. CASE request'[r] = request[r]
    <3>1. /\ request[r].revision \in Nat /\ request[r].revision <= serial /\ RequestIsProven(request[r])
          /\ request[r].at \in Proving => request[r].user \in Users
      BY <1>t DEF Sound, RequestRecords, ProofInv, Vouched, Proving
    <3>2. PICK q : q = request[r]
      OBVIOUS
    <3>3. q.revision <= serial'
      BY <3>1, <3>2, <1>t, <1>n
    <3>4. RequestIsProven(q)'
      BY <3>1, <3>2, ProofsLast DEF RequestIsProven
    <3> QED
      BY <2>1, <3>2, <3>3, <3>4 DEF Vouched, RequestIsProven, Proven, IsCurrent, Active
  <2> QED
    BY <2>1
<1> QED
  BY <1>1, <1>2 DEF ProofInv

\* Steps that leave accounts, factors and passkeys alone keep all credentials.
LEMMA CredentialsOfStable ==
  ASSUME TypeInv, ProofInv, UNCHANGED <<account, factor, passkeys>>, serial <= serial', serial' \in Nat
  PROVE  \A u \in Users : CredentialsKept(u) /\ account'[u].revision <= serial'
<1>1. \A u \in Users : account[u].revision \in Nat /\ account[u].revision <= serial /\ serial \in Nat
  BY Types DEF Accounts, ProofInv
<1> QED
  BY <1>1 DEF CredentialsKept, Active, Credentials, HasFactor

LEMMA MoveIsLocal ==
  ASSUME TypeInv, NEW r \in Requests, NEW q, Move(r, q)
  PROVE  request'[r] = q /\ \A t \in Requests : t # r => request'[t] = request[t]
BY Types DEF Move

\* A request that reads keeps the invariant if what it read is current.
LEMMA ReadIsProven ==
  ASSUME TypeInv, TypeInv', ProofInv, NEW r \in Requests, NEW q, Move(r, q), ReadOnly,
         q.revision <= serial, RequestIsProven(q)
  PROVE  ProofInv'
<1>1. UNCHANGED <<account, factor, passkeys, sessions, serial>> /\ serial \in Nat
  BY Types DEF ReadOnly, accessVars
<1>2. \A u \in Users : CredentialsKept(u) /\ account'[u].revision <= serial'
  BY <1>1, CredentialsOfStable
<1>3. request'[r] = q /\ \A t \in Requests : t # r => request'[t] = request[t]
  BY MoveIsLocal
<1>4. Vouched(r)'
  BY <1>1, <1>3 DEF Vouched, RequestIsProven, Proven, IsCurrent, Active, Credentials, HasFactor
<1>5. \A t \in Requests :
        request'[t] = request[t] \/ Vouched(t)'
  BY <1>3, <1>4
<1>6. serial <= serial' /\ \A s \in sessions' : s \in sessions
  BY <1>1
<1> QED
  BY <1>2, <1>5, <1>6, ProofsPreserved

\* Only the requests at Proving have something to show.
LEMMA OthersAreProven ==
  ASSUME NEW q, q.at \notin Proving
  PROVE  RequestIsProven(q) /\ RequestIsProven(q)'
BY DEF RequestIsProven

\* A request that ends has nothing to show.
LEMMA IdleIsProven ==
  ASSUME TypeInv, NEW r \in Requests, Move(r, Idle), serial' \in Nat
  PROVE  \A t \in Requests :
           request'[t] = request[t] \/ Vouched(t)'
<1>1. Idle.at \notin Proving /\ Idle.revision = 0
  BY DEF Idle, Proving, NoId
<1>2. Vouched(r)'
  BY <1>1, MoveIsLocal DEF Vouched, RequestIsProven
<1> QED
  BY <1>2, MoveIsLocal

\* Steps that give one user a new revision and leave the others alone.
LEMMA CredentialsOfOthers ==
  ASSUME TypeInv, ProofInv, NEW x \in Users, serial' = Fresh,
         account'[x].revision = Fresh,
         \A u \in Users \ {x} : account'[u] = account[u] /\ factor'[u] = factor[u] /\ passkeys'[u] = passkeys[u]
  PROVE  \A u \in Users : CredentialsKept(u) /\ account'[u].revision <= serial'
<1>1. \A u \in Users : account[u].revision \in Nat /\ account[u].revision <= serial
  BY Types DEF Accounts, ProofInv
<1>2. Fresh \in Nat /\ Fresh > serial /\ serial \in Nat
  BY FreshIsTyped, Types
<1> QED
  BY <1>1, <1>2 DEF CredentialsKept, Active, Credentials, HasFactor

LEMMA ProofStep ==
  ASSUME TypeInv, ProofInv, [Next]_vars
  PROVE  ProofInv'
<1> USE ConstantAssumption DEF NoId
<1>t. /\ account \in [Users -> Accounts] /\ factor \in [Users -> Factors]
      /\ setup \in [Users -> Setups] /\ passkeys \in [Users -> SUBSET Nat]
      /\ challenges \subseteq Requests /\ sessions \subseteq Sessions
      /\ request \in [Requests -> RequestRecords] /\ \A r \in Requests : Sound(request[r])
      /\ accepted \subseteq Users \X Nat \X Nat /\ serial \in Nat
  BY Types
<1>f. Fresh \in Nat /\ Fresh > serial /\ Fresh # NoId
  BY FreshIsTyped
<1>y. TypeInv'
  BY TypeStep
<1>a. /\ \A u \in Users : account[u].revision \in Nat /\ account[u].revision <= serial
      /\ \A s \in sessions : /\ s.revision \in Nat /\ s.revision <= serial
                             /\ s.proof # {} /\ Proven(s.user, s.revision, s.proof)
      /\ \A r \in Requests : request[r].revision \in Nat /\ request[r].revision <= serial /\ RequestIsProven(request[r])
  BY <1>t DEF ProofInv, SessionIsProven, Vouched, Accounts, Sessions, RequestRecords
<1>1. ASSUME NEW u \in Users, NEW kept \in SUBSET SessionsOf(u), EndSessions(u, kept)
    PROVE  ProofInv'
  <2>n. serial' = serial /\ serial' \in Nat /\ serial <= serial'
    BY <1>1, <1>t DEF EndSessions
  <2>r. \A t \in Requests : request'[t] = request[t]
    BY <1>1 DEF EndSessions
  <2>c. \A v \in Users : CredentialsKept(v) /\ account'[v].revision <= serial'
    BY <1>1, <2>n, CredentialsOfStable DEF EndSessions, accessVars
  <2>s. \A s \in sessions' : s \in sessions
    BY <1>1 DEF EndSessions, Keep, SessionsOf
  <2> QED
    BY <2>n, <2>r, <2>c, <2>s, <1>y, ProofsPreserved
<1>2. ASSUME NEW r \in Requests, NEW u \in Users, ProvePassword(r, u)
    PROVE  ProofInv'
  <2> DEFINE n == [Idle EXCEPT !.at = "proven", !.kind = "signIn", !.user = u, !.revision = account[u].revision,
                             !.proof = {Password(account[u].password)}]
  <2>1. n.revision <= serial
    BY <1>a, <1>t DEF Idle
  <2>2. RequestIsProven(n)
    BY DEF RequestIsProven, Proven, Credentials, Idle
  <2>3. Move(r, n) /\ ReadOnly
    BY <1>2 DEF ProvePassword
  <2> HIDE DEF n
  <2> QED
    BY <2>1, <2>2, <2>3, <1>y, ReadIsProven
<1>3. ASSUME NEW r \in Requests, NEW s \in sessions, ProveAgain(r, s)
    PROVE  ProofInv'
  <2> DEFINE n == [Idle EXCEPT !.at = "proven", !.kind = "authorize", !.user = s.user, !.revision = s.revision]
  <2>1. n.revision <= serial
    BY <1>a, <1>t DEF Idle
  <2>2. RequestIsProven(n)
    BY DEF RequestIsProven, Proven, Idle
  <2>3. Move(r, n) /\ ReadOnly
    BY <1>3 DEF ProveAgain
  <2> HIDE DEF n
  <2> QED
    BY <2>1, <2>2, <2>3, <1>y, ReadIsProven
<1>4. ASSUME NEW r \in Requests, NEW step \in Steps, ReadFactor(r, step)
    PROVE  ProofInv'
  <2>u. request[r] \in RequestRecords /\ request[r].user \in Users
    BY <1>4, <1>t DEF ReadFactor, Sound
  <2> DEFINE n == [request[r] EXCEPT !.at = "code", !.id = factor[request[r].user].secret, !.step = step]
  <2>1. n.revision <= serial
    BY <1>a, <1>t, <2>u DEF RequestRecords
  <2>2. RequestIsProven(n)
    BY <1>4, <1>a, <2>u DEF ReadFactor, RequestIsProven, Proven, Proving, RequestRecords
  <2>3. Move(r, n) /\ ReadOnly
    BY <1>4 DEF ReadFactor
  <2> HIDE DEF n
  <2> QED
    BY <2>1, <2>2, <2>3, <1>y, ReadIsProven
<1>5. ASSUME NEW r \in Requests, ConsumeStep(r)
    PROVE  ProofInv'
  <2>u. request[r] \in RequestRecords /\ request[r].user \in Users
    BY <1>5, <1>t DEF ConsumeStep, Sound
  <2>n. serial' = serial /\ serial' \in Nat /\ serial <= serial'
    BY <1>5, <1>t DEF ConsumeStep
  <2>1. \A u \in Users : factor'[u].secret = factor[u].secret /\ (HasFactor(u) => HasFactor(u)')
    <3>1. factor[request[r].user].last \in Nat /\ request[r].step \in Nat
      BY <1>t, <2>u DEF Factors, RequestRecords
    <3> QED
      BY <1>5, <1>t, <2>u, <3>1 DEF ConsumeStep, IsUnused, HasFactor, NoFactor, Factors
  <2>c. \A u \in Users : CredentialsKept(u) /\ account'[u].revision <= serial'
    BY <1>5, <1>a, <2>n, <2>1 DEF ConsumeStep, CredentialsKept, Active, Credentials
  <2> DEFINE n == [request[r] EXCEPT !.at = "verified", !.proof = @ \cup {Totp(request[r].id)}]
  <2>2. n.revision = request[r].revision /\ n.user = request[r].user /\ n.at = "verified"
        /\ n.proof = request[r].proof \cup {Totp(request[r].id)}
    BY <2>u DEF RequestRecords
  <2>3. request'[r] = n
    BY <1>5, MoveIsLocal DEF ConsumeStep
  <2> HIDE DEF n
  <2>v. PICK x \in Users : x = request[r].user
    BY <2>u
  <2>4. request[r].proof \cup {Totp(request[r].id)} \subseteq Credentials(x)
    BY <1>5, <1>a, <2>u, <2>v DEF ConsumeStep, RequestIsProven, Proven, Proving, Credentials
  <2>5. Credentials(x) = Credentials(x)'
    BY <1>5, <2>v, <2>1 DEF ConsumeStep, Credentials
  <2>6. RequestIsProven(request[r])'
    BY <2>2, <2>3, <2>v, <2>4, <2>5 DEF RequestIsProven, Proven
  <2>r. \A t \in Requests :
          request'[t] = request[t] \/ Vouched(t)'
    <3>1. Vouched(r)'
      BY <1>a, <2>n, <2>2, <2>3, <2>6 DEF Vouched
    <3> QED
      BY <1>5, <3>1, MoveIsLocal DEF ConsumeStep
  <2>s. \A s \in sessions' : s \in sessions
    BY <1>5 DEF ConsumeStep, Keep, SessionsOf
  <2> QED
    BY <2>n, <2>r, <2>c, <2>s, <1>y, ProofsPreserved
<1>6. ASSUME NEW r \in Requests, NEW u \in Users, NEW k \in passkeys[u], DiscoverPasskey(r, u, k)
    PROVE  ProofInv'
  <2> DEFINE n == [Idle EXCEPT !.at = "asserted", !.kind = "passwordless", !.user = u, !.revision = account[u].revision, !.id = k]
  <2>1. n.revision <= serial
    BY <1>a, <1>t DEF Idle
  <2>2. RequestIsProven(n)
    BY DEF RequestIsProven, Proven, Idle
  <2>3. Move(r, n) /\ ReadOnly
    BY <1>6 DEF DiscoverPasskey
  <2> HIDE DEF n
  <2> QED
    BY <2>1, <2>2, <2>3, <1>y, ReadIsProven
<1>7. ASSUME NEW r \in Requests, NEW k \in passkeys[request[r].user], ChoosePasskey(r, k)
    PROVE  ProofInv'
  <2>u. request[r] \in RequestRecords /\ request[r].user \in Users
    BY <1>7, <1>t DEF ChoosePasskey, Sound
  <2> DEFINE n == [request[r] EXCEPT !.at = "asserted", !.id = k]
  <2>1. n.revision <= serial
    BY <1>a, <1>t, <2>u DEF RequestRecords
  <2>2. RequestIsProven(n)
    BY <1>7, <1>a, <2>u DEF ChoosePasskey, RequestIsProven, Proven, Proving, RequestRecords
  <2>3. Move(r, n) /\ ReadOnly
    BY <1>7 DEF ChoosePasskey
  <2> HIDE DEF n
  <2> QED
    BY <2>1, <2>2, <2>3, <1>y, ReadIsProven
<1>8. ASSUME NEW r \in Requests, CompletePasskey(r)
    PROVE  ProofInv'
  <2>u. request[r] \in RequestRecords /\ request[r].user \in Users
    BY <1>8, <1>t DEF CompletePasskey, Sound
  <2> DEFINE n == [request[r] EXCEPT !.at = "verified", !.proof = @ \cup {Passkey(request[r].id)}]
  <2>1. n.revision <= serial
    BY <1>a, <1>t, <2>u DEF RequestRecords
  <2>2. RequestIsProven(n)
    BY <1>8, <1>a, <2>u DEF CompletePasskey, RequestIsProven, Proven, Proving, RequestRecords, Credentials
  <2>3. Move(r, n) /\ ReadOnly
    BY <1>8 DEF CompletePasskey
  <2> HIDE DEF n
  <2> QED
    BY <2>1, <2>2, <2>3, <1>y, ReadIsProven
<1>9. ASSUME NEW r \in Requests, IssueSession(r)
    PROVE  ProofInv'
  <2>u. request[r] \in RequestRecords /\ request[r].user \in Users
    BY <1>9, <1>t DEF IssueSession, Sound
  <2>n. serial' \in Nat /\ serial <= serial'
    BY <1>9, <1>t, <1>f DEF IssueSession, Draw
  <2>r. \A t \in Requests :
          request'[t] = request[t] \/ Vouched(t)'
    BY <1>9, <1>t, <2>n, IdleIsProven DEF IssueSession
  <2>c. \A u \in Users : CredentialsKept(u) /\ account'[u].revision <= serial'
    BY <1>9, <2>n, CredentialsOfStable DEF IssueSession, accessVars
  <2>s. \A s \in sessions' : s \in sessions \/ SessionIsProven(s)'
    <3> DEFINE New == [id |-> Fresh, user |-> request[r].user, revision |-> account[request[r].user].revision,
                       proof |-> request[r].proof]
    <3>1. \A s \in sessions' : s \in sessions \/ (s = New /\ MayIssue(request[r]))
      BY <1>9 DEF IssueSession, Keep, SessionsOf
    <3>2. New.revision = account[request[r].user].revision /\ New.user = request[r].user /\ New.proof = request[r].proof
      OBVIOUS
    <3> HIDE DEF New
    <3>3. New.revision <= serial'
      BY <1>a, <1>t, <2>u, <2>n, <3>2
    <3>4. MayIssue(request[r]) => New.proof # {} /\ New.proof \subseteq Credentials(request[r].user)
      BY <1>9, <1>a, <3>2 DEF IssueSession, MayIssue, RequestIsProven, Proving, Proven
    <3>v. PICK x \in Users : x = request[r].user
      BY <2>u
    <3>5. Credentials(x)' = Credentials(x)
      BY <1>9 DEF IssueSession, accessVars, Credentials, HasFactor
    <3>6. ASSUME NEW s \in sessions', s = New, MayIssue(request[r])
          PROVE  SessionIsProven(s)'
      BY <3>2, <3>3, <3>4, <3>v, <3>5, <3>6 DEF SessionIsProven, Proven
    <3> QED
      BY <3>1, <3>6
  <2> QED
    BY <2>n, <2>r, <2>c, <2>s, <1>y, ProofsPreserved
<1>10. ASSUME NEW r \in Requests, NEW s \in sessions, NEW kind \in {"change", "administer"}, Authorize(r, s, kind)
    PROVE  ProofInv'
  <2> DEFINE n == [Idle EXCEPT !.at = "authorized", !.kind = kind, !.user = s.user, !.session = s.id,
                               !.revision = s.revision, !.proof = {Password(account[s.user].password)}]
  <2>1. n.revision <= serial
    BY <1>a, <1>t DEF Idle
  <2>2. RequestIsProven(n)
    <3>1. account[s.user].password \in Nat
      BY <1>t DEF Accounts, Sessions
    <3>2. n.at = "authorized" /\ n.user = s.user /\ n.proof = {Password(account[s.user].password)}
      BY DEF Idle
    <3> HIDE DEF n
    <3> QED
      BY <3>1, <3>2 DEF RequestIsProven, Proven, Credentials
  <2>3. Move(r, n) /\ ReadOnly
    BY <1>10 DEF Authorize
  <2> HIDE DEF n
  <2> QED
    BY <2>1, <2>2, <2>3, <1>y, ReadIsProven
<1>11. ASSUME NEW r \in Requests, ChangePassword(r)
    PROVE  ProofInv'
  <2>u. request[r] \in RequestRecords /\ request[r].user \in Users
    BY <1>11, <1>t DEF ChangePassword, Sound, Changing
  <2>n. serial' = Fresh /\ serial' \in Nat /\ serial <= serial'
    BY <1>11, <1>t, <1>f DEF ChangePassword, Draw
  <2>r. \A t \in Requests :
          request'[t] = request[t] \/ Vouched(t)'
    BY <1>11, <1>t, <2>n, IdleIsProven DEF ChangePassword
  <2>v. PICK x \in Users : x = request[r].user
    BY <2>u
  <2>w. account'[x].revision = Fresh /\ \A u \in Users \ {x} : account'[u] = account[u]
    BY <1>11, <1>t, <2>v DEF ChangePassword, Accounts
  <2>x. \A u \in Users \ {x} : factor'[u] = factor[u] /\ passkeys'[u] = passkeys[u]
    BY <1>11, <1>t, <2>v DEF ChangePassword, accessVars
  <2>c. \A u \in Users : CredentialsKept(u) /\ account'[u].revision <= serial'
    BY <1>a, <1>t, <1>f, <2>n, <2>w, <2>x, CredentialsOfOthers
  <2>s. \A s \in sessions' : s \in sessions
    BY <1>11 DEF ChangePassword, Keep, SessionsOf
  <2> QED
    BY <2>n, <2>r, <2>c, <2>s, <1>y, ProofsPreserved
<1>12. ASSUME NEW r \in Requests, NEW s \in sessions, NEW step \in Steps, ReplaceTotp(r, s, step)
    PROVE  ProofInv'
  <2>u. request[r] \in RequestRecords /\ request[r].user \in Users
    BY <1>12, <1>t DEF ReplaceTotp, Sound, Changing
  <2>d. CarryOver(r, s, (s.proof \ {Totp(factor[request[r].user].secret)}) \cup {Totp(Fresh)})
    BY <1>12 DEF ReplaceTotp
  <2>n. serial' = Fresh /\ serial' \in Nat /\ serial <= serial'
    BY <2>d, <1>t, <1>f DEF CarryOver, Draw
  <2>r. \A t \in Requests :
          request'[t] = request[t] \/ Vouched(t)'
    BY <2>d, <1>t, <2>n, IdleIsProven DEF CarryOver
  <2>v. PICK x \in Users : x = request[r].user
    BY <2>u
  <2>w. account'[x].revision = Fresh /\ \A u \in Users \ {x} : account'[u] = account[u]
    BY <2>d, <1>t, <2>v DEF CarryOver, Accounts
  <2>x. \A u \in Users \ {x} : factor'[u] = factor[u] /\ passkeys'[u] = passkeys[u]
    BY <1>12, <1>t, <2>v DEF ReplaceTotp, accessVars
  <2>c. \A u \in Users : CredentialsKept(u) /\ account'[u].revision <= serial'
    BY <1>a, <1>t, <1>f, <2>n, <2>w, <2>x, CredentialsOfOthers
  <2>s. \A t \in sessions' : t \in sessions \/ SessionIsProven(t)'
    <3> DEFINE New == [s EXCEPT !.revision = Fresh, !.proof = (s.proof \ {Totp(factor[request[r].user].secret)}) \cup {Totp(Fresh)}]
    <3>1. \A t \in sessions' : t \in sessions \/ t = New
      BY <2>d DEF CarryOver, Keep
    <3>2. New.revision = Fresh /\ New.user = x /\ New.proof = (s.proof \ {Totp(factor[request[r].user].secret)}) \cup {Totp(Fresh)}
      BY <1>t, <2>d, <2>v DEF CarryOver, CameWith, Sessions
    <3> HIDE DEF New
    <3>3. s.proof \subseteq Credentials(x)
      BY <1>a, <2>d, <2>v DEF CarryOver, CameWith, Proven
    <3>4. New.proof # {} /\ New.proof \subseteq Credentials(x)'
      <4>1. factor'[x].secret = Fresh /\ HasFactor(x)'
        BY <1>12, <1>t, <1>f, <2>v DEF ReplaceTotp, HasFactor, NoFactor
      <4>2. account'[x].password = account[x].password /\ passkeys'[x] = passkeys[x]
        BY <1>12, <1>t, <2>d, <2>v DEF ReplaceTotp, CarryOver, Accounts
      <4> QED
        BY <2>v, <3>2, <3>3, <4>1, <4>2 DEF Credentials
    <3>5. \A t : t = New => SessionIsProven(t)'
      BY <2>n, <3>2, <3>4, <1>t DEF SessionIsProven, Proven
    <3> QED
      BY <3>1, <3>5
  <2> QED
    BY <2>n, <2>r, <2>c, <2>s, <1>y, ProofsPreserved
<1>13. ASSUME NEW r \in Requests, NEW s \in sessions, NEW k \in passkeys[request[r].user], RemovePasskey(r, s, k)
    PROVE  ProofInv'
  <2>u. request[r] \in RequestRecords /\ request[r].user \in Users
    BY <1>13, <1>t DEF RemovePasskey, Sound, Changing
  <2>d. CarryOver(r, s, (s.proof \ {Passkey(k)}) \cup request[r].proof)
    BY <1>13 DEF RemovePasskey
  <2>n. serial' = Fresh /\ serial' \in Nat /\ serial <= serial'
    BY <2>d, <1>t, <1>f DEF CarryOver, Draw
  <2>r. \A t \in Requests :
          request'[t] = request[t] \/ Vouched(t)'
    BY <2>d, <1>t, <2>n, IdleIsProven DEF CarryOver
  <2>v. PICK x \in Users : x = request[r].user
    BY <2>u
  <2>w. account'[x].revision = Fresh /\ \A u \in Users \ {x} : account'[u] = account[u]
    BY <2>d, <1>t, <2>v DEF CarryOver, Accounts
  <2>x. \A u \in Users \ {x} : factor'[u] = factor[u] /\ passkeys'[u] = passkeys[u]
    BY <1>13, <1>t, <2>v DEF RemovePasskey, accessVars
  <2>c. \A u \in Users : CredentialsKept(u) /\ account'[u].revision <= serial'
    BY <1>a, <1>t, <1>f, <2>n, <2>w, <2>x, CredentialsOfOthers
  <2>s. \A t \in sessions' : t \in sessions \/ SessionIsProven(t)'
    <3> DEFINE New == [s EXCEPT !.revision = Fresh, !.proof = (s.proof \ {Passkey(k)}) \cup request[r].proof]
    <3>1. \A t \in sessions' : t \in sessions \/ t = New
      BY <2>d DEF CarryOver, Keep
    <3>2. New.revision = Fresh /\ New.user = x /\ New.proof = (s.proof \ {Passkey(k)}) \cup request[r].proof
      BY <1>t, <2>d, <2>v DEF CarryOver, CameWith, Sessions
    <3> HIDE DEF New
    <3>3. s.proof \subseteq Credentials(x)
      BY <1>a, <2>d, <2>v DEF CarryOver, CameWith, Proven
    <3>4. New.proof # {} /\ New.proof \subseteq Credentials(x)'
      <4>0. request[r].proof = {Password(account[x].password)}
        <5>1. \E n \in Nat : request[r].proof = {Password(n)}
          BY <1>13, <1>a DEF RemovePasskey, Changing, RequestIsProven, Proving
        <5>2. request[r].proof \subseteq Credentials(x)
          BY <1>13, <1>a, <2>d, <2>v DEF RemovePasskey, Changing, CarryOver, RequestIsProven, Proving, Proven
        <5>3. \A m, n : Password(n) # Passkey(m) /\ Password(n) # Totp(m)
          BY DEF Password, Passkey, Totp
        <5> QED
          BY <5>1, <5>2, <5>3 DEF Credentials
      <4>1. passkeys'[x] = passkeys[x] \ {k} /\ factor' = factor
        BY <1>13, <1>t, <2>v DEF RemovePasskey
      <4>2. account'[x].password = account[x].password
        BY <1>t, <2>d, <2>v DEF CarryOver, Accounts
      <4>3. Password(account[x].password) \in Credentials(x)'
        BY <4>2 DEF Credentials
      <4>4. s.proof \ {Passkey(k)} \subseteq Credentials(x)'
        BY <3>3, <4>1, <4>2 DEF Credentials, HasFactor
      <4> QED
        BY <3>2, <2>v, <4>0, <4>3, <4>4
    <3>5. \A t : t = New => SessionIsProven(t)'
      BY <2>n, <3>2, <3>4, <1>t DEF SessionIsProven, Proven
    <3> QED
      BY <3>1, <3>5
  <2> QED
    BY <2>n, <2>r, <2>c, <2>s, <1>y, ProofsPreserved
<1>14. ASSUME NEW r \in Requests, NEW s \in sessions, AskForPasskey(r, s)
    PROVE  ProofInv'
  <2>u. request[r] \in RequestRecords /\ request[r].user \in Users
    BY <1>14, <1>t DEF AskForPasskey, Sound, Changing
  <2>n. serial' = serial /\ serial' \in Nat /\ serial <= serial'
    BY <1>14, <1>t DEF AskForPasskey
  <2>1. request'[r].at = "challenged" /\ request'[r].revision = request[r].revision
    BY <1>14, <1>t DEF AskForPasskey, Move, RequestRecords
  <2>2. RequestIsProven(request[r])'
    BY <2>1 DEF RequestIsProven, Proving
  <2>r. \A t \in Requests :
          request'[t] = request[t] \/ Vouched(t)'
    <3>1. Vouched(r)'
      BY <1>a, <2>n, <2>1, <2>2 DEF Vouched
    <3> QED
      BY <1>14, <3>1, MoveIsLocal DEF AskForPasskey
  <2>c. \A u \in Users : CredentialsKept(u) /\ account'[u].revision <= serial'
    BY <1>14, <2>n, CredentialsOfStable DEF AskForPasskey, accessVars
  <2>s. \A z \in sessions' : z \in sessions
    BY <1>14 DEF AskForPasskey, Keep, SessionsOf
  <2> QED
    BY <2>n, <2>r, <2>c, <2>s, <1>y, ProofsPreserved
<1>15. ASSUME NEW r \in Requests, NEW s \in sessions, AnswerChallenge(r, s)
    PROVE  ProofInv'
  <2>u. request[r] \in RequestRecords /\ request[r].user \in Users
    BY <1>15, <1>t DEF AnswerChallenge, Sound
  <2> DEFINE n == [request[r] EXCEPT !.at = "registering"]
  <2>1. n.revision <= serial
    BY <1>a, <1>t, <2>u DEF RequestRecords
  <2>2. RequestIsProven(n)
    <3>1. n.at = "registering"
      BY <1>t, <2>u DEF RequestRecords
    <3> QED
      BY <3>1, OthersAreProven DEF Proving
  <2>3. Move(r, n) /\ ReadOnly
    BY <1>15 DEF AnswerChallenge
  <2> HIDE DEF n
  <2> QED
    BY <2>1, <2>2, <2>3, <1>y, ReadIsProven
<1>16. ASSUME NEW r \in Requests, RegisterPasskey(r)
    PROVE  ProofInv'
  <2>u. request[r] \in RequestRecords /\ request[r].user \in Users
    BY <1>16, <1>t DEF RegisterPasskey, Sound
  <2>n. serial' = Fresh /\ serial' \in Nat /\ serial <= serial'
    BY <1>16, <1>t, <1>f DEF RegisterPasskey, Draw
  <2>r. \A t \in Requests :
          request'[t] = request[t] \/ Vouched(t)'
    BY <1>16, <1>t, <2>n, IdleIsProven DEF RegisterPasskey
  <2>1. \A u \in Users : passkeys[u] \subseteq passkeys'[u]
    BY <1>16, <1>t DEF RegisterPasskey
  <2>c. \A u \in Users : CredentialsKept(u) /\ account'[u].revision <= serial'
    BY <1>16, <1>a, <1>t, <2>n, <2>1 DEF RegisterPasskey, CredentialsKept, Active, Credentials, HasFactor
  <2>s. \A s \in sessions' : s \in sessions
    BY <1>16 DEF RegisterPasskey, Keep, SessionsOf
  <2> QED
    BY <2>n, <2>r, <2>c, <2>s, <1>y, ProofsPreserved
<1>17. ASSUME NEW r \in Requests, NEW kind \in Inspected, NEW u \in Users, Inspect(r, kind, u)
    PROVE  ProofInv'
  <2> DEFINE n == [Idle EXCEPT !.at = "inspected", !.kind = kind, !.user = u, !.revision = account[u].revision]
  <2>1. n.revision <= serial
    BY <1>a, <1>t DEF Idle
  <2>2. RequestIsProven(n)
    <3>1. n.at = "inspected"
      BY <1>t DEF Idle
    <3> QED
      BY <3>1, OthersAreProven DEF Proving
  <2>3. Move(r, n) /\ ReadOnly
    BY <1>17 DEF Inspect
  <2> HIDE DEF n
  <2> QED
    BY <2>1, <2>2, <2>3, <1>y, ReadIsProven
<1>18. ASSUME NEW r \in Requests, ChangeRole(r)
    PROVE  ProofInv'
  <2>u. request[r] \in RequestRecords /\ request[r].user \in Users
    BY <1>18, <1>t DEF ChangeRole, Sound, Change
  <2>d. Change(r, {"makeAdmin", "makeEditor"}, [account[request[r].user] EXCEPT !.role = RoleOf[request[r].kind], !.revision = Fresh])
    BY <1>18 DEF ChangeRole
  <2>n. serial' = Fresh /\ serial' \in Nat /\ serial <= serial'
    BY <2>d, <1>t, <1>f DEF Change, Draw
  <2>r. \A t \in Requests :
          request'[t] = request[t] \/ Vouched(t)'
    BY <2>d, <1>t, <2>n, IdleIsProven DEF Change
  <2>v. PICK x \in Users : x = request[r].user
    BY <2>u
  <2>w. account'[x].revision = Fresh /\ \A u \in Users \ {x} : account'[u] = account[u]
    BY <2>d, <1>t, <2>v DEF Change, Accounts
  <2>x. \A u \in Users \ {x} : factor'[u] = factor[u] /\ passkeys'[u] = passkeys[u]
    BY <1>18, <1>t, <2>v DEF ChangeRole, accessVars
  <2>c. \A u \in Users : CredentialsKept(u) /\ account'[u].revision <= serial'
    BY <1>a, <1>t, <1>f, <2>n, <2>w, <2>x, CredentialsOfOthers
  <2>s. \A s \in sessions' : s \in sessions
    BY <2>d DEF Change, Keep
  <2> QED
    BY <2>n, <2>r, <2>c, <2>s, <1>y, ProofsPreserved
<1>19. ASSUME NEW r \in Requests, Activate(r)
    PROVE  ProofInv'
  <2>u. request[r] \in RequestRecords /\ request[r].user \in Users
    BY <1>19, <1>t DEF Activate, Sound, Change
  <2>d. Change(r, {"activate"}, [account[request[r].user] EXCEPT !.status = "active", !.revision = Fresh])
    BY <1>19 DEF Activate
  <2>n. serial' = Fresh /\ serial' \in Nat /\ serial <= serial'
    BY <2>d, <1>t, <1>f DEF Change, Draw
  <2>r. \A t \in Requests :
          request'[t] = request[t] \/ Vouched(t)'
    BY <2>d, <1>t, <2>n, IdleIsProven DEF Change
  <2>v. PICK x \in Users : x = request[r].user
    BY <2>u
  <2>w. account'[x].revision = Fresh /\ \A u \in Users \ {x} : account'[u] = account[u]
    BY <2>d, <1>t, <2>v DEF Change, Accounts
  <2>x. \A u \in Users \ {x} : factor'[u] = factor[u] /\ passkeys'[u] = passkeys[u]
    BY <1>19, <1>t, <2>v DEF Activate, accessVars
  <2>c. \A u \in Users : CredentialsKept(u) /\ account'[u].revision <= serial'
    BY <1>a, <1>t, <1>f, <2>n, <2>w, <2>x, CredentialsOfOthers
  <2>s. \A s \in sessions' : s \in sessions
    BY <2>d DEF Change, Keep
  <2> QED
    BY <2>n, <2>r, <2>c, <2>s, <1>y, ProofsPreserved
<1>20. ASSUME NEW r \in Requests, Deactivate(r)
    PROVE  ProofInv'
  <2>u. request[r] \in RequestRecords /\ request[r].user \in Users
    BY <1>20, <1>t DEF Deactivate, Sound, Change
  <2>d. Change(r, {"deactivate"}, [account[request[r].user] EXCEPT !.status = "inactive", !.revision = Fresh])
    BY <1>20 DEF Deactivate
  <2>n. serial' = Fresh /\ serial' \in Nat /\ serial <= serial'
    BY <2>d, <1>t, <1>f DEF Change, Draw
  <2>r. \A t \in Requests :
          request'[t] = request[t] \/ Vouched(t)'
    BY <2>d, <1>t, <2>n, IdleIsProven DEF Change
  <2>v. PICK x \in Users : x = request[r].user
    BY <2>u
  <2>w. account'[x].revision = Fresh /\ \A u \in Users \ {x} : account'[u] = account[u]
    BY <2>d, <1>t, <2>v DEF Change, Accounts
  <2>x. \A u \in Users \ {x} : factor'[u] = factor[u] /\ passkeys'[u] = passkeys[u]
    BY <1>20, <1>t, <2>v DEF Deactivate, accessVars
  <2>c. \A u \in Users : CredentialsKept(u) /\ account'[u].revision <= serial'
    BY <1>a, <1>t, <1>f, <2>n, <2>w, <2>x, CredentialsOfOthers
  <2>s. \A s \in sessions' : s \in sessions
    BY <2>d DEF Change, Keep
  <2> QED
    BY <2>n, <2>r, <2>c, <2>s, <1>y, ProofsPreserved
<1>21. ASSUME NEW r \in Requests, Reissue(r)
    PROVE  ProofInv'
  <2>u. request[r] \in RequestRecords /\ request[r].user \in Users
    BY <1>21, <1>t DEF Reissue, Sound, Change
  <2>d. Change(r, {"reissue"}, [account[request[r].user] EXCEPT !.status = "pending", !.revision = Fresh])
    BY <1>21 DEF Reissue
  <2>n. serial' = Fresh /\ serial' \in Nat /\ serial <= serial'
    BY <2>d, <1>t, <1>f DEF Change, Draw
  <2>r. \A t \in Requests :
          request'[t] = request[t] \/ Vouched(t)'
    BY <2>d, <1>t, <2>n, IdleIsProven DEF Change
  <2>v. PICK x \in Users : x = request[r].user
    BY <2>u
  <2>w. account'[x].revision = Fresh /\ \A u \in Users \ {x} : account'[u] = account[u]
    BY <2>d, <1>t, <2>v DEF Change, Accounts
  <2>x. \A u \in Users \ {x} : factor'[u] = factor[u] /\ passkeys'[u] = passkeys[u]
    BY <1>21, <1>t, <2>v DEF Reissue, accessVars
  <2>c. \A u \in Users : CredentialsKept(u) /\ account'[u].revision <= serial'
    BY <1>a, <1>t, <1>f, <2>n, <2>w, <2>x, CredentialsOfOthers
  <2>s. \A s \in sessions' : s \in sessions
    BY <2>d DEF Change, Keep
  <2> QED
    BY <2>n, <2>r, <2>c, <2>s, <1>y, ProofsPreserved
<1>22. ASSUME NEW r \in Requests, ResetAccess(r)
    PROVE  ProofInv'
  <2>u. request[r] \in RequestRecords /\ request[r].user \in Users
    BY <1>22, <1>t DEF ResetAccess, Sound, Change
  <2>d. Change(r, {"reset"}, [account[request[r].user] EXCEPT !.status = "pending", !.revision = Fresh])
    BY <1>22 DEF ResetAccess
  <2>n. serial' = Fresh /\ serial' \in Nat /\ serial <= serial'
    BY <2>d, <1>t, <1>f DEF Change, Draw
  <2>r. \A t \in Requests :
          request'[t] = request[t] \/ Vouched(t)'
    BY <2>d, <1>t, <2>n, IdleIsProven DEF Change
  <2>v. PICK x \in Users : x = request[r].user
    BY <2>u
  <2>w. account'[x].revision = Fresh /\ \A u \in Users \ {x} : account'[u] = account[u]
    BY <2>d, <1>t, <2>v DEF Change, Accounts
  <2>x. \A u \in Users \ {x} : factor'[u] = factor[u] /\ passkeys'[u] = passkeys[u]
    BY <1>22, <1>t, <2>v DEF ResetAccess, accessVars
  <2>c. \A u \in Users : CredentialsKept(u) /\ account'[u].revision <= serial'
    BY <1>a, <1>t, <1>f, <2>n, <2>w, <2>x, CredentialsOfOthers
  <2>s. \A s \in sessions' : s \in sessions
    BY <2>d DEF Change, Keep
  <2> QED
    BY <2>n, <2>r, <2>c, <2>s, <1>y, ProofsPreserved
<1>23. ASSUME NEW r \in Requests, NEW u \in Users, NEW role \in Roles, Invite(r, u, role)
    PROVE  ProofInv'
  <2>n. serial' = Fresh /\ serial' \in Nat /\ serial <= serial'
    BY <1>23, <1>t, <1>f DEF Invite, Draw
  <2>r. \A t \in Requests :
          request'[t] = request[t] \/ Vouched(t)'
    BY <1>23, <1>t, <2>n, IdleIsProven DEF Invite
  <2>w. account'[u].revision = Fresh /\ \A v \in Users \ {u} : account'[v] = account[v]
    BY <1>23, <1>t DEF Invite, Opened
  <2>c. \A v \in Users : CredentialsKept(v) /\ account'[v].revision <= serial'
    BY <1>23, <1>a, <1>t, <1>f, <2>n, <2>w, CredentialsOfOthers DEF Invite
  <2>s. \A s \in sessions' : s \in sessions
    BY <1>23 DEF Invite, Keep, SessionsOf
  <2> QED
    BY <2>n, <2>r, <2>c, <2>s, <1>y, ProofsPreserved
<1>24. ASSUME NEW r \in Requests, NEW u \in Users, DeleteAccount(r, u)
    PROVE  ProofInv'
  <2>n. serial' = serial /\ serial' \in Nat /\ serial <= serial'
    BY <1>24, <1>t DEF DeleteAccount
  <2>r. \A t \in Requests :
          request'[t] = request[t] \/ Vouched(t)'
    BY <1>24, <1>t, <2>n, IdleIsProven DEF DeleteAccount
  <2>1. account'[u].status = "none" /\ account'[u].revision = 0
    BY <1>24, <1>t DEF DeleteAccount, NoAccount
  <2>2. \A v \in Users \ {u} : account'[v] = account[v] /\ factor'[v] = factor[v] /\ passkeys'[v] = passkeys[v]
    BY <1>24, <1>t DEF DeleteAccount
  <2>c. \A v \in Users : CredentialsKept(v) /\ account'[v].revision <= serial'
    BY <1>a, <1>t, <2>n, <2>1, <2>2 DEF CredentialsKept, Active, Credentials, HasFactor
  <2>s. \A s \in sessions' : s \in sessions
    BY <1>24 DEF DeleteAccount, Keep, SessionsOf
  <2> QED
    BY <2>n, <2>r, <2>c, <2>s, <1>y, ProofsPreserved
<1>25. ASSUME NEW r \in Requests, NEW u \in Users, StoreSetup(r, u)
    PROVE  ProofInv'
  <2>n. serial' = Fresh /\ serial' \in Nat /\ serial <= serial'
    BY <1>25, <1>t, <1>f DEF StoreSetup, Draw
  <2>1. request'[r].at = "stored" /\ request'[r].revision = 0
    BY <1>25, <1>t DEF StoreSetup, Move, Idle
  <2>2. RequestIsProven(request[r])'
    BY <2>1 DEF RequestIsProven, Proving
  <2>r. \A t \in Requests :
          request'[t] = request[t] \/ Vouched(t)'
    <3>1. Vouched(r)'
      BY <1>t, <1>f, <2>n, <2>1, <2>2 DEF Vouched
    <3> QED
      BY <1>25, <3>1, MoveIsLocal DEF StoreSetup
  <2>c. \A v \in Users : CredentialsKept(v) /\ account'[v].revision <= serial'
    BY <1>25, <2>n, CredentialsOfStable DEF StoreSetup, accessVars
  <2>s. \A s \in sessions' : s \in sessions
    BY <1>25 DEF StoreSetup, Keep, SessionsOf
  <2> QED
    BY <2>n, <2>r, <2>c, <2>s, <1>y, ProofsPreserved
<1>26. ASSUME NEW r \in Requests, ReadSetup(r)
    PROVE  ProofInv'
  <2>u. request[r] \in RequestRecords /\ request[r].user \in Users
    BY <1>26, <1>t DEF ReadSetup, Sound
  <2> DEFINE n == [request[r] EXCEPT !.at = "enrolled", !.revision = account[request[r].user].revision]
  <2>1. n.revision <= serial
    BY <1>a, <1>t, <2>u DEF RequestRecords
  <2>2. RequestIsProven(n)
    <3>1. n.at = "enrolled"
      BY <1>t, <2>u DEF RequestRecords
    <3> QED
      BY <3>1, OthersAreProven DEF Proving
  <2>3. Move(r, n) /\ ReadOnly
    BY <1>26 DEF ReadSetup
  <2> HIDE DEF n
  <2> QED
    BY <2>1, <2>2, <2>3, <1>y, ReadIsProven
<1>27. ASSUME NEW r \in Requests, NEW step \in Steps, CompleteSetup(r, step)
    PROVE  ProofInv'
  <2>u. request[r] \in RequestRecords /\ request[r].user \in Users
    BY <1>27, <1>t DEF CompleteSetup, Sound
  <2>n. serial' = Fresh /\ serial' \in Nat /\ serial <= serial'
    BY <1>27, <1>t, <1>f DEF CompleteSetup, Draw
  <2>r. \A t \in Requests :
          request'[t] = request[t] \/ Vouched(t)'
    BY <1>27, <1>t, <2>n, IdleIsProven DEF CompleteSetup
  <2>v. PICK x \in Users : x = request[r].user
    BY <2>u
  <2>w. account'[x].revision = Fresh /\ \A u \in Users \ {x} : account'[u] = account[u]
    BY <1>27, <1>t, <2>v DEF CompleteSetup, Accounts
  <2>x. \A u \in Users \ {x} : factor'[u] = factor[u] /\ passkeys'[u] = passkeys[u]
    BY <1>27, <1>t, <2>v DEF CompleteSetup, accessVars
  <2>c. \A u \in Users : CredentialsKept(u) /\ account'[u].revision <= serial'
    BY <1>a, <1>t, <1>f, <2>n, <2>w, <2>x, CredentialsOfOthers
  <2>s. \A s \in sessions' : s \in sessions
    BY <1>27 DEF CompleteSetup, Keep, SessionsOf
  <2> QED
    BY <2>n, <2>r, <2>c, <2>s, <1>y, ProofsPreserved
<1>28. ASSUME NEW r \in Requests, Stop(r)
    PROVE  ProofInv'
  <2>n. serial' = serial /\ serial' \in Nat /\ serial <= serial'
    BY <1>28, <1>t DEF Stop
  <2>r. \A t \in Requests :
          request'[t] = request[t] \/ Vouched(t)'
    BY <1>28, <1>t, <2>n, IdleIsProven DEF Stop
  <2>c. \A u \in Users : CredentialsKept(u) /\ account'[u].revision <= serial'
    BY <1>28, <2>n, CredentialsOfStable DEF Stop, accessVars
  <2>s. \A s \in sessions' : s \in sessions
    BY <1>28 DEF Stop, Keep, SessionsOf
  <2> QED
    BY <2>n, <2>r, <2>c, <2>s, <1>y, ProofsPreserved
<1>29. CASE UNCHANGED vars
  <2>1. UNCHANGED <<account, factor, passkeys, sessions, request, serial>>
    BY <1>29 DEF vars, accessVars
  <2>2. serial <= serial' /\ serial' \in Nat
    BY <2>1, <1>t
  <2>3. \A u \in Users : CredentialsKept(u) /\ account'[u].revision <= serial'
    BY <2>1, <2>2, CredentialsOfStable
  <2> QED
    BY <2>1, <2>2, <2>3, <1>y, ProofsPreserved
<1> QED
  BY <1>1, <1>2, <1>3, <1>4, <1>5, <1>6, <1>7, <1>8, <1>9, <1>10, <1>11, <1>12, <1>13, <1>14, <1>15, <1>16, <1>17, <1>18, <1>19, <1>20, <1>21, <1>22, <1>23, <1>24, <1>25, <1>26, <1>27, <1>28, <1>29
     DEF Next, SignIn, OwnChange, Administration, Setup
LEMMA ProofInit == Init => ProofInv
<1> SUFFICES ASSUME Init PROVE ProofInv
  OBVIOUS
<1>1. PICK admins \in (SUBSET Users) \ {{}} : \E invited \in [Users \ admins -> Roles \cup {"none"}] :
    Installed(admins, invited)
  BY DEF Init
<1>2. PICK invited \in [Users \ admins -> Roles \cup {"none"}] : Installed(admins, invited)
  BY <1>1
<1>3. \A u \in Users : account[u].revision <= serial
  BY <1>2 DEF Installed, Opened, NoAccount, NoId
<1>4. \A s \in sessions : SessionIsProven(s)
  <2>1. ASSUME NEW s \in sessions
        PROVE  SessionIsProven(s)
    <3>1. PICK u \in admins : s = [id |-> 1, user |-> u, revision |-> 1, proof |-> {Password(1), Totp(1)}]
      BY <1>2 DEF Installed
    <3>2. u \in Users
      OBVIOUS
    <3>3. account[u].password = 1 /\ factor[u].secret = 1 /\ HasFactor(u) /\ serial = 1
      BY <1>2, <3>2 DEF Installed, Opened, HasFactor, NoFactor, NoId
    <3>4. {Password(1), Totp(1)} \subseteq Credentials(u)
      BY <3>3 DEF Credentials
    <3> QED
      BY <3>1, <3>3, <3>4 DEF SessionIsProven, Proven
  <2> QED
    BY <2>1
<1>5. \A r \in Requests : Vouched(r)
  BY <1>2, OthersAreProven DEF Installed, Idle, NoId, Proving, Vouched
<1> QED
  BY <1>3, <1>4, <1>5 DEF ProofInv

\* A session that is accepted was proved with what the account accepts now,
\* however sign-ins overlap with changes of the account.
THEOREM SessionsStayProven == Spec => []SessionsAreProven
<1>1. ASSUME TypeInv, ProofInv
      PROVE  SessionsAreProven
  BY <1>1 DEF ProofInv, SessionIsProven, Proven, SessionsAreProven, Usable
<1> QED
  BY <1>1, TypeInit, ProofInit, TypeStep, ProofStep, PTL DEF Spec

-----------------------------------------------------------------------------
(* The codes accepted.                                                     *)

\* A secret is drawn for one account, and knows the last step it accepted.
SecretsInv ==
  \A u \in Users :
    /\ setup[u].nonce <= serial /\ factor[u].secret <= serial
    /\ HasFactor(u) => factor[u].secret # NoId /\ factor[u].secret # setup[u].nonce

AcceptedInv ==
  \A u \in Users, n, k \in Nat : <<u, n, k>> \in accepted =>
    /\ n # NoId /\ n <= serial /\ n # setup[u].nonce
    /\ n = factor[u].secret => k <= factor[u].last

SecretStays(u) ==
  /\ factor'[u] = factor[u] \/ factor'[u] = NoFactor
  /\ setup'[u].nonce = setup[u].nonce \/ setup'[u].nonce = NoId

LEMMA CodesOfFewer ==
  ASSUME TypeInv, SecretsInv, AcceptedInv, accepted' = accepted, serial <= serial', serial' \in Nat,
         \A u \in Users : SecretStays(u)
  PROVE  SecretsInv' /\ AcceptedInv'
<1>1. /\ factor \in [Users -> Factors] /\ setup \in [Users -> Setups] /\ serial \in Nat
      /\ NoFactor.secret = 0 /\ NoFactor.last = 0
  BY Types DEF NoFactor, NoId
<1>2. \A u \in Users : factor[u].secret \in Nat /\ factor[u].last \in Nat /\ setup[u].nonce \in Nat
  BY <1>1 DEF Factors, Setups
<1>3. SecretsInv'
  BY <1>1, <1>2 DEF SecretsInv, SecretStays, HasFactor, NoId
<1>4. AcceptedInv'
  BY <1>1, <1>2 DEF AcceptedInv, SecretStays, NoId
<1> QED
  BY <1>3, <1>4

LEMMA CodesOfStable ==
  ASSUME TypeInv, SecretsInv, AcceptedInv, UNCHANGED <<accepted, factor, setup>>,
         serial <= serial', serial' \in Nat
  PROVE  SecretsInv' /\ AcceptedInv'
BY CodesOfFewer DEF SecretStays

LEMMA CodesStep ==
  ASSUME TypeInv, ProofInv, SecretsInv, AcceptedInv, [Next]_vars
  PROVE  SecretsInv' /\ AcceptedInv'
<1>t. /\ factor \in [Users -> Factors] /\ setup \in [Users -> Setups]
      /\ request \in [Requests -> RequestRecords] /\ \A r \in Requests : Sound(request[r])
      /\ accepted \subseteq Users \X Nat \X Nat /\ serial \in Nat
  BY Types
<1>f. Fresh \in Nat /\ Fresh > serial /\ Fresh = serial + 1
  BY FreshIsTyped DEF Fresh
<1>n. /\ \A u \in Users : factor[u].secret \in Nat /\ factor[u].last \in Nat /\ setup[u].nonce \in Nat
      /\ NoFactor.secret = 0 /\ NoId = 0
  BY <1>t DEF Factors, Setups, NoFactor, NoId
<1>1. ASSUME NEW u \in Users, NEW kept \in SUBSET SessionsOf(u), EndSessions(u, kept)
    PROVE  SecretsInv' /\ AcceptedInv'
  BY <1>1, <1>t, CodesOfStable DEF EndSessions, accessVars
<1>2. ASSUME NEW r \in Requests, NEW u \in Users, ProvePassword(r, u)
    PROVE  SecretsInv' /\ AcceptedInv'
  BY <1>2, <1>t, CodesOfStable DEF ProvePassword, ReadOnly, accessVars
<1>3. ASSUME NEW r \in Requests, NEW s \in sessions, ProveAgain(r, s)
    PROVE  SecretsInv' /\ AcceptedInv'
  BY <1>3, <1>t, CodesOfStable DEF ProveAgain, ReadOnly, accessVars
<1>4. ASSUME NEW r \in Requests, NEW step \in Steps, ReadFactor(r, step)
    PROVE  SecretsInv' /\ AcceptedInv'
  BY <1>4, <1>t, CodesOfStable DEF ReadFactor, ReadOnly, accessVars
<1>5. ASSUME NEW r \in Requests, ConsumeStep(r)
    PROVE  SecretsInv' /\ AcceptedInv'
  <2>u. PICK x \in Users : x = request[r].user
    BY <1>5, <1>t DEF ConsumeStep, Sound
  <2>1. /\ request[r].id = factor[x].secret /\ HasFactor(x) /\ request[r].step \in Nat
        /\ factor[x].last < request[r].step
    <3>1. request[r] \in RequestRecords /\ RequestIsProven(request[r])
      BY <1>t DEF ProofInv, Vouched
    <3> QED
      BY <1>5, <2>u, <3>1 DEF ConsumeStep, IsUnused, RequestIsProven, Proving, RequestRecords
  <2>2. /\ setup' = setup /\ serial' = serial
        /\ factor'[x].secret = factor[x].secret /\ factor'[x].last = request[r].step
        /\ \A v \in Users \ {x} : factor'[v] = factor[v]
        /\ accepted' = accepted \cup {<<x, factor[x].secret, request[r].step>>}
    BY <1>5, <1>t, <2>u, <2>1 DEF ConsumeStep, Factors
  <2>3. SecretsInv'
    BY <1>t, <1>n, <2>1, <2>2 DEF SecretsInv, HasFactor
  <2>4. AcceptedInv'
    BY <1>t, <1>n, <2>1, <2>2 DEF SecretsInv, AcceptedInv
  <2> QED
    BY <2>3, <2>4
<1>6. ASSUME NEW r \in Requests, NEW u \in Users, NEW k \in passkeys[u], DiscoverPasskey(r, u, k)
    PROVE  SecretsInv' /\ AcceptedInv'
  BY <1>6, <1>t, CodesOfStable DEF DiscoverPasskey, ReadOnly, accessVars
<1>7. ASSUME NEW r \in Requests, NEW k \in passkeys[request[r].user], ChoosePasskey(r, k)
    PROVE  SecretsInv' /\ AcceptedInv'
  BY <1>7, <1>t, CodesOfStable DEF ChoosePasskey, ReadOnly, accessVars
<1>8. ASSUME NEW r \in Requests, CompletePasskey(r)
    PROVE  SecretsInv' /\ AcceptedInv'
  BY <1>8, <1>t, CodesOfStable DEF CompletePasskey, ReadOnly, accessVars
<1>9. ASSUME NEW r \in Requests, IssueSession(r)
    PROVE  SecretsInv' /\ AcceptedInv'
  BY <1>9, <1>t, <1>f, CodesOfStable DEF IssueSession, accessVars, Draw
<1>10. ASSUME NEW r \in Requests, NEW s \in sessions, NEW kind \in {"change", "administer"}, Authorize(r, s, kind)
    PROVE  SecretsInv' /\ AcceptedInv'
  BY <1>10, <1>t, CodesOfStable DEF Authorize, ReadOnly, accessVars
<1>11. ASSUME NEW r \in Requests, ChangePassword(r)
    PROVE  SecretsInv' /\ AcceptedInv'
  BY <1>11, <1>t, <1>f, CodesOfStable DEF ChangePassword, accessVars, Draw
<1>12. ASSUME NEW r \in Requests, NEW s \in sessions, NEW step \in Steps, ReplaceTotp(r, s, step)
    PROVE  SecretsInv' /\ AcceptedInv'
  <2>u. PICK x \in Users : x = request[r].user
    BY <1>12, <1>t DEF ReplaceTotp, Changing, Sound
  <2>2. /\ setup' = setup /\ serial' = Fresh
        /\ factor'[x].secret = Fresh /\ factor'[x].last = step
        /\ \A v \in Users \ {x} : factor'[v] = factor[v]
        /\ accepted' = accepted \cup {<<x, Fresh, step>>}
    BY <1>12, <1>t, <2>u DEF ReplaceTotp, CarryOver, Draw
  <2>s. step \in Nat
    BY ConstantAssumption
  <2>3. SecretsInv'
    BY <1>t, <1>f, <1>n, <2>2 DEF SecretsInv, HasFactor
  <2>4. AcceptedInv'
    BY <1>t, <1>f, <1>n, <2>s, <2>2 DEF SecretsInv, AcceptedInv
  <2> QED
    BY <2>3, <2>4
<1>13. ASSUME NEW r \in Requests, NEW s \in sessions, NEW k \in passkeys[request[r].user], RemovePasskey(r, s, k)
    PROVE  SecretsInv' /\ AcceptedInv'
  BY <1>13, <1>t, <1>f, CodesOfStable DEF RemovePasskey, CarryOver, Draw
<1>14. ASSUME NEW r \in Requests, NEW s \in sessions, AskForPasskey(r, s)
    PROVE  SecretsInv' /\ AcceptedInv'
  BY <1>14, <1>t, CodesOfStable DEF AskForPasskey, accessVars
<1>15. ASSUME NEW r \in Requests, NEW s \in sessions, AnswerChallenge(r, s)
    PROVE  SecretsInv' /\ AcceptedInv'
  BY <1>15, <1>t, CodesOfStable DEF AnswerChallenge, ReadOnly, accessVars
<1>16. ASSUME NEW r \in Requests, RegisterPasskey(r)
    PROVE  SecretsInv' /\ AcceptedInv'
  BY <1>16, <1>t, <1>f, CodesOfStable DEF RegisterPasskey, accessVars, Draw
<1>17. ASSUME NEW r \in Requests, NEW kind \in Inspected, NEW u \in Users, Inspect(r, kind, u)
    PROVE  SecretsInv' /\ AcceptedInv'
  BY <1>17, <1>t, CodesOfStable DEF Inspect, ReadOnly, accessVars
<1>18. ASSUME NEW r \in Requests, ChangeRole(r)
    PROVE  SecretsInv' /\ AcceptedInv'
  BY <1>18, <1>t, <1>f, CodesOfStable DEF ChangeRole, Change, accessVars, Draw
<1>19. ASSUME NEW r \in Requests, Activate(r)
    PROVE  SecretsInv' /\ AcceptedInv'
  BY <1>19, <1>t, <1>f, CodesOfStable DEF Activate, Change, accessVars, Draw
<1>20. ASSUME NEW r \in Requests, Deactivate(r)
    PROVE  SecretsInv' /\ AcceptedInv'
  <2>1. accepted' = accepted /\ serial' = Fresh
    BY <1>20 DEF Deactivate, Change, Draw
  <2>2. \A v \in Users : SecretStays(v)
    BY <1>20, <1>t DEF Deactivate, NoSetup, Link, SecretStays
  <2>3. serial <= serial' /\ serial' \in Nat
    BY <1>t, <1>f, <2>1
  <2> QED
    BY <2>1, <2>2, <2>3, CodesOfFewer
<1>21. ASSUME NEW r \in Requests, Reissue(r)
    PROVE  SecretsInv' /\ AcceptedInv'
  <2>1. accepted' = accepted /\ serial' = Fresh
    BY <1>21 DEF Reissue, Change, Draw
  <2>2. \A v \in Users : SecretStays(v)
    BY <1>21, <1>t DEF Reissue, NoSetup, Link, SecretStays
  <2>3. serial <= serial' /\ serial' \in Nat
    BY <1>t, <1>f, <2>1
  <2> QED
    BY <2>1, <2>2, <2>3, CodesOfFewer
<1>22. ASSUME NEW r \in Requests, ResetAccess(r)
    PROVE  SecretsInv' /\ AcceptedInv'
  <2>1. accepted' = accepted /\ serial' = Fresh
    BY <1>22 DEF ResetAccess, Change, Draw
  <2>2. \A v \in Users : SecretStays(v)
    BY <1>22, <1>t DEF ResetAccess, NoSetup, Link, SecretStays
  <2>3. serial <= serial' /\ serial' \in Nat
    BY <1>t, <1>f, <2>1
  <2> QED
    BY <2>1, <2>2, <2>3, CodesOfFewer
<1>23. ASSUME NEW r \in Requests, NEW u \in Users, NEW role \in Roles, Invite(r, u, role)
    PROVE  SecretsInv' /\ AcceptedInv'
  <2>1. accepted' = accepted /\ serial' = Fresh
    BY <1>23 DEF Invite, Draw
  <2>2. \A v \in Users : SecretStays(v)
    BY <1>23, <1>t DEF Invite, NoSetup, Link, SecretStays
  <2>3. serial <= serial' /\ serial' \in Nat
    BY <1>t, <1>f, <2>1
  <2> QED
    BY <2>1, <2>2, <2>3, CodesOfFewer
<1>24. ASSUME NEW r \in Requests, NEW u \in Users, DeleteAccount(r, u)
    PROVE  SecretsInv' /\ AcceptedInv'
  <2>1. accepted' = accepted /\ serial' = serial
    BY <1>24 DEF DeleteAccount, Draw
  <2>2. \A v \in Users : SecretStays(v)
    BY <1>24, <1>t DEF DeleteAccount, NoSetup, Link, SecretStays
  <2>3. serial <= serial' /\ serial' \in Nat
    BY <1>t, <1>f, <2>1
  <2> QED
    BY <2>1, <2>2, <2>3, CodesOfFewer
<1>25. ASSUME NEW r \in Requests, NEW u \in Users, StoreSetup(r, u)
    PROVE  SecretsInv' /\ AcceptedInv'
  <2>2. /\ factor' = factor /\ serial' = Fresh /\ accepted' = accepted
        /\ setup'[u].nonce = Fresh
        /\ \A v \in Users \ {u} : setup'[v] = setup[v]
    BY <1>25, <1>t DEF StoreSetup, Draw, Setups
  <2>3. SecretsInv'
    BY <1>t, <1>f, <1>n, <2>2 DEF SecretsInv, HasFactor
  <2>4. AcceptedInv'
    BY <1>t, <1>f, <1>n, <2>2 DEF SecretsInv, AcceptedInv
  <2> QED
    BY <2>3, <2>4
<1>26. ASSUME NEW r \in Requests, ReadSetup(r)
    PROVE  SecretsInv' /\ AcceptedInv'
  BY <1>26, <1>t, CodesOfStable DEF ReadSetup, ReadOnly, accessVars
<1>27. ASSUME NEW r \in Requests, NEW step \in Steps, CompleteSetup(r, step)
    PROVE  SecretsInv' /\ AcceptedInv'
  <2>u. PICK x \in Users : x = request[r].user
    BY <1>27, <1>t DEF CompleteSetup, Sound
  <2>1. setup[x].nonce = request[r].id
    BY <1>27, <2>u DEF CompleteSetup, IsPrepared
  <2>2. /\ setup'[x].nonce = NoId /\ serial' = Fresh
        /\ \A v \in Users \ {x} : setup'[v] = setup[v]
        /\ factor'[x].secret = setup[x].nonce /\ factor'[x].last = step
        /\ \A v \in Users \ {x} : factor'[v] = factor[v]
        /\ accepted' = accepted \cup {<<x, setup[x].nonce, step>>}
    BY <1>27, <1>t, <2>u, <2>1 DEF CompleteSetup, Draw, Setups
  <2>s. step \in Nat \ {0}
    BY ConstantAssumption
  <2>p. setup[x].nonce # NoId
    BY <1>27, <1>t, <2>u, <2>1 DEF CompleteSetup, Sound
  <2>3. SecretsInv'
    BY <1>t, <1>f, <1>n, <2>2, <2>p DEF SecretsInv, HasFactor
  <2>4. AcceptedInv'
    BY <1>t, <1>f, <1>n, <2>s, <2>2, <2>p DEF SecretsInv, AcceptedInv
  <2> QED
    BY <2>3, <2>4
<1>28. ASSUME NEW r \in Requests, Stop(r)
    PROVE  SecretsInv' /\ AcceptedInv'
  BY <1>28, <1>t, CodesOfStable DEF Stop, accessVars
<1>29. CASE UNCHANGED vars
  BY <1>29, <1>t, CodesOfStable DEF vars, accessVars
<1> QED
  BY <1>1, <1>2, <1>3, <1>4, <1>5, <1>6, <1>7, <1>8, <1>9, <1>10, <1>11, <1>12, <1>13, <1>14, <1>15, <1>16, <1>17, <1>18, <1>19, <1>20, <1>21, <1>22, <1>23, <1>24, <1>25, <1>26, <1>27, <1>28, <1>29
     DEF Next, SignIn, OwnChange, Administration, Setup

LEMMA CodesInit == Init => SecretsInv /\ AcceptedInv
<1> SUFFICES ASSUME Init PROVE SecretsInv /\ AcceptedInv
  OBVIOUS
<1>1. PICK admins \in (SUBSET Users) \ {{}} : \E invited \in [Users \ admins -> Roles \cup {"none"}] :
    Installed(admins, invited)
  BY DEF Init
<1>2. PICK invited \in [Users \ admins -> Roles \cup {"none"}] : Installed(admins, invited)
  BY <1>1
<1> QED
  BY <1>2 DEF Installed, SecretsInv, AcceptedInv, HasFactor, NoFactor, NoSetup, Link, NoId

\* Only ConsumeStep accepts a code that was read before.
LEMMA CodesAreConsumed ==
  ASSUME TypeInv, [Next]_vars, NEW c \in Requests, request[c].at = "code", request'[c].at = "verified"
  PROVE  ConsumeStep(c)
<1>t. /\ request \in [Requests -> RequestRecords] /\ Idle.at = "idle" /\ Idle.kind = "none"
      /\ c \in Requests /\ request'[c] # request[c] /\ request'[c] # Idle
  BY Types DEF Idle
<1>1. ASSUME NEW u \in Users, NEW kept \in SUBSET SessionsOf(u), EndSessions(u, kept)
    PROVE  ConsumeStep(c)
  BY <1>1, <1>t DEF EndSessions
<1>2. ASSUME NEW r \in Requests, NEW u \in Users, ProvePassword(r, u)
    PROVE  ConsumeStep(c)
  <2>1. request[r].at # "code"
    BY <1>2, <1>t DEF ProvePassword
  <2> QED
    BY <1>2, <1>t, <2>1, MoveIsLocal DEF ProvePassword
<1>3. ASSUME NEW r \in Requests, NEW s \in sessions, ProveAgain(r, s)
    PROVE  ConsumeStep(c)
  <2>1. request[r].at # "code"
    BY <1>3, <1>t DEF ProveAgain
  <2> QED
    BY <1>3, <1>t, <2>1, MoveIsLocal DEF ProveAgain
<1>4. ASSUME NEW r \in Requests, NEW step \in Steps, ReadFactor(r, step)
    PROVE  ConsumeStep(c)
  <2>1. request[r].at # "code"
    BY <1>4, <1>t DEF ReadFactor
  <2> QED
    BY <1>4, <1>t, <2>1, MoveIsLocal DEF ReadFactor
<1>5. ASSUME NEW r \in Requests, ConsumeStep(r)
    PROVE  ConsumeStep(c)
  BY <1>5, <1>t, MoveIsLocal DEF ConsumeStep
<1>6. ASSUME NEW r \in Requests, NEW u \in Users, NEW k \in passkeys[u], DiscoverPasskey(r, u, k)
    PROVE  ConsumeStep(c)
  <2>1. request[r].at # "code"
    BY <1>6, <1>t DEF DiscoverPasskey
  <2> QED
    BY <1>6, <1>t, <2>1, MoveIsLocal DEF DiscoverPasskey
<1>7. ASSUME NEW r \in Requests, NEW k \in passkeys[request[r].user], ChoosePasskey(r, k)
    PROVE  ConsumeStep(c)
  <2>1. request[r].at # "code"
    BY <1>7, <1>t DEF ChoosePasskey
  <2> QED
    BY <1>7, <1>t, <2>1, MoveIsLocal DEF ChoosePasskey
<1>8. ASSUME NEW r \in Requests, CompletePasskey(r)
    PROVE  ConsumeStep(c)
  <2>1. request[r].at # "code"
    BY <1>8, <1>t DEF CompletePasskey
  <2> QED
    BY <1>8, <1>t, <2>1, MoveIsLocal DEF CompletePasskey
<1>9. ASSUME NEW r \in Requests, IssueSession(r)
    PROVE  ConsumeStep(c)
  <2>1. request[r].at # "code"
    BY <1>9, <1>t DEF IssueSession
  <2> QED
    BY <1>9, <1>t, <2>1, MoveIsLocal DEF IssueSession
<1>10. ASSUME NEW r \in Requests, NEW s \in sessions, NEW kind \in {"change", "administer"}, Authorize(r, s, kind)
    PROVE  ConsumeStep(c)
  <2>1. request[r].at # "code"
    BY <1>10, <1>t DEF Authorize
  <2> QED
    BY <1>10, <1>t, <2>1, MoveIsLocal DEF Authorize
<1>11. ASSUME NEW r \in Requests, ChangePassword(r)
    PROVE  ConsumeStep(c)
  <2>1. request[r].at # "code"
    BY <1>11, <1>t DEF ChangePassword, Changing
  <2> QED
    BY <1>11, <1>t, <2>1, MoveIsLocal DEF ChangePassword, Changing
<1>12. ASSUME NEW r \in Requests, NEW s \in sessions, NEW step \in Steps, ReplaceTotp(r, s, step)
    PROVE  ConsumeStep(c)
  <2>1. request[r].at # "code"
    BY <1>12, <1>t DEF ReplaceTotp, CarryOver, Changing
  <2> QED
    BY <1>12, <1>t, <2>1, MoveIsLocal DEF ReplaceTotp, CarryOver, Changing
<1>13. ASSUME NEW r \in Requests, NEW s \in sessions, NEW k \in passkeys[request[r].user], RemovePasskey(r, s, k)
    PROVE  ConsumeStep(c)
  <2>1. request[r].at # "code"
    BY <1>13, <1>t DEF RemovePasskey, CarryOver, Changing
  <2> QED
    BY <1>13, <1>t, <2>1, MoveIsLocal DEF RemovePasskey, CarryOver, Changing
<1>14. ASSUME NEW r \in Requests, NEW s \in sessions, AskForPasskey(r, s)
    PROVE  ConsumeStep(c)
  <2>1. request[r].at # "code"
    BY <1>14, <1>t DEF AskForPasskey, Changing
  <2> QED
    BY <1>14, <1>t, <2>1, MoveIsLocal DEF AskForPasskey, Changing
<1>15. ASSUME NEW r \in Requests, NEW s \in sessions, AnswerChallenge(r, s)
    PROVE  ConsumeStep(c)
  <2>1. request[r].at # "code"
    BY <1>15, <1>t DEF AnswerChallenge
  <2> QED
    BY <1>15, <1>t, <2>1, MoveIsLocal DEF AnswerChallenge
<1>16. ASSUME NEW r \in Requests, RegisterPasskey(r)
    PROVE  ConsumeStep(c)
  <2>1. request[r].at # "code"
    BY <1>16, <1>t DEF RegisterPasskey
  <2> QED
    BY <1>16, <1>t, <2>1, MoveIsLocal DEF RegisterPasskey
<1>17. ASSUME NEW r \in Requests, NEW kind \in Inspected, NEW u \in Users, Inspect(r, kind, u)
    PROVE  ConsumeStep(c)
  <2>1. request[r].at # "code"
    BY <1>17, <1>t DEF Inspect, Administering
  <2> QED
    BY <1>17, <1>t, <2>1, MoveIsLocal DEF Inspect, Administering
<1>18. ASSUME NEW r \in Requests, ChangeRole(r)
    PROVE  ConsumeStep(c)
  <2>1. request[r].at # "code"
    BY <1>18, <1>t DEF ChangeRole, Change
  <2> QED
    BY <1>18, <1>t, <2>1, MoveIsLocal DEF ChangeRole, Change
<1>19. ASSUME NEW r \in Requests, Activate(r)
    PROVE  ConsumeStep(c)
  <2>1. request[r].at # "code"
    BY <1>19, <1>t DEF Activate, Change
  <2> QED
    BY <1>19, <1>t, <2>1, MoveIsLocal DEF Activate, Change
<1>20. ASSUME NEW r \in Requests, Deactivate(r)
    PROVE  ConsumeStep(c)
  <2>1. request[r].at # "code"
    BY <1>20, <1>t DEF Deactivate, Change
  <2> QED
    BY <1>20, <1>t, <2>1, MoveIsLocal DEF Deactivate, Change
<1>21. ASSUME NEW r \in Requests, Reissue(r)
    PROVE  ConsumeStep(c)
  <2>1. request[r].at # "code"
    BY <1>21, <1>t DEF Reissue, Change
  <2> QED
    BY <1>21, <1>t, <2>1, MoveIsLocal DEF Reissue, Change
<1>22. ASSUME NEW r \in Requests, ResetAccess(r)
    PROVE  ConsumeStep(c)
  <2>1. request[r].at # "code"
    BY <1>22, <1>t DEF ResetAccess, Change
  <2> QED
    BY <1>22, <1>t, <2>1, MoveIsLocal DEF ResetAccess, Change
<1>23. ASSUME NEW r \in Requests, NEW u \in Users, NEW role \in Roles, Invite(r, u, role)
    PROVE  ConsumeStep(c)
  <2>1. request[r].at # "code"
    BY <1>23, <1>t DEF Invite, Administering
  <2> QED
    BY <1>23, <1>t, <2>1, MoveIsLocal DEF Invite, Administering
<1>24. ASSUME NEW r \in Requests, NEW u \in Users, DeleteAccount(r, u)
    PROVE  ConsumeStep(c)
  <2>1. request[r].at # "code"
    BY <1>24, <1>t DEF DeleteAccount, Administering
  <2> QED
    BY <1>24, <1>t, <2>1, MoveIsLocal DEF DeleteAccount, Administering
<1>25. ASSUME NEW r \in Requests, NEW u \in Users, StoreSetup(r, u)
    PROVE  ConsumeStep(c)
  <2>1. request[r].at # "code"
    BY <1>25, <1>t DEF StoreSetup
  <2> QED
    BY <1>25, <1>t, <2>1, MoveIsLocal DEF StoreSetup
<1>26. ASSUME NEW r \in Requests, ReadSetup(r)
    PROVE  ConsumeStep(c)
  <2>1. request[r].at # "code"
    BY <1>26, <1>t DEF ReadSetup
  <2> QED
    BY <1>26, <1>t, <2>1, MoveIsLocal DEF ReadSetup
<1>27. ASSUME NEW r \in Requests, NEW step \in Steps, CompleteSetup(r, step)
    PROVE  ConsumeStep(c)
  <2>1. request[r].at # "code"
    BY <1>27, <1>t DEF CompleteSetup
  <2> QED
    BY <1>27, <1>t, <2>1, MoveIsLocal DEF CompleteSetup
<1>28. ASSUME NEW r \in Requests, Stop(r)
    PROVE  ConsumeStep(c)
  BY <1>28, <1>t, MoveIsLocal DEF Stop
<1>29. CASE UNCHANGED vars
  BY <1>29, <1>t DEF vars
<1> QED
  BY <1>1, <1>2, <1>3, <1>4, <1>5, <1>6, <1>7, <1>8, <1>9, <1>10, <1>11, <1>12, <1>13, <1>14, <1>15, <1>16, <1>17, <1>18, <1>19, <1>20, <1>21, <1>22, <1>23, <1>24, <1>25, <1>26, <1>27, <1>28, <1>29
     DEF Next, SignIn, OwnChange, Administration, Setup

\* A code signs in or authorizes once, whichever requests check it at the
\* same time.
THEOREM CodesAreUsedOnce == Spec => StepUsedOnce
<1>1. ASSUME TypeInv, ProofInv, SecretsInv, AcceptedInv, [Next]_vars, NEW r \in Requests,
             request[r].at = "code", request'[r].at = "verified"
      PROVE  <<request[r].user, request[r].id, request[r].step>> \notin accepted
  <2>1. ConsumeStep(r)
    BY <1>1, CodesAreConsumed
  <2>2. /\ Sound(request[r]) /\ request[r] \in RequestRecords /\ RequestIsProven(request[r])
        /\ factor \in [Users -> Factors]
    BY <1>1, Types DEF ProofInv, Vouched
  <2>3. PICK u \in Users : u = request[r].user
    BY <1>1, <2>2 DEF Sound
  <2>4. /\ request[r].id = factor[u].secret /\ request[r].id \in Nat
        /\ factor[u].last < request[r].step /\ request[r].step \in Nat /\ factor[u].last \in Nat
    BY <2>1, <2>2, <2>3 DEF ConsumeStep, IsUnused, RequestIsProven, Proving, RequestRecords, Factors
  <2> QED
    BY <1>1, <2>3, <2>4 DEF AcceptedInv
<1>2. TypeInv /\ ProofInv /\ SecretsInv /\ AcceptedInv /\ [Next]_vars
        => [\A r \in Requests :
              request[r].at = "code" /\ request'[r].at = "verified" =>
                <<request[r].user, request[r].id, request[r].step>> \notin accepted]_vars
  BY <1>1
<1> QED
  BY <1>2, TypeInit, ProofInit, CodesInit, TypeStep, ProofStep, CodesStep, PTL DEF Spec, StepUsedOnce

-----------------------------------------------------------------------------
(* Setup.                                                                  *)

\* Only CompleteSetup turns a pending account active.
LEMMA SetupActivates ==
  ASSUME TypeInv, [Next]_vars, NEW v \in Users, account[v].status = "pending", account'[v].status = "active"
  PROVE  account'[v].password = factor'[v].secret
<1>t. /\ account \in [Users -> Accounts] /\ factor \in [Users -> Factors] /\ v \in Users
      /\ request \in [Requests -> RequestRecords] /\ \A r \in Requests : Sound(request[r])
  BY Types
<1>1. ASSUME NEW u \in Users, NEW kept \in SUBSET SessionsOf(u), EndSessions(u, kept)
    PROVE  account'[v].password = factor'[v].secret
  BY <1>1 DEF EndSessions
<1>2. ASSUME NEW r \in Requests, NEW u \in Users, ProvePassword(r, u)
    PROVE  account'[v].password = factor'[v].secret
  BY <1>2 DEF ProvePassword, ReadOnly
<1>3. ASSUME NEW r \in Requests, NEW s \in sessions, ProveAgain(r, s)
    PROVE  account'[v].password = factor'[v].secret
  BY <1>3 DEF ProveAgain, ReadOnly
<1>4. ASSUME NEW r \in Requests, NEW step \in Steps, ReadFactor(r, step)
    PROVE  account'[v].password = factor'[v].secret
  BY <1>4 DEF ReadFactor, ReadOnly
<1>5. ASSUME NEW r \in Requests, ConsumeStep(r)
    PROVE  account'[v].password = factor'[v].secret
  BY <1>5 DEF ConsumeStep
<1>6. ASSUME NEW r \in Requests, NEW u \in Users, NEW k \in passkeys[u], DiscoverPasskey(r, u, k)
    PROVE  account'[v].password = factor'[v].secret
  BY <1>6 DEF DiscoverPasskey, ReadOnly
<1>7. ASSUME NEW r \in Requests, NEW k \in passkeys[request[r].user], ChoosePasskey(r, k)
    PROVE  account'[v].password = factor'[v].secret
  BY <1>7 DEF ChoosePasskey, ReadOnly
<1>8. ASSUME NEW r \in Requests, CompletePasskey(r)
    PROVE  account'[v].password = factor'[v].secret
  BY <1>8 DEF CompletePasskey, ReadOnly
<1>9. ASSUME NEW r \in Requests, IssueSession(r)
    PROVE  account'[v].password = factor'[v].secret
  BY <1>9 DEF IssueSession
<1>10. ASSUME NEW r \in Requests, NEW s \in sessions, NEW kind \in {"change", "administer"}, Authorize(r, s, kind)
    PROVE  account'[v].password = factor'[v].secret
  BY <1>10 DEF Authorize, ReadOnly
<1>11. ASSUME NEW r \in Requests, ChangePassword(r)
    PROVE  account'[v].password = factor'[v].secret
  <2>1. account'[v].status = account[v].status
    BY <1>11, <1>t DEF ChangePassword, Accounts
  <2> QED
    BY <2>1
<1>12. ASSUME NEW r \in Requests, NEW s \in sessions, NEW step \in Steps, ReplaceTotp(r, s, step)
    PROVE  account'[v].password = factor'[v].secret
  <2>1. account'[v].status = account[v].status
    BY <1>12, <1>t DEF ReplaceTotp, CarryOver, Accounts
  <2> QED
    BY <2>1
<1>13. ASSUME NEW r \in Requests, NEW s \in sessions, NEW k \in passkeys[request[r].user], RemovePasskey(r, s, k)
    PROVE  account'[v].password = factor'[v].secret
  <2>1. account'[v].status = account[v].status
    BY <1>13, <1>t DEF RemovePasskey, CarryOver, Accounts
  <2> QED
    BY <2>1
<1>14. ASSUME NEW r \in Requests, NEW s \in sessions, AskForPasskey(r, s)
    PROVE  account'[v].password = factor'[v].secret
  BY <1>14 DEF AskForPasskey
<1>15. ASSUME NEW r \in Requests, NEW s \in sessions, AnswerChallenge(r, s)
    PROVE  account'[v].password = factor'[v].secret
  BY <1>15 DEF AnswerChallenge, ReadOnly
<1>16. ASSUME NEW r \in Requests, RegisterPasskey(r)
    PROVE  account'[v].password = factor'[v].secret
  BY <1>16 DEF RegisterPasskey
<1>17. ASSUME NEW r \in Requests, NEW kind \in Inspected, NEW u \in Users, Inspect(r, kind, u)
    PROVE  account'[v].password = factor'[v].secret
  BY <1>17 DEF Inspect, ReadOnly
<1>18. ASSUME NEW r \in Requests, ChangeRole(r)
    PROVE  account'[v].password = factor'[v].secret
  <2>1. account'[v].status = account[v].status
    BY <1>18, <1>t DEF ChangeRole, Change, Accounts
  <2> QED
    BY <2>1
<1>19. ASSUME NEW r \in Requests, Activate(r)
    PROVE  account'[v].password = factor'[v].secret
  <2>1. PICK u \in Users : u = request[r].user /\ account[u].status = "inactive"
    BY <1>19, <1>t DEF Activate, Change, MayChange, Allows, Sound
  <2>2. account'[v] = account[v]
    BY <1>19, <1>t, <2>1 DEF Activate, Change
  <2> QED
    BY <2>2
<1>20. ASSUME NEW r \in Requests, Deactivate(r)
    PROVE  account'[v].password = factor'[v].secret
  <2>1. account'[v].status \in {account[v].status, "inactive"}
    BY <1>20, <1>t DEF Deactivate, Change, Accounts
  <2> QED
    BY <2>1
<1>21. ASSUME NEW r \in Requests, Reissue(r)
    PROVE  account'[v].password = factor'[v].secret
  <2>1. account'[v].status \in {account[v].status, "pending"}
    BY <1>21, <1>t DEF Reissue, Change, Accounts
  <2> QED
    BY <2>1
<1>22. ASSUME NEW r \in Requests, ResetAccess(r)
    PROVE  account'[v].password = factor'[v].secret
  <2>1. account'[v].status \in {account[v].status, "pending"}
    BY <1>22, <1>t DEF ResetAccess, Change, Accounts
  <2> QED
    BY <2>1
<1>23. ASSUME NEW r \in Requests, NEW u \in Users, NEW role \in Roles, Invite(r, u, role)
    PROVE  account'[v].password = factor'[v].secret
  <2>1. account'[v].status \in {account[v].status, "pending", "none"}
    BY <1>23, <1>t DEF Invite, Opened, NoAccount
  <2> QED
    BY <2>1
<1>24. ASSUME NEW r \in Requests, NEW u \in Users, DeleteAccount(r, u)
    PROVE  account'[v].password = factor'[v].secret
  <2>1. account'[v].status \in {account[v].status, "pending", "none"}
    BY <1>24, <1>t DEF DeleteAccount, Opened, NoAccount
  <2> QED
    BY <2>1
<1>25. ASSUME NEW r \in Requests, NEW u \in Users, StoreSetup(r, u)
    PROVE  account'[v].password = factor'[v].secret
  BY <1>25 DEF StoreSetup
<1>26. ASSUME NEW r \in Requests, ReadSetup(r)
    PROVE  account'[v].password = factor'[v].secret
  BY <1>26 DEF ReadSetup, ReadOnly
<1>27. ASSUME NEW r \in Requests, NEW step \in Steps, CompleteSetup(r, step)
    PROVE  account'[v].password = factor'[v].secret
  <2>1. PICK u \in Users : u = request[r].user
    BY <1>27, <1>t DEF CompleteSetup, Sound
  <2>2. CASE v = u
    BY <1>27, <1>t, <2>1, <2>2 DEF CompleteSetup, IsPrepared, Accounts
  <2>3. CASE v # u
    BY <1>27, <1>t, <2>1, <2>3 DEF CompleteSetup
  <2> QED
    BY <2>2, <2>3
<1>28. ASSUME NEW r \in Requests, Stop(r)
    PROVE  account'[v].password = factor'[v].secret
  BY <1>28 DEF Stop
<1>29. CASE UNCHANGED vars
  BY <1>29 DEF vars
<1> QED
  BY <1>1, <1>2, <1>3, <1>4, <1>5, <1>6, <1>7, <1>8, <1>9, <1>10, <1>11, <1>12, <1>13, <1>14, <1>15, <1>16, <1>17, <1>18, <1>19, <1>20, <1>21, <1>22, <1>23, <1>24, <1>25, <1>26, <1>27, <1>28, <1>29
     DEF Next, SignIn, OwnChange, Administration, Setup

\* Two browsers that open one link cannot leave an account with the password of
\* one and the secret of the other.
THEOREM SetupsStayPaired == Spec => SetupIsPaired
<1>1. TypeInv /\ [Next]_vars =>
        [\A u \in Users :
           account[u].status = "pending" /\ account'[u].status = "active" =>
             account'[u].password = factor'[u].secret]_vars
  BY SetupActivates
<1> QED
  BY <1>1, TypeInit, TypeStep, PTL DEF Spec, SetupIsPaired
=============================================================================
