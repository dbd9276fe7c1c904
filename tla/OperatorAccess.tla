--------------------------- MODULE OperatorAccess ---------------------------
(***************************************************************************)
(* Who may operate: the team page (OperatorTeamService on                  *)
(* FirebaseOperatorDirectory), sign-in (OperatorSessionService, the        *)
(* session route and the sign-in form) and the check every operator page   *)
(* makes (dal.ts).  A role is in three places that no transaction joins:   *)
(* the claim on the Firebase account, which decides; the users ledger; and *)
(* an invite, for an address that has not signed in.  A session cookie     *)
(* carries the role its ID token had.                                      *)
(*                                                                         *)
(* A change is a list of writes, one action each; requests and sign-ins    *)
(* interleave between them, and any may be killed there.  One address is   *)
(* one person, who has one browser.                                        *)
(***************************************************************************)
EXTENDS Sequences, Naturals

CONSTANTS
  People,     \* the addresses
  Founders,   \* the admins the script made
  Requests,   \* the requests to the team page served at a time
  MaxBegun    \* bound on what is begun, for model checking

None == "none"
Roles == {"operator", "admin"}
Actors == Requests \cup People     \* a person is the actor of their sign-in

ASSUME AccessAssumption ==
  /\ Founders \subseteq People /\ Founders # {}
  /\ Requests \cap People = {}
  /\ MaxBegun \in Nat

VARIABLES
  account,    \* Firebase Auth: is there one, its role claim, how often its tokens were revoked
  ledger,     \* users/{uid}.role
  invite,     \* operatorInvites/{email}.role
  cookie,     \* the session cookie in each person's browser
  work,       \* what each actor is about, and the writes it has left
  overtaken,  \* somebody else wrote since the actor began
  torn,       \* whose documents an overtaken or a killed actor wrote
  answer,     \* what the last step told an admin
  begun

access == <<account, ledger, invite>>
vars == <<access, cookie, work, overtaken, torn, answer, begun>>

NoCookie == [role |-> None, epoch |-> 0]
NoAnswer == [what |-> "nothing", on |-> None, role |-> None, overtaken |-> FALSE]
Idle == [at |-> "idle", by |-> None, on |-> None, role |-> None, epoch |-> 0, google |-> FALSE,
         again |-> FALSE, todo |-> <<>>]

(* getOperatorSession: a cookie from before the last revocation is refused. *)
Session(p) ==
  IF cookie[p].role \in Roles /\ cookie[p].epoch = account[p].epoch THEN cookie[p].role ELSE None

Admins == {p \in People : account[p].role = "admin"}

FirstRole(p) == IF p \in Founders THEN "admin" ELSE None

Init ==
  /\ account = [p \in People |-> [exists |-> p \in Founders, role |-> FirstRole(p), epoch |-> 0]]
  /\ ledger = [p \in People |-> FirstRole(p)]
  /\ invite = [p \in People |-> None]
  /\ cookie = [p \in People |-> [role |-> FirstRole(p), epoch |-> 0]]
  /\ work = [x \in Actors |-> Idle]
  /\ overtaken = [x \in Actors |-> FALSE]
  /\ torn = {}
  /\ answer = NoAnswer
  /\ begun = 0

(* An actor begins, goes on to its next step, or ends. *)
Begins(x, job) ==
  /\ work[x] = Idle /\ begun < MaxBegun
  /\ begun' = begun + 1
  /\ work' = [work EXCEPT ![x] = job]
  /\ overtaken' = [overtaken EXCEPT ![x] = FALSE]
  /\ answer' = NoAnswer
  /\ UNCHANGED torn

GoesTo(x, job) ==
  /\ work' = [work EXCEPT ![x] = job]
  /\ UNCHANGED <<access, overtaken, begun>>

Answers(r, what) ==
  /\ GoesTo(r, Idle)
  /\ answer' = [what |-> what, on |-> work[r].on, role |-> work[r].role, overtaken |-> overtaken[r]]
  /\ UNCHANGED <<cookie, torn>>

(* A step failed, the instance was killed, or the person walked away. *)
Dies(x) ==
  /\ work[x] # Idle
  /\ GoesTo(x, Idle)
  /\ torn' = IF work[x].at = "writing" THEN torn \cup {work[x].on} ELSE torn
  /\ answer' = NoAnswer
  /\ UNCHANGED cookie

-----------------------------------------------------------------------------
(* The writes a change is made of, and their order.                        *)

(* Slip: the sessions are revoked before the role is taken away. *)
RevokeTokensFirst == <<"tokens", "claim", "ledger", "invite">>
(* Slip: the ledger is not told. *)
GrantUnrecorded == <<"claim", "invite">>
(* Slip: an invite is used up before it is applied. *)
ClaimDeletesFirst == <<"invite", "claim", "ledger">>

(* directory.revoke and directory.grant, with the deleteInvite after them. *)
Revoke == <<"claim", "ledger", "tokens", "invite">>

Grant == <<"claim", "ledger", "invite">>

(* claimInvite. *)
Claim == <<"claim", "ledger", "invite">>

Write(x) ==
  LET w == work[x]  p == w.on IN
  /\ w.at = "writing" /\ w.todo # <<>>
  /\ \/ /\ Head(w.todo) = "claim" /\ account' = [account EXCEPT ![p].role = w.role]
        /\ UNCHANGED <<ledger, invite>>
     \/ /\ Head(w.todo) = "tokens" /\ account' = [account EXCEPT ![p].epoch = @ + 1]
        /\ UNCHANGED <<ledger, invite>>
     \/ /\ Head(w.todo) = "ledger" /\ ledger' = [ledger EXCEPT ![p] = w.role]
        /\ UNCHANGED <<account, invite>>
     \/ /\ Head(w.todo) = "invite" /\ invite' = [invite EXCEPT ![p] = None]
        /\ UNCHANGED <<account, ledger>>
     \/ /\ Head(w.todo) = "save" /\ invite' = [invite EXCEPT ![p] = w.role]
        /\ UNCHANGED <<account, ledger>>
  /\ work' = [work EXCEPT ![x].todo = Tail(@)]
  /\ overtaken' = [y \in Actors |-> overtaken[y] \/ (y # x /\ work[y] # Idle)]
  /\ torn' = IF overtaken[x] THEN torn \cup {p} ELSE torn
  /\ answer' = NoAnswer
  /\ UNCHANGED <<cookie, begun>>

-----------------------------------------------------------------------------
(* The team page: POST /api/operator/team and changeAccess.                *)

(* What a request may ask for: a role, or null to revoke. *)
Asked == Roles \cup {None}

(* requireAdmin, and a request to give p the role, or to take it away. *)
Authorise(r) ==
  /\ \E a, p \in People, role \in Asked :
       /\ Session(a) = "admin"
       /\ Begins(r, [Idle EXCEPT !.at = "asked", !.by = a, !.on = p, !.role = role])
  /\ UNCHANGED <<access, cookie>>

(* findByEmail.  Nobody there: the invite is what changes, and one is      *)
(* removed only if there is one.                                           *)
FindByEmail(r) ==
  LET w == work[r]  p == w.on IN
  /\ w.at = "asked"
  /\ \/ account[p].exists /\ GoesTo(r, [w EXCEPT !.at = "found"])
     \/ ~account[p].exists /\ GoesTo(r, [w EXCEPT !.at = "inviting"])
  /\ answer' = NoAnswer
  /\ UNCHANGED <<cookie, torn>>

ChangeInvite(r) ==
  LET w == work[r] IN
  /\ w.at = "inviting"
  /\ IF w.role = None /\ invite[w.on] = None THEN Answers(r, "nothing to revoke")
     ELSE /\ GoesTo(r, [w EXCEPT !.at = "writing", !.todo = IF w.role = None THEN <<"invite">> ELSE <<"save">>])
          /\ answer' = NoAnswer
          /\ UNCHANGED <<cookie, torn>>

(* Slip: the lockout rule is left to the rule about oneself. *)
BlockedSelfOnly(w) == w.on = w.by /\ w.role # "admin"

(* changeBlocker, on the accounts as just listed. *)
Blocked(w) == w.role # "admin" /\ (w.on = w.by \/ Admins = {w.on})

ListAccounts(r) ==
  LET w == work[r] IN
  /\ w.at = "found"
  /\ IF Blocked(w) THEN Answers(r, "blocked")
     ELSE IF account[w.on].role = w.role THEN Answers(r, "unchanged")
     ELSE /\ GoesTo(r, [w EXCEPT !.at = "writing", !.todo = IF w.role = None THEN Revoke ELSE Grant])
          /\ answer' = NoAnswer
          /\ UNCHANGED <<cookie, torn>>

Finish(r) ==
  /\ work[r].at = "writing" /\ work[r].todo = <<>>
  /\ Answers(r, "done")

-----------------------------------------------------------------------------
(* Sign-in: handleGoogle, handleSubmit, startSession, and signIn.          *)

(* A first Google sign-in makes the account; the token carries its claim.  *)
SignIn(p) ==
  \E google \in BOOLEAN :
    /\ google \/ account[p].exists
    /\ Begins(p, [Idle EXCEPT !.at = "signed in", !.on = p, !.role = account[p].role,
                              !.epoch = account[p].epoch, !.google = google])
    /\ account' = [account EXCEPT ![p].exists = TRUE]
    /\ UNCHANGED <<ledger, invite, cookie>>

(* verifySignIn, which refuses a revoked token, and createSession.         *)
Exchange(p) ==
  LET w == work[p] IN
  /\ w.at = "signed in" /\ w.epoch = account[p].epoch
  /\ GoesTo(p, [w EXCEPT !.at = IF w.role \in Roles THEN "let in" ELSE "claiming"])
  /\ answer' = NoAnswer
  /\ UNCHANGED <<cookie, torn>>

CreateSession(p) ==
  /\ work[p].at = "let in"
  /\ cookie' = [cookie EXCEPT ![p] = [role |-> work[p].role, epoch |-> work[p].epoch]]
  /\ GoesTo(p, Idle)
  /\ answer' = NoAnswer
  /\ UNCHANGED torn

(* claimInvite, for an address Google verified. *)
ReadInvite(p) ==
  LET w == work[p] IN
  /\ w.at = "claiming" /\ w.google /\ invite[p] # None
  /\ GoesTo(p, [w EXCEPT !.at = "writing", !.role = invite[p], !.todo = Claim])
  /\ answer' = NoAnswer
  /\ UNCHANGED <<cookie, torn>>

(* The browser comes back with a fresh token, once. *)
Refresh(p) ==
  LET w == work[p] IN
  /\ w.at = "writing" /\ w.todo = <<>> /\ ~w.again /\ w.epoch = account[p].epoch
  /\ GoesTo(p, [w EXCEPT !.at = "signed in", !.role = account[p].role, !.again = TRUE])
  /\ answer' = NoAnswer
  /\ UNCHANGED <<cookie, torn>>

(* The cookie is cleared whether or not the session could be revoked. *)
SignOut(p) ==
  /\ cookie[p] # NoCookie /\ work[p] = Idle /\ begun < MaxBegun
  /\ begun' = begun + 1
  /\ cookie' = [cookie EXCEPT ![p] = NoCookie]
  /\ \/ account' = [account EXCEPT ![p].epoch = @ + 1]
     \/ UNCHANGED account
  /\ answer' = NoAnswer
  /\ UNCHANGED <<ledger, invite, work, overtaken, torn>>

-----------------------------------------------------------------------------
Next ==
  \/ \E r \in Requests :
       Authorise(r) \/ FindByEmail(r) \/ ChangeInvite(r) \/ ListAccounts(r) \/ Finish(r)
  \/ \E p \in People :
       SignIn(p) \/ Exchange(p) \/ CreateSession(p) \/ ReadInvite(p) \/ Refresh(p) \/ SignOut(p)
  \/ \E x \in Actors : Write(x) \/ Dies(x)

Spec == Init /\ [][Next]_vars

-----------------------------------------------------------------------------
Writes == {"claim", "ledger", "tokens", "invite", "save"}
Places == {"idle", "asked", "found", "inviting", "writing", "signed in", "let in", "claiming"}
Work == [at : Places, by : People \cup {None}, on : People \cup {None}, role : Roles \cup {None},
         epoch : Nat, google : BOOLEAN, again : BOOLEAN, todo : Seq(Writes)]

AccessTypeOK ==
  /\ account \in [People -> [exists : BOOLEAN, role : Roles \cup {None}, epoch : Nat]]
  /\ ledger \in [People -> Roles \cup {None}]
  /\ invite \in [People -> Roles \cup {None}]
  /\ cookie \in [People -> [role : Roles \cup {None}, epoch : Nat]]
  /\ work \in [Actors -> Work]
  /\ overtaken \in [Actors -> BOOLEAN]
  /\ torn \subseteq People
  /\ answer \in [what : {"nothing", "nothing to revoke", "blocked", "unchanged", "done"},
                 on : People \cup {None}, role : Roles \cup {None}, overtaken : BOOLEAN]
  /\ begun \in Nat

(* Nobody is changing p's documents. *)
AtRest(p) == \A x \in Actors : work[x].on = p => work[x].at # "writing"

Gone(p) == account[p].role = None /\ invite[p] = None /\ Session(p) = None

(* "Take the last one away and there is no way back through the app"       *)
(* (changeBlocker): somebody is always an admin, unless two changes        *)
(* overlapped or one was killed half way.                                  *)
SomebodyIsAdmin == torn = {} => Admins # {}

(* The ledger says what the claim says of everybody whose changes came one *)
(* at a time and to their end.                                             *)
LedgerAgrees == \A p \in People \ torn : AtRest(p) => ledger[p] = account[p].role

(* "They have been signed out" (changeAccess): once a removal is through,  *)
(* no session of that person is let in, however their sign-ins interleaved *)
(* with its writes.                                                        *)
NoRoleNoSession ==
  \A p \in People \ torn : AtRest(p) /\ account[p].role = None => Session(p) = None

(* An invite is lost only to an admin's decision: a sign-in that uses it   *)
(* up has given its role first, whatever kills the sign-in, unless an      *)
(* admin changed something meanwhile.                                      *)
InviteUsedOnlyOnceApplied ==
  [][\A p \in People : work[p].at = "writing" /\ invite'[p] = None /\ invite[p] # None /\ work'[p] # work[p] =>
       overtaken[p] \/ account[p].role = invite[p]]_vars

(* "A leftover invite would re-grant a revoked role" and "revoking an      *)
(* operator takes effect on their next request": after a removal is        *)
(* answered with success, nothing of the access is left, if nobody else    *)
(* wrote meanwhile or is at work.                                          *)
RemovedIsGone ==
  /\ answer.what \in {"done", "unchanged"} /\ answer.role = None /\ ~answer.overtaken
  /\ \A x \in Actors : work[x] = Idle
  => Gone(answer.on)
=============================================================================
