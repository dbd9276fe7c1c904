------------------------ MODULE OperatorAccessProofs ------------------------
(***************************************************************************)
(* What holds of OperatorAccess for any team, any number of requests and    *)
(* sign-ins at a time, and any number of them in a row.                     *)
(***************************************************************************)
EXTENDS OperatorAccess, TLAPS

USE AccessAssumption

-----------------------------------------------------------------------------
(* The lists of writes an actor can have left.                             *)

Starts(t, w) == t # <<>> /\ Head(t) = w

(* The writes of a sign-in that uses an invite. *)
ClaimLeft == {Claim, <<"ledger", "invite">>, <<"invite">>, <<>>}

(* The writes of a removal up to the one that ends the sessions. *)
SessionsToEnd == {Revoke, <<"ledger", "tokens", "invite">>, <<"tokens", "invite">>}

Left == ClaimLeft \cup SessionsToEnd \cup {<<"save">>}

LEMMA LeftIsWrites ==
  ASSUME NEW t \in Left
  PROVE  /\ t \in Seq(Writes)
         /\ Starts(t, "claim") => t \in {Claim, Revoke}
  <1>1. /\ Claim \in Seq(Writes) /\ Revoke \in Seq(Writes)
        /\ <<"ledger", "tokens", "invite">> \in Seq(Writes)
    BY DEF Claim, Revoke, Writes
  <1>2. /\ <<"ledger", "invite">> \in Seq(Writes) /\ <<"tokens", "invite">> \in Seq(Writes)
        /\ <<"invite">> \in Seq(Writes) /\ <<"save">> \in Seq(Writes) /\ <<>> \in Seq(Writes)
    BY DEF Writes
  <1>3. /\ ~Starts(<<"ledger", "tokens", "invite">>, "claim") /\ ~Starts(<<"ledger", "invite">>, "claim")
        /\ ~Starts(<<"tokens", "invite">>, "claim") /\ ~Starts(<<"invite">>, "claim")
        /\ ~Starts(<<"save">>, "claim") /\ ~Starts(<<>>, "claim")
    BY DEF Starts
  <1> QED
    BY <1>1, <1>2, <1>3 DEF Left, ClaimLeft, SessionsToEnd

LEMMA WriteLeaves ==
  ASSUME NEW t \in Left, t # <<>>
  PROVE  /\ Head(t) \in Writes
         /\ Tail(t) \in Left
         /\ ~Starts(Tail(t), "claim")
         /\ Starts(Tail(t), "ledger") <=> Starts(t, "claim")
         /\ t \in SessionsToEnd => Starts(t, "tokens") \/ Tail(t) \in SessionsToEnd
         /\ t \in ClaimLeft =>
              /\ Tail(t) \in ClaimLeft
              /\ Head(t) \in {"claim", "ledger", "invite"}
              /\ Starts(t, "invite") => Tail(t) = <<>>
  <1> DEFINE two == <<"ledger", "invite">>
             three == <<"ledger", "tokens", "invite">>
             end == <<"tokens", "invite">>
             one == <<"invite">>
             save == <<"save">>
  <1>1. /\ Claim # <<>> /\ Head(Claim) = "claim" /\ Tail(Claim) = two
        /\ two # <<>> /\ Head(two) = "ledger" /\ Tail(two) = one
        /\ one # <<>> /\ Head(one) = "invite" /\ Tail(one) = <<>>
    BY DEF Claim
  <1>2. /\ Revoke # <<>> /\ Head(Revoke) = "claim" /\ Tail(Revoke) = three
        /\ three # <<>> /\ Head(three) = "ledger" /\ Tail(three) = end
        /\ end # <<>> /\ Head(end) = "tokens" /\ Tail(end) = one
        /\ save # <<>> /\ Head(save) = "save" /\ Tail(save) = <<>>
    BY DEF Revoke
  <1>3. /\ ClaimLeft = {Claim, two, one, <<>>} /\ SessionsToEnd = {Revoke, three, end}
        /\ Left = ClaimLeft \cup SessionsToEnd \cup {save}
    BY DEF ClaimLeft, SessionsToEnd, Left
  <1> HIDE DEF two, three, end, one, save
  <1> QED
    BY <1>1, <1>2, <1>3 DEF Writes, Starts

-----------------------------------------------------------------------------
(* Type correctness, and what an actor is about at each of its places.     *)
SigningIn == {"signed in", "let in", "claiming"}
Asking == {"asked", "found", "inviting"}

Fits(x, w) ==
  /\ w.at # "idle" => w.on \in People
  /\ x \in People /\ w.at # "idle" => w.on = x
  /\ w.at \in SigningIn => x \in People
  /\ w.at \in Asking => x \in Requests
  /\ w.at = "let in" => w.role \in Roles
  /\ w.at = "claiming" => w.role \notin Roles
  /\ w.at = "writing" =>
       /\ w.todo \in Left
       /\ x \in People => w.todo \in ClaimLeft /\ w.role \in Roles
       /\ w.role = None /\ Starts(w.todo, "claim") => w.todo = Revoke

TypeInv ==
  /\ AccessTypeOK
  /\ \A x \in Actors : Fits(x, work[x])

LEMMA IdleIsWork == Idle \in Work /\ Idle.at = "idle"
  BY DEF Idle, Work, Places

(* What one write changes, and that it leaves everybody else alone.        *)
LEMMA WriteDoes ==
  ASSUME TypeInv, NEW x \in Actors, Write(x)
  PROVE  LET w == work[x]  p == work[x].on IN
         /\ p \in People /\ w.at = "writing" /\ w.todo \in Left /\ w.todo # <<>>
         /\ \A q \in People \ {p} :
              account'[q] = account[q] /\ ledger'[q] = ledger[q] /\ invite'[q] = invite[q]
         /\ \/ /\ Starts(w.todo, "claim")
               /\ account' = [account EXCEPT ![p].role = w.role]
               /\ account'[p].role = w.role /\ account'[p].epoch = account[p].epoch
               /\ ledger' = ledger /\ invite' = invite
            \/ /\ Starts(w.todo, "tokens")
               /\ account' = [account EXCEPT ![p].epoch = @ + 1]
               /\ account'[p].role = account[p].role /\ account'[p].epoch = account[p].epoch + 1
               /\ ledger' = ledger /\ invite' = invite
            \/ /\ Starts(w.todo, "ledger") /\ ledger'[p] = w.role
               /\ account' = account /\ invite' = invite
            \/ /\ Starts(w.todo, "invite") /\ invite'[p] = None
               /\ account' = account /\ ledger' = ledger
            \/ /\ Starts(w.todo, "save") /\ invite'[p] = w.role
               /\ account' = account /\ ledger' = ledger
         /\ \A y \in Actors \ {x} : work'[y] = work[y]
         /\ work'[x] = [w EXCEPT !.todo = Tail(w.todo)]
         /\ \A y \in Actors : overtaken'[y] = (overtaken[y] \/ (y # x /\ work[y] # Idle))
         /\ torn' = IF overtaken[x] THEN torn \cup {p} ELSE torn
         /\ cookie' = cookie
  <1>1. Fits(x, work[x]) /\ work[x] \in Work
    BY DEF TypeInv, AccessTypeOK
  <1>2. /\ account \in [People -> [exists : BOOLEAN, role : Roles \cup {None}, epoch : Nat]]
        /\ ledger \in [People -> Roles \cup {None}] /\ invite \in [People -> Roles \cup {None}]
        /\ work \in [Actors -> Work]
    BY DEF TypeInv, AccessTypeOK
  <1> DEFINE p == work[x].on
  <1>3. p \in People
    BY <1>1 DEF Write, Fits
  <1>4. /\ account' = [account EXCEPT ![p].role = work[x].role] =>
             account'[p].role = work[x].role /\ account'[p].epoch = account[p].epoch
        /\ account' = [account EXCEPT ![p].epoch = @ + 1] =>
             account'[p].role = account[p].role /\ account'[p].epoch = account[p].epoch + 1
    <2> HIDE DEF p
    <2> QED
      BY <1>2, <1>3
  <1> QED
    BY <1>1, <1>2, <1>4 DEF Write, Fits, Starts

LEMMA TypeStepWrite ==
  ASSUME TypeInv, NEW x \in Actors, Write(x)
  PROVE  TypeInv'
  <1> DEFINE w == work[x]
             p == work[x].on
  <1>1. /\ account \in [People -> [exists : BOOLEAN, role : Roles \cup {None}, epoch : Nat]]
        /\ ledger \in [People -> Roles \cup {None}] /\ invite \in [People -> Roles \cup {None}]
        /\ work \in [Actors -> Work] /\ overtaken \in [Actors -> BOOLEAN] /\ torn \subseteq People
        /\ Fits(x, w) /\ w \in Work
    BY DEF TypeInv, AccessTypeOK
  <1>2. /\ p \in People /\ w.at = "writing" /\ w.todo \in Left /\ w.todo # <<>>
        /\ work'[x] = [w EXCEPT !.todo = Tail(w.todo)]
        /\ \A y \in Actors \ {x} : work'[y] = work[y]
    BY WriteDoes
  <1>3. /\ Tail(w.todo) \in Left /\ ~Starts(Tail(w.todo), "claim")
        /\ w.todo \in ClaimLeft => Tail(w.todo) \in ClaimLeft
    BY <1>2, WriteLeaves
  <1>4. Tail(w.todo) \in Seq(Writes)
    BY <1>3, LeftIsWrites
  <1>5. work' \in [Actors -> Work]
    <2>1. [w EXCEPT !.todo = Tail(w.todo)] \in Work
      BY <1>1, <1>4 DEF Work
    <2> QED
      BY <1>1, <2>1 DEF Write
  <1>6. /\ account' \in [People -> [exists : BOOLEAN, role : Roles \cup {None}, epoch : Nat]]
        /\ ledger' \in [People -> Roles \cup {None}] /\ invite' \in [People -> Roles \cup {None}]
    <2>1. w.role \in Roles \cup {None}
      BY <1>1 DEF Work
    <2>2. ledger' \in [People -> Roles \cup {None}] /\ invite' \in [People -> Roles \cup {None}]
      BY <1>1, <1>2, <2>1 DEF Write
    <2>3. account[p] \in [exists : BOOLEAN, role : Roles \cup {None}, epoch : Nat]
      BY <1>1, <1>2
    <2>4. /\ [account[p] EXCEPT !.role = w.role] \in [exists : BOOLEAN, role : Roles \cup {None}, epoch : Nat]
          /\ [account[p] EXCEPT !.epoch = @ + 1] \in [exists : BOOLEAN, role : Roles \cup {None}, epoch : Nat]
      BY <2>1, <2>3
    <2>5. \/ account' = account
          \/ account' = [account EXCEPT ![p] = [account[p] EXCEPT !.role = w.role]]
          \/ account' = [account EXCEPT ![p] = [account[p] EXCEPT !.epoch = @ + 1]]
      BY WriteDoes
    <2> HIDE DEF w, p
    <2>6. account' \in [People -> [exists : BOOLEAN, role : Roles \cup {None}, epoch : Nat]]
      BY <1>1, <2>4, <2>5
    <2> QED
      BY <2>2, <2>6
  <1>7. /\ overtaken' \in [Actors -> BOOLEAN] /\ torn' \subseteq People
        /\ UNCHANGED <<cookie, begun>> /\ answer' = NoAnswer
    BY <1>1, <1>2 DEF Write
  <1>8. AccessTypeOK'
    BY <1>5, <1>6, <1>7 DEF TypeInv, AccessTypeOK, NoAnswer
  <1>9. ASSUME NEW y \in Actors
        PROVE  Fits(y, work'[y])
    <2>1. CASE y = x
      <3>1. /\ work'[y].at = "writing" /\ work'[y].on = p /\ work'[y].role = w.role
            /\ work'[y].todo = Tail(w.todo)
        BY <1>1, <1>2, <2>1 DEF Work
      <3> QED
        BY <1>1, <1>2, <1>3, <2>1, <3>1 DEF Fits, SigningIn, Asking
    <2>2. CASE y # x
      BY <1>2, <2>2 DEF TypeInv, Fits
    <2> QED
      BY <2>1, <2>2
  <1> QED
    BY <1>8, <1>9 DEF TypeInv

LEMMA GoesOn ==
  ASSUME TypeInv, NEW x \in Actors, NEW job \in Work, Fits(x, job),
         work' = [work EXCEPT ![x] = job]
  PROVE  /\ work' \in [Actors -> Work]
         /\ \A y \in Actors : Fits(y, work'[y])
  BY DEF TypeInv, AccessTypeOK

(* Everything but a write to the three places.                             *)
StepWithoutWrite(x) ==
  \/ x \in Requests /\ (Authorise(x) \/ FindByEmail(x) \/ ChangeInvite(x)
                         \/ ListAccounts(x) \/ Finish(x))
  \/ x \in People /\ (SignIn(x) \/ Exchange(x) \/ CreateSession(x) \/ ReadInvite(x)
                       \/ Refresh(x) \/ SignOut(x))
  \/ Dies(x)

LEMMA TypeStepOther ==
  ASSUME TypeInv, NEW x \in Actors,
         StepWithoutWrite(x)
  PROVE  TypeInv'
  <1> USE DEF StepWithoutWrite
  <1> DEFINE Account == [exists : BOOLEAN, role : Roles \cup {None}, epoch : Nat]
  <1>0. /\ account \in [People -> Account]
        /\ ledger \in [People -> Roles \cup {None}] /\ invite \in [People -> Roles \cup {None}]
        /\ cookie \in [People -> [role : Roles \cup {None}, epoch : Nat]]
        /\ work \in [Actors -> Work] /\ overtaken \in [Actors -> BOOLEAN] /\ torn \subseteq People
        /\ work[x] \in Work /\ Fits(x, work[x]) /\ overtaken[x] \in BOOLEAN /\ begun \in Nat
    BY DEF TypeInv, AccessTypeOK
  <1>i. Idle \in Work /\ Fits(x, Idle)
    BY IdleIsWork DEF Idle, Fits, SigningIn, Asking
  <1>p. x \in Requests => x \notin People
    OBVIOUS
  <1> DEFINE Answer == [what : {"nothing", "nothing to revoke", "blocked", "unchanged", "done"},
                        on : People \cup {None}, role : Roles \cup {None}, overtaken : BOOLEAN]
             w == work[x]
             Moved == /\ \E job \in Work : Fits(x, job) /\ work' = [work EXCEPT ![x] = job]
                      /\ account' \in [People -> Account]
                      /\ ledger' = ledger /\ invite' = invite
                      /\ cookie' \in [People -> [role : Roles \cup {None}, epoch : Nat]]
                      /\ overtaken' \in [Actors -> BOOLEAN]
                      /\ torn' \subseteq People /\ begun' \in Nat
                      /\ answer' \in Answer
  <1>1. Moved => TypeInv'
    BY <1>0, GoesOn DEF TypeInv, AccessTypeOK
  <1>n. NoAnswer \in Answer
    BY DEF NoAnswer
  <1>g. ASSUME NEW job \in Work, Fits(x, job), GoesTo(x, job), UNCHANGED cookie,
               torn' \subseteq People, answer' \in Answer
        PROVE  TypeInv'
    BY <1>0, <1>1, <1>g DEF GoesTo, access
  <1>a. \A what \in {"nothing to revoke", "blocked", "unchanged", "done"} :
          [what |-> what, on |-> w.on, role |-> w.role, overtaken |-> overtaken[x]] \in Answer
    BY <1>0 DEF Work
  <1> HIDE DEF Answer
  <1>b. ASSUME NEW job \in Work, Fits(x, job), Begins(x, job), account' \in [People -> Account],
               UNCHANGED <<ledger, invite, cookie>>
        PROVE  TypeInv'
    <2>1. overtaken' \in [Actors -> BOOLEAN] /\ begun' \in Nat
      BY <1>0, <1>b DEF Begins
    <2> HIDE DEF Account
    <2> QED
      BY <1>0, <1>1, <1>b, <1>n, <2>1 DEF Begins
  <1>2. CASE x \in Requests /\ Authorise(x)
    <2>1. PICK a \in People, p \in People, role \in Asked :
             Begins(x, [Idle EXCEPT !.at = "asked", !.by = a, !.on = p, !.role = role])
      BY <1>2 DEF Authorise
    <2> DEFINE job == [Idle EXCEPT !.at = "asked", !.by = a, !.on = p, !.role = role]
    <2>2. job \in Work /\ Fits(x, job)
      BY <1>2, <1>p, IdleIsWork DEF Idle, Work, Places, Asked, Fits, SigningIn, Asking
    <2> HIDE DEF job
    <2>3. Begins(x, job)
      BY <2>1 DEF job
    <2> QED
      BY <1>0, <1>2, <1>b, <2>2, <2>3 DEF Authorise, access
  <1>3. CASE x \in Requests /\ FindByEmail(x)
    <2>1. ASSUME NEW at \in {"found", "inviting"}, w.at = "asked"
          PROVE  [w EXCEPT !.at = at] \in Work /\ Fits(x, [w EXCEPT !.at = at])
      BY <1>0, <1>3, <1>p, <2>1 DEF Work, Places, Fits, SigningIn, Asking
    <2> QED
      BY <1>0, <1>3, <1>g, <1>n, <2>1 DEF FindByEmail
  <1>4. CASE x \in Requests /\ ChangeInvite(x)
    <2>1. CASE w.role = None /\ invite[w.on] = None
      BY <1>0, <1>4, <1>a, <1>g, <1>i, <2>1 DEF ChangeInvite, Answers
    <2>2. CASE ~(w.role = None /\ invite[w.on] = None)
      <3> DEFINE todo == IF w.role = None THEN <<"invite">> ELSE <<"save">>
                 job == [w EXCEPT !.at = "writing", !.todo = todo]
      <3>1. todo \in Left /\ todo \in Seq(Writes) /\ ~Starts(todo, "claim")
        <4>1. ~Starts(<<"invite">>, "claim") /\ ~Starts(<<"save">>, "claim")
          BY DEF Starts
        <4>2. todo \in Left
          BY DEF Left, ClaimLeft
        <4> QED
          BY <4>1, <4>2, LeftIsWrites
      <3> HIDE DEF todo
      <3>2. w.at = "inviting"
        BY <1>4 DEF ChangeInvite
      <3>3. job \in Work /\ Fits(x, job)
        BY <1>0, <1>4, <1>p, <3>1, <3>2 DEF Work, Places, Fits, SigningIn, Asking
      <3> QED
        BY <1>0, <1>4, <1>g, <1>n, <2>2, <3>3 DEF ChangeInvite, todo
    <2> QED
      BY <2>1, <2>2
  <1>5. CASE x \in Requests /\ ListAccounts(x)
    <2>1. CASE Blocked(w) \/ account[w.on].role = w.role
      BY <1>0, <1>5, <1>a, <1>g, <1>i, <2>1 DEF ListAccounts, Answers
    <2>2. CASE ~(Blocked(w) \/ account[w.on].role = w.role)
      <3> DEFINE todo == IF w.role = None THEN Revoke ELSE Grant
                 job == [w EXCEPT !.at = "writing", !.todo = todo]
      <3>1. todo \in Left /\ (w.role = None => todo = Revoke)
        BY DEF Left, ClaimLeft, SessionsToEnd, Claim, Grant
      <3>2. todo \in Seq(Writes)
        BY <3>1, LeftIsWrites
      <3> HIDE DEF todo
      <3>3. w.at = "found"
        BY <1>5 DEF ListAccounts
      <3>4. job \in Work /\ Fits(x, job)
        BY <1>0, <1>5, <1>p, <3>1, <3>2, <3>3 DEF Work, Places, Fits, SigningIn, Asking
      <3> QED
        BY <1>0, <1>5, <1>g, <1>n, <2>2, <3>4 DEF ListAccounts, todo
    <2> QED
      BY <2>1, <2>2
  <1>6. CASE x \in Requests /\ Finish(x)
    BY <1>0, <1>6, <1>a, <1>g, <1>i DEF Finish, Answers
  <1>7. CASE x \in People /\ SignIn(x)
    <2>1. PICK google \in BOOLEAN :
             Begins(x, [Idle EXCEPT !.at = "signed in", !.on = x, !.role = account[x].role,
                                    !.epoch = account[x].epoch, !.google = google])
      BY <1>7 DEF SignIn
    <2> DEFINE job == [Idle EXCEPT !.at = "signed in", !.on = x, !.role = account[x].role,
                                   !.epoch = account[x].epoch, !.google = google]
    <2>2. job \in Work /\ Fits(x, job)
      <3>1. account[x].role \in Roles \cup {None} /\ account[x].epoch \in Nat
        BY <1>0, <1>7
      <3> QED
        BY <1>7, <1>p, <3>1, IdleIsWork DEF Idle, Work, Places, Fits, SigningIn, Asking
    <2>3. account' \in [People -> Account]
      <3>1. account' = [account EXCEPT ![x] = [account[x] EXCEPT !.exists = TRUE]]
        BY <1>7 DEF SignIn
      <3>2. [account[x] EXCEPT !.exists = TRUE] \in Account
        <4>1. account[x] \in Account
          BY <1>0, <1>7
        <4> QED
          BY <4>1
      <3> HIDE DEF Account
      <3> QED
        BY <1>0, <3>1, <3>2
    <2> HIDE DEF job
    <2>4. Begins(x, job)
      BY <2>1 DEF job
    <2> QED
      BY <1>7, <1>b, <2>2, <2>3, <2>4 DEF SignIn
  <1>8. CASE x \in People /\ Exchange(x)
    <2> DEFINE job == [w EXCEPT !.at = IF w.role \in Roles THEN "let in" ELSE "claiming"]
    <2>1. w.at = "signed in" /\ GoesTo(x, job) /\ answer' = NoAnswer /\ UNCHANGED <<cookie, torn>>
      BY <1>8 DEF Exchange
    <2>2. job \in Work /\ Fits(x, job)
      BY <1>0, <1>8, <1>p, <2>1 DEF Work, Places, Fits, SigningIn, Asking
    <2> QED
      BY <1>0, <1>g, <1>n, <2>1, <2>2
  <1>9. CASE x \in People /\ CreateSession(x)
    <2>1. cookie' \in [People -> [role : Roles \cup {None}, epoch : Nat]]
      BY <1>0, <1>9 DEF CreateSession, Work
    <2> QED
      BY <1>0, <1>1, <1>9, <1>i, <1>n, <2>1 DEF CreateSession, GoesTo, access
  <1>10. CASE x \in People /\ ReadInvite(x)
    <2> DEFINE job == [w EXCEPT !.at = "writing", !.role = invite[x], !.todo = Claim]
    <2>1. /\ w.at = "claiming" /\ invite[x] # None /\ GoesTo(x, job) /\ answer' = NoAnswer
          /\ UNCHANGED <<cookie, torn>>
      BY <1>10 DEF ReadInvite
    <2>2. Claim \in Left /\ Claim \in ClaimLeft
      BY DEF Left, ClaimLeft
    <2>3. Claim \in Seq(Writes)
      BY <2>2, LeftIsWrites
    <2>4. invite[x] \in Roles
      BY <1>0, <1>10, <2>1
    <2>5. job \in Work /\ Fits(x, job)
      BY <1>0, <1>10, <1>p, <2>1, <2>2, <2>3, <2>4 DEF Work, Places, Fits, SigningIn, Asking,
         Roles, None
    <2> QED
      BY <1>0, <1>g, <1>n, <2>1, <2>5
  <1>11. CASE x \in People /\ Refresh(x)
    <2> DEFINE job == [w EXCEPT !.at = "signed in", !.role = account[x].role, !.again = TRUE]
    <2>1. /\ w.at = "writing" /\ GoesTo(x, job) /\ answer' = NoAnswer
          /\ UNCHANGED <<cookie, torn>>
      BY <1>11 DEF Refresh
    <2>2. account[x].role \in Roles \cup {None}
      BY <1>0, <1>11
    <2>3. job \in Work /\ Fits(x, job)
      BY <1>0, <1>11, <1>p, <2>1, <2>2 DEF Work, Places, Fits, SigningIn, Asking
    <2> QED
      BY <1>0, <1>g, <1>n, <2>1, <2>3
  <1>12. CASE x \in People /\ SignOut(x)
    <2>1. cookie' \in [People -> [role : Roles \cup {None}, epoch : Nat]]
      BY <1>0, <1>12 DEF SignOut, NoCookie
    <2>2. account' \in [People -> Account]
      <3>1. \/ account' = [account EXCEPT ![x] = [account[x] EXCEPT !.epoch = @ + 1]]
            \/ account' = account
        BY <1>12 DEF SignOut
      <3>2. [account[x] EXCEPT !.epoch = @ + 1] \in Account
        BY <1>0, <1>12
      <3> HIDE DEF Account
      <3> QED
        BY <1>0, <3>1, <3>2
    <2>3. /\ begun' \in Nat /\ answer' \in Answer
          /\ UNCHANGED <<ledger, invite, work, overtaken, torn>>
      BY <1>0, <1>12, <1>n DEF SignOut
    <2> HIDE DEF Account
    <2> QED
      BY <1>0, <2>1, <2>2, <2>3 DEF TypeInv, AccessTypeOK, Account, Answer
  <1>13. CASE Dies(x)
    <2>1. torn' \subseteq People
      BY <1>0, <1>13 DEF Dies, Fits
    <2> QED
      BY <1>0, <1>13, <1>g, <1>i, <1>n, <2>1 DEF Dies
  <1> QED
    BY <1>2, <1>3, <1>4, <1>5, <1>6, <1>7, <1>8, <1>9, <1>10, <1>11, <1>12, <1>13

LEMMA AStep ==
  ASSUME [Next]_vars
  PROVE  \/ \E x \in Actors : Write(x) \/ StepWithoutWrite(x)
         \/ UNCHANGED vars
  BY DEF Next, StepWithoutWrite, Actors

LEMMA TypeInit == Init => TypeInv
  <1> SUFFICES ASSUME Init
               PROVE  TypeInv
    OBVIOUS
  <1>1. /\ account \in [People -> [exists : BOOLEAN, role : Roles \cup {None}, epoch : Nat]]
        /\ ledger \in [People -> Roles \cup {None}] /\ invite \in [People -> Roles \cup {None}]
        /\ cookie \in [People -> [role : Roles \cup {None}, epoch : Nat]]
    BY DEF Init, FirstRole, Roles
  <1>2. work \in [Actors -> Work] /\ \A x \in Actors : Fits(x, work[x])
    BY IdleIsWork DEF Init, Idle, Fits, SigningIn, Asking
  <1>3. AccessTypeOK
    BY <1>1, <1>2 DEF Init, AccessTypeOK, NoAnswer
  <1> QED
    BY <1>2, <1>3 DEF TypeInv

LEMMA TypeStep == TypeInv /\ [Next]_vars => TypeInv'
  <1> SUFFICES ASSUME TypeInv, [Next]_vars
               PROVE  TypeInv'
    OBVIOUS
  <1>1. CASE UNCHANGED vars
    BY <1>1 DEF vars, access, TypeInv, AccessTypeOK
  <1> QED
    BY <1>1, AStep, TypeStepWrite, TypeStepOther

LEMMA TypeInvariant == Spec => []TypeInv
  BY TypeInit, TypeStep, PTL DEF Spec

(* The claim, the ledger, the invite, the cookie and what every request    *)
(* and sign-in is about keep their types (OperatorTeamService,             *)
(* FirebaseOperatorDirectory, OperatorSessionService).                     *)
THEOREM AccessTypeCorrect == Spec => []AccessTypeOK
  <1>1. TypeInv => AccessTypeOK
    BY DEF TypeInv
  <1> QED
    BY <1>1, TypeInvariant, PTL

-----------------------------------------------------------------------------
(* What the steps that do not write change: nothing of the roles, and of   *)
(* the other actors.  One that leaves its writes undone tears the person's *)
(* documents.                                                              *)
LEMMA OtherDoes ==
  ASSUME TypeInv, NEW x \in Actors, StepWithoutWrite(x)
  PROVE  /\ UNCHANGED <<ledger, invite>>
         /\ \A p \in People : account'[p].role = account[p].role
         /\ \A y \in Actors \ {x} : work'[y] = work[y] /\ overtaken'[y] = overtaken[y]
         /\ torn \subseteq torn'
         /\ work[x].at = "writing" => work[x].todo = <<>> \/ work[x].on \in torn'
         /\ work'[x].at = "writing" =>
              work'[x].todo \in {Claim, Revoke, <<"invite">>, <<"save">>}
  <1>1. /\ account \in [People -> [exists : BOOLEAN, role : Roles \cup {None}, epoch : Nat]]
        /\ work \in [Actors -> Work] /\ work[x] \in Work /\ Fits(x, work[x])
        /\ overtaken \in [Actors -> BOOLEAN]
    BY DEF TypeInv, AccessTypeOK
  <1> DEFINE w == work[x]
  <1>g. ASSUME NEW job, GoesTo(x, job)
        PROVE  /\ work'[x] = job
               /\ UNCHANGED <<account, ledger, invite, overtaken>>
               /\ \A y \in Actors \ {x} : work'[y] = work[y]
    BY <1>1, <1>g DEF GoesTo, access
  <1>b. ASSUME NEW job, Begins(x, job)
        PROVE  /\ work'[x] = job /\ work[x] = Idle /\ torn' = torn
               /\ \A y \in Actors \ {x} : work'[y] = work[y] /\ overtaken'[y] = overtaken[y]
    BY <1>1, <1>b DEF Begins
  <1>i. Idle.at # "writing"
    BY DEF Idle
  <1>2. CASE Dies(x)
    BY <1>g, <1>i, <1>2 DEF Dies
  <1>3. CASE x \in Requests /\ Authorise(x)
    <2>1. PICK a \in People, p \in People, role \in Asked :
             Begins(x, [Idle EXCEPT !.at = "asked", !.by = a, !.on = p, !.role = role])
      BY <1>3 DEF Authorise
    <2>2. [Idle EXCEPT !.at = "asked", !.by = a, !.on = p, !.role = role].at = "asked"
      BY DEF Idle
    <2> QED
      BY <1>b, <1>i, <1>3, <2>1, <2>2 DEF Authorise, access
  <1>4. CASE x \in Requests /\ FindByEmail(x)
    <2>1. w.at = "asked" /\ torn' = torn
      BY <1>4 DEF FindByEmail
    <2>2. \A at \in {"found", "inviting"} : [w EXCEPT !.at = at].at = at
      BY <1>1 DEF Work
    <2> QED
      BY <1>g, <1>4, <2>1, <2>2 DEF FindByEmail
  <1>5. CASE x \in Requests /\ Finish(x)
    BY <1>g, <1>i, <1>5 DEF Finish, Answers
  <1>6. CASE x \in Requests /\ (ChangeInvite(x) \/ ListAccounts(x))
    <2>1. w.at \in {"inviting", "found"} /\ torn' = torn
      BY <1>6 DEF ChangeInvite, ListAccounts, Answers
    <2>2. \/ GoesTo(x, Idle)
          \/ \E t \in {Claim, Revoke, <<"invite">>, <<"save">>} :
               GoesTo(x, [w EXCEPT !.at = "writing", !.todo = t])
      BY <1>6 DEF ChangeInvite, ListAccounts, Answers, Grant, Claim
    <2>3. \A t : [w EXCEPT !.at = "writing", !.todo = t].todo = t
      BY <1>1 DEF Work
    <2> QED
      BY <1>g, <1>i, <2>1, <2>2, <2>3
  <1>7. CASE x \in People /\ SignIn(x)
    <2>1. PICK google \in BOOLEAN :
             Begins(x, [Idle EXCEPT !.at = "signed in", !.on = x, !.role = account[x].role,
                                    !.epoch = account[x].epoch, !.google = google])
      BY <1>7 DEF SignIn
    <2>2. [Idle EXCEPT !.at = "signed in", !.on = x, !.role = account[x].role,
                       !.epoch = account[x].epoch, !.google = google].at = "signed in"
      BY DEF Idle
    <2>3. \A p \in People : account'[p].role = account[p].role
      BY <1>1, <1>7 DEF SignIn
    <2> QED
      BY <1>b, <1>i, <1>7, <2>1, <2>2, <2>3 DEF SignIn
  <1>8. CASE x \in People /\ Exchange(x)
    <2>1. w.at = "signed in" /\ torn' = torn
      BY <1>8 DEF Exchange
    <2>2. \A at : [w EXCEPT !.at = at].at = at
      BY <1>1 DEF Work
    <2> QED
      BY <1>g, <1>8, <2>1, <2>2 DEF Exchange
  <1>9. CASE x \in People /\ CreateSession(x)
    BY <1>g, <1>i, <1>9 DEF CreateSession
  <1>10. CASE x \in People /\ ReadInvite(x)
    <2>1. w.at = "claiming" /\ torn' = torn
      BY <1>10 DEF ReadInvite
    <2>2. [w EXCEPT !.at = "writing", !.role = invite[x], !.todo = Claim].todo = Claim
      BY <1>1 DEF Work
    <2> QED
      BY <1>g, <1>10, <2>1, <2>2 DEF ReadInvite
  <1>11. CASE x \in People /\ Refresh(x)
    <2>1. w.at = "writing" /\ w.todo = <<>> /\ torn' = torn
      BY <1>11 DEF Refresh
    <2>2. [w EXCEPT !.at = "signed in", !.role = account[x].role, !.again = TRUE].at = "signed in"
      BY <1>1 DEF Work
    <2> QED
      BY <1>g, <1>11, <2>1, <2>2 DEF Refresh
  <1>12. CASE x \in People /\ SignOut(x)
    <2>1. work[x] = Idle /\ UNCHANGED <<ledger, invite, work, overtaken, torn>>
      BY <1>12 DEF SignOut
    <2>2. \A p \in People : account'[p].role = account[p].role
      BY <1>1, <1>12 DEF SignOut
    <2> QED
      BY <1>i, <2>1, <2>2
  <1> QED
    BY <1>2, <1>3, <1>4, <1>5, <1>6, <1>7, <1>8, <1>9, <1>10, <1>11, <1>12 DEF StepWithoutWrite

(* A write of x's is next. *)
WritesNext(x, write) == work[x].at = "writing" /\ Starts(work[x].todo, write)

LEMMA StartsOne ==
  ASSUME NEW t \in {Claim, Revoke, <<"invite">>, <<"save">>}
  PROVE  ~Starts(t, "ledger") /\ ~Starts(t, "tokens")
  <1>1. /\ Head(Claim) = "claim" /\ Head(Revoke) = "claim"
        /\ Head(<<"invite">>) = "invite" /\ Head(<<"save">>) = "save"
    BY DEF Claim, Revoke
  <1> QED
    BY <1>1 DEF Starts

-----------------------------------------------------------------------------
(* The ledger.  Between the write of p's claim and its record the two may  *)
(* differ: then the record is still to come, and unless another actor      *)
(* wrote meanwhile it will say what the claim says.                        *)
LedgerInv ==
  /\ \A x \in Actors : WritesNext(x, "ledger") /\ ~overtaken[x] =>
       account[work[x].on].role = work[x].role
  /\ \A p \in People \ torn :
       \/ ledger[p] = account[p].role
       \/ \E x \in Actors : work[x].on = p /\ WritesNext(x, "ledger")

LEMMA LedgerStepWrite ==
  ASSUME TypeInv, LedgerInv, NEW x \in Actors, Write(x)
  PROVE  LedgerInv'
  <1> DEFINE w == work[x]
             p == w.on
             left == Tail(w.todo)
  <1>1. /\ account \in [People -> [exists : BOOLEAN, role : Roles \cup {None}, epoch : Nat]]
        /\ \A y \in Actors : work[y] \in Work /\ Fits(y, work[y])
    BY DEF TypeInv, AccessTypeOK
  <1>2. /\ p \in People /\ w.at = "writing" /\ w.todo \in Left /\ w.todo # <<>>
        /\ \A y \in Actors \ {x} : work'[y] = work[y]
        /\ \A y \in Actors : overtaken'[y] = (overtaken[y] \/ (y # x /\ work[y] # Idle))
        /\ torn' = IF overtaken[x] THEN torn \cup {p} ELSE torn
        /\ \A q \in People \ {p} : account'[q] = account[q] /\ ledger'[q] = ledger[q]
    BY WriteDoes
  <1>3. /\ work'[x].at = "writing" /\ work'[x].on = p /\ work'[x].role = w.role
        /\ work'[x].todo = left
    <2>1. work'[x] = [w EXCEPT !.todo = Tail(w.todo)]
      BY WriteDoes
    <2> QED
      BY <1>1, <1>2, <2>1 DEF Work
  <1>4. /\ WritesNext(x, "claim") => /\ account'[p].role = w.role /\ ledger' = ledger
        /\ WritesNext(x, "ledger") => /\ ledger'[p] = w.role /\ account' = account
        /\ ~WritesNext(x, "claim") => account'[p].role = account[p].role
        /\ ~WritesNext(x, "ledger") => ledger' = ledger
    <2>1. \/ /\ Starts(w.todo, "claim") /\ account'[p].role = w.role /\ ledger' = ledger
          \/ /\ Starts(w.todo, "tokens") /\ account'[p].role = account[p].role /\ ledger' = ledger
          \/ /\ Starts(w.todo, "ledger") /\ ledger'[p] = w.role /\ account' = account
          \/ /\ Starts(w.todo, "invite") \/ Starts(w.todo, "save")
             /\ account' = account /\ ledger' = ledger
      BY <1>1, <1>2, WriteDoes
    <2> QED
      BY <1>2, <2>1 DEF WritesNext, Starts
  <1>5. WritesNext(x, "ledger")' <=> WritesNext(x, "claim")
    <2>1. Starts(left, "ledger") <=> Starts(w.todo, "claim")
      BY <1>2, WriteLeaves
    <2> QED
      BY <1>2, <1>3, <2>1 DEF WritesNext, Starts
  <1>6. WritesNext(x, "claim") => ~WritesNext(x, "ledger")
    BY DEF WritesNext, Starts
  <1>7. \A y \in Actors \ {x} : WritesNext(y, "ledger")' <=> WritesNext(y, "ledger")
    BY <1>2 DEF WritesNext, Starts
  <1> HIDE DEF w, p, left
  <1>8. ASSUME NEW y \in Actors, WritesNext(y, "ledger")', ~overtaken'[y]
        PROVE  account'[work'[y].on].role = work'[y].role
    <2>1. y # x => work[y] = Idle /\ work[y].at = "writing"
      BY <1>2, <1>7, <1>8 DEF WritesNext
    <2>2. y = x
      BY <2>1 DEF Idle
    <2> QED
      BY <1>3, <1>4, <1>5, <1>8, <2>2
  <1>9. ASSUME NEW q \in People, q \notin torn'
        PROVE  \/ ledger'[q] = account'[q].role
               \/ \E y \in Actors : work'[y].on = q /\ WritesNext(y, "ledger")'
    <2>0. \/ ledger[q] = account[q].role
          \/ \E y \in Actors : work[y].on = q /\ WritesNext(y, "ledger")
      BY <1>2, <1>9 DEF LedgerInv
    <2>1. CASE q # p
      BY <1>2, <1>7, <2>0, <2>1 DEF p, w
    <2>2. CASE q = p
      <3>1. ~overtaken[x]
        BY <1>2, <1>9, <2>2
      <3>2. CASE WritesNext(x, "claim")
        BY <1>3, <1>5, <2>2, <3>2
      <3>3. CASE WritesNext(x, "ledger")
        <4>1. account[p].role = w.role
          BY <3>1, <3>3 DEF LedgerInv, p, w
        <4> QED
          BY <1>4, <2>2, <3>3, <4>1
      <3>4. CASE ~WritesNext(x, "claim") /\ ~WritesNext(x, "ledger")
        BY <1>2, <1>4, <1>7, <2>0, <2>2, <3>4
      <3> QED
        BY <3>2, <3>3, <3>4
    <2> QED
      BY <2>1, <2>2
  <1> QED
    BY <1>8, <1>9 DEF LedgerInv

LEMMA LedgerStepOther ==
  ASSUME TypeInv, LedgerInv, NEW x \in Actors, StepWithoutWrite(x)
  PROVE  LedgerInv'
  <1>1. /\ UNCHANGED ledger
        /\ \A p \in People : account'[p].role = account[p].role
        /\ \A y \in Actors \ {x} : work'[y] = work[y] /\ overtaken'[y] = overtaken[y]
        /\ torn \subseteq torn'
        /\ work[x].at = "writing" => work[x].todo = <<>> \/ work[x].on \in torn'
    BY OtherDoes
  <1>2. ~WritesNext(x, "ledger")'
    <2>1. work'[x].at = "writing" => work'[x].todo \in {Claim, Revoke, <<"invite">>, <<"save">>}
      BY OtherDoes
    <2> QED
      BY <2>1, StartsOne DEF WritesNext, Starts
  <1>3. \A y \in Actors \ {x} : WritesNext(y, "ledger")' <=> WritesNext(y, "ledger")
    BY <1>1 DEF WritesNext, Starts
  <1>4. \A y \in Actors : work[y].at = "writing" => work[y].on \in People
    BY DEF TypeInv, Fits
  <1>5. WritesNext(x, "ledger") => work[x].on \in torn'
    BY <1>1 DEF WritesNext, Starts
  <1>6. ASSUME NEW y \in Actors, WritesNext(y, "ledger")', ~overtaken'[y]
        PROVE  account'[work'[y].on].role = work'[y].role
    <2>1. y # x /\ work'[y] = work[y] /\ WritesNext(y, "ledger") /\ ~overtaken[y]
      BY <1>1, <1>2, <1>3, <1>6
    <2>2. work[y].on \in People
      BY <1>4, <2>1 DEF WritesNext
    <2> QED
      BY <1>1, <2>1, <2>2 DEF LedgerInv
  <1>7. ASSUME NEW q \in People, q \notin torn'
        PROVE  \/ ledger'[q] = account'[q].role
               \/ \E y \in Actors : work'[y].on = q /\ WritesNext(y, "ledger")'
    <2>1. \/ ledger[q] = account[q].role
          \/ \E y \in Actors : work[y].on = q /\ WritesNext(y, "ledger")
      BY <1>1, <1>7 DEF LedgerInv
    <2> QED
      BY <1>1, <1>3, <1>5, <1>7, <2>1
  <1> QED
    BY <1>6, <1>7 DEF LedgerInv

LEMMA LedgerInvariant == Spec => []LedgerInv
  <1>1. ASSUME Init
        PROVE  LedgerInv
    <2>1. \A x \in Actors : ~WritesNext(x, "ledger")
      BY <1>1 DEF Init, Idle, WritesNext
    <2>2. \A p \in People : ledger[p] = account[p].role
      BY <1>1 DEF Init
    <2> QED
      BY <2>1, <2>2 DEF LedgerInv
  <1>2. ASSUME TypeInv, LedgerInv, [Next]_vars
        PROVE  LedgerInv'
    <2>1. CASE UNCHANGED vars
      BY <1>2, <2>1 DEF vars, access, LedgerInv, WritesNext, Starts
    <2> QED
      BY <1>2, <2>1, AStep, LedgerStepWrite, LedgerStepOther
  <1> QED
    BY <1>1, <1>2, TypeInvariant, PTL DEF Spec

(* The users ledger says what the claim says of everybody whose changes    *)
(* came one at a time and to their end: whatever else interleaved, a       *)
(* change of one person's role never leaves another's record wrong         *)
(* (directory.grant, directory.revoke, claimInvite).                       *)
THEOREM LedgerFollowsClaim == Spec => []LedgerAgrees
  <1>1. LedgerInv => LedgerAgrees
    BY DEF LedgerInv, LedgerAgrees, AtRest, WritesNext
  <1> QED
    BY <1>1, LedgerInvariant, PTL

-----------------------------------------------------------------------------
(* The steps of a sign-in, and those of a request, by what they change.    *)
LEMMA PersonDoes ==
  ASSUME TypeInv, NEW x \in People, StepWithoutWrite(x)
  PROVE  LET w == work[x]  new == work'[x] IN
         /\ \A q \in People \ {x} : cookie'[q] = cookie[q] /\ account'[q] = account[q]
         /\ \/ /\ w.at = "idle" /\ new.at = "signed in"
               /\ new.role = account[x].role /\ new.epoch = account[x].epoch
               /\ account'[x].epoch = account[x].epoch /\ cookie' = cookie
            \/ /\ w.at = "signed in" /\ new.at \in {"let in", "claiming"}
               /\ new.role = w.role /\ new.epoch = w.epoch
               /\ UNCHANGED <<account, cookie, overtaken>>
            \/ /\ w.at = "let in" /\ new = Idle
               /\ cookie'[x].role = w.role /\ cookie'[x].epoch = w.epoch
               /\ UNCHANGED <<account, overtaken>>
            \/ /\ w.at = "claiming" /\ new.at = "writing" /\ new.todo = Claim
               /\ new.role = invite[x] /\ new.epoch = w.epoch
               /\ UNCHANGED <<account, cookie, overtaken>>
            \/ /\ w.at = "writing" /\ new.at = "signed in"
               /\ new.role = account[x].role /\ new.epoch = w.epoch
               /\ UNCHANGED <<account, cookie, overtaken>>
            \/ /\ w = Idle /\ new = Idle /\ cookie'[x] = NoCookie
               /\ account'[x].epoch >= account[x].epoch
            \/ /\ new = Idle
               /\ UNCHANGED <<account, cookie, overtaken>>
  <1> DEFINE w == work[x]
  <1>1. /\ account \in [People -> [exists : BOOLEAN, role : Roles \cup {None}, epoch : Nat]]
        /\ cookie \in [People -> [role : Roles \cup {None}, epoch : Nat]]
        /\ work \in [Actors -> Work] /\ w \in Work /\ x \in Actors /\ x \notin Requests
    BY DEF TypeInv, AccessTypeOK, Actors
  <1>g. ASSUME NEW job, GoesTo(x, job)
        PROVE  work'[x] = job /\ UNCHANGED <<account, overtaken>>
    BY <1>1, <1>g DEF GoesTo, access
  <1>2. CASE SignIn(x)
    <2>1. PICK google \in BOOLEAN :
             Begins(x, [Idle EXCEPT !.at = "signed in", !.on = x, !.role = account[x].role,
                                    !.epoch = account[x].epoch, !.google = google])
      BY <1>2 DEF SignIn
    <2> DEFINE job == [Idle EXCEPT !.at = "signed in", !.on = x, !.role = account[x].role,
                                   !.epoch = account[x].epoch, !.google = google]
    <2>2. job.at = "signed in" /\ job.role = account[x].role /\ job.epoch = account[x].epoch
      BY DEF Idle
    <2> HIDE DEF job
    <2>3. work'[x] = job /\ w = Idle /\ Idle.at = "idle"
      BY <1>1, <2>1 DEF Begins, Idle, job
    <2>4. /\ account'[x].epoch = account[x].epoch /\ cookie' = cookie
          /\ \A q \in People \ {x} : account'[q] = account[q]
      BY <1>1, <1>2 DEF SignIn
    <2> QED
      BY <2>2, <2>3, <2>4
  <1>3. CASE Exchange(x)
    <2> DEFINE job == [w EXCEPT !.at = IF w.role \in Roles THEN "let in" ELSE "claiming"]
    <2>1. w.at = "signed in" /\ GoesTo(x, job) /\ cookie' = cookie
      BY <1>3 DEF Exchange
    <2>2. job.at \in {"let in", "claiming"} /\ job.role = w.role /\ job.epoch = w.epoch
      BY <1>1 DEF Work
    <2> HIDE DEF job
    <2> QED
      BY <1>g, <2>1, <2>2
  <1>4. CASE CreateSession(x)
    <2> DEFINE new == [role |-> w.role, epoch |-> w.epoch]
    <2>1. w.at = "let in" /\ GoesTo(x, Idle) /\ cookie' = [cookie EXCEPT ![x] = new]
      BY <1>4 DEF CreateSession
    <2>2. new.role = w.role /\ new.epoch = w.epoch
      OBVIOUS
    <2> HIDE DEF new
    <2>4. cookie'[x] = new /\ \A q \in People \ {x} : cookie'[q] = cookie[q]
      BY <1>1, <2>1
    <2>3. work'[x] = Idle /\ UNCHANGED <<account, overtaken>>
      BY <1>g, <2>1
    <2> QED
      BY <2>1, <2>2, <2>3, <2>4
  <1>5. CASE ReadInvite(x)
    <2> DEFINE job == [w EXCEPT !.at = "writing", !.role = invite[x], !.todo = Claim]
    <2>1. w.at = "claiming" /\ GoesTo(x, job) /\ cookie' = cookie
      BY <1>5 DEF ReadInvite
    <2>2. job.at = "writing" /\ job.role = invite[x] /\ job.epoch = w.epoch /\ job.todo = Claim
      BY <1>1 DEF Work
    <2> HIDE DEF job
    <2> QED
      BY <1>g, <2>1, <2>2
  <1>6. CASE Refresh(x)
    <2> DEFINE job == [w EXCEPT !.at = "signed in", !.role = account[x].role, !.again = TRUE]
    <2>1. w.at = "writing" /\ GoesTo(x, job) /\ cookie' = cookie
      BY <1>6 DEF Refresh
    <2>2. job.at = "signed in" /\ job.role = account[x].role /\ job.epoch = w.epoch
      BY <1>1 DEF Work
    <2> HIDE DEF job
    <2> QED
      BY <1>g, <2>1, <2>2
  <1>7. CASE SignOut(x)
    <2>1. /\ w = Idle /\ work' = work /\ cookie'[x] = NoCookie
          /\ \A q \in People \ {x} : cookie'[q] = cookie[q]
      BY <1>1, <1>7 DEF SignOut
    <2>2. /\ account'[x].epoch \in {account[x].epoch, account[x].epoch + 1}
          /\ \A q \in People \ {x} : account'[q] = account[q]
      BY <1>1, <1>7 DEF SignOut
    <2>3. account[x].epoch \in Nat
      BY <1>1
    <2>4. account'[x].epoch >= account[x].epoch
      BY <2>2, <2>3
    <2>5. work'[x] = Idle
      BY <2>1
    <2> QED
      BY <2>1, <2>2, <2>4, <2>5
  <1>8. CASE Dies(x)
    BY <1>g, <1>8 DEF Dies
  <1> QED
    BY <1>1, <1>2, <1>3, <1>4, <1>5, <1>6, <1>7, <1>8 DEF StepWithoutWrite

LEMMA RequestDoes ==
  ASSUME TypeInv, NEW x \in Requests, StepWithoutWrite(x)
  PROVE  /\ UNCHANGED <<account, cookie>>
         /\ WritesNext(x, "claim")' =>
              ~Blocked(work[x]) /\ work'[x].on = work[x].on /\ work'[x].role = work[x].role
  <1> DEFINE w == work[x]
  <1>1. work \in [Actors -> Work] /\ w \in Work /\ x \in Actors /\ x \notin People
    BY DEF TypeInv, AccessTypeOK, Actors
  <1>2. UNCHANGED <<account, cookie>>
    BY <1>1 DEF StepWithoutWrite, Authorise, FindByEmail, ChangeInvite, ListAccounts, Finish, Dies,
       GoesTo, Answers, access
  <1>3. ASSUME WritesNext(x, "claim")'
        PROVE  ~Blocked(w) /\ work'[x].on = w.on /\ work'[x].role = w.role
    <2>i. Idle.at # "writing"
      BY DEF Idle
    <2>g. ASSUME NEW job, GoesTo(x, job)
          PROVE  work'[x] = job /\ job.at = "writing" /\ Starts(job.todo, "claim") /\ job # Idle
      BY <1>1, <1>3, <2>g, <2>i DEF GoesTo, WritesNext, Starts
    <2>t. \A t : /\ [w EXCEPT !.at = "writing", !.todo = t].todo = t
                 /\ [w EXCEPT !.at = "writing", !.todo = t].on = w.on
                 /\ [w EXCEPT !.at = "writing", !.todo = t].role = w.role
      BY <1>1 DEF Work
    <2>1. CASE Authorise(x)
      <3>1. PICK a \in People, p \in People, role \in Asked :
              work' = [work EXCEPT ![x] = [Idle EXCEPT !.at = "asked", !.by = a, !.on = p,
                                                       !.role = role]]
        BY <2>1 DEF Authorise, Begins
      <3>2. [Idle EXCEPT !.at = "asked", !.by = a, !.on = p, !.role = role].at = "asked"
        BY DEF Idle
      <3> QED
        BY <1>1, <1>3, <3>1, <3>2 DEF WritesNext
    <2>2. CASE FindByEmail(x)
      <3>1. \A at \in {"found", "inviting"} : [w EXCEPT !.at = at].at # "writing"
        BY <1>1 DEF Work
      <3> QED
        BY <2>2, <2>g, <3>1 DEF FindByEmail
    <2>3. CASE ChangeInvite(x)
      <3>1. ~Starts(<<"invite">>, "claim") /\ ~Starts(<<"save">>, "claim")
        BY DEF Starts
      <3> QED
        BY <2>3, <2>g, <2>t, <3>1 DEF ChangeInvite, Answers
    <2>4. CASE ListAccounts(x)
      <3>1. \/ GoesTo(x, Idle)
            \/ ~Blocked(w) /\ \E t : GoesTo(x, [w EXCEPT !.at = "writing", !.todo = t])
        BY <2>4 DEF ListAccounts, Answers
      <3> QED
        BY <2>g, <2>t, <3>1
    <2>5. CASE Finish(x) \/ Dies(x)
      BY <2>5, <2>g DEF Finish, Answers, Dies
    <2> QED
      BY <1>1, <2>1, <2>2, <2>3, <2>4, <2>5 DEF StepWithoutWrite
  <1> QED
    BY <1>2, <1>3

-----------------------------------------------------------------------------
(* Sessions.  No token is newer than its account, and one of a person      *)
(* whose role is gone lets nobody in, unless the removal is still about to *)
(* end the sessions.                                                       *)
Void(token, p) == token.role \notin Roles \/ token.epoch # account[p].epoch

Ends(x, p) ==
  /\ work[x].on = p /\ work[x].at = "writing"
  /\ work[x].todo \in SessionsToEnd /\ ~Starts(work[x].todo, "claim")

NoneNewer(p) == cookie[p].epoch <= account[p].epoch /\ work[p].epoch <= account[p].epoch

OldTokensVoid(p) ==
  /\ Void(cookie[p], p)
  /\ work[p].at \in SigningIn => Void(work[p], p)

SessionInv ==
  /\ \A p \in People : NoneNewer(p)
  /\ \A p \in People \ torn :
       account[p].role = None => OldTokensVoid(p) \/ \E x \in Actors : Ends(x, p)

LEMMA SessionStepWrite ==
  ASSUME TypeInv, SessionInv, NEW x \in Actors, Write(x)
  PROVE  SessionInv'
  <1> DEFINE w == work[x]
             p == w.on
             left == Tail(w.todo)
  <1>1. /\ \A q \in People : account[q].epoch \in Nat /\ cookie[q].epoch \in Nat
        /\ \A y \in Actors : work[y] \in Work /\ Fits(y, work[y]) /\ work[y].epoch \in Nat
        /\ People \subseteq Actors
    BY DEF TypeInv, AccessTypeOK, Work, Actors
  <1>2. /\ p \in People /\ w.at = "writing" /\ w.todo \in Left /\ w.todo # <<>>
        /\ \A y \in Actors \ {x} : work'[y] = work[y]
        /\ torn \subseteq torn' /\ cookie' = cookie
        /\ \A q \in People \ {p} : account'[q] = account[q]
    BY WriteDoes
  <1>3. /\ work'[x].at = "writing" /\ work'[x].on = p /\ work'[x].role = w.role
        /\ work'[x].todo = left /\ work'[x].epoch = w.epoch
    <2>1. work'[x] = [w EXCEPT !.todo = Tail(w.todo)]
      BY WriteDoes
    <2> QED
      BY <1>1, <1>2, <2>1 DEF Work
  <1>4. \/ Starts(w.todo, "claim") /\ account'[p].role = w.role
             /\ account'[p].epoch = account[p].epoch
        \/ Starts(w.todo, "tokens") /\ account'[p].role = account[p].role
             /\ account'[p].epoch = account[p].epoch + 1
        \/ ~Starts(w.todo, "claim") /\ ~Starts(w.todo, "tokens")
             /\ account'[p].role = account[p].role /\ account'[p].epoch = account[p].epoch
    BY WriteDoes DEF Starts
  <1>5. /\ w.todo \in SessionsToEnd => Starts(w.todo, "tokens") \/ left \in SessionsToEnd
        /\ ~Starts(left, "claim")
    BY <1>2, WriteLeaves
  <1>6. /\ x \in People => x = p
        /\ w.role = None /\ Starts(w.todo, "claim") => w.todo = Revoke
        /\ Revoke \in SessionsToEnd
        /\ Starts(w.todo, "claim") => ~Starts(w.todo, "tokens")
    BY <1>1, <1>2 DEF Fits, SessionsToEnd, Starts
  <1> HIDE DEF w, p, left
  <1>7. \A y \in Actors \ {x}, q \in People : Ends(y, q)' <=> Ends(y, q)
    BY <1>2 DEF Ends, Starts
  <1>8. /\ \A q \in People : work'[q].epoch = work[q].epoch
        /\ \A q \in People \ {x} : work'[q] = work[q]
    BY <1>1, <1>2, <1>3 DEF w
  <1>9. ASSUME NEW q \in People
        PROVE  NoneNewer(q)'
    <2>1. account'[q].epoch \in {account[q].epoch, account[q].epoch + 1}
      BY <1>2, <1>4
    <2> QED
      BY <1>1, <1>2, <1>8, <2>1 DEF SessionInv, NoneNewer
  <1>10. ASSUME NEW q \in People, q \notin torn', account'[q].role = None
         PROVE  OldTokensVoid(q)' \/ \E y \in Actors : Ends(y, q)'
    <2>1. CASE q # p
      <3>1. OldTokensVoid(q) \/ \E y \in Actors \ {x} : Ends(y, q)
        BY <1>2, <1>10, <2>1 DEF SessionInv, Ends, p, w
      <3>2. OldTokensVoid(q) => OldTokensVoid(q)'
        BY <1>2, <1>6, <1>8, <2>1 DEF OldTokensVoid, Void
      <3> QED
        BY <1>7, <3>1, <3>2
    <2>2. CASE q = p /\ Starts(w.todo, "claim")
      <3>1. w.role = None /\ left \in SessionsToEnd
        BY <1>4, <1>5, <1>6, <1>10, <2>2 DEF Starts
      <3>2. Ends(x, q)'
        BY <1>3, <1>5, <2>2, <3>1 DEF Ends, Starts
      <3> QED
        BY <3>2
    <2>3. CASE q = p /\ Starts(w.todo, "tokens")
      <3>1. account'[q].epoch = account[q].epoch + 1
        BY <1>4, <1>6, <2>3 DEF Starts
      <3>2. NoneNewer(q)
        BY DEF SessionInv
      <3> QED
        BY <1>1, <1>2, <1>8, <3>1, <3>2 DEF OldTokensVoid, Void, NoneNewer
    <2>4. CASE q = p /\ ~Starts(w.todo, "claim") /\ ~Starts(w.todo, "tokens")
      <3>1. account'[q].role = account[q].role /\ account'[q].epoch = account[q].epoch
        BY <1>4, <2>4
      <3>2. OldTokensVoid(q) \/ \E y \in Actors : Ends(y, q)
        BY <1>2, <1>10, <3>1 DEF SessionInv
      <3>3. ASSUME OldTokensVoid(q)
            PROVE  OldTokensVoid(q)'
        <4>1. CASE q = x
          BY <1>2, <1>3, <3>1, <3>3, <4>1 DEF OldTokensVoid, Void, SigningIn
        <4>2. CASE q # x
          BY <1>2, <1>8, <3>1, <3>3, <4>2 DEF OldTokensVoid, Void
        <4> QED
          BY <4>1, <4>2
      <3>4. ASSUME Ends(x, q)
            PROVE  Ends(x, q)'
        BY <1>3, <1>5, <2>4, <3>4 DEF Ends, Starts, w
      <3> QED
        BY <1>7, <3>2, <3>3, <3>4
    <2> QED
      BY <2>1, <2>2, <2>3, <2>4
  <1> QED
    BY <1>9, <1>10 DEF SessionInv

LEMMA SessionStepOther ==
  ASSUME TypeInv, SessionInv, NEW x \in Actors, StepWithoutWrite(x)
  PROVE  SessionInv'
  <1>1. /\ \A q \in People : account[q].epoch \in Nat /\ cookie[q].epoch \in Nat
        /\ \A y \in Actors : work[y].epoch \in Nat
        /\ People \subseteq Actors
    BY DEF TypeInv, AccessTypeOK, Work, Actors
  <1>2. /\ \A q \in People : account'[q].role = account[q].role
        /\ \A y \in Actors \ {x} : work'[y] = work[y]
        /\ torn \subseteq torn'
        /\ work[x].at = "writing" => work[x].todo = <<>> \/ work[x].on \in torn'
    BY OtherDoes
  <1>3. \A q \in People \ {x} : cookie'[q] = cookie[q] /\ account'[q] = account[q]
    BY PersonDoes, RequestDoes DEF Actors
  <1>4. <<>> \notin SessionsToEnd
    BY DEF SessionsToEnd, Revoke
  <1>5. \A y \in Actors, q \in People \ torn' : Ends(y, q) => Ends(y, q)'
    BY <1>2, <1>4 DEF Ends, Starts
  <1>6. \A q \in People \ {x} : /\ NoneNewer(q)'
                                /\ OldTokensVoid(q) => OldTokensVoid(q)'
    BY <1>1, <1>2, <1>3 DEF SessionInv, NoneNewer, OldTokensVoid, Void
  <1>7. ASSUME x \in People
        PROVE  /\ NoneNewer(x)'
               /\ account[x].role = None /\ OldTokensVoid(x) => OldTokensVoid(x)'
    <2>0. NoneNewer(x) /\ Idle.epoch = 0 /\ Idle.at \notin SigningIn /\ NoCookie.epoch = 0
          /\ NoCookie.role \notin Roles /\ None \notin Roles /\ "writing" \notin SigningIn
      BY <1>7 DEF SessionInv, Idle, SigningIn, NoCookie, Roles, None
    <2>1. /\ account[x].epoch \in Nat /\ cookie[x].epoch \in Nat /\ work[x].epoch \in Nat
          /\ account'[x].epoch \in Nat /\ cookie'[x].epoch \in Nat /\ work'[x].epoch \in Nat
      BY <1>1, <1>7, TypeStepOther DEF TypeInv, AccessTypeOK, Work
    <2>2. CASE UNCHANGED <<account, cookie>> /\ work'[x] = Idle
      BY <2>0, <2>1, <2>2 DEF NoneNewer, OldTokensVoid, Void
    <2>3. CASE /\ work[x].at = "idle" /\ work'[x].at = "signed in"
               /\ work'[x].role = account[x].role /\ work'[x].epoch = account[x].epoch
               /\ account'[x].epoch = account[x].epoch /\ cookie' = cookie
      <3>0. cookie'[x].epoch = cookie[x].epoch
        BY <2>3
      <3>a. cookie[x].epoch <= account[x].epoch
        BY <2>0 DEF NoneNewer
      <3>b. cookie'[x].epoch <= account'[x].epoch
        BY <2>3, <3>0, <3>a
      <3>c. work'[x].epoch = account'[x].epoch
        BY <2>3
      <3>d. work'[x].epoch <= account'[x].epoch
        BY ONLY <2>1, <3>c
      <3>1. NoneNewer(x)'
        BY <3>b, <3>d DEF NoneNewer
      <3>2. Void(cookie[x], x) => Void(cookie[x], x)'
        BY <2>3 DEF Void
      <3>3. account[x].role = None => Void(work[x], x)'
        BY <2>0, <2>3 DEF Void
      <3> QED
        BY <3>1, <3>2, <3>3 DEF OldTokensVoid
    <2>4. CASE /\ work[x].at = "signed in" /\ work'[x].at \in {"let in", "claiming"}
               /\ work'[x].role = work[x].role /\ work'[x].epoch = work[x].epoch
               /\ UNCHANGED <<account, cookie>>
      BY <2>0, <2>1, <2>4 DEF NoneNewer, OldTokensVoid, Void, SigningIn
    <2>5. CASE /\ work[x].at = "let in" /\ work'[x] = Idle
               /\ cookie'[x].role = work[x].role /\ cookie'[x].epoch = work[x].epoch
               /\ UNCHANGED account
      <3>a. work[x].epoch <= account[x].epoch
        BY <2>0 DEF NoneNewer
      <3>b. cookie'[x].epoch <= account'[x].epoch
        BY <2>5, <3>a
      <3>c. work'[x].epoch = 0
        BY <2>0, <2>5
      <3>d. work'[x].epoch <= account'[x].epoch
        BY <2>1, <3>c
      <3>1. NoneNewer(x)'
        BY <3>b, <3>d DEF NoneNewer
      <3>2. Void(work[x], x) => Void(cookie[x], x)'
        BY <2>5 DEF Void
      <3>3. work[x].at \in SigningIn /\ work'[x].at \notin SigningIn
        BY <2>0, <2>5 DEF SigningIn
      <3> QED
        BY <3>1, <3>2, <3>3 DEF OldTokensVoid
    <2>6. CASE /\ work'[x].at = "writing" /\ work'[x].epoch = work[x].epoch
               /\ UNCHANGED <<account, cookie>>
      BY <2>0, <2>1, <2>6 DEF NoneNewer, OldTokensVoid, Void
    <2>7. CASE /\ work'[x].role = account[x].role /\ work'[x].epoch = work[x].epoch
               /\ UNCHANGED <<account, cookie>>
      BY <2>0, <2>1, <2>7 DEF NoneNewer, OldTokensVoid, Void
    <2>8. CASE work'[x] = Idle /\ cookie'[x] = NoCookie /\ account'[x].epoch >= account[x].epoch
      BY <2>0, <2>1, <2>8 DEF NoneNewer, OldTokensVoid, Void
    <2> QED
      BY <1>7, <2>2, <2>3, <2>4, <2>5, <2>6, <2>7, <2>8, PersonDoes
  <1>8. ASSUME NEW q \in People, q \notin torn', account'[q].role = None
        PROVE  OldTokensVoid(q)' \/ \E y \in Actors : Ends(y, q)'
    <2>1. OldTokensVoid(q) \/ \E y \in Actors : Ends(y, q)
      BY <1>2, <1>8 DEF SessionInv
    <2> QED
      BY <1>2, <1>5, <1>6, <1>7, <1>8, <2>1
  <1> QED
    BY <1>6, <1>7, <1>8 DEF SessionInv

LEMMA SessionInvariant == Spec => []SessionInv
  <1>1. ASSUME Init
        PROVE  SessionInv
    <2>1. ASSUME NEW p \in People
          PROVE  /\ cookie[p].epoch = 0 /\ account[p].epoch = 0 /\ work[p].epoch = 0
                 /\ cookie[p].role = account[p].role /\ work[p].at = "idle"
      BY <1>1 DEF Init, Idle, Actors
    <2>2. None \notin Roles /\ "idle" \notin SigningIn
      BY DEF None, Roles, SigningIn
    <2> QED
      BY <2>1, <2>2 DEF SessionInv, NoneNewer, OldTokensVoid, Void
  <1>2. ASSUME TypeInv, SessionInv, [Next]_vars
        PROVE  SessionInv'
    <2>1. CASE UNCHANGED vars
      BY <1>2, <2>1 DEF vars, access, SessionInv, NoneNewer, OldTokensVoid, Void, Ends, Starts
    <2> QED
      BY <1>2, <2>1, AStep, SessionStepWrite, SessionStepOther
  <1> QED
    BY <1>1, <1>2, TypeInvariant, PTL DEF Spec

(* Once a removal is through, no session of that person is let in, however *)
(* their sign-ins interleaved with its writes: the claim is gone before    *)
(* the tokens are revoked, so that no token taken in between is worth      *)
(* anything (directory.revoke, verifySignIn, getOperatorSession).          *)
THEOREM RemovalEndsSessions == Spec => []NoRoleNoSession
  <1>1. SessionInv => NoRoleNoSession
    BY DEF SessionInv, NoRoleNoSession, AtRest, Ends, OldTokensVoid, Void, Session
  <1> QED
    BY <1>1, SessionInvariant, PTL

-----------------------------------------------------------------------------
(* Admins.  What a sign-in that nobody overtook still knows of its account *)
(* and its invite, and that a request that nobody overtook leaves another  *)
(* admin behind.                                                           *)
SignInKnows(p) ==
  LET w == work[p] IN
  /\ w.at \in SigningIn => account[p].role = w.role
  /\ w.at = "writing" =>
       /\ Starts(w.todo, "claim") => account[p].role \notin Roles
       /\ ~Starts(w.todo, "claim") => account[p].role = w.role
       /\ w.todo # <<>> => invite[p] = w.role

SignInInv == \A p \in People : ~overtaken[p] => SignInKnows(p)

AdminInv ==
  torn = {} =>
    /\ Admins # {}
    /\ \A r \in Requests :
         WritesNext(r, "claim") /\ work[r].role # "admin" /\ ~overtaken[r] =>
           Admins \ {work[r].on} # {}

LEMMA SignInStepWrite ==
  ASSUME TypeInv, SignInInv, NEW x \in Actors, Write(x)
  PROVE  SignInInv'
  <1> DEFINE w == work[x]
             left == Tail(w.todo)
  <1>1. /\ People \subseteq Actors /\ w \in Work /\ Fits(x, w)
    BY DEF TypeInv, AccessTypeOK, Actors
  <1>2. /\ w.at = "writing" /\ w.todo \in Left /\ w.todo # <<>>
        /\ \A y \in Actors \ {x} : work'[y] = work[y]
        /\ \A y \in Actors : overtaken'[y] = (overtaken[y] \/ (y # x /\ work[y] # Idle))
    BY WriteDoes
  <1>3. /\ work'[x].at = "writing" /\ work'[x].on = w.on /\ work'[x].role = w.role
        /\ work'[x].todo = left
    <2>1. work'[x] = [w EXCEPT !.todo = Tail(w.todo)]
      BY WriteDoes
    <2> QED
      BY <1>1, <1>2, <2>1 DEF Work
  <1>4. ASSUME NEW q \in People, q # x, ~overtaken'[q]
        PROVE  SignInKnows(q)'
    <2>1. work'[q] = Idle
      BY <1>1, <1>2, <1>4
    <2> QED
      BY <2>1 DEF SignInKnows, Idle, SigningIn
  <1>5. ASSUME x \in People, ~overtaken'[x]
        PROVE  SignInKnows(x)'
    <2>1. w.on = x /\ w.todo \in ClaimLeft /\ ~overtaken[x]
      BY <1>1, <1>2, <1>5 DEF Fits
    <2>2. /\ Starts(w.todo, "claim") \/ account[x].role = w.role
          /\ invite[x] = w.role
      BY <1>2, <1>5, <2>1 DEF SignInInv, SignInKnows
    <2>3. /\ ~Starts(left, "claim")
          /\ Starts(w.todo, "invite") => left = <<>>
          /\ ~Starts(w.todo, "save") /\ ~Starts(w.todo, "tokens")
      BY <1>2, <2>1, WriteLeaves DEF Starts
    <2>4. \/ Starts(w.todo, "claim") /\ account'[x].role = w.role /\ invite' = invite
          \/ ~Starts(w.todo, "claim") /\ account'[x].role = account[x].role
               /\ (invite' = invite \/ Starts(w.todo, "invite"))
      BY <2>1, <2>3, WriteDoes DEF Starts
    <2> HIDE DEF left, w
    <2>5. account'[x].role = w.role /\ (left # <<>> => invite'[x] = w.role)
      BY <2>2, <2>3, <2>4
    <2> QED
      BY <1>3, <2>3, <2>5 DEF SignInKnows, SigningIn
  <1> QED
    BY <1>4, <1>5 DEF SignInInv

LEMMA SignInStepOther ==
  ASSUME TypeInv, SignInInv, NEW x \in Actors, StepWithoutWrite(x)
  PROVE  SignInInv'
  <1>1. /\ UNCHANGED invite
        /\ \A p \in People : account'[p].role = account[p].role
        /\ \A y \in Actors \ {x} : work'[y] = work[y] /\ overtaken'[y] = overtaken[y]
        /\ People \subseteq Actors
    BY OtherDoes DEF Actors
  <1>2. ASSUME NEW q \in People \ {x}, ~overtaken'[q]
        PROVE  SignInKnows(q)'
    <2>1. work'[q] = work[q] /\ SignInKnows(q)
      BY <1>1, <1>2 DEF SignInInv
    <2> QED
      BY <1>1, <2>1 DEF SignInKnows, Starts
  <1>3. ASSUME x \in People, ~overtaken'[x]
        PROVE  SignInKnows(x)'
    <2>0. account'[x].role = account[x].role /\ Starts(Claim, "claim") /\ Fits(x, work[x])
          /\ SigningIn = {"signed in", "let in", "claiming"} /\ Idle.at = "idle"
      BY <1>1, <1>3 DEF Starts, Claim, SigningIn, TypeInv, Idle
    <2>1. CASE work'[x] = Idle
      BY <2>0, <2>1 DEF SignInKnows
    <2>2. CASE work'[x].at = "signed in" /\ work'[x].role = account[x].role
      BY <2>0, <2>2 DEF SignInKnows
    <2>3. CASE /\ work[x].at = "signed in" /\ work'[x].at \in {"let in", "claiming"}
               /\ work'[x].role = work[x].role /\ UNCHANGED overtaken
      <3>1. account[x].role = work[x].role
        BY <1>3, <2>0, <2>3 DEF SignInInv, SignInKnows
      <3> QED
        BY <2>0, <2>3, <3>1 DEF SignInKnows
    <2>4. CASE /\ work[x].at = "claiming" /\ work'[x].at = "writing" /\ work'[x].todo = Claim
               /\ work'[x].role = invite[x] /\ UNCHANGED overtaken
      <3>1. account[x].role = work[x].role /\ work[x].role \notin Roles
        BY <1>3, <2>0, <2>4 DEF SignInInv, SignInKnows, Fits
      <3> QED
        BY <1>1, <2>0, <2>4, <3>1 DEF SignInKnows
    <2> QED
      BY <1>3, <2>1, <2>2, <2>3, <2>4, PersonDoes
  <1> QED
    BY <1>2, <1>3 DEF SignInInv

LEMMA SignInInvariant == Spec => []SignInInv
  <1>1. ASSUME Init
        PROVE  SignInInv
    <2>1. \A p \in People : work[p].at = "idle"
      BY <1>1 DEF Init, Idle, Actors
    <2> QED
      BY <2>1 DEF SignInInv, SignInKnows, SigningIn
  <1>2. ASSUME TypeInv, SignInInv, [Next]_vars
        PROVE  SignInInv'
    <2>1. CASE UNCHANGED vars
      BY <1>2, <2>1 DEF vars, access, SignInInv, SignInKnows, Starts
    <2> QED
      BY <1>2, <2>1, AStep, SignInStepWrite, SignInStepOther
  <1> QED
    BY <1>1, <1>2, TypeInvariant, PTL DEF Spec

LEMMA AdminStep ==
  ASSUME TypeInv, SignInInv, AdminInv, [Next]_vars
  PROVE  AdminInv'
  <1>0. /\ \A y \in Actors : Fits(y, work[y])
        /\ Requests \subseteq Actors /\ People \subseteq Actors
    BY DEF TypeInv, Actors
  <1>1. ASSUME NEW x \in Actors, Write(x), torn' = {}
        PROVE  /\ Admins' # {}
               /\ \A r \in Requests : ~(WritesNext(r, "claim")' /\ ~overtaken'[r])
    <2> DEFINE w == work[x]
               p == w.on
    <2>1. /\ p \in People /\ w.at = "writing" /\ w.todo \in Left /\ w.todo # <<>>
          /\ \A y \in Actors \ {x} : work'[y] = work[y]
          /\ \A y \in Actors : overtaken'[y] = (overtaken[y] \/ (y # x /\ work[y] # Idle))
          /\ torn' = IF overtaken[x] THEN torn \cup {p} ELSE torn
          /\ \A q \in People \ {p} : account'[q] = account[q]
      BY <1>1, WriteDoes
    <2>a. /\ Starts(w.todo, "claim") => account'[p].role = w.role
          /\ ~Starts(w.todo, "claim") => account'[p].role = account[p].role
      BY <1>1, WriteDoes DEF Starts
    <2>b. /\ \A q \in People \ {p} : q \in Admins' <=> q \in Admins
          /\ p \in Admins' <=> account'[p].role = "admin"
          /\ p \in Admins <=> account[p].role = "admin"
          /\ Admins \subseteq People
      BY <2>1 DEF Admins
    <2>2. work'[x].todo = Tail(w.todo)
      <3>1. work'[x] = [w EXCEPT !.todo = Tail(w.todo)] /\ w \in Work
        BY <1>1, WriteDoes DEF TypeInv, AccessTypeOK
      <3> QED
        BY <3>1 DEF Work
    <2>3. torn = {} /\ ~overtaken[x]
      BY <1>1, <2>1
    <2>4. Admins # {}
      BY <2>3 DEF AdminInv
    <2>5. ~Starts(work'[x].todo, "claim")
      BY <2>1, <2>2, WriteLeaves
    <2>6. ASSUME NEW r \in Requests, WritesNext(r, "claim")', ~overtaken'[r]
          PROVE  FALSE
      <3>1. r # x
        BY <2>5, <2>6 DEF WritesNext, Starts
      <3>2. work'[r] = Idle
        BY <1>0, <2>1, <2>6, <3>1
      <3> QED
        BY <2>6, <3>2 DEF WritesNext, Idle
    <2> HIDE DEF w, p
    <2>7. CASE ~Starts(w.todo, "claim")
      BY <2>4, <2>6, <2>7, <2>a, <2>b
    <2>8. CASE Starts(w.todo, "claim") /\ w.role = "admin"
      BY <2>6, <2>8, <2>a, <2>b
    <2>9. CASE Starts(w.todo, "claim") /\ w.role # "admin"
      <3>1. Admins \ {p} # {}
        <4>1. CASE x \in Requests
          BY <2>1, <2>3, <2>9, <4>1 DEF AdminInv, WritesNext, w, p
        <4>2. CASE x \in People
          <5>1. p = x /\ account[x].role \notin Roles
            BY <1>0, <2>1, <2>3, <2>9, <4>2 DEF SignInInv, SignInKnows, Fits, w, p
          <5>2. x \notin Admins
            BY <5>1 DEF Admins, Roles
          <5> QED
            BY <2>4, <5>1, <5>2
        <4> QED
          BY <4>1, <4>2 DEF Actors
      <3> QED
        BY <2>6, <2>b, <3>1
    <2> QED
      BY <2>6, <2>7, <2>8, <2>9
  <1>2. ASSUME NEW x \in Actors, StepWithoutWrite(x), torn' = {}
        PROVE  /\ Admins' # {}
               /\ \A r \in Requests :
                    WritesNext(r, "claim")' /\ work'[r].role # "admin" /\ ~overtaken'[r] =>
                      Admins' \ {work'[r].on} # {}
    <2>1. /\ \A q \in People : account'[q].role = account[q].role
          /\ \A y \in Actors \ {x} : work'[y] = work[y] /\ overtaken'[y] = overtaken[y]
          /\ torn \subseteq torn'
      BY <1>2, OtherDoes
    <2>2. torn = {} /\ Admins' = Admins /\ Admins # {}
      BY <1>2, <2>1 DEF AdminInv, Admins
    <2>3. ASSUME NEW r \in Requests, WritesNext(r, "claim")', work'[r].role # "admin",
                 ~overtaken'[r]
          PROVE  Admins \ {work'[r].on} # {}
      <3>1. CASE r # x
        BY <1>0, <2>1, <2>2, <2>3, <3>1 DEF AdminInv, WritesNext, Starts
      <3>2. CASE r = x
        <4>1. ~Blocked(work[x]) /\ work'[x].on = work[x].on /\ work'[x].role = work[x].role
          BY <1>2, <2>3, <3>2, RequestDoes
        <4>2. Admins # {work[x].on}
          BY <2>3, <3>2, <4>1 DEF Blocked
        <4> QED
          BY <2>2, <3>2, <4>1, <4>2
      <3> QED
        BY <3>1, <3>2
    <2> QED
      BY <2>2, <2>3
  <1>3. CASE UNCHANGED vars
    BY <1>3 DEF vars, access, AdminInv, Admins, WritesNext, Starts
  <1> QED
    BY <1>1, <1>2, <1>3, AStep DEF AdminInv

(* Somebody is always an admin, whoever the founders are and however many  *)
(* requests and sign-ins are served at a time, as long as no two changes   *)
(* overlapped and none was killed half way.  Neither the rule about        *)
(* oneself nor the one about the last admin would do alone, and a sign-in  *)
(* takes no role away (changeBlocker, claimInvite).                        *)
THEOREM AdminRemains == Spec => []SomebodyIsAdmin
  <1>1. ASSUME Init
        PROVE  AdminInv
    <2>1. Admins # {}
      BY <1>1 DEF Init, Admins, FirstRole
    <2>2. \A r \in Requests : ~WritesNext(r, "claim")
      BY <1>1 DEF Init, WritesNext, Idle, Actors
    <2> QED
      BY <2>1, <2>2 DEF AdminInv
  <1>2. TypeInv /\ SignInInv /\ AdminInv /\ [Next]_vars => AdminInv'
    BY AdminStep
  <1>3. AdminInv => SomebodyIsAdmin
    BY DEF AdminInv, SomebodyIsAdmin
  <1> QED
    BY <1>1, <1>2, <1>3, TypeInvariant, SignInInvariant, PTL DEF Spec

(* A sign-in that uses an invite up has given its role first, whatever     *)
(* kills the sign-in, unless an admin changed something meanwhile          *)
(* (claimInvite: the claim, the ledger and only then the invite).          *)
THEOREM InviteNotWasted == Spec => InviteUsedOnlyOnceApplied
  <1>1. ASSUME TypeInv, SignInInv, [Next]_vars, NEW p \in People,
               work[p].at = "writing", invite'[p] = None, invite[p] # None, work'[p] # work[p]
        PROVE  overtaken[p] \/ account[p].role = invite[p]
    <2>1. p \in Actors /\ Fits(p, work[p])
      BY <1>1 DEF TypeInv, Actors
    <2>2. ASSUME NEW x \in Actors, x # p, Write(x) \/ StepWithoutWrite(x)
          PROVE  FALSE
      <3>1. work'[p] = work[p]
        <4>1. CASE Write(x)
          <5>1. \A y \in Actors \ {x} : work'[y] = work[y]
            BY <1>1, <2>2, <4>1, WriteDoes
          <5> QED
            BY <2>1, <2>2, <5>1
        <4>2. CASE StepWithoutWrite(x)
          BY <1>1, <2>1, <2>2, <4>2, OtherDoes
        <4> QED
          BY <2>2, <4>1, <4>2
      <3> QED
        BY <1>1, <3>1
    <2>3. ~StepWithoutWrite(p)
      BY <1>1, <2>1, OtherDoes
    <2>4. Write(p)
      BY <1>1, <2>1, <2>2, <2>3, AStep DEF vars
    <2>5. /\ work[p].todo \in ClaimLeft /\ work[p].todo # <<>> /\ work[p].on = p
      BY <1>1, <2>1, <2>4, WriteDoes DEF Fits
    <2>6. Starts(work[p].todo, "invite") \/ Starts(work[p].todo, "save")
      BY <1>1, <2>1, <2>4, <2>5, WriteDoes
    <2>7. ~Starts(work[p].todo, "claim")
      BY <2>6 DEF Starts
    <2> QED
      BY <1>1, <2>5, <2>7 DEF SignInInv, SignInKnows
  <1>2. ASSUME TypeInv, SignInInv, [Next]_vars
        PROVE  [\A p \in People : work[p].at = "writing" /\ invite'[p] = None /\ invite[p] # None
                                    /\ work'[p] # work[p]
                  => overtaken[p] \/ account[p].role = invite[p]]_vars
    BY <1>1, <1>2
  <1> QED
    BY <1>2, TypeInvariant, SignInInvariant, PTL DEF Spec, InviteUsedOnlyOnceApplied
=============================================================================
