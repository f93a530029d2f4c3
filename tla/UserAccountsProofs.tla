------------------------ MODULE UserAccountsProofs ------------------------
(***************************************************************************)
(* Theorems about the accounts: a code that VerifyOTP accepts was sent to  *)
(* that address and was neither spent nor replaced when the call came in,  *)
(* for any number of calls, whatever statements fail and however calls     *)
(* overlap; a current code or the right password is refused, and one       *)
(* identity is on two accounts, only in the cases stated.                  *)
(*                                                                         *)
(* The argument: only the call that generated a code ever stores it, once, *)
(* into the one account of its address; so a code that a verification or a *)
(* later request has taken out of the table does not come back.  A refusal *)
(* comes of what the call read, and between that reading and now only the  *)
(* calls that the exceptions name can have changed the row.                *)
(***************************************************************************)
EXTENDS UserAccounts, TLAPS

Steps == {"idle", "generating", "mailing", "judging"} \cup Reads \cup Writes \cup Ends

(* Where a call stands tells what it was asked for.                        *)
StepsFitRequests ==
    \A c \in Calls :
        /\ pc[c] # "idle" => request[c] \in Requests
        /\ pc[c] = "inserting" => request[c].op \in {"CreateUser", "RequestOTP", "OAuth"}
        /\ pc[c] \in {"requesting", "generating", "storing", "mailing"}
             => request[c].op = "RequestOTP"
        /\ pc[c] \in {"verifying", "judging"} => request[c].op = "VerifyOTP"
        /\ pc[c] \in {"oauth", "oauthByEmail", "linking"} => request[c].op = "OAuth"
        /\ pc[c] = "loggingIn" => request[c].op = "Login"
        /\ pc[c] = "confirming" => request[c].op \in {"VerifyOTP", "OAuth"}
        /\ \A d \in before[c] : pc[d] \in Ends

(* A call inserts at most once, there is one account per address, and a    *)
(* call works on that of its own address.                                  *)
AccountsFound ==
    /\ \A u \in DOMAIN users : pc[u] \in {"generating", "storing", "mailing"} \cup Ends
    /\ \A u, v \in DOMAIN users : users[u].email = users[v].email => u = v
    /\ \A c \in Calls :
         pc[c] \in {"generating", "storing", "mailing", "judging", "linking", "confirming"}
         => user[c] \in DOMAIN users /\ users[user[c]].email = EmailOf(c)

(* The call k has had its turn to store its code.                          *)
Stored(k) == request[k].op = "RequestOTP" /\ pc[k] \in {"mailing"} \cup Ends

(* The call d has taken the code k out of the table.                       *)
Spends(d, k)   == Ended(d, "VerifyOTP", {"done"}) /\ request[d].code = k
Replaces(d, k) == /\ Ended(d, "RequestOTP", {"mailing", "done"})
                  /\ EmailOf(d) = EmailOf(k) /\ k \in before[d]

(* A code in the table is that of its account and has not been taken out.  *)
HeldCodesAreCurrent ==
    \A u \in DOMAIN users, k \in Calls : users[u].otp = k =>
        /\ Stored(k)
        /\ EmailOf(k) = users[u].email
        /\ \A d \in Calls : ~Spends(d, k) /\ ~Replaces(d, k)

(* A code that c has read was so when c came in.                           *)
Current(c, k) ==
    /\ Stored(k)
    /\ EmailOf(k) = EmailOf(c)
    /\ \A d \in before[c] : ~Spends(d, k) /\ ~Replaces(d, k)

SeenCodesAreCurrent ==
    \A c \in Calls :
        /\ pc[c] = "judging" /\ seen[c] \in Calls => Current(c, seen[c])
        /\ request[c].op = "VerifyOTP" /\ pc[c] \in {"confirming", "done"}
             => Current(c, request[c].code)

IInv ==
    /\ TypeOK
    /\ StepsFitRequests
    /\ AccountsFound
    /\ HeldCodesAreCurrent
    /\ SeenCodesAreCurrent

-----------------------------------------------------------------------------

(* What a request has, by its operation.                                   *)
LEMMA RequestFields ==
    ASSUME NEW r \in Requests
    PROVE  /\ r.op \in {"CreateUser", "RequestOTP", "VerifyOTP", "OAuth", "Login"}
           /\ r.email \in Emails
           /\ r.op = "CreateUser" => r.password \in Passwords \cup {NoPassword}
           /\ r.op = "VerifyOTP" => r.code \in Calls
           /\ r.op = "OAuth" => r.auth \in Identities
BY DEF Requests

(* What every operation inserts is a row without a code.                   *)
LEMMA RowOfIsRow ==
    ASSUME StepsFitRequests, NEW c \in Calls, pc[c] = "inserting"
    PROVE  RowOf(c) \in Rows /\ RowOf(c).email = EmailOf(c) /\ RowOf(c).otp = Blank
<1>1. request[c] \in Requests /\ request[c].op \in {"CreateUser", "RequestOTP", "OAuth"}
  BY DEF StepsFitRequests
<1>2. EmailOf(c) \in Emails
  BY <1>1, RequestFields DEF EmailOf
<1>3. CASE request[c].op = "CreateUser"
  BY <1>1, <1>2, <1>3, RequestFields DEF RowOf, Rows, Otps
<1>4. CASE request[c].op = "OAuth"
  BY <1>1, <1>2, <1>4, RequestFields DEF RowOf, Rows, Otps
<1>5. CASE request[c].op = "RequestOTP"
  BY <1>1, <1>2, <1>5 DEF RowOf, Rows, Otps
<1> QED BY <1>1, <1>3, <1>4, <1>5

(* The beginning of a call, whatever it asks for.                          *)
BeginsAt ==
    [CreateUser |-> "inserting", RequestOTP |-> "requesting", VerifyOTP |-> "verifying",
     OAuth |-> "oauth", Login |-> "loggingIn"]

Begins(c) ==
    \E r \in Requests :
        (r.op = "VerifyOTP" => r.code \in mailed) /\ Begin(c, r, BeginsAt[r.op])

LEMMA BeginCases ==
    ASSUME NEW c \in Calls,
           CreateUser(c) \/ LogIn(c) \/ AskForCode(c) \/ SubmitCode(c) \/ OAuthLogin(c)
    PROVE  Begins(c)
BY DEF CreateUser, LogIn, AskForCode, SubmitCode, OAuthLogin, Begins, BeginsAt

(* The steps of a call that change neither the table nor what was asked.   *)
Quiet(c) ==
    \/ StatementFails(c) \/ InsertConflicts(c) \/ Authenticate(c) \/ RateLimited(c)
    \/ LookUpToSend(c) \/ GenerateOTP(c) \/ MailCode(c)
    \/ JudgeCode(c) \/ LookUpOwner(c) \/ LookUpToLink(c)

LEMMA NextCases ==
    ASSUME Next
    PROVE  \/ Tick
           \/ \E c \in Calls :
                \/ Begins(c) \/ Quiet(c) \/ LookUpToVerify(c)
                \/ Insert(c) \/ UpdateOTP(c) \/ VerifyEmail(c) \/ LinkOAuth(c)
BY BeginCases DEF Next, Quiet

-----------------------------------------------------------------------------

(* A change of one field leaves a row a row, of the same address.          *)
LEMMA RowChanges ==
    ASSUME NEW row \in Rows
    PROVE  /\ \A k \in Otps :
                /\ [row EXCEPT !.otp = k] \in Rows
                /\ [row EXCEPT !.otp = k].email = row.email
                /\ [row EXCEPT !.otp = k].otp = k
                /\ [row EXCEPT !.otp = k].auth = row.auth
                /\ [row EXCEPT !.otp = k].password = row.password
           /\ Confirmed(row) \in Rows
           /\ Confirmed(row).email = row.email
           /\ Confirmed(row).otp = Null
           /\ Confirmed(row).auth = row.auth
           /\ Confirmed(row).password = row.password
           /\ \A a \in Identities :
                /\ [row EXCEPT !.auth = a] \in Rows
                /\ [row EXCEPT !.auth = a].email = row.email
                /\ [row EXCEPT !.auth = a].otp = row.otp
                /\ [row EXCEPT !.auth = a].auth = a
                /\ [row EXCEPT !.auth = a].password = row.password
BY DEF Rows, Otps, Confirmed

(* A write changes one row; otp and auth are what it leaves there.         *)
WritesRow(u, otp, auth) ==
    /\ DOMAIN users' = DOMAIN users
    /\ \A v \in DOMAIN users :
         /\ users'[v] \in Rows
         /\ users'[v].email = users[v].email
         /\ users'[v].password = users[v].password
         /\ users'[v].otp = IF v = u THEN otp ELSE users[v].otp
         /\ users'[v].auth = IF v = u THEN auth ELSE users[v].auth

LEMMA UpdateWrites ==
    ASSUME TypeOK, AccountsFound, NEW c \in Calls, UpdateOTP(c)
    PROVE  WritesRow(user[c], c, users[user[c]].auth)
<1>1. user[c] \in DOMAIN users /\ users[user[c]] \in Rows
  BY DEF UpdateOTP, Executed, Step, AccountsFound, TypeOK
<1> DEFINE row == [users[user[c]] EXCEPT !.otp = c]
<1>2. row \in Rows /\ row.email = users[user[c]].email /\ row.otp = c
      /\ row.auth = users[user[c]].auth /\ row.password = users[user[c]].password
  BY <1>1, RowChanges DEF Otps
<1>3. users' = [users EXCEPT ![user[c]] = row]
  BY DEF UpdateOTP
<1> HIDE DEF row
<1> QED BY <1>1, <1>2, <1>3 DEF WritesRow, TypeOK

LEMMA VerifyWrites ==
    ASSUME TypeOK, AccountsFound, NEW c \in Calls, VerifyEmail(c)
    PROVE  WritesRow(user[c], Null, users[user[c]].auth)
<1>1. user[c] \in DOMAIN users /\ users[user[c]] \in Rows
  BY DEF VerifyEmail, Executed, Step, AccountsFound, TypeOK
<1> DEFINE row == Confirmed(users[user[c]])
<1>2. row \in Rows /\ row.email = users[user[c]].email /\ row.otp = Null
      /\ row.auth = users[user[c]].auth /\ row.password = users[user[c]].password
  BY <1>1, RowChanges
<1>3. users' = [users EXCEPT ![user[c]] = row]
  BY DEF VerifyEmail
<1> HIDE DEF row
<1> QED BY <1>1, <1>2, <1>3 DEF WritesRow, TypeOK

LEMMA LinkWrites ==
    ASSUME TypeOK, StepsFitRequests, AccountsFound, NEW c \in Calls, LinkOAuth(c)
    PROVE  WritesRow(user[c], users[user[c]].otp, request[c].auth)
<1>1. user[c] \in DOMAIN users /\ users[user[c]] \in Rows
  BY DEF LinkOAuth, Executed, Step, AccountsFound, TypeOK
<1>2. request[c].auth \in Identities
  BY RequestFields DEF LinkOAuth, Executed, Step, StepsFitRequests
<1> DEFINE row == [users[user[c]] EXCEPT !.auth = request[c].auth]
<1>3. row \in Rows /\ row.email = users[user[c]].email /\ row.otp = users[user[c]].otp
      /\ row.auth = request[c].auth /\ row.password = users[user[c]].password
  BY <1>1, <1>2, RowChanges
<1>4. users' = [users EXCEPT ![user[c]] = row]
  BY DEF LinkOAuth
<1> HIDE DEF row
<1> QED BY <1>1, <1>3, <1>4 DEF WritesRow, TypeOK

LEMMA TypeCorrect ==
    ASSUME TypeOK, StepsFitRequests, AccountsFound, [Next]_vars
    PROVE  TypeOK'
<1> USE DEF TypeOK, Reads, Writes, Ends, Otps
<1>1. CASE Tick BY <1>1 DEF Tick, local, history
<1>2. ASSUME NEW c \in Calls, Begins(c) PROVE TypeOK'
  BY <1>2, RequestFields DEF Begins, Begin, BeginsAt
<1>3. ASSUME NEW c \in Calls, Quiet(c) PROVE TypeOK'
  <2> USE TimeAssumption DEF Step, local, history, RowsByEmail, RowsByAuth, Owners
  <2>1. CASE StatementFails(c) BY <2>1 DEF StatementFails, Errs
  <2>2. CASE InsertConflicts(c) BY <2>2 DEF InsertConflicts
  <2>3. CASE Authenticate(c) BY <2>3 DEF Authenticate
  <2>4. CASE RateLimited(c) BY <2>4 DEF RateLimited
  <2>5. CASE LookUpToSend(c) BY <2>5 DEF LookUpToSend
  <2>6. CASE GenerateOTP(c) BY <2>6 DEF GenerateOTP
  <2>7. CASE MailCode(c) BY <2>7 DEF MailCode
  <2>8. CASE JudgeCode(c) BY <2>8 DEF JudgeCode
  <2>9. CASE LookUpOwner(c) BY <2>9 DEF LookUpOwner
  <2>10. CASE LookUpToLink(c) BY <2>10 DEF LookUpToLink
  <2> QED BY <1>3, <2>1, <2>2, <2>3, <2>4, <2>5, <2>6, <2>7, <2>8, <2>9, <2>10 DEF Quiet
<1>4. ASSUME NEW c \in Calls, LookUpToVerify(c) PROVE TypeOK'
  BY <1>4 DEF LookUpToVerify, Step, history, RowsByEmail, Rows
<1>5. ASSUME NEW c \in Calls, Insert(c) PROVE TypeOK'
  BY <1>5, RowOfIsRow DEF Insert, Executed, Errs, Step
<1>6. ASSUME NEW c \in Calls, UpdateOTP(c) PROVE TypeOK'
  BY <1>6, UpdateWrites DEF UpdateOTP, WritesRow, Executed, Errs, Step, local
<1>7. ASSUME NEW c \in Calls, VerifyEmail(c) PROVE TypeOK'
  BY <1>7, VerifyWrites DEF VerifyEmail, WritesRow, Executed, Errs, Step, local
<1>8. ASSUME NEW c \in Calls, LinkOAuth(c) PROVE TypeOK'
  BY <1>8, LinkWrites DEF LinkOAuth, WritesRow, Executed, Errs, Step, local
<1>9. CASE UNCHANGED vars BY <1>9 DEF vars, local, history
<1> QED BY NextCases, <1>1, <1>2, <1>3, <1>4, <1>5, <1>6, <1>7, <1>8, <1>9

-----------------------------------------------------------------------------

(* What was asked for and what was over before a call stay; a call goes    *)
(* from its mail to its end, and stays there.                              *)
Advance ==
    \A x \in Calls :
        /\ pc[x] # "idle" => pc'[x] # "idle" /\ request'[x] = request[x] /\ before'[x] = before[x]
        /\ pc[x] = "mailing" => pc'[x] \in {"mailing"} \cup Ends
        /\ pc[x] \in Ends => pc'[x] = pc[x]

(* Time passes, what has happened has happened, and a mail is sent once,   *)
(* at the end of its call; only a mailed code is ever submitted.           *)
PastStays ==
    /\ now \in Nat /\ now' \in Nat /\ now <= now'
    /\ erred \subseteq erred' /\ touched \subseteq touched' /\ mailed \subseteq mailed'
    /\ \A x \in mailed' : x \in mailed \/ (pc[x] = "mailing" /\ pc'[x] \in Ends)
    /\ \A x \in Calls :
         /\ pc[x] \in Ends => expires'[x] = expires[x]
         /\ pc[x] = "idle" /\ pc'[x] # "idle" /\ request'[x].op = "VerifyOTP"
              => request'[x].code \in mailed'

LEMMA CallsAdvance ==
    ASSUME TypeOK, [Next]_vars
    PROVE  Advance
<1> USE DEF TypeOK, Advance, Ends
<1>1. CASE Tick BY <1>1 DEF Tick, local, history
<1>2. ASSUME NEW c \in Calls, Begins(c) PROVE Advance
  BY <1>2 DEF Begins, Begin, BeginsAt, Requests
<1>3. ASSUME NEW c \in Calls, Quiet(c) PROVE Advance
  <2> USE DEF Step, local, history, Reads, Writes
  <2>1. CASE StatementFails(c) BY <2>1 DEF StatementFails
  <2>2. CASE InsertConflicts(c) BY <2>2 DEF InsertConflicts
  <2>3. CASE Authenticate(c) BY <2>3 DEF Authenticate
  <2>4. CASE RateLimited(c) BY <2>4 DEF RateLimited
  <2>5. CASE LookUpToSend(c) BY <2>5 DEF LookUpToSend
  <2>6. CASE GenerateOTP(c) BY <2>6 DEF GenerateOTP
  <2>7. CASE MailCode(c) BY <2>7 DEF MailCode
  <2>8. CASE JudgeCode(c) BY <2>8 DEF JudgeCode
  <2>9. CASE LookUpOwner(c) BY <2>9 DEF LookUpOwner
  <2>10. CASE LookUpToLink(c) BY <2>10 DEF LookUpToLink
  <2> QED BY <1>3, <2>1, <2>2, <2>3, <2>4, <2>5, <2>6, <2>7, <2>8, <2>9, <2>10 DEF Quiet
<1>4. ASSUME NEW c \in Calls, LookUpToVerify(c) PROVE Advance
  BY <1>4 DEF LookUpToVerify, Step, history
<1>5. ASSUME NEW c \in Calls, Insert(c) \/ UpdateOTP(c) \/ VerifyEmail(c) \/ LinkOAuth(c)
      PROVE  Advance
  BY <1>5 DEF Insert, UpdateOTP, VerifyEmail, LinkOAuth, Executed, Step, local
<1>6. CASE UNCHANGED vars BY <1>6 DEF vars, local, history
<1> QED BY NextCases, <1>1, <1>2, <1>3, <1>4, <1>5, <1>6

LEMMA StepsKept ==
    ASSUME TypeOK, StepsFitRequests, [Next]_vars
    PROVE  StepsFitRequests'
<1> USE DEF TypeOK, StepsFitRequests
<1>1. CASE Tick BY <1>1 DEF Tick, local, history
<1>2. ASSUME NEW c \in Calls, Begins(c) PROVE StepsFitRequests'
  BY <1>2, RequestFields DEF Begins, Begin, BeginsAt, Ends
<1>3. ASSUME NEW c \in Calls, Quiet(c) PROVE StepsFitRequests'
  <2> USE DEF Step, local, history, Reads, Writes, Ends
  <2>1. CASE StatementFails(c) BY <2>1 DEF StatementFails
  <2>2. CASE InsertConflicts(c) BY <2>2 DEF InsertConflicts
  <2>3. CASE Authenticate(c) BY <2>3 DEF Authenticate
  <2>4. CASE RateLimited(c) BY <2>4 DEF RateLimited
  <2>5. CASE LookUpToSend(c) BY <2>5 DEF LookUpToSend
  <2>6. CASE GenerateOTP(c) BY <2>6 DEF GenerateOTP
  <2>7. CASE MailCode(c) BY <2>7 DEF MailCode
  <2>8. CASE JudgeCode(c) BY <2>8 DEF JudgeCode
  <2>9. CASE LookUpOwner(c) BY <2>9 DEF LookUpOwner
  <2>10. CASE LookUpToLink(c) BY <2>10 DEF LookUpToLink
  <2> QED BY <1>3, <2>1, <2>2, <2>3, <2>4, <2>5, <2>6, <2>7, <2>8, <2>9, <2>10 DEF Quiet
<1>4. ASSUME NEW c \in Calls, LookUpToVerify(c) PROVE StepsFitRequests'
  BY <1>4 DEF LookUpToVerify, Step, history, Ends
<1>5. ASSUME NEW c \in Calls, Insert(c) \/ UpdateOTP(c) \/ VerifyEmail(c) \/ LinkOAuth(c)
      PROVE  StepsFitRequests'
  BY <1>5 DEF Insert, UpdateOTP, VerifyEmail, LinkOAuth, Executed, Step, local, Ends
<1>6. CASE UNCHANGED vars BY <1>6 DEF vars, local, history
<1> QED BY NextCases, <1>1, <1>2, <1>3, <1>4, <1>5, <1>6

LEMMA AccountsKept ==
    ASSUME TypeOK, StepsFitRequests, AccountsFound, [Next]_vars
    PROVE  AccountsFound'
<1> USE DEF TypeOK, AccountsFound, EmailOf, Ends
<1>1. CASE Tick BY <1>1 DEF Tick, local, history
<1>2. ASSUME NEW c \in Calls, Begins(c) PROVE AccountsFound'
  BY <1>2, RequestFields DEF Begins, Begin, BeginsAt
<1>3. ASSUME NEW c \in Calls, Quiet(c) PROVE AccountsFound'
  <2> USE DEF Step, local, history, Reads, Writes, RowsByEmail
  <2>1. CASE StatementFails(c) BY <2>1 DEF StatementFails
  <2>2. CASE InsertConflicts(c) BY <2>2 DEF InsertConflicts
  <2>3. CASE Authenticate(c) BY <2>3 DEF Authenticate
  <2>4. CASE RateLimited(c) BY <2>4 DEF RateLimited
  <2>5. CASE LookUpToSend(c) BY <2>5 DEF LookUpToSend
  <2>6. CASE GenerateOTP(c) BY <2>6 DEF GenerateOTP
  <2>7. CASE MailCode(c) BY <2>7 DEF MailCode
  <2>8. CASE JudgeCode(c) BY <2>8 DEF JudgeCode
  <2>9. CASE LookUpOwner(c) BY <2>9 DEF LookUpOwner
  <2>10. CASE LookUpToLink(c) BY <2>10 DEF LookUpToLink
  <2> QED BY <1>3, <2>1, <2>2, <2>3, <2>4, <2>5, <2>6, <2>7, <2>8, <2>9, <2>10 DEF Quiet
<1>4. ASSUME NEW c \in Calls, LookUpToVerify(c) PROVE AccountsFound'
  BY <1>4 DEF LookUpToVerify, Step, history, RowsByEmail
<1>5. ASSUME NEW c \in Calls, Insert(c) PROVE AccountsFound'
  <2>1. RowOf(c).email = request[c].email /\ RowsByEmail(request[c].email) = {}
    BY <1>5, RowOfIsRow DEF Insert
  <2>2. DOMAIN users' = DOMAIN users \cup {c}
    BY <1>5 DEF Insert
  <2>3. \A u \in DOMAIN users' : users'[u] = IF u = c THEN RowOf(c) ELSE users[u]
    BY <1>5 DEF Insert
  <2>4. c \notin DOMAIN users \/ users[c].email # request[c].email
    BY <2>1 DEF RowsByEmail
  <2>5. user' = [user EXCEPT ![c] = c] /\ request' = request
    BY <1>5 DEF Insert
  <2>6. \A x \in Calls :
          IF x = c THEN pc'[x] \in {"generating", "done", "failed"} ELSE pc'[x] = pc[x]
    BY <1>5 DEF Insert, Executed, Step
  <2>7. \A u, v \in DOMAIN users' : users'[u].email = users'[v].email => u = v
    BY <2>1, <2>2, <2>3 DEF RowsByEmail
  <2>8. c \notin DOMAIN users
    BY <1>5 DEF Insert
  <2> QED BY <2>1, <2>2, <2>3, <2>5, <2>6, <2>7, <2>8
<1>6. ASSUME NEW c \in Calls, UpdateOTP(c) PROVE AccountsFound'
  BY <1>6, UpdateWrites DEF UpdateOTP, WritesRow, Executed, Step, local
<1>7. ASSUME NEW c \in Calls, VerifyEmail(c) PROVE AccountsFound'
  <2>1. WritesRow(user[c], Null, users[user[c]].auth)
    BY <1>7, VerifyWrites
  <2>2. request' = request /\ user' = user
    BY <1>7 DEF VerifyEmail, local
  <2>3. \A x \in Calls : pc'[x] \in {pc[x], "done", "failed"}
    BY <1>7 DEF VerifyEmail, Executed, Step
  <2> QED BY <2>1, <2>2, <2>3 DEF WritesRow
<1>8. ASSUME NEW c \in Calls, LinkOAuth(c) PROVE AccountsFound'
  BY <1>8, LinkWrites DEF LinkOAuth, WritesRow, Executed, Step, local
<1>9. CASE UNCHANGED vars BY <1>9 DEF vars, local, history
<1> QED BY NextCases, <1>1, <1>2, <1>3, <1>4, <1>5, <1>6, <1>7, <1>8, <1>9

-----------------------------------------------------------------------------

(* What is known of a code that was read stays so: it is about calls that  *)
(* are over.                                                               *)
LEMMA CurrentStays ==
    ASSUME TypeOK, StepsFitRequests, Advance,
           NEW c \in Calls, pc[c] # "idle", NEW k \in Calls, Current(c, k)
    PROVE  Current(c, k)'
<1> USE DEF Current, Stored, Advance, EmailOf
<1>1. Stored(k)' /\ EmailOf(k)' = EmailOf(c)'
  BY DEF Ends
<1>2. before'[c] = before[c] /\ before[c] \subseteq Calls
  BY DEF TypeOK
<1>3. ASSUME NEW d \in before[c]
      PROVE  pc'[d] = pc[d] /\ request'[d] = request[d] /\ before'[d] = before[d]
  BY <1>2, <1>3 DEF StepsFitRequests, Ends
<1>4. request'[k] = request[k]
  BY DEF Ends
<1> QED BY <1>1, <1>2, <1>3, <1>4 DEF Spends, Replaces, Ended

(* A step in which no call takes a code out of the table or puts one in.   *)
Calm ==
    /\ \A d \in Calls :
         /\ pc'[d] = "mailing" => pc[d] = "mailing"
         /\ pc'[d] = "done" /\ request'[d].op = "VerifyOTP" => pc[d] = "done"
         /\ pc'[d] = "done" /\ request'[d].op = "RequestOTP" => pc[d] \in {"mailing", "done"}
    /\ \A u \in DOMAIN users' : users'[u].otp \in Calls =>
         /\ u \in DOMAIN users
         /\ users'[u].otp = users[u].otp /\ users'[u].email = users[u].email

LEMMA CalmKeepsHeld ==
    ASSUME TypeOK, HeldCodesAreCurrent, Advance, Calm
    PROVE  HeldCodesAreCurrent'
<1> SUFFICES ASSUME NEW u \in DOMAIN users', NEW k \in Calls, users'[u].otp = k
             PROVE  /\ Stored(k)' /\ EmailOf(k)' = users'[u].email
                    /\ \A d \in Calls : ~Spends(d, k)' /\ ~Replaces(d, k)'
  BY DEF HeldCodesAreCurrent
<1>1. u \in DOMAIN users /\ users[u].otp = k /\ users'[u].email = users[u].email
  BY DEF Calm
<1>2. /\ Stored(k) /\ EmailOf(k) = users[u].email
      /\ \A d \in Calls : ~Spends(d, k) /\ ~Replaces(d, k)
  BY <1>1 DEF HeldCodesAreCurrent
<1>3. request'[k] = request[k] /\ Stored(k)' /\ EmailOf(k)' = EmailOf(k)
  BY <1>2 DEF Stored, Advance, EmailOf, Ends
<1>4. ASSUME NEW d \in Calls PROVE ~Spends(d, k)' /\ ~Replaces(d, k)'
  <2>1. pc[d] # "idle" => request'[d] = request[d] /\ before'[d] = before[d]
    BY DEF Advance
  <2> QED BY <1>2, <1>3, <2>1 DEF Calm, Spends, Replaces, Ended, EmailOf
<1> QED BY <1>1, <1>2, <1>3, <1>4

LEMMA CalmSteps ==
    ASSUME TypeOK, StepsFitRequests, AccountsFound, [Next]_vars
    PROVE  Calm \/ \E c \in Calls : UpdateOTP(c) \/ VerifyEmail(c)
<1> USE DEF TypeOK, StepsFitRequests, Calm
<1>1. CASE Tick BY <1>1 DEF Tick, local, history
<1>2. ASSUME NEW c \in Calls, Begins(c) PROVE Calm
  BY <1>2, RequestFields DEF Begins, Begin, BeginsAt
<1>3. ASSUME NEW c \in Calls, Quiet(c) PROVE Calm
  <2> USE DEF Step, local, history, Reads, Writes, Ends
  <2>1. CASE StatementFails(c) BY <2>1 DEF StatementFails
  <2>2. CASE InsertConflicts(c) BY <2>2 DEF InsertConflicts
  <2>3. CASE Authenticate(c) BY <2>3 DEF Authenticate
  <2>4. CASE RateLimited(c) BY <2>4 DEF RateLimited
  <2>5. CASE LookUpToSend(c) BY <2>5 DEF LookUpToSend
  <2>6. CASE GenerateOTP(c) BY <2>6 DEF GenerateOTP
  <2>7. CASE MailCode(c) BY <2>7 DEF MailCode
  <2>8. CASE JudgeCode(c) BY <2>8 DEF JudgeCode
  <2>9. CASE LookUpOwner(c) BY <2>9 DEF LookUpOwner
  <2>10. CASE LookUpToLink(c) BY <2>10 DEF LookUpToLink
  <2> QED BY <1>3, <2>1, <2>2, <2>3, <2>4, <2>5, <2>6, <2>7, <2>8, <2>9, <2>10 DEF Quiet
<1>4. ASSUME NEW c \in Calls, LookUpToVerify(c) PROVE Calm
  BY <1>4 DEF LookUpToVerify, Step, history
<1>5. ASSUME NEW c \in Calls, Insert(c) PROVE Calm
  <2>1. RowOf(c).otp \notin Calls
    BY <1>5, RowOfIsRow, NoneAssumption DEF Insert
  <2>2. /\ DOMAIN users' = DOMAIN users \cup {c}
        /\ \A u \in DOMAIN users' : users'[u] = IF u = c THEN RowOf(c) ELSE users[u]
    BY <1>5 DEF Insert
  <2>3. /\ request' = request
        /\ \A x \in Calls : x # c => pc'[x] = pc[x]
        /\ pc'[c] \in {"generating", "done", "failed"}
        /\ request[c].op = "RequestOTP" => pc'[c] # "done"
        /\ request[c].op # "VerifyOTP"
    BY <1>5 DEF Insert, Executed, Step
  <2> QED BY <2>1, <2>2, <2>3
<1>6. ASSUME NEW c \in Calls, LinkOAuth(c) PROVE Calm
  <2>1. WritesRow(user[c], users[user[c]].otp, request[c].auth)
    BY <1>6, LinkWrites
  <2>2. \A x \in Calls : pc'[x] \in {pc[x], "confirming", "failed"}
    BY <1>6 DEF LinkOAuth, Executed, Step
  <2> QED BY <2>1, <2>2 DEF WritesRow
<1>7. CASE UNCHANGED vars BY <1>7 DEF vars, local, history
<1> QED BY NextCases, <1>1, <1>2, <1>3, <1>4, <1>5, <1>6, <1>7

(* The new code displaces whatever its account held; it is stored nowhere  *)
(* else and has not been taken out, since nobody could know it before.     *)
LEMMA UpdateKeepsHeld ==
    ASSUME IInv, Advance, NEW c \in Calls, UpdateOTP(c)
    PROVE  HeldCodesAreCurrent'
<1> USE DEF IInv, TypeOK
<1>0. /\ pc[c] = "storing" /\ pc'[c] \in {"mailing", "failed"}
      /\ \A x \in Calls : x # c => pc'[x] = pc[x]
      /\ request' = request /\ before' = before
      /\ request[c].op = "RequestOTP"
      /\ user[c] \in DOMAIN users /\ users[user[c]].email = EmailOf(c)
  BY DEF UpdateOTP, Executed, Step, local, StepsFitRequests, AccountsFound
<1>1. WritesRow(user[c], c, users[user[c]].auth)
  BY UpdateWrites
<1> SUFFICES ASSUME NEW u \in DOMAIN users', NEW k \in Calls, users'[u].otp = k
             PROVE  /\ Stored(k)' /\ EmailOf(k)' = users'[u].email
                    /\ \A d \in Calls : ~Spends(d, k)' /\ ~Replaces(d, k)'
  BY DEF HeldCodesAreCurrent
<1>2. u \in DOMAIN users /\ users'[u].email = users[u].email
  BY <1>1 DEF WritesRow
<1>3. CASE u = user[c]
  <2>1. k = c
    BY <1>1, <1>2, <1>3 DEF WritesRow
  <2>2. Stored(c)' /\ EmailOf(c)' = users'[u].email
    BY <1>0, <1>2, <1>3 DEF Stored, EmailOf, Ends
  <2>3. ASSUME NEW d \in Calls PROVE ~Spends(d, c)'
    <3>1. Ended(d, "VerifyOTP", {"done"}) => Current(d, request[d].code)
      BY DEF SeenCodesAreCurrent, Ended
    <3> QED BY <1>0, <3>1 DEF Spends, Ended, Current, Stored, Ends
  <2>4. ASSUME NEW d \in Calls PROVE ~Replaces(d, c)'
    <3>1. c \notin before[d]
      BY <1>0 DEF StepsFitRequests, Ends
    <3> QED BY <1>0, <3>1 DEF Replaces
  <2> QED BY <2>1, <2>2, <2>3, <2>4
<1>4. CASE u # user[c]
  <2>1. users[u].otp = k
    BY <1>1, <1>2, <1>4 DEF WritesRow
  <2>2. /\ Stored(k) /\ EmailOf(k) = users[u].email
        /\ \A d \in Calls : ~Spends(d, k) /\ ~Replaces(d, k)
    BY <1>2, <2>1 DEF HeldCodesAreCurrent
  <2>3. k # c /\ EmailOf(k) # EmailOf(c)
    BY <1>0, <1>2, <1>4, <2>2 DEF AccountsFound, Stored, Ends
  <2>4. Stored(k)' /\ EmailOf(k)' = users'[u].email
    BY <1>0, <1>2, <2>2, <2>3 DEF Stored, EmailOf
  <2>5. ASSUME NEW d \in Calls PROVE ~Spends(d, k)' /\ ~Replaces(d, k)'
    BY <1>0, <2>2, <2>3 DEF Spends, Replaces, Ended, EmailOf
  <2> QED BY <2>4, <2>5
<1> QED BY <1>3, <1>4

(* A verification empties the only account its code may be in.             *)
LEMMA VerifyKeepsHeld ==
    ASSUME IInv, Advance, NEW c \in Calls, VerifyEmail(c)
    PROVE  HeldCodesAreCurrent'
<1> USE DEF IInv, TypeOK
<1>0. /\ pc[c] = "confirming" /\ pc'[c] \in {"done", "failed"}
      /\ \A x \in Calls : x # c => pc'[x] = pc[x]
      /\ request' = request /\ before' = before
      /\ request[c].op \in {"VerifyOTP", "OAuth"}
      /\ user[c] \in DOMAIN users /\ users[user[c]].email = EmailOf(c)
  BY DEF VerifyEmail, Executed, Step, local, StepsFitRequests, AccountsFound
<1>1. WritesRow(user[c], Null, users[user[c]].auth)
  BY VerifyWrites
<1> SUFFICES ASSUME NEW u \in DOMAIN users', NEW k \in Calls, users'[u].otp = k
             PROVE  /\ Stored(k)' /\ EmailOf(k)' = users'[u].email
                    /\ \A d \in Calls : ~Spends(d, k)' /\ ~Replaces(d, k)'
  BY DEF HeldCodesAreCurrent
<1>2. u \in DOMAIN users /\ users'[u].email = users[u].email
  BY <1>1 DEF WritesRow
<1>3. u # user[c] /\ users[u].otp = k
  BY <1>1, <1>2, NoneAssumption DEF WritesRow
<1>4. /\ Stored(k) /\ EmailOf(k) = users[u].email
      /\ \A d \in Calls : ~Spends(d, k) /\ ~Replaces(d, k)
  BY <1>2, <1>3 DEF HeldCodesAreCurrent
<1>5. EmailOf(k) # EmailOf(c)
  BY <1>0, <1>2, <1>3, <1>4 DEF AccountsFound
<1>6. Stored(k)' /\ EmailOf(k)' = users'[u].email
  BY <1>0, <1>2, <1>4 DEF Stored, EmailOf, Ends
<1>7. ~Spends(c, k)'
  <2>1. request[c].op = "VerifyOTP" => EmailOf(request[c].code) = EmailOf(c)
    BY <1>0 DEF SeenCodesAreCurrent, Current
  <2> QED BY <1>0, <1>5, <2>1 DEF Spends, Ended
<1>8. ASSUME NEW d \in Calls PROVE ~Spends(d, k)' /\ ~Replaces(d, k)'
  BY <1>0, <1>4, <1>7 DEF Spends, Replaces, Ended, EmailOf
<1> QED BY <1>6, <1>8

(* Where a code that is being judged, or has been accepted, was read.      *)
LEMMA SeenOrigin ==
    ASSUME TypeOK, StepsFitRequests, [Next]_vars, NEW c \in Calls
    PROVE  /\ pc'[c] = "judging"
                => \/ pc[c] = "judging" /\ seen'[c] = seen[c]
                   \/ LookUpToVerify(c)
           /\ request'[c].op = "VerifyOTP" /\ pc'[c] \in {"confirming", "done"}
                => pc[c] \in {"confirming", "done"} \/ JudgeCode(c)
<1> DEFINE Goal ==
      /\ pc'[c] = "judging" => \/ pc[c] = "judging" /\ seen'[c] = seen[c]
                               \/ LookUpToVerify(c)
      /\ request'[c].op = "VerifyOTP" /\ pc'[c] \in {"confirming", "done"}
           => pc[c] \in {"confirming", "done"} \/ JudgeCode(c)
<1> USE DEF TypeOK, StepsFitRequests
<1>1. CASE Tick BY <1>1 DEF Tick, local, history
<1>2. ASSUME NEW d \in Calls, Begins(d) PROVE Goal
  BY <1>2, RequestFields DEF Begins, Begin, BeginsAt
<1>3. ASSUME NEW d \in Calls, Quiet(d) PROVE Goal
  <2> USE DEF Step, local, history, Reads, Writes
  <2>1. CASE StatementFails(d) BY <2>1 DEF StatementFails
  <2>2. CASE InsertConflicts(d) BY <2>2 DEF InsertConflicts
  <2>3. CASE Authenticate(d) BY <2>3 DEF Authenticate
  <2>4. CASE RateLimited(d) BY <2>4 DEF RateLimited
  <2>5. CASE LookUpToSend(d) BY <2>5 DEF LookUpToSend
  <2>6. CASE GenerateOTP(d) BY <2>6 DEF GenerateOTP
  <2>7. CASE MailCode(d) BY <2>7 DEF MailCode
  <2>8. CASE JudgeCode(d) BY <2>8 DEF JudgeCode
  <2>9. CASE LookUpOwner(d) BY <2>9 DEF LookUpOwner
  <2>10. CASE LookUpToLink(d) BY <2>10 DEF LookUpToLink
  <2> QED BY <1>3, <2>1, <2>2, <2>3, <2>4, <2>5, <2>6, <2>7, <2>8, <2>9, <2>10 DEF Quiet
<1>4. ASSUME NEW d \in Calls, LookUpToVerify(d) PROVE Goal
  BY <1>4 DEF LookUpToVerify, Step, history
<1>5. ASSUME NEW d \in Calls, Insert(d) \/ UpdateOTP(d) \/ VerifyEmail(d) \/ LinkOAuth(d)
      PROVE  Goal
  BY <1>5 DEF Insert, UpdateOTP, VerifyEmail, LinkOAuth, Executed, Step, local
<1>6. CASE UNCHANGED vars BY <1>6 DEF vars, local, history
<1> QED BY NextCases, <1>1, <1>2, <1>3, <1>4, <1>5, <1>6

LEMMA SeenKept ==
    ASSUME IInv, Advance, [Next]_vars
    PROVE  SeenCodesAreCurrent'
<1> USE DEF IInv
<1> SUFFICES ASSUME NEW c \in Calls
             PROVE  /\ \A k \in Calls :
                         pc'[c] = "judging" /\ seen'[c] = k => Current(c, k)'
                    /\ request'[c].op = "VerifyOTP" /\ pc'[c] \in {"confirming", "done"}
                         => Current(c, request[c].code)'
  BY DEF SeenCodesAreCurrent, Current, Stored, Spends, Replaces, Ended, EmailOf
<1>1. ASSUME NEW k \in Calls, pc'[c] = "judging", seen'[c] = k PROVE Current(c, k)'
  <2>1. CASE pc[c] = "judging" /\ seen'[c] = seen[c]
    <3>1. Current(c, k)
      BY <1>1, <2>1 DEF SeenCodesAreCurrent
    <3> QED BY <2>1, <3>1, CurrentStays
  <2>2. CASE LookUpToVerify(c)
    <3>1. PICK u \in DOMAIN users : users[u].email = EmailOf(c) /\ k = users[u].otp
      BY <1>1, <2>2 DEF LookUpToVerify, Step, RowsByEmail, TypeOK
    <3>2. Current(c, k)
      BY <3>1 DEF HeldCodesAreCurrent, Current, TypeOK
    <3>3. pc[c] # "idle"
      BY <2>2 DEF LookUpToVerify
    <3> QED BY <3>2, <3>3, CurrentStays
  <2> QED BY <1>1, <2>1, <2>2, SeenOrigin
<1>2. ASSUME request'[c].op = "VerifyOTP", pc'[c] \in {"confirming", "done"}
      PROVE  Current(c, request[c].code)'
  <2>0. pc[c] # "idle" /\ (pc[c] \in {"confirming", "done"} \/ JudgeCode(c))
    BY <1>2, SeenOrigin DEF JudgeCode, Step
  <2>1. request'[c] = request[c] /\ request[c].code \in Calls
    BY <1>2, <2>0, RequestFields DEF Advance, StepsFitRequests
  <2>2. CASE pc[c] \in {"confirming", "done"}
    BY <1>2, <2>0, <2>1, <2>2, CurrentStays DEF SeenCodesAreCurrent
  <2>3. CASE JudgeCode(c)
    <3>1. pc[c] = "judging" /\ seen[c] = request[c].code
      BY <1>2, <2>3 DEF JudgeCode, Step, Accepts, TypeOK
    <3> QED BY <2>0, <2>1, <3>1, CurrentStays DEF SeenCodesAreCurrent
  <2> QED BY <2>0, <2>2, <2>3
<1> QED BY <1>1, <1>2

-----------------------------------------------------------------------------

LEMMA InitHolds == Init => IInv
<1> SUFFICES ASSUME Init PROVE IInv
  OBVIOUS
<1> USE DEF Init
<1>1. TypeOK
  BY DEF TypeOK, Otps
<1>2. StepsFitRequests
  BY DEF StepsFitRequests
<1>3. AccountsFound /\ HeldCodesAreCurrent
  BY DEF AccountsFound, HeldCodesAreCurrent
<1>4. SeenCodesAreCurrent
  BY DEF SeenCodesAreCurrent
<1> QED BY <1>1, <1>2, <1>3, <1>4 DEF IInv

LEMMA StepKeepsInvariant == IInv /\ [Next]_vars => IInv'
<1> SUFFICES ASSUME IInv, [Next]_vars PROVE IInv'
  OBVIOUS
<1> USE DEF IInv
<1>1. Advance
  BY CallsAdvance
<1>2. TypeOK' /\ StepsFitRequests' /\ AccountsFound'
  BY TypeCorrect, StepsKept, AccountsKept
<1>3. HeldCodesAreCurrent'
  BY <1>1, CalmSteps, CalmKeepsHeld, UpdateKeepsHeld, VerifyKeepsHeld
<1>4. SeenCodesAreCurrent'
  BY <1>1, SeenKept
<1> QED BY <1>2, <1>3, <1>4

(* The strengthened invariant holds in every state of every behaviour.    *)
THEOREM InvariantHolds == Spec => []IInv
BY InitHolds, StepKeepsInvariant, PTL DEF Spec

(* The table and the calls are well typed, for any number of addresses,    *)
(* identities, passwords and calls.                                        *)
THEOREM AccountTypesHold == Spec => []TypeOK
<1>1. IInv => TypeOK
  BY DEF IInv
<1> QED BY <1>1, InvariantHolds, PTL

(* No address ever has two accounts.                                       *)
THEOREM AddressesAreUnique ==
    Spec => [](\A u, v \in DOMAIN users : users[u].email = users[v].email => u = v)
<1>1. IInv => \A u, v \in DOMAIN users : users[u].email = users[v].email => u = v
  BY DEF IInv, AccountsFound
<1> QED BY <1>1, InvariantHolds, PTL

(* A code that is accepted was sent to that address, and was neither spent *)
(* nor replaced when the call came in.                                     *)
THEOREM AcceptedIsCurrent == Spec => []AcceptedCodeIsCurrent
<1>1. IInv => AcceptedCodeIsCurrent
  BY DEF IInv, SeenCodesAreCurrent, Current, AcceptedCodeIsCurrent, Ended, Spends, Replaces
<1> QED BY <1>1, InvariantHolds, PTL
-----------------------------------------------------------------------------
(* Why a code or a login is turned down, and how two accounts come to      *)
(* share an identity: in each case another call has been in between.       *)

(* The call d has changed the code of k's account since k came in.         *)
ChangedSince(d, k) == d # k /\ EmailOf(d) = EmailOf(k) /\ d \notin before[k]

(* A call that has changed a code is past it, and one that is about to     *)
(* mail its code has stored it; a mail is sent once, at the end.           *)
CodesAreWritten ==
    /\ \A d \in touched : pc[d] \in {"mailing"} \cup Ends
    /\ \A k \in Calls : pc[k] = "mailing" => k \in touched
    /\ \A k \in mailed : k \in touched /\ request[k].op = "RequestOTP" /\ pc[k] \in Ends
    /\ \A c \in Calls : pc[c] # "idle" /\ request[c].op = "VerifyOTP"
         => request[c].code \in mailed

(* A code that was stored is still there, or somebody has changed it since.*)
StoredOrChanged ==
    \A k \in touched : request[k].op = "RequestOTP" =>
        \E u \in DOMAIN users :
            /\ users[u].email = EmailOf(k)
            /\ users[u].otp = k \/ \E d \in touched : ChangedSince(d, k)

(* So a call that has read another code than its own has read a change.    *)
ReadOrChanged ==
    \A c \in Calls :
        pc[c] = "judging" /\ EmailOf(request[c].code) = EmailOf(c) =>
            \/ seen[c] = request[c].code
            \/ \E d \in touched : ChangedSince(d, request[c].code)

(* A row without a readable code was cleared by a verification or a link.  *)
ClearedHasReason ==
    \A u \in DOMAIN users : users[u].otp = Null =>
        \E d \in touched : /\ EmailOf(d) = users[u].email
                           /\ request[d].op \in {"VerifyOTP", "OAuth"}

(* A login that has looked its identity up and found no account with it:   *)
(* an account that has it by now got it from a login that this one has not *)
(* seen the end of.                                                        *)
Searching(d) ==
    pc[d] \in {"oauthByEmail", "inserting", "linking"} /\ request[d].op = "OAuth"

Overlap(c, d) == c # d /\ c \notin before[d] /\ d \notin before[c]

LogsIn(c, a) == pc[c] # "idle" /\ request[c].op = "OAuth" /\ request[c].auth = a

FoundIsOverlap ==
    \A d \in Calls, u \in DOMAIN users :
        Searching(d) /\ users[u].auth = request[d].auth =>
            \E c \in Calls : LogsIn(c, users[u].auth) /\ EmailOf(c) = users[u].email
                             /\ c \notin before[d]

SharedIsOverlap ==
    \A u, v \in DOMAIN users :
        u # v /\ users[u].auth = users[v].auth /\ users[u].auth # NoIdentity =>
            \E c, d \in Calls : /\ Overlap(c, d)
                                /\ LogsIn(c, users[u].auth) /\ LogsIn(d, users[u].auth)

ReasonInv ==
    /\ IInv
    /\ CodesAreWritten
    /\ StoredOrChanged
    /\ ReadOrChanged
    /\ ClearedHasReason
    /\ RefusedCodeHasReason
    /\ RefusedLoginHasReason
    /\ FoundIsOverlap
    /\ SharedIsOverlap

-----------------------------------------------------------------------------

LEMMA PastIsKept ==
    ASSUME TypeOK, [Next]_vars
    PROVE  PastStays
<1> USE DEF TypeOK, PastStays, Ends
<1>1. CASE Tick BY <1>1 DEF Tick, local, history
<1>2. ASSUME NEW c \in Calls, Begins(c) PROVE PastStays
  BY <1>2 DEF Begins, Begin, BeginsAt, Requests
<1>3. ASSUME NEW c \in Calls, Quiet(c) PROVE PastStays
  <2> USE DEF Step, local, history, Reads, Writes
  <2>1. CASE StatementFails(c) BY <2>1 DEF StatementFails, Errs
  <2>2. CASE InsertConflicts(c) BY <2>2 DEF InsertConflicts
  <2>3. CASE Authenticate(c) BY <2>3 DEF Authenticate
  <2>4. CASE RateLimited(c) BY <2>4 DEF RateLimited
  <2>5. CASE LookUpToSend(c) BY <2>5 DEF LookUpToSend
  <2>6. CASE GenerateOTP(c) BY <2>6 DEF GenerateOTP
  <2>7. CASE MailCode(c) BY <2>7 DEF MailCode
  <2>8. CASE JudgeCode(c) BY <2>8 DEF JudgeCode
  <2>9. CASE LookUpOwner(c) BY <2>9 DEF LookUpOwner
  <2>10. CASE LookUpToLink(c) BY <2>10 DEF LookUpToLink
  <2> QED BY <1>3, <2>1, <2>2, <2>3, <2>4, <2>5, <2>6, <2>7, <2>8, <2>9, <2>10 DEF Quiet
<1>4. ASSUME NEW c \in Calls, LookUpToVerify(c) PROVE PastStays
  BY <1>4 DEF LookUpToVerify, Step, history
<1>5. ASSUME NEW c \in Calls, Insert(c) \/ UpdateOTP(c) \/ VerifyEmail(c) \/ LinkOAuth(c)
      PROVE  PastStays
  BY <1>5 DEF Insert, UpdateOTP, VerifyEmail, LinkOAuth, Executed, Errs, Step, local
<1>6. CASE UNCHANGED vars BY <1>6 DEF vars, local, history
<1> QED BY NextCases, <1>1, <1>2, <1>3, <1>4, <1>5, <1>6

(* Every other step leaves the table as it is.                             *)
LEMMA TableWriters ==
    ASSUME [Next]_vars
    PROVE  \/ UNCHANGED <<users, touched>>
           \/ \E c \in Calls : Insert(c) \/ UpdateOTP(c) \/ VerifyEmail(c) \/ LinkOAuth(c)
<1>1. CASE Tick BY <1>1 DEF Tick, history
<1>2. ASSUME NEW c \in Calls, Begins(c) PROVE UNCHANGED <<users, touched>>
  BY <1>2 DEF Begins, Begin
<1>3. ASSUME NEW c \in Calls, Quiet(c) \/ LookUpToVerify(c) PROVE UNCHANGED <<users, touched>>
  BY <1>3 DEF Quiet, StatementFails, InsertConflicts, Authenticate, RateLimited, LookUpToSend,
     GenerateOTP, MailCode, JudgeCode, LookUpOwner, LookUpToLink, LookUpToVerify, history
<1>4. CASE UNCHANGED vars BY <1>4 DEF vars, history
<1> QED BY NextCases, <1>1, <1>2, <1>3, <1>4

(* Accounts stay, with their address and password; a new one is that of a  *)
(* call about to insert it.                                                *)
AccountsStay ==
    /\ DOMAIN users \subseteq DOMAIN users'
    /\ \A v \in DOMAIN users :
         users'[v].email = users[v].email /\ users'[v].password = users[v].password
    /\ \A v \in DOMAIN users' \ DOMAIN users : pc[v] = "inserting" /\ users'[v].otp = Blank

(* The code of an account is changed by a call of its address, about to do *)
(* so and counted among the touched from then on.                          *)
CodesHaveWriters ==
    /\ \A d \in touched' \ touched :
         pc[d] \in {"storing", "confirming"} /\ pc'[d] \in {"mailing"} \cup Ends
    /\ \A v \in DOMAIN users : users'[v].otp # users[v].otp =>
         \E d \in touched' :
            /\ pc[d] \in {"storing", "confirming"} /\ EmailOf(d) = users[v].email
            /\ users'[v].otp = Null => request[d].op \in {"VerifyOTP", "OAuth"}
    /\ \A k \in touched' \ touched : request[k].op = "RequestOTP" =>
         \E u \in DOMAIN users' : users'[u].email = EmailOf(k) /\ users'[u].otp = k
    /\ \A k \in Calls : pc'[k] = "mailing" => pc[k] = "mailing" \/ k \in touched'

(* The identity of an account is that of the login that inserted or linked *)
(* it, whose search ends with that; one account's at a time.               *)
KeepsIdentity(v) == v \in DOMAIN users /\ users'[v].auth = users[v].auth

IdentitiesHaveWriters ==
    /\ \A v \in DOMAIN users' :
         \/ KeepsIdentity(v)
         \/ users'[v].auth = NoIdentity
         \/ \E d \in Calls : /\ Searching(d) /\ ~Searching(d)'
                             /\ users'[v].auth = request[d].auth
                             /\ users'[v].email = EmailOf(d)
    /\ \A u, v \in DOMAIN users' : u # v => KeepsIdentity(u) \/ KeepsIdentity(v)
LEMMA WritersHaveReason ==
    ASSUME TypeOK, StepsFitRequests, AccountsFound, [Next]_vars
    PROVE  AccountsStay /\ CodesHaveWriters /\ IdentitiesHaveWriters
<1> DEFINE Goal == AccountsStay /\ CodesHaveWriters /\ IdentitiesHaveWriters
<1> USE DEF TypeOK, AccountsStay, CodesHaveWriters, IdentitiesHaveWriters, KeepsIdentity, Ends
<1>0. ASSUME NEW k \in Calls, pc'[k] = "mailing"
      PROVE  pc[k] = "mailing" \/ k \in touched'
  <2>1. CASE Calm
    BY <1>0, <2>1 DEF Calm
  <2>2. ASSUME NEW c \in Calls, UpdateOTP(c) \/ VerifyEmail(c)
        PROVE  pc[k] = "mailing" \/ k \in touched'
    BY <1>0, <2>2 DEF UpdateOTP, VerifyEmail, Executed, Step
  <2> QED BY <2>1, <2>2, CalmSteps
<1>1. CASE UNCHANGED <<users, touched>>
  BY <1>0, <1>1
<1>2. ASSUME NEW c \in Calls, Insert(c) PROVE Goal
  <2>1. /\ DOMAIN users' = DOMAIN users \cup {c}
        /\ \A v \in DOMAIN users' : users'[v] = IF v = c THEN RowOf(c) ELSE users[v]
        /\ pc[c] = "inserting" /\ touched' = touched /\ request' = request
        /\ pc'[c] \in {"generating", "done", "failed"}
        /\ c \notin DOMAIN users
    BY <1>2 DEF Insert, Executed, Step, AccountsFound
  <2>2. /\ RowOf(c).otp = Blank /\ RowOf(c).email = EmailOf(c)
        /\ RowOf(c).auth = NoIdentity
           \/ (request[c].op = "OAuth" /\ RowOf(c).auth = request[c].auth)
    BY <2>1, RowOfIsRow DEF RowOf
  <2>3. AccountsStay /\ CodesHaveWriters
    BY <1>0, <2>1, <2>2
  <2>4. IdentitiesHaveWriters
    BY <2>1, <2>2 DEF Searching
  <2> QED BY <2>3, <2>4
<1>3. ASSUME NEW c \in Calls, UpdateOTP(c) PROVE Goal
  <2>1. WritesRow(user[c], c, users[user[c]].auth)
    BY <1>3, UpdateWrites
  <2>2. /\ pc[c] = "storing" /\ pc'[c] \in {"mailing", "failed"} /\ touched' = touched \cup {c}
        /\ user[c] \in DOMAIN users /\ users[user[c]].email = EmailOf(c)
    BY <1>3 DEF UpdateOTP, Executed, Step, AccountsFound
  <2>3. AccountsStay /\ IdentitiesHaveWriters
    BY <2>1 DEF WritesRow
  <2>4. CodesHaveWriters
    BY <1>0, <2>1, <2>2, NoneAssumption DEF WritesRow
  <2> QED BY <2>3, <2>4
<1>4. ASSUME NEW c \in Calls, VerifyEmail(c) PROVE Goal
  <2>1. WritesRow(user[c], Null, users[user[c]].auth)
    BY <1>4, VerifyWrites
  <2>2. /\ pc[c] = "confirming" /\ pc'[c] \in {"done", "failed"} /\ touched' = touched \cup {c}
        /\ user[c] \in DOMAIN users /\ users[user[c]].email = EmailOf(c)
        /\ request[c].op \in {"VerifyOTP", "OAuth"}
    BY <1>4 DEF VerifyEmail, Executed, Step, AccountsFound, StepsFitRequests
  <2>3. AccountsStay /\ IdentitiesHaveWriters
    BY <2>1 DEF WritesRow
  <2>4. CodesHaveWriters
    BY <1>0, <2>1, <2>2 DEF WritesRow
  <2> QED BY <2>3, <2>4
<1>5. ASSUME NEW c \in Calls, LinkOAuth(c) PROVE Goal
  <2>1. WritesRow(user[c], users[user[c]].otp, request[c].auth)
    BY <1>5, LinkWrites
  <2>2. /\ pc[c] = "linking" /\ pc'[c] \in {"confirming", "failed"} /\ touched' = touched
        /\ user[c] \in DOMAIN users /\ users[user[c]].email = EmailOf(c)
        /\ request[c].op = "OAuth"
    BY <1>5 DEF LinkOAuth, Executed, Step, AccountsFound, StepsFitRequests
  <2>3. AccountsStay /\ CodesHaveWriters
    BY <1>0, <2>1, <2>2 DEF WritesRow
  <2>4. Searching(c) /\ ~Searching(c)'
    BY <2>2 DEF Searching
  <2>5. IdentitiesHaveWriters
    BY <2>1, <2>2, <2>4 DEF WritesRow
  <2> QED BY <2>3, <2>5
<1> QED BY TableWriters, <1>1, <1>2, <1>3, <1>4, <1>5

(* Which step turns a call down, and which makes a login search.           *)
LEMMA TurningPoints ==
    ASSUME TypeOK, StepsFitRequests, [Next]_vars, NEW c \in Calls
    PROVE  /\ pc'[c] \in {"refused", "failed"} /\ c \notin erred' =>
                \/ pc[c] \in {"refused", "failed"} /\ c \notin erred
                \/ request[c].op = "VerifyOTP" /\ (LookUpToVerify(c) \/ JudgeCode(c))
                \/ request[c].op = "Login" /\ Authenticate(c)
                \/ request[c].op \notin {"VerifyOTP", "Login"}
           /\ Searching(c)' => Searching(c) \/ (LookUpOwner(c) /\ Owners(c) = {})
<1> DEFINE Goal ==
      /\ pc'[c] \in {"refused", "failed"} /\ c \notin erred' =>
           \/ pc[c] \in {"refused", "failed"} /\ c \notin erred
           \/ request[c].op = "VerifyOTP" /\ (LookUpToVerify(c) \/ JudgeCode(c))
           \/ request[c].op = "Login" /\ Authenticate(c)
           \/ request[c].op \notin {"VerifyOTP", "Login"}
      /\ Searching(c)' => Searching(c) \/ (LookUpOwner(c) /\ Owners(c) = {})
<1> USE DEF TypeOK, StepsFitRequests, Searching
<1>1. CASE Tick BY <1>1 DEF Tick, local, history
<1>2. ASSUME NEW d \in Calls, Begins(d) PROVE Goal
  BY <1>2, RequestFields DEF Begins, Begin, BeginsAt
<1>3. ASSUME NEW d \in Calls, Quiet(d) PROVE Goal
  <2> USE DEF Step, local, history, Reads, Writes
  <2>1. CASE StatementFails(d) BY <2>1 DEF StatementFails, Errs
  <2>2. CASE InsertConflicts(d) BY <2>2 DEF InsertConflicts
  <2>3. CASE Authenticate(d) BY <2>3 DEF Authenticate
  <2>4. CASE RateLimited(d) BY <2>4 DEF RateLimited
  <2>5. CASE LookUpToSend(d) BY <2>5 DEF LookUpToSend
  <2>6. CASE GenerateOTP(d) BY <2>6 DEF GenerateOTP
  <2>7. CASE MailCode(d) BY <2>7 DEF MailCode
  <2>8. CASE JudgeCode(d) BY <2>8 DEF JudgeCode
  <2>9. CASE LookUpOwner(d) BY <2>9 DEF LookUpOwner
  <2>10. CASE LookUpToLink(d) BY <2>10 DEF LookUpToLink
  <2> QED BY <1>3, <2>1, <2>2, <2>3, <2>4, <2>5, <2>6, <2>7, <2>8, <2>9, <2>10 DEF Quiet
<1>4. ASSUME NEW d \in Calls, LookUpToVerify(d) PROVE Goal
  BY <1>4 DEF LookUpToVerify, Step, history
<1>5. ASSUME NEW d \in Calls, Insert(d) \/ UpdateOTP(d) \/ VerifyEmail(d) \/ LinkOAuth(d)
      PROVE  Goal
  BY <1>5 DEF Insert, UpdateOTP, VerifyEmail, LinkOAuth, Executed, Errs, Step, local
<1>6. CASE UNCHANGED vars BY <1>6 DEF vars, local, history
<1> QED BY NextCases, <1>1, <1>2, <1>3, <1>4, <1>5, <1>6
-----------------------------------------------------------------------------

(* What is said of calls that have come in stays true of them.             *)
LEMMA CallsKeepTheirPast ==
    ASSUME Advance, NEW c \in Calls, pc[c] # "idle"
    PROVE  /\ pc'[c] # "idle" /\ request'[c] = request[c] /\ before'[c] = before[c]
           /\ EmailOf(c)' = EmailOf(c)
BY DEF Advance, EmailOf

LEMMA TouchedAreIn ==
    ASSUME TypeOK, CodesAreWritten, NEW d \in touched
    PROVE  d \in Calls /\ pc[d] # "idle"
BY DEF TypeOK, CodesAreWritten, Ends

LEMMA ChangesStay ==
    ASSUME TypeOK, CodesAreWritten, Advance, PastStays, NEW k \in Calls, pc[k] # "idle",
           \E d \in touched : ChangedSince(d, k)
    PROVE  (\E d \in touched : ChangedSince(d, k))'
<1>1. PICK d \in touched : ChangedSince(d, k)
  OBVIOUS
<1>2. d \in Calls /\ pc[d] # "idle"
  BY TouchedAreIn
<1>3. EmailOf(d)' = EmailOf(d) /\ EmailOf(k)' = EmailOf(k) /\ before'[k] = before[k]
  BY <1>2, CallsKeepTheirPast
<1>4. ChangedSince(d, k)' /\ d \in touched'
  BY <1>1, <1>3 DEF ChangedSince, PastStays
<1> QED BY <1>4

LEMMA CodesAreWrittenKept ==
    ASSUME TypeOK, TypeOK', StepsFitRequests, CodesAreWritten, Advance, PastStays, CodesHaveWriters
    PROVE  CodesAreWritten'
<1>1. ASSUME NEW d \in touched' PROVE pc'[d] \in {"mailing"} \cup Ends
  <2>1. CASE d \in touched
    <3>1. d \in Calls /\ pc[d] \in {"mailing"} \cup Ends
      BY <2>1 DEF CodesAreWritten, TypeOK
    <3> QED BY <3>1 DEF Advance
  <2>2. CASE d \notin touched
    BY <2>2 DEF CodesHaveWriters
  <2> QED BY <2>1, <2>2
<1>2. ASSUME NEW k \in Calls, pc'[k] = "mailing" PROVE k \in touched'
  BY <1>2 DEF CodesHaveWriters, CodesAreWritten, PastStays
<1>3. ASSUME NEW k \in mailed'
      PROVE  k \in touched' /\ request'[k].op = "RequestOTP" /\ pc'[k] \in Ends
  <2>0. k \in Calls
    BY DEF TypeOK
  <2>1. CASE k \in mailed
    BY <2>0, <2>1 DEF CodesAreWritten, Advance, PastStays, Ends
  <2>2. CASE pc[k] = "mailing" /\ pc'[k] \in Ends
    BY <2>0, <2>2 DEF CodesAreWritten, Advance, PastStays, StepsFitRequests
  <2> QED BY <2>1, <2>2 DEF PastStays
<1>4. ASSUME NEW c \in Calls, pc'[c] # "idle", request'[c].op = "VerifyOTP"
      PROVE  request'[c].code \in mailed'
  BY <1>4 DEF CodesAreWritten, Advance, PastStays
<1> QED BY <1>1, <1>2, <1>3, <1>4 DEF CodesAreWritten

(* Who changes an account's code was not over when that code's call came   *)
(* in: it is not over even now.                                            *)
LEMMA StoredOrChangedKept ==
    ASSUME IInv, StoredOrChanged, CodesAreWritten, Advance, PastStays, AccountsStay,
           CodesHaveWriters, TypeOK'
    PROVE  StoredOrChanged'
<1> SUFFICES ASSUME NEW k \in touched', request'[k].op = "RequestOTP"
             PROVE  \E u \in DOMAIN users' :
                       /\ users'[u].email = EmailOf(k)'
                       /\ users'[u].otp = k \/ (\E d \in touched : ChangedSince(d, k))'
  BY DEF StoredOrChanged
<1> USE DEF IInv
<1>1. CASE k \in touched
  <2>1. k \in Calls /\ pc[k] \in {"mailing"} \cup Ends /\ pc[k] # "idle"
    BY <1>1 DEF CodesAreWritten, TypeOK, Ends
  <2>2. request'[k] = request[k] /\ EmailOf(k)' = EmailOf(k) /\ before'[k] = before[k]
    BY <2>1, CallsKeepTheirPast
  <2>3. PICK u \in DOMAIN users : /\ users[u].email = EmailOf(k)
                                  /\ users[u].otp = k \/ \E d \in touched : ChangedSince(d, k)
    BY <1>1, <2>2 DEF StoredOrChanged
  <2>4. u \in DOMAIN users' /\ users'[u].email = EmailOf(k)'
    BY <2>2, <2>3 DEF AccountsStay
  <2>5. CASE \E d \in touched : ChangedSince(d, k)
    BY <2>1, <2>4, <2>5, ChangesStay
  <2>6. CASE users'[u].otp = k
    BY <2>4, <2>6
  <2>7. CASE users[u].otp = k /\ users'[u].otp # k
    <3>1. PICK d \in touched' : pc[d] \in {"storing", "confirming"} /\ EmailOf(d) = users[u].email
      BY <2>7 DEF CodesHaveWriters
    <3>2. d \in Calls /\ pc[d] # "idle" /\ d # k /\ d \notin before[k]
      BY <2>1, <3>1 DEF TypeOK, StepsFitRequests, Ends
    <3>3. ChangedSince(d, k)'
      BY <2>2, <2>3, <3>1, <3>2, CallsKeepTheirPast DEF ChangedSince
    <3> QED BY <2>4, <3>1, <3>3
  <2> QED BY <2>3, <2>5, <2>6, <2>7
<1>2. CASE k \notin touched
  <2>1. k \in Calls /\ pc[k] # "idle"
    BY <1>2 DEF CodesHaveWriters, TypeOK
  <2>2. request'[k] = request[k] /\ EmailOf(k)' = EmailOf(k)
    BY <2>1, CallsKeepTheirPast
  <2> QED BY <1>2, <2>2 DEF CodesHaveWriters
<1> QED BY <1>1, <1>2

LEMMA ReadOrChangedKept ==
    ASSUME IInv, StoredOrChanged, ReadOrChanged, CodesAreWritten, Advance, PastStays, [Next]_vars
    PROVE  ReadOrChanged'
<1> SUFFICES ASSUME NEW c \in Calls, pc'[c] = "judging",
                    EmailOf(request[c].code)' = EmailOf(c)'
             PROVE  \/ seen'[c] = request'[c].code
                    \/ (\E d \in touched : ChangedSince(d, request[c].code))'
  BY DEF ReadOrChanged
<1> USE DEF IInv
<1> DEFINE k == request[c].code
<1>1. (pc[c] = "judging" /\ seen'[c] = seen[c]) \/ LookUpToVerify(c)
  BY SeenOrigin
<1>2. pc[c] # "idle" /\ request[c].op = "VerifyOTP"
  BY <1>1 DEF StepsFitRequests, LookUpToVerify
<1>3. k \in mailed /\ k \in Calls /\ k \in touched /\ request[k].op = "RequestOTP" /\ pc[k] # "idle"
  BY <1>2 DEF CodesAreWritten, TypeOK, Ends
<1>4. request'[c] = request[c] /\ EmailOf(c)' = EmailOf(c) /\ EmailOf(k)' = EmailOf(k)
  BY <1>2, <1>3, CallsKeepTheirPast
<1>5. EmailOf(k) = EmailOf(c)
  BY <1>4 DEF EmailOf
<1>6. ASSUME \E d \in touched : ChangedSince(d, k)
      PROVE  (\E d \in touched : ChangedSince(d, request[c].code))'
  <2>1. PICK d \in touched : ChangedSince(d, k)
    BY <1>6
  <2>2. d \in Calls /\ pc[d] # "idle" /\ d \in touched'
    BY TouchedAreIn DEF PastStays
  <2>3. EmailOf(d)' = EmailOf(d) /\ before'[k] = before[k]
    BY <1>3, <2>2, CallsKeepTheirPast
  <2> QED BY <1>4, <2>1, <2>2, <2>3 DEF ChangedSince, EmailOf
<1>7. CASE pc[c] = "judging" /\ seen'[c] = seen[c]
  BY <1>4, <1>5, <1>6, <1>7 DEF ReadOrChanged
<1>8. CASE LookUpToVerify(c)
  <2>1. PICK u \in DOMAIN users : /\ users[u].email = EmailOf(k)
                                  /\ users[u].otp = k \/ \E d \in touched : ChangedSince(d, k)
    BY <1>3 DEF StoredOrChanged
  <2>2. PICK v \in DOMAIN users : users[v].email = EmailOf(c) /\ seen'[c] = users[v].otp
    BY <1>2, <1>8 DEF LookUpToVerify, Step, RowsByEmail, TypeOK
  <2>3. u = v
    BY <1>5, <2>1, <2>2 DEF AccountsFound
  <2> QED BY <1>4, <1>6, <2>1, <2>2, <2>3
<1> QED BY <1>1, <1>7, <1>8

LEMMA BeginnersGoOn ==
    ASSUME TypeOK, [Next]_vars, NEW c \in Calls, pc[c] = "idle"
    PROVE  pc'[c] \notin Ends
<1> USE DEF TypeOK, Ends
<1>1. CASE Tick BY <1>1 DEF Tick
<1>2. ASSUME NEW d \in Calls, Begins(d) PROVE pc'[c] \notin Ends
  BY <1>2 DEF Begins, Begin, BeginsAt, Requests
<1>3. ASSUME NEW d \in Calls, Quiet(d) \/ LookUpToVerify(d) PROVE pc'[c] \notin Ends
  BY <1>3 DEF Quiet, StatementFails, InsertConflicts, Authenticate, RateLimited, LookUpToSend,
     GenerateOTP, MailCode, JudgeCode, LookUpOwner, LookUpToLink, LookUpToVerify, Step, Reads, Writes
<1>4. ASSUME NEW d \in Calls, Insert(d) \/ UpdateOTP(d) \/ VerifyEmail(d) \/ LinkOAuth(d)
      PROVE  pc'[c] \notin Ends
  BY <1>4 DEF Insert, UpdateOTP, VerifyEmail, LinkOAuth, Executed, Step
<1>5. CASE UNCHANGED vars BY <1>5 DEF vars
<1> QED BY NextCases, <1>1, <1>2, <1>3, <1>4, <1>5

LEMMA ClearedHasReasonKept ==
    ASSUME TypeOK, TypeOK', StepsFitRequests, ClearedHasReason, CodesAreWritten, Advance,
           PastStays, AccountsStay, CodesHaveWriters
    PROVE  ClearedHasReason'
<1> SUFFICES ASSUME NEW u \in DOMAIN users', users'[u].otp = Null
             PROVE  \E d \in touched' : /\ EmailOf(d)' = users'[u].email
                                        /\ request'[d].op \in {"VerifyOTP", "OAuth"}
  BY DEF ClearedHasReason
<1>1. u \in DOMAIN users /\ users'[u].email = users[u].email
  BY NoneAssumption DEF AccountsStay
<1>2. PICK d \in touched' : /\ d \in Calls /\ pc[d] # "idle"
                            /\ EmailOf(d) = users[u].email
                            /\ request[d].op \in {"VerifyOTP", "OAuth"}
  <2>1. CASE users[u].otp = Null
    <3>1. PICK d \in touched : /\ EmailOf(d) = users[u].email
                               /\ request[d].op \in {"VerifyOTP", "OAuth"}
      BY <1>1, <2>1 DEF ClearedHasReason
    <3> QED BY <3>1, TouchedAreIn DEF PastStays
  <2>2. CASE users[u].otp # Null
    BY <1>1, <2>2 DEF CodesHaveWriters, TypeOK
  <2> QED BY <2>1, <2>2
<1> QED BY <1>1, <1>2, CallsKeepTheirPast

(* A code that has its reason to be turned down, keeps it.                 *)
Reason(c, k) ==
    \/ EmailOf(k) # EmailOf(c)
    \/ now > expires[k]
    \/ \E d \in touched : ChangedSince(d, k)

LEMMA RefusedCodeHasReasonIs ==
    RefusedCodeHasReason <=>
        \A c \in Calls : TurnedDown(c, "VerifyOTP") => Reason(c, request[c].code)
BY DEF RefusedCodeHasReason, Reason, ChangedSince

LEMMA RefusedCodeKept ==
    ASSUME IInv, StoredOrChanged, ReadOrChanged, CodesAreWritten, RefusedCodeHasReason,
           Advance, PastStays, TypeOK', [Next]_vars
    PROVE  RefusedCodeHasReason'
<1> USE DEF IInv
<1> SUFFICES ASSUME NEW c \in Calls, TurnedDown(c, "VerifyOTP")'
             PROVE  Reason(c, request[c].code)'
  BY RefusedCodeHasReasonIs DEF RefusedCodeHasReason, Reason, ChangedSince
<1> DEFINE k == request[c].code
<1>0. /\ pc'[c] \in {"refused", "failed"} /\ c \notin erred' /\ request'[c].op = "VerifyOTP"
      /\ pc[c] # "idle"
  <2>1. pc'[c] \in {"refused", "failed"} /\ c \notin erred' /\ request'[c].op = "VerifyOTP"
    BY DEF TurnedDown, Ended
  <2>2. pc[c] # "idle"
    BY <2>1, BeginnersGoOn DEF Ends
  <2> QED BY <2>1, <2>2
<1>1. request'[c] = request[c] /\ EmailOf(c)' = EmailOf(c) /\ request[c].op = "VerifyOTP"
  BY <1>0, CallsKeepTheirPast
<1>2. k \in mailed /\ k \in Calls /\ k \in touched /\ request[k].op = "RequestOTP"
      /\ pc[k] \in Ends /\ pc[k] # "idle"
  BY <1>0, <1>1 DEF CodesAreWritten, TypeOK, Ends
<1>3. request'[k] = request[k] /\ EmailOf(k)' = EmailOf(k) /\ expires'[k] = expires[k]
  BY <1>1, <1>2, CallsKeepTheirPast DEF PastStays, EmailOf
<1>4. ASSUME Reason(c, k) PROVE Reason(c, request[c].code)'
  <2>1. CASE EmailOf(k) # EmailOf(c)
    BY <1>1, <1>3, <2>1 DEF Reason, EmailOf
  <2>2. CASE now > expires[k]
    <3>1. expires[k] \in Int
      BY <1>2 DEF TypeOK
    <3> QED BY <1>1, <1>3, <2>2, <3>1 DEF Reason, PastStays
  <2>3. CASE \E d \in touched : ChangedSince(d, k)
    <3>1. PICK d \in touched : ChangedSince(d, k)
      BY <2>3
    <3>2. d \in Calls /\ pc[d] # "idle" /\ d \in touched'
      BY TouchedAreIn DEF PastStays
    <3>3. EmailOf(d)' = EmailOf(d) /\ before'[k] = before[k]
      BY <1>2, <3>2, CallsKeepTheirPast
    <3> QED BY <1>1, <1>3, <3>1, <3>2, <3>3 DEF Reason, ChangedSince, EmailOf
  <2> QED BY <1>4, <2>1, <2>2, <2>3 DEF Reason
<1>5. CASE pc[c] \in {"refused", "failed"} /\ c \notin erred
  BY <1>1, <1>4, <1>5, RefusedCodeHasReasonIs DEF TurnedDown, Ended
<1>6. CASE LookUpToVerify(c)
  <2>1. PICK u \in DOMAIN users : /\ users[u].email = EmailOf(k)
                                  /\ users[u].otp = k \/ \E d \in touched : ChangedSince(d, k)
    BY <1>2 DEF StoredOrChanged
  <2>2. ASSUME EmailOf(k) = EmailOf(c) PROVE ~Readable(u)
    <3>1. RowsByEmail(EmailOf(c)) = {u}
      BY <2>1, <2>2 DEF RowsByEmail, AccountsFound
    <3> QED BY <1>0, <1>6, <3>1 DEF LookUpToVerify, Step, TypeOK
  <2>3. ASSUME ~Readable(u) PROVE users[u].otp # k
    BY <1>2, <2>3, NoneAssumption DEF Readable
  <2> QED BY <1>4, <2>1, <2>2, <2>3 DEF Reason
<1>7. CASE JudgeCode(c)
  <2>1. pc[c] = "judging" /\ ~Accepts(c)
    BY <1>0, <1>7 DEF JudgeCode, Step, TypeOK
  <2>2. CASE seen[c] = k
    BY <1>1, <1>2, <1>4, <2>1, <2>2, NoneAssumption DEF Accepts, Expired, Reason
  <2>3. CASE seen[c] # k
    BY <1>4, <2>1, <2>3 DEF ReadOrChanged, Reason
  <2> QED BY <2>2, <2>3
<1> QED BY <1>0, <1>1, <1>5, <1>6, <1>7, TurningPoints

(* The accounts a login ought to reach were there, under their passwords,  *)
(* when it came in: there are no more of them later.                       *)
LEMMA AccountsForAreFixed ==
    ASSUME IInv, Advance, AccountsStay, NEW c \in Calls, pc[c] # "idle"
    PROVE  AccountsFor(c)' \subseteq AccountsFor(c)
<1> USE DEF IInv
<1>1. request'[c] = request[c] /\ before'[c] = before[c] /\ EmailOf(c)' = EmailOf(c)
  BY CallsKeepTheirPast
<1>2. ASSUME NEW u \in DOMAIN users', u \in before[c] PROVE u \in DOMAIN users
  BY <1>2 DEF AccountsStay, StepsFitRequests, Ends
<1> QED BY <1>1, <1>2 DEF AccountsFor, RowsByEmail, AccountsStay

LEMMA RefusedLoginKept ==
    ASSUME IInv, ClearedHasReason, CodesAreWritten, RefusedLoginHasReason,
           Advance, PastStays, AccountsStay, [Next]_vars
    PROVE  RefusedLoginHasReason'
<1> USE DEF IInv
<1> SUFFICES ASSUME NEW c \in Calls, TurnedDown(c, "Login")', AccountsFor(c)' # {}
             PROVE  \E d \in touched' : /\ EmailOf(d)' = EmailOf(c)'
                                        /\ request'[d].op \in {"VerifyOTP", "OAuth"}
  BY DEF RefusedLoginHasReason
<1>1. /\ pc'[c] \in {"refused", "failed"} /\ c \notin erred' /\ request'[c].op = "Login"
      /\ pc[c] # "idle"
  BY BeginnersGoOn DEF TurnedDown, Ended, Ends
<1>2. request'[c] = request[c] /\ EmailOf(c)' = EmailOf(c)
  BY <1>1, CallsKeepTheirPast
<1>3. AccountsFor(c) # {}
  BY <1>1, AccountsForAreFixed
<1>4. \E d \in touched : EmailOf(d) = EmailOf(c) /\ request[d].op \in {"VerifyOTP", "OAuth"}
  <2>1. CASE pc[c] \in {"refused", "failed"} /\ c \notin erred
    BY <1>1, <1>2, <1>3, <2>1 DEF RefusedLoginHasReason, TurnedDown, Ended
  <2>2. CASE Authenticate(c)
    <3>1. PICK u \in DOMAIN users : /\ users[u].email = EmailOf(c)
                                    /\ users[u].password = request[c].password
      BY <1>3 DEF AccountsFor, RowsByEmail
    <3>2. RowsByEmail(EmailOf(c)) = {u}
      BY <3>1 DEF RowsByEmail, AccountsFound
    <3>3. ~Readable(u)
      BY <1>1, <2>2, <3>1, <3>2 DEF Authenticate, Authentic, Step, TypeOK
    <3> QED BY <3>1, <3>3 DEF Readable, ClearedHasReason
  <2> QED BY <1>1, <1>2, <2>1, <2>2, TurningPoints
<1>5. PICK d \in touched : EmailOf(d) = EmailOf(c) /\ request[d].op \in {"VerifyOTP", "OAuth"}
  BY <1>4
<1>6. d \in Calls /\ pc[d] # "idle" /\ d \in touched'
  BY TouchedAreIn DEF PastStays
<1> QED BY <1>2, <1>5, <1>6, CallsKeepTheirPast

LEMMA LoginsStay ==
    ASSUME Advance, NEW c \in Calls, NEW a, LogsIn(c, a)
    PROVE  LogsIn(c, a)' /\ before'[c] = before[c] /\ EmailOf(c)' = EmailOf(c)
BY CallsKeepTheirPast DEF LogsIn

(* A search that has found no account with its identity sees those that    *)
(* get it come from logins that are still going on.                        *)
LEMMA FoundIsOverlapKept ==
    ASSUME IInv, FoundIsOverlap, Advance, AccountsStay, IdentitiesHaveWriters, [Next]_vars
    PROVE  FoundIsOverlap'
<1> USE DEF IInv
<1> SUFFICES ASSUME NEW d \in Calls, NEW u \in DOMAIN users', Searching(d)',
                    users'[u].auth = request'[d].auth
             PROVE  \E c \in Calls :
                       /\ pc'[c] # "idle" /\ request'[c].op = "OAuth"
                       /\ request'[c].auth = users'[u].auth
                       /\ EmailOf(c)' = users'[u].email /\ c \notin before'[d]
  BY DEF FoundIsOverlap, LogsIn
<1> DEFINE a == request[d].auth
<1>1. pc[d] # "idle" /\ request[d].op = "OAuth" /\ request'[d] = request[d] /\ before'[d] = before[d]
  <2>1. pc[d] # "idle"
    BY TurningPoints DEF Searching, LookUpOwner
  <2>2. request'[d] = request[d] /\ before'[d] = before[d]
    BY <2>1, CallsKeepTheirPast
  <2> QED BY <2>1, <2>2 DEF Searching
<1>2. users'[u].auth = a /\ a \in Identities /\ a # NoIdentity
  <2>1. request[d] \in Requests
    BY <1>1 DEF StepsFitRequests
  <2> QED BY <1>1, <2>1, RequestFields, NoneAssumption
<1>3. \E c \in Calls : LogsIn(c, a) /\ EmailOf(c) = users'[u].email /\ c \notin before[d]
  <2>1. CASE u \in DOMAIN users /\ users'[u].auth = users[u].auth
    <3>1. Searching(d)
      BY <1>2, <2>1, TurningPoints DEF Owners, RowsByAuth
    <3>2. PICK c \in Calls : LogsIn(c, a) /\ EmailOf(c) = users[u].email /\ c \notin before[d]
      BY <1>2, <2>1, <3>1 DEF FoundIsOverlap
    <3> QED BY <2>1, <3>2 DEF AccountsStay
  <2>2. ASSUME NEW c \in Calls, Searching(c), users'[u].auth = request[c].auth,
               users'[u].email = EmailOf(c)
        PROVE  LogsIn(c, a) /\ c \notin before[d]
    <3>1. LogsIn(c, a)
      BY <1>2, <2>2 DEF Searching, LogsIn
    <3> QED BY <2>2, <3>1 DEF Searching, StepsFitRequests, Ends
  <2> QED BY <1>2, <2>1, <2>2 DEF IdentitiesHaveWriters, KeepsIdentity
<1>4. PICK c \in Calls : LogsIn(c, a) /\ EmailOf(c) = users'[u].email /\ c \notin before[d]
  BY <1>3
<1>5. pc'[c] # "idle" /\ request'[c] = request[c] /\ EmailOf(c)' = EmailOf(c)
  BY <1>4, CallsKeepTheirPast DEF LogsIn
<1> QED BY <1>1, <1>2, <1>4, <1>5 DEF LogsIn

LEMMA SharedIsOverlapKept ==
    ASSUME IInv, TypeOK', AccountsFound', FoundIsOverlap, SharedIsOverlap, Advance, AccountsStay,
           IdentitiesHaveWriters, [Next]_vars
    PROVE  SharedIsOverlap'
<1> USE DEF IInv
<1> DEFINE Shown(a) == \E c, d \in Calls : Overlap(c, d) /\ LogsIn(c, a) /\ LogsIn(d, a)
<1>1. ASSUME NEW a, Shown(a) PROVE Shown(a)'
  <2>1. PICK c \in Calls, d \in Calls : Overlap(c, d) /\ LogsIn(c, a) /\ LogsIn(d, a)
    BY <1>1
  <2>2. LogsIn(c, a)' /\ LogsIn(d, a)' /\ before'[c] = before[c] /\ before'[d] = before[d]
    BY <2>1, LoginsStay
  <2> QED BY <2>1, <2>2 DEF Overlap
<1>2. ASSUME NEW v \in DOMAIN users, NEW d \in Calls, Searching(d),
             users[v].auth = request[d].auth, users[v].email # EmailOf(d)
      PROVE  Shown(users[v].auth)
  <2>1. PICK c \in Calls : /\ LogsIn(c, users[v].auth) /\ EmailOf(c) = users[v].email
                           /\ c \notin before[d]
    BY <1>2 DEF FoundIsOverlap
  <2>2. d \notin before[c]
    BY <1>2 DEF Searching, StepsFitRequests, Ends
  <2>3. LogsIn(d, users[v].auth)
    BY <1>2 DEF Searching, LogsIn
  <2> QED BY <1>2, <2>1, <2>2, <2>3 DEF Overlap
<1>3. ASSUME NEW u \in DOMAIN users', NEW v \in DOMAIN users', u # v,
             users'[u].auth = users'[v].auth, users'[u].auth # NoIdentity,
             KeepsIdentity(v)
      PROVE  Shown(users'[u].auth)
  <2>1. CASE KeepsIdentity(u)
    BY <1>3, <2>1 DEF SharedIsOverlap, KeepsIdentity
  <2>2. ASSUME NEW d \in Calls, Searching(d), users'[u].auth = request[d].auth,
               users'[u].email = EmailOf(d)
        PROVE  Shown(users'[u].auth)
    <3>1. users'[u].email # users'[v].email /\ users'[v].email = users[v].email
      BY <1>3 DEF AccountsFound, AccountsStay, KeepsIdentity
    <3> QED BY <1>2, <1>3, <2>2, <3>1 DEF KeepsIdentity
  <2> QED BY <1>3, <2>1, <2>2 DEF IdentitiesHaveWriters
<1>4. ASSUME NEW u \in DOMAIN users', NEW v \in DOMAIN users', u # v,
             users'[u].auth = users'[v].auth, users'[u].auth # NoIdentity
      PROVE  Shown(users'[u].auth)
  BY <1>3, <1>4 DEF IdentitiesHaveWriters
<1>5. ASSUME NEW u \in DOMAIN users', NEW v \in DOMAIN users', u # v,
             users'[u].auth = users'[v].auth, users'[u].auth # NoIdentity
      PROVE  \E c, d \in Calls :
                /\ Overlap(c, d)'
                /\ pc'[c] # "idle" /\ request'[c].op = "OAuth" /\ request'[c].auth = users'[u].auth
                /\ pc'[d] # "idle" /\ request'[d].op = "OAuth" /\ request'[d].auth = users'[u].auth
  BY <1>1, <1>4, <1>5 DEF LogsIn
<1> QED BY <1>5 DEF SharedIsOverlap, LogsIn

-----------------------------------------------------------------------------

LEMMA ReasonsInit == Init => ReasonInv
<1> SUFFICES ASSUME Init PROVE ReasonInv
  OBVIOUS
<1>1. IInv
  BY InitHolds
<1> USE DEF Init, Ends
<1>2. CodesAreWritten /\ StoredOrChanged /\ ReadOrChanged /\ ClearedHasReason
  BY DEF CodesAreWritten, StoredOrChanged, ReadOrChanged, ClearedHasReason
<1>3. RefusedCodeHasReason /\ RefusedLoginHasReason
  BY DEF RefusedCodeHasReason, RefusedLoginHasReason, TurnedDown, Ended
<1>4. FoundIsOverlap /\ SharedIsOverlap
  BY DEF FoundIsOverlap, SharedIsOverlap
<1> QED BY <1>1, <1>2, <1>3, <1>4 DEF ReasonInv

LEMMA ReasonsKept == ReasonInv /\ [Next]_vars => ReasonInv'
<1> SUFFICES ASSUME ReasonInv, [Next]_vars PROVE ReasonInv'
  OBVIOUS
<1> USE DEF ReasonInv
<1>1. IInv' /\ TypeOK' /\ AccountsFound' /\ TypeOK /\ StepsFitRequests /\ AccountsFound
  BY StepKeepsInvariant DEF IInv
<1>2. Advance /\ PastStays /\ AccountsStay /\ CodesHaveWriters /\ IdentitiesHaveWriters
  BY <1>1, CallsAdvance, PastIsKept, WritersHaveReason
<1>3. CodesAreWritten'
  BY <1>1, <1>2, CodesAreWrittenKept
<1>4. StoredOrChanged' /\ ReadOrChanged' /\ ClearedHasReason'
  BY <1>1, <1>2, StoredOrChangedKept, ReadOrChangedKept, ClearedHasReasonKept
<1>5. RefusedCodeHasReason' /\ RefusedLoginHasReason'
  BY <1>1, <1>2, RefusedCodeKept, RefusedLoginKept
<1>6. FoundIsOverlap' /\ SharedIsOverlap'
  BY <1>1, <1>2, FoundIsOverlapKept, SharedIsOverlapKept
<1> QED BY <1>1, <1>3, <1>4, <1>5, <1>6

(* Between a call and the change that turns it down there is always a step *)
(* of another call that was not over when the first one came in.           *)
THEOREM ReasonsHold == Spec => []ReasonInv
BY ReasonsInit, ReasonsKept, PTL DEF Spec

(* A mailed code is turned down only for its address, its expiry, or a     *)
(* call that has changed the account's code since it was asked for.        *)
THEOREM RefusedCodesHaveReason == Spec => []RefusedCodeHasReason
<1>1. ReasonInv => RefusedCodeHasReason
  BY DEF ReasonInv
<1> QED BY <1>1, ReasonsHold, PTL

(* A login with the right password is turned down only on an account that  *)
(* a verification or a link has touched.                                   *)
THEOREM RefusedLoginsHaveReason == Spec => []RefusedLoginHasReason
<1>1. ReasonInv => RefusedLoginHasReason
  BY DEF ReasonInv
<1> QED BY <1>1, ReasonsHold, PTL

(* Two accounts share an identity only if two logins with it overlapped.   *)
THEOREM SharedOnlyByOverlap == Spec => []SharedIdentityOnlyByOverlap
<1>1. ReasonInv => SharedIdentityOnlyByOverlap
  <2>1. SharedIsOverlap => SharedIdentityOnlyByOverlap
    BY DEF SharedIsOverlap, SharedIdentityOnlyByOverlap, Overlap, LogsIn
  <2> QED BY <2>1 DEF ReasonInv
<1> QED BY <1>1, ReasonsHold, PTL
=============================================================================
