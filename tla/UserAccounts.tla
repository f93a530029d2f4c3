---------------------------- MODULE UserAccounts ----------------------------
(***************************************************************************)
(* The accounts: POST /users, /auth/otp/request, /auth/otp/verify,         *)
(* /auth/oauth and /auth/login over the table users.  Requests run         *)
(* concurrently, each statement on its own connection and in no            *)
(* transaction: a statement is one step.  Any statement may fail, with or  *)
(* without having taken effect; a request that is lost with the process,   *)
(* or given up by its client, leaves the table as such a failure does.     *)
(*                                                                         *)
(* A row is named after the call that inserted it, and a code after the    *)
(* call that generated it: two random codes are taken to differ.  The      *)
(* column otp_expires_at is always written together with the hash, so it   *)
(* is the expiry of the code the row holds.  Otp is Blank where the row    *)
(* was inserted without a code and Null where VerifyEmail has cleared it.  *)
(* The limiter may deny any request for a code (see OTPRateLimiter).       *)
(***************************************************************************)
EXTENDS Integers, FiniteSets

CONSTANTS
    Calls,       \* the requests, and the rows and the codes they make
    Emails,      \* the normalized e-mail addresses
    Identities,  \* pairs of an OAuth provider and a subject
    Passwords,
    NoIdentity, NoPassword, NoUser, Blank, Null,
    OtpTTL,      \* the life of a code, in ticks (10 minutes)
    MaxTime,     \* bound on the clock
    MaxFailures  \* bound on the statements that fail

ASSUME NoneAssumption ==
    /\ NoIdentity \notin Identities /\ NoPassword \notin Passwords
    /\ {NoUser, Blank, Null} \cap Calls = {} /\ Blank # Null
ASSUME TimeAssumption   == OtpTTL \in Nat
ASSUME BoundsAssumption == MaxTime \in Nat /\ MaxFailures \in Nat

VARIABLES
    now,      \* the clock
    users,    \* the table, a function on the rows there are
    request,  \* what each call asks for
    pc,       \* where it stands
    user,     \* the row it is about
    seen,     \* the code that VerifyOTP read in it
    expires,  \* the expiry of the code that RequestOTP generated
    mailed,   \* the codes that reached their address
    erred,    \* history: the calls a statement of which failed
    touched,  \* history: the calls that have changed the code of an account
    before    \* history: for each call, those that were over when it came in

local   == <<request, user, seen, expires>>
history == <<erred, touched, before>>
vars    == <<now, users, pc, local, mailed, history>>

Otps == Calls \cup {Blank, Null}
Rows == [email : Emails, auth : Identities \cup {NoIdentity},
         password : Passwords \cup {NoPassword}, verified : BOOLEAN, otp : Otps]

Requests ==
    [op : {"CreateUser"}, email : Emails, password : Passwords \cup {NoPassword}]
    \cup [op : {"RequestOTP"}, email : Emails]
    \cup [op : {"VerifyOTP"}, email : Emails, code : Calls]
    \cup [op : {"OAuth"}, email : Emails, auth : Identities]
    \cup [op : {"Login"}, email : Emails, password : Passwords]
NoRequest == [op |-> "none"]

Reads  == {"requesting", "verifying", "oauth", "oauthByEmail", "loggingIn"}
Writes == {"inserting", "storing", "linking", "confirming"}
Ends   == {"done", "refused", "failed"}

TypeOK ==
    /\ now \in Nat
    /\ DOMAIN users \subseteq Calls
    /\ \A u \in DOMAIN users : users[u] \in Rows
    /\ request \in [Calls -> Requests \cup {NoRequest}]
    /\ pc \in [Calls -> {"idle", "generating", "mailing", "judging"}
                          \cup Reads \cup Writes \cup Ends]
    /\ user \in [Calls -> Calls \cup {NoUser}]
    /\ seen \in [Calls -> Otps]
    /\ expires \in [Calls -> Nat]
    /\ mailed \subseteq Calls /\ erred \subseteq Calls /\ touched \subseteq Calls
    /\ before \in [Calls -> SUBSET Calls]

Init ==
    /\ now = 0
    /\ users = << >>
    /\ request = [c \in Calls |-> NoRequest]
    /\ pc = [c \in Calls |-> "idle"]
    /\ user = [c \in Calls |-> NoUser]
    /\ seen = [c \in Calls |-> Blank]
    /\ expires = [c \in Calls |-> 0]
    /\ mailed = {} /\ erred = {} /\ touched = {}
    /\ before = [c \in Calls |-> {}]

EmailOf(c) == request[c].email

-----------------------------------------------------------------------------
(* The statements. *)

(* GetByEmail and GetByAuth; nothing makes an identity unique. *)
RowsByEmail(e) == {u \in DOMAIN users : users[u].email = e}
RowsByAuth(a)  == {u \in DOMAIN users : users[u].auth = a}

(* Mutant of Owners: the address must match as well. *)
OwnersOfAddress(c) ==
    RowsByAuth(request[c].auth) \cap RowsByEmail(EmailOf(c))

Owners(c) == RowsByAuth(request[c].auth)

(* A row whose hash is NULL cannot be scanned into domain.User. *)
Readable(u) == users[u].otp # Null

(* Mutant of RowOf: an account made by OAuth is given no address. *)
RowWithoutAddress(c) ==
    [email    |-> IF request[c].op = "OAuth" THEN Blank ELSE EmailOf(c),
     auth     |-> IF request[c].op = "OAuth" THEN request[c].auth ELSE NoIdentity,
     password |-> IF request[c].op = "CreateUser" THEN request[c].password ELSE NoPassword,
     verified |-> request[c].op = "OAuth",
     otp      |-> Blank]

(* What CreateUser, RequestOTP and OAuth insert. *)
RowOf(c) ==
    [email    |-> EmailOf(c),
     auth     |-> IF request[c].op = "OAuth" THEN request[c].auth ELSE NoIdentity,
     password |-> IF request[c].op = "CreateUser" THEN request[c].password ELSE NoPassword,
     verified |-> request[c].op = "OAuth",
     otp      |-> Blank]

(* Mutant of Confirmed: the code stays. *)
ConfirmedKeepingCode(row) == [row EXCEPT !.verified = TRUE]

(* VerifyEmail. *)
Confirmed(row) == [row EXCEPT !.verified = TRUE, !.otp = Null]

-----------------------------------------------------------------------------
Begin(c, r, at) ==
    /\ pc[c] = "idle"
    /\ request' = [request EXCEPT ![c] = r]
    /\ pc' = [pc EXCEPT ![c] = at]
    /\ before' = [before EXCEPT ![c] = {d \in Calls : pc[d] \in Ends}]
    /\ UNCHANGED <<now, users, user, seen, expires, mailed, erred, touched>>

Step(c, from, to) == pc[c] = from /\ pc' = [pc EXCEPT ![c] = to]

Errs(c) == Cardinality(erred) < MaxFailures /\ erred' = erred \cup {c}

(* A statement has taken effect: its caller goes on, or is told it failed. *)
Executed(c, from, to) ==
    \/ Step(c, from, to) /\ UNCHANGED erred
    \/ Step(c, from, "failed") /\ Errs(c)

(* Any statement fails without effect, which ends its request with a 500. *)
StatementFails(c) ==
    /\ pc[c] \in Reads \cup Writes
    /\ pc' = [pc EXCEPT ![c] = "failed"]
    /\ Errs(c)
    /\ UNCHANGED <<now, users, local, mailed, touched, before>>

(* The insert of CreateUser, RequestOTP and OAuth; the address is UNIQUE. *)
Insert(c) ==
    /\ pc[c] = "inserting"
    /\ RowsByEmail(EmailOf(c)) = {}
    /\ Executed(c, "inserting", IF request[c].op = "RequestOTP"
                                THEN "generating" ELSE "done")
    /\ users' = [u \in DOMAIN users \cup {c} |-> IF u = c THEN RowOf(c) ELSE users[u]]
    /\ user' = [user EXCEPT ![c] = c]
    /\ UNCHANGED <<now, request, seen, expires, mailed, touched, before>>

InsertConflicts(c) ==
    /\ pc[c] = "inserting"
    /\ RowsByEmail(EmailOf(c)) # {}
    /\ Step(c, "inserting", "failed")
    /\ UNCHANGED <<now, users, local, mailed, history>>

-----------------------------------------------------------------------------
(* POST /users *)
CreateUser(c) ==
    \E r \in Requests : r.op = "CreateUser" /\ Begin(c, r, "inserting")

-----------------------------------------------------------------------------
(* POST /auth/login *)
LogIn(c) ==
    \E r \in Requests : r.op = "Login" /\ Begin(c, r, "loggingIn")

(* Mutant of Authentic: only a verified account may log in. *)
AuthenticIfVerified(c, u) ==
    users[u].password = request[c].password /\ users[u].verified

Authentic(c, u) == users[u].password = request[c].password

(* GetByEmail of Authenticate, and the comparison with what it returned. *)
Authenticate(c) ==
    /\ pc[c] = "loggingIn"
    /\ \/ RowsByEmail(EmailOf(c)) = {} /\ Step(c, "loggingIn", "refused")
       \/ \E u \in RowsByEmail(EmailOf(c)) :
            \/ ~Readable(u) /\ Step(c, "loggingIn", "failed")
            \/ Readable(u) /\ Authentic(c, u) /\ Step(c, "loggingIn", "done")
            \/ Readable(u) /\ ~Authentic(c, u) /\ Step(c, "loggingIn", "refused")
    /\ UNCHANGED <<now, users, local, mailed, history>>

-----------------------------------------------------------------------------
(* POST /auth/otp/request *)
AskForCode(c) ==
    \E r \in Requests : r.op = "RequestOTP" /\ Begin(c, r, "requesting")

RateLimited(c) ==
    /\ request[c].op = "RequestOTP"
    /\ Step(c, "requesting", "refused")
    /\ UNCHANGED <<now, users, local, mailed, history>>

LookUpToSend(c) ==
    /\ pc[c] = "requesting"
    /\ \/ /\ RowsByEmail(EmailOf(c)) = {}
          /\ Step(c, "requesting", "inserting")
          /\ UNCHANGED user
       \/ \E u \in RowsByEmail(EmailOf(c)) :
            \/ /\ ~Readable(u)
               /\ Step(c, "requesting", "failed")
               /\ UNCHANGED user
            \/ /\ Readable(u)
               /\ Step(c, "requesting", "generating")
               /\ user' = [user EXCEPT ![c] = u]
    /\ UNCHANGED <<now, users, request, seen, expires, mailed, history>>

GenerateOTP(c) ==
    /\ Step(c, "generating", "storing")
    /\ expires' = [expires EXCEPT ![c] = now + OtpTTL]
    /\ UNCHANGED <<now, users, request, user, seen, mailed, history>>

UpdateOTP(c) ==
    /\ Executed(c, "storing", "mailing")
    /\ users' = [users EXCEPT ![user[c]].otp = c]
    /\ touched' = touched \cup {c}
    /\ UNCHANGED <<now, local, mailed, before>>

(* The mail may arrive although the sender reports an error. *)
MailCode(c) ==
    /\ \/ Step(c, "mailing", "done") /\ mailed' = mailed \cup {c}
       \/ Step(c, "mailing", "failed") /\ mailed' \in {mailed, mailed \cup {c}}
    /\ UNCHANGED <<now, users, local, history>>

-----------------------------------------------------------------------------
(* POST /auth/otp/verify: a client knows the codes that were mailed. *)
SubmitCode(c) ==
    \E r \in Requests :
        r.op = "VerifyOTP" /\ r.code \in mailed /\ Begin(c, r, "verifying")

LookUpToVerify(c) ==
    /\ pc[c] = "verifying"
    /\ \/ /\ RowsByEmail(EmailOf(c)) = {}
          /\ Step(c, "verifying", "refused")
          /\ UNCHANGED <<user, seen>>
       \/ \E u \in RowsByEmail(EmailOf(c)) :
            \/ /\ ~Readable(u)
               /\ Step(c, "verifying", "failed")
               /\ UNCHANGED <<user, seen>>
            \/ /\ Readable(u)
               /\ Step(c, "verifying", "judging")
               /\ user' = [user EXCEPT ![c] = u]
               /\ seen' = [seen EXCEPT ![c] = users[u].otp]
    /\ UNCHANGED <<now, users, request, expires, mailed, history>>

(* Mutant of Expired: at the instant of the expiry already. *)
ExpiredAtOnce(code) == now >= expires[code]

Expired(code) == now > expires[code]

(* The three checks of VerifyOTP on what it has read. *)
Accepts(c) == seen[c] # Blank /\ ~Expired(seen[c]) /\ seen[c] = request[c].code

JudgeCode(c) ==
    /\ Step(c, "judging", IF Accepts(c) THEN "confirming" ELSE "refused")
    /\ UNCHANGED <<now, users, local, mailed, history>>

(* VerifyEmail, the last statement of VerifyOTP and of a linking OAuth: it *)
(* does not look at the row again.                                         *)
VerifyEmail(c) ==
    /\ Executed(c, "confirming", "done")
    /\ users' = [users EXCEPT ![user[c]] = Confirmed(@)]
    /\ touched' = touched \cup {c}
    /\ UNCHANGED <<now, local, mailed, before>>

-----------------------------------------------------------------------------
(* POST /auth/oauth; the handler refuses an empty address. *)
OAuthLogin(c) ==
    \E r \in Requests : r.op = "OAuth" /\ Begin(c, r, "oauth")

LookUpOwner(c) ==
    /\ pc[c] = "oauth"
    /\ \/ Owners(c) = {} /\ Step(c, "oauth", "oauthByEmail") /\ UNCHANGED user
       \/ \E u \in Owners(c) :
            \/ /\ ~Readable(u)
               /\ Step(c, "oauth", "failed")
               /\ UNCHANGED user
            \/ /\ Readable(u)
               /\ Step(c, "oauth", "done")
               /\ user' = [user EXCEPT ![c] = u]
    /\ UNCHANGED <<now, users, request, seen, expires, mailed, history>>

LookUpToLink(c) ==
    /\ pc[c] = "oauthByEmail"
    /\ \/ /\ RowsByEmail(EmailOf(c)) = {}
          /\ Step(c, "oauthByEmail", "inserting")
          /\ UNCHANGED user
       \/ \E u \in RowsByEmail(EmailOf(c)) :
            \/ /\ ~Readable(u)
               /\ Step(c, "oauthByEmail", "failed")
               /\ UNCHANGED user
            \/ /\ Readable(u)
               /\ Step(c, "oauthByEmail", "linking")
               /\ user' = [user EXCEPT ![c] = u]
    /\ UNCHANGED <<now, users, request, seen, expires, mailed, history>>

LinkOAuth(c) ==
    /\ Executed(c, "linking", "confirming")
    /\ users' = [users EXCEPT ![user[c]].auth = request[c].auth]
    /\ UNCHANGED <<now, local, mailed, touched, before>>

-----------------------------------------------------------------------------
Tick ==
    /\ now < MaxTime
    /\ now' = now + 1
    /\ UNCHANGED <<users, pc, local, mailed, history>>

Next ==
    \/ Tick
    \/ \E c \in Calls :
         \/ CreateUser(c) \/ LogIn(c) \/ AskForCode(c) \/ SubmitCode(c) \/ OAuthLogin(c)
         \/ StatementFails(c) \/ Insert(c) \/ InsertConflicts(c)
         \/ Authenticate(c)
         \/ RateLimited(c) \/ LookUpToSend(c) \/ GenerateOTP(c) \/ UpdateOTP(c) \/ MailCode(c)
         \/ LookUpToVerify(c) \/ JudgeCode(c) \/ VerifyEmail(c)
         \/ LookUpOwner(c) \/ LookUpToLink(c) \/ LinkOAuth(c)

Spec == Init /\ [][Next]_vars

-----------------------------------------------------------------------------
Ended(c, op, ends) == request[c].op = op /\ pc[c] \in ends

(* A request that no failing statement, but the program, turned down. *)
TurnedDown(c, op) == Ended(c, op, {"refused", "failed"}) /\ c \notin erred

(* An accepted code is one sent to that address, that was not yet spent by *)
(* a verification, nor replaced by a later request for a code, when the    *)
(* call came in.                                                           *)
AcceptedCodeIsCurrent ==
    \A c \in Calls : Ended(c, "VerifyOTP", {"done"}) =>
        LET code == request[c].code IN
        /\ EmailOf(code) = EmailOf(c)
        /\ \A d \in before[c] :
             /\ ~(Ended(d, "VerifyOTP", {"done"}) /\ request[d].code = code)
             /\ ~(Ended(d, "RequestOTP", {"done"}) /\ EmailOf(d) = EmailOf(c)
                  /\ code \in before[d])

(* A code that was mailed is turned down only when it belongs to another   *)
(* address, has expired, or when another request has changed the code of   *)
(* that account since (not before) the call for this code came in.         *)
RefusedCodeHasReason ==
    \A c \in Calls : TurnedDown(c, "VerifyOTP") =>
        LET code == request[c].code IN
        \/ EmailOf(code) # EmailOf(c)
        \/ now > expires[code]
        \/ \E d \in touched \ {code} :
             EmailOf(d) = EmailOf(c) /\ d \notin before[code]

(* Two accounts share an OAuth identity only when two logins with it       *)
(* overlapped: the lookups of neither could see the other.                 *)
SharedIdentityOnlyByOverlap ==
    \A u, v \in DOMAIN users :
        u # v /\ users[u].auth = users[v].auth /\ users[u].auth # NoIdentity =>
            \E c, d \in Calls :
                /\ c # d /\ c \notin before[d] /\ d \notin before[c]
                /\ \A x \in {c, d} :
                     request[x].op = "OAuth" /\ request[x].auth = users[u].auth

(* The account that a login with its password ought to reach: it was there *)
(* when the login came in.                                                 *)
AccountsFor(c) ==
    {u \in RowsByEmail(EmailOf(c)) \cap before[c] :
        users[u].password = request[c].password}

(* A login with the right password is turned down only on an account whose *)
(* code has been changed by a verification or an OAuth link, or was about  *)
(* to be.                                                                  *)
RefusedLoginHasReason ==
    \A c \in Calls : TurnedDown(c, "Login") /\ AccountsFor(c) # {} =>
        \E d \in touched :
            EmailOf(d) = EmailOf(c) /\ request[d].op \in {"VerifyOTP", "OAuth"}

(* A login with the right password succeeds, whatever has been done with   *)
(* the account before: what Authenticate is tested for, on a row that no   *)
(* verification has touched.                                               *)
RightPasswordLogsIn ==
    \A c \in Calls : TurnedDown(c, "Login") => AccountsFor(c) = {}
=============================================================================
