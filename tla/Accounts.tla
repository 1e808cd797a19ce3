------------------------------ MODULE Accounts ------------------------------
(***************************************************************************)
(* auth.service.ts and user.service.ts: accounts, their refresh tokens,    *)
(* and the codes that confirm an address or a phone number or reset a      *)
(* password.  Each of Worker runs one request at a time, one commit per    *)
(* step; a commit may fail and the process may stop between any two.       *)
(*                                                                         *)
(* The rate limits, the access tokens, the expiry of refresh tokens and    *)
(* refresh itself (it only reads) are left out, and so is PATCH users/:id, *)
(* which writes the columns it is given.                                   *)
(***************************************************************************)
EXTENDS Naturals, FiniteSets, Sequences

CONSTANTS
    User, Admin,            \* usernames; the one bootstrap provides for
    Email, AdminEmail,      \* addresses; the administrator's, if configured
    Phone,
    Password, AdminPassword,
    Worker,
    None,                   \* no address, no number, no request
    MaxCalls                \* bound: requests

VARIABLES
    account,        \* the row of each user, None without one
    wallet,         \* users with a wallet row
    sessions,       \* per user, the password each refresh token was opened under
    mailed,         \* <<kind, address>> of codes mailed and not expired
    otp,            \* numbers with an OTP row unused and not expired
    request,        \* of each worker: op, user, commits left, argument
    up,             \* bootstrap is done and requests are accepted
    calls,
    \* History.
    proven,         \* addresses and numbers whose code came back
    loose,          \* accounts with overlapping or broken off requests
    crossed         \* accounts flagged for a number they no longer had

accountsVars == <<account, wallet, sessions, mailed, otp, request, up, calls,
                  proven, loose, crossed>>

Exists(u) == account[u] # None
Running(w) == request[w] # None
Runs(w, step) == Running(w) /\ Head(request[w].todo) = step
On(u) == {w \in Worker : Running(w) /\ request[w].user = u}

NewAccount(p) ==
    [email |-> None, emailOk |-> FALSE, phone |-> None, phoneOk |-> FALSE, password |-> p]

AccountRow ==
    [email: Email \cup {None}, emailOk: BOOLEAN, phone: Phone \cup {None}, phoneOk: BOOLEAN,
     password: Password]

TypeOK ==
    /\ \A u \in User : Exists(u) => account[u] \in AccountRow
    /\ wallet \subseteq User
    /\ \A u \in User : sessions[u] \in Seq(Password) /\ (~Exists(u) => sessions[u] = <<>>)
    /\ mailed \subseteq {"verify", "reset"} \X Email
    /\ otp \subseteq Phone
    /\ \A w \in Worker : Running(w) => request[w].user \in User \cup {None}
    /\ calls \in 0 .. MaxCalls
    /\ proven \subseteq Email \cup Phone /\ loose \subseteq User /\ crossed \subseteq User

Init ==
    /\ account = [u \in User |-> None]
    /\ wallet = {}
    /\ sessions = [u \in User |-> <<>>]
    /\ mailed = {} /\ otp = {}
    /\ request = [w \in Worker |-> None]
    /\ up = FALSE /\ calls = 0
    /\ proven = {AdminEmail} /\ loose = {} /\ crossed = {}

history == <<proven, loose, crossed>>
codes == <<mailed, otp>>

-----------------------------------------------------------------------------
\* Requests.

Call == up /\ calls < MaxCalls /\ calls' = calls + 1 /\ UNCHANGED up

Start(w, op, u, todo, arg) ==
    /\ ~Running(w)
    /\ request' = [request EXCEPT ![w] = [op |-> op, user |-> u, todo |-> todo, arg |-> arg]]
    /\ loose' = IF On(u) = {} THEN loose ELSE loose \cup ({u} \ {None})

\* A request whose only commit is the action at hand.
Once == Call /\ (\E w \in Worker : ~Running(w)) /\ UNCHANGED request

\* The commit at hand is done.
Advance(w) ==
    /\ LET r == request[w] IN
          request' = [request EXCEPT ![w] =
             IF Len(r.todo) = 1 THEN None ELSE [r EXCEPT !.todo = Tail(r.todo)]]
    /\ UNCHANGED <<up, calls>>

\* The password is changed and the tokens of the old one are still there.
Halfway(w) == request[w].op \in {"change", "reset"} /\ Runs(w, "clear")

\* A commit fails, and with it the rest of the request.
BreaksOff(w) ==
    /\ Running(w)
    /\ request' = [request EXCEPT ![w] = None]
    /\ loose' = loose \cup {u \in {request[w].user} : Halfway(w)}
    /\ UNCHANGED <<account, wallet, sessions, codes, up, calls, proven, crossed>>

Crash ==
    /\ up
    /\ up' = FALSE
    /\ request' = [w \in Worker |-> None]
    /\ loose' = loose \cup {request[w].user : w \in {x \in Worker : Running(x) /\ Halfway(x)}}
    /\ UNCHANGED <<account, wallet, sessions, codes, calls, proven, crossed>>

\* Codes and OTP rows expire.
Expire ==
    /\ \/ \E c \in mailed : mailed' = mailed \ {c} /\ UNCHANGED otp
       \/ \E p \in otp : otp' = otp \ {p} /\ UNCHANGED mailed
    /\ UNCHANGED <<account, wallet, sessions, request, up, calls, history>>

-----------------------------------------------------------------------------
\* ensureDefaultAdminAccount, before the server listens.

Bootstrap(w) ==
    /\ ~up
    /\ ~Running(w) /\ \A x \in Worker : ~Running(x)
    /\ IF ~Exists(Admin)
       THEN /\ account' = [account EXCEPT ![Admin] = NewAccount(AdminPassword)]
            /\ Start(w, "bootstrap", Admin, <<"email", "flag", "wallet">>, None)
            /\ UNCHANGED up
       \* An account that is there gets the configured password, if one is
       \* configured; its tokens stay, and so does whatever it lacks.
       ELSE /\ \/ UNCHANGED <<account, loose>>
               \/ /\ account[Admin].password # AdminPassword
                  /\ account' = [account EXCEPT ![Admin].password = AdminPassword]
                  /\ loose' = loose \cup {Admin}
            /\ up' = TRUE
            /\ UNCHANGED request
    /\ UNCHANGED <<wallet, sessions, codes, calls, proven, crossed>>

\* updateVerificationInfo, then markEmailVerified without an address.
AdminEmailSaved(w) ==
    /\ Runs(w, "email")
    /\ account' = [account EXCEPT ![Admin].email = AdminEmail, ![Admin].emailOk = FALSE]
    /\ Advance(w)
    /\ UNCHANGED <<wallet, sessions, codes, history>>

AdminEmailFlagged(w) ==
    /\ Runs(w, "flag")
    /\ account' = [account EXCEPT ![Admin].emailOk = TRUE]
    /\ Advance(w)
    /\ UNCHANGED <<wallet, sessions, codes, history>>

-----------------------------------------------------------------------------
\* Accounts and sessions.

\* signup: the account, then its wallet.
Signup(w, u, p) ==
    /\ ~Exists(u)
    /\ Call
    /\ account' = [account EXCEPT ![u] = NewAccount(p)]
    /\ Start(w, "signup", u, <<"wallet">>, None)
    /\ UNCHANGED <<wallet, sessions, codes, proven, crossed>>

\* createWallet, the last step of signup and of bootstrap.
CreateWallet(w) ==
    /\ Runs(w, "wallet")
    /\ Exists(request[w].user)
    /\ wallet' = wallet \cup {request[w].user}
    /\ request' = [request EXCEPT ![w] = None]
    /\ up' = TRUE
    /\ UNCHANGED <<account, sessions, codes, calls, history>>

\* login, after validateUser compared the password.
Login(w, u) ==
    /\ Exists(u)
    /\ Call
    /\ Start(w, "login", u, <<"clear", "open">>, account[u].password)
    /\ UNCHANGED <<account, wallet, sessions, codes, proven, crossed>>

\* The delete of the account's refresh tokens.
Clear(w) ==
    /\ Runs(w, "clear")
    /\ LET u == request[w].user IN
          /\ sessions' = [sessions EXCEPT ![u] = <<>>]
          /\ loose' = IF On(u) = {w} /\ request[w].op # "login" THEN loose \ {u} ELSE loose
    /\ Advance(w)
    /\ UNCHANGED <<account, wallet, codes, proven, crossed>>

\* The token's row, which needs the account's.
Open(w) ==
    /\ Runs(w, "open")
    /\ Exists(request[w].user)
    /\ sessions' = [sessions EXCEPT ![request[w].user] = Append(@, request[w].arg)]
    /\ Advance(w)
    /\ UNCHANGED <<account, wallet, codes, history>>

Logout(u) ==
    /\ sessions[u] # <<>>
    /\ Once
    /\ sessions' = [sessions EXCEPT ![u] = <<>>]
    /\ loose' = IF On(u) = {} THEN loose \ {u} ELSE loose
    /\ UNCHANGED <<account, wallet, codes, proven, crossed>>

\* Mutant: the tokens of the old password stay.
ChangeSteps_KeepsTokens == <<"password">>

\* changePassword and resetPassword: updatePassword, then the tokens.
ChangeSteps == <<"password", "clear">>

ChangePassword(w, u, p) ==
    /\ Exists(u)
    /\ Call
    /\ Start(w, "change", u, ChangeSteps, p)
    /\ UNCHANGED <<account, wallet, sessions, codes, proven, crossed>>

UpdatePassword(w) ==
    /\ Runs(w, "password")
    /\ LET u == request[w].user IN
          account' = [account EXCEPT ![u] = IF Exists(u) THEN [@ EXCEPT !.password = request[w].arg]
                                            ELSE None]
    /\ Advance(w)
    /\ UNCHANGED <<wallet, sessions, codes, history>>

\* Mutant: the tokens are no rows of the account.
RemoveUser_KeepsTokens(u) ==
    /\ Exists(u)
    /\ Once
    /\ account' = [account EXCEPT ![u] = None]
    /\ wallet' = wallet \ {u}
    /\ UNCHANGED <<sessions, codes, history>>

\* The row takes its tokens and its wallet along.
RemoveUser(u) ==
    /\ Exists(u)
    /\ Once
    /\ account' = [account EXCEPT ![u] = None]
    /\ wallet' = wallet \ {u}
    /\ sessions' = [sessions EXCEPT ![u] = <<>>]
    /\ UNCHANGED <<codes, history>>

\* updateProfile and its like, and updateVerificationInfo, which resets the
\* flag of what it changes: the row as it is read.
Edit(w, u) ==
    /\ Exists(u)
    /\ Call
    /\ \E row \in {account[u]}
             \cup {[account[u] EXCEPT !.email = e, !.emailOk = FALSE] :
                      e \in Email \ {account[u].email}}
             \cup {[account[u] EXCEPT !.phone = p, !.phoneOk = FALSE] :
                      p \in Phone \ {account[u].phone}} :
          Start(w, "edit", u, <<"save">>, row)
    /\ UNCHANGED <<account, wallet, sessions, codes, proven, crossed>>

\* save writes the whole row, and inserts it again if it has been removed.
Save(w) ==
    /\ Runs(w, "save")
    /\ account' = [account EXCEPT ![request[w].user] = request[w].arg]
    /\ Advance(w)
    /\ UNCHANGED <<wallet, sessions, codes, history>>

-----------------------------------------------------------------------------
\* Codes.  Addresses and numbers are not unique: findByEmail and findByPhone
\* return any account that has them.

StartEmailVerification(u) ==
    /\ Exists(u) /\ account[u].email # None
    /\ Once
    /\ mailed' = mailed \cup {<<"verify", account[u].email>>}
    /\ UNCHANGED <<account, wallet, sessions, otp, history>>

RequestPasswordReset(u) ==
    /\ Exists(u) /\ account[u].email # None
    /\ Once
    /\ mailed' = mailed \cup {<<"reset", account[u].email>>}
    /\ UNCHANGED <<account, wallet, sessions, otp, history>>

\* verifyEmailCode does not look at the kind of the code.
VerifyEmailCode(w, u) ==
    /\ Exists(u)
    /\ account[u].email \in {c[2] : c \in mailed}
    /\ Call
    /\ Start(w, "verify", u, <<"markEmail">>, account[u].email)
    /\ proven' = proven \cup {account[u].email}
    /\ UNCHANGED <<account, wallet, sessions, codes, crossed>>

\* Mutant: only the flag is written.
MarkEmailVerified_FlagOnly(w) ==
    /\ Runs(w, "markEmail")
    /\ LET u == request[w].user IN
          account' = [account EXCEPT ![u] = IF Exists(u) THEN [@ EXCEPT !.emailOk = TRUE] ELSE None]
    /\ Advance(w)
    /\ UNCHANGED <<wallet, sessions, codes, history>>

\* The address is written with its flag.
MarkEmailVerified(w) ==
    /\ Runs(w, "markEmail")
    /\ LET u == request[w].user IN
          account' = [account EXCEPT ![u] =
             IF Exists(u) THEN [@ EXCEPT !.email = request[w].arg, !.emailOk = TRUE] ELSE None]
    /\ Advance(w)
    /\ UNCHANGED <<wallet, sessions, codes, history>>

ResetPassword(w, u, p) ==
    /\ Exists(u)
    /\ <<"reset", account[u].email>> \in mailed
    /\ Call
    /\ Start(w, "reset", u, ChangeSteps, p)
    /\ UNCHANGED <<account, wallet, sessions, codes, proven, crossed>>

StartPhoneVerification(u) ==
    /\ Exists(u) /\ account[u].phone # None
    /\ Once
    /\ otp' = otp \cup {account[u].phone}
    /\ UNCHANGED <<account, wallet, sessions, mailed, history>>

\* verifyPhoneCode, up to the answer of Firebase.
VerifyPhoneCode(w, p) ==
    /\ p \in otp
    /\ Call
    /\ Start(w, "verify", None, <<"used">>, p)
    /\ UNCHANGED <<account, wallet, sessions, codes, proven, crossed>>

\* The OTP is marked used, and an account is looked up.
UseOtp(w) ==
    /\ Runs(w, "used")
    /\ LET p == request[w].arg
           found == {u \in User : Exists(u) /\ account[u].phone = p} IN
          /\ otp' = otp \ {p}
          /\ proven' = proven \cup {p}
          /\ \/ /\ found = {}
                /\ request' = [request EXCEPT ![w] = None]
             \/ \E u \in found :
                   request' = [request EXCEPT ![w] = [@ EXCEPT !.user = u, !.todo = <<"markPhone">>]]
    /\ UNCHANGED <<account, wallet, sessions, mailed, up, calls, loose, crossed>>

\* markPhoneVerified writes the flag, whatever number the row has by now.
MarkPhoneVerified(w) ==
    /\ Runs(w, "markPhone")
    /\ LET u == request[w].user IN
          /\ account' = [account EXCEPT ![u] = IF Exists(u) THEN [@ EXCEPT !.phoneOk = TRUE] ELSE None]
          /\ crossed' = IF Exists(u) /\ account[u].phone # request[w].arg THEN crossed \cup {u}
                        ELSE crossed
    /\ Advance(w)
    /\ UNCHANGED <<wallet, sessions, codes, proven, loose>>

\* The controllers: auth.controller.ts and user.controller.ts.
AuthRequest(w) ==
    \/ \E u \in User :
          \/ Login(w, u) \/ VerifyEmailCode(w, u) \/ Logout(u)
          \/ StartEmailVerification(u) \/ RequestPasswordReset(u) \/ StartPhoneVerification(u)
          \/ \E p \in Password :
                Signup(w, u, p) \/ ChangePassword(w, u, p) \/ ResetPassword(w, u, p)
    \/ \E p \in Phone : VerifyPhoneCode(w, p)

UserRequest(w) == \E u \in User : Edit(w, u) \/ RemoveUser(u)

Next ==
    \/ \E w \in Worker :
          \/ Bootstrap(w) \/ AdminEmailSaved(w) \/ AdminEmailFlagged(w) \/ CreateWallet(w)
          \/ AuthRequest(w) \/ UserRequest(w)
          \/ Clear(w) \/ Open(w) \/ UpdatePassword(w) \/ Save(w)
          \/ MarkEmailVerified(w) \/ UseOtp(w) \/ MarkPhoneVerified(w)
          \/ BreaksOff(w)
    \/ Expire
    \/ Crash

Spec == Init /\ [][Next]_accountsVars

-----------------------------------------------------------------------------
\* Properties.

\* An account that no request is at work on has at most one refresh token,
\* opened under the password it has now: a changed or reset password leaves
\* no earlier session.  Not so after requests on the account overlapped (two
\* logins, or a save of the row as it was before the change), after one broke
\* off between the password and the tokens, and after bootstrap rotated the
\* administrator's password, until a logout or a change deletes the tokens.
SessionsMatch ==
    \A u \in User \ loose : On(u) = {} =>
        \/ sessions[u] = <<>>
        \/ sessions[u] = <<account[u].password>>

\* An address marked verified is one whose code came back (or the configured
\* one of the administrator), however the requests overlap.  A number too,
\* except where the flag was written after the number had changed.
VerifiedWasProven ==
    \A u \in User : Exists(u) =>
        /\ account[u].emailOk => account[u].email \in proven
        /\ account[u].phoneOk /\ u \notin crossed => account[u].phone \in proven

=============================================================================
