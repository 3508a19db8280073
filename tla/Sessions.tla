-------------------------------- MODULE Sessions --------------------------------
(***************************************************************************)
(* The password of a user, the tokens that stand for him, and the mails    *)
(* that carry them: register, login, forgotPassword, resetPassword and     *)
(* verifyEmail of AuthService, changePassword of UserService, and the      *)
(* EmailService that handles the events they emit.  A request reads the    *)
(* row of the user, awaits bcrypt, and writes the password by the user's   *)
(* id, whatever it has become meanwhile.  A token is valid until it        *)
(* expires: nothing is kept of it, and it can be used again.               *)
(***************************************************************************)
EXTENDS Integers, FiniteSets

CONSTANTS
    Requests,       \* requests of, or in the name of, one user
    Earlier,        \* one of them, that ended before the others began
    Passwords,      \* strong passwords
    None            \* no password, no token, nobody

VARIABLES
    registered,     \* the user row exists
    active,         \* user.status is ACTIVE
    password,       \* user.password
    expired,        \* the requests whose tokens have expired
    mail,           \* the mail each request led to
    session         \* the requests

-----------------------------------------------------------------------------
(* Type definitions *)

\* bcrypt salts: a hash is one of its own, also of the same password.
Hash == [of : Passwords \cup {None}, by : Requests \cup {None}]

NoHash == [of |-> None, by |-> None]

Operation == {"none", "register", "login", "forgot", "verify", "reset", "change"}

\* A request: what it asks for, the row it read, how it ended; and, as history,
\* the requests that were answered before it began.
Session == [op : Operation,
            pc : {"idle", "read", "done", "refused", "failed"},
            pass : Passwords \cup {None}, old : Passwords \cup {None},
            token : Requests \cup {None}, hash : Hash, before : SUBSET Requests]

IdleSession == [op |-> "none", pc |-> "idle", pass |-> None, old |-> None,
                token |-> None, hash |-> NoHash, before |-> {}]

\* The template of a mail and whether its link carries a token.
Mail == [pc : {"none", "sending", "delivered", "lost"},
         template : {"none", "verify", "reset", "updated"}, linked : BOOLEAN]

NoMail == [pc |-> "none", template |-> "none", linked |-> FALSE]

SessionsTypeOK ==
    /\ registered \in BOOLEAN
    /\ active \in BOOLEAN
    /\ password \in Hash
    /\ expired \in SUBSET Requests
    /\ mail \in [Requests -> Mail]
    /\ session \in [Requests -> Session]

-----------------------------------------------------------------------------
(* Helper formulae *)

Answered == {r \in Requests : session[r].pc = "done"}

\* What the mails say: the page their button opens, and whether its link carries
\* a token.
verify_email_template(token) == [template |-> "verify", linked |-> token]
resetPasswordTemplate(token) == [template |-> "reset", linked |-> token]
passwordUpdatedTemplate == [template |-> "updated", linked |-> FALSE]

\* Mutant: the handlers of two events are mixed up.
ContentMixedUp(event, token) ==
    CASE event = "user.verify" -> resetPasswordTemplate(token)
      [] event = "user.forgot" -> verify_email_template(token)
      [] event = "user.changePass" -> passwordUpdatedTemplate

\* The handler of each event, and the template it takes.
Content(event, token) ==
    CASE event = "user.verify" -> verify_email_template(token)
      [] event = "user.forgot" -> resetPasswordTemplate(token)
      [] event = "user.changePass" -> passwordUpdatedTemplate

MailOf(event, token, pc) ==
    [pc |-> pc, template |-> Content(event, token).template,
     linked |-> Content(event, token).linked]

\* The handler of the event begins to send the mail of request r; nobody waits.
Emit(r, event, token) == mail' = [mail EXCEPT ![r] = MailOf(event, token, "sending")]

\* What the client asks before it offers to change the password.
HasPassWord == password.of # None

\* The payload of the token of request r has the id of the user (a login, a
\* forgotten password) or his e-mail address (a registration).
HasId(r) == session[r].op \in {"login", "forgot"}

\* Tokens that somebody holds: answered to a login, or in a mail that arrived.
Held(r) ==
    \/ session[r].op = "login" /\ session[r].pc = "done"
    \/ mail[r].pc = "delivered" /\ mail[r].linked

\* jwt.verify: signed with the one secret, and not expired.
Verifies(r) == Held(r) /\ r \notin expired

Begin(r, s) ==
    /\ session[r].pc = "idle"
    /\ session' = [session EXCEPT ![r] = [s EXCEPT !.before = Answered]]

\* A request ends: what a login compared is kept, as history.
SessionEnd(r, pc) ==
    session' = [session EXCEPT ![r] =
        IF @.op = "login" THEN [@ EXCEPT !.pc = pc]
        ELSE [@ EXCEPT !.pc = pc, !.pass = None, !.old = None, !.hash = NoHash]]

-----------------------------------------------------------------------------
\* The earlier request registered the user, failed to, or is one of a user who
\* registered before, or came from a social network, without a password.  Its mail
\* has arrived.
SessionsInit ==
    /\ active = FALSE
    /\ expired = {}
    /\ \E op \in {"none", "register", "forgot"}, p \in Passwords \cup {None} :
          /\ op = "register" => p # None
          /\ op = "none" => p = None
          /\ registered = (op # "none")
          /\ password = [of |-> p, by |-> IF op = "register" THEN Earlier ELSE None]
          /\ session = [r \in Requests |->
                IF r # Earlier THEN IdleSession
                ELSE [IdleSession EXCEPT !.op = op,
                        !.pc = IF op = "none" THEN "failed" ELSE "done"]]
          /\ mail = [r \in Requests |->
                IF r # Earlier THEN NoMail
                ELSE CASE op = "register" -> MailOf("user.verify", TRUE, "delivered")
                       [] op = "forgot" -> MailOf("user.forgot", TRUE, "delivered")
                       [] OTHER -> NoMail]

-----------------------------------------------------------------------------
(* The operations *)

\* The end of register: the row is created and the mail to verify it is sent.
Register(r, p) ==
    /\ ~registered
    /\ Begin(r, [IdleSession EXCEPT !.op = "register", !.pc = "done"])
    /\ registered' = TRUE
    /\ password' = [of |-> p, by |-> r]
    /\ Emit(r, "user.verify", TRUE)
    /\ UNCHANGED <<active, expired>>

\* Reads the row: a user without a password is refused.
LoginRead(r, p) ==
    /\ registered
    /\ Begin(r, [IdleSession EXCEPT !.op = "login", !.pass = p, !.hash = password,
                    !.pc = IF HasPassWord THEN "read" ELSE "refused"])
    /\ UNCHANGED <<registered, active, password, expired, mail>>

\* bcrypt.compare, then a token with the user's id.
LoginCompare(r) ==
    /\ session[r].op = "login" /\ session[r].pc = "read"
    /\ SessionEnd(r, IF session[r].pass = session[r].hash.of THEN "done" ELSE "refused")
    /\ UNCHANGED <<registered, active, password, expired, mail>>

\* Nothing that was read can be stale: the answer follows the query at once.
ForgotPassword(r) ==
    /\ registered
    /\ Begin(r, [IdleSession EXCEPT !.op = "forgot", !.pc = "done"])
    /\ Emit(r, "user.forgot", TRUE)
    /\ UNCHANGED <<registered, active, password, expired>>

\* The page of the link calls verifyEmail or resetPassword with the token t.
VerifyRead(r, t) ==
    /\ Held(t)
    /\ Begin(r, [IdleSession EXCEPT !.op = "verify", !.token = t, !.hash = password,
                    !.pc = IF Verifies(t) /\ ~HasId(t) THEN "read" ELSE "refused"])
    /\ UNCHANGED <<registered, active, password, expired, mail>>

\* Mutant: the whole row that was read is written back.
VerifyWholeRow(r) ==
    /\ session[r].op = "verify" /\ session[r].pc = "read"
    /\ active' = TRUE
    /\ password' = session[r].hash
    /\ SessionEnd(r, "done")
    /\ UNCHANGED <<registered, expired, mail>>

VerifyCommit(r) ==
    /\ session[r].op = "verify" /\ session[r].pc = "read"
    /\ active' = TRUE
    /\ SessionEnd(r, "done")
    /\ UNCHANGED <<registered, password, expired, mail>>

ResetRead(r, t, p) ==
    /\ Held(t)
    /\ Begin(r, [IdleSession EXCEPT !.op = "reset", !.token = t, !.pass = p, !.hash = password,
                    !.pc = IF Verifies(t) /\ HasId(t) THEN "read" ELSE "refused"])
    /\ UNCHANGED <<registered, active, password, expired, mail>>

\* "New password must not same old password" compares the new hash with the one
\* that was read, which are never equal.
SameHash(r) == session[r].hash = [of |-> session[r].pass, by |-> r]

ResetCommit(r) ==
    /\ session[r].op = "reset" /\ session[r].pc = "read"
    /\ ~SameHash(r)
    /\ password' = [of |-> session[r].pass, by |-> r]
    /\ SessionEnd(r, "done")
    /\ UNCHANGED <<registered, active, expired, mail>>

\* The caller has logged in; the old password is asked of him if he gives one.
ChangeRead(r, p, old) ==
    /\ registered
    /\ Begin(r, [IdleSession EXCEPT !.op = "change", !.pass = p, !.old = old, !.hash = password,
                    !.pc = IF old = p THEN "refused" ELSE "read"])
    /\ UNCHANGED <<registered, active, password, expired, mail>>

OldPasswordRight(r) == session[r].old \in {None, session[r].hash.of}

\* It emits the event of a forgotten password, without a token.
ChangeCommit(r) ==
    /\ session[r].op = "change" /\ session[r].pc = "read"
    /\ OldPasswordRight(r)
    /\ password' = [of |-> session[r].pass, by |-> r]
    /\ Emit(r, "user.forgot", FALSE)
    /\ SessionEnd(r, "done")
    /\ UNCHANGED <<registered, active, expired>>

ChangeRefused(r) ==
    /\ session[r].op = "change" /\ session[r].pc = "read"
    /\ ~OldPasswordRight(r)
    /\ SessionEnd(r, "refused")
    /\ UNCHANGED <<registered, active, password, expired, mail>>

\* A password is weak, a query fails, or there is no such user.
SessionFail(r) ==
    /\ session[r].pc \in {"idle", "read"}
    /\ SessionEnd(r, "failed")
    /\ UNCHANGED <<registered, active, password, expired, mail>>

-----------------------------------------------------------------------------
(* Around them *)

\* The request was answered before: errors of SendGrid, or an environment that
\* names no sender, show nowhere.
SendMail(r) ==
    /\ mail[r].pc = "sending"
    /\ \E pc \in {"delivered", "lost"} : mail' = [mail EXCEPT ![r].pc = pc]
    /\ UNCHANGED <<registered, active, password, expired, session>>

Expire(r) ==
    /\ Held(r)
    /\ r \notin expired
    /\ expired' = expired \cup {r}
    /\ UNCHANGED <<registered, active, password, mail, session>>

RestartSessions ==
    /\ session' = [r \in Requests |->
                     IF session[r].pc = "read" THEN [IdleSession EXCEPT !.op = session[r].op, !.pc = "failed"]
                     ELSE session[r]]
    /\ mail' = [r \in Requests |->
                  IF mail[r].pc = "sending" THEN [mail[r] EXCEPT !.pc = "lost"] ELSE mail[r]]
    /\ UNCHANGED <<registered, active, password, expired>>

-----------------------------------------------------------------------------
(* Properties *)

Writes(r) == session[r].op \in {"register", "reset", "change"} /\ session[r].pc = "done"

\* Hash h had been replaced by a request that was answered before, among `seen`.
Replaced(h, seen) ==
    \E w \in seen : Writes(w) /\ (h.by = None \/ h.by \in session[w].before)

\* The password is that of the last request answered, and a login compares with
\* one that nothing answered before it had replaced, although rows are read,
\* awaited and written by id while others do the same: requests that do not
\* overlap take effect in their order.
PasswordsInOrder ==
    /\ ~Replaced(password, Answered)
    /\ \A r \in Answered : session[r].op = "login" =>
           session[r].hash.of = session[r].pass /\ ~Replaced(session[r].hash, session[r].before)

\* A link that was mailed for a registration or a forgotten password is accepted
\* by the operation its page calls until it expires, unless that operation fails:
\* the template, the page and the payload of the token fit.
MailedLinksWork ==
    \A r, t \in Requests :
        /\ session[r].pc = "refused"
        /\ session[r].token = t
        /\ mail[t].template = (IF session[r].op = "verify" THEN "verify" ELSE "reset")
        => t \in expired
=============================================================================
