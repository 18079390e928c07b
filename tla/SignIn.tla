------------------------------- MODULE SignIn -------------------------------
(***************************************************************************)
(* One account: signing in with a password, a second factor or a passkey,  *)
(* the lock after failed attempts, one-time links, sessions and what ends  *)
(* them, and the keys that sign sessions and seal the second factor's      *)
(* seed.                                                                   *)
(*                                                                         *)
(* login() runs on the event loop, so there is one at a time; every other  *)
(* endpoint runs in a thread, reads the account's row first and writes it  *)
(* at its commit.  What is written are the columns whose value changed     *)
(* from what was read.                                                     *)
(***************************************************************************)
EXTENDS Integers, FiniteSets

CONSTANTS
    Passwords,     \* what people may choose as a password
    Threads,       \* requests about the account that run at the same time
    MaxFails,      \* LOGIN_MAX_FAILS
    MaxTime,       \* bound on the clock
    MaxKeys,       \* bound on the values SECRET_KEY takes
    MaxLinks,      \* bound on the links ever issued
    MaxAccounts,   \* bound on the accounts ever made with the name
    MaxRequests    \* bound on the logins and requests that write

ASSUME SignInAssumption ==
    /\ MaxFails \in Nat \ {0} /\ MaxTime \in Nat /\ MaxKeys \in Nat \ {0}
    /\ MaxLinks \in Nat /\ MaxAccounts \in Nat /\ MaxRequests \in Nat

VARIABLES
    now,           \* the clock: seconds for sessions, steps for codes
    account,       \* the row of users, and its passkey
    links,         \* rows of auth_tokens
    session,       \* one of the session tokens people hold
    challenges,    \* _challenges: passkey dialogues that were opened
    key,           \* SECRET_KEY
    kept,          \* SECRET_KEY_PREVIOUS
    clean,         \* the last re-encryption reported nothing left
    login,         \* the login on the event loop
    request,       \* the requests in the threads
    begun,         \* logins and requests so far
    chosen,        \* history: the password set last by somebody entitled to
    guesses,       \* history: failures since the last lock or clearing
    spent          \* history: codes that signed in with the present factor

process == <<login, request, challenges, begun>>
keys    == <<key, kept, clean>>
history == <<chosen, guesses, spent>>
vars    == <<now, account, links, session, keys, process, history>>

None == -1
Absent == 0

NoAccount ==
    [id |-> Absent, made |-> 0, hash |-> [pw |-> "unusable", cost |-> "current"], active |-> FALSE,
     fails |-> 0, lock |-> "none", validFrom |-> 0, enabled |-> FALSE, sealed |-> 0,
     counter |-> None, passkey |-> FALSE]

Idle == [phase |-> "idle"]
NoSession == [iat |-> None, key |-> 0]
NoRequest == [kind |-> "none"]
NoLink == [for |-> Absent, purpose |-> "reset", state |-> "none"]

Init ==
    /\ now = 0 /\ account = NoAccount
    /\ links = [l \in 1..MaxLinks |-> NoLink]
    /\ session = NoSession /\ challenges = {}
    /\ key = 1 /\ kept = {} /\ clean = TRUE
    /\ login = Idle
    /\ request = [t \in Threads |-> NoRequest]
    /\ begun = 0
    /\ chosen = "unusable" /\ guesses = 0 /\ spent = {}

----------------------------------------------------------------------------
(* The row, the keys, the session. *)

Ring == {key} \cup kept

\* crypto.decrypt: the seed can be read under some key of the ring.
Readable(row) == row.sealed \in Ring

\* Slip: the whole row is written as the request has it.
WholeRow(row, new) == new

\* What a commit does to the row: only changed columns are written.
Written(row, new) ==
    [f \in DOMAIN account |-> IF new[f] = row[f] THEN account[f] ELSE new[f]]

\* The row is still there; an update of one that is gone fails.
There(id) == account.id = id /\ account.id # Absent

\* get_current_user() with a session token, which names the account by its name.
Accepts(row, ring, s) ==
    /\ s.key \in ring
    /\ row.id # Absent /\ row.active
    /\ s.iat >= row.validFrom

SignedIn == Accepts(account, Ring, session)

\* create_token(): the session followed from here on may be this one.
TokenIssued == session' \in {session, [iat |-> now, key |-> key]}

\* Slip: a failure after which the counter is one too patient.
FailedOnceMore(row) ==
    IF row.fails + 1 > MaxFails
    THEN [row EXCEPT !.fails = 0, !.lock = "running"]
    ELSE [row EXCEPT !.fails = @ + 1]

\* _register_failure()
Failed(row) ==
    IF row.fails + 1 >= MaxFails
    THEN [row EXCEPT !.fails = 0, !.lock = "running"]
    ELSE [row EXCEPT !.fails = @ + 1]

Cleared(row) == [row EXCEPT !.fails = 0, !.lock = "none"]

\* Slip: nothing is done about the sessions that are out.
Untouched(row) == row

\* token_valid_from = utcnow()
Revoked(row) == [row EXCEPT !.validFrom = now]

\* totp.verify(): a code from a step near now, newer than the last accepted.
Verifies(c, row) == c \in (now - 1)..(now + 1) /\ c >= 0 /\ c > row.counter

----------------------------------------------------------------------------
(* The login. *)

Counted == begun < MaxRequests /\ begun' = begun + 1

LoginRead(pw) ==
    /\ Counted
    /\ login = Idle /\ account.id # Absent
    /\ login' = [phase |-> "checking", pw |-> pw, row |-> account]
    /\ UNCHANGED <<now, account, links, session, keys, request, challenges, history>>

Checking == login.phase = "checking"
PasswordOk == login.row.hash.pw = login.pw
MayProceed == PasswordOk /\ login.row.lock # "running" /\ login.row.active

\* A wrong password, or a wrong or used code after everything else was right.
LoginFails ==
    /\ Checking /\ There(login.row.id)
    /\ ~PasswordOk \/ (MayProceed /\ login.row.enabled /\ Readable(login.row))
    /\ LET new == Failed(login.row)
           locks == new.fails = 0
       IN /\ account' = [Written(login.row, new) EXCEPT !.lock = IF locks THEN "running" ELSE @]
          /\ guesses' = IF locks THEN 0 ELSE guesses + 1
    /\ login' = Idle
    /\ UNCHANGED <<now, links, session, keys, request, challenges, begun, chosen, spent>>

\* Locked, deactivated, no code given, or a seed that no key reads: refused
\* without counting.  Also a write to a row that is gone.
LoginRefused ==
    /\ Checking
    /\ \/ PasswordOk /\ (login.row.lock = "running" \/ ~login.row.active)
       \/ MayProceed /\ login.row.enabled
       \/ ~There(login.row.id)
    /\ login' = Idle
    /\ UNCHANGED <<now, account, links, session, keys, request, challenges, begun, history>>

\* Slip: the code is checked and not remembered.
NotBurnt(row, c) == row

\* The code's step is stored before the session is handed out.
Burnt(row, c) == [row EXCEPT !.counter = c]

\* The second factor and the end of the failures.  A commit expires the row the
\* session holds, so what follows sees the row as it is then.
LoginPasses ==
    /\ Checking /\ MayProceed
    /\ \/ /\ ~login.row.enabled
          /\ \/ /\ Cleared(login.row) = login.row
                /\ UNCHANGED account
             \/ /\ Cleared(login.row) # login.row /\ There(login.row.id)
                /\ account' = Written(login.row, Cleared(login.row))
          /\ spent' = spent
       \/ /\ login.row.enabled /\ Readable(login.row) /\ There(login.row.id)
          /\ \E c \in 0..MaxTime + 1 :
                /\ Verifies(c, login.row)
                /\ account' = Cleared(Written(login.row, Burnt(login.row, c)))
                /\ spent' = spent \cup {c}
    /\ login' = [login EXCEPT !.phase = "passed",
                    !.row = IF account' = account THEN @ ELSE account']
    /\ guesses' = 0
    /\ UNCHANGED <<now, links, session, keys, request, challenges, begun, chosen>>

\* A hash made at a lower cost is made again from the password just proven.
LoginIssues ==
    /\ login.phase = "passed" /\ There(login.row.id)
    /\ account' = IF login.row.hash.cost = "lower"
                  THEN [account EXCEPT !.hash = [pw |-> login.pw, cost |-> "current"]]
                  ELSE account
    /\ TokenIssued
    /\ login' = Idle
    /\ UNCHANGED <<now, links, keys, request, challenges, begun, history>>

LoginBreaks ==
    /\ login.phase = "passed" /\ ~There(login.row.id)
    /\ login' = Idle
    /\ UNCHANGED <<now, account, links, session, keys, request, challenges, begun, history>>

Login ==
    \/ \E pw \in Passwords : LoginRead(pw)
    \/ LoginFails \/ LoginRefused \/ LoginPasses \/ LoginIssues \/ LoginBreaks

----------------------------------------------------------------------------
(* Requests in threads: what they read, and what they commit. *)

Begin(t, r) ==
    /\ Counted
    /\ request[t] = NoRequest
    /\ request' = [request EXCEPT ![t] = r]

End(t) == request' = [request EXCEPT ![t] = NoRequest]

\* Every refusal, rollback or lost connection after the read.
Abandon(t) ==
    /\ request[t] # NoRequest
    /\ End(t)
    /\ UNCHANGED <<now, account, links, session, keys, login, challenges, begun, history>>

\* A request of the account's holder: it is admitted, and reads the row.
Ask(t, r) ==
    /\ SignedIn
    /\ Begin(t, r)
    /\ UNCHANGED <<now, account, links, session, keys, login, challenges, history>>

\* A request that writes what it decides, and one that writes what differs from
\* the row it has read.
Of(kind) == [kind |-> kind, id |-> account.id]
Over(kind) == [kind |-> kind, id |-> account.id, row |-> account]

BeginOwn(t) ==
    \/ Ask(t, Of("change_password")) \/ Ask(t, Over("totp_disable"))
    \/ ~account.enabled /\ Ask(t, Over("totp_setup"))
    \/ account.sealed # 0 /\ Readable(account) /\ Ask(t, Over("totp_enable"))
    \/ account.passkey /\ Ask(t, Of("delete_passkey"))

Committing(t, kind) ==
    /\ request[t].kind = kind
    /\ There(request[t].id)
    /\ End(t)

\* change_password(): other sessions end, this one gets a new token.
ChangePassword(t) ==
    /\ Committing(t, "change_password")
    /\ \E pw \in Passwords :
          /\ account' = [Revoked(account) EXCEPT !.hash = [pw |-> pw, cost |-> "current"]]
          /\ chosen' = pw
    /\ TokenIssued
    /\ UNCHANGED <<now, links, keys, login, challenges, begun, guesses, spent>>

\* totp_setup(): a new seed, which counts once it is confirmed.
TotpSetup(t) ==
    /\ Committing(t, "totp_setup")
    /\ account' = [account EXCEPT !.sealed = key,
                      !.counter = IF request[t].row.counter = None THEN @ ELSE None]
    /\ spent' = {}
    /\ UNCHANGED <<now, links, session, keys, login, challenges, begun, chosen, guesses>>

TotpEnable(t) ==
    /\ Committing(t, "totp_enable")
    /\ \E c \in 0..MaxTime + 1 :
          /\ Verifies(c, request[t].row)
          /\ account' = Written(request[t].row, [request[t].row EXCEPT !.counter = c, !.enabled = TRUE])
    /\ spent' = {}
    /\ UNCHANGED <<now, links, session, keys, login, challenges, begun, chosen, guesses>>

WithoutFactor(row) == [row EXCEPT !.enabled = FALSE, !.sealed = 0, !.counter = None]

TotpDisable(t) ==
    /\ Committing(t, "totp_disable")
    /\ account' = Written(request[t].row, WithoutFactor(request[t].row))
    /\ spent' = {}
    /\ UNCHANGED <<now, links, session, keys, login, challenges, begun, chosen, guesses>>

----------------------------------------------------------------------------
(* Passkeys.  A challenge is stored under the account and taken once. *)

Open(kind) ==
    /\ challenges' = challenges \cup {kind}
    /\ UNCHANGED <<now, account, links, session, keys, login, request, begun, history>>

\* _take_challenge()
Taken(kind) == challenges \ {kind}

Take(t, kind) ==
    /\ kind \in challenges
    /\ challenges' = Taken(kind)
    /\ Begin(t, Of(kind))
    /\ UNCHANGED <<now, account, links, session, keys, login, history>>

MayUsePasskey == account.active /\ account.passkey

ChallengeRunsOut ==
    /\ \E kind \in challenges : challenges' = challenges \ {kind}
    /\ UNCHANGED <<now, account, links, session, keys, login, request, begun, history>>

RegisterPasskey(t) ==
    /\ Committing(t, "register")
    /\ account' = [account EXCEPT !.passkey = TRUE]
    /\ UNCHANGED <<now, links, session, keys, login, challenges, begun, history>>

DeletePasskey(t) ==
    /\ Committing(t, "delete_passkey")
    /\ account' = [account EXCEPT !.passkey = FALSE]
    /\ UNCHANGED <<now, links, session, keys, login, challenges, begun, history>>

PasskeyLogin(t) ==
    /\ Committing(t, "passkey_login") /\ account.passkey
    /\ TokenIssued
    /\ UNCHANGED <<now, account, links, keys, login, challenges, begun, history>>

Passkeys ==
    \/ SignedIn /\ Open("register")
    \/ MayUsePasskey /\ Open("passkey_login")
    \/ ChallengeRunsOut
    \/ \E t \in Threads :
          \/ SignedIn /\ Take(t, "register")
          \/ MayUsePasskey /\ Take(t, "passkey_login")
          \/ RegisterPasskey(t) \/ DeletePasskey(t) \/ PasskeyLogin(t)

----------------------------------------------------------------------------
(* One-time links. *)

Unused(l) == links[l].state \in {"fresh", "old"}

\* issue_token() marks the links it sees and adds one; both are visible at the
\* commit.
Issue(purpose) ==
    [kind |-> "issue", purpose |-> purpose, id |-> account.id,
     old |-> {l \in 1..MaxLinks : Unused(l) /\ links[l].purpose = purpose}]

IssueLink(t) ==
    /\ Committing(t, "issue")
    /\ \E l \in 1..MaxLinks :
          /\ links[l] = NoLink
          /\ links' = [m \in 1..MaxLinks |->
                CASE m = l -> [for |-> account.id, purpose |-> request[t].purpose, state |-> "fresh"]
                  [] m \in request[t].old -> [links[m] EXCEPT !.state = "used"]
                  [] OTHER -> links[m]]
    /\ UNCHANGED <<now, account, session, keys, login, challenges, begun, history>>

\* forgot_password(): one link per account and window, none for an account that
\* is not active, none when the address has asked too often.
Forgot(t) ==
    /\ account.active
    /\ \A l \in 1..MaxLinks : links[l].purpose = "reset" => links[l].state # "fresh"
    /\ Begin(t, Issue("reset"))
    /\ UNCHANGED <<now, account, links, session, keys, login, challenges, history>>

\* The window of the cooldown passes, then the lifetime of the link.
LinkAges ==
    /\ \E l \in 1..MaxLinks :
          /\ Unused(l)
          /\ links' = [links EXCEPT ![l].state = IF @ = "fresh" THEN "old" ELSE "expired"]
    /\ UNCHANGED <<now, account, session, keys, login, request, challenges, begun, history>>

\* consume_token()
FollowLink(t) ==
    /\ \E l \in 1..MaxLinks :
          /\ Unused(l)
          /\ Begin(t, [kind |-> "set_password", link |-> l, id |-> account.id, row |-> account])
    /\ UNCHANGED <<now, account, links, session, keys, login, challenges, history>>

\* Only an activation link activates.
Activates(purpose) == purpose = "activate"

Recount(acc) == IF acc.fails = 0 THEN 0 ELSE guesses

SetPassword(t) ==
    /\ Committing(t, "set_password")
    /\ LET row == request[t].row
           l == request[t].link
           on == row.active \/ Activates(links[l].purpose)
       IN /\ links' = [links EXCEPT ![l].state = "used"]
          /\ \E pw \in Passwords :
                /\ account' = [Written(row, Revoked(Cleared([row EXCEPT !.active = on])))
                                  EXCEPT !.hash = [pw |-> pw, cost |-> "current"]]
                /\ chosen' = pw
    /\ guesses' = Recount(account')
    /\ UNCHANGED <<now, session, keys, login, challenges, begun, spent>>

Links ==
    \/ LinkAges
    \/ \E t \in Threads : IssueLink(t) \/ Forgot(t) \/ FollowLink(t) \/ SetPassword(t)

----------------------------------------------------------------------------
(* The administrator, who is another account. *)

\* create_user(): with a password and active, or with a link to activate it.
CreateUser(t) ==
    /\ account.id = Absent /\ account.made < MaxAccounts
    /\ LET fresh == [account EXCEPT !.id = account.made + 1, !.made = @ + 1]
       IN \/ \E pw \in Passwords, cost \in {"current", "lower"} :
                /\ account' = [fresh EXCEPT !.active = TRUE, !.hash = [pw |-> pw, cost |-> cost]]
                /\ chosen' = pw
                /\ UNCHANGED <<request, begun>>
          \/ /\ account' = fresh /\ chosen' = "unusable"
             /\ Begin(t, [kind |-> "issue", purpose |-> "activate", id |-> fresh.id, old |-> {}])
    /\ UNCHANGED <<now, links, session, keys, login, challenges, guesses, spent>>

Administer(t, r) ==
    /\ account.id # Absent
    /\ Begin(t, r)
    /\ UNCHANGED <<now, account, links, session, keys, login, challenges, history>>

\* update_user(): activity and roles.
UpdateUser(t) ==
    /\ Committing(t, "update_user")
    /\ \E active \in {"on", "off", "as it is"}, roles \in BOOLEAN :
          LET row  == request[t].row
              set  == [row EXCEPT !.active = IF active = "as it is" THEN @ ELSE active = "on"]
              ends == IF active = "off" \/ roles THEN Revoked(set) ELSE set
          IN /\ account' = Written(row, IF active = "on" THEN Cleared(ends) ELSE ends)
             /\ guesses' = IF active = "on" THEN Recount(account') ELSE guesses
    /\ UNCHANGED <<now, links, session, keys, login, challenges, begun, chosen, spent>>

ResetTotp(t) ==
    /\ Committing(t, "reset_totp")
    /\ account' = Written(request[t].row, Revoked(WithoutFactor(request[t].row)))
    /\ spent' = {}
    /\ UNCHANGED <<now, links, session, keys, login, challenges, begun, chosen, guesses>>

\* delete_user(), with its links and passkeys.
DeleteUser(t) ==
    /\ Committing(t, "delete_user")
    /\ account' = [NoAccount EXCEPT !.made = account.made]
    /\ links' = [l \in 1..MaxLinks |-> NoLink]
    /\ chosen' = "unusable" /\ guesses' = 0 /\ spent' = {}
    /\ UNCHANGED <<now, session, keys, login, challenges, begun>>

Admin == \E t \in Threads :
    \/ CreateUser(t)
    \/ \E r \in {Over("update_user"), Over("reset_totp"), Of("delete_user")} : Administer(t, r)
    \/ Administer(t, Issue(IF account.active THEN "reset" ELSE "activate"))   \* send_reset()
    \/ UpdateUser(t) \/ ResetTotp(t) \/ DeleteUser(t)

Own == \E t \in Threads :
    \/ BeginOwn(t) \/ ChangePassword(t)
    \/ TotpSetup(t) \/ TotpEnable(t) \/ TotpDisable(t)

----------------------------------------------------------------------------
(* Time, and restarts with their change of keys. *)

Tick ==
    /\ now < MaxTime /\ now' = now + 1
    /\ UNCHANGED <<account, links, session, keys, process, history>>

LockRunsOut ==
    /\ account.lock = "running"
    /\ account' = [account EXCEPT !.lock = "over"]
    /\ UNCHANGED <<now, links, session, keys, process, history>>

\* Slip: what some key of the ring reads is taken for current.
LeftAsItIs(row, ring, current) == row

\* reencrypt_all(): what a key of the ring reads is sealed again under the
\* current one, what none reads is left alone.
Resealed(row, ring, current) ==
    IF row.sealed \in ring THEN [row EXCEPT !.sealed = current] ELSE row

\* The process ends with everything it held, and comes back under the keys the
\* operator has set: a previous key is kept at least until a pass has reported
\* that nothing is left under it.
Restart ==
    /\ login' = Idle /\ request' = [t \in Threads |-> NoRequest]
    /\ challenges' = {}
    /\ key' \in {key, key + 1} /\ key' <= MaxKeys
    /\ kept' \in SUBSET (Ring \ {key'})
    /\ key' # key => key \in kept'
    /\ ~clean => kept \subseteq kept'
    /\ \/ /\ account' = Resealed(account, {key'} \cup kept', key')
          /\ clean' = TRUE
       \/ UNCHANGED account /\ clean' = FALSE
    /\ UNCHANGED <<now, links, session, begun, history>>

Next ==
    \/ Login \/ Own \/ Passkeys \/ Links \/ Admin
    \/ Tick \/ LockRunsOut \/ Restart
    \/ \E t \in Threads : Abandon(t)

Spec == Init /\ [][Next]_vars

----------------------------------------------------------------------------
(* Properties. *)

Row == [id : 0..MaxAccounts, made : 0..MaxAccounts,
        hash : [pw : Passwords \cup {"unusable"}, cost : {"current", "lower"}],
        active : BOOLEAN, fails : 0..(MaxFails - 1), lock : {"none", "running", "over"},
        validFrom : 0..MaxTime, enabled : BOOLEAN, sealed : 0..MaxKeys,
        counter : None..(MaxTime + 1), passkey : BOOLEAN]

\* Every variable holds what the code may put into it; a seed and a session
\* are never under a key that is yet to come, and the failures on record stay
\* below the number that locks.
TypeOK ==
    /\ now \in 0..MaxTime
    /\ account \in Row
    /\ links \in [1..MaxLinks -> [for : 0..MaxAccounts, purpose : {"reset", "activate"},
                                  state : {"none", "fresh", "old", "used", "expired"}]]
    /\ session = NoSession \/ session \in [iat : 0..now, key : 1..key]
    /\ challenges \subseteq {"register", "passkey_login"}
    /\ key \in 1..MaxKeys /\ kept \subseteq 1..MaxKeys /\ clean \in BOOLEAN
    /\ account.sealed <= key
    /\ login = Idle \/ login.row \in Row
    /\ \A t \in Threads : request[t] = NoRequest \/ request[t].id \in 1..MaxAccounts

\* The number of failures on record is never behind the failures there were
\* since the last lock or clearing, whatever other requests write to the row
\* between a login's read and its commit: MaxFails failures always lock.
FailuresAreCounted == guesses <= account.fails

\* The step on record never falls behind a code that signed in with the
\* present factor, so no code signs in twice.
CodesStayBurnt == \A c \in spent : c <= account.counter

\* As long as the operator keeps a previous key until the re-encryption has
\* reported nothing left, a rotation makes no second factor unreadable, also
\* when the re-encryption fails and when setups and restarts interleave.
SeedsStayReadable == account.sealed # 0 => Readable(account)

\* A deactivation, a new password, an administrator's reset of the factor.
Revoking ==
    /\ account'.id = account.id
    /\ \/ account.active /\ ~account'.active
       \/ chosen' # chosen
       \/ /\ account.enabled /\ ~account'.enabled
          /\ \E t \in Threads : request[t].kind = "reset_totp" /\ request'[t] = NoRequest

\* A deactivation, a new password and an administrator's reset of the second
\* factor end every session issued before that second, and what has ended
\* does not come back.
RevokedSessionsEnd ==
    [][/\ account'.id = account.id => account'.validFrom >= account.validFrom
       /\ Revoking /\ session.iat < now => ~Accepts(account', Ring', session)]_vars
=============================================================================
