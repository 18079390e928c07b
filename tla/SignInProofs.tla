----------------------------- MODULE SignInProofs -----------------------------
(***************************************************************************)
(* The invariant of SignIn and its properties, for any number of threads,  *)
(* passwords, keys, accounts and links: what requests have read may be     *)
(* old, but what they write from it loses no failure, no code, no seed and *)
(* no revocation.                                                          *)
(***************************************************************************)
EXTENDS SignIn, TLAPS

(* The inductive invariant, by what it is about. *)

Reading == {"totp_setup", "totp_enable", "totp_disable", "set_password", "update_user", "reset_totp"}

\* What a request holds: the row as it was, whose sessions had been ended no
\* later than they have been by now.
RequestOK(r) ==
    \/ r = NoRequest
    \/ /\ r.id \in 1..account.made
       /\ r.kind \in Reading =>
             /\ r.row \in Row /\ r.row.id = r.id
             /\ account.id = r.id => r.row.validFrom <= account.validFrom
       /\ r.kind = "issue" => r.purpose \in {"reset", "activate"}
       /\ r.kind = "set_password" => r.link \in 1..MaxLinks

RequestInv ==
    /\ request = [t \in Threads |-> request[t]]
    /\ \A t \in Threads : RequestOK(request[t])

\* The login that checks has counted, and knows every code.
LoginInv ==
    \/ login = Idle
    \/ /\ login.phase \in {"checking", "passed"} /\ login.pw \in Passwords /\ login.row \in Row
       /\ login.phase = "checking" =>
             /\ guesses <= login.row.fails
             /\ \A c \in spent : c <= login.row.counter

CountInv ==
    /\ guesses \in Nat /\ guesses <= account.fails
    /\ spent \subseteq Int /\ \A c \in spent : c <= account.counter

AccountInv ==
    /\ account \in Row
    /\ account.id <= account.made /\ account.validFrom <= now
    /\ account.active => account.id # Absent

\* After a pass that reported nothing left, nothing is sealed under another key.
SeedInv ==
    /\ key \in 1..MaxKeys /\ kept \subseteq 1..MaxKeys /\ clean \in BOOLEAN
    /\ account.sealed <= key
    /\ account.sealed # 0 => account.sealed \in Ring
    /\ clean => account.sealed \in {0, key}

LinkInv ==
    /\ links \in [1..MaxLinks -> [for : 0..MaxAccounts, purpose : {"reset", "activate"},
                                  state : {"none", "fresh", "old", "used", "expired"}]]
    /\ account.id = Absent => \A l \in 1..MaxLinks : links[l] = NoLink

SessionInv ==
    /\ now \in 0..MaxTime
    /\ session = NoSession \/ session \in [iat : 0..now, key : 1..key]
    /\ challenges \subseteq {"register", "passkey_login"}

SignInInv ==
    /\ AccountInv /\ SeedInv /\ CountInv /\ LinkInv /\ SessionInv
    /\ LoginInv /\ RequestInv

----------------------------------------------------------------------------
(* Rows. *)

Fields == {"id", "made", "hash", "active", "fails", "lock", "validFrom", "enabled",
           "sealed", "counter", "passkey"}

\* A commit writes the columns that differ from what was read.
LEMMA WrittenRow ==
    ASSUME account \in Row, NEW row \in Row, NEW new \in Row
    PROVE  /\ Written(row, new) \in Row
           /\ \A f \in Fields : Written(row, new)[f] = IF new[f] = row[f] THEN account[f] ELSE new[f]
<1>1. DOMAIN account = Fields
  BY DEF Row, Fields
<1>2. \A f \in DOMAIN account : Written(row, new)[f] = IF new[f] = row[f] THEN account[f] ELSE new[f]
  BY DEF Written
<1>3. Written(row, new) \in Row
  BY <1>1 DEF Written, Row, Fields
<1> QED BY <1>1, <1>2, <1>3

\* The columns that a request which is not about them leaves alone.
Alike(row, new, F) == \A f \in F : new[f] = row[f]

LEMMA FailedRow ==
    ASSUME NEW row \in Row
    PROVE  /\ Failed(row) \in Row
           /\ Failed(row).fails = IF row.fails + 1 >= MaxFails THEN 0 ELSE row.fails + 1
           /\ Alike(row, Failed(row), Fields \ {"fails", "lock"})
<1>1. CASE row.fails + 1 >= MaxFails
  <2>1. 0 \in 0..(MaxFails - 1)
    BY SignInAssumption DEF SignInAssumption
  <2> QED BY <1>1, <2>1 DEF Failed, Row, Alike, Fields
<1>2. CASE ~(row.fails + 1 >= MaxFails)
  <2> DEFINE n == row.fails + 1
  <2>1. n \in 0..(MaxFails - 1)
    BY <1>2, SignInAssumption DEF SignInAssumption, Row
  <2>2. Failed(row) = [row EXCEPT !.fails = n]
    BY <1>2 DEF Failed
  <2> HIDE DEF n
  <2>3. [row EXCEPT !.fails = n] \in Row
    BY <2>1 DEF Row
  <2> QED BY <1>2, <2>1, <2>2, <2>3 DEF Row, n, Alike, Fields
<1> QED BY <1>1, <1>2

LEMMA ClearedRow ==
    ASSUME NEW row \in Row
    PROVE  /\ Cleared(row) \in Row /\ Cleared(row).fails = 0
           /\ Alike(row, Cleared(row), Fields \ {"fails", "lock"})
<1>1. 0 \in 0..(MaxFails - 1)
  BY SignInAssumption DEF SignInAssumption
<1> QED BY <1>1 DEF Cleared, Row, Alike, Fields

LEMMA RevokedRow ==
    ASSUME NEW row \in Row, now \in 0..MaxTime
    PROVE  /\ Revoked(row) \in Row /\ Revoked(row).validFrom = now
           /\ Alike(row, Revoked(row), Fields \ {"validFrom"})
BY DEF Revoked, Row, Alike, Fields

LEMMA BurntRow ==
    ASSUME NEW row \in Row, NEW c \in 0..(MaxTime + 1)
    PROVE  /\ Burnt(row, c) \in Row /\ Burnt(row, c).counter = c
           /\ Alike(row, Burnt(row, c), Fields \ {"counter"})
<1>1. c \in None..(MaxTime + 1)
  BY SignInAssumption DEF None, SignInAssumption
<1> QED BY <1>1 DEF Burnt, Row, Alike, Fields

LEMMA WithoutFactorRow ==
    ASSUME NEW row \in Row
    PROVE  /\ WithoutFactor(row) \in Row
           /\ WithoutFactor(row).sealed = 0 /\ ~WithoutFactor(row).enabled
           /\ Alike(row, WithoutFactor(row), Fields \ {"enabled", "sealed", "counter"})
<1>1. None \in None..(MaxTime + 1) /\ 0 \in 0..MaxKeys
  BY SignInAssumption DEF None, SignInAssumption
<1> QED BY <1>1 DEF WithoutFactor, Row, Alike, Fields

LEMMA ActiveRow ==
    ASSUME NEW row \in Row, NEW on \in BOOLEAN
    PROVE  /\ [row EXCEPT !.active = on] \in Row /\ [row EXCEPT !.active = on].active = on
           /\ Alike(row, [row EXCEPT !.active = on], Fields \ {"active"})
BY DEF Row, Alike, Fields

LEMMA HashRow ==
    ASSUME NEW row \in Row, NEW pw \in Passwords
    PROVE  /\ [row EXCEPT !.hash = [pw |-> pw, cost |-> "current"]] \in Row
           /\ Alike(row, [row EXCEPT !.hash = [pw |-> pw, cost |-> "current"]], Fields \ {"hash"})
<1> DEFINE h == [pw |-> pw, cost |-> "current"]
<1>1. h \in [pw : Passwords \cup {"unusable"}, cost : {"current", "lower"}]
  OBVIOUS
<1> HIDE DEF h
<1>2. [row EXCEPT !.hash = h] \in Row /\ Alike(row, [row EXCEPT !.hash = h], Fields \ {"hash"})
  BY <1>1 DEF Row, Alike, Fields
<1> QED BY <1>2 DEF h

LEMMA PasskeyRow ==
    ASSUME NEW row \in Row, NEW b \in BOOLEAN
    PROVE  /\ [row EXCEPT !.passkey = b] \in Row
           /\ Alike(row, [row EXCEPT !.passkey = b], Fields \ {"passkey"})
BY DEF Row, Alike, Fields

LEMMA LockRow ==
    ASSUME NEW row \in Row, NEW l \in {"none", "running", "over"}
    PROVE  /\ [row EXCEPT !.lock = l] \in Row
           /\ Alike(row, [row EXCEPT !.lock = l], Fields \ {"lock"})
BY DEF Row, Alike, Fields

LEMMA EnabledRow ==
    ASSUME NEW row \in Row, NEW c \in 0..(MaxTime + 1)
    PROVE  /\ [row EXCEPT !.counter = c, !.enabled = TRUE] \in Row
           /\ [row EXCEPT !.counter = c, !.enabled = TRUE].enabled
           /\ Alike(row, [row EXCEPT !.counter = c, !.enabled = TRUE], Fields \ {"counter", "enabled"})
<1>1. c \in None..(MaxTime + 1)
  BY SignInAssumption DEF None, SignInAssumption
<1> QED BY <1>1 DEF Row, Alike, Fields

LEMMA SealedRow ==
    ASSUME NEW row \in Row, NEW k \in 0..MaxKeys, NEW c \in None..(MaxTime + 1)
    PROVE  /\ [row EXCEPT !.sealed = k, !.counter = c] \in Row
           /\ [row EXCEPT !.sealed = k, !.counter = c].sealed = k
           /\ Alike(row, [row EXCEPT !.sealed = k, !.counter = c], Fields \ {"sealed", "counter"})
BY DEF Row, Alike, Fields

LEMMA NoAccountRow ==
    ASSUME NEW made \in 0..MaxAccounts
    PROVE  [NoAccount EXCEPT !.made = made] \in Row
<1>1. /\ 0 \in 0..MaxAccounts /\ 0 \in 0..(MaxFails - 1) /\ 0 \in 0..MaxTime /\ 0 \in 0..MaxKeys
      /\ None \in None..(MaxTime + 1)
  BY SignInAssumption DEF SignInAssumption, None
<1> QED BY <1>1 DEF NoAccount, Row, Absent

----------------------------------------------------------------------------
(* What steps leave alone. *)

\* What an action property asks of a step.
SessionsEnd ==
    /\ account'.id = account.id => account'.validFrom >= account.validFrom
    /\ Revoking /\ session.iat < now => ~Accepts(account', Ring', session)

\* What a request holds stays true of an account that is the same one with no
\* earlier end of sessions, or another one.
LEMMA RequestKeeps ==
    ASSUME AccountInv, AccountInv', NEW r, RequestOK(r),
           account'.made >= account.made,
           account'.id = account.id => account'.validFrom >= account.validFrom,
           account'.id # account.id => account'.id = Absent \/ account'.id > account.made
    PROVE  RequestOK(r)'
<1>1. account.made \in Nat /\ account'.made \in Nat /\ account'.id \in Nat /\ account.id \in Nat
      /\ account.validFrom \in Nat /\ account'.validFrom \in Nat
  BY SignInAssumption DEF AccountInv, Row, SignInAssumption
<1>2. CASE r = NoRequest
  BY <1>2 DEF RequestOK, NoRequest
<1>3. CASE r # NoRequest
  <2>1. r.id \in 1..account.made /\ r.id \in 1..account'.made
    BY <1>1, <1>3 DEF RequestOK
  <2>2. account'.id = r.id => account.id = r.id
    BY <1>1, <2>1 DEF Absent
  <2>3. ASSUME r.kind \in Reading, account'.id = r.id PROVE r.row.validFrom <= account'.validFrom
    <3>1. r.row.validFrom \in Nat /\ r.row.validFrom <= account.validFrom
      BY <1>3, <2>2, <2>3, SignInAssumption DEF RequestOK, Row, SignInAssumption
    <3> QED BY <1>1, <2>2, <2>3, <3>1
  <2> QED BY <1>3, <2>1, <2>3 DEF RequestOK
<1> QED BY <1>2, <1>3

\* Requests that stay or end.
LEMMA RequestsKeep ==
    ASSUME RequestInv, AccountInv, AccountInv',
           request' = [t \in Threads |-> request'[t]],
           \A t \in Threads : request'[t] \in {request[t], NoRequest},
           account'.made >= account.made,
           account'.id = account.id => account'.validFrom >= account.validFrom,
           account'.id # account.id => account'.id = Absent \/ account'.id > account.made
    PROVE  RequestInv'
<1>1. \A r : RequestOK(r) => RequestOK(r)'
  BY RequestKeeps
<1>2. RequestOK(NoRequest)
  BY DEF RequestOK
<1> QED BY <1>1, <1>2 DEF RequestInv, RequestOK

\* A request that begins, over an account that is as it was.
LEMMA BeginKeeps ==
    ASSUME RequestInv, NEW t \in Threads, NEW r, Begin(t, r), UNCHANGED account, RequestOK(r)'
    PROVE  RequestInv'
<1>1. ASSUME NEW u \in Threads, u # t PROVE RequestOK(request[u])'
  <2>1. request'[u] = request[u]
    BY <1>1 DEF Begin, RequestInv
  <2> QED BY <2>1 DEF RequestInv, RequestOK
<1> QED BY <1>1 DEF Begin, RequestInv

LEMMA LoginKeeps ==
    ASSUME LoginInv, UNCHANGED login, CountInv, guesses' \in {guesses, 0}, spent' \in {spent, {}}
    PROVE  LoginInv'
<1>1. CASE login = Idle
  BY <1>1 DEF LoginInv
<1>2. CASE login # Idle
  <2>1. login.row \in Row /\ login.row.fails \in Nat
    BY <1>2, SignInAssumption DEF LoginInv, Row, SignInAssumption
  <2>2. login.phase = "checking" => guesses' <= login.row.fails
                                    /\ \A c \in spent' : c <= login.row.counter
    BY <1>2, <2>1 DEF LoginInv
  <2> QED BY <1>2, <2>2 DEF LoginInv
<1> QED BY <1>1, <1>2

\* The columns that are typed, as numbers.
LEMMA Numbers ==
    ASSUME NEW row \in Row
    PROVE  /\ row.id \in Nat /\ row.made \in Nat /\ row.fails \in Nat /\ row.validFrom \in Nat
           /\ row.sealed \in Nat /\ row.counter \in Int /\ MaxFails \in Nat /\ MaxTime \in Nat
           /\ row.active \in BOOLEAN /\ row.enabled \in BOOLEAN
BY SignInAssumption DEF Row, SignInAssumption, None

\* A step that leaves the account's row and everything counted from it alone.
LEMMA AccountStays ==
    ASSUME SignInInv, UNCHANGED <<account, keys, history>>, now' \in {now, now + 1}, now' \in 0..MaxTime
    PROVE  AccountInv' /\ SeedInv' /\ CountInv' /\ SessionsEnd
<1>1. account.validFrom \in Nat /\ now \in Nat
  BY Numbers DEF SignInInv, AccountInv, SessionInv
<1> QED BY <1>1 DEF SignInInv, AccountInv, SeedInv, CountInv, SessionsEnd, Revoking, keys, history, Ring

\* A commit to the row of the account that is there, under the keys as they are.
LEMMA CommitKeeps ==
    ASSUME SignInInv, UNCHANGED <<now, keys>>, account.id # Absent, account' \in Row,
           Alike(account, account', {"id", "made"}),
           account'.validFrom \in {account.validFrom, now},
           account'.sealed \in {account.sealed, 0, key}
    PROVE  /\ AccountInv' /\ SeedInv'
           /\ account'.validFrom >= account.validFrom
<1>1. account'.id = account.id /\ account'.made = account.made
  BY DEF Alike
<1>2. account.validFrom \in Nat /\ now \in Nat /\ account.validFrom <= now
  BY Numbers DEF SignInInv, AccountInv, SessionInv
<1>3. AccountInv'
  BY <1>1, <1>2 DEF SignInInv, AccountInv
<1>4. SeedInv'
  BY DEF SignInInv, SeedInv, Ring, keys
<1> QED BY <1>2, <1>3, <1>4

----------------------------------------------------------------------------
(* Steps that do not write the row. *)

LEMMA SessionStays ==
    ASSUME SignInInv, UNCHANGED <<now, key>>, challenges' \subseteq {"register", "passkey_login"},
           TokenIssued \/ UNCHANGED session
    PROVE  SessionInv'
<1>1. key \in 1..key /\ now \in 0..now
  BY SignInAssumption DEF SignInInv, SeedInv, SessionInv, SignInAssumption
<1>2. [iat |-> now, key |-> key] \in [iat : 0..now, key : 1..key]
  BY <1>1
<1> QED BY <1>2 DEF SignInInv, SessionInv, TokenIssued

\* What a request holds that begins now.
Asked(r) ==
    \/ \E kind : kind \notin {"issue", "set_password"} /\ r = Over(kind)
    \/ \E kind : kind \notin Reading \cup {"issue"} /\ r = Of(kind)
    \/ \E purpose \in {"reset", "activate"} : r = Issue(purpose)

LEMMA FreshRequest ==
    ASSUME SignInInv, account.id # Absent, UNCHANGED account, NEW r, Asked(r)
    PROVE  RequestOK(r)'
<1>1. /\ account.id \in 1..account.made /\ account \in Row
      /\ account.validFrom \in Nat
  BY Numbers DEF SignInInv, AccountInv, Absent
<1>2. ASSUME NEW kind, kind \notin {"issue", "set_password"}, r = Over(kind) PROVE RequestOK(r)'
  BY <1>1, <1>2 DEF RequestOK, Over
<1>3. ASSUME NEW kind, kind \notin Reading \cup {"issue"}, r = Of(kind) PROVE RequestOK(r)'
  <2>1. kind # "set_password"
    BY <1>3 DEF Reading
  <2> QED BY <1>1, <1>3, <2>1 DEF RequestOK, Of
<1>4. ASSUME NEW purpose \in {"reset", "activate"}, r = Issue(purpose) PROVE RequestOK(r)'
  <2>1. "issue" \notin Reading
    BY DEF Reading
  <2> QED BY <1>1, <1>4, <2>1 DEF RequestOK, Issue
<1> QED BY <1>2, <1>3, <1>4 DEF Asked

LEMMA LoginReadOK ==
    ASSUME SignInInv, NEW pw \in Passwords, LoginRead(pw)
    PROVE  SignInInv' /\ SessionsEnd
<1>1. LoginInv'
  BY DEF LoginRead, LoginInv, SignInInv, AccountInv, CountInv, history
<1>2. AccountInv' /\ SeedInv' /\ CountInv' /\ SessionsEnd
  BY AccountStays DEF LoginRead, SignInInv, SessionInv
<1>3. SessionInv' /\ LinkInv' /\ RequestInv'
  BY DEF LoginRead, SignInInv, SessionInv, LinkInv, RequestInv, RequestOK, keys
<1> QED BY <1>1, <1>2, <1>3 DEF SignInInv

LEMMA LoginEndsOK ==
    ASSUME SignInInv, LoginRefused \/ LoginBreaks
    PROVE  SignInInv' /\ SessionsEnd
<1>1. login' = Idle /\ UNCHANGED <<now, account, links, session, keys, request, challenges, history>>
  BY DEF LoginRefused, LoginBreaks
<1>2. AccountInv' /\ SeedInv' /\ CountInv' /\ SessionsEnd
  BY <1>1, AccountStays DEF SignInInv, SessionInv
<1>3. SessionInv' /\ LinkInv' /\ RequestInv' /\ LoginInv'
  BY <1>1 DEF SignInInv, SessionInv, LinkInv, RequestInv, RequestOK, LoginInv, keys
<1> QED BY <1>2, <1>3 DEF SignInInv

\* A request that begins and does nothing else but open or take a challenge.
LEMMA AsksOK ==
    ASSUME SignInInv, NEW t \in Threads, NEW r, Begin(t, r), RequestOK(r)',
           UNCHANGED <<now, account, links, session, keys, login, history>>,
           challenges' \subseteq challenges
    PROVE  SignInInv' /\ SessionsEnd
<1>1. AccountInv' /\ SeedInv' /\ CountInv' /\ SessionsEnd
  BY AccountStays DEF SignInInv, SessionInv
<1>2. RequestInv' /\ LoginInv'
  BY BeginKeeps, LoginKeeps DEF SignInInv, history
<1>3. SessionInv' /\ LinkInv'
  BY DEF SignInInv, SessionInv, LinkInv, keys
<1> QED BY <1>1, <1>2, <1>3 DEF SignInInv

LEMMA BeginOwnOK ==
    ASSUME SignInInv, NEW t \in Threads, BeginOwn(t)
    PROVE  SignInInv' /\ SessionsEnd
<1>1. PICK r : r \in {Of("change_password"), Of("delete_passkey"), Over("totp_disable"),
                     Over("totp_setup"), Over("totp_enable")} /\ Ask(t, r)
  BY DEF BeginOwn
<1>2. account.id # Absent /\ UNCHANGED account
  BY <1>1 DEF Ask, SignedIn, Accepts
<1>3. Asked(r)
  BY <1>1 DEF Asked, Reading
<1>4. RequestOK(r)'
  BY <1>2, <1>3, FreshRequest
<1> QED BY <1>1, <1>4, AsksOK DEF Ask

LEMMA AdministerOK ==
    ASSUME SignInInv, NEW t \in Threads,
           \/ \E r \in {Over("update_user"), Over("reset_totp"), Of("delete_user")} : Administer(t, r)
           \/ Administer(t, Issue(IF account.active THEN "reset" ELSE "activate"))
           \/ Forgot(t)
    PROVE  SignInInv' /\ SessionsEnd
<1>1. account.id # Absent /\ UNCHANGED account
  BY DEF Administer, Forgot, SignInInv, AccountInv
<1>2. PICK r \in {Over("update_user"), Over("reset_totp"), Of("delete_user"), Issue("reset"),
                  Issue("activate")} : Administer(t, r) \/ (r = Issue("reset") /\ Forgot(t))
  OBVIOUS
<1>3. Asked(r)
  BY <1>2 DEF Asked, Reading
<1>4. RequestOK(r)'
  BY <1>1, <1>3, FreshRequest
<1>5. Begin(t, r) /\ UNCHANGED <<now, account, links, session, keys, login, challenges, history>>
  BY <1>2 DEF Administer, Forgot
<1> QED BY <1>4, <1>5, AsksOK

LEMMA FollowLinkOK ==
    ASSUME SignInInv, NEW t \in Threads, FollowLink(t)
    PROVE  SignInInv' /\ SessionsEnd
<1>1. PICK l \in 1..MaxLinks :
        /\ Unused(l)
        /\ Begin(t, [kind |-> "set_password", link |-> l, id |-> account.id, row |-> account])
  BY DEF FollowLink
<1>2. account.id # Absent
  BY <1>1 DEF Unused, SignInInv, LinkInv, NoLink
<1>3. UNCHANGED account /\ account.id \in 1..account.made /\ account \in Row /\ account.validFrom \in Nat
  BY <1>2, Numbers DEF FollowLink, SignInInv, AccountInv, Absent
<1>4. PICK r : r = [kind |-> "set_password", link |-> l, id |-> account.id, row |-> account]
  OBVIOUS
<1>5. RequestOK(r)'
  BY <1>3, <1>4 DEF RequestOK
<1> QED BY <1>1, <1>4, <1>5, AsksOK DEF FollowLink

LEMMA PasskeyAsksOK ==
    ASSUME SignInInv, NEW t \in Threads,
           (SignedIn /\ Take(t, "register")) \/ (MayUsePasskey /\ Take(t, "passkey_login"))
    PROVE  SignInInv' /\ SessionsEnd
<1>1. PICK r \in {Of("register"), Of("passkey_login")} :
        /\ Begin(t, r) /\ challenges' \subseteq challenges
        /\ UNCHANGED <<now, account, links, session, keys, login, history>>
  BY DEF Take, Taken
<1>2. account.id # Absent
  BY DEF SignedIn, Accepts, MayUsePasskey, SignInInv, AccountInv
<1>3. Asked(r)
  BY <1>1 DEF Asked, Reading
<1>4. RequestOK(r)'
  BY <1>1, <1>2, <1>3, FreshRequest
<1> QED BY <1>1, <1>4, AsksOK

LEMMA ChallengesOK ==
    ASSUME SignInInv, Open("register") \/ Open("passkey_login") \/ ChallengeRunsOut
    PROVE  SignInInv' /\ SessionsEnd
<1>1. /\ UNCHANGED <<now, account, links, session, keys, login, request, history>>
      /\ challenges' \subseteq {"register", "passkey_login"}
  BY DEF Open, ChallengeRunsOut, SignInInv, SessionInv
<1>2. AccountInv' /\ SeedInv' /\ CountInv' /\ SessionsEnd
  BY <1>1, AccountStays DEF SignInInv, SessionInv
<1>3. SessionInv' /\ LinkInv' /\ RequestInv' /\ LoginInv'
  BY <1>1 DEF SignInInv, SessionInv, LinkInv, RequestInv, RequestOK, LoginInv, keys, history
<1> QED BY <1>2, <1>3 DEF SignInInv

LEMMA Answered ==
    ASSUME SignInInv, NEW t \in Threads, End(t), UNCHANGED account
    PROVE  RequestInv'
<1>1. \A u \in Threads : request'[u] \in {request[u], NoRequest}
  BY DEF End, SignInInv, RequestInv
<1>2. request' = [u \in Threads |-> request'[u]]
  BY DEF End, SignInInv, RequestInv
<1> QED BY <1>1, <1>2 DEF SignInInv, RequestInv, RequestOK, NoRequest

\* A refused request, and a passkey that signs in.
LEMMA AbandonOK ==
    ASSUME SignInInv, NEW t \in Threads, Abandon(t) \/ PasskeyLogin(t)
    PROVE  SignInInv' /\ SessionsEnd
<1>1. /\ UNCHANGED <<now, account, links, keys, login, challenges, history>> /\ End(t)
      /\ TokenIssued \/ UNCHANGED session
  BY DEF Abandon, PasskeyLogin, Committing
<1>2. AccountInv' /\ SeedInv' /\ CountInv' /\ SessionsEnd
  BY <1>1, AccountStays DEF SignInInv, SessionInv
<1>3. SessionInv' /\ RequestInv'
  BY <1>1, SessionStays, Answered DEF keys, SignInInv, SessionInv
<1>4. LinkInv' /\ LoginInv'
  BY <1>1 DEF SignInInv, LinkInv, LoginInv, history
<1> QED BY <1>2, <1>3, <1>4 DEF SignInInv

LEMMA LinksOK ==
    ASSUME SignInInv, LinkAges \/ \E t \in Threads : IssueLink(t)
    PROVE  SignInInv' /\ SessionsEnd
<1>1. /\ UNCHANGED <<now, account, session, keys, login, challenges, history>>
      /\ UNCHANGED request \/ \E t \in Threads : End(t)
  BY DEF LinkAges, IssueLink, Committing
<1>2. AccountInv' /\ SeedInv' /\ CountInv' /\ SessionsEnd
  BY <1>1, AccountStays DEF SignInInv, SessionInv
<1>3. SessionInv' /\ LoginInv'
  BY <1>1 DEF SignInInv, SessionInv, LoginInv, keys, history
<1>4. RequestInv'
  BY <1>1, Answered DEF SignInInv, RequestInv, RequestOK
<1> DEFINE Link == [for : 0..MaxAccounts, purpose : {"reset", "activate"},
                    state : {"none", "fresh", "old", "used", "expired"}]
<1>5. \A k \in Link, st \in {"used", "old", "expired"} : [k EXCEPT !.state = st] \in Link
  OBVIOUS
<1>6. links \in [1..MaxLinks -> Link]
  BY DEF SignInInv, LinkInv
<1> HIDE DEF Link
<1>7. CASE LinkAges
  <2>1. PICK l \in 1..MaxLinks :
          /\ Unused(l)
          /\ links' = [links EXCEPT ![l].state = IF @ = "fresh" THEN "old" ELSE "expired"]
    BY <1>7 DEF LinkAges
  <2>2. links' \in [1..MaxLinks -> Link]
    BY <1>5, <1>6, <2>1
  <2>3. account.id # Absent
    BY <2>1 DEF Unused, SignInInv, LinkInv, NoLink
  <2>4. LinkInv'
    BY <1>1, <2>2, <2>3 DEF LinkInv, Link
  <2> QED BY <1>2, <1>3, <1>4, <2>4 DEF SignInInv
<1>8. CASE \E t \in Threads : IssueLink(t)
  <2>1. PICK t \in Threads : IssueLink(t)
    BY <1>8
  <2> DEFINE new == [for |-> account.id, purpose |-> request[t].purpose, state |-> "fresh"]
  <2>2. PICK l \in 1..MaxLinks :
          links' = [m \in 1..MaxLinks |-> CASE m = l -> new
                                            [] m \in request[t].old -> [links[m] EXCEPT !.state = "used"]
                                            [] OTHER -> links[m]]
    BY <2>1 DEF IssueLink
  <2>3. account.id # Absent /\ request[t].purpose \in {"reset", "activate"}
    BY <2>1 DEF IssueLink, Committing, There, SignInInv, RequestInv, RequestOK, NoRequest
  <2>4. new \in Link
    BY <2>3 DEF Link, SignInInv, AccountInv, Row
  <2> HIDE DEF new
  <2>5. ASSUME NEW m \in 1..MaxLinks PROVE links'[m] \in Link
    <3>1. links'[m] \in {new, [links[m] EXCEPT !.state = "used"], links[m]}
      BY <2>2
    <3>2. [links[m] EXCEPT !.state = "used"] \in Link /\ links[m] \in Link
      BY <1>5, <1>6
    <3> QED BY <2>4, <3>1, <3>2
  <2>6. links' \in [1..MaxLinks -> Link]
    BY <2>2, <2>5
  <2>7. LinkInv'
    BY <1>1, <2>3, <2>6 DEF LinkInv, Link
  <2> QED BY <1>2, <1>3, <1>4, <2>7 DEF SignInInv
<1> QED BY <1>7, <1>8

LEMMA TickOK ==
    ASSUME SignInInv, Tick
    PROVE  SignInInv' /\ SessionsEnd
<1>1. now' \in 0..MaxTime /\ now \in 0..MaxTime /\ now' = now + 1
  BY SignInAssumption DEF Tick, SignInInv, SessionInv, SignInAssumption
<1>2. AccountInv' /\ SeedInv' /\ CountInv' /\ SessionsEnd
  BY <1>1, AccountStays DEF Tick
<1>3. LinkInv' /\ RequestInv' /\ LoginInv'
  BY DEF Tick, process, history, SignInInv, LinkInv, RequestInv, RequestOK, LoginInv
<1>4. \A i \in 0..now : i \in 0..now'
  BY <1>1
<1>5. SessionInv'
  BY <1>1, <1>4 DEF Tick, process, keys, SignInInv, SessionInv
<1> QED BY <1>2, <1>3, <1>5 DEF SignInInv

----------------------------------------------------------------------------
(* Steps that write the row. *)

\* The same account, written by a request that is still of this account.
LEMMA RequestsOutlast ==
    ASSUME SignInInv, AccountInv', account'.id = account.id, account'.made = account.made,
           account'.validFrom >= account.validFrom,
           UNCHANGED request \/ \E t \in Threads : End(t)
    PROVE  RequestInv'
<1>1. request' = [t \in Threads |-> request'[t]]
  BY DEF End, SignInInv, RequestInv
<1>2. \A t \in Threads : request'[t] \in {request[t], NoRequest}
  BY DEF End, SignInInv, RequestInv
<1>3. account.made \in Nat
  BY Numbers DEF SignInInv, AccountInv
<1> QED BY <1>1, <1>2, <1>3, RequestsKeep DEF SignInInv

\* What a reading request has read.
LEMMA HasRead ==
    ASSUME SignInInv, NEW t \in Threads, NEW kind \in Reading, Committing(t, kind)
    PROVE  /\ request[t].row \in Row
           /\ request[t].row.validFrom <= account.validFrom
           /\ request[t].row.validFrom \in Nat
           /\ account.id # Absent /\ account \in Row
<1>1. request[t] # NoRequest /\ RequestOK(request[t])
  BY DEF Committing, Reading, NoRequest, SignInInv, RequestInv
<1>2. request[t].row \in Row /\ request[t].row.validFrom <= account.validFrom
  BY <1>1 DEF RequestOK, Committing, There
<1> QED BY <1>2, Numbers DEF Committing, There, SignInInv, AccountInv

\* A step that ends no sessions needs to end none.
LEMMA NothingRevoked ==
    ASSUME account'.id = account.id => account'.validFrom >= account.validFrom,
           UNCHANGED chosen, account.active => account'.active, account.enabled => account'.enabled
    PROVE  SessionsEnd
BY DEF SessionsEnd, Revoking

\* One that does makes now the first second that counts.
LEMMA EverythingRevoked ==
    ASSUME account'.validFrom = now, AccountInv, AccountInv', SessionInv, UNCHANGED now
    PROVE  SessionsEnd
<1>1. account.validFrom \in Nat /\ now \in Nat /\ account.validFrom <= now
  BY Numbers DEF AccountInv, SessionInv
<1>2. session.iat < now => ~(session.iat >= now)
  <2>1. session.iat \in Int
    BY SignInAssumption DEF SessionInv, NoSession, None, SignInAssumption
  <2> QED BY <1>1, <2>1
<1> QED BY <1>1, <1>2 DEF SessionsEnd, Accepts

LEMMA LoginFailsOK ==
    ASSUME SignInInv, LoginFails
    PROVE  SignInInv' /\ SessionsEnd
<1> DEFINE row   == login.row
           new   == Failed(row)
           locks == new.fails = 0
           put   == Written(row, new)
<1>1. /\ row \in Row /\ account \in Row /\ account.id # Absent
      /\ guesses <= row.fails /\ guesses \in Nat /\ guesses <= account.fails
  <2>1. login.phase = "checking" /\ login # Idle
    BY DEF LoginFails, Checking, Idle
  <2> QED BY <2>1 DEF LoginFails, There, SignInInv, LoginInv, AccountInv, CountInv
<1>2. /\ account' = [put EXCEPT !.lock = IF locks THEN "running" ELSE @]
      /\ guesses' = IF locks THEN 0 ELSE guesses + 1
      /\ login' = Idle
      /\ UNCHANGED <<now, links, session, keys, request, challenges, chosen, spent>>
  BY DEF LoginFails
<1>3. /\ new \in Row
      /\ new.fails = IF row.fails + 1 >= MaxFails THEN 0 ELSE row.fails + 1
      /\ Alike(row, new, Fields \ {"fails", "lock"})
  BY <1>1, FailedRow
<1> HIDE DEF row, new
<1>4. /\ put \in Row
      /\ \A f \in Fields : put[f] = IF new[f] = row[f] THEN account[f] ELSE new[f]
  BY <1>1, <1>3, WrittenRow
<1>5. Alike(account, put, Fields \ {"fails", "lock"})
  BY <1>3, <1>4 DEF Alike, Fields
<1>6. put.fails = IF new.fails = row.fails THEN account.fails ELSE new.fails
  BY <1>4 DEF Fields
<1> HIDE DEF put
<1>7. account' \in Row /\ Alike(put, account', Fields \ {"lock"})
  <2> DEFINE l == IF locks THEN "running" ELSE put.lock
  <2>1. l \in {"none", "running", "over"}
    BY <1>4 DEF Row
  <2>2. account' = [put EXCEPT !.lock = l]
    BY <1>2
  <2> HIDE DEF l
  <2> QED BY <1>4, <2>1, <2>2, LockRow
<1>8. /\ Alike(account, account', Fields \ {"fails", "lock"}) /\ account'.fails = put.fails
  BY <1>5, <1>7 DEF Alike, Fields
<1>9. AccountInv' /\ SeedInv' /\ account'.validFrom >= account.validFrom
  BY <1>1, <1>2, <1>7, <1>8, CommitKeeps DEF Alike, Fields
<1>10. CountInv'
  <2>1. row.fails \in Nat /\ new.fails \in Nat /\ account.fails \in Nat
    BY <1>1, <1>3, Numbers
  <2>2. guesses' \in Nat /\ guesses' <= account'.fails
    BY <1>1, <1>2, <1>3, <1>6, <1>8, <2>1
  <2> QED BY <1>2, <1>8, <2>2 DEF SignInInv, CountInv, Alike, Fields
<1>11. LinkInv' /\ SessionInv' /\ LoginInv'
  BY <1>2, <1>8 DEF SignInInv, LinkInv, SessionInv, LoginInv, Alike, Fields, keys
<1>12. RequestInv'
  BY <1>2, <1>8, <1>9, RequestsOutlast DEF Alike, Fields
<1>13. SessionsEnd
  BY <1>2, <1>8, <1>9, NothingRevoked DEF Alike, Fields
<1> QED BY <1>9, <1>10, <1>11, <1>12, <1>13 DEF SignInInv

LEMMA LoginPassesOK ==
    ASSUME SignInInv, LoginPasses
    PROVE  SignInInv' /\ SessionsEnd
<1> DEFINE row == login.row
<1>1. /\ row \in Row /\ account \in Row /\ login.pw \in Passwords
      /\ \A c \in spent : c <= row.counter
  <2>1. login.phase = "checking" /\ login # Idle
    BY DEF LoginPasses, Checking, Idle
  <2> QED BY <2>1 DEF SignInInv, LoginInv, AccountInv
<1>2. /\ login' = [login EXCEPT !.phase = "passed", !.row = IF account' = account THEN @ ELSE account']
      /\ guesses' = 0
      /\ UNCHANGED <<now, links, session, keys, request, challenges, chosen>>
  BY DEF LoginPasses
<1>3. Cleared(row) \in Row /\ Alike(row, Cleared(row), Fields \ {"fails", "lock"})
  BY <1>1, ClearedRow
\* The row as it is after the login: only the failures, the lock and the code.
<1>4. /\ account' \in Row
      /\ Alike(account, account', Fields \ {"fails", "lock", "counter"})
      /\ account' = account \/ account.id # Absent
      /\ spent' \subseteq Int /\ \A c \in spent' : c <= account'.counter
  <2>1. CASE UNCHANGED <<account, spent>>
    BY <1>1, <2>1 DEF Alike, SignInInv, CountInv
  <2>2. CASE /\ There(row.id) /\ account' = Written(row, Cleared(row)) /\ spent' = spent
    <3> HIDE DEF row
    <3>1. /\ account' \in Row
          /\ \A f \in Fields : account'[f] = IF Cleared(row)[f] = row[f] THEN account[f] ELSE Cleared(row)[f]
      BY <1>1, <1>3, <2>2, WrittenRow
    <3>2. Alike(account, account', Fields \ {"fails", "lock"})
      BY <1>3, <3>1 DEF Alike, Fields
    <3> QED BY <2>2, <3>1, <3>2 DEF Alike, Fields, There, SignInInv, CountInv
  <2>3. ASSUME NEW c \in 0..(MaxTime + 1), There(row.id), Verifies(c, row),
               account' = Cleared(Written(row, Burnt(row, c))), spent' = spent \cup {c}
        PROVE  /\ account' \in Row
               /\ Alike(account, account', Fields \ {"fails", "lock", "counter"})
               /\ account.id # Absent
               /\ spent' \subseteq Int /\ \A d \in spent' : d <= account'.counter
    <3> DEFINE new == Burnt(row, c)
               put == Written(row, new)
    <3> HIDE DEF row
    <3>1. new \in Row /\ new.counter = c /\ Alike(row, new, Fields \ {"counter"})
      BY <1>1, BurntRow
    <3> HIDE DEF new
    <3>2. put \in Row /\ \A f \in Fields : put[f] = IF new[f] = row[f] THEN account[f] ELSE new[f]
      BY <1>1, <3>1, WrittenRow
    <3>3. c > row.counter /\ row.counter \in Int /\ c \in Int
      BY <1>1, <2>3, Numbers DEF Verifies
    <3>4. put.counter = c /\ Alike(account, put, Fields \ {"counter"})
      BY <3>1, <3>2, <3>3 DEF Alike, Fields
    <3>5. account' = Cleared(put)
      BY <2>3 DEF new, row
    <3> HIDE DEF put
    <3>6. account' \in Row /\ Alike(put, account', Fields \ {"fails", "lock"})
      BY <3>2, <3>5, ClearedRow
    <3>7. account'.counter = c /\ Alike(account, account', Fields \ {"fails", "lock", "counter"})
      BY <3>4, <3>6 DEF Alike, Fields
    <3>8. \A d \in spent : d \in Int /\ d <= c
      BY <1>1, <3>3 DEF SignInInv, CountInv
    <3> QED BY <2>3, <3>3, <3>6, <3>7, <3>8 DEF There
  <2>4. \/ UNCHANGED <<account, spent>>
        \/ There(row.id) /\ account' = Written(row, Cleared(row)) /\ spent' = spent
        \/ \E c \in 0..(MaxTime + 1) :
              /\ There(row.id) /\ Verifies(c, row)
              /\ account' = Cleared(Written(row, Burnt(row, c))) /\ spent' = spent \cup {c}
    BY DEF LoginPasses
  <2> HIDE DEF row
  <2> QED BY <2>1, <2>2, <2>3, <2>4
<1>5. AccountInv' /\ SeedInv' /\ account'.validFrom >= account.validFrom
  <2>1. CASE account' = account
    BY <1>2, <2>1, Numbers DEF SignInInv, AccountInv, SeedInv, Ring, keys
  <2>2. CASE account.id # Absent
    BY <1>2, <1>4, <2>2, CommitKeeps DEF Alike, Fields
  <2> QED BY <1>4, <2>1, <2>2
<1>6. CountInv'
  BY <1>2, <1>4, Numbers DEF CountInv
<1>7. LoginInv'
  <2>1. login'.row \in Row /\ login'.phase = "passed" /\ login'.pw \in Passwords
    <3>1. login # Idle /\ login.phase = "checking"
      BY DEF LoginPasses, Checking, Idle
    <3>2. login'.phase = "passed" /\ login'.pw = login.pw /\ login'.row \in {row, account'}
      BY <1>2, <3>1 DEF LoginPasses
    <3> QED BY <1>1, <1>4, <3>2
  <2> QED BY <2>1 DEF LoginInv
<1>8. LinkInv' /\ SessionInv'
  BY <1>2, <1>4 DEF SignInInv, LinkInv, SessionInv, Alike, Fields, keys
<1>9. RequestInv'
  BY <1>2, <1>4, <1>5, RequestsOutlast DEF Alike, Fields
<1>10. SessionsEnd
  BY <1>2, <1>4, <1>5, NothingRevoked DEF Alike, Fields
<1> QED BY <1>5, <1>6, <1>7, <1>8, <1>9, <1>10 DEF SignInInv

LEMMA LoginIssuesOK ==
    ASSUME SignInInv, LoginIssues
    PROVE  SignInInv' /\ SessionsEnd
<1>1. /\ login.pw \in Passwords /\ login' = Idle /\ account \in Row /\ account.id # Absent
      /\ TokenIssued /\ UNCHANGED <<now, links, keys, request, challenges, history>>
  BY DEF LoginIssues, Idle, There, SignInInv, LoginInv, AccountInv
<1>2. account' \in Row /\ Alike(account, account', Fields \ {"hash"})
  <2>1. CASE account' = account
    BY <1>1, <2>1 DEF Alike
  <2>2. CASE account' = [account EXCEPT !.hash = [pw |-> login.pw, cost |-> "current"]]
    BY <1>1, <2>2, HashRow
  <2> QED BY <2>1, <2>2 DEF LoginIssues
<1>3. AccountInv' /\ SeedInv' /\ account'.validFrom >= account.validFrom
  BY <1>1, <1>2, CommitKeeps DEF Alike, Fields
<1>4. CountInv' /\ LinkInv' /\ LoginInv'
  BY <1>1, <1>2 DEF SignInInv, CountInv, LinkInv, LoginInv, Alike, Fields, history
<1>5. SessionInv'
  BY <1>1, SessionStays DEF keys, SignInInv, SessionInv
<1>6. RequestInv'
  BY <1>1, <1>2, <1>3, RequestsOutlast DEF Alike, Fields
<1>7. SessionsEnd
  BY <1>1, <1>2, <1>3, NothingRevoked DEF Alike, Fields, history
<1> QED BY <1>3, <1>4, <1>5, <1>6, <1>7 DEF SignInInv

\* The passwords the holder chooses, the passkeys, and the lock that runs out.
LEMMA ChangePasswordOK ==
    ASSUME SignInInv, NEW t \in Threads, ChangePassword(t)
    PROVE  SignInInv' /\ SessionsEnd
<1>1. /\ account \in Row /\ account.id # Absent /\ End(t) /\ TokenIssued
      /\ UNCHANGED <<now, links, keys, login, challenges, guesses, spent>>
  BY DEF ChangePassword, Committing, There, SignInInv, AccountInv
<1>2. PICK pw \in Passwords : account' = [Revoked(account) EXCEPT !.hash = [pw |-> pw, cost |-> "current"]]
  BY DEF ChangePassword
<1>3. /\ Revoked(account) \in Row /\ Revoked(account).validFrom = now
      /\ Alike(account, Revoked(account), Fields \ {"validFrom"})
  BY <1>1, RevokedRow DEF SignInInv, SessionInv
<1>4. account' \in Row /\ Alike(Revoked(account), account', Fields \ {"hash"})
  BY <1>2, <1>3, HashRow
<1>5. account'.validFrom = now /\ Alike(account, account', Fields \ {"validFrom", "hash"})
  BY <1>3, <1>4 DEF Alike, Fields
<1>6. AccountInv' /\ SeedInv' /\ account'.validFrom >= account.validFrom
  BY <1>1, <1>4, <1>5, CommitKeeps DEF Alike, Fields
<1>7. CountInv' /\ LinkInv' /\ LoginInv'
  BY <1>1, <1>5 DEF SignInInv, CountInv, LinkInv, LoginInv, Alike, Fields
<1>8. SessionInv'
  BY <1>1, SessionStays DEF keys, SignInInv, SessionInv
<1>9. RequestInv'
  BY <1>1, <1>5, <1>6, RequestsOutlast DEF Alike, Fields
<1>10. SessionsEnd
  BY <1>1, <1>5, <1>6, EverythingRevoked DEF SignInInv
<1> QED BY <1>6, <1>7, <1>8, <1>9, <1>10 DEF SignInInv

LEMMA PlainCommitsOK ==
    ASSUME SignInInv, LockRunsOut \/ \E t \in Threads : RegisterPasskey(t) \/ DeletePasskey(t)
    PROVE  SignInInv' /\ SessionsEnd
<1>1. account \in Row /\ account.validFrom \in Nat
  BY Numbers DEF SignInInv, AccountInv
<1>2. /\ account' \in Row /\ Alike(account, account', Fields \ {"lock", "passkey"})
      /\ UNCHANGED <<now, links, session, keys, login, challenges, history>>
      /\ UNCHANGED request \/ \E t \in Threads : End(t)
  <2>1. CASE LockRunsOut
    BY <1>1, <2>1, LockRow DEF LockRunsOut, Alike, process
  <2>2. CASE \E t \in Threads : RegisterPasskey(t) \/ DeletePasskey(t)
    BY <1>1, <2>2, PasskeyRow DEF RegisterPasskey, DeletePasskey, Committing, Alike
  <2> QED BY <2>1, <2>2
<1>3. /\ account'.id = account.id /\ account'.made = account.made
      /\ account'.validFrom = account.validFrom /\ account'.sealed = account.sealed
      /\ account'.active = account.active /\ account'.enabled = account.enabled
      /\ account'.fails = account.fails /\ account'.counter = account.counter
  BY <1>2 DEF Alike, Fields
<1>4. AccountInv' /\ SeedInv'
  BY <1>2, <1>3 DEF SignInInv, AccountInv, SeedInv, Ring, keys
<1>5. CountInv' /\ LinkInv' /\ LoginInv' /\ SessionInv'
  BY <1>2, <1>3 DEF SignInInv, CountInv, LinkInv, LoginInv, SessionInv, history, keys
<1>6. RequestInv'
  BY <1>1, <1>2, <1>3, <1>4, RequestsOutlast
<1>7. SessionsEnd
  BY <1>1, <1>2, <1>3, NothingRevoked DEF history
<1> QED BY <1>4, <1>5, <1>6, <1>7 DEF SignInInv

\* The second factor: what is decided is written, or what differs from the row
\* that was read; the codes of an earlier factor are forgotten.
LEMMA FactorKeeps ==
    ASSUME SignInInv, NEW t \in Threads, End(t), account.id # Absent,
           UNCHANGED <<now, links, session, keys, login, challenges, chosen, guesses>>, spent' = {},
           account' \in Row,
           Alike(account, account', Fields \ {"sealed", "counter", "enabled", "validFrom"}),
           account'.sealed \in {account.sealed, 0, key},
           account'.validFrom \in {account.validFrom, now}
    PROVE  SignInInv' /\ account'.validFrom >= account.validFrom
<1>1. /\ account'.id = account.id /\ account'.made = account.made
      /\ account'.active = account.active /\ account'.fails = account.fails
  BY DEF Alike, Fields
<1>2. AccountInv' /\ SeedInv' /\ account'.validFrom >= account.validFrom
  BY CommitKeeps DEF Alike, Fields
<1>3. CountInv' /\ LinkInv' /\ SessionInv'
  BY <1>1 DEF SignInInv, CountInv, LinkInv, SessionInv, keys
<1>4. RequestInv'
  BY <1>1, <1>2, RequestsOutlast
<1>5. LoginInv'
  BY LoginKeeps DEF SignInInv
<1> QED BY <1>2, <1>3, <1>4, <1>5 DEF SignInInv

LEMMA TotpSetupOK ==
    ASSUME SignInInv, NEW t \in Threads, TotpSetup(t)
    PROVE  SignInInv' /\ SessionsEnd
<1> DEFINE c == IF request[t].row.counter = None THEN account.counter ELSE None
<1>1. /\ account' = [account EXCEPT !.sealed = key, !.counter = c]
      /\ account.id # Absent /\ account \in Row /\ End(t) /\ spent' = {}
      /\ UNCHANGED <<now, links, session, keys, login, challenges, chosen, guesses>>
  BY DEF TotpSetup, Committing, There, SignInInv, AccountInv
<1>2. c \in None..(MaxTime + 1) /\ key \in 0..MaxKeys
  BY <1>1, SignInAssumption DEF SignInInv, SeedInv, Row, None, SignInAssumption
<1> HIDE DEF c
<1>3. /\ account' \in Row /\ account'.sealed = key
      /\ Alike(account, account', Fields \ {"sealed", "counter"})
  BY <1>1, <1>2, SealedRow
<1>4. SignInInv' /\ account'.validFrom >= account.validFrom
  BY <1>1, <1>3, FactorKeeps DEF Alike, Fields
<1>5. SessionsEnd
  BY <1>1, <1>3, <1>4, NothingRevoked DEF Alike, Fields
<1> QED BY <1>4, <1>5

LEMMA TotpEnableOK ==
    ASSUME SignInInv, NEW t \in Threads, TotpEnable(t)
    PROVE  SignInInv' /\ SessionsEnd
<1> DEFINE row == request[t].row
<1>1. /\ account.id # Absent /\ account \in Row /\ row \in Row
  BY HasRead DEF TotpEnable, Reading
<1>2. PICK c \in 0..(MaxTime + 1) : account' = Written(row, [row EXCEPT !.counter = c, !.enabled = TRUE])
  BY DEF TotpEnable
<1>3. End(t) /\ spent' = {} /\ UNCHANGED <<now, links, session, keys, login, challenges, chosen, guesses>>
  BY DEF TotpEnable, Committing
<1> DEFINE new == [row EXCEPT !.counter = c, !.enabled = TRUE]
<1> HIDE DEF row
<1>4. /\ new \in Row /\ new.enabled /\ Alike(row, new, Fields \ {"counter", "enabled"})
      /\ account' = Written(row, new)
  BY <1>1, <1>2, EnabledRow
<1> HIDE DEF new
<1>5. /\ account' \in Row
      /\ \A f \in Fields : account'[f] = IF new[f] = row[f] THEN account[f] ELSE new[f]
  BY <1>1, <1>4, WrittenRow
<1>6. /\ Alike(account, account', Fields \ {"counter", "enabled"})
      /\ account.enabled => account'.enabled
  <2>1. Alike(account, account', Fields \ {"counter", "enabled"})
    BY <1>4, <1>5 DEF Alike
  <2>2. account'.enabled = IF new.enabled = row.enabled THEN account.enabled ELSE new.enabled
    BY <1>5 DEF Fields
  <2> QED BY <1>4, <2>1, <2>2
<1>7. SignInInv' /\ account'.validFrom >= account.validFrom
  BY <1>1, <1>3, <1>5, <1>6, FactorKeeps DEF Alike, Fields
<1>8. SessionsEnd
  BY <1>3, <1>6, <1>7, NothingRevoked DEF Alike, Fields
<1> QED BY <1>7, <1>8

LEMMA TotpDisableOK ==
    ASSUME SignInInv, NEW t \in Threads, TotpDisable(t)
    PROVE  SignInInv' /\ SessionsEnd
<1> DEFINE row == request[t].row
           new == WithoutFactor(row)
<1>1. /\ account.id # Absent /\ account \in Row /\ row \in Row
  BY HasRead DEF TotpDisable, Reading
<1>2. /\ account' = Written(row, new) /\ request[t].kind = "totp_disable"
      /\ End(t) /\ spent' = {} /\ UNCHANGED <<now, links, session, keys, login, challenges, chosen, guesses>>
  BY DEF TotpDisable, Committing
<1>3. /\ new \in Row /\ new.sealed = 0
      /\ Alike(row, new, Fields \ {"enabled", "sealed", "counter"})
  BY <1>1, WithoutFactorRow
<1> HIDE DEF row, new
<1>4. /\ account' \in Row
      /\ \A f \in Fields : account'[f] = IF new[f] = row[f] THEN account[f] ELSE new[f]
  BY <1>1, <1>2, <1>3, WrittenRow
<1>5. /\ Alike(account, account', Fields \ {"enabled", "sealed", "counter"})
      /\ account'.sealed \in {account.sealed, 0}
  BY <1>3, <1>4 DEF Alike, Fields
<1>6. SignInInv' /\ account'.validFrom >= account.validFrom
  BY <1>1, <1>2, <1>4, <1>5, FactorKeeps DEF Alike, Fields
\* Another request's reset of the factor goes on.
<1>7. \A u \in Threads : ~(request[u].kind = "reset_totp" /\ request'[u] = NoRequest)
  BY <1>2 DEF End, SignInInv, RequestInv, NoRequest
<1>8. account'.active = account.active
  BY <1>5 DEF Alike, Fields
<1> QED BY <1>2, <1>6, <1>7, <1>8 DEF SessionsEnd, Revoking

LEMMA ResetTotpOK ==
    ASSUME SignInInv, NEW t \in Threads, ResetTotp(t)
    PROVE  SignInInv' /\ SessionsEnd
<1> DEFINE row == request[t].row
           bare == WithoutFactor(row)
           new == Revoked(bare)
<1>1. /\ account.id # Absent /\ account \in Row /\ row \in Row
      /\ row.validFrom <= account.validFrom /\ row.validFrom \in Nat
      /\ account.validFrom \in Nat /\ account.validFrom <= now /\ now \in 0..MaxTime /\ now \in Nat
  BY HasRead, Numbers DEF ResetTotp, Reading, SignInInv, AccountInv, SessionInv
<1>2. /\ account' = Written(row, new)
      /\ End(t) /\ spent' = {} /\ UNCHANGED <<now, links, session, keys, login, challenges, chosen, guesses>>
  BY DEF ResetTotp, Committing
<1>3. /\ bare \in Row /\ bare.sealed = 0
      /\ Alike(row, bare, Fields \ {"enabled", "sealed", "counter"})
  BY <1>1, WithoutFactorRow
<1> HIDE DEF row, bare
<1>4. new \in Row /\ new.validFrom = now /\ Alike(bare, new, Fields \ {"validFrom"})
  BY <1>1, <1>3, RevokedRow
<1> HIDE DEF new
<1>5. /\ account' \in Row
      /\ \A f \in Fields : account'[f] = IF new[f] = row[f] THEN account[f] ELSE new[f]
  BY <1>1, <1>2, <1>4, WrittenRow
<1>6. /\ Alike(account, account', Fields \ {"enabled", "sealed", "counter", "validFrom"})
      /\ account'.sealed \in {account.sealed, 0}
      /\ account'.validFrom = IF new.validFrom = row.validFrom THEN account.validFrom ELSE new.validFrom
  BY <1>3, <1>4, <1>5 DEF Alike, Fields
<1>7. account'.validFrom = now
  BY <1>1, <1>4, <1>6
<1>8. SignInInv'
  BY <1>1, <1>2, <1>5, <1>6, <1>7, FactorKeeps DEF Alike, Fields
<1>9. SessionsEnd
  BY <1>2, <1>7, <1>8, EverythingRevoked DEF SignInInv
<1> QED BY <1>8, <1>9

\* A request that sets the password or the activity, and with it may clear the
\* failures and end the sessions.
LEMMA AccessKeeps ==
    ASSUME SignInInv, NEW t \in Threads, End(t), account.id # Absent,
           UNCHANGED <<now, session, keys, login, challenges, spent>>, LinkInv',
           account' \in Row,
           Alike(account, account', Fields \ {"active", "fails", "lock", "validFrom", "hash"}),
           account'.fails \in {account.fails, 0},
           guesses' \in {guesses, 0}, account'.fails = 0 => guesses' = 0,
           account'.validFrom \in {account.validFrom, now}
    PROVE  SignInInv' /\ account'.validFrom >= account.validFrom
<1>1. /\ account'.id = account.id /\ account'.made = account.made
      /\ account'.sealed = account.sealed /\ account'.counter = account.counter
  BY DEF Alike, Fields
<1>2. AccountInv' /\ SeedInv' /\ account'.validFrom >= account.validFrom
  BY <1>1, CommitKeeps DEF Alike, Fields
<1>3. CountInv'
  <2>1. account.fails \in Nat
    BY Numbers DEF SignInInv, AccountInv
  <2>2. guesses \in Nat /\ guesses <= account.fails
    BY DEF SignInInv, CountInv
  <2>3. guesses' \in Nat /\ guesses' <= account'.fails
    BY <2>1, <2>2
  <2>4. spent' \subseteq Int /\ \A c \in spent' : c <= account'.counter
    BY <1>1 DEF SignInInv, CountInv
  <2> QED BY <2>3, <2>4 DEF CountInv
<1>4. SessionInv'
  BY DEF SignInInv, SessionInv, keys
<1>5. RequestInv'
  BY <1>1, <1>2, RequestsOutlast
<1>6. LoginInv'
  BY LoginKeeps DEF SignInInv
<1> QED BY <1>2, <1>3, <1>4, <1>5, <1>6 DEF SignInInv

LEMMA SetPasswordOK ==
    ASSUME SignInInv, NEW t \in Threads, SetPassword(t)
    PROVE  SignInInv' /\ SessionsEnd
<1> DEFINE row   == request[t].row
           l     == request[t].link
           on    == row.active \/ Activates(links[l].purpose)
           acted == [row EXCEPT !.active = on]
           clear == Cleared(acted)
           new   == Revoked(clear)
           put   == Written(row, new)
<1>1. /\ account.id # Absent /\ account \in Row /\ row \in Row
      /\ row.validFrom <= account.validFrom /\ row.validFrom \in Nat
      /\ account.validFrom \in Nat /\ account.validFrom <= now /\ now \in 0..MaxTime /\ now \in Nat
      /\ row.active \in BOOLEAN
  BY HasRead, Numbers DEF SetPassword, Reading, SignInInv, AccountInv, SessionInv
<1>2. /\ links' = [links EXCEPT ![l].state = "used"]
      /\ \E pw \in Passwords : account' = [put EXCEPT !.hash = [pw |-> pw, cost |-> "current"]]
      /\ guesses' = Recount(account')
      /\ End(t) /\ UNCHANGED <<now, session, keys, login, challenges, spent>>
  BY DEF SetPassword, Committing
<1>3. l \in 1..MaxLinks
  BY DEF SetPassword, Committing, SignInInv, RequestInv, RequestOK, NoRequest
<1>4. links' \in [1..MaxLinks -> [for : 0..MaxAccounts, purpose : {"reset", "activate"},
                                  state : {"none", "fresh", "old", "used", "expired"}]]
  <2> HIDE DEF l
  <2> DEFINE Link == [for : 0..MaxAccounts, purpose : {"reset", "activate"},
                      state : {"none", "fresh", "old", "used", "expired"}]
  <2>1. \A k \in Link : [k EXCEPT !.state = "used"] \in Link
    OBVIOUS
  <2>2. links \in [1..MaxLinks -> Link]
    BY DEF SignInInv, LinkInv
  <2> HIDE DEF Link
  <2>3. links' \in [1..MaxLinks -> Link]
    BY <1>2, <1>3, <2>1, <2>2
  <2> QED BY <2>3 DEF Link
<1> HIDE DEF row, l
<1>5. on \in BOOLEAN
  BY <1>1 DEF Activates
<1> HIDE DEF on
<1>6. acted \in Row /\ Alike(row, acted, Fields \ {"active"})
  BY <1>1, <1>5, ActiveRow
<1> HIDE DEF acted
<1>7. clear \in Row /\ clear.fails = 0 /\ Alike(acted, clear, Fields \ {"fails", "lock"})
  BY <1>6, ClearedRow
<1> HIDE DEF clear
<1>8. new \in Row /\ new.validFrom = now /\ Alike(clear, new, Fields \ {"validFrom"})
  BY <1>1, <1>7, RevokedRow
<1> HIDE DEF new
<1>9. put \in Row /\ \A f \in Fields : put[f] = IF new[f] = row[f] THEN account[f] ELSE new[f]
  BY <1>1, <1>8, WrittenRow
<1> HIDE DEF put
<1>10. account' \in Row /\ Alike(put, account', Fields \ {"hash"})
  BY <1>2, <1>9, HashRow
<1>11. /\ Alike(account, account', Fields \ {"active", "fails", "lock", "validFrom", "hash"})
       /\ account'.fails = IF new.fails = row.fails THEN account.fails ELSE new.fails
       /\ account'.validFrom = IF new.validFrom = row.validFrom THEN account.validFrom ELSE new.validFrom
       /\ new.fails = 0
  BY <1>6, <1>7, <1>8, <1>9, <1>10 DEF Alike, Fields
<1>12. account'.validFrom = now
  BY <1>1, <1>8, <1>11
<1>13. LinkInv'
  BY <1>1, <1>4, <1>11 DEF LinkInv, Alike, Fields
<1>14. SignInInv'
  BY <1>1, <1>2, <1>10, <1>11, <1>12, <1>13, AccessKeeps DEF Recount
<1>15. SessionsEnd
  BY <1>2, <1>12, <1>14, EverythingRevoked DEF SignInInv
<1> QED BY <1>14, <1>15

LEMMA UpdateUserOK ==
    ASSUME SignInInv, NEW t \in Threads, UpdateUser(t)
    PROVE  SignInInv' /\ SessionsEnd
<1> DEFINE row == request[t].row
<1>1. /\ account.id # Absent /\ account \in Row /\ row \in Row
      /\ row.validFrom <= account.validFrom /\ row.validFrom \in Nat
      /\ account.validFrom \in Nat /\ account.validFrom <= now /\ now \in 0..MaxTime /\ now \in Nat
      /\ row.active \in BOOLEAN
      /\ account.fails = 0 => guesses = 0
  <2>1. Committing(t, "update_user")
    BY DEF UpdateUser
  <2>2. "update_user" \in Reading
    BY DEF Reading
  <2>3. /\ account.id # Absent /\ account \in Row /\ row \in Row
        /\ row.validFrom <= account.validFrom
    BY <2>1, <2>2, HasRead
  <2>4. row.validFrom \in Nat /\ row.active \in BOOLEAN /\ account.validFrom \in Nat /\ MaxTime \in Nat
    BY <2>3, Numbers
  <2>5. account.fails = 0 => guesses = 0
    BY DEF SignInInv, CountInv
  <2> QED BY <2>3, <2>4, <2>5 DEF SignInInv, AccountInv, SessionInv
<1> DEFINE Set(choice) == [row EXCEPT !.active = IF choice = "as it is" THEN @ ELSE choice = "on"]
<1>2. PICK choice \in {"on", "off", "as it is"} : \E ends \in {Set(choice), Revoked(Set(choice))} :
        /\ account' = Written(row, IF choice = "on" THEN Cleared(ends) ELSE ends)
        /\ guesses' = IF choice = "on" THEN Recount(account') ELSE guesses
  BY DEF UpdateUser
<1>3. PICK ends \in {Set(choice), Revoked(Set(choice))} :
        /\ account' = Written(row, IF choice = "on" THEN Cleared(ends) ELSE ends)
        /\ guesses' = IF choice = "on" THEN Recount(account') ELSE guesses
  BY <1>2
<1> DEFINE on   == IF choice = "as it is" THEN row.active ELSE choice = "on"
           set  == [row EXCEPT !.active = on]
           new  == IF choice = "on" THEN Cleared(ends) ELSE ends
<1>4. /\ account' = Written(row, new)
      /\ guesses' = IF choice = "on" THEN Recount(account') ELSE guesses
      /\ End(t) /\ UNCHANGED <<now, links, session, keys, login, challenges, chosen, spent>>
  BY <1>3 DEF UpdateUser, Committing
<1> HIDE DEF row
<1>5. on \in BOOLEAN /\ ends \in {set, Revoked(set)}
  BY <1>3, <1>1
<1> HIDE DEF on
<1>6. set \in Row /\ Alike(row, set, Fields \ {"active"})
  BY <1>1, <1>5, ActiveRow
<1> HIDE DEF set
<1>7. /\ ends \in Row /\ ends.validFrom \in {row.validFrom, now}
      /\ Alike(set, ends, Fields \ {"validFrom"})
  <2>1. Revoked(set) \in Row /\ Revoked(set).validFrom = now /\ Alike(set, Revoked(set), Fields \ {"validFrom"})
    BY <1>1, <1>6, RevokedRow
  <2>2. set.validFrom = row.validFrom
    BY <1>6 DEF Alike, Fields
  <2> QED BY <1>5, <1>6, <2>1, <2>2 DEF Alike
<1>8. /\ new \in Row /\ Alike(ends, new, Fields \ {"fails", "lock"})
      /\ new.fails = IF choice = "on" THEN 0 ELSE ends.fails
  <2>1. Cleared(ends) \in Row /\ Cleared(ends).fails = 0 /\ Alike(ends, Cleared(ends), Fields \ {"fails", "lock"})
    BY <1>7, ClearedRow
  <2> QED BY <1>7, <2>1 DEF Alike
<1> HIDE DEF new
<1>9. account' \in Row /\ \A f \in Fields : account'[f] = IF new[f] = row[f] THEN account[f] ELSE new[f]
  <2>1. /\ Written(row, new) \in Row
        /\ \A f \in Fields : Written(row, new)[f] = IF new[f] = row[f] THEN account[f] ELSE new[f]
    BY <1>1, <1>8, WrittenRow
  <2>2. account' = Written(row, new)
    BY <1>4
  <2> QED BY <2>1, <2>2
<1>10. /\ Alike(account, account', Fields \ {"active", "fails", "lock", "validFrom"})
       /\ account'.fails = IF new.fails = row.fails THEN account.fails ELSE new.fails
       /\ account'.validFrom = IF new.validFrom = row.validFrom THEN account.validFrom ELSE new.validFrom
       /\ new.fails \in {row.fails, 0} /\ new.validFrom \in {row.validFrom, now}
       /\ choice # "on" => new.fails = row.fails
  <2>1. Alike(row, new, Fields \ {"active", "fails", "lock", "validFrom"})
    BY <1>6, <1>7, <1>8 DEF Alike
  <2>2. ends.fails = row.fails /\ new.validFrom = ends.validFrom
    BY <1>6, <1>7, <1>8 DEF Alike, Fields
  <2>3. Alike(account, account', Fields \ {"active", "fails", "lock", "validFrom"})
    BY <1>9, <2>1 DEF Alike
  <2>4. /\ account'.fails = IF new.fails = row.fails THEN account.fails ELSE new.fails
        /\ account'.validFrom = IF new.validFrom = row.validFrom THEN account.validFrom ELSE new.validFrom
    BY <1>9 DEF Fields
  <2>5. /\ new.fails \in {row.fails, 0} /\ new.validFrom \in {row.validFrom, now}
        /\ choice # "on" => new.fails = row.fails
    BY <1>7, <1>8, <2>2
  <2> QED BY <2>3, <2>4, <2>5
<1>11. LinkInv'
  BY <1>1, <1>4, <1>10 DEF SignInInv, LinkInv, Alike, Fields
<1>12. /\ guesses' \in {guesses, 0}
       /\ account'.fails \in {account.fails, 0}
       /\ account'.fails = 0 => guesses' = 0
  <2>1. CASE choice = "on"
    BY <1>4, <1>10, <2>1 DEF Recount
  <2>2. CASE choice # "on"
    <3>1. guesses' = guesses
      BY <1>4, <2>2
    <3>2. account'.fails = account.fails
      BY <1>10, <2>2
    <3> QED BY <1>1, <3>1, <3>2
  <2> QED BY <2>1, <2>2
<1>13. SignInInv' /\ account'.validFrom >= account.validFrom
  BY <1>1, <1>4, <1>9, <1>10, <1>11, <1>12, AccessKeeps DEF Alike, Fields
<1>14. account'.enabled = account.enabled
  BY <1>10 DEF Alike, Fields
<1> QED BY <1>4, <1>13, <1>14 DEF SessionsEnd, Revoking, Accepts

LEMMA CreateUserOK ==
    ASSUME SignInInv, NEW t \in Threads, CreateUser(t)
    PROVE  SignInInv' /\ SessionsEnd
<1> DEFINE n     == account.made + 1
           fresh == [account EXCEPT !.id = n, !.made = n]
<1>1. /\ account.id = Absent /\ account.made < MaxAccounts /\ account \in Row
      /\ \/ /\ \E pw \in Passwords, cost \in {"current", "lower"} :
                  account' = [fresh EXCEPT !.active = TRUE, !.hash = [pw |-> pw, cost |-> cost]]
            /\ UNCHANGED request
         \/ /\ account' = fresh
            /\ Begin(t, [kind |-> "issue", purpose |-> "activate", id |-> fresh.id, old |-> {}])
      /\ UNCHANGED <<now, links, session, keys, login, challenges, guesses, spent>>
  BY DEF CreateUser, SignInInv, AccountInv
<1>2. account.made \in 0..MaxAccounts /\ n \in 0..MaxAccounts /\ n \in Nat \ {0} /\ n > account.made
  <2>1. account \in Row /\ account.made < MaxAccounts
    BY <1>1
  <2>2. account.made \in 0..MaxAccounts
    BY <2>1 DEF Row
  <2> QED BY <2>1, <2>2, SignInAssumption DEF SignInAssumption
<1> HIDE DEF n
<1>3. /\ fresh \in Row /\ fresh.id = n /\ fresh.made = n
      /\ Alike(account, fresh, Fields \ {"id", "made"})
  BY <1>1, <1>2 DEF Row, Alike, Fields
<1> HIDE DEF fresh
<1>4. account' \in Row /\ Alike(fresh, account', Fields \ {"active", "hash"})
  <2>1. ASSUME NEW pw \in Passwords, NEW cost \in {"current", "lower"},
               account' = [fresh EXCEPT !.active = TRUE, !.hash = [pw |-> pw, cost |-> cost]]
        PROVE  account' \in Row /\ Alike(fresh, account', Fields \ {"active", "hash"})
    <3> DEFINE h == [pw |-> pw, cost |-> cost]
    <3>1. h \in [pw : Passwords \cup {"unusable"}, cost : {"current", "lower"}]
      OBVIOUS
    <3>2. account' = [fresh EXCEPT !.active = TRUE, !.hash = h]
      BY <2>1
    <3> HIDE DEF h
    <3> QED BY <1>3, <3>1, <3>2 DEF Row, Alike, Fields
  <2> QED BY <1>1, <1>3, <2>1 DEF Alike
<1>5. /\ account'.id = n /\ account'.made = n /\ account'.validFrom = account.validFrom
      /\ account'.sealed = account.sealed /\ account'.counter = account.counter
      /\ account'.fails = account.fails
  BY <1>3, <1>4 DEF Alike, Fields
<1>6. AccountInv' /\ SeedInv' /\ CountInv' /\ LinkInv' /\ SessionInv' /\ LoginInv'
  <2>1. AccountInv'
    <3>1. n # Absent /\ n <= n
      BY <1>2 DEF Absent
    <3>2. account.validFrom <= now /\ now' = now
      BY <1>1 DEF SignInInv, AccountInv
    <3>3. account' \in Row
      BY <1>4
    <3> QED BY <1>5, <3>1, <3>2, <3>3 DEF AccountInv
  <2>2. SeedInv'
    BY <1>1, <1>5 DEF SignInInv, SeedInv, Ring, keys
  <2>3. CountInv' /\ SessionInv' /\ LoginInv'
    BY <1>1, <1>5 DEF SignInInv, CountInv, SessionInv, LoginInv, keys
  <2>4. LinkInv'
    BY <1>1, <1>2, <1>5 DEF SignInInv, LinkInv, Absent
  <2> QED BY <2>1, <2>2, <2>3, <2>4
<1>7. RequestInv'
  <2>1. account.made \in Nat /\ n > account.made /\ n # account.id
    <3>1. account.made \in Nat /\ n > account.made /\ n \in Nat \ {0}
      BY <1>2
    <3>2. account.id = 0
      BY <1>1 DEF Absent
    <3> QED BY <3>1, <3>2
  <2>2. \A r : RequestOK(r) => RequestOK(r)'
    <3>1. /\ account'.made >= account.made
          /\ account'.id = account.id => account'.validFrom >= account.validFrom
          /\ account'.id # account.id => account'.id = Absent \/ account'.id > account.made
      BY <1>2, <1>5, <2>1
    <3>2. AccountInv /\ AccountInv'
      BY <1>6 DEF SignInInv
    <3> QED BY <3>1, <3>2, RequestKeeps
  <2>3. CASE UNCHANGED request
    BY <2>2, <2>3 DEF SignInInv, RequestInv
  <2>4. CASE Begin(t, [kind |-> "issue", purpose |-> "activate", id |-> fresh.id, old |-> {}])
    <3>1. PICK r : r = [kind |-> "issue", purpose |-> "activate", id |-> fresh.id, old |-> {}]
      OBVIOUS
    <3>2. r.id \in 1..account'.made /\ r.kind = "issue" /\ r.purpose = "activate"
      BY <1>2, <1>3, <1>5, <3>1
    <3>3. RequestOK(r)'
      BY <3>2 DEF RequestOK, Reading
    <3>4. request' = [request EXCEPT ![t] = r]
      BY <2>4, <3>1 DEF Begin
    <3> QED BY <2>2, <3>3, <3>4 DEF SignInInv, RequestInv
  <2> QED BY <1>1, <2>3, <2>4
<1>8. SessionsEnd
  BY <1>1, <1>2, <1>5 DEF SessionsEnd, Revoking, Absent
<1> QED BY <1>6, <1>7, <1>8 DEF SignInInv

LEMMA DeleteUserOK ==
    ASSUME SignInInv, NEW t \in Threads, DeleteUser(t)
    PROVE  SignInInv' /\ SessionsEnd
<1>1. /\ account.id # Absent /\ account \in Row /\ account' = [NoAccount EXCEPT !.made = account.made]
      /\ links' = [l \in 1..MaxLinks |-> NoLink] /\ guesses' = 0 /\ spent' = {}
      /\ End(t) /\ UNCHANGED <<now, session, keys, login, challenges>>
  BY DEF DeleteUser, Committing, There, SignInInv, AccountInv
<1>2. account.made \in 0..MaxAccounts /\ account.made \in Nat
  BY <1>1, SignInAssumption DEF Row, SignInAssumption
<1>3. /\ account' \in Row /\ account'.id = Absent /\ account'.made = account.made
      /\ account'.validFrom = 0 /\ account'.sealed = 0 /\ account'.fails = 0 /\ ~account'.active
  BY <1>1, <1>2, NoAccountRow DEF NoAccount
<1>4. AccountInv'
  <2>1. now \in Nat
    BY SignInAssumption DEF SignInInv, SessionInv, SignInAssumption
  <2> QED BY <1>1, <1>2, <1>3, <2>1 DEF AccountInv, Absent
<1>5. SeedInv'
  <2>1. key \in Nat
    BY SignInAssumption DEF SignInInv, SeedInv, SignInAssumption
  <2> QED BY <1>1, <1>3, <2>1 DEF SignInInv, SeedInv, Ring, keys
<1>6. CountInv' /\ SessionInv'
  BY <1>1, <1>3 DEF SignInInv, CountInv, SessionInv, keys
<1>7. LinkInv'
  <2>1. NoLink \in [for : 0..MaxAccounts, purpose : {"reset", "activate"},
                    state : {"none", "fresh", "old", "used", "expired"}]
    BY SignInAssumption DEF NoLink, Absent, SignInAssumption
  <2> QED BY <1>1, <2>1 DEF LinkInv
<1>8. LoginInv'
  BY <1>1, LoginKeeps DEF SignInInv
<1>9. RequestInv'
  <2>1. request' = [u \in Threads |-> request'[u]] /\ \A u \in Threads : request'[u] \in {request[u], NoRequest}
    BY <1>1 DEF End, SignInInv, RequestInv
  <2> QED BY <1>1, <1>2, <1>3, <1>4, <2>1, RequestsKeep DEF SignInInv
<1>10. SessionsEnd
  BY <1>1, <1>3 DEF SessionsEnd, Revoking
<1> QED BY <1>4, <1>5, <1>6, <1>7, <1>8, <1>9, <1>10 DEF SignInInv

\* A restart under other keys: what could be read still can be.
LEMMA RestartOK ==
    ASSUME SignInInv, Restart
    PROVE  SignInInv' /\ SessionsEnd
<1>1. /\ login' = Idle /\ request' = [t \in Threads |-> NoRequest] /\ challenges' = {}
      /\ key' \in {key, key + 1} /\ key' <= MaxKeys
      /\ kept' \in SUBSET (Ring \ {key'})
      /\ key' # key => key \in kept'
      /\ ~clean => kept \subseteq kept'
      /\ \/ account' = Resealed(account, {key'} \cup kept', key') /\ clean' = TRUE
         \/ UNCHANGED account /\ clean' = FALSE
      /\ UNCHANGED <<now, links, session, history>>
  BY DEF Restart
<1>2. /\ account \in Row /\ account.sealed \in Nat /\ account.validFrom \in Nat
      /\ key \in 1..MaxKeys /\ key \in Nat /\ MaxKeys \in Nat /\ kept \subseteq 1..MaxKeys
  BY Numbers, SignInAssumption DEF SignInInv, AccountInv, SeedInv, SignInAssumption
<1>3. key' \in 1..MaxKeys /\ key' \in Nat /\ key' >= key
  BY <1>1, <1>2
<1>4. kept' \subseteq 1..MaxKeys
  BY <1>1, <1>2 DEF Ring
<1>5. account.sealed # 0 => account.sealed \in {key'} \cup kept'
  <2>1. CASE clean
    BY <1>1, <2>1 DEF SignInInv, SeedInv
  <2>2. CASE ~clean
    BY <1>1, <2>2 DEF SignInInv, SeedInv, Ring
  <2> QED BY <2>1, <2>2 DEF SignInInv, SeedInv
<1>6. /\ account' \in Row /\ Alike(account, account', Fields \ {"sealed"})
      /\ \/ account'.sealed = account.sealed /\ clean' = FALSE
         \/ account'.sealed \in {0, key'} /\ clean' = TRUE
  <2>1. CASE UNCHANGED account /\ clean' = FALSE
    BY <1>2, <2>1 DEF Alike
  <2>2. CASE account' = Resealed(account, {key'} \cup kept', key') /\ clean' = TRUE
    <3>1. CASE account.sealed \in {key'} \cup kept'
      <4>1. account' = [account EXCEPT !.sealed = key'] /\ key' \in 0..MaxKeys
        BY <1>2, <1>3, <2>2, <3>1 DEF Resealed
      <4> QED BY <1>2, <2>2, <4>1 DEF Row, Alike, Fields
    <3>2. CASE account.sealed \notin {key'} \cup kept'
      BY <1>2, <1>5, <2>2, <3>2 DEF Resealed, Alike
    <3> QED BY <3>1, <3>2
  <2> QED BY <1>1, <2>1, <2>2
<1>7. /\ account'.id = account.id /\ account'.made = account.made /\ account'.active = account.active
      /\ account'.validFrom = account.validFrom /\ account'.fails = account.fails
      /\ account'.counter = account.counter /\ account'.enabled = account.enabled
  BY <1>6 DEF Alike, Fields
<1>8. AccountInv' /\ CountInv' /\ LinkInv' /\ LoginInv' /\ RequestInv'
  BY <1>1, <1>6, <1>7 DEF SignInInv, AccountInv, CountInv, LinkInv, LoginInv, RequestInv, RequestOK, history
<1>9. SeedInv'
  <2>1. account.sealed <= key
    BY DEF SignInInv, SeedInv
  <2>2. key' \in 1..MaxKeys /\ kept' \subseteq 1..MaxKeys /\ clean' \in BOOLEAN
    BY <1>3, <1>4, <1>6
  <2>3. account'.sealed \in {account.sealed, 0, key'}
    BY <1>6
  <2>4. account'.sealed <= key'
    BY <1>2, <1>3, <2>1, <2>3
  <2>5. account'.sealed # 0 => account'.sealed \in {key'} \cup kept'
    BY <1>5, <2>3
  <2>6. clean' => account'.sealed \in {0, key'}
    BY <1>6
  <2> QED BY <2>2, <2>4, <2>5, <2>6 DEF SeedInv, Ring
<1>10. SessionInv'
  <2>1. \A k \in 1..key : k \in 1..key'
    BY <1>2, <1>3
  <2> QED BY <1>1, <2>1 DEF SignInInv, SessionInv
<1>11. SessionsEnd
  BY <1>1, <1>2, <1>7, NothingRevoked DEF history
<1> QED BY <1>8, <1>9, <1>10, <1>11 DEF SignInInv

----------------------------------------------------------------------------
(* The theorems. *)

LEMMA InitEstablishes == Init => SignInInv
<1> SUFFICES ASSUME Init PROVE SignInInv
  OBVIOUS
<1>1. /\ MaxKeys \in Nat \ {0} /\ 0 \in 0..MaxAccounts /\ 0 \in 0..MaxTime /\ 1 \in 1..MaxKeys
      /\ MaxTime \in Nat
  BY SignInAssumption DEF SignInAssumption
<1>2. account \in Row
  <2>1. 0 \in 0..MaxFails - 1 /\ 0 \in 0..MaxKeys /\ None \in None..MaxTime + 1
    BY SignInAssumption DEF SignInAssumption, None
  <2> QED BY <1>1, <2>1 DEF Init, Row, NoAccount, Absent
<1>3. AccountInv /\ CountInv /\ SeedInv
  BY <1>1, <1>2 DEF Init, AccountInv, CountInv, SeedInv, NoAccount, Absent
<1>4. NoLink \in [for : 0..MaxAccounts, purpose : {"reset", "activate"},
                  state : {"none", "fresh", "old", "used", "expired"}]
  BY <1>1 DEF NoLink, Absent
<1>5. LinkInv /\ SessionInv /\ LoginInv /\ RequestInv
  BY <1>1, <1>4 DEF Init, LinkInv, SessionInv, LoginInv, RequestInv, RequestOK
<1> QED BY <1>3, <1>5 DEF SignInInv

LEMMA EveryStep ==
    ASSUME SignInInv, Next
    PROVE  SignInInv' /\ SessionsEnd
<1>1. CASE Login
  BY <1>1, LoginReadOK, LoginFailsOK, LoginEndsOK, LoginPassesOK, LoginIssuesOK DEF Login
<1>2. CASE Own
  BY <1>2, BeginOwnOK, ChangePasswordOK, TotpSetupOK, TotpEnableOK, TotpDisableOK DEF Own
<1>3. CASE Passkeys
  BY <1>3, ChallengesOK, PasskeyAsksOK, PlainCommitsOK, AbandonOK DEF Passkeys
<1>4. CASE Links
  BY <1>4, LinksOK, AdministerOK, FollowLinkOK, SetPasswordOK DEF Links
<1>5. CASE Admin
  BY <1>5, CreateUserOK, AdministerOK, UpdateUserOK, ResetTotpOK, DeleteUserOK DEF Admin
<1>6. CASE Tick \/ LockRunsOut \/ Restart \/ \E t \in Threads : Abandon(t)
  BY <1>6, TickOK, PlainCommitsOK, RestartOK, AbandonOK
<1> QED BY <1>1, <1>2, <1>3, <1>4, <1>5, <1>6 DEF Next

LEMMA StutterKeeps == ASSUME SignInInv, UNCHANGED vars PROVE SignInInv'
BY DEF SignInInv, AccountInv, SeedInv, CountInv, LinkInv, SessionInv, LoginInv, RequestInv, RequestOK,
       Ring, vars, keys, process, history

\* The invariant: what was read and is about to be written is no newer than the
\* row and no older than what the counters, codes and sessions need.
THEOREM SignInInvariant == Spec => []SignInInv
<1>1. SignInInv /\ [Next]_vars => SignInInv'
  BY EveryStep, StutterKeeps
<1> QED BY InitEstablishes, <1>1, PTL DEF Spec

\* Every variable holds what the code may put into it, and the failures on
\* record stay below the number that locks.
THEOREM TypeCorrect == Spec => []TypeOK
<1>1. SignInInv => TypeOK
  <2> SUFFICES ASSUME SignInInv PROVE TypeOK
    OBVIOUS
  <2>1. \A t \in Threads : request[t] = NoRequest \/ request[t].id \in 1..MaxAccounts
    <3>1. account.made \in 0..MaxAccounts /\ MaxAccounts \in Nat
      BY SignInAssumption DEF SignInInv, AccountInv, Row, SignInAssumption
    <3> QED BY <3>1 DEF SignInInv, RequestInv, RequestOK
  <2>2. login = Idle \/ login.row \in Row
    BY DEF SignInInv, LoginInv
  <2> QED BY <2>1, <2>2 DEF SignInInv, AccountInv, SeedInv, LinkInv, SessionInv, TypeOK
<1> QED BY SignInInvariant, <1>1, PTL

\* MaxFails failures always lock.
THEOREM EveryFailureIsCounted == Spec => []FailuresAreCounted
<1>1. SignInInv => FailuresAreCounted
  BY DEF SignInInv, CountInv, FailuresAreCounted
<1> QED BY SignInInvariant, <1>1, PTL

\* No code signs in twice.
THEOREM NoCodeTwice == Spec => []CodesStayBurnt
<1>1. SignInInv => CodesStayBurnt
  BY DEF SignInInv, CountInv, CodesStayBurnt
<1> QED BY SignInInvariant, <1>1, PTL

\* No rotation of the keys makes a second factor unreadable.
THEOREM SeedsReadable == Spec => []SeedsStayReadable
<1>1. SignInInv => SeedsStayReadable
  BY DEF SignInInv, SeedInv, SeedsStayReadable, Readable
<1> QED BY SignInInvariant, <1>1, PTL

\* What has been revoked stays revoked, however the requests overlap.
THEOREM SessionsAreRevoked == Spec => RevokedSessionsEnd
<1>1. SignInInv /\ [Next]_vars =>
        [/\ account'.id = account.id => account'.validFrom >= account.validFrom
         /\ Revoking /\ session.iat < now => ~Accepts(account', Ring', session)]_vars
  BY EveryStep DEF SessionsEnd
<1> QED BY SignInInvariant, <1>1, PTL DEF Spec, RevokedSessionsEnd

=============================================================================
