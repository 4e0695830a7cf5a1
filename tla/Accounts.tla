------------------------------ MODULE Accounts ------------------------------
(***************************************************************************)
(* Users, passwords, server-side sessions, system roles, memberships and   *)
(* the OIDC login: application/auth, application/identity and their        *)
(* repositories.  A call is one caller's request; the database runs READ   *)
(* COMMITTED, so what a transaction read with a plain SELECT may be stale  *)
(* when it writes.  Such a call takes a reading step and a writing step,   *)
(* and other calls run between them.  An e-mail stands for its lower-case  *)
(* form, which is what every lookup compares.  A token, a state and a      *)
(* cookie stand for their hashes: they are fresh and never collide.        *)
(***************************************************************************)
EXTENDS Integers, Sequences, FiniteSets

CONSTANTS Email, Password, Strong, Competition, Role, TeamName, TeamsOf, Caller,
          SessionTtl, LoginTtl, AllowedEmail, AutoProvision,
          NoHash, NoMember,
          MaxSessions, MaxLogins, MaxClock       \* bounds

ASSUME AccountsAssumption ==
    /\ Strong \subseteq Password /\ AllowedEmail \subseteq Email /\ Email # {}
    /\ SessionTtl \in Nat \ {0} /\ LoginTtl \in Nat \ {0}

VARIABLES users,      \* e-mails of registered users
          hash,       \* the credential row of a user, or NoHash
          sysRoles,   \* system roles of a user
          member,     \* membership row per user and competition, or NoMember
          sessions,   \* session rows in issue order; a row is never deleted
          logins,     \* pending OIDC login transactions
          issuedLogins, \* how many logins were started
          clock,
          call,       \* what each caller's request still has to do
          clashes     \* requests that ended in an IntegrityError, by operation

acVars == <<users, hash, sysRoles, member, sessions, logins, issuedLogins, clock, call, clashes>>

VALID_SYSTEM_ROLES == {"admin", "support"}
Idle == [op |-> "idle"]

\* A stored hash: the password and whether it was derived with weaker parameters.
Hash(pw) == [pw |-> pw, weak |-> FALSE]
verify(pw, h) == h.pw = pw
needs_rehash(h) == h.weak

validate_password_strength(pw) == pw \in Strong

is_live(s, now) == s.revoked = 0 /\ s.expires > now
LoginLive(l, now) == l.expires > now

-----------------------------------------------------------------------------
(* The session repository. *)
IssueSession(email, now, via) ==
    /\ Len(sessions) < MaxSessions
    /\ email \in users
    /\ sessions' = Append(sessions, [user |-> email, issued |-> now,
                        expires |-> now + SessionTtl, from |-> 0, revoked |-> 0, via |-> via])

\* Locks the row, reads it afresh and stamps it unless it is stamped.
Revoked(ss, i, now) ==
    IF ss[i].revoked = 0 THEN [ss EXCEPT ![i].revoked = now] ELSE ss

RefreshedRows(i, now) ==
    Revoked(Append(sessions, [user |-> sessions[i].user, issued |-> now,
                expires |-> now + SessionTtl, from |-> i, revoked |-> 0, via |-> 0]), i, now)

-----------------------------------------------------------------------------
(* The end of a request. *)
Ends(c, op, res) ==
    call' = [call EXCEPT ![c] = Idle] /\ clashes' = IF res = "conflict" THEN clashes \cup {op} ELSE clashes
Goes(c, rec) == call' = [call EXCEPT ![c] = rec] /\ UNCHANGED clashes
IsIdle(c) == call[c].op = "idle"

rowVars == <<users, hash, sysRoles, member, sessions, logins, issuedLogins>>

-----------------------------------------------------------------------------
(* Passwords. *)
SetPassword(c, e, pw) ==
    /\ IsIdle(c) /\ UNCHANGED <<rowVars, clock>>
    /\ IF validate_password_strength(pw)
       THEN Goes(c, [op |-> "set_password", email |-> e, pw |-> pw, existing |-> hash[e] # NoHash])
       ELSE Ends(c, "set_password", "invalid")

\* An insert that meets a row inserted meanwhile fails on the UNIQUE key.
SetPasswordWrite(c) ==
    LET r == call[c] IN
    /\ r.op = "set_password" /\ UNCHANGED <<users, sysRoles, member, sessions, logins, issuedLogins, clock>>
    /\ IF r.email \notin users
       THEN hash' = hash /\ Ends(c, r.op, "lookup")
       ELSE IF ~r.existing /\ hash[r.email] # NoHash
       THEN hash' = hash /\ Ends(c, r.op, "conflict")
       ELSE hash' = [hash EXCEPT ![r.email] = Hash(r.pw)] /\ Ends(c, r.op, "ok")

\* The reading half of a login; a missing user and a wrong password look alike.
Authenticate(c, e, pw) ==
    /\ IsIdle(c) /\ UNCHANGED <<rowVars, clock>>
    /\ IF hash[e] = NoHash \/ ~verify(pw, hash[e])
       THEN Ends(c, "authenticate", "refused")
       ELSE Goes(c, [op |-> "authenticate", email |-> e, pw |-> pw, now |-> clock,
                   rehash |-> needs_rehash(hash[e])])

\* The writing half: the hash is renewed from the password that was presented.
AuthenticateWrite(c) ==
    LET r == call[c] IN
    /\ r.op = "authenticate" /\ IssueSession(r.email, r.now, 0)
    /\ hash' = IF r.rehash THEN [hash EXCEPT ![r.email] = Hash(r.pw)] ELSE hash
    /\ Ends(c, r.op, "ok")
    /\ UNCHANGED <<users, sysRoles, member, logins, issuedLogins, clock>>

-----------------------------------------------------------------------------
(* Sessions.  A token is the number of its session. *)
Refresh(c, i) ==
    /\ IsIdle(c) /\ UNCHANGED <<rowVars, clock>>
    /\ IF is_live(sessions[i], clock)
       THEN Goes(c, [op |-> "refresh", old |-> i, now |-> clock])
       ELSE Ends(c, "refresh", "refused")

RefreshWrite(c) ==
    LET r == call[c] IN
    /\ r.op = "refresh" /\ Len(sessions) < MaxSessions
    /\ sessions' = RefreshedRows(r.old, r.now)
    /\ Ends(c, r.op, "ok")
    /\ UNCHANGED <<users, hash, sysRoles, member, logins, issuedLogins, clock>>

Logout(c, i) ==
    /\ IsIdle(c) /\ UNCHANGED <<rowVars, clock>>
    /\ IF is_live(sessions[i], clock)
       THEN Goes(c, [op |-> "logout", old |-> i, now |-> clock])
       ELSE Ends(c, "logout", "refused")

LogoutWrite(c) ==
    /\ call[c].op = "logout"
    /\ sessions' = Revoked(sessions, call[c].old, call[c].now)
    /\ Ends(c, "logout", "ok")
    /\ UNCHANGED <<users, hash, sysRoles, member, logins, issuedLogins, clock>>

\* The identity a live token stands for: roles and memberships are read at use.
resolve(i, now) ==
    IF is_live(sessions[i], now)
    THEN [subject |-> sessions[i].user, roles |-> sysRoles[sessions[i].user],
          memberships |-> member[sessions[i].user]]
    ELSE [subject |-> "refused"]

-----------------------------------------------------------------------------
(* Roles, memberships, registration and the first administrator. *)
GrantSystemRole(c, e, role) ==
    /\ IsIdle(c) /\ UNCHANGED <<users, hash, member, sessions, logins, issuedLogins, clock>>
    /\ IF e \in users
       THEN sysRoles' = [sysRoles EXCEPT ![e] = @ \cup {role}] /\ Ends(c, "grant", "ok")
       ELSE UNCHANGED sysRoles /\ Ends(c, "grant", "lookup")

RevokeSystemRole(c, e, role) ==
    /\ IsIdle(c) /\ UNCHANGED <<users, hash, member, sessions, logins, issuedLogins, clock>>
    /\ sysRoles' = [sysRoles EXCEPT ![e] = @ \ {role}]
    /\ Ends(c, "revoke", "ok")

\* register: the e-mail is unique.
RegisterOutcome(e) == IF e \in users THEN "conflict" ELSE "ok"
Register(c, e) ==
    /\ IsIdle(c) /\ UNCHANGED <<hash, sysRoles, member, sessions, logins, issuedLogins, clock>>
    /\ users' = users \cup {e}
    /\ Ends(c, "register", RegisterOutcome(e))

\* An upsert in one transaction: the row is looked up, then inserted or updated.
\* A team is found only among the teams of the membership's competition.
AssignMembership(c, e, k, role, team) ==
    /\ IsIdle(c) /\ UNCHANGED <<rowVars, clock>>
    /\ Goes(c, [op |-> "assign", email |-> e, comp |-> k, role |-> role, team |-> team,
                existing |-> member[e][k] # NoMember])

AssignMembershipWrite(c) ==
    LET r == call[c]
        found == r.email \in users /\ r.team \in TeamsOf[r.comp] \cup {"none"}
        taken == ~r.existing /\ member[r.email][r.comp] # NoMember
    IN /\ r.op = "assign" /\ UNCHANGED <<users, hash, sysRoles, sessions, logins, issuedLogins, clock>>
       /\ member' = IF found /\ ~taken
                    THEN [member EXCEPT ![r.email][r.comp] = [role |-> r.role, team |-> r.team]]
                    ELSE member
       /\ Ends(c, r.op, IF ~found THEN "lookup" ELSE IF taken THEN "conflict" ELSE "ok")

\* One transaction; both existence checks are made before anything is written.
BootstrapAdmin(c, e, pw) ==
    /\ IsIdle(c) /\ UNCHANGED <<rowVars, clock>>
    /\ IF hash[e] = NoHash /\ ~validate_password_strength(pw)
       THEN Ends(c, "bootstrap", "invalid")
       ELSE Goes(c, [op |-> "bootstrap", email |-> e, pw |-> pw,
                     known |-> e \in users, created |-> hash[e] = NoHash])

BootstrapClash(r) == (~r.known /\ r.email \in users) \/ (r.created /\ hash[r.email] # NoHash)
BootstrapHash(r) == IF r.created THEN [hash EXCEPT ![r.email] = Hash(r.pw)] ELSE hash
BootstrapAdminWrite(c) ==
    LET r == call[c] IN
    /\ r.op = "bootstrap" /\ UNCHANGED <<member, sessions, logins, issuedLogins, clock>>
    /\ IF BootstrapClash(r)
       THEN UNCHANGED <<users, hash, sysRoles>> /\ Ends(c, r.op, "conflict")
       ELSE /\ users' = users \cup {r.email}
            /\ hash' = BootstrapHash(r)
            /\ sysRoles' = [sysRoles EXCEPT ![r.email] = @ \cup {"admin"}]
            /\ Ends(c, r.op, "ok")

-----------------------------------------------------------------------------
(* The OIDC login.  The provider is external: it may be unreachable, and it *)
(* answers a code with some token.                                          *)
Token == [signed: BOOLEAN, nonce: 1..MaxLogins, verified: BOOLEAN, email: Email]

prune_expired(now) == {l \in logins : LoginLive(l, now)}

BuildAuthorizationUrl(c) ==
    /\ IsIdle(c) /\ issuedLogins < MaxLogins
    /\ issuedLogins' = issuedLogins + 1
    /\ logins' = prune_expired(clock) \cup
                   {[state |-> issuedLogins + 1, expires |-> clock + LoginTtl]}
    /\ Ends(c, "login", "ok") /\ UNCHANGED <<users, hash, sysRoles, member, sessions, clock>>

\* The discovery document cannot be fetched: nothing was written.
DiscoveryFails(c) ==
    /\ IsIdle(c) /\ Ends(c, "login", "refused") /\ UNCHANGED <<rowVars, clock>>

\* consume: the row is locked and deleted whether it is live or not.
ConsumeExpired(st) == {l \in logins : l.state # st \/ LoginLive(l, clock)}
consume(st) == {l \in logins : l.state # st}

Callback(c, st, cookie) ==
    /\ IsIdle(c)
    /\ logins' = consume(st)
    /\ UNCHANGED <<users, hash, sysRoles, member, sessions, issuedLogins, clock>>
    /\ IF (\E l \in logins : l.state = st /\ LoginLive(l, clock)) /\ cookie = st
       THEN Goes(c, [op |-> "callback", at |-> "exchange", state |-> st, now |-> clock])
       ELSE Ends(c, "callback", "refused")

_verify_id_token(t, nonce) == t.signed /\ t.nonce = nonce
_verified_email(t) == t.verified /\ t.email \in AllowedEmail

\* Exchanges the code, verifies the token and looks the user up.
Exchange(c, t) ==
    LET r == call[c] IN
    /\ r.op = "callback" /\ r.at = "exchange" /\ UNCHANGED <<rowVars, clock>>
    /\ IF ~_verify_id_token(t, r.state) \/ ~_verified_email(t) \/ (t.email \notin users /\ ~AutoProvision)
       THEN Ends(c, r.op, "refused")
       ELSE Goes(c, [op |-> "callback", state |-> r.state, email |-> t.email, now |-> r.now,
                     at |-> IF t.email \in users THEN "issue" ELSE "provision"])

ExchangeFails(c) ==
    /\ call[c].op = "callback" /\ call[c].at = "exchange"
    /\ Ends(c, "callback", "refused") /\ UNCHANGED <<rowVars, clock>>

ProvisionResult(r) ==
    IF RegisterOutcome(r.email) = "conflict" /\ r.email \notin users THEN "refused" ELSE "ok"
Provision(c) ==
    LET r == call[c] IN
    /\ r.op = "callback" /\ r.at = "provision"
    /\ users' = users \cup {r.email}
    /\ IF ProvisionResult(r) = "ok" THEN Goes(c, [r EXCEPT !.at = "issue"])
                                   ELSE Ends(c, r.op, ProvisionResult(r))
    /\ UNCHANGED <<hash, sysRoles, member, sessions, logins, issuedLogins, clock>>

IssueFederatedSession(c) ==
    LET r == call[c] IN
    /\ r.op = "callback" /\ r.at = "issue" /\ IssueSession(r.email, r.now, r.state)
    /\ Ends(c, r.op, "ok")
    /\ UNCHANGED <<users, hash, sysRoles, member, logins, issuedLogins, clock>>

-----------------------------------------------------------------------------
AcTick == clock < MaxClock /\ clock' = clock + 1 /\ UNCHANGED <<rowVars, call, clashes>>

AcInit ==
    /\ users \in {{}, {CHOOSE e \in Email : TRUE}}
    /\ hash \in {[e \in Email |-> NoHash],
                 [e \in Email |-> IF e \in users THEN [pw |-> CHOOSE p \in Strong : TRUE, weak |-> TRUE]
                                                 ELSE NoHash]}
    /\ sysRoles = [e \in Email |-> {}]
    /\ member = [e \in Email |-> [k \in Competition |-> NoMember]]
    /\ sessions = <<>> /\ logins = {} /\ issuedLogins = 0 /\ clock = 1
    /\ call = [c \in Caller |-> Idle]
    /\ clashes = {}

(* Requests by the part of the state they work on. *)
PasswordStep ==
    \E c \in Caller :
        \/ SetPasswordWrite(c) \/ AuthenticateWrite(c) \/ BootstrapAdminWrite(c)
        \/ \E e \in Email : Register(c, e)
        \/ \E e \in Email, pw \in Password :
             SetPassword(c, e, pw) \/ Authenticate(c, e, pw) \/ BootstrapAdmin(c, e, pw)
SessionStep ==
    \/ AcTick
    \/ \E c \in Caller :
        \/ AuthenticateWrite(c) \/ RefreshWrite(c) \/ LogoutWrite(c)
        \/ \E e \in Email, pw \in Password : Authenticate(c, e, pw)
        \/ \E i \in 1..Len(sessions) : Refresh(c, i) \/ Logout(c, i)
LoginStep ==
    \/ AcTick
    \/ \E c \in Caller :
        \/ BuildAuthorizationUrl(c) \/ DiscoveryFails(c)
        \/ ExchangeFails(c) \/ Provision(c) \/ IssueFederatedSession(c)
        \/ \E e \in Email : Register(c, e)
        \/ \E st \in 1..issuedLogins, cookie \in 0..issuedLogins : Callback(c, st, cookie)
        \/ \E t \in Token : Exchange(c, t)
MemberStep ==
    \E c \in Caller :
        \/ AssignMembershipWrite(c)
        \/ \E e \in Email :
            \/ Register(c, e)
            \/ \E k \in Competition, role \in Role, team \in TeamName \cup {"none"} :
                 AssignMembership(c, e, k, role, team)

RoleStep ==
    \E c \in Caller, e \in Email :
        \/ Register(c, e)
        \/ \E role \in VALID_SYSTEM_ROLES : GrantSystemRole(c, e, role) \/ RevokeSystemRole(c, e, role)

AcNext == RoleStep \/ PasswordStep \/ SessionStep \/ LoginStep \/ MemberStep
AcSpec == AcInit /\ [][AcNext]_acVars

-----------------------------------------------------------------------------
(* Properties. *)

\* One login state yields at most one session, whatever callbacks, retries and
\* clock ticks happen: consume deletes the row under its lock.
StateUsedOnce ==
    \A i, j \in 1..Len(sessions) :
        sessions[i].via = sessions[j].via /\ sessions[i].via # 0 => i = j

\* A session another was rotated from is retired in the same transaction, and
\* it was the same user's and unexpired when its successor was issued, even
\* when two refreshes of one token race.
RotationRetires ==
    \A i \in 1..Len(sessions) :
        LET p == sessions[sessions[i].from] IN
        sessions[i].from # 0 => /\ p.revoked # 0 /\ p.user = sessions[i].user
                                /\ sessions[i].issued < p.expires

\* A verified federated login never fails because somebody else registered the
\* same e-mail between the lookup and the insert.
ProvisionRaceHarmless ==
    "callback" \notin clashes
-----------------------------------------------------------------------------

\* Accounts, sessions and login states stay consistent however callers race.
AccountsSafe ==
    /\ StateUsedOnce
    /\ RotationRetires
    /\ ProvisionRaceHarmless
=============================================================================
