---------------------------- MODULE AccessProofs ----------------------------
(***************************************************************************)
(* Theorems about Accounts, Requests and Edge, for every set of users,     *)
(* people and requests: logins and sessions under concurrent callers,      *)
(* edits that name a version, answers given again from the store, the      *)
(* audit log, who is admitted and what an act shows.                       *)
(***************************************************************************)
EXTENDS Accounts, Requests, Edge, FiniteSetTheorems, WellFoundedInduction,
        SequenceTheorems, TLAPS

-----------------------------------------------------------------------------
(* Accounts.  A login state is in one place at a time: pending in its row,   *)
(* in the callback that deleted the row, or in the session it led to.        *)

SessionRow == [user : Email, issued : Nat, expires : Nat, from : Nat, revoked : Nat, via : Nat]

AcTypeOK ==
    /\ users \subseteq Email
    /\ sessions \in Seq(SessionRow)
    /\ logins \subseteq [state : Nat, expires : Nat] /\ issuedLogins \in Nat
    /\ clock \in Nat \ {0}
    /\ call = [c \in Caller |-> call[c]]

Provisioning == [op : {"callback"}, state : Nat, email : Email, now : Nat, at : {"provision"}]

\* What a request has read still holds when it writes: rows are not deleted
\* and their expiry does not change.
CallKnows(c) ==
    LET r == call[c] IN
    /\ r.op = "bootstrap" => r.email \in Email
    /\ r.op \in {"authenticate", "refresh", "logout", "callback"} => r.now \in Nat \ {0}
    /\ r.op \in {"refresh", "logout"} => r.old \in 1..Len(sessions)
    /\ r.op = "refresh" => r.now < sessions[r.old].expires
    /\ r.op = "callback" => /\ r.state \in 1..issuedLogins
                            /\ r.at # "exchange" => r.email \in Email
                            /\ r.at = "provision" => r \in Provisioning

\* The state of a callback is in no row and in no other callback.
OnlyIn(c) ==
    /\ \A l \in logins : l.state # call[c].state
    /\ \A i \in 1..Len(sessions) : sessions[i].via # call[c].state
    /\ \A d \in Caller : call[d].op = "callback" /\ call[d].state = call[c].state => d = c

\* Where a login state is.
StateInOnePlace ==
    /\ \A l \in logins : l.state \in 1..issuedLogins
    /\ \A i \in 1..Len(sessions) : sessions[i].via \in 0..issuedLogins
    /\ \A l \in logins, i \in 1..Len(sessions) : sessions[i].via # l.state
    /\ \A c \in Caller : call[c].op = "callback" => OnlyIn(c)

AccountsInv ==
    /\ AcTypeOK
    /\ \A c \in Caller : CallKnows(c)
    /\ StateInOnePlace
    /\ \A i \in 1..Len(sessions) : sessions[i].from \in 0..Len(sessions)
    /\ AccountsSafe

LEMMA AccountsStart == AcInit => AccountsInv
  <1>. SUFFICES ASSUME AcInit PROVE AccountsInv
    OBVIOUS
  <1>1. AcTypeOK
    <2>1. (CHOOSE e \in Email : TRUE) \in Email
      BY AccountsAssumption
    <2>. QED  BY <2>1 DEF AcInit, AcTypeOK
  <1>2. Len(sessions) = 0 /\ logins = {} /\ clashes = {} /\ \A c \in Caller : call[c].op = "idle"
    BY DEF AcInit, Idle
  <1>. QED  BY <1>1, <1>2 DEF AccountsInv, CallKnows, StateInOnePlace, OnlyIn, AccountsSafe, StateUsedOnce,
              RotationRetires, ProvisionRaceHarmless

\* The session table after one insertion and after one stamp.
LEMMA InsertedRow ==
    ASSUME sessions \in Seq(SessionRow), NEW row \in SessionRow, sessions' = Append(sessions, row)
    PROVE  /\ sessions' \in Seq(SessionRow) /\ Len(sessions') = Len(sessions) + 1 /\ Len(sessions) \in Nat
           /\ sessions'[Len(sessions) + 1] = row
           /\ \A i \in 1..Len(sessions) : sessions'[i] = sessions[i]
  OBVIOUS

LEMMA StampedRow ==
    ASSUME NEW ss \in Seq(SessionRow), NEW i \in 1..Len(ss), NEW now \in Nat \ {0}
    PROVE  /\ Revoked(ss, i, now) \in Seq(SessionRow) /\ Len(Revoked(ss, i, now)) = Len(ss)
           /\ Revoked(ss, i, now)[i].revoked # 0
           /\ \A j \in 1..Len(ss) :
                /\ ss[j].revoked # 0 => Revoked(ss, i, now)[j].revoked # 0
                /\ Revoked(ss, i, now)[j].user = ss[j].user /\ Revoked(ss, i, now)[j].issued = ss[j].issued
                /\ Revoked(ss, i, now)[j].expires = ss[j].expires /\ Revoked(ss, i, now)[j].from = ss[j].from
                /\ Revoked(ss, i, now)[j].via = ss[j].via
  <1>1. ss[i] \in SessionRow
    OBVIOUS
  <1>. DEFINE row == [ss[i] EXCEPT !.revoked = now]
  <1>2. /\ row \in SessionRow /\ row.revoked = now /\ row.user = ss[i].user /\ row.issued = ss[i].issued
        /\ row.expires = ss[i].expires /\ row.from = ss[i].from /\ row.via = ss[i].via
    BY <1>1 DEF SessionRow
  <1>. HIDE DEF row
  <1>3. [ss EXCEPT ![i] = row] \in Seq(SessionRow)
    BY <1>2
  <1>4. Revoked(ss, i, now) = IF ss[i].revoked = 0 THEN [ss EXCEPT ![i] = row] ELSE ss
    BY DEF Revoked, row
  <1>. QED  BY <1>1, <1>2, <1>3, <1>4

\* A request goes on, or ends, without touching the tables of this theorem.
LEMMA RequestGoesOn ==
    ASSUME AccountsInv, NEW c \in Caller, NEW rec, call' = [call EXCEPT ![c] = rec],
           UNCHANGED <<sessions, logins, issuedLogins, clock>>,
           users' \subseteq Email, "callback" \notin clashes',
           rec.op = "bootstrap" => rec.email \in Email,
           rec.op \in {"authenticate", "refresh", "logout", "callback"} => rec.now \in Nat \ {0},
           rec.op \in {"refresh", "logout"} => rec.old \in 1..Len(sessions),
           rec.op = "refresh" => rec.now < sessions[rec.old].expires,
           rec.op = "callback" => /\ call[c].op = "callback" /\ rec.state = call[c].state
                                  /\ rec.at # "exchange" => rec.email \in Email
                                  /\ rec.at = "provision" => rec \in Provisioning
    PROVE  AccountsInv'
  <1>. USE DEF AccountsInv
  <1>0. call'[c] = rec /\ \A d \in Caller : d # c => call'[d] = call[d]
    BY DEF AcTypeOK
  <1>1. AcTypeOK'
    <2>1. call' = [d \in Caller |-> call'[d]]
      BY DEF AcTypeOK
    <2>. QED  BY <2>1 DEF AcTypeOK
  <1>2. \A d \in Caller : CallKnows(d)'
    BY <1>0 DEF CallKnows
  <1>3. StateInOnePlace'
    BY <1>0 DEF StateInOnePlace, OnlyIn
  <1>4. AccountsSafe'
    BY DEF AccountsSafe, StateUsedOnce, RotationRetires, ProvisionRaceHarmless
  <1>. QED  BY <1>1, <1>2, <1>3, <1>4

\* A request ends with a new session.
LEMMA SessionIssued ==
    ASSUME AccountsInv, NEW c \in Caller, call' = [call EXCEPT ![c] = Idle],
           UNCHANGED <<users, logins, issuedLogins, clock, clashes>>,
           sessions' \in Seq(SessionRow), Len(sessions') = Len(sessions) + 1,
           \A i \in 1..Len(sessions) :
             /\ sessions[i].revoked # 0 => sessions'[i].revoked # 0
             /\ sessions'[i].user = sessions[i].user /\ sessions'[i].issued = sessions[i].issued
             /\ sessions'[i].expires = sessions[i].expires /\ sessions'[i].from = sessions[i].from
             /\ sessions'[i].via = sessions[i].via,
           NEW n, n = Len(sessions) + 1,
           \/ sessions'[n].via = 0
           \/ call[c].op = "callback" /\ sessions'[n].via = call[c].state,
           \/ sessions'[n].from = 0
           \/ LET f == sessions'[n].from IN
              /\ f \in 1..Len(sessions) /\ sessions'[f].revoked # 0 /\ sessions'[f].user = sessions'[n].user
              /\ sessions'[n].issued < sessions'[f].expires
    PROVE  AccountsInv'
  <1>. USE DEF AccountsInv
  <1>0. call'[c].op = "idle" /\ \A d \in Caller : d # c => call'[d] = call[d]
    BY DEF AcTypeOK, Idle
  <1>a. /\ Len(sessions) \in Nat /\ 1..Len(sessions') = 1..Len(sessions) \cup {n}
        /\ issuedLogins \in Nat /\ n \notin 1..Len(sessions)
    BY DEF AcTypeOK
  <1>1. AcTypeOK'
    <2>1. call' = [d \in Caller |-> call'[d]]
      BY DEF AcTypeOK
    <2>. QED  BY <2>1 DEF AcTypeOK
  <1>2. \A d \in Caller : CallKnows(d)'
    BY <1>0, <1>a DEF CallKnows
  <1>3. StateInOnePlace'
    <2>1. call[c].op = "callback" => call[c].state \in 1..issuedLogins
      BY DEF CallKnows
    <2>2. \A l \in logins : l.state # 0
      BY <1>a DEF StateInOnePlace, OnlyIn
    <2>3. \A d \in Caller : call[d].op = "callback" => call[d].state # 0
      BY <1>a DEF CallKnows
    <2>4. \A l \in logins : sessions'[n].via # l.state
      BY <2>2 DEF StateInOnePlace, OnlyIn
    <2>5. \A d \in Caller : call'[d].op = "callback" => sessions'[n].via # call'[d].state
      BY <1>0, <2>3 DEF StateInOnePlace, OnlyIn
    <2>6. sessions'[n].via \in 0..issuedLogins
      BY <1>a, <2>1
    <2>7. \A l \in logins : l.state \in 1..issuedLogins
      BY DEF StateInOnePlace, OnlyIn
    <2>8. \A i \in 1..Len(sessions') : sessions'[i].via \in 0..issuedLogins
      BY <1>a, <2>6 DEF StateInOnePlace, OnlyIn
    <2>9. \A l \in logins, i \in 1..Len(sessions') : sessions'[i].via # l.state
      BY <1>a, <2>4 DEF StateInOnePlace, OnlyIn
    <2>10. ASSUME NEW d \in Caller, call'[d].op = "callback"
           PROVE  OnlyIn(d)'
      <3>1. d # c /\ call'[d] = call[d]
        BY <1>0, <2>10
      <3>2. \A l \in logins : l.state # call'[d].state
        BY <2>10, <3>1 DEF StateInOnePlace, OnlyIn
      <3>3. \A i \in 1..Len(sessions') : sessions'[i].via # call'[d].state
        BY <1>a, <2>5, <2>10, <3>1 DEF StateInOnePlace, OnlyIn
      <3>4. \A e \in Caller : call'[e].op = "callback" /\ call'[e].state = call'[d].state => e = d
        BY <1>0, <2>10, <3>1 DEF StateInOnePlace, OnlyIn
      <3>. QED  BY <3>2, <3>3, <3>4 DEF OnlyIn
    <2>. QED  BY <2>7, <2>8, <2>9, <2>10 DEF StateInOnePlace, OnlyIn
  <1>4. \A i \in 1..Len(sessions') : sessions'[i].from \in 0..Len(sessions')
    BY <1>a
  <1>5. StateUsedOnce'
    <2>1. \A i \in 1..Len(sessions) : sessions'[n].via # 0 => sessions'[i].via # sessions'[n].via
      BY DEF StateInOnePlace, OnlyIn
    <2>. QED  BY <1>a, <2>1 DEF AccountsSafe, StateUsedOnce
  <1>6. RotationRetires'
    <2>. SUFFICES ASSUME NEW i \in 1..Len(sessions'), sessions'[i].from # 0
                  PROVE  LET p == sessions'[sessions'[i].from] IN
                         /\ p.revoked # 0 /\ p.user = sessions'[i].user /\ sessions'[i].issued < p.expires
      BY DEF RotationRetires
    <2>1. CASE i = n
      BY <2>1
    <2>2. CASE i \in 1..Len(sessions)
      <3>1. sessions[i].from \in 1..Len(sessions)
        BY <1>a, <2>2
      <3>. QED  BY <2>2, <3>1 DEF AccountsSafe, RotationRetires
    <2>. QED  BY <1>a, <2>1, <2>2
  <1>. QED  BY <1>1, <1>2, <1>3, <1>4, <1>5, <1>6 DEF AccountsSafe, ProvisionRaceHarmless

LEMMA InsertStep ==
    ASSUME AccountsInv, NEW c \in Caller, AuthenticateWrite(c) \/ IssueFederatedSession(c)
    PROVE  AccountsInv'
  <1>. DEFINE via == IF AuthenticateWrite(c) THEN 0 ELSE call[c].state
              row == [user |-> call[c].email, issued |-> call[c].now, expires |-> call[c].now + SessionTtl,
                      from |-> 0, revoked |-> 0, via |-> via]
  <1>1. /\ sessions' = Append(sessions, row) /\ call[c].email \in users
        /\ call' = [call EXCEPT ![c] = Idle] /\ UNCHANGED <<users, logins, issuedLogins, clock, clashes>>
        /\ via # 0 => call[c].op = "callback"
        /\ call[c].op \in {"authenticate", "callback"}
    BY DEF AuthenticateWrite, IssueFederatedSession, IssueSession, Ends
  <1>2. row \in SessionRow
    <2>1. call[c].now \in Nat /\ via \in Nat
      BY <1>1 DEF AccountsInv, CallKnows, AcTypeOK, IssueFederatedSession
    <2>. QED  BY <1>1, <2>1, AccountsAssumption DEF SessionRow, AccountsInv, AcTypeOK
  <1>3. row.via = 0 \/ (call[c].op = "callback" /\ row.via = call[c].state)
    BY <1>1
  <1>4. row.from = 0 /\ row.via = via
    OBVIOUS
  <1>. HIDE DEF row
  <1>5. sessions \in Seq(SessionRow)
    BY DEF AccountsInv, AcTypeOK
  <1>6. /\ sessions' \in Seq(SessionRow) /\ Len(sessions') = Len(sessions) + 1
        /\ sessions'[Len(sessions) + 1] = row /\ \A i \in 1..Len(sessions) : sessions'[i] = sessions[i]
    BY <1>1, <1>2, <1>5, InsertedRow
  <1>. HIDE DEF via
  <1>. QED  BY <1>1, <1>3, <1>4, <1>6, SessionIssued

LEMMA RefreshStep ==
    ASSUME AccountsInv, NEW c \in Caller, RefreshWrite(c)
    PROVE  AccountsInv'
  <1>. DEFINE old == call[c].old
              now == call[c].now
              n == Len(sessions) + 1
              row == [user |-> sessions[old].user, issued |-> now, expires |-> now + SessionTtl,
                      from |-> old, revoked |-> 0, via |-> 0]
              ss == Append(sessions, row)
  <1>1. /\ sessions' = Revoked(ss, old, now)
        /\ call' = [call EXCEPT ![c] = Idle] /\ UNCHANGED <<users, logins, issuedLogins, clock, clashes>>
    BY DEF RefreshWrite, RefreshedRows, Ends
  <1>2. /\ now \in Nat \ {0} /\ old \in 1..Len(sessions) /\ now < sessions[old].expires
        /\ sessions \in Seq(SessionRow)
    BY DEF RefreshWrite, AccountsInv, CallKnows, AcTypeOK
  <1>3. row \in SessionRow
    <2>1. sessions[old] \in SessionRow
      BY <1>2
    <2>. HIDE DEF now, old
    <2>a. now \in Nat /\ old \in Nat
      BY <1>2
    <2>b. now + SessionTtl \in Nat
      BY <2>a, AccountsAssumption
    <2>c. sessions[old].user \in Email
      BY <2>1 DEF SessionRow
    <2>2. sessions[old].user \in Email /\ now + SessionTtl \in Nat /\ old \in Nat
      BY <2>a, <2>b, <2>c
    <2>. QED  BY <1>2, <2>2 DEF SessionRow
  <1>4. /\ row.from = old /\ row.via = 0 /\ row.issued = now /\ row.user = sessions[old].user
    OBVIOUS
  <1>. HIDE DEF row
  <1>5. /\ ss \in Seq(SessionRow) /\ Len(ss) = n /\ ss[n] = row /\ old \in 1..Len(ss) /\ n \in 1..Len(ss)
        /\ \A i \in 1..Len(sessions) : ss[i] = sessions[i] /\ i \in 1..Len(ss)
    BY <1>2, <1>3
  <1>. HIDE DEF ss, n, now, old
  <1>6. /\ sessions' \in Seq(SessionRow) /\ Len(sessions') = n
        /\ \A i \in 1..Len(sessions) :
             /\ sessions[i].revoked # 0 => sessions'[i].revoked # 0
             /\ sessions'[i].user = sessions[i].user /\ sessions'[i].issued = sessions[i].issued
             /\ sessions'[i].expires = sessions[i].expires /\ sessions'[i].from = sessions[i].from
             /\ sessions'[i].via = sessions[i].via
        /\ sessions'[n].via = 0 /\ sessions'[n].from = old
        /\ sessions'[n].issued = now /\ sessions'[n].user = sessions[old].user
        /\ sessions'[old].revoked # 0
    BY <1>1, <1>2, <1>4, <1>5, StampedRow
  <1>. QED  BY <1>1, <1>2, <1>6, SessionIssued DEF n

\* Rows change only by a stamp that ends a session.
LEMMA LogoutStep ==
    ASSUME AccountsInv, NEW c \in Caller, LogoutWrite(c)
    PROVE  AccountsInv'
  <1>. USE DEF AccountsInv
  <1>1. /\ sessions' = Revoked(sessions, call[c].old, call[c].now)
        /\ call' = [call EXCEPT ![c] = Idle] /\ UNCHANGED <<users, logins, issuedLogins, clock, clashes>>
    BY DEF LogoutWrite, Ends
  <1>2. call[c].now \in Nat \ {0} /\ call[c].old \in 1..Len(sessions) /\ sessions \in Seq(SessionRow)
    BY DEF LogoutWrite, CallKnows, AcTypeOK
  <1>3. /\ sessions' \in Seq(SessionRow) /\ Len(sessions') = Len(sessions)
        /\ \A i \in 1..Len(sessions) :
             /\ sessions[i].revoked # 0 => sessions'[i].revoked # 0
             /\ sessions'[i].user = sessions[i].user /\ sessions'[i].issued = sessions[i].issued
             /\ sessions'[i].expires = sessions[i].expires /\ sessions'[i].from = sessions[i].from
             /\ sessions'[i].via = sessions[i].via
    <2>1. PICK o \in 1..Len(sessions), t \in Nat \ {0} : o = call[c].old /\ t = call[c].now
      BY <1>2
    <2>2. sessions' = Revoked(sessions, o, t)
      BY <1>1, <2>1
    <2>. HIDE DEF AccountsInv
    <2>3. PICK ss, tt : ss = sessions /\ tt = Revoked(ss, o, t)
      OBVIOUS
    <2>4. ss \in Seq(SessionRow) /\ o \in 1..Len(ss)
      BY <1>2, <2>1, <2>3
    <2>5. /\ tt \in Seq(SessionRow) /\ Len(tt) = Len(ss)
          /\ \A i \in 1..Len(ss) :
               /\ ss[i].revoked # 0 => tt[i].revoked # 0
               /\ tt[i].user = ss[i].user /\ tt[i].issued = ss[i].issued
               /\ tt[i].expires = ss[i].expires /\ tt[i].from = ss[i].from /\ tt[i].via = ss[i].via
      <3>1. tt = Revoked(ss, o, t)
        BY <2>3
      <3>. QED  BY <2>4, <3>1, StampedRow
    <2>6. sessions' = tt
      BY <2>2, <2>3
    <2>. QED  BY <2>3, <2>5, <2>6
  <1>4. call'[c].op = "idle" /\ \A d \in Caller : d # c => call'[d] = call[d]
    BY <1>1 DEF AcTypeOK, Idle
  <1>5. AcTypeOK'
    <2>1. call' = [d \in Caller |-> call'[d]]
      BY <1>1 DEF AcTypeOK
    <2>. QED  BY <1>1, <1>3, <2>1 DEF AcTypeOK
  <1>6. \A d \in Caller : CallKnows(d)'
    BY <1>1, <1>3, <1>4 DEF CallKnows
  <1>7. StateInOnePlace'
    BY <1>1, <1>3, <1>4 DEF StateInOnePlace, OnlyIn
  <1>8. AccountsSafe'
    <2>1. StateUsedOnce'
      BY <1>3 DEF AccountsSafe, StateUsedOnce
    <2>2. RotationRetires'
      <3>1. \A i \in 1..Len(sessions) : sessions[i].from # 0 => sessions[i].from \in 1..Len(sessions)
        BY <1>2
      <3>. QED  BY <1>3, <3>1 DEF AccountsSafe, RotationRetires
    <2>. QED  BY <1>1, <2>1, <2>2 DEF AccountsSafe, ProvisionRaceHarmless
  <1>9. \A i \in 1..Len(sessions') : sessions'[i].from \in 0..Len(sessions')
    BY <1>3
  <1>. QED  BY <1>5, <1>6, <1>7, <1>8, <1>9

LEMMA StateMade ==
    ASSUME AccountsInv, NEW c \in Caller, BuildAuthorizationUrl(c)
    PROVE  AccountsInv'
  <1>. USE DEF AccountsInv
  <1>. DEFINE row == [state |-> issuedLogins + 1, expires |-> clock + LoginTtl]
  <1>0. row.state = issuedLogins + 1 /\ row \in [state : Nat, expires : Nat]
    BY AccountsAssumption DEF AcTypeOK
  <1>. HIDE DEF row
  <1>1. /\ issuedLogins' = issuedLogins + 1 /\ UNCHANGED <<users, sessions, clock, clashes>>
        /\ logins' \subseteq logins \cup {row}
        /\ call'[c].op = "idle" /\ \A d \in Caller : d # c => call'[d] = call[d]
        /\ call' = [d \in Caller |-> call'[d]]
    BY DEF BuildAuthorizationUrl, Ends, AcTypeOK, prune_expired, Idle, row
  <1>2. issuedLogins \in Nat
    BY DEF AcTypeOK
  <1>3. AcTypeOK'
    BY <1>0, <1>1 DEF AcTypeOK
  <1>4. \A d \in Caller : CallKnows(d)'
    BY <1>1, <1>2 DEF CallKnows
  <1>5. StateInOnePlace'
    BY <1>0, <1>1, <1>2 DEF StateInOnePlace, OnlyIn, CallKnows
  <1>6. AccountsSafe'
    BY <1>1 DEF AccountsSafe, StateUsedOnce, RotationRetires, ProvisionRaceHarmless
  <1>. QED  BY <1>1, <1>3, <1>4, <1>5, <1>6

LEMMA StateTaken ==
    ASSUME AccountsInv, NEW c \in Caller, NEW st \in 1..issuedLogins, NEW cookie, Callback(c, st, cookie)
    PROVE  AccountsInv'
  <1>. USE DEF AccountsInv
  <1>1. /\ UNCHANGED <<users, sessions, issuedLogins, clock, clashes>>
        /\ logins' \subseteq logins /\ \A l \in logins' : l.state # st
        /\ \A d \in Caller : d # c => call'[d] = call[d]
        /\ call' = [d \in Caller |-> call'[d]]
    BY DEF Callback, Ends, Goes, AcTypeOK, consume
  <1>2. \/ call'[c].op = "idle"
        \/ /\ call'[c].op = "callback" /\ call'[c].at = "exchange" /\ call'[c].state = st /\ call'[c].now = clock
           /\ \E l \in logins : l.state = st
    BY DEF Callback, Ends, Goes, AcTypeOK, Idle
  <1>3. AcTypeOK'
    BY <1>1 DEF AcTypeOK
  <1>4. \A d \in Caller : CallKnows(d)'
    BY <1>1, <1>2 DEF CallKnows, AcTypeOK
  <1>5. StateInOnePlace'
    BY <1>1, <1>2 DEF StateInOnePlace, OnlyIn
  <1>6. AccountsSafe'
    BY <1>1 DEF AccountsSafe, StateUsedOnce, RotationRetires, ProvisionRaceHarmless
  <1>. QED  BY <1>1, <1>3, <1>4, <1>5, <1>6

LEMMA TimePasses == AccountsInv /\ AcTick => AccountsInv'
  BY DEF AccountsInv, AcTick, rowVars, AcTypeOK, CallKnows, StateInOnePlace, OnlyIn, AccountsSafe,
         StateUsedOnce, RotationRetires, ProvisionRaceHarmless

\* What a caller does that leaves sessions and login states alone.
Elsewhere(c) ==
    \/ SetPasswordWrite(c) \/ BootstrapAdminWrite(c) \/ AssignMembershipWrite(c)
    \/ DiscoveryFails(c) \/ ExchangeFails(c) \/ Provision(c)
    \/ \E e \in Email :
         \/ Register(c, e)
         \/ \E role \in VALID_SYSTEM_ROLES : GrantSystemRole(c, e, role) \/ RevokeSystemRole(c, e, role)
         \/ \E pw \in Password : SetPassword(c, e, pw) \/ Authenticate(c, e, pw) \/ BootstrapAdmin(c, e, pw)
         \/ \E k \in Competition, role \in Role, team \in TeamName \cup {"none"} : AssignMembership(c, e, k, role, team)
    \/ \E i \in 1..Len(sessions) : Refresh(c, i) \/ Logout(c, i)
    \/ \E t \in Token : Exchange(c, t)

LEMMA ElsewhereStep ==
    ASSUME AccountsInv, NEW c \in Caller, Elsewhere(c)
    PROVE  AccountsInv'
  <1>0. UNCHANGED <<sessions, logins, issuedLogins, clock>>
    BY DEF Elsewhere, SetPasswordWrite, BootstrapAdminWrite, AssignMembershipWrite, DiscoveryFails, ExchangeFails,
       Provision, Register, GrantSystemRole, RevokeSystemRole, SetPassword, Authenticate, BootstrapAdmin,
       AssignMembership, Refresh, Logout, Exchange, rowVars
  <1>a. users \subseteq Email /\ "callback" \notin clashes /\ clock \in Nat \ {0}
    BY DEF AccountsInv, AcTypeOK, AccountsSafe, ProvisionRaceHarmless
  <1>1. ASSUME NEW op, NEW res, Ends(c, op, res), op = "callback" => res # "conflict", users' \subseteq Email
        PROVE  AccountsInv'
    <2>1. call' = [call EXCEPT ![c] = Idle] /\ "callback" \notin clashes' /\ Idle.op = "idle"
      BY <1>a, <1>1 DEF Ends, Idle
    <2>. QED  BY <1>0, <1>1, <2>1, RequestGoesOn
  <1>2. CASE \/ SetPasswordWrite(c) \/ BootstrapAdminWrite(c) \/ AssignMembershipWrite(c)
             \/ DiscoveryFails(c) \/ ExchangeFails(c)
             \/ \E e \in Email :
                  \/ Register(c, e)
                  \/ \E role \in VALID_SYSTEM_ROLES : GrantSystemRole(c, e, role) \/ RevokeSystemRole(c, e, role)
    <2>1. users' \subseteq Email
      BY <1>2, <1>a DEF SetPasswordWrite, BootstrapAdminWrite, AssignMembershipWrite, DiscoveryFails, ExchangeFails,
         Register, GrantSystemRole, RevokeSystemRole, rowVars, AccountsInv, CallKnows
    <2>2. \E op, res : Ends(c, op, res) /\ (op = "callback" => res # "conflict")
      BY <1>2 DEF SetPasswordWrite, BootstrapAdminWrite, AssignMembershipWrite, DiscoveryFails, ExchangeFails,
         Register, GrantSystemRole, RevokeSystemRole
    <2>. QED  BY <1>1, <2>1, <2>2
  <1>3. CASE Provision(c)
    <2>. DEFINE r == call[c]
                rec == [r EXCEPT !.at = "issue"]
    <2>1. r.op = "callback" /\ r.at = "provision" /\ r \in Provisioning /\ r.now \in Nat \ {0} /\ users' = users \cup {r.email}
      BY <1>3 DEF Provision, AccountsInv, CallKnows
    <2>2. rec.op = "callback" /\ rec.state = r.state /\ rec.email = r.email /\ rec.now = r.now /\ rec.at = "issue"
          /\ r.email \in Email
      BY <2>1 DEF Provisioning
    <2>3. CASE Goes(c, rec)
      <3>1. call' = [call EXCEPT ![c] = rec] /\ clashes' = clashes /\ users' \subseteq Email
        BY <2>1, <2>2, <2>3, <1>a DEF Goes
      <3>. HIDE DEF rec
      <3>. QED  BY <1>0, <1>a, <2>1, <2>2, <3>1, RequestGoesOn
    <2>4. CASE Ends(c, "callback", ProvisionResult(r))
      BY <1>1, <1>a, <2>1, <2>2, <2>4 DEF ProvisionResult
    <2>. QED  BY <1>3, <2>1, <2>3, <2>4 DEF Provision
  <1>4. ASSUME NEW e \in Email, NEW pw \in Password,
               SetPassword(c, e, pw) \/ Authenticate(c, e, pw) \/ BootstrapAdmin(c, e, pw)
        PROVE  AccountsInv'
    <2>1. users' \subseteq Email
      BY <1>4, <1>a DEF SetPassword, Authenticate, BootstrapAdmin, rowVars
    <2>2. CASE \E op, res : Ends(c, op, res) /\ (op = "callback" => res # "conflict")
      BY <1>1, <2>1, <2>2
    <2>3. ASSUME NEW rec, Goes(c, rec), rec.op \in {"set_password", "authenticate", "bootstrap"},
                 rec.op = "bootstrap" => rec.email \in Email, rec.op = "authenticate" => rec.now = clock
          PROVE  AccountsInv'
      BY <1>0, <1>a, <2>1, <2>3, RequestGoesOn DEF Goes
    <2>4. SetPassword(c, e, pw) => (\E op, res : Ends(c, op, res) /\ (op = "callback" => res # "conflict")) \/ AccountsInv'
      BY <2>3 DEF SetPassword
    <2>5. Authenticate(c, e, pw) => (\E op, res : Ends(c, op, res) /\ (op = "callback" => res # "conflict")) \/ AccountsInv'
      BY <2>3 DEF Authenticate
    <2>6. BootstrapAdmin(c, e, pw) => (\E op, res : Ends(c, op, res) /\ (op = "callback" => res # "conflict")) \/ AccountsInv'
      BY <2>3 DEF BootstrapAdmin
    <2>. QED  BY <1>4, <2>2, <2>4, <2>5, <2>6
  <1>5. ASSUME NEW e \in Email, NEW k, NEW role, NEW team, AssignMembership(c, e, k, role, team)
        PROVE  AccountsInv'
    <2>1. PICK rec : rec.op = "assign" /\ Goes(c, rec)
      BY <1>5 DEF AssignMembership
    <2>2. users' \subseteq Email
      BY <1>5, <1>a DEF AssignMembership, rowVars
    <2>. QED  BY <1>0, <1>a, <2>1, <2>2, RequestGoesOn DEF Goes
  <1>6. ASSUME NEW i \in 1..Len(sessions), Refresh(c, i) \/ Logout(c, i)
        PROVE  AccountsInv'
    <2>1. users' \subseteq Email
      BY <1>6, <1>a DEF Refresh, Logout, rowVars
    <2>2. CASE \E op \in {"refresh", "logout"} : Ends(c, op, "refused")
      BY <1>1, <2>1, <2>2
    <2>3. CASE \E rec : /\ Goes(c, rec) /\ rec.op \in {"refresh", "logout"} /\ rec.old = i /\ rec.now = clock
                        /\ is_live(sessions[i], clock)
      <3>1. sessions[i].expires > clock /\ sessions[i].expires \in Nat
        <4>1. sessions[i] \in SessionRow
          BY DEF AccountsInv, AcTypeOK
        <4>. QED  BY <2>3, <4>1 DEF is_live, SessionRow
      <3>. QED  BY <1>0, <1>a, <2>1, <2>3, <3>1, RequestGoesOn DEF Goes
    <2>. QED  BY <1>6, <2>2, <2>3 DEF Refresh, Logout
  <1>7. ASSUME NEW t \in Token, Exchange(c, t)
        PROVE  AccountsInv'
    <2>. DEFINE r == call[c]
    <2>1. users' \subseteq Email /\ r.op = "callback" /\ r.state \in 1..issuedLogins /\ r.now \in Nat \ {0} /\ t.email \in Email
      BY <1>7, <1>a DEF Exchange, rowVars, AccountsInv, CallKnows, Token
    <2>2. CASE Ends(c, "callback", "refused")
      BY <1>1, <2>1, <2>2
    <2>3. ASSUME NEW at \in {"issue", "provision"},
                 Goes(c, [op |-> "callback", state |-> r.state, email |-> t.email, now |-> r.now, at |-> at])
          PROVE  AccountsInv'
      <3>. DEFINE rec == [op |-> "callback", state |-> r.state, email |-> t.email, now |-> r.now, at |-> at]
      <3>1. /\ rec.op = "callback" /\ rec.state = r.state /\ rec.email = t.email /\ rec.now = r.now /\ rec.at = at
            /\ at = "provision" => rec \in Provisioning
        BY <2>1 DEF Provisioning
      <3>2. call' = [call EXCEPT ![c] = rec] /\ clashes' = clashes
        BY <2>3 DEF Goes
      <3>. HIDE DEF rec
      <3>. QED  BY <1>0, <1>a, <2>1, <3>1, <3>2, RequestGoesOn
    <2>. QED  BY <1>7, <2>1, <2>2, <2>3 DEF Exchange
  <1>. QED  BY <1>2, <1>3, <1>4, <1>5, <1>6, <1>7 DEF Elsewhere

LEMMA AccountsStep == AccountsInv /\ [AcNext]_acVars => AccountsInv'
  <1>. SUFFICES ASSUME AccountsInv, [AcNext]_acVars PROVE AccountsInv'
    OBVIOUS
  <1>1. CASE UNCHANGED acVars
    BY <1>1 DEF acVars, AccountsInv, AcTypeOK, CallKnows, StateInOnePlace, OnlyIn, AccountsSafe, StateUsedOnce,
       RotationRetires, ProvisionRaceHarmless
  <1>2. CASE AcTick
    BY <1>2, TimePasses
  <1>3. ASSUME NEW c \in Caller, AuthenticateWrite(c) \/ IssueFederatedSession(c) \/ RefreshWrite(c) \/ LogoutWrite(c)
                                 \/ BuildAuthorizationUrl(c) \/ Elsewhere(c)
        PROVE  AccountsInv'
    BY <1>3, InsertStep, RefreshStep, LogoutStep, StateMade, ElsewhereStep
  <1>4. ASSUME NEW c \in Caller, NEW st \in 1..issuedLogins, NEW cookie, Callback(c, st, cookie)
        PROVE  AccountsInv'
    BY <1>4, StateTaken
  <1>5. RoleStep \/ PasswordStep \/ MemberStep => \E c \in Caller : AuthenticateWrite(c) \/ Elsewhere(c)
    BY DEF RoleStep, PasswordStep, MemberStep, Elsewhere
  <1>6. SessionStep => AcTick \/ \E c \in Caller : AuthenticateWrite(c) \/ RefreshWrite(c) \/ LogoutWrite(c) \/ Elsewhere(c)
    BY DEF SessionStep, Elsewhere
  <1>7. LoginStep => \/ AcTick
                     \/ \E c \in Caller : BuildAuthorizationUrl(c) \/ IssueFederatedSession(c) \/ Elsewhere(c)
                     \/ \E c \in Caller, st \in 1..issuedLogins, cookie \in 0..issuedLogins : Callback(c, st, cookie)
    BY DEF LoginStep, Elsewhere
  <1>. QED  BY <1>1, <1>2, <1>3, <1>4, <1>5, <1>6, <1>7 DEF AcNext

\* In every reachable state of auth/service.py and oidc_service.py a login state
\* is in one place and a call knows what it read.
THEOREM AccountsInvariant == AcSpec => []AccountsInv
  BY AccountsStart, AccountsStep, PTL DEF AcSpec

\* However callers race, a login state leads to one session at most, a session
\* that was rotated is retired, and nobody's federated login fails because the
\* e-mail was registered meanwhile; for any number of callers, users and
\* sessions.
THEOREM AccountsSafeHolds == AcSpec => []AccountsSafe
  <1>1. AccountsInv => AccountsSafe
    BY DEF AccountsInv
  <1>. QED  BY <1>1, AccountsInvariant, PTL

-----------------------------------------------------------------------------
(* Requests.  Where no edit brings back a value, the highest value of the    *)
(* two fields orders the contents the row has had, and the row has the last. *)

Age(d) == IF d[1] >= d[2] THEN d[1] ELSE d[2]

\* Every edit sets a field to the number of contents there have been.
Edits ==
    /\ docs \subseteq Nat \X Nat /\ IsFiniteSet(docs) /\ doc \in docs /\ <<0, 0>> \in docs
    /\ \A d \in docs : Age(d) < Cardinality(docs) /\ (Age(d) = Cardinality(docs) - 1 => d = doc)
    /\ Age(doc) = Cardinality(docs) - 1

Fields(c) ==
    [who : {c.who}, comp : {c.comp}, team : {c.team}, key : {c.key}, body : {c.body}, tag : {c.tag},
     live : {c.live}, csrf : {c.csrf}, published : {c.published}, archived : {c.archived},
     route : {c.route}, how : {c.how}, st : {c.st}, base : {c.base}, tries : {c.tries},
     entered : {c.entered}, replayed : {c.replayed}, answer : {c.answer}]

\* A row that is merged into was read after the version the request names.
Serving(c) ==
    \/ c = Unsent
    \/ /\ c \in Fields(c) /\ c.st # "unsent"
       /\ c.body \in {1, 2} /\ c.base \in docs
       /\ c.tag.kind = "tag" => c.tag.doc \in docs
       /\ c.tag.kind = "tag" /\ c.st = "act" /\ c.route.does = "merge" => Age(c.tag.doc) <= Age(c.base)

PatchInv == /\ Edits /\ calls = [i \in 1..MaxCalls |-> calls[i]]
            /\ \A i \in 1..MaxCalls : Serving(calls[i])

LEMMA PatchStart == RqInit => PatchInv
  <1>. SUFFICES ASSUME RqInit PROVE PatchInv
    OBVIOUS
  <1>1. IsFiniteSet(docs) /\ Cardinality(docs) = 1
    BY FS_Singleton DEF RqInit
  <1>2. Edits
    BY <1>1 DEF RqInit, Edits, Age
  <1>. QED  BY <1>2 DEF RqInit, PatchInv, Serving

\* The content goes on to one that has a new value in a field.
LEMMA EditAges ==
    ASSUME Edits, NEW d \in docs, NEW f \in {1, 2},
           doc' = [d EXCEPT ![f] = Cardinality(docs)], docs' = docs \cup {doc'}
    PROVE  Edits'
  <1>1. Cardinality(docs) \in Nat /\ d \in Nat \X Nat
    BY FS_CardinalityType DEF Edits
  <1>2. doc' \in Nat \X Nat /\ Age(doc') = Cardinality(docs)
    <2>1. d = <<d[1], d[2]>> /\ d[1] \in Nat /\ d[2] \in Nat /\ d[1] < Cardinality(docs) /\ d[2] < Cardinality(docs)
      BY <1>1 DEF Edits, Age
    <2>2. CASE f = 1
      <3>1. doc' = <<Cardinality(docs), d[2]>>
        BY <2>1, <2>2
      <3>. QED  BY <1>1, <2>1, <3>1 DEF Age
    <2>3. CASE f = 2
      <3>1. doc' = <<d[1], Cardinality(docs)>>
        BY <2>1, <2>3
      <3>. QED  BY <1>1, <2>1, <3>1 DEF Age
    <2>. QED  BY <2>2, <2>3
  <1>3. doc' \notin docs
    BY <1>1, <1>2 DEF Edits
  <1>4. IsFiniteSet(docs') /\ Cardinality(docs') = Cardinality(docs) + 1
    BY <1>3, FS_AddElement DEF Edits
  <1>5. \A e \in docs : Age(e) \in Nat
    BY DEF Edits, Age
  <1>6. Age(doc') = Cardinality(docs') - 1 /\ docs' \subseteq Nat \X Nat
    BY <1>1, <1>2, <1>4 DEF Edits
  <1>7. \A e \in docs' : Age(e) < Cardinality(docs') /\ (Age(e) = Cardinality(docs') - 1 => e = doc')
    <2>. SUFFICES ASSUME NEW e \in docs'
                  PROVE  Age(e) < Cardinality(docs') /\ (Age(e) = Cardinality(docs') - 1 => e = doc')
      OBVIOUS
    <2>1. e = doc' \/ (e \in docs /\ Age(e) < Cardinality(docs) /\ Age(e) \in Nat)
      BY <1>5 DEF Edits
    <2>2. CASE e = doc'
      BY <1>1, <1>2, <1>4, <2>2
    <2>3. CASE e \in docs /\ Age(e) < Cardinality(docs) /\ Age(e) \in Nat
      BY <1>1, <1>4, <2>3
    <2>. QED  BY <2>1, <2>2, <2>3
  <1>. QED  BY <1>4, <1>6, <1>7 DEF Edits

\* One call goes on; the contents so far stay known.
LEMMA CallGoesOn ==
    ASSUME PatchInv, NEW i \in 1..MaxCalls, NEW c, calls' = [calls EXCEPT ![i] = c],
           docs \subseteq docs', Edits', Serving(c)'
    PROVE  PatchInv'
  <1>1. calls' = [j \in 1..MaxCalls |-> calls'[j]] /\ calls'[i] = c /\ \A j \in 1..MaxCalls : j # i => calls'[j] = calls[j]
    BY DEF PatchInv
  <1>. QED  BY <1>1 DEF PatchInv, Serving

\* A call goes on with the request it carries.
LEMMA CallCarriesOn ==
    ASSUME PatchInv, NEW i \in 1..MaxCalls, NEW c, calls' = [calls EXCEPT ![i] = c], calls[i].st # "unsent",
           UNCHANGED <<doc, docs>>, c \in Fields(c), c.st # "unsent",
           c.body = calls[i].body, c.tag = calls[i].tag, c.base = calls[i].base, c.route = calls[i].route,
           c.st = "act" /\ c.route.does = "merge" => calls[i].st = "act"
    PROVE  PatchInv'
  <1>1. Serving(calls[i]) /\ calls[i] # Unsent
    BY DEF PatchInv, Unsent
  <1>2. Serving(c)'
    BY <1>1 DEF Serving
  <1>3. Edits'
    BY DEF PatchInv, Edits
  <1>. QED  BY <1>2, <1>3, CallGoesOn

LEMMA SendStep ==
    ASSUME PatchInv, NEW people, NEW i \in 1..MaxCalls, NEW r, NEW in \in Inputs(r, people),
           NEW how, NEW st \in {"enter", "fetch"},
           calls' = [calls EXCEPT ![i] = Sent(r, how, in, st)], UNCHANGED <<doc, docs>>
    PROVE  PatchInv'
  <1>. DEFINE c == Sent(r, how, in, st)
  <1>1. c \in Fields(c) /\ c.st = st /\ c.base = <<0, 0>> /\ c.body = in.body /\ c.tag = in.tag
    BY DEF Sent, Fields
  <1>2. in.body \in {1, 2}
    BY RequestsAssumption DEF Inputs, If
  <1>3. in.tag.kind = "tag" => in.tag.doc \in docs
    <2>1. in.tag \in {NoTag, AnyTag} \cup {Tag(d) : d \in docs}
      BY DEF Inputs, If
    <2>. QED  BY <2>1 DEF NoTag, AnyTag, Tag
  <1>4. Serving(c)'
    BY <1>1, <1>2, <1>3 DEF Serving, PatchInv, Edits
  <1>. HIDE DEF c
  <1>5. Edits'
    BY DEF PatchInv, Edits
  <1>. QED  BY <1>4, <1>5, CallGoesOn DEF c

\* d is call c further on.
Moved(c, d) == d \in Fields(d) /\ d.body = c.body /\ d.tag = c.tag /\ d.base = c.base /\ d.route = c.route

LEMMA Update ==
    ASSUME NEW c, c \in Fields(c), NEW s, NEW d, d = [c EXCEPT !.st = s]
    PROVE  Moved(c, d) /\ d.st = s
  BY DEF Fields, Moved

LEMMA UpdateReplayed ==
    ASSUME NEW c, c \in Fields(c), NEW p, NEW d, d = [c EXCEPT !.replayed = p]
    PROVE  Moved(c, d) /\ d.st = c.st
  BY DEF Fields, Moved

LEMMA UpdateEntered ==
    ASSUME NEW c, c \in Fields(c), NEW p, NEW d, d = [c EXCEPT !.entered = p]
    PROVE  Moved(c, d) /\ d.st = c.st
  BY DEF Fields, Moved

LEMMA UpdateToken ==
    ASSUME NEW c, c \in Fields(c), NEW d, d = [c EXCEPT !.st = "enter", !.live = TRUE, !.tries = 2]
    PROVE  Moved(c, d) /\ d.st = "enter"
  BY DEF Fields, Moved

LEMMA MovesOn ==
    ASSUME PatchInv, NEW i \in 1..MaxCalls, NEW d, calls' = [calls EXCEPT ![i] = d], calls[i].st # "unsent",
           UNCHANGED <<doc, docs>>, Moved(calls[i], d), d.st # "unsent",
           d.st = "act" /\ d.route.does = "merge" => calls[i].st = "act"
    PROVE  PatchInv'
  BY CallCarriesOn DEF Moved

LEMMA KnownCall ==
    ASSUME PatchInv, NEW i \in 1..MaxCalls, calls[i].st # "unsent"
    PROVE  calls[i] \in Fields(calls[i])
  BY DEF PatchInv, Serving, Unsent

LEMMA EnterStep ==
    ASSUME PatchInv, NEW i \in 1..MaxCalls, Enter(i)
    PROVE  PatchInv'
  <1>. DEFINE c == calls[i]
              e == [c EXCEPT !.entered = IF Permitted(c) THEN "in" ELSE "out"]
              v == Verdict(c)
              a == ReplayAnswer(CHOOSE s \in lookup(c) : TRUE, c)
              s == IF c.route.does = "merge" THEN "base" ELSE "act"
              d1 == [e EXCEPT !.st = "refresh"]
              d2 == Answered(e, v)
              d3 == Answered(e, a)
              d4 == [d3 EXCEPT !.replayed = (a # "409")]
              d5 == [e EXCEPT !.st = s]
  <1>1. c.st = "enter" /\ UNCHANGED <<doc, docs>>
    BY DEF Enter
  <1>2. \/ calls' = [calls EXCEPT ![i] = d1] \/ calls' = [calls EXCEPT ![i] = d2]
        \/ calls' = [calls EXCEPT ![i] = d4] \/ calls' = [calls EXCEPT ![i] = d5]
    <2>. HIDE DEF d1, d2, d3, d4, d5
    <2>1. Enter(i) => calls' = [calls EXCEPT ![i] =
                        IF v # "in"
                        THEN IF v = "401" /\ "cli" \in c.how /\ c.tries = 1 THEN d1 ELSE d2
                        ELSE IF Keyed(c) /\ lookup(c) # {} THEN d4 ELSE d5]
      BY DEF Enter, d1, d2, d3, d4, d5
    <2>. HIDE DEF v, c, e
    <2>. QED  BY <2>1
  <1>3. c \in Fields(c)
    BY <1>1, KnownCall
  <1>4. Moved(c, e) /\ e.st = "enter"
    BY <1>1, <1>3, UpdateEntered
  <1>. HIDE DEF e
  <1>5. e \in Fields(e)
    BY <1>4 DEF Moved
  <1>6. Moved(e, d1) /\ d1.st = "refresh"
    BY <1>5, Update
  <1>7. Moved(e, d2) /\ d2.st = "done"
    BY <1>5 DEF Answered, Moved, Fields
  <1>8. Moved(e, d3) /\ d3.st = "done"
    BY <1>5 DEF Answered, Moved, Fields
  <1>. HIDE DEF d3
  <1>9. d3 \in Fields(d3)
    BY <1>8 DEF Moved
  <1>10. Moved(d3, d4) /\ d4.st = "done"
    BY <1>8, <1>9, UpdateReplayed
  <1>11. Moved(e, d5) /\ d5.st = s
    BY <1>5, Update
  <1>. HIDE DEF d1, d2, d4, d5
  <1>12. Moved(c, d1) /\ Moved(c, d2) /\ Moved(c, d4) /\ Moved(c, d5)
    BY <1>4, <1>6, <1>7, <1>8, <1>10, <1>11 DEF Moved
  <1>13. d5.st # "unsent" /\ (d5.st = "act" => d5.route.does # "merge")
    BY <1>11, <1>12 DEF Moved
  <1>. HIDE DEF c, s
  <1>. QED
    BY <1>1, <1>2, <1>6, <1>7, <1>10, <1>12, <1>13, MovesOn DEF c

LEMMA ServeStep ==
    ASSUME PatchInv, NEW i \in 1..MaxCalls,
           RefreshToken(i) \/ Perform(i) \/ NumberTaken(i) \/ record_audit(i) \/ Remember(i)
    PROVE  PatchInv'
  <1>. DEFINE c == calls[i]
  <1>1. c.st # "unsent" /\ UNCHANGED <<doc, docs>>
    BY DEF RefreshToken, Perform, NumberTaken, record_audit, Remember
  <1>2. c \in Fields(c)
    BY <1>1, KnownCall
  <1>3. ASSUME NEW d, calls' = [calls EXCEPT ![i] = d], Moved(c, d), d.st \notin {"unsent", "act"}
        PROVE  PatchInv'
    BY <1>1, <1>3, MovesOn
  <1>4. ASSUME NEW a, calls' = [calls EXCEPT ![i] = Answered(c, a)] PROVE PatchInv'
    <2>. DEFINE d == Answered(c, a)
    <2>1. Moved(c, d) /\ d.st = "done" /\ calls' = [calls EXCEPT ![i] = d]
      BY <1>2, <1>4 DEF Answered, Moved, Fields
    <2>. HIDE DEF d
    <2>. QED  BY <1>3, <2>1
  <1>5. ASSUME NEW s, NEW a, calls' = [calls EXCEPT ![i] = [c EXCEPT !.st = s, !.answer = a]], s \notin {"unsent", "act"}
        PROVE  PatchInv'
    <2>. DEFINE d == [c EXCEPT !.st = s, !.answer = a]
    <2>1. Moved(c, d) /\ d.st = s /\ calls' = [calls EXCEPT ![i] = d]
      BY <1>2, <1>5 DEF Moved, Fields
    <2>. HIDE DEF d
    <2>. QED  BY <1>3, <1>5, <2>1
  <1>6. ASSUME NEW s, calls' = [calls EXCEPT ![i] = [c EXCEPT !.st = s]], s \notin {"unsent", "act"}
        PROVE  PatchInv'
    <2>. DEFINE d == [c EXCEPT !.st = s]
    <2>1. Moved(c, d) /\ d.st = s /\ calls' = [calls EXCEPT ![i] = d]
      BY <1>2, <1>6, Update
    <2>. HIDE DEF d
    <2>. QED  BY <1>3, <1>6, <2>1
  <1>7. ASSUME calls' = [calls EXCEPT ![i] = [c EXCEPT !.st = "enter", !.live = TRUE, !.tries = 2]]
        PROVE  PatchInv'
    <2>. DEFINE d == [c EXCEPT !.st = "enter", !.live = TRUE, !.tries = 2]
    <2>1. Moved(c, d) /\ d.st = "enter" /\ calls' = [calls EXCEPT ![i] = d]
      BY <1>2, <1>7, UpdateToken
    <2>. HIDE DEF d
    <2>. QED  BY <1>3, <2>1
  <1>8. CASE RefreshToken(i)
    <2>1. CASE stored
      BY <1>7, <1>8, <2>1 DEF RefreshToken, PatchInv
    <2>2. CASE ~stored
      BY <1>4, <1>8, <2>2 DEF RefreshToken, PatchInv
    <2>. QED  BY <2>1, <2>2
  <1>9. CASE Perform(i)
    <2>1. CASE Outcome(c) = "ok"
      <3>1. calls' = [calls EXCEPT ![i] = [c EXCEPT !.st = Then(c), !.answer = "ok"]]
        BY <1>9, <2>1 DEF Perform
      <3>2. Then(c) \notin {"unsent", "act"}
        BY DEF Then
      <3>. HIDE DEF c
      <3>. QED  BY <1>5, <3>1, <3>2
    <2>2. CASE Outcome(c) # "ok"
      BY <1>4, <1>9, <2>2 DEF Perform
    <2>. QED  BY <2>1, <2>2
  <1>10. CASE NumberTaken(i)
    BY <1>4, <1>10 DEF NumberTaken, PatchInv
  <1>11. CASE record_audit(i)
    <2>. DEFINE s == IF Keyed(c) THEN "remember" ELSE "done"
    <2>1. calls' = [calls EXCEPT ![i] = [c EXCEPT !.st = s]] /\ s \notin {"unsent", "act"}
      BY <1>11 DEF record_audit, PatchInv
    <2>. HIDE DEF s
    <2>. QED  BY <1>6, <2>1
  <1>12. CASE Remember(i)
    <2>. DEFINE s == "done"
    <2>1. calls' = [calls EXCEPT ![i] = [c EXCEPT !.st = s]] /\ s \notin {"unsent", "act"}
      BY <1>12 DEF Remember, PatchInv
    <2>. HIDE DEF s
    <2>. QED  BY <1>6, <2>1
  <1>. QED  BY <1>8, <1>9, <1>10, <1>11, <1>12

LEMMA FetchStep ==
    ASSUME PatchInv, NEW i \in 1..MaxCalls, Fetch(i)
    PROVE  PatchInv'
  <1>. PICK d : d = [calls[i] EXCEPT !.st = "enter", !.tag = Tag(doc)]
    OBVIOUS
  <1>1. calls[i].st = "fetch" /\ UNCHANGED <<doc, docs>> /\ calls' = [calls EXCEPT ![i] = d]
    BY DEF Fetch, PatchInv
  <1>2. Serving(calls[i]) /\ calls[i] \in Fields(calls[i]) /\ calls[i] # Unsent
    BY <1>1, KnownCall DEF PatchInv, Unsent
  <1>3. /\ d \in Fields(d) /\ d.st = "enter" /\ d.body = calls[i].body /\ d.base = calls[i].base
        /\ d.tag = Tag(doc)
    BY <1>2 DEF Fields
  <1>4. doc \in docs /\ Edits'
    BY <1>1 DEF PatchInv, Edits
  <1>5. Serving(d)'
    BY <1>1, <1>2, <1>3, <1>4 DEF Serving, Tag
  <1>. QED  BY <1>1, <1>4, <1>5, CallGoesOn

LEMMA ReadBaseStep ==
    ASSUME PatchInv, NEW i \in 1..MaxCalls, ReadBase(i)
    PROVE  PatchInv'
  <1>. PICK d : d = [calls[i] EXCEPT !.st = "act", !.base = doc]
    OBVIOUS
  <1>1. calls[i].st = "base" /\ UNCHANGED <<doc, docs>> /\ calls' = [calls EXCEPT ![i] = d]
    BY DEF ReadBase, PatchInv
  <1>2. Serving(calls[i]) /\ calls[i] \in Fields(calls[i]) /\ calls[i] # Unsent
    BY <1>1, KnownCall DEF PatchInv, Unsent
  <1>3. /\ d \in Fields(d) /\ d.st = "act" /\ d.body = calls[i].body /\ d.tag = calls[i].tag
        /\ d.base = doc
    BY <1>2 DEF Fields
  <1>4. doc \in docs /\ Edits'
    BY <1>1 DEF PatchInv, Edits
  <1>5. \A e \in docs : Age(e) <= Age(doc)
    <2>1. Cardinality(docs) \in Nat /\ \A e \in docs : Age(e) \in Nat
      BY FS_CardinalityType DEF PatchInv, Edits, Age
    <2>. QED  BY <2>1 DEF PatchInv, Edits
  <1>6. Serving(d)'
    BY <1>1, <1>2, <1>3, <1>4, <1>5 DEF Serving
  <1>. QED  BY <1>1, <1>4, <1>6, CallGoesOn

\* A row that is written has a value it never had.
LEMMA EditStep ==
    ASSUME PatchInv, ~Reuse, NEW i \in 1..MaxCalls, Merge(i) \/ Overwrite(i)
    PROVE  PatchInv'
  <1>. DEFINE c == calls[i]
              r == Answered(c, "412")
  <1>. PICK d : d = [c EXCEPT !.st = Then(c), !.answer = "ok"]
    OBVIOUS
  <1>1. c.st = "act" /\ c \in Fields(c) /\ Serving(c) /\ c # Unsent
    BY KnownCall DEF Merge, Overwrite, PatchInv, Unsent
  <1>2. c.base \in docs /\ c.body \in {1, 2}
    BY <1>1 DEF Serving
  <1>3. CASE \E b \in docs : doc' = [b EXCEPT ![c.body] = Cardinality(docs)] /\ docs' = docs \cup {doc'}
                           /\ calls' = [calls EXCEPT ![i] = d]
    <2>1. Edits'
      BY <1>2, <1>3, EditAges DEF PatchInv
    <2>2. Moved(c, d) /\ d.st = Then(c) /\ Then(c) \in {"audit", "done"}
      BY <1>1 DEF Moved, Fields, Then
    <2>3. docs \subseteq docs' /\ calls' = [calls EXCEPT ![i] = d]
      BY <1>3
    <2>4. Serving(d)'
      BY <1>1, <2>2, <2>3 DEF Serving, Moved
    <2>. QED  BY <2>1, <2>3, <2>4, CallGoesOn
  <1>4. CASE UNCHANGED doc /\ docs' = docs \cup {doc'} /\ calls' = [calls EXCEPT ![i] = r]
    <2>1. UNCHANGED <<doc, docs>>
      BY <1>4 DEF PatchInv, Edits
    <2>2. Moved(c, r) /\ r.st = "done" /\ calls' = [calls EXCEPT ![i] = r]
      BY <1>1, <1>4 DEF Moved, Fields, Answered
    <2>. HIDE DEF r
    <2>. QED  BY <1>1, <2>1, <2>2, MovesOn
  <1>5. CASE Merge(i)
    <2>1. CASE etags_match(c)
      BY <1>2, <1>3, <1>5, <2>1 DEF Merge, NextValue, PatchInv
    <2>2. CASE ~etags_match(c)
      BY <1>4, <1>5, <2>2 DEF Merge
    <2>. QED  BY <2>1, <2>2
  <1>6. CASE Overwrite(i)
    BY <1>3, <1>6 DEF Overwrite, NextValue, PatchInv
  <1>. QED  BY <1>5, <1>6

LEMMA RestartStep ==
    ASSUME PatchInv, Restart
    PROVE  PatchInv'
  <1>1. UNCHANGED <<doc, docs>> /\ Edits'
    BY DEF PatchInv, Restart, Edits
  <1>2. calls' = [i \in 1..MaxCalls |-> calls'[i]]
    BY DEF Restart
  <1>3. ASSUME NEW i \in 1..MaxCalls PROVE Serving(calls[i])'
    <2>. DEFINE c == calls[i]
                d == [c EXCEPT !.st = "lost"]
    <2>1. Serving(c)
      BY DEF PatchInv
    <2>2. calls'[i] = c \/ (c.st \in InFlight /\ calls'[i] = d)
      BY DEF Restart
    <2>3. CASE calls'[i] = c
      BY <1>1, <2>1, <2>3 DEF Serving
    <2>4. CASE c.st \in InFlight /\ calls'[i] = d
      <3>1. c \in Fields(c) /\ c.st # "unsent" /\ c # Unsent
        BY <2>4, KnownCall DEF InFlight, Unsent
      <3>2. Moved(c, d) /\ d.st = "lost"
        BY <3>1, Update
      <3>. HIDE DEF d
      <3>. QED  BY <1>1, <2>1, <2>4, <3>1, <3>2 DEF Serving, Moved
    <2>. QED  BY <2>2, <2>3, <2>4
  <1>. QED  BY <1>1, <1>2, <1>3 DEF PatchInv

LEMMA PatchStep ==
    ASSUME PatchInv, ~Reuse, NEW people, [RqNext(people)]_rqVars
    PROVE  PatchInv'
  <1>1. ASSUME NEW i \in 1..MaxCalls, NEW r \in Routes, NEW in \in Inputs(r, people), Send(i, r, in)
        PROVE  PatchInv'
    BY <1>1, SendStep DEF Send
  <1>2. ASSUME NEW i \in 1..MaxCalls, NEW cmd \in Commands, NEW in \in Inputs(cmd.route, people), Run(i, cmd, in)
        PROVE  PatchInv'
    <2>. DEFINE how == cmd.how \cup {"cli"}
                st == IF "fetch" \in cmd.how THEN "fetch" ELSE "enter"
    <2>1. calls' = [calls EXCEPT ![i] = Sent(cmd.route, how, in, st)] /\ UNCHANGED <<doc, docs>> /\ st \in {"enter", "fetch"}
      BY <1>2 DEF Run
    <2>. HIDE DEF how, st
    <2>. QED  BY <2>1, SendStep
  <1>3. ASSUME NEW i \in 1..MaxCalls,
               \/ Fetch(i) \/ Enter(i) \/ RefreshToken(i) \/ Perform(i) \/ NumberTaken(i)
               \/ ReadBase(i) \/ Merge(i) \/ Overwrite(i) \/ record_audit(i) \/ Remember(i)
        PROVE  PatchInv'
    BY <1>3, FetchStep, EnterStep, ServeStep, ReadBaseStep, EditStep
  <1>4. CASE TokenChanges
    BY <1>4 DEF TokenChanges, PatchInv, Edits, Serving
  <1>5. CASE UNCHANGED rqVars
    BY <1>5 DEF rqVars, PatchInv, Edits, Serving
  <1>. QED  BY <1>1, <1>2, <1>3, <1>4, <1>5, RestartStep DEF RqNext, Serve

\* The version a PATCH names is the row's own when it merges, so what it read in
\* between is that too.
LEMMA MergeKeeps ==
    ASSUME PatchInv, ~Reuse, NEW i \in 1..MaxCalls, Merge(i), doc' # doc, calls[i].tag.kind = "tag",
           NEW f \in 1..2, f # calls[i].body
    PROVE  doc'[f] = doc[f]
  <1>. DEFINE c == calls[i]
  <1>1. c.st = "act" /\ c.route.does = "merge" /\ Serving(c) /\ c # Unsent /\ etags_match(c)
    BY DEF Merge, PatchInv, Unsent
  <1>2. c.tag.doc = doc /\ c.base \in docs /\ Age(doc) <= Age(c.base) /\ c.body \in {1, 2}
    BY <1>1 DEF etags_match, Serving
  <1>3. c.base = doc
    <2>1. Cardinality(docs) \in Nat /\ Age(c.base) \in Nat
      BY <1>2, FS_CardinalityType DEF PatchInv, Edits, Age
    <2>. QED  BY <1>2, <2>1 DEF PatchInv, Edits
  <1>4. doc' = [doc EXCEPT ![c.body] = Cardinality(docs)] /\ doc \in Nat \X Nat
    BY <1>1, <1>3 DEF Merge, NextValue, PatchInv, Edits
  <1>. QED  BY <1>2, <1>4

\* In every run of the server in which no edit brings an earlier content back:
\* a PATCH that names a version keeps the fields it does not carry.
THEOREM PatchKeepsOthersHolds ==
    ASSUME ~Reuse, NEW CONSTANT people
    PROVE  RqSpec(people) => PatchKeepsOthers
  <1>1. RqInit => PatchInv
    BY PatchStart
  <1>2. PatchInv /\ [RqNext(people)]_rqVars => PatchInv'
    BY PatchStep
  <1>. DEFINE Keeps == \A i \in 1..MaxCalls :
         LET c == calls[i] IN
         (Merge(i) /\ doc' # doc /\ c.tag.kind = "tag") => \A f \in 1..2 : f = c.body \/ doc'[f] = doc[f]
  <1>3. PatchInv => Keeps
    BY MergeKeeps
  <1>4. RqSpec(people) => [][Keeps]_rqVars
    <2>. HIDE DEF Keeps
    <2>. QED  BY <1>1, <1>2, <1>3, PTL DEF RqSpec
  <1>. QED  BY <1>4 DEF PatchKeepsOthers

-----------------------------------------------------------------------------
(* Replays.  What the store remembers was done by a call that is known, and  *)
(* scope, key and hash together say which request that was.                  *)

\* d is call c further on.
Carries(c, d) == /\ d \in Fields(d) /\ d.st # "unsent" /\ d.who = c.who /\ d.comp = c.comp /\ d.key = c.key
                 /\ d.body = c.body /\ d.route = c.route

Did(i) == \E n \in DOMAIN acts : acts[n].call = i
Earned(s, c) == s.scope = KeyScope(c) /\ s.key = c.key /\ s.hash = fingerprint(c)

ReplayInv ==
    /\ calls = [i \in 1..MaxCalls |-> calls[i]] /\ \E S : acts \in Seq(S)
    /\ \A i \in 1..MaxCalls : calls[i] = Unsent \/ Carries(calls[i], calls[i])
    /\ \A n \in DOMAIN acts : acts[n].call \in 1..MaxCalls /\ calls[acts[n].call].st # "unsent"
    /\ \A i \in 1..MaxCalls : calls[i].st \in {"audit", "remember"} => Did(i)
    /\ \A i \in 1..MaxCalls : calls[i].st # "unsent" /\ calls[i].replayed
          => \E n \in DOMAIN acts : SameRequest(calls[i], calls[acts[n].call])
    /\ \A s \in store : \E n \in DOMAIN acts : Earned(s, calls[acts[n].call])

LEMMA SameScope ==
    ASSUME NEW c, NEW d, NEW s, Earned(s, c), Earned(s, d)
    PROVE  SameRequest(c, d)
  <1>1. KeyScope(c) = KeyScope(d) /\ fingerprint(c) = fingerprint(d) /\ c.key = d.key
    BY DEF Earned
  <1>2. /\ c.who.subject = d.who.subject /\ c.route.res = d.route.res /\ c.route.verb = d.route.verb
        /\ (IF Has(c.route, "path") THEN c.comp ELSE "all") = (IF Has(d.route, "path") THEN d.comp ELSE "all")
    BY <1>1 DEF KeyScope
  <1>3. Len(fingerprint(c)) = Len(fingerprint(d))
    BY <1>1
  <1>4. Has(c.route, "path") <=> Has(d.route, "path")
    BY <1>3 DEF fingerprint
  <1>5. c.comp = d.comp /\ c.body = d.body
    BY <1>1, <1>2, <1>4 DEF fingerprint
  <1>. QED  BY <1>1, <1>2, <1>5 DEF SameRequest

\* Requests that go on stay what they are, and what was done stays done.
LEMMA KnownStay ==
    ASSUME ReplayInv,
           calls' = [i \in 1..MaxCalls |-> calls'[i]],
           \A i \in 1..MaxCalls : calls[i].st # "unsent" => Carries(calls[i], calls'[i]),
           acts' = acts \/ \E e : e.call \in 1..MaxCalls /\ calls[e.call].st # "unsent" /\ acts' = Append(acts, e)
    PROVE  /\ \E S : acts' \in Seq(S)
           /\ DOMAIN acts \subseteq DOMAIN acts' /\ \A n \in DOMAIN acts : acts'[n] = acts[n]
           /\ \A n \in DOMAIN acts' : acts'[n].call \in 1..MaxCalls /\ calls'[acts'[n].call].st # "unsent"
           /\ \A i \in 1..MaxCalls : Did(i) => Did(i)'
           /\ \A n \in DOMAIN acts : \A s : Earned(s, calls[acts[n].call]) => Earned(s, calls'[acts'[n].call])
           /\ \A n \in DOMAIN acts : \A c : SameRequest(c, calls[acts[n].call]) => SameRequest(c, calls'[acts'[n].call])
  <1>1. /\ \E S : acts' \in Seq(S)
        /\ DOMAIN acts \subseteq DOMAIN acts' /\ \A n \in DOMAIN acts : acts'[n] = acts[n]
        /\ \A n \in DOMAIN acts' : acts'[n].call \in 1..MaxCalls /\ calls[acts'[n].call].st # "unsent"
    <2>1. CASE acts' = acts
      BY <2>1 DEF ReplayInv
    <2>2. CASE \E e : e.call \in 1..MaxCalls /\ calls[e.call].st # "unsent" /\ acts' = Append(acts, e)
      <3>1. PICK e : e.call \in 1..MaxCalls /\ calls[e.call].st # "unsent" /\ acts' = Append(acts, e)
        BY <2>2
      <3>2. PICK S : acts \in Seq(S)
        BY DEF ReplayInv
      <3>. PICK T : T = S \cup {e}
        OBVIOUS
      <3>3. acts \in Seq(T) /\ e \in T /\ DOMAIN acts = 1..Len(acts) /\ Len(acts) \in Nat
        BY <3>2
      <3>4. /\ Append(acts, e) \in Seq(T) /\ DOMAIN Append(acts, e) = 1..(Len(acts) + 1)
            /\ Append(acts, e)[Len(acts) + 1] = e /\ \A n \in 1..Len(acts) : Append(acts, e)[n] = acts[n]
        BY <3>3
      <3>5. /\ acts' \in Seq(T) /\ DOMAIN acts' = 1..(Len(acts) + 1)
            /\ acts'[Len(acts) + 1] = e /\ \A n \in 1..Len(acts) : acts'[n] = acts[n]
        BY <3>1, <3>4
      <3>6. ASSUME NEW n \in DOMAIN acts' PROVE acts'[n].call \in 1..MaxCalls /\ calls[acts'[n].call].st # "unsent"
        <4>1. n \in 1..Len(acts) \/ n = Len(acts) + 1
          BY <3>3, <3>5
        <4>2. CASE n \in 1..Len(acts)
          BY <3>3, <3>5, <4>2 DEF ReplayInv
        <4>3. CASE n = Len(acts) + 1
          BY <3>1, <3>5, <4>3
        <4>. QED  BY <4>1, <4>2, <4>3
      <3>7. DOMAIN acts \subseteq DOMAIN acts'
        BY <3>3, <3>5
      <3>. QED  BY <3>3, <3>5, <3>6, <3>7
    <2>. QED  BY <2>1, <2>2
  <1>2. \A n \in DOMAIN acts : acts[n].call \in 1..MaxCalls /\ Carries(calls[acts[n].call], calls'[acts'[n].call])
    BY <1>1 DEF ReplayInv
  <1>. QED  BY <1>1, <1>2 DEF Carries, Did, Earned, KeyScope, fingerprint, SameRequest

\* One request goes on.
LEMMA OneGoesOn ==
    ASSUME ReplayInv, NEW i \in 1..MaxCalls, NEW d, calls' = [calls EXCEPT ![i] = d],
           d \in Fields(d), d.st # "unsent", calls[i].st # "unsent" => Carries(calls[i], d),
           acts' = acts \/ \E e : e.call = i /\ calls[i].st # "unsent" /\ acts' = Append(acts, e),
           d.st \in {"audit", "remember"} => Did(i) \/ acts' # acts,
           d.replayed => /\ calls[i].st # "unsent"
                         /\ calls[i].replayed \/ \E n \in DOMAIN acts : SameRequest(calls[i], calls[acts[n].call]),
           \A s \in store' : s \in store \/ (Did(i) /\ calls[i].st # "unsent" /\ Earned(s, calls[i]))
    PROVE  ReplayInv'
  <1>1. /\ calls' = [j \in 1..MaxCalls |-> calls'[j]] /\ calls'[i] = d
        /\ \A j \in 1..MaxCalls : j # i => calls'[j] = calls[j]
    BY DEF ReplayInv
  <1>2. \A j \in 1..MaxCalls : calls[j].st # "unsent" => Carries(calls[j], calls'[j])
    BY <1>1 DEF ReplayInv, Unsent
  <1>3. /\ \E S : acts' \in Seq(S)
        /\ DOMAIN acts \subseteq DOMAIN acts' /\ \A n \in DOMAIN acts : acts'[n] = acts[n]
        /\ \A n \in DOMAIN acts' : acts'[n].call \in 1..MaxCalls /\ calls'[acts'[n].call].st # "unsent"
        /\ \A j \in 1..MaxCalls : Did(j) => Did(j)'
        /\ \A n \in DOMAIN acts : \A s : Earned(s, calls[acts[n].call]) => Earned(s, calls'[acts'[n].call])
        /\ \A n \in DOMAIN acts : \A c : SameRequest(c, calls[acts[n].call]) => SameRequest(c, calls'[acts'[n].call])
    BY <1>1, <1>2, KnownStay
  <1>4. \A j \in 1..MaxCalls : calls'[j] = Unsent \/ Carries(calls'[j], calls'[j])
    BY <1>1 DEF ReplayInv, Carries
  <1>5. acts' # acts => Did(i)'
    <2>. SUFFICES ASSUME NEW e, e.call = i, acts' = Append(acts, e) PROVE Did(i)'
      OBVIOUS
    <2>1. PICK S : acts \in Seq(S)
      BY DEF ReplayInv
    <2>2. acts'[Len(acts) + 1] = e /\ Len(acts) + 1 \in DOMAIN acts'
      BY <2>1
    <2>. QED  BY <2>2 DEF Did
  <1>6. \A j \in 1..MaxCalls : calls'[j].st \in {"audit", "remember"} => Did(j)'
    BY <1>1, <1>3, <1>5 DEF ReplayInv
  <1>7. ASSUME NEW j \in 1..MaxCalls, calls'[j].st # "unsent", calls'[j].replayed
        PROVE  \E n \in DOMAIN acts' : SameRequest(calls'[j], calls'[acts'[n].call])
    <2>1. \E n \in DOMAIN acts : SameRequest(calls[j], calls[acts[n].call])
      BY <1>1, <1>7 DEF ReplayInv
    <2>2. calls[j].st # "unsent"
      BY <1>1, <1>7
    <2>3. \E n \in DOMAIN acts : SameRequest(calls'[j], calls[acts[n].call])
      BY <1>2, <2>1, <2>2 DEF Carries, SameRequest
    <2>. QED  BY <1>3, <2>3
  <1>8. ASSUME NEW s \in store' PROVE \E n \in DOMAIN acts' : Earned(s, calls'[acts'[n].call])
    <2>1. \E n \in DOMAIN acts : Earned(s, calls[acts[n].call])
      BY <1>8 DEF ReplayInv, Did
    <2>. QED  BY <1>3, <2>1
  <1>. QED  BY <1>1, <1>3, <1>4, <1>6, <1>7, <1>8 DEF ReplayInv

LEMMA ReplayStart == RqInit => ReplayInv
  <1>. SUFFICES ASSUME RqInit PROVE ReplayInv
    OBVIOUS
  <1>1. acts \in Seq({}) /\ DOMAIN acts = {}
    BY DEF RqInit
  <1>. QED  BY <1>1 DEF RqInit, ReplayInv, Unsent

LEMMA SendEarns ==
    ASSUME ReplayInv, NEW i \in 1..MaxCalls, NEW r, NEW how, NEW in, NEW st \in {"enter", "fetch"},
           calls[i].st = "unsent", calls' = [calls EXCEPT ![i] = Sent(r, how, in, st)], UNCHANGED <<acts, store>>
    PROVE  ReplayInv'
  <1>. PICK d : d = Sent(r, how, in, st)
    OBVIOUS
  <1>1. d \in Fields(d) /\ d.st = st /\ d.replayed = FALSE /\ calls' = [calls EXCEPT ![i] = d]
    BY DEF Sent, Fields
  <1>. QED  BY <1>1, OneGoesOn

LEMMA KnownRequest ==
    ASSUME ReplayInv, NEW i \in 1..MaxCalls, calls[i].st # "unsent"
    PROVE  calls[i] \in Fields(calls[i])
  BY DEF ReplayInv, Carries, Unsent

\* A request goes on that is not answered from the store.
LEMMA ServedGoesOn ==
    ASSUME ReplayInv, NEW i \in 1..MaxCalls, calls[i].st # "unsent",
           NEW d, calls' = [calls EXCEPT ![i] = d], Carries(calls[i], d), d.replayed = calls[i].replayed,
           \/ UNCHANGED acts /\ (d.st \in {"audit", "remember"} => calls[i].st = "audit")
           \/ \E e : e.call = i /\ acts' = Append(acts, e),
           \A s \in store' : s \in store \/ (calls[i].st = "remember" /\ Earned(s, calls[i]))
    PROVE  ReplayInv'
  <1>1. d \in Fields(d) /\ d.st # "unsent"
    BY DEF Carries
  <1>2. calls[i].st \in {"audit", "remember"} => Did(i)
    BY DEF ReplayInv
  <1>3. ASSUME NEW e, acts' = Append(acts, e) PROVE acts' # acts
    <2>1. PICK S : acts \in Seq(S)
      BY DEF ReplayInv
    <2>2. Len(Append(acts, e)) = Len(acts) + 1 /\ Len(acts) \in Nat
      BY <2>1
    <2>. QED  BY <1>3, <2>2
  <1>4. d.replayed => calls[i].replayed
    OBVIOUS
  <1>5. acts' = acts \/ \E e : e.call = i /\ calls[i].st # "unsent" /\ acts' = Append(acts, e)
    OBVIOUS
  <1>6. d.st \in {"audit", "remember"} => Did(i) \/ acts' # acts
    BY <1>2, <1>3
  <1>. QED  BY <1>1, <1>2, <1>4, <1>5, <1>6, OneGoesOn

LEMMA EnterEarns ==
    ASSUME ReplayInv, NEW i \in 1..MaxCalls, Enter(i)
    PROVE  ReplayInv'
  <1>. DEFINE c == calls[i]
              e == [c EXCEPT !.entered = IF Permitted(c) THEN "in" ELSE "out"]
              v == Verdict(c)
              a == ReplayAnswer(CHOOSE s \in lookup(c) : TRUE, c)
              s == IF c.route.does = "merge" THEN "base" ELSE "act"
              d1 == [e EXCEPT !.st = "refresh"]
              d2 == Answered(e, v)
              d3 == [Answered(e, a) EXCEPT !.replayed = (a # "409")]
              d4 == [e EXCEPT !.st = s]
  <1>1. c.st = "enter" /\ UNCHANGED <<acts, store>>
    BY DEF Enter
  <1>2. \/ calls' = [calls EXCEPT ![i] = d1] \/ calls' = [calls EXCEPT ![i] = d2]
        \/ lookup(c) # {} /\ calls' = [calls EXCEPT ![i] = d3]
        \/ calls' = [calls EXCEPT ![i] = d4]
    <2>. HIDE DEF d1, d2, d3, d4
    <2>1. Enter(i) => calls' = [calls EXCEPT ![i] =
                        IF v # "in"
                        THEN IF v = "401" /\ "cli" \in c.how /\ c.tries = 1 THEN d1 ELSE d2
                        ELSE IF Keyed(c) /\ lookup(c) # {} THEN d3 ELSE d4]
      BY DEF Enter, d1, d2, d3, d4
    <2>. HIDE DEF v, c, e
    <2>. QED  BY <2>1
  <1>3. c \in Fields(c)
    BY <1>1, KnownRequest
  <1>4. Carries(c, e) /\ e.replayed = c.replayed
    BY <1>1, <1>3 DEF Fields, Carries
  <1>. HIDE DEF e
  <1>5. e \in Fields(e)
    BY <1>4 DEF Carries
  <1>6. Carries(e, d1) /\ d1.st = "refresh" /\ d1.replayed = e.replayed
    BY <1>5 DEF Fields, Carries
  <1>7. Carries(e, d2) /\ d2.st = "done" /\ d2.replayed = e.replayed
    BY <1>5 DEF Fields, Carries, Answered
  <1>8. Carries(e, d3) /\ d3.st = "done" /\ d3.replayed = (a # "409")
    BY <1>5 DEF Fields, Carries, Answered
  <1>9. Carries(e, d4) /\ d4.st \in {"base", "act"} /\ d4.replayed = e.replayed
    BY <1>5 DEF Fields, Carries
  <1>. HIDE DEF d1, d2, d3, d4
  <1>10. Carries(c, d1) /\ Carries(c, d2) /\ Carries(c, d3) /\ Carries(c, d4)
    BY <1>4, <1>6, <1>7, <1>8, <1>9 DEF Carries
  <1>11. CASE calls' = [calls EXCEPT ![i] = d1] \/ calls' = [calls EXCEPT ![i] = d2] \/ calls' = [calls EXCEPT ![i] = d4]
    <2>. HIDE DEF s
    <2>. QED  BY <1>1, <1>4, <1>6, <1>7, <1>9, <1>10, <1>11, ServedGoesOn
  <1>12. CASE lookup(c) # {} /\ calls' = [calls EXCEPT ![i] = d3]
    <2>1. d3.replayed => \E n \in DOMAIN acts : SameRequest(c, calls[acts[n].call])
      <3>. SUFFICES ASSUME a # "409" PROVE \E n \in DOMAIN acts : SameRequest(c, calls[acts[n].call])
        BY <1>8
      <3>. DEFINE x == CHOOSE y \in lookup(c) : TRUE
      <3>1. x \in lookup(c)
        BY <1>12
      <3>2. x \in store /\ Earned(x, c)
        BY <3>1 DEF lookup, ReplayAnswer, Earned
      <3>. HIDE DEF x
      <3>. QED  BY <3>2, SameScope DEF ReplayInv
    <2>2. d3 \in Fields(d3) /\ d3.st # "unsent" /\ d3.st = "done"
      BY <1>8, <1>10 DEF Carries
    <2>. HIDE DEF c, a
    <2>. QED  BY <1>1, <1>10, <1>12, <2>1, <2>2, OneGoesOn DEF c
  <1>. QED  BY <1>2, <1>11, <1>12

LEMMA ServeEarns ==
    ASSUME ReplayInv, NEW i \in 1..MaxCalls,
           \/ Fetch(i) \/ RefreshToken(i) \/ Perform(i) \/ NumberTaken(i) \/ ReadBase(i)
           \/ Merge(i) \/ Overwrite(i) \/ record_audit(i) \/ Remember(i)
    PROVE  ReplayInv'
  <1>. DEFINE c == calls[i]
  <1>1. c.st # "unsent"
    BY DEF Fetch, RefreshToken, Perform, NumberTaken, ReadBase, Merge, Overwrite, record_audit, Remember
  <1>2. c \in Fields(c)
    BY <1>1, KnownRequest
  <1>3. ASSUME NEW d, calls' = [calls EXCEPT ![i] = d], Carries(c, d), d.replayed = c.replayed, UNCHANGED <<acts, store>>,
               d.st \in {"audit", "remember"} => c.st = "audit"
        PROVE  ReplayInv'
    BY <1>1, <1>3, ServedGoesOn
  <1>4. ASSUME NEW d, calls' = [calls EXCEPT ![i] = d], Carries(c, d), d.replayed = c.replayed, UNCHANGED store,
               acts' = Append(acts, Act(i, c))
        PROVE  ReplayInv'
    <2>1. PICK e : e = Act(i, c)
      OBVIOUS
    <2>2. e.call = i /\ acts' = Append(acts, e)
      BY <1>4, <2>1 DEF Act
    <2>. QED  BY <1>1, <1>4, <2>2, ServedGoesOn
  <1>5. ASSUME NEW a, calls' = [calls EXCEPT ![i] = Answered(c, a)], UNCHANGED <<acts, store>> PROVE ReplayInv'
    <2>. PICK d : d = Answered(c, a)
      OBVIOUS
    <2>1. Carries(c, d) /\ d.replayed = c.replayed /\ d.st = "done"
      BY <1>2 DEF Fields, Carries, Answered
    <2>. QED  BY <1>3, <1>5, <2>1
  <1>6. ASSUME NEW s, calls' = [calls EXCEPT ![i] = [c EXCEPT !.st = s, !.answer = "ok"]], UNCHANGED store,
               s \in {"audit", "done"}, acts' = Append(acts, Act(i, c))
        PROVE  ReplayInv'
    <2>. PICK d : d = [c EXCEPT !.st = s, !.answer = "ok"]
      OBVIOUS
    <2>1. Carries(c, d) /\ d.replayed = c.replayed
      BY <1>2, <1>6 DEF Fields, Carries
    <2>. QED  BY <1>4, <1>6, <2>1
  <1>7. CASE Fetch(i)
    <2>. PICK d : d = [c EXCEPT !.st = "enter", !.tag = Tag(doc)]
      OBVIOUS
    <2>1. calls' = [calls EXCEPT ![i] = d] /\ UNCHANGED <<acts, store>>
      BY <1>7 DEF Fetch, ReplayInv
    <2>2. Carries(c, d) /\ d.replayed = c.replayed /\ d.st = "enter"
      BY <1>2 DEF Fields, Carries
    <2>. QED  BY <1>3, <2>1, <2>2
  <1>8. CASE RefreshToken(i)
    <2>1. CASE stored
      <3>. PICK d : d = [c EXCEPT !.st = "enter", !.live = TRUE, !.tries = 2]
        OBVIOUS
      <3>1. calls' = [calls EXCEPT ![i] = d] /\ UNCHANGED <<acts, store>>
        BY <1>8, <2>1 DEF RefreshToken, ReplayInv
      <3>2. Carries(c, d) /\ d.replayed = c.replayed /\ d.st = "enter"
        BY <1>2 DEF Fields, Carries
      <3>. QED  BY <1>3, <3>1, <3>2
    <2>2. CASE ~stored
      BY <1>5, <1>8, <2>2 DEF RefreshToken, ReplayInv
    <2>. QED  BY <2>1, <2>2
  <1>9. Then(c) \in {"audit", "done"}
    BY DEF Then
  <1>10. CASE Perform(i)
    <2>1. CASE Outcome(c) = "ok"
      <3>. DEFINE s == Then(c)
      <3>1. calls' = [calls EXCEPT ![i] = [c EXCEPT !.st = s, !.answer = "ok"]] /\ UNCHANGED store
            /\ acts' = Append(acts, Act(i, c)) /\ s \in {"audit", "done"}
        BY <1>9, <1>10, <2>1 DEF Perform
      <3>. HIDE DEF s
      <3>. QED  BY <1>6, <3>1
    <2>2. CASE Outcome(c) # "ok"
      BY <1>5, <1>10, <2>2 DEF Perform
    <2>. QED  BY <2>1, <2>2
  <1>11. CASE NumberTaken(i)
    BY <1>5, <1>11 DEF NumberTaken, ReplayInv
  <1>12. CASE ReadBase(i)
    <2>. PICK d : d = [c EXCEPT !.st = "act", !.base = doc]
      OBVIOUS
    <2>1. calls' = [calls EXCEPT ![i] = d] /\ UNCHANGED <<acts, store>>
      BY <1>12 DEF ReadBase, ReplayInv
    <2>2. Carries(c, d) /\ d.replayed = c.replayed /\ d.st = "act"
      BY <1>2 DEF Fields, Carries
    <2>. QED  BY <1>3, <2>1, <2>2
  <1>13. CASE Merge(i) \/ Overwrite(i)
    <2>1. CASE Merge(i) /\ ~etags_match(c)
      BY <1>5, <2>1 DEF Merge
    <2>2. CASE Overwrite(i) \/ etags_match(c)
      <3>. DEFINE s == Then(c)
      <3>1. calls' = [calls EXCEPT ![i] = [c EXCEPT !.st = s, !.answer = "ok"]] /\ UNCHANGED store
            /\ acts' = Append(acts, Act(i, c)) /\ s \in {"audit", "done"}
        BY <1>9, <1>13, <2>2 DEF Merge, Overwrite, ReplayInv
      <3>. HIDE DEF s
      <3>. QED  BY <1>6, <3>1
    <2>. QED  BY <1>13, <2>1, <2>2
  <1>14. CASE record_audit(i)
    <2>. PICK d : d = [c EXCEPT !.st = IF Keyed(c) THEN "remember" ELSE "done"]
      OBVIOUS
    <2>1. calls' = [calls EXCEPT ![i] = d] /\ UNCHANGED <<acts, store>> /\ c.st = "audit"
      BY <1>14 DEF record_audit, ReplayInv
    <2>2. Carries(c, d) /\ d.replayed = c.replayed
      BY <1>2 DEF Fields, Carries
    <2>. QED  BY <1>3, <2>1, <2>2
  <1>15. CASE Remember(i)
    <2>. PICK d : d = [c EXCEPT !.st = "done"]
      OBVIOUS
    <2>1. calls' = [calls EXCEPT ![i] = d] /\ UNCHANGED acts /\ c.st = "remember"
      BY <1>15 DEF Remember, ReplayInv
    <2>2. Carries(c, d) /\ d.replayed = c.replayed /\ d.st = "done"
      BY <1>2 DEF Fields, Carries
    <2>3. \A s \in store' : s \in store \/ Earned(s, c)
      BY <1>15 DEF Remember, Earned
    <2>. QED  BY <1>1, <2>1, <2>2, <2>3, ServedGoesOn
  <1>. QED  BY <1>7, <1>8, <1>10, <1>11, <1>12, <1>13, <1>14, <1>15

LEMMA RestartForgets ==
    ASSUME ReplayInv, Restart
    PROVE  ReplayInv'
  <1>1. /\ calls' = [i \in 1..MaxCalls |-> calls'[i]] /\ UNCHANGED acts /\ store' = {}
        /\ \A i \in 1..MaxCalls :
             calls'[i] = calls[i] \/ (calls[i].st # "unsent" /\ calls'[i] = [calls[i] EXCEPT !.st = "lost"])
    <2>1. /\ calls' = [i \in 1..MaxCalls |-> calls'[i]] /\ UNCHANGED acts /\ store' = {}
          /\ \A i \in 1..MaxCalls :
               calls'[i] = IF calls[i].st \in InFlight THEN [calls[i] EXCEPT !.st = "lost"] ELSE calls[i]
      BY DEF Restart
    <2>. QED  BY <2>1 DEF InFlight
  <1>2. ASSUME NEW i \in 1..MaxCalls
        PROVE  /\ calls[i].st = "unsent" => calls'[i] = calls[i]
               /\ calls[i].st # "unsent" => Carries(calls[i], calls'[i])
               /\ calls'[i].st \in {"audit", "remember"} => calls'[i] = calls[i]
               /\ calls[i].st # "unsent" => calls'[i].replayed = calls[i].replayed
    <2>1. CASE calls'[i] = calls[i]
      BY <2>1 DEF ReplayInv, Unsent
    <2>2. CASE calls'[i] = [calls[i] EXCEPT !.st = "lost"] /\ calls[i].st # "unsent"
      <3>1. calls[i] \in Fields(calls[i])
        BY <2>2, KnownRequest
      <3>. QED  BY <2>2, <3>1 DEF Fields, Carries
    <2>. QED  BY <1>1, <2>1, <2>2
  <1>3. /\ \A j \in 1..MaxCalls : Did(j) => Did(j)'
        /\ \A n \in DOMAIN acts' : acts'[n].call \in 1..MaxCalls /\ calls'[acts'[n].call].st # "unsent"
        /\ \A n \in DOMAIN acts : \A c : SameRequest(c, calls[acts[n].call]) => SameRequest(c, calls'[acts'[n].call])
    BY <1>1, <1>2, KnownStay
  <1>4. ASSUME NEW j \in 1..MaxCalls, calls'[j].st # "unsent", calls'[j].replayed
        PROVE  \E n \in DOMAIN acts' : SameRequest(calls'[j], calls'[acts'[n].call])
    <2>1. calls[j].st # "unsent" /\ calls[j].replayed
      BY <1>2, <1>4
    <2>2. \E n \in DOMAIN acts : SameRequest(calls[j], calls[acts[n].call])
      BY <2>1 DEF ReplayInv
    <2>3. \E n \in DOMAIN acts : SameRequest(calls'[j], calls[acts[n].call])
      BY <1>2, <2>1, <2>2 DEF Carries, SameRequest
    <2>. QED  BY <1>1, <1>3, <2>3
  <1>5. \A j \in 1..MaxCalls : calls'[j] = Unsent \/ Carries(calls'[j], calls'[j])
    BY <1>2 DEF ReplayInv, Carries
  <1>6. \A j \in 1..MaxCalls : calls'[j].st \in {"audit", "remember"} => Did(j)'
    BY <1>2, <1>3 DEF ReplayInv
  <1>. QED  BY <1>1, <1>3, <1>4, <1>5, <1>6 DEF ReplayInv

LEMMA ReplayStep ==
    ASSUME ReplayInv, NEW people, [RqNext(people)]_rqVars
    PROVE  ReplayInv'
  <1>1. ASSUME NEW i \in 1..MaxCalls, NEW r \in Routes, NEW in \in Inputs(r, people), Send(i, r, in)
        PROVE  ReplayInv'
    BY <1>1, SendEarns DEF Send, MaySend
  <1>2. ASSUME NEW i \in 1..MaxCalls, NEW cmd \in Commands, NEW in \in Inputs(cmd.route, people), Run(i, cmd, in)
        PROVE  ReplayInv'
    <2>. DEFINE how == cmd.how \cup {"cli"}
                st == IF "fetch" \in cmd.how THEN "fetch" ELSE "enter"
    <2>1. /\ calls' = [calls EXCEPT ![i] = Sent(cmd.route, how, in, st)] /\ UNCHANGED <<acts, store>>
          /\ st \in {"enter", "fetch"} /\ calls[i].st = "unsent"
      BY <1>2 DEF Run, MaySend
    <2>. HIDE DEF how, st
    <2>. QED  BY <2>1, SendEarns
  <1>3. ASSUME NEW i \in 1..MaxCalls,
               \/ Fetch(i) \/ Enter(i) \/ RefreshToken(i) \/ Perform(i) \/ NumberTaken(i)
               \/ ReadBase(i) \/ Merge(i) \/ Overwrite(i) \/ record_audit(i) \/ Remember(i)
        PROVE  ReplayInv'
    BY <1>3, EnterEarns, ServeEarns
  <1>4. CASE TokenChanges \/ UNCHANGED rqVars
    BY <1>4 DEF TokenChanges, rqVars, ReplayInv, Did
  <1>. QED  BY <1>1, <1>2, <1>3, <1>4, RestartForgets DEF RqNext, Serve

\* For any people, routes and number of requests, and through restarts: an
\* answer from the idempotency store goes only to a repetition of the request
\* that earned it.
THEOREM ReplayFaithfulHolds ==
    ASSUME NEW CONSTANT people
    PROVE  RqSpec(people) => []ReplayFaithful
  <1>1. ReplayInv => ReplayFaithful
    BY DEF ReplayInv, ReplayFaithful, Done
  <1>2. RqInit => ReplayInv
    BY ReplayStart
  <1>3. ReplayInv /\ [RqNext(people)]_rqVars => ReplayInv'
    BY ReplayStep
  <1>. QED  BY <1>1, <1>2, <1>3, PTL DEF RqSpec

-----------------------------------------------------------------------------
(* The route table.                                                          *)

Keyable(r) == Has(r, "idem") \/ r.does = "submit"

\* What a request that carries a key does, by its resource and verb.
DoesOf(res, verb) ==
    CASE res = "submission" -> "submit"
      [] res = "version" -> "next"
      [] res \notin {"submission", "version"} /\ verb \in {"create", "attach"} -> "insert"
      [] res = "instance" -> IF verb = "request" THEN "place" ELSE IF verb = "reset" THEN "bump" ELSE "set"
      [] res = "job" -> "step"
      [] OTHER -> "natural"

\* The operations that the API and the web pages both offer, and what each asks for.
SharedVerbs(res) ==
    CASE res = "session" -> {"login", "logout"}
      [] res = "competition" -> {"get", "create", "update"}
      [] res = "team" -> {"list", "create"}
      [] res = "publication" -> {"list", "attach", "detach"}
      [] res = "instance" -> {"view", "get", "stop", "reset", "delete"}
      [] res = "job" -> {"list", "cancel", "retry"}
      [] res = "build" -> {"list", "trigger"}
      [] res = "scoreboard" -> {"get"}
      [] res \in {"report", "run"} -> {"list", "snapshot"}
      [] res = "submission" -> {"create"}
      [] res = "artifact" -> {"download"}
      [] OTHER -> {}
FaceOf(res, verb) ==
    IF res \in {"worker", "lease", "stack", "bundle"} THEN "worker"
    ELSE IF res = "play" \/ verb \in {"form", "overview", "new", "edit", "mine"} THEN "web" ELSE "api"
Reach(gate) ==
    IF gate \in {"competition", "hidden"} THEN "there" ELSE IF gate \in {"flat", "any"} THEN gate ELSE "open"
KindOf(res, verb) ==
    IF res = "session" THEN "open"
    ELSE IF res \in {"job", "build", "report"} \/ (res = "competition" /\ verb = "create") THEN "flat" ELSE "there"
PermOf(res, verb) ==
    CASE res = "session" -> "none"
      [] res = "competition" -> IF verb = "get" THEN "competition:read" ELSE "competition:write"
      [] res = "team" -> IF verb = "list" THEN "team:read" ELSE "team:write"
      [] res = "publication" -> IF verb = "list" THEN "publication:read" ELSE "publication:write"
      [] res = "instance" -> IF verb \in {"view", "get"} THEN "instance:read" ELSE "instance:operate"
      [] res = "job" -> IF verb = "list" THEN "job:read" ELSE "job:operate"
      [] res = "build" -> IF verb = "list" THEN "build:read" ELSE "build:create"
      [] res \in {"scoreboard", "run"} -> "scoreboard:read"
      [] res = "submission" -> "submission:create"
      [] OTHER -> "competition:read"
Agreed(r) ==
    IF r.verb \in SharedVerbs(r.res)
    THEN Reach(r.gate) = KindOf(r.res, r.verb) /\ (r.res # "report" => r.perm = PermOf(r.res, r.verb))
    ELSE r.face = FaceOf(r.res, r.verb)

\* A permission of competition scope is checked in the competition, the API
\* audits what it changes, and submissions are of the caller's own team.
Listed(r) ==
    /\ r.perm \in CompetitionPermission /\ ~(r.res = "competition" /\ r.verb \in {"new", "create"})
          => r.gate \in {"competition", "hidden", "any", "filter"}
    /\ Keyable(r) => r.does = DoesOf(r.res, r.verb)
    /\ r.face \in {"api", "worker"} /\ r.does \notin {"read", "end"} => Has(r, "audit") \/ r = heartbeat_job
    /\ r.res = "submission" /\ r.verb # "form" => Has(r, "placed") \/ Has(r, "own") \/ r = get_submission
    /\ Agreed(r)

LEMMA TableListed == \A r \in Routes : Listed(r)
  <1>. USE DEF Listed, Agreed, SharedVerbs, FaceOf, KindOf, PermOf, Reach, Keyable, CompetitionPermission, DoesOf, Has
  <1>1. Listed(login) /\ Listed(refresh) /\ Listed(logout) /\ Listed(me) /\
        Listed(oidc_login) /\ Listed(oidc_callback) /\ Listed(register_user) /\
        Listed(list_users) /\ Listed(get_user) /\ Listed(create_team) /\ Listed(list_teams) /\
        Listed(get_team)
    BY DEF login, refresh, logout, me, oidc_login, oidc_callback, register_user, list_users,
           get_user, create_team, list_teams, get_team, Api
  <1>2. Listed(assign_member) /\ Listed(create_competition) /\ Listed(list_competitions) /\
        Listed(get_competition) /\ Listed(patch_competition) /\ Listed(create_definition) /\
        Listed(list_definitions) /\ Listed(get_definition) /\ Listed(patch_definition) /\
        Listed(create_version) /\ Listed(list_versions) /\ Listed(get_version)
    BY DEF assign_member, create_competition, list_competitions, get_competition,
           patch_competition, create_definition, list_definitions, get_definition,
           patch_definition, create_version, list_versions, get_version, Api
  <1>3. Listed(publish_version) /\ Listed(submit_answer) /\ Listed(list_submissions) /\
        Listed(get_submission) /\ Listed(get_scoreboard) /\ Listed(get_scoreboard_lag) /\
        Listed(list_instances) /\ Listed(list_competition_instances) /\ Listed(get_instance) /\
        Listed(request_instance) /\ Listed(stop_instance) /\ Listed(reset_instance)
    BY DEF publish_version, submit_answer, list_submissions, get_submission, get_scoreboard,
           get_scoreboard_lag, list_instances, list_competition_instances, get_instance,
           request_instance, stop_instance, reset_instance, Api
  <1>4. Listed(delete_instance) /\ Listed(list_builds) /\ Listed(get_build) /\
        Listed(trigger_build) /\ Listed(list_evaluations) /\ Listed(get_evaluation) /\
        Listed(request_evaluation) /\ Listed(attach_publication) /\ Listed(list_publications) /\
        Listed(detach_publication) /\ Listed(list_dead_letter) /\ Listed(get_job)
    BY DEF delete_instance, list_builds, get_build, trigger_build, list_evaluations,
           get_evaluation, request_evaluation, attach_publication, list_publications,
           detach_publication, list_dead_letter, get_job, Api
  <1>5. Listed(cancel_job) /\ Listed(retry_job) /\ Listed(list_audit_events) /\
        Listed(snapshot_competition_run) /\ Listed(latest_competition_run) /\
        Listed(list_competition_runs) /\ Listed(download_artifact) /\ Listed(health) /\
        Listed(live) /\ Listed(ready) /\ Listed(version) /\ Listed(metrics)
    BY DEF cancel_job, retry_job, list_audit_events, snapshot_competition_run,
           latest_competition_run, list_competition_runs, download_artifact, health, live,
           ready, version, metrics, Api
  <1>6. Listed(authenticate_worker) /\ Listed(claim_job) /\ Listed(start_job) /\
        Listed(heartbeat_job) /\ Listed(complete_job) /\ Listed(fail_job) /\
        Listed(worker_get_instance) /\ Listed(expected_image_digest) /\ Listed(launch_stack) /\
        Listed(replace_instance) /\ Listed(fetch_build_bundle) /\ Listed(report_health)
    BY DEF authenticate_worker, claim_job, start_job, heartbeat_job, complete_job, fail_job,
           worker_get_instance, expected_image_digest, launch_stack, replace_instance,
           fetch_build_bundle, report_health, Worker
  <1>7. Listed(report_resource) /\ Listed(report_endpoint) /\ Listed(transition_instance)
    BY DEF report_resource, report_endpoint, transition_instance, Worker
  <1>8. Listed(login_form) /\ Listed(dashboard) /\ Listed(competitions_list) /\
        Listed(play_landing) /\ Listed(competition_new_form) /\
        Listed(competition_detail_view) /\ Listed(competition_edit_form) /\
        Listed(teams_view) /\ Listed(publications_view) /\ Listed(instances_view) /\
        Listed(instance_detail_view) /\ Listed(ops_jobs_view)
    BY DEF login_form, dashboard, competitions_list, play_landing, competition_new_form,
           competition_detail_view, competition_edit_form, teams_view, publications_view,
           instances_view, instance_detail_view, ops_jobs_view, Page
  <1>9. Listed(builds_view) /\ Listed(scoreboard_view) /\ Listed(competition_run_report_view) /\
        Listed(competition_play_view) /\ Listed(challenges_view) /\ Listed(roster_view) /\
        Listed(challenge_submit_form) /\ Listed(my_submissions_view) /\
        Listed(challenge_download)
    BY DEF builds_view, scoreboard_view, competition_run_report_view, competition_play_view,
           challenges_view, roster_view, challenge_submit_form, my_submissions_view,
           challenge_download, Page
  <1>10. Listed(login_submit) /\ Listed(web_logout) /\ Listed(competition_create) /\
        Listed(competition_update) /\ Listed(team_create) /\ Listed(publication_attach) /\
        Listed(publication_detach) /\ Listed(instance_stop) /\ Listed(instance_reset) /\
        Listed(instance_delete) /\ Listed(ops_job_cancel) /\ Listed(ops_job_retry)
    BY DEF login_submit, web_logout, competition_create, competition_update, team_create,
           publication_attach, publication_detach, instance_stop, instance_reset,
           instance_delete, ops_job_cancel, ops_job_retry, Form
  <1>11. Listed(build_trigger) /\ Listed(competition_run_report_snapshot) /\
        Listed(challenge_submit)
    BY DEF build_trigger, competition_run_report_snapshot, challenge_submit, Form
  <1>12. \A p \in ReportPermissions :
        Listed(snapshot_version_report(p)) /\ Listed(latest_version_report(p)) /\ Listed(list_version_reports(p))
    BY DEF ReportPermissions, snapshot_version_report, latest_version_report, list_version_reports, Api
  <1>13. \A p \in {"build:read", "eval:read"} : Listed(version_report_view(p)) /\ Listed(version_report_snapshot(p))
    BY DEF version_report_view, version_report_snapshot, Page, Form
  <1>. HIDE DEF Listed, Agreed, SharedVerbs, FaceOf, KindOf, PermOf, Reach, Keyable, CompetitionPermission, DoesOf, Has
  <1>14. \A r \in ApiRoutes : Listed(r)
    BY <1>1, <1>2, <1>3, <1>4, <1>5, <1>12 DEF ApiRoutes
  <1>15. \A r \in WorkerRoutes : Listed(r)
    BY <1>6, <1>7 DEF WorkerRoutes
  <1>16. \A r \in WebRoutes : Listed(r)
    BY <1>8, <1>9, <1>10, <1>11, <1>13 DEF WebRoutes
  <1>. QED  BY <1>14, <1>15, <1>16 DEF Routes

LEMMA CommandRoutes == \A cmd \in Commands : cmd.route \in Routes
  BY DEF Commands, Routes, ApiRoutes, Calls, competition_create_cmd, competition_list_cmd,
         competition_get_cmd, competition_update_cmd, competition_scoreboard_cmd,
         team_create_cmd, team_list_cmd, team_get_cmd, user_create_cmd, user_list_cmd,
         user_get_cmd, definition_create_cmd, definition_list_cmd, definition_get_cmd,
         definition_update_cmd, version_create_cmd, version_list_cmd, version_get_cmd,
         version_publish_cmd, publication_attach_cmd, publication_list_cmd,
         publication_detach_cmd, submission_submit_cmd, submission_list_cmd, submission_get_cmd,
         instance_get_cmd, instance_request_cmd, job_list_cmd, job_get_cmd, build_trigger_cmd,
         build_list_cmd, build_get_cmd, system_health_cmd, whoami_cmd, instance_list_cmds,
         instance_action_cmds, job_action_cmds

-----------------------------------------------------------------------------
(* What a step does to the request it serves.                                *)

Req(c) == <<c.who, c.comp, c.team, c.key, c.body, c.tag, c.live, c.csrf, c.published, c.archived, c.route>>
Same(c, d) == Carries(c, d) /\ Req(d) = Req(c)
Right(c) == c.entered = IF Permitted(c) THEN "in" ELSE "out"
Tables == <<rows, acts, store, audits>>
Success(i) == [call |-> i, outcome |-> "success"]

Returns(c, d) ==
    /\ c.st \in {"fetch", "refresh"} /\ d.st = "enter" /\ Carries(c, d) /\ d.replayed = c.replayed /\ UNCHANGED Tables
Fails(c, d) ==
    /\ c.st \in {"refresh", "act"} /\ d.st = "done" /\ d.answer # "ok"
    /\ Same(c, d) /\ d.entered = c.entered /\ d.replayed = c.replayed /\ UNCHANGED Tables
Refused(i, c, d) ==
    /\ c.st = "enter" /\ Same(c, d) /\ Right(d) /\ d.replayed = c.replayed
    /\ d.st = "refresh" \/ (d.st = "done" /\ d.answer # "ok")
    /\ audits \subseteq audits' /\ (\A a \in audits' : a \in audits \/ a.call = i) /\ UNCHANGED <<rows, acts, store>>
Replayed(c, d) ==
    /\ c.st = "enter" /\ d.st = "done" /\ Same(c, d) /\ Right(d) /\ UNCHANGED Tables
    /\ d.replayed => \E s \in store : Earned(s, c)
    /\ ~d.replayed => d.answer # "ok"
Admitted(c, d) ==
    /\ c.st = "enter" /\ d.st \in {"base", "act"} /\ Verdict(c) = "in"
    /\ Same(c, d) /\ Right(d) /\ d.replayed = c.replayed /\ UNCHANGED Tables
ReadsBase(c, d) ==
    /\ c.st = "base" /\ d.st = "act"
    /\ Same(c, d) /\ d.entered = c.entered /\ d.replayed = c.replayed /\ UNCHANGED Tables
Does(i, c, d) ==
    /\ c.st = "act" /\ d.st = Then(c) /\ Same(c, d) /\ d.entered = c.entered /\ d.replayed = c.replayed
    /\ acts' = Append(acts, Act(i, c)) /\ UNCHANGED <<store, audits>>
    /\ \/ Outcome(c) = "ok" /\ rows' = RowsAfter(c)
       \/ c.route.does \in {"merge", "overwrite"} /\ UNCHANGED rows
Audits(i, c, d) ==
    /\ c.st = "audit" /\ d.st = IF Keyed(c) THEN "remember" ELSE "done"
    /\ Same(c, d) /\ d.entered = c.entered /\ d.replayed = c.replayed
    /\ audits' = audits \cup {Success(i)} /\ UNCHANGED <<rows, acts, store>>
Saves(c, d) ==
    /\ c.st = "remember" /\ d.st = "done" /\ Same(c, d) /\ d.entered = c.entered /\ d.replayed = c.replayed
    /\ (\A s \in store' : s \in store \/ Earned(s, c)) /\ UNCHANGED <<rows, acts, audits>>

Proceeds(i, c, d) ==
    \/ Returns(c, d) \/ Fails(c, d) \/ Refused(i, c, d) \/ Replayed(c, d) \/ Admitted(c, d)
    \/ ReadsBase(c, d) \/ Does(i, c, d) \/ Audits(i, c, d) \/ Saves(c, d)

LEMMA StopGoes ==
    ASSUME NEW c, c \in Fields(c), c.st \in {"refresh", "act"}, NEW a, a # "ok", UNCHANGED Tables
    PROVE  Fails(c, Answered(c, a))
  <1>. PICK d : d = Answered(c, a)
    OBVIOUS
  <1>1. /\ d \in Fields(d) /\ d.st = "done" /\ d.answer = a /\ d.entered = c.entered /\ d.replayed = c.replayed
        /\ Req(d) = Req(c) /\ d.who = c.who /\ d.comp = c.comp /\ d.key = c.key /\ d.body = c.body /\ d.route = c.route
    BY DEF Answered, Fields, Req
  <1>. QED  BY <1>1 DEF Fails, Same, Carries

LEMMA EnterGoes ==
    ASSUME NEW i, calls[i] \in Fields(calls[i]), Enter(i)
    PROVE  \E d : calls' = [calls EXCEPT ![i] = d] /\ Proceeds(i, calls[i], d)
  <1>. DEFINE c == calls[i]
              e == [c EXCEPT !.entered = IF Permitted(c) THEN "in" ELSE "out"]
              v == Verdict(c)
              a == ReplayAnswer(CHOOSE s \in lookup(c) : TRUE, c)
              s == IF c.route.does = "merge" THEN "base" ELSE "act"
              d1 == [e EXCEPT !.st = "refresh"]
              d2 == Answered(e, v)
              d3 == [Answered(e, a) EXCEPT !.replayed = (a # "409")]
              d4 == [e EXCEPT !.st = s]
  <1>1. c.st = "enter" /\ UNCHANGED <<rows, acts, store>> /\ audits' = Denied(i, v) /\ c \in Fields(c)
    BY DEF Enter
  <1>2. \/ v # "in" /\ calls' = [calls EXCEPT ![i] = d1]
        \/ v # "in" /\ calls' = [calls EXCEPT ![i] = d2]
        \/ v = "in" /\ lookup(c) # {} /\ calls' = [calls EXCEPT ![i] = d3]
        \/ v = "in" /\ calls' = [calls EXCEPT ![i] = d4]
    <2>. HIDE DEF d1, d2, d3, d4
    <2>1. Enter(i) => calls' = [calls EXCEPT ![i] =
                        IF v # "in"
                        THEN IF v = "401" /\ "cli" \in c.how /\ c.tries = 1 THEN d1 ELSE d2
                        ELSE IF Keyed(c) /\ lookup(c) # {} THEN d3 ELSE d4]
      BY DEF Enter, d1, d2, d3, d4
    <2>. HIDE DEF v, c, e
    <2>. QED  BY <2>1
  <1>3. Same(c, e) /\ e.replayed = c.replayed /\ e.entered = IF Permitted(c) THEN "in" ELSE "out"
    BY <1>1 DEF Fields, Carries, Same, Req
  <1>. HIDE DEF e
  <1>4. e \in Fields(e)
    BY <1>3 DEF Same, Carries
  <1>5. /\ d1.st = "refresh" /\ Same(e, d1) /\ d1.entered = e.entered /\ d1.replayed = e.replayed
        /\ d2.st = "done" /\ Same(e, d2) /\ d2.entered = e.entered /\ d2.replayed = e.replayed /\ d2.answer = v
    BY <1>4 DEF Fields, Carries, Same, Req, Answered
  <1>6. /\ d3.st = "done" /\ Same(e, d3) /\ d3.entered = e.entered /\ d3.replayed = (a # "409") /\ d3.answer = a
        /\ d4.st = s /\ Same(e, d4) /\ d4.entered = e.entered /\ d4.replayed = e.replayed
    BY <1>4 DEF Fields, Carries, Same, Req, Answered
  <1>. HIDE DEF d1, d2, d3, d4
  <1>7. /\ Same(c, d1) /\ Same(c, d2) /\ Same(c, d3) /\ Same(c, d4)
        /\ Permitted(d1) = Permitted(c) /\ Permitted(d2) = Permitted(c)
        /\ Permitted(d3) = Permitted(c) /\ Permitted(d4) = Permitted(c)
    <2>1. Same(c, d1) /\ Same(c, d2) /\ Same(c, d3) /\ Same(c, d4)
      BY <1>3, <1>5, <1>6 DEF Same, Carries, Req
    <2>2. ASSUME NEW d, Same(c, d) PROVE Permitted(d) = Permitted(c)
      BY <2>2 DEF Same, Carries, Permitted, require_permission, assert_competition_permission, require_any_competition_permission
    <2>. QED  BY <2>1, <2>2
  <1>8. Right(d1) /\ Right(d2) /\ Right(d3) /\ Right(d4)
    BY <1>3, <1>5, <1>6, <1>7 DEF Right
  <1>9. audits \subseteq audits' /\ (\A x \in audits' : x \in audits \/ x.call = i) /\ (v = "in" => audits' = audits)
    BY <1>1 DEF Denied
  <1>10. v # "ok"
    BY DEF Verdict
  <1>11. s \in {"base", "act"}
    OBVIOUS
  <1>12. CASE v # "in" /\ calls' = [calls EXCEPT ![i] = d1]
    <2>1. Refused(i, c, d1)
      BY <1>1, <1>3, <1>5, <1>7, <1>8, <1>9 DEF Refused
    <2>. QED  BY <2>1, <1>12 DEF Proceeds
  <1>13. CASE v # "in" /\ calls' = [calls EXCEPT ![i] = d2]
    <2>1. Refused(i, c, d2)
      BY <1>1, <1>3, <1>5, <1>7, <1>8, <1>9, <1>10 DEF Refused
    <2>. QED  BY <2>1, <1>13 DEF Proceeds
  <1>14. CASE v = "in" /\ lookup(c) # {} /\ calls' = [calls EXCEPT ![i] = d3]
    <2>. DEFINE x == CHOOSE y \in lookup(c) : TRUE
    <2>1. x \in store /\ x \in lookup(c)
      BY <1>14 DEF lookup
    <2>2. a # "409" => Earned(x, c)
      BY <2>1 DEF lookup, ReplayAnswer, Earned
    <2>. HIDE DEF x, a, c, v
    <2>3. Replayed(c, d3)
      BY <1>1, <1>6, <1>7, <1>8, <1>9, <1>14, <2>1, <2>2 DEF Replayed, Tables
    <2>. QED  BY <2>3, <1>14 DEF Proceeds, c
  <1>15. CASE v = "in" /\ calls' = [calls EXCEPT ![i] = d4]
    <2>1. Admitted(c, d4)
      BY <1>1, <1>3, <1>6, <1>7, <1>8, <1>9, <1>11, <1>15 DEF Admitted, Tables
    <2>. QED  BY <2>1, <1>15 DEF Proceeds
  <1>. QED  BY <1>2, <1>12, <1>13, <1>14, <1>15

LEMMA ServeGoes ==
    ASSUME ReplayInv, NEW i \in 1..MaxCalls,
           \/ Fetch(i) \/ Enter(i) \/ RefreshToken(i) \/ Perform(i) \/ NumberTaken(i)
           \/ ReadBase(i) \/ Merge(i) \/ Overwrite(i) \/ record_audit(i) \/ Remember(i)
    PROVE  calls[i].st # "unsent" /\ \E d : calls' = [calls EXCEPT ![i] = d] /\ Proceeds(i, calls[i], d)
  <1>. DEFINE c == calls[i]
  <1>1. c.st # "unsent"
    BY DEF Fetch, Enter, RefreshToken, Perform, NumberTaken, ReadBase, Merge, Overwrite, record_audit, Remember
  <1>2. c \in Fields(c) /\ calls = [j \in 1..MaxCalls |-> calls[j]]
    BY <1>1, KnownRequest DEF ReplayInv
  <1>3. ASSUME NEW a, a # "ok", calls' = [calls EXCEPT ![i] = Answered(c, a)], c.st \in {"refresh", "act"}, UNCHANGED Tables
        PROVE  \E d : calls' = [calls EXCEPT ![i] = d] /\ Proceeds(i, c, d)
    BY <1>2, <1>3, StopGoes DEF Proceeds
  <1>4. ASSUME NEW s, s = Then(c), calls' = [calls EXCEPT ![i] = [c EXCEPT !.st = s, !.answer = "ok"]], c.st = "act",
               acts' = Append(acts, Act(i, c)), UNCHANGED <<store, audits>>,
               \/ Outcome(c) = "ok" /\ rows' = RowsAfter(c)
               \/ c.route.does \in {"merge", "overwrite"} /\ UNCHANGED rows
        PROVE  \E d : calls' = [calls EXCEPT ![i] = d] /\ Proceeds(i, c, d)
    <2>. PICK d : d = [c EXCEPT !.st = s, !.answer = "ok"]
      OBVIOUS
    <2>0. s \in {"audit", "done"}
      BY <1>4 DEF Then
    <2>1. Same(c, d) /\ d.entered = c.entered /\ d.replayed = c.replayed /\ d.st = s
      BY <1>2, <2>0 DEF Fields, Carries, Same, Req
    <2>2. Does(i, c, d)
      BY <1>4, <2>1 DEF Does
    <2>. QED  BY <1>4, <2>2 DEF Proceeds
  <1>5. CASE Fetch(i)
    <2>. PICK d : d = [c EXCEPT !.st = "enter", !.tag = Tag(doc)]
      OBVIOUS
    <2>1. calls' = [calls EXCEPT ![i] = d] /\ UNCHANGED Tables /\ c.st = "fetch"
      BY <1>2, <1>5 DEF Fetch, Tables
    <2>2. Carries(c, d) /\ d.replayed = c.replayed /\ d.st = "enter"
      BY <1>2 DEF Fields, Carries
    <2>. QED  BY <2>1, <2>2 DEF Proceeds, Returns
  <1>6. CASE Enter(i)
    BY <1>1, <1>2, <1>6, EnterGoes
  <1>7. CASE RefreshToken(i)
    <2>1. CASE stored
      <3>. PICK d : d = [c EXCEPT !.st = "enter", !.live = TRUE, !.tries = 2]
        OBVIOUS
      <3>1. calls' = [calls EXCEPT ![i] = d] /\ UNCHANGED Tables /\ c.st = "refresh"
        BY <1>2, <1>7, <2>1 DEF RefreshToken, Tables
      <3>2. Carries(c, d) /\ d.replayed = c.replayed /\ d.st = "enter"
        BY <1>2 DEF Fields, Carries
      <3>. QED  BY <3>1, <3>2 DEF Proceeds, Returns
    <2>2. CASE ~stored
      BY <1>2, <1>3, <1>7, <2>2 DEF RefreshToken, Tables
    <2>. QED  BY <2>1, <2>2
  <1>8. CASE Perform(i)
    <2>1. CASE Outcome(c) = "ok"
      <3>. DEFINE s == Then(c)
      <3>1. calls' = [calls EXCEPT ![i] = [c EXCEPT !.st = s, !.answer = "ok"]] /\ UNCHANGED <<store, audits>>
            /\ acts' = Append(acts, Act(i, c)) /\ rows' = RowsAfter(c) /\ c.st = "act"
        BY <1>8, <2>1 DEF Perform
      <3>. HIDE DEF s
      <3>. QED  BY <1>4, <2>1, <3>1 DEF s
    <2>2. CASE Outcome(c) # "ok"
      <3>1. calls' = [calls EXCEPT ![i] = Answered(c, Outcome(c))] /\ UNCHANGED Tables /\ c.st = "act"
        BY <1>8, <2>2 DEF Perform, Tables
      <3>. QED  BY <1>3, <2>2, <3>1
    <2>. QED  BY <2>1, <2>2
  <1>9. CASE NumberTaken(i)
    BY <1>2, <1>3, <1>9 DEF NumberTaken, Tables
  <1>10. CASE ReadBase(i)
    <2>. PICK d : d = [c EXCEPT !.st = "act", !.base = doc]
      OBVIOUS
    <2>1. calls' = [calls EXCEPT ![i] = d] /\ UNCHANGED Tables /\ c.st = "base"
      BY <1>2, <1>10 DEF ReadBase, Tables
    <2>2. Same(c, d) /\ d.entered = c.entered /\ d.replayed = c.replayed /\ d.st = "act"
      BY <1>2 DEF Fields, Carries, Same, Req
    <2>. QED  BY <2>1, <2>2 DEF Proceeds, ReadsBase
  <1>11. CASE Merge(i) /\ ~etags_match(c)
    BY <1>2, <1>3, <1>11 DEF Merge, Tables
  <1>12. CASE Overwrite(i) \/ (Merge(i) /\ etags_match(c))
    <2>. DEFINE s == Then(c)
    <2>1. calls' = [calls EXCEPT ![i] = [c EXCEPT !.st = s, !.answer = "ok"]] /\ UNCHANGED <<store, audits, rows>>
          /\ acts' = Append(acts, Act(i, c)) /\ c.st = "act" /\ c.route.does \in {"merge", "overwrite"}
      BY <1>2, <1>12 DEF Merge, Overwrite
    <2>. HIDE DEF s
    <2>. QED  BY <1>4, <2>1 DEF s
  <1>13. CASE record_audit(i)
    <2>. PICK d : d = [c EXCEPT !.st = IF Keyed(c) THEN "remember" ELSE "done"]
      OBVIOUS
    <2>1. calls' = [calls EXCEPT ![i] = d] /\ UNCHANGED <<rows, acts, store>> /\ c.st = "audit" /\ audits' = audits \cup {Success(i)}
      BY <1>2, <1>13 DEF record_audit, Success
    <2>2. Same(c, d) /\ d.entered = c.entered /\ d.replayed = c.replayed /\ d.st = IF Keyed(c) THEN "remember" ELSE "done"
      BY <1>2 DEF Fields, Carries, Same, Req
    <2>. QED  BY <2>1, <2>2 DEF Proceeds, Audits
  <1>14. CASE Remember(i)
    <2>. PICK d : d = [c EXCEPT !.st = "done"]
      OBVIOUS
    <2>1. calls' = [calls EXCEPT ![i] = d] /\ UNCHANGED <<rows, acts, audits>> /\ c.st = "remember"
      BY <1>2, <1>14 DEF Remember
    <2>2. Same(c, d) /\ d.entered = c.entered /\ d.replayed = c.replayed /\ d.st = "done"
      BY <1>2 DEF Fields, Carries, Same, Req
    <2>3. \A s \in store' : s \in store \/ Earned(s, c)
      BY <1>14 DEF Remember, Earned
    <2>. QED  BY <2>1, <2>2, <2>3 DEF Proceeds, Saves
  <1>. QED  BY <1>1, <1>5, <1>6, <1>7, <1>8, <1>9, <1>10, <1>11, <1>12, <1>13, <1>14

-----------------------------------------------------------------------------
(* Who is admitted.  A request is served only after the gate has let it in,  *)
(* and an act shows what the request that did it may see.                    *)

Acted == {"audit", "remember", "done", "lost"}
Fixed(c) == c.key # NoKey /\ c.route.does \notin {"next", "bump", "append"}

\* RowId of a request whose row is named by the request itself.
NamedId(c) ==
    CASE c.route.does = "submit" -> <<c.route.res, c.who.subject, c.comp, c.key>>
      [] c.route.does = "place" -> <<c.route.res, c.who.subject, c.key>>
      [] c.route.does \in {"insert", "remove"} -> <<c.route.res, "row", c.comp, c.body>>
      [] OTHER -> <<c.route.res, c.route.verb, c.comp, c.body>>

FromPeople(people, c) ==
    /\ c.who \in people /\ c.route \in Routes
    /\ c.key = NoKey \/ Keyable(c.route)

TrueAct(n) ==
    LET a == acts[n]
        c == calls[a.call]
    IN /\ c.st \in Acted /\ Verdict(c) = "in"
       /\ a.comps = CompetitionsShown(c) /\ a.teams = TeamsShown(c)
       /\ a.wrote /\ Fixed(c) => a.id = NamedId(c)

Removed(m) == \E k \in DOMAIN acts : m <= k /\ calls[acts[k].call].route.does = "remove"
RowThere(m) == \E w \in rows : w.id = acts[m].id
RowKept(m) == acts[m].wrote /\ Fixed(calls[acts[m].call]) => Removed(m) \/ RowThere(m)

ServedInv(people) ==
    /\ \A i \in 1..MaxCalls : calls[i].st # "unsent" => FromPeople(people, calls[i])
    /\ \A i \in 1..MaxCalls : calls[i].st \in {"base", "act"} => Verdict(calls[i]) = "in"
    /\ \A i \in 1..MaxCalls : calls[i].st \notin {"unsent", "enter", "fetch", "lost"} => Right(calls[i])
    /\ \A n \in DOMAIN acts : TrueAct(n) /\ RowKept(n)
    /\ KeyedOnce

LEMMA SameCall ==
    ASSUME NEW c, NEW d, Same(c, d)
    PROVE  /\ Verdict(d) = Verdict(c) /\ Permitted(d) = Permitted(c)
           /\ CompetitionsShown(d) = CompetitionsShown(c) /\ TeamsShown(d) = TeamsShown(c)
           /\ NamedId(d) = NamedId(c) /\ Fixed(d) = Fixed(c)
  <1>1. /\ d.who = c.who /\ d.comp = c.comp /\ d.team = c.team /\ d.key = c.key /\ d.body = c.body
        /\ d.tag = c.tag /\ d.live = c.live /\ d.csrf = c.csrf /\ d.published = c.published
        /\ d.archived = c.archived /\ d.route = c.route
    BY DEF Same, Req
  <1>2. Permitted(d) = Permitted(c) /\ Place(d) = Place(c)
    BY <1>1 DEF Permitted, require_permission, assert_competition_permission, require_any_competition_permission, Place
  <1>3. OwnTeamNamed(d) = OwnTeamNamed(c) /\ RowOfOwnTeam(d) = RowOfOwnTeam(c)
    BY <1>1, <1>2 DEF OwnTeamNamed, RowOfOwnTeam
  <1>4. Verdict(d) = Verdict(c)
    BY <1>1, <1>2, <1>3 DEF Verdict
  <1>5. CompetitionsShown(d) = CompetitionsShown(c) /\ TeamsShown(d) = TeamsShown(c)
    BY <1>1, <1>2 DEF CompetitionsShown, TeamsShown
  <1>6. NamedId(d) = NamedId(c) /\ Fixed(d) = Fixed(c)
    BY <1>1 DEF NamedId, Fixed
  <1>. QED  BY <1>2, <1>4, <1>5, <1>6

LEMMA SameStays ==
    ASSUME NEW c, NEW d, Same(c, d), Right(c), d.entered = c.entered
    PROVE  Right(d)
  BY SameCall DEF Right

\* What the gate let in: for OwnTeam and ConfinedToCompetition.
LEMMA Within ==
    ASSUME NEW c, Verdict(c) = "in"
    PROVE  /\ Permitted(c)
           /\ Has(c.route, "own") => OwnTeamNamed(c)
           /\ c.route = get_submission => RowOfOwnTeam(c)
  BY DEF Verdict

LEMMA ActShows ==
    ASSUME NEW i, NEW c
    PROVE  /\ Act(i, c).call = i /\ Act(i, c).id = RowId(c)
           /\ Act(i, c).comps = CompetitionsShown(c) /\ Act(i, c).teams = TeamsShown(c)
           /\ Act(i, c).wrote => RowsAfter(c) # rows
  BY DEF Act

\* A row is named after the key or after the target.
LEMMA KeyNames ==
    ASSUME NEW c, Listed(c.route), Keyable(c.route), Fixed(c)
    PROVE  RowId(c) = NamedId(c)
  <1>1. c.route.does \in {"submit", "insert", "set", "place", "step", "natural"}
    BY DEF Listed, DoesOf, Fixed
  <1>. QED  BY <1>1 DEF RowId, NamedId, DerivedId, Fixed


LEMMA ActLog ==
    ASSUME ReplayInv
    PROVE  /\ Len(acts) \in Nat /\ DOMAIN acts = 1..Len(acts)
           /\ \A e : /\ DOMAIN Append(acts, e) = 1..(Len(acts) + 1) /\ Append(acts, e)[Len(acts) + 1] = e
                     /\ \A n \in 1..Len(acts) : Append(acts, e)[n] = acts[n]
  <1>1. PICK S : acts \in Seq(S)
    BY DEF ReplayInv
  <1>2. ASSUME NEW e
        PROVE  /\ DOMAIN Append(acts, e) = 1..(Len(acts) + 1) /\ Append(acts, e)[Len(acts) + 1] = e
               /\ \A n \in 1..Len(acts) : Append(acts, e)[n] = acts[n]
    <2>. PICK T : T = S \cup {e}
      OBVIOUS
    <2>1. acts \in Seq(T) /\ e \in T
      BY <1>1
    <2>. QED  BY <2>1
  <1>. QED  BY <1>1, <1>2

\* While nothing is done, what was done stays true.
LEMMA ActsStay ==
    ASSUME ReplayInv, NEW people, ServedInv(people), UNCHANGED <<acts, rows>>,
           \A j \in 1..MaxCalls : calls[j].st \in Acted => Same(calls[j], calls'[j]) /\ calls'[j].st \in Acted
    PROVE  (\A n \in DOMAIN acts : TrueAct(n) /\ RowKept(n))' /\ KeyedOnce'
  <1>1. ASSUME NEW n \in DOMAIN acts
        PROVE  /\ acts[n].call \in 1..MaxCalls /\ calls[acts[n].call].st \in Acted
               /\ Same(calls[acts[n].call], calls'[acts[n].call]) /\ calls'[acts[n].call].st \in Acted
    BY DEF ReplayInv, ServedInv, TrueAct
  <1>2. ASSUME NEW n \in DOMAIN acts PROVE TrueAct(n)'
    <2>1. TrueAct(n)
      BY DEF ServedInv
    <2>. QED  BY <1>1, <2>1, SameCall DEF TrueAct
  <1>3. \A n \in DOMAIN acts : LET c == calls[acts[n].call] d == calls'[acts[n].call]
                               IN /\ d.route = c.route /\ d.key = c.key /\ d.who = c.who
                                  /\ d.comp = c.comp /\ d.body = c.body /\ Fixed(d) = Fixed(c)
    BY <1>1, SameCall DEF Same, Carries
  <1>4. ASSUME NEW n \in DOMAIN acts PROVE RowKept(n)'
    <2>1. RowKept(n)
      BY DEF ServedInv
    <2>. QED  BY <1>3, <2>1 DEF RowKept, Removed, RowThere
  <1>5. KeyedOnce'
    <2>1. KeyedOnce
      BY DEF ServedInv
    <2>2. DOMAIN acts = 1..Len(acts) /\ Len(acts) \in Nat
      BY ActLog
    <2>. SUFFICES ASSUME NEW m \in DOMAIN acts, NEW n \in DOMAIN acts, m < n, acts[m].wrote, acts[n].wrote,
                         calls'[acts[m].call].key # NoKey, SameRequest(calls'[acts[m].call], calls'[acts[n].call])
                  PROVE  \/ calls'[acts[m].call].route.does \in {"next", "bump", "append"}
                         \/ \E k \in m..n : calls'[acts[k].call].route.does = "remove"
      BY DEF KeyedOnce
    <2>3. calls[acts[m].call].key # NoKey /\ SameRequest(calls[acts[m].call], calls[acts[n].call])
      BY <1>3 DEF SameRequest
    <2>4. \/ calls[acts[m].call].route.does \in {"next", "bump", "append"}
          \/ \E k \in m..n : calls[acts[k].call].route.does = "remove"
      BY <2>1, <2>3 DEF KeyedOnce
    <2>5. \A k \in m..n : k \in DOMAIN acts
      BY <2>2
    <2>. QED  BY <1>3, <2>4, <2>5
  <1>. QED  BY <1>2, <1>4, <1>5

LEMMA OneServed ==
    ASSUME ReplayInv, NEW people, ServedInv(people), NEW i \in 1..MaxCalls, NEW d, calls' = [calls EXCEPT ![i] = d],
           UNCHANGED <<acts, rows>>, FromPeople(people, d), calls[i].st \notin Acted \/ (Same(calls[i], d) /\ d.st \in Acted),
           d.st \in {"base", "act"} => Verdict(d) = "in",
           d.st \notin {"unsent", "enter", "fetch", "lost"} => Right(d)
    PROVE  ServedInv(people)'
  <1>1. calls' = [j \in 1..MaxCalls |-> calls'[j]] /\ calls'[i] = d /\ \A j \in 1..MaxCalls : j # i => calls'[j] = calls[j]
    BY DEF ReplayInv
  <1>2. \A j \in 1..MaxCalls : calls[j].st \in Acted => Same(calls[j], calls[j])
    BY DEF ReplayInv, Same, Acted, Unsent
  <1>3. (\A n \in DOMAIN acts : TrueAct(n) /\ RowKept(n))' /\ KeyedOnce'
    BY <1>1, <1>2, ActsStay
  <1>4. \A j \in 1..MaxCalls : calls'[j].st # "unsent" => FromPeople(people, calls'[j])
    BY <1>1 DEF ServedInv
  <1>5. \A j \in 1..MaxCalls : calls'[j].st \in {"base", "act"} => Verdict(calls'[j]) = "in"
    BY <1>1 DEF ServedInv
  <1>6. \A j \in 1..MaxCalls : calls'[j].st \notin {"unsent", "enter", "fetch", "lost"} => Right(calls'[j])
    BY <1>1 DEF ServedInv
  <1>. QED  BY <1>3, <1>4, <1>5, <1>6 DEF ServedInv

LEMMA SendServed ==
    ASSUME ReplayInv, NEW people, ServedInv(people), NEW i \in 1..MaxCalls, calls[i].st = "unsent",
           NEW r \in Routes, NEW in \in Inputs(r, people), NEW how, NEW st \in {"enter", "fetch"},
           calls' = [calls EXCEPT ![i] = Sent(r, how, in, st)], UNCHANGED <<acts, rows>>
    PROVE  ServedInv(people)'
  <1>. PICK d : d = Sent(r, how, in, st)
    OBVIOUS
  <1>1. d.st = st /\ d.who = in.who /\ d.route = r /\ d.key = in.key
    BY DEF Sent
  <1>2. in.who \in people /\ (in.key = NoKey \/ Keyable(r))
    BY DEF Inputs, If, Keyable
  <1>3. FromPeople(people, d)
    BY <1>1, <1>2 DEF FromPeople
  <1>. QED  BY <1>1, <1>3, OneServed DEF Acted

LEMMA QuietServed ==
    ASSUME ReplayInv, NEW people, ServedInv(people), NEW i \in 1..MaxCalls, calls[i].st # "unsent",
           NEW d, calls' = [calls EXCEPT ![i] = d],
           Proceeds(i, calls[i], d), ~Does(i, calls[i], d)
    PROVE  ServedInv(people)'
  <1>. DEFINE c == calls[i]
  <1>1. FromPeople(people, c)
    BY DEF ServedInv
  <1>2. Carries(c, d)
    BY DEF Proceeds, Returns, Fails, Refused, Replayed, Admitted, ReadsBase, Audits, Saves, Same
  <1>3. FromPeople(people, d)
    BY <1>1, <1>2 DEF FromPeople, Carries
  <1>4. UNCHANGED <<acts, rows>>
    BY DEF Proceeds, Returns, Fails, Refused, Replayed, Admitted, ReadsBase, Audits, Saves, Tables
  <1>5. c.st \notin Acted \/ (Same(c, d) /\ d.st \in Acted)
    BY DEF Proceeds, Returns, Fails, Refused, Replayed, Admitted, ReadsBase, Audits, Saves, Acted
  <1>6. d.st \in {"base", "act"} => Verdict(d) = "in"
    <2>1. d.st \in {"base", "act"} => Admitted(c, d) \/ ReadsBase(c, d)
      BY DEF Proceeds, Returns, Fails, Refused, Replayed, Audits, Saves
    <2>2. Admitted(c, d) \/ ReadsBase(c, d) => Same(c, d) /\ Verdict(c) = "in"
      BY DEF Admitted, ReadsBase, ServedInv
    <2>. QED  BY <2>1, <2>2, SameCall
  <1>7. d.st \notin {"unsent", "enter", "fetch", "lost"} => Right(d)
    <2>1. CASE Returns(c, d)
      BY <2>1 DEF Returns
    <2>2. CASE Refused(i, c, d) \/ Replayed(c, d) \/ Admitted(c, d)
      BY <2>2 DEF Refused, Replayed, Admitted
    <2>3. CASE Fails(c, d) \/ ReadsBase(c, d) \/ Audits(i, c, d) \/ Saves(c, d)
      <3>1. Same(c, d) /\ d.entered = c.entered /\ c.st \notin {"unsent", "enter", "fetch", "lost"}
        BY <2>3 DEF Fails, ReadsBase, Audits, Saves
      <3>2. Right(c)
        BY <3>1 DEF ServedInv
      <3>. QED  BY <3>1, <3>2, SameStays
    <2>. QED  BY <2>1, <2>2, <2>3 DEF Proceeds
  <1>. QED  BY <1>3, <1>4, <1>5, <1>6, <1>7, OneServed

-----------------------------------------------------------------------------
(* One more act.                                                             *)

LEMMA Logged ==
    ASSUME ReplayInv, NEW people, ServedInv(people), NEW i \in 1..MaxCalls,
           NEW d, calls' = [calls EXCEPT ![i] = d], Does(i, calls[i], d)
    PROVE  /\ Len(acts) \in Nat /\ DOMAIN acts = 1..Len(acts) /\ DOMAIN acts' = 1..(Len(acts) + 1)
           /\ acts'[Len(acts) + 1] = Act(i, calls[i]) /\ acts'[Len(acts) + 1].call = i /\ calls'[i] = d
           /\ \A j \in 1..MaxCalls : j # i => calls'[j] = calls[j]
           /\ \A n \in 1..Len(acts) : /\ acts'[n] = acts[n] /\ acts[n].call \in 1..MaxCalls /\ acts[n].call # i
                                      /\ calls'[acts[n].call] = calls[acts[n].call]
  <1>. PICK e : e = Act(i, calls[i])
    OBVIOUS
  <1>1. acts' = Append(acts, e) /\ e.call = i /\ calls[i].st = "act"
    BY DEF Does, Act
  <1>2. /\ Len(acts) \in Nat /\ DOMAIN acts = 1..Len(acts)
        /\ DOMAIN Append(acts, e) = 1..(Len(acts) + 1) /\ Append(acts, e)[Len(acts) + 1] = e
        /\ \A n \in 1..Len(acts) : Append(acts, e)[n] = acts[n]
    BY ActLog
  <1>3. calls'[i] = d /\ \A j \in 1..MaxCalls : j # i => calls'[j] = calls[j]
    BY DEF ReplayInv
  <1>4. \A n \in 1..Len(acts) : acts[n].call \in 1..MaxCalls /\ calls[acts[n].call].st \in Acted
    BY <1>2 DEF ReplayInv, ServedInv, TrueAct
  <1>5. "act" \notin Acted
    BY DEF Acted
  <1>. QED  BY <1>1, <1>2, <1>3, <1>4, <1>5

\* What a request under a key leaves: its row, unless it removes one.
LEMMA KeyedRow ==
    ASSUME NEW people, NEW c, FromPeople(people, c), Fixed(c)
    PROVE  Keyable(c.route) /\ Listed(c.route) /\ c.route.does \notin {"remove", "merge", "overwrite"}
  <1>1. c.route \in Routes /\ Keyable(c.route)
    BY DEF FromPeople, Fixed
  <1>2. Listed(c.route)
    BY <1>1, TableListed
  <1>. QED  BY <1>1, <1>2 DEF Listed, DoesOf

LEMMA RowLeft ==
    ASSUME NEW c, c.route.does # "remove"
    PROVE  /\ rows \subseteq RowsAfter(c)
           /\ RowsAfter(c) # rows => \E w \in RowsAfter(c) : w.id = RowId(c)
           /\ (\E w \in rows : w.id = RowId(c)) => RowsAfter(c) = rows
  BY DEF RowsAfter

LEMMA NewAct ==
    ASSUME ReplayInv, NEW people, ServedInv(people), NEW i \in 1..MaxCalls,
           NEW d, calls' = [calls EXCEPT ![i] = d], Does(i, calls[i], d), NEW n, n = Len(acts) + 1
    PROVE  TrueAct(n)' /\ RowKept(n)'
  <1>. DEFINE c == calls[i]
  <1>1. acts'[n] = Act(i, c) /\ acts'[n].call = i /\ calls'[i] = d
    BY Logged
  <1>2. c.st = "act" /\ Same(c, d) /\ d.st \in Acted
    BY DEF Does, Then, Acted
  <1>3. Verdict(c) = "in" /\ FromPeople(people, c)
    BY <1>2 DEF ServedInv
  <1>4. /\ Verdict(d) = Verdict(c) /\ CompetitionsShown(d) = CompetitionsShown(c) /\ TeamsShown(d) = TeamsShown(c)
        /\ NamedId(d) = NamedId(c) /\ Fixed(d) = Fixed(c)
    BY <1>2, SameCall
  <1>5. Fixed(c) => acts'[n].id = RowId(c) /\ RowId(c) = NamedId(c)
    <2>. SUFFICES ASSUME Fixed(c) PROVE acts'[n].id = RowId(c) /\ RowId(c) = NamedId(c)
      OBVIOUS
    <2>1. Keyable(c.route) /\ Listed(c.route) /\ c.key # NoKey
      BY <1>3, KeyedRow DEF Fixed
    <2>. QED  BY <1>1, <2>1, ActShows, KeyNames
  <1>6. acts'[n].comps = CompetitionsShown(c) /\ acts'[n].teams = TeamsShown(c) /\ (acts'[n].wrote => RowsAfter(c) # rows)
    BY <1>1, ActShows
  <1>7. TrueAct(n)'
    BY <1>1, <1>2, <1>3, <1>4, <1>5, <1>6 DEF TrueAct
  <1>8. ASSUME acts'[n].wrote, Fixed(c) PROVE \E w \in rows' : w.id = acts'[n].id
    <2>1. c.route.does \notin {"remove", "merge", "overwrite"}
      BY <1>3, <1>8, KeyedRow
    <2>2. rows' = RowsAfter(c)
      BY <2>1 DEF Does
    <2>. QED  BY <1>5, <1>6, <1>8, <2>1, <2>2, RowLeft
  <1>9. RowKept(n)'
    BY <1>1, <1>4, <1>8 DEF RowKept, RowThere
  <1>. QED  BY <1>7, <1>9

LEMMA OldAct ==
    ASSUME ReplayInv, NEW people, ServedInv(people), NEW i \in 1..MaxCalls,
           NEW d, calls' = [calls EXCEPT ![i] = d], Does(i, calls[i], d), NEW m \in 1..Len(acts)
    PROVE  TrueAct(m)' /\ RowKept(m)'
  <1>. DEFINE c == calls[i]
              N == Len(acts) + 1
  <1>1. /\ Len(acts) \in Nat /\ DOMAIN acts = 1..Len(acts) /\ DOMAIN acts' = 1..N
        /\ acts'[N].call = i /\ calls'[i] = d
        /\ \A n \in 1..Len(acts) : acts'[n] = acts[n] /\ calls'[acts[n].call] = calls[acts[n].call]
    BY Logged
  <1>2. TrueAct(m) /\ RowKept(m)
    BY <1>1 DEF ServedInv
  <1>3. TrueAct(m)'
    BY <1>1, <1>2 DEF TrueAct, Verdict, Permitted, require_permission, assert_competition_permission, require_any_competition_permission,
       OwnTeamNamed, RowOfOwnTeam, Place, CompetitionsShown, TeamsShown, NamedId, Fixed
  <1>4. d.route = c.route
    BY DEF Does, Same, Carries
  <1>5. Removed(m) => Removed(m)'
    <2>. SUFFICES ASSUME NEW k \in DOMAIN acts, m <= k, calls[acts[k].call].route.does = "remove" PROVE Removed(m)'
      BY DEF Removed
    <2>1. k \in DOMAIN acts' /\ calls'[acts'[k].call].route.does = "remove"
      BY <1>1
    <2>. QED  BY <2>1 DEF Removed
  <1>6. RowThere(m) => Removed(m)' \/ RowThere(m)'
    <2>1. CASE c.route.does = "remove"
      <3>1. N \in DOMAIN acts' /\ m <= N /\ calls'[acts'[N].call].route.does = "remove"
        BY <1>1, <1>4, <2>1
      <3>. QED  BY <3>1 DEF Removed
    <2>2. CASE c.route.does # "remove"
      <3>1. rows \subseteq rows'
        BY <2>2, RowLeft DEF Does
      <3>. QED  BY <1>1, <3>1 DEF RowThere
    <2>. QED  BY <2>1, <2>2
  <1>7. RowKept(m)'
    BY <1>1, <1>2, <1>5, <1>6 DEF RowKept, Fixed
  <1>. QED  BY <1>3, <1>7

\* Two requests under one key name one row.
LEMMA OneRow ==
    ASSUME NEW people, NEW c, NEW d, FromPeople(people, c), FromPeople(people, d), SameRequest(c, d), c.key # NoKey
    PROVE  c.route.does \in {"next", "bump", "append"} \/ (Fixed(c) /\ Fixed(d) /\ NamedId(c) = NamedId(d))
  <1>1. c.route \in Routes /\ d.route \in Routes /\ Keyable(c.route) /\ Keyable(d.route) /\ d.key # NoKey
    BY DEF FromPeople, SameRequest
  <1>2. Listed(c.route) /\ Listed(d.route)
    BY <1>1, TableListed
  <1>3. c.route.res = d.route.res /\ c.route.verb = d.route.verb
    BY DEF SameRequest
  <1>4. c.route.does = d.route.does
    BY <1>1, <1>2, <1>3 DEF Listed
  <1>. QED  BY <1>1, <1>3, <1>4 DEF SameRequest, Fixed, NamedId

LEMMA DoesOnce ==
    ASSUME ReplayInv, NEW people, ServedInv(people), NEW i \in 1..MaxCalls,
           NEW d, calls' = [calls EXCEPT ![i] = d], Does(i, calls[i], d)
    PROVE  KeyedOnce'
  <1>. DEFINE c == calls[i]
              N == Len(acts) + 1
  <1>1. /\ Len(acts) \in Nat /\ DOMAIN acts = 1..Len(acts) /\ DOMAIN acts' = 1..N
        /\ acts'[N] = Act(i, c) /\ acts'[N].call = i /\ calls'[i] = d
        /\ \A n \in 1..Len(acts) : acts'[n] = acts[n] /\ acts[n].call \in 1..MaxCalls /\ calls'[acts[n].call] = calls[acts[n].call]
    BY Logged
  <1>. SUFFICES ASSUME NEW m \in DOMAIN acts', NEW n \in DOMAIN acts', m < n, acts'[m].wrote, acts'[n].wrote,
                       calls'[acts'[m].call].key # NoKey, SameRequest(calls'[acts'[m].call], calls'[acts'[n].call])
                PROVE  \/ calls'[acts'[m].call].route.does \in {"next", "bump", "append"}
                       \/ \E k \in m..n : calls'[acts'[k].call].route.does = "remove"
    BY DEF KeyedOnce
  <1>2. m \in 1..Len(acts) /\ (n \in 1..Len(acts) \/ n = N)
    BY <1>1
  <1>3. CASE n \in 1..Len(acts)
    <2>1. KeyedOnce
      BY DEF ServedInv
    <2>2. /\ acts[m].wrote /\ acts[n].wrote /\ calls[acts[m].call].key # NoKey
          /\ SameRequest(calls[acts[m].call], calls[acts[n].call])
      BY <1>1, <1>2, <1>3
    <2>3. \/ calls[acts[m].call].route.does \in {"next", "bump", "append"}
          \/ \E k \in m..n : calls[acts[k].call].route.does = "remove"
      BY <1>1, <1>2, <1>3, <2>1, <2>2 DEF KeyedOnce
    <2>4. \A k \in m..n : k \in 1..Len(acts)
      BY <1>1, <1>2, <1>3
    <2>. QED  BY <1>1, <1>2, <2>3, <2>4
  <1>4. CASE n = N
    <2>. DEFINE b == calls[acts[m].call]
    <2>1. b = calls'[acts'[m].call] /\ b.st \in Acted /\ acts[m].wrote /\ b.key # NoKey /\ SameRequest(b, d)
      BY <1>1, <1>2, <1>4 DEF ServedInv, TrueAct
    <2>2. FromPeople(people, b) /\ FromPeople(people, c) /\ Same(c, d)
      BY <1>1, <1>2, <2>1 DEF ServedInv, Does, Acted
    <2>3. FromPeople(people, d) /\ Fixed(d) = Fixed(c) /\ NamedId(d) = NamedId(c) /\ d.route = c.route /\ d.key = c.key
      BY <2>2, SameCall DEF FromPeople, Same, Carries
    <2>4. CASE b.route.does \in {"next", "bump", "append"}
      BY <2>1, <2>4
    <2>5. CASE Fixed(b) /\ Fixed(d) /\ NamedId(b) = NamedId(d)
      <3>1. acts[m].id = NamedId(b) /\ RowKept(m)
        BY <1>1, <1>2, <2>1, <2>5 DEF ServedInv, TrueAct
      <3>2. CASE Removed(m)
        <4>1. PICK k \in DOMAIN acts : m <= k /\ calls[acts[k].call].route.does = "remove"
          BY <3>2 DEF Removed
        <4>2. k \in m..n /\ calls'[acts'[k].call].route.does = "remove"
          BY <1>1, <1>2, <1>4, <4>1
        <4>. QED  BY <4>2
      <3>3. CASE RowThere(m)
        <4>1. Keyable(c.route) /\ Listed(c.route) /\ c.route.does # "remove" /\ c.key # NoKey /\ Fixed(c)
          BY <2>2, <2>3, <2>5, KeyedRow DEF Fixed
        <4>2. RowId(c) = NamedId(c)
          BY <4>1, KeyNames
        <4>3. RowsAfter(c) = rows
          BY <2>3, <2>5, <3>1, <3>3, <4>1, <4>2, RowLeft DEF RowThere
        <4>. QED  BY <1>1, <1>4, <4>3, ActShows
      <3>. QED  BY <2>1, <2>5, <3>1, <3>2, <3>3 DEF RowKept
    <2>. QED  BY <2>1, <2>2, <2>3, <2>4, <2>5, OneRow
  <1>. QED  BY <1>2, <1>3, <1>4

LEMMA ServedDoes ==
    ASSUME ReplayInv, NEW people, ServedInv(people), NEW i \in 1..MaxCalls,
           NEW d, calls' = [calls EXCEPT ![i] = d], Does(i, calls[i], d)
    PROVE  ServedInv(people)'
  <1>. DEFINE c == calls[i]
              N == Len(acts) + 1
  <1>1. /\ DOMAIN acts' = 1..N /\ Len(acts) \in Nat /\ calls'[i] = d
        /\ \A j \in 1..MaxCalls : j # i => calls'[j] = calls[j]
    BY Logged
  <1>2. c.st = "act" /\ Same(c, d) /\ d.entered = c.entered /\ d.st \in Acted \ {"lost"} /\ FromPeople(people, c) /\ Right(c)
    BY DEF Does, Then, Acted, ServedInv
  <1>3. FromPeople(people, d) /\ Right(d)
    BY <1>2, SameStays DEF FromPeople, Same, Carries
  <1>4. \A n \in DOMAIN acts' : TrueAct(n)' /\ RowKept(n)'
    <2>. SUFFICES ASSUME NEW n \in DOMAIN acts' PROVE TrueAct(n)' /\ RowKept(n)'
      OBVIOUS
    <2>1. n \in 1..Len(acts) \/ n = N
      BY <1>1
    <2>. QED  BY <2>1, OldAct, NewAct
  <1>5. \A j \in 1..MaxCalls : calls'[j].st # "unsent" => FromPeople(people, calls'[j])
    BY <1>1, <1>3 DEF ServedInv
  <1>6. \A j \in 1..MaxCalls : calls'[j].st \in {"base", "act"} => Verdict(calls'[j]) = "in"
    BY <1>1, <1>2 DEF ServedInv, Acted
  <1>7. \A j \in 1..MaxCalls : calls'[j].st \notin {"unsent", "enter", "fetch", "lost"} => Right(calls'[j])
    BY <1>1, <1>3 DEF ServedInv
  <1>. QED  BY <1>4, <1>5, <1>6, <1>7, DoesOnce DEF ServedInv

-----------------------------------------------------------------------------
(* The audit log.                                                            *)

Vouches(a, c) == a.outcome = "success" /\ SameRequest(c, calls[a.call])

AuditInv ==
    /\ \A a \in audits : a.call \in 1..MaxCalls /\ calls[a.call].st # "unsent"
    /\ \A i \in 1..MaxCalls : calls[i].st = "remember" => Success(i) \in audits
    /\ \A i \in 1..MaxCalls : calls[i].st # "unsent" /\ calls[i].replayed => calls[i].st = "done"
    /\ \A i \in 1..MaxCalls : calls[i].st = "done" /\ calls[i].answer = "ok" =>
          IF calls[i].replayed THEN \E a \in audits : Vouches(a, calls[i])
          ELSE Has(calls[i].route, "audit") => Success(i) \in audits
    /\ \A s \in store : \E a \in audits : a.outcome = "success" /\ Earned(s, calls[a.call])

LEMMA AuditsKept ==
    ASSUME AuditInv, audits \subseteq audits', calls' = [i \in 1..MaxCalls |-> calls'[i]],
           \A i \in 1..MaxCalls : calls[i].st # "unsent" => Carries(calls[i], calls'[i])
    PROVE  /\ \A a \in audits : calls'[a.call].st # "unsent"
           /\ \A c, a : a \in audits /\ Vouches(a, c) => Vouches(a, c)'
           /\ \A c, a, s : a \in audits /\ Earned(s, calls[a.call]) => Earned(s, calls'[a.call])
           /\ \A c, d : Carries(c, d) => \A a : Vouches(a, c) => Vouches(a, d)
  <1>1. \A a \in audits : Carries(calls[a.call], calls'[a.call])
    BY DEF AuditInv
  <1>. QED  BY <1>1 DEF Carries, Vouches, Earned, KeyScope, fingerprint, SameRequest

LEMMA AuditGoesOn ==
    ASSUME ReplayInv, AuditInv, NEW i \in 1..MaxCalls, calls[i].st # "unsent",
           NEW d, calls' = [calls EXCEPT ![i] = d], Carries(calls[i], d),
           audits \subseteq audits', \A a \in audits' : a \in audits \/ a.call = i,
           d.st = "remember" => Success(i) \in audits',
           d.replayed => d.st = "done",
           d.st = "done" /\ d.answer = "ok" =>
               IF d.replayed THEN \E a \in audits : Vouches(a, calls[i])
               ELSE Has(d.route, "audit") => Success(i) \in audits',
           \A s \in store' : s \in store \/ (Success(i) \in audits /\ Earned(s, calls[i]))
    PROVE  AuditInv'
  <1>1. /\ calls' = [j \in 1..MaxCalls |-> calls'[j]] /\ calls'[i] = d
        /\ \A j \in 1..MaxCalls : j # i => calls'[j] = calls[j]
    BY DEF ReplayInv
  <1>2. \A j \in 1..MaxCalls : calls[j].st # "unsent" => Carries(calls[j], calls'[j])
    BY <1>1 DEF ReplayInv, Unsent
  <1>3. /\ \A a \in audits : calls'[a.call].st # "unsent"
        /\ \A c, a : a \in audits /\ Vouches(a, c) => Vouches(a, c)'
        /\ \A a, s : a \in audits /\ Earned(s, calls[a.call]) => Earned(s, calls'[a.call])
        /\ \A c, e : Carries(c, e) => \A a : Vouches(a, c) => Vouches(a, e)
    BY <1>1, <1>2, AuditsKept
  <1>4. \A a \in audits' : a.call \in 1..MaxCalls /\ calls'[a.call].st # "unsent"
    BY <1>1, <1>3 DEF AuditInv, Carries
  <1>5. \A j \in 1..MaxCalls : calls'[j].st = "remember" => Success(j) \in audits'
    BY <1>1 DEF AuditInv
  <1>6. \A j \in 1..MaxCalls : calls'[j].st # "unsent" /\ calls'[j].replayed => calls'[j].st = "done"
    BY <1>1 DEF AuditInv
  <1>7. ASSUME NEW j \in 1..MaxCalls, calls'[j].st = "done", calls'[j].answer = "ok"
        PROVE  IF calls'[j].replayed THEN \E a \in audits' : Vouches(a, calls[j])'
               ELSE Has(calls'[j].route, "audit") => Success(j) \in audits'
    <2>1. CASE j = i
      <3>1. CASE d.replayed
        <4>1. PICK a \in audits : Vouches(a, calls[i])
          BY <1>1, <1>7, <2>1, <3>1
        <4>2. Vouches(a, d)
          BY <1>3, <4>1
        <4>3. Vouches(a, d)'
          BY <1>3, <4>2
        <4>. QED  BY <1>1, <2>1, <3>1, <4>3 DEF Vouches
      <3>2. CASE ~d.replayed
        BY <1>1, <1>7, <2>1, <3>2
      <3>. QED  BY <3>1, <3>2
    <2>2. CASE j # i
      <3>1. calls'[j] = calls[j]
        BY <1>1, <2>2
      <3>2. CASE calls[j].replayed
        <4>1. PICK a \in audits : Vouches(a, calls[j])
          BY <1>7, <3>1, <3>2 DEF AuditInv
        <4>2. Vouches(a, calls[j])'
          BY <1>3, <3>1, <4>1 DEF Vouches
        <4>. QED  BY <3>1, <3>2, <4>2
      <3>3. CASE ~calls[j].replayed
        BY <1>7, <3>1, <3>3 DEF AuditInv
      <3>. QED  BY <3>2, <3>3
    <2>. QED  BY <2>1, <2>2
  <1>8. ASSUME NEW s \in store' PROVE \E a \in audits' : a.outcome = "success" /\ Earned(s, calls'[a.call])
    <2>1. \E a \in audits : a.outcome = "success" /\ Earned(s, calls[a.call])
      <3>1. Success(i).outcome = "success" /\ Success(i).call = i
        BY DEF Success
      <3>. QED  BY <1>8, <3>1 DEF AuditInv
    <2>. QED  BY <1>3, <2>1
  <1>. QED  BY <1>4, <1>5, <1>6, <1>7, <1>8 DEF AuditInv, Success

LEMMA ServeAudited ==
    ASSUME ReplayInv, AuditInv, NEW i \in 1..MaxCalls, calls[i].st # "unsent",
           NEW d, calls' = [calls EXCEPT ![i] = d], Proceeds(i, calls[i], d)
    PROVE  AuditInv'
  <1>. DEFINE c == calls[i]
  <1>1. Carries(c, d)
    BY DEF Proceeds, Returns, Fails, Refused, Replayed, Admitted, ReadsBase, Does, Audits, Saves, Same
  <1>2. c.replayed => c.st = "done"
    BY DEF AuditInv
  <1>3. ASSUME NEW s \in store, Earned(s, c) PROVE \E a \in audits : Vouches(a, c)
    BY <1>3, SameScope DEF AuditInv, Vouches
  <1>4. CASE Returns(c, d) \/ Fails(c, d) \/ Admitted(c, d) \/ ReadsBase(c, d)
    <2>1. UNCHANGED <<audits, store>> /\ d.replayed = c.replayed /\ c.st # "done" /\ d.st # "remember" /\ (d.st = "done" => d.answer # "ok")
      BY <1>4 DEF Returns, Fails, Admitted, ReadsBase, Tables
    <2>. QED  BY <1>1, <1>2, <2>1, AuditGoesOn
  <1>5. CASE Refused(i, c, d)
    BY <1>1, <1>2, <1>5, AuditGoesOn DEF Refused
  <1>6. CASE Replayed(c, d)
    <2>1. UNCHANGED <<audits, store>> /\ d.st = "done" /\ (~d.replayed => d.answer # "ok")
      BY <1>6 DEF Replayed, Tables
    <2>2. d.replayed => \E a \in audits : Vouches(a, c)
      BY <1>3, <1>6 DEF Replayed
    <2>. QED  BY <1>1, <2>1, <2>2, AuditGoesOn
  <1>7. CASE Does(i, c, d)
    <2>1. UNCHANGED <<audits, store>> /\ d.replayed = c.replayed /\ c.st = "act" /\ d.st = Then(c) /\ d.route = c.route
      BY <1>7 DEF Does, Same, Carries
    <2>. QED  BY <1>1, <1>2, <2>1, AuditGoesOn DEF Then
  <1>8. CASE Audits(i, c, d)
    <2>1. /\ audits' = audits \cup {Success(i)} /\ UNCHANGED store /\ d.replayed = c.replayed /\ c.st = "audit" /\ d.st \in {"remember", "done"}
          /\ Success(i).call = i
      BY <1>8 DEF Audits, Success
    <2>. QED  BY <1>1, <1>2, <2>1, AuditGoesOn
  <1>9. CASE Saves(c, d)
    <2>1. /\ UNCHANGED audits /\ d.replayed = c.replayed /\ c.st = "remember" /\ d.st = "done" /\ Success(i) \in audits
          /\ \A s \in store' : s \in store \/ Earned(s, c)
      BY <1>9 DEF Saves, AuditInv
    <2>. QED  BY <1>1, <1>2, <2>1, AuditGoesOn
  <1>. QED  BY <1>4, <1>5, <1>6, <1>7, <1>8, <1>9 DEF Proceeds

LEMMA SendAudited ==
    ASSUME ReplayInv, AuditInv, NEW i \in 1..MaxCalls, calls[i].st = "unsent", NEW d, calls' = [calls EXCEPT ![i] = d],
           d \in Fields(d), d.st \in {"enter", "fetch"}, d.replayed = FALSE, UNCHANGED <<audits, store>>
    PROVE  AuditInv'
  <1>1. /\ calls' = [j \in 1..MaxCalls |-> calls'[j]] /\ calls'[i] = d
        /\ \A j \in 1..MaxCalls : j # i => calls'[j] = calls[j]
    BY DEF ReplayInv
  <1>2. \A a \in audits : calls'[a.call] = calls[a.call]
    BY <1>1 DEF AuditInv
  <1>. QED  BY <1>1, <1>2 DEF AuditInv, Vouches, Success

LEMMA RestartAudited ==
    ASSUME ReplayInv, AuditInv, Restart
    PROVE  AuditInv'
  <1>1. /\ calls' = [i \in 1..MaxCalls |-> calls'[i]] /\ UNCHANGED audits /\ store' = {}
        /\ \A i \in 1..MaxCalls : calls'[i] = IF calls[i].st \in InFlight THEN [calls[i] EXCEPT !.st = "lost"] ELSE calls[i]
    BY DEF Restart
  <1>2. ASSUME NEW i \in 1..MaxCalls
        PROVE  /\ calls[i].st = "unsent" => calls'[i].st = "unsent"
               /\ calls[i].st # "unsent" => Carries(calls[i], calls'[i]) /\ calls'[i].replayed = calls[i].replayed
               /\ calls'[i].st = "lost" \/ calls'[i] = calls[i]
               /\ calls[i].st = "done" => calls'[i] = calls[i]
    <2>1. CASE calls[i].st \notin InFlight
      BY <1>1, <2>1 DEF ReplayInv, Unsent
    <2>2. CASE calls[i].st \in InFlight
      <3>1. calls[i].st # "unsent" /\ calls[i].st # "done"
        BY <2>2 DEF InFlight
      <3>2. calls[i] \in Fields(calls[i]) /\ calls'[i] = [calls[i] EXCEPT !.st = "lost"]
        BY <1>1, <2>2, <3>1, KnownRequest
      <3>. QED  BY <3>1, <3>2 DEF Fields, Carries
    <2>. QED  BY <2>1, <2>2
  <1>3. /\ \A a \in audits : calls'[a.call].st # "unsent"
        /\ \A c, a : a \in audits /\ Vouches(a, c) => Vouches(a, c)'
    BY <1>1, <1>2, AuditsKept
  <1>4. ASSUME NEW i \in 1..MaxCalls PROVE calls'[i].st # "unsent" /\ calls'[i].replayed => calls'[i].st = "done"
    <2>1. calls[i].st # "unsent" /\ calls[i].replayed => calls[i].st = "done"
      BY DEF AuditInv
    <2>. QED  BY <1>2, <2>1
  <1>5. ASSUME NEW i \in 1..MaxCalls, calls'[i].st = "done", calls'[i].answer = "ok"
        PROVE  IF calls'[i].replayed THEN \E a \in audits' : Vouches(a, calls[i])'
               ELSE Has(calls'[i].route, "audit") => Success(i) \in audits'
    <2>1. calls'[i] = calls[i]
      BY <1>2, <1>5
    <2>2. IF calls[i].replayed THEN \E a \in audits : Vouches(a, calls[i])
          ELSE Has(calls[i].route, "audit") => Success(i) \in audits
      BY <1>5, <2>1 DEF AuditInv
    <2>. QED  BY <1>1, <1>3, <2>1, <2>2 DEF Vouches
  <1>6. \A i \in 1..MaxCalls : calls'[i].st = "remember" => Success(i) \in audits'
    BY <1>1, <1>2 DEF AuditInv
  <1>7. \A a \in audits' : a.call \in 1..MaxCalls /\ calls'[a.call].st # "unsent"
    BY <1>1, <1>3 DEF AuditInv
  <1>. QED  BY <1>1, <1>4, <1>5, <1>6, <1>7 DEF AuditInv, Success

LEMMA RestartServed ==
    ASSUME ReplayInv, NEW people, ServedInv(people), Restart
    PROVE  ServedInv(people)'
  <1>1. /\ UNCHANGED <<acts, rows>>
        /\ \A i \in 1..MaxCalls : calls'[i] = IF calls[i].st \in InFlight THEN [calls[i] EXCEPT !.st = "lost"] ELSE calls[i]
    BY DEF Restart
  <1>2. ASSUME NEW i \in 1..MaxCalls
        PROVE  /\ calls'[i] = calls[i] \/ calls'[i].st = "lost"
               /\ calls[i].st # "unsent" => Same(calls[i], calls'[i])
               /\ calls[i].st = "unsent" => calls'[i] = calls[i]
               /\ calls[i].st \in Acted => calls'[i].st \in Acted
    <2>1. CASE calls[i].st \notin InFlight
      <3>1. calls'[i] = calls[i]
        BY <1>1, <2>1
      <3>2. calls[i].st # "unsent" => Same(calls[i], calls[i])
        BY DEF ReplayInv, Unsent, Same
      <3>. QED  BY <3>1, <3>2
    <2>2. CASE calls[i].st \in InFlight
      <3>1. calls[i].st # "unsent" /\ calls[i].st # "done"
        BY <2>2 DEF InFlight
      <3>2. calls[i] \in Fields(calls[i]) /\ calls'[i] = [calls[i] EXCEPT !.st = "lost"]
        BY <1>1, <2>2, <3>1, KnownRequest
      <3>. QED  BY <3>1, <3>2 DEF Fields, Carries, Same, Req, Acted
    <2>. QED  BY <2>1, <2>2
  <1>3. (\A n \in DOMAIN acts : TrueAct(n) /\ RowKept(n))' /\ KeyedOnce'
    <2>1. \A j \in 1..MaxCalls : calls[j].st \in Acted => Same(calls[j], calls'[j]) /\ calls'[j].st \in Acted
      BY <1>2 DEF Acted
    <2>. QED  BY <1>1, <2>1, ActsStay
  <1>4. \A j \in 1..MaxCalls : calls'[j].st # "unsent" => FromPeople(people, calls'[j])
    BY <1>2 DEF ServedInv, Same, Carries, FromPeople
  <1>5. \A j \in 1..MaxCalls : calls'[j].st \in {"base", "act"} => Verdict(calls'[j]) = "in"
    BY <1>2 DEF ServedInv
  <1>6. \A j \in 1..MaxCalls : calls'[j].st \notin {"unsent", "enter", "fetch", "lost"} => Right(calls'[j])
    BY <1>2 DEF ServedInv
  <1>. QED  BY <1>3, <1>4, <1>5, <1>6 DEF ServedInv

-----------------------------------------------------------------------------
(* All the parts together, in every run.                                     *)

RequestsInv(people) == ReplayInv /\ ServedInv(people) /\ AuditInv

LEMMA RequestsStart == ASSUME NEW people, RqInit PROVE RequestsInv(people)
  <1>1. ReplayInv
    BY ReplayStart
  <1>2. DOMAIN acts = {} /\ store = {} /\ audits = {} /\ \A i \in 1..MaxCalls : calls[i].st = "unsent"
    BY DEF RqInit, Unsent
  <1>3. ServedInv(people)
    BY <1>2 DEF ServedInv, KeyedOnce
  <1>4. AuditInv
    BY <1>2 DEF AuditInv
  <1>. QED  BY <1>1, <1>3, <1>4 DEF RequestsInv

LEMMA SendGoesOn ==
    ASSUME NEW people, RequestsInv(people), NEW i \in 1..MaxCalls, calls[i].st = "unsent",
           NEW r \in Routes, NEW in \in Inputs(r, people), NEW how, NEW st \in {"enter", "fetch"},
           calls' = [calls EXCEPT ![i] = Sent(r, how, in, st)], UNCHANGED Tables
    PROVE  RequestsInv(people)'
  <1>. PICK d : d = Sent(r, how, in, st)
    OBVIOUS
  <1>1. d \in Fields(d) /\ d.st = st /\ d.replayed = FALSE /\ calls' = [calls EXCEPT ![i] = d]
    BY DEF Sent, Fields
  <1>2. ReplayInv /\ ServedInv(people) /\ AuditInv /\ UNCHANGED <<acts, rows, store, audits>>
    BY DEF RequestsInv, Tables
  <1>3. ReplayInv'
    BY <1>2, SendEarns
  <1>4. ServedInv(people)'
    BY <1>2, SendServed
  <1>5. AuditInv'
    BY <1>1, <1>2, SendAudited
  <1>. QED  BY <1>3, <1>4, <1>5 DEF RequestsInv

LEMMA RequestsStep ==
    ASSUME NEW people, RequestsInv(people), [RqNext(people)]_rqVars
    PROVE  RequestsInv(people)'
  <1>1. ReplayInv /\ ServedInv(people) /\ AuditInv
    BY DEF RequestsInv
  <1>2. ASSUME NEW i \in 1..MaxCalls, NEW r \in Routes, NEW in \in Inputs(r, people), Send(i, r, in)
        PROVE  RequestsInv(people)'
    BY <1>2, SendGoesOn DEF Send, MaySend, Tables
  <1>3. ASSUME NEW i \in 1..MaxCalls, NEW cmd \in Commands, NEW in \in Inputs(cmd.route, people), Run(i, cmd, in)
        PROVE  RequestsInv(people)'
    <2>. DEFINE how == cmd.how \cup {"cli"}
                st == IF "fetch" \in cmd.how THEN "fetch" ELSE "enter"
    <2>1. /\ calls' = [calls EXCEPT ![i] = Sent(cmd.route, how, in, st)] /\ UNCHANGED Tables
          /\ st \in {"enter", "fetch"} /\ calls[i].st = "unsent"
      BY <1>3 DEF Run, MaySend, Tables
    <2>2. cmd.route \in Routes
      BY CommandRoutes
    <2>. HIDE DEF how, st
    <2>. QED  BY <2>1, <2>2, SendGoesOn
  <1>4. ASSUME NEW i \in 1..MaxCalls,
               \/ Fetch(i) \/ Enter(i) \/ RefreshToken(i) \/ Perform(i) \/ NumberTaken(i)
               \/ ReadBase(i) \/ Merge(i) \/ Overwrite(i) \/ record_audit(i) \/ Remember(i)
        PROVE  RequestsInv(people)'
    <2>1. PICK d : calls' = [calls EXCEPT ![i] = d] /\ Proceeds(i, calls[i], d)
      BY <1>1, <1>4, ServeGoes
    <2>2. calls[i].st # "unsent"
      BY <1>1, <1>4, ServeGoes
    <2>3. ReplayInv'
      BY <1>1, <1>4, EnterEarns, ServeEarns
    <2>4. ServedInv(people)'
      BY <1>1, <2>1, <2>2, QuietServed, ServedDoes
    <2>5. AuditInv'
      BY <1>1, <2>1, <2>2, ServeAudited
    <2>. QED  BY <2>3, <2>4, <2>5 DEF RequestsInv
  <1>5. CASE Restart
    BY <1>1, <1>5, RestartForgets, RestartServed, RestartAudited DEF RequestsInv
  <1>6. CASE TokenChanges \/ UNCHANGED rqVars
    <2>1. UNCHANGED <<calls, rows, acts, store, audits>>
      BY <1>6 DEF TokenChanges, rqVars
    <2>2. ReplayInv'
      BY <1>1, <2>1 DEF ReplayInv, Did
    <2>3. ServedInv(people)'
      BY <1>1, <2>1 DEF ServedInv, TrueAct, RowKept, Removed, RowThere, KeyedOnce
    <2>4. AuditInv'
      BY <1>1, <2>1 DEF AuditInv, Vouches, Success
    <2>. QED  BY <2>2, <2>3, <2>4 DEF RequestsInv
  <1>. QED  BY <1>2, <1>3, <1>4, <1>5, <1>6 DEF RqNext, Serve

LEMMA AnsweredIsAudited ==
    ASSUME NEW people, RequestsInv(people)
    PROVE  AuditedFirst
  <1>. SUFFICES ASSUME NEW i \in 1..MaxCalls, calls[i].st = "done", calls[i].answer = "ok",
                       calls[i].route.face \in {"api", "worker"}, calls[i].route.does \notin {"read", "end"},
                       calls[i].route # heartbeat_job
                PROVE  \E a \in audits : /\ a.outcome = "success"
                                         /\ a.call = i \/ (calls[i].replayed /\ SameRequest(calls[i], calls[a.call]))
    BY DEF AuditedFirst, Done
  <1>1. calls[i].route \in Routes
    BY DEF RequestsInv, ServedInv, FromPeople
  <1>2. Has(calls[i].route, "audit")
    BY <1>1, TableListed DEF Listed
  <1>3. CASE calls[i].replayed
    BY <1>3 DEF RequestsInv, AuditInv, Vouches
  <1>4. CASE ~calls[i].replayed
    BY <1>2, <1>4 DEF RequestsInv, AuditInv, Success
  <1>. QED  BY <1>3, <1>4

LEMMA Confined ==
    ASSUME NEW people, RequestsInv(people)
    PROVE  ConfinedToCompetition
  <1>. SUFFICES ASSUME NEW n \in DOMAIN acts, NEW c, c = calls[acts[n].call], c.route.perm \in CompetitionPermission,
                       ~(c.route.res = "competition" /\ c.route.verb \in {"new", "create"}), NEW k \in acts[n].comps
                PROVE  \/ \E r \in c.who.system_roles : c.route.perm \in ROLE_PERMISSIONS[r]
                       \/ k \in Joined(c.who) /\ c.route.perm \in ROLE_PERMISSIONS[c.who.memberships[k].role]
    BY DEF ConfinedToCompetition
  <1>1. acts[n].call \in 1..MaxCalls /\ c.st \in Acted /\ Verdict(c) = "in" /\ k \in CompetitionsShown(c)
    BY DEF RequestsInv, ReplayInv, ServedInv, TrueAct
  <1>2. c.route \in Routes
    BY <1>1 DEF RequestsInv, ServedInv, FromPeople, Acted
  <1>3. c.route.gate \in {"competition", "hidden", "any", "filter"}
    BY <1>2, TableListed DEF Listed
  <1>4. Permitted(c)
    BY <1>1, Within
  <1>5. CASE c.route.gate \in {"any", "filter"}
    BY <1>1, <1>5 DEF CompetitionsShown, authorized_competitions, resolve_permissions
  <1>6. CASE c.route.gate \in {"competition", "hidden"}
    <2>1. k = c.comp /\ c.route.perm \in competition_permissions(c.who, c.comp)
      BY <1>1, <1>4, <1>6 DEF CompetitionsShown, Permitted, assert_competition_permission
    <2>. QED  BY <2>1 DEF competition_permissions, competition_effective_roles, resolve_permissions
  <1>. QED  BY <1>3, <1>5, <1>6

\* Teams are rows of a table: none of them is the mark of an unconfined caller.
TeamsNamed(people) == \A p \in people : \A k \in Joined(p) : p.memberships[k].team # "any"

LEMMA TeamsOwn ==
    ASSUME NEW people, RequestsInv(people), TeamsNamed(people)
    PROVE  OwnTeam
  <1>. SUFFICES ASSUME NEW n \in DOMAIN acts, NEW c, c = calls[acts[n].call], c.route.res = "submission", c.route.verb # "form",
                       c.who.system_roles \cap TENANCY_UNRESTRICTED_ROLES = {}, c.comp \in Joined(c.who),
                       c.who.memberships[c.comp].role \in {"player", "captain"}
                PROVE  acts[n].teams \subseteq {c.who.memberships[c.comp].team}
    BY DEF OwnTeam
  <1>1. acts[n].call \in 1..MaxCalls /\ c.st \in Acted /\ Verdict(c) = "in" /\ acts[n].teams = TeamsShown(c)
    BY DEF RequestsInv, ReplayInv, ServedInv, TrueAct
  <1>2. c.route \in Routes /\ c.who \in people
    BY <1>1 DEF RequestsInv, ServedInv, FromPeople, Acted
  <1>3. c.who.memberships[c.comp].role \notin TENANCY_UNRESTRICTED_ROLES
    BY DEF TENANCY_UNRESTRICTED_ROLES
  <1>4. competition_effective_roles(c.who, c.comp) \cap TENANCY_UNRESTRICTED_ROLES = {}
    BY <1>3 DEF competition_effective_roles
  <1>5. Place(c) = c.who.memberships[c.comp].team /\ Place(c) # "any"
    BY <1>2, <1>4 DEF Place, submission_team_scope, TeamsNamed
  <1>6. c.route = get_submission => c.team = Place(c)
    BY <1>1, <1>5, Within DEF RowOfOwnTeam
  <1>7. c.route = submit_answer => c.team = Place(c)
    BY <1>1, <1>5, Within DEF OwnTeamNamed, submit_answer, Api, Has
  <1>. QED  BY <1>1, <1>5, <1>6, <1>7 DEF TeamsShown

LEMMA FacesAgree ==
    ASSUME NEW people, RequestsInv(people)
    PROVE  InterfacesAgree
  <1>. SUFFICES ASSUME NEW i \in 1..MaxCalls, NEW j \in 1..MaxCalls, NEW c, c = calls[i], NEW d, d = calls[j],
                       c.st = "done", d.st = "done", c.route.res = d.route.res, c.route.verb = d.route.verb,
                       c.route.face # d.route.face, c.route.res = "report" => c.route.perm = d.route.perm,
                       c.who = d.who, c.comp = d.comp
                PROVE  c.entered = d.entered
    BY DEF InterfacesAgree, Done
  <1>1. Right(c) /\ Right(d) /\ c.route \in Routes /\ d.route \in Routes
    BY DEF RequestsInv, ServedInv, FromPeople
  <1>2. Agreed(c.route) /\ Agreed(d.route)
    BY <1>1, TableListed DEF Listed
  <1>3. Reach(c.route.gate) = Reach(d.route.gate) /\ c.route.perm = d.route.perm
    BY <1>2 DEF Agreed
  <1>4. Permitted(c) <=> Permitted(d)
    BY <1>3 DEF Reach, Permitted, require_permission, assert_competition_permission, require_any_competition_permission
  <1>. QED  BY <1>1, <1>4 DEF Right

\* For any people of named teams, any requests and through restarts of the server:
\* a keyed request writes once, a remembered answer goes to its own request, a
\* change is audited before it is confirmed, a permission reaches no other
\* competition and a contestant no other team.
THEOREM RequestsSafeHolds ==
    ASSUME NEW CONSTANT people, TeamsNamed(people)
    PROVE  RqSpec(people) => []RequestsSafe
  <1>1. RqInit => RequestsInv(people)
    BY RequestsStart
  <1>2. RequestsInv(people) /\ [RqNext(people)]_rqVars => RequestsInv(people)'
    BY RequestsStep
  <1>3. RequestsInv(people) => RequestsSafe
    <2>1. RequestsInv(people) => KeyedOnce /\ ReplayFaithful
      BY DEF RequestsInv, ServedInv, ReplayInv, ReplayFaithful, Done
    <2>. QED  BY <2>1, AnsweredIsAudited, Confined, TeamsOwn DEF RequestsSafe
  <1>. QED  BY <1>1, <1>2, <1>3, PTL DEF RqSpec

\* For any people and any requests: an operation that the API and the web pages
\* both offer lets the same people in.
THEOREM InterfacesAgreeHolds ==
    ASSUME NEW CONSTANT people
    PROVE  RqSpec(people) => []InterfacesAgree
  <1>1. RqInit => RequestsInv(people)
    BY RequestsStart
  <1>2. RequestsInv(people) /\ [RqNext(people)]_rqVars => RequestsInv(people)'
    BY RequestsStep
  <1>3. RequestsInv(people) => InterfacesAgree
    BY FacesAgree
  <1>. QED  BY <1>1, <1>2, <1>3, PTL DEF RqSpec

-----------------------------------------------------------------------------
(* The edge.  The rate limiter: what a bucket holds is weighed against the   *)
(* time of its last check, which may be before that of an earlier one, so    *)
(* tokens can be negative; what a peer was let in for and what its bucket    *)
(* still holds is never more than the burst and what has flowed in by then.  *)

LimTypeOK ==
    /\ trust \in BOOLEAN
    /\ DOMAIN bucket \subseteq Peer \cup Forwarded
    /\ \A k \in DOMAIN bucket : bucket[k] = [tokens |-> bucket[k].tokens, last |-> bucket[k].last]
                                /\ bucket[k].tokens \in Int /\ bucket[k].last \in Nat
    /\ limNow \in Nat
    /\ admitted \in [Peer -> Nat]
    /\ \A t \in LimThread : \/ serving[t] = IdleThread
                            \/ /\ serving[t].pc = "check" /\ serving[t].at \in 0..limNow
                               /\ serving[t].peer \in Peer
                               /\ serving[t].key \in Peer \cup Forwarded
                               /\ ~trust => serving[t].key = serving[t].peer

\* What a key may still ask for, counted from the time of its last check.
Debt ==
    \A k \in DOMAIN bucket :
        /\ bucket[k].tokens <= Burst
        /\ bucket[k].tokens + Rate * (limNow - bucket[k].last) >= 0
Spent ==
    ~trust => \A p \in Peer :
        IF p \in DOMAIN bucket THEN admitted[p] * Cost + bucket[p].tokens <= Burst + Rate * bucket[p].last
        ELSE admitted[p] = 0
Waits ==
    \A k \in DOMAIN refusal : /\ k \in DOMAIN bucket
                              /\ bucket[k].tokens < Cost
                              /\ refusal[k] = bucket[k].last + _retry_after(bucket[k].tokens)
LimInv == LimTypeOK /\ Debt /\ Spent /\ Waits

LEMMA DivisionWithRest == ASSUME NEW n \in Nat, NEW d \in Nat \ {0}
    PROVE n \div d \in Nat /\ n % d \in 0..(d - 1) /\ n = d * (n \div d) + (n % d)
OBVIOUS

LEMMA RetryEnough == ASSUME NEW x \in Int, x < Cost
    PROVE /\ _retry_after(x) \in Nat /\ x + _retry_after(x) * Rate >= Cost
<1> DEFINE n == Cost - x + Rate - 1
           q == n \div Rate
<1>1. Rate \in Nat \ {0} /\ Cost \in Nat BY EdgeAssumption
<1>2. n \in Nat BY <1>1
<1>3. q \in Nat /\ n % Rate \in 0..(Rate - 1) /\ n = Rate * q + (n % Rate) BY <1>1, <1>2, DivisionWithRest
<1>4. Rate * q >= Cost - x BY <1>1, <1>2, <1>3
<1>5. q >= 1
  <2>1. SUFFICES ASSUME q = 0 PROVE FALSE BY <1>3
  <2>2. Rate * q = 0 BY <2>1, <1>1
  <2> QED BY <2>2, <1>4, <1>1
<1>6. Max({1, q}) = q BY <1>5, <1>3 DEF Max
<1> QED BY <1>1, <1>3, <1>4, <1>6 DEF _retry_after

LEMMA LimInit == EdgeInit => LimInv
BY EdgeAssumption DEF EdgeInit, LimInv, LimTypeOK, Debt, Spent, Waits, IdleThread

\* The three numbers of a check.
LEMMA RefilledFacts == ASSUME LimInv, NEW k, NEW now \in 0..limNow
    PROVE LET x == Refilled(k, now) IN
          /\ x \in Int /\ x <= Burst
          /\ x + Rate * (limNow - now) >= 0
          /\ ~trust /\ k \in Peer => admitted[k] * Cost + x <= Burst + Rate * now
<1> DEFINE x == Refilled(k, now)
<1>0. Rate \in Nat \ {0} /\ Cost \in Nat /\ Burst \in Nat /\ limNow \in Nat /\ now \in Nat /\ now <= limNow
  BY EdgeAssumption DEF LimInv, LimTypeOK
<1>a. Rate * (limNow - now) >= 0 /\ Rate * now >= 0 /\ Rate * now \in Int /\ Rate * limNow \in Int
      /\ Rate * (limNow - now) = Rate * limNow - Rate * now
  BY <1>0
<1>b. ASSUME k \in Peer PROVE admitted[k] * Cost \in Int
  BY <1>0, <1>b DEF LimInv, LimTypeOK
<1>1. CASE k \notin DOMAIN bucket
  <2>1. x = Burst BY <1>1, <1>0 DEF Refilled
  <2>2. ASSUME ~trust, k \in Peer PROVE admitted[k] * Cost + x <= Burst + Rate * now
    BY <2>1, <2>2, <1>1, <1>0, <1>a DEF LimInv, Spent
  <2> QED BY <2>1, <2>2, <1>a, <1>0
<1>2. CASE k \in DOMAIN bucket
  <2> DEFINE o == bucket[k].tokens
             l == bucket[k].last
  <2>1. o \in Int /\ l \in Nat /\ o <= Burst /\ o + Rate * (limNow - l) >= 0 BY <1>2 DEF LimInv, LimTypeOK, Debt
  <2>2. Rate * (limNow - l) = Rate * limNow - Rate * l /\ (now - l) * Rate = Rate * now - Rate * l
        /\ Rate * l \in Int BY <2>1, <1>0
  <2>3. x = IF o + (now - l) * Rate < Burst THEN o + (now - l) * Rate ELSE Burst BY <1>2 DEF Refilled
  <2>4. ASSUME ~trust, k \in Peer PROVE admitted[k] * Cost + o <= Burst + Rate * l
    BY <1>2, <2>4 DEF LimInv, Spent
  <2> HIDE DEF o, l, x
  <2>5. x \in Int /\ x <= Burst /\ x <= o + Rate * now - Rate * l
        /\ (x = Burst \/ x = o + Rate * now - Rate * l) BY <2>1, <2>2, <2>3, <1>0, <1>a
  <2>6. x + Rate * (limNow - now) >= 0 BY <2>1, <2>2, <2>5, <1>0, <1>a
  <2>7. ASSUME ~trust, k \in Peer PROVE admitted[k] * Cost + x <= Burst + Rate * now
    BY <2>4, <2>7, <2>1, <2>2, <2>5, <1>0, <1>a, <1>b
  <2> QED BY <2>5, <2>6, <2>7 DEF x
<1> QED BY <1>1, <1>2

LEMMA OneMore == ASSUME NEW a \in Nat, NEW c \in Nat PROVE a * c \in Nat /\ (a + 1) * c = a * c + c
OBVIOUS

LEMMA CheckKeepsLim == ASSUME LimInv, NEW t \in LimThread, check(t) PROVE LimInv'
<1> USE DEF LimInv
<1> DEFINE k == serving[t].key
           now == serving[t].at
           x == Refilled(k, now)
<1>0. Rate \in Nat \ {0} /\ Cost \in Nat /\ Burst \in Nat /\ Cost <= Burst BY EdgeAssumption
<1>1. /\ now \in 0..limNow /\ k \in Peer \cup Forwarded /\ serving[t].peer \in Peer
      /\ ~trust => k = serving[t].peer
  BY DEF check, LimTypeOK, IdleThread
<1>2. /\ x \in Int /\ x <= Burst
      /\ x + Rate * (limNow - now) >= 0
      /\ ~trust /\ k \in Peer => admitted[k] * Cost + x <= Burst + Rate * now
  BY <1>1, RefilledFacts
<1>3. /\ trust' = trust /\ limNow' = limNow /\ serving' = [serving EXCEPT ![t] = IdleThread] BY DEF check
<1>4. /\ limNow \in Nat /\ now \in Nat /\ now <= limNow BY <1>1 DEF LimTypeOK
<1>a. Rate * (limNow - now) \in Nat BY <1>0, <1>4
<1>5. CASE x >= Cost
  <2>1. /\ bucket' = With(bucket, k, [tokens |-> x - Cost, last |-> now])
        /\ admitted' = [admitted EXCEPT ![serving[t].peer] = @ + 1]
        /\ refusal' = Without(refusal, k)
    BY <1>5 DEF check
  <2> HIDE DEF x
  <2>2. /\ DOMAIN bucket' = DOMAIN bucket \cup {k} /\ bucket'[k] = [tokens |-> x - Cost, last |-> now]
        /\ \A j \in DOMAIN bucket : j # k => bucket'[j] = bucket[j]
    BY <2>1 DEF With
  <2>3. LimTypeOK'
    BY <1>0, <1>1, <1>2, <1>3, <1>4, <2>1, <2>2 DEF LimTypeOK
  <2>4. Debt'
    <3>1. x - Cost + Rate * (limNow - now) >= 0 BY <1>5, <1>2, <1>0, <1>a
    <3>2. x - Cost <= Burst BY <1>2, <1>0
    <3> QED BY <3>1, <3>2, <1>3, <2>2 DEF Debt
  <2>5. Spent'
    <3> SUFFICES ASSUME ~trust, NEW p \in Peer
                 PROVE IF p \in DOMAIN bucket'
                       THEN admitted'[p] * Cost + bucket'[p].tokens <= Burst + Rate * bucket'[p].last
                       ELSE admitted'[p] = 0
      BY <1>3 DEF Spent
    <3>1. CASE p = k
      <4>1. admitted'[p] = admitted[k] + 1 /\ admitted[k] \in Nat BY <3>1, <2>1, <1>1 DEF LimTypeOK
      <4>a. PICK a \in Nat : a = admitted[k] BY <4>1
      <4>b. a * Cost \in Nat /\ (a + 1) * Cost = a * Cost + Cost BY <1>0, OneMore
      <4>2. admitted[k] * Cost \in Int /\ (admitted[k] + 1) * Cost = admitted[k] * Cost + Cost
        BY <4>a, <4>b
      <4>3. Rate * now \in Int BY <1>0, <1>4
      <4>4. admitted[k] * Cost + x <= Burst + Rate * now BY <1>2, <3>1
      <4>5. admitted[k] * Cost + Cost + (x - Cost) <= Burst + Rate * now BY <4>2, <4>3, <4>4, <1>2, <1>0
      <4> QED BY <4>1, <4>2, <4>5, <3>1, <2>2
    <3>2. CASE p # k
      <4>1. admitted'[p] = admitted[p] BY <3>2, <2>1, <1>1 DEF LimTypeOK
      <4> QED BY <4>1, <3>2, <2>2 DEF Spent
    <3> QED BY <3>1, <3>2
  <2>6. Waits'
    BY <2>1, <2>2 DEF Waits, Without
  <2> QED BY <2>3, <2>4, <2>5, <2>6
<1>6. CASE ~(x >= Cost)
  <2>1. /\ bucket' = With(bucket, k, [tokens |-> x, last |-> now])
        /\ admitted' = admitted
        /\ refusal' = With(refusal, k, now + _retry_after(x))
    BY <1>6 DEF check
  <2> HIDE DEF x
  <2>2. /\ DOMAIN bucket' = DOMAIN bucket \cup {k} /\ bucket'[k] = [tokens |-> x, last |-> now]
        /\ \A j \in DOMAIN bucket : j # k => bucket'[j] = bucket[j]
    BY <2>1 DEF With
  <2>3. LimTypeOK'
    BY <1>0, <1>1, <1>2, <1>3, <1>4, <2>1, <2>2 DEF LimTypeOK
  <2>4. Debt'
    BY <1>3, <2>2, <1>2 DEF Debt
  <2>5. Spent'
    <3> SUFFICES ASSUME ~trust, NEW p \in Peer
                 PROVE IF p \in DOMAIN bucket'
                       THEN admitted'[p] * Cost + bucket'[p].tokens <= Burst + Rate * bucket'[p].last
                       ELSE admitted'[p] = 0
      BY <1>3 DEF Spent
    <3>1. CASE p = k BY <3>1, <1>2, <2>1, <2>2
    <3>2. CASE p # k BY <3>2, <2>1, <2>2 DEF Spent
    <3> QED BY <3>1, <3>2
  <2>6. Waits'
    <3>1. /\ DOMAIN refusal' = DOMAIN refusal \cup {k} /\ refusal'[k] = now + _retry_after(x)
          /\ \A j \in DOMAIN refusal : j # k => refusal'[j] = refusal[j]
      BY <2>1 DEF With
    <3>2. x < Cost BY <1>6, <1>2, <1>0
    <3> QED BY <3>1, <3>2, <2>2 DEF Waits
  <2> QED BY <2>3, <2>4, <2>5, <2>6
<1> QED BY <1>5, <1>6

LEMMA ArriveKeepsLim ==
    ASSUME LimInv, NEW t \in LimThread, NEW p \in Peer, NEW fwd \in Forwarded \cup {"none"}, Arrive(t, p, fwd)
    PROVE LimInv'
<1> USE DEF LimInv
<1>1. UNCHANGED <<trust, bucket, limNow, admitted, refusal>> BY DEF Arrive
<1>2. /\ _client_key(p, fwd) \in Peer \cup Forwarded
      /\ ~trust => _client_key(p, fwd) = p
  BY DEF _client_key, LimTypeOK
<1>3. serving' = [serving EXCEPT ![t] = [pc |-> "check", peer |-> p, key |-> _client_key(p, fwd), at |-> limNow]]
  BY DEF Arrive
<1>4. LimTypeOK' BY <1>1, <1>2, <1>3 DEF LimTypeOK
<1>5. Debt' /\ Spent' /\ Waits' BY <1>1 DEF Debt, Spent, Waits
<1> QED BY <1>4, <1>5

LEMMA TickKeepsLim == ASSUME LimInv, LimTick PROVE LimInv'
<1> USE DEF LimInv
<1>1. UNCHANGED <<trust, bucket, serving, admitted, refusal>> /\ limNow' = limNow + 1 BY DEF LimTick
<1>2. LimTypeOK' BY <1>1 DEF LimTypeOK
<1>3. Debt'
  <2> SUFFICES ASSUME NEW k \in DOMAIN bucket
               PROVE bucket[k].tokens + Rate * (limNow + 1 - bucket[k].last) >= 0
    BY <1>1 DEF Debt, LimTypeOK
  <2> DEFINE o == bucket[k].tokens
             l == bucket[k].last
  <2>1. o \in Int /\ l \in Nat /\ limNow \in Nat /\ o + Rate * (limNow - l) >= 0 BY DEF LimTypeOK, Debt
  <2>2. Rate \in Nat BY EdgeAssumption
  <2>3. Rate * (limNow + 1 - l) = Rate * (limNow - l) + Rate /\ Rate * (limNow - l) \in Int BY <2>1, <2>2
  <2> HIDE DEF o, l
  <2>4. o + Rate * (limNow + 1 - l) >= 0 BY <2>1, <2>2, <2>3
  <2> QED BY <2>4 DEF o, l
<1>4. Spent' /\ Waits' BY <1>1 DEF Spent, Waits
<1> QED BY <1>2, <1>3, <1>4

LEMMA LimitHolds == LimInv => LimitHeld
<1> SUFFICES ASSUME LimInv, ~trust, NEW p \in Peer PROVE admitted[p] * Cost <= Burst + Rate * limNow
  BY DEF LimitHeld
<1> USE DEF LimInv
<1>0. Rate \in Nat \ {0} /\ Cost \in Nat /\ Burst \in Nat /\ limNow \in Nat /\ admitted[p] \in Nat
  BY EdgeAssumption DEF LimTypeOK
<1>a. Rate * limNow >= 0 /\ Rate * limNow \in Int /\ admitted[p] * Cost \in Int BY <1>0
<1>1. CASE p \notin DOMAIN bucket
  <2>1. admitted[p] * Cost = 0 BY <1>1, <1>0 DEF Spent
  <2> QED BY <2>1, <1>0, <1>a
<1>2. CASE p \in DOMAIN bucket
  <2> DEFINE o == bucket[p].tokens
             l == bucket[p].last
  <2>1. o \in Int /\ l \in Nat /\ o + Rate * (limNow - l) >= 0 /\ admitted[p] * Cost + o <= Burst + Rate * l
    BY <1>2 DEF LimTypeOK, Debt, Spent
  <2>2. Rate * (limNow - l) = Rate * limNow - Rate * l /\ Rate * l \in Int BY <2>1, <1>0
  <2> HIDE DEF o, l
  <2> QED BY <2>1, <2>2, <1>0, <1>a
<1> QED BY <1>1, <1>2

LEMMA RetryIsEnough == LimInv => RetrySuffices
<1> SUFFICES ASSUME LimInv, NEW k \in DOMAIN refusal PROVE Refilled(k, refusal[k]) >= Cost
  BY DEF RetrySuffices
<1> USE DEF LimInv
<1> DEFINE o == bucket[k].tokens
           l == bucket[k].last
           r == _retry_after(o)
<1>0. Rate \in Nat \ {0} /\ Cost \in Nat /\ Burst \in Nat /\ Cost <= Burst BY EdgeAssumption
<1>1. k \in DOMAIN bucket /\ o \in Int /\ l \in Nat /\ o < Cost /\ refusal[k] = l + r BY DEF Waits, LimTypeOK
<1>2. r \in Nat /\ o + r * Rate >= Cost BY <1>1, RetryEnough
<1>3. Refilled(k, refusal[k]) = IF o + (refusal[k] - l) * Rate < Burst THEN o + (refusal[k] - l) * Rate ELSE Burst
  BY <1>1 DEF Refilled
<1> HIDE DEF o, l, r
<1>4. refusal[k] - l = r BY <1>1, <1>2
<1> QED BY <1>0, <1>2, <1>3, <1>4

-----------------------------------------------------------------------------
(* The list routes.  Induction over the naturals comes as a statement about  *)
(* sets, which the least element of the counterexamples proves.              *)

LEMMA LeastNatural == ASSUME NEW T, T \subseteq Nat, T # {} PROVE \E x \in T : \A y \in T : x <= y
<1> DEFINE R == OpToRel(<,Nat)
<1>1. IsWellFoundedOn(R, Nat) BY NatLessThanWellFounded
<1>2. \A x, y \in Nat : <<y,x>> \in R <=> y < x BY DEF OpToRel
<1> HIDE DEF R
<1>3. PICK x \in T : \A y \in T : ~ (<<y, x>> \in R) BY <1>1, WFMin
<1>4. \A y \in T : y \in Nat /\ x \in Nat /\ ~(y < x) BY <1>2, <1>3
<1> QED BY <1>4

LEMMA NaturalInduction == ASSUME NEW S, 0 \in S, \A n \in Nat : n \in S => n + 1 \in S PROVE Nat \subseteq S
<1> DEFINE T == Nat \ S
<1>1. SUFFICES ASSUME T # {} PROVE FALSE OBVIOUS
<1>2. PICK x \in T : \A y \in T : x <= y BY <1>1, LeastNatural
<1>3. x # 0 /\ x - 1 \in Nat OBVIOUS
<1>4. x - 1 \in S BY <1>2, <1>3
<1>5. x \in S BY <1>3, <1>4
<1> QED BY <1>2, <1>5

Increasing(s) == \A i, j \in DOMAIN s : i < j => s[i] < s[j]

LEMMA SortedExists == ASSUME NEW S, S \subseteq Nat, IsFiniteSet(S)
    PROVE \E s \in [1..Cardinality(S) -> S] : Range(s) = S /\ Increasing(s)
<1> DEFINE Good(n) == \A X \in SUBSET Nat : IsFiniteSet(X) /\ Cardinality(X) = n =>
                          \E s \in [1..n -> X] : Range(s) = X /\ Increasing(s)
           G == {n \in Nat : Good(n)}
<1>1. 0 \in G
  <2>1. SUFFICES ASSUME NEW X \in SUBSET Nat, IsFiniteSet(X), Cardinality(X) = 0
                 PROVE \E s \in [1..0 -> X] : Range(s) = X /\ Increasing(s)
    OBVIOUS
  <2>2. X = {} BY <2>1, FS_EmptySet
  <2>3. DOMAIN [i \in 1..0 |-> 0] = {} OBVIOUS
  <2>4. Range([i \in 1..0 |-> 0]) = {} BY <2>3 DEF Range
  <2>5. Increasing([i \in 1..0 |-> 0]) BY <2>3 DEF Increasing
  <2>6. [i \in 1..0 |-> 0] \in [1..0 -> X] OBVIOUS
  <2> QED BY <2>2, <2>4, <2>5, <2>6
<1>2. ASSUME NEW n \in Nat, Good(n) PROVE Good(n + 1)
  <2>1. SUFFICES ASSUME NEW X \in SUBSET Nat, IsFiniteSet(X), Cardinality(X) = n + 1
                 PROVE \E s \in [1..(n + 1) -> X] : Range(s) = X /\ Increasing(s)
    OBVIOUS
  <2>2. X # {} BY <2>1, FS_EmptySet
  <2>3. PICK m \in X : \A y \in X : m <= y BY <2>2, LeastNatural
  <2>4. IsFiniteSet(X \ {m}) /\ Cardinality(X \ {m}) = n
    <3>1. IsFiniteSet(X \ {m}) /\ Cardinality(X \ {m}) = Cardinality(X) - 1 BY <2>1, <2>3, FS_RemoveElement
    <3> QED BY <3>1, <2>1
  <2>5. PICK r \in [1..n -> X \ {m}] : Range(r) = X \ {m} /\ Increasing(r) BY <1>2, <2>4
  <2> DEFINE s == [i \in 1..(n + 1) |-> IF i = 1 THEN m ELSE r[i - 1]]
  <2>6. s \in [1..(n + 1) -> X] BY <2>3
  <2>7. Increasing(s)
    <3> SUFFICES ASSUME NEW i \in 1..(n + 1), NEW j \in 1..(n + 1), i < j PROVE s[i] < s[j]
      BY DEF Increasing
    <3>1. j - 1 \in 1..n /\ s[j] = r[j - 1] OBVIOUS
    <3>2. CASE i = 1
      <4>1. r[j - 1] \in X \ {m} BY <3>1
      <4>2. m <= r[j - 1] /\ m # r[j - 1] /\ m \in Nat /\ r[j - 1] \in Nat BY <4>1, <2>3
      <4> QED BY <3>1, <3>2, <4>1, <2>3, <4>2
    <3>3. CASE i # 1
      <4>1. i - 1 \in 1..n /\ s[i] = r[i - 1] /\ i - 1 < j - 1 BY <3>3
      <4> QED BY <4>1, <3>1, <2>5 DEF Increasing
    <3> QED BY <3>2, <3>3
  <2>8. Range(s) = X
    <3>1. ASSUME NEW x \in X PROVE \E i \in 1..(n + 1) : s[i] = x
      <4>1. CASE x = m BY <4>1
      <4>2. CASE x # m
        <5>1. PICK i \in 1..n : r[i] = x BY <4>2, <2>5 DEF Range
        <5>2. i + 1 \in 1..(n + 1) /\ s[i + 1] = x BY <5>1
        <5> QED BY <5>2
      <4> QED BY <4>1, <4>2
    <3>2. DOMAIN s = 1..(n + 1) /\ \A i \in 1..(n + 1) : s[i] \in X BY <2>6
    <3> HIDE DEF s
    <3> QED BY <3>1, <3>2 DEF Range
  <2> QED BY <2>6, <2>7, <2>8
<1> HIDE DEF Good
<1>3. Nat \subseteq G
  <2>1. \A n \in Nat : n \in G => n + 1 \in G BY <1>2
  <2> HIDE DEF G
  <2> QED BY <1>1, <2>1, NaturalInduction
<1>4. Good(Cardinality(S)) BY <1>3, FS_CardinalityType
<1> QED BY <1>4 DEF Good

LEMMA SortedFacts == ASSUME NEW S, S \subseteq Nat, IsFiniteSet(S)
    PROVE /\ Sorted(S) \in [1..Cardinality(S) -> S]
          /\ Cardinality(S) \in Nat
          /\ \A k \in S : \E i \in 1..Cardinality(S) : Sorted(S)[i] = k
          /\ \A i, j \in 1..Cardinality(S) : i < j => Sorted(S)[i] < Sorted(S)[j]
<1>1. /\ Sorted(S) \in [1..Cardinality(S) -> S] 
      /\ Range(Sorted(S)) = S /\ \A i, j \in DOMAIN Sorted(S) : i < j => Sorted(S)[i] < Sorted(S)[j]
  BY SortedExists DEF Sorted, Increasing
<1> QED BY <1>1, FS_CardinalityType DEF Range

\* What a page and its cursor are to the held they were cut from.
PageIs(held, cursor, pg, next) ==
    /\ pg \in Seq(held)
    /\ \A i, j \in 1..Len(pg) : i < j => pg[i] < pg[j]
    /\ \A i \in 1..Len(pg) : cursor < pg[i]
    /\ next \in Nat \cup {No}
    /\ \A k \in held : cursor < k /\ (next = No \/ k <= next) => \E i \in 1..Len(pg) : pg[i] = k
    /\ next # No => pg # <<>> /\ next = pg[Len(pg)]

LEMMA PageFacts ==
    ASSUME NEW held, held \subseteq Nat, IsFiniteSet(held), NEW size \in Nat \ {0},
           NEW cursor \in Nat \cup {No}
    PROVE  PageIs(held, cursor, paginate(held, size, cursor).items, paginate(held, size, cursor).next_cursor)
<1> DEFINE items == Sorted(held)
           N == Cardinality(held)
           start == IF cursor = No THEN 1 ELSE Resume(items, cursor)
           last == Min({start + size - 1, Len(items)})
           pg == SubSeq(items, start, last)
           next == IF pg # <<>> /\ start + size - 1 < Len(items) THEN Last(pg) ELSE No
<1>a. /\ N \in Nat /\ items \in [1..N -> held]
      /\ \A k \in held : \E i \in 1..N : items[i] = k
      /\ \A i, j \in 1..N : i < j => items[i] < items[j]
  BY SortedFacts
<1> HIDE DEF items, N
<1>b. items \in Seq(held) /\ Len(items) = N /\ DOMAIN items = 1..N BY <1>a
<1>1. /\ N \in Nat /\ items \in [1..N -> held] /\ items \in Seq(held) /\ Len(items) = N /\ DOMAIN items = 1..N
      /\ \A k \in held : \E i \in 1..N : items[i] = k
      /\ \A i, j \in 1..N : i < j => items[i] < items[j]
      /\ \A i \in 1..N : items[i] \in Nat
  BY <1>a, <1>b
<1>2. /\ start \in 1..(N + 1)
      /\ \A i \in 1..N : i < start => items[i] <= cursor
      /\ \A i \in 1..N : i >= start => cursor < items[i]
  <2>1. CASE cursor = No
    <3>1. start = 1 /\ start \in 1..(N + 1) /\ ~(\E i \in 1..N : i < start) BY <2>1, <1>1
    <3>2. \A i \in 1..N : cursor < items[i] BY <2>1, <1>1 DEF No
    <3> QED BY <3>1, <3>2
  <2>2. CASE cursor # No
    <3> DEFINE after == {i \in 1..N : items[i] > cursor} \cup {N + 1}
    <3>1. after \subseteq Nat /\ after # {} BY <1>1
    <3>2. \E x \in after : \A y \in after : x <= y BY <3>1, LeastNatural
    <3>3. start = Min(after) BY <2>2, <1>1 DEF Resume
    <3>4. start \in after /\ \A y \in after : start <= y BY <3>2, <3>3 DEF Min
    <3>5. cursor \in Nat BY <2>2
    <3>6. start \in 1..(N + 1) BY <3>4, <1>1
    <3> HIDE DEF start
    <3>7. ASSUME NEW i \in 1..N, i < start PROVE items[i] <= cursor
      <4>1. i \notin after BY <3>7, <3>4, <3>6, <1>1
      <4>2. items[i] \in Nat BY <1>1
      <4> QED BY <4>1, <4>2, <3>5
    <3>8. ASSUME NEW i \in 1..N, i >= start PROVE cursor < items[i]
      <4>1. start \in 1..N /\ items[start] > cursor BY <3>8, <3>4, <3>6, <1>1
      <4>2. items[i] \in Nat /\ items[start] \in Nat BY <4>1, <1>1
      <4>3. items[start] <= items[i] BY <1>1, <3>8, <4>1, <4>2
      <4> QED BY <4>1, <4>2, <4>3, <3>5
    <3> QED BY <3>6, <3>7, <3>8
  <2> QED BY <2>1, <2>2
<1> HIDE DEF start
<1>3. last \in Nat /\ last <= N /\ last <= start + size - 1 /\ (last = N \/ last = start + size - 1)
  <2> DEFINE m == start + size - 1
  <2>1. m \in Nat /\ N \in Nat /\ Len(items) = N BY <1>1, <1>2
  <2> HIDE DEF m
  <2>2. (m <= N => Min({m, N}) = m) /\ (N <= m => Min({m, N}) = N) BY <2>1 DEF Min
  <2>3. last = Min({m, N}) BY <2>1 DEF m
  <2> HIDE DEF last
  <2>4. last \in Nat /\ last <= N /\ last <= m /\ (last = N \/ last = m) BY <2>1, <2>2, <2>3
  <2> QED BY <2>4 DEF m
<1> HIDE DEF last
<1>4. /\ pg \in Seq(held)
      /\ Len(pg) = IF start <= last THEN last - start + 1 ELSE 0
      /\ \A i \in 1..Len(pg) : pg[i] = items[start + i - 1]
  <2>1. \A i \in start..last : items[i] \in held BY <1>1, <1>2, <1>3
  <2>2. start \in Int /\ last \in Int BY <1>2, <1>3
  <2> QED BY <2>1, <2>2, SubSeqProperties
<1> HIDE DEF pg
<1>5. pg # <<>> <=> start <= last
  <2>1. pg = <<>> <=> Len(pg) = 0 BY <1>4
  <2> QED BY <2>1, <1>4, <1>3, <1>2
<1>6. \A i \in 1..Len(pg) : start + i - 1 \in start..last BY <1>4, <1>2, <1>3
<1>7. \A i, j \in 1..Len(pg) : i < j => pg[i] < pg[j]
  BY <1>1, <1>2, <1>3, <1>4, <1>6
<1>8. \A i \in 1..Len(pg) : cursor < pg[i]
  <2> TAKE i \in 1..Len(pg)
  <2>1. start + i - 1 \in 1..N /\ start + i - 1 >= start BY <1>6, <1>2, <1>3, <1>1
  <2> QED BY <2>1, <1>2, <1>4
<1>9. next # No => pg # <<>> /\ next = pg[Len(pg)] /\ start <= last /\ last = start + size - 1 /\ next = items[last]
  <2>1. SUFFICES ASSUME next # No PROVE pg # <<>> /\ next = pg[Len(pg)] /\ start <= last /\ last = start + size - 1 /\ next = items[last]
    OBVIOUS
  <2>2. pg # <<>> /\ start + size - 1 < N /\ next = Last(pg) BY <2>1, <1>1
  <2>3. start <= last /\ last = start + size - 1 /\ Len(pg) = last - start + 1 BY <2>2, <1>3, <1>4, <1>5, <1>2
  <2>4. pg[Len(pg)] = items[last] BY <2>3, <1>4, <1>2, <1>3
  <2> QED BY <2>2, <2>3, <2>4 DEF Last
<1>10. next \in Nat \cup {No} 
  <2>1. CASE next # No
    <3>1. last \in 1..N BY <2>1, <1>9, <1>2, <1>3
    <3> QED BY <3>1, <2>1, <1>9, <1>1
  <2> QED BY <2>1
<1>11. ASSUME NEW k \in held, cursor < k, next = No \/ k <= next PROVE \E i \in 1..Len(pg) : pg[i] = k
  <2>1. PICK n \in 1..N : items[n] = k BY <1>1
  <2>2. n >= start
    <3>1. SUFFICES ASSUME n < start PROVE FALSE BY <1>1, <1>2
    <3>2. k <= cursor BY <3>1, <2>1, <1>2
    <3> QED BY <3>2, <1>11 DEF No
  <2>3. n <= last
    <3>1. CASE next = No
      <4>1. pg # <<>> => N <= start + size - 1
        <5>1. SUFFICES ASSUME pg # <<>>, start + size - 1 < N PROVE FALSE BY <1>1, <1>2
        <5>2. next = Last(pg) /\ Last(pg) = pg[Len(pg)] BY <5>1, <1>1 DEF Last
        <5>3. pg[Len(pg)] \in Nat
          <6>1. start <= last /\ Len(pg) = last - start + 1 BY <5>1, <1>4, <1>5
          <6>2. Len(pg) \in 1..Len(pg) BY <6>1, <1>2, <1>3
          <6>3. pg \in Seq(held) BY <1>4
          <6>4. pg[Len(pg)] \in held BY <6>2, <6>3, ElementOfSeq
          <6> QED BY <6>4
        <5> QED BY <5>2, <5>3, <3>1 DEF No
      <4>2. pg # <<>>
        <5>1. start <= N /\ start \in Nat /\ N \in Nat BY <2>1, <2>2, <1>a, <1>2
        <5>2. start <= last BY <5>1, <1>3
        <5> QED BY <5>2, <1>5
      <4> QED BY <4>1, <4>2, <1>3, <1>2, <1>a, <2>1
    <3>2. CASE next # No
      <4>1. last \in 1..N /\ next = items[last] /\ k <= items[last] BY <3>2, <1>9, <1>2, <1>3, <1>11
      <4>2. SUFFICES ASSUME last < n PROVE FALSE BY <1>3
      <4>3. items[last] < items[n] /\ items[last] \in Nat /\ items[n] \in Nat BY <4>1, <4>2, <1>1
      <4> QED BY <4>1, <4>3, <2>1
    <3> QED BY <3>1, <3>2
  <2>4. n - start + 1 \in 1..Len(pg) BY <2>1, <2>2, <2>3, <1>4, <1>2, <1>3
  <2>5. pg[n - start + 1] = items[n] BY <2>4, <1>4, <1>2
  <2> QED BY <2>1, <2>4, <2>5
<1>12. paginate(held, size, cursor).items = pg /\ paginate(held, size, cursor).next_cursor = next
  BY DEF paginate, items, start, last, pg
<1> HIDE DEF next
<1>13. PageIs(held, cursor, pg, next) BY <1>4, <1>7, <1>8, <1>9, <1>10, <1>11 DEF PageIs
<1> QED BY <1>12, <1>13

ListInv ==
    /\ listed \subseteq ListKey
    /\ listing.pc \in {"idle", "page", "done"}
    /\ listing.got \in Seq(Nat)
    /\ \A i, j \in 1..Len(listing.got) : i < j => listing.got[i] < listing.got[j]
    /\ listing.pc = "idle" => listing = NoListing
    /\ listing.pc = "page" =>
         /\ listing = [pc |-> "page", cursor |-> listing.cursor, got |-> listing.got, size |-> listing.size,
                       cap |-> listing.cap, seen |-> listing.seen, steady |-> listing.steady]
         /\ listing.size \in Nat \ {0} /\ listing.cap \in Nat \cup {No} /\ listing.cursor \in Nat \cup {No}
         /\ listing.steady \subseteq listed
         /\ listing.seen \subseteq Nat /\ \A c \in listing.seen : c <= listing.cursor
         /\ \A i \in 1..Len(listing.got) : listing.got[i] <= listing.cursor
         /\ \A k \in listing.steady : k <= listing.cursor => \E i \in 1..Len(listing.got) : listing.got[i] = k
    /\ listing.pc = "done" =>
         \A k \in listing.steady :
             listing.cap = No \/ (listing.got # <<>> /\ k <= listing.got[Len(listing.got)])
                 => \E i \in 1..Len(listing.got) : listing.got[i] = k

LEMMA ListInit == EdgeInit => ListInv
BY DEF EdgeInit, ListInv, NoListing

LEMMA ClampIsASize == ASSUME NEW n \in AskedLimit PROVE clamp_limit(n) \in Nat \ {0}
<1>1. /\ MinLimit \in Nat \ {0} /\ DefaultLimit \in Nat \ {0} /\ MaxLimit \in Nat \ {0} /\ n \in Int
  BY EdgeAssumption
<1>2. Min({MaxLimit, n}) \in Int
  <2>1. CASE MaxLimit <= n BY <2>1, <1>1 DEF Min
  <2>2. CASE n < MaxLimit BY <2>2, <1>1 DEF Min
  <2> QED BY <2>1, <2>2, <1>1
<1>3. ASSUME NEW m \in Int PROVE Max({MinLimit, m}) \in Nat \ {0}
  <2>1. CASE MinLimit >= m BY <2>1, <1>1 DEF Max
  <2>2. CASE m > MinLimit BY <2>2, <1>1 DEF Max
  <2> QED BY <2>1, <2>2, <1>1
<1> QED BY <1>1, <1>2, <1>3 DEF clamp_limit

LEMMA StartListKeepsList == ASSUME ListInv, NEW n \in AskedLimit, NEW cap \in ListCap, StartList(n, cap)
    PROVE ListInv'
<1>1. listing' = [pc |-> "page", cursor |-> No, got |-> <<>>, size |-> clamp_limit(n), cap |-> cap,
                  seen |-> {}, steady |-> listed]
      /\ listed' = listed
  BY DEF StartList, NoListing
<1>2. clamp_limit(n) \in Nat \ {0} /\ cap \in Nat \cup {No} BY ClampIsASize, EdgeAssumption DEF No
<1>3. \A k \in listed : ~(k <= No) BY EdgeAssumption DEF ListInv, No
<1> QED BY <1>1, <1>2, <1>3 DEF ListInv

LEMMA RowChangeKeepsList == ASSUME ListInv, NEW k \in ListKey, RowChanges(k) PROVE ListInv'
<1>1. listing.pc = "page" /\ listing' = [listing EXCEPT !.steady = @ \ {k}]
      /\ listed' \subseteq ListKey /\ listed \ {k} \subseteq listed'
  BY DEF RowChanges, ListInv
<1>2. listing' = [pc |-> "page", cursor |-> listing.cursor, got |-> listing.got, size |-> listing.size,
                  cap |-> listing.cap, seen |-> listing.seen, steady |-> listing.steady \ {k}]
  BY <1>1 DEF ListInv
<1> QED BY <1>1, <1>2 DEF ListInv

LEMMA FetchKeepsList == ASSUME ListInv, FetchPage PROVE ListInv'
<1> DEFINE page == paginate(listed, listing.size, listing.cursor)
           all == listing.got \o page.items
           full == listing.cap # No /\ Len(all) >= listing.cap
           done == full \/ page.next_cursor \in listing.seen \cup {No}
<1>1. listing.pc = "page" /\ listed' = listed BY DEF FetchPage
<1>2. PICK got, cursor, size, cap, seen, steady :
         /\ listing = [pc |-> "page", cursor |-> cursor, got |-> got, size |-> size,
                       cap |-> cap, seen |-> seen, steady |-> steady]
  BY <1>1 DEF ListInv
<1>3. /\ size \in Nat \ {0} /\ cap \in Nat \cup {No} /\ cursor \in Nat \cup {No}
      /\ listed \subseteq ListKey /\ steady \subseteq listed /\ got \in Seq(Nat)
      /\ seen \subseteq Nat /\ \A c \in seen : c <= cursor
      /\ \A i, j \in 1..Len(got) : i < j => got[i] < got[j]
      /\ \A i \in 1..Len(got) : got[i] <= cursor
      /\ \A k \in steady : k <= cursor => \E i \in 1..Len(got) : got[i] = k
  BY <1>1, <1>2 DEF ListInv
<1>4. PICK pg, next : pg = page.items /\ next = page.next_cursor OBVIOUS
<1>a. listed \subseteq Nat /\ IsFiniteSet(listed) BY <1>3, EdgeAssumption, FS_Subset
<1>5. /\ pg \in Seq(listed)
      /\ \A i, j \in 1..Len(pg) : i < j => pg[i] < pg[j]
      /\ \A i \in 1..Len(pg) : cursor < pg[i]
      /\ next \in Nat \cup {No}
      /\ \A k \in listed : cursor < k /\ (next = No \/ k <= next) => \E i \in 1..Len(pg) : pg[i] = k
      /\ next # No => pg # <<>> /\ next = pg[Len(pg)]
  <2>1. pg = paginate(listed, size, cursor).items /\ next = paginate(listed, size, cursor).next_cursor
    BY <1>2, <1>4
  <2> HIDE DEF page
  <2>2. PageIs(listed, cursor, paginate(listed, size, cursor).items, paginate(listed, size, cursor).next_cursor)
    BY <1>3, <1>a, PageFacts
  <2>3. PageIs(listed, cursor, pg, next) BY <2>1, <2>2
  <2> QED BY <2>3 DEF PageIs
<1>6. PICK al : al = got \o pg OBVIOUS
<1>b. pg \in Seq(Nat) BY <1>5, <1>a, SeqMonotonic
<1>7. /\ al \in Seq(Nat) /\ Len(al) = Len(got) + Len(pg) /\ Len(got) \in Nat /\ Len(pg) \in Nat
      /\ \A i \in 1..Len(al) : al[i] = IF i <= Len(got) THEN got[i] ELSE pg[i - Len(got)]
  BY <1>b, <1>3, <1>6
<1>c. cursor \in Int /\ No \in Int /\ next \in Int BY <1>3, <1>5 DEF No
<1>8. \A i, j \in 1..Len(al) : i < j => al[i] < al[j]
  <2> SUFFICES ASSUME NEW i \in 1..Len(al), NEW j \in 1..Len(al), i < j PROVE al[i] < al[j]
    OBVIOUS
  <2>1. CASE j <= Len(got)
    <3>1. i \in 1..Len(got) /\ j \in 1..Len(got) BY <2>1, <1>7
    <3>2. al[i] = got[i] /\ al[j] = got[j] BY <2>1, <3>1, <1>7
    <3> QED BY <3>1, <3>2, <1>3
  <2>2. CASE i > Len(got)
    <3>1. i - Len(got) \in 1..Len(pg) /\ j - Len(got) \in 1..Len(pg) /\ i - Len(got) < j - Len(got) BY <2>2, <1>7
    <3>2. al[i] = pg[i - Len(got)] /\ al[j] = pg[j - Len(got)] BY <2>2, <1>7
    <3> QED BY <3>1, <3>2, <1>5
  <2>3. CASE i <= Len(got) /\ j > Len(got)
    <3>1. i \in 1..Len(got) /\ j - Len(got) \in 1..Len(pg) BY <2>3, <1>7
    <3>2. al[i] = got[i] /\ al[j] = pg[j - Len(got)] BY <2>3, <1>7
    <3>3. got[i] \in Nat /\ pg[j - Len(got)] \in Nat BY <3>1, <1>3, <1>b
    <3>4. got[i] <= cursor /\ cursor < pg[j - Len(got)] BY <3>1, <1>3, <1>5
    <3> QED BY <3>2, <3>3, <3>4, <1>c
  <2> QED BY <2>1, <2>2, <2>3, <1>7
<1>9. \A k \in steady : next = No \/ k <= next => \E i \in 1..Len(al) : al[i] = k
  <2> SUFFICES ASSUME NEW k \in steady, next = No \/ k <= next PROVE \E i \in 1..Len(al) : al[i] = k
    OBVIOUS
  <2>0. k \in Nat /\ k \in listed BY <1>a, <1>3
  <2>1. CASE k <= cursor
    <3>1. PICK i \in 1..Len(got) : got[i] = k BY <2>1, <1>3
    <3>2. i \in 1..Len(al) /\ al[i] = k BY <3>1, <1>7
    <3> QED BY <3>2
  <2>2. CASE cursor < k
    <3>1. PICK i \in 1..Len(pg) : pg[i] = k BY <2>0, <2>2, <1>5
    <3>2. i + Len(got) \in 1..Len(al) /\ ~(i + Len(got) <= Len(got)) /\ i + Len(got) - Len(got) = i BY <1>7
    <3>3. al[i + Len(got)] = k BY <3>1, <3>2, <1>7
    <3> QED BY <3>2, <3>3
  <2> QED BY <2>0, <2>1, <2>2, <1>c
<1>10. next # No => next > cursor /\ \A i \in 1..Len(al) : al[i] <= next
  <2> SUFFICES ASSUME next # No PROVE next > cursor /\ \A i \in 1..Len(al) : al[i] <= next
    OBVIOUS
  <2>1. Len(pg) \in 1..Len(pg) /\ next = pg[Len(pg)] BY <1>5, <1>7
  <2>2. cursor < next BY <2>1, <1>5
  <2>3. Len(al) \in 1..Len(al) /\ al[Len(al)] = next BY <2>1, <1>7
  <2>4. \A i \in 1..Len(al) : al[i] \in Nat BY <1>7
  <2>5. \A i \in 1..Len(al) : i = Len(al) \/ i < Len(al) BY <1>7
  <2>6. \A i \in 1..Len(al) : al[i] <= next BY <2>3, <2>4, <2>5, <1>8
  <2> QED BY <2>2, <2>6, <1>c
<1>11. next \notin seen
  <2>1. SUFFICES ASSUME next \in seen PROVE FALSE OBVIOUS
  <2>2. next \in Nat /\ next <= cursor BY <2>1, <1>3
  <2>3. next # No BY <2>2 DEF No
  <2> QED BY <2>2, <2>3, <1>10, <1>c
<1>12. PICK fl \in BOOLEAN : fl = (cap # No /\ Len(al) >= cap) OBVIOUS
<1>13. listing' = [pc |-> IF fl \/ next = No THEN "done" ELSE "page", cursor |-> next,
                   got |-> IF fl THEN SubSeq(al, 1, cap) ELSE al, size |-> size, cap |-> cap,
                   seen |-> seen \cup {next}, steady |-> steady]
  BY <1>2, <1>4, <1>6, <1>11, <1>12 DEF FetchPage
<1>14. CASE ~fl /\ next # No
  <2>1. listing' = [pc |-> "page", cursor |-> next, got |-> al, size |-> size, cap |-> cap,
                   seen |-> seen \cup {next}, steady |-> steady]
    BY <1>13, <1>14
  <2>2. next \in Nat /\ \A c \in seen \cup {next} : c <= next BY <1>14, <1>10, <1>3, <1>5, <1>c
  <2>3. seen \cup {next} \subseteq Nat BY <2>2, <1>3
  <2> QED BY <2>1, <2>2, <2>3, <1>1, <1>3, <1>7, <1>8, <1>9, <1>10, <1>14 DEF ListInv
<1>15. CASE ~fl /\ next = No
  <2>1. listing' = [pc |-> "done", cursor |-> next, got |-> al, size |-> size, cap |-> cap,
                   seen |-> seen \cup {next}, steady |-> steady]
    BY <1>13, <1>15
  <2> QED BY <2>1, <1>1, <1>3, <1>7, <1>8, <1>9, <1>15 DEF ListInv
<1>16. CASE fl
  <2>1. PICK cut : cut = SubSeq(al, 1, cap) OBVIOUS
  <2>2. cap \in Nat /\ cap <= Len(al) BY <1>16, <1>12, <1>3, <1>7
  <2>3. cut \in Seq(Nat) /\ Len(cut) = cap /\ \A i \in 1..cap : cut[i] = al[i]
    <3>1. \A i \in 1..cap : al[i] \in Nat BY <2>2, <1>7
    <3>2. cut \in Seq(Nat) /\ Len(cut) = (IF 1 <= cap THEN cap - 1 + 1 ELSE 0) /\ \A i \in 1..(cap - 1 + 1) : cut[i] = al[1 + i - 1]
      BY <2>1, <2>2, <3>1, SubSeqProperties
    <3> QED BY <3>2, <2>2
  <2>4. listing' = [pc |-> "done", cursor |-> next, got |-> cut, size |-> size, cap |-> cap,
                   seen |-> seen \cup {next}, steady |-> steady]
    BY <1>13, <1>16, <2>1
  <2>5. \A i, j \in 1..Len(cut) : i < j => cut[i] < cut[j] BY <2>2, <2>3, <1>8
  <2>6. cap # No BY <2>2 DEF No
  <2>7. ASSUME NEW k \in steady, cut # <<>>, k <= cut[Len(cut)] PROVE \E i \in 1..Len(cut) : cut[i] = k
    <3>1. cap \in 1..Len(al) /\ cut[Len(cut)] = al[cap] BY <2>2, <2>3, <2>7
    <3>2. k \in Nat /\ al[cap] \in Nat BY <3>1, <1>a, <1>3, <1>7
    <3>3. next = No \/ k <= next BY <3>1, <3>2, <2>7, <1>10, <1>c
    <3>4. PICK i \in 1..Len(al) : al[i] = k BY <3>3, <1>9
    <3>5. i <= cap
      <4>1. SUFFICES ASSUME cap < i PROVE FALSE BY <2>2, <1>7
      <4>2. al[cap] < al[i] BY <4>1, <3>1, <1>8
      <4> QED BY <4>2, <3>1, <3>2, <3>4, <2>7
    <3> QED BY <3>4, <3>5, <2>3, <2>2
  <2> QED BY <2>3, <2>4, <2>5, <2>6, <2>7, <1>1, <1>3 DEF ListInv
<1> QED BY <1>14, <1>15, <1>16

LEMMA ListIsOnce == ListInv => ListedOnce
<1> SUFFICES ASSUME ListInv PROVE ListedOnce OBVIOUS
<1>1. DOMAIN listing.got = 1..Len(listing.got) BY DEF ListInv
<1>2. \A i, j \in DOMAIN listing.got : i < j => listing.got[i] < listing.got[j] BY <1>1 DEF ListInv
<1>3. ASSUME listing.pc = "done",
             NEW k \in listing.steady, listing.cap = No \/ (listing.got # <<>> /\ k <= Last(listing.got))
      PROVE  k \in Range(listing.got)
  BY <1>1, <1>3 DEF ListInv, Last, Range
<1> QED BY <1>2, <1>3 DEF ListedOnce

\* The edge keeps its promises for every number of threads, peers and rows, any
\* rate and burst of at least one request, and clocks that go on for ever:
\* nobody is let in oftener than burst and rate allow, a client that waits as
\* long as it was told is let in, and a list followed to its end is complete.
THEOREM EdgeSafeHolds == EdgeSpec => []EdgeSafe
<1>1. EdgeInit => LimInv /\ ListInv BY LimInit, ListInit
<1>2. LimInv /\ ListInv /\ [LimNext \/ ListNext]_edgeVars => LimInv' /\ ListInv'
  <2> SUFFICES ASSUME LimInv, ListInv, [LimNext \/ ListNext]_edgeVars PROVE LimInv' /\ ListInv'
    OBVIOUS
  <2>1. UNCHANGED limVars => LimInv'
    BY DEF limVars, LimInv, LimTypeOK, Debt, Spent, Waits
  <2>2. UNCHANGED listVars => ListInv'
    BY DEF listVars, ListInv
  <2>3. CASE LimNext
    <3>1. UNCHANGED listVars BY <2>3 DEF LimNext, check, Arrive, LimTick, listVars
    <3>2. LimInv' BY <2>3, CheckKeepsLim, ArriveKeepsLim, TickKeepsLim DEF LimNext
    <3> QED BY <3>1, <3>2, <2>2
  <2>4. CASE ListNext
    <3>1. UNCHANGED limVars BY <2>4 DEF ListNext, StartList, FetchPage, RowChanges
    <3>2. ListInv' BY <2>4, StartListKeepsList, FetchKeepsList, RowChangeKeepsList DEF ListNext
    <3> QED BY <3>1, <3>2, <2>1
  <2>5. CASE UNCHANGED edgeVars
    <3>1. UNCHANGED limVars /\ UNCHANGED listVars BY <2>5 DEF edgeVars
    <3> QED BY <3>1, <2>1, <2>2
  <2> QED BY <2>3, <2>4, <2>5
<1>3. LimInv /\ ListInv => EdgeSafe BY LimitHolds, RetryIsEnough, ListIsOnce DEF EdgeSafe
<1> QED BY <1>1, <1>2, <1>3, PTL DEF EdgeSpec
=============================================================================
