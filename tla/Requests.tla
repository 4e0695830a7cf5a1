------------------------------ MODULE Requests ------------------------------
(***************************************************************************)
(* How a request of the API, the web interface, the CLI or the worker      *)
(* gateway is served: the gate, the replay of a remembered answer, the     *)
(* service's transaction, the audit record, the remembering, the answer.   *)
(* Requests run in several threads of one server process, which may        *)
(* restart and then forgets the answers it remembered; a client may send a *)
(* request again.  The service is one transaction here; what it does       *)
(* inside is in the module of its component.                               *)
(***************************************************************************)
EXTENDS Interfaces, Integers, Sequences

CONSTANTS Team, Key, Body,
          NoKey,
          Reuse,       \* an edit may bring back a value a field had before
          MaxCalls, MaxRestarts   \* bounds

\* The body of an edit names one of the two fields.
ASSUME RequestsAssumption == Body \subseteq {1, 2}

Routes == ApiRoutes \cup WebRoutes \cup WorkerRoutes

VARIABLES calls,     \* the requests, in the order they may be sent
          rows,      \* what the services stored: an id and what it stands for
          acts,      \* what the services did, in order
          store,     \* InMemoryIdempotencyStore
          audits,    \* the audit log
          doc,       \* the two fields of the resource that updates edit
          docs,      \* every content it has had
          stored,    \* the CLI's stored token works
          restarts

rqVars == <<calls, rows, acts, store, audits, doc, docs, stored, restarts>>

Unsent == [st |-> "unsent"]
NoTag == [kind |-> "none", doc |-> <<0, 0>>]
AnyTag == [kind |-> "any", doc |-> <<0, 0>>]
Tag(d) == [kind |-> "tag", doc |-> d]

-----------------------------------------------------------------------------
(* What a request may carry: only what its route looks at varies. *)
If(cond, set, default) == IF cond THEN set ELSE {default}
Has(r, step) == step \in r.steps
Targeted(r) == r.does \in {"insert", "next", "submit", "place", "natural", "remove", "merge", "overwrite"}
Inputs(r, people) ==
    [who: people, comp: Contest,
     team: If(r.steps \cap {"own", "team", "placed"} # {}, Team \cup {"unset"}, "unset"),
     key: If(Has(r, "idem") \/ r.does = "submit", Key \cup {NoKey}, NoKey),
     body: If(Targeted(r), Body, 1),
     tag: If(Has(r, "match"), {NoTag, AnyTag} \cup {Tag(d) : d \in docs}, NoTag),
     live: If(r.gate # "public", BOOLEAN, TRUE), csrf: If(Has(r, "csrf"), BOOLEAN, TRUE),
     published: If(Has(r, "published"), BOOLEAN, TRUE), archived: If(Has(r, "skip"), BOOLEAN, FALSE)]

Sent(r, how, in, st) ==
    [who |-> in.who, comp |-> in.comp, team |-> in.team, key |-> in.key, body |-> in.body, tag |-> in.tag,
     live |-> in.live, csrf |-> in.csrf, published |-> in.published, archived |-> in.archived,
     route |-> r, how |-> how, st |-> st, base |-> <<0, 0>>, tries |-> 1,
     entered |-> "unknown", replayed |-> FALSE, answer |-> "none"]

MaySend(i) == calls[i].st = "unsent" /\ \A j \in 1..(i - 1) : calls[j].st # "unsent"

Send(i, r, in) ==
    /\ MaySend(i)
    /\ calls' = [calls EXCEPT ![i] = Sent(r, {}, in, "enter")]
    /\ UNCHANGED <<rows, acts, store, audits, doc, docs, stored, restarts>>

\* A CLI command: a key whenever the command sends one, the stored token, and
\* the tag is the one it fetches.
Run(i, cmd, in) ==
    /\ MaySend(i)
    /\ "keyed" \in cmd.how => in.key # NoKey
    /\ "fetch" \in cmd.how => in.tag = NoTag
    /\ cmd.route.gate # "public" => in.live = stored
    /\ calls' = [calls EXCEPT ![i] = Sent(cmd.route, cmd.how \cup {"cli"}, in,
                                    IF "fetch" \in cmd.how THEN "fetch" ELSE "enter")]
    /\ UNCHANGED <<rows, acts, store, audits, doc, docs, stored, restarts>>

Fetch(i) ==
    /\ calls[i].st = "fetch"
    /\ calls' = [calls EXCEPT ![i].st = "enter", ![i].tag = Tag(doc)]
    /\ UNCHANGED <<rows, acts, store, audits, doc, docs, stored, restarts>>

-----------------------------------------------------------------------------
(* The gate. *)
require_permission(c) == c.route.perm \in c.who.permissions
assert_competition_permission(c) == c.route.perm \in competition_permissions(c.who, c.comp)
require_any_competition_permission(c) == authorized_competitions(c.who, c.route.perm) # {}

Permitted(c) ==
    /\ c.route.gate = "flat" => require_permission(c)
    /\ c.route.gate \in {"competition", "hidden"} => assert_competition_permission(c)
    /\ c.route.gate = "any" => require_any_competition_permission(c)

Place(c) == submission_team_scope(c.who, c.comp)
OwnTeamNamed(c) ==
    \/ Place(c) = "any"
    \/ Place(c) # "none" /\ (c.team = Place(c) \/ (c.route.does = "read" /\ c.team = "unset"))
RowOfOwnTeam(c) == Place(c) = "any" \/ (Place(c) # "none" /\ c.team = Place(c))

Verdict(c) ==
    LET r == c.route IN
    CASE ~c.live -> "401"
      [] c.live /\ ~c.csrf -> "403"
      [] c.live /\ c.csrf /\ ~Permitted(c) -> IF r.gate = "hidden" THEN "404" ELSE "403"
      [] OTHER ->
           IF Has(r, "own") /\ ~OwnTeamNamed(c) THEN "403"
           ELSE IF r = get_submission /\ ~RowOfOwnTeam(c) THEN "404"
           ELSE IF ~c.published THEN "404"
           ELSE IF Has(r, "match") /\ c.tag.kind = "none" THEN "428"
           ELSE "in"

-----------------------------------------------------------------------------
(* The idempotency store. *)
KeyScope(c) == <<c.who.subject, c.route.res, c.route.verb, IF Has(c.route, "path") THEN c.comp ELSE "all">>
fingerprint(c) == IF Has(c.route, "path") THEN <<c.body>> ELSE <<c.comp, c.body>>
Keyed(c) == Has(c.route, "idem") /\ c.key # NoKey
lookup(c) == {s \in store : s.scope = KeyScope(c) /\ s.key = c.key}

\* replay_or_conflict: the remembered answer, for the same body only.
ReplayAnswer(s, c) == IF s.hash = fingerprint(c) THEN s.answer ELSE "409"

Answered(c, answer) == [c EXCEPT !.st = "done", !.answer = answer]
Denied(i, answer) ==
    IF calls[i].route.face = "api" /\ answer \in {"401", "403"}
    THEN audits \cup {[call |-> i, outcome |-> "denied"]} ELSE audits

Enter(i) ==
    LET c == calls[i]
        e == [c EXCEPT !.entered = IF Permitted(c) THEN "in" ELSE "out"]
        v == Verdict(c)
        found == lookup(c)
    IN /\ c.st = "enter"
       /\ audits' = Denied(i, v)
       /\ calls' = [calls EXCEPT ![i] =
             IF v # "in"
             THEN IF v = "401" /\ "cli" \in c.how /\ c.tries = 1 THEN [e EXCEPT !.st = "refresh"] ELSE Answered(e, v)
             ELSE IF Keyed(c) /\ found # {}
             THEN LET a == ReplayAnswer(CHOOSE s \in found : TRUE, c)
                  IN [Answered(e, a) EXCEPT !.replayed = (a # "409")]
             ELSE [e EXCEPT !.st = IF c.route.does = "merge" THEN "base" ELSE "act"]]
       /\ UNCHANGED <<rows, acts, store, doc, docs, stored, restarts>>

-----------------------------------------------------------------------------
(* The CLI after a 401: one refresh with whatever token is stored by then,  *)
(* which only a live token passes, and one more try with the same key.      *)
RefreshToken(i) ==
    /\ calls[i].st = "refresh"
    /\ calls' = [calls EXCEPT ![i] =
          IF stored THEN [@ EXCEPT !.st = "enter", !.live = TRUE, !.tries = 2]
          ELSE Answered(@, "login required")]
    /\ UNCHANGED <<rows, acts, store, audits, doc, docs, stored, restarts>>

\* The session ends, or another shell logs in.
TokenChanges ==
    stored' = ~stored /\ UNCHANGED <<calls, rows, acts, store, audits, doc, docs, restarts>>

-----------------------------------------------------------------------------
(* The service. *)
Fresh == Cardinality(rows) + 1

\* uuid5 of who asks and the key, so that a retry names the same row.
DerivedAlwaysFresh(c) == <<c.route.res, "new", Fresh>>
DerivedId(c) ==
    CASE c.key = NoKey -> <<c.route.res, "new", Fresh>>
      [] c.route.does = "submit" -> <<c.route.res, c.who.subject, c.comp, c.key>>
      [] OTHER -> <<c.route.res, c.who.subject, c.key>>

RowId(c) ==
    CASE c.route.does \in {"submit", "place"} -> DerivedId(c)
      [] c.route.does \in {"insert", "remove"} -> <<c.route.res, "row", c.comp, c.body>>
      [] c.route.does \in {"next", "append", "bump", "issue"} -> <<c.route.res, "new", Fresh>>
      [] OTHER -> <<c.route.res, c.route.verb, c.comp, c.body>>
Identity(c) == <<c.comp, c.body>>

\* The team of a web submission is the caller's own.
Idles(c) ==
    \/ c.archived
    \/ Has(c.route, "placed") /\ Place(c) \in {"any", "none"}

Outcome(c) ==
    LET known == {w \in rows : w.id = RowId(c)} IN
    CASE c.route.does \in {"insert", "place"} /\ known # {} -> "409"
      [] c.route.does = "submit" /\ \E w \in known : w.is # Identity(c) -> "409"
      [] c.route.does \in {"remove"} /\ known = {} -> "404"
      [] c.route.does = "step" /\ known # {} -> "404"
      [] OTHER -> "ok"

Writes(c) == c.route.does \notin {"read", "end"} /\ ~Idles(c)
RowsAfter(c) ==
    LET w == [id |-> RowId(c), is |-> Identity(c)] IN
    IF c.route.does = "remove" THEN {x \in rows : x.id # w.id}
    ELSE IF Writes(c) /\ \A x \in rows : x.id # w.id THEN rows \cup {w} ELSE rows

\* Whose data an answer shows.
CompetitionsShown(c) ==
    IF c.route.gate \in {"any", "filter"} THEN authorized_competitions(c.who, c.route.perm) ELSE {c.comp}
TeamsShown(c) ==
    CASE Has(c.route, "placed") -> {Place(c)} \ {"any", "none"}
      [] c.route = get_submission \/ c.route = submit_answer -> {c.team}
      [] Place(c) = "any" -> IF c.team = "unset" THEN Team ELSE {c.team}
      [] OTHER -> {Place(c)} \ {"none"}

Then(c) == IF Has(c.route, "audit") THEN "audit" ELSE "done"
Act(i, c) == [call |-> i, wrote |-> Writes(c) /\ RowsAfter(c) # rows, id |-> RowId(c),
              comps |-> CompetitionsShown(c), teams |-> TeamsShown(c)]

Perform(i) ==
    LET c == calls[i]
        o == Outcome(c)
    IN /\ c.st = "act" /\ c.route.does \notin {"merge", "overwrite"}
       /\ IF o = "ok"
          THEN /\ rows' = RowsAfter(c)
               /\ acts' = Append(acts, Act(i, c))
               /\ calls' = [calls EXCEPT ![i] = [c EXCEPT !.st = Then(c), !.answer = "ok"]]
          ELSE /\ calls' = [calls EXCEPT ![i] = Answered(c, o)]
               /\ UNCHANGED <<rows, acts>>
       /\ UNCHANGED <<store, audits, doc, docs, stored, restarts>>

\* create_draft numbers a version one past the last; of two at once one clashes.
NumberTaken(i) ==
    /\ calls[i].st = "act" /\ calls[i].route.does = "next"
    /\ \E j \in 1..MaxCalls \ {i} : calls[j].st \in {"audit", "remember", "done"} /\ calls[j].route = calls[i].route
    /\ calls' = [calls EXCEPT ![i] = Answered(@, "409")]
    /\ UNCHANGED <<rows, acts, store, audits, doc, docs, stored, restarts>>

-----------------------------------------------------------------------------
(* Updates.  The handler merges its changes into a row it reads without a   *)
(* lock; the guard is evaluated on the row read again under a lock.         *)
NextValue == IF Reuse THEN {0, 1} ELSE {Cardinality(docs)}

ReadBase(i) ==
    /\ calls[i].st = "base"
    /\ calls' = [calls EXCEPT ![i].st = "act", ![i].base = doc]
    /\ UNCHANGED <<rows, acts, store, audits, doc, docs, stored, restarts>>

GuardOnRead(c) == c.tag.kind = "any" \/ c.tag.doc = c.base
etags_match(c) == c.tag.kind = "any" \/ c.tag.doc = doc

Merge(i) ==
    LET c == calls[i] IN
    /\ c.st = "act" /\ c.route.does = "merge"
    /\ IF etags_match(c)
       THEN /\ \E v \in NextValue : doc' = [c.base EXCEPT ![c.body] = v]
            /\ acts' = Append(acts, Act(i, c))
            /\ calls' = [calls EXCEPT ![i].st = Then(c), ![i].answer = "ok"]
       ELSE /\ calls' = [calls EXCEPT ![i] = Answered(c, "412")]
            /\ UNCHANGED <<doc, acts>>
    /\ docs' = docs \cup {doc'}
    /\ UNCHANGED <<rows, store, audits, stored, restarts>>

\* A web form carries every field, the unedited ones from the page it came on.
Overwrite(i) ==
    LET c == calls[i] IN
    /\ c.st = "act" /\ c.route.does = "overwrite"
    /\ \E page \in docs, v \in NextValue : doc' = [page EXCEPT ![c.body] = v]
    /\ docs' = docs \cup {doc'}
    /\ acts' = Append(acts, Act(i, c))
    /\ calls' = [calls EXCEPT ![i].st = Then(c), ![i].answer = "ok"]
    /\ UNCHANGED <<rows, store, audits, stored, restarts>>

-----------------------------------------------------------------------------
(* After the service: the audit record first, then the remembering. *)
record_audit(i) ==
    /\ calls[i].st = "audit"
    /\ audits' = audits \cup {[call |-> i, outcome |-> "success"]}
    /\ calls' = [calls EXCEPT ![i].st = IF Keyed(calls[i]) THEN "remember" ELSE "done"]
    /\ UNCHANGED <<rows, acts, store, doc, docs, stored, restarts>>

\* save: the last writer's answer stands.
Remember(i) ==
    LET c == calls[i] IN
    /\ c.st = "remember"
    /\ store' = (store \ lookup(c))
          \cup {[scope |-> KeyScope(c), key |-> c.key, hash |-> fingerprint(c), answer |-> c.answer]}
    /\ calls' = [calls EXCEPT ![i].st = "done"]
    /\ UNCHANGED <<rows, acts, audits, doc, docs, stored, restarts>>

\* The server process goes and comes back: its requests and its store are lost.
InFlight == {"enter", "base", "act", "audit", "remember"}
Restart ==
    /\ restarts < MaxRestarts
    /\ restarts' = restarts + 1
    /\ store' = {}
    /\ calls' = [i \in 1..MaxCalls |-> IF calls[i].st \in InFlight THEN [calls[i] EXCEPT !.st = "lost"] ELSE calls[i]]
    /\ UNCHANGED <<rows, acts, audits, doc, docs, stored>>

-----------------------------------------------------------------------------
RqInit ==
    /\ calls = [i \in 1..MaxCalls |-> Unsent]
    /\ rows = {} /\ acts = <<>> /\ store = {} /\ audits = {}
    /\ doc = <<0, 0>> /\ docs = {<<0, 0>>}
    /\ stored = TRUE /\ restarts = 0

Serve ==
    \E i \in 1..MaxCalls :
        \/ Fetch(i) \/ Enter(i) \/ RefreshToken(i) \/ Perform(i) \/ NumberTaken(i)
        \/ ReadBase(i) \/ Merge(i) \/ Overwrite(i) \/ record_audit(i) \/ Remember(i)

\* Requests of these people.
RqNext(people) ==
    \/ \E i \in 1..MaxCalls :
         \/ \E r \in Routes : \E in \in Inputs(r, people) : Send(i, r, in)
         \/ \E cmd \in Commands : \E in \in Inputs(cmd.route, people) : Run(i, cmd, in)
    \/ Serve \/ Restart \/ TokenChanges
RqSpec(people) == RqInit /\ [][RqNext(people)]_rqVars

-----------------------------------------------------------------------------
Done(i) == calls[i].st = "done"
SameRequest(c, d) ==
    /\ c.who.subject = d.who.subject /\ c.route.res = d.route.res /\ c.route.verb = d.route.verb
    /\ c.comp = d.comp /\ c.key = d.key /\ c.body = d.body

\* A request that is sent again under its Idempotency-Key writes at most once,
\* also when the two run side by side, when the first answer was lost, or when
\* the server restarted and no longer remembers it: creating a submission or an
\* instance names the row after the key, and other creations meet a unique
\* constraint, as long as nobody removes the row.  The exceptions number or stamp
\* what they write: a new version, a new generation, a new report.
KeyedOnce ==
    \A m, n \in DOMAIN acts :
        LET c == calls[acts[m].call]
            d == calls[acts[n].call]
        IN (m < n /\ acts[m].wrote /\ acts[n].wrote /\ c.key # NoKey /\ SameRequest(c, d))
              => \/ c.route.does \in {"next", "bump", "append"}
                 \/ \E k \in m..n : calls[acts[k].call].route.does = "remove"

\* A remembered answer goes only to a repetition of the request that earned it:
\* the same principal, route, target, key and body.
ReplayFaithful ==
    \A i \in 1..MaxCalls :
        (Done(i) /\ calls[i].replayed)
            => \E n \in DOMAIN acts : SameRequest(calls[i], calls[acts[n].call])

\* Whoever is told that the API changed something, directly or by a remembered
\* answer, finds the audit record there.  Ending a session and renewing a lease
\* are not audited.
AuditedFirst ==
    \A i \in 1..MaxCalls :
        LET c == calls[i] IN
        (Done(i) /\ c.answer = "ok" /\ c.route.face \in {"api", "worker"}
            /\ c.route.does \notin {"read", "end"} /\ c.route # heartbeat_job)
        => \E a \in audits : /\ a.outcome = "success"
                             /\ a.call = i \/ (c.replayed /\ SameRequest(c, calls[a.call]))

\* Whatever a permission of competition scope is used for, it is held in each
\* competition that is shown or changed, by a system role or by the membership
\* there; a membership elsewhere does not count.
ConfinedToCompetition ==
    \A n \in DOMAIN acts :
        LET c == calls[acts[n].call]
            p == c.who
        IN (c.route.perm \in CompetitionPermission /\ ~(c.route.res = "competition" /\ c.route.verb \in {"new", "create"}))
           => \A k \in acts[n].comps :
                 \/ \E r \in p.system_roles : c.route.perm \in ROLE_PERMISSIONS[r]
                 \/ k \in Joined(p) /\ c.route.perm \in ROLE_PERMISSIONS[p.memberships[k].role]

\* A contestant sees and makes submissions of the team of the membership in that
\* competition and of no other, through the API and the web pages alike.
OwnTeam ==
    \A n \in DOMAIN acts :
        LET c == calls[acts[n].call]
            contestant == /\ c.who.system_roles \cap TENANCY_UNRESTRICTED_ROLES = {}
                          /\ c.comp \in Joined(c.who)
                          /\ c.who.memberships[c.comp].role \in {"player", "captain"}
        IN (c.route.res = "submission" /\ c.route.verb # "form" /\ contestant)
              => acts[n].teams \subseteq {c.who.memberships[c.comp].team}

\* The same operation asks for the same permission whichever interface it comes
\* through: nobody may do in the web pages what the API refuses, or the reverse.
InterfacesAgree ==
    \A i, j \in 1..MaxCalls :
        LET c == calls[i]
            d == calls[j]
        IN (/\ Done(i) /\ Done(j)
            /\ c.route.res = d.route.res /\ c.route.verb = d.route.verb
            /\ c.route.face # d.route.face
            /\ c.route.res = "report" => c.route.perm = d.route.perm
            /\ c.who = d.who /\ c.comp = d.comp)
           => c.entered = d.entered

\* A PATCH that names the version it edits changes the fields it carries and
\* brings back no other writer's older value, although the handler merges into
\* a row that it read without a lock.  (The version is a hash of the content: an
\* edit that brings an earlier content back brings its version back; Reuse.)
PatchKeepsOthers ==
    [][\A i \in 1..MaxCalls :
         LET c == calls[i] IN
         (Merge(i) /\ doc' # doc /\ c.tag.kind = "tag") => \A f \in 1..2 : f = c.body \/ doc'[f] = doc[f]]_rqVars

\* What serving a request promises, whichever interface it came through and
\* whatever else is being served or restarts.
RequestsSafe ==
    /\ KeyedOnce
    /\ ReplayFaithful
    /\ AuditedFirst
    /\ ConfinedToCompetition
    /\ OwnTeam
=============================================================================
