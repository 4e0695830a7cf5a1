------------------------------ MODULE MCAccess ------------------------------
(***************************************************************************)
(* Small instances of Accounts, Requests and Edge, one after the other:    *)
(* focus picks what a behaviour is about and leaves the rest at its start. *)
(***************************************************************************)
EXTENDS Accounts, Requests, Edge
CONSTANTS e1, e2, c1, c2,
          Focuses    \* the focuses this run looks at
VARIABLES focus,     \* what the behaviour is about
          theme      \* the resources and verbs its requests are about

AccountFocus == {"passwords", "sessions", "logins", "members", "roles"}
EdgeFocus == {"limit", "list"}
MCAskedLimit == {No, 0, 1, 9}
MCListCap == {No, 2}
MCTeams == [k \in {"k1"} |-> {"red"}]

\* One request of anybody, two side by side of two administrators, the same
\* request through two interfaces, and edits of one competition.
Memberships ==
    {NoMembership, [role |-> "player", team |-> "red"]}
    \cup {[role |-> r, team |-> "none"] : r \in {"organizer", "author", "judge", "player"}}
Everyone == {principal_for("u", s, m) : s \in {{}, {"admin"}, {"support"}}, m \in [Contest -> Memberships]}
Admins == {principal_for(u, {"admin"}, [k \in Contest |-> NoMembership]) : u \in {"u", "v"}}
Members == {principal_for("u", s, [k \in Contest |-> m]) : s \in {{}, {"support"}}, m \in Memberships}
People ==
    CASE focus = "single" -> Everyone
      [] focus = "race" -> Admins
      [] focus = "faces" -> Members
      [] focus = "patch" -> {CHOOSE a \in Admins : TRUE}
Count == CASE focus = "single" -> 1 [] focus = "patch" -> 3 [] OTHER -> 2

Theme(r) == <<r.res, r.verb>>
MCFocusTheme ==
    CASE focus = "single" -> {{Theme(r) : r \in Routes}}
      [] focus = "race" -> {{Theme(r)} : r \in {x \in Routes : x.does # "read"}}
      [] focus = "faces" -> {{Theme(r)} : r \in WebRoutes}
      [] focus = "patch" -> {{<<"competition", "update">>}}
      [] OTHER -> {{}}

Fit(in) ==
    /\ focus # "single" => in.live /\ in.csrf /\ in.published /\ ~in.archived
    /\ focus \in {"faces", "patch"} => in.comp = CHOOSE k \in Contest : TRUE
Fitting(r) == {in \in Inputs(r, People) : Fit(in)}
Ask(i) ==
    \/ \E r \in {x \in Routes : Theme(x) \in theme} : \E in \in Fitting(r) : Send(i, r, in)
    \/ /\ focus # "faces"
       /\ \E c \in {x \in Commands : Theme(x.route) \in theme} : \E in \in Fitting(c.route) : Run(i, c, in)

RequestStep ==
    \/ \E i \in 1..Count : MaySend(i) /\ Ask(i)
    \/ Serve
    \/ focus = "race" /\ Restart
    \/ focus = "single" /\ calls[1].st \in {"enter", "refresh"} /\ "cli" \in calls[1].how /\ TokenChanges

MCInit ==
    /\ focus \in Focuses /\ theme \in MCFocusTheme
    /\ AcInit /\ RqInit /\ EdgeInit
    /\ (focus = "limit" \/ ~trust) /\ (focus = "list" \/ listed = {})
    /\ focus \notin AccountFocus => users = {} /\ \A e \in Email : hash[e] = NoHash /\ sysRoles[e] = {}
MCNext ==
    /\ UNCHANGED <<focus, theme>>
    /\ \/ focus = "passwords" /\ PasswordStep /\ UNCHANGED <<rqVars, edgeVars>>
       \/ focus = "sessions" /\ SessionStep /\ UNCHANGED <<rqVars, edgeVars>>
       \/ focus = "logins" /\ LoginStep /\ UNCHANGED <<rqVars, edgeVars>>
       \/ focus = "members" /\ MemberStep /\ UNCHANGED <<rqVars, edgeVars>>
       \/ focus = "roles" /\ RoleStep /\ UNCHANGED <<rqVars, edgeVars>>
       \/ focus = "limit" /\ LimNext /\ UNCHANGED <<acVars, rqVars>>
       \/ focus = "list" /\ ListNext /\ UNCHANGED <<acVars, rqVars>>
       \/ focus \notin AccountFocus \cup EdgeFocus /\ RequestStep /\ UNCHANGED <<acVars, edgeVars>>
MCSpec == MCInit /\ [][MCNext]_<<focus, theme, acVars, rqVars, edgeVars>>
=============================================================================
