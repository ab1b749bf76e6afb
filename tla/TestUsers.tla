----------------------------- MODULE TestUsers -----------------------------
(***************************************************************************)
(* The identities of the verification suite: verify/conftest.py provisions *)
(* FreeIPA users for a pytest session, the tests log in with them through  *)
(* Keycloak (verify/helpers.py) and the session removes them.              *)
(*                                                                         *)
(* pytest runs one step at a time; Keycloak imports users from FreeIPA and *)
(* forgets them on its own.  Passwords and groups are model values: what   *)
(* counts is which provisioning a password comes from and which groups a   *)
(* snapshot of a user has.                                                 *)
(***************************************************************************)
EXTENDS Naturals, Sequences, FiniteSets

CONSTANTS
    Passwords,   \* what secrets.token_urlsafe can return
    Names,       \* user names
    Fixtures,    \* the session fixtures of conftest.py
    Members,     \* fixture -> its users in the order they are provisioned
    Groups,      \* user name -> sequence of TestUser.groups
    RoleOf,      \* group -> <<service, role>>
    Tests,       \* sequence of [fixture, who, service, kind] in the order pytest runs them
    Forms,       \* how many forms the Keycloak login shows, one or two
    Settles,     \* _IPA_GROUP_SETTLE_RETRIES
    Faulty,      \* the kinds of fault that happen
    MaxFaults,   \* and how many of them
    None

ASSUME TestUsersAssumption ==
    /\ IsFiniteSet(Passwords) /\ IsFiniteSet(Names) /\ IsFiniteSet(Fixtures)
    /\ None \notin Passwords /\ None \notin Fixtures
    /\ None \notin [pw : Passwords \cup {None}, groups : SUBSET DOMAIN RoleOf]
    /\ Forms \in 1 .. 2 /\ Settles \in Nat
    /\ MaxFaults \in Nat
    /\ Members \in [Fixtures -> Seq(Names)]
    /\ Groups \in [Names -> Seq(DOMAIN RoleOf)]
    /\ Tests \in Seq([fixture : Fixtures, who : Nat, service : STRING,
                     kind : {"hubble", "traefik", "token", "grafana", "gitlab"}])

\* More passwords than can be in sight at once.
ASSUME PasswordsAssumption ==
    2 * Cardinality(Names) + Cardinality(Fixtures) <= Cardinality(Passwords)

\* A fixture has users, each once.
ASSUME MembersAssumption ==
    \A f \in Fixtures :
        /\ Members[f] # <<>>
        /\ \A i, j \in DOMAIN Members[f] : Members[f][i] = Members[f][j] => i = j

\* A test logs in as a user of its fixture, at the service its flow is for; the
\* second user of a fixture that asks Grafana is a Grafana admin.
ASSUME TestsAssumption ==
    \A i \in DOMAIN Tests :
        LET t == Tests[i]
            ms == Members[t.fixture]
        IN /\ t.who \in DOMAIN ms
           /\ t.kind \in {"hubble", "traefik", "grafana"} => t.service = t.kind
           /\ t.kind = "grafana" =>
                 /\ 2 \in DOMAIN ms
                 /\ \E j \in DOMAIN Groups[ms[2]] :
                       RoleOf[Groups[ms[2]][j]] = <<"grafana", "admin">>

\* pytest collects file by file, and a fixture is used by one file: its tests are
\* neighbours.
ASSUME TogetherAssumption ==
    \A i, j, k \in DOMAIN Tests :
        i < j /\ j < k /\ Tests[i].fixture = Tests[k].fixture
            => Tests[j].fixture = Tests[i].fixture

VARIABLES
    directory,   \* FreeIPA: name -> [pw, groups] or None
    cache,       \* Keycloak: name -> imported snapshot or None
    rows,        \* Grafana: name -> role of the last login, or None
    pc,          \* what pytest is doing
    next,        \* index of the next test
    creds,       \* fixture -> password its users were given, or None
    broken,      \* fixtures whose setup raised; pytest does not retry them
    stack,       \* fixtures set up, in that order
    fixture,     \* the one being set up or torn down
    at,          \* position in its Members
    left,        \* groups of the current user still to be added
    attempt,     \* attempts of the current group-add-member
    report,      \* what the last test saw
    told,        \* the session showed the operator a warning or an error
    hidden,      \* users whose removal failed and was not shown
    budget       \* faults left

vars == <<directory, cache, rows, pc, next, creds, broken, stack, fixture, at,
          left, attempt, report, told, hidden, budget>>
estate == <<directory, cache, rows>>
setup == <<fixture, at, left, attempt>>

NoReport == [test |-> 0, stage |-> "none", admitted |-> FALSE, denied |-> FALSE,
             roles |-> {}]

Init ==
    /\ directory = [n \in Names |-> None]
    /\ cache = [n \in Names |-> None]
    /\ rows = [n \in Names |-> None]
    /\ pc = "idle" /\ next = 1
    /\ creds = [f \in Fixtures |-> None]
    /\ broken = {} /\ stack = <<>>
    /\ fixture = None /\ at = 1 /\ left = <<>> /\ attempt = 0
    /\ report = NoReport /\ told = FALSE /\ hidden = {}
    /\ budget = MaxFaults

Spend(kind) == kind \in Faulty /\ budget > 0 /\ budget' = budget - 1

\* The pytest process ends: what it held in memory is gone.
Exit ==
    /\ pc' = "idle" /\ next' = 1
    /\ creds' = [f \in Fixtures |-> None]
    /\ broken' = {} /\ stack' = <<>>
    /\ fixture' = None /\ at' = 1 /\ left' = <<>> /\ attempt' = 0
    /\ report' = NoReport

Who == Members[fixture][at]

-----------------------------------------------------------------------------
(* Keycloak's LDAP provider, importEnabled (external). *)

\* A user that shows in FreeIPA is imported as it is at that moment.
Import(n) ==
    /\ directory[n] # None /\ cache[n] = None
    /\ cache' = [cache EXCEPT ![n] = directory[n]]
    /\ UNCHANGED <<directory, rows, pc, next, creds, broken, stack, setup, report,
                   told, hidden, budget>>

\* An import outlives its 60 seconds.
Expire(n) ==
    /\ cache[n] # None
    /\ cache' = [cache EXCEPT ![n] = None]
    /\ UNCHANGED <<directory, rows, pc, next, creds, broken, stack, setup, report,
                   told, hidden, budget>>

-----------------------------------------------------------------------------
(* Setting a fixture up: make_test_users, provision_user for each, settle. *)

Start ==
    /\ pc = "idle" /\ pc' = "test"
    /\ told' = FALSE /\ hidden' = {}
    /\ UNCHANGED <<estate, next, creds, broken, stack, setup, report, budget>>

\* A password no provisioning still in sight has used.
Unused(p) ==
    /\ \A n \in Names : /\ directory[n] # None => directory[n].pw # p
                        /\ cache[n] # None => cache[n].pw # p
    /\ \A f \in Fixtures : creds[f] # p

\* The next test asks for a fixture of this session that is not there yet.
Request ==
    /\ pc = "test" /\ next <= Len(Tests)
    /\ fixture' = Tests[next].fixture
    /\ creds[fixture'] = None /\ fixture' \notin broken
    /\ creds' = [creds EXCEPT ![fixture'] = CHOOSE p \in Passwords : Unused(p)]
    /\ at' = 1
    /\ pc' = "del"
    /\ UNCHANGED <<estate, next, broken, stack, left, attempt, report, told, hidden,
                   budget>>

\* An exception before the try: no teardown is registered for the fixture, and
\* every test that asks for it ends in error.
Raise ==
    /\ pc' = "test"
    /\ broken' = broken \cup {fixture}
    /\ told' = TRUE

\* The ansible channel to core01 fails: _ipa_admin raises.
ChannelFails ==
    /\ pc \in {"del", "add", "passwd", "group"}
    /\ Spend("channel")
    /\ Raise
    /\ UNCHANGED <<estate, next, creds, stack, setup, report, hidden>>

\* Mutant of UserDel: a user left behind is not removed first.
UserDelSkipped ==
    /\ pc = "del" /\ pc' = "add"
    /\ UNCHANGED <<estate, next, creds, broken, stack, setup, report, told, hidden,
                   budget>>

\* provision_user first removes what an earlier run left behind; `|| true'
\* hides a deletion that fails inside the container.
UserDel ==
    /\ pc = "del" /\ pc' = "add"
    /\ \/ directory' = [directory EXCEPT ![Who] = None] /\ UNCHANGED budget
       \/ directory[Who] # None /\ Spend("command") /\ UNCHANGED directory
    /\ UNCHANGED <<cache, rows, next, creds, broken, stack, setup, report, told,
                   hidden>>

\* `ipa user-add' is strict: it fails on a user that exists.
UserAdd ==
    /\ pc = "add"
    /\ IF directory[Who] # None
       THEN Raise /\ UNCHANGED directory
       ELSE /\ directory' = [directory EXCEPT ![Who] = [pw |-> None, groups |-> {}]]
            /\ pc' = "passwd"
            /\ UNCHANGED <<broken, told>>
    /\ UNCHANGED <<cache, rows, next, creds, stack, setup, report, hidden, budget>>

\* The second command of the same channel call.
Passwd ==
    /\ pc = "passwd" /\ pc' = "group"
    /\ directory' = [directory EXCEPT ![Who].pw = creds[fixture]]
    /\ left' = Groups[Who] /\ attempt' = 0
    /\ UNCHANGED <<cache, rows, next, creds, broken, stack, fixture, at, report, told,
                   hidden, budget>>

GroupAdd ==
    /\ pc = "group" /\ left # <<>>
    /\ directory' = [directory EXCEPT ![Who].groups = @ \cup {Head(left)}]
    /\ left' = Tail(left) /\ attempt' = 0
    /\ UNCHANGED <<cache, rows, pc, next, creds, broken, stack, fixture, at, report,
                   told, hidden, budget>>

\* Mutant of GroupUnsettled: one attempt too many.
GroupUnsettledOnceMore ==
    /\ pc = "group" /\ left # <<>>
    /\ IF attempt <= Settles
       THEN attempt' = attempt + 1 /\ UNCHANGED <<pc, broken, told, budget>>
       ELSE Raise /\ Spend("settle") /\ UNCHANGED attempt
    /\ UNCHANGED <<estate, next, creds, stack, fixture, at, left, report, hidden>>

\* "no such entry": the new user is not visible to this channel yet.  The call
\* is repeated after a pause until its retries are spent.
GroupUnsettled ==
    /\ pc = "group" /\ left # <<>>
    /\ IF attempt < Settles
       THEN attempt' = attempt + 1 /\ UNCHANGED <<pc, broken, told, budget>>
       ELSE Raise /\ Spend("settle") /\ UNCHANGED attempt
    /\ UNCHANGED <<estate, next, creds, stack, fixture, at, left, report, hidden>>

\* Mutant of NextUser: the tests run as soon as the last user is provisioned.
NextUserUnsettled ==
    /\ pc = "group" /\ left = <<>>
    /\ IF at < Len(Members[fixture])
       THEN at' = at + 1 /\ pc' = "del" /\ UNCHANGED stack
       ELSE stack' = Append(stack, fixture) /\ pc' = "test" /\ UNCHANGED at
    /\ UNCHANGED <<estate, next, creds, broken, fixture, left, attempt, report, told,
                   hidden, budget>>

\* The loop over the users of the fixture.
NextUser ==
    /\ pc = "group" /\ left = <<>>
    /\ IF at < Len(Members[fixture])
       THEN at' = at + 1 /\ pc' = "del"
       ELSE pc' = "wait" /\ UNCHANGED at
    /\ UNCHANGED <<estate, next, creds, broken, stack, fixture, left, attempt, report,
                   told, hidden, budget>>

\* 80 seconds: every import older than the provisioning is gone, and what was
\* imported meanwhile is what the directory holds.
WaitForSync ==
    /\ pc = "wait" /\ pc' = "flush"
    /\ \E fresh \in SUBSET Names :
          cache' = [n \in Names |-> IF n \in fresh THEN directory[n] ELSE None]
    /\ UNCHANGED <<directory, rows, next, creds, broken, stack, setup, report, told,
                   hidden, budget>>

\* clear-user-cache answers 204, and the fixture yields.
ClearCache ==
    /\ pc = "flush" /\ pc' = "test"
    /\ cache' = [n \in Names |-> None]
    /\ stack' = Append(stack, fixture)
    /\ UNCHANGED <<directory, rows, next, creds, broken, setup, report, told, hidden,
                   budget>>

\* The assertion on the answer fails, still outside the try.
ClearFails ==
    /\ pc = "flush" /\ Spend("flush")
    /\ Raise
    /\ UNCHANGED <<estate, next, creds, stack, setup, report, hidden>>

-----------------------------------------------------------------------------
(* The logins the tests drive. *)

\* The user as Keycloak sees it: an import, or else the directory now.
View(n) == IF cache[n] # None THEN cache[n] ELSE directory[n]

\* keycloak_login leaves Keycloak with a code: the credentials match and at
\* most two forms were shown.
KeycloakLogin(n, pw) ==
    View(n) # None /\ View(n).pw = pw /\ Forms <= 2

\* The roles claim of a token for the client of s: access_token_claims.
Claim(n, s) == {RoleOf[g][2] : g \in {h \in View(n).groups : RoleOf[h][1] = s}}

Report(stage, admitted, denied, roles) ==
    [test |-> next, stage |-> stage, admitted |-> admitted, denied |-> denied,
     roles |-> roles]

\* hubble_sso_flow: the proxy's redirect, the login, the callback and the page.
HubbleFlow(n, pw, answers) ==
    IF ~answers THEN Report("unauthenticated", FALSE, FALSE, {})
    ELSE IF ~KeycloakLogin(n, pw) THEN Report("login", FALSE, FALSE, {})
    ELSE Report("done", Claim(n, "hubble") # {}, Claim(n, "hubble") = {}, {})

\* traefik_sso_flow: the same, at /dashboard/, plus the overview for a member.
TraefikFlow(n, pw, answers) ==
    IF ~answers THEN Report("unauthenticated", FALSE, FALSE, {})
    ELSE IF ~KeycloakLogin(n, pw) THEN Report("login", FALSE, FALSE, {})
    ELSE Report("done", Claim(n, "traefik") # {}, Claim(n, "traefik") = {}, {})

\* keycloak_login and exchange_code: the test reads the roles claim itself.
TokenFlow(n, pw, s, answers) ==
    IF ~answers THEN Report("unauthenticated", FALSE, FALSE, {})
    ELSE IF ~KeycloakLogin(n, pw) THEN Report("login", FALSE, FALSE, {})
    ELSE Report("done", TRUE, FALSE, Claim(n, s))

\* grafana_sso_session of the user, then grafana_org_role read by the admin of
\* the fixture: the role of the row the user's last login wrote.
GrafanaFlow(n, pw, adm, answers) ==
    IF ~answers THEN Report("unauthenticated", FALSE, FALSE, {})
    ELSE IF \/ ~KeycloakLogin(n, pw) \/ ~KeycloakLogin(adm, pw)
            \/ "admin" \notin Claim(adm, "grafana")
    THEN Report("login", FALSE, FALSE, {})
    ELSE Report("done", TRUE, FALSE, rows'[n])

\* gitlab_sso_login: GitLab's own authorization request, the login and /api/v4/user.
GitlabFlow(n, pw, answers) ==
    IF ~answers THEN Report("unauthenticated", FALSE, FALSE, {})
    ELSE IF ~KeycloakLogin(n, pw) THEN Report("login", FALSE, FALSE, {})
    ELSE Report("done", TRUE, FALSE, {})

\* One test: a browser session of its own, with the password of its fixture.
RunTest ==
    /\ pc = "test" /\ next <= Len(Tests)
    /\ LET t == Tests[next]
           n == Members[t.fixture][t.who]
           adm == Members[t.fixture][2]
           pw == creds[t.fixture]
       IN /\ \E i \in DOMAIN stack : stack[i] = t.fixture
          /\ \E answers \in BOOLEAN :
                /\ IF answers THEN UNCHANGED budget ELSE Spend("entry")
                /\ rows' = [m \in Names |->
                               IF /\ t.kind = "grafana" /\ answers /\ KeycloakLogin(n, pw)
                                  /\ m \in {n, adm} /\ KeycloakLogin(m, pw)
                               THEN Claim(m, "grafana") ELSE rows[m]]
                /\ report' = CASE t.kind = "hubble" -> HubbleFlow(n, pw, answers)
                               [] t.kind = "traefik" -> TraefikFlow(n, pw, answers)
                               [] t.kind = "token" -> TokenFlow(n, pw, t.service, answers)
                               [] t.kind = "grafana" ->
                                     GrafanaFlow(n, pw, adm, answers)
                               [] t.kind = "gitlab" -> GitlabFlow(n, pw, answers)
    /\ next' = next + 1
    /\ UNCHANGED <<directory, cache, pc, creds, broken, stack, setup, told, hidden>>

\* A test whose fixture raised is an error, not a login.
TestErrors ==
    /\ pc = "test" /\ next <= Len(Tests)
    /\ Tests[next].fixture \in broken
    /\ next' = next + 1
    /\ UNCHANGED <<estate, pc, creds, broken, stack, setup, report, told, hidden,
                   budget>>

-----------------------------------------------------------------------------
(* The end of the session: the finally blocks, last fixture first. *)

\* Mutant of Teardown: the loop of the two-user fixture, kept for three users.
TeardownForgetsLast ==
    /\ pc = "test" /\ next > Len(Tests)
    /\ IF stack = <<>>
       THEN Exit
       ELSE /\ fixture' = stack[Len(stack)]
            /\ stack' = SubSeq(stack, 1, Len(stack) - 1)
            /\ at' = IF Len(Members[fixture']) > 2 THEN 2 ELSE Len(Members[fixture'])
            /\ pc' = "remove"
            /\ UNCHANGED <<next, creds, broken, left, attempt, report>>
    /\ UNCHANGED <<estate, told, hidden, budget>>

\* The next fixture to finalize, or the end.
Teardown ==
    /\ pc = "test" /\ next > Len(Tests)
    /\ IF stack = <<>>
       THEN Exit
       ELSE /\ fixture' = stack[Len(stack)]
            /\ stack' = SubSeq(stack, 1, Len(stack) - 1)
            /\ at' = Len(Members[fixture'])
            /\ pc' = "remove"
            /\ UNCHANGED <<next, creds, broken, left, attempt, report>>
    /\ UNCHANGED <<estate, told, hidden, budget>>

\* print("WARNING: teardown ... failed"): pytest captures what a finalizer prints
\* with the last test, and shows it only when that test failed.
RemoveWarn == told' = (told \/ report.stage # "done")

\* The user stays, if it was there.
Unremoved == hidden' = IF directory[Who] = None THEN hidden ELSE hidden \cup {Who}

\* remove_user of one user: its groups, then the user; a deletion that fails in
\* the container is swallowed, a channel that fails is caught and printed.
\* Either way the next user is removed.
RemoveUser ==
    /\ pc = "remove"
    /\ \/ /\ directory' = [directory EXCEPT ![Who] = None]
          /\ hidden' = hidden \ {Who}
          /\ UNCHANGED <<told, budget>>
       \/ /\ Spend("command")
          /\ Unremoved
          /\ UNCHANGED <<directory, told>>
       \/ /\ Spend("channel")
          /\ IF directory[Who] = None
             THEN UNCHANGED directory
             ELSE \E gs \in SUBSET directory[Who].groups :
                     directory' = [directory EXCEPT ![Who].groups = gs]
          /\ RemoveWarn /\ Unremoved
    /\ IF at > 1 THEN at' = at - 1 /\ UNCHANGED pc ELSE pc' = "test" /\ UNCHANGED at
    /\ UNCHANGED <<cache, rows, next, creds, broken, stack, fixture, left, attempt,
                   report>>

\* pytest is killed: nothing is torn down, and nobody overlooks that.
Kill ==
    /\ pc # "idle" /\ Spend("kill")
    /\ Exit /\ told' = TRUE
    /\ UNCHANGED <<estate, hidden>>

Keycloak == \E n \in Names : Import(n) \/ Expire(n)

Pytest == \/ Request \/ UserDel \/ UserAdd \/ Passwd \/ GroupAdd
          \/ NextUser \/ WaitForSync \/ ClearCache
          \/ RunTest \/ TestErrors \/ Teardown \/ RemoveUser

Faults == ChannelFails \/ GroupUnsettled \/ ClearFails \/ Kill

Next == Keycloak \/ Start \/ Pytest \/ Faults

\* pytest goes on while it is not killed; the suite is run again and again.
Fairness == WF_vars(Start) /\ WF_vars(Pytest)

Spec == Init /\ [][Next]_vars /\ Fairness

-----------------------------------------------------------------------------
(* Properties. *)

Snapshot == [pw : Passwords \cup {None}, groups : SUBSET DOMAIN RoleOf]

\* Every variable has its type.
TypeOK ==
    /\ directory \in [Names -> Snapshot \cup {None}]
    /\ cache \in [Names -> Snapshot \cup {None}]
    /\ pc \in {"idle", "test", "del", "add", "passwd", "group", "wait", "flush",
               "remove"}
    /\ next \in 1 .. Len(Tests) + 1
    /\ creds \in [Fixtures -> Passwords \cup {None}]
    /\ broken \subseteq Fixtures /\ fixture \in Fixtures \cup {None}
    /\ attempt \in 0 .. Settles
    /\ told \in BOOLEAN /\ hidden \subseteq Names

\* The roles its groups declare for user n at service s.
Declared(n, s) ==
    {RoleOf[Groups[n][i]][2] : i \in {j \in DOMAIN Groups[n] : RoleOf[Groups[n][j]][1] = s}}

\* What a test sees is the tier its fixture declared, whatever Keycloak imported
\* before, between or after the provisioning commands, whatever earlier sessions
\* left behind and whatever other fixtures re-provisioned: a login of a fixture
\* that was set up gets through, a member is admitted, a non-member denied, and
\* a claim or a Grafana row carries the declared role.
TiersSeen ==
    report.test # 0 /\ report.stage # "unauthenticated" =>
        LET t == Tests[report.test]
            roles == Declared(Members[t.fixture][t.who], t.service)
        IN /\ report.stage = "done"
           /\ CASE t.kind \in {"hubble", "traefik"} ->
                     report.admitted = (roles # {}) /\ report.denied = (roles = {})
                [] t.kind \in {"token", "grafana"} -> report.roles = roles
                [] t.kind = "gitlab" -> report.admitted

\* Users that a session leaves in FreeIPA without having shown an error are users
\* whose own removal failed, by the shell that swallows it or by a channel whose
\* warning was captured: nobody is left because a fixture gave up half-way, because
\* the removal of another user failed first, or because a later fixture
\* provisioned the user again.
OnlyFailedRemovals ==
    pc = "idle" /\ ~told => {n \in Names : directory[n] # None} \subseteq hidden

\* Sessions end, and once the faults are over they leave FreeIPA without a test
\* user every time, after whatever was left behind before.
CleansUp == []<>(pc = "idle" /\ \A n \in Names : directory[n] = None)
=============================================================================
