-------------------------- MODULE TestUsersProofs --------------------------
(***************************************************************************)
(* Proofs about TestUsers, for any users, groups, fixtures and tests, any  *)
(* number of faults of any kind.                                           *)
(***************************************************************************)
EXTENDS TestUsers, FiniteSetTheorems, TLAPS

Elems(s) == {s[i] : i \in DOMAIN s}
Users(f) == Elems(Members[f])
SettingUp == pc \in {"del", "add", "passwd", "group", "wait", "flush"}

\* A test of fixture f is still to come.
Awaited(f) == \E i \in DOMAIN Tests : i >= next /\ Tests[i].fixture = f

\* A test of fixture f has been reached.
Reached(f) == \E i \in DOMAIN Tests : i <= next /\ Tests[i].fixture = f

\* What provision_user makes of user n.
Full(n, p) == [pw |-> p, groups |-> Elems(Groups[n])]

\* Where pytest is.
Place ==
    /\ left \in Seq(DOMAIN RoleOf) /\ stack \in Seq(Fixtures) /\ at \in Nat
    /\ SettingUp => /\ next \in DOMAIN Tests
                    /\ fixture = Tests[next].fixture
                    /\ creds[fixture] # None
                    /\ at \in DOMAIN Members[fixture]
    /\ pc = "remove" => /\ next = Len(Tests) + 1
                        /\ fixture \in Fixtures
                        /\ at \in DOMAIN Members[fixture]
    /\ pc = "passwd" => directory[Who] = [pw |-> None, groups |-> {}]
    /\ pc = "group" => directory[Who] # None
    /\ pc = "idle" => next = 1

\* Only fixtures that a test asked for have a password, and while one is set up
\* nobody waits for an earlier one.
Asked ==
    /\ \A f \in Fixtures : creds[f] # None => Reached(f)
    /\ \A f \in Elems(stack) : creds[f] # None
    /\ SettingUp => \A f \in Elems(stack) : ~Awaited(f)

Control == TypeOK /\ Place /\ Asked

\* The users of the fixture that are provisioned, the current one in part.
Provisioned ==
    /\ SettingUp =>
          \A i \in DOMAIN Members[fixture] :
             i < at \/ pc \in {"wait", "flush"} =>
                directory[Members[fixture][i]] = Full(Members[fixture][i], creds[fixture])
    /\ pc = "group" => /\ directory[Who].pw = creds[fixture]
                       /\ directory[Who].groups \cup Elems(left) = Elems(Groups[Who])

\* The users of a fixture whose tests go on are as provisioned, in FreeIPA and in
\* what Keycloak imported.
Ready ==
    \A f \in Elems(stack) :
        Awaited(f) => \A n \in Users(f) : /\ directory[n] = Full(n, creds[f])
                                          /\ cache[n] \in {None, directory[n]}

TierInv == Control /\ Provisioned /\ Ready /\ TiersSeen

\* Every user in FreeIPA belongs to a fixture that some test uses.
OfTests ==
    \A n \in Names : directory[n] # None =>
        \E i \in DOMAIN Tests : n \in Users(Tests[i].fixture)

\* The session will come to user n: its fixture is still to be torn down, being
\* torn down or still to be asked for.
Pending(n) ==
    \/ \E f \in Elems(stack) : n \in Users(f)
    \/ \E i \in DOMAIN Tests : i >= next /\ n \in Users(Tests[i].fixture)
    \/ pc = "remove" /\ \E i \in DOMAIN Members[fixture] : i <= at /\ n = Members[fixture][i]

\* A set-up that raised is an error of the session.
Warned == (broken # {} => told) /\ (pc = "idle" => broken = {})

\* A session without a warning so far will come to every user that is there.
Owed ==
    pc # "idle" /\ ~told =>
        \A n \in Names : directory[n] # None => n \in hidden \/ Pending(n)

ToldInv == Control /\ OfTests /\ Warned /\ Owed /\ OnlyFailedRemovals

-----------------------------------------------------------------------------
(* Passwords and sequences. *)

\* A function takes no more values than it has arguments.
LEMMA ValuesBounded ==
    ASSUME NEW S, IsFiniteSet(S), NEW f, f = [x \in S |-> f[x]]
    PROVE  LET T == {f[x] : x \in S}
           IN  IsFiniteSet(T) /\ Cardinality(T) \in Nat /\ Cardinality(T) <= Cardinality(S)
<1> DEFINE T == {f[x] : x \in S}
<1>1. f \in Surjection(S, T)
  BY DEF Surjection
<1>2. IsFiniteSet(T) /\ Cardinality(T) <= Cardinality(S)
  BY <1>1, FS_Surjection
<1>3. Cardinality(T) \in Nat
  BY <1>2, FS_CardinalityType
<1> QED BY <1>2, <1>3

\* make_test_users finds a password that nobody in sight has.
LEMMA PasswordLeft ==
    ASSUME NEW f \in Fixtures, creds[f] = None
    PROVE  \E p \in Passwords : Unused(p)
<1> DEFINE dirPw == [n \in Names |-> directory[n].pw]
           cachePw == [n \in Names |-> cache[n].pw]
           others == Fixtures \ {f}
           given == [g \in others |-> creds[g]]
           A == {dirPw[n] : n \in Names}
           B == {cachePw[n] : n \in Names}
           C == {given[g] : g \in others}
<1>1. /\ IsFiniteSet(A) /\ Cardinality(A) \in Nat
      /\ Cardinality(A) <= Cardinality(Names)
  <2>1. IsFiniteSet(Names) /\ dirPw = [n \in Names |-> dirPw[n]]
    BY TestUsersAssumption
  <2> HIDE DEF dirPw
  <2> QED BY ValuesBounded, <2>1
<1>2. /\ IsFiniteSet(B) /\ Cardinality(B) \in Nat
      /\ Cardinality(B) <= Cardinality(Names)
  <2>1. IsFiniteSet(Names) /\ cachePw = [n \in Names |-> cachePw[n]]
    BY TestUsersAssumption
  <2> HIDE DEF cachePw
  <2> QED BY ValuesBounded, <2>1
<1>3. /\ IsFiniteSet(others)
      /\ Cardinality(others) = Cardinality(Fixtures) - 1
  BY FS_RemoveElement, TestUsersAssumption
<1>4. /\ IsFiniteSet(C) /\ Cardinality(C) \in Nat
      /\ Cardinality(C) <= Cardinality(others)
  BY ValuesBounded, <1>3
<1>5. /\ Cardinality(Names) \in Nat
      /\ Cardinality(Fixtures) \in Nat
      /\ Cardinality(Passwords) \in Nat
  BY FS_CardinalityType, TestUsersAssumption
<1> HIDE DEF A, B, C, others
<1>6. /\ IsFiniteSet(A \cup B)
      /\ Cardinality(A \cup B) = Cardinality(A) + Cardinality(B) - Cardinality(A \cap B)
  BY <1>1, <1>2, FS_Union
<1>7. IsFiniteSet(A \cap B) /\ Cardinality(A \cap B) \in Nat
  BY <1>1, FS_Subset, FS_CardinalityType
<1>8. /\ IsFiniteSet((A \cup B) \cup C)
      /\ Cardinality((A \cup B) \cup C)
            = Cardinality(A \cup B) + Cardinality(C) - Cardinality((A \cup B) \cap C)
  BY <1>4, <1>6, FS_Union
<1>9. IsFiniteSet((A \cup B) \cap C) /\ Cardinality((A \cup B) \cap C) \in Nat
  BY <1>6, FS_Subset, FS_CardinalityType
<1>10. Cardinality((A \cup B) \cup C) < Cardinality(Passwords)
  BY <1>1, <1>2, <1>3, <1>4, <1>5, <1>6, <1>7, <1>8, <1>9, PasswordsAssumption
<1>11. ~(Passwords \subseteq (A \cup B) \cup C)
  <2> SUFFICES ASSUME Passwords \subseteq (A \cup B) \cup C PROVE FALSE
    OBVIOUS
  <2>1. Cardinality(Passwords) <= Cardinality((A \cup B) \cup C)
    BY <1>8, FS_Subset
  <2>2. Cardinality((A \cup B) \cup C) \in Nat
    BY <1>8, FS_CardinalityType
  <2> QED BY <2>1, <2>2, <1>5, <1>10
<1>12. PICK p \in Passwords : p \notin A /\ p \notin B /\ p \notin C
  BY <1>11
<1> USE DEF A, B, C, others
<1>13. \A n \in Names : directory[n].pw # p /\ cache[n].pw # p
  BY <1>12
<1>14. \A g \in Fixtures : creds[g] # p
  <2> TAKE g \in Fixtures
  <2>1. CASE g = f
    BY <2>1, <1>12, TestUsersAssumption
  <2>2. CASE g # f
    BY <2>2, <1>12
  <2> QED BY <2>1, <2>2
<1>15. Unused(p)
  BY <1>13, <1>14 DEF Unused
<1> QED BY <1>15

\* The elements of a sequence: of its head and tail, and with one appended.
LEMMA SequenceElems ==
    ASSUME NEW S, NEW s \in Seq(S)
    PROVE  /\ Elems(s) \subseteq S
           /\ s # <<>> => /\ Head(s) \in S /\ Tail(s) \in Seq(S)
                          /\ Elems(s) = {Head(s)} \cup Elems(Tail(s))
           /\ \A x \in S : Append(s, x) \in Seq(S) /\ Elems(Append(s, x)) = Elems(s) \cup {x}
<1>1. Elems(s) \subseteq S
  BY DEF Elems
<1>2. ASSUME s # <<>>
      PROVE  /\ Head(s) \in S /\ Tail(s) \in Seq(S)
             /\ Elems(s) = {Head(s)} \cup Elems(Tail(s))
  <2>1. Head(s) \in S /\ Tail(s) \in Seq(S) /\ Len(s) \in Nat \ {0}
    BY <1>2
  <2>2. /\ Len(Tail(s)) = Len(s) - 1
        /\ \A i \in 1 .. Len(s) - 1 : Tail(s)[i] = s[i + 1]
        /\ Head(s) = s[1]
    BY <1>2, <2>1
  <2>3. Elems(s) \subseteq {Head(s)} \cup Elems(Tail(s))
    <3> SUFFICES ASSUME NEW i \in 1 .. Len(s)
                 PROVE  s[i] \in {Head(s)} \cup Elems(Tail(s))
      BY DEF Elems
    <3>1. CASE i = 1
      BY <3>1, <2>2
    <3>2. CASE i # 1
      <4>1. i - 1 \in 1 .. Len(s) - 1 /\ Tail(s)[i - 1] = s[i]
        BY <3>2, <2>1, <2>2
      <4>2. i - 1 \in DOMAIN Tail(s)
        BY <4>1, <2>1, <2>2
      <4> QED BY <4>1, <4>2 DEF Elems
    <3> QED BY <3>1, <3>2
  <2>4. {Head(s)} \cup Elems(Tail(s)) \subseteq Elems(s)
    <3>1. 1 \in DOMAIN s
      BY <2>1
    <3>2. \A i \in DOMAIN Tail(s) : i + 1 \in DOMAIN s /\ Tail(s)[i] = s[i + 1]
      BY <2>1, <2>2
    <3> QED BY <3>1, <3>2, <2>2 DEF Elems
  <2> QED BY <2>1, <2>3, <2>4
<1>3. ASSUME NEW x \in S
      PROVE  Append(s, x) \in Seq(S) /\ Elems(Append(s, x)) = Elems(s) \cup {x}
  <2>1. /\ Append(s, x) \in Seq(S)
        /\ DOMAIN Append(s, x) = 1 .. Len(s) + 1
        /\ DOMAIN s = 1 .. Len(s) /\ Len(s) \in Nat
        /\ \A i \in 1 .. Len(s) : Append(s, x)[i] = s[i]
        /\ Append(s, x)[Len(s) + 1] = x
    OBVIOUS
  <2>2. DOMAIN Append(s, x) = DOMAIN s \cup {Len(s) + 1}
    BY <2>1
  <2> QED BY <2>1, <2>2 DEF Elems
<1> QED BY <1>1, <1>2, <1>3

\* The users of a fixture and the fixtures of the tests.
LEMMA Constants ==
    /\ \A f \in Fixtures : /\ Members[f] \in Seq(Names)
                           /\ Len(Members[f]) \in Nat \ {0}
                           /\ DOMAIN Members[f] = 1 .. Len(Members[f])
                           /\ \A i \in DOMAIN Members[f] : Members[f][i] \in Names
                           /\ Users(f) \subseteq Names
    /\ \A n \in Names : Groups[n] \in Seq(DOMAIN RoleOf)
    /\ Len(Tests) \in Nat /\ DOMAIN Tests = 1 .. Len(Tests)
    /\ \A i \in DOMAIN Tests : Tests[i].fixture \in Fixtures
    /\ None \notin Passwords /\ None \notin Fixtures /\ None \notin Snapshot
<1>1. ASSUME NEW f \in Fixtures
      PROVE  /\ Members[f] \in Seq(Names)
             /\ Len(Members[f]) \in Nat \ {0}
             /\ DOMAIN Members[f] = 1 .. Len(Members[f])
             /\ \A i \in DOMAIN Members[f] : Members[f][i] \in Names
             /\ Users(f) \subseteq Names
  <2>1. Members[f] \in Seq(Names) /\ Members[f] # <<>>
    BY TestUsersAssumption, MembersAssumption
  <2> QED BY <2>1 DEF Users, Elems
<1>2. \A n \in Names : Groups[n] \in Seq(DOMAIN RoleOf)
  BY TestUsersAssumption
<1>3. Len(Tests) \in Nat /\ DOMAIN Tests = 1 .. Len(Tests)
  BY TestUsersAssumption
<1>4. \A i \in DOMAIN Tests : Tests[i].fixture \in Fixtures
  <2> DEFINE Test == [fixture : Fixtures, who : Nat, service : STRING,
                      kind : {"hubble", "traefik", "token", "grafana", "gitlab"}]
  <2>1. Tests \in Seq(Test)
    BY TestUsersAssumption
  <2>2. \A t \in Test : t.fixture \in Fixtures
    OBVIOUS
  <2> HIDE DEF Test
  <2>3. \A i \in DOMAIN Tests : Tests[i] \in Test
    BY <2>1
  <2> QED BY <2>2, <2>3
<1>5. None \notin Passwords /\ None \notin Fixtures /\ None \notin Snapshot
  BY TestUsersAssumption DEF Snapshot
<1> QED BY <1>1, <1>2, <1>3, <1>4, <1>5

-----------------------------------------------------------------------------
(* Types and control. *)

LEMMA ToldType == told \in BOOLEAN /\ [Next]_vars => told' \in BOOLEAN
<1> SUFFICES ASSUME told \in BOOLEAN, [Next]_vars PROVE told' \in BOOLEAN
  OBVIOUS
<1>1. told' = told \/ told' = TRUE \/ told' = FALSE
  BY DEF Next, vars, Keycloak, Pytest, Faults, Import, Expire, Start, Request, UserDel,
         UserAdd, Passwd, GroupAdd, NextUser, WaitForSync, ClearCache, RunTest,
         TestErrors, Teardown, RemoveUser, RemoveWarn, ChannelFails, GroupUnsettled,
         ClearFails, Kill, Raise
<1> QED BY <1>1, Zenon

\* The user the session is at, during set-up and teardown.
LEMMA WhoIsUser ==
    ASSUME Control, SettingUp \/ pc = "remove"
    PROVE  /\ fixture \in Fixtures
           /\ at \in 1 .. Len(Members[fixture])
           /\ Len(Members[fixture]) \in Nat
           /\ Who = Members[fixture][at]
           /\ Who \in Names
BY Constants DEF Control, Place, Who

\* Nothing is asked for and nothing is set up.
LEMMA AskedKept ==
    ASSUME Asked, UNCHANGED <<creds, stack, next>>, SettingUp' => SettingUp
    PROVE  Asked'
BY DEF Asked, Reached, Awaited

\* The end of the process forgets all there was to keep.
LEMMA ControlExit ==
    ASSUME Control, Exit, UNCHANGED <<estate, hidden>>, told' \in BOOLEAN
    PROVE  Control'
<1>1. TypeOK'
  <2>1. /\ directory' \in [Names -> Snapshot \cup {None}]
        /\ cache' \in [Names -> Snapshot \cup {None}]
        /\ hidden' \subseteq Names
    BY DEF Control, TypeOK, estate
  <2>2. creds' \in [Fixtures -> Passwords \cup {None}]
    BY DEF Exit
  <2>3. /\ pc' = "idle" /\ broken' \subseteq Fixtures
        /\ fixture' \in Fixtures \cup {None}
        /\ next' \in 1 .. Len(Tests) + 1 /\ attempt' \in 0 .. Settles
    BY Constants, TestUsersAssumption DEF Exit
  <2> QED BY <2>1, <2>2, <2>3 DEF TypeOK
<1>2. Place'
  BY DEF Exit, Place, SettingUp
<1>3. Asked'
  BY DEF Exit, Asked, SettingUp, Elems
<1> QED BY <1>1, <1>2, <1>3 DEF Control

LEMMA ControlInit == Init => Control
<1> SUFFICES ASSUME Init PROVE Control
  OBVIOUS
<1>1. TypeOK
  <2>1. told \in BOOLEAN
    BY Zenon DEF Init
  <2> QED BY <2>1, Constants, TestUsersAssumption DEF Init, TypeOK
<1>2. Place
  BY DEF Init, Place, SettingUp
<1>3. Asked
  BY DEF Init, Asked, SettingUp, Elems
<1> QED BY <1>1, <1>2, <1>3 DEF Control

\* A command of the set-up fails: the fixture is given up.
LEMMA ControlRaise ==
    ASSUME Control, SettingUp, Raise, told' \in BOOLEAN, attempt' = attempt,
           UNCHANGED <<estate, next, creds, stack, fixture, at, left, hidden>>
    PROVE  Control'
<1>1. TypeOK'
  BY WhoIsUser DEF Control, TypeOK, Raise, estate
<1>2. Place'
  BY DEF Control, Place, Raise, SettingUp
<1>3. Asked'
  BY AskedKept DEF Control, Raise, SettingUp
<1> QED BY <1>1, <1>2, <1>3 DEF Control

LEMMA ControlKeycloak == Control /\ told' \in BOOLEAN /\ Keycloak => Control'
<1> SUFFICES ASSUME Control, told' \in BOOLEAN, NEW n \in Names, Import(n) \/ Expire(n)
             PROVE  Control'
  BY DEF Keycloak
<1>1. /\ UNCHANGED <<directory, rows, pc, next, creds, broken, stack, setup, report,
                     told, hidden, budget>>
      /\ cache' \in [Names -> Snapshot \cup {None}]
  BY DEF Import, Expire, Control, TypeOK
<1>2. TypeOK'
  BY <1>1 DEF Control, TypeOK, setup
<1>3. Place'
  BY <1>1 DEF Control, Place, SettingUp, Who, setup
<1>4. Asked'
  BY <1>1, AskedKept DEF Control, SettingUp
<1> QED BY <1>2, <1>3, <1>4 DEF Control

\* A fixture that is asked for is the only one that tests to come ask for.
LEMMA ControlRequest == Control /\ told' \in BOOLEAN /\ Request => Control'
<1> SUFFICES ASSUME Control, told' \in BOOLEAN, Request PROVE Control'
  OBVIOUS
<1> DEFINE f == Tests[next].fixture
           p == CHOOSE q \in Passwords : Unused(q)
<1>1. next \in DOMAIN Tests /\ f \in Fixtures
  BY Constants DEF Request, Control, TypeOK
<1>2. fixture' = f /\ creds[f] = None
  BY DEF Request
<1>3. p \in Passwords
  BY <1>1, <1>2, PasswordLeft
<1>4. creds' = [creds EXCEPT ![f] = p]
  BY DEF Request
<1>5. /\ pc' = "del" /\ at' = 1
      /\ UNCHANGED <<estate, next, broken, stack, left, attempt, report, told, hidden,
                     budget>>
  BY DEF Request
<1> HIDE DEF p, f
<1>6. /\ creds' \in [Fixtures -> Passwords \cup {None}]
      /\ creds'[f] # None
      /\ \A g \in Fixtures : g # f => creds'[g] = creds[g]
  BY <1>1, <1>3, <1>4, Constants DEF Control, TypeOK
<1>7. TypeOK'
  BY <1>1, <1>2, <1>5, <1>6 DEF Control, TypeOK, estate
<1>8. Place'
  <2>1. at' \in DOMAIN Members[f]
    BY <1>1, <1>5, Constants
  <2>2. next' \in DOMAIN Tests /\ fixture' = Tests[next'].fixture
    BY <1>1, <1>2, <1>5 DEF f
  <2> QED BY <2>1, <2>2, <1>2, <1>5, <1>6 DEF Control, Place
<1>9. Asked'
  <2>1. Elems(stack) \subseteq Fixtures
    BY SequenceElems DEF Control, Place
  <2>2. \A g \in Fixtures : creds'[g] # None => Reached(g)'
    <3> SUFFICES ASSUME NEW g \in Fixtures, creds'[g] # None PROVE Reached(g)'
      OBVIOUS
    <3>1. CASE g = f
      <4>1. next <= next /\ Tests[next].fixture = g
        BY <3>1, <1>1, Constants DEF f
      <4> QED BY <4>1, <1>1, <1>5 DEF Reached
    <3>2. CASE g # f
      BY <3>2, <1>5, <1>6 DEF Control, Asked, Reached
    <3> QED BY <3>1, <3>2
  <2>3. \A g \in Elems(stack) : creds[g] # None /\ g # f
    BY <1>2 DEF Control, Asked
  <2>4. \A g \in Elems(stack) : ~Awaited(g)
    <3> SUFFICES ASSUME NEW g \in Elems(stack), Awaited(g) PROVE FALSE
      OBVIOUS
    <3>1. PICK i \in DOMAIN Tests : i <= next /\ Tests[i].fixture = g
      BY <2>1, <2>3 DEF Control, Asked, Reached
    <3>2. PICK k \in DOMAIN Tests : k >= next /\ Tests[k].fixture = g
      BY DEF Awaited
    <3>3. i # next /\ k # next
      BY <2>3, <3>1, <3>2 DEF f
    <3>4. i < next /\ next < k
      BY <3>1, <3>2, <3>3, <1>1, Constants
    <3>5. Tests[next].fixture = g
      BY <3>1, <3>2, <3>4, <1>1, TogetherAssumption
    <3> QED BY <3>5, <2>3 DEF f
  <2> QED BY <2>1, <2>2, <2>3, <2>4, <1>5, <1>6 DEF Asked, Awaited
<1> QED BY <1>7, <1>8, <1>9 DEF Control

\* The commands of the set-up, which work on one user.
LEMMA ControlSetup ==
    ASSUME Control, told' \in BOOLEAN,
           UserDel \/ UserAdd \/ Passwd \/ GroupAdd \/ NextUser
    PROVE  Control'
<1>1. SettingUp /\ pc \in {"del", "add", "passwd", "group"}
  BY DEF UserDel, UserAdd, Passwd, GroupAdd, NextUser, SettingUp
<1>2. /\ fixture \in Fixtures /\ at \in 1 .. Len(Members[fixture])
      /\ Len(Members[fixture]) \in Nat /\ Who \in Names
      /\ DOMAIN Members[fixture] = 1 .. Len(Members[fixture])
  BY <1>1, WhoIsUser, Constants
<1>3. directory \in [Names -> Snapshot \cup {None}] /\ creds[fixture] \in Passwords \cup {None}
  BY <1>2 DEF Control, TypeOK
<1>4. CASE UserDel
  <2>1. directory' \in [Names -> Snapshot \cup {None}]
    BY <1>2, <1>3, <1>4 DEF UserDel
  <2>2. TypeOK'
    BY <2>1, <1>4 DEF UserDel, Control, TypeOK, setup
  <2>3. Place'
    BY <1>1, <1>4 DEF UserDel, Control, Place, SettingUp, setup
  <2>4. Asked'
    BY <1>1, <1>4, AskedKept DEF UserDel, Control
  <2> QED BY <2>2, <2>3, <2>4 DEF Control
<1>5. CASE UserAdd /\ directory[Who] # None
  BY <1>1, <1>5, ControlRaise DEF UserAdd, setup, estate
<1>6. CASE UserAdd /\ directory[Who] = None
  <2>1. /\ directory' = [directory EXCEPT ![Who] = [pw |-> None, groups |-> {}]]
        /\ pc' = "passwd" /\ UNCHANGED <<broken, told, cache, next, creds, stack, setup, hidden>>
    BY <1>6 DEF UserAdd
  <2>2. /\ directory' \in [Names -> Snapshot \cup {None}]
        /\ directory'[Who] = [pw |-> None, groups |-> {}]
    BY <2>1, <1>2, <1>3 DEF Snapshot
  <2>3. TypeOK'
    BY <2>1, <2>2 DEF Control, TypeOK, setup
  <2>4. Place'
    <3>1. pc' = "passwd" /\ directory'[Who'] = [pw |-> None, groups |-> {}]
      BY <2>1, <2>2 DEF Who, setup
    <3> QED BY <3>1, <1>1, <2>1 DEF Control, Place, SettingUp, setup
  <2>5. Asked'
    BY <1>1, <2>1, AskedKept DEF Control
  <2> QED BY <2>3, <2>4, <2>5 DEF Control
<1>7. CASE Passwd
  <2>1. directory[Who] = [pw |-> None, groups |-> {}]
    BY <1>7 DEF Passwd, Control, Place
  <2>2. directory' = [directory EXCEPT ![Who] = [pw |-> creds[fixture], groups |-> {}]]
    <3>1. directory' = [directory EXCEPT ![Who] = [directory[Who] EXCEPT !.pw = creds[fixture]]]
      BY <1>7 DEF Passwd
    <3>2. [directory[Who] EXCEPT !.pw = creds[fixture]] = [pw |-> creds[fixture], groups |-> {}]
      BY <2>1
    <3> QED BY <3>1, <3>2, Zenon
  <2>3. [pw |-> creds[fixture], groups |-> {}] \in Snapshot
    BY <1>3 DEF Snapshot
  <2>4. /\ directory' \in [Names -> Snapshot \cup {None}]
        /\ directory'[Who] # None
    BY <2>2, <2>3, <1>2, <1>3, Constants
  <2>5. /\ pc' = "group" /\ left' = Groups[Who] /\ attempt' = 0
        /\ UNCHANGED <<cache, next, creds, broken, stack, fixture, at, told, hidden>>
    BY <1>7 DEF Passwd
  <2>6. TypeOK'
    BY <2>4, <2>5, TestUsersAssumption DEF Control, TypeOK
  <2>7. Place'
    <3>1. left' \in Seq(DOMAIN RoleOf)
      BY <2>5, <1>2, Constants
    <3> QED BY <3>1, <1>1, <2>4, <2>5 DEF Control, Place, SettingUp, Who
  <2>8. Asked'
    BY <1>1, <2>5, AskedKept DEF Control
  <2> QED BY <2>6, <2>7, <2>8 DEF Control
<1>8. CASE GroupAdd
  <2>1. directory[Who] \in Snapshot
    BY <1>8, <1>2, <1>3 DEF GroupAdd, Control, Place
  <2>2. Head(left) \in DOMAIN RoleOf /\ Tail(left) \in Seq(DOMAIN RoleOf)
    BY <1>8, SequenceElems DEF GroupAdd, Control, Place
  <2>3. directory' = [directory EXCEPT ![Who] =
                        [directory[Who] EXCEPT !.groups = @ \cup {Head(left)}]]
    BY <1>8, <1>3, <1>2, <2>1 DEF GroupAdd, Snapshot
  <2>4. [directory[Who] EXCEPT !.groups = @ \cup {Head(left)}] \in Snapshot
    BY <2>1, <2>2 DEF Snapshot
  <2>5. /\ directory' \in [Names -> Snapshot \cup {None}]
        /\ directory'[Who] # None
    BY <2>3, <2>4, <1>2, <1>3, Constants
  <2>6. /\ pc = "group" /\ left' = Tail(left) /\ attempt' = 0
        /\ UNCHANGED <<cache, pc, next, creds, broken, stack, fixture, at, told, hidden>>
    BY <1>8 DEF GroupAdd
  <2>7. TypeOK'
    BY <2>5, <2>6, TestUsersAssumption DEF Control, TypeOK
  <2>8. Place'
    BY <1>1, <2>2, <2>5, <2>6 DEF Control, Place, SettingUp, Who
  <2>9. Asked'
    BY <1>1, <2>6, AskedKept DEF Control
  <2> QED BY <2>7, <2>8, <2>9 DEF Control
<1>9. CASE NextUser
  <2>1. /\ UNCHANGED <<estate, next, creds, broken, stack, fixture, left, attempt, told, hidden>>
        /\ pc' \in {"del", "wait"}
        /\ at' \in 1 .. Len(Members[fixture])
    BY <1>9, <1>2 DEF NextUser
  <2>2. TypeOK'
    BY <2>1 DEF Control, TypeOK, estate
  <2>3. Place'
    BY <2>1, <1>1, <1>2 DEF Control, Place, SettingUp
  <2>4. Asked'
    BY <1>1, <2>1, AskedKept DEF Control
  <2> QED BY <2>2, <2>3, <2>4 DEF Control
<1> QED BY <1>4, <1>5, <1>6, <1>7, <1>8, <1>9

\* The wait and the flush that end a set-up.
LEMMA ControlSettle ==
    ASSUME Control, told' \in BOOLEAN, WaitForSync \/ ClearCache
    PROVE  Control'
<1>1. SettingUp
  BY DEF WaitForSync, ClearCache, SettingUp
<1>2. cache' \in [Names -> Snapshot \cup {None}]
  <2>1. CASE WaitForSync
    <3>1. PICK fresh \in SUBSET Names :
             cache' = [n \in Names |-> IF n \in fresh THEN directory[n] ELSE None]
      BY <2>1 DEF WaitForSync
    <3> QED BY <3>1 DEF Control, TypeOK
  <2>2. CASE ClearCache
    BY <2>2 DEF ClearCache
  <2> QED BY <2>1, <2>2
<1>3. TypeOK'
  BY <1>2 DEF WaitForSync, ClearCache, Control, TypeOK, setup
<1>4. CASE WaitForSync
  <2>1. Place'
    BY <1>4 DEF WaitForSync, Control, Place, SettingUp, setup
  <2>2. Asked'
    BY <1>1, <1>4, AskedKept DEF WaitForSync, Control
  <2> QED BY <1>3, <2>1, <2>2 DEF Control
<1>5. CASE ClearCache
  <2>1. /\ pc' = "test" /\ stack' = Append(stack, fixture)
        /\ UNCHANGED <<directory, next, creds, setup>>
    BY <1>5 DEF ClearCache
  <2>2. fixture \in Fixtures
    BY <1>1, WhoIsUser
  <2>3. stack' \in Seq(Fixtures) /\ Elems(stack') = Elems(stack) \cup {fixture}
    BY <2>1, <2>2, SequenceElems DEF Control, Place
  <2>4. Place'
    BY <2>1, <2>3 DEF Control, Place, SettingUp, setup
  <2>5. Asked'
    BY <1>1, <2>1, <2>3 DEF Control, Place, Asked, SettingUp, Reached
  <2> QED BY <1>3, <2>4, <2>5 DEF Control
<1> QED BY <1>4, <1>5

\* The tests, and the session between them.
LEMMA ControlTests ==
    ASSUME Control, told' \in BOOLEAN, Start \/ RunTest \/ TestErrors
    PROVE  Control'
<1>1. /\ UNCHANGED <<directory, cache, creds, broken, stack, setup>>
      /\ pc' = "test" /\ hidden' \in {hidden, {}}
      /\ next' \in {next, next + 1}
      /\ next' \in 1 .. Len(Tests) + 1
  <2>1. next \in 1 .. Len(Tests) + 1 /\ Len(Tests) \in Nat
    BY Constants DEF Control, TypeOK
  <2> QED BY <2>1 DEF Start, RunTest, TestErrors, estate
<1>2. TypeOK'
  BY <1>1 DEF Control, TypeOK, setup
<1>3. Place'
  BY <1>1 DEF Control, Place, SettingUp, setup
<1>4. Asked'
  <2>1. \A f : Reached(f) => Reached(f)'
    BY <1>1, Constants DEF Reached, Control, TypeOK
  <2> QED BY <1>1, <2>1 DEF Control, Asked, SettingUp
<1> QED BY <1>2, <1>3, <1>4 DEF Control

\* The teardown of a fixture, and the end of the session.
LEMMA ControlTeardown == Control /\ told' \in BOOLEAN /\ Teardown => Control'
<1> SUFFICES ASSUME Control, told' \in BOOLEAN, Teardown PROVE Control'
  OBVIOUS
<1>1. CASE stack = <<>>
  BY <1>1, ControlExit DEF Teardown
<1>2. CASE stack # <<>>
  <2>1. /\ pc' = "remove" /\ fixture' = stack[Len(stack)]
        /\ stack' = SubSeq(stack, 1, Len(stack) - 1)
        /\ at' = Len(Members[fixture'])
        /\ UNCHANGED <<next, creds, broken, left, attempt, report, estate, told, hidden>>
    BY <1>2 DEF Teardown
  <2>2. next = Len(Tests) + 1
    BY Constants DEF Teardown, Control, TypeOK
  <2>3. Len(stack) \in Nat \ {0}
    BY <1>2 DEF Control, Place
  <2>4. /\ fixture' \in Fixtures /\ stack' \in Seq(Fixtures)
        /\ \A i \in DOMAIN stack' : i \in DOMAIN stack /\ stack'[i] = stack[i]
    BY <2>1, <2>3 DEF Control, Place
  <2>5. at' \in DOMAIN Members[fixture'] /\ at' \in Nat
    BY <2>1, <2>4, Constants
  <2>6. Elems(stack') \subseteq Elems(stack)
    BY <2>4 DEF Elems
  <2>7. TypeOK'
    BY <2>1, <2>4 DEF Control, TypeOK, estate
  <2>8. Place'
    BY <2>1, <2>2, <2>4, <2>5 DEF Control, Place, SettingUp
  <2>9. Asked'
    BY <2>1, <2>6 DEF Control, Asked, SettingUp, Reached
  <2> QED BY <2>7, <2>8, <2>9 DEF Control
<1> QED BY <1>1, <1>2

LEMMA ControlRemove == Control /\ told' \in BOOLEAN /\ RemoveUser => Control'
<1> SUFFICES ASSUME Control, told' \in BOOLEAN, RemoveUser PROVE Control'
  OBVIOUS
<1>1. /\ pc = "remove" /\ pc' \in {"remove", "test"}
      /\ UNCHANGED <<cache, next, creds, broken, stack, fixture, left, attempt>>
  BY DEF RemoveUser
<1>2. /\ fixture \in Fixtures /\ at \in 1 .. Len(Members[fixture])
      /\ Len(Members[fixture]) \in Nat /\ Who \in Names
      /\ DOMAIN Members[fixture] = 1 .. Len(Members[fixture])
  BY <1>1, WhoIsUser, Constants
<1>3. at' \in 1 .. Len(Members[fixture])
  BY <1>2 DEF RemoveUser
<1>4. hidden' \subseteq Names
  BY <1>2 DEF RemoveUser, Unremoved, Control, TypeOK
<1>5. directory' \in [Names -> Snapshot \cup {None}]
  <2>1. directory \in [Names -> Snapshot \cup {None}]
    BY DEF Control, TypeOK
  <2>2. CASE directory' = directory
    BY <2>1, <2>2
  <2>3. CASE directory' = [directory EXCEPT ![Who] = None]
    BY <2>1, <2>3, <1>2
  <2>4. ASSUME directory[Who] # None, NEW gs \in SUBSET directory[Who].groups,
               directory' = [directory EXCEPT ![Who].groups = gs]
        PROVE  directory' \in [Names -> Snapshot \cup {None}]
    <3>1. directory[Who] \in Snapshot
      BY <2>1, <2>4, <1>2
    <3>2. directory' = [directory EXCEPT ![Who] = [directory[Who] EXCEPT !.groups = gs]]
      BY <2>4
    <3>3. [directory[Who] EXCEPT !.groups = gs] \in Snapshot
      BY <2>4, <3>1 DEF Snapshot
    <3> QED BY <3>2, <3>3, <2>1, <1>2
  <2> QED BY <2>2, <2>3, <2>4 DEF RemoveUser
<1>6. TypeOK'
  BY <1>1, <1>4, <1>5 DEF Control, TypeOK
<1>7. Place'
  BY <1>1, <1>2, <1>3 DEF Control, Place, SettingUp
<1>8. Asked'
  BY <1>1, AskedKept DEF Control, SettingUp
<1> QED BY <1>6, <1>7, <1>8 DEF Control

LEMMA ControlFaults == Control /\ told' \in BOOLEAN /\ Faults => Control'
<1> SUFFICES ASSUME Control, told' \in BOOLEAN, Faults PROVE Control'
  OBVIOUS
<1>1. CASE ChannelFails
  BY <1>1, ControlRaise DEF ChannelFails, SettingUp, setup
<1>2. CASE GroupUnsettled /\ attempt < Settles
  <2>1. /\ pc = "group" /\ attempt' = attempt + 1
        /\ UNCHANGED <<estate, next, creds, stack, fixture, at, left, hidden, pc, broken, told>>
    BY <1>2 DEF GroupUnsettled
  <2>2. attempt' \in 0 .. Settles
    BY <1>2, <2>1, TestUsersAssumption DEF Control, TypeOK
  <2>3. TypeOK'
    BY <2>1, <2>2 DEF Control, TypeOK, estate
  <2>4. Place'
    BY <2>1 DEF Control, Place, SettingUp, Who, estate
  <2>5. Asked'
    BY <2>1, AskedKept DEF Control, SettingUp
  <2> QED BY <2>3, <2>4, <2>5 DEF Control
<1>3. CASE GroupUnsettled /\ ~(attempt < Settles)
  BY <1>3, ControlRaise DEF GroupUnsettled, SettingUp
<1>4. CASE ClearFails
  BY <1>4, ControlRaise DEF ClearFails, SettingUp, setup
<1>5. CASE Kill
  BY <1>5, ControlExit DEF Kill
<1> QED BY <1>1, <1>2, <1>3, <1>4, <1>5 DEF Faults

LEMMA ControlStep == Control /\ [Next]_vars => Control'
<1> SUFFICES ASSUME Control, [Next]_vars PROVE Control'
  OBVIOUS
<1>1. told' \in BOOLEAN
  BY ToldType DEF Control, TypeOK
<1>2. CASE UNCHANGED vars
  <2>1. TypeOK' /\ Place'
    BY <1>1, <1>2 DEF Control, TypeOK, Place, SettingUp, Who, vars
  <2>2. Asked'
    BY <1>2, AskedKept DEF Control, SettingUp, vars
  <2> QED BY <2>1, <2>2 DEF Control
<1>3. CASE Keycloak
  BY <1>1, <1>3, ControlKeycloak
<1>4. CASE Start
  BY <1>1, <1>4, ControlTests
<1>5. CASE Pytest
  BY <1>1, <1>5, ControlRequest, ControlSetup, ControlSettle, ControlTests, ControlTeardown,
     ControlRemove DEF Pytest
<1>6. CASE Faults
  BY <1>1, <1>6, ControlFaults
<1> QED BY <1>2, <1>3, <1>4, <1>5, <1>6 DEF Next

\* Every variable has its type, in every session: in particular a fixture always
\* gets a password that no import and no user left behind still has.
THEOREM TypeCorrect == Spec => []TypeOK
<1>1. Control => TypeOK
  BY DEF Control
<1> QED BY <1>1, ControlInit, ControlStep, PTL DEF Spec

-----------------------------------------------------------------------------
(* What a session leaves behind. *)

\* While a session sets fixtures up, only users of the next test's fixture appear.
LEMMA OwedGrows ==
    ASSUME ToldInv,
           pc \notin {"idle", "remove"}, pc' # "idle",
           ~told' => ~told,
           UNCHANGED <<next, hidden>>, Elems(stack) \subseteq Elems(stack'),
           \A n \in Names : directory'[n] # None =>
               \/ directory[n] # None
               \/ next \in DOMAIN Tests /\ n \in Users(Tests[next].fixture)
    PROVE  OfTests' /\ Owed' /\ OnlyFailedRemovals'
<1>1. OfTests'
  BY DEF ToldInv, OfTests
<1>2. Owed'
  <2> SUFFICES ASSUME ~told', NEW n \in Names, directory'[n] # None
               PROVE  n \in hidden' \/ Pending(n)'
    BY DEF Owed
  <2>1. CASE directory[n] # None
    <3>1. n \in hidden \/ Pending(n)
      BY <2>1 DEF ToldInv, Owed
    <3> QED BY <3>1 DEF Pending
  <2>2. CASE next \in DOMAIN Tests /\ n \in Users(Tests[next].fixture)
    <3>1. next >= next
      BY <2>2, Constants
    <3> QED BY <2>2, <3>1 DEF Pending
  <2> QED BY <2>1, <2>2
<1>3. OnlyFailedRemovals'
  BY DEF OnlyFailedRemovals
<1> QED BY <1>1, <1>2, <1>3

LEMMA ToldKeycloak == ToldInv /\ Keycloak => (OfTests /\ Warned /\ Owed /\ OnlyFailedRemovals)'
<1> SUFFICES ASSUME ToldInv, NEW n \in Names, Import(n) \/ Expire(n)
             PROVE  (OfTests /\ Warned /\ Owed /\ OnlyFailedRemovals)'
  BY DEF Keycloak
<1>1. UNCHANGED <<directory, pc, next, broken, stack, fixture, at, told, hidden>>
  BY DEF Import, Expire, setup
<1>2. OfTests' /\ Warned'
  BY <1>1 DEF ToldInv, OfTests, Warned
<1>3. Owed' /\ OnlyFailedRemovals'
  BY <1>1 DEF ToldInv, Owed, Pending, OnlyFailedRemovals
<1> QED BY <1>2, <1>3

\* A new session owes the removal of whatever earlier ones left behind.
LEMMA ToldStart == ToldInv /\ Start => (OfTests /\ Warned /\ Owed /\ OnlyFailedRemovals)'
<1> SUFFICES ASSUME ToldInv, Start PROVE (OfTests /\ Warned /\ Owed /\ OnlyFailedRemovals)'
  OBVIOUS
<1>1. /\ pc = "idle" /\ pc' = "test" /\ next = 1 /\ broken = {}
      /\ UNCHANGED <<directory, next, broken, stack>>
  BY DEF Start, ToldInv, Warned, Control, Place, estate
<1>2. OfTests'
  BY <1>1 DEF ToldInv, OfTests
<1>3. Warned' /\ OnlyFailedRemovals'
  BY <1>1 DEF Warned, OnlyFailedRemovals
<1>4. \A n \in Names : directory'[n] # None => Pending(n)'
  <2> SUFFICES ASSUME NEW n \in Names, directory'[n] # None PROVE Pending(n)'
    OBVIOUS
  <2>1. PICK i \in DOMAIN Tests : n \in Users(Tests[i].fixture)
    BY <1>1 DEF ToldInv, OfTests
  <2>2. i >= next'
    BY <1>1, Constants
  <2> QED BY <2>1, <2>2 DEF Pending
<1> QED BY <1>2, <1>3, <1>4 DEF Owed

LEMMA ToldSetup ==
    ASSUME ToldInv,
           \/ Request \/ UserDel \/ UserAdd \/ Passwd \/ GroupAdd \/ NextUser
           \/ WaitForSync \/ ClearCache \/ ChannelFails \/ GroupUnsettled \/ ClearFails
    PROVE  (OfTests /\ Warned /\ Owed /\ OnlyFailedRemovals)'
<1>1. pc \notin {"idle", "remove"} /\ pc' # "idle"
  BY DEF Request, UserDel, UserAdd, Passwd, GroupAdd, NextUser, WaitForSync, ClearCache,
         ChannelFails, GroupUnsettled, ClearFails, Raise
<1>2. UNCHANGED <<next, hidden>>
  BY DEF Request, UserDel, UserAdd, Passwd, GroupAdd, NextUser, WaitForSync, ClearCache,
         ChannelFails, GroupUnsettled, ClearFails
<1>3. (UNCHANGED <<broken, told>>) \/ told'
  BY DEF Request, UserDel, UserAdd, Passwd, GroupAdd, NextUser, WaitForSync, ClearCache,
         ChannelFails, GroupUnsettled, ClearFails, Raise
<1>4. Warned' /\ (~told' => ~told)
  BY <1>1, <1>3 DEF ToldInv, Warned
<1>5. Elems(stack) \subseteq Elems(stack')
  <2>1. CASE stack' = stack
    BY <2>1
  <2>2. CASE ClearCache
    <3>1. fixture \in Fixtures
      BY <2>2, WhoIsUser DEF ClearCache, SettingUp, ToldInv
    <3> QED BY <2>2, <3>1, SequenceElems DEF ClearCache, ToldInv, Control, Place
  <2> QED BY <2>1, <2>2 DEF Request, UserDel, UserAdd, Passwd, GroupAdd, NextUser,
                            WaitForSync, ChannelFails, GroupUnsettled, ClearFails
<1>6. ASSUME NEW n \in Names, directory'[n] # None
      PROVE  \/ directory[n] # None
             \/ next \in DOMAIN Tests /\ n \in Users(Tests[next].fixture)
  <2>1. CASE directory' = directory
    BY <2>1, <1>6
  <2>2. CASE pc \in {"del", "add", "passwd", "group"} /\ \A m \in Names \ {Who} : directory'[m] = directory[m]
    <3>1. CASE n # Who
      BY <2>2, <3>1, <1>6
    <3>2. CASE n = Who
      <4>1. SettingUp
        BY <2>2 DEF SettingUp
      <4>2. fixture = Tests[next].fixture /\ next \in DOMAIN Tests /\ at \in DOMAIN Members[fixture]
        BY <4>1 DEF ToldInv, Control, Place
      <4> QED BY <4>2, <3>2 DEF Who, Users, Elems
    <3> QED BY <3>1, <3>2
  <2>3. directory' = directory \/ \A m \in Names \ {Who} : directory'[m] = directory[m]
    <3>1. directory \in [Names -> Snapshot \cup {None}]
      BY DEF ToldInv, Control, TypeOK
    <3> QED BY <3>1 DEF Request, UserDel, UserAdd, Passwd, GroupAdd, NextUser, WaitForSync,
                        ClearCache, ChannelFails, GroupUnsettled, ClearFails, estate
  <2>4. directory' = directory \/ pc \in {"del", "add", "passwd", "group"}
    BY DEF Request, UserDel, UserAdd, Passwd, GroupAdd, NextUser, WaitForSync,
           ClearCache, ChannelFails, GroupUnsettled, ClearFails, estate
  <2> QED BY <2>1, <2>2, <2>3, <2>4
<1>7. OfTests' /\ Owed' /\ OnlyFailedRemovals'
  BY <1>1, <1>2, <1>4, <1>5, <1>6, OwedGrows
<1> QED BY <1>4, <1>7

\* A test that ran has its fixture on the stack; one that errored was announced.
LEMMA ToldTests == ToldInv /\ (RunTest \/ TestErrors) => (OfTests /\ Warned /\ Owed /\ OnlyFailedRemovals)'
<1> SUFFICES ASSUME ToldInv, RunTest \/ TestErrors
             PROVE  (OfTests /\ Warned /\ Owed /\ OnlyFailedRemovals)'
  OBVIOUS
<1>1. /\ pc = "test" /\ pc' = "test" /\ next' = next + 1 /\ next \in DOMAIN Tests
      /\ UNCHANGED <<directory, broken, stack, told, hidden>>
  BY Constants DEF RunTest, TestErrors, estate, ToldInv, Control, TypeOK
<1>2. OfTests' /\ Warned' /\ OnlyFailedRemovals'
  BY <1>1 DEF ToldInv, OfTests, Warned, OnlyFailedRemovals
<1>3. told \/ Tests[next].fixture \in Elems(stack)
  <2>1. CASE RunTest
    BY <2>1 DEF RunTest, Elems
  <2>2. CASE TestErrors
    BY <2>2 DEF TestErrors, ToldInv, Warned
  <2> QED BY <2>1, <2>2
<1>4. Owed'
  <2> SUFFICES ASSUME ~told, NEW n \in Names, directory[n] # None, n \notin hidden
               PROVE  Pending(n)'
    BY <1>1 DEF Owed
  <2>1. Pending(n)
    BY <1>1 DEF ToldInv, Owed
  <2>2. CASE \E f \in Elems(stack) : n \in Users(f)
    BY <2>2, <1>1 DEF Pending
  <2>3. ASSUME NEW i \in DOMAIN Tests, i >= next, n \in Users(Tests[i].fixture)
        PROVE  Pending(n)'
    <3>1. CASE i = next
      BY <3>1, <2>3, <1>1, <1>3 DEF Pending
    <3>2. CASE i # next
      <4>1. i >= next'
        BY <3>2, <2>3, <1>1, Constants
      <4> QED BY <4>1, <2>3 DEF Pending
    <3> QED BY <3>1, <3>2
  <2> QED BY <2>1, <2>2, <2>3, <1>1 DEF Pending
<1> QED BY <1>2, <1>4

LEMMA ToldTeardown == ToldInv /\ Teardown => (OfTests /\ Warned /\ Owed /\ OnlyFailedRemovals)'
<1> SUFFICES ASSUME ToldInv, Teardown PROVE (OfTests /\ Warned /\ Owed /\ OnlyFailedRemovals)'
  OBVIOUS
<1>1. /\ pc = "test" /\ next > Len(Tests)
      /\ UNCHANGED <<directory, told, hidden>>
  BY DEF Teardown, estate
<1>2. \A i \in DOMAIN Tests : ~(i >= next)
  BY <1>1, Constants DEF ToldInv, Control, TypeOK
<1>3. OfTests'
  BY <1>1 DEF ToldInv, OfTests
<1>4. ASSUME ~told, NEW n \in Names, directory[n] # None, n \notin hidden
      PROVE  \E f \in Elems(stack) : n \in Users(f)
  BY <1>1, <1>2, <1>4 DEF ToldInv, Owed, Pending
<1>5. CASE stack = <<>>
  <2>1. pc' = "idle" /\ broken' = {}
    BY <1>5 DEF Teardown, Exit
  <2>2. Elems(stack) = {}
    BY <1>5 DEF Elems
  <2>3. OnlyFailedRemovals'
    BY <1>1, <1>4, <2>2 DEF OnlyFailedRemovals
  <2> QED BY <1>3, <2>1, <2>3 DEF Warned, Owed
<1>6. CASE stack # <<>>
  <2>1. /\ pc' = "remove" /\ fixture' = stack[Len(stack)]
        /\ stack' = SubSeq(stack, 1, Len(stack) - 1)
        /\ at' = Len(Members[fixture']) /\ UNCHANGED broken
    BY <1>6 DEF Teardown
  <2>2. stack \in Seq(Fixtures) /\ Len(stack) \in Nat \ {0}
    BY <1>6 DEF ToldInv, Control, Place
  <2>3. fixture' \in Fixtures
    BY <2>1, <2>2
  <2>4. Warned' /\ OnlyFailedRemovals'
    BY <2>1, <1>1 DEF ToldInv, Warned, OnlyFailedRemovals
  <2>5. Owed'
    <3> SUFFICES ASSUME ~told, NEW n \in Names, directory[n] # None, n \notin hidden
                 PROVE  Pending(n)'
      BY <1>1 DEF Owed
    <3>1. PICK k \in DOMAIN stack : n \in Users(stack[k])
      BY <1>4 DEF Elems
    <3>2. CASE k = Len(stack)
      <4>1. n \in Users(fixture')
        BY <3>1, <3>2, <2>1
      <4>2. PICK i \in DOMAIN Members[fixture'] : n = Members[fixture'][i]
        BY <4>1 DEF Users, Elems
      <4>3. i <= at'
        BY <2>1, <2>3, Constants
      <4> QED BY <4>2, <4>3, <2>1 DEF Pending
    <3>3. CASE k # Len(stack)
      <4>1. k \in DOMAIN stack' /\ stack'[k] = stack[k]
        BY <3>3, <2>1, <2>2
      <4> QED BY <4>1, <3>1 DEF Pending, Elems
    <3> QED BY <3>2, <3>3
  <2> QED BY <1>3, <2>4, <2>5
<1> QED BY <1>5, <1>6

\* A user that a removal leaves in FreeIPA is one whose removal failed.
LEMMA ToldRemove == ToldInv /\ RemoveUser => (OfTests /\ Warned /\ Owed /\ OnlyFailedRemovals)'
<1> SUFFICES ASSUME ToldInv, RemoveUser PROVE (OfTests /\ Warned /\ Owed /\ OnlyFailedRemovals)'
  OBVIOUS
<1>1. /\ pc = "remove" /\ pc' \in {"remove", "test"}
      /\ UNCHANGED <<next, broken, stack, fixture>>
  BY DEF RemoveUser
<1>2. /\ fixture \in Fixtures /\ at \in 1 .. Len(Members[fixture])
      /\ Who = Members[fixture][at] /\ Who \in Names
      /\ DOMAIN Members[fixture] = 1 .. Len(Members[fixture])
      /\ Len(Members[fixture]) \in Nat
  BY <1>1, WhoIsUser, Constants DEF ToldInv
<1>3. directory \in [Names -> Snapshot \cup {None}]
  BY DEF ToldInv, Control, TypeOK
<1>4. ASSUME NEW n \in Names, directory'[n] # None
      PROVE  directory[n] # None
  BY <1>2, <1>3, <1>4 DEF RemoveUser
<1>5. OfTests'
  BY <1>4 DEF ToldInv, OfTests
<1>6. told => told'
  BY DEF RemoveUser, RemoveWarn
<1>7. Warned' /\ OnlyFailedRemovals'
  BY <1>1, <1>6 DEF ToldInv, Warned, OnlyFailedRemovals
<1>8. Owed'
  <2> SUFFICES ASSUME ~told', NEW n \in Names, directory'[n] # None
               PROVE  n \in hidden' \/ Pending(n)'
    BY DEF Owed
  <2>1. directory[n] # None /\ ~told
    BY <1>4, <1>6
  <2>2. /\ n = Who => n \in hidden'
        /\ n # Who => (n \in hidden => n \in hidden')
    BY <2>1, <1>2, <1>3 DEF RemoveUser, Unremoved
  <2>3. n \in hidden \/ Pending(n)
    BY <1>1, <2>1 DEF ToldInv, Owed
  <2>4. ASSUME n # Who, NEW i \in DOMAIN Members[fixture], i <= at, n = Members[fixture][i]
        PROVE  Pending(n)'
    <3>1. i # at /\ i < at /\ at > 1
      BY <2>4, <1>2
    <3>2. at' = at - 1 /\ pc' = "remove"
      BY <3>1, <1>1 DEF RemoveUser
    <3>3. i <= at'
      BY <3>1, <3>2, <1>2
    <3> QED BY <2>4, <3>2, <3>3, <1>1 DEF Pending
  <2>5. CASE n # Who /\ Pending(n)
    BY <2>4, <2>5, <1>1 DEF Pending
  <2> QED BY <2>2, <2>3, <2>5
<1> QED BY <1>5, <1>7, <1>8

LEMMA ToldStep == ToldInv /\ [Next]_vars => ToldInv'
<1> SUFFICES ASSUME ToldInv, [Next]_vars PROVE ToldInv'
  OBVIOUS
<1>1. Control'
  BY ControlStep DEF ToldInv
<1> SUFFICES (OfTests /\ Warned /\ Owed /\ OnlyFailedRemovals)'
  BY <1>1 DEF ToldInv
<1>2. CASE UNCHANGED vars
  <2>1. OfTests' /\ Warned'
    BY <1>2 DEF ToldInv, OfTests, Warned, vars
  <2>2. Owed' /\ OnlyFailedRemovals'
    BY <1>2 DEF ToldInv, Owed, Pending, OnlyFailedRemovals, vars
  <2> QED BY <2>1, <2>2
<1>3. CASE Kill
  <2>1. /\ pc' = "idle" /\ told' /\ broken' = {} /\ directory' = directory
    BY <1>3 DEF Kill, Exit, estate
  <2> QED BY <2>1 DEF ToldInv, OfTests, Warned, Owed, OnlyFailedRemovals
<1>4. CASE Keycloak \/ Start
  BY <1>4, ToldKeycloak, ToldStart
<1>5. CASE Pytest
  BY <1>5, ToldSetup, ToldTests, ToldTeardown, ToldRemove DEF Pytest
<1>6. CASE Faults
  BY <1>6, <1>3, ToldSetup DEF Faults
<1> QED BY <1>2, <1>4, <1>5, <1>6 DEF Next

\* A session that showed no warning and no error leaves in FreeIPA at most users
\* whose own removal failed, swallowed by the tolerant shell or with its warning
\* captured by pytest: for any users, fixtures, tests and faults, and whatever
\* earlier sessions left.
THEOREM NobodyIsForgotten == Spec => []OnlyFailedRemovals
<1>1. Init => ToldInv
  <2> SUFFICES ASSUME Init PROVE ToldInv
    OBVIOUS
  <2>1. /\ pc = "idle" /\ broken = {}
        /\ \A n \in Names : directory[n] = None
    BY DEF Init
  <2> QED BY <2>1, ControlInit DEF ToldInv, OfTests, Warned, Owed, OnlyFailedRemovals
<1>2. ToldInv => OnlyFailedRemovals
  BY DEF ToldInv
<1> QED BY <1>1, <1>2, ToldStep, PTL DEF Spec

-----------------------------------------------------------------------------
(* What the tests see. *)

\* The users before the current one are others.
LEMMA EarlierUsers ==
    ASSUME Control, SettingUp, NEW i \in DOMAIN Members[fixture], i < at
    PROVE  Members[fixture][i] # Who
BY WhoIsUser, Constants, MembersAssumption DEF Who

\* Keycloak shows a user of the fixture in use as it was provisioned.
LEMMA LoginSees ==
    ASSUME Control, Ready, next \in DOMAIN Tests, Tests[next].fixture \in Elems(stack),
           NEW n \in Users(Tests[next].fixture)
    PROVE  /\ KeycloakLogin(n, creds[Tests[next].fixture])
           /\ \A s : Claim(n, s) = Declared(n, s)
<1> DEFINE f == Tests[next].fixture
<1>1. f \in Fixtures /\ n \in Names
  BY Constants
<1>2. Awaited(f)
  <2>1. next >= next
    BY Constants
  <2> QED BY <2>1 DEF Awaited
<1>3. directory[n] = Full(n, creds[f]) /\ cache[n] \in {None, directory[n]}
  BY <1>2 DEF Ready
<1>4. View(n) = Full(n, creds[f])
  BY <1>3 DEF View
<1>5. View(n) # None
  <2>1. directory[n] \in Snapshot \cup {None} /\ creds[f] \in Passwords \cup {None}
    BY <1>1 DEF Control, TypeOK
  <2>2. Elems(Groups[n]) \subseteq DOMAIN RoleOf
    BY <1>1, Constants, SequenceElems
  <2>3. Full(n, creds[f]) \in Snapshot
    BY <2>1, <2>2 DEF Full, Snapshot
  <2> QED BY <2>3, <1>4, Constants
<1>6. KeycloakLogin(n, creds[f])
  <2>1. View(n).pw = creds[f]
    BY <1>4 DEF Full
  <2> QED BY <2>1, <1>5, TestUsersAssumption DEF KeycloakLogin
<1>7. ASSUME NEW s PROVE Claim(n, s) = Declared(n, s)
  <2>1. View(n).groups = {Groups[n][i] : i \in DOMAIN Groups[n]}
    BY <1>4 DEF Full, Elems
  <2> QED BY <2>1 DEF Claim, Declared
<1> QED BY <1>6, <1>7

LEMMA TierTest == TierInv /\ RunTest => TiersSeen'
<1> SUFFICES ASSUME TierInv, RunTest PROVE TiersSeen'
  OBVIOUS
<1> DEFINE t == Tests[next]
           f == t.fixture
           n == Members[f][t.who]
           adm == Members[f][2]
           pw == creds[f]
           roles == Declared(n, t.service)
<1>1. next \in DOMAIN Tests /\ f \in Fixtures
  BY Constants DEF RunTest, TierInv, Control, TypeOK
<1>2. f \in Elems(stack)
  BY DEF RunTest, Elems
<1>3. n \in Users(f)
  BY <1>1, TestsAssumption DEF Users, Elems
<1>4. KeycloakLogin(n, pw) /\ \A s : Claim(n, s) = Declared(n, s)
  BY <1>1, <1>2, <1>3, LoginSees DEF TierInv
<1>5. /\ t.kind \in {"hubble", "traefik", "token", "grafana", "gitlab"}
      /\ t.kind = "hubble" => t.service = "hubble"
      /\ t.kind = "traefik" => t.service = "traefik"
      /\ t.kind = "grafana" => t.service = "grafana"
  <2> DEFINE Test == [fixture : Fixtures, who : Nat, service : STRING,
                      kind : {"hubble", "traefik", "token", "grafana", "gitlab"}]
  <2>1. Tests \in Seq(Test)
    BY TestUsersAssumption
  <2>2. \A u \in Test : u.kind \in {"hubble", "traefik", "token", "grafana", "gitlab"}
    OBVIOUS
  <2> HIDE DEF Test
  <2>3. Tests[next] \in Test
    BY <2>1, <1>1
  <2> QED BY <2>2, <2>3, <1>1, TestsAssumption
<1>6. PICK answers \in BOOLEAN :
         /\ rows' = [m \in Names |->
                        IF /\ t.kind = "grafana" /\ answers /\ KeycloakLogin(n, pw)
                           /\ m \in {n, adm} /\ KeycloakLogin(m, pw)
                        THEN Claim(m, "grafana") ELSE rows[m]]
         /\ report' = CASE t.kind = "hubble" -> HubbleFlow(n, pw, answers)
                        [] t.kind = "traefik" -> TraefikFlow(n, pw, answers)
                        [] t.kind = "token" -> TokenFlow(n, pw, t.service, answers)
                        [] t.kind = "grafana" -> GrafanaFlow(n, pw, adm, answers)
                        [] t.kind = "gitlab" -> GitlabFlow(n, pw, answers)
  BY DEF RunTest
<1> HIDE DEF t, f, n, adm, pw, roles
<1>7. CASE ~answers
  <2>1. report' = Report("unauthenticated", FALSE, FALSE, {})
    BY <1>5, <1>6, <1>7 DEF HubbleFlow, TraefikFlow, TokenFlow, GrafanaFlow, GitlabFlow
  <2>2. report'.stage = "unauthenticated"
    BY <2>1 DEF Report
  <2> QED BY <2>2 DEF TiersSeen
<1>8. CASE answers /\ t.kind = "hubble"
  <2>1. report' = Report("done", Claim(n, "hubble") # {}, Claim(n, "hubble") = {}, {})
    BY <1>4, <1>6, <1>8 DEF HubbleFlow
  <2>2. Claim(n, "hubble") = roles
    BY <1>4, <1>5, <1>8 DEF roles
  <2>3. /\ report'.test = next /\ report'.stage = "done"
        /\ report'.admitted = (roles # {}) /\ report'.denied = (roles = {})
    BY <2>1, <2>2 DEF Report
  <2> QED BY <2>3, <1>8 DEF TiersSeen, t, f, n, roles
<1>9. CASE answers /\ t.kind = "traefik"
  <2>1. report' = Report("done", Claim(n, "traefik") # {}, Claim(n, "traefik") = {}, {})
    BY <1>4, <1>6, <1>9 DEF TraefikFlow
  <2>2. Claim(n, "traefik") = roles
    BY <1>4, <1>5, <1>9 DEF roles
  <2>3. /\ report'.test = next /\ report'.stage = "done"
        /\ report'.admitted = (roles # {}) /\ report'.denied = (roles = {})
    BY <2>1, <2>2 DEF Report
  <2> QED BY <2>3, <1>9 DEF TiersSeen, t, f, n, roles
<1>10. CASE answers /\ t.kind = "token"
  <2>1. report' = Report("done", TRUE, FALSE, Claim(n, t.service))
    BY <1>4, <1>6, <1>10 DEF TokenFlow
  <2>2. report'.test = next /\ report'.stage = "done" /\ report'.roles = roles
    BY <2>1, <1>4 DEF Report, roles
  <2> QED BY <2>2, <1>10 DEF TiersSeen, t, f, n, roles
<1>11. CASE answers /\ t.kind = "grafana"
  <2>1. adm \in Users(f) /\ "admin" \in Declared(adm, "grafana")
    <3>1. /\ 2 \in DOMAIN Members[f]
          /\ \E j \in DOMAIN Groups[adm] : RoleOf[Groups[adm][j]] = <<"grafana", "admin">>
      BY <1>1, <1>11, TestsAssumption DEF t, f, adm
    <3>2. "admin" \in Declared(adm, "grafana")
      BY <3>1 DEF Declared
    <3> QED BY <3>1, <3>2 DEF Users, Elems, adm
  <2>2. KeycloakLogin(adm, pw) /\ Claim(adm, "grafana") = Declared(adm, "grafana")
    BY <1>1, <1>2, <2>1, LoginSees DEF TierInv, f, t, pw
  <2>3. n \in Names
    BY <1>1, <1>3, Constants
  <2>4. rows'[n] = Claim(n, "grafana")
    BY <2>3, <1>4, <1>6, <1>11
  <2>5. report' = Report("done", TRUE, FALSE, rows'[n])
    BY <2>1, <2>2, <1>4, <1>6, <1>11 DEF GrafanaFlow
  <2>6. report'.test = next /\ report'.stage = "done" /\ report'.roles = roles
    BY <2>4, <2>5, <1>4, <1>5, <1>11 DEF Report, roles
  <2> QED BY <2>6, <1>11 DEF TiersSeen, t, f, n, roles
<1>12. CASE answers /\ t.kind = "gitlab"
  <2>1. report' = Report("done", TRUE, FALSE, {})
    BY <1>4, <1>6, <1>12 DEF GitlabFlow
  <2>2. report'.test = next /\ report'.stage = "done" /\ report'.admitted = TRUE
    BY <2>1 DEF Report
  <2> QED BY <2>2, <1>12 DEF TiersSeen, t
<1> QED BY <1>5, <1>7, <1>8, <1>9, <1>10, <1>11, <1>12

\* Nobody waits for a fixture while another is set up, or once the tests are over.
LEMMA NobodyWaits ==
    ASSUME Control, SettingUp \/ next > Len(Tests), UNCHANGED <<next, stack>>
    PROVE  Ready'
<1>1. \A f \in Elems(stack) : ~Awaited(f)
  BY Constants DEF Control, TypeOK, Asked, Awaited
<1> QED BY <1>1 DEF Ready, Awaited

\* Provisioning one user after the other.
LEMMA TierSetup ==
    ASSUME TierInv, UserDel \/ UserAdd \/ Passwd \/ GroupAdd \/ NextUser
    PROVE  Provisioned' /\ Ready'
<1>1. SettingUp /\ pc \in {"del", "add", "passwd", "group"} /\ Control
  BY DEF UserDel, UserAdd, Passwd, GroupAdd, NextUser, SettingUp, TierInv
<1>2. UNCHANGED <<next, stack, creds, fixture>>
  BY DEF UserDel, UserAdd, Passwd, GroupAdd, NextUser, setup
<1>3. Ready'
  BY <1>1, <1>2, NobodyWaits
<1>4. /\ fixture \in Fixtures /\ at \in 1 .. Len(Members[fixture])
      /\ Len(Members[fixture]) \in Nat /\ Who \in Names
      /\ Who = Members[fixture][at]
      /\ DOMAIN Members[fixture] = 1 .. Len(Members[fixture])
      /\ \A i \in DOMAIN Members[fixture] : Members[fixture][i] \in Names
  BY <1>1, WhoIsUser, Constants
<1>5. directory \in [Names -> Snapshot \cup {None}]
  BY <1>1 DEF Control, TypeOK
<1>6. \A i \in DOMAIN Members[fixture] :
         i < at => /\ directory[Members[fixture][i]]
                        = Full(Members[fixture][i], creds[fixture])
                   /\ Members[fixture][i] # Who
  BY <1>1, EarlierUsers DEF TierInv, Provisioned
<1>7. CASE UserDel \/ UserAdd \/ Passwd \/ GroupAdd
  <2>1. \A m \in Names \ {Who} : directory'[m] = directory[m]
    BY <1>5, <1>7 DEF UserDel, UserAdd, Passwd, GroupAdd
  <2>2. /\ at' = at /\ Who' = Who /\ pc' \notin {"wait", "flush"}
        /\ pc' = "group" => Passwd \/ GroupAdd
    BY <1>7 DEF UserDel, UserAdd, Passwd, GroupAdd, Raise, setup, Who
  <2>3. \A i \in DOMAIN Members[fixture] :
           i < at => directory'[Members[fixture][i]]
                        = Full(Members[fixture][i], creds[fixture])
    BY <1>4, <1>6, <2>1
  <2>4. CASE Passwd
    <3>1. directory[Who] = [pw |-> None, groups |-> {}]
      BY <2>4, <1>1 DEF Passwd, Control, Place
    <3>2. directory'[Who] = [directory[Who] EXCEPT !.pw = creds[fixture]]
      BY <2>4, <1>4, <1>5 DEF Passwd
    <3>3. directory'[Who].pw = creds[fixture] /\ directory'[Who].groups = {}
      BY <3>1, <3>2
    <3>4. left' = Groups[Who]
      BY <2>4 DEF Passwd
    <3> QED BY <3>3, <3>4, <2>2, <2>3, <1>2, <1>3 DEF Provisioned, Full
  <2>5. CASE GroupAdd
    <3>1. /\ pc = "group" /\ left # <<>> /\ left' = Tail(left)
          /\ directory' = [directory EXCEPT ![Who].groups = @ \cup {Head(left)}]
      BY <2>5 DEF GroupAdd
    <3>2. directory[Who] \in Snapshot
      BY <3>1, <1>1, <1>4, <1>5 DEF Control, Place
    <3>3. /\ directory[Who].pw = creds[fixture]
          /\ directory[Who].groups \cup Elems(left) = Elems(Groups[Who])
      BY <3>1 DEF TierInv, Provisioned
    <3>4. Elems(left) = {Head(left)} \cup Elems(Tail(left))
      BY <3>1, <1>1, SequenceElems DEF Control, Place
    <3>5. directory'[Who] = [directory[Who] EXCEPT !.groups = @ \cup {Head(left)}]
      BY <3>1, <1>4, <1>5
    <3>6. /\ directory'[Who].pw = creds[fixture]
          /\ directory'[Who].groups = directory[Who].groups \cup {Head(left)}
      BY <3>2, <3>3, <3>5 DEF Snapshot
    <3>7. directory'[Who].groups \cup Elems(left') = Elems(Groups[Who])
      BY <3>1, <3>3, <3>4, <3>6
    <3> QED BY <3>6, <3>7, <2>2, <2>3, <1>2, <1>3 DEF Provisioned, Full
  <2>6. CASE UserDel \/ UserAdd
    <3>1. pc' # "group"
      BY <2>6 DEF UserDel, UserAdd, Raise
    <3> QED BY <3>1, <2>2, <2>3, <1>2, <1>3 DEF Provisioned, Full
  <2> QED BY <1>7, <2>4, <2>5, <2>6
<1>8. CASE NextUser
  <2>1. /\ pc = "group" /\ left = <<>> /\ directory' = directory
        /\ \/ at < Len(Members[fixture]) /\ at' = at + 1 /\ pc' = "del"
           \/ at >= Len(Members[fixture]) /\ at' = at /\ pc' = "wait"
    BY <1>8, <1>4 DEF NextUser, estate
  <2>2. directory[Who] \in Snapshot
    BY <2>1, <1>1, <1>4, <1>5 DEF Control, Place
  <2>3. Elems(left) = {}
    BY <2>1 DEF Elems
  <2>4. directory[Who].pw = creds[fixture] /\ directory[Who].groups = Elems(Groups[Who])
    BY <2>1, <2>3 DEF TierInv, Provisioned
  <2>5. directory[Who] = Full(Who, creds[fixture])
    BY <2>2, <2>4 DEF Snapshot, Full
  <2>6. \A i \in DOMAIN Members[fixture] :
           i <= at => directory[Members[fixture][i]]
                         = Full(Members[fixture][i], creds[fixture])
    BY <1>4, <1>6, <2>5
  <2>7. \A i \in DOMAIN Members[fixture] :
           i < at' \/ pc' \in {"wait", "flush"} => i <= at
    BY <2>1, <1>4
  <2>8. pc' # "group"
    BY <2>1
  <2> QED BY <2>1, <2>6, <2>7, <2>8, <1>2, <1>3 DEF Provisioned, Full
<1> QED BY <1>3, <1>7, <1>8

\* The wait and the flush: what Keycloak imported too early is gone.
LEMMA TierSettle == TierInv /\ (WaitForSync \/ ClearCache) => Provisioned' /\ Ready'
<1> SUFFICES ASSUME TierInv, WaitForSync \/ ClearCache PROVE Provisioned' /\ Ready'
  OBVIOUS
<1>1. SettingUp /\ Control /\ pc \in {"wait", "flush"}
  BY DEF WaitForSync, ClearCache, SettingUp, TierInv
<1>2. UNCHANGED <<directory, next, creds, fixture>>
  BY DEF WaitForSync, ClearCache, setup
<1>3. \A i \in DOMAIN Members[fixture] :
         directory[Members[fixture][i]] = Full(Members[fixture][i], creds[fixture])
  BY <1>1 DEF TierInv, Provisioned
<1>4. CASE WaitForSync
  <2>1. pc' = "flush" /\ UNCHANGED stack
    BY <1>4 DEF WaitForSync
  <2>2. Provisioned'
    BY <1>2, <1>3, <2>1 DEF Provisioned, Full
  <2> QED BY <2>1, <2>2, <1>1, <1>2, NobodyWaits
<1>5. CASE ClearCache
  <2>1. pc' = "test" /\ stack' = Append(stack, fixture) /\ cache' = [n \in Names |-> None]
    BY <1>5 DEF ClearCache
  <2>2. fixture \in Fixtures
    BY <1>1, WhoIsUser
  <2>3. Elems(stack') = Elems(stack) \cup {fixture}
    BY <2>1, <2>2, <1>1, SequenceElems DEF Control, Place
  <2>4. \A f \in Elems(stack) : ~Awaited(f)'
    BY <1>1, <1>2 DEF Control, Asked, Awaited
  <2>5. \A n \in Users(fixture) : /\ directory'[n] = Full(n, creds'[fixture])
                                  /\ cache'[n] \in {None, directory'[n]}
    BY <1>2, <1>3, <2>1, <2>2, Constants DEF Users, Elems
  <2>6. Ready'
    BY <2>3, <2>4, <2>5 DEF Ready, Full, Users, Elems
  <2>7. Provisioned'
    BY <2>1 DEF Provisioned, SettingUp
  <2> QED BY <2>6, <2>7
<1> QED BY <1>4, <1>5

LEMMA TierKeycloak == TierInv /\ Keycloak => Provisioned' /\ Ready'
<1> SUFFICES ASSUME TierInv, NEW n \in Names, Import(n) \/ Expire(n)
             PROVE  Provisioned' /\ Ready'
  BY DEF Keycloak
<1>1. UNCHANGED <<directory, pc, next, creds, stack, fixture, at, left>>
  BY DEF Import, Expire, setup
<1>2. Provisioned'
  BY <1>1 DEF TierInv, Provisioned, SettingUp, Who, Full
<1>3. cache \in [Names -> Snapshot \cup {None}]
  BY DEF TierInv, Control, TypeOK
<1>4. \A m \in Names : cache'[m] \in {cache[m], None, directory[m]}
  BY <1>3 DEF Import, Expire
<1>5. Elems(stack) \subseteq Fixtures
  BY SequenceElems DEF TierInv, Control, Place
<1>6. Ready'
  <2> SUFFICES ASSUME NEW f \in Elems(stack), Awaited(f), NEW m \in Users(f)
               PROVE  /\ directory[m] = Full(m, creds[f])
                      /\ cache'[m] \in {None, directory[m]}
    BY <1>1 DEF Ready, Awaited, Full, Users, Elems
  <2>1. m \in Names
    BY <1>5, Constants
  <2> QED BY <2>1, <1>4 DEF TierInv, Ready
<1> QED BY <1>2, <1>6

LEMMA TierStep == TierInv /\ [Next]_vars => TierInv'
<1> SUFFICES ASSUME TierInv, [Next]_vars PROVE TierInv'
  OBVIOUS
<1>1. Control /\ Control'
  BY ControlStep DEF TierInv
<1>2. TiersSeen'
  <2>1. CASE RunTest
    BY <2>1, TierTest
  <2>2. CASE report' = report
    BY <2>2 DEF TierInv, TiersSeen
  <2>3. CASE report' = NoReport
    BY <2>3 DEF TiersSeen, NoReport
  <2>4. RunTest \/ report' = report \/ report' = NoReport
    BY DEF Next, vars, Keycloak, Pytest, Faults, Import, Expire, Start, Request, UserDel,
           UserAdd, Passwd, GroupAdd, NextUser, WaitForSync, ClearCache, TestErrors,
           Teardown, RemoveUser, ChannelFails, GroupUnsettled, ClearFails, Kill, Exit
  <2> QED BY <2>1, <2>2, <2>3, <2>4
<1> SUFFICES Provisioned' /\ Ready'
  BY <1>1, <1>2 DEF TierInv
<1>3. ASSUME pc' \in {"test", "idle", "remove"} PROVE Provisioned'
  BY <1>3 DEF Provisioned, SettingUp
<1>4. CASE UNCHANGED vars
  <2>1. Provisioned'
    BY <1>4 DEF TierInv, Provisioned, SettingUp, Who, Full, vars
  <2>2. Ready'
    BY <1>4 DEF TierInv, Ready, Awaited, Full, Users, Elems, vars
  <2> QED BY <2>1, <2>2
<1>5. CASE Keycloak
  BY <1>5, TierKeycloak
<1>6. CASE Start \/ RunTest \/ TestErrors
  <2>1. /\ pc' = "test" /\ UNCHANGED <<directory, cache, creds, stack>>
        /\ next' \in {next, next + 1}
    BY <1>6 DEF Start, RunTest, TestErrors, estate
  <2>2. \A f : Awaited(f)' => Awaited(f)
    BY <2>1, <1>1, Constants DEF Control, TypeOK, Awaited
  <2>3. Ready'
    BY <2>1, <2>2 DEF TierInv, Ready, Full, Users, Elems
  <2> QED BY <2>1, <2>3, <1>3
<1>7. CASE Request
  <2>1. /\ pc' = "del" /\ at' = 1 /\ fixture' = Tests[next].fixture
        /\ fixture' \in Fixtures
    BY <1>7, <1>1, Constants DEF Request, Control, TypeOK
  <2>2. \A i \in DOMAIN Members[fixture'] : ~(i < at')
    BY <2>1, Constants
  <2>3. Provisioned'
    BY <2>1, <2>2 DEF Provisioned
  <2>4. Ready'
    <3>1. \A f \in Elems(stack') : ~Awaited(f)'
      BY <2>1, <1>1 DEF Control, Asked, SettingUp
    <3> QED BY <3>1 DEF Ready
  <2> QED BY <2>3, <2>4
<1>8. CASE UserDel \/ UserAdd \/ Passwd \/ GroupAdd \/ NextUser
  BY <1>8, TierSetup
<1>9. CASE WaitForSync \/ ClearCache
  BY <1>9, TierSettle
<1>10. CASE Teardown /\ stack # <<>>
  <2>1. next > Len(Tests) /\ pc' = "remove" /\ UNCHANGED next
    BY <1>10 DEF Teardown
  <2>2. \A f : ~Awaited(f)'
    BY <2>1, <1>1, Constants DEF Control, TypeOK, Awaited
  <2> QED BY <2>1, <2>2, <1>3 DEF Ready
<1>11. CASE RemoveUser
  <2>1. next > Len(Tests) /\ pc' \in {"remove", "test"} /\ UNCHANGED <<next, stack>>
    BY <1>11, <1>1, Constants DEF RemoveUser, Control, Place
  <2> QED BY <2>1, <1>1, <1>3, NobodyWaits
<1>12. CASE Exit
  <2>1. pc' = "idle" /\ Elems(stack') = {}
    BY <1>12 DEF Exit, Elems
  <2> QED BY <2>1, <1>3 DEF Ready
<1>13. CASE ChannelFails \/ ClearFails \/ GroupUnsettled
  <2>1. SettingUp /\ UNCHANGED <<next, stack>>
    BY <1>13 DEF ChannelFails, ClearFails, GroupUnsettled, SettingUp
  <2>2. Ready'
    BY <2>1, <1>1, NobodyWaits
  <2>3. CASE pc' = "test"
    BY <2>2, <2>3, <1>3
  <2>4. CASE pc' # "test"
    <3>1. UNCHANGED <<directory, pc, creds, fixture, at, left>>
      BY <1>13, <2>4 DEF ChannelFails, ClearFails, GroupUnsettled, Raise, estate, setup
    <3> QED BY <2>2, <3>1 DEF TierInv, Provisioned, SettingUp, Who, Full
  <2> QED BY <2>3, <2>4
<1>14. CASE Pytest
  BY <1>14, <1>6, <1>7, <1>8, <1>9, <1>10, <1>11, <1>12 DEF Pytest, Teardown
<1>15. CASE Faults
  BY <1>15, <1>12, <1>13 DEF Faults, Kill
<1> QED BY <1>4, <1>5, <1>6, <1>14, <1>15 DEF Next

\* What a test sees is the tier its fixture declared, for any users, groups, fixtures
\* and tests, any number of faults, and imports by Keycloak at any moment, as long
\* as the tests of a fixture are neighbours (TogetherAssumption).
THEOREM TestsSeeTheirTier == Spec => []TiersSeen
<1>1. Init => TierInv
  <2> SUFFICES ASSUME Init PROVE TierInv
    OBVIOUS
  <2>1. pc = "idle" /\ stack = <<>> /\ report.test = 0
    BY DEF Init, NoReport
  <2>2. Elems(stack) = {}
    BY <2>1 DEF Elems
  <2> QED BY <2>1, <2>2, ControlInit DEF TierInv, Provisioned, SettingUp, Ready, TiersSeen
<1>2. TierInv => TiersSeen
  BY DEF TierInv
<1> QED BY <1>1, <1>2, TierStep, PTL DEF Spec
=============================================================================
