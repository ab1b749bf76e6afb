-------------------------- MODULE SdnOverlayProofs --------------------------
(* The overlay stays connected from one complete build on: for any nodes,    *)
(* VMs and budgets, as long as no VM is migrated.                            *)
EXTENDS SdnOverlay, TLAPS

Table == [Addresses -> SUBSET Nodes]
Lines == SUBSET (Addresses \X Nodes)

\* MACs lie between the two well-known addresses.
LEMMA AddressFacts ==
    /\ Broadcast \in Addresses /\ Vrrp \in Addresses /\ Macs \subseteq Addresses
    /\ Broadcast \notin Macs /\ Vrrp \notin Macs /\ Broadcast # Vrrp
    /\ \A a \in Addresses : a \in Macs \/ a = Vrrp \/ a = Broadcast
  BY ConstantsAssumption DEF Broadcast, Vrrp, Addresses, Macs

\* What an append makes of a table, address by address.
LEMMA AppendedTable ==
    ASSUME NEW t \in Table, NEW lines \in Lines
    PROVE  /\ Appended(t, lines) \in Table
           /\ Appended(t, lines)[Broadcast] = t[Broadcast] \cup Peers(lines, Broadcast)
           /\ \A a \in Macs :
                 Appended(t, lines)[a] =
                    IF t[a] = {}
                    THEN {p \in Peers(lines, a) : \A q \in Peers(lines, a) : p <= q}
                    ELSE t[a]
<1> DEFINE Val(a) == CASE a = Vrrp -> t[a]
                       [] a = Broadcast -> t[a] \cup Peers(lines, a)
                       [] a \in Macs ->
                             IF t[a] = {}
                             THEN {p \in Peers(lines, a) : \A q \in Peers(lines, a) : p <= q}
                             ELSE t[a]
<1>1. Appended(t, lines) = [a \in Addresses |-> Val(a)]
  BY DEF Appended
<1>2. \A a \in Addresses : Val(a) \in SUBSET Nodes
  BY AddressFacts DEF Table, Peers
<1>3. /\ Val(Broadcast) = t[Broadcast] \cup Peers(lines, Broadcast)
      /\ \A a \in Macs :
            Val(a) = IF t[a] = {}
                     THEN {p \in Peers(lines, a) : \A q \in Peers(lines, a) : p <= q}
                     ELSE t[a]
  BY AddressFacts
<1> HIDE DEF Val
<1> QED
  BY <1>1, <1>2, <1>3, AddressFacts DEF Table

-----------------------------------------------------------------------------
(* The inductive invariant. *)

NeverMigrated == budget["migrate"] = Limit["migrate"]

\* Lines and tables that send every MAC to its owner in o.
OwnLines(o, lines) == \A a \in Macs, p \in Nodes : <<a, p>> \in lines => p = o[a]
OwnTable(o, t) == \A a \in Macs : t[a] \subseteq {o[a]}

\* o says where each MAC is, and nothing anywhere disagrees.
Owner(o) ==
    /\ \A v \in Vms : loc[v] = o[mac[v]]
    /\ \A p \in Nodes : \A a \in macs[p] : o[a] = p
    /\ \A n \in Nodes : OwnLines(o, file[n]) /\ OwnTable(o, fdb[n])

\* Without migrations a MAC has one node for good.
OneSite == NeverMigrated => \E o \in [Macs -> Nodes] : Owner(o)

\* Nothing mentions a MAC that was not handed out.
Known ==
    /\ \A v \in Vms : mac[v] \in used
    /\ \A p \in Nodes : macs[p] \subseteq used
    /\ \A n \in Nodes : \A a \in Macs, p \in Nodes : <<a, p>> \in file[n] => a \in used
    /\ \A n \in Nodes : \A a \in Macs : fdb[n][a] # {} => a \in used

\* A build that nothing disturbed has discovered the VMs as they are.
Scanned ==
    clean => /\ pc = "discover" => \A p \in Nodes \ left : macs[p] = MacsOn(p)
             /\ pc = "install" => \A p \in Nodes : macs[p] = MacsOn(p)

\* Lines that let node n reach every remote VM and every peer.
Complete(lines, n) ==
    /\ \A v \in Vms : loc[v] # n => <<mac[v], loc[v]>> \in lines
    /\ \A p \in Nodes \ {n} : <<Broadcast, p>> \in lines

\* A node that reaches all now, and again after its table was emptied.
Good(n) == n \in hook /\ Complete(file[n], n) /\ Connected(n)

Progress ==
    NeverMigrated =>
        /\ clean /\ pc = "install" => \A n \in Nodes \ left : Good(n)
        /\ current => \A n \in Nodes : Good(n)

SdnInv ==
    /\ TypeOK /\ budget["migrate"] <= Limit["migrate"]
    /\ Known /\ OneSite /\ Scanned /\ (current => clean) /\ Progress

-----------------------------------------------------------------------------

\* An append of owned lines to an owned table leaves it owned, and connects the
\* node when the lines are complete.
LEMMA AppendConnects ==
    ASSUME TypeOK, NEW o \in [Macs -> Nodes], \A v \in Vms : loc[v] = o[mac[v]],
           NEW n \in Nodes,
           NEW t \in Table, OwnTable(o, t), NEW lines \in Lines, OwnLines(o, lines)
    PROVE  /\ OwnTable(o, Appended(t, lines))
           /\ Complete(lines, n) =>
                 /\ \A v \in Vms : loc[v] # n => Appended(t, lines)[mac[v]] = {loc[v]}
                 /\ Nodes \ {n} \subseteq Appended(t, lines)[Broadcast]
<1> DEFINE u == Appended(t, lines)
<1>1. /\ u[Broadcast] = t[Broadcast] \cup Peers(lines, Broadcast)
      /\ \A a \in Macs :
            u[a] = IF t[a] = {}
                   THEN {p \in Peers(lines, a) : \A q \in Peers(lines, a) : p <= q}
                   ELSE t[a]
  BY AppendedTable
<1> HIDE DEF u
<1>2. \A a \in Macs : Peers(lines, a) \subseteq {o[a]}
  BY DEF OwnLines, Peers
<1>3. OwnTable(o, u)
  BY <1>1, <1>2 DEF OwnTable
<1>4. ASSUME Complete(lines, n), NEW v \in Vms, loc[v] # n
      PROVE  u[mac[v]] = {loc[v]}
  <2>1. mac[v] \in Macs /\ loc[v] \in Nodes /\ loc[v] = o[mac[v]]
    BY DEF TypeOK
  <2>2. Peers(lines, mac[v]) = {loc[v]}
    BY <1>2, <1>4, <2>1 DEF Complete, Peers
  <2>3. loc[v] <= loc[v]
    <3>1. loc[v] \in Nat
      BY <2>1, ConstantsAssumption, Zenon
    <3> QED
      BY <3>1
  <2>4. CASE t[mac[v]] = {}
    BY <1>1, <2>1, <2>2, <2>3, <2>4
  <2>5. CASE t[mac[v]] # {}
    <3>1. u[mac[v]] = t[mac[v]] /\ t[mac[v]] \subseteq {loc[v]}
      BY <1>1, <2>1, <2>5 DEF OwnTable
    <3>2. PICK p : p \in t[mac[v]]
      BY <2>5
    <3> QED
      BY <3>1, <3>2
  <2> QED
    BY <2>4, <2>5
<1>5. Complete(lines, n) => Nodes \ {n} \subseteq u[Broadcast]
  BY <1>1 DEF Complete, Peers
<1> QED
  BY <1>3, <1>4, <1>5 DEF u

\* A table that is empty, or replayed from the file, is a table.
LEMMA ReplayedTable ==
    ASSUME TypeOK, NEW n \in Nodes
    PROVE  /\ NoEntries \in Table /\ Replayed(n) \in Table /\ file[n] \in Lines
           /\ fdb[n] \in Table
           /\ \A a \in Macs, p \in Nodes : p \in Replayed(n)[a] => <<a, p>> \in file[n]
<1>1. NoEntries \in Table /\ file[n] \in Lines /\ fdb[n] \in Table
  BY DEF NoEntries, Table, Lines, TypeOK
<1>2. \A a \in Macs : NoEntries[a] = {}
  BY AddressFacts DEF NoEntries
<1>3. Appended(NoEntries, file[n]) \in Table
  BY <1>1, AppendedTable
<1>4. \A a \in Macs, p \in Nodes :
         p \in Appended(NoEntries, file[n])[a] => <<a, p>> \in file[n]
  <2> SUFFICES ASSUME NEW a \in Macs, NEW p \in Nodes,
                      p \in Appended(NoEntries, file[n])[a]
               PROVE  <<a, p>> \in file[n]
    OBVIOUS
  <2>1. Appended(NoEntries, file[n])[a] =
           IF NoEntries[a] = {}
           THEN {q \in Peers(file[n], a) : \A x \in Peers(file[n], a) : q <= x}
           ELSE NoEntries[a]
    BY <1>1, AppendedTable, Zenon
  <2>2. p \in Peers(file[n], a)
    BY <1>2, <2>1
  <2> QED
    BY <2>2 DEF Peers
<1> QED
  BY <1>1, <1>2, <1>3, <1>4 DEF Replayed

\* Some nodes replay their files, and nothing else happens to hosts and VMs.
LEMMA ReplayStep ==
    ASSUME TypeOK, Known, fdb' \in [Nodes -> Table],
           \A n \in Nodes : fdb'[n] \in {fdb[n], Replayed(n)},
           UNCHANGED <<vms, file, hook, macs>>
    PROVE  /\ Known'
           /\ \A o \in [Macs -> Nodes] : Owner(o) =>
                 /\ Owner(o)'
                 /\ \A n \in Nodes : Good(n) => Good(n)'
<1>1. Known'
  <2> SUFFICES ASSUME NEW n \in Nodes, NEW a \in Macs, fdb'[n][a] # {}
               PROVE  a \in used
    BY DEF Known, vms
  <2>1. CASE fdb'[n] = fdb[n]
    BY <2>1 DEF Known
  <2>2. CASE fdb'[n] = Replayed(n)
    <3>1. PICK p \in Nodes : p \in Replayed(n)[a]
      BY <2>2, ReplayedTable, AddressFacts DEF Table
    <3>2. <<a, p>> \in file[n]
      BY <3>1, ReplayedTable
    <3> QED
      BY <3>2 DEF Known
  <2> QED
    BY <2>1, <2>2
<1>2. ASSUME NEW o \in [Macs -> Nodes], Owner(o)
      PROVE  Owner(o)' /\ \A n \in Nodes : Good(n) => Good(n)'
  <2>0. OwnTable(o, NoEntries)
    BY AddressFacts DEF OwnTable, NoEntries
  <2>1. ASSUME NEW n \in Nodes
        PROVE  OwnTable(o, fdb'[n]) /\ (Good(n) => Good(n)')
    <3>1. CASE fdb'[n] = fdb[n]
      BY <1>2, <3>1 DEF Owner, Good, Complete, Connected, vms
    <3>2. CASE fdb'[n] = NoEntries /\ n \notin hook
      BY <2>0, <3>2 DEF Good
    <3>3. CASE fdb'[n] = Appended(NoEntries, file[n]) /\ n \in hook
      <4>1. NoEntries \in Table /\ file[n] \in Lines
        BY ReplayedTable
      <4>2. OwnLines(o, file[n]) /\ \A v \in Vms : loc[v] = o[mac[v]]
        BY <1>2 DEF Owner
      <4>3. /\ OwnTable(o, Appended(NoEntries, file[n]))
            /\ Complete(file[n], n) =>
                  /\ \A v \in Vms :
                        loc[v] # n => Appended(NoEntries, file[n])[mac[v]] = {loc[v]}
                  /\ Nodes \ {n} \subseteq Appended(NoEntries, file[n])[Broadcast]
        BY <2>0, <4>1, <4>2, AppendConnects, Zenon
      <4> QED
        BY <3>3, <4>3 DEF Good, Complete, Connected, vms
    <3> QED
      BY <3>1, <3>2, <3>3 DEF Replayed
  <2> QED
    BY <1>2, <2>1 DEF Owner, vms
<1> QED
  BY <1>1, <1>2

\* What a disturbance may do to the budget.
BudgetKept ==
    /\ budget' \in [Disturbances -> Nat] /\ budget'["migrate"] <= Limit["migrate"]
    /\ NeverMigrated' => NeverMigrated

LEMMA SpendBudget ==
    ASSUME SdnInv, NEW k \in Disturbances, Spend(k)
    PROVE  BudgetKept /\ (k = "migrate" => ~NeverMigrated')
<1>1. /\ budget \in [Disturbances -> Nat] /\ budget["migrate"] <= Limit["migrate"]
      /\ budget[k] > 0 /\ budget' = [budget EXCEPT ![k] = @ - 1]
  BY DEF SdnInv, TypeOK, Spend
<1>2. Limit["migrate"] \in Nat /\ "migrate" \in Disturbances
  BY ConstantsAssumption DEF Disturbances
<1> QED
  BY <1>1, <1>2 DEF BudgetKept, NeverMigrated

LEMMA SameBudget == ASSUME SdnInv, UNCHANGED budget PROVE BudgetKept
  BY DEF SdnInv, TypeOK, BudgetKept, NeverMigrated

\* After a failure or a change only the types, the MACs and their owners matter.
LEMMA ChangedStep ==
    ASSUME SdnInv, Changed, TypeOK', BudgetKept, Known',
           NeverMigrated' => \E o \in [Macs -> Nodes] : Owner(o)'
    PROVE  SdnInv'
  BY DEF SdnInv, Changed, BudgetKept, OneSite, Scanned, Progress

\* A VM gets a MAC nobody has seen, so its node owns it.
LEMMA RecreateStep == ASSUME SdnInv, NEW v \in Vms, Recreate(v) PROVE SdnInv'
<1>1. Changed /\ BudgetKept
  BY SpendBudget DEF Recreate, Disturbances
<1>2. PICK n \in Nodes, m \in Macs \ used :
         /\ loc' = [loc EXCEPT ![v] = n] /\ mac' = [mac EXCEPT ![v] = m]
         /\ used' = used \cup {m}
  BY DEF Recreate
<1>3. UNCHANGED <<file, hook, fdb, pc, left, macs, missing>>
  BY DEF Recreate, hosts
<1>4. clean' \in BOOLEAN /\ current' \in BOOLEAN
  BY <1>1, Zenon DEF Changed
<1>5. TypeOK'
  BY <1>1, <1>2, <1>3, <1>4 DEF SdnInv, TypeOK, BudgetKept
<1>6. /\ loc'[v] = n /\ mac'[v] = m
      /\ \A w \in Vms : w # v => loc'[w] = loc[w] /\ mac'[w] = mac[w]
  BY <1>2 DEF SdnInv, TypeOK
<1>7. Known'
  BY <1>2, <1>3, <1>6 DEF SdnInv, Known
<1>8. ASSUME NeverMigrated' PROVE \E o \in [Macs -> Nodes] : Owner(o)'
  <2>1. PICK o \in [Macs -> Nodes] : Owner(o)
    BY <1>1, <1>8 DEF SdnInv, OneSite, BudgetKept
  <2> DEFINE o1 == [o EXCEPT ![m] = n]
  <2>2. o1 \in [Macs -> Nodes] /\ o1[m] = n /\ \A a \in Macs : a # m => o1[a] = o[a]
    OBVIOUS
  <2> HIDE DEF o1
  <2>3. ASSUME NEW w \in Vms PROVE loc'[w] = o1[mac'[w]]
    <3>1. mac[w] \in Macs /\ mac[w] # m /\ loc[w] = o[mac[w]]
      BY <2>1 DEF Owner, SdnInv, Known, TypeOK
    <3>2. CASE w = v
      BY <1>6, <2>2, <3>2
    <3>3. CASE w # v
      BY <1>6, <2>2, <3>1, <3>3
    <3> QED
      BY <3>2, <3>3
  <2>4. \A p \in Nodes : \A a \in macs[p] : o1[a] = p
    BY <2>1, <2>2 DEF Owner, SdnInv, Known, TypeOK
  <2>5. ASSUME NEW q \in Nodes PROVE OwnLines(o1, file[q]) /\ OwnTable(o1, fdb[q])
    BY <2>1, <2>2 DEF Owner, OwnLines, OwnTable, SdnInv, Known
  <2>6. Owner(o1)'
    BY <1>3, <2>3, <2>4, <2>5 DEF Owner
  <2> QED
    BY <2>2, <2>6
<1> QED
  BY <1>1, <1>5, <1>7, <1>8, ChangedStep

\* A migrated VM ends the promise.
LEMMA MigrateStep == ASSUME SdnInv, NEW v \in Vms, Migrate(v) PROVE SdnInv'
<1>1. Changed /\ BudgetKept /\ ~NeverMigrated'
  BY SpendBudget DEF Migrate, Disturbances
<1>2. PICK n \in Nodes : loc' = [loc EXCEPT ![v] = n]
  BY DEF Migrate
<1>3. UNCHANGED <<mac, used, file, hook, fdb, pc, left, macs, missing>>
  BY DEF Migrate, hosts
<1>4. clean' \in BOOLEAN /\ current' \in BOOLEAN
  BY <1>1, Zenon DEF Changed
<1>5. TypeOK'
  BY <1>1, <1>2, <1>3, <1>4 DEF SdnInv, TypeOK, BudgetKept
<1>6. Known'
  BY <1>3 DEF SdnInv, Known
<1> QED
  BY <1>1, <1>5, <1>6, ChangedStep

\* Tables are emptied and replayed: a reboot, a commit, the apply of a build.
LEMMA ReloadStep ==
    ASSUME SdnInv,
           Reload \/ ReloadFails \/ SdnCommit \/ \E n \in Nodes : NodeReboots(n)
    PROVE  SdnInv'
<1>1. /\ fdb' \in [Nodes -> Table] /\ \A n \in Nodes : fdb'[n] \in {fdb[n], Replayed(n)}
      /\ UNCHANGED <<vms, file, hook, macs, missing>>
  <2>0. \A n \in Nodes : Replayed(n) \in Table
    BY ReplayedTable DEF SdnInv
  <2>1. fdb \in [Nodes -> Table]
    BY DEF SdnInv, TypeOK, Table
  <2>2. CASE Reload \/ SdnCommit \/ ReloadFails
    BY <2>0, <2>1, <2>2 DEF Reload, SdnCommit, ReloadFails
  <2>3. CASE \E n \in Nodes : NodeReboots(n)
    <3>1. PICK n \in Nodes : NodeReboots(n)
      BY <2>3
    <3> QED
      BY <2>0, <2>1, <3>1 DEF NodeReboots
  <2> QED
    BY <2>2, <2>3
<1>2. /\ Known'
      /\ \A o \in [Macs -> Nodes] : Owner(o) =>
            Owner(o)' /\ \A n \in Nodes : Good(n) => Good(n)'
  BY <1>1, ReplayStep DEF SdnInv
<1>3. BudgetKept
  BY SpendBudget, SameBudget DEF Reload, ReloadFails, SdnCommit, NodeReboots, Disturbances
<1>4. NeverMigrated' => \E o \in [Macs -> Nodes] : Owner(o)'
  BY <1>2, <1>3 DEF SdnInv, OneSite, BudgetKept
<1>5. /\ loc' \in [Vms -> Nodes] /\ mac' \in [Vms -> Macs] /\ used' \in SUBSET Macs
      /\ file' \in [Nodes -> SUBSET (Addresses \X Nodes)] /\ hook' \in SUBSET Nodes
      /\ fdb' \in [Nodes -> [Addresses -> SUBSET Nodes]]
      /\ macs' \in [Nodes -> SUBSET Macs] /\ missing' \in [Nodes -> SUBSET Macs]
      /\ budget' \in [Disturbances -> Nat]
  BY <1>1, <1>3 DEF SdnInv, TypeOK, Table, vms, BudgetKept
<1>6. CASE ReloadFails
  <2>1. Changed /\ pc' = "idle" /\ UNCHANGED left
    BY <1>6 DEF ReloadFails
  <2>2. clean' \in BOOLEAN /\ current' \in BOOLEAN
    BY <2>1, Zenon DEF Changed
  <2>3. TypeOK'
    BY <1>5, <2>1, <2>2 DEF SdnInv, TypeOK
  <2> QED
    BY <1>2, <1>3, <1>4, <2>1, <2>3, ChangedStep
<1>7. CASE Reload
  <2>1. /\ pc = "reload" /\ pc' = "discover" /\ left' = Nodes
        /\ UNCHANGED <<clean, current, budget>>
    BY <1>7 DEF Reload
  <2>2. TypeOK'
    BY <1>5, <2>1 DEF SdnInv, TypeOK
  <2>3. OneSite' /\ Scanned'
    BY <1>4, <2>1 DEF OneSite, Scanned
  <2>4. Progress'
    BY <1>2, <1>3, <2>1 DEF SdnInv, OneSite, Progress, BudgetKept
  <2> QED
    BY <1>2, <1>3, <2>1, <2>2, <2>3, <2>4 DEF SdnInv, BudgetKept
<1>8. CASE SdnCommit \/ \E n \in Nodes : NodeReboots(n)
  <2>1. UNCHANGED <<pc, left, clean, current>>
    BY <1>8 DEF SdnCommit, NodeReboots
  <2>2. TypeOK'
    BY <1>5, <2>1 DEF SdnInv, TypeOK
  <2>3. OneSite' /\ Scanned'
    BY <1>1, <1>4, <2>1 DEF SdnInv, OneSite, Scanned, MacsOn, vms
  <2>4. Progress'
    BY <1>2, <1>3, <2>1 DEF SdnInv, OneSite, Progress, BudgetKept
  <2> QED
    BY <1>2, <1>3, <2>1, <2>2, <2>3, <2>4 DEF SdnInv, BudgetKept
<1> QED
  BY <1>6, <1>7, <1>8

\* Nothing happens to hosts and VMs, and macs holds what it held or less.
LEMMA QuietStep ==
    ASSUME SdnInv, UNCHANGED <<vms, hosts>>, macs' \in [Nodes -> SUBSET Macs],
           \A p \in Nodes : macs'[p] \subseteq macs[p] \cup MacsOn(p)
    PROVE  /\ Known'
           /\ \A o \in [Macs -> Nodes] : Owner(o) => Owner(o)'
           /\ \A n \in Nodes : Good(n) => Good(n)'
<1>1. UNCHANGED <<loc, mac, used, file, hook, fdb>>
  BY DEF vms, hosts
<1>2. \A p \in Nodes : MacsOn(p) \subseteq used
  BY DEF SdnInv, Known, MacsOn
<1>3. \A p \in Nodes : macs'[p] \subseteq used
  BY <1>2 DEF SdnInv, Known
<1>4. Known'
  BY <1>1, <1>3 DEF SdnInv, Known
<1>5. ASSUME NEW o \in [Macs -> Nodes], Owner(o) PROVE Owner(o)'
  <2>1. \A p \in Nodes : \A a \in MacsOn(p) : o[a] = p
    BY <1>5 DEF Owner, MacsOn
  <2>2. \A p \in Nodes : \A a \in macs'[p] : o[a] = p
    BY <1>5, <2>1 DEF Owner
  <2> QED
    BY <1>1, <1>5, <2>2 DEF Owner
<1>6. \A n \in Nodes : Good(n) => Good(n)'
  BY <1>1 DEF Good, Complete, Connected
<1> QED
  BY <1>4, <1>5, <1>6

\* A build begins, ends, or is skipped.
LEMMA BuildStep ==
    ASSUME SdnInv, StartCallback \/ StartCommand \/ EnsureSkipped \/ CallbackEnds
    PROVE  SdnInv'
<1>1. UNCHANGED <<vms, hosts, macs, missing>>
  BY DEF StartCallback, StartCommand, EnsureSkipped, CallbackEnds
<1>2. /\ Known'
      /\ \A o \in [Macs -> Nodes] : Owner(o) => Owner(o)'
      /\ \A n \in Nodes : Good(n) => Good(n)'
  BY <1>1, QuietStep DEF SdnInv, TypeOK
<1>3. BudgetKept
  BY SpendBudget, SameBudget
     DEF StartCallback, StartCommand, EnsureSkipped, CallbackEnds, Disturbances
<1>4. NeverMigrated' => \E o \in [Macs -> Nodes] : Owner(o)'
  BY <1>2, <1>3 DEF SdnInv, OneSite, BudgetKept
<1>5. /\ loc' \in [Vms -> Nodes] /\ mac' \in [Vms -> Macs] /\ used' \in SUBSET Macs
      /\ file' \in [Nodes -> SUBSET (Addresses \X Nodes)] /\ hook' \in SUBSET Nodes
      /\ fdb' \in [Nodes -> [Addresses -> SUBSET Nodes]]
      /\ macs' \in [Nodes -> SUBSET Macs] /\ missing' \in [Nodes -> SUBSET Macs]
      /\ budget' \in [Disturbances -> Nat]
  BY <1>1, <1>3 DEF SdnInv, TypeOK, vms, hosts, BudgetKept
<1>6. CASE EnsureSkipped
  <2>1. Changed /\ pc' = "idle" /\ UNCHANGED left
    BY <1>6 DEF EnsureSkipped
  <2>2. clean' \in BOOLEAN /\ current' \in BOOLEAN
    BY <2>1, Zenon DEF Changed
  <2>3. TypeOK'
    BY <1>5, <2>1, <2>2 DEF SdnInv, TypeOK
  <2> QED
    BY <1>2, <1>3, <1>4, <2>1, <2>3, ChangedStep
<1>7. CASE StartCallback \/ StartCommand
  <2>1. /\ \/ pc' = "reload" /\ UNCHANGED left
           \/ pc' = "discover" /\ left' = Nodes
        /\ clean' = TRUE /\ UNCHANGED current
    BY <1>7 DEF StartCallback, StartCommand
  <2>2. clean' \in BOOLEAN /\ current' \in BOOLEAN
    BY <2>1, Zenon DEF SdnInv, TypeOK
  <2>3. TypeOK'
    BY <1>5, <2>1, <2>2 DEF SdnInv, TypeOK
  <2>4. OneSite' /\ Scanned'
    BY <1>4, <2>1 DEF OneSite, Scanned
  <2>5. Progress'
    BY <1>2, <1>3, <2>1 DEF SdnInv, Progress, BudgetKept
  <2> QED
    BY <1>2, <1>3, <2>1, <2>3, <2>4, <2>5 DEF SdnInv, BudgetKept
<1>8. CASE CallbackEnds
  <2>1. /\ pc = "install" /\ left = {} /\ pc' = "idle"
        /\ current' = clean /\ UNCHANGED <<left, clean>>
    BY <1>8 DEF CallbackEnds
  <2>2. clean' \in BOOLEAN /\ current' \in BOOLEAN
    BY <2>1, Zenon DEF SdnInv, TypeOK
  <2>3. TypeOK'
    BY <1>5, <2>1, <2>2 DEF SdnInv, TypeOK
  <2>4. OneSite' /\ Scanned'
    BY <1>4, <2>1 DEF OneSite, Scanned
  <2>5. Progress'
    BY <1>2, <1>3, <2>1 DEF SdnInv, Progress, BudgetKept
  <2> QED
    BY <1>2, <1>3, <2>1, <2>3, <2>4, <2>5 DEF SdnInv, BudgetKept
<1> QED
  BY <1>6, <1>7, <1>8

\* A node is visited; what is kept of it is among its MACs.
LEMMA DiscoverStep ==
    ASSUME SdnInv, NEW n \in Nodes, Discover(n) \/ ListFails(n) \/ ConfigFails(n)
    PROVE  SdnInv'
<1>1. PICK found \in SUBSET MacsOn(n) :
         /\ Discovered(n, found)
         /\ \/ found = MacsOn(n) /\ UNCHANGED <<clean, current, budget>>
            \/ Spend("fault") /\ Changed
  <2>1. {} \in SUBSET MacsOn(n) /\ MacsOn(n) \in SUBSET MacsOn(n)
        /\ \A m : MacsOn(n) \ {m} \in SUBSET MacsOn(n)
    OBVIOUS
  <2> QED
    BY <2>1 DEF Discover, ListFails, ConfigFails
<1>2. /\ pc = "discover" /\ n \in left /\ macs' = [macs EXCEPT ![n] = found]
      /\ \/ left = {n} /\ pc' = "install" /\ left' = Nodes
         \/ left # {n} /\ left' = left \ {n} /\ UNCHANGED pc
      /\ UNCHANGED <<vms, hosts, missing>>
  BY <1>1 DEF Discovered, IsNext
<1>3. UNCHANGED <<loc, mac, used, file, hook, fdb>>
  BY <1>2 DEF vms, hosts
<1>4. MacsOn(n) \subseteq Macs
  BY DEF MacsOn, SdnInv, TypeOK
<1>5. macs' \in [Nodes -> SUBSET Macs]
      /\ macs'[n] = found /\ \A p \in Nodes : p # n => macs'[p] = macs[p]
  BY <1>2, <1>4 DEF SdnInv, TypeOK
<1>6. \A p \in Nodes : macs'[p] \subseteq macs[p] \cup MacsOn(p)
  BY <1>1, <1>5
<1>7. /\ Known'
      /\ \A o \in [Macs -> Nodes] : Owner(o) => Owner(o)'
      /\ \A m \in Nodes : Good(m) => Good(m)'
  BY <1>2, <1>5, <1>6, QuietStep
<1>8. BudgetKept
  BY <1>1, SpendBudget, SameBudget DEF Disturbances
<1>9. NeverMigrated' => \E o \in [Macs -> Nodes] : Owner(o)'
  BY <1>7, <1>8 DEF SdnInv, OneSite, BudgetKept
<1>10. clean' \in BOOLEAN /\ current' \in BOOLEAN
  BY <1>1, Zenon DEF SdnInv, TypeOK, Changed
<1>11. TypeOK'
  BY <1>2, <1>3, <1>5, <1>8, <1>10 DEF SdnInv, TypeOK, BudgetKept
<1>12. CASE Changed
  BY <1>7, <1>8, <1>9, <1>11, <1>12, ChangedStep
<1>13. CASE found = MacsOn(n) /\ UNCHANGED <<clean, current, budget>>
  <2>1. \A p \in Nodes : MacsOn(p)' = MacsOn(p)
    BY <1>3 DEF MacsOn
  <2>2. clean => \A p \in Nodes \ (left \ {n}) : macs'[p] = MacsOn(p)
    BY <1>2, <1>5, <1>13 DEF SdnInv, Scanned
  <2>3. Scanned'
    BY <1>2, <1>13, <2>1, <2>2 DEF Scanned
  <2>4. OneSite'
    BY <1>9 DEF OneSite
  <2>5. Progress'
    BY <1>2, <1>7, <1>8, <1>13 DEF SdnInv, Progress, BudgetKept
  <2> QED
    BY <1>7, <1>8, <1>11, <1>13, <2>3, <2>4, <2>5 DEF SdnInv, BudgetKept
<1> QED
  BY <1>1, <1>12, <1>13

\* The lines written for a node name MACs that were found on their peers, and
\* all of them after an undisturbed discovery.
LEMMA LinesForFacts ==
    ASSUME TypeOK, NEW n \in Nodes
    PROVE  /\ LinesFor(n) \in Lines
           /\ \A a \in Macs, p \in Nodes : <<a, p>> \in LinesFor(n) => a \in macs[p]
           /\ (\A p \in Nodes : macs[p] = MacsOn(p)) => Complete(LinesFor(n), n)
<1>1. LinesFor(n) \in Lines
  BY DEF LinesFor, Lines
<1>2. ASSUME NEW a \in Macs, NEW p \in Nodes, <<a, p>> \in LinesFor(n)
      PROVE  a \in macs[p]
  BY <1>2, AddressFacts DEF LinesFor
<1>3. ASSUME \A p \in Nodes : macs[p] = MacsOn(p)
      PROVE  Complete(LinesFor(n), n)
  <2>1. ASSUME NEW v \in Vms, loc[v] # n PROVE <<mac[v], loc[v]>> \in LinesFor(n)
    <3>1. mac[v] \in Addresses /\ loc[v] \in Nodes \ {n}
      BY <2>1, AddressFacts DEF TypeOK
    <3>2. mac[v] \in macs[loc[v]]
      BY <1>3, <3>1 DEF MacsOn
    <3> QED
      BY <3>1, <3>2 DEF LinesFor
  <2>2. ASSUME NEW p \in Nodes \ {n} PROVE <<Broadcast, p>> \in LinesFor(n)
    BY AddressFacts DEF LinesFor
  <2> QED
    BY <2>1, <2>2 DEF Complete
<1> QED
  BY <1>1, <1>2, <1>3

\* An install of node n, or a part of it, brings no MAC that was not found.
LEMMA HostStep ==
    ASSUME SdnInv, NEW n \in Nodes, UNCHANGED <<vms, macs>>,
           file' \in {file, [file EXCEPT ![n] = LinesFor(n)]},
           fdb' \in {fdb, [fdb EXCEPT ![n] = Appended(@, LinesFor(n))]}
    PROVE  /\ file' \in [Nodes -> Lines] /\ fdb' \in [Nodes -> Table]
           /\ Known'
           /\ \A o \in [Macs -> Nodes] : Owner(o) => Owner(o)'
<1> DEFINE L == LinesFor(n)
<1>1. L \in Lines /\ \A a \in Macs, p \in Nodes : <<a, p>> \in L => a \in macs[p]
  BY LinesForFacts DEF SdnInv
<1> HIDE DEF L
<1>2. /\ file \in [Nodes -> Lines] /\ fdb \in [Nodes -> Table] /\ fdb[n] \in Table
      /\ TypeOK /\ Known
  BY DEF SdnInv, TypeOK, Lines, Table
<1>3. UNCHANGED <<loc, mac, used, macs>>
  BY DEF vms
<1>4. /\ Appended(fdb[n], L) \in Table
      /\ \A a \in Macs :
            Appended(fdb[n], L)[a] =
               IF fdb[n][a] = {}
               THEN {p \in Peers(L, a) : \A q \in Peers(L, a) : p <= q}
               ELSE fdb[n][a]
  BY <1>1, <1>2, AppendedTable
<1>5. /\ file' \in [Nodes -> Lines] /\ file'[n] \in {file[n], L}
      /\ \A m \in Nodes : m # n => file'[m] = file[m]
  BY <1>1, <1>2 DEF L
<1>6. /\ fdb' \in [Nodes -> Table] /\ fdb'[n] \in {fdb[n], Appended(fdb[n], L)}
      /\ \A m \in Nodes : m # n => fdb'[m] = fdb[m]
  BY <1>2, <1>4 DEF L
<1>7. Known'
  <2>1. \A a \in Macs, p \in Nodes : <<a, p>> \in L => a \in used
    BY <1>1, <1>2 DEF Known
  <2>2. ASSUME NEW m \in Nodes, NEW a \in Macs, NEW p \in Nodes, <<a, p>> \in file'[m]
        PROVE  a \in used
    BY <1>2, <1>5, <2>1, <2>2 DEF Known
  <2>3. ASSUME NEW a \in Macs, Appended(fdb[n], L)[a] # {} PROVE a \in used
    <3>1. CASE fdb[n][a] # {}
      BY <1>2, <3>1 DEF Known
    <3>2. CASE fdb[n][a] = {}
      <4>1. PICK p : p \in Appended(fdb[n], L)[a]
        BY <2>3
      <4>2. p \in Peers(L, a)
        BY <1>4, <3>2, <4>1
      <4> QED
        BY <2>1, <4>2 DEF Peers
    <3> QED
      BY <3>1, <3>2
  <2>4. ASSUME NEW m \in Nodes, NEW a \in Macs, fdb'[m][a] # {} PROVE a \in used
    BY <1>2, <1>6, <2>3, <2>4 DEF Known
  <2> QED
    BY <1>2, <1>3, <2>2, <2>4 DEF Known
<1>8. ASSUME NEW o \in [Macs -> Nodes], Owner(o) PROVE Owner(o)'
  <2>1. OwnLines(o, L) /\ OwnTable(o, fdb[n]) /\ \A v \in Vms : loc[v] = o[mac[v]]
    BY <1>1, <1>8 DEF Owner, OwnLines
  <2>2. OwnTable(o, Appended(fdb[n], L))
    BY <1>1, <1>2, <2>1, AppendConnects
  <2>3. \A m \in Nodes : OwnLines(o, file'[m]) /\ OwnTable(o, fdb'[m])
    BY <1>5, <1>6, <1>8, <2>1, <2>2 DEF Owner
  <2> QED
    BY <1>3, <1>8, <2>3 DEF Owner
<1> QED
  BY <1>5, <1>6, <1>7, <1>8

\* What a build reports as missing are MACs.
LEMMA ReportType ==
    ASSUME TypeOK, NEW n \in Nodes, ReportMissing(n)
    PROVE  missing' \in [Nodes -> SUBSET Macs]
<1>1. Tested(n) \subseteq Macs
  BY DEF Tested, TypeOK
<1>2. CASE Expected(n) = {}
  BY <1>2 DEF ReportMissing, TypeOK
<1>3. CASE Expected(n) # {}
  <2>1. PICK m \in Tested(n) :
           missing' = [missing EXCEPT ![n] = IF fdb'[n][m] = {} THEN {m} ELSE {}]
    BY <1>3 DEF ReportMissing
  <2> QED
    BY <1>1, <2>1 DEF TypeOK
<1> QED
  BY <1>2, <1>3

\* A node is installed, in whole or in part.
LEMMA InstallStep ==
    ASSUME SdnInv, NEW n \in Nodes, Install(n) \/ InstallDown(n) \/ InstallFails(n)
    PROVE  SdnInv'
<1>1. /\ pc = "install" /\ pc' = "install" /\ left' = left \ {n}
      /\ UNCHANGED <<vms, macs>>
      /\ file' \in {file, [file EXCEPT ![n] = LinesFor(n)]}
      /\ fdb' \in {fdb, [fdb EXCEPT ![n] = Appended(@, LinesFor(n))]}
      /\ hook' \in {hook, hook \cup {n}}
  BY DEF Install, InstallDown, InstallFails, Installed
<1>2. UNCHANGED <<loc, mac, used, macs>>
  BY <1>1 DEF vms
<1>3. /\ file' \in [Nodes -> Lines] /\ fdb' \in [Nodes -> Table]
      /\ Known'
      /\ \A o \in [Macs -> Nodes] : Owner(o) => Owner(o)'
  BY <1>1, HostStep
<1>4. missing' \in [Nodes -> SUBSET Macs]
  <2>1. ReportMissing(n) \/ missing' = [missing EXCEPT ![n] = {}]
    BY DEF Install, InstallDown, InstallFails
  <2> QED
    BY <2>1, ReportType DEF SdnInv, TypeOK
<1>5. BudgetKept
  BY SpendBudget, SameBudget DEF Install, InstallDown, InstallFails, Disturbances
<1>6. NeverMigrated' => \E o \in [Macs -> Nodes] : Owner(o)'
  BY <1>3, <1>5 DEF SdnInv, OneSite, BudgetKept
<1>7. clean' \in BOOLEAN /\ current' \in BOOLEAN
  BY Zenon DEF SdnInv, TypeOK, Changed, Install, InstallDown, InstallFails
<1>8. TypeOK'
  BY <1>1, <1>2, <1>3, <1>4, <1>5, <1>7 DEF SdnInv, TypeOK, BudgetKept, Lines, Table
<1>9. CASE InstallDown(n) \/ InstallFails(n)
  <2>1. Changed
    BY <1>9 DEF InstallDown, InstallFails
  <2> QED
    BY <1>3, <1>5, <1>6, <1>8, <2>1, ChangedStep
<1>10. CASE Install(n)
  <2>1. /\ file' = [file EXCEPT ![n] = LinesFor(n)]
        /\ fdb' = [fdb EXCEPT ![n] = Appended(@, LinesFor(n))]
        /\ hook' = hook \cup {n}
        /\ UNCHANGED <<clean, current, budget>>
    BY <1>10 DEF Install
  <2>2. OneSite'
    BY <1>6 DEF OneSite
  <2>3. Scanned'
    BY <1>1, <1>2, <2>1 DEF SdnInv, Scanned, MacsOn
  <2>4. ASSUME NEW m \in Nodes, m # n, Good(m) PROVE Good(m)'
    BY <1>2, <2>1, <2>4 DEF Good, Complete, Connected, SdnInv, TypeOK
  <2>5. ASSUME clean, NeverMigrated PROVE Good(n)'
    <3>1. PICK o \in [Macs -> Nodes] : Owner(o)
      BY <2>5 DEF SdnInv, OneSite
    <3> DEFINE L == LinesFor(n)
    <3>2. /\ L \in Lines /\ Complete(L, n)
          /\ \A a \in Macs, p \in Nodes : <<a, p>> \in L => a \in macs[p]
      BY <1>1, <2>5, LinesForFacts DEF SdnInv, Scanned
    <3>3. file'[n] = L /\ fdb'[n] = Appended(fdb[n], L) /\ n \in hook'
      BY <2>1 DEF SdnInv, TypeOK
    <3> HIDE DEF L
    <3>4. /\ OwnLines(o, L) /\ OwnTable(o, fdb[n]) /\ fdb[n] \in Table /\ TypeOK
          /\ \A v \in Vms : loc[v] = o[mac[v]]
      BY <3>1, <3>2 DEF Owner, OwnLines, SdnInv, TypeOK, Table
    <3>5. /\ \A v \in Vms : loc[v] # n => Appended(fdb[n], L)[mac[v]] = {loc[v]}
          /\ Nodes \ {n} \subseteq Appended(fdb[n], L)[Broadcast]
      BY <3>2, <3>4, AppendConnects
    <3> QED
      BY <1>2, <3>2, <3>3, <3>5 DEF Good, Complete, Connected
  <2>6. Progress'
    BY <1>1, <1>5, <2>1, <2>4, <2>5 DEF SdnInv, Progress, BudgetKept
  <2> QED
    BY <1>3, <1>5, <1>8, <2>1, <2>2, <2>3, <2>6 DEF SdnInv, BudgetKept
<1> QED
  BY <1>9, <1>10

-----------------------------------------------------------------------------

\* No overlay yet: the owner of a MAC is the node of the VM that has it.
LEMMA SdnInit == Init => SdnInv
<1> SUFFICES ASSUME Init PROVE SdnInv
  OBVIOUS
<1>1. TypeOK
  <2>1. clean \in BOOLEAN /\ current \in BOOLEAN
    BY Zenon DEF Init
  <2>2. NoEntries \in [Addresses -> SUBSET Nodes]
    BY DEF NoEntries
  <2> QED
    BY <2>1, <2>2, ConstantsAssumption DEF Init, TypeOK
<1>2. \A n \in Nodes : \A a \in Macs : fdb[n][a] = {}
  BY AddressFacts DEF Init, NoEntries
<1>3. budget["migrate"] <= Limit["migrate"]
  BY ConstantsAssumption DEF Init, Disturbances
<1>4. Known
  BY <1>2 DEF Init, Known
<1>5. \E o \in [Macs -> Nodes] : Owner(o)
  <2>1. PICK home \in Nodes : TRUE
    BY ConstantsAssumption
  <2> DEFINE Holder(a) == CHOOSE v \in Vms : mac[v] = a
             o == [a \in Macs |-> IF \E v \in Vms : mac[v] = a THEN loc[Holder(a)] ELSE home]
  <2>2. ASSUME NEW v \in Vms PROVE Holder(mac[v]) = v
    BY DEF Init
  <2>3. \A a \in Macs : (\E v \in Vms : mac[v] = a) => Holder(a) \in Vms
    BY <2>2
  <2> HIDE DEF Holder
  <2>4. o \in [Macs -> Nodes]
    BY <1>1, <2>3 DEF TypeOK
  <2>5. ASSUME NEW v \in Vms PROVE loc[v] = o[mac[v]]
    BY <1>1, <2>2 DEF TypeOK
  <2> HIDE DEF o
  <2>6. Owner(o)
    BY <1>2, <2>5 DEF Init, Owner, OwnLines, OwnTable
  <2> QED
    BY <2>4, <2>6
<1>6. ~clean /\ ~current
  BY Zenon DEF Init
<1> QED
  BY <1>1, <1>3, <1>4, <1>5, <1>6 DEF SdnInv, OneSite, Scanned, Progress

LEMMA SdnInvStep == SdnInv /\ [Next]_vars => SdnInv'
<1> SUFFICES ASSUME SdnInv, [Next]_vars PROVE SdnInv'
  OBVIOUS
<1>1. CASE UNCHANGED vars
  BY <1>1 DEF vars, SdnInv, TypeOK, Known, OneSite, NeverMigrated, Owner, Scanned, MacsOn,
              Progress, Good, Complete, Connected
<1>2. CASE Next
  <2>1. CASE StartCallback \/ StartCommand \/ EnsureSkipped \/ CallbackEnds
    BY <2>1, BuildStep
  <2>2. CASE Reload \/ ReloadFails \/ SdnCommit \/ \E n \in Nodes : NodeReboots(n)
    BY <2>2, ReloadStep
  <2>3. CASE \E n \in Nodes : Discover(n) \/ ListFails(n) \/ ConfigFails(n)
    BY <2>3, DiscoverStep
  <2>4. CASE \E n \in Nodes : Install(n) \/ InstallDown(n) \/ InstallFails(n)
    BY <2>4, InstallStep
  <2>5. CASE \E v \in Vms : Recreate(v) \/ Migrate(v)
    BY <2>5, RecreateStep, MigrateStep
  <2> QED
    BY <1>2, <2>1, <2>2, <2>3, <2>4, <2>5 DEF Next, Callback, Outside
<1> QED
  BY <1>1, <1>2

LEMMA SdnInvariant == Spec => []SdnInv
<1>1. Init => SdnInv
  BY SdnInit
<1>2. SdnInv /\ [Next]_vars => SdnInv'
  BY SdnInvStep
<1> QED
  BY <1>1, <1>2, PTL DEF Spec

\* The variables of the overlay keep their types: TypeOK of SdnOverlay.
THEOREM TypeCorrect == Spec => []TypeOK
<1>1. SdnInv => TypeOK
  BY DEF SdnInv
<1> QED
  BY <1>1, SdnInvariant, PTL

\* Once _post_create_sdn went through with nothing failing or changing under it,
\* every node keeps a way to every remote VM, over any number of reboots, SDN
\* commits and further builds, until a VM changes or a build fails; a MAC that
\* never moved is never bound to a second node.
THEOREM OverlayIsDurable == Spec => []Durable
<1>1. SdnInv => Durable
  BY DEF SdnInv, Progress, NeverMigrated, Good, Durable
<1> QED
  BY <1>1, SdnInvariant, PTL
=============================================================================
