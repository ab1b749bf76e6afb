-------------------------- MODULE EtcdRejoinProofs --------------------------
(* The wipe of a local etcd store is safe, no second cluster is founded and  *)
(* the quorum stays, for any number of control plane nodes healed at once,   *)
(* failed reads, spent budgets and killed runs.                              *)
EXTENDS EtcdRejoin, FiniteSetTheorems, TLAPS

\* A starting server leaves its node well typed, joins or founds a cluster only
\* with the removal annotations gone, and never empties its store.
LEMMA BootedState ==
    ASSUME NEW s \in NodeState, s.marker => s.member = "none"
    PROVE  /\ Booted(s) \in NodeState
           /\ Booted(s).marker => Booted(s).member = "none"
           /\ Booted(s).store = "none" => s.store = "none"
<1>1. CASE s.store = "wedged"
  BY <1>1 DEF Booted, Failed, NodeState
<1>2. CASE s.store = "alone"
  BY <1>2 DEF Booted, Failed, NodeState
<1>3. CASE s.store = "good"
  BY <1>3 DEF Booted, Failed, NodeState
<1>4. CASE s.store = "none" /\ ~s.srv
  BY <1>4 DEF Booted, Failed, NodeState
<1>5. CASE s.store = "none" /\ s.srv
  BY <1>5 DEF Booted, Failed, NodeState
<1> QED
  BY <1>1, <1>2, <1>3, <1>4, <1>5 DEF NodeState

-----------------------------------------------------------------------------
(* The inductive invariant. *)

Healing == play \in {"rejoin", "settle"}

\* A node the removal controller marked is no member.
MarkedIsOut == \A n \in CPs : cp[n].marker => cp[n].member = "none"

\* Between its stop and its reboot a healed node stays down, and from the wipe
\* on it carries the marker.
HealedNodesDown ==
    Healing => \A h \in active :
                 /\ pc[h] \in Probe .. Reboot => cp[h].svc = "stopped"
                 /\ pc[h] \in Wipe .. Reboot => cp[h].marker

\* No node ever reboots by itself.
Orderly == Limit["reboot"] = 0

\* TypeOK and the above.
WipeInv == /\ TypeOK /\ MarkedIsOut
           /\ budget["reboot"] <= Limit["reboot"]
           /\ Orderly => HealedNodesDown

\* What one step may do to the store of a node.
WipeStep == \A n \in CPs : cp[n].store # "none" /\ cp'[n].store = "none" =>
                             cp[n].member = "none"

\* A step that gives one node a new state and drops no marked member.
LEMMA OneNode ==
    ASSUME TypeOK, MarkedIsOut, NEW n \in CPs, NEW x \in NodeState,
           cp' = [cp EXCEPT ![n] = x], x.marker => x.member = "none"
    PROVE  /\ cp' \in [CPs -> NodeState]
           /\ MarkedIsOut'
           /\ cp'[n] = x
           /\ \A m \in CPs : m # n => cp'[m] = cp[m]
  BY DEF TypeOK, MarkedIsOut

\* Spending a disturbance keeps the budget within its limit; where no node reboots
\* by itself there is no reboot to spend.
LEMMA SpendKeeps ==
    ASSUME budget \in [Kinds -> Nat], budget["reboot"] <= Limit["reboot"],
           NEW k \in Kinds, Spend(k)
    PROVE  /\ Orderly => k # "reboot"
           /\ budget' \in [Kinds -> Nat] /\ budget'["reboot"] <= Limit["reboot"]
<1>1. "reboot" \in Kinds /\ Limit["reboot"] \in Nat
  BY ConstantsAssumption DEF Kinds
<1> QED
  BY <1>1 DEF Spend, Orderly

\* Nothing RKE2 does by itself wakes a node that is being healed, or takes the
\* marker from it; the store of a node is emptied by the role alone.
LEMMA Rke2Step ==
    ASSUME WipeInv, Rke2
    PROVE  WipeInv' /\ (Orderly => WipeStep)
<1> PICK n \in CPs : \/ Retry(n) \/ PromoteLearner(n) \/ RemoveMember(n)
                     \/ Strike(n) \/ Hiccup(n) \/ NodeReboots(n)
  BY DEF Rke2
<1> USE DEF WipeInv
<1>a. cp[n] \in NodeState /\ (cp[n].marker => cp[n].member = "none")
  BY DEF TypeOK, MarkedIsOut
<1>b. Kinds = {"strike", "hiccup", "misread", "fault", "reboot"}
  BY DEF Kinds
<1>s. SUFFICES
        ASSUME NEW x \in NodeState, cp' = [cp EXCEPT ![n] = x],
               x.marker => x.member = "none",
               x.store = "none" => cp[n].store = "none",
               Orderly /\ cp[n].svc = "stopped" => x.svc = "stopped",
               Orderly /\ cp[n].svc = "stopped" /\ cp[n].marker => x.marker,
               budget' \in [Kinds -> Nat], budget'["reboot"] <= Limit["reboot"],
               UNCHANGED <<play, active, formed, pc, seen>>
        PROVE  WipeInv' /\ (Orderly => WipeStep)
  <2>1. CASE Retry(n)
    BY <2>1, <1>a, BootedState DEF Retry, TypeOK
  <2>2. CASE PromoteLearner(n)
    BY <2>2, <1>a DEF PromoteLearner, TypeOK, NodeState
  <2>3. CASE RemoveMember(n)
    BY <2>3, <1>a DEF RemoveMember, TypeOK, NodeState
  <2>4. CASE Strike(n)
    BY <2>4, <1>a, <1>b, SpendKeeps DEF Strike, Failed, TypeOK, NodeState
  <2>5. CASE Hiccup(n)
    BY <2>5, <1>a, <1>b, SpendKeeps DEF Hiccup, TypeOK, NodeState
  <2>6. CASE NodeReboots(n)
    <3>1. PICK r \in NodeState : r = [cp[n] EXCEPT !.sig = FALSE, !.svc = "stopped"]
      BY <1>a DEF NodeState
    <3>2. r.store = cp[n].store /\ (r.marker => r.member = "none")
      BY <1>a, <3>1 DEF NodeState
    <3>3. /\ Booted(r) \in NodeState /\ cp' = [cp EXCEPT ![n] = Booted(r)]
          /\ Booted(r).marker => Booted(r).member = "none"
          /\ Booted(r).store = "none" => cp[n].store = "none"
      BY <2>6, <3>1, <3>2, BootedState DEF NodeReboots, Rebooted
    <3>4. /\ ~Orderly /\ budget' \in [Kinds -> Nat]
          /\ budget'["reboot"] <= Limit["reboot"]
      BY <2>6, <1>b, SpendKeeps DEF NodeReboots, TypeOK
    <3>5. UNCHANGED <<play, active, formed, pc, seen>>
      BY <2>6 DEF NodeReboots
    <3> QED
      BY <3>3, <3>4, <3>5
  <2> QED
    BY <2>1, <2>2, <2>3, <2>4, <2>5, <2>6
<1>1. /\ cp' \in [CPs -> NodeState] /\ MarkedIsOut' /\ cp'[n] = x
      /\ \A m \in CPs : m # n => cp'[m] = cp[m]
  BY <1>s, OneNode
<1>2. TypeOK'
  BY <1>s, <1>1 DEF TypeOK
<1>3. Orderly => HealedNodesDown'
  <2> SUFFICES ASSUME Orderly, Healing, NEW h \in active
               PROVE  /\ pc[h] \in Probe .. Reboot => cp'[h].svc = "stopped"
                      /\ pc[h] \in Wipe .. Reboot => cp'[h].marker
    BY <1>s DEF HealedNodesDown, Healing
  <2>1. /\ pc[h] \in Probe .. Reboot => cp[h].svc = "stopped"
        /\ pc[h] \in Wipe .. Reboot => cp[h].marker
        /\ pc[h] \in Wipe .. Reboot => pc[h] \in Probe .. Reboot
        /\ h \in CPs
    BY DEF HealedNodesDown, TypeOK, Wipe, Probe, Reboot
  <2>2. CASE h = n
    BY <2>1, <2>2, <1>s, <1>1, Zenon
  <2>3. CASE h # n
    BY <2>1, <2>3, <1>1, Zenon
  <2> QED
    BY <2>2, <2>3
<1>4. WipeStep
  BY <1>s, <1>1 DEF WipeStep
<1> QED
  BY <1>s, <1>1, <1>2, <1>3, <1>4

\* Starting and ending plays heals and wipes nothing.
LEMMA PlayStep ==
    ASSUME WipeInv, NEW n \in CPs,
           \/ StartKubecp \/ StartSettle \/ StartRejoin \/ FormNode(n)
           \/ RoleEnds \/ CensusPasses \/ CensusFails \/ RunEnds
    PROVE  WipeInv' /\ (Orderly => WipeStep)
<1> USE DEF WipeInv
<1>1. CASE StartSettle \/ StartRejoin
  <2>1. /\ play' \in {"settle", "rejoin"} /\ active' = CPs
        /\ pc' = [m \in CPs |-> Scan] /\ seen' = [m \in CPs |-> {}]
        /\ UNCHANGED <<cp, formed, budget>>
    BY <1>1 DEF StartSettle, StartRejoin, Enter
  <2>2. TypeOK'
    BY <2>1 DEF TypeOK, Scan, Done
  <2>3. HealedNodesDown'
    BY <2>1 DEF HealedNodesDown, Scan, Probe, Wipe, Reboot
  <2> QED
    BY <2>1, <2>2, <2>3 DEF MarkedIsOut, WipeStep
<1>2. CASE FormNode(n)
  <2>1. Rendered(n) \in NodeState /\ (Rendered(n).marker => Rendered(n).member = "none")
        /\ Rendered(n).store = cp[n].store
    <3>1. cp[n] \in NodeState /\ (cp[n].marker => cp[n].member = "none")
      BY DEF TypeOK, MarkedIsOut
    <3>2. ASSUME NEW b \in BOOLEAN
          PROVE  LET r == [cp[n] EXCEPT !.srv = b]
                 IN  /\ r \in NodeState /\ (r.marker => r.member = "none")
                     /\ r.store = cp[n].store
      BY <3>1 DEF NodeState
    <3>3. PICK b \in BOOLEAN : b = ((n # BootHost) \/ cp[n].pin)
      BY Zenon
    <3> QED
      BY <3>2, <3>3, Zenon DEF Rendered
  <2>2. PICK x \in NodeState : /\ cp' = [cp EXCEPT ![n] = x]
                               /\ x.marker => x.member = "none"
                               /\ x.store = "none" => cp[n].store = "none"
    BY <1>2, <2>1, BootedState DEF FormNode
  <2>3. /\ cp' \in [CPs -> NodeState] /\ MarkedIsOut' /\ cp'[n] = x
        /\ \A m \in CPs : m # n => cp'[m] = cp[m]
    BY <2>2, OneNode
  <2>4. /\ play' \in {"form", "none"} /\ formed' \in SUBSET CPs
        /\ UNCHANGED <<active, pc, seen, budget>>
    BY <1>2 DEF FormNode, TypeOK
  <2>5. TypeOK' /\ HealedNodesDown'
    BY <2>3, <2>4 DEF TypeOK, HealedNodesDown, Healing
  <2> QED
    BY <2>2, <2>3, <2>4, <2>5 DEF WipeStep
<1>3. CASE \/ StartKubecp \/ RoleEnds \/ CensusPasses \/ CensusFails \/ RunEnds
  <2>1. /\ play' \in {"form", "none", "census"} /\ formed' \in SUBSET CPs
        /\ UNCHANGED <<cp, active, pc, seen>>
        /\ budget' \in [Kinds -> Nat] /\ budget'["reboot"] <= Limit["reboot"]
    BY <1>3, SpendKeeps
       DEF StartKubecp, RoleEnds, CensusPasses, CensusFails, RunEnds, TypeOK, Kinds
  <2> QED
    BY <2>1 DEF TypeOK, MarkedIsOut, HealedNodesDown, Healing, WipeStep
<1> QED
  BY <1>1, <1>2, <1>3

\* Host h goes on to task t with node state x: what the invariant needs of a task.
Moves(h, t, x) ==
    /\ t \in Scan .. Done /\ x \in NodeState
    /\ cp' = [cp EXCEPT ![h] = x] /\ pc' = [pc EXCEPT ![h] = t]
    /\ x.marker => x.member = "none"
    /\ Orderly /\ x.store = "none" => cp[h].store = "none" \/ cp[h].marker
    /\ Orderly /\ t \in Probe .. Reboot => x.svc = "stopped"
    /\ Orderly /\ t \in Wipe .. Reboot => x.marker
    /\ seen' \in [CPs -> SUBSET {"sig", "running"}]
    /\ budget' \in [Kinds -> Nat] /\ budget'["reboot"] <= Limit["reboot"]
    /\ active' \in SUBSET active /\ UNCHANGED <<play, formed>>

\* Such a task keeps the invariant, and wipes only a marked node.
LEMMA OneTask ==
    ASSUME WipeInv, NEW h \in CPs, NEW t, NEW x, Moves(h, t, x)
    PROVE  WipeInv' /\ (Orderly => WipeStep)
<1> USE DEF WipeInv
<1>a. /\ t \in Scan .. Done /\ x \in NodeState
      /\ Orderly /\ t \in Probe .. Reboot => x.svc = "stopped"
      /\ Orderly /\ t \in Wipe .. Reboot => x.marker
      /\ Orderly /\ x.store = "none" => cp[h].store = "none" \/ cp[h].marker
      /\ active' \in SUBSET active /\ UNCHANGED <<play, formed>>
  BY DEF Moves
<1>1. /\ cp' \in [CPs -> NodeState] /\ MarkedIsOut' /\ cp'[h] = x
      /\ \A m \in CPs : m # h => cp'[m] = cp[m]
  BY OneNode DEF Moves
<1>2. /\ pc' \in [CPs -> Scan .. Done] /\ pc'[h] = t
      /\ \A m \in CPs : m # h => pc'[m] = pc[m]
  BY DEF TypeOK, Moves
<1>3. TypeOK'
  BY <1>1, <1>2 DEF TypeOK, Moves
<1>4. Orderly => HealedNodesDown'
  <2> SUFFICES ASSUME Orderly, Healing, NEW g \in active'
               PROVE  /\ pc'[g] \in Probe .. Reboot => cp'[g].svc = "stopped"
                      /\ pc'[g] \in Wipe .. Reboot => cp'[g].marker
    BY <1>a DEF HealedNodesDown, Healing
  <2>1. g \in CPs /\ g \in active
    BY <1>a DEF TypeOK
  <2>2. CASE g = h
    BY <2>2, <1>a, <1>1, <1>2, Zenon
  <2>3. CASE g # h
    BY <2>1, <2>3, <1>1, <1>2, Zenon DEF HealedNodesDown
  <2> QED
    BY <2>2, <2>3
<1>5. Orderly => WipeStep
  BY <1>a, <1>1 DEF WipeStep, MarkedIsOut
<1> QED
  BY <1>1, <1>3, <1>4, <1>5 DEF Moves

\* Every task of the role, and every spent wait, is such a step.
LEMMA TaskStep ==
    ASSUME WipeInv, NEW h \in CPs, Role(h) \/ BudgetSpent(h)
    PROVE  WipeInv' /\ (Orderly => WipeStep)
<1> DEFINE s == cp[h]
<1>a. /\ s \in NodeState /\ (s.marker => s.member = "none")
      /\ cp \in [CPs -> NodeState]
      /\ pc \in [CPs -> Scan .. Done] /\ seen \in [CPs -> SUBSET {"sig", "running"}]
      /\ active \in SUBSET CPs
      /\ budget \in [Kinds -> Nat] /\ budget["reboot"] <= Limit["reboot"]
  BY DEF WipeInv, TypeOK, MarkedIsOut
<1>b. Orderly =>
        /\ At(h, Probe) \/ At(h, Annotate) \/ At(h, Removed) => s.svc = "stopped"
        /\ At(h, Wipe) \/ At(h, Pin) \/ At(h, Config) => s.svc = "stopped" /\ s.marker
  BY DEF WipeInv, At, HealedNodesDown, Healing, Probe, Annotate, Removed, Wipe, Pin,
         Config, Reboot
<1> HIDE DEF s
<1>c. UNCHANGED cp => cp' = [cp EXCEPT ![h] = s]
  BY <1>a DEF s
<1> USE <1>a DEF Moves, Advance, Scan, Facts, Voter, Stop, Probe, Annotate, Removed,
                 Wipe, Pin, Config, Reboot, Start, Promoted, Done
<1>1. CASE TaskScan(h)
  <2> Moves(h, Facts, s)
    BY <1>1, <1>c DEF TaskScan
  <2> QED
    BY OneTask
<1>2. CASE TaskFacts(h)
  <2> Moves(h, Voter, s)
    BY <1>2, <1>c DEF TaskFacts
  <2> QED
    BY OneTask
<1>3. CASE TaskVoter(h)
  <2>1. PICK t \in {Stop, Done} : pc' = [pc EXCEPT ![h] = t]
    BY <1>3, Zenon DEF TaskVoter
  <2>2. UNCHANGED <<cp, seen, play, active, formed>>
    BY <1>3 DEF TaskVoter
  <2>3. UNCHANGED budget \/ Spend("misread")
    BY <1>3 DEF TaskVoter
  <2>4. budget' \in [Kinds -> Nat] /\ budget'["reboot"] <= Limit["reboot"]
    BY <2>3, SpendKeeps DEF Kinds
  <2> Moves(h, t, s)
    BY <2>1, <2>2, <2>4, <1>c
  <2> QED
    BY OneTask
<1>4. CASE TaskStop(h)
  <2>1. PICK x \in NodeState : x = [s EXCEPT !.svc = "stopped"]
    BY DEF NodeState
  <2>2. cp' = [cp EXCEPT ![h] = x]
    BY <1>4, <2>1 DEF TaskStop, s
  <2> Moves(h, Probe, x)
    BY <1>4, <2>1, <2>2 DEF TaskStop, NodeState, s
  <2> QED
    BY OneTask
<1>5. CASE TaskProbe(h)
  <2> Moves(h, Annotate, s)
    BY <1>5, <1>b, <1>c DEF TaskProbe
  <2> QED
    BY OneTask
<1>6. CASE TaskAnnotate(h)
  <2>1. PICK x \in NodeState : x = [s EXCEPT !.ann = TRUE]
    BY DEF NodeState
  <2>2. cp' = [cp EXCEPT ![h] = x]
    BY <1>6, <2>1 DEF TaskAnnotate, s
  <2> Moves(h, Removed, x)
    BY <1>6, <2>1, <2>2, <1>b DEF TaskAnnotate, NodeState, s
  <2> QED
    BY OneTask
<1>7. CASE TaskRemoved(h)
  <2>1. s.marker
    BY <1>7 DEF TaskRemoved, Met, s
  <2> Moves(h, Wipe, s)
    BY <1>7, <2>1, <1>b, <1>c DEF TaskRemoved
  <2> QED
    BY OneTask
<1>8. CASE TaskWipe(h)
  <2>1. PICK x \in NodeState : x = [s EXCEPT !.store = "none"]
    BY DEF NodeState
  <2>2. cp' = [cp EXCEPT ![h] = x]
    BY <1>8, <2>1 DEF TaskWipe, s
  <2> Moves(h, Pin, x)
    BY <1>8, <2>1, <2>2, <1>b DEF TaskWipe, NodeState, s
  <2> QED
    BY OneTask
<1>9. CASE TaskPin(h)
  <2>1. PICK x \in NodeState : x = [s EXCEPT !.pin = TRUE]
    BY DEF NodeState
  <2>2. cp' = [cp EXCEPT ![h] = x]
    BY <1>9, <2>1 DEF TaskPin, s
  <2> Moves(h, Config, x)
    BY <1>9, <2>1, <2>2, <1>b DEF TaskPin, NodeState, s
  <2> QED
    BY OneTask
<1>10. CASE TaskConfig(h)
  <2>1. PICK x \in NodeState : x = [s EXCEPT !.srv = TRUE]
    BY DEF NodeState
  <2>2. cp' = [cp EXCEPT ![h] = x]
    BY <1>10, <2>1 DEF TaskConfig, s
  <2> Moves(h, Reboot, x)
    BY <1>10, <2>1, <2>2, <1>b DEF TaskConfig, NodeState, s
  <2> QED
    BY OneTask
<1>11. CASE TaskReboot(h)
  <2>1. PICK r \in NodeState : r = [s EXCEPT !.sig = FALSE, !.svc = "stopped"]
    BY DEF NodeState
  <2>2. r.store = s.store /\ (r.marker => r.member = "none")
    BY <2>1 DEF NodeState
  <2>3. PICK x \in NodeState : /\ x = Booted(r)
                               /\ x.marker => x.member = "none"
                               /\ x.store = "none" => s.store = "none"
    BY <2>2, BootedState
  <2>4. cp' = [cp EXCEPT ![h] = x]
    BY <1>11, <2>1, <2>3 DEF TaskReboot, Rebooted, s
  <2> Moves(h, Start, x)
    BY <1>11, <2>3, <2>4 DEF TaskReboot, s
  <2> QED
    BY OneTask
<1>12. CASE TaskStart(h)
  <2>1. PICK x \in NodeState : /\ cp' = [cp EXCEPT ![h] = x]
                               /\ x.marker => x.member = "none"
                               /\ x.store = "none" => s.store = "none"
    BY <1>12, BootedState DEF TaskStart, s
  <2>2. PICK t \in {Promoted, Done} : pc' = [pc EXCEPT ![h] = t]
    BY <1>12, Zenon DEF TaskStart
  <2>3. active' \in SUBSET active /\ UNCHANGED <<seen, budget, play, formed>>
    BY <1>12 DEF TaskStart
  <2> Moves(h, t, x)
    BY <2>1, <2>2, <2>3 DEF s
  <2> QED
    BY OneTask
<1>13. CASE TaskPromoted(h)
  <2> Moves(h, Done, s)
    BY <1>13, <1>c DEF TaskPromoted
  <2> QED
    BY OneTask
<1>14. CASE BudgetSpent(h)
  <2>1. budget' \in [Kinds -> Nat] /\ budget'["reboot"] <= Limit["reboot"]
    BY <1>14, SpendKeeps DEF BudgetSpent, Kinds
  <2> Moves(h, Done, s)
    BY <1>14, <2>1, <1>c DEF BudgetSpent
  <2> QED
    BY OneTask
<1> QED
  BY <1>1, <1>2, <1>3, <1>4, <1>5, <1>6, <1>7, <1>8, <1>9, <1>10, <1>11, <1>12,
     <1>13, <1>14 DEF Role

\* The invariant holds initially and every step keeps it.
LEMMA WipeInvStep ==
    WipeInv /\ [Next]_vars => WipeInv' /\ (Orderly => WipeStep \/ UNCHANGED vars)
<1> SUFFICES ASSUME WipeInv, [Next]_vars
             PROVE  WipeInv' /\ (Orderly => WipeStep \/ UNCHANGED vars)
  OBVIOUS
<1>1. CASE UNCHANGED vars
  BY <1>1 DEF vars, WipeInv, TypeOK, MarkedIsOut, HealedNodesDown, Healing
<1>2. CASE Rke2
  BY <1>2, Rke2Step
<1>3. CASE \E h \in CPs : Role(h) \/ BudgetSpent(h)
  BY <1>3, TaskStep
<1>4. CASE \/ StartKubecp \/ StartSettle \/ StartRejoin \/ RoleEnds
           \/ CensusPasses \/ CensusFails \/ RunEnds \/ \E n \in CPs : FormNode(n)
  BY <1>4, PlayStep, ConstantsAssumption
<1> QED
  BY <1>1, <1>2, <1>3, <1>4 DEF Next, Ansible

LEMMA WipeInit == Init => WipeInv
<1> SUFFICES ASSUME Init PROVE WipeInv
  OBVIOUS
<1>1. TypeOK /\ MarkedIsOut /\ HealedNodesDown
  BY ConstantsAssumption
     DEF Init, TypeOK, NodeState, MarkedIsOut, HealedNodesDown, Healing, Scan, Done
<1>2. budget["reboot"] <= Limit["reboot"]
  BY ConstantsAssumption DEF Init, Kinds
<1> QED
  BY <1>1, <1>2 DEF WipeInv

\* The control plane and the plays on it keep their types: TypeOK of EtcdRejoin,
\* for every node count, limit and set of playbooks.
THEOREM TypeCorrect == Spec => []TypeOK
<1>1. WipeInv /\ [Next]_vars => WipeInv'
  BY WipeInvStep
<1>2. WipeInv => TypeOK
  BY DEF WipeInv
<1> QED
  BY <1>1, <1>2, WipeInit, PTL DEF Spec

\* As long as no node reboots by itself, and whatever else goes wrong, the role
\* wipes a store only once the surviving cluster has dropped its member.
THEOREM WipeIsSafe ==
    ASSUME Limit["reboot"] = 0
    PROVE  Spec => WipeOnlyAfterRemoved
<1>1. WipeInv /\ [Next]_vars => WipeInv' /\ [WipeStep]_vars
  BY WipeInvStep DEF Orderly
<1>2. [][WipeStep]_vars => WipeOnlyAfterRemoved
  BY PTL DEF WipeOnlyAfterRemoved, WipeStep
<1> QED
  BY <1>1, <1>2, WipeInit, PTL DEF Spec

-----------------------------------------------------------------------------
(* No second cluster: what is known of the bootstrap host, the one node that *)
(* can found a cluster.                                                      *)

\* The first build is complete.
AllFormed == \A m \in CPs : ~Unformed(m)

\* Only wedged nodes log the signature, or no read of the voter condition fails.
TrueSigs == Limit["hiccup"] = 0
TrueReads == Limit["misread"] = 0

\* A node state that only a strike, and the healing after it, leads to when it is
\* the bootstrap host's.
Trouble(s) == \/ s.ann \/ s.marker \/ s.srv \/ s.pin
              \/ s.store = "wedged"
              \/ s.store = "good" /\ s.member # "voter"
              \/ s.sig /\ (TrueSigs \/ s.store = "none")
              \/ TrueReads /\ s.svc # "running" /\ s.store # "none"

\* An empty store is no member's, and one that starts by itself joins.
JoinersJoin == \A n \in CPs : cp[n].store = "none" =>
                 cp[n].member = "none" /\ (cp[n].svc # "stopped" => cp[n].srv)

\* The bootstrap host joins only with a pin, is in trouble only after the first
\* build, and the cluster exists only once it founded it.
Boot ==
    LET s == cp[BootHost] IN
    /\ s.srv => s.pin
    /\ Trouble(s) => AllFormed
    /\ "sig" \in seen[BootHost] => AllFormed \/ (~TrueSigs /\ s.store # "none")
    /\ s.store = "none" /\ ~s.marker => ~ClusterExists
    /\ play = "form" => ~s.ann /\ ~s.marker

\* Before the first build is complete the role gets on the bootstrap host at most to
\* the task that annotates it, and not beyond the voter read when signatures or reads
\* are true.
Suspected(t, k) ==
    \/ AllFormed
    \/ /\ t \notin Removed .. Promoted
       /\ TrueSigs \/ TrueReads => t \notin Stop .. Promoted
       /\ TrueReads /\ t = Voter /\ "sig" \in k => "running" \in k

\* What the tasks before have done.
TaskOrder ==
    Healing => \A h \in active :
                 /\ pc[h] \in {Reboot, Start} => cp[h].srv
                 /\ h = BootHost /\ pc[h] = Config => cp[h].pin
                 /\ h = BootHost => Suspected(pc[h], seen[h])

\* Disturbances that are not there are not spent.
Within == \A k \in {"hiccup", "misread"} : budget[k] <= Limit[k]

\* What keeps the role from removing the bootstrap host before every node joined.
BootIsSafe == TrueSigs \/ TrueReads \/ Cardinality(CPs) <= 3

SecondInv == /\ WipeInv /\ Within
             /\ NoSecondCluster /\ JoinersJoin /\ Boot /\ TaskOrder

\* A quorum is a quorum of something.
LEMMA QuorumHasMembers == HasQuorum => ClusterExists
<1> SUFFICES ASSUME HasQuorum, ~ClusterExists PROVE FALSE
  OBVIOUS
<1>1. Voters = {} /\ LiveVoters = {}
  BY DEF ClusterExists, Voters, LiveVoters
<1>2. Cardinality(Voters) = 0 /\ Cardinality(LiveVoters) = 0
  BY <1>1, FS_EmptySet
<1> QED
  BY <1>2 DEF HasQuorum

\* A server that starts founds a cluster only from an empty store with no server
\* line, and is in trouble only when it was.
LEMMA BootedNode ==
    ASSUME NEW s \in NodeState, s.store # "alone",
           s.store = "none" /\ ~s.srv => ~ClusterExists
    PROVE  LET x == Booted(s) IN
           /\ x.store # "alone" /\ x.svc # "stopped"
           /\ x.store = "none" => /\ s.store = "none" /\ s.srv
                                 /\ x.marker = s.marker /\ x.member = s.member
           /\ x.srv = s.srv /\ x.pin = s.pin
           /\ x.ann => s.ann
           /\ x.marker => s.marker
           /\ Trouble(x) => Trouble(s)
           /\ x.member # "none" => \/ s.member # "none" \/ ClusterExists
                                   \/ s.store = "none" /\ ~s.srv /\ x.store = "good"
<1>1. CASE s.store = "wedged"
  BY <1>1 DEF Booted, Failed, NodeState, Trouble
<1>2. CASE s.store = "good" /\ s.member = "none"
  BY <1>2 DEF Booted, Failed, NodeState, Trouble
<1>3. CASE s.store = "good" /\ s.member # "none"
  BY <1>3 DEF Booted, Failed, NodeState, Trouble
<1>4. CASE s.store = "none" /\ ~s.srv
  BY <1>4 DEF Booted, Failed, NodeState, Trouble
<1>5. CASE s.store = "none" /\ s.srv
  BY <1>5, QuorumHasMembers DEF Booted, Failed, NodeState, Trouble
<1> QED
  BY <1>1, <1>2, <1>3, <1>4, <1>5 DEF NodeState

\* What a step may make of node n.
NodeOK(n, x) ==
    /\ x \in NodeState /\ x.store # "alone"
    /\ x.store = "none" /\ ~x.marker => Unformed(n)
    /\ x.store = "none" => x.member = "none" /\ (x.svc # "stopped" => x.srv)
    /\ n = BootHost => (x.srv => x.pin) /\ (Trouble(x) => AllFormed)
    /\ x.member # "none" => ClusterExists \/ (n = BootHost /\ x.store # "none")

\* A node stays as it was.
LEMMA SameNode == ASSUME SecondInv, NEW n \in CPs PROVE NodeOK(n, cp[n])
  BY DEF SecondInv, WipeInv, TypeOK, NodeOK, NoSecondCluster, Unformed, JoinersJoin, Boot,
         ClusterExists

\* A node starts.
LEMMA BootedOK ==
    ASSUME SecondInv, NEW n \in CPs, NEW s \in NodeState, s.marker => s.member = "none",
           s.store = cp[n].store, s.member = cp[n].member, s.marker = cp[n].marker,
           s.store = "none" /\ ~s.srv => ~ClusterExists /\ n = BootHost,
           n = BootHost => (s.srv => s.pin) /\ (Trouble(s) => AllFormed)
    PROVE  NodeOK(n, Booted(s))
<1> DEFINE x == Booted(s)
<1>1. x \in NodeState
  BY BootedState
<1>2. s.store # "alone"
  BY DEF SecondInv, NoSecondCluster
<1>3. /\ x.store # "alone" /\ x.svc # "stopped"
      /\ x.store = "none" => /\ s.store = "none" /\ s.srv
                            /\ x.marker = s.marker /\ x.member = s.member
      /\ x.srv = s.srv /\ x.pin = s.pin
      /\ Trouble(x) => Trouble(s)
      /\ x.member # "none" => \/ s.member # "none" \/ ClusterExists
                              \/ s.store = "none" /\ ~s.srv /\ x.store = "good"
  BY <1>2, BootedNode
<1>4. (s.member # "none" => ClusterExists) /\ (s.store = "none" => s.member = "none")
  BY DEF ClusterExists, SecondInv, JoinersJoin
<1> HIDE DEF x
<1>5. NodeOK(n, x)
  BY <1>1, <1>3, <1>4 DEF NodeOK, Unformed
<1> QED
  BY <1>5 DEF x

\* One node changes that way, and what is left to show is about the plays.
LEMMA OneNodeOK ==
    ASSUME SecondInv, NEW n \in CPs, NEW x, NodeOK(n, x), cp' = [cp EXCEPT ![n] = x]
    PROVE  /\ cp'[n] = x /\ \A m \in CPs : m # n => cp'[m] = cp[m]
           /\ NoSecondCluster' /\ JoinersJoin'
           /\ AllFormed => AllFormed'
           /\ LET s == cp'[BootHost] IN
              /\ s.srv => s.pin
              /\ Trouble(s) => AllFormed'
              /\ s.store = "none" /\ ~s.marker => ~ClusterExists'
<1>1. cp'[n] = x /\ \A m \in CPs : m # n => cp'[m] = cp[m]
  BY DEF SecondInv, WipeInv, TypeOK
<1>2. NoSecondCluster' /\ JoinersJoin'
  BY <1>1 DEF NodeOK, SecondInv, NoSecondCluster, JoinersJoin
<1>3. AllFormed => AllFormed'
  BY <1>1 DEF NodeOK, AllFormed, Unformed
<1>4. BootHost \in CPs
  BY ConstantsAssumption
<1>5. (cp'[BootHost].srv => cp'[BootHost].pin) /\ (Trouble(cp'[BootHost]) => AllFormed)
  BY <1>1, <1>4, Zenon DEF NodeOK, SecondInv, Boot
<1>6. cp'[BootHost].store = "none" /\ ~cp'[BootHost].marker => ~ClusterExists'
  <2> SUFFICES ASSUME cp'[BootHost].store = "none", ~cp'[BootHost].marker, ClusterExists'
               PROVE  FALSE
    OBVIOUS
  <2>1. Unformed(BootHost)
    BY <1>1, <1>4 DEF NodeOK, Unformed
  <2>2. ~ClusterExists
    BY <2>1 DEF SecondInv, Boot, Unformed
  <2>3. PICK m \in CPs : cp'[m].member # "none"
    BY DEF ClusterExists
  <2>4. CASE m = n
    BY <1>1, <2>2, <2>3, <2>4 DEF NodeOK
  <2>5. CASE m # n
    BY <1>1, <2>2, <2>3, <2>5 DEF ClusterExists
  <2> QED
    BY <2>4, <2>5
<1> QED
  BY <1>1, <1>2, <1>3, <1>5, <1>6

LEMMA SpendWithin ==
    ASSUME SecondInv, NEW k \in Kinds, Spend(k)
    PROVE  Within' /\ (k = "hiccup" => ~TrueSigs) /\ (k = "misread" => ~TrueReads)
<1>1. /\ budget \in [Kinds -> Nat] /\ Limit \in [Kinds -> Nat] /\ Within
      /\ {"hiccup", "misread"} \subseteq Kinds
  BY ConstantsAssumption DEF SecondInv, WipeInv, TypeOK, Kinds
<1>2. budget[k] > 0 /\ budget' = [budget EXCEPT ![k] = @ - 1]
  BY DEF Spend
<1> QED
  BY <1>1, <1>2 DEF Within, TrueSigs, TrueReads

\* On at most three nodes there is no quorum without the bootstrap host before the
\* third node is formed.
LEMMA BootNeeded ==
    ASSUME SecondInv, HasQuorum, cp[BootHost].svc # "running", Cardinality(CPs) <= 3
    PROVE  AllFormed
<1> SUFFICES ASSUME ~AllFormed PROVE FALSE
  OBVIOUS
<1>1. PICK m \in CPs : Unformed(m)
  BY DEF AllFormed
<1>2. BootHost \in CPs /\ IsFiniteSet(CPs)
  BY ConstantsAssumption
<1>3. cp[BootHost].store # "none"
  BY QuorumHasMembers DEF SecondInv, Boot, Trouble
<1>4. cp[BootHost].member = "voter"
  BY <1>2, <1>3 DEF SecondInv, Boot, Trouble, NoSecondCluster, WipeInv, TypeOK, NodeState
<1>5. m # BootHost /\ cp[m].member = "none"
  BY <1>1, <1>3 DEF Unformed, SecondInv, JoinersJoin
<1>6. /\ LiveVoters \subseteq (CPs \ {m}) \ {BootHost}
      /\ LiveVoters \subseteq Voters \ {BootHost}
      /\ Voters \subseteq CPs /\ BootHost \in Voters
  BY <1>2, <1>4, <1>5 DEF LiveVoters, Voters
<1>7. /\ IsFiniteSet(CPs \ {m}) /\ Cardinality(CPs \ {m}) = Cardinality(CPs) - 1
      /\ IsFiniteSet(Voters)
  BY <1>1, <1>2, <1>6, FS_RemoveElement, FS_Subset
<1>8. /\ IsFiniteSet((CPs \ {m}) \ {BootHost})
      /\ Cardinality((CPs \ {m}) \ {BootHost}) = Cardinality(CPs \ {m}) - 1
      /\ IsFiniteSet(Voters \ {BootHost})
      /\ Cardinality(Voters \ {BootHost}) = Cardinality(Voters) - 1
  BY <1>2, <1>5, <1>6, <1>7, FS_RemoveElement
<1>9. /\ Cardinality(LiveVoters) <= Cardinality((CPs \ {m}) \ {BootHost})
      /\ Cardinality(LiveVoters) <= Cardinality(Voters \ {BootHost})
      /\ IsFiniteSet(LiveVoters)
  BY <1>6, <1>8, FS_Subset
<1>10. /\ Cardinality(LiveVoters) \in Nat /\ Cardinality(Voters) \in Nat
       /\ Cardinality(CPs) \in Nat
  BY <1>2, <1>7, <1>9, FS_CardinalityType
<1>11. \A live, voters, all \in Nat :
         ~(/\ all <= 3 /\ live <= (all - 1) - 1 /\ live <= voters - 1
           /\ 2 * live > voters)
  OBVIOUS
<1> QED
  BY <1>7, <1>8, <1>9, <1>10, <1>11, Zenon DEF HasQuorum

\* RKE2 by itself.
LEMMA Rke2Second ==
    ASSUME SecondInv, Orderly, Rke2
    PROVE  SecondInv'
<1>0. PICK n \in CPs : \/ Retry(n) \/ PromoteLearner(n) \/ RemoveMember(n)
                       \/ Strike(n) \/ Hiccup(n) \/ NodeReboots(n)
  BY DEF Rke2
<1> DEFINE s == cp[n]
<1>a. /\ s \in NodeState /\ (s.marker => s.member = "none") /\ NodeOK(n, s)
      /\ budget \in [Kinds -> Nat] /\ budget["reboot"] <= Limit["reboot"]
      /\ cp \in [CPs -> NodeState]
  BY SameNode DEF SecondInv, WipeInv, TypeOK, MarkedIsOut
<1>k. Kinds = {"strike", "hiccup", "misread", "fault", "reboot"}
  BY DEF Kinds
<1>w. WipeInv'
  BY Rke2Step DEF SecondInv
<1>s. s.member # "none" => ClusterExists
  BY DEF ClusterExists
<1>1. PICK x : /\ NodeOK(n, x) /\ cp' = [cp EXCEPT ![n] = x]
               /\ x.srv = s.srv /\ x.pin = s.pin /\ (x.ann => s.ann)
               /\ x.marker => s.marker \/ s.ann
               /\ x.store = "none" => s.store = "none"
               /\ Within'
  <2> HIDE DEF s
  <2>1. CASE Retry(n)
    <3>1. s.svc = "failed" /\ cp' = [cp EXCEPT ![n] = Booted(s)] /\ UNCHANGED budget
      BY <2>1 DEF Retry, s
    <3>2. s.store = "none" => s.srv
      BY <3>1 DEF SecondInv, JoinersJoin, s
    <3>3. n = BootHost => (s.srv => s.pin) /\ (Trouble(s) => AllFormed)
      BY <1>a DEF NodeOK
    <3>4. NodeOK(n, Booted(s))
      BY <1>a, <3>2, <3>3, BootedOK DEF s
    <3>5. /\ Booted(s).srv = s.srv /\ Booted(s).pin = s.pin /\ (Booted(s).ann => s.ann)
          /\ Booted(s).marker => s.marker
          /\ Booted(s).store = "none" => s.store = "none"
      BY <1>a, <3>2, BootedNode DEF NodeOK
    <3> QED
      BY <3>1, <3>4, <3>5 DEF SecondInv, Within
  <2>2. CASE PromoteLearner(n)
    <3> DEFINE x == [s EXCEPT !.member = "voter"]
    <3>1. cp' = [cp EXCEPT ![n] = x] /\ s.member = "learner" /\ UNCHANGED budget
      BY <2>2 DEF PromoteLearner, s
    <3>2. /\ x.svc = s.svc /\ x.store = s.store /\ x.sig = s.sig /\ x.srv = s.srv
          /\ x.pin = s.pin /\ x.ann = s.ann /\ x.marker = s.marker
          /\ x.member = "voter" /\ x \in NodeState
      BY <1>a DEF NodeState
    <3> HIDE DEF x
    <3>3. NodeOK(n, x)
      BY <1>a, <1>s, <3>1, <3>2 DEF NodeOK, Trouble, s
    <3> QED
      BY <3>1, <3>2, <3>3 DEF SecondInv, Within
  <2>3. CASE RemoveMember(n)
    <3> DEFINE x == [s EXCEPT !.member = "none", !.marker = TRUE]
    <3>1. cp' = [cp EXCEPT ![n] = x] /\ s.ann /\ UNCHANGED budget
      BY <1>a, <2>3 DEF RemoveMember, s
    <3>2. /\ x.svc = s.svc /\ x.store = s.store /\ x.sig = s.sig /\ x.srv = s.srv
          /\ x.pin = s.pin /\ x.ann = s.ann /\ x.marker
          /\ x.member = "none" /\ x \in NodeState
      BY <1>a DEF NodeState
    <3> HIDE DEF x
    <3>3. NodeOK(n, x)
      BY <1>a, <3>1, <3>2 DEF NodeOK, Trouble
    <3> QED
      BY <3>1, <3>2, <3>3 DEF SecondInv, Within
  <2>4. CASE Strike(n)
    <3> DEFINE x == [s EXCEPT !.svc = "failed", !.sig = TRUE, !.store = "wedged"]
    <3>1. cp' = [cp EXCEPT ![n] = x] /\ AllFormed /\ Spend("strike")
      BY <1>a, <2>4 DEF Strike, Failed, AllFormed, s
    <3>2. /\ x.store = "wedged" /\ x.srv = s.srv
          /\ x.pin = s.pin /\ x.ann = s.ann /\ x.marker = s.marker
          /\ x.member = s.member /\ x \in NodeState
      BY <1>a DEF NodeState
    <3> HIDE DEF x
    <3>3. NodeOK(n, x)
      BY <1>a, <1>s, <3>1, <3>2 DEF NodeOK
    <3> QED
      BY <1>k, <3>1, <3>2, <3>3, SpendWithin
  <2>5. CASE Hiccup(n)
    <3> DEFINE x == [s EXCEPT !.sig = TRUE]
    <3>1. cp' = [cp EXCEPT ![n] = x] /\ s.svc = "running" /\ Spend("hiccup")
      BY <2>5 DEF Hiccup, s
    <3>2. /\ x.svc = s.svc /\ x.store = s.store /\ x.srv = s.srv
          /\ x.pin = s.pin /\ x.ann = s.ann /\ x.marker = s.marker
          /\ x.member = s.member /\ x \in NodeState
      BY <1>a DEF NodeState
    <3> HIDE DEF x
    <3>3. ~TrueSigs /\ Within'
      BY <1>k, <3>1, SpendWithin
    <3>4. NodeOK(n, x)
      BY <1>a, <1>s, <3>1, <3>2, <3>3 DEF NodeOK, Trouble
    <3> QED
      BY <3>1, <3>2, <3>3, <3>4
  <2>6. CASE NodeReboots(n)
    BY <1>a, <1>k, <2>6, SpendKeeps DEF NodeReboots
  <2> QED
    BY <1>0, <2>1, <2>2, <2>3, <2>4, <2>5, <2>6
<1>2. /\ cp'[n] = x /\ \A m \in CPs : m # n => cp'[m] = cp[m]
      /\ NoSecondCluster' /\ JoinersJoin'
      /\ AllFormed => AllFormed'
      /\ cp'[BootHost].srv => cp'[BootHost].pin
      /\ Trouble(cp'[BootHost]) => AllFormed'
      /\ cp'[BootHost].store = "none" /\ ~cp'[BootHost].marker => ~ClusterExists'
  BY <1>1, OneNodeOK
<1>3. UNCHANGED <<play, active, formed, pc, seen>>
  BY <1>0 DEF Retry, PromoteLearner, RemoveMember, Strike, Hiccup, NodeReboots
<1>4. BootHost \in CPs
  BY ConstantsAssumption
<1> HIDE DEF s
<1>5. play = "form" => ~cp'[BootHost].ann /\ ~cp'[BootHost].marker
  BY <1>1, <1>2, <1>4, Zenon DEF SecondInv, Boot, s
<1>6. Boot'
  <2>1. cp'[BootHost].store = "none" => cp[BootHost].store = "none"
    BY <1>1, <1>2, <1>4 DEF s
  <2> QED
    BY <1>2, <1>3, <1>5, <2>1 DEF SecondInv, Boot
<1>7. ASSUME NEW h \in CPs PROVE cp'[h].srv = cp[h].srv /\ cp'[h].pin = cp[h].pin
  BY <1>1, <1>2 DEF s
<1>8. active \subseteq CPs
  BY DEF SecondInv, WipeInv, TypeOK
<1>9. TaskOrder'
  BY <1>2, <1>3, <1>7, <1>8 DEF SecondInv, TaskOrder, Suspected, Healing
<1> QED
  BY <1>1, <1>2, <1>6, <1>9, <1>w DEF SecondInv

\* The form play starts a node: the bootstrap host finds its store, or no cluster.
LEMMA FormSecond ==
    ASSUME SecondInv, Orderly, NEW n \in CPs, FormNode(n)
    PROVE  SecondInv'
<1>w. WipeInv'
  BY PlayStep DEF SecondInv
<1>a. /\ cp[n] \in NodeState /\ (cp[n].marker => cp[n].member = "none") /\ NodeOK(n, cp[n])
      /\ play = "form" /\ BootHost \in CPs
  BY SameNode, ConstantsAssumption DEF SecondInv, WipeInv, TypeOK, MarkedIsOut, FormNode
<1>b. PICK b \in BOOLEAN : b = ((n # BootHost) \/ cp[n].pin)
  BY Zenon
<1> DEFINE r == [cp[n] EXCEPT !.srv = b]
<1>1. r = Rendered(n)
  BY <1>b DEF Rendered
<1>2. /\ r \in NodeState /\ r.svc = cp[n].svc /\ r.store = cp[n].store
      /\ r.member = cp[n].member /\ r.sig = cp[n].sig /\ r.srv = b /\ r.pin = cp[n].pin
      /\ r.ann = cp[n].ann /\ r.marker = cp[n].marker
  BY <1>a DEF NodeState
<1> HIDE DEF r
<1>3. /\ n # BootHost => r.srv
      /\ n = BootHost => /\ r.srv = cp[n].pin
                         /\ cp[n].srv => r.srv
                         /\ Trouble(r) => AllFormed
  BY <1>a, <1>b, <1>2 DEF NodeOK, Trouble, NodeState
<1>4. r.store = "none" /\ ~r.srv => ~ClusterExists /\ n = BootHost
  BY <1>a, <1>2, <1>3 DEF SecondInv, Boot
<1>5. NodeOK(n, r)
  BY <1>a, <1>2, <1>3 DEF NodeOK, Unformed
<1>6. NodeOK(n, Booted(r))
  <2>1. r.marker => r.member = "none"
    BY <1>a, <1>2
  <2>2. n = BootHost => (r.srv => r.pin) /\ (Trouble(r) => AllFormed)
    BY <1>2, <1>3
  <2> QED
    BY <1>2, <1>4, <2>1, <2>2, BootedOK
<1>7. /\ (Booted(r).ann => r.ann) /\ (Booted(r).marker => r.marker)
      /\ Booted(r).store = "none" => r.store = "none"
  BY <1>2, <1>4, <1>5, BootedNode DEF NodeOK
<1>8. PICK x : /\ NodeOK(n, x) /\ cp' = [cp EXCEPT ![n] = x]
               /\ (x.ann => cp[n].ann) /\ (x.marker => cp[n].marker)
               /\ x.store = "none" => cp[n].store = "none"
  <2>1. cp' = [cp EXCEPT ![n] = r] \/ cp' = [cp EXCEPT ![n] = Booted(r)]
    BY <1>1 DEF FormNode
  <2> QED
    BY <1>2, <1>5, <1>6, <1>7, <2>1
<1>9. /\ cp'[n] = x /\ \A m \in CPs : m # n => cp'[m] = cp[m]
      /\ NoSecondCluster' /\ JoinersJoin'
      /\ AllFormed => AllFormed'
      /\ cp'[BootHost].srv => cp'[BootHost].pin
      /\ Trouble(cp'[BootHost]) => AllFormed'
      /\ cp'[BootHost].store = "none" /\ ~cp'[BootHost].marker => ~ClusterExists'
  BY <1>8, OneNodeOK
<1>10. play' \in {"form", "none"} /\ UNCHANGED <<active, pc, seen, budget>>
  BY DEF FormNode
<1>11. ~cp'[BootHost].ann /\ ~cp'[BootHost].marker
  BY <1>a, <1>8, <1>9, Zenon DEF SecondInv, Boot
<1>12. cp'[BootHost].store = "none" => cp[BootHost].store = "none"
  BY <1>a, <1>8, <1>9
<1>13. Boot' /\ TaskOrder'
  BY <1>9, <1>10, <1>11, <1>12 DEF SecondInv, Boot, TaskOrder, Healing
<1> QED
  BY <1>9, <1>10, <1>13, <1>w DEF SecondInv, Within

\* Host h goes on to task t with node state x.
Goes(h, t, x) ==
    /\ NodeOK(h, x) /\ t \in Scan .. Done
    /\ cp' = [cp EXCEPT ![h] = x] /\ pc' = [pc EXCEPT ![h] = t]
    /\ t \in {Reboot, Start} => x.srv
    /\ h = BootHost => /\ t = Config => x.pin
                       /\ Suspected(t, seen'[h])
                       /\ "sig" \in seen'[h] =>
                            AllFormed \/ (~TrueSigs /\ x.store # "none")
    /\ h # BootHost => seen'[BootHost] = seen[BootHost]
    /\ Within'
    /\ active' \in SUBSET active

LEMMA OneTaskSecond ==
    ASSUME SecondInv, WipeInv', NEW h \in CPs, NEW t, NEW x, Goes(h, t, x),
           UNCHANGED play, Healing
    PROVE  SecondInv'
<1>1. /\ cp'[h] = x /\ \A m \in CPs : m # h => cp'[m] = cp[m]
      /\ NoSecondCluster' /\ JoinersJoin'
      /\ AllFormed => AllFormed'
      /\ cp'[BootHost].srv => cp'[BootHost].pin
      /\ Trouble(cp'[BootHost]) => AllFormed'
      /\ cp'[BootHost].store = "none" /\ ~cp'[BootHost].marker => ~ClusterExists'
  BY OneNodeOK DEF Goes
<1>2. pc'[h] = t /\ \A m \in CPs : m # h => pc'[m] = pc[m]
  BY DEF Goes, SecondInv, WipeInv, TypeOK
<1>3. "sig" \in seen'[BootHost] =>
        AllFormed \/ (~TrueSigs /\ cp'[BootHost].store # "none")
  BY <1>1, ConstantsAssumption DEF Goes, SecondInv, Boot
<1>4. Boot'
  BY <1>1, <1>3 DEF Boot, Healing
<1>5. TaskOrder'
  <2> SUFFICES ASSUME NEW g \in active'
               PROVE  /\ pc'[g] \in {Reboot, Start} => cp'[g].srv
                      /\ g = BootHost /\ pc'[g] = Config => cp'[g].pin
                      /\ g = BootHost => AllFormed \/ Suspected(pc'[g], seen'[g])
    BY <1>1 DEF TaskOrder, Suspected, Healing
  <2>1. g \in active /\ g \in CPs
    BY DEF Goes, SecondInv, WipeInv, TypeOK
  <2>2. CASE g = h
    BY <1>1, <1>2, <2>2, Zenon DEF Goes
  <2>3. CASE g # h
    <3>1. pc'[g] = pc[g] /\ cp'[g] = cp[g]
      BY <1>1, <1>2, <2>1, <2>3
    <3>2. /\ pc[g] \in {Reboot, Start} => cp[g].srv
          /\ g = BootHost /\ pc[g] = Config => cp[g].pin
          /\ g = BootHost => Suspected(pc[g], seen[g])
      BY <2>1, Zenon DEF SecondInv, TaskOrder
    <3>3. g = BootHost => seen'[g] = seen[g]
      BY <2>3 DEF Goes
    <3> QED
      BY <3>1, <3>2, <3>3, Zenon
  <2> QED
    BY <2>2, <2>3
<1> QED
  BY <1>1, <1>4, <1>5 DEF SecondInv, Goes

\* The tasks of the role.
LEMMA TaskSecond ==
    ASSUME SecondInv, Orderly, BootIsSafe, NEW h \in CPs, Role(h) \/ BudgetSpent(h)
    PROVE  SecondInv'
<1> DEFINE s == cp[h]
<1>w. WipeInv'
  BY TaskStep DEF SecondInv
<1>a. /\ s \in NodeState /\ (s.marker => s.member = "none") /\ NodeOK(h, s)
      /\ cp \in [CPs -> NodeState] /\ pc \in [CPs -> Scan .. Done]
      /\ seen \in [CPs -> SUBSET {"sig", "running"}]
      /\ budget \in [Kinds -> Nat] /\ Within /\ s.store # "alone"
      /\ s.store = "none" => s.member = "none"
      /\ active \in SUBSET CPs /\ h \in active /\ Healing /\ UNCHANGED play
  <2>1. h \in active /\ Healing /\ UNCHANGED play
    BY DEF Role, BudgetSpent, TaskScan, TaskFacts, TaskVoter, TaskStop, TaskProbe,
           TaskAnnotate, TaskRemoved, TaskWipe, TaskPin, TaskConfig, TaskReboot,
           TaskStart, TaskPromoted, At, Healing, Advance
  <2> QED
    BY <2>1, SameNode DEF SecondInv, WipeInv, TypeOK, MarkedIsOut, NoSecondCluster,
                          JoinersJoin
<1>b. /\ At(h, Wipe) => s.svc = "stopped" /\ s.marker
      /\ At(h, Reboot) \/ At(h, Start) => s.srv
      /\ h = BootHost /\ At(h, Config) => s.pin
      /\ \A t \in Removed .. Promoted : h = BootHost /\ At(h, t) => AllFormed
      /\ TrueSigs \/ TrueReads =>
            \A t \in Stop .. Promoted : h = BootHost /\ At(h, t) => AllFormed
      /\ TrueReads /\ h = BootHost /\ At(h, Voter) /\ "sig" \in seen[h] =>
            AllFormed \/ "running" \in seen[h]
  <2>1. At(h, Wipe) => s.svc = "stopped" /\ s.marker
    BY <1>a DEF SecondInv, WipeInv, HealedNodesDown, At, Wipe, Probe, Reboot
  <2> QED
    BY <1>a, <2>1 DEF SecondInv, TaskOrder, Suspected, At
<1>c. UNCHANGED cp => cp' = [cp EXCEPT ![h] = s]
  BY <1>a
<1>d. h = BootHost /\ "sig" \in seen[h] =>
        AllFormed \/ (~TrueSigs /\ s.store # "none")
  BY DEF SecondInv, Boot
<1>e. UNCHANGED seen => /\ h = BootHost /\ "sig" \in seen'[h] =>
                             AllFormed \/ (~TrueSigs /\ s.store # "none")
                        /\ seen'[BootHost] = seen[BootHost]
  BY <1>d
<1>i. UNCHANGED budget => Within'
  BY <1>a DEF Within
<1>f. s.member # "none" => ClusterExists
  BY DEF ClusterExists
<1>g. h = BootHost => (s.srv => s.pin) /\ (Trouble(s) => AllFormed)
  BY <1>a DEF NodeOK
<1>q. SUFFICES \E t, x : Goes(h, t, x)
  BY <1>a, <1>w, OneTaskSecond
<1> HIDE DEF s
<1> USE DEF Scan, Facts, Voter, Stop, Probe, Annotate, Removed, Wipe, Pin, Config, Reboot,
            Start, Promoted, Done
<1>j. ASSUME NEW t, t \notin Voter .. Promoted PROVE Suspected(t, seen'[h])
  BY <1>j DEF Suspected
<1>l. AllFormed => \A t : Suspected(t, seen'[h])
  BY DEF Suspected
<1>1. CASE TaskScan(h)
  <2>1. /\ seen' = [seen EXCEPT ![h] = IF s.sig THEN {"sig"} ELSE {}]
        /\ pc' = [pc EXCEPT ![h] = Facts] /\ UNCHANGED <<cp, active, budget>>
    BY <1>1 DEF TaskScan, Advance, s
  <2>2. h # BootHost => seen'[BootHost] = seen[BootHost]
    BY <1>a, <2>1, ConstantsAssumption
  <2>3. "sig" \in seen'[h] => s.sig
    BY <1>a, <2>1
  <2>4. h = BootHost /\ "sig" \in seen'[h] =>
          AllFormed \/ (~TrueSigs /\ s.store # "none")
    BY <1>g, <2>3 DEF Trouble
  <2>5. Goes(h, Facts, s)
    BY <1>a, <1>c, <1>i, <1>j, <2>1, <2>2, <2>4 DEF Goes
  <2> QED
    BY <2>5
<1>2. CASE TaskFacts(h)
  <2>1. /\ seen' = [seen EXCEPT ![h] = IF s.svc = "running" THEN @ \cup {"running"} ELSE @]
        /\ pc' = [pc EXCEPT ![h] = Voter] /\ UNCHANGED <<cp, active, budget>>
    BY <1>2 DEF TaskFacts, Advance, s
  <2>2. h # BootHost => seen'[BootHost] = seen[BootHost]
    BY <1>a, <2>1, ConstantsAssumption
  <2>3. "sig" \in seen'[h] => "sig" \in seen[h]
    BY <1>a, <2>1
  <2>4. h = BootHost => Suspected(Voter, seen'[h])
    <3> SUFFICES ASSUME h = BootHost, ~AllFormed, TrueReads, "sig" \in seen'[h]
                 PROVE  "running" \in seen'[h]
      BY DEF Suspected
    <3>1. s.svc = "running"
      BY <1>d, <1>g, <2>3 DEF Trouble
    <3> QED
      BY <1>a, <2>1, <3>1
  <2>5. Goes(h, Voter, s)
    BY <1>a, <1>c, <1>d, <1>i, <2>1, <2>2, <2>3, <2>4 DEF Goes
  <2> QED
    BY <2>5
<1>3. CASE TaskVoter(h)
  <2>1. PICK t \in {Stop, Done} : /\ pc' = [pc EXCEPT ![h] = t]
                                  /\ t = Stop => "sig" \in seen[h]
    BY <1>3 DEF TaskVoter, Advance, Wedged
  <2>2. UNCHANGED <<cp, seen, active>> /\ (UNCHANGED budget \/ Spend("misread"))
    BY <1>3 DEF TaskVoter, Advance
  <2>3. Within'
    BY <1>i, <2>2, SpendWithin DEF Kinds
  <2>4. h = BootHost => Suspected(t, seen'[h])
    <3> SUFFICES ASSUME h = BootHost, ~AllFormed, TrueSigs \/ TrueReads, t = Stop
                 PROVE  FALSE
      BY <2>1 DEF Suspected
    <3>1. TrueReads /\ s.store # "none" /\ "sig" \in seen[h]
      BY <1>d, <2>1
    <3>2. s.svc = "running" /\ s.member = "voter" /\ "running" \in seen[h]
      BY <1>3, <1>a, <1>b, <1>g, <3>1 DEF Trouble, NodeState, TaskVoter
    <3>3. ~Spend("misread")
      BY <3>1, SpendWithin DEF Kinds
    <3>4. pc' = [pc EXCEPT ![h] = IF Wedged(h, TRUE) THEN Stop ELSE Done]
      BY <1>3, <3>2, <3>3 DEF TaskVoter, Advance, s
    <3>5. ~Wedged(h, TRUE)
      BY <3>2 DEF Wedged
    <3>6. pc'[h] = Done /\ pc'[h] = Stop
      BY <1>a, <2>1, <3>4, <3>5
    <3> QED
      BY <3>6
  <2>5. Goes(h, t, s)
    BY <1>a, <1>c, <1>e, <2>1, <2>2, <2>3, <2>4 DEF Goes
  <2> QED
    BY <2>5
<1>4. CASE TaskStop(h)
  <2> DEFINE x == [s EXCEPT !.svc = "stopped"]
  <2>1. /\ x \in NodeState /\ x.svc = "stopped" /\ x.store = s.store /\ x.sig = s.sig
        /\ x.srv = s.srv /\ x.pin = s.pin /\ x.ann = s.ann /\ x.marker = s.marker
        /\ x.member = s.member
    BY <1>a DEF NodeState
  <2>2. cp' = [cp EXCEPT ![h] = x] /\ pc' = [pc EXCEPT ![h] = Probe]
        /\ UNCHANGED <<seen, active, budget>> /\ At(h, Stop)
    BY <1>4 DEF TaskStop, Advance, s
  <2> HIDE DEF x
  <2>3. NodeOK(h, x)
    BY <1>a, <1>b, <2>1, <2>2 DEF NodeOK, Trouble
  <2>4. h = BootHost => Suspected(Probe, seen'[h])
    BY <1>b, <2>2 DEF Suspected
  <2>5. Goes(h, Probe, x)
    BY <1>a, <1>e, <1>i, <2>1, <2>2, <2>3, <2>4 DEF Goes
  <2> QED
    BY <2>5
<1>5. CASE TaskProbe(h) \/ TaskRemoved(h)
  <2>1. PICK t \in {Annotate, Wipe} :
           /\ pc' = [pc EXCEPT ![h] = t] /\ UNCHANGED <<cp, seen, active, budget>>
           /\ IF t = Annotate THEN At(h, Probe) ELSE At(h, Removed)
    BY <1>5 DEF TaskProbe, TaskRemoved, Advance
  <2>2. h = BootHost => Suspected(t, seen'[h])
    BY <1>b, <2>1 DEF Suspected
  <2>3. Goes(h, t, s)
    BY <1>a, <1>c, <1>e, <1>i, <2>1, <2>2 DEF Goes
  <2> QED
    BY <2>3
<1>6. CASE TaskAnnotate(h)
  <2> DEFINE x == [s EXCEPT !.ann = TRUE]
  <2>1. /\ x \in NodeState /\ x.svc = s.svc /\ x.store = s.store /\ x.sig = s.sig
        /\ x.srv = s.srv /\ x.pin = s.pin /\ x.marker = s.marker
        /\ x.member = s.member
    BY <1>a DEF NodeState
  <2>2. cp' = [cp EXCEPT ![h] = x] /\ pc' = [pc EXCEPT ![h] = Removed]
        /\ UNCHANGED <<seen, active, budget>> /\ At(h, Annotate) /\ HasQuorum
    BY <1>6 DEF TaskAnnotate, Advance, Met, s
  <2> HIDE DEF x
  <2>3. h = BootHost => AllFormed
    <3>1. CASE TrueSigs \/ TrueReads
      BY <1>b, <2>2, <3>1
    <3>2. CASE Cardinality(CPs) <= 3
      <4>1. s.svc = "stopped"
        BY <1>a, <2>2 DEF SecondInv, WipeInv, HealedNodesDown, At, s
      <4> QED
        BY <2>2, <3>2, <4>1, BootNeeded DEF s
    <3> QED
      BY <3>1, <3>2 DEF BootIsSafe
  <2>4. NodeOK(h, x)
    BY <1>a, <2>1, <2>3 DEF NodeOK
  <2>5. Goes(h, Removed, x)
    BY <1>a, <1>e, <1>i, <1>l, <2>1, <2>2, <2>3, <2>4 DEF Goes
  <2> QED
    BY <2>5
<1>7. CASE TaskWipe(h)
  <2> DEFINE x == [s EXCEPT !.store = "none"]
  <2>1. /\ x \in NodeState /\ x.svc = s.svc /\ x.store = "none"
        /\ x.srv = s.srv /\ x.pin = s.pin /\ x.marker = s.marker
        /\ x.member = s.member
    BY <1>a DEF NodeState
  <2>2. cp' = [cp EXCEPT ![h] = x] /\ pc' = [pc EXCEPT ![h] = Pin]
        /\ UNCHANGED <<seen, active, budget>> /\ At(h, Wipe)
    BY <1>7 DEF TaskWipe, Advance, s
  <2> HIDE DEF x
  <2>3. NodeOK(h, x)
    BY <1>a, <1>b, <2>1, <2>2 DEF NodeOK
  <2>4. Goes(h, Pin, x)
    BY <1>a, <1>b, <1>e, <1>i, <1>l, <2>2, <2>3 DEF Goes
  <2> QED
    BY <2>4
<1>8. CASE TaskPin(h)
  <2> DEFINE x == [s EXCEPT !.pin = TRUE]
  <2>1. /\ x \in NodeState /\ x.svc = s.svc /\ x.store = s.store
        /\ x.srv = s.srv /\ x.pin /\ x.marker = s.marker
        /\ x.member = s.member
    BY <1>a DEF NodeState
  <2>2. cp' = [cp EXCEPT ![h] = x] /\ pc' = [pc EXCEPT ![h] = Config]
        /\ UNCHANGED <<seen, active, budget>> /\ At(h, Pin)
    BY <1>8 DEF TaskPin, Advance, s
  <2> HIDE DEF x
  <2>3. NodeOK(h, x)
    BY <1>a, <1>b, <2>1, <2>2 DEF NodeOK
  <2>4. Goes(h, Config, x)
    BY <1>a, <1>b, <1>e, <1>i, <1>l, <2>1, <2>2, <2>3 DEF Goes
  <2> QED
    BY <2>4
<1>9. CASE TaskConfig(h)
  <2> DEFINE x == [s EXCEPT !.srv = TRUE]
  <2>1. /\ x \in NodeState /\ x.svc = s.svc /\ x.store = s.store
        /\ x.srv /\ x.pin = s.pin /\ x.marker = s.marker
        /\ x.member = s.member
    BY <1>a DEF NodeState
  <2>2. cp' = [cp EXCEPT ![h] = x] /\ pc' = [pc EXCEPT ![h] = Reboot]
        /\ UNCHANGED <<seen, active, budget>> /\ At(h, Config)
    BY <1>9 DEF TaskConfig, Advance, s
  <2> HIDE DEF x
  <2>3. NodeOK(h, x)
    BY <1>a, <1>b, <2>1, <2>2 DEF NodeOK
  <2>4. Goes(h, Reboot, x)
    BY <1>a, <1>b, <1>e, <1>i, <1>l, <2>1, <2>2, <2>3 DEF Goes
  <2> QED
    BY <2>4
<1>10. CASE TaskReboot(h)
  <2> DEFINE r == [s EXCEPT !.sig = FALSE, !.svc = "stopped"]
  <2>1. /\ r \in NodeState /\ r.store = s.store /\ r.sig = FALSE
        /\ r.srv = s.srv /\ r.pin = s.pin /\ r.ann = s.ann /\ r.marker = s.marker
        /\ r.member = s.member
    BY <1>a DEF NodeState
  <2>2. cp' = [cp EXCEPT ![h] = Booted(r)] /\ pc' = [pc EXCEPT ![h] = Start]
        /\ UNCHANGED <<seen, active, budget>> /\ At(h, Reboot)
    BY <1>10 DEF TaskReboot, Rebooted, Advance, s
  <2> HIDE DEF r
  <2>3. r.srv /\ (r.marker => r.member = "none")
    BY <1>a, <1>b, <2>1, <2>2
  <2>4. h = BootHost => (r.srv => r.pin) /\ (Trouble(r) => AllFormed)
    BY <1>b, <1>g, <2>1, <2>2
  <2>5. NodeOK(h, Booted(r))
    BY <2>1, <2>3, <2>4, BootedOK DEF s
  <2>6. Booted(r).srv
    BY <1>a, <2>1, <2>3, BootedNode DEF NodeOK
  <2>7. Goes(h, Start, Booted(r))
    BY <1>a, <1>b, <1>e, <1>i, <1>l, <2>2, <2>5, <2>6 DEF Goes
  <2> QED
    BY <2>7
<1>11. CASE TaskStart(h)
  <2>1. /\ \/ cp' = [cp EXCEPT ![h] = s]
           \/ cp' = [cp EXCEPT ![h] = Booted(s)]
        /\ At(h, Start) /\ active' \in SUBSET active /\ UNCHANGED <<seen, budget>>
    BY <1>11 DEF TaskStart, s
  <2>2. PICK t \in {Promoted, Done} : pc' = [pc EXCEPT ![h] = t]
    BY <1>11, Zenon DEF TaskStart
  <2>3. s.srv
    BY <1>b, <2>1
  <2>4. NodeOK(h, Booted(s))
    BY <1>a, <1>g, <2>3, BootedOK DEF s
  <2>5. PICK x : NodeOK(h, x) /\ cp' = [cp EXCEPT ![h] = x]
    BY <1>a, <2>1, <2>4
  <2>6. Goes(h, t, x)
    BY <1>a, <1>b, <1>e, <1>i, <1>l, <2>1, <2>2, <2>5 DEF Goes
  <2> QED
    BY <2>6
<1>12. CASE TaskPromoted(h)
  <2>1. Goes(h, Done, s)
    BY <1>a, <1>c, <1>e, <1>i, <1>j, <1>12 DEF Goes, TaskPromoted, Advance
  <2> QED
    BY <2>1
<1>13. CASE BudgetSpent(h)
  <2>1. Within'
    BY <1>i, <1>13, SpendWithin DEF BudgetSpent, Kinds
  <2>2. Goes(h, Done, s)
    BY <1>a, <1>c, <1>e, <1>j, <1>13, <2>1 DEF Goes, BudgetSpent
  <2> QED
    BY <2>2
<1> QED
  BY <1>1, <1>2, <1>3, <1>4, <1>5, <1>6, <1>7, <1>8, <1>9, <1>10, <1>11, <1>12,
     <1>13 DEF Role

\* Plays start and end; a build starts only while a node is unformed.
LEMMA PlaySecond ==
    ASSUME SecondInv, "kubecp" \notin Reruns,
           \/ StartKubecp \/ StartSettle \/ StartRejoin
           \/ RoleEnds \/ CensusPasses \/ CensusFails \/ RunEnds
    PROVE  SecondInv'
<1>w. WipeInv'
  BY PlayStep, ConstantsAssumption DEF SecondInv
<1>1. UNCHANGED cp /\ (UNCHANGED budget \/ Spend("fault"))
  BY DEF StartKubecp, StartSettle, StartRejoin, RoleEnds, CensusPasses, CensusFails,
         RunEnds, Enter
<1>2. Within'
  BY <1>1, SpendWithin DEF SecondInv, Within, Kinds
<1>3. NoSecondCluster' /\ JoinersJoin' /\ AllFormed' = AllFormed
      /\ ClusterExists' = ClusterExists
  BY <1>1 DEF SecondInv, NoSecondCluster, JoinersJoin, AllFormed, Unformed, ClusterExists
<1>4. CASE StartKubecp
  <2>1. ~AllFormed /\ play' = "form" /\ UNCHANGED seen
    BY <1>4 DEF StartKubecp, AllFormed
  <2>2. ~cp[BootHost].ann /\ ~cp[BootHost].marker
    BY <2>1 DEF SecondInv, Boot, Trouble
  <2>3. Boot'
    BY <1>1, <1>3, <2>1, <2>2 DEF SecondInv, Boot
  <2>4. TaskOrder'
    BY <2>1 DEF TaskOrder, Healing
  <2> QED
    BY <1>2, <1>3, <1>w, <2>3, <2>4 DEF SecondInv
<1>5. CASE StartSettle \/ StartRejoin
  <2>1. /\ play' \in {"settle", "rejoin"} /\ active' = CPs
        /\ pc' = [m \in CPs |-> Scan] /\ seen' = [m \in CPs |-> {}]
    BY <1>5 DEF StartSettle, StartRejoin, Enter
  <2>2. Boot'
    BY <1>1, <1>3, <2>1, ConstantsAssumption DEF SecondInv, Boot
  <2>3. TaskOrder'
    BY <2>1 DEF TaskOrder, Suspected, Scan, Voter, Stop, Config, Removed, Reboot, Start,
                Promoted
  <2> QED
    BY <1>2, <1>3, <1>w, <2>2, <2>3 DEF SecondInv
<1>6. CASE RoleEnds \/ CensusPasses \/ CensusFails \/ RunEnds
  <2>1. play' \in {"none", "census"} /\ UNCHANGED seen
    BY <1>6 DEF RoleEnds, CensusPasses, CensusFails, RunEnds
  <2>2. Boot'
    BY <1>1, <1>3, <2>1 DEF SecondInv, Boot
  <2>3. TaskOrder'
    BY <2>1 DEF TaskOrder, Healing
  <2> QED
    BY <1>2, <1>3, <1>w, <2>2, <2>3 DEF SecondInv
<1> QED
  BY <1>4, <1>5, <1>6

\* Without reboots of their own and without builds repeated once every node joined, no
\* node ever founds a second cluster: the bootstrap host starts with an empty store and
\* no server line only before there is a cluster.  It takes a signature in the journal of
\* a live node, a failed read of the voter condition and more than three nodes, all
\* together, for the role to wipe the bootstrap host while the first build is under way.
THEOREM OneCluster ==
    ASSUME Limit["reboot"] = 0, "kubecp" \notin Reruns,
           \/ Limit["hiccup"] = 0
           \/ Limit["misread"] = 0
           \/ Cardinality(CPs) <= 3
    PROVE  Spec => []NoSecondCluster
<1>1. Init => SecondInv
  <2> SUFFICES ASSUME Init PROVE SecondInv
    OBVIOUS
  <2>1. WipeInv /\ Within
    BY WipeInit, ConstantsAssumption DEF Init, Within, Kinds
  <2>2. /\ NoSecondCluster /\ JoinersJoin /\ ~ClusterExists
        /\ ~Trouble(cp[BootHost]) /\ ~cp[BootHost].srv
        /\ "sig" \notin seen[BootHost]
    BY ConstantsAssumption
       DEF Init, NoSecondCluster, JoinersJoin, ClusterExists, Trouble
  <2>3. play = "none"
    BY DEF Init
  <2> QED
    BY <2>1, <2>2, <2>3 DEF SecondInv, Boot, TaskOrder, Healing
<1>2. SecondInv /\ [Next]_vars => SecondInv'
  <2> SUFFICES ASSUME SecondInv, [Next]_vars PROVE SecondInv'
    OBVIOUS
  <2>0. Orderly /\ BootIsSafe
    BY DEF Orderly, BootIsSafe, TrueSigs, TrueReads
  <2>1. CASE UNCHANGED vars
    BY <2>1 DEF vars, SecondInv, WipeInv, TypeOK, MarkedIsOut, HealedNodesDown, Healing,
                NoSecondCluster, JoinersJoin, Boot, AllFormed, Unformed, ClusterExists,
                TaskOrder, Suspected, Within
  <2>2. CASE Rke2
    BY <2>0, <2>2, Rke2Second
  <2>3. CASE \E h \in CPs : Role(h) \/ BudgetSpent(h)
    BY <2>0, <2>3, TaskSecond
  <2>4. CASE \E n \in CPs : FormNode(n)
    BY <2>0, <2>4, FormSecond
  <2>5. CASE \/ StartKubecp \/ StartSettle \/ StartRejoin \/ RoleEnds
             \/ CensusPasses \/ CensusFails \/ RunEnds
    BY <2>5, PlaySecond
  <2> QED
    BY <2>1, <2>2, <2>3, <2>4, <2>5 DEF Next, Ansible
<1>3. SecondInv => NoSecondCluster
  BY DEF SecondInv
<1> QED
  BY <1>1, <1>2, <1>3, PTL DEF Spec
-----------------------------------------------------------------------------
(* The quorum.  The nodes that were ever struck are a minority T; the role   *)
(* touches no other node, and the voters outside T outnumber those in T.     *)

\* A node no play has reached.
Fresh(s) == /\ s.svc = "stopped" /\ s.store = "none" /\ s.member = "none"
            /\ ~s.sig /\ ~s.pin /\ ~s.ann /\ ~s.marker

\* A node in the cluster that nothing ever happened to.
Sound(s) == /\ s.svc = "running" /\ s.store = "good" /\ s.member # "none"
            /\ ~s.sig /\ ~s.ann /\ ~s.marker

\* The nodes outside T are sound, or fresh as long as no node was struck.
OthersSound(T) ==
    \A n \in CPs \ T : Sound(cp[n]) \/ (T = {} /\ Fresh(cp[n]))

\* The bootstrap host is not fresh once there is a cluster.
BootFirst(T) == BootHost \notin T /\ Fresh(cp[BootHost]) => ~ClusterExists

\* While a node outside T waits for its promotion, no node of T is back.
LearnersInTurn(T) ==
    \A n \in CPs \ T : cp[n].member = "learner" =>
                         \A t \in T : cp[t].store # "good"

\* The voters outside T are the majority.
MajoritySound(T) ==
    ClusterExists => Cardinality(Voters \ T) > Cardinality(Voters \cap T)

NodesInv(T) == /\ OthersSound(T) /\ BootFirst(T) /\ LearnersInTurn(T)
               /\ MajoritySound(T)

\* A run of the role finds no signature on a node outside T and leaves it alone.
OthersLeftAlone(T) ==
    \A h \in CPs \ T : "sig" \notin seen[h] /\ pc[h] \in {Scan, Facts, Voter, Done}

\* Every node of T cost a strike.
StrikesCounted(T) == Cardinality(T) + budget["strike"] <= Limit["strike"]

\* The form play goes on to the next node only once there is a cluster.
FormedFirst == play = "form" /\ formed # {} => ClusterExists

\* T is what was struck.
StruckInv(T) == NodesInv(T) /\ OthersLeftAlone(T) /\ StrikesCounted(T)

QuorumInv == /\ WipeInv /\ budget["hiccup"] = 0 /\ FormedFirst
             /\ \E T \in SUBSET CPs : StruckInv(T)

\* The strikes are too few for a majority of the nodes, no other node logs the
\* signature, and the bootstrap host is the first node of the inventory.
FewStrikes == /\ 2 * Limit["strike"] < Cardinality(CPs)
              /\ Limit["hiccup"] = 0
              /\ \A n \in CPs : BootHost <= n

\* The members of T and the others make up every set of nodes.
LEMMA Split ==
    ASSUME NEW V, NEW T, V \subseteq CPs
    PROVE  /\ IsFiniteSet(V) /\ Cardinality(V) \in Nat
           /\ Cardinality(V \ T) \in Nat /\ Cardinality(V \cap T) \in Nat
           /\ Cardinality(V) = Cardinality(V \ T) + Cardinality(V \cap T)
<1>1. IsFiniteSet(CPs)
  BY ConstantsAssumption
<1>2. IsFiniteSet(V) /\ IsFiniteSet(V \ T) /\ IsFiniteSet(V \cap T)
  <2>1. V \in SUBSET CPs /\ V \ T \in SUBSET CPs /\ V \cap T \in SUBSET CPs
    OBVIOUS
  <2> QED
    BY <1>1, <2>1, FS_Subset
<1>3. /\ Cardinality(V) \in Nat /\ Cardinality(V \ T) \in Nat
      /\ Cardinality(V \cap T) \in Nat
  BY <1>2, FS_CardinalityType
<1>4. (V \ T) \cup (V \cap T) = V /\ (V \ T) \cap (V \cap T) = {}
  OBVIOUS
<1>5. Cardinality((V \ T) \cup (V \cap T))
        = Cardinality(V \ T) + Cardinality(V \cap T)
            - Cardinality((V \ T) \cap (V \cap T))
  BY <1>2, FS_Union
<1>6. Cardinality({}) = 0
  BY FS_EmptySet
<1>7. Cardinality(V) = Cardinality(V \ T) + Cardinality(V \cap T) - 0
  BY <1>4, <1>5, <1>6, Zenon
<1>8. \A a, b, c \in Nat : c = a + b - 0 => c = a + b
  OBVIOUS
<1> QED
  BY <1>2, <1>3, <1>7, <1>8, Zenon

\* A subset of the nodes has at most as many of them.
LEMMA Fewer ==
    ASSUME NEW V, NEW W, W \subseteq CPs, V \subseteq W
    PROVE  Cardinality(V) <= Cardinality(W)
<1>1. IsFiniteSet(W)
  BY Split
<1> QED
  BY <1>1, FS_Subset

\* The struck nodes are a minority.
LEMMA FewStruck ==
    ASSUME NEW T \in SUBSET CPs, NEW left \in Nat, FewStrikes,
           Cardinality(T) + left <= Limit["strike"]
    PROVE  Cardinality(CPs \ T) > Cardinality(T)
<1>1. /\ Cardinality(CPs) \in Nat
      /\ Cardinality(CPs \ T) \in Nat /\ Cardinality(CPs \cap T) \in Nat
      /\ Cardinality(CPs) = Cardinality(CPs \ T) + Cardinality(CPs \cap T)
  BY Split
<1>2. CPs \cap T = T
  OBVIOUS
<1>3. Limit["strike"] \in Nat
  BY ConstantsAssumption DEF Kinds
<1>4. \A all, others, struck, limit \in Nat :
        /\ all = others + struck /\ struck + left <= limit /\ 2 * limit < all
        => others > struck
  OBVIOUS
<1> QED
  BY <1>1, <1>2, <1>3, <1>4, Zenon DEF FewStrikes

\* With a majority of sound voters the cluster has a quorum.
LEMMA SoundQuorum ==
    ASSUME NEW T \in SUBSET CPs, OthersSound(T), MajoritySound(T), ClusterExists
    PROVE  HasQuorum
<1>1. Voters \subseteq CPs /\ LiveVoters \subseteq CPs
  BY DEF Voters, LiveVoters
<1>2. Voters \ T \subseteq LiveVoters
  BY DEF Voters, LiveVoters, OthersSound, Sound, Fresh
<1>3. Cardinality(Voters \ T) <= Cardinality(LiveVoters)
  BY <1>1, <1>2, Fewer
<1>4. /\ Cardinality(Voters \ T) \in Nat /\ Cardinality(Voters \cap T) \in Nat
      /\ Cardinality(Voters) = Cardinality(Voters \ T) + Cardinality(Voters \cap T)
      /\ Cardinality(LiveVoters) \in Nat
  BY <1>1, Split
<1> QED
  BY <1>3, <1>4 DEF MajoritySound, HasQuorum

\* Once a node was struck there is a cluster: a node that was not is in it.
LEMMA ClusterStands ==
    ASSUME NEW T \in SUBSET CPs, Cardinality(CPs \ T) > Cardinality(T), T # {},
           OthersSound(T)
    PROVE  ClusterExists
<1>1. CPs \ T # {}
  <2> SUFFICES ASSUME CPs \ T = {} PROVE FALSE
    OBVIOUS
  <2>1. Cardinality({}) = 0 /\ T = CPs /\ Cardinality(CPs) \in Nat
    BY FS_EmptySet, Split
  <2> QED
    BY <2>1
<1> QED
  BY <1>1 DEF OthersSound, Sound, ClusterExists

-----------------------------------------------------------------------------
(* One node changes. *)

\* A struck node becomes a voter only as a learner whose store is back.
LEMMA StruckNode ==
    ASSUME TypeOK, NEW T \in SUBSET CPs, Cardinality(CPs \ T) > Cardinality(T),
           NodesInv(T), NEW n \in T, NEW x, cp' = [cp EXCEPT ![n] = x],
           x.store = "good" => cp[n].store = "good" \/ ~LearnerPending,
           x.member = "voter" => cp[n].member = "voter" \/ cp[n].store = "good"
    PROVE  NodesInv(T)' /\ ClusterExists'
<1>1. cp'[n] = x /\ \A m \in CPs : m # n => cp'[m] = cp[m]
  BY DEF TypeOK
<1>2. \A m \in CPs \ T : Sound(cp[m]) /\ cp'[m] = cp[m]
  BY <1>1 DEF NodesInv, OthersSound
<1>3. OthersSound(T)'
  BY <1>2 DEF OthersSound
<1>4. BootFirst(T)'
  BY <1>2, ConstantsAssumption DEF BootFirst, Sound, Fresh
<1>5. LearnersInTurn(T)'
  <2> SUFFICES ASSUME NEW m \in CPs \ T, cp'[m].member = "learner", NEW t \in T
               PROVE  cp'[t].store # "good"
    BY DEF LearnersInTurn
  <2>1. cp[m].member = "learner" /\ LearnerPending
    BY <1>2 DEF LearnerPending
  <2>2. cp[t].store # "good" /\ cp[n].store # "good"
    BY <2>1 DEF NodesInv, LearnersInTurn
  <2> QED
    BY <1>1, <2>1, <2>2
<1>6. ClusterExists /\ ClusterExists'
  <2>1. ClusterExists
    BY ClusterStands DEF NodesInv
  <2>2. PICK m \in CPs \ T : TRUE
    <3>1. Cardinality(CPs \ T) \in Nat /\ Cardinality({}) = 0 /\ Cardinality(T) \in Nat
      <4>1. T \subseteq CPs
        OBVIOUS
      <4> QED
        BY <4>1, Split, FS_EmptySet
    <3> QED
      BY <3>1
  <2> QED
    BY <1>2, <2>1, <2>2 DEF Sound, ClusterExists
<1>7. Voters' \cap T \subseteq T /\ Voters \subseteq CPs /\ Voters' \subseteq CPs
  BY DEF Voters
<1>8. /\ Cardinality(Voters \cap T) \in Nat /\ Cardinality(Voters' \cap T) \in Nat
      /\ Cardinality(Voters' \ T) \in Nat /\ Cardinality(T) \in Nat
  <2>1. T \subseteq CPs
    OBVIOUS
  <2> QED
    BY <1>7, <2>1, Split
<1>9. Cardinality(Voters' \ T) > Cardinality(Voters' \cap T)
  <2>1. CASE x.member = "voter" => cp[n].member = "voter"
    <3>1. Voters' \ T = Voters \ T
      BY <1>2 DEF Voters
    <3>2. Voters' \cap T \subseteq Voters \cap T
      BY <1>1, <2>1 DEF Voters
    <3>3. Cardinality(Voters' \cap T) <= Cardinality(Voters \cap T)
      <4>1. Voters \cap T \subseteq CPs
        OBVIOUS
      <4> QED
        BY <3>2, <4>1, Fewer
    <3>4. Cardinality(Voters \ T) > Cardinality(Voters \cap T)
      BY <1>6 DEF NodesInv, MajoritySound
    <3> QED
      BY <1>8, <3>1, <3>3, <3>4
  <2>2. CASE cp[n].store = "good"
    <3>1. \A m \in CPs \ T : cp[m].member = "voter"
      BY <1>2, <2>2 DEF NodesInv, LearnersInTurn, Sound, TypeOK, NodeState
    <3>2. Voters' \ T = CPs \ T
      BY <1>2, <3>1 DEF Voters
    <3>3. Cardinality(Voters' \cap T) <= Cardinality(T)
      <4>1. T \subseteq CPs
        OBVIOUS
      <4> QED
        BY <1>7, <4>1, Fewer
    <3> QED
      BY <1>8, <3>2, <3>3
  <2> QED
    BY <2>1, <2>2
<1> QED
  BY <1>3, <1>4, <1>5, <1>6, <1>9 DEF NodesInv, MajoritySound

\* A sound node stays sound, and a voter when it was one.
LEMMA SoundNode ==
    ASSUME TypeOK, NEW T \in SUBSET CPs, NodesInv(T), NEW n \in CPs \ T, NEW x,
           cp' = [cp EXCEPT ![n] = x], Sound(cp[n]), Sound(x),
           x.member = cp[n].member \/ x.member = "voter"
    PROVE  NodesInv(T)' /\ ClusterExists'
<1>1. cp'[n] = x /\ \A m \in CPs : m # n => cp'[m] = cp[m]
  BY DEF TypeOK
<1>2. OthersSound(T)'
  BY <1>1 DEF NodesInv, OthersSound
<1>3. ClusterExists /\ ClusterExists'
  BY <1>1 DEF ClusterExists, Sound
<1>4. BootFirst(T)'
  BY <1>1, <1>3, ConstantsAssumption DEF NodesInv, BootFirst, Sound, Fresh
<1>5. LearnersInTurn(T)'
  <2> SUFFICES ASSUME NEW m \in CPs \ T, cp'[m].member = "learner", NEW t \in T
               PROVE  cp'[t].store # "good"
    BY DEF LearnersInTurn
  <2>1. cp[m].member = "learner"
    BY <1>1
  <2> QED
    BY <1>1, <2>1 DEF NodesInv, LearnersInTurn
<1>6. Voters \ T \subseteq Voters' \ T /\ Voters' \cap T = Voters \cap T
  BY <1>1 DEF Voters
<1>7. Voters \subseteq CPs /\ Voters' \subseteq CPs /\ Voters' \ T \subseteq CPs
  BY DEF Voters
<1>8. Cardinality(Voters \ T) <= Cardinality(Voters' \ T)
  BY <1>6, <1>7, Fewer
<1>9. /\ Cardinality(Voters \ T) \in Nat /\ Cardinality(Voters \cap T) \in Nat
      /\ Cardinality(Voters' \ T) \in Nat
  BY <1>7, Split
<1>10. Cardinality(Voters \ T) > Cardinality(Voters \cap T)
  BY <1>3 DEF NodesInv, MajoritySound
<1> QED
  BY <1>2, <1>3, <1>4, <1>5, <1>6, <1>8, <1>9, <1>10 DEF NodesInv, MajoritySound

\* The first build joins a node, or founds the cluster on the bootstrap host.
LEMMA FreshNode ==
    ASSUME TypeOK, NodesInv({}), NEW n \in CPs, Fresh(cp[n]), NEW x, Sound(x),
           cp' = [cp EXCEPT ![n] = x], n = BootHost \/ ClusterExists,
           ~ClusterExists => x.member = "voter"
    PROVE  NodesInv({})' /\ ClusterExists'
<1>1. cp'[n] = x /\ \A m \in CPs : m # n => cp'[m] = cp[m]
  BY DEF TypeOK
<1>2. OthersSound({})'
  BY <1>1 DEF NodesInv, OthersSound
<1>3. ClusterExists'
  BY <1>1 DEF ClusterExists, Sound
<1>4. BootFirst({})'
  BY <1>1, <1>3, ConstantsAssumption DEF NodesInv, BootFirst, Sound, Fresh
<1>5. LearnersInTurn({})'
  BY DEF LearnersInTurn
<1>6. Voters' # {}
  <2>1. CASE ClusterExists
    <3>1. Cardinality(Voters \ {}) > Cardinality(Voters \cap {})
      BY <2>1 DEF NodesInv, MajoritySound
    <3>2. Voters \cap {} = {} /\ Voters \ {} = Voters /\ Cardinality({}) = 0
      BY FS_EmptySet
    <3>3. PICK v \in Voters : TRUE
      BY <3>1, <3>2
    <3> QED
      BY <1>1, <3>3 DEF Voters, Fresh
  <2>2. CASE ~ClusterExists
    BY <1>1, <2>2 DEF Voters
  <2> QED
    BY <2>1, <2>2
<1>7. Cardinality(Voters' \ {}) > Cardinality(Voters' \cap {})
  <2>1. Voters' \subseteq CPs
    BY DEF Voters
  <2>2. IsFiniteSet(Voters') /\ Cardinality(Voters') \in Nat
    BY <2>1, Split
  <2>3. Cardinality(Voters') # 0
    BY <1>6, <2>2, FS_EmptySet
  <2>4. Voters' \cap {} = {} /\ Voters' \ {} = Voters' /\ Cardinality({}) = 0
    BY FS_EmptySet
  <2> QED
    BY <2>2, <2>3, <2>4
<1> QED
  BY <1>2, <1>3, <1>4, <1>5, <1>7 DEF NodesInv, MajoritySound

\* A strike takes a node that others outvote: the quorum it leaves is a majority
\* outside T and the node, unless they are all voters.
LEMMA NewlyStruck ==
    ASSUME TypeOK, NEW T \in SUBSET CPs, NodesInv(T), NEW n \in CPs \ T, NEW x,
           cp' = [cp EXCEPT ![n] = x], x.store = "wedged", x.member = cp[n].member,
           \A m \in CPs : ~Unformed(m),
           2 * Cardinality(LiveVoters \ {n}) > Cardinality(Voters),
           NEW U \in SUBSET CPs, U = T \cup {n}, Cardinality(CPs \ U) > Cardinality(U)
    PROVE  NodesInv(U)' /\ ClusterExists'
<1>1. cp'[n] = x /\ \A m \in CPs : m # n => cp'[m] = cp[m]
  BY DEF TypeOK
<1>2. \A m \in CPs \ T : Sound(cp[m])
  BY DEF NodesInv, OthersSound, Fresh, Unformed
<1>3. OthersSound(U)'
  BY <1>1, <1>2 DEF OthersSound
<1>4. ClusterExists'
  BY <1>1, <1>2 DEF Sound, ClusterExists
<1>5. BootFirst(U)'
  BY <1>1, <1>2, ConstantsAssumption DEF BootFirst, Sound, Fresh
<1>6. LearnersInTurn(U)'
  BY <1>1 DEF NodesInv, LearnersInTurn
<1>7. Voters' = Voters /\ Voters \subseteq CPs /\ LiveVoters \subseteq Voters
  BY <1>1 DEF Voters, LiveVoters
<1>8. /\ Cardinality(Voters \ U) \in Nat /\ Cardinality(Voters \cap U) \in Nat
      /\ Cardinality(Voters) = Cardinality(Voters \ U) + Cardinality(Voters \cap U)
  BY <1>7, Split
<1>9. Cardinality(Voters \ U) > Cardinality(Voters \cap U)
  <2>1. CASE \E m \in CPs \ T : cp[m].member = "learner"
    <3>1. \A t \in T : cp[t].store # "good"
      BY <2>1 DEF NodesInv, LearnersInTurn
    <3>2. LiveVoters \ {n} \subseteq Voters \ U
      BY <1>7, <3>1 DEF LiveVoters
    <3>3. Voters \ U \subseteq CPs
      BY <1>7
    <3>4. Cardinality(LiveVoters \ {n}) <= Cardinality(Voters \ U)
      BY <3>2, <3>3, Fewer
    <3>5. LiveVoters \ {n} \subseteq CPs
      BY <1>7
    <3>6. Cardinality(LiveVoters \ {n}) \in Nat
      BY <3>5, Split
    <3> QED
      BY <1>8, <3>4, <3>6
  <2>2. CASE ~\E m \in CPs \ T : cp[m].member = "learner"
    <3>1. \A m \in CPs \ T : cp[m].member = "voter"
      BY <1>2, <2>2 DEF Sound, TypeOK, NodeState
    <3>2. Voters \ U = CPs \ U
      BY <3>1 DEF Voters
    <3>3. Voters \cap U \subseteq U
      OBVIOUS
    <3>4. Cardinality(Voters \cap U) <= Cardinality(U)
      BY <3>3, Fewer
    <3>5. Cardinality(U) \in Nat /\ Cardinality(CPs \ U) \in Nat
      BY Split
    <3>6. \A a, b, c \in Nat : a > b /\ c <= b => a > c
      OBVIOUS
    <3> QED
      BY <1>8, <3>2, <3>4, <3>5, <3>6, Zenon
  <2> QED
    BY <2>1, <2>2
<1> QED
  BY <1>3, <1>4, <1>5, <1>6, <1>7, <1>9 DEF NodesInv, MajoritySound

-----------------------------------------------------------------------------
(* The actions. *)

\* A server that starts gets a good store, or a vote, only in its turn.
LEMMA BootedInTurn ==
    ASSUME NEW s \in NodeState
    PROVE  LET x == Booted(s) IN
           /\ x.store = "good" => s.store = "good" \/ ~LearnerPending
           /\ x.member = "voter" => s.member = "voter" \/ ~ClusterExists
<1>1. ~ClusterExists => ~LearnerPending
  BY DEF ClusterExists, LearnerPending
<1>2. CASE s.store \in {"wedged", "alone"}
  BY <1>2 DEF Booted, Failed, NodeState
<1>3. CASE s.store = "good"
  BY <1>3 DEF Booted, Failed, NodeState
<1>4. CASE s.store = "none" /\ ~s.srv
  BY <1>1, <1>4 DEF Booted, Failed, NodeState
<1>5. CASE s.store = "none" /\ s.srv
  BY <1>5 DEF Booted, Failed, NodeState
<1> QED
  BY <1>2, <1>3, <1>4, <1>5 DEF NodeState

\* A member with its store just starts.
LEMMA BootedMember ==
    ASSUME NEW s \in NodeState, s.store = "good", s.member # "none",
           ~s.sig, ~s.ann, ~s.marker
    PROVE  Sound(Booted(s)) /\ Booted(s).member = s.member
<1>1. Booted(s) = [s EXCEPT !.svc = "running"]
  BY DEF Booted
<1> QED
  BY <1>1 DEF Sound, NodeState

\* A fresh server joins when it has a server line and it is its turn, and founds
\* the cluster when it has none.
LEMMA BootedFresh ==
    ASSUME NEW s \in NodeState, Fresh(s), ~Queued(s),
           IF s.srv THEN HasQuorum ELSE ~ClusterExists
    PROVE  Sound(Booted(s)) /\ (~s.srv => Booted(s).member = "voter")
<1>1. CASE s.srv
  <2>1. ~LearnerPending
    BY <1>1 DEF Fresh, Queued
  <2>2. Booted(s) = [s EXCEPT !.svc = "running", !.store = "good",
                           !.member = "learner", !.ann = FALSE, !.marker = FALSE]
    BY <1>1, <2>1 DEF Fresh, Booted
  <2> QED
    BY <1>1, <2>2 DEF Fresh, Sound, NodeState
<1>2. CASE ~s.srv
  <2>1. Booted(s) = [s EXCEPT !.svc = "running", !.store = "good",
                           !.member = "voter", !.ann = FALSE, !.marker = FALSE]
    BY <1>2 DEF Fresh, Booted
  <2> QED
    BY <1>2, <2>1 DEF Fresh, Sound, NodeState
<1> QED
  BY <1>1, <1>2

\* A struck node starts.
LEMMA StruckBoots ==
    ASSUME TypeOK, NEW T \in SUBSET CPs, Cardinality(CPs \ T) > Cardinality(T),
           NodesInv(T), NEW n \in T, NEW s \in NodeState,
           s.store = cp[n].store, s.member = cp[n].member,
           cp' = [cp EXCEPT ![n] = Booted(s)]
    PROVE  NodesInv(T)' /\ ClusterExists'
<1> DEFINE x == Booted(s)
<1>1. /\ x.store = "good" => s.store = "good" \/ ~LearnerPending
      /\ x.member = "voter" => s.member = "voter" \/ ~ClusterExists
  BY BootedInTurn
<1>2. ClusterExists
  BY ClusterStands DEF NodesInv
<1>3. cp' = [cp EXCEPT ![n] = x]
  OBVIOUS
<1> HIDE DEF x
<1>4. /\ x.store = "good" => cp[n].store = "good" \/ ~LearnerPending
      /\ x.member = "voter" => cp[n].member = "voter" \/ cp[n].store = "good"
  BY <1>1, <1>2
<1> QED
  BY <1>3, <1>4, StruckNode

\* What is spent.
LEMMA SpendStrike ==
    ASSUME budget \in [Kinds -> Nat], budget["hiccup"] = 0, NEW k \in Kinds, Spend(k)
    PROVE  /\ k # "hiccup" /\ budget'["hiccup"] = 0
           /\ k = "strike" => budget["strike"] = budget'["strike"] + 1
           /\ k # "strike" => budget'["strike"] = budget["strike"]
           /\ budget'["strike"] \in Nat
<1>1. {"hiccup", "strike"} \subseteq Kinds
  BY DEF Kinds
<1> QED
  BY <1>1 DEF Spend

\* What every step of RKE2 and every play needs to know.
LEMMA QuorumFacts ==
    ASSUME QuorumInv, FewStrikes, NEW T \in SUBSET CPs, StruckInv(T)
    PROVE  /\ TypeOK /\ NodesInv(T) /\ Cardinality(CPs \ T) > Cardinality(T)
           /\ budget["strike"] \in Nat /\ budget \in [Kinds -> Nat]
           /\ cp \in [CPs -> NodeState]
           /\ \A n \in CPs : cp[n].marker => cp[n].member = "none"
<1>1. budget["strike"] \in Nat
  BY DEF QuorumInv, WipeInv, TypeOK, Kinds
<1>2. Cardinality(CPs \ T) > Cardinality(T)
  BY <1>1, FewStruck DEF StruckInv, StrikesCounted
<1> QED
  BY <1>1, <1>2 DEF QuorumInv, StruckInv, WipeInv, TypeOK, MarkedIsOut

\* A node struck for the first time is added to T.
LEMMA StrikeQuorum ==
    ASSUME QuorumInv, FewStrikes, NEW n \in CPs, Strike(n), NEW T \in SUBSET CPs,
           StruckInv(T)
    PROVE  ClusterExists' /\ \E U \in SUBSET CPs : StruckInv(U)'
<1> DEFINE s == cp[n]
           x == [s EXCEPT !.svc = "failed", !.sig = TRUE, !.store = "wedged"]
<1>1. /\ TypeOK /\ NodesInv(T) /\ Cardinality(CPs \ T) > Cardinality(T)
      /\ budget["strike"] \in Nat /\ budget \in [Kinds -> Nat]
      /\ cp \in [CPs -> NodeState] /\ s \in NodeState
  BY QuorumFacts
<1>2. cp' = [cp EXCEPT ![n] = x]
  BY DEF Strike, Failed
<1>3. x.store = "wedged" /\ x.member = s.member
  BY <1>1 DEF NodeState
<1>4. /\ \A m \in CPs : ~Unformed(m)
      /\ 2 * Cardinality(LiveVoters \ {n}) > Cardinality(Voters)
      /\ Spend("strike") /\ UNCHANGED <<pc, seen>>
  BY DEF Strike
<1>5. budget["strike"] = budget'["strike"] + 1 /\ budget'["strike"] \in Nat
  <2>1. "strike" \in Kinds
    BY DEF Kinds
  <2> QED
    BY <1>1, <1>4, <2>1, SpendStrike DEF QuorumInv
<1> HIDE DEF x
<1>6. CASE n \in T
  <2>1. NodesInv(T)' /\ ClusterExists'
    BY <1>1, <1>2, <1>3, <1>6, StruckNode
  <2>2. StrikesCounted(T)'
    <3>1. Cardinality(T) + budget["strike"] <= Limit["strike"]
      BY DEF StruckInv, StrikesCounted
    <3>2. Cardinality(T) \in Nat /\ Limit["strike"] \in Nat
      BY Split, ConstantsAssumption DEF Kinds
    <3>3. \A a, b, c, d \in Nat : a + b <= c /\ b = d + 1 => a + d <= c
      OBVIOUS
    <3>4. Cardinality(T) + budget'["strike"] <= Limit["strike"]
      BY <1>1, <1>5, <3>1, <3>2, <3>3, Zenon
    <3> QED
      BY <3>4 DEF StrikesCounted
  <2>3. OthersLeftAlone(T)'
    BY <1>4 DEF StruckInv, OthersLeftAlone
  <2> QED
    BY <2>1, <2>2, <2>3 DEF StruckInv
<1>7. CASE n \notin T
  <2>1. PICK U \in SUBSET CPs : U = T \cup {n}
    OBVIOUS
  <2>2. Cardinality(U) + budget'["strike"] <= Limit["strike"]
    <3>1. Cardinality(T) + budget["strike"] <= Limit["strike"]
      BY DEF StruckInv, StrikesCounted
    <3>2. Cardinality(T) \in Nat /\ IsFiniteSet(T) /\ Limit["strike"] \in Nat
      BY Split, ConstantsAssumption DEF Kinds
    <3>3. Cardinality(U) = Cardinality(T) + 1
      BY <1>7, <2>1, <3>2, FS_AddElement
    <3>4. \A a, b, c, d, e \in Nat :
            a + b <= c /\ b = d + 1 /\ e = a + 1 => e + d <= c
      OBVIOUS
    <3>5. Cardinality(U) \in Nat
      BY Split
    <3> QED
      BY <1>1, <1>5, <3>1, <3>2, <3>3, <3>4, <3>5, Zenon
  <2>3. Cardinality(CPs \ U) > Cardinality(U)
    BY <1>5, <2>2, FewStruck
  <2>4. NodesInv(U)' /\ ClusterExists'
    BY <1>1, <1>2, <1>3, <1>4, <1>7, <2>1, <2>3, NewlyStruck
  <2>5. OthersLeftAlone(U)'
    BY <1>4, <2>1 DEF StruckInv, OthersLeftAlone
  <2>6. StrikesCounted(U)'
    BY <2>2 DEF StrikesCounted
  <2> QED
    BY <2>4, <2>5, <2>6 DEF StruckInv
<1> QED
  BY <1>6, <1>7


\* RKE2 by itself.
LEMMA Rke2Quorum ==
    ASSUME QuorumInv, FewStrikes, Rke2
    PROVE  QuorumInv'
<1>0. PICK n \in CPs : \/ Retry(n) \/ PromoteLearner(n) \/ RemoveMember(n)
                       \/ Strike(n) \/ Hiccup(n) \/ NodeReboots(n)
  BY DEF Rke2
<1>t. PICK T \in SUBSET CPs : StruckInv(T)
  BY DEF QuorumInv
<1> DEFINE s == cp[n]
<1>a. /\ TypeOK /\ NodesInv(T) /\ Cardinality(CPs \ T) > Cardinality(T)
      /\ budget["strike"] \in Nat /\ budget \in [Kinds -> Nat]
      /\ cp \in [CPs -> NodeState] /\ s \in NodeState
      /\ budget["hiccup"] = 0
  BY <1>t, QuorumFacts DEF QuorumInv
<1>k. Kinds = {"strike", "hiccup", "misread", "fault", "reboot"}
  BY DEF Kinds
<1>w. WipeInv'
  BY Rke2Step DEF QuorumInv
<1>o. n \notin T => Sound(s) \/ Fresh(s)
  BY <1>a DEF NodesInv, OthersSound
<1> HIDE DEF s
<1>u. UNCHANGED <<play, active, formed, pc, seen>>
  BY <1>0 DEF Retry, PromoteLearner, RemoveMember, Strike, Hiccup, NodeReboots
<1>b. budget'["hiccup"] = 0
  <2>1. UNCHANGED budget \/ Spend("strike") \/ Spend("hiccup") \/ Spend("reboot")
    BY <1>0 DEF Retry, PromoteLearner, RemoveMember, Strike, Hiccup, NodeReboots
  <2> QED
    BY <1>a, <1>k, <2>1, SpendStrike
<1>s. SUFFICES ClusterExists' /\ \E U \in SUBSET CPs : StruckInv(U)'
  BY <1>b, <1>w DEF QuorumInv, FormedFirst
<1>1. CASE Strike(n)
  BY <1>1, <1>t, StrikeQuorum
<1>2. CASE Hiccup(n)
  BY <1>2, <1>a, <1>k, SpendStrike DEF Hiccup
<1>3. CASE Retry(n) \/ PromoteLearner(n) \/ RemoveMember(n) \/ NodeReboots(n)
  <2>1. StrikesCounted(T)'
    <3>1. UNCHANGED budget \/ Spend("reboot")
      BY <1>3 DEF Retry, PromoteLearner, RemoveMember, NodeReboots
    <3>2. budget'["strike"] = budget["strike"]
      BY <1>a, <1>k, <3>1, SpendStrike
    <3> QED
      BY <1>t, <3>2 DEF StruckInv, StrikesCounted
  <2>2. OthersLeftAlone(T)'
    BY <1>t, <1>u DEF StruckInv, OthersLeftAlone
  <2> SUFFICES NodesInv(T)' /\ ClusterExists'
    BY <2>1, <2>2 DEF StruckInv
  <2>3. CASE Retry(n)
    <3>1. s.svc = "failed" /\ cp' = [cp EXCEPT ![n] = Booted(s)]
      BY <2>3 DEF Retry, s
    <3>2. n \in T
      BY <1>o, <3>1 DEF Sound, Fresh
    <3>3. s.store = cp[n].store /\ s.member = cp[n].member
      BY DEF s
    <3> QED
      BY <1>a, <3>1, <3>2, <3>3, StruckBoots
  <2>4. CASE PromoteLearner(n)
    <3> DEFINE x == [s EXCEPT !.member = "voter"]
    <3>1. /\ cp' = [cp EXCEPT ![n] = x] /\ s.member = "learner" /\ s.store = "good"
      BY <2>4 DEF PromoteLearner, s
    <3>2. /\ x.svc = s.svc /\ x.store = s.store /\ x.sig = s.sig
          /\ x.ann = s.ann /\ x.marker = s.marker /\ x.member = "voter"
      BY <1>a DEF NodeState
    <3> HIDE DEF x
    <3>3. CASE n \in T
      <4>1. cp[n].store = "good"
        BY <3>1 DEF s
      <4> QED
        BY <1>a, <3>1, <3>3, <4>1, StruckNode
    <3>4. CASE n \notin T
      <4>1. Sound(s) /\ Sound(x)
        BY <1>o, <3>1, <3>2, <3>4 DEF Sound, Fresh
      <4> QED
        BY <1>a, <3>1, <3>2, <3>4, <4>1, SoundNode DEF s
    <3> QED
      BY <3>3, <3>4
  <2>5. CASE RemoveMember(n)
    <3> DEFINE x == [s EXCEPT !.member = "none", !.marker = TRUE]
    <3>1. cp' = [cp EXCEPT ![n] = x] /\ s.ann
      BY <1>a, <2>5 DEF RemoveMember, s
    <3>2. x.store = s.store /\ x.member = "none"
      BY <1>a DEF NodeState
    <3> HIDE DEF x
    <3>3. n \in T
      BY <1>o, <3>1 DEF Sound, Fresh
    <3>4. /\ x.store = "good" => cp[n].store = "good"
          /\ x.member # "voter"
      BY <3>2 DEF s
    <3> QED
      BY <1>a, <3>1, <3>3, <3>4, StruckNode
  <2>6. CASE NodeReboots(n)
    <3> DEFINE r == [s EXCEPT !.sig = FALSE, !.svc = "stopped"]
    <3>1. /\ cp' = [cp EXCEPT ![n] = Booted(r)]
          /\ s.svc # "stopped" \/ s.member # "none" \/ s.marker
      BY <2>6 DEF NodeReboots, Rebooted, s
    <3>2. /\ r \in NodeState /\ r.store = s.store /\ r.member = s.member
          /\ ~r.sig /\ r.ann = s.ann /\ r.marker = s.marker
      BY <1>a DEF NodeState
    <3> HIDE DEF r
    <3>3. CASE n \in T
      <4>1. r.store = cp[n].store /\ r.member = cp[n].member
        BY <3>2 DEF s
      <4> QED
        BY <1>a, <3>1, <3>2, <3>3, <4>1, StruckBoots
    <3>4. CASE n \notin T
      <4>1. Sound(s)
        BY <1>o, <3>1, <3>4 DEF Fresh
      <4>2. Sound(Booted(r)) /\ Booted(r).member = s.member
        BY <3>2, <4>1, BootedMember DEF Sound
      <4> QED
        BY <1>a, <3>1, <3>4, <4>1, <4>2, SoundNode DEF s
    <3> QED
      BY <3>3, <3>4
  <2> QED
    BY <1>3, <2>3, <2>4, <2>5, <2>6
<1> QED
  BY <1>0, <1>1, <1>2, <1>3

\* The form play starts a node: a fresh one joins the quorum, or is the bootstrap
\* host and founds it.
LEMMA FormQuorum ==
    ASSUME QuorumInv, FewStrikes, NEW n \in CPs, FormNode(n)
    PROVE  QuorumInv'
<1>t. PICK T \in SUBSET CPs : StruckInv(T)
  BY DEF QuorumInv
<1>a. /\ TypeOK /\ NodesInv(T) /\ Cardinality(CPs \ T) > Cardinality(T)
      /\ cp \in [CPs -> NodeState] /\ cp[n] \in NodeState
  BY <1>t, QuorumFacts
<1>w. WipeInv'
  BY PlayStep DEF QuorumInv
<1>b. PICK b \in BOOLEAN : b = ((n # BootHost) \/ cp[n].pin)
  BY Zenon
<1> DEFINE r == [cp[n] EXCEPT !.srv = b]
<1>1. r = Rendered(n)
  BY <1>b DEF Rendered
<1>2. /\ r \in NodeState /\ r.svc = cp[n].svc /\ r.store = cp[n].store
      /\ r.member = cp[n].member /\ r.sig = cp[n].sig /\ r.srv = b /\ r.pin = cp[n].pin
      /\ r.ann = cp[n].ann /\ r.marker = cp[n].marker
  BY <1>a DEF NodeState
<1> HIDE DEF r
<1>3. /\ UNCHANGED <<active, pc, seen, budget>> /\ ~Queued(r)
      /\ play = "form" /\ n \notin formed /\ \A m \in CPs \ formed : n <= m
      /\ \/ cp' = [cp EXCEPT ![n] = r] /\ cp[n].svc = "running"
         \/ cp' = [cp EXCEPT ![n] = Booted(r)]
  BY <1>1 DEF FormNode
<1>4. NodesInv(T)' /\ ClusterExists'
  <2>1. CASE n \in T
    <3>1. CASE cp' = [cp EXCEPT ![n] = r]
      BY <1>a, <1>2, <2>1, <3>1, StruckNode
    <3>2. CASE cp' = [cp EXCEPT ![n] = Booted(r)]
      BY <1>a, <1>2, <2>1, <3>2, StruckBoots
    <3> QED
      BY <1>3, <3>1, <3>2
  <2>2. CASE n \notin T /\ Sound(cp[n])
    <3>1. CASE cp' = [cp EXCEPT ![n] = r]
      <4>1. Sound(r)
        BY <1>2, <2>2 DEF Sound
      <4> QED
        BY <1>a, <1>2, <2>2, <3>1, <4>1, SoundNode
    <3>2. CASE cp' = [cp EXCEPT ![n] = Booted(r)]
      <4>1. Sound(Booted(r)) /\ Booted(r).member = cp[n].member
        BY <1>2, <2>2, BootedMember DEF Sound
      <4> QED
        BY <1>a, <2>2, <3>2, <4>1, SoundNode
    <3> QED
      BY <1>3, <3>1, <3>2
  <2>3. CASE n \notin T /\ T = {} /\ Fresh(cp[n])
    <3>1. Fresh(r) /\ cp' = [cp EXCEPT ![n] = Booted(r)]
      BY <1>2, <1>3, <2>3 DEF Fresh
    <3>2. CASE n = BootHost
      <4>1. ~r.srv
        BY <1>2, <1>b, <2>3, <3>2 DEF Fresh
      <4>2. ~ClusterExists
        BY <1>a, <2>3, <3>2 DEF NodesInv, BootFirst
      <4>3. Sound(Booted(r)) /\ Booted(r).member = "voter"
        BY <1>2, <1>3, <3>1, <4>1, <4>2, BootedFresh
      <4> QED
        BY <1>a, <2>3, <3>1, <3>2, <4>3, FreshNode
    <3>3. CASE n # BootHost
      <4>1. r.srv
        BY <1>2, <1>b, <3>3
      <4>2. BootHost \in formed
        BY <1>3, <3>3, ConstantsAssumption DEF FewStrikes
      <4>3. ClusterExists
        BY <1>3, <4>2 DEF QuorumInv, FormedFirst
      <4>4. HasQuorum
        BY <1>a, <4>3, SoundQuorum DEF NodesInv
      <4>5. Sound(Booted(r))
        BY <1>2, <1>3, <3>1, <4>1, <4>4, BootedFresh
      <4> QED
        BY <1>a, <2>3, <3>1, <4>3, <4>5, FreshNode
    <3> QED
      BY <3>2, <3>3
  <2> QED
    BY <1>a, <2>1, <2>2, <2>3 DEF NodesInv, OthersSound
<1>5. StruckInv(T)'
  BY <1>t, <1>3, <1>4 DEF StruckInv, OthersLeftAlone, StrikesCounted
<1> QED
  BY <1>3, <1>4, <1>5, <1>w DEF QuorumInv, FormedFirst

\* The role: a node it stops, removes, wipes or reboots was struck.
LEMMA TaskQuorum ==
    ASSUME QuorumInv, FewStrikes, NEW h \in CPs, Role(h) \/ BudgetSpent(h)
    PROVE  QuorumInv'
<1>t. PICK T \in SUBSET CPs : StruckInv(T)
  BY DEF QuorumInv
<1> DEFINE s == cp[h]
<1>a. /\ TypeOK /\ NodesInv(T) /\ Cardinality(CPs \ T) > Cardinality(T)
      /\ cp \in [CPs -> NodeState] /\ s \in NodeState
      /\ budget \in [Kinds -> Nat] /\ budget["hiccup"] = 0
      /\ pc \in [CPs -> Scan .. Done] /\ seen \in [CPs -> SUBSET {"sig", "running"}]
  BY <1>t, QuorumFacts DEF QuorumInv, TypeOK
<1>o. h \notin T => /\ ~s.sig /\ "sig" \notin seen[h]
                    /\ pc[h] \in {Scan, Facts, Voter, Done}
  BY <1>a, <1>t DEF StruckInv, NodesInv, OthersSound, Sound, Fresh, OthersLeftAlone
<1> HIDE DEF s
<1>w. WipeInv'
  BY TaskStep DEF QuorumInv
<1>p. play # "form" /\ UNCHANGED play
  BY DEF Role, BudgetSpent, TaskScan, TaskFacts, TaskVoter, TaskStop, TaskProbe,
         TaskAnnotate, TaskRemoved, TaskWipe, TaskPin, TaskConfig, TaskReboot,
         TaskStart, TaskPromoted, At, Advance
<1>b. budget'["hiccup"] = 0 /\ budget'["strike"] = budget["strike"]
  <2>1. UNCHANGED budget \/ Spend("misread") \/ Spend("fault")
    BY DEF Role, BudgetSpent, TaskScan, TaskFacts, TaskVoter, TaskStop, TaskProbe,
           TaskAnnotate, TaskRemoved, TaskWipe, TaskPin, TaskConfig, TaskReboot,
           TaskStart, TaskPromoted
  <2> QED
    BY <1>a, <2>1, SpendStrike DEF Kinds
<1>q. SUFFICES NodesInv(T)' /\ OthersLeftAlone(T)'
  BY <1>b, <1>p, <1>t, <1>w DEF QuorumInv, FormedFirst, StruckInv, StrikesCounted
<1> USE DEF Scan, Facts, Voter, Stop, Probe, Annotate, Removed, Wipe, Pin, Config, Reboot,
            Start, Promoted, Done
<1>m. ASSUME h \in T, UNCHANGED seen, NEW t, pc' = [pc EXCEPT ![h] = t]
      PROVE  OthersLeftAlone(T)'
  BY <1>a, <1>m, <1>t DEF StruckInv, OthersLeftAlone
<1>n. ASSUME h \notin T, NEW t \in {Facts, Voter, Done}, "sig" \notin seen'[h],
             pc' = [pc EXCEPT ![h] = t], \A g \in CPs : g # h => seen'[g] = seen[g]
      PROVE  OthersLeftAlone(T)'
  BY <1>a, <1>n, <1>t DEF StruckInv, OthersLeftAlone
<1>1. CASE TaskScan(h) \/ TaskFacts(h)
  <2>1. PICK t \in {Facts, Voter} : pc' = [pc EXCEPT ![h] = t]
    BY <1>1 DEF TaskScan, TaskFacts, Advance
  <2>2. PICK k \in SUBSET {"sig", "running"} :
          /\ seen' = [seen EXCEPT ![h] = k]
          /\ "sig" \in k => s.sig \/ "sig" \in seen[h]
    BY <1>1, <1>a DEF TaskScan, TaskFacts, s
  <2>3. \A g \in CPs \ T : "sig" \notin seen'[g] /\ pc'[g] \in {Scan, Facts, Voter, Done}
    <3> SUFFICES ASSUME NEW g \in CPs \ T
                 PROVE  "sig" \notin seen'[g] /\ pc'[g] \in {Scan, Facts, Voter, Done}
      OBVIOUS
    <3>1. CASE g = h
      BY <1>a, <1>o, <2>1, <2>2, <3>1
    <3>2. CASE g # h
      BY <1>a, <1>t, <2>1, <2>2, <3>2 DEF StruckInv, OthersLeftAlone
    <3> QED
      BY <3>1, <3>2
  <2>4. UNCHANGED cp
    BY <1>1 DEF TaskScan, TaskFacts
  <2> QED
    BY <1>a, <2>3, <2>4
       DEF OthersLeftAlone, NodesInv, OthersSound, BootFirst, LearnersInTurn, MajoritySound,
           Voters, ClusterExists
<1>2. CASE TaskVoter(h)
  <2>1. PICK t \in {Stop, Done} : /\ pc' = [pc EXCEPT ![h] = t]
                                  /\ t = Stop => "sig" \in seen[h]
    BY <1>2 DEF TaskVoter, Advance, Wedged
  <2>2. UNCHANGED <<cp, seen>>
    BY <1>2 DEF TaskVoter
  <2>3. OthersLeftAlone(T)'
    BY <1>m, <1>n, <1>o, <2>1, <2>2
  <2> QED
    BY <1>a, <2>2, <2>3
       DEF NodesInv, OthersSound, BootFirst, LearnersInTurn, MajoritySound,
           Voters, ClusterExists
<1>3. CASE TaskProbe(h) \/ TaskRemoved(h) \/ TaskPromoted(h) \/ BudgetSpent(h)
  <2>1. \E t : pc' = [pc EXCEPT ![h] = t]
    BY <1>3 DEF TaskProbe, TaskRemoved, TaskPromoted, BudgetSpent, Advance
  <2>2. UNCHANGED <<cp, seen>> /\ h \in T
    BY <1>3, <1>o DEF TaskProbe, TaskRemoved, TaskPromoted, BudgetSpent, At
  <2>3. OthersLeftAlone(T)'
    BY <1>m, <2>1, <2>2
  <2> QED
    BY <1>a, <2>2, <2>3
       DEF NodesInv, OthersSound, BootFirst, LearnersInTurn, MajoritySound,
           Voters, ClusterExists
<1>4. CASE \/ TaskStop(h) \/ TaskAnnotate(h) \/ TaskWipe(h) \/ TaskPin(h) \/ TaskConfig(h)
  <2>1. \E t : pc' = [pc EXCEPT ![h] = t]
    BY <1>4 DEF TaskStop, TaskAnnotate, TaskWipe, TaskPin, TaskConfig, Advance
  <2>2. UNCHANGED seen /\ h \in T
    BY <1>4, <1>o DEF TaskStop, TaskAnnotate, TaskWipe, TaskPin, TaskConfig, At
  <2>3. OthersLeftAlone(T)'
    BY <1>m, <2>1, <2>2
  <2>4. PICK x : /\ cp' = [cp EXCEPT ![h] = x] /\ x.member = s.member
                 /\ x.store = s.store \/ x.store = "none"
    BY <1>4, <1>a DEF TaskStop, TaskAnnotate, TaskWipe, TaskPin, TaskConfig, NodeState, s
  <2>5. /\ x.store = "good" => cp[h].store = "good"
        /\ x.member = "voter" => cp[h].member = "voter"
    BY <2>4 DEF s
  <2> QED
    BY <1>a, <2>2, <2>3, <2>4, <2>5, StruckNode
<1>5. CASE TaskReboot(h)
  <2> DEFINE r == [s EXCEPT !.sig = FALSE, !.svc = "stopped"]
  <2>1. pc' = [pc EXCEPT ![h] = Start] /\ UNCHANGED seen /\ h \in T
    BY <1>5, <1>o DEF TaskReboot, Advance, At
  <2>2. OthersLeftAlone(T)'
    BY <1>m, <2>1
  <2>3. cp' = [cp EXCEPT ![h] = Booted(r)]
    BY <1>5 DEF TaskReboot, Rebooted, s
  <2>4. r \in NodeState /\ r.store = cp[h].store /\ r.member = cp[h].member
    BY <1>a DEF NodeState, s
  <2> HIDE DEF r
  <2> QED
    BY <1>a, <2>1, <2>2, <2>3, <2>4, StruckBoots
<1>6. CASE TaskStart(h)
  <2>1. \E t : pc' = [pc EXCEPT ![h] = t]
    BY <1>6 DEF TaskStart
  <2>2. UNCHANGED seen /\ h \in T
    BY <1>6, <1>o DEF TaskStart, At
  <2>3. OthersLeftAlone(T)'
    BY <1>m, <2>1, <2>2
  <2>4. s.store = cp[h].store /\ s.member = cp[h].member
    BY DEF s
  <2>5. CASE cp' = [cp EXCEPT ![h] = s]
    BY <1>a, <2>2, <2>3, <2>4, <2>5, StruckNode
  <2>6. CASE cp' = [cp EXCEPT ![h] = Booted(s)]
    BY <1>a, <2>2, <2>3, <2>4, <2>6, StruckBoots
  <2> QED
    BY <1>6, <2>5, <2>6 DEF TaskStart, s
<1> QED
  BY <1>1, <1>2, <1>3, <1>4, <1>5, <1>6 DEF Role

\* Plays start with what they have read forgotten, and end.
LEMMA PlayQuorum ==
    ASSUME QuorumInv,
           \/ StartKubecp \/ StartSettle \/ StartRejoin
           \/ RoleEnds \/ CensusPasses \/ CensusFails \/ RunEnds
    PROVE  QuorumInv'
<1>t. PICK T \in SUBSET CPs : StruckInv(T)
  BY DEF QuorumInv
<1>w. WipeInv'
  BY PlayStep, ConstantsAssumption DEF QuorumInv
<1>1. UNCHANGED cp /\ (UNCHANGED budget \/ Spend("fault"))
  BY DEF StartKubecp, StartSettle, StartRejoin, RoleEnds, CensusPasses, CensusFails,
         RunEnds, Enter
<1>2. budget'["hiccup"] = 0 /\ budget'["strike"] = budget["strike"]
  BY <1>1, SpendStrike DEF QuorumInv, WipeInv, TypeOK, Kinds
<1>3. NodesInv(T)' /\ StrikesCounted(T)'
  BY <1>1, <1>2, <1>t
     DEF StruckInv, NodesInv, OthersSound, BootFirst, LearnersInTurn, MajoritySound,
         Voters, ClusterExists, StrikesCounted
<1>4. \/ UNCHANGED <<pc, seen>>
      \/ pc' = [m \in CPs |-> Scan] /\ seen' = [m \in CPs |-> {}]
  BY DEF StartKubecp, StartSettle, StartRejoin, RoleEnds, CensusPasses, CensusFails,
         RunEnds, Enter
<1>5. OthersLeftAlone(T)'
  BY <1>4, <1>t DEF StruckInv, OthersLeftAlone
<1>6. play' # "form" \/ formed' = {}
  BY DEF StartKubecp, StartSettle, StartRejoin, RoleEnds, CensusPasses, CensusFails,
         RunEnds, Enter
<1> QED
  BY <1>2, <1>3, <1>5, <1>6, <1>w DEF QuorumInv, StruckInv, FormedFirst

\* Where fewer nodes are struck than a majority, the bootstrap host is the first of
\* the inventory and only struck nodes log the signature, the cluster never loses its
\* quorum: not to the strikes, nor to nodes healed at once, to reads of the voter
\* condition that fail, to runs killed anywhere, to builds repeated or to nodes that
\* reboot by themselves.
THEOREM QuorumStays ==
    ASSUME 2 * Limit["strike"] < Cardinality(CPs), Limit["hiccup"] = 0,
           \A n \in CPs : BootHost <= n
    PROVE  Spec => []QuorumKept
<1>f. FewStrikes
  BY DEF FewStrikes
<1>1. Init => QuorumInv
  <2> SUFFICES ASSUME Init PROVE QuorumInv
    OBVIOUS
  <2>1. WipeInv /\ budget["hiccup"] = 0 /\ FormedFirst
    BY WipeInit DEF Init, FormedFirst
  <2>2. NodesInv({}) /\ OthersLeftAlone({})
    BY ConstantsAssumption
       DEF Init, NodesInv, OthersSound, Fresh, BootFirst, ClusterExists, LearnersInTurn,
           MajoritySound, OthersLeftAlone
  <2>3. StrikesCounted({})
    BY FS_EmptySet, ConstantsAssumption DEF Init, StrikesCounted, Kinds
  <2> QED
    BY <2>1, <2>2, <2>3 DEF QuorumInv, StruckInv
<1>2. QuorumInv /\ [Next]_vars => QuorumInv'
  <2> SUFFICES ASSUME QuorumInv, [Next]_vars PROVE QuorumInv'
    OBVIOUS
  <2>1. CASE UNCHANGED vars
    <3>1. PICK T \in SUBSET CPs : StruckInv(T)
      BY DEF QuorumInv
    <3>2. StruckInv(T)'
      BY <2>1, <3>1
         DEF vars, StruckInv, NodesInv, OthersSound, BootFirst, LearnersInTurn,
             MajoritySound, Voters, ClusterExists, OthersLeftAlone, StrikesCounted
    <3>3. WipeInv' /\ FormedFirst'
      BY <2>1 DEF vars, QuorumInv, WipeInv, TypeOK, MarkedIsOut, HealedNodesDown, Healing,
                  FormedFirst, ClusterExists
    <3> QED
      BY <2>1, <3>2, <3>3 DEF vars, QuorumInv
  <2>2. CASE Rke2
    BY <1>f, <2>2, Rke2Quorum
  <2>3. CASE \E h \in CPs : Role(h) \/ BudgetSpent(h)
    BY <1>f, <2>3, TaskQuorum
  <2>4. CASE \E n \in CPs : FormNode(n)
    BY <1>f, <2>4, FormQuorum
  <2>5. CASE \/ StartKubecp \/ StartSettle \/ StartRejoin \/ RoleEnds
             \/ CensusPasses \/ CensusFails \/ RunEnds
    BY <2>5, PlayQuorum
  <2> QED
    BY <2>1, <2>2, <2>3, <2>4, <2>5 DEF Next, Ansible
<1>3. QuorumInv => QuorumKept
  <2> SUFFICES ASSUME QuorumInv, ClusterExists PROVE HasQuorum
    BY DEF QuorumKept
  <2>1. PICK T \in SUBSET CPs : StruckInv(T)
    BY DEF QuorumInv
  <2> QED
    BY <2>1, SoundQuorum DEF StruckInv, NodesInv
<1> QED
  BY <1>1, <1>2, <1>3, PTL DEF Spec
=============================================================================
