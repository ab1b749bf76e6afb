-------------------------- MODULE PlacementProofs --------------------------
(* What placement.py guarantees for every set of VMs, hosts, footprints and *)
(* capacities.                                                              *)
EXTENDS Placement, TLAPS

\* Taking what is there from one entry of a function to Nat leaves it one.
LEMMA TakeFrom ==
    ASSUME NEW S, NEW f \in [S -> Nat], NEW x \in S, NEW d \in Nat, d <= f[x]
    PROVE  [f EXCEPT ![x] = @ - d] \in [S -> Nat]
  OBVIOUS

\* Every variable keeps its type: in particular the planner never charges a
\* node outside the candidates and the record only ever names candidates.
THEOREM TypeCorrect == Spec => []TypeOK
<1>1. Init => TypeOK
  <2> SUFFICES ASSUME Init PROVE TypeOK
    OBVIOUS
  <2>1. recordOk \in BOOLEAN /\ dry \in BOOLEAN
    BY Zenon DEF Init
  <2>2. /\ record \in [Vms -> NodeOrNone] /\ placements \in [Vms -> NodeOrNone]
        /\ overrides \in [Vms -> HostOrNone] /\ where \in [Vms -> HostOrNone]
        /\ choices \in [Vms -> HostOrNone]
    BY DEF Init, NodeOrNone, HostOrNone, NoPlacement
  <2>3. /\ capRam \in [Nodes -> Nat] /\ capDisk \in [Nodes -> Nat]
        /\ occRam \in [Nodes -> Nat] /\ occDisk \in [Nodes -> Nat]
    BY DEF Init, Zero
  <2>4. /\ liveRam \in [Hosts -> Nat] /\ liveDisk \in [Hosts -> Nat]
        /\ edits \in 0 .. MaxEdits
    BY ConstantsAssumption DEF Init
  <2>5. /\ selected \in SUBSET Vms /\ online \in SUBSET Hosts
        /\ warm \in SUBSET Vms /\ todo \in SUBSET Vms /\ fresh \in SUBSET Vms
        /\ pc \in {"idle", "plan", "save", "write", "apply"}
        /\ outcome \in {"none", "unreadable", "unreachable", "refused", "done",
                        "interrupted"}
    BY DEF Init
  <2> QED
    BY <2>1, <2>2, <2>3, <2>4, <2>5, Zenon DEF TypeOK
<1>2. TypeOK /\ [Next]_vars => TypeOK'
  <2> SUFFICES ASSUME TypeOK, [Next]_vars PROVE TypeOK'
    OBVIOUS
  <2> USE ConstantsAssumption
  <2>1. ASSUME NEW v \in Vms, EditOverride(v) PROVE TypeOK'
    BY <2>1 DEF EditOverride, TypeOK, HostOrNone, file, pve, plan
  <2>2. CASE EditSelection
    BY <2>2 DEF EditSelection, TypeOK, file, pve, plan
  <2>3. CASE FixRecord
    BY <2>3 DEF FixRecord, TypeOK, config, pve, plan
  <2>4. CASE LoseRecord
    BY <2>4 DEF LoseRecord, TypeOK, config, pve, plan, NoPlacement, NodeOrNone
  <2>5. ASSUME NEW h \in Hosts, HostFlips(h) PROVE TypeOK'
    BY <2>5 DEF HostFlips, TypeOK, file, config, pve, plan
  <2>6. ASSUME NEW v \in Vms, WarmUp(v) PROVE TypeOK'
    <3>1. where[v] \in Hosts
      BY <2>6 DEF WarmUp, TypeOK, HostOrNone
    <3>2. Ram[v] \in Nat /\ Disk[v] \in Nat
      OBVIOUS
    <3>3. liveRam \in [Hosts -> Nat] /\ liveDisk \in [Hosts -> Nat]
      BY DEF TypeOK
    <3>4. [liveRam EXCEPT ![where[v]] = @ - Ram[v]] \in [Hosts -> Nat]
      BY <2>6, <3>1, <3>2, <3>3, TakeFrom DEF WarmUp
    <3>5. [liveDisk EXCEPT ![where[v]] = @ - Disk[v]] \in [Hosts -> Nat]
      BY <2>6, <3>1, <3>2, <3>3, TakeFrom DEF WarmUp
    <3> QED
      BY <2>6, <3>4, <3>5 DEF WarmUp, TypeOK, file, config, plan
  <2>7. CASE StartBuild
    BY <2>7 DEF StartBuild, TypeOK, Zero, NoPlacement, HostOrNone, file, config, pve
  <2>8. CASE StartUnreadable \/ StartUnreachable
    BY <2>8 DEF StartUnreadable, StartUnreachable, TypeOK, file, config, pve, plan
  <2>9. ASSUME NEW v \in Vms, NEW n \in Hosts, Choose(n, v)
        PROVE  /\ choices' \in [Vms -> HostOrNone]
               /\ occRam' \in [Nodes -> Nat]
               /\ occDisk' \in [Nodes -> Nat]
               /\ todo' \in SUBSET Vms
    BY <2>9 DEF Choose, Occupy, TypeOK, HostOrNone
  <2>10. ASSUME NEW v \in Vms, PlanOverride(v) PROVE TypeOK'
    <3>1. overrides[v] \in Hosts
      BY <2>10 DEF PlanOverride, TypeOK, HostOrNone
    <3> QED
      BY <2>9, <2>10, <3>1
      DEF PlanOverride, Choose, TypeOK, file, config, pve, caps
  <2>11. ASSUME NEW v \in Vms, PlanRecorded(v) PROVE TypeOK'
    <3>1. placements[v] \in Hosts
      BY <2>11 DEF PlanRecorded, TypeOK, NodeOrNone
    <3> QED
      BY <2>9, <2>11, <3>1
      DEF PlanRecorded, Choose, TypeOK, file, config, pve, caps
  <2>12. ASSUME NEW v \in Vms, PlanFresh(v) PROVE TypeOK'
    <3>1. PICK n \in Nodes : /\ Choose(n, v)
                             /\ placements' = [placements EXCEPT ![v] = n]
      BY <2>12 DEF PlanFresh
    <3>2. placements' \in [Vms -> NodeOrNone]
      BY <3>1 DEF TypeOK, NodeOrNone
    <3> QED
      BY <2>9, <2>12, <3>1, <3>2
      DEF PlanFresh, Choose, TypeOK, file, config, pve, caps
  <2>13. ASSUME NEW v \in Vms, PlanRefused(v) PROVE TypeOK'
    BY <2>13 DEF PlanRefused, TypeOK, file, config, pve, plan
  <2>14. CASE PlanDone
    BY <2>14 DEF PlanDone, TypeOK, file, config, pve, plan
  <2>15. CASE SaveTruncate
    BY <2>15 DEF SaveTruncate, TypeOK, config, pve, plan
  <2>16. CASE SaveWrite
    BY <2>16 DEF SaveWrite, TypeOK, config, pve, plan
  <2>17. ASSUME NEW v \in Vms, CreateVm(v) PROVE TypeOK'
    BY <2>17 DEF CreateVm, TypeOK, HostOrNone, file, config, plan
  <2>18. ASSUME NEW v \in Vms, DestroyVm(v) PROVE TypeOK'
    <3>1. where[v] \in Hosts
      BY <2>18 DEF DestroyVm, TypeOK, HostOrNone
    <3>2. liveRam' \in [Hosts -> Nat] /\ liveDisk' \in [Hosts -> Nat]
      BY <2>18, <3>1 DEF DestroyVm, TypeOK
    <3> QED
      BY <2>18, <3>2 DEF DestroyVm, TypeOK, HostOrNone, file, config, plan
  <2>19. CASE FinishBuild \/ Interrupt
    BY <2>19 DEF FinishBuild, Interrupt, TypeOK, file, config, pve, plan
  <2>20. CASE UNCHANGED vars
    BY <2>20 DEF vars, TypeOK
  <2> QED
    BY <2>1, <2>2, <2>3, <2>4, <2>5, <2>6, <2>7, <2>8, <2>10, <2>11, <2>12,
       <2>13, <2>14, <2>15, <2>16, <2>17, <2>18, <2>19, <2>20
    DEF Next, Operator, Cluster, Planner, Apply
<1> QED
  BY <1>1, <1>2, PTL DEF Spec

-----------------------------------------------------------------------------
(* The planning loop: FreshFits and Balanced. *)

\* The loop's own invariant.  While planning, the fresh requests are the ones
\* known to neither map, requests not reached have no choice yet, and once a
\* fresh request has been planned only fresh ones with larger keys are left.
LoopInv ==
    pc = "plan" =>
        /\ fresh \subseteq Vms
        /\ \A v \in todo : (v \in fresh) <=> ~IsKnown(v)
        /\ \A v \in todo : choices[v] = None
        /\ \A v \in fresh \ todo : \A w \in todo : w \in fresh /\ v < w

\* What the planner's variables satisfy at all times.
PlanInv == TypeOK /\ LoopInv /\ FreshFits /\ Balanced

\* A step that leaves the plan alone, and does not open a build, keeps PlanInv.
LEMMA PlanUntouched ==
    ASSUME PlanInv, TypeOK', UNCHANGED plan,
           pc' = "plan" => pc = "plan" /\ UNCHANGED overrides
    PROVE  PlanInv'
<1>1. LoopInv'
  BY DEF PlanInv, LoopInv, IsKnown, plan
<1>2. FreshFits'
  BY DEF PlanInv, FreshFits, plan
<1>3. Balanced'
  BY DEF PlanInv, Balanced, LastOnNode, FreeRam, FreeDisk, plan
<1> QED
  BY <1>1, <1>2, <1>3 DEF PlanInv

\* A known request is planned only while every fresh one is still waiting, so
\* no node has yet been picked for a fresh one.
LEMMA KnownKeepsPlanInv ==
    ASSUME PlanInv, TypeOK', NEW v \in Vms, NEW n \in Hosts,
           pc = "plan", IsNext(v), IsKnown(v), Choose(n, v), UNCHANGED placements
    PROVE  PlanInv'
<1> USE ConstantsAssumption
<1>1. v \in todo /\ v \notin fresh
  BY DEF PlanInv, LoopInv, IsNext
<1>2. fresh \subseteq todo
  BY <1>1 DEF PlanInv, LoopInv
<1>3. \A u \in fresh : choices'[u] = None
  BY <1>1, <1>2 DEF PlanInv, LoopInv, TypeOK, Choose
<1>4. LoopInv'
  BY <1>1, <1>2 DEF PlanInv, LoopInv, IsKnown, Choose, config, TypeOK
<1>5. fresh' = fresh
  BY DEF Choose
<1>6. FreshFits'
  BY <1>3, <1>5 DEF FreshFits
<1>7. Balanced'
  BY <1>3, <1>5 DEF Balanced
<1> QED
  BY <1>4, <1>6, <1>7 DEF PlanInv

\* A fresh request is planned on its best node: everything charged there still
\* fits, and the node was the emptiest that could take it.
LEMMA FreshKeepsPlanInv ==
    ASSUME PlanInv, TypeOK', NEW v \in Vms, NEW n \in Nodes,
           pc = "plan", IsNext(v), ~IsKnown(v), BestFit(n, v), Choose(n, v),
           placements' = [placements EXCEPT ![v] = n]
    PROVE  PlanInv'
<1> USE ConstantsAssumption
<1>1. v \in todo /\ v \in fresh /\ todo \subseteq fresh
  BY DEF PlanInv, LoopInv, IsNext
<1>2. \A w \in todo : v <= w
  BY DEF IsNext
<1>3. \A u \in fresh \ todo : u < v
  BY <1>1 DEF PlanInv, LoopInv
<1>4. /\ fresh' = fresh /\ todo' = todo \ {v}
      /\ capRam' = capRam /\ capDisk' = capDisk
      /\ overrides' = overrides /\ pc' = pc
      /\ choices' = [choices EXCEPT ![v] = n]
      /\ occRam' = [occRam EXCEPT ![n] = occRam[n] + Ram[v]]
      /\ occDisk' = [occDisk EXCEPT ![n] = occDisk[n] + Disk[v]]
  BY DEF Choose, Occupy, caps, config
<1>5. /\ Ram[v] \in Nat /\ Disk[v] \in Nat /\ Vms \subseteq Nat
      /\ choices \in [Vms -> HostOrNone]
      /\ todo \subseteq Vms /\ fresh \subseteq Vms
      /\ occRam \in [Nodes -> Nat] /\ occDisk \in [Nodes -> Nat]
      /\ capRam \in [Nodes -> Nat] /\ capDisk \in [Nodes -> Nat]
  BY DEF PlanInv, TypeOK
<1>6. LoopInv'
  <2>1. \A u \in todo' : u \in fresh' /\ ~IsKnown(u)' /\ choices'[u] = None
    BY <1>1, <1>4, <1>5 DEF PlanInv, LoopInv, IsKnown, TypeOK
  <2>2. \A u \in fresh' \ todo' : \A w \in todo' : w \in fresh' /\ u < w
    BY <1>1, <1>2, <1>3, <1>4, <1>5 DEF PlanInv, LoopInv
  <2> QED
    BY <2>1, <2>2, <1>4, <1>5 DEF LoopInv
<1>7. FreshFits'
  <2>1. occRam'[n] <= capRam'[n] /\ occDisk'[n] <= capDisk'[n]
    BY <1>4, <1>5 DEF BestFit, Feasible, FreeRam, FreeDisk
  <2>2. SUFFICES ASSUME NEW u \in fresh, choices'[u] \in Nodes, choices'[u] # n
                 PROVE  /\ occRam'[choices'[u]] <= capRam'[choices'[u]]
                        /\ occDisk'[choices'[u]] <= capDisk'[choices'[u]]
    BY <1>4, <2>1 DEF FreshFits
  <2>3. u # v /\ choices'[u] = choices[u]
    BY <1>4, <1>5, <2>2
  <2> QED
    BY <1>4, <1>5, <2>2, <2>3 DEF PlanInv, FreshFits
<1>8. Balanced'
  <2>1. \A m \in Nodes : /\ FreeRam(m) \in Int /\ FreeDisk(m) \in Int
                         /\ FreeRam(m)' \in Int /\ FreeDisk(m)' \in Int
                         /\ FreeRam(m)' <= FreeRam(m)
                         /\ FreeDisk(m)' <= FreeDisk(m)
    BY <1>4, <1>5 DEF FreeRam, FreeDisk
  <2>2. FreeRam(n)' + Ram[v] = FreeRam(n)
    BY <1>4, <1>5 DEF FreeRam
  <2>3. \A m \in Nodes : FreeRam(m) <= FreeRam(n) \/ FreeDisk(m) < Disk[v]
    BY <1>5, <2>1 DEF BestFit, Feasible, Better
  <2>4. SUFFICES ASSUME NEW u \in fresh, choices'[u] \in Nodes, LastOnNode(u)',
                        NEW m \in Nodes
                 PROVE  \/ FreeRam(m)' <= FreeRam(choices[u])' + Ram[u]
                        \/ FreeDisk(m)' < Disk[u]
    BY <1>4 DEF Balanced
  <2>5. CASE u = v
    <3>1. choices'[u] = n
      BY <1>4, <1>5, <2>5
    <3>2. FreeRam(m)' <= FreeRam(n)' + Ram[v] \/ FreeDisk(m)' < Disk[v]
      BY <1>5, <2>1, <2>2, <2>3
    <3>3. FreeRam(choices[u])' = FreeRam(n)'
      BY <3>1 DEF FreeRam
    <3> QED
      BY <2>5, <3>2, <3>3
  <2>6. CASE u # v
    <3>1. choices'[u] = choices[u]
      BY <1>4, <1>5, <2>6
    <3>2. u < v
      BY <1>3, <2>4, <3>1 DEF PlanInv, LoopInv
    <3>3. choices[u] # n
      <4>1. choices'[v] = n
        BY <1>4, <1>5
      <4>2. choices[u] = n => v <= u
        BY <1>1, <1>4, <2>4, <3>1, <4>1 DEF LastOnNode
      <4> QED
        BY <1>5, <3>2, <4>2
    <3>4. FreeRam(choices[u])' = FreeRam(choices[u])
      BY <1>4, <1>5, <2>4, <3>1, <3>3 DEF FreeRam
    <3>5. LastOnNode(u)
      <4> SUFFICES ASSUME NEW w \in fresh, choices[w] = choices[u] PROVE w <= u
        BY DEF LastOnNode
      <4>1. w # v
        BY <1>1, <2>4, <3>1 DEF PlanInv, LoopInv
      <4>2. choices'[w] = choices'[u]
        BY <1>4, <1>5, <3>1, <4>1
      <4> QED
        BY <1>4, <2>4, <4>2 DEF LastOnNode
    <3>6. FreeRam(m) <= FreeRam(choices[u]) + Ram[u] \/ FreeDisk(m) < Disk[u]
      BY <2>4, <3>1, <3>5 DEF PlanInv, Balanced
    <3>7. FreeRam(choices[u]) \in Int /\ Ram[u] \in Nat /\ Disk[u] \in Nat
      BY <1>5, <2>1, <2>4, <3>1
    <3>8. /\ FreeRam(m)' <= FreeRam(m) /\ FreeDisk(m)' <= FreeDisk(m)
          /\ FreeRam(m)' \in Int /\ FreeDisk(m)' \in Int
          /\ FreeRam(m) \in Int /\ FreeDisk(m) \in Int
      BY <2>1
    <3> HIDE DEF FreeRam, FreeDisk
    <3> QED
      BY <3>4, <3>6, <3>7, <3>8
  <2> QED
    BY <2>5, <2>6
<1> QED
  BY <1>6, <1>7, <1>8 DEF PlanInv

\* PlanInv holds in every reachable state.
THEOREM PlanInvariant == Spec => []PlanInv
<1> USE ConstantsAssumption
<1>1. Init /\ TypeOK => PlanInv
  <2> SUFFICES ASSUME Init, TypeOK PROVE PlanInv
    OBVIOUS
  <2>1. pc # "plan" /\ fresh = {}
    BY DEF Init
  <2> QED
    BY <2>1 DEF PlanInv, LoopInv, FreshFits, Balanced
<1>2. PlanInv /\ TypeOK' /\ [Next]_vars => PlanInv'
  <2> SUFFICES ASSUME PlanInv, TypeOK', [Next]_vars PROVE PlanInv'
    OBVIOUS
  <2>1. CASE Operator
    <3>1. UNCHANGED plan /\ pc' # "plan"
      BY <2>1 DEF Operator, EditOverride, EditSelection, FixRecord, LoseRecord
    <3> QED
      BY <3>1, PlanUntouched
  <2>2. CASE Cluster
    <3>1. UNCHANGED <<plan, pc, overrides>>
      BY <2>2 DEF Cluster, HostFlips, WarmUp, config
    <3> QED
      BY <3>1, PlanUntouched
  <2>3. CASE StartBuild
    <3>1. /\ \A v \in Vms : choices'[v] = None
          /\ todo' = selected /\ overrides' = overrides /\ placements' = record
          /\ fresh' = {v \in selected : overrides[v] = None /\ record[v] = None}
      BY <2>3 DEF StartBuild, NoPlacement, config
    <3>2. selected \subseteq Vms
      BY DEF PlanInv, TypeOK
    <3>3. LoopInv'
      BY <3>1, <3>2 DEF LoopInv, IsKnown
    <3>4. FreshFits' /\ Balanced'
      BY <3>1, <3>2 DEF FreshFits, Balanced
    <3> QED
      BY <3>3, <3>4 DEF PlanInv
  <2>4. CASE StartUnreadable \/ StartUnreachable
    <3>1. UNCHANGED plan /\ pc' # "plan"
      BY <2>4 DEF StartUnreadable, StartUnreachable
    <3> QED
      BY <3>1, PlanUntouched
  <2>5. ASSUME NEW v \in Vms, PlanOverride(v) PROVE PlanInv'
    <3>1. overrides[v] \in Hosts
      BY <2>5 DEF PlanOverride, PlanInv, TypeOK, HostOrNone
    <3> QED
      BY <2>5, <3>1, KnownKeepsPlanInv DEF PlanOverride, IsKnown
  <2>6. ASSUME NEW v \in Vms, PlanRecorded(v) PROVE PlanInv'
    <3>1. placements[v] \in Hosts
      BY <2>6 DEF PlanRecorded, PlanInv, TypeOK, NodeOrNone
    <3> QED
      BY <2>6, <3>1, KnownKeepsPlanInv DEF PlanRecorded, IsKnown
  <2>7. ASSUME NEW v \in Vms, PlanFresh(v) PROVE PlanInv'
    BY <2>7, FreshKeepsPlanInv DEF PlanFresh
  <2>8. ASSUME NEW v \in Vms, PlanRefused(v) PROVE PlanInv'
    <3>1. UNCHANGED plan /\ pc' # "plan"
      BY <2>8 DEF PlanRefused
    <3> QED
      BY <3>1, PlanUntouched
  <2>9. CASE PlanDone \/ SaveTruncate \/ SaveWrite
    <3>1. UNCHANGED plan /\ pc' # "plan"
      BY <2>9 DEF PlanDone, SaveTruncate, SaveWrite
    <3> QED
      BY <3>1, PlanUntouched
  <2>10. CASE Apply
    <3>1. UNCHANGED plan /\ pc' # "plan"
      BY <2>10 DEF Apply, CreateVm, DestroyVm, FinishBuild, Interrupt
    <3> QED
      BY <3>1, PlanUntouched
  <2>11. CASE UNCHANGED vars
    <3>1. UNCHANGED <<plan, pc, overrides>>
      BY <2>11 DEF vars, plan
    <3> QED
      BY <3>1, PlanUntouched
  <2> QED
    BY <2>1, <2>2, <2>3, <2>4, <2>5, <2>6, <2>7, <2>8, <2>9, <2>10, <2>11
    DEF Next, Planner
<1> QED
  BY <1>1, <1>2, TypeCorrect, PTL DEF Spec

\* Whatever the footprints and the headroom, a node that _plan picks for a new
\* VM holds everything the build charges to it.
THEOREM FreshPicksFit == Spec => []FreshFits
<1>1. PlanInv => FreshFits
  BY DEF PlanInv
<1> QED
  BY <1>1, PlanInvariant, PTL

\* A burst of new VMs is spread: the greedy choice leaves no candidate with more
\* free RAM than the last VM found on its own node.
THEOREM BurstsSpread == Spec => []Balanced
<1>1. PlanInv => Balanced
  BY DEF PlanInv
<1> QED
  BY <1>1, PlanInvariant, PTL

-----------------------------------------------------------------------------
(* Stability across builds: RecordedWhereItIs and StaysPut. *)

\* Where a planned VM goes: its override, or else its record entry.
Planned(v) == IF overrides[v] # None THEN overrides[v] ELSE placements[v]

\* During a build the record in memory extends the file by fresh VMs only, which
\* the deployment set has and no override pins; every planned request has the node its override or entry names, and once
\* Pulumi applies a real build the file holds all of it.
BuildInv ==
    pc # "idle" =>
        /\ \A v \in Vms : record[v] # None => placements[v] = record[v]
        /\ \A v \in Vms \ fresh : placements[v] = record[v]
        /\ \A v \in selected \ todo : choices[v] = Planned(v)
        /\ \A v \in fresh : v \in selected /\ overrides[v] = None
        /\ pc # "plan" => todo = {}
        /\ pc = "apply" /\ ~dry => placements = record

StableInv == PlanInv /\ BuildInv /\ RecordedWhereItIs

\* A step outside the build and the configuration keeps StableInv.
LEMMA StableUntouched ==
    ASSUME StableInv, PlanInv', UNCHANGED <<record, overrides, where, selected>>,
           \/ pc' = "idle"
           \/ UNCHANGED <<pc, dry, todo, fresh, choices, placements>>
    PROVE  StableInv'
<1>1. BuildInv'
  BY DEF StableInv, BuildInv, Planned
<1>2. RecordedWhereItIs'
  BY DEF StableInv, RecordedWhereItIs
<1> QED
  BY <1>1, <1>2 DEF StableInv

\* One request planned, on the node its override or its (new) entry names.
LEMMA PlanKeepsStable ==
    ASSUME StableInv, PlanInv', NEW v \in Vms, NEW n \in Hosts,
           pc = "plan", v \in todo, Choose(n, v), n = Planned(v)',
           \/ UNCHANGED placements
           \/ /\ ~IsKnown(v)
              /\ placements' = [placements EXCEPT ![v] = n]
    PROVE  StableInv'
<1> USE ConstantsAssumption
<1>1. /\ fresh' = fresh /\ todo' = todo \ {v} /\ pc' = pc /\ dry' = dry
      /\ record' = record /\ overrides' = overrides /\ selected' = selected
      /\ where' = where /\ choices' = [choices EXCEPT ![v] = n]
  BY DEF Choose, file, config, pve
<1>2. choices \in [Vms -> HostOrNone] /\ placements \in [Vms -> NodeOrNone]
      /\ selected \subseteq Vms
  BY DEF StableInv, PlanInv, TypeOK
<1>3. \A u \in Vms : u # v => placements'[u] = placements[u]
  BY <1>2
<1>4. record[v] # None => placements'[v] = record[v]
  BY <1>2 DEF StableInv, BuildInv, IsKnown
<1>5. v \notin fresh => placements'[v] = placements[v]
  BY DEF StableInv, PlanInv, LoopInv
<1>6. \A u \in Vms : record'[u] # None => placements'[u] = record'[u]
  BY <1>1, <1>3, <1>4 DEF StableInv, BuildInv
<1>7. \A u \in Vms \ fresh' : placements'[u] = record'[u]
  BY <1>1, <1>3, <1>5 DEF StableInv, BuildInv
<1>8. \A u \in selected' \ todo' : choices'[u] = Planned(u)'
  <2> SUFFICES ASSUME NEW u \in selected \ (todo \ {v})
               PROVE  choices'[u] = Planned(u)'
    BY <1>1
  <2>1. CASE u = v
    BY <1>1, <1>2, <2>1
  <2>2. CASE u # v
    BY <1>1, <1>2, <1>3, <2>2 DEF StableInv, BuildInv, Planned
  <2> QED
    BY <2>1, <2>2
<1>9. BuildInv'
  BY <1>1, <1>6, <1>7, <1>8 DEF BuildInv, StableInv
<1>10. RecordedWhereItIs'
  BY <1>1 DEF StableInv, RecordedWhereItIs
<1> QED
  BY <1>9, <1>10 DEF StableInv

\* StableInv is inductive as long as pins are not dropped and the record file
\* is not lost.
LEMMA StableStep ==
    ASSUME ~MayUnpin, ~MayLoseRecord, StableInv, PlanInv', [Next]_vars
    PROVE  StableInv'
<1> USE ConstantsAssumption
<1>0. TypeOK
  BY DEF StableInv, PlanInv
<1>1. ASSUME NEW v \in Vms, EditOverride(v) PROVE StableInv'
  <2>1. /\ pc' = "idle" /\ record' = record /\ where' = where
        /\ \A u \in Vms : overrides'[u] = None => overrides[u] = None
    BY <1>0, <1>1 DEF EditOverride, TypeOK, file, pve
  <2> QED
    BY <2>1 DEF StableInv, BuildInv, RecordedWhereItIs
<1>2. CASE EditSelection \/ FixRecord \/ LoseRecord
  <2>1. pc' = "idle" /\ UNCHANGED <<record, where, overrides>>
    BY <1>2 DEF EditSelection, FixRecord, LoseRecord, file, pve, config
  <2> QED
    BY <2>1 DEF StableInv, BuildInv, RecordedWhereItIs
<1>3. CASE Cluster
  <2>1. UNCHANGED <<record, overrides, where, selected>>
    BY <1>3 DEF Cluster, HostFlips, WarmUp, file, config, pve
  <2>2. UNCHANGED <<pc, dry, todo, fresh, choices, placements>>
    BY <1>3 DEF Cluster, HostFlips, WarmUp, plan
  <2> QED
    BY <2>1, <2>2, StableUntouched
<1>4. CASE StartBuild
  <2>1. /\ UNCHANGED <<record, overrides, where, selected>>
        /\ pc' = "plan" /\ placements' = record /\ todo' = selected
        /\ \A v \in fresh' : v \in selected /\ overrides[v] = None
    BY <1>4 DEF StartBuild, file, config, pve
  <2> QED
    BY <2>1 DEF StableInv, BuildInv, RecordedWhereItIs
<1>5. CASE StartUnreadable \/ StartUnreachable
  <2>1. UNCHANGED <<record, overrides, where, selected>> /\ pc' = "idle"
    BY <1>5 DEF StartUnreadable, StartUnreachable, file, config, pve
  <2> QED
    BY <2>1, StableUntouched
<1>6. ASSUME NEW v \in Vms, PlanOverride(v) PROVE StableInv'
  <2>1. overrides[v] \in Hosts /\ overrides[v] = Planned(v)'
    BY <1>0, <1>6 DEF PlanOverride, Choose, Planned, TypeOK, HostOrNone, config
  <2> QED
    BY <1>6, <2>1, PlanKeepsStable DEF PlanOverride, IsNext
<1>7. ASSUME NEW v \in Vms, PlanRecorded(v) PROVE StableInv'
  <2>1. placements[v] \in Hosts /\ placements[v] = Planned(v)'
    BY <1>0, <1>7 DEF PlanRecorded, Choose, Planned, TypeOK, NodeOrNone, config
  <2> QED
    BY <1>7, <2>1, PlanKeepsStable DEF PlanRecorded, IsNext
<1>8. ASSUME NEW v \in Vms, PlanFresh(v) PROVE StableInv'
  <2>1. PICK n \in Nodes : /\ Choose(n, v)
                           /\ placements' = [placements EXCEPT ![v] = n]
    BY <1>8 DEF PlanFresh
  <2>2. n \in Hosts /\ n = Planned(v)'
    BY <1>0, <1>8, <2>1 DEF PlanFresh, IsKnown, Choose, Planned, TypeOK, config
  <2> QED
    BY <1>8, <2>1, <2>2, PlanKeepsStable DEF PlanFresh, IsNext
<1>9. ASSUME NEW v \in Vms, PlanRefused(v) PROVE StableInv'
  <2>1. UNCHANGED <<record, overrides, where, selected>> /\ pc' = "idle"
    BY <1>9 DEF PlanRefused, file, config, pve
  <2> QED
    BY <2>1, StableUntouched
<1>10. CASE PlanDone
  <2>1. /\ UNCHANGED <<record, overrides, where, selected, plan, dry>>
        /\ pc = "plan" /\ todo = {} /\ pc' # "plan"
        /\ pc' = "apply" /\ ~dry => fresh = {}
    BY <1>10 DEF PlanDone, file, config, pve
  <2>2. UNCHANGED <<placements, todo, fresh, choices>>
    BY <2>1 DEF plan
  <2>3. fresh = {} => placements = record
    <3> SUFFICES ASSUME fresh = {} PROVE placements = record
      OBVIOUS
    <3>1. \A v \in Vms : placements[v] = record[v]
      BY <2>1 DEF StableInv, BuildInv
    <3>2. placements \in [Vms -> NodeOrNone] /\ record \in [Vms -> NodeOrNone]
      BY <1>0 DEF TypeOK
    <3> HIDE DEF NodeOrNone
    <3> QED
      BY ONLY <3>1, <3>2, SMT
  <2>4. BuildInv'
    BY <2>1, <2>2, <2>3 DEF StableInv, BuildInv, Planned
  <2> QED
    BY <2>1, <2>4 DEF StableInv, RecordedWhereItIs
<1>11. CASE SaveTruncate
  <2>1. /\ UNCHANGED <<record, overrides, where, selected, plan, dry>>
        /\ pc = "save" /\ pc' = "write"
    BY <1>11 DEF SaveTruncate, config, pve
  <2>2. UNCHANGED <<placements, todo, fresh, choices>>
    BY <2>1 DEF plan
  <2>3. BuildInv'
    BY <2>1, <2>2 DEF StableInv, BuildInv, Planned
  <2> QED
    BY <2>1, <2>3 DEF StableInv, RecordedWhereItIs
<1>12. CASE SaveWrite
  <2>1. /\ UNCHANGED <<overrides, where, selected, plan, dry>>
        /\ pc = "write" /\ pc' = "apply" /\ record' = placements
    BY <1>12 DEF SaveWrite, config, pve
  <2>2. UNCHANGED <<placements, todo, fresh, choices>>
    BY <2>1 DEF plan
  <2>3. BuildInv'
    BY <2>1, <2>2 DEF StableInv, BuildInv, Planned
  <2>4. RecordedWhereItIs'
    BY <2>1 DEF StableInv, BuildInv, RecordedWhereItIs
  <2> QED
    BY <2>3, <2>4 DEF StableInv
<1>13. ASSUME NEW v \in Vms, CreateVm(v) PROVE StableInv'
  <2>1. /\ UNCHANGED <<record, overrides, selected, plan, pc, dry>>
        /\ pc = "apply" /\ ~dry /\ v \in selected
        /\ where' = [where EXCEPT ![v] = choices[v]]
    BY <1>13 DEF CreateVm, file, config
  <2>2. UNCHANGED <<placements, todo, fresh, choices>>
    BY <2>1 DEF plan
  <2>3. BuildInv'
    BY <2>1, <2>2 DEF StableInv, BuildInv, Planned
  <2>4. overrides[v] = None => choices[v] = record[v]
    BY <2>1 DEF StableInv, BuildInv, Planned
  <2>5. RecordedWhereItIs'
    BY <1>0, <2>1, <2>4 DEF StableInv, RecordedWhereItIs, TypeOK
  <2> QED
    BY <2>3, <2>5 DEF StableInv
<1>14. ASSUME NEW v \in Vms, DestroyVm(v) PROVE StableInv'
  <2>1. /\ UNCHANGED <<record, overrides, selected, plan, pc, dry>>
        /\ where' = [where EXCEPT ![v] = None]
    BY <1>14 DEF DestroyVm, file, config
  <2>2. UNCHANGED <<placements, todo, fresh, choices>>
    BY <2>1 DEF plan
  <2>3. BuildInv'
    BY <2>1, <2>2 DEF StableInv, BuildInv, Planned
  <2>4. RecordedWhereItIs'
    BY <1>0, <2>1 DEF StableInv, RecordedWhereItIs, TypeOK
  <2> QED
    BY <2>3, <2>4 DEF StableInv
<1>15. CASE FinishBuild \/ Interrupt
  <2>1. UNCHANGED <<record, overrides, where, selected>> /\ pc' = "idle"
    BY <1>15 DEF FinishBuild, Interrupt, file, config, pve
  <2> QED
    BY <2>1, StableUntouched
<1>16. CASE UNCHANGED vars
  <2>1. UNCHANGED <<record, overrides, where, selected>>
        /\ UNCHANGED <<pc, dry, todo, fresh, choices, placements>>
    BY <1>16 DEF vars
  <2> QED
    BY <2>1, StableUntouched
<1> QED
  BY <1>1, <1>2, <1>3, <1>4, <1>5, <1>6, <1>7, <1>8, <1>9, <1>10, <1>11, <1>12,
     <1>13, <1>14, <1>15, <1>16
  DEF Next, Operator, Planner, Apply

\* Unless pins are dropped or the record file is lost, every existing VM without
\* an override is recorded on the node it runs on, whatever is interrupted.
THEOREM RecordIsTrue ==
    ASSUME ~MayUnpin, ~MayLoseRecord
    PROVE  Spec => []RecordedWhereItIs
<1>1. Init /\ PlanInv => StableInv
  BY DEF Init, StableInv, BuildInv, RecordedWhereItIs, NoPlacement
<1>2. StableInv /\ PlanInv' /\ [Next]_vars => StableInv'
  BY StableStep
<1>3. StableInv => RecordedWhereItIs
  BY DEF StableInv
<1> QED
  BY <1>1, <1>2, <1>3, PlanInvariant, PTL DEF Spec

\* Under the same conditions no build destroys a VM it means to keep, unless an
\* override names another node for it.
THEOREM NeverReplaced ==
    ASSUME ~MayUnpin, ~MayLoseRecord
    PROVE  Spec => StaysPut
<1> USE ConstantsAssumption
<1> DEFINE Kept == \A v \in selected :
                     where[v] # None /\ where'[v] = None =>
                         overrides[v] # None /\ overrides[v] # where[v]
<1>1. Init /\ PlanInv => StableInv
  BY DEF Init, StableInv, BuildInv, RecordedWhereItIs, NoPlacement
<1>2. StableInv /\ PlanInv' /\ [Next]_vars => StableInv'
  BY StableStep
<1>3. StableInv /\ [Next]_vars => Kept
  <2> SUFFICES ASSUME StableInv, [Next]_vars, NEW v \in selected,
                      where[v] # None, where'[v] = None
               PROVE  overrides[v] # None /\ overrides[v] # where[v]
    OBVIOUS
  <2>0. TypeOK /\ v \in Vms
    BY DEF StableInv, PlanInv, TypeOK
  <2>1. CASE UNCHANGED where
    BY <2>1
  <2>2. ASSUME NEW u \in Vms, CreateVm(u) PROVE FALSE
    BY <2>0, <2>2 DEF CreateVm, TypeOK
  <2>3. ASSUME NEW u \in Vms, DestroyVm(u)
        PROVE  overrides[v] # None /\ overrides[v] # where[v]
    <3>1. u = v
      BY <2>0, <2>3 DEF DestroyVm, TypeOK
    <3>2. pc = "apply" /\ ~dry /\ where[v] # choices[v]
      BY <2>3, <3>1 DEF DestroyVm
    <3>3. choices[v] = Planned(v) /\ placements = record
      BY <2>0, <3>2 DEF StableInv, BuildInv
    <3> QED
      BY <2>0, <3>2, <3>3 DEF StableInv, RecordedWhereItIs, Planned
  <2>4. UNCHANGED where \/ \E u \in Vms : CreateVm(u) \/ DestroyVm(u)
    BY DEF Next, vars, pve, plan, Operator, EditOverride, EditSelection, FixRecord,
           LoseRecord, Cluster, HostFlips, WarmUp, Planner, StartBuild,
           StartUnreadable, StartUnreachable, PlanOverride, PlanRecorded,
           PlanFresh, PlanRefused, Choose, PlanDone, SaveTruncate, SaveWrite,
           Apply, FinishBuild, Interrupt
  <2> QED
    BY <2>1, <2>2, <2>3, <2>4
<1>4. Spec => []StableInv
  BY <1>1, <1>2, PlanInvariant, PTL DEF Spec
<1>5. StableInv /\ [Next]_vars => [Kept]_vars
  BY <1>3
<1> QED
  BY <1>4, <1>5, PTL DEF Spec, StaysPut

-----------------------------------------------------------------------------
(* Placement implements VmHome. *)

\* Only a save changes the record, and only for requests that had no entry and
\* no pin when the build began: they do not exist yet.
LEMMA SaveSettles ==
    ASSUME ~MayUnpin, ~MayLoseRecord, StableInv, SaveWrite
    PROVE  Homes!Settle
<1>0. TypeOK
  BY DEF StableInv, PlanInv
<1>1. /\ UNCHANGED <<overrides, where, selected>>
      /\ pc = "write" /\ record' = placements
  BY DEF SaveWrite, config, pve
<1>2. placements \in [Vms -> Hosts \cup {None}]
  BY <1>0, ConstantsAssumption DEF TypeOK, NodeOrNone
<1>3. ASSUME NEW v \in Vms, record'[v] # record[v]
      PROVE  /\ record[v] = None /\ overrides[v] = None /\ where[v] = None
             /\ v \in selected
  <2>1. v \in fresh
    BY <1>1, <1>3 DEF StableInv, BuildInv
  <2>2. record[v] = None /\ overrides[v] = None /\ v \in selected
    BY <1>1, <1>3, <2>1 DEF StableInv, BuildInv
  <2> QED
    BY <2>2 DEF StableInv, RecordedWhereItIs
<1> QED
  BY <1>1, <1>2, <1>3 DEF Homes!Settle

\* Pulumi creates and removes VMs by the choices, which are the pins and homes.
LEMMA AppliesHomes ==
    ASSUME StableInv, NEW v \in Vms, CreateVm(v) \/ DestroyVm(v)
    PROVE  Homes!Create(v) \/ Homes!Remove(v)
<1>0. TypeOK
  BY DEF StableInv, PlanInv
<1>1. /\ pc = "apply" /\ ~dry
      /\ UNCHANGED <<record, overrides, selected>>
  BY DEF CreateVm, DestroyVm, file, config
<1>2. v \in selected => choices[v] = Homes!Target(v)
  BY <1>1 DEF StableInv, BuildInv, Planned, Homes!Target
<1>3. CASE CreateVm(v)
  <2>1. choices[v] # None
    BY <1>0, <1>3, ConstantsAssumption DEF CreateVm, TypeOK
  <2> QED
    BY <1>1, <1>2, <1>3, <2>1 DEF CreateVm, Homes!Create
<1>4. CASE DestroyVm(v)
  BY <1>1, <1>2, <1>4 DEF DestroyVm, Homes!Remove
<1> QED
  BY <1>3, <1>4

\* Every other step leaves the estate alone, or is an edit of the configuration.
LEMMA StepsToHomes ==
    ASSUME ~MayUnpin, ~MayLoseRecord, StableInv, [Next]_vars
    PROVE  [Homes!Next]_(Homes!estate)
<1>0. TypeOK
  BY DEF StableInv, PlanInv
<1> DEFINE Still == UNCHANGED <<record, overrides, selected, where>>
<1>1. ASSUME NEW v \in Vms, EditOverride(v) PROVE Homes!Pin(v)
  <2>1. UNCHANGED <<record, selected, where>>
    BY <1>1 DEF EditOverride, file, pve
  <2>2. \E h \in Hosts : overrides' = [overrides EXCEPT ![v] = h]
    BY <1>1 DEF EditOverride, HostOrNone
  <2> QED
    BY <2>1, <2>2 DEF Homes!Pin
<1>2. EditSelection => Homes!Want
  BY DEF EditSelection, Homes!Want, file, pve
<1>3. FixRecord \/ LoseRecord \/ Cluster => Still
  BY DEF FixRecord, LoseRecord, Cluster, HostFlips, WarmUp, file, config, pve
<1>4. StartBuild \/ StartUnreadable \/ StartUnreachable \/ PlanDone => Still
  BY DEF StartBuild, StartUnreadable, StartUnreachable, PlanDone, file, config, pve
<1>5. SaveTruncate \/ FinishBuild \/ Interrupt \/ UNCHANGED vars => Still
  BY DEF SaveTruncate, FinishBuild, Interrupt, file, config, pve, vars
<1>6. ASSUME NEW v \in Vms,
             PlanOverride(v) \/ PlanRecorded(v) \/ PlanFresh(v) \/ PlanRefused(v)
      PROVE  Still
  BY <1>6 DEF PlanOverride, PlanRecorded, PlanFresh, PlanRefused, Choose, file,
              config, pve
<1>7. SaveWrite => Homes!Settle
  BY SaveSettles
<1>8. ASSUME NEW v \in Vms, CreateVm(v) \/ DestroyVm(v)
      PROVE  Homes!Create(v) \/ Homes!Remove(v)
  BY <1>8, AppliesHomes
<1>9. CASE Still
  BY <1>9 DEF Homes!estate
<1>10. CASE Homes!Want \/ Homes!Settle
  BY <1>10 DEF Homes!Next
<1>11. ASSUME NEW v \in Vms, Homes!Pin(v) \/ Homes!Create(v) \/ Homes!Remove(v)
       PROVE  Homes!Next
  BY <1>11 DEF Homes!Next
<1> HIDE DEF Still
<1> QED
  BY <1>1, <1>2, <1>3, <1>4, <1>5, <1>6, <1>7, <1>8, <1>9, <1>10, <1>11
  DEF Next, Operator, Planner, Apply

\* Unless pins are dropped or the record file is lost, the planner, the record
\* file and Pulumi implement VmHome: one home per VM, given before it exists,
\* and no VM created or removed against its pin or home.
THEOREM ImplementsVmHome ==
    ASSUME ~MayUnpin, ~MayLoseRecord
    PROVE  Spec => KeepsHomes
<1>1. Init => Homes!Init
  BY DEF Init, Homes!Init, NoPlacement, Homes!Nowhere
<1>2. Init /\ PlanInv => StableInv
  BY DEF Init, StableInv, BuildInv, RecordedWhereItIs, NoPlacement
<1>3. StableInv /\ PlanInv' /\ [Next]_vars => StableInv'
  BY StableStep
<1>4. StableInv /\ [Next]_vars => [Homes!Next]_(Homes!estate)
  BY StepsToHomes
<1> QED
  BY <1>1, <1>2, <1>3, <1>4, PlanInvariant, PTL DEF Spec, KeepsHomes, Homes!Spec
=============================================================================
