-------------------------- MODULE PveCleanupProofs --------------------------
(* The orphan sweep beside the creations of an `up', for any nodes, VMIDs,   *)
(* datastores and number of disturbances: what it logs as removed is gone,   *)
(* and one `up' at a time never takes a volume from a VM.                    *)
EXTENDS PveCleanup, TLAPS

VmState == [node : Nodes \cup {None}, on : BOOLEAN]
QmState == [node : Nodes \cup {None}, disk : BOOLEAN, own : BOOLEAN]

\* The state of the sweep of process p before and after.
LEMMA GoFacts ==
    ASSUME TypeOK, NEW p \in Procs, NEW new \in SweepState, Go(p, new)
    PROVE  /\ sweep' \in [Procs -> SweepState] /\ sweep'[p] = new
           /\ \A q \in Procs : q # p => sweep'[q] = sweep[q]
  BY DEF TypeOK, Go

\* The record updates of the sweep, field by field.
LEMMA SweepFields ==
    ASSUME NEW s \in SweepState
    PROVE  /\ s.pc \in {"idle", "auth", "vms", "content", "api", "ssh", "report",
                        "apply", "failing"}
           /\ s.nodes \in SUBSET Nodes /\ s.existing \in SUBSET Vmids
           /\ s.stores \in SUBSET Stores /\ s.orphans \in SUBSET Volumes
           /\ s.todo \in SUBSET Volumes /\ s.errors \in SUBSET Volumes
  BY DEF SweepState

LEMMA SpendFacts ==
    ASSUME TypeOK, NEW k \in Disturbances, Spend(k)
    PROVE  /\ budget' \in [Disturbances -> Nat]
           /\ budget[k] > 0 /\ budget'[k] = budget[k] - 1
           /\ \A j \in Disturbances : j # k => budget'[j] = budget[j]
  BY DEF TypeOK, Spend

-----------------------------------------------------------------------------
(* What a step of a sweep may do. *)

\* The tail of a sweep: nothing of what it found is used any more.
Leaves(p) == sweep'[p].pc \in {"vms", "apply", "idle"}

Lists(p) ==
    /\ sweep'[p].pc = "content" /\ sweep'[p].nodes = sweep[p].nodes
    /\ sweep'[p].orphans = {} /\ sweep'[p].errors = {}
    /\ sweep'[p].existing = {v \in Vmids : vm[v].node = Current(p)}

Reads(p) ==
    /\ sweep[p].pc = "content" /\ sweep'[p].pc = "content"
    /\ sweep'[p].nodes = sweep[p].nodes /\ sweep'[p].existing = sweep[p].existing
    /\ sweep'[p].errors = sweep[p].errors
    /\ \A o \in sweep'[p].orphans :
          \/ o \in sweep[p].orphans
          \/ o[1] = Current(p) /\ o[3] \notin sweep[p].existing

Collects(p) ==
    /\ sweep[p].pc = "content" /\ sweep'[p].pc \in {"api", "report"}
    /\ sweep'[p].orphans = sweep[p].orphans /\ sweep'[p].todo = sweep[p].orphans
    /\ sweep'[p].errors = sweep[p].errors
    /\ sweep'[p].pc = "report" => sweep[p].orphans = {}

Handles(p) ==
    /\ sweep[p].pc \in {"api", "ssh"} /\ sweep'[p].pc = sweep[p].pc
    /\ sweep'[p].orphans = sweep[p].orphans
    /\ \E o \in sweep[p].todo :
          /\ sweep'[p].todo = sweep[p].todo \ {o}
          /\ vols' \in {vols, vols \ {o}}
          /\ \/ sweep'[p].errors = sweep[p].errors \cup {o}
             \/ sweep'[p].errors = sweep[p].errors \ {o} /\ o \notin vols'

Falls(p) ==
    /\ sweep[p].pc = "api" /\ sweep'[p].pc = "ssh" /\ sweep[p].todo = {}
    /\ sweep'[p].orphans = sweep[p].orphans
    /\ sweep'[p].todo = sweep[p].errors /\ sweep'[p].errors = sweep[p].errors

\* The fallback is unavailable, or a phase is over.
Stops(p) ==
    /\ \/ sweep[p].pc = "ssh" /\ sweep'[p].pc = "ssh"
       \/ sweep[p].pc \in {"api", "ssh"} /\ sweep'[p].pc = "report" /\ sweep[p].todo = {}
    /\ sweep'[p].orphans = sweep[p].orphans
    /\ sweep'[p].todo = {} /\ sweep'[p].errors = sweep[p].errors

Moves(p) == \/ Leaves(p) \/ Lists(p) \/ Reads(p) \/ Collects(p) \/ Handles(p)
            \/ Falls(p) \/ Stops(p)

\* Which volumes and pending deletes a step of p may touch.
Touches(p) ==
    /\ UNCHANGED <<vm, qm, want>>
    /\ vols' \subseteq vols
    /\ vols' # vols => /\ sweep[p].pc \in {"api", "ssh"} /\ Handles(p)
    /\ deletes' \in SUBSET Volumes
    /\ deletes' # deletes => ApiDeletes # {} /\ budget["slow"] > 0

BudgetFalls ==
    /\ budget' \in [Disturbances -> Nat]
    /\ \A k \in Disturbances : budget'[k] <= budget[k]

LEMMA SweepMoves ==
    ASSUME TypeOK, NEW p \in Procs, Sweep(p)
    PROVE  /\ sweep' \in [Procs -> SweepState]
           /\ \A q \in Procs : q # p => sweep'[q] = sweep[q]
           /\ Moves(p) /\ Touches(p) /\ BudgetFalls
           /\ budget'["kill"] = budget["kill"]
<1> DEFINE s == sweep[p]
<1>1. s \in SweepState /\ budget \in [Disturbances -> Nat] /\ vols \in SUBSET Volumes
      /\ deletes \in SUBSET Volumes
  BY DEF TypeOK
<1>k. Disturbances = {"fault", "slow", "crash", "kill", "nopexpect", "nopassword",
                      "cli", "backup"}
  BY DEF Disturbances
<1>2. UNCHANGED budget => BudgetFalls /\ budget'["kill"] = budget["kill"]
  BY <1>1 DEF BudgetFalls
<1>3. ASSUME NEW k \in Disturbances, Spend(k), k # "kill"
      PROVE  BudgetFalls /\ budget'["kill"] = budget["kill"]
  <2>1. /\ budget' \in [Disturbances -> Nat]
        /\ budget[k] > 0 /\ budget'[k] = budget[k] - 1
        /\ \A j \in Disturbances : j # k => budget'[j] = budget[j]
    BY <1>3, SpendFacts
  <2>2. \A j \in Disturbances : budget[j] \in Nat
    BY <1>1
  <2> QED
    BY <1>3, <1>k, <2>1, <2>2 DEF BudgetFalls
<1>4. ASSUME NEW new \in SweepState, Go(p, new)
      PROVE  /\ sweep' \in [Procs -> SweepState] /\ sweep'[p] = new
             /\ \A q \in Procs : q # p => sweep'[q] = sweep[q]
  BY <1>4, GoFacts
<1>5. Left(p) \in SweepState /\ Left(p).pc \in {"apply", "idle"}
  BY <1>1 DEF Left, SweepState
<1> HIDE DEF s
<1>6. CASE Auth(p)
  <2>1. PICK new \in SweepState : Go(p, new) /\ new.pc \in {"vms", "apply", "idle"}
    <3> DEFINE new == [s EXCEPT !.pc = "vms", !.nodes = Nodes]
    <3>1. new \in SweepState /\ new.pc = "vms"
      BY <1>1 DEF SweepState
    <3>2. Go(p, new) \/ Go(p, Left(p))
      BY <1>6 DEF Auth, s
    <3> HIDE DEF new
    <3> QED
      BY <1>5, <3>1, <3>2
  <2>2. UNCHANGED budget \/ Spend("fault")
    BY <1>6 DEF Auth
  <2> QED
    BY <1>1, <1>2, <1>3, <1>4, <1>6, <1>k, <2>1, <2>2 DEF Auth, pve, Moves, Leaves, Touches
<1>7. CASE ListVms(p)
  <2>1. PICK new \in SweepState :
           /\ Go(p, new) /\ new.pc = "content" /\ new.nodes = s.nodes
           /\ new.orphans = {} /\ new.errors = {}
           /\ new.existing = {v \in Vmids : vm[v].node = Current(p)}
    <3> DEFINE st == IF p = "up" THEN Stores ELSE CliStores
               ex == {v \in Vmids : vm[v].node = Current(p)}
               new == [s EXCEPT !.pc = "content", !.existing = ex, !.stores = st,
                                !.orphans = {}, !.errors = {}]
    <3>1. Go(p, new)
      BY <1>7, Zenon DEF ListVms, s
    <3>2. st \in SUBSET Stores /\ ex \in SUBSET Vmids
      BY ConstantsAssumption
    <3> HIDE DEF st, ex
    <3>3. /\ new \in SweepState /\ new.pc = "content" /\ new.nodes = s.nodes
          /\ new.orphans = {} /\ new.errors = {} /\ new.existing = ex
      BY <1>1, <3>2 DEF SweepState
    <3> HIDE DEF new
    <3> QED
      BY <3>1, <3>3 DEF ex
  <2> QED
    BY <1>1, <1>2, <1>4, <1>7, <2>1 DEF ListVms, pve, Moves, Lists, Touches, s
<1>8. CASE ListVmsFails(p)
  BY <1>1, <1>3, <1>4, <1>5, <1>8, <1>k DEF ListVmsFails, pve, Moves, Leaves, Touches
<1>9. CASE ReadContent(p)
  <2>1. PICK d \in s.stores, ok \in BOOLEAN :
           /\ IF ok THEN UNCHANGED budget ELSE Spend("fault")
           /\ Go(p, [s EXCEPT !.stores = @ \ {d},
                              !.orphans = IF ok THEN @ \cup Unlisted(p, d) ELSE @])
    BY <1>9 DEF ReadContent, s
  <2>2. BudgetFalls /\ budget'["kill"] = budget["kill"]
    BY <1>2, <1>3, <1>k, <2>1
  <2>3. PICK os \in SUBSET Volumes :
           /\ os \subseteq s.orphans \cup Unlisted(p, d)
           /\ Go(p, [s EXCEPT !.stores = @ \ {d}, !.orphans = os])
    <3>1. CASE ok
      <4>1. s.orphans \cup Unlisted(p, d) \in SUBSET Volumes
        BY <1>1 DEF Unlisted, SweepState
      <4> QED
        BY <2>1, <3>1, <4>1
    <3>2. CASE ~ok
      <4>1. s.orphans \in SUBSET Volumes
        BY <1>1 DEF SweepState
      <4> QED
        BY <2>1, <3>2, <4>1
    <3> QED
      BY <3>1, <3>2
  <2>4. PICK new \in SweepState :
           /\ Go(p, new) /\ new.pc = s.pc /\ new.nodes = s.nodes
           /\ new.existing = s.existing /\ new.errors = s.errors /\ new.orphans = os
    <3> DEFINE new == [s EXCEPT !.stores = @ \ {d}, !.orphans = os]
    <3>1. /\ new \in SweepState /\ new.pc = s.pc /\ new.nodes = s.nodes
          /\ new.existing = s.existing /\ new.errors = s.errors /\ new.orphans = os
      BY <1>1 DEF SweepState
    <3>2. Go(p, new)
      BY <2>3
    <3> HIDE DEF new
    <3> QED
      BY <3>1, <3>2
  <2>5. s.pc = "content" /\ UNCHANGED <<vm, qm, vols, deletes, want>>
    BY <1>9 DEF ReadContent, At, pve, s
  <2>6. \A o \in os : o \in s.orphans \/ (o[1] = Current(p) /\ o[3] \notin s.existing)
    BY <2>3 DEF Unlisted, s
  <2> QED
    BY <1>1, <1>4, <2>2, <2>4, <2>5, <2>6 DEF Moves, Reads, Touches, s
<1>10. CASE ContentDone(p)
  <2>1. PICK new \in SweepState :
           /\ Go(p, new) /\ new.pc \in {"api", "report"}
           /\ new.orphans = s.orphans /\ new.todo = s.orphans /\ new.errors = s.errors
           /\ new.pc = "report" => s.orphans = {}
    <3> DEFINE t == IF s.orphans = {} THEN "report" ELSE "api"
               new == [s EXCEPT !.pc = t, !.todo = s.orphans]
    <3>1. Go(p, new)
      BY <1>10, Zenon DEF ContentDone, s
    <3>2. t \in {"api", "report"} /\ (t = "report" => s.orphans = {})
      OBVIOUS
    <3> HIDE DEF t
    <3>3. /\ new \in SweepState /\ new.pc = t
          /\ new.orphans = s.orphans /\ new.todo = s.orphans /\ new.errors = s.errors
      BY <1>1, <3>2 DEF SweepState
    <3> HIDE DEF new
    <3> QED
      BY <3>1, <3>2, <3>3
  <2> QED
    BY <1>1, <1>2, <1>4, <1>10, <2>1
       DEF ContentDone, At, pve, Moves, Collects, Touches, s
<1>11. ASSUME NEW o \in s.todo, NEW failed \in BOOLEAN, Go(p, Handled(p, o, failed)),
              s.pc \in {"api", "ssh"}, vols' \in {vols, vols \ {o}},
              failed \/ o \notin vols'
       PROVE  /\ sweep' \in [Procs -> SweepState]
              /\ \A q \in Procs : q # p => sweep'[q] = sweep[q]
              /\ Handles(p)
  <2>1. Handled(p, o, failed) \in SweepState
    BY <1>1 DEF Handled, SweepState, s
  <2>2. /\ Handled(p, o, failed).pc = s.pc /\ Handled(p, o, failed).orphans = s.orphans
        /\ Handled(p, o, failed).todo = s.todo \ {o}
        /\ failed => Handled(p, o, failed).errors = s.errors \cup {o}
        /\ ~failed => Handled(p, o, failed).errors = s.errors \ {o}
    BY <1>1 DEF Handled, SweepState, s
  <2>3. /\ sweep' \in [Procs -> SweepState] /\ sweep'[p] = Handled(p, o, failed)
        /\ \A q \in Procs : q # p => sweep'[q] = sweep[q]
    BY <1>4, <1>11, <2>1
  <2> QED
    BY <1>11, <2>2, <2>3 DEF Handles, s
<1>12. CASE DeleteContent(p)
  <2>1. PICK o \in s.todo : ApiOk(p, o) \/ ApiError(p, o) \/ ApiSlow(p, o)
    BY <1>12 DEF DeleteContent, s
  <2>2. s.pc = "api" /\ UNCHANGED <<vm, qm, want>> /\ o \in Volumes
    BY <1>1, <1>12 DEF DeleteContent, At, SweepState, s
  <2>3. CASE ApiOk(p, o)
    <3>1. Go(p, Handled(p, o, FALSE)) /\ vols' = vols \ {o} /\ UNCHANGED <<deletes, budget>>
      BY <2>3 DEF ApiOk
    <3> QED
      BY <1>1, <1>2, <1>11, <2>2, <3>1 DEF Moves, Touches, s
  <2>4. CASE ApiError(p, o)
    <3>1. /\ Go(p, Handled(p, o, TRUE)) /\ UNCHANGED <<vols, deletes>>
          /\ UNCHANGED budget \/ Spend("fault")
      BY <2>4 DEF ApiError
    <3> QED
      BY <1>1, <1>2, <1>3, <1>11, <1>k, <2>2, <3>1 DEF Moves, Touches
  <2>5. CASE ApiSlow(p, o)
    <3>1. /\ Go(p, Handled(p, o, TRUE)) /\ UNCHANGED vols
          /\ deletes' = deletes \cup {o} /\ Spend("slow") /\ ApiDeletes # {}
      BY <2>5 DEF ApiSlow
    <3>2. budget["slow"] > 0
      BY <3>1 DEF Spend
    <3> QED
      BY <1>1, <1>3, <1>11, <1>k, <2>2, <3>1, <3>2 DEF Moves, Touches
  <2> QED
    BY <2>1, <2>3, <2>4, <2>5
<1>13. CASE ApiDone(p)
  <2>1. PICK new \in SweepState :
           /\ Go(p, new) /\ new.orphans = s.orphans /\ new.errors = s.errors
           /\ \/ new.pc = "ssh" /\ new.todo = s.errors
              \/ new.pc = "report" /\ new.todo = s.todo
    <3> DEFINE n1 == [s EXCEPT !.pc = "ssh", !.todo = s.errors]
               n2 == [s EXCEPT !.pc = "report"]
    <3>1. Go(p, n1) \/ Go(p, n2)
      BY <1>13 DEF ApiDone, s
    <3>2. /\ n1 \in SweepState /\ n1.orphans = s.orphans /\ n1.errors = s.errors
          /\ n1.pc = "ssh" /\ n1.todo = s.errors
      BY <1>1 DEF SweepState
    <3>3. /\ n2 \in SweepState /\ n2.orphans = s.orphans /\ n2.errors = s.errors
          /\ n2.pc = "report" /\ n2.todo = s.todo
      BY <1>1 DEF SweepState
    <3> HIDE DEF n1, n2
    <3> QED
      BY <3>1, <3>2, <3>3
  <2>2. s.pc = "api" /\ s.todo = {} /\ UNCHANGED <<vm, qm, vols, deletes, want, budget>>
    BY <1>13 DEF ApiDone, At, pve, s
  <2> QED
    BY <1>1, <1>2, <1>4, <2>1, <2>2 DEF Moves, Falls, Stops, Touches, s
<1>14. CASE SshFree(p)
  <2>1. PICK o \in s.todo, failed \in BOOLEAN :
           /\ Go(p, Handled(p, o, failed)) /\ vols' \in {vols, vols \ {o}}
           /\ failed \/ o \notin vols'
           /\ UNCHANGED budget \/ Spend("fault")
    <3>1. PICK o \in s.todo :
             \/ /\ Freeable(o) /\ vols' = vols \ {o}
                /\ Go(p, Handled(p, o, FALSE)) /\ UNCHANGED budget
             \/ /\ ~Freeable(o) /\ UNCHANGED vols
                /\ Go(p, Handled(p, o, TRUE)) /\ UNCHANGED budget
             \/ /\ Freeable(o) /\ vols' \in {vols, vols \ {o}}
                /\ Go(p, Handled(p, o, TRUE)) /\ Spend("fault")
      BY <1>14 DEF SshFree, s
    <3>2. CASE vols' = vols \ {o} /\ Go(p, Handled(p, o, FALSE)) /\ UNCHANGED budget
      BY <3>2
    <3>3. CASE UNCHANGED vols /\ Go(p, Handled(p, o, TRUE)) /\ UNCHANGED budget
      BY <3>3
    <3>4. CASE vols' \in {vols, vols \ {o}} /\ Go(p, Handled(p, o, TRUE)) /\ Spend("fault")
      BY <3>4
    <3> QED
      BY <3>1, <3>2, <3>3, <3>4
  <2>2. s.pc = "ssh" /\ UNCHANGED <<vm, qm, deletes, want>>
    BY <1>14 DEF SshFree, At, s
  <2>3. BudgetFalls /\ budget'["kill"] = budget["kill"]
    BY <1>2, <1>3, <1>k, <2>1
  <2> QED
    BY <1>1, <1>11, <2>1, <2>2, <2>3 DEF Moves, Touches, s
<1>15. CASE SshUnavailable(p)
  <2>1. PICK new \in SweepState :
           /\ Go(p, new) /\ new.orphans = s.orphans /\ new.errors = s.errors
           /\ new.pc = s.pc /\ new.todo = {}
    BY <1>1, <1>15 DEF SshUnavailable, SweepState, s
  <2>2. /\ s.pc = "ssh" /\ UNCHANGED <<vm, qm, vols, deletes, want>>
        /\ Spend("nopexpect")
    BY <1>15 DEF SshUnavailable, At, pve, s
  <2> QED
    BY <1>1, <1>3, <1>4, <1>k, <2>1, <2>2 DEF Moves, Stops, Touches, s
<1>16. CASE SshNoPassword(p)
  BY <1>1, <1>3, <1>4, <1>5, <1>16, <1>k DEF SshNoPassword, pve, Moves, Leaves, Touches
<1>17. CASE SshDone(p)
  <2>1. PICK new \in SweepState :
           /\ Go(p, new) /\ new.orphans = s.orphans /\ new.errors = s.errors
           /\ new.pc = "report" /\ new.todo = s.todo
    BY <1>1, <1>17 DEF SshDone, SweepState, s
  <2>2. s.pc = "ssh" /\ s.todo = {} /\ UNCHANGED <<vm, qm, vols, deletes, want, budget>>
    BY <1>17 DEF SshDone, At, pve, s
  <2> QED
    BY <1>1, <1>2, <1>4, <2>1, <2>2 DEF Moves, Stops, Touches, s
<1>18. CASE Report(p)
  <2>1. PICK new \in SweepState : Go(p, new) /\ new.pc \in {"vms", "apply", "idle"}
    <3> DEFINE rest == s.nodes \ {Current(p)}
    <3>1. Go(p, IF rest = {} THEN [Left(p) EXCEPT !.nodes = rest]
                ELSE [s EXCEPT !.pc = "vms", !.nodes = rest])
      BY <1>18, Zenon DEF Report, s
    <3>2. rest \in SUBSET Nodes
      BY <1>1 DEF SweepState
    <3> HIDE DEF rest
    <3>3. /\ [Left(p) EXCEPT !.nodes = rest] \in SweepState
          /\ [Left(p) EXCEPT !.nodes = rest].pc \in {"apply", "idle"}
          /\ [s EXCEPT !.pc = "vms", !.nodes = rest] \in SweepState
          /\ [s EXCEPT !.pc = "vms", !.nodes = rest].pc = "vms"
      BY <1>1, <1>5, <3>2 DEF SweepState
    <3> QED
      BY <3>1, <3>3
  <2> QED
    BY <1>1, <1>2, <1>4, <1>18, <2>1 DEF Report, pve, Moves, Leaves, Touches
<1> QED
  BY <1>6, <1>7, <1>8, <1>9, <1>10, <1>12, <1>13, <1>14, <1>15, <1>16, <1>17, <1>18
     DEF Sweep

-----------------------------------------------------------------------------
(* The inductive invariant behind RemovedIsGone. *)

NoKill == budget["kill"] = Limit["kill"]

\* Without a kill, only the `up' that waits for them has creations in flight.
NoStray ==
    NoKill => \A v \in Vmids : Creating(v) =>
        /\ sweep["up"].pc \in {"apply", "failing"}
        /\ qm[v].own /\ v \in want /\ ~Exists(v)

\* Without a kill, what the preflight has listed is still so: its orphans have no
\* VM on their node.
Listed ==
    NoKill =>
        /\ sweep["up"].pc = "content" =>
              sweep["up"].existing = {v \in Vmids : vm[v].node = Current("up")}
        /\ sweep["up"].pc \in {"content", "api", "ssh", "report"} =>
              \A o \in sweep["up"].orphans : vm[o[3]].node # o[1]

Gone(o) == o[2] = "ci" \/ NoKill => o \notin vols

\* An orphan is still to be deleted, or recorded as an error, or gone.
Removing ==
    LET s == sweep["up"] IN
    /\ s.pc = "content" => s.errors = {}
    /\ s.pc = "api" => s.todo \subseteq s.orphans /\ s.errors \subseteq s.orphans
    /\ s.pc = "ssh" => s.todo \subseteq s.errors /\ s.errors \subseteq s.orphans
    /\ s.pc = "report" => s.todo = {}
    /\ s.pc \in {"api", "ssh", "report"} =>
          \A o \in s.orphans \ (s.todo \cup s.errors) : Gone(o)

CleanInv ==
    /\ TypeOK /\ budget["kill"] <= Limit["kill"]
    /\ NoStray /\ Listed /\ Removing

LEMMA KillFacts ==
    /\ "kill" \in Disturbances /\ Limit["kill"] \in Nat
    /\ "up" \in Procs /\ "cli" \in Procs
  BY ConstantsAssumption DEF Disturbances, Procs

\* A step of the preflight.
LEMMA UpStep == ASSUME CleanInv, Sweep("up") PROVE CleanInv'
<1>1. /\ sweep' \in [Procs -> SweepState] /\ Moves("up") /\ Touches("up")
      /\ BudgetFalls /\ budget'["kill"] = budget["kill"]
  BY SweepMoves, KillFacts DEF CleanInv
<1>2. TypeOK'
  BY <1>1 DEF CleanInv, TypeOK, Touches, BudgetFalls
<1>3. /\ UNCHANGED <<vm, qm, want>> /\ vols' \subseteq vols /\ NoKill' = NoKill
  BY <1>1 DEF Touches, NoKill
<1> DEFINE s == sweep["up"]
           t == sweep'["up"]
<1>4. /\ s.pc = "content" => s.errors = {}
      /\ s.pc = "api" => s.todo \subseteq s.orphans /\ s.errors \subseteq s.orphans
      /\ s.pc = "ssh" => s.todo \subseteq s.errors /\ s.errors \subseteq s.orphans
      /\ s.pc = "report" => s.todo = {}
      /\ s.pc \in {"api", "ssh", "report"} =>
            \A o \in s.orphans \ (s.todo \cup s.errors) : Gone(o)
  BY DEF CleanInv, Removing
<1>5. \A o : Gone(o) => Gone(o)'
  BY <1>3 DEF Gone
<1>6. s.pc \notin {"apply", "failing"}
  BY DEF Sweep, Auth, ListVms, ListVmsFails, ReadContent, ContentDone, DeleteContent,
         ApiDone, SshFree, SshUnavailable, SshNoPassword, SshDone, Report, At
<1>7. NoStray'
  BY <1>3, <1>6 DEF CleanInv, NoStray, Creating
<1> SUFFICES Listed' /\ Removing'
  BY <1>1, <1>2, <1>7 DEF CleanInv
<1>8. ASSUME NoKill
      PROVE  /\ s.pc = "content" => s.existing = {v \in Vmids : vm[v].node = Current("up")}
             /\ s.pc \in {"content", "api", "ssh", "report"} =>
                   \A o \in s.orphans : vm[o[3]].node # o[1]
  BY <1>8 DEF CleanInv, Listed
<1>9. ASSUME t.nodes = s.nodes PROVE Current("up")' = Current("up")
  BY <1>9 DEF Current
<1>10. t \in SweepState /\ s \in SweepState
  BY <1>1, KillFacts DEF CleanInv, TypeOK
<1>11. ASSUME t.pc = "content" => t.errors = {},
              t.pc = "api" => t.todo \subseteq t.orphans /\ t.errors \subseteq t.orphans,
              t.pc = "ssh" => t.todo \subseteq t.errors /\ t.errors \subseteq t.orphans,
              t.pc = "report" => t.todo = {},
              t.pc \in {"api", "ssh", "report"} =>
                 \A o \in t.orphans \ (t.todo \cup t.errors) : Gone(o)'
       PROVE  Removing'
  BY <1>11 DEF Removing
<1>12. ASSUME NoKill =>
                 /\ t.pc = "content" =>
                       t.existing = {v \in Vmids : vm[v].node = Current("up")'}
                 /\ t.pc \in {"content", "api", "ssh", "report"} =>
                       \A o \in t.orphans : vm[o[3]].node # o[1]
       PROVE  Listed'
  BY <1>3, <1>12 DEF Listed
<1>13. CASE Leaves("up")
  BY <1>11, <1>12, <1>13 DEF Leaves
<1>14. CASE Lists("up")
  BY <1>9, <1>11, <1>12, <1>14 DEF Lists
<1>15. CASE Reads("up")
  <2>1. ASSUME NoKill, NEW o \in t.orphans PROVE vm[o[3]].node # o[1]
    <3>1. CASE o \in s.orphans
      BY <1>8, <1>15, <2>1, <3>1 DEF Reads
    <3>2. CASE o[1] = Current("up") /\ o[3] \notin s.existing
      <4>1. o[3] \in Vmids
        BY <1>10, <2>1 DEF SweepState, Volumes
      <4> QED
        BY <1>8, <1>15, <2>1, <3>2, <4>1 DEF Reads
    <3> QED
      BY <1>15, <3>1, <3>2 DEF Reads
  <2> QED
    BY <1>4, <1>8, <1>9, <1>11, <1>12, <1>15, <2>1 DEF Reads
<1>16. CASE Collects("up")
  BY <1>4, <1>8, <1>11, <1>12, <1>16 DEF Collects
<1>17. CASE Handles("up")
  <2>1. PICK o \in s.todo :
           /\ t.todo = s.todo \ {o} /\ vols' \in {vols, vols \ {o}}
           /\ \/ t.errors = s.errors \cup {o}
              \/ t.errors = s.errors \ {o} /\ o \notin vols'
    BY <1>17 DEF Handles
  <2>2. s.pc \in {"api", "ssh"} /\ t.pc = s.pc /\ t.orphans = s.orphans
    BY <1>17 DEF Handles
  <2>3. ASSUME NEW x \in t.orphans \ (t.todo \cup t.errors) PROVE Gone(x)'
    <3>1. CASE x = o
      BY <2>1, <2>3, <3>1 DEF Gone
    <3>2. CASE x # o
      BY <1>4, <1>5, <2>1, <2>2, <2>3, <3>2
    <3> QED
      BY <3>1, <3>2
  <2> QED
    BY <1>4, <1>8, <1>11, <1>12, <2>1, <2>2, <2>3
<1>18. CASE Falls("up")
  BY <1>4, <1>5, <1>8, <1>11, <1>12, <1>18 DEF Falls
<1>19. CASE Stops("up")
  <2>1. \A o \in t.orphans \ (t.todo \cup t.errors) : Gone(o)'
    BY <1>4, <1>5, <1>19 DEF Stops
  <2> QED
    BY <1>4, <1>8, <1>11, <1>12, <1>19, <2>1 DEF Stops
<1> QED
  BY <1>1, <1>13, <1>14, <1>15, <1>16, <1>17, <1>18, <1>19 DEF Moves

\* A step beside the preflight that makes and unmakes no VM.  A volume it adds is
\* no cloud-init volume, and is no orphan of the preflight.
LEMMA BesideStep ==
    ASSUME CleanInv, TypeOK', sweep'["up"] = sweep["up"],
           budget'["kill"] = budget["kill"], NoStray',
           \A v \in Vmids : vm'[v].node = vm[v].node,
           \A o \in vols' \ vols :
              /\ o[2] # "ci"
              /\ NoKill => \/ sweep["up"].pc \in {"apply", "failing"}
                           \/ vm[o[3]].node = o[1]
    PROVE  CleanInv'
<1> DEFINE s == sweep["up"]
<1>0. s \in SweepState
  BY KillFacts DEF CleanInv, TypeOK
<1>1. NoKill' = NoKill /\ Current("up")' = Current("up")
  BY DEF NoKill, Current
<1>2. \A o \in s.orphans : o[3] \in Vmids
  BY <1>0 DEF SweepState, Volumes
<1>3. Listed'
  BY <1>1, <1>2 DEF CleanInv, Listed
<1>4. ASSUME s.pc \in {"api", "ssh", "report"}, NEW o \in s.orphans, Gone(o)
      PROVE  Gone(o)'
  <2>1. CASE o \in vols' \ vols
    <3>1. NoKill => vm[o[3]].node # o[1]
      BY <1>4 DEF CleanInv, Listed
    <3> QED
      BY <1>1, <1>4, <2>1, <3>1 DEF Gone
  <2>2. CASE o \notin vols' \ vols
    BY <1>1, <1>4, <2>2 DEF Gone
  <2> QED
    BY <2>1, <2>2
<1>5. Removing'
  BY <1>4 DEF CleanInv, Removing
<1> QED
  BY <1>3, <1>5 DEF CleanInv

\* A step that finds or leaves the `up' outside its preflight.
LEMMA OutsideStep ==
    ASSUME CleanInv, TypeOK', budget'["kill"] <= Limit["kill"], NoStray',
           sweep'["up"].pc \in {"idle", "auth", "apply", "failing"}
    PROVE  CleanInv'
  BY DEF CleanInv, Listed, Removing

\* A step beside the preflight, after a kill, that adds no cloud-init volume.
LEMMA KilledStep ==
    ASSUME CleanInv, TypeOK', ~NoKill, budget'["kill"] = budget["kill"],
           sweep'["up"] = sweep["up"], \A o \in vols' \ vols : o[2] # "ci"
    PROVE  CleanInv'
<1>1. ~NoKill'
  BY DEF NoKill
<1>2. \A o : Gone(o) => Gone(o)'
  BY <1>1 DEF Gone
<1>3. Removing'
  BY <1>2 DEF CleanInv, Removing
<1> QED
  BY <1>1, <1>3 DEF CleanInv, NoStray, Listed

\* A step of the command.
LEMMA CliStep == ASSUME CleanInv, Sweep("cli") PROVE CleanInv'
<1>1. /\ sweep' \in [Procs -> SweepState] /\ Touches("cli") /\ BudgetFalls
      /\ budget'["kill"] = budget["kill"] /\ \A q \in Procs : q # "cli" => sweep'[q] = sweep[q]
  BY SweepMoves, KillFacts DEF CleanInv
<1>2. sweep'["up"] = sweep["up"]
  BY <1>1, KillFacts
<1>3. TypeOK'
  BY <1>1 DEF CleanInv, TypeOK, Touches, BudgetFalls
<1>4. UNCHANGED <<vm, qm, want>> /\ vols' \subseteq vols
  BY <1>1 DEF Touches
<1>5. NoStray'
  BY <1>1, <1>2, <1>4 DEF CleanInv, NoStray, NoKill, Creating, Exists
<1> QED
  BY <1>1, <1>2, <1>3, <1>4, <1>5, BesideStep

LEMMA NoQmFacts ==
    /\ NoQm \in QmState /\ NoQm.node = None /\ NoQm.own = FALSE
  BY DEF NoQm, QmState

LEMMA StartStep == ASSUME CleanInv, StartUp \/ StartCli PROVE CleanInv'
<1>1. CASE StartUp
  <2>1. /\ Go("up", [sweep["up"] EXCEPT !.pc = "auth"]) /\ want' \in Selections
        /\ sweep["up"].pc = "idle" /\ UNCHANGED <<vm, qm, vols, deletes, budget>>
    BY <1>1 DEF StartUp, pve, At
  <2>2. sweep' \in [Procs -> SweepState] /\ sweep'["up"].pc = "auth"
    BY <2>1, KillFacts DEF Go, CleanInv, TypeOK, SweepState
  <2>3. want' \in SUBSET Vmids
    BY <2>1, ConstantsAssumption
  <2>4. TypeOK'
    BY <2>1, <2>2, <2>3 DEF CleanInv, TypeOK
  <2>5. NoStray'
    BY <2>1 DEF CleanInv, NoStray, NoKill, Creating
  <2> QED
    BY <2>1, <2>2, <2>4, <2>5, OutsideStep DEF CleanInv
<1>2. CASE StartCli
  <2>1. /\ Go("cli", [sweep["cli"] EXCEPT !.pc = "auth"]) /\ Spend("cli")
        /\ UNCHANGED <<vm, qm, vols, deletes, want>>
    BY <1>2 DEF StartCli, pve
  <2>2. sweep' \in [Procs -> SweepState] /\ sweep'["up"] = sweep["up"]
    BY <2>1, KillFacts DEF Go, CleanInv, TypeOK, SweepState
  <2>3. budget' \in [Disturbances -> Nat] /\ budget'["kill"] = budget["kill"]
    BY <2>1, SpendFacts DEF CleanInv, Disturbances
  <2>4. TypeOK'
    BY <2>1, <2>2, <2>3 DEF CleanInv, TypeOK
  <2>5. NoStray'
    BY <2>1, <2>2, <2>3 DEF CleanInv, NoStray, NoKill, Creating, Exists
  <2> QED
    BY <2>1, <2>2, <2>3, <2>4, <2>5, BesideStep
<1> QED
  BY <1>1, <1>2

\* The `up' ends, or is killed.
LEMMA EndStep == ASSUME CleanInv, FinishUp \/ KillUp PROVE CleanInv'
<1>1. /\ Go("up", [sweep["up"] EXCEPT !.pc = "idle"])
      /\ UNCHANGED <<vm, vols, deletes, want>>
  BY DEF FinishUp, KillUp, pve
<1>2. sweep' \in [Procs -> SweepState] /\ sweep'["up"].pc = "idle"
  BY <1>1, KillFacts DEF Go, CleanInv, TypeOK, SweepState
<1>3. CASE FinishUp
  <2>1. UNCHANGED <<qm, budget>>
    BY <1>3 DEF FinishUp, pve
  <2>2. TypeOK'
    BY <1>1, <1>2, <2>1 DEF CleanInv, TypeOK
  <2>3. ASSUME NoKill, NEW v \in Vmids PROVE ~Creating(v)
    BY <1>3, <2>3 DEF CleanInv, NoStray, FinishUp, At
  <2>4. NoStray'
    BY <2>1, <2>3 DEF NoStray, NoKill, Creating
  <2> QED
    BY <1>2, <2>1, <2>2, <2>4, OutsideStep DEF CleanInv
<1>4. CASE KillUp
  <2>1. Spend("kill") /\ qm' = [v \in Vmids |-> [qm[v] EXCEPT !.own = FALSE]]
    BY <1>4 DEF KillUp
  <2>2. /\ budget' \in [Disturbances -> Nat] /\ budget["kill"] > 0
        /\ budget'["kill"] = budget["kill"] - 1
    BY <2>1, KillFacts, SpendFacts DEF CleanInv
  <2>3. qm' \in [Vmids -> QmState]
    BY <2>1 DEF CleanInv, TypeOK, QmState
  <2>4. TypeOK'
    BY <1>1, <1>2, <2>2, <2>3 DEF CleanInv, TypeOK, QmState
  <2>5. budget["kill"] \in Nat /\ budget["kill"] <= Limit["kill"]
    BY KillFacts DEF CleanInv, TypeOK
  <2>6. ~NoKill' /\ budget'["kill"] <= Limit["kill"]
    BY <2>2, <2>5, KillFacts DEF NoKill
  <2>7. NoStray'
    BY <2>6 DEF NoStray
  <2> QED
    BY <1>2, <2>4, <2>6, <2>7, OutsideStep
<1> QED
  BY <1>3, <1>4

LEMMA FailingFacts ==
    ASSUME TypeOK, Go("up", [sweep["up"] EXCEPT !.pc = "failing"])
    PROVE  sweep' \in [Procs -> SweepState] /\ sweep'["up"].pc = "failing"
<1> DEFINE new == [sweep["up"] EXCEPT !.pc = "failing"]
<1>1. new \in SweepState /\ new.pc = "failing"
  BY KillFacts DEF TypeOK, SweepState
<1>2. Go("up", new)
  OBVIOUS
<1> HIDE DEF new
<1> QED
  BY <1>1, <1>2, KillFacts, GoFacts

LEMMA AllocateStep == ASSUME CleanInv, NEW v \in Vmids, QmAllocate(v) PROVE CleanInv'
<1>1. /\ sweep["up"].pc = "apply" /\ v \in want /\ ~Exists(v)
      /\ UNCHANGED <<vm, deletes, want, budget>>
  BY DEF QmAllocate, At
<1>2. PICK n \in Nodes :
         \/ /\ Go("up", [sweep["up"] EXCEPT !.pc = "failing"])
            /\ UNCHANGED <<qm, vols>>
         \/ /\ qm' = [qm EXCEPT ![v] = [node |-> n, disk |-> FALSE, own |-> TRUE]]
            /\ vols' = vols \cup {<<n, "ci", v>>}
            /\ UNCHANGED sweep
  BY DEF QmAllocate
<1>3. /\ sweep' \in [Procs -> SweepState] /\ sweep'["up"].pc \in {"apply", "failing"}
  BY <1>1, <1>2, FailingFacts DEF CleanInv, TypeOK
<1>4. [node |-> n, disk |-> FALSE, own |-> TRUE] \in QmState
  BY DEF QmState
<1>5. qm' \in [Vmids -> QmState] /\ vols' \in SUBSET Volumes
  <2>1. <<n, "ci", v>> \in Volumes
    BY DEF Volumes, VolumeKinds
  <2>2. qm \in [Vmids -> QmState] /\ vols \in SUBSET Volumes
    BY DEF CleanInv, TypeOK, QmState
  <2> QED
    BY <1>2, <1>4, <2>1, <2>2
<1>6. TypeOK'
  BY <1>1, <1>3, <1>5 DEF CleanInv, TypeOK, QmState
<1>7. NoStray'
  <2> SUFFICES ASSUME NoKill', NEW w \in Vmids, Creating(w)'
               PROVE  qm'[w].own /\ w \in want /\ ~Exists(w)
    BY <1>1, <1>3 DEF NoStray, Exists
  <2>1. CASE UNCHANGED qm
    BY <1>1, <2>1 DEF CleanInv, NoStray, NoKill, Creating
  <2>2. CASE qm' = [qm EXCEPT ![v] = [node |-> n, disk |-> FALSE, own |-> TRUE]]
    <3>1. qm'[v].own /\ \A x \in Vmids : x # v => qm'[x] = qm[x]
      BY <2>2 DEF CleanInv, TypeOK
    <3> QED
      BY <1>1, <3>1 DEF CleanInv, NoStray, NoKill, Creating
  <2> QED
    BY <1>2, <2>1, <2>2
<1> QED
  BY <1>1, <1>3, <1>6, <1>7, OutsideStep DEF CleanInv

\* A creation goes on, comes to its end or dies.
LEMMA CreateStep ==
    ASSUME CleanInv, NEW v \in Vmids, QmImport(v) \/ QmConfig(v) \/ QmDies(v)
    PROVE  CleanInv'
<1>0. Creating(v) /\ qm[v] \in QmState /\ vm[v] \in VmState /\ qm[v].node \in Nodes
  BY DEF CleanInv, TypeOK, QmImport, QmConfig, QmDies, QmState, VmState, Creating
<1>1. NoKill => sweep["up"].pc \in {"apply", "failing"} /\ v \in want
  BY <1>0 DEF CleanInv, NoStray
<1>2. CASE QmImport(v)
  <2>1. /\ qm' = [qm EXCEPT ![v].disk = TRUE]
        /\ vols' = vols \cup {<<qm[v].node, "disk", v>>}
        /\ UNCHANGED <<vm, deletes, want, sweep, budget>>
    BY <1>2 DEF QmImport
  <2>2. /\ qm' \in [Vmids -> QmState] /\ vols' \in SUBSET Volumes
        /\ \A w \in Vmids : qm'[w].node = qm[w].node /\ qm'[w].own = qm[w].own
    <3>1. <<qm[v].node, "disk", v>> \in Volumes
      BY <1>0 DEF Volumes, VolumeKinds
    <3>2. vols' \in SUBSET Volumes
      BY <2>1, <3>1 DEF CleanInv, TypeOK
    <3> DEFINE x == [qm[v] EXCEPT !.disk = TRUE]
    <3>3. x \in QmState /\ x.node = qm[v].node /\ x.own = qm[v].own
      BY <1>0 DEF QmState
    <3>4. qm' = [qm EXCEPT ![v] = x] /\ qm \in [Vmids -> QmState]
      BY <2>1 DEF CleanInv, TypeOK, QmState
    <3> HIDE DEF x
    <3> QED
      BY <3>2, <3>3, <3>4
  <2>3. TypeOK'
    BY <2>1, <2>2 DEF CleanInv, TypeOK, QmState
  <2>4. NoStray'
    BY <2>1, <2>2 DEF CleanInv, NoStray, NoKill, Creating, Exists
  <2>5. \A o \in vols' \ vols : o[2] # "ci"
    BY <2>1
  <2> QED
    BY <1>1, <2>1, <2>3, <2>4, <2>5, BesideStep
<1>3. CASE QmConfig(v)
  <2>1. /\ vm' = [vm EXCEPT ![v].node = qm[v].node] /\ qm' = [qm EXCEPT ![v] = NoQm]
        /\ UNCHANGED <<vols, deletes, want, sweep, budget>>
    BY <1>3 DEF QmConfig
  <2>2. vm' \in [Vmids -> VmState] /\ qm' \in [Vmids -> QmState]
    BY <1>0, <2>1, NoQmFacts DEF CleanInv, TypeOK, QmState, VmState
  <2>3. TypeOK'
    BY <2>1, <2>2 DEF CleanInv, TypeOK, QmState, VmState
  <2>4. CASE NoKill
    <3>1. /\ \A w \in Vmids : w # v => vm'[w] = vm[w] /\ qm'[w] = qm[w]
          /\ qm'[v] = NoQm
      BY <2>1 DEF CleanInv, TypeOK
    <3>2. NoStray'
      BY <2>1, <3>1, NoQmFacts DEF CleanInv, NoStray, NoKill, Creating, Exists
    <3> QED
      BY <1>1, <2>1, <2>3, <2>4, <3>2, OutsideStep DEF CleanInv
  <2>5. CASE ~NoKill
    BY <2>1, <2>3, <2>5, KilledStep
  <2> QED
    BY <2>4, <2>5
<1>4. CASE QmDies(v)
  <2>1. /\ Spend("crash") /\ qm' = [qm EXCEPT ![v] = NoQm]
        /\ UNCHANGED <<vm, vols, deletes, want>>
        /\ \/ /\ sweep["up"].pc = "apply"
              /\ Go("up", [sweep["up"] EXCEPT !.pc = "failing"])
           \/ UNCHANGED sweep
    BY <1>4 DEF QmDies, At
  <2>2. qm' \in [Vmids -> QmState]
    BY <2>1, NoQmFacts DEF CleanInv, TypeOK, QmState
  <2>3. budget' \in [Disturbances -> Nat] /\ budget'["kill"] = budget["kill"]
    BY <2>1, SpendFacts DEF CleanInv, Disturbances
  <2>4. /\ sweep' \in [Procs -> SweepState]
        /\ sweep'["up"].pc = "failing" \/ UNCHANGED sweep
        /\ sweep["up"].pc \in {"apply", "failing"}
              => sweep'["up"].pc \in {"apply", "failing"}
    BY <2>1, FailingFacts DEF CleanInv, TypeOK
  <2>5. TypeOK'
    BY <2>1, <2>2, <2>3, <2>4 DEF CleanInv, TypeOK, QmState
  <2>6. NoStray'
    <3>1. \A w \in Vmids : (w # v => qm'[w] = qm[w]) /\ qm'[v] = NoQm
      BY <2>1 DEF CleanInv, TypeOK
    <3> QED
      BY <2>1, <2>3, <2>4, <3>1, NoQmFacts DEF CleanInv, NoStray, NoKill, Creating, Exists
  <2>7. CASE sweep'["up"].pc = "failing"
    BY <2>3, <2>5, <2>6, <2>7, OutsideStep DEF CleanInv
  <2>8. CASE UNCHANGED sweep
    BY <2>1, <2>3, <2>5, <2>6, <2>8, BesideStep
  <2> QED
    BY <2>4, <2>7, <2>8
<1> QED
  BY <1>2, <1>3, <1>4

\* Power, destroy, backup, and deletes that outlasted their polls.
LEMMA VmStep ==
    ASSUME CleanInv, NEW v \in Vmids, Power(v) \/ DestroyVm(v) \/ Backup(v)
    PROVE  CleanInv'
<1>0. vm[v] \in VmState /\ Exists(v) /\ vm[v].node \in Nodes
  BY DEF CleanInv, TypeOK, Power, DestroyVm, Backup, VmState, Exists
<1>1. CASE Power(v)
  <2>1. /\ vm' = [vm EXCEPT ![v].on = ~@]
        /\ UNCHANGED <<qm, vols, deletes, want, sweep, budget>>
    BY <1>1 DEF Power
  <2>2. PICK x \in VmState : x.node = vm[v].node /\ vm' = [vm EXCEPT ![v] = x]
    <3> DEFINE x == [vm[v] EXCEPT !.on = ~@]
    <3>1. x \in VmState /\ x.node = vm[v].node
      BY <1>0 DEF VmState
    <3>2. vm' = [vm EXCEPT ![v] = x]
      BY <2>1
    <3> HIDE DEF x
    <3> QED
      BY <3>1, <3>2
  <2>3. vm' \in [Vmids -> VmState] /\ \A w \in Vmids : vm'[w].node = vm[w].node
    BY <2>2 DEF CleanInv, TypeOK, VmState
  <2>4. TypeOK'
    BY <2>1, <2>3 DEF CleanInv, TypeOK, VmState
  <2>5. NoStray'
    BY <2>1, <2>3 DEF CleanInv, NoStray, NoKill, Creating, Exists
  <2> QED
    BY <2>1, <2>3, <2>4, <2>5, BesideStep
<1>2. CASE DestroyVm(v)
  <2>1. /\ sweep["up"].pc = "apply"
        /\ vols' \subseteq vols /\ vm' = [vm EXCEPT ![v] = [node |-> None, on |-> FALSE]]
        /\ UNCHANGED <<qm, deletes, want, sweep, budget>>
    BY <1>2 DEF DestroyVm, At
  <2>2. [node |-> None, on |-> FALSE] \in VmState
    BY DEF VmState
  <2>3. vm' \in [Vmids -> VmState] /\ vm'[v].node = None
        /\ \A w \in Vmids : w # v => vm'[w] = vm[w]
    BY <2>1, <2>2 DEF CleanInv, TypeOK, VmState
  <2>4. TypeOK'
    BY <2>1, <2>3 DEF CleanInv, TypeOK, VmState
  <2>5. NoStray'
    BY <2>1, <2>3 DEF CleanInv, NoStray, NoKill, Creating, Exists
  <2> QED
    BY <2>1, <2>4, <2>5, OutsideStep DEF CleanInv
<1>3. CASE Backup(v)
  <2>1. /\ Spend("backup") /\ vols' = vols \cup {<<vm[v].node, "backup", v>>}
        /\ UNCHANGED <<vm, qm, deletes, want, sweep>>
    BY <1>3 DEF Backup
  <2>2. budget' \in [Disturbances -> Nat] /\ budget'["kill"] = budget["kill"]
    BY <2>1, SpendFacts DEF CleanInv, Disturbances
  <2>3. vols' \in SUBSET Volumes
    BY <1>0, <2>1 DEF CleanInv, TypeOK, Volumes, VolumeKinds
  <2>4. TypeOK'
    BY <2>1, <2>2, <2>3 DEF CleanInv, TypeOK
  <2>5. NoStray'
    BY <2>1, <2>2 DEF CleanInv, NoStray, NoKill, Creating, Exists
  <2>6. \A o \in vols' \ vols : o[2] # "ci" /\ vm[o[3]].node = o[1]
    BY <2>1
  <2> QED
    BY <2>1, <2>2, <2>4, <2>5, <2>6, BesideStep
<1> QED
  BY <1>1, <1>2, <1>3

LEMMA DeleteStep == ASSUME CleanInv, NEW o \in Volumes, DeleteRuns(o) PROVE CleanInv'
<1>1. /\ vols' \subseteq vols /\ deletes' \subseteq deletes
      /\ UNCHANGED <<vm, qm, want, sweep, budget>>
  BY DEF DeleteRuns
<1>2. TypeOK'
  BY <1>1 DEF CleanInv, TypeOK
<1>3. NoStray'
  BY <1>1 DEF CleanInv, NoStray, NoKill, Creating, Exists
<1> QED
  BY <1>1, <1>2, <1>3, BesideStep

LEMMA CleanInvStep == CleanInv /\ [Next]_vars => CleanInv'
<1> SUFFICES ASSUME CleanInv, [Next]_vars PROVE CleanInv'
  OBVIOUS
<1>1. CASE UNCHANGED vars
  BY <1>1 DEF vars, CleanInv, TypeOK, NoStray, NoKill, Creating, Exists, Listed, Current,
              Removing, Gone
<1>2. CASE \E p \in Procs : Sweep(p)
  BY <1>2, UpStep, CliStep DEF Procs
<1>3. CASE StartUp \/ StartCli \/ FinishUp \/ KillUp
  BY <1>3, StartStep, EndStep
<1>4. CASE Pve
  BY <1>4, AllocateStep, CreateStep, VmStep, DeleteStep DEF Pve
<1> QED
  BY <1>1, <1>2, <1>3, <1>4 DEF Next

LEMMA CleanInit == Init => CleanInv
<1> SUFFICES ASSUME Init PROVE CleanInv
  OBVIOUS
<1>1. TypeOK
  <2>1. vm \in [Vmids -> VmState] /\ qm \in [Vmids -> QmState]
    BY NoQmFacts DEF Init, VmState
  <2>2. sweep \in [Procs -> SweepState]
    BY DEF Init, SweepState
  <2>3. budget \in [Disturbances -> Nat]
    BY ConstantsAssumption DEF Init
  <2> QED
    BY <2>1, <2>2, <2>3 DEF Init, TypeOK, VmState, QmState
<1>2. sweep["up"].pc = "idle" /\ \A v \in Vmids : ~Creating(v)
  BY KillFacts, NoQmFacts DEF Init, Creating
<1>3. budget["kill"] <= Limit["kill"]
  BY KillFacts DEF Init
<1> QED
  BY <1>1, <1>2, <1>3 DEF CleanInv, NoStray, Listed, Removing

LEMMA CleanInvariant == Spec => []CleanInv
<1>1. Init => CleanInv
  BY CleanInit
<1>2. CleanInv /\ [Next]_vars => CleanInv'
  BY CleanInvStep
<1> QED
  BY <1>1, <1>2, PTL DEF Spec

\* The variables of the sweep and of PVE keep their types: TypeOK of PveCleanup.
THEOREM TypeCorrect == Spec => []TypeOK
<1>1. CleanInv => TypeOK
  BY DEF CleanInv
<1> QED
  BY <1>1, CleanInvariant, PTL

\* Whatever fails, outlasts its polls or runs beside the preflight, a cloud-init
\* volume that clean_orphans logs as removed is gone, and so is any other volume
\* unless an `up' was killed before.
THEOREM RemovedVolumesGone == Spec => []RemovedIsGone
<1>1. CleanInv => RemovedIsGone
  BY DEF CleanInv, Removing, Gone, NoKill, RemovedIsGone, At
<1> QED
  BY <1>1, CleanInvariant, PTL

-----------------------------------------------------------------------------
(* One `up' at a time: what the invariant behind VmWhole adds. *)

\* No kill, no command, and no delete task that can outlast its polls.
Calm ==
    /\ NoKill /\ budget["kill"] = 0 /\ budget["cli"] = 0
    /\ budget["slow"] = 0 \/ ApiDeletes = {}

Ci(n, v) == <<n, "ci", v>>
Disk(n, v) == <<n, "disk", v>>

\* A creation has the volumes it allocated.
Allocated ==
    \A v \in Vmids : Creating(v) =>
        /\ Ci(qm[v].node, v) \in vols
        /\ qm[v].disk => Disk(qm[v].node, v) \in vols

Whole == \A v \in Vmids : Exists(v) => /\ Ci(vm[v].node, v) \in vols
                                       /\ Disk(vm[v].node, v) \in vols

WholeInv ==
    /\ CleanInv /\ Calm
    /\ sweep["cli"].pc = "idle" /\ deletes = {}
    /\ Allocated /\ Whole

\* VMs and creations as they were, and no volume of theirs deleted.
LEMMA SameVms ==
    ASSUME WholeInv, \A v \in Vmids : vm'[v].node = vm[v].node, UNCHANGED qm,
           \A o \in vols \ vols' : ~Creating(o[3]) /\ vm[o[3]].node # o[1]
    PROVE  Allocated' /\ Whole'
<1>1. ASSUME NEW v \in Vmids, Creating(v)
      PROVE  /\ Ci(qm[v].node, v) \in vols'
             /\ qm[v].disk => Disk(qm[v].node, v) \in vols'
  <2>1. Ci(qm[v].node, v)[3] = v /\ Disk(qm[v].node, v)[3] = v
    BY DEF Ci, Disk
  <2>2. /\ Ci(qm[v].node, v) \in vols
        /\ qm[v].disk => Disk(qm[v].node, v) \in vols
    BY <1>1 DEF WholeInv, Allocated
  <2> QED
    BY <1>1, <2>1, <2>2
<1>2. ASSUME NEW v \in Vmids, Exists(v)
      PROVE  Ci(vm[v].node, v) \in vols' /\ Disk(vm[v].node, v) \in vols'
  <2>1. /\ Ci(vm[v].node, v)[3] = v /\ Disk(vm[v].node, v)[3] = v
        /\ Ci(vm[v].node, v)[1] = vm[v].node /\ Disk(vm[v].node, v)[1] = vm[v].node
    BY DEF Ci, Disk
  <2>2. Ci(vm[v].node, v) \in vols /\ Disk(vm[v].node, v) \in vols
    BY <1>2 DEF WholeInv, Whole
  <2> QED
    BY <2>1, <2>2
<1> QED
  BY <1>1, <1>2 DEF Allocated, Whole, Creating, Exists

\* A step that only adds volumes, and changes the VM or the creation of v alone.
LEMMA OneVm ==
    ASSUME WholeInv, NEW v \in Vmids, vols \subseteq vols',
           \A w \in Vmids : w # v => vm'[w] = vm[w] /\ qm'[w] = qm[w],
           Creating(v)' => /\ Ci(qm'[v].node, v) \in vols'
                           /\ qm'[v].disk => Disk(qm'[v].node, v) \in vols',
           Exists(v)' => Ci(vm'[v].node, v) \in vols' /\ Disk(vm'[v].node, v) \in vols'
    PROVE  Allocated' /\ Whole'
<1>1. ASSUME NEW w \in Vmids, w # v
      PROVE  /\ Creating(w)' => /\ Ci(qm'[w].node, w) \in vols'
                                /\ qm'[w].disk => Disk(qm'[w].node, w) \in vols'
             /\ Exists(w)' => Ci(vm'[w].node, w) \in vols' /\ Disk(vm'[w].node, w) \in vols'
  BY <1>1 DEF WholeInv, Allocated, Whole, Creating, Exists
<1> QED
  BY <1>1 DEF Allocated, Whole

\* The preflight deletes only what no VM and no creation has.
LEMMA UpWhole == ASSUME WholeInv, Sweep("up") PROVE WholeInv'
<1>1. /\ Touches("up") /\ BudgetFalls /\ budget'["kill"] = budget["kill"]
      /\ \A q \in Procs : q # "up" => sweep'[q] = sweep[q]
  BY SweepMoves, KillFacts DEF WholeInv, CleanInv
<1>2. CleanInv'
  BY UpStep DEF WholeInv
<1>3. sweep'["cli"].pc = "idle"
  BY <1>1, KillFacts DEF WholeInv
<1>4. Calm'
  <2>1. /\ "cli" \in Disturbances /\ "slow" \in Disturbances
        /\ budget \in [Disturbances -> Nat]
    BY DEF Disturbances, WholeInv, CleanInv, TypeOK
  <2>2. /\ budget'["cli"] \in Nat /\ budget'["slow"] \in Nat
        /\ budget'["cli"] <= budget["cli"] /\ budget'["slow"] <= budget["slow"]
    BY <1>1, <2>1 DEF BudgetFalls
  <2>3. budget["cli"] = 0 /\ (budget["slow"] = 0 \/ ApiDeletes = {})
    BY DEF WholeInv, Calm
  <2>4. budget'["cli"] = 0 /\ (budget'["slow"] = 0 \/ ApiDeletes = {})
    BY <2>2, <2>3
  <2> QED
    BY <1>1, <2>4 DEF WholeInv, Calm, NoKill
<1>5. deletes' = {}
  <2>1. ~(ApiDeletes # {} /\ budget["slow"] > 0)
    BY DEF WholeInv, Calm
  <2> QED
    BY <1>1, <2>1 DEF WholeInv, Touches
<1>6. \A o \in vols \ vols' : ~Creating(o[3]) /\ vm[o[3]].node # o[1]
  <2> SUFFICES ASSUME NEW o \in vols, o \notin vols'
               PROVE  ~Creating(o[3]) /\ vm[o[3]].node # o[1]
    OBVIOUS
  <2>1. sweep["up"].pc \in {"api", "ssh"} /\ Handles("up")
    BY <1>1 DEF Touches
  <2>2. o \in sweep["up"].todo
    BY <2>1 DEF Handles
  <2>3. o \in sweep["up"].orphans
    BY <2>1, <2>2 DEF WholeInv, CleanInv, Removing
  <2>4. o[3] \in Vmids
    BY DEF WholeInv, CleanInv, TypeOK, Volumes
  <2> QED
    BY <2>1, <2>3, <2>4 DEF WholeInv, CleanInv, Calm, NoStray, Listed
<1>7. Allocated' /\ Whole'
  BY <1>1, <1>6, SameVms DEF Touches
<1> QED
  BY <1>2, <1>3, <1>4, <1>5, <1>7 DEF WholeInv

\* The other steps: an `up' begins and ends, VMs are created, powered, destroyed
\* and backed up.
LEMMA RestWhole ==
    ASSUME WholeInv, [Next]_vars, ~Sweep("up") PROVE WholeInv'
<1>0. CleanInv'
  BY CleanInvStep DEF WholeInv
<1>1. /\ TypeOK /\ budget["kill"] = 0 /\ budget["cli"] = 0 /\ deletes = {}
      /\ sweep["cli"].pc = "idle"
  BY DEF WholeInv, CleanInv, Calm
<1>2. ~Sweep("cli") /\ ~StartCli /\ ~KillUp /\ \A o \in Volumes : ~DeleteRuns(o)
  <2>1. ~Spend("kill") /\ ~Spend("cli")
    BY <1>1 DEF Spend
  <2> QED
    BY <1>1, <2>1 DEF Sweep, Auth, ListVms, ListVmsFails, ReadContent, ContentDone,
          DeleteContent, ApiDone, SshFree, SshUnavailable, SshNoPassword, SshDone,
          Report, At, StartCli, KillUp, DeleteRuns
<1>s. SUFFICES /\ UNCHANGED deletes /\ sweep'["cli"] = sweep["cli"]
               /\ \A k \in {"kill", "cli", "slow"} : budget'[k] = budget[k]
               /\ Allocated' /\ Whole'
  BY <1>0 DEF WholeInv, Calm, NoKill
<1>3. \A new : Go("up", new) => sweep'["cli"] = sweep["cli"]
  BY <1>1, KillFacts DEF Go, TypeOK
<1>4. ASSUME NEW k \in {"crash", "backup"}, Spend(k)
      PROVE  \A j \in {"kill", "cli", "slow"} : budget'[j] = budget[j]
  BY <1>1, <1>4, SpendFacts DEF Disturbances
<1>5. CASE UNCHANGED vars \/ StartUp \/ FinishUp
  <2>1. UNCHANGED <<vm, qm, vols, deletes, budget>>
    BY <1>5 DEF vars, StartUp, FinishUp, pve
  <2>2. sweep'["cli"] = sweep["cli"]
    BY <1>3, <1>5 DEF vars, StartUp, FinishUp
  <2> QED
    BY <2>1, <2>2, SameVms
<1>6. ASSUME NEW v \in Vmids, QmAllocate(v)
      PROVE  /\ UNCHANGED <<deletes, budget>> /\ sweep'["cli"] = sweep["cli"]
             /\ Allocated' /\ Whole'
  <2>1. ~Exists(v) /\ UNCHANGED <<vm, deletes, budget>>
    BY <1>6 DEF QmAllocate
  <2>2. PICK n \in Nodes :
           \/ /\ Go("up", [sweep["up"] EXCEPT !.pc = "failing"])
              /\ UNCHANGED <<qm, vols>>
           \/ /\ qm' = [qm EXCEPT ![v] = [node |-> n, disk |-> FALSE, own |-> TRUE]]
              /\ vols' = vols \cup {<<n, "ci", v>>}
              /\ UNCHANGED sweep
    BY <1>6 DEF QmAllocate
  <2>3. CASE /\ Go("up", [sweep["up"] EXCEPT !.pc = "failing"])
             /\ UNCHANGED <<qm, vols>>
    BY <1>3, <2>1, <2>3, SameVms
  <2>4. CASE /\ qm' = [qm EXCEPT ![v] = [node |-> n, disk |-> FALSE, own |-> TRUE]]
             /\ vols' = vols \cup {<<n, "ci", v>>}
             /\ UNCHANGED sweep
    <3>1. /\ qm'[v].node = n /\ ~qm'[v].disk
          /\ \A w \in Vmids : w # v => qm'[w] = qm[w]
      BY <1>1, <2>4 DEF TypeOK
    <3>2. Ci(n, v) \in vols' /\ vols \subseteq vols' /\ ~Exists(v)'
      BY <2>1, <2>4 DEF Ci, Exists
    <3>3. Allocated' /\ Whole'
      BY <2>1, <3>1, <3>2, OneVm
    <3> QED
      BY <2>1, <2>4, <3>3
  <2> QED
    BY <2>2, <2>3, <2>4
<1>7. ASSUME NEW v \in Vmids, QmImport(v)
      PROVE  /\ UNCHANGED <<deletes, budget, sweep>> /\ Allocated' /\ Whole'
  <2>1. /\ qm' = [qm EXCEPT ![v].disk = TRUE] /\ Creating(v)
        /\ vols' = vols \cup {<<qm[v].node, "disk", v>>}
        /\ UNCHANGED <<vm, deletes, want, sweep, budget>>
    BY <1>7 DEF QmImport
  <2>2. qm'[v].node = qm[v].node /\ \A w \in Vmids : w # v => qm'[w] = qm[w]
    BY <1>1, <2>1 DEF TypeOK
  <2>3. /\ Ci(qm[v].node, v) \in vols' /\ Disk(qm[v].node, v) \in vols'
        /\ vols \subseteq vols' /\ ~Exists(v)'
    BY <2>1 DEF WholeInv, Allocated, Disk, CleanInv, Calm, NoStray, Exists
  <2> QED
    BY <2>1, <2>2, <2>3, OneVm
<1>8. ASSUME NEW v \in Vmids, QmConfig(v)
      PROVE  /\ UNCHANGED <<deletes, budget, sweep>> /\ Allocated' /\ Whole'
  <2>1. /\ vm' = [vm EXCEPT ![v].node = qm[v].node] /\ qm' = [qm EXCEPT ![v] = NoQm]
        /\ Creating(v) /\ qm[v].disk
        /\ UNCHANGED <<vols, deletes, want, sweep, budget>>
    BY <1>8 DEF QmConfig
  <2>2. /\ vm'[v].node = qm[v].node /\ ~Creating(v)'
        /\ \A w \in Vmids : w # v => vm'[w] = vm[w] /\ qm'[w] = qm[w]
    BY <1>1, <2>1, NoQmFacts DEF TypeOK, Creating
  <2>3. Ci(vm'[v].node, v) \in vols' /\ Disk(vm'[v].node, v) \in vols'
    BY <2>1, <2>2 DEF WholeInv, Allocated
  <2> QED
    BY <2>1, <2>2, <2>3, OneVm
<1>9. ASSUME NEW v \in Vmids, QmDies(v)
      PROVE  /\ UNCHANGED deletes /\ sweep'["cli"] = sweep["cli"] /\ Spend("crash")
             /\ Allocated' /\ Whole'
  <2>1. /\ Spend("crash") /\ qm' = [qm EXCEPT ![v] = NoQm]
        /\ UNCHANGED <<vm, vols, deletes, want>>
        /\ \/ Go("up", [sweep["up"] EXCEPT !.pc = "failing"])
           \/ UNCHANGED sweep
    BY <1>9 DEF QmDies
  <2>2. ~Creating(v)' /\ \A w \in Vmids : w # v => vm'[w] = vm[w] /\ qm'[w] = qm[w]
    BY <1>1, <2>1, NoQmFacts DEF TypeOK, Creating
  <2>3. Exists(v)' => Ci(vm'[v].node, v) \in vols' /\ Disk(vm'[v].node, v) \in vols'
    BY <2>1 DEF WholeInv, Whole, Exists
  <2>4. Allocated' /\ Whole'
    BY <2>1, <2>2, <2>3, OneVm
  <2> QED
    BY <1>3, <2>1, <2>4
<1>10. ASSUME NEW v \in Vmids, Power(v) \/ Backup(v)
       PROVE  /\ UNCHANGED <<deletes, sweep>>
              /\ UNCHANGED budget \/ Spend("backup")
              /\ Allocated' /\ Whole'
  <2>1. UNCHANGED <<qm, deletes, sweep>> /\ vols \subseteq vols'
        /\ (UNCHANGED budget \/ Spend("backup"))
    BY <1>10 DEF Power, Backup
  <2>2. \A w \in Vmids : vm'[w].node = vm[w].node
    BY <1>1, <1>10 DEF Power, Backup, TypeOK
  <2> QED
    BY <2>1, <2>2, SameVms
<1>11. ASSUME NEW v \in Vmids, DestroyVm(v)
       PROVE  /\ UNCHANGED <<deletes, sweep, budget>> /\ Allocated' /\ Whole'
  <2>1. /\ vols' = vols \ {Ci(vm[v].node, v), Disk(vm[v].node, v)} /\ Exists(v)
        /\ vm' = [vm EXCEPT ![v] = [node |-> None, on |-> FALSE]]
        /\ UNCHANGED <<qm, deletes, want, sweep, budget>>
    BY <1>11 DEF DestroyVm, Ci, Disk
  <2>2. ~Exists(v)' /\ \A w \in Vmids : w # v => vm'[w] = vm[w]
    BY <1>1, <2>1 DEF TypeOK, Exists
  <2>3. ~Creating(v)
    BY <2>1 DEF WholeInv, CleanInv, Calm, NoStray
  <2>4. ASSUME NEW w \in Vmids, w # v, NEW n
        PROVE  /\ Ci(n, w) \in vols => Ci(n, w) \in vols'
               /\ Disk(n, w) \in vols => Disk(n, w) \in vols'
    BY <2>1, <2>4 DEF Ci, Disk
  <2>5. Allocated'
    BY <2>1, <2>3, <2>4 DEF WholeInv, Allocated, Creating
  <2>6. Whole'
    BY <2>2, <2>4 DEF WholeInv, Whole, Exists
  <2> QED
    BY <2>1, <2>5, <2>6
<1> QED
  BY <1>2, <1>4, <1>5, <1>6, <1>7, <1>8, <1>9, <1>10, <1>11 DEF Next, Pve, Procs

\* As long as no `up' is killed, the command is not run beside it and no delete
\* task outlasts its polls (PVE 9.2 has none: it answers 501 to every content
\* DELETE), a VM that PVE lists has its cloud-init volume and its disk, whatever
\* requests fail and whatever creations die.
THEOREM VmsStayWhole ==
    ASSUME Limit["kill"] = 0, Limit["cli"] = 0, Limit["slow"] = 0 \/ ApiDeletes = {}
    PROVE  Spec => []VmWhole
<1>1. Init => WholeInv
  <2> SUFFICES ASSUME Init PROVE WholeInv
    OBVIOUS
  <2>1. Calm /\ deletes = {} /\ sweep["cli"].pc = "idle"
    BY KillFacts DEF Init, Calm, NoKill
  <2>2. \A v \in Vmids : ~Creating(v) /\ ~Exists(v)
    BY NoQmFacts DEF Init, Creating, Exists
  <2> QED
    BY <2>1, <2>2, CleanInit DEF WholeInv, Allocated, Whole
<1>2. WholeInv /\ [Next]_vars => WholeInv'
  BY UpWhole, RestWhole
<1>3. WholeInv => VmWhole
  BY DEF WholeInv, Whole, VmWhole, Ci, Disk
<1> QED
  BY <1>1, <1>2, <1>3, PTL DEF Spec
=============================================================================
