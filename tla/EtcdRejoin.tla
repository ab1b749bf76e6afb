----------------------------- MODULE EtcdRejoin -----------------------------
(***************************************************************************)
(* The control plane's etcd cluster and the automation that forms and      *)
(* heals it: the form play of kubecp.yml (role rke2_server, one node at a  *)
(* time), the etcd_rejoin role on every control plane node at once, and    *)
(* the etcd_stability census.                                              *)
(*                                                                         *)
(* Ansible's linear strategy runs one task on every host still in the play *)
(* before the next task starts.  RKE2's own part (what a starting server   *)
(* does with its store, member removal, learner promotion) is external and *)
(* follows what the roles say of it.                                       *)
(***************************************************************************)
EXTENDS Naturals, FiniteSets

CONSTANTS
    CPs,          \* control plane nodes, in inventory order
    BootHost,     \* inventory_kubecp_bootstrap_host
    Reruns,       \* what is run once all nodes joined: "kubecp", "rejoin"
    Limit         \* how many disturbances of each kind there are

\* A store wedged by an install burst; a local etcd status check that times out
\* and is logged; a voter read that fails on a voter; a run killed or a wait
\* refused to the end; an unplanned node reboot.
Kinds == {"strike", "hiccup", "misread", "fault", "reboot"}

ASSUME ConstantsAssumption ==
    /\ CPs \subseteq Nat /\ IsFiniteSet(CPs)
    /\ BootHost \in CPs
    /\ Reruns \subseteq {"kubecp", "rejoin"}
    /\ Limit \in [Kinds -> Nat]

VARIABLES
    cp,       \* each node: service, store, membership, journal, config, markers
    play,     \* "none", "form", "rejoin" (etcd_rejoin.yml), "settle", "census"
    active,   \* hosts still in the play
    formed,   \* nodes the form play has finished
    pc,       \* next etcd_rejoin task of each host
    seen,     \* what each host has registered: {"sig", "running"}
    budget    \* faults still to come, by kind

vars == <<cp, play, active, formed, pc, seen, budget>>

\* The tasks of etcd_rejoin that read or change state, in their order.
Scan == 1
Facts == 2
Voter == 3
Stop == 4
Probe == 5
Annotate == 6
Removed == 7
Wipe == 8
Pin == 9
Config == 10
Reboot == 11
Start == 12
Promoted == 13
Done == 14

NodeState ==
    [svc    : {"running", "failed", "stopped"},
     store  : {"none", "good", "wedged", "alone"},
     member : {"none", "learner", "voter"},
     sig    : BOOLEAN,     \* a wedge signature in this boot's journal
     srv    : BOOLEAN,     \* a server: line in config.yaml
     pin    : BOOLEAN,     \* the join-pin marker file
     ann    : BOOLEAN,     \* the remove annotation on the Node
     marker : BOOLEAN]     \* the removed-node-name annotation on the Node

Voters == {n \in CPs : cp[n].member = "voter"}
LiveVoters == {n \in Voters : cp[n].svc = "running" /\ cp[n].store = "good"}
HasQuorum == 2 * Cardinality(LiveVoters) > Cardinality(Voters)
ClusterExists == \E n \in CPs : cp[n].member # "none"

\* Before the first build: nothing started, nothing configured.
Init ==
    /\ cp = [n \in CPs |-> [svc |-> "stopped", store |-> "none",
                            member |-> "none", sig |-> FALSE, srv |-> FALSE,
                            pin |-> FALSE, ann |-> FALSE, marker |-> FALSE]]
    /\ play = "none" /\ active = {} /\ formed = {}
    /\ pc = [n \in CPs |-> Done] /\ seen = [n \in CPs |-> {}]
    /\ budget = Limit

Spend(kind) == /\ budget[kind] > 0
               /\ budget' = [budget EXCEPT ![kind] = @ - 1]

-----------------------------------------------------------------------------
(* RKE2 (external). *)

Failed(s) == [s EXCEPT !.svc = "failed", !.sig = TRUE]

\* etcd admits one learner at a time.
LearnerPending == \E n \in CPs : cp[n].member = "learner"

\* What rke2-server makes of node state s when it starts.
Booted(s) ==
    CASE s.store = "wedged" -> Failed(s)
      [] s.store = "alone" -> [s EXCEPT !.svc = "running"]
      [] s.store = "good" ->
            IF s.member = "none" THEN Failed(s) ELSE [s EXCEPT !.svc = "running"]
      [] s.store = "none" /\ ~s.srv ->
            IF ClusterExists
            THEN [s EXCEPT !.svc = "running", !.store = "alone"]
            ELSE [s EXCEPT !.svc = "running", !.store = "good",
                           !.member = "voter", !.ann = FALSE, !.marker = FALSE]
      [] s.store = "none" /\ s.srv ->
            IF s.member = "none" /\ HasQuorum /\ ~LearnerPending
            THEN [s EXCEPT !.svc = "running", !.store = "good",
                           !.member = "learner", !.ann = FALSE, !.marker = FALSE]
            ELSE Failed(s)

\* A joining server waits for its turn, and its start job with it.
Queued(s) == /\ s.svc # "running" /\ s.store = "none" /\ s.srv
             /\ s.member = "none" /\ HasQuorum /\ LearnerPending

\* systemd retries a server that exited.
Retry(n) ==
    /\ cp[n].svc = "failed"
    /\ cp' = [cp EXCEPT ![n] = Booted(cp[n])]
    /\ UNCHANGED <<play, active, formed, pc, seen, budget>>

\* The leader's learner management.
PromoteLearner(n) ==
    /\ cp[n].member = "learner" /\ cp[n].svc = "running" /\ cp[n].store = "good"
    /\ HasQuorum
    /\ cp' = [cp EXCEPT ![n].member = "voter"]
    /\ UNCHANGED <<play, active, formed, pc, seen, budget>>

\* The member removal controller of the leader.
RemoveMember(n) ==
    /\ cp[n].ann /\ ~cp[n].marker /\ HasQuorum
    /\ cp' = [cp EXCEPT ![n].member = "none", ![n].marker = TRUE]
    /\ UNCHANGED <<play, active, formed, pc, seen, budget>>

\* A node the first build has not joined yet.
Unformed(n) == cp[n].store = "none" /\ ~cp[n].marker

\* A burst on the complete cluster wedges the store of a node; the others keep
\* their quorum.
Strike(n) ==
    /\ \A m \in CPs : ~Unformed(m)
    /\ cp[n].svc = "running" /\ cp[n].store = "good"
    /\ 2 * Cardinality(LiveVoters \ {n}) > Cardinality(Voters)
    /\ cp' = [cp EXCEPT ![n] = [Failed(@) EXCEPT !.store = "wedged"]]
    /\ Spend("strike")
    /\ UNCHANGED <<play, active, formed, pc, seen>>

\* "Failed to check local etcd status for learner management" on a live node.
Hiccup(n) ==
    /\ cp[n].svc = "running" /\ ~cp[n].sig
    /\ cp' = [cp EXCEPT ![n].sig = TRUE]
    /\ Spend("hiccup")
    /\ UNCHANGED <<play, active, formed, pc, seen>>

\* A reboot begins a new journal, and the unit is enabled.
Rebooted(s) == Booted([s EXCEPT !.sig = FALSE, !.svc = "stopped"])

NodeReboots(n) ==
    /\ cp[n].svc # "stopped" \/ cp[n].member # "none" \/ cp[n].marker
    /\ cp' = [cp EXCEPT ![n] = Rebooted(cp[n])]
    /\ Spend("reboot")
    /\ UNCHANGED <<play, active, formed, pc, seen>>

Rke2 == \E n \in CPs : \/ Retry(n) \/ PromoteLearner(n) \/ RemoveMember(n)
                       \/ Strike(n) \/ Hiccup(n) \/ NodeReboots(n)

-----------------------------------------------------------------------------
(* kubecp.yml: form the control plane, then settle it. *)

\* The first build, or a later one.
StartKubecp ==
    /\ play = "none"
    /\ \/ "kubecp" \in Reruns
       \/ \E n \in CPs : Unformed(n)
    /\ play' = "form" /\ formed' = {}
    /\ UNCHANGED <<cp, active, pc, seen, budget>>

\* The config template: a join node, or one with a join-pin, gets a server line.
Rendered(n) == [cp[n] EXCEPT !.srv = (n # BootHost) \/ cp[n].pin]

\* Role rke2_server on the next node: render, restart a running server when the
\* file changed, start it otherwise, and wait for readyz, which needs a quorum.
\* A node that does not come up ends the run: its batch is the whole node.
FormNode(n) ==
    /\ play = "form"
    /\ n \in CPs \ formed /\ \A m \in CPs \ formed : n <= m
    /\ ~Queued(Rendered(n))
    /\ \E changed \in BOOLEAN :
          cp' = [cp EXCEPT ![n] = IF cp[n].svc = "running" /\ ~changed
                                  THEN Rendered(n) ELSE Booted(Rendered(n))]
    /\ IF cp'[n].svc = "running" /\ (cp'[n].store = "alone" \/ HasQuorum')
       THEN formed' = formed \cup {n} /\ play' = "form"
       ELSE formed' = formed /\ play' = "none"
    /\ UNCHANGED <<active, pc, seen, budget>>

Enter(p) ==
    /\ play' = p /\ active' = CPs
    /\ pc' = [n \in CPs |-> Scan] /\ seen' = [n \in CPs |-> {}]
    /\ UNCHANGED <<cp, formed, budget>>

StartSettle == play = "form" /\ formed = CPs /\ Enter("settle")

\* etcd_rejoin.yml on its own, the later strike window.
StartRejoin == play = "none" /\ "rejoin" \in Reruns /\ Enter("rejoin")

-----------------------------------------------------------------------------
(* Role etcd_rejoin. *)

\* Host h runs task t: no host of the play is behind it.
At(h, t) ==
    /\ play \in {"rejoin", "settle"}
    /\ h \in active /\ pc[h] = t
    /\ \A g \in active : pc[g] >= t

Advance(h, t) == /\ pc' = [pc EXCEPT ![h] = t]
                 /\ UNCHANGED <<play, active, formed>>

\* The journal of the current boot.
TaskScan(h) ==
    /\ At(h, Scan)
    /\ seen' = [seen EXCEPT ![h] = IF cp[h].sig THEN {"sig"} ELSE {}]
    /\ Advance(h, Facts)
    /\ UNCHANGED <<cp, budget>>

\* Mutant of TaskFacts: the raw unit state is recorded, not its comparison.
TaskFactsRaw(h) ==
    /\ At(h, Facts)
    /\ seen' = [seen EXCEPT ![h] = @ \cup {cp[h].svc}]
    /\ Advance(h, Voter)
    /\ UNCHANGED <<cp, budget>>

\* service_facts: whether rke2-server is running now.
TaskFacts(h) ==
    /\ At(h, Facts)
    /\ seen' = [seen EXCEPT ![h] = IF cp[h].svc = "running"
                                   THEN @ \cup {"running"} ELSE @]
    /\ Advance(h, Voter)
    /\ UNCHANGED <<cp, budget>>

\* Mutant of Wedged: the journal signature is not required.
WedgedUnsigned(h, voter) == "running" \notin seen[h] \/ ~voter

\* A signature in the journal, and the service down or not a voter.
Wedged(h, voter) == "sig" \in seen[h] /\ ("running" \notin seen[h] \/ ~voter)

\* The voter condition is read once, and any failure reads as not a voter.
TaskVoter(h) ==
    /\ At(h, Voter)
    /\ LET voter == cp[h].member = "voter" /\ cp[h].svc = "running"
       IN  \/ /\ Advance(h, IF Wedged(h, voter) THEN Stop ELSE Done)
              /\ UNCHANGED budget
           \/ /\ voter /\ Spend("misread")
              /\ Advance(h, IF Wedged(h, FALSE) THEN Stop ELSE Done)
    /\ UNCHANGED <<cp, seen>>

TaskStop(h) ==
    /\ At(h, Stop)
    /\ cp' = [cp EXCEPT ![h].svc = "stopped"]
    /\ Advance(h, Probe)
    /\ UNCHANGED <<seen, budget>>

PeerAnswers(h) == \E m \in CPs \ {h} : cp[m].svc = "running"

\* The until condition of the bounded wait in task t of host h.
Met(h, t) ==
    CASE t = Probe -> PeerAnswers(h)
      [] t = Annotate -> PeerAnswers(h) /\ HasQuorum
      [] t = Removed -> cp[h].marker
      [] t = Promoted -> PeerAnswers(h) /\ cp[h].member = "voter"

TaskProbe(h) ==
    /\ At(h, Probe) /\ Met(h, Probe)
    /\ Advance(h, Annotate)
    /\ UNCHANGED <<cp, seen, budget>>

\* The annotation is a write to the API of the surviving cluster.
TaskAnnotate(h) ==
    /\ At(h, Annotate) /\ Met(h, Annotate)
    /\ cp' = [cp EXCEPT ![h].ann = TRUE]
    /\ Advance(h, Removed)
    /\ UNCHANGED <<seen, budget>>

\* Mutant of TaskRemoved: a spent wait falls through to the wipe.
TaskRemovedUnasserted(h) ==
    /\ At(h, Removed)
    /\ Advance(h, Wipe)
    /\ UNCHANGED <<cp, seen, budget>>

\* The wait ends on the marker, and the assert lets nothing else through.
TaskRemoved(h) ==
    /\ At(h, Removed) /\ Met(h, Removed)
    /\ Advance(h, Wipe)
    /\ UNCHANGED <<cp, seen, budget>>

\* Mutant of TaskWipe: the store is left in place.
TaskWipeSkipped(h) ==
    /\ At(h, Wipe)
    /\ Advance(h, Pin)
    /\ UNCHANGED <<cp, seen, budget>>

TaskWipe(h) ==
    /\ At(h, Wipe)
    /\ cp' = [cp EXCEPT ![h].store = "none"]
    /\ Advance(h, Pin)
    /\ UNCHANGED <<seen, budget>>

TaskPin(h) ==
    /\ At(h, Pin)
    /\ cp' = [cp EXCEPT ![h].pin = TRUE]
    /\ Advance(h, Config)
    /\ UNCHANGED <<seen, budget>>

\* Mutant of TaskConfig: only the marker file is written, not the live config.
TaskConfigSkipped(h) ==
    /\ At(h, Config)
    /\ Advance(h, Reboot)
    /\ UNCHANGED <<cp, seen, budget>>

TaskConfig(h) ==
    /\ At(h, Config)
    /\ cp' = [cp EXCEPT ![h].srv = TRUE]
    /\ Advance(h, Reboot)
    /\ UNCHANGED <<seen, budget>>

TaskReboot(h) ==
    /\ At(h, Reboot)
    /\ cp' = [cp EXCEPT ![h] = Rebooted(cp[h])]
    /\ Advance(h, Start)
    /\ UNCHANGED <<seen, budget>>

\* A server that does not start fails its host.
TaskStart(h) ==
    /\ At(h, Start) /\ ~Queued(cp[h])
    /\ LET s == IF cp[h].svc = "running" THEN cp[h] ELSE Booted(cp[h])
       IN  /\ cp' = [cp EXCEPT ![h] = s]
           /\ active' = IF s.svc = "running" THEN active ELSE active \ {h}
           /\ pc' = [pc EXCEPT ![h] = IF s.svc = "running" THEN Promoted ELSE Done]
    /\ UNCHANGED <<play, formed, seen, budget>>

TaskPromoted(h) ==
    /\ At(h, Promoted) /\ Met(h, Promoted)
    /\ Advance(h, Done)
    /\ UNCHANGED <<cp, seen, budget>>

\* A bounded wait is spent and the assert that follows fails the host: the
\* condition did not come, or every poll of it was refused (a fault).
BudgetSpent(h) ==
    /\ \E t \in {Probe, Annotate, Removed, Promoted} :
          At(h, t) /\ IF Met(h, t) THEN Spend("fault") ELSE UNCHANGED budget
    /\ active' = active \ {h}
    /\ pc' = [pc EXCEPT ![h] = Done]
    /\ UNCHANGED <<cp, play, formed, seen>>

Role(h) == \/ TaskScan(h) \/ TaskFacts(h) \/ TaskVoter(h) \/ TaskStop(h)
           \/ TaskProbe(h) \/ TaskAnnotate(h) \/ TaskRemoved(h) \/ TaskWipe(h)
           \/ TaskPin(h) \/ TaskConfig(h) \/ TaskReboot(h) \/ TaskStart(h)
           \/ TaskPromoted(h)

-----------------------------------------------------------------------------
(* The end of the plays. *)

RoleEnds ==
    /\ play \in {"rejoin", "settle"}
    /\ \A h \in active : pc[h] = Done
    /\ play' = IF play = "settle" /\ BootHost \in active THEN "census" ELSE "none"
    /\ UNCHANGED <<cp, active, formed, pc, seen, budget>>

\* etcd_stability: every control plane node a live voter, and a write commits.
CensusPasses ==
    /\ play = "census"
    /\ LiveVoters = CPs
    /\ play' = "none"
    /\ UNCHANGED <<cp, active, formed, pc, seen, budget>>

CensusFails ==
    /\ play = "census"
    /\ LiveVoters # CPs
    /\ play' = "none"
    /\ UNCHANGED <<cp, active, formed, pc, seen, budget>>

\* The run is killed.
RunEnds ==
    /\ play # "none"
    /\ Spend("fault")
    /\ play' = "none"
    /\ UNCHANGED <<cp, active, formed, pc, seen>>

Ansible == \/ StartKubecp \/ StartSettle \/ StartRejoin
           \/ \E n \in CPs : FormNode(n)
           \/ \E h \in CPs : Role(h) \/ BudgetSpent(h)
           \/ RoleEnds \/ CensusPasses \/ CensusFails \/ RunEnds

Next == Rke2 \/ Ansible

Spec == Init /\ [][Next]_vars

\* Runs are repeated and their tasks progress, systemd retries, and a leader
\* with a quorum removes and promotes members.
Fairness ==
    /\ WF_vars(StartKubecp \/ StartRejoin)
    /\ WF_vars(StartSettle \/ RoleEnds \/ CensusPasses \/ CensusFails)
    /\ \A n \in CPs : /\ WF_vars(FormNode(n)) /\ WF_vars(Role(n) \/ BudgetSpent(n))
                      /\ WF_vars(PromoteLearner(n)) /\ WF_vars(RemoveMember(n))

FairSpec == Spec /\ Fairness

-----------------------------------------------------------------------------
(* Properties. *)

\* Every variable has its type.
TypeOK ==
    /\ cp \in [CPs -> NodeState]
    /\ play \in {"none", "form", "rejoin", "settle", "census"}
    /\ active \in SUBSET CPs /\ formed \in SUBSET CPs
    /\ pc \in [CPs -> Scan .. Done]
    /\ seen \in [CPs -> SUBSET {"sig", "running"}]
    /\ budget \in [Kinds -> Nat]

\* "a wiped store re-adding this node by name while the stale entry persists
\* fails the join": a store is wiped only once the cluster dropped its member.
WipeOnlyAfterRemoved ==
    [][\A n \in CPs : cp[n].store # "none" /\ cp'[n].store = "none" =>
                        cp[n].member = "none"]_vars

\* "re-deriving first-init on a later build is the failure this marker exists
\* to prevent": no node ever starts a second cluster.
NoSecondCluster == \A n \in CPs : cp[n].store # "alone"

\* "The role is self-detecting and a no-op on a healthy node": the automation
\* never costs the cluster its quorum.
QuorumKept == ClusterExists => HasQuorum

\* No live node has logged the signature of a wedged one.
SignatureIsTrue == budget["hiccup"] = Limit["hiccup"]

\* As long as the signature the role looks for is only logged by wedged nodes,
\* every wedged node ends up in the quorum again.
Healed ==
    []SignatureIsTrue =>
        \A n \in CPs : (cp[n].store = "wedged") ~>
                           (cp[n].store = "good" /\ cp[n].member = "voter")
=============================================================================
