------------------------------ MODULE FluxGate ------------------------------
(***************************************************************************)
(* The gates a site build puts on the HelmReleases of the cluster: the     *)
(* read-burst gate (roles/readburst_gate), then cluster_init, which writes *)
(* the vault entries the releases read, publishes the marker that lets the *)
(* observability releases be created and resets stalled releases           *)
(* (roles/openbao_secrets, garage_init, flux_unstall), and the two surveys *)
(* of the Flux readiness gate (roles/flux_ready, playbooks/flux_ready.yml),*)
(* while Flux creates and reconciles the releases on its own.              *)
(*                                                                         *)
(* `api' stands for a 3/3 control plane: without it neither Flux nor a     *)
(* command of the build gets anywhere.  Polls are not counted: a poll that *)
(* fails is followed by another one or by the end of the budget.           *)
(***************************************************************************)
EXTENDS Naturals

CONSTANTS
    Releases,    \* the HelmReleases of the cluster state
    Tier,        \* readburst_gate_tier
    Unstall,     \* the releases of flux_unstall_namespace
    Needed,      \* releases whose pod cluster_init waits for
    Deps,        \* release -> releases its Kustomization waits for
    Gated,       \* releases held by the garage-ready Kustomization
    Entry,       \* release -> the vault entry it reads, or "none"
    Faulty,      \* the kinds of fault that happen
    MaxFaults    \* and how many of them

ASSUME FluxAssumption ==
    /\ Tier \subseteq Releases /\ Unstall \subseteq Releases
    /\ Needed \subseteq Releases
    /\ Deps \in [Releases -> SUBSET Releases]
    /\ Gated \subseteq Releases
    /\ Entry \in [Releases -> {"none", "runtime", "garage"}]
    /\ MaxFaults \in Nat

VARIABLES
    \* The cluster.
    api,         \* the control plane answers
    exists,      \* HelmReleases created so far
    suspended,   \* spec.suspend
    ready,       \* Ready=True; a suspended release keeps its conditions
    stalled,     \* Stalled=True: the retry budget is burned
    supplied,    \* releases whose prerequisites are there
    vault,       \* the entries written: "runtime" and, with the S3 keys, "garage"
    store,       \* Garage: "down", "up", its key "minted", "recorded" in env.sh
    marker,      \* the ConfigMap garage-buckets-ready
    \* The build.
    pc,
    phase,       \* the loop it is in: "release", "unstall", "confirm", "survey1", "survey2"
    todo,        \* releases the loop still has to visit
    half,        \* releases it has suspended and not resumed yet
    notready,    \* the poll counted a release that is not Ready, or found one stalled
    clean,       \* no suspend or resume of this build failed
    outcome,     \* how the last build ended
    budget       \* faults left

vars == <<api, exists, suspended, ready, stalled, supplied, vault, store, marker, pc,
          phase, todo, half, notready, clean, outcome, budget>>
groundwork == <<vault, store, marker>>
cluster == <<api, exists, suspended, ready, stalled, supplied, groundwork>>
poll == <<phase, todo, half, notready>>

Init ==
    /\ api = TRUE /\ exists = {} /\ suspended = {} /\ ready = {} /\ stalled = {}
    /\ supplied = {}
    /\ vault = {} /\ store = "down" /\ marker = FALSE
    /\ pc = "idle" /\ phase = "release" /\ todo = {} /\ half = {} /\ notready = FALSE
    /\ clean = TRUE /\ outcome = "none"
    /\ budget = MaxFaults

Spend(kind) == kind \in Faulty /\ budget > 0 /\ budget' = budget - 1

-----------------------------------------------------------------------------
(* Flux (external). *)

\* The kustomize-controller creates a release once what it waits for is Ready.
Create(r) ==
    /\ api /\ r \notin exists /\ Deps[r] \subseteq ready
    /\ r \in Gated => marker
    /\ exists' = exists \cup {r}
    /\ UNCHANGED <<api, suspended, ready, stalled, supplied, groundwork, pc, poll, clean,
                   outcome, budget>>

\* What the release needs gets there: a chart, an image, and the Secret that
\* external-secrets makes of a vault entry, when the entry was written.
Supply(r) ==
    /\ r \notin supplied /\ Entry[r] \in vault \cup {"none"}
    /\ supplied' = supplied \cup {r}
    /\ UNCHANGED <<api, exists, suspended, ready, stalled, groundwork, pc, poll, clean,
                   outcome, budget>>

\* The pod of Garage starts on its synced credentials.
StoreStarts ==
    /\ api /\ store = "down" /\ "runtime" \in vault
    /\ store' = "up"
    /\ UNCHANGED <<api, exists, suspended, ready, stalled, supplied, vault, marker, pc,
                   poll, clean, outcome, budget>>

\* What the helm-controller works on.
Pending(r) == api /\ r \in exists \ (suspended \cup stalled \cup ready)

Reconcile(r) ==
    /\ Pending(r) /\ r \in supplied
    /\ ready' = ready \cup {r}
    /\ UNCHANGED <<api, exists, suspended, stalled, supplied, groundwork, pc, poll, clean,
                   outcome, budget>>

\* The retries are burned on a missing prerequisite.
Exhaust(r) ==
    /\ Pending(r) /\ r \notin supplied
    /\ stalled' = stalled \cup {r}
    /\ UNCHANGED <<api, exists, suspended, ready, supplied, groundwork, pc, poll, clean,
                   outcome, budget>>

\* A release fails after it was Ready.
Degrade(r) ==
    /\ r \in ready \ suspended /\ Spend("degrade")
    /\ ready' = ready \ {r}
    /\ UNCHANGED <<api, exists, suspended, stalled, supplied, groundwork, pc, poll, clean,
                   outcome>>

\* A control plane member is wedged.
Strike ==
    /\ api /\ Spend("strike")
    /\ api' = FALSE
    /\ UNCHANGED <<exists, suspended, ready, stalled, supplied, groundwork, pc, poll,
                   clean, outcome>>

-----------------------------------------------------------------------------
(* The commands of the build. *)

\* A flux command succeeds, or fails without a trace: `>/dev/null 2>&1'.
Succeeds == api /\ UNCHANGED <<clean, budget>>
Fails == /\ clean' = FALSE
         /\ IF api THEN Spend("cli") ELSE UNCHANGED budget

SuspendCall(r) ==
    \/ Succeeds /\ suspended' = suspended \cup {r}
    \/ Fails /\ UNCHANGED suspended

\* Resuming a suspended release starts it with a new retry budget.
ResumeCall(r) ==
    \/ /\ Succeeds
       /\ suspended' = suspended \ {r}
       /\ stalled' = IF r \in suspended THEN stalled \ {r} ELSE stalled
    \/ Fails /\ UNCHANGED <<suspended, stalled>>

Ends(how) ==
    /\ pc' = "idle" /\ outcome' = how
    /\ phase' = "release" /\ todo' = {} /\ half' = {} /\ notready' = FALSE

Start ==
    /\ pc = "idle" /\ pc' = "rejoin"
    /\ clean' = TRUE /\ outcome' = "none"
    /\ UNCHANGED <<cluster, poll, budget>>

\* Mutant of Rejoin: the gate walks over all releases, as the surveys do.
RejoinHoldsAll ==
    /\ pc \in {"rejoin", "window"}
    /\ api' = TRUE
    /\ IF pc = "rejoin" THEN pc' = "hold" /\ todo' = Releases
                        ELSE pc' = "look" /\ UNCHANGED todo
    /\ UNCHANGED <<exists, suspended, ready, stalled, supplied, groundwork, phase, half,
                   notready, clean, outcome, budget>>

\* etcd_rejoin, before the gate and around the first survey: the strike windows.
\* The hold of the gate starts with its tier.
Rejoin ==
    /\ pc \in {"rejoin", "window"}
    /\ api' = TRUE
    /\ IF pc = "rejoin" THEN pc' = "hold" /\ todo' = Tier
                        ELSE pc' = "look" /\ UNCHANGED todo
    /\ UNCHANGED <<exists, suspended, ready, stalled, supplied, groundwork, phase, half,
                   notready, clean, outcome, budget>>

-----------------------------------------------------------------------------
(* readburst_gate. *)

\* Any release of the tier that exists is suspended.
Hold(r) ==
    /\ pc = "hold" /\ r \in todo
    /\ todo' = todo \ {r}
    /\ IF r \in exists THEN SuspendCall(r) ELSE UNCHANGED <<suspended, clean, budget>>
    /\ UNCHANGED <<api, exists, ready, stalled, supplied, groundwork, pc, phase, half,
                   notready, outcome>>

HoldDone ==
    /\ pc = "hold" /\ todo = {} /\ pc' = "census"
    /\ UNCHANGED <<cluster, poll, clean, outcome, budget>>

\* All control plane nodes are voters, a live one has the lease, a write commits.
CensusPasses ==
    /\ pc = "census" /\ api
    /\ pc' = "resume" /\ todo' = Tier
    /\ UNCHANGED <<cluster, phase, half, notready, clean, outcome, budget>>

\* The budget is spent: the build ends with the tier still suspended.
CensusSpent ==
    /\ pc = "census" /\ ~api
    /\ Ends("failed")
    /\ UNCHANGED <<cluster, clean, budget>>

\* Mutant of Resume: only what is not Ready is resumed.
ResumeUnready(r) ==
    /\ pc = "resume" /\ r \in todo
    /\ todo' = todo \ {r}
    /\ IF r \in exists \ ready
       THEN ResumeCall(r)
       ELSE UNCHANGED <<suspended, stalled, clean, budget>>
    /\ UNCHANGED <<api, exists, ready, supplied, groundwork, pc, phase, half, notready,
                   outcome>>

\* Every poll resumes the whole tier first.
Resume(r) ==
    /\ pc = "resume" /\ r \in todo
    /\ todo' = todo \ {r}
    /\ IF r \in exists
       THEN ResumeCall(r)
       ELSE UNCHANGED <<suspended, stalled, clean, budget>>
    /\ UNCHANGED <<api, exists, ready, supplied, groundwork, pc, phase, half, notready,
                   outcome>>

ResumeDone ==
    /\ pc = "resume" /\ todo = {} /\ pc' = "look"
    /\ UNCHANGED <<cluster, poll, clean, outcome, budget>>

-----------------------------------------------------------------------------
(* cluster_init, as far as flux_unstall. *)

\* openbao_init waits for the pod of the vault: the helm-controller leaves the last
\* failed install in place, so the pod of a stalled release starts too once its
\* prerequisites are there.
VaultUp == api /\ Needed \subseteq exists \cap supplied

\* The entries openbao_secrets writes: the S3 keys only if it was given them.
Entries(keys) == {"runtime"} \cup (IF keys THEN {"garage"} ELSE {})

\* The first pass has the S3 keys if an earlier build recorded them and the shell of
\* this one has sourced them.
FirstPass ==
    /\ pc = "init"
    /\ IF VaultUp
       THEN /\ \E sourced \in BOOLEAN : /\ sourced => store = "recorded"
                                       /\ vault' = vault \cup Entries(sourced)
            /\ pc' = "store" /\ UNCHANGED <<poll, outcome>>
       ELSE Ends("failed") /\ UNCHANGED vault
    /\ UNCHANGED <<api, exists, suspended, ready, stalled, supplied, store, marker, clean,
                   budget>>

\* garage_init waits for Garage and creates its access key, once: the secret of a
\* key that exists is not shown again.
KeyCreate ==
    /\ pc = "store"
    /\ IF api /\ store # "down"
       THEN IF store = "up"
            THEN store' = "minted" /\ pc' = "record" /\ UNCHANGED <<poll, outcome>>
            ELSE pc' = "mark" /\ UNCHANGED <<store, poll, outcome>>
       ELSE Ends("failed") /\ UNCHANGED store
    /\ UNCHANGED <<api, exists, suspended, ready, stalled, supplied, vault, marker, clean,
                   budget>>

\* The credentials are recorded in env.sh, on the controller.
KeyRecord ==
    /\ pc = "record" /\ pc' = "mark"
    /\ store' = "recorded"
    /\ UNCHANGED <<api, exists, suspended, ready, stalled, supplied, vault, marker, poll,
                   clean, outcome, budget>>

\* The buckets-ready marker is published for Flux.
Mark ==
    /\ pc = "mark"
    /\ IF api THEN marker' = TRUE /\ pc' = "second" /\ UNCHANGED <<poll, outcome>>
              ELSE Ends("failed") /\ UNCHANGED marker
    /\ UNCHANGED <<api, exists, suspended, ready, stalled, supplied, vault, store, clean,
                   budget>>

\* Mutant of SecondPass: the keys are taken from the environment of the process.
SecondPassFromEnv ==
    /\ pc = "second"
    /\ IF api THEN pc' = "look" /\ vault' = vault \cup Entries(FALSE)
                   /\ UNCHANGED <<poll, outcome>>
              ELSE Ends("failed") /\ UNCHANGED vault
    /\ UNCHANGED <<api, exists, suspended, ready, stalled, supplied, store, marker, clean,
                   budget>>

\* The keys are read from env.sh again, where there may be none, and openbao_secrets
\* runs a second time.
SecondPass ==
    /\ pc = "second"
    /\ IF api THEN pc' = "look" /\ vault' = vault \cup Entries(store = "recorded")
                   /\ UNCHANGED <<poll, outcome>>
              ELSE Ends("failed") /\ UNCHANGED vault
    /\ UNCHANGED <<api, exists, suspended, ready, stalled, supplied, store, marker, clean,
                   budget>>

-----------------------------------------------------------------------------
(* The polls: of the gate's release phase, of flux_unstall, of the surveys. *)

Scope == CASE phase = "release" -> Tier
           [] phase \in {"unstall", "confirm"} -> Unstall
           [] OTHER -> Releases

\* The set as JSON: what is not Ready is counted, what is stalled will be reset.
Look ==
    /\ pc = "look" /\ phase # "confirm"
    /\ IF api
       THEN /\ todo' = stalled \cap Scope
            /\ notready' = IF phase = "unstall" THEN todo' # {}
                           ELSE ~((exists \cap Scope) \subseteq ready)
       ELSE todo' = {} /\ notready' = (phase # "unstall")
    /\ pc' = "reset"
    /\ UNCHANGED <<cluster, phase, half, clean, outcome, budget>>

\* The surveys reset one release after the other; flux_unstall suspends all it
\* found and then resumes them, and a command of it that fails ends the build.
ResetSuspend(r) ==
    /\ pc = "reset" /\ r \in todo \ half
    /\ half = {} \/ phase = "unstall"
    /\ SuspendCall(r)
    /\ IF phase = "unstall" /\ ~clean'
       THEN Ends("failed")
       ELSE half' = half \cup {r} /\ UNCHANGED <<pc, phase, todo, notready, outcome>>
    /\ UNCHANGED <<api, exists, ready, stalled, supplied, groundwork>>

\* Mutant of ResetResume: the survey leaves the resume to the next poll.
ResetResumeLater(r) ==
    /\ pc = "reset" /\ r \in half
    /\ half' = half \ {r} /\ todo' = todo \ {r}
    /\ UNCHANGED <<cluster, pc, phase, notready, clean, outcome, budget>>

ResetResume(r) ==
    /\ pc = "reset" /\ r \in half
    /\ phase = "unstall" => half = todo
    /\ ResumeCall(r)
    /\ IF phase = "unstall" /\ ~clean'
       THEN Ends("failed")
       ELSE /\ half' = half \ {r} /\ todo' = todo \ {r}
            /\ UNCHANGED <<pc, phase, notready, outcome>>
    /\ UNCHANGED <<api, exists, ready, supplied, groundwork>>

\* The resume of flux_unstall waits for the reconciliation, and not for long.
ResumeTimesOut(r) ==
    /\ pc = "reset" /\ phase = "unstall" /\ r \in half /\ half = todo
    /\ api /\ suspended' = suspended \ {r} /\ stalled' = stalled \ {r}
    /\ Ends("failed")
    /\ UNCHANGED <<api, exists, ready, supplied, groundwork, clean, budget>>

\* flux_unstall polls until nothing is stalled, and fails without an answer.
UnstallConfirm ==
    /\ pc = "look" /\ phase = "confirm"
    /\ IF api
       THEN pc' = "reset" /\ notready' = (stalled \cap Unstall # {})
            /\ UNCHANGED <<phase, todo, half, outcome>>
       ELSE Ends("failed")
    /\ UNCHANGED <<cluster, clean, budget>>

\* What follows a loop that is over.
Following == CASE phase = "release" -> "unstall"
               [] phase = "unstall" -> IF notready THEN "confirm" ELSE "survey1"
               [] phase = "confirm" -> "survey1"
               [] phase = "survey1" -> "survey2"
               [] OTHER -> "end"

\* rc 0: the loop is over.  flux_unstall looks only once.
PollPasses ==
    /\ pc = "reset" /\ todo = {} /\ half = {}
    /\ notready => phase = "unstall"
    /\ IF Following = "end" THEN Ends("done")
       ELSE /\ phase' = Following
            /\ pc' = CASE Following = "unstall" -> "init"
                       [] Following = "confirm" -> "look"
                       [] OTHER -> "window"
            /\ UNCHANGED <<todo, half, notready, outcome>>
    /\ UNCHANGED <<cluster, clean, budget>>

\* rc 1, and retries are left.
PollAgain ==
    /\ pc = "reset" /\ todo = {} /\ half = {} /\ notready /\ phase # "unstall"
    /\ IF phase = "release" THEN pc' = "resume" /\ todo' = Tier
                            ELSE pc' = "look" /\ UNCHANGED todo
    /\ UNCHANGED <<cluster, phase, half, notready, clean, outcome, budget>>

\* rc 1, and the retries are spent: ansible fails the task, the first survey's
\* too, whatever its failed_when says.
PollSpent ==
    /\ pc = "reset" /\ todo = {} /\ half = {} /\ notready /\ phase # "unstall"
    /\ Ends("failed")
    /\ UNCHANGED <<cluster, clean, budget>>

Kill ==
    /\ pc # "idle" /\ Spend("kill")
    /\ Ends("killed")
    /\ UNCHANGED <<cluster, clean>>

Flux == \/ StoreStarts
        \/ \E r \in Releases : Create(r) \/ Supply(r) \/ Reconcile(r) \/ Exhaust(r)

Gate == \/ Rejoin \/ HoldDone \/ CensusPasses \/ CensusSpent \/ ResumeDone
        \/ FirstPass \/ KeyCreate \/ KeyRecord \/ Mark \/ SecondPass
        \/ Look \/ UnstallConfirm \/ PollPasses \/ PollAgain \/ PollSpent
        \/ \E r \in Releases : \/ Hold(r) \/ Resume(r) \/ ResetSuspend(r)
                                  \/ ResetResume(r) \/ ResumeTimesOut(r)

Faults == Strike \/ Kill \/ \E r \in Releases : Degrade(r)

Next == Flux \/ Start \/ Gate \/ Faults

\* A build goes on, retries are finite, the operator builds again, and Flux and
\* external-secrets do not forget a release or an entry that is there: they come
\* back to it at an interval.  A release that is suspended by every build is
\* reconciled between them: strong fairness, because the windows are long enough.
Fairness ==
    /\ WF_vars(Start) /\ WF_vars(Gate) /\ SF_vars(PollSpent)
    /\ SF_vars(StoreStarts)
    /\ \A r \in Releases : /\ SF_vars(Create(r)) /\ WF_vars(Supply(r))
                           /\ SF_vars(Reconcile(r))

Spec == Init /\ [][Next]_vars /\ Fairness

-----------------------------------------------------------------------------
(* Properties. *)

\* Every variable has its type; only what exists is suspended, Ready or stalled, and
\* the loops of the gate visit only its tier.
TypeOK ==
    /\ api \in BOOLEAN /\ exists \subseteq Releases /\ supplied \subseteq Releases
    /\ suspended \subseteq exists /\ ready \subseteq exists /\ stalled \subseteq exists
    /\ ready \cap stalled = {}
    /\ vault \subseteq {"runtime", "garage"} /\ marker \in BOOLEAN
    /\ store \in {"down", "up", "minted", "recorded"}
    /\ pc \in {"idle", "rejoin", "hold", "census", "resume", "init", "store", "record",
               "mark", "second", "look", "reset", "window"}
    /\ phase \in {"release", "unstall", "confirm", "survey1", "survey2"}
    /\ todo \subseteq Releases /\ half \subseteq todo
    /\ pc \in {"hold", "resume"} => todo \subseteq Tier
    /\ notready \in BOOLEAN /\ clean \in BOOLEAN
    /\ outcome \in {"none", "done", "failed", "killed"}
    /\ budget \in Nat

\* A build that ends well, with no suspend or resume lost on the way, leaves
\* nothing suspended: not what it held for the census or reset itself, and not
\* what an earlier build left behind that was killed between a suspend and its
\* resume or gave up in the census.
NothingHeld == outcome = "done" /\ clean => suspended = {}

\* The build ended well, with every release there, Ready and not suspended.
Settled == outcome = "done" /\ ready = Releases /\ suspended = {}

\* The observability releases may be created, and the S3 keys they read are not in
\* the vault.
Stranded == marker /\ "garage" \notin vault

\* Whatever was held, stalled, killed or struck before, in the end builds pass; the
\* one exception is a marker that stays published without the S3 entry, after a
\* fault ended a build between the two or between the creation of the key and its
\* record: the release is never Ready, and every later build ends in a gate.
Converges == []<>Settled \/ <>[](Stranded /\ budget < MaxFaults)
=============================================================================
