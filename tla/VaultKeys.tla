----------------------------- MODULE VaultKeys -----------------------------
(***************************************************************************)
(* The keys of the OpenBao vault and where they are: in the answer of the  *)
(* one-time initialisation (roles/openbao_init), in the controller's       *)
(* env.sh, in the cluster-state repository (roles/gitops_source) and in    *)
(* the Secret the unsealer Deployment mounts.                              *)
(*                                                                         *)
(* Every initialisation is a generation of keys 1, 2, ...; a share is      *)
(* <<generation, index>>.  A site build renders and pushes the repository, *)
(* initialises the vault, configures it and seals its keys in a second,    *)
(* surgical pass, while the unsealer works on its own.                     *)
(***************************************************************************)
EXTENDS Integers, FiniteSets

CONSTANTS
    Shares,      \* openbao_init_key_shares
    Threshold,   \* openbao_init_key_threshold
    GitShares,   \* how many shares the repository carries, [:3]
    Faulty,      \* the kinds of fault and of operator intervention that happen
    MaxFaults    \* and how many of them

ASSUME VaultAssumption ==
    /\ Shares \in Nat /\ Threshold \in 1 .. Shares
    /\ GitShares \in 1 .. Shares
    /\ MaxFaults \in Nat

VARIABLES
    \* The vault (external).
    up,          \* its pod is Ready
    gen,         \* generation it was initialised with, 0 before
    sealed,
    progress,    \* shares submitted to the unseal attempt under way
    inits,       \* initialisations so far
    \* Where keys are.
    env,         \* generation in env.sh, 0 for none
    proc,        \* the one in the environment ansible was started with
    held,        \* the one in the memory of the play
    git,         \* the one sealed at the tip of the cluster-state repository
    mounted,     \* the one the unsealer's Secret holds
    \* The actors.
    walk,        \* index of the share the unsealer submits next, 0 asleep
    pc,          \* the build
    site,        \* it is site.yml, not cluster_init.yml alone
    share,       \* index of the share the role submits next
    \* History.
    built,       \* generation of the vault when the last site build ended well
    lost,        \* the keys of gen went down with the play that held them
    budget       \* faults left

vars == <<up, gen, sealed, progress, inits, env, proc, held, git, mounted, walk, pc,
          site, share, built, lost, budget>>
vault == <<up, gen, sealed, progress, inits>>
stores == <<env, proc, git, mounted>>

Init ==
    /\ up = FALSE /\ gen = 0 /\ sealed = TRUE /\ progress = {} /\ inits = 0
    /\ env = 0 /\ proc = 0 /\ held = 0 /\ git = 0 /\ mounted = 0
    /\ walk = 0 /\ pc = "idle" /\ site = TRUE /\ share = 1
    /\ built = 0 /\ lost = FALSE
    /\ budget = MaxFaults

Open == gen # 0 /\ ~sealed

Spend(kind) == kind \in Faulty /\ budget > 0 /\ budget' = budget - 1

-----------------------------------------------------------------------------
(* The vault (external). *)

PodUp ==
    /\ ~up /\ up' = TRUE
    /\ UNCHANGED <<gen, sealed, progress, inits, stores, held, walk, pc, site, share,
                   built, lost, budget>>

\* The pod restarts: the vault is sealed and the attempt under way forgotten.
Restart ==
    /\ up /\ Spend("restart")
    /\ up' = FALSE /\ sealed' = TRUE /\ progress' = {}
    /\ UNCHANGED <<gen, inits, stores, held, walk, pc, site, share, built, lost>>

\* The data volume is lost with its worker: a new pod finds no vault.
VolumeLost ==
    /\ gen # 0 /\ Spend("volume")
    /\ up' = FALSE /\ gen' = 0 /\ sealed' = TRUE /\ progress' = {}
    /\ lost' = FALSE
    /\ UNCHANGED <<inits, stores, held, walk, pc, site, share, built>>

\* The shares of an attempt open the vault when they are all of its generation.
Matches(p) == p \subseteq {<<gen, i>> : i \in 1 .. Shares}

\* `bao operator unseal': the same share twice counts once, and an attempt that
\* reaches the threshold opens the vault or is thrown away.
Submit(g, i) ==
    LET p == progress \cup {<<g, i>>}
    IN IF ~up \/ ~sealed \/ gen = 0
       THEN UNCHANGED <<sealed, progress>>
       ELSE IF Cardinality(p) < Threshold
       THEN progress' = p /\ UNCHANGED sealed
       ELSE progress' = {} /\ sealed' = ~Matches(p)

\* The command that submits g, i exits with an error.
Refused(g, i) ==
    LET p == progress \cup {<<g, i>>}
    IN \/ ~up \/ gen = 0
       \/ sealed /\ Cardinality(p) >= Threshold /\ ~Matches(p)

-----------------------------------------------------------------------------
(* Flux and the unsealer. *)

\* Flux applies the tip, and the kubelet refreshes the mounted Secret.
Sync ==
    /\ git # mounted /\ mounted' = git
    /\ UNCHANGED <<vault, env, proc, git, held, walk, pc, site, share, built, lost,
                   budget>>

\* Mutant of ShareFiles: one share too few.
ShareFilesShort == 1 .. (GitShares - 1)

\* /unseal-keys/key*.
ShareFiles == 1 .. GitShares

\* `bao status' exits with 2: sealed, or not initialised yet.
UnsealerLooks ==
    /\ walk = 0 /\ mounted # 0
    /\ up /\ sealed
    /\ walk' = 1
    /\ UNCHANGED <<vault, stores, held, pc, site, share, built, lost, budget>>

\* One round of the loop over the files; errors are ignored.  The file is read
\* when its turn comes.
UnsealerSubmits ==
    /\ walk # 0
    /\ IF walk \in ShareFiles
       THEN Submit(mounted, walk) /\ walk' = walk + 1
       ELSE walk' = 0 /\ UNCHANGED <<sealed, progress>>
    /\ UNCHANGED <<up, gen, inits, stores, held, pc, site, share, built, lost, budget>>

-----------------------------------------------------------------------------
(* The build: site.yml, or cluster_init.yml on its own. *)

\* The shell has sourced env.sh before it starts ansible.
StartSite ==
    /\ pc = "idle" /\ pc' = "full" /\ site' = TRUE
    /\ proc' = env
    /\ UNCHANGED <<vault, env, git, mounted, held, walk, share, built, lost, budget>>

\* "Re-run this playbook once the cluster workloads are Ready."
StartClusterInit ==
    /\ pc = "idle" /\ Spend("alone")
    /\ pc' = "ready" /\ site' = FALSE
    /\ proc' = env
    /\ UNCHANGED <<vault, env, git, mounted, held, walk, share, built, lost>>

\* The play ends, and with it what it held in memory.
Ends == pc' = "idle" /\ held' = 0 /\ share' = 1

\* Mutant of SealedKeys: the keys ansible was started with.
SealedKeysOfProcess == proc

\* gitops.yml re-reads the recorded file, and falls back on its environment.
SealedKeys == IF env # 0 THEN env ELSE proc

\* The full pass: the tree is recreated from the templates, the unseal-key entry
\* in it only while keys are known, then committed and pushed.
FullPass ==
    /\ pc = "full" /\ pc' = "ready"
    /\ git' = SealedKeys
    /\ UNCHANGED <<vault, env, proc, mounted, held, walk, site, share, built, lost,
                   budget>>

\* The commit stays in the clone, which the next pass resets to the remote tip.
PushFails ==
    /\ pc \in {"full", "surgical"} /\ Spend("push")
    /\ Ends
    /\ UNCHANGED <<vault, stores, walk, site, built, lost>>

PodReady ==
    /\ pc = "ready" /\ up /\ pc' = "status"
    /\ UNCHANGED <<vault, stores, held, walk, site, share, built, lost, budget>>

\* An initialised vault is not initialised again, nor unsealed by the role.
ReadStatus ==
    /\ pc = "status" /\ up
    /\ pc' = IF gen = 0 THEN "init" ELSE "confirm"
    /\ UNCHANGED <<vault, stores, held, walk, site, share, built, lost, budget>>

\* A pod that never gets Ready, a status that cannot be read, a command that
\* cannot be sent to the pod.
Unreachable ==
    /\ pc \in {"ready", "status", "init"} /\ ~up
    /\ Ends
    /\ UNCHANGED <<vault, stores, walk, site, built, lost, budget>>

\* `bao operator init' makes a new generation of keys.
Initialised ==
    /\ pc = "init" /\ up /\ gen = 0
    /\ inits' = inits + 1 /\ gen' = inits'
    /\ sealed' = TRUE /\ progress' = {}
    /\ UNCHANGED up

\* Mutant of RunInit: the first share is submitted before the keys are recorded.
RunInitUnrecorded ==
    /\ Initialised
    /\ held' = gen' /\ pc' = "unseal"
    /\ UNCHANGED <<stores, walk, site, share, built, lost, budget>>

RunInit ==
    /\ Initialised
    /\ held' = gen' /\ pc' = "record"
    /\ UNCHANGED <<stores, walk, site, share, built, lost, budget>>

\* The vault is initialised and the answer does not reach the controller.
InitAnswerLost ==
    /\ Initialised /\ Spend("answer")
    /\ lost' = TRUE
    /\ Ends
    /\ UNCHANGED <<stores, walk, site, built>>

\* blockinfile: the block of env.sh is replaced.
RecordKeys ==
    /\ pc = "record" /\ pc' = "unseal"
    /\ env' = held
    /\ UNCHANGED <<vault, proc, git, mounted, held, walk, site, share, built, lost,
                   budget>>

\* Mutant of RoleUnseals: the loop is over all shares.
RoleUnsealsAll ==
    /\ pc = "unseal"
    /\ Submit(held, share)
    /\ IF Refused(held, share) THEN Ends
       ELSE /\ share' = share + 1
            /\ pc' = IF share = Shares THEN "confirm" ELSE "unseal"
            /\ UNCHANGED held
    /\ UNCHANGED <<up, gen, inits, stores, walk, site, built, lost, budget>>

\* One share per item of the loop; the first command that fails ends the play.
RoleUnseals ==
    /\ pc = "unseal"
    /\ Submit(held, share)
    /\ IF Refused(held, share) THEN Ends
       ELSE /\ share' = share + 1
            /\ pc' = IF share = Threshold THEN "confirm" ELSE "unseal"
            /\ UNCHANGED held
    /\ UNCHANGED <<up, gen, inits, stores, walk, site, built, lost, budget>>

\* The poll finds the vault initialised and open.
Confirm ==
    /\ pc = "confirm" /\ up /\ Open
    /\ pc' = "config"
    /\ UNCHANGED <<vault, stores, held, walk, site, share, built, lost, budget>>

\* Its retries are spent first.
ConfirmFails ==
    /\ pc = "confirm" /\ ~(up /\ Open)
    /\ Ends
    /\ UNCHANGED <<vault, stores, walk, site, built, lost, budget>>

\* The rest of cluster_init, with the root token recorded beside the keys.
Configure ==
    /\ pc = "config"
    /\ IF up /\ Open /\ env = gen /\ site
       THEN pc' = "surgical" /\ UNCHANGED <<held, share>>
       ELSE Ends
    /\ UNCHANGED <<vault, stores, walk, site, built, lost, budget>>

\* The surgical pass asserts that there are keys, and seals only their entry.
SurgicalPass ==
    /\ pc = "surgical"
    /\ IF SealedKeys = 0
       THEN UNCHANGED <<git, built>>
       ELSE git' = SealedKeys /\ built' = gen
    /\ Ends
    /\ UNCHANGED <<vault, env, proc, mounted, walk, site, lost, budget>>

\* The play is killed; between the initialisation and the record that loses keys.
Kill ==
    /\ pc # "idle" /\ Spend("kill")
    /\ Ends
    /\ lost' = (lost \/ (pc = "record" /\ gen = held))
    /\ UNCHANGED <<vault, stores, walk, site, built>>

Unsealer == UnsealerLooks \/ UnsealerSubmits

Build == \/ FullPass \/ PodReady \/ ReadStatus \/ Unreachable \/ RunInit
         \/ RecordKeys \/ RoleUnseals \/ Confirm \/ ConfirmFails \/ Configure
         \/ SurgicalPass

Faults == Restart \/ VolumeLost \/ StartClusterInit \/ PushFails \/ InitAnswerLost
          \/ Kill

Next == PodUp \/ Sync \/ Unsealer \/ StartSite \/ Build \/ Faults

\* Kubernetes restarts the pod, Flux reconciles at an interval, the unsealer
\* loops, a build goes on until it ends, and the operator builds again.
Fairness == /\ WF_vars(PodUp) /\ WF_vars(Sync) /\ WF_vars(Unsealer)
            /\ WF_vars(StartSite) /\ WF_vars(Build)

Spec == Init /\ [][Next]_vars /\ Fairness

-----------------------------------------------------------------------------
(* Properties. *)

\* Every variable has its type, and an attempt under way is below the threshold.
TypeOK ==
    /\ up \in BOOLEAN /\ sealed \in BOOLEAN
    /\ gen \in Nat /\ inits \in Nat
    /\ progress \in SUBSET (Nat \X Nat) /\ IsFiniteSet(progress)
    /\ Cardinality(progress) < Threshold
    /\ env \in Nat /\ proc \in Nat /\ held \in Nat /\ git \in Nat /\ mounted \in Nat
    /\ walk \in Nat /\ share \in 1 .. Threshold + 1
    /\ pc \in {"idle", "full", "ready", "status", "init", "record", "unseal", "confirm",
               "config", "surgical"}
    /\ site \in BOOLEAN /\ built \in Nat /\ lost \in BOOLEAN
    /\ budget \in Nat

\* The keys of a vault that holds data are never nowhere: env.sh has them, or
\* the running play does.  The one exception is the window between `bao operator
\* init' and the record of its answer, and what is lost there is marked `lost'.
KeysKnown == gen # 0 /\ ~lost => gen \in {env, held}

\* After a site build that ended well, as long as the vault keeps its data, the
\* repository and env.sh hold the keys of this very vault and not of an earlier
\* one: whatever restarts can be undone without the operator.
Recoverable == built # 0 /\ gen = built => env = gen /\ git = gen

\* However shares of the role and of the unsealer, of this and of an earlier
\* generation mix in one attempt, and wherever builds stop: with the faults over,
\* the vault opens and stays open, unless its keys were lost.
Opens == <>[]Open \/ <>[]lost
=============================================================================
