--------------------------- MODULE ContainerRoots ---------------------------
(***************************************************************************)
(* Relocation of the Docker and containerd roots onto the data volume:     *)
(* roles/container_storage on one host, run after run, with the daemons    *)
(* that write to the roots meanwhile.                                      *)
(*                                                                         *)
(* A directory is the set of items in it, or None.  A daemon keeps the     *)
(* root it was started with until it is stopped, and creates the directory *)
(* its configuration names when that is not there.                         *)
(***************************************************************************)
EXTENDS Naturals

CONSTANTS
    Roots,       \* _var_container_storage_moves, one daemon each
    Docker,      \* the one that `docker info' reports on
    Items,       \* what daemons may write
    None,
    Faulty,      \* the kinds of fault that happen
    MaxFaults    \* and how many of them

ASSUME RootsAssumption ==
    /\ Docker \in Roots
    /\ \A S \in SUBSET Items : S # None
    /\ MaxFaults \in Nat

VARIABLES
    \* The host.
    src, dest, aside,   \* root -> default path, data volume, src.migrated
    config,      \* root -> "src" or "dest", as in the daemon's configuration file
    using,       \* root -> the one its daemon was started with
    running,     \* daemons that run
    socket,      \* docker.socket listens
    apps,        \* no compose project is down that the role stopped
    written,     \* root -> all that its daemon ever wrote
    \* The run of the role, and how the last one ended.
    run, outcome,
    cut,         \* a run stopped dead that the next one does not take up
    budget       \* faults left

dirs == <<src, dest, aside>>
daemons == <<using, running, socket>>
host == <<dirs, config, daemons, apps, written>>
aux == <<cut, budget>>
vars == <<host, run, outcome, aux>>

All(x) == [r \in Roots |-> x]

Idle == [pc |-> "idle",
         todo |-> {},           \* roots the current loop has not finished
         pending |-> {},        \* _container_storage_pending
         copying |-> FALSE,     \* rsync is at work on the next root
         changed |-> FALSE,     \* a configuration file changed
         rollback |-> FALSE,    \* container_storage_remove_rollback
         failed |-> FALSE]      \* a task of the block failed

\* A host that has run containers on the default paths, or a fresh one.  It has a
\* compose project, as core01 and repo01 do.
Init ==
    /\ \/ src = All({}) /\ running = Roots
       \/ src = All(None) /\ running = {}
    /\ dest = All(None) /\ aside = All(None)
    /\ config = All("src") /\ using = All("src") /\ socket = TRUE
    /\ apps = TRUE /\ written = All({})
    /\ run = Idle /\ outcome = "none"
    /\ cut = FALSE /\ budget = MaxFaults

Spend(kind) == kind \in Faulty /\ budget > 0 /\ budget' = budget - 1

-----------------------------------------------------------------------------
(* The daemons (external). *)

Write(r, i) ==
    /\ r \in running /\ i \notin written[r]
    /\ written' = [written EXCEPT ![r] = @ \cup {i}]
    /\ IF using[r] = "src"
       THEN src' = [src EXCEPT ![r] = @ \cup {i}] /\ UNCHANGED dest
       ELSE dest' = [dest EXCEPT ![r] = @ \cup {i}] /\ UNCHANGED src
    /\ UNCHANGED <<aside, config, daemons, apps, run, outcome, aux>>

\* Daemons in S start, on the root their configuration names now.
StartUp(S) ==
    /\ running' = running \cup S
    /\ using' = [r \in Roots |-> IF r \in S THEN config[r] ELSE using[r]]
    /\ src' = [r \in Roots |-> IF r \in S /\ config[r] = "src" /\ src[r] = None
                               THEN {} ELSE src[r]]
    /\ dest' = [r \in Roots |-> IF r \in S /\ config[r] = "dest" /\ dest[r] = None
                                THEN {} ELSE dest[r]]

-----------------------------------------------------------------------------
(* A run. *)

At(pc) == run.pc = pc
GoTo(pc) == run' = [run EXCEPT !.pc = pc] /\ UNCHANGED outcome
Ends(how) == run' = Idle /\ outcome' = how

\* The role takes the flag that removes rollback copies as it comes.
Begin ==
    /\ At("idle")
    /\ \E flag \in BOOLEAN :
          run' = [Idle EXCEPT !.pc = "config", !.todo = Roots, !.rollback = flag]
    /\ outcome' = "none"
    /\ UNCHANGED <<host, aux>>

\* The configuration is written first, one file after the other.
WriteConfig(r) ==
    /\ At("config") /\ r \in run.todo
    /\ config' = [config EXCEPT ![r] = "dest"]
    /\ run' = [run EXCEPT !.todo = @ \ {r}, !.changed = @ \/ config[r] = "src"]
    /\ UNCHANGED <<dirs, daemons, apps, written, outcome, aux>>

\* Only roots at the default path that have no destination yet are relocated.
Select ==
    /\ At("config") /\ run.todo = {}
    /\ LET pending == {r \in Roots : src[r] # None /\ dest[r] = None}
       IN run' = [run EXCEPT !.pc = IF pending = {} THEN "confirm" ELSE "compose",
                             !.pending = pending]
    /\ UNCHANGED <<host, outcome, aux>>

\* A failed task of the block goes on with its always section.
BlockFails == /\ run' = [run EXCEPT !.pc = "always", !.failed = TRUE, !.todo = {},
                                    !.copying = FALSE]
              /\ UNCHANGED outcome

\* `docker compose stop' needs the daemon.
StopCompose ==
    /\ At("compose") /\ Docker \in running
    /\ apps' = FALSE
    /\ GoTo("stop")
    /\ UNCHANGED <<dirs, config, daemons, written, aux>>

\* A run that died has left the daemons stopped.
ComposeDown ==
    /\ At("compose") /\ Docker \notin running
    /\ BlockFails
    /\ UNCHANGED <<host, aux>>

ComposeFails ==
    /\ At("compose") /\ Spend("compose")
    /\ apps' \in {apps, FALSE}
    /\ BlockFails
    /\ UNCHANGED <<dirs, config, daemons, written, cut>>

\* Mutant of StopDaemons: the copy starts while a daemon still runs.
StopDaemonsUnconfirmed ==
    /\ At("stop")
    /\ running' \in SUBSET running /\ socket' = FALSE
    /\ run' = [run EXCEPT !.pc = "copy", !.todo = run.pending]
    /\ UNCHANGED <<dirs, config, using, apps, written, outcome, aux>>

\* The units are stopped, and pgrep finds no daemon left.
StopDaemons ==
    /\ At("stop")
    /\ running' = {} /\ socket' = FALSE
    /\ run' = [run EXCEPT !.pc = "copy", !.todo = run.pending]
    /\ UNCHANGED <<dirs, config, using, apps, written, outcome, aux>>

\* It finds one on every try.
DaemonSurvives ==
    /\ At("stop") /\ Spend("survives")
    /\ running' \in (SUBSET running) \ {{}} /\ socket' = FALSE
    /\ BlockFails
    /\ UNCHANGED <<dirs, config, using, apps, written, cut>>

\* rsync creates the destination; `creates' skips it when that is there.
CopyBegins(r) ==
    /\ At("copy") /\ ~run.copying /\ r \in run.todo
    /\ IF dest[r] = None
       THEN dest' = [dest EXCEPT ![r] = {}] /\ run' = [run EXCEPT !.copying = TRUE]
       ELSE run' = [run EXCEPT !.todo = @ \ {r}] /\ UNCHANGED dest
    /\ UNCHANGED <<src, aside, config, daemons, apps, written, outcome, aux>>

\* Mutant of CopyItem: rsync gives up on an item and reports success.
CopyItemOrNot(r) ==
    /\ At("copy") /\ run.copying /\ r \in run.todo /\ dest[r] # None
    /\ dest' \in {[dest EXCEPT ![r] = @ \cup {i}] : i \in src[r]} \cup {dest}
    /\ run' = [run EXCEPT !.copying = FALSE, !.todo = @ \ {r}]
    /\ UNCHANGED <<src, aside, config, daemons, apps, written, outcome, aux>>

\* One item more, until the destination has them all.
CopyItem(r) ==
    /\ At("copy") /\ run.copying /\ r \in run.todo /\ dest[r] # None
    /\ \/ /\ src[r] \subseteq dest[r]
          /\ run' = [run EXCEPT !.copying = FALSE, !.todo = @ \ {r}]
          /\ UNCHANGED dest
       \/ /\ \E i \in src[r] \ dest[r] : dest' = [dest EXCEPT ![r] = @ \cup {i}]
          /\ UNCHANGED run
    /\ UNCHANGED <<src, aside, config, daemons, apps, written, outcome, aux>>

\* rsync fails: a full volume, an I/O error.
CopyFails ==
    /\ At("copy") /\ run.copying /\ Spend("copy")
    /\ BlockFails
    /\ UNCHANGED <<host, cut>>

CopyDone ==
    /\ At("copy") /\ run.todo = {}
    /\ run' = [run EXCEPT !.pc = "aside", !.todo = run.pending]
    /\ UNCHANGED <<host, outcome, aux>>

\* mv, unless there is a rollback copy already.
SetAside(r) ==
    /\ At("aside") /\ r \in run.todo
    /\ IF aside[r] = None
       THEN aside' = [aside EXCEPT ![r] = src[r]] /\ src' = [src EXCEPT ![r] = None]
       ELSE UNCHANGED <<src, aside>>
    /\ run' = [run EXCEPT !.todo = @ \ {r},
                          !.pc = IF run.todo = {r} THEN "always" ELSE "aside"]
    /\ UNCHANGED <<dest, config, daemons, apps, written, outcome, aux>>

\* Mutant of Always: daemons are only started again after a success.
AlwaysUnlessFailed ==
    /\ At("always")
    /\ IF run.failed
       THEN Ends("failed") /\ UNCHANGED <<src, dest, daemons, apps>>
       ELSE /\ StartUp(Roots \ running) /\ socket' = TRUE /\ apps' = TRUE
            /\ GoTo("confirm")
    /\ UNCHANGED <<aside, config, written, aux>>

\* Whatever happened in the block, daemons that do not run are started and the
\* projects brought up; then a failed block fails the run.
Always ==
    /\ At("always")
    /\ StartUp(Roots \ running) /\ socket' = TRUE /\ apps' = TRUE
    /\ IF run.failed THEN Ends("failed") ELSE GoTo("confirm")
    /\ UNCHANGED <<aside, config, written, aux>>

\* `docker info' starts the daemons through docker.socket, and has to report the new
\* root within the retries.
Confirm ==
    /\ At("confirm")
    /\ IF Docker \notin running /\ socket
       THEN StartUp(Roots \ running)
       ELSE UNCHANGED <<src, dest, using, running>>
    /\ IF Docker \in running' /\ using'[Docker] = "dest"
       THEN GoTo("restart") ELSE Ends("failed")
    /\ UNCHANGED <<aside, config, socket, apps, written, aux>>

\* Daemons restart when only the configuration changed.
RestartDaemons ==
    /\ At("restart")
    /\ IF run.changed /\ run.pending = {}
       THEN StartUp(Roots) /\ socket' = TRUE
       ELSE UNCHANGED <<src, dest, daemons>>
    /\ GoTo("rollback")
    /\ UNCHANGED <<aside, config, apps, written, aux>>

RemoveRollback ==
    /\ At("rollback")
    /\ aside' = IF run.rollback THEN All(None) ELSE aside
    /\ Ends("ok")
    /\ UNCHANGED <<src, dest, config, daemons, apps, written, aux>>

-----------------------------------------------------------------------------
(* A run that stops dead: its always section does not run either. *)

\* It leaves something stopped, and the next run nothing to relocate.
Cut == /\ running' # Roots \/ ~apps
       /\ \A r \in Roots : src'[r] = None \/ dest'[r] # None

Kill ==
    /\ ~At("idle") /\ Spend("kill")
    /\ Ends("dead")
    /\ UNCHANGED host
    /\ cut' = (cut \/ Cut)

\* The host reboots under the run, and starts its daemons.
Reboot ==
    /\ ~At("idle") /\ Spend("reboot")
    /\ Ends("dead")
    /\ StartUp(Roots) /\ socket' = TRUE
    /\ cut' = (cut \/ Cut)
    /\ UNCHANGED <<aside, config, apps, written>>

Role == \/ Select \/ StopCompose \/ ComposeDown \/ StopDaemons \/ CopyDone
        \/ Always \/ Confirm \/ RestartDaemons \/ RemoveRollback
        \/ \E r \in Roots : \/ WriteConfig(r) \/ CopyBegins(r) \/ CopyItem(r)
                            \/ SetAside(r)

Faults == ComposeFails \/ DaemonSurvives \/ CopyFails \/ Kill \/ Reboot

Next == \/ \E r \in Roots, i \in Items : Write(r, i)
        \/ Begin \/ Role \/ Faults

\* A run goes on until it ends, and the host is built again.
Fairness == WF_vars(Begin) /\ WF_vars(Role)

Spec == Init /\ [][Next]_vars /\ Fairness

-----------------------------------------------------------------------------
(* Properties. *)

Dir == {None} \cup SUBSET Items

\* Every variable has its type; a daemon's root is there while it runs.
TypeOK ==
    /\ src \in [Roots -> Dir] /\ dest \in [Roots -> Dir] /\ aside \in [Roots -> Dir]
    /\ config \in [Roots -> {"src", "dest"}] /\ using \in [Roots -> {"src", "dest"}]
    /\ running \subseteq Roots /\ written \in [Roots -> SUBSET Items]
    /\ \A r \in running : IF using[r] = "src" THEN src[r] # None ELSE dest[r] # None
    /\ run \in [pc : {"idle", "config", "compose", "stop", "copy", "aside", "always",
                      "confirm", "restart", "rollback"},
               todo : SUBSET Roots, pending : SUBSET Roots, copying : BOOLEAN,
               changed : BOOLEAN, rollback : BOOLEAN, failed : BOOLEAN]
    /\ outcome \in {"none", "ok", "failed", "dead"}
    /\ budget \in Nat

Has(dir, i) == dir # None /\ i \in dir

\* Nothing a daemon wrote before, during or after a relocation is ever gone: it
\* is at the default path, on the data volume or in the rollback copy, wherever
\* runs fail, are killed or rebooted, and when rollback copies are removed.
NothingGone ==
    \A r \in Roots : \A i \in written[r] :
        Has(src[r], i) \/ Has(dest[r], i) \/ Has(aside[r], i)

\* The default path holds what its relocated root lacks: the relocation of r was
\* cut short, or a daemon was started on the new path before the copy.
Stranded(r) == src[r] # None /\ dest[r] # None /\ ~(src[r] \subseteq dest[r])

\* Everything the daemons wrote is where they look for it now.
Healthy(r) == using[r] = "dest" /\ written[r] \subseteq dest[r]

\* A run that ends well has every daemon on the data volume, with everything it
\* ever wrote, unless the data is stranded.
Relocated ==
    outcome = "ok" =>
        \A r \in Roots : Stranded(r) \/ (r \in running /\ Healthy(r))

\* After runs that fail or die the services come back, by the always section or
\* by the next run, except when one died with services stopped and a destination
\* for every root: the next run sees nothing to relocate.
BackUp == []<>(running = Roots /\ apps) \/ <>[]cut
=============================================================================
