------------------------ MODULE ContainerRootsProofs ------------------------
(* The relocation loses nothing and leaves daemons on the data volume: for   *)
(* any roots and items, wherever runs fail, die or are rebooted.             *)
EXTENDS ContainerRoots, TLAPS

-----------------------------------------------------------------------------
(* The inductive invariant: the host. *)

Gone(r) == src[r] = None
Fresh(r) == dest[r] = None      \* not relocated, not even in part

\* The part of TypeOK about the host.
HostType ==
    /\ src \in [Roots -> Dir] /\ dest \in [Roots -> Dir] /\ aside \in [Roots -> Dir]
    /\ config \in [Roots -> {"src", "dest"}] /\ using \in [Roots -> {"src", "dest"}]
    /\ running \subseteq Roots /\ written \in [Roots -> SUBSET Items]
    /\ \A r \in running : IF using[r] = "src" THEN ~Gone(r) ELSE ~Fresh(r)

\* A rollback copy is a copy of what is on the data volume.
AsideKept == \A r \in Roots : aside[r] # None => ~Fresh(r) /\ aside[r] \subseteq dest[r]

\* There is a root on the data volume only where the configuration says so, and
\* not beside a daemon that still works on the default path.
OneRoot ==
    /\ \A r \in Roots : config[r] = "src" => Fresh(r)
    /\ \A r \in running : using[r] = "src" => Fresh(r)

\* Some daemons run and others do not only while there is something to relocate.
AllOrNone == running \in {{}, Roots} \/ \E r \in Roots : ~Gone(r) /\ Fresh(r)

HostInv == HostType /\ AsideKept /\ OneRoot /\ AllOrNone /\ NothingGone

-----------------------------------------------------------------------------
(* The inductive invariant: the run. *)

\* The part of TypeOK about the run.
RunType ==
    /\ run \in [pc : {"idle", "config", "compose", "stop", "copy", "aside", "always",
                      "confirm", "restart", "rollback"},
               todo : SUBSET Roots, pending : SUBSET Roots, copying : BOOLEAN,
               changed : BOOLEAN, rollback : BOOLEAN, failed : BOOLEAN]
    /\ outcome \in {"none", "ok", "failed", "dead"}
    /\ budget \in Nat

\* The configuration is complete before anything else happens.
Configured ==
    /\ At("config") => \A r \in Roots \ run.todo : config[r] = "dest"
    /\ ~At("idle") /\ ~At("config") => \A r \in Roots : config[r] = "dest"

\* What is selected is to be relocated, until the copy begins.
Selected ==
    /\ At("config") \/ At("compose") \/ At("stop") => ~run.copying
    /\ At("compose") \/ At("stop") =>
          run.pending # {} /\ \A r \in run.pending : ~Gone(r) /\ Fresh(r)

\* During the copy no daemon runs; roots that are done are complete, and at most
\* one is half done.
Copying ==
    At("copy") =>
        /\ running = {} /\ run.todo \subseteq run.pending
        /\ \A r \in run.pending : ~Gone(r)
        /\ \A r \in run.pending \ run.todo : ~Fresh(r) /\ src[r] \subseteq dest[r]
        /\ ~run.copying => \A r \in run.todo : Fresh(r)
        /\ \A r, q \in run.todo : ~Fresh(r) /\ ~Fresh(q) => r = q

\* What is set aside is complete on the data volume.
SettingAside ==
    At("aside") =>
        /\ running = {}
        /\ \A r \in run.todo : ~Gone(r) /\ ~Fresh(r) /\ src[r] \subseteq dest[r]

\* Daemons are all on the data volume after the block, and when a run ended well.
Started ==
    /\ At("always") /\ ~run.failed => running = {}
    /\ At("confirm") \/ At("restart") \/ At("rollback") =>
          /\ running \in {{}, Roots}
          /\ \A r \in running : using[r] = "dest"
    /\ At("restart") \/ At("rollback") => running = Roots
    /\ outcome = "ok" => /\ At("idle") /\ running = Roots
                         /\ \A r \in Roots : using[r] = "dest"

RunInv == RunType /\ Configured /\ Selected /\ Copying /\ SettingAside /\ Started

RootsInv == HostInv /\ RunInv

LEMMA TypeParts == TypeOK <=> HostType /\ RunType
  BY DEF TypeOK, HostType, RunType, Gone, Fresh

LEMMA RootsInit == Init => RootsInv
<1> SUFFICES ASSUME Init PROVE RootsInv
  OBVIOUS
<1>1. HostInv
  BY RootsAssumption DEF Init, All, HostInv, HostType, AsideKept, OneRoot, AllOrNone,
     NothingGone, Gone, Fresh, Dir
<1>2. RunInv
  BY RootsAssumption DEF Init, Idle, RunInv, RunType, Configured, Selected, Copying, SettingAside,
         Started, At
<1> QED
  BY <1>1, <1>2 DEF RootsInv

-----------------------------------------------------------------------------

\* Daemons that start find their roots or create them, and lose nothing.
LEMMA StartUpStep ==
    ASSUME HostInv, NEW S \in SUBSET Roots, StartUp(S), running \cup S = Roots,
           UNCHANGED <<aside, config, written>>
    PROVE  /\ HostInv' /\ running' = Roots
           /\ \A r \in Roots : using'[r] = IF r \in S THEN config[r] ELSE using[r]
<1>1. /\ using' \in [Roots -> {"src", "dest"}] /\ running' = Roots
      /\ \A r \in Roots : using'[r] = IF r \in S THEN config[r] ELSE using[r]
  BY DEF StartUp, HostInv, HostType
<1>2. /\ src' \in [Roots -> Dir] /\ dest' \in [Roots -> Dir]
      /\ \A r \in Roots : /\ ~Gone(r) => src'[r] = src[r]
                          /\ Gone(r) => src'[r] \in {None, {}}
                          /\ ~Fresh(r) => dest'[r] = dest[r]
                          /\ Fresh(r) => dest'[r] \in {None, {}}
                          /\ r \in S /\ config[r] = "src" => src'[r] # None
                          /\ r \in S /\ config[r] = "dest" => dest'[r] # None
                          /\ config[r] = "src" \/ r \notin S => dest'[r] = dest[r]
  BY RootsAssumption DEF StartUp, HostInv, HostType, Dir, Gone, Fresh
<1>3. HostType'
  BY <1>1, <1>2, RootsAssumption DEF HostInv, HostType, Gone, Fresh
<1>4. AsideKept'
  BY <1>2 DEF HostInv, AsideKept, Fresh
<1>5. OneRoot'
  BY <1>1, <1>2 DEF HostInv, HostType, OneRoot, Gone, Fresh
<1>6. NothingGone'
  BY <1>2 DEF HostInv, NothingGone, Has, Gone, Fresh
<1> QED
  BY <1>1, <1>3, <1>4, <1>5, <1>6 DEF HostInv, AllOrNone

\* A daemon writes to the root it was started on.
LEMMA WriteStep ==
    ASSUME RootsInv, NEW r \in Roots, NEW i \in Items, Write(r, i)
    PROVE  RootsInv'
<1>1. /\ r \in running /\ written' = [written EXCEPT ![r] = @ \cup {i}]
      /\ UNCHANGED <<aside, config, using, running, run, outcome, budget>>
  BY DEF Write, daemons, aux
<1>2. /\ src' \in [Roots -> Dir] /\ dest' \in [Roots -> Dir]
      /\ \A q \in Roots : /\ src'[q] = None <=> Gone(q)
                          /\ dest'[q] = None <=> Fresh(q)
                          /\ q # r => src'[q] = src[q] /\ dest'[q] = dest[q]
      /\ ~Fresh(r) => dest[r] \subseteq dest'[r]
      /\ ~Gone(r) => src[r] \subseteq src'[r]
      /\ Has(src'[r], i) \/ Has(dest'[r], i)
  <2>1. CASE using[r] = "src"
    <3>1. src[r] \in SUBSET Items
      BY <1>1, <2>1 DEF RootsInv, HostInv, HostType, Gone, Dir
    <3>2. src' = [src EXCEPT ![r] = @ \cup {i}] /\ UNCHANGED dest
      BY <2>1 DEF Write
    <3> QED
      BY <3>1, <3>2, RootsAssumption DEF RootsInv, HostInv, HostType, Gone, Fresh, Dir, Has
  <2>2. CASE using[r] # "src"
    <3>1. dest[r] \in SUBSET Items
      BY <1>1, <2>2 DEF RootsInv, HostInv, HostType, Fresh, Dir
    <3>2. dest' = [dest EXCEPT ![r] = @ \cup {i}] /\ UNCHANGED src
      BY <2>2 DEF Write
    <3> QED
      BY <3>1, <3>2, RootsAssumption DEF RootsInv, HostInv, HostType, Gone, Fresh, Dir, Has
  <2> QED
    BY <2>1, <2>2
<1>3. HostType'
  BY <1>1, <1>2 DEF RootsInv, HostInv, HostType, Gone, Fresh
<1>4. AsideKept' /\ OneRoot' /\ AllOrNone'
  <2>1. AsideKept'
    BY <1>1, <1>2 DEF RootsInv, HostInv, AsideKept, Fresh
  <2>2. OneRoot'
    BY <1>1, <1>2 DEF RootsInv, HostInv, HostType, OneRoot, Fresh
  <2>3. AllOrNone'
    BY <1>1, <1>2 DEF RootsInv, HostInv, AllOrNone, Gone, Fresh
  <2> QED
    BY <2>1, <2>2, <2>3
<1>5. NothingGone'
  <2> SUFFICES ASSUME NEW q \in Roots, NEW j \in written'[q]
               PROVE  Has(src'[q], j) \/ Has(dest'[q], j) \/ Has(aside'[q], j)
    BY DEF NothingGone
  <2>1. j \in written[q] \/ (q = r /\ j = i)
    BY <1>1 DEF RootsInv, HostInv, HostType
  <2>2. CASE j \in written[q]
    BY <1>1, <1>2, <2>2 DEF RootsInv, HostInv, NothingGone, Has, Gone, Fresh
  <2> QED
    BY <1>2, <2>1, <2>2
<1>6. RunInv'
  <2>1. RunType' /\ Configured' /\ Started'
    BY <1>1 DEF RootsInv, RunInv, RunType, Configured, Started, At
  <2>2. Selected'
    BY <1>1, <1>2 DEF RootsInv, RunInv, RunType, Selected, At, Gone, Fresh
  <2>3. Copying' /\ SettingAside'
    BY <1>1 DEF RootsInv, RunInv, Copying, SettingAside, At
  <2> QED
    BY <2>1, <2>2, <2>3 DEF RunInv
<1> QED
  BY <1>3, <1>4, <1>5, <1>6 DEF RootsInv, HostInv

\* A run that ends, in any way but well, with the host as it is or all started.
LEMMA EndStep ==
    ASSUME RootsInv, NEW how \in {"failed", "dead"}, Ends(how), HostInv', budget' \in Nat
    PROVE  RootsInv'
<1>1. RunType'
  BY DEF RootsInv, RunInv, RunType, Ends, Idle
<1>2. run'.pc = "idle" /\ outcome' # "ok"
  BY DEF Ends, Idle
<1> QED
  BY <1>1, <1>2 DEF RootsInv, RunInv, Configured, Selected, Copying, SettingAside,
                    Started, At

\* The block fails, and leaves the host to the always section.
LEMMA BlockFailsStep ==
    ASSUME RootsInv, BlockFails, HostInv', budget' \in Nat,
           \A r \in Roots : config[r] = "dest", UNCHANGED config, outcome # "ok"
    PROVE  RootsInv'
<1>1. RunType' /\ run'.pc = "always" /\ run'.failed /\ outcome' # "ok"
  BY DEF RootsInv, RunInv, RunType, BlockFails
<1> QED
  BY <1>1 DEF RootsInv, RunInv, Configured, Selected, Copying, SettingAside, Started, At

\* The host does not change in a step that leaves its variables alone.
LEMMA SameHost == ASSUME HostInv, UNCHANGED host PROVE HostInv'
  BY DEF host, dirs, daemons, HostInv, HostType, AsideKept, OneRoot, AllOrNone,
         NothingGone, Gone, Fresh, Has

\* A run begins, and writes the configuration before it selects.
LEMMA ConfigStep ==
    ASSUME RootsInv, NEW r \in Roots, Begin \/ WriteConfig(r) \/ Select
    PROVE  RootsInv'
<1> USE DEF RootsInv
<1>1. CASE Begin
  <2>1. HostInv' /\ budget' \in Nat
    BY <1>1, SameHost DEF Begin, aux, RunInv, RunType
  <2>2. PICK flag \in BOOLEAN :
          run' = [Idle EXCEPT !.pc = "config", !.todo = Roots, !.rollback = flag]
    BY <1>1 DEF Begin
  <2>3. RunType' /\ run'.pc = "config" /\ run'.todo = Roots /\ ~run'.copying
        /\ outcome' = "none"
    BY <1>1, <2>1, <2>2 DEF Begin, RunType, Idle
  <2> QED
    BY <2>1, <2>3 DEF RunInv, Configured, Selected, Copying, SettingAside, Started, At
<1>2. CASE WriteConfig(r)
  <2>1. /\ At("config") /\ r \in run.todo
        /\ config' = [config EXCEPT ![r] = "dest"]
        /\ run' = [run EXCEPT !.todo = @ \ {r}, !.changed = @ \/ config[r] = "src"]
        /\ UNCHANGED <<src, dest, aside, using, running, written, outcome, budget>>
    BY <1>2 DEF WriteConfig, dirs, daemons, aux
  <2>2. config' \in [Roots -> {"src", "dest"}] /\ config'[r] = "dest"
        /\ \A q \in Roots : q # r => config'[q] = config[q]
    BY <2>1 DEF HostInv, HostType
  <2>3. HostInv'
    BY <2>1, <2>2 DEF HostInv, HostType, AsideKept, OneRoot, AllOrNone, NothingGone,
                      Gone, Fresh
  <2>4. RunType' /\ run'.pc = "config" /\ run'.todo = run.todo \ {r} /\ ~run'.copying
    <3>1. PICK b \in BOOLEAN : b = (run.changed \/ config[r] = "src")
      BY Zenon
    <3>2. run' = [run EXCEPT !.todo = @ \ {r}, !.changed = b]
      BY <2>1, <3>1
    <3> QED
      BY <2>1, <3>2 DEF RunInv, RunType, At, Selected
  <2> QED
    BY <2>1, <2>2, <2>3, <2>4
       DEF RunInv, Configured, Selected, Copying, SettingAside, Started, At
<1>3. CASE Select
  <2> DEFINE pending == {q \in Roots : ~Gone(q) /\ Fresh(q)}
  <2>1. HostInv' /\ budget' \in Nat
    BY <1>3, SameHost DEF Select, aux, RunInv, RunType
  <2>2. /\ At("config") /\ run.todo = {} /\ UNCHANGED <<host, outcome>>
        /\ run' = [run EXCEPT !.pc = IF pending = {} THEN "confirm" ELSE "compose",
                              !.pending = pending]
    BY <1>3 DEF Select, Gone, Fresh
  <2>3. /\ RunType' /\ run'.pc = (IF pending = {} THEN "confirm" ELSE "compose")
        /\ run'.pending = pending /\ run'.copying = run.copying
    BY <2>1, <2>2 DEF RunInv, RunType
  <2>4. Configured' /\ Selected'
    BY <2>2, <2>3 DEF RunInv, Configured, Selected, At, host, dirs, Gone, Fresh
  <2>5. Copying' /\ SettingAside'
    BY <2>3 DEF Copying, SettingAside, At
  <2>6. pending = {} => running \in {{}, Roots} /\ \A q \in running : using[q] = "dest"
    BY DEF HostInv, HostType, AllOrNone, OneRoot
  <2>7. Started'
    BY <2>2, <2>3, <2>6 DEF RunInv, Started, At, host, daemons
  <2> QED
    BY <2>1, <2>3, <2>4, <2>5, <2>7 DEF RunInv
<1> QED
  BY <1>1, <1>2, <1>3

\* During a block the configuration is complete, and the last run is forgotten.
LEMMA InBlock ==
    ASSUME RootsInv, ~At("idle"), ~At("config")
    PROVE  (\A r \in Roots : config[r] = "dest") /\ outcome # "ok"
  BY DEF RootsInv, RunInv, Configured, Started

\* Projects and daemons are stopped, or the block fails.
LEMMA StopStep ==
    ASSUME RootsInv,
           StopCompose \/ ComposeDown \/ ComposeFails \/ StopDaemons \/ DaemonSurvives
    PROVE  RootsInv'
<1> USE DEF RootsInv
<1>a. budget \in Nat
  BY DEF RunInv, RunType
<1>1. CASE StopCompose
  <2>1. /\ At("compose") /\ run' = [run EXCEPT !.pc = "stop"]
        /\ UNCHANGED <<src, dest, aside, config, using, running, written, outcome, budget>>
    BY <1>1 DEF StopCompose, GoTo, dirs, daemons, aux
  <2>2. HostInv'
    BY <2>1 DEF HostInv, HostType, AsideKept, OneRoot, AllOrNone, NothingGone, Gone,
                Fresh
  <2>3. RunType' /\ run'.pc = "stop" /\ run'.pending = run.pending
        /\ run'.copying = run.copying
    BY <2>1 DEF RunInv, RunType
  <2> QED
    BY <2>1, <2>2, <2>3 DEF RunInv, Configured, Selected, Copying, SettingAside, Started,
                            At, Gone, Fresh
<1>2. CASE ComposeDown
  <2>1. At("compose") /\ BlockFails /\ UNCHANGED <<host, budget>>
    BY <1>2 DEF ComposeDown, aux
  <2>2. HostInv' /\ UNCHANGED config
    BY <2>1, SameHost DEF host
  <2> QED
    BY <1>a, <2>1, <2>2, InBlock, BlockFailsStep DEF At
<1>3. CASE ComposeFails
  <2>1. /\ At("compose") /\ BlockFails /\ Spend("compose")
        /\ UNCHANGED <<src, dest, aside, config, using, running, written>>
    BY <1>3 DEF ComposeFails, dirs, daemons
  <2>2. HostInv'
    BY <2>1 DEF HostInv, HostType, AsideKept, OneRoot, AllOrNone, NothingGone, Gone,
                Fresh
  <2>3. budget' \in Nat
    BY <1>a, <2>1 DEF Spend
  <2> QED
    BY <2>1, <2>2, <2>3, InBlock, BlockFailsStep DEF At
<1>4. CASE StopDaemons
  <2>1. /\ At("stop") /\ running' = {}
        /\ run' = [run EXCEPT !.pc = "copy", !.todo = run.pending]
        /\ UNCHANGED <<src, dest, aside, config, using, written, outcome, budget>>
    BY <1>4 DEF StopDaemons, dirs, aux
  <2>2. HostInv'
    BY <2>1 DEF HostInv, HostType, AsideKept, OneRoot, AllOrNone, NothingGone, Gone,
                Fresh
  <2>3. RunType' /\ run'.pc = "copy" /\ run'.pending = run.pending
        /\ run'.todo = run.pending /\ run'.copying = run.copying
    BY <2>1 DEF RunInv, RunType
  <2> QED
    BY <2>1, <2>2, <2>3 DEF RunInv, Configured, Selected, Copying, SettingAside, Started,
                            At, Gone, Fresh
<1>5. CASE DaemonSurvives
  <2>1. /\ At("stop") /\ BlockFails /\ Spend("survives") /\ running' \subseteq running
        /\ UNCHANGED <<src, dest, aside, config, using, written>>
    BY <1>5 DEF DaemonSurvives, dirs
  <2>2. \E r \in Roots : ~Gone(r) /\ Fresh(r)
    BY <2>1 DEF RunInv, RunType, Selected
  <2>3. HostInv'
    BY <2>1, <2>2 DEF HostInv, HostType, AsideKept, OneRoot, AllOrNone, NothingGone,
                      Gone, Fresh
  <2>4. budget' \in Nat
    BY <1>a, <2>1 DEF Spend
  <2> QED
    BY <2>1, <2>3, <2>4, InBlock, BlockFailsStep DEF At
<1> QED
  BY <1>1, <1>2, <1>3, <1>4, <1>5

\* The copy of one root after the other, with no daemon running.
LEMMA CopyStep ==
    ASSUME RootsInv, NEW r \in Roots, CopyBegins(r) \/ CopyItem(r) \/ CopyFails \/ CopyDone
    PROVE  RootsInv'
<1> USE DEF RootsInv
<1>a. /\ At("copy") /\ running = {} /\ run.todo \subseteq run.pending
      /\ run.pending \subseteq Roots
      /\ \A q \in run.pending : ~Gone(q)
      /\ \A q \in run.pending \ run.todo : ~Fresh(q) /\ src[q] \subseteq dest[q]
      /\ ~run.copying => \A q \in run.todo : Fresh(q)
      /\ \A p, q \in run.todo : ~Fresh(p) /\ ~Fresh(q) => p = q
  BY DEF CopyBegins, CopyItem, CopyFails, CopyDone, RunInv, RunType, Copying
\* One root grows on the data volume.
<1>b. ASSUME NEW d \in SUBSET Items, dest' = [dest EXCEPT ![r] = d], r \in run.todo,
             ~Fresh(r) => dest[r] \subseteq d,
             UNCHANGED <<src, aside, config, using, running, written>>
      PROVE  /\ HostInv' /\ dest'[r] = d /\ d # None
             /\ \A q \in Roots : q # r => dest'[q] = dest[q]
  <2>1. /\ dest' \in [Roots -> Dir] /\ dest'[r] = d /\ d # None
        /\ \A q \in Roots : q # r => dest'[q] = dest[q]
    BY <1>b, RootsAssumption DEF HostInv, HostType, Dir
  <2>2. config[r] = "dest"
    BY <1>a, InBlock DEF At
  <2>3. HostType' /\ OneRoot' /\ AllOrNone'
    BY <1>a, <1>b, <2>1, <2>2 DEF HostInv, HostType, OneRoot, AllOrNone, Gone, Fresh
  <2>4. AsideKept'
    BY <1>b, <2>1 DEF HostInv, AsideKept, Fresh
  <2>5. NothingGone'
    BY <1>b, <2>1 DEF HostInv, NothingGone, Has, Fresh
  <2> QED
    BY <2>1, <2>3, <2>4, <2>5 DEF HostInv
<1>1. CASE CopyBegins(r)
  <2>1. /\ ~run.copying /\ r \in run.todo /\ Fresh(r)
        /\ dest' = [dest EXCEPT ![r] = {}] /\ run' = [run EXCEPT !.copying = TRUE]
        /\ UNCHANGED <<src, aside, config, using, running, written, outcome, budget>>
    BY <1>1, <1>a DEF CopyBegins, daemons, aux, Fresh
  <2>2. HostInv' /\ dest'[r] # None /\ \A q \in Roots : q # r => dest'[q] = dest[q]
    <3>1. {} \in SUBSET Items /\ (~Fresh(r) => dest[r] \subseteq {})
      BY <2>1
    <3> HIDE DEF RootsInv
    <3> QED
      BY <1>b, <2>1, <3>1, Zenon
  <2>3. RunType' /\ run'.pc = "copy" /\ run'.todo = run.todo /\ run'.copying
        /\ run'.pending = run.pending
    BY <1>a, <2>1 DEF RunInv, RunType, At
  <2>4. Copying'
    BY <1>a, <2>1, <2>2, <2>3 DEF Copying, Gone, Fresh
  <2> QED
    BY <2>1, <2>2, <2>3, <2>4, <1>a DEF RunInv, Configured, Selected, SettingAside,
                                        Started, At
<1>2. CASE CopyItem(r)
  <2>a. run.copying /\ r \in run.todo /\ ~Fresh(r) /\ src[r] \in SUBSET Items
        /\ dest[r] \in SUBSET Items
        /\ UNCHANGED <<src, aside, config, using, running, written, outcome, budget>>
    BY <1>2, <1>a DEF CopyItem, daemons, aux, Fresh, Gone, HostInv, HostType, Dir
  <2>1. CASE src[r] \subseteq dest[r]
             /\ run' = [run EXCEPT !.copying = FALSE, !.todo = @ \ {r}] /\ UNCHANGED dest
    <3>1. HostInv'
      BY <2>a, <2>1 DEF HostInv, HostType, AsideKept, OneRoot, AllOrNone, NothingGone,
                        Gone, Fresh
    <3>2. RunType' /\ run'.pc = "copy" /\ run'.todo = run.todo \ {r} /\ ~run'.copying
          /\ run'.pending = run.pending
      BY <1>a, <2>a, <2>1 DEF RunInv, RunType, At
    <3>3. Copying'
      BY <1>a, <2>a, <2>1, <3>2 DEF Copying, Gone, Fresh
    <3> QED
      BY <2>a, <3>1, <3>2, <3>3, <1>a DEF RunInv, Configured, Selected, SettingAside,
                                          Started, At
  <2>2. CASE /\ \E i \in src[r] \ dest[r] : dest' = [dest EXCEPT ![r] = @ \cup {i}]
             /\ UNCHANGED run
    <3>1. PICK i \in src[r] \ dest[r] : dest' = [dest EXCEPT ![r] = dest[r] \cup {i}]
      BY <2>2
    <3>2. HostInv' /\ dest'[r] # None /\ \A q \in Roots : q # r => dest'[q] = dest[q]
      BY <1>b, <2>a, <3>1
    <3>3. Copying'
      BY <1>a, <2>a, <2>2, <3>2 DEF Copying, Gone, Fresh
    <3>4. RunType'
      BY <2>a, <2>2 DEF RunInv, RunType
    <3> QED
      BY <2>a, <2>2, <3>2, <3>3, <3>4, <1>a DEF RunInv, Configured, Selected,
                                          SettingAside, Started, At
  <2> QED
    BY <1>2, <2>1, <2>2 DEF CopyItem
<1>3. CASE CopyFails
  <2>1. At("copy") /\ BlockFails /\ Spend("copy") /\ UNCHANGED host
    BY <1>3 DEF CopyFails
  <2>2. HostInv' /\ UNCHANGED config
    BY <2>1, SameHost DEF host
  <2>3. budget' \in Nat
    BY <2>1 DEF Spend, RunInv, RunType
  <2> QED
    BY <2>1, <2>2, <2>3, InBlock, BlockFailsStep DEF At
<1>4. CASE CopyDone
  <2>1. /\ run.todo = {} /\ run' = [run EXCEPT !.pc = "aside", !.todo = run.pending]
        /\ UNCHANGED <<host, outcome, budget>>
    BY <1>4 DEF CopyDone, aux
  <2>2. HostInv'
    BY <2>1, SameHost
  <2>3. RunType' /\ run'.pc = "aside" /\ run'.todo = run.pending
    BY <2>1 DEF RunInv, RunType
  <2> QED
    BY <1>a, <2>1, <2>2, <2>3 DEF RunInv, Configured, Selected, Copying, SettingAside,
                                  Started, At, Gone, Fresh, host, dirs, daemons
<1> QED
  BY <1>1, <1>2, <1>3, <1>4

\* A complete root is set aside: the only step that empties a default path.
LEMMA AsideStep ==
    ASSUME RootsInv, NEW r \in Roots, SetAside(r)
    PROVE  RootsInv'
<1> USE DEF RootsInv
<1>1. /\ At("aside") /\ r \in run.todo /\ running = {}
      /\ ~Gone(r) /\ ~Fresh(r) /\ src[r] \subseteq dest[r]
      /\ run' = [run EXCEPT !.todo = @ \ {r},
                            !.pc = IF run.todo = {r} THEN "always" ELSE "aside"]
      /\ UNCHANGED <<dest, config, using, running, written, outcome, budget>>
  BY DEF SetAside, RunInv, SettingAside, daemons, aux
<1>2. /\ src' \in [Roots -> Dir] /\ aside' \in [Roots -> Dir]
      /\ \A q \in Roots : q # r => src'[q] = src[q] /\ aside'[q] = aside[q]
      /\ \/ aside[r] = None /\ aside'[r] = src[r] /\ src'[r] = None
         \/ aside[r] # None /\ aside'[r] = aside[r] /\ src'[r] = src[r]
  BY DEF SetAside, HostInv, HostType, Dir
<1>3. HostType' /\ OneRoot' /\ AllOrNone'
  BY <1>1, <1>2 DEF HostInv, HostType, OneRoot, AllOrNone, Gone, Fresh
<1>4. AsideKept'
  BY <1>1, <1>2 DEF HostInv, AsideKept, Fresh
<1>5. NothingGone'
  BY <1>1, <1>2 DEF HostInv, NothingGone, Has, Gone
<1>6. RunType' /\ run'.pc = (IF run.todo = {r} THEN "always" ELSE "aside")
      /\ run'.todo = run.todo \ {r}
  BY <1>1 DEF RunInv, RunType
<1>7. SettingAside'
  BY <1>1, <1>2, <1>6 DEF RunInv, RunType, SettingAside, At, Gone, Fresh
<1> QED
  BY <1>1, <1>3, <1>4, <1>5, <1>6, <1>7
     DEF HostInv, RunInv, Configured, Selected, Copying, Started, At

\* The always section starts what does not run.
LEMMA AlwaysStep == ASSUME RootsInv, Always PROVE RootsInv'
<1> USE DEF RootsInv
<1>1. /\ At("always") /\ StartUp(Roots \ running)
      /\ UNCHANGED <<aside, config, written, budget>>
      /\ IF run.failed THEN Ends("failed") ELSE GoTo("confirm")
  BY DEF Always, aux
<1>2. /\ HostInv' /\ running' = Roots
      /\ \A r \in Roots : using'[r] = IF r \in Roots \ running THEN config[r] ELSE using[r]
  <2>1. running \subseteq Roots
    BY DEF HostInv, HostType
  <2> QED
    BY <1>1, <2>1, StartUpStep
<1>3. budget' \in Nat
  BY <1>1 DEF RunInv, RunType
<1>4. CASE run.failed
  BY <1>1, <1>2, <1>3, <1>4, EndStep
<1>5. CASE ~run.failed
  <2>1. RunType' /\ run'.pc = "confirm" /\ UNCHANGED outcome
    BY <1>1, <1>3, <1>5 DEF GoTo, RunInv, RunType
  <2>2. \A r \in Roots : using'[r] = "dest" /\ config[r] = "dest"
    BY <1>1, <1>2, <1>5, InBlock DEF RunInv, Started, At
  <2> QED
    BY <1>1, <1>2, <2>1, <2>2 DEF RunInv, Configured, Selected, Copying, SettingAside,
                                  Started, At
<1> QED
  BY <1>4, <1>5

\* The confirmation may start the daemons through the socket.
LEMMA ConfirmStep == ASSUME RootsInv, Confirm PROVE RootsInv'
<1> USE DEF RootsInv
<1>1. /\ At("confirm") /\ UNCHANGED <<aside, config, written, budget>>
      /\ running \in {{}, Roots} /\ running \subseteq Roots
      /\ \A r \in running : using[r] = "dest"
      /\ \A r \in Roots : config[r] = "dest"
      /\ budget' \in Nat
  BY InBlock DEF Confirm, aux, RunInv, RunType, Started, HostInv, HostType, At
<1>2. /\ HostInv' /\ running' \in {{}, Roots}
      /\ \A r \in running' : using'[r] = "dest"
  <2>1. CASE Docker \notin running /\ socket
    <3>1. StartUp(Roots \ running)
      BY <2>1 DEF Confirm
    <3>2. /\ HostInv' /\ running' = Roots
          /\ \A r \in Roots : using'[r] = IF r \in Roots \ running THEN config[r]
                                          ELSE using[r]
      BY <1>1, <3>1, StartUpStep
    <3> QED
      BY <1>1, <3>2
  <2>2. CASE ~(Docker \notin running /\ socket)
    <3>1. UNCHANGED <<src, dest, using, running>>
      BY <2>2 DEF Confirm
    <3> QED
      BY <1>1, <3>1 DEF HostInv, HostType, AsideKept, OneRoot, AllOrNone, NothingGone,
                        Gone, Fresh
  <2> QED
    BY <2>1, <2>2
<1>3. CASE Docker \in running' /\ using'[Docker] = "dest"
  <2>1. RunType' /\ run'.pc = "restart" /\ UNCHANGED outcome
    BY <1>1, <1>3 DEF Confirm, GoTo, RunInv, RunType
  <2> QED
    BY <1>1, <1>2, <1>3, <2>1 DEF RunInv, Configured, Selected, Copying, SettingAside,
                                  Started, At
<1>4. CASE ~(Docker \in running' /\ using'[Docker] = "dest")
  BY <1>1, <1>2, <1>4, EndStep DEF Confirm
<1> QED
  BY <1>3, <1>4

\* Daemons restart, and the rollback copies go: all that is in them is on the data
\* volume.
LEMMA LastStep == ASSUME RootsInv, RestartDaemons \/ RemoveRollback PROVE RootsInv'
<1> USE DEF RootsInv
<1>1. /\ At("restart") \/ At("rollback")
      /\ running = Roots /\ \A r \in Roots : using[r] = "dest"
      /\ \A r \in Roots : config[r] = "dest"
      /\ UNCHANGED <<config, written, budget>> /\ budget' \in Nat
  BY InBlock DEF RestartDaemons, RemoveRollback, aux, RunInv, RunType, Started, At
<1>2. CASE RestartDaemons
  <2>1. /\ HostInv' /\ running' = Roots /\ \A r \in Roots : using'[r] = "dest"
    <3>1. CASE run.changed /\ run.pending = {}
      <4>1. StartUp(Roots) /\ UNCHANGED aside /\ running \cup Roots = Roots
        BY <1>1, <1>2, <3>1 DEF RestartDaemons
      <4> QED
        BY <1>1, <4>1, StartUpStep
    <3>2. CASE ~(run.changed /\ run.pending = {})
      <4>1. UNCHANGED <<src, dest, using, running, aside>>
        BY <1>2, <3>2 DEF RestartDaemons, daemons
      <4> QED
        BY <1>1, <4>1 DEF HostInv, HostType, AsideKept, OneRoot, AllOrNone, NothingGone,
                          Gone, Fresh
    <3> QED
      BY <3>1, <3>2
  <2>2. RunType' /\ run'.pc = "rollback" /\ UNCHANGED outcome
    BY <1>1, <1>2 DEF RestartDaemons, GoTo, RunInv, RunType
  <2> QED
    BY <1>1, <2>1, <2>2 DEF RunInv, Configured, Selected, Copying, SettingAside, Started,
                            At
<1>3. CASE RemoveRollback
  <2>1. /\ UNCHANGED <<src, dest, using, running>>
        /\ aside' = (IF run.rollback THEN All(None) ELSE aside)
        /\ Ends("ok")
    BY <1>3 DEF RemoveRollback, daemons
  <2>2. aside' \in [Roots -> Dir] /\ \A r \in Roots : aside'[r] \in {None, aside[r]}
    BY <2>1 DEF All, HostInv, HostType, Dir
  <2>3. NothingGone'
    BY <1>1, <2>1, <2>2 DEF HostInv, NothingGone, AsideKept, Has, Fresh
  <2>4. HostInv'
    BY <1>1, <2>1, <2>2, <2>3 DEF HostInv, HostType, AsideKept, OneRoot, AllOrNone, Gone,
                                  Fresh
  <2>5. RunType' /\ run'.pc = "idle"
    BY <1>1, <2>1 DEF Ends, Idle, RunInv, RunType
  <2> QED
    BY <1>1, <2>1, <2>4, <2>5 DEF RunInv, Configured, Selected, Copying, SettingAside,
                                  Started, At
<1> QED
  BY <1>2, <1>3

\* A run stops dead, with its host or without.
LEMMA DeadStep == ASSUME RootsInv, Kill \/ Reboot PROVE RootsInv'
<1> USE DEF RootsInv
<1>1. budget' \in Nat /\ Ends("dead")
  BY DEF Kill, Reboot, Spend, RunInv, RunType
<1>2. HostInv'
  <2>1. CASE Kill
    BY <2>1, SameHost DEF Kill
  <2>2. CASE Reboot
    <3>1. StartUp(Roots) /\ UNCHANGED <<aside, config, written>>
          /\ running \cup Roots = Roots
      BY <2>2 DEF Reboot, HostInv, HostType
    <3> QED
      BY <3>1, StartUpStep
  <2> QED
    BY <2>1, <2>2
<1> QED
  BY <1>1, <1>2, EndStep

LEMMA RootsInvStep == RootsInv /\ [Next]_vars => RootsInv'
<1> SUFFICES ASSUME RootsInv, [Next]_vars PROVE RootsInv'
  OBVIOUS
<1>1. CASE UNCHANGED vars
  <2>1. HostInv'
    BY <1>1, SameHost DEF vars, RootsInv
  <2>2. RunInv'
    BY <1>1 DEF vars, aux, host, dirs, daemons, RootsInv, RunInv, RunType, Configured,
                Selected, Copying, SettingAside, Started, At, Gone, Fresh
  <2> QED
    BY <2>1, <2>2 DEF RootsInv
<1>2. CASE Next
  BY <1>2, RootsAssumption, WriteStep, ConfigStep, StopStep, CopyStep, AsideStep,
     AlwaysStep, ConfirmStep, LastStep, DeadStep
     DEF Next, Role, Faults
<1> QED
  BY <1>1, <1>2

LEMMA RootsInvariant == Spec => []RootsInv
  BY RootsInit, RootsInvStep, PTL DEF Spec

\* Every variable keeps its type, and no daemon runs without its root.
THEOREM TypeCorrect == Spec => []TypeOK
<1>1. RootsInv => TypeOK
  BY TypeParts DEF RootsInv, HostInv, RunInv
<1> QED
  BY <1>1, RootsInvariant, PTL

\* Nothing a daemon wrote is lost by any run, failure, kill or reboot, nor by the
\* removal of rollback copies.
THEOREM NothingIsLost == Spec => []NothingGone
<1>1. RootsInv => NothingGone
  BY DEF RootsInv, HostInv
<1> QED
  BY <1>1, RootsInvariant, PTL

\* After a run that ended well every daemon runs on the data volume and finds all
\* it wrote there, unless the default path still holds what was never copied.
THEOREM RelocationDone == Spec => []Relocated
<1>1. RootsInv => Relocated
  <2> SUFFICES ASSUME RootsInv, outcome = "ok", NEW r \in Roots, ~Stranded(r)
               PROVE  r \in running /\ Healthy(r)
    BY DEF Relocated
  <2>1. r \in running /\ using[r] = "dest"
    BY DEF RootsInv, RunInv, Started
  <2>2. dest[r] # None
    BY <2>1 DEF RootsInv, HostInv, HostType, Fresh
  <2>3. ASSUME NEW i \in written[r] PROVE i \in dest[r]
    BY <2>2, <2>3 DEF RootsInv, HostInv, NothingGone, AsideKept, Has, Stranded, Fresh
  <2> QED
    BY <2>1, <2>3 DEF Healthy
<1> QED
  BY <1>1, RootsInvariant, PTL
=============================================================================
