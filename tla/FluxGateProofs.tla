--------------------------- MODULE FluxGateProofs ---------------------------
(* A build that ends well leaves no release suspended: for any releases,     *)
(* tier and dependencies, and any strikes, kills and failing commands.       *)
EXTENDS FluxGate, TLAPS

-----------------------------------------------------------------------------
(* The inductive invariant. *)

\* Outside its loops a build has nothing left to visit, and it is between a
\* suspend and its resume only in a reset.
LoopInv ==
    /\ pc \notin {"hold", "resume", "reset"} => todo = {}
    /\ pc # "reset" => half = {}
    /\ pc = "reset" => todo \subseteq stalled
    /\ outcome = "done" => pc = "idle"

\* Only the tier and what is stalled is ever suspended.
HeldOrStalled == suspended \subseteq stalled \cup Tier

\* Once the tier is resumed, by a build that lost no command, only what is stalled
\* is suspended.
Released ==
    clean => /\ pc = "resume" => suspended \subseteq stalled \cup todo
             /\ pc \in {"init", "store", "record", "mark", "second", "look", "reset",
                        "window"} => suspended \subseteq stalled

\* The last survey passes only with nothing stalled.
LastSurvey ==
    pc = "reset" /\ phase = "survey2" /\ ~notready =>
        todo = {} /\ (clean => suspended = {})

\* The types of what cluster_init prepares.
Ground == /\ vault \subseteq {"runtime", "garage"} /\ marker \in BOOLEAN
          /\ store \in {"down", "up", "minted", "recorded"}

FluxInv == TypeOK /\ LoopInv /\ HeldOrStalled /\ Released /\ LastSurvey /\ NothingHeld

LEMMA FluxInit == Init => FluxInv
<1> SUFFICES ASSUME Init PROVE FluxInv
  OBVIOUS
<1>1. api \in BOOLEAN /\ notready \in BOOLEAN /\ clean \in BOOLEAN /\ marker \in BOOLEAN
  BY Zenon DEF Init
<1>2. TypeOK
  BY <1>1, FluxAssumption DEF Init, TypeOK
<1>3. LoopInv /\ HeldOrStalled /\ Released /\ LastSurvey /\ NothingHeld
  BY DEF Init, LoopInv, HeldOrStalled, Released, LastSurvey, NothingHeld
<1> QED
  BY <1>2, <1>3 DEF FluxInv

-----------------------------------------------------------------------------

\* Flux and the strikes: no step of theirs suspends a release or takes a stalled
\* one back.
LEMMA FluxStep ==
    ASSUME FluxInv, Flux \/ Strike \/ \E r \in Releases : Degrade(r)
    PROVE  FluxInv'
<1> DEFINE Quiet ==
      /\ exists \subseteq exists' /\ exists' \subseteq Releases
      /\ supplied' \subseteq Releases
      /\ ready' \subseteq exists' /\ stalled' \subseteq exists' /\ ready' \cap stalled' = {}
      /\ stalled \subseteq stalled'
      /\ UNCHANGED <<suspended, pc, phase, todo, half, notready, clean, outcome>>
<1>1. Quiet /\ Ground'
  <2>1. ASSUME NEW r \in Releases, Create(r) \/ Supply(r) \/ Reconcile(r) \/ Exhaust(r)
        PROVE  Quiet /\ UNCHANGED groundwork
    BY <2>1 DEF FluxInv, TypeOK, Create, Supply, Reconcile, Exhaust, Pending, poll
  <2>2. ASSUME NEW r \in Releases, Degrade(r)
        PROVE  Quiet /\ UNCHANGED groundwork
    BY <2>2 DEF FluxInv, TypeOK, Degrade, poll
  <2>3. Strike => Quiet /\ UNCHANGED groundwork
    BY DEF FluxInv, TypeOK, Strike, poll
  <2>4. StoreStarts => Quiet /\ store' = "up" /\ UNCHANGED <<vault, marker>>
    BY DEF FluxInv, TypeOK, StoreStarts, poll
  <2> HIDE DEF Quiet
  <2> QED
    BY <2>1, <2>2, <2>3, <2>4 DEF Flux, FluxInv, TypeOK, Ground, groundwork
<1>2. api' \in BOOLEAN
  BY Zenon DEF FluxInv, TypeOK, Flux, Create, Supply, Reconcile, Exhaust, StoreStarts,
               Strike, Degrade
<1>3. budget' \in Nat
  BY DEF FluxInv, TypeOK, Flux, Create, Supply, Reconcile, Exhaust, StoreStarts, Strike,
         Degrade, Spend
<1>4. TypeOK'
  BY <1>1, <1>2, <1>3 DEF FluxInv, TypeOK, Ground
<1>5. (LoopInv /\ HeldOrStalled /\ Released /\ LastSurvey /\ NothingHeld)'
  BY <1>1 DEF FluxInv, LoopInv, HeldOrStalled, Released, LastSurvey, NothingHeld
<1> QED
  BY <1>4, <1>5 DEF FluxInv

\* A suspend of a release that exists: it is suspended now, or the build is not
\* clean and nothing happened.
LEMMA SuspendStep ==
    ASSUME TypeOK, NEW r, SuspendCall(r)
    PROVE  /\ \/ suspended' = suspended \cup {r} /\ UNCHANGED clean
              \/ suspended' = suspended /\ clean' = FALSE
           /\ clean' \in BOOLEAN /\ budget' \in Nat
<1>1. clean' \in BOOLEAN
  BY Zenon DEF SuspendCall, Succeeds, Fails, TypeOK
<1>2. budget' \in Nat
  BY DEF SuspendCall, Succeeds, Fails, Spend, TypeOK
<1> QED
  BY <1>1, <1>2 DEF SuspendCall, Succeeds, Fails

\* A resume: the release is not suspended now and no other is taken back, or the
\* build is not clean and nothing happened.
LEMMA ResumeStep ==
    ASSUME TypeOK, NEW r, ResumeCall(r)
    PROVE  /\ \/ suspended' = suspended \ {r} /\ UNCHANGED clean
              \/ suspended' = suspended /\ stalled' = stalled /\ clean' = FALSE
           /\ stalled \ {r} \subseteq stalled' /\ stalled' \subseteq stalled
           /\ clean' \in BOOLEAN /\ budget' \in Nat
<1>1. clean' \in BOOLEAN
  BY Zenon DEF ResumeCall, Succeeds, Fails, TypeOK
<1>2. budget' \in Nat
  BY DEF ResumeCall, Succeeds, Fails, Spend, TypeOK
<1> QED
  BY <1>1, <1>2 DEF ResumeCall, Succeeds, Fails

\* A build that ends in any way but well.
LEMMA EndStep ==
    ASSUME FluxInv, NEW how \in {"failed", "killed"}, Ends(how),
           suspended' \subseteq exists, stalled' \subseteq stalled,
           suspended' \subseteq stalled' \cup Tier,
           clean' \in BOOLEAN, budget' \in Nat, Ground',
           UNCHANGED <<api, exists, ready, supplied>>
    PROVE  FluxInv'
<1>1. notready' \in BOOLEAN
  BY Zenon DEF Ends
<1>2. TypeOK'
  BY <1>1 DEF FluxInv, TypeOK, Ends, Ground
<1> QED
  BY <1>2 DEF FluxInv, LoopInv, HeldOrStalled, Released, LastSurvey, NothingHeld, Ends

\* The hold and the resume of the tier.
LEMMA TierStep ==
    ASSUME FluxInv, NEW r \in Releases, Hold(r) \/ Resume(r)
    PROVE  FluxInv'
<1>1. CASE Hold(r)
  <2>1. /\ \/ suspended' = suspended \cup {r} /\ r \in exists
           \/ suspended' = suspended
        /\ clean' \in BOOLEAN /\ budget' \in Nat
    BY <1>1, SuspendStep DEF Hold, FluxInv, TypeOK
  <2>2. pc = "hold" /\ r \in todo /\ todo' = todo \ {r}
        /\ UNCHANGED <<api, exists, ready, stalled, supplied, vault, store, marker, pc,
                       phase, half, notready, outcome>>
    BY <1>1 DEF Hold, groundwork
  <2>3. TypeOK'
    BY <2>1, <2>2 DEF FluxInv, TypeOK, LoopInv
  <2> QED
    BY <2>1, <2>2, <2>3
       DEF FluxInv, TypeOK, LoopInv, HeldOrStalled, Released, LastSurvey, NothingHeld
<1>2. CASE Resume(r)
  <2>1. /\ \/ suspended' = suspended \ {r} /\ UNCHANGED clean
           \/ suspended' = suspended /\ clean' = FALSE
        /\ stalled \ {r} \subseteq stalled' /\ stalled' \subseteq stalled
        /\ r \notin stalled' => suspended' = suspended \ {r} \/ stalled = stalled'
        /\ clean' \in BOOLEAN /\ budget' \in Nat
    BY <1>2, ResumeStep DEF Resume, FluxInv, TypeOK
  <2>2. pc = "resume" /\ r \in todo /\ todo' = todo \ {r}
        /\ UNCHANGED <<api, exists, ready, supplied, vault, store, marker, pc, phase, half,
                       notready, outcome>>
    BY <1>2 DEF Resume, groundwork
  <2>3. TypeOK'
    BY <2>1, <2>2 DEF FluxInv, TypeOK, LoopInv
  <2>4. (LoopInv /\ LastSurvey /\ NothingHeld)'
    BY <2>2 DEF FluxInv, LoopInv, LastSurvey, NothingHeld
  <2>5. HeldOrStalled'
    BY <2>1 DEF FluxInv, HeldOrStalled
  <2>6. Released'
    BY <2>1, <2>2 DEF FluxInv, Released
  <2> QED
    BY <2>3, <2>4, <2>5, <2>6 DEF FluxInv
<1> QED
  BY <1>1, <1>2

\* The reset of a stalled release, and what ends it.
LEMMA ResetStep ==
    ASSUME FluxInv, NEW r \in Releases,
           ResetSuspend(r) \/ ResetResume(r) \/ ResumeTimesOut(r)
    PROVE  FluxInv'
<1>1. CASE ResetSuspend(r)
  <2>1. /\ pc = "reset" /\ r \in todo /\ r \in stalled /\ r \in exists
        /\ UNCHANGED <<api, exists, ready, stalled, supplied, vault, store, marker>>
    BY <1>1 DEF ResetSuspend, FluxInv, LoopInv, TypeOK, groundwork
  <2>2. /\ \/ suspended' = suspended \cup {r} /\ UNCHANGED clean
           \/ suspended' = suspended /\ clean' = FALSE
        /\ clean' \in BOOLEAN /\ budget' \in Nat
    BY <1>1, SuspendStep DEF ResetSuspend, FluxInv
  <2>3. CASE Ends("failed")
    BY <2>1, <2>2, <2>3, EndStep DEF FluxInv, TypeOK, HeldOrStalled, Ground
  <2>4. CASE half' = half \cup {r} /\ UNCHANGED <<pc, phase, todo, notready, outcome>>
    <3>1. TypeOK'
      BY <2>1, <2>2, <2>4 DEF FluxInv, TypeOK
    <3>2. (LoopInv /\ HeldOrStalled /\ NothingHeld)'
      BY <2>1, <2>2, <2>4 DEF FluxInv, LoopInv, HeldOrStalled, NothingHeld
    <3>3. Released' /\ LastSurvey'
      BY <2>1, <2>2, <2>4 DEF FluxInv, Released, LastSurvey
    <3> QED
      BY <3>1, <3>2, <3>3 DEF FluxInv
  <2> QED
    BY <1>1, <2>3, <2>4 DEF ResetSuspend
<1>2. CASE ResetResume(r)
  <2>1. /\ pc = "reset" /\ r \in half /\ r \in todo
        /\ UNCHANGED <<api, exists, ready, supplied, vault, store, marker>>
    BY <1>2 DEF ResetResume, FluxInv, TypeOK, groundwork
  <2>2. /\ \/ suspended' = suspended \ {r} /\ UNCHANGED clean
           \/ suspended' = suspended /\ stalled' = stalled /\ clean' = FALSE
        /\ stalled \ {r} \subseteq stalled' /\ stalled' \subseteq stalled
        /\ clean' \in BOOLEAN /\ budget' \in Nat
    BY <1>2, ResumeStep DEF ResetResume, FluxInv
  <2>3. CASE Ends("failed")
    BY <2>1, <2>2, <2>3, EndStep DEF FluxInv, TypeOK, HeldOrStalled, Ground
  <2>4. CASE /\ half' = half \ {r} /\ todo' = todo \ {r}
             /\ UNCHANGED <<pc, phase, notready, outcome>>
    <3>1. TypeOK'
      BY <2>1, <2>2, <2>4 DEF FluxInv, TypeOK
    <3>2. (LoopInv /\ HeldOrStalled /\ NothingHeld)'
      BY <2>1, <2>2, <2>4 DEF FluxInv, LoopInv, HeldOrStalled, NothingHeld
    <3>3. Released' /\ LastSurvey'
      BY <2>1, <2>2, <2>4 DEF FluxInv, Released, LastSurvey
    <3> QED
      BY <3>1, <3>2, <3>3 DEF FluxInv
  <2> QED
    BY <1>2, <2>3, <2>4 DEF ResetResume
<1>3. CASE ResumeTimesOut(r)
  BY <1>3, EndStep DEF ResumeTimesOut, FluxInv, TypeOK, HeldOrStalled, Ground, groundwork
<1> QED
  BY <1>1, <1>2, <1>3

\* A poll looks at the releases.
LEMMA LookStep ==
    ASSUME FluxInv, Look \/ UnstallConfirm
    PROVE  FluxInv'
<1>1. CASE Look
  <2>1. /\ pc = "look" /\ pc' = "reset" /\ todo = {} /\ half = {}
        /\ todo' \subseteq stalled
        /\ UNCHANGED <<cluster, phase, half, clean, outcome, budget>>
    BY <1>1 DEF Look, FluxInv, LoopInv
  <2>2. notready' \in BOOLEAN
    BY <1>1, Zenon DEF Look
  <2>3. TypeOK'
    BY <2>1, <2>2 DEF FluxInv, TypeOK, cluster, groundwork
  <2>4. (LoopInv /\ HeldOrStalled /\ Released /\ NothingHeld)'
    BY <2>1 DEF FluxInv, LoopInv, HeldOrStalled, Released, NothingHeld, cluster, groundwork
  <2>5. LastSurvey'
    <3> SUFFICES ASSUME phase = "survey2", ~notready'
                 PROVE  todo' = {} /\ (clean' => suspended' = {})
      BY <2>1 DEF LastSurvey
    <3>1. api /\ todo' = stalled \cap Releases
          /\ exists \cap Releases \subseteq ready
      BY <1>1 DEF Look, Scope
    <3>2. stalled = {}
      BY <3>1 DEF FluxInv, TypeOK
    <3> QED
      BY <2>1, <3>1, <3>2 DEF FluxInv, Released, cluster, groundwork
  <2> QED
    BY <2>3, <2>4, <2>5 DEF FluxInv
<1>2. CASE UnstallConfirm /\ api
  <2>1. /\ pc = "look" /\ pc' = "reset" /\ phase = "confirm" /\ todo = {} /\ half = {}
        /\ UNCHANGED <<cluster, phase, todo, half, clean, outcome, budget>>
    BY <1>2 DEF UnstallConfirm, FluxInv, LoopInv
  <2>2. notready' \in BOOLEAN
    BY <1>2, Zenon DEF UnstallConfirm
  <2>3. TypeOK'
    BY <2>1, <2>2 DEF FluxInv, TypeOK, cluster, groundwork
  <2>4. (LoopInv /\ HeldOrStalled /\ Released /\ LastSurvey /\ NothingHeld)'
    BY <2>1 DEF FluxInv, LoopInv, HeldOrStalled, Released, LastSurvey, NothingHeld,
                cluster, groundwork
  <2> QED
    BY <2>3, <2>4 DEF FluxInv
<1>3. CASE UnstallConfirm /\ ~api
  BY <1>3, EndStep DEF UnstallConfirm, FluxInv, TypeOK, HeldOrStalled, Ground, cluster,
                      groundwork
<1> QED
  BY <1>1, <1>2, <1>3

\* What moves a build on between its loops.
LEMMA MoveStep ==
    ASSUME FluxInv,
           \/ Start \/ Rejoin \/ HoldDone \/ CensusPasses \/ ResumeDone \/ PollAgain
    PROVE  FluxInv'
<1> USE FluxAssumption
        DEF FluxInv, LoopInv, HeldOrStalled, Released, LastSurvey, NothingHeld, cluster,
            groundwork, poll
<1>1. CASE Start
  <2>1. clean' \in BOOLEAN
    BY <1>1, Zenon DEF Start
  <2>2. TypeOK'
    BY <1>1, <2>1 DEF Start, TypeOK
  <2> QED
    BY <1>1, <2>2 DEF Start
<1>2. CASE Rejoin
  <2>1. api' \in BOOLEAN
    BY <1>2, Zenon DEF Rejoin
  <2>2. TypeOK'
    BY <1>2, <2>1 DEF Rejoin, TypeOK
  <2> QED
    BY <1>2, <2>2 DEF Rejoin
<1>3. CASE HoldDone
  BY <1>3 DEF HoldDone, TypeOK
<1>4. CASE CensusPasses
  BY <1>4 DEF CensusPasses, TypeOK
<1>5. CASE ResumeDone
  BY <1>5 DEF ResumeDone, TypeOK
<1>6. CASE PollAgain
  BY <1>6 DEF PollAgain, TypeOK
<1> QED
  BY <1>1, <1>2, <1>3, <1>4, <1>5, <1>6

\* The steps of cluster_init before flux_unstall: no release is suspended or resumed.
LEMMA InitStep ==
    ASSUME FluxInv, FirstPass \/ KeyCreate \/ KeyRecord \/ Mark \/ SecondPass
    PROVE  FluxInv'
<1>1. UNCHANGED <<api, exists, suspended, ready, stalled, supplied, clean, budget>>
  BY DEF FirstPass, KeyCreate, KeyRecord, Mark, SecondPass
<1>2. pc \in {"init", "store", "record", "mark", "second"}
  BY DEF FirstPass, KeyCreate, KeyRecord, Mark, SecondPass
<1>3. Ground'
  <2>1. marker' \in BOOLEAN
    BY Zenon DEF FirstPass, KeyCreate, KeyRecord, Mark, SecondPass, FluxInv, TypeOK
  <2>2. vault' \subseteq {"runtime", "garage"}
    BY DEF FirstPass, KeyCreate, KeyRecord, Mark, SecondPass, Entries, FluxInv, TypeOK
  <2>3. store' \in {"down", "up", "minted", "recorded"}
    BY DEF FirstPass, KeyCreate, KeyRecord, Mark, SecondPass, FluxInv, TypeOK
  <2> QED
    BY <2>1, <2>2, <2>3 DEF Ground
<1>4. CASE Ends("failed")
  BY <1>1, <1>3, <1>4, EndStep DEF FluxInv, TypeOK, HeldOrStalled
<1>5. CASE ~Ends("failed")
  <2>1. pc' \in {"store", "record", "mark", "second", "look"}
        /\ UNCHANGED <<phase, todo, half, notready, outcome>>
    BY <1>5 DEF FirstPass, KeyCreate, KeyRecord, Mark, SecondPass, poll
  <2>2. TypeOK'
    BY <1>1, <1>2, <1>3, <2>1 DEF FluxInv, TypeOK, Ground
  <2> QED
    BY <1>1, <1>2, <2>1, <2>2 DEF FluxInv, LoopInv, HeldOrStalled, Released, LastSurvey,
                                  NothingHeld
<1> QED
  BY <1>4, <1>5

\* What ends a build, well or not.
LEMMA OverStep ==
    ASSUME FluxInv,
           CensusSpent \/ PollPasses \/ PollSpent \/ Kill
    PROVE  FluxInv'
<1>1. CASE CensusSpent \/ PollSpent \/ Kill
  <2>1. budget' \in Nat
    BY <1>1 DEF CensusSpent, PollSpent, Kill, Spend, FluxInv, TypeOK
  <2>2. /\ Ends("failed") \/ Ends("killed")
        /\ UNCHANGED <<cluster, clean>>
    BY <1>1 DEF CensusSpent, PollSpent, Kill
  <2> QED
    BY <2>1, <2>2, EndStep DEF FluxInv, TypeOK, HeldOrStalled, Ground, cluster,
                               groundwork
<1>2. CASE PollPasses
  <2>1. /\ pc = "reset" /\ todo = {} /\ half = {}
        /\ notready => phase = "unstall"
        /\ UNCHANGED <<cluster, clean, budget>>
    BY <1>2 DEF PollPasses
  <2>2. CASE Following = "end"
    <3>1. /\ phase = "survey2" /\ ~notready
          /\ pc' = "idle" /\ outcome' = "done" /\ phase' = "release" /\ todo' = {}
          /\ half' = {} /\ notready' = FALSE
      BY <1>2, <2>1, <2>2 DEF PollPasses, Following, FluxInv, TypeOK, Ends
    <3>2. notready' \in BOOLEAN
      BY <3>1, Zenon
    <3>3. TypeOK'
      BY <2>1, <3>1, <3>2 DEF FluxInv, TypeOK, cluster, groundwork
    <3>4. clean => suspended = {}
      BY <2>1, <3>1 DEF FluxInv, LastSurvey
    <3> QED
      BY <2>1, <3>1, <3>3, <3>4 DEF FluxInv, LoopInv, HeldOrStalled, Released,
                                    LastSurvey, NothingHeld, cluster, groundwork
  <2>3. CASE Following # "end"
    <3>1. /\ phase' \in {"release", "unstall", "confirm", "survey1", "survey2"}
          /\ pc' \in {"init", "look", "window"}
          /\ UNCHANGED <<todo, half, notready, outcome>>
      BY <1>2, <2>3 DEF PollPasses, Following, FluxInv, TypeOK
    <3> QED
      BY <2>1, <3>1 DEF FluxInv, TypeOK, LoopInv, HeldOrStalled, Released, LastSurvey,
                        NothingHeld, cluster, groundwork
  <2> QED
    BY <2>2, <2>3
<1> QED
  BY <1>1, <1>2

LEMMA FluxInvStep == FluxInv /\ [Next]_vars => FluxInv'
<1> SUFFICES ASSUME FluxInv, [Next]_vars PROVE FluxInv'
  OBVIOUS
<1>1. CASE UNCHANGED vars
  BY <1>1 DEF vars, FluxInv, TypeOK, LoopInv, HeldOrStalled, Released, LastSurvey,
              NothingHeld
<1>2. CASE Next
  BY <1>2, FluxStep, TierStep, ResetStep, LookStep, MoveStep, InitStep, OverStep
     DEF Next, Gate, Faults
<1> QED
  BY <1>1, <1>2

LEMMA FluxInvariant == Spec => []FluxInv
  BY FluxInit, FluxInvStep, PTL DEF Spec

\* Every variable keeps its type; only releases that exist are suspended, and none
\* is Ready and stalled at once.
THEOREM TypeCorrect == Spec => []TypeOK
  BY FluxInvariant, PTL DEF FluxInv

\* A build that ends well and lost no suspend or resume leaves no release
\* suspended, whatever earlier builds left.
THEOREM NothingStaysHeld == Spec => []NothingHeld
  BY FluxInvariant, PTL DEF FluxInv
=============================================================================
