--------------------------- MODULE VaultKeysProofs ---------------------------
(* The keys of the vault are never nowhere, and after a site build the       *)
(* repository can open the vault: for any number of shares, any threshold,   *)
(* any faults and any number of initialisations.                             *)
EXTENDS VaultKeys, FiniteSetTheorems, TLAPS

\* No share at all is below the threshold.
LEMMA NoShares == IsFiniteSet({}) /\ Cardinality({}) < Threshold
  BY FS_EmptySet, VaultAssumption

\* An unseal command leaves a well-typed attempt below the threshold.
LEMMA SubmitType ==
    ASSUME TypeOK, NEW g \in Nat, NEW i \in Nat, Submit(g, i)
    PROVE  /\ sealed' \in BOOLEAN
           /\ progress' \in SUBSET (Nat \X Nat) /\ IsFiniteSet(progress')
           /\ Cardinality(progress') < Threshold
<1> DEFINE p == progress \cup {<<g, i>>}
<1>1. p \in SUBSET (Nat \X Nat)
  BY DEF TypeOK
<1>2. IsFiniteSet(p)
  <2>1. IsFiniteSet(progress)
    BY DEF TypeOK
  <2> QED
    BY <2>1, FS_AddElement
<1> HIDE DEF p
<1>3. CASE ~up \/ ~sealed \/ gen = 0
  BY <1>3 DEF Submit, TypeOK
<1>4. CASE ~(~up \/ ~sealed \/ gen = 0) /\ Cardinality(p) < Threshold
  BY <1>1, <1>2, <1>4 DEF Submit, TypeOK, p
<1>5. CASE ~(~up \/ ~sealed \/ gen = 0) /\ ~(Cardinality(p) < Threshold)
  <2>1. progress' = {} /\ sealed' = ~Matches(p)
    BY <1>5 DEF Submit, p
  <2>2. sealed' \in BOOLEAN
    BY <2>1, Zenon
  <2> QED
    BY NoShares, <2>1, <2>2
<1> QED
  BY <1>3, <1>4, <1>5

-----------------------------------------------------------------------------
(* The inductive invariant. *)

\* The share the role submits next.
ShareInv ==
    /\ pc \in {"idle", "full", "ready", "status", "init", "record"} => share = 1
    /\ pc = "unseal" => share <= Threshold

\* Generations are numbered by initialisations.
Numbered == gen <= inits /\ built <= inits

\* Before the record the play holds the newest keys, younger than any vault that
\* a build ended well on; the surgical pass finds the keys of the vault recorded.
PlayKnows ==
    /\ pc = "record" => held # 0 /\ held = inits /\ built < held /\ gen \in {0, held}
    /\ pc = "surgical" => env # 0 /\ gen \in {0, env}

\* Once they are recorded, env.sh has the keys of the vault.
Recorded == gen # 0 /\ ~lost => gen = env \/ (pc = "record" /\ gen = held)

VaultInv == TypeOK /\ ShareInv /\ Numbered /\ PlayKnows /\ Recorded /\ Recoverable

LEMMA VaultInit == Init => VaultInv
<1> SUFFICES ASSUME Init PROVE VaultInv
  OBVIOUS
<1>1. TypeOK
  <2>1. up \in BOOLEAN /\ sealed \in BOOLEAN /\ site \in BOOLEAN /\ lost \in BOOLEAN
    BY Zenon DEF Init
  <2> QED
    BY <2>1, VaultAssumption, NoShares DEF Init, TypeOK
<1>2. ShareInv /\ Numbered /\ PlayKnows /\ Recorded /\ Recoverable
  BY DEF Init, ShareInv, Numbered, PlayKnows, Recorded, Recoverable
<1> QED
  BY <1>1, <1>2 DEF VaultInv

\* Spending a fault leaves a natural number of them.
LEMMA SpendType == ASSUME TypeOK, NEW kind, Spend(kind) PROVE budget' \in Nat
  BY DEF TypeOK, Spend

\* What the vault, Flux and the unsealer do on their own.
LEMMA VaultStep ==
    ASSUME VaultInv, PodUp \/ Restart \/ VolumeLost \/ Sync \/ Unsealer
    PROVE  VaultInv'
<1> USE DEF VaultInv
<1>1. CASE PodUp
  BY <1>1 DEF PodUp, stores, TypeOK, ShareInv, Numbered, PlayKnows, Recorded, Recoverable
<1>2. CASE Restart
  <2>1. budget' \in Nat
    BY <1>2, SpendType DEF Restart
  <2> QED
    BY NoShares, <1>2, <2>1 DEF Restart, stores, TypeOK, ShareInv, Numbered, PlayKnows, Recorded,
                      Recoverable
<1>3. CASE VolumeLost
  <2>1. budget' \in Nat
    BY <1>3, SpendType DEF VolumeLost
  <2>2. TypeOK'
    BY NoShares, <1>3, <2>1 DEF VolumeLost, stores, TypeOK
  <2>3. (ShareInv /\ Numbered /\ PlayKnows /\ Recorded /\ Recoverable)'
    BY <1>3 DEF VolumeLost, stores, TypeOK, ShareInv, Numbered, PlayKnows, Recorded,
                Recoverable
  <2> QED
    BY <2>2, <2>3
<1>4. CASE Sync
  BY <1>4 DEF Sync, vault, TypeOK, ShareInv, Numbered, PlayKnows, Recorded, Recoverable
<1>5. CASE UnsealerLooks
  BY <1>5 DEF UnsealerLooks, vault, stores, TypeOK, ShareInv, Numbered, PlayKnows,
              Recorded, Recoverable
<1>6. CASE UnsealerSubmits
  <2>1. /\ sealed' \in BOOLEAN
        /\ progress' \in SUBSET (Nat \X Nat) /\ IsFiniteSet(progress')
        /\ Cardinality(progress') < Threshold
    BY <1>6, SubmitType DEF UnsealerSubmits, TypeOK
  <2>2. walk' \in Nat
    BY <1>6 DEF UnsealerSubmits, TypeOK
  <2> QED
    BY <1>6, <2>1, <2>2 DEF UnsealerSubmits, stores, TypeOK, ShareInv, Numbered,
                            PlayKnows, Recorded, Recoverable
<1> QED
  BY <1>1, <1>2, <1>3, <1>4, <1>5, <1>6 DEF Unsealer

\* The initialisation: the only step that makes keys.
LEMMA InitStep ==
    ASSUME VaultInv, RunInit \/ InitAnswerLost
    PROVE  VaultInv'
<1> USE DEF VaultInv
<1>1. /\ pc = "init" /\ gen = 0
      /\ inits' = inits + 1 /\ gen' = inits + 1 /\ gen' > built
      /\ sealed' = TRUE /\ progress' = {} /\ UNCHANGED up
      /\ UNCHANGED <<stores, built>> /\ share = 1
    BY DEF RunInit, InitAnswerLost, Initialised, TypeOK, Numbered, ShareInv
<1>3. CASE RunInit
  BY NoShares, <1>1, <1>3 DEF RunInit, stores, TypeOK, ShareInv, Numbered, PlayKnows,
                          Recorded, Recoverable
<1>4. CASE InitAnswerLost
  <2>1. budget' \in Nat
    BY <1>4, SpendType DEF InitAnswerLost
  <2> QED
    BY NoShares, <1>1, <1>4, <2>1, VaultAssumption
       DEF InitAnswerLost, Ends, stores, TypeOK, ShareInv, Numbered, PlayKnows, Recorded,
           Recoverable
<1> QED
  BY <1>3, <1>4

\* The steps of a build that touch neither the vault nor a store of keys.
LEMMA PlayStep ==
    ASSUME VaultInv,
           \/ StartSite \/ StartClusterInit \/ PodReady \/ ReadStatus \/ Unreachable
           \/ Confirm \/ ConfirmFails \/ Configure \/ PushFails \/ Kill
    PROVE  VaultInv'
<1> USE VaultAssumption DEF VaultInv, TypeOK, ShareInv, Numbered, PlayKnows, Recorded,
                            Recoverable, vault, stores, Ends
<1>1. CASE StartSite
  BY <1>1 DEF StartSite
<1>2. CASE StartClusterInit
  <2>1. TypeOK'
    <3>1. site' \in BOOLEAN
      BY <1>2, Zenon DEF StartClusterInit
    <3> QED
      BY <1>2, <3>1 DEF StartClusterInit, Spend
  <2>2. (ShareInv /\ Numbered /\ PlayKnows /\ Recorded /\ Recoverable)'
    BY <1>2 DEF StartClusterInit
  <2> QED
    BY <2>1, <2>2
<1>3. CASE PodReady
  BY <1>3 DEF PodReady
<1>4. CASE ReadStatus
  BY <1>4 DEF ReadStatus
<1>5. CASE Unreachable
  BY <1>5 DEF Unreachable
<1>6. CASE Confirm
  BY <1>6 DEF Confirm
<1>7. CASE ConfirmFails
  BY <1>7 DEF ConfirmFails
<1>8. CASE Configure
  BY <1>8 DEF Configure, Open
<1>9. CASE PushFails
  BY <1>9 DEF PushFails, Spend
<1>10. CASE Kill
  <2>1. lost' \in BOOLEAN
    BY <1>10, Zenon DEF Kill
  <2>2. TypeOK'
    BY <1>10, <2>1 DEF Kill, Spend
  <2>3. (ShareInv /\ Numbered /\ PlayKnows /\ Recoverable)'
    BY <1>10 DEF Kill
  <2>4. Recorded'
    BY <1>10 DEF Kill
  <2> QED
    BY <2>2, <2>3, <2>4
<1> QED
  BY <1>1, <1>2, <1>3, <1>4, <1>5, <1>6, <1>7, <1>8, <1>9, <1>10

\* The steps of a build that record, seal and submit keys.
LEMMA KeyStep ==
    ASSUME VaultInv, FullPass \/ RecordKeys \/ RoleUnseals \/ SurgicalPass
    PROVE  VaultInv'
<1> USE VaultAssumption DEF VaultInv, TypeOK, ShareInv, Numbered, PlayKnows, Recorded,
                            Recoverable, vault, stores, Ends
<1>1. CASE FullPass
  BY <1>1 DEF FullPass, SealedKeys
<1>2. CASE RecordKeys
  BY <1>2 DEF RecordKeys
<1>3. CASE RoleUnseals
  <2>1. /\ sealed' \in BOOLEAN
        /\ progress' \in SUBSET (Nat \X Nat) /\ IsFiniteSet(progress')
        /\ Cardinality(progress') < Threshold
    BY <1>3, SubmitType DEF RoleUnseals
  <2>2. /\ pc' \in {"idle", "unseal", "confirm"} /\ share' \in 1 .. Threshold + 1
        /\ held' \in Nat
        /\ pc' = "idle" => share' = 1
        /\ pc' = "unseal" => share' <= Threshold
    BY <1>3 DEF RoleUnseals
  <2>3. UNCHANGED <<up, gen, inits, stores, walk, site, built, lost, budget>>
        /\ pc = "unseal"
    BY <1>3 DEF RoleUnseals
  <2> QED
    BY <2>1, <2>2, <2>3
<1>4. CASE SurgicalPass
  BY <1>4 DEF SurgicalPass, SealedKeys
<1> QED
  BY <1>1, <1>2, <1>3, <1>4

LEMMA VaultInvStep == VaultInv /\ [Next]_vars => VaultInv'
<1> SUFFICES ASSUME VaultInv, [Next]_vars PROVE VaultInv'
  OBVIOUS
<1>1. CASE UNCHANGED vars
  BY <1>1 DEF vars, VaultInv, TypeOK, ShareInv, Numbered, PlayKnows, Recorded,
              Recoverable
<1>2. CASE Next
  BY <1>2, VaultStep, InitStep, PlayStep, KeyStep DEF Next, Build, Faults
<1> QED
  BY <1>1, <1>2

LEMMA VaultInvariant == Spec => []VaultInv
  BY VaultInit, VaultInvStep, PTL DEF Spec

\* Every variable keeps its type, and an unseal attempt under way never holds as
\* many shares as open the vault.
THEOREM TypeCorrect == Spec => []TypeOK
  BY VaultInvariant, PTL DEF VaultInv

\* From the initialisation on, and except for a play that dies before it has
\* recorded the answer, the keys of the vault are in env.sh or with the play.
THEOREM KeysAreKnown == Spec => []KeysKnown
<1>1. VaultInv => KeysKnown
  BY DEF VaultInv, Recorded, KeysKnown
<1> QED
  BY <1>1, VaultInvariant, PTL

\* After a site build that ended well, env.sh and the repository hold the keys of
\* the vault that runs, also when the vault was lost and initialised anew.
THEOREM VaultRecovers == Spec => []Recoverable
  BY VaultInvariant, PTL DEF VaultInv
=============================================================================
