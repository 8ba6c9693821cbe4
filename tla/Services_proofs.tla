--------------------------- MODULE Services_proofs ---------------------------
(***************************************************************************)
(* What the services around the burn answer, for any configurations,       *)
(* requests, markets, changes of the chain, workers of a scan and chunks   *)
(* of a body: why a launch is admitted, why a discovery or a resolution is *)
(* evidence, why the edge lets through only what is paid for and nothing   *)
(* of the provider's address, why the demo service burns only once, why    *)
(* what is uploaded was paid for, what a service that started was made of, *)
(* and what is remembered of names and icons.                              *)
(***************************************************************************)
EXTENDS ConfigAdmission, Discovery, Resolving, ReadPool, EdgeWorker, DemoService, UploadPipeline, ServiceWiring, Lookups, FiniteSetTheorems, SequenceTheorems, WellFoundedInduction, TLAPS

-----------------------------------------------------------------------------
(* Configurations: the inductive invariant (ConfigAdmission) *)

Stages == {"none", "first", "done"}

Types ==
  /\ config \in Configs
  /\ mint \in [Mints -> MintState]
  /\ ata \in [Mints -> {"absent", "ours", "frozen"}]
  /\ wsol \in BOOLEAN
  /\ curve \in [Mints -> {"none", "open", "complete", "migrated"}]
  /\ pool \in [Mints -> BOOLEAN]
  /\ plan \in [Legs -> References]
  /\ stage \in Stages

WellFormedMints == \A m \in Mints : WellFormed(mint[m])

\* The accounts of every leg exist from the first transaction on.
AccountsReady == stage # "none" => wsol /\ \A i \in Legs : ata[config.targets[i]] # "absent"

Committed ==
  stage = "done" =>
    /\ ConfigOk
    /\ \A i \in Legs : /\ MintOk(mint[config.targets[i]])
                       /\ ata[config.targets[i]] = "ours"
                       /\ Referable(i)

IInv == Types /\ WellFormedMints /\ AccountsReady /\ Committed

-----------------------------------------------------------------------------
(* Facts about one mint and one configuration *)

\* A leg names a mint (split.rs reads one account block per leg).
LEMMA TargetsAreMints ==
  ASSUME config \in Configs, NEW i \in Legs
  PROVE  config.targets[i] \in Mints
<1>1. /\ config \in ConfigType
      /\ Len(config.targets) = Len(config.weights)
  BY AdmissionConstants
<1>2. /\ config.weights \in Seq(Nat)
      /\ config.targets \in Seq(Mints)
  BY <1>1 DEF ConfigType
<1>3. i \in 1 .. Len(config.targets)
  BY <1>1, <1>2 DEF Legs
<1> QED BY <1>2, <1>3

\* With WellFormed the client's shorter test of a hook is the program's.
LEMMA VerdictsAgree ==
  ASSUME NEW k, WellFormed(k)
  PROVE  ClientAdmits(k) <=> MintOk(k)
BY DEF WellFormed, ClientAdmits, ClientExtensions, MintOk, ExtensionsOk, HookAllowed

\* The service reads the mint through a snapshot and decides as the program.
LEMMA ServiceVerdictsAgree ==
  ASSUME NEW k \in MintState, WellFormed(k)
  PROVE  ServiceAdmits(k) <=> MintOk(k)
BY DEF WellFormed, ServiceAdmits, MintSnapshot, ServiceExtensions, MintOk, ExtensionsOk, HookAllowed,
   MintState

\* An admitted mint is out of everybody's reach: each change that its owners
\* can make is disabled or leaves it admitted.
LEMMA AdmittedMintStays ==
  ASSUME NEW k \in MintState, NEW l \in MintState, WellFormed(k),
         \/ k.mintAuth /\ l = [k EXCEPT !.mintAuth = FALSE]
         \/ k.freezeAuth /\ l = [k EXCEPT !.freezeAuth = FALSE]
         \/ "hook" \in k.exts /\ k.hookAuth = "live" /\ l = [k EXCEPT !.hookSet = ~ @]
         \/ k.hookAuth = "live" /\ l = [k EXCEPT !.hookAuth = "none"]
         \/ k.program = "t22" /\ l = [k EXCEPT !.exts = @ \cup {"metadata"}]
         \/ "other" \in k.exts /\ l = [k EXCEPT !.initialized = FALSE]
  PROVE  WellFormed(l) /\ (MintOk(k) => MintOk(l))
BY DEF WellFormed, MintOk, ExtensionsOk, HookAllowed, MintState

-----------------------------------------------------------------------------
(* The launch *)

\* What an accepted validation says of each leg.
LEMMA AcceptedMeans ==
  ASSUME Types, ValidateAccepts(plan)
  PROVE  /\ ConfigOk
         /\ \A i \in Legs : /\ MintOk(mint[config.targets[i]])
                            /\ ata[config.targets[i]] \in {"absent", "ours"}
                            /\ Referable(i)
<1> SUFFICES ASSUME NEW i \in Legs
             PROVE  /\ MintOk(mint[config.targets[i]])
                    /\ ata[config.targets[i]] \in {"absent", "ours"}
                    /\ Referable(i)
  BY DEF ValidateAccepts
<1>1. TargetAdmitted(config.targets[i], TRUE) /\ Authentic(config.targets[i], plan[i])
  BY DEF ValidateAccepts, ProbeOk, Priced
<1>2. SeedOf(plan[i]) = config.refs[i] /\ plan[i] \in References
  BY DEF ValidateAccepts, VaultPinned, Types
<1> QED BY <1>1, <1>2 DEF TargetAdmitted, AtaPending, Referable

\* After the transaction that creates the accounts, every leg of an accepted
\* configuration has its own.
LEMMA CreatedMeans ==
  ASSUME Types, CreateAtas, config' = config
  PROVE  /\ ata' \in [Mints -> {"absent", "ours", "frozen"}] /\ wsol'
         /\ \A i \in Legs : /\ ata'[config.targets[i]] # "absent"
                            /\ ata[config.targets[i]] \in {"absent", "ours"}
                                 => ata'[config.targets[i]] = "ours"
<1>1. \A i \in Legs : config.targets[i] \in Mints
  BY TargetsAreMints DEF Types
<1> QED BY <1>1 DEF Types, CreateAtas, Created

\* The launch transactions keep the invariant: the validator is in each of them.
LEMMA LaunchStep ==
  ASSUME IInv, LaunchAtomic \/ LaunchFirst \/ LaunchSecond
  PROVE  IInv'
<1>1. /\ ValidateAccepts(plan)
      /\ UNCHANGED <<config, mint, curve, pool, depth, plan>>
      /\ stage' \in {"first", "done"}
  BY DEF LaunchAtomic, LaunchFirst, LaunchSecond, World
<1>2. /\ ConfigOk
      /\ \A i \in Legs : /\ MintOk(mint[config.targets[i]])
                         /\ ata[config.targets[i]] \in {"absent", "ours"}
                         /\ Referable(i)
  BY <1>1, AcceptedMeans DEF IInv
<1>3. /\ ata' \in [Mints -> {"absent", "ours", "frozen"}] /\ wsol' \in BOOLEAN /\ wsol'
      /\ \A i \in Legs : ata'[config.targets[i]] = "ours"
  <2>1. CASE LaunchAtomic \/ LaunchFirst
    BY <1>1, <1>2, <2>1, CreatedMeans DEF IInv, LaunchAtomic, LaunchFirst, CreateAtas
  <2>2. CASE LaunchSecond
    BY <1>2, <2>2 DEF IInv, Types, AccountsReady, LaunchSecond
  <2> QED BY <2>1, <2>2
<1>4. Legs' = Legs /\ (ConfigOk' <=> ConfigOk) /\ \A i : Referable(i)' <=> Referable(i)
  BY <1>1 DEF Legs, ConfigOk, Referable, Authentic
<1>5. Types'
  BY <1>1, <1>3, <1>4 DEF IInv, Types, Stages
<1>6. WellFormedMints'
  BY <1>1 DEF IInv, WellFormedMints
<1>7. AccountsReady' /\ Committed'
  BY <1>1, <1>2, <1>3, <1>4 DEF AccountsReady, Committed
<1> QED BY <1>5, <1>6, <1>7 DEF IInv

-----------------------------------------------------------------------------
(* The others beside a launch *)

\* A step that leaves the configuration alone and, per mint, keeps what is
\* admitted, ours or referable keeps the invariant.
LEMMA HarmlessStep ==
  ASSUME IInv, Types', UNCHANGED <<config, plan, stage, wsol>>,
         \A m \in Mints : /\ WellFormed(mint'[m])
                          /\ MintOk(mint[m]) => MintOk(mint'[m])
                          /\ ata[m] # "absent" => ata'[m] # "absent"
                          /\ MintOk(mint[m]) /\ ata[m] = "ours" => ata'[m] = "ours",
         \A i \in Legs : Referable(i) => Referable(i)'
  PROVE  IInv'
<1>1. \A i \in Legs : config.targets[i] \in Mints
  BY TargetsAreMints DEF IInv, Types
<1>2. Legs' = Legs /\ (ConfigOk' <=> ConfigOk)
  BY DEF Legs, ConfigOk
<1>3. WellFormedMints'
  BY DEF WellFormedMints
<1>4. AccountsReady'
  BY <1>1, <1>2 DEF IInv, AccountsReady
<1>5. Committed'
  BY <1>1, <1>2 DEF IInv, Committed
<1> QED BY <1>3, <1>4, <1>5 DEF IInv

\* The owners of a mint keep the invariant.
LEMMA MintStep ==
  ASSUME IInv, NEW m \in Mints,
         \/ RevokeMint(m) \/ RevokeFreeze(m) \/ SetHook(m)
         \/ RevokeHook(m) \/ AddMetadata(m) \/ CloseMint(m)
  PROVE  IInv'
<1>1. PICK l : /\ MintBecomes(m, l)
               /\ \/ mint[m].mintAuth /\ l = [mint[m] EXCEPT !.mintAuth = FALSE]
                  \/ mint[m].freezeAuth /\ l = [mint[m] EXCEPT !.freezeAuth = FALSE]
                  \/ /\ "hook" \in mint[m].exts /\ mint[m].hookAuth = "live"
                     /\ l = [mint[m] EXCEPT !.hookSet = ~ @]
                  \/ mint[m].hookAuth = "live" /\ l = [mint[m] EXCEPT !.hookAuth = "none"]
                  \/ mint[m].program = "t22" /\ l = [mint[m] EXCEPT !.exts = @ \cup {"metadata"}]
                  \/ "other" \in mint[m].exts /\ l = [mint[m] EXCEPT !.initialized = FALSE]
  BY DEF RevokeMint, RevokeFreeze, SetHook, RevokeHook, AddMetadata, CloseMint
<1>2. mint[m] \in MintState /\ WellFormed(mint[m])
  BY DEF IInv, Types, WellFormedMints
<1>3. l \in MintState
  BY <1>1, <1>2 DEF MintState, Extensions
<1>4. WellFormed(l) /\ (MintOk(mint[m]) => MintOk(l))
  BY <1>1, <1>2, <1>3, AdmittedMintStays
<1>5. /\ mint' = [mint EXCEPT ![m] = l]
      /\ UNCHANGED <<config, plan, stage, ata, wsol, curve, pool, depth>>
  BY <1>1 DEF MintBecomes, Launching
<1>6. Types'
  BY <1>3, <1>5 DEF IInv, Types, Legs
<1>7. \A n \in Mints : WellFormed(mint'[n]) /\ (MintOk(mint[n]) => MintOk(mint'[n]))
  BY <1>4, <1>5 DEF IInv, Types, WellFormedMints
<1>8. \A i \in Legs : Referable(i) => Referable(i)'
  BY <1>5 DEF Referable, Authentic
<1> QED BY <1>5, <1>6, <1>7, <1>8, HarmlessStep

\* Freezing needs an authority that no admitted mint has.
LEMMA AtaStep ==
  ASSUME IInv, NEW m \in Mints, Freeze(m) \/ Thaw(m) \/ CreateAta(m)
  PROVE  IInv'
<1>1. PICK s \in {"ours", "frozen"} :
        AtaBecomes(m, s) /\ (s = "frozen" => mint[m].freezeAuth)
  BY DEF Freeze, Thaw, CreateAta
<1>2. ata' = [ata EXCEPT ![m] = s] /\ UNCHANGED <<config, plan, stage, mint, curve, pool, wsol>>
  BY <1>1 DEF AtaBecomes, Launching, World
<1>3. Types'
  BY <1>2 DEF IInv, Types, Legs
<1>4. \A n \in Mints : /\ WellFormed(mint'[n])
                       /\ MintOk(mint[n]) => MintOk(mint'[n])
  BY <1>2 DEF IInv, WellFormedMints
<1>5. \A n \in Mints : /\ ata[n] # "absent" => ata'[n] # "absent"
                       /\ MintOk(mint[n]) /\ ata[n] = "ours" => ata'[n] = "ours"
  BY <1>1, <1>2 DEF IInv, Types, MintOk
<1>6. \A i \in Legs : Referable(i) => Referable(i)'
  BY <1>2 DEF Referable, Authentic
<1> QED BY <1>2, <1>3, <1>4, <1>5, <1>6, HarmlessStep

\* The sentinel stands for the curve before and for the pool after graduation.
LEMMA CurveStep ==
  ASSUME IInv, NEW m \in Mints, Complete(m) \/ Migrate(m)
  PROVE  IInv'
<1>1. /\ \/ curve[m] = "open" /\ curve' = [curve EXCEPT ![m] = "complete"]
         \/ curve[m] = "complete" /\ curve' = [curve EXCEPT ![m] = "migrated"]
      /\ UNCHANGED <<config, plan, stage, mint, ata, wsol, pool>>
  BY DEF Complete, Migrate, CurveBecomes, Launching
<1>2. Types'
  BY <1>1 DEF IInv, Types, Legs
<1>3. ASSUME NEW i \in Legs, Referable(i)
      PROVE  Referable(i)'
  <2> DEFINE n == config.targets[i]
  <2>1. n \in Mints /\ curve \in [Mints -> {"none", "open", "complete", "migrated"}]
    BY TargetsAreMints DEF IInv, Types
  <2>2. CASE n # m
    <3>1. curve'[n] = curve[n]
      BY <1>1, <2>1, <2>2
    <3> QED BY <1>1, <1>3, <3>1 DEF Referable, Authentic
  <2>3. CASE n = m /\ config.refs[i] = "sentinel"
    <3>1. curve'[n] = "complete" \/ (curve'[n] = "migrated" /\ "swap" \in References)
      BY <1>1, <2>1, <2>3 DEF References
    <3> QED BY <1>1, <2>3, <3>1 DEF Referable, Authentic, SeedOf
  <2>4. CASE config.refs[i] # "sentinel"
    BY <1>1, <1>3, <2>4 DEF Referable, Authentic, SeedOf
  <2> QED BY <2>2, <2>3, <2>4
<1>4. \A n \in Mints : WellFormed(mint'[n]) /\ (MintOk(mint[n]) => MintOk(mint'[n]))
  BY <1>1 DEF IInv, WellFormedMints
<1> QED BY <1>1, <1>2, <1>3, <1>4, HarmlessStep

\* Trades change nothing that admission looks at.
LEMMA IdleStep ==
  ASSUME IInv, UNCHANGED <<config, mint, ata, wsol, curve, pool, plan, stage>>
  PROVE  IInv'
<1>1. Types'
  BY DEF IInv, Types, Legs
<1>2. \A n \in Mints : WellFormed(mint'[n]) /\ (MintOk(mint[n]) => MintOk(mint'[n]))
  BY DEF IInv, WellFormedMints
<1>3. \A i \in Legs : Referable(i) => Referable(i)'
  BY DEF Referable, Authentic
<1> QED BY <1>1, <1>2, <1>3, HarmlessStep

-----------------------------------------------------------------------------
(* The theorems of the launch *)

\* Before the launch nothing is committed.
LEMMA InitEstablishes == Init => IInv
<1> SUFFICES ASSUME Init PROVE IInv
  OBVIOUS
<1>1. PICK w \in Worlds : mint = w.mint /\ curve = w.curve /\ pool = w.pool
  BY DEF Init
<1>2. /\ w.mint \in [Mints -> MintState] /\ w.curve \in [Mints -> {"none", "open"}]
      /\ w.pool \in [Mints -> BOOLEAN]
      /\ \A m \in Mints : WellFormed(w.mint[m])
  BY <1>1, AdmissionConstants DEF WorldType
<1>3. Types
  BY <1>1, <1>2 DEF Init, Types, Stages
<1> QED BY <1>1, <1>2, <1>3 DEF Init, IInv, WellFormedMints, AccountsReady, Committed

\* Every step, by the launch or by others, keeps the invariant.
LEMMA StepPreserves == IInv /\ [Next]_vars => IInv'
<1> SUFFICES ASSUME IInv, [Next]_vars PROVE IInv'
  OBVIOUS
<1>1. CASE LaunchAtomic \/ LaunchFirst \/ LaunchSecond
  BY <1>1, LaunchStep
<1>2. CASE Others
  <2> PICK m \in Mints :
        \/ RevokeMint(m) \/ RevokeFreeze(m) \/ SetHook(m) \/ RevokeHook(m) \/ AddMetadata(m)
        \/ CloseMint(m) \/ Freeze(m) \/ Thaw(m) \/ CreateAta(m) \/ Complete(m) \/ Migrate(m)
        \/ \E d \in Depths : Trade(m, d)
    BY <1>2 DEF Others
  <2>1. CASE \/ RevokeMint(m) \/ RevokeFreeze(m) \/ SetHook(m)
             \/ RevokeHook(m) \/ AddMetadata(m) \/ CloseMint(m)
    BY <2>1, MintStep
  <2>2. CASE Freeze(m) \/ Thaw(m) \/ CreateAta(m)
    BY <2>2, AtaStep
  <2>3. CASE Complete(m) \/ Migrate(m)
    BY <2>3, CurveStep
  <2>4. CASE \E d \in Depths : Trade(m, d)
    BY <2>4, IdleStep DEF Trade, Launching
  <2> QED BY <2>1, <2>2, <2>3, <2>4
<1>3. CASE UNCHANGED vars
  BY <1>3, IdleStep DEF vars
<1> QED BY <1>1, <1>2, <1>3 DEF Next

\* From validation to the end of time: accounts exist once created, and what the
\* validator accepted in the committing transaction stays admitted.
THEOREM Inductive == Spec => []IInv
BY InitEstablishes, StepPreserves, PTL DEF Spec

\* A vault that a fee share was committed to (instructions.ts,
\* planSetupWithFeeShare) passes the burn's admission and has an authentic
\* reference for each leg for ever, whatever the owners of mints do.
THEOREM CommittedVaultNeverStranded == Spec => []NeverStranded
<1>1. IInv => NeverStranded
  BY DEF IInv, AccountsReady, Committed, NeverStranded, TargetAdmitted
<1> QED BY <1>1, Inductive, PTL

\* admission.ts gives the program's verdict on every mint at all times.
THEOREM ClientAlwaysTellsTruth == Spec => []ClientTellsTruth
<1>1. IInv => ClientTellsTruth
  BY VerdictsAgree DEF IInv, WellFormedMints, ClientTellsTruth
<1> QED BY <1>1, Inductive, PTL

\* core.ts (requireAllowedMint, requireTokenAccount) gives the program's verdict
\* on every target and its token account at all times.
THEOREM ServiceAlwaysTellsTruth == Spec => []ServiceTellsTruth
<1>1. ASSUME IInv, NEW m \in Mints
      PROVE  (ServiceAdmits(mint[m]) /\ ServiceAccount(m)) <=> TargetAdmitted(m, FALSE)
  <2>1. mint[m] \in MintState /\ WellFormed(mint[m]) /\ ata[m] \in {"absent", "ours", "frozen"}
    BY <1>1 DEF IInv, Types, WellFormedMints
  <2>2. ServiceAdmits(mint[m]) <=> MintOk(mint[m])
    BY <2>1, ServiceVerdictsAgree
  <2> QED BY <2>1, <2>2 DEF ServiceAccount, TargetAdmitted, AtaPending
<1>2. IInv => ServiceTellsTruth
  BY <1>1 DEF ServiceTellsTruth
<1> QED BY <1>2, Inductive, PTL

\* Neither copy of the mint rules ever differs from the program's.
THEOREM CopiesAlwaysTellTruth == Spec => []CopiesTellTruth
BY ClientAlwaysTellsTruth, ServiceAlwaysTellsTruth, PTL DEF CopiesTellTruth

\* What the validator accepted in the committing transaction, the burn admits
\* right after it, for the same references and the probe's input.
THEOREM LaunchEndsBurnable == Spec => LaunchIsBurnable
<1>1. ASSUME IInv, IInv', [Next]_vars, stage # "done", stage' = "done"
      PROVE  BurnAdmits(plan)'
  <2>1. LaunchAtomic \/ LaunchSecond
    BY <1>1 DEF Next, vars, LaunchFirst, Others, RevokeMint, RevokeFreeze, SetHook, RevokeHook,
       AddMetadata, CloseMint, Freeze, Thaw, CreateAta, Complete, Migrate, Trade,
       MintBecomes, AtaBecomes, CurveBecomes, Launching
  <2>2. ValidateAccepts(plan) /\ UNCHANGED <<config, mint, curve, pool, depth, plan>>
    BY <2>1 DEF LaunchAtomic, LaunchSecond, World
  <2>3. /\ ConfigOk' /\ wsol'
        /\ \A i \in Legs : /\ MintOk(mint'[config.targets[i]])
                           /\ ata'[config.targets[i]] = "ours"
    BY <1>1, <2>2 DEF IInv, AccountsReady, Committed, Legs
  <2>4. /\ VaultPinned(plan)'
        /\ \A i \in Legs : /\ Priced(config.targets[i], plan[i], ProbeAmount(i))'
                           /\ ProbeAmount(i)' > 0
    BY <2>2 DEF ValidateAccepts, VaultPinned, Legs, ProbeOk, Priced, Authentic, ProbeAmount
  <2>5. ~ DustLeg(Probe, config.weights)'
    BY <2>2, <2>4 DEF DustLeg, ProbeAmount, Legs
  <2> QED BY <2>2, <2>3, <2>4, <2>5 DEF BurnAdmits, TargetAdmitted, Legs
<1> QED BY <1>1, Inductive, PTL DEF Spec, LaunchIsBurnable

-----------------------------------------------------------------------------
(* The choice of a reference (Discovery) *)

\* A finite set with a total transitive relation has a greatest element.
LEMMA FiniteGreatest ==
  ASSUME NEW U, NEW L,
         \A x, y \in U : x = y \/ <<x, y>> \in L \/ <<y, x>> \in L,
         \A x, y, z \in U : <<x, y>> \in L /\ <<y, z>> \in L => <<x, z>> \in L,
         NEW S \in SUBSET U, IsFiniteSet(S), S # {}
  PROVE  \E m \in S : \A q \in S \ {m} : <<m, q>> \in L
<1> DEFINE Has(T) == \E m \in T : \A q \in T \ {m} : <<m, q>> \in L
           Without == {T \in SUBSET S : T # {} /\ ~ Has(T)}
<1>1. SUFFICES ASSUME ~ Has(S) PROVE FALSE
  OBVIOUS
<1>2. IsWellFoundedOn(StrictSubsetOrdering(S), SUBSET S)
  BY FS_StrictSubsetOrderingWellFounded, FS_FiniteSubsetsOfFinite
<1>3. PICK T \in Without : \A R \in Without : ~ (<<R, T>> \in StrictSubsetOrdering(S))
  <2>1. S \in Without /\ Without \subseteq SUBSET S
    BY <1>1
  <2> HIDE DEF Without
  <2> QED BY <1>2, <2>1, WFMin
<1>4. PICK x \in T : TRUE
  OBVIOUS
<1>5. T \subseteq U /\ T # {} /\ ~ Has(T)
  OBVIOUS
<1>6. <<T \ {x}, T>> \in StrictSubsetOrdering(S)
  BY DEF StrictSubsetOrdering
<1>7. CASE T \ {x} = {}
  BY <1>4, <1>5, <1>7
<1>8. CASE T \ {x} # {}
  <2>1. Has(T \ {x})
    BY <1>3, <1>6, <1>8
  <2>2. PICK m \in T \ {x} : \A q \in (T \ {x}) \ {m} : <<m, q>> \in L
    BY <2>1
  <2>3. CASE <<m, x>> \in L
    <3>1. \A q \in T \ {m} : <<m, q>> \in L
      BY <2>2, <2>3
    <3> QED BY <1>5, <2>2, <3>1
  <2>4. CASE <<x, m>> \in L
    <3>1. \A q \in T \ {x} : <<x, q>> \in L
      BY <1>5, <2>2, <2>4
    <3> QED BY <1>4, <1>5, <3>1
  <2> QED BY <1>5, <2>2, <2>3, <2>4
<1> QED BY <1>7, <1>8

\* Rows as the scan builds them, one for each pool.
Venues  == Amms \cup Concentrated \cup Diagnostic \cup {"none", "pump"}
RowType ==
  [pool : Nat, venue : Venues, depth : Nat, opened : Nat, locked : Int, floor : BOOLEAN, rejected : BOOLEAN]
OneEach(rows) == \A r, s \in rows : r.pool = s.pool => r = s

\* The pools that the ranking compares are ordered by it.
LEMMA DeeperOrders ==
  ASSUME NEW rows \in SUBSET RowType, OneEach(rows), \A r \in rows : r.venue \in Amms \cup Concentrated
  PROVE  /\ \A p, q \in rows : p = q \/ DeeperFirst(p, q) \/ DeeperFirst(q, p)
         /\ \A p, q, r \in rows : DeeperFirst(p, q) /\ DeeperFirst(q, r) => DeeperFirst(p, r)
<1> DEFINE V(r) == VenueOrder(r.venue)
<1>1. \A r \in rows : r.pool \in Nat /\ r.depth \in Nat /\ r.opened \in Nat /\ V(r) \in Nat
  BY DEF RowType, VenueOrder
<1>2. \A p, q \in rows : V(p) = V(q) => p.venue = q.venue
  BY DEF VenueOrder, Amms, Concentrated
<1>3. ASSUME NEW p \in rows, NEW q \in rows
      PROVE  p = q \/ DeeperFirst(p, q) \/ DeeperFirst(q, p)
  <2>1. p.pool = q.pool => p = q
    BY DEF OneEach
  <2>2. p.depth # q.depth => DeeperFirst(p, q) \/ DeeperFirst(q, p)
    BY <1>1 DEF DeeperFirst
  <2>3. p.opened # q.opened => Older(p, q) \/ Older(q, p)
    BY <1>1 DEF Older
  <2>4. V(p) < V(q) \/ V(q) < V(p) \/ V(p) = V(q)
    BY <1>1
  <2>5. p.pool < q.pool \/ q.pool < p.pool \/ p.pool = q.pool
    BY <1>1
  <2> QED BY <1>2, <2>1, <2>2, <2>3, <2>4, <2>5 DEF DeeperFirst
<1>4. ASSUME NEW p \in rows, NEW q \in rows, NEW r \in rows, DeeperFirst(p, q), DeeperFirst(q, r)
      PROVE  DeeperFirst(p, r)
  <2> DEFINE Tie(a, b) == V(a) < V(b) \/ (V(a) = V(b) /\ a.pool < b.pool)
             Late(a, b) == Older(a, b) \/ (a.opened = b.opened /\ Tie(a, b))
  <2>1. ASSUME NEW a \in rows, NEW b \in rows
        PROVE  DeeperFirst(a, b) <=> a.depth > b.depth \/ (a.depth = b.depth /\ Late(a, b))
    <3>1. a.venue = b.venue => V(a) = V(b)
      OBVIOUS
    <3> QED BY <1>2, <3>1 DEF DeeperFirst
  <2>2. Tie(p, q) /\ Tie(q, r) => Tie(p, r)
    <3> HIDE DEF V
    <3> QED BY <1>1
  <2>3. Late(p, q) /\ Late(q, r) => Late(p, r)
    <3> HIDE DEF Tie
    <3> QED BY <1>1, <2>2 DEF Older
  <2>4. (p.depth > q.depth \/ (p.depth = q.depth /\ Late(p, q))) /\ (q.depth > r.depth \/ (q.depth = r.depth /\ Late(q, r)))
    BY <1>4, <2>1
  <2>5. p.depth > r.depth \/ (p.depth = r.depth /\ Late(p, r))
    <3> HIDE DEF Late
    <3> QED BY <1>1, <2>3, <2>4
  <2> QED BY <2>1, <2>5
<1> QED BY <1>3, <1>4

LEMMA LockedOrders ==
  ASSUME NEW rows \in SUBSET RowType, OneEach(rows), \A r \in rows : r.venue \in Amms \cup Concentrated
  PROVE  /\ \A p, q \in rows : p = q \/ LockedFirst(p, q) \/ LockedFirst(q, p)
         /\ \A p, q, r \in rows : LockedFirst(p, q) /\ LockedFirst(q, r) => LockedFirst(p, r)
<1>1. \A r \in rows : r.locked \in Int
  BY DEF RowType
<1> QED BY <1>1, DeeperOrders DEF LockedFirst

\* What the ranking returns: of several durable markets one that no other
\* goes before, else such a one of the position markets.
LEMMA RankedIsFirst ==
  ASSUME NEW rows \in SUBSET RowType, IsFiniteSet(rows), OneEach(rows), RankCandidates(rows) # NoRow
  PROVE  LET r == RankCandidates(rows)
         IN  /\ r \in rows
             /\ \/ Durable(r) /\ \A q \in rows : Durable(q) /\ q # r => LockedFirst(r, q)
                \/ /\ Eligible(r) /\ r.venue \in Concentrated /\ \A q \in rows : ~ Durable(q)
                   /\ \A q \in rows : Eligible(q) /\ q.venue \in Concentrated /\ q # r => DeeperFirst(r, q)
<1> DEFINE durable  == {r \in rows : Durable(r)}
           position == {r \in rows : Eligible(r) /\ r.venue \in Concentrated}
<1>1. CASE durable # {}
  <2> DEFINE L == {pq \in durable \X durable : LockedFirst(pq[1], pq[2])}
  <2>1. durable \in SUBSET RowType /\ OneEach(durable) /\ \A r \in durable : r.venue \in Amms \cup Concentrated
    BY DEF OneEach, Durable
  <2>2. IsFiniteSet(durable)
    BY FS_Subset
  <2>3. \A x, y \in durable : <<x, y>> \in L <=> LockedFirst(x, y)
    OBVIOUS
  <2>4. /\ \A x, y \in durable : x = y \/ <<x, y>> \in L \/ <<y, x>> \in L
        /\ \A x, y, z \in durable : <<x, y>> \in L /\ <<y, z>> \in L => <<x, z>> \in L
    <3> HIDE DEF durable, L
    <3> QED BY <2>1, <2>3, LockedOrders
  <2>5. \E r \in durable : \A q \in durable \ {r} : <<r, q>> \in L
    <3>1. durable \in SUBSET durable /\ durable # {}
      BY <1>1
    <3> HIDE DEF durable, L
    <3> QED BY <2>2, <2>4, <3>1, FiniteGreatest
  <2>6. \E r \in durable : \A q \in durable \ {r} : LockedFirst(r, q)
    BY <2>3, <2>5
  <2>7. RankCandidates(rows) = CHOOSE r \in durable : \A q \in durable \ {r} : LockedFirst(r, q)
    BY <1>1 DEF RankCandidates
  <2>8. /\ RankCandidates(rows) \in durable
        /\ \A q \in durable \ {RankCandidates(rows)} : LockedFirst(RankCandidates(rows), q)
    <3> HIDE DEF durable
    <3> QED BY <2>6, <2>7
  <2> QED BY <2>8
<1>2. CASE durable = {} /\ position # {}
  <2> DEFINE L == {pq \in position \X position : DeeperFirst(pq[1], pq[2])}
  <2>1. position \in SUBSET RowType /\ OneEach(position) /\ \A r \in position : r.venue \in Amms \cup Concentrated
    BY DEF OneEach
  <2>2. IsFiniteSet(position)
    BY FS_Subset
  <2>3. \A x, y \in position : <<x, y>> \in L <=> DeeperFirst(x, y)
    OBVIOUS
  <2>4. /\ \A x, y \in position : x = y \/ <<x, y>> \in L \/ <<y, x>> \in L
        /\ \A x, y, z \in position : <<x, y>> \in L /\ <<y, z>> \in L => <<x, z>> \in L
    <3> HIDE DEF position, L
    <3> QED BY <2>1, <2>3, DeeperOrders
  <2>5. \E r \in position : \A q \in position \ {r} : <<r, q>> \in L
    <3>1. position \in SUBSET position /\ position # {}
      BY <1>2
    <3> HIDE DEF position, L
    <3> QED BY <2>2, <2>4, <3>1, FiniteGreatest
  <2>6. \E r \in position : \A q \in position \ {r} : DeeperFirst(r, q)
    BY <2>3, <2>5
  <2>7. RankCandidates(rows) = CHOOSE r \in position : \A q \in position \ {r} : DeeperFirst(r, q)
    BY <1>2 DEF RankCandidates
  <2>8. /\ RankCandidates(rows) \in position
        /\ \A q \in position \ {RankCandidates(rows)} : DeeperFirst(RankCandidates(rows), q)
    <3> HIDE DEF position
    <3> QED BY <2>6, <2>7
  <2> QED BY <1>2, <2>8
<1>3. CASE durable = {} /\ position = {}
  BY <1>3 DEF RankCandidates
<1> QED BY <1>1, <1>2, <1>3

\* The liquidity of an AMM that nobody can withdraw is worth the gate, however
\* much the others take out.
Backed(w) ==
  /\ w.venue \in Amms /\ w.issued > 0 /\ w.supply <= w.issued /\ NonWithdrawable(w) <= w.issued
  /\ w.sol * NonWithdrawable(w) >= DepthFloor * w.issued

LEMMA CustodyCounts ==
  ASSUME NEW w \in PoolAccounts
  PROVE  /\ InCustody(w) \in Nat /\ Stuck(w) \in Nat /\ InCustody(w) <= Stuck(w)
         /\ NonWithdrawable(w) = (w.issued - w.supply) + InCustody(w) /\ NonWithdrawable(w) \in Int
<1> DEFINE e == w.custody.earn
           i == w.custody.incinerator
<1>1. e \in Custody /\ i \in Custody /\ w.custody["earn"] = e /\ w.custody["incinerator"] = i /\ w.issued \in Nat /\ w.supply \in Nat
  BY DEF PoolAccounts
<1>2. e.amount \in Nat /\ i.amount \in Nat
  BY <1>1 DEF Custody
<1>3. Stuck(w) = (IF e.status = "verified" THEN e.amount ELSE 0) + (IF i.status = "verified" THEN i.amount ELSE 0)
  BY <1>1 DEF Stuck
<1>4. InCustody(w) = (IF "earn" \in CustodyAccounts(w) /\ e.status = "verified" THEN e.amount ELSE 0)
                       + (IF i.status = "verified" THEN i.amount ELSE 0)
  BY <1>1 DEF InCustody, CustodyAccounts, Verified
<1> HIDE DEF e, i
<1> QED BY <1>1, <1>2, <1>3, <1>4 DEF NonWithdrawable

LEMMA BackedIsDeep ==
  ASSUME NEW w \in PoolAccounts, Backed(w)
  PROVE  w.sol >= DepthFloor /\ NonWithdrawable(w) > 0
<1> DEFINE s == w.sol
           i == w.issued
           n == NonWithdrawable(w)
<1>1. s \in Nat /\ i \in Nat /\ i > 0 /\ n \in Int /\ n <= i /\ s * n >= DepthFloor * i /\ DepthFloor \in Nat \ {0}
  BY CustodyCounts, DiscoveryConstants DEF Backed, PoolAccounts
<1> HIDE DEF s, i, n
<1>2. DepthFloor * i > 0
  BY <1>1
<1>3. n > 0
  BY <1>1, <1>2
<1>4. s * n <= s * i
  BY <1>1, <1>3
<1>5. s * i >= DepthFloor * i
  <2>1. s * n \in Int /\ s * i \in Int /\ DepthFloor * i \in Int
    BY <1>1
  <2> QED BY <1>1, <1>4, <2>1
<1>6. s >= DepthFloor
  <2> SUFFICES ASSUME s < DepthFloor PROVE FALSE
    BY <1>1
  <2>1. s * i < DepthFloor * i
    BY <1>1
  <2> QED BY <1>1, <1>5, <2>1
<1> QED BY <1>3, <1>6 DEF s, n

\* What is left after a withdrawal.
LEMMA ShareStays ==
  ASSUME NEW s \in Nat, NEW i \in Nat, NEW n \in Nat, NEW lp \in Nat, NEW d \in Nat,
         i > 0, lp < i, s * n >= d * i
  PROVE  LET t == s - (s * lp) \div i IN t \in Nat /\ t * n >= d * (i - lp)
<1> DEFINE q == (s * lp) \div i
           t == s - q
<1>1. q \in Int /\ q * i <= s * lp
  OBVIOUS
<1>2. s * lp <= s * i
  OBVIOUS
<1>3. q <= s
  <2> SUFFICES ASSUME q > s PROVE FALSE
    BY <1>1
  <2>1. q * i > s * i
    BY <1>1
  <2> QED BY <1>1, <1>2, <2>1
<1>4. t * i >= s * (i - lp)
  <2>1. t * i = s * i - q * i /\ s * (i - lp) = s * i - s * lp
    BY <1>1
  <2> QED BY <1>1, <2>1
<1>5. (t * i) * n >= (s * (i - lp)) * n
  <2> HIDE DEF t
  <2> QED BY <1>1, <1>3, <1>4 DEF t
<1>6. (s * n) * (i - lp) >= (d * i) * (i - lp)
  <2> DEFINE a == s * n
             b == d * i
             k == i - lp
  <2>1. a \in Int /\ b \in Int /\ k \in Nat /\ a >= b
    OBVIOUS
  <2> HIDE DEF a, b, k
  <2>2. a * k >= b * k
    BY <2>1
  <2> QED BY <2>2 DEF a, b, k
<1>7. (t * n) * i >= (d * (i - lp)) * i
  <2>1. (t * i) * n = (t * n) * i /\ (s * (i - lp)) * n = (s * n) * (i - lp) /\ (d * i) * (i - lp) = (d * (i - lp)) * i
    BY <1>1
  <2> QED BY <1>1, <1>5, <1>6, <2>1
<1>8. t * n >= d * (i - lp)
  <2> DEFINE a == t * n
             b == d * (i - lp)
  <2>1. a \in Int /\ b \in Int /\ a * i >= b * i
    BY <1>1, <1>7
  <2> HIDE DEF a, b
  <2>2. a >= b
    <3> SUFFICES ASSUME a < b PROVE FALSE
      BY <2>1
    <3>1. a * i < b * i
      BY <2>1
    <3> QED BY <2>1, <3>1
  <2> QED BY <2>2 DEF a, b
<1> QED BY <1>1, <1>3, <1>8

\* A candidate that is durable is backed when it is measured.
LEMMA DurableIsBacked ==
  ASSUME NEW n, NEW w \in PoolAccounts, NEW r, r \in {RowOf(n, w), [RowOf(n, w) EXCEPT !.floor = w.sol >= DepthFloor]}, Durable(r)
  PROVE  Backed(w)
<1>1. r.locked = RowOf(n, w).locked
  BY DEF RowOf, NoRow
<1>2. r.locked >= DepthFloor /\ DepthFloor > 0
  BY DiscoveryConstants DEF Durable
<1>3. RowOf(n, w).locked = LockedDepth(w)
  BY <1>1, <1>2, DiscoveryConstants DEF RowOf, NoRow
<1>4. Measurable(w) /\ (w.sol * NonWithdrawable(w)) \div w.issued >= DepthFloor
  BY <1>1, <1>2, <1>3, DiscoveryConstants DEF LockedDepth
<1> DEFINE a == w.sol * NonWithdrawable(w)
           i == w.issued
<1>5. a \in Int /\ i \in Nat /\ i > 0 /\ DepthFloor \in Nat
  BY <1>4, CustodyCounts, DiscoveryConstants DEF Measurable, PoolAccounts
<1>6. a >= DepthFloor * i
  <2>1. a \div i >= DepthFloor
    BY <1>4
  <2> HIDE DEF a, i
  <2>2. (a \div i) * i <= a /\ a \div i \in Int
    BY <1>5
  <2>3. DepthFloor * i <= (a \div i) * i
    BY <1>5, <2>1, <2>2
  <2> QED BY <1>5, <2>2, <2>3
<1> QED BY <1>4, <1>6 DEF Backed, Measurable

\* What is told and remembered.
Tolds    == {"none", "retry", "chosen", "hinted", "unsupported", "damm", "explicit", "failed"}
Looking  == {"damm", "amm", "pickAmm", "position", "pickAny"}
ScanType == [step : {"none", "curve", "pump", "hint"} \cup Looking, rows : SUBSET RowType, damm : SUBSET RowType]
MemoType == [told : Tolds, row : RowType]
AskType  == [step : {"idle", "waiting", "done"}, told : Tolds, row : RowType, seen : SUBSET RowType]

\* Why a row could be chosen: Pump's venue for a mint with a curve; for one
\* whose curve is not live a pool, and an AMM only with locked depth.
Founded(row) ==
  IF row.pool = 0 THEN scene.curve # "none" /\ row.venue \notin Amms
  ELSE /\ scene.curve # "live" /\ row.pool \in DOMAIN scene.pools
       /\ row.venue \in Amms => Backed(scene.pools[row.pool])

\* A row of the scan: its pool, and what locked depth promised at the reading
\* it still promises.
RowSound(r) ==
  /\ r.pool \in DOMAIN scene.pools /\ r.venue = scene.pools[r.pool].venue
  /\ Durable(r) => Backed(scene.pools[r.pool])

\* A scan has read what its step says.
ScanInv ==
  /\ scan \in ScanType /\ IsFiniteSet(scan.rows) /\ OneEach(scan.rows)
  /\ scan.step = "none" => scan = NoScan
  /\ scan.step = "pump" => scene.curve # "none"
  /\ scan.step \in {"hint"} \cup Looking => scene.curve # "live"
  /\ \A r \in scan.rows : RowSound(r)
  /\ {r.pool : r \in scan.rows} = CASE scan.step \in {"pickAmm", "position"} -> Pools(Amms)
                                    [] scan.step = "pickAny" -> Pools(Amms \cup Concentrated)
                                    [] OTHER -> {}

MemoInv == memo \in MemoType /\ (memo # NoMemo => memo.told \in {"chosen", "hinted"} /\ memo.row # NoRow /\ Founded(memo.row))

AskInv(a) ==
  /\ a \in AskType
  /\ a.told \in {"chosen", "hinted"} => Founded(a.row)
  /\ a.told = "unsupported" => {r.pool : r \in a.seen} = Pools(Amms \cup Concentrated) /\ RankCandidates(a.seen) = NoRow

DiscoveryInv ==
  /\ scene \in SceneType
  /\ ScanInv /\ MemoInv
  /\ asker \in [Askers -> AskType] /\ \A q \in Askers : AskInv(asker[q])
  /\ Waiting # {} <=> scan # NoScan

\* The rows that stand for nothing.
LEMMA NoRows ==
  /\ NoRow \in RowType /\ NoRow.pool = 0 /\ NoScan \in ScanType /\ NoScan.step = "none" /\ NoScan.rows = {} /\ NoMemo \in MemoType
  /\ \A told \in Tolds, row \in RowType : Said(told, row) \in AskType /\ Said(told, row).told = told /\ Said(told, row).row = row
                                          /\ Said(told, row).step = "done"
<1>1. NoRow \in RowType /\ NoRow.pool = 0
  BY DEF NoRow, RowType, Venues
<1> QED BY <1>1 DEF NoScan, ScanType, NoMemo, MemoType, Tolds, Said, AskType

LEMMA DiscoveryInitial == DiscoveryInit => DiscoveryInv
<1> SUFFICES ASSUME DiscoveryInit PROVE DiscoveryInv
  OBVIOUS
<1>1. scene \in SceneType /\ scan = NoScan /\ memo = NoMemo
  BY DiscoveryConstants DEF DiscoveryInit
<1>2. ScanInv
  BY <1>1, NoRows, FS_EmptySet DEF ScanInv, OneEach, Looking
<1>3. MemoInv
  BY <1>1, NoRows DEF MemoInv
<1>4. \A q \in Askers : asker[q] \in AskType /\ asker[q].told = "none" /\ asker[q].step = "idle"
  <2> SUFFICES ASSUME NEW q \in Askers PROVE asker[q] \in AskType /\ asker[q].told = "none" /\ asker[q].step = "idle"
    OBVIOUS
  <2> DEFINE a == Said("none", NoRow)
  <2>1. a \in AskType /\ a.told = "none"
    BY NoRows DEF Tolds
  <2>2. asker[q] = [a EXCEPT !.step = "idle"]
    BY DEF DiscoveryInit
  <2> HIDE DEF a
  <2> QED BY <2>1, <2>2 DEF AskType
<1>5. asker \in [Askers -> AskType]
  BY <1>4 DEF DiscoveryInit
<1>6. \A q \in Askers : AskInv(asker[q])
  BY <1>4 DEF AskInv
<1>7. Waiting = {}
  BY <1>4 DEF Waiting
<1> QED BY <1>1, <1>2, <1>3, <1>5, <1>6, <1>7 DEF DiscoveryInv

\* What a pool's accounts give the ranking.
LEMMA RowsAreTyped ==
  ASSUME NEW n \in Nat, NEW w \in PoolAccounts
  PROVE  LET r == RowOf(n, w)
             c == [r EXCEPT !.floor = w.sol >= DepthFloor]
         IN  /\ r \in RowType /\ r.pool = n /\ r.venue = w.venue
             /\ c \in RowType /\ c.pool = n /\ c.venue = w.venue
<1>1. w.venue \in Venues /\ w.sol \in Nat /\ w.token \in Nat /\ OpenTime(w) \in Nat /\ DepthFloor \in Nat
  BY DiscoveryConstants DEF PoolAccounts, Venues, OpenTime
<1>2. LockedDepth(w) \in Int
  <2>1. CASE ~ Measurable(w)
    BY <2>1 DEF LockedDepth
  <2>2. CASE Measurable(w)
    <3>1. w.issued \in Nat /\ w.issued > 0 /\ w.sol * NonWithdrawable(w) \in Int
      BY <1>1, <2>2, CustodyCounts DEF Measurable, PoolAccounts
    <3> QED BY <2>2, <3>1 DEF LockedDepth
  <2> QED BY <2>1, <2>2
<1>3. RowOf(n, w) \in RowType /\ RowOf(n, w).pool = n /\ RowOf(n, w).venue = w.venue
  <2>1. CASE ~ w.readable
    <3>1. RowOf(n, w) = [NoRow EXCEPT !.pool = n, !.venue = w.venue]
      BY <2>1 DEF RowOf
    <3> QED BY <1>1, <3>1, NoRows DEF RowType
  <2>2. CASE w.readable
    <3> DEFINE deep == w.sol >= DepthFloor /\ w.token > 0
               damm == w.venue = "damm"
    <3>1. RowOf(n, w) = [pool |-> n, venue |-> w.venue, depth |-> w.sol, opened |-> OpenTime(w),
                         locked |-> LockedDepth(w), floor |-> deep, rejected |-> damm]
      BY <2>2 DEF RowOf
    <3>2. deep \in BOOLEAN /\ damm \in BOOLEAN
      BY <1>1
    <3> HIDE DEF deep, damm
    <3> QED BY <1>1, <1>2, <3>1, <3>2 DEF RowType
  <2> QED BY <2>1, <2>2
<1> DEFINE r == RowOf(n, w)
           deep == w.sol >= DepthFloor
<1>4. deep \in BOOLEAN
  BY <1>1
<1>5. r \in RowType /\ r.pool = n /\ r.venue = w.venue
  BY <1>3
<1> HIDE DEF r, deep
<1>6. [r EXCEPT !.floor = deep] \in RowType /\ [r EXCEPT !.floor = deep].pool = n /\ [r EXCEPT !.floor = deep].venue = w.venue
  BY <1>4, <1>5 DEF RowType
<1> QED BY <1>5, <1>6 DEF r, deep

\* A phase of the enumeration yields one sound row for each pool of it.
LEMMA EnumeratedRows ==
  ASSUME scene \in SceneType, NEW venues
  PROVE  LET rows == Enumerated(venues)
         IN  /\ rows \in SUBSET RowType /\ IsFiniteSet(rows) /\ OneEach(rows)
             /\ \A r \in rows : RowSound(r) /\ r.venue \in venues
             /\ {r.pool : r \in rows} = Pools(venues)
<1> DEFINE P == {m \in DOMAIN scene.pools : scene.pools[m].venue \in venues}
           rows == Enumerated(venues)
<1>1. scene.pools \in Seq(PoolAccounts)
  BY DEF SceneType
<1>2. DOMAIN scene.pools = 1..Len(scene.pools) /\ Len(scene.pools) \in Nat /\ \A n \in DOMAIN scene.pools : scene.pools[n] \in PoolAccounts
  BY <1>1, LenProperties, ElementOfSeq
<1>3. \A n \in P : n \in Nat /\ scene.pools[n] \in PoolAccounts /\ scene.pools[n].venue \in venues
  BY <1>2
<1>4. rows = {RowOf(n, scene.pools[n]) : n \in P}
  BY DEF Enumerated
<1>5. \A r \in rows : \E n \in P : r = RowOf(n, scene.pools[n]) /\ r \in RowType /\ r.pool = n /\ r.venue = scene.pools[n].venue
  <2> SUFFICES ASSUME NEW r \in rows
               PROVE  \E n \in P : r = RowOf(n, scene.pools[n]) /\ r \in RowType /\ r.pool = n /\ r.venue = scene.pools[n].venue
    OBVIOUS
  <2>1. PICK n \in P : r = RowOf(n, scene.pools[n])
    BY <1>4
  <2>2. n \in Nat /\ scene.pools[n] \in PoolAccounts
    BY <1>3
  <2>3. r \in RowType /\ r.pool = n /\ r.venue = scene.pools[n].venue
    BY <2>1, <2>2, RowsAreTyped
  <2> QED BY <2>1, <2>3
<1>6. OneEach(rows)
  BY <1>5 DEF OneEach
<1>7. IsFiniteSet(rows)
  <2>1. IsFiniteSet(P)
    <3>1. IsFiniteSet(1..Len(scene.pools))
      BY <1>2, FS_Interval
    <3>2. P \subseteq 1..Len(scene.pools)
      BY <1>2
    <3> QED BY <3>1, <3>2, FS_Subset
  <2>2. \A m \in P : RowOf(m, scene.pools[m]) \in rows
    BY <1>4
  <2> DEFINE f == [n \in P |-> RowOf(n, scene.pools[n])]
  <2>3. f \in Surjection(P, rows)
    BY <1>4 DEF Surjection
  <2> QED BY <2>1, <2>3, FS_Surjection
<1>8. \A r \in rows : RowSound(r) /\ r.venue \in venues
  <2> SUFFICES ASSUME NEW r \in rows PROVE RowSound(r) /\ r.venue \in venues
    OBVIOUS
  <2>1. PICK n \in P : r = RowOf(n, scene.pools[n]) /\ r.pool = n /\ r.venue = scene.pools[n].venue
    BY <1>5
  <2>2. Durable(r) => Backed(scene.pools[n])
    BY <1>3, <2>1, DurableIsBacked
  <2> QED BY <1>3, <2>1, <2>2 DEF RowSound
<1>9. {r.pool : r \in rows} = Pools(venues)
  <2>1. Pools(venues) = P
    BY DEF Pools
  <2>2. \A n \in P : RowOf(n, scene.pools[n]) \in rows /\ RowOf(n, scene.pools[n]).pool = n
    BY <1>3, <1>4, RowsAreTyped
  <2> HIDE DEF P, rows
  <2> QED BY <1>5, <2>1, <2>2
<1> QED BY <1>5, <1>6, <1>7, <1>8, <1>9

\* What a change of the chain leaves: the pools and their venues, a curve that
\* was there, one that is no longer live, and locked depth.
SceneMoves ==
  /\ scene' \in SceneType
  /\ DOMAIN scene'.pools = DOMAIN scene.pools
  /\ \A n \in DOMAIN scene.pools :
       /\ scene'.pools[n].venue = scene.pools[n].venue
       /\ Backed(scene.pools[n]) => Backed(scene'.pools[n])
  /\ scene.curve # "none" => scene'.curve # "none"
  /\ scene.curve # "live" => scene'.curve # "live"

LEMMA EvidenceStays ==
  ASSUME SceneMoves
  PROVE  /\ \A row : Founded(row) => Founded(row)'
         /\ \A r : RowSound(r) => RowSound(r)'
         /\ \A venues : Pools(venues)' = Pools(venues)
         /\ \A a : AskInv(a) => AskInv(a)'
<1>1. \A row : Founded(row) => Founded(row)'
  BY DEF SceneMoves, Founded
<1>2. \A r : RowSound(r) => RowSound(r)'
  BY DEF SceneMoves, RowSound
<1>3. \A venues : Pools(venues)' = Pools(venues)
  BY DEF SceneMoves, Pools
<1>4. \A a : AskInv(a) => AskInv(a)'
  BY <1>1, <1>3 DEF AskInv
<1> QED BY <1>1, <1>2, <1>3, <1>4

LEMMA SceneRests == scene \in SceneType /\ UNCHANGED scene => SceneMoves
BY DEF SceneMoves

LEMMA ChainMovesKept ==
  ASSUME DiscoveryInv, SceneMoves, UNCHANGED <<scan, memo, asker>>
  PROVE  DiscoveryInv'
<1>1. ScanInv'
  <2>1. \A r \in scan.rows : RowSound(r)'
    BY EvidenceStays DEF DiscoveryInv, ScanInv
  <2>2. Pools(Amms)' = Pools(Amms) /\ Pools(Amms \cup Concentrated)' = Pools(Amms \cup Concentrated)
    BY EvidenceStays
  <2>3. (scene.curve # "none" => scene'.curve # "none") /\ (scene.curve # "live" => scene'.curve # "live")
    BY DEF SceneMoves
  <2> QED BY <2>1, <2>2, <2>3 DEF DiscoveryInv, ScanInv
<1>2. MemoInv'
  BY EvidenceStays DEF DiscoveryInv, MemoInv
<1>3. \A q \in Askers : AskInv(asker[q])'
  BY EvidenceStays DEF DiscoveryInv
<1>4. Waiting' = Waiting
  BY DEF Waiting
<1> QED BY <1>1, <1>2, <1>3, <1>4 DEF DiscoveryInv, SceneMoves

\* The scan goes on.
LEMMA ScanGoesKept ==
  ASSUME DiscoveryInv, scan.step # "none", scan'.step # "none", ScanInv', UNCHANGED <<scene, pulls, memo, asker>>
  PROVE  DiscoveryInv'
<1>1. scan # NoScan /\ scan' # NoScan
  BY NoRows
<1>2. Waiting' = Waiting
  BY DEF Waiting
<1>3. SceneMoves
  BY SceneRests DEF DiscoveryInv
<1>4. MemoInv' /\ \A q \in Askers : AskInv(asker[q])'
  BY <1>3, EvidenceStays DEF DiscoveryInv, MemoInv
<1> QED BY <1>1, <1>2, <1>4 DEF DiscoveryInv

\* The scan ends, and everyone who waits is answered.
LEMMA ScanEndsKept ==
  ASSUME DiscoveryInv, NEW told \in Tolds, NEW row \in RowType, Answer(told, row), scan' = NoScan, UNCHANGED scene, MemoInv',
         told \in {"chosen", "hinted"} => Founded(row),
         told = "unsupported" => {r.pool : r \in scan.rows} = Pools(Amms \cup Concentrated) /\ RankCandidates(scan.rows) = NoRow
  PROVE  DiscoveryInv'
<1> DEFINE said == [Said(told, row) EXCEPT !.seen = IF told = "unsupported" THEN scan.rows ELSE {}]
<1>1. said \in AskType /\ said.told = told /\ said.row = row /\ said.step = "done" /\ (told = "unsupported" => said.seen = scan.rows)
  <2> DEFINE base == Said(told, row)
             all  == IF told = "unsupported" THEN scan.rows ELSE {}
  <2>1. base \in AskType /\ base.told = told /\ base.row = row /\ base.step = "done"
    BY NoRows
  <2>2. all \in SUBSET RowType /\ (told = "unsupported" => all = scan.rows)
    BY DEF DiscoveryInv, ScanInv, ScanType
  <2> HIDE DEF base, all
  <2>3. [base EXCEPT !.seen = all] \in AskType /\ [base EXCEPT !.seen = all].told = told /\ [base EXCEPT !.seen = all].row = row
        /\ [base EXCEPT !.seen = all].step = "done" /\ [base EXCEPT !.seen = all].seen = all
    BY <2>1, <2>2 DEF AskType
  <2> QED BY <2>2, <2>3 DEF base, all
<1>2. asker' = [q \in Askers |-> IF q \in Waiting THEN said ELSE asker[q]]
  BY DEF Answer
<1>3. AskInv(said)
  BY <1>1 DEF AskInv
<1> HIDE DEF said
<1>4. \A q \in Askers : AskInv(asker'[q]) /\ asker'[q] \in AskType
  BY <1>1, <1>2, <1>3 DEF DiscoveryInv
<1>5. \A q \in Askers : AskInv(asker[q])'
  <2> SUFFICES ASSUME NEW q \in Askers PROVE AskInv(asker[q])'
    OBVIOUS
  <2>1. AskInv(asker'[q])
    BY <1>4
  <2> QED BY <2>1 DEF AskInv, Founded, Pools
<1>6. Waiting' = {}
  <2>1. \A q \in Askers : asker'[q].step # "waiting"
    BY <1>1, <1>2 DEF Waiting
  <2> QED BY <2>1 DEF Waiting
<1>7. ScanInv'
  BY NoRows, FS_EmptySet DEF ScanInv, OneEach, Looking
<1>8. asker' \in [Askers -> AskType]
  BY <1>2, <1>4
<1> QED BY <1>5, <1>6, <1>7, <1>8 DEF DiscoveryInv

LEMMA ScanFailsKept ==
  ASSUME DiscoveryInv, ScanFails
  PROVE  DiscoveryInv'
<1>1. NoRow \in RowType /\ "retry" \in Tolds
  BY NoRows DEF Tolds
<1>2. MemoInv'
  BY DEF DiscoveryInv, MemoInv, ScanFails, Founded
<1> QED BY <1>1, <1>2, ScanEndsKept DEF ScanFails

\* A selection that chose is remembered as it is told.
LEMMA SelectedKept ==
  ASSUME DiscoveryInv, NEW told \in Tolds, NEW row \in RowType, Selected(told, row),
         told \in {"chosen", "hinted"} => Founded(row),
         row # NoRow => told \in {"chosen", "hinted"},
         told = "unsupported" => {r.pool : r \in scan.rows} = Pools(Amms \cup Concentrated) /\ RankCandidates(scan.rows) = NoRow
  PROVE  DiscoveryInv'
<1>1. MemoInv'
  <2>1. CASE row = NoRow
    BY <2>1 DEF DiscoveryInv, MemoInv, Selected, Founded
  <2>2. CASE row # NoRow
    <3>1. memo' = [told |-> told, row |-> row] /\ Founded(row)
      BY <2>2 DEF Selected
    <3>2. Founded(row)'
      BY <3>1, SceneRests, EvidenceStays DEF DiscoveryInv, Selected
    <3> QED BY <2>2, <3>1, <3>2 DEF MemoInv, MemoType
  <2> QED BY <2>1, <2>2
<1> QED BY <1>1, ScanEndsKept DEF Selected

LEMMA AskKept ==
  ASSUME DiscoveryInv, NEW q \in Askers, Ask(q)
  PROVE  DiscoveryInv'
<1>1. SceneMoves
  BY SceneRests DEF DiscoveryInv, Ask
<1>2. CASE memo # NoMemo
  <2> DEFINE said == Said(memo.told, memo.row)
  <2>1. asker' = [asker EXCEPT ![q] = said] /\ UNCHANGED <<scene, pulls, scan, memo>>
    BY <1>2 DEF Ask
  <2>2. said \in AskType /\ said.step = "done" /\ AskInv(said)
    <3>1. memo.told \in {"chosen", "hinted"} /\ memo.row \in RowType /\ Founded(memo.row)
      BY <1>2 DEF DiscoveryInv, MemoInv, MemoType
    <3> QED BY <3>1, NoRows DEF AskInv, Tolds
  <2> HIDE DEF said
  <2>3. asker' \in [Askers -> AskType] /\ \A p \in Askers : AskInv(asker'[p])
    BY <2>1, <2>2 DEF DiscoveryInv
  <2>4. \A p \in Askers : AskInv(asker[p])'
    BY <2>1, <2>3 DEF AskInv, Founded, Pools
  <2>5. Waiting' = Waiting
    BY <2>1, <2>2 DEF Waiting, Ask
  <2>6. ScanInv' /\ MemoInv'
    BY <2>1 DEF DiscoveryInv, ScanInv, MemoInv, RowSound, Founded, Pools
  <2> QED BY <2>1, <2>3, <2>4, <2>5, <2>6 DEF DiscoveryInv
<1>3. CASE memo = NoMemo
  <2>1. /\ asker' = [asker EXCEPT ![q].step = "waiting"]
        /\ scan' = IF scan = NoScan THEN [NoScan EXCEPT !.step = "curve"] ELSE scan
        /\ UNCHANGED <<scene, pulls, memo>>
    BY <1>3 DEF Ask
  <2>2. asker' \in [Askers -> AskType] /\ asker'[q].step = "waiting" /\ \A p \in Askers : AskInv(asker'[p])
    BY <2>1 DEF DiscoveryInv, AskInv, AskType
  <2>3. \A p \in Askers : AskInv(asker[p])'
    BY <2>1, <2>2 DEF AskInv, Founded, Pools
  <2>4. Waiting' # {}
    BY <2>2 DEF Waiting
  <2>5. CASE scan = NoScan
    <3>1. scan' \in ScanType /\ scan'.step = "curve" /\ scan'.rows = {}
      BY <2>1, <2>5, NoRows DEF ScanType
    <3>2. ScanInv' /\ scan' # NoScan
      BY <3>1, NoRows, FS_EmptySet DEF ScanInv, OneEach, Looking
    <3> QED BY <2>1, <2>2, <2>3, <2>4, <3>2 DEF DiscoveryInv, MemoInv, Founded
  <2>6. CASE scan # NoScan
    <3>1. scan' = scan
      BY <2>1, <2>6
    <3>2. ScanInv'
      BY <2>1, <3>1 DEF DiscoveryInv, ScanInv, RowSound, Pools
    <3> QED BY <2>1, <2>2, <2>3, <2>4, <2>6, <3>1, <3>2 DEF DiscoveryInv, MemoInv, Founded
  <2> QED BY <2>5, <2>6
<1> QED BY <1>2, <1>3

LEMMA ExplicitKept ==
  ASSUME DiscoveryInv, NEW q \in Askers, NEW n \in DOMAIN scene.pools, NEW ok \in BOOLEAN, ResolveExplicit(q, n, ok)
  PROVE  DiscoveryInv'
<1>1. n \in Nat /\ scene.pools[n] \in PoolAccounts
  <2>1. scene.pools \in Seq(PoolAccounts)
    BY DEF DiscoveryInv, SceneType
  <2> QED BY <2>1, LenProperties, ElementOfSeq
<1>2. Candidate(n) \in RowType
  BY <1>1, RowsAreTyped DEF Candidate
<1>3. PICK a \in AskType : asker' = [asker EXCEPT ![q] = a] /\ a.told \in {"explicit", "failed"} /\ a.step = "done"
  <2>1. Said("explicit", Candidate(n)) \in AskType /\ Said("failed", NoRow) \in AskType
    BY <1>2, NoRows DEF Tolds
  <2> QED BY <1>2, <2>1, NoRows DEF ResolveExplicit, Tolds
<1>4. UNCHANGED <<scene, scan, memo>> /\ asker[q].step = "idle"
  BY DEF ResolveExplicit
<1>5. asker' \in [Askers -> AskType] /\ \A p \in Askers : AskInv(asker'[p])
  BY <1>3 DEF DiscoveryInv, AskInv
<1>6. \A p \in Askers : AskInv(asker[p])'
  BY <1>4, <1>5 DEF AskInv, Founded, Pools
<1>7. Waiting' = Waiting
  BY <1>3, <1>4 DEF Waiting
<1>8. ScanInv' /\ MemoInv'
  BY <1>4 DEF DiscoveryInv, ScanInv, MemoInv, RowSound, Founded, Pools
<1> QED BY <1>4, <1>5, <1>6, <1>7, <1>8 DEF DiscoveryInv

LEMMA MemoExpiresKept ==
  ASSUME DiscoveryInv, MemoExpires
  PROVE  DiscoveryInv'
<1>1. MemoInv' /\ UNCHANGED <<scene, scan, asker>>
  BY NoRows DEF MemoExpires, MemoInv
<1>2. Waiting' = Waiting
  BY <1>1 DEF Waiting
<1> QED BY <1>1, <1>2 DEF DiscoveryInv, ScanInv, AskInv, RowSound, Founded, Pools

\* A scan that only goes to another step.
LEMMA GoesKept ==
  ASSUME DiscoveryInv, NEW step \in {"pump", "hint"} \cup Looking, Goes(step), scan.step # "none",
         step = "pump" => scene.curve # "none",
         step # "pump" => scene.curve # "live",
         {r.pool : r \in scan.rows} = CASE step \in {"pickAmm", "position"} -> Pools(Amms)
                                       [] step = "pickAny" -> Pools(Amms \cup Concentrated)
                                       [] OTHER -> {}
  PROVE  DiscoveryInv'
<1>1. scan' \in ScanType /\ scan'.step = step /\ scan'.rows = scan.rows /\ UNCHANGED <<scene, pulls, memo, asker>>
  BY DEF DiscoveryInv, ScanInv, ScanType, Goes
<1>2. step # "none" /\ (step \in {"hint"} \cup Looking => step # "pump")
  BY DEF Looking
<1>3. Pools(Amms)' = Pools(Amms) /\ Pools(Amms \cup Concentrated)' = Pools(Amms \cup Concentrated) /\ \A r : RowSound(r)' <=> RowSound(r)
  BY <1>1 DEF Pools, RowSound
<1>4. ScanInv'
  BY <1>1, <1>2, <1>3 DEF DiscoveryInv, ScanInv
<1> QED BY <1>1, <1>2, <1>4, ScanGoesKept

\* The curve, Pump's venue and the detection of what no program prices.
LEMMA CurveStepsKept ==
  ASSUME DiscoveryInv, NEW ok \in BOOLEAN, ScanCurve(ok) \/ ScanPump(ok) \/ ScanDamm(ok)
  PROVE  DiscoveryInv'
<1>1. ScanInv /\ scan \in ScanType /\ scene \in SceneType
  BY DEF DiscoveryInv, ScanInv
<1>2. CASE ScanCurve(ok)
  <2>1. CASE ~ ok
    BY <1>2, <2>1, ScanFailsKept DEF ScanCurve
  <2>2. CASE ok
    <3>1. scan.step = "curve" /\ {r.pool : r \in scan.rows} = {}
      BY <1>1, <1>2 DEF ScanCurve, ScanInv
    <3>2. \E step \in {"pump", "hint", "damm"} :
            Goes(step) /\ (step = "pump" => scene.curve # "none") /\ (step # "pump" => scene.curve # "live")
      <4>1. scene.curve \in {"none", "live", "graduated"} /\ scene.canonical \in BOOLEAN
        BY <1>1 DEF SceneType
      <4> QED BY <1>2, <2>2, <4>1 DEF ScanCurve
    <3>3. PICK step \in {"pump", "hint", "damm"} :
            Goes(step) /\ (step = "pump" => scene.curve # "none") /\ (step # "pump" => scene.curve # "live")
      BY <3>2
    <3> QED BY <3>1, <3>3, GoesKept DEF Looking
  <2> QED BY <2>1, <2>2
<1>3. CASE ScanPump(ok)
  <2> DEFINE row == [NoRow EXCEPT !.venue = "pump", !.floor = TRUE]
  <2>1. row \in RowType /\ row.pool = 0 /\ row.venue \notin Amms
    BY NoRows DEF RowType, Venues, Amms
  <2>2. scene.curve # "none"
    BY <1>1, <1>3 DEF ScanPump, ScanInv
  <2>3. Founded(row)
    BY <2>1, <2>2 DEF Founded
  <2>4. Selected("chosen", row) \/ ScanFails
    BY <1>3 DEF ScanPump
  <2> HIDE DEF row
  <2>5. "chosen" \in Tolds
    BY DEF Tolds
  <2> QED BY <2>1, <2>3, <2>4, <2>5, ScanFailsKept, SelectedKept
<1>4. CASE ScanDamm(ok)
  <2>1. scan.step = "damm" /\ {r.pool : r \in scan.rows} = {}
    BY <1>1, <1>4 DEF ScanDamm, ScanInv, Looking
  <2>2. Enumerated(Diagnostic) \in SUBSET RowType
    BY <1>1, EnumeratedRows
  <2> DEFINE found == IF ok THEN Enumerated(Diagnostic) ELSE {}
  <2>3. scan' = [scan EXCEPT !.step = "amm", !.damm = found] /\ UNCHANGED <<scene, pulls, memo, asker>> /\ found \in SUBSET RowType
    BY <1>4, <2>2 DEF ScanDamm
  <2> HIDE DEF found
  <2>4. scan' \in ScanType /\ scan'.step = "amm" /\ scan'.rows = scan.rows
    BY <1>1, <2>3 DEF ScanType, Looking
  <2>5. ScanInv'
    BY <1>1, <2>1, <2>3, <2>4 DEF ScanInv, RowSound, Looking
  <2> QED BY <2>1, <2>3, <2>4, <2>5, ScanGoesKept
<1> QED BY <1>2, <1>3, <1>4

LEMMA HintKept ==
  ASSUME DiscoveryInv, NEW way \in RouteProbe, NEW ok \in BOOLEAN, ScanHint(way, ok)
  PROVE  DiscoveryInv'
<1> DEFINE n == MainPool(way)
<1>1. scan.step = "hint" /\ scan \in ScanType /\ {r.pool : r \in scan.rows} = {} /\ scene.curve # "live" /\ scene \in SceneType
  BY DEF ScanHint, DiscoveryInv, ScanInv, Looking
<1>2. CASE ok /\ n # 0 /\ Authenticates(n) /\ Conclusive(Candidate(n))
  <2>1. Selected("hinted", Candidate(n))
    BY <1>2 DEF ScanHint
  <2>2. n \in DOMAIN scene.pools
    <3>1. PICK size \in 0..2 : way \in [1..size -> RouteHop]
      BY DEF RouteProbe
    <3>2. DOMAIN way = 1..size
      BY <3>1
    <3>3. way # <<>>
      BY <1>2 DEF MainPool
    <3>4. size # 0
      <4>1. size = 0 => way \in [1..0 -> RouteHop]
        BY <3>1
      <4>2. size = 0 => way = <<>>
        BY <4>1
      <4> QED BY <3>3, <4>2
    <3>5. size = 1 \/ size = 2
      BY <3>4
    <3>6. \A k \in DOMAIN way : way[k] \in RouteHop /\ way[k].share \in {1, 2} /\ way[k].pool \in {0} \cup DOMAIN scene.pools
      BY <3>1 DEF RouteHop
    <3>7. \E k \in DOMAIN way : \A j \in DOMAIN way : way[j].share < way[k].share \/ (way[j].share = way[k].share /\ k <= j)
      <4>1. CASE size = 1
        <5>1. DOMAIN way = {1}
          BY <3>2, <4>1
        <5> QED BY <5>1
      <4>2. CASE size = 2
        <5>1. DOMAIN way = {1, 2}
          BY <3>2, <4>2
        <5>2. way[1].share \in Int /\ way[2].share \in Int
          BY <3>6, <5>1
        <5>3. CASE way[2].share <= way[1].share
          BY <5>1, <5>2, <5>3
        <5>4. CASE way[1].share < way[2].share
          BY <5>1, <5>2, <5>4
        <5> QED BY <5>2, <5>3, <5>4
      <4> QED BY <3>5, <4>1, <4>2
    <3>8. \E k \in DOMAIN way : n = way[k].pool
      <4>1. n = way[CHOOSE k \in DOMAIN way : \A j \in DOMAIN way :
                      way[j].share < way[k].share \/ (way[j].share = way[k].share /\ k <= j)].pool
        BY <1>2, <3>3 DEF MainPool
      <4> QED BY <3>7, <4>1
    <3> QED BY <1>2, <3>6, <3>8
  <2>3. n \in Nat /\ scene.pools[n] \in PoolAccounts
    <3>1. scene.pools \in Seq(PoolAccounts)
      BY <1>1 DEF SceneType
    <3> HIDE DEF n
    <3> QED BY <2>2, <3>1, LenProperties, ElementOfSeq
  <2> HIDE DEF n
  <2>4. Candidate(n) \in RowType /\ Candidate(n).pool = n /\ Durable(Candidate(n))
    BY <1>2, <2>3, RowsAreTyped DEF Candidate, Conclusive
  <2>5. Founded(Candidate(n))
    <3>1. Backed(scene.pools[n])
      BY <2>3, <2>4, DurableIsBacked DEF Candidate
    <3> QED BY <1>1, <1>2, <2>2, <2>4, <3>1 DEF Founded
  <2>6. "hinted" \in Tolds
    BY DEF Tolds
  <2> QED BY <2>1, <2>4, <2>5, <2>6, SelectedKept
<1>3. CASE ~ (ok /\ n # 0 /\ Authenticates(n) /\ Conclusive(Candidate(n)))
  <2>1. Goes("damm")
    BY <1>3 DEF ScanHint
  <2> QED BY <1>1, <2>1, GoesKept DEF Looking
<1> QED BY <1>2, <1>3

\* The pools of two phases have different venues, and so different rows.
LEMMA VenuesKept ==
  ASSUME DiscoveryInv, NEW ok \in BOOLEAN, ScanAmms(ok) \/ ScanConcentrated(ok)
  PROVE  DiscoveryInv'
<1>1. ScanInv /\ scan \in ScanType /\ scene \in SceneType
  BY DEF DiscoveryInv, ScanInv
<1>2. PICK from \in {"amm", "position"} : ScanVenues(from, IF from = "amm" THEN Amms ELSE Concentrated,
                                                     IF from = "amm" THEN "pickAmm" ELSE "pickAny", ok)
  BY DEF ScanAmms, ScanConcentrated
<1> DEFINE venues == IF from = "amm" THEN Amms ELSE Concentrated
           next   == IF from = "amm" THEN "pickAmm" ELSE "pickAny"
           new    == Enumerated(venues)
           rows   == scan.rows \cup new
<1>3. CASE ~ ok
  <2>1. UnsupportedDamm \/ ScanFails
    BY <1>2, <1>3 DEF ScanVenues
  <2>2. "damm" \in Tolds
    BY DEF Tolds
  <2> QED BY <2>1, <2>2, NoRows, ScanFailsKept, SelectedKept DEF UnsupportedDamm
<1>4. CASE ok
  <2>1. scan.step = from /\ scan' = [scan EXCEPT !.step = next, !.rows = rows] /\ UNCHANGED <<scene, pulls, memo, asker>>
    BY <1>2, <1>4 DEF ScanVenues
  <2>2. /\ new \in SUBSET RowType /\ IsFiniteSet(new) /\ OneEach(new) /\ \A r \in new : RowSound(r) /\ r.venue \in venues
        /\ {r.pool : r \in new} = Pools(venues)
    BY <1>1, EnumeratedRows
  <2>3. scan.rows \in SUBSET RowType /\ IsFiniteSet(scan.rows) /\ OneEach(scan.rows) /\ \A r \in scan.rows : RowSound(r)
    BY <1>1 DEF ScanInv, ScanType
  <2>4. {r.pool : r \in scan.rows} = IF from = "amm" THEN {} ELSE Pools(Amms)
    BY <1>1, <2>1 DEF ScanInv, Looking
  <2>5. \A r \in scan.rows : r.venue \notin venues
    <3> SUFFICES ASSUME NEW r \in scan.rows PROVE r.venue \notin venues
      OBVIOUS
    <3>1. from = "position" /\ r.pool \in Pools(Amms)
      BY <2>4
    <3>2. r.venue \in Amms
      BY <2>3, <3>1 DEF RowSound, Pools
    <3> QED BY <3>1, <3>2 DEF Amms, Concentrated
  <2>6. OneEach(rows)
    <3>1. \A r \in scan.rows, s \in new : r.pool # s.pool
      <4> SUFFICES ASSUME NEW r \in scan.rows, NEW s \in new, r.pool = s.pool PROVE FALSE
        OBVIOUS
      <4>1. r.venue = s.venue
        BY <2>2, <2>3 DEF RowSound
      <4> QED BY <2>2, <2>5, <4>1
    <3> HIDE DEF new
    <3> QED BY <2>2, <2>3, <3>1 DEF OneEach
  <2>7. {r.pool : r \in rows} = CASE next \in {"pickAmm", "position"} -> Pools(Amms)
                                  [] next = "pickAny" -> Pools(Amms \cup Concentrated)
                                  [] OTHER -> {}
    <3>1. {r.pool : r \in rows} = {r.pool : r \in scan.rows} \cup {r.pool : r \in new}
      <4> HIDE DEF new
      <4> QED OBVIOUS
    <3>2. Pools(Amms \cup Concentrated) = Pools(Amms) \cup Pools(Concentrated)
      BY DEF Pools
    <3>3. CASE from = "amm"
      <4> HIDE DEF new
      <4> QED BY <2>2, <2>4, <3>1, <3>3
    <3>4. CASE from = "position"
      <4> HIDE DEF new
      <4> QED BY <2>2, <2>4, <3>1, <3>2, <3>4
    <3> QED BY <3>3, <3>4
  <2>8. IsFiniteSet(rows) /\ rows \in SUBSET RowType /\ \A r \in rows : RowSound(r)
    <3> HIDE DEF new
    <3> QED BY <2>2, <2>3, FS_Union
  <2>9. next \in Looking /\ scene.curve # "live"
    BY <1>1, <2>1 DEF ScanInv, Looking
  <2> HIDE DEF rows, next
  <2>10. scan' \in ScanType /\ scan'.step = next /\ scan'.rows = rows
    BY <1>1, <2>1, <2>8, <2>9 DEF ScanType
  <2>11. next # "none" /\ next # "pump"
    BY <2>9 DEF Looking
  <2>12. Pools(Amms)' = Pools(Amms) /\ Pools(Amms \cup Concentrated)' = Pools(Amms \cup Concentrated) /\ \A r : RowSound(r)' <=> RowSound(r)
    BY <2>1 DEF Pools, RowSound
  <2>13. ScanInv'
    BY <2>1, <2>6, <2>7, <2>8, <2>9, <2>10, <2>11, <2>12 DEF ScanInv
  <2>14. scan.step # "none"
    BY <2>1
  <2> QED BY <2>1, <2>10, <2>11, <2>13, <2>14, ScanGoesKept
<1> QED BY <1>3, <1>4

\* The row that the ranking put first is tried; one that is refused no longer
\* counts.
LEMMA PicksKept ==
  ASSUME DiscoveryInv, NEW ok \in BOOLEAN, PickAmm(ok) \/ PickAny(ok)
  PROVE  DiscoveryInv'
<1> DEFINE r == RankCandidates(scan.rows)
           out == [r EXCEPT !.rejected = TRUE]
           rows == (scan.rows \ {r}) \cup {out}
<1>1. ScanInv /\ scan \in ScanType /\ scene \in SceneType /\ scan.step \in {"pickAmm", "pickAny"} /\ scene.curve # "live"
  BY DEF DiscoveryInv, ScanInv, PickAmm, PickAny, Looking
<1>2. scan.rows \in SUBSET RowType /\ IsFiniteSet(scan.rows) /\ OneEach(scan.rows) /\ \A s \in scan.rows : RowSound(s)
  BY <1>1 DEF ScanInv, ScanType
<1>3. {s.pool : s \in scan.rows} = IF scan.step = "pickAmm" THEN Pools(Amms) ELSE Pools(Amms \cup Concentrated)
  BY <1>1 DEF ScanInv
<1>4. CASE r = NoRow /\ PickAmm(ok)
  <2>1. Goes("position") /\ scan.step = "pickAmm"
    BY <1>4 DEF PickAmm
  <2> QED BY <1>1, <1>3, <2>1, GoesKept DEF Looking
<1>5. CASE r = NoRow /\ PickAny(ok)
  <2>1. scan.step = "pickAny" /\ (UnsupportedDamm \/ Selected("unsupported", NoRow))
    BY <1>5 DEF PickAny
  <2>2. "damm" \in Tolds /\ "unsupported" \in Tolds /\ NoRow \in RowType
    BY NoRows DEF Tolds
  <2>3. CASE UnsupportedDamm
    BY <2>2, <2>3, SelectedKept DEF UnsupportedDamm
  <2>4. CASE Selected("unsupported", NoRow)
    BY <1>3, <1>5, <2>1, <2>2, <2>4, SelectedKept
  <2> QED BY <2>1, <2>3, <2>4
<1>6. CASE r # NoRow
  <2>1. r \in scan.rows /\ r \in RowType /\ (Durable(r) \/ r.venue \in Concentrated)
    BY <1>2, <1>6, RankedIsFirst
  <2>2. Authenticate(r, ok)
    BY <1>6 DEF PickAmm, PickAny
  <2>3. RowSound(r) /\ r.pool \in DOMAIN scene.pools
    BY <1>2, <2>1 DEF RowSound
  <2>4. r.pool # 0
    <3>1. scene.pools \in Seq(PoolAccounts)
      BY <1>1 DEF SceneType
    <3> HIDE DEF r
    <3> QED BY <2>3, <3>1, LenProperties
  <2> HIDE DEF r
  <2>5. Founded(r)
    <3>1. r.venue \in Amms => Durable(r)
      BY <2>1 DEF Amms, Concentrated
    <3> QED BY <1>1, <2>3, <2>4, <3>1 DEF Founded, RowSound
  <2>6. CASE ~ ok
    BY <2>2, <2>6, ScanFailsKept DEF Authenticate
  <2>7. CASE ok /\ Authenticates(r.pool)
    <3>1. Selected("chosen", r) /\ "chosen" \in Tolds
      BY <2>2, <2>7 DEF Authenticate, Tolds
    <3> QED BY <2>1, <2>5, <3>1, SelectedKept
  <2>8. CASE ok /\ ~ Authenticates(r.pool)
    <3>1. scan' = [scan EXCEPT !.rows = rows] /\ UNCHANGED <<scene, pulls, memo, asker>>
      BY <2>2, <2>8 DEF Authenticate
    <3>2. out \in RowType /\ out.pool = r.pool /\ out.venue = r.venue /\ ~ Durable(out)
      BY <2>1 DEF RowType, Durable, Eligible
    <3> HIDE DEF out
    <3>3. RowSound(out)
      BY <2>3, <3>2 DEF RowSound
    <3>4. rows \in SUBSET RowType /\ \A s \in rows : RowSound(s)
      BY <1>2, <3>2, <3>3
    <3>5. IsFiniteSet(rows)
      <4>1. IsFiniteSet(scan.rows \ {r})
        BY <1>2, FS_RemoveElement
      <4> QED BY <4>1, FS_AddElement
    <3>6. OneEach(rows)
      BY <1>2, <2>1, <3>2 DEF OneEach
    <3>7. {s.pool : s \in rows} = {s.pool : s \in scan.rows}
      BY <2>1, <3>2
    <3> HIDE DEF rows
    <3>8. scan' \in ScanType /\ scan'.step = scan.step /\ scan'.rows = rows
      BY <1>1, <3>1, <3>4 DEF ScanType
    <3>9. Pools(Amms)' = Pools(Amms) /\ Pools(Amms \cup Concentrated)' = Pools(Amms \cup Concentrated) /\ \A s : RowSound(s)' <=> RowSound(s)
      BY <3>1 DEF Pools, RowSound
    <3>10. ScanInv'
      BY <1>1, <1>3, <3>1, <3>4, <3>5, <3>6, <3>7, <3>8, <3>9 DEF ScanInv, Looking
    <3> QED BY <1>1, <3>1, <3>8, <3>10, ScanGoesKept
  <2> QED BY <2>6, <2>7, <2>8
<1> QED BY <1>4, <1>5, <1>6 DEF PickAmm, PickAny

\* Liquidity that holders withdraw leaves what is locked.
LEMMA ChainStepsKept ==
  ASSUME DiscoveryInv,
         \/ \E n \in DOMAIN scene.pools : ClosePosition(n) \/ \E lp \in 1..scene.pools[n].supply : Withdraw(n, lp)
         \/ CompleteCurve \/ MigratePool
  PROVE  DiscoveryInv'
<1>1. scene \in SceneType /\ scene.pools \in Seq(PoolAccounts)
  BY DEF DiscoveryInv, SceneType
<1>2. \A n \in DOMAIN scene.pools : scene.pools[n] \in PoolAccounts
  BY <1>1, ElementOfSeq, LenProperties
<1>3. CASE CompleteCurve \/ MigratePool
  <2>1. SceneMoves /\ UNCHANGED <<scan, memo, asker>>
    BY <1>1, <1>3 DEF CompleteCurve, MigratePool, Pulled, SceneMoves, SceneType
  <2> QED BY <2>1, ChainMovesKept
<1>4. ASSUME NEW n \in DOMAIN scene.pools, NEW w \in PoolAccounts, scene' = [scene EXCEPT !.pools[n] = w],
             w.venue = scene.pools[n].venue, Backed(scene.pools[n]) => Backed(w)
      PROVE  SceneMoves
  <2>1. scene' = [scene EXCEPT !.pools = [scene.pools EXCEPT ![n] = w]]
    BY <1>1, <1>4 DEF SceneType
  <2> DEFINE pools == [scene.pools EXCEPT ![n] = w]
  <2>2. n \in 1..Len(scene.pools)
    BY <1>1, LenProperties
  <2>3. pools \in Seq(PoolAccounts)
    BY <1>1, <2>2, ExceptSeq
  <2>4. DOMAIN pools = DOMAIN scene.pools /\ pools[n] = w /\ \A m \in DOMAIN scene.pools : m # n => pools[m] = scene.pools[m]
    BY <1>4
  <2> HIDE DEF pools
  <2>5. scene' \in SceneType /\ scene'.pools = pools /\ scene'.curve = scene.curve
    BY <1>1, <2>1, <2>3 DEF SceneType, pools
  <2> QED BY <1>4, <2>4, <2>5 DEF SceneMoves
<1>5. ASSUME NEW n \in DOMAIN scene.pools, ClosePosition(n)
      PROVE  DiscoveryInv'
  <2> DEFINE o == scene.pools[n]
             w == [o EXCEPT !.sol = o.sol \div 2]
  <2>1. o \in PoolAccounts /\ o.venue \in Concentrated
    BY <1>2, <1>5 DEF ClosePosition
  <2>2. o.sol \in Nat /\ o.sol \div 2 \in Nat
    <3>1. o.sol \in Nat
      BY <2>1 DEF PoolAccounts
    <3> HIDE DEF o
    <3> QED BY <3>1
  <2>3. scene' = [scene EXCEPT !.pools[n] = w] /\ UNCHANGED <<scan, memo, asker>>
    <3>1. UNCHANGED <<scan, memo, asker>> /\ scene' = [scene EXCEPT !.pools[n].sol = @ \div 2]
      BY <1>5 DEF ClosePosition, Pulled
    <3> QED BY <1>1, <3>1 DEF SceneType
  <2>4. ~ Backed(o)
    BY <2>1 DEF Backed, Amms, Concentrated
  <2> HIDE DEF o
  <2>5. w \in PoolAccounts /\ w.venue = o.venue
    BY <2>1, <2>2 DEF PoolAccounts
  <2> HIDE DEF w
  <2>6. SceneMoves
    BY <1>4, <2>3, <2>4, <2>5 DEF o
  <2> QED BY <2>3, <2>6, ChainMovesKept
<1>6. ASSUME NEW n \in DOMAIN scene.pools, NEW lp \in 1..scene.pools[n].supply, Withdraw(n, lp)
      PROVE  DiscoveryInv'
  <2> DEFINE o == scene.pools[n]
             t == o.sol - (o.sol * lp) \div o.issued
             w == [o EXCEPT !.issued = o.issued - lp, !.supply = o.supply - lp, !.sol = t]
  <2>1. o \in PoolAccounts
    BY <1>2
  <2>2. o.sol \in Nat /\ o.issued \in Nat /\ o.supply \in Nat /\ lp \in Nat \ {0} /\ Stuck(o) \in Nat /\ InCustody(o) \in Nat
        /\ InCustody(o) <= Stuck(o) /\ NonWithdrawable(o) = (o.issued - o.supply) + InCustody(o)
    <3>1. o.sol \in Nat /\ o.issued \in Nat /\ o.supply \in Nat
      BY <2>1 DEF PoolAccounts
    <3>2. lp \in Nat \ {0}
      <4> HIDE DEF o
      <4> QED BY <1>6, <3>1 DEF o
    <3> HIDE DEF o
    <3> QED BY <2>1, <3>1, <3>2, CustodyCounts
  <2>3. lp <= o.supply - Stuck(o) /\ lp <= o.issued /\ UNCHANGED <<scan, memo, asker>>
        /\ scene' = [scene EXCEPT !.pools[n] = w]
    BY <1>6 DEF Withdraw, Pulled
  <2> HIDE DEF o
  <2>4. t \in Nat
    <3> DEFINE q == (o.sol * lp) \div o.issued
    <3>1. o.sol * lp <= o.sol * o.issued /\ o.sol * lp \in Nat /\ o.issued > 0
      BY <2>2, <2>3
    <3>2. q \in Nat /\ q * o.issued <= o.sol * lp
      BY <2>2, <3>1
    <3> HIDE DEF q
    <3>3. q <= o.sol
      <4> SUFFICES ASSUME q > o.sol PROVE FALSE
        BY <2>2, <3>2
      <4>1. q * o.issued > o.sol * o.issued
        BY <2>2, <3>1, <3>2
      <4> QED BY <2>2, <3>1, <3>2, <4>1
    <3> QED BY <2>2, <3>2, <3>3 DEF q
  <2>5. o.supply - lp \in Nat /\ o.issued - lp \in Nat
    BY <2>2, <2>3
  <2>6. w \in PoolAccounts /\ w.venue = o.venue /\ w.issued = o.issued - lp /\ w.supply = o.supply - lp /\ w.sol = t /\ w.custody = o.custody
    <3> HIDE DEF t
    <3> QED BY <2>1, <2>4, <2>5 DEF PoolAccounts
  <2> HIDE DEF w
  <2>7. NonWithdrawable(w) = NonWithdrawable(o)
    <3>1. InCustody(w) = InCustody(o)
      BY <2>6 DEF InCustody, CustodyAccounts, Verified
    <3> QED BY <2>2, <2>6, <3>1 DEF NonWithdrawable
  <2>8. ASSUME Backed(o) PROVE Backed(w)
    <3> DEFINE k == NonWithdrawable(o)
    <3>1. k > 0 /\ k \in Nat /\ o.venue \in Amms /\ o.issued > 0 /\ o.supply <= o.issued /\ k <= o.issued /\ o.sol * k >= DepthFloor * o.issued
      <4>1. k > 0
        BY <2>1, <2>8, BackedIsDeep
      <4>2. k \in Int
        BY <2>2
      <4> QED BY <2>8, <4>1, <4>2 DEF Backed
    <3>2. o.issued - lp >= k
      BY <2>2, <2>3
    <3>3. k = NonWithdrawable(w)
      BY <2>7
    <3> HIDE DEF k
    <3>4. lp < o.issued /\ DepthFloor \in Nat
      BY <2>2, <3>1, <3>2, DiscoveryConstants
    <3>5. t * k >= DepthFloor * (o.issued - lp)
      BY <2>2, <3>1, <3>4, ShareStays
    <3> HIDE DEF t
    <3>6. o.supply - lp <= o.issued - lp /\ o.issued - lp > 0
      BY <2>2, <3>1, <3>4
    <3> QED BY <2>6, <3>1, <3>2, <3>3, <3>5, <3>6 DEF Backed
  <2>9. SceneMoves
    BY <1>4, <2>3, <2>6, <2>8 DEF o
  <2> QED BY <2>3, <2>9, ChainMovesKept
<1> QED BY <1>3, <1>5, <1>6

LEMMA DiscoveryStepKeeps == DiscoveryInv /\ [DiscoveryNext]_discoveryVars => DiscoveryInv'
<1> SUFFICES ASSUME DiscoveryInv, [DiscoveryNext]_discoveryVars PROVE DiscoveryInv'
  OBVIOUS
<1>1. CASE UNCHANGED discoveryVars
  <2>1. SceneMoves /\ UNCHANGED <<scan, memo, asker>>
    BY <1>1, SceneRests DEF discoveryVars, DiscoveryInv
  <2> QED BY <2>1, ChainMovesKept
<1>2. CASE \E q \in Askers : Ask(q) \/ \E n \in DOMAIN scene.pools, ok \in BOOLEAN : ResolveExplicit(q, n, ok)
  BY <1>2, AskKept, ExplicitKept
<1>3. CASE DiscoveryDeadline \/ MemoExpires
  BY <1>3, ScanFailsKept, MemoExpiresKept DEF DiscoveryDeadline
<1>4. ASSUME NEW ok \in BOOLEAN,
             \/ ScanCurve(ok) \/ ScanPump(ok) \/ ScanDamm(ok) \/ ScanAmms(ok) \/ ScanConcentrated(ok)
             \/ PickAmm(ok) \/ PickAny(ok)
             \/ \E way \in RouteProbe : ScanHint(way, ok)
      PROVE  DiscoveryInv'
  BY <1>4, CurveStepsKept, VenuesKept, PicksKept, HintKept
<1>5. CASE \/ \E n \in DOMAIN scene.pools : ClosePosition(n) \/ \E lp \in 1..scene.pools[n].supply : Withdraw(n, lp)
           \/ CompleteCurve \/ MigratePool
  BY <1>5, ChainStepsKept
<1> QED BY <1>1, <1>2, <1>3, <1>4, <1>5 DEF DiscoveryNext

LEMMA DiscoveriesAreSound == DiscoveryInv => DiscoverySound
<1> SUFFICES ASSUME DiscoveryInv PROVE DiscoverySound
  OBVIOUS
<1>1. ScanInv /\ MemoInv /\ scene \in SceneType /\ scene.pools \in Seq(PoolAccounts) /\ \A q \in Askers : AskInv(asker[q])
  BY DEF DiscoveryInv, SceneType
<1>2. \A n \in DOMAIN scene.pools : n # 0 /\ scene.pools[n] \in PoolAccounts
  BY <1>1, LenProperties, ElementOfSeq
<1>3. LockedDepthStays
  <2> SUFFICES ASSUME NEW q \in Askers, Answered(q), asker[q].row.venue \in Amms
               PROVE  scene.pools[asker[q].row.pool].sol >= DepthFloor
    BY DEF LockedDepthStays
  <2>1. asker[q].row.pool \in DOMAIN scene.pools /\ Backed(scene.pools[asker[q].row.pool])
    BY <1>1 DEF Answered, AskInv, Founded
  <2> QED BY <1>2, <2>1, BackedIsDeep
<1>4. PumpFirst
  BY <1>1 DEF PumpFirst, Answered, AskInv, Founded
<1>5. UnsupportedIsEvidence
  BY <1>1 DEF UnsupportedIsEvidence, AskInv
<1>6. MemoryAndFlight
  BY DEF MemoryAndFlight, DiscoveryInv, MemoInv
<1>7. ChosenIsBest
  <2> DEFINE r == RankCandidates(scan.rows)
             others == {q \in scan.rows : ~q.rejected} \cup (IF scan.step = "pickAmm" THEN Enumerated(Concentrated) ELSE {})
  <2> SUFFICES ASSUME scan.step \in {"pickAmm", "pickAny"}, r # NoRow
               PROVE  (\A q \in others : ~Beats(q, r)) /\ (r.venue \in Amms => Durable(r))
    BY DEF ChosenIsBest
  <2>1. scan.rows \in SUBSET RowType /\ IsFiniteSet(scan.rows) /\ OneEach(scan.rows) /\ \A s \in scan.rows : RowSound(s)
    BY <1>1 DEF ScanInv, ScanType
  <2>2. /\ r \in scan.rows
        /\ \/ Durable(r) /\ \A q \in scan.rows : Durable(q) /\ q # r => LockedFirst(r, q)
           \/ /\ Eligible(r) /\ r.venue \in Concentrated /\ \A q \in scan.rows : ~ Durable(q)
              /\ \A q \in scan.rows : Eligible(q) /\ q.venue \in Concentrated /\ q # r => DeeperFirst(r, q)
    BY <2>1, RankedIsFirst
  <2>3. \A q \in Enumerated(Concentrated) : q \in RowType /\ q.venue \in Concentrated /\ ~ Durable(q)
    <3>1. \A q \in Enumerated(Concentrated) : q \in RowType /\ q.venue \in Concentrated
      BY <1>1, EnumeratedRows
    <3> QED BY <3>1 DEF Durable, Amms, Concentrated
  <2>4. r.venue \in Concentrated => scan.step = "pickAny"
    <3> SUFFICES ASSUME scan.step = "pickAmm" PROVE r.venue \notin Concentrated
      OBVIOUS
    <3>1. r.pool \in Pools(Amms)
      BY <1>1, <2>2 DEF ScanInv
    <3>2. r.venue \in Amms
      BY <2>1, <2>2, <3>1 DEF Pools, RowSound
    <3> QED BY <3>2 DEF Amms, Concentrated
  <2> HIDE DEF r
  <2>5. r \in RowType /\ \A q \in others : q \in RowType
    BY <2>1, <2>2, <2>3
  <2>6. \A q \in RowType : q.depth \in Nat /\ q.opened \in Nat /\ q.locked \in Int
    BY DEF RowType
  <2>7. \A q \in others : ~Beats(q, r)
    <3> SUFFICES ASSUME NEW q \in others, Beats(q, r) PROVE FALSE
      OBVIOUS
    <3>1. CASE Durable(r)
      <4>1. Durable(q) /\ q.locked > r.locked
        BY <3>1 DEF Beats
      <4>2. q \in scan.rows /\ q # r
        BY <2>3, <2>5, <2>6, <4>1
      <4>3. LockedFirst(r, q)
        BY <2>2, <3>1, <4>1, <4>2 DEF Durable, Amms, Concentrated
      <4> QED BY <2>5, <2>6, <4>1, <4>3 DEF LockedFirst
    <3>2. CASE ~ Durable(r)
      <4>1. r.venue \in Concentrated /\ q \in scan.rows
        BY <2>2, <2>4, <3>2
      <4>2. q.venue \in Concentrated /\ Eligible(q) /\ (q.depth > r.depth \/ (q.depth = r.depth /\ Older(q, r)))
        BY <2>2, <3>2, <4>1 DEF Beats
      <4>3. q # r
        BY <2>5, <2>6, <4>2 DEF Older
      <4>4. DeeperFirst(r, q)
        BY <2>2, <3>2, <4>1, <4>2, <4>3
      <4> QED BY <2>5, <2>6, <4>2, <4>4 DEF DeeperFirst, Older
    <3> QED BY <3>1, <3>2
  <2>8. r.venue \in Amms => Durable(r)
    BY <2>2 DEF Amms, Concentrated
  <2> QED BY <2>7, <2>8
<1> QED BY <1>3, <1>4, <1>5, <1>6, <1>7 DEF DiscoverySound

-----------------------------------------------------------------------------
(* One resolution (Resolving) *)

\* The chain moves one way: a curve completes, its pool appears, pools drain.
ChainMoved ==
  /\ accounts \in AccountsType /\ began \in AccountsType
  /\ accounts.curve # began.curve => began.curve = "live" /\ accounts.curve = "complete"
  /\ began.canonical => accounts.canonical
  /\ accounts.pool # began.pool => began.pool = "live" /\ accounts.pool = "drained"

\* What a resolution has read when it asks for the mint or the fee.
ReadSoFar ==
  \/ resolve.ref = "curve" /\ began.curve = "live"
  \/ resolve.ref = "canonical" /\ accounts.canonical
  \/ resolve.ref = "alien"
  \/ resolve.ref = "pool" /\ began.pool = "live"

ResolvingInv ==
  /\ ChainMoved /\ RefusalsAreEvidence
  /\ DOMAIN resolve = {"given", "step", "ref", "lost"} /\ resolve.given \in GivenReferences
  /\ resolve.given = "unset" => resolve.ref \in {"none", "curve", "canonical"}
  /\ resolve.ref = "canonical" => accounts.canonical
  /\ resolve.step = "canonical" => accounts.curve = "complete"
  /\ resolve.step = "curve" => resolve.ref = "curve" /\ (resolve.given = "unset" => began.curve # "complete")
  /\ resolve.step = "pool" => resolve.ref \in {"curve", "canonical", "alien", "pool"}
  /\ resolve.step = "vaults" => resolve.ref \in {"canonical", "alien", "pool"}
  /\ resolve.step = "mint" => ReadSoFar
  /\ resolve.step \in {"fee", "ok"} => ReadSoFar

LEMMA ResolvingInitial == ResolvingInit => ResolvingInv
<1> SUFFICES ASSUME ResolvingInit PROVE ResolvingInv
  OBVIOUS
<1>1. PICK q \in Inquiries : /\ accounts = q.chain
                             /\ resolve = [given |-> q.given, step |-> "start", ref |-> "none", lost |-> FALSE]
  BY DEF ResolvingInit
<1>2. began = accounts /\ accounts \in AccountsType
  BY <1>1, ResolvingConstants DEF ResolvingInit
<1>3. /\ DOMAIN resolve = {"given", "step", "ref", "lost"} /\ resolve.given \in GivenReferences
      /\ resolve.step = "start" /\ resolve.ref = "none"
  BY <1>1, ResolvingConstants
<1> QED BY <1>2, <1>3 DEF ResolvingInv, ChainMoved, RefusalsAreEvidence

\* A step of the chain.
LEMMA ChainStepKept ==
  ASSUME ResolvingInv, CurveCompletes \/ PoolMigrates \/ PoolDrains
  PROVE  ResolvingInv'
<1>1. /\ accounts \in AccountsType /\ UNCHANGED <<began, resolve>>
      /\ accounts.curve \in {"none", "dust", "live", "complete"} /\ accounts.pool \in PoolStates
      /\ DOMAIN accounts = {"curve", "canonical", "mint", "config", "pool"}
  BY DEF ResolvingInv, ChainMoved, AccountsType, CurveCompletes, PoolMigrates, PoolDrains
<1>2. CASE CurveCompletes
  <2>1. /\ accounts.curve = "live" /\ accounts'.curve = "complete" /\ accounts'.canonical = accounts.canonical
        /\ accounts'.pool = accounts.pool /\ accounts' \in AccountsType
    BY <1>1, <1>2 DEF CurveCompletes, AccountsType
  <2> QED BY <1>1, <2>1 DEF ResolvingInv, ChainMoved, ReadSoFar, RefusalsAreEvidence
<1>3. CASE PoolMigrates
  <2>1. /\ accounts'.canonical = TRUE /\ accounts'.curve = accounts.curve
        /\ accounts'.pool = accounts.pool /\ accounts' \in AccountsType
    BY <1>1, <1>3 DEF PoolMigrates, AccountsType
  <2> QED BY <1>1, <2>1 DEF ResolvingInv, ChainMoved, ReadSoFar, RefusalsAreEvidence
<1>4. CASE PoolDrains
  <2>1. /\ accounts.pool = "live" /\ accounts'.pool = "drained" /\ accounts'.curve = accounts.curve
        /\ accounts'.canonical = accounts.canonical /\ accounts' \in AccountsType
    BY <1>1, <1>4 DEF PoolDrains, AccountsType, PoolStates
  <2> QED BY <1>1, <2>1 DEF ResolvingInv, ChainMoved, ReadSoFar, RefusalsAreEvidence
<1> QED BY <1>2, <1>3, <1>4

\* A read that failed ends the resolution.
LEMMA LostReadKept ==
  ASSUME ResolvingInv, UNCHANGED <<accounts, began>>, resolve' = [resolve EXCEPT !.step = "unavailable", !.lost = TRUE]
  PROVE  ResolvingInv'
<1>1. /\ DOMAIN resolve' = DOMAIN resolve /\ resolve'.step = "unavailable" /\ resolve'.lost = TRUE
      /\ resolve'.given = resolve.given /\ resolve'.ref = resolve.ref
  BY DEF ResolvingInv
<1> QED BY <1>1 DEF ResolvingInv, ChainMoved, RefusalsAreEvidence

LEMMA StepsMove ==
  ASSUME ResolvingInv, NEW step, NEW ref
  PROVE  /\ LET k == StepTo(step)
            IN  /\ DOMAIN k = DOMAIN resolve /\ k.step = step /\ k.ref = resolve.ref
                /\ k.given = resolve.given /\ k.lost = resolve.lost
         /\ LET k == Toward(step, ref)
            IN  /\ DOMAIN k = DOMAIN resolve /\ k.step = step /\ k.ref = ref
                /\ k.given = resolve.given /\ k.lost = resolve.lost
  BY DEF ResolvingInv, StepTo, Toward

\* A step of the resolver that hears an answer.
LEMMA HeardKept ==
  ASSUME ResolvingInv, UNCHANGED <<accounts, began>>, NEW step, NEW ref,
         \/ resolve' = StepTo(step) /\ ref = resolve.ref
         \/ resolve' = Toward(step, ref),
         resolve.given = "unset" => ref \in {"none", "curve", "canonical"},
         ref = "canonical" => accounts.canonical,
         step = "canonical" => accounts.curve = "complete",
         step = "curve" => ref = "curve" /\ (resolve.given = "unset" => began.curve # "complete"),
         step = "pool" => ref \in {"curve", "canonical", "alien", "pool"},
         step = "vaults" => ref \in {"canonical", "alien", "pool"},
         step \in {"mint", "fee", "ok"} =>
           \/ ref = "curve" /\ began.curve = "live"
           \/ ref = "canonical" /\ accounts.canonical
           \/ ref = "alien"
           \/ ref = "pool" /\ began.pool = "live",
         step = "migrating" => accounts.curve = "complete" /\ ~ began.canonical,
         step = "graduated" => accounts.curve = "complete" /\ (resolve.given = "unset" => began.curve = "live"),
         step = "noCurve" => began.curve \in {"none", "dust"},
         step = "missing" => CASE resolve.given = "curve" -> began.curve = "none"
                               [] resolve.given = "canonical" -> ~ began.canonical
                               [] OTHER -> resolve.given = "nowhere",
         step # "unavailable"
  PROVE  ResolvingInv'
<1>1. /\ DOMAIN resolve' = DOMAIN resolve /\ resolve'.step = step /\ resolve'.ref = ref
      /\ resolve'.given = resolve.given /\ resolve'.lost = resolve.lost
  BY StepsMove
<1>2. RefusalsAreEvidence'
  BY <1>1 DEF RefusalsAreEvidence
<1> QED BY <1>1, <1>2 DEF ResolvingInv, ChainMoved, ReadSoFar

LEMMA ResolverStepKept ==
  ASSUME ResolvingInv, NEW ok \in BOOLEAN,
         \/ StartUnset \/ StartGiven(ok) \/ LookAtVenue(ok) \/ LookForCanonical(ok) \/ LookAtCurve(ok) \/ LookAtMint(ok)
         \/ LookAtFee(ok) \/ LookAtPool(ok) \/ LookAtVaults(ok)
  PROVE  ResolvingInv'
<1>1. /\ accounts.curve \in {"none", "dust", "live", "complete"} /\ accounts.pool \in PoolStates
      /\ accounts.canonical \in BOOLEAN /\ began.canonical \in BOOLEAN /\ began.curve \in {"none", "dust", "live", "complete"}
  BY DEF ResolvingInv, ChainMoved, AccountsType
<1>2. UNCHANGED <<accounts, began>>
  BY DEF StartUnset, StartGiven, LookAtVenue, LookForCanonical, LookAtCurve, LookAtMint, LookAtFee, LookAtPool, LookAtVaults, Looks
<1>3. CASE ~ ok /\ ~ StartUnset
  <2>1. resolve' = [resolve EXCEPT !.step = "unavailable", !.lost = TRUE]
    BY <1>3 DEF StartGiven, LookAtVenue, LookForCanonical, LookAtCurve, LookAtMint, LookAtFee, LookAtPool, LookAtVaults, Looks
  <2> QED BY <1>2, <2>1, LostReadKept
<1>4. CASE StartUnset
  <2>1. resolve' = StepTo("venue") /\ resolve.given = "unset"
    BY <1>4 DEF StartUnset, Looks
  <2> QED BY <1>2, <2>1, HeardKept DEF ResolvingInv
<1>5. CASE ok /\ StartGiven(ok)
  <2>1. /\ resolve.given # "unset" /\ resolve.given \in GivenReferences
        /\ resolve' = CASE OwnerOf(resolve.given) = "none" -> StepTo("missing")
                        [] OwnerOf(resolve.given) = "pump" -> Toward("curve", "curve")
                        [] OTHER -> Toward("pool", resolve.given)
    BY <1>5 DEF StartGiven, Looks, ResolvingInv
  <2>2. CASE OwnerOf(resolve.given) = "none"
    <3>1. resolve' = StepTo("missing")
      BY <2>1, <2>2
    <3>2. \/ resolve.given = "curve" /\ accounts.curve = "none"
          \/ resolve.given = "canonical" /\ ~ accounts.canonical
          \/ resolve.given = "nowhere"
      BY <1>1, <2>1, <2>2 DEF OwnerOf, GivenReferences
    <3>3. \/ resolve.given = "curve" /\ began.curve = "none"
          \/ resolve.given = "canonical" /\ ~ began.canonical
          \/ resolve.given = "nowhere"
      BY <1>1, <3>2 DEF ResolvingInv, ChainMoved
    <3> QED BY <1>2, <2>1, <3>1, <3>3, HeardKept DEF ResolvingInv
  <2>3. CASE OwnerOf(resolve.given) = "pump"
    <3>1. resolve' = Toward("curve", "curve")
      BY <2>1, <2>3
    <3> QED BY <1>2, <2>1, <3>1, HeardKept DEF ResolvingInv
  <2>4. CASE OwnerOf(resolve.given) \notin {"none", "pump"}
    <3>1. resolve' = Toward("pool", resolve.given)
      BY <2>1, <2>4
    <3>2. resolve.given \in {"curve", "canonical", "alien", "pool"} /\ (resolve.given = "canonical" => accounts.canonical)
      BY <2>1, <2>4 DEF OwnerOf, GivenReferences
    <3> QED BY <1>2, <2>1, <3>1, <3>2, HeardKept DEF ResolvingInv
  <2> QED BY <2>2, <2>3, <2>4
<1>6. CASE ok /\ LookAtVenue(ok)
  <2>1. resolve' = IF HandsOff THEN StepTo("canonical") ELSE Toward("curve", "curve")
    BY <1>6 DEF LookAtVenue, Looks
  <2>2. CASE HandsOff
    BY <1>2, <2>1, <2>2, HeardKept DEF ResolvingInv, HandsOff
  <2>3. CASE ~ HandsOff
    <3>1. resolve' = Toward("curve", "curve") /\ began.curve # "complete"
      BY <1>1, <2>1, <2>3 DEF HandsOff, ResolvingInv, ChainMoved
    <3> QED BY <1>2, <3>1, HeardKept DEF ResolvingInv
  <2> QED BY <2>2, <2>3
<1>7. CASE ok /\ LookForCanonical(ok)
  <2>1. /\ resolve.step = "canonical" /\ accounts.curve = "complete"
        /\ resolve' = IF accounts.canonical THEN Toward("pool", "canonical") ELSE StepTo("migrating")
    BY <1>7 DEF LookForCanonical, Looks, ResolvingInv
  <2>2. CASE accounts.canonical
    BY <1>2, <2>1, <2>2, HeardKept DEF ResolvingInv
  <2>3. CASE ~ accounts.canonical
    <3>1. resolve' = StepTo("migrating") /\ ~ began.canonical
      BY <2>1, <2>3 DEF ResolvingInv, ChainMoved
    <3> QED BY <1>2, <2>1, <3>1, HeardKept DEF ResolvingInv
  <2> QED BY <2>2, <2>3
<1>8. CASE ok /\ LookAtCurve(ok)
  <2>1. /\ resolve.ref = "curve" /\ (resolve.given = "unset" => began.curve # "complete")
        /\ resolve' = CASE accounts.curve \in {"none", "dust"} -> StepTo("noCurve")
                        [] accounts.curve = "complete" -> StepTo("graduated")
                        [] OTHER -> StepTo("mint")
    BY <1>8 DEF LookAtCurve, Looks, ResolvingInv
  <2>2. CASE accounts.curve \in {"none", "dust"}
    <3>1. resolve' = StepTo("noCurve") /\ began.curve \in {"none", "dust"}
      BY <1>1, <2>1, <2>2 DEF ResolvingInv, ChainMoved
    <3> QED BY <1>2, <2>1, <3>1, HeardKept DEF ResolvingInv
  <2>3. CASE accounts.curve = "complete"
    <3>1. resolve' = StepTo("graduated") /\ (resolve.given = "unset" => began.curve = "live")
      BY <1>1, <2>1, <2>3 DEF ResolvingInv, ChainMoved
    <3> QED BY <1>2, <2>1, <2>3, <3>1, HeardKept DEF ResolvingInv
  <2>4. CASE accounts.curve = "live"
    <3>1. resolve' = StepTo("mint") /\ began.curve = "live"
      BY <1>1, <2>1, <2>4 DEF ResolvingInv, ChainMoved
    <3> QED BY <1>2, <2>1, <3>1, HeardKept DEF ResolvingInv
  <2> QED BY <1>1, <2>2, <2>3, <2>4
<1>9. CASE ok /\ LookAtMint(ok)
  <2>1. ReadSoFar /\ resolve' = IF accounts.mint THEN StepTo("fee") ELSE StepTo("invalid")
    BY <1>9 DEF LookAtMint, Looks, ResolvingInv
  <2>2. resolve' = StepTo("fee") \/ resolve' = StepTo("invalid")
    BY <2>1
  <2> QED BY <1>2, <2>1, <2>2, HeardKept DEF ResolvingInv, ReadSoFar
<1>10. CASE ok /\ LookAtFee(ok)
  <2>1. ReadSoFar /\ resolve' = IF accounts.config \/ resolve.ref # "pool" THEN LastCheck ELSE StepTo("invalid")
    BY <1>10 DEF LookAtFee, Looks, ResolvingInv
  <2>2. resolve' = StepTo("ok") \/ resolve' = StepTo("invalid") \/ resolve' = StepTo("notDerived")
    BY <2>1 DEF LastCheck
  <2> QED BY <1>2, <2>1, <2>2, HeardKept DEF ResolvingInv, ReadSoFar
<1>11. CASE ok /\ LookAtPool(ok)
  <2>1. /\ resolve.ref \in {"curve", "canonical", "alien", "pool"}
        /\ resolve' = IF OwnerOf(resolve.ref) \in {"pumpSwap", "raydium"} THEN StepTo("vaults") ELSE StepTo("invalid")
    BY <1>11 DEF LookAtPool, Looks, ResolvingInv
  <2>2. CASE OwnerOf(resolve.ref) \in {"pumpSwap", "raydium"}
    <3>1. resolve.ref # "curve"
      BY <2>2 DEF OwnerOf
    <3> QED BY <1>2, <2>1, <2>2, <3>1, HeardKept DEF ResolvingInv
  <2>3. CASE OwnerOf(resolve.ref) \notin {"pumpSwap", "raydium"}
    BY <1>2, <2>1, <2>3, HeardKept DEF ResolvingInv
  <2> QED BY <2>2, <2>3
<1>12. CASE ok /\ LookAtVaults(ok)
  <2>1. /\ resolve.ref \in {"canonical", "alien", "pool"} /\ (resolve.ref = "canonical" => accounts.canonical)
        /\ resolve' = CASE resolve.ref # "pool" -> StepTo("mint")
                        [] resolve.ref = "pool" /\ accounts.pool = "live" -> StepTo("fee")
                        [] OTHER -> StepTo("invalid")
    BY <1>12 DEF LookAtVaults, Looks, ResolvingInv
  <2>2. CASE resolve.ref # "pool"
    <3>1. resolve' = StepTo("mint")
      BY <2>1, <2>2
    <3> QED BY <1>2, <2>1, <2>2, <3>1, HeardKept DEF ResolvingInv
  <2>3. CASE resolve.ref = "pool" /\ accounts.pool = "live"
    <3>1. resolve' = StepTo("fee") /\ began.pool = "live"
      BY <2>1, <2>3 DEF ResolvingInv, ChainMoved
    <3> QED BY <1>2, <2>1, <2>3, <3>1, HeardKept DEF ResolvingInv
  <2>4. CASE resolve.ref = "pool" /\ accounts.pool # "live"
    <3>1. resolve' = StepTo("invalid")
      BY <2>1, <2>4
    <3> QED BY <1>2, <2>1, <3>1, HeardKept DEF ResolvingInv
  <2> QED BY <2>2, <2>3, <2>4
<1> QED BY <1>3, <1>4, <1>5, <1>6, <1>7, <1>8, <1>9, <1>10, <1>11, <1>12

LEMMA ResolvingStepKeeps ==
  ASSUME ResolvingInv, [ResolvingNext]_resolvingVars
  PROVE  ResolvingInv'
<1>1. CASE UNCHANGED resolvingVars
  BY <1>1 DEF resolvingVars, ResolvingInv, ChainMoved, ReadSoFar, RefusalsAreEvidence
<1>2. CASE StartUnset \/ \E ok \in BOOLEAN :
             \/ StartGiven(ok) \/ LookAtVenue(ok) \/ LookForCanonical(ok) \/ LookAtCurve(ok) \/ LookAtMint(ok)
             \/ LookAtFee(ok) \/ LookAtPool(ok) \/ LookAtVaults(ok)
  BY <1>2, ResolverStepKept
<1>3. CASE CurveCompletes \/ PoolMigrates \/ PoolDrains
  BY <1>3, ChainStepKept
<1> QED BY <1>1, <1>2, <1>3 DEF ResolvingNext

LEMMA ResolutionsAreSound == ResolvingInv => ResolvingSound
<1> SUFFICES ASSUME ResolvingInv PROVE ResolvingSound
  OBVIOUS
<1>1. accounts.pool \in PoolStates /\ began.pool \in PoolStates
  BY DEF ResolvingInv, ChainMoved, AccountsType
<1>2. ResolvedIsPriced
  BY DEF ResolvingInv, ReadSoFar, ResolvedIsPriced, ProgramPrices
<1>3. ASSUME resolve.step = "ok"
      PROVE  SeedFor(resolve.ref) = ProgramSeed(resolve.ref)
  <2>1. ReadSoFar
    BY <1>3 DEF ResolvingInv
  <2>2. CASE resolve.ref = "curve" /\ began.curve = "live"
    <3>1. accounts.curve \in {"live", "complete"}
      BY <2>2 DEF ResolvingInv, ChainMoved
    <3> QED BY <2>2, <3>1 DEF SeedFor, ProgramSeed, OwnerOf
  <2>3. CASE resolve.ref = "canonical" /\ accounts.canonical
    BY <2>3 DEF SeedFor, ProgramSeed, OwnerOf
  <2>4. CASE resolve.ref = "alien"
    BY <2>4 DEF SeedFor, ProgramSeed, OwnerOf
  <2>5. CASE resolve.ref = "pool" /\ began.pool = "live"
    <3>1. accounts.pool \in {"live", "drained"}
      BY <2>5 DEF ResolvingInv, ChainMoved
    <3> QED BY <2>5, <3>1 DEF SeedFor, ProgramSeed, OwnerOf
  <2> QED BY <2>1, <2>2, <2>3, <2>4, <2>5 DEF ReadSoFar
<1>4. resolve.step = "ok" /\ resolve.given = "unset" => SeedFor(resolve.ref) = "zero"
  BY DEF ResolvingInv, ReadSoFar, SeedFor
<1> QED BY <1>2, <1>3, <1>4 DEF ResolvingSound, VaultUnmoved, ResolvingInv

-----------------------------------------------------------------------------
(* The reads of an enumeration (ReadPool) *)

HandType == {Rested} \cup [at : 1 .. Addresses, tries : 1 .. Attempts]

\* Every address up to the cursor has its row or a worker at it; one that is
\* absent was so when the scan began.
ScanRows(s) ==
  /\ \A i \in 1 .. Addresses :
       /\ i >= reads[s].cursor => reads[s].rows[i] = "none"
       /\ reads[s].rows[i] = "absent" => i \notin reads[s].began
       /\ reads[s].state = "running" /\ i < reads[s].cursor =>
            reads[s].rows[i] # "none" \/ \E w \in Reading(s) : hand[s][w].at = i
       /\ reads[s].state = "ok" => reads[s].rows[i] # "none"
  /\ \A w \in Reading(s) :
       /\ hand[s][w].at < reads[s].cursor /\ reads[s].rows[hand[s][w].at] = "none"
       /\ \A v \in Reading(s) : hand[s][v].at = hand[s][w].at => v = w
  /\ reads[s].state \in {"idle", "ok"} => Reading(s) = {}
  /\ reads[s].state = "idle" => reads[s].cursor = 1

ScanTyped(s) ==
  /\ DOMAIN reads[s] = {"state", "cursor", "rows", "began"}
  /\ reads[s].state \in {"idle", "running", "ok", "failed", "left"}
  /\ reads[s].cursor \in 1 .. Addresses + 1 /\ DOMAIN reads[s].rows = 1 .. Addresses
  /\ reads[s].began \subseteq there
  /\ hand[s] \in [Workers -> HandType]

ReadsInv ==
  /\ DOMAIN reads = Scans /\ DOMAIN hand = Scans
  /\ \A s \in Scans : ScanTyped(s) /\ ScanRows(s)

LEMMA HandsRead ==
  /\ Rested \in HandType /\ Rested.at = 0
  /\ \A i \in 1 .. Addresses : TakesAddress(i) \in HandType /\ TakesAddress(i) # Rested /\ TakesAddress(i).at = i
  /\ \A k \in HandType \ {Rested} : DOMAIN k = {"at", "tries"} /\ k.at \in 1 .. Addresses /\ k.tries \in 1 .. Attempts
<1>1. \A i \in 1 .. Addresses : TakesAddress(i) \in HandType /\ TakesAddress(i) # Rested /\ TakesAddress(i).at = i
  BY ReadPoolConstants DEF TakesAddress, HandType, Rested
<1> QED BY <1>1 DEF HandType, Rested

LEMMA ReadsInitial == PoolInit => ReadsInv
<1> SUFFICES ASSUME PoolInit PROVE ReadsInv
  OBVIOUS
<1>1. /\ DOMAIN reads = Scans /\ DOMAIN hand = Scans
      /\ \A s \in Scans :
           /\ reads[s] = [state |-> "idle", cursor |-> 1, rows |-> [i \in 1 .. Addresses |-> "none"], began |-> {}]
           /\ hand[s] = [w \in Workers |-> Rested]
  BY DEF PoolInit
<1>2. ASSUME NEW s \in Scans
      PROVE  ScanTyped(s) /\ ScanRows(s)
  <2> DEFINE rows == [i \in 1 .. Addresses |-> "none"]
             first == [state |-> "idle", cursor |-> 1, rows |-> rows, began |-> {}]
  <2>a. reads[s] = first
    BY <1>1
  <2> HIDE DEF rows
  <2>b. /\ DOMAIN first = {"state", "cursor", "rows", "began"} /\ first.state = "idle" /\ first.cursor = 1
        /\ first.rows = rows /\ first.began = {}
    OBVIOUS
  <2> HIDE DEF first
  <2>1. /\ DOMAIN reads[s] = {"state", "cursor", "rows", "began"} /\ reads[s].state = "idle" /\ reads[s].cursor = 1
        /\ reads[s].rows = [i \in 1 .. Addresses |-> "none"] /\ reads[s].began = {}
    BY <2>a, <2>b DEF rows
  <2>2. Reading(s) = {}
    BY <1>1 DEF Reading
  <2> QED BY <1>1, <2>1, <2>2, HandsRead, ReadPoolConstants DEF ScanTyped, ScanRows
<1> QED BY <1>1, <1>2 DEF ReadsInv

\* Every step is one of one scan, or opens an account.
LEMMA OneScanMoves ==
  ASSUME ReadsInv, NEW s \in Scans, there' = there, DOMAIN reads' = Scans, DOMAIN hand' = Scans,
         \A r \in Scans \ {s} : reads'[r] = reads[r] /\ hand'[r] = hand[r],
         ScanTyped(s)', ScanRows(s)'
  PROVE  ReadsInv'
<1>1. ASSUME NEW r \in Scans \ {s}
      PROVE  ScanTyped(r)' /\ ScanRows(r)'
  BY <1>1 DEF ReadsInv, ScanTyped, ScanRows, Reading
<1> QED BY <1>1 DEF ReadsInv

LEMMA BeginScanKept ==
  ASSUME ReadsInv, NEW s \in Scans, BeginScan(s)
  PROVE  ReadsInv'
<1>1. ScanTyped(s) /\ ScanRows(s) /\ reads[s].state = "idle" /\ there' = there
  BY DEF ReadsInv, BeginScan
<1>2. Started \in 1 .. Addresses /\ Started <= Width
  BY ReadPoolConstants DEF Started
<1>3. /\ DOMAIN reads' = Scans /\ DOMAIN hand' = Scans
      /\ \A r \in Scans \ {s} : reads'[r] = reads[r] /\ hand'[r] = hand[r]
      /\ DOMAIN reads'[s] = DOMAIN reads[s] /\ reads'[s].state = "running" /\ reads'[s].cursor = Started + 1
      /\ reads'[s].began = there /\ reads'[s].rows = reads[s].rows
      /\ hand'[s] = [w \in Workers |-> IF w <= Started THEN TakesAddress(w) ELSE Rested]
  BY <1>1 DEF BeginScan, ReadsInv, ScanTyped
<1>4. hand'[s] \in [Workers -> HandType]
  BY <1>2, <1>3, HandsRead, ReadPoolConstants DEF Workers
<1>5. \A w \in Workers : (w \in Reading(s)' <=> w <= Started) /\ (w <= Started => hand'[s][w].at = w)
  BY <1>2, <1>3, HandsRead, ReadPoolConstants DEF Workers, Reading
<1>6. \A i \in 1 .. Addresses : reads[s].rows[i] = "none"
  BY <1>1 DEF ScanRows
<1>7. ScanTyped(s)'
  BY <1>1, <1>2, <1>3, <1>4, ReadPoolConstants DEF ScanTyped
<1>8. ScanRows(s)'
  <2>1. \A i \in 1 .. Started : i \in Reading(s)' /\ hand'[s][i].at = i
    BY <1>2, <1>5, ReadPoolConstants DEF Workers
  <2>2. \A w \in Reading(s)' : w \in 1 .. Started /\ hand'[s][w].at = w
    BY <1>2, <1>5, ReadPoolConstants DEF Workers, Reading
  <2>3. \A i \in 1 .. Addresses : i < reads'[s].cursor => i \in 1 .. Started
    BY <1>2, <1>3, ReadPoolConstants
  <2>4. \A w \in Reading(s)' :
          /\ hand'[s][w].at < reads'[s].cursor /\ reads'[s].rows[hand'[s][w].at] = "none"
          /\ \A v \in Reading(s)' : hand'[s][v].at = hand'[s][w].at => v = w
    BY <1>2, <1>3, <1>6, <2>2, ReadPoolConstants
  <2>5. \A i \in 1 .. Addresses :
          /\ reads'[s].rows[i] = "none"
          /\ i < reads'[s].cursor => \E w \in Reading(s)' : hand'[s][w].at = i
    BY <1>3, <1>6, <2>1, <2>3
  <2> QED BY <1>3, <2>4, <2>5 DEF ScanRows
<1> QED BY <1>1, <1>3, <1>7, <1>8, OneScanMoves

LEMMA ReadAnswersKept ==
  ASSUME ReadsInv, NEW s \in Scans, NEW w \in Workers, ReadAnswers(s, w)
  PROVE  ReadsInv'
<1> DEFINE i == hand[s][w].at
           row == IF i \in there THEN "found" ELSE "absent"
           k == reads[s].cursor
<1>1. ScanTyped(s) /\ ScanRows(s) /\ there' = there /\ w \in Reading(s)
  BY DEF ReadsInv, ReadAnswers
<1>2. /\ DOMAIN reads' = Scans /\ DOMAIN hand' = Scans
      /\ \A r \in Scans \ {s} : reads'[r] = reads[r] /\ hand'[r] = hand[r]
      /\ hand'[s] = [hand[s] EXCEPT ![w] = NextFor(s)]
      /\ reads'[s] = [reads[s] EXCEPT !.rows[i] = row, !.cursor = IF @ <= Addresses THEN @ + 1 ELSE @,
                                      !.state = IF Completes(s, w) THEN "ok" ELSE @]
  BY DEF ReadAnswers, ReadsInv
<1>3. /\ DOMAIN reads'[s] = DOMAIN reads[s] /\ reads'[s].began = reads[s].began
      /\ reads'[s].rows = [reads[s].rows EXCEPT ![i] = row]
      /\ reads'[s].cursor = (IF k <= Addresses THEN k + 1 ELSE k)
      /\ reads'[s].state = (IF Completes(s, w) THEN "ok" ELSE reads[s].state)
  BY <1>1, <1>2 DEF ScanTyped
<1>4. i \in 1 .. Addresses /\ hand[s][w] # Rested /\ k \in 1 .. Addresses + 1 /\ i < k /\ Addresses \in Nat
  BY <1>1, HandsRead, ReadPoolConstants DEF Reading, ScanTyped, ScanRows
<1>5. /\ NextFor(s) \in HandType
      /\ k <= Addresses => NextFor(s) # Rested /\ NextFor(s).at = k
      /\ k > Addresses => NextFor(s) = Rested
  BY <1>4, HandsRead DEF NextFor
<1> HIDE DEF i
<1>6. /\ hand'[s] \in [Workers -> HandType] /\ hand'[s][w] = NextFor(s)
      /\ \A v \in Workers \ {w} : hand'[s][v] = hand[s][v] /\ (v \in Reading(s)' <=> v \in Reading(s))
      /\ w \in Reading(s)' <=> k <= Addresses
  BY <1>1, <1>2, <1>4, <1>5 DEF ScanTyped, Reading
<1>7. /\ DOMAIN reads'[s].rows = 1 .. Addresses /\ reads'[s].rows[i] = row
      /\ \A j \in 1 .. Addresses \ {i} : reads'[s].rows[j] = reads[s].rows[j]
  BY <1>1, <1>3, <1>4 DEF ScanTyped
<1>8. ScanTyped(s)'
  BY <1>1, <1>3, <1>4, <1>6, <1>7 DEF ScanTyped
<1>9. \A v \in Reading(s) \ {w} : hand[s][v].at \in 1 .. Addresses \ {i} /\ hand[s][v].at < k
  <2> SUFFICES ASSUME NEW v \in Reading(s) \ {w}
               PROVE  hand[s][v].at \in 1 .. Addresses \ {i} /\ hand[s][v].at < k
    OBVIOUS
  <2>1. hand[s][v] \in HandType \ {Rested}
    BY <1>1 DEF ScanTyped, Reading
  <2>2. hand[s][v].at \in 1 .. Addresses
    BY <2>1, HandsRead
  <2> QED BY <1>1, <2>2 DEF ScanRows, i
<1>10. \A v \in Reading(s)' : \/ v = w /\ k <= Addresses /\ hand'[s][v].at = k
                              \/ v \in Reading(s) \ {w} /\ hand'[s][v].at = hand[s][v].at
  BY <1>5, <1>6 DEF Reading
<1>11. \A v \in Reading(s)' :
         /\ hand'[s][v].at < reads'[s].cursor /\ reads'[s].rows[hand'[s][v].at] = "none"
         /\ \A u \in Reading(s)' : hand'[s][u].at = hand'[s][v].at => u = v
  <2>1. k <= Addresses => reads'[s].rows[k] = "none"
    BY <1>1, <1>4, <1>7 DEF ScanRows
  <2>2. \A v \in Reading(s) \ {w} : reads'[s].rows[hand[s][v].at] = "none"
    BY <1>1, <1>7, <1>9 DEF ScanRows
  <2>3. \A v \in Reading(s)' : hand'[s][v].at < reads'[s].cursor /\ reads'[s].rows[hand'[s][v].at] = "none"
    BY <1>3, <1>4, <1>9, <1>10, <2>1, <2>2
  <2>4. \A u, v \in Reading(s)' : hand'[s][u].at = hand'[s][v].at => u = v
    <3> SUFFICES ASSUME NEW u \in Reading(s)', NEW v \in Reading(s)', hand'[s][u].at = hand'[s][v].at
                 PROVE  u = v
      OBVIOUS
    <3>1. CASE u \in Reading(s) \ {w} /\ v \in Reading(s) \ {w}
      BY <1>1, <1>6, <3>1 DEF ScanRows, Reading
    <3>2. CASE ~ (u \in Reading(s) \ {w} /\ v \in Reading(s) \ {w})
      BY <1>4, <1>9, <1>10, <3>2
    <3> QED BY <3>1, <3>2
  <2> QED BY <2>3, <2>4
<1>12. \A j \in 1 .. Addresses :
         /\ j >= reads'[s].cursor => reads'[s].rows[j] = "none"
         /\ reads'[s].rows[j] = "absent" => j \notin reads'[s].began
  <2>1. row = "absent" => i \notin reads[s].began
    BY <1>1 DEF ScanTyped
  <2> QED BY <1>1, <1>3, <1>4, <1>7, <2>1 DEF ScanRows
<1>13. CASE Completes(s, w)
  <2>1. k > Addresses /\ reads[s].state = "running" /\ Reading(s) = {w} /\ reads'[s].state = "ok"
    BY <1>3, <1>13 DEF Completes
  <2>2. Reading(s)' = {}
    BY <1>4, <1>6, <2>1 DEF Reading
  <2>3. \A j \in 1 .. Addresses : reads'[s].rows[j] # "none"
    <3>1. \A j \in 1 .. Addresses : reads[s].rows[j] # "none" \/ j = i
      BY <1>1, <1>4, <2>1 DEF ScanRows, i
    <3> QED BY <1>7, <3>1
  <2>4. ScanRows(s)'
    BY <1>11, <1>12, <2>1, <2>2, <2>3 DEF ScanRows
  <2> QED BY <1>1, <1>2, <1>8, <2>4, OneScanMoves
<1>14. CASE ~ Completes(s, w)
  <2>1. reads'[s].state = reads[s].state /\ reads[s].state \notin {"idle", "ok"}
    BY <1>1, <1>3, <1>14 DEF ScanRows
  <2>2. ASSUME NEW j \in 1 .. Addresses, reads[s].state = "running", j < reads'[s].cursor
        PROVE  reads'[s].rows[j] # "none" \/ \E v \in Reading(s)' : hand'[s][v].at = j
    <3>1. CASE j = i
      BY <1>7, <3>1
    <3>2. CASE j = k
      BY <1>4, <1>5, <1>6, <3>2
    <3>3. CASE j # i /\ j < k
      <4>1. reads[s].rows[j] # "none" \/ \E v \in Reading(s) : hand[s][v].at = j
        BY <1>1, <2>2, <3>3 DEF ScanRows
      <4>2. \A v \in Reading(s) : hand[s][v].at = j => v # w /\ v \in Reading(s)' /\ hand'[s][v].at = j
        BY <1>6, <3>3 DEF Reading, i
      <4> QED BY <1>7, <3>3, <4>1, <4>2
    <3> QED BY <1>3, <1>4, <2>2, <3>1, <3>2, <3>3
  <2>3. ScanRows(s)'
    BY <1>11, <1>12, <2>1, <2>2 DEF ScanRows
  <2> QED BY <1>1, <1>2, <1>8, <2>3, OneScanMoves
<1> QED BY <1>13, <1>14

LEMMA ReadAgainKept ==
  ASSUME ReadsInv, NEW s \in Scans, NEW w \in Workers, ReadAgain(s, w)
  PROVE  ReadsInv'
<1>1. ScanTyped(s) /\ ScanRows(s) /\ UNCHANGED <<there, reads>> /\ w \in Reading(s) /\ hand[s][w].tries < Attempts
  BY DEF ReadsInv, ReadAgain
<1>2. hand[s][w] \in HandType \ {Rested}
  BY <1>1 DEF ScanTyped, Reading
<1> DEFINE k == [hand[s][w] EXCEPT !.tries = @ + 1]
<1>3. DOMAIN hand' = Scans /\ (\A r \in Scans \ {s} : hand'[r] = hand[r]) /\ hand'[s] = [hand[s] EXCEPT ![w] = k]
  BY <1>1, <1>2, HandsRead DEF ReadAgain, ReadsInv, ScanTyped
<1>4. k.at = hand[s][w].at /\ k \in HandType /\ k # Rested
  <2>1. hand[s][w] \in [at : 1 .. Addresses, tries : 1 .. Attempts]
    BY <1>2 DEF HandType
  <2>2. k \in [at : 1 .. Addresses, tries : 1 .. Attempts] /\ k.at = hand[s][w].at
    BY <1>1, <2>1, ReadPoolConstants
  <2> QED BY <2>2 DEF HandType, Rested
<1> HIDE DEF k
<1>5. hand'[s] \in [Workers -> HandType] /\ \A v \in Workers : hand'[s][v].at = hand[s][v].at /\ (hand'[s][v] # Rested <=> hand[s][v] # Rested)
  BY <1>1, <1>2, <1>3, <1>4 DEF ScanTyped
<1>6. Reading(s)' = Reading(s)
  BY <1>5 DEF Reading
<1>7. ScanTyped(s)' /\ ScanRows(s)'
  BY <1>1, <1>5, <1>6 DEF ScanTyped, ScanRows, Reading
<1> QED BY <1>1, <1>3, <1>7, OneScanMoves DEF ReadsInv

LEMMA ReadFailsKept ==
  ASSUME ReadsInv, NEW s \in Scans, NEW w \in Workers, ReadFails(s, w)
  PROVE  ReadsInv'
<1>1. ScanTyped(s) /\ ScanRows(s) /\ UNCHANGED there /\ w \in Reading(s)
  BY DEF ReadsInv, ReadFails
<1>2. /\ DOMAIN hand' = Scans /\ (\A r \in Scans \ {s} : hand'[r] = hand[r] /\ reads'[r] = reads[r])
      /\ hand'[s] = [hand[s] EXCEPT ![w] = Rested] /\ DOMAIN reads' = Scans
      /\ reads'[s] = [reads[s] EXCEPT !.state = IF @ = "running" THEN "failed" ELSE @]
  BY <1>1 DEF ReadFails, ReadsInv
<1>3. /\ DOMAIN reads'[s] = DOMAIN reads[s] /\ reads'[s].cursor = reads[s].cursor /\ reads'[s].rows = reads[s].rows
      /\ reads'[s].began = reads[s].began /\ reads'[s].state = (IF reads[s].state = "running" THEN "failed" ELSE reads[s].state)
  BY <1>1, <1>2 DEF ScanTyped
<1>4. /\ hand'[s] \in [Workers -> HandType]
      /\ \A v \in Reading(s)' : v \in Reading(s) /\ hand'[s][v] = hand[s][v]
  BY <1>1, <1>2, HandsRead DEF ScanTyped, Reading
<1>5. reads[s].state \notin {"idle", "ok"}
  BY <1>1 DEF ScanRows
<1>6. ScanTyped(s)'
  BY <1>1, <1>3, <1>4 DEF ScanTyped
<1>7. ScanRows(s)'
  BY <1>1, <1>3, <1>4, <1>5 DEF ScanRows
<1> QED BY <1>1, <1>2, <1>6, <1>7, OneScanMoves

LEMMA ScanLeftKept ==
  ASSUME ReadsInv, NEW s \in Scans, ScanLeft(s)
  PROVE  ReadsInv'
<1>1. ScanTyped(s) /\ ScanRows(s) /\ UNCHANGED <<there, hand>> /\ reads[s].state = "running"
  BY DEF ReadsInv, ScanLeft
<1>2. /\ DOMAIN reads' = Scans /\ (\A r \in Scans \ {s} : reads'[r] = reads[r])
      /\ reads'[s] = [reads[s] EXCEPT !.state = "left"]
  BY <1>1 DEF ScanLeft, ReadsInv
<1>3. /\ DOMAIN reads'[s] = DOMAIN reads[s] /\ reads'[s].cursor = reads[s].cursor /\ reads'[s].rows = reads[s].rows
      /\ reads'[s].began = reads[s].began /\ reads'[s].state = "left" /\ Reading(s)' = Reading(s)
  BY <1>1, <1>2 DEF ScanTyped, Reading
<1>4. ScanTyped(s)' /\ ScanRows(s)'
  BY <1>1, <1>3 DEF ScanTyped, ScanRows
<1> QED BY <1>1, <1>2, <1>4, OneScanMoves DEF ReadsInv

LEMMA ReadsStepKeeps ==
  ASSUME ReadsInv, [PoolNext]_poolVars
  PROVE  ReadsInv'
<1>1. CASE UNCHANGED poolVars
  BY <1>1 DEF poolVars, ReadsInv, ScanTyped, ScanRows, Reading
<1>2. CASE \E n \in 1 .. Addresses : OpenAccount(n)
  BY <1>2 DEF OpenAccount, ReadsInv, ScanTyped, ScanRows, Reading
<1>3. CASE \E s \in Scans :
             \/ BeginScan(s) \/ ScanLeft(s)
             \/ \E w \in Workers : ReadAnswers(s, w) \/ ReadAgain(s, w) \/ ReadFails(s, w)
  BY <1>3, BeginScanKept, ScanLeftKept, ReadAnswersKept, ReadAgainKept, ReadFailsKept
<1> QED BY <1>1, <1>2, <1>3 DEF PoolNext

LEMMA ReadsAreSound == ReadsInv => PoolSound
  BY DEF ReadsInv, ScanRows, PoolSound, RowsAreAnswers, EachTakenOnce, LeftBehind

-----------------------------------------------------------------------------
(* The provider's answer, relayed (EdgeWorker) *)

\* What is kept back is enough for a pattern that has all but its last symbol.
LEMMA EnoughRetained ==
  /\ Retained \in Nat
  /\ \A p \in Patterns : p \in Seq(Nat) /\ Len(p) \in Nat \ {0} /\ Len(p) - 1 <= Retained
<1> DEFINE Sizes == {Len(p) : p \in Patterns}
           L == {pair \in Nat \X Nat : pair[1] >= pair[2]}
<1>1. \A p \in Patterns : p \in Seq(Nat) /\ Len(p) \in Nat \ {0}
  <2>1. \A p \in Patterns : p \in Seq(Nat \ {Star}) /\ p # <<>>
    BY EdgeConstants
  <2> QED BY <2>1, SeqMonotonic, EmptySeq
<1>2. Sizes \in SUBSET Nat /\ Sizes # {} /\ IsFiniteSet(Sizes)
  <2>1. IsFiniteSet(Patterns) /\ Patterns # {}
    BY EdgeConstants
  <2>2. [p \in Patterns |-> Len(p)] \in Surjection(Patterns, Sizes)
    BY DEF Surjection
  <2>3. IsFiniteSet(Sizes)
    BY <2>1, <2>2, FS_Surjection
  <2> QED BY <1>1, <2>1, <2>3
<1>3. \A m, n \in Nat : <<m, n>> \in L <=> m >= n
  OBVIOUS
<1>4. \E m \in Sizes : \A q \in Sizes \ {m} : <<m, q>> \in L
  <2>1. \A m, n \in Nat : m = n \/ <<m, n>> \in L \/ <<n, m>> \in L
    OBVIOUS
  <2>2. \A m, n, k \in Nat : <<m, n>> \in L /\ <<n, k>> \in L => <<m, k>> \in L
    OBVIOUS
  <2> HIDE DEF L, Sizes
  <2> QED BY <1>2, <2>1, <2>2, FiniteGreatest
<1> DEFINE top == Max(Sizes)
<1>5. top \in Sizes /\ \A n \in Sizes : top >= n
  <2>1. PICK m \in Sizes : \A q \in Sizes \ {m} : <<m, q>> \in L
    BY <1>4
  <2> HIDE DEF Sizes, L
  <2>2. m \in Nat
    BY <1>2, <2>1
  <2>3. ASSUME NEW q \in Sizes PROVE m >= q
    <3>1. CASE q = m
      BY <2>2, <3>1
    <3>2. CASE q # m
      <4>1. <<m, q>> \in L /\ q \in Nat
        BY <1>2, <2>1, <3>2
      <4> QED BY <1>3, <2>2, <4>1
    <3> QED BY <3>1, <3>2
  <2> QED BY <2>1, <2>3 DEF Max
<1>6. \A p \in Patterns : Len(p) \in Sizes
  OBVIOUS
<1>7. Retained = top - 1
  BY DEF Retained
<1> HIDE DEF Sizes, top, L
<1>8. top \in Nat \ {0}
  <2>1. Patterns # {}
    BY EdgeConstants
  <2>2. PICK p \in Patterns : Len(p) \in Sizes
    BY <1>6, <2>1
  <2> QED BY <1>1, <1>2, <1>5, <2>2
<1> QED BY <1>1, <1>2, <1>5, <1>6, <1>7, <1>8

\* A pattern occurs where its symbols stand.
LEMMA OccursAt ==
  ASSUME NEW p \in Patterns, NEW s \in Seq(Nat), NEW i \in Nat \ {0}
  PROVE  Occurs(p, s, i) <=> i + Len(p) - 1 <= Len(s) /\ \A k \in 1 .. Len(p) : s[i + k - 1] = p[k]
<1>1. p \in Seq(Nat) /\ Len(p) \in Nat \ {0} /\ Len(s) \in Nat
  BY EnoughRetained
<1>2. SUFFICES ASSUME i + Len(p) - 1 <= Len(s)
               PROVE  SubSeq(s, i, i + Len(p) - 1) = p <=> \A k \in 1 .. Len(p) : s[i + k - 1] = p[k]
  BY <1>1 DEF Occurs
<1> DEFINE e == i + Len(p) - 1
           piece == SubSeq(s, i, e)
<1>3. e \in Int /\ i \in Int /\ i <= e /\ e - i + 1 = Len(p)
  BY <1>1
<1>4. \A j \in i .. e : s[j] \in Nat
  BY <1>1, <1>2, <1>3, ElementOfSeq
<1>5. piece \in Seq(Nat) /\ Len(piece) = Len(p) /\ \A k \in 1 .. Len(p) : piece[k] = s[i + k - 1]
  <2> HIDE DEF e
  <2> QED BY <1>3, <1>4, SubSeqProperties
<1> HIDE DEF e
<1> SUFFICES piece = p <=> \A k \in 1 .. Len(p) : s[i + k - 1] = p[k]
  BY DEF e
<1> HIDE DEF piece
<1>6. ASSUME \A k \in 1 .. Len(p) : s[i + k - 1] = p[k] PROVE piece = p
  BY <1>1, <1>5, <1>6, SeqEqual
<1> QED BY <1>5, <1>6

LEMMA CoveredAt ==
  ASSUME NEW s \in Seq(Nat), NEW j
  PROVE  j \in Covered(s) <=> \E p \in Patterns, i \in 1 .. Len(s) : Occurs(p, s, i) /\ j \in i .. i + Len(p) - 1
<1> DEFINE Pairs == {pair \in Patterns \X (1 .. Len(s)) : Occurs(pair[1], s, pair[2])}
<1>1. Covered(s) = UNION {at[2] .. at[2] + Len(at[1]) - 1 : at \in Pairs}
  BY DEF Covered
<1>2. \A pair : pair \in Pairs <=> \E p \in Patterns, i \in 1 .. Len(s) : pair = <<p, i>> /\ Occurs(p, s, i)
  OBVIOUS
<1> HIDE DEF Pairs
<1>3. j \in Covered(s) <=> \E at \in Pairs : j \in at[2] .. at[2] + Len(at[1]) - 1
  BY <1>1
<1>4. ASSUME NEW at \in Pairs, j \in at[2] .. at[2] + Len(at[1]) - 1
      PROVE  \E p \in Patterns, i \in 1 .. Len(s) : Occurs(p, s, i) /\ j \in i .. i + Len(p) - 1
  <2>1. PICK p \in Patterns, i \in 1 .. Len(s) : at = <<p, i>> /\ Occurs(p, s, i)
    BY <1>2
  <2>2. at[1] = p /\ at[2] = i
    BY <2>1
  <2> QED BY <1>4, <2>1, <2>2
<1>5. ASSUME NEW p \in Patterns, NEW i \in 1 .. Len(s), Occurs(p, s, i), j \in i .. i + Len(p) - 1
      PROVE  \E at \in Pairs : j \in at[2] .. at[2] + Len(at[1]) - 1
  <2>1. <<p, i>> \in Pairs /\ <<p, i>>[1] = p /\ <<p, i>>[2] = i
    BY <1>2, <1>5
  <2> QED BY <1>5, <2>1
<1> QED BY <1>3, <1>4, <1>5

LEMMA Redacts ==
  ASSUME NEW s \in Seq(Nat)
  PROVE  /\ redactBytes(s) \in Seq(Nat) /\ Len(redactBytes(s)) = Len(s)
         /\ \A i \in 1 .. Len(s) : redactBytes(s)[i] = IF i \in Covered(s) THEN Star ELSE s[i]
<1> DEFINE place(i) == IF i \in Covered(s) THEN Star ELSE s[i]
<1>1. redactBytes(s) = [i \in 1 .. Len(s) |-> place(i)]
  BY DEF redactBytes
<1>2. Len(s) \in Nat /\ \A i \in 1 .. Len(s) : place(i) \in Nat
  BY ElementOfSeq DEF Star
<1> HIDE DEF place
<1>3. redactBytes(s) \in [1 .. Len(s) -> Nat] /\ \A i \in 1 .. Len(s) : redactBytes(s)[i] = place(i)
  BY <1>1, <1>2
<1>4. redactBytes(s) \in Seq(Nat)
  BY <1>2, <1>3, SeqDef
<1>5. Len(redactBytes(s)) = Len(s)
  BY <1>2, <1>3, <1>4, LenProperties
<1> QED BY <1>3, <1>4, <1>5 DEF place

\* What was sent and what is kept back together: the body as far as it came,
\* marked where a pattern stands, and nowhere a whole pattern.
ToldSoFar(told, body, at) ==
  /\ told \in Seq(Nat) /\ Len(told) = at
  /\ \A j \in 1 .. at : told[j] = body[j] \/ (told[j] = Star /\ j \in Covered(body))
  /\ \A p \in Patterns, i \in 1 .. at : ~ Occurs(p, told, i)

\* The next n symbols are redacted with what was kept back.
LEMMA RelayGoesOn ==
  ASSUME NEW out, NEW pending, NEW body, NEW at \in Nat, NEW n \in Nat
  PROVE  LET window == pending \o SubSeq(body, at + 1, at + n)
         IN  /\ out \in Seq(Nat) /\ pending \in Seq(Nat) /\ body \in Seq(Nat) /\ at + n <= Len(body)
             /\ ToldSoFar(out \o pending, body, at)
             /\ Len(out) > 0 => Len(pending) >= Retained
             => /\ window \in Seq(Nat) /\ Len(window) = Len(pending) + n
                /\ ToldSoFar(out \o redactBytes(window), body, at + n)
<1> DEFINE chunk    == SubSeq(body, at + 1, at + n)
           window   == pending \o chunk
           redacted == redactBytes(window)
           told     == out \o pending
           next     == out \o redacted
<1> DEFINE a == Len(out)
           b == Len(pending)
           w == b + n
<1>1. SUFFICES ASSUME out \in Seq(Nat), pending \in Seq(Nat), body \in Seq(Nat), at + n <= Len(body),
                       ToldSoFar(told, body, at), a > 0 => b >= Retained
                PROVE  window \in Seq(Nat) /\ Len(window) = b + n /\ ToldSoFar(next, body, at + n)
  OBVIOUS
<1>2. a \in Nat /\ b \in Nat /\ Len(body) \in Nat /\ at = a + b /\ at + n <= Len(body) /\ (a > 0 => b >= Retained)
  BY <1>1, ConcatProperties DEF ToldSoFar
<1>3. chunk \in Seq(Nat) /\ Len(chunk) = n /\ \A k \in 1 .. n : chunk[k] = body[at + k]
  <2>1. \A j \in at + 1 .. at + n : body[j] \in Nat
    BY <1>1, ElementOfSeq
  <2>2. /\ SubSeq(body, at + 1, at + n) \in Seq(Nat)
        /\ Len(SubSeq(body, at + 1, at + n)) = IF at + 1 <= at + n THEN at + n - (at + 1) + 1 ELSE 0
        /\ \A k \in 1 .. at + n - (at + 1) + 1 : SubSeq(body, at + 1, at + n)[k] = body[at + 1 + k - 1]
    BY <2>1, SubSeqProperties
  <2> QED BY <2>2
<1>4. /\ window \in Seq(Nat) /\ Len(window) = w
      /\ \A k \in 1 .. w : window[k] = IF k <= b THEN pending[k] ELSE chunk[k - b]
  <2> HIDE DEF chunk
  <2> QED BY <1>2, <1>3, <1>1, ConcatProperties
<1>5. /\ redacted \in Seq(Nat) /\ Len(redacted) = w
      /\ \A k \in 1 .. w : redacted[k] = IF k \in Covered(window) THEN Star ELSE window[k]
  <2> HIDE DEF window, w
  <2> QED BY <1>4, Redacts
<1> HIDE DEF chunk
<1>6. told \in Seq(Nat) /\ Len(told) = at /\ \A j \in 1 .. at : told[j] = IF j <= a THEN out[j] ELSE pending[j - a]
  BY <1>2, <1>1, ConcatProperties
<1>7. /\ next \in Seq(Nat) /\ Len(next) = at + n
      /\ \A j \in 1 .. at + n : next[j] = IF j <= a THEN out[j] ELSE redacted[j - a]
  <2>1. Len(out) + Len(redacted) = at + n
    BY <1>2, <1>5
  <2> HIDE DEF redacted
  <2>2. out \in Seq(Nat) /\ redacted \in Seq(Nat)
    BY <1>5, <1>1
  <2>3. /\ next \in Seq(Nat) /\ Len(next) = Len(out) + Len(redacted)
        /\ \A j \in 1 .. Len(out) + Len(redacted) : next[j] = IF j <= Len(out) THEN out[j] ELSE redacted[j - Len(out)]
    BY <2>2, ConcatProperties
  <2> HIDE DEF next
  <2> QED BY <2>1, <2>3
<1>8. w \in Nat /\ w = b + n /\ at + n = a + w
  BY <1>2
<1> HIDE DEF chunk, window, redacted, told, next, a, b, w
<1>9. window \in Seq(Nat) /\ Len(window) = w
  BY <1>4
<1>10. ASSUME NEW j \in 1 .. a PROVE j \in 1 .. at /\ next[j] = out[j] /\ told[j] = out[j]
  <2>1. j \in 1 .. at /\ j \in 1 .. at + n /\ j <= a
    BY <1>2
  <2>2. next[j] = out[j]
    BY <1>7, <2>1
  <2> QED BY <1>6, <2>1, <2>2
<1>11. ASSUME NEW k \in 1 .. w PROVE next[a + k] = redacted[k]
  <2> DEFINE j == a + k
  <2>1. j \in 1 .. at + n /\ ~ (j <= a) /\ j - a = k
    BY <1>2, <1>8
  <2> HIDE DEF j
  <2>2. next[j] = redacted[j - a]
    BY <1>7, <2>1
  <2> QED BY <2>1, <2>2 DEF j
<1>12. ASSUME NEW k \in 1 .. b PROVE told[a + k] = pending[k] /\ window[k] = pending[k]
  <2> DEFINE j == a + k
  <2>1. j \in 1 .. at /\ ~ (j <= a) /\ j - a = k /\ k \in 1 .. w /\ k <= b
    BY <1>2, <1>8
  <2> HIDE DEF j
  <2>2. told[j] = pending[j - a]
    BY <1>6, <2>1
  <2>3. window[k] = pending[k]
    BY <1>4, <2>1
  <2> QED BY <2>1, <2>2, <2>3 DEF j
\* A symbol of the window is the body's, or was marked before.
<1>13. \A k \in 1 .. w : LET j == a + k IN
        /\ j \in 1 .. at + n
        /\ window[k] = (IF j <= at THEN told[j] ELSE body[j])
        /\ window[k] = body[j] \/ (window[k] = Star /\ j \in Covered(body))
  <2> TAKE k \in 1 .. w
  <2> DEFINE j == a + k
  <2>1. j \in 1 .. at + n /\ j - a = k
    BY <1>2, <1>8
  <2>2. CASE j <= at
    <3>1. k \in 1 .. b /\ j > a /\ j \in 1 .. at
      BY <1>2, <1>8, <2>2
    <3>2. window[k] = pending[k] /\ told[j] = pending[k]
      BY <1>12, <3>1
    <3> QED BY <2>1, <2>2, <3>1, <3>2, <1>1 DEF ToldSoFar
  <2>3. CASE j > at
    <3>1. k - b \in 1 .. n /\ b + (k - b) = k /\ at + (k - b) = j
      BY <1>2, <1>8, <2>1, <2>3
    <3>2. window[k] = body[j]
      <4>1. k \in 1 .. w /\ ~ (k <= b)
        BY <1>2, <1>8, <2>3
      <4>2. window[k] = chunk[k - b]
        BY <1>4, <4>1
      <4>3. chunk[k - b] = body[at + (k - b)]
        BY <1>3, <3>1
      <4> QED BY <3>1, <4>2, <4>3
    <3> QED BY <2>1, <2>3, <3>2
  <2> QED BY <2>1, <2>2, <2>3, <1>2
\* Where a pattern stands in the window, it stands in the body.
<1>14. ASSUME NEW k \in 1 .. w, k \in Covered(window)
      PROVE  a + k \in Covered(body)
  <2>1. PICK p \in Patterns, i \in 1 .. w : Occurs(p, window, i) /\ k \in i .. i + Len(p) - 1
    BY <1>4, <1>14, CoveredAt
  <2>2. Len(p) \in Nat \ {0} /\ p \in Seq(Nat \ {Star})
    BY EnoughRetained, EdgeConstants
  <2>3. i + Len(p) - 1 <= w /\ \A m \in 1 .. Len(p) : window[i + m - 1] = p[m]
    <3>1. window \in Seq(Nat) /\ Len(window) = w /\ i \in Nat \ {0} /\ p \in Patterns /\ Occurs(p, window, i)
      BY <1>4, <2>1
    <3> HIDE DEF window
    <3> QED BY <3>1, OccursAt
  <2> DEFINE i0 == a + i
  <2>4. i0 \in Nat \ {0} /\ i0 \in 1 .. Len(body) /\ i0 + Len(p) - 1 <= Len(body)
    <3>1. i + Len(p) - 1 <= w
      BY <2>3
    <3> QED BY <1>2, <1>8, <2>2, <3>1
  <2>5. ASSUME NEW m \in 1 .. Len(p) PROVE body[i0 + m - 1] = p[m]
    <3>1. i + m - 1 \in 1 .. w /\ a + (i + m - 1) = i0 + m - 1
      BY <1>2, <1>8, <2>2, <2>3
    <3>2. window[i + m - 1] = p[m] /\ p[m] # Star
      <4>1. p[m] \in Nat \ {Star}
        BY <2>2, ElementOfSeq
      <4> QED BY <2>3, <4>1
    <3> QED BY <1>13, <3>1, <3>2
  <2>6. Occurs(p, body, i0)
    BY <1>1, <2>4, <2>5, OccursAt
  <2>7. a + k \in i0 .. i0 + Len(p) - 1
    BY <1>2, <1>8, <2>1, <2>2
  <2> HIDE DEF i0
  <2> QED BY <2>4, <2>6, <2>7, <1>1, CoveredAt
\* What was told stays, but for new marks.
<1>15. \A j \in 1 .. at : next[j] = told[j] \/ next[j] = Star
  <2> TAKE j \in 1 .. at
  <2>1. CASE j <= a
    <3>1. j \in 1 .. a
      BY <1>2, <2>1
    <3> QED BY <1>10, <3>1
  <2>2. CASE j > a
    <3>1. j - a \in 1 .. w /\ a + (j - a) = j
      BY <1>2, <1>8, <2>2
    <3>2. window[j - a] = told[j]
      BY <1>13, <3>1
    <3>3. next[j] = redacted[j - a]
      BY <1>11, <3>1
    <3>4. redacted[j - a] = Star \/ redacted[j - a] = window[j - a]
      BY <1>5, <3>1
    <3> QED BY <3>2, <3>3, <3>4
  <2> QED BY <1>2, <1>8, <2>1, <2>2
<1>16. ASSUME NEW j \in 1 .. at + n
       PROVE  next[j] = body[j] \/ (next[j] = Star /\ j \in Covered(body))
  <2>1. CASE j <= a
    <3>1. j \in 1 .. a
      BY <1>2, <2>1
    <3>2. j \in 1 .. at /\ next[j] = told[j]
      BY <1>10, <3>1
    <3> QED BY <1>1, <3>2 DEF ToldSoFar
  <2>2. CASE j > a
    <3> DEFINE k == j - a
    <3>5. k \in 1 .. w /\ a + k = j
      BY <1>2, <1>8, <2>2
    <3>1. k \in 1 .. w /\ a + k = j /\ next[j] = redacted[k]
      BY <1>11, <3>5
    <3>2. redacted[k] = IF k \in Covered(window) THEN Star ELSE window[k]
      BY <1>5, <3>1
    <3>3. window[k] = body[j] \/ (window[k] = Star /\ j \in Covered(body))
      BY <1>13, <3>1
    <3>4. k \in Covered(window) => j \in Covered(body)
      BY <1>14, <3>1
    <3> QED BY <3>1, <3>2, <3>3, <3>4
  <2> QED BY <1>2, <1>8, <2>1, <2>2
\* A pattern that ends among the old symbols would have been told before; one
\* that ends later starts in the window, because enough was kept back.
<1>17. ASSUME NEW p \in Patterns, NEW i \in 1 .. at + n, Occurs(p, next, i)
       PROVE  FALSE
  <2>1. Len(p) \in Nat \ {0} /\ Len(p) - 1 <= Retained /\ Retained \in Nat /\ p \in Seq(Nat \ {Star})
    BY EnoughRetained, EdgeConstants
  <2>2. i + Len(p) - 1 <= at + n /\ \A m \in 1 .. Len(p) : next[i + m - 1] = p[m]
    <3>1. next \in Seq(Nat) /\ Len(next) = at + n
      BY <1>7
    <3>2. i \in Nat \ {0}
      BY <1>2
    <3> QED BY <1>17, <3>1, <3>2, OccursAt
  <2>3. \A m \in 1 .. Len(p) : p[m] # Star
    BY <2>1, ElementOfSeq
  <2>4. CASE i + Len(p) - 1 <= at
    <3>1. \A m \in 1 .. Len(p) : i + m - 1 \in 1 .. at
      BY <1>2, <1>8, <2>1, <2>4
    <3>2. \A m \in 1 .. Len(p) : told[i + m - 1] = p[m]
      BY <1>15, <2>2, <2>3, <3>1
    <3>3. i \in 1 .. at /\ i \in Nat \ {0}
      BY <1>2, <1>8, <2>1, <2>4
    <3>4. Occurs(p, told, i)
      BY <1>6, <2>4, <3>2, <3>3, OccursAt
    <3> QED BY <1>1, <3>3, <3>4 DEF ToldSoFar
  <2>5. CASE i + Len(p) - 1 > at
    <3> DEFINE k == i - a
    <3>1. k \in 1 .. w /\ a + k = i /\ k + Len(p) - 1 <= w
      BY <1>2, <1>8, <2>1, <2>2, <2>5
    <3>2. ASSUME NEW m \in 1 .. Len(p)
          PROVE  window[k + m - 1] = p[m] /\ redacted[k + m - 1] = p[m]
      <4>1. k + m - 1 \in 1 .. w /\ i + m - 1 > a /\ a + (k + m - 1) = i + m - 1 /\ i + m - 1 \in 1 .. at + n
        BY <1>2, <1>8, <2>1, <2>2, <3>1
      <4>2. redacted[k + m - 1] = p[m]
        BY <1>11, <2>2, <4>1
      <4> QED BY <1>5, <2>3, <4>1, <4>2
    <3>3. Occurs(p, window, k)
      <4>1. k \in Nat \ {0} /\ window \in Seq(Nat) /\ k + Len(p) - 1 <= Len(window)
        BY <1>2, <1>8, <1>9, <3>1
      <4>2. \A m \in 1 .. Len(p) : window[k + m - 1] = p[m]
        BY <3>2
      <4> HIDE DEF k
      <4> QED BY <4>1, <4>2, OccursAt
    <3>4. k \in k .. k + Len(p) - 1
      BY <1>2, <2>1, <3>1
    <3>5. k \in Covered(window)
      BY <1>4, <3>1, <3>3, <3>4, CoveredAt
    <3>6. redacted[k] = Star /\ redacted[k] = p[1]
      <4>1. 1 \in 1 .. Len(p) /\ k + 1 - 1 = k
        BY <1>2, <2>1, <3>1
      <4>2. redacted[k] = p[1]
        BY <3>2, <4>1
      <4> QED BY <1>5, <3>1, <3>5, <4>2
    <3> QED BY <2>1, <2>3, <3>6
  <2> QED BY <1>2, <1>8, <2>1, <2>4, <2>5
<1>18. ToldSoFar(next, body, at + n)
  BY <1>7, <1>16, <1>17 DEF ToldSoFar
<1> QED BY <1>4, <1>18 DEF window, chunk, redacted, next, w, b

StreamEndings == {"none", "closed", "deadline", "broken", "cancelled"}

\* The relay keeps back enough until the body ends, and then nothing.
RelayInv ==
  /\ relay \in [to : SUBSET Visitors, body : Seq(Nat), at : Nat, pending : Seq(Nat), out : Seq(Nat), timer : BOOLEAN, end : StreamEndings]
  /\ relay.at <= Len(relay.body)
  /\ ToldSoFar(relay.out \o relay.pending, relay.body, relay.at)
  /\ relay.end # "closed" /\ Len(relay.out) > 0 => Len(relay.pending) >= Retained
  /\ relay.end = "closed" => relay.pending = <<>> /\ relay.at = Len(relay.body)
  /\ DeadlineFollowsBody

\* The invariant, by the relay's fields.
LEMMA RelayFields ==
  ASSUME NEW to \in SUBSET Visitors, NEW body \in Seq(Nat), NEW at \in Nat, NEW pending \in Seq(Nat), NEW out \in Seq(Nat),
         NEW timer \in BOOLEAN, NEW end \in StreamEndings,
         relay' = [to |-> to, body |-> body, at |-> at, pending |-> pending, out |-> out, timer |-> timer, end |-> end],
         at <= Len(body), ToldSoFar(out \o pending, body, at),
         end # "closed" /\ Len(out) > 0 => Len(pending) >= Retained,
         end = "closed" => pending = <<>> /\ at = Len(body),
         timer <=> to # {} /\ end = "none"
  PROVE  RelayInv'
<1>1. relay'.to = to /\ relay'.body = body /\ relay'.at = at /\ relay'.pending = pending /\ relay'.out = out
      /\ relay'.timer = timer /\ relay'.end = end
  OBVIOUS
<1>2. relay' \in [to : SUBSET Visitors, body : Seq(Nat), at : Nat, pending : Seq(Nat), out : Seq(Nat), timer : BOOLEAN, end : StreamEndings]
  OBVIOUS
<1>3. Retained' = Retained /\ ToldSoFar(relay'.out \o relay'.pending, relay'.body, relay'.at)
  BY <1>1
<1>4. (relay'.timer <=> relay'.to # {} /\ relay'.end = "none")
  BY <1>1
<1> QED BY <1>1, <1>2, <1>3, <1>4 DEF RelayInv, DeadlineFollowsBody

\* The relay is its fields.
LEMMA RelayIs ==
  ASSUME RelayInv
  PROVE  relay = [to |-> relay.to, body |-> relay.body, at |-> relay.at, pending |-> relay.pending, out |-> relay.out,
                  timer |-> relay.timer, end |-> relay.end]
  BY DEF RelayInv

\* Before anything is read, nothing was told.
LEMMA NothingTold ==
  ASSUME NEW body \in Seq(Nat)
  PROVE  ToldSoFar(<<>> \o <<>>, body, 0)
<1>1. <<>> \in Seq(Nat) /\ Len(<<>>) = 0 /\ <<>> \o <<>> = <<>>
  BY EmptySeq, ConcatEmptySeq
<1> QED BY <1>1 DEF ToldSoFar

LEMMA StreamBeginsKept ==
  ASSUME RelayInv, NEW v \in Visitors, NEW body \in Bodies, UpstreamStreams(v, body)
  PROVE  RelayInv'
<1>1. body \in Seq(Nat)
  BY EdgeConstants
<1>2. relay' = [to |-> {v}, body |-> body, at |-> 0, pending |-> <<>>, out |-> <<>>, timer |-> TRUE, end |-> "none"]
  BY DEF UpstreamStreams, NoRelay
<1>3. ToldSoFar(<<>> \o <<>>, body, 0)
  BY <1>1, NothingTold
<1>4. <<>> \in Seq(Nat) /\ Len(<<>>) = 0 /\ Len(body) \in Nat /\ {v} \in SUBSET Visitors /\ {v} # {} /\ "none" \in StreamEndings
  BY <1>1, EmptySeq DEF StreamEndings
<1>5. 0 <= Len(body) /\ ~ (Len(<<>>) > 0) /\ "none" # "closed" /\ (TRUE <=> {v} # {} /\ "none" = "none")
  BY <1>4
<1> DEFINE empty == <<>>
           to    == {v}
<1>6. /\ relay' = [to |-> to, body |-> body, at |-> 0, pending |-> empty, out |-> empty, timer |-> TRUE, end |-> "none"]
      /\ ToldSoFar(empty \o empty, body, 0) /\ empty \in Seq(Nat) /\ to \in SUBSET Visitors /\ to # {} /\ ~ (Len(empty) > 0)
  BY <1>2, <1>3, <1>4, <1>5
<1> HIDE DEF empty, to
<1> QED BY <1>1, <1>4, <1>5, <1>6, RelayFields

LEMMA ThreePieces ==
  \A s, t, u \in Seq(Nat) : (s \o t) \o u = s \o (t \o u)
BY ConcatAssociative

LEMMA ChunkKept ==
  ASSUME RelayInv, NEW n \in 1 .. 2, Chunk(n)
  PROVE  RelayInv'
<1> DEFINE out      == relay.out
           pending  == relay.pending
           body     == relay.body
           at       == relay.at
           window   == pending \o SubSeq(body, at + 1, at + n)
           redacted == redactBytes(window)
           emit     == IF Len(redacted) > Retained THEN Len(redacted) - Retained ELSE 0
           sent     == SubSeq(redacted, 1, emit)
           keeps    == SubSeq(redacted, emit + 1, Len(redacted))
<1>1. /\ relay.to \in SUBSET Visitors /\ body \in Seq(Nat) /\ at \in Nat /\ pending \in Seq(Nat) /\ out \in Seq(Nat)
      /\ relay.timer \in BOOLEAN /\ relay.end \in StreamEndings
  BY DEF RelayInv
<1>2. /\ relay.to # {} /\ relay.end = "none" /\ at + n <= Len(body) /\ n \in Nat
      /\ ToldSoFar(out \o pending, body, at) /\ (Len(out) > 0 => Len(pending) >= Retained)
      /\ (relay.timer <=> relay.to # {} /\ relay.end = "none")
  BY DEF Chunk, RelayInv, DeadlineFollowsBody
<1>3. relay' = [relay EXCEPT !.at = @ + n, !.pending = keeps, !.out = @ \o sent]
  BY DEF Chunk
<1>4. relay' = [to |-> relay.to, body |-> body, at |-> at + n, pending |-> keeps, out |-> out \o sent,
                timer |-> relay.timer, end |-> relay.end]
  <2> HIDE DEF sent, keeps
  <2> QED BY <1>3, RelayIs
<1>5. window \in Seq(Nat) /\ ToldSoFar(out \o redacted, body, at + n)
  <2> HIDE DEF out, pending, body, at
  <2> QED BY <1>1, <1>2, RelayGoesOn
<1> HIDE DEF window, out, pending, body, at
<1>6. redacted \in Seq(Nat) /\ Len(redacted) \in Nat
  BY <1>5, Redacts
<1>7. Retained \in Nat
  BY EnoughRetained
<1> HIDE DEF redacted
<1>8. emit \in 0 .. Len(redacted) /\ (emit > 0 => Len(redacted) - emit = Retained)
  BY <1>6, <1>7
<1> HIDE DEF emit
<1>9. /\ sent \in Seq(Nat) /\ Len(sent) = emit
      /\ keeps \in Seq(Nat) /\ Len(keeps) = Len(redacted) - emit
  <2>1. \A i \in 1 .. emit : redacted[i] \in Nat
    BY <1>6, <1>8, ElementOfSeq
  <2>2. \A i \in emit + 1 .. Len(redacted) : redacted[i] \in Nat
    BY <1>6, <1>8, ElementOfSeq
  <2>3. sent \in Seq(Nat) /\ Len(sent) = IF 1 <= emit THEN emit - 1 + 1 ELSE 0
    BY <1>8, <2>1, SubSeqProperties
  <2>4. keeps \in Seq(Nat) /\ Len(keeps) = IF emit + 1 <= Len(redacted) THEN Len(redacted) - (emit + 1) + 1 ELSE 0
    <3>1. emit + 1 \in Int /\ Len(redacted) \in Int
      BY <1>6, <1>8
    <3> QED BY <2>2, <3>1, SubSeqProperties
  <2> HIDE DEF sent, keeps
  <2> QED BY <1>6, <1>8, <2>3, <2>4
<1>10. sent \o keeps = redacted
  <2>1. SubSeq(redacted, 1, emit) \o SubSeq(redacted, emit + 1, Len(redacted)) = SubSeq(redacted, 1, Len(redacted))
    <3>1. 1 \in 1 .. Len(redacted) + 1 /\ emit \in 1 - 1 .. Len(redacted) /\ Len(redacted) \in emit .. Len(redacted)
      BY <1>6, <1>8
    <3> QED BY <1>6, <3>1, ConcatAdjacentSubSeq
  <2> QED BY <1>6, <2>1, SubSeqFull
<1> HIDE DEF sent, keeps
<1>11. out \o sent \in Seq(Nat) /\ (out \o sent) \o keeps = out \o redacted /\ Len(out \o sent) = Len(out) + emit
  <2>1. out \o sent \in Seq(Nat) /\ Len(out \o sent) = Len(out) + Len(sent)
    BY <1>1, <1>9, ConcatProperties
  <2>2. (out \o sent) \o keeps = out \o (sent \o keeps)
    <3>1. out \in Seq(Nat) /\ sent \in Seq(Nat) /\ keeps \in Seq(Nat)
      BY <1>1, <1>9
    <3> QED BY <3>1, ThreePieces
  <2> QED BY <1>9, <1>10, <2>1, <2>2
\* What is sent is all but what is kept back.
<1>12. Len(out \o sent) > 0 => Len(keeps) >= Retained
  <2>1. CASE emit > 0
    BY <1>7, <1>8, <1>9, <2>1
  <2>2. CASE emit = 0
    <3>1. Len(redacted) = Len(pending) + n /\ Len(pending) \in Nat /\ Len(out) \in Nat
      <4>1. Len(window) = Len(pending) + n
        <5>1. window = pending \o SubSeq(body, at + 1, at + n)
          BY DEF window
        <5> QED BY <1>1, <1>2, <5>1, RelayGoesOn
      <4> QED BY <1>1, <1>5, <4>1, Redacts DEF redacted
    <3> QED BY <1>2, <1>7, <1>9, <1>11, <2>2, <3>1
  <2> QED BY <1>6, <1>8, <2>1, <2>2
<1>13. at + n \in Nat /\ relay.end # "closed"
  BY <1>1, <1>2
<1> QED BY <1>1, <1>2, <1>4, <1>5, <1>9, <1>11, <1>12, <1>13, RelayFields

LEMMA StreamEndsKept ==
  ASSUME RelayInv, StreamEnds
  PROVE  RelayInv'
<1> DEFINE out     == relay.out
           pending == relay.pending
           body    == relay.body
           at      == relay.at
<1>1. /\ relay.to \in SUBSET Visitors /\ body \in Seq(Nat) /\ at \in Nat /\ pending \in Seq(Nat) /\ out \in Seq(Nat)
      /\ relay.to # {} /\ relay.end = "none" /\ at = Len(body)
      /\ ToldSoFar(out \o pending, body, at) /\ (Len(out) > 0 => Len(pending) >= Retained)
  BY DEF StreamEnds, RelayInv
<1>2. relay' = [to |-> relay.to, body |-> body, at |-> at, pending |-> <<>>, out |-> out \o redactBytes(pending),
                timer |-> FALSE, end |-> "closed"]
  BY RelayIs DEF StreamEnds
<1> HIDE DEF out, pending, body, at
<1>3. ToldSoFar(out \o redactBytes(pending), body, at)
  <2>1. SubSeq(body, at + 1, at + 0) = <<>>
    BY <1>1, SubSeqEmpty
  <2>2. pending \o SubSeq(body, at + 1, at + 0) = pending
    BY <1>1, <2>1, ConcatEmptySeq
  <2>3. at + 0 <= Len(body) /\ 0 \in Nat /\ at + 0 = at
    BY <1>1
  <2>4. ToldSoFar(out \o redactBytes(pending \o SubSeq(body, at + 1, at + 0)), body, at + 0)
    BY <1>1, <2>3, RelayGoesOn
  <2> QED BY <2>2, <2>3, <2>4
<1>4. out \o redactBytes(pending) \in Seq(Nat) /\ <<>> \in Seq(Nat)
  BY <1>1, Redacts, ConcatProperties, EmptySeq
<1>5. (out \o redactBytes(pending)) \o <<>> = out \o redactBytes(pending)
  BY <1>4, ConcatEmptySeq
<1>6. "closed" \in StreamEndings /\ at <= Len(body)
  BY <1>1 DEF StreamEndings
<1> QED BY <1>1, <1>2, <1>3, <1>4, <1>5, <1>6, RelayFields

LEMMA StreamBreaksKept ==
  ASSUME RelayInv, StreamBreaks
  PROVE  RelayInv'
<1>1. PICK why \in {"deadline", "broken", "cancelled"} : relay' = [relay EXCEPT !.timer = FALSE, !.end = why]
  BY DEF StreamBreaks
<1>2. relay' = [to |-> relay.to, body |-> relay.body, at |-> relay.at, pending |-> relay.pending, out |-> relay.out,
                timer |-> FALSE, end |-> why]
  BY <1>1, RelayIs
<1>3. relay.end = "none" /\ why \in StreamEndings /\ why # "none" /\ why # "closed"
  BY <1>1 DEF StreamEndings, StreamBreaks
<1> QED BY <1>2, <1>3, RelayFields DEF RelayInv

\* What a visitor was told is free of the endpoint's patterns.
LEMMA RelayIsFaithful == RelayInv => RelayedFaithfully /\ DeadlineFollowsBody
<1> SUFFICES ASSUME RelayInv PROVE RelayedFaithfully /\ DeadlineFollowsBody
  OBVIOUS
<1> DEFINE seen    == relay.out
           pending == relay.pending
           told    == seen \o pending
           body    == relay.body
           at      == relay.at
<1>1. seen \in Seq(Nat) /\ pending \in Seq(Nat) /\ ToldSoFar(told, body, at) /\ Len(seen) \in Nat /\ Len(pending) \in Nat
      /\ Len(told) = Len(seen) + Len(pending) /\ told \in Seq(Nat)
  BY ConcatProperties DEF RelayInv
<1>2. Len(told) = at /\ \A i \in 1 .. Len(told) : told[i] = body[i] \/ (told[i] = Star /\ i \in Covered(body))
  BY <1>1 DEF ToldSoFar
<1>3. relay.end = "closed" => Len(seen) = Len(body)
  <2>1. relay.end = "closed" => pending = <<>> /\ at = Len(body)
    BY DEF RelayInv
  <2>2. pending = <<>> => Len(pending) = 0
    BY EmptySeq
  <2> HIDE DEF seen, pending, told, at
  <2> QED BY <1>1, <1>2, <2>1, <2>2
<1>4. ASSUME NEW p \in Patterns, NEW i \in 1 .. Len(seen), Occurs(p, seen, i)
      PROVE  FALSE
  <2> HIDE DEF seen, pending, told, body, at
  <2>1. i + Len(p) - 1 <= Len(seen) /\ \A m \in 1 .. Len(p) : seen[i + m - 1] = p[m]
    BY <1>1, <1>4, OccursAt
  <2>2. Len(p) \in Nat \ {0}
    BY EnoughRetained
  <2>3. ASSUME NEW m \in 1 .. Len(p) PROVE told[i + m - 1] = p[m]
    <3> DEFINE j == i + m - 1
    <3>1. j \in 1 .. Len(seen)
      <4>1. i + Len(p) - 1 <= Len(seen) /\ i \in Nat \ {0} /\ Len(seen) \in Nat /\ m \in 1 .. Len(p)
        BY <1>1, <2>1
      <4> QED BY <2>2, <4>1
    <3> HIDE DEF j
    <3>2. told[j] = seen[j]
      <4>1. j \in 1 .. Len(seen) + Len(pending) /\ j <= Len(seen)
        BY <1>1, <3>1
      <4> QED BY <1>1, <4>1, ConcatProperties DEF told
    <3>3. seen[j] = p[m]
      BY <2>1 DEF j
    <3> QED BY <3>2, <3>3 DEF j
  <2>4. i \in 1 .. at /\ i + Len(p) - 1 <= Len(told)
    BY <1>1, <1>2, <2>1
  <2>5. Occurs(p, told, i)
    <3>1. i \in Nat \ {0} /\ told \in Seq(Nat)
      BY <1>1
    <3>2. \A m \in 1 .. Len(p) : told[i + m - 1] = p[m]
      BY <2>3
    <3> QED BY <2>4, <3>1, <3>2, OccursAt
  <2> QED BY <1>1, <2>4, <2>5 DEF ToldSoFar
<1> QED BY <1>2, <1>3, <1>4 DEF RelayedFaithfully, RelayInv

-----------------------------------------------------------------------------
(* What a request paid (EdgeWorker) *)

VisitPhases == {"new", "take", "forward", "answered"}
FromUpstream == {"relayed", "502", "504", "status"}
Declined == {"none", "308", "asset", "403", "405", "503", "413", "400", "429", "community"}
Asks == {<<>>} \cup {<<q>> : q \in Visits}
VisitType == [phase : VisitPhases, ask : Asks, taken : Nat, due : Nat, answer : FromUpstream \cup Declined]

\* What is forwarded is a request that is wholly paid for, and to the provider
\* a batch of acceptable calls.
WhollyPaid(k) ==
  \E q \in Visits :
    /\ k.ask = <<q>>
    /\ k.taken = IF q.path = "rpc" THEN Cost(q.calls) ELSE 1
    /\ q.path = "rpc" => Acceptable(q.calls)

\* The first unit is taken for the visit, the others for a batch that the
\* checks let pass, of which the rest is due.
Owes(k) ==
  \E q \in Visits :
    /\ k.ask = <<q>> /\ k.due \in Nat \ {0}
    /\ \/ k.taken = 0 /\ k.due = 1
       \/ /\ q.path = "rpc" /\ RpcRefusal(q) = "none"
          /\ k.taken > 0 /\ k.taken + k.due = Cost(q.calls)

VisitOk(k) ==
  /\ k \in VisitType
  /\ k.phase = "new" => k.taken = 0
  /\ k.phase \in {"new", "take"} => k.answer = "none"
  /\ k.phase = "take" => Owes(k)
  /\ k.phase = "forward" \/ k.answer \in FromUpstream => WhollyPaid(k)

EdgeInv ==
  /\ DOMAIN visit = Visitors /\ \A v \in Visitors : VisitOk(visit[v])
  /\ RelayInv

\* A batch that no check refuses is not empty and costs something.
LEMMA UnrefusedCosts ==
  ASSUME NEW q \in Visits, RpcRefusal(q) = "none"
  PROVE  Acceptable(q.calls) /\ Cost(q.calls) \in Nat \ {0}
<1>1. q.calls # <<>> /\ Acceptable(q.calls)
  BY DEF RpcRefusal
<1> QED BY <1>1, EdgeConstants

\* One visitor's request goes on.
LEMMA OneVisitMoves ==
  ASSUME EdgeInv, NEW v \in Visitors, NEW k, Continues(v, k), UNCHANGED deployment, VisitOk(k), RelayInv'
  PROVE  EdgeInv'
<1>1. DOMAIN visit' = Visitors /\ \A w \in Visitors : visit'[w] = IF w = v THEN k ELSE visit[w]
  BY DEF EdgeInv, Continues
<1>2. \A w \in Visitors : VisitOk(visit'[w])
  BY <1>1 DEF EdgeInv
<1>3. \A w \in Visitors : VisitOk(visit[w])'
  BY <1>2 DEF VisitOk, Owes, RpcRefusal
<1> QED BY <1>1, <1>3 DEF EdgeInv

LEMMA RelayStays ==
  ASSUME EdgeInv, UNCHANGED relay
  PROVE  RelayInv'
BY DEF EdgeInv, RelayInv, DeadlineFollowsBody

\* A request is answered.
LEMMA VisitAnswered ==
  ASSUME EdgeInv, NEW v \in Visitors, NEW answer \in FromUpstream \cup Declined, Replies(v, answer), UNCHANGED deployment, RelayInv',
         answer \in FromUpstream => WhollyPaid(visit[v])
  PROVE  EdgeInv'
<1> DEFINE k == visit[v]
           n == [k EXCEPT !.phase = "answered", !.answer = answer]
<1>1. VisitOk(k)
  BY DEF EdgeInv
<1>2. n \in [phase : {"answered"}, ask : {k.ask}, taken : {k.taken}, due : {k.due}, answer : {answer}]
      /\ k.ask \in Asks /\ k.taken \in Nat /\ k.due \in Nat
  BY <1>1 DEF VisitOk, VisitType
<1>3. Continues(v, n)
  BY DEF Replies
<1> HIDE DEF n, k
<1>4. n.phase = "answered" /\ n.ask = k.ask /\ n.taken = k.taken /\ n.answer = answer
  BY <1>2
<1>5. n \in VisitType
  BY <1>2 DEF VisitPhases, VisitType
<1>6. n.answer \in FromUpstream => WhollyPaid(n)
  BY <1>4 DEF WhollyPaid, k
<1> QED BY <1>3, <1>4, <1>5, <1>6, OneVisitMoves DEF VisitOk

LEMMA ArriveKept ==
  ASSUME EdgeInv, NEW v \in Visitors, NEW q \in Visits, Arrive(v, q)
  PROVE  EdgeInv'
<1> DEFINE k == visit[v]
           come == [k EXCEPT !.ask = <<q>>]
           said(answer) == [come EXCEPT !.phase = "answered", !.answer = answer]
           take == [come EXCEPT !.phase = "take", !.due = 1]
<1>1. VisitOk(k) /\ k.phase = "new" /\ UNCHANGED <<deployment, relay>> /\ RelayInv'
  BY RelayStays DEF EdgeInv, Arrive
<1>2. k.taken = 0 /\ k.answer = "none" /\ k.due \in Nat
      /\ k \in [phase : {k.phase}, ask : {k.ask}, taken : {0}, due : {k.due}, answer : {"none"}]
  BY <1>1 DEF VisitOk, VisitType
<1>3. \/ Continues(v, said("308")) \/ Continues(v, said("asset")) \/ Continues(v, said("403"))
      \/ Continues(v, take)
  BY DEF Arrive
<1>4. ASSUME NEW a \in {"308", "asset", "403"} PROVE VisitOk(said(a))
  <2>1. said(a) \in [phase : {"answered"}, ask : {<<q>>}, taken : {0}, due : {k.due}, answer : {a}]
    BY <1>2
  <2>2. a \in Declined /\ a \notin FromUpstream
    BY DEF FromUpstream, Declined
  <2> DEFINE n == said(a)
  <2> HIDE DEF said
  <2>3. n.phase = "answered" /\ n.answer = a
    BY <2>1
  <2>4. n \in VisitType
    BY <1>2, <2>1, <2>2 DEF VisitPhases, VisitType, Asks
  <2> QED BY <2>2, <2>3, <2>4 DEF VisitOk
<1>5. VisitOk(take)
  <2>1. take \in [phase : {"take"}, ask : {<<q>>}, taken : {0}, due : {1}, answer : {"none"}]
    BY <1>2
  <2> HIDE DEF take
  <2>2. take.phase = "take" /\ take.answer = "none" /\ take.ask = <<q>> /\ take.taken = 0 /\ take.due = 1
    BY <2>1
  <2>3. take \in VisitType
    BY <2>1 DEF VisitPhases, VisitType, Asks, Declined
  <2>4. Owes(take)
    BY <2>2 DEF Owes
  <2> QED BY <2>2, <2>3, <2>4 DEF VisitOk, FromUpstream
<1> HIDE DEF said, take
<1> QED BY <1>1, <1>3, <1>4, <1>5, OneVisitMoves

\* The record after a granted unit.
AfterUnit(k, phase, due, answer) ==
  [phase |-> phase, ask |-> k.ask, taken |-> k.taken + 1, due |-> due, answer |-> answer]

LEMMA TakenOn ==
  ASSUME NEW k \in VisitType, NEW phase \in VisitPhases, NEW due \in Nat, NEW answer \in FromUpstream \cup Declined
  PROVE  LET n == AfterUnit(k, phase, due, answer)
         IN  n \in VisitType /\ n.phase = phase /\ n.ask = k.ask /\ n.taken = k.taken + 1 /\ n.due = due /\ n.answer = answer
<1>1. k.ask \in Asks /\ k.taken + 1 \in Nat
  BY DEF VisitType
<1> QED BY <1>1 DEF AfterUnit, VisitType

LEMMA AfterUnitForms ==
  ASSUME NEW k \in VisitType, k.phase = "take", k.answer = "none", NEW due, NEW phase, NEW answer
  PROVE  LET paid == [k EXCEPT !.taken = @ + 1, !.due = 0]
         IN  /\ [paid EXCEPT !.phase = phase, !.answer = answer]
                   \in [phase : {phase}, ask : {k.ask}, taken : {k.taken + 1}, due : {0}, answer : {answer}]
             /\ [paid EXCEPT !.due = due] = AfterUnit(k, "take", due, "none")
             /\ [paid EXCEPT !.phase = phase] = AfterUnit(k, phase, 0, "none")
<1> DEFINE paid == [k EXCEPT !.taken = @ + 1, !.due = 0]
           ask  == k.ask
           taken == k.taken + 1
<1>1. k = [phase |-> "take", ask |-> ask, taken |-> k.taken, due |-> k.due, answer |-> "none"]
  BY DEF VisitType
<1>2. paid = [phase |-> "take", ask |-> ask, taken |-> taken, due |-> 0, answer |-> "none"]
  <2>1. paid \in [phase : {"take"}, ask : {ask}, taken : {taken}, due : {0}, answer : {"none"}]
    BY DEF VisitType
  <2> HIDE DEF paid, ask, taken
  <2> QED BY <2>1
<1> HIDE DEF paid, ask, taken
<1>3. [paid EXCEPT !.phase = phase, !.answer = answer]
        \in [phase : {phase}, ask : {ask}, taken : {taken}, due : {0}, answer : {answer}]
  BY <1>2
<1>4. [paid EXCEPT !.due = due] = [phase |-> "take", ask |-> ask, taken |-> taken, due |-> due, answer |-> "none"]
  BY <1>2
<1>5. [paid EXCEPT !.phase = phase] = [phase |-> phase, ask |-> ask, taken |-> taken, due |-> 0, answer |-> "none"]
  BY <1>2
<1> QED BY <1>3, <1>4, <1>5 DEF AfterUnit, ask, taken, paid

LEMMA GrantedOk ==
  ASSUME NEW v \in Visitors, VisitOk(visit[v]), visit[v].phase = "take", visit[v].due <= 1, NEW q, visit[v].ask = <<q>>
  PROVE  VisitOk(Granted(v, q))
<1> DEFINE k == visit[v]
           after(phase, due, answer) == AfterUnit(k, phase, due, answer)
           paid == [k EXCEPT !.taken = @ + 1, !.due = 0]
<1>1. /\ q \in Visits /\ k.due = 1 /\ k.taken \in Nat /\ k.answer = "none"
      /\ \/ k.taken = 0
         \/ q.path = "rpc" /\ RpcRefusal(q) = "none" /\ k.taken > 0 /\ k.taken + 1 = Cost(q.calls)
  <2>1. Owes(k) /\ k.taken \in Nat /\ k.due \in Nat /\ k.answer = "none"
    BY DEF VisitOk, VisitType
  <2>2. PICK p \in Visits : /\ k.ask = <<p>> /\ k.due \in Nat \ {0}
                            /\ \/ k.taken = 0 /\ k.due = 1
                               \/ /\ p.path = "rpc" /\ RpcRefusal(p) = "none"
                                  /\ k.taken > 0 /\ k.taken + k.due = Cost(p.calls)
    BY <2>1 DEF Owes
  <2>3. p = q /\ k.due = 1
    BY <2>1, <2>2
  <2> QED BY <2>1, <2>2, <2>3
<1>2. k \in VisitType /\ k.phase = "take" /\ "none" \in FromUpstream \cup Declined
  BY DEF VisitOk, Declined
\* The forms of the record that Granted makes.
<1>3. {"answered", "take", "forward"} \subseteq VisitPhases /\ 0 \in Nat
  BY DEF VisitPhases
<1>4. k.answer = "none" /\ k \in VisitType /\ k.phase = "take"
  BY <1>1, <1>2
<1> HIDE DEF k
<1>5. [paid EXCEPT !.due = DueAfterFirst(q)] = after("take", DueAfterFirst(q), "none")
  BY <1>4, AfterUnitForms DEF paid
<1>6. [paid EXCEPT !.phase = "forward"] = after("forward", 0, "none")
  BY <1>4, AfterUnitForms DEF paid
\* A refusal, or the answer of the community pages.
<1>7. ASSUME NEW a \in Declined
      PROVE  VisitOk([paid EXCEPT !.phase = "answered", !.answer = a])
  <2> DEFINE n == [paid EXCEPT !.phase = "answered", !.answer = a]
  <2>1. n \in [phase : {"answered"}, ask : {k.ask}, taken : {k.taken + 1}, due : {0}, answer : {a}]
    BY <1>4, AfterUnitForms DEF paid
  <2>2. k.ask \in Asks /\ k.taken + 1 \in Nat
    BY <1>2 DEF VisitType
  <2> HIDE DEF n
  <2>3. n.phase = "answered" /\ n.answer = a /\ n \in VisitType
    BY <1>7, <1>3, <2>1, <2>2 DEF VisitType
  <2>4. VisitOk(n)
    BY <1>7, <2>3 DEF VisitOk, FromUpstream, Declined
  <2> QED BY <2>4 DEF n
\* The rest of a batch is due.
<1>8. ASSUME q.path = "rpc", RpcRefusal(q) = "none", k.taken = 0, DueAfterFirst(q) > 0
      PROVE  VisitOk([paid EXCEPT !.due = DueAfterFirst(q)])
  <2>1. Cost(q.calls) \in Nat \ {0} /\ DueAfterFirst(q) \in Nat \ {0} /\ 1 + DueAfterFirst(q) = Cost(q.calls)
    BY <1>1, <1>8, UnrefusedCosts DEF DueAfterFirst
  <2> DEFINE n == after("take", DueAfterFirst(q), "none")
  <2>2. /\ n \in VisitType
        /\ n.phase = "take" /\ n.ask = <<q>> /\ n.taken = k.taken + 1 /\ n.due = DueAfterFirst(q) /\ n.answer = "none"
    <3>1. k \in VisitType /\ "take" \in VisitPhases /\ DueAfterFirst(q) \in Nat /\ "none" \in FromUpstream \cup Declined
      BY <1>2, <1>3, <2>1
    <3>2. /\ n \in VisitType /\ n.phase = "take" /\ n.ask = k.ask /\ n.taken = k.taken + 1
          /\ n.due = DueAfterFirst(q) /\ n.answer = "none"
      BY <3>1, TakenOn
    <3>3. k.ask = <<q>>
      BY DEF k
    <3> QED BY <3>2, <3>3
  <2> HIDE DEF n
  <2>3. Owes(n)
    BY <1>1, <1>8, <2>1, <2>2 DEF Owes
  <2>4. VisitOk(n)
    BY <2>2, <2>3 DEF VisitOk, FromUpstream
  <2> QED BY <1>5, <2>4 DEF n
\* What is forwarded.
<1>9. ASSUME k.taken + 1 = IF q.path = "rpc" THEN Cost(q.calls) ELSE 1, q.path = "rpc" => Acceptable(q.calls)
      PROVE  VisitOk([paid EXCEPT !.phase = "forward"])
  <2> DEFINE n == after("forward", 0, "none")
  <2>1. /\ n \in VisitType
        /\ n.phase = "forward" /\ n.ask = <<q>> /\ n.taken = k.taken + 1 /\ n.answer = "none"
    <3>1. k \in VisitType /\ "forward" \in VisitPhases /\ 0 \in Nat /\ "none" \in FromUpstream \cup Declined
      BY <1>2, <1>3
    <3>2. /\ n \in VisitType /\ n.phase = "forward" /\ n.ask = k.ask /\ n.taken = k.taken + 1
          /\ n.due = 0 /\ n.answer = "none"
      BY <3>1, TakenOn
    <3>3. k.ask = <<q>>
      BY DEF k
    <3> QED BY <3>2, <3>3
  <2> HIDE DEF n
  <2>2. WhollyPaid(n)
    BY <1>1, <1>9, <2>1 DEF WhollyPaid
  <2>3. VisitOk(n)
    BY <2>1, <2>2 DEF VisitOk
  <2> QED BY <1>6, <2>3 DEF n
<1>10. CASE q.path = "rpc" /\ RpcRefusal(q) # "none"
  <2>1. RpcRefusal(q) \in {"405", "503", "413", "400"}
    BY <1>10 DEF RpcRefusal
  <2>2. RpcRefusal(q) \in Declined
    BY <2>1 DEF FromUpstream, Declined
  <2>3. Granted(v, q) = [paid EXCEPT !.phase = "answered", !.answer = RpcRefusal(q)]
    BY <1>10 DEF Granted, paid, k
  <2> QED BY <1>7, <2>2, <2>3
<1>11. CASE q.path = "rpc" /\ RpcRefusal(q) = "none" /\ k.taken = 0 /\ DueAfterFirst(q) > 0
  <2>1. Granted(v, q) = [paid EXCEPT !.due = DueAfterFirst(q)]
    BY <1>11 DEF Granted, paid, k
  <2> QED BY <1>8, <1>11, <2>1
<1>12. CASE q.path = "rpc" /\ RpcRefusal(q) = "none" /\ ~ (k.taken = 0 /\ DueAfterFirst(q) > 0)
  <2>1. Granted(v, q) = [paid EXCEPT !.phase = "forward"]
    BY <1>12 DEF Granted, paid, k
  <2>2. Acceptable(q.calls) /\ Cost(q.calls) \in Nat \ {0}
    BY <1>1, <1>12, UnrefusedCosts
  <2>3. k.taken + 1 = Cost(q.calls)
    BY <1>1, <1>12, <2>2 DEF DueAfterFirst
  <2> QED BY <1>9, <1>12, <2>1, <2>2, <2>3
<1>13. CASE q.path # "rpc"
  <2>1. \/ \E a \in {"community", "405", "503"} : Granted(v, q) = [paid EXCEPT !.phase = "answered", !.answer = a]
        \/ Granted(v, q) = [paid EXCEPT !.phase = "forward"]
    BY <1>13 DEF Granted, paid, k
  <2>2. \A a \in {"community", "405", "503"} : a \in Declined
    BY DEF FromUpstream, Declined
  <2>3. k.taken + 1 = 1
    BY <1>1, <1>13
  <2>4. CASE \E a \in {"community", "405", "503"} : Granted(v, q) = [paid EXCEPT !.phase = "answered", !.answer = a]
    BY <1>7, <2>2, <2>4
  <2>5. CASE Granted(v, q) = [paid EXCEPT !.phase = "forward"]
    BY <1>9, <1>13, <2>3, <2>5
  <2> QED BY <2>1, <2>4, <2>5
<1> QED BY <1>10, <1>11, <1>12, <1>13

LEMMA TakeUnitKept ==
  ASSUME EdgeInv, NEW v \in Visitors, TakeUnit(v)
  PROVE  EdgeInv'
<1> DEFINE k == visit[v]
<1>1. VisitOk(k) /\ k.phase = "take" /\ UNCHANGED <<deployment, relay>> /\ RelayInv'
  BY RelayStays DEF EdgeInv, TakeUnit
<1>2. PICK q \in Visits : k.ask = <<q>> /\ k.ask[1] = q /\ k.due \in Nat \ {0} /\ k.taken \in Nat
        /\ (\/ k.taken = 0 /\ k.due = 1
            \/ /\ q.path = "rpc" /\ RpcRefusal(q) = "none"
               /\ k.taken > 0 /\ k.taken + k.due = Cost(q.calls))
  BY <1>1 DEF VisitOk, VisitType, Owes
<1>3. \/ Replies(v, "503") \/ Replies(v, "429")
      \/ Continues(v, IF k.due > 1 THEN [k EXCEPT !.taken = @ + 1, !.due = @ - 1] ELSE Granted(v, q))
  BY <1>2 DEF TakeUnit
<1>4. CASE Replies(v, "503") \/ Replies(v, "429")
  <2>1. "503" \in Declined \ FromUpstream /\ "429" \in Declined \ FromUpstream
    BY DEF FromUpstream, Declined
  <2> QED BY <1>1, <1>4, <2>1, VisitAnswered
<1>5. CASE k.due > 1 /\ Continues(v, [k EXCEPT !.taken = @ + 1, !.due = @ - 1])
  <2> DEFINE n == [k EXCEPT !.taken = @ + 1, !.due = @ - 1]
  <2>1. k \in [phase : {"take"}, ask : {<<q>>}, taken : Nat, due : Nat, answer : {"none"}]
    BY <1>1, <1>2 DEF VisitOk, VisitType
  <2>2. n \in [phase : {"take"}, ask : {<<q>>}, taken : {k.taken + 1}, due : {k.due - 1}, answer : {"none"}]
    BY <2>1
  <2>3. k.taken + 1 \in Nat \ {0} /\ k.due - 1 \in Nat \ {0} /\ k.taken + 1 + (k.due - 1) = k.taken + k.due
    BY <1>2, <1>5
  <2> HIDE DEF n, k
  <2>4. n.phase = "take" /\ n.ask = <<q>> /\ n.taken = k.taken + 1 /\ n.due = k.due - 1 /\ n.answer = "none"
    BY <2>2
  <2>5. n \in VisitType
    BY <2>2, <2>3 DEF VisitPhases, VisitType, Asks, Declined
  <2>6. Owes(n)
    BY <1>2, <1>5, <2>3, <2>4 DEF Owes
  <2>7. VisitOk(n)
    BY <2>4, <2>5, <2>6 DEF VisitOk, FromUpstream
  <2>8. Continues(v, n)
    BY <1>5 DEF n
  <2> QED BY <1>1, <2>7, <2>8, OneVisitMoves
<1>6. CASE ~ (k.due > 1) /\ Continues(v, Granted(v, q))
  <2>1. k.due <= 1
    BY <1>2, <1>6
  <2>2. VisitOk(Granted(v, q))
    BY <1>1, <1>2, <2>1, GrantedOk
  <2> QED BY <1>1, <1>6, <2>2, OneVisitMoves
<1> QED BY <1>3, <1>4, <1>5, <1>6

LEMMA EdgeInitial == EdgeInit => EdgeInv
<1> SUFFICES ASSUME EdgeInit PROVE EdgeInv
  OBVIOUS
<1>1. DOMAIN visit = Visitors /\ \A v \in Visitors : visit[v] = Fresh
  BY DEF EdgeInit
<1>2. Fresh \in [phase : {"new"}, ask : {<<>>}, taken : {0}, due : {0}, answer : {"none"}]
  BY DEF Fresh
<1>3. VisitOk(Fresh)
  <2>1. Fresh.phase = "new" /\ Fresh.taken = 0 /\ Fresh.answer = "none"
    BY <1>2
  <2>2. Fresh \in VisitType
    BY <1>2 DEF VisitPhases, VisitType, Asks, Declined
  <2> QED BY <2>1, <2>2 DEF VisitOk, FromUpstream
<1>4. RelayInv
  <2>1. relay = [to |-> {}, body |-> <<>>, at |-> 0, pending |-> <<>>, out |-> <<>>, timer |-> FALSE, end |-> "none"]
    BY DEF EdgeInit, NoRelay
  <2>2. <<>> \in Seq(Nat) /\ Len(<<>>) = 0 /\ ToldSoFar(<<>> \o <<>>, <<>>, 0) /\ "none" \in StreamEndings
    BY EmptySeq, NothingTold DEF StreamEndings
  <2>3. /\ relay.to = {} /\ relay.body = <<>> /\ relay.at = 0 /\ relay.pending = <<>> /\ relay.out = <<>>
        /\ relay.timer = FALSE /\ relay.end = "none"
    BY <2>1
  <2>4. relay \in [to : SUBSET Visitors, body : Seq(Nat), at : Nat, pending : Seq(Nat), out : Seq(Nat), timer : BOOLEAN, end : StreamEndings]
    BY <2>1, <2>2
  <2> QED BY <2>2, <2>3, <2>4 DEF RelayInv, DeadlineFollowsBody
<1> QED BY <1>1, <1>3, <1>4 DEF EdgeInv

LEMMA RelayAlone ==
  ASSUME EdgeInv, RelayInv', UNCHANGED <<deployment, visit>>
  PROVE  EdgeInv'
<1>1. \A v \in Visitors : VisitOk(visit[v]) => VisitOk(visit[v])'
  BY DEF VisitOk, Owes, RpcRefusal, WhollyPaid
<1> QED BY <1>1 DEF EdgeInv

\* Every step of the edge, of the limiter and of the provider keeps it.
LEMMA EdgeStepKeeps ==
  ASSUME EdgeInv, [EdgeNext]_edgeVars
  PROVE  EdgeInv'
<1>1. CASE UNCHANGED edgeVars
  BY <1>1, RelayStays, RelayAlone DEF edgeVars
<1>2. CASE \E v \in Visitors, q \in Visits : Arrive(v, q)
  BY <1>2, ArriveKept
<1>3. CASE \E v \in Visitors : TakeUnit(v)
  BY <1>3, TakeUnitKept
<1>4. CASE NewWindow
  BY <1>4, RelayStays, RelayAlone DEF NewWindow
<1>5. ASSUME NEW v \in Visitors, visit[v].phase = "forward" PROVE WhollyPaid(visit[v])
  BY <1>5 DEF EdgeInv, VisitOk
<1>6. {"502", "status", "504", "relayed"} \subseteq FromUpstream \cup Declined
  BY DEF FromUpstream
<1>7. CASE \E v \in Visitors : UpstreamRefuses(v)
  <2>1. PICK v \in Visitors, said \in {"502", "status", "504"} :
          Replies(v, said) /\ visit[v].phase = "forward" /\ UNCHANGED <<deployment, relay>>
    BY <1>7 DEF UpstreamRefuses
  <2> QED BY <1>5, <2>1, <1>6, RelayStays, VisitAnswered
<1>8. CASE \E v \in Visitors : UpstreamAnswers(v)
  <2>1. PICK v \in Visitors : Replies(v, "relayed") /\ visit[v].phase = "forward" /\ UNCHANGED <<deployment, relay>>
    BY <1>8 DEF UpstreamAnswers
  <2> QED BY <1>5, <2>1, <1>6, RelayStays, VisitAnswered
<1>9. CASE \E v \in Visitors, body \in Bodies : UpstreamStreams(v, body)
  <2>1. PICK v \in Visitors, body \in Bodies : UpstreamStreams(v, body)
    BY <1>9
  <2>2. RelayInv'
    BY <2>1, StreamBeginsKept DEF EdgeInv
  <2> QED BY <1>5, <1>6, <2>1, <2>2, VisitAnswered DEF UpstreamStreams
<1>10. CASE (\E n \in 1 .. 2 : Chunk(n)) \/ StreamEnds \/ StreamBreaks
  <2>1. RelayInv'
    BY <1>10, ChunkKept, StreamEndsKept, StreamBreaksKept DEF EdgeInv
  <2>2. UNCHANGED <<deployment, visit>>
    BY <1>10 DEF Chunk, StreamEnds, StreamBreaks
  <2> QED BY <2>1, <2>2, RelayAlone
<1> QED BY <1>1, <1>2, <1>3, <1>4, <1>7, <1>8, <1>9, <1>10 DEF EdgeNext

LEMMA EdgeIsSound == EdgeInv => EdgeSound
<1> SUFFICES ASSUME EdgeInv PROVE ForwardedIsPaid
  BY RelayIsFaithful DEF EdgeInv, EdgeSound
<1> SUFFICES ASSUME NEW v \in Visitors, ForwardedCalls(v)
    PROVE  /\ visit[v].taken = IF visit[v].ask[1].path = "rpc" THEN Cost(visit[v].ask[1].calls) ELSE 1
           /\ visit[v].ask[1].path = "rpc" =>
                \A i \in DOMAIN visit[v].ask[1].calls : Acceptable(<<visit[v].ask[1].calls[i]>>)
  BY DEF ForwardedIsPaid
<1>1. WhollyPaid(visit[v])
  BY DEF EdgeInv, VisitOk, ForwardedCalls, FromUpstream
<1>2. PICK q \in Visits : /\ visit[v].ask[1] = q
                          /\ visit[v].taken = IF q.path = "rpc" THEN Cost(q.calls) ELSE 1
                          /\ q.path = "rpc" => Acceptable(q.calls)
  BY <1>1 DEF WhollyPaid
<1>3. ASSUME Acceptable(q.calls), NEW i \in DOMAIN q.calls PROVE Acceptable(<<q.calls[i]>>)
  <2> DEFINE c == q.calls[i]
  <2>1. c.method \in DOMAIN Costs /\ (c.method = "getProgramAccounts" => BoundedScan(c.scan))
    BY <1>3 DEF Acceptable
  <2>2. DOMAIN <<c>> = {1} /\ <<c>>[1] = c
    OBVIOUS
  <2> HIDE DEF c
  <2>3. \A j \in DOMAIN <<c>> : <<c>>[j] = c
    BY <2>2
  <2>4. Acceptable(<<c>>)
    BY <2>1, <2>3 DEF Acceptable
  <2> QED BY <2>4 DEF c
<1> QED BY <1>2, <1>3

-----------------------------------------------------------------------------
(* The demo service (DemoService) *)

SetupSteps == {"bcv", "fund", "warm", "table", "create", "extend", "activate"}
FundedSteps  == {"warm", "table", "create", "extend", "activate"}
EarlySteps  == SetupSteps \cup {"new", "accumulator", "init", "acquire", "quote", "simulate", "submit", "buy", "migrate", "icon"}
LeasedSteps == {"quote", "simulate", "submit", "confirm", "fetch"}
AddressRange == 1 .. AddressBatches

DemoSteps   == EarlySteps \cup {"confirm", "fetch", "balance", "answered"}
DemoAnswers ==
  {"error", "busy", "refused", "preflight", "forkOnly", "deterministic", "external", "burner", "landedFailed",
   "burned", "graduated", "near", "bought", "existed", "migrated", "cached", "fetched"}

DemoRequest ==
  [step : DemoSteps, attempt : 1 .. MaxAttempts,
   last : Stale \cup Details \cup {Nil}, route : Stale \cup {"safe", Nil}, waits : Nat, table : Nat,
   missing : SUBSET AddressRange, todo : {<<>>, <<DEFAULT_BUY>>, <<DEFAULT_BUY, DEFAULT_BUY>>},
   answer : DemoAnswers \cup {Nil}, lost : BOOLEAN, disturbed : BOOLEAN]

DemoFates == {"none", "flying", "landed", "failed", "expired"}

DemoIcon == [coin : Coins, icon : BOOLEAN]

DemoFork ==
  [lease : Callers \cup {NoOne}, vault : Nat, excluded : SUBSET Stale, queue : Seq(Callers), acc : BOOLEAN,
   bcv : {"none", "rent", "live"}, tables : Seq(SUBSET AddressRange), remembered : Nat, raised : Int,
   complete : BOOLEAN, pool : BOOLEAN, icons : Seq(DemoIcon)]

\* What a request's transactions are at its step.
SendsOK(r, m) ==
  /\ \A n \in 1 .. MaxAttempts : n > r.attempt => m[n] = "none"
  /\ r.step \in EarlySteps => m[r.attempt] = "none"
  /\ r.step = "confirm" => m[r.attempt] # "none"
  /\ r.step = "fetch" => m[r.attempt] \in {"landed", "failed"}
  /\ r.step = "balance" \/ r.answer = "burned" => m[r.attempt] = "landed"
  /\ r.answer # Nil <=> r.step = "answered"
  /\ ~r.lost => /\ \A n \in 1 .. MaxAttempts : n < r.attempt => m[n] = "none"
                /\ r.answer \in Unmoved => m[r.attempt] = "none"

SetupOK(r, f) ==
  /\ r.step \in SetupSteps => f.acc
  /\ r.step \in FundedSteps => f.bcv # "none"
  /\ r.step \in {"extend", "activate"} => r.table # 0
  /\ r.table # 0 =>
       f.acc /\ f.bcv # "none" /\ r.table \in 1 .. Len(f.tables) /\ AddressRange \subseteq f.tables[r.table] \cup r.missing

ExclusionsOK(r, f) ==
  /\ r.step = "new" => r.last = Nil
  /\ r.step \in EarlySteps \ {"simulate", "submit"} => r.route = Nil
  /\ ~r.disturbed /\ r.last \in Stale =>
       /\ r.last \in f.excluded /\ r.answer # "deterministic"
       /\ r.step = "simulate" => r.route # r.last

ErrandOK(r, e, f) ==
  /\ r.step = "buy" => (e = "trade" /\ r.todo = <<DEFAULT_BUY>>)
                         \/ (e = "trades" /\ r.todo \in {<<DEFAULT_BUY>>, <<DEFAULT_BUY, DEFAULT_BUY>>})
  /\ r.step = "migrate" => f.complete
  /\ r.step = "icon" => e \in Coins

LeaseOK(u, r, m, f) ==
  ~SlowFetch =>
    /\ r.step \in LeasedSteps => f.lease = u
    /\ ~r.lost /\ (\E n \in 1 .. MaxAttempts : m[n] = "flying") => f.lease = u

DemoCallerOK(u, e, r, m, f) ==
  SendsOK(r, m) /\ SetupOK(r, f) /\ ExclusionsOK(r, f) /\ ErrandOK(r, e, f) /\ LeaseOK(u, r, m, f)

DemoForkOK(f) ==
  /\ f.remembered <= Len(f.tables)
  /\ f.pool => f.complete
  /\ Len(f.icons) <= ICONS
  /\ \A i, j \in 1 .. Len(f.icons) : f.icons[i].coin = f.icons[j].coin => i = j
  /\ \A i \in 1 .. Len(f.icons) : f.icons[i].icon => IconOf(f.icons[i].coin)

DemoQueueOK ==
  /\ \A i, j \in 1 .. Len(fork.queue) : fork.queue[i] = fork.queue[j] => i = j
  /\ {fork.queue[i] : i \in 1 .. Len(fork.queue)} = {u \in Callers : Stands(u, "quote")}

DemoOneTrade == (\A u \in Callers : errand[u] # "trades") /\ \A u, w \in Callers : {errand[u], errand[w]} = {"trade"} => u = w
DemoCurveOK ==
  DemoOneTrade =>
    ~fork.complete /\ (fork.raised = TRADE_STOP - 1
      \/ (fork.raised < GRADUATION /\ \E u \in Callers : errand[u] = "trade" /\ request[u].step = "answered"))

DemoTyped ==
  request \in [Callers -> DemoRequest] /\ wired \in [Callers -> [1 .. MaxAttempts -> DemoFates]] /\ fork \in DemoFork

DemoInv ==
  /\ DemoTyped /\ DemoForkOK(fork) /\ DemoQueueOK /\ DemoCurveOK
  /\ \A u \in Callers : DemoCallerOK(u, errand[u], request[u], wired[u], fork)

\* What a step of u leaves to the others: nothing that was set up, excluded or
\* leased to them is taken away.
ForkGrows(u, f, g) ==
  /\ f.acc => g.acc
  /\ f.bcv # "none" => g.bcv # "none"
  /\ Len(f.tables) <= Len(g.tables)
  /\ \A t \in 1 .. Len(f.tables) : f.tables[t] \subseteq g.tables[t]
  /\ f.excluded \subseteq g.excluded
  /\ f.complete => g.complete
  /\ ~SlowFetch => \A w \in Callers \ {u} : f.lease = w => g.lease = w

QueueMoves(u, r, f, s, g) ==
  \/ g.queue = f.queue /\ (r.step = "quote" <=> s.step = "quote")
  \/ g.queue = Append(f.queue, u) /\ r.step # "quote" /\ s.step = "quote"
  \/ g.queue = Tail(f.queue) /\ r.step = "quote" /\ s.step # "quote" /\ Head(f.queue) = u

CurveMoves(r, f, s, g) ==
  /\ g.raised = f.raised /\ g.complete = f.complete
  /\ r.step = "answered" => s.step = "answered"

\* What a request has been told of the setup stays true.
LEMMA SetupStays ==
  ASSUME NEW u \in Callers, NEW r \in DemoRequest, NEW f \in DemoFork, NEW g \in DemoFork, ForkGrows(u, f, g), SetupOK(r, f)
  PROVE  SetupOK(r, g)
<1>1. r.table \in Nat /\ Len(f.tables) \in Nat /\ Len(g.tables) \in Nat
  BY DEF DemoFork, DemoRequest
<1>2. r.table # 0 => r.table \in 1 .. Len(g.tables) /\ AddressRange \subseteq g.tables[r.table] \cup r.missing
  BY <1>1 DEF SetupOK, ForkGrows
<1> QED BY <1>1, <1>2 DEF SetupOK, ForkGrows

LEMMA OtherCallersKeep ==
  ASSUME NEW u \in Callers, NEW w \in Callers \ {u}, NEW e, NEW r \in DemoRequest, NEW m,
         NEW f \in DemoFork, NEW g \in DemoFork, ForkGrows(u, f, g), DemoCallerOK(w, e, r, m, f)
  PROVE  DemoCallerOK(w, e, r, m, g)
<1>1. SetupOK(r, g)
  BY SetupStays DEF DemoCallerOK
<1>2. ExclusionsOK(r, g)
  BY DEF DemoCallerOK, ExclusionsOK, ForkGrows
<1>3. ErrandOK(r, e, g)
  BY DEF DemoCallerOK, ErrandOK, ForkGrows
<1>4. LeaseOK(w, r, m, g)
  BY DEF DemoCallerOK, LeaseOK, ForkGrows
<1> QED BY <1>1, <1>2, <1>3, <1>4 DEF DemoCallerOK

\* A queue without repetitions, one longer or one shorter.
LEMMA QueueAppends ==
  ASSUME NEW S, NEW q \in Seq(S), NEW x \in S, \A i \in 1 .. Len(q) : q[i] # x,
         \A i, j \in 1 .. Len(q) : q[i] = q[j] => i = j
  PROVE  /\ \A i, j \in 1 .. Len(Append(q, x)) : Append(q, x)[i] = Append(q, x)[j] => i = j
         /\ {Append(q, x)[i] : i \in 1 .. Len(Append(q, x))} = {q[i] : i \in 1 .. Len(q)} \cup {x}
<1> DEFINE p == Append(q, x)
<1>1. Len(p) = Len(q) + 1 /\ Len(q) \in Nat /\ p[Len(q) + 1] = x /\ \A i \in 1 .. Len(q) : p[i] = q[i]
  OBVIOUS
<1> HIDE DEF p
<1>2. \A i \in 1 .. Len(p) : i \in 1 .. Len(q) \/ i = Len(q) + 1
  BY <1>1
<1>3. \A i, j \in 1 .. Len(p) : p[i] = p[j] => i = j
  BY <1>1, <1>2
<1>4. {p[i] : i \in 1 .. Len(p)} = {q[i] : i \in 1 .. Len(q)} \cup {x}
  BY <1>1, <1>2
<1> QED BY <1>3, <1>4 DEF p

LEMMA QueueShortens ==
  ASSUME NEW S, NEW q \in Seq(S), q # <<>>,
         \A i, j \in 1 .. Len(q) : q[i] = q[j] => i = j
  PROVE  /\ \A i, j \in 1 .. Len(Tail(q)) : Tail(q)[i] = Tail(q)[j] => i = j
         /\ {Tail(q)[i] : i \in 1 .. Len(Tail(q))} = {q[i] : i \in 1 .. Len(q)} \ {Head(q)}
<1> DEFINE p == Tail(q)
           n == Len(q)
<1>1. Len(p) = n - 1 /\ n \in Nat \ {0} /\ Head(q) = q[1] /\ \A i \in 1 .. n - 1 : p[i] = q[i + 1]
  OBVIOUS
<1> HIDE DEF p, n
<1>2. \A i, j \in 1 .. n : q[i] = q[j] => i = j
  BY DEF n
<1>3. \A i, j \in 1 .. Len(p) : p[i] = p[j] => i = j
  <2> SUFFICES ASSUME NEW i \in 1 .. Len(p), NEW j \in 1 .. Len(p), p[i] = p[j] PROVE i = j
    OBVIOUS
  <2>1. i + 1 \in 1 .. n /\ j + 1 \in 1 .. n /\ q[i + 1] = q[j + 1]
    BY <1>1
  <2> QED BY <1>2, <2>1
<1>4. ASSUME NEW i \in 1 .. Len(p) PROVE p[i] \in {q[k] : k \in 1 .. n} \ {Head(q)}
  <2>1. i + 1 \in 1 .. n /\ p[i] = q[i + 1] /\ 1 \in 1 .. n /\ i + 1 # 1
    BY <1>1
  <2>2. q[i + 1] # q[1]
    BY <1>2, <2>1
  <2> QED BY <1>1, <2>1, <2>2
<1>5. ASSUME NEW k \in 1 .. n, q[k] # Head(q) PROVE q[k] \in {p[i] : i \in 1 .. Len(p)}
  <2>1. k # 1
    BY <1>1, <1>5
  <2>2. k - 1 \in 1 .. Len(p) /\ p[k - 1] = q[k]
    <3>1. k - 1 \in 1 .. n - 1 /\ (k - 1) + 1 = k
      BY <1>1, <2>1
    <3> QED BY <1>1, <3>1
  <2> QED BY <2>2
<1>6. {p[i] : i \in 1 .. Len(p)} = {q[k] : k \in 1 .. n} \ {Head(q)}
  BY <1>4, <1>5
<1> QED BY <1>3, <1>6 DEF p, n

\* A step of one caller keeps the invariant if it keeps that caller's part and
\* takes nothing from the others.
LEMMA DemoMoves ==
  ASSUME DemoInv, NEW u \in Callers, NEW r \in DemoRequest, NEW m \in [1 .. MaxAttempts -> DemoFates],
         NEW f \in DemoFork, errand' = errand, request' = [request EXCEPT ![u] = r],
         wired' = [wired EXCEPT ![u] = m], fork' = f, DemoForkOK(f), ForkGrows(u, fork, f),
         QueueMoves(u, request[u], fork, r, f), CurveMoves(request[u], fork, r, f) \/ DemoCurveOK',
         DemoCallerOK(u, errand[u], r, m, f)
  PROVE  DemoInv'
<1>1. DemoTyped /\ request[u] \in DemoRequest /\ fork \in DemoFork
  BY DEF DemoInv, DemoTyped
<1>2. DemoTyped'
  BY <1>1 DEF DemoTyped
<1>3. request'[u] = r /\ wired'[u] = m /\ \A w \in Callers \ {u} : request'[w] = request[w] /\ wired'[w] = wired[w]
  BY <1>1 DEF DemoTyped
<1>4. ASSUME NEW w \in Callers PROVE DemoCallerOK(w, errand[w], request'[w], wired'[w], f)
  <2>1. CASE w = u
    BY <1>3, <2>1
  <2>2. CASE w # u
    <3>1. DemoCallerOK(w, errand[w], request[w], wired[w], fork) /\ request[w] \in DemoRequest /\ w \in Callers \ {u}
      BY <1>1, <2>2 DEF DemoInv, DemoTyped
    <3>2. DemoCallerOK(w, errand[w], request[w], wired[w], f)
      BY <1>1, <3>1, OtherCallersKeep
    <3> QED BY <1>3, <3>1, <3>2
  <2> QED BY <2>1, <2>2
<1>5. DemoQueueOK'
  <2>1. DemoQueueOK /\ fork.queue \in Seq(Callers) /\ fork'.queue = f.queue
    BY <1>1 DEF DemoInv, DemoFork
  <2>2. \A w \in Callers : Stands(w, "quote")' <=> (IF w = u THEN r.step = "quote" ELSE Stands(w, "quote"))
    BY <1>3 DEF Stands
  <2>3. CASE f.queue = fork.queue /\ (request[u].step = "quote" <=> r.step = "quote")
    <3>1. {w \in Callers : Stands(w, "quote")'} = {w \in Callers : Stands(w, "quote")}
      BY <2>2, <2>3 DEF Stands
    <3> QED BY <2>1, <2>3, <3>1 DEF DemoQueueOK
  <2>4. CASE f.queue = Append(fork.queue, u) /\ request[u].step # "quote" /\ r.step = "quote"
    <3>1. \A i \in 1 .. Len(fork.queue) : fork.queue[i] # u
      BY <2>1, <2>4 DEF DemoQueueOK, Stands
    <3>2. /\ \A i, j \in 1 .. Len(f.queue) : f.queue[i] = f.queue[j] => i = j
          /\ {f.queue[i] : i \in 1 .. Len(f.queue)} = {fork.queue[i] : i \in 1 .. Len(fork.queue)} \cup {u}
      BY <2>1, <2>4, <3>1, QueueAppends DEF DemoQueueOK
    <3>3. {w \in Callers : Stands(w, "quote")'} = {w \in Callers : Stands(w, "quote")} \cup {u}
      BY <2>2, <2>4
    <3>4. {f.queue[i] : i \in 1 .. Len(f.queue)} = {w \in Callers : Stands(w, "quote")'}
      BY <2>1, <3>2, <3>3 DEF DemoQueueOK
    <3>5. {fork'.queue[i] : i \in 1 .. Len(fork'.queue)} = {w \in Callers : Stands(w, "quote")'}
      BY <2>1, <3>4, Zenon
    <3> QED BY <2>1, <3>2, <3>5 DEF DemoQueueOK
  <2>5. CASE f.queue = Tail(fork.queue) /\ request[u].step = "quote" /\ r.step # "quote" /\ Head(fork.queue) = u
    <3>1. fork.queue # <<>>
      <4>1. PICK i \in 1 .. Len(fork.queue) : fork.queue[i] = u
        BY <2>1, <2>5 DEF DemoQueueOK, Stands
      <4>2. Len(fork.queue) # 0
        BY <2>1, <4>1
      <4> QED BY <2>1, <4>2
    <3>2. /\ \A i, j \in 1 .. Len(f.queue) : f.queue[i] = f.queue[j] => i = j
          /\ {f.queue[i] : i \in 1 .. Len(f.queue)} = {fork.queue[i] : i \in 1 .. Len(fork.queue)} \ {u}
      <4>1. \A i, j \in 1 .. Len(fork.queue) : fork.queue[i] = fork.queue[j] => i = j
        BY <2>1 DEF DemoQueueOK
      <4> DEFINE q == fork.queue
      <4>2. q \in Seq(Callers) /\ q # <<>> /\ \A i, j \in 1 .. Len(q) : q[i] = q[j] => i = j
        BY <2>1, <3>1, <4>1
      <4>3. f.queue = Tail(q) /\ Head(q) = u
        BY <2>5
      <4> HIDE DEF q
      <4>4. /\ \A i, j \in 1 .. Len(Tail(q)) : Tail(q)[i] = Tail(q)[j] => i = j
            /\ {Tail(q)[i] : i \in 1 .. Len(Tail(q))} = {q[i] : i \in 1 .. Len(q)} \ {Head(q)}
        BY <4>2, QueueShortens
      <4> QED BY <4>3, <4>4, Zenon DEF q
    <3>3. {w \in Callers : Stands(w, "quote")'} = {w \in Callers : Stands(w, "quote")} \ {u}
      BY <2>2, <2>5
    <3>4. {f.queue[i] : i \in 1 .. Len(f.queue)} = {w \in Callers : Stands(w, "quote")'}
      BY <2>1, <3>2, <3>3 DEF DemoQueueOK
    <3>5. {fork'.queue[i] : i \in 1 .. Len(fork'.queue)} = {w \in Callers : Stands(w, "quote")'}
      BY <2>1, <3>4, Zenon
    <3> QED BY <2>1, <3>2, <3>5 DEF DemoQueueOK
  <2> QED BY <2>3, <2>4, <2>5 DEF QueueMoves
<1>6. ASSUME CurveMoves(request[u], fork, r, f) PROVE DemoCurveOK'
  <2>1. DemoCurveOK /\ fork'.raised = fork.raised /\ fork'.complete = fork.complete
    BY <1>6 DEF DemoInv, CurveMoves
  <2>2. \A w \in Callers : request[w].step = "answered" => request'[w].step = "answered"
    BY <1>3, <1>6 DEF CurveMoves
  <2> QED BY <2>1, <2>2 DEF DemoCurveOK, DemoOneTrade
<1> QED BY <1>2, <1>4, <1>5, <1>6 DEF DemoInv

LEMMA DemoParts ==
  ASSUME DemoInv, NEW u \in Callers
  PROVE  /\ DemoTyped /\ request[u] \in DemoRequest /\ wired[u] \in [1 .. MaxAttempts -> DemoFates] /\ fork \in DemoFork
         /\ DemoForkOK(fork) /\ DemoCallerOK(u, errand[u], request[u], wired[u], fork)
         /\ request[u].attempt \in 1 .. MaxAttempts
BY DEF DemoInv, DemoTyped, DemoRequest

LEMMA StepFields ==
  ASSUME NEW r \in DemoRequest, NEW s \in DemoSteps
  PROVE  LET q == [r EXCEPT !.step = s]
         IN  /\ q \in DemoRequest /\ q.step = s /\ q.attempt = r.attempt /\ q.last = r.last /\ q.route = r.route
             /\ q.table = r.table /\ q.missing = r.missing /\ q.todo = r.todo /\ q.answer = r.answer
             /\ q.lost = r.lost /\ q.disturbed = r.disturbed
BY DEF DemoRequest

\* A step from one await to the next.
LEMMA StepKeeps ==
  ASSUME DemoInv, NEW u \in Callers, NEW s \in DemoSteps \ {"quote", "answered"},
         NEW m \in [1 .. MaxAttempts -> DemoFates], NEW f \in DemoFork,
         errand' = errand, Step(u, s), wired' = [wired EXCEPT ![u] = m], fork' = f,
         request[u].step \notin {"quote", "answered"}, DemoForkOK(f), ForkGrows(u, fork, f),
         f.queue = fork.queue, f.raised = fork.raised, f.complete = fork.complete,
         \A q \in DemoRequest :
           /\ q.step = s /\ q.attempt = request[u].attempt /\ q.last = request[u].last /\ q.route = request[u].route
           /\ q.table = request[u].table /\ q.missing = request[u].missing /\ q.todo = request[u].todo
           /\ q.answer = request[u].answer /\ q.lost = request[u].lost /\ q.disturbed = request[u].disturbed
           => DemoCallerOK(u, errand[u], q, m, f)
  PROVE  DemoInv'
<1> DEFINE q == [request[u] EXCEPT !.step = s]
<1>1. request[u] \in DemoRequest /\ request \in [Callers -> DemoRequest]
  BY DemoParts DEF DemoTyped
<1>2. /\ q \in DemoRequest /\ q.step = s /\ q.attempt = request[u].attempt /\ q.last = request[u].last
      /\ q.route = request[u].route /\ q.table = request[u].table /\ q.missing = request[u].missing
      /\ q.todo = request[u].todo /\ q.answer = request[u].answer /\ q.lost = request[u].lost
      /\ q.disturbed = request[u].disturbed
  BY <1>1, StepFields
<1>3. request' = [request EXCEPT ![u] = q]
  BY <1>1 DEF Step
<1> HIDE DEF q
<1>4. DemoCallerOK(u, errand[u], q, m, f)
  BY <1>2
<1>5. QueueMoves(u, request[u], fork, q, f) /\ CurveMoves(request[u], fork, q, f)
  BY <1>2 DEF QueueMoves, CurveMoves
<1> QED BY <1>2, <1>3, <1>4, <1>5, DemoMoves

LEMMA ReplyFields ==
  ASSUME NEW r \in DemoRequest, NEW a \in DemoAnswers
  PROVE  LET q == [r EXCEPT !.step = "answered", !.answer = a, !.route = Nil, !.waits = 0, !.table = 0, !.missing = {},
                            !.todo = <<>>]
         IN  /\ q \in DemoRequest /\ q.step = "answered" /\ q.answer = a /\ q.attempt = r.attempt /\ q.last = r.last
             /\ q.table = 0 /\ q.lost = r.lost /\ q.disturbed = r.disturbed
BY DEF DemoRequest, DemoSteps

\* A request is answered.
LEMMA ReplyKeeps ==
  ASSUME DemoInv, NEW u \in Callers, NEW a \in DemoAnswers, NEW f \in DemoFork,
         errand' = errand, Reply(u, a), wired' = wired, fork' = f, request[u].step # "answered",
         DemoForkOK(f), ForkGrows(u, fork, f), f.raised = fork.raised, f.complete = fork.complete,
         IF request[u].step = "quote" THEN f.queue = Tail(fork.queue) /\ Head(fork.queue) = u ELSE f.queue = fork.queue,
         a = "burned" => Fate(u) = "landed",
         request[u].lost \/ a \notin Unmoved \/ Fate(u) = "none",
         a = "deterministic" => request[u].disturbed \/ request[u].last \notin Stale,
         ~SlowFetch /\ ~request[u].lost /\ (\E n \in 1 .. MaxAttempts : wired[u][n] = "flying") => f.lease = u
  PROVE  DemoInv'
<1> DEFINE q == [request[u] EXCEPT !.step = "answered", !.answer = a, !.route = Nil, !.waits = 0, !.table = 0,
                                   !.missing = {}, !.todo = <<>>]
           r == request[u]
           m == wired[u]
<1>1. /\ r \in DemoRequest /\ request \in [Callers -> DemoRequest] /\ m \in [1 .. MaxAttempts -> DemoFates]
      /\ wired \in [Callers -> [1 .. MaxAttempts -> DemoFates]] /\ DemoCallerOK(u, errand[u], r, m, fork)
  BY DemoParts DEF DemoTyped
<1>2. /\ q \in DemoRequest /\ q.step = "answered" /\ q.answer = a /\ q.attempt = r.attempt /\ q.last = r.last
      /\ q.table = 0 /\ q.lost = r.lost /\ q.disturbed = r.disturbed
  BY <1>1, ReplyFields
<1>3. request' = [request EXCEPT ![u] = q]
  BY <1>1 DEF Reply
<1> HIDE DEF q
<1>4. wired' = [wired EXCEPT ![u] = m]
  BY <1>1
<1>5. a # Nil /\ Fate(u) = m[r.attempt]
  BY DEF DemoAnswers, Nil, Fate
<1> HIDE DEF r, m
<1>6. SendsOK(q, m)
  BY <1>1, <1>2, <1>5 DEF r, DemoCallerOK, SendsOK, EarlySteps, SetupSteps
<1>7. SetupOK(q, f)
  BY <1>2 DEF SetupOK, SetupSteps, FundedSteps
<1>8. ExclusionsOK(q, f)
  BY <1>1, <1>2 DEF r, DemoCallerOK, ExclusionsOK, ForkGrows, EarlySteps, SetupSteps
<1>9. ErrandOK(q, errand[u], f) /\ LeaseOK(u, q, m, f)
  BY <1>2 DEF r, m, ErrandOK, LeaseOK, LeasedSteps
<1>10. DemoCallerOK(u, errand[u], q, m, f)
  BY <1>6, <1>7, <1>8, <1>9 DEF DemoCallerOK
<1>11. QueueMoves(u, request[u], fork, q, f) /\ CurveMoves(request[u], fork, q, f)
  BY <1>2 DEF QueueMoves, CurveMoves
<1> QED BY <1>1, <1>2, <1>3, <1>4, <1>10, <1>11, DemoMoves

LEMMA NextFields ==
  ASSUME NEW r \in DemoRequest, r.attempt < MaxAttempts, NEW l \in Stale \cup Details \cup {Nil}
  PROVE  LET q == [r EXCEPT !.step = "acquire", !.attempt = r.attempt + 1, !.last = l, !.route = Nil]
         IN  /\ q \in DemoRequest /\ q.step = "acquire" /\ q.attempt = r.attempt + 1 /\ q.last = l
             /\ q.route = Nil /\ q.table = r.table /\ q.missing = r.missing /\ q.answer = r.answer
             /\ q.lost = r.lost /\ q.disturbed = r.disturbed
<1>1. r.attempt + 1 \in 1 .. MaxAttempts
  BY DemoConstants DEF DemoRequest
<1> QED BY <1>1 DEF DemoRequest, DemoSteps, EarlySteps

\* The next turn of the loop.
LEMMA NextKeeps ==
  ASSUME DemoInv, NEW u \in Callers, NEW l \in Stale \cup Details \cup {Nil}, NEW f \in DemoFork,
         errand' = errand, NextAttempt(u, l), wired' = wired, fork' = f, More(u),
         request[u].step \in {"quote", "simulate", "submit"},
         DemoForkOK(f), ForkGrows(u, fork, f), f.raised = fork.raised, f.complete = fork.complete,
         IF request[u].step = "quote" THEN f.queue = Tail(fork.queue) /\ Head(fork.queue) = u ELSE f.queue = fork.queue,
         l \in Stale /\ ~request[u].disturbed => l \in f.excluded
  PROVE  DemoInv'
<1> DEFINE q == [request[u] EXCEPT !.step = "acquire", !.attempt = request[u].attempt + 1, !.last = l, !.route = Nil]
           r == request[u]
           m == wired[u]
<1>1. /\ r \in DemoRequest /\ request \in [Callers -> DemoRequest] /\ m \in [1 .. MaxAttempts -> DemoFates]
      /\ wired \in [Callers -> [1 .. MaxAttempts -> DemoFates]] /\ DemoCallerOK(u, errand[u], r, m, fork)
      /\ r.attempt < MaxAttempts /\ r.attempt \in 1 .. MaxAttempts /\ MaxAttempts \in Nat
  BY DemoParts, DemoConstants DEF DemoTyped, More
<1>2. /\ q \in DemoRequest /\ q.step = "acquire" /\ q.attempt = r.attempt + 1 /\ q.last = l
      /\ q.route = Nil /\ q.table = r.table /\ q.missing = r.missing /\ q.answer = r.answer
      /\ q.lost = r.lost /\ q.disturbed = r.disturbed
  BY <1>1, NextFields
<1>3. request' = [request EXCEPT ![u] = q]
  BY <1>1 DEF NextAttempt
<1> HIDE DEF q
<1>4. wired' = [wired EXCEPT ![u] = m]
  BY <1>1
<1>5. r.step \in {"quote", "simulate", "submit"} /\ r.answer = Nil /\ m[r.attempt] = "none"
  BY <1>1 DEF DemoCallerOK, SendsOK, EarlySteps, SetupSteps
<1> HIDE DEF r, m
<1>6. SendsOK(q, m)
  <2>1. q.attempt \in 1 .. MaxAttempts /\ q.answer = Nil
    BY <1>1, <1>2, <1>5
  <2>2. m[q.attempt] = "none" /\ \A n \in 1 .. MaxAttempts : n > q.attempt => m[n] = "none"
    BY <1>1, <1>2, <2>1 DEF DemoCallerOK, SendsOK
  <2>3. ~q.lost => \A n \in 1 .. MaxAttempts : n < q.attempt => m[n] = "none"
    BY <1>1, <1>2, <1>5, <2>1 DEF DemoCallerOK, SendsOK
  <2>4. Nil \notin Unmoved /\ Nil # "burned"
    BY DEF Nil, Unmoved
  <2> QED BY <1>2, <2>1, <2>2, <2>3, <2>4 DEF SendsOK
<1>7. SetupOK(q, f)
  <2>1. SetupOK(r, f)
    BY <1>1, DemoParts, SetupStays DEF DemoCallerOK
  <2> QED BY <1>2, <2>1 DEF SetupOK, SetupSteps, FundedSteps
<1>8. ExclusionsOK(q, f)
  BY <1>2, <1>5 DEF r, ExclusionsOK, Nil
<1>9. ErrandOK(q, errand[u], f) /\ LeaseOK(u, q, m, f)
  <2>1. ~q.lost => \A n \in 1 .. MaxAttempts : m[n] # "flying"
    BY <1>1, <1>2, <1>5 DEF DemoCallerOK, SendsOK
  <2> QED BY <1>2, <2>1 DEF ErrandOK, LeaseOK, LeasedSteps
<1>10. DemoCallerOK(u, errand[u], q, m, f)
  BY <1>6, <1>7, <1>8, <1>9 DEF DemoCallerOK
<1>11. QueueMoves(u, request[u], fork, q, f) /\ CurveMoves(request[u], fork, q, f)
  BY <1>2, <1>5 DEF r, QueueMoves, CurveMoves
<1> QED BY <1>1, <1>2, <1>3, <1>4, <1>10, <1>11, DemoMoves

\* A step of the fork that touches neither setup nor coin.
LEMMA ForkQuiet ==
  ASSUME NEW u \in Callers, NEW f \in DemoFork, NEW g \in DemoFork, DemoForkOK(f),
         g.acc = f.acc, g.bcv = f.bcv, g.tables = f.tables, g.remembered = f.remembered, g.complete = f.complete,
         g.pool = f.pool, g.icons = f.icons, f.excluded \subseteq g.excluded,
         ~SlowFetch => g.lease = f.lease \/ f.lease \in {u, NoOne}
  PROVE  DemoForkOK(g) /\ ForkGrows(u, f, g)
<1>1. DemoForkOK(g)
  BY DEF DemoForkOK
<1>2. NoOne \notin Callers
  BY DemoConstants
<1> QED BY <1>1, <1>2 DEF ForkGrows

LEMMA ForkStays ==
  ASSUME DemoInv, NEW u \in Callers
  PROVE  ForkGrows(u, fork, fork) /\ DemoForkOK(fork) /\ fork \in DemoFork
BY DemoParts DEF ForkGrows

LEMMA FreedFork ==
  ASSUME DemoInv, NEW u \in Callers
  PROVE  /\ Freed(u) \in DemoFork /\ DemoForkOK(Freed(u)) /\ ForkGrows(u, fork, Freed(u))
         /\ Freed(u).queue = fork.queue /\ Freed(u).raised = fork.raised /\ Freed(u).complete = fork.complete
         /\ Freed(u).excluded = fork.excluded
<1> DEFINE f == Freed(u)
<1>1. fork \in DemoFork /\ DemoForkOK(fork)
  BY DemoParts
<1>2. /\ f \in DemoFork /\ f.acc = fork.acc /\ f.bcv = fork.bcv /\ f.tables = fork.tables
      /\ f.remembered = fork.remembered /\ f.complete = fork.complete /\ f.pool = fork.pool /\ f.icons = fork.icons
      /\ f.excluded = fork.excluded /\ f.queue = fork.queue /\ f.raised = fork.raised
      /\ f.lease = (IF fork.lease = u THEN NoOne ELSE fork.lease)
  BY <1>1 DEF Freed, DemoFork
<1> HIDE DEF f
<1>3. DemoForkOK(f) /\ ForkGrows(u, fork, f)
  BY <1>1, <1>2, ForkQuiet
<1> QED BY <1>2, <1>3 DEF f

\* A step before the submission.
LEMMA EarlyKeeps ==
  ASSUME DemoInv, NEW u \in Callers, NEW s \in EarlySteps \ {"new", "quote", "buy", "icon"}, NEW f \in DemoFork,
         Step(u, s), UNCHANGED <<errand, wired>>, fork' = f,
         request[u].step \in EarlySteps \ {"quote"}, request[u].step \in {"simulate", "submit"} => s = "submit",
         DemoForkOK(f), ForkGrows(u, fork, f),
         f.queue = fork.queue, f.raised = fork.raised, f.complete = fork.complete,
         s \in SetupSteps => f.acc,
         s \in FundedSteps => f.bcv # "none",
         s \in {"extend", "activate"} => request[u].table # 0,
         s = "migrate" => f.complete,
         s = "simulate" /\ ~request[u].disturbed /\ request[u].last \in Stale => request[u].route # request[u].last,
         ~SlowFetch /\ s \in {"simulate", "submit"} => f.lease = u
  PROVE  DemoInv'
<1> DEFINE r == request[u]
           m == wired[u]
<1>1. /\ r \in DemoRequest /\ m \in [1 .. MaxAttempts -> DemoFates] /\ DemoCallerOK(u, errand[u], r, m, fork)
      /\ wired \in [Callers -> [1 .. MaxAttempts -> DemoFates]] /\ fork \in DemoFork
  BY DemoParts DEF DemoTyped
<1>2. wired' = [wired EXCEPT ![u] = m] /\ errand' = errand
  BY <1>1
<1>3. SetupOK(r, f)
  BY <1>1, SetupStays DEF DemoCallerOK
<1>4. s \in DemoSteps \ {"quote", "answered"} /\ r.step \in EarlySteps \ {"quote"} /\ r.step # "answered"
  BY DEF DemoSteps, EarlySteps, SetupSteps
<1> HIDE DEF r, m
<1>5. ASSUME NEW q \in DemoRequest,
             /\ q.step = s /\ q.attempt = r.attempt /\ q.last = r.last /\ q.route = r.route
             /\ q.table = r.table /\ q.missing = r.missing /\ q.todo = r.todo
             /\ q.answer = r.answer /\ q.lost = r.lost /\ q.disturbed = r.disturbed
      PROVE  DemoCallerOK(u, errand[u], q, m, f)
  <2>1. SendsOK(q, m)
    <3>1. SendsOK(r, m) /\ r.answer = Nil /\ m[r.attempt] = "none"
      BY <1>1, <1>4 DEF DemoCallerOK, SendsOK
    <3>2. s \notin {"confirm", "fetch", "balance", "answered"}
      BY DEF EarlySteps, SetupSteps
    <3> QED BY <1>5, <3>1, <3>2 DEF SendsOK, Nil
  <2>2. SetupOK(q, f)
    BY <1>3, <1>5 DEF r, SetupOK
  <2>3. ExclusionsOK(q, f)
    <3>1. ExclusionsOK(r, fork) /\ fork.excluded \subseteq f.excluded
      BY <1>1 DEF DemoCallerOK, ForkGrows
    <3> QED BY <1>5, <3>1 DEF r, ExclusionsOK
  <2>4. ErrandOK(q, errand[u], f)
    BY <1>5 DEF ErrandOK
  <2>5. LeaseOK(u, q, m, f)
    <3>1. s \in LeasedSteps => s \in {"simulate", "submit"}
      BY DEF LeasedSteps, EarlySteps, SetupSteps
    <3>2. \A n \in 1 .. MaxAttempts : ~r.lost => m[n] # "flying"
      <4>1. SendsOK(r, m) /\ m[r.attempt] = "none" /\ r.attempt \in 1 .. MaxAttempts /\ MaxAttempts \in Nat
        BY <1>1, <1>4, DemoConstants DEF DemoCallerOK, SendsOK, DemoRequest
      <4> QED BY <4>1 DEF SendsOK
    <3> QED BY <1>5, <3>1, <3>2 DEF LeaseOK
  <2> QED BY <2>1, <2>2, <2>3, <2>4, <2>5 DEF DemoCallerOK
<1>6. request[u].step \notin {"quote", "answered"}
  BY <1>4 DEF r
<1> QED
  <2>1. s \in DemoSteps \ {"quote", "answered"} /\ m \in [1 .. MaxAttempts -> DemoFates]
    BY <1>1, <1>4
  <2> QED BY <1>2, <1>5, <1>6, <2>1, StepKeeps DEF r

\* What a caller that is at a step before the submission has sent.
LEMMA NothingSent ==
  ASSUME DemoInv, NEW u \in Callers, request[u].step \in EarlySteps
  PROVE  /\ Fate(u) = "none" /\ request[u].answer = Nil
         /\ ~request[u].lost => \A n \in 1 .. MaxAttempts : wired[u][n] # "flying"
<1>1. /\ SendsOK(request[u], wired[u]) /\ request[u].attempt \in 1 .. MaxAttempts /\ MaxAttempts \in Nat
  BY DemoParts, DemoConstants DEF DemoCallerOK
<1>2. wired[u][request[u].attempt] = "none" /\ request[u].step # "answered"
  BY <1>1 DEF SendsOK, EarlySteps, SetupSteps
<1> QED BY <1>1, <1>2 DEF SendsOK, Fate

LEMMA SetupKnown ==
  ASSUME DemoInv, NEW u \in Callers
  PROVE  SetupOK(request[u], fork)
BY DemoParts DEF DemoCallerOK

-----------------------------------------------------------------------------
(* The setup *)

LEMMA UnresolvedKeeps == ASSUME DemoInv, NEW u \in Callers, Unresolved(u) PROVE DemoInv'
<1>1. "acquire" \in EarlySteps \ {"new", "quote", "buy", "icon"} /\ request[u].step \in EarlySteps \ {"quote", "simulate", "submit"}
  BY DEF Unresolved, Stands, EarlySteps
<1>2. Step(u, "acquire") /\ UNCHANGED <<errand, wired>> /\ fork' = fork
  BY DEF Unresolved
<1> QED BY <1>1, <1>2, ForkStays, EarlyKeeps DEF SetupSteps, FundedSteps

LEMMA SeeAccumulatorKeeps == ASSUME DemoInv, NEW u \in Callers, SeeAccumulator(u) PROVE DemoInv'
<1> DEFINE s == IF fork.acc THEN "bcv" ELSE "init"
<1>1. s \in EarlySteps \ {"new", "quote", "buy", "icon"} /\ request[u].step \in EarlySteps \ {"quote", "simulate", "submit"}
  BY DEF SeeAccumulator, Stands, EarlySteps, SetupSteps
<1>2. Step(u, s) /\ UNCHANGED <<errand, wired>> /\ fork' = fork
  BY DEF SeeAccumulator
<1>3. /\ s \in SetupSteps => fork.acc
      /\ s \notin FundedSteps /\ s \notin {"extend", "activate", "migrate", "simulate", "submit"}
  BY DEF SetupSteps, FundedSteps
<1> HIDE DEF s
<1> QED BY <1>1, <1>2, <1>3, ForkStays, EarlyKeeps

LEMMA SeeCurveV2Keeps == ASSUME DemoInv, NEW u \in Callers, SeeCurveV2(u) PROVE DemoInv'
<1> DEFINE s == IF fork.bcv = "live" THEN "table" ELSE IF fork.bcv = "rent" THEN "warm" ELSE "fund"
<1>1. s \in EarlySteps \ {"new", "quote", "buy", "icon"} /\ request[u].step \in EarlySteps \ {"quote", "simulate", "submit"}
  BY DEF SeeCurveV2, Stands, EarlySteps, SetupSteps
<1>2. Step(u, s) /\ UNCHANGED <<errand, wired>> /\ fork' = fork
  BY DEF SeeCurveV2
<1>3. fork.acc
  BY SetupKnown DEF SeeCurveV2, Stands, SetupOK, SetupSteps
<1>4. /\ s \in FundedSteps => fork.bcv # "none"
      /\ s \notin {"extend", "activate", "migrate", "simulate", "submit"}
  BY DEF FundedSteps
<1> HIDE DEF s
<1> QED BY <1>1, <1>2, <1>3, <1>4, ForkStays, EarlyKeeps

LEMMA FundCurveV2Keeps == ASSUME DemoInv, NEW u \in Callers, FundCurveV2(u) PROVE DemoInv'
<1> DEFINE f == [fork EXCEPT !.bcv = IF @ = "none" THEN "rent" ELSE @]
<1>1. fork \in DemoFork /\ DemoForkOK(fork)
  BY DemoParts
<1>2. /\ f \in DemoFork /\ f.acc = fork.acc /\ f.bcv # "none" /\ f.tables = fork.tables /\ f.lease = fork.lease
      /\ f.remembered = fork.remembered /\ f.complete = fork.complete /\ f.pool = fork.pool /\ f.icons = fork.icons
      /\ f.excluded = fork.excluded /\ f.queue = fork.queue /\ f.raised = fork.raised
  BY <1>1 DEF DemoFork
<1>3. request[u].step \in EarlySteps \ {"quote", "simulate", "submit"} /\ "warm" \in EarlySteps \ {"new", "quote", "buy", "icon"} /\ fork.acc
  BY SetupKnown DEF FundCurveV2, Stands, EarlySteps, SetupSteps, SetupOK
<1>4. Step(u, "warm") /\ UNCHANGED <<errand, wired>> /\ fork' = f
  BY DEF FundCurveV2
<1> HIDE DEF f
<1>5. DemoForkOK(f) /\ ForkGrows(u, fork, f)
  BY <1>1, <1>2 DEF DemoForkOK, ForkGrows
<1> QED BY <1>2, <1>3, <1>4, <1>5, EarlyKeeps

LEMMA WarmKeeps == ASSUME DemoInv, NEW u \in Callers, NEW ok \in BOOLEAN, Warm(u, ok) PROVE DemoInv'
<1> DEFINE f == [fork EXCEPT !.bcv = IF ok THEN "live" ELSE @]
<1>1. fork \in DemoFork /\ DemoForkOK(fork)
  BY DemoParts
<1>2. request[u].step \in EarlySteps \ {"quote", "simulate", "submit"} /\ "table" \in EarlySteps \ {"new", "quote", "buy", "icon"}
      /\ fork.acc /\ fork.bcv # "none"
  BY SetupKnown DEF Warm, Stands, EarlySteps, SetupSteps, FundedSteps, SetupOK
<1>3. /\ f \in DemoFork /\ f.acc = fork.acc /\ f.bcv # "none" /\ f.tables = fork.tables /\ f.lease = fork.lease
      /\ f.remembered = fork.remembered /\ f.complete = fork.complete /\ f.pool = fork.pool /\ f.icons = fork.icons
      /\ f.excluded = fork.excluded /\ f.queue = fork.queue /\ f.raised = fork.raised
  BY <1>1, <1>2 DEF DemoFork
<1>4. Step(u, "table") /\ UNCHANGED <<errand, wired>> /\ fork' = f
  BY DEF Warm
<1> HIDE DEF f
<1>5. DemoForkOK(f) /\ ForkGrows(u, fork, f)
  BY <1>1, <1>3 DEF DemoForkOK, ForkGrows
<1> QED BY <1>2, <1>3, <1>4, <1>5, EarlyKeeps

\* A handler that ends without having sent anything.
LEMMA EndsUnsent ==
  ASSUME DemoInv, NEW u \in Callers, NEW a \in DemoAnswers \ {"burned", "deterministic"}, NEW f \in DemoFork,
         UNCHANGED <<errand, wired>>, Reply(u, a), fork' = f, request[u].step \in EarlySteps,
         DemoForkOK(f), ForkGrows(u, fork, f), f.raised = fork.raised, f.complete = fork.complete,
         IF request[u].step = "quote" THEN f.queue = Tail(fork.queue) /\ Head(fork.queue) = u ELSE f.queue = fork.queue
  PROVE  DemoInv'
<1>1. request[u].step # "answered"
  BY DEF EarlySteps, SetupSteps
<1>2. a # "burned" /\ a # "deterministic" /\ a \in DemoAnswers
  OBVIOUS
<1> QED BY <1>1, <1>2, NothingSent, ReplyKeeps

LEMMA InitAccumulatorKeeps == ASSUME DemoInv, NEW u \in Callers, InitAccumulator(u) PROVE DemoInv'
<1>1. request[u].step \in EarlySteps \ {"quote", "simulate", "submit"} /\ "bcv" \in EarlySteps \ {"new", "quote", "buy", "icon"}
      /\ "error" \in DemoAnswers \ {"burned", "deterministic"} /\ "bcv" \notin FundedSteps
  BY DEF InitAccumulator, Stands, EarlySteps, SetupSteps, DemoAnswers, FundedSteps
<1>2. CASE fork.acc
  <2>1. Reply(u, "error") /\ UNCHANGED <<errand, wired>> /\ fork' = fork
    BY <1>2 DEF InitAccumulator, Escapes
  <2> QED BY <1>1, <2>1, ForkStays, EndsUnsent
<1>3. CASE ~fork.acc
  <2> DEFINE f == [fork EXCEPT !.acc = TRUE]
  <2>1. fork \in DemoFork /\ DemoForkOK(fork)
    BY DemoParts
  <2>2. /\ f \in DemoFork /\ f.acc /\ f.bcv = fork.bcv /\ f.tables = fork.tables /\ f.lease = fork.lease
        /\ f.remembered = fork.remembered /\ f.complete = fork.complete /\ f.pool = fork.pool /\ f.icons = fork.icons
        /\ f.excluded = fork.excluded /\ f.queue = fork.queue /\ f.raised = fork.raised
    BY <2>1 DEF DemoFork
  <2>3. Step(u, "bcv") /\ UNCHANGED <<errand, wired>> /\ fork' = f
    BY <1>3 DEF InitAccumulator
  <2> HIDE DEF f
  <2>4. DemoForkOK(f) /\ ForkGrows(u, fork, f)
    BY <2>1, <2>2 DEF DemoForkOK, ForkGrows
  <2> QED BY <1>1, <2>2, <2>3, <2>4, EarlyKeeps
<1> QED BY <1>2, <1>3

LEMMA SetupFailsKeeps == ASSUME DemoInv, NEW u \in Callers, SetupFails(u) PROVE DemoInv'
<1>1. request[u].step \in EarlySteps \ {"quote", "simulate", "submit"} /\ "error" \in DemoAnswers \ {"burned", "deterministic"}
  BY DEF SetupFails, EarlySteps, SetupSteps, DemoAnswers
<1>2. Reply(u, "error") /\ UNCHANGED <<errand, wired>> /\ fork' = fork
  BY DEF SetupFails, Escapes
<1> QED BY <1>1, <1>2, ForkStays, EndsUnsent

\* A step before the submission that changes more than the step.
LEMMA EarlyMoves ==
  ASSUME DemoInv, NEW u \in Callers, NEW q \in DemoRequest, NEW f \in DemoFork,
         request' = [request EXCEPT ![u] = q], UNCHANGED <<errand, wired>>, fork' = f,
         request[u].step \in EarlySteps, q.step \in EarlySteps,
         q.attempt = request[u].attempt, q.answer = request[u].answer, q.lost = request[u].lost,
         DemoForkOK(f), ForkGrows(u, fork, f), QueueMoves(u, request[u], fork, q, f), CurveMoves(request[u], fork, q, f),
         SetupOK(q, f), ExclusionsOK(q, f), ErrandOK(q, errand[u], f),
         ~SlowFetch /\ q.step \in LeasedSteps => f.lease = u
  PROVE  DemoInv'
<1> DEFINE r == request[u]
           m == wired[u]
<1>1. /\ r \in DemoRequest /\ m \in [1 .. MaxAttempts -> DemoFates] /\ SendsOK(r, m)
      /\ wired \in [Callers -> [1 .. MaxAttempts -> DemoFates]]
  BY DemoParts DEF DemoTyped, DemoCallerOK
<1>2. wired' = [wired EXCEPT ![u] = m] /\ errand' = errand
  BY <1>1
<1>3. r.answer = Nil /\ (~r.lost => \A n \in 1 .. MaxAttempts : m[n] # "flying") /\ m[r.attempt] = "none"
  BY NothingSent DEF Fate
<1> HIDE DEF r, m
<1>4. SendsOK(q, m)
  <2>1. q.step \notin {"confirm", "fetch", "balance", "answered"}
    BY DEF EarlySteps, SetupSteps
  <2> QED BY <1>1, <1>3, <2>1 DEF r, SendsOK, Nil
<1>5. LeaseOK(u, q, m, f)
  BY <1>3 DEF r, LeaseOK
<1>6. DemoCallerOK(u, errand[u], q, m, f)
  BY <1>4, <1>5 DEF DemoCallerOK
<1> QED BY <1>1, <1>2, <1>6, DemoMoves

-----------------------------------------------------------------------------
(* The lookup table *)

LEMMA UsesKeeps ==
  ASSUME DemoInv, NEW u \in Callers, NEW f \in DemoFork, NEW t \in 1 .. Len(f.tables), NEW missing \in SUBSET AddressRange,
         AddressRange \subseteq f.tables[t] \cup missing, Uses(u, t, missing), UNCHANGED <<errand, wired>>, fork' = f,
         request[u].step \in EarlySteps \ {"quote", "new", "simulate", "submit"}, DemoForkOK(f), ForkGrows(u, fork, f),
         f.queue = fork.queue, f.raised = fork.raised, f.complete = fork.complete, f.acc, f.bcv # "none"
  PROVE  DemoInv'
<1> DEFINE r == request[u]
           s == IF missing = {} THEN "acquire" ELSE "extend"
           q == [r EXCEPT !.table = t, !.missing = missing, !.waits = 0, !.step = s]
<1>1. r \in DemoRequest /\ request \in [Callers -> DemoRequest] /\ ExclusionsOK(r, fork)
  BY DemoParts DEF DemoTyped, DemoCallerOK
<1>2. t \in Nat \ {0} /\ s \in EarlySteps \ {"quote", "new", "simulate", "submit", "buy", "migrate", "icon"} /\ s \in DemoSteps /\ s \notin LeasedSteps
  BY DEF EarlySteps, SetupSteps, DemoSteps, LeasedSteps, DemoFork
<1>3. request' = [request EXCEPT ![u] = q]
  BY <1>1 DEF Uses
<1> HIDE DEF s
<1>4. /\ q \in DemoRequest /\ q.step = s /\ q.attempt = r.attempt /\ q.last = r.last /\ q.route = r.route
      /\ q.table = t /\ q.missing = missing /\ q.answer = r.answer /\ q.lost = r.lost /\ q.disturbed = r.disturbed
  BY <1>1, <1>2 DEF DemoRequest
<1> HIDE DEF q
<1>5. SetupOK(q, f)
  BY <1>2, <1>4 DEF SetupOK
<1>6. ExclusionsOK(q, f)
  BY <1>1, <1>2, <1>4 DEF ExclusionsOK, ForkGrows
<1>7. ErrandOK(q, errand[u], f)
  BY <1>2, <1>4 DEF ErrandOK
<1>8. QueueMoves(u, r, fork, q, f) /\ CurveMoves(r, fork, q, f) /\ r.step \in EarlySteps
  BY <1>2, <1>4 DEF QueueMoves, CurveMoves, EarlySteps, SetupSteps
<1> QED BY <1>2, <1>3, <1>4, <1>5, <1>6, <1>7, <1>8, EarlyMoves

LEMMA SeeTableKeeps == ASSUME DemoInv, NEW u \in Callers, SeeTable(u) PROVE DemoInv'
<1>1. /\ fork \in DemoFork /\ DemoForkOK(fork) /\ fork.remembered \in Nat /\ fork.remembered <= Len(fork.tables)
      /\ fork.tables \in Seq(SUBSET AddressRange)
  BY DemoParts DEF DemoForkOK, DemoFork
<1>2. request[u].step = "table" /\ fork.acc /\ fork.bcv # "none" /\ "create" \in EarlySteps \ {"new", "quote", "buy", "icon"}
  BY SetupKnown DEF SeeTable, Stands, EarlySteps, SetupSteps, FundedSteps, SetupOK
<1>3. CASE fork.remembered # 0
  <2>1. fork.remembered \in 1 .. Len(fork.tables)
    BY <1>1, <1>3
  <2>2. Missing(fork.remembered) \in SUBSET AddressRange
        /\ AddressRange \subseteq fork.tables[fork.remembered] \cup Missing(fork.remembered)
    BY DEF Missing, AddressRange
  <2>3. Uses(u, fork.remembered, Missing(fork.remembered)) /\ UNCHANGED <<errand, wired>> /\ fork' = fork
    BY <1>3 DEF SeeTable
  <2>4. request[u].step \in EarlySteps \ {"quote", "new", "simulate", "submit"}
    BY <1>2 DEF EarlySteps, SetupSteps
  <2> QED BY <1>1, <1>2, <2>1, <2>2, <2>3, <2>4, ForkStays, UsesKeeps
<1>4. CASE fork.remembered = 0
  <2>1. Step(u, "create") /\ UNCHANGED <<errand, wired>> /\ fork' = fork
    BY <1>4 DEF SeeTable
  <2>2. request[u].step \in EarlySteps \ {"quote", "simulate", "submit"}
    BY <1>2 DEF EarlySteps, SetupSteps
  <2> QED BY <1>2, <2>1, <2>2, ForkStays, EarlyKeeps
<1> QED BY <1>3, <1>4

LEMMA CreateTableKeeps == ASSUME DemoInv, NEW u \in Callers, CreateTable(u) PROVE DemoInv'
<1> DEFINE t == Len(fork.tables) + 1
           tables == Append(fork.tables, {})
           f == [fork EXCEPT !.tables = tables, !.remembered = t]
<1>1. fork \in DemoFork /\ DemoForkOK(fork) /\ fork.tables \in Seq(SUBSET AddressRange)
  BY DemoParts DEF DemoFork
<1>2. request[u].step \in EarlySteps \ {"quote", "new", "simulate", "submit"} /\ fork.acc /\ fork.bcv # "none"
  BY SetupKnown DEF CreateTable, Stands, EarlySteps, SetupSteps, FundedSteps, SetupOK
<1>3. /\ tables \in Seq(SUBSET AddressRange) /\ Len(tables) = t /\ t \in Nat \ {0} /\ Len(fork.tables) \in Nat
      /\ t = Len(fork.tables) + 1 /\ \A k \in 1 .. Len(fork.tables) : tables[k] = fork.tables[k]
  BY <1>1
<1>4. Uses(u, t, AddressRange) /\ UNCHANGED <<errand, wired>> /\ fork' = f
  BY <1>1 DEF CreateTable, AddressRange
<1> HIDE DEF t, tables
<1>5. /\ f \in DemoFork /\ f.acc = fork.acc /\ f.bcv = fork.bcv /\ f.tables = tables /\ f.lease = fork.lease
      /\ f.remembered = t /\ f.complete = fork.complete /\ f.pool = fork.pool /\ f.icons = fork.icons
      /\ f.excluded = fork.excluded /\ f.queue = fork.queue /\ f.raised = fork.raised
  BY <1>1, <1>3 DEF DemoFork
<1> HIDE DEF f
<1>6. DemoForkOK(f) /\ ForkGrows(u, fork, f)
  BY <1>1, <1>3, <1>5 DEF DemoForkOK, ForkGrows
<1>7. t \in 1 .. Len(f.tables) /\ f.acc /\ f.bcv # "none"
  BY <1>2, <1>3, <1>5
<1> QED BY <1>2, <1>4, <1>5, <1>6, <1>7, UsesKeeps

LEMMA ExtendTableKeeps == ASSUME DemoInv, NEW u \in Callers, ExtendTable(u) PROVE DemoInv'
<1> DEFINE r == request[u]
           t == r.table
<1>1. /\ r \in DemoRequest /\ request \in [Callers -> DemoRequest] /\ ExclusionsOK(r, fork) /\ SetupOK(r, fork)
      /\ fork \in DemoFork /\ DemoForkOK(fork) /\ fork.tables \in Seq(SUBSET AddressRange)
  BY DemoParts DEF DemoTyped, DemoCallerOK, DemoFork
<1>2. r.step = "extend" /\ t \in 1 .. Len(fork.tables) /\ fork.acc /\ fork.bcv # "none"
      /\ AddressRange \subseteq fork.tables[t] \cup r.missing
  BY <1>1 DEF ExtendTable, Stands, SetupOK
<1>3. PICK k \in r.missing :
        /\ fork' = [fork EXCEPT !.tables[t] = @ \cup {k}]
        /\ request' = [request EXCEPT ![u].missing = @ \ {k},
                                      ![u].step = IF r.missing = {k} THEN "activate" ELSE "extend"]
  BY DEF ExtendTable
<1> DEFINE s == IF r.missing = {k} THEN "activate" ELSE "extend"
           tables == [fork.tables EXCEPT ![t] = @ \cup {k}]
           f == [fork EXCEPT !.tables = tables]
           q == [r EXCEPT !.missing = @ \ {k}, !.step = s]
<1>4. k \in AddressRange /\ r.missing \in SUBSET AddressRange
  BY <1>1 DEF DemoRequest
<1>5. /\ tables \in Seq(SUBSET AddressRange) /\ Len(tables) = Len(fork.tables) /\ Len(fork.tables) \in Nat
      /\ tables[t] = fork.tables[t] \cup {k}
      /\ \A j \in 1 .. Len(fork.tables) : fork.tables[j] \subseteq tables[j]
  <2> DEFINE old == fork.tables
             new == old[t] \cup {k}
  <2>1. old \in Seq(SUBSET AddressRange) /\ t \in 1 .. Len(old) /\ new \in SUBSET AddressRange
    BY <1>1, <1>2, <1>4, ElementOfSeq
  <2>2. tables = [old EXCEPT ![t] = new]
    OBVIOUS
  <2>3. old[t] \subseteq new
    OBVIOUS
  <2> HIDE DEF old, new, t
  <2>4. /\ [old EXCEPT ![t] = new] \in Seq(SUBSET AddressRange) /\ Len([old EXCEPT ![t] = new]) = Len(old)
        /\ Len(old) \in Nat /\ \A j \in 1 .. Len(old) : [old EXCEPT ![t] = new][j] = IF j = t THEN new ELSE old[j]
    BY <2>1, ExceptSeq
  <2>5. [old EXCEPT ![t] = new][t] = new /\ \A j \in 1 .. Len(old) : old[j] \subseteq [old EXCEPT ![t] = new][j]
    BY <2>1, <2>3, <2>4
  <2> QED BY <2>2, <2>4, <2>5 DEF old, new
<1>6. fork' = f /\ request' = [request EXCEPT ![u] = q]
  BY <1>1, <1>3 DEF DemoFork
<1>7. s \in EarlySteps \ {"quote", "new", "simulate", "submit", "buy", "migrate", "icon"} /\ s \in DemoSteps /\ s \notin LeasedSteps
  BY DEF EarlySteps, SetupSteps, DemoSteps, LeasedSteps
<1> HIDE DEF tables, s
<1>8. /\ f \in DemoFork /\ f.acc = fork.acc /\ f.bcv = fork.bcv /\ f.tables = tables /\ f.lease = fork.lease
      /\ f.remembered = fork.remembered /\ f.complete = fork.complete /\ f.pool = fork.pool /\ f.icons = fork.icons
      /\ f.excluded = fork.excluded /\ f.queue = fork.queue /\ f.raised = fork.raised
  BY <1>1, <1>5 DEF DemoFork
<1>9. /\ q \in DemoRequest /\ q.step = s /\ q.attempt = r.attempt /\ q.last = r.last /\ q.route = r.route
      /\ q.table = t /\ q.missing = r.missing \ {k} /\ q.answer = r.answer /\ q.lost = r.lost /\ q.disturbed = r.disturbed
  BY <1>1, <1>4, <1>7 DEF DemoRequest
<1> HIDE DEF f, q, t
<1>10. DemoForkOK(f) /\ ForkGrows(u, fork, f)
  BY <1>1, <1>5, <1>8 DEF DemoForkOK, ForkGrows
<1>11. SetupOK(q, f)
  <2>1. t \in 1 .. Len(f.tables) /\ f.tables[t] = fork.tables[t] \cup {k} /\ t # 0
    BY <1>2, <1>5, <1>8
  <2>2. AddressRange \subseteq f.tables[t] \cup q.missing
    BY <1>2, <1>9, <2>1 DEF t
  <2> QED BY <1>2, <1>8, <1>9, <2>1, <2>2 DEF SetupOK
<1>12. "extend" \in EarlySteps \ {"simulate", "submit"}
  BY DEF EarlySteps, SetupSteps
<1>13. ExclusionsOK(q, f) /\ ErrandOK(q, errand[u], f)
  BY <1>1, <1>2, <1>12, <1>7, <1>8, <1>9 DEF ExclusionsOK, ErrandOK
<1>14. QueueMoves(u, r, fork, q, f) /\ CurveMoves(r, fork, q, f) /\ r.step \in EarlySteps
  BY <1>2, <1>7, <1>8, <1>9 DEF QueueMoves, CurveMoves, EarlySteps, SetupSteps
<1>15. UNCHANGED <<errand, wired>>
  BY DEF ExtendTable
<1> QED BY <1>6, <1>7, <1>8, <1>9, <1>10, <1>11, <1>13, <1>14, <1>15, EarlyMoves

LEMMA ActivateKeeps == ASSUME DemoInv, NEW u \in Callers, NEW active \in BOOLEAN, Activate(u, active) PROVE DemoInv'
<1> DEFINE r == request[u]
           q == [r EXCEPT !.waits = @ + 1]
<1>1. /\ r \in DemoRequest /\ request \in [Callers -> DemoRequest] /\ DemoCallerOK(u, errand[u], r, wired[u], fork)
  BY DemoParts DEF DemoTyped
<1>2. r.step = "activate" /\ r.step \in EarlySteps \ {"quote"} /\ "acquire" \in EarlySteps \ {"new", "quote", "buy", "icon"}
      /\ "activate" \notin LeasedSteps /\ "acquire" \notin SetupSteps \cup FundedSteps
  BY DEF Activate, Stands, EarlySteps, SetupSteps, FundedSteps, LeasedSteps
<1>3. CASE active \/ r.waits = Polls
  <2>1. Step(u, "acquire") /\ UNCHANGED <<errand, wired>> /\ fork' = fork
    BY <1>3 DEF Activate
  <2> QED BY <1>2, <2>1, ForkStays, EarlyKeeps
<1>4. CASE ~(active \/ r.waits = Polls)
  <2>1. request' = [request EXCEPT ![u] = q] /\ UNCHANGED <<errand, wired>> /\ fork' = fork
    BY <1>1, <1>4 DEF Activate
  <2>2. r.waits + 1 \in Nat
    BY <1>1 DEF DemoRequest
  <2>3. /\ q \in DemoRequest /\ q.step = r.step /\ q.attempt = r.attempt /\ q.last = r.last /\ q.route = r.route
        /\ q.table = r.table /\ q.missing = r.missing /\ q.todo = r.todo /\ q.answer = r.answer
        /\ q.lost = r.lost /\ q.disturbed = r.disturbed
    <3> DEFINE w == r.waits + 1
    <3> HIDE DEF w
    <3>1. [r EXCEPT !.waits = w] \in DemoRequest
      BY <1>1, <2>2 DEF DemoRequest, w
    <3>2. q = [r EXCEPT !.waits = w]
      BY DEF w
    <3> QED BY <1>1, <3>1, <3>2 DEF DemoRequest
  <2> HIDE DEF q
  <2>4. SetupOK(q, fork) /\ ExclusionsOK(q, fork) /\ ErrandOK(q, errand[u], fork)
    BY <1>1, <1>2, <2>3 DEF DemoCallerOK, SetupOK, ExclusionsOK, ErrandOK
  <2>5. QueueMoves(u, r, fork, q, fork) /\ CurveMoves(r, fork, q, fork)
    BY <2>3 DEF QueueMoves, CurveMoves
  <2>6. r.step \in EarlySteps /\ q.step \in EarlySteps /\ q.step \notin LeasedSteps
    BY <1>2, <2>3
  <2> QED BY <2>1, <2>3, <2>4, <2>5, <2>6, ForkStays, EarlyMoves
<1> QED BY <1>3, <1>4
-----------------------------------------------------------------------------
(* Attempts *)

LEMMA QueueHolds ==
  ASSUME DemoInv, NEW u \in Callers, request[u].step = "quote"
  PROVE  fork.queue \in Seq(Callers) /\ fork.queue # <<>> /\ Tail(fork.queue) \in Seq(Callers)
<1>1. DemoQueueOK /\ fork.queue \in Seq(Callers)
  BY DemoParts DEF DemoInv, DemoFork
<1>2. PICK i \in 1 .. Len(fork.queue) : fork.queue[i] = u
  BY <1>1 DEF DemoQueueOK, Stands
<1>3. Len(fork.queue) # 0
  BY <1>1, <1>2
<1> QED BY <1>1, <1>3

LEMMA AcquireVaultKeeps == ASSUME DemoInv, NEW u \in Callers, AcquireVault(u) PROVE DemoInv'
<1> DEFINE r == request[u]
<1>1. /\ r \in DemoRequest /\ request \in [Callers -> DemoRequest] /\ DemoCallerOK(u, errand[u], r, wired[u], fork)
      /\ fork \in DemoFork /\ DemoForkOK(fork) /\ fork.queue \in Seq(Callers)
  BY DemoParts DEF DemoTyped, DemoFork
<1>2. r.step = "acquire" /\ r.step \in EarlySteps \ {"quote", "simulate", "submit"} /\ UNCHANGED <<errand, wired>>
      /\ {"busy", "refused"} \subseteq DemoAnswers \ {"burned", "deterministic"}
  BY DEF AcquireVault, Stands, EarlySteps, DemoAnswers
<1>3. CASE fork.lease # NoOne
  <2>1. Reply(u, "busy") /\ fork' = fork
    BY <1>3 DEF AcquireVault
  <2> QED BY <1>2, <2>1, ForkStays, EndsUnsent
<1>4. CASE fork.lease = NoOne /\ fork.vault = 0
  <2>1. Reply(u, "refused") /\ fork' = fork
    BY <1>4 DEF AcquireVault
  <2> QED BY <1>2, <2>1, ForkStays, EndsUnsent
<1>5. CASE fork.lease = NoOne /\ fork.vault # 0 /\ r.table # 0
  <2> DEFINE f == [fork EXCEPT !.lease = u]
  <2>1. Step(u, "simulate") /\ fork' = f
    BY <1>5 DEF AcquireVault
  <2>2. /\ f \in DemoFork /\ f.acc = fork.acc /\ f.bcv = fork.bcv /\ f.tables = fork.tables /\ f.lease = u
        /\ f.remembered = fork.remembered /\ f.complete = fork.complete /\ f.pool = fork.pool /\ f.icons = fork.icons
        /\ f.excluded = fork.excluded /\ f.queue = fork.queue /\ f.raised = fork.raised
    BY <1>1 DEF DemoFork
  <2> HIDE DEF f
  <2>3. DemoForkOK(f) /\ ForkGrows(u, fork, f)
    BY <1>1, <1>5, <2>2, ForkQuiet
  <2>4. r.last \in Stale => r.route # r.last
    BY <1>1, <1>2, DemoConstants DEF DemoCallerOK, ExclusionsOK, EarlySteps
  <2>5. "simulate" \in EarlySteps \ {"new", "quote", "buy", "icon"} /\ "simulate" \notin SetupSteps \cup FundedSteps
    BY DEF EarlySteps, SetupSteps, FundedSteps
  <2> QED BY <1>2, <2>1, <2>2, <2>3, <2>4, <2>5, EarlyKeeps
<1>6. CASE fork.lease = NoOne /\ fork.vault # 0 /\ r.table = 0
  <2> DEFINE f == [fork EXCEPT !.lease = u, !.queue = Append(@, u)]
             q == [r EXCEPT !.step = "quote", !.waits = 0]
  <2>1. request' = [request EXCEPT ![u] = q] /\ fork' = f
    BY <1>1, <1>6 DEF AcquireVault
  <2>2. /\ f \in DemoFork /\ f.acc = fork.acc /\ f.bcv = fork.bcv /\ f.tables = fork.tables /\ f.lease = u
        /\ f.remembered = fork.remembered /\ f.complete = fork.complete /\ f.pool = fork.pool /\ f.icons = fork.icons
        /\ f.excluded = fork.excluded /\ f.queue = Append(fork.queue, u) /\ f.raised = fork.raised
    <3> DEFINE p == Append(fork.queue, u)
    <3>1. p \in Seq(Callers)
      BY <1>1
    <3> HIDE DEF p
    <3>2. f = [fork EXCEPT !.lease = u, !.queue = p]
      BY DEF p
    <3>3. p = Append(fork.queue, u)
      BY DEF p
    <3> QED BY <1>1, <3>1, <3>2, <3>3 DEF DemoFork
  <2>3. /\ q \in DemoRequest /\ q.step = "quote" /\ q.attempt = r.attempt /\ q.last = r.last /\ q.route = r.route
        /\ q.table = r.table /\ q.missing = r.missing /\ q.answer = r.answer /\ q.lost = r.lost /\ q.disturbed = r.disturbed
    BY <1>1 DEF DemoRequest, DemoSteps, EarlySteps
  <2> HIDE DEF f, q
  <2>4. DemoForkOK(f) /\ ForkGrows(u, fork, f)
    BY <1>1, <1>6, <2>2, ForkQuiet
  <2>5. "quote" \in EarlySteps \ {"simulate", "submit"} /\ "quote" \notin SetupSteps \cup FundedSteps
    BY DEF EarlySteps, SetupSteps, FundedSteps
  <2>6. SetupOK(q, f) /\ ErrandOK(q, errand[u], f)
    BY <1>6, <2>3, <2>5 DEF SetupOK, ErrandOK
  <2>7. ExclusionsOK(q, f)
    BY <1>1, <1>2, <2>2, <2>3, <2>5 DEF DemoCallerOK, ExclusionsOK
  <2>8. QueueMoves(u, r, fork, q, f) /\ CurveMoves(r, fork, q, f)
    BY <1>2, <2>2, <2>3 DEF QueueMoves, CurveMoves
  <2> QED BY <1>2, <2>1, <2>2, <2>3, <2>4, <2>5, <2>6, <2>7, <2>8, EarlyMoves
<1> QED BY <1>3, <1>4, <1>5, <1>6

LEMMA QuotedKeeps ==
  ASSUME DemoInv, NEW u \in Callers, NEW venue \in Stale \cup {"safe"}, Quoted(u, venue) PROVE DemoInv'
<1> DEFINE r == request[u]
           p == Tail(fork.queue)
           f == [fork EXCEPT !.queue = p]
           q == [r EXCEPT !.step = "simulate", !.route = venue]
<1>1. /\ r \in DemoRequest /\ request \in [Callers -> DemoRequest] /\ DemoCallerOK(u, errand[u], r, wired[u], fork)
      /\ fork \in DemoFork /\ DemoForkOK(fork)
  BY DemoParts DEF DemoTyped
<1>2. r.step = "quote" /\ UNCHANGED <<errand, wired>> /\ Head(fork.queue) = u /\ venue \notin fork.excluded
      /\ fork' = f
  BY DEF Quoted, Stands
<1>3. request' = [request EXCEPT ![u] = q]
  BY <1>1 DEF Quoted
<1>4. p \in Seq(Callers)
  BY <1>2, QueueHolds
<1>5. /\ q \in DemoRequest /\ q.step = "simulate" /\ q.attempt = r.attempt /\ q.last = r.last /\ q.route = venue
      /\ q.table = r.table /\ q.missing = r.missing /\ q.answer = r.answer /\ q.lost = r.lost /\ q.disturbed = r.disturbed
  BY <1>1 DEF DemoRequest, DemoSteps, EarlySteps
<1> HIDE DEF p, q
<1>6. /\ f \in DemoFork /\ f.acc = fork.acc /\ f.bcv = fork.bcv /\ f.tables = fork.tables /\ f.lease = fork.lease
      /\ f.remembered = fork.remembered /\ f.complete = fork.complete /\ f.pool = fork.pool /\ f.icons = fork.icons
      /\ f.excluded = fork.excluded /\ f.queue = p /\ f.raised = fork.raised
  BY <1>1, <1>4 DEF DemoFork
<1> HIDE DEF f
<1>7. DemoForkOK(f) /\ ForkGrows(u, fork, f)
  BY <1>1, <1>6, ForkQuiet
<1>8. "simulate" \in EarlySteps /\ "quote" \in EarlySteps /\ "simulate" \notin SetupSteps \cup FundedSteps
      /\ "quote" \in LeasedSteps
  BY DEF EarlySteps, SetupSteps, FundedSteps, LeasedSteps
<1>9. SetupOK(q, f)
  <2>1. SetupOK(r, fork)
    BY <1>1 DEF DemoCallerOK
  <2> QED BY <1>5, <1>6, <1>8, <2>1 DEF SetupOK
<1>10. ExclusionsOK(q, f) /\ ErrandOK(q, errand[u], f)
  BY <1>1, <1>2, <1>5, <1>6 DEF DemoCallerOK, ExclusionsOK, ErrandOK
<1>11. QueueMoves(u, r, fork, q, f) /\ CurveMoves(r, fork, q, f)
  BY <1>2, <1>5, <1>6 DEF p, QueueMoves, CurveMoves
<1>12. ~SlowFetch => f.lease = u
  BY <1>1, <1>2, <1>6, <1>8 DEF DemoCallerOK, LeaseOK
<1> QED BY <1>2, <1>3, <1>5, <1>6, <1>7, <1>8, <1>9, <1>10, <1>11, <1>12, EarlyMoves

LEMMA BacksOffKeeps == ASSUME DemoInv, NEW u \in Callers, BacksOff(u) PROVE DemoInv'
<1> DEFINE r == request[u]
           w == r.waits + 1
           q == [r EXCEPT !.waits = w]
<1>1. /\ r \in DemoRequest /\ request \in [Callers -> DemoRequest] /\ DemoCallerOK(u, errand[u], r, wired[u], fork)
      /\ w \in Nat
  BY DemoParts DEF DemoTyped, DemoRequest
<1>2. r.step = "quote" /\ "quote" \in EarlySteps /\ "quote" \in LeasedSteps
  BY DEF BacksOff, Stands, EarlySteps, LeasedSteps
<1>3. request' = [request EXCEPT ![u] = q] /\ UNCHANGED <<errand, wired>> /\ fork' = fork
  BY <1>1 DEF BacksOff
<1> HIDE DEF w
<1>4. /\ q \in DemoRequest /\ q.step = r.step /\ q.attempt = r.attempt /\ q.last = r.last /\ q.route = r.route
      /\ q.table = r.table /\ q.missing = r.missing /\ q.todo = r.todo /\ q.answer = r.answer
      /\ q.lost = r.lost /\ q.disturbed = r.disturbed
  BY <1>1 DEF DemoRequest
<1> HIDE DEF q
<1>5. SetupOK(q, fork) /\ ExclusionsOK(q, fork) /\ ErrandOK(q, errand[u], fork) /\ (~SlowFetch => fork.lease = u)
  BY <1>1, <1>2, <1>4 DEF DemoCallerOK, SetupOK, ExclusionsOK, ErrandOK, LeaseOK
<1>6. QueueMoves(u, r, fork, q, fork) /\ CurveMoves(r, fork, q, fork)
  BY <1>4 DEF QueueMoves, CurveMoves
<1> QED BY <1>2, <1>3, <1>4, <1>5, <1>6, ForkStays, EarlyMoves

\* Another attempt that remembers what it remembered, or an answer.
LEMMA RetriesOrEnds ==
  ASSUME DemoInv, NEW u \in Callers, NEW a \in DemoAnswers \ {"burned", "deterministic"}, NEW f \in DemoFork,
         (More(u) /\ NextAttempt(u, request[u].last)) \/ Reply(u, a),
         UNCHANGED <<errand, wired>>, fork' = f, request[u].step \in {"quote", "simulate", "submit"},
         DemoForkOK(f), ForkGrows(u, fork, f), f.raised = fork.raised, f.complete = fork.complete,
         IF request[u].step = "quote" THEN f.queue = Tail(fork.queue) /\ Head(fork.queue) = u ELSE f.queue = fork.queue
  PROVE  DemoInv'
<1>1. /\ request[u] \in DemoRequest /\ ExclusionsOK(request[u], fork)
  BY DemoParts DEF DemoCallerOK
<1>2. request[u].last \in Stale \cup Details \cup {Nil} /\ request[u].step \in EarlySteps
  BY <1>1 DEF DemoRequest, EarlySteps
<1>3. request[u].last \in Stale /\ ~request[u].disturbed => request[u].last \in f.excluded
  BY <1>1 DEF ExclusionsOK, ForkGrows
<1>4. CASE More(u) /\ NextAttempt(u, request[u].last)
  BY <1>2, <1>3, <1>4, NextKeeps
<1>5. CASE Reply(u, a)
  BY <1>2, <1>5, EndsUnsent
<1> QED BY <1>4, <1>5

LEMMA NoRouteKeeps == ASSUME DemoInv, NEW u \in Callers, NEW forkOnly \in BOOLEAN, NoRoute(u, forkOnly) PROVE DemoInv'
<1> DEFINE a == IF forkOnly THEN "forkOnly" ELSE "preflight"
           p == Tail(fork.queue)
           g == Freed(u)
           f == [g EXCEPT !.queue = p]
<1>1. request[u].step = "quote" /\ UNCHANGED <<errand, wired>> /\ Head(fork.queue) = u
  BY DEF NoRoute, Stands
<1>2. p \in Seq(Callers)
  BY <1>1, QueueHolds
<1>3. /\ g \in DemoFork /\ DemoForkOK(g) /\ ForkGrows(u, fork, g) /\ g.queue = fork.queue
      /\ g.raised = fork.raised /\ g.complete = fork.complete
  BY FreedFork
<1>4. fork' = f
  BY <1>3 DEF NoRoute
<1>5. (More(u) /\ NextAttempt(u, request[u].last)) \/ Reply(u, a)
  BY DEF NoRoute, Attributed
<1>6. a \in DemoAnswers \ {"burned", "deterministic"}
  BY DEF DemoAnswers
<1> HIDE DEF a, p, g
<1>7. /\ f \in DemoFork /\ f.acc = g.acc /\ f.bcv = g.bcv /\ f.tables = g.tables /\ f.lease = g.lease
      /\ f.remembered = g.remembered /\ f.complete = g.complete /\ f.pool = g.pool /\ f.icons = g.icons
      /\ f.excluded = g.excluded /\ f.queue = p /\ f.raised = g.raised
  BY <1>2, <1>3 DEF DemoFork
<1> HIDE DEF f
<1>8. DemoForkOK(f) /\ ForkGrows(u, fork, f)
  BY <1>3, <1>7 DEF DemoForkOK, ForkGrows
<1>9. f.queue = Tail(fork.queue) /\ f.raised = fork.raised /\ f.complete = fork.complete
  BY <1>3, <1>7 DEF p
<1> QED BY <1>1, <1>4, <1>5, <1>6, <1>7, <1>8, <1>9, RetriesOrEnds

LEMMA WeatherKeeps == ASSUME DemoInv, NEW u \in Callers, Weather(u) PROVE DemoInv'
<1>1. /\ request[u].step = "simulate" /\ UNCHANGED <<errand, wired>> /\ fork' = Freed(u)
      /\ (More(u) /\ NextAttempt(u, request[u].last)) \/ Reply(u, "burner")
  BY DEF Weather, Stands
<1>2. "burner" \in DemoAnswers \ {"burned", "deterministic"}
  BY DEF DemoAnswers
<1> QED BY <1>1, <1>2, FreedFork, RetriesOrEnds

LEMMA PreflightRefusesKeeps ==
  ASSUME DemoInv, NEW u \in Callers, NEW burner \in BOOLEAN, PreflightRefuses(u, burner) PROVE DemoInv'
<1>1. /\ request[u].step = "submit" /\ UNCHANGED <<errand, wired>> /\ fork' = Freed(u)
      /\ (More(u) /\ NextAttempt(u, request[u].last)) \/ Reply(u, "preflight")
  BY DEF PreflightRefuses, Attributed, Stands
<1>2. "preflight" \in DemoAnswers \ {"burned", "deterministic"}
  BY DEF DemoAnswers
<1> QED BY <1>1, <1>2, FreedFork, RetriesOrEnds

LEMMA PolicyRefusesKeeps == ASSUME DemoInv, NEW u \in Callers, PolicyRefuses(u) PROVE DemoInv'
<1>1. /\ request[u].step = "simulate" /\ UNCHANGED <<errand, wired>> /\ fork' = Freed(u) /\ Reply(u, "refused")
      /\ "refused" \in DemoAnswers \ {"burned", "deterministic"}
  BY DEF PolicyRefuses, Stands, DemoAnswers
<1> QED BY <1>1, FreedFork, RetriesOrEnds

LEMMA ExternalKeeps ==
  ASSUME DemoInv, NEW u \in Callers, NEW e \in Stale \cup Details, External(u, e) PROVE DemoInv'
<1> DEFINE r == request[u]
           g == Freed(u)
           X == IF Reroutable(e) THEN fork.excluded \cup {e} ELSE fork.excluded
           f == [g EXCEPT !.excluded = X]
<1>1. /\ r \in DemoRequest /\ ExclusionsOK(r, fork) /\ fork \in DemoFork /\ fork.excluded \in SUBSET Stale
  BY DemoParts DEF DemoCallerOK, DemoFork
<1>2. /\ r.step = "simulate" /\ UNCHANGED <<errand, wired>>
      /\ IF r.route \in Stale THEN e = r.route ELSE e \in Details
      /\ \/ More(u) /\ NextAttempt(u, e)
         \/ r.last = e /\ Reply(u, "deterministic")
         \/ Reply(u, "external")
  BY DEF External, Stands
<1>3. /\ g \in DemoFork /\ DemoForkOK(g) /\ ForkGrows(u, fork, g) /\ g.queue = fork.queue
      /\ g.raised = fork.raised /\ g.complete = fork.complete /\ g.excluded = fork.excluded
  BY FreedFork
<1>4. fork' = f
  BY <1>3 DEF External
<1>5. X \in SUBSET Stale /\ fork.excluded \subseteq X /\ (e \in Stale => e \in X)
  BY <1>1 DEF Reroutable
<1> HIDE DEF g, X
<1>6. /\ f \in DemoFork /\ f.acc = g.acc /\ f.bcv = g.bcv /\ f.tables = g.tables /\ f.lease = g.lease
      /\ f.remembered = g.remembered /\ f.complete = g.complete /\ f.pool = g.pool /\ f.icons = g.icons
      /\ f.excluded = X /\ f.queue = g.queue /\ f.raised = g.raised
  BY <1>3, <1>5 DEF DemoFork
<1> HIDE DEF f
<1>7. DemoForkOK(f) /\ ForkGrows(u, fork, f)
  BY <1>3, <1>5, <1>6 DEF DemoForkOK, ForkGrows
<1>8. f.queue = fork.queue /\ f.raised = fork.raised /\ f.complete = fork.complete /\ r.step \in EarlySteps
  BY <1>2, <1>3, <1>6 DEF EarlySteps
<1>9. CASE More(u) /\ NextAttempt(u, e)
  BY <1>2, <1>4, <1>5, <1>6, <1>7, <1>8, <1>9, NextKeeps
<1>10. CASE r.last = e /\ Reply(u, "deterministic")
  <2>1. r.disturbed \/ r.last \notin Stale
    BY <1>1, <1>2, <1>10, DemoConstants DEF ExclusionsOK
  <2>2. "deterministic" \in DemoAnswers /\ r.step # "answered" /\ "deterministic" # "burned"
    BY <1>2 DEF DemoAnswers
  <2> QED BY <1>2, <1>4, <1>6, <1>7, <1>8, <1>10, <2>1, <2>2, NothingSent, ReplyKeeps
<1>11. CASE Reply(u, "external")
  <2>1. "external" \in DemoAnswers \ {"burned", "deterministic"}
    BY DEF DemoAnswers
  <2> QED BY <1>2, <1>4, <1>6, <1>7, <1>8, <1>11, <2>1, EndsUnsent
<1> QED BY <1>2, <1>9, <1>10, <1>11

LEMMA PassesSimulationKeeps == ASSUME DemoInv, NEW u \in Callers, PassesSimulation(u) PROVE DemoInv'
<1>1. request[u].step = "simulate" /\ Step(u, "submit") /\ UNCHANGED <<errand, wired>> /\ fork' = fork
  BY DEF PassesSimulation, Stands
<1>2. ~SlowFetch => fork.lease = u
  BY <1>1, DemoParts DEF DemoCallerOK, LeaseOK, LeasedSteps
<1>3. "submit" \in EarlySteps \ {"new", "quote", "buy", "icon"} /\ request[u].step \in EarlySteps \ {"quote"}
      /\ "submit" \notin SetupSteps \cup FundedSteps
  BY <1>1 DEF EarlySteps, SetupSteps, FundedSteps
<1> QED BY <1>1, <1>2, <1>3, ForkStays, EarlyKeeps
-----------------------------------------------------------------------------
(* Submission and settlement *)

LEMMA SubmitBurnKeeps == ASSUME DemoInv, NEW u \in Callers, SubmitBurn(u) PROVE DemoInv'
<1> DEFINE r == request[u]
           old == wired[u]
           m == [old EXCEPT ![r.attempt] = "flying"]
<1>1. /\ r \in DemoRequest /\ old \in [1 .. MaxAttempts -> DemoFates] /\ DemoCallerOK(u, errand[u], r, old, fork)
      /\ wired \in [Callers -> [1 .. MaxAttempts -> DemoFates]] /\ r.attempt \in 1 .. MaxAttempts
  BY DemoParts DEF DemoTyped
<1>2. r.step = "submit" /\ Step(u, "confirm") /\ errand' = errand /\ fork' = fork
  BY DEF SubmitBurn, Stands
<1>3. wired' = [wired EXCEPT ![u] = m]
  BY <1>1 DEF SubmitBurn, Mark
<1>4. /\ m \in [1 .. MaxAttempts -> DemoFates] /\ m[r.attempt] = "flying"
      /\ \A n \in 1 .. MaxAttempts : n # r.attempt => m[n] = old[n]
  BY <1>1 DEF DemoFates
<1> HIDE DEF m
<1>5. ASSUME NEW q \in DemoRequest,
             /\ q.step = "confirm" /\ q.attempt = r.attempt /\ q.last = r.last /\ q.route = r.route
             /\ q.table = r.table /\ q.missing = r.missing /\ q.todo = r.todo
             /\ q.answer = r.answer /\ q.lost = r.lost /\ q.disturbed = r.disturbed
      PROVE  DemoCallerOK(u, errand[u], q, m, fork)
  <2>1. r.answer = Nil /\ "confirm" \notin EarlySteps /\ "submit" \in LeasedSteps
        /\ "confirm" \notin SetupSteps \cup FundedSteps \cup {"extend", "activate"}
    BY <1>2, NothingSent DEF EarlySteps, SetupSteps, FundedSteps, LeasedSteps
  <2>2. SendsOK(q, m)
    <3>1. SendsOK(r, old) /\ MaxAttempts \in Nat
      BY <1>1, DemoConstants DEF DemoCallerOK
    <3>2. q.answer = Nil /\ Nil \notin Unmoved /\ Nil # "burned"
      BY <1>5, <2>1 DEF Nil, Unmoved
    <3>3. \A n \in 1 .. MaxAttempts : n > q.attempt => m[n] = "none"
      BY <1>1, <1>4, <1>5, <3>1 DEF SendsOK
    <3>4. ~q.lost => \A n \in 1 .. MaxAttempts : n < q.attempt => m[n] = "none"
      BY <1>1, <1>4, <1>5, <3>1 DEF SendsOK
    <3> QED BY <1>4, <1>5, <2>1, <3>2, <3>3, <3>4 DEF SendsOK
  <2>3. SetupOK(q, fork) /\ ErrandOK(q, errand[u], fork)
    BY <1>1, <1>5, <2>1 DEF DemoCallerOK, SetupOK, ErrandOK
  <2>4. ExclusionsOK(q, fork)
    BY <1>1, <1>5, <2>1 DEF DemoCallerOK, ExclusionsOK
  <2>5. LeaseOK(u, q, m, fork)
    BY <1>1, <1>2, <2>1 DEF DemoCallerOK, LeaseOK
  <2> QED BY <2>2, <2>3, <2>4, <2>5 DEF DemoCallerOK
<1>6. "confirm" \in DemoSteps \ {"quote", "answered"} /\ r.step \notin {"quote", "answered"}
  BY <1>2 DEF DemoSteps
<1> QED BY <1>2, <1>3, <1>4, <1>5, <1>6, ForkStays, StepKeeps DEF r

\* The answer to a submission is lost: whatever was sent, the handler goes on.
LEMMA LosesAnswer ==
  ASSUME DemoInv, NEW u \in Callers, NEW q \in DemoRequest, NEW m \in [1 .. MaxAttempts -> DemoFates], NEW f \in DemoFork,
         request' = [request EXCEPT ![u] = q], wired' = [wired EXCEPT ![u] = m], fork' = f, errand' = errand,
         request[u].step = "submit", q.lost, q.last = request[u].last, q.route = Nil, q.missing = request[u].missing,
         q.disturbed = request[u].disturbed,
         \A n \in 1 .. MaxAttempts : n # request[u].attempt => m[n] = wired[u][n],
         IF More(u) THEN q.step = "acquire" /\ q.attempt = request[u].attempt + 1 /\ q.answer = Nil
                         /\ q.table = request[u].table
         ELSE q.step = "answered" /\ q.attempt = request[u].attempt /\ q.answer = "preflight" /\ q.table = 0,
         DemoForkOK(f), ForkGrows(u, fork, f), f.queue = fork.queue, f.raised = fork.raised, f.complete = fork.complete
  PROVE  DemoInv'
<1> DEFINE r == request[u]
           old == wired[u]
<1>1. /\ r \in DemoRequest /\ DemoCallerOK(u, errand[u], r, old, fork) /\ r.attempt \in 1 .. MaxAttempts
      /\ MaxAttempts \in Nat
  BY DemoParts, DemoConstants
<1>2. /\ r.step = "submit" /\ q.lost /\ q.last = r.last /\ q.missing = r.missing /\ q.disturbed = r.disturbed
      /\ \A n \in 1 .. MaxAttempts : n # r.attempt => m[n] = old[n]
      /\ \/ /\ q.step = "acquire" /\ q.attempt = r.attempt + 1 /\ q.answer = Nil /\ q.table = r.table
            /\ r.attempt < MaxAttempts
         \/ q.step = "answered" /\ q.attempt = r.attempt /\ q.answer = "preflight" /\ q.table = 0
  BY DEF More
<1>3. "answered" \notin EarlySteps /\ {"acquire", "answered"} \cap (SetupSteps \cup FundedSteps \cup LeasedSteps) = {}
      /\ Nil # "preflight" /\ q.step \in {"acquire", "answered"}
  BY <1>2 DEF EarlySteps, SetupSteps, FundedSteps, LeasedSteps, Nil
<1> HIDE DEF r, old
<1>4. SendsOK(q, m)
  <2>1. SendsOK(r, old)
    BY <1>1 DEF DemoCallerOK
  <2>2. \A n \in 1 .. MaxAttempts : n > q.attempt => m[n] = "none"
    <3>1. q.attempt \in 1 .. MaxAttempts /\ q.attempt >= r.attempt
      BY <1>1, <1>2
    <3>2. \A n \in 1 .. MaxAttempts : n > q.attempt => n > r.attempt /\ n # r.attempt
      BY <1>1, <3>1
    <3> QED BY <1>2, <2>1, <3>2 DEF SendsOK
  <2>3. q.step = "acquire" => m[q.attempt] = "none"
    <3> SUFFICES ASSUME q.step = "acquire" PROVE m[q.attempt] = "none"
      OBVIOUS
    <3>1. q.attempt \in 1 .. MaxAttempts /\ q.attempt > r.attempt /\ q.attempt # r.attempt
      BY <1>1, <1>2
    <3> QED BY <1>2, <2>1, <3>1 DEF SendsOK
  <2>4. q.answer # Nil <=> q.step = "answered"
    BY <1>2, <1>3
  <2>5. q.answer # "burned" /\ q.step \notin {"confirm", "fetch", "balance"}
    BY <1>2 DEF Nil
  <2> QED BY <1>2, <1>3, <2>2, <2>3, <2>4, <2>5 DEF SendsOK
<1>5. SetupOK(q, f)
  <2>1. SetupOK(r, f)
    BY <1>1, DemoParts, SetupStays DEF DemoCallerOK
  <2> QED BY <1>2, <1>3, <2>1 DEF SetupOK
<1>6. ExclusionsOK(q, f)
  BY <1>1, <1>2, <1>3 DEF DemoCallerOK, ExclusionsOK, ForkGrows, Nil
<1>7. ErrandOK(q, errand[u], f) /\ LeaseOK(u, q, m, f)
  BY <1>2, <1>3 DEF ErrandOK, LeaseOK
<1>8. DemoCallerOK(u, errand[u], q, m, f)
  BY <1>4, <1>5, <1>6, <1>7 DEF DemoCallerOK
<1>9. QueueMoves(u, request[u], fork, q, f) /\ CurveMoves(request[u], fork, q, f)
  BY <1>2, <1>3 DEF r, QueueMoves, CurveMoves
<1> QED BY <1>8, <1>9, DemoMoves

LEMMA SubmitLostKeeps == ASSUME DemoInv, NEW u \in Callers, NEW taken \in BOOLEAN, SubmitLost(u, taken) PROVE DemoInv'
<1> DEFINE r == request[u]
           m == IF taken THEN [wired[u] EXCEPT ![r.attempt] = "flying"] ELSE wired[u]
<1>1. /\ r \in DemoRequest /\ request \in [Callers -> DemoRequest] /\ wired[u] \in [1 .. MaxAttempts -> DemoFates]
      /\ wired \in [Callers -> [1 .. MaxAttempts -> DemoFates]] /\ r.attempt \in 1 .. MaxAttempts /\ MaxAttempts \in Nat
      /\ r.answer = Nil
  <2>1. request[u].step \in EarlySteps
    BY DEF SubmitLost, Stands, EarlySteps
  <2> QED BY <2>1, DemoParts, NothingSent, DemoConstants DEF DemoTyped
<1>2. r.step = "submit" /\ errand' = errand /\ fork' = Freed(u)
  BY DEF SubmitLost, Stands
<1>3. wired' = [wired EXCEPT ![u] = m]
  BY <1>1 DEF SubmitLost, Mark
<1>4. m \in [1 .. MaxAttempts -> DemoFates] /\ \A n \in 1 .. MaxAttempts : n # r.attempt => m[n] = wired[u][n]
  BY <1>1 DEF DemoFates
<1> HIDE DEF m
<1>5. CASE More(u)
  <2> DEFINE k == r.attempt + 1
             q == [r EXCEPT !.lost = TRUE, !.route = Nil, !.step = "acquire", !.attempt = k]
  <2>1. k \in 1 .. MaxAttempts
    BY <1>1, <1>5 DEF More
  <2>2. request' = [request EXCEPT ![u] = q]
    BY <1>1, <1>5 DEF SubmitLost
  <2>3. k = request[u].attempt + 1
    OBVIOUS
  <2> HIDE DEF k
  <2>4. /\ q \in DemoRequest /\ q.lost /\ q.last = r.last /\ q.route = Nil /\ q.missing = r.missing
        /\ q.disturbed = r.disturbed /\ q.step = "acquire" /\ q.attempt = k /\ q.answer = Nil /\ q.table = r.table
    BY <1>1, <2>1 DEF DemoRequest, DemoSteps, EarlySteps
  <2> HIDE DEF q
  <2> QED BY <1>2, <1>3, <1>4, <1>5, <2>2, <2>3, <2>4, FreedFork, LosesAnswer
<1>6. CASE ~More(u)
  <2> DEFINE q == [r EXCEPT !.lost = TRUE, !.route = Nil, !.step = "answered", !.answer = "preflight", !.table = 0]
  <2>1. request' = [request EXCEPT ![u] = q]
    BY <1>1, <1>6 DEF SubmitLost
  <2>2. /\ q \in DemoRequest /\ q.lost /\ q.last = r.last /\ q.route = Nil /\ q.missing = r.missing
        /\ q.disturbed = r.disturbed /\ q.step = "answered" /\ q.attempt = r.attempt /\ q.answer = "preflight"
        /\ q.table = 0
    BY <1>1 DEF DemoRequest, DemoSteps, DemoAnswers
  <2> HIDE DEF q
  <2> QED BY <1>2, <1>3, <1>4, <1>6, <2>1, <2>2, FreedFork, LosesAnswer
<1> QED BY <1>5, <1>6

LEMMA ExecutesKeeps ==
  ASSUME DemoInv, NEW u \in Callers, NEW n \in 1 .. MaxAttempts, NEW how \in {"landed", "failed", "expired"},
         Executes(u, n, how)
  PROVE  DemoInv'
<1> DEFINE r == request[u]
           old == wired[u]
           m == [old EXCEPT ![n] = how]
           v == IF how = "landed" THEN fork.vault - 1 ELSE fork.vault
           f == [fork EXCEPT !.vault = v]
<1>1. /\ r \in DemoRequest /\ old \in [1 .. MaxAttempts -> DemoFates] /\ DemoCallerOK(u, errand[u], r, old, fork)
      /\ wired \in [Callers -> [1 .. MaxAttempts -> DemoFates]] /\ r.attempt \in 1 .. MaxAttempts
      /\ request \in [Callers -> DemoRequest] /\ fork \in DemoFork /\ DemoForkOK(fork) /\ fork.vault \in Nat
      /\ MaxAttempts \in Nat
  BY DemoParts, DemoConstants DEF DemoTyped, DemoFork
<1>2. old[n] = "flying" /\ errand' = errand /\ request' = [request EXCEPT ![u] = r] /\ fork' = f
      /\ wired' = [wired EXCEPT ![u] = m] /\ v \in Nat
  BY <1>1 DEF Executes
<1>3. /\ m \in [1 .. MaxAttempts -> DemoFates] /\ m[n] = how
      /\ \A k \in 1 .. MaxAttempts : k # n => m[k] = old[k]
  BY <1>1 DEF DemoFates
<1> HIDE DEF v, m
<1>4. /\ f \in DemoFork /\ f.acc = fork.acc /\ f.bcv = fork.bcv /\ f.tables = fork.tables /\ f.lease = fork.lease
      /\ f.remembered = fork.remembered /\ f.complete = fork.complete /\ f.pool = fork.pool /\ f.icons = fork.icons
      /\ f.excluded = fork.excluded /\ f.queue = fork.queue /\ f.raised = fork.raised
  BY <1>1, <1>2 DEF DemoFork
<1> HIDE DEF f
<1>5. DemoForkOK(f) /\ ForkGrows(u, fork, f)
  BY <1>1, <1>4, ForkQuiet
<1> HIDE DEF r, old
<1>6. SendsOK(r, m)
  <2>1. SendsOK(r, old)
    BY <1>1 DEF DemoCallerOK
  <2>2. n <= r.attempt /\ how \notin {"none", "flying"}
    BY <1>1, <1>2, <2>1 DEF SendsOK
  <2>3. \A k \in 1 .. MaxAttempts : old[k] = "none" => m[k] = "none"
    BY <1>2, <1>3
  <2>4. \A k \in 1 .. MaxAttempts : old[k] # "flying" => m[k] = old[k]
    BY <1>2, <1>3
  <2>5. \A k \in 1 .. MaxAttempts : old[k] # "none" => m[k] # "none"
    BY <1>3, <2>2, <2>4
  <2> QED BY <1>1, <2>1, <2>3, <2>4, <2>5 DEF SendsOK
<1>7. SetupOK(r, f) /\ ExclusionsOK(r, f) /\ ErrandOK(r, errand[u], f)
  BY <1>1, <1>4 DEF DemoCallerOK, SetupOK, ExclusionsOK, ErrandOK
<1>8. LeaseOK(u, r, m, f)
  BY <1>1, <1>2, <1>3, <1>4 DEF DemoCallerOK, LeaseOK
<1>9. DemoCallerOK(u, errand[u], r, m, f)
  BY <1>6, <1>7, <1>8 DEF DemoCallerOK
<1>10. QueueMoves(u, r, fork, r, f) /\ CurveMoves(r, fork, r, f)
  BY <1>4 DEF QueueMoves, CurveMoves
<1> QED BY <1>1, <1>2, <1>3, <1>4, <1>5, <1>9, <1>10, DemoMoves DEF r

LEMMA ConfirmedKeeps == ASSUME DemoInv, NEW u \in Callers, Confirmed(u) PROVE DemoInv'
<1> DEFINE r == request[u]
           m == wired[u]
<1>1. /\ r \in DemoRequest /\ m \in [1 .. MaxAttempts -> DemoFates] /\ DemoCallerOK(u, errand[u], r, m, fork)
      /\ wired \in [Callers -> [1 .. MaxAttempts -> DemoFates]] /\ r.attempt \in 1 .. MaxAttempts
  BY DemoParts DEF DemoTyped
<1>2. r.step = "confirm" /\ Fate(u) # "flying" /\ UNCHANGED <<errand, wired, fork>> /\ Fate(u) = m[r.attempt]
  BY DEF Confirmed, Stands, Fate
<1>3. CASE Fate(u) = "expired"
  <2>1. Reply(u, "error")
    BY <1>3 DEF Confirmed, Escapes
  <2>2. "error" \in DemoAnswers \ (Unmoved \cup {"burned", "deterministic"})
    BY DEF DemoAnswers, Unmoved
  <2>3. ~SlowFetch /\ ~r.lost /\ (\E n \in 1 .. MaxAttempts : m[n] = "flying") => fork.lease = u
    BY <1>1 DEF DemoCallerOK, LeaseOK
  <2> QED BY <1>2, <2>1, <2>2, <2>3, ForkStays, ReplyKeeps
<1>4. CASE Fate(u) # "expired"
  <2>1. Step(u, "fetch")
    BY <1>4 DEF Confirmed
  <2>2. m[r.attempt] \in {"landed", "failed"}
    BY <1>1, <1>2, <1>4 DEF DemoCallerOK, SendsOK, DemoFates
  <2>3. wired' = [wired EXCEPT ![u] = m] /\ errand' = errand /\ fork' = fork
    BY <1>1, <1>2
  <2>4. "fetch" \in DemoSteps \ {"quote", "answered"} /\ r.step \notin {"quote", "answered"}
        /\ "fetch" \notin SetupSteps \cup FundedSteps \cup EarlySteps /\ "confirm" \in LeasedSteps
    BY <1>2 DEF DemoSteps, SetupSteps, FundedSteps, EarlySteps, LeasedSteps
  <2>5. ASSUME NEW q \in DemoRequest,
               /\ q.step = "fetch" /\ q.attempt = r.attempt /\ q.last = r.last /\ q.route = r.route
               /\ q.table = r.table /\ q.missing = r.missing /\ q.todo = r.todo
               /\ q.answer = r.answer /\ q.lost = r.lost /\ q.disturbed = r.disturbed
        PROVE  DemoCallerOK(u, errand[u], q, m, fork)
    <3>1. SendsOK(q, m)
      BY <1>1, <1>2, <2>2, <2>4, <2>5 DEF DemoCallerOK, SendsOK
    <3>2. SetupOK(q, fork) /\ ExclusionsOK(q, fork) /\ ErrandOK(q, errand[u], fork)
      BY <1>1, <1>2, <2>4, <2>5 DEF DemoCallerOK, SetupOK, ExclusionsOK, ErrandOK
    <3>3. LeaseOK(u, q, m, fork)
      BY <1>1, <1>2, <2>4, <2>5 DEF DemoCallerOK, LeaseOK
    <3> QED BY <3>1, <3>2, <3>3 DEF DemoCallerOK
  <2> QED BY <1>1, <2>1, <2>3, <2>4, <2>5, ForkStays, StepKeeps
<1> QED BY <1>3, <1>4
LEMMA SettleLeaseKeeps == ASSUME DemoInv, NEW u \in Callers, SettleLease(u) PROVE DemoInv'
<1> DEFINE r == request[u]
           m == wired[u]
           f == [fork EXCEPT !.lease = NoOne]
<1>1. /\ r \in DemoRequest /\ m \in [1 .. MaxAttempts -> DemoFates] /\ DemoCallerOK(u, errand[u], r, m, fork)
      /\ wired \in [Callers -> [1 .. MaxAttempts -> DemoFates]] /\ r.attempt \in 1 .. MaxAttempts /\ MaxAttempts \in Nat
      /\ fork \in DemoFork /\ DemoForkOK(fork)
  BY DemoParts, DemoConstants DEF DemoTyped
<1>2. r.step = "fetch" /\ UNCHANGED <<errand, wired>> /\ fork' = f /\ Fate(u) = m[r.attempt]
      /\ m[r.attempt] \in {"landed", "failed"}
  BY <1>1 DEF SettleLease, Stands, Fate, DemoCallerOK, SendsOK
<1>3. ~SlowFetch => fork.lease = u
  BY <1>1, <1>2 DEF DemoCallerOK, LeaseOK, LeasedSteps
<1>4. /\ f \in DemoFork /\ f.acc = fork.acc /\ f.bcv = fork.bcv /\ f.tables = fork.tables /\ f.lease = NoOne
      /\ f.remembered = fork.remembered /\ f.complete = fork.complete /\ f.pool = fork.pool /\ f.icons = fork.icons
      /\ f.excluded = fork.excluded /\ f.queue = fork.queue /\ f.raised = fork.raised
  BY <1>1 DEF DemoFork
<1> HIDE DEF f
<1>5. DemoForkOK(f) /\ ForkGrows(u, fork, f)
  BY <1>1, <1>3, <1>4, ForkQuiet
<1>6. ~r.lost => \A n \in 1 .. MaxAttempts : m[n] # "flying"
  <2> SUFFICES ASSUME ~r.lost, NEW n \in 1 .. MaxAttempts PROVE m[n] # "flying"
    OBVIOUS
  <2>1. n < r.attempt \/ n = r.attempt \/ n > r.attempt
    BY <1>1
  <2> QED BY <1>1, <1>2, <2>1 DEF DemoCallerOK, SendsOK
<1>7. CASE Fate(u) = "failed"
  <2>1. Reply(u, "landedFailed")
    BY <1>7 DEF SettleLease
  <2>2. "landedFailed" \in DemoAnswers \ (Unmoved \cup {"burned", "deterministic"})
    BY DEF DemoAnswers, Unmoved
  <2> QED BY <1>2, <1>4, <1>5, <1>6, <2>1, <2>2, ReplyKeeps
<1>8. CASE Fate(u) # "failed"
  <2>1. Step(u, "balance") /\ m[r.attempt] = "landed"
    BY <1>2, <1>8 DEF SettleLease
  <2>2. wired' = [wired EXCEPT ![u] = m] /\ errand' = errand
    BY <1>1, <1>2
  <2>3. "balance" \in DemoSteps \ {"quote", "answered"} /\ r.step \notin {"quote", "answered"}
        /\ "balance" \notin SetupSteps \cup FundedSteps \cup EarlySteps \cup LeasedSteps
    BY <1>2 DEF DemoSteps, SetupSteps, FundedSteps, EarlySteps, LeasedSteps
  <2>4. ASSUME NEW q \in DemoRequest,
               /\ q.step = "balance" /\ q.attempt = r.attempt /\ q.last = r.last /\ q.route = r.route
               /\ q.table = r.table /\ q.missing = r.missing /\ q.todo = r.todo
               /\ q.answer = r.answer /\ q.lost = r.lost /\ q.disturbed = r.disturbed
        PROVE  DemoCallerOK(u, errand[u], q, m, f)
    <3>1. SendsOK(q, m)
      BY <1>1, <1>2, <2>1, <2>3, <2>4 DEF DemoCallerOK, SendsOK
    <3>2. SetupOK(q, f) /\ ExclusionsOK(q, f) /\ ErrandOK(q, errand[u], f)
      BY <1>1, <1>2, <1>4, <2>3, <2>4 DEF DemoCallerOK, SetupOK, ExclusionsOK, ErrandOK
    <3>3. LeaseOK(u, q, m, f)
      BY <1>6, <2>3, <2>4 DEF LeaseOK
    <3> QED BY <3>1, <3>2, <3>3 DEF DemoCallerOK
  <2> QED BY <1>1, <1>2, <1>4, <1>5, <2>1, <2>2, <2>3, <2>4, StepKeeps
<1> QED BY <1>7, <1>8

LEMMA BurnedKeeps == ASSUME DemoInv, NEW u \in Callers, Burned(u) PROVE DemoInv'
<1>1. request[u].step = "balance" /\ Reply(u, "burned") /\ UNCHANGED <<errand, wired, fork>>
  BY DEF Burned, Stands
<1>2. Fate(u) = "landed"
  BY <1>1, DemoParts DEF DemoCallerOK, SendsOK, Fate
<1>3. "burned" \in DemoAnswers \ (Unmoved \cup {"deterministic"})
  BY DEF DemoAnswers, Unmoved
<1>4. ~SlowFetch /\ ~request[u].lost /\ (\E n \in 1 .. MaxAttempts : wired[u][n] = "flying") => fork.lease = u
  BY DemoParts DEF DemoCallerOK, LeaseOK
<1> QED BY <1>1, <1>2, <1>3, <1>4, ForkStays, ReplyKeeps

LEMMA WatchFailsKeeps == ASSUME DemoInv, NEW u \in Callers, WatchFails(u) PROVE DemoInv'
<1>1. request[u].step \in {"confirm", "fetch", "balance"} /\ Reply(u, "error") /\ UNCHANGED <<errand, wired, fork>>
  BY DEF WatchFails, Escapes
<1>2. "error" \in DemoAnswers \ (Unmoved \cup {"burned", "deterministic"})
  BY DEF DemoAnswers, Unmoved
<1>3. ~SlowFetch /\ ~request[u].lost /\ (\E n \in 1 .. MaxAttempts : wired[u][n] = "flying") => fork.lease = u
  BY DemoParts DEF DemoCallerOK, LeaseOK
<1> QED BY <1>1, <1>2, <1>3, ForkStays, ReplyKeeps

LEMMA LeaseEndsKeeps == ASSUME DemoInv, NEW u \in Callers, LeaseEnds(u) PROVE DemoInv'
<1> DEFINE r == request[u]
           m == wired[u]
           f == Freed(u)
<1>1. /\ r \in DemoRequest /\ m \in [1 .. MaxAttempts -> DemoFates] /\ DemoCallerOK(u, errand[u], r, m, fork)
      /\ request \in [Callers -> DemoRequest] /\ wired \in [Callers -> [1 .. MaxAttempts -> DemoFates]]
      /\ fork \in DemoFork
  BY DemoParts DEF DemoTyped
<1>2. /\ \A n \in 1 .. MaxAttempts : m[n] # "flying"
      /\ ~SlowFetch => r.step \notin LeasedSteps
  BY DEF LeaseEnds, LeasedSteps
<1>3. errand' = errand /\ request' = [request EXCEPT ![u] = r] /\ wired' = [wired EXCEPT ![u] = m] /\ fork' = f
  BY <1>1 DEF LeaseEnds
<1>4. /\ f \in DemoFork /\ DemoForkOK(f) /\ ForkGrows(u, fork, f) /\ f.queue = fork.queue
      /\ f.raised = fork.raised /\ f.complete = fork.complete /\ f.excluded = fork.excluded
  BY FreedFork
<1> HIDE DEF f
<1>5. SetupOK(r, f)
  BY <1>1, <1>4, SetupStays DEF DemoCallerOK
<1>6. ExclusionsOK(r, f) /\ ErrandOK(r, errand[u], f) /\ LeaseOK(u, r, m, f) /\ SendsOK(r, m)
  BY <1>1, <1>2, <1>4 DEF DemoCallerOK, ExclusionsOK, ErrandOK, LeaseOK
<1>7. DemoCallerOK(u, errand[u], r, m, f)
  BY <1>5, <1>6 DEF DemoCallerOK
<1>8. QueueMoves(u, request[u], fork, r, f) /\ CurveMoves(request[u], fork, r, f)
  BY <1>4 DEF QueueMoves, CurveMoves
<1> QED BY <1>1, <1>3, <1>4, <1>7, <1>8, DemoMoves

-----------------------------------------------------------------------------
(* A test coin *)

LEMMA StartTradeKeeps ==
  ASSUME DemoInv, NEW u \in Callers, NEW amounts \in {<<DEFAULT_BUY>>, <<DEFAULT_BUY, DEFAULT_BUY>>}, StartTrade(u, amounts)
  PROVE  DemoInv'
<1> DEFINE r == request[u]
           q == [r EXCEPT !.step = "buy", !.todo = amounts]
<1>1. /\ r \in DemoRequest /\ request \in [Callers -> DemoRequest] /\ DemoCallerOK(u, errand[u], r, wired[u], fork)
  BY DemoParts DEF DemoTyped
<1>2. /\ r.step = "new" /\ UNCHANGED <<errand, wired, fork>>
      /\ \/ errand[u] = "trade" /\ amounts = <<DEFAULT_BUY>>
         \/ errand[u] = "trades" /\ amounts = <<DEFAULT_BUY, DEFAULT_BUY>>
      /\ Reply(u, "graduated") \/ Reply(u, "near") \/ request' = [request EXCEPT ![u] = q]
  <2>1. Reply(u, "graduated") \/ Reply(u, "near") \/ request' = [request EXCEPT ![u].step = "buy", ![u].todo = amounts]
    BY DEF StartTrade
  <2>2. [request EXCEPT ![u].step = "buy", ![u].todo = amounts] = [request EXCEPT ![u] = q]
    BY <1>1
  <2>3. r.step = "new" /\ UNCHANGED <<errand, wired, fork>> /\ errand[u] \in {"trade", "trades"}
        /\ amounts = (IF errand[u] = "trade" THEN <<DEFAULT_BUY>> ELSE <<DEFAULT_BUY, DEFAULT_BUY>>)
    BY DEF StartTrade, Stands
  <2> QED BY <2>1, <2>2, <2>3
<1>3. r.step \in EarlySteps \ {"quote"} /\ "buy" \in EarlySteps \ {"simulate", "submit"}
      /\ "buy" \notin SetupSteps \cup FundedSteps \cup LeasedSteps
      /\ {"graduated", "near"} \subseteq DemoAnswers \ {"burned", "deterministic"}
  BY <1>2 DEF EarlySteps, SetupSteps, FundedSteps, LeasedSteps, DemoAnswers
<1>4. CASE Reply(u, "graduated") \/ Reply(u, "near")
  BY <1>2, <1>3, <1>4, ForkStays, EndsUnsent
<1>5. CASE request' = [request EXCEPT ![u] = q]
  <2>1. /\ q \in DemoRequest /\ q.step = "buy" /\ q.attempt = r.attempt /\ q.last = r.last /\ q.route = r.route
        /\ q.table = r.table /\ q.missing = r.missing /\ q.todo = amounts /\ q.answer = r.answer
        /\ q.lost = r.lost /\ q.disturbed = r.disturbed
    BY <1>1 DEF DemoRequest, DemoSteps, EarlySteps
  <2> HIDE DEF q
  <2>2. SetupOK(q, fork) /\ ExclusionsOK(q, fork)
    BY <1>1, <1>2, <1>3, <2>1, DemoConstants DEF DemoCallerOK, SetupOK, ExclusionsOK
  <2>3. ErrandOK(q, errand[u], fork)
    BY <1>2, <2>1 DEF ErrandOK
  <2>4. QueueMoves(u, r, fork, q, fork) /\ CurveMoves(r, fork, q, fork)
    BY <1>2, <2>1 DEF QueueMoves, CurveMoves
  <2> QED BY <1>2, <1>3, <1>5, <2>1, <2>2, <2>3, <2>4, ForkStays, EarlyMoves
<1> QED BY <1>2, <1>4, <1>5

LEMMA BuyKeeps == ASSUME DemoInv, NEW u \in Callers, Buy(u) PROVE DemoInv'
<1> DEFINE r == request[u]
           m == wired[u]
           d == DEFAULT_BUY
<1>1. /\ r \in DemoRequest /\ request \in [Callers -> DemoRequest] /\ DemoCallerOK(u, errand[u], r, m, fork)
      /\ wired \in [Callers -> [1 .. MaxAttempts -> DemoFates]] /\ m \in [1 .. MaxAttempts -> DemoFates]
      /\ fork \in DemoFork /\ DemoForkOK(fork) /\ fork.raised \in Int
      /\ d \in Int /\ d <= GRADUATION - TRADE_STOP /\ {TRADE_STOP, GRADUATION} \subseteq Int
  BY DemoParts, DemoConstants DEF DemoTyped, DemoFork
<1>2. r.step = "buy" /\ UNCHANGED <<errand, wired>> /\ r.step \in EarlySteps
      /\ "error" \in DemoAnswers \ {"burned", "deterministic"}
  BY DEF Buy, Stands, EarlySteps, DemoAnswers
<1>3. /\ errand[u] \in {"trade", "trades"}
      /\ r.todo = <<d>> \/ (errand[u] = "trades" /\ r.todo = <<d, d>>)
  BY <1>1, <1>2 DEF DemoCallerOK, ErrandOK
<1>4. CASE fork.complete
  <2>1. Reply(u, "error") /\ fork' = fork
    BY <1>4 DEF Buy, Escapes
  <2> QED BY <1>2, <2>1, ForkStays, EndsUnsent
<1>5. CASE ~fork.complete
  <2> DEFINE raised == fork.raised + d
             full == raised >= GRADUATION
             f == [fork EXCEPT !.raised = raised, !.complete = full]
             ends == r.todo = <<d>>
             q == [r EXCEPT !.todo = IF ends THEN <<>> ELSE <<d>>, !.step = IF ends THEN "answered" ELSE "buy",
                            !.answer = IF ends THEN "bought" ELSE Nil]
  <2>1. Head(r.todo) = d /\ (Len(r.todo) = 1 <=> ends) /\ Tail(r.todo) = IF ends THEN <<>> ELSE <<d>>
    <3>1. Len(<<d>>) = 1 /\ Head(<<d>>) = d /\ Tail(<<d>>) = <<>>
      OBVIOUS
    <3>2. Len(<<d, d>>) = 2 /\ Head(<<d, d>>) = d /\ Tail(<<d, d>>) = <<d>> /\ <<d, d>> # <<d>>
      OBVIOUS
    <3>3. CASE r.todo = <<d>>
      BY <3>1, <3>3
    <3>4. CASE r.todo = <<d, d>>
      BY <3>2, <3>4
    <3> QED BY <1>3, <3>3, <3>4
  <2>2. fork' = f
    BY <1>5, <2>1 DEF Buy
  <2>3. request' = [request EXCEPT ![u] = q]
    <3>1. request' = [request EXCEPT ![u].todo = Tail(r.todo), ![u].step = IF Len(r.todo) = 1 THEN "answered" ELSE "buy",
                                     ![u].answer = IF Len(r.todo) = 1 THEN "bought" ELSE Nil]
      BY <1>5 DEF Buy
    <3> QED BY <1>1, <2>1, <3>1
  <2>4. r.answer = Nil /\ (~r.lost => \A n \in 1 .. MaxAttempts : m[n] # "flying") /\ Fate(u) = "none"
    BY <1>2, NothingSent
  <2>5. raised \in Int /\ full \in BOOLEAN
    BY <1>1
  <2>6. /\ f \in DemoFork /\ f.acc = fork.acc /\ f.bcv = fork.bcv /\ f.tables = fork.tables /\ f.lease = fork.lease
        /\ f.remembered = fork.remembered /\ f.complete = full /\ f.pool = fork.pool /\ f.icons = fork.icons
        /\ f.excluded = fork.excluded /\ f.queue = fork.queue /\ f.raised = raised
    <3> HIDE DEF raised, full
    <3> QED BY <1>1, <2>5 DEF DemoFork
  <2>7. /\ q \in DemoRequest /\ q.step = (IF ends THEN "answered" ELSE "buy") /\ q.attempt = r.attempt /\ q.last = r.last
        /\ q.route = r.route /\ q.table = r.table /\ q.missing = r.missing /\ q.todo = (IF ends THEN <<>> ELSE <<d>>)
        /\ q.answer = (IF ends THEN "bought" ELSE Nil) /\ q.lost = r.lost /\ q.disturbed = r.disturbed
    <3> HIDE DEF ends
    <3> QED BY <1>1 DEF DemoRequest, DemoSteps, EarlySteps, DemoAnswers
  <2>8. f.pool => f.complete
    BY <1>1, <1>5, <2>6 DEF DemoForkOK
  <2> HIDE DEF f, q, ends
  <2>9. DemoForkOK(f) /\ ForkGrows(u, fork, f)
    BY <1>1, <1>5, <2>6, <2>8 DEF DemoForkOK, ForkGrows
  <2>10. {"buy", "answered"} \cap (SetupSteps \cup FundedSteps \cup LeasedSteps) = {} /\ "answered" \notin EarlySteps
         /\ "buy" \in EarlySteps \ {"simulate", "submit"} /\ "bought" \notin Unmoved /\ Nil # "bought"
    BY DEF SetupSteps, FundedSteps, LeasedSteps, EarlySteps, Unmoved, Nil
  <2>11. SendsOK(q, m)
    BY <1>1, <1>2, <2>4, <2>7, <2>10 DEF DemoCallerOK, SendsOK, Fate
  <2>12. SetupOK(q, f)
    <3>1. SetupOK(r, f)
      BY <1>1, <2>6, <2>9, SetupStays DEF DemoCallerOK
    <3> QED BY <2>7, <2>10, <3>1 DEF SetupOK
  <2>13. ExclusionsOK(q, f)
    BY <1>1, <1>2, <2>6, <2>7, <2>10 DEF DemoCallerOK, ExclusionsOK, Nil
  <2>14. ErrandOK(q, errand[u], f)
    BY <1>3, <2>7 DEF ends, ErrandOK
  <2>15. LeaseOK(u, q, m, f)
    BY <2>4, <2>7, <2>10 DEF LeaseOK
  <2>16. DemoCallerOK(u, errand[u], q, m, f)
    BY <2>11, <2>12, <2>13, <2>14, <2>15 DEF DemoCallerOK
  <2>17. QueueMoves(u, r, fork, q, f)
    BY <1>2, <2>6, <2>7 DEF QueueMoves
  <2>18. DemoCurveOK'
    <3> SUFFICES ASSUME DemoOneTrade' PROVE ~fork'.complete /\ fork'.raised < GRADUATION
                   /\ \E w \in Callers : errand'[w] = "trade" /\ request'[w].step = "answered"
      BY DEF DemoCurveOK
    <3>1. DemoOneTrade /\ DemoCurveOK /\ errand' = errand
      BY <1>2 DEF DemoOneTrade, DemoInv
    <3>2. errand[u] = "trade" /\ ends
      BY <1>3, <3>1 DEF DemoOneTrade, ends
    <3>3. ~ \E w \in Callers : errand[w] = "trade" /\ request[w].step = "answered"
      <4> SUFFICES ASSUME NEW w \in Callers, errand[w] = "trade", request[w].step = "answered" PROVE FALSE
        OBVIOUS
      <4>1. {errand[u], errand[w]} = {"trade"}
        BY <3>2
      <4>2. u = w
        BY <3>1, <4>1 DEF DemoOneTrade
      <4> QED BY <1>2, <4>2
    <3>4. fork.raised = TRADE_STOP - 1
      BY <3>1, <3>3 DEF DemoCurveOK
    <3>5. raised < GRADUATION /\ ~full
      BY <1>1, <3>4
    <3>6. request'[u].step = "answered"
      BY <1>1, <2>3, <2>7, <3>2
    <3> QED BY <2>2, <2>6, <3>1, <3>2, <3>5, <3>6
  <2>19. wired' = [wired EXCEPT ![u] = m] /\ errand' = errand
    BY <1>1, <1>2
  <2> QED BY <1>1, <2>2, <2>3, <2>6, <2>7, <2>9, <2>16, <2>17, <2>18, <2>19, DemoMoves
<1> QED BY <1>4, <1>5

LEMMA StartMigrationKeeps == ASSUME DemoInv, NEW u \in Callers, StartMigration(u) PROVE DemoInv'
<1>1. /\ request[u].step = "new" /\ UNCHANGED <<errand, wired, fork>>
      /\ Reply(u, "error") \/ Reply(u, "existed") \/ (fork.complete /\ Step(u, "migrate"))
  BY DEF StartMigration, Stands, Escapes, CurveView
<1>2. /\ {"error", "existed"} \subseteq DemoAnswers \ {"burned", "deterministic"}
      /\ request[u].step \in EarlySteps \ {"quote", "simulate", "submit"}
      /\ "migrate" \in EarlySteps \ {"new", "quote", "buy", "icon"} /\ "migrate" \notin SetupSteps \cup FundedSteps
  BY <1>1 DEF DemoAnswers, EarlySteps, SetupSteps, FundedSteps
<1>3. CASE Reply(u, "error") \/ Reply(u, "existed")
  BY <1>1, <1>2, <1>3, ForkStays, EndsUnsent
<1>4. CASE fork.complete /\ Step(u, "migrate")
  BY <1>1, <1>2, <1>4, ForkStays, EarlyKeeps
<1> QED BY <1>1, <1>3, <1>4

LEMMA RunMigrationKeeps == ASSUME DemoInv, NEW u \in Callers, RunMigration(u) PROVE DemoInv'
<1> DEFINE f == [fork EXCEPT !.pool = TRUE]
<1>1. /\ request[u].step = "migrate" /\ UNCHANGED <<errand, wired>>
      /\ (Reply(u, "error") /\ fork' = fork) \/ (Reply(u, "migrated") /\ fork' = f)
  BY DEF RunMigration, Stands, Escapes
<1>2. /\ {"error", "migrated"} \subseteq DemoAnswers \ {"burned", "deterministic"} /\ request[u].step \in EarlySteps
  BY <1>1 DEF DemoAnswers, EarlySteps
<1>3. fork \in DemoFork /\ DemoForkOK(fork) /\ fork.complete
  BY <1>1, DemoParts DEF DemoCallerOK, ErrandOK
<1>4. /\ f \in DemoFork /\ f.acc = fork.acc /\ f.bcv = fork.bcv /\ f.tables = fork.tables /\ f.lease = fork.lease
      /\ f.remembered = fork.remembered /\ f.complete = fork.complete /\ f.icons = fork.icons
      /\ f.excluded = fork.excluded /\ f.queue = fork.queue /\ f.raised = fork.raised
  BY <1>3 DEF DemoFork
<1> HIDE DEF f
<1>5. DemoForkOK(f) /\ ForkGrows(u, fork, f)
  BY <1>3, <1>4 DEF DemoForkOK, ForkGrows
<1> QED BY <1>1, <1>2, <1>4, <1>5, ForkStays, EndsUnsent
-----------------------------------------------------------------------------
(* Icons *)

\* What the cache holds: a coin once, and an icon only where every hop allowed it.
IconsOK(q) ==
  /\ \A i, j \in 1 .. Len(q) : q[i].coin = q[j].coin => i = j
  /\ \A i \in 1 .. Len(q) : q[i].icon => IconOf(q[i].coin)

LEMMA IconsDrop ==
  ASSUME NEW q \in Seq(DemoIcon), IconsOK(q), q # <<>>
  PROVE  Tail(q) \in Seq(DemoIcon) /\ IconsOK(Tail(q)) /\ Len(Tail(q)) = Len(q) - 1
<1> DEFINE p == Tail(q)
<1>1. p \in Seq(DemoIcon) /\ Len(p) = Len(q) - 1 /\ Len(q) \in Nat \ {0} /\ \A i \in 1 .. Len(q) - 1 : p[i] = q[i + 1]
  OBVIOUS
<1> HIDE DEF p
<1>2. \A i, j \in 1 .. Len(p) : p[i].coin = p[j].coin => i = j
  <2> SUFFICES ASSUME NEW i \in 1 .. Len(p), NEW j \in 1 .. Len(p), p[i].coin = p[j].coin PROVE i = j
    OBVIOUS
  <2>1. i + 1 \in 1 .. Len(q) /\ j + 1 \in 1 .. Len(q) /\ q[i + 1].coin = q[j + 1].coin
    BY <1>1
  <2>2. i + 1 = j + 1
    BY <2>1 DEF IconsOK
  <2> QED BY <2>2
<1>3. \A i \in 1 .. Len(p) : p[i].icon => IconOf(p[i].coin)
  <2> SUFFICES ASSUME NEW i \in 1 .. Len(p), p[i].icon PROVE IconOf(p[i].coin)
    OBVIOUS
  <2>1. i + 1 \in 1 .. Len(q) /\ p[i] = q[i + 1]
    BY <1>1
  <2> QED BY <2>1 DEF IconsOK
<1> QED BY <1>1, <1>2, <1>3 DEF p, IconsOK

LEMMA IconsAdd ==
  ASSUME NEW q \in Seq(DemoIcon), IconsOK(q), NEW e \in DemoIcon, e.icon => IconOf(e.coin),
         \A i \in 1 .. Len(q) : q[i].coin # e.coin
  PROVE  Append(q, e) \in Seq(DemoIcon) /\ IconsOK(Append(q, e)) /\ Len(Append(q, e)) = Len(q) + 1
<1> DEFINE p == Append(q, e)
<1>1. p \in Seq(DemoIcon) /\ Len(p) = Len(q) + 1 /\ Len(q) \in Nat /\ p[Len(q) + 1] = e
      /\ \A i \in 1 .. Len(q) : p[i] = q[i]
  OBVIOUS
<1> HIDE DEF p
<1>2. \A i \in 1 .. Len(p) : i \in 1 .. Len(q) \/ i = Len(q) + 1
  BY <1>1
<1>3. IconsOK(p)
  BY <1>1, <1>2 DEF IconsOK
<1> QED BY <1>1, <1>3 DEF p

LEMMA IconsReplace ==
  ASSUME NEW q \in Seq(DemoIcon), IconsOK(q), NEW e \in DemoIcon, e.icon => IconOf(e.coin),
         NEW p \in [1 .. Len(q) -> DemoIcon], \A i \in 1 .. Len(q) : p[i] = IF q[i].coin = e.coin THEN e ELSE q[i]
  PROVE  p \in Seq(DemoIcon) /\ IconsOK(p) /\ Len(p) = Len(q)
<1>1. Len(q) \in Nat /\ \A i \in 1 .. Len(q) : q[i] \in DemoIcon
  BY ElementOfSeq, LenProperties
<1>2. p \in Seq(DemoIcon)
  BY <1>1, SeqDef
<1>3. Len(p) = Len(q)
  BY <1>1, <1>2, LenProperties
<1>4. ASSUME NEW i \in 1 .. Len(q) PROVE p[i].coin = q[i].coin /\ (p[i].icon => IconOf(p[i].coin))
  BY <1>1 DEF IconsOK
<1>5. \A i, j \in 1 .. Len(q) : p[i].coin = p[j].coin => i = j
  BY <1>4 DEF IconsOK
<1> QED BY <1>2, <1>3, <1>4, <1>5 DEF IconsOK

LEMMA AskIconKeeps == ASSUME DemoInv, NEW u \in Callers, AskIcon(u) PROVE DemoInv'
<1> DEFINE r == request[u]
           q == [r EXCEPT !.step = "icon"]
<1>1. /\ r \in DemoRequest /\ request \in [Callers -> DemoRequest] /\ DemoCallerOK(u, errand[u], r, wired[u], fork)
  BY DemoParts DEF DemoTyped
<1>2. /\ r.step = "new" /\ UNCHANGED <<errand, wired, fork>> /\ errand[u] \in Coins
      /\ Reply(u, "cached") \/ Step(u, "icon")
  BY DEF AskIcon, Stands
<1>3. r.step \in EarlySteps /\ "icon" \in EarlySteps \ {"simulate", "submit"} /\ "icon" \in DemoSteps
      /\ "icon" \notin SetupSteps \cup FundedSteps \cup LeasedSteps /\ "cached" \in DemoAnswers \ {"burned", "deterministic"}
  BY <1>2 DEF EarlySteps, SetupSteps, FundedSteps, LeasedSteps, DemoAnswers, DemoSteps
<1>4. CASE Reply(u, "cached")
  BY <1>2, <1>3, <1>4, ForkStays, EndsUnsent
<1>5. CASE Step(u, "icon")
  <2>1. request' = [request EXCEPT ![u] = q]
    BY <1>1, <1>5 DEF Step
  <2>2. /\ q \in DemoRequest /\ q.step = "icon" /\ q.attempt = r.attempt /\ q.last = r.last /\ q.route = r.route
        /\ q.table = r.table /\ q.missing = r.missing /\ q.todo = r.todo /\ q.answer = r.answer
        /\ q.lost = r.lost /\ q.disturbed = r.disturbed
    BY <1>1, <1>3, StepFields
  <2> HIDE DEF q
  <2>3. SetupOK(q, fork) /\ ExclusionsOK(q, fork) /\ ErrandOK(q, errand[u], fork)
    BY <1>1, <1>2, <1>3, <2>2, DemoConstants DEF DemoCallerOK, SetupOK, ExclusionsOK, ErrandOK
  <2>4. QueueMoves(u, r, fork, q, fork) /\ CurveMoves(r, fork, q, fork)
    BY <1>2, <2>2 DEF QueueMoves, CurveMoves
  <2> QED BY <1>2, <1>3, <2>1, <2>2, <2>3, <2>4, ForkStays, EarlyMoves
<1> QED BY <1>2, <1>4, <1>5

LEMMA FetchIconKeeps == ASSUME DemoInv, NEW u \in Callers, NEW fails \in BOOLEAN, FetchIcon(u, fails) PROVE DemoInv'
<1> DEFINE found == ~fails /\ Known(errand[u]) /\ IconOf(errand[u])
           entry == [coin |-> errand[u], icon |-> found]
           icons == IF Len(fork.icons) >= ICONS THEN Tail(fork.icons) ELSE fork.icons
           same == {i \in DOMAIN icons : icons[i].coin = errand[u]}
           new == IF same = {} THEN Append(icons, entry) ELSE [i \in DOMAIN icons |-> IF i \in same THEN entry ELSE icons[i]]
           f == [fork EXCEPT !.icons = new]
<1>1. /\ fork \in DemoFork /\ DemoForkOK(fork) /\ fork.icons \in Seq(DemoIcon)
      /\ DemoCallerOK(u, errand[u], request[u], wired[u], fork)
  BY DemoParts DEF DemoFork
<1>2. request[u].step = "icon" /\ UNCHANGED <<errand, wired>> /\ Reply(u, "fetched") /\ fork' = f
  BY DEF FetchIcon, Stands
<1>3. request[u].step \in EarlySteps /\ request[u].step # "quote" /\ "fetched" \in DemoAnswers \ {"burned", "deterministic"}
  BY <1>2 DEF EarlySteps, DemoAnswers
<1>4. errand[u] \in Coins
  BY <1>1, <1>2 DEF DemoCallerOK, ErrandOK
<1>5. found \in BOOLEAN /\ (found => IconOf(errand[u]))
  BY DEF IconOf, Known
<1>6. entry \in DemoIcon /\ entry.coin = errand[u] /\ (entry.icon => IconOf(entry.coin))
  <2> HIDE DEF found
  <2> QED BY <1>4, <1>5 DEF DemoIcon
<1> HIDE DEF found, entry
<1>7. IconsOK(fork.icons) /\ Len(fork.icons) <= ICONS /\ ICONS \in Nat \ {0} /\ Len(fork.icons) \in Nat
  <2>1. ICONS \in Nat \ {0}
    BY DemoConstants
  <2>2. IconsOK(fork.icons) /\ Len(fork.icons) <= ICONS
    BY <1>1 DEF DemoForkOK, IconsOK
  <2> QED BY <1>1, <2>1, <2>2
<1>8. icons \in Seq(DemoIcon) /\ IconsOK(icons) /\ Len(icons) <= ICONS - 1 /\ Len(icons) \in Nat
  <2>1. CASE Len(fork.icons) >= ICONS
    <3>1. fork.icons # <<>>
      BY <1>1, <1>7, <2>1
    <3>2. Tail(fork.icons) \in Seq(DemoIcon) /\ IconsOK(Tail(fork.icons)) /\ Len(Tail(fork.icons)) = Len(fork.icons) - 1
      BY <1>1, <1>7, <3>1, IconsDrop
    <3> QED BY <1>7, <2>1, <3>2
  <2>2. CASE ~(Len(fork.icons) >= ICONS)
    BY <1>1, <1>7, <2>2
  <2> QED BY <2>1, <2>2
<1> HIDE DEF icons
<1>9. new \in Seq(DemoIcon) /\ IconsOK(new) /\ Len(new) <= ICONS
  <2>1. CASE same = {}
    <3>1. \A i \in 1 .. Len(icons) : icons[i].coin # entry.coin
      BY <1>6, <1>8, <2>1
    <3>2. Append(icons, entry) \in Seq(DemoIcon) /\ IconsOK(Append(icons, entry)) /\ Len(Append(icons, entry)) = Len(icons) + 1
      BY <1>6, <1>8, <3>1, IconsAdd
    <3> QED BY <1>7, <1>8, <2>1, <3>2
  <2>2. CASE same # {}
    <3> DEFINE p == [i \in DOMAIN icons |-> IF i \in same THEN entry ELSE icons[i]]
    <3>1. DOMAIN icons = 1 .. Len(icons) /\ \A i \in 1 .. Len(icons) : icons[i] \in DemoIcon
      BY <1>8, LenProperties, ElementOfSeq
    <3>4. /\ p \in [1 .. Len(icons) -> DemoIcon]
          /\ \A i \in 1 .. Len(icons) : p[i] = IF icons[i].coin = entry.coin THEN entry ELSE icons[i]
      BY <1>6, <3>1
    <3> HIDE DEF same, p
    <3>2. p \in Seq(DemoIcon) /\ IconsOK(p) /\ Len(p) = Len(icons)
      BY <1>6, <1>8, <3>4, IconsReplace
    <3>3. new = p
      BY <2>2 DEF p, same
    <3> QED BY <1>7, <1>8, <3>2, <3>3
  <2> QED BY <2>1, <2>2
<1> HIDE DEF new
<1>10. /\ f \in DemoFork /\ f.acc = fork.acc /\ f.bcv = fork.bcv /\ f.tables = fork.tables /\ f.lease = fork.lease
       /\ f.remembered = fork.remembered /\ f.complete = fork.complete /\ f.pool = fork.pool /\ f.icons = new
       /\ f.excluded = fork.excluded /\ f.queue = fork.queue /\ f.raised = fork.raised
  BY <1>1, <1>9 DEF DemoFork
<1> HIDE DEF f
<1>11. DemoForkOK(f) /\ ForkGrows(u, fork, f)
  BY <1>1, <1>9, <1>10 DEF DemoForkOK, IconsOK, ForkGrows
<1> QED BY <1>2, <1>3, <1>10, <1>11, EndsUnsent

\* The start of a burn: whoever is under way may lose the exclusions it made.
LEMMA StartBurnKeeps == ASSUME DemoInv, NEW u \in Callers, StartBurn(u) PROVE DemoInv'
<1> DEFINE f == [fork EXCEPT !.excluded = {}]
           s == IF errand[u] = "curve" THEN "accumulator" ELSE "acquire"
           R(w) == IF w = u THEN [request[u] EXCEPT !.step = s]
                   ELSE [request[w] EXCEPT !.disturbed = @ \/ request[w].step # "new"]
<1>1. fork \in DemoFork /\ DemoForkOK(fork) /\ DemoTyped /\ DemoQueueOK /\ DemoCurveOK
  BY DemoParts DEF DemoInv
<1>2. request[u].step = "new" /\ request' = [w \in Callers |-> R(w)] /\ fork' = f /\ UNCHANGED <<errand, wired>>
  BY DEF StartBurn, Stands
<1>3. s \in {"accumulator", "acquire"} /\ s \in DemoSteps /\ s \in EarlySteps
  BY DEF DemoSteps, EarlySteps
<1> HIDE DEF s
<1>4. /\ f \in DemoFork /\ f.acc = fork.acc /\ f.bcv = fork.bcv /\ f.tables = fork.tables /\ f.lease = fork.lease
      /\ f.remembered = fork.remembered /\ f.complete = fork.complete /\ f.pool = fork.pool /\ f.icons = fork.icons
      /\ f.excluded = {} /\ f.queue = fork.queue /\ f.raised = fork.raised
  BY <1>1 DEF DemoFork
<1> HIDE DEF f
<1>5. DemoForkOK(f)
  BY <1>1, <1>4 DEF DemoForkOK
<1>6. ASSUME NEW w \in Callers
      PROVE  /\ R(w) \in DemoRequest /\ R(w).attempt = request[w].attempt /\ R(w).last = request[w].last
             /\ R(w).route = request[w].route /\ R(w).table = request[w].table /\ R(w).missing = request[w].missing
             /\ R(w).todo = request[w].todo /\ R(w).answer = request[w].answer /\ R(w).lost = request[w].lost
             /\ R(w).step = (IF w = u THEN s ELSE request[w].step)
             /\ w # u /\ request[w].step # "new" => R(w).disturbed
  <2>1. request[w] \in DemoRequest
    BY DemoParts
  <2>2. CASE w = u
    BY <1>3, <2>1, <2>2, StepFields
  <2>3. CASE w # u
    <3> DEFINE d == request[w].disturbed \/ request[w].step # "new"
    <3>1. d \in BOOLEAN /\ (request[w].step # "new" => d)
      BY <2>1 DEF DemoRequest
    <3>2. R(w) = [request[w] EXCEPT !.disturbed = d]
      BY <2>3
    <3> HIDE DEF R, d
    <3> QED BY <2>1, <2>3, <3>1, <3>2 DEF DemoRequest
  <2> QED BY <2>2, <2>3
<1> HIDE DEF R
<1>7. request' \in [Callers -> DemoRequest] /\ \A w \in Callers : request'[w] = R(w)
  BY <1>2, <1>6
<1>8. DemoTyped'
  BY <1>1, <1>2, <1>4, <1>7 DEF DemoTyped
<1>9. ASSUME NEW w \in Callers PROVE DemoCallerOK(w, errand[w], R(w), wired[w], f)
  <2> DEFINE r == request[w]
             q == R(w)
             m == wired[w]
  <2>1. DemoCallerOK(w, errand[w], r, m, fork) /\ r \in DemoRequest
    BY DemoParts
  <2>2. /\ q.attempt = r.attempt /\ q.last = r.last /\ q.route = r.route /\ q.table = r.table /\ q.missing = r.missing
        /\ q.todo = r.todo /\ q.answer = r.answer /\ q.lost = r.lost /\ q.step = (IF w = u THEN s ELSE r.step)
        /\ w # u /\ r.step # "new" => q.disturbed
    BY <1>6
  <2>3. w = u => r.step = "new"
    BY <1>2
  <2> HIDE DEF r, q, m
  <2>4. "new" \in EarlySteps \ {"simulate", "submit"} /\ s \in EarlySteps \ {"simulate", "submit", "new", "confirm", "fetch", "balance", "answered"}
        /\ s \notin SetupSteps \cup FundedSteps \cup LeasedSteps \cup {"extend", "activate", "buy", "migrate", "icon"}
    BY <1>3 DEF EarlySteps, SetupSteps, FundedSteps, LeasedSteps
  <2>5. SendsOK(q, m)
    <3>1. CASE w = u
      BY <2>1, <2>2, <2>3, <2>4, <3>1 DEF DemoCallerOK, SendsOK
    <3>2. CASE w # u
      BY <2>1, <2>2, <3>2 DEF DemoCallerOK, SendsOK
    <3> QED BY <3>1, <3>2
  <2>6. SetupOK(q, f)
    BY <1>4, <2>1, <2>2, <2>4 DEF DemoCallerOK, SetupOK
  <2>7. ExclusionsOK(q, f)
    BY <1>4, <2>1, <2>2, <2>3, <2>4, DemoConstants DEF DemoCallerOK, ExclusionsOK
  <2>8. ErrandOK(q, errand[w], f) /\ LeaseOK(w, q, m, f)
    BY <1>4, <2>1, <2>2, <2>3, <2>4 DEF DemoCallerOK, ErrandOK, LeaseOK
  <2> QED BY <2>5, <2>6, <2>7, <2>8 DEF DemoCallerOK, q, m
<1>10. DemoQueueOK'
  <2>1. \A w \in Callers : Stands(w, "quote")' <=> Stands(w, "quote")
    BY <1>2, <1>3, <1>6, <1>7 DEF Stands
  <2>2. {w \in Callers : Stands(w, "quote")'} = {w \in Callers : Stands(w, "quote")}
    BY <2>1
  <2>3. fork'.queue = fork.queue
    BY <1>2, <1>4
  <2> QED BY <1>1, <2>2, <2>3 DEF DemoQueueOK
<1>11. DemoCurveOK'
  <2>1. \A w \in Callers : request[w].step = "answered" => request'[w].step = "answered"
    BY <1>2, <1>6, <1>7
  <2>2. fork'.raised = fork.raised /\ fork'.complete = fork.complete /\ errand' = errand
    BY <1>2, <1>4
  <2> QED BY <1>1, <2>1, <2>2 DEF DemoCurveOK, DemoOneTrade
<1>12. \A w \in Callers : DemoCallerOK(w, errand'[w], request'[w], wired'[w], fork')
  BY <1>2, <1>7, <1>9
<1>13. DemoForkOK(fork')
  BY <1>2, <1>5
<1> QED BY <1>8, <1>10, <1>11, <1>12, <1>13 DEF DemoInv

-----------------------------------------------------------------------------

LEMMA DemoInitial == DemoInit => DemoInv
<1> SUFFICES ASSUME DemoInit PROVE DemoInv
  OBVIOUS
<1> DEFINE r == [step |-> "new", attempt |-> 1, last |-> Nil, route |-> Nil, waits |-> 0, table |-> 0, missing |-> {},
                 todo |-> <<>>, answer |-> Nil, lost |-> FALSE, disturbed |-> FALSE]
           m == [n \in 1 .. MaxAttempts |-> "none"]
<1>1. request = [u \in Callers |-> r] /\ wired = [u \in Callers |-> m]
  BY DEF DemoInit
<1>2. /\ fork.lease = NoOne /\ fork.vault \in Nat /\ fork.excluded = {} /\ fork.queue = <<>> /\ fork.acc = FALSE
      /\ fork.bcv = "none" /\ fork.tables = <<>> /\ fork.remembered = 0 /\ fork.raised = TRADE_STOP - 1
      /\ fork.complete = FALSE /\ fork.pool = FALSE /\ fork.icons = <<>>
      /\ fork \in [lease : {NoOne}, vault : Balances, excluded : {{}}, queue : {<<>>}, acc : {FALSE}, bcv : {"none"},
                   tables : {<<>>}, remembered : {0}, raised : {TRADE_STOP - 1}, complete : {FALSE}, pool : {FALSE},
                   icons : {<<>>}]
  BY DemoConstants DEF DemoInit
<1>3. TRADE_STOP - 1 \in Int /\ Balances \subseteq Nat /\ <<>> \in Seq(Callers) /\ <<>> \in Seq(SUBSET AddressRange)
      /\ <<>> \in Seq(DemoIcon) /\ 1 \in 1 .. MaxAttempts /\ {} \in SUBSET Stale /\ 0 \in Nat
  BY DemoConstants
<1>4. fork \in DemoFork
  BY <1>2, <1>3 DEF DemoFork
<1>5. r \in DemoRequest /\ m \in [1 .. MaxAttempts -> DemoFates]
  BY <1>3 DEF DemoRequest, DemoSteps, EarlySteps, DemoFates
<1>6. /\ r.step = "new" /\ r.attempt = 1 /\ r.last = Nil /\ r.route = Nil /\ r.table = 0 /\ r.answer = Nil
      /\ \A n \in 1 .. MaxAttempts : m[n] = "none"
  OBVIOUS
<1> HIDE DEF r, m
<1>7. DemoTyped
  BY <1>1, <1>4, <1>5 DEF DemoTyped
<1>8. DemoForkOK(fork)
  BY <1>2, DemoConstants DEF DemoForkOK
<1>9. DemoQueueOK
  <2>1. \A u \in Callers : ~Stands(u, "quote")
    BY <1>1, <1>6 DEF Stands
  <2>2. {u \in Callers : Stands(u, "quote")} = {}
    BY <2>1
  <2>3. {fork.queue[i] : i \in 1 .. Len(fork.queue)} = {}
    BY <1>2
  <2> QED BY <1>2, <2>2, <2>3 DEF DemoQueueOK
<1>10. DemoCurveOK
  BY <1>2 DEF DemoCurveOK
<1>11. ASSUME NEW u \in Callers PROVE DemoCallerOK(u, errand[u], request[u], wired[u], fork)
  <2>1. "new" \in EarlySteps /\ "new" \notin SetupSteps \cup FundedSteps \cup LeasedSteps /\ Nil \notin Unmoved /\ Nil # "burned"
    BY DEF EarlySteps, SetupSteps, FundedSteps, LeasedSteps, Unmoved, Nil
  <2>2. SendsOK(r, m)
    BY <1>3, <1>6, <2>1 DEF SendsOK
  <2>3. SetupOK(r, fork) /\ ExclusionsOK(r, fork) /\ ErrandOK(r, errand[u], fork) /\ LeaseOK(u, r, m, fork)
    BY <1>6, <2>1, DemoConstants DEF SetupOK, ExclusionsOK, ErrandOK, LeaseOK
  <2> QED BY <1>1, <2>2, <2>3 DEF DemoCallerOK
<1> QED BY <1>7, <1>8, <1>9, <1>10, <1>11 DEF DemoInv

LEMMA DemoStepKeeps == DemoInv /\ [DemoNext]_demoVars => DemoInv'
<1> SUFFICES ASSUME DemoInv, [DemoNext]_demoVars PROVE DemoInv'
  OBVIOUS
<1>1. CASE UNCHANGED demoVars
  <2>1. errand' = errand /\ request' = request /\ wired' = wired /\ fork' = fork
    BY <1>1 DEF demoVars
  <2>2. DemoTyped' /\ DemoForkOK(fork')
    BY <2>1 DEF DemoInv, DemoTyped
  <2>3. DemoQueueOK'
    BY <2>1 DEF DemoInv, DemoQueueOK, Stands
  <2>4. DemoCurveOK'
    BY <2>1 DEF DemoInv, DemoCurveOK, DemoOneTrade
  <2>5. \A u \in Callers : DemoCallerOK(u, errand'[u], request'[u], wired'[u], fork')
    BY <2>1 DEF DemoInv
  <2> QED BY <2>2, <2>3, <2>4, <2>5 DEF DemoInv
<1>2. ASSUME NEW u \in Callers, SetupNext(u) PROVE DemoInv'
  BY <1>2, StartBurnKeeps, UnresolvedKeeps, SeeAccumulatorKeeps, InitAccumulatorKeeps, SeeCurveV2Keeps, FundCurveV2Keeps,
     SeeTableKeeps, CreateTableKeeps, ExtendTableKeeps, SetupFailsKeeps, WarmKeeps, ActivateKeeps DEF SetupNext
<1>3. ASSUME NEW u \in Callers, AttemptNext(u) PROVE DemoInv'
  BY <1>3, AcquireVaultKeeps, BacksOffKeeps, WeatherKeeps, PolicyRefusesKeeps, PassesSimulationKeeps, SubmitBurnKeeps,
     QuotedKeeps, ExternalKeeps, NoRouteKeeps, PreflightRefusesKeeps, SubmitLostKeeps DEF AttemptNext
<1>4. ASSUME NEW u \in Callers, WatchNext(u) PROVE DemoInv'
  BY <1>4, ConfirmedKeeps, SettleLeaseKeeps, BurnedKeeps, WatchFailsKeeps, LeaseEndsKeeps, ExecutesKeeps DEF WatchNext
<1>5. ASSUME NEW u \in Callers, CoinNext(u) PROVE DemoInv'
  BY <1>5, StartTradeKeeps, BuyKeeps, StartMigrationKeeps, RunMigrationKeeps, AskIconKeeps, FetchIconKeeps DEF CoinNext
<1> QED BY <1>1, <1>2, <1>3, <1>4, <1>5 DEF DemoNext

\* What the demo promises whatever its leases do.
DemoHonest ==
  /\ \A u \in Callers : ~request[u].lost =>
       /\ Cardinality(Wired(u)) <= 1
       /\ request[u].answer \in Unmoved => Wired(u) = {}
  /\ BurnedLanded /\ DeterministicIsHopeless /\ SetupComplete /\ QueueSound /\ StaysTradable /\ IconsBounded

LEMMA AtMostOne ==
  ASSUME NEW S, NEW x, S \subseteq {x}
  PROVE  Cardinality(S) <= 1
<1>1. CASE S = {}
  BY <1>1, FS_EmptySet
<1>2. CASE S # {}
  <2>1. S = {x}
    BY <1>2
  <2> QED BY <2>1, FS_Singleton
<1> QED BY <1>1, <1>2

LEMMA DemoInvHonest == DemoInv => DemoHonest
<1> SUFFICES ASSUME DemoInv PROVE DemoHonest
  OBVIOUS
<1>1. ASSUME NEW u \in Callers, ~request[u].lost
      PROVE  Cardinality(Wired(u)) <= 1 /\ (request[u].answer \in Unmoved => Wired(u) = {})
  <2>1. SendsOK(request[u], wired[u]) /\ request[u].attempt \in 1 .. MaxAttempts /\ MaxAttempts \in Nat
    BY DemoParts, DemoConstants DEF DemoCallerOK
  <2>2. Wired(u) \subseteq {request[u].attempt}
    <3> SUFFICES ASSUME NEW n \in 1 .. MaxAttempts, wired[u][n] # "none" PROVE n = request[u].attempt
      BY DEF Wired
    <3>1. n < request[u].attempt \/ n = request[u].attempt \/ n > request[u].attempt
      BY <2>1
    <3> QED BY <1>1, <2>1, <3>1 DEF SendsOK
  <2>3. request[u].answer \in Unmoved => Wired(u) = {}
    BY <1>1, <2>1, <2>2 DEF SendsOK, Wired
  <2> QED BY <2>2, <2>3, AtMostOne
<1>2. BurnedLanded
  BY DemoParts DEF BurnedLanded, DemoCallerOK, SendsOK, Fate
<1>3. DeterministicIsHopeless
  BY DemoParts DEF DeterministicIsHopeless, DemoCallerOK, ExclusionsOK
<1>4. SetupComplete
  <2> SUFFICES ASSUME NEW u \in Callers, request[u].table # 0, request[u].missing = {}
               PROVE  fork.acc /\ fork.bcv # "none" /\ fork.tables[request[u].table] = 1 .. AddressBatches
    BY DEF SetupComplete
  <2>1. SetupOK(request[u], fork) /\ fork.tables \in Seq(SUBSET AddressRange)
    BY DemoParts DEF DemoCallerOK, DemoFork
  <2>2. request[u].table \in 1 .. Len(fork.tables) /\ AddressRange \subseteq fork.tables[request[u].table]
    BY <2>1 DEF SetupOK
  <2>3. fork.tables[request[u].table] \in SUBSET AddressRange
    BY <2>1, <2>2, ElementOfSeq
  <2> QED BY <2>1, <2>2, <2>3 DEF SetupOK, AddressRange
<1>5. QueueSound
  <2>1. DemoQueueOK /\ fork.queue \in Seq(Callers)
    BY DEF DemoInv, DemoTyped, DemoFork
  <2>2. DOMAIN fork.queue = 1 .. Len(fork.queue)
    BY <2>1, LenProperties
  <2> QED BY <2>1, <2>2, Zenon DEF DemoQueueOK, QueueSound
<1>6. StaysTradable
  <2>1. DemoForkOK(fork) /\ DemoCurveOK
    BY DEF DemoInv
  <2>2. ASSUME fork.complete
        PROVE  \E u, w \in Callers : errand[u] = "trades" \/ (u # w /\ {errand[u], errand[w]} = {"trade"})
    BY <2>1, <2>2 DEF DemoCurveOK, DemoOneTrade
  <2> QED BY <2>1, <2>2 DEF StaysTradable, DemoForkOK
<1>7. IconsBounded
  <2>3. DemoForkOK(fork) /\ fork.icons \in Seq(DemoIcon)
    BY DEF DemoInv, DemoTyped, DemoFork
  <2>1. DemoForkOK(fork) /\ fork.icons \in Seq(DemoIcon) /\ DOMAIN fork.icons = 1 .. Len(fork.icons)
    BY <2>3, LenProperties
  <2>2. ASSUME NEW i \in 1 .. Len(fork.icons), fork.icons[i].icon, NEW k \in DOMAIN Links[fork.icons[i].coin],
               ~Links[fork.icons[i].coin][k].safe
        PROVE  \E j \in 1 .. k - 1 : Links[fork.icons[i].coin][j].kind = "image"
    <3> DEFINE coin == fork.icons[i].coin
               L == Links[coin]
    <3>1. fork.icons[i] \in DemoIcon
      BY <2>1, ElementOfSeq
    <3>2. coin \in DOMAIN Links /\ IconOf(coin)
      BY <2>1, <2>2, <3>1 DEF DemoForkOK, DemoIcon, Coins
    <3>3. L \in Seq([safe : BOOLEAN, kind : {"redirect", "image", "other"}])
      BY <3>2, DemoConstants
    <3>4. PICK n \in 1 .. Len(L) : L[n].kind = "image" /\ \A j \in 1 .. n : L[j].safe
      BY <3>2 DEF IconOf
    <3>5. k \in 1 .. Len(L) /\ Len(L) \in Nat /\ ~L[k].safe
      BY <2>2, <3>3
    <3>6. n < k /\ n \in 1 .. k - 1
      BY <3>4, <3>5
    <3> QED BY <3>4, <3>6
  <2> QED BY <2>1, <2>2 DEF IconsBounded, DemoForkOK
<1> QED BY <1>1, <1>2, <1>3, <1>4, <1>5, <1>6, <1>7 DEF DemoHonest

LEMMA DemoInvSound == ASSUME ~SlowFetch PROVE DemoInv => DemoSound
<1> SUFFICES ASSUME DemoInv PROVE DemoSound
  OBVIOUS
<1>1. DemoHonest
  BY DemoInvHonest
<1>2. ASSUME \A u \in Callers : ~request[u].lost PROVE Cardinality(Flying) <= 1
  <2>1. ASSUME NEW u \in Flying PROVE u = fork.lease
    <3>1. u \in Callers /\ \E n \in 1 .. MaxAttempts : wired[u][n] = "flying"
      BY <2>1 DEF Flying
    <3> QED BY <1>2, <3>1, DemoParts DEF DemoCallerOK, LeaseOK
  <2>2. Flying \subseteq {fork.lease}
    BY <2>1
  <2> QED BY <2>2, AtMostOne
<1> QED BY <1>1, <1>2 DEF DemoHonest, DemoSound, OneBurn

-----------------------------------------------------------------------------
(* Paid uploads (UploadPipeline) *)

\* What one request has paid for at each of its steps.
PaidKept(r) ==
  /\ r.text \in Nat
  /\ r.paid \in {{}, {"image"}, {"image", "metadata"}}
  /\ r.paid # {} => r.image \in 1 .. ImageCap
  /\ r.step \in {"balance", "preflight", "image"} => r.image \in 1 .. ImageCap
  /\ r.step \in {"new", "compress", "balance", "preflight", "image"} => r.paid = {}
  /\ r.step = "metadata" => r.paid = {"image"} /\ DeliveryAccepts(r.id)
  /\ "metadata" \in r.paid => r.points = "irys" /\ r.written <= r.text + Placeholder + 1
  /\ r.step = "refused" /\ r.paid # {} => r.why \in {"funds", "network", "receipt"}
  /\ r.step = "done" /\ r.paid # {} => DeliveryAccepts(r.id)

UploadFields ==
  {"step", "stores", "source", "text", "image", "quoted", "id", "written", "points", "paid", "code", "why"}

UploadInv ==
  /\ DOMAIN upload = Uploads /\ DOMAIN mirror = Uploads
  /\ \A u \in Uploads : DOMAIN upload[u] = UploadFields /\ PaidKept(upload[u]) /\ mirror[u] \in {"", "image"}

LEMMA UploadInitial == PipelineInit => UploadInv
<1>1. PaidKept(NoUpload) /\ DOMAIN NoUpload = UploadFields
  BY DEF PaidKept, UploadFields, NoUpload
<1> QED BY <1>1 DEF PipelineInit, UploadInv

\* A step of one request leaves the others and the mirror alone.
LEMMA OneUploads ==
  ASSUME UploadInv, NEW u \in Uploads, NEW r, upload' = [upload EXCEPT ![u] = r], UNCHANGED mirror,
         DOMAIN r = UploadFields, PaidKept(r)
  PROVE  UploadInv'
<1>1. DOMAIN upload' = Uploads /\ upload'[u] = r /\ \A v \in Uploads : v # u => upload'[v] = upload[v]
  BY DEF UploadInv
<1>2. ASSUME NEW v \in Uploads PROVE DOMAIN upload'[v] = UploadFields /\ PaidKept(upload'[v]) /\ mirror'[v] \in {"", "image"}
  BY <1>1 DEF UploadInv
<1> QED BY <1>1, <1>2 DEF UploadInv

LEMMA TurnedAwayKept ==
  ASSUME UploadInv, NEW u \in Uploads, NEW code, NEW why,
         upload[u].paid = {} \/ why \in {"funds", "network", "receipt"}
  PROVE  DOMAIN TurnedAway(u, code, why) = UploadFields /\ PaidKept(TurnedAway(u, code, why))
<1>1. DOMAIN upload[u] = UploadFields /\ PaidKept(upload[u])
  BY DEF UploadInv
<1> QED BY <1>1 DEF TurnedAway, PaidKept, UploadFields

LEMMA ParseRequestKept ==
  ASSUME UploadInv, NEW u \in Uploads, NEW prepare \in BOOLEAN, NEW flaw, NEW source, NEW text \in Texts,
         ParseRequest(u, prepare, flaw, source, text)
  PROVE  UploadInv'
<1> DEFINE taken == [upload[u] EXCEPT !.step = "compress", !.stores = ~ prepare, !.source = source,
                                      !.text = IF prepare THEN 0 ELSE text]
<1>1. PaidKept(upload[u]) /\ DOMAIN upload[u] = UploadFields /\ upload[u].step = "new" /\ text \in Nat
  BY PipelineConstants DEF UploadInv, ParseRequest
<1>2. upload[u].paid = {}
  BY <1>1 DEF PaidKept
<1>3. PaidKept(taken) /\ DOMAIN taken = UploadFields
  BY <1>1, <1>2 DEF PaidKept, UploadFields
<1>4. CASE flaw # "none"
  <2>1. upload' = [upload EXCEPT ![u] = TurnedAway(u, FlawCode(flaw), "request")] /\ UNCHANGED mirror
    BY <1>4 DEF ParseRequest
  <2> QED BY <1>2, <2>1, TurnedAwayKept, OneUploads
<1>5. CASE flaw = "none"
  <2>1. upload' = [upload EXCEPT ![u] = taken] /\ UNCHANGED mirror
    BY <1>5 DEF ParseRequest
  <2> QED BY <1>3, <2>1, OneUploads
<1> QED BY <1>4, <1>5

LEMMA CompressKept ==
  ASSUME UploadInv, NEW u \in Uploads, NEW answer, Compress(u, answer)
  PROVE  UploadInv'
<1> DEFINE image == IF answer = 200 THEN Encoded(upload[u].source) ELSE 0
           verdict == CompressionCode(IF answer = 200 /\ image = 0 THEN 422 ELSE answer, image)
           fitting == [upload[u] EXCEPT !.image = image, !.step = IF upload[u].stores THEN "balance" ELSE "done"]
<1>1. PaidKept(upload[u]) /\ DOMAIN upload[u] = UploadFields /\ upload[u].step = "compress"
  BY DEF UploadInv, Compress
<1>2. upload[u].paid = {}
  BY <1>1 DEF PaidKept
<1>3. \/ upload' = [upload EXCEPT ![u] = TurnedAway(u, verdict, "image")]
      \/ upload' = [upload EXCEPT ![u] = TurnedAway(u, "UPLOAD_TOO_LARGE", "request")]
      \/ verdict = "ok" /\ upload' = [upload EXCEPT ![u] = fitting]
  BY DEF Compress
<1>4. UNCHANGED mirror
  BY DEF Compress
<1>5. ASSUME verdict = "ok" PROVE PaidKept(fitting) /\ DOMAIN fitting = UploadFields
  <2> HIDE DEF image
  <2>1. image \in 1 .. ImageCap
    BY <1>5 DEF CompressionCode
  <2> QED BY <1>1, <1>2, <2>1 DEF PaidKept, UploadFields
<1> HIDE DEF verdict, fitting
<1>6. CASE upload' = [upload EXCEPT ![u] = TurnedAway(u, verdict, "image")]
  BY <1>2, <1>4, <1>6, TurnedAwayKept, OneUploads
<1>7. CASE upload' = [upload EXCEPT ![u] = TurnedAway(u, "UPLOAD_TOO_LARGE", "request")]
  BY <1>2, <1>4, <1>7, TurnedAwayKept, OneUploads
<1>8. CASE verdict = "ok" /\ upload' = [upload EXCEPT ![u] = fitting]
  BY <1>4, <1>5, <1>8, OneUploads
<1> QED BY <1>3, <1>6, <1>7, <1>8

LEMMA AskBalanceKept ==
  ASSUME UploadInv, NEW u \in Uploads, AskBalance(u)
  PROVE  UploadInv'
<1> DEFINE asked == [upload[u] EXCEPT !.step = "preflight", !.quoted = balance]
<1>1. PaidKept(upload[u]) /\ DOMAIN upload[u] = UploadFields /\ upload[u].step = "balance"
  BY DEF UploadInv, AskBalance
<1>2. PaidKept(asked) /\ DOMAIN asked = UploadFields
  BY <1>1 DEF PaidKept, UploadFields
<1>3. upload' = [upload EXCEPT ![u] = asked] /\ UNCHANGED mirror
  BY DEF AskBalance, UploadInv
<1> QED BY <1>2, <1>3, OneUploads

LEMMA PreflightKept ==
  ASSUME UploadInv, NEW u \in Uploads, Preflight(u)
  PROVE  UploadInv'
<1> DEFINE onward == [upload[u] EXCEPT !.step = "image"]
<1>1. PaidKept(upload[u]) /\ DOMAIN upload[u] = UploadFields /\ upload[u].step = "preflight"
  BY DEF UploadInv, Preflight
<1>2. PaidKept(onward) /\ DOMAIN onward = UploadFields
  BY <1>1 DEF PaidKept, UploadFields
<1>3. \/ upload' = [upload EXCEPT ![u] = TurnedAway(u, "IRYS_INSUFFICIENT_FUNDS", "funds")]
      \/ upload' = [upload EXCEPT ![u] = onward]
  BY DEF Preflight
<1>4. UNCHANGED mirror
  BY DEF Preflight
<1>5. CASE upload' = [upload EXCEPT ![u] = onward]
  BY <1>2, <1>4, <1>5, OneUploads
<1>6. CASE upload' = [upload EXCEPT ![u] = TurnedAway(u, "IRYS_INSUFFICIENT_FUNDS", "funds")]
  BY <1>4, <1>6, TurnedAwayKept, OneUploads
<1> QED BY <1>3, <1>5, <1>6

LEMMA UnpaidKept ==
  ASSUME UploadInv, NEW u \in Uploads, Unpaid(u)
  PROVE  UploadInv'
<1>1. /\ UNCHANGED mirror
      /\ \/ upload' = [upload EXCEPT ![u] = TurnedAway(u, "IRYS_INSUFFICIENT_FUNDS", "funds")]
         \/ upload' = [upload EXCEPT ![u] = TurnedAway(u, "IRYS_UPLOAD_FAILED", "network")]
  BY DEF Unpaid, Writes
<1>2. CASE upload' = [upload EXCEPT ![u] = TurnedAway(u, "IRYS_INSUFFICIENT_FUNDS", "funds")]
  BY <1>1, <1>2, TurnedAwayKept, OneUploads
<1>3. CASE upload' = [upload EXCEPT ![u] = TurnedAway(u, "IRYS_UPLOAD_FAILED", "network")]
  BY <1>1, <1>3, TurnedAwayKept, OneUploads
<1> QED BY <1>1, <1>2, <1>3

\* A readable id of Irys is one that the mirror delivers.
LEMMA ReadableDelivers ==
  ASSUME NEW receipt, Readable(receipt)
  PROVE  DeliveryAccepts(Normal(receipt.form))
  BY DEF Readable, IdForms, Normal, DeliveryAccepts

LEMMA WriteImageKept ==
  ASSUME UploadInv, NEW u \in Uploads, NEW receipt, NEW lost, WriteImage(u, receipt, lost)
  PROVE  UploadInv'
<1> DEFINE gone == [upload[u] EXCEPT !.paid = {"image"}, !.step = "refused", !.code = "IRYS_UPLOAD_FAILED", !.why = "receipt"]
           imaged == [upload[u] EXCEPT !.paid = {"image"}, !.step = "metadata", !.id = Normal(receipt.form)]
<1>1. PaidKept(upload[u]) /\ DOMAIN upload[u] = UploadFields /\ upload[u].step = "image" /\ UNCHANGED mirror
  BY DEF UploadInv, WriteImage, Writes
<1>2. upload[u].image \in 1 .. ImageCap /\ upload[u].text \in Nat
  BY <1>1 DEF PaidKept
<1>3. PaidKept(gone) /\ DOMAIN gone = UploadFields
  BY <1>1, <1>2 DEF PaidKept, UploadFields
<1>4. CASE lost \/ ~ Readable(receipt)
  <2>1. upload' = [upload EXCEPT ![u] = gone]
    BY <1>1, <1>4 DEF WriteImage, UploadFields
  <2> QED BY <1>1, <1>3, <2>1, OneUploads
<1>5. CASE ~ (lost \/ ~ Readable(receipt))
  <2>1. DeliveryAccepts(Normal(receipt.form))
    BY <1>5, ReadableDelivers
  <2>2. upload' = [upload EXCEPT ![u] = imaged]
    BY <1>1, <1>5, <2>1 DEF WriteImage, UploadFields
  <2>3. PaidKept(imaged) /\ DOMAIN imaged = UploadFields
    BY <1>1, <1>2, <2>1 DEF PaidKept, UploadFields
  <2> QED BY <1>1, <2>2, <2>3, OneUploads
<1> QED BY <1>4, <1>5

LEMMA WriteMetadataKept ==
  ASSUME UploadInv, NEW u \in Uploads, NEW receipt, NEW lost, WriteMetadata(u, receipt, lost)
  PROVE  UploadInv'
<1> DEFINE bytes == upload[u].text + IdLength(upload[u].id)
           gone == [upload[u] EXCEPT !.paid = {"image", "metadata"}, !.written = bytes, !.points = "irys",
                                     !.step = "refused", !.code = "IRYS_UPLOAD_FAILED", !.why = "receipt"]
           stored == [upload[u] EXCEPT !.paid = {"image", "metadata"}, !.written = bytes, !.points = "irys",
                                       !.step = "done"]
<1>1. PaidKept(upload[u]) /\ DOMAIN upload[u] = UploadFields /\ upload[u].step = "metadata" /\ UNCHANGED mirror
  BY DEF UploadInv, WriteMetadata, Writes
<1>2. /\ upload[u].image \in 1 .. ImageCap /\ upload[u].text \in Nat
      /\ upload[u].paid = {"image"} /\ DeliveryAccepts(upload[u].id)
  BY <1>1 DEF PaidKept
<1>3. bytes <= upload[u].text + Placeholder + 1
  BY <1>2 DEF IdLength, Placeholder
<1>4. upload[u].paid \cup {"metadata"} = {"image", "metadata"}
  BY <1>2
<1> HIDE DEF bytes
<1>5. /\ PaidKept(gone) /\ DOMAIN gone = UploadFields
      /\ PaidKept(stored) /\ DOMAIN stored = UploadFields
  BY <1>1, <1>2, <1>3 DEF PaidKept, UploadFields
<1>6. CASE lost \/ ~ Readable(receipt)
  <2>1. upload' = [upload EXCEPT ![u] = gone]
    BY <1>1, <1>4, <1>6 DEF WriteMetadata, UploadFields, bytes
  <2> QED BY <1>1, <1>5, <2>1, OneUploads
<1>7. CASE ~ (lost \/ ~ Readable(receipt))
  <2>1. upload' = [upload EXCEPT ![u] = stored]
    BY <1>1, <1>4, <1>7 DEF WriteMetadata, UploadFields, bytes
  <2> QED BY <1>1, <1>5, <2>1, OneUploads
<1> QED BY <1>6, <1>7

\* Content that came along a trail of the image's own address is the image.
LEMMA DeliverIrysKept ==
  ASSUME UploadInv, NEW u \in Uploads, NEW trail, DeliverIrys(u, trail)
  PROVE  UploadInv'
<1>1. Delivered(trail) \in {"", "image"}
  BY DEF Delivered, Follows
<1>2. DOMAIN mirror' = Uploads /\ UNCHANGED upload /\ \A v \in Uploads : mirror'[v] \in {"", "image"}
  BY <1>1 DEF DeliverIrys, UploadInv
<1> QED BY <1>2 DEF UploadInv

LEMMA UploadStepKeeps == UploadInv /\ [PipelineNext]_pipelineVars => UploadInv'
<1> SUFFICES ASSUME UploadInv, [PipelineNext]_pipelineVars PROVE UploadInv'
  OBVIOUS
<1>1. CASE UNCHANGED pipelineVars
  BY <1>1 DEF pipelineVars, UploadInv
<1>2. CASE PipelineNext
  <2>1. PICK u \in Uploads :
          \/ \E prepare \in BOOLEAN, source \in Sources, text \in Texts :
               \E flaw \in Flaws(prepare) : ParseRequest(u, prepare, flaw, source, text)
          \/ \E answer \in Statuses : Compress(u, answer)
          \/ AskBalance(u) \/ Preflight(u) \/ Unpaid(u)
          \/ \E receipt \in Receipts, lost \in BOOLEAN : WriteImage(u, receipt, lost) \/ WriteMetadata(u, receipt, lost)
          \/ \E trail \in Trails : DeliverIrys(u, trail)
    BY <1>2 DEF PipelineNext
  <2> QED BY <2>1, ParseRequestKept, CompressKept, AskBalanceKept, PreflightKept, UnpaidKept,
             WriteImageKept, WriteMetadataKept, DeliverIrysKept
<1> QED BY <1>1, <1>2

LEMMA UploadsAreSound == UploadInv => UploadsSound
<1> SUFFICES ASSUME UploadInv PROVE UploadsSound
  OBVIOUS
<1>1. ASSUME NEW u \in Uploads PROVE PaidKept(upload[u]) /\ mirror[u] \in {"", "image"}
  BY DEF UploadInv
<1>2. StoredSound /\ PaidIsServed /\ MirrorFaithful
  BY <1>1 DEF StoredSound, PaidIsServed, MirrorFaithful, PaidKept
<1>3. WrittenNearPriced
  BY <1>1 DEF WrittenNearPriced, PaidKept, Placeholder
<1> QED BY <1>2, <1>3 DEF UploadsSound

-----------------------------------------------------------------------------
(* Starting, serving and leaving (ServiceWiring) *)

\* A wiring is of an environment that it stands on.
WiredFrom(w) ==
  \/ w = Unwired
  \/ \E e \in Givens : \/ w = ProductionWiring(e) /\ ProductionStands(e)
                       \/ w = ForkWiring(e) /\ ForkStands(e)

CallsTyped == DOMAIN call = Calls /\ \A k \in Calls : DOMAIN call[k] = {"at", "connected"}

\* Nobody is connected before the server listens, it drains only when told to,
\* and only its own end gives a code.
ProcInv ==
  /\ DOMAIN proc = {"stage", "wiring", "heard", "awaited", "waits", "signals", "code"}
  /\ proc.stage \in {"absent", "booting", "listening", "draining", "exited", "killed"}
  /\ WiredFrom(proc.wiring)
  /\ proc.heard \subseteq {"SIGTERM", "SIGINT"} /\ proc.signals \in Nat
  /\ Cardinality(proc.heard) <= proc.signals
  /\ proc.stage \in {"absent", "booting"} => Connected = {} /\ proc.heard = {}
  /\ proc.stage = "draining" => proc.heard # {}
  /\ proc.stage # "exited" => proc.code = -1
  /\ LeavesClean

\* The verdicts given are those of the one promise that the isolate keeps.
IsoInv ==
  /\ DOMAIN iso = {"promise", "wiring", "starts", "lost", "verdicts"}
  /\ iso.promise \in {None, "pending", "kept", "rejected"}
  /\ WiredFrom(iso.wiring)
  /\ iso.starts = IF iso.promise = None THEN 0 ELSE 1
  /\ iso.verdicts \subseteq CASE iso.promise = "kept"     -> {"answered"}
                               [] iso.promise = "rejected" -> {"unavailable"}
                               [] OTHER                    -> {}

WiringInv == given \in Givens /\ CallsTyped /\ ProcInv /\ IsoInv

-----------------------------------------------------------------------------

\* What is read of an environment is an integer.
LEMMA PolicyReads ==
  ASSUME NEW e \in Givens, NEW production \in BOOLEAN
  PROVE  LET p == PolicyOf(e, production)
         IN  /\ p.production = production
             /\ {p.amount, p.slippage, p.impact, p.units, p.ttl, p.retries} \subseteq Int
<1>1. {e.amount, e.slippage, e.impact, e.units, e.heights, e.ttl, e.retries} \subseteq Int /\ {UNITS_HIGH, TTL_LOW} \subseteq Int
  BY WiringConstants
<1>2. \A d \in {Defaults(TRUE), Defaults(FALSE)} : {d.amount, d.slippage, d.impact} \subseteq Int
  BY DEF Defaults, Unset
<1>3. \A raw, fallback \in Int :
        CapOf(raw, fallback) \in Int /\ Positive(raw, fallback) \in Int /\ NonNegative(raw, fallback) \in Int
  BY DEF CapOf, Positive, NonNegative, Unset, Junk, Bad
<1> DEFINE d == Defaults(~ production)
<1>4. d.amount \in Int /\ d.slippage \in Int /\ d.impact \in Int
  BY <1>2
<1> HIDE DEF d
<1>5. \A raw \in {e.amount, e.slippage, e.impact, e.units, e.ttl, e.retries} : raw \in Int
  BY <1>1
<1>6. UNITS_HIGH \in Int /\ TTL_LOW \in Int /\ 2 \in Int /\ Unset \in Int
  BY <1>1 DEF Unset
<1>7. CapOf(e.amount, d.amount) \in Int /\ Positive(e.slippage, d.slippage) \in Int /\ Positive(e.impact, d.impact) \in Int
  BY <1>3, <1>4, <1>5
<1>8. Positive(e.units, UNITS_HIGH) \in Int /\ Positive(e.ttl, TTL_LOW) \in Int /\ NonNegative(e.retries, 2) \in Int
  BY <1>3, <1>5, <1>6
<1> DEFINE p == PolicyOf(e, production)
<1>9. /\ p.production = production
      /\ p.amount = CapOf(e.amount, d.amount) /\ p.slippage = Positive(e.slippage, d.slippage)
      /\ p.impact = Positive(e.impact, d.impact) /\ p.units = Positive(e.units, UNITS_HIGH)
      /\ p.ttl = Positive(e.ttl, TTL_LOW)
      /\ p.retries = IF e.retries = Unset THEN Unset ELSE NonNegative(e.retries, 2)
  BY DEF PolicyOf, d
<1> HIDE DEF p
<1> SUFFICES /\ p.production = production
             /\ {p.amount, p.slippage, p.impact, p.units, p.ttl, p.retries} \subseteq Int
  BY DEF p
<1> QED BY <1>6, <1>7, <1>8, <1>9

\* A wiring that stands is within the bounds of its policy.
LEMMA WiredWithin ==
  ASSUME NEW w, WiredFrom(w), w # Unwired
  PROVE  /\ w.policy.units \in UNITS_LOW + 1 .. UNITS_HIGH /\ w.policy.slippage \in 1 .. IMPACT_HIGH - 1
         /\ w.policy.amount > 0 /\ w.policy.impact \in 0 .. IMPACT_HIGH
         /\ w.policy.ttl >= TTL_LOW /\ w.policy.retries \in {Unset} \cup 0 .. RETRIES_HIGH
         /\ w.payer <=> w.rpc = "local"
         /\ w.oneShot => w.payer
         /\ w.policy.production <=> w.rpc = "https"
         /\ VenuesOf(w, PumpVenues) \cap PumpVenues = {} \/ (w.mode = "fork-e2e" /\ w.dexes \subseteq PumpVenues)
<1>1. PICK e \in Givens : \/ w = ProductionWiring(e) /\ ProductionStands(e)
                          \/ w = ForkWiring(e) /\ ForkStands(e)
  BY DEF WiredFrom
<1>2. PICK production \in BOOLEAN :
        /\ w.policy = PolicyOf(e, production) /\ Accepted(w.policy)
        /\ w.rpc = (IF production THEN "https" ELSE "local")
        /\ w.payer = ~ production /\ w.oneShot = ~ production
        /\ w.mode = (IF production THEN "production" ELSE "fork-e2e")
  <2>1. CASE w = ProductionWiring(e) /\ ProductionStands(e)
    <3>1. /\ w.policy = PolicyOf(e, TRUE) /\ w.rpc = e.rpc /\ w.payer = FALSE /\ w.oneShot = FALSE /\ w.mode = "production"
          /\ e.rpc = "https" /\ Accepted(PolicyOf(e, TRUE))
      BY <2>1 DEF ProductionWiring, ProductionStands
    <3> WITNESS TRUE \in BOOLEAN
    <3> QED BY <3>1
  <2>2. CASE w = ForkWiring(e) /\ ForkStands(e)
    <3>1. /\ w.policy = PolicyOf(e, FALSE) /\ w.rpc = ForkRpc(e) /\ w.payer = TRUE /\ w.oneShot = TRUE /\ w.mode = "fork-e2e"
          /\ ForkRpc(e) = "local" /\ Accepted(PolicyOf(e, FALSE))
      BY <2>2 DEF ForkWiring, ForkStands
    <3> WITNESS FALSE \in BOOLEAN
    <3> QED BY <3>1
  <2> QED BY <1>1, <2>1, <2>2
<1>3. /\ w.policy.production = production
      /\ {w.policy.amount, w.policy.slippage, w.policy.impact, w.policy.units, w.policy.ttl, w.policy.retries} \subseteq Int
  BY <1>2, PolicyReads
<1>4. /\ w.policy.units \in UNITS_LOW + 1 .. UNITS_HIGH /\ w.policy.slippage \in 1 .. IMPACT_HIGH - 1
      /\ w.policy.amount > 0 /\ w.policy.impact \in 0 .. IMPACT_HIGH
      /\ w.policy.ttl >= TTL_LOW /\ w.policy.retries \in {Unset} \cup 0 .. RETRIES_HIGH
  BY <1>2, <1>3, WiringConstants DEF Accepted
<1>5. /\ w.payer <=> w.rpc = "local"
      /\ w.oneShot => w.payer
      /\ w.policy.production <=> w.rpc = "https"
  BY <1>2, <1>3
<1>6. VenuesOf(w, PumpVenues) \cap PumpVenues = {} \/ (w.mode = "fork-e2e" /\ w.dexes \subseteq PumpVenues)
  BY <1>2 DEF VenuesOf
<1> QED BY <1>4, <1>5, <1>6

LEMMA DefaultLimits ==
  ASSUME NEW e, e.body = Unset, e.deadline = Unset
  PROVE  NodeLimits(e) = WorkerLimits
  BY DEF NodeLimits, WorkerLimits, Positive, Unset

\* The signals of a process are two.
LEMMA SignalsFinite ==
  ASSUME NEW set, set \subseteq {"SIGTERM", "SIGINT"}
  PROVE  IsFiniteSet(set) /\ Cardinality(set) \in Nat
<1>1. IsFiniteSet({"SIGTERM"}) /\ {"SIGTERM", "SIGINT"} = {"SIGTERM"} \cup {"SIGINT"}
  BY FS_Singleton
<1>2. IsFiniteSet({"SIGTERM", "SIGINT"})
  BY <1>1, FS_AddElement
<1> QED BY <1>2, FS_Subset, FS_CardinalityType

LEMMA WiringInitial == WiringInit => WiringInv
<1> SUFFICES ASSUME WiringInit PROVE WiringInv
  OBVIOUS
<1>1. WiredFrom(Unwired)
  BY DEF WiredFrom
<1>2. CallsTyped /\ Connected = {}
  BY DEF WiringInit, CallsTyped, Connected
<1>3. Cardinality({}) = 0
  BY FS_EmptySet
<1>4. ProcInv
  BY <1>1, <1>2, <1>3 DEF WiringInit, ProcInv, LeavesClean
<1>5. IsoInv
  BY <1>1 DEF WiringInit, IsoInv
<1> QED BY <1>2, <1>4, <1>5 DEF WiringInit, WiringInv

LEMMA ConnectedStay == UNCHANGED call => Connected' = Connected /\ (CallsTyped => CallsTyped')
  BY DEF Connected, CallsTyped

\* The wiring of a process is that of its environment.
LEMMA WireUpKept ==
  ASSUME WiringInv, WireUp
  PROVE  WiringInv'
<1> DEFINE wiredUp == IF given.mode = "production" THEN ProductionWiring(given) ELSE ForkWiring(given)
           stands == CASE given.mode = "production" -> ProductionStands(given)
                       [] given.mode = "fork-e2e" -> ForkStands(given)
                       [] OTHER -> FALSE
<1>1. /\ UNCHANGED <<given, iso, call>> /\ proc.stage = "booting"
      /\ \/ proc' = [proc EXCEPT !.stage = "exited", !.code = 1]
         \/ stands /\ proc' = [proc EXCEPT !.wiring = wiredUp]
  BY DEF WireUp, Exits
<1>2. stands => WiredFrom(wiredUp)
  <2>1. CASE given.mode = "production"
    BY <2>1 DEF WiredFrom, WiringInv
  <2>2. CASE given.mode # "production"
    BY <2>2 DEF WiredFrom, WiringInv
  <2> QED BY <2>1, <2>2
<1> HIDE DEF wiredUp, stands
<1>3. Connected' = Connected /\ CallsTyped'
  BY <1>1, ConnectedStay DEF WiringInv
<1>4. ProcInv'
  <2>1. CASE proc' = [proc EXCEPT !.stage = "exited", !.code = 1]
    BY <1>3, <2>1 DEF WiringInv, ProcInv, LeavesClean
  <2>2. CASE stands /\ proc' = [proc EXCEPT !.wiring = wiredUp]
    BY <1>1, <1>2, <1>3, <2>2 DEF WiringInv, ProcInv, LeavesClean
  <2> QED BY <1>1, <2>1, <2>2
<1>5. IsoInv'
  BY <1>1 DEF WiringInv, IsoInv
<1> QED BY <1>1, <1>3, <1>4, <1>5 DEF WiringInv

\* The process goes on, or ends, and its calls stay where they are.
LEMMA ProcessKept ==
  ASSUME WiringInv, UNCHANGED <<given, iso, call>>,
         \/ \E account \in BOOLEAN : Listen(account)
         \/ \E forced \in BOOLEAN : Settled(forced)
         \/ Leaves \/ Crashes
  PROVE  WiringInv'
<1>1. Connected' = Connected /\ CallsTyped'
  BY ConnectedStay DEF WiringInv
<1>2. \/ proc.stage = "booting" /\ proc' = [proc EXCEPT !.stage = "listening"]
      \/ proc.stage = "draining" /\ proc' = [proc EXCEPT !.waits = "connections"]
      \/ proc.stage = "draining" /\ Connected = {} /\ proc' = [proc EXCEPT !.stage = "exited", !.code = 0]
      \/ proc' = [proc EXCEPT !.stage = "exited", !.code = 1]
  BY DEF Listen, Settled, Leaves, Crashes, Exits
<1>3. ProcInv'
  <2>1. CASE proc.stage = "booting" /\ proc' = [proc EXCEPT !.stage = "listening"]
    BY <1>1, <2>1 DEF WiringInv, ProcInv, LeavesClean
  <2>2. CASE proc.stage = "draining" /\ proc' = [proc EXCEPT !.waits = "connections"]
    BY <1>1, <2>2 DEF WiringInv, ProcInv, LeavesClean
  <2>3. CASE proc.stage = "draining" /\ Connected = {} /\ proc' = [proc EXCEPT !.stage = "exited", !.code = 0]
    BY <1>1, <2>3 DEF WiringInv, ProcInv, LeavesClean
  <2>4. CASE proc' = [proc EXCEPT !.stage = "exited", !.code = 1]
    BY <1>1, <2>4 DEF WiringInv, ProcInv, LeavesClean
  <2> QED BY <1>2, <2>1, <2>2, <2>3, <2>4
<1>4. IsoInv'
  BY DEF WiringInv, IsoInv
<1> QED BY <1>1, <1>3, <1>4 DEF WiringInv

\* A second signal of a kind kills, and is counted beside the one heard.
LEMMA SignalKept ==
  ASSUME WiringInv, NEW s \in {"SIGTERM", "SIGINT"}, Signal(s)
  PROVE  WiringInv'
<1>1. UNCHANGED <<given, iso, call>> /\ Connected' = Connected /\ CallsTyped'
  BY ConnectedStay DEF WiringInv, Signal
<1>2. /\ DOMAIN proc' = DOMAIN proc /\ proc'.wiring = proc.wiring
      /\ proc'.heard = proc.heard \cup {s} /\ proc'.signals = proc.signals + 1 /\ proc'.code = proc.code
      /\ proc.stage \in {"booting", "listening", "draining"}
      /\ proc'.stage = IF proc.stage = "booting" \/ s \in proc.heard THEN "killed" ELSE "draining"
  BY DEF WiringInv, ProcInv, Signal
<1>3. /\ proc.signals \in Nat /\ proc.heard \subseteq {"SIGTERM", "SIGINT"}
      /\ Cardinality(proc.heard) <= proc.signals /\ proc.code = -1
      /\ proc.stage = "booting" => Connected = {}
  BY <1>2 DEF WiringInv, ProcInv
<1>4. /\ IsFiniteSet(proc.heard) /\ Cardinality(proc.heard) \in Nat
      /\ Cardinality(proc'.heard) = IF s \in proc.heard THEN Cardinality(proc.heard) ELSE Cardinality(proc.heard) + 1
  BY <1>2, <1>3, SignalsFinite, FS_AddElement
<1>5. /\ Cardinality(proc'.heard) <= proc'.signals
      /\ s \in proc.heard => proc'.signals > Cardinality(proc'.heard)
  BY <1>2, <1>3, <1>4
<1>6. ProcInv'
  <2>1. LeavesClean'
    BY <1>1, <1>2, <1>3, <1>5 DEF LeavesClean
  <2> QED BY <1>1, <1>2, <1>3, <1>5, <2>1 DEF WiringInv, ProcInv
<1>7. IsoInv'
  BY <1>1 DEF WiringInv, IsoInv
<1> QED BY <1>1, <1>6, <1>7 DEF WiringInv

\* A server that listens or drains has neither left nor been killed.
LEMMA NodeCallsKept ==
  ASSUME WiringInv, NEW k \in Calls, NodeTakes(k) \/ Begins(k) \/ Ended(k) \/ Drops(k)
  PROVE  WiringInv'
<1>1. UNCHANGED <<given, proc, iso>> /\ proc.stage \in {"listening", "draining"}
  BY DEF NodeTakes, Begins, Ended, Drops
<1>2. CallsTyped'
  BY DEF WiringInv, CallsTyped, NodeTakes, Begins, Ended, Drops, Becomes
<1>3. ProcInv'
  BY <1>1 DEF WiringInv, ProcInv, LeavesClean
<1>4. IsoInv'
  BY <1>1 DEF WiringInv, IsoInv
<1> QED BY <1>1, <1>2, <1>3, <1>4 DEF WiringInv

\* The calls of an isolate are nobody's who is connected to the process.
LEMMA OutsideKept ==
  ASSUME WiringInv, UNCHANGED proc, given' \in Givens, CallsTyped', Connected' = Connected, IsoInv'
  PROVE  WiringInv'
<1>1. ProcInv'
  BY DEF WiringInv, ProcInv, LeavesClean
<1> QED BY <1>1 DEF WiringInv

LEMMA IsolateKept ==
  ASSUME WiringInv, IsolateStep
  PROVE  WiringInv'
<1>1. ASSUME NEW k \in Calls, IsolateTakes(k) PROVE WiringInv'
  <2>1. UNCHANGED <<given, proc>> /\ CallsTyped' /\ Connected' = Connected
    BY <1>1 DEF WiringInv, CallsTyped, IsolateTakes, InState, Becomes, Connected
  <2>2. IsoInv'
    <3>1. CASE iso.promise # None
      BY <1>1, <3>1 DEF WiringInv, IsoInv, IsolateTakes
    <3>2. CASE iso.promise = None
      <4>1. Initializes(given) => WiredFrom(ProductionWiring(given))
        BY DEF WiringInv, WiredFrom, Initializes
      <4>2. /\ DOMAIN iso' = DOMAIN iso /\ iso'.starts = 1 /\ iso'.verdicts = {}
            /\ iso'.promise = (IF Initializes(given) THEN "pending" ELSE "rejected")
            /\ iso'.wiring = IF Initializes(given) THEN ProductionWiring(given) ELSE iso.wiring
        BY <1>1, <3>2 DEF WiringInv, IsoInv, IsolateTakes, None
      <4> QED BY <4>1, <4>2 DEF WiringInv, IsoInv, None
    <3> QED BY <3>1, <3>2
  <2> QED BY <2>1, <2>2, OutsideKept DEF WiringInv
<1>2. ASSUME NEW k \in Calls, Served(k) PROVE WiringInv'
  <2>1. UNCHANGED <<given, proc>> /\ CallsTyped' /\ Connected' = Connected
    BY <1>2 DEF WiringInv, CallsTyped, Served, InState, Becomes, Connected
  <2>2. IsoInv'
    BY <1>2 DEF WiringInv, IsoInv, Served, None
  <2> QED BY <2>1, <2>2, OutsideKept DEF WiringInv
<1>3. ASSUME NEW account \in BOOLEAN, Initialized(account) PROVE WiringInv'
  <2>1. UNCHANGED <<given, proc, call>> /\ CallsTyped' /\ Connected' = Connected
    BY <1>3, ConnectedStay DEF WiringInv, Initialized
  <2>2. IsoInv'
    BY <1>3 DEF WiringInv, IsoInv, Initialized, None
  <2> QED BY <2>1, <2>2, OutsideKept DEF WiringInv
<1>4. ASSUME NEW e \in Givens, Discarded(e) PROVE WiringInv'
  <2>1. given' \in Givens /\ UNCHANGED proc /\ CallsTyped' /\ Connected' = Connected
    BY <1>4 DEF WiringInv, CallsTyped, Discarded, InState, Connected
  <2>2. IsoInv'
    BY <1>4 DEF WiringInv, IsoInv, Discarded, WiredFrom, None
  <2> QED BY <2>1, <2>2, OutsideKept
<1> QED BY <1>1, <1>2, <1>3, <1>4 DEF IsolateStep

LEMMA WiringStepKeeps == WiringInv /\ [WiringNext]_wiringVars => WiringInv'
<1> SUFFICES ASSUME WiringInv, [WiringNext]_wiringVars PROVE WiringInv'
  OBVIOUS
<1>1. CASE UNCHANGED wiringVars
  <2>1. Connected' = Connected /\ CallsTyped' /\ UNCHANGED <<given, proc, iso>>
    BY <1>1, ConnectedStay DEF wiringVars, WiringInv
  <2> QED BY <2>1, OutsideKept DEF WiringInv, IsoInv
<1>2. CASE NodeStep
  <2>1. CASE WireUp
    BY <2>1, WireUpKept
  <2>2. CASE (\E account \in BOOLEAN : Listen(account)) \/ (\E forced \in BOOLEAN : Settled(forced)) \/ Leaves \/ Crashes
    <3>1. UNCHANGED <<given, iso, call>>
      BY <2>2 DEF Listen, Settled, Leaves, Crashes
    <3> QED BY <2>2, <3>1, ProcessKept
  <2>3. CASE \E k \in Calls : NodeTakes(k) \/ Begins(k) \/ Ended(k) \/ Drops(k)
    BY <2>3, NodeCallsKept
  <2>4. CASE \E s \in {"SIGTERM", "SIGINT"} : Signal(s)
    BY <2>4, SignalKept
  <2> QED BY <1>2, <2>1, <2>2, <2>3, <2>4 DEF NodeStep
<1>3. CASE IsolateStep
  BY <1>3, IsolateKept
<1> QED BY <1>1, <1>2, <1>3 DEF WiringNext

LEMMA WiringsSound == WiringInv => WiringSound
<1> SUFFICES ASSUME WiringInv PROVE WiringSound
  OBVIOUS
<1>1. \A w \in Running : WiredFrom(w) /\ w # Unwired
  BY DEF WiringInv, ProcInv, IsoInv, Running
<1>2. RunsWithinPolicy
  BY <1>1, WiredWithin DEF RunsWithinPolicy
<1>3. ExclusionHolds
  BY <1>1, WiredWithin DEF ExclusionHolds
<1>4. LimitsAgree
  BY DefaultLimits DEF LimitsAgree
<1>5. OneVerdict
  <2>1. iso.starts <= 1
    BY DEF WiringInv, IsoInv
  <2>2. iso.verdicts \in {{}, {"answered"}, {"unavailable"}}
    BY DEF WiringInv, IsoInv
  <2>3. Cardinality({}) = 0 /\ Cardinality({"answered"}) = 1 /\ Cardinality({"unavailable"}) = 1
    BY FS_EmptySet, FS_Singleton
  <2> QED BY <2>1, <2>2, <2>3 DEF OneVerdict
<1>6. LeavesClean
  BY DEF WiringInv, ProcInv
<1> QED BY <1>2, <1>3, <1>4, <1>5, <1>6 DEF WiringSound

-----------------------------------------------------------------------------
(* Names and icons (Lookups) *)

KeptType == [key : Keys, value : {"known", "unknown"}, told : BOOLEAN]

KeysOnce(s) == \A i, j \in DOMAIN s : s[i].key = s[j].key => i = j

OwnCache == kind.place = "page" /\ kind.asks = "source"

MissesTold(s) == OwnCache => \A i \in DOMAIN s : s[i].value = "unknown" => s[i].told

KeptOk == kept \in Seq(KeptType) /\ KeysOnce(kept) /\ (kind.capped => Len(kept) <= CacheMax) /\ MissesTold(kept)

Fetching(w) == work[w].step \in {"headers", "body"}

\* One request for a key where they are joined, and nobody waits for another.
WorkOk ==
  /\ DOMAIN work = Clients
  /\ \A w \in Clients :
       /\ DOMAIN work[w] = {"step", "key", "got", "complete", "hops"}
       /\ work[w].step \in {"idle", "headers", "body", "joined", "done"}
       /\ work[w].step \in {"headers", "body", "joined"} => work[w].key \in Keys
       /\ work[w].complete \in BOOLEAN /\ (work[w].complete => kind.keeps = "headers")
       /\ work[w].step = "joined" =>
            kind.joins /\ \E v \in Clients : Fetching(v) /\ work[v].key = work[w].key
  /\ kind.joins => \A v, w \in Clients : Fetching(v) /\ Fetching(w) /\ work[v].key = work[w].key => v = w

LookupInv ==
  /\ kind \in Caches /\ upstream \in [Keys -> {"known", "unknown"}]
  /\ KeptOk /\ WorkOk

\* A page's caches keep nothing after the headers alone.
LEMMA PagesReadBodies ==
  ASSUME NEW d \in Caches, d.place = "page"
  PROVE  d.keeps # "headers"
  BY DEF Caches, Cache, SearchCache, InfoCache, ImageCache, NameCache, PictureCache, ServiceCache, SelectionCache

LEMMA LookupInitial == LookupInit => LookupInv
<1> SUFFICES ASSUME LookupInit PROVE LookupInv
  OBVIOUS
<1>1. KeptOk
  BY LookupConstants DEF LookupInit, KeptOk, KeysOnce, MissesTold
<1>2. WorkOk
  BY DEF LookupInit, WorkOk, NoWork, Fetching
<1> QED BY <1>1, <1>2 DEF LookupInit, LookupInv

\* A map with room for one more entry.
LEMMA RoomMade ==
  ASSUME KeptOk
  PROVE  LET room == IF kind.capped /\ Len(kept) >= CacheMax THEN Tail(kept) ELSE kept
         IN  room \in Seq(KeptType) /\ KeysOnce(room) /\ (kind.capped => Len(room) < CacheMax) /\ MissesTold(room)
<1>1. CASE kind.capped /\ Len(kept) >= CacheMax
  <2>1. kept # << >> /\ Len(kept) \in Nat /\ Len(kept) = CacheMax
    BY <1>1, LookupConstants DEF KeptOk
  <2>2. /\ Tail(kept) \in Seq(KeptType) /\ Len(Tail(kept)) = Len(kept) - 1
        /\ \A i \in DOMAIN Tail(kept) : i \in Nat /\ i + 1 \in DOMAIN kept /\ Tail(kept)[i] = kept[i + 1]
    BY <2>1 DEF KeptOk
  <2>3. KeysOnce(Tail(kept))
    <3> SUFFICES ASSUME NEW i \in DOMAIN Tail(kept), NEW j \in DOMAIN Tail(kept), Tail(kept)[i].key = Tail(kept)[j].key
                 PROVE  i = j
      BY DEF KeysOnce
    <3>1. i + 1 = j + 1
      BY <2>2 DEF KeptOk, KeysOnce
    <3> QED BY <2>2, <3>1
  <2>4. MissesTold(Tail(kept))
    BY <2>2 DEF KeptOk, MissesTold
  <2> QED BY <1>1, <2>1, <2>2, <2>3, <2>4
<1>2. CASE ~ (kind.capped /\ Len(kept) >= CacheMax)
  BY <1>2, LookupConstants DEF KeptOk
<1> QED BY <1>1, <1>2

LEMMA RememberKept ==
  ASSUME KeptOk, UNCHANGED kind, NEW k \in Keys, NEW value \in {"known", "unknown"}, NEW told \in BOOLEAN,
         OwnCache /\ value = "unknown" => told,
         kept' = Remember(k, value, told)
  PROVE  KeptOk'
<1> DEFINE room == IF kind.capped /\ Len(kept) >= CacheMax THEN Tail(kept) ELSE kept
           entry == [key |-> k, value |-> value, told |-> told]
           put == [i \in DOMAIN room |-> IF room[i].key = k THEN entry ELSE room[i]]
<1>1. room \in Seq(KeptType) /\ KeysOnce(room) /\ (kind.capped => Len(room) < CacheMax) /\ MissesTold(room)
  BY RoomMade
<1>2. entry \in KeptType /\ entry.key = k /\ entry.value = value /\ entry.told = told
  BY DEF KeptType
<1>3. kept' = IF \E i \in DOMAIN room : room[i].key = k THEN put ELSE Append(room, entry)
  BY DEF Remember
<1> HIDE DEF room, entry
<1>4. CASE \E i \in DOMAIN room : room[i].key = k
  <2>1. /\ put \in Seq(KeptType) /\ Len(put) = Len(room) /\ DOMAIN put = DOMAIN room
        /\ \A i \in DOMAIN room : put[i] = IF room[i].key = k THEN entry ELSE room[i]
    <3>1. DOMAIN room = 1 .. Len(room) /\ Len(room) \in Nat /\ \A i \in DOMAIN room : room[i] \in KeptType
      BY <1>1
    <3>2. put \in [1 .. Len(room) -> KeptType] /\ DOMAIN put = DOMAIN room
      BY <1>2, <3>1
    <3>3. put \in Seq(KeptType) /\ Len(put) = Len(room)
      BY <3>1, <3>2, SeqDef
    <3> QED BY <3>2, <3>3
  <2> HIDE DEF put
  <2>2. KeysOnce(put)
    BY <1>1, <1>2, <2>1 DEF KeysOnce
  <2>3. MissesTold(put)
    BY <1>1, <1>2, <2>1 DEF MissesTold
  <2>4. kind.capped => Len(put) <= CacheMax
    BY <1>1, <2>1, LookupConstants
  <2>5. kept' = put
    BY <1>3, <1>4
  <2> QED BY <2>1, <2>2, <2>3, <2>4, <2>5 DEF KeptOk, MissesTold, OwnCache
<1>5. CASE ~ \E i \in DOMAIN room : room[i].key = k
  <2> DEFINE more == Append(room, entry)
  <2>1. /\ more \in Seq(KeptType) /\ Len(more) = Len(room) + 1 /\ Len(room) \in Nat
        /\ DOMAIN more = 1 .. Len(room) + 1 /\ DOMAIN room = 1 .. Len(room)
        /\ \A i \in DOMAIN more : more[i] = IF i = Len(room) + 1 THEN entry ELSE room[i]
    BY <1>1, <1>2
  <2> HIDE DEF more
  <2>2. KeysOnce(more)
    BY <1>1, <1>2, <1>5, <2>1 DEF KeysOnce
  <2>3. MissesTold(more)
    BY <1>1, <1>2, <2>1 DEF MissesTold
  <2>4. kind.capped => Len(more) <= CacheMax
    BY <1>1, <2>1, LookupConstants
  <2>5. kept' = more
    BY <1>3, <1>5 DEF more
  <2> QED BY <2>1, <2>2, <2>3, <2>4, <2>5 DEF KeptOk, MissesTold, OwnCache
<1> QED BY <1>4, <1>5

\* A request that ends leaves none of those who joined it behind.
LEMMA EndsKept ==
  ASSUME LookupInv, NEW w \in Clients, Fetching(w), NEW value \in {"known", "unknown"}, NEW complete \in BOOLEAN, NEW told \in BOOLEAN,
         complete /\ value = "unknown" => told \/ kind.keeps = "headers" \/ kind.asks = "tokenInfo",
         Ends(w, value, complete, told)
  PROVE  LookupInv'
<1> DEFINE k == work[w].key
           waiting == {w} \cup (IF kind.joins THEN {v \in Clients : work[v].key = k /\ work[v].step = "joined"} ELSE {})
<1>1. k \in Keys /\ UNCHANGED <<kind, upstream>>
  BY DEF LookupInv, WorkOk, Fetching, Ends
<1>2. KeptOk'
  <2>1. CASE Keeps(value, complete)
    <3>1. OwnCache /\ value = "unknown" => told
      BY <2>1, PagesReadBodies DEF Keeps, LookupInv, OwnCache
    <3>2. kept' = Remember(k, value, told)
      BY <2>1 DEF Ends
    <3> QED BY <1>1, <3>1, <3>2, RememberKept DEF LookupInv
  <2>2. CASE ~ Keeps(value, complete)
    BY <1>1, <2>2 DEF Ends, LookupInv, KeptOk, MissesTold, OwnCache
  <2> QED BY <2>1, <2>2
<1>3. /\ DOMAIN work' = Clients
      /\ \A v \in Clients :
           /\ DOMAIN work'[v] = DOMAIN work[v] /\ work'[v].key = work[v].key /\ work'[v].complete = work[v].complete
           /\ work'[v].step = IF v \in waiting THEN "done" ELSE work[v].step
  <2>1. work' = [v \in Clients |-> IF v \in waiting THEN [work[v] EXCEPT !.step = "done", !.got = value] ELSE work[v]]
    BY DEF Ends
  <2>2. DOMAIN work' = Clients
    BY <2>1
  <2>3. ASSUME NEW v \in Clients
        PROVE  /\ DOMAIN work'[v] = DOMAIN work[v] /\ work'[v].key = work[v].key /\ work'[v].complete = work[v].complete
               /\ work'[v].step = IF v \in waiting THEN "done" ELSE work[v].step
    <3>1. DOMAIN work[v] = {"step", "key", "got", "complete", "hops"}
      BY DEF LookupInv, WorkOk
    <3>2. work'[v] = IF v \in waiting THEN [work[v] EXCEPT !.step = "done", !.got = value] ELSE work[v]
      BY <2>1
    <3> HIDE DEF waiting
    <3> QED BY <3>1, <3>2
  <2> QED BY <2>2, <2>3
<1>4. \A v \in Clients : work[v].step = "joined" /\ work[v].key = k => v \in waiting
  BY DEF LookupInv, WorkOk
<1>5. \A v \in waiting \ {w} : work[v].step = "joined"
  OBVIOUS
<1> HIDE DEF waiting, k
<1>6. ASSUME NEW v \in Clients, work'[v].step = "joined"
      PROVE  kind.joins /\ \E u \in Clients : work'[u].step \in {"headers", "body"} /\ work'[u].key = work'[v].key
  <2>1. work[v].step = "joined" /\ work[v].key # k
    BY <1>3, <1>4, <1>6
  <2>2. PICK u \in Clients : Fetching(u) /\ work[u].key = work[v].key
    BY <2>1 DEF LookupInv, WorkOk
  <2>3. u \notin waiting
    BY <1>5, <2>1, <2>2 DEF Fetching, k
  <2> QED BY <1>3, <2>1, <2>2, <2>3 DEF Fetching, LookupInv, WorkOk
<1>7. \A v \in Clients : work'[v].step \in {"headers", "body"} => Fetching(v)
  BY <1>3 DEF Fetching
<1>8. WorkOk'
  BY <1>1, <1>3, <1>6, <1>7 DEF LookupInv, WorkOk, Fetching
<1> QED BY <1>1, <1>2, <1>8 DEF LookupInv

\* A step of one client that keeps its key and adds no request.
LEMMA WorkMoves ==
  ASSUME LookupInv, NEW w \in Clients, NEW r, UNCHANGED <<kind, upstream, kept>>, work' = [work EXCEPT ![w] = r],
         DOMAIN r = {"step", "key", "got", "complete", "hops"},
         r.complete \in BOOLEAN, r.complete => kind.keeps = "headers",
         \/ r.step \in {"headers", "body"} /\ Fetching(w) /\ r.key = work[w].key
         \/ r.step \in {"idle", "done"} /\ ~ Fetching(w)
         \/ r.step \in {"headers", "joined"} /\ ~ Fetching(w) /\ r.key \in Keys
              /\ r.step = (IF kind.joins /\ Asking(r.key) # {} THEN "joined" ELSE "headers")
  PROVE  LookupInv'
<1>1. DOMAIN work' = Clients /\ work'[w] = r /\ \A v \in Clients : v # w => work'[v] = work[v]
  BY DEF LookupInv, WorkOk
<1>2. \A v \in Clients : v # w => (Fetching(v)' <=> Fetching(v))
  BY <1>1 DEF Fetching
<1>3. \A q : \A v \in Clients : v \in Asking(q) <=> Fetching(v) /\ work[v].key = q
  BY DEF Asking, Fetching
<1>4. ASSUME NEW v \in Clients PROVE
        /\ DOMAIN work'[v] = {"step", "key", "got", "complete", "hops"}
        /\ work'[v].step \in {"idle", "headers", "body", "joined", "done"}
        /\ work'[v].step \in {"headers", "body", "joined"} => work'[v].key \in Keys
        /\ work'[v].complete \in BOOLEAN /\ (work'[v].complete => kind.keeps = "headers")
  BY <1>1 DEF LookupInv, WorkOk, Fetching
<1>5. ASSUME NEW v \in Clients, work'[v].step = "joined"
      PROVE  kind.joins /\ \E u \in Clients : Fetching(u)' /\ work'[u].key = work'[v].key
  <2>1. CASE v = w
    <3>1. kind.joins /\ Asking(r.key) # {} /\ r.key = work'[v].key /\ ~ Fetching(w)
      BY <1>1, <1>5, <2>1
    <3>2. PICK u \in Clients : u \in Asking(r.key)
      BY <3>1 DEF Asking
    <3> QED BY <1>1, <1>2, <1>3, <3>1, <3>2
  <2>2. CASE v # w
    <3>1. kind.joins /\ work'[v] = work[v]
      BY <1>1, <1>5, <2>2 DEF LookupInv, WorkOk
    <3>2. PICK u \in Clients : Fetching(u) /\ work[u].key = work[v].key
      BY <1>5, <3>1 DEF LookupInv, WorkOk
    <3>3. u = w => Fetching(u)' /\ work'[u].key = work[u].key
      BY <1>1, <3>2 DEF Fetching
    <3> QED BY <1>1, <1>2, <3>1, <3>2, <3>3
  <2> QED BY <2>1, <2>2
<1>6. ASSUME kind.joins, NEW v \in Clients, NEW u \in Clients, Fetching(v)', Fetching(u)', work'[v].key = work'[u].key
      PROVE  v = u
  <2>1. CASE Fetching(w)
    <3>1. Fetching(v) /\ Fetching(u) /\ work[v].key = work[u].key
      BY <1>1, <1>2, <1>6, <2>1 DEF Fetching
    <3> QED BY <1>6, <3>1 DEF LookupInv, WorkOk
  <2>2. CASE ~ Fetching(w)
    <3>1. Fetching(w)' => Asking(r.key) = {}
      BY <1>1, <1>6, <2>2 DEF Fetching
    <3>2. \A z \in Clients : z # w /\ Fetching(z)' /\ work'[z].key = r.key => z \in Asking(r.key)
      BY <1>1, <1>2, <1>3
    <3>3. CASE v # w /\ u # w
      BY <1>1, <1>2, <1>6, <3>3 DEF LookupInv, WorkOk
    <3>4. CASE v = w \/ u = w
      BY <1>1, <1>6, <3>1, <3>2, <3>4
    <3> QED BY <3>3, <3>4
  <2> QED BY <2>1, <2>2
<1>7. WorkOk'
  BY <1>1, <1>4, <1>5, <1>6 DEF WorkOk, LookupInv
<1> QED BY <1>7 DEF LookupInv, KeptOk, MissesTold, OwnCache

LEMMA LookKept ==
  ASSUME LookupInv, NEW w \in Clients, NEW k \in Keys, Look(w, k)
  PROVE  LookupInv'
<1> DEFINE r == IF k \in KeptKeys THEN [NoWork EXCEPT !.step = "done", !.key = k, !.got = Hit(k)]
                ELSE IF kind.joins /\ Asking(k) # {} THEN [NoWork EXCEPT !.step = "joined", !.key = k]
                ELSE [NoWork EXCEPT !.step = "headers", !.key = k]
<1>1. work' = [work EXCEPT ![w] = r] /\ ~ Fetching(w) /\ UNCHANGED <<kind, upstream, kept>>
  BY DEF Look, Fetching
<1>2. /\ DOMAIN r = {"step", "key", "got", "complete", "hops"} /\ r.complete = FALSE /\ r.key = k
      /\ r.step = IF k \in KeptKeys THEN "done" ELSE IF kind.joins /\ Asking(k) # {} THEN "joined" ELSE "headers"
  BY DEF NoWork
<1> HIDE DEF r
<1> QED BY <1>1, <1>2, WorkMoves

LEMMA HeadersKept ==
  ASSUME LookupInv, NEW w \in Clients, NEW ok \in BOOLEAN, Headers(w, ok)
  PROVE  LookupInv'
<1>1. CASE ok
  <2> DEFINE early == kind.keeps = "headers"
             r == [work[w] EXCEPT !.step = "body", !.complete = early]
  <2>1. work' = [work EXCEPT ![w].step = "body", ![w].complete = early]
    BY <1>1 DEF Headers
  <2>2. early \in BOOLEAN /\ (early => kind.keeps = "headers")
    OBVIOUS
  <2> HIDE DEF early
  <2>3. DOMAIN work = Clients /\ DOMAIN work[w] = {"step", "key", "got", "complete", "hops"}
    BY DEF LookupInv, WorkOk
  <2>4. work' = [work EXCEPT ![w] = r]
    BY <2>1, <2>3
  <2>5. DOMAIN r = {"step", "key", "got", "complete", "hops"} /\ r.step = "body" /\ r.key = work[w].key /\ r.complete = early
    BY <2>3
  <2>6. Fetching(w) /\ UNCHANGED <<kind, upstream, kept>>
    BY <1>1 DEF Headers, Fetching
  <2> HIDE DEF r
  <2> QED BY <2>2, <2>4, <2>5, <2>6, WorkMoves
<1>2. CASE ~ ok
  <2>1. Ends(w, "unknown", FALSE, FALSE) /\ Fetching(w)
    BY <1>2 DEF Headers, Fetching
  <2> QED BY <2>1, EndsKept
<1> QED BY <1>1, <1>2

LEMMA BodyKept ==
  ASSUME LookupInv, NEW w \in Clients, BodyRead(w) \/ BodyBreaks(w) \/ Swallowed(w)
  PROVE  LookupInv'
<1>1. Fetching(w) /\ work[w].key \in Keys /\ upstream[work[w].key] \in {"known", "unknown"}
      /\ work[w].complete \in BOOLEAN /\ (work[w].complete => kind.keeps = "headers")
  BY DEF BodyRead, BodyBreaks, Swallowed, Fetching, LookupInv, WorkOk
<1>2. CASE Ends(w, upstream[work[w].key], TRUE, TRUE)
  BY <1>1, <1>2, EndsKept
<1>3. CASE Ends(w, "unknown", work[w].complete, FALSE)
  BY <1>1, <1>3, EndsKept
<1>4. CASE kind.asks = "tokenInfo" /\ Ends(w, "unknown", TRUE, FALSE)
  BY <1>1, <1>4, EndsKept
<1> QED BY <1>2, <1>3, <1>4 DEF BodyRead, BodyBreaks, Swallowed

LEMMA RedirectKept ==
  ASSUME LookupInv, NEW w \in Clients, NEW ok \in BOOLEAN, Redirect(w, ok)
  PROVE  LookupInv'
<1>1. Fetching(w)
  BY DEF Redirect, Fetching
<1>2. CASE Ends(w, "unknown", FALSE, FALSE)
  BY <1>1, <1>2, EndsKept
<1>3. CASE work' = [work EXCEPT ![w].step = "headers", ![w].hops = @ + 1] /\ UNCHANGED <<kind, upstream, kept>>
  <2> DEFINE r == [work[w] EXCEPT !.step = "headers", !.hops = @ + 1]
  <2>1. work' = [work EXCEPT ![w] = r]
    BY <1>3 DEF LookupInv, WorkOk
  <2>2. /\ DOMAIN r = {"step", "key", "got", "complete", "hops"} /\ r.step = "headers" /\ r.key = work[w].key
        /\ r.complete = work[w].complete
    BY DEF LookupInv, WorkOk
  <2>3. work[w].complete \in BOOLEAN /\ (work[w].complete => kind.keeps = "headers")
    BY DEF LookupInv, WorkOk
  <2> HIDE DEF r
  <2> QED BY <1>1, <1>3, <2>1, <2>2, <2>3, WorkMoves
<1> QED BY <1>2, <1>3 DEF Redirect

LEMMA AgainKept ==
  ASSUME LookupInv, NEW w \in Clients, Again(w)
  PROVE  LookupInv'
<1>1. /\ work' = [work EXCEPT ![w] = NoWork] /\ ~ Fetching(w) /\ UNCHANGED <<kind, upstream, kept>>
      /\ DOMAIN NoWork = {"step", "key", "got", "complete", "hops"} /\ NoWork.step = "idle" /\ NoWork.complete = FALSE
  BY DEF Again, Fetching, NoWork
<1> QED BY <1>1, WorkMoves

LEMMA LookupStepKeeps == LookupInv /\ [LookupNext]_lookupVars => LookupInv'
<1> SUFFICES ASSUME LookupInv, [LookupNext]_lookupVars PROVE LookupInv'
  OBVIOUS
<1>1. CASE UNCHANGED lookupVars
  BY <1>1 DEF lookupVars, LookupInv, KeptOk, MissesTold, OwnCache, WorkOk, Fetching
<1>2. ASSUME NEW k \in Keys, Listed(k) PROVE LookupInv'
  <2>1. UNCHANGED <<kind, kept, work>> /\ upstream' \in [Keys -> {"known", "unknown"}]
    BY <1>2 DEF Listed, LookupInv
  <2> QED BY <2>1 DEF LookupInv, KeptOk, MissesTold, OwnCache, WorkOk, Fetching
<1>3. ASSUME NEW w \in Clients,
             \/ \E k \in Keys : Look(w, k)
             \/ \E ok \in BOOLEAN : Headers(w, ok) \/ Redirect(w, ok)
             \/ BodyRead(w) \/ BodyBreaks(w) \/ Swallowed(w) \/ Again(w)
      PROVE  LookupInv'
  BY <1>3, LookKept, HeadersKept, RedirectKept, BodyKept, AgainKept
<1> QED BY <1>1, <1>2, <1>3 DEF LookupNext

LEMMA LookupsAreSound == LookupInv => LookupsSound
<1> SUFFICES ASSUME LookupInv PROVE LookupsSound
  OBVIOUS
<1>1. OwnMissIsEvidence
  BY DEF LookupInv, KeptOk, MissesTold, OwnCache, OwnMissIsEvidence, Evidence
<1>2. OneRequest
  <2>1. ASSUME kind.joins, NEW q PROVE Cardinality(Asking(q)) <= 1
    <3>1. \A u, v \in Asking(q) : u = v
      BY <2>1 DEF LookupInv, WorkOk, Asking, Fetching
    <3>2. CASE Asking(q) = {}
      BY <3>2, FS_EmptySet
    <3>3. CASE Asking(q) # {}
      <4>1. PICK u : Asking(q) = {u}
        BY <3>1, <3>3
      <4> QED BY <4>1, FS_Singleton
    <3> QED BY <3>2, <3>3
  <2>2. \A w \in Clients : work[w].step = "joined" => Asking(work[w].key) # {}
    BY DEF LookupInv, WorkOk, Asking, Fetching
  <2> QED BY <2>1, <2>2 DEF OneRequest
<1>3. CacheBounded
  <2> DEFINE f == [i \in 1 .. Len(kept) |-> kept[i].key]
  <2>1. Len(kept) \in Nat /\ DOMAIN kept = 1 .. Len(kept)
    BY DEF LookupInv, KeptOk
  <2>2. f \in Bijection(1 .. Len(kept), KeptKeys)
    BY <2>1 DEF LookupInv, KeptOk, KeysOnce, KeptKeys, Bijection, Injection, Surjection, IsInjective
  <2>3. Cardinality(KeptKeys) = Len(kept)
    BY <2>1, <2>2, FS_CountingElements DEF ExistsBijection
  <2> QED BY <2>3 DEF LookupInv, KeptOk, CacheBounded
<1> QED BY <1>1, <1>2, <1>3 DEF LookupsSound

=============================================================================
