-------------------------- MODULE ConfigAdmission --------------------------
(***************************************************************************)
(* A vault configuration before it is funded: the read-only validator      *)
(* (programs/burner/src/validate_config.rs), the admission rules it shares *)
(* with the burn (split.rs, token.rs), the client's copy of them           *)
(* (app/src/chain/admission.ts), the quote service's copy (core.ts, with   *)
(* the accounts as adapters.ts reads them) and the launch that commits a   *)
(* Pump fee share to the vault for ever (app/src/chain/instructions.ts,    *)
(* launch.tsx).                                                            *)
(* Meanwhile mints, token accounts and reference pools change as their     *)
(* owners please, and the vault has no withdrawal: what is committed must  *)
(* stay burnable.                                                          *)
(*                                                                         *)
(* Every instruction is atomic.  A refused one changes nothing, so it is   *)
(* not a step; which of several refusals is reported is not modelled.      *)
(***************************************************************************)
EXTENDS SplitMath

CONSTANTS
  Mints,         \* the mints that configurations name
  Worlds,        \* the mints, curves and pools that a launch may find
  Configs,       \* [launch, weights, targets, refs], refs being the committed seeds
  Depths,        \* bound: what a reference can price in one burn
  Probe          \* PROBE_TOTAL_LAMPORTS

Extensions == {"metadata", "hook", "other"}

MintState ==
  [native : BOOLEAN, pump : BOOLEAN, program : {"legacy", "t22", "foreign"},
   initialized : BOOLEAN, mintAuth : BOOLEAN, freezeAuth : BOOLEAN,
   exts : SUBSET Extensions, hookAuth : {"pump", "live", "none"}, hookSet : BOOLEAN]

References == {"curve", "swap", "pool", "junk"}

WorldType ==
  [mint : [Mints -> MintState], curve : [Mints -> {"none", "open"}], pool : [Mints -> BOOLEAN]]

\* launch: the launch mint is an initialized mint of a token program.
ConfigType ==
  [launch : BOOLEAN,
   weights : Seq(Nat), targets : Seq(Mints),
   refs : Seq({"sentinel", "pool", "junk"})]

\* Only Token-2022 mints have extensions, and $PUMP's hook is as it was deployed.
WellFormed(k) ==
  /\ k.program # "t22" => k.exts = {}
  /\ k.pump /\ "hook" \in k.exts => k.hookAuth = "pump" /\ ~ k.hookSet

ASSUME AdmissionConstants ==
  /\ Worlds \subseteq WorldType
  /\ \A w \in Worlds, m \in Mints : WellFormed(w.mint[m])
  /\ Configs \subseteq ConfigType
  /\ \A c \in Configs : Len(c.targets) = Len(c.weights) /\ Len(c.refs) = Len(c.weights)
  /\ Depths \subseteq Nat /\ Probe \in Nat

VARIABLES
  config,   \* what the vault's address commits to
  mint,     \* the mints' accounts
  ata,      \* the vault's token account for each mint: absent, ours or frozen
  wsol,     \* the vault's WSOL account exists
  curve,    \* Pump's curve for each mint: none, open, complete or migrated
  pool,     \* another venue has a pool of this mint and SOL
  depth,    \* the largest input its reference prices
  plan,     \* the reference accounts of the prepared instructions
  stage     \* of the launch: none, first (validated and created) or done

vars == <<config, mint, ata, wsol, curve, pool, depth, plan, stage>>

Legs == DOMAIN config.weights

-----------------------------------------------------------------------------
(* Admission *)

\* The leg count and weights, the launch mint, and build_split_seeds' refusal of
\* duplicates.
ConfigOk ==
  /\ config.launch
  /\ ValidLegCount(config.weights) /\ ValidWeights(config.weights)
  /\ \A i, j \in Legs : i # j => config.targets[i] # config.targets[j]

\* build_split_seeds: a reference owned by Pump or PumpSwap is the sentinel.
SeedOf(ref) == IF ref \in {"curve", "swap"} THEN "sentinel" ELSE ref

\* derive_and_pin_split_vault: other references lead to another vault.
VaultPinned(refs) == \A i \in Legs : SeedOf(refs[i]) = config.refs[i]

\* transfer_hook_is_allowed
HookAllowed(k) == k.pump /\ k.hookAuth = "pump" /\ ~ k.hookSet

\* validate_token_2022_mint_extensions
ExtensionsOk(k) ==
  k.program = "t22" => "other" \notin k.exts /\ ("hook" \in k.exts => HookAllowed(k))

\* The mint's owner and validate_target_mint.
MintOk(k) ==
  /\ k.program \in {"legacy", "t22"}
  /\ ~ k.native /\ k.initialized /\ ~ k.freezeAuth /\ ~ k.mintAuth
  /\ ExtensionsOk(k)

FaultyAtaPending(m, allow) == allow

\* A token account that the same transaction goes on to create.
AtaPending(m, allow) == allow /\ ata[m] = "absent"

\* validate_split_target_admission
TargetAdmitted(m, allow) == MintOk(mint[m]) /\ (AtaPending(m, allow) \/ ata[m] = "ours")

\* keyless_leg_floor, the authentication: the account is this mint's.
Authentic(m, ref) ==
  CASE ref = "curve" -> curve[m] = "open"
    [] ref = "swap"  -> curve[m] = "migrated"
    [] ref = "pool"  -> pool[m]
    [] OTHER         -> FALSE

\* keyless_leg_floor: it prices this input.
Priced(m, ref, amount) == Authentic(m, ref) /\ amount <= depth[m]

FaultyProbeOk(m, ref, amount) == amount > 0 /\ Authentic(m, ref)

\* A probe of nothing proves nothing.
ProbeOk(m, ref, amount) == amount > 0 /\ Priced(m, ref, amount)

ProbeAmount(i) == LegAmount(Probe, config.weights, i)

\* bound_mode_a
ValidateAccepts(refs) ==
  /\ ConfigOk /\ VaultPinned(refs)
  /\ \A i \in Legs : /\ TargetAdmitted(config.targets[i], TRUE)
                     /\ ProbeOk(config.targets[i], refs[i], ProbeAmount(i))

\* The burn's handler, up to the first transfer of a leg.
BurnAdmits(refs) ==
  /\ ConfigOk /\ VaultPinned(refs) /\ wsol
  /\ ~ DustLeg(Probe, config.weights)
  /\ \A i \in Legs : /\ Priced(config.targets[i], refs[i], ProbeAmount(i))
                     /\ TargetAdmitted(config.targets[i], FALSE)

FaultyClientExtensions(k) == k.program = "t22" => "other" \notin k.exts

\* analyzeT22Extensions: the hook's fields are not looked at.
ClientExtensions(k) ==
  k.program = "t22" => "other" \notin k.exts /\ ("hook" \in k.exts => k.pump)

\* analyzeTargetMint
ClientAdmits(k) ==
  /\ k.program \in {"legacy", "t22"} /\ k.initialized
  /\ ~ k.native /\ ~ k.mintAuth /\ ~ k.freezeAuth
  /\ ClientExtensions(k)

\* SolanaRpcGateway.getMint: another program's account, or one that does not
\* unpack, is a mint that is not initialized.
MintSnapshot(k) ==
  IF k.program \in {"legacy", "t22"} THEN k
  ELSE [k EXCEPT !.initialized = FALSE, !.mintAuth = FALSE, !.freezeAuth = FALSE, !.exts = {}]

\* requireAllowedMint's list of extensions.
ServiceExtensions(k) ==
  k.program = "t22" =>
    "other" \notin k.exts /\ ("hook" \in k.exts => k.pump /\ k.hookAuth = "pump" /\ ~ k.hookSet)

\* requireAllowedMint for a target.
ServiceAdmits(k) ==
  LET s == MintSnapshot(k)
  IN  /\ s.initialized /\ s.program \in {"legacy", "t22"}
      /\ ~ s.native /\ ~ s.mintAuth /\ ~ s.freezeAuth
      /\ ServiceExtensions(s)

\* getTokenAccount, to which a frozen account is not initialized, and
\* requireTokenAccount.
ServiceAccount(m) == ata[m] \notin {"absent", "frozen"}

-----------------------------------------------------------------------------
(* The launch *)

Init ==
  /\ config \in Configs
  /\ \E w \in Worlds : mint = w.mint /\ curve = w.curve /\ pool = w.pool
  /\ ata = [m \in Mints |-> "absent"] /\ wsol = FALSE
  /\ depth \in [Mints -> Depths]
  /\ plan \in [Legs -> References]
  /\ stage = "none"

World == <<mint, curve, pool, depth>>

\* Idempotent creation of the vault's token accounts for the targets.
Created ==
  [m \in Mints |-> IF ata[m] = "absent" /\ \E i \in Legs : config.targets[i] = m
                     THEN "ours" ELSE ata[m]]

CreateAtas == ata' = Created /\ wsol' = TRUE

\* The fee share, the validator and the token accounts fit in one transaction.
LaunchAtomic ==
  /\ stage = "none" /\ ValidateAccepts(plan)
  /\ CreateAtas /\ stage' = "done"
  /\ UNCHANGED <<config, World, plan>>

\* They do not: first the validator and the token accounts, ...
LaunchFirst ==
  /\ stage = "none" /\ ValidateAccepts(plan)
  /\ CreateAtas /\ stage' = "first"
  /\ UNCHANGED <<config, World, plan>>

\* ... then the fee share and the validator again, with the accounts prepared
\* before the first signature.
LaunchSecond ==
  /\ stage = "first" /\ ValidateAccepts(plan)
  /\ stage' = "done"
  /\ UNCHANGED <<config, World, plan, ata, wsol>>

-----------------------------------------------------------------------------
(* Others.  A null authority stays null; extensions are fixed when a mint is *)
(* initialized, its metadata aside; $PUMP's hook authority never signs; a    *)
(* pool account is not closed, though it may be too shallow for any burn.    *)

Launching == <<config, plan, stage>>

MintBecomes(m, k) ==
  /\ mint' = [mint EXCEPT ![m] = k]
  /\ UNCHANGED <<Launching, ata, wsol, curve, pool, depth>>

RevokeMint(m)   == mint[m].mintAuth /\ MintBecomes(m, [mint[m] EXCEPT !.mintAuth = FALSE])
RevokeFreeze(m) == mint[m].freezeAuth /\ MintBecomes(m, [mint[m] EXCEPT !.freezeAuth = FALSE])
SetHook(m) ==
  /\ "hook" \in mint[m].exts /\ mint[m].hookAuth = "live"
  /\ MintBecomes(m, [mint[m] EXCEPT !.hookSet = ~ @])
RevokeHook(m) == mint[m].hookAuth = "live" /\ MintBecomes(m, [mint[m] EXCEPT !.hookAuth = "none"])
AddMetadata(m) ==
  /\ mint[m].program = "t22" /\ "metadata" \notin mint[m].exts
  /\ MintBecomes(m, [mint[m] EXCEPT !.exts = @ \cup {"metadata"}])

\* A mint with a close authority, one of the other extensions.
CloseMint(m) ==
  /\ "other" \in mint[m].exts /\ mint[m].initialized
  /\ MintBecomes(m, [mint[m] EXCEPT !.initialized = FALSE])

AtaBecomes(m, s) ==
  /\ ata' = [ata EXCEPT ![m] = s]
  /\ UNCHANGED <<Launching, World, wsol>>

Freeze(m) == mint[m].freezeAuth /\ ata[m] = "ours" /\ AtaBecomes(m, "frozen")
Thaw(m)   == mint[m].freezeAuth /\ ata[m] = "frozen" /\ AtaBecomes(m, "ours")

\* Anybody may create the vault's accounts ahead of the launch.
CreateAta(m) ==
  /\ mint[m].initialized /\ mint[m].program # "foreign"
  /\ ata[m] = "absent" /\ AtaBecomes(m, "ours")

CurveBecomes(m, from, to) ==
  /\ curve[m] = from /\ curve' = [curve EXCEPT ![m] = to]
  /\ UNCHANGED <<Launching, mint, ata, wsol, pool, depth>>

Complete(m) == CurveBecomes(m, "open", "complete")
Migrate(m)  == CurveBecomes(m, "complete", "migrated")

Trade(m, d) ==
  /\ d # depth[m] /\ depth' = [depth EXCEPT ![m] = d]
  /\ UNCHANGED <<Launching, mint, ata, wsol, curve, pool>>

Others ==
  \E m \in Mints :
    \/ RevokeMint(m) \/ RevokeFreeze(m) \/ SetHook(m) \/ RevokeHook(m) \/ AddMetadata(m)
    \/ CloseMint(m) \/ Freeze(m) \/ Thaw(m) \/ CreateAta(m) \/ Complete(m) \/ Migrate(m)
    \/ \E d \in Depths : Trade(m, d)

Next == LaunchAtomic \/ LaunchFirst \/ LaunchSecond \/ Others

Spec == Init /\ [][Next]_vars

-----------------------------------------------------------------------------
(* Properties *)

\* A leg whose reference still authenticates under the committed seed, or will
\* once Pump has migrated the completed curve.
Referable(i) ==
  \/ \E ref \in References : SeedOf(ref) = config.refs[i] /\ Authentic(config.targets[i], ref)
  \/ config.refs[i] = "sentinel" /\ curve[config.targets[i]] = "complete"

\* A vault that a fee share was committed to is never stranded: whatever others
\* do afterwards, each leg's mint and token account pass the burn's admission
\* and it has an authentic reference.  Only the depth of the references can
\* make a burn wait.
NeverStranded ==
  stage = "done" =>
    /\ ConfigOk /\ wsol
    /\ \A i \in Legs : TargetAdmitted(config.targets[i], FALSE) /\ Referable(i)

\* The client's verdict on a mint is the program's: its copy leaves out the
\* fields of $PUMP's hook, which nobody can change.
ClientTellsTruth == \A m \in Mints : ClientAdmits(mint[m]) <=> MintOk(mint[m])

\* The service's verdict on a target and its token account is the program's: it
\* neither builds a burn that must fail nor refuses one that would pass.
ServiceTellsTruth ==
  \A m \in Mints : (ServiceAdmits(mint[m]) /\ ServiceAccount(m)) <=> TargetAdmitted(m, FALSE)

\* Both copies of the program's mint rules say what the program says.
CopiesTellTruth == ClientTellsTruth /\ ServiceTellsTruth

\* Right after the launch the burn admits a call of the probe's size with the
\* validated references, although its token accounts were still to be created.
LaunchIsBurnable == [][stage # "done" /\ stage' = "done" => BurnAdmits(plan)']_vars

=============================================================================
