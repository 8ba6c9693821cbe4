----------------------------- MODULE VaultChoice -----------------------------
(***************************************************************************)
(* From a creator's choice of a token to the address of a vault: the       *)
(* policy (chain/policy.ts), the picker (pages/policyPicker.tsx), the      *)
(* reference of each leg (chain/reference.ts, pages/referencePanel.tsx),   *)
(* the address (chain/derive.ts) and the links that name it, as the launch *)
(* page and the page for an existing token use them.  A press of the setup *)
(* button freezes the configuration; the transactions are in Launching.    *)
(***************************************************************************)
EXTENDS SplitMath, FiniteSets

CONSTANTS
  Tokens,        \* mints
  Platform,      \* the mint of the fixed leg
  Own,           \* the mint that the launch page will create
  PlatformBps,   \* weight of the fixed leg; the creator's is the rest
  Withdrawable,  \* mints for which withdrawable liquidity is allowed
  Verdicts,      \* what the service can say of a mint, see VerdictType
  MaxChoices     \* bound: changes of the form

PumpAccounts == {"curve", "canonical"}

\* A market: its account, where its liquidity is, whether it clears the depth
\* floor, was rejected, was authenticated, and the seed it is said to give.
VerdictType ==
  [account : PumpAccounts \cup {"position", "v4"},
   held : {"protocol", "burned", "custody", "notLocked", "unverified"},
   deep : BOOLEAN, rejected : BOOLEAN, built : BOOLEAN, seed : {"zero", "address"}]

\* The seed is what a resolution gives (Resolving); what a form holds instead of
\* a mint is none.
ASSUME ChoiceConstants ==
  /\ {Platform, Own} \subseteq Tokens /\ Platform # Own /\ {"none", "junk", "default"} \cap Tokens = {}
  /\ PlatformBps \in 1 .. BPS_TOTAL - 1
  /\ Verdicts \subseteq VerdictType
  /\ \A v \in Verdicts : v.seed = "zero" <=> v.account \in PumpAccounts

VARIABLES
  chooser,  \* [page, launch, override, left]: the page, its launch mint, the choice or "default"
  markets,  \* [asked, next, shown, loading]: the reference hook's current run
  session,  \* mint -> its verdict in the session's cache
  passed,   \* the verdict of the last admission run, of whatever configuration
  frozen,   \* the frozen configuration, or NoPress
  link      \* [text, vault]: the last link to a vault page, and the vault it was made for

choiceVars == <<chooser, markets, session, passed, frozen, link>>

Blank(account) ==
  [account |-> account, held |-> "unverified", deep |-> FALSE, rejected |-> FALSE, built |-> FALSE, seed |-> "zero"]

Unknown == Blank("unknown")
Awaited == Blank("awaited")
Failed  == Blank("failed")
Chosen(v) == v.account \notin {"unknown", "awaited", "failed"}

\* pendingPumpSelection: the launch page's own mint prices off its curve to be.
PendingPump ==
  [account |-> "curve", held |-> "protocol", deep |-> TRUE, rejected |-> FALSE, built |-> TRUE, seed |-> "zero"]

NoPress == [launch |-> "none", legs |-> <<>>, blocks |-> <<>>, vault |-> <<>>, step |-> "idle"]

-----------------------------------------------------------------------------
(* The policy *)

IsMint(text) == text \in Tokens

WeightOn(mint, bps) == [mint |-> mint, bps |-> bps]
CreatorBps == BPS_TOTAL - PlatformBps
FixedLeg == WeightOn(Platform, PlatformBps)

FaultyBuildPolicyLegs(choice) ==
  CASE choice = "none" -> <<FixedLeg>>
    [] IsMint(choice) -> <<WeightOn(choice, CreatorBps), FixedLeg>>
    [] OTHER -> <<>>

\* A choice that collides with the fixed leg is merged with it.
BuildPolicyLegs(choice) ==
  CASE choice = "none" -> <<FixedLeg>>
    [] choice = Platform -> <<WeightOn(Platform, CreatorBps + PlatformBps)>>
    [] IsMint(choice) /\ choice # Platform -> <<WeightOn(choice, CreatorBps), FixedLeg>>
    [] OTHER -> <<>>

PolicyError(choice) == ~ IsMint(choice)

Choice(f) == IF f.override = "default" THEN f.launch ELSE f.override
OfferedLegs(f) == BuildPolicyLegs(Choice(f))
MintsOf(legs) == {legs[i].mint : i \in DOMAIN legs}

-----------------------------------------------------------------------------
(* References *)

\* isSupportedReference: liquidity that stays, a position pool, or a mint of
\* the list.
Supported(mint, v) ==
  \/ v.held \in {"protocol", "burned", "custody"}
  \/ v.account = "position" /\ v.deep /\ ~ v.rejected
  \/ v.account # "position" /\ mint \in Withdrawable

Passes(mint, v) == v.deep /\ ~ v.rejected /\ Supported(mint, v)

\* legReferenceFrom: only an authenticated market can be bound, by its account
\* where the seed is the account and by nothing where the program derives it.
Bindable(v) == Chosen(v) /\ v.built
RefOf(v) == IF v.seed = "address" THEN v.account ELSE "none"

VerdictOn(mint) == markets.shown[mint]

ReferencesSupported ==
  /\ OfferedLegs(chooser) # <<>>
  /\ \A m \in MintsOf(OfferedLegs(chooser)) : Bindable(VerdictOn(m)) /\ Passes(m, VerdictOn(m))

ReferencesReady == ~ markets.loading /\ ReferencesSupported

Pending(f) == IF f.page = "launch" THEN {Own} ELSE {}

\* The effect of the hook: a new set of mints is a new run, which asks for those
\* that the session does not know.  Without a mint the run before ends unheard.
Rerun(f) ==
  LET old == MintsOf(OfferedLegs(chooser))
      new == MintsOf(OfferedLegs(f))
      askable == {m \in new \ Pending(f) : session[m] = Unknown}
  IN  IF new = old THEN UNCHANGED <<markets, session>>
      ELSE IF new = {} THEN markets' = [markets EXCEPT !.asked = {}] /\ UNCHANGED session
      ELSE /\ markets' = [markets EXCEPT !.asked = new, !.next = [m \in Tokens |-> Unknown], !.loading = TRUE]
           /\ session' = [m \in Tokens |-> IF m \in askable THEN Awaited ELSE session[m]]

\* A leg is shown as it lands; the last one ends the run.
Publish(m, v) ==
  LET next == [markets.next EXCEPT ![m] = v]
      left == markets.asked \ {m}
  IN  markets' = [asked |-> left, next |-> next, shown |-> next, loading |-> left # {}]

\* fetchCandidate and fetchMarketSelection: a market of the service, or an error
\* when it is late, unreachable or refuses.
Fetched == Verdicts \cup {Failed}

\* A failure is not kept.  The run that asked may be over.
ServiceAnswers(m, v) ==
  /\ session[m] = Awaited /\ v \in Fetched
  /\ session' = [session EXCEPT ![m] = IF Chosen(v) THEN v ELSE Unknown]
  /\ IF m \in markets.asked THEN Publish(m, v) ELSE UNCHANGED markets
  /\ UNCHANGED <<chooser, passed, frozen, link>>

\* What is known is there at once.
ServedAtOnce(m) ==
  /\ m \in markets.asked
  /\ \/ m \in Pending(chooser) /\ Publish(m, PendingPump)
     \/ m \notin Pending(chooser) /\ Chosen(session[m]) /\ Publish(m, session[m])
  /\ UNCHANGED <<chooser, session, passed, frozen, link>>

-----------------------------------------------------------------------------
(* The address *)

\* deriveSplitPda: a configuration is its address.
Derived(launch, legs) ==
  [launch |-> launch,
   targets |-> [i \in DOMAIN legs |-> legs[i].mint], weights |-> [i \in DOMAIN legs |-> legs[i].bps],
   refs |-> [i \in DOMAIN legs |-> IF legs[i].ref = "none" THEN "zero" ELSE legs[i].ref]]

BoundLegs ==
  [i \in DOMAIN OfferedLegs(chooser) |->
     LET leg == OfferedLegs(chooser)[i] IN [mint |-> leg.mint, bps |-> leg.bps, ref |-> RefOf(VerdictOn(leg.mint))]]

\* The accounts that the setup passes for the legs.
Blocks == [i \in DOMAIN OfferedLegs(chooser) |-> VerdictOn(OfferedLegs(chooser)[i].mint).account]

VaultShown == ReferencesReady /\ IsMint(chooser.launch)

FaultyLegsToParam(legs) == [i \in DOMAIN legs |-> <<legs[i].mint, legs[i].bps>>]

\* A leg is mint:bps, or mint:bps:ref.
LegsToParam(legs) ==
  [i \in DOMAIN legs |->
     IF legs[i].ref = "none" THEN <<legs[i].mint, legs[i].bps>> ELSE <<legs[i].mint, legs[i].bps, legs[i].ref>>]

LegsFromParam(text) ==
  IF \E i \in DOMAIN text : ~ IsMint(text[i][1]) \/ text[i][2] \notin Nat THEN <<>>
  ELSE [i \in DOMAIN text |->
          [mint |-> text[i][1], bps |-> text[i][2], ref |-> IF Len(text[i]) = 3 THEN text[i][3] ELSE "none"]]

LinkTo(launch, legs, vault) == [launch |-> launch, text |-> LegsToParam(legs), vault |-> vault]
NoLink == LinkTo("none", <<>>, <<>>)

\* The vault page derives its vault from its address bar.
Reopened == Derived(link.launch, LegsFromParam(link.text))

-----------------------------------------------------------------------------
(* Setting up *)

\* The program's own seeds: Pump accounts are derived, others are named.
ProgramVault(p) ==
  [Derived(p.launch, p.legs) EXCEPT !.refs =
     [i \in DOMAIN p.blocks |-> IF p.blocks[i] \in PumpAccounts THEN "zero" ELSE p.blocks[i]]]

ShapeOk(legs) ==
  LET weights == [i \in DOMAIN legs |-> legs[i].bps]
  IN  ValidLegCount(weights) /\ ValidWeights(weights) /\ Cardinality(MintsOf(legs)) = Len(legs)

Admits(p) == ShapeOk(p.legs) /\ p.vault = ProgramVault(p)

Current ==
  [launch |-> chooser.launch, legs |-> BoundLegs, blocks |-> Blocks,
   vault |-> Derived(chooser.launch, BoundLegs), step |-> "sent"]

FaultyCanRun == VaultShown /\ passed /\ frozen.step # "sent"

\* Neither page waits for the admission run of the configuration that it shows;
\* only the launch page asks whether the choice is one.
CanRun ==
  /\ VaultShown /\ passed /\ frozen.step # "sent"
  /\ chooser.page = "launch" => ReferencesSupported /\ ~ PolicyError(Choice(chooser)) /\ frozen.step # "landed"

PressSetup ==
  /\ CanRun
  /\ frozen' = Current
  /\ UNCHANGED <<chooser, markets, session, passed, link>>

\* The record that is saved links to the vault.
SetupLands ==
  /\ frozen.step = "sent" /\ Admits(frozen)
  /\ frozen' = [frozen EXCEPT !.step = "landed"]
  /\ link' = LinkTo(frozen.launch, frozen.legs, frozen.vault)
  /\ UNCHANGED <<chooser, markets, session, passed>>

\* By the program, by a market that moved, or by the wallet.
SetupRefused ==
  /\ frozen.step = "sent"
  /\ frozen' = [frozen EXCEPT !.step = "refused"]
  /\ UNCHANGED <<chooser, markets, session, passed, link>>

\* The existing-token page keeps its link after a setup, to what it then shows.
OpensShown ==
  /\ chooser.page = "existing" /\ frozen.step = "landed" /\ VaultShown
  /\ link' = LinkTo(chooser.launch, BoundLegs, Current.vault)
  /\ UNCHANGED <<chooser, markets, session, passed, frozen>>

\* useAdmission: the shape, and with a launch mint the program's own verdict,
\* which can fall for other reasons as well.
AdmissionRuns ==
  /\ OfferedLegs(chooser) # <<>>
  /\ passed' \in BOOLEAN
  /\ passed' => ShapeOk(OfferedLegs(chooser)) /\ (chooser.page = "existing" => VaultShown /\ Admits(Current))
  /\ UNCHANGED <<chooser, markets, session, frozen, link>>

-----------------------------------------------------------------------------
(* The form *)

\* No field moves while a setup runs.  Without legs the last verdict is dropped.
Fill(f) ==
  /\ frozen.step # "sent" /\ chooser.left > 0
  /\ chooser' = [f EXCEPT !.left = chooser.left - 1]
  /\ Rerun(f)
  /\ passed' = (passed /\ OfferedLegs(f) # <<>>)
  /\ UNCHANGED <<frozen, link>>

\* updateSearch: a mint is chosen and an empty field is no choice; a name is a
\* query, which leaves the choice as it was.
UpdateSearch(text) == text \in Tokens \cup {"none"} /\ Fill([chooser EXCEPT !.override = text])

\* A search result or a preset; the mint to be created is one on its own page.
PickToken(m) == (m = Own => chooser.page = "launch") /\ Fill([chooser EXCEPT !.override = m])

TypeLaunch(text) == chooser.page = "existing" /\ Fill([chooser EXCEPT !.launch = text])

ChoiceInit ==
  /\ \E page \in {"launch", "existing"} :
       chooser = [page |-> page, launch |-> IF page = "launch" THEN Own ELSE "none",
               override |-> "default", left |-> MaxChoices]
  /\ session = [m \in Tokens |-> IF m = Platform THEN Awaited ELSE Unknown]
  /\ LET none == [m \in Tokens |-> Unknown]
     IN  markets = [asked |-> MintsOf(OfferedLegs(chooser)), next |-> none, shown |-> none, loading |-> TRUE]
  /\ passed = FALSE /\ frozen = NoPress /\ link = NoLink

ChoiceNext ==
  \/ \E m \in Tokens : ServedAtOnce(m) \/ PickToken(m) \/ \E v \in Fetched : ServiceAnswers(m, v)
  \/ \E text \in Tokens \cup {"none", "junk"} : UpdateSearch(text) \/ TypeLaunch(text)
  \/ AdmissionRuns \/ PressSetup \/ SetupLands \/ SetupRefused \/ OpensShown

-----------------------------------------------------------------------------

\* What the launch page lets its creator sign, which costs a mint, is a vault
\* that the program admits as it stands, each leg at a market of its own that
\* the service called fit.
PressAdmitted ==
  frozen.step # "idle" /\ chooser.page = "launch" =>
    /\ Admits(frozen)
    /\ \A i \in DOMAIN frozen.legs :
         LET m == frozen.legs[i].mint
             v == IF m = Own THEN PendingPump ELSE session[m]
         IN  v.account = frozen.blocks[i] /\ Passes(m, v)

\* A link to a vault's page opens that vault, and a vault that is saved is the
\* one that the program admitted: its address holds weights that add up and the
\* references that its burns will be priced by.
LinkReopens ==
  /\ link # NoLink => Reopened = link.vault
  /\ frozen.step = "landed" => frozen.vault = ProgramVault(frozen) /\ ShapeOk(frozen.legs)

\* A leg is on "Checking" only while the service is being asked for it: a run
\* that was overtaken neither ends the next one nor leaves it waiting.
ChecksEnd ==
  OfferedLegs(chooser) # <<>> =>
    /\ markets.loading <=> markets.asked # {}
    /\ \A m \in MintsOf(OfferedLegs(chooser)) : m \in markets.asked \/ VerdictOn(m) # Unknown
    /\ \A m \in markets.asked \ Pending(chooser) : session[m] = Awaited \/ Chosen(session[m])

ChoiceSound == PressAdmitted /\ LinkReopens /\ ChecksEnd

=============================================================================
