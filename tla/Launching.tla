----------------------------- MODULE Launching ------------------------------
(***************************************************************************)
(* Launching a token and committing its fees to a vault: run() of          *)
(* app/src/pages/launch.tsx, runSetup() and runFeeShare() of existing.tsx, *)
(* createLookupTable() of vault.tsx, the plans of chain/instructions.ts,   *)
(* chain/lookupTable.ts and what AppContext.tsx remembers in the browser.  *)
(*                                                                         *)
(* There is one mint.  A press of a button freezes the configuration and   *)
(* becomes a sequence of signed transactions.  Each may land with the page *)
(* being told, be refused, or be lost: the page gets an error and the      *)
(* transaction may still land, also after later presses.  Pages of one tab *)
(* are left without ending what they started, so the buttons run side by   *)
(* side.  What the instructions check on chain is in ConfigAdmission, one  *)
(* transaction in WalletSend.                                              *)
(***************************************************************************)
EXTENDS Integers, FiniteSets, Sequences

CONSTANTS
  Vaults,       \* configurations, by the vault that they derive
  ThreeLegged,         \* those with three legs or more
  Chunks,       \* extensions that fill a lookup table
  SavedMax,     \* saved records (20)
  MaxPresses    \* bound: presses of a button

ASSUME LaunchConstants ==
  /\ ThreeLegged \subseteq Vaults /\ Chunks \in Nat \ {0} /\ SavedMax \in Nat \ {0} /\ MaxPresses \in Nat
  /\ {"none", "other"} \cap Vaults = {}

Buttons == {"launch", "setup", "share", "table"}

VARIABLES
  page,         \* [fresh, presses, image, uri]: fresh until the launch page gets another mint
  form,         \* the existing-token page: the vault that it displays and its flag done
  press,        \* button -> its run: [step, vault, plan, filled]
  chain,        \* [mint, sharing, share, prepared]
  flying,       \* transactions whose answer was lost: [tx, vault]
  saved,        \* the saved records, newest first: [vault, feeShare]
  remembered    \* vault -> how much of its remembered lookup table was filled, or -1

launchVars == <<page, form, press, chain, flying, saved, remembered>>

Idle == [step |-> "idle", vault |-> "", plan |-> <<>>, filled |-> 0]

\* A mint to be launched, or one that exists.
LaunchInit ==
  /\ page \in [fresh : BOOLEAN, presses : {0}, image : BOOLEAN, uri : BOOLEAN]
  /\ ~ page.uri /\ (page.image => page.fresh)
  /\ form \in [vault : Vaults, done : {FALSE}]
  /\ press = [b \in Buttons |-> Idle]
  /\ chain = [mint |-> ~ page.fresh, sharing |-> FALSE, share |-> "none", prepared |-> {}]
  /\ flying = {} /\ saved = <<>> /\ remembered = [v \in Vaults |-> -1]

To(b, step) == press' = [press EXCEPT ![b].step = step]

-----------------------------------------------------------------------------
(* Instructions and plans *)

FaultyPlanSetup(share, fits) ==
  CASE fits = "atomic" -> << {share, "validate", "atas"} >>
    [] fits = "split"  -> << {share}, {"validate", "atas"} >>
    [] OTHER           -> <<>>

\* planSetupWithFeeShare: all in one transaction, else the fee share after the
\* setup and with the validator again, else a refusal.
PlanSetup(share, fits) ==
  CASE fits = "atomic" -> << {share, "validate", "atas"} >>
    [] fits = "split"  -> << {"validate", "atas"}, {share, "validate"} >>
    [] OTHER           -> <<>>

\* A commitment is createFeeSharingConfig and updateFeeShares, or the update
\* alone where the config exists; planSetupOnly is not measured.
PlanOf(b, fits) ==
  CASE b = "setup" -> << {"validate", "atas"} >>
    [] b = "share" -> PlanSetup(IF chain.sharing THEN "update" ELSE "share", fits)
    [] b = "launch" /\ PlanSetup("share", fits) # <<>> -> << {"create"} >> \o PlanSetup("share", fits)
    [] OTHER -> <<>>

\* Whether Pump and the validator take a transaction.  A fee share is one-shot.
Takes(tx) ==
  /\ "create" \in tx => ~ chain.mint
  /\ "validate" \in tx => chain.mint
  /\ "share" \in tx => chain.mint /\ ~ chain.sharing
  /\ "update" \in tx => chain.sharing /\ chain.share = "none"

Landed(tx, v) ==
  LET shares == tx \cap {"share", "update"} # {}
  IN  chain' = [mint     |-> chain.mint \/ "create" \in tx,
                sharing  |-> chain.sharing \/ shares,
                share    |-> IF shares THEN v ELSE chain.share,
                prepared |-> chain.prepared \cup (IF "atas" \in tx THEN {v} ELSE {})]

-----------------------------------------------------------------------------
(* Pressing a button *)

\* canRun and the buttons' conditions.  The launch page makes a mint of its own;
\* the existing-token page wants one that is there; only wide vaults need tables.
CanPress(b, v) ==
  /\ press[b].step = "idle" /\ page.presses < MaxPresses
  /\ CASE b = "launch" -> page.fresh
       [] b \in {"setup", "share"} -> chain.mint /\ form.vault = v
       [] b = "table" -> v \in ThreeLegged

Press(b, v) ==
  /\ CanPress(b, v)
  /\ press' = [press EXCEPT ![b] = [Idle EXCEPT !.step = IF b = "table" THEN "create" ELSE "prepare", !.vault = v]]
  /\ page' = [page EXCEPT !.presses = @ + 1]
  /\ UNCHANGED <<form, chain, flying, saved, remembered>>

\* The form of the existing-token page is disabled while its setup runs.
Edit(v) ==
  /\ press["setup"].step = "idle" /\ v # form.vault /\ form' = [form EXCEPT !.vault = v]
  /\ UNCHANGED <<page, press, chain, flying, saved, remembered>>

\* Everything is resolved, built, measured and checked before the first prompt;
\* any of the reads may fail.
Prepare(b, fits) ==
  /\ press[b].step = "prepare"
  /\ IF PlanOf(b, fits) = <<>> THEN press' = [press EXCEPT ![b] = Idle]
     ELSE press' = [press EXCEPT ![b].plan = PlanOf(b, fits),
                                 ![b].step = IF b = "launch" /\ page.image THEN "upload" ELSE "send"]
  /\ UNCHANGED <<page, form, chain, flying, saved, remembered>>

\* uploadMetadata
Upload(ok) ==
  /\ press["launch"].step = "upload"
  /\ IF ok THEN To("launch", "send") /\ page' = [page EXCEPT !.uri = TRUE]
           ELSE press' = [press EXCEPT !["launch"] = Idle] /\ UNCHANGED page
  /\ UNCHANGED <<form, chain, flying, saved, remembered>>

\* The saved records but that of a vault; none is saved twice.
OtherRecords(v) ==
  LET places == {i \in DOMAIN saved : saved[i].vault = v}
      place  == CHOOSE i \in places : TRUE
  IN  IF places = {} THEN saved ELSE SubSeq(saved, 1, place - 1) \o SubSeq(saved, place + 1, Len(saved))

\* saveVault: first, in place of the vault's earlier record, and at most SavedMax.
Save(v, feeShare) ==
  LET next == <<[vault |-> v, feeShare |-> feeShare]>> \o OtherRecords(v)
  IN  saved' = SubSeq(next, 1, IF Len(next) < SavedMax THEN Len(next) ELSE SavedMax)

\* The end of a run: a launch saves its record and leaves for the vault page, a
\* setup shows that it is done.
Over(b) ==
  /\ press' = [press EXCEPT ![b] = Idle]
  /\ page' = [page EXCEPT !.fresh = @ /\ b # "launch"]
  /\ form' = [form EXCEPT !.done = @ \/ b = "setup"]

\* After the last transaction: launches and setups of wide vaults make a table;
\* setups save before it and launches after it.
AfterPlan(b) ==
  LET wide == press[b].vault \in ThreeLegged /\ b # "share"
  IN  /\ IF wide THEN To(b, "create") /\ UNCHANGED <<page, form>> ELSE Over(b)
      /\ IF b # "launch" \/ ~ wide THEN Save(press[b].vault, b # "setup") ELSE UNCHANGED saved

\* The next transaction lands and the page learns it.
Told(b) ==
  LET tx == Head(press[b].plan) IN
    /\ press[b].step = "send" /\ Takes(tx) /\ Landed(tx, press[b].vault)
    /\ IF Len(press[b].plan) = 1 THEN AfterPlan(b)
       ELSE press' = [press EXCEPT ![b].plan = Tail(@)] /\ UNCHANGED <<page, form, saved>>
    /\ UNCHANGED <<flying, remembered>>

\* It is refused, or its answer is lost; the run ends.
Breaks(b, lost) ==
  LET run == press[b] IN
    /\ run.step = "send" /\ press' = [press EXCEPT ![b] = Idle]
    /\ flying' = flying \cup (IF lost THEN {[tx |-> Head(run.plan), vault |-> run.vault]} ELSE {})
    /\ UNCHANGED <<page, form, chain, saved, remembered>>

\* A lost transaction lands after all, or never does.
LandsLate(f) ==
  /\ f \in flying /\ Takes(f.tx) /\ Landed(f.tx, f.vault) /\ flying' = flying \ {f}
  /\ UNCHANGED <<page, form, press, saved, remembered>>

-----------------------------------------------------------------------------
(* createVaultLookupTable *)

\* A new table, then chunk after chunk of the vault's accounts, ...
FillTable(b) ==
  /\ press[b].step \in {"create", "extend"}
  /\ press' = [press EXCEPT
       ![b].filled = IF press[b].step = "extend" THEN @ + 1 ELSE 0,
       ![b].step = IF press[b].step = "extend" /\ press[b].filled + 1 = Chunks THEN "activate" ELSE "extend"]
  /\ UNCHANGED <<page, form, chain, flying, saved, remembered>>

AfterTable(b) ==
  Over(b) /\ (IF b = "launch" THEN Save(press[b].vault, TRUE) ELSE UNCHANGED saved)

\* ... until the node serves it active with all of them: setVaultLookupTable.
RememberTable(b) ==
  /\ press[b].step = "activate"
  /\ remembered' = [remembered EXCEPT ![press[b].vault] = press[b].filled]
  /\ AfterTable(b)
  /\ UNCHANGED <<chain, flying>>

\* A send fails or the activation takes too long: the table stays behind.
GiveUpTable(b) ==
  press[b].step \in {"create", "extend", "activate"} /\ AfterTable(b) /\ UNCHANGED <<chain, flying, remembered>>

-----------------------------------------------------------------------------

\* The tab is closed or reloaded; the launch page has another mint then.
Reload ==
  /\ page.fresh /\ press' = [b \in Buttons |-> Idle]
  /\ page' = [page EXCEPT !.fresh = FALSE] /\ form' = [form EXCEPT !.done = FALSE]
  /\ UNCHANGED <<chain, flying, saved, remembered>>

\* removeVaultConfig
Forget(v) ==
  /\ \E i \in DOMAIN saved : saved[i].vault = v
  /\ saved' = OtherRecords(v)
  /\ UNCHANGED <<page, form, press, chain, flying, remembered>>

\* The creator commits the fees with another tool, or only makes the config.
ShareElsewhere(v) ==
  /\ chain.mint /\ chain.share = "none" /\ chain' = [chain EXCEPT !.sharing = TRUE, !.share = v]
  /\ UNCHANGED <<page, form, press, flying, saved, remembered>>

LaunchNext ==
  \/ \E b \in Buttons :
       \/ \E v \in Vaults : Press(b, v)
       \/ \E fits \in {"atomic", "split", "no"} : Prepare(b, fits)
       \/ Told(b) \/ \E lost \in BOOLEAN : Breaks(b, lost)
       \/ FillTable(b) \/ RememberTable(b) \/ GiveUpTable(b)
  \/ \E ok \in BOOLEAN : Upload(ok)
  \/ \E f \in flying : LandsLate(f)
  \/ \E v \in Vaults : Edit(v) \/ Forget(v)
  \/ \E v \in {"none", "other"} : ShareElsewhere(v)
  \/ Reload

LaunchSpec == LaunchInit /\ [][LaunchNext]_launchVars

-----------------------------------------------------------------------------
(* Properties *)

\* However presses fail, are repeated with another configuration, run beside
\* each other, land late or are cut off by a reload: the vault that the fees
\* were committed to for ever has its accounts, and a coin with an image was
\* created only after its metadata was stored ("metadata upload failed; no
\* transaction was signed", launch.tsx).
CommittedIsPrepared ==
  /\ chain.share \in Vaults => chain.share \in chain.prepared
  /\ chain.mint /\ page.image => page.uri

\* What the browser keeps is true: a record that says the fees go to its vault
\* was saved after that commitment landed, and a remembered lookup table held
\* all accounts of its vault.
BrowserTellsTruth ==
  /\ \A i \in DOMAIN saved : saved[i].feeShare => chain.share = saved[i].vault
  /\ \A v \in Vaults : remembered[v] \in {-1, Chunks}

\* Neither the chain nor the browser is left with half a launch.
LaunchKept == CommittedIsPrepared /\ BrowserTellsTruth

\* "Vault ready. Fund it by sending SOL to the address above" (existing.tsx) is
\* shown beside a vault that was validated and has its accounts.
ReadyIsPrepared == form.done => form.vault \in chain.prepared

=============================================================================
