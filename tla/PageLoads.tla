------------------------------ MODULE PageLoads -----------------------------
(***************************************************************************)
(* What the pages show about a vault, a mint or a wallet: the effects of   *)
(* app/src/pages and app/src/state that read the chain, the service or the *)
(* index when their subject changes, some of them again and again.  The    *)
(* router keeps a page mounted when only its parameters change, so answers *)
(* about an earlier subject arrive while a later one is shown.             *)
(*                                                                         *)
(* The effects have one form and differ in six things; each is a value     *)
(* below, and a behaviour is that of one of them.                          *)
(***************************************************************************)
EXTENDS Integers, FiniteSets

CONSTANTS
  Subjects,     \* vaults, mints, wallets, searches, selected files
  MaxChanges    \* bound: changes of the subject

ASSUME PageConstants == MaxChanges \in Nat

\* dropped: an answer that the effect's cleanup or a turn counter made stale is
\* ignored.  polled: asked again on an interval.  rerun: asked again for other
\* reasons, a receipt among them.  blank: the display is emptied when the
\* subject changes, or its entries are looked up by subject.  onFail: "empty" it,
\* "keep" it, or show an "error".  silent: it may end without asking or touching
\* the display.
Effect(dropped, polled, rerun, blank, onFail) ==
  [dropped |-> dropped, polled |-> polled, rerun |-> rerun, blank |-> blank, onFail |-> onFail,
   silent |-> FALSE]

\* vault.tsx.  A leg whose lookup fails is shown with its error.  Without a
\* wallet and a service with a payer, no admission is asked for.
LegCaps        == Effect(TRUE, FALSE, TRUE, FALSE, "error")
LookupTableUse == Effect(TRUE, FALSE, FALSE, TRUE, "empty")
VaultBalance   == Effect(FALSE, TRUE, FALSE, FALSE, "keep")
ClaimStatus    == Effect(TRUE, TRUE, TRUE, FALSE, "error")
BurnSummary    == Effect(TRUE, FALSE, TRUE, FALSE, "keep")
ConfigMints    == Effect(TRUE, FALSE, FALSE, FALSE, "keep")
Admissible     == [Effect(TRUE, FALSE, FALSE, FALSE, "empty") EXCEPT !.silent = TRUE]
DemoCurve      == Effect(TRUE, TRUE, TRUE, FALSE, "keep")

\* AppContext.tsx
Health        == Effect(TRUE, TRUE, FALSE, FALSE, "error")
WalletBalance == Effect(FALSE, TRUE, FALSE, FALSE, "keep")

\* home.tsx (entries keyed by vault), communityVaults.tsx, existing.tsx
SavedVaults   == Effect(TRUE, FALSE, FALSE, TRUE, "keep")
Communities   == Effect(TRUE, FALSE, FALSE, FALSE, "error")
OneLaunch     == Effect(TRUE, FALSE, FALSE, FALSE, "error")
OneVault      == Effect(TRUE, FALSE, FALSE, FALSE, "error")
ExistingCurve == Effect(TRUE, FALSE, FALSE, TRUE, "empty")

\* tokenName.ts (useTokenNames, keyed by mint; useTokenPreview), policyPicker.tsx
\* (the search), referencePanel.tsx, configEditor.tsx and the image of launch.tsx
TokenNames    == Effect(TRUE, FALSE, FALSE, TRUE, "keep")
TokenPreview  == Effect(TRUE, FALSE, FALSE, TRUE, "empty")
TokenSearch   == Effect(TRUE, FALSE, FALSE, TRUE, "empty")
LegReferences == Effect(TRUE, FALSE, FALSE, TRUE, "error")
AdmissionRun  == Effect(TRUE, FALSE, TRUE, FALSE, "keep")
ImagePreview  == Effect(TRUE, FALSE, FALSE, TRUE, "error")

Effects ==
  {LegCaps, LookupTableUse, VaultBalance, ClaimStatus, BurnSummary, ConfigMints, Admissible, DemoCurve,
   Health, WalletBalance, SavedVaults, Communities, OneLaunch, OneVault, ExistingCurve,
   TokenNames, TokenPreview, TokenSearch, LegReferences, AdmissionRun, ImagePreview}

VARIABLES
  effect,
  subject,   \* what the page is about
  turn,       \* which turn of the effect is the current one
  shown,     \* whose data is displayed, or "none"
  asks,      \* requests under way: [for, turn]
  missed,    \* the last request about the subject failed
  skipped,   \* the effect's turn for the subject ended without asking
  changes

pageVars == <<effect, subject, turn, shown, asks, missed, skipped, changes>>

PageInit ==
  /\ effect \in Effects /\ subject \in Subjects
  /\ turn = 0 /\ shown = "none" /\ asks = {[for |-> subject, turn |-> 0]}
  /\ missed = FALSE /\ skipped = FALSE /\ changes = 0

Ask(s, r) == asks' = asks \cup {[for |-> s, turn |-> r]}

\* The subject changes: cleanup of the old turn, start of a new one.
ChangeSubject(s) ==
  /\ s # subject /\ changes < MaxChanges /\ changes' = changes + 1
  /\ subject' = s /\ turn' = turn + 1 /\ Ask(s, turn + 1)
  /\ shown' = IF effect.blank THEN "none" ELSE shown
  /\ missed' = FALSE /\ skipped' = FALSE
  /\ UNCHANGED effect

\* A receipt, a claim or a balance that arrived runs the effect again.
RunAgain ==
  /\ effect.rerun /\ changes < MaxChanges /\ changes' = changes + 1
  /\ turn' = turn + 1 /\ Ask(subject, turn + 1)
  /\ UNCHANGED <<effect, subject, shown, missed, skipped>>

Poll ==
  effect.polled /\ Ask(subject, turn)
  /\ UNCHANGED <<effect, subject, turn, shown, missed, skipped, changes>>

FaultyStale(q) == FALSE

Stale(q) == effect.dropped /\ q.turn # turn

Succeeds(q) ==
  /\ q \in asks /\ asks' = asks \ {q}
  /\ IF Stale(q) THEN UNCHANGED <<shown, missed>>
     ELSE shown' = q.for /\ missed' = (missed /\ q.for # subject)
  /\ UNCHANGED <<effect, subject, turn, skipped, changes>>

Fails(q) ==
  /\ q \in asks /\ asks' = asks \ {q}
  /\ IF Stale(q) THEN UNCHANGED <<shown, missed>>
     ELSE /\ shown' = IF effect.onFail = "keep" THEN shown ELSE "none"
          /\ missed' = (missed \/ q.for = subject)
  /\ UNCHANGED <<effect, subject, turn, skipped, changes>>

\* The early return without a payer: what was shown about the subject before
\* stays, and nothing asks again until the subject changes.
Skips(q) ==
  /\ effect.silent /\ q \in asks /\ asks' = asks \ {q}
  /\ skipped' = (skipped \/ ~ Stale(q))
  /\ UNCHANGED <<effect, subject, turn, shown, missed, changes>>

PageNext ==
  \/ \E s \in Subjects : ChangeSubject(s)
  \/ RunAgain \/ Poll
  \/ \E q \in asks : Succeeds(q) \/ Fails(q) \/ Skips(q)

\* Requests that may still be answered.
MayAsk == [for : Subjects, turn : 0 .. MaxChanges]

-----------------------------------------------------------------------------
(* Properties *)

\* Whatever order answers arrive in, once the subject stays what is displayed
\* is about it, or nothing is, or its own request has failed: no display is
\* left for ever with the data of a vault that the page has moved on from.  The
\* one exception is the admission verdict of a vault for which there was no payer
\* to ask with: the verdict of the vault before it stays.
Settles == <>[](shown \in {subject, "none"} \/ missed \/ (effect = Admissible /\ skipped))

=============================================================================
