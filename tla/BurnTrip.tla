------------------------------ MODULE BurnTrip ------------------------------
(***************************************************************************)
(* A burn from the vault page: app/src/pages/vault.tsx asks the service    *)
(* through app/src/chain/service.ts, the wallet signs, the service's       *)
(* stateless relay (makeCallerPaidHandlers, assertSubmittableSigned-       *)
(* Transaction) carries the transaction to the chain, and the page shows a *)
(* receipt.  Calls may fail, be answered late by the deadline of Transport *)
(* or lose their answer.  The service is not trusted with the wallet, nor  *)
(* the relay with strangers.  How a burn is prepared is in BurnBuild.      *)
(***************************************************************************)
EXTENDS Integers, FiniteSets

CONSTANTS
  Trips,          \* presses of the burn button
  Preparations,   \* what /burn/prepare may answer: [sameId, digest, unsigned, tx]
  Wires,          \* what strangers post to /burn/submit
  CallerPaid      \* a build for a real cluster: no demo key

ASSUME TripConstants ==
  \A p \in Preparations :
    p.tx \in [payer : STRING, signers : SUBSET STRING, valid : SUBSET STRING, shape : STRING, small : BOOLEAN]

VARIABLES
  trip,     \* Trips -> the state of one burn
  busy,     \* the page's busy flag
  relayed   \* wires that the relay has given to the chain

tripVars == <<trip, busy, relayed>>

\* A transaction: who pays, whose signatures it wants, whose it has over these
\* bytes, its instructions, and whether it fits.
NoTx == [payer |-> "", signers |-> {}, valid |-> {}, shape |-> "", small |-> TRUE]

\* step is where the browser is, server where the service is with this trip;
\* sent, landed and expired are facts of the chain; shown is the receipt and
\* signed, history, whether the wallet was asked.
NoTrip ==
  [step |-> "new", server |-> "none", answer |-> "", tx |-> NoTx, sent |-> FALSE, landed |-> "no",
   expired |-> FALSE, shown |-> "", signed |-> FALSE]

TripInit == trip = [n \in Trips |-> NoTrip] /\ busy = FALSE /\ relayed = {}

-----------------------------------------------------------------------------
(* The browser *)

\* What the page concludes from an error: post() in service.ts, and the
\* attribution in burn().
RejectedBy(answer) ==
  CASE answer = "timedOut" -> "deadline"
    [] answer = "external" -> "external"
    [] answer \in {"400", "500", "504"} -> "service-refused"
    [] OTHER -> "service"

\* A receipt ends the trip and frees the page.
Receipt(n, shown) ==
  /\ trip' = [trip EXCEPT ![n].step = "over", ![n].answer = "", ![n].shown = shown]
  /\ busy' = FALSE

\* burn(): the one-shot of the fork's demo key, or prepare, sign and submit.
PressBurn(n, kind) ==
  LET oneShot == ~ CallerPaid /\ kind = "demo"
  IN  /\ ~ busy /\ trip[n].step = "new" /\ busy' = TRUE
      /\ trip' = [trip EXCEPT ![n].step = IF oneShot THEN "oneShot" ELSE "preparing",
                              ![n].server = IF oneShot THEN "burning" ELSE "none"]
      /\ UNCHANGED relayed

\* callerPaidBurn's checks of what came back.
PreparationOk(p) ==
  /\ p.sameId /\ p.digest /\ p.unsigned
  /\ p.tx.signers = {"wallet"} /\ p.tx.shape = "burn"

\* /burn/prepare fails, or its answer goes to the wallet.
PrepareFails(n, answer) ==
  /\ trip[n].step = "preparing" /\ Receipt(n, RejectedBy(answer)) /\ UNCHANGED relayed

Prepared(n, p) ==
  /\ trip[n].step = "preparing"
  /\ IF PreparationOk(p)
       THEN /\ trip' = [trip EXCEPT ![n].step = "signing", ![n].tx = p.tx, ![n].signed = TRUE]
            /\ UNCHANGED busy
       ELSE Receipt(n, "service")
  /\ UNCHANGED relayed

\* The wallet declines, changes the message, returns it without a signature,
\* or signs; a signature that is not zero is not verified here.
Sign(n, result) ==
  /\ trip[n].step = "signing"
  /\ IF result \in {"declined", "changed", "zero"}
       THEN Receipt(n, "service")
       ELSE /\ trip' = [trip EXCEPT ![n].step = "submitting", ![n].server = "gate",
                                    ![n].tx.valid = IF result = "signed" THEN {"wallet"} ELSE {}]
            /\ UNCHANGED busy
  /\ UNCHANGED relayed

\* The answer arrives, or the connection breaks: without an answer, before the
\* request arrived or after.
SubmitAnswered(n) ==
  /\ trip[n].step = "submitting" /\ trip[n].answer # ""
  /\ Receipt(n, IF trip[n].answer = "200" THEN "submitted" ELSE RejectedBy(trip[n].answer))
  /\ UNCHANGED relayed

Unreachable(n) ==
  /\ trip[n].step \in {"submitting", "oneShot"} /\ Receipt(n, "service") /\ UNCHANGED relayed

NeverArrives(n) ==
  /\ trip[n].step = "submitting" /\ trip[n].server = "gate"
  /\ trip' = [trip EXCEPT ![n].server = "none", ![n].step = "over", ![n].shown = "service"]
  /\ busy' = FALSE /\ UNCHANGED relayed

\* Only the one-shot burn has a deadline in the browser.
BrowserDeadline(n) ==
  /\ trip[n].step = "oneShot" /\ trip[n].answer = ""
  /\ Receipt(n, RejectedBy("timedOut")) /\ UNCHANGED relayed

OneShotAnswered(n) ==
  /\ trip[n].step = "oneShot" /\ trip[n].answer # ""
  /\ Receipt(n, IF trip[n].answer = "200" THEN "burned" ELSE RejectedBy(trip[n].answer))
  /\ UNCHANGED relayed

-----------------------------------------------------------------------------
(* The relay *)

\* assertSubmittableSignedTransaction
Submittable(w) ==
  /\ w.small /\ w.shape = "burn"
  /\ w.signers = {w.payer} /\ w.payer \in w.valid

\* submitSigned up to the submitter.
Gate(n) ==
  /\ trip[n].server = "gate"
  /\ trip' = [trip EXCEPT ![n].server = IF Submittable(trip[n].tx) THEN "relaying" ELSE "over",
                          ![n].answer = IF Submittable(trip[n].tx) THEN @ ELSE "400"]
  /\ UNCHANGED <<busy, relayed>>

\* The submitter answers, or throws although the chain may have taken the
\* transaction.
Submit(n, taken, told) ==
  /\ trip[n].server = "relaying" /\ (told => taken)
  /\ trip' = [trip EXCEPT ![n].server = "over", ![n].sent = taken,
                          ![n].answer = IF @ # "" THEN @ ELSE IF told THEN "200" ELSE "500"]
  /\ relayed' = IF taken THEN relayed \cup {trip[n].tx} ELSE relayed
  /\ UNCHANGED busy

\* REQUEST_DEADLINE: the service answers for a submission that goes on.
ServerDeadline(n) ==
  /\ trip[n].server \in {"relaying", "burning"} /\ trip[n].answer = ""
  /\ trip' = [trip EXCEPT ![n].answer = "504"]
  /\ UNCHANGED <<busy, relayed>>

\* The one-shot burn of the service's own key.
OneShot(n, outcome) ==
  /\ trip[n].server = "burning"
  /\ trip' = [trip EXCEPT ![n].server = "over", ![n].answer = IF @ = "" THEN outcome ELSE @,
                          ![n].sent = outcome = "200", ![n].landed = IF outcome = "200" THEN "ok" ELSE @]
  /\ UNCHANGED <<busy, relayed>>

\* Anybody may post to the relay.
Stranger(w) == Submittable(w) /\ relayed' = relayed \cup {w} /\ UNCHANGED <<trip, busy>>

-----------------------------------------------------------------------------
(* The chain *)

\* A transaction that was sent is executed, with success or not, or its
\* blockhash expires.
Land(n, how) ==
  /\ trip[n].sent /\ trip[n].landed = "no" /\ ~ trip[n].expired
  /\ trip' = [trip EXCEPT ![n].landed = how]
  /\ UNCHANGED <<busy, relayed>>

Expire(n) ==
  /\ trip[n].sent /\ trip[n].landed = "no" /\ ~ trip[n].expired
  /\ trip' = [trip EXCEPT ![n].expired = TRUE]
  /\ UNCHANGED <<busy, relayed>>

FaultyConfirms(n) == trip[n].landed # "no"

\* The parsed transaction is there and without an error.
Confirms(n) == trip[n].landed = "ok"

\* A submitted receipt asks twelve times for its transaction.
PollReceipt(n) ==
  /\ trip[n].shown = "submitted" /\ Confirms(n)
  /\ trip' = [trip EXCEPT ![n].shown = "confirmed"]
  /\ UNCHANGED <<busy, relayed>>

PrepareAnswers == {"400", "500", "504", "external", "unreachable"}
SignResults == {"signed", "bad", "declined", "changed", "zero"}

TripNext ==
  \/ \E n \in Trips :
       \/ \E kind \in {"demo", "real"} : PressBurn(n, kind)
       \/ SubmitAnswered(n) \/ Unreachable(n) \/ NeverArrives(n)
       \/ BrowserDeadline(n) \/ OneShotAnswered(n)
       \/ \E answer \in PrepareAnswers : PrepareFails(n, answer)
       \/ \E p \in Preparations : Prepared(n, p)
       \/ \E result \in SignResults : Sign(n, result)
       \/ Gate(n) \/ ServerDeadline(n)
       \/ \E taken, told \in BOOLEAN : Submit(n, taken, told)
       \/ \E outcome \in {"200", "400", "external"} : OneShot(n, outcome)
       \/ \E how \in {"ok", "failed"} : Land(n, how)
       \/ Expire(n) \/ PollReceipt(n)
  \/ \E w \in Wires : Stranger(w)

-----------------------------------------------------------------------------
(* Properties *)

\* The relay carries nothing but burns that their one payer has signed,
\* whatever the service prepared, the wallet returned or a stranger posts.
OnlyBurnsRelayed ==
  \A w \in relayed : w.shape = "burn" /\ w.signers = {w.payer} /\ w.payer \in w.valid

\* Whatever the service answers, the wallet is asked to sign a burn and
\* nothing else, and nobody's signature but its own is wanted.
WalletAskedForBurns ==
  \A n \in Trips : trip[n].signed => trip[n].tx.shape = "burn" /\ trip[n].tx.signers = {"wallet"}

\* Signatures are asked for and carried for burns alone.
OnlyBurnsSigned == OnlyBurnsRelayed /\ WalletAskedForBurns

\* SUBMITTED is shown only for a transaction that the chain was given, and
\* BURN CONFIRMED only for one that was executed without an error.
ReceiptsTruthful ==
  \A n \in Trips :
    /\ trip[n].shown \in {"submitted", "confirmed"} => trip[n].sent
    /\ trip[n].shown \in {"confirmed", "burned"} => trip[n].landed = "ok"

\* A trip from page to relay signs nothing but burns and reports what happened.
TripSound == OnlyBurnsSigned /\ ReceiptsTruthful

\* "REJECTED - vault untouched" (vault.tsx) is shown only for burns that are
\* not executed.
RejectedMeansUntouched ==
  \A n \in Trips :
    trip[n].shown \in {"service", "service-refused", "external"} => trip[n].landed # "ok"

=============================================================================
