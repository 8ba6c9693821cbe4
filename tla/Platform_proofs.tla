--------------------------- MODULE Platform_proofs ---------------------------
(***************************************************************************)
(* The parts of the platform around the burn: what their runs check on     *)
(* small instances, for any number of presses, transactions and burns.     *)
(***************************************************************************)
EXTENDS MCPlatform, Services_proofs, Arithmetic_proofs, Messages_proofs, FiniteSetTheorems, SequenceTheorems, TLAPS

-----------------------------------------------------------------------------
(* One transaction of the wallet (WalletSend) *)

SendTypes ==
  /\ send \in [step : {"sign", "send", "status", "height", "late", "over"}, told : {"", "error", "ok", "failed"}]
  /\ status \in {"unseen", "processed", "confirmed", "failed"}
  /\ height \in Nat

\* The last question is asked only of a transaction that is too late.
SendInv ==
  /\ SendTypes
  /\ send.step = "late" => height > LastValid
  /\ VerdictFinal

\* What GoTo and Tell do to the fields.
LEMMA SendFields ==
  ASSUME SendTypes, NEW s \in {"sign", "send", "status", "height", "late", "over"}, NEW what \in {"", "error", "ok", "failed"}
  PROVE  /\ GoTo(s) => send' \in [step : {s}, told : {send.told}] /\ send'.step = s /\ send'.told = send.told
         /\ Tell(what) => send' \in [step : {"over"}, told : {what}] /\ send'.step = "over" /\ send'.told = what
<1>1. ASSUME GoTo(s) PROVE send' \in [step : {s}, told : {send.told}]
  BY <1>1 DEF SendTypes, GoTo
<1>2. ASSUME Tell(what) PROVE send' \in [step : {"over"}, told : {what}]
  BY <1>2 DEF Tell
<1> QED BY <1>1, <1>2

LEMMA SendInitial == SendInit => SendInv
<1> SUFFICES ASSUME SendInit PROVE SendInv
  OBVIOUS
<1>1. send \in [step : {"sign"}, told : {""}] 
  BY DEF SendInit
<1>2. send.step = "sign" /\ send.told = "" /\ status = "unseen" /\ height = 0
  BY DEF SendInit
<1> QED
  BY <1>1, <1>2 DEF SendTypes, SendInv, VerdictFinal

\* Every step of the page, the node and the chain keeps it.
LEMMA SendStep ==
  ASSUME SendInv, [SendNext]_sendVars
  PROVE  SendInv'
<1> USE SendConstants
<1>1. SendTypes /\ VerdictFinal /\ (send.step = "late" => height > LastValid)
  BY DEF SendInv
<1> DEFINE Steps == {"sign", "send", "status", "height", "late", "over"}
           Heard == {"", "error", "ok", "failed"}
\* The page moves and tells nothing, or it stops.
<1>2. ASSUME NEW s \in Steps, GoTo(s), status' = status, height' = height, s = "late" => height > LastValid
      PROVE  SendInv'
  <2>1. send' \in [step : {s}, told : {send.told}] /\ send'.step = s /\ send'.told = send.told
    BY <1>1, <1>2, SendFields
  <2>2. send.told \in Heard
    BY <1>1 DEF SendTypes
  <2> QED BY <1>1, <1>2, <2>1, <2>2 DEF SendTypes, SendInv, VerdictFinal
<1>3. ASSUME NEW what \in Heard, Tell(what), status' = status, height' = height,
             what = "ok" => status \in {"processed", "confirmed"},
             what = "failed" => status = "failed" \/ (status = "unseen" /\ height > LastValid)
      PROVE  SendInv'
  <2>1. send' \in [step : {"over"}, told : {what}] /\ send'.step = "over" /\ send'.told = what
    BY <1>1, <1>3, SendFields
  <2> QED BY <1>1, <1>3, <2>1 DEF SendTypes, SendInv, VerdictFinal
<1>4. ASSUME NEW signs \in BOOLEAN, WalletSigns(signs) PROVE SendInv'
  BY <1>2, <1>3, <1>4 DEF WalletSigns, ChainSame
<1>5. ASSUME NEW taken \in BOOLEAN, NEW fails \in BOOLEAN, SendRaw(taken, fails) PROVE SendInv'
  BY <1>2, <1>3, <1>5 DEF SendRaw
<1>6. CASE AskStatus
  <2>1. CASE status = "failed"
    BY <1>3, <1>6, <2>1 DEF AskStatus, ChainSame
  <2>2. CASE status = "confirmed"
    BY <1>3, <1>6, <2>2 DEF AskStatus, ChainSame
  <2>3. CASE status \notin {"failed", "confirmed"}
    BY <1>2, <1>6, <2>3 DEF AskStatus, ChainSame
  <2> QED BY <2>1, <2>2, <2>3
<1>7. CASE AskHeight
  BY <1>2, <1>7 DEF AskHeight, ChainSame
<1>8. CASE AskLate
  BY <1>1, <1>3, <1>8 DEF AskLate, ChainSame, SendTypes
<1>9. CASE AskBreaks
  BY <1>3, <1>9 DEF AskBreaks, ChainSame
\* The chain executes only what is not too late, and nothing twice.
<1>10. ASSUME NEW how \in {"processed", "failed"}, Execute(how) PROVE SendInv'
  <2>1. send' = send /\ height' = height /\ status' = how /\ status = "unseen" /\ height <= LastValid
    BY <1>10 DEF Execute
  <2>2. SendTypes'
    BY <1>1, <2>1 DEF SendTypes
  <2>4. send.told # "ok" /\ send.told # "failed"
    <3>1. height \in Nat
      BY <1>1 DEF SendTypes
    <3>2. ~ (height > LastValid)
      BY <2>1, <3>1
    <3> QED BY <1>1, <2>1, <3>2 DEF VerdictFinal
  <2>3. VerdictFinal'
    BY <2>1, <2>4 DEF VerdictFinal
  <2> QED BY <1>1, <2>1, <2>2, <2>3 DEF SendInv
<1>11. CASE Confirm
  BY <1>1, <1>11 DEF Confirm, SendTypes, SendInv, VerdictFinal
<1>12. CASE NewBlock
  <2>1. send' = send /\ height' = height + 1 /\ status' = status
    BY <1>12 DEF NewBlock
  <2>5. height \in Nat
    BY <1>1 DEF SendTypes
  <2>4. height \in Nat /\ height' \in Nat
    BY <2>1, <2>5
  <2>2. SendTypes' /\ height \in Nat
    BY <1>1, <2>1, <2>4 DEF SendTypes
  <2>3. VerdictFinal'
    BY <1>1, <2>1, <2>2 DEF VerdictFinal
  <2> QED BY <1>1, <2>1, <2>2, <2>3 DEF SendInv
<1>13. CASE UNCHANGED sendVars
  BY <1>1, <1>13 DEF sendVars, SendTypes, SendInv, VerdictFinal
<1> QED
  BY <1>4, <1>5, <1>6, <1>7, <1>8, <1>9, <1>10, <1>11, <1>12, <1>13 DEF SendNext

-----------------------------------------------------------------------------
(* Burns from the page to the chain (BurnTrip) *)

\* Transactions that a preparation names or that the wallet has signed.
Payers  == {""} \cup {p.tx.payer : p \in Preparations}
Signers == {{}} \cup {p.tx.signers : p \in Preparations}
Valids  == {{}, {"wallet"}} \cup {p.tx.valid : p \in Preparations}
Shapes  == {""} \cup {p.tx.shape : p \in Preparations}
Transactions == [payer : Payers, signers : Signers, valid : Valids, shape : Shapes, small : BOOLEAN]

\* Before anything is asked of the relay or of the service's own key.
Unprompted == {"new", "preparing", "signing"}

PageSteps == Unprompted \cup {"oneShot", "submitting", "over"}
Servers   == {"none", "gate", "relaying", "burning", "over"}
TripAnswers   == {"", "200", "400", "500", "504", "external"}
Landings  == {"no", "ok", "failed"}
TripReceipts  == {"", "deadline", "external", "service-refused", "service", "submitted", "confirmed", "burned"}

TripType ==
  [step : PageSteps, server : Servers, answer : TripAnswers, tx : Transactions, sent : BOOLEAN, landed : Landings,
   expired : BOOLEAN, shown : TripReceipts, signed : BOOLEAN]

\* Where the page is, against where the service and the chain are.  While the
\* service works nothing is promised; an answer 200 is kept by the chain, and
\* the page's receipt is no more than that answer.
TripKept(k) ==
  /\ k.step \in Unprompted => k.server = "none" /\ k.answer = "" /\ k.shown = ""
  /\ k.step \in {"oneShot", "submitting"} => k.shown = ""
  /\ k.step = "oneShot" => k.server \in {"burning", "over"}
  /\ k.step = "submitting" => k.server \in {"gate", "relaying", "over"}
  /\ k.server # "over" => ~ k.sent /\ k.landed = "no" /\ k.answer \in {"", "504"} /\ k.shown \notin {"submitted", "confirmed", "burned"}
  /\ k.server = "relaying" => Submittable(k.tx)
  /\ k.answer = "200" => k.sent
  /\ k.answer = "200" /\ k.step = "oneShot" => k.landed = "ok"
  /\ k.signed => k.tx.shape = "burn" /\ k.tx.signers = {"wallet"}
  /\ k.shown \in {"submitted", "confirmed"} => k.sent
  /\ k.shown \in {"confirmed", "burned"} => k.landed = "ok"

TripInv ==
  /\ trip \in [Trips -> TripType]
  /\ \A n \in Trips : TripKept(trip[n])
  /\ OnlyBurnsRelayed

\* What a press, an answer or a block leaves of one burn.
LEMMA TripStep ==
  ASSUME TripInv, NEW n \in Trips, NEW m \in TripType, trip' = [trip EXCEPT ![n] = m], TripKept(m),
         relayed' = relayed \/ (relayed' = relayed \cup {trip[n].tx} /\ Submittable(trip[n].tx))
  PROVE  TripInv'
<1>1. trip' \in [Trips -> TripType]
  BY DEF TripInv
<1>2. \A q \in Trips : TripKept(trip'[q])
  BY DEF TripInv
<1>3. OnlyBurnsRelayed'
  BY DEF TripInv, OnlyBurnsRelayed, Submittable
<1> QED BY <1>1, <1>2, <1>3 DEF TripInv

\* The fields of a burn.
LEMMA TripFields ==
  ASSUME TripInv, NEW n \in Trips
  PROVE  trip[n] \in TripType /\ TripKept(trip[n]) /\ trip = [q \in Trips |-> trip[q]]
  BY DEF TripInv

\* A receipt says no more than what was answered.
LEMMA ReceiptKeeps ==
  ASSUME TripInv, NEW n \in Trips, NEW shown \in {"deadline", "external", "service-refused", "service", "submitted", "burned"},
         trip[n].step \in {"preparing", "signing", "oneShot", "submitting"}, Receipt(n, shown), relayed' = relayed,
         shown = "submitted" => trip[n].answer = "200",
         shown = "burned" => trip[n].answer = "200" /\ trip[n].step = "oneShot"
  PROVE  TripInv'
<1> DEFINE k == trip[n]
           m == [k EXCEPT !.step = "over", !.answer = "", !.shown = shown]
<1>1. k \in TripType /\ TripKept(k) /\ trip = [q \in Trips |-> trip[q]]
  BY TripFields
<1>2. trip' = [trip EXCEPT ![n] = m]
  BY <1>1 DEF Receipt
<1>3. /\ m \in TripType /\ m.step = "over" /\ m.answer = "" /\ m.shown = shown /\ m.server = k.server /\ m.tx = k.tx
      /\ m.sent = k.sent /\ m.landed = k.landed /\ m.signed = k.signed
  <2>1. "over" \in PageSteps /\ "" \in TripAnswers /\ shown \in TripReceipts
    BY DEF PageSteps, TripAnswers, TripReceipts
  <2>2. m \in TripType
    BY <1>1, <2>1 DEF TripType
  <2> QED BY <1>1, <2>2 DEF TripType
<1> HIDE DEF m
<1>4. TripKept(m)
  BY <1>1, <1>3 DEF TripKept, Unprompted
<1> QED BY <1>2, <1>3, <1>4, TripStep

\* Nothing has been asked for a burn that starts.
LEMMA PressKeeps ==
  ASSUME TripInv, NEW n \in Trips, NEW how, PressBurn(n, how)
  PROVE  TripInv'
<1> DEFINE k == trip[n]
           one == ~ CallerPaid /\ how = "demo"
           m == [k EXCEPT !.step = IF one THEN "oneShot" ELSE "preparing", !.server = IF one THEN "burning" ELSE "none"]
<1>1. k \in TripType /\ TripKept(k) /\ trip = [q \in Trips |-> trip[q]]
  BY TripFields
<1>2. trip' = [trip EXCEPT ![n] = m] /\ relayed' = relayed
  BY <1>1 DEF PressBurn
<1>3. k.step = "new"
  BY DEF PressBurn
<1> HIDE DEF k
<1>4. (IF one THEN "oneShot" ELSE "preparing") \in PageSteps /\ (IF one THEN "burning" ELSE "none") \in Servers
  BY <1>1, <1>3 DEF TripType, PageSteps, Unprompted, Servers, TripAnswers, Landings, TripReceipts
<1>5. m \in TripType
  BY <1>1, <1>4 DEF TripType
<1>6. /\ m.step = (IF one THEN "oneShot" ELSE "preparing") /\ m.server = (IF one THEN "burning" ELSE "none") /\ m.answer = k.answer /\ m.tx = k.tx /\ m.sent = k.sent
      /\ m.landed = k.landed /\ m.expired = k.expired /\ m.shown = k.shown /\ m.signed = k.signed
  BY <1>1, <1>5 DEF TripType
<1> HIDE DEF m
<1>7. TripKept(m)
  BY <1>1, <1>3, <1>6 DEF TripKept, Unprompted
<1> QED BY <1>1, <1>2, <1>3, <1>5, <1>7, TripStep DEF k

\* The relay takes only what it may submit.
LEMMA GateKeeps ==
  ASSUME TripInv, NEW n \in Trips, Gate(n)
  PROVE  TripInv'
<1> DEFINE k == trip[n]
           m == [k EXCEPT !.server = IF Submittable(k.tx) THEN "relaying" ELSE "over", !.answer = IF Submittable(k.tx) THEN @ ELSE "400"]
<1>1. k \in TripType /\ TripKept(k) /\ trip = [q \in Trips |-> trip[q]]
  BY TripFields
<1>2. trip' = [trip EXCEPT ![n] = m] /\ relayed' = relayed
  BY <1>1 DEF Gate
<1>3. k.server = "gate"
  BY DEF Gate
<1> HIDE DEF k
<1>4. (IF Submittable(k.tx) THEN "relaying" ELSE "over") \in Servers /\ (IF Submittable(k.tx) THEN k.answer ELSE "400") \in TripAnswers
  BY <1>1, <1>3 DEF TripType, PageSteps, Unprompted, Servers, TripAnswers, Landings, TripReceipts
<1>5. m \in TripType
  BY <1>1, <1>4 DEF TripType
<1>6. /\ m.step = k.step /\ m.server = (IF Submittable(k.tx) THEN "relaying" ELSE "over") /\ m.answer = (IF Submittable(k.tx) THEN k.answer ELSE "400") /\ m.tx = k.tx /\ m.sent = k.sent
      /\ m.landed = k.landed /\ m.expired = k.expired /\ m.shown = k.shown /\ m.signed = k.signed
  BY <1>1, <1>5 DEF TripType
<1> HIDE DEF m
<1>7. TripKept(m)
  BY <1>1, <1>3, <1>6 DEF TripKept, Unprompted
<1> QED BY <1>1, <1>2, <1>3, <1>5, <1>7, TripStep DEF k

\* The submitter claims only what the chain has taken.
LEMMA SubmitKeeps ==
  ASSUME TripInv, NEW n \in Trips, NEW taken \in BOOLEAN, NEW told \in BOOLEAN, Submit(n, taken, told)
  PROVE  TripInv'
<1> DEFINE k == trip[n]
           m == [k EXCEPT !.server = "over", !.sent = taken, !.answer = IF @ # "" THEN @ ELSE IF told THEN "200" ELSE "500"]
<1>1. k \in TripType /\ TripKept(k) /\ trip = [q \in Trips |-> trip[q]]
  BY TripFields
<1>2. trip' = [trip EXCEPT ![n] = m] /\ (relayed' = relayed \/ relayed' = relayed \cup {k.tx})
  BY <1>1 DEF Submit
<1>3. k.server = "relaying" /\ (told => taken)
  BY DEF Submit
<1> HIDE DEF k
<1>4. "over" \in Servers /\ (IF k.answer # "" THEN k.answer ELSE IF told THEN "200" ELSE "500") \in TripAnswers
  BY <1>1, <1>3 DEF TripType, PageSteps, Unprompted, Servers, TripAnswers, Landings, TripReceipts
<1>5. m \in TripType
  BY <1>1, <1>4 DEF TripType
<1>6. /\ m.step = k.step /\ m.server = "over" /\ m.answer = (IF k.answer # "" THEN k.answer ELSE IF told THEN "200" ELSE "500") /\ m.tx = k.tx /\ m.sent = taken
      /\ m.landed = k.landed /\ m.expired = k.expired /\ m.shown = k.shown /\ m.signed = k.signed
  BY <1>1, <1>5 DEF TripType
<1> HIDE DEF m
<1>7. TripKept(m)
  BY <1>1, <1>3, <1>6 DEF TripKept, Unprompted
<1>8. Submittable(k.tx)
  BY <1>1, <1>3 DEF TripKept
<1> QED BY <1>1, <1>2, <1>3, <1>5, <1>7, <1>8, TripStep DEF k

\* The deadline answers while the service goes on.
LEMMA DeadlineKept ==
  ASSUME TripInv, NEW n \in Trips, ServerDeadline(n)
  PROVE  TripInv'
<1> DEFINE k == trip[n]
           m == [k EXCEPT !.answer = "504"]
<1>1. k \in TripType /\ TripKept(k) /\ trip = [q \in Trips |-> trip[q]]
  BY TripFields
<1>2. trip' = [trip EXCEPT ![n] = m] /\ relayed' = relayed
  BY <1>1 DEF ServerDeadline
<1>3. k.server \in {"relaying", "burning"} /\ k.answer = ""
  BY DEF ServerDeadline
<1> HIDE DEF k
<1>4. "504" \in TripAnswers
  BY <1>1, <1>3 DEF TripType, PageSteps, Unprompted, Servers, TripAnswers, Landings, TripReceipts
<1>5. m \in TripType
  BY <1>1, <1>4 DEF TripType
<1>6. /\ m.step = k.step /\ m.server = k.server /\ m.answer = "504" /\ m.tx = k.tx /\ m.sent = k.sent
      /\ m.landed = k.landed /\ m.expired = k.expired /\ m.shown = k.shown /\ m.signed = k.signed
  BY <1>1, <1>5 DEF TripType
<1> HIDE DEF m
<1>7. TripKept(m)
  BY <1>1, <1>3, <1>6 DEF TripKept, Unprompted
<1> QED BY <1>1, <1>2, <1>3, <1>5, <1>7, TripStep DEF k

\* The service's own burn is answered 200 when it has landed.
LEMMA OneShotKeeps ==
  ASSUME TripInv, NEW n \in Trips, NEW outcome \in {"200", "400", "external"}, OneShot(n, outcome)
  PROVE  TripInv'
<1> DEFINE k == trip[n]
           m == [k EXCEPT !.server = "over", !.answer = IF @ = "" THEN outcome ELSE @, !.sent = outcome = "200", !.landed = IF outcome = "200" THEN "ok" ELSE @]
<1>1. k \in TripType /\ TripKept(k) /\ trip = [q \in Trips |-> trip[q]]
  BY TripFields
<1>2. trip' = [trip EXCEPT ![n] = m] /\ relayed' = relayed
  BY <1>1 DEF OneShot
<1>3. k.server = "burning"
  BY DEF OneShot
<1> HIDE DEF k
<1>4. "over" \in Servers /\ (IF k.answer = "" THEN outcome ELSE k.answer) \in TripAnswers /\ (outcome = "200") \in BOOLEAN /\ (IF outcome = "200" THEN "ok" ELSE k.landed) \in Landings
  BY <1>1, <1>3 DEF TripType, PageSteps, Unprompted, Servers, TripAnswers, Landings, TripReceipts
<1>5. m \in TripType
  BY <1>1, <1>4 DEF TripType
<1>6. /\ m.step = k.step /\ m.server = "over" /\ m.answer = (IF k.answer = "" THEN outcome ELSE k.answer) /\ m.tx = k.tx /\ m.sent = (outcome = "200")
      /\ m.landed = (IF outcome = "200" THEN "ok" ELSE k.landed) /\ m.expired = k.expired /\ m.shown = k.shown /\ m.signed = k.signed
  BY <1>1, <1>5 DEF TripType
<1> HIDE DEF m
<1>7. TripKept(m)
  BY <1>1, <1>3, <1>6 DEF TripKept, Unprompted
<1> QED BY <1>1, <1>2, <1>3, <1>5, <1>7, TripStep DEF k

\* A transaction lands once.
LEMMA LandKeeps ==
  ASSUME TripInv, NEW n \in Trips, NEW how \in {"ok", "failed"}, Land(n, how)
  PROVE  TripInv'
<1> DEFINE k == trip[n]
           m == [k EXCEPT !.landed = how]
<1>1. k \in TripType /\ TripKept(k) /\ trip = [q \in Trips |-> trip[q]]
  BY TripFields
<1>2. trip' = [trip EXCEPT ![n] = m] /\ relayed' = relayed
  BY <1>1 DEF Land
<1>3. k.sent /\ k.landed = "no"
  BY DEF Land
<1> HIDE DEF k
<1>4. how \in Landings
  BY <1>1, <1>3 DEF TripType, PageSteps, Unprompted, Servers, TripAnswers, Landings, TripReceipts
<1>5. m \in TripType
  BY <1>1, <1>4 DEF TripType
<1>6. /\ m.step = k.step /\ m.server = k.server /\ m.answer = k.answer /\ m.tx = k.tx /\ m.sent = k.sent
      /\ m.landed = how /\ m.expired = k.expired /\ m.shown = k.shown /\ m.signed = k.signed
  BY <1>1, <1>5 DEF TripType
<1> HIDE DEF m
<1>7. TripKept(m)
  BY <1>1, <1>3, <1>6 DEF TripKept, Unprompted
<1> QED BY <1>1, <1>2, <1>3, <1>5, <1>7, TripStep DEF k

\* It may expire.
LEMMA ExpireKeeps ==
  ASSUME TripInv, NEW n \in Trips, Expire(n)
  PROVE  TripInv'
<1> DEFINE k == trip[n]
           m == [k EXCEPT !.expired = TRUE]
<1>1. k \in TripType /\ TripKept(k) /\ trip = [q \in Trips |-> trip[q]]
  BY TripFields
<1>2. trip' = [trip EXCEPT ![n] = m] /\ relayed' = relayed
  BY <1>1 DEF Expire
<1>3. k.sent
  BY DEF Expire
<1> HIDE DEF k
<1>4. TRUE
  BY <1>1, <1>3 DEF TripType, PageSteps, Unprompted, Servers, TripAnswers, Landings, TripReceipts
<1>5. m \in TripType
  BY <1>1, <1>4 DEF TripType
<1>6. /\ m.step = k.step /\ m.server = k.server /\ m.answer = k.answer /\ m.tx = k.tx /\ m.sent = k.sent
      /\ m.landed = k.landed /\ m.expired = TRUE /\ m.shown = k.shown /\ m.signed = k.signed
  BY <1>1, <1>5 DEF TripType
<1> HIDE DEF m
<1>7. TripKept(m)
  BY <1>1, <1>3, <1>6 DEF TripKept, Unprompted
<1> QED BY <1>1, <1>2, <1>3, <1>5, <1>7, TripStep DEF k

\* CONFIRMED replaces SUBMITTED when the transaction is there without an error.
LEMMA PollKeeps ==
  ASSUME TripInv, NEW n \in Trips, PollReceipt(n)
  PROVE  TripInv'
<1> DEFINE k == trip[n]
           m == [k EXCEPT !.shown = "confirmed"]
<1>1. k \in TripType /\ TripKept(k) /\ trip = [q \in Trips |-> trip[q]]
  BY TripFields
<1>2. trip' = [trip EXCEPT ![n] = m] /\ relayed' = relayed
  BY <1>1 DEF PollReceipt, Confirms
<1>3. k.shown = "submitted" /\ k.landed = "ok"
  BY DEF PollReceipt, Confirms
<1> HIDE DEF k
<1>4. "confirmed" \in TripReceipts
  BY <1>1, <1>3 DEF TripType, PageSteps, Unprompted, Servers, TripAnswers, Landings, TripReceipts
<1>5. m \in TripType
  BY <1>1, <1>4 DEF TripType
<1>6. /\ m.step = k.step /\ m.server = k.server /\ m.answer = k.answer /\ m.tx = k.tx /\ m.sent = k.sent
      /\ m.landed = k.landed /\ m.expired = k.expired /\ m.shown = "confirmed" /\ m.signed = k.signed
  BY <1>1, <1>5 DEF TripType
<1> HIDE DEF m
<1>7. TripKept(m)
  BY <1>1, <1>3, <1>6 DEF TripKept, Unprompted
<1> QED BY <1>1, <1>2, <1>3, <1>5, <1>7, TripStep DEF k

\* A request that never arrives is given up.
LEMMA LostKeeps ==
  ASSUME TripInv, NEW n \in Trips, NeverArrives(n)
  PROVE  TripInv'
<1> DEFINE k == trip[n]
           m == [k EXCEPT !.server = "none", !.step = "over", !.shown = "service"]
<1>1. k \in TripType /\ TripKept(k) /\ trip = [q \in Trips |-> trip[q]]
  BY TripFields
<1>2. trip' = [trip EXCEPT ![n] = m] /\ relayed' = relayed
  BY <1>1 DEF NeverArrives
<1>3. k.step = "submitting" /\ k.server = "gate"
  BY DEF NeverArrives
<1> HIDE DEF k
<1>4. "none" \in Servers /\ "over" \in PageSteps /\ "service" \in TripReceipts
  BY <1>1, <1>3 DEF TripType, PageSteps, Unprompted, Servers, TripAnswers, Landings, TripReceipts
<1>5. m \in TripType
  BY <1>1, <1>4 DEF TripType
<1>6. /\ m.step = "over" /\ m.server = "none" /\ m.answer = k.answer /\ m.tx = k.tx /\ m.sent = k.sent
      /\ m.landed = k.landed /\ m.expired = k.expired /\ m.shown = "service" /\ m.signed = k.signed
  BY <1>1, <1>5 DEF TripType
<1> HIDE DEF m
<1>7. TripKept(m)
  BY <1>1, <1>3, <1>6 DEF TripKept, Unprompted
<1> QED BY <1>1, <1>2, <1>3, <1>5, <1>7, TripStep DEF k

\* The wallet is asked for burns of its own alone.
LEMMA PreparedKeeps ==
  ASSUME TripInv, NEW n \in Trips, NEW p \in Preparations, Prepared(n, p), PreparationOk(p)
  PROVE  TripInv'
<1> DEFINE k == trip[n]
           m == [k EXCEPT !.step = "signing", !.tx = p.tx, !.signed = TRUE]
<1>1. k \in TripType /\ TripKept(k) /\ trip = [q \in Trips |-> trip[q]]
  BY TripFields
<1>2. trip' = [trip EXCEPT ![n] = m] /\ relayed' = relayed
  BY <1>1 DEF Prepared
<1>3. k.step = "preparing"
  BY DEF Prepared
<1>8. p.tx.shape = "burn" /\ p.tx.signers = {"wallet"}
  BY DEF PreparationOk
<1> HIDE DEF k
<1>4. "signing" \in PageSteps /\ p.tx \in Transactions
  <2>1. p.tx.payer \in Payers /\ p.tx.signers \in Signers /\ p.tx.valid \in Valids /\ p.tx.shape \in Shapes
    BY DEF Payers, Signers, Valids, Shapes
  <2>2. p.tx \in [payer : STRING, signers : SUBSET STRING, valid : SUBSET STRING, shape : STRING, small : BOOLEAN]
    BY TripConstants
  <2> QED BY <2>1, <2>2 DEF PageSteps, Unprompted, Transactions
<1>5. m \in TripType
  BY <1>1, <1>4 DEF TripType
<1>6. /\ m.step = "signing" /\ m.server = k.server /\ m.answer = k.answer /\ m.tx = p.tx /\ m.sent = k.sent
      /\ m.landed = k.landed /\ m.expired = k.expired /\ m.shown = k.shown /\ m.signed = TRUE
  BY <1>1, <1>5 DEF TripType
<1> HIDE DEF m
<1>7. TripKept(m)
  BY <1>1, <1>3, <1>6, <1>8 DEF TripKept, Unprompted
<1> QED BY <1>1, <1>2, <1>3, <1>5, <1>7, TripStep DEF k

\* What the wallet returns is carried to the relay; its message is the burn.
LEMMA SignKeeps ==
  ASSUME TripInv, NEW n \in Trips, NEW result \in SignResults, Sign(n, result)
  PROVE  TripInv'
<1> DEFINE k == trip[n]
           over == IF result = "signed" THEN {"wallet"} ELSE {}
           wire == [k.tx EXCEPT !.valid = over]
           m == [k EXCEPT !.step = "submitting", !.server = "gate", !.tx = wire]
<1>1. k \in TripType /\ TripKept(k) /\ trip = [q \in Trips |-> trip[q]]
  BY TripFields
<1>2. relayed' = relayed /\ k.step = "signing"
  BY DEF Sign
<1>3. CASE result \in {"declined", "changed", "zero"}
  BY <1>2, <1>3, ReceiptKeeps DEF Sign
<1>4. CASE result \notin {"declined", "changed", "zero"}
  <2>0. trip' = [trip EXCEPT ![n].step = "submitting", ![n].server = "gate", ![n].tx.valid = over]
    BY <1>4 DEF Sign
  <2>1. trip' = [trip EXCEPT ![n] = m]
    <3> HIDE DEF over
    <3>1. trip' = [q \in Trips |-> trip'[q]]
      BY <1>1, <2>0
    <3>2. trip'[n] = m
      BY <1>1, <2>0
    <3>3. \A q \in Trips : q # n => trip'[q] = trip[q]
      BY <1>1, <2>0
    <3> QED BY <1>1, <3>1, <3>2, <3>3
  <2>2. over \in Valids
    BY DEF Valids
  <2>9. k.tx \in Transactions
    BY <1>1 DEF TripType
  <2> HIDE DEF k, over
  <2>3. wire \in Transactions /\ wire.shape = k.tx.shape /\ wire.signers = k.tx.signers
    BY <2>2, <2>9 DEF Transactions
  <2> HIDE DEF wire
  <2>4. "submitting" \in PageSteps /\ "gate" \in Servers
    BY DEF PageSteps, Servers
  <2>5. m \in TripType
    BY <1>1, <2>3, <2>4 DEF TripType
  <2>6. /\ m.step = "submitting" /\ m.server = "gate" /\ m.tx = wire /\ m.answer = k.answer /\ m.sent = k.sent
        /\ m.landed = k.landed /\ m.shown = k.shown /\ m.signed = k.signed
    BY <1>1, <2>5 DEF TripType
  <2> HIDE DEF m
  <2>7. TripKept(m)
    BY <1>1, <1>2, <2>3, <2>6 DEF TripKept, Unprompted
  <2> QED BY <1>2, <2>1, <2>5, <2>7, TripStep DEF k
<1> QED BY <1>3, <1>4

\* The receipts of failures and of answers.
LEMMA ReceiptsKeep ==
  ASSUME TripInv, NEW n \in Trips,
         \/ \E answer \in PrepareAnswers : PrepareFails(n, answer)
         \/ \E p \in Preparations : Prepared(n, p) /\ ~ PreparationOk(p)
         \/ SubmitAnswered(n) \/ Unreachable(n) \/ BrowserDeadline(n) \/ OneShotAnswered(n)
  PROVE  TripInv'
<1>1. \A answer : RejectedBy(answer) \in {"deadline", "external", "service-refused", "service"}
  BY DEF RejectedBy
<1>2. CASE \E answer \in PrepareAnswers : PrepareFails(n, answer)
  <2>1. PICK answer \in PrepareAnswers : PrepareFails(n, answer)
    BY <1>2
  <2>2. Receipt(n, RejectedBy(answer)) /\ relayed' = relayed /\ trip[n].step = "preparing"
    BY <2>1 DEF PrepareFails
  <2> QED BY <1>1, <2>2, ReceiptKeeps
<1>3. CASE \E p \in Preparations : Prepared(n, p) /\ ~ PreparationOk(p)
  <2>1. Receipt(n, "service") /\ relayed' = relayed /\ trip[n].step = "preparing"
    BY <1>3 DEF Prepared
  <2> QED BY <2>1, ReceiptKeeps
<1>4. CASE SubmitAnswered(n)
  <2> DEFINE shown == IF trip[n].answer = "200" THEN "submitted" ELSE RejectedBy(trip[n].answer)
  <2>1. Receipt(n, shown) /\ relayed' = relayed /\ trip[n].step = "submitting"
    BY <1>4 DEF SubmitAnswered
  <2>2. shown \in {"deadline", "external", "service-refused", "service", "submitted"}
    BY <1>1
  <2>3. shown = "submitted" => trip[n].answer = "200"
    BY <1>1
  <2> HIDE DEF shown
  <2> QED BY <2>1, <2>2, <2>3, ReceiptKeeps
<1>5. CASE Unreachable(n)
  BY <1>5, ReceiptKeeps DEF Unreachable
<1>6. CASE BrowserDeadline(n)
  <2>1. Receipt(n, RejectedBy("timedOut")) /\ relayed' = relayed /\ trip[n].step = "oneShot"
    BY <1>6 DEF BrowserDeadline
  <2> QED BY <1>1, <2>1, ReceiptKeeps
<1>7. CASE OneShotAnswered(n)
  <2> DEFINE shown == IF trip[n].answer = "200" THEN "burned" ELSE RejectedBy(trip[n].answer)
  <2>1. Receipt(n, shown) /\ relayed' = relayed /\ trip[n].step = "oneShot"
    BY <1>7 DEF OneShotAnswered
  <2>2. shown \in {"deadline", "external", "service-refused", "service", "burned"}
    BY <1>1
  <2>3. shown = "burned" => trip[n].answer = "200"
    BY <1>1
  <2> HIDE DEF shown
  <2> QED BY <2>1, <2>2, <2>3, ReceiptKeeps
<1> QED BY <1>2, <1>3, <1>4, <1>5, <1>6, <1>7

LEMMA TripNextKeeps ==
  ASSUME TripInv, [TripNext]_tripVars
  PROVE  TripInv'
<1>1. CASE UNCHANGED tripVars
  BY <1>1 DEF tripVars, TripInv, OnlyBurnsRelayed
<1>2. CASE \E w \in Wires : Stranger(w)
  BY <1>2 DEF Stranger, Submittable, TripInv, OnlyBurnsRelayed
<1>3. ASSUME NEW n \in Trips,
             \/ \E how \in {"demo", "real"} : PressBurn(n, how)
             \/ SubmitAnswered(n) \/ Unreachable(n) \/ NeverArrives(n)
             \/ BrowserDeadline(n) \/ OneShotAnswered(n)
             \/ \E answer \in PrepareAnswers : PrepareFails(n, answer)
             \/ \E p \in Preparations : Prepared(n, p)
             \/ \E result \in SignResults : Sign(n, result)
      PROVE  TripInv'
  BY <1>3, PressKeeps, ReceiptsKeep, LostKeeps, PreparedKeeps, SignKeeps
<1>4. ASSUME NEW n \in Trips,
             \/ Gate(n) \/ ServerDeadline(n)
             \/ \E taken, told \in BOOLEAN : Submit(n, taken, told)
             \/ \E outcome \in {"200", "400", "external"} : OneShot(n, outcome)
             \/ \E how \in {"ok", "failed"} : Land(n, how)
             \/ Expire(n) \/ PollReceipt(n)
      PROVE  TripInv'
  BY <1>4, GateKeeps, DeadlineKept, SubmitKeeps, OneShotKeeps, LandKeeps, ExpireKeeps, PollKeeps
<1> QED
  BY <1>1, <1>2, <1>3, <1>4 DEF TripNext

LEMMA TripInitial == TripInit => TripInv
<1> SUFFICES ASSUME TripInit PROVE TripInv
  OBVIOUS
<1>1. NoTx \in Transactions
  <2>1. {} \in Signers /\ {} \in Valids /\ "" \in Payers /\ "" \in Shapes
    BY DEF Signers, Valids, Payers, Shapes
  <2> QED BY <2>1 DEF NoTx, Transactions
<1>2. NoTrip \in TripType
  BY <1>1 DEF NoTrip, TripType, PageSteps, Unprompted, Servers, TripAnswers, Landings, TripReceipts
<1>3. TripKept(NoTrip)
  BY DEF NoTrip, TripKept, Unprompted
<1> QED BY <1>2, <1>3 DEF TripInit, TripInv, OnlyBurnsRelayed

LEMMA TripsSound == TripInv => TripSound
  BY DEF TripInv, TripKept, TripSound, OnlyBurnsSigned, WalletAskedForBurns, ReceiptsTruthful

-----------------------------------------------------------------------------
(* Launches (Launching) *)

\* The transactions of a plan, those that commit fees, and runs of a button.
Txs        == SUBSET {"create", "validate", "atas", "share", "update"}
Shares     == {"share", "update"}
TableSteps == {"create", "extend", "activate"}
RunSteps   == {"idle", "prepare", "upload", "send"} \cup TableSteps

Pages  == [fresh : BOOLEAN, presses : Nat, image : BOOLEAN, uri : BOOLEAN]
Chains == [mint : BOOLEAN, sharing : BOOLEAN, share : Vaults \cup {"none", "other"}, prepared : SUBSET Vaults]
Runs   == [step : RunSteps, vault : Vaults \cup {""}, plan : Seq(Txs), filled : Nat]

\* A transaction that commits fees comes with or after the accounts.
Ordered(p, v, done) ==
  \A i \in 1 .. Len(p) : p[i] \cap Shares # {} => v \in done \/ \E j \in 1 .. i : "atas" \in p[j]

Creates(p) == \E i \in 1 .. Len(p) : "create" \in p[i]

\* What a run of a button holds, against the launch page and the chain.
RunKept(button, r, pg, ch) ==
  /\ r.step # "idle" => r.vault \in Vaults
  /\ r.step \in {"upload", "send"} => Len(r.plan) > 0 /\ Ordered(r.plan, r.vault, ch.prepared)
  /\ r.step \in {"upload", "send"} /\ button \in {"launch", "share"} => r.plan[Len(r.plan)] \cap Shares # {}
  /\ r.step = "send" /\ Creates(r.plan) /\ pg.image => pg.uri
  /\ r.step \in TableSteps /\ button = "launch" => ch.share = r.vault
  /\ r.step = "activate" => r.filled = Chunks
  /\ button = "table" => r.step \in {"idle"} \cup TableSteps

\* The chain: the two halves of the commitment, and what a fee share needs.
ChainKept(ch, pg) ==
  /\ ch.share \in Vaults => ch.share \in ch.prepared
  /\ ch.mint /\ pg.image => pg.uri
  /\ ch.share # "none" => ch.sharing

\* A transaction whose answer was lost may still land.
FlightKept(f, pg, ch) ==
  /\ f \in [tx : Txs, vault : Vaults]
  /\ f.tx \cap Shares # {} => "atas" \in f.tx \/ f.vault \in ch.prepared
  /\ "create" \in f.tx /\ pg.image => pg.uri

Records(share) == {r \in [vault : Vaults, feeShare : BOOLEAN] : r.feeShare => share = r.vault}

LaunchInv ==
  /\ page \in Pages /\ chain \in Chains /\ press \in [Buttons -> Runs]
  /\ remembered \in [Vaults -> {-1, Chunks}]
  /\ ChainKept(chain, page)
  /\ \A button \in Buttons : RunKept(button, press[button], page, chain)
  /\ \A f \in flying : FlightKept(f, page, chain)
  /\ saved \in Seq(Records(chain.share))

\* What never goes back.
Grows(pg, ch, pg2, ch2) ==
  /\ pg2.image = pg.image /\ (pg.uri => pg2.uri)
  /\ ch.prepared \subseteq ch2.prepared
  /\ ch.share \in Vaults => ch2.share = ch.share

LEMMA GrownRun ==
  ASSUME NEW button, NEW r, NEW pg, NEW ch, NEW pg2, NEW ch2, Grows(pg, ch, pg2, ch2), RunKept(button, r, pg, ch)
  PROVE  RunKept(button, r, pg2, ch2)
<1>1. Ordered(r.plan, r.vault, ch.prepared) => Ordered(r.plan, r.vault, ch2.prepared)
  BY DEF Grows, Ordered
<1>2. r.step \in TableSteps => r.vault \in Vaults
  BY DEF RunKept, TableSteps
<1> QED BY <1>1, <1>2 DEF Grows, RunKept

LEMMA GrownFlight ==
  ASSUME NEW f, NEW pg, NEW ch, NEW pg2, NEW ch2, Grows(pg, ch, pg2, ch2), FlightKept(f, pg, ch)
  PROVE  FlightKept(f, pg2, ch2)
  BY DEF Grows, FlightKept

LEMMA GrownRecords ==
  ASSUME NEW pg, NEW ch, NEW pg2, NEW ch2, Grows(pg, ch, pg2, ch2), NEW s \in Seq(Records(ch.share))
  PROVE  s \in Seq(Records(ch2.share))
<1>1. Records(ch.share) \subseteq Records(ch2.share)
  BY DEF Grows, Records
<1> QED BY <1>1, SeqMonotonic

\* A step that changes one run, and what it has to show for the rest.
LEMMA LaunchFrame ==
  ASSUME LaunchInv, NEW button \in Buttons, NEW r \in Runs,
         (press' = [press EXCEPT ![button] = r] /\ RunKept(button, r, page', chain')) \/ press' = press,
         page' \in Pages, chain' \in Chains, Grows(page, chain, page', chain'), ChainKept(chain', page'),
         \A f \in flying' : f \in flying \/ FlightKept(f, page', chain'),
         saved' \in Seq(Records(chain'.share)) \/ saved' = saved,
         remembered' \in [Vaults -> {-1, Chunks}] \/ remembered' = remembered
  PROVE  LaunchInv'
<1>1. \A other \in Buttons : RunKept(other, press'[other], page', chain')
  <2>1. \A other \in Buttons : RunKept(other, press[other], page', chain')
    BY GrownRun DEF LaunchInv
  <2> QED BY <2>1 DEF LaunchInv
<1>2. \A f \in flying' : FlightKept(f, page', chain')
  BY GrownFlight DEF LaunchInv
<1>3. saved' \in Seq(Records(chain'.share))
  BY GrownRecords DEF LaunchInv
<1>4. press' \in [Buttons -> Runs] /\ remembered' \in [Vaults -> {-1, Chunks}]
  BY DEF LaunchInv
<1> QED BY <1>1, <1>2, <1>3, <1>4 DEF LaunchInv

LEMMA LaunchHas ==
  ASSUME LaunchInv
  PROVE  /\ page \in Pages /\ chain \in Chains /\ ChainKept(chain, page) /\ Grows(page, chain, page, chain)
         /\ \A button \in Buttons : press[button] \in Runs /\ RunKept(button, press[button], page, chain)
  BY DEF LaunchInv, Grows

LEMMA IdleKept == Idle \in Runs /\ \A button, pg, ch : RunKept(button, Idle, pg, ch)
<1>1. Idle \in Runs
  <2>1. <<>> \in Seq(Txs) /\ "" \in Vaults \cup {""} /\ "idle" \in RunSteps /\ 0 \in Nat
    BY DEF RunSteps
  <2> QED BY <2>1 DEF Idle, Runs
<1> QED BY <1>1 DEF Idle, RunKept, TableSteps

\* The plans put the accounts first.
LEMMA PlansOrdered ==
  ASSUME NEW button \in Buttons, NEW fits \in {"atomic", "split", "no"}, PlanOf(button, fits) # <<>>
  PROVE  /\ PlanOf(button, fits) \in Seq(Txs) /\ Len(PlanOf(button, fits)) > 0
         /\ \A v, done : Ordered(PlanOf(button, fits), v, done)
         /\ button \in {"launch", "share"} => PlanOf(button, fits)[Len(PlanOf(button, fits))] \cap Shares # {}
         /\ button # "launch" => ~ Creates(PlanOf(button, fits))
<1> DEFINE P == PlanOf(button, fits)
           share == IF button = "share" /\ chain.sharing THEN "update" ELSE "share"
<1>1. share \in Shares /\ (button = "launch" => share = "share")
  BY DEF Shares
<1>2. PlanSetup(share, fits) \in {<<>>, << {share, "validate", "atas"} >>, << {"validate", "atas"}, {share, "validate"} >>}
  BY DEF PlanSetup
<1>3. button = "setup" => P = << {"validate", "atas"} >>
  BY DEF PlanOf
<1>4. button = "share" => P = PlanSetup(share, fits)
  BY DEF PlanOf
<1>5. button = "launch" => P = << {"create"} >> \o PlanSetup(share, fits) /\ PlanSetup(share, fits) # <<>>
  BY <1>1 DEF PlanOf
<1>6. button \in {"setup", "share", "launch"}
  BY DEF PlanOf, Buttons
<1> HIDE DEF P, share
<1> SUFFICES /\ P \in Seq(Txs) /\ Len(P) > 0 /\ \A v, done : Ordered(P, v, done)
             /\ button \in {"launch", "share"} => P[Len(P)] \cap Shares # {}
             /\ button # "launch" => ~ Creates(P)
  BY DEF P
<1> DEFINE A == {"validate", "atas"}
           V == {share, "validate"}
           W == {share, "validate", "atas"}
           C == {"create"}
<1>7. A \in Txs /\ V \in Txs /\ W \in Txs /\ C \in Txs
  BY <1>1 DEF Txs, Shares
<1>8. /\ A \cap Shares = {} /\ "atas" \in A /\ "create" \notin A
      /\ V \cap Shares # {} /\ "create" \notin V
      /\ W \cap Shares # {} /\ "atas" \in W /\ "create" \notin W
      /\ C \cap Shares = {}
  BY <1>1 DEF Shares
<1>9. \/ button = "setup" /\ P = <<A>>
      \/ button = "share" /\ P \in {<<W>>, <<A, V>>}
      \/ button = "launch" /\ P \in {<<C>> \o <<W>>, <<C>> \o <<A, V>>}
  <2> DEFINE Q == PlanSetup(share, fits)
  <2>1. P # <<>> /\ Q \in {<<>>, <<W>>, <<A, V>>}
    BY <1>2 DEF P
  <2>2. CASE button = "setup"
    BY <1>3, <2>2
  <2>3. CASE button = "share"
    BY <1>4, <2>1, <2>3
  <2>4. CASE button = "launch"
    <3>1. P = <<C>> \o Q /\ Q # <<>>
      BY <1>5, <2>4
    <3> HIDE DEF Q, C, W, A, V
    <3> QED BY <2>1, <2>4, <3>1
  <2> QED BY <1>6, <2>2, <2>3, <2>4
<1> HIDE DEF A, V, W, C
<1>10. CASE button = "setup" /\ P = <<A>>
  BY <1>7, <1>8, <1>10 DEF Ordered, Creates
<1>11. CASE P = <<W>>
  BY <1>7, <1>8, <1>11 DEF Ordered, Creates
<1>12. CASE P = <<A, V>>
  BY <1>7, <1>8, <1>12 DEF Ordered, Creates
<1>13. CASE button = "launch" /\ P = <<C>> \o <<W>>
  <2> DEFINE s == <<C>>
             t == <<W>>
  <2>1. s \in Seq(Txs) /\ t \in Seq(Txs) /\ Len(s) = 1 /\ Len(t) = 1 /\ s[1] = C /\ t[1] = W /\ P = s \o t
    BY <1>7, <1>13
  <2> HIDE DEF s, t
  <2>2. P \in Seq(Txs) /\ Len(P) = 2 /\ P[1] = C /\ P[2] = W
    BY <2>1, ConcatProperties
  <2> QED BY <1>8, <1>13, <2>2 DEF Ordered
<1>14. CASE button = "launch" /\ P = <<C>> \o <<A, V>>
  <2>1. <<C>> \in Seq(Txs) /\ <<A, V>> \in Seq(Txs) /\ Len(<<C>>) = 1 /\ Len(<<A, V>>) = 2
    BY <1>7
  <2>2. P \in Seq(Txs) /\ Len(P) = 3 /\ P[1] = C /\ P[2] = A /\ P[3] = V
    BY <1>14, <2>1, ConcatProperties
  <2> QED BY <1>8, <1>14, <2>2 DEF Ordered
<1> QED BY <1>9, <1>10, <1>11, <1>12, <1>13, <1>14

\* Dropping a record from the saved ones invents none.
LEMMA OthersKept ==
  ASSUME NEW S, saved \in Seq(S), NEW v
  PROVE  OtherRecords(v) \in Seq(S)
<1> DEFINE places == {i \in DOMAIN saved : saved[i].vault = v}
           k == CHOOSE i \in places : TRUE
<1>1. CASE places = {}
  BY <1>1 DEF OtherRecords
<1>2. CASE places # {}
  <2>1. OtherRecords(v) = SubSeq(saved, 1, k - 1) \o SubSeq(saved, k + 1, Len(saved))
    BY <1>2 DEF OtherRecords
  <2>6. Len(saved) \in Nat /\ k \in 1 .. Len(saved)
    BY <1>2, LenProperties
  <2> HIDE DEF k
  <2>7. \A i \in 1 .. Len(saved) : saved[i] \in S
    BY ElementOfSeq
  <2>8. SubSeq(saved, 1, k - 1) \in Seq(S)
    <3>1. \A i \in 1 .. k - 1 : saved[i] \in S
      BY <2>6, <2>7
    <3> QED BY <2>6, <3>1, SubSeqProperties
  <2>9. SubSeq(saved, k + 1, Len(saved)) \in Seq(S)
    <3>1. \A i \in k + 1 .. Len(saved) : saved[i] \in S
      BY <2>6, <2>7
    <3> QED BY <2>6, <3>1, SubSeqProperties
  <2> QED BY <2>1, <2>8, <2>9, ConcatProperties
<1> QED BY <1>1, <1>2

\* What landing does for the rest.
LEMMA LandingGrows ==
  ASSUME LaunchInv, NEW tx \in Txs, NEW v \in Vaults, Takes(tx), Landed(tx, v),
         tx \cap Shares # {} => "atas" \in tx \/ v \in chain.prepared,
         "create" \in tx /\ page.image => page.uri
  PROVE  /\ chain' \in Chains
         /\ tx \cap Shares # {} => chain'.share = v
         /\ "atas" \in tx => v \in chain'.prepared
         /\ \A pg : pg.image = page.image /\ pg.uri = page.uri =>
                ChainKept(chain', pg) /\ Grows(page, chain, pg, chain')
<1>1. page \in Pages /\ chain \in Chains /\ ChainKept(chain, page) /\ "none" \notin Vaults
  BY LaunchHas, LaunchConstants
<1> DEFINE shares == tx \cap Shares # {}
<1>2. chain' = [mint     |-> chain.mint \/ "create" \in tx,
                sharing  |-> chain.sharing \/ shares,
                share    |-> IF shares THEN v ELSE chain.share,
                prepared |-> chain.prepared \cup (IF "atas" \in tx THEN {v} ELSE {})]
  BY DEF Landed, Shares
<1>3. shares => chain.share = "none"
  BY <1>1 DEF Takes, Shares, ChainKept
<1>4. shares \in BOOLEAN /\ ("create" \in tx) \in BOOLEAN
  OBVIOUS
<1>5. /\ chain'.mint = (chain.mint \/ "create" \in tx) /\ chain'.sharing = (chain.sharing \/ shares)
      /\ chain'.share = (IF shares THEN v ELSE chain.share)
      /\ chain'.prepared = chain.prepared \cup (IF "atas" \in tx THEN {v} ELSE {})
  BY <1>2
<1>6. chain' \in Chains
  <2>1. (chain.mint \/ "create" \in tx) \in BOOLEAN /\ (chain.sharing \/ shares) \in BOOLEAN
    BY <1>1, <1>4 DEF Chains
  <2>2. (IF shares THEN v ELSE chain.share) \in Vaults \cup {"none", "other"}
    BY <1>1 DEF Chains
  <2>3. chain.prepared \cup (IF "atas" \in tx THEN {v} ELSE {}) \in SUBSET Vaults
    BY <1>1 DEF Chains
  <2> QED BY <1>2, <2>1, <2>2, <2>3 DEF Chains
<1> HIDE DEF shares
<1>7. shares => "atas" \in tx \/ v \in chain.prepared
  BY DEF shares
<1>8. ASSUME NEW pg, pg.image = page.image, pg.uri = page.uri
      PROVE  ChainKept(chain', pg) /\ Grows(page, chain, pg, chain')
  <2>1. Grows(page, chain, pg, chain')
    BY <1>1, <1>3, <1>5, <1>8 DEF Grows
  <2>2. chain'.share \in Vaults => chain'.share \in chain'.prepared
    BY <1>1, <1>5, <1>7 DEF ChainKept
  <2>3. chain'.mint /\ pg.image => pg.uri
    BY <1>1, <1>5, <1>8 DEF ChainKept
  <2>4. chain'.share # "none" => chain'.sharing
    BY <1>1, <1>5 DEF ChainKept
  <2> QED BY <2>1, <2>2, <2>3, <2>4 DEF ChainKept
<1> QED BY <1>5, <1>6, <1>8 DEF shares

\* The first transaction of a plan, and what is left after it.
LEMMA NextOfPlan ==
  ASSUME NEW p \in Seq(Txs), Len(p) > 0, NEW v, NEW done, Ordered(p, v, done)
  PROVE  /\ Head(p) \in Txs
         /\ Head(p) \cap Shares # {} => "atas" \in Head(p) \/ v \in done
         /\ "create" \in Head(p) => Creates(p)
         /\ Len(p) = 1 => Head(p) = p[Len(p)]
         /\ Len(p) # 1 =>
              /\ Tail(p) \in Seq(Txs) /\ Len(Tail(p)) > 0 /\ Tail(p)[Len(Tail(p))] = p[Len(p)]
              /\ Creates(Tail(p)) => Creates(p)
              /\ \A later : done \subseteq later /\ ("atas" \in Head(p) => v \in later) => Ordered(Tail(p), v, later)
<1>1. Len(p) \in Nat /\ p # <<>>
  BY LenProperties
<1>2. Head(p) = p[1] /\ Head(p) \in Txs
  BY <1>1, HeadTailProperties
<1>3. Head(p) \cap Shares # {} => "atas" \in Head(p) \/ v \in done
  BY <1>1, <1>2 DEF Ordered
<1>4. "create" \in Head(p) => Creates(p)
  BY <1>1, <1>2 DEF Creates
<1>5. ASSUME Len(p) # 1
      PROVE  /\ Tail(p) \in Seq(Txs) /\ Len(Tail(p)) > 0 /\ Tail(p)[Len(Tail(p))] = p[Len(p)]
             /\ Creates(Tail(p)) => Creates(p)
             /\ \A later : done \subseteq later /\ ("atas" \in Head(p) => v \in later) => Ordered(Tail(p), v, later)
  <2> DEFINE t == Tail(p)
  <2>1. t \in Seq(Txs) /\ Len(t) = Len(p) - 1 /\ \A i \in 1 .. Len(t) : t[i] = p[i + 1]
    BY <1>1, HeadTailProperties
  <2> HIDE DEF t
  <2>2. Len(t) > 0 /\ t[Len(t)] = p[Len(p)]
    BY <1>1, <1>5, <2>1
  <2>3. Creates(t) => Creates(p)
    BY <1>1, <2>1 DEF Creates
  <2>4. ASSUME NEW later, done \subseteq later, "atas" \in Head(p) => v \in later
        PROVE  Ordered(t, v, later)
    <3>1. ASSUME NEW i \in 1 .. Len(t), t[i] \cap Shares # {}, v \notin later
          PROVE  \E j \in 1 .. i : "atas" \in t[j]
      <4>1. i + 1 \in 1 .. Len(p) /\ p[i + 1] \cap Shares # {} /\ v \notin done
        BY <1>1, <2>1, <2>4, <3>1
      <4>2. PICK j \in 1 .. i + 1 : "atas" \in p[j]
        BY <4>1 DEF Ordered
      <4>3. j # 1
        BY <1>2, <2>4, <3>1, <4>2
      <4>4. j - 1 \in 1 .. i /\ t[j - 1] = p[j]
        BY <1>1, <2>1, <3>1, <4>2, <4>3
      <4> QED BY <4>2, <4>4
    <3> QED BY <3>1 DEF Ordered
  <2> QED BY <2>1, <2>2, <2>3, <2>4 DEF t
<1> QED BY <1>1, <1>2, <1>3, <1>4, <1>5

\* A record that is saved is true of a chain with that share.
LEMMA SaveKept ==
  ASSUME NEW share, saved \in Seq(Records(share)), NEW v \in Vaults, NEW feeShare \in BOOLEAN,
         feeShare => share = v, Save(v, feeShare)
  PROVE  saved' \in Seq(Records(share))
<1> DEFINE S == Records(share)
           first == <<[vault |-> v, feeShare |-> feeShare]>>
           next == first \o OtherRecords(v)
           n == IF Len(next) < SavedMax THEN Len(next) ELSE SavedMax
<1>1. first \in Seq(S)
  BY DEF Records
<1>2. OtherRecords(v) \in Seq(S)
  BY OthersKept
<1> HIDE DEF first, S
<1>3. next \in Seq(S)
  BY <1>1, <1>2, ConcatProperties
<1>4. saved' = SubSeq(next, 1, n)
  BY DEF Save, first
<1> HIDE DEF next
<1>5. Len(next) \in Nat /\ n \in Int /\ n <= Len(next)
  BY <1>3, LenProperties, LaunchConstants
<1> HIDE DEF n
<1>6. \A i \in 1 .. n : next[i] \in S
  BY <1>3, <1>5, ElementOfSeq
<1>7. SubSeq(next, 1, n) \in Seq(S)
  BY <1>5, <1>6, SubSeqProperties
<1> QED BY <1>4, <1>7 DEF S

LEMMA Stepped ==
  ASSUME NEW r \in Runs, NEW s \in RunSteps
  PROVE  /\ [r EXCEPT !.step = s] \in Runs
         /\ [r EXCEPT !.step = s].step = s /\ [r EXCEPT !.step = s].vault = r.vault
         /\ [r EXCEPT !.step = s].plan = r.plan /\ [r EXCEPT !.step = s].filled = r.filled
  BY DEF Runs

LEMMA LaunchPressKept ==
  ASSUME LaunchInv, NEW button \in Buttons, NEW v \in Vaults, Press(button, v)
  PROVE  LaunchInv'
<1> DEFINE step == IF button = "table" THEN "create" ELSE "prepare"
           r == [Idle EXCEPT !.step = step, !.vault = v]
<1>1. /\ r \in Runs /\ r.step = step /\ r.vault = v
  <2>1. step \in RunSteps /\ v \in Vaults \cup {""}
    BY DEF RunSteps, TableSteps
  <2> HIDE DEF step
  <2> QED BY <2>1, IdleKept DEF Runs
<1>2. press' = [press EXCEPT ![button] = r] /\ chain' = chain /\ flying' = flying /\ saved' = saved /\ remembered' = remembered
  BY DEF Press
<1> HIDE DEF r
<1>3. page' \in Pages /\ page'.image = page.image /\ page'.uri = page.uri
  BY LaunchHas DEF Press, Pages
<1>4. RunKept(button, r, page', chain')
  BY <1>1 DEF RunKept, TableSteps, Buttons
<1> QED BY <1>1, <1>2, <1>3, <1>4, LaunchHas, LaunchFrame DEF Grows, ChainKept

LEMMA PrepareKept ==
  ASSUME LaunchInv, NEW button \in Buttons, NEW fits \in {"atomic", "split", "no"}, Prepare(button, fits)
  PROVE  LaunchInv'
<1>1. page' = page /\ chain' = chain /\ flying' = flying /\ saved' = saved /\ remembered' = remembered
  BY DEF Prepare
<1>2. CASE PlanOf(button, fits) = <<>>
  <2>1. press' = [press EXCEPT ![button] = Idle]
    BY <1>2 DEF Prepare
  <2> QED BY <1>1, <2>1, IdleKept, LaunchHas, LaunchFrame
<1>3. CASE PlanOf(button, fits) # <<>>
  <2> DEFINE p == PlanOf(button, fits)
             step == IF button = "launch" /\ page.image THEN "upload" ELSE "send"
             r == [press[button] EXCEPT !.plan = p, !.step = step]
  <2>1. /\ p \in Seq(Txs) /\ Len(p) > 0 /\ \A v, done : Ordered(p, v, done)
        /\ button \in {"launch", "share"} => p[Len(p)] \cap Shares # {}
        /\ button # "launch" => ~ Creates(p)
    BY <1>3, PlansOrdered
  <2>2. press' = [press EXCEPT ![button] = r] /\ press[button].step = "prepare"
    BY <1>3, LaunchHas DEF Prepare, LaunchInv
  <2> HIDE DEF p
  <2>3. r \in Runs /\ r.step = step /\ r.plan = p /\ r.vault = press[button].vault
    BY <2>1, LaunchHas DEF Runs, RunSteps
  <2> HIDE DEF r
  <2>4. RunKept(button, press[button], page, chain) /\ button # "table"
    BY <2>2, LaunchHas DEF RunKept, TableSteps
  <2>5. RunKept(button, r, page, chain)
    BY <2>1, <2>2, <2>3, <2>4 DEF RunKept, TableSteps
  <2> QED BY <1>1, <2>2, <2>3, <2>5, LaunchHas, LaunchFrame
<1> QED BY <1>2, <1>3

LEMMA UploadKept ==
  ASSUME LaunchInv, NEW ok \in BOOLEAN, Upload(ok)
  PROVE  LaunchInv'
<1>1. chain' = chain /\ flying' = flying /\ saved' = saved /\ remembered' = remembered /\ "launch" \in Buttons
  BY DEF Upload, Buttons
<1>2. CASE ~ ok
  <2>1. press' = [press EXCEPT !["launch"] = Idle] /\ page' = page
    BY <1>2 DEF Upload
  <2> QED BY <1>1, <2>1, IdleKept, LaunchHas, LaunchFrame
<1>3. CASE ok
  <2> DEFINE k == press["launch"]
             r == [k EXCEPT !.step = "send"]
  <2>1. /\ k \in Runs /\ RunKept("launch", k, page, chain) /\ k.step = "upload"
    BY <1>1, LaunchHas DEF Upload
  <2>2. press' = [press EXCEPT !["launch"] = r] /\ page' = [page EXCEPT !.uri = TRUE]
    BY <1>3, LaunchHas DEF Upload, To, LaunchInv
  <2>3. page' \in Pages /\ page'.uri /\ page'.image = page.image
    BY <2>2, LaunchHas DEF Pages
  <2>4. r \in Runs /\ r.step = "send" /\ r.plan = k.plan /\ r.vault = k.vault
    BY <2>1, Stepped DEF RunSteps
  <2> HIDE DEF k, r
  <2>5. RunKept("launch", r, page', chain')
    BY <1>1, <2>1, <2>3, <2>4 DEF RunKept, TableSteps
  <2> QED BY <1>1, <2>2, <2>3, <2>4, <2>5, LaunchHas, LaunchFrame DEF Grows, ChainKept
<1> QED BY <1>2, <1>3

LEMMA BreaksKept ==
  ASSUME LaunchInv, NEW button \in Buttons, NEW lost \in BOOLEAN, Breaks(button, lost)
  PROVE  LaunchInv'
<1> DEFINE k == press[button]
           f == [tx |-> Head(k.plan), vault |-> k.vault]
<1>1. press' = [press EXCEPT ![button] = Idle] /\ page' = page /\ chain' = chain /\ saved' = saved /\ remembered' = remembered
  BY DEF Breaks
<1>2. k \in Runs /\ RunKept(button, k, page, chain) /\ k.step = "send" /\ flying' \subseteq flying \cup {f}
  BY LaunchHas DEF Breaks
<1>3. FlightKept(f, page, chain)
  <2>1. k.plan \in Seq(Txs) /\ Len(k.plan) > 0 /\ Ordered(k.plan, k.vault, chain.prepared) /\ k.vault \in Vaults
        /\ (Creates(k.plan) /\ page.image => page.uri)
    BY <1>2 DEF RunKept, Runs
  <2>2. /\ Head(k.plan) \in Txs /\ ("create" \in Head(k.plan) => Creates(k.plan))
        /\ Head(k.plan) \cap Shares # {} => "atas" \in Head(k.plan) \/ k.vault \in chain.prepared
    BY <2>1, NextOfPlan
  <2> HIDE DEF k
  <2> QED BY <2>1, <2>2 DEF FlightKept
<1> HIDE DEF f, k
<1> QED BY <1>1, <1>2, <1>3, IdleKept, LaunchHas, LaunchFrame

LEMMA LandsLateKept ==
  ASSUME LaunchInv, NEW f \in flying, LandsLate(f)
  PROVE  LaunchInv'
<1>1. f \in [tx : Txs, vault : Vaults] /\ FlightKept(f, page, chain)
  BY DEF LaunchInv, FlightKept
<1>2. /\ chain' \in Chains
      /\ \A pg : pg.image = page.image /\ pg.uri = page.uri => ChainKept(chain', pg) /\ Grows(page, chain, pg, chain')
  BY <1>1, LandingGrows DEF LandsLate, FlightKept
<1>3. page' = page /\ press' = press /\ saved' = saved /\ remembered' = remembered /\ flying' \subseteq flying
  BY DEF LandsLate
<1>4. "launch" \in Buttons
  BY DEF Buttons
<1> QED BY <1>2, <1>3, <1>4, IdleKept, LaunchHas, LaunchFrame

LEMMA ToldKept ==
  ASSUME LaunchInv, NEW button \in Buttons, Told(button)
  PROVE  LaunchInv'
<1> DEFINE k == press[button]
           tx == Head(k.plan)
<1>1. k \in Runs /\ RunKept(button, k, page, chain) /\ k.step = "send" /\ page \in Pages
  BY LaunchHas DEF Told
<1>2. /\ k.plan \in Seq(Txs) /\ Len(k.plan) > 0 /\ Ordered(k.plan, k.vault, chain.prepared) /\ k.vault \in Vaults
      /\ (Creates(k.plan) /\ page.image => page.uri)
      /\ (button \in {"launch", "share"} => k.plan[Len(k.plan)] \cap Shares # {}) /\ button # "table"
  BY <1>1 DEF RunKept, Runs, TableSteps
<1>3. /\ tx \in Txs /\ ("create" \in tx => Creates(k.plan))
      /\ tx \cap Shares # {} => "atas" \in tx \/ k.vault \in chain.prepared
      /\ Len(k.plan) = 1 => tx = k.plan[Len(k.plan)]
      /\ Len(k.plan) # 1 =>
              /\ Tail(k.plan) \in Seq(Txs) /\ Len(Tail(k.plan)) > 0 /\ Tail(k.plan)[Len(Tail(k.plan))] = k.plan[Len(k.plan)]
              /\ Creates(Tail(k.plan)) => Creates(k.plan)
              /\ \A later : chain.prepared \subseteq later /\ ("atas" \in tx => k.vault \in later) => Ordered(Tail(k.plan), k.vault, later)
  BY <1>2, NextOfPlan
<1>4. flying' = flying /\ remembered' = remembered /\ Takes(tx) /\ Landed(tx, k.vault)
  BY DEF Told
<1> HIDE DEF tx
<1>5. /\ chain' \in Chains
      /\ tx \cap Shares # {} => chain'.share = k.vault
      /\ "atas" \in tx => k.vault \in chain'.prepared
      /\ \A pg : pg.image = page.image /\ pg.uri = page.uri => ChainKept(chain', pg) /\ Grows(page, chain, pg, chain')
  BY <1>2, <1>3, <1>4, LandingGrows
<1>6. CASE Len(k.plan) # 1
  <2> DEFINE r == [k EXCEPT !.plan = Tail(@)]
  <2>1. press' = [press EXCEPT ![button] = r] /\ page' = page /\ saved' = saved
    BY <1>6, LaunchHas DEF Told, LaunchInv
  <2> HIDE DEF k
  <2>2. r \in Runs /\ r.step = "send" /\ r.plan = Tail(k.plan) /\ r.vault = k.vault
    BY <1>1, <1>3, <1>6 DEF Runs
  <2> HIDE DEF r
  <2>3. Ordered(r.plan, r.vault, chain'.prepared)
    BY <1>3, <1>5, <1>6, <2>2 DEF Grows
  <2>4. RunKept(button, r, page', chain')
    BY <1>2, <1>3, <1>6, <2>1, <2>2, <2>3 DEF RunKept, TableSteps
  <2> QED BY <1>1, <1>4, <1>5, <2>1, <2>2, <2>4, LaunchFrame
<1>7. CASE Len(k.plan) = 1
  <2> DEFINE wide == k.vault \in ThreeLegged /\ button # "share"
  <2>1. AfterPlan(button)
    BY <1>7 DEF Told
  <2>2. button \in {"launch", "share"} => chain'.share = k.vault
    BY <1>2, <1>3, <1>5, <1>7
  <2>3. saved' \in Seq(Records(chain'.share))
    <3>1. saved \in Seq(Records(chain'.share))
      BY <1>5, GrownRecords DEF LaunchInv
    <3>2. CASE button # "launch" \/ ~ wide
      <4>1. Save(k.vault, button # "setup")
        BY <2>1, <3>2 DEF AfterPlan
      <4>2. button # "setup" => chain'.share = k.vault
        BY <1>2, <2>2 DEF Buttons
      <4>3. (button # "setup") \in BOOLEAN
        OBVIOUS
      <4> QED BY <1>2, <3>1, <4>1, <4>2, <4>3, SaveKept
    <3>3. CASE button = "launch" /\ wide
      BY <2>1, <3>1, <3>3 DEF AfterPlan
    <3> QED BY <3>2, <3>3
  <2>4. CASE wide
    <3> DEFINE r == [k EXCEPT !.step = "create"]
    <3>1. press' = [press EXCEPT ![button] = r] /\ page' = page
      BY <2>1, <2>4, LaunchHas DEF AfterPlan, To, LaunchInv
    <3> HIDE DEF k
    <3>2. r \in Runs /\ r.step = "create" /\ r.vault = k.vault
      BY <1>1, Stepped DEF RunSteps, TableSteps
    <3> HIDE DEF r
    <3>3. RunKept(button, r, page', chain')
      BY <1>2, <2>2, <3>2 DEF RunKept, TableSteps
    <3> QED BY <1>1, <1>4, <1>5, <2>3, <3>1, <3>2, <3>3, LaunchFrame
  <2>5. CASE ~ wide
    <3>1. press' = [press EXCEPT ![button] = Idle] /\ page' = [page EXCEPT !.fresh = @ /\ button # "launch"]
      BY <2>1, <2>5 DEF AfterPlan, Over
    <3>2. page' \in Pages /\ page'.image = page.image /\ page'.uri = page.uri
      BY <1>1, <3>1 DEF Pages
    <3> QED BY <1>4, <1>5, <2>3, <3>1, <3>2, IdleKept, LaunchFrame
  <2> QED BY <2>4, <2>5
<1> QED BY <1>6, <1>7

LEMMA FillKept ==
  ASSUME LaunchInv, NEW button \in Buttons, FillTable(button)
  PROVE  LaunchInv'
<1> DEFINE k == press[button]
           filled == IF k.step = "extend" THEN k.filled + 1 ELSE 0
           step == IF k.step = "extend" /\ k.filled + 1 = Chunks THEN "activate" ELSE "extend"
           r == [k EXCEPT !.filled = filled, !.step = step]
<1>1. k \in Runs /\ RunKept(button, k, page, chain) /\ k.step \in {"create", "extend"}
  BY LaunchHas DEF FillTable
<1>2. press' = [press EXCEPT ![button] = r]
  BY LaunchHas DEF FillTable, LaunchInv
<1>3. page' = page /\ chain' = chain /\ flying' = flying /\ saved' = saved /\ remembered' = remembered
  BY DEF FillTable
<1> HIDE DEF k
<1>4. filled \in Nat /\ step \in RunSteps
  <2>1. k.filled \in Nat
    BY <1>1 DEF Runs
  <2> QED BY <2>1 DEF RunSteps, TableSteps
<1>5. step \in {"extend", "activate"} /\ (step = "activate" => filled = Chunks)
  OBVIOUS
<1> HIDE DEF filled, step
<1>6. r \in Runs /\ r.step = step /\ r.filled = filled /\ r.vault = k.vault
  BY <1>1, <1>4 DEF Runs
<1> HIDE DEF r
<1>7. RunKept(button, r, page, chain)
  BY <1>1, <1>5, <1>6 DEF RunKept, TableSteps
<1> QED BY <1>2, <1>3, <1>6, <1>7, LaunchHas, LaunchFrame

LEMMA TableKept ==
  ASSUME LaunchInv, NEW button \in Buttons, RememberTable(button) \/ GiveUpTable(button)
  PROVE  LaunchInv'
<1> DEFINE k == press[button]
<1>1. k \in Runs /\ RunKept(button, k, page, chain) /\ k.step \in TableSteps /\ AfterTable(button)
  BY LaunchHas DEF RememberTable, GiveUpTable, TableSteps
<1>2. /\ press' = [press EXCEPT ![button] = Idle] /\ page' = [page EXCEPT !.fresh = @ /\ button # "launch"]
      /\ chain' = chain /\ flying' = flying
  BY DEF RememberTable, GiveUpTable, AfterTable, Over
<1>3. (remembered' = [remembered EXCEPT ![k.vault] = k.filled] /\ k.step = "activate") \/ remembered' = remembered
  BY DEF RememberTable, GiveUpTable
<1>4. IF button = "launch" THEN Save(k.vault, TRUE) ELSE saved' = saved
  BY <1>1 DEF AfterTable
<1> HIDE DEF k
<1>5. remembered' \in [Vaults -> {-1, Chunks}]
  BY <1>1, <1>3 DEF LaunchInv, RunKept
<1>6. saved' \in Seq(Records(chain'.share)) \/ saved' = saved
  <2>1. button = "launch" => chain.share = k.vault /\ k.vault \in Vaults
    BY <1>1 DEF RunKept, TableSteps
  <2>2. saved \in Seq(Records(chain.share))
    BY DEF LaunchInv
  <2> QED BY <1>2, <1>4, <2>1, <2>2, SaveKept
<1>7. page' \in Pages /\ page'.image = page.image /\ page'.uri = page.uri
  BY <1>2, LaunchHas DEF Pages
<1> QED BY <1>2, <1>5, <1>6, <1>7, IdleKept, LaunchHas, LaunchFrame DEF Grows, ChainKept

LEMMA OtherStepsKept ==
  ASSUME LaunchInv, Reload \/ (\E v \in Vaults : Edit(v) \/ Forget(v)) \/ \E v \in {"none", "other"} : ShareElsewhere(v)
  PROVE  LaunchInv'
<1>1. CASE Reload
  <2>1. /\ press' = [button \in Buttons |-> Idle] /\ page' = [page EXCEPT !.fresh = FALSE]
        /\ chain' = chain /\ flying' = flying /\ saved' = saved /\ remembered' = remembered
    BY <1>1 DEF Reload
  <2>2. page' \in Pages /\ page'.image = page.image /\ page'.uri = page.uri
    BY <2>1, LaunchHas DEF Pages
  <2>3. Grows(page, chain, page', chain') /\ ChainKept(chain', page')
    BY <2>1, <2>2, LaunchHas DEF Grows, ChainKept
  <2>4. \A f \in flying' : FlightKept(f, page', chain')
    BY <2>1, <2>3, GrownFlight DEF LaunchInv
  <2> QED BY <2>1, <2>2, <2>3, <2>4, IdleKept DEF LaunchInv
<1>2. CASE \E v \in Vaults : Edit(v)
  BY <1>2 DEF Edit, LaunchInv
<1>3. CASE \E v \in Vaults : Forget(v)
  <2>1. PICK v \in Vaults : Forget(v)
    BY <1>3
  <2>2. saved' \in Seq(Records(chain.share))
    BY <2>1, OthersKept DEF Forget, LaunchInv
  <2> QED BY <2>1, <2>2 DEF Forget, LaunchInv
<1>4. CASE \E v \in {"none", "other"} : ShareElsewhere(v)
  <2>1. PICK v \in {"none", "other"} : ShareElsewhere(v)
    BY <1>4
  <2>2. /\ page' = page /\ press' = press /\ flying' = flying /\ saved' = saved /\ remembered' = remembered
        /\ chain.share = "none" /\ chain' = [chain EXCEPT !.sharing = TRUE, !.share = v]
    BY <2>1 DEF ShareElsewhere
  <2>3. chain' \in Chains /\ chain'.mint = chain.mint /\ chain'.prepared = chain.prepared /\ chain'.sharing /\ chain'.share = v
    BY <2>2, LaunchHas DEF Chains
  <2>4. v \notin Vaults /\ "none" \notin Vaults
    BY LaunchConstants
  <2>5. Grows(page, chain, page', chain') /\ ChainKept(chain', page')
    BY <2>2, <2>3, <2>4, LaunchHas DEF Grows, ChainKept
  <2>6. "launch" \in Buttons
    BY DEF Buttons
  <2> QED BY <2>2, <2>3, <2>5, <2>6, IdleKept, LaunchHas, LaunchFrame
<1> QED BY <1>1, <1>2, <1>3, <1>4

LEMMA LaunchNextKept ==
  ASSUME LaunchInv, [LaunchNext]_launchVars
  PROVE  LaunchInv'
<1>1. CASE UNCHANGED launchVars
  BY <1>1 DEF launchVars, LaunchInv
<1>2. CASE LaunchNext
  BY <1>2, LaunchPressKept, PrepareKept, ToldKept, BreaksKept, FillKept, TableKept, UploadKept, LandsLateKept, OtherStepsKept DEF LaunchNext
<1> QED BY <1>1, <1>2

LEMMA LaunchInitial == LaunchInit => LaunchInv
<1> SUFFICES ASSUME LaunchInit PROVE LaunchInv
  OBVIOUS
<1>1. page \in Pages /\ (page.image => page.fresh)
  BY DEF LaunchInit, Pages
<1>2. chain = [mint |-> ~ page.fresh, sharing |-> FALSE, share |-> "none", prepared |-> {}] /\ (~ page.fresh) \in BOOLEAN
  BY DEF LaunchInit
<1>3. chain \in Chains /\ chain.share = "none" /\ chain.mint = ~ page.fresh
  BY <1>2 DEF Chains
<1>4. press \in [Buttons -> Runs] /\ \A button \in Buttons : RunKept(button, press[button], page, chain)
  BY IdleKept DEF LaunchInit
<1>5. remembered \in [Vaults -> {-1, Chunks}] /\ saved = <<>> /\ flying = {}
  BY DEF LaunchInit
<1>6. ChainKept(chain, page)
  BY <1>1, <1>3, LaunchConstants DEF ChainKept
<1> QED BY <1>1, <1>3, <1>4, <1>5, <1>6 DEF LaunchInv

LEMMA LaunchTold == LaunchInv => LaunchKept
<1> SUFFICES ASSUME LaunchInv PROVE LaunchKept
  OBVIOUS
<1>1. CommittedIsPrepared
  BY DEF LaunchInv, ChainKept, CommittedIsPrepared
<1>2. \A i \in DOMAIN saved : saved[i] \in Records(chain.share)
  BY ElementOfSeq, LenProperties DEF LaunchInv
<1>3. BrowserTellsTruth
  BY <1>2 DEF LaunchInv, Records, BrowserTellsTruth
<1> QED BY <1>1, <1>3 DEF LaunchKept

-----------------------------------------------------------------------------
(* A burn being built (BurnBuild) *)

BuildKeys ==
  {"step", "request", "floors", "attempt", "capStart", "rung", "excluded", "cashback", "legs", "curves",
   "hash", "code", "tried", "fresh", "paidBack"}

\* What was checked in a stage stays checked in the later ones.
PastFloors  == {"vault", "targets", "quote", "simulate", "height"}
PastVault   == PastFloors \ {"vault"}
PastTargets == PastVault \ {"targets"}

FloorOf(i) == ProgramFloor(TargetOf(i), AmountOf(i))

BuildTyped ==
  /\ market \in MarketType /\ DOMAIN build = BuildKeys
  /\ build.step \in {"idle", "refused", "resolve", "prepared", "tooLarge", "failed"} \cup PastFloors
  /\ build.step # "idle" => Request \in Requests
  /\ build.fresh \in BOOLEAN
  /\ build.attempt \in 0 .. Retries
  /\ build.capStart \in 0 .. Rungs /\ build.rung \in build.capStart .. Rungs

\* On a chain that stood still the program accepts what the service has checked.
Preflighted ==
  /\ build.step \in PastFloors =>
       \A i \in BuildLegs :
         /\ build.floors[i] \in Int
         /\ build.fresh => build.floors[i] = FloorOf(i) /\ FloorOf(i) # Refusal /\ AmountOf(i) # 0
  /\ build.step \in PastVault /\ build.fresh => VaultAdmitted
  /\ build.step \in PastTargets /\ build.fresh =>
       \A i \in BuildLegs : market.mintOk[TargetOf(i)] /\ market.ata[TargetOf(i)]

\* The legs of a measured transaction: none promises less than its floor, and
\* none whose venues were excluded goes through Pump.
Measured ==
  build.step = "simulate" =>
    /\ build.rung < Rungs
    /\ \A i \in BuildLegs : /\ ~ (build.legs[i].minimum < build.floors[i])
                            /\ build.legs[i].pump /\ ~ IsCurve(i) => i \notin build.excluded

\* What was refused for its cashback is excluded, and the ladder leaves nothing out.
Purposeful ==
  /\ build.cashback => build.paidBack \subseteq build.excluded
  /\ build.step \in {"idle", "resolve", "vault", "targets", "quote"} => build.tried = build.capStart .. build.rung - 1
  /\ build.code # "" => build.step = "failed"

BuildInv == BuildTyped /\ Preflighted /\ Measured /\ Purposeful /\ PreflightComplete /\ RetriesPurposeful

\* The fields of the chain that the properties read are as they were.
ChainStays ==
  /\ market'.sol = market.sol /\ market'.vault = market.vault /\ market'.wsol = market.wsol
  /\ market'.rate = market.rate /\ market'.cap = market.cap
  /\ market'.mintOk = market.mintOk /\ market'.ata = market.ata /\ market'.table = market.table

LEMMA RequestStays ==
  ASSUME build'.request = build.request
  PROVE  /\ Request' = Request /\ BuildLegs' = BuildLegs
         /\ \A i : TargetOf(i)' = TargetOf(i) /\ AmountOf(i)' = AmountOf(i)
  BY DEF Request, BuildLegs, TargetOf, AmountOf, LegAmount, Allocated, Share

LEMMA ReadsStay ==
  ASSUME build'.request = build.request, ChainStays
  PROVE  /\ \A i : FloorOf(i)' = FloorOf(i)
         /\ VaultAdmitted' = VaultAdmitted /\ VaultAltCovers' = VaultAltCovers
<1>1. \A i : FloorOf(i)' = FloorOf(i)
  <2> SUFFICES ASSUME NEW i PROVE FloorOf(i)' = FloorOf(i)
    OBVIOUS
  <2>1. TargetOf(i)' = TargetOf(i) /\ AmountOf(i)' = AmountOf(i)
    BY RequestStays
  <2> QED BY <2>1 DEF FloorOf, ProgramFloor, ChainStays
<1>2. Request' = Request
  BY RequestStays
<1> QED BY <1>1, <1>2 DEF VaultAdmitted, VaultAltCovers, ChainStays

\* A share, and with it a leg's amount and floor, is a number.
LEMMA SharesAreNumbers ==
  ASSUME NEW total \in Nat, NEW bps \in Nat
  PROVE  Share(total, bps) \in Nat
<1>1. total \div BPS_TOTAL \in Nat /\ total % BPS_TOTAL \in Nat
  BY BpsAssumption
<1> DEFINE parts == (total % BPS_TOTAL) * bps
           whole == (total \div BPS_TOTAL) * bps
<1>2. parts \in Nat /\ whole \in Nat
  BY <1>1
<1> HIDE DEF parts, whole
<1>3. parts \div BPS_TOTAL \in Nat
  BY <1>2, BpsAssumption
<1> QED BY <1>2, <1>3 DEF Share, parts, whole

LEMMA FloorsAreNumbers ==
  ASSUME BuildTyped, build.step # "idle", NEW i \in BuildLegs
  PROVE  /\ AmountOf(i) \in Int /\ FloorOf(i) \in Int
         /\ TargetOf(i) \in Targets
<1>1. /\ Request.amount \in Nat /\ Request.weights \in Seq(Nat)
      /\ Request.targets \in Seq(Targets) /\ Len(Request.targets) = Len(Request.weights)
  BY BuildConstants DEF BuildTyped
<1>2. i \in 1 .. Len(Request.weights)
  BY <1>1 DEF BuildLegs
<1>3. \A j \in 1 .. i : Share(Request.amount, Request.weights[j]) \in Nat
  <2> SUFFICES ASSUME NEW j \in 1 .. i PROVE Share(Request.amount, Request.weights[j]) \in Nat
    OBVIOUS
  <2>1. Request.weights[j] \in Nat
    BY <1>1, <1>2
  <2> QED BY <1>1, <2>1, SharesAreNumbers
<1>4. Allocated(Request.amount, Request.weights, i) \in Nat
  <2> HIDE DEF Share
  <2> QED BY <1>2, <1>3 DEF Allocated
<1>5. AmountOf(i) \in Int
  BY <1>1, <1>2, <1>3, <1>4 DEF AmountOf, LegAmount
<1>6. TargetOf(i) \in Targets
  BY <1>1, <1>2 DEF TargetOf
<1>7. market.rate[TargetOf(i)] \in Nat
  BY <1>6 DEF BuildTyped, MarketType
<1> QED BY <1>5, <1>6, <1>7 DEF FloorOf, ProgramFloor, Refusal

LEMMA BuildInitial == BuildInit => BuildInv
<1> SUFFICES ASSUME BuildInit PROVE BuildInv
  OBVIOUS
<1>1. /\ DOMAIN build = BuildKeys /\ build.step = "idle" /\ build.fresh = TRUE /\ build.code = ""
      /\ build.attempt = 0 /\ build.capStart = 0 /\ build.rung = 0 /\ build.cashback = FALSE /\ build.tried = {}
  BY DEF BuildInit, Start, BuildKeys
<1>2. market \in MarketType
  BY BuildConstants DEF BuildInit
<1>3. Retries \in Nat /\ Rungs \in Nat
  BY BuildConstants DEF PolicyOk
<1>4. BuildTyped
  <2>1. 0 \in 0 .. Retries /\ 0 \in 0 .. Rungs
    BY <1>3
  <2> QED BY <1>1, <1>2, <2>1, Zenon DEF BuildTyped
<1> {} = 0 .. 0 - 1
  OBVIOUS
<1>5. Preflighted /\ Measured /\ Purposeful
  BY <1>1 DEF Preflighted, Measured, Purposeful, PastFloors, PastVault, PastTargets
<1>6. PreflightComplete /\ RetriesPurposeful
  BY <1>1 DEF PreflightComplete, RetriesPurposeful, CashbackHeals, LadderExhausted
<1> QED BY <1>4, <1>5, <1>6 DEF BuildInv

\* What the pipeline knows of the request, and what the chain was when it was read.
LocalsStay ==
  /\ DOMAIN build' = BuildKeys
  /\ build'.request = build.request /\ build'.floors = build.floors /\ build'.curves = build.curves
  /\ build'.attempt = build.attempt /\ build'.capStart = build.capStart
  /\ build'.excluded = build.excluded /\ build'.cashback = build.cashback /\ build'.paidBack = build.paidBack
  /\ build'.code = build.code

LEMMA StepsOnly ==
  ASSUME DOMAIN build = BuildKeys, NEW s, ToStep(s) \/ Refuse(s)
  PROVE  /\ LocalsStay /\ build'.step = s /\ build'.fresh = build.fresh
         /\ build'.rung = build.rung /\ build'.tried = build.tried /\ build'.legs = build.legs
  BY DEF ToStep, Refuse, LocalsStay, BuildKeys

\* Nothing that was checked is lost by a step that reads nothing new.
LEMMA PreflightStays ==
  ASSUME BuildInv, ChainStays, build'.request = build.request, build'.floors = build.floors,
         build'.fresh => build.fresh,
         build'.step \in PastFloors => build.step \in PastFloors,
         build'.step \in PastVault => build.step \in PastVault,
         build'.step \in PastTargets => build.step \in PastTargets
  PROVE  Preflighted'
<1>1. BuildLegs' = BuildLegs /\ \A i : TargetOf(i)' = TargetOf(i) /\ AmountOf(i)' = AmountOf(i)
  BY RequestStays
<1>2. (\A i : FloorOf(i)' = FloorOf(i)) /\ VaultAdmitted' = VaultAdmitted
  BY ReadsStay
<1>3. build'.step \in PastFloors =>
        \A i \in BuildLegs' :
          /\ build'.floors[i] \in Int
          /\ build'.fresh => build'.floors[i] = FloorOf(i)' /\ FloorOf(i)' # Refusal /\ AmountOf(i)' # 0
  BY <1>1, <1>2 DEF BuildInv, Preflighted
<1>4. build'.step \in PastVault /\ build'.fresh => VaultAdmitted'
  BY <1>2 DEF BuildInv, Preflighted
<1>5. build'.step \in PastTargets /\ build'.fresh =>
        \A i \in BuildLegs' : market'.mintOk[TargetOf(i)'] /\ market'.ata[TargetOf(i)']
  BY <1>1 DEF BuildInv, Preflighted, ChainStays
<1> QED BY <1>3, <1>4, <1>5 DEF Preflighted

\* A burn that goes on, with nothing measured, keeps its verdicts.
LEMMA VerdictsStay ==
  ASSUME BuildInv, build.step # "failed", build'.code = build.code, build'.step # "tooLarge"
  PROVE  PreflightComplete' /\ RetriesPurposeful'
<1>1. build'.code = ""
  BY DEF BuildInv, Purposeful
<1> QED BY <1>1 DEF PreflightComplete, RetriesPurposeful, CashbackHeals, LadderExhausted

\* A step to another stage that leaves the ladder alone.
LEMMA StageKeeps ==
  ASSUME BuildInv, UNCHANGED market, LocalsStay, build'.fresh = build.fresh, build'.rung = build.rung,
         build.step \notin {"idle", "failed"}, build'.step \in {"refused", "prepared", "vault", "targets", "quote", "height"},
         build'.step \in {"vault", "targets", "quote"} =>
           build'.tried = build.tried /\ build.step \in {"resolve", "vault", "targets"},
         Preflighted'
  PROVE  BuildInv'
<1>1. BuildTyped'
  <2>1. Request' = Request /\ build.step # "idle"
    BY RequestStays DEF LocalsStay
  <2>2. build'.step \in {"idle", "refused", "resolve", "prepared", "tooLarge", "failed"} \cup PastFloors
    BY DEF PastFloors
  <2> QED BY <2>1, <2>2 DEF BuildInv, BuildTyped, LocalsStay
<1>2. Measured'
  BY DEF Measured
<1>3. Purposeful'
  <2>1. build'.code = ""
    BY DEF BuildInv, Purposeful, LocalsStay
  <2> QED BY <2>1 DEF BuildInv, Purposeful, LocalsStay
<1>4. PreflightComplete' /\ RetriesPurposeful'
  BY VerdictsStay DEF LocalsStay
<1> QED BY <1>1, <1>2, <1>3, <1>4 DEF BuildInv

LEMMA ReceiveKeeps ==
  ASSUME BuildInv, NEW q \in Requests, Receive(q)
  PROVE  BuildInv'
<1>1. /\ build.step = "idle" /\ UNCHANGED market /\ DOMAIN build' = BuildKeys
      /\ build'.request = q /\ build'.step \in {"resolve", "refused"}
      /\ build'.fresh = build.fresh /\ build'.attempt = build.attempt /\ build'.capStart = build.capStart
      /\ build'.rung = build.rung /\ build'.tried = build.tried /\ build'.code = build.code
      /\ build'.cashback = build.cashback /\ build'.paidBack = build.paidBack /\ build'.excluded = build.excluded
  BY DEF BuildInv, BuildTyped, BuildKeys, Receive
<1>2. BuildTyped'
  BY <1>1 DEF BuildInv, BuildTyped, Request
<1>3. Preflighted' /\ Measured'
  BY <1>1 DEF Preflighted, Measured, PastFloors, PastVault, PastTargets
<1>4. build'.code = ""
  BY <1>1 DEF BuildInv, Purposeful
<1>5. Purposeful'
  BY <1>1, <1>4 DEF BuildInv, Purposeful
<1>6. PreflightComplete' /\ RetriesPurposeful'
  BY <1>1, VerdictsStay
<1> QED BY <1>2, <1>3, <1>5, <1>6 DEF BuildInv

LEMMA ResolveReferencesKeeps ==
  ASSUME BuildInv, ResolveReferences
  PROVE  BuildInv'
<1> DEFINE floors == [i \in BuildLegs |-> ProgramFloor(TargetOf(i), AmountOf(i))]
<1>1. build.step = "resolve" /\ UNCHANGED market /\ ChainStays
  BY DEF ResolveReferences, ChainStays
<1>2. CASE \E i \in BuildLegs : AmountOf(i) = 0 \/ floors[i] = Refusal
  <2>1. Refuse("refused")
    BY <1>2 DEF ResolveReferences
  <2>2. /\ LocalsStay /\ build'.step = "refused" /\ build'.fresh = build.fresh
        /\ build'.rung = build.rung /\ build'.tried = build.tried
    BY <2>1, StepsOnly DEF BuildInv, BuildTyped
  <2>3. Preflighted'
    BY <2>2 DEF Preflighted, PastFloors, PastVault, PastTargets
  <2> QED BY <1>1, <2>2, <2>3, StageKeeps
<1>3. CASE ~ \E i \in BuildLegs : AmountOf(i) = 0 \/ floors[i] = Refusal
  <2>1. /\ DOMAIN build' = BuildKeys /\ build'.step = "vault" /\ build'.floors = floors
        /\ build'.request = build.request /\ build'.fresh = build.fresh
        /\ build'.rung = build.rung /\ build'.tried = build.tried /\ build'.capStart = build.capStart
        /\ build'.attempt = build.attempt /\ build'.code = build.code
        /\ build'.cashback = build.cashback /\ build'.paidBack = build.paidBack /\ build'.excluded = build.excluded
    BY <1>3 DEF ResolveReferences, BuildInv, BuildTyped, BuildKeys
  <2>2. BuildTyped'
    <3>1. Request' = Request
      BY <2>1, RequestStays
    <3> QED BY <1>1, <2>1, <3>1 DEF BuildInv, BuildTyped, PastFloors
  <2>3. Preflighted'
    <3>1. BuildLegs' = BuildLegs /\ \A i : AmountOf(i)' = AmountOf(i)
      BY <2>1, RequestStays
    <3>2. \A i : FloorOf(i)' = FloorOf(i)
      BY <1>1, <2>1, ReadsStay
    <3>3. \A i \in BuildLegs : floors[i] = FloorOf(i) /\ FloorOf(i) \in Int
      BY <1>1, FloorsAreNumbers DEF BuildInv, FloorOf
    <3>4. \A i \in BuildLegs : floors[i] # Refusal /\ AmountOf(i) # 0
      BY <1>3
    <3> HIDE DEF floors
    <3>5. build'.step \notin PastVault /\ build'.step \notin PastTargets
      BY <2>1 DEF PastFloors, PastVault, PastTargets
    <3> QED BY <2>1, <3>1, <3>2, <3>3, <3>4, <3>5 DEF Preflighted
  <2>4. build'.code = ""
    BY <1>1, <2>1 DEF BuildInv, Purposeful
  <2>5. Measured' /\ Purposeful'
    BY <1>1, <2>1, <2>4 DEF BuildInv, Measured, Purposeful
  <2>6. PreflightComplete' /\ RetriesPurposeful'
    BY <1>1, <2>1, VerdictsStay
  <2> QED BY <2>2, <2>3, <2>5, <2>6 DEF BuildInv
<1> QED BY <1>2, <1>3

LEMMA AdmitVaultKeeps ==
  ASSUME BuildInv, AdmitVault
  PROVE  BuildInv'
<1>1. build.step = "vault" /\ UNCHANGED market /\ ChainStays
  BY DEF AdmitVault, ChainStays
<1>2. /\ LocalsStay /\ build'.fresh = build.fresh /\ build'.rung = build.rung /\ build'.tried = build.tried
      /\ build'.step \in {"targets", "refused"} /\ (build'.step = "targets" => VaultAdmitted)
  BY StepsOnly DEF AdmitVault, BuildInv, BuildTyped
<1>3. Preflighted'
  <2>1. /\ BuildLegs' = BuildLegs /\ (\A i : AmountOf(i)' = AmountOf(i))
        /\ (\A i : FloorOf(i)' = FloorOf(i)) /\ VaultAdmitted' = VaultAdmitted
    BY <1>1, <1>2, RequestStays, ReadsStay DEF LocalsStay
  <2>2. build.step \in PastFloors /\ build'.step \notin PastTargets
    BY <1>1, <1>2 DEF PastFloors, PastVault, PastTargets
  <2>3. build'.step \in PastVault => build'.step = "targets"
    BY <1>2 DEF PastVault, PastFloors
  <2> QED BY <1>2, <2>1, <2>2, <2>3 DEF BuildInv, Preflighted, LocalsStay
<1> QED BY <1>1, <1>2, <1>3, StageKeeps

LEMMA AdmitBuildTargetsKeeps ==
  ASSUME BuildInv, AdmitBuildTargets
  PROVE  BuildInv'
<1>1. build.step = "targets" /\ UNCHANGED market /\ ChainStays
  BY DEF AdmitBuildTargets, ChainStays
<1>2. /\ LocalsStay /\ build'.fresh = build.fresh /\ build'.rung = build.rung /\ build'.tried = build.tried
      /\ build'.step \in {"quote", "refused"}
      /\ build'.step = "quote" => \A i \in BuildLegs : market.mintOk[TargetOf(i)] /\ market.ata[TargetOf(i)]
  BY StepsOnly DEF AdmitBuildTargets, BuildInv, BuildTyped
<1>3. Preflighted'
  <2>1. /\ BuildLegs' = BuildLegs /\ (\A i : TargetOf(i)' = TargetOf(i) /\ AmountOf(i)' = AmountOf(i))
        /\ (\A i : FloorOf(i)' = FloorOf(i)) /\ VaultAdmitted' = VaultAdmitted
    BY <1>1, <1>2, RequestStays, ReadsStay DEF LocalsStay
  <2>2. build.step \in PastFloors /\ build.step \in PastVault
    BY <1>1 DEF PastFloors, PastVault
  <2>3. build'.step \in PastTargets => build'.step = "quote"
    BY <1>2 DEF PastTargets, PastVault, PastFloors
  <2> QED BY <1>1, <1>2, <2>1, <2>2, <2>3 DEF BuildInv, Preflighted, LocalsStay
<1> QED BY <1>1, <1>2, <1>3, StageKeeps

LEMMA CheckLifetimeKeeps ==
  ASSUME BuildInv, CheckLifetime
  PROVE  BuildInv'
<1>1. build.step = "height" /\ UNCHANGED market /\ ChainStays
  BY DEF CheckLifetime, ChainStays
<1>2. /\ LocalsStay /\ build'.fresh = build.fresh /\ build'.rung = build.rung /\ build'.tried = build.tried
      /\ build'.step \in {"prepared", "refused"}
  BY StepsOnly DEF CheckLifetime, BuildInv, BuildTyped
<1>3. Preflighted'
  BY <1>2 DEF Preflighted, PastFloors, PastVault, PastTargets
<1> QED BY <1>1, <1>2, <1>3, StageKeeps

LEMMA LadderEndsKeeps ==
  ASSUME BuildInv, LadderEnds
  PROVE  BuildInv'
<1>1. build.step = "quote" /\ build.rung = Rungs /\ UNCHANGED market
  BY DEF LadderEnds
<1>2. /\ LocalsStay /\ build'.step = "tooLarge" /\ build'.fresh = build.fresh
      /\ build'.rung = build.rung /\ build'.tried = build.tried
  BY StepsOnly DEF LadderEnds, BuildInv, BuildTyped
<1>3. BuildTyped'
  <2>1. Request' = Request
    BY <1>2, RequestStays DEF LocalsStay
  <2> QED BY <1>1, <1>2, <2>1 DEF BuildInv, BuildTyped, LocalsStay
<1>4. Preflighted' /\ Measured'
  BY <1>2 DEF Preflighted, Measured, PastFloors, PastVault, PastTargets
<1>5. build'.code = ""
  BY <1>1, <1>2 DEF BuildInv, Purposeful, LocalsStay
<1>6. Purposeful'
  BY <1>2, <1>5 DEF BuildInv, Purposeful, LocalsStay
<1>7. build'.tried = build'.capStart .. Rungs - 1
  BY <1>1, <1>2 DEF BuildInv, Purposeful, LocalsStay
<1>8. PreflightComplete' /\ RetriesPurposeful'
  BY <1>5, <1>7 DEF PreflightComplete, RetriesPurposeful, CashbackHeals, LadderExhausted
<1> QED BY <1>3, <1>4, <1>6, <1>8 DEF BuildInv

\* A rung is refused, measured, or too large.
LEMMA QuoteRungKeeps ==
  ASSUME BuildInv, NEW answer, NEW fits, QuoteRung(answer, fits)
  PROVE  BuildInv'
<1>1. build.step = "quote" /\ UNCHANGED market /\ ChainStays /\ build.rung < Rungs
  BY DEF QuoteRung, ChainStays
<1>2. /\ LocalsStay /\ build'.fresh = build.fresh /\ build'.tried = build.tried \cup {build.rung}
      /\ \/ build'.step = "refused" /\ build'.rung = build.rung
         \/ /\ build'.step = "simulate" /\ build'.rung = build.rung
            /\ build'.legs = [i \in BuildLegs |-> IF IsCurve(i) THEN CurveLeg(i) ELSE RouteLeg(answer[i], i)]
         \/ build'.step = "quote" /\ build'.rung = build.rung + 1
         \/ build'.step = "tooLarge" /\ build'.rung = build.rung + 1 /\ FailsFast
  BY DEF QuoteRung, BuildInv, BuildTyped, BuildKeys, LocalsStay
<1>3. build'.code = "" /\ build.step # "failed"
  BY <1>1, <1>2 DEF BuildInv, Purposeful, LocalsStay
<1>4. /\ build.rung \in Nat /\ build.capStart \in Nat /\ build.capStart <= build.rung /\ Rungs \in Nat
  BY BuildConstants DEF BuildInv, BuildTyped
<1>5. build'.rung \in Nat /\ build.rung <= build'.rung /\ build'.rung <= Rungs
  BY <1>1, <1>2, <1>4
<1>6. build'.step \in {"refused", "simulate", "quote", "tooLarge"}
  BY <1>2
<1>7. BuildTyped'
  <2>1. Request' = Request
    BY <1>2, RequestStays DEF LocalsStay
  <2>2. build'.capStart \in 0 .. Rungs /\ build'.rung \in build'.capStart .. Rungs
    BY <1>2, <1>4, <1>5 DEF LocalsStay
  <2>3. build'.step \in {"idle", "refused", "resolve", "prepared", "tooLarge", "failed"} \cup PastFloors
    BY <1>6 DEF PastFloors
  <2> QED BY <1>1, <1>2, <2>1, <2>2, <2>3 DEF BuildInv, BuildTyped, LocalsStay
<1>8. Preflighted'
  <2>1. build.step \in PastFloors /\ build.step \in PastVault /\ build.step \in PastTargets
    BY <1>1 DEF PastFloors, PastVault, PastTargets
  <2> QED BY <1>1, <1>2, <2>1, PreflightStays DEF LocalsStay
<1>9. Measured'
  <2> SUFFICES ASSUME build'.step = "simulate", NEW i \in BuildLegs'
               PROVE  /\ ~ (build'.legs[i].minimum < build'.floors[i])
                      /\ build'.legs[i].pump /\ ~ IsCurve(i)' => i \notin build'.excluded
    BY <1>1, <1>2 DEF Measured
  <2>1. i \in BuildLegs /\ IsCurve(i)' = IsCurve(i) /\ build'.floors = build.floors /\ build'.excluded = build.excluded
    BY <1>2, RequestStays DEF LocalsStay, IsCurve
  <2>2. build'.legs[i] = IF IsCurve(i) THEN CurveLeg(i) ELSE RouteLeg(answer[i], i)
    BY <1>2, <2>1
  <2>3. build.floors[i] \in Int
    BY <1>1, <2>1 DEF BuildInv, Preflighted, PastFloors
  <2>4. MayAnswer(i, answer[i]) /\ ~ LegRefused(i, answer[i])
    BY <2>1 DEF QuoteRung, BuildInv, BuildTyped, BuildKeys
  <2>5. CASE IsCurve(i)
    BY <2>1, <2>2, <2>3, <2>5 DEF CurveLeg
  <2>6. CASE ~ IsCurve(i)
    <3>1. answer[i].threshold \in Int
      BY <2>4, <2>6 DEF LegRefused, AssertPrice
    <3> QED BY <2>1, <2>2, <2>3, <2>4, <2>6, <3>1 DEF RouteLeg, Larger, MayAnswer
  <2> QED BY <2>5, <2>6
<1>10. build'.tried = build.capStart .. build.rung
  <2>1. build.tried = build.capStart .. build.rung - 1
    BY <1>1 DEF BuildInv, Purposeful
  <2> QED BY <1>2, <1>4, <2>1
<1>11. Purposeful'
  <2>1. build'.step = "quote" => build'.tried = build'.capStart .. build'.rung - 1
    BY <1>2, <1>4, <1>10 DEF LocalsStay
  <2> QED BY <1>2, <1>3, <1>6, <2>1 DEF BuildInv, Purposeful, LocalsStay
<1>12. LadderExhausted'
  <2> SUFFICES ASSUME build'.step = "tooLarge"
               PROVE  Len(Request'.weights) >= 3 /\ ~ VaultAltCovers'
    BY DEF LadderExhausted
  <2>1. FailsFast /\ Request' = Request /\ VaultAltCovers' = VaultAltCovers
    BY <1>1, <1>2, RequestStays, ReadsStay DEF LocalsStay
  <2> QED BY <2>1 DEF FailsFast, Request
<1>13. PreflightComplete' /\ RetriesPurposeful'
  BY <1>3, <1>12 DEF PreflightComplete, RetriesPurposeful, CashbackHeals
<1> QED BY <1>7, <1>8, <1>9, <1>11, <1>13 DEF BuildInv

\* On a chain that stood still the program refuses nothing that was measured.
LEMMA NothingDeterministic ==
  ASSUME BuildInv, build.step = "simulate", build.fresh
  PROVE  ~ BelowFloor(build.legs) /\ \A credit \in Credits : ~ ProgramRefuses(credit)
<1>1. build.step \in PastFloors /\ build.step \in PastVault /\ build.step \in PastTargets
  BY DEF PastFloors, PastVault, PastTargets
<1>2. \A i \in BuildLegs :
        /\ build.floors[i] = FloorOf(i) /\ FloorOf(i) # Refusal /\ AmountOf(i) # 0
        /\ market.mintOk[TargetOf(i)] /\ market.ata[TargetOf(i)]
        /\ ~ (build.legs[i].minimum < build.floors[i])
  BY <1>1 DEF BuildInv, Preflighted, Measured
<1>3. VaultAdmitted
  BY <1>1 DEF BuildInv, Preflighted
<1>4. market.sol \in Nat /\ Request.amount \in Nat /\ RentMin \in Nat
  BY BuildConstants DEF BuildInv, BuildTyped, MarketType
<1>7. market.rent \in Nat /\ (market.rent = 0 \/ market.rent >= RentMin)
  BY DEF BuildInv, BuildTyped, MarketType
<1>5. /\ ~ (market.sol < Request.amount) /\ market.vault /\ market.wsol
      /\ \A credit \in {0, market.rent} : RemainderOk(market.sol - Request.amount + credit)
  BY <1>3, <1>4, <1>7 DEF VaultAdmitted, RemainderOk
<1>6. ~ BelowFloor(build.legs)
  BY <1>2 DEF BelowFloor, FloorOf
<1>8. Credits \subseteq {0, market.rent}
  BY DEF Credits
<1> QED BY <1>2, <1>5, <1>6, <1>8 DEF ProgramRefuses, FloorOf

LEMMA SimulateBuildKeeps ==
  ASSUME BuildInv, NEW outcome \in SimOutcomes, SimulateBuild(outcome)
  PROVE  BuildInv'
<1>1. build.step = "simulate" /\ Simulated(outcome) /\ UNCHANGED market /\ ChainStays
  BY DEF SimulateBuild, ChainStays
<1>2. /\ build.rung \in Nat /\ build.capStart \in Nat /\ build.capStart <= build.rung /\ build.rung < Rungs
      /\ Rungs \in Nat /\ Retries \in Nat /\ build.attempt \in 0 .. Retries
  BY <1>1, BuildConstants DEF BuildInv, BuildTyped, Measured, PolicyOk
<1>3. build.step \in PastFloors /\ build.step \in PastVault /\ build.step \in PastTargets
  BY <1>1 DEF PastFloors, PastVault, PastTargets
<1>4. CASE outcome = "ok"
  <2>1. build' = [build EXCEPT !.step = "height"]
    BY <1>4 DEF SimulateBuild
  <2>2. /\ LocalsStay /\ build'.step = "height" /\ build'.fresh = build.fresh /\ build'.rung = build.rung
    BY <2>1 DEF BuildInv, BuildTyped, BuildKeys, LocalsStay
  <2>3. Preflighted'
    BY <1>1, <1>3, <2>2, PreflightStays DEF LocalsStay
  <2> QED BY <1>1, <2>2, <2>3, StageKeeps
<1>5. CASE outcome # "ok" /\ QuotedAgain(outcome)
  <2> DEFINE start == IF outcome = "compute" THEN build.rung + 1 ELSE build.capStart
  <2>1. /\ DOMAIN build' = BuildKeys /\ build'.step = "quote" /\ build'.attempt = build.attempt + 1
        /\ build'.capStart = start /\ build'.rung = start /\ build'.tried = {}
        /\ build'.request = build.request /\ build'.floors = build.floors /\ build'.fresh = build.fresh
        /\ build'.code = build.code
        /\ build'.cashback = (build.cashback \/ outcome = "6018")
        /\ build'.excluded = IF outcome = "6018" THEN build.excluded \cup Offending ELSE build.excluded
        /\ build'.paidBack = IF outcome = "6018" THEN PumpLegs ELSE build.paidBack
    BY <1>5 DEF SimulateBuild, Requote, BuildInv, BuildTyped, BuildKeys
  <2>2. /\ build.attempt < Retries
        /\ outcome = "compute" => build.rung + 1 < Rungs
    BY <1>5 DEF QuotedAgain
  <2>3. start \in 0 .. Rungs
    BY <1>2, <2>2
  <2>4. BuildTyped'
    <3>1. Request' = Request
      BY <2>1, RequestStays
    <3>2. build'.attempt \in 0 .. Retries
      BY <1>2, <2>1, <2>2
    <3> HIDE DEF start
    <3>3. build'.capStart \in 0 .. Rungs /\ build'.rung \in build'.capStart .. Rungs
      BY <1>2, <2>1, <2>3
    <3> QED BY <1>1, <2>1, <3>1, <3>2, <3>3 DEF BuildInv, BuildTyped, PastFloors
  <2>5. Preflighted'
    BY <1>1, <1>3, <2>1, PreflightStays
  <2>6. build'.code = ""
    BY <1>1, <2>1 DEF BuildInv, Purposeful
  <2>7. PumpLegs \subseteq Offending
    BY DEF Offending, PumpLegs
  <2>8. {} = start .. start - 1
    BY <2>3
  <2>9. Purposeful'
    <3>1. build'.cashback => build'.paidBack \subseteq build'.excluded
      BY <2>1, <2>7 DEF BuildInv, Purposeful
    <3>2. build'.tried = build'.capStart .. build'.rung - 1
      BY <2>1, <2>8
    <3> QED BY <3>1, <3>2, <2>6 DEF Purposeful
  <2>10. Measured'
    BY <2>1 DEF Measured
  <2>11. PreflightComplete' /\ RetriesPurposeful'
    BY <1>1, <2>1, VerdictsStay
  <2> QED BY <2>4, <2>5, <2>9, <2>10, <2>11 DEF BuildInv
<1>6. CASE outcome # "ok" /\ ~ QuotedAgain(outcome)
  <2>1. build' = [build EXCEPT !.step = "failed", !.code = outcome]
    BY <1>6 DEF SimulateBuild
  <2>2. /\ DOMAIN build' = BuildKeys /\ build'.step = "failed" /\ build'.code = outcome
        /\ build'.request = build.request /\ build'.fresh = build.fresh /\ build'.attempt = build.attempt
        /\ build'.capStart = build.capStart /\ build'.rung = build.rung /\ build'.legs = build.legs
        /\ build'.curves = build.curves /\ build'.cashback = build.cashback
        /\ build'.excluded = build.excluded /\ build'.paidBack = build.paidBack
    BY <2>1 DEF BuildInv, BuildTyped, BuildKeys
  <2>3. BuildTyped'
    <3>1. Request' = Request
      BY <2>2, RequestStays
    <3> QED BY <1>1, <2>2, <3>1 DEF BuildInv, BuildTyped
  <2>4. Preflighted' /\ Measured' /\ Purposeful'
    BY <2>2 DEF BuildInv, Preflighted, Measured, Purposeful, PastFloors, PastVault, PastTargets
  <2>5. PreflightComplete'
    <3> SUFFICES ASSUME outcome = "burner", build.fresh PROVE FALSE
      BY <2>2 DEF PreflightComplete
    <3>1. PICK credit \in Credits : SimulatedWith(credit, outcome)
      BY <1>1 DEF Simulated
    <3> QED BY <1>1, <3>1, NothingDeterministic DEF SimulatedWith
  <2>6. CashbackHeals'
    <3> SUFFICES ASSUME outcome = "6018", build.cashback
                 PROVE  \E i \in PumpLegs' : ~ IsCurve(i)' /\ i \notin build'.paidBack
      BY <2>2 DEF CashbackHeals
    <3>1. PICK i \in BuildLegs : build.legs[i].pump /\ ~ IsCurve(i)
      BY <1>1 DEF Simulated, SimulatedWith
    <3>2. i \notin build.excluded /\ build.paidBack \subseteq build.excluded
      BY <1>1, <3>1 DEF BuildInv, Measured, Purposeful
    <3>3. i \in PumpLegs' /\ ~ IsCurve(i)'
      BY <2>2, <3>1, RequestStays DEF PumpLegs, IsCurve
    <3> QED BY <2>2, <3>2, <3>3
  <2>7. LadderExhausted'
    BY <2>2 DEF LadderExhausted
  <2> QED BY <2>3, <2>4, <2>5, <2>6, <2>7 DEF BuildInv, RetriesPurposeful
<1> QED BY <1>4, <1>5, <1>6

LEMMA BlockKeeps ==
  ASSUME BuildInv, Block
  PROVE  BuildInv'
<1>1. UNCHANGED build /\ ChainStays /\ market' \in MarketType
  BY DEF Block, ChainStays, BuildInv, BuildTyped, MarketType
<1>2. Request' = Request /\ VaultAltCovers' = VaultAltCovers /\ BuildLegs' = BuildLegs
  BY <1>1, RequestStays, ReadsStay
<1>3. Preflighted'
  BY <1>1, PreflightStays
<1>4. BuildTyped'
  BY <1>1, <1>2 DEF BuildInv, BuildTyped
<1>5. Measured' /\ Purposeful' /\ PreflightComplete'
  BY <1>1, <1>2 DEF BuildInv, Measured, Purposeful, PreflightComplete, IsCurve
<1>6. RetriesPurposeful'
  BY <1>1, <1>2 DEF BuildInv, RetriesPurposeful, CashbackHeals, LadderExhausted, PumpLegs, IsCurve, Request
<1> QED BY <1>3, <1>4, <1>5, <1>6 DEF BuildInv

\* Whatever else changes on the chain, the burn knows that it no longer stands still.
LEMMA MovesKeeps ==
  ASSUME BuildInv, NEW m \in MarketType, Moves(m), m.table = market.table
  PROVE  BuildInv'
<1>1. /\ LocalsStay /\ build'.step = build.step /\ build'.rung = build.rung /\ build'.tried = build.tried
      /\ build'.legs = build.legs /\ build'.fresh = FALSE
      /\ market' \in MarketType /\ market'.table = market.table
  BY DEF Moves, BuildInv, BuildTyped, BuildKeys, LocalsStay, MarketType
<1>2. Request' = Request /\ BuildLegs' = BuildLegs
  BY <1>1, RequestStays DEF LocalsStay
<1>3. BuildTyped'
  BY <1>1, <1>2 DEF BuildInv, BuildTyped, LocalsStay
<1>4. Preflighted'
  BY <1>1, <1>2 DEF BuildInv, Preflighted, LocalsStay
<1>5. Measured' /\ Purposeful' /\ PreflightComplete'
  BY <1>1, <1>2 DEF BuildInv, Measured, Purposeful, PreflightComplete, IsCurve, LocalsStay
<1>6. RetriesPurposeful'
  BY <1>1, <1>2 DEF BuildInv, RetriesPurposeful, CashbackHeals, LadderExhausted, PumpLegs, IsCurve, Request, VaultAltCovers, LocalsStay
<1> QED BY <1>3, <1>4, <1>5, <1>6 DEF BuildInv

LEMMA BuildStepKeeps == BuildInv /\ [BuildNext]_buildVars => BuildInv'
<1> SUFFICES ASSUME BuildInv, [BuildNext]_buildVars PROVE BuildInv'
  OBVIOUS
<1>1. CASE UNCHANGED buildVars
  <2>1. UNCHANGED build /\ UNCHANGED market
    BY <1>1 DEF buildVars
  <2>2. Request' = Request /\ VaultAltCovers' = VaultAltCovers /\ BuildLegs' = BuildLegs /\ ChainStays
    BY <2>1, RequestStays, ReadsStay DEF ChainStays
  <2>3. Preflighted'
    BY <2>1, <2>2, PreflightStays
  <2>4. BuildTyped' /\ Measured' /\ Purposeful' /\ PreflightComplete'
    BY <2>1, <2>2 DEF BuildInv, BuildTyped, Measured, Purposeful, PreflightComplete, IsCurve
  <2>5. RetriesPurposeful'
    BY <2>1, <2>2 DEF BuildInv, RetriesPurposeful, CashbackHeals, LadderExhausted, PumpLegs, IsCurve, Request
  <2> QED BY <2>3, <2>4, <2>5 DEF BuildInv
<1>2. CASE BuildSteps
  <2>1. CASE \E answer \in [BuildLegs -> Answers], fits \in BOOLEAN : QuoteRung(answer, fits)
    BY <2>1, QuoteRungKeeps
  <2>2. CASE \E outcome \in SimOutcomes : SimulateBuild(outcome)
    BY <2>2, SimulateBuildKeeps
  <2> QED BY <1>2, <2>1, <2>2, ResolveReferencesKeeps, AdmitVaultKeeps, AdmitBuildTargetsKeeps, LadderEndsKeeps,
             CheckLifetimeKeeps DEF BuildSteps
<1>3. CASE \E t \in Targets : Graduate(t) \/ \E rate \in 0 .. 2 : Drift(t, rate)
  <2>1. PICK t \in Targets : Graduate(t) \/ \E rate \in 0 .. 2 : Drift(t, rate)
    BY <1>3
  <2>2. CASE Graduate(t)
    <3>1. [market EXCEPT !.venue[t] = "pool"] \in MarketType /\ [market EXCEPT !.venue[t] = "pool"].table = market.table
      BY DEF BuildInv, BuildTyped, MarketType
    <3> QED BY <2>2, <3>1, MovesKeeps DEF Graduate
  <2>3. CASE \E rate \in 0 .. 2 : Drift(t, rate)
    <3>1. PICK rate \in 0 .. 2 : Drift(t, rate)
      BY <2>3
    <3>2. [market EXCEPT !.rate[t] = rate] \in MarketType /\ [market EXCEPT !.rate[t] = rate].table = market.table
      BY DEF BuildInv, BuildTyped, MarketType
    <3> QED BY <3>1, <3>2, MovesKeeps DEF Drift
  <2> QED BY <2>1, <2>2, <2>3
<1>4. CASE \E lamports \in 0 .. MaxAmount : Balance(lamports)
  <2>1. PICK lamports \in 0 .. MaxAmount : Balance(lamports)
    BY <1>4
  <2>2. [market EXCEPT !.sol = lamports] \in MarketType /\ [market EXCEPT !.sol = lamports].table = market.table
    BY DEF BuildInv, BuildTyped, MarketType
  <2> QED BY <2>1, <2>2, MovesKeeps DEF Balance
<1>5. CASE \E q \in Requests : Receive(q)
  BY <1>5, ReceiveKeeps
<1>6. CASE \E lamports \in {0, RentMin} : Accumulator(lamports)
  <2>1. PICK lamports \in {0, RentMin} : Accumulator(lamports)
    BY <1>6
  <2>2. RentMin \in Nat
    BY BuildConstants
  <2>3. lamports \in {n \in Nat : n = 0 \/ n >= RentMin}
    BY <2>2
  <2>4. [market EXCEPT !.rent = lamports] \in MarketType /\ [market EXCEPT !.rent = lamports].table = market.table
    BY <2>3 DEF BuildInv, BuildTyped, MarketType
  <2> QED BY <2>1, <2>4, MovesKeeps DEF Accumulator
<1> QED BY <1>1, <1>2, <1>3, <1>4, <1>5, <1>6, BlockKeeps DEF BuildNext

LEMMA BuildsSound == BuildInv => BuildSound
<1> SUFFICES ASSUME BuildInv PROVE BuildSound
  OBVIOUS
<1>1. MinimumCoversFloor
  BY NothingDeterministic DEF MinimumCoversFloor
<1> QED BY <1>1 DEF BuildInv, BuildSound, BuiltSoundly

\* Where a step leads: onward within an attempt, or into the next attempt.
Onward ==
  /\ build'.attempt = build.attempt
  /\ \/ build.step = "resolve" /\ build'.step \in {"vault", "refused"}
     \/ build.step = "vault" /\ build'.step \in {"targets", "refused"}
     \/ build.step = "targets" /\ build'.step \in {"quote", "refused"}
     \/ build.step = "quote" /\ build'.step \in {"refused", "simulate", "tooLarge"}
     \/ build.step = "quote" /\ build'.step = "quote" /\ build'.rung = build.rung + 1
     \/ build.step = "simulate" /\ build'.step \in {"height", "failed"}
     \/ build.step = "height" /\ build'.step \in {"prepared", "refused"}

AnotherTry == build.step = "simulate" /\ build'.step = "quote" /\ build'.attempt = build.attempt + 1

LEMMA StepsLead ==
  ASSUME BuildInv, BuildSteps
  PROVE  Onward \/ AnotherTry
<1>1. DOMAIN build = BuildKeys
  BY DEF BuildInv, BuildTyped
<1>2. CASE ResolveReferences
  BY <1>1, <1>2 DEF ResolveReferences, Refuse, Onward, BuildKeys
<1>3. CASE AdmitVault
  BY <1>1, <1>3 DEF AdmitVault, ToStep, Onward, BuildKeys
<1>4. CASE AdmitBuildTargets
  BY <1>1, <1>4 DEF AdmitBuildTargets, ToStep, Onward, BuildKeys
<1>5. CASE LadderEnds
  BY <1>1, <1>5 DEF LadderEnds, Refuse, Onward, BuildKeys
<1>6. CASE CheckLifetime
  BY <1>1, <1>6 DEF CheckLifetime, ToStep, Onward, BuildKeys
<1>7. CASE \E answer \in [BuildLegs -> Answers], fits \in BOOLEAN : QuoteRung(answer, fits)
  BY <1>1, <1>7 DEF QuoteRung, Onward, BuildKeys
<1>8. CASE \E outcome \in SimOutcomes : SimulateBuild(outcome)
  <2>1. PICK outcome \in SimOutcomes : SimulateBuild(outcome)
    BY <1>8
  <2>2. CASE QuotedAgain(outcome) /\ outcome # "ok"
    BY <1>1, <2>1, <2>2 DEF SimulateBuild, Requote, AnotherTry, BuildKeys
  <2>3. CASE ~ QuotedAgain(outcome) \/ outcome = "ok"
    BY <1>1, <2>1, <2>3 DEF SimulateBuild, Onward, BuildKeys
  <2> QED BY <2>2, <2>3
<1> QED BY <1>2, <1>3, <1>4, <1>5, <1>6, <1>7, <1>8 DEF BuildSteps

\* The stages of one attempt, in the order in which they are left.
StagesLeft(z) ==
  CASE z.step = "resolve"  -> Rungs + 6
    [] z.step = "vault"    -> Rungs + 5
    [] z.step = "targets"  -> Rungs + 4
    [] z.step = "quote"    -> Rungs - z.rung + 3
    [] z.step = "simulate" -> 2
    [] z.step = "height"   -> 1
    [] OTHER               -> 0

LEMMA RankFalls ==
  ASSUME BuildInv, BuildInv', BuildSteps
  PROVE  Rank(build') \in 0 .. Rank(build) - 1
<1> DEFINE size == Rungs + 4
           n == Retries - build.attempt
           m == Retries - build'.attempt
<1>1. /\ Rungs \in Nat /\ n \in Nat /\ m \in Nat /\ size \in Nat
      /\ build.attempt \in Int /\ build'.attempt \in Int /\ Retries \in Int
      /\ build.rung \in 0 .. Rungs /\ build'.rung \in 0 .. Rungs
  <2>1. Rungs \in Nat /\ Retries \in Nat
    BY BuildConstants DEF PolicyOk
  <2> QED BY <2>1 DEF BuildInv, BuildTyped
<1>2. Rank(build) = n * size + StagesLeft(build) /\ Rank(build') = m * size + StagesLeft(build')
  BY DEF Rank, StagesLeft
<1>3. n * size \in Nat /\ m * size \in Nat
  BY <1>1
<1>4. CASE Onward
  <2>1. m = n
    BY <1>4 DEF Onward
  <2>2. StagesLeft(build') \in Nat /\ StagesLeft(build) \in Nat /\ StagesLeft(build') < StagesLeft(build)
    BY <1>1, <1>4 DEF Onward, StagesLeft
  <2> HIDE DEF m, n, size
  <2> QED BY <1>2, <1>3, <2>1, <2>2
<1>5. CASE AnotherTry
  <2>1. n = m + 1
    BY <1>1, <1>5 DEF AnotherTry
  <2>2. StagesLeft(build') \in 3 .. Rungs + 3 /\ StagesLeft(build) = 2
    BY <1>1, <1>5 DEF AnotherTry, StagesLeft
  <2> HIDE DEF m, n
  <2>3. n * size = m * size + size
    <3> HIDE DEF size
    <3> QED BY <1>1, <2>1
  <2> QED BY <1>1, <1>2, <1>3, <2>2, <2>3
<1> QED BY <1>4, <1>5, StepsLead

\* What is refused before the pipeline asks Jupiter, the program refuses, unless
\* the rent of an accumulator makes up for the dust.
LEMMA RefusalsAreTheProgram ==
  ASSUME BuildInv, BuildSteps, build.step \in {"resolve", "vault"}, build'.step = "refused"
  PROVE  DustMadeUp \/ \A credit \in {0, market.rent} : ProgramRefuses(credit)
<1>1. CASE ResolveReferences
  <2>1. DOMAIN build = BuildKeys
    BY DEF BuildInv, BuildTyped
  <2>2. \E i \in BuildLegs : AmountOf(i) = 0 \/ ProgramFloor(TargetOf(i), AmountOf(i)) = Refusal
    BY <1>1, <2>1 DEF ResolveReferences, BuildKeys
  <2> QED BY <2>2 DEF ProgramRefuses
<1>2. CASE AdmitVault
  <2>1. ~ VaultAdmitted
    BY <1>2 DEF AdmitVault, ToStep, BuildInv, BuildTyped, BuildKeys
  <2>2. market.sol \in Nat /\ Request.amount \in Nat /\ RentMin \in Nat /\ market.rent \in Nat
    BY <1>2, BuildConstants DEF BuildInv, BuildTyped, MarketType, AdmitVault
  <2>3. CASE ~ market.vault \/ ~ market.wsol \/ market.sol < Request.amount
    BY <2>3 DEF ProgramRefuses
  <2>4. CASE market.vault /\ market.wsol /\ market.sol >= Request.amount
    <3>1. ~ RemainderOk(market.sol - Request.amount)
      BY <2>1, <2>2, <2>4 DEF VaultAdmitted, RemainderOk
    <3>2. market.sol - Request.amount + 0 = market.sol - Request.amount
      BY <2>2
    <3>3. ProgramRefuses(0)
      BY <3>1, <3>2 DEF ProgramRefuses
    <3>4. CASE RemainderOk(market.sol - Request.amount + market.rent)
      BY <2>4, <3>1, <3>4 DEF DustMadeUp
    <3>5. CASE ~ RemainderOk(market.sol - Request.amount + market.rent)
      BY <3>3, <3>5 DEF ProgramRefuses
    <3> QED BY <3>4, <3>5
  <2> QED BY <2>2, <2>3, <2>4
<1>3. CASE ~ ResolveReferences /\ ~ AdmitVault
  BY <1>3 DEF BuildSteps, AdmitBuildTargets, LadderEnds, CheckLifetime, SimulateBuild
<1> QED BY <1>1, <1>2, <1>3

\* Changes of the chain leave the pipeline where it is.
LEMMA OthersLeaveStage ==
  ASSUME BuildInv, [BuildNext]_buildVars, ~ BuildSteps, build.step # "idle"
  PROVE  build'.step = build.step /\ build'.rung = build.rung
<1>1. DOMAIN build = BuildKeys
  BY DEF BuildInv, BuildTyped
<1>2. CASE \E m : Moves(m)
  BY <1>1, <1>2 DEF Moves, BuildKeys
<1>3. CASE Block \/ UNCHANGED buildVars
  BY <1>3 DEF Block, buildVars
<1> QED BY <1>2, <1>3 DEF BuildNext, Receive, Graduate, Drift, Balance, Accumulator

-----------------------------------------------------------------------------
(* The buttons of the vault page (VaultDesk) *)

DeskFields ==
  /\ DOMAIN coin = {"pin", "fees", "amm", "pool", "accrued", "strayed"}
  /\ DOMAIN claim = {"at", "to", "sweep", "since"}
  /\ DOMAIN desk = {"status", "refresh", "busy", "claims"}
  /\ coin.fees \in Nat /\ coin.amm \in Nat /\ coin.pool \in BOOLEAN
  /\ claim.at \in {"idle", "asked", "verified", "built", "sent", "refused", "landed"}
  /\ claim.since \in Nat /\ claim.sweep \in BOOLEAN

\* Fees wait with a pool only after the migration; a claim that was verified
\* names the vault, and one without a sweep found nothing with the pool.
ClaimInv ==
  /\ coin.amm # 0 => coin.pool
  /\ claim.at \in {"verified", "built", "sent", "landed"} => claim.to = "vault"
  /\ claim.at \in {"built", "sent"} /\ ~ claim.sweep => coin.amm <= claim.since
  /\ PaysThisVault /\ ClaimLeavesNothing

DeskInv == DeskFields /\ ClaimInv /\ StatusInOrder /\ OneAction

LEMMA DeskInitial == DeskInit => DeskInv
<1> SUFFICES ASSUME DeskInit PROVE DeskInv
  OBVIOUS
<1>1. PICK pin \in Pins : coin = [pin |-> pin, fees |-> 0, amm |-> 0, pool |-> FALSE, accrued |-> 0, strayed |-> 0]
  BY DEF DeskInit
<1>2. DeskFields /\ ClaimInv
  BY <1>1 DEF DeskInit, NoClaim, DeskFields, ClaimInv, PaysThisVault, ClaimLeavesNothing
<1>3. StatusInOrder /\ OneAction
  BY DEF DeskInit, NoClaim, Hidden, StatusInOrder, OneAction
<1> QED BY <1>2, <1>3 DEF DeskInv

\* A unit that arrives is in the coin's fees and with the claim on its way.
LEMMA AccruesKept ==
  ASSUME DeskFields, ClaimInv, coin' = Accrues(coin), claim' = Noted(1), DOMAIN desk' = DOMAIN desk
  PROVE  DeskFields' /\ ClaimInv' /\ claim'.at = claim.at
<1>1. /\ DOMAIN coin' = DOMAIN coin /\ coin'.pool = coin.pool /\ coin'.strayed = coin.strayed
      /\ coin'.fees = (IF coin.pool THEN coin.fees ELSE coin.fees + 1)
      /\ coin'.amm = (IF coin.pool THEN coin.amm + 1 ELSE coin.amm)
  BY DEF Accrues, DeskFields
<1>2. /\ DOMAIN claim' = DOMAIN claim /\ claim'.at = claim.at /\ claim'.to = claim.to /\ claim'.sweep = claim.sweep
      /\ claim'.since = IF claim.at \in {"idle", "asked", "verified"} THEN claim.since ELSE claim.since + 1
  BY DEF Noted, DeskFields
<1>3. DeskFields'
  BY <1>1, <1>2 DEF DeskFields
<1>4. ClaimInv'
  BY <1>1, <1>2 DEF DeskFields, ClaimInv, PaysThisVault, ClaimLeavesNothing
<1> QED BY <1>2, <1>3, <1>4

\* Fees are paid out, by a claim of this page or by anybody else.
LEMMA FeesFall ==
  ASSUME DeskFields, ClaimInv, NEW k, DOMAIN k = DOMAIN coin, k.pool = coin.pool, k.strayed = coin.strayed,
         k.fees \in 0 .. coin.fees, k.amm \in 0 .. coin.amm,
         coin' = k, UNCHANGED claim, DOMAIN desk' = DOMAIN desk
  PROVE  DeskFields' /\ ClaimInv'
<1>1. k.fees \in Nat /\ k.amm \in Nat /\ k.fees <= coin.fees /\ k.amm <= coin.amm
  BY DEF DeskFields
<1>2. DeskFields'
  BY <1>1 DEF DeskFields
<1>3. ClaimInv'
  BY <1>1 DEF DeskFields, ClaimInv, PaysThisVault, ClaimLeavesNothing
<1> QED BY <1>2, <1>3

LEMMA PaidOut ==
  ASSUME DeskFields, NEW sweep \in BOOLEAN
  PROVE  LET k == Pays(coin, sweep)
         IN  /\ DOMAIN k = DOMAIN coin /\ k.pool = coin.pool /\ k.fees = 0
             /\ k.amm = (IF sweep THEN 0 ELSE coin.amm)
             /\ coin.pin = "vault" => k.strayed = coin.strayed + 0
  BY DEF DeskFields, Pays

LEMMA PaidByOthersKept ==
  ASSUME DeskFields, ClaimInv, NEW sweep \in BOOLEAN, coin' = [Pays(coin, sweep) EXCEPT !.strayed = coin.strayed],
         UNCHANGED claim, DOMAIN desk' = DOMAIN desk
  PROVE  DeskFields' /\ ClaimInv'
<1> DEFINE k == Pays(coin, sweep)
<1>1. DOMAIN k = DOMAIN coin /\ k.pool = coin.pool /\ k.fees = 0 /\ k.amm = (IF sweep THEN 0 ELSE coin.amm)
  BY PaidOut
<1> HIDE DEF k
<1> DEFINE claimed == [k EXCEPT !.strayed = coin.strayed]
<1>2. /\ DOMAIN claimed = DOMAIN coin /\ claimed.pool = coin.pool /\ claimed.strayed = coin.strayed
      /\ claimed.fees = 0 /\ claimed.amm = (IF sweep THEN 0 ELSE coin.amm) /\ coin' = claimed
  BY <1>1 DEF DeskFields, k
<1> HIDE DEF claimed
<1>3. claimed.fees \in 0 .. coin.fees /\ claimed.amm \in 0 .. coin.amm
  BY <1>2 DEF DeskFields
<1> QED BY <1>2, <1>3, FeesFall

\* Migration moves no fees.
LEMMA MigrationKept ==
  ASSUME DeskFields, ClaimInv, coin' = [coin EXCEPT !.pool = TRUE], UNCHANGED claim, DOMAIN desk' = DOMAIN desk
  PROVE  DeskFields' /\ ClaimInv'
<1>1. /\ DOMAIN coin' = DOMAIN coin /\ coin'.pool = TRUE
      /\ coin'.fees = coin.fees /\ coin'.amm = coin.amm /\ coin'.strayed = coin.strayed
  BY DEF DeskFields
<1> QED BY <1>1 DEF DeskFields, ClaimInv, PaysThisVault, ClaimLeavesNothing

LEMMA OutsideDeskKept ==
  ASSUME DeskInv, OutsideNext
  PROVE  DeskInv'
<1>1. UNCHANGED <<poll, desk>> /\ StatusInOrder'
  BY DEF OutsideNext, TradedElsewhere, Graduates, Repointed, PaidByOthers, DeskInv, StatusInOrder
<1>2. DeskFields' /\ ClaimInv' /\ claim'.at = claim.at
  <2>1. CASE TradedElsewhere
    BY <1>1, <2>1, AccruesKept DEF TradedElsewhere, DeskInv
  <2>2. CASE Graduates
    BY <1>1, <2>2, MigrationKept DEF Graduates, DeskInv
  <2>3. CASE Repointed
    BY <1>1, <2>3 DEF Repointed, DeskInv, DeskFields, ClaimInv, PaysThisVault, ClaimLeavesNothing
  <2>4. ASSUME NEW sweep \in BOOLEAN, PaidByOthers(sweep) PROVE DeskFields' /\ ClaimInv' /\ claim'.at = claim.at
    BY <1>1, <2>4, PaidByOthersKept DEF PaidByOthers, DeskInv
  <2> QED BY <2>1, <2>2, <2>3, <2>4 DEF OutsideNext
<1> QED BY <1>1, <1>2 DEF DeskInv, OneAction

\* An answer that is shown is of a read that began after the last claim.
LEMMA PollKept ==
  ASSUME DeskInv, NEW q \in Pollers,
         PollAsks(q) \/ PollFails(q) \/ PollVerifies(q) \/ PollSeesPool(q) \/ PollSimulates(q)
  PROVE  DeskInv'
<1>1. UNCHANGED <<coin, claim>>
  BY DEF PollAsks, PollFails, PollVerifies, PollSeesPool, PollSimulates
<1>2. /\ DOMAIN desk' = DOMAIN desk /\ desk'.busy = desk.busy
      /\ desk'.status.epoch = desk'.status.applied
  <2>1. CASE PollFails(q)
    BY <2>1 DEF PollFails, Cancelled, Hidden, DeskInv, DeskFields, StatusInOrder
  <2>2. CASE PollSimulates(q)
    BY <2>2 DEF PollSimulates, Cancelled, DeskInv, DeskFields, StatusInOrder
  <2>3. CASE PollAsks(q) \/ PollVerifies(q) \/ PollSeesPool(q)
    BY <2>3 DEF PollAsks, PollVerifies, PollSeesPool, DeskInv, StatusInOrder
  <2> QED BY <2>1, <2>2, <2>3
<1>3. DeskFields' /\ ClaimInv'
  BY <1>1, <1>2 DEF DeskInv, DeskFields, ClaimInv, PaysThisVault, ClaimLeavesNothing
<1> QED BY <1>1, <1>2, <1>3 DEF DeskInv, StatusInOrder, OneAction

\* What the claim's own steps leave of the page.
LEMMA ClaimStays ==
  ASSUME DeskInv, UNCHANGED <<coin, poll>>,
         DOMAIN claim' = DOMAIN claim, claim'.since \in Nat, claim'.sweep \in BOOLEAN, claim'.at # "landed",
         claim'.at \in {"idle", "asked", "verified", "built", "sent", "refused", "landed"},
         claim'.at \in {"verified", "built", "sent", "landed"} => claim'.to = "vault",
         claim'.at \in {"built", "sent"} /\ ~ claim'.sweep => coin.amm <= claim'.since,
         DOMAIN desk' = DOMAIN desk, desk'.status = desk.status,
         claim'.at # "idle" <=> desk'.busy = "claim-fees"
  PROVE  DeskInv'
  BY DEF DeskInv, DeskFields, ClaimInv, PaysThisVault, ClaimLeavesNothing, StatusInOrder, OneAction

LEMMA ClaimKept ==
  ASSUME DeskInv, ClaimNext
  PROVE  DeskInv'
<1> USE DEF DeskInv
<1>1. CASE PressClaim
  <2>1. claim' = [at |-> "asked", to |-> "nobody", sweep |-> FALSE, since |-> 0]
    BY <1>1 DEF PressClaim, NoClaim
  <2>2. /\ UNCHANGED <<coin, poll>> /\ DOMAIN desk' = DOMAIN desk
        /\ desk'.status = desk.status /\ desk'.busy = "claim-fees"
    BY <1>1 DEF PressClaim, DeskFields
  <2>3. /\ DOMAIN claim' = DOMAIN claim /\ claim'.at = "asked" /\ claim'.since \in Nat /\ claim'.sweep \in BOOLEAN
    BY <2>1 DEF DeskFields
  <2> QED BY <2>2, <2>3, ClaimStays
<1>2. CASE ClaimFails \/ ClaimConfirmed
  <2>1. claim' = NoClaim /\ UNCHANGED <<coin, poll>> /\ DOMAIN desk' = DOMAIN desk
        /\ desk'.busy = "nothing" /\ desk'.status = desk.status
    BY <1>2 DEF ClaimFails, ClaimConfirmed, Finishes, DeskFields
  <2> QED BY <2>1, ClaimStays DEF NoClaim, DeskFields
<1>3. CASE ClaimVerifies
  BY <1>3, ClaimStays DEF ClaimVerifies, NamesVault, DeskFields, OneAction
<1>4. CASE ClaimBuilds
  <2>1. ~ Sweeps(coin) => coin.amm = 0
    BY DEF Sweeps, DeskFields, ClaimInv
  <2>2. Sweeps(coin) \in BOOLEAN
    BY DEF Sweeps, DeskFields
  <2>3. /\ claim.at = "verified" /\ UNCHANGED <<coin, poll, desk>> /\ DOMAIN claim' = DOMAIN claim /\ claim'.at = "built"
        /\ claim'.to = claim.to /\ claim'.since = claim.since /\ claim'.sweep = Sweeps(coin)
    BY <1>4 DEF ClaimBuilds, DeskFields
  <2>4. coin.amm \in Nat /\ claim.since \in Nat /\ claim.to = "vault" /\ desk.busy = "claim-fees"
    BY <2>3 DEF DeskFields, ClaimInv, OneAction
  <2>5. claim'.sweep \in BOOLEAN /\ claim'.since \in Nat /\ (~ claim'.sweep => coin.amm <= claim'.since)
    BY <2>1, <2>2, <2>3, <2>4
  <2>6. DOMAIN desk' = DOMAIN desk /\ desk'.status = desk.status /\ desk'.busy = "claim-fees"
    BY <2>3, <2>4
  <2> QED BY <2>3, <2>4, <2>5, <2>6, ClaimStays
<1>5. CASE ClaimSent
  BY <1>5, ClaimStays DEF ClaimSent, DeskFields, ClaimInv, OneAction
<1>6. CASE ClaimExecutes
  <2>1. claim.at = "sent" /\ UNCHANGED <<poll, desk>> /\ desk.busy = "claim-fees"
    BY <1>6 DEF ClaimExecutes, OneAction
  <2>2. CASE coin.pin = claim.to /\ Due(coin, claim.sweep) >= MinPay
    <3>1. coin' = Pays(coin, claim.sweep) /\ claim' = [claim EXCEPT !.at = "landed"]
      BY <1>6, <2>2 DEF ClaimExecutes
    <3>2. coin.pin = "vault" /\ claim.sweep \in BOOLEAN
      BY <2>1, <2>2 DEF DeskFields, ClaimInv
    <3>3. /\ DOMAIN coin' = DOMAIN coin /\ coin'.pool = coin.pool /\ coin'.fees = 0
          /\ coin'.amm = (IF claim.sweep THEN 0 ELSE coin.amm)
          /\ coin'.strayed = coin.strayed + 0
      BY <3>1, <3>2, PaidOut
    <3>4. /\ DOMAIN claim' = DOMAIN claim /\ claim'.at = "landed"
          /\ claim'.to = claim.to /\ claim'.sweep = claim.sweep /\ claim'.since = claim.since
      BY <3>1 DEF DeskFields
    <3>5. DeskFields'
      BY <2>1, <3>3, <3>4 DEF DeskFields
    <3>6. ClaimInv'
      BY <2>1, <3>3, <3>4 DEF DeskFields, ClaimInv, PaysThisVault, ClaimLeavesNothing
    <3> QED BY <2>1, <3>4, <3>5, <3>6 DEF StatusInOrder, OneAction
  <2>3. CASE ~ (coin.pin = claim.to /\ Due(coin, claim.sweep) >= MinPay)
    <3>1. claim' = [claim EXCEPT !.at = "refused"] /\ UNCHANGED coin
      BY <1>6, <2>3 DEF ClaimExecutes
    <3> QED BY <2>1, <3>1, ClaimStays DEF DeskFields
  <2> QED BY <2>2, <2>3
<1> QED BY <1>1, <1>2, <1>3, <1>4, <1>5, <1>6 DEF ClaimNext

\* One action of the page at a time: the other buttons run beside no claim.
LEMMA ButtonKept ==
  ASSUME DeskInv, ButtonNext
  PROVE  DeskInv'
<1>1. /\ DOMAIN desk' = DOMAIN desk /\ desk'.status = desk.status
      /\ desk.busy # "claim-fees" /\ desk'.busy # "claim-fees"
  BY DEF DeskInv, DeskFields, ButtonNext, PressBurnButton, BurnReturns, PressDemo, DemoFails, DemoTrade, DemoDistribute,
         DemoFund, DemoMigrate, Busy, NotBusy, Finishes
<1>2. DeskFields' /\ ClaimInv' /\ claim'.at = claim.at
  <2>1. CASE UNCHANGED <<coin, claim>>
    BY <1>1, <2>1 DEF DeskInv, DeskFields, ClaimInv, PaysThisVault, ClaimLeavesNothing
  <2>2. CASE coin' = Accrues(coin) /\ claim' = Noted(1)
    BY <1>1, <2>2, AccruesKept DEF DeskInv
  <2>3. CASE coin' = [Pays(coin, FALSE) EXCEPT !.strayed = coin.strayed] /\ UNCHANGED claim
    BY <1>1, <2>3, PaidByOthersKept DEF DeskInv
  <2>4. CASE coin' = [coin EXCEPT !.pool = TRUE] /\ UNCHANGED claim
    BY <1>1, <2>4, MigrationKept DEF DeskInv
  <2> QED BY <2>1, <2>2, <2>3, <2>4
          DEF ButtonNext, PressBurnButton, BurnReturns, PressDemo, DemoFails, DemoTrade, DemoDistribute, DemoFund, DemoMigrate
<1> QED BY <1>1, <1>2 DEF DeskInv, StatusInOrder, OneAction

LEMMA DeskStepKeeps == DeskInv /\ [DeskNext]_deskVars => DeskInv'
<1> SUFFICES ASSUME DeskInv, [DeskNext]_deskVars PROVE DeskInv'
  OBVIOUS
<1>1. CASE UNCHANGED deskVars
  BY <1>1 DEF deskVars, DeskInv, DeskFields, ClaimInv, PaysThisVault, ClaimLeavesNothing, StatusInOrder, OneAction
<1>2. CASE PollNext
  BY <1>2, PollKept DEF PollNext
<1> QED BY <1>1, <1>2, OutsideDeskKept, ClaimKept, ButtonKept DEF DeskNext

LEMMA DesksSound == DeskInv => DeskSound
  BY DEF DeskInv, ClaimInv, DeskSound

-----------------------------------------------------------------------------
(* From a choice to a vault (VaultChoice) *)

\* What is known of a mint: its own curve to be, or the session's verdict.
KnownMarkets == [m \in Tokens |-> IF m \in Pending(chooser) THEN PendingPump ELSE session[m]]

MintsOffered == MintsOf(OfferedLegs(chooser))

FormTyped(f) ==
  /\ DOMAIN f = {"page", "launch", "override", "left"}
  /\ f.page \in {"launch", "existing"} /\ (f.page = "launch" => f.launch = Own)
  /\ f.launch \in Tokens \cup {"none", "junk"} /\ f.override \in Tokens \cup {"none", "default"}

\* A market that is shown, or will be, is the one that is known of its mint.
TrueMarkets(shown) == \A m \in Tokens : Chosen(shown[m]) => shown[m] = KnownMarkets[m]

MarketsOk ==
  /\ session \in [Tokens -> {Unknown, Awaited} \cup Verdicts]
  /\ \A m \in Pending(chooser) : session[m] = Unknown
  /\ DOMAIN markets = {"asked", "next", "shown", "loading"}
  /\ DOMAIN markets.next = Tokens
  /\ TrueMarkets(markets.shown) /\ TrueMarkets(markets.next)

\* A run has heard of the mints that it no longer asks for.
RunOk ==
  /\ markets.asked \subseteq MintsOffered
  /\ MintsOffered # {} => (markets.loading <=> markets.asked # {})
  /\ \A m \in MintsOffered \ markets.asked : markets.next[m] # Unknown
  /\ markets.asked # MintsOffered => markets.shown = markets.next
  /\ \A m \in markets.asked \ Pending(chooser) : session[m] = Awaited \/ Chosen(session[m])

BoundLegType == [mint : Tokens, bps : Nat, ref : {"none", "position", "v4"}]

\* What was pressed is an address of its legs, each at the market that is known.
PressedOf(p, where, known) ==
  /\ p.launch \in Tokens /\ p.legs \in Seq(BoundLegType) /\ DOMAIN p.blocks = DOMAIN p.legs
  /\ p.vault = Derived(p.launch, p.legs)
  /\ \A i \in DOMAIN p.legs :
       /\ p.blocks[i] # "none"
       /\ p.legs[i].ref = IF p.blocks[i] \in PumpAccounts THEN "none" ELSE p.blocks[i]
       /\ LET v == known[p.legs[i].mint]
          IN  Chosen(v) /\ v.account = p.blocks[i] /\ Passes(p.legs[i].mint, v)
  /\ where = "launch" => ShapeOk(p.legs)

FrozenOk ==
  /\ DOMAIN frozen = {"launch", "legs", "blocks", "vault", "step"}
  /\ frozen.step \in {"idle", "sent", "landed", "refused"}
  /\ frozen.step # "idle" => PressedOf(frozen, chooser.page, KnownMarkets)

ChoiceInv == FormTyped(chooser) /\ MarketsOk /\ RunOk /\ FrozenOk /\ LinkReopens

-----------------------------------------------------------------------------

\* A verdict of the service is a market; a place of one is none.
LEMMA VerdictsAreMarkets ==
  /\ \A v \in Verdicts :
       /\ Chosen(v) /\ v # Unknown /\ v # Awaited /\ v # Failed
       /\ v.account \in PumpAccounts \cup {"position", "v4"} /\ v.seed \in {"zero", "address"}
       /\ v.seed = "zero" <=> v.account \in PumpAccounts
  /\ ~ Chosen(Unknown) /\ ~ Chosen(Awaited) /\ ~ Chosen(Failed) /\ Failed # Unknown /\ Awaited # Unknown
  /\ Chosen(PendingPump) /\ PendingPump # Unknown
  /\ PendingPump.account \in PumpAccounts /\ PendingPump.seed = "zero"
<1>1. \A v \in Verdicts : v \in VerdictType /\ (v.seed = "zero" <=> v.account \in PumpAccounts)
  BY ChoiceConstants
<1>2. ASSUME NEW v \in Verdicts
      PROVE  /\ Chosen(v) /\ v # Unknown /\ v # Awaited /\ v # Failed
             /\ v.account \in PumpAccounts \cup {"position", "v4"} /\ v.seed \in {"zero", "address"}
  <2>1. v.account \in PumpAccounts \cup {"position", "v4"} /\ v.seed \in {"zero", "address"}
    BY <1>1 DEF VerdictType
  <2>2. v.account \notin {"unknown", "awaited", "failed"}
    BY <2>1 DEF PumpAccounts
  <2>3. Unknown.account = "unknown" /\ Awaited.account = "awaited" /\ Failed.account = "failed"
    BY DEF Unknown, Awaited, Failed, Blank
  <2> QED BY <2>1, <2>2, <2>3 DEF Chosen
<1>3. /\ ~ Chosen(Unknown) /\ ~ Chosen(Awaited) /\ ~ Chosen(Failed) /\ Failed # Unknown /\ Awaited # Unknown
      /\ Chosen(PendingPump) /\ PendingPump # Unknown
      /\ PendingPump.account \in PumpAccounts /\ PendingPump.seed = "zero"
  BY DEF Chosen, Unknown, Awaited, Failed, Blank, PendingPump, PumpAccounts
<1>4. \A v \in Verdicts :
        /\ Chosen(v) /\ v # Unknown /\ v # Awaited /\ v # Failed
        /\ v.account \in PumpAccounts \cup {"position", "v4"} /\ v.seed \in {"zero", "address"}
        /\ v.seed = "zero" <=> v.account \in PumpAccounts
  BY <1>1, <1>2
<1> QED BY <1>3, <1>4

LEMMA WeightsAreNumbers == CreatorBps \in Nat \ {0} /\ PlatformBps \in Nat \ {0} /\ CreatorBps + PlatformBps = BPS_TOTAL
  BY BpsAssumption, ChoiceConstants DEF CreatorBps

LEMMA PolicyMints ==
  ASSUME NEW legs \in Seq([mint : Tokens, bps : Nat]), legs # << >>
  PROVE  MintsOf(legs) \subseteq Tokens /\ MintsOf(legs) # {}
<1>1. Len(legs) \in Nat \ {0} /\ DOMAIN legs = 1 .. Len(legs)
  BY EmptySeq
<1>2. \A i \in DOMAIN legs : legs[i] \in [mint : Tokens, bps : Nat]
  BY LenProperties
<1>3. \A i \in DOMAIN legs : legs[i].mint \in Tokens
  BY <1>2
<1> QED BY <1>1, <1>3 DEF MintsOf

\* The legs of a choice: one or two of them, or none.
LEMMA PolicyLegs ==
  ASSUME NEW choice \in Tokens \cup {"none", "junk"}
  PROVE  LET legs == BuildPolicyLegs(choice)
         IN  /\ legs \in Seq([mint : Tokens, bps : Nat])
             /\ legs = << >> <=> choice = "junk"
             /\ MintsOf(legs) \subseteq Tokens /\ (legs # << >> => MintsOf(legs) # {})
<1> DEFINE legs == BuildPolicyLegs(choice)
           LegType == [mint : Tokens, bps : Nat]
<1>1. \A n \in Nat : \A m \in Tokens : WeightOn(m, n) \in LegType
  BY DEF WeightOn
<1>2. /\ WeightOn(Platform, PlatformBps) \in LegType /\ WeightOn(Platform, CreatorBps + PlatformBps) \in LegType
      /\ choice \in Tokens => WeightOn(choice, CreatorBps) \in LegType
  BY <1>1, WeightsAreNumbers, ChoiceConstants
<1> HIDE DEF LegType
<1>3. CASE choice = "none"
  <2>1. legs = <<WeightOn(Platform, PlatformBps)>>
    BY <1>3, ChoiceConstants DEF BuildPolicyLegs, FixedLeg, IsMint
  <2> HIDE DEF legs
  <2>2. legs \in Seq(LegType) /\ legs # << >> /\ DOMAIN legs = {1}
    BY <1>2, <2>1
  <2> QED BY <1>3, <2>2, PolicyMints DEF legs, LegType
<1>4. CASE choice = Platform
  <2>1. legs = <<WeightOn(Platform, CreatorBps + PlatformBps)>>
    BY <1>4, ChoiceConstants DEF BuildPolicyLegs
  <2> HIDE DEF legs
  <2>2. legs \in Seq(LegType) /\ legs # << >> /\ DOMAIN legs = {1}
    BY <1>2, <2>1
  <2>3. choice # "junk"
    BY <1>4, ChoiceConstants
  <2> QED BY <2>2, <2>3, PolicyMints DEF legs, LegType
<1>5. CASE choice = "junk"
  <2>1. choice \notin Tokens
    BY <1>5, ChoiceConstants
  <2>2. choice # "none" /\ choice # Platform
    BY <1>5, <2>1, ChoiceConstants
  <2>3. legs = << >>
    BY <2>1, <2>2 DEF BuildPolicyLegs, IsMint
  <2> HIDE DEF legs
  <2>4. legs \in Seq(LegType) /\ MintsOf(legs) \subseteq Tokens
    BY <2>3 DEF MintsOf
  <2> QED BY <1>5, <2>3, <2>4 DEF legs, LegType
<1>6. CASE choice \in Tokens /\ choice # Platform
  <2>1. choice # "none" /\ choice # "junk"
    BY <1>6, ChoiceConstants
  <2>2. legs = <<WeightOn(choice, CreatorBps), WeightOn(Platform, PlatformBps)>>
    BY <1>6, <2>1 DEF BuildPolicyLegs, IsMint, FixedLeg
  <2> HIDE DEF legs
  <2>3. legs \in Seq(LegType) /\ legs # << >> /\ DOMAIN legs = {1, 2}
    BY <1>2, <1>6, <2>2
  <2> QED BY <2>1, <2>3, PolicyMints DEF legs, LegType
<1> QED BY <1>3, <1>4, <1>5, <1>6, ChoiceConstants

\* Legs with the mints and weights of a choice are a shape the program takes.
LEMMA ChoiceShaped ==
  ASSUME NEW choice \in Tokens, NEW legs \in Seq(BoundLegType), DOMAIN legs = DOMAIN BuildPolicyLegs(choice),
         \A i \in DOMAIN legs : legs[i].mint = BuildPolicyLegs(choice)[i].mint /\ legs[i].bps = BuildPolicyLegs(choice)[i].bps
  PROVE  ShapeOk(legs)
<1> DEFINE weights == [i \in DOMAIN legs |-> legs[i].bps]
<1>1. choice # "none"
  BY ChoiceConstants
<1>2. CASE choice = Platform
  <2>1. BuildPolicyLegs(choice) = <<WeightOn(Platform, CreatorBps + PlatformBps)>>
    BY <1>1, <1>2 DEF BuildPolicyLegs
  <2>2. DOMAIN legs = {1} /\ Len(legs) = 1 /\ legs[1].mint = Platform /\ legs[1].bps = BPS_TOTAL
    BY <2>1, WeightsAreNumbers DEF WeightOn
  <2>3. weights \in Seq(Nat) /\ Len(weights) = 1 /\ DOMAIN weights = {1} /\ weights[1] = BPS_TOTAL
    <3>1. weights \in [1 .. 1 -> Nat] /\ weights[1] = BPS_TOTAL
      BY <2>2, BpsAssumption
    <3> QED BY <3>1, SeqDef
  <2>4. MintsOf(legs) = {Platform}
    BY <2>2 DEF MintsOf
  <2> HIDE DEF weights
  <2>5. ValidLegCount(weights) /\ ValidWeights(weights)
    BY <2>3, BpsAssumption DEF ValidLegCount, MAX_SPLIT_TARGETS, ValidWeights, WeightSum, Weight
  <2> QED BY <2>2, <2>4, <2>5, FS_Singleton DEF ShapeOk, weights
<1>3. CASE choice # Platform
  <2>1. BuildPolicyLegs(choice) = <<WeightOn(choice, CreatorBps), WeightOn(Platform, PlatformBps)>>
    BY <1>1, <1>3 DEF BuildPolicyLegs, IsMint, FixedLeg
  <2>2. /\ DOMAIN legs = {1, 2} /\ Len(legs) = 2
        /\ legs[1].mint = choice /\ legs[1].bps = CreatorBps /\ legs[2].mint = Platform /\ legs[2].bps = PlatformBps
    BY <2>1 DEF WeightOn
  <2>3. /\ weights \in Seq(Nat) /\ Len(weights) = 2 /\ DOMAIN weights = {1, 2}
        /\ weights[1] = CreatorBps /\ weights[2] = PlatformBps
    <3>1. weights \in [1 .. 2 -> Nat] /\ weights[1] = CreatorBps /\ weights[2] = PlatformBps
      BY <2>2, WeightsAreNumbers
    <3> QED BY <3>1, SeqDef
  <2>4. MintsOf(legs) = {choice, Platform}
    BY <2>2 DEF MintsOf
  <2> HIDE DEF weights
  <2>5. ValidLegCount(weights) /\ ValidWeights(weights)
    BY <2>3, WeightsAreNumbers DEF ValidLegCount, MAX_SPLIT_TARGETS, ValidWeights, WeightSum, Weight
  <2>6. Cardinality({choice, Platform}) = 2
    <3>1. {choice, Platform} = {choice} \cup {Platform}
      OBVIOUS
    <3>2. IsFiniteSet({choice}) /\ Cardinality({choice}) = 1 /\ Platform \notin {choice}
      BY <1>3, FS_Singleton
    <3>3. Cardinality({choice} \cup {Platform}) = Cardinality({choice}) + 1
      BY <3>2, FS_AddElement
    <3>4. Cardinality({choice, Platform}) = Cardinality({choice}) + 1
      BY <3>1, <3>3, Zenon
    <3> QED BY <3>2, <3>4
  <2> QED BY <2>2, <2>4, <2>5, <2>6 DEF ShapeOk, weights
<1> QED BY <1>2, <1>3

\* What a link spells, its page reads.
LEMMA ParamsReadBack ==
  ASSUME NEW legs \in Seq(BoundLegType)
  PROVE  LegsFromParam(LegsToParam(legs)) = legs
<1> DEFINE text == LegsToParam(legs)
           leg(i) == [mint |-> text[i][1], bps |-> text[i][2], ref |-> IF Len(text[i]) = 3 THEN text[i][3] ELSE "none"]
<1>1. DOMAIN text = DOMAIN legs /\ \A i \in DOMAIN legs :
        text[i] = IF legs[i].ref = "none" THEN <<legs[i].mint, legs[i].bps>> ELSE <<legs[i].mint, legs[i].bps, legs[i].ref>>
  BY DEF LegsToParam
<1> HIDE DEF text
<1>2. ASSUME NEW i \in DOMAIN legs
      PROVE  text[i][1] \in Tokens /\ text[i][2] \in Nat /\ leg(i) = legs[i]
  <2>1. legs[i] \in BoundLegType
    OBVIOUS
  <2>2. legs[i].mint \in Tokens /\ legs[i].bps \in Nat /\ legs[i] = [mint |-> legs[i].mint, bps |-> legs[i].bps, ref |-> legs[i].ref]
    BY <2>1 DEF BoundLegType
  <2>3. CASE legs[i].ref = "none"
    <3>1. text[i] = <<legs[i].mint, legs[i].bps>>
      BY <1>1, <2>3
    <3>2. Len(text[i]) = 2 /\ text[i][1] = legs[i].mint /\ text[i][2] = legs[i].bps
      BY <3>1
    <3> QED BY <2>2, <2>3, <3>2
  <2>4. CASE legs[i].ref # "none"
    <3>1. text[i] = <<legs[i].mint, legs[i].bps, legs[i].ref>>
      BY <1>1, <2>4
    <3>2. Len(text[i]) = 3 /\ text[i][1] = legs[i].mint /\ text[i][2] = legs[i].bps /\ text[i][3] = legs[i].ref
      BY <3>1
    <3> QED BY <2>2, <3>2
  <2> QED BY <2>3, <2>4
<1>3. LegsFromParam(text) = [i \in DOMAIN text |-> leg(i)]
  BY <1>1, <1>2 DEF LegsFromParam, IsMint
<1>4. [i \in DOMAIN legs |-> leg(i)] = [i \in DOMAIN legs |-> legs[i]]
  BY <1>2
<1>5. legs = [i \in DOMAIN legs |-> legs[i]]
  OBVIOUS
<1> QED BY <1>1, <1>3, <1>4, <1>5 DEF text

LEMMA LinksReopen ==
  ASSUME NEW launch, NEW legs \in Seq(BoundLegType), link' = LinkTo(launch, legs, Derived(launch, legs))
  PROVE  Reopened' = link'.vault
<1>1. link'.launch = launch /\ link'.text = LegsToParam(legs) /\ link'.vault = Derived(launch, legs)
  BY DEF LinkTo
<1> QED BY <1>1, ParamsReadBack DEF Reopened

\* The program derives the seeds that the page derived.
LEMMA PressesDerived ==
  ASSUME NEW p, NEW where, NEW known, PressedOf(p, where, known)
  PROVE  p.vault = ProgramVault(p)
<1> DEFINE refs == [i \in DOMAIN p.legs |-> IF p.legs[i].ref = "none" THEN "zero" ELSE p.legs[i].ref]
           seeds == [i \in DOMAIN p.blocks |-> IF p.blocks[i] \in PumpAccounts THEN "zero" ELSE p.blocks[i]]
<1>1. \A i \in DOMAIN p.legs : refs[i] = seeds[i]
  BY DEF PressedOf
<1>2. refs = seeds
  BY <1>1 DEF PressedOf
<1>3. Derived(p.launch, p.legs) = [Derived(p.launch, p.legs) EXCEPT !.refs = seeds]
  BY <1>2 DEF Derived
<1> QED BY <1>3 DEF PressedOf, ProgramVault

\* What is known stays known, and so does what was pressed.
LEMMA PressesStay ==
  ASSUME NEW p, NEW where, NEW known, NEW later, PressedOf(p, where, known),
         \A m \in Tokens : Chosen(known[m]) => later[m] = known[m]
  PROVE  PressedOf(p, where, later)
<1>1. \A i \in DOMAIN p.legs : p.legs[i].mint \in Tokens
  <2>1. \A i \in DOMAIN p.legs : p.legs[i] \in BoundLegType
    BY LenProperties DEF PressedOf
  <2> QED BY <2>1 DEF BoundLegType
<1> QED BY <1>1 DEF PressedOf

LEMMA OffersArePolicies ==
  ASSUME NEW f, FormTyped(f)
  PROVE  /\ OfferedLegs(f) \in Seq([mint : Tokens, bps : Nat])
         /\ OfferedLegs(f) = << >> <=> MintsOf(OfferedLegs(f)) = {}
         /\ MintsOf(OfferedLegs(f)) \subseteq Tokens
         /\ Choice(f) \in Tokens \cup {"none", "junk"}
<1>1. Choice(f) \in Tokens \cup {"none", "junk"}
  BY DEF FormTyped, Choice
<1>2. OfferedLegs(f) = << >> => MintsOf(OfferedLegs(f)) = {}
  BY DEF MintsOf
<1> QED BY <1>1, <1>2, PolicyLegs DEF OfferedLegs

\* A market that is shown is bound as it is known.
LEMMA ShownIsBound ==
  ASSUME ChoiceInv, VaultShown
  PROVE  /\ PressedOf(Current, "existing", KnownMarkets)
         /\ ~ PolicyError(Choice(chooser)) => ShapeOk(BoundLegs)
<1> DEFINE offered == OfferedLegs(chooser)
<1>1. offered \in Seq([mint : Tokens, bps : Nat])
  BY OffersArePolicies DEF ChoiceInv
<1>2. /\ DOMAIN BoundLegs = DOMAIN offered /\ DOMAIN Blocks = DOMAIN offered
      /\ \A i \in DOMAIN offered :
           /\ BoundLegs[i] = [mint |-> offered[i].mint, bps |-> offered[i].bps, ref |-> RefOf(VerdictOn(offered[i].mint))]
           /\ Blocks[i] = VerdictOn(offered[i].mint).account
  BY DEF BoundLegs, Blocks
<1>3. \A i \in DOMAIN offered : Bindable(VerdictOn(offered[i].mint)) /\ Passes(offered[i].mint, VerdictOn(offered[i].mint))
  BY DEF VaultShown, ReferencesReady, ReferencesSupported, MintsOf
<1> HIDE DEF offered
<1>4. ASSUME NEW i \in DOMAIN offered
      PROVE  /\ BoundLegs[i] \in BoundLegType
             /\ BoundLegs[i].mint = offered[i].mint /\ BoundLegs[i].bps = offered[i].bps
             /\ Blocks[i] # "none"
             /\ BoundLegs[i].ref = IF Blocks[i] \in PumpAccounts THEN "none" ELSE Blocks[i]
             /\ LET v == KnownMarkets[BoundLegs[i].mint]
                IN  Chosen(v) /\ v.account = Blocks[i] /\ Passes(BoundLegs[i].mint, v)
  <2> DEFINE m == offered[i].mint
             v == VerdictOn(m)
  <2>1. offered[i] \in [mint : Tokens, bps : Nat]
    BY <1>1, LenProperties
  <2>2. m \in Tokens /\ offered[i].bps \in Nat
    BY <2>1
  <2>3. Chosen(v) /\ Passes(m, v)
    BY <1>3 DEF Bindable
  <2>4. v = KnownMarkets[m]
    BY <2>2, <2>3 DEF ChoiceInv, MarketsOk, TrueMarkets, VerdictOn
  <2>5. v = PendingPump \/ v = session[m]
    BY <2>2, <2>4 DEF KnownMarkets
  <2>6. v = PendingPump \/ v \in Verdicts
    BY <2>2, <2>3, <2>5, VerdictsAreMarkets DEF ChoiceInv, MarketsOk
  <2>7. /\ v.account \in PumpAccounts \cup {"position", "v4"} /\ v.seed \in {"zero", "address"}
        /\ v.seed = "zero" <=> v.account \in PumpAccounts
    BY <2>6, VerdictsAreMarkets
  <2> HIDE DEF m, v
  <2>8. BoundLegs[i] = [mint |-> m, bps |-> offered[i].bps, ref |-> RefOf(v)] /\ Blocks[i] = v.account
    BY <1>2 DEF m, v
  <2>9. RefOf(v) = (IF v.account \in PumpAccounts THEN "none" ELSE v.account) /\ v.account # "none"
    BY <2>7 DEF RefOf, PumpAccounts
  <2>10. RefOf(v) \in {"none", "position", "v4"}
    BY <2>7, <2>9
  <2>11. BoundLegs[i] \in BoundLegType
    BY <2>2, <2>8, <2>10 DEF BoundLegType, m
  <2>12. BoundLegs[i].mint = m /\ BoundLegs[i].bps = offered[i].bps /\ BoundLegs[i].ref = RefOf(v)
    BY <2>8
  <2> QED BY <2>3, <2>4, <2>8, <2>9, <2>11, <2>12 DEF m
<1>5. BoundLegs \in Seq(BoundLegType)
  <2>1. Len(offered) \in Nat /\ DOMAIN offered = 1 .. Len(offered)
    BY <1>1, LenProperties
  <2>2. BoundLegs \in [1 .. Len(offered) -> BoundLegType]
    BY <1>2, <1>4, <2>1 DEF BoundLegs, offered
  <2> QED BY <2>1, <2>2, SeqDef
<1>6. /\ Current.launch = chooser.launch /\ Current.legs = BoundLegs /\ Current.blocks = Blocks
      /\ Current.vault = Derived(chooser.launch, BoundLegs)
  BY DEF Current
<1>7. PressedOf(Current, "existing", KnownMarkets)
  BY <1>2, <1>4, <1>5, <1>6 DEF PressedOf, VaultShown, IsMint
<1>8. ASSUME ~ PolicyError(Choice(chooser))
      PROVE  ShapeOk(BoundLegs)
  BY <1>2, <1>4, <1>5, <1>8, ChoiceShaped DEF offered, OfferedLegs, PolicyError, IsMint
<1> QED BY <1>7, <1>8

LEMMA PressSetupKept ==
  ASSUME ChoiceInv, PressSetup
  PROVE  ChoiceInv'
<1>1. /\ CanRun /\ VaultShown /\ frozen' = Current /\ UNCHANGED <<chooser, markets, session, passed, link>>
      /\ chooser.page = "launch" => ~ PolicyError(Choice(chooser))
  BY DEF PressSetup, CanRun
<1>2. FormTyped(chooser)' /\ MarketsOk' /\ RunOk' /\ KnownMarkets' = KnownMarkets
  BY <1>1 DEF ChoiceInv, FormTyped, MarketsOk, TrueMarkets, KnownMarkets, Pending, RunOk, MintsOffered, OfferedLegs, Choice
<1>3. PressedOf(Current, chooser.page, KnownMarkets)
  <2>1. Current.legs = BoundLegs
    BY DEF Current
  <2> QED BY <1>1, <2>1, ShownIsBound DEF PressedOf
<1>4. DOMAIN Current = {"launch", "legs", "blocks", "vault", "step"} /\ Current.step = "sent"
  BY DEF Current
<1>5. PressedOf(frozen', chooser'.page, KnownMarkets')
  BY <1>1, <1>2, <1>3
<1>6. FrozenOk'
  BY <1>1, <1>4, <1>5 DEF FrozenOk
<1>7. frozen'.step = "sent" /\ link' = link
  BY <1>1, <1>4
<1>8. LinkReopens'
  BY <1>7 DEF ChoiceInv, LinkReopens, Reopened
<1> QED BY <1>2, <1>6, <1>8 DEF ChoiceInv

LEMMA SetupLandsKept ==
  ASSUME ChoiceInv, SetupLands
  PROVE  ChoiceInv'
<1>1. /\ frozen.step = "sent" /\ Admits(frozen) /\ frozen' = [frozen EXCEPT !.step = "landed"]
      /\ link' = LinkTo(frozen.launch, frozen.legs, frozen.vault) /\ UNCHANGED <<chooser, markets, session, passed>>
  BY DEF SetupLands
<1>2. FormTyped(chooser)' /\ MarketsOk' /\ RunOk' /\ KnownMarkets' = KnownMarkets
  BY <1>1 DEF ChoiceInv, FormTyped, MarketsOk, TrueMarkets, KnownMarkets, Pending, RunOk, MintsOffered, OfferedLegs, Choice
<1>3. /\ DOMAIN frozen = {"launch", "legs", "blocks", "vault", "step"}
      /\ PressedOf(frozen, chooser.page, KnownMarkets)
  BY <1>1 DEF ChoiceInv, FrozenOk
<1>4. /\ DOMAIN frozen' = DOMAIN frozen /\ frozen'.step = "landed" /\ frozen'.launch = frozen.launch /\ frozen'.legs = frozen.legs
      /\ frozen'.blocks = frozen.blocks /\ frozen'.vault = frozen.vault
  BY <1>1, <1>3
<1>5. PressedOf(frozen', chooser'.page, KnownMarkets')
  BY <1>1, <1>2, <1>3, <1>4 DEF PressedOf
<1>6. FrozenOk'
  BY <1>3, <1>4, <1>5 DEF FrozenOk
<1>7. Reopened' = link'.vault
  BY <1>1, <1>3, LinksReopen DEF PressedOf
<1>8. frozen'.vault = ProgramVault(frozen') /\ ShapeOk(frozen'.legs)
  BY <1>1, <1>4 DEF Admits, ProgramVault
<1>9. LinkReopens'
  BY <1>7, <1>8 DEF LinkReopens
<1> QED BY <1>2, <1>6, <1>9 DEF ChoiceInv

LEMMA SetupRefusedKept ==
  ASSUME ChoiceInv, SetupRefused
  PROVE  ChoiceInv'
<1>1. /\ frozen.step = "sent" /\ frozen' = [frozen EXCEPT !.step = "refused"]
      /\ UNCHANGED <<chooser, markets, session, passed, link>>
  BY DEF SetupRefused
<1>2. FormTyped(chooser)' /\ MarketsOk' /\ RunOk' /\ KnownMarkets' = KnownMarkets
  BY <1>1 DEF ChoiceInv, FormTyped, MarketsOk, TrueMarkets, KnownMarkets, Pending, RunOk, MintsOffered, OfferedLegs, Choice
<1>3. /\ DOMAIN frozen = {"launch", "legs", "blocks", "vault", "step"}
      /\ PressedOf(frozen, chooser.page, KnownMarkets)
  BY <1>1 DEF ChoiceInv, FrozenOk
<1>4. /\ DOMAIN frozen' = DOMAIN frozen /\ frozen'.step = "refused" /\ frozen'.launch = frozen.launch /\ frozen'.legs = frozen.legs
      /\ frozen'.blocks = frozen.blocks /\ frozen'.vault = frozen.vault
  BY <1>1, <1>3
<1>5. PressedOf(frozen', chooser'.page, KnownMarkets')
  BY <1>1, <1>2, <1>3, <1>4 DEF PressedOf
<1>6. FrozenOk'
  BY <1>3, <1>4, <1>5 DEF FrozenOk
<1>7. LinkReopens'
  BY <1>1, <1>4 DEF ChoiceInv, LinkReopens, Reopened
<1> QED BY <1>2, <1>6, <1>7 DEF ChoiceInv

LEMMA OpensShownKept ==
  ASSUME ChoiceInv, OpensShown
  PROVE  ChoiceInv'
<1>1. /\ VaultShown /\ link' = LinkTo(chooser.launch, BoundLegs, Current.vault)
      /\ UNCHANGED <<chooser, markets, session, passed, frozen>>
  BY DEF OpensShown
<1>2. FormTyped(chooser)' /\ MarketsOk' /\ RunOk' /\ KnownMarkets' = KnownMarkets
  BY <1>1 DEF ChoiceInv, FormTyped, MarketsOk, TrueMarkets, KnownMarkets, Pending, RunOk, MintsOffered, OfferedLegs, Choice
<1>3. FrozenOk'
  BY <1>1, <1>2 DEF ChoiceInv, FrozenOk
<1>4. Current.vault = Derived(chooser.launch, BoundLegs) /\ Current.legs = BoundLegs
  BY DEF Current
<1>5. BoundLegs \in Seq(BoundLegType)
  BY <1>1, <1>4, ShownIsBound DEF PressedOf
<1>6. Reopened' = link'.vault
  BY <1>1, <1>4, <1>5, LinksReopen
<1>7. LinkReopens'
  BY <1>1, <1>6 DEF ChoiceInv, LinkReopens
<1> QED BY <1>2, <1>3, <1>7 DEF ChoiceInv

\* What a step that leaves form, setup and link owes.
LEMMA AnswersKept ==
  ASSUME ChoiceInv, UNCHANGED <<chooser, frozen, link>>, MarketsOk', RunOk',
         \A m \in Tokens : Chosen(KnownMarkets[m]) => KnownMarkets'[m] = KnownMarkets[m]
  PROVE  ChoiceInv'
<1>1. FormTyped(chooser)' /\ LinkReopens'
  BY DEF ChoiceInv, FormTyped, LinkReopens, Reopened
<1>2. FrozenOk'
  <2>1. frozen.step # "idle" => PressedOf(frozen, chooser.page, KnownMarkets')
    BY PressesStay DEF ChoiceInv, FrozenOk
  <2> QED BY <2>1 DEF ChoiceInv, FrozenOk
<1> QED BY <1>1, <1>2 DEF ChoiceInv

\* A leg that lands, as it is known then.
LEMMA PublishKept ==
  ASSUME ChoiceInv, NEW m \in markets.asked, NEW v, Publish(m, v), v # Unknown,
         UNCHANGED chooser, session' \in [Tokens -> {Unknown, Awaited} \cup Verdicts],
         \A w \in Tokens \ {m} : session'[w] = session[w], \A w \in Pending(chooser) : session'[w] = Unknown,
         \A w \in Tokens : Chosen(KnownMarkets[w]) => KnownMarkets'[w] = KnownMarkets[w], Chosen(v) => v = KnownMarkets'[m]
  PROVE  MarketsOk' /\ RunOk'
<1>1. m \in Tokens /\ MintsOffered \subseteq Tokens /\ MintsOffered' = MintsOffered /\ Pending(chooser)' = Pending(chooser)
  BY OffersArePolicies DEF ChoiceInv, RunOk, MintsOffered, OfferedLegs, Choice, Pending
<1> DEFINE next == [markets.next EXCEPT ![m] = v]
           asked == markets.asked \ {m}
<1>2. /\ DOMAIN markets' = {"asked", "next", "shown", "loading"}
      /\ markets'.asked = asked /\ markets'.next = next /\ markets'.shown = next /\ markets'.loading = (asked # {})
  BY DEF Publish
<1>3. DOMAIN next = Tokens /\ next[m] = v /\ \A w \in Tokens \ {m} : next[w] = markets.next[w]
  BY <1>1 DEF ChoiceInv, MarketsOk
<1> HIDE DEF next
<1>4. \A w \in Tokens : Chosen(next[w]) => next[w] = KnownMarkets'[w]
  BY <1>3 DEF ChoiceInv, MarketsOk, TrueMarkets
<1>5. MarketsOk'
  <2>1. TrueMarkets(markets.shown)' /\ TrueMarkets(markets.next)'
    BY <1>2, <1>4 DEF TrueMarkets
  <2> QED BY <1>1, <1>2, <1>3, <2>1 DEF MarketsOk
<1>6. RunOk'
  <2>1. \A w \in MintsOffered \ asked : next[w] # Unknown
    BY <1>1, <1>3 DEF ChoiceInv, RunOk
  <2>2. \A w \in asked \ Pending(chooser) : session'[w] = Awaited \/ Chosen(session'[w])
    BY <1>1 DEF ChoiceInv, RunOk
  <2>3. asked \subseteq MintsOffered
    BY DEF ChoiceInv, RunOk
  <2> QED BY <1>1, <1>2, <2>1, <2>2, <2>3 DEF RunOk
<1> QED BY <1>5, <1>6

LEMMA ServedKept ==
  ASSUME ChoiceInv, NEW m \in Tokens, ServedAtOnce(m)
  PROVE  ChoiceInv'
<1>1. m \in markets.asked /\ UNCHANGED <<chooser, session, passed, frozen, link>>
  BY DEF ServedAtOnce
<1>2. KnownMarkets' = KnownMarkets
  BY <1>1 DEF KnownMarkets, Pending
<1>3. PICK v : Publish(m, v) /\ Chosen(v) /\ v = KnownMarkets[m]
  BY VerdictsAreMarkets DEF ServedAtOnce, KnownMarkets
<1>4. v # Unknown
  BY <1>3, VerdictsAreMarkets
<1>5. MarketsOk' /\ RunOk'
  BY <1>1, <1>2, <1>3, <1>4, PublishKept DEF ChoiceInv, MarketsOk
<1> QED BY <1>1, <1>2, <1>5, AnswersKept

LEMMA ServiceAnswersKept ==
  ASSUME ChoiceInv, NEW m \in Tokens, NEW v \in Fetched, ServiceAnswers(m, v)
  PROVE  ChoiceInv'
<1> DEFINE told == IF Chosen(v) THEN v ELSE Unknown
<1>1. /\ session[m] = Awaited /\ session' = [session EXCEPT ![m] = told] /\ UNCHANGED <<chooser, passed, frozen, link>>
      /\ IF m \in markets.asked THEN Publish(m, v) ELSE UNCHANGED markets
  BY DEF ServiceAnswers
<1>2. v \in Verdicts \/ v = Failed
  BY DEF Fetched
<1>3. told \in {Unknown} \cup Verdicts /\ (Chosen(v) => told = v) /\ v # Unknown
  BY <1>2, VerdictsAreMarkets
<1> HIDE DEF told
<1>4. /\ session' \in [Tokens -> {Unknown, Awaited} \cup Verdicts] /\ session'[m] = told
      /\ \A w \in Tokens \ {m} : session'[w] = session[w]
  BY <1>1, <1>3 DEF ChoiceInv, MarketsOk
<1>5. m \notin Pending(chooser) /\ Pending(chooser)' = Pending(chooser) /\ \A w \in Pending(chooser) : session'[w] = Unknown
  <2>1. Pending(chooser) \subseteq Tokens
    BY ChoiceConstants DEF Pending
  <2> QED BY <1>1, <1>4, <2>1, VerdictsAreMarkets DEF ChoiceInv, MarketsOk, Pending
<1>6. KnownMarkets[m] = Awaited /\ KnownMarkets'[m] = told /\ \A w \in Tokens \ {m} : KnownMarkets'[w] = KnownMarkets[w]
  BY <1>1, <1>4, <1>5 DEF KnownMarkets
<1>7. \A w \in Tokens : Chosen(KnownMarkets[w]) => KnownMarkets'[w] = KnownMarkets[w]
  BY <1>6, VerdictsAreMarkets
<1>8. MarketsOk' /\ RunOk'
  <2>1. CASE m \in markets.asked
    BY <1>1, <1>3, <1>4, <1>5, <1>6, <1>7, <2>1, PublishKept
  <2>2. CASE m \notin markets.asked
    <3>1. UNCHANGED <<markets, chooser>> /\ MintsOffered' = MintsOffered
      BY <1>1, <2>2 DEF MintsOffered, OfferedLegs, Choice
    <3>2. TrueMarkets(markets.shown)' /\ TrueMarkets(markets.next)'
      BY <1>7, <3>1 DEF ChoiceInv, MarketsOk, TrueMarkets
    <3>3. MarketsOk'
      BY <1>4, <1>5, <3>1, <3>2 DEF ChoiceInv, MarketsOk
    <3>4. \A w \in markets.asked \ Pending(chooser) : session'[w] = session[w]
      BY <1>4, <2>2, OffersArePolicies DEF ChoiceInv, RunOk, MintsOffered
    <3> QED BY <1>5, <3>1, <3>3, <3>4 DEF ChoiceInv, RunOk
  <2> QED BY <2>1, <2>2
<1> QED BY <1>1, <1>7, <1>8, AnswersKept

\* Nothing that the properties read moves.
LEMMA RestsKept ==
  ASSUME ChoiceInv, UNCHANGED <<chooser, markets, session, frozen, link>>
  PROVE  ChoiceInv'
<1>1. KnownMarkets' = KnownMarkets
  BY DEF KnownMarkets, Pending
<1>2. MarketsOk' /\ RunOk'
  BY <1>1 DEF ChoiceInv, MarketsOk, TrueMarkets, Pending, RunOk, MintsOffered, OfferedLegs, Choice
<1> QED BY <1>1, <1>2, AnswersKept

\* A form of the same page; its mints are a new run unless they are the old ones.
LEMMA FormFillKept ==
  ASSUME ChoiceInv, NEW f, FormTyped(f), f.page = chooser.page, Fill(f)
  PROVE  ChoiceInv'
<1> DEFINE old == MintsOffered
           new == MintsOf(OfferedLegs(f))
           askable == {m \in new \ Pending(f) : session[m] = Unknown}
<1>1. /\ chooser' = [f EXCEPT !.left = chooser.left - 1] /\ Rerun(f) /\ UNCHANGED <<frozen, link>>
  BY DEF Fill
<1>2. /\ DOMAIN chooser' = {"page", "launch", "override", "left"} /\ chooser'.page = f.page
      /\ chooser'.launch = f.launch /\ chooser'.override = f.override
  BY <1>1 DEF FormTyped
<1>3. FormTyped(chooser)' /\ MintsOffered' = new /\ Pending(chooser)' = Pending(f) /\ Pending(f) = Pending(chooser)
  BY <1>2 DEF FormTyped, MintsOffered, OfferedLegs, Choice, Pending
<1>4. new \subseteq Tokens
  BY OffersArePolicies
<1>5. \/ new = old /\ UNCHANGED <<markets, session>>
      \/ new = {} /\ markets' = [markets EXCEPT !.asked = {}] /\ UNCHANGED session
      \/ /\ new # {} /\ markets' = [markets EXCEPT !.asked = new, !.next = [m \in Tokens |-> Unknown], !.loading = TRUE]
         /\ session' = [m \in Tokens |-> IF m \in askable THEN Awaited ELSE session[m]]
  BY <1>1 DEF Rerun, MintsOffered
<1> HIDE DEF new, old
<1>6. /\ session' \in [Tokens -> {Unknown, Awaited} \cup Verdicts]
      /\ \A m \in Tokens : session'[m] = session[m] \/ (m \in askable /\ session[m] = Unknown /\ session'[m] = Awaited)
  BY <1>5 DEF ChoiceInv, MarketsOk
<1>7. \A m \in Pending(chooser) : session'[m] = Unknown
  <2>1. Pending(chooser) \subseteq Tokens
    BY ChoiceConstants DEF Pending
  <2> QED BY <1>3, <1>6, <2>1 DEF ChoiceInv, MarketsOk
<1>8. \A m \in Tokens : Chosen(KnownMarkets[m]) => KnownMarkets'[m] = KnownMarkets[m]
  BY <1>3, <1>6, VerdictsAreMarkets DEF KnownMarkets
<1>9. MarketsOk'
  <2>1. /\ DOMAIN markets' = DOMAIN markets /\ markets'.shown = markets.shown
        /\ markets'.next = markets.next \/ markets'.next = [m \in Tokens |-> Unknown]
    BY <1>5 DEF ChoiceInv, MarketsOk
  <2>2. TrueMarkets(markets.shown)'
    BY <1>8, <2>1 DEF ChoiceInv, MarketsOk, TrueMarkets
  <2>3. TrueMarkets(markets.next)' /\ DOMAIN markets'.next = Tokens
    BY <1>8, <2>1, VerdictsAreMarkets DEF ChoiceInv, MarketsOk, TrueMarkets
  <2> QED BY <1>3, <1>6, <1>7, <2>1, <2>2, <2>3 DEF ChoiceInv, MarketsOk
<1>10. RunOk'
  <2>1. CASE new = old /\ UNCHANGED <<markets, session>>
    BY <1>3, <2>1 DEF ChoiceInv, RunOk, old
  <2>2. CASE new = {} /\ markets' = [markets EXCEPT !.asked = {}]
    <3>1. markets'.asked = {}
      BY <2>2 DEF ChoiceInv, MarketsOk
    <3> QED BY <1>3, <2>2, <3>1 DEF RunOk
  <2>3. CASE new # {} /\ markets' = [markets EXCEPT !.asked = new, !.next = [m \in Tokens |-> Unknown], !.loading = TRUE]
             /\ session' = [m \in Tokens |-> IF m \in askable THEN Awaited ELSE session[m]]
    <3>1. markets'.asked = new /\ markets'.loading = TRUE
      BY <2>3 DEF ChoiceInv, MarketsOk
    <3>2. \A m \in new \ Pending(f) : session'[m] = Awaited \/ Chosen(session'[m])
      BY <1>4, <2>3, VerdictsAreMarkets DEF ChoiceInv, MarketsOk
    <3> QED BY <1>3, <2>3, <3>1, <3>2 DEF RunOk
  <2> QED BY <1>5, <2>1, <2>2, <2>3
<1>11. FrozenOk'
  <2>1. frozen.step # "idle" => PressedOf(frozen, chooser.page, KnownMarkets')
    BY <1>8, PressesStay DEF ChoiceInv, FrozenOk
  <2> QED BY <1>1, <1>2, <2>1 DEF ChoiceInv, FrozenOk
<1>12. LinkReopens'
  BY <1>1 DEF ChoiceInv, LinkReopens, Reopened
<1> QED BY <1>3, <1>9, <1>10, <1>11, <1>12 DEF ChoiceInv

LEMMA FormsKept ==
  ASSUME ChoiceInv, (\E m \in Tokens : PickToken(m)) \/ \E text \in Tokens \cup {"none", "junk"} : UpdateSearch(text) \/ TypeLaunch(text)
  PROVE  ChoiceInv'
<1>1. \A text \in Tokens \cup {"none"} : LET f == [chooser EXCEPT !.override = text] IN FormTyped(f) /\ f.page = chooser.page
  BY DEF ChoiceInv, FormTyped
<1>2. \A text \in Tokens \cup {"none", "junk"} :
        chooser.page = "existing" =>
          LET f == [chooser EXCEPT !.launch = text] IN FormTyped(f) /\ f.page = chooser.page
  BY DEF ChoiceInv, FormTyped
<1>3. CASE \E m \in Tokens : PickToken(m)
  BY <1>1, <1>3, FormFillKept DEF PickToken
<1>4. CASE \E text \in Tokens \cup {"none", "junk"} : UpdateSearch(text)
  BY <1>1, <1>4, FormFillKept DEF UpdateSearch
<1>5. CASE \E text \in Tokens \cup {"none", "junk"} : TypeLaunch(text)
  BY <1>2, <1>5, FormFillKept DEF TypeLaunch
<1> QED BY <1>3, <1>4, <1>5

LEMMA ChoiceInitial == ChoiceInit => ChoiceInv
<1> SUFFICES ASSUME ChoiceInit PROVE ChoiceInv
  OBVIOUS
<1> DEFINE none == [m \in Tokens |-> Unknown]
<1>1. /\ \E where \in {"launch", "existing"} :
           chooser = [page |-> where, launch |-> IF where = "launch" THEN Own ELSE "none", override |-> "default", left |-> MaxChoices]
      /\ session = [m \in Tokens |-> IF m = Platform THEN Awaited ELSE Unknown]
      /\ markets = [asked |-> MintsOffered, next |-> none, shown |-> none, loading |-> TRUE]
      /\ frozen = NoPress /\ link = NoLink
  BY DEF ChoiceInit, MintsOffered
<1>2. FormTyped(chooser)
  BY <1>1, ChoiceConstants DEF FormTyped
<1>3. FrozenOk /\ LinkReopens
  BY <1>1 DEF FrozenOk, LinkReopens, NoPress
<1>4. markets.asked = MintsOffered /\ markets.next = none /\ markets.shown = none /\ markets.loading = TRUE
      /\ DOMAIN markets = {"asked", "next", "shown", "loading"}
  BY <1>1
<1>5. MarketsOk
  BY <1>1, <1>4, ChoiceConstants, VerdictsAreMarkets DEF MarketsOk, TrueMarkets, Pending
<1>6. \A m \in MintsOffered \ Pending(chooser) : session[m] = Awaited
  <2>1. MintsOffered \subseteq {Platform, Own} /\ (Own \in MintsOffered => chooser.page = "launch")
    <3>1. /\ chooser.page = "launch" => Choice(chooser) = Own
          /\ chooser.page # "launch" => Choice(chooser) = "none"
      BY <1>1 DEF Choice
    <3>2. CASE chooser.page = "launch"
      <4>1. OfferedLegs(chooser) = <<WeightOn(Own, CreatorBps), WeightOn(Platform, PlatformBps)>>
        BY <3>1, <3>2, ChoiceConstants DEF OfferedLegs, BuildPolicyLegs, IsMint, FixedLeg
      <4> QED BY <3>2, <4>1 DEF MintsOffered, MintsOf, WeightOn
    <3>3. CASE chooser.page # "launch"
      <4>1. OfferedLegs(chooser) = <<WeightOn(Platform, PlatformBps)>>
        BY <3>1, <3>3, ChoiceConstants DEF OfferedLegs, BuildPolicyLegs, IsMint, FixedLeg
      <4>2. MintsOffered = {Platform}
        BY <4>1 DEF MintsOffered, MintsOf, WeightOn
      <4> QED BY <4>2, ChoiceConstants
    <3> QED BY <3>2, <3>3
  <2> QED BY <1>1, <2>1, ChoiceConstants DEF Pending
<1>7. RunOk
  BY <1>4, <1>6 DEF RunOk
<1> QED BY <1>2, <1>3, <1>5, <1>7 DEF ChoiceInv

LEMMA ChoiceStepKeeps ==
  ASSUME ChoiceInv, [ChoiceNext]_choiceVars
  PROVE  ChoiceInv'
<1>1. CASE UNCHANGED choiceVars
  BY <1>1, RestsKept DEF choiceVars
<1>2. CASE \E m \in Tokens : ServedAtOnce(m) \/ \E v \in Fetched : ServiceAnswers(m, v)
  BY <1>2, ServedKept, ServiceAnswersKept
<1>3. CASE AdmissionRuns
  BY <1>3, RestsKept DEF AdmissionRuns
<1>4. CASE PressSetup \/ SetupLands \/ SetupRefused \/ OpensShown
  BY <1>4, PressSetupKept, SetupLandsKept, SetupRefusedKept, OpensShownKept
<1>5. CASE (\E m \in Tokens : PickToken(m)) \/ \E text \in Tokens \cup {"none", "junk"} : UpdateSearch(text) \/ TypeLaunch(text)
  BY <1>5, FormsKept
<1> QED BY <1>1, <1>2, <1>3, <1>4, <1>5 DEF ChoiceNext

LEMMA ChoicesAreSound == ChoiceInv => ChoiceSound
<1> SUFFICES ASSUME ChoiceInv PROVE ChoiceSound
  OBVIOUS
<1>1. PressAdmitted
  <2> SUFFICES ASSUME frozen.step # "idle", chooser.page = "launch"
               PROVE  /\ Admits(frozen)
                      /\ \A i \in DOMAIN frozen.legs :
                           LET m == frozen.legs[i].mint
                               v == IF m = Own THEN PendingPump ELSE session[m]
                           IN  v.account = frozen.blocks[i] /\ Passes(m, v)
    BY DEF PressAdmitted
  <2>1. PressedOf(frozen, chooser.page, KnownMarkets)
    BY DEF ChoiceInv, FrozenOk
  <2>2. Admits(frozen)
    BY <2>1, PressesDerived DEF Admits, PressedOf
  <2>3. ASSUME NEW i \in DOMAIN frozen.legs
        PROVE  frozen.legs[i].mint \in Tokens
    <3>1. frozen.legs[i] \in BoundLegType
      BY <2>1, LenProperties DEF PressedOf
    <3> QED BY <3>1 DEF BoundLegType
  <2>4. \A m \in Tokens : KnownMarkets[m] = IF m = Own THEN PendingPump ELSE session[m]
    BY DEF KnownMarkets, Pending
  <2> QED BY <2>1, <2>2, <2>3, <2>4 DEF PressedOf
<1>2. ChecksEnd
  <2> SUFFICES ASSUME OfferedLegs(chooser) # << >>
               PROVE  /\ markets.loading <=> markets.asked # {}
                      /\ \A m \in MintsOffered : m \in markets.asked \/ VerdictOn(m) # Unknown
                      /\ \A m \in markets.asked \ Pending(chooser) : session[m] = Awaited \/ Chosen(session[m])
    BY DEF ChecksEnd, MintsOffered
  <2>1. MintsOffered # {}
    BY OffersArePolicies DEF ChoiceInv, MintsOffered
  <2> QED BY <2>1 DEF ChoiceInv, RunOk, VerdictOn
<1> QED BY <1>1, <1>2 DEF ChoiceInv, ChoiceSound

-----------------------------------------------------------------------------
(* The platform *)

\* A part moves only as its own module says, and the parts do not change.
LEMMA PartsMove ==
  ASSUME [MCNext]_allVars
  PROVE  /\ part' = part
         /\ part = "trip" => [TripNext]_tripVars
         /\ part = "build" => [BuildNext]_buildVars
         /\ part # "build" => UNCHANGED buildVars
         /\ [LaunchNext]_launchVars
         /\ [SendNext]_sendVars
         /\ part = "uploads" => [PipelineNext]_pipelineVars
         /\ part = "wiring" => [WiringNext]_wiringVars
         /\ part = "desk" => [DeskNext]_deskVars
         /\ part = "lookups" => [LookupNext]_lookupVars
         /\ part = "choice" => [ChoiceNext]_choiceVars
         /\ part = "discovery" => [DiscoveryNext]_discoveryVars
         /\ part = "resolving" => [ResolvingNext]_resolvingVars
         /\ part = "edge" => [EdgeNext]_edgeVars
         /\ part = "readpool" => [PoolNext]_poolVars
         /\ part = "demo" => [DemoNext]_demoVars
         /\ part = "community" => [ReadsNext]_readsVars
         /\ part = "amounts" => [NextInput]_input
         /\ part = "message" => [MessageNext]_messageVars
         /\ part = "route" => [RouteNext]_<<messageVars, route>>
<1>1. CASE UNCHANGED allVars
  BY <1>1 DEF allVars, tripVars, buildVars, launchVars, sendVars, pipelineVars, wiringVars, deskVars, lookupVars, choiceVars,
              discoveryVars, resolvingVars, poolVars, edgeVars, demoVars, readsVars, messageVars
<1>2. CASE MCNext
  <2>1. ASSUME NEW p, At(p)
        PROVE  /\ part = p /\ part' = p
               /\ p # "build" => UNCHANGED buildVars
               /\ p # "launch" => UNCHANGED launchVars
               /\ p # "send" => UNCHANGED sendVars
    BY <2>1 DEF At
  <2>2. part' = part
    BY <1>2, <2>1 DEF MCNext
  <2>3. part = "trip" => TripNext
    BY <1>2, <2>1 DEF MCNext
  <2>4. LaunchNext \/ UNCHANGED launchVars
    BY <1>2, <2>1 DEF MCNext
  <2>5. SendNext \/ UNCHANGED sendVars
    BY <1>2, <2>1 DEF MCNext
  <2>6. part = "build" => BuildNext
    BY <1>2, <2>1 DEF MCNext
  <2>7. part # "build" => UNCHANGED buildVars
    BY <1>2, <2>1 DEF MCNext
  <2>8. /\ part = "uploads" => PipelineNext
        /\ part = "wiring" => WiringNext
        /\ part = "desk" => DeskNext
        /\ part = "lookups" => LookupNext
        /\ part = "choice" => ChoiceNext
        /\ part = "discovery" => DiscoveryNext
        /\ part = "resolving" => ResolvingNext
        /\ part = "edge" => EdgeNext
        /\ part = "readpool" => PoolNext
        /\ part = "demo" => DemoNext
        /\ part = "community" => ReadsNext
        /\ part = "amounts" => NextInput
        /\ part = "message" => MessageNext
        /\ part = "route" => RouteNext
    BY <1>2, <2>1 DEF MCNext
  <2> QED BY <2>2, <2>3, <2>4, <2>5, <2>6, <2>7, <2>8
<1> QED BY <1>1, <1>2

\* Whatever the service answers, the wallet returns and strangers post, and
\* however late: the wallet is asked to sign burns of its own alone, the relay
\* carries nothing else, and receipts say what happened (callerPaidBurn of
\* app/src/chain/service.ts, assertSubmittableSignedTransaction).
THEOREM TripsAlwaysHold == MCSpec => []TripsHold
<1> DEFINE Inv == part = "trip" => TripInv
<1>1. MCInit => Inv
  BY TripInitial DEF MCInit
<1>2. Inv /\ [MCNext]_allVars => Inv'
  BY PartsMove, TripNextKeeps
<1>3. Inv => TripsHold
  BY TripsSound DEF TripsHold, In
<1> QED BY <1>1, <1>2, <1>3, PTL DEF MCSpec

\* However launches fail, are pressed again, run beside each other, land late
\* or are cut off: fees are committed only to vaults that have their accounts,
\* no coin with an image is created before its metadata is stored, and what the
\* browser remembers is true (run() of launch.tsx, existing.tsx, AppContext.tsx).
THEOREM LaunchesAlwaysKept == MCSpec => []LaunchKept
<1>1. MCInit => LaunchInv
  BY LaunchInitial DEF MCInit
<1>2. LaunchInv /\ [MCNext]_allVars => LaunchInv'
  BY PartsMove, LaunchNextKept
<1>3. LaunchInv => LaunchKept
  BY LaunchTold
<1> QED BY <1>1, <1>2, <1>3, PTL DEF MCSpec

\* confirmByPolling: what is told of a transaction stays true of it, whenever
\* it is executed and however many blocks its blockhash lives.
THEOREM VerdictsAreFinal == MCSpec => []VerdictFinal
<1>1. MCInit => SendInv
  BY SendInitial DEF MCInit
<1>2. SendInv /\ [MCNext]_allVars => SendInv'
  BY PartsMove, SendStep
<1>3. SendInv => VerdictFinal
  BY DEF SendInv
<1> QED BY <1>1, <1>2, <1>3, PTL DEF MCSpec

\* Whatever uploads run beside each other, spend one balance, are cut off or are
\* answered by Irys in either form of id: what is stored for ever is a compressed
\* image within the cap and metadata that names it, an upload that paid is given
\* up for lack of funds, a broken connection or a receipt that cannot be read
\* alone, and the mirror serves it (the executors of quote-service/server.ts and
\* cloudflare-image-worker.mjs).
THEOREM UploadsAlwaysHold == MCSpec => []UploadsHold
<1> DEFINE Inv == part = "uploads" => UploadInv
<1>1. MCInit => Inv
  BY UploadInitial DEF MCInit
<1>2. Inv /\ [MCNext]_allVars => Inv'
  BY PartsMove, UploadStepKeeps
<1>3. Inv => UploadsHold
  BY UploadsAreSound DEF UploadsHold, In
<1> QED BY <1>1, <1>2, <1>3, PTL DEF MCSpec

\* Whatever a deployment sets, and whenever signals and requests come: what serves
\* has a policy within its bounds and routes through no venue that it excludes,
\* Node and Worker serve with the same limits, an isolate initializes once, and
\* a process that leaves with 0 leaves no request unanswered (main of
\* quote-service/server.ts, quote-service/worker.ts).
THEOREM WiringAlwaysHolds == MCSpec => []WiringHolds
<1> DEFINE Inv == part = "wiring" => WiringInv
<1>1. MCInit => Inv
  BY WiringInitial DEF MCInit
<1>2. Inv /\ [MCNext]_allVars => Inv'
  BY PartsMove, WiringStepKeeps
<1>3. Inv => WiringHolds
  BY WiringsSound DEF WiringHolds, In
<1> QED BY <1>1, <1>2, <1>3, PTL DEF MCSpec

\* However answers overlap, fail and come late, choices change while markets are
\* looked up, and a coin graduates before a claim lands: a page that asks the chain
\* or a gateway itself keeps no miss that it was not told (what the service
\* answers for Jupiter is another matter, and MCCachedMiss.cfg shows it), one
\* request for a key is under way and nobody waits for one that has ended
\* (tokenName.ts and token-info.ts), what the launch page lets its creator sign is a vault that the
\* program admits at the markets that the service called fit and a link opens the
\* vault it was made for (policyPicker.tsx, referencePanel.tsx, derive.ts), and a
\* claim pays this vault and leaves nothing it could have taken (vault.tsx,
\* chain/pump.ts).
THEOREM PagesAlwaysTrue == MCSpec => []PagesTrue
<1> DEFINE Inv == /\ part = "lookups" => LookupInv
                  /\ part = "desk" => DeskInv
                  /\ part = "choice" => ChoiceInv
<1>1. MCInit => Inv
  BY LookupInitial, DeskInitial, ChoiceInitial DEF MCInit
<1>2. Inv /\ [MCNext]_allVars => Inv'
  BY PartsMove, LookupStepKeeps, DeskStepKeeps, ChoiceStepKeeps
<1>3. Inv => PagesTrue
  BY LookupsAreSound, DesksSound, ChoicesAreSound DEF PagesTrue, In
<1> QED BY <1>1, <1>2, <1>3, PTL DEF MCSpec

\* However the chain moves while markets are read and ranked, whichever reads
\* fail and whenever a deadline passes: a selected AMM keeps the gate's depth in
\* liquidity that nobody can withdraw, no market read beats the selected one, and
\* an unsupported mint is one whose every market was read and is out
\* (selectReference and createReferenceDiscovery of quote-service/markets.ts); a
\* resolution is refused on evidence and its answer gives the vault's address the
\* program's seed (resolveReference of quote-service/reference.ts); and the rows of
\* a scan are answers, each read by one worker (mapWithConcurrency of markets.ts).
THEOREM ReferencesAlwaysTrue == MCSpec => []ReferencesTrue
<1> DEFINE Inv == /\ part = "discovery" => DiscoveryInv
                  /\ part = "resolving" => ResolvingInv
                  /\ part = "readpool" => ReadsInv
<1>1. MCInit => Inv
  BY DiscoveryInitial, ResolvingInitial, ReadsInitial DEF MCInit
<1>2. Inv /\ [MCNext]_allVars => Inv'
  BY PartsMove, DiscoveryStepKeeps, ResolvingStepKeeps, ReadsStepKeeps
<1>3. Inv => ReferencesTrue
  BY DiscoveriesAreSound, ResolutionsAreSound, ReadsAreSound DEF ReferencesTrue, In
<1> QED BY <1>1, <1>2, <1>3, PTL DEF MCSpec

LEMMA BuildInvariant == MCSpec => [](part = "build" => BuildInv)
<1> DEFINE Inv == part = "build" => BuildInv
<1>1. MCInit => Inv
  BY BuildInitial DEF MCInit
<1>2. Inv /\ [MCNext]_allVars => Inv'
  BY PartsMove, BuildStepKeeps
<1> QED BY <1>1, <1>2, PTL DEF MCSpec

\* Wherever the chain moves between the awaits of buildAndSimulate: on a chain
\* that stood still no simulation ends in a refusal that the service could have
\* foreseen and no minimum is below the program's floor; the cashback retry
\* excludes what was refused, and no rung of the ladder is left out.
THEOREM BuildsAlwaysSound == MCSpec => [](part = "build" => BuildSound)
<1>1. (part = "build" => BuildInv) => (part = "build" => BuildSound)
  BY BuildsSound
<1> QED BY <1>1, BuildInvariant, PTL

\* For any number of bytes and accounts in the routes: the program decodes what
\* buildBurnInstruction of quote-service/core.ts lays out, leg by leg, route by
\* route and to the last byte (the split handler of split.rs), both sides admit
\* the same accounts of the vault, and assertRoute takes a route if and only if
\* validate_jupiter_route does, with no signature that invoke_jupiter_route
\* does not grant; beside what BuildsAlwaysSound says.
THEOREM BurnsAlwaysBuiltRight == MCSpec => []BurnsBuiltRight
<1> DEFINE Inv == /\ part = "message" => MessageInv
                  /\ part = "route" => RouteInv
           Agree == /\ part = "message" => MessageSound
                    /\ part = "route" => RouteSound
<1>1. MCInit => Inv
  BY MessageStarts, RouteStarts DEF MCInit
<1>2. Inv /\ [MCNext]_allVars => Inv'
  BY PartsMove, MessageMoves, RouteMoves
<1>3. Inv => Agree
  BY MessagesSound, RoutesSound
<1>4. (part = "build" => BuildSound) /\ Agree => BurnsBuiltRight
  BY DEF BurnsBuiltRight, In
<1> QED BY <1>1, <1>2, <1>3, <1>4, BuildsAlwaysSound, PTL DEF MCSpec

\* What admitVault and resolveReferences of quote-service/core.ts refuse, the
\* program would refuse as well, whatever its routes close; the exception is dust
\* that the rent of the vault's open accumulators would make up.
THEOREM RefusalsAreTruthful == MCSpec => PreflightTruthful
<1> DEFINE Inv == part = "build" => BuildInv
           told == build.step \in {"resolve", "vault"} /\ build'.step = "refused" /\ build.fresh
                     => DustMadeUp \/ \A credit \in {0, market.rent} : ProgramRefuses(credit)
<1>1. Inv /\ [MCNext]_allVars => [told]_buildVars
  <2> SUFFICES ASSUME Inv, [MCNext]_allVars, part = "build", build.step \in {"resolve", "vault"}, build'.step = "refused"
               PROVE  DustMadeUp \/ \A credit \in {0, market.rent} : ProgramRefuses(credit)
    BY PartsMove
  <2>1. BuildSteps
    BY PartsMove, OthersLeaveStage
  <2> QED BY <2>1, RefusalsAreTheProgram
<1> QED BY <1>1, BuildInvariant, PTL DEF MCSpec, PreflightTruthful

\* Every step of buildAndSimulate, each retry included, comes nearer to the end
\* of the burn, for any number of retries and rungs.
THEOREM BuildsAlwaysEnd == MCSpec => BuildEnds
<1> DEFINE Inv == part = "build" => BuildInv
           falls == build.step # "idle" /\ (build'.step # build.step \/ build'.rung # build.rung)
                      => Rank(build') \in 0 .. Rank(build) - 1
<1>1. Inv /\ [MCNext]_allVars => [falls]_buildVars
  <2> SUFFICES ASSUME Inv, [MCNext]_allVars, part = "build", build.step # "idle",
                      build'.step # build.step \/ build'.rung # build.rung
               PROVE  Rank(build') \in 0 .. Rank(build) - 1
    BY PartsMove
  <2>1. BuildSteps
    BY PartsMove, OthersLeaveStage
  <2>2. BuildInv'
    BY PartsMove, BuildStepKeeps
  <2> QED BY <2>1, <2>2, RankFalls
<1> QED BY <1>1, BuildInvariant, PTL DEF MCSpec, BuildEnds

\* However requests share the limiter's units, whatever the provider answers, in
\* chunks of any size and until any deadline: nothing is forwarded that was not
\* paid for in full, no pattern of the configured endpoint reaches a visitor and
\* nothing else of a body is changed, lost or added, and the timer of a request
\* lives as long as its body (handleRpc, handleApi, rateLimited and
\* safeRpcResponseBody of app/worker.ts).
THEOREM EdgeAlwaysHolds == MCSpec => []EdgeHolds
<1> DEFINE Inv == part = "edge" => EdgeInv
<1>1. MCInit => Inv
  BY EdgeInitial DEF MCInit
<1>2. Inv /\ [MCNext]_allVars => Inv'
  BY PartsMove, EdgeStepKeeps
<1>3. Inv => EdgeHolds
  BY EdgeIsSound DEF EdgeHolds, In
<1> QED BY <1>1, <1>2, <1>3, PTL DEF MCSpec

\* Whatever Jupiter, a simulation and the RPC answer, however the requests of any
\* number of callers interleave and whichever of them give up half way: unless
\* the answer to a submission was lost a burn sends one transaction, what the
\* demo says of it is true, no failure is called hopeless on a venue that could
\* have been left out, no table lacks an address and no coin is tipped over
\* (executeBurn, ensureVaultLookupTable, demoTrade, tokenInfo of
\* scripts/demo-burn-service.ts).  It does not matter how long a lease lasts.
THEOREM DemoHonestAlways == MCSpec => [](part = "demo" => DemoHonest)
<1> DEFINE Inv == part = "demo" => DemoInv
<1>1. MCInit => Inv
  BY DemoInitial DEF MCInit
<1>2. Inv /\ [MCNext]_allVars => Inv'
  BY PartsMove, DemoStepKeeps
<1>3. Inv => (part = "demo" => DemoHonest)
  BY DemoInvHonest
<1> QED BY <1>1, <1>2, <1>3, PTL DEF MCSpec

\* If the lease of a submitted burn outlasts its confirmation, a vault also has
\* one transaction outstanding while no answer is lost (core.ts:1222-1226).
THEOREM DemoAlwaysHolds == ASSUME ~SlowFetch PROVE MCSpec => []DemoHolds
<1> DEFINE Inv == part = "demo" => DemoInv
<1>1. MCInit => Inv
  BY DemoInitial DEF MCInit
<1>2. Inv /\ [MCNext]_allVars => Inv'
  BY PartsMove, DemoStepKeeps
<1>3. Inv => DemoHolds
  BY DemoInvSound DEF DemoHolds, In
<1> QED BY <1>1, <1>2, <1>3, PTL DEF MCSpec

\* Whatever calls the finalized transactions are made of, wherever the runtime
\* cuts their logs, and whatever is stored between two pages or two queries: the
\* rows are the burns, a summary misses none that was there, the board
\* understates nothing, and a link opens the vault it stands beside
\* (burnLogGroups, communityVaultSummary, communityLeaderboard of
\* app/community-indexer.ts).
THEOREM CommunityAlwaysHolds == MCSpec => []CommunityHolds
<1> DEFINE Inv == part = "community" => CommunityInv /\ InKeyOrder(AllRows)
<1>1. MCInit => Inv
  BY ReadsStart DEF MCInit
<1>2. Inv /\ [MCNext]_allVars => Inv'
  <2> SUFFICES ASSUME Inv, [MCNext]_allVars, part' = "community" PROVE CommunityInv' /\ InKeyOrder(AllRows)'
    OBVIOUS
  <2>1. part = "community" /\ [ReadsNext]_readsVars
    BY PartsMove
  <2>2. CommunityInv /\ InKeyOrder(AllRows)
    BY <2>1
  <2>3. CommunityInv' /\ AllRows' = AllRows
    BY <2>1, <2>2, ReadsMove, RowsStay, Zenon
  <2>4. InKeyOrder(AllRows)' <=> InKeyOrder(AllRows')
    BY Zenon DEF InKeyOrder, IsRow, Key
  <2> QED BY <2>2, <2>3, <2>4, Zenon
<1>3. Inv => CommunityHolds
  BY CommunityAlwaysSound DEF CommunityHolds, In
<1> QED BY <1>1, <1>2, <1>3, PTL DEF MCSpec

\* What is divided and offered: for every vector of weights the decoder admits,
\* every total and every cap, the legs of a burn add up to it, none but the final
\* one is more than its share, the final leg absorbs no more than the roundings,
\* and the max button fits (handler of split.rs, capTotal and maxBurnNow of vault.tsx).
THEOREM AmountsAlwaysHold == MCSpec => []AmountsHold
<1> DEFINE Inv == part = "amounts" => InputInv
<1>1. MCInit => Inv
  BY InputInitial DEF MCInit
<1>2. Inv /\ [MCNext]_allVars => Inv'
  BY PartsMove, InputStepKeeps
<1>3. Inv => AmountsHold
  BY AmountsAreFair DEF AmountsHold, In, InputInv
<1> QED BY <1>1, <1>2, <1>3, PTL DEF MCSpec

\* What a floor is: for every curve, pool, table of tiers and bin whose figures
\* the program can read, the floor of the fallback is the strictest one, a curve
\* pays the floor it was asked for, the service quotes the program's floor, and no
\* product behind it wraps (keyless_leg_floor, dlmm_price_q64; makeFloor of reference.ts).
THEOREM FloorsAlwaysHold == MCSpec => []FloorsHold
<1> DEFINE Inv == part = "amounts" => InputInv
<1>1. MCInit => Inv
  BY InputInitial DEF MCInit
<1>2. Inv /\ [MCNext]_allVars => Inv'
  BY PartsMove, InputStepKeeps
<1>3. Inv => FloorsHold
  BY FloorsAreSound DEF FloorsHold, In, InputInv
<1> QED BY <1>1, <1>2, <1>3, PTL DEF MCSpec

=============================================================================
