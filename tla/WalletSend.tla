----------------------------- MODULE WalletSend -----------------------------
(***************************************************************************)
(* One transaction of the application (app/src/chain/instructions.ts,      *)
(* sendWithWallet and confirmByPolling): signed by the wallet, sent, and   *)
(* asked for over HTTP until it is seen or its blockhash has expired.  The *)
(* launch, the lookup tables and the claims are made of such sends; they   *)
(* go on after "ok" and stop after anything else.                          *)
(*                                                                         *)
(* One node answers all questions, and what it has processed stays: forks  *)
(* are not modelled.                                                       *)
(***************************************************************************)
EXTENDS Integers

CONSTANT LastValid   \* lastValidBlockHeight, counted from the transaction's signing

ASSUME SendConstants == LastValid \in Nat

VARIABLES
  send,     \* [step, told]: where the page is and what the caller is told
  status,   \* of the signature: unseen, processed, confirmed or failed
  sent,     \* a node has the transaction
  height    \* of the confirmed chain

sendVars == <<send, status, sent, height>>

SendInit ==
  /\ send = [step |-> "sign", told |-> ""] /\ status = "unseen" /\ sent = FALSE /\ height = 0

Tell(what) == send' = [step |-> "over", told |-> what]
GoTo(s)    == send' = [send EXCEPT !.step = s]
ChainSame  == UNCHANGED <<status, sent, height>>

\* The wallet signs, or declines.
WalletSigns(signs) ==
  /\ send.step = "sign" /\ (IF signs THEN GoTo("send") ELSE Tell("error")) /\ ChainSame

\* sendRawTransaction: refused by preflight, taken, or taken although the call
\* fails.
SendRaw(taken, fails) ==
  /\ send.step = "send" /\ (taken \/ fails)
  /\ sent' = taken /\ (IF fails THEN Tell("error") ELSE GoTo("status"))
  /\ UNCHANGED <<status, height>>

\* getSignatureStatuses
AskStatus ==
  /\ send.step = "status"
  /\ CASE status = "failed"    -> Tell("failed")
       [] status = "confirmed" -> Tell("ok")
       [] OTHER                -> GoTo("height")
  /\ ChainSame

\* getBlockHeight
AskHeight ==
  /\ send.step = "height" /\ GoTo(IF height > LastValid THEN "late" ELSE "status") /\ ChainSame

FaultyAskLate == send.step = "late" /\ Tell("failed") /\ ChainSame

\* Expired: one more look at the status.
AskLate ==
  /\ send.step = "late"
  /\ Tell(IF status \in {"processed", "confirmed"} THEN "ok" ELSE "failed")
  /\ ChainSame

\* Any question may fail.
AskBreaks == send.step \in {"status", "height", "late"} /\ Tell("error") /\ ChainSame

\* The transaction is executed while its blockhash is valid.
Execute(how) ==
  /\ sent /\ status = "unseen" /\ height <= LastValid /\ status' = how
  /\ UNCHANGED <<send, sent, height>>

Confirm == status = "processed" /\ status' = "confirmed" /\ UNCHANGED <<send, sent, height>>

NewBlock == height <= LastValid /\ height' = height + 1 /\ UNCHANGED <<send, status, sent>>

SendNext ==
  \/ \E signs \in BOOLEAN : WalletSigns(signs)
  \/ \E taken, fails \in BOOLEAN : SendRaw(taken, fails)
  \/ AskStatus \/ AskHeight \/ AskLate \/ AskBreaks
  \/ \E how \in {"processed", "failed"} : Execute(how)
  \/ Confirm \/ NewBlock

SendSpec == SendInit /\ [][SendNext]_sendVars

-----------------------------------------------------------------------------
(* Properties *)

\* A verdict is final: what the caller is told was executed has been, and a
\* transaction it is told has failed is not executed and cannot be any more,
\* also when it was executed between two of the questions.
VerdictFinal ==
  /\ send.told = "ok" => status \in {"processed", "confirmed"}
  /\ send.told = "failed" =>
       status = "failed" \/ (status = "unseen" /\ height > LastValid)

=============================================================================
