----------------------------- MODULE BurnMessage -----------------------------
(***************************************************************************)
(* The burn instruction between its two ends: buildBurnInstruction and     *)
(* splitData of quote-service/core.ts lay out accounts and data, the       *)
(* handler of split.rs reads both back by position.  With the service's    *)
(* and the program's check of the vault's token accounts, and the signing  *)
(* of the message on the one-shot path.  A case is drawn, built and        *)
(* signed.                                                                 *)
(***************************************************************************)
EXTENDS Integers, SequencesExt

CONSTANTS
  MaxLegs,        \* bound: legs of a burn
  RouteSizes,     \* numbers of accounts of a route
  DataSizes       \* lengths of a route's data; 0 buys on the curve

ASSUME MessageConstants ==
  MaxLegs \in 1..4 /\ RouteSizes \subseteq Nat /\ DataSizes \subseteq Nat

VARIABLES
  draft,   \* the legs: [route, data]
  held,    \* a token account of the vault as it is on the chain
  message  \* [step, signature]

messageVars == <<draft, held, message>>

-----------------------------------------------------------------------------
(* The vault's token accounts *)

Roles == {"wsol", "spl", "t22"}

\* ImmutableOwner, TransferHookAccount and another extension.  An account at the
\* address derived for it always has its mint.
HeldAccounts ==
  {a \in [role : Roles, state : {"none", "empty", "frozen", "live"}, ours : BOOLEAN, delegate : BOOLEAN,
          close : BOOLEAN, ext : SUBSET {7, 15, 8}] : a.ext # {} <=> a.role = "t22"}

FaultyReadyAccount(a) == a.state \in {"frozen", "live"}
ReadyAccount(a)       == a.state = "live"

RequireTokenAccount(a) ==
  /\ ReadyAccount(a) /\ a.ours
  /\ ~a.delegate /\ ~a.close
  /\ a.role = "t22" => a.ext \subseteq {7, 15}

TokenAmountChecked(a) == a.state = "live" /\ ~a.delegate /\ ~a.close /\ a.ours

\* validate_target_account looks at the extensions; an account of wrapped SOL
\* at its derived address is always native.
ValidateTargetAccount(a) == TokenAmountChecked(a) /\ (a.role = "t22" => a.ext \subseteq {7, 15})
ValidateWsolAccount(a)   == TokenAmountChecked(a)

ValidateAccount(a) == IF a.role = "wsol" THEN ValidateWsolAccount(a) ELSE ValidateTargetAccount(a)

-----------------------------------------------------------------------------
(* The service writes.  An account is [role, leg, n]. *)

FixedRoles == <<"caller", "reserved", "vault", "wsol", "launch", "system", "spl", "jupiter">>
LegRoles   == <<"mint", "ata", "program", "pool", "vaultA", "vaultB", "fee">>

FixedBlock == [n \in 1..Len(FixedRoles) |-> [role |-> FixedRoles[n], leg |-> 0, n |-> n]]
LegBlock(i) == [n \in 1..Len(LegRoles) |-> [role |-> LegRoles[n], leg |-> i, n |-> n]]
RouteBlock(d, i) == [n \in 1..d[i].route |-> [role |-> "route", leg |-> i, n |-> n]]

\* Each leg's route behind its block.
FaultyBurnAccounts(d) == FixedBlock \o FlattenSeq([i \in 1..Len(d) |-> LegBlock(i) \o RouteBlock(d, i)])

BurnAccounts(d) ==
  FixedBlock \o FlattenSeq([i \in 1..Len(d) |-> LegBlock(i)])
             \o FlattenSeq([i \in 1..Len(d) |-> RouteBlock(d, i)])

\* A route says itself which of its accounts it writes.
Writable(a) == a.role \in {"vault", "wsol", "mint", "ata"}
Signs(a)    == a.role = "caller"

\* The data behind the discriminator as fields [what, leg, width, value].
Field(what, i, width, value) == [what |-> what, leg |-> i, width |-> width, value |-> value]

LegFields(d, i) ==
  <<Field("bps", i, 2, 0), Field("minimum", i, 8, 0), Field("accounts", i, 1, d[i].route),
    Field("length", i, 4, d[i].data), Field("data", i, d[i].data, 0)>>

SplitData(d) ==
  <<Field("total", 0, 8, 0), Field("legs", 0, 4, Len(d))>> \o FlattenSeq([i \in 1..Len(d) |-> LegFields(d, i)])

TooMany(d) == \E i \in 1..Len(d) : d[i].route > 255

-----------------------------------------------------------------------------
(* The program reads *)

\* The sum of the first k numbers.
SumTo(numbers, k) ==
  LET sum[n \in 0..Len(numbers)] == IF n = 0 THEN 0 ELSE sum[n - 1] + numbers[n] IN sum[k]

OffsetOf(fields, k) == SumTo([n \in 1..Len(fields) |-> fields[n].width], k - 1)

\* The field that starts at a byte, of the width read there.
FieldAt(fields, byte, width) ==
  LET at == {k \in 1..Len(fields) : OffsetOf(fields, k) = byte /\ fields[k].width = width}
  IN  IF at = {} THEN Field("torn", 0, width, 0) ELSE fields[CHOOSE k \in at : \A j \in at : k <= j]

ArgsPrefixLen == 12
LegHeaderLen  == 15

\* LegSpec: what a leg's header says, and where its data lies.
LegSpec(fields, cursor) ==
  [bps |-> FieldAt(fields, cursor, 2), minimum |-> FieldAt(fields, cursor + 2, 8),
   accounts |-> FieldAt(fields, cursor + 10, 1), length |-> FieldAt(fields, cursor + 11, 4),
   start |-> cursor + LegHeaderLen]

DataEnd(spec) == spec.start + spec.length.value

Decode(fields) ==
  LET count == FieldAt(fields, 8, 4).value
      specs[i \in 0..count] ==
        IF i = 0 THEN <<>>
        ELSE Append(specs[i - 1], LegSpec(fields, IF i = 1 THEN ArgsPrefixLen ELSE DataEnd(specs[i - 1][i - 1])))
  IN  specs[count]

AccountsPerTarget == 7

TargetBase(i) == Len(FixedRoles) + AccountsPerTarget * (i - 1)

\* The slice of the route pool a leg's route takes: it ends where the next starts.
RouteStart(specs, i) ==
  Len(FixedRoles) + AccountsPerTarget * Len(specs)
    + SumTo([n \in 1..Len(specs) |-> specs[n].accounts.value], i - 1)

-----------------------------------------------------------------------------
(* Steps *)

Drafts == UNION {[1..n -> [route : RouteSizes, data : DataSizes]] : n \in 1..MaxLegs}

Spare == CHOOSE a \in HeldAccounts : a.role = "wsol" /\ RequireTokenAccount(a)

MessageInit ==
  /\ \/ draft \in Drafts /\ held = Spare
     \/ draft = <<[route |-> 0, data |-> 0]>> /\ held \in HeldAccounts
  /\ message = [step |-> "drafted", signature |-> "none"]

MessageGoes(step) == message' = [message EXCEPT !.step = step] /\ UNCHANGED <<draft, held>>

BuildMessage ==
  /\ message.step = "drafted"
  /\ MessageGoes(IF RequireTokenAccount(held) /\ ~TooMany(draft) THEN "built" ELSE "refused")

\* What the signer answers: a signature of this message, of another one, or
\* something that is no signature.
Signatures == {"own", "other", "short"}

FaultyVerifyEd25519(s) == s # "short"
VerifyEd25519(s) == s = "own"

SignComplete(s) ==
  /\ message.step = "built"
  /\ message' = IF VerifyEd25519(s) THEN [step |-> "signed", signature |-> s]
                                     ELSE [message EXCEPT !.step = "unsigned"]
  /\ UNCHANGED <<draft, held>>

MessageNext == BuildMessage \/ \E s \in Signatures : SignComplete(s)

-----------------------------------------------------------------------------
(* Properties *)

Offered == message.step \in {"built", "signed"}

DataField(i) == 2 + 5 * i

\* What the program takes from each position is what the service put there for
\* it: every account of every leg, every slice of the route pool, every field
\* of the data; and nothing is left over.
LayoutAgrees ==
  Offered =>
    LET accounts == BurnAccounts(draft)
        fields   == SplitData(draft)
        specs    == Decode(fields)
    IN  /\ Len(specs) = Len(draft)
        /\ \A i \in 1..Len(draft) :
             /\ specs[i].bps.what = "bps" /\ specs[i].minimum.what = "minimum"
             /\ {specs[i].bps.leg, specs[i].minimum.leg, specs[i].accounts.leg} = {i}
             /\ specs[i].start = OffsetOf(fields, DataField(i))
             /\ SubSeq(accounts, TargetBase(i) + 1, TargetBase(i) + AccountsPerTarget) = LegBlock(i)
             /\ SubSeq(accounts, RouteStart(specs, i) + 1, RouteStart(specs, i + 1)) = RouteBlock(draft, i)
        /\ DataEnd(specs[Len(draft)]) = OffsetOf(fields, Len(fields) + 1)
        /\ Len(accounts) = RouteStart(specs, Len(draft) + 1)

\* The program's write locks and its one signature are asked for.
LocksAgree ==
  Offered =>
    LET accounts == BurnAccounts(draft)
    IN  /\ Signs(accounts[1]) /\ Writable(accounts[3]) /\ Writable(accounts[4])
        /\ \A i \in 1..Len(draft) :
             Writable(accounts[TargetBase(i) + 1]) /\ Writable(accounts[TargetBase(i) + 2])

\* A burn is built over exactly the token accounts that the program admits.
AccountsAgree ==
  /\ Offered => ValidateAccount(held)
  /\ message.step = "refused" => TooMany(draft) \/ ~ValidateAccount(held)

\* A message leaves signed by a signature of itself.
SignedIsOwn == message.step = "signed" => message.signature = "own"

\* What the service sends is what the program reads and admits.
MessageSound == LayoutAgrees /\ LocksAgree /\ AccountsAgree /\ SignedIsOwn

=============================================================================
