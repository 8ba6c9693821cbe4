------------------------------ MODULE RouteChecks ------------------------------
(***************************************************************************)
(* A route on its way from Jupiter into the program.  assertRoute of       *)
(* quote-service/core.ts and validate_jupiter_route of swap_and_burn.rs    *)
(* pin its bytes and accounts, each by offsets of its own, and             *)
(* invoke_jupiter_route hands it the vault's signature.  What Jupiter says *)
(* beside the instruction is in BurnBuild.                                 *)
(***************************************************************************)
EXTENDS BurnMessage

VARIABLE route  \* [data, accounts, signers, step, granted]; accounts are
                \* roles, signers and granted positions among them

-----------------------------------------------------------------------------
(* Jupiter *)

Input == 5  \* the leg's amount_in

\* The scalars of route_v2 and of shared_accounts_route_v2, before the plan.
JupiterData(kind) ==
  <<Field(kind, 0, 8, 0)>>
    \o (IF kind = "shared" THEN <<Field("id", 0, 1, 7)>> ELSE <<>>)
    \o <<Field("input", 0, 8, Input), Field("quoted", 0, 8, 9), Field("slippage", 0, 2, 3),
         Field("platform", 0, 2, 0), Field("positive", 0, 2, 0), Field("plan", 0, 4, 1)>>

JupiterAccounts(kind) ==
  IF kind = "shared"
    THEN <<"authority", "vault", "wsol", "sharedIn", "sharedOut", "ata", "wsolMint", "mint", "spl", "program",
           "event", "jupiter">>
    ELSE <<"vault", "wsol", "ata", "wsolMint", "mint", "spl", "program", "ata", "event", "jupiter">>

With(data, what, value) ==
  [k \in DOMAIN data |-> IF data[k].what = what THEN [data[k] EXCEPT !.value = value] ELSE data[k]]

\* Nothing at all, a plan cut off, another amount, a fee.
DataCases(kind) ==
  LET data == JupiterData(kind)
  IN  {data, <<>>, Front(data), With(data, "input", Input - 1), With(data, "platform", 1), With(data, "positive", 1)}

\* A pool behind the fixed accounts, with the vault and the caller once more;
\* an account too few, or one that is another's.
AccountCases(kind) ==
  LET fixed == JupiterAccounts(kind)
  IN  {fixed \o <<"pool">>, fixed \o <<"vault", "caller", "pool">>, Front(fixed)}
        \cup {[fixed EXCEPT ![n] = "stranger"] : n \in DOMAIN fixed}

VaultAt(accounts) == {n \in DOMAIN accounts : accounts[n] = "vault"}

Drawn(data, accounts, signers) ==
  [data |-> data, accounts |-> accounts, signers |-> signers, step |-> "quoted", granted |-> {}]

RouteCases(kind) ==
  UNION {{Drawn(d, s, VaultAt(s)), Drawn(d, s, {}), Drawn(d, s, {Len(s)})} :
           d \in DataCases(kind), s \in AccountCases(kind)}

RouteInit == route \in RouteCases("direct") \cup RouteCases("shared") \cup RouteCases("other")

-----------------------------------------------------------------------------
(* The service *)

\* Positions count from 0.
HasAt(accounts, n, role) == n < Len(accounts) /\ accounts[n + 1] = role

FieldIs(data, byte, width, value) ==
  LET field == FieldAt(data, byte, width) IN field.what # "torn" /\ field.value = value

Bytes(data) == OffsetOf(data, Len(data) + 1)

Offsets(shared) ==
  IF shared
    THEN [fixed |-> 12, input |-> 9, platformFee |-> 27, positiveSlippageFee |-> 29,
          pins |-> {<<1, "vault">>, <<2, "wsol">>, <<5, "ata">>, <<6, "wsolMint">>, <<7, "mint">>, <<8, "spl">>,
                    <<9, "program">>, <<10, "event">>, <<11, "jupiter">>}]
    ELSE [fixed |-> 10, input |-> 8, platformFee |-> 26, positiveSlippageFee |-> 28,
          pins |-> {<<0, "vault">>, <<1, "wsol">>, <<2, "ata">>, <<3, "wsolMint">>, <<4, "mint">>, <<5, "spl">>,
                    <<6, "program">>, <<8, "event">>, <<9, "jupiter">>, <<7, "ata">>}]

FaultyRouteAsserted(r) == r.data # <<>> /\ r.data[1].what \in {"direct", "shared"}

RouteAsserted(r) ==
  /\ r.data # <<>> /\ r.data[1].what \in {"direct", "shared"}
  /\ LET o == Offsets(r.data[1].what = "shared")
     IN  /\ Bytes(r.data) >= o.positiveSlippageFee + 6
         /\ FieldIs(r.data, o.input, 8, Input)
         /\ FieldIs(r.data, o.platformFee, 2, 0) /\ FieldIs(r.data, o.positiveSlippageFee, 2, 0)
         /\ Len(r.accounts) >= o.fixed
         /\ \A pin \in o.pins : HasAt(r.accounts, pin[1], pin[2])
  /\ r.signers \subseteq VaultAt(r.accounts)

-----------------------------------------------------------------------------
(* The program *)

ArgsPrefix(shared) == 8 + (IF shared THEN 1 ELSE 0) + 8 + 8 + 2 + 2 + 2 + 4

\* validate_jupiter_route_data: the shared route has its id before the amount.
RouteDataTaken(data) ==
  /\ data # <<>> /\ data[1].what \in {"direct", "shared"}
  /\ LET shift == IF data[1].what = "shared" THEN 1 ELSE 0
     IN  /\ Bytes(data) >= ArgsPrefix(data[1].what = "shared")
         /\ FieldIs(data, 8 + shift, 8, Input)
         /\ FieldIs(data, 26 + shift, 2, 0) /\ FieldIs(data, 28 + shift, 2, 0)

\* The indexes of the fixed accounts, in the order of each route's layout.
DirectFixed == <<"vault", "wsol", "ata", "wsolMint", "mint", "spl", "program", "ata", "event", "jupiter">>
SharedFixed == <<"vault", "wsol", "ata", "wsolMint", "mint", "spl", "program", "event", "jupiter">>
SharedIndex == <<1, 2, 5, 6, 7, 8, 9, 10, 11>>

\* validate_jupiter_route
RouteTaken(r) ==
  /\ RouteDataTaken(r.data)
  /\ IF r.data[1].what = "direct"
       THEN \A n \in DOMAIN DirectFixed : HasAt(r.accounts, n - 1, DirectFixed[n])
       ELSE /\ Len(r.accounts) >= 12
            /\ \A n \in DOMAIN SharedFixed : HasAt(r.accounts, SharedIndex[n], SharedFixed[n])

\* invoke_jupiter_route signs at every position of the vault, and only there.
FaultySignedFor(accounts) == {n \in DOMAIN accounts : accounts[n] \in {"vault", "caller"}}
SignedFor(accounts)       == {n \in DOMAIN accounts : accounts[n] = "vault"}

\* A leg without data buys on the curve.
IsCurveLeg(r) == r.data = <<>>

-----------------------------------------------------------------------------
(* Steps *)

AssertsRoute ==
  /\ route.step = "quoted"
  /\ route' = [route EXCEPT !.step = IF RouteAsserted(route) THEN "asserted" ELSE "refused"]

TakesRoute ==
  /\ route.step = "asserted"
  /\ route' = IF IsCurveLeg(route) THEN [route EXCEPT !.step = "bought"]
              ELSE IF RouteTaken(route) THEN [route EXCEPT !.step = "invoked", !.granted = SignedFor(route.accounts)]
              ELSE [route EXCEPT !.step = "failed"]

RouteNext == (AssertsRoute \/ TakesRoute) /\ UNCHANGED messageVars

-----------------------------------------------------------------------------
(* Properties *)

\* A route the service took is one the program takes, as a route and never as
\* a purchase on the curve; one it refused the program would have refused, or
\* the signatures it asks for are not to be had.
ChecksAgree ==
  /\ route.step \notin {"failed", "bought"}
  /\ route.step = "refused" => ~RouteTaken(route) \/ ~(route.signers \subseteq SignedFor(route.accounts))

\* An untouched route of Jupiter's goes all the way, wherever it repeats the
\* vault.
UntouchedPasses ==
  \A kind \in {"direct", "shared"} :
    LET fixed == JupiterAccounts(kind)
    IN  route.data = JupiterData(kind) /\ Len(route.accounts) > Len(fixed)
          /\ route.signers \subseteq VaultAt(route.accounts) => route.step # "refused"

\* The route gets every signature that it asks for, and nobody's but the vault's.
SignaturesServed ==
  route.step = "invoked" => route.signers \subseteq route.granted /\ route.granted \subseteq VaultAt(route.accounts)

RouteSound == ChecksAgree /\ UntouchedPasses /\ SignaturesServed

=============================================================================
