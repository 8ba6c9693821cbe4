------------------------------ MODULE Lookups -------------------------------
(***************************************************************************)
(* Names, icons and reference selections of tokens, and the caches in      *)
(* front of them: quote-service/token-info.ts in a warm worker, and        *)
(* app/src/chain/tokenName.ts and app/src/pages/referencePanel.tsx in the  *)
(* page.  All have one form: a hit is returned, a request under way is     *)
(* joined, and otherwise one is made and its result kept, if it is one     *)
(* that may be kept.  They differ in when that is.                         *)
(***************************************************************************)
EXTENDS Integers, FiniteSets, Sequences

CONSTANTS
  Clients,    \* calls of the lookup
  Keys,       \* mints, metadata URIs or queries
  CacheMax,   \* INFO_CACHE_MAX, IMAGE_CACHE_MAX
  MaxHops     \* redirects of an icon that are followed

ASSUME LookupConstants == CacheMax \in Nat \ {0} /\ MaxHops \in Nat \ {0}

\* A cache: which results are kept (all after "headers" arrived, all after the
\* "body" was read, or the "found" ones), whether requests are joined and
\* whether it is capped.  place is "service" or "page"; asks is who answers:
\* the "source" itself (Jupiter, the chain, a gateway, the service's markets) or
\* "tokenInfo" of the service, which asks Jupiter in its turn.
Cache(place, asks, keeps, joins, capped) ==
  [place |-> place, asks |-> asks, keeps |-> keeps, joins |-> joins, capped |-> capped]

\* tokenSearch and tokenInfo count a result as complete before its body is read.
SearchCache == Cache("service", "source", "headers", TRUE, TRUE)
InfoCache   == Cache("service", "source", "headers", TRUE, TRUE)

\* tokenImageBytes keeps bytes only.
ImageCache == Cache("service", "source", "found", TRUE, TRUE)

\* fetchTokenName with fetchMetaplexName, fetchTokenImage, and
\* fetchServiceToken, which asks tokenInfo of the service.
NameCache    == Cache("page", "source", "body", TRUE, FALSE)
PictureCache == Cache("page", "source", "body", FALSE, FALSE)
ServiceCache == Cache("page", "tokenInfo", "body", TRUE, FALSE)

\* selectionCache holds the promise itself and forgets it when nothing was
\* chosen: a failure to choose is never kept.
SelectionCache == Cache("page", "source", "found", TRUE, FALSE)

Caches == {SearchCache, InfoCache, ImageCache, NameCache, PictureCache, ServiceCache, SelectionCache}

VARIABLES
  kind,      \* the cache of this behaviour
  upstream,  \* what the source says of a key: "known" or "unknown"
  kept,      \* the Map in insertion order: a sequence of [key, value, told]; told is
             \* history: the source's whole answer was read
  work       \* each client: [step, key, got, complete, hops]

lookupVars == <<kind, upstream, kept, work>>

NoWork == [step |-> "idle", key |-> "", got |-> "", complete |-> FALSE, hops |-> 0]

LookupInit ==
  /\ kind \in Caches /\ upstream \in [Keys -> {"known", "unknown"}]
  /\ kept = <<>> /\ work = [w \in Clients |-> NoWork]

KeptKeys == {kept[i].key : i \in DOMAIN kept}
Hit(k)   == kept[CHOOSE i \in DOMAIN kept : kept[i].key = k].value

\* Clients with a request to the source.
Asking(k) == {w \in Clients : work[w].key = k /\ work[w].step \in {"headers", "body"}}

\* A lookup up to its first await.
Look(w, k) ==
  /\ work[w].step = "idle"
  /\ work' = [work EXCEPT ![w] =
       IF k \in KeptKeys THEN [NoWork EXCEPT !.step = "done", !.key = k, !.got = Hit(k)]
       ELSE IF kind.joins /\ Asking(k) # {} THEN [NoWork EXCEPT !.step = "joined", !.key = k]
       ELSE [NoWork EXCEPT !.step = "headers", !.key = k]]
  /\ UNCHANGED <<kind, upstream, kept>>

\* remember: a full cache drops its oldest entry first.
Remember(k, value, told) ==
  LET room == IF kind.capped /\ Len(kept) >= CacheMax THEN Tail(kept) ELSE kept
      entry == [key |-> k, value |-> value, told |-> told]
  IN  IF \E i \in DOMAIN room : room[i].key = k
        THEN [i \in DOMAIN room |-> IF room[i].key = k THEN entry ELSE room[i]]
        ELSE Append(room, entry)

FaultyKeeps(value, complete) == TRUE

\* What is kept.
Keeps(value, complete) == value = "known" \/ (complete /\ kind.keeps # "found")

\* The request ends: it is kept or not, and those who joined it get its result.
Ends(w, value, complete, told) ==
  LET k == work[w].key
      waiting == {w} \cup (IF kind.joins THEN {v \in Clients : work[v].key = k /\ work[v].step = "joined"} ELSE {})
  IN  /\ kept' = IF Keeps(value, complete) THEN Remember(k, value, told) ELSE kept
      /\ work' = [v \in Clients |-> IF v \in waiting THEN [work[v] EXCEPT !.step = "done", !.got = value]
                                    ELSE work[v]]
      /\ UNCHANGED <<kind, upstream>>

\* The response has arrived, with success or not; or there is none in time.
Headers(w, ok) ==
  /\ work[w].step = "headers"
  /\ IF ok THEN /\ work' = [work EXCEPT ![w].step = "body", ![w].complete = kind.keeps = "headers"]
                /\ UNCHANGED <<kind, upstream, kept>>
           ELSE Ends(w, "unknown", FALSE, FALSE)

\* The body is read, or breaks off or is no JSON.  A body of the service says
\* what Jupiter told the service, where it told it anything.
BodyRead(w) ==
  work[w].step = "body" /\ Ends(w, upstream[work[w].key], TRUE, TRUE)

BodyBreaks(w) ==
  work[w].step = "body" /\ Ends(w, "unknown", work[w].complete, FALSE)

\* tokenInfo of the service swallows a timeout or a failure of Jupiter, and its
\* caller is answered 200 with found: false, in full.
Swallowed(w) ==
  kind.asks = "tokenInfo" /\ work[w].step = "body" /\ Ends(w, "unknown", TRUE, FALSE)

\* tokenImageBytes follows redirects by hand, to hosts that fetchableIconUrl
\* accepts; the loop ends without an icon.
Redirect(w, fetchable) ==
  /\ kind = ImageCache /\ work[w].step = "body"
  /\ IF fetchable /\ work[w].hops + 1 < MaxHops
       THEN /\ work' = [work EXCEPT ![w].step = "headers", ![w].hops = @ + 1]
            /\ UNCHANGED <<kind, upstream, kept>>
       ELSE Ends(w, "unknown", FALSE, FALSE)

\* The same place looks again later.
Again(w) ==
  /\ work[w].step = "done" /\ work' = [work EXCEPT ![w] = NoWork]
  /\ UNCHANGED <<kind, upstream, kept>>

\* A launch, or a listing, makes an unknown token known.
Listed(k) ==
  /\ upstream[k] = "unknown" /\ upstream' = [upstream EXCEPT ![k] = "known"]
  /\ UNCHANGED <<kind, kept, work>>

LookupNext ==
  \/ \E w \in Clients :
       \/ \E k \in Keys : Look(w, k)
       \/ \E ok \in BOOLEAN : Headers(w, ok) \/ Redirect(w, ok)
       \/ BodyRead(w) \/ BodyBreaks(w) \/ Swallowed(w) \/ Again(w)
  \/ \E k \in Keys : Listed(k)

-----------------------------------------------------------------------------
(* Properties *)

\* A negative entry was told by the source itself, in full.
Evidence == \A i \in DOMAIN kept : kept[i].value = "unknown" => kept[i].told

\* "A timeout is not evidence that metadata is absent" (tokenName.ts): where
\* the page asks the chain or a gateway itself, it keeps no miss that its source
\* did not tell it, so that names come back when the network does.
OwnMissIsEvidence == kind.place = "page" /\ kind.asks = "source" => Evidence

\* "Do not poison a warm Worker isolate after a transient Jupiter timeout"
\* (token-info.ts) and "never cache a timeout/5xx as if the token had no
\* metadata" (tokenName.ts): no cache at all, the service's and the page's of
\* the service's answers among them, keeps a miss that the source did not tell.
\* It does not hold of the code.
MissIsEvidence == Evidence

\* However many ask, one request for a key is under way at a time where the
\* code joins them, and each of them gets an answer: nobody waits for a
\* request that has ended.
OneRequest ==
  \A w \in Clients :
    /\ kind.joins => Cardinality(Asking(work[w].key)) <= 1 \/ work[w].step = "idle"
    /\ work[w].step = "joined" => Asking(work[w].key) # {}

\* The service's maps stay within their caps, and no key is there twice.
CacheBounded ==
  /\ kind.capped => Len(kept) <= CacheMax
  /\ Cardinality(KeptKeys) = Len(kept)

\* Misses, requests and maps of the lookups, together.
LookupsSound == OwnMissIsEvidence /\ OneRequest /\ CacheBounded

=============================================================================
