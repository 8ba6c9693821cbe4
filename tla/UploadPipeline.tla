--------------------------- MODULE UploadPipeline ---------------------------
(***************************************************************************)
(* The paid pipeline behind the upload gate: the environment that switches *)
(* it on and the executors of quote-service/server.ts, the image worker    *)
(* (cloudflare-image-worker.mjs) that compresses what is stored and        *)
(* mirrors it afterwards, and the two writes to Irys that are paid for     *)
(* from one balance.  Bytes are counted, never spelled out.                *)
(***************************************************************************)
EXTENDS Integers, Sequences

CONSTANTS
  Uploads,       \* requests being served beside each other
  Environments,  \* settings the process may be started with
  Sources,       \* images: what each encoding pass makes of them
  Texts,         \* bytes of the metadata around the image's id
  ImageCap,      \* MAX_COMPRESSED_METADATA_IMAGE_BYTES, MAX_OUTPUT_BYTES
  JsonCap,       \* MAX_METADATA_JSON_BYTES
  Funds          \* the balance on Irys

ASSUME PipelineConstants ==
  ImageCap \in Nat /\ JsonCap \in Nat /\ Funds \in Nat /\ Texts \subseteq Nat

VARIABLES
  pipeline,  \* "disabled", "failed" to start or "enabled"
  balance,   \* what is left on Irys
  upload,    \* each request
  mirror     \* the edge cache: which content it serves for an upload's image

pipelineVars == <<pipeline, balance, upload, mirror>>

\* metadataUploadFromEnvironment: off unless all three settings are there; a
\* wildcard origin, a bad worker URL or a short token stop the process.
PipelineOf(env) ==
  IF ~ (env.key /\ env.worker # "missing" /\ env.token # "missing") THEN "disabled"
  ELSE IF env.origins = "explicit" /\ env.worker = "origin" /\ env.token = "long" /\ env.irys
  THEN "enabled" ELSE "failed"

NoUpload == [step |-> "new", stores |-> TRUE, source |-> <<>>, text |-> 0, image |-> 0,
          quoted |-> 0, id |-> "", written |-> 0, points |-> "", paid |-> {}, code |-> "", why |-> ""]

PipelineInit ==
  /\ \E env \in Environments : pipeline = PipelineOf(env)
  /\ balance = Funds /\ upload = [u \in Uploads |-> NoUpload] /\ mirror = [u \in Uploads |-> ""]

-----------------------------------------------------------------------------
(* Requests *)

\* What parseMetadataLinks and parseMetadataUploadRequest refuse, and as what.
LinkFlaws == {"linksShape", "linkText", "linkLength", "linkScheme"}

TextFlaws == {"fields", "requestId", "name", "symbol", "description"}

ImageFlaws == {"imageShape", "imageType", "base64", "imageSize", "signature"}

FlawCode(flaw) ==
  CASE flaw = "imageType" -> "UNSUPPORTED_IMAGE_TYPE"
    [] flaw = "imageSize" -> "UPLOAD_TOO_LARGE"
    [] flaw = "signature" -> "IMAGE_TYPE_MISMATCH"
    [] OTHER              -> "INVALID_UPLOAD_REQUEST"

\* An image preparation carries nothing but its image.
Flaws(prepare) == {"none"} \cup ImageFlaws \cup (IF prepare THEN {"fields"} ELSE LinkFlaws \cup TextFlaws)

TurnedAway(u, code, why) == [upload[u] EXCEPT !.step = "refused", !.code = code, !.why = why]

ParseRequest(u, prepare, flaw, source, text) ==
  /\ pipeline = "enabled" /\ upload[u].step = "new"
  /\ upload' = [upload EXCEPT ![u] =
       IF flaw # "none" THEN TurnedAway(u, FlawCode(flaw), "request")
       ELSE [@ EXCEPT !.step = "compress", !.stores = ~ prepare, !.source = source,
                      !.text = IF prepare THEN 0 ELSE text]]
  /\ UNCHANGED <<pipeline, balance, mirror>>

-----------------------------------------------------------------------------
(* Compression *)

\* A pass gives bytes that fit, "large" or foreign ones, nothing, or throws.
Fit(pass) == pass \in 1 .. ImageCap

\* The image worker: the first pass whose WebP is small enough, unless an
\* earlier one threw; 0 is its 422.
Encoded(source) ==
  LET good == {i \in DOMAIN source : Fit(source[i]) /\ \A j \in 1 .. i : source[j] # -1}
  IN  IF good = {} THEN 0 ELSE source[CHOOSE i \in good : \A j \in good : i <= j]

\* What the service makes of the worker's answer; whatever is not an answer to
\* this image is the pipeline's failure.
CompressionCode(status, image) ==
  CASE status \in {400, 413, 415, 422}               -> "INVALID_IMAGE"
    [] status = 200 /\ image \in 1 .. ImageCap     -> "ok"
    [] OTHER                                         -> "IMAGE_COMPRESSION_FAILED"

\* The length of the placeholder that stands for the image's id.
Placeholder == 43

\* compress, then for an upload the size of its metadata; status 0 stands for
\* a time-out and a broken connection, 302 for a redirect, which is not followed.
Compress(u, status) ==
  LET image == IF status = 200 THEN Encoded(upload[u].source) ELSE 0
      code  == CompressionCode(IF status = 200 /\ image = 0 THEN 422 ELSE status, image)
      large == upload[u].stores /\ upload[u].text + Placeholder > JsonCap
  IN  /\ upload[u].step = "compress"
      /\ upload' = [upload EXCEPT ![u] =
           IF code # "ok" THEN TurnedAway(u, code, "image")
           ELSE IF large THEN TurnedAway(u, "UPLOAD_TOO_LARGE", "request")
           ELSE [@ EXCEPT !.image = image, !.step = IF upload[u].stores THEN "balance" ELSE "done"]]
      /\ UNCHANGED <<pipeline, balance, mirror>>

-----------------------------------------------------------------------------
(* The two writes *)

\* What Irys asks for so many bytes.
Price(bytes) == bytes

\* Balance and prices are asked for together; others may spend before the
\* last of the answers is there.
AskBalance(u) ==
  /\ upload[u].step = "balance"
  /\ upload' = [upload EXCEPT ![u].step = "preflight", ![u].quoted = balance]
  /\ UNCHANGED <<pipeline, balance, mirror>>

Preflight(u) ==
  LET need == Price(upload[u].image) + Price(upload[u].text + Placeholder)
  IN  /\ upload[u].step = "preflight"
      /\ upload' = [upload EXCEPT ![u] =
           IF upload[u].quoted < need THEN TurnedAway(u, "IRYS_INSUFFICIENT_FUNDS", "funds")
           ELSE [@ EXCEPT !.step = "image"]]
      /\ UNCHANGED <<pipeline, balance, mirror>>

\* Spellings of an id in a receipt, and the lengths they normalise to.
IdForms == {"base64url", "padded", "base58short", "base58"}

IdLength(form) == IF form = "base58" THEN 44 ELSE 43

FaultyNormal(form) == form

\* normalizeIrysId drops the padding of the historical form.
Normal(form) == IF form = "padded" THEN "base64url" ELSE form

\* irysUri looks through at most two wrappers.
Readable(receipt) == receipt.form \in IdForms /\ receipt.wraps <= 2

\* deliveryUri, and the image worker's own copy of the pattern.
DeliveryAccepts(form) == form \in {"base64url", "base58short", "base58"}

Receipts == [form : IdForms \cup {"other"}, wraps : {0, 2, 3}]

\* One write: taken and paid for, or not, and its receipt arrives or is lost.
Writes(u, part, bytes, taken) ==
  /\ upload[u].step = part
  /\ taken => balance >= Price(bytes)
  /\ balance' = IF taken THEN balance - Price(bytes) ELSE balance
  /\ UNCHANGED <<pipeline, mirror>>

Unpaid(u) ==
  \E part \in {"image", "metadata"} :
    LET bytes == IF part = "image" THEN upload[u].image
                 ELSE upload[u].text + IdLength(upload[u].id)
    IN  /\ Writes(u, part, bytes, FALSE)
        /\ upload' = [upload EXCEPT ![u] =
             IF balance < Price(bytes) THEN TurnedAway(u, "IRYS_INSUFFICIENT_FUNDS", "funds")
             ELSE TurnedAway(u, "IRYS_UPLOAD_FAILED", "network")]

WriteImage(u, receipt, lost) ==
  LET form == Normal(receipt.form)
      paid == [upload[u] EXCEPT !.paid = {"image"}]
  IN  /\ Writes(u, "image", upload[u].image, TRUE)
      /\ upload' = [upload EXCEPT ![u] =
           IF lost \/ ~ Readable(receipt)
           THEN [paid EXCEPT !.step = "refused", !.code = "IRYS_UPLOAD_FAILED", !.why = "receipt"]
           ELSE IF ~ DeliveryAccepts(form)
           THEN [paid EXCEPT !.step = "refused", !.code = "IRYS_UPLOAD_FAILED", !.why = "delivery"]
           ELSE [paid EXCEPT !.step = "metadata", !.id = form]]

\* The metadata names the image's permanent address, never the mirror's.
WriteMetadata(u, receipt, lost) ==
  LET bytes == upload[u].text + IdLength(upload[u].id)
      paid  == [upload[u] EXCEPT !.paid = @ \cup {"metadata"}, !.written = bytes, !.points = "irys"]
  IN  /\ Writes(u, "metadata", bytes, TRUE)
      /\ upload' = [upload EXCEPT ![u] =
           IF lost \/ ~ Readable(receipt)
           THEN [paid EXCEPT !.step = "refused", !.code = "IRYS_UPLOAD_FAILED", !.why = "receipt"]
           ELSE [paid EXCEPT !.step = "done"]]

-----------------------------------------------------------------------------
(* The mirror *)

\* A redirect of the gateway is followed to the same id on its own CDN only.
Follows(location) == location = "own"

\* Content at the end of a trail of redirects: the image, or another file when
\* the trail left its address.
Delivered(trail) ==
  IF Len(trail) > 2 \/ \E i \in DOMAIN trail : ~ Follows(trail[i]) THEN ""
  ELSE IF \A i \in DOMAIN trail : trail[i] = "own" THEN "image" ELSE "other"

\* deliverIrys: a hit, or what the gateway gives, which is then kept; what is
\* no WebP of at most ImageCap bytes is not served.
DeliverIrys(u, trail) ==
  /\ "image" \in upload[u].paid /\ DeliveryAccepts(upload[u].id) /\ mirror[u] = ""
  /\ mirror' = [mirror EXCEPT ![u] = Delivered(trail)]
  /\ UNCHANGED <<pipeline, balance, upload>>

Trails == {<<>>, <<"own">>, <<"own", "own">>, <<"own", "own", "own">>, <<"otherId">>, <<"own", "foreign">>}

Statuses == {0, 200, 302, 401, 413, 415, 422, 500}

PipelineNext ==
  \E u \in Uploads :
    \/ \E prepare \in BOOLEAN, source \in Sources, text \in Texts :
         \E flaw \in Flaws(prepare) : ParseRequest(u, prepare, flaw, source, text)
    \/ \E status \in Statuses : Compress(u, status)
    \/ AskBalance(u) \/ Preflight(u) \/ Unpaid(u)
    \/ \E receipt \in Receipts, lost \in BOOLEAN : WriteImage(u, receipt, lost) \/ WriteMetadata(u, receipt, lost)
    \/ \E trail \in Trails : DeliverIrys(u, trail)

-----------------------------------------------------------------------------
(* Properties *)

\* What is stored for ever is bounded and whole: a compressed image within the
\* cap, and metadata that names that image's permanent address.
StoredSound ==
  \A u \in Uploads :
    /\ upload[u].paid # {} => upload[u].image \in 1 .. ImageCap
    /\ "metadata" \in upload[u].paid => "image" \in upload[u].paid /\ upload[u].points = "irys"

\* An upload that has paid for its image is given up for lack of funds, a
\* broken connection or an unreadable receipt, and never for what the service
\* itself made of a good one; a finished one is served by the mirror.
PaidIsServed ==
  \A u \in Uploads :
    /\ upload[u].step = "refused" /\ upload[u].paid # {} => upload[u].why \in {"funds", "network", "receipt"}
    /\ upload[u].step = "done" /\ upload[u].paid # {} => DeliveryAccepts(upload[u].id)

\* The mirror keeps no other file under an image's address.
MirrorFaithful == \A u \in Uploads : mirror[u] \in {"", "image"}

\* The metadata is measured and priced with a placeholder of 43 characters for
\* the image's id, before either write, and Irys' current ids have 44: what is
\* written exceeds by at most that character what was limited and priced.
WrittenNearPriced ==
  \A u \in Uploads :
    "metadata" \in upload[u].paid => upload[u].written <= (upload[u].text + Placeholder) + 1

UploadsSound == StoredSound /\ PaidIsServed /\ MirrorFaithful /\ WrittenNearPriced

=============================================================================
