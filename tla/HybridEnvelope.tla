--------------------------- MODULE HybridEnvelope ---------------------------
(***************************************************************************)
(* The euwallet-hybrid-pq-v1 envelopes (hybrid_codec.rs): what a purpose   *)
(* demands of its context, the bytes both signatures cover, and what an    *)
(* encoder writes and a decoder accepts.                                   *)
(*                                                                         *)
(* A byte string is a short sequence and the limits are scaled down.  CBOR *)
(* is a sequence of values; what canonical encoding excludes (reordered,   *)
(* duplicate and trailing bytes) is a sequence of another shape.  A public *)
(* key is a point, a signature the key and the bytes it was made with;     *)
(* Short stands for a signature of the wrong length.                       *)
(***************************************************************************)
EXTENDS Integers, Sequences

LOCAL INSTANCE SequencesExt

CONSTANTS Absent,                \* a field that is not there: Option::None
          MaxField,              \* bytes in a field
          MinNonce, MaxNonce,    \* bytes in a nonce
          MaxKeyId,              \* bytes in a key identifier
          Framing                \* bytes CBOR adds around a byte string

ASSUME EnvelopeAssumption ==
    /\ {MaxField, MinNonce, MaxNonce, MaxKeyId, Framing} \subseteq Nat
    /\ MinNonce <= MaxNonce

Purposes == {"wallet-export-v1", "wallet-recovery-v1", "private-provider-message-v1",
             "test-sd-jwt-wrapper-v1", "test-mdoc-wrapper-v1"}

PROFILE == "euwallet-hybrid-pq-v1"
FORMAT == "dev-hybrid-pq+cbor"

PublicKey(name) == [point |-> name]
Signature(name, message) == [key |-> name, over |-> message]
Short == Signature("none", <<>>)

\* What the length checks can tell.
IsPublicKey(value) == "point" \in DOMAIN value
IsSignature(value) == "over" \in DOMAIN value /\ value # Short

-----------------------------------------------------------------------------
(* The context.                                                            *)

\* Mutant: an empty byte string passes for a present one.
Bounded(value) == Len(value) <= MaxField

NonemptyBounded(value) == value # <<>> /\ Len(value) <= MaxField

OptionalFields == {"issuer", "transaction", "session", "audience"}

ValidateCommon(context) ==
    /\ NonemptyBounded(context.wallet)
    /\ \A f \in OptionalFields : context[f] # Absent => NonemptyBounded(context[f])
    /\ context.generation # 0
    /\ Len(context.nonce) \in MinNonce..MaxNonce
    /\ context.created < context.expires

ValidateFor(context, purpose) ==
    LET With(fs) == \A f \in fs : context[f] # Absent
        Without(fs) == \A f \in fs : context[f] = Absent
    IN  CASE purpose \in {"wallet-export-v1", "wallet-recovery-v1"} ->
                Without(OptionalFields \cup {"transcript"})
          [] purpose = "private-provider-message-v1" ->
                With({"session", "audience", "transcript"})
          [] OTHER ->
                /\ With({"issuer", "transaction", "audience"})
                /\ context.session # Absent => context.transcript # Absent

\* An absent field is written as an empty one.
ContextField(value) == IF value = Absent THEN <<>> ELSE value

EncodedContext(c) ==
    << c.wallet, ContextField(c.issuer), c.generation, ContextField(c.transaction),
       ContextField(c.session), ContextField(c.audience), c.nonce, c.created, c.expires,
       ContextField(c.transcript) >>

-----------------------------------------------------------------------------
(* What is signed.                                                         *)

Size(strings) ==
    LET Add(size, string) == size + Framing + Len(string)
    IN  FoldLeft(Add, 0, strings)

\* Mutant: the disclosures travel in the envelope but are not signed.
CommittedPayloadAlone(unsigned) == <<unsigned.payload, <<>>>>

CommittedPayload(unsigned) == <<unsigned.payload, unsigned.disclosures>>

\* tbs, of an envelope whose context suits its purpose and whose payload fits.
CanTbs(unsigned) ==
    /\ Size(<<unsigned.payload>> \o unsigned.disclosures) <= MaxField
    /\ ValidateCommon(unsigned.context)
    /\ ValidateFor(unsigned.context, unsigned.purpose)

Tbs(unsigned) ==
    <<PROFILE, unsigned.purpose, EncodedContext(unsigned.context), CommittedPayload(unsigned)>>

-----------------------------------------------------------------------------
(* The credential wrapper.                                                 *)

KidOk(kid) == kid # <<>> /\ Len(kid) <= MaxKeyId

\* What encode and decode both ask of the fields.
FieldsOk(payload, disclosures, classical_kid, pq_kid, generation, signatures) ==
    /\ NonemptyBounded(payload)
    /\ \A i \in DOMAIN disclosures : NonemptyBounded(disclosures[i])
    /\ KidOk(classical_kid) /\ KidOk(pq_kid)
    /\ generation # 0
    /\ \A s \in signatures : IsSignature(s)

CanEncode(u, classical, post_quantum) ==
    FieldsOk(u.payload, u.disclosures, u.classical_kid, u.pq_kid, u.generation,
             {classical, post_quantum})

\* Mutant: the two key identifiers change places.
EncodeSwapped(u, classical, post_quantum) ==
    << 1, PROFILE, u.purpose, FORMAT, u.payload, u.disclosures,
       u.pq_kid, u.classical_kid, u.generation, classical, post_quantum >>

Encode(u, classical, post_quantum) ==
    << 1, PROFILE, u.purpose, FORMAT, u.payload, u.disclosures,
       u.classical_kid, u.pq_kid, u.generation, classical, post_quantum >>

Decodes(encoded, purpose) ==
    /\ Len(encoded) = 11
    /\ encoded[1] = 1 /\ encoded[2] = PROFILE /\ encoded[4] = FORMAT
    /\ encoded[3] \in Purposes /\ encoded[3] = purpose
    /\ FieldsOk(encoded[5], encoded[6], encoded[7], encoded[8], encoded[9],
                {encoded[10], encoded[11]})

\* The envelope carries no context: the verifier brings its own.
Decoded(encoded, context) ==
    [purpose |-> encoded[3], context |-> context, payload |-> encoded[5],
     disclosures |-> encoded[6], classical_kid |-> encoded[7], pq_kid |-> encoded[8],
     generation |-> encoded[9]]

\* External: ECDSA and ML-DSA.
SignatureOk(key, message, signature) == signature = Signature(key.point, message)

\* Mutant: the classical signature is not checked.
VerifyPqAlone(encoded, p) ==
    /\ Decodes(encoded, p.purpose)
    /\ LET u == Decoded(encoded, p.context)
       IN  /\ u.generation = p.generation /\ u.context.generation = p.generation
           /\ u.classical_kid = p.classical_kid /\ u.pq_kid = p.pq_kid
           /\ CanTbs(u)
           /\ SignatureOk(p.pq_key, Tbs(u), encoded[11])

\* Mutant: the post-quantum signature is not checked.
VerifyClassicalAlone(encoded, p) ==
    /\ Decodes(encoded, p.purpose)
    /\ LET u == Decoded(encoded, p.context)
       IN  /\ u.generation = p.generation /\ u.context.generation = p.generation
           /\ u.classical_kid = p.classical_kid /\ u.pq_kid = p.pq_kid
           /\ CanTbs(u)
           /\ SignatureOk(p.classical_key, Tbs(u), encoded[10])

Verify(encoded, p) ==
    /\ Decodes(encoded, p.purpose)
    /\ LET u == Decoded(encoded, p.context)
       IN  /\ u.generation = p.generation /\ u.context.generation = p.generation
           /\ u.classical_kid = p.classical_kid /\ u.pq_kid = p.pq_kid
           /\ CanTbs(u)
           /\ SignatureOk(p.classical_key, Tbs(u), encoded[10])
           /\ SignatureOk(p.pq_key, Tbs(u), encoded[11])

-----------------------------------------------------------------------------
(* The component containers.                                               *)

EncodePublicKeys(classical, post_quantum) == <<1, 1, PROFILE, classical, post_quantum>>

\* Mutant: five fields are enough to be a pair of keys.
DecodesAnyFive(encoded) == Len(encoded) = 5

DecodesPublicKeys(encoded) ==
    /\ Len(encoded) = 5
    /\ encoded[1] = 1 /\ encoded[2] = 1 /\ encoded[3] = PROFILE
    /\ IsPublicKey(encoded[4]) /\ IsPublicKey(encoded[5])

EncodeSignatures(purpose, classical, post_quantum) ==
    <<1, 2, PROFILE, classical, post_quantum, purpose>>

\* Mutant: any known purpose will do.
DecodesSignaturesOfAnyPurpose(encoded, purpose) ==
    /\ Len(encoded) = 6
    /\ encoded[6] \in Purposes
    /\ encoded[1] = 1 /\ encoded[2] = 2 /\ encoded[3] = PROFILE
    /\ IsSignature(encoded[4]) /\ IsSignature(encoded[5])

DecodesSignatures(encoded, purpose) ==
    /\ Len(encoded) = 6
    /\ encoded[6] \in Purposes /\ encoded[6] = purpose
    /\ encoded[1] = 1 /\ encoded[2] = 2 /\ encoded[3] = PROFILE
    /\ IsSignature(encoded[4]) /\ IsSignature(encoded[5])
=============================================================================
