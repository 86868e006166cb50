--------------------------- MODULE EnvelopeProbe ---------------------------
(***************************************************************************)
(* Composes an envelope for some purpose, changing fields of a correct     *)
(* one, signs it as sign_envelope does, or writes one of the component     *)
(* containers; then changes fields of the message, or what its reader      *)
(* expects, and lets the reader decide.                                    *)
(***************************************************************************)
EXTENDS HybridEnvelope, FiniteSets

CONSTANT MaxChanges     \* fields changed in one behaviour

ASSUME EnvelopeProbeAssumption == MaxChanges \in Nat

VARIABLES
    unsigned,   \* the envelope composed
    made,       \* what was made of it: an envelope, a container, or nothing yet
    wire,       \* the message as it arrives
    expected,   \* the reader's VerificationParameters
    changes     \* how many fields were changed, a stranger's signatures not counted

envelopeVars == <<unsigned, made, wire, expected, changes>>

Long == [i \in 1..(MaxField + 1) |-> "x"]
ByteStrings == {<<"a">>, <<"b">>, <<>>, Long}

\* The signer of this process, and one it is not.
Signer == [classical_kid |-> <<"c">>, pq_kid |-> <<"q">>, generation |-> 1,
           classical |-> "es256", pq |-> "ml-dsa"]
Stranger == "stranger"

\* What each purpose needs; the context of a test wrapper is the one
\* issue_hybrid_credential fills in.
NeededBy(purpose) ==
    CASE purpose \in {"wallet-export-v1", "wallet-recovery-v1"} -> {}
      [] purpose = "private-provider-message-v1" -> {"session", "audience", "transcript"}
      [] OTHER -> {"issuer", "transaction", "audience"}

ContextFor(purpose) ==
    LET Needed(f) == IF f \in NeededBy(purpose) THEN <<"a">> ELSE Absent
    IN  [wallet |-> <<"a">>, issuer |-> Needed("issuer"), generation |-> 1,
         transaction |-> Needed("transaction"), session |-> Needed("session"),
         audience |-> Needed("audience"), nonce |-> [i \in 1..MinNonce |-> "a"],
         created |-> 1, expires |-> 2, transcript |-> Needed("transcript")]

UnsignedFor(purpose) ==
    [purpose |-> purpose, context |-> ContextFor(purpose), payload |-> <<"a">>,
     disclosures |-> <<<<"a">>>>, classical_kid |-> Signer.classical_kid,
     pq_kid |-> Signer.pq_kid, generation |-> Signer.generation]

\* The reader who was told everything as it was.
ParametersOf(u) ==
    [purpose |-> u.purpose, context |-> u.context, classical_kid |-> Signer.classical_kid,
     pq_kid |-> Signer.pq_kid, classical_key |-> PublicKey(Signer.classical),
     pq_key |-> PublicKey(Signer.pq), generation |-> Signer.generation]

EnvelopeInit ==
    /\ \E purpose \in Purposes : unsigned = UnsignedFor(purpose)
    /\ made = "nothing" /\ wire = <<>> /\ changes = 0
    /\ expected = ParametersOf(unsigned)

-----------------------------------------------------------------------------
(* Changes of single fields.                                               *)

ContextChanges(context) ==
         {[context EXCEPT !.wallet = v] : v \in ByteStrings}
    \cup {[context EXCEPT ![f] = v] : f \in OptionalFields, v \in ByteStrings \cup {Absent}}
    \cup {[context EXCEPT !.transcript = v] : v \in {<<"a">>, <<"b">>, Absent}}
    \cup {[context EXCEPT !.generation = v] : v \in 0..2}
    \cup {[context EXCEPT !.nonce = [i \in 1..n |-> b]] :
             n \in (MinNonce - 1)..(MaxNonce + 1), b \in {"a", "b"}}
    \cup {[context EXCEPT !.created = v] : v \in 0..2}
    \cup {[context EXCEPT !.expires = v] : v \in 1..3}

DisclosureLists ==
    {<<>>, <<<<"a">>>>, <<<<"b">>>>, <<<<>>>>, <<Long>>,
     <<<<"a">>, <<"b">>>>, <<<<"b">>, <<"a">>>>}

UnsignedChanges(u) ==
         {[u EXCEPT !.context = c] : c \in ContextChanges(u.context)}
    \cup {[u EXCEPT !.payload = v] : v \in ByteStrings}
    \cup {[u EXCEPT !.disclosures = v] : v \in DisclosureLists}
    \cup {[u EXCEPT !.classical_kid = <<"z">>], [u EXCEPT !.pq_kid = <<"z">>]}
    \cup {[u EXCEPT !.generation = v] : v \in {0, 2}}

\* What the signer's keys have signed: this envelope and an earlier one.
SignedEnvelopes == {unsigned, UnsignedFor(unsigned.purpose)}

\* Signatures that are not the one expected: cut short, of the other
\* algorithm, or of an earlier envelope.
OtherSignatures ==
    {Short} \cup {Signature(name, Tbs(u)) : name \in {Signer.classical, Signer.pq},
                                            u \in SignedEnvelopes}

\* Values of the type of a field of the message.
Others(i) ==
    LET wrapper == made = "wrapper"
    IN  CASE i = 1 \/ (~wrapper /\ i = 2) -> 0..2
          [] (wrapper /\ i = 3) \/ (~wrapper /\ i = 6) -> Purposes \cup {"another-purpose"}
          [] wrapper /\ i \in {5, 7, 8} -> ByteStrings \cup {<<"z">>}
          [] wrapper /\ i = 6 -> DisclosureLists
          [] wrapper /\ i = 9 -> 0..2
          [] (wrapper /\ i \in {10, 11}) \/ (made = "signatures" /\ i \in {4, 5}) -> OtherSignatures
          [] made = "keys" /\ i \in {4, 5} -> {PublicKey(Stranger)}
          [] OTHER -> {"another"}

FieldsOf == [wrapper |-> 11, keys |-> 5, signatures |-> 6]

\* A field changed, or, once, the last one lost or one added.
MessageChanges(message) ==
    (UNION {{[message EXCEPT ![i] = v] : v \in Others(i)} : i \in DOMAIN message})
      \cup (IF Len(message) = FieldsOf[made]
            THEN {SubSeq(message, 1, FieldsOf[made] - 1), Append(message, "another")} ELSE {})

ExpectedChanges(p) ==
         {[p EXCEPT !.purpose = v] : v \in Purposes}
    \cup {[p EXCEPT !.context = c] : c \in ContextChanges(p.context)}
    \cup {[p EXCEPT !.classical_kid = <<"z">>], [p EXCEPT !.pq_kid = <<"z">>],
          [p EXCEPT !.classical_key = PublicKey(Stranger)],
          [p EXCEPT !.pq_key = PublicKey(Stranger)], [p EXCEPT !.generation = 2]}

-----------------------------------------------------------------------------

Compose ==
    /\ made = "nothing" /\ changes < MaxChanges
    /\ unsigned' \in UnsignedChanges(unsigned) \ {unsigned}
    /\ expected' = ParametersOf(unsigned')
    /\ changes' = changes + 1
    /\ UNCHANGED <<made, wire>>

\* sign_envelope refuses what is not its own, then needs both signatures.
SignerAdmits(u) ==
    /\ u.classical_kid = Signer.classical_kid /\ u.pq_kid = Signer.pq_kid
    /\ u.generation = Signer.generation

Issued(u) == Encode(u, Signature(Signer.classical, Tbs(u)), Signature(Signer.pq, Tbs(u)))

SignEnvelope ==
    /\ made = "nothing"
    /\ SignerAdmits(unsigned) /\ CanTbs(unsigned)
    /\ CanEncode(unsigned, Signature(Signer.classical, Tbs(unsigned)),
                 Signature(Signer.pq, Tbs(unsigned)))
    /\ made' = "wrapper" /\ wire' = Issued(unsigned)
    /\ UNCHANGED <<unsigned, expected, changes>>

\* The public keys of the signer, for its metadata.
PublishKeys ==
    /\ made = "nothing"
    /\ made' = "keys"
    /\ wire' = EncodePublicKeys(PublicKey(Signer.classical), PublicKey(Signer.pq))
    /\ UNCHANGED <<unsigned, expected, changes>>

\* The two signatures alone, for a purpose.
SendSignatures ==
    /\ made = "nothing" /\ CanTbs(unsigned)
    /\ made' = "signatures"
    /\ wire' = EncodeSignatures(unsigned.purpose, Signature(Signer.classical, Tbs(unsigned)),
                                Signature(Signer.pq, Tbs(unsigned)))
    /\ UNCHANGED <<unsigned, expected, changes>>

ChangeMessage ==
    /\ made # "nothing" /\ changes < MaxChanges
    /\ wire' \in MessageChanges(wire) \ {wire}
    /\ changes' = changes + 1
    /\ UNCHANGED <<unsigned, made, expected>>

\* A key that is not the signer's, and that the reader was told to trust, signs
\* whatever it is given, here the message as it arrives: only the other of the
\* two signatures can give it away.
StrangerSigns ==
    /\ made = "wrapper" /\ Len(wire) = FieldsOf[made]
    /\ \E i \in {10, 11} :
          /\ (IF i = 10 THEN expected.classical_key ELSE expected.pq_key) = PublicKey(Stranger)
          /\ wire' = [wire EXCEPT ![i] =
                         Signature(Stranger, Tbs(Decoded(wire, expected.context)))]
    /\ UNCHANGED <<unsigned, made, expected, changes>>

ChangeExpected ==
    /\ made = "wrapper" /\ changes < MaxChanges
    /\ expected' \in ExpectedChanges(expected) \ {expected}
    /\ changes' = changes + 1
    /\ UNCHANGED <<unsigned, made, wire>>

EnvelopeNext ==
    \/ Compose \/ SignEnvelope \/ PublishKeys \/ SendSignatures
    \/ ChangeMessage \/ StrangerSigns \/ ChangeExpected

EnvelopeSpec == EnvelopeInit /\ [][EnvelopeNext]_envelopeVars

-----------------------------------------------------------------------------
(* Properties.                                                             *)

SignedFields == 1..6    \* of the message; its key identifiers and generation are not

\* A message accepted says what was signed, for the purpose and in the context
\* it was signed for, and of the generation that context names, as long as one
\* of the two keys the reader trusts is the signer's: no two signed envelopes
\* can be mixed, and nothing but the key identifiers and the signature of the
\* other key can differ (verify, hybrid_codec.rs 390-413).  That other key may
\* have signed anything, the message as it arrives among it.
AcceptedWasSigned ==
    LET told == ParametersOf(unsigned)
    IN  (/\ made = "wrapper" /\ Verify(wire, expected)
         /\ expected.classical_key = told.classical_key \/ expected.pq_key = told.pq_key) =>
            \E u \in SignedEnvelopes :
                /\ \A i \in SignedFields : wire[i] = Issued(u)[i]
                /\ expected.purpose = u.purpose /\ expected.context = u.context
                /\ wire[9] = u.context.generation

\* What sign_envelope makes, a reader told everything as it was accepts,
\* exactly when the generation its context names is the one that signed: a
\* field the encoder lets through is not one the decoder refuses (encode and
\* decode, hybrid_codec.rs 334-387 and 415-500).
IssuedVerifies ==
    made = "wrapper" /\ wire = Issued(unsigned) /\ expected = ParametersOf(unsigned) =>
        (Verify(wire, expected) <=> unsigned.context.generation = unsigned.generation)

\* A message one of the three decoders accepts was made by its own encoder,
\* whatever was cut from it, added to it or changed in it on its way, and an
\* unaltered signature container serves the one purpose it was made for (the
\* three containers share one magic, hybrid_codec.rs 243-332 and 502-551).
ContainersNotConfused ==
    /\ DecodesPublicKeys(wire) => made = "keys"
    /\ \A purpose \in Purposes :
          /\ Decodes(wire, purpose) => made = "wrapper"
          /\ DecodesSignatures(wire, purpose) =>
                made = "signatures" /\ (changes = 0 => purpose = unsigned.purpose)
=============================================================================
