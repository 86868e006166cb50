---------------------------- MODULE HybridSigner ----------------------------
(***************************************************************************)
(* The signing keys of the issuer: the P-256 keys signer.rs keeps in the   *)
(* Keychain, the ML-DSA key hybrid_signer.rs keeps in an encrypted file    *)
(* under a wrapping key of the Keychain, and the identity of both that the *)
(* process publishes and signs with.                                       *)
(*                                                                         *)
(* A start of the program is a sequence of steps over the Keychain and the *)
(* file, any of which may be the last one before the process stops; so is  *)
(* a request that signs.  Somebody may start a second process by hand: it  *)
(* goes through all the steps and learns only at the end, from bind, that  *)
(* the address is taken.  Starts are assumed not to overlap one another.   *)
(*                                                                         *)
(* Two labels of the Keychain stand for all: the key of an mdoc profile,   *)
(* found first, and the classical half of the hybrid identity.             *)
(*                                                                         *)
(* persisted, envelopes, mdocs, replaced and wrapping_lost are history     *)
(* variables; troubles bounds what goes wrong.                             *)
(***************************************************************************)
EXTENDS Naturals, FiniteSets

CONSTANTS
    Supervised,                 \* the process the supervisor keeps alive
    ByHand,                     \* processes somebody starts
    Keys, PqKeys, WrappingKeys, \* what the random generators can yield
    Invalid,                    \* a key whose public half does not decode
    Torn,                       \* a file that is not fully written
    None,
    U64Max,                     \* the largest generation
    MaxTroubles                 \* bound on stops, failures and interventions

ASSUME SignerAssumption ==
    /\ Supervised \notin ByHand /\ Invalid \notin Keys
    /\ None \notin Keys \cup PqKeys \cup WrappingKeys \cup {Invalid}
    /\ U64Max \in Nat \ {0} /\ MaxTroubles \in Nat

Processes == {Supervised} \cup ByHand
Labels == {"mdoc", "hybrid"}
Callers == Processes \X {"start", "request"}

VARIABLES
    keychain,      \* label -> the private keys stored under it
    wrapping,      \* the generic password of the wrapping key
    record, tmp,   \* the encrypted key file, and the file renamed to it
    proc,          \* where each process is in main, and what it has loaded
    seek,          \* calls of KeychainSigner::find_or_create under way
    request,       \* a signing request under way in each process
    drawn, troubles,
    persisted, envelopes, mdocs, replaced, wrapping_lost

store == <<keychain, wrapping, record, tmp>>
history == <<persisted, envelopes, mdocs, replaced, wrapping_lost>>
vars == <<store, proc, seek, request, drawn, troubles, history>>

-----------------------------------------------------------------------------
(* Types.                                                                  *)

\* The logical identity: a generation and the two public keys it names.
Identity == [generation : 1..U64Max, classical : Keys, pq : PqKeys]

\* The file: an identity, the secret half sealed under a wrapping key.
Record == [id : Identity, wrap : WrappingKeys]

Stage == {"down", "finding", "wrapping", "setting", "loading", "opening",
          "filling", "renaming", "binding", "serving"}

Process == [at : Stage, mdoc : Keys \cup {None}, classical : Keys \cup {None},
            wrap : WrappingKeys \cup {None}, id : Identity \cup {None}]

Search == [at : {"idle", "find", "delete", "create", "refind"}, label : Labels]

\* An envelope, or an mdoc and its certificate, half signed.
Request == [kind : {"envelope"}, signed : Keys]
             \cup [kind : {"mdoc"}, signed : Keys, cert : Keys \cup {None}]

Envelope == [id : Identity, signed : Keys, pq_signed : PqKeys]
Mdoc == [signed : Keys, cert : Keys, pq : PqKeys, pq_signed : PqKeys, excused : BOOLEAN]

\* Rust's None is no record, nor is a file that is not fully written.
ASSUME NoRecordAssumption ==
    /\ None \notin Identity /\ None \notin Record /\ None \notin Request
    /\ Torn \notin Record

TypeOK ==
    /\ keychain \in [Labels -> SUBSET (Keys \cup {Invalid})]
    /\ wrapping \in WrappingKeys \cup {None}
    /\ record \in Record \cup {None} /\ tmp \in Record \cup {None, Torn}
    /\ proc \in [Processes -> Process]
    /\ seek \in [Callers -> Search]
    /\ request \in [Processes -> Request \cup {None}]
    /\ drawn \subseteq Keys \cup PqKeys \cup WrappingKeys
    /\ troubles \in 0..MaxTroubles
    /\ persisted \subseteq Identity
    /\ envelopes \subseteq Envelope /\ mdocs \subseteq Mdoc
    /\ replaced \in [Processes -> BOOLEAN]
    /\ wrapping_lost \in BOOLEAN

Down == [at |-> "down", mdoc |-> None, classical |-> None, wrap |-> None, id |-> None]
Idle == [at |-> "idle", label |-> "mdoc"]

\* A fresh installation, or one whose hybrid key an older system left unreadable.
Init ==
    /\ keychain \in [Labels -> {{}, {Invalid}}] /\ keychain["mdoc"] = {}
    /\ wrapping = None /\ record = None /\ tmp = None
    /\ proc = [p \in Processes |-> Down]
    /\ seek = [w \in Callers |-> Idle]
    /\ request = [p \in Processes |-> None]
    /\ drawn = {} /\ troubles = 0
    /\ persisted = {} /\ envelopes = {} /\ mdocs = {}
    /\ replaced = [p \in Processes |-> FALSE]
    /\ wrapping_lost = FALSE

\* A random value never drawn before; which one makes no difference.
Draw(S, id) ==
    /\ ~ S \subseteq drawn
    /\ id = CHOOSE x \in S : x \notin drawn
    /\ drawn' = drawn \cup {id}

Trouble == troubles < MaxTroubles /\ troubles' = troubles + 1

Starting(p) == proc[p].at \notin {"down", "serving"}

\* An expect fails, or the process is stopped: what it held is gone.
Ends(p) ==
    /\ proc' = [proc EXCEPT ![p] = Down]
    /\ seek' = [seek EXCEPT ![<<p, "start">>] = Idle, ![<<p, "request">>] = Idle]
    /\ request' = [request EXCEPT ![p] = None]

-----------------------------------------------------------------------------
(* KeychainSigner::find_or_create.                                         *)

Looking(w, at) == seek[w].at = at
Continue(w, at) == seek' = [seek EXCEPT ![w].at = at]
Stored(w) == keychain[seek[w].label]

\* What the caller does with the key it gets: main goes on to the next label
\* and then to the wrapping key, issue_mdoc has the certificate made.
Return(w, k) ==
    LET p == w[1] IN
    \/ /\ w[2] = "start" /\ seek[w].label = "mdoc"
       /\ proc' = [proc EXCEPT ![p].mdoc = k]
       /\ seek' = [seek EXCEPT ![w] = [at |-> "find", label |-> "hybrid"]]
       /\ UNCHANGED request
    \/ /\ w[2] = "start" /\ seek[w].label = "hybrid"
       /\ proc' = [proc EXCEPT ![p].classical = k, ![p].at = "wrapping"]
       /\ seek' = [seek EXCEPT ![w] = Idle]
       /\ UNCHANGED request
    \/ /\ w[2] = "request"
       /\ request' = [request EXCEPT ![p].cert = k]
       /\ seek' = [seek EXCEPT ![w] = Idle]
       /\ UNCHANGED proc

\* An error: a start ends, a request is answered with it.
Raise(w) ==
    \/ w[2] = "start" /\ Ends(w[1])
    \/ /\ w[2] = "request"
       /\ request' = [request EXCEPT ![w[1]] = None]
       /\ seek' = [seek EXCEPT ![w] = Idle]
       /\ UNCHANGED proc

\* find_private_key: the search is limited to one match, which stays the same
\* as long as the keys under the label do.
Match(w) == CHOOSE k \in Stored(w) : TRUE
Sound(w) == Stored(w) # {} /\ Match(w) # Invalid

FindsKey(w) ==
    /\ Looking(w, "find") /\ Stored(w) # {}
    /\ \/ Sound(w) /\ Return(w, Match(w))
       \/ /\ ~Sound(w)
          /\ Continue(w, "delete") /\ UNCHANGED <<proc, request>>
    /\ UNCHANGED <<store, drawn, troubles, history>>

FindsNone(w) ==
    /\ Looking(w, "find") /\ Stored(w) = {}
    /\ Continue(w, "create")
    /\ UNCHANGED <<store, proc, request, drawn, troubles, history>>

\* The stale key is searched for again before it is deleted.
DeletesStale(w) ==
    /\ Looking(w, "delete")
    /\ \/ /\ Stored(w) # {}
          /\ keychain' = [keychain EXCEPT ![seek[w].label] = @ \ {Match(w)}]
          /\ Continue(w, "create") /\ UNCHANGED <<proc, request>>
       \/ Stored(w) = {} /\ Raise(w) /\ UNCHANGED keychain
    /\ UNCHANGED <<wrapping, record, tmp, drawn, troubles, history>>

CreatesKey(w) ==
    /\ Looking(w, "create")
    /\ \E k \in Keys :
          /\ Draw(Keys, k)
          /\ keychain' = [keychain EXCEPT ![seek[w].label] = @ \cup {k}]
    /\ Continue(w, "refind")
    /\ replaced' = [q \in Processes |->
          replaced[q] \/ (q # w[1] /\ proc[q].at # "down")]
    /\ UNCHANGED <<wrapping, record, tmp, proc, request, troubles, persisted,
                   envelopes, mdocs, wrapping_lost>>

FindsCreated(w) ==
    /\ Looking(w, "refind")
    /\ \/ Sound(w) /\ Return(w, Match(w))
       \/ ~Sound(w) /\ Raise(w)
    /\ UNCHANGED <<store, drawn, troubles, history>>

FindOrCreate(w) ==
    FindsKey(w) \/ FindsNone(w) \/ DeletesStale(w) \/ CreatesKey(w) \/ FindsCreated(w)

-----------------------------------------------------------------------------
(* A start of the program.                                                 *)

\* main looks for the key of the mdoc profile first.
Begin(p) ==
    /\ proc[p].at = "down" /\ \A q \in Processes : ~Starting(q)
    /\ proc' = [proc EXCEPT ![p].at = "finding"]
    /\ seek' = [seek EXCEPT ![<<p, "start">>] = [at |-> "find", label |-> "mdoc"]]
    /\ replaced' = [replaced EXCEPT ![p] = FALSE]
    /\ UNCHANGED <<store, request, drawn, persisted, envelopes, mdocs, wrapping_lost>>

\* The supervisor starts the service whenever it is not running.
SupervisorStarts == Begin(Supervised) /\ UNCHANGED troubles

StartByHand(p) == p \in ByHand /\ Begin(p) /\ Trouble

\* Mutant: a wrapping key is made whether or not there is a record.
NewWrappingKeyAlways == TRUE

NewWrappingKeyAllowed == record = None

\* load_or_create_wrapping_key; the Keychain may fail to answer.
WrappingLoaded(p) ==
    /\ proc[p].at = "wrapping" /\ wrapping # None
    /\ proc' = [proc EXCEPT ![p].wrap = wrapping, ![p].at = "loading"]
    /\ UNCHANGED <<store, seek, request, drawn, troubles, history>>

WrappingMissing(p) ==
    /\ proc[p].at = "wrapping"
    /\ IF wrapping = None THEN UNCHANGED troubles ELSE Trouble
    /\ \/ /\ NewWrappingKeyAllowed
          /\ \E k \in WrappingKeys :
                /\ Draw(WrappingKeys, k)
                /\ proc' = [proc EXCEPT ![p].wrap = k, ![p].at = "setting"]
          /\ UNCHANGED <<seek, request>>
       \/ ~NewWrappingKeyAllowed /\ Ends(p) /\ UNCHANGED drawn
    /\ UNCHANGED <<store, history>>

WrappingSet(p) ==
    /\ proc[p].at = "setting"
    /\ wrapping' = proc[p].wrap
    /\ proc' = [proc EXCEPT ![p].at = "loading"]
    /\ UNCHANGED <<keychain, record, tmp, seek, request, drawn, troubles, history>>

\* Mutants: the generation starts again when the classical key changed; the
\* record is taken over whatever the classical key.
FirstGeneration(g) == 1
RecordIsOfAny(p) == TRUE

RecordIsOf(p) == record.id.classical = proc[p].classical

\* Mutant: the counter is not saturating.
GenerationPlusOne(g) == g + 1

\* saturating_add.
NextGeneration(g) == IF g = U64Max THEN g ELSE g + 1

\* load_stored_key: what was sealed under another wrapping key does not open.
Opens(p) == record \notin {None, Torn} /\ record.wrap = proc[p].wrap

\* The record is of the classical key at hand: its identity is taken over.  One
\* that does not open ends the start.
RecordKept(p) ==
    /\ proc[p].at = "loading" /\ record # None
    /\ IF Opens(p)
       THEN /\ RecordIsOf(p)
            /\ proc' = [proc EXCEPT
                  ![p].id = [generation |-> record.id.generation,
                             classical |-> proc[p].classical, pq |-> record.id.pq],
                  ![p].at = "binding"]
            /\ UNCHANGED <<seek, request>>
       ELSE Ends(p)
    /\ UNCHANGED <<store, drawn, troubles, history>>

\* There is no record, or one of another classical key: a key is generated.
KeyGenerated(p) ==
    /\ proc[p].at = "loading"
    /\ record = None \/ (Opens(p) /\ ~RecordIsOf(p))
    /\ \E pq \in PqKeys :
          /\ Draw(PqKeys, pq)
          /\ proc' = [proc EXCEPT
                ![p].id = [generation |-> IF record = None THEN 1
                                          ELSE NextGeneration(record.id.generation),
                           classical |-> proc[p].classical, pq |-> pq],
                ![p].at = "opening"]
    /\ UNCHANGED <<store, seek, request, troubles, history>>

\* Mutant: the record is written in place.
OpenRecord == record' = Torn /\ UNCHANGED tmp

OpenTemporary == tmp' = Torn /\ UNCHANGED record

\* persist_key: the temporary file is created or truncated, written and
\* synced, and renamed.
TemporaryOpened(p) ==
    /\ proc[p].at = "opening"
    /\ OpenTemporary
    /\ proc' = [proc EXCEPT ![p].at = "filling"]
    /\ UNCHANGED <<keychain, wrapping, seek, request, drawn, troubles, history>>

TemporaryFilled(p) ==
    /\ proc[p].at = "filling"
    /\ tmp' = [id |-> proc[p].id, wrap |-> proc[p].wrap]
    /\ proc' = [proc EXCEPT ![p].at = "renaming"]
    /\ UNCHANGED <<keychain, wrapping, record, seek, request, drawn, troubles, history>>

TemporaryRenamed(p) ==
    /\ proc[p].at = "renaming"
    /\ record' = tmp /\ tmp' = None
    /\ persisted' = persisted \cup {tmp.id}
    /\ proc' = [proc EXCEPT ![p].at = "binding"]
    /\ UNCHANGED <<keychain, wrapping, seek, request, drawn, troubles, envelopes,
                   mdocs, replaced, wrapping_lost>>

\* TcpListener::bind: one process has the address.
Binds(p) ==
    /\ proc[p].at = "binding"
    /\ IF \E q \in Processes : proc[q].at = "serving"
       THEN Ends(p)
       ELSE proc' = [proc EXCEPT ![p].at = "serving"] /\ UNCHANGED <<seek, request>>
    /\ UNCHANGED <<store, drawn, troubles, history>>

StartStep(p) ==
    \/ FindOrCreate(<<p, "start">>)
    \/ WrappingLoaded(p) \/ WrappingMissing(p) \/ WrappingSet(p)
    \/ RecordKept(p) \/ KeyGenerated(p)
    \/ TemporaryOpened(p) \/ TemporaryFilled(p) \/ TemporaryRenamed(p)
    \/ Binds(p)

-----------------------------------------------------------------------------
(* Requests of the serving process.                                        *)

Free(p) == proc[p].at = "serving" /\ request[p] = None

\* sign_envelope, first half: the key in memory signs.
EnvelopeSigned(p) ==
    /\ Free(p)
    /\ request' = [request EXCEPT ![p] = [kind |-> "envelope", signed |-> proc[p].classical]]
    /\ UNCHANGED <<store, proc, seek, drawn, troubles, history>>

\* Mutant: the record is opened and not compared with the identity in memory.
StoredIsAnyIdentity(p) == Opens(p)

\* sign_envelope and sign_pq_raw load the record and compare all of it.
StoredIsIdentity(p) == Opens(p) /\ record.id = proc[p].id

EnvelopeEmitted(p) ==
    /\ request[p] # None /\ request[p].kind = "envelope"
    /\ StoredIsIdentity(p)
    /\ request' = [request EXCEPT ![p] = None]
    /\ envelopes' = envelopes \cup
          {[id |-> proc[p].id, signed |-> request[p].signed, pq_signed |-> record.id.pq]}
    /\ UNCHANGED <<store, proc, seek, drawn, troubles, persisted, mdocs, replaced,
                   wrapping_lost>>

\* Mutant: the certificate is made under the label of the hybrid identity.
HybridLabel == "hybrid"

CertificateLabel == "mdoc"

\* issue_mdoc: the key in memory signs; for the certificate the label is
\* looked up again.
MdocSigned(p) ==
    /\ Free(p)
    /\ request' = [request EXCEPT ![p] =
          [kind |-> "mdoc", signed |-> proc[p].mdoc, cert |-> None]]
    /\ seek' = [seek EXCEPT ![<<p, "request">>] = [at |-> "find", label |-> CertificateLabel]]
    /\ UNCHANGED <<store, proc, drawn, troubles, history>>

\* The certificate is there; the ML-DSA half is added from the record.
MdocEmitted(p) ==
    /\ request[p] # None /\ request[p].kind = "mdoc" /\ request[p].cert # None
    /\ StoredIsIdentity(p)
    /\ request' = [request EXCEPT ![p] = None]
    /\ mdocs' = mdocs \cup
          {[signed |-> request[p].signed, cert |-> request[p].cert, pq |-> proc[p].id.pq,
            pq_signed |-> record.id.pq, excused |-> replaced[p]]}
    /\ UNCHANGED <<store, proc, seek, drawn, troubles, persisted, envelopes, replaced,
                   wrapping_lost>>

\* The record is of another identity by now: the request is answered with an error.
IdentityChanged(p) ==
    /\ request[p] # None
    /\ request[p].kind = "mdoc" => request[p].cert # None
    /\ ~StoredIsIdentity(p)
    /\ request' = [request EXCEPT ![p] = None]
    /\ UNCHANGED <<store, proc, seek, drawn, troubles, history>>

RequestStep(p) ==
    \/ EnvelopeSigned(p) \/ EnvelopeEmitted(p)
    \/ MdocSigned(p) \/ MdocEmitted(p) \/ IdentityChanged(p)
    \/ FindOrCreate(<<p, "request">>)

-----------------------------------------------------------------------------
(* What goes wrong.                                                        *)

\* A crash, a kill, or a panic over a Keychain that does not answer.
Stops(p) ==
    /\ proc[p].at # "down"
    /\ Trouble /\ Ends(p)
    /\ UNCHANGED <<store, drawn, history>>

\* The Keychain refuses to sign or to look up: the request is answered with it.
KeychainRefuses(p) ==
    /\ request[p] # None
    /\ Trouble
    /\ request' = [request EXCEPT ![p] = None]
    /\ seek' = [seek EXCEPT ![<<p, "request">>] = Idle]
    /\ UNCHANGED <<store, proc, drawn, history>>

\* Somebody deletes the keys under a label; the next search makes another.
KeysDeleted(l) ==
    /\ keychain[l] # {}
    /\ Trouble
    /\ keychain' = [keychain EXCEPT ![l] = {}]
    /\ replaced' = [q \in Processes |-> replaced[q] \/ proc[q].at # "down"]
    /\ UNCHANGED <<wrapping, record, tmp, proc, seek, request, drawn, persisted,
                   envelopes, mdocs, wrapping_lost>>

\* Somebody deletes the wrapping key.
WrappingKeyDeleted ==
    /\ wrapping # None
    /\ Trouble
    /\ wrapping' = None /\ wrapping_lost' = TRUE
    /\ UNCHANGED <<keychain, record, tmp, proc, seek, request, drawn, persisted,
                   envelopes, mdocs, replaced>>

Troubles ==
    \/ \E p \in Processes : StartByHand(p) \/ Stops(p) \/ KeychainRefuses(p)
    \/ \E l \in Labels : KeysDeleted(l)
    \/ WrappingKeyDeleted

Next ==
    \/ SupervisorStarts
    \/ \E p \in Processes : StartStep(p) \/ RequestStep(p)
    \/ Troubles

Spec == Init /\ [][Next]_vars

\* The supervisor keeps the service alive (KeepAlive in the launchd job), and a
\* process that is starting runs; nothing is asked of clients or operators.
Fairness ==
    /\ WF_vars(SupervisorStarts)
    /\ \A p \in Processes : WF_vars(StartStep(p))

FairSpec == Spec /\ Fairness

-----------------------------------------------------------------------------
(* Properties.                                                             *)

\* Both halves of an envelope, and the ML-DSA half of an mdoc and the key it
\* names, come from one recorded identity, the one its process publishes, also
\* when the record was replaced between the two halves (sign_envelope 135-146,
\* sign_pq_raw 162-171).
SignedUnderOneIdentity ==
    /\ \A e \in envelopes :
          e.id \in persisted /\ e.signed = e.id.classical /\ e.pq_signed = e.id.pq
    /\ \A m \in mdocs : m.pq_signed = m.pq

\* A process serves under the identity of the record, unless a key was
\* replaced under it: the identity was recorded before it is published, and
\* it is of the classical key in use (find_or_create 64-94).
ServesRecordedIdentity ==
    \A p \in Processes : proc[p].at = "serving" =>
        /\ proc[p].id \in persisted
        /\ replaced[p] \/ (record # None /\ record.id = proc[p].id)

\* However a start was cut short, the record opens under the wrapping key of
\* the Keychain, until somebody takes that key away (load_or_create_wrapping_key
\* 199-211).
RecordOpens ==
    record # None /\ ~wrapping_lost => record.wrap = wrapping

\* The certificate of an mdoc is of the key that signed it, unless the keys of
\* its label changed in the life of the process: the key is looked up once at
\* start-up and again for every certificate (main.rs 537-560 and 4017-4026).
CertificateOfSigner ==
    \A m \in mdocs : m.cert = m.signed \/ m.excused

\* "If the P-256 identity changes, a new ML-DSA key is generated and the
\* logical generation advances" (experimental-hybrid-pq-profile.md 23-24): the
\* record is never lost, a later one has another classical key, another ML-DSA
\* key and, below the top of the counter, the next generation.
GenerationAdvances ==
    [][record # None /\ record' # record =>
          /\ record' # None
          /\ record'.id.classical # record.id.classical
          /\ record'.id.pq # record.id.pq
          /\ record.id.generation < U64Max =>
                record'.id.generation = record.id.generation + 1]_vars

\* Wherever starts are cut short and whatever keys are deleted, the service
\* comes back, but for a deleted wrapping key.
ServiceReturns ==
    []<>(wrapping_lost \/ \E p \in Processes : proc[p].at = "serving")
=============================================================================
