------------------------- MODULE HybridSignerProofs -------------------------
(***************************************************************************)
(* Theorems about HybridSigner, for every value of its constants.          *)
(***************************************************************************)
EXTENDS HybridSigner, TLAPS

\* Stages by what the process has obtained: both keys of the Keychain, the
\* wrapping key, an identity it is about to record, any identity.
Keyed == Stage \ {"down", "finding"}
Wrapped == Keyed \ {"wrapping"}
Writing == {"opening", "filling", "renaming"}
Identified == Writing \cup {"binding", "serving"}

-----------------------------------------------------------------------------
(* What processes, searches and requests hold.                             *)

OneStarts == \A p, q \in Processes : Starting(p) /\ Starting(q) => p = q

StageHolds(p) ==
    /\ proc[p].at \in Keyed <=> proc[p].classical # None
    /\ proc[p].at \in Keyed => proc[p].mdoc # None
    /\ proc[p].at = "down" => proc[p].mdoc = None
    /\ proc[p].at \in Wrapped => proc[p].wrap # None
    /\ proc[p].at \in Identified =>
          proc[p].id # None /\ proc[p].id.classical = proc[p].classical

\* A start searches while it finds, a request while its certificate is made.
SearchHolds(p) ==
    LET s == seek[<<p, "start">>]
        r == seek[<<p, "request">>]
    IN  /\ s.at # "idle" =>
              proc[p].at = "finding" /\ (s.label = "mdoc" <=> proc[p].mdoc = None)
        /\ r.at # "idle" => /\ request[p] # None /\ request[p].kind = "mdoc"
                            /\ request[p].cert = None /\ r.label = "mdoc"
        /\ request[p] # None => proc[p].at = "serving"

\* The file about to be renamed is the one this start wrote.
TmpInv ==
    \A p \in Processes : proc[p].at = "renaming" =>
        tmp = [id |-> proc[p].id, wrap |-> proc[p].wrap]

HoldInv ==
    /\ OneStarts
    /\ \A p \in Processes : StageHolds(p) /\ SearchHolds(p)

-----------------------------------------------------------------------------
(* The keys of the Keychain.                                               *)

Held(p, l) == IF l = "mdoc" THEN proc[p].mdoc ELSE proc[p].classical

\* A key that was not replaced is still the one a search finds.
HeldIsFound ==
    \A p \in Processes, l \in Labels : Held(p, l) # None /\ ~replaced[p] =>
        /\ keychain[l] # {}
        /\ Held(p, l) = CHOOSE k \in keychain[l] : TRUE

\* Only the hybrid key may be stale, and it is deleted before anybody holds it;
\* a request makes a key only when the one its process holds is gone.
SearchInv ==
    /\ Invalid \notin keychain["mdoc"]
    /\ \A p \in Processes : seek[<<p, "start">>].at = "delete" =>
          /\ seek[<<p, "start">>].label = "hybrid"
          /\ \A q \in Processes : proc[q].classical = None \/ replaced[q]
    /\ \A p \in Processes :
          /\ seek[<<p, "request">>].at # "delete"
          /\ seek[<<p, "request">>].at \in {"create", "refind"} => replaced[p]

\* The two keys of an mdoc under way.
RequestInv ==
    \A p \in Processes : request[p] # None =>
        IF request[p].kind = "envelope" THEN request[p].signed = proc[p].classical
        ELSE /\ request[p].signed = proc[p].mdoc
             /\ request[p].cert # None =>
                   request[p].cert = request[p].signed \/ replaced[p]

\* While a process serves with keys nobody replaced, a start finds them too.
SameClassical ==
    \A p, q \in Processes :
        /\ proc[p].at = "serving" /\ ~replaced[p]
        /\ Starting(q) /\ proc[q].classical # None
        => proc[q].classical = proc[p].classical

KeyInv == HeldIsFound /\ SearchInv /\ RequestInv /\ SameClassical

-----------------------------------------------------------------------------
(* The key file.                                                           *)

\* The wrapping key a start works with is the one of the Keychain; it is made
\* only when there is no record.
WrapInv ==
    /\ \A p \in Processes :
          /\ proc[p].at = "setting" => record = None
          /\ proc[p].at \in {"loading"} \cup Writing /\ ~wrapping_lost =>
                proc[p].wrap = wrapping
    /\ RecordOpens

\* What the identity a start writes is to the one recorded before.
Succeeds(id, old) ==
    /\ id.classical # old.classical /\ id.pq # old.pq
    /\ old.generation < U64Max => id.generation = old.generation + 1

\* Identities are recorded before they are published, each after the last.
RecordInv ==
    /\ record # None => record.id \in persisted /\ record.id.pq \in drawn
    /\ \A p \in Processes :
          /\ proc[p].at \in Writing =>
                /\ proc[p].id.pq \in drawn
                /\ record # None => Succeeds(proc[p].id, record.id)
          /\ proc[p].at \in {"binding", "serving"} => proc[p].id \in persisted
          /\ proc[p].at = "binding" => record # None /\ record.id = proc[p].id

\* Nothing is written under a process that serves with keys nobody replaced.
ServeInv ==
    /\ ServesRecordedIdentity
    /\ \A p, q \in Processes :
          proc[p].at \in Writing /\ proc[q].at = "serving" => replaced[q]

FileInv == WrapInv /\ RecordInv /\ ServeInv

OutputInv == SignedUnderOneIdentity /\ CertificateOfSigner

-----------------------------------------------------------------------------
(* Type correctness.                                                       *)

\* An installation that never started is well typed.
THEOREM SignerInit == Init => TypeOK /\ HoldInv
<1> SUFFICES ASSUME Init PROVE TypeOK /\ HoldInv
  OBVIOUS
<1> USE SignerAssumption DEF Init, Down, Idle
<1>1. TypeOK
  <2>1. 0 \in 0..MaxTroubles
    OBVIOUS
  <2>2. \A l \in Labels : keychain[l] \subseteq Keys \cup {Invalid}
    OBVIOUS
  <2> QED BY <2>1, <2>2 DEF TypeOK, Process, Stage, Search, Labels, Callers
<1>2. HoldInv
  BY DEF HoldInv, OneStarts, Starting, StageHolds, SearchHolds, Keyed, Wrapped,
         Identified, Writing, Stage, Callers
<1> QED BY <1>1, <1>2

\* The key a search found, and whether it is sound.
LEMMA MatchType ==
  ASSUME TypeOK, NEW w \in Callers
  PROVE  /\ Stored(w) \subseteq Keys \cup {Invalid}
         /\ Stored(w) # {} => Match(w) \in Stored(w)
         /\ Sound(w) => Match(w) \in Keys
<1>1. Stored(w) \subseteq Keys \cup {Invalid}
  BY DEF TypeOK, Stored, Search
<1>2. Stored(w) # {} => Match(w) \in Stored(w)
  BY DEF Match
<1> QED BY <1>1, <1>2 DEF Sound

\* What a step of a search does to the stages, searches and requests.
SearchStep(p, c) ==
    \/ /\ UNCHANGED <<proc, request>>
       /\ \E at \in {"delete", "create", "refind"} :
             seek' = [seek EXCEPT ![<<p, c>>].at = at]
    \/ \E k \in Keys : Return(<<p, c>>, k)
    \/ Raise(<<p, c>>)

\* The keychain never holds anything but keys and stale ones.
LEMMA SearchSteps ==
  ASSUME TypeOK, NEW p \in Processes, NEW c \in {"start", "request"},
         FindOrCreate(<<p, c>>)
  PROVE  /\ SearchStep(p, c)
         /\ seek[<<p, c>>].at # "idle"
         /\ UNCHANGED <<wrapping, record, tmp, troubles, persisted, envelopes, mdocs,
                        wrapping_lost>>
         /\ keychain' \in [Labels -> SUBSET (Keys \cup {Invalid})]
         /\ drawn' \subseteq Keys \cup PqKeys \cup WrappingKeys
         /\ replaced' \in [Processes -> BOOLEAN]
<1> DEFINE w == <<p, c>>
<1> w \in Callers
  BY DEF Callers
<1> HIDE DEF w
<1> USE DEF Looking, Continue, store, history
<1>1. CASE FindsKey(w)
  BY <1>1, MatchType DEF FindsKey, SearchStep, TypeOK, w
<1>2. CASE FindsNone(w)
  BY <1>2 DEF FindsNone, SearchStep, TypeOK, w
<1>3. CASE DeletesStale(w)
  <2>1. SearchStep(p, c)
    BY <1>3 DEF DeletesStale, SearchStep, w
  <2>2. keychain' \in [Labels -> SUBSET (Keys \cup {Invalid})]
    <3>1. \/ UNCHANGED keychain
          \/ keychain' = [keychain EXCEPT ![seek[w].label] = @ \ {Match(w)}]
      BY <1>3 DEF DeletesStale
    <3> QED BY <3>1 DEF TypeOK
  <2>3. seek[w].at # "idle" /\ UNCHANGED <<drawn, replaced>>
    BY <1>3 DEF DeletesStale
  <2> QED BY <1>3, <2>1, <2>2, <2>3 DEF DeletesStale, TypeOK, w
<1>4. CASE CreatesKey(w)
  <2>1. PICK k \in Keys : /\ Draw(Keys, k)
                          /\ keychain' = [keychain EXCEPT ![seek[w].label] = @ \cup {k}]
    BY <1>4 DEF CreatesKey
  <2>2. /\ keychain' \in [Labels -> SUBSET (Keys \cup {Invalid})]
        /\ drawn' \subseteq Keys \cup PqKeys \cup WrappingKeys
    BY <2>1 DEF TypeOK, Draw
  <2>3. replaced' \in [Processes -> BOOLEAN]
    BY <1>4 DEF CreatesKey, TypeOK
  <2>4. SearchStep(p, c)
    BY <1>4 DEF CreatesKey, SearchStep, w
  <2>5. seek[w].at # "idle"
    BY <1>4 DEF CreatesKey
  <2> QED BY <1>4, <2>2, <2>3, <2>4, <2>5 DEF CreatesKey, w
<1>5. CASE FindsCreated(w)
  BY <1>5, MatchType DEF FindsCreated, SearchStep, TypeOK, w
<1> QED BY <1>1, <1>2, <1>3, <1>4, <1>5 DEF FindOrCreate, w

\* What SearchStep may touch keeps its type and what it holds.
Moved ==
    /\ proc' \in [Processes -> Process] /\ seek' \in [Callers -> Search]
    /\ request' \in [Processes -> Request \cup {None}]
    /\ HoldInv'

LEMMA StopKeeps ==
  ASSUME TypeOK, HoldInv, NEW p \in Processes, Ends(p)
  PROVE  Moved
<1> USE SignerAssumption DEF Ends, Down, Idle, TypeOK
<1>1. /\ proc' \in [Processes -> Process] /\ seek' \in [Callers -> Search]
      /\ request' \in [Processes -> Request \cup {None}]
  BY DEF Process, Stage, Search, Labels, Callers
<1>2. OneStarts'
  BY DEF HoldInv, OneStarts, Starting
<1>3. \A q \in Processes : StageHolds(q)' /\ SearchHolds(q)'
  <2>1. ASSUME NEW q \in Processes, q # p
        PROVE  /\ proc'[q] = proc[q] /\ request'[q] = request[q]
               /\ seek'[<<q, "start">>] = seek[<<q, "start">>]
               /\ seek'[<<q, "request">>] = seek[<<q, "request">>]
    BY <2>1 DEF Callers
  <2>2. StageHolds(p)'
    BY DEF StageHolds, Keyed, Wrapped, Identified, Writing, Stage
  <2>3. SearchHolds(p)'
    BY DEF SearchHolds, Callers
  <2>4. ASSUME NEW q \in Processes, q # p
        PROVE  StageHolds(q)' /\ SearchHolds(q)'
    <3>1. StageHolds(q) /\ SearchHolds(q)
      BY DEF HoldInv
    <3> HIDE DEF Ends, TypeOK
    <3> QED BY <2>1, <2>4, <3>1 DEF StageHolds, SearchHolds
  <2> HIDE DEF Ends, Down, Idle, TypeOK
  <2> QED BY <2>2, <2>3, <2>4
<1> QED BY <1>1, <1>2, <1>3 DEF Moved, HoldInv

LEMMA StartSearchKeeps ==
  ASSUME TypeOK, HoldInv, NEW p \in Processes,
         seek[<<p, "start">>].at # "idle", SearchStep(p, "start")
  PROVE  Moved
<1> DEFINE w == <<p, "start">>
<1>0. /\ w \in Callers /\ w[1] = p /\ w[2] = "start" /\ seek[w] \in Search
      /\ proc[p] \in Process /\ proc[p].at = "finding"
      /\ seek[w].label = "mdoc" <=> proc[p].mdoc = None
  BY DEF Callers, TypeOK, HoldInv, SearchHolds
<1>1. ASSUME NEW at \in {"delete", "create", "refind"}, UNCHANGED <<proc, request>>,
             seek' = [seek EXCEPT ![w].at = at]
      PROVE  Moved
  <2>1. seek' \in [Callers -> Search]
    BY <1>1 DEF TypeOK, Search
  <2>2. HoldInv'
    BY <1>0, <1>1 DEF HoldInv, OneStarts, Starting, StageHolds, SearchHolds, TypeOK, Callers
  <2> QED BY <1>1, <2>1, <2>2 DEF Moved, TypeOK
<1>2. ASSUME NEW k \in Keys, Return(w, k)
      PROVE  Moved
  <2>1. CASE /\ seek[w].label = "mdoc"
             /\ proc' = [proc EXCEPT ![p].mdoc = k]
             /\ seek' = [seek EXCEPT ![w] = [at |-> "find", label |-> "hybrid"]]
             /\ UNCHANGED request
    <3>1. proc' \in [Processes -> Process]
      <4>1. [proc[p] EXCEPT !.mdoc = k] \in Process
        BY <1>0 DEF Process
      <4>2. proc' = [proc EXCEPT ![p] = [proc[p] EXCEPT !.mdoc = k]]
        BY <2>1 DEF TypeOK
      <4> QED BY <4>1, <4>2 DEF TypeOK
    <3>3. seek' \in [Callers -> Search]
      BY <2>1 DEF TypeOK, Search, Labels
    <3>2. HoldInv'
      BY <1>0, <2>1, SignerAssumption
      DEF HoldInv, OneStarts, Starting, StageHolds, SearchHolds, TypeOK, Callers,
          Keyed, Wrapped, Identified, Writing, Stage
    <3> QED BY <2>1, <3>1, <3>2, <3>3 DEF Moved, TypeOK
  <2>2. CASE /\ seek[w].label = "hybrid"
             /\ proc' = [proc EXCEPT ![p].classical = k, ![p].at = "wrapping"]
             /\ seek' = [seek EXCEPT ![w] = Idle]
             /\ UNCHANGED request
    <3>1. proc' \in [Processes -> Process]
      <4>1. [proc[p] EXCEPT !.classical = k, !.at = "wrapping"] \in Process
        BY <1>0 DEF Process, Stage
      <4>2. proc' = [proc EXCEPT ![p] = [proc[p] EXCEPT !.classical = k, !.at = "wrapping"]]
        BY <2>2 DEF TypeOK
      <4> QED BY <4>1, <4>2 DEF TypeOK
    <3>3. seek' \in [Callers -> Search]
      BY <2>2 DEF TypeOK, Search, Labels, Idle
    <3>2. HoldInv'
      BY <1>0, <2>2, SignerAssumption
      DEF HoldInv, OneStarts, Starting, StageHolds, SearchHolds, TypeOK, Callers, Idle,
          Keyed, Wrapped, Identified, Writing, Stage
    <3> QED BY <2>2, <3>1, <3>2, <3>3 DEF Moved, TypeOK
  <2> HIDE DEF w
  <2> QED BY <1>0, <1>2, <2>1, <2>2 DEF Return
<1>3. CASE Raise(w)
  BY <1>3, StopKeeps DEF Raise
<1> QED BY <1>1, <1>2, <1>3 DEF SearchStep

LEMMA RequestSearchKeeps ==
  ASSUME TypeOK, HoldInv, NEW p \in Processes,
         seek[<<p, "request">>].at # "idle", SearchStep(p, "request")
  PROVE  Moved
<1> DEFINE w == <<p, "request">>
<1>0. /\ w \in Callers /\ w[1] = p /\ w[2] = "request" /\ seek[w] \in Search
      /\ request[p] \in [kind : {"mdoc"}, signed : Keys, cert : Keys \cup {None}]
      /\ proc[p].at = "serving"
  BY DEF Callers, TypeOK, HoldInv, SearchHolds, Request
<1>1. ASSUME NEW at \in {"delete", "create", "refind"}, UNCHANGED <<proc, request>>,
             seek' = [seek EXCEPT ![w].at = at]
      PROVE  Moved
  <2>1. seek' \in [Callers -> Search]
    BY <1>1 DEF TypeOK, Search
  <2>2. HoldInv'
    BY <1>0, <1>1 DEF HoldInv, OneStarts, Starting, StageHolds, SearchHolds, TypeOK, Callers
  <2> QED BY <1>1, <2>1, <2>2 DEF Moved, TypeOK
<1>2. ASSUME NEW x \in Request \cup {None}, request' = [request EXCEPT ![p] = x],
             seek' = [seek EXCEPT ![w] = Idle], UNCHANGED proc
      PROVE  Moved
  <2>1. /\ seek' \in [Callers -> Search]
        /\ request' \in [Processes -> Request \cup {None}]
    BY <1>2 DEF TypeOK, Search, Labels, Idle
  <2>2. HoldInv'
    BY <1>0, <1>2 DEF HoldInv, OneStarts, Starting, StageHolds, SearchHolds, TypeOK,
                      Callers, Idle
  <2> QED BY <1>2, <2>1, <2>2 DEF Moved, TypeOK
<1>3. ASSUME NEW k \in Keys, Return(w, k)
      PROVE  Moved
  <2>1. [request[p] EXCEPT !.cert = k] \in Request
    BY <1>0 DEF Request
  <2>2. /\ request' = [request EXCEPT ![p] = [request[p] EXCEPT !.cert = k]]
        /\ seek' = [seek EXCEPT ![w] = Idle] /\ UNCHANGED proc
    BY <1>3, <1>0 DEF Return
  <2> QED BY <2>1, <2>2, <1>2
<1>4. CASE Raise(w)
  BY <1>0, <1>2, <1>4 DEF Raise
<1> QED BY <1>1, <1>3, <1>4 DEF SearchStep

\* Every step keeps the type of the state, and what each stage of a start
\* holds (main.rs 509-640; hybrid_signer.rs 53-106).
THEOREM SignerStep == TypeOK /\ HoldInv /\ TmpInv /\ [Next]_vars => TypeOK' /\ HoldInv'
<1> SUFFICES ASSUME TypeOK, HoldInv, TmpInv, [Next]_vars PROVE TypeOK' /\ HoldInv'
  OBVIOUS
<1> USE SignerAssumption
<1>1. ASSUME NEW p \in Processes, NEW c \in {"start", "request"}, FindOrCreate(<<p, c>>)
      PROVE  TypeOK' /\ HoldInv'
  <2>1. Moved
    BY <1>1, SearchSteps, StartSearchKeeps, RequestSearchKeeps
  <2> QED BY <1>1, <2>1, SearchSteps DEF Moved, TypeOK
<1>2. ASSUME NEW p \in Processes, Ends(p), UNCHANGED <<store, history>>,
             drawn' \subseteq Keys \cup PqKeys \cup WrappingKeys,
             troubles' \in 0..MaxTroubles
      PROVE  TypeOK' /\ HoldInv'
  BY <1>2, StopKeeps DEF Moved, TypeOK, store, history
<1>3. ASSUME NEW p \in Processes, Begin(p), troubles' \in 0..MaxTroubles
      PROVE  TypeOK' /\ HoldInv'
  <2>1. TypeOK'
    <3>1. proc' \in [Processes -> Process]
      <4>1. [proc[p] EXCEPT !.at = "finding"] \in Process
        BY DEF TypeOK, Process, Stage
      <4> QED BY <1>3, <4>1 DEF Begin, TypeOK
    <3>2. seek' \in [Callers -> Search] /\ replaced' \in [Processes -> BOOLEAN]
      BY <1>3 DEF Begin, TypeOK, Search, Labels
    <3> QED BY <1>3, <3>1, <3>2 DEF Begin, TypeOK, store
  <2>2. HoldInv'
    BY <1>3 DEF Begin, TypeOK, HoldInv, OneStarts, Starting, StageHolds, SearchHolds,
                Keyed, Wrapped, Identified, Writing, Stage, Callers
  <2> QED BY <2>1, <2>2
\* A step of a start moves one process from one stage to another.
<1>4. ASSUME NEW p \in Processes, NEW x \in Process, proc' = [proc EXCEPT ![p] = x],
             UNCHANGED <<seek, request>>,
             Starting(p), proc[p].at # "finding", x.at \notin {"down", "finding"},
             x.mdoc = proc[p].mdoc, x.classical = proc[p].classical,
             x.at \in Wrapped => x.wrap # None,
             x.at \in Identified => x.id # None /\ x.id.classical = x.classical
      PROVE  HoldInv' /\ proc' \in [Processes -> Process]
  BY <1>4 DEF TypeOK, HoldInv, OneStarts, Starting, StageHolds, SearchHolds, Process,
              Keyed, Wrapped, Identified, Writing, Stage
<1>5. ASSUME NEW p \in Processes, WrappingLoaded(p)
      PROVE  TypeOK' /\ HoldInv'
  <2> DEFINE x == [proc[p] EXCEPT !.wrap = wrapping, !.at = "loading"]
  <2>1. proc[p] \in Process /\ wrapping \in WrappingKeys /\ proc[p].at = "wrapping"
    BY <1>5 DEF WrappingLoaded, TypeOK
  <2>2. x \in Process /\ x.at = "loading" /\ x.mdoc = proc[p].mdoc
        /\ x.classical = proc[p].classical /\ x.wrap # None
    BY <2>1 DEF Process, Stage
  <2>3. proc' = [proc EXCEPT ![p] = x] /\ UNCHANGED <<store, seek, request, drawn, troubles, history>>
    BY <1>5 DEF WrappingLoaded, TypeOK
  <2> HIDE DEF x
  <2>4. HoldInv' /\ proc' \in [Processes -> Process]
    BY <1>4, <2>1, <2>2, <2>3 DEF Starting, Identified, Writing, store, history
  <2> QED BY <2>3, <2>4 DEF TypeOK, store, history
<1>6. ASSUME NEW p \in Processes, WrappingMissing(p)
      PROVE  TypeOK' /\ HoldInv'
  <2>1. troubles' \in 0..MaxTroubles
    BY <1>6 DEF WrappingMissing, Trouble, TypeOK
  <2>2. CASE Ends(p) /\ UNCHANGED drawn
    BY <1>2, <1>6, <2>1, <2>2 DEF WrappingMissing, TypeOK
  <2>3. ASSUME NEW k \in WrappingKeys, Draw(WrappingKeys, k), UNCHANGED <<seek, request>>,
               proc' = [proc EXCEPT ![p].wrap = k, ![p].at = "setting"]
        PROVE  TypeOK' /\ HoldInv'
    <3> DEFINE x == [proc[p] EXCEPT !.wrap = k, !.at = "setting"]
    <3>1. proc[p] \in Process /\ proc[p].at = "wrapping"
      BY <1>6 DEF WrappingMissing, TypeOK
    <3>2. x \in Process /\ x.at = "setting" /\ x.mdoc = proc[p].mdoc
          /\ x.classical = proc[p].classical /\ x.wrap # None
      BY <3>1 DEF Process, Stage
    <3>3. proc' = [proc EXCEPT ![p] = x]
      BY <2>3 DEF TypeOK
    <3> HIDE DEF x
    <3>4. HoldInv' /\ proc' \in [Processes -> Process]
      BY <1>4, <2>3, <3>1, <3>2, <3>3 DEF Starting, Identified, Writing
    <3> QED BY <1>6, <2>1, <2>3, <3>4 DEF WrappingMissing, Draw, TypeOK, store, history
  <2> QED BY <1>6, <2>2, <2>3 DEF WrappingMissing
<1>7. ASSUME NEW p \in Processes, WrappingSet(p)
      PROVE  TypeOK' /\ HoldInv'
  <2> DEFINE x == [proc[p] EXCEPT !.at = "loading"]
  <2>1. proc[p] \in Process /\ proc[p].at = "setting" /\ proc[p].wrap # None
    BY <1>7 DEF WrappingSet, TypeOK, HoldInv, StageHolds, Keyed, Wrapped, Stage
  <2>2. x \in Process /\ x.at = "loading" /\ x.mdoc = proc[p].mdoc
        /\ x.classical = proc[p].classical /\ x.wrap = proc[p].wrap
    BY <2>1 DEF Process, Stage
  <2>3. proc' = [proc EXCEPT ![p] = x]
    BY <1>7 DEF WrappingSet, TypeOK
  <2> HIDE DEF x
  <2>4. HoldInv' /\ proc' \in [Processes -> Process]
    BY <1>4, <1>7, <2>1, <2>2, <2>3 DEF WrappingSet, Starting, Identified, Writing
  <2>5. wrapping' \in WrappingKeys
    BY <1>7, <2>1 DEF WrappingSet, Process
  <2> QED BY <1>7, <2>4, <2>5 DEF WrappingSet, TypeOK, history
<1>8. ASSUME NEW p \in Processes, RecordKept(p)
      PROVE  TypeOK' /\ HoldInv'
  <2>1. CASE ~Opens(p)
    BY <1>2, <1>8, <2>1 DEF RecordKept, TypeOK
  <2>2. CASE Opens(p)
    <3> DEFINE id == [generation |-> record.id.generation,
                      classical |-> proc[p].classical, pq |-> record.id.pq]
               x == [proc[p] EXCEPT !.id = id, !.at = "binding"]
    <3>1. /\ proc[p] \in Process /\ proc[p].at = "loading" /\ record \in Record
          /\ record.id.classical = proc[p].classical
      BY <1>8, <2>2 DEF RecordKept, RecordIsOf, TypeOK
    <3>2. id \in Identity /\ id # None
      BY <3>1, NoRecordAssumption DEF Record, Identity
    <3>3. id.classical = proc[p].classical
      OBVIOUS
    <3>4. proc' = [proc EXCEPT ![p] = x] /\ UNCHANGED <<store, seek, request, drawn, troubles, history>>
      BY <1>8, <2>2 DEF RecordKept, TypeOK
    <3> HIDE DEF id
    <3>5. x \in Process /\ x.at = "binding" /\ x.mdoc = proc[p].mdoc /\ x.id = id
          /\ x.classical = proc[p].classical /\ x.wrap = proc[p].wrap
      BY <3>1, <3>2 DEF Process, Stage
    <3>6. proc[p].wrap # None
      BY <3>1 DEF HoldInv, StageHolds, Keyed, Wrapped, Stage
    <3> HIDE DEF x
    <3>7. HoldInv' /\ proc' \in [Processes -> Process]
      BY <1>4, <3>1, <3>2, <3>3, <3>4, <3>5, <3>6 DEF Starting
    <3> QED BY <3>4, <3>7 DEF TypeOK, store, history
  <2> QED BY <2>1, <2>2
<1>9. ASSUME NEW p \in Processes, KeyGenerated(p)
      PROVE  TypeOK' /\ HoldInv'
  <2>1. PICK pq \in PqKeys :
          /\ Draw(PqKeys, pq)
          /\ proc' = [proc EXCEPT
                ![p].id = [generation |-> IF record = None THEN 1
                                          ELSE NextGeneration(record.id.generation),
                           classical |-> proc[p].classical, pq |-> pq],
                ![p].at = "opening"]
    BY <1>9 DEF KeyGenerated
  <2> DEFINE generation == IF record = None THEN 1
                           ELSE NextGeneration(record.id.generation)
             id == [generation |-> generation, classical |-> proc[p].classical, pq |-> pq]
             x == [proc[p] EXCEPT !.id = id, !.at = "opening"]
  <2>2. /\ proc[p] \in Process /\ proc[p].at = "loading"
        /\ proc[p].wrap # None /\ proc[p].classical \in Keys
        /\ UNCHANGED <<store, seek, request, troubles, history>>
    BY <1>9 DEF KeyGenerated, TypeOK, HoldInv, StageHolds, Keyed, Wrapped, Stage, Process
  <2>3. generation \in 1..U64Max
    BY DEF TypeOK, Record, Identity, NextGeneration
  <2>4. proc' = [proc EXCEPT ![p] = x]
    BY <2>1 DEF TypeOK
  <2> HIDE DEF generation
  <2>5. id \in Identity /\ id # None /\ id.classical = proc[p].classical
    BY <2>2, <2>3, NoRecordAssumption DEF Identity
  <2> HIDE DEF id
  <2>6. x \in Process /\ x.at = "opening" /\ x.mdoc = proc[p].mdoc /\ x.id = id
        /\ x.classical = proc[p].classical /\ x.wrap = proc[p].wrap
    BY <2>2, <2>5 DEF Process, Stage
  <2> HIDE DEF x
  <2>7. HoldInv' /\ proc' \in [Processes -> Process]
    BY <1>4, <2>2, <2>4, <2>5, <2>6 DEF Starting
  <2> QED BY <2>1, <2>2, <2>7 DEF TypeOK, Draw, store, history
\* The steps that only move on.
<1>10. ASSUME NEW p \in Processes, NEW at \in {"filling", "renaming", "binding", "serving"},
              proc[p].at \in Writing \cup {"binding"},
              proc' = [proc EXCEPT ![p].at = at], UNCHANGED <<seek, request>>
       PROVE  HoldInv' /\ proc' \in [Processes -> Process]
  <2> DEFINE x == [proc[p] EXCEPT !.at = at]
  <2>1. /\ proc[p] \in Process /\ proc[p].at \in Wrapped \cap Identified /\ Starting(p)
        /\ proc[p].at # "finding"
    BY <1>10 DEF TypeOK, Wrapped, Keyed, Identified, Writing, Stage, Starting
  <2>2. x \in Process /\ x.at = at /\ x.mdoc = proc[p].mdoc /\ x.id = proc[p].id
        /\ x.classical = proc[p].classical /\ x.wrap = proc[p].wrap
    BY <2>1 DEF Process, Stage
  <2>3. proc' = [proc EXCEPT ![p] = x]
    BY <1>10 DEF TypeOK
  <2>4. proc[p].wrap # None /\ proc[p].id # None /\ proc[p].id.classical = proc[p].classical
    BY <2>1 DEF HoldInv, StageHolds
  <2> HIDE DEF x
  <2> QED BY <1>4, <1>10, <2>1, <2>2, <2>3, <2>4
<1>11. ASSUME NEW p \in Processes, TemporaryOpened(p)
       PROVE  TypeOK' /\ HoldInv'
  BY <1>10, <1>11 DEF TemporaryOpened, OpenTemporary, TypeOK, Writing, history
<1>12. ASSUME NEW p \in Processes, TemporaryFilled(p)
       PROVE  TypeOK' /\ HoldInv'
  <2>1. proc[p].id \in Identity /\ proc[p].wrap \in WrappingKeys
    BY <1>12 DEF TemporaryFilled, TypeOK, HoldInv, StageHolds, Keyed, Wrapped, Identified,
                 Writing, Stage, Process
  <2>2. tmp' \in Record
    BY <1>12, <2>1 DEF TemporaryFilled, Record
  <2> QED BY <1>10, <1>12, <2>2 DEF TemporaryFilled, TypeOK, Writing, history
<1>13. ASSUME NEW p \in Processes, TemporaryRenamed(p), tmp \in Record
       PROVE  TypeOK' /\ HoldInv'
  <2>1. tmp.id \in Identity
    BY <1>13 DEF Record
  <2> QED BY <1>10, <1>13, <2>1 DEF TemporaryRenamed, TypeOK, Writing
<1>14. ASSUME NEW p \in Processes, Binds(p)
       PROVE  TypeOK' /\ HoldInv'
  <2>1. CASE Ends(p)
    BY <1>2, <1>14, <2>1 DEF Binds, TypeOK
  <2>2. CASE proc' = [proc EXCEPT ![p].at = "serving"] /\ UNCHANGED <<seek, request>>
    BY <1>10, <1>14, <2>2 DEF Binds, TypeOK, store, history
  <2> QED BY <1>14, <2>1, <2>2 DEF Binds
\* Requests of a serving process.
<1>15. ASSUME NEW p \in Processes, NEW x \in Request \cup {None},
              request' = [request EXCEPT ![p] = x], x = None \/ proc[p].at = "serving",
              seek[<<p, "request">>].at = "idle", UNCHANGED <<proc, seek>>
       PROVE  HoldInv' /\ request' \in [Processes -> Request \cup {None}]
  BY <1>15 DEF HoldInv, OneStarts, Starting, StageHolds, SearchHolds, TypeOK
<1>16. ASSUME NEW p \in Processes, request[p] = None \/ request[p].kind = "envelope"
                                   \/ request[p].cert # None
       PROVE  seek[<<p, "request">>].at = "idle"
  BY <1>16 DEF HoldInv, SearchHolds
<1>17. ASSUME NEW p \in Processes, EnvelopeSigned(p)
       PROVE  TypeOK' /\ HoldInv'
  <2>1. proc[p].classical \in Keys
    BY <1>17 DEF EnvelopeSigned, Free, TypeOK, HoldInv, StageHolds, Keyed, Stage, Process
  <2>2. [kind |-> "envelope", signed |-> proc[p].classical] \in Request
    BY <2>1 DEF Request
  <2> QED BY <1>15, <1>16, <1>17, <2>2 DEF EnvelopeSigned, Free, TypeOK, store, history
<1>18. ASSUME NEW p \in Processes, EnvelopeEmitted(p)
       PROVE  TypeOK' /\ HoldInv'
  <2>1. /\ record \in Record /\ proc[p].id = record.id
        /\ request[p] \in Request /\ request[p].kind = "envelope"
    BY <1>18 DEF EnvelopeEmitted, StoredIsIdentity, Opens, TypeOK
  <2>2. /\ proc[p].id \in Identity /\ record.id.pq \in PqKeys /\ request[p].signed \in Keys
    BY <2>1 DEF Record, Identity, Request
  <2>3. [id |-> proc[p].id, signed |-> request[p].signed, pq_signed |-> record.id.pq]
          \in Envelope
    BY <2>2 DEF Envelope
  <2> QED BY <1>15, <1>16, <1>18, <2>1, <2>3 DEF EnvelopeEmitted, TypeOK, store
<1>19. ASSUME NEW p \in Processes, MdocSigned(p)
       PROVE  TypeOK' /\ HoldInv'
  <2>1. proc[p].mdoc \in Keys
    BY <1>19 DEF MdocSigned, Free, TypeOK, HoldInv, StageHolds, Keyed, Stage, Process
  <2> DEFINE x == [kind |-> "mdoc", signed |-> proc[p].mdoc, cert |-> None]
  <2>2. x \in Request /\ x.kind = "mdoc" /\ x.cert = None
    BY <2>1 DEF Request
  <2>3. request' = [request EXCEPT ![p] = x] /\ proc[p].at = "serving"
        /\ seek' = [seek EXCEPT ![<<p, "request">>] = [at |-> "find", label |-> "mdoc"]]
        /\ UNCHANGED <<store, proc, drawn, troubles, history>>
    BY <1>19 DEF MdocSigned, Free, CertificateLabel
  <2> HIDE DEF x
  <2>4. /\ request' \in [Processes -> Request \cup {None}]
        /\ seek' \in [Callers -> Search]
    BY <2>2, <2>3 DEF TypeOK, Search, Labels
  <2>5. HoldInv'
    BY <2>2, <2>3, NoRecordAssumption
    DEF HoldInv, OneStarts, Starting, StageHolds, SearchHolds, TypeOK, Callers
  <2> QED BY <2>3, <2>4, <2>5 DEF TypeOK, store, history
<1>20. ASSUME NEW p \in Processes, MdocEmitted(p)
       PROVE  TypeOK' /\ HoldInv'
  <2>1. /\ record \in Record /\ proc[p].id = record.id /\ proc[p].id.pq = record.id.pq
        /\ request[p] \in Request /\ request[p].kind = "mdoc" /\ request[p].cert # None
    BY <1>20 DEF MdocEmitted, StoredIsIdentity, Opens, TypeOK
  <2>2. /\ record.id.pq \in PqKeys /\ request[p].signed \in Keys /\ request[p].cert \in Keys
    BY <2>1 DEF Record, Identity, Request
  <2>3. [signed |-> request[p].signed, cert |-> request[p].cert, pq |-> proc[p].id.pq,
         pq_signed |-> record.id.pq, excused |-> replaced[p]] \in Mdoc
    BY <2>1, <2>2 DEF Mdoc, TypeOK
  <2> QED BY <1>15, <1>16, <1>20, <2>1, <2>3 DEF MdocEmitted, TypeOK, store
<1>21. ASSUME NEW p \in Processes, IdentityChanged(p)
       PROVE  TypeOK' /\ HoldInv'
  <2>1. request[p].kind \in {"envelope", "mdoc"}
    BY <1>21 DEF IdentityChanged, TypeOK, Request
  <2> QED BY <1>15, <1>16, <1>21, <2>1 DEF IdentityChanged, TypeOK, store, history
\* What goes wrong.
<1>22. ASSUME NEW p \in Processes, Stops(p)
       PROVE  TypeOK' /\ HoldInv'
  BY <1>2, <1>22 DEF Stops, Trouble, TypeOK
<1>23. ASSUME NEW p \in Processes, KeychainRefuses(p)
       PROVE  TypeOK' /\ HoldInv'
  <2>1. /\ request' \in [Processes -> Request \cup {None}]
        /\ seek' \in [Callers -> Search]
    BY <1>23 DEF KeychainRefuses, TypeOK, Search, Labels, Idle
  <2>2. HoldInv'
    BY <1>23 DEF KeychainRefuses, HoldInv, OneStarts, Starting, StageHolds, SearchHolds,
                 TypeOK, Callers, Idle
  <2> QED BY <1>23, <2>1, <2>2 DEF KeychainRefuses, Trouble, TypeOK, store, history
<1>24. CASE (\E l \in Labels : KeysDeleted(l)) \/ WrappingKeyDeleted
  <2>1. UNCHANGED <<proc, seek, request>>
    BY <1>24 DEF KeysDeleted, WrappingKeyDeleted
  <2>2. HoldInv'
    BY <2>1 DEF HoldInv, OneStarts, Starting, StageHolds, SearchHolds
  <2>3. TypeOK'
    <3>1. ASSUME NEW l \in Labels, KeysDeleted(l) PROVE TypeOK'
      <4>1. /\ keychain' \in [Labels -> SUBSET (Keys \cup {Invalid})]
            /\ replaced' \in [Processes -> BOOLEAN]
        BY <3>1 DEF KeysDeleted, TypeOK
      <4> QED BY <3>1, <4>1 DEF KeysDeleted, Trouble, TypeOK
    <3>2. CASE WrappingKeyDeleted
      <4>1. wrapping_lost' \in BOOLEAN
        BY <3>2 DEF WrappingKeyDeleted
      <4> QED BY <3>2, <4>1 DEF WrappingKeyDeleted, Trouble, TypeOK
    <3> QED BY <1>24, <3>1, <3>2
  <2> QED BY <2>2, <2>3
<1>25. CASE UNCHANGED vars
  <2>1. HoldInv'
    BY <1>25 DEF HoldInv, OneStarts, Starting, StageHolds, SearchHolds, vars
  <2> QED BY <1>25, <2>1 DEF vars, TypeOK, store, history
<1>26. ASSUME NEW p \in Processes, StartStep(p) PROVE TypeOK' /\ HoldInv'
  <2>1. proc[p].at = "renaming" => tmp \in Record
    <3>1. ASSUME proc[p].at = "renaming" PROVE tmp \in Record
      <4>1. proc[p].id \in Identity /\ proc[p].wrap \in WrappingKeys
        BY <3>1 DEF TypeOK, HoldInv, StageHolds, Keyed, Wrapped, Identified, Writing,
                    Stage, Process
      <4>2. tmp = [id |-> proc[p].id, wrap |-> proc[p].wrap]
        BY <3>1 DEF TmpInv
      <4> QED BY <4>1, <4>2 DEF Record
    <3> QED BY <3>1
  <2>2. TemporaryRenamed(p) => tmp \in Record
    BY <2>1 DEF TemporaryRenamed
  <2> QED
    BY <1>1, <1>5, <1>6, <1>7, <1>8, <1>9, <1>11, <1>12, <1>13, <1>14, <1>26, <2>2
    DEF StartStep
<1>27. ASSUME NEW p \in Processes, RequestStep(p) PROVE TypeOK' /\ HoldInv'
  BY <1>1, <1>17, <1>18, <1>19, <1>20, <1>21, <1>27 DEF RequestStep
<1>28. CASE SupervisorStarts
  BY <1>3, <1>28 DEF SupervisorStarts, Processes, TypeOK
<1>29. ASSUME NEW p \in Processes, StartByHand(p) PROVE TypeOK' /\ HoldInv'
  BY <1>3, <1>29 DEF StartByHand, Trouble, TypeOK
<1>30. CASE Troubles
  BY <1>22, <1>23, <1>24, <1>29, <1>30 DEF Troubles
<1> QED BY <1>25, <1>26, <1>27, <1>28, <1>30 DEF Next

-----------------------------------------------------------------------------
(* The steps by what they do to the key file.                              *)

\* A step that leaves the file and the wrapping key alone, and brings no
\* process further than to the wrapping key.
FileQuiet ==
    /\ UNCHANGED <<wrapping, record, tmp, persisted, wrapping_lost>>
    /\ drawn \subseteq drawn'
    /\ \A q \in Processes :
          /\ proc'[q] = proc[q] \/ proc'[q].at \in {"down", "finding", "wrapping"}
          /\ replaced[q] => replaced'[q] \/ proc'[q].at = "finding"

FileStep(p) ==
    \/ WrappingLoaded(p) \/ WrappingMissing(p) \/ WrappingSet(p)
    \/ RecordKept(p) \/ KeyGenerated(p)
    \/ TemporaryOpened(p) \/ TemporaryFilled(p) \/ TemporaryRenamed(p)
    \/ Binds(p)

LEMMA EndsQuiet ==
  ASSUME TypeOK, NEW p \in Processes, Ends(p), UNCHANGED <<store, history>>,
         drawn \subseteq drawn'
  PROVE  FileQuiet
  BY DEF Ends, Down, FileQuiet, TypeOK, store, history

\* Searches, requests and what goes wrong are quiet (main.rs 537-560 and
\* 4017-4026; hybrid_signer.rs 108-180).
LEMMA FileSteps ==
  ASSUME TypeOK, HoldInv, [Next]_vars
  PROVE  FileQuiet \/ WrappingKeyDeleted \/ \E p \in Processes : FileStep(p)
<1> DEFINE Goal == FileQuiet \/ WrappingKeyDeleted \/ \E p \in Processes : FileStep(p)
<1> USE DEF store, history
<1>1. ASSUME NEW p \in Processes, NEW c \in {"start", "request"}, FindOrCreate(<<p, c>>)
      PROVE  FileQuiet
  <2> DEFINE w == <<p, c>>
  <2>1. /\ UNCHANGED <<wrapping, record, tmp, persisted, wrapping_lost>>
        /\ SearchStep(p, c)
    BY <1>1, SearchSteps
  <2>2. drawn \subseteq drawn' /\ \A q \in Processes : replaced[q] => replaced'[q]
    BY <1>1 DEF FindOrCreate, FindsKey, FindsNone, DeletesStale, CreatesKey, FindsCreated, Draw
  <2>3. ASSUME NEW q \in Processes
        PROVE  proc'[q] = proc[q] \/ proc'[q].at \in {"down", "finding", "wrapping"}
    <3>1. ASSUME NEW k, Return(w, k)
          PROVE  proc'[q] = proc[q] \/ proc'[q].at \in {"down", "finding", "wrapping"}
      <4>1. CASE c = "start" /\ seek[w].label = "mdoc" /\ proc' = [proc EXCEPT ![p].mdoc = k]
        <5>1. seek[w].at # "idle"
          BY <1>1, SearchSteps
        <5>2. proc[p].at = "finding"
          BY <4>1, <5>1 DEF HoldInv, SearchHolds
        <5> QED BY <4>1, <5>2 DEF TypeOK, Process
      <4>2. CASE proc' = [proc EXCEPT ![p].classical = k, ![p].at = "wrapping"]
        BY <4>2 DEF TypeOK, Process
      <4> QED BY <3>1, <4>1, <4>2 DEF Return
    <3>2. CASE Raise(w)
      BY <3>2 DEF Raise, Ends, Down, TypeOK
    <3> QED BY <2>1, <3>1, <3>2 DEF SearchStep
  <2> QED BY <2>1, <2>2, <2>3 DEF FileQuiet
<1>2. ASSUME NEW p \in Processes, Begin(p)
      PROVE  FileQuiet
  BY <1>2 DEF Begin, FileQuiet, TypeOK, Process
<1>3. ASSUME NEW p \in Processes, RequestStep(p)
      PROVE  FileQuiet
  BY <1>1, <1>3
  DEF RequestStep, EnvelopeSigned, EnvelopeEmitted, MdocSigned, MdocEmitted,
      IdentityChanged, FileQuiet
<1>4. ASSUME Troubles
      PROVE  FileQuiet \/ WrappingKeyDeleted
  <2>1. ASSUME NEW p \in Processes, Stops(p) PROVE FileQuiet
    BY <2>1, EndsQuiet DEF Stops
  <2>2. ASSUME NEW p \in Processes, KeychainRefuses(p) PROVE FileQuiet
    BY <2>2 DEF KeychainRefuses, FileQuiet
  <2>3. ASSUME NEW l \in Labels, KeysDeleted(l) PROVE FileQuiet
    BY <2>3 DEF KeysDeleted, FileQuiet, TypeOK
  <2> QED BY <1>2, <1>4, <2>1, <2>2, <2>3 DEF Troubles, StartByHand
<1>5. CASE SupervisorStarts
  BY <1>2, <1>5 DEF SupervisorStarts, Processes
<1>6. CASE UNCHANGED vars
  BY <1>6 DEF vars, FileQuiet
<1>7. ASSUME NEW p \in Processes, StartStep(p)
      PROVE  FileQuiet \/ FileStep(p)
  BY <1>1, <1>7 DEF StartStep, FileStep
<1> QED BY <1>3, <1>4, <1>5, <1>6, <1>7 DEF Next

\* A step on the file is of the one process that starts.
LEMMA FileStepFrame ==
  ASSUME TypeOK, HoldInv, NEW p \in Processes, FileStep(p)
  PROVE  /\ Starting(p) /\ proc[p].at # "finding"
         /\ \A q \in Processes \ {p} : proc'[q] = proc[q] /\ ~Starting(q)
         /\ UNCHANGED <<keychain, envelopes, mdocs, replaced, wrapping_lost>>
         /\ Ends(p) \/ UNCHANGED <<seek, request>>
<1>1. Starting(p) /\ proc[p].at # "finding"
  BY DEF FileStep, WrappingLoaded, WrappingMissing, WrappingSet, RecordKept, KeyGenerated,
         TemporaryOpened, TemporaryFilled, TemporaryRenamed, Binds, Starting
<1>2. \A q \in Processes \ {p} : proc'[q] = proc[q]
  BY DEF FileStep, WrappingLoaded, WrappingMissing, WrappingSet, RecordKept, KeyGenerated,
         TemporaryOpened, TemporaryFilled, TemporaryRenamed, Binds, Ends, TypeOK
<1>3. \A q \in Processes \ {p} : ~Starting(q)
  BY <1>1 DEF HoldInv, OneStarts
<1>4. /\ UNCHANGED <<keychain, envelopes, mdocs, replaced, wrapping_lost>>
      /\ Ends(p) \/ UNCHANGED <<seek, request>>
  BY DEF FileStep, WrappingLoaded, WrappingMissing, WrappingSet, RecordKept, KeyGenerated,
         TemporaryOpened, TemporaryFilled, TemporaryRenamed, Binds, store, history
<1> QED BY <1>1, <1>2, <1>3, <1>4

\* The temporary file is written by one start at a time (hybrid_signer.rs
\* 228-262).
THEOREM StepTmp == TypeOK /\ HoldInv /\ TmpInv /\ [Next]_vars => TmpInv'
<1> SUFFICES ASSUME TypeOK, HoldInv, TmpInv, [Next]_vars PROVE TmpInv'
  OBVIOUS
<1> USE DEF TmpInv
<1>1. CASE FileQuiet \/ WrappingKeyDeleted
  BY <1>1 DEF FileQuiet, WrappingKeyDeleted
<1>2. ASSUME NEW p \in Processes, FileStep(p)
      PROVE  TmpInv'
  <2>1. \A q \in Processes \ {p} : proc'[q].at # "renaming"
    BY <1>2, FileStepFrame DEF Starting
  <2>2. CASE TemporaryFilled(p)
    BY <2>1, <2>2 DEF TemporaryFilled, TypeOK, Process
  <2>3. CASE ~TemporaryFilled(p)
    <3>1. proc'[p].at # "renaming"
      <4>1. CASE Ends(p)
        BY <4>1 DEF Ends, Down, TypeOK
      <4>2. CASE WrappingLoaded(p) \/ WrappingMissing(p) \/ WrappingSet(p)
        BY <4>1, <4>2 DEF WrappingLoaded, WrappingMissing, WrappingSet, TypeOK, Process
      <4>3. CASE RecordKept(p)
        BY <4>1, <4>3 DEF RecordKept, TypeOK, Process
      <4>4. CASE KeyGenerated(p)
        BY <4>4 DEF KeyGenerated, TypeOK, Process
      <4>5. CASE TemporaryOpened(p) \/ TemporaryRenamed(p) \/ Binds(p)
        BY <4>1, <4>5 DEF TemporaryOpened, TemporaryRenamed, Binds, TypeOK, Process
      <4> QED BY <1>2, <2>3, <4>2, <4>3, <4>4, <4>5 DEF FileStep
    <3> QED BY <2>1, <3>1
  <2> QED BY <2>2, <2>3
<1> QED BY <1>1, <1>2, FileSteps

-----------------------------------------------------------------------------
(* The keys a process holds and those a search finds.                      *)

\* A step on the file keeps the keys at hand, or ends the start.
LEMMA FileStepKeys ==
  ASSUME TypeOK, NEW p \in Processes, FileStep(p)
  PROVE  Ends(p) \/ /\ proc'[p].mdoc = proc[p].mdoc
                    /\ proc'[p].classical = proc[p].classical
<1>1. CASE WrappingLoaded(p)
  BY <1>1 DEF WrappingLoaded, TypeOK, Process
<1>5. CASE WrappingMissing(p)
  <2>1. Ends(p) \/ \E x \in WrappingKeys : proc' = [proc EXCEPT ![p].wrap = x, ![p].at = "setting"]
    BY <1>5 DEF WrappingMissing
  <2> QED BY <2>1 DEF TypeOK, Process
<1>6. CASE WrappingSet(p)
  BY <1>6 DEF WrappingSet, TypeOK, Process
<1>2. CASE RecordKept(p)
  BY <1>2 DEF RecordKept, TypeOK, Process
<1>3. CASE KeyGenerated(p)
  BY <1>3 DEF KeyGenerated, TypeOK, Process
<1>4. CASE TemporaryOpened(p) \/ TemporaryFilled(p) \/ TemporaryRenamed(p) \/ Binds(p)
  BY <1>4 DEF TemporaryOpened, TemporaryFilled, TemporaryRenamed, Binds, TypeOK, Process
<1> QED BY <1>1, <1>2, <1>3, <1>4, <1>5, <1>6 DEF FileStep

\* What a stop takes away was not looked for any more.
LEMMA StopKeys ==
  ASSUME TypeOK, HoldInv, KeyInv, NEW p \in Processes, Ends(p),
         UNCHANGED <<keychain, replaced>>
  PROVE  KeyInv'
<1>1. /\ \A q \in Processes \ {p} : proc'[q] = proc[q] /\ request'[q] = request[q]
      /\ proc'[p] = Down /\ request'[p] = None
      /\ seek'[<<p, "start">>].at = "idle" /\ seek'[<<p, "request">>].at = "idle"
      /\ \A q \in Processes \ {p} : /\ seek'[<<q, "start">>] = seek[<<q, "start">>]
                                    /\ seek'[<<q, "request">>] = seek[<<q, "request">>]
  BY DEF Ends, TypeOK, Callers, Idle
<1> USE <1>1 DEF Down
<1>2. HeldIsFound'
  BY DEF KeyInv, HeldIsFound, Held
<1>3. SearchInv'
  <2>1. ASSUME NEW q \in Processes, seek'[<<q, "start">>].at = "delete"
        PROVE  /\ seek'[<<q, "start">>].label = "hybrid"
               /\ \A x \in Processes : proc'[x].classical = None \/ replaced'[x]
    <3>1. q # p /\ seek'[<<q, "start">>] = seek[<<q, "start">>]
      BY <2>1
    <3> QED BY <2>1, <3>1 DEF KeyInv, SearchInv
  <2>2. ASSUME NEW q \in Processes
        PROVE  /\ seek'[<<q, "request">>].at \in {"create", "refind"} => replaced'[q]
               /\ seek'[<<q, "request">>].at # "delete"
    BY DEF KeyInv, SearchInv
  <2>3. Invalid \notin keychain'["mdoc"]
    BY DEF KeyInv, SearchInv
  <2> QED BY <2>1, <2>2, <2>3 DEF SearchInv
<1>4. RequestInv'
  BY DEF KeyInv, RequestInv
<1>5. SameClassical'
  BY DEF KeyInv, SameClassical, Starting
<1> QED BY <1>2, <1>3, <1>4, <1>5 DEF KeyInv

LEMMA FileStepKeepsKeys ==
  ASSUME TypeOK, HoldInv, KeyInv, NEW p \in Processes, FileStep(p)
  PROVE  KeyInv'
<1>1. CASE Ends(p)
  BY <1>1, FileStepFrame, StopKeys
<1>2. CASE ~Ends(p)
  <2>1. /\ \A q \in Processes : /\ proc'[q].mdoc = proc[q].mdoc
                                /\ proc'[q].classical = proc[q].classical
        /\ \A q \in Processes \ {p} : proc'[q] = proc[q] /\ ~Starting(q)
        /\ UNCHANGED <<keychain, replaced, seek, request>> /\ Starting(p)
    BY <1>2, FileStepFrame, FileStepKeys
  <2>2. HeldIsFound'
    BY <2>1 DEF KeyInv, HeldIsFound, Held
  <2>3. SearchInv'
    BY <2>1 DEF KeyInv, SearchInv
  <2>4. RequestInv'
    BY <2>1 DEF KeyInv, RequestInv
  <2>5. SameClassical'
    BY <2>1 DEF KeyInv, SameClassical, Starting
  <2> QED BY <2>2, <2>3, <2>4, <2>5 DEF KeyInv
<1> QED BY <1>1, <1>2

\* What a search of p finds is what another process with that key holds.
LEMMA SearchFinds ==
  ASSUME TypeOK, KeyInv, NEW w \in Callers, NEW q \in Processes, ~replaced[q],
         Held(q, seek[w].label) # None
  PROVE  Stored(w) # {} /\ Match(w) = Held(q, seek[w].label) /\ Sound(w)
<1>1. seek[w].label \in Labels
  BY DEF TypeOK, Search
<1>2. Stored(w) # {} /\ Match(w) = Held(q, seek[w].label)
  BY <1>1 DEF KeyInv, HeldIsFound, Stored, Match
<1>3. Held(q, seek[w].label) # Invalid
  BY SignerAssumption DEF Held, TypeOK, Process
<1> QED BY <1>2, <1>3 DEF Sound

\* A start that takes the key it finds takes the one others hold.
LEMMA StartTakesKey ==
  ASSUME TypeOK, HoldInv, KeyInv, NEW p \in Processes,
         seek[<<p, "start">>].at # "idle", Sound(<<p, "start">>),
         Return(<<p, "start">>, Match(<<p, "start">>)), UNCHANGED <<keychain, replaced>>
  PROVE  KeyInv'
<1> DEFINE w == <<p, "start">>
           k == Match(w)
           l == seek[w].label
<1>0. /\ w \in Callers /\ w[1] = p /\ w[2] = "start" /\ l \in Labels
      /\ proc[p] \in Process /\ proc[p].at = "finding" /\ Starting(p)
      /\ proc[p].classical = None /\ proc \in [Processes -> Process]
      /\ UNCHANGED request
  BY DEF Callers, TypeOK, HoldInv, SearchHolds, StageHolds, Keyed, Starting, Search, Return
<1>1. k = CHOOSE x \in keychain[l] : TRUE
  BY DEF Match, Stored
<1>2. keychain[l] # {}
  BY DEF Sound, Stored
<1>3. \A q \in Processes : ~replaced[q] /\ Held(q, l) # None => k = Held(q, l)
  BY <1>0, SearchFinds
<1>4. \A q \in Processes \ {p} : /\ proc'[q] = proc[q]
                                /\ seek'[<<q, "start">>] = seek[<<q, "start">>]
  BY <1>0 DEF Return, TypeOK, Callers
<1>5. \A q \in Processes : seek'[<<q, "request">>] = seek[<<q, "request">>]
  BY <1>0 DEF Return, TypeOK, Callers
<1>6. seek'[w].at \in {"idle", "find"}
  BY <1>0 DEF Return, TypeOK, Idle
<1>7. CASE l = "mdoc" /\ proc' = [proc EXCEPT ![p].mdoc = k]
  <2>1. proc'[p] = [proc[p] EXCEPT !.mdoc = k]
    BY <1>0, <1>7
  <2>2. proc'[p].mdoc = k /\ proc'[p].classical = proc[p].classical /\ proc'[p].at = "finding"
    BY <1>0, <2>1 DEF Process
  <2>7. request[p] = None
    BY <1>0 DEF HoldInv, SearchHolds
  <2>3. HeldIsFound'
    BY <1>1, <1>2, <1>4, <1>7, <2>2 DEF KeyInv, HeldIsFound, Held
  <2>4. SearchInv'
    BY <1>0, <1>4, <1>5, <1>6, <2>2 DEF KeyInv, SearchInv
  <2>5. RequestInv'
    BY <1>0, <1>4, <2>2, <2>7 DEF KeyInv, RequestInv
  <2>6. SameClassical'
    <3>1. \A q \in Processes : /\ proc'[q].at = proc[q].at
                               /\ proc'[q].classical = proc[q].classical
      BY <1>0, <1>4, <2>2
    <3> QED BY <3>1 DEF KeyInv, SameClassical, Starting
  <2> QED BY <2>3, <2>4, <2>5, <2>6 DEF KeyInv
<1>8. CASE l = "hybrid" /\ proc' = [proc EXCEPT ![p].classical = k, ![p].at = "wrapping"]
  <2>1. proc'[p] = [proc[p] EXCEPT !.classical = k, !.at = "wrapping"]
    BY <1>0, <1>8
  <2>2. proc'[p].mdoc = proc[p].mdoc /\ proc'[p].classical = k /\ proc'[p].at = "wrapping"
    BY <1>0, <2>1 DEF Process
  <2>3. HeldIsFound'
    <3>1. /\ Held(p, "hybrid")' = k /\ Held(p, "mdoc")' = Held(p, "mdoc")
          /\ \A q \in Processes \ {p}, m \in Labels : Held(q, m)' = Held(q, m)
      BY <1>4, <2>2 DEF Held
    <3> HIDE DEF k
    <3> QED BY <1>1, <1>2, <1>8, <3>1 DEF KeyInv, HeldIsFound, Labels
  <2>4. SearchInv'
    <3>1. \A q \in Processes : seek'[<<q, "start">>].at # "delete"
      <4>1. \A q \in Processes \ {p} : seek[<<q, "start">>].at = "idle"
        <5>1. \A q \in Processes \ {p} : proc[q].at # "finding"
          BY <1>0 DEF HoldInv, OneStarts, Starting
        <5> QED BY <5>1 DEF HoldInv, SearchHolds
      <4> QED BY <1>4, <1>6, <4>1
    <3> QED BY <1>5, <3>1 DEF KeyInv, SearchInv
  <2>7. request[p] = None
    BY <1>0 DEF HoldInv, SearchHolds
  <2>5. RequestInv'
    BY <1>0, <1>4, <2>2, <2>7 DEF KeyInv, RequestInv
  <2>6. SameClassical'
    <3>1. \A q \in Processes : proc[q].at = "serving" => Held(q, "hybrid") # None
      BY DEF HoldInv, StageHolds, Keyed, Stage, Held
    <3>2. \A q \in Processes \ {p} : ~Starting(q)'
      BY <1>0, <1>4 DEF HoldInv, OneStarts, Starting
    <3>3. ASSUME NEW q \in Processes, q # p, proc[q].at = "serving", ~replaced[q]
          PROVE  proc[q].classical = k
      <4>1. Held(q, "hybrid") = proc[q].classical
        BY DEF Held
      <4>2. k = Held(q, "hybrid")
        BY <1>3, <1>8, <3>1, <3>3
      <4> QED BY <4>1, <4>2
    <3> HIDE DEF k
    <3>4. ASSUME NEW q \in Processes, proc'[q].at = "serving", ~replaced'[q]
          PROVE  proc'[p].classical = proc'[q].classical
      <4>1. q # p
        BY <2>2, <3>4
      <4>2. proc'[q] = proc[q] /\ ~replaced[q]
        BY <1>4, <3>4, <4>1
      <4> QED BY <2>2, <3>3, <3>4, <4>1, <4>2
    <3> QED BY <3>2, <3>4 DEF SameClassical
  <2> QED BY <2>3, <2>4, <2>5, <2>6 DEF KeyInv
<1> QED BY <1>0, <1>7, <1>8 DEF Return

\* The search of a start keeps what is known of the keys (signer.rs 47-140).
LEMMA StartSearchKeys ==
  ASSUME TypeOK, HoldInv, KeyInv, NEW p \in Processes, FindOrCreate(<<p, "start">>)
  PROVE  KeyInv'
<1> DEFINE w == <<p, "start">>
           l == seek[w].label
<1>0. /\ w \in Callers /\ w[1] = p /\ w[2] = "start" /\ l \in Labels
      /\ seek[w].at # "idle" /\ proc[p].at = "finding" /\ Starting(p)
      /\ proc[p].classical = None /\ (l = "mdoc" <=> proc[p].mdoc = None)
  BY SearchSteps
  DEF Callers, TypeOK, HoldInv, SearchHolds, StageHolds, Keyed, Starting, Search
<1>1. ASSUME NEW at \in {"delete", "create", "refind"}, Continue(w, at)
      PROVE  /\ seek'[w].at = at /\ seek'[w].label = l
             /\ \A q \in Processes \ {p} : seek'[<<q, "start">>] = seek[<<q, "start">>]
             /\ \A q \in Processes : seek'[<<q, "request">>] = seek[<<q, "request">>]
  BY <1>0, <1>1 DEF Continue, TypeOK, Callers, Search
<1>2. CASE FindsKey(w)
  <2>1. CASE Sound(w) /\ Return(w, Match(w))
    BY <1>0, <1>2, <2>1, StartTakesKey DEF FindsKey, store, history
  <2>2. CASE ~Sound(w) /\ Continue(w, "delete") /\ UNCHANGED <<proc, request>>
    <3>1. Stored(w) # {} /\ Match(w) = Invalid /\ Invalid \in keychain[l]
      BY <1>0, <1>2, <2>2, MatchType DEF FindsKey, Sound, Stored
    <3>2. l = "hybrid"
      BY <1>0, <3>1 DEF KeyInv, SearchInv, Labels
    <3>3. \A q \in Processes : proc[q].classical = None \/ replaced[q]
      BY <1>0, <2>2, <3>2, SearchFinds DEF Held
    <3>4. UNCHANGED <<keychain, replaced, proc, request>>
      BY <1>2, <2>2 DEF FindsKey, store, history
    <3>5. SearchInv'
      BY <1>1, <2>2, <3>2, <3>3, <3>4 DEF KeyInv, SearchInv
    <3> QED BY <3>4, <3>5 DEF KeyInv, HeldIsFound, Held, RequestInv, SameClassical, Starting
  <2> QED BY <1>2, <2>1, <2>2 DEF FindsKey
<1>3. CASE FindsNone(w)
  <2>1. UNCHANGED <<keychain, replaced, proc, request>> /\ Continue(w, "create")
    BY <1>3 DEF FindsNone, store, history
  <2>2. SearchInv'
    BY <1>1, <2>1 DEF KeyInv, SearchInv
  <2> QED BY <2>1, <2>2 DEF KeyInv, HeldIsFound, Held, RequestInv, SameClassical, Starting
<1>4. CASE DeletesStale(w)
  <2>1. CASE Raise(w) /\ UNCHANGED keychain
    BY <1>0, <1>4, <2>1, StopKeys DEF DeletesStale, Raise, history
  <2>2. CASE /\ keychain' = [keychain EXCEPT ![l] = @ \ {Match(w)}]
             /\ Continue(w, "create") /\ UNCHANGED <<proc, request>>
    <3>1. /\ l = "hybrid" /\ \A q \in Processes : proc[q].classical = None \/ replaced[q]
          /\ UNCHANGED replaced
      BY <1>4 DEF DeletesStale, Looking, KeyInv, SearchInv, history
    <3>2. HeldIsFound'
      BY <2>2, <3>1 DEF KeyInv, HeldIsFound, Held, TypeOK, Labels
    <3>3. SearchInv'
      BY <1>1, <2>2, <3>1 DEF KeyInv, SearchInv, TypeOK, Labels
    <3> QED BY <2>2, <3>1, <3>2, <3>3 DEF KeyInv, RequestInv, SameClassical, Starting
  <2> QED BY <1>4, <2>1, <2>2 DEF DeletesStale
<1>5. CASE CreatesKey(w)
  <2>1. PICK k \in Keys : keychain' = [keychain EXCEPT ![l] = @ \cup {k}]
    BY <1>5 DEF CreatesKey
  <2>2. /\ Continue(w, "refind") /\ UNCHANGED <<proc, request>>
        /\ \A q \in Processes : /\ replaced[q] => replaced'[q]
                                /\ q # p /\ proc[q].at # "down" => replaced'[q]
    BY <1>0, <1>5 DEF CreatesKey
  <2>3. HeldIsFound'
    <3>1. ASSUME NEW q \in Processes, NEW m \in Labels, Held(q, m)' # None, ~replaced'[q]
          PROVE  /\ keychain'[m] # {}
                 /\ Held(q, m)' = CHOOSE x \in keychain'[m] : TRUE
      <4>1. Held(q, m)' = Held(q, m) /\ ~replaced[q]
        BY <2>2, <3>1 DEF Held
      <4>2. proc[q].at # "down"
        BY <3>1, <4>1 DEF Held, HoldInv, StageHolds, Keyed
      <4>3. q = p
        BY <2>2, <3>1, <4>2
      <4>4. m # l
        BY <1>0, <3>1, <4>1, <4>3 DEF Held, Labels
      <4>5. keychain'[m] = keychain[m]
        BY <2>1, <4>4 DEF TypeOK
      <4> QED BY <3>1, <4>1, <4>5 DEF KeyInv, HeldIsFound
    <3> QED BY <3>1 DEF HeldIsFound
  <2>4. SearchInv'
    <3>1. Invalid \notin keychain'["mdoc"]
      BY <1>0, <2>1, SignerAssumption DEF KeyInv, SearchInv, TypeOK, Labels
    <3> QED BY <1>1, <2>2, <3>1 DEF KeyInv, SearchInv
  <2>5. RequestInv'
    BY <2>2 DEF KeyInv, RequestInv
  <2>6. SameClassical'
    BY <2>2 DEF KeyInv, SameClassical, Starting
  <2> QED BY <2>3, <2>4, <2>5, <2>6 DEF KeyInv
<1>6. CASE FindsCreated(w)
  <2>1. CASE Sound(w) /\ Return(w, Match(w))
    BY <1>0, <1>6, <2>1, StartTakesKey DEF FindsCreated, store, history
  <2>2. CASE ~Sound(w) /\ Raise(w)
    BY <1>0, <1>6, <2>2, StopKeys DEF FindsCreated, Raise, store, history
  <2> QED BY <1>6, <2>1, <2>2 DEF FindsCreated
<1> QED BY <1>2, <1>3, <1>4, <1>5, <1>6 DEF FindOrCreate

\* The search for the key of a certificate finds the one that signed, unless
\* it was replaced (main.rs 4017-4026).
LEMMA RequestSearchKeys ==
  ASSUME TypeOK, HoldInv, KeyInv, NEW p \in Processes, FindOrCreate(<<p, "request">>)
  PROVE  KeyInv'
<1> DEFINE w == <<p, "request">>
<1>0. /\ w \in Callers /\ w[1] = p /\ w[2] = "request" /\ seek[w].label = "mdoc"
      /\ proc[p].at = "serving" /\ proc[p].mdoc # None
      /\ request[p] # None /\ request[p].kind = "mdoc" /\ request[p] \in Request
      /\ request[p].signed = proc[p].mdoc
  <2>1. w \in Callers /\ w[1] = p /\ w[2] = "request"
    BY DEF Callers
  <2>2. seek[w].at # "idle"
    BY SearchSteps
  <2>3. /\ request[p] # None /\ request[p].kind = "mdoc" /\ seek[w].label = "mdoc"
        /\ proc[p].at = "serving"
    BY <2>2 DEF HoldInv, SearchHolds
  <2>4. proc[p].mdoc # None
    BY <2>3 DEF HoldInv, StageHolds, Keyed, Stage
  <2>5. request[p] \in Request
    BY <2>3 DEF TypeOK
  <2>6. request[p].signed = proc[p].mdoc
    BY <2>3 DEF KeyInv, RequestInv
  <2> QED BY <2>1, <2>3, <2>4, <2>5, <2>6
<1>1. ~replaced[p] => Sound(w) /\ Stored(w) # {} /\ Match(w) = proc[p].mdoc
  BY <1>0, SearchFinds DEF Held
<1>2. seek[w].at # "delete" /\ (seek[w].at \in {"create", "refind"} => replaced[p])
  BY DEF KeyInv, SearchInv
<1>3. ASSUME NEW x, request' = [request EXCEPT ![p] = x],
             x = None \/ /\ x.kind = "mdoc" /\ x.signed = proc[p].mdoc
                         /\ x.cert = x.signed \/ replaced[p],
             seek' = [seek EXCEPT ![w] = Idle], UNCHANGED <<proc, keychain, replaced>>
      PROVE  KeyInv'
  <2>1. RequestInv'
    BY <1>3 DEF KeyInv, RequestInv, TypeOK
  <2>2. /\ \A q \in Processes : seek'[<<q, "start">>] = seek[<<q, "start">>]
        /\ \A q \in Processes \ {p} : seek'[<<q, "request">>] = seek[<<q, "request">>]
        /\ seek'[w].at = "idle"
    BY <1>3 DEF TypeOK, Callers, Idle
  <2>3. SearchInv'
    BY <1>3, <2>2 DEF KeyInv, SearchInv
  <2> QED BY <1>3, <2>1, <2>3 DEF KeyInv, HeldIsFound, Held, SameClassical, Starting
<1>4. ASSUME NEW at \in {"create", "refind"}, Continue(w, at), replaced'[p],
             \A q \in Processes : replaced[q] => replaced'[q],
             Invalid \notin keychain'["mdoc"]
      PROVE  SearchInv'
  <2>1. /\ \A q \in Processes : seek'[<<q, "start">>] = seek[<<q, "start">>]
        /\ \A q \in Processes \ {p} : seek'[<<q, "request">>] = seek[<<q, "request">>]
        /\ seek'[w].at = at
    BY <1>4 DEF Continue, TypeOK, Callers, Search
  <2>2. UNCHANGED proc
    BY <1>2, <1>4, <2>1
    DEF FindOrCreate, FindsKey, FindsNone, DeletesStale, CreatesKey, FindsCreated, Return, Raise
  <2> QED BY <1>4, <2>1, <2>2 DEF KeyInv, SearchInv
<1>5. CASE FindsKey(w) \/ FindsCreated(w)
  <2>1. CASE Return(w, Match(w)) /\ Sound(w)
    <3> DEFINE x == [request[p] EXCEPT !.cert = Match(w)]
    <3>1. /\ request' = [request EXCEPT ![p] = x]
          /\ seek' = [seek EXCEPT ![w] = Idle] /\ UNCHANGED <<proc, keychain, replaced>>
      BY <1>0, <1>5, <2>1 DEF FindsKey, FindsCreated, Return, store, history
    <3>2. x.kind = "mdoc" /\ x.signed = proc[p].mdoc /\ x.cert = Match(w)
      BY <1>0 DEF Request
    <3> HIDE DEF x
    <3> QED BY <1>1, <1>3, <3>1, <3>2
  <2>2. CASE FindsKey(w) /\ ~Sound(w)
    <3>1. Match(w) = Invalid /\ Invalid \in keychain["mdoc"]
      BY <1>0, <2>2, MatchType DEF FindsKey, Sound, Stored
    <3> QED BY <3>1 DEF KeyInv, SearchInv
  <2>3. CASE FindsCreated(w) /\ ~Sound(w)
    BY <1>0, <1>3, <2>3 DEF FindsCreated, Raise, store, history
  <2> QED BY <1>5, <2>1, <2>2, <2>3 DEF FindsKey, FindsCreated
<1>6. CASE FindsNone(w)
  <2>1. /\ UNCHANGED <<keychain, replaced, proc, request>> /\ Continue(w, "create")
        /\ replaced[p]
    BY <1>1, <1>6 DEF FindsNone, store, history
  <2>2. SearchInv'
    BY <1>4, <2>1 DEF KeyInv, SearchInv
  <2> QED BY <2>1, <2>2 DEF KeyInv, HeldIsFound, Held, RequestInv, SameClassical, Starting
<1>7. CASE CreatesKey(w)
  <2>1. PICK k \in Keys : keychain' = [keychain EXCEPT !["mdoc"] = @ \cup {k}]
    BY <1>0, <1>7 DEF CreatesKey
  <2>2. /\ Continue(w, "refind") /\ UNCHANGED <<proc, request>> /\ replaced[p]
        /\ \A q \in Processes : /\ replaced[q] => replaced'[q]
                                /\ q # p /\ proc[q].at # "down" => replaced'[q]
    BY <1>0, <1>2, <1>7 DEF CreatesKey, Looking
  <2>3. HeldIsFound'
    <3>1. \A q \in Processes, m \in Labels : Held(q, m) # None => replaced'[q]
      BY <2>2 DEF Held, HoldInv, StageHolds, Keyed
    <3>2. \A q \in Processes, m \in Labels : Held(q, m)' = Held(q, m)
      BY <2>2 DEF Held
    <3> QED BY <3>1, <3>2 DEF HeldIsFound
  <2>4. Invalid \notin keychain'["mdoc"]
    BY <2>1, SignerAssumption DEF KeyInv, SearchInv, TypeOK, Labels
  <2>5. SearchInv'
    BY <1>4, <2>2, <2>4
  <2> QED BY <2>2, <2>3, <2>5 DEF KeyInv, RequestInv, SameClassical, Starting
<1>8. ~DeletesStale(w)
  BY <1>2 DEF DeletesStale, Looking
<1> QED BY <1>5, <1>6, <1>7, <1>8 DEF FindOrCreate

\* Whatever is deleted, made or found, a process that still holds a key nobody
\* replaced finds the same one (signer.rs 47-140, main.rs 537-560 and 4017-4026).
THEOREM StepKeys == TypeOK /\ HoldInv /\ KeyInv /\ [Next]_vars => KeyInv'
<1> SUFFICES ASSUME TypeOK, HoldInv, KeyInv, [Next]_vars PROVE KeyInv'
  OBVIOUS
<1> USE DEF store, history
<1>1. ASSUME UNCHANGED <<keychain, proc, seek, request, replaced>>
      PROVE  KeyInv'
  BY <1>1 DEF KeyInv, HeldIsFound, Held, SearchInv, RequestInv, SameClassical, Starting
<1>2. ASSUME NEW p \in Processes, NEW x, request' = [request EXCEPT ![p] = x],
             x = None \/ IF x.kind = "envelope" THEN x.signed = proc[p].classical
                         ELSE x.signed = proc[p].mdoc /\ x.cert = None,
             \A q \in Processes : /\ seek'[<<q, "start">>] = seek[<<q, "start">>]
                                  /\ seek'[<<q, "request">>] = seek[<<q, "request">>]
                                     \/ seek'[<<q, "request">>].at \in {"idle", "find"},
             UNCHANGED <<keychain, proc, replaced>>
      PROVE  KeyInv'
  <2>1. RequestInv'
    BY <1>2 DEF KeyInv, RequestInv, TypeOK
  <2>2. SearchInv'
    BY <1>2 DEF KeyInv, SearchInv
  <2> QED BY <1>2, <2>1, <2>2 DEF KeyInv, HeldIsFound, Held, SameClassical, Starting
<1>3. ASSUME NEW p \in Processes, Begin(p) PROVE KeyInv'
  <2>1. /\ \A q \in Processes \ {p} : proc'[q] = proc[q] /\ replaced'[q] = replaced[q]
        /\ proc'[p].mdoc = None /\ proc'[p].classical = None /\ proc'[p].at = "finding"
        /\ request[p] = None /\ seek[<<p, "request">>].at = "idle"
        /\ UNCHANGED <<keychain, request>>
    BY <1>3 DEF Begin, HoldInv, StageHolds, SearchHolds, Keyed, TypeOK, Process
  <2>2. /\ seek'[<<p, "start">>].at = "find"
        /\ \A q \in Processes \ {p} : seek'[<<q, "start">>] = seek[<<q, "start">>]
        /\ \A q \in Processes : seek'[<<q, "request">>] = seek[<<q, "request">>]
    BY <1>3 DEF Begin, TypeOK, Callers
  <2>3. HeldIsFound'
    BY <2>1 DEF KeyInv, HeldIsFound, Held
  <2>4. SearchInv'
    BY <2>1, <2>2 DEF KeyInv, SearchInv
  <2>5. RequestInv'
    BY <2>1 DEF KeyInv, RequestInv
  <2>6. SameClassical'
    BY <2>1 DEF KeyInv, SameClassical, Starting
  <2> QED BY <2>3, <2>4, <2>5, <2>6 DEF KeyInv
<1>4. ASSUME NEW p \in Processes, StartStep(p) PROVE KeyInv'
  BY <1>4, StartSearchKeys, FileStepKeepsKeys DEF StartStep, FileStep
<1>5. ASSUME NEW p \in Processes, RequestStep(p) PROVE KeyInv'
  <2>1. CASE EnvelopeSigned(p)
    BY <1>2, <2>1 DEF EnvelopeSigned
  <2>2. CASE EnvelopeEmitted(p) \/ MdocEmitted(p) \/ IdentityChanged(p)
    BY <1>2, <2>2 DEF EnvelopeEmitted, MdocEmitted, IdentityChanged
  <2>3. CASE MdocSigned(p)
    <3>1. \A q \in Processes : /\ seek'[<<q, "start">>] = seek[<<q, "start">>]
                               /\ seek'[<<q, "request">>] = seek[<<q, "request">>]
                                  \/ seek'[<<q, "request">>].at \in {"idle", "find"}
      BY <2>3 DEF MdocSigned, TypeOK, Callers
    <3> QED BY <1>2, <2>3, <3>1 DEF MdocSigned
  <2> QED BY <1>5, <2>1, <2>2, <2>3, RequestSearchKeys DEF RequestStep
<1>6. ASSUME NEW p \in Processes, Stops(p) PROVE KeyInv'
  BY <1>6, StopKeys DEF Stops
<1>7. ASSUME NEW p \in Processes, KeychainRefuses(p) PROVE KeyInv'
  <2>1. \A q \in Processes : /\ seek'[<<q, "start">>] = seek[<<q, "start">>]
                             /\ seek'[<<q, "request">>] = seek[<<q, "request">>]
                                \/ seek'[<<q, "request">>].at \in {"idle", "find"}
    BY <1>7 DEF KeychainRefuses, TypeOK, Callers, Idle
  <2> QED BY <1>2, <1>7, <2>1 DEF KeychainRefuses
<1>8. ASSUME NEW l \in Labels, KeysDeleted(l) PROVE KeyInv'
  <2>1. /\ \A q \in Processes : /\ replaced[q] => replaced'[q]
                                /\ proc[q].at # "down" => replaced'[q]
        /\ UNCHANGED <<proc, seek, request>> /\ Invalid \notin keychain'["mdoc"]
    BY <1>8 DEF KeysDeleted, KeyInv, SearchInv, TypeOK, Labels
  <2>2. HeldIsFound'
    <3>1. \A q \in Processes, m \in Labels : Held(q, m) # None => replaced'[q]
      BY <2>1 DEF Held, HoldInv, StageHolds, Keyed
    <3>2. \A q \in Processes, m \in Labels : Held(q, m)' = Held(q, m)
      BY <2>1 DEF Held
    <3> QED BY <3>1, <3>2 DEF HeldIsFound
  <2> QED BY <2>1, <2>2 DEF KeyInv, SearchInv, RequestInv, SameClassical, Starting
<1>9. CASE WrappingKeyDeleted \/ UNCHANGED vars
  BY <1>1, <1>9 DEF WrappingKeyDeleted, vars
<1> QED
  BY <1>3, <1>4, <1>5, <1>6, <1>7, <1>8, <1>9
  DEF Next, Troubles, StartByHand, SupervisorStarts, Processes

-----------------------------------------------------------------------------
(* The key file.                                                           *)

\* What the other processes need of a file step: none of them starts.
OthersStay(p) ==
    \A q \in Processes \ {p} : proc'[q] = proc[q] /\ proc[q].at \in {"down", "serving"}

LEMMA FileStepOthers ==
  ASSUME TypeOK, HoldInv, NEW p \in Processes, FileStep(p)
  PROVE  OthersStay(p)
  BY FileStepFrame DEF OthersStay, Starting

\* A start that ends leaves the file as it is.
LEMMA StopKeepsFile ==
  ASSUME TypeOK, FileInv, NEW p \in Processes, Ends(p), UNCHANGED <<store, history>>,
         drawn \subseteq drawn'
  PROVE  FileInv'
<1>1. /\ \A q \in Processes \ {p} : proc'[q] = proc[q]
      /\ proc'[p].at = "down"
      /\ UNCHANGED <<wrapping, record, tmp, persisted, wrapping_lost, replaced>>
  BY DEF Ends, Down, TypeOK, store, history
<1>2. WrapInv'
  BY <1>1 DEF FileInv, WrapInv, RecordOpens, Writing
<1>3. RecordInv'
  BY <1>1 DEF FileInv, RecordInv, Writing
<1>4. ServeInv'
  BY <1>1 DEF FileInv, ServeInv, ServesRecordedIdentity, Writing
<1> QED BY <1>2, <1>3, <1>4 DEF FileInv

LEMMA QuietKeepsFile ==
  ASSUME TypeOK, FileInv, FileQuiet
  PROVE  FileInv'
<1>1. WrapInv'
  BY DEF FileInv, FileQuiet, WrapInv, RecordOpens, Writing
<1>2. RecordInv'
  BY DEF FileInv, FileQuiet, RecordInv, Writing
<1>3. ServeInv'
  BY DEF FileInv, FileQuiet, ServeInv, ServesRecordedIdentity, Writing
<1> QED BY <1>1, <1>2, <1>3 DEF FileInv

\* The record opens, names the last identity recorded, and is not replaced
\* under a process whose keys are in place (hybrid_signer.rs 53-106, 185-262).
THEOREM StepFile ==
    TypeOK /\ HoldInv /\ TmpInv /\ KeyInv /\ FileInv /\ [Next]_vars => FileInv'
<1> SUFFICES ASSUME TypeOK, HoldInv, TmpInv, KeyInv, FileInv, [Next]_vars PROVE FileInv'
  OBVIOUS
<1>1. CASE FileQuiet
  BY <1>1, QuietKeepsFile
<1>2. CASE WrappingKeyDeleted
  <2>1. UNCHANGED <<record, tmp, proc, drawn, persisted, replaced>> /\ wrapping_lost'
    BY <1>2 DEF WrappingKeyDeleted
  <2>2. WrapInv'
    BY <2>1 DEF FileInv, WrapInv, RecordOpens
  <2>3. RecordInv'
    BY <2>1 DEF FileInv, RecordInv
  <2>4. ServeInv'
    BY <2>1 DEF FileInv, ServeInv, ServesRecordedIdentity
  <2> QED BY <2>2, <2>3, <2>4 DEF FileInv
<1>3. ASSUME NEW p \in Processes, WrappingMissing(p) \/ RecordKept(p) \/ Binds(p), Ends(p)
      PROVE  FileInv'
  <2>1. UNCHANGED <<store, history>> /\ drawn \subseteq drawn'
    BY <1>3 DEF WrappingMissing, RecordKept, Binds, Draw
  <2> QED BY <1>3, <2>1, StopKeepsFile
\* A step of p to another stage, from what it makes of the file.
<1>4. ASSUME NEW p \in Processes, FileStep(p), drawn \subseteq drawn',
             persisted \subseteq persisted',
             proc'[p].at = "setting" => record' = None,
             proc'[p].at \in {"loading"} \cup Writing /\ ~wrapping_lost =>
                proc'[p].wrap = wrapping',
             RecordOpens',
             record' # None => record'.id \in persisted' /\ record'.id.pq \in drawn',
             proc'[p].at \in Writing =>
                /\ proc'[p].id.pq \in drawn'
                /\ record' # None => Succeeds(proc'[p].id, record'.id)
                /\ \A q \in Processes \ {p} : proc[q].at = "serving" => replaced[q],
             proc'[p].at \in {"binding", "serving"} =>
                proc'[p].id \in persisted' /\ record' # None /\ record'.id = proc'[p].id,
             record' = record
                \/ \A q \in Processes \ {p} : proc[q].at = "serving" => replaced[q]
      PROVE  FileInv'
  <2>1. OthersStay(p) /\ UNCHANGED <<replaced, wrapping_lost>>
    BY <1>4, FileStepOthers, FileStepFrame
  <2>2. WrapInv'
    BY <1>4, <2>1 DEF OthersStay, WrapInv, Writing
  <2>3. RecordInv'
    BY <1>4, <2>1 DEF OthersStay, FileInv, RecordInv, Writing
  <2>4. ServeInv'
    BY <1>4, <2>1 DEF OthersStay, FileInv, ServeInv, ServesRecordedIdentity, Writing
  <2> QED BY <2>2, <2>3, <2>4 DEF FileInv
<1> USE DEF store, history
<1>5. ASSUME NEW p \in Processes, WrappingLoaded(p) PROVE FileInv'
  <2>1. proc'[p].at = "loading" /\ proc'[p].wrap = wrapping
    BY <1>5 DEF WrappingLoaded, TypeOK, Process
  <2> QED BY <1>4, <1>5, <2>1 DEF WrappingLoaded, FileStep, FileInv, WrapInv, RecordInv,
                                  RecordOpens, Writing
<1>6. ASSUME NEW p \in Processes, WrappingMissing(p), ~Ends(p) PROVE FileInv'
  <2>1. proc'[p].at = "setting" /\ record = None /\ drawn \subseteq drawn'
    BY <1>6 DEF WrappingMissing, NewWrappingKeyAllowed, Draw, TypeOK, Process
  <2> QED BY <1>4, <1>6, <2>1 DEF WrappingMissing, FileStep, FileInv, WrapInv, RecordInv,
                                  RecordOpens, Writing
<1>7. ASSUME NEW p \in Processes, WrappingSet(p) PROVE FileInv'
  <2>1. proc'[p].at = "loading" /\ proc'[p].wrap = proc[p].wrap /\ wrapping' = proc[p].wrap
        /\ record = None
    BY <1>7 DEF WrappingSet, TypeOK, Process, FileInv, WrapInv
  <2> QED BY <1>4, <1>7, <2>1 DEF WrappingSet, FileStep, FileInv, WrapInv, RecordInv,
                                  RecordOpens, Writing
<1>8. ASSUME NEW p \in Processes, RecordKept(p), ~Ends(p) PROVE FileInv'
  <2>1. /\ Opens(p) /\ record # None /\ record \in Record
        /\ record.id.classical = proc[p].classical
        /\ UNCHANGED <<wrapping, record, tmp, persisted, wrapping_lost, drawn>>
    BY <1>8 DEF RecordKept, Opens, RecordIsOf, TypeOK
  <2>2. /\ proc'[p].at = "binding"
        /\ proc'[p].id = [generation |-> record.id.generation,
                          classical |-> proc[p].classical, pq |-> record.id.pq]
    BY <1>8, <2>1 DEF RecordKept, TypeOK, Process
  <2>3. proc'[p].id = record.id
    BY <2>1, <2>2 DEF Record, Identity
  <2> QED BY <1>4, <1>8, <2>1, <2>2, <2>3 DEF FileStep, FileInv, WrapInv, RecordInv,
                                              RecordOpens, Writing
<1>9. ASSUME NEW p \in Processes, KeyGenerated(p) PROVE FileInv'
  <2>1. PICK pq \in PqKeys :
          /\ Draw(PqKeys, pq)
          /\ proc' = [proc EXCEPT
                ![p].id = [generation |-> IF record = None THEN 1
                                          ELSE NextGeneration(record.id.generation),
                           classical |-> proc[p].classical, pq |-> pq],
                ![p].at = "opening"]
    BY <1>9 DEF KeyGenerated
  <2>2. /\ proc'[p].at = "opening" /\ proc'[p].wrap = proc[p].wrap
        /\ proc'[p].id.generation = IF record = None THEN 1
                                    ELSE NextGeneration(record.id.generation)
        /\ proc'[p].id.classical = proc[p].classical /\ proc'[p].id.pq = pq
    BY <2>1 DEF TypeOK, Process
  <2>3. /\ proc[p].at = "loading" /\ Starting(p) /\ proc[p].classical # None
        /\ record # None => record.id.classical # proc[p].classical
        /\ UNCHANGED <<wrapping, record, tmp, persisted, wrapping_lost>>
    BY <1>9 DEF KeyGenerated, RecordIsOf, Starting, HoldInv, StageHolds, Keyed, Stage
  <2>4. pq \notin drawn /\ drawn' = drawn \cup {pq}
    BY <2>1 DEF Draw
  <2>5. record # None => Succeeds(proc'[p].id, record.id)
    <3>1. ASSUME record # None PROVE Succeeds(proc'[p].id, record.id)
      <4>1. record.id.generation # U64Max =>
               proc'[p].id.generation = record.id.generation + 1
        BY <2>2, <3>1 DEF NextGeneration
      <4>2. record.id.generation < U64Max => record.id.generation # U64Max
        BY <3>1, SignerAssumption DEF TypeOK, Record, Identity
      <4>3. proc'[p].id.classical # record.id.classical
        BY <2>2, <2>3, <3>1
      <4>4. proc'[p].id.pq # record.id.pq
        BY <2>2, <2>4, <3>1 DEF FileInv, RecordInv
      <4> QED BY <4>1, <4>2, <4>3, <4>4 DEF Succeeds
    <3> QED BY <3>1
  <2>6. ASSUME NEW q \in Processes \ {p}, proc[q].at = "serving" PROVE replaced[q]
    <3>1. SUFFICES ASSUME ~replaced[q] PROVE FALSE
      OBVIOUS
    <3>2. record # None /\ record.id = proc[q].id
      BY <2>6, <3>1 DEF FileInv, ServeInv, ServesRecordedIdentity
    <3>3. proc[q].id.classical = proc[q].classical
      BY <2>6 DEF HoldInv, StageHolds, Identified
    <3>4. proc[q].classical = proc[p].classical
      BY <2>3, <2>6, <3>1 DEF KeyInv, SameClassical
    <3> QED BY <2>3, <3>2, <3>3, <3>4
  <2>7. ~wrapping_lost => proc'[p].wrap = wrapping'
    BY <2>2, <2>3 DEF FileInv, WrapInv
  <2>8. proc'[p].id.pq \in drawn' /\ drawn \subseteq drawn'
    BY <2>2, <2>4
  <2> QED BY <1>4, <1>9, <2>2, <2>3, <2>5, <2>6, <2>7, <2>8
          DEF FileStep, FileInv, WrapInv, RecordInv, RecordOpens, Writing
<1>10. ASSUME NEW p \in Processes, TemporaryOpened(p) \/ TemporaryFilled(p) PROVE FileInv'
  <2>1. /\ proc[p].at \in Writing /\ proc'[p].at \in Writing
        /\ proc'[p].id = proc[p].id /\ proc'[p].wrap = proc[p].wrap
        /\ UNCHANGED <<wrapping, record, persisted, wrapping_lost, drawn>>
    BY <1>10 DEF TemporaryOpened, OpenTemporary, TemporaryFilled, TypeOK, Process, Writing
  <2> QED BY <1>4, <1>10, <2>1 DEF FileStep, FileInv, WrapInv, RecordInv, RecordOpens,
                                   ServeInv, Writing
<1>11. ASSUME NEW p \in Processes, TemporaryRenamed(p) PROVE FileInv'
  <2>1. /\ proc[p].at = "renaming" /\ proc'[p].at = "binding" /\ proc'[p].id = proc[p].id
        /\ record' = tmp /\ persisted' = persisted \cup {tmp.id}
        /\ UNCHANGED <<wrapping, wrapping_lost, drawn>>
    BY <1>11 DEF TemporaryRenamed, TypeOK, Process
  <2>2. record'.id = proc[p].id /\ record'.wrap = proc[p].wrap
    BY <2>1 DEF TmpInv
  <2>3. proc[p].id \in Identity /\ proc[p].wrap \in WrappingKeys
    BY <2>1 DEF TypeOK, HoldInv, StageHolds, Keyed, Wrapped, Identified, Writing, Stage, Process
  <2>4. record' \in Record
    BY <2>1, <2>3 DEF TmpInv, Record
  <2>5. record' # None
    BY <2>4, NoRecordAssumption
  <2>6. RecordOpens'
    BY <2>1, <2>2 DEF FileInv, WrapInv, RecordOpens, Writing
  <2>7. /\ proc[p].id.pq \in drawn
        /\ \A q \in Processes \ {p} : proc[q].at = "serving" => replaced[q]
    BY <2>1 DEF FileInv, RecordInv, ServeInv, Writing
  <2> QED BY <1>4, <1>11, <2>1, <2>2, <2>5, <2>6, <2>7 DEF FileStep, Writing
<1>12. ASSUME NEW p \in Processes, Binds(p), ~Ends(p) PROVE FileInv'
  <2>1. /\ proc[p].at = "binding" /\ proc'[p].at = "serving" /\ proc'[p].id = proc[p].id
        /\ UNCHANGED <<wrapping, record, persisted, wrapping_lost, drawn>>
    BY <1>12 DEF Binds, TypeOK, Process
  <2> QED BY <1>4, <1>12, <2>1 DEF FileStep, FileInv, WrapInv, RecordInv, RecordOpens, Writing
<1>13. ASSUME NEW p \in Processes, FileStep(p) PROVE FileInv'
  BY <1>3, <1>5, <1>6, <1>7, <1>8, <1>9, <1>10, <1>11, <1>12, <1>13 DEF FileStep
<1> QED BY <1>1, <1>2, <1>13, FileSteps

-----------------------------------------------------------------------------
(* The properties.                                                         *)

SignerInv == TypeOK /\ HoldInv /\ TmpInv /\ KeyInv /\ FileInv

\* Nothing is held, recorded or searched for before the first start.
LEMMA SignerInvInit == Init => SignerInv
<1> SUFFICES ASSUME Init PROVE SignerInv
  OBVIOUS
<1>1. TmpInv /\ FileInv
  BY DEF Init, Down, TmpInv, FileInv, WrapInv, RecordOpens, RecordInv, ServeInv,
         ServesRecordedIdentity, Writing
<1>2. KeyInv
  BY DEF Init, Down, Idle, KeyInv, HeldIsFound, Held, SearchInv, RequestInv, SameClassical,
         Callers
<1> QED BY <1>1, <1>2, SignerInit DEF SignerInv

\* All that is known of the keys and of the file holds whatever is cut short,
\* deleted or started twice (signer.rs, hybrid_signer.rs).
THEOREM SignerInvariant == Spec => []SignerInv
<1>1. SignerInv /\ [Next]_vars => SignerInv'
  BY SignerStep, StepTmp, StepKeys, StepFile DEF SignerInv
<1> QED BY <1>1, SignerInvInit, PTL DEF Spec

\* Keys, file, stages, searches and requests keep their types (hybrid_signer.rs
\* 20-106, signer.rs 29-140).
THEOREM SignerTypeCorrect == Spec => []TypeOK
<1>1. SignerInv => TypeOK
  BY DEF SignerInv
<1> QED BY <1>1, SignerInvariant, PTL

\* The record opens under the wrapping key of the Keychain until somebody
\* deletes that key (load_or_create_wrapping_key 185-226).
THEOREM SignerRecordOpens == Spec => []RecordOpens
<1>1. SignerInv => RecordOpens
  BY DEF SignerInv, FileInv, WrapInv
<1> QED BY <1>1, SignerInvariant, PTL

\* A process serves under the identity of the record while its keys are in
\* place, and always under one that was recorded (find_or_create 53-106).
THEOREM SignerServesRecorded == Spec => []ServesRecordedIdentity
<1>1. SignerInv => ServesRecordedIdentity
  BY DEF SignerInv, FileInv, ServeInv
<1> QED BY <1>1, SignerInvariant, PTL

\* The steps that finish a signing request, and that all others finish none.
LEMMA OutputSteps ==
  ASSUME TypeOK, HoldInv, [Next]_vars
  PROVE  \/ UNCHANGED <<envelopes, mdocs>>
         \/ \E p \in Processes : EnvelopeEmitted(p) \/ MdocEmitted(p)
<1> USE DEF store, history
<1>1. ASSUME NEW p \in Processes, StartStep(p) PROVE UNCHANGED <<envelopes, mdocs>>
  BY <1>1, SearchSteps, FileStepFrame DEF StartStep, FileStep
<1>2. ASSUME NEW p \in Processes, RequestStep(p)
      PROVE  UNCHANGED <<envelopes, mdocs>> \/ EnvelopeEmitted(p) \/ MdocEmitted(p)
  BY <1>2, SearchSteps DEF RequestStep, EnvelopeSigned, MdocSigned, IdentityChanged
<1>3. CASE Troubles \/ SupervisorStarts
  BY <1>3 DEF Troubles, SupervisorStarts, StartByHand, Begin, Stops, KeychainRefuses,
              KeysDeleted, WrappingKeyDeleted
<1>4. CASE UNCHANGED vars
  BY <1>4 DEF vars
<1> QED BY <1>1, <1>2, <1>3, <1>4 DEF Next

\* Both halves come from the identity the record names when the second is
\* made, which is the one in memory (sign_envelope 108-150, sign_pq_raw 152-180).
THEOREM StepOutput == SignerInv /\ OutputInv /\ [Next]_vars => OutputInv'
<1> SUFFICES ASSUME SignerInv, OutputInv, [Next]_vars PROVE OutputInv'
  OBVIOUS
<1> USE DEF SignerInv
<1>0. persisted \subseteq persisted'
  BY FileSteps DEF FileQuiet, WrappingKeyDeleted, FileStep, WrappingLoaded, WrappingMissing,
     WrappingSet, RecordKept, KeyGenerated, TemporaryOpened, TemporaryFilled,
     TemporaryRenamed, Binds, store, history
<1>1. CASE UNCHANGED <<envelopes, mdocs>>
  BY <1>0, <1>1 DEF OutputInv, SignedUnderOneIdentity, CertificateOfSigner
<1>2. ASSUME NEW p \in Processes, EnvelopeEmitted(p) PROVE OutputInv'
  <2> DEFINE e == [id |-> proc[p].id, signed |-> request[p].signed,
                   pq_signed |-> record.id.pq]
  <2>1. /\ envelopes' = envelopes \cup {e} /\ UNCHANGED mdocs
        /\ request[p] # None /\ request[p].kind = "envelope" /\ record.id = proc[p].id
    BY <1>2 DEF EnvelopeEmitted, StoredIsIdentity
  <2>2. proc[p].at = "serving" /\ request[p].signed = proc[p].classical
    BY <2>1 DEF HoldInv, SearchHolds, KeyInv, RequestInv
  <2>3. proc[p].id \in persisted /\ proc[p].id.classical = proc[p].classical
    BY <2>2 DEF HoldInv, StageHolds, Identified, FileInv, RecordInv
  <2>4. e.id = proc[p].id /\ e.signed = request[p].signed /\ e.pq_signed = record.id.pq
    OBVIOUS
  <2> HIDE DEF e
  <2> QED BY <1>0, <2>1, <2>2, <2>3, <2>4
          DEF OutputInv, SignedUnderOneIdentity, CertificateOfSigner
<1>3. ASSUME NEW p \in Processes, MdocEmitted(p) PROVE OutputInv'
  <2> DEFINE m == [signed |-> request[p].signed, cert |-> request[p].cert,
                   pq |-> proc[p].id.pq, pq_signed |-> record.id.pq, excused |-> replaced[p]]
  <2>1. /\ mdocs' = mdocs \cup {m} /\ UNCHANGED envelopes
        /\ request[p] # None /\ request[p].kind = "mdoc" /\ request[p].cert # None
        /\ record.id = proc[p].id
    BY <1>3 DEF MdocEmitted, StoredIsIdentity
  <2>2. request[p].cert = request[p].signed \/ replaced[p]
    BY <2>1 DEF KeyInv, RequestInv
  <2>3. m.cert = request[p].cert /\ m.signed = request[p].signed /\ m.excused = replaced[p]
        /\ m.pq = proc[p].id.pq /\ m.pq_signed = record.id.pq
    OBVIOUS
  <2>4. m.cert = m.signed \/ m.excused
    BY <2>2, <2>3
  <2>5. m.pq_signed = m.pq
    BY <2>1, <2>3
  <2> HIDE DEF m
  <2> QED BY <1>0, <2>1, <2>4, <2>5 DEF OutputInv, SignedUnderOneIdentity, CertificateOfSigner
<1> QED BY <1>1, <1>2, <1>3, OutputSteps

LEMMA OutputInvariant == Spec => []OutputInv
<1>1. Init => OutputInv
  BY DEF Init, OutputInv, SignedUnderOneIdentity, CertificateOfSigner
<1> QED BY <1>1, SignerInvariant, StepOutput, PTL DEF Spec

\* Both halves of an envelope, and the ML-DSA half of an mdoc and the key it
\* names, are of one recorded identity (sign_envelope 108-150, sign_pq_raw 152-180).
THEOREM SignerOneIdentity == Spec => []SignedUnderOneIdentity
<1>1. OutputInv => SignedUnderOneIdentity
  BY DEF OutputInv
<1> QED BY <1>1, OutputInvariant, PTL

\* The certificate of an mdoc is of the key that signed it, unless keys were
\* replaced in the life of the process (main.rs 4017-4026).
THEOREM SignerCertificate == Spec => []CertificateOfSigner
<1>1. OutputInv => CertificateOfSigner
  BY DEF OutputInv
<1> QED BY <1>1, OutputInvariant, PTL

\* A record is only ever replaced by its successor, written by the one start
\* there is (find_or_create 64-94, persist_key 228-262).
THEOREM SignerGenerationAdvances == Spec => GenerationAdvances
<1> DEFINE Advance == record # None /\ record' # record =>
              /\ record' # None
              /\ record'.id.classical # record.id.classical
              /\ record'.id.pq # record.id.pq
              /\ record.id.generation < U64Max =>
                    record'.id.generation = record.id.generation + 1
<1>1. ASSUME SignerInv, [Next]_vars PROVE Advance
  <2> USE <1>1 DEF SignerInv
  <2>1. CASE record' = record
    BY <2>1
  <2>2. ASSUME NEW p \in Processes, TemporaryRenamed(p) PROVE Advance
    <3>1. /\ proc[p].at = "renaming" /\ record' = tmp
          /\ tmp = [id |-> proc[p].id, wrap |-> proc[p].wrap]
      BY <2>2 DEF TemporaryRenamed, TmpInv
    <3>2. proc[p].id \in Identity /\ proc[p].wrap \in WrappingKeys
      BY <3>1 DEF TypeOK, HoldInv, StageHolds, Keyed, Wrapped, Identified, Writing, Stage,
                  Process
    <3>3. record' \in Record /\ record'.id = proc[p].id
      BY <3>1, <3>2 DEF Record
    <3>4. record # None => Succeeds(proc[p].id, record.id)
      BY <3>1 DEF FileInv, RecordInv, Writing
    <3> QED BY <3>3, <3>4, NoRecordAssumption DEF Succeeds
  <2> QED
    BY <1>1, <2>1, <2>2, FileSteps
    DEF FileQuiet, WrappingKeyDeleted, FileStep, WrappingLoaded, WrappingMissing, WrappingSet,
        RecordKept, KeyGenerated, TemporaryOpened, OpenTemporary, TemporaryFilled, Binds, store
<1>2. SignerInv /\ [Next]_vars => [Advance]_vars
  BY <1>1
<1> QED BY <1>2, SignerInvariant, PTL DEF Spec, GenerationAdvances
=============================================================================
