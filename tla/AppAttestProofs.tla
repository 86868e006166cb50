--------------------------- MODULE AppAttestProofs ---------------------------
(***************************************************************************)
(* Theorems about AppAttest, for every value of its constants.             *)
(***************************************************************************)
EXTENDS AppAttest, SequenceTheorems, TLAPS

-----------------------------------------------------------------------------
(* Type correctness.                                                       *)

\* The empty tables of a fresh installation are well typed (main.rs 580-598).
THEOREM AttestInitType == Init => TypeOK
<1> SUFFICES ASSUME Init PROVE TypeOK
  OBVIOUS
<1>1. accepted \in Seq(Acceptance)
  BY EmptySeq DEF Init
<1>2. clock \in 0..MaxTime /\ boot \in 0..MaxBoots /\ 0 \in Count
  BY AttestAssumption DEF Init, Count
<1>3. /\ app_attest_instances \in [KeyIds -> Count \cup {None}]
      /\ app_attest_store \in [KeyIds -> Count \cup {None}]
      /\ attested \in [KeyIds -> Challenges \cup {None}]
      /\ counter \in [KeyIds -> Count]
      /\ app_attest_challenges \in [Challenges -> 0..(MaxTime + ChallengeLifetime) \cup {None}]
  BY <1>2 DEF Init, NoInstances
<1> QED BY <1>1, <1>2, <1>3 DEF Init, TypeOK

\* What a write of the file leaves behind has the type of the file.
LEMMA SaveType ==
  ASSUME NEW instances \in [KeyIds -> Count \cup {None}],
         app_attest_store \in [KeyIds -> Count \cup {None}],
         store_failed \in BOOLEAN,
         SaveInstances(instances)
  PROVE  /\ app_attest_store' \in [KeyIds -> Count \cup {None}]
         /\ store_failed' \in BOOLEAN
         /\ store_failed => store_failed'
         /\ Persistent /\ ~store_failed' => app_attest_store' = instances
         /\ app_attest_store' = instances \/ app_attest_store' = app_attest_store
  BY DEF SaveInstances

\* Every handler keeps the tables well typed (main.rs 1814-2010).
THEOREM AttestStepType == TypeOK /\ [Next]_vars => TypeOK'
<1> SUFFICES ASSUME TypeOK, [Next]_vars PROVE TypeOK'
  OBVIOUS
<1> USE AttestAssumption DEF TypeOK, process, device, history
<1>1. ASSUME NEW k \in KeyIds, NEW c \in Challenges, AttestKey(k, c) PROVE TypeOK'
  BY <1>1 DEF AttestKey
<1>2. ASSUME NEW k \in KeyIds, GenerateAssertion(k) PROVE TypeOK'
  BY <1>2 DEF GenerateAssertion, Count
<1>3. ASSUME NEW c \in Challenges, ChallengeIssued(c) PROVE TypeOK'
  BY <1>3 DEF ChallengeIssued
<1>4. ASSUME NEW k \in KeyIds, NEW c \in Challenges, RegisterTakes(k, c) PROVE TypeOK'
  BY <1>4 DEF RegisterTakes, ChallengeRemoved
<1>5. ASSUME NEW k \in KeyIds, NEW c \in Challenges, RegisterRefused(k, c) PROVE TypeOK'
  BY <1>5 DEF RegisterRefused, ChallengeRemoved
<1>6. ASSUME NEW r \in registering, RegisterStores(r) PROVE TypeOK'
  <2>1. app_attest_instances' \in [KeyIds -> Count \cup {None}]
    BY <1>6 DEF RegisterStores, Count
  <2> QED BY <1>6, <2>1, SaveType DEF RegisterStores
<1>7. ASSUME NEW r \in registering, RegistrationDropped(r) PROVE TypeOK'
  BY <1>7 DEF RegistrationDropped
<1>8. ASSUME NEW k \in KeyIds, NEW n \in 1..counter[k], AssertionAccepted(k, n) PROVE TypeOK'
  <2>1. n \in Count
    BY DEF Count
  <2>2. app_attest_instances' \in [KeyIds -> Count \cup {None}]
    BY <1>8, <2>1 DEF AssertionAccepted, Advance
  <2>3. [key |-> k, count |-> n, boot |-> boot] \in Acceptance
    BY <2>1 DEF Acceptance
  <2>4. accepted' \in Seq(Acceptance)
    BY <1>8, <2>3, AppendProperties DEF AssertionAccepted
  <2> QED BY <1>8, <2>2, <2>4, SaveType DEF AssertionAccepted, Advance
<1>9. ASSUME NEW readable \in BOOLEAN, Restart(readable) PROVE TypeOK'
  BY <1>9 DEF Restart, NoInstances
<1>10. CASE Tick
  BY <1>10 DEF Tick
<1>11. CASE UNCHANGED vars
  BY <1>11 DEF vars
<1> QED
  BY <1>1, <1>2, <1>3, <1>4, <1>5, <1>6, <1>7, <1>8, <1>9, <1>10, <1>11 DEF Next

\* Challenges, instances, store and counters keep their types (main.rs
\* 168-184, app_attest.rs 98-126).
THEOREM AttestTypeCorrect == Spec => []TypeOK
  BY AttestInitType, AttestStepType, PTL DEF Spec

-----------------------------------------------------------------------------
(* The life of a key.  Its one challenge is spent when its registration    *)
(* begins, which is why no registration can find an instance, a stored     *)
(* counter or an accepted assertion of the same key.                       *)

Accepted(k) == \E i \in DOMAIN accepted : accepted[i].key = k

Seen(k) ==
    \/ app_attest_instances[k] # None \/ app_attest_store[k] # None
    \/ \E r \in registering : r.key = k
    \/ Accepted(k)

\* The counter in memory has reached the i-th acceptance.
Reached(i) ==
    /\ app_attest_instances[accepted[i].key] # None
    /\ accepted[i].count <= app_attest_instances[accepted[i].key]

SeenIsSpent ==
    \A k \in KeyIds :
        /\ attested[k] # None => attested[k] \in drawn
        /\ Seen(k) => attested[k] # None /\ app_attest_challenges[attested[k]] = None

RegistrationsNew ==
    \A r \in registering :
        /\ r.challenge = attested[r.key] /\ ~Accepted(r.key)
        /\ app_attest_instances[r.key] = None /\ app_attest_store[r.key] = None

\* Within a process every acceptance is reached; as long as the store works,
\* so is every acceptance of a key that is still registered.
AcceptancesReached ==
    \A i \in DOMAIN accepted :
        /\ accepted[i].boot <= boot
        /\ accepted[i].boot = boot => Reached(i)
        /\ ~store_failed => app_attest_instances[accepted[i].key] = None \/ Reached(i)

StoreFollows ==
    Persistent /\ ~store_failed => app_attest_store = app_attest_instances

KeyInv == SeenIsSpent /\ RegistrationsNew

CounterInv == AcceptancesReached /\ StoreFollows /\ CountersIncrease /\ ReplayNeedsStoreFailure

\* What appending does to the indices and the elements of a sequence.
LEMMA Grown ==
  ASSUME NEW S, NEW s \in Seq(S), NEW x \in S
  PROVE  /\ DOMAIN Append(s, x) = DOMAIN s \cup {Len(s) + 1}
         /\ \A i \in DOMAIN s : Append(s, x)[i] = s[i] /\ i \in Nat /\ i < Len(s) + 1
         /\ Append(s, x)[Len(s) + 1] = x
  BY AppendProperties, LenProperties

\* A fresh installation has seen no key.
LEMMA KeyInit == Init => KeyInv /\ CounterInv
  BY DEF Init, KeyInv, CounterInv, SeenIsSpent, RegistrationsNew, AcceptancesReached,
         StoreFollows, CountersIncrease, ReplayNeedsStoreFailure, Seen, Accepted, NoInstances

\* A step that leaves registrations, tables and acceptances of a key alone
\* leaves it as seen as it was.
LEMMA KeyStep == TypeOK /\ KeyInv /\ [Next]_vars => KeyInv'
<1> SUFFICES ASSUME TypeOK, KeyInv, [Next]_vars PROVE KeyInv'
  OBVIOUS
<1> USE AttestAssumption DEF TypeOK, KeyInv, process, device, history
<1>1. ASSUME NEW k \in KeyIds, NEW c \in Challenges, AttestKey(k, c) PROVE KeyInv'
  BY <1>1 DEF AttestKey, SeenIsSpent, RegistrationsNew, Seen, Accepted
<1>2. ASSUME NEW k \in KeyIds, GenerateAssertion(k) PROVE KeyInv'
  BY <1>2 DEF GenerateAssertion, SeenIsSpent, RegistrationsNew, Seen, Accepted
<1>3. ASSUME NEW c \in Challenges, ChallengeIssued(c) PROVE KeyInv'
  BY <1>3 DEF ChallengeIssued, SeenIsSpent, RegistrationsNew, Seen, Accepted
<1>4. ASSUME NEW k \in KeyIds, NEW c \in Challenges, RegisterTakes(k, c) PROVE KeyInv'
  <2>1. ~Seen(k)
    BY <1>4 DEF RegisterTakes, Fresh, SeenIsSpent
  <2>2. SeenIsSpent'
    BY <1>4 DEF RegisterTakes, ChallengeRemoved, SeenIsSpent, Seen, Accepted
  <2>3. RegistrationsNew'
    BY <1>4, <2>1 DEF RegisterTakes, RegistrationsNew, Seen, Accepted
  <2> QED BY <2>2, <2>3
<1>5. ASSUME NEW k \in KeyIds, NEW c \in Challenges, RegisterRefused(k, c) PROVE KeyInv'
  BY <1>5 DEF RegisterRefused, ChallengeRemoved, SeenIsSpent, RegistrationsNew, Seen, Accepted
<1>6. ASSUME NEW r \in registering, RegisterStores(r) PROVE KeyInv'
  <2>1. app_attest_instances' \in [KeyIds -> Count \cup {None}]
    BY <1>6 DEF RegisterStores, Count
  <2>2. app_attest_store' = app_attest_instances' \/ app_attest_store' = app_attest_store
    BY <1>6, <2>1, SaveType DEF RegisterStores
  <2>3. \A k \in KeyIds : Seen(k)' => Seen(k)
    BY <1>6, <2>2 DEF RegisterStores, Seen, Accepted
  <2>4. SeenIsSpent'
    BY <1>6, <2>3 DEF RegisterStores, SeenIsSpent
  <2>5. ASSUME NEW q \in registering, q # r PROVE q.key # r.key
    BY <2>5 DEF RegistrationsNew
  <2>6. RegistrationsNew'
    BY <1>6, <2>2, <2>5 DEF RegisterStores, RegistrationsNew, Accepted
  <2> QED BY <2>4, <2>6
<1>7. ASSUME NEW r \in registering, RegistrationDropped(r) PROVE KeyInv'
  BY <1>7 DEF RegistrationDropped, SeenIsSpent, RegistrationsNew, Seen, Accepted
<1>8. ASSUME NEW k \in KeyIds, NEW n \in 1..counter[k], AssertionAccepted(k, n) PROVE KeyInv'
  <2> DEFINE x == [key |-> k, count |-> n, boot |-> boot]
  <2>1. app_attest_instances' \in [KeyIds -> Count \cup {None}] /\ x \in Acceptance
    BY <1>8 DEF AssertionAccepted, Advance, Count, Acceptance
  <2>2. app_attest_store' = app_attest_instances' \/ app_attest_store' = app_attest_store
    BY <1>8, <2>1, SaveType DEF AssertionAccepted, Advance
  <2>3. \A q \in KeyIds : Accepted(q)' <=> Accepted(q) \/ q = k
    BY <1>8, <2>1, Grown DEF AssertionAccepted, Accepted
  <2>4. \A q \in KeyIds : Seen(q)' => Seen(q)
    BY <1>8, <2>2, <2>3 DEF AssertionAccepted, Advance, Seen
  <2>5. SeenIsSpent'
    BY <1>8, <2>4 DEF AssertionAccepted, SeenIsSpent
  <2>6. RegistrationsNew'
    BY <1>8, <2>2, <2>3 DEF AssertionAccepted, Advance, RegistrationsNew
  <2> QED BY <2>5, <2>6
<1>9. ASSUME NEW readable \in BOOLEAN, Restart(readable) PROVE KeyInv'
  BY <1>9 DEF Restart, NoInstances, SeenIsSpent, RegistrationsNew, Seen, Accepted
<1>10. CASE Tick
  BY <1>10 DEF Tick, SeenIsSpent, RegistrationsNew, Seen, Accepted
<1>11. CASE UNCHANGED vars
  BY <1>11 DEF vars, SeenIsSpent, RegistrationsNew, Seen, Accepted
<1> QED
  BY <1>1, <1>2, <1>3, <1>4, <1>5, <1>6, <1>7, <1>8, <1>9, <1>10, <1>11 DEF Next

-----------------------------------------------------------------------------
(* The counters.                                                           *)

\* A step that touches neither tables nor acceptances keeps the invariant.
LEMMA CounterUntouched ==
  CounterInv /\ UNCHANGED <<boot, app_attest_instances, app_attest_store, history>>
      => CounterInv'
  BY DEF CounterInv, AcceptancesReached, StoreFollows, CountersIncrease,
         ReplayNeedsStoreFailure, Reached, history

\* A registration stores a counter of zero where no assertion was accepted.
LEMMA CounterAtRegistration ==
  ASSUME TypeOK, KeyInv, CounterInv, NEW r \in registering, RegisterStores(r)
  PROVE  CounterInv'
<1> USE DEF CounterInv, TypeOK, process, device
<1>1. app_attest_instances' \in [KeyIds -> Count \cup {None}]
  BY AttestAssumption DEF RegisterStores, Count
<1>2. /\ store_failed => store_failed'
      /\ Persistent /\ ~store_failed' => app_attest_store' = app_attest_instances'
  BY <1>1, SaveType DEF RegisterStores
<1>3. \A i \in DOMAIN accepted : accepted[i].key # r.key
  BY DEF KeyInv, RegistrationsNew, Accepted
<1>4. \A i \in DOMAIN accepted :
         app_attest_instances'[accepted[i].key] = app_attest_instances[accepted[i].key]
  <2>1. \A i \in DOMAIN accepted : accepted[i] \in Acceptance
    BY ElementOfSeq
  <2> QED BY <1>3, <2>1 DEF RegisterStores, Acceptance
<1>5. AcceptancesReached'
  BY <1>2, <1>4 DEF RegisterStores, AcceptancesReached, Reached
<1>6. CountersIncrease' /\ ReplayNeedsStoreFailure'
  BY <1>2 DEF RegisterStores, CountersIncrease, ReplayNeedsStoreFailure
<1> QED BY <1>2, <1>5, <1>6 DEF StoreFollows

\* An assertion is accepted above every one its key had accepted before, in
\* this process always, and in earlier ones while the store works.
LEMMA CounterAtAssertion ==
  ASSUME TypeOK, CounterInv, NEW k \in KeyIds, NEW n \in 1..counter[k],
         AssertionAccepted(k, n)
  PROVE  CounterInv'
<1> USE DEF CounterInv, TypeOK, process, device
<1> DEFINE x == [key |-> k, count |-> n, boot |-> boot]
<1>0. PICK last \in Nat : last = Len(accepted) + 1
  BY LenProperties
<1>1. /\ app_attest_instances' \in [KeyIds -> Count \cup {None}]
      /\ x \in Acceptance /\ n \in Count
  BY AttestAssumption DEF AssertionAccepted, Advance, Count, Acceptance
<1>2. /\ store_failed => store_failed'
      /\ Persistent /\ ~store_failed' => app_attest_store' = app_attest_instances'
  BY <1>1, SaveType DEF AssertionAccepted, Advance
<1>3. /\ DOMAIN accepted' = DOMAIN accepted \cup {last}
      /\ \A i \in DOMAIN accepted : accepted'[i] = accepted[i] /\ i \in Nat /\ i < last
      /\ accepted'[last] = x
  BY <1>0, <1>1, Grown DEF AssertionAccepted
<1>4. /\ app_attest_instances[k] \in Count /\ app_attest_instances[k] < n
      /\ app_attest_instances'[k] = n
      /\ \A q \in KeyIds : q # k => app_attest_instances'[q] = app_attest_instances[q]
  BY DEF AssertionAccepted, CounterAdvances, Advance
<1>5. \A i \in DOMAIN accepted : accepted[i] \in Acceptance
  BY ElementOfSeq
<1>6. n # None
  BY <1>1, AttestAssumption DEF Count
<1>7. ASSUME NEW i \in DOMAIN accepted, Reached(i)
      PROVE  /\ Reached(i)'
             /\ accepted[i].key = k => accepted[i].count < n
  BY <1>1, <1>3, <1>4, <1>5, <1>6, <1>7, SMTT(30) DEF Reached, Acceptance, Count
<1>8. Reached(last)'
  BY <1>1, <1>3, <1>4, <1>6 DEF Reached, Count
<1>9. AcceptancesReached'
  <2>1. ASSUME NEW i \in DOMAIN accepted
        PROVE  /\ (accepted[i].boot <= boot)'
               /\ (accepted[i].boot = boot => Reached(i))'
               /\ (~store_failed =>
                     app_attest_instances[accepted[i].key] = None \/ Reached(i))'
    BY <1>2, <1>3, <1>4, <1>5, <1>7 DEF AssertionAccepted, AcceptancesReached, Acceptance
  <2>2. (accepted[last].boot <= boot)'
    BY <1>3 DEF AssertionAccepted
  <2> QED BY <1>3, <1>8, <2>1, <2>2 DEF AcceptancesReached
<1>10. CountersIncrease'
  <2>1. ASSUME NEW i \in DOMAIN accepted, accepted[i].key = k, accepted[i].boot = boot
        PROVE  accepted[i].count < n
    BY <1>7, <2>1 DEF AcceptancesReached
  <2>2. ~(last < last)
    OBVIOUS
  <2>3. \A j \in DOMAIN accepted : ~(last < j)
    BY <1>3
  <2> QED BY <1>3, <2>1, <2>2, <2>3, SMTT(30) DEF CountersIncrease
<1>11. ReplayNeedsStoreFailure'
  <2>1. ASSUME NEW i \in DOMAIN accepted, accepted[i].key = k, ~store_failed
        PROVE  accepted[i].count < n
    BY <1>4, <1>7, <2>1, AttestAssumption DEF AcceptancesReached, Count
  <2>2. ~(last < last)
    OBVIOUS
  <2>3. \A j \in DOMAIN accepted : ~(last < j)
    BY <1>3
  <2> QED BY <1>2, <1>3, <2>1, <2>2, <2>3 DEF ReplayNeedsStoreFailure
<1> QED BY <1>2, <1>9, <1>10, <1>11 DEF StoreFollows

\* A new process knows what the file says, or, when it cannot be read, nothing.
LEMMA CounterAtRestart ==
  ASSUME TypeOK, CounterInv, NEW readable \in BOOLEAN, Restart(readable)
  PROVE  CounterInv'
<1> USE DEF CounterInv, TypeOK
<1>1. \A i \in DOMAIN accepted :
         accepted[i] \in Acceptance /\ accepted[i].boot < boot' /\ accepted[i].boot <= boot
  <2>1. \A i \in DOMAIN accepted : accepted[i] \in Acceptance
    BY ElementOfSeq
  <2> QED BY <2>1, AttestAssumption DEF Restart, AcceptancesReached, Acceptance
<1>2. ~store_failed' /\ Persistent => app_attest_instances' = app_attest_instances
  BY DEF Restart, StoreFollows
<1>3. ~Persistent => \A k \in KeyIds : app_attest_instances'[k] = None
  BY DEF Restart, NoInstances
<1>4. AcceptancesReached'
  BY <1>1, <1>2, <1>3, AttestAssumption DEF Restart, AcceptancesReached, Reached, Acceptance
<1>5. StoreFollows'
  BY <1>2 DEF Restart, StoreFollows
<1>6. CountersIncrease' /\ ReplayNeedsStoreFailure'
  BY DEF Restart, CountersIncrease, ReplayNeedsStoreFailure
<1> QED BY <1>4, <1>5, <1>6

\* Every handler and every restart keeps the counters in order.
LEMMA CounterStep == TypeOK /\ KeyInv /\ CounterInv /\ [Next]_vars => CounterInv'
<1> SUFFICES ASSUME TypeOK, KeyInv, CounterInv, [Next]_vars PROVE CounterInv'
  OBVIOUS
<1>1. CASE UNCHANGED <<boot, app_attest_instances, app_attest_store, history>>
  BY <1>1, CounterUntouched
<1>2. ASSUME NEW r \in registering, RegisterStores(r) PROVE CounterInv'
  BY <1>2, CounterAtRegistration
<1>3. ASSUME NEW k \in KeyIds, NEW n \in 1..counter[k], AssertionAccepted(k, n)
      PROVE CounterInv'
  BY <1>3, CounterAtAssertion
<1>4. ASSUME NEW readable \in BOOLEAN, Restart(readable) PROVE CounterInv'
  BY <1>4, CounterAtRestart
<1> QED
  BY <1>1, <1>2, <1>3, <1>4
  DEF Next, vars, history, process, AttestKey, GenerateAssertion, ChallengeIssued,
      RegisterTakes, RegisterRefused, RegistrationDropped, Tick

-----------------------------------------------------------------------------
(* The properties.                                                         *)

\* What a key and its counters have been through, in every reachable state.
LEMMA AttestInvariant == Spec => [](TypeOK /\ KeyInv /\ CounterInv)
<1>1. Init => TypeOK /\ KeyInv /\ CounterInv
  BY AttestInitType, KeyInit
<1>2. TypeOK /\ KeyInv /\ CounterInv /\ [Next]_vars => (TypeOK /\ KeyInv /\ CounterInv)'
  BY AttestStepType, KeyStep, CounterStep
<1> QED BY <1>1, <1>2, PTL DEF Spec

\* A key is registered at most once: its challenge is spent for good once a
\* registration of it began (app_attest_register, main.rs 1866-1878).
THEOREM ChallengeSpent == Spec => []ChallengeSpentByRegistration
<1>1. KeyInv => ChallengeSpentByRegistration
  BY DEF KeyInv, SeenIsSpent, Seen, ChallengeSpentByRegistration
<1> QED BY <1>1, AttestInvariant, PTL

\* Within one process the accepted counters of a key increase, whatever the
\* store does (verify_assertion, app_attest.rs 271-273).
THEOREM CountersOnlyIncrease == Spec => []CountersIncrease
<1>1. CounterInv => CountersIncrease
  BY DEF CounterInv
<1> QED BY <1>1, AttestInvariant, PTL

\* Nothing but a failing store lets an assertion be accepted again, by however
\* many later processes (save_instances and load_instances, app_attest.rs
\* 98-126).
THEOREM NoReplayWithoutFailure == Spec => []ReplayNeedsStoreFailure
<1>1. CounterInv => ReplayNeedsStoreFailure
  BY DEF CounterInv
<1> QED BY <1>1, AttestInvariant, PTL

\* No step, restarts included, loses a registration or takes a counter back
\* before the store has failed (main.rs 580-581).
THEOREM RegistrationsKept == Spec => RegistrationsSurvive
<1> DEFINE Kept == \A k \in KeyIds : app_attest_instances[k] # None =>
                      /\ app_attest_instances'[k] # None
                      /\ app_attest_instances'[k] >= app_attest_instances[k]
<1>1. ASSUME TypeOK, KeyInv, CounterInv, [Next]_vars, Persistent, ~store_failed'
      PROVE  Kept
  <2> USE <1>1 DEF TypeOK, process, device, history
  <2>1. CASE UNCHANGED app_attest_instances
    BY <2>1 DEF Count
  <2>2. ASSUME NEW r \in registering, RegisterStores(r) PROVE Kept
    BY <2>2 DEF RegisterStores, KeyInv, RegistrationsNew, Count
  <2>3. ASSUME NEW k \in KeyIds, NEW n \in 1..counter[k], AssertionAccepted(k, n) PROVE Kept
    BY <2>3, AttestAssumption DEF AssertionAccepted, Advance, CounterAdvances, Count
  <2>4. ASSUME NEW readable \in BOOLEAN, Restart(readable) PROVE Kept
    <3>1. app_attest_instances' = app_attest_instances
      BY <2>4 DEF Restart, CounterInv, StoreFollows
    <3> QED BY <2>1, <3>1
  <2> QED
    BY <2>1, <2>2, <2>3, <2>4
    DEF Next, vars, AttestKey, GenerateAssertion, ChallengeIssued, RegisterTakes,
        RegisterRefused, RegistrationDropped, Tick
<1>2. TypeOK /\ KeyInv /\ CounterInv /\ [Next]_vars => [Persistent /\ ~store_failed' => Kept]_vars
  BY <1>1
<1> QED BY <1>2, AttestInvariant, PTL DEF Spec, RegistrationsSurvive
=============================================================================
