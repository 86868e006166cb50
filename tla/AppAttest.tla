----------------------------- MODULE AppAttest ------------------------------
(***************************************************************************)
(* App Attest: the challenges, the registered app instances and their      *)
(* replay counters, with the durable store of app_attest.rs behind them.   *)
(* The handlers are app_attest_challenge, app_attest_register and          *)
(* verify_app_attest_assertion of main.rs; the last is also the gate       *)
(* enforce_app_attest puts before a capture submission.                    *)
(*                                                                         *)
(* External: the Secure Enclave of a device attests a key once, over one   *)
(* challenge, and counts the assertions it signs with it.                  *)
(*                                                                         *)
(* Registration consumes the challenge in one critical section and stores  *)
(* the instance in another.  The table is written out after every change,  *)
(* best effort: a failed write is logged and the handler goes on.          *)
(***************************************************************************)
EXTENDS Integers, Sequences

CONSTANTS
    None,
    KeyIds,               \* keys of the Secure Enclaves
    Challenges,           \* random challenges
    MaxCount,             \* bound on a device's assertion counter
    ChallengeLifetime,    \* 300 s, in clock ticks
    Persistent,           \* APP_ATTEST_STORE_PATH is set
    StoreMayFail,         \* writes and reads of the store may fail
    MaxTime, MaxBoots     \* bounds on the clock and on restarts

ASSUME AttestAssumption ==
    /\ MaxCount \in Nat /\ ChallengeLifetime \in Nat
    /\ MaxTime \in Nat /\ MaxBoots \in Nat
    /\ Persistent \in BOOLEAN /\ StoreMayFail \in BOOLEAN
    /\ None \notin Challenges \cup Nat

VARIABLES
    clock, boot,
    app_attest_challenges,    \* challenge -> when it expires
    registering,              \* registrations between their two sections
    app_attest_instances,     \* key -> sign_count
    app_attest_store,         \* the file behind it
    drawn,                    \* challenges ever issued
    attested,                 \* external: key -> the challenge it attests
    counter,                  \* external: key -> assertions it signed
    accepted,                 \* assertions accepted, in order (history)
    store_failed              \* a write or a read of the file failed (history)

vars == <<clock, boot, app_attest_challenges, registering, app_attest_instances,
          app_attest_store, drawn, attested, counter, accepted, store_failed>>
device == <<attested, counter>>
process == <<clock, boot>>
history == <<accepted, store_failed>>

Count == 0..MaxCount

Acceptance == [key : KeyIds, count : Count, boot : 0..MaxBoots]

TypeOK ==
    /\ clock \in 0..MaxTime /\ boot \in 0..MaxBoots
    /\ app_attest_challenges \in
          [Challenges -> 0..(MaxTime + ChallengeLifetime) \cup {None}]
    /\ registering \subseteq [key : KeyIds, challenge : Challenges]
    /\ app_attest_instances \in [KeyIds -> Count \cup {None}]
    /\ app_attest_store \in [KeyIds -> Count \cup {None}]
    /\ drawn \subseteq Challenges
    /\ attested \in [KeyIds -> Challenges \cup {None}]
    /\ counter \in [KeyIds -> Count]
    /\ accepted \in Seq(Acceptance) /\ store_failed \in BOOLEAN

NoInstances == [k \in KeyIds |-> None]

Init ==
    /\ clock = 0 /\ boot = 0
    /\ app_attest_challenges = [c \in Challenges |-> None]
    /\ registering = {}
    /\ app_attest_instances = NoInstances /\ app_attest_store = NoInstances
    /\ drawn = {}
    /\ attested = [k \in KeyIds |-> None] /\ counter = [k \in KeyIds |-> 0]
    /\ accepted = <<>> /\ store_failed = FALSE

-----------------------------------------------------------------------------
(* The device.                                                             *)

AttestKey(k, c) ==
    /\ attested[k] = None /\ c \in drawn
    /\ attested' = [attested EXCEPT ![k] = c]
    /\ UNCHANGED <<process, app_attest_challenges, registering,
                   app_attest_instances, app_attest_store, drawn, counter,
                   history>>

GenerateAssertion(k) ==
    /\ attested[k] # None /\ counter[k] < MaxCount
    /\ counter' = [counter EXCEPT ![k] = @ + 1]
    /\ UNCHANGED <<process, app_attest_challenges, registering,
                   app_attest_instances, app_attest_store, drawn, attested,
                   history>>

-----------------------------------------------------------------------------
(* The issuer.                                                             *)

\* Expired challenges are dropped when a new one is issued.
ChallengeIssued(c) ==
    /\ c \notin drawn /\ drawn' = drawn \cup {c}
    /\ app_attest_challenges' = [d \in Challenges |->
          IF d = c THEN clock + ChallengeLifetime
          ELSE IF app_attest_challenges[d] # None /\ app_attest_challenges[d] > clock
               THEN app_attest_challenges[d] ELSE None]
    /\ UNCHANGED <<process, registering, app_attest_instances, app_attest_store,
                   device, history>>

Fresh(c) == app_attest_challenges[c] # None /\ app_attest_challenges[c] > clock

\* Mutant: the challenge is looked up and stays.
ChallengeKept(c) == UNCHANGED app_attest_challenges

ChallengeRemoved(c) ==
    app_attest_challenges' = [app_attest_challenges EXCEPT ![c] = None]

\* First section, and the verification of the attestation that follows it.
RegisterTakes(k, c) ==
    /\ Fresh(c) /\ ChallengeRemoved(c)
    /\ attested[k] = c
    /\ registering' = registering \cup {[key |-> k, challenge |-> c]}
    /\ UNCHANGED <<process, app_attest_instances, app_attest_store, drawn, device,
                   history>>

\* The challenge is consumed, expired or not; there is nothing to register.
RegisterRefused(k, c) ==
    /\ app_attest_challenges[c] # None /\ ChallengeRemoved(c)
    /\ ~Fresh(c) \/ attested[k] # c
    /\ UNCHANGED <<process, registering, app_attest_instances, app_attest_store,
                   drawn, device,
                   history>>

\* Mutant: the table is written before the change is made to it.
SaveTableBefore(instances) ==
    app_attest_store' = app_attest_instances /\ UNCHANGED store_failed

\* save_instances: the file is replaced as a whole or not at all.
SaveInstances(instances) ==
    \/ /\ app_attest_store' = IF Persistent THEN instances ELSE app_attest_store
       /\ UNCHANGED store_failed
    \/ /\ Persistent /\ StoreMayFail
       /\ store_failed' = TRUE
       /\ UNCHANGED app_attest_store

RegisterStores(r) ==
    /\ r \in registering /\ registering' = registering \ {r}
    /\ app_attest_instances' = [app_attest_instances EXCEPT ![r.key] = 0]
    /\ SaveInstances(app_attest_instances')
    /\ UNCHANGED <<process, app_attest_challenges, drawn, device, accepted>>

\* The client hangs up between the two sections.
RegistrationDropped(r) ==
    /\ r \in registering /\ registering' = registering \ {r}
    /\ UNCHANGED <<process, app_attest_challenges, app_attest_instances,
                   app_attest_store, drawn, device,
                   history>>

\* Mutant: the last counter is accepted once more.
CounterNotBehind(k, n) == n >= app_attest_instances[k]

CounterAdvances(k, n) == n > app_attest_instances[k]

\* Mutants: the counter is kept in memory only; it is stored one too high.
AdvanceUnsaved(k, n) ==
    /\ app_attest_instances' = [app_attest_instances EXCEPT ![k] = n]
    /\ UNCHANGED <<app_attest_store, store_failed>>
AdvanceTooFar(k, n) ==
    /\ app_attest_instances' = [app_attest_instances EXCEPT ![k] = n + 1]
    /\ SaveInstances(app_attest_instances')

Advance(k, n) ==
    /\ app_attest_instances' = [app_attest_instances EXCEPT ![k] = n]
    /\ SaveInstances(app_attest_instances')

\* verify_app_attest_assertion for the n-th assertion of a key, one section.
AssertionAccepted(k, n) ==
    /\ app_attest_instances[k] # None
    /\ CounterAdvances(k, n)
    /\ Advance(k, n)
    /\ accepted' = Append(accepted, [key |-> k, count |-> n, boot |-> boot])
    /\ UNCHANGED <<process, app_attest_challenges, registering, drawn, device>>

\* load_instances: an unreadable file is an empty table.
Restart(readable) ==
    /\ boot < MaxBoots /\ boot' = boot + 1
    /\ ~readable => Persistent /\ StoreMayFail
    /\ app_attest_instances' =
          IF Persistent /\ readable THEN app_attest_store ELSE NoInstances
    /\ app_attest_challenges' = [c \in Challenges |-> None]
    /\ registering' = {}
    /\ store_failed' = (store_failed \/ ~readable)
    /\ UNCHANGED <<clock, app_attest_store, drawn, device, accepted>>

Tick ==
    /\ clock < MaxTime /\ clock' = clock + 1
    /\ UNCHANGED <<boot, app_attest_challenges, registering, app_attest_instances,
                   app_attest_store, drawn, device,
                   history>>

Next ==
    \/ \E k \in KeyIds, c \in Challenges : AttestKey(k, c)
    \/ \E k \in KeyIds : GenerateAssertion(k)
    \/ \E c \in Challenges : ChallengeIssued(c)
    \/ \E k \in KeyIds, c \in Challenges : RegisterTakes(k, c) \/ RegisterRefused(k, c)
    \/ \E r \in registering : RegisterStores(r) \/ RegistrationDropped(r)
    \/ \E k \in KeyIds : \E n \in 1..counter[k] : AssertionAccepted(k, n)
    \/ \E readable \in BOOLEAN : Restart(readable)
    \/ Tick

Spec == Init /\ [][Next]_vars

-----------------------------------------------------------------------------
(* Properties.                                                             *)

\* While the process runs, the accepted assertions of a key carry strictly
\* increasing counters, whatever registrations and store failures come in
\* between (verify_assertion, app_attest.rs 271-273; main.rs 2000-2002).
CountersIncrease ==
    \A i, j \in DOMAIN accepted :
        /\ i < j /\ accepted[i].key = accepted[j].key
        /\ accepted[i].boot = accepted[j].boot
        => accepted[i].count < accepted[j].count

\* A key that attested is registered at most once in its life: once an instance
\* or a registration of it exists, in memory or in the store, its challenge is
\* spent for good (main.rs 1866-1878).
ChallengeSpentByRegistration ==
    \A k \in KeyIds :
        \/ app_attest_instances[k] # None
        \/ app_attest_store[k] # None
        \/ \E r \in registering : r.key = k
        => attested[k] # None /\ app_attest_challenges[attested[k]] = None

\* Where no write and no read of the store ever failed, or there is no store, an
\* assertion is not accepted by a later process either (main.rs 592-593, 2005).
ReplayNeedsStoreFailure ==
    ~store_failed =>
        \A i, j \in DOMAIN accepted :
            i < j /\ accepted[i].key = accepted[j].key
            => accepted[i].count < accepted[j].count

\* A registered key stays registered, and its counter never goes back, from
\* process to process, until a write or a read of the store fails: "a restart
\* does not reset replay counters or lock out already-registered clients"
\* (main.rs 580-581; load_instances and save_instances, app_attest.rs 98-126).
RegistrationsSurvive ==
    [][Persistent /\ ~store_failed' =>
          \A k \in KeyIds : app_attest_instances[k] # None =>
              /\ app_attest_instances'[k] # None
              /\ app_attest_instances'[k] >= app_attest_instances[k]]_vars

\* "Persist the advanced counter so a restart cannot reset it" (main.rs 2005):
\* no assertion is accepted again, not even by a later process.
NoReplayAcrossRestarts ==
    \A i, j \in DOMAIN accepted :
        i < j /\ accepted[i].key = accepted[j].key
        => accepted[i].count < accepted[j].count
=============================================================================
