------------------------ MODULE CaptureSessionProofs ------------------------
(***************************************************************************)
(* Theorems about CaptureSession, for every value of its constants.        *)
(***************************************************************************)
EXTENDS CaptureSession, KernelProofs, SequenceTheorems

-----------------------------------------------------------------------------
(* Sessions and the submissions in flight.                                 *)

\* A submission in flight is to a session that exists, and carries its key, an
\* instant inside its life and the number of outcomes there were.
FlightInv ==
    \A k \in Submissions : submitting[k] # None =>
        LET x == submitting[k]
            session == capture_sessions[x.session]
        IN  /\ session # None /\ session.holder = x.holder
            /\ x.at <= session.expires_at
            /\ x.seen <= Len(outcomes)

\* Identifiers of sessions are random and drawn once.
DrawnInv ==
    /\ \A s \in Sessions : capture_sessions[s] # None => s \in drawn
    /\ \A i \in DOMAIN outcomes : outcomes[i].session \in drawn
    /\ \A d \in delivered : d.session \in drawn

-----------------------------------------------------------------------------
(* Outcomes.                                                               *)

\* A session that waits has no outcome; a submission in flight read its session
\* before any outcome of it.
OverlapInv ==
    /\ \A s \in Sessions :
          capture_sessions[s] # None /\ capture_sessions[s].status = "awaiting_evidence" =>
             \A i \in DOMAIN outcomes : outcomes[i].session # s
    /\ \A k \in Submissions, i \in DOMAIN outcomes :
          submitting[k] # None /\ outcomes[i].session = submitting[k].session =>
             submitting[k].seen < i
    /\ OnlyOverlapResolvesTwice

\* What a PID says of its session and of its attestation.
MintInv ==
    /\ PidRestsOnPersonAndChip
    /\ \A i \in Mints :
          LET m == outcomes[i].pid IN
          /\ m.session = outcomes[i].session /\ m.boot <= boot
          /\ m.boot = boot => m.attestation.jti \in binding_jtis
          /\ m.boot < boot => capture_sessions[m.session] = None
    /\ AttestationMintsOnce

\* A PID was minted for the session that has it, inside its life.
IsOf(credential, s) ==
    /\ \E i \in Mints : outcomes[i].pid = credential
    /\ credential.session = s
    /\ capture_sessions[s] # None =>
          /\ credential.holder = capture_sessions[s].holder
          /\ credential.at <= capture_sessions[s].expires_at

DeliveryInv ==
    /\ \A s \in Sessions :
          capture_sessions[s] # None /\ capture_sessions[s].credential # None =>
             IsOf(capture_sessions[s].credential, s)
    /\ \A d \in delivered : IsOf(d.credential, d.session)

-----------------------------------------------------------------------------
(* Type correctness.                                                       *)

\* The empty service is well typed, and nothing is in flight.
THEOREM CaptureInit == Init => TypeOK /\ FlightInv
<1> SUFFICES ASSUME Init PROVE TypeOK /\ FlightInv
  OBVIOUS
<1>1. outcomes \in Seq(Outcome)
  BY EmptySeq DEF Init
<1>2. clock \in Time /\ boot \in 0..MaxBoots
  BY CaptureAssumption DEF Init, Time
<1> QED BY <1>1, <1>2 DEF Init, TypeOK, FlightInv

\* A submission that is resolved reads what it carries from its snapshot.
LEMMA InFlight ==
  ASSUME TypeOK, FlightInv, NEW k \in Submissions, submitting[k] # None
  PROVE  /\ submitting[k] \in Snapshot
         /\ submitting[k].session \in Sessions
         /\ submitting[k].attestation \in Attestation
         /\ capture_sessions[submitting[k].session] \in Session
         /\ capture_sessions[submitting[k].session].holder = submitting[k].holder
         /\ submitting[k].at <= capture_sessions[submitting[k].session].expires_at
         /\ submitting[k].seen \in Nat /\ submitting[k].seen <= Len(outcomes)
<1>1. submitting[k] \in Snapshot
  BY DEF TypeOK
<1>2. /\ submitting[k].session \in Sessions /\ submitting[k].attestation \in Attestation
      /\ submitting[k].seen \in Nat
  BY <1>1, CaptureAssumption DEF Snapshot
<1> QED BY <1>1, <1>2 DEF TypeOK, FlightInv

\* One more outcome leaves those before it where they are.
LEMMA OneMore ==
  ASSUME outcomes \in Seq(Outcome), NEW e \in Outcome, outcomes' = Append(outcomes, e)
  PROVE  /\ outcomes' \in Seq(Outcome)
         /\ Len(outcomes) \in Nat /\ Len(outcomes') = Len(outcomes) + 1
         /\ DOMAIN outcomes = 1..Len(outcomes)
         /\ DOMAIN outcomes' = 1..(Len(outcomes) + 1)
         /\ \A i \in DOMAIN outcomes : outcomes'[i] = outcomes[i]
         /\ outcomes'[Len(outcomes) + 1] = e
  BY AppendProperties, LenProperties

\* What the second critical section of k does when it has a result: the
\* attestation is spent, the session stored, the outcome logged.
Resolves(k, session, pid) ==
    /\ submitting[k] # None
    /\ SpendAttestation(submitting[k].attestation)
    /\ capture_sessions' = [capture_sessions EXCEPT ![submitting[k].session] = session]
    /\ session \in Session
    /\ session.holder = capture_sessions[submitting[k].session].holder
    /\ session.expires_at = capture_sessions[submitting[k].session].expires_at
    /\ session.status # "awaiting_evidence"
    /\ pid \in Pid \cup {None}
    /\ outcomes' = Append(outcomes, [session |-> submitting[k].session,
                                     seen |-> submitting[k].seen, pid |-> pid])
    /\ submitting' = [submitting EXCEPT ![k] = None]
    /\ UNCHANGED <<clock, boot, drawn, delivered>>

\* The PID of a submission.
PidOf(k, answer) ==
    [session |-> submitting[k].session, holder |-> submitting[k].holder,
     attestation |-> submitting[k].attestation, answer |-> answer,
     at |-> submitting[k].at, boot |-> boot]

\* A denial keeps what the session had.
LEMMA DenialResolves ==
  ASSUME TypeOK, FlightInv, NEW k \in Submissions, NEW answer \in Answer,
         SubmitDenied(k, answer)
  PROVE  \E session : /\ Resolves(k, session, None)
                      /\ session.credential =
                            capture_sessions[submitting[k].session].credential
<1> DEFINE old == capture_sessions[submitting[k].session]
           session == [old EXCEPT !.status = "failed"]
<1>1. submitting[k] # None
  BY DEF SubmitDenied
<1>2. old \in Session
  BY <1>1, InFlight
<1>3. /\ session \in Session /\ session.holder = old.holder
      /\ session.expires_at = old.expires_at /\ session.status = "failed"
      /\ session.credential = old.credential
  BY <1>2 DEF Session, CaptureStatus
<1>4. capture_sessions' = [capture_sessions EXCEPT ![submitting[k].session] = session]
  BY <1>1, InFlight DEF SubmitDenied, TypeOK
<1> HIDE DEF session
<1> QED BY <1>1, <1>3, <1>4 DEF SubmitDenied, Resolves

\* A mint stores the PID in the session.
LEMMA MintResolves ==
  ASSUME TypeOK, FlightInv, NEW k \in Submissions, NEW answer \in Answer,
         SubmitMints(k, answer)
  PROVE  \E session : /\ Resolves(k, session, PidOf(k, answer))
                      /\ session.credential = PidOf(k, answer)
<1> DEFINE old == capture_sessions[submitting[k].session]
           pid == PidOf(k, answer)
           session == [old EXCEPT !.status = "issued", !.credential = pid, !.token = None]
<1>1. submitting[k] # None /\ pid = PidOf(k, answer)
  BY DEF SubmitMints
<1>2. old \in Session /\ submitting[k] \in Snapshot
      /\ submitting[k].attestation \in Attestation
  BY <1>1, InFlight
<1>3. pid \in Pid
  BY <1>2 DEF PidOf, Pid, Snapshot, TypeOK
<1>4. /\ capture_sessions' = [capture_sessions EXCEPT ![submitting[k].session] =
                                 [@ EXCEPT !.status = "issued", !.credential = pid,
                                           !.token = None]]
      /\ outcomes' = Append(outcomes, [session |-> submitting[k].session,
                                       seen |-> submitting[k].seen, pid |-> pid])
  BY <1>1, InFlight DEF SubmitMints, PidOf, TypeOK
<1> HIDE DEF pid
<1>5. /\ session \in Session /\ session.holder = old.holder
      /\ session.expires_at = old.expires_at /\ session.status = "issued"
      /\ session.credential = pid
  BY <1>2, <1>3 DEF Session, CaptureStatus
<1>6. capture_sessions' = [capture_sessions EXCEPT ![submitting[k].session] = session]
  BY <1>4
<1> HIDE DEF session
<1> QED BY <1>1, <1>3, <1>4, <1>5, <1>6 DEF SubmitMints, Resolves

Denies(k, session) ==
    /\ Resolves(k, session, None)
    /\ session.credential = capture_sessions[submitting[k].session].credential

MintsPid(k, session, answer) ==
    /\ Welded(submitting[k]) /\ KernelAllows(submitting[k], answer)
    /\ Resolves(k, session, PidOf(k, answer))
    /\ session.credential = PidOf(k, answer)

\* A submission that leaves no outcome: it was refused, hung up, or its signer
\* failed.
Leaves(k) ==
    /\ submitting[k] # None
    /\ submitting' = [submitting EXCEPT ![k] = None]
    /\ binding_jtis \subseteq binding_jtis' /\ binding_jtis' \subseteq Jtis
    /\ UNCHANGED <<clock, boot, capture_sessions, drawn, outcomes, delivered>>

CaptureStep ==
    \/ \E s \in Sessions, key \in Keys, t \in Time : CreateSession(s, key, t)
    \/ \E s \in Sessions : PollDelivers(s)
    \/ \E k \in Submissions, s \in Sessions, a \in Attestations : SubmitReads(k, s, a)
    \/ \E k \in Submissions : \E session : Denies(k, session)
    \/ \E k \in Submissions, answer \in Answer : \E session : MintsPid(k, session, answer)
    \/ \E k \in Submissions : Leaves(k)
    \/ Tick
    \/ Restart
    \/ UNCHANGED vars

\* The handlers by what they leave behind.
LEMMA CaptureSteps ==
  ASSUME TypeOK, FlightInv, [Next]_vars
  PROVE  CaptureStep
<1>1. ASSUME NEW k \in Submissions, NEW answer \in Answer, SubmitDenied(k, answer)
      PROVE  \E session : Denies(k, session)
  BY <1>1, DenialResolves DEF Denies
<1>2. ASSUME NEW k \in Submissions, NEW answer \in Answer, SubmitMints(k, answer)
      PROVE  \E session : MintsPid(k, session, answer)
  <2>1. Welded(submitting[k]) /\ KernelAllows(submitting[k], answer)
    BY <1>2 DEF SubmitMints
  <2> QED BY <1>2, <2>1, MintResolves DEF MintsPid
<1>3. ASSUME NEW k \in Submissions, NEW answer \in Answer, SubmitSignFails(k, answer)
      PROVE  Leaves(k)
  <2>1. submitting[k].attestation \in Attestation
    BY <1>3, InFlight DEF SubmitSignFails
  <2> QED BY <1>3, <2>1 DEF SubmitSignFails, SpendAttestation, Leaves, TypeOK, Attestation
<1>4. ASSUME NEW k \in Submissions, SubmissionDropped(k) PROVE Leaves(k)
  BY <1>4 DEF SubmissionDropped, Leaves, TypeOK
<1> QED BY <1>1, <1>2, <1>3, <1>4 DEF Next, CaptureStep

\* Every handler keeps the sessions well typed, and whatever is in flight is of
\* a session that exists (main.rs 1490-1800).
THEOREM CaptureStepType ==
    TypeOK /\ FlightInv /\ DrawnInv /\ [Next]_vars => TypeOK' /\ FlightInv'
<1> SUFFICES ASSUME TypeOK, FlightInv, DrawnInv, [Next]_vars PROVE TypeOK' /\ FlightInv'
  OBVIOUS
<1> USE CaptureAssumption
<1>1. ASSUME NEW s \in Sessions, NEW key \in Keys, NEW t \in Time, CreateSession(s, key, t),
             capture_sessions[s] = None
      PROVE  TypeOK' /\ FlightInv'
  <2> DEFINE session == [holder |-> key, token |-> IF IproovConfigured THEN s ELSE None,
                         status |-> "awaiting_evidence", credential |-> None,
                         expires_at |-> ExpiresAt(t)]
  <2>1. session \in Session
    BY DEF Session, CaptureStatus, ExpiresAt, Time
  <2>2. capture_sessions' = [capture_sessions EXCEPT ![s] = session]
        /\ UNCHANGED <<clock, boot, binding_jtis, submitting, outcomes, delivered>>
        /\ drawn' = drawn \cup {s}
    BY <1>1 DEF CreateSession
  <2> HIDE DEF session
  <2>3. TypeOK'
    BY <2>1, <2>2 DEF TypeOK
  <2>4. FlightInv'
    BY <1>1, <2>2 DEF TypeOK, FlightInv
  <2> QED BY <2>3, <2>4
<1>2. ASSUME NEW s \in Sessions, PollDelivers(s) PROVE TypeOK' /\ FlightInv'
  <2>1. capture_sessions[s].credential \in Pid
    BY <1>2 DEF PollDelivers, TypeOK, Session
  <2>2. TypeOK'
    BY <1>2, <2>1 DEF PollDelivers, TypeOK
  <2> QED BY <1>2, <2>2 DEF PollDelivers, FlightInv
<1>3. ASSUME NEW k \in Submissions, NEW s \in Sessions, NEW a \in Attestations,
             SubmitReads(k, s, a)
      PROVE  TypeOK' /\ FlightInv'
  <2> DEFINE x == [session |-> s, holder |-> capture_sessions[s].holder,
                   token |-> capture_sessions[s].token, attestation |-> a,
                   at |-> clock, seen |-> Len(outcomes)]
  <2>1. /\ capture_sessions[s] \in Session /\ clock <= capture_sessions[s].expires_at
        /\ submitting' = [submitting EXCEPT ![k] = x]
        /\ UNCHANGED <<clock, boot, capture_sessions, binding_jtis, drawn, outcomes, delivered>>
    BY <1>3 DEF SubmitReads, SessionAdmits, TypeOK, Session, Time
  <2>2. Len(outcomes) \in Nat
    BY LenProperties DEF TypeOK
  <2>3. x \in Snapshot
    BY <2>1, <2>2 DEF Snapshot, Session, TypeOK
  <2>4. x.session = s /\ x.holder = capture_sessions[s].holder /\ x.at = clock
        /\ x.seen = Len(outcomes)
    OBVIOUS
  <2> HIDE DEF x
  <2>5. TypeOK'
    BY <2>1, <2>3 DEF TypeOK
  <2>6. capture_sessions[s] # None
    BY <2>1, NoneAssumption
  <2>7. FlightInv'
    BY <2>1, <2>2, <2>4, <2>6 DEF FlightInv, TypeOK
  <2> QED BY <2>5, <2>7
<1>4. ASSUME NEW k \in Submissions, NEW session, NEW pid, Resolves(k, session, pid)
      PROVE  TypeOK' /\ FlightInv'
  <2> DEFINE e == [session |-> submitting[k].session, seen |-> submitting[k].seen, pid |-> pid]
  <2>1. /\ submitting[k].session \in Sessions /\ submitting[k].attestation \in Attestation
        /\ submitting[k].seen \in Nat
    BY <1>4, InFlight DEF Resolves
  <2>2. e \in Outcome /\ outcomes' = Append(outcomes, e)
    BY <1>4, <2>1 DEF Outcome, Resolves
  <2> HIDE DEF e
  <2>3. /\ outcomes' \in Seq(Outcome) /\ Len(outcomes) \in Nat
        /\ Len(outcomes') = Len(outcomes) + 1
    BY <2>2, OneMore DEF TypeOK
  <2>4. TypeOK'
    BY <1>4, <2>1, <2>3 DEF Resolves, SpendAttestation, TypeOK, Attestation
  <2>5. session # None
    BY <1>4, NoneAssumption DEF Resolves
  <2>6. ASSUME NEW j \in Submissions, submitting'[j] # None
        PROVE  LET x == submitting'[j]
                   new == capture_sessions'[x.session]
               IN  /\ new # None /\ new.holder = x.holder
                   /\ x.at <= new.expires_at
                   /\ x.seen <= Len(outcomes')
    <3>1. submitting'[j] = submitting[j] /\ submitting[j] # None
      BY <1>4, <2>6 DEF Resolves, TypeOK
    <3>2. /\ submitting[j].session \in Sessions /\ submitting[j].seen \in Nat
          /\ capture_sessions[submitting[j].session].holder = submitting[j].holder
          /\ submitting[j].at <= capture_sessions[submitting[j].session].expires_at
          /\ submitting[j].seen <= Len(outcomes)
          /\ capture_sessions[submitting[j].session] # None
      BY <3>1, InFlight DEF FlightInv
    <3>3. submitting[j].seen <= Len(outcomes')
      BY <2>3, <3>2
    <3> QED BY <1>4, <2>1, <2>5, <3>1, <3>2, <3>3 DEF Resolves, TypeOK
  <2> QED BY <2>4, <2>6 DEF FlightInv
<1>5. ASSUME NEW k \in Submissions, Leaves(k) PROVE TypeOK' /\ FlightInv'
  BY <1>5 DEF Leaves, TypeOK, FlightInv
<1>6. CASE Tick
  <2>1. TypeOK'
    BY <1>6 DEF Tick, TypeOK, Time
  <2> QED BY <1>6, <2>1 DEF Tick, FlightInv
<1>7. CASE Restart
  <2>1. TypeOK'
    BY <1>7 DEF Restart, TypeOK
  <2> QED BY <1>7, <2>1 DEF Restart, FlightInv
<1>8. CASE UNCHANGED vars
  <2>1. TypeOK'
    BY <1>8 DEF vars, TypeOK
  <2> QED BY <1>8, <2>1 DEF vars, FlightInv
<1>9. ASSUME NEW s \in Sessions, NEW key \in Keys, NEW t \in Time, CreateSession(s, key, t)
      PROVE  capture_sessions[s] = None
  BY <1>9 DEF CreateSession, DrawnInv
<1> QED
  BY <1>1, <1>2, <1>3, <1>4, <1>5, <1>6, <1>7, <1>8, <1>9, CaptureSteps
  DEF CaptureStep, Denies, MintsPid

\* A name of an outcome, of a session or of a delivery is never drawn again
\* (create_pid_capture_session, main.rs 1394-1489).
THEOREM StepDrawn == TypeOK /\ FlightInv /\ DrawnInv /\ [Next]_vars => DrawnInv'
<1> SUFFICES ASSUME TypeOK, FlightInv, DrawnInv, [Next]_vars PROVE DrawnInv'
  OBVIOUS
<1> USE DEF DrawnInv
<1>1. ASSUME NEW s \in Sessions, NEW key, NEW t, CreateSession(s, key, t) PROVE DrawnInv'
  BY <1>1 DEF CreateSession, TypeOK
<1>2. ASSUME NEW s \in Sessions, PollDelivers(s) PROVE DrawnInv'
  BY <1>2 DEF PollDelivers
<1>3. ASSUME NEW k \in Submissions, NEW session, NEW pid, Resolves(k, session, pid)
      PROVE  DrawnInv'
  <2> DEFINE e == [session |-> submitting[k].session, seen |-> submitting[k].seen, pid |-> pid]
  <2>1. /\ submitting[k].session \in Sessions /\ submitting[k].session \in drawn
        /\ submitting[k].seen \in Nat
    BY <1>3, InFlight DEF Resolves, FlightInv
  <2>2. e \in Outcome /\ outcomes' = Append(outcomes, e) /\ e.session = submitting[k].session
    BY <1>3, <2>1 DEF Outcome, Resolves
  <2> HIDE DEF e
  <2>3. \A i \in DOMAIN outcomes' : outcomes'[i].session \in drawn
    BY <2>1, <2>2, OneMore DEF TypeOK
  <2> QED BY <1>3, <2>1, <2>3 DEF Resolves, TypeOK
<1>4. CASE \/ \E k \in Submissions, s \in Sessions, a \in Attestations : SubmitReads(k, s, a)
           \/ \E k \in Submissions : Leaves(k)
           \/ Tick \/ Restart \/ UNCHANGED vars
  BY <1>4 DEF SubmitReads, Leaves, Tick, Restart, vars
<1> QED BY <1>1, <1>2, <1>3, <1>4, CaptureSteps DEF CaptureStep, Denies, MintsPid

\* Sessions, snapshots, outcomes and deliveries keep their types (capture.rs
\* 20-80; main.rs 1394-1800).
THEOREM CaptureTypeCorrect == Spec => []TypeOK
<1>1. Init => DrawnInv
  BY DEF Init, DrawnInv
<1> QED BY <1>1, CaptureInit, CaptureStepType, StepDrawn, PTL DEF Spec

-----------------------------------------------------------------------------
(* Which submissions resolve one session.                                  *)

\* The outcome a resolution logs is the last one, the others stay.
LEMMA Resolved ==
  ASSUME TypeOK, FlightInv, NEW k \in Submissions, NEW session, NEW pid,
         Resolves(k, session, pid)
  PROVE  /\ Len(outcomes) \in Nat /\ DOMAIN outcomes = 1..Len(outcomes)
         /\ DOMAIN outcomes' = 1..(Len(outcomes) + 1)
         /\ \A i \in DOMAIN outcomes : outcomes'[i] = outcomes[i]
         /\ outcomes'[Len(outcomes) + 1].session = submitting[k].session
         /\ outcomes'[Len(outcomes) + 1].seen = submitting[k].seen
         /\ outcomes'[Len(outcomes) + 1].pid = pid
<1> DEFINE e == [session |-> submitting[k].session, seen |-> submitting[k].seen, pid |-> pid]
<1>1. submitting[k].session \in Sessions /\ submitting[k].seen \in Nat
  BY InFlight DEF Resolves
<1>2. e \in Outcome /\ outcomes' = Append(outcomes, e)
  BY <1>1 DEF Outcome, Resolves
<1>3. e.session = submitting[k].session /\ e.seen = submitting[k].seen /\ e.pid = pid
  OBVIOUS
<1> HIDE DEF e
<1> QED BY <1>2, <1>3, OneMore DEF TypeOK

\* After its first outcome a session is never waiting again, so who resolves it
\* later had read it before (submit_pid_capture_evidence, main.rs 1571).
THEOREM StepOverlap ==
    TypeOK /\ FlightInv /\ DrawnInv /\ OverlapInv /\ [Next]_vars => OverlapInv'
<1> SUFFICES ASSUME TypeOK, FlightInv, DrawnInv, OverlapInv, [Next]_vars
             PROVE  OverlapInv'
  OBVIOUS
<1> USE DEF OverlapInv, OnlyOverlapResolvesTwice
<1>1. ASSUME NEW s \in Sessions, NEW key, NEW t, CreateSession(s, key, t)
      PROVE  OverlapInv'
  BY <1>1 DEF CreateSession, DrawnInv, TypeOK
<1>2. ASSUME NEW k \in Submissions, NEW s \in Sessions, NEW a, SubmitReads(k, s, a)
      PROVE  OverlapInv'
  <2>1. /\ \A i \in DOMAIN outcomes : outcomes[i].session # s
        /\ submitting'[k].session = s
        /\ \A j \in Submissions : j # k => submitting'[j] = submitting[j]
        /\ UNCHANGED <<capture_sessions, outcomes>>
    BY <1>2 DEF SubmitReads, SessionAdmits, TypeOK
  <2> QED BY <2>1
<1>3. ASSUME NEW k \in Submissions, NEW session, NEW pid, Resolves(k, session, pid)
      PROVE  OverlapInv'
  <2>1. /\ submitting[k] # None /\ submitting[k].session \in Sessions
        /\ submitting[k].seen \in Nat
    BY <1>3, InFlight DEF Resolves
  <2>2. /\ capture_sessions'[submitting[k].session] = session
        /\ session.status # "awaiting_evidence"
        /\ \A s \in Sessions : s # submitting[k].session =>
              capture_sessions'[s] = capture_sessions[s]
        /\ submitting'[k] = None
        /\ \A j \in Submissions : j # k => submitting'[j] = submitting[j]
    BY <1>3, <2>1 DEF Resolves, TypeOK
  <2>3. ASSUME NEW s \in Sessions, NEW i \in DOMAIN outcomes',
               capture_sessions'[s] # None,
               capture_sessions'[s].status = "awaiting_evidence"
        PROVE  outcomes'[i].session # s
    <3>1. s # submitting[k].session
      BY <2>2, <2>3
    <3> QED BY <1>3, <2>2, <2>3, <3>1, Resolved
  <2>4. ASSUME NEW j \in Submissions, NEW i \in DOMAIN outcomes',
               submitting'[j] # None, outcomes'[i].session = submitting'[j].session
        PROVE  submitting'[j].seen < i
    <3>1. submitting'[j] = submitting[j] /\ submitting[j] # None
      BY <2>2, <2>4
    <3>2. submitting[j].seen \in Nat /\ submitting[j].seen <= Len(outcomes)
      BY <3>1, InFlight
    <3> QED BY <1>3, <2>4, <3>1, <3>2, Resolved
  <2>5. ASSUME NEW i \in DOMAIN outcomes', NEW j \in DOMAIN outcomes',
               i < j, outcomes'[i].session = outcomes'[j].session
        PROVE  outcomes'[j].seen < i
    <3>1. i \in DOMAIN outcomes /\ outcomes'[i] = outcomes[i]
      BY <1>3, <2>5, Resolved
    <3>2. CASE j \in DOMAIN outcomes
      BY <1>3, <2>5, <3>1, <3>2, Resolved
    <3>3. CASE j = Len(outcomes) + 1
      BY <1>3, <2>1, <2>5, <3>1, <3>3, Resolved
    <3> QED BY <1>3, <3>2, <3>3, Resolved
  <2> QED BY <2>3, <2>4, <2>5
<1>4. ASSUME NEW k \in Submissions, Leaves(k) PROVE OverlapInv'
  BY <1>4 DEF Leaves, TypeOK
<1>5. CASE Restart
  BY <1>5 DEF Restart
<1>6. CASE (\E s \in Sessions : PollDelivers(s)) \/ Tick \/ UNCHANGED vars
  BY <1>6 DEF PollDelivers, Tick, vars
<1> QED
  BY <1>1, <1>2, <1>3, <1>4, <1>5, <1>6, CaptureSteps DEF CaptureStep, Denies, MintsPid

\* Only overlapping submissions resolve a session twice (main.rs 1571).
THEOREM CaptureOverlap == Spec => []OnlyOverlapResolvesTwice
<1>1. Init => DrawnInv /\ OverlapInv
  BY DEF Init, DrawnInv, OverlapInv, OnlyOverlapResolvesTwice
<1>2. OverlapInv => OnlyOverlapResolvesTwice
  BY DEF OverlapInv
<1> QED
  BY <1>1, <1>2, CaptureInit, CaptureStepType, StepDrawn, StepOverlap, PTL DEF Spec

-----------------------------------------------------------------------------
(* What a PID rests on.                                                    *)

\* A submission that mints was welded to its session and key, and both verdicts
\* were positive.
LEMMA MintRests ==
  ASSUME TypeOK, FlightInv, NEW k \in Submissions, NEW answer \in Answer, NEW session,
         MintsPid(k, session, answer)
  PROVE  LET m == PidOf(k, answer) IN
         /\ m \in Pid /\ m # None
         /\ m.session = submitting[k].session /\ m.boot = boot
         /\ m.attestation = submitting[k].attestation
         /\ m.holder = submitting[k].holder /\ m.at = submitting[k].at
         /\ m.attestation.nonce = m.session /\ m.attestation.holder = m.holder
         /\ m.attestation.sod_passive_auth /\ m.attestation.chip_authentic
         /\ m.attestation.liveness_matched
         /\ m.answer = [passed |-> TRUE, assurance_type |-> "genuine_presence"]
<1> DEFINE m == PidOf(k, answer)
           x == submitting[k]
           matched == PortraitMatchedLiveness(LivenessOk(x, answer),
                                              x.attestation.liveness_matched)
           verified == [x.attestation EXCEPT !.liveness_matched = matched]
<1>1. /\ x \in Snapshot /\ x # None /\ x.attestation \in Attestation
      /\ Welded(x) /\ KernelAllows(x, answer)
  BY InFlight DEF MintsPid, Resolves
<1>2. m \in Pid
  BY <1>1 DEF PidOf, Pid, Snapshot, TypeOK
<1>3. /\ PID_FROM_EMRTD_SD_JWT \in NfcPidProfiles
      /\ AuthorizeKernel(PID_FROM_EMRTD_SD_JWT, x.holder, x.session, None, verified, x.at).ok
  BY <1>1 DEF KernelAllows, NfcPidProfiles
<1>4. verified.sod_passive_auth /\ verified.chip_authentic /\ verified.liveness_matched
  <2> HIDE DEF verified
  <2> QED BY <1>3, ChipGate
<1>5. /\ x.attestation.sod_passive_auth /\ x.attestation.chip_authentic /\ matched
  BY <1>1, <1>4 DEF Attestation
<1>6. x.attestation.liveness_matched /\ answer.passed
      /\ answer.assurance_type = "genuine_presence"
  BY <1>5 DEF PortraitMatchedLiveness, LivenessOk, LivenessVerdict
<1>7. answer = [passed |-> TRUE, assurance_type |-> "genuine_presence"]
  BY <1>6 DEF Answer
<1>8. /\ m.session = x.session /\ m.boot = boot /\ m.attestation = x.attestation
      /\ m.holder = x.holder /\ m.at = x.at /\ m.answer = answer
  BY DEF PidOf
<1>9. x.attestation.nonce = x.session /\ x.attestation.holder = x.holder
  BY <1>1 DEF Welded
<1>10. m # None /\ m.at = x.at
  BY <1>2, NoneAssumption DEF PidOf
<1> QED BY <1>2, <1>5, <1>6, <1>7, <1>8, <1>9, <1>10

\* The steps that log no PID keep the PIDs there are.
LEMMA MintsKept ==
  ASSUME TypeOK, FlightInv, NEW k \in Submissions, NEW session, NEW pid,
         Resolves(k, session, pid)
  PROVE  /\ Mints \subseteq Mints' /\ \A i \in Mints : outcomes'[i] = outcomes[i]
         /\ \A i \in Mints' : i \in Mints \/ (i = Len(outcomes) + 1 /\ pid # None)
<1>1. \A i \in DOMAIN outcomes' : i \in DOMAIN outcomes \/ i = Len(outcomes) + 1
  BY Resolved
<1> QED BY <1>1, Resolved DEF Mints

\* An attestation of an earlier life names a session that is gone; one of this
\* life was spent: neither mints again (main.rs 1587-1653).
THEOREM StepMint ==
    TypeOK /\ FlightInv /\ DrawnInv /\ MintInv /\ [Next]_vars => MintInv'
<1> SUFFICES ASSUME TypeOK, FlightInv, DrawnInv, MintInv, [Next]_vars PROVE MintInv'
  OBVIOUS
<1>1. \A i \in Mints : /\ i \in DOMAIN outcomes /\ outcomes[i].session \in drawn
                       /\ outcomes[i].session \in Sessions
                       /\ outcomes[i].pid \in Pid
  <2>1. \A i \in DOMAIN outcomes : outcomes[i] \in Outcome
    BY ElementOfSeq, LenProperties DEF TypeOK
  <2> QED BY <2>1 DEF Mints, DrawnInv, Outcome
<1>2. boot \in Nat /\ \A i \in Mints : outcomes[i].pid.boot \in Nat
  BY <1>1, CaptureAssumption DEF TypeOK, Pid
<1>3. ASSUME NEW s \in Sessions, NEW key, NEW t, CreateSession(s, key, t)
      PROVE  MintInv'
  <2>1. Mints' = Mints /\ UNCHANGED <<boot, outcomes, binding_jtis>>
    BY <1>3 DEF CreateSession, Mints
  <2>2. \A i \in Mints : /\ outcomes[i].session # s
                         /\ capture_sessions'[outcomes[i].session] =
                               capture_sessions[outcomes[i].session]
    BY <1>1, <1>3 DEF CreateSession, TypeOK
  <2> QED BY <2>1, <2>2
      DEF MintInv, PidRestsOnPersonAndChip, AttestationMintsOnce
<1>4. ASSUME NEW k \in Submissions, Leaves(k) PROVE MintInv'
  <2>1. Mints' = Mints /\ UNCHANGED <<boot, outcomes, capture_sessions>>
        /\ binding_jtis \subseteq binding_jtis'
    BY <1>4 DEF Leaves, Mints
  <2> QED BY <2>1 DEF MintInv, PidRestsOnPersonAndChip, AttestationMintsOnce
<1>5. CASE \/ \E k \in Submissions, s \in Sessions, a \in Attestations : SubmitReads(k, s, a)
           \/ \E s \in Sessions : PollDelivers(s)
           \/ Tick \/ UNCHANGED vars
  <2>1. Mints' = Mints /\ UNCHANGED <<boot, outcomes, capture_sessions, binding_jtis>>
    BY <1>5 DEF SubmitReads, PollDelivers, Tick, vars, Mints
  <2> QED BY <2>1 DEF MintInv, PidRestsOnPersonAndChip, AttestationMintsOnce
<1>6. CASE Restart
  <2>1. Mints' = Mints /\ UNCHANGED outcomes /\ boot' = boot + 1
        /\ \A s \in Sessions : capture_sessions'[s] = None
    BY <1>6 DEF Restart, Mints
  <2>2. \A i \in Mints : outcomes[i].pid.boot < boot'
    BY <1>2, <2>1 DEF MintInv
  <2> QED BY <1>1, <1>2, <2>1, <2>2
      DEF MintInv, PidRestsOnPersonAndChip, AttestationMintsOnce
<1>7. ASSUME NEW k \in Submissions, NEW session, NEW pid, Resolves(k, session, pid)
      PROVE  /\ \A i \in Mints :
                   LET m == outcomes[i].pid IN
                   /\ m.boot = boot => /\ m.attestation.jti \in binding_jtis'
                                       /\ m.attestation.jti # submitting[k].attestation.jti
                   /\ m.boot < boot => /\ m.session # submitting[k].session
                                       /\ capture_sessions'[m.session] = None
             /\ submitting[k].attestation.jti \in binding_jtis'
             /\ UNCHANGED boot
  <2>1. /\ submitting[k].session \in Sessions
        /\ capture_sessions[submitting[k].session] # None
        /\ submitting[k].attestation.jti \notin binding_jtis
        /\ binding_jtis' = binding_jtis \cup {submitting[k].attestation.jti}
        /\ capture_sessions' = [capture_sessions EXCEPT ![submitting[k].session] = session]
        /\ UNCHANGED boot
    BY <1>7, InFlight DEF Resolves, SpendAttestation, FlightInv
  <2> QED BY <1>1, <2>1 DEF MintInv, TypeOK
<1>8. ASSUME NEW k \in Submissions, NEW session, Denies(k, session) PROVE MintInv'
  <2>1. Mints' = Mints /\ \A i \in Mints : outcomes'[i] = outcomes[i]
    BY <1>8, MintsKept DEF Denies
  <2> QED BY <1>7, <1>8, <2>1, SMTT(30)
      DEF Denies, MintInv, PidRestsOnPersonAndChip, AttestationMintsOnce
<1>9. ASSUME NEW k \in Submissions, NEW answer \in Answer, NEW session,
             MintsPid(k, session, answer)
      PROVE  MintInv'
  <2> DEFINE n == Len(outcomes) + 1
             m == PidOf(k, answer)
  <2>1. Resolves(k, session, m)
    BY <1>9 DEF MintsPid
  <2>2. /\ m.session = submitting[k].session /\ m.boot = boot
        /\ m.attestation = submitting[k].attestation
        /\ m.attestation.nonce = m.session /\ m.attestation.holder = m.holder
        /\ m.attestation.sod_passive_auth /\ m.attestation.chip_authentic
        /\ m.attestation.liveness_matched
        /\ m.answer = [passed |-> TRUE, assurance_type |-> "genuine_presence"]
    BY <1>9, MintRests
  <2>3. outcomes'[n].session = submitting[k].session /\ outcomes'[n].pid = m
    BY <2>1, Resolved
  <2>4. /\ \A i \in Mints : outcomes'[i] = outcomes[i]
        /\ \A i \in Mints' : i \in Mints \/ i = n
    BY <2>1, MintsKept
  <2>5. /\ submitting[k].attestation.jti \in binding_jtis' /\ UNCHANGED boot
        /\ \A i \in Mints :
              LET o == outcomes[i].pid IN
              /\ o.boot = boot => /\ o.attestation.jti \in binding_jtis'
                                  /\ o.attestation.jti # submitting[k].attestation.jti
              /\ o.boot < boot => /\ o.session # submitting[k].session
                                  /\ capture_sessions'[o.session] = None
    BY <1>7, <2>1
  <2> HIDE DEF m, n
  <2>6. PidRestsOnPersonAndChip'
    BY <2>2, <2>3, <2>4 DEF MintInv, PidRestsOnPersonAndChip
  <2>7. \A i \in Mints' :
           LET o == outcomes'[i].pid IN
           /\ o.session = outcomes'[i].session /\ o.boot <= boot'
           /\ o.boot = boot' => o.attestation.jti \in binding_jtis'
           /\ o.boot < boot' => capture_sessions'[o.session] = None
    BY <1>2, <2>2, <2>3, <2>4, <2>5 DEF MintInv
  <2>8. ASSUME NEW i \in Mints
        PROVE  LET o == outcomes[i].pid IN
               /\ o.attestation # m.attestation
               /\ o.boot = m.boot => o.attestation.jti # m.attestation.jti
    <3>1. CASE outcomes[i].pid.boot = boot
      BY <2>2, <2>5, <3>1
    <3>2. CASE outcomes[i].pid.boot < boot
      <4>1. outcomes[i].pid.attestation.nonce = outcomes[i].pid.session
        BY DEF MintInv, PidRestsOnPersonAndChip
      <4> QED BY <1>2, <2>2, <2>5, <3>2, <4>1
    <3> QED BY <1>2, <3>1, <3>2 DEF MintInv
  <2>9. AttestationMintsOnce'
    BY <2>3, <2>4, <2>8 DEF MintInv, AttestationMintsOnce
  <2> QED BY <2>6, <2>7, <2>9 DEF MintInv
<1> QED BY <1>3, <1>4, <1>5, <1>6, <1>8, <1>9, CaptureSteps DEF CaptureStep

\* A PID rests on a whole chip read and on the issuer's own positive answer
\* about the person (main.rs 1587-1653).
THEOREM CaptureRests == Spec => []PidRestsOnPersonAndChip
<1>1. Init => DrawnInv /\ MintInv
  BY DEF Init, DrawnInv, MintInv, Mints, PidRestsOnPersonAndChip, AttestationMintsOnce
<1>2. MintInv => PidRestsOnPersonAndChip
  BY DEF MintInv
<1> QED
  BY <1>1, <1>2, CaptureInit, CaptureStepType, StepDrawn, StepMint, PTL DEF Spec

\* An attestation mints once, also across restarts (main.rs 1632-1639).
THEOREM CaptureMintsOnce == Spec => []AttestationMintsOnce
<1>1. Init => DrawnInv /\ MintInv
  BY DEF Init, DrawnInv, MintInv, Mints, PidRestsOnPersonAndChip, AttestationMintsOnce
<1>2. MintInv => AttestationMintsOnce
  BY DEF MintInv
<1> QED
  BY <1>1, <1>2, CaptureInit, CaptureStepType, StepDrawn, StepMint, PTL DEF Spec

-----------------------------------------------------------------------------
(* What a wallet polls.                                                    *)

\* A PID stays what it is for its session when the PIDs are kept and the
\* session, if it is still there, has the key and the expiry it had.
LEMMA IsOfKept ==
  ASSUME NEW credential, NEW s \in Sessions, IsOf(credential, s),
         \A i \in Mints : i \in Mints' /\ outcomes'[i] = outcomes[i],
         capture_sessions'[s] # None =>
            /\ capture_sessions[s] # None
            /\ capture_sessions'[s].holder = capture_sessions[s].holder
            /\ capture_sessions'[s].expires_at = capture_sessions[s].expires_at
  PROVE  IsOf(credential, s)'
  BY DEF IsOf

\* The key and the expiry of a session never change, and only a PID of a session
\* is stored in it (get_pid_capture_session, main.rs 1491-1523).
THEOREM StepDelivery ==
    TypeOK /\ FlightInv /\ DrawnInv /\ DeliveryInv /\ [Next]_vars => DeliveryInv'
<1> SUFFICES ASSUME TypeOK, FlightInv, DrawnInv, DeliveryInv, [Next]_vars
             PROVE  DeliveryInv'
  OBVIOUS
<1>1. ASSUME \A i \in Mints : i \in Mints' /\ outcomes'[i] = outcomes[i],
             \A s \in Sessions : capture_sessions'[s] # None =>
                /\ capture_sessions[s] # None
                /\ capture_sessions'[s].holder = capture_sessions[s].holder
                /\ capture_sessions'[s].expires_at = capture_sessions[s].expires_at,
             \A s \in Sessions : \A c :
                capture_sessions'[s] # None /\ capture_sessions'[s].credential = c
                /\ c # None => c = capture_sessions[s].credential \/ IsOf(c, s)',
             \A d \in delivered' : d \in delivered \/ IsOf(d.credential, d.session)'
      PROVE  DeliveryInv'
  <2>1. \A d \in delivered : d.session \in Sessions
    BY DEF TypeOK
  <2> QED BY <1>1, <2>1, IsOfKept DEF DeliveryInv
<1>2. ASSUME NEW s \in Sessions, NEW key, NEW t, CreateSession(s, key, t)
      PROVE  DeliveryInv'
  <2>1. /\ UNCHANGED <<outcomes, delivered>> /\ Mints' = Mints
        /\ capture_sessions'[s].credential = None
        /\ \A r \in Sessions : r # s => capture_sessions'[r] = capture_sessions[r]
        /\ \A d \in delivered : d.session # s /\ d.session \in Sessions
    BY <1>2 DEF CreateSession, DrawnInv, TypeOK, Mints
  <2>2. ASSUME NEW c, NEW r \in Sessions, r # s, IsOf(c, r) PROVE IsOf(c, r)'
    BY <2>1, <2>2, IsOfKept
  <2> QED BY <2>1, <2>2 DEF DeliveryInv
<1>3. ASSUME NEW s \in Sessions, PollDelivers(s) PROVE DeliveryInv'
  <2>1. /\ UNCHANGED <<outcomes, capture_sessions>> /\ Mints' = Mints
        /\ IsOf(capture_sessions[s].credential, s)
    BY <1>3 DEF PollDelivers, Mints, DeliveryInv
  <2>2. ASSUME NEW d \in delivered', d \notin delivered PROVE IsOf(d.credential, d.session)'
    <3>1. d.session = s /\ d.credential = capture_sessions[s].credential
      BY <1>3, <2>2 DEF PollDelivers
    <3>2. IsOf(d.credential, s)
      BY <2>1, <3>1
    <3> QED BY <2>1, <3>1, <3>2, IsOfKept
  <2> QED BY <1>1, <2>1, <2>2
<1>4. ASSUME NEW k \in Submissions, NEW session, NEW pid, Resolves(k, session, pid),
             \/ session.credential = capture_sessions[submitting[k].session].credential
             \/ \A s : s = submitting[k].session => IsOf(session.credential, s)'
      PROVE  DeliveryInv'
  <2>1. /\ submitting[k].session \in Sessions
        /\ capture_sessions[submitting[k].session] # None
    BY <1>4, InFlight DEF Resolves, FlightInv
  <2>2. /\ capture_sessions'[submitting[k].session] = session
        /\ session.holder = capture_sessions[submitting[k].session].holder
        /\ session.expires_at = capture_sessions[submitting[k].session].expires_at
        /\ \A s \in Sessions : s # submitting[k].session =>
              capture_sessions'[s] = capture_sessions[s]
        /\ delivered' = delivered
    BY <1>4, <2>1 DEF Resolves, TypeOK
  <2>3. \A i \in Mints : i \in Mints' /\ outcomes'[i] = outcomes[i]
    BY <1>4, MintsKept
  <2> QED BY <1>1, <1>4, <2>1, <2>2, <2>3
<1>5. ASSUME NEW k \in Submissions, NEW answer \in Answer, NEW session,
             MintsPid(k, session, answer)
      PROVE  \A s : s = submitting[k].session => IsOf(session.credential, s)'
  <2> DEFINE m == PidOf(k, answer)
             n == Len(outcomes) + 1
  <2>1. /\ m # None /\ m.session = submitting[k].session
        /\ m.holder = submitting[k].holder /\ m.at = submitting[k].at
    BY <1>5, MintRests
  <2>2. Resolves(k, session, m) /\ session.credential = m
    BY <1>5 DEF MintsPid
  <2>3. outcomes'[n].pid = m /\ n \in DOMAIN outcomes'
    BY <2>2, Resolved
  <2>4. /\ submitting[k].session \in Sessions
        /\ capture_sessions'[submitting[k].session].holder = submitting[k].holder
        /\ submitting[k].at <= capture_sessions'[submitting[k].session].expires_at
    BY <2>2, InFlight DEF Resolves, TypeOK
  <2> HIDE DEF m, n
  <2>5. n \in Mints'
    BY <2>1, <2>3 DEF Mints
  <2> QED BY <2>1, <2>2, <2>3, <2>4, <2>5 DEF IsOf
<1>6. ASSUME NEW k \in Submissions, Leaves(k) PROVE DeliveryInv'
  BY <1>1, <1>6 DEF Leaves, Mints
<1>7. CASE \/ \E k \in Submissions, s \in Sessions, a \in Attestations : SubmitReads(k, s, a)
           \/ Tick \/ UNCHANGED vars
  BY <1>1, <1>7 DEF SubmitReads, Tick, vars, Mints
<1>8. CASE Restart
  <2>1. Mints' = Mints /\ UNCHANGED <<outcomes, delivered>>
        /\ \A s \in Sessions : capture_sessions'[s] = None
    BY <1>8 DEF Restart, Mints
  <2> QED BY <1>1, <2>1
<1> QED
  BY <1>2, <1>3, <1>4, <1>5, <1>6, <1>7, <1>8, CaptureSteps DEF CaptureStep, Denies, MintsPid

\* A wallet polls a PID of its session, for the session's key (main.rs 1491-1523).
THEOREM CaptureDelivers == Spec => []DeliveredPidIsOfSession
<1>1. Init => DrawnInv /\ DeliveryInv
  BY DEF Init, DrawnInv, DeliveryInv
<1>2. DeliveryInv => DeliveredPidIsOfSession
  BY DEF DeliveryInv, IsOf, DeliveredPidIsOfSession
<1> QED
  BY <1>1, <1>2, CaptureInit, CaptureStepType, StepDrawn, StepDelivery, PTL DEF Spec
=============================================================================
