------------------------- MODULE CredentialContents -------------------------
(***************************************************************************)
(* What the credentials say: the dates of a read document                  *)
(* (verify_emrtd_evidence and its two calendar functions), the claims and  *)
(* the validity the encoders put into an SD-JWT, a mandate and an mdoc,    *)
(* and which encoder and which signer serve a profile.                     *)
(*                                                                         *)
(* A date is <<year, month, day>>, and <<>> a string that is none.  Names, *)
(* salts, digests and the layout are left out; a portrait is known by what *)
(* a decoder makes of it.                                                  *)
(***************************************************************************)
EXTENDS IssuerKernel

CONSTANTS SecondsPerDay,   \* ticks of the clock in a day
          ShortLife,       \* the hour a credential is valid, in ticks
          MandateLife      \* the quarter of an hour a mandate is, in ticks

ASSUME ContentsAssumption ==
    SecondsPerDay \in Nat \ {0} /\ ShortLife \in Nat /\ MandateLife \in Nat

-----------------------------------------------------------------------------
(* Dates.                                                                  *)

\* External: the time crate, from days since 1970-01-01 to a civil date.
CivilOf(days) ==
    LET z == days + 719468
        era == z \div 146097
        doe == z % 146097
        yoe == (doe - doe \div 1460 + doe \div 36524 - doe \div 146096) \div 365
        doy == doe - (365 * yoe + yoe \div 4 - yoe \div 100)
        mp == (5 * doy + 2) \div 153
        month == IF mp < 10 THEN mp + 3 ELSE mp - 9
    IN  <<yoe + era * 400 + (IF month <= 2 THEN 1 ELSE 0), month,
          doy - (153 * mp + 2) \div 5 + 1>>

Today(now) == CivilOf(now \div SecondsPerDay)

\* The order of Rust's tuples.
Earlier(a, b) ==
    \/ a[1] < b[1]
    \/ a[1] = b[1] /\ a[2] < b[2]
    \/ a[1] = b[1] /\ a[2] = b[2] /\ a[3] < b[3]

\* Mutant: the birthday itself does not count.
AgeOver18AfterBirthday(birthdate, now) ==
    birthdate # <<>> /\ Earlier(<<birthdate[1] + 18, birthdate[2], birthdate[3]>>, Today(now))

age_over_18(birthdate, now) ==
    birthdate # <<>> /\ ~Earlier(Today(now), <<birthdate[1] + 18, birthdate[2], birthdate[3]>>)

\* Mutant: a date that does not parse never expires.
NeverExpires(expiry, now) == expiry # <<>> /\ Earlier(expiry, Today(now))

is_expired_document(expiry, now) == expiry = <<>> \/ Earlier(expiry, Today(now))

-----------------------------------------------------------------------------
(* Claims.                                                                 *)

\* The four kinds of portrait a reader sends; a blank one counts as none.
Portraits == {"absent", "blank", "image", "garbage"}

\* PidSubjectClaims of the document, as verify_emrtd_evidence reduces it.
PidSubjectClaims(mrz, portrait, now) ==
    [person |-> mrz.person, birthdate |-> mrz.birthdate,
     age_over_18 |-> age_over_18(mrz.birthdate, now),
     portrait |-> IF portrait = "blank" THEN "absent" ELSE portrait]

\* The constants of the demonstration PID.
DemoPid == [person |-> "erika", birthdate |-> <<1990, 1, 1>>, age_over_18 |-> TRUE,
            portrait |-> "absent"]

\* decode_portrait_bytes: what does not decode is sent as empty bytes.
DecodedPortrait(portrait) == IF portrait = "image" THEN "image" ELSE "empty"

Validity(now) == [iat |-> now, exp |-> now + ShortLife]

\* issue_sd_jwt.
SdJwtContents(profile, holder, now, tlsn, pid) ==
    [format |-> "sd-jwt", cnf |-> holder, validity |-> Validity(now),
     subject |-> CASE profile \in {PID_SD_JWT, DEV_SVIPE_PID_SD_JWT} -> DemoPid
                   [] profile = PID_FROM_EMRTD_SD_JWT -> pid
                   [] OTHER -> None,
     evidence |-> IF profile = TLSN_EVIDENCE_SD_JWT THEN tlsn ELSE None,
     scope |-> {}, mandator |-> None,
     bound_to_pid |-> profile = QEAA_PID_BOUND_SD_JWT]

\* mandate_sd_jwt_payload, of what the kernel decided.
MandateContents(holder, decision, now) ==
    [format |-> "sd-jwt", cnf |-> holder,
     validity |-> [iat |-> now, exp |-> now + MandateLife],
     subject |-> None, evidence |-> None,
     scope |-> PowersToScopeUrns(decision.granted_powers),
     mandator |-> decision.on_behalf_of, bound_to_pid |-> TRUE]

\* Mutant: the mdoc is written from the demonstration constants.
MdocContentsOfDemo(profile, holder, now, pid) ==
    [format |-> "mdoc", cnf |-> holder, validity |-> Validity(now), subject |-> DemoPid,
     evidence |-> None, scope |-> {}, mandator |-> None, bound_to_pid |-> FALSE]

\* issue_mdoc.
MdocContents(profile, holder, now, pid) ==
    [format |-> "mdoc", cnf |-> holder, validity |-> Validity(now),
     subject |-> CASE profile = PID_FROM_EMRTD_MDOC -> [pid EXCEPT !.portrait = DecodedPortrait(@)]
                   [] profile = EAA_MDOC -> [DemoPid EXCEPT !.age_over_18 = None]
                   [] OTHER -> DemoPid,
     evidence |-> None, scope |-> {}, mandator |-> None, bound_to_pid |-> FALSE]

\* issue_hybrid_credential, inside the envelope.
HybridContents(holder, now) ==
    [format |-> "hybrid", cnf |-> holder, validity |-> Validity(now), subject |-> None,
     evidence |-> None, scope |-> {}, mandator |-> None, bound_to_pid |-> FALSE]

-----------------------------------------------------------------------------
(* Dispatch.                                                               *)

\* The encoder credential and submit_pid_capture_evidence call for a profile.
Encoder(profile) ==
    CASE profile \in {PID_SD_JWT, PID_FROM_EMRTD_SD_JWT, QEAA_SD_JWT,
                      QEAA_PID_BOUND_SD_JWT, TLSN_EVIDENCE_SD_JWT} -> "issue_sd_jwt"
      [] profile = HYBRID_PQ_SD_JWT -> "issue_hybrid_credential"
      [] profile \in {PID_MDOC, EAA_MDOC, PID_FROM_EMRTD_MDOC} -> "issue_mdoc"
      [] profile = MANDATE_SD_JWT -> "issue_mandate_sd_jwt"
      [] OTHER -> "none"

\* Mutant: the list of signers made at start-up lacks the capture's mdoc.
CredentialSignersOfScope == Profiles \ {HYBRID_PQ_SD_JWT, PID_FROM_EMRTD_MDOC}

\* The profiles main makes a signer for; the hybrid one has its own.
CredentialSigners == Profiles \ {HYBRID_PQ_SD_JWT}

\* The profiles an encoder has an arm for; it panics on any other.
Arms(encoder) ==
    CASE encoder = "issue_sd_jwt" ->
            {PID_SD_JWT, DEV_SVIPE_PID_SD_JWT, PID_FROM_EMRTD_SD_JWT, QEAA_SD_JWT,
             QEAA_PID_BOUND_SD_JWT, TLSN_EVIDENCE_SD_JWT}
      [] encoder = "issue_mdoc" -> {PID_FROM_EMRTD_MDOC, PID_MDOC, EAA_MDOC}
      [] encoder = "issue_mandate_sd_jwt" -> {MANDATE_SD_JWT}
      [] encoder = "issue_hybrid_credential" -> {HYBRID_PQ_SD_JWT}
      [] OTHER -> {}
=============================================================================
