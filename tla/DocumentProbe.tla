--------------------------- MODULE DocumentProbe ---------------------------
(***************************************************************************)
(* Reads one travel document on every day around the days that matter for  *)
(* it, and makes credentials of it.  The calendar of this module is kept   *)
(* by hand, a day at a time, from an instant whose date is known: it       *)
(* shares nothing with the conversion the code uses.                       *)
(***************************************************************************)
EXTENDS CredentialContents

CONSTANTS Anchors,      \* dates, each with the days from 1970-01-01 to it
          WalkedDays    \* days probed from an anchor

ASSUME DocumentAssumption ==
    /\ Anchors \subseteq [date : Nat \X (1..12) \X (1..31), days : Nat]
    /\ \A a \in Anchors : a.date = CivilOf(a.days)
    /\ WalkedDays \in Nat

VARIABLES
    anchor,    \* where the walk began
    document,  \* the machine-readable zone of the document
    now,       \* the clock
    date,      \* what a calendar on the wall shows
    age,       \* how many birthdays the holder has had
    past,      \* has the date of expiry gone by?
    held       \* the credentials last made, each for a profile

documentVars == <<anchor, document, now, date, age, past, held>>

Holder == "holder"
Evidence == "notarised"
Panic == <<>>

\* What the kernel decides for the demonstration mandate.
DemoDecision == [granted_powers |-> DEMO_MANDATE_POWERS, on_behalf_of |-> "delegator"]

-----------------------------------------------------------------------------
(* The calendar on the wall.                                               *)

Leap(year) == year % 4 = 0 /\ (year % 100 # 0 \/ year % 400 = 0)

MonthDays(year, month) ==
    CASE month = 2 -> IF Leap(year) THEN 29 ELSE 28
      [] month \in {4, 6, 9, 11} -> 30
      [] OTHER -> 31

NextDate(d) ==
    IF d[3] < MonthDays(d[1], d[2]) THEN <<d[1], d[2], d[3] + 1>>
    ELSE IF d[2] < 12 THEN <<d[1], d[2] + 1, 1>> ELSE <<d[1] + 1, 1, 1>>

\* One born on a leap day is a year older on the first of March of a common year.
Birthday(birth, d) ==
    \/ birth[2] = d[2] /\ birth[3] = d[3]
    \/ birth[2] = 2 /\ birth[3] = 29 /\ d[2] = 3 /\ d[3] = 1 /\ ~Leap(d[1])

\* Eighteen in the year of the walk, or in the year before or after it.
BirthDates(year) ==
    {<<year - 18, 2, 28>>, <<year - 18, 3, 1>>, <<year - 18, 12, 31>>,
     <<year - 17, 1, 1>>, <<year - 19, 12, 31>>, <<>>}
       \cup (IF Leap(year - 18) THEN {<<year - 18, 2, 29>>} ELSE {})

ExpiryDates(year) ==
    {<<year, 1, 1>>, <<year, 2, 28>>, <<year, 12, 31>>, <<year + 1, 1, 1>>, <<>>}
       \cup (IF Leap(year) THEN {<<year, 2, 29>>} ELSE {})

\* Has the year d is in already shown the month and the day of e, or more?
ShownBy(d, e) == d[2] > e[2] \/ (d[2] = e[2] /\ d[3] >= e[3])

AgeOn(birth, d) == d[1] - birth[1] - (IF ShownBy(d, birth) THEN 0 ELSE 1)

PastOn(expiry, d) ==
    d[1] > expiry[1] \/ (d[1] = expiry[1] /\ ShownBy(d, expiry) /\ d # expiry)

DocumentInit ==
    /\ anchor \in Anchors
    /\ now = anchor.days * SecondsPerDay
    /\ date = anchor.date
    /\ document \in [person : {"holder"}, birthdate : BirthDates(date[1]),
                     expiry : ExpiryDates(date[1])]
    /\ age = IF document.birthdate = <<>> THEN 0 ELSE AgeOn(document.birthdate, date)
    /\ past = (document.expiry # <<>> /\ PastOn(document.expiry, date))
    /\ held = {}

-----------------------------------------------------------------------------

\* The clock ticks; at midnight the calendar turns.  A credential no longer
\* valid is thrown away.
Tick ==
    LET midnight == (now + 1) % SecondsPerDay = 0
    IN  /\ now + 1 < (anchor.days + WalkedDays) * SecondsPerDay
        /\ now' = now + 1
        /\ date' = IF midnight THEN NextDate(date) ELSE date
        /\ age' = IF midnight /\ document.birthdate # <<>>
                     /\ Birthday(document.birthdate, NextDate(date))
                  THEN age + 1 ELSE age
        /\ past' = (past \/ (midnight /\ document.expiry = date))
        /\ held' = {c \in held : c.contents = Panic \/ now' < c.contents.validity.exp}
        /\ UNCHANGED <<anchor, document>>

\* What the encoder of a profile makes, given the claims of a PID read.
Made(profile, pid) ==
    IF profile \notin Arms(Encoder(profile))
         \/ (Encoder(profile) # "issue_hybrid_credential" /\ profile \notin CredentialSigners)
    THEN Panic
    ELSE CASE Encoder(profile) = "issue_mdoc" -> MdocContents(profile, Holder, now, pid)
           [] Encoder(profile) = "issue_mandate_sd_jwt" ->
                 MandateContents(Holder, DemoDecision, now)
           [] Encoder(profile) = "issue_hybrid_credential" -> HybridContents(Holder, now)
           [] OTHER -> SdJwtContents(profile, Holder, now, Evidence, pid)

MakeAll(profiles, pid) ==
    /\ held' = {[profile |-> p, contents |-> Made(p, pid)] : p \in profiles}
    /\ UNCHANGED <<anchor, document, now, date, age, past>>

\* credential, for a profile it has an encoder for and the flow authorizes.
Make(profile) == MakeAll({profile}, None)

\* A document is read, and is not expired: one PID from the credential
\* endpoint, or one in each format from a capture.
MakePid(profiles, portrait) ==
    /\ ~is_expired_document(document.expiry, now)
    /\ MakeAll(profiles, PidSubjectClaims(document, portrait, now))

DocumentNext ==
    \/ Tick
    \/ \E p \in Profiles \ (NfcPidProfiles \cup {DEV_SVIPE_PID_SD_JWT}) : Make(p)
    \/ \E ps \in {{PID_FROM_EMRTD_SD_JWT}, NfcPidProfiles}, portrait \in Portraits :
          MakePid(ps, portrait)

DocumentSpec == DocumentInit /\ [][DocumentNext]_documentVars

-----------------------------------------------------------------------------
(* Properties.                                                             *)

\* A document says its holder is of age from the eighteenth birthday on and
\* never when the birth date cannot be read, and expires with the end of the
\* day it names or when that date cannot be read: on every calendar day and at
\* both ends of it (age_over_18 and is_expired_document, main.rs 2885-2902 and
\* 3054-3071).
DatesReadExactly ==
    /\ age_over_18(document.birthdate, now) <=> document.birthdate # <<>> /\ age >= 18
    /\ is_expired_document(document.expiry, now) <=> document.expiry = <<>> \/ past

\* While they are valid, the PIDs made of a read document name the person and
\* the birth date read, claim no age the holder has not reached, carry the
\* portrait when it can be used, and the two formats of one capture say the
\* same of the same holder for the same time (issue_sd_jwt, issue_mdoc and
\* decode_portrait_bytes, main.rs 3641-3746 and 3836-4075).
HeldPidTrue ==
    \A c \in held : c.profile \in NfcPidProfiles /\ c.contents # Panic =>
        LET subject == c.contents.subject
        IN  /\ subject.person = document.person
            /\ subject.birthdate = document.birthdate
            /\ subject.age_over_18 => age >= 18
            /\ \A e \in held : /\ e.contents.cnf = c.contents.cnf
                                /\ e.contents.validity = c.contents.validity
                                /\ e.contents.subject.age_over_18 = subject.age_over_18
                                /\ (e.contents.subject.portrait = "image")
                                      = (subject.portrait = "image")

\* A profile the flow authorizes and the dispatch of credential or of a capture
\* accepts has a signer made at start-up and an arm in its encoder, and its
\* credential says it is bound to a PID exactly when the flow has asked for
\* one (main.rs 537-560, 2389-2518, 3397-3405 and the encoders).
EncodersServe ==
    \A c \in held :
        /\ c.contents # Panic
        /\ c.contents.bound_to_pid <=> c.profile \in PidBoundProfiles
=============================================================================
