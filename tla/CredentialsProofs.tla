------------------------- MODULE CredentialsProofs -------------------------
(***************************************************************************)
(* Theorems about DocumentProbe and EnvelopeProbe, for every value of      *)
(* their constants: any days of any year, any number of changes to a       *)
(* message.  MCSpec, which TLC checks, behaves as both.                    *)
(***************************************************************************)
EXTENDS MCCredentials, TLAPS

-----------------------------------------------------------------------------
(* The calendar.                                                           *)

\* Day d of the year k of the four years q of the century c of an era of four
\* hundred years, all counted from the first of March of the year 0.
DayIn(c, q, k, d) ==
    /\ c \in 0..3 /\ q \in 0..24 /\ k \in 0..3 /\ d \in 0..365
    /\ d = 365 => k = 3 /\ (q # 24 \/ c = 3)
DoeOf(c, q, k, d) == 36524 * c + 1461 * q + 365 * k + d

\* The steps of the division of an era into its years.
InEra(doe) == doe \in Int /\ 0 <= doe /\ doe <= 146096
InCentury(doe, c, r) ==
    /\ c \in Int /\ r \in Int /\ doe = 36524 * c + r
    /\ 0 <= c /\ c <= 3 /\ 0 <= r /\ r <= 36524 /\ (r = 36524 => c = 3)
InFourYears(r, q, s) ==
    /\ q \in Int /\ s \in Int /\ r = 1461 * q + s
    /\ 0 <= q /\ q <= 24 /\ 0 <= s /\ s <= 1460 /\ (s = 1460 /\ q = 24 => r = 36524)
InYear(s, k, d) ==
    /\ k \in Int /\ d \in Int /\ s = 365 * k + d
    /\ 0 <= k /\ k <= 3 /\ 0 <= d /\ d <= 365 /\ (d = 365 => k = 3 /\ s = 1460)

\* A day of an era is a day of one of its four centuries, the last a day longer
\* (CivilOf, for the time crate main.rs 2885-2902 uses).
LEMMA CenturyOf == ASSUME NEW doe, InEra(doe) PROVE \E c, r : InCentury(doe, c, r)
<1>0. doe \in Int /\ 0 <= doe /\ doe <= 146096
  BY SMT DEF InEra
<1>1. doe < 36524 => InCentury(doe, 0, doe)
  BY <1>0, SMT DEF InCentury
<1>2. 36524 <= doe /\ doe < 73048 => InCentury(doe, 1, doe - 36524)
  BY <1>0, SMT DEF InCentury
<1>3. 73048 <= doe /\ doe < 109572 => InCentury(doe, 2, doe - 73048)
  BY <1>0, SMT DEF InCentury
<1>4. 109572 <= doe => InCentury(doe, 3, doe - 109572)
  BY <1>0, SMT DEF InCentury
<1> QED BY <1>0, <1>1, <1>2, <1>3, <1>4, SMT

\* A day of a century is a day of one of its 25 groups of four years.
LEMMA FourYearsOf == ASSUME NEW doe, NEW c, NEW r, InCentury(doe, c, r)
                     PROVE \E q, s : InFourYears(r, q, s)
<1>0. r \in Int /\ 0 <= r /\ r <= 36524
  BY SMT DEF InCentury
<1>1. InFourYears(r, r \div 1461, r - 1461 * (r \div 1461))
  BY <1>0, SMT DEF InFourYears
<1> QED BY <1>1, SMT

\* A day of four years is a day of one of them, the last a day longer.
LEMMA YearOf == ASSUME NEW r, NEW q, NEW s, InFourYears(r, q, s)
                PROVE \E k, d : InYear(s, k, d)
<1>0. s \in Int /\ 0 <= s /\ s <= 1460
  BY SMT DEF InFourYears
<1>1. s < 365 => InYear(s, 0, s)
  BY <1>0, SMT DEF InYear
<1>2. 365 <= s /\ s < 730 => InYear(s, 1, s - 365)
  BY <1>0, SMT DEF InYear
<1>3. 730 <= s /\ s < 1095 => InYear(s, 2, s - 730)
  BY <1>0, SMT DEF InYear
<1>4. 1095 <= s => InYear(s, 3, s - 1095)
  BY <1>0, SMT DEF InYear
<1> QED BY <1>0, <1>1, <1>2, <1>3, <1>4, SMT

\* Every day of an era is some day of some year of it.
LEMMA DoeSplit == ASSUME NEW doe, InEra(doe)
  PROVE \E c, q, k, d : DayIn(c, q, k, d) /\ doe = DoeOf(c, q, k, d)
<1>1. PICK c, r : InCentury(doe, c, r)
  BY CenturyOf, Zenon
<1>2. PICK q, s : InFourYears(r, q, s)
  BY <1>1, FourYearsOf, Zenon
<1>3. PICK k, d : InYear(s, k, d)
  BY <1>2, YearOf, Zenon
<1>4. DayIn(c, q, k, d)
  BY <1>1, <1>2, <1>3, SMT DEF DayIn, InCentury, InFourYears, InYear
<1>5. doe = DoeOf(c, q, k, d)
  BY <1>1, <1>2, <1>3, SMT DEF DoeOf, InCentury, InFourYears, InYear
<1> QED BY <1>4, <1>5, Zenon

\* Days before year y of an era, and the year CivilOf finds for a day.
YearStart(y) == 365 * y + y \div 4 - y \div 100
Yoe(doe) == (doe - doe \div 1460 + doe \div 36524 - doe \div 146096) \div 365

\* The year CivilOf finds is the one the day is in.
LEMMA YoeOf == ASSUME NEW c, NEW q, NEW k, NEW d, DayIn(c, q, k, d)
  PROVE /\ Yoe(DoeOf(c, q, k, d)) = 100 * c + 4 * q + k
        /\ DoeOf(c, q, k, d) - YearStart(100 * c + 4 * q + k) = d
<1> DEFINE doe == DoeOf(c, q, k, d)
<1>0. /\ c \in 0..3 /\ q \in 0..24 /\ k \in 0..3 /\ d \in 0..365
      /\ d = 365 => k = 3 /\ (q # 24 \/ c = 3)
  BY SMT DEF DayIn
<1>1. doe \div 36524 - doe \div 146096 = c
  BY <1>0, SMT DEF DoeOf
<1>3. PICK e \in {0, 1} : doe \div 1460 = 25 * c + q + e /\ d - e \in 0..364
  BY <1>0, SMT DEF DoeOf
<1>4. doe - doe \div 1460 + doe \div 36524 - doe \div 146096 = 365 * (100 * c + 4 * q + k) + (d - e)
  BY <1>0, <1>1, <1>3, SMT DEF DoeOf
<1>5. (365 * (100 * c + 4 * q + k) + (d - e)) \div 365 = 100 * c + 4 * q + k
  BY <1>0, <1>3, SMT
<1>6. Yoe(doe) = 100 * c + 4 * q + k
  BY <1>4, <1>5, SMT DEF Yoe
<1>7. YearStart(100 * c + 4 * q + k) = 365 * (100 * c + 4 * q + k) + 24 * c + q
  BY <1>0, SMT DEF YearStart
<1>8. doe - YearStart(100 * c + 4 * q + k) = d
  BY <1>0, <1>7, SMT DEF DoeOf
<1> QED BY <1>6, <1>8, SMT

\* The date of day d of the year that begins in March of the year y; the same for
\* the year yoe of an era.
CivilFrom(y, d) ==
    LET mp == (5 * d + 2) \div 153
        month == IF mp < 10 THEN mp + 3 ELSE mp - 9
    IN  <<y + (IF month <= 2 THEN 1 ELSE 0), month, d - (153 * mp + 2) \div 5 + 1>>
CivilWith(yoe, era, d) ==
    LET mp == (5 * d + 2) \div 153
        month == IF mp < 10 THEN mp + 3 ELSE mp - 9
    IN  <<yoe + era * 400 + (IF month <= 2 THEN 1 ELSE 0), month,
          d - (153 * mp + 2) \div 5 + 1>>

\* Days from 1970-01-01, split.
DayOf(days, era, c, q, k, d) ==
    /\ days \in Nat /\ era \in Nat /\ DayIn(c, q, k, d)
    /\ days + 719468 = 146097 * era + DoeOf(c, q, k, d)
YearOfEra(era, c, q, k) == 400 * era + 100 * c + 4 * q + k

\* Every day from 1970 on can be split.
LEMMA DaySplit == ASSUME NEW days \in Nat
  PROVE \E era, c, q, k, d : DayOf(days, era, c, q, k, d)
<1> DEFINE z == days + 719468
           era == z \div 146097
           doe == z - 146097 * era
<1>1. era \in Nat /\ z = 146097 * era + doe
  BY SMT
<1>e. InEra(doe)
  BY SMT DEF InEra
<1> HIDE DEF era, doe
<1>2. PICK c, q, k, d : DayIn(c, q, k, d) /\ doe = DoeOf(c, q, k, d)
  BY <1>e, DoeSplit, Zenon
<1>3. days + 719468 = 146097 * era + DoeOf(c, q, k, d)
  BY <1>1, <1>2, SMT
<1>4. DayOf(days, era, c, q, k, d)
  BY <1>1, <1>2, <1>3, SMT DEF DayOf
<1> QED BY <1>4, Zenon

\* CivilOf is the date of the day of the year it was split into.
LEMMA CivilParts ==
  ASSUME NEW days, NEW era, NEW c, NEW q, NEW k, NEW d, DayOf(days, era, c, q, k, d)
  PROVE  CivilOf(days) = CivilFrom(YearOfEra(era, c, q, k), d)
<1> DEFINE z == days + 719468
           doe == DoeOf(c, q, k, d)
<1>0. /\ days \in Nat /\ era \in Nat /\ DayIn(c, q, k, d)
      /\ z = 146097 * era + doe
  BY SMT DEF DayOf
<1>1. doe \in Int /\ 0 <= doe /\ doe <= 146096
  BY <1>0, SMT DEF DayIn, DoeOf
<1>2. z \div 146097 = era /\ z % 146097 = doe
  <2> HIDE DEF z, doe
  <2> QED BY <1>0, <1>1, SMT
<1>3. CivilOf(days) = CivilWith(Yoe(z % 146097), z \div 146097,
                                (z % 146097) - YearStart(Yoe(z % 146097)))
  BY SMT DEF CivilOf, CivilWith, Yoe, YearStart
<1>4. CivilOf(days) = CivilWith(Yoe(doe), era, doe - YearStart(Yoe(doe)))
  <2> HIDE DEF z, doe
  <2> QED BY <1>2, <1>3, SMT
<1>5. CivilOf(days) = CivilWith(100 * c + 4 * q + k, era, d)
  <2> HIDE DEF z
  <2> QED BY <1>0, <1>4, YoeOf, SMT
<1>6. 100 * c + 4 * q + k + era * 400 = YearOfEra(era, c, q, k)
  BY <1>0, SMT DEF DayIn, YearOfEra
<1>7. CivilWith(100 * c + 4 * q + k, era, d) = CivilFrom(YearOfEra(era, c, q, k), d)
  BY <1>6, SMT DEF CivilWith, CivilFrom
<1> QED BY <1>5, <1>7, SMT

\* Has the year that begins in March of year y a 29 February at its end?
EndsLeap(q, c, k) == k = 3 /\ (q # 24 \/ c = 3)

\* The rule of 4, 100 and 400 says which of these years end in a 29 February.
LEMMA LeapOf == ASSUME NEW days, NEW era, NEW c, NEW q, NEW k, NEW d, DayOf(days, era, c, q, k, d)
  PROVE /\ YearOfEra(era, c, q, k) \in Nat
        /\ Leap(YearOfEra(era, c, q, k) + 1) <=> EndsLeap(q, c, k)
<1> DEFINE y == YearOfEra(era, c, q, k) + 1
<1>0. era \in Nat /\ c \in 0..3 /\ q \in 0..24 /\ k \in 0..3
  BY SMT DEF DayOf, DayIn
<1>1. y = 4 * (100 * era + 25 * c + q) + (k + 1)
  BY <1>0, SMT DEF YearOfEra
<1>2. y % 4 = 0 <=> k = 3
  <2> HIDE DEF y
  <2> QED BY <1>0, <1>1, SMT
<1>3. k = 3 => (y % 100 = 0 <=> q = 24)
  <2>1. ASSUME k = 3 PROVE y = 100 * (4 * era + c) + 4 * (q + 1)
    BY <1>0, <1>1, <2>1, SMT DEF YearOfEra
  <2> HIDE DEF y
  <2> QED BY <1>0, <2>1, SMT
<1>4. k = 3 /\ q = 24 => (y % 400 = 0 <=> c = 3)
  <2>1. ASSUME k = 3, q = 24 PROVE y = 400 * era + 100 * (c + 1)
    BY <1>0, <1>1, <2>1, SMT DEF YearOfEra
  <2> HIDE DEF y
  <2> QED BY <1>0, <2>1, SMT
<1>5. YearOfEra(era, c, q, k) \in Nat
  BY <1>0, SMT DEF YearOfEra
<1>6. k # 3 => ~EndsLeap(q, c, k)
  BY SMT DEF EndsLeap
<1>7. k = 3 => (EndsLeap(q, c, k) <=> q # 24 \/ c = 3)
  BY SMT DEF EndsLeap
<1> HIDE DEF y
<1>8. Leap(y) <=> EndsLeap(q, c, k)
  BY <1>2, <1>3, <1>4, <1>6, <1>7, SMT DEF Leap
<1> QED BY <1>5, <1>8, SMT DEF y

LastDay(c, q, k) == IF EndsLeap(q, c, k) THEN 365 ELSE 364

\* The day after a day that is not the last of its year.
LEMMA NextInYear == ASSUME NEW days, NEW era, NEW c, NEW q, NEW k, NEW d,
                           DayOf(days, era, c, q, k, d), d # LastDay(c, q, k)
  PROVE DayOf(days + 1, era, c, q, k, d + 1)
<1>0. DayIn(c, q, k, d + 1)
  BY SMT DEF DayOf, DayIn, LastDay, EndsLeap
<1> QED BY <1>0, SMT DEF DayOf, DayIn, DoeOf

\* The day after the last of a year is the first of the next year.
LEMMA NextInNewYear == ASSUME NEW days, NEW era, NEW c, NEW q, NEW k, NEW d,
                              DayOf(days, era, c, q, k, d), d = LastDay(c, q, k)
  PROVE \E era2, c2, q2, k2 : /\ DayOf(days + 1, era2, c2, q2, k2, 0)
                              /\ YearOfEra(era2, c2, q2, k2) = YearOfEra(era, c, q, k) + 1
<1>0. /\ days \in Nat /\ era \in Nat /\ c \in 0..3 /\ q \in 0..24 /\ k \in 0..3 /\ d \in 0..365
      /\ days + 719468 = 146097 * era + 36524 * c + 1461 * q + 365 * k + d
  BY SMT DEF DayOf, DayIn, DoeOf
<1>1. CASE k < 3
  <2>1. d = 364
    BY <1>1, SMT DEF LastDay, EndsLeap
  <2>2. DayOf(days + 1, era, c, q, k + 1, 0)
    BY <1>0, <1>1, <2>1, SMT DEF DayOf, DayIn, DoeOf
  <2>3. YearOfEra(era, c, q, k + 1) = YearOfEra(era, c, q, k) + 1
    BY <1>0, SMT DEF YearOfEra
  <2> QED BY <2>2, <2>3, Zenon
<1>2. CASE k = 3 /\ q < 24
  <2>1. d = 365
    BY <1>0, <1>2, SMT DEF LastDay, EndsLeap
  <2>2. DayOf(days + 1, era, c, q + 1, 0, 0)
    BY <1>0, <1>2, <2>1, SMT DEF DayOf, DayIn, DoeOf
  <2>3. YearOfEra(era, c, q + 1, 0) = YearOfEra(era, c, q, k) + 1
    BY <1>0, <1>2, SMT DEF YearOfEra
  <2> QED BY <2>2, <2>3, Zenon
<1>3. CASE k = 3 /\ q = 24 /\ c < 3
  <2>1. d = 364
    BY <1>0, <1>3, SMT DEF LastDay, EndsLeap
  <2>2. DayOf(days + 1, era, c + 1, 0, 0, 0)
    BY <1>0, <1>3, <2>1, SMT DEF DayOf, DayIn, DoeOf
  <2>3. YearOfEra(era, c + 1, 0, 0) = YearOfEra(era, c, q, k) + 1
    BY <1>0, <1>3, SMT DEF YearOfEra
  <2> QED BY <2>2, <2>3, Zenon
<1>4. CASE k = 3 /\ q = 24 /\ c = 3
  <2>1. d = 365
    BY <1>0, <1>4, SMT DEF LastDay, EndsLeap
  <2>2. DayOf(days + 1, era + 1, 0, 0, 0, 0)
    BY <1>0, <1>4, <2>1, SMT DEF DayOf, DayIn, DoeOf
  <2>3. YearOfEra(era + 1, 0, 0, 0) = YearOfEra(era, c, q, k) + 1
    BY <1>0, <1>4, SMT DEF YearOfEra
  <2> QED BY <2>2, <2>3, Zenon
<1> QED BY <1>0, <1>1, <1>2, <1>3, <1>4, SMT

\* The month, counted from March, and the day in it.
MonthOf(d, mp, day) ==
    /\ mp \in 0..11 /\ day \in 1..31 /\ mp = (5 * d + 2) \div 153
    /\ d + 1 = (153 * mp + 2) \div 5 + day
Monthly(y, mp, day) ==
    IF mp < 10 THEN <<y, mp + 3, day>> ELSE <<y + 1, mp - 9, day>>

\* The month CivilOf finds.
LEMMA CivilMonth == ASSUME NEW y \in Nat, NEW d \in 0..365
  PROVE \E mp, day : MonthOf(d, mp, day) /\ CivilFrom(y, d) = Monthly(y, mp, day)
<1> DEFINE mp == (5 * d + 2) \div 153
           day == d - (153 * mp + 2) \div 5 + 1
<1>1. MonthOf(d, mp, day)
  BY SMT DEF MonthOf
<1>2. CivilFrom(y, d) = <<y + (IF (IF mp < 10 THEN mp + 3 ELSE mp - 9) <= 2 THEN 1 ELSE 0),
                          IF mp < 10 THEN mp + 3 ELSE mp - 9, day>>
  BY SMT DEF CivilFrom
<1>3. mp \in 0..11
  BY <1>1, SMT DEF MonthOf
<1> HIDE DEF mp, day
<1>4. CivilFrom(y, d) = Monthly(y, mp, day)
  BY <1>2, <1>3, SMT DEF Monthly
<1> QED BY <1>1, <1>4, Zenon

\* Days of a month counted from March, of February in a leap year.
MonthLength(mp) == CASE mp = 11 -> 29 [] mp \in {1, 3, 6, 8} -> 30 [] OTHER -> 31

\* The day after a day of a month.
LEMMA MonthStep == ASSUME NEW d \in 0..364, NEW mp, NEW day, MonthOf(d, mp, day)
  PROVE /\ day < MonthLength(mp) => MonthOf(d + 1, mp, day + 1)
        /\ day = MonthLength(mp) => MonthOf(d + 1, mp + 1, 1)
        /\ day <= MonthLength(mp)
        /\ mp = 11 => day = d - 336
  BY SMT DEF MonthOf, MonthLength

\* The calendar on the wall gives the months the same lengths.
LEMMA MonthDaysOf == ASSUME NEW y \in Nat, NEW mp \in 0..11, NEW day \in 1..31
  PROVE LET shown == Monthly(y, mp, day)
        IN  MonthDays(shown[1], shown[2]) = IF mp = 11 THEN (IF Leap(y + 1) THEN 29 ELSE 28)
                                          ELSE MonthLength(mp)
<1>1. CASE mp < 10
  <2>1. Monthly(y, mp, day)[1] = y /\ Monthly(y, mp, day)[2] = mp + 3
    BY <1>1, SMT DEF Monthly
  <2> QED BY <1>1, <2>1, SMT DEF MonthDays, MonthLength
<1>2. CASE mp = 10
  <2>1. Monthly(y, mp, day)[1] = y + 1 /\ Monthly(y, mp, day)[2] = 1
    BY <1>2, SMT DEF Monthly
  <2> QED BY <1>2, <2>1, SMT DEF MonthDays, MonthLength
<1>3. CASE mp = 11
  <2>1. Monthly(y, mp, day)[1] = y + 1 /\ Monthly(y, mp, day)[2] = 2
    BY <1>3, SMT DEF Monthly
  <2> QED BY <1>3, <2>1, SMT DEF MonthDays
<1> QED BY <1>1, <1>2, <1>3, SMT

\* How the calendar on the wall turns.
LEMMA NextDateOf ==
  ASSUME NEW y \in Nat, NEW m \in Nat, NEW day \in Nat, NEW length \in Nat,
         MonthDays(y, m) = length
  PROVE  NextDate(<<y, m, day>>) = IF day < length THEN <<y, m, day + 1>>
                                   ELSE IF m < 12 THEN <<y, m + 1, 1>> ELSE <<y + 1, 1, 1>>
<1> DEFINE shown == <<y, m, day>>
<1>1. shown[1] = y /\ shown[2] = m /\ shown[3] = day
  BY SMT
<1> HIDE DEF shown
<1>2. NextDate(shown) = IF day < length THEN <<y, m, day + 1>>
                       ELSE IF m < 12 THEN <<y, m + 1, 1>> ELSE <<y + 1, 1, 1>>
  BY <1>1, SMT DEF NextDate
<1> QED BY <1>2, SMT DEF shown

\* The calendar on the wall turns, in months counted from March.
LEMMA NextOfMonthly ==
  ASSUME NEW y \in Nat, NEW mp \in 0..11, NEW day \in 1..31, NEW length \in 28..31,
         MonthDays(Monthly(y, mp, day)[1], Monthly(y, mp, day)[2]) = length
  PROVE  /\ day < length => NextDate(Monthly(y, mp, day)) = Monthly(y, mp, day + 1)
         /\ day = length /\ mp < 11 => NextDate(Monthly(y, mp, day)) = Monthly(y, mp + 1, 1)
         /\ day = length /\ mp = 11 => NextDate(Monthly(y, mp, day)) = Monthly(y + 1, 0, 1)
<1>1. CASE mp < 9
  <2>1. Monthly(y, mp, day) = <<y, mp + 3, day>> /\ Monthly(y, mp, day + 1) = <<y, mp + 3, day + 1>>
        /\ Monthly(y, mp + 1, 1) = <<y, mp + 4, 1>>
    BY <1>1, SMT DEF Monthly
  <2>2. MonthDays(y, mp + 3) = length
    BY <2>1, SMT
  <2>3. y \in Nat /\ mp + 3 \in Nat /\ day \in Nat /\ length \in Nat
    BY <1>1, SMT
  <2>4. NextDate(<<y, mp + 3, day>>) =
           IF day < length THEN <<y, mp + 3, day + 1>>
           ELSE IF mp + 3 < 12 THEN <<y, mp + 3 + 1, 1>> ELSE <<y + 1, 1, 1>>
    BY <2>2, <2>3, NextDateOf, SMT
  <2> QED BY <1>1, <2>1, <2>4, SMT
<1>2. CASE mp = 9
  <2>1. Monthly(y, mp, day) = <<y, mp + 3, day>> /\ Monthly(y, mp, day + 1) = <<y, mp + 3, day + 1>>
        /\ Monthly(y, mp + 1, 1) = <<y + 1, 1, 1>>
    BY <1>2, SMT DEF Monthly
  <2>2. MonthDays(y, mp + 3) = length
    BY <2>1, SMT
  <2>3. y \in Nat /\ mp + 3 \in Nat /\ day \in Nat /\ length \in Nat
    BY <1>2, SMT
  <2>4. NextDate(<<y, mp + 3, day>>) =
           IF day < length THEN <<y, mp + 3, day + 1>>
           ELSE IF mp + 3 < 12 THEN <<y, mp + 3 + 1, 1>> ELSE <<y + 1, 1, 1>>
    BY <2>2, <2>3, NextDateOf, SMT
  <2> QED BY <1>2, <2>1, <2>4, SMT
<1>3. CASE mp >= 10
  <2>1. Monthly(y, mp, day) = <<y + 1, mp - 9, day>>
        /\ Monthly(y, mp, day + 1) = <<y + 1, mp - 9, day + 1>>
        /\ Monthly(y, mp + 1, 1) = <<y + 1, mp - 8, 1>>
        /\ Monthly(y + 1, 0, 1) = <<y + 1, 3, 1>>
    BY <1>3, SMT DEF Monthly
  <2>2. MonthDays(y + 1, mp - 9) = length
    BY <2>1, SMT
  <2>3. y + 1 \in Nat /\ mp - 9 \in Nat /\ day \in Nat /\ length \in Nat
    BY <1>3, SMT
  <2>4. NextDate(<<y + 1, mp - 9, day>>) =
           IF day < length THEN <<y + 1, mp - 9, day + 1>>
           ELSE IF mp - 9 < 12 THEN <<y + 1, mp - 9 + 1, 1>> ELSE <<y + 1 + 1, 1, 1>>
    BY <2>2, <2>3, NextDateOf, SMT
  <2> QED BY <1>3, <2>1, <2>4, SMT
<1> QED BY <1>1, <1>2, <1>3, SMT

\* The conversion of the time crate and a calendar kept by hand agree on what day
\* follows a day, for ever (age_over_18 and is_expired_document, main.rs 2885-2902
\* and 3054-3071, compare with its dates).
THEOREM CivilAdvances == ASSUME NEW days \in Nat
                         PROVE CivilOf(days + 1) = NextDate(CivilOf(days))
<1>1. PICK era, c, q, k, d : DayOf(days, era, c, q, k, d)
  BY DaySplit, Zenon
<1> DEFINE y == YearOfEra(era, c, q, k)
<1>2. CivilOf(days) = CivilFrom(y, d)
  BY <1>1, CivilParts, Zenon
<1>3. y \in Nat /\ (Leap(y + 1) <=> EndsLeap(q, c, k))
  BY <1>1, LeapOf, Zenon
<1>4. d \in 0..365 /\ (d = 365 => EndsLeap(q, c, k))
  BY <1>1, SMT DEF DayOf, DayIn, EndsLeap
<1> HIDE DEF y
<1>5. PICK mp, day : MonthOf(d, mp, day) /\ CivilFrom(y, d) = Monthly(y, mp, day)
  BY <1>3, <1>4, CivilMonth, Zenon
<1>6. mp \in 0..11 /\ day \in 1..31
  BY <1>5, SMT DEF MonthOf
<1> DEFINE length == IF mp = 11 THEN (IF Leap(y + 1) THEN 29 ELSE 28) ELSE MonthLength(mp)
<1>7. length \in 28..31 /\ MonthDays(Monthly(y, mp, day)[1], Monthly(y, mp, day)[2]) = length
  <2>1. length \in 28..31
    BY <1>6, SMT DEF MonthLength
  <2>2. MonthDays(Monthly(y, mp, day)[1], Monthly(y, mp, day)[2]) = length
    BY <1>3, <1>6, MonthDaysOf, Zenon
  <2> QED BY <2>1, <2>2, Zenon
<1> HIDE DEF length
<1>8. /\ day < length => NextDate(Monthly(y, mp, day)) = Monthly(y, mp, day + 1)
      /\ day = length /\ mp < 11 => NextDate(Monthly(y, mp, day)) = Monthly(y, mp + 1, 1)
      /\ day = length /\ mp = 11 => NextDate(Monthly(y, mp, day)) = Monthly(y + 1, 0, 1)
  BY <1>3, <1>6, <1>7, NextOfMonthly, Zenon
<1>9. CASE d = LastDay(c, q, k)
  <2>1. PICK era2, c2, q2, k2 : /\ DayOf(days + 1, era2, c2, q2, k2, 0)
                                /\ YearOfEra(era2, c2, q2, k2) = YearOfEra(era, c, q, k) + 1
    BY <1>1, <1>9, NextInNewYear, SMT
  <2>2. CivilOf(days + 1) = CivilFrom(y + 1, 0)
    <3>1. CivilOf(days + 1) = CivilFrom(YearOfEra(era2, c2, q2, k2), 0)
      BY <2>1, CivilParts, Zenon
    <3>2. YearOfEra(era2, c2, q2, k2) = y + 1
      BY <2>1 DEF y
    <3> QED BY <3>1, <3>2, Zenon
  <2>3. CivilFrom(y + 1, 0) = Monthly(y + 1, 0, 1)
    BY <1>3, SMT DEF CivilFrom, Monthly
  <2>4. mp = 11 /\ day = length
    <3>1. d = (IF Leap(y + 1) THEN 365 ELSE 364)
      BY <1>3, <1>9, SMT DEF LastDay
    <3>2. mp = 11 /\ day = d - 336
      BY <1>5, <3>1, SMT DEF MonthOf
    <3> QED BY <3>1, <3>2, SMT DEF length
  <2> QED BY <1>2, <1>5, <1>8, <2>2, <2>3, <2>4, SMT
<1>10. CASE d # LastDay(c, q, k)
  <2>1. DayOf(days + 1, era, c, q, k, d + 1)
    BY <1>1, <1>10, NextInYear, Zenon
  <2>2. CivilOf(days + 1) = CivilFrom(y, d + 1)
    BY <2>1, CivilParts, Zenon DEF y
  <2>3. d \in 0..364 /\ d + 1 \in 0..365 /\ (~EndsLeap(q, c, k) => d # 364)
    BY <1>4, <1>10, SMT DEF LastDay
  <2>4. PICK mp2, day2 : MonthOf(d + 1, mp2, day2) /\ CivilFrom(y, d + 1) = Monthly(y, mp2, day2)
    BY <1>3, <2>3, CivilMonth, Zenon
  <2>5. /\ day < MonthLength(mp) => MonthOf(d + 1, mp, day + 1)
        /\ day = MonthLength(mp) => MonthOf(d + 1, mp + 1, 1)
        /\ day <= MonthLength(mp)
        /\ mp = 11 => day = d - 336
    <3>1. d \in 0..364 /\ MonthOf(d, mp, day)
      BY <1>5, <2>3, Zenon
    <3> QED BY <3>1, MonthStep, Zenon
  <2>6. mp # 11 => length = MonthLength(mp)
    BY DEF length
  <2>7. mp = 11 => day < length
    BY <1>3, <2>3, <2>5, SMT DEF length
  <2>8. CASE day < length
    <3>1. day < MonthLength(mp)
      BY <1>6, <1>7, <2>6, <2>8, SMT DEF MonthLength, length
    <3>2. mp2 = mp /\ day2 = day + 1
      BY <1>6, <2>3, <2>4, <2>5, <3>1, SMT DEF MonthOf
    <3> QED BY <1>2, <1>5, <1>8, <2>2, <2>4, <2>8, <3>2, SMT
  <2>9. CASE ~(day < length)
    <3>1. mp # 11 /\ mp < 11 /\ day = MonthLength(mp) /\ day = length
      BY <1>6, <1>7, <2>5, <2>6, <2>7, <2>9, SMT
    <3>2. mp2 = mp + 1 /\ day2 = 1
      BY <1>6, <2>3, <2>4, <2>5, <3>1, SMT DEF MonthOf
    <3> QED BY <1>2, <1>5, <1>8, <2>2, <2>4, <3>1, <3>2, SMT
  <2> QED BY <2>8, <2>9, Zenon
<1> QED BY <1>9, <1>10, Zenon

-----------------------------------------------------------------------------
(* Birthdays and dates of expiry.                                          *)

RealDate(d) ==
    /\ d = <<d[1], d[2], d[3]>>
    /\ d[1] \in Int /\ d[2] \in 1..12 /\ d[3] \in 1..MonthDays(d[1], d[2])

\* No month has other than 28 to 31 days, and only February varies.
LEMMA MonthDaysRange == ASSUME NEW y \in Int, NEW z \in Int, NEW m \in 1..12
  PROVE /\ MonthDays(y, m) \in 28..31
        /\ m # 2 => MonthDays(y, m) = MonthDays(z, m)
        /\ m = 2 => MonthDays(y, m) = IF Leap(y) THEN 29 ELSE 28
        /\ m = 12 => MonthDays(y, m) = 31
<1>1. CASE m = 2
  BY <1>1, SMT DEF MonthDays
<1>2. CASE m \in {4, 6, 9, 11}
  BY <1>2, SMT DEF MonthDays
<1>3. CASE m \notin {2, 4, 6, 9, 11}
  BY <1>3, SMT DEF MonthDays
<1> QED BY <1>1, <1>2, <1>3, SMT

\* What CivilOf returns is a date of the calendar (main.rs 2885-2902).
LEMMA CivilReal == ASSUME NEW days \in Nat PROVE RealDate(CivilOf(days))
<1>1. PICK era, c, q, k, d : DayOf(days, era, c, q, k, d)
  BY DaySplit, Zenon
<1> DEFINE y == YearOfEra(era, c, q, k)
<1>2. CivilOf(days) = CivilFrom(y, d)
  BY <1>1, CivilParts, Zenon
<1>3. y \in Nat /\ (Leap(y + 1) <=> EndsLeap(q, c, k))
  BY <1>1, LeapOf, Zenon
<1>4. d \in 0..365 /\ (d = 365 => EndsLeap(q, c, k))
  BY <1>1, SMT DEF DayOf, DayIn, EndsLeap
<1> HIDE DEF y
<1>5. PICK mp, day : MonthOf(d, mp, day) /\ CivilFrom(y, d) = Monthly(y, mp, day)
  BY <1>3, <1>4, CivilMonth, Zenon
<1>6. mp \in 0..11 /\ day \in 1..31
  BY <1>5, SMT DEF MonthOf
<1>7. day <= MonthLength(mp) /\ (mp = 11 => day = d - 336)
  BY <1>4, <1>5, SMT DEF MonthOf, MonthLength
<1>8. MonthDays(Monthly(y, mp, day)[1], Monthly(y, mp, day)[2]) =
         IF mp = 11 THEN (IF Leap(y + 1) THEN 29 ELSE 28) ELSE MonthLength(mp)
  BY <1>3, <1>6, MonthDaysOf, Zenon
<1>9. day <= MonthDays(Monthly(y, mp, day)[1], Monthly(y, mp, day)[2])
  <2>1. CASE mp = 11
    BY <1>3, <1>4, <1>7, <1>8, <2>1, SMT
  <2>2. CASE mp # 11
    BY <1>7, <1>8, <2>2, SMT
  <2> QED BY <2>1, <2>2, Zenon
<1>10. MonthDays(Monthly(y, mp, day)[1], Monthly(y, mp, day)[2]) \in Int
  BY <1>8, SMT DEF MonthLength
<1>11. /\ Monthly(y, mp, day)[3] = day
       /\ Monthly(y, mp, day) = <<Monthly(y, mp, day)[1], Monthly(y, mp, day)[2],
                                  Monthly(y, mp, day)[3]>>
       /\ Monthly(y, mp, day)[1] \in Int /\ Monthly(y, mp, day)[2] \in 1..12
  BY <1>3, <1>6, SMT DEF Monthly
<1> DEFINE shown == Monthly(y, mp, day)
<1> HIDE DEF shown
<1>12. RealDate(shown)
  BY <1>6, <1>9, <1>10, <1>11, SMT DEF RealDate, shown
<1> QED BY <1>2, <1>5, <1>12, Zenon DEF shown

\* The three ways the calendar turns.
LEMMA NextOfReal == ASSUME NEW d, RealDate(d)
  PROVE \/ /\ d[3] < MonthDays(d[1], d[2])
           /\ NextDate(d)[1] = d[1] /\ NextDate(d)[2] = d[2] /\ NextDate(d)[3] = d[3] + 1
           /\ NextDate(d) = <<d[1], d[2], d[3] + 1>>
        \/ /\ d[3] = MonthDays(d[1], d[2]) /\ d[2] < 12
           /\ NextDate(d)[1] = d[1] /\ NextDate(d)[2] = d[2] + 1 /\ NextDate(d)[3] = 1
           /\ NextDate(d) = <<d[1], d[2] + 1, 1>>
        \/ /\ d[3] = 31 /\ d[2] = 12
           /\ NextDate(d)[1] = d[1] + 1 /\ NextDate(d)[2] = 1 /\ NextDate(d)[3] = 1
           /\ NextDate(d) = <<d[1] + 1, 1, 1>>
<1>1. d[1] \in Int /\ d[2] \in 1..12 /\ d[3] \in 1..MonthDays(d[1], d[2])
  BY Zenon DEF RealDate
<1>2. MonthDays(d[1], d[2]) \in 28..31 /\ (d[2] = 12 => MonthDays(d[1], d[2]) = 31)
  BY <1>1, MonthDaysRange, SMT
<1> QED BY <1>1, <1>2, SMT DEF NextDate

\* Over midnight the age goes up by one exactly on a birthday.
LEMMA AgeStep == ASSUME NEW b, NEW d, RealDate(b), RealDate(d)
  PROVE /\ AgeOn(b, d) \in Int
        /\ AgeOn(b, NextDate(d)) = AgeOn(b, d) + (IF Birthday(b, NextDate(d)) THEN 1 ELSE 0)
<1>1. /\ b[1] \in Int /\ b[2] \in 1..12 /\ b[3] \in 1..MonthDays(b[1], b[2])
      /\ d[1] \in Int /\ d[2] \in 1..12 /\ d[3] \in 1..MonthDays(d[1], d[2])
  BY Zenon DEF RealDate
<1>2. MonthDays(d[1], d[2]) \in 28..31 /\ MonthDays(b[1], b[2]) \in 28..31
  BY <1>1, MonthDaysRange, SMT
<1>3. /\ b[2] # 2 => MonthDays(b[1], b[2]) = MonthDays(d[1], b[2])
      /\ b[2] = 2 => MonthDays(b[1], b[2]) <= 29
      /\ b[2] = 12 => MonthDays(b[1], b[2]) = 31
  BY <1>1, MonthDaysRange, SMT
<1>4. d[2] = 2 => MonthDays(d[1], d[2]) = IF Leap(d[1]) THEN 29 ELSE 28
  BY <1>1, MonthDaysRange, SMT
<1>5. AgeOn(b, d) \in Int
  BY <1>1, SMT DEF AgeOn
<1> DEFINE n == NextDate(d)
<1>6. CASE d[3] < MonthDays(d[1], d[2]) /\ n[1] = d[1] /\ n[2] = d[2] /\ n[3] = d[3] + 1
  <2> HIDE DEF n
  <2>1. ShownBy(n, b) <=> ShownBy(d, b) \/ (b[2] = n[2] /\ b[3] = n[3])
    BY <1>1, <1>2, <1>6, SMT DEF ShownBy
  <2>2. (b[2] = n[2] /\ b[3] = n[3]) => ~ShownBy(d, b)
    BY <1>1, <1>2, <1>6, SMT DEF ShownBy
  <2>3. Birthday(b, n) <=> b[2] = n[2] /\ b[3] = n[3]
    BY <1>1, <1>2, <1>6, SMT DEF Birthday
  <2> QED BY <1>1, <1>5, <1>6, <2>1, <2>2, <2>3, SMT DEF AgeOn, n
<1>7. CASE d[3] = MonthDays(d[1], d[2]) /\ d[2] < 12 /\ n[1] = d[1] /\ n[2] = d[2] + 1 /\ n[3] = 1
  <2> HIDE DEF n
  <2>1. CASE b[2] = d[2]
    <3>1. ShownBy(n, b)
      BY <1>1, <1>7, <2>1, SMT DEF ShownBy
    <3>2. ShownBy(d, b) <=> ~(b[2] = 2 /\ b[3] = 29 /\ ~Leap(d[1]))
      BY <1>1, <1>2, <1>3, <1>4, <1>7, <2>1, SMT DEF ShownBy
    <3>3. Birthday(b, n) <=> b[2] = 2 /\ b[3] = 29 /\ ~Leap(d[1])
      BY <1>1, <1>7, <2>1, SMT DEF Birthday
    <3> QED BY <1>1, <1>5, <1>7, <3>1, <3>2, <3>3, SMT DEF AgeOn, n
  <2>2. CASE b[2] # d[2]
    <3>1. ShownBy(n, b) <=> ShownBy(d, b) \/ (b[2] = n[2] /\ b[3] = 1)
      BY <1>1, <1>7, <2>2, SMT DEF ShownBy
    <3>2. (b[2] = n[2] /\ b[3] = 1) => ~ShownBy(d, b)
      BY <1>1, <1>7, <2>2, SMT DEF ShownBy
    <3>3. Birthday(b, n) <=> b[2] = n[2] /\ b[3] = 1
      BY <1>1, <1>7, <2>2, SMT DEF Birthday
    <3> QED BY <1>1, <1>5, <1>7, <3>1, <3>2, <3>3, SMT DEF AgeOn, n
  <2> QED BY <2>1, <2>2, Zenon DEF n
<1>8. CASE d[3] = 31 /\ d[2] = 12 /\ n[1] = d[1] + 1 /\ n[2] = 1 /\ n[3] = 1
  <2> HIDE DEF n
  <2>1. ShownBy(d, b)
    BY <1>1, <1>2, <1>3, <1>8, SMT DEF ShownBy
  <2>2. ShownBy(n, b) <=> b[2] = 1 /\ b[3] = 1
    BY <1>1, <1>8, SMT DEF ShownBy
  <2>3. Birthday(b, n) <=> b[2] = 1 /\ b[3] = 1
    BY <1>1, <1>8, SMT DEF Birthday
  <2> QED BY <1>1, <1>5, <1>8, <2>1, <2>2, <2>3, SMT DEF AgeOn, n
<1>9. \/ d[3] < MonthDays(d[1], d[2]) /\ n[1] = d[1] /\ n[2] = d[2] /\ n[3] = d[3] + 1
      \/ d[3] = MonthDays(d[1], d[2]) /\ d[2] < 12 /\ n[1] = d[1] /\ n[2] = d[2] + 1 /\ n[3] = 1
      \/ d[3] = 31 /\ d[2] = 12 /\ n[1] = d[1] + 1 /\ n[2] = 1 /\ n[3] = 1
  BY NextOfReal, SMT
<1> HIDE DEF n
<1>10. AgeOn(b, n) = AgeOn(b, d) + (IF Birthday(b, n) THEN 1 ELSE 0)
  BY <1>6, <1>7, <1>8, <1>9, SMT DEF n
<1> QED BY <1>5, <1>10, SMT DEF n

\* age_over_18 compares dates, the holder counts birthdays (main.rs 2885-2902).
LEMMA AgeExact == ASSUME NEW b, NEW d, RealDate(b), RealDate(d)
  PROVE ~Earlier(d, <<b[1] + 18, b[2], b[3]>>) <=> AgeOn(b, d) >= 18
<1>1. /\ b[1] \in Int /\ b[2] \in 1..12 /\ b[3] \in 1..MonthDays(b[1], b[2])
      /\ d[1] \in Int /\ d[2] \in 1..12 /\ d[3] \in 1..MonthDays(d[1], d[2])
  BY Zenon DEF RealDate
<1>2. MonthDays(d[1], d[2]) \in 28..31 /\ MonthDays(b[1], b[2]) \in 28..31
  BY <1>1, MonthDaysRange, SMT
<1> DEFINE e == <<b[1] + 18, b[2], b[3]>>
<1>3. e[1] = b[1] + 18 /\ e[2] = b[2] /\ e[3] = b[3]
  BY SMT
<1> HIDE DEF e
<1>4. ~Earlier(d, e) <=> AgeOn(b, d) >= 18
  BY <1>1, <1>2, <1>3, SMT DEF Earlier, AgeOn, ShownBy
<1> QED BY <1>4, SMT DEF e

\* Over midnight a document expires exactly when the day it names is over.
LEMMA PastStep == ASSUME NEW e, NEW d, RealDate(e), RealDate(d)
  PROVE PastOn(e, NextDate(d)) <=> PastOn(e, d) \/ e = d
<1>1. /\ e[1] \in Int /\ e[2] \in 1..12 /\ e[3] \in 1..MonthDays(e[1], e[2])
      /\ d[1] \in Int /\ d[2] \in 1..12 /\ d[3] \in 1..MonthDays(d[1], d[2])
      /\ e = <<e[1], e[2], e[3]>> /\ d = <<d[1], d[2], d[3]>>
  BY Zenon DEF RealDate
<1>2. MonthDays(d[1], d[2]) \in 28..31 /\ MonthDays(e[1], e[2]) \in 28..31
  BY <1>1, MonthDaysRange, SMT
<1>3. /\ e[1] = d[1] /\ e[2] = d[2] => e[3] <= MonthDays(d[1], d[2])
      /\ e[2] = 12 => e[3] <= 31
  BY <1>1, <1>2, SMT
<1>4. e = d <=> e[1] = d[1] /\ e[2] = d[2] /\ e[3] = d[3]
  BY <1>1, SMT
<1> DEFINE n == NextDate(d)
<1>5. \/ d[3] < MonthDays(d[1], d[2]) /\ n[1] = d[1] /\ n[2] = d[2] /\ n[3] = d[3] + 1
      \/ d[3] = MonthDays(d[1], d[2]) /\ d[2] < 12 /\ n[1] = d[1] /\ n[2] = d[2] + 1 /\ n[3] = 1
      \/ d[3] = 31 /\ d[2] = 12 /\ n[1] = d[1] + 1 /\ n[2] = 1 /\ n[3] = 1
  BY NextOfReal, SMT
<1>6. n = e <=> e[1] = n[1] /\ e[2] = n[2] /\ e[3] = n[3]
  BY <1>1, NextOfReal, SMT
<1> HIDE DEF n
<1>7. PastOn(e, n) <=> PastOn(e, d) \/ e = d
  BY <1>1, <1>2, <1>3, <1>4, <1>5, <1>6, SMT DEF PastOn, ShownBy
<1> QED BY <1>7, Zenon DEF n

\* is_expired_document compares dates (main.rs 3054-3071).
LEMMA PastExact == ASSUME NEW e, NEW d, RealDate(e), RealDate(d)
  PROVE Earlier(e, d) <=> PastOn(e, d)
<1>1. /\ e[1] \in Int /\ e[2] \in 1..12 /\ e[3] \in 1..MonthDays(e[1], e[2])
      /\ d[1] \in Int /\ d[2] \in 1..12 /\ d[3] \in 1..MonthDays(d[1], d[2])
      /\ e = <<e[1], e[2], e[3]>> /\ d = <<d[1], d[2], d[3]>>
  BY Zenon DEF RealDate
<1>2. MonthDays(d[1], d[2]) \in 28..31 /\ MonthDays(e[1], e[2]) \in 28..31
  BY <1>1, MonthDaysRange, SMT
<1>3. e = d <=> e[1] = d[1] /\ e[2] = d[2] /\ e[3] = d[3]
  BY <1>1, SMT
<1> QED BY <1>1, <1>2, <1>3, SMT DEF PastOn, ShownBy, Earlier

\* The clock passes midnight when it reaches a multiple of a day.
LEMMA DayStep == ASSUME NEW t \in Nat
  PROVE /\ t \div SecondsPerDay \in Nat
        /\ (t + 1) \div SecondsPerDay =
              (t \div SecondsPerDay) + (IF (t + 1) % SecondsPerDay = 0 THEN 1 ELSE 0)
  BY ContentsAssumption, SMT

\* An instant that begins a day is of that day.
LEMMA DayBegins == ASSUME NEW n \in Nat
  PROVE n * SecondsPerDay \in Nat /\ (n * SecondsPerDay) \div SecondsPerDay = n
  BY ContentsAssumption, SMT

\* A date of the calendar: no later than the end of any month, or an end of
\* December, or a leap day.
LEMMA RealOf == ASSUME NEW y \in Int, NEW m \in 1..12, NEW n \in Nat, n > 0,
                       n <= 28 \/ (m = 12 /\ n <= 31) \/ (m = 2 /\ n <= 29 /\ Leap(y))
  PROVE RealDate(<<y, m, n>>)
<1>1. n <= MonthDays(y, m) /\ MonthDays(y, m) \in 28..31
  BY MonthDaysRange, SMT
<1> QED BY <1>1, SMT DEF RealDate

\* The dates a document is probed with can be read.
LEMMA ProbedReal == ASSUME NEW y \in Int, NEW d \in BirthDates(y) \cup ExpiryDates(y), d # <<>>
  PROVE RealDate(d)
<1> DEFINE From(z) == {<<z, 2, 28>>, <<z, 3, 1>>, <<z, 12, 31>>, <<z, 1, 1>>}
<1>1. ASSUME NEW z \in Int PROVE \A f \in From(z) : RealDate(f)
  <2>1. RealDate(<<z, 2, 28>>) /\ RealDate(<<z, 3, 1>>) /\ RealDate(<<z, 12, 31>>)
        /\ RealDate(<<z, 1, 1>>)
    BY RealOf, SMT
  <2> QED BY <2>1, Zenon
<1>2. ASSUME NEW z \in Int, Leap(z) PROVE RealDate(<<z, 2, 29>>)
  BY <1>2, RealOf, SMT
<1>3. y - 17 \in Int /\ y - 18 \in Int /\ y - 19 \in Int /\ y + 1 \in Int
  BY SMT
<1>4. CASE d \in BirthDates(y)
  <2>1. \/ d \in From(y - 18) \cup From(y - 17) \cup From(y - 19)
        \/ Leap(y - 18) /\ d = <<y - 18, 2, 29>>
    BY <1>4, SMT DEF BirthDates
  <2> HIDE DEF From
  <2> QED BY <1>1, <1>2, <1>3, <2>1, Zenon
<1>5. CASE d \in ExpiryDates(y)
  <2>1. \/ d \in From(y) \cup From(y + 1)
        \/ Leap(y) /\ d = <<y, 2, 29>>
    BY <1>5, SMT DEF ExpiryDates
  <2> HIDE DEF From
  <2> QED BY <1>1, <1>2, <1>3, <2>1, Zenon
<1> QED BY <1>4, <1>5, Zenon

-----------------------------------------------------------------------------
(* Reading a document.                                                     *)

\* The wall shows the date the code computes from the clock, and the birthdays
\* and the last day counted on it are those of the document.
DateInv ==
    /\ now \in Nat /\ date = Today(now)
    /\ document.birthdate # <<>> =>
          RealDate(document.birthdate) /\ age = AgeOn(document.birthdate, date)
    /\ document.expiry # <<>> => RealDate(document.expiry)
    /\ past <=> document.expiry # <<>> /\ PastOn(document.expiry, date)

\* The date on the wall is one of the calendar (CivilOf, main.rs 2885-2902).
LEMMA DateReal == ASSUME DateInv PROVE RealDate(date)
<1>1. now \div SecondsPerDay \in Nat
  BY DayStep, SMT DEF DateInv
<1> QED BY <1>1, CivilReal, Zenon DEF DateInv, Today

\* A walk begins at the first instant of the day of its anchor.
LEMMA DateInvInit == DocumentInit => DateInv
<1> SUFFICES ASSUME DocumentInit PROVE DateInv
  OBVIOUS
<1> DEFINE b == document.birthdate
           e == document.expiry
<1>1. anchor \in Anchors /\ anchor.days \in Nat /\ anchor.date = CivilOf(anchor.days)
  BY DocumentAssumption, SMT DEF DocumentInit
<1>2. now \in Nat /\ now \div SecondsPerDay = anchor.days
  BY <1>1, DayBegins, SMT DEF DocumentInit
<1>3. date = Today(now)
  BY <1>1, <1>2, Zenon DEF DocumentInit, Today
<1>4. date[1] \in Int
  BY <1>1, CivilReal, Zenon DEF DocumentInit, RealDate
<1>5. b \in BirthDates(date[1]) /\ e \in ExpiryDates(date[1])
  BY Zenon DEF DocumentInit
<1>6. (b # <<>> => RealDate(b)) /\ (e # <<>> => RealDate(e))
  BY <1>4, <1>5, ProbedReal, Zenon
<1>7. b # <<>> => age = AgeOn(b, date)
  BY Zenon DEF DocumentInit
<1>8. past <=> e # <<>> /\ PastOn(e, date)
  BY Zenon DEF DocumentInit
<1> QED BY <1>2, <1>3, <1>6, <1>7, <1>8, Zenon DEF DateInv

\* At midnight, and only then, everything on the wall moves with the clock.
LEMMA DateInvTick == DateInv /\ Tick => DateInv'
<1> SUFFICES ASSUME DateInv, Tick PROVE DateInv'
  OBVIOUS
<1> DEFINE b == document.birthdate
           e == document.expiry
           midnight == (now + 1) % SecondsPerDay = 0
           n == now \div SecondsPerDay
<1>1. now \in Nat /\ n \in Nat /\ now' = now + 1 /\ now' \in Nat
  <2>1. now \in Nat /\ now' = now + 1
    BY Zenon DEF DateInv, Tick
  <2> QED BY <2>1, DayStep, SMT
<1>2. now' \div SecondsPerDay = n + (IF midnight THEN 1 ELSE 0)
  BY <1>1, DayStep, SMT
<1>3. RealDate(date)
  BY DateReal
<1>4. /\ date' = IF midnight THEN NextDate(date) ELSE date
      /\ age' = IF midnight /\ b # <<>> /\ Birthday(b, NextDate(date)) THEN age + 1 ELSE age
      /\ past' = (past \/ (midnight /\ e = date))
      /\ document' = document
  BY Zenon DEF Tick
<1>5. date = CivilOf(n)
  BY Zenon DEF DateInv, Today
<1>6. b # <<>> => RealDate(b) /\ age = AgeOn(b, date) /\ AgeOn(b, date) \in Int
  BY <1>3, AgeStep, Zenon DEF DateInv
<1>7. e # <<>> => RealDate(e)
  BY Zenon DEF DateInv
<1>8. past <=> e # <<>> /\ PastOn(e, date)
  BY Zenon DEF DateInv
<1>9. CASE midnight
  <2>1. date' = Today(now')
    <3>1. now' \div SecondsPerDay = n + 1
      BY <1>2, <1>9, SMT
    <3>2. CivilOf(n + 1) = NextDate(CivilOf(n))
      BY <1>1, CivilAdvances, Zenon
    <3> QED BY <1>4, <1>5, <1>9, <3>1, <3>2, Zenon DEF Today
  <2>2. ASSUME b # <<>> PROVE age' = AgeOn(b, date')
    <3>1. AgeOn(b, NextDate(date)) = AgeOn(b, date) + (IF Birthday(b, NextDate(date)) THEN 1 ELSE 0)
      BY <1>3, <1>6, <2>2, AgeStep, Zenon
    <3>2. age' = IF Birthday(b, NextDate(date)) THEN age + 1 ELSE age
      BY <1>4, <1>9, <2>2, Zenon
    <3>3. date' = NextDate(date) /\ age = AgeOn(b, date) /\ AgeOn(b, date) \in Int
      BY <1>4, <1>6, <1>9, <2>2, Zenon
    <3> QED BY <3>1, <3>2, <3>3, SMT
  <2>3. past' <=> e # <<>> /\ PastOn(e, date')
    <3>1. CASE e = <<>>
      <4>1. date # <<>>
        BY <1>3, SMT DEF RealDate
      <4> QED BY <1>4, <1>8, <3>1, <4>1, Zenon
    <3>2. CASE e # <<>>
      <4>1. PastOn(e, NextDate(date)) <=> PastOn(e, date) \/ e = date
        BY <1>3, <1>7, <3>2, PastStep, Zenon
      <4> QED BY <1>4, <1>8, <1>9, <3>2, <4>1, Zenon
    <3> QED BY <3>1, <3>2, Zenon
  <2> QED BY <1>1, <1>4, <1>6, <1>7, <2>1, <2>2, <2>3, Zenon DEF DateInv
<1>10. CASE ~midnight
  <2>1. now' \div SecondsPerDay = n
    BY <1>1, <1>2, <1>10, SMT
  <2>2. date' = date /\ age' = age /\ (past' <=> past)
    BY <1>4, <1>10, Zenon
  <2>3. date' = Today(now')
    BY <1>5, <2>1, <2>2, Zenon DEF Today
  <2> QED BY <1>1, <1>4, <1>6, <1>7, <1>8, <2>2, <2>3, Zenon DEF DateInv
<1> QED BY <1>9, <1>10, Zenon

\* Nothing but the clock moves the wall.
LEMMA DateInvMake == ASSUME DateInv, UNCHANGED <<anchor, document, now, date, age, past>>
                     PROVE DateInv'
  BY Zenon DEF DateInv

\* What the invariant says of a document: it is read exactly (main.rs 2885-2902
\* and 3054-3071).
LEMMA ReadExactly == DateInv => DatesReadExactly
<1> SUFFICES ASSUME DateInv PROVE DatesReadExactly
  OBVIOUS
<1> DEFINE b == document.birthdate
           e == document.expiry
<1>1. RealDate(date) /\ Today(now) = date
  BY DateReal, Zenon DEF DateInv
<1>2. age_over_18(b, now) <=> b # <<>> /\ age >= 18
  <2>1. CASE b # <<>>
    <3>1. RealDate(b) /\ age = AgeOn(b, date)
      BY <2>1, Zenon DEF DateInv
    <3>2. ~Earlier(date, <<b[1] + 18, b[2], b[3]>>) <=> AgeOn(b, date) >= 18
      BY <1>1, <3>1, AgeExact, Zenon
    <3> QED BY <1>1, <2>1, <3>1, <3>2, SMT DEF age_over_18
  <2>2. CASE b = <<>>
    BY <2>2, Zenon DEF age_over_18
  <2> QED BY <2>1, <2>2, Zenon
<1>3. is_expired_document(e, now) <=> e = <<>> \/ past
  <2>1. CASE e # <<>>
    <3>1. RealDate(e) /\ (past <=> PastOn(e, date))
      BY <2>1, Zenon DEF DateInv
    <3>2. Earlier(e, date) <=> PastOn(e, date)
      BY <1>1, <3>1, PastExact, Zenon
    <3> QED BY <1>1, <2>1, <3>1, <3>2, Zenon DEF is_expired_document
  <2>2. CASE e = <<>>
    BY <2>2, Zenon DEF is_expired_document
  <2> QED BY <2>1, <2>2, Zenon
<1> QED BY <1>2, <1>3, Zenon DEF DatesReadExactly


-----------------------------------------------------------------------------
(* Making credentials.                                                     *)

\* Every profile but the one the flow never authorizes is served: which encoder
\* it reaches, and what that encoder says it is bound to (main.rs 2389-2518).
LEMMA MadeBy == ASSUME NEW p \in Profiles \ {DEV_SVIPE_PID_SD_JWT}, NEW pid
  PROVE \/ /\ p \in {PID_MDOC, EAA_MDOC, PID_FROM_EMRTD_MDOC}
           /\ Made(p, pid) = MdocContents(p, Holder, now, pid)
        \/ /\ p = MANDATE_SD_JWT
           /\ Made(p, pid) = MandateContents(Holder, DemoDecision, now)
        \/ /\ p = HYBRID_PQ_SD_JWT
           /\ Made(p, pid) = HybridContents(Holder, now)
        \/ /\ p \in {PID_SD_JWT, PID_FROM_EMRTD_SD_JWT, QEAA_SD_JWT,
                     QEAA_PID_BOUND_SD_JWT, TLSN_EVIDENCE_SD_JWT}
           /\ Made(p, pid) = SdJwtContents(p, Holder, now, Evidence, pid)
<1> USE DEF PID_SD_JWT, PID_FROM_EMRTD_SD_JWT, PID_FROM_EMRTD_MDOC, PID_MDOC, EAA_MDOC, QEAA_SD_JWT,
            QEAA_PID_BOUND_SD_JWT, DEV_SVIPE_PID_SD_JWT, TLSN_EVIDENCE_SD_JWT, HYBRID_PQ_SD_JWT,
            MANDATE_SD_JWT
<1>1. p \in {PID_SD_JWT, PID_FROM_EMRTD_SD_JWT, PID_FROM_EMRTD_MDOC, PID_MDOC, EAA_MDOC,
             QEAA_SD_JWT, QEAA_PID_BOUND_SD_JWT, TLSN_EVIDENCE_SD_JWT, HYBRID_PQ_SD_JWT,
             MANDATE_SD_JWT}
  BY SMT DEF Profiles, NfcPidProfiles, PidRoleProfiles, QeaaProfiles, DevelopmentProfiles
<1>2. p \in Profiles
  OBVIOUS
<1>3. CASE p \in {PID_MDOC, EAA_MDOC, PID_FROM_EMRTD_MDOC}
  <2>1. Encoder(p) = "issue_mdoc"
    BY <1>3, SMT DEF Encoder
  <2>2. p \in Arms("issue_mdoc") /\ p \in CredentialSigners
    BY <1>2, <1>3, SMT DEF Arms, CredentialSigners
  <2> QED BY <1>3, <2>1, <2>2, SMT DEF Made
<1>4. CASE p = MANDATE_SD_JWT
  <2>1. Encoder(p) = "issue_mandate_sd_jwt"
    BY <1>4, SMT DEF Encoder
  <2>2. p \in Arms("issue_mandate_sd_jwt") /\ p \in CredentialSigners
    BY <1>2, <1>4, SMT DEF Arms, CredentialSigners
  <2> QED BY <1>4, <2>1, <2>2, SMT DEF Made
<1>5. CASE p = HYBRID_PQ_SD_JWT
  <2>1. Encoder(p) = "issue_hybrid_credential"
    BY <1>5, SMT DEF Encoder
  <2>2. p \in Arms("issue_hybrid_credential")
    BY <1>5, SMT DEF Arms
  <2> QED BY <1>5, <2>1, <2>2, SMT DEF Made
<1>6. CASE p \in {PID_SD_JWT, PID_FROM_EMRTD_SD_JWT, QEAA_SD_JWT, QEAA_PID_BOUND_SD_JWT,
                  TLSN_EVIDENCE_SD_JWT}
  <2>1. Encoder(p) = "issue_sd_jwt"
    BY <1>6, SMT DEF Encoder
  <2>2. p \in Arms("issue_sd_jwt") /\ p \in CredentialSigners
    BY <1>2, <1>6, SMT DEF Arms, CredentialSigners
  <2> QED BY <1>6, <2>1, <2>2, SMT DEF Made
<1> QED BY <1>1, <1>3, <1>4, <1>5, <1>6, SMT

\* A credential of one of these profiles is made, and is bound to a PID exactly
\* when the flow has asked for one (main.rs 3397-3405 and the encoders).
LEMMA MadeServes == ASSUME NEW p \in Profiles \ {DEV_SVIPE_PID_SD_JWT}, NEW pid
  PROVE Made(p, pid) # Panic /\ (Made(p, pid).bound_to_pid <=> p \in PidBoundProfiles)
<1> USE DEF PID_SD_JWT, PID_FROM_EMRTD_SD_JWT, PID_FROM_EMRTD_MDOC, PID_MDOC, EAA_MDOC, QEAA_SD_JWT,
            QEAA_PID_BOUND_SD_JWT, TLSN_EVIDENCE_SD_JWT, HYBRID_PQ_SD_JWT, MANDATE_SD_JWT,
            PidBoundProfiles
<1>0. "format" \notin DOMAIN Panic
  BY SMT DEF Panic
<1>1. "format" \in DOMAIN MdocContents(p, Holder, now, pid)
      /\ MdocContents(p, Holder, now, pid).bound_to_pid = FALSE
  BY SMT DEF MdocContents
<1>2. "format" \in DOMAIN MandateContents(Holder, DemoDecision, now)
      /\ MandateContents(Holder, DemoDecision, now).bound_to_pid = TRUE
  BY SMT DEF MandateContents
<1>3. "format" \in DOMAIN HybridContents(Holder, now)
      /\ HybridContents(Holder, now).bound_to_pid = FALSE
  BY SMT DEF HybridContents
<1>4. "format" \in DOMAIN SdJwtContents(p, Holder, now, Evidence, pid)
      /\ SdJwtContents(p, Holder, now, Evidence, pid).bound_to_pid = (p = QEAA_PID_BOUND_SD_JWT)
  BY SMT DEF SdJwtContents
<1>5. "format" \in DOMAIN Made(p, pid)
  BY <1>1, <1>2, <1>3, <1>4, MadeBy, Zenon
<1>6. Made(p, pid) # Panic
  BY <1>0, <1>5, Zenon
<1>7. Made(p, pid).bound_to_pid <=> p \in PidBoundProfiles
  <2>1. CASE p \in {PID_MDOC, EAA_MDOC, PID_FROM_EMRTD_MDOC}
                /\ Made(p, pid) = MdocContents(p, Holder, now, pid)
    BY <1>1, <2>1, SMT
  <2>2. CASE p = MANDATE_SD_JWT /\ Made(p, pid) = MandateContents(Holder, DemoDecision, now)
    BY <1>2, <2>2, SMT
  <2>3. CASE p = HYBRID_PQ_SD_JWT /\ Made(p, pid) = HybridContents(Holder, now)
    BY <1>3, <2>3, SMT
  <2>4. CASE p \in {PID_SD_JWT, PID_FROM_EMRTD_SD_JWT, QEAA_SD_JWT, QEAA_PID_BOUND_SD_JWT,
                    TLSN_EVIDENCE_SD_JWT}
                /\ Made(p, pid) = SdJwtContents(p, Holder, now, Evidence, pid)
    <3>1. p = QEAA_PID_BOUND_SD_JWT <=> p \in PidBoundProfiles
      BY <2>4, SMT
    <3> HIDE DEF PidBoundProfiles, QEAA_PID_BOUND_SD_JWT
    <3>2. Made(p, pid).bound_to_pid = (p = QEAA_PID_BOUND_SD_JWT)
      BY <1>4, <2>4, Zenon
    <3> QED BY <3>1, <3>2, Zenon
  <2> HIDE DEF PID_SD_JWT, PID_FROM_EMRTD_SD_JWT, PID_FROM_EMRTD_MDOC, PID_MDOC, EAA_MDOC,
               QEAA_SD_JWT, QEAA_PID_BOUND_SD_JWT, TLSN_EVIDENCE_SD_JWT, HYBRID_PQ_SD_JWT,
               MANDATE_SD_JWT, PidBoundProfiles
  <2> QED BY <2>1, <2>2, <2>3, <2>4, MadeBy, Zenon
<1> QED BY <1>6, <1>7, Zenon

\* What DocumentNext makes.
LEMMA MakeOnly == ASSUME DocumentNext
  PROVE \/ Tick
        \/ \E ps \in SUBSET (Profiles \ {DEV_SVIPE_PID_SD_JWT}) : \E pid : MakeAll(ps, pid)
<1>1. ASSUME NEW p \in Profiles \ (NfcPidProfiles \cup {DEV_SVIPE_PID_SD_JWT}), Make(p)
      PROVE \E ps \in SUBSET (Profiles \ {DEV_SVIPE_PID_SD_JWT}) : \E pid : MakeAll(ps, pid)
  <2>1. {p} \in SUBSET (Profiles \ {DEV_SVIPE_PID_SD_JWT})
    BY Zenon
  <2> QED BY <1>1, <2>1, Zenon DEF Make
<1>2. ASSUME NEW ps \in {{PID_FROM_EMRTD_SD_JWT}, NfcPidProfiles}, NEW portrait \in Portraits,
             MakePid(ps, portrait)
      PROVE \E qs \in SUBSET (Profiles \ {DEV_SVIPE_PID_SD_JWT}) : \E pid : MakeAll(qs, pid)
  <2>1. ps \in SUBSET (Profiles \ {DEV_SVIPE_PID_SD_JWT})
    BY SMT DEF Profiles, NfcPidProfiles, PidRoleProfiles, PID_FROM_EMRTD_SD_JWT,
               PID_FROM_EMRTD_MDOC, DEV_SVIPE_PID_SD_JWT
  <2> QED BY <1>2, <2>1, Zenon DEF MakePid
<1> QED BY <1>1, <1>2, Zenon DEF DocumentNext

\* The calendar invariant holds in every state (CivilOf, main.rs 2885-2902).
LEMMA DateInvAlways == DocumentSpec => []DateInv
<1>1. DateInv /\ [DocumentNext]_documentVars => DateInv'
  <2> SUFFICES ASSUME DateInv, [DocumentNext]_documentVars PROVE DateInv'
    OBVIOUS
  <2>1. CASE UNCHANGED documentVars
    BY <2>1, DateInvMake, Zenon DEF documentVars
  <2>2. CASE Tick
    BY <2>2, DateInvTick
  <2>3. ASSUME NEW ps, NEW pid, MakeAll(ps, pid) PROVE DateInv'
    BY <2>3, DateInvMake, Zenon DEF MakeAll
  <2> QED BY <2>1, <2>2, <2>3, MakeOnly, Zenon
<1> QED BY DateInvInit, <1>1, PTL DEF DocumentSpec

\* A document says its holder is of age from the eighteenth birthday on, and
\* expires with the end of the day it names, on every day from 1970 on, in leap
\* years and centuries alike (age_over_18 and is_expired_document, main.rs
\* 2885-2902 and 3054-3071).
THEOREM DatesReadExactlyAlways == DocumentSpec => []DatesReadExactly
  BY DateInvAlways, ReadExactly, PTL

\* Every credential of the demonstration and of a capture has an encoder arm and
\* a signer, and says truly whether it is bound to a PID (main.rs 537-560,
\* 2389-2518, 3397-3405).
THEOREM EncodersServeAlways == DocumentSpec => []EncodersServe
<1>1. DocumentInit => EncodersServe
  BY SMT DEF DocumentInit, EncodersServe
<1>2. EncodersServe /\ [DocumentNext]_documentVars => EncodersServe'
  <2> SUFFICES ASSUME EncodersServe, [DocumentNext]_documentVars PROVE EncodersServe'
    OBVIOUS
  <2>1. CASE UNCHANGED documentVars
    BY <2>1, Zenon DEF documentVars, EncodersServe
  <2>2. CASE Tick
    <3>1. held' \subseteq held
      BY <2>2, Zenon DEF Tick
    <3> QED BY <3>1, Zenon DEF EncodersServe
  <2>3. ASSUME NEW ps \in SUBSET (Profiles \ {DEV_SVIPE_PID_SD_JWT}), NEW pid, MakeAll(ps, pid)
        PROVE EncodersServe'
    <3>1. held' = {[profile |-> p, contents |-> Made(p, pid)] : p \in ps}
      BY <2>3, Zenon DEF MakeAll
    <3>2. ASSUME NEW x \in held'
          PROVE x.contents # Panic /\ (x.contents.bound_to_pid <=> x.profile \in PidBoundProfiles)
      <4>1. PICK p \in ps : x = [profile |-> p, contents |-> Made(p, pid)]
        BY <3>1, <3>2, Zenon
      <4>2. x.profile = p /\ x.contents = Made(p, pid)
        BY <4>1, SMT
      <4>3. Made(p, pid) # Panic /\ (Made(p, pid).bound_to_pid <=> p \in PidBoundProfiles)
        BY MadeServes, Zenon
      <4> QED BY <4>2, <4>3, Zenon
    <3> QED BY <3>2, Zenon DEF EncodersServe
  <2> QED BY <2>1, <2>2, <2>3, MakeOnly, Zenon
<1> QED BY <1>1, <1>2, PTL DEF DocumentSpec


PidRead(portrait) == PidSubjectClaims(document, portrait, now)

\* The two formats of a PID say of its subject what was read (issue_sd_jwt and
\* issue_mdoc, main.rs 3641-3746 and 3836-4075).
LEMMA PidMade == ASSUME NEW p \in NfcPidProfiles, NEW portrait
  PROVE LET made2 == Made(p, PidRead(portrait))
        IN  /\ made2.cnf = Holder /\ made2.validity = Validity(now)
            /\ made2.subject.person = document.person
            /\ made2.subject.birthdate = document.birthdate
            /\ made2.subject.age_over_18 = age_over_18(document.birthdate, now)
            /\ made2.subject.portrait = "image" <=> PidRead(portrait).portrait = "image"
<1> DEFINE pid == PidRead(portrait)
<1>1. /\ DOMAIN pid = {"person", "birthdate", "age_over_18", "portrait"}
      /\ pid.person = document.person /\ pid.birthdate = document.birthdate
  BY SMT DEF PidRead, PidSubjectClaims
<1>2. pid.age_over_18 = age_over_18(document.birthdate, now)
  BY Zenon DEF PidRead, PidSubjectClaims
<1>3. p \in Profiles \ {DEV_SVIPE_PID_SD_JWT}
  BY SMT DEF Profiles, NfcPidProfiles, PidRoleProfiles, PID_FROM_EMRTD_SD_JWT, PID_FROM_EMRTD_MDOC,
             DEV_SVIPE_PID_SD_JWT
<1>4. CASE p = PID_FROM_EMRTD_SD_JWT
  <2>1. Made(p, pid) = SdJwtContents(p, Holder, now, Evidence, pid)
    BY <1>3, <1>4, MadeBy, SMT DEF PID_SD_JWT, PID_FROM_EMRTD_SD_JWT, PID_FROM_EMRTD_MDOC, PID_MDOC,
       EAA_MDOC, HYBRID_PQ_SD_JWT, MANDATE_SD_JWT
  <2>2. SdJwtContents(p, Holder, now, Evidence, pid).subject = pid
    BY <1>4, SMT DEF SdJwtContents, PID_SD_JWT, PID_FROM_EMRTD_SD_JWT, DEV_SVIPE_PID_SD_JWT
  <2>3. SdJwtContents(p, Holder, now, Evidence, pid).cnf = Holder
        /\ SdJwtContents(p, Holder, now, Evidence, pid).validity = Validity(now)
    BY Zenon DEF SdJwtContents
  <2> QED BY <1>1, <1>2, <2>1, <2>2, <2>3, Zenon
<1>5. CASE p = PID_FROM_EMRTD_MDOC
  <2>1. Made(p, pid) = MdocContents(p, Holder, now, pid)
    BY <1>3, <1>5, MadeBy, SMT DEF PID_SD_JWT, PID_FROM_EMRTD_SD_JWT, PID_FROM_EMRTD_MDOC,
       QEAA_SD_JWT, QEAA_PID_BOUND_SD_JWT, TLSN_EVIDENCE_SD_JWT, HYBRID_PQ_SD_JWT, MANDATE_SD_JWT
  <2>2. MdocContents(p, Holder, now, pid).subject = [pid EXCEPT !.portrait = DecodedPortrait(@)]
    BY <1>5, SMT DEF MdocContents, PID_FROM_EMRTD_MDOC, EAA_MDOC
  <2>3. MdocContents(p, Holder, now, pid).cnf = Holder
        /\ MdocContents(p, Holder, now, pid).validity = Validity(now)
    BY Zenon DEF MdocContents
  <2> DEFINE subject == [pid EXCEPT !.portrait = DecodedPortrait(@)]
  <2>4. /\ subject.person = pid.person /\ subject.birthdate = pid.birthdate
        /\ subject.age_over_18 = pid.age_over_18
        /\ subject.portrait = DecodedPortrait(pid.portrait)
    BY <1>1, SMT
  <2>5. DecodedPortrait(pid.portrait) = "image" <=> pid.portrait = "image"
    BY SMT DEF DecodedPortrait
  <2> HIDE DEF subject
  <2>6. Made(p, pid).subject = subject
    BY <2>1, <2>2, Zenon DEF subject
  <2> QED BY <1>1, <1>2, <2>1, <2>3, <2>4, <2>5, <2>6, Zenon
<1> QED BY <1>4, <1>5, Zenon DEF NfcPidProfiles

\* The clock never takes a birthday back (age_over_18, main.rs 2885-2902).
LEMMA AgeGrows == ASSUME DateInv, Tick PROVE age >= 18 => age' >= 18
<1> DEFINE b == document.birthdate
<1>1. age' = age \/ (age' = age + 1 /\ b # <<>>)
  BY SMT DEF Tick
<1>2. b # <<>> => age = AgeOn(b, date) /\ AgeOn(b, date) \in Int
  BY DateReal, AgeStep, Zenon DEF DateInv
<1> QED BY <1>1, <1>2, SMT

\* A PID made of a read document says what the document says, in both formats,
\* and goes on telling the truth until it expires (issue_sd_jwt, issue_mdoc and
\* decode_portrait_bytes, main.rs 3641-3746 and 3836-4075).
THEOREM HeldPidTrueAlways == DocumentSpec => []HeldPidTrue
<1>1. DocumentInit => HeldPidTrue
  BY SMT DEF DocumentInit, HeldPidTrue
<1>2. DateInv /\ HeldPidTrue /\ [DocumentNext]_documentVars => HeldPidTrue'
  <2> SUFFICES ASSUME DateInv, HeldPidTrue, [DocumentNext]_documentVars PROVE HeldPidTrue'
    OBVIOUS
  <2>1. CASE UNCHANGED documentVars
    BY <2>1, Zenon DEF documentVars, HeldPidTrue
  <2>2. CASE Tick
    <3>1. held' \subseteq held /\ document' = document
      BY <2>2, Zenon DEF Tick
    <3>2. age >= 18 => age' >= 18
      BY <2>2, AgeGrows
    <3> QED BY <3>1, <3>2, Zenon DEF HeldPidTrue
  <2>3. ASSUME NEW p \in Profiles \ (NfcPidProfiles \cup {DEV_SVIPE_PID_SD_JWT}), Make(p)
        PROVE HeldPidTrue'
    <3>1. held' = {[profile |-> q, contents |-> Made(q, None)] : q \in {p}}
      BY <2>3, Zenon DEF Make, MakeAll
    <3>2. \A x \in held' : x.profile \notin NfcPidProfiles
      BY <3>1, SMT
    <3> QED BY <3>2, Zenon DEF HeldPidTrue
  <2>4. ASSUME NEW ps \in {{PID_FROM_EMRTD_SD_JWT}, NfcPidProfiles}, NEW portrait \in Portraits,
               MakePid(ps, portrait)
        PROVE HeldPidTrue'
    <3> DEFINE pid == PidRead(portrait)
    <3>1. /\ held' = {[profile |-> p, contents |-> Made(p, pid)] : p \in ps}
          /\ document' = document /\ age' = age
      BY <2>4, Zenon DEF MakePid, MakeAll, PidRead
    <3>2. ps \subseteq NfcPidProfiles
      BY Zenon DEF NfcPidProfiles
    <3>3. age_over_18(document.birthdate, now) => age >= 18
      BY ReadExactly, Zenon DEF DatesReadExactly
    <3>4. ASSUME NEW x \in held'
          PROVE /\ x.contents.cnf = Holder /\ x.contents.validity = Validity(now)
                /\ x.contents.subject.person = document.person
                /\ x.contents.subject.birthdate = document.birthdate
                /\ x.contents.subject.age_over_18 = age_over_18(document.birthdate, now)
                /\ x.contents.subject.portrait = "image" <=> pid.portrait = "image"
      <4>1. PICK p \in ps : x = [profile |-> p, contents |-> Made(p, pid)]
        BY <3>1, <3>4, Zenon
      <4>2. x.contents = Made(p, pid)
        BY <4>1, SMT
      <4>3. p \in NfcPidProfiles
        BY <3>2, Zenon
      <4> QED BY <4>2, <4>3, PidMade, Zenon
    <3> HIDE DEF pid
    <3>5. ASSUME NEW x \in held', NEW y \in held'
          PROVE (y.contents.subject.portrait = "image") = (x.contents.subject.portrait = "image")
      <4>1. y.contents.subject.portrait = "image" <=> x.contents.subject.portrait = "image"
        BY <3>4, Zenon
      <4> QED BY <4>1, SMT
    <3>6. ASSUME NEW x \in held' PROVE x.contents.subject.age_over_18 => age' >= 18
      BY <3>1, <3>3, <3>4, Zenon
    <3>7. ASSUME NEW x \in held'
          PROVE /\ x.contents.subject.person = document'.person
                /\ x.contents.subject.birthdate = document'.birthdate
                /\ x.contents.subject.age_over_18 => age' >= 18
                /\ \A y \in held' :
                      /\ y.contents.cnf = x.contents.cnf
                      /\ y.contents.validity = x.contents.validity
                      /\ y.contents.subject.age_over_18 = x.contents.subject.age_over_18
      BY <3>1, <3>4, <3>6, Zenon
    <3> QED BY <3>5, <3>7, Zenon DEF HeldPidTrue
  <2> QED BY <2>1, <2>2, <2>3, <2>4, Zenon DEF DocumentNext
<1> QED BY <1>1, <1>2, DateInvAlways, PTL DEF DocumentSpec


-----------------------------------------------------------------------------
(* Changes to a message.                                                   *)

Shape(w, n) == n \in Nat /\ w \in [1..n -> {w[i] : i \in 1..n}] /\ Len(w) = n

\* A field changed, the last one lost or one added: every other field of the
\* message is as it was.
LEMMA Changed ==
  ASSUME NEW w, NEW n, NEW fields \in Nat \ {0}, Shape(w, n), FieldsOf[made] = fields,
         NEW w2 \in MessageChanges(w)
  PROVE  \E m : /\ Shape(w2, m) /\ (m = n \/ (n = fields /\ m \in {fields - 1, fields + 1}))
                /\ \A j \in 1..m : j <= n => w2[j] = w[j] \/ w2[j] \in Others(j)
<1> DEFINE S == {w[i] : i \in 1..n} \cup {"another"}
<1>1. n \in Nat /\ w \in [1..n -> S] /\ Len(w) = n /\ DOMAIN w = 1..n
  BY SMT DEF Shape
<1>2. w \in Seq(S)
  BY <1>1, SMT
<1> HIDE DEF S
<1>3. ASSUME NEW i \in 1..n, NEW v \in Others(i), w2 = [w EXCEPT ![i] = v]
      PROVE  Shape(w2, n) /\ \A j \in 1..n : w2[j] = w[j] \/ w2[j] \in Others(j)
  <2>1. w2 \in [1..n -> S \cup {v}]
    BY <1>1, <1>3, SMT
  <2>2. w2 \in Seq(S \cup {v}) /\ Len(w2) = n
    BY <1>1, <2>1, SMT
  <2>3. \A j \in 1..n : w2[j] = IF j = i THEN v ELSE w[j]
    BY <1>1, <1>3, SMT
  <2> QED BY <1>1, <1>3, <2>1, <2>2, <2>3, SMT DEF Shape
<1>4. ASSUME n = fields, w2 = SubSeq(w, 1, fields - 1)
      PROVE  Shape(w2, fields - 1) /\ \A j \in 1..(fields - 1) : w2[j] = w[j]
  <2>1. w2 \in Seq(S) /\ Len(w2) = fields - 1 /\ \A j \in 1..(fields - 1) : w2[j] = w[j]
    BY <1>1, <1>2, <1>4, SMT
  <2>2. w2 \in [1..(fields - 1) -> S]
    BY <2>1, SMT
  <2> QED BY <2>1, <2>2, SMT DEF Shape
<1>5. ASSUME n = fields, w2 = Append(w, "another")
      PROVE  Shape(w2, fields + 1) /\ \A j \in 1..fields : w2[j] = w[j]
  <2>1. w2 \in Seq(S) /\ Len(w2) = fields + 1 /\ \A j \in 1..fields : w2[j] = w[j]
    BY <1>1, <1>2, <1>5, SMT DEF S
  <2>2. w2 \in [1..(fields + 1) -> S]
    BY <2>1, SMT
  <2> QED BY <2>1, <2>2, SMT DEF Shape
<1>6. \/ \E i \in 1..n : \E v \in Others(i) : w2 = [w EXCEPT ![i] = v]
      \/ n = fields /\ w2 = SubSeq(w, 1, fields - 1)
      \/ n = fields /\ w2 = Append(w, "another")
  <2> DEFINE one == {{[w EXCEPT ![i] = v] : v \in Others(i)} : i \in DOMAIN w}
             ends == IF Len(w) = FieldsOf[made]
                     THEN {SubSeq(w, 1, FieldsOf[made] - 1), Append(w, "another")} ELSE {}
  <2>1. MessageChanges(w) = (UNION one) \cup ends
    BY Zenon DEF MessageChanges
  <2>2. CASE w2 \in UNION one
    <3>1. PICK i \in DOMAIN w : w2 \in {[w EXCEPT ![i] = v] : v \in Others(i)}
      BY <2>2, Zenon
    <3>2. PICK v \in Others(i) : w2 = [w EXCEPT ![i] = v]
      BY <3>1, Zenon
    <3> QED BY <1>1, <3>2, Zenon
  <2>3. CASE w2 \in ends
    <3>1. n = fields /\ w2 \in {SubSeq(w, 1, fields - 1), Append(w, "another")}
      BY <1>1, <2>3, Zenon
    <3> QED BY <3>1, Zenon
  <2> HIDE DEF one, ends
  <2> QED BY <2>1, <2>2, <2>3, Zenon
<1>7. CASE \E i \in 1..n : \E v \in Others(i) : w2 = [w EXCEPT ![i] = v]
  BY <1>3, <1>7, Zenon
<1>8. CASE n = fields /\ w2 = SubSeq(w, 1, fields - 1)
  BY <1>4, <1>8, Zenon
<1>9. CASE n = fields /\ w2 = Append(w, "another")
  <2>1. \A j \in 1..(fields + 1) : j <= n => w2[j] = w[j]
    <3>1. \A j \in 1..fields : w2[j] = w[j]
      BY <1>5, <1>9, Zenon
    <3> QED BY <1>1, <1>9, <3>1, SMT
  <2> QED BY <1>5, <1>9, <2>1, Zenon
<1> QED BY <1>6, <1>7, <1>8, <1>9, Zenon


-----------------------------------------------------------------------------
(* What is composed, and what is expected.                                 *)

ContextFields == {"wallet", "issuer", "generation", "transaction", "session", "audience",
                  "nonce", "created", "expires", "transcript"}
IsContext(c) ==
    /\ DOMAIN c = ContextFields /\ c = [f \in ContextFields |-> c[f]]
    /\ c["transcript"] # Absent => c["transcript"] # <<>>

\* A field set to a value it may have leaves a context.
LEMMA FieldSet == ASSUME NEW c, IsContext(c), NEW f, NEW v,
                         f = "transcript" /\ v # Absent => v # <<>>
  PROVE IsContext([c EXCEPT ![f] = v])
  BY SMT DEF IsContext, ContextFields

\* A context with one field changed is one.
Alters(x, c, f, v) == x = [c EXCEPT ![f] = v] /\ (f = "transcript" /\ v # Absent => v # <<>>)
LEMMA FieldChanged == ASSUME NEW c, IsContext(c), NEW x, NEW f, NEW v, Alters(x, c, f, v)
                      PROVE IsContext(x)
  BY FieldSet, Zenon DEF Alters

\* The probe changes a context a field at a time.
LEMMA ContextKept == ASSUME NEW c, IsContext(c), NEW x \in ContextChanges(c) PROVE IsContext(x)
<1> DEFINE wallets == {[c EXCEPT !.wallet = v] : v \in ByteStrings}
           options == {[c EXCEPT ![f] = v] : f \in OptionalFields, v \in ByteStrings \cup {Absent}}
           transcripts == {[c EXCEPT !.transcript = v] : v \in {<<"a">>, <<"b">>, Absent}}
           generations == {[c EXCEPT !.generation = v] : v \in 0..2}
           nonces == {[c EXCEPT !.nonce = [i \in 1..n |-> b]] :
                         n \in (MinNonce - 1)..(MaxNonce + 1), b \in {"a", "b"}}
           creations == {[c EXCEPT !.created = v] : v \in 0..2}
           expiries == {[c EXCEPT !.expires = v] : v \in 1..3}
<1>1. CASE x \in wallets
  <2>1. PICK v : Alters(x, c, "wallet", v)
    BY <1>1, SMT DEF Alters
  <2> QED BY <2>1, FieldChanged, Zenon
<1>2. CASE x \in options
  <2>1. PICK f \in OptionalFields, v \in ByteStrings \cup {Absent} : x = [c EXCEPT ![f] = v]
    BY <1>2, SMT
  <2>2. Alters(x, c, f, v)
    BY <2>1, SMT DEF Alters, OptionalFields
  <2> QED BY <2>2, FieldChanged, Zenon
<1>3. CASE x \in transcripts
  <2>1. PICK v \in {<<"a">>, <<"b">>, Absent} : x = [c EXCEPT !.transcript = v]
    BY <1>3, Zenon
  <2>2. Alters(x, c, "transcript", v)
    BY <2>1, SMT DEF Alters
  <2> QED BY <2>2, FieldChanged, Zenon
<1>4. CASE x \in generations
  <2>1. PICK v : Alters(x, c, "generation", v)
    BY <1>4, SMT DEF Alters
  <2> QED BY <2>1, FieldChanged, Zenon
<1>5. CASE x \in nonces
  <2>1. PICK n \in (MinNonce - 1)..(MaxNonce + 1), b \in {"a", "b"} :
           x = [c EXCEPT !.nonce = [i \in 1..n |-> b]]
    BY <1>5, SMT
  <2> DEFINE v == [i \in 1..n |-> b]
  <2> HIDE DEF v
  <2>2. Alters(x, c, "nonce", v)
    BY <2>1, SMT DEF Alters, v
  <2> QED BY <2>2, FieldChanged, Zenon
<1>6. CASE x \in creations
  <2>1. PICK v : Alters(x, c, "created", v)
    BY <1>6, SMT DEF Alters
  <2> QED BY <2>1, FieldChanged, Zenon
<1>7. CASE x \in expiries
  <2>1. PICK v : Alters(x, c, "expires", v)
    BY <1>7, SMT DEF Alters
  <2> QED BY <2>1, FieldChanged, Zenon
<1>8. ContextChanges(c) = wallets \cup options \cup transcripts \cup generations \cup nonces
                             \cup creations \cup expiries
  BY SMT DEF ContextChanges
<1> HIDE DEF wallets, options, transcripts, generations, nonces, creations, expiries
<1> QED BY <1>1, <1>2, <1>3, <1>4, <1>5, <1>6, <1>7, <1>8, Zenon

\* A record of the ten fields is a context.
LEMMA ContextOf ==
  ASSUME NEW w, NEW i, NEW g, NEW t, NEW n, NEW a, NEW b, NEW k, NEW l, NEW e,
         e # Absent => e # <<>>
  PROVE  IsContext([wallet |-> w, issuer |-> i, generation |-> g, transaction |-> t,
                    session |-> n, audience |-> a, nonce |-> b, created |-> k, expires |-> l,
                    transcript |-> e])
  BY SMT DEF IsContext, ContextFields

\* The context each purpose begins with.
LEMMA ContextBegins == ASSUME NEW purpose PROVE IsContext(ContextFor(purpose))
<1>1. (IF "transcript" \in NeededBy(purpose) THEN <<"a">> ELSE Absent) # Absent =>
      (IF "transcript" \in NeededBy(purpose) THEN <<"a">> ELSE Absent) # <<>>
  BY SMT
<1>2. ContextFor(purpose) =
         LET Needed(f) == IF f \in NeededBy(purpose) THEN <<"a">> ELSE Absent
         IN  [wallet |-> <<"a">>, issuer |-> Needed("issuer"), generation |-> 1,
              transaction |-> Needed("transaction"), session |-> Needed("session"),
              audience |-> Needed("audience"), nonce |-> [i \in 1..MinNonce |-> "a"],
              created |-> 1, expires |-> 2, transcript |-> Needed("transcript")]
  BY DEF ContextFor
<1> HIDE DEF ContextFor
<1> QED BY <1>1, <1>2, ContextOf


EnvelopeFields == {"purpose", "context", "payload", "disclosures", "classical_kid", "pq_kid",
                   "generation"}
IsEnvelope(u) ==
    DOMAIN u = EnvelopeFields /\ u["purpose"] \in Purposes /\ IsContext(u["context"])

ParameterFields == {"purpose", "context", "classical_kid", "pq_kid", "classical_key", "pq_key",
                    "generation"}
IsParameters(p) == DOMAIN p = ParameterFields /\ IsContext(p["context"])

\* An envelope, or what is expected of one, with one field changed.
LEMMA EnvelopeFieldSet == ASSUME NEW u, IsEnvelope(u), NEW f, f # "purpose", NEW v,
                                 f = "context" => IsContext(v)
  PROVE IsEnvelope([u EXCEPT ![f] = v]) /\ [u EXCEPT ![f] = v]["purpose"] = u["purpose"]
  BY SMT DEF IsEnvelope, EnvelopeFields

\* The same for the parameters of the verification.
LEMMA ParameterSet == ASSUME NEW p, IsParameters(p), NEW f, NEW v, f = "context" => IsContext(v)
  PROVE IsParameters([p EXCEPT ![f] = v])
  BY SMT DEF IsParameters, ParameterFields

\* The probe composes envelopes, for the purpose it began with.
LEMMA EnvelopeKept == ASSUME NEW u, IsEnvelope(u), NEW x \in UnsignedChanges(u)
                      PROVE IsEnvelope(x) /\ x["purpose"] = u["purpose"]
<1>1. \/ \E c \in ContextChanges(u.context) : x = [u EXCEPT !.context = c]
      \/ \E v \in ByteStrings : x = [u EXCEPT !.payload = v]
      \/ \E v \in DisclosureLists : x = [u EXCEPT !.disclosures = v]
      \/ x = [u EXCEPT !.classical_kid = <<"z">>]
      \/ x = [u EXCEPT !.pq_kid = <<"z">>]
      \/ \E v \in {0, 2} : x = [u EXCEPT !.generation = v]
  BY SMT DEF UnsignedChanges
<1>2. ASSUME NEW c \in ContextChanges(u.context), x = [u EXCEPT !.context = c]
      PROVE IsEnvelope(x) /\ x["purpose"] = u["purpose"]
  <2>1. IsContext(c)
    BY ContextKept, Zenon DEF IsEnvelope
  <2>2. IsEnvelope([u EXCEPT !["context"] = c])
        /\ [u EXCEPT !["context"] = c]["purpose"] = u["purpose"]
    BY <2>1, EnvelopeFieldSet, SMT
  <2> QED BY <1>2, <2>2, SMT
<1>3. ASSUME NEW f \in EnvelopeFields \ {"purpose", "context"}, NEW v, x = [u EXCEPT ![f] = v]
      PROVE IsEnvelope(x) /\ x["purpose"] = u["purpose"]
  <2>1. f # "purpose" /\ f # "context"
    BY <1>3
  <2> QED BY <1>3, <2>1, EnvelopeFieldSet, Zenon
<1>4. \A f \in {"payload", "disclosures", "classical_kid", "pq_kid", "generation"} :
         f \in EnvelopeFields \ {"purpose", "context"}
  BY SMT DEF EnvelopeFields
<1> QED BY <1>1, <1>2, <1>3, <1>4, Zenon

\* The probe changes what is expected a field at a time.
LEMMA ParametersKept == ASSUME NEW p, IsParameters(p), NEW x \in ExpectedChanges(p)
                        PROVE IsParameters(x)
<1>1. \/ \E c \in ContextChanges(p.context) : x = [p EXCEPT !.context = c]
      \/ \E v \in Purposes : x = [p EXCEPT !.purpose = v]
      \/ x = [p EXCEPT !.classical_kid = <<"z">>]
      \/ x = [p EXCEPT !.pq_kid = <<"z">>]
      \/ x = [p EXCEPT !.classical_key = PublicKey(Stranger)]
      \/ x = [p EXCEPT !.pq_key = PublicKey(Stranger)]
      \/ x = [p EXCEPT !.generation = 2]
  BY SMT DEF ExpectedChanges
<1>2. ASSUME NEW c \in ContextChanges(p.context), x = [p EXCEPT !.context = c]
      PROVE IsParameters(x)
  <2>1. IsContext(c)
    BY ContextKept, Zenon DEF IsParameters
  <2>2. IsParameters([p EXCEPT !["context"] = c])
    BY <2>1, ParameterSet, SMT
  <2> QED BY <1>2, <2>2, SMT
<1>3. ASSUME NEW f, f # "context", NEW v, x = [p EXCEPT ![f] = v] PROVE IsParameters(x)
  BY <1>3, ParameterSet, Zenon
<1>4. \A f \in {"purpose", "classical_kid", "pq_kid", "classical_key", "pq_key", "generation"} :
         f # "context"
  BY SMT
<1> QED BY <1>1, <1>2, <1>3, <1>4, Zenon

\* What was composed, the guards under which it was signed, and what is expected.
ComposedInv ==
    /\ changes \in Nat
    /\ IsEnvelope(unsigned) /\ IsParameters(expected)
    /\ made = "wrapper" =>
          /\ SignerAdmits(unsigned) /\ CanTbs(unsigned)
          /\ CanEncode(unsigned, Signature(Signer.classical, Tbs(unsigned)),
                       Signature(Signer.pq, Tbs(unsigned)))

\* The parameters of a reader told everything as it was.
LEMMA ToldParameters == ASSUME NEW u, IsEnvelope(u) PROVE IsParameters(ParametersOf(u))
<1>1. DOMAIN ParametersOf(u) = ParameterFields
  BY SMT DEF ParametersOf, ParameterFields
<1>2. ParametersOf(u)["context"] = u["context"]
  BY SMT DEF ParametersOf
<1> QED BY <1>1, <1>2, Zenon DEF IsEnvelope, IsParameters

\* Each purpose begins with an envelope.
LEMMA EnvelopeBegins == ASSUME NEW purpose \in Purposes
  PROVE IsEnvelope(UnsignedFor(purpose)) /\ UnsignedFor(purpose)["purpose"] = purpose
<1>1. DOMAIN UnsignedFor(purpose) = EnvelopeFields
  BY SMT DEF UnsignedFor, EnvelopeFields
<1>2. UnsignedFor(purpose)["context"] = ContextFor(purpose)
      /\ UnsignedFor(purpose)["purpose"] = purpose
  BY SMT DEF UnsignedFor
<1> QED BY <1>1, <1>2, ContextBegins, Zenon DEF IsEnvelope

\* Nothing composed changes once it is signed (sign_envelope).
LEMMA ComposedAlways == EnvelopeSpec => []ComposedInv
<1>1. EnvelopeInit => ComposedInv
  <2> SUFFICES ASSUME EnvelopeInit PROVE ComposedInv
    OBVIOUS
  <2>1. PICK purpose \in Purposes : unsigned = UnsignedFor(purpose)
    BY Zenon DEF EnvelopeInit
  <2>2. IsEnvelope(unsigned) /\ IsParameters(expected)
    BY <2>1, EnvelopeBegins, ToldParameters, Zenon DEF EnvelopeInit
  <2>3. changes \in Nat /\ made # "wrapper"
    BY SMT DEF EnvelopeInit
  <2> QED BY <2>2, <2>3, Zenon DEF ComposedInv
<1>2. ComposedInv /\ [EnvelopeNext]_envelopeVars => ComposedInv'
  <2> SUFFICES ASSUME ComposedInv, [EnvelopeNext]_envelopeVars PROVE ComposedInv'
    OBVIOUS
  <2>1. CASE UNCHANGED envelopeVars
    BY <2>1, Zenon DEF envelopeVars, ComposedInv
  <2>2. CASE Compose
    <3>1. unsigned' \in UnsignedChanges(unsigned) /\ expected' = ParametersOf(unsigned')
          /\ made' = "nothing"
      BY <2>2, Zenon DEF Compose
    <3>2. changes' \in Nat /\ made' # "wrapper"
      BY <2>2, <3>1, SMT DEF Compose, ComposedInv
    <3>3. IsEnvelope(unsigned')
      BY <3>1, EnvelopeKept, Zenon DEF ComposedInv
    <3>4. IsParameters(expected')
      BY <3>1, <3>3, ToldParameters, Zenon
    <3> QED BY <3>2, <3>3, <3>4, Zenon DEF ComposedInv
  <2>3. CASE SignEnvelope
    BY <2>3, Zenon DEF SignEnvelope, ComposedInv
  <2>4. CASE PublishKeys \/ SendSignatures
    <3>1. made' # "wrapper"
      BY <2>4, SMT DEF PublishKeys, SendSignatures
    <3> QED BY <2>4, <3>1, Zenon DEF PublishKeys, SendSignatures, ComposedInv
  <2>5. CASE ChangeMessage
    <3>1. changes' \in Nat
      BY <2>5, SMT DEF ChangeMessage, ComposedInv
    <3> QED BY <2>5, <3>1, Zenon DEF ChangeMessage, ComposedInv
  <2>6. CASE ChangeExpected
    <3>1. changes' \in Nat
      BY <2>6, SMT DEF ChangeExpected, ComposedInv
    <3>2. IsParameters(expected')
      BY <2>6, ParametersKept, Zenon DEF ChangeExpected, ComposedInv
    <3> QED BY <2>6, <3>1, <3>2, Zenon DEF ChangeExpected, ComposedInv
  <2>7. CASE StrangerSigns
    BY <2>7, Zenon DEF StrangerSigns, ComposedInv
  <2> QED BY <2>1, <2>2, <2>3, <2>4, <2>5, <2>6, <2>7, Zenon DEF EnvelopeNext
<1> QED BY <1>1, <1>2, PTL DEF EnvelopeSpec


-----------------------------------------------------------------------------
(* The message on its way.                                                 *)

IsKey(v) == "point" \in DOMAIN v /\ "over" \notin DOMAIN v
IsSigned(v) == "over" \in DOMAIN v /\ "point" \notin DOMAIN v

\* Where a message of each kind carries keys or signatures.
KeyFields == {4, 5}
SignatureFields(kind) == IF kind = "wrapper" THEN {10, 11} ELSE {4, 5}

\* Where a signature belongs there is one of the signer, over an envelope it has
\* signed, or one cut short, or one of the stranger, over anything.
ByStranger(v) == IsSigned(v) /\ v["key"] = Stranger
Carried(v) == v \in OtherSignatures \/ ByStranger(v)

\* However a message was changed, it is short or long by one field at most, and
\* a key stays a key and a signature one of those.
MessageInv ==
    /\ made \in {"nothing", "wrapper", "keys", "signatures"}
    /\ made = "nothing" => wire = <<>>
    /\ made # "nothing" =>
          \E n : Shape(wire, n) /\ n \in {FieldsOf[made] - 1, FieldsOf[made], FieldsOf[made] + 1}
    /\ made = "keys" => \A i \in KeyFields : i <= Len(wire) => IsKey(wire[i])
    /\ made \in {"signatures", "wrapper"} =>
          \A i \in SignatureFields(made) : i <= Len(wire) => Carried(wire[i])
    /\ made = "signatures" /\ changes = 0 => wire[6] = unsigned.purpose

\* The fields of each kind of message (the three encoders).
LEMMA Lengths == /\ FieldsOf["wrapper"] = 11 /\ FieldsOf["keys"] = 5 /\ FieldsOf["signatures"] = 6
  BY SMT DEF FieldsOf

\* A message as its encoder writes it.
LEMMA FiveFields == ASSUME NEW a, NEW b, NEW c, NEW d, NEW e PROVE Shape(<<a, b, c, d, e>>, 5)
  BY SMT DEF Shape
LEMMA SixFields == ASSUME NEW a, NEW b, NEW c, NEW d, NEW e, NEW f
                   PROVE Shape(<<a, b, c, d, e, f>>, 6)
  BY SMT DEF Shape
LEMMA ElevenFields == ASSUME NEW a, NEW b, NEW c, NEW d, NEW e, NEW f, NEW g, NEW h, NEW i, NEW j,
                             NEW k
                      PROVE Shape(<<a, b, c, d, e, f, g, h, i, j, k>>, 11)
  BY SMT DEF Shape

\* What a key or a signature is exchanged for is another.
LEMMA OthersOf ==
  /\ made = "keys" => \A i \in KeyFields : \A v \in Others(i) : IsKey(v)
  /\ made \in {"signatures", "wrapper"} =>
        \A i \in SignatureFields(made) : Others(i) = OtherSignatures
<1>1. ASSUME made = "keys", NEW i \in KeyFields PROVE Others(i) = {PublicKey(Stranger)}
  BY <1>1, SMT DEF Others, KeyFields
<1>2. IsKey(PublicKey(Stranger))
  BY SMT DEF IsKey, PublicKey
<1>3. ASSUME made = "signatures", NEW i \in {4, 5} PROVE Others(i) = OtherSignatures
  BY <1>3, SMT DEF Others
<1>4. ASSUME made = "wrapper", NEW i \in {10, 11} PROVE Others(i) = OtherSignatures
  BY <1>4, SMT DEF Others
<1> QED BY <1>1, <1>2, <1>3, <1>4, SMT DEF SignatureFields

\* No signature is a key.
LEMMA SignaturesSigned == ASSUME NEW v, Carried(v) PROVE IsSigned(v)
<1>1. \A name, message : IsSigned(Signature(name, message))
  BY SMT DEF IsSigned, Signature
<1>2. v \in OtherSignatures => IsSigned(v)
  BY <1>1, SMT DEF OtherSignatures, Short
<1> QED BY <1>2, Zenon DEF Carried, ByStranger

\* The signer's own signatures are among those there are.
LEMMA OwnSignatures == Signature(Signer.classical, Tbs(unsigned)) \in OtherSignatures
                       /\ Signature(Signer.pq, Tbs(unsigned)) \in OtherSignatures
  BY SMT DEF OtherSignatures, SignedEnvelopes

\* What the signer has signed depends on what was composed alone.
LEMMA SignaturesKept == ASSUME unsigned' = unsigned PROVE OtherSignatures' = OtherSignatures
  BY SMT DEF OtherSignatures, SignedEnvelopes
LEMMA CarriedKept == ASSUME unsigned' = unsigned, NEW i
                     PROVE  Carried(wire[i])' <=> Carried(wire'[i])
  BY SignaturesKept, Zenon DEF Carried

\* What is written: an envelope, the keys, the signatures (hybrid_codec.rs 243-387).
LEMMA MessageWritten == ASSUME MessageInv, SignEnvelope \/ PublishKeys \/ SendSignatures
                        PROVE MessageInv'
<1>1. CASE SignEnvelope
  <2>1. made' = "wrapper" /\ unsigned' = unsigned
    BY <1>1, Zenon DEF SignEnvelope
  <2>2. Shape(wire', 11)
    BY <1>1, ElevenFields, Zenon DEF SignEnvelope, Issued, Encode
  <2>3. wire'[10] = Signature(Signer.classical, Tbs(unsigned))
        /\ wire'[11] = Signature(Signer.pq, Tbs(unsigned))
    BY <1>1, SMT DEF SignEnvelope, Issued, Encode
  <2>4. \A i \in SignatureFields("wrapper") : wire'[i] \in OtherSignatures
    BY <2>3, OwnSignatures, SMT DEF SignatureFields
  <2>5. \A i \in SignatureFields("wrapper") : Carried(wire[i])'
    BY <2>1, <2>4, CarriedKept, Zenon DEF Carried
  <2> QED BY <2>1, <2>2, <2>5, Lengths, SMT DEF MessageInv
<1>2. CASE PublishKeys
  <2>1. made' = "keys"
    BY <1>2, Zenon DEF PublishKeys
  <2>2. Shape(wire', 5)
    BY <1>2, FiveFields, Zenon DEF PublishKeys, EncodePublicKeys
  <2>3. wire'[4] = PublicKey(Signer.classical) /\ wire'[5] = PublicKey(Signer.pq)
    BY <1>2, SMT DEF PublishKeys, EncodePublicKeys
  <2>4. \A i \in KeyFields : IsKey(wire'[i])
    BY <2>3, SMT DEF KeyFields, IsKey, PublicKey
  <2> QED BY <2>1, <2>2, <2>4, Lengths, SMT DEF MessageInv
<1>3. CASE SendSignatures
  <2>1. made' = "signatures" /\ unsigned' = unsigned
    BY <1>3, Zenon DEF SendSignatures
  <2>2. Shape(wire', 6)
    BY <1>3, SixFields, Zenon DEF SendSignatures, EncodeSignatures
  <2>3. /\ wire'[4] = Signature(Signer.classical, Tbs(unsigned))
        /\ wire'[5] = Signature(Signer.pq, Tbs(unsigned))
        /\ wire'[6] = unsigned.purpose
    BY <1>3, SMT DEF SendSignatures, EncodeSignatures
  <2>4. \A i \in SignatureFields("signatures") : wire'[i] \in OtherSignatures
    BY <2>3, OwnSignatures, SMT DEF SignatureFields
  <2>5. \A i \in SignatureFields("signatures") : Carried(wire[i])'
    BY <2>1, <2>4, CarriedKept, Zenon DEF Carried
  <2> QED BY <2>1, <2>2, <2>3, <2>5, Lengths, SMT DEF MessageInv
<1> QED BY <1>1, <1>2, <1>3

\* What becomes of it on its way.
LEMMA MessageChanged == ASSUME MessageInv, ComposedInv, ChangeMessage PROVE MessageInv'
<1>1. /\ made # "nothing" /\ made' = made /\ unsigned' = unsigned
      /\ wire' \in MessageChanges(wire) /\ changes' = changes + 1
  BY Zenon DEF ChangeMessage
<1>2. changes' # 0
  BY <1>1, SMT DEF ComposedInv
<1>3. made \in {"wrapper", "keys", "signatures"} /\ FieldsOf[made] \in {5, 6, 11}
  BY <1>1, Lengths, SMT DEF MessageInv
<1> DEFINE fields == FieldsOf[made]
<1>4. PICK n : Shape(wire, n) /\ n \in {fields - 1, fields, fields + 1}
  BY <1>1, Zenon DEF MessageInv
<1>5. fields \in Nat \ {0}
  BY <1>3, SMT
<1>6. PICK m : /\ Shape(wire', m) /\ (m = n \/ (n = fields /\ m \in {fields - 1, fields + 1}))
               /\ \A j \in 1..m : j <= n => wire'[j] = wire[j] \/ wire'[j] \in Others(j)
  BY <1>1, <1>4, <1>5, Changed, Zenon
<1>7. m \in {fields - 1, fields, fields + 1} /\ Len(wire') = m /\ Len(wire) = n
      /\ m \in Nat /\ n \in Nat
  BY <1>4, <1>6, SMT DEF Shape
<1>9. ASSUME made = "keys", NEW i \in KeyFields, i <= Len(wire') PROVE IsKey(wire'[i])
  <2>1. i \in 1..m /\ i <= n
    BY <1>4, <1>6, <1>7, <1>9, Lengths, SMT DEF KeyFields
  <2>2. wire'[i] = wire[i] \/ wire'[i] \in Others(i)
    BY <1>6, <2>1, Zenon
  <2>3. IsKey(wire[i])
    BY <1>7, <1>9, <2>1, Zenon DEF MessageInv
  <2> QED BY <1>9, <2>2, <2>3, OthersOf, Zenon
<1>10. ASSUME made \in {"signatures", "wrapper"}, NEW i \in SignatureFields(made), i <= Len(wire')
       PROVE Carried(wire[i])'
  <2>1. i \in 1..m /\ i <= n
    BY <1>4, <1>6, <1>7, <1>10, Lengths, SMT DEF SignatureFields
  <2>2. wire'[i] = wire[i] \/ wire'[i] \in Others(i)
    BY <1>6, <2>1, Zenon
  <2>3. Carried(wire[i])
    BY <1>7, <1>10, <2>1, Zenon DEF MessageInv
  <2>4. Carried(wire'[i])
    BY <1>10, <2>2, <2>3, OthersOf, Zenon DEF Carried
  <2> QED BY <1>1, <2>4, CarriedKept, Zenon
<1>11. \E k : Shape(wire', k) /\ k \in {fields - 1, fields, fields + 1}
  BY <1>6, <1>7, Zenon
<1> QED BY <1>1, <1>2, <1>3, <1>9, <1>10, <1>11, Zenon DEF MessageInv

\* A stranger's signature takes the place of one of the two.
LEMMA StrangerSigned == ASSUME MessageInv, StrangerSigns PROVE MessageInv'
<1>1. made = "wrapper" /\ made' = made /\ unsigned' = unsigned /\ Len(wire) = 11
  BY Lengths, Zenon DEF StrangerSigns
<1> DEFINE message == Tbs(Decoded(wire, expected.context))
<1>2. PICK i \in {10, 11} : wire' = [wire EXCEPT ![i] = Signature(Stranger, message)]
  BY Zenon DEF StrangerSigns
<1> HIDE DEF message
<1>3. PICK n : Shape(wire, n)
  BY <1>1, SMT DEF MessageInv
<1>4. n = 11 /\ wire \in [1..11 -> {wire[j] : j \in 1..11}]
  BY <1>1, <1>3, Zenon DEF Shape
<1>5. wire'[i] = Signature(Stranger, message) /\ \A j \in 1..11 : j # i => wire'[j] = wire[j]
  BY <1>2, <1>4, SMT
<1>6. Shape(wire', 11)
  BY <1>2, <1>4, SMT DEF Shape
<1>7. ByStranger(wire'[i])
  BY <1>5, SMT DEF ByStranger, IsSigned, Signature
<1>8. ASSUME NEW j \in SignatureFields("wrapper") PROVE Carried(wire[j])'
  <2>1. j \in 1..11 /\ j <= Len(wire)
    BY <1>1, <1>8, SMT DEF SignatureFields
  <2>2. CASE j = i
    BY <1>1, <1>7, <2>2, CarriedKept, Zenon DEF Carried
  <2>3. CASE j # i
    <3>1. Carried(wire[j])
      BY <1>1, <1>8, <2>1, Zenon DEF MessageInv
    <3>2. wire'[j] = wire[j]
      BY <1>5, <2>1, <2>3, Zenon
    <3> QED BY <1>1, <3>1, <3>2, CarriedKept, Zenon
  <2> QED BY <2>2, <2>3
<1>9. \E k : Shape(wire', k) /\ k \in {FieldsOf[made] - 1, FieldsOf[made], FieldsOf[made] + 1}
  BY <1>1, <1>6, Lengths, Zenon
<1>10. made' # "nothing" /\ made' # "keys" /\ made' # "signatures"
  BY <1>1, SMT
<1> QED BY <1>1, <1>8, <1>9, <1>10, Zenon DEF MessageInv

\* The message invariant holds in every state.
LEMMA MessageAlways == EnvelopeSpec => []MessageInv
<1>1. EnvelopeInit => MessageInv
  BY SMT DEF EnvelopeInit, MessageInv
<1>2. MessageInv /\ ComposedInv /\ [EnvelopeNext]_envelopeVars => MessageInv'
  <2> SUFFICES ASSUME MessageInv, ComposedInv, [EnvelopeNext]_envelopeVars PROVE MessageInv'
    OBVIOUS
  <2>1. CASE UNCHANGED envelopeVars
    BY <2>1, SignaturesKept, Zenon DEF envelopeVars, MessageInv, Carried
  <2>2. CASE Compose
    <3>1. made' = "nothing" /\ wire' = <<>>
      BY <2>2, Zenon DEF Compose, MessageInv
    <3> QED BY <3>1, SMT DEF MessageInv
  <2>3. CASE SignEnvelope \/ PublishKeys \/ SendSignatures
    BY <2>3, MessageWritten
  <2>4. CASE ChangeMessage
    BY <2>4, MessageChanged
  <2>5. CASE ChangeExpected
    <3>1. /\ made' = made /\ wire' = wire /\ unsigned' = unsigned /\ made = "wrapper"
      BY <2>5, Zenon DEF ChangeExpected
    <3>2. made' # "signatures"
      BY <3>1, SMT
    <3>3. \A i \in SignatureFields(made) : i <= Len(wire) => Carried(wire[i])'
      BY <3>1, CarriedKept, Zenon DEF MessageInv
    <3> QED BY <3>1, <3>2, <3>3, Zenon DEF MessageInv
  <2>6. CASE StrangerSigns
    BY <2>6, StrangerSigned
  <2> QED BY <2>1, <2>2, <2>3, <2>4, <2>5, <2>6, Zenon DEF EnvelopeNext
<1> QED BY <1>1, <1>2, ComposedAlways, PTL DEF EnvelopeSpec


-----------------------------------------------------------------------------
(* What the reader may conclude.                                           *)

\* A message of one kind is not read as one of another, though up to all its
\* fields were changed (hybrid_codec.rs 243-332 and 502-551).
LEMMA NotConfused == MessageInv => ContainersNotConfused
<1> SUFFICES ASSUME MessageInv PROVE ContainersNotConfused
  OBVIOUS
<1>0. made \in {"nothing", "wrapper", "keys", "signatures"}
  BY Zenon DEF MessageInv
<1>1. made = "nothing" => Len(wire) = 0
  BY SMT DEF MessageInv
<1>2. made # "nothing" => Len(wire) \in {FieldsOf[made] - 1, FieldsOf[made], FieldsOf[made] + 1}
  BY SMT DEF MessageInv, Shape
<1>3. /\ made = "wrapper" => Len(wire) \in {10, 11, 12}
      /\ made = "keys" => Len(wire) \in {4, 5, 6}
      /\ made = "signatures" => Len(wire) \in {5, 6, 7}
  <2>1. ASSUME made = "wrapper" PROVE Len(wire) \in {10, 11, 12}
    <3>1. FieldsOf[made] = 11 /\ made # "nothing"
      BY <2>1, Lengths
    <3>2. Len(wire) \in {FieldsOf[made] - 1, FieldsOf[made], FieldsOf[made] + 1}
      BY <1>2, <3>1, Zenon
    <3> QED BY <3>1, <3>2, SMT
  <2>2. ASSUME made = "keys" PROVE Len(wire) \in {4, 5, 6}
    <3>1. FieldsOf[made] = 5 /\ made # "nothing"
      BY <2>2, Lengths
    <3>2. Len(wire) \in {FieldsOf[made] - 1, FieldsOf[made], FieldsOf[made] + 1}
      BY <1>2, <3>1, Zenon
    <3> QED BY <3>1, <3>2, SMT
  <2>3. ASSUME made = "signatures" PROVE Len(wire) \in {5, 6, 7}
    <3>1. FieldsOf[made] = 6 /\ made # "nothing"
      BY <2>3, Lengths
    <3>2. Len(wire) \in {FieldsOf[made] - 1, FieldsOf[made], FieldsOf[made] + 1}
      BY <1>2, <3>1, Zenon
    <3> QED BY <3>1, <3>2, SMT
  <2> QED BY <2>1, <2>2, <2>3
<1>4. DecodesPublicKeys(wire) => made = "keys"
  <2>1. SUFFICES ASSUME DecodesPublicKeys(wire), made # "keys" PROVE FALSE
    OBVIOUS
  <2>2. Len(wire) = 5 /\ IsPublicKey(wire[4])
    BY <2>1, Zenon DEF DecodesPublicKeys
  <2>3. made = "signatures"
    BY <1>0, <1>1, <1>3, <2>1, <2>2, SMT
  <2>4. Carried(wire[4])
    BY <2>2, <2>3, SMT DEF MessageInv, SignatureFields
  <2> QED BY <2>2, <2>4, SignaturesSigned, Zenon DEF IsPublicKey, IsSigned
<1>5. ASSUME NEW purpose \in Purposes, Decodes(wire, purpose) PROVE made = "wrapper"
  <2>1. Len(wire) = 11
    BY <1>5, Zenon DEF Decodes
  <2> QED BY <1>0, <1>1, <1>3, <2>1, SMT
<1>6. ASSUME NEW purpose \in Purposes, DecodesSignatures(wire, purpose)
      PROVE made = "signatures" /\ (changes = 0 => purpose = unsigned.purpose)
  <2>1. Len(wire) = 6 /\ IsSignature(wire[4]) /\ wire[6] = purpose
    BY <1>6, Zenon DEF DecodesSignatures
  <2>2. made \in {"keys", "signatures"}
    BY <1>0, <1>1, <1>3, <2>1, SMT
  <2>3. made # "keys"
    <3>1. SUFFICES ASSUME made = "keys" PROVE FALSE
      OBVIOUS
    <3>2. IsKey(wire[4])
      BY <2>1, <3>1, SMT DEF MessageInv, KeyFields
    <3> QED BY <2>1, <3>2, Zenon DEF IsSignature, IsKey
  <2>4. made = "signatures"
    BY <2>2, <2>3, SMT
  <2> QED BY <2>1, <2>4, Zenon DEF MessageInv
<1> QED BY <1>4, <1>5, <1>6, Zenon DEF ContainersNotConfused

\* A context is known by its encoding, an absent field and an empty one being
\* told apart by the check that no field is empty (ContextField and
\* validate_common, hybrid_codec.rs).
LEMMA ContextKnown ==
  ASSUME NEW c, NEW d, IsContext(c), IsContext(d), EncodedContext(c) = EncodedContext(d),
         \A f \in OptionalFields : c[f] # Absent => c[f] # <<>>,
         \A f \in OptionalFields : d[f] # Absent => d[f] # <<>>
  PROVE  c = d
<1>1. /\ c["wallet"] = d["wallet"] /\ ContextField(c["issuer"]) = ContextField(d["issuer"])
      /\ c["generation"] = d["generation"]
      /\ ContextField(c["transaction"]) = ContextField(d["transaction"])
      /\ ContextField(c["session"]) = ContextField(d["session"])
      /\ ContextField(c["audience"]) = ContextField(d["audience"])
      /\ c["nonce"] = d["nonce"] /\ c["created"] = d["created"] /\ c["expires"] = d["expires"]
      /\ ContextField(c["transcript"]) = ContextField(d["transcript"])
  BY SMT DEF EncodedContext
<1>2. \A f \in OptionalFields \cup {"transcript"} :
         ContextField(c[f]) = ContextField(d[f]) => c[f] = d[f]
  <2>1. \A f \in OptionalFields \cup {"transcript"} :
           (c[f] # Absent => c[f] # <<>>) /\ (d[f] # Absent => d[f] # <<>>)
    BY Zenon DEF IsContext
  <2> QED BY <2>1, SMT DEF ContextField
<1>3. \A f \in ContextFields : c[f] = d[f]
  BY <1>1, <1>2, SMT DEF ContextFields, OptionalFields
<1> QED BY <1>3, SMT DEF IsContext

\* The contexts the probe begins with name no empty field.
LEMMA NeededNotEmpty == ASSUME NEW purpose, NEW f \in OptionalFields,
                               ContextFor(purpose)[f] # Absent
                        PROVE ContextFor(purpose)[f] # <<>>
<1>1. ContextFor(purpose)[f] \in {<<"a">>, Absent}
  BY SMT DEF ContextFor, OptionalFields
<1>2. <<"a">> # <<>>
  BY SMT
<1> QED BY <1>1, <1>2, Zenon

\* What the signer has signed could be signed: its context names no empty field.
LEMMA SignedContext == ASSUME ComposedInv, made = "wrapper", NEW u \in SignedEnvelopes
  PROVE /\ IsContext(u["context"])
        /\ \A f \in OptionalFields : u["context"][f] # Absent => u["context"][f] # <<>>
<1>1. CASE u = unsigned
  <2>1. IsContext(u["context"]) /\ ValidateCommon(unsigned.context)
    BY <1>1, Zenon DEF ComposedInv, IsEnvelope, CanTbs
  <2> QED BY <1>1, <2>1, SMT DEF ValidateCommon, NonemptyBounded
<1>2. CASE u = UnsignedFor(unsigned.purpose)
  <2>1. u["context"] = ContextFor(unsigned.purpose)
    BY <1>2, SMT DEF UnsignedFor
  <2> QED BY <2>1, ContextBegins, NeededNotEmpty, Zenon
<1> QED BY <1>1, <1>2, Zenon DEF SignedEnvelopes

\* A signature that verifies with a key of the signer's is of one of the
\* envelopes it has signed.
LEMMA SignedTbs == ASSUME NEW name, NEW message, name # "none", name # Stranger,
                          Carried(Signature(name, message))
                   PROVE \E u \in SignedEnvelopes : message = Tbs(u)
<1> DEFINE v == Signature(name, message)
<1>1. v["key"] = name /\ v["over"] = message
  BY SMT DEF Signature
<1>0. v \in OtherSignatures
  BY <1>1, Zenon DEF Carried, ByStranger
<1>2. Short["key"] = "none"
  BY SMT DEF Short, Signature
<1>3. v # Short
  BY <1>1, <1>2
<1>4. v \in {Signature(name2, Tbs(u)) : name2 \in {Signer.classical, Signer.pq},
                                       u \in SignedEnvelopes}
  BY <1>0, <1>3 DEF OtherSignatures
<1> HIDE DEF v
<1>5. PICK name2 \in {Signer.classical, Signer.pq}, u \in SignedEnvelopes :
         v = Signature(name2, Tbs(u))
  BY <1>4, SMT
<1>6. v["over"] = Tbs(u)
  BY <1>5, SMT DEF Signature
<1> QED BY <1>1, <1>6, Zenon

\* What a verified message says is what was signed (verify, hybrid_codec.rs 390-413).
LEMMA VerifiedSigned == ASSUME ComposedInv, MessageInv, made = "wrapper", Verify(wire, expected),
                               NEW u \in SignedEnvelopes,
                               Tbs(Decoded(wire, expected.context)) = Tbs(u)
  PROVE /\ \A i \in SignedFields : wire[i] = Issued(u)[i]
        /\ expected.purpose = u.purpose /\ expected.context = u.context
        /\ wire[9] = u.context.generation
<1> DEFINE r == Decoded(wire, expected.context)
<1>1. /\ Decodes(wire, expected.purpose) /\ CanTbs(r)
      /\ r.generation = expected.generation /\ r.context.generation = expected.generation
  BY Zenon DEF Verify
<1>2. /\ r["purpose"] = wire[3] /\ r["context"] = expected["context"] /\ r["payload"] = wire[5]
      /\ r["disclosures"] = wire[6] /\ r["generation"] = wire[9]
  BY SMT DEF Decoded
<1> HIDE DEF r
<1>3. /\ r["purpose"] = u["purpose"] /\ EncodedContext(r["context"]) = EncodedContext(u["context"])
      /\ r["payload"] = u["payload"] /\ r["disclosures"] = u["disclosures"]
  BY SMT DEF Tbs, CommittedPayload, r
<1>4. wire[1] = 1 /\ wire[2] = PROFILE /\ wire[4] = FORMAT /\ wire[3] = expected["purpose"]
  BY <1>1, SMT DEF Decodes
<1>5. expected["context"] = u["context"]
  <2>1. ValidateCommon(r.context)
    BY <1>1, Zenon DEF CanTbs
  <2>2. \A f \in OptionalFields : expected["context"][f] # Absent => expected["context"][f] # <<>>
    BY <1>2, <2>1, SMT DEF ValidateCommon, NonemptyBounded
  <2>3. IsContext(expected["context"])
    BY Zenon DEF ComposedInv, IsParameters
  <2>4. EncodedContext(expected["context"]) = EncodedContext(u["context"])
    BY <1>2, <1>3, Zenon
  <2> QED BY <2>2, <2>3, <2>4, SignedContext, ContextKnown, Zenon
<1>6. wire[9] = u.context.generation
  BY <1>1, <1>2, <1>5, SMT
<1>7. /\ Issued(u)[1] = 1 /\ Issued(u)[2] = PROFILE /\ Issued(u)[3] = u["purpose"]
      /\ Issued(u)[4] = FORMAT /\ Issued(u)[5] = u["payload"] /\ Issued(u)[6] = u["disclosures"]
  BY SMT DEF Issued, Encode
<1>8. \A i \in SignedFields : wire[i] = Issued(u)[i]
  <2>1. /\ wire[1] = Issued(u)[1] /\ wire[2] = Issued(u)[2] /\ wire[3] = Issued(u)[3]
        /\ wire[4] = Issued(u)[4] /\ wire[5] = Issued(u)[5] /\ wire[6] = Issued(u)[6]
    BY <1>2, <1>3, <1>4, <1>7, Zenon
  <2>2. SignedFields = {1, 2, 3, 4, 5, 6}
    BY SMT DEF SignedFields
  <2> QED BY <2>1, <2>2, Zenon
<1> QED BY <1>2, <1>3, <1>4, <1>5, <1>6, <1>8, Zenon

\* A message accepted with one key of the signer's was signed by it.
LEMMA AcceptedSigned == ComposedInv /\ MessageInv => AcceptedWasSigned
<1> SUFFICES ASSUME ComposedInv, MessageInv, made = "wrapper", Verify(wire, expected),
                    \/ expected.classical_key = ParametersOf(unsigned).classical_key
                    \/ expected.pq_key = ParametersOf(unsigned).pq_key
             PROVE  \E u \in SignedEnvelopes :
                       /\ \A i \in SignedFields : wire[i] = Issued(u)[i]
                       /\ expected.purpose = u.purpose /\ expected.context = u.context
                       /\ wire[9] = u.context.generation
  BY Zenon DEF AcceptedWasSigned
<1> DEFINE message == Tbs(Decoded(wire, expected.context))
<1>1. /\ wire[10] = Signature(expected.classical_key.point, message)
      /\ wire[11] = Signature(expected.pq_key.point, message)
      /\ Len(wire) = 11
  BY Zenon DEF Verify, SignatureOk, Decodes
<1>2. Carried(wire[10]) /\ Carried(wire[11])
  BY <1>1, SMT DEF MessageInv, SignatureFields
<1>3. /\ ParametersOf(unsigned).classical_key = PublicKey("es256")
      /\ ParametersOf(unsigned).pq_key = PublicKey("ml-dsa")
  BY SMT DEF ParametersOf, Signer
<1>4. /\ PublicKey("es256").point # "none" /\ PublicKey("es256").point # Stranger
      /\ PublicKey("ml-dsa").point # "none" /\ PublicKey("ml-dsa").point # Stranger
  BY SMT DEF PublicKey, Stranger
<1> HIDE DEF message
<1>5. \E u \in SignedEnvelopes : message = Tbs(u)
  <2>1. CASE expected.classical_key = ParametersOf(unsigned).classical_key
    <3>1. expected.classical_key.point # "none" /\ expected.classical_key.point # Stranger
      BY <1>3, <1>4, <2>1, Zenon
    <3>2. Carried(Signature(expected.classical_key.point, message))
      BY <1>1, <1>2
    <3> QED BY <3>1, <3>2, SignedTbs, Zenon
  <2>2. CASE expected.pq_key = ParametersOf(unsigned).pq_key
    <3>1. expected.pq_key.point # "none" /\ expected.pq_key.point # Stranger
      BY <1>3, <1>4, <2>2, Zenon
    <3>2. Carried(Signature(expected.pq_key.point, message))
      BY <1>1, <1>2
    <3> QED BY <3>1, <3>2, SignedTbs, Zenon
  <2> QED BY <2>1, <2>2
<1>6. PICK u \in SignedEnvelopes : Tbs(Decoded(wire, expected.context)) = Tbs(u)
  BY <1>5, Zenon DEF message
<1> QED BY <1>6, VerifiedSigned, Zenon

\* What is issued verifies, unless its context names another generation.
LEMMA IssuedAccepted == ComposedInv => IssuedVerifies
<1> SUFFICES ASSUME ComposedInv, made = "wrapper", wire = Issued(unsigned),
                    expected = ParametersOf(unsigned)
             PROVE  Verify(wire, expected) <=> unsigned.context.generation = unsigned.generation
  BY Zenon DEF IssuedVerifies
<1> DEFINE r == Decoded(wire, expected.context)
           classical == Signature(Signer.classical, Tbs(unsigned))
           post_quantum == Signature(Signer.pq, Tbs(unsigned))
<1>1. /\ SignerAdmits(unsigned) /\ CanTbs(unsigned)
      /\ CanEncode(unsigned, classical, post_quantum)
      /\ unsigned["purpose"] \in Purposes
  BY Zenon DEF ComposedInv, IsEnvelope
<1>2. /\ Len(wire) = 11 /\ wire[1] = 1 /\ wire[2] = PROFILE /\ wire[3] = unsigned["purpose"]
      /\ wire[4] = FORMAT /\ wire[5] = unsigned["payload"] /\ wire[6] = unsigned["disclosures"]
      /\ wire[7] = unsigned["classical_kid"] /\ wire[8] = unsigned["pq_kid"]
      /\ wire[9] = unsigned["generation"] /\ wire[10] = classical /\ wire[11] = post_quantum
  BY SMT DEF Issued, Encode
<1>3. /\ expected["purpose"] = unsigned["purpose"] /\ expected["context"] = unsigned["context"]
      /\ expected["classical_kid"] = Signer.classical_kid /\ expected["pq_kid"] = Signer.pq_kid
      /\ expected["classical_key"].point = Signer.classical
      /\ expected["pq_key"].point = Signer.pq
      /\ expected["generation"] = Signer.generation
  BY SMT DEF ParametersOf, PublicKey
<1>4. /\ r["purpose"] = unsigned["purpose"] /\ r["context"] = unsigned["context"]
      /\ r["payload"] = unsigned["payload"] /\ r["disclosures"] = unsigned["disclosures"]
      /\ r["classical_kid"] = unsigned["classical_kid"] /\ r["pq_kid"] = unsigned["pq_kid"]
      /\ r["generation"] = unsigned["generation"]
  BY <1>2, <1>3, SMT DEF Decoded
<1> HIDE DEF r, classical, post_quantum
<1>5. Tbs(r) = Tbs(unsigned) /\ CanTbs(r)
  BY <1>1, <1>4, Zenon DEF Tbs, CanTbs, CommittedPayload
<1>6. Decodes(wire, expected.purpose)
  BY <1>1, <1>2, <1>3, Zenon DEF Decodes, CanEncode
<1>7. /\ SignatureOk(expected.classical_key, Tbs(r), wire[10])
      /\ SignatureOk(expected.pq_key, Tbs(r), wire[11])
  BY <1>2, <1>3, <1>5, Zenon DEF SignatureOk, classical, post_quantum
<1>8. /\ unsigned.classical_kid = Signer.classical_kid /\ unsigned.pq_kid = Signer.pq_kid
      /\ unsigned.generation = Signer.generation
  BY <1>1, Zenon DEF SignerAdmits
<1>9. Verify(wire, expected) <=> r.context.generation = expected.generation
  BY <1>3, <1>4, <1>5, <1>6, <1>7, <1>8, Zenon DEF Verify, r
<1> QED BY <1>3, <1>4, <1>8, <1>9, Zenon

\* However a message was changed on its way, what its reader accepts, trusting one
\* key of the signer's, was signed as it is read, for the purpose and in the
\* context the reader expects (verify, hybrid_codec.rs 390-413).
THEOREM AcceptedWasSignedAlways == EnvelopeSpec => []AcceptedWasSigned
  BY ComposedAlways, MessageAlways, AcceptedSigned, PTL

\* The encoder writes nothing the decoder refuses (hybrid_codec.rs 334-387 and
\* 415-500).
THEOREM IssuedVerifiesAlways == EnvelopeSpec => []IssuedVerifies
  BY ComposedAlways, IssuedAccepted, PTL

\* The three containers are told apart, however much of one is changed
\* (hybrid_codec.rs 243-332 and 502-551).
THEOREM ContainersNotConfusedAlways == EnvelopeSpec => []ContainersNotConfused
  BY MessageAlways, NotConfused, PTL

-----------------------------------------------------------------------------
(* The behaviours TLC explores are behaviours of both probes.              *)

\* MCSpec takes steps of one probe and leaves the other as it is; with MCAnchors
\* for Anchors its initial states are initial states of both.
THEOREM MCSpecOfBoth == MCSpec => DocumentSpec /\ EnvelopeSpec
<1>1. MCInit => DocumentInit /\ EnvelopeInit
  BY Zenon DEF MCInit
<1>2. [MCNext]_<<documentVars, envelopeVars, probe>> => [DocumentNext]_documentVars
  BY Zenon DEF MCNext, documentVars, envelopeVars
<1>3. [MCNext]_<<documentVars, envelopeVars, probe>> => [EnvelopeNext]_envelopeVars
  BY Zenon DEF MCNext, documentVars, envelopeVars
<1> QED BY <1>1, <1>2, <1>3, PTL DEF MCSpec, DocumentSpec, EnvelopeSpec
=============================================================================
