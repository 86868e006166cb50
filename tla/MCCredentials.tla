--------------------------- MODULE MCCredentials ---------------------------
(***************************************************************************)
(* Both probes of what is signed, in one run: a behaviour is one of        *)
(* DocumentProbe or one of EnvelopeProbe, and leaves the other alone.      *)
(***************************************************************************)
EXTENDS DocumentProbe, EnvelopeProbe

VARIABLE probe

\* The days around the end of February and the end of the year: of a leap year
\* divisible by 400, a common year, and a century that is no leap year.
MCAnchors ==
    {[date |-> <<2000, 2, 25>>, days |-> 11012], [date |-> <<2000, 12, 28>>, days |-> 11319],
     [date |-> <<2026, 2, 25>>, days |-> 20509], [date |-> <<2026, 12, 28>>, days |-> 20815],
     [date |-> <<2100, 2, 25>>, days |-> 47537], [date |-> <<2100, 12, 28>>, days |-> 47843]}

\* The probe not under way is at rest in one of its initial states.
DocumentAtRest ==
    /\ anchor = CHOOSE a \in MCAnchors : TRUE
    /\ document = [person |-> "holder", birthdate |-> <<>>, expiry |-> <<>>]
EnvelopeAtRest == unsigned.purpose = "wallet-export-v1"

MCInit ==
    /\ DocumentInit /\ EnvelopeInit
    /\ \/ probe = "document" /\ EnvelopeAtRest
       \/ probe = "envelope" /\ DocumentAtRest

MCNext ==
    /\ UNCHANGED probe
    /\ \/ probe = "document" /\ DocumentNext /\ UNCHANGED envelopeVars
       \/ probe = "envelope" /\ EnvelopeNext /\ UNCHANGED documentVars

MCSpec == MCInit /\ [][MCNext]_<<documentVars, envelopeVars, probe>>
=============================================================================
