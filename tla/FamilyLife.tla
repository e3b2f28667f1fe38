----------------------------- MODULE FamilyLife -----------------------------
(***************************************************************************)
(* What refresh-token families promise the rest of the program: a family   *)
(* is opened once, by a sign-in, and once it is dead no request makes it   *)
(* live again.                                                             *)
(***************************************************************************)
CONSTANT Family

VARIABLE life   (* life[f]: "unused", "live" or "dead"                        *)

FamilyInit == life = [f \in Family |-> "unused"]

Open(f) == life[f] = "unused" /\ life' = [life EXCEPT ![f] = "live"]

(* The families of a user may end together.                                   *)
End(fs) ==
    /\ \A f \in fs : life[f] = "live"
    /\ life' = [f \in Family |-> IF f \in fs THEN "dead" ELSE life[f]]

FamilyNext == (\E f \in Family : Open(f)) \/ (\E fs \in SUBSET Family : End(fs))

FamilySpec == FamilyInit /\ [][FamilyNext]_life
=============================================================================
