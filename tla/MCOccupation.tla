---------------------------- MODULE MCOccupation ----------------------------
(* A small instance of Occupation for TLC. *)
EXTENDS Occupation, TLC

CONSTANTS v1, v2, d1, d2, u1, u2, c1, c2

\* Every driver starts in the same company, so drivers are interchangeable.
MCHomeCompany == [d \in Drivers |-> c1]

\* Two slots that follow each other.
MCPeriods == {<<0, 1>>, <<1, 2>>}

\* From instant 1 on, without expected end.
MCOutages == {<<1, NotSet>>}

MCTargets == {"ACTIF", "CEDE"}

MCSymmetry ==
  Permutations(Vehicles) \cup Permutations(Drivers) \cup Permutations(UsageIds)

============================================================================
