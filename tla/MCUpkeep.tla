------------------------------ MODULE MCUpkeep ------------------------------
(* Bounds of the run over Upkeep.  The order in which causes were created   *)
(* matters to nothing: the view forgets it.                                 *)
EXTENDS Upkeep

CONSTANTS n1, i1

Rank(j) == Cardinality({l \in 1..j : cause[l] = cause[j]})

View == <<now, immobilization, {<<cause[j], Rank(j)>> : j \in DOMAIN cause},
          intervention, expense, incident, admitted>>
=============================================================================
