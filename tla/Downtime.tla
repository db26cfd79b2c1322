------------------------------ MODULE Downtime ------------------------------
(***************************************************************************)
(* What the immobilizations of a vehicle promise (D-220), whatever causes  *)
(* bring them about: it is down since an instant or it is up, and the      *)
(* periods it was down do not overlap.  A period begins, may turn out to   *)
(* have begun earlier, and finishes once; nothing changes it afterwards.   *)
(***************************************************************************)
EXTENDS Integers

CONSTANT MaxInstant  \* instants are 0..MaxInstant

VARIABLES
  since,  \* when the vehicle went down, or Up
  past    \* the finished periods <<from, to>>

Instants == 0..MaxInstant
Up == -1

\* Periods are half open: one that ends as it begins meets nothing.
Clear(from) == \A p \in past : p[1] < p[2] => p[2] <= from

TypeOK == since \in Instants \cup {Up} /\ past \subseteq Instants \X Instants

Init == since = Up /\ past = {}

Begin(t) == since = Up /\ Clear(t) /\ since' = t /\ UNCHANGED past

Advance(t) == since # Up /\ t < since /\ Clear(t) /\ since' = t /\ UNCHANGED past

Finish(t) == since # Up /\ since <= t /\ since' = Up /\ past' = past \cup {<<since, t>>}

Next == \E t \in Instants : Begin(t) \/ Advance(t) \/ Finish(t)

Spec == Init /\ [][Next]_<<since, past>>

----------------------------------------------------------------------------

\* At no instant is the vehicle down twice: two finished periods never
\* overlap, and the current one follows them all.
DownOnce ==
  /\ \A p, q \in past : (p # q /\ p[1] < p[2] /\ q[1] < q[2]) => p[2] <= q[1] \/ q[2] <= p[1]
  /\ since # Up => Clear(since)
=============================================================================
