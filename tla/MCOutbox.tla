------------------------------ MODULE MCOutbox ------------------------------
(* A small instance of Outbox for TLC. *)
EXTENDS Outbox, TLC

CONSTANTS m1, m2, w1, w2

MCRetryTicks == [n \in 1..MaxAttempts |-> n]

============================================================================
