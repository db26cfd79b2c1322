--------------------------- MODULE MCIdempotency ---------------------------
(* A small instance of Idempotency for TLC. *)
EXTENDS Idempotency

CONSTANTS r1, r2, r3, r4, b1, b2

============================================================================
