---------------------------- MODULE MCCancelAuth ----------------------------
(***************************************************************************)
(* Clocks for CancelAuth.  The steady one may stand still but never goes   *)
(* back, and a restart takes it past every nonce issued.                   *)
(***************************************************************************)
EXTENDS CancelAuth

MCAnyClock == (0..3) \X (1..3)
MCSteadyRead == {p \in (0..5) \X (1..5) : p[1] <= p[2]}
MCSteadyBoot == {p \in (0..5) \X (1..5) : p[1] < p[2]}
=============================================================================
