-------------------------- MODULE ReservationRules --------------------------
(***************************************************************************)
(* What one write to a reservation record may do, in the memory stores and *)
(* on PostgreSQL alike: putActiveExecutionReservation and                  *)
(* putModelCallReservation (resource-reservations.ts of both packages).    *)
(* Constant-level operators: modules AgentLoop and Reservations apply them *)
(* where the code puts a reservation.                                      *)
(***************************************************************************)
EXTENDS Naturals

NoReservation == "absent"

ActiveStates == {"reserved", "settled", "closed_uncertain"}

ModelStates == {"accepted", "dispatched", "settled", "uncertain", "expired"}

\* An active-execution record starts reserved and leaves that state once; a
\* repeated write of the state it is in is answered, any other one conflicts.
ActivePut(prior, asked) ==
  CASE prior = NoReservation -> asked = "reserved"
    [] prior = "reserved"    -> TRUE
    [] OTHER                 -> asked = prior

\* A model-call record moves forward only; a repeated write is answered.
ModelPut(prior, asked) ==
  CASE prior = NoReservation -> asked = "accepted"
    [] prior = "accepted"    -> asked \in {"accepted", "dispatched", "settled", "expired"}
    [] prior = "dispatched"  -> asked \in {"dispatched", "settled", "uncertain"}
    [] OTHER                 -> asked = prior
=============================================================================
