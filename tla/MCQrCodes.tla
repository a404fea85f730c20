------------------------------ MODULE MCQrCodes ------------------------------
(* QrCodes on a small instance, without symmetry: one run is about liveness. *)
EXTENDS QrCodes, TLC
=============================================================================
