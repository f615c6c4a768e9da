----------------------------- MODULE MCMicrovm ------------------------------
(* One Run and its MicroVM. Runs share no state, so that a second one only *)
(* multiplies the states by the first's.                                   *)
EXTENDS Microvm

=============================================================================
