-------------------------- MODULE MCSessionManager --------------------------
(***************************************************************************)
(* SessionManager with two clients, two sessions and a short clock.        *)
(***************************************************************************)
EXTENDS SessionManager, TLC

Symmetry == Permutations(Clients)

=============================================================================
