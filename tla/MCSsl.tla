------------------------------- MODULE MCSsl --------------------------------
(***************************************************************************)
(* Ssl with two connections; files that fit, that do not, and that fail to *)
(* load, with and without a chain.                                         *)
(***************************************************************************)
EXTENDS Ssl, TLC

MCSettings ==
  [certificate_file |-> {"site"}, private_key_file |-> {"site", "other"},
   certificate_chain_file |-> {"other", Unreadable}, cipher_list |-> {NoMatch}]

Symmetry == Permutations(Connections)

=============================================================================
