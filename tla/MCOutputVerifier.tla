-------------------------- MODULE MCOutputVerifier --------------------------
(* Instances of OutputVerifier for TLC: a word, two numbers whose distance   *)
(* counts for one of them only, an infinity.                                 *)
EXTENDS OutputVerifier
MCLetters == {"w", "4", "7", "i"}
MCValue(token) ==
    CASE token = <<"4">> -> [kind |-> "number", v |-> 4]
      [] token = <<"7">> -> [kind |-> "number", v |-> 7]
      [] token = <<"i">> -> [kind |-> "nonfinite", v |-> 0]
      [] OTHER           -> [kind |-> "word", v |-> 0]
=============================================================================
