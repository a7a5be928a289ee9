----------------------------- MODULE MCNetwork -----------------------------
(***************************************************************************)
(* A small instance: octets of one bit and a length field of two, so that  *)
(* a length of two is beyond the limit and still fits the field.           *)
(***************************************************************************)
EXTENDS NetworkIO

MCTokens ==
  {[flags |-> 1, data |-> <<>>], [flags |-> 0, data |-> <<1>>],
   [flags |-> 0, data |-> <<1, 1>>]}

============================================================================
