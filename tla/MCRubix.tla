------------------------------ MODULE MCRubix -------------------------------
(***************************************************************************)
(* One and three characters to echo; operands at the ends of a digit, of   *)
(* what a signed and an unsigned part of seven bits hold; one random       *)
(* instruction of each length.                                             *)
(***************************************************************************)
EXTENDS Rubix

MCEchoes == {<<1, 33>>, <<3, 126>>}

Operands == {1, 9, 10, 64, 127}
MCSums == {"+", "-", "*", "/"} \X Operands \X Operands

Draw(name, immediate) ==
  [name |-> name, rA |-> 15, rB |-> 28, rC |-> 21, Immediate |-> immediate, Immediate17 |-> 2^17 - 1]
MCDraws == {Draw("CM", 0), Draw("ADCI", 127)}
=============================================================================
