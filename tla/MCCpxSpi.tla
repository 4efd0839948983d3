------------------------------ MODULE MCCpxSpi ------------------------------
(* Model-checking instance of CpxSpi.  s1 has a head and a tail, s2 a head     *)
(* only, s3 a tail only; p1 is longer than any of them and not a whole number  *)
(* of words, p2 is shorter.                                                    *)
EXTENDS CpxSpi

CONSTANTS s1, s2, s3, p1, p2

MCHeadLen == [s \in {s1, s2, s3} |-> IF s = s3 THEN 0 ELSE 4]
MCTailLen == [s \in {s1, s2, s3} |-> IF s = s2 THEN 0 ELSE 4]
MCPacketLen == [p \in {p1, p2} |-> IF p = p1 THEN 11 ELSE 3]
=============================================================================
