-------------------------------- MODULE Bits ---------------------------------
(* The operator & of C on natural numbers.                                 *)
EXTENDS Integers

(* The bitwise and: the bit of both, and the and of what is above it.      *)
BitAnd(x, y) ==
  LET And[n \in 0..y] ==
        [m \in 0..x |->
           IF n = 0 THEN 0
           ELSE (IF m % 2 = 1 /\ n % 2 = 1 THEN 1 ELSE 0) + 2 * And[n \div 2][m \div 2]]
  IN  And[y][x]
==============================================================================
