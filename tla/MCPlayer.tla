---- MODULE MCPlayer ----
EXTENDS Player
CONSTANTS A, B
ContentAB == (A :> <<1, 2, 3>>) @@ (B :> <<4>>)
====
