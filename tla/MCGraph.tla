------------------------------- MODULE MCGraph -------------------------------
(* Two loops, <<na, nb>> and <<nc>>; np follows the second, ne the first.    *)
EXTENDS GraphRevisions
CONSTANTS na, nb, nc, np, ne, L1, L2

MCOrder == <<na, nb, nc, np, ne>>
MCBody == L1 :> {na, nb} @@ L2 :> {nc}
MCDecision == L1 :> nb @@ L2 :> nc
MCWiring == na :> <<{}, {}>> @@ nb :> <<{na}, {na}>> @@ nc :> <<{}, {}>>
            @@ np :> <<{nc}, {nc}>> @@ ne :> <<{nb}, {nb, nc}>>

Graph(va, vb, vc, vp, ve, c1, c2) ==
  [ver |-> na :> va @@ nb :> vb @@ nc :> vc @@ np :> vp @@ ne :> ve, cap |-> L1 :> c1 @@ L2 :> c2]
MCStart == Graph(1, 1, 1, 1, 1, 2, 1)
MCWrites ==
  {Graph(1, 2, 2, 1, 1, 2, 2),    \* both loops and the second one's limit
   Graph(1, 2, 1, 0, 2, 2, 1),    \* the first loop, np gone, ne after both
   Graph(1, 1, 1, 2, 1, 2, 1),    \* np alone
   Graph(2, 2, 0, 1, 1, 2, 0)}    \* the first loop, the second one gone
=============================================================================
