------------------------- MODULE MCMessagePipeline -------------------------
(* The system plugin boots after an ordinary one and takes an alias of it.  *)
(* A rival may have that word when the ordinary plugin is gone, with an     *)
(* alias that a third plugin declares as its name; the remote plugin        *)
(* declares a name and an alias of the ordinary one that nobody contests.   *)
EXTENDS MessagePipeline

CONSTANTS m1, ping, shutdown, other, system, remote, rival, third, w1, w2, w3, w4, w5

MCMessages  == {m1}
MCPlugins   == {other, system, remote, rival, third}
MCWords     == {w1, w2, w3, w4, w5}
MCProbed    == {Plain(w1)}
MCBootOrder == <<other, system>>

W(name, aliases) == [name |-> name, aliases |-> aliases]

MCDeclared ==
    [p \in MCPlugins |->
       CASE p = other  -> {W(w3, {w1}), W(w4, {w5})}
         [] p = system -> {W(w1, {})}
         [] p = rival  -> {W(w1, {w2})}
         [] p = third  -> {W(w2, {})}
         [] p = remote -> {W(w4, {w5})}]
=============================================================================
