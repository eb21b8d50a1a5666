---------------------------- MODULE MCKeepalive ----------------------------
(* Instances of Keepalive for TLC. *)
EXTENDS Keepalive, TLC

CONSTANTS c1, c2,       \* calls
          u,            \* the udev thread
          f             \* a thread that flashes

TwoControl == c1 :> "CONTROL" @@ c2 :> "CONTROL"
TwoKinds   == c1 :> "CONTROL" @@ c2 :> "CMD"
OneControl == c1 :> "CONTROL"
OneCmd     == c1 :> "CMD"

Attach      == u :> {"attach"}
Everything  == u :> OpNames
Serialised  == f :> {"attach", "detach", "flash", "resume"}
FlashUdev   == f :> {"flash"} @@ u :> {"attach", "detach"}

\* Calls of one kind and workers are interchangeable.
Symmetry        == Permutations(Calls) \cup Permutations(Workers)
WorkersSymmetry == Permutations(Workers)
=============================================================================
