------------------------------- MODULE MCRoom -------------------------------
(* Small rooms for TLC. *)
EXTENDS Room, TLC

CONSTANTS p1, p2, p3, a, b

\* Two peers, each with a producer; a third, if there is one, only consumes.
Each == (a :> p1) @@ (b :> p2)

\* The two change places together with their producers.
Swapped ==
  {f \in Permutations({p1, p2, a, b}) :
     \A m \in {a, b} : f[m] \in {a, b} /\ f[Each[m]] = Each[f[m]]}

\* In the room of three nobody leaves, and the third peer joins last.
LateJoiner ==
  /\ \A p \in Peers : pc[p] # "leave"
  /\ p3 \in joined => {p1, p2} \subseteq joined
=============================================================================
