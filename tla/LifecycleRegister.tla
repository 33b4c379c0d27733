------------------------- MODULE LifecycleRegister -------------------------
(***************************************************************************)
(* What the governed lifecycle promises: each entity sits in one state; it *)
(* moves along a declared edge, by an actor that edge allows, out of a     *)
(* state that is not terminal and never over an edge reserved to two       *)
(* people; and its history is the chain of the moves it made, each one     *)
(* leaving the state the one before it entered.                            *)
(***************************************************************************)
EXTENDS Sequences

CONSTANTS Entities, InitialState, Terminal, Edges, None

VARIABLES state, log

Init == /\ state = [e \in Entities |-> InitialState]
        /\ log = [e \in Entities |-> << >>]

Move(e, edge, actor) ==
  /\ edge.from = state[e]
  /\ state[e] \notin Terminal
  /\ ~edge.mc
  /\ state' = [state EXCEPT ![e] = edge.to]
  /\ log' = [log EXCEPT ![e] =
       Append(@, [from |-> edge.from, to |-> edge.to, actor |-> actor, via |-> None])]

Next == \E e \in Entities, edge \in Edges : \E actor \in edge.actors : Move(e, edge, actor)

Spec == Init /\ [][Next]_<<state, log>>
=============================================================================
