---------------------------- MODULE ActiveChain ----------------------------
(***************************************************************************)
(* What the chain manager promises its callers, without maps, databases,   *)
(* undo data or orphans: there is one active chain; it starts as the       *)
(* genesis block; it only ever moves, in one step, to a chain that is      *)
(* valid from genesis, is preferred to the one it leaves, and forks off    *)
(* within the permitted depth.                                             *)
(***************************************************************************)
EXTENDS BlockTree

CONSTANT MaxReorgDepth

VARIABLES tip, chain

Init == tip = NoBlock /\ chain = << >>

Start ==
  /\ tip = NoBlock
  /\ tip' = Genesis /\ chain' = Path[Genesis]

(* Some block of Path[b] lies on the active chain, no deeper than permitted. *)
ForkPermitted(b) ==
  \E h \in DOMAIN chain :
    /\ h < Height[b] /\ chain[h] = Path[b][h]
    /\ MaxReorgDepth > 0 => Height[tip] - h <= MaxReorgDepth

Adopt(b) ==
  /\ tip # NoBlock
  /\ Better(b, tip)
  /\ ValidPath(b)
  /\ ForkPermitted(b)
  /\ tip' = b /\ chain' = Path[b]

Next == Start \/ \E b \in Blocks : Adopt(b)

Spec == Init /\ [][Next]_<<tip, chain>>
=============================================================================
