------------------------- MODULE PublishedFrontier -------------------------
(***************************************************************************)
(* What the strict cutover promises to the readers of a table: per         *)
(* extension, a committed frontier that only moves forward and an active   *)
(* frontier that now and then jumps to the committed one.  Nothing is said *)
(* about nodes, leases, epochs or acknowledgements.                        *)
(***************************************************************************)
EXTENDS Naturals

CONSTANT Extensions

VARIABLES
  committed,   \* extension -> newest committed checkpoint, 0 if there is none
  active       \* extension -> checkpoint that queries read, 0 if there is none

frontiers == <<committed, active>>

Init ==
  /\ committed = [e \in Extensions |-> 0]
  /\ active = [e \in Extensions |-> 0]

\* A commit moves some committed frontiers forward.
Commit ==
  /\ committed' \in [Extensions -> Nat]
  /\ \A e \in Extensions : committed'[e] >= committed[e]
  /\ UNCHANGED active

\* Publication makes the committed checkpoint of some extensions active.
Publish(published) ==
  /\ active' = [e \in Extensions |->
                  IF e \in published THEN committed[e] ELSE active[e]]
  /\ UNCHANGED committed

Next == Commit \/ \E published \in SUBSET Extensions : Publish(published)

Spec == Init /\ [][Next]_frontiers
=============================================================================
