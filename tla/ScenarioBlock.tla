----------------------------- MODULE ScenarioBlock -----------------------------
(***************************************************************************)
(* What nested scenario blocks promise a test author                       *)
(* (docs/pgrls-test-protocol.md): there is a stack of actors, and every    *)
(* statement of a test body runs as the actor of the innermost block the   *)
(* body is in -- its role, and the claims it was given or, given none,     *)
(* those of the block around it.  Outside every block statements run as    *)
(* the login role with no claims.                                          *)
(***************************************************************************)
EXTENDS Naturals, Sequences

CONSTANTS LoginActor, Actors
VARIABLES actors,   \* the blocks the body is in, innermost last
          ran       \* the actor the last statement ran as

Innermost == IF actors = <<>> THEN LoginActor ELSE actors[Len(actors)]

Init == actors = <<>> /\ ran = LoginActor
Enter == \E a \in Actors : actors' = Append(actors, a) /\ UNCHANGED ran
Leave == /\ actors # <<>>
         /\ actors' = SubSeq(actors, 1, Len(actors) - 1)
         /\ UNCHANGED ran
Run == ran' = Innermost /\ UNCHANGED actors
Next == Enter \/ Leave \/ Run
Spec == Init /\ [][Next]_<<actors, ran>>
================================================================================
