--------------------------- MODULE MC_LoopRunner ---------------------------
(* Instances of LoopRunner for TLC.                                        *)
EXTENDS LoopRunner

CONSTANTS t1, t2

Bounded(open, blocks, lens, claims_, crashes_, moves_) ==
    [open |-> open, blocks |-> blocks, lens |-> lens,
     claims |-> claims_, crashes |-> crashes_, moves |-> moves_]

(* Two subtasks at once, with a death or a retry; one that waits for the   *)
(* other, with a death or a human; one, a lens to review it, and a death.  *)
Plans ==
    {Bounded({t1, t2}, {}, FALSE, 2, 1, 0),
     Bounded({t1, t2}, {}, FALSE, 3, 0, 0),
     Bounded({t1, t2}, {<<t1, t2>>}, FALSE, 3, 1, 0),
     Bounded({t1, t2}, {<<t1, t2>>}, FALSE, 3, 0, 1),
     Bounded({t1}, {}, TRUE, 4, 1, 0)}

(* The smaller ones a stop is followed through.                            *)
StopPlans ==
    {Bounded({t1, t2}, {}, FALSE, 2, 0, 0),
     Bounded({t1, t2}, {<<t1, t2>>}, FALSE, 2, 1, 0),
     Bounded({t1}, {}, TRUE, 2, 0, 0)}

=============================================================================
