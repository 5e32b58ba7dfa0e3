---------------------------- MODULE MCCheckpoint ----------------------------
(* Model-checking instances of Checkpoint.                                 *)
EXTENDS Checkpoint

CONSTANTS e1, e2

(* Two experts, so that copy_tree interleaves their directories with a     *)
(* reader and with training.                                               *)
MCExperts == {e1, e2}

(* One expert for the crash-and-restart runs, which need three store      *)
(* cycles: a committed one, one interrupted by the crash, one after the    *)
(* restart.                                                                *)
MCOneExpert == {e1}

=============================================================================
