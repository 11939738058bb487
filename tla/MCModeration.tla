---------------------------- MODULE MCModeration ----------------------------
(* Model-checking instances of Moderation. *)
EXTENDS Moderation, TLC

CONSTANTS m1, m2

TwoModerators == {m1, m2}

ModerationSymmetry == Permutations(Moderators)
=============================================================================
