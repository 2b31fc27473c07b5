---------------------------- MODULE MCLikeToggle ----------------------------
(* Small instances of the heart: one account on two devices, and two accounts
   on one device. *)
EXTENDS LikeToggle, TLC

CONSTANTS d1, d2, a1, a2

EveryoneEverywhere == [d \in Devices |-> Accounts]

Alike == Permutations(Devices)

=============================================================================
