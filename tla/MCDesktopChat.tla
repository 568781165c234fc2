--------------------------- MODULE MCDesktopChat ----------------------------
(* Instances of DesktopChat for TLC. *)
EXTENDS DesktopChat, TLC

(* Neither chats nor jobs have an order. *)
Symmetry == Permutations(Chats) \cup Permutations(Jobs)
=============================================================================
