----------------------------- MODULE MCWorkTasks -----------------------------
(* Instances of WorkTasks for TLC. *)
EXTENDS WorkTasks

Request(c, m) == [conv |-> c, cid |-> m]

(* Two messages of one conversation and one of another. *)
TwoAndOne == {Request(1, 1), Request(1, 2), Request(2, 1)}
One == {Request(1, 1)}

(* Only the first of them can be answered by a plan: the others are work. *)
TheOthers == {Request(1, 2), Request(2, 1)}
=============================================================================
