----------------------------- MODULE MCWorkLoop ------------------------------
(* Instances of WorkLoop for TLC. *)
EXTENDS WorkLoop

Call(t, a) == [tool |-> t, arg |-> a]

(* Changes, checks, questions and closings of every class.                 *)
AllCalls == {Call("finish_task", 1), Call("finish_unchecked", 1), Call("finish_empty", 1),
             Call("ask_user", 1), Call("ask_generic", 1), Call("write", 1),
             Call("run", 1), Call("info", 1), Call("read", 1), Call("look", 1)}

SomeTools == {Executable, {"write", "look"}}
=============================================================================
