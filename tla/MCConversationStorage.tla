----------------------- MODULE MCConversationStorage ------------------------
(***************************************************************************)
(* Two contents, one of them uploaded twice; a quota that takes both and   *)
(* a store of uploads that takes three; two questions in one conversation  *)
(* and one in another.                                                     *)
(***************************************************************************)
EXTENDS ConversationStorage, TLC

CONSTANTS u1, u2, u3, x, y, m1, m2, m3, c1, c2

UploadedContent == (u1 :> x) @@ (u2 :> x) @@ (u3 :> y)
ContentSize == (x :> 1) @@ (y :> 2)
MessageChat == (m1 :> c1) @@ (m2 :> c1) @@ (m3 :> c2)
=============================================================================
