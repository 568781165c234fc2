---------------------------- MODULE MCMobileChat ----------------------------
(***************************************************************************)
(* Instances of MobileChat for TLC. As long as nothing tells the           *)
(* conversations apart, they may change places in what follows, so it is   *)
(* enough to look at the behaviours in which the Leader is the one that is *)
(* told apart. This is what a symmetry set would save at the beginning of  *)
(* a behaviour; with liveness TLC allows none.                             *)
(***************************************************************************)
EXTENDS MobileChat

CONSTANT Leader

ASSUME LeaderAssumption == Leader \in Chats

Alike ==
    /\ \A c, d \in Chats : conv[c] = conv[d] /\ log[c] = log[d]
    /\ phone \in {[Blank EXCEPT !.listed = cs] : cs \in {{}, Chats}}
    /\ \A k \in Sends : chatOf[k] = None
    /\ \A r \in net : \/ r.kind = "list" /\ r.chats \in {{}, Chats}
                      \/ r.kind = "create" /\ r.step = "asked"

LeaderKept == (\E c \in Chats : conv[c] = "kept") => conv[Leader] = "kept"

(* Nothing is done to another conversation than the Leader.                *)
ByLeader ==
    \A c \in Chats \ {Leader} :
        /\ conv'[c] = conv[c] /\ log'[c] = log[c]
        /\ phone'.selected # c
        /\ \A r \in net' : r.kind = "delete" => r.chat # c

Init == PhoneInit /\ LeaderKept
Next == PhoneNext /\ (Alike => ByLeader)
Spec == Init /\ [][Next]_phoneVars /\ Fairness
=============================================================================
