------------------------------ MODULE MCSession ------------------------------
(* Small instances of the session: how many GUIDs there are, which parts of a *)
(* profile are sent, what may happen how often, and who has a skin.           *)
EXTENDS Session

CONSTANTS p1, p2, s1

MCOneGuid == <<11>>
MCTwoGuids == <<11, 12>>
MCThreeGuids == <<11, 12, 13>>
MCNickname == <<"NICKNAME_UPDATE">>
MCProfile == <<"NICKNAME_UPDATE", "STATUS_UPDATE">>
MCNoProfile == <<>>

Allow(connects, changes, ringChanges) ==
    [connects |-> connects, changes |-> changes, ringChanges |-> ringChanges]
MCConnects == {Allow(3, 0, 0)}
MCReturns == {Allow(4, 0, 0)}
MCRenames == {Allow(3, 2, 0)}
MCOneRing == {Allow(2, 0, 1)}
MCRenameOrRings == {Allow(3, 1, 0), Allow(2, 0, 2)}

MCNobody == [p \in Players |-> NoSkin]
MCFirstOnly == [p \in Players |-> IF p = p1 THEN s1 ELSE NoSkin]
MCEverybody == [p \in Players |-> s1]

\* The ring state of a player reaches a peer who is there when it changes
\* (sendRingSync, processRingSync).  Where nobody has a skin players are
\* interchangeable, so that one pair of them stands for all.
RingReachesPresent == RingReaches(p1, p2)
=============================================================================
