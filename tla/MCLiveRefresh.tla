--------------------------- MODULE MCLiveRefresh ---------------------------
(* One page, which shows the list, of somebody else than the owner of the   *)
(* memos, and one writer.                                                   *)
EXTENDS LiveRefresh
CONSTANTS p1, r1, c1, c2
MCPages == {p1}
MCRequests == {r1}
MCConns == {c1, c2}
MCViews == {"list"}
MCKinds == {"updated", "commentCreated"}
=============================================================================
