---------------------------- MODULE MCAnnouncements ----------------------------
(***************************************************************************)
(* Two servers on two relays.                                              *)
(***************************************************************************)
EXTENDS Announcements, TLC

CONSTANTS sA, sB, r1, r2

Lists == {<<sA, RESOURCETEMPLATES_LIST_KIND>>, <<sB, RESOURCETEMPLATES_LIST_KIND>>,
          <<sA, SERVER_ANNOUNCEMENT_KIND>>}
Versions == [p \in Lists |-> IF p = <<sA, RESOURCETEMPLATES_LIST_KIND>> THEN 2 ELSE 1]

TemplatesOfBoth == {<<RESOURCETEMPLATES_LIST_KIND, s>> : s \in Servers}

RelaySymmetry == Permutations(Relays)
================================================================================
