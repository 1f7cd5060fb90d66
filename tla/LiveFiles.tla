----------------------------- MODULE LiveFiles ------------------------------
(***************************************************************************)
(* What the manifest promises: the files of a table are one set, and an    *)
(* update replaces some of its files by new ones in a single step.  A file *)
(* that was replaced never comes back.                                     *)
(***************************************************************************)
CONSTANT FileId
VARIABLES live, retired

Init == live = {} /\ retired = {}

Commit(adds, dels) ==
    /\ adds \cap (live \cup retired) = {}
    /\ dels \subseteq live
    /\ live' = (live \cup adds) \ dels
    /\ retired' = retired \cup dels

Next == \E adds, dels \in SUBSET FileId : Commit(adds, dels)

Spec == Init /\ [][Next]_<<live, retired>>
=============================================================================
