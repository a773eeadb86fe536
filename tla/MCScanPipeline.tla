--------------------------- MODULE MCScanPipeline ---------------------------
(* Small asset trees for ScanPipeline. *)
EXTENDS ScanPipeline

(***************************************************************************)
(* Root "r" has the leaves "a" (its discovery is delayed) and "x"          *)
(* (excluded), the branch "b" with leaves "c" (may not connect), "d" and   *)
(* "f", and the leaves "e" and "g"; "s" is a second root without platform  *)
(* ids.                                                                    *)
(***************************************************************************)
TreeAssets == {"r", "a", "x", "b", "c", "d", "e", "f", "g", "s"}
TreeRoots == <<"r", "s">>
TreeKids == [n \in TreeAssets |-> CASE n = "r" -> <<"a", "x", "b", "e", "g">>
                                    [] n = "b" -> <<"c", "d", "f">>
                                    [] OTHER -> <<>>]

(* A root with as many leaves as a batch of the code holds. *)
WideAssets == {"r", "1", "2", "3", "4", "5"}
WideRoots == <<"r">>
WideKids == [n \in WideAssets |-> IF n = "r" THEN <<"1", "2", "3", "4", "5">> ELSE <<>>]
=============================================================================
