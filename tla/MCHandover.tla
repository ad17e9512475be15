----------------------------- MODULE MCHandover -----------------------------
(***************************************************************************)
(* Two Kustomizations and two objects: r1 gives both objects to "old", r2  *)
(* moves "a" to "new", r3 keeps only "b", with "new".                      *)
(***************************************************************************)
EXTENDS Handover

MCManifests ==
    [r \in Revisions |-> [k \in Ks |->
        CASE r = "r1" -> IF k = "old" THEN {"a", "b"} ELSE {}
          [] r = "r2" -> IF k = "old" THEN {"b"} ELSE {"a"}
          [] OTHER -> IF k = "old" THEN {} ELSE {"b"}]]
=============================================================================
