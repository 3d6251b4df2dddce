------------------------------ MODULE MCAtoms ------------------------------
(***************************************************************************)
(* Texts that every EAPI accepts, that the older ones reject, and that all *)
(* reject, before or after an atom is built, under two EAPIs.              *)
(***************************************************************************)
EXTENDS Atoms

MCParts ==
    [t \in {"a/b", "a/b:0", "a/b[u]", "a/b[u][v]", "a"} |->
        CASE t = "a/b" -> {}
          [] t = "a/b:0" -> {"slot"}
          [] t = "a/b[u]" -> {"use"}
          [] t = "a/b[u][v]" -> {"use", "trailing"}
          [] t = "a" -> {"junk"}]

MCTexts == DOMAIN MCParts
=============================================================================
