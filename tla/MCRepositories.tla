--------------------------- MODULE MCRepositories ---------------------------
(***************************************************************************)
(* Two overlays in different directories with the same basename, the main  *)
(* repository, which an overlay's name may collide with, and a path that   *)
(* may be no directory, in every list of up to three words.                *)
(***************************************************************************)
EXTENDS RepositoriesProperties

MCPaths == {"portage", "a/local", "b/local", "c"}
MCBasename(p) == CASE p \in {"a/local", "b/local"} -> "local" [] OTHER -> p
MCRepoNames == {"gentoo", "x-local"}

MCFileSystems ==
    [dirs: {MCPaths, MCPaths \ {"c"}},
     repoName: [MCPaths -> MCRepoNames \cup {Missing}],
     overlays: BoundedSeq(MCPaths, 3)]
=============================================================================
