----------------------------- MODULE MCPrograms -----------------------------
(***************************************************************************)
(* The disks of MCRepositories.  Every one is asked for its repositories,  *)
(* those with up to two overlays are synced; the commands that do not look *)
(* at the repositories are tried where there is no overlay.                *)
(***************************************************************************)
EXTENDS MCRepositories, Programs

Command(program, argv) == [program |-> program, argv |-> argv]

NamePairs == {<<"gentoo", "x-local">>, <<"x-local", "x-local">>, <<"x-c", "gentoo">>}

RepositoryCommands ==
    {Command("cmerge", <<"--sync">>), Command("cportageq", <<"get_repos", "/">>)}
      \cup {Command("cportageq", <<"get_repo_path", "/">> \o names) : names \in NamePairs}

OtherCommands ==
    {Command("cmerge", argv) : argv \in
        {<<>>, <<"-h">>, <<"--info">>, <<"--install", "-v", "app-misc/foo">>, <<"--sync", "-V">>,
         <<"--info", "--info">>, <<"-V">>, <<"--nope">>}}
      \cup {Command("cportageq", argv) : argv \in
        {<<>>, <<"--help">>, <<"nope">>, <<"envvar">>, <<"envvar", "-v">>,
         <<"envvar", "-v", "DISTDIR", "GONE">>, <<"distdir">>, <<"get_repos">>,
         <<"get_repo_path", "/">>, <<"match", "/", "foo">>, <<"match", "/">>,
         <<"has_version", "/", "foo">>, <<"best_version", "/", "foo">>, <<"vdb_path">>,
         <<"is_protected", "/", "/etc">>, <<"is_protected", "/">>}}

Plain(disk) == disk.overlays = <<>> /\ Range(disk.repoName) = {Missing}

MCCommands(disk) ==
    CASE Plain(disk) -> RepositoryCommands \cup OtherCommands
      [] ~Plain(disk) /\ Len(disk.overlays) <= 2 /\ disk.dirs = MCPaths -> RepositoryCommands
      [] OTHER -> {Command("cportageq", <<"get_repos", "/">>)}

UnsafeCommands(disk) ==
    {Command("cportageq", <<"vdb_path">>), Command("cportageq", <<"get_repo_path", "/", "x-local">>)}

MCConfig(disk) ==
    [v \in {"DISTDIR", "USE", "LINGUAS", "USERLAND"}
             \cup (IF Plain(disk) THEN {"PORTAGE_NICENESS", "PORTAGE_IONICE_COMMAND"} ELSE {}) |-> v]
MCUpper(word) == "DISTDIR"
MCAnswers == {<<>>, <<"foo-1">>, <<"foo-1", "foo-2">>}
MCInfoPkgs == <<[atom |-> "1bad", valid |-> FALSE], [atom |-> "sys-libs/libc", valid |-> TRUE],
                [atom |-> "virtual/os", valid |-> TRUE]>>
MCInfoVars == <<"DISTDIR", "DISTDIR", "GONE", "USE">>
MCUseExpand == <<"LINGUAS", "VIDEO_CARDS", "USERLAND">>
=============================================================================
