------------------------------ MODULE Settings ------------------------------
(***************************************************************************)
(* cp_settings_new (settings.c) and the reader of shell-like files it      *)
(* calls (shell_parser.y): which files are read, in which order, what each *)
(* statement does, where an error stops the load.                          *)
(*                                                                         *)
(* The state of the incremental variables is that of Incrementals, whose   *)
(* operations the actions below call.  The control state is the C stack:   *)
(* `dfs' holds the calls of add_profile, `reading' those of                *)
(* cp_read_shellconfig, the outermost file first.                          *)
(***************************************************************************)
EXTENDS Incrementals, Eapi, SequencesExt

CONSTANTS
    Profiles,           \* profile directories
    NoProfile,          \* a path, among Profiles, where there is no profile
    Files,              \* files that hold assignments
    MakeDefaults,       \* MakeDefaults[p]: the make.defaults of profile p
    Globals,            \* the files read before the profiles, in order
    Confs,              \* the two make.conf, in order
    FileSystems,        \* what the disk and the caller may hold
    ConfigRoot, Portage, Chost, Cbuild, RootDir, Portdir, ConfigRootDir,
    RealPath(_),        \* the canonical path of a directory that is there
    Missing,            \* there is no such file
    Unreadable,         \* the file is there and cannot be read
    Blank               \* a line that is empty or a comment

\* A statement assigns, to `var', the text `val' after the text of `ref' if it
\* has one, or reads another file.
Statement ==
    [op: {"set"}, var: Vars, ref: Vars \cup {NULL}, val: UNION {Inputs[k] : k \in Vars}]
      \cup [op: {"source"}, file: Files]

\* What fs says:
\*   content[f]   the statements of f up to its end or, if it is not sound, to
\*                the syntax error, or Missing
\*   links[d]     the profile that make.profile in directory d points to, or Missing
\*   eapi[p]      the text in the file `eapi' of p, Missing, or Unreadable
\*   parents[p]   the lines of the file `parent' of p, none without it, or Unreadable
\*   mask[p], force[p]   what use.mask and use.force do, or Unreadable
\*   rootOk       realpath succeeds on config_root and on its make.profile
\*   portdirOk    realpath succeeds on PORTDIR
\*   defaults     NULL, or the entries of the argument in the order of strcmp

VARIABLES
    fs,         \* the disk and the arguments: never modified
    phase,      \* where cp_settings_new is
    index,      \* the next file of Globals or of Confs
    dfs,        \* add_profile: <<[profile, next, at]>>
    reading     \* cp_read_shellconfig: <<[file, next]>>

\* find_profile: the link in etc, the one in etc/portage, or the path of the
\* latter though there is none.
Root ==
    CASE fs.links["etc"] # Missing -> fs.links["etc"]
      [] fs.links["etc"] = Missing /\ fs.links["portage"] # Missing -> fs.links["portage"]
      [] OTHER -> NoProfile

\* cp_eapi_parse_file.
EapiParseFile(f) ==
    CASE f = Missing -> LatestEapi
      [] f = Unreadable -> UnknownEapi
      [] OTHER -> EapiParse(f)

\* cp_io_getlines without comments.
GetLines(f) == IF f = Unreadable THEN NULL ELSE SelectSeq(f, LAMBDA l : l # Blank)

\* What the runs and the proofs take of the constants: cp_settings_new writes
\* four variables, the first two and the last are directories and the third gets
\* the text of CHOST, which like them is neither incremental nor in USE_EXPAND.
ASSUME PlainAssumption ==
    /\ PlainVars = {ConfigRoot, RootDir, Cbuild, Portdir}
    /\ Cbuild \notin {ConfigRoot, RootDir} /\ Portdir \notin {ConfigRoot, RootDir, Cbuild}
    /\ Chost \in Vars \ (DefaultIncrementals \cup ExpandNames \cup {Arch, UseNoExpand})
    /\ {Portage, ConfigRootDir} \subseteq PlainValues \ {NULL}
    /\ \A d \in PlainValues \ {NULL} : RealPath(d) \in PlainValues \ {NULL}

\* The files that are read have a place among those of the disk.
ASSUME PlacesAssumption ==
    /\ NoProfile \in Profiles
    /\ MakeDefaults \in [Profiles -> Files]
    /\ Globals \in Seq(Files)
    /\ Confs \in Seq(Files)

\* A file that is not there or cannot be read has no text.
ASSUME MarksAssumption ==
    /\ Missing # Unreadable
    /\ \A i \in DOMAIN EapiTexts : EapiTexts[i] # Unreadable

\* A statement gives its variable one of the values of Inputs, whatever the
\* variable it refers to may hold.
WellFormed(s) ==
    /\ s \in Statement
    /\ s.op = "set" =>
         IF s.ref = NULL THEN s.val \in Inputs[s.var]
         ELSE \A v \in Inputs[s.ref] \cup {Empty} : Join(v, s.val) \in Inputs[s.var]

\* The files hold statements, the lists of parents name profiles that are there
\* or not, use.mask and use.force hold flags.
ASSUME DiskAssumption ==
    \A d \in FileSystems :
        /\ \A f \in Files :
              d.content[f] # Missing =>
                 /\ d.content[f].stmts \in Seq(Statement)
                 /\ \A i \in DOMAIN d.content[f].stmts : WellFormed(d.content[f].stmts[i])
        /\ \A p \in Profiles :
              /\ GetLines(d.parents[p]) \in {NULL} \cup Seq(Profiles)
              /\ d.mask[p] \in {Unreadable} \cup Inputs[Use]
              /\ d.force[p] \in {Unreadable} \cup Inputs[Use]
        /\ d.links \in [{"etc", "portage"} -> {Missing} \cup Profiles]
        /\ d.defaults # NULL =>
              /\ d.defaults \in Seq(Statement)
              /\ \A i \in DOMAIN d.defaults :
                    /\ d.defaults[i].op = "set" /\ d.defaults[i].ref = NULL
                    /\ d.defaults[i].val \in Inputs[d.defaults[i].var]

\* The first half of add_profile, which fails before it changes anything.
Usable(p) == EapiParseFile(fs.eapi[p]) # UnknownEapi /\ GetLines(fs.parents[p]) # NULL

control == <<phase, index, dfs, reading>>
vars == <<incVars, fs, control>>

Init ==
    /\ IncInit
    /\ fs \in FileSystems
    /\ phase = "start"
    /\ index = 1
    /\ dfs = <<>>
    /\ reading = <<>>

\* The error path: cp_settings_unref frees what was built and NULL is returned.
Fail ==
    /\ phase' = "failed"
    /\ dfs' = <<>>
    /\ reading' = <<>>
    /\ UNCHANGED <<incVars, index>>

Call(p) == [profile |-> p, next |-> 1, at |-> "parents"]

\* cp_read_shellconfig opens the file f.
Open(f) == [file |-> f, next |-> 1]

\* realpath of config_root, then either the defaults or the global files.
Start ==
    /\ phase = "start"
    /\ UNCHANGED fs
    /\ IF ~fs.rootOk THEN Fail
       ELSE /\ phase' = IF fs.defaults = NULL THEN "globals" ELSE "defaults"
            /\ UNCHANGED <<incVars, index, dfs, reading>>

\* add_profile(self, self->profile): the eapi is checked before anything else.
EnterRoot ==
    IF ~Usable(Root) THEN Fail
    ELSE /\ phase' = "profile"
         /\ dfs' = <<Call(Root)>>
         /\ index' = 1
         /\ UNCHANGED reading

\* cp_tree_insert_all: copy_entry returns TRUE, which ends g_tree_foreach, so
\* that only the first entry is copied.
InsertDefaults ==
    /\ phase = "defaults"
    /\ UNCHANGED fs
    /\ IF fs.defaults = <<>> THEN UNCHANGED incVars
       ELSE Assign(fs.defaults[1].var, fs.defaults[1].val)
    /\ phase' = "insertedDefaults"
    /\ UNCHANGED <<index, dfs, reading>>

EnterProfile ==
    /\ \/ phase = "insertedDefaults"
       \/ phase = "globals" /\ reading = <<>> /\ index > Len(Globals)
    /\ EnterRoot
    /\ UNCHANGED <<incVars, fs>>

-----------------------------------------------------------------------------
\* load_make_config opens a file if it is there.
Load(f, advance) ==
    /\ reading = <<>>
    /\ IF fs.content[f] = Missing THEN advance /\ UNCHANGED reading
       ELSE reading' = <<Open(f)>> /\ UNCHANGED <<index, dfs>>
    /\ UNCHANGED <<incVars, fs, phase>>

NextFile == index' = index + 1 /\ UNCHANGED dfs

LoadGlobal ==
    /\ phase = "globals"
    /\ index <= Len(Globals)
    /\ Load(Globals[index], NextFile)

LoadConf ==
    /\ phase = "confs"
    /\ index <= Len(Confs)
    /\ Load(Confs[index], NextFile)

Caller == Last(dfs)

\* MoveTo with a bug: the caller stays where it was.
StayAt(at) == UNCHANGED <<dfs, index>>

\* add_profile goes on to its next part.
MoveTo(at) == dfs' = [dfs EXCEPT ![Len(dfs)].at = at] /\ UNCHANGED index

LoadMakeDefaults ==
    /\ phase = "profile"
    /\ Caller.at = "parents"
    /\ Caller.next > Len(GetLines(fs.parents[Caller.profile]))
    /\ Load(MakeDefaults[Caller.profile], MoveTo("mask"))

\* Where load_make_config returns to when its file has been read.
AfterFile == IF phase = "profile" THEN MoveTo("mask") ELSE NextFile

\* The file being read, its statements, and the one to run.
File == Last(reading)
Text == fs.content[File.file]
AtStatement == reading # <<>> /\ File.next <= Len(Text.stmts)
Current == Text.stmts[File.next]
Advanced == [reading EXCEPT ![Len(reading)].next = @ + 1]

\* Lookup with a bug: the words stacked from earlier files are seen.
LookupStacked(k) ==
    IF k \in Registered THEN Concat(incrementals[k])
    ELSE IF config[k] = NULL THEN Empty ELSE config[k]

\* dolookup: a variable that is not in config expands to nothing.
Lookup(k) == IF config[k] = NULL THEN Empty ELSE config[k]

\* var_def.
RunAssignment ==
    /\ AtStatement
    /\ Current.op = "set"
    /\ Assign(Current.var,
              IF Current.ref = NULL THEN Current.val
              ELSE Join(Lookup(Current.ref), Current.val))
    /\ reading' = Advanced
    /\ UNCHANGED <<fs, phase, index, dfs>>

\* source_stmt, dosource: allow_source is not looked at.
RunSource ==
    /\ AtStatement
    /\ Current.op = "source"
    /\ UNCHANGED fs
    /\ IF fs.content[Current.file] = Missing THEN Fail
       ELSE /\ reading' = Append(Advanced, Open(Current.file))
            /\ UNCHANGED <<incVars, phase, index, dfs>>

\* The end of a sourced file, or of one that load_make_config opened: the
\* latter is followed by cp_incrementals_config_changed.
EndFile ==
    /\ reading # <<>>
    /\ ~AtStatement
    /\ UNCHANGED fs
    /\ IF ~Text.sound THEN Fail
       ELSE /\ reading' = Front(reading)
            /\ UNCHANGED phase
            /\ IF Len(reading) > 1 THEN UNCHANGED <<incVars, index, dfs>>
               ELSE ConfigChanged(phase # "confs") /\ AfterFile
-----------------------------------------------------------------------------
\* EnterParent with a bug: a parent that cannot be used is skipped.
EnterUsableParent ==
    /\ phase = "profile"
    /\ reading = <<>>
    /\ Caller.at = "parents"
    /\ Caller.next <= Len(GetLines(fs.parents[Caller.profile]))
    /\ LET p == GetLines(fs.parents[Caller.profile])[Caller.next]
           advanced == [dfs EXCEPT ![Len(dfs)].next = @ + 1]
       IN dfs' = IF Usable(p) THEN Append(advanced, Call(p)) ELSE advanced
    /\ UNCHANGED <<incVars, fs, phase, index, reading>>

\* add_parent_profiles: the next parent, depth first.
EnterParent ==
    /\ phase = "profile"
    /\ reading = <<>>
    /\ Caller.at = "parents"
    /\ Caller.next <= Len(GetLines(fs.parents[Caller.profile]))
    /\ UNCHANGED fs
    /\ LET p == GetLines(fs.parents[Caller.profile])[Caller.next] IN
       IF ~Usable(p) THEN Fail
       ELSE /\ dfs' = Append([dfs EXCEPT ![Len(dfs)].next = @ + 1], Call(p))
            /\ UNCHANGED <<incVars, phase, index, reading>>

\* cp_incrementals_process_profile: use.mask, then use.force.
ReadMask ==
    /\ phase = "profile"
    /\ Caller.at = "mask"
    /\ UNCHANGED fs
    /\ IF fs.mask[Caller.profile] = Unreadable THEN Fail
       ELSE /\ ProcessMask(fs.mask[Caller.profile])
            /\ MoveTo("force")
            /\ UNCHANGED <<phase, reading>>

\* The last step of add_profile returns to the call below it.
ReadForce ==
    /\ phase = "profile"
    /\ Caller.at = "force"
    /\ UNCHANGED fs
    /\ IF fs.force[Caller.profile] = Unreadable THEN Fail
       ELSE /\ ProcessForce(fs.force[Caller.profile])
            /\ dfs' = Front(dfs)
            /\ phase' = IF Len(dfs) = 1 THEN "confs" ELSE "profile"
            /\ UNCHANGED <<index, reading>>
-----------------------------------------------------------------------------
Finish ==
    /\ phase = "confs"
    /\ reading = <<>>
    /\ index > Len(Confs)
    /\ ConfigFinished
    /\ phase' = "finished"
    /\ UNCHANGED <<fs, index, dfs, reading>>

\* WritePlain with a bug: derived values replace those of the files.
WriteDerived ==
    /\ phase = "finished"
    /\ Override([k \in PlainVars |->
          CASE k \in {ConfigRoot, RootDir} -> ConfigRootDir
            [] k = Cbuild -> config[Chost]
            [] k = Portdir -> Portage])
    /\ phase' = "mainRepo"
    /\ UNCHANGED <<fs, index, dfs, reading>>

\* WritePlain with a bug: the directory goes into a variable of the profiles.
WriteWrongKey ==
    /\ phase = "finished"
    /\ config' = [config EXCEPT ![Arch] = ConfigRootDir]
    /\ phase' = "mainRepo"
    /\ UNCHANGED <<incrementals, useMask, useForce, pending, finished>>
    /\ UNCHANGED <<fs, index, dfs, reading>>

\* PORTAGE_CONFIGROOT, ROOT, init_cbuild and init_portdir.
WritePlain ==
    /\ phase = "finished"
    /\ Override([k \in PlainVars |->
          CASE k \in {ConfigRoot, RootDir} -> ConfigRootDir
            [] k = Cbuild /\ config[k] = NULL -> config[Chost]
            [] k = Portdir /\ config[k] = NULL -> Portage
            [] OTHER -> config[k]])
    /\ phase' = "mainRepo"
    /\ UNCHANGED <<fs, index, dfs, reading>>

\* init_main_repo: realpath of PORTDIR, which then is written back.
InitMainRepo ==
    /\ phase = "mainRepo"
    /\ UNCHANGED fs
    /\ IF ~fs.portdirOk THEN Fail
       ELSE /\ Override([k \in PlainVars |->
                    IF k = Portdir THEN RealPath(config[k]) ELSE config[k]])
            /\ phase' = "ready"
            /\ UNCHANGED <<index, dfs, reading>>

Step ==
    \/ Start \/ InsertDefaults \/ EnterProfile
    \/ LoadGlobal \/ LoadConf \/ LoadMakeDefaults
    \/ RunAssignment \/ RunSource \/ EndFile
    \/ EnterParent \/ ReadMask \/ ReadForce
    \/ Finish \/ WritePlain \/ InitMainRepo

\* cp_settings_new has returned.
Returned == phase \in {"ready", "failed"} /\ UNCHANGED vars

Next == Step \/ Returned

\* The function runs in one thread and no step waits for anything.
Spec == Init /\ [][Next]_vars /\ WF_vars(Step)
=============================================================================
