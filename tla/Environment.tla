---------------------------- MODULE Environment ----------------------------
(***************************************************************************)
(* What a process of Argo knows about its surroundings: the environment    *)
(* (argo_env_load.c, argo_env_utils.c), the configuration (argo_config.c), *)
(* argo_init and argo_exit, and the daemon's address derived from the two  *)
(* (argo_daemon_client.c).                                                 *)
(*                                                                         *)
(* Each function of the environment holds argo_env_mutex from beginning to *)
(* end, so each is one step.  The environment is the array argo_env: its   *)
(* order matters, because expand_all_variables walks it and expands each   *)
(* value in place.  A value is a sequence of parts: a name of Names stands *)
(* for ${NAME}, anything else for text, also a reference whose name is too *)
(* long for var_name, which expand_value copies as it is.  A line of a     *)
(* file that is blank, a comment, has no = or no name is left out of the   *)
(* file; parse_env_line and parse_config_line skip it.  The files of a     *)
(* configuration directory are read in the order of readdir: what a        *)
(* directory holds is the value that the last of them gives.  Memory is    *)
(* never exhausted.                                                        *)
(***************************************************************************)
EXTENDS Naturals, Sequences, FiniteSets, SequencesExt

CONSTANTS
  Names,        \* variables of the environment
  Texts,        \* pieces of text a value can be made of
  Root, Port,   \* two of them: ARGO_ROOT and ARGO_DAEMON_PORT
  Dirs,         \* directories ARGO_ROOT can name
  Ports,        \* texts that are a port number
  DefaultPort,  \* ARGO_DAEMON_DEFAULT_PORT
  Missing,      \* a file or directory that does not exist
  Contents,     \* what a file with environment lines can hold, Missing included
  Configs,      \* what a configuration directory can hold (its daemon_port), Missing included
  Worlds,       \* files a process can start with, as in FileSystem
  SetValues,    \* values argo_setenv is called with
  MaxDepth,     \* ARGO_ENV_MAX_EXPANSION_DEPTH
  MaxLen,       \* parts that fit into result (ARGO_ENV_LINE_MAX - 1)
  MaxEdits      \* bound: changes of files while the process runs

ASSUME EnvironmentNames == {Root, Port} \subseteq Names /\ Names \cap Texts = {}
ASSUME EnvironmentDirs == Dirs \subseteq Texts /\ Missing \notin Dirs
ASSUME EnvironmentDepth == MaxDepth \in Nat \ {0} /\ MaxEdits \in Nat
ASSUME EnvironmentLength == MaxLen \in Nat \ {0}

VARIABLES
  files,               \* the file system and environ: a record of FileSystem
  argo_env,            \* [name, value], in the order of the array
  argo_env_initialized,
  config,              \* daemon_port in the list of config entries, or Missing
  config_initialized,
  url,                 \* port in daemon_url_buffer, or Missing
  edits

env_vars == <<argo_env, argo_env_initialized>>
config_vars == <<config, config_initialized>>
EnvVars == <<files, env_vars, config_vars, url, edits>>

FileSystem == [system : Contents \ {Missing}, home : Contents, argorc : Contents,
               project : [Dirs -> Contents], local : [Dirs -> Contents],
               found : Dirs \cup {Missing},        \* what the search upward from the cwd finds
               user_config : Configs, project_config : [Dirs -> Configs],
               workflow_config : [Dirs -> Configs]]

Parts == Names \cup Texts
Entries == [name : Names, value : Seq(Parts)]
EnvEntry(n, v) == [name |-> n, value |-> v]

ASSUME EnvironmentFiles == Contents \ {Missing} \subseteq Seq(Entries) /\ Worlds \subseteq FileSystem
ASSUME EnvironmentValues == Missing \in Configs /\ SetValues \subseteq Seq(Parts)

EnvInit ==
  /\ files \in Worlds
  /\ argo_env = <<>> /\ argo_env_initialized = FALSE
  /\ config = Missing /\ config_initialized = FALSE
  /\ url = Missing /\ edits = 0
-----------------------------------------------------------------------------
(* The array. *)

Defined(env, n) == \E k \in DOMAIN env : env[k].name = n
Index(env, n) == CHOOSE k \in DOMAIN env : env[k].name = n       \* find_env_index
Value(env, n) == env[Index(env, n)].value
NamesIn(env) == {env[k].name : k \in DOMAIN env}
ValuesIn(env) == [n \in NamesIn(env) |-> Value(env, n)]

\* set_env_internal; the array grows when it is full
SetAppending(env, e) == Append(env, e)         \* mutant: find_env_index not asked
SetInternal(env, e) ==
  IF Defined(env, e.name) THEN [env EXCEPT ![Index(env, e.name)] = e] ELSE Append(env, e)

\* load_env_file: the assignments of the file in turn
LoadFile(env, content) ==
  IF content = Missing THEN env
  ELSE LET after[k \in 0..Len(content)] ==
             IF k = 0 THEN env ELSE SetInternal(after[k - 1], content[k])
       IN after[Len(content)]

\* value with each ${NAME} replaced by what by has for NAME, and by nothing if it has none
Substituted(value, by) ==
  FlattenSeq([k \in 1..Len(value) |->
    IF value[k] \notin Names THEN <<value[k]>>
    ELSE IF value[k] \in DOMAIN by THEN by[value[k]] ELSE <<>>])

\* The same when result is too small for all of it: text is copied while there is room, and
\* what a ${NAME} stands for is left out when it does not fit as a whole.
Cut(value, by) ==
  LET upto[k \in 0..Len(value)] ==
        IF k = 0 THEN <<>>
        ELSE LET piece == Substituted(<<value[k]>>, by)
                 room == IF value[k] \in Names THEN MaxLen - 1 ELSE MaxLen
             IN IF Len(upto[k - 1]) + Len(piece) <= room THEN upto[k - 1] \o piece
                                                        ELSE upto[k - 1]
  IN upto[Len(value)]
Expanded(value, by) ==
  IF Len(Substituted(value, by)) < MaxLen THEN Substituted(value, by) ELSE Cut(value, by)

\* expand_value for every variable of env, level by level above the depth limit: at the
\* limit a value is taken as it is, above it each ${NAME} becomes the value of NAME one
\* level deeper
Expansion(env) ==
  LET level[h \in 0..MaxDepth] ==
        IF h = 0 THEN ValuesIn(env)
        ELSE [n \in NamesIn(env) |-> Expanded(Value(env, n), level[h - 1])]
  IN level[MaxDepth]

\* expand_all_variables: each entry with references in turn, with what the entries before it
\* have become
HasReference(value) == \E j \in DOMAIN value : value[j] \in Names
ExpandAt(env, k) ==
  IF HasReference(env[k].value) THEN [env EXCEPT ![k].value = Expansion(env)[env[k].name]] ELSE env
ExpandOnce(env) ==                             \* mutant: one level, from the old values
  [k \in DOMAIN env |-> EnvEntry(env[k].name, Substituted(env[k].value, ValuesIn(env)))]
ExpandAll(env) ==
  LET after[k \in 0..Len(env)] == IF k = 0 THEN env ELSE ExpandAt(after[k - 1], k)
  IN after[Len(env)]
-----------------------------------------------------------------------------
(* argo_loadenv. *)

\* what is kept of the environment that is there: a failed load leaves it uninitialized
Kept == IF argo_env_initialized THEN <<>> ELSE argo_env

SystemAndHome ==
  LoadFile(LoadFile(LoadFile(Kept, files.system), files.home), files.argorc)

\* load_project_and_local_files: the directory of .env.argo, from ARGO_ROOT as it is written
\* (nothing is expanded yet) or from the search, which then sets ARGO_ROOT
RootNamed == Defined(SystemAndHome, Root) /\ Value(SystemAndHome, Root) # <<>>
RootDir ==
  IF ~RootNamed THEN files.found
  ELSE IF \E d \in Dirs : Value(SystemAndHome, Root) = <<d>> THEN Head(Value(SystemAndHome, Root))
  ELSE Missing
RootUnset == SystemAndHome                     \* mutant: ARGO_ROOT not set after the search
WithRoot == IF RootNamed THEN SystemAndHome
            ELSE SetInternal(SystemAndHome, EnvEntry(Root, <<files.found>>))

CanLoad == RootDir # Missing /\ files.project[RootDir] # Missing

ProjectAndLocal ==
  LoadFile(LoadFile(WithRoot, files.project[RootDir]), files.local[RootDir])

Loaded == IF CanLoad THEN ExpandAll(ProjectAndLocal)
          ELSE IF RootDir = Missing THEN SystemAndHome ELSE WithRoot

LoadEnv ==
  /\ argo_env' = Loaded
  /\ argo_env_initialized' = (argo_env_initialized \/ CanLoad)
  /\ UNCHANGED <<files, config_vars, url, edits>>
-----------------------------------------------------------------------------
(* The other functions of the environment. *)

SetEnv(n, v) ==
  /\ argo_env' = SetInternal(argo_env, EnvEntry(n, v))
  /\ UNCHANGED <<files, argo_env_initialized, config_vars, url, edits>>

UnsetEnv(n) ==
  /\ Defined(argo_env, n)
  /\ argo_env' = RemoveAt(argo_env, Index(argo_env, n))
  /\ UNCHANGED <<files, argo_env_initialized, config_vars, url, edits>>

ClearEnv ==
  /\ argo_env' = <<>>
  /\ UNCHANGED <<files, argo_env_initialized, config_vars, url, edits>>

FreeEnv ==
  /\ argo_env' = <<>> /\ argo_env_initialized' = FALSE
  /\ UNCHANGED <<files, config_vars, url, edits>>
-----------------------------------------------------------------------------
(* The configuration. *)

Override(below, above) == IF above = Missing THEN below ELSE above

\* argo_config: the directories in order; the project's are those of ARGO_ROOT in env.  An
\* empty value, or one that is not a directory here, has no configuration.
ConfigDir(env) ==
  IF Defined(env, Root) /\ \E d \in Dirs : Value(env, Root) = <<d>> THEN Head(Value(env, Root))
  ELSE Missing
ConfigLoaded(env) ==
  IF ConfigDir(env) = Missing THEN files.user_config
  ELSE Override(Override(files.user_config, files.project_config[ConfigDir(env)]),
                files.workflow_config[ConfigDir(env)])

Configure(env) ==
  /\ config' = IF config_initialized THEN config ELSE ConfigLoaded(env)
  /\ config_initialized' = TRUE

ConfigCleanup == config' = Missing /\ config_initialized' = FALSE

ConfigReload ==
  /\ config' = ConfigLoaded(argo_env) /\ config_initialized' = TRUE
  /\ UNCHANGED <<files, env_vars, url, edits>>

\* argo_init calls argo_loadenv and argo_config; when the first fails it calls argo_exit
ArgoInit ==
  /\ IF CanLoad
     THEN argo_env' = Loaded /\ argo_env_initialized' = TRUE /\ Configure(Loaded)
     ELSE /\ argo_env' = <<>> /\ argo_env_initialized' = FALSE
          /\ ConfigCleanup
  /\ UNCHANGED <<files, url, edits>>

ArgoExit ==
  /\ argo_env' = <<>> /\ argo_env_initialized' = FALSE
  /\ ConfigCleanup
  /\ UNCHANGED <<files, url, edits>>
-----------------------------------------------------------------------------
(* The address of the daemon. *)

\* argo_get_daemon_port: a text that is no port number is passed over
GetDaemonPort ==
  IF config \in Ports THEN config
  ELSE IF Defined(argo_env, Port) /\ \E p \in Ports : Value(argo_env, Port) = <<p>>
  THEN Head(Value(argo_env, Port)) ELSE DefaultPort

\* argo_get_daemon_url computes the address once and keeps it
GetDaemonUrl ==
  /\ url' = IF url = Missing THEN GetDaemonPort ELSE url
  /\ UNCHANGED <<files, env_vars, config_vars, edits>>

\* somebody changes a file
Edit ==
  /\ edits < MaxEdits /\ edits' = edits + 1
  /\ \E world \in Worlds : files' = world
  /\ UNCHANGED <<env_vars, config_vars, url>>

EnvNext ==
  \/ LoadEnv \/ ClearEnv \/ FreeEnv \/ ConfigReload \/ ArgoInit \/ ArgoExit \/ GetDaemonUrl
  \/ Edit
  \/ \E n \in Names : UnsetEnv(n) \/ \E v \in SetValues : SetEnv(n, v)

EnvSpec == EnvInit /\ [][EnvNext]_EnvVars
-----------------------------------------------------------------------------
\* Type invariant: no name is twice in the array, whatever is loaded, set and unset.
EnvTypeOK ==
  /\ files \in Worlds /\ edits \in 0..MaxEdits
  /\ argo_env \in Seq(Entries)
  /\ \A j, k \in DOMAIN argo_env : argo_env[j].name = argo_env[k].name => j = k
  /\ argo_env_initialized \in BOOLEAN /\ config_initialized \in BOOLEAN
  /\ config \in Configs /\ url \in Ports \cup {DefaultPort, Missing}

\* All assignments that argo_loadenv reads, in the order its header documents; what is there
\* before counts only while no load has succeeded.
Given(content) == IF content = Missing THEN <<>> ELSE content
Assignments(dir) ==
  Kept \o files.system \o Given(files.home) \o Given(files.argorc)
    \o (IF RootNamed THEN <<>> ELSE <<EnvEntry(Root, <<dir>>)>>)
    \o Given(files.project[dir]) \o Given(files.local[dir])

\* The last assignment of a name wins, wherever the name stands in the array.
LastOf(all, n) == CHOOSE k \in DOMAIN all : /\ all[k].name = n
                                           /\ \A j \in DOMAIN all : all[j].name = n => j <= k
Raw(all) == [n \in NamesIn(all) |-> all[LastOf(all, n)].value]

\* References form no cycle, and no chain of more than MaxDepth variables.
Mentions(raw, n) == {p \in DOMAIN raw : \E k \in DOMAIN raw[n] : raw[n][k] = p}
Acyclic(raw) ==
  \E rank \in [DOMAIN raw -> 1..MaxDepth] :
    \A n \in DOMAIN raw : \A p \in Mentions(raw, n) : rank[p] < rank[n]

\* What raw gives when result has room for everything, and that it has.
Resolved(raw) ==
  LET level[h \in 0..MaxDepth] ==
        IF h = 0 THEN raw ELSE [n \in DOMAIN raw |-> Substituted(raw[n], level[h - 1])]
  IN level[MaxDepth]
Fits(raw) == \A n \in DOMAIN raw : Len(Resolved(raw)[n]) < MaxLen

\* A successful argo_loadenv, argo_init's too, gives every variable the value of the last
\* source that defines it, with the values of this same environment in place of all
\* references: the order of the array, in which expand_all_variables overwrites values that
\* others refer to, makes no difference unless references form a cycle or too long a chain, or
\* a value grows beyond the buffer of expand_value.
LoadedRight ==
  [][(LoadEnv \/ ArgoInit) /\ CanLoad =>
       LET raw == Raw(Assignments(RootDir)) IN
       Acyclic(raw) /\ Fits(raw) =>
         /\ NamesIn(argo_env') = DOMAIN raw
         /\ \A n \in DOMAIN raw :
              /\ Value(argo_env', n) = Substituted(raw[n], ValuesIn(argo_env'))
              /\ Value(argo_env', n) \in Seq(Texts)]_EnvVars

DefinesRoot(content) == \E k \in DOMAIN Given(content) : Given(content)[k].name = Root

\* The first argo_init takes the configuration from the project whose .env.argo it loaded,
\* unless that file, or the local one, moves ARGO_ROOT.
ConfigOfProject ==
  [][ArgoInit /\ CanLoad /\ ~config_initialized
       /\ ~DefinesRoot(files.project[RootDir]) /\ ~DefinesRoot(files.local[RootDir])
       => config' = Override(Override(files.user_config, files.project_config[RootDir]),
                             files.workflow_config[RootDir])]_EnvVars
=============================================================================
