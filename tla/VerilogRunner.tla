----------------------------- MODULE VerilogRunner -----------------------------
(***************************************************************************)
(* Verilog Runner, python/verilog_runner: it looks for plugins on its        *)
(* search path, imports them, picks the one for the subcommand and tool of  *)
(* the command line, writes the files its tool reads, runs the tool and      *)
(* says whether the run succeeded.                                          *)
(*                                                                         *)
(* A plugin file has a module name; two directories may hold the same name, *)
(* and Python imports a name once.  The order of a directory listing is the *)
(* file system's.  The runner works in a directory where earlier runs may   *)
(* have left their files, complete or not, and it may be killed anywhere.   *)
(***************************************************************************)
EXTENDS Integers, Sequences, FiniteSets, Functions, VerilogRunnerTools

CONSTANTS
    PluginPath,   \* the directories of VERILOG_RUNNER_PLUGIN_PATH, in order
    Here,         \* ".", which is always searched last
    Layouts,      \* the contents directories may have: [dir -> [name -> file]]
    Commands,     \* the command lines given to the runner
    Loaded,       \* names of modules that Python has imported before
    NoDirectory,  \* a directory of the path that does not exist
    NoVersion,    \* a module without PLUGIN_API_VERSION
    NoTool        \* no --tool on the command line

VARIABLES
    layout,       \* what is on disk
    phase,        \* what main() does next
    todo,         \* plugin files left, in the order they were listed
    sys_modules,  \* names imported so far, with where they came from
    modules,      \* the plugin modules accepted, in order
    args,         \* the command line
    files,        \* working directory: which files there are, and of which run
    outcome,      \* what the tool did
    log,          \* the report in the log
    exit_code     \* of the last run

discovery == <<layout, todo, sys_modules, modules>>
results   == <<files, outcome, log, exit_code>>
vars == <<phase, args, discovery, results>>

-----------------------------------------------------------------------------
Subcommands == {"elab", "lint", "sim", "fpv", "synth"}
PLUGIN_API_VERSION == <<2, 0, 0>>

(* The command lines argparse knows how to read.  top is FALSE without --top;    *)
(* the custom Tcl body is absent, a file, or a file without a line.          *)
Command ==
    {c \in [subcommand : Subcommands, tool : {NoTool, "slang", "verilator", "yosys", "vcs"},
            top : BOOLEAN, opt : BOOLEAN, dry_run : BOOLEAN,
            compile_only : BOOLEAN, elab_only : BOOLEAN,
            custom_tcl_body : {"none", "lines", "empty"}] :
        /\ c.compile_only => c.subcommand = "elab"
        /\ c.elab_only => c.subcommand \in {"sim", "fpv"}}

ASSUME CommandsAssumption == Commands \subseteq Command
ASSUME PathAssumption == PluginPath \in Seq(Range(PluginPath))

is_plugin_compatible(runner, plugin) ==
    /\ plugin # NoVersion
    /\ runner[1] = plugin[1]
    /\ runner[2] = plugin[2]
    /\ runner[3] <= plugin[3]

plugin_dirs == Append(PluginPath, Here)

ASSUME LayoutsAssumption ==
    \A l \in Layouts : \A k \in DOMAIN plugin_dirs :
        LET dir == l[plugin_dirs[k]]
        IN  dir # NoDirectory =>
                /\ IsFiniteSet(DOMAIN dir)
                /\ \A n \in DOMAIN dir : \A c \in dir[n].provides : c = <<c[1], c[2]>>

(* The plugin files there are, each with the place of its directory on the  *)
(* path; a directory that is not there has none.                            *)
Dir(k) == layout[plugin_dirs[k]]
File(m) == Dir(m.at)[m.name]
PluginFiles ==
    UNION {{[at |-> k, name |-> n] : n \in DOMAIN Dir(k)} :
              k \in {i \in DOMAIN plugin_dirs : Dir(i) # NoDirectory}}

Compatible(m) == is_plugin_compatible(PLUGIN_API_VERSION, File(m).api)

(* organize_plugins: a later plugin replaces an earlier one of the same     *)
(* subcommand and tool; the first tool of a subcommand is its default.      *)
Provides(k, sub, tool) == <<sub, tool>> \in File(modules[k]).provides

tool_choices(sub) ==
    {p[2] : p \in {q \in UNION {File(m).provides : m \in Range(modules)} : q[1] = sub}}

plugin_class(sub, tool) ==
    modules[CHOOSE k \in DOMAIN modules :
                /\ Provides(k, sub, tool)
                /\ \A i \in DOMAIN modules : Provides(i, sub, tool) => i <= k]

default_tool(sub) ==
    LET first == CHOOSE k \in DOMAIN modules :
                     /\ \E tool \in tool_choices(sub) : Provides(k, sub, tool)
                     /\ \A i \in DOMAIN modules : i < k =>
                            ~\E tool \in tool_choices(sub) : Provides(i, sub, tool)
    IN  CHOOSE tool \in tool_choices(sub) : Provides(first, sub, tool)

tool_of(c) == IF c.tool = NoTool THEN default_tool(c.subcommand) ELSE c.tool

-----------------------------------------------------------------------------
Aged(state) == IF state = "absent" THEN "absent" ELSE "stale"
FileNames == {"filelist", "tcl", "script", "log", "stats"}
NoOutcome == [return_code |-> 1, asserted |-> FALSE, test_passed |-> FALSE]
NoArgs == [subcommand |-> "elab", tool |-> NoTool, top |-> FALSE, opt |-> FALSE,
           dry_run |-> FALSE, compile_only |-> FALSE, elab_only |-> FALSE,
           custom_tcl_body |-> "none"]
NoLog == yosys_report("absent")

Init ==
    /\ layout \in Layouts
    /\ phase = "exit"
    /\ todo = <<>>
    /\ sys_modules = {}
    /\ modules = <<>>
    /\ args = NoArgs
    /\ files = [f \in FileNames |-> "absent"]
    /\ outcome = NoOutcome
    /\ log = NoLog
    /\ exit_code = 1

Exit(code) ==
    /\ phase' = "exit"
    /\ exit_code' = code

(* A new run in the same directory.                                         *)
Start ==
    /\ phase = "exit"
    /\ phase' = "collect"
    /\ args' = NoArgs
    /\ todo' = <<>>
    /\ sys_modules' = {[at |-> 0, name |-> n] : n \in Loaded}
    /\ modules' = <<>>
    /\ files' = [f \in FileNames |-> Aged(files[f])]
    /\ outcome' = NoOutcome
    /\ log' = [log EXCEPT !.stats = Aged(@)]
    /\ exit_code' = 1
    /\ UNCHANGED layout

(* collect_plugin_files: the directories come in the order of the path, and *)
(* within a directory the files come in any order.                          *)
Listings ==
    {l \in [1 .. Cardinality(PluginFiles) -> PluginFiles] :
        /\ Range(l) = PluginFiles
        /\ \A i, j \in DOMAIN l : i <= j => l[i].at <= l[j].at}

Collect ==
    /\ phase = "collect"
    /\ todo' \in Listings
    /\ phase' = "import"
    /\ UNCHANGED <<args, layout, sys_modules, modules, results>>

\* (mutant) Every file is loaded under its path.
MutImportModule(file) == file

(* A name that is in sys.modules is not looked up again.                    *)
import_module(file) ==
    LET known == {m \in sys_modules : m.name = file.name}
    IN  IF known # {} THEN CHOOSE m \in known : TRUE ELSE file

\* (mutant) A module that raised while it was loaded is kept.
MutImports(module) == TRUE

imports(module) == module.at = 0 \/ File(module).loads

(* import_plugin_modules, one file.  One that fails to load is not kept in  *)
(* sys.modules; it is skipped with a warning, as is one of another version. *)
ImportNext ==
    /\ phase = "import" /\ todo # <<>>
    /\ LET file   == Head(todo)
           module == import_module(file)
       IN  /\ sys_modules' = IF imports(module) THEN sys_modules \cup {module} ELSE sys_modules
           /\ modules' = IF /\ imports(module)
                            /\ module.at # 0
                            /\ Compatible(module)
                         THEN Append(modules, module) ELSE modules
    /\ todo' = Tail(todo)
    /\ UNCHANGED <<phase, args, layout, results>>

(* A class without subcommand or tool_name, or of a subcommand that does    *)
(* not exist, ends the runner; so does having no plugin.                    *)
Organize ==
    /\ phase = "import" /\ todo = <<>>
    /\ LET classes == UNION {File(m).provides : m \in Range(modules)}
       IN  IF classes = {} \/ \E c \in classes : c[1] \notin Subcommands \/ c[2] = NoTool
           THEN Exit(1)
           ELSE phase' = "parse" /\ UNCHANGED exit_code
    /\ UNCHANGED <<args, discovery, files, outcome, log>>

validate_top(c) == c.top \/ (c.subcommand = "elab" /\ c.compile_only)

(* --opt is a legacy option of one simulator.                               *)
common_args(c) == ~(c.subcommand = "sim" /\ c.opt /\ tool_of(c) # "vcs")

(* argparse knows the subcommands and tools of the plugins; a --tool that   *)
(* is not given has the default, so by then there always is a tool.         *)
Parse(c) ==
    /\ phase = "parse"
    /\ args' = c
    /\ LET choices == tool_choices(c.subcommand)
       IN  IF choices = {} \/ c.tool \notin choices \cup {NoTool} \/ ~validate_top(c)
           THEN Exit(2)
           ELSE IF ~common_args(c) THEN Exit(1)
           ELSE phase' = "prepare" /\ UNCHANGED exit_code
    /\ UNCHANGED <<discovery, files, outcome, log>>

(* prepare_files: the filelist, then the Tcl script, then the shell script. *)
(* Showing a file without lines takes the logarithm of 0 and ends the run.  *)
Prepare ==
    /\ phase = "prepare"
    /\ IF args.custom_tcl_body = "empty"
       THEN /\ files' = [files EXCEPT !["filelist"] = "fresh"]
            /\ Exit(1)
       ELSE /\ files' = [f \in FileNames |->
                            IF f \in {"filelist", "tcl", "script"} THEN "fresh" ELSE files[f]]
            /\ IF args.dry_run THEN Exit(0) ELSE phase' = "run" /\ UNCHANGED exit_code
    /\ UNCHANGED <<args, discovery, outcome, log>>

(* run_shell_script: the tool runs on whatever the files say.               *)
RunTool ==
    /\ phase = "run"
    /\ outcome' \in Outcome
    /\ files' \in IF tool_of(args) = "yosys"
                  THEN {[files EXCEPT !["stats"] = IF w THEN "fresh" ELSE @] :
                           w \in StatsWritten(outcome', args.custom_tcl_body # "none")}
                  ELSE {files}
    /\ phase' = "report"
    /\ UNCHANGED <<args, discovery, log, exit_code>>

(* The log is written and the verdict is given.                             *)
Report ==
    /\ phase = "report"
    /\ files' = [files EXCEPT !["log"] = "fresh"]
    /\ log' = IF tool_of(args) = "yosys" THEN yosys_report(files["stats"]) ELSE NoLog
    /\ Exit(IF CASE tool_of(args) = "verilator" -> verilator_success(outcome, args.elab_only)
                 [] tool_of(args) = "yosys"     -> yosys_success(outcome, files["stats"], "absent")
                 [] OTHER                 -> slang_success(outcome)
            THEN 0 ELSE 1)
    /\ UNCHANGED <<args, discovery, outcome>>

(* The run is killed; the files it was writing may be there or not.         *)
Killed ==
    /\ phase \in {"prepare", "run", "report"}
    /\ \E written \in SUBSET (CASE phase = "prepare" -> {"filelist", "tcl", "script"}
                                [] phase = "run"     -> IF tool_of(args) = "yosys" THEN {"stats"} ELSE {}
                                [] phase = "report"  -> {"log"}) :
           files' = [f \in FileNames |-> IF f \in written THEN "fresh" ELSE files[f]]
    /\ Exit(1)
    /\ UNCHANGED <<args, discovery, outcome, log>>

Next ==
    \/ Start \/ Collect \/ ImportNext \/ Organize
    \/ \E c \in Commands : Parse(c)
    \/ Prepare \/ RunTool \/ Report \/ Killed

Spec == Init /\ [][Next]_vars

-----------------------------------------------------------------------------
Ages == {"absent", "stale", "fresh"}
Logs == [metadata : {TRUE}, stats : Ages]

TypeOK ==
    /\ phase \in {"collect", "import", "parse", "prepare", "run", "report", "exit"}
    /\ args \in Commands \cup {NoArgs}
    /\ files \in [FileNames -> Ages]
    /\ outcome \in Outcome
    /\ log \in Logs
    /\ exit_code \in 0 .. 2
    /\ \A k \in DOMAIN modules : File(modules[k]).loads

(* Of the copies of a plugin file, the one Python gets to is that of the    *)
(* first directory on the path where it loads.                              *)
FirstCopies ==
    {m \in PluginFiles :
        /\ m.name \notin Loaded
        /\ File(m).loads
        /\ \A c \in PluginFiles : c.name = m.name /\ File(c).loads => m.at <= c.at}

Served == {m \in FirstCopies : Compatible(m)}

(* Once the plugins are in, the tools on offer are those of the first       *)
(* copies that have a compatible version: whatever else is on the path, in  *)
(* whatever order directories are listed, takes none away and adds none,    *)
(* and the class of a tool comes from a first copy.                         *)
FirstCopyServes ==
    phase \in {"parse", "prepare", "run", "report"} =>
        \A sub \in Subcommands :
            /\ tool_choices(sub) = {p[2] : p \in {q \in UNION {File(m).provides : m \in Served} :
                                                   q[1] = sub}}
            /\ \A tool \in tool_choices(sub) : plugin_class(sub, tool) \in Served

(* A run that ends with 0 either was dry and wrote the files the tool would *)
(* read, or ran the tool on files it wrote itself, the tool returned 0,     *)
(* and what the verdict rests on was produced by this run: the messages of  *)
(* the simulation, and the statistics in the log unless a custom Tcl body   *)
(* took their place.                                                        *)
SuccessIsOfThisRun ==
    phase = "exit" /\ exit_code = 0 =>
        /\ \A f \in {"filelist", "tcl", "script"} : files[f] = "fresh"
        /\ ~args.dry_run =>
               /\ outcome.return_code = 0
               /\ files["log"] = "fresh"
               /\ tool_of(args) = "verilator" /\ ~args.elab_only =>
                      outcome.test_passed /\ ~outcome.asserted
               /\ tool_of(args) = "yosys" /\ args.custom_tcl_body = "none" => log.stats = "fresh"
=============================================================================
