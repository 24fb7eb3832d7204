------------------------------ MODULE PpaCatalog ------------------------------
(***************************************************************************)
(* The generator of PPA.md, python/ppa/generate_ppa.py: it asks Bazel for   *)
(* the synthesis targets, runs them one after the other through Verilog     *)
(* Runner and Yosys, keeps the raw log of each, parses the logs, and writes *)
(* the catalog if it covers every documented module.                        *)
(*                                                                         *)
(* The generator is started again and again in one workspace, with options *)
(* that change what it does; between two runs the sources are edited.       *)
(* Tools fail, and the generator is killed at any point, with its files     *)
(* half-written; MaxFaults bounds both.                                     *)
(*                                                                         *)
(* The measurements of a target are abstracted to the revision of the       *)
(* sources they were taken from.                                            *)
(***************************************************************************)
EXTENDS Integers, Sequences, FiniteSets, VerilogRunnerTools

CONSTANTS
    Targets,      \* the labels that ever existed, sorted
    Builds,       \* Builds[r]: target -> [top, params], at revision r
    Documented,   \* the tops of LIBRARIES.adoc that are not excluded
    Selections,   \* the sets of labels --target may be given; {} without it
    Name,         \* Name[t]: the label's name, which names the runner's files
    NoFile,
    Torn,         \* a file cut off, or one without the report's markers
    MaxFaults     \* bound: failures and kills

VARIABLES
    rev,          \* revision of the sources
    phase,        \* what main() does next
    args,         \* the options of this run
    todo,         \* the set of targets left
    metrics,      \* rows collected so far
    proc,         \* what the child process returned and printed
    logs,         \* --logs-dir: [target -> log]
    stats,        \* workspace: [name -> <name>.log.stat.json]
    ppa,          \* PPA.md: NoFile, Torn or a set of rows
    exit_code,    \* of the last run
    faults

run  == <<args, todo, metrics, proc>>
disk == <<logs, stats, ppa>>
vars == <<rev, phase, run, disk, exit_code, faults>>

-----------------------------------------------------------------------------
TargetSet == {Targets[k] : k \in DOMAIN Targets}
Names == {Name[t] : t \in TargetSet}
Current == Builds[rev]

(* resume and a kept log need --logs-dir; target is the set of --target.    *)
Options ==
    {o \in [logs_dir : BOOLEAN, resume : BOOLEAN, check : BOOLEAN, target : Selections] :
        o.resume => o.logs_dir}

\* (mutant) A log whose statistics are empty parses.
MutIsParsed(log) == log \notin {NoFile, Torn}

(* A log holds the metadata of the target, the statistics, and, if the run   *)
(* got to its end, the logic depth.  parse_log needs the first two.          *)
IsParsed(log) == log \notin {NoFile, Torn} /\ log.stats # NoFile

parse_log(t, log) ==
    [target |-> t, top |-> log.config.top, params |-> log.config.params,
     measured |-> log.stats, depth |-> log.depth]

Key(row) == <<row.top, row.params>>

(* The targets are taken in their order.                                    *)
First(ts) ==
    Targets[CHOOSE k \in DOMAIN Targets :
                Targets[k] \in ts /\ \A i \in 1 .. k - 1 : Targets[i] \notin ts]

query_targets == DOMAIN Current

validate_catalog_coverage(rows) == Documented \subseteq {row.top : row \in rows}

(* The rows of a synthesis of revision r that gets to its end.              *)
FreshRows(r) ==
    {parse_log(t, [config |-> Builds[r][t], stats |-> r, depth |-> TRUE]) :
        t \in DOMAIN Builds[r]}

ASSUME BuildsAssumption ==
    /\ DOMAIN Builds = 1 .. Len(Builds) /\ Len(Builds) \in Nat \ {0}
    /\ \A r \in DOMAIN Builds : DOMAIN Builds[r] \subseteq TargetSet

ASSUME TargetsAssumption ==
    /\ DOMAIN Targets = 1 .. Len(Targets) /\ Len(Targets) \in Nat
    /\ Selections \subseteq SUBSET TargetSet /\ {} \in Selections

ASSUME BoundAssumption == MaxFaults \in Nat

(* The markers of files that hold nothing are not catalogs.                 *)
ASSUME MarkersAssumption ==
    \A r \in DOMAIN Builds : \A rows \in SUBSET FreshRows(r) : rows \notin {NoFile, Torn}

-----------------------------------------------------------------------------
Init ==
    /\ rev = 1
    /\ phase = "exit"
    /\ args = [logs_dir |-> FALSE, resume |-> FALSE, check |-> FALSE, target |-> {}]
    /\ todo = {}
    /\ metrics = {}
    /\ proc = NoFile
    /\ logs = [t \in TargetSet |-> NoFile]
    /\ stats = [n \in Names |-> NoFile]
    /\ ppa = NoFile
    /\ exit_code = 1
    /\ faults = 0

Exit(code) ==
    /\ phase' = "exit"
    /\ exit_code' = code
    /\ todo' = {}
    /\ metrics' = {}
    /\ proc' = NoFile
    /\ UNCHANGED args

Fault(bad) ==
    /\ bad => faults < MaxFaults
    /\ faults' = IF bad THEN faults + 1 ELSE faults

Edit ==
    /\ phase = "exit"
    /\ rev < Len(Builds)
    /\ rev' = rev + 1
    /\ UNCHANGED <<phase, run, disk, exit_code, faults>>

(* Explicit targets are taken as they are; otherwise Bazel is asked, which  *)
(* may fail.                                                                *)
Start(o) ==
    /\ phase = "exit"
    /\ args' = o
    /\ \/ /\ todo' = IF o.target # {} THEN o.target ELSE query_targets
          /\ phase' = "collect" /\ exit_code' = 1
          /\ UNCHANGED <<metrics, proc, faults>>
       \/ /\ o.target = {}
          /\ Fault(TRUE)
          /\ phase' = "exit" /\ exit_code' = 1
          /\ UNCHANGED <<todo, metrics, proc>>
    /\ UNCHANGED <<rev, disk>>

\* (mutant) Two targets may measure the same configuration.
MutCollected(row) ==
    /\ metrics' = metrics \cup {row}
    /\ todo' = todo \ {First(todo)}
    /\ phase' = "collect"
    /\ proc' = NoFile
    /\ UNCHANGED <<args, exit_code>>

(* A row joins the others unless another has its top and parameters.        *)
Collected(row) ==
    IF Key(row) \in {Key(m) : m \in metrics}
    THEN Exit(1)
    ELSE /\ metrics' = metrics \cup {row}
         /\ todo' = todo \ {First(todo)}
         /\ phase' = "collect"
         /\ proc' = NoFile
         /\ UNCHANGED <<args, exit_code>>

\* (mutant) Kept logs are looked for whatever the options say.
MutCached(t) == IsParsed(logs[t])

(* --resume takes a log that parses for the result of its target.           *)
Cached(t) == args.resume /\ IsParsed(logs[t])

\* (mutant) A kept log that cannot be parsed ends the run.
MutUseCached ==
    /\ phase = "collect" /\ todo # {}
    /\ args.resume /\ logs[First(todo)] # NoFile
    /\ IF IsParsed(logs[First(todo)])
       THEN Collected(parse_log(First(todo), logs[First(todo)])) ELSE Exit(1)
    /\ UNCHANGED <<rev, disk, faults>>

UseCached ==
    /\ phase = "collect" /\ todo # {}
    /\ Cached(First(todo))
    /\ Collected(parse_log(First(todo), logs[First(todo)]))
    /\ UNCHANGED <<rev, disk, faults>>

(* bazel run: the build fails and there is no report, or Verilog Runner has *)
(* Yosys synthesise the target and reports.                                 *)
RunTarget ==
    /\ phase = "collect" /\ todo # {}
    /\ LET t == First(todo)
           n == Name[t]
           json(wrote) == IF wrote THEN rev ELSE stats[n]
       IN  /\ ~Cached(t)
           /\ \/ /\ Fault(t \in DOMAIN Current)
                 /\ proc' = [returncode |-> 1, log |-> Torn]
                 /\ UNCHANGED stats
              \/ /\ t \in DOMAIN Current
                 /\ \E o \in {x \in Outcome : ~x.asserted /\ ~x.test_passed} :
                    \E wrote \in StatsWritten(o, FALSE) :
                       /\ Fault(o.return_code # 0)
                       /\ stats' = [stats EXCEPT ![n] = json(wrote)]
                       /\ proc' = [returncode |-> IF yosys_success(o, json(wrote), NoFile)
                                                  THEN 0 ELSE 1,
                                   log |-> [config |-> Current[t],
                                            stats  |-> yosys_report(json(wrote)).stats,
                                            depth  |-> o.return_code = 0]]
    /\ phase' = "ran"
    /\ UNCHANGED <<rev, args, todo, metrics, logs, ppa, exit_code>>

(* run_target after the child: the log is kept, the files the runner left   *)
(* in the workspace are removed, and only then is the return code looked at.*)
SaveLog ==
    /\ phase = "ran"
    /\ LET t == First(todo)
       IN  /\ logs' = IF args.logs_dir THEN [logs EXCEPT ![t] = proc.log] ELSE logs
           /\ stats' = [stats EXCEPT ![Name[t]] = NoFile]
           /\ IF proc.returncode # 0 \/ ~IsParsed(proc.log)
              THEN Exit(1)
              ELSE Collected(parse_log(t, proc.log))
    /\ UNCHANGED <<rev, ppa, faults>>

(* A partial result is printed; a full one must cover the documentation and *)
(* is then compared with PPA.md or written to it.                           *)
Finish ==
    /\ phase = "collect" /\ todo = {}
    /\ CASE args.target # {} -> Exit(0) /\ UNCHANGED ppa
         [] args.target = {} /\ (metrics = {} \/ ~validate_catalog_coverage(metrics)) ->
                Exit(1) /\ UNCHANGED ppa
         [] OTHER ->
                IF args.check THEN Exit(IF ppa = metrics THEN 0 ELSE 1) /\ UNCHANGED ppa
                ELSE Exit(0) /\ ppa' = metrics
    /\ UNCHANGED <<rev, logs, stats, faults>>

(* The generator is killed: while the child runs, which then may have left   *)
(* its statistics; while the log is written or before the clean-up; while    *)
(* PPA.md is written.                                                       *)
Killed ==
    /\ phase # "exit"
    /\ Fault(TRUE)
    /\ \/ UNCHANGED disk
       \/ /\ phase = "collect" /\ todo # {} /\ ~Cached(First(todo))
          /\ First(todo) \in DOMAIN Current
          /\ stats' = [stats EXCEPT ![Name[First(todo)]] = rev]
          /\ UNCHANGED <<logs, ppa>>
       \/ /\ phase = "ran" /\ args.logs_dir
          /\ \E l \in {Torn, proc.log} : logs' = [logs EXCEPT ![First(todo)] = l]
          /\ UNCHANGED <<stats, ppa>>
       \/ /\ phase = "collect" /\ todo = {}
          /\ ~args.check /\ args.target = {} /\ validate_catalog_coverage(metrics)
          /\ ppa' = Torn
          /\ UNCHANGED <<logs, stats>>
    /\ Exit(1)
    /\ UNCHANGED rev

Next ==
    \/ Edit
    \/ \E o \in Options : Start(o)
    \/ UseCached \/ RunTarget \/ SaveLog \/ Finish
    \/ Killed

Spec == Init /\ [][Next]_vars

(* Someone keeps starting the generator and lets it go on.                  *)
FairSpec == Spec /\ WF_vars(Next)

-----------------------------------------------------------------------------
IsCatalog(file) == file \notin {NoFile, Torn}

TypeOK ==
    /\ rev \in DOMAIN Builds
    /\ phase \in {"collect", "ran", "exit"}
    /\ args \in Options
    /\ todo \subseteq TargetSet
    /\ phase = "ran" => todo # {}
    /\ \A row \in metrics : row.target \in TargetSet /\ row.measured \in 1 .. rev
    /\ \A n \in Names : stats[n] # NoFile => stats[n] \in 1 .. rev
    /\ faults \in 0 .. MaxFaults
    /\ exit_code \in {0, 1}

(* A catalog on disk covers every documented top, shows no configuration    *)
(* twice, and has one row for every target there was at some revision.      *)
CatalogIsComplete ==
    IsCatalog(ppa) =>
        /\ Documented \subseteq {row.top : row \in ppa}
        /\ \A a, b \in ppa : Key(a) = Key(b) => a = b
        /\ \E r \in 1 .. rev : {row.target : row \in ppa} = DOMAIN Builds[r]

(* A full run without --resume that ends with 0 leaves, or confirms, a       *)
(* catalog of which every row is that of a target as it is now, measured on *)
(* the sources as they are by a synthesis that got to its end: nothing that *)
(* failed or killed runs left behind is in it.                              *)
FullRunIsFresh ==
    [][phase # "exit" /\ phase' = "exit" /\ exit_code' = 0
         /\ ~args.resume /\ args.target = {} =>
           /\ IsCatalog(ppa')
           /\ ppa' \subseteq FreshRows(rev)]_vars

(* Whoever starts the generator with --resume until it succeeds does see it *)
(* succeed, however it was killed before, unless the logs that are kept     *)
(* themselves collide or leave a documented top out.                        *)
Resuming == [logs_dir |-> TRUE, resume |-> TRUE, check |-> FALSE, target |-> {}]

Blocked ==
    LET row(t) == IF IsParsed(logs[t]) THEN parse_log(t, logs[t])
                  ELSE parse_log(t, [config |-> Current[t], stats |-> rev, depth |-> TRUE])
        rows == {row(t) : t \in DOMAIN Current}
    IN  \/ Cardinality({Key(r) : r \in rows}) < Cardinality(DOMAIN Current)
        \/ ~validate_catalog_coverage(rows)

ResumeFinishes ==
    <>[](args = Resuming) =>
        \/ <>(args = Resuming /\ phase = "exit" /\ exit_code = 0)
        \/ <>[]Blocked

(* Every row of a catalog comes from a synthesis that got to its end: a      *)
(* target whose synthesis failed ends the run that tried it.                *)
OnlyFinishedSynthesis ==
    IsCatalog(ppa) => \A row \in ppa : row.depth
=============================================================================
