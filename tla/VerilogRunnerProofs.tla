------------------------- MODULE VerilogRunnerProofs -------------------------
(***************************************************************************)
(* Theorems about VerilogRunner for any plugins, anywhere on the search     *)
(* path, and any command lines: which plugins serve, and what a run that    *)
(* ends with 0 vouches for.                                                *)
(***************************************************************************)
EXTENDS VerilogRunner, FiniteSetTheorems, TLAPS

(* A set of natural numbers that is not empty has a least one.               *)
LEMMA LeastNat ==
  ASSUME NEW S \in SUBSET Nat, S # {}
  PROVE  \E n \in S : \A m \in S : n <= m
<1>1. PICK n \in S : \A m \in S : <<m, n>> \notin OpToRel(<, Nat)
  BY NatLessThanWellFounded, WFMin, Zenon
<1>2. \A m \in S : ~(m < n)
  BY <1>1, Zenon DEF OpToRel
<1> QED BY <1>2

(* The values of a function on a finite set are finitely many, and as many  *)
(* as its arguments if none occurs twice.                                   *)
LEMMA FiniteImage ==
  ASSUME NEW S, IsFiniteSet(S), NEW f, DOMAIN f = S
  PROVE  /\ IsFiniteSet({f[x] : x \in S})
         /\ (\A x, y \in S : f[x] = f[y] => x = y) =>
                Cardinality({f[x] : x \in S}) = Cardinality(S)
<1> DEFINE T == {f[x] : x \in S}
           g == [x \in S |-> f[x]]
<1>1. g \in Surjection(S, T)
  BY DEF Surjection
<1>2. (\A x, y \in S : f[x] = f[y] => x = y) => g \in Injection(S, T)
  BY DEF Injection, IsInjective
<1>3. /\ IsFiniteSet(T)
      /\ (\A x, y \in S : f[x] = f[y] => x = y) => Cardinality(T) = Cardinality(S)
  <2> HIDE DEF g, T
  <2> QED BY <1>1, <1>2, FS_Surjection
<1> QED BY <1>3

Written == {"filelist", "tcl", "script"}

(* The tool is run only when it is not a dry run, on the three files that    *)
(* were written in this run.                                                *)
Supplied ==
    phase \in {"run", "report"} =>
        /\ ~args.dry_run
        /\ \A f \in Written : files[f] = "fresh"

(* Yosys has written its statistics in this run if it returned 0 and the     *)
(* Tcl body that tells it to was not replaced.                              *)
Measured ==
    /\ phase = "report" /\ tool_of(args) = "yosys"
    /\ args.custom_tcl_body = "none" /\ outcome.return_code = 0
    => files["stats"] = "fresh"

IInv ==
    /\ DOMAIN files = FileNames
    /\ outcome \in Outcome
    /\ Supplied
    /\ Measured
    /\ SuccessIsOfThisRun

(* The tool that is meant does not change while the plugins stay.            *)
LEMMA ToolIsStable ==
  ASSUME UNCHANGED <<args, layout, modules>>
  PROVE  tool_of(args)' = tool_of(args)
BY DEF tool_of, default_tool, tool_choices, Provides, File, Dir

LEMMA InitEstablishes == Init => IInv
BY DEF Init, IInv, NoOutcome, Outcome, Supplied, Measured, SuccessIsOfThisRun

LEMMA PrepareKeeps ==
  ASSUME IInv, Prepare
  PROVE  IInv'
<1>1. phase = "prepare" /\ UNCHANGED <<args, discovery, outcome, log>>
  BY DEF Prepare
<1>2. CASE args.custom_tcl_body = "empty"
  <2>1. files' = [files EXCEPT !["filelist"] = "fresh"] /\ phase' = "exit" /\ exit_code' = 1
    BY <1>2 DEF Prepare, Exit
  <2> QED BY <1>1, <2>1 DEF IInv, Supplied, Measured, SuccessIsOfThisRun
<1>3. CASE args.custom_tcl_body # "empty"
  <2>1. /\ files' = [f \in FileNames |-> IF f \in Written THEN "fresh" ELSE files[f]]
        /\ IF args.dry_run THEN phase' = "exit" /\ exit_code' = 0 ELSE phase' = "run"
    BY <1>3 DEF Prepare, Exit, Written
  <2>2. DOMAIN files' = FileNames /\ \A f \in Written : files'[f] = "fresh"
    BY <2>1 DEF FileNames, Written
  <2>3. CASE args.dry_run
    BY <1>1, <2>1, <2>2, <2>3 DEF IInv, Supplied, Measured, SuccessIsOfThisRun, Written
  <2>4. CASE ~args.dry_run
    BY <1>1, <2>1, <2>2, <2>4 DEF IInv, Supplied, Measured, SuccessIsOfThisRun
  <2> QED BY <2>3, <2>4
<1> QED BY <1>2, <1>3

LEMMA RunToolKeeps ==
  ASSUME IInv, RunTool
  PROVE  IInv'
<1>1. /\ phase = "run" /\ phase' = "report" /\ outcome' \in Outcome
      /\ UNCHANGED <<args, discovery, log, exit_code>>
  BY DEF RunTool
<1>2. tool_of(args)' = tool_of(args)
  BY <1>1, ToolIsStable DEF discovery
<1>3. \/ tool_of(args) # "yosys" /\ files' = files
      \/ \E w \in StatsWritten(outcome', args.custom_tcl_body # "none") :
             files' = [files EXCEPT !["stats"] = IF w THEN "fresh" ELSE @]
  BY DEF RunTool
<1>4. DOMAIN files' = FileNames /\ \A f \in Written : files'[f] = "fresh"
  BY <1>1, <1>3 DEF IInv, Supplied, FileNames, Written
<1>5. Measured'
  <2> SUFFICES ASSUME tool_of(args) = "yosys", args.custom_tcl_body = "none",
                      outcome'.return_code = 0
               PROVE  files'["stats"] = "fresh"
    BY <1>1, <1>2 DEF Measured
  <2>1. StatsWritten(outcome', args.custom_tcl_body # "none") = {TRUE}
    BY DEF StatsWritten
  <2> QED BY <1>3, <2>1 DEF IInv, FileNames
<1> QED BY <1>1, <1>4, <1>5 DEF IInv, Supplied, SuccessIsOfThisRun

LEMMA ReportKeeps ==
  ASSUME IInv, Report
  PROVE  IInv'
<1> DEFINE tool == tool_of(args)
           ok == CASE tool = "verilator" -> verilator_success(outcome, args.elab_only)
                   [] tool = "yosys"     -> yosys_success(outcome, files["stats"], "absent")
                   [] OTHER              -> slang_success(outcome)
<1>1. /\ phase = "report" /\ phase' = "exit"
      /\ exit_code' = IF ok THEN 0 ELSE 1
      /\ files' = [files EXCEPT !["log"] = "fresh"]
      /\ log' = IF tool = "yosys" THEN yosys_report(files["stats"]) ELSE NoLog
      /\ UNCHANGED <<args, discovery, outcome>>
  BY DEF Report, Exit
<1>2. tool_of(args)' = tool
  BY <1>1, ToolIsStable DEF discovery
<1>3. /\ DOMAIN files' = FileNames /\ files'["log"] = "fresh"
      /\ \A f \in Written : files'[f] = "fresh"
      /\ ~args.dry_run
  BY <1>1 DEF IInv, Supplied, FileNames, Written
<1>4. SuccessIsOfThisRun'
  <2> SUFFICES ASSUME ok
               PROVE  /\ outcome.return_code = 0
                      /\ tool = "verilator" /\ ~args.elab_only =>
                             outcome.test_passed /\ ~outcome.asserted
                      /\ tool = "yosys" /\ args.custom_tcl_body = "none" => log'.stats = "fresh"
    BY <1>1, <1>2, <1>3 DEF SuccessIsOfThisRun, Written
  <2>1. CASE tool = "verilator"
    BY <2>1 DEF verilator_success
  <2>2. CASE tool = "yosys"
    <3>1. outcome.return_code = 0
      BY <2>2 DEF yosys_success
    <3>2. log'.stats = files["stats"]
      BY <1>1, <2>2 DEF yosys_report
    <3> QED BY <1>1, <2>2, <3>1, <3>2 DEF IInv, Measured
  <2>3. CASE tool \notin {"verilator", "yosys"}
    BY <2>3 DEF slang_success
  <2> QED BY <2>1, <2>2, <2>3
<1> QED BY <1>1, <1>3, <1>4 DEF IInv, Supplied, Measured

(* In the other steps there is no verdict, or one of failure.                *)
LEMMA OtherStepsKeep ==
  ASSUME IInv,
         \/ Start \/ Collect \/ ImportNext \/ Organize
         \/ \E c \in Commands : Parse(c)
         \/ Killed
  PROVE  IInv'
<1>1. outcome' \in Outcome /\ DOMAIN files' = FileNames
  <2>1. CASE Start
    BY <2>1 DEF Start, NoOutcome, Outcome
  <2>2. CASE Killed
    BY <2>2 DEF IInv, Killed
  <2>3. CASE Collect \/ ImportNext \/ Organize \/ \E c \in Commands : Parse(c)
    BY <2>3 DEF IInv, Collect, ImportNext, Organize, Parse, results
  <2> QED BY <2>1, <2>2, <2>3
<1>2. /\ phase' \notin {"run", "report"}
      /\ phase' = "exit" => exit_code' \in {1, 2}
  <2>1. CASE Start
    BY <2>1 DEF Start
  <2>2. CASE Collect \/ ImportNext \/ Organize
    BY <2>2 DEF Collect, ImportNext, Organize, Exit
  <2>3. ASSUME NEW c \in Commands, Parse(c)
        PROVE  /\ phase' \notin {"run", "report"}
               /\ phase' = "exit" => exit_code' \in {1, 2}
    BY <2>3 DEF Parse, Exit
  <2>4. CASE Killed
    BY <2>4 DEF Killed, Exit
  <2> QED BY <2>1, <2>2, <2>3, <2>4
<1> QED BY <1>1, <1>2 DEF IInv, Supplied, Measured, SuccessIsOfThisRun

LEMMA StepKeeps == IInv /\ [Next]_vars => IInv'
<1> SUFFICES ASSUME IInv, [Next]_vars PROVE IInv'
  OBVIOUS
<1>1. CASE Prepare
  BY <1>1, PrepareKeeps
<1>2. CASE RunTool
  BY <1>2, RunToolKeeps
<1>3. CASE Report
  BY <1>3, ReportKeeps
<1>4. CASE UNCHANGED vars
  <2>1. UNCHANGED <<phase, args, layout, modules, files, outcome, log, exit_code>>
    BY <1>4 DEF vars, discovery, results
  <2>2. tool_of(args)' = tool_of(args)
    BY <2>1, ToolIsStable
  <2> QED BY <2>1, <2>2 DEF IInv, Supplied, Measured, SuccessIsOfThisRun
<1> QED BY <1>1, <1>2, <1>3, <1>4, OtherStepsKeep DEF Next

(* An exit code of 0 (main, run_test of the plugins) is about this run: the  *)
(* files the tool read, what it returned, and the messages or statistics    *)
(* the verdict rests on.                                                    *)
THEOREM SuccessIsEarned == Spec => []SuccessIsOfThisRun
<1>1. IInv => SuccessIsOfThisRun
  BY DEF IInv
<1> QED BY <1>1, InitEstablishes, StepKeeps, PTL DEF Spec

-----------------------------------------------------------------------------
(* What was imported before the plugins.                                    *)
Builtin == {[at |-> 0, name |-> n] : n \in Loaded}

(* A first copy that is still to be imported: no other file of its name      *)
(* loads before it.                                                         *)
Ahead(m) ==
    \E k \in DOMAIN todo :
        /\ todo[k] = m
        /\ \A i \in 1 .. k : todo[i].name = m.name /\ File(todo[i]).loads => todo[i] = m

(* What has been imported are first copies; those that are not yet are       *)
(* ahead, and in the end there are none left.                               *)
Imported ==
    /\ sys_modules \subseteq Builtin \cup FirstCopies
    /\ phase = "import" =>
           /\ Builtin \subseteq sys_modules
           /\ todo \in Seq(PluginFiles)
           /\ \A m \in FirstCopies : m \in sys_modules \/ Ahead(m)
    /\ phase \in {"parse", "prepare", "run", "report"} => FirstCopies \subseteq sys_modules

(* The modules accepted are the ones imported that are compatible.           *)
Accepted ==
    /\ modules \in Seq(FirstCopies)
    /\ Range(modules) = {m \in sys_modules : m.at # 0 /\ Compatible(m)}

(* A run begins with nothing accepted.                                      *)
PluginInv ==
    /\ Imported
    /\ Accepted
    /\ phase = "collect" => sys_modules = Builtin /\ modules = <<>>
    /\ layout \in Layouts

LEMMA PluginFilesAreOnPath ==
  /\ \A m \in PluginFiles : m.at \in Nat /\ m.at # 0 /\ m = [at |-> m.at, name |-> m.name]
  /\ FirstCopies \subseteq PluginFiles
<1>1. DOMAIN plugin_dirs \subseteq Nat \ {0}
  BY PathAssumption DEF plugin_dirs
<1>2. \A m \in PluginFiles : m.at \in DOMAIN plugin_dirs /\ m = [at |-> m.at, name |-> m.name]
  BY DEF PluginFiles
<1> QED BY <1>1, <1>2 DEF FirstCopies

LEMMA BuiltinsAreLoaded ==
  \A m \in Builtin : m.at = 0 /\ m.name \in Loaded
BY DEF Builtin

(* A name has at most one first copy, and has one if some copy loads.        *)
LEMMA FirstCopyIsUnique ==
  ASSUME NEW a \in FirstCopies, NEW b \in FirstCopies, a.name = b.name
  PROVE  a = b
BY PluginFilesAreOnPath DEF FirstCopies

LEMMA FirstCopyExists ==
  ASSUME NEW m \in PluginFiles, m.name \notin Loaded, File(m).loads
  PROVE  \E c \in FirstCopies : c.name = m.name
<1> DEFINE C == {c \in PluginFiles : c.name = m.name /\ File(c).loads}
           S == {c.at : c \in C}
<1>1. S \in SUBSET Nat /\ S # {}
  BY PluginFilesAreOnPath
<1>2. PICK k \in S : \A i \in S : k <= i
  <2> HIDE DEF S
  <2> QED BY <1>1, LeastNat
<1>3. PICK c \in C : c.at = k
  OBVIOUS
<1> QED BY <1>2, <1>3 DEF FirstCopies

(* What the plugin files are does not change while the disk does not.        *)
LEMMA PluginFilesAreStable ==
  ASSUME UNCHANGED layout
  PROVE  /\ PluginFiles' = PluginFiles /\ FirstCopies' = FirstCopies
         /\ \A m : File(m)' = File(m)
<1>1. \A k : Dir(k)' = Dir(k)
  BY DEF Dir
<1>2. \A m : File(m)' = File(m)
  BY <1>1 DEF File
<1> QED BY <1>1, <1>2 DEF PluginFiles, FirstCopies

LEMMA PluginFilesAreFinite ==
  ASSUME layout \in Layouts
  PROVE  IsFiniteSet(PluginFiles)
<1> DEFINE K == {i \in DOMAIN plugin_dirs : Dir(i) # NoDirectory}
           files_of(k) == {[at |-> k, name |-> n] : n \in DOMAIN Dir(k)}
           F == [k \in K |-> files_of(k)]
<1>1. IsFiniteSet(K)
  <2>1. DOMAIN plugin_dirs = 1 .. Len(plugin_dirs) /\ Len(plugin_dirs) \in Nat
    BY PathAssumption DEF plugin_dirs
  <2>2. IsFiniteSet(DOMAIN plugin_dirs)
    BY <2>1, FS_Interval
  <2> QED BY <2>2, FS_Subset
<1>2. ASSUME NEW k \in K
      PROVE  IsFiniteSet(files_of(k))
  <2> DEFINE f == [n \in DOMAIN Dir(k) |-> [at |-> k, name |-> n]]
  <2>1. IsFiniteSet(DOMAIN Dir(k))
    BY LayoutsAssumption DEF Dir
  <2>2. IsFiniteSet({f[n] : n \in DOMAIN Dir(k)})
    <3>1. DOMAIN f = DOMAIN Dir(k)
      OBVIOUS
    <3> HIDE DEF f
    <3> QED BY <2>1, <3>1, FiniteImage
  <2>3. {f[n] : n \in DOMAIN Dir(k)} = files_of(k)
    OBVIOUS
  <2> QED BY <2>2, <2>3
<1>3. IsFiniteSet({F[k] : k \in K})
  <2>1. DOMAIN F = K
    OBVIOUS
  <2> HIDE DEF F, K
  <2> QED BY <1>1, <2>1, FiniteImage
<1>4. \A T \in {F[k] : k \in K} : IsFiniteSet(T)
  BY <1>2
<1>5. IsFiniteSet(UNION {F[k] : k \in K})
  <2> HIDE DEF F, K
  <2> QED BY <1>3, <1>4, FS_UNION
<1>6. {F[k] : k \in K} = {files_of(k) : k \in K}
  OBVIOUS
<1> QED BY <1>5, <1>6 DEF PluginFiles

(* Every first copy is ahead in a listing.                                  *)
LEMMA ListingsHoldFirstCopies ==
  ASSUME layout \in Layouts, Collect
  PROVE  /\ todo' \in Seq(PluginFiles)
         /\ \A m \in FirstCopies : Ahead(m)'
<1>1. PICK l \in Listings : todo' = l /\ UNCHANGED layout
  BY DEF Collect
<1>2. /\ l \in [1 .. Cardinality(PluginFiles) -> PluginFiles]
      /\ Range(l) = PluginFiles
      /\ \A i, j \in DOMAIN l : i <= j => l[i].at <= l[j].at
  BY <1>1 DEF Listings
<1>3. Cardinality(PluginFiles) \in Nat
  BY PluginFilesAreFinite, FS_CardinalityType
<1>4. l \in Seq(PluginFiles)
  BY <1>2, <1>3
<1>5. ASSUME NEW m \in FirstCopies
      PROVE  Ahead(m)'
  <2>1. PICK k \in DOMAIN l : l[k] = m
    BY <1>2, PluginFilesAreOnPath DEF Range
  <2>2. ASSUME NEW i \in 1 .. k, l[i].name = m.name, File(l[i]).loads
        PROVE  l[i] = m
    <3>1. i \in DOMAIN l /\ i <= k /\ l[i] \in PluginFiles
      BY <1>2, <1>3, <2>1, <2>2
    <3>2. l[i].at <= m.at
      BY <1>2, <2>1, <3>1
    <3>3. m.at <= l[i].at
      BY <2>2, <3>1 DEF FirstCopies
    <3> QED BY <2>2, <3>1, <3>2, <3>3, PluginFilesAreOnPath
  <2>3. \A x : File(x)' = File(x)
    BY <1>1, PluginFilesAreStable
  <2> QED BY <1>1, <2>1, <2>2, <2>3 DEF Ahead
<1> QED BY <1>1, <1>4, <1>5

(* Importing a file gets a first copy in if it is the one at the head, and   *)
(* nothing else.                                                            *)
LEMMA ImportStepImports ==
  ASSUME PluginInv, ImportNext
  PROVE  /\ sys_modules' \subseteq Builtin \cup FirstCopies
         /\ Builtin \subseteq sys_modules'
         /\ todo' \in Seq(PluginFiles)
         /\ \A m \in FirstCopies : m \in sys_modules' \/ Ahead(m)'
         /\ Accepted'
<1> DEFINE file == Head(todo)
           known == {m \in sys_modules : m.name = file.name}
           module == import_module(file)
<1>1. /\ phase = "import" /\ todo # <<>> /\ todo' = Tail(todo)
      /\ sys_modules' = IF imports(module) THEN sys_modules \cup {module} ELSE sys_modules
      /\ modules' = IF imports(module) /\ module.at # 0 /\ Compatible(module)
                    THEN Append(modules, module) ELSE modules
      /\ UNCHANGED layout
  BY DEF ImportNext
<1>2. /\ sys_modules \subseteq Builtin \cup FirstCopies /\ Builtin \subseteq sys_modules
      /\ todo \in Seq(PluginFiles)
      /\ \A m \in FirstCopies : m \in sys_modules \/ Ahead(m)
  BY <1>1 DEF PluginInv, Imported
<1>3. /\ file \in PluginFiles /\ file = todo[1] /\ todo' \in Seq(PluginFiles)
      /\ \A k \in DOMAIN todo : k # 1 => k - 1 \in DOMAIN todo' /\ todo'[k - 1] = todo[k]
      /\ \A i \in DOMAIN todo' : i + 1 \in DOMAIN todo /\ todo'[i] = todo[i + 1]
      /\ DOMAIN todo \subseteq Nat \ {0}
  BY <1>1, <1>2
<1>4. /\ PluginFiles' = PluginFiles /\ FirstCopies' = FirstCopies
      /\ \A m : File(m)' = File(m)
  BY <1>1, PluginFilesAreStable
<1>5. ASSUME NEW m \in FirstCopies, Ahead(m), m # file
      PROVE  Ahead(m)'
  <2>1. PICK k \in DOMAIN todo :
            /\ todo[k] = m
            /\ \A i \in 1 .. k : todo[i].name = m.name /\ File(todo[i]).loads => todo[i] = m
    BY <1>5 DEF Ahead
  <2>2. k # 1 /\ k - 1 \in DOMAIN todo' /\ todo'[k - 1] = m
    BY <1>3, <1>5, <2>1
  <2>3. \A i \in 1 .. k - 1 : i \in DOMAIN todo' /\ i + 1 \in 1 .. k
    BY <1>3, <2>1, <2>2
  <2>4. \A i \in 1 .. k - 1 : todo'[i].name = m.name /\ File(todo'[i]).loads => todo'[i] = m
    BY <1>3, <2>1, <2>3
  <2> QED BY <1>4, <2>2, <2>4 DEF Ahead
<1>6. ASSUME imports(module), module \in Builtin \cup FirstCopies
      PROVE  Accepted'
  <2>1. sys_modules' = sys_modules \cup {module}
    BY <1>1, <1>6
  <2>2. \A m : Compatible(m)' = Compatible(m)
    BY <1>4 DEF Compatible
  <2>3. modules \in Seq(FirstCopies)
        /\ Range(modules) = {m \in sys_modules : m.at # 0 /\ Compatible(m)}
    BY DEF PluginInv, Accepted
  <2>4. CASE module.at # 0 /\ Compatible(module)
    <3>1. module \in FirstCopies /\ modules' = Append(modules, module)
      <4>1. module \in FirstCopies
        BY <1>6, <2>4, BuiltinsAreLoaded
      <4> QED BY <1>1, <1>6, <2>4, <4>1
    <3>2. modules' \in Seq(FirstCopies) /\ Range(modules') = Range(modules) \cup {module}
      <4> HIDE DEF module
      <4> QED BY <2>3, <3>1 DEF Range
    <3> QED BY <1>4, <2>1, <2>2, <2>3, <2>4, <3>2 DEF Accepted
  <2>5. CASE ~(module.at # 0 /\ Compatible(module))
    <3>1. modules' = modules
      BY <1>1, <2>5
    <3> QED BY <1>4, <2>1, <2>2, <2>3, <2>5, <3>1 DEF Accepted
  <2> QED BY <2>4, <2>5
<1>7. CASE known # {}
  <2>1. module \in sys_modules /\ module.name = file.name
    BY <1>7 DEF import_module
  <2>2. imports(module) /\ module \in Builtin \cup FirstCopies
    BY <1>2, <2>1 DEF imports, Builtin, FirstCopies
  <2>3. sys_modules' = sys_modules
    BY <1>1, <2>1, <2>2
  <2>4. ASSUME NEW m \in FirstCopies, m \notin sys_modules
        PROVE  m # file
    <3>1. m.name \notin Loaded
      BY DEF FirstCopies
    <3>2. module \in FirstCopies => m.name # module.name
      BY <2>1, <2>4, FirstCopyIsUnique
    <3>3. m.name # module.name
      BY <2>1, <2>2, <3>1, <3>2, BuiltinsAreLoaded
    <3> QED BY <2>1, <3>3
  <2> QED BY <1>2, <1>3, <1>5, <1>6, <2>2, <2>3, <2>4
<1>8. CASE known = {}
  <2>1. module = file /\ file.at # 0
    BY <1>3, <1>8, PluginFilesAreOnPath DEF import_module
  <2>2. CASE imports(module)
    <3>1. file.name \notin Loaded /\ File(file).loads
      <4>1. File(file).loads
        BY <2>1, <2>2 DEF imports
      <4>2. file.name \in Loaded => [at |-> 0, name |-> file.name] \in sys_modules
        <5> HIDE DEF file
        <5> QED BY <1>2 DEF Builtin
      <4>3. [at |-> 0, name |-> file.name] \notin sys_modules
        BY <1>8
      <4> QED BY <4>1, <4>2, <4>3
    <3>2. PICK c \in FirstCopies : c.name = file.name
      BY <1>3, <3>1, FirstCopyExists
    <3>3. Ahead(c)
      BY <1>2, <1>8, <3>2
    <3>4. file = c
      BY <1>3, <3>1, <3>2, <3>3 DEF Ahead
    <3>5. sys_modules' = sys_modules \cup {file}
      BY <1>1, <2>1, <2>2
    <3> QED BY <1>2, <1>3, <1>5, <1>6, <2>1, <2>2, <3>4, <3>5
  <2>3. CASE ~imports(module)
    <3>1. sys_modules' = sys_modules /\ modules' = modules
      BY <1>1, <2>3
    <3>2. \A m \in FirstCopies : m # file
      BY <2>1, <2>3 DEF imports, FirstCopies
    <3>3. Accepted'
      BY <1>4, <3>1 DEF PluginInv, Accepted, Compatible
    <3> QED BY <1>2, <1>3, <1>5, <3>1, <3>2, <3>3
  <2> QED BY <2>2, <2>3
<1> QED BY <1>7, <1>8

LEMMA PluginInit == Init => PluginInv
BY DEF Init, PluginInv, Imported, Accepted, Range

LEMMA PluginStep == PluginInv /\ [Next]_vars => PluginInv'
<1> SUFFICES ASSUME PluginInv, [Next]_vars PROVE PluginInv'
  OBVIOUS
<1>1. UNCHANGED layout
  BY DEF Next, Start, Collect, ImportNext, Organize, Parse, Prepare, RunTool, Report, Killed,
         vars, discovery
<1>2. /\ PluginFiles' = PluginFiles /\ FirstCopies' = FirstCopies
      /\ \A m : Compatible(m)' = Compatible(m)
      /\ layout' \in Layouts
  BY <1>1, PluginFilesAreStable DEF PluginInv, Compatible
<1>3. CASE Start
  BY <1>2, <1>3 DEF Start, PluginInv, Imported, Accepted, Builtin, Range
<1>4. CASE Collect
  <2>1. phase' = "import" /\ UNCHANGED <<sys_modules, modules>> /\ phase = "collect"
    BY <1>4 DEF Collect
  <2>2. todo' \in Seq(PluginFiles) /\ \A m \in FirstCopies : Ahead(m)'
    BY <1>4, ListingsHoldFirstCopies DEF PluginInv
  <2>3. Accepted'
    BY <1>2, <2>1 DEF PluginInv, Accepted
  <2>4. Imported'
    BY <1>2, <2>1, <2>2 DEF PluginInv, Imported, Builtin
  <2> QED BY <1>2, <2>1, <2>3, <2>4 DEF PluginInv
<1>5. CASE ImportNext
  <2>1. phase' = "import"
    BY <1>5 DEF ImportNext
  <2>2. Builtin' = Builtin
    BY DEF Builtin
  <2> QED BY <1>2, <1>5, <2>1, <2>2, ImportStepImports DEF PluginInv, Imported
<1>6. CASE Organize
  <2>1. /\ phase = "import" /\ todo = <<>> /\ phase' \in {"exit", "parse"}
        /\ UNCHANGED <<sys_modules, modules>>
    BY <1>6 DEF Organize, Exit, discovery
  <2>2. FirstCopies \subseteq sys_modules
    BY <2>1 DEF PluginInv, Imported, Ahead
  <2> QED BY <1>2, <2>1, <2>2 DEF PluginInv, Imported, Accepted, Builtin
<1>7. CASE (\E c \in Commands : Parse(c)) \/ Prepare \/ RunTool \/ Report \/ Killed
  <2>1. /\ phase \in {"parse", "prepare", "run", "report"}
        /\ phase' \in {"prepare", "run", "report", "exit"}
        /\ UNCHANGED <<sys_modules, modules>>
    BY <1>7 DEF Parse, Prepare, RunTool, Report, Killed, Exit, discovery
  <2> QED BY <1>2, <2>1 DEF PluginInv, Imported, Accepted, Builtin
<1>8. CASE UNCHANGED vars
  <2>1. UNCHANGED <<phase, todo, sys_modules, modules>>
    BY <1>8 DEF vars, discovery
  <2>2. \A m \in FirstCopies : Ahead(m) => Ahead(m)'
    BY <1>1, <2>1, PluginFilesAreStable DEF Ahead
  <2> QED BY <1>2, <2>1, <2>2 DEF PluginInv, Imported, Accepted, Builtin
<1> QED BY <1>3, <1>4, <1>5, <1>6, <1>7, <1>8 DEF Next

(* The class of a tool that is on offer is that of some accepted module.     *)
LEMMA ClassIsAccepted ==
  ASSUME PluginInv, NEW sub, NEW tool \in tool_choices(sub)
  PROVE  plugin_class(sub, tool) \in Range(modules)
<1> DEFINE S == {k \in DOMAIN modules : Provides(k, sub, tool)}
           B == {Len(modules) - k : k \in S}
<1>1. DOMAIN modules = 1 .. Len(modules) /\ Len(modules) \in Nat
  BY DEF PluginInv, Accepted
<1>2. S # {}
  <2>1. PICK m \in Range(modules) :
            \E q \in File(m).provides : q[1] = sub /\ q[2] = tool
    BY DEF tool_choices
  <2>2. PICK k \in DOMAIN modules : modules[k] = m
    BY DEF Range
  <2>3. m \in PluginFiles /\ layout \in Layouts
    BY <1>1, <2>2, PluginFilesAreOnPath DEF PluginInv, Accepted
  <2>4. \A q \in File(m).provides : q = <<q[1], q[2]>>
    BY <2>1, <2>3, LayoutsAssumption DEF PluginFiles, File, Dir
  <2> QED BY <2>1, <2>2, <2>4 DEF Provides
<1>3. B # {} /\ B \in SUBSET Nat
  BY <1>1, <1>2
<1>4. PICK b \in B : \A i \in B : b <= i
  <2> HIDE DEF B
  <2> QED BY <1>3, LeastNat
<1>5. PICK k \in S : b = Len(modules) - k
  OBVIOUS
<1>6. \A i \in DOMAIN modules : Provides(i, sub, tool) => i <= k
  <2> TAKE i \in DOMAIN modules
  <2> HAVE Provides(i, sub, tool)
  <2>1. Len(modules) - i \in B /\ i \in Int /\ k \in Int
    BY <1>1
  <2>2. Len(modules) - k <= Len(modules) - i
    BY <1>4, <1>5, <2>1
  <2> QED BY <1>1, <2>1, <2>2
<1> QED BY <1>5, <1>6 DEF plugin_class, Range

(* Which plugins serve (discover_plugins): exactly the first copies of a     *)
(* compatible version, in whatever order the directories are listed.        *)
THEOREM FirstCopiesServe == Spec => []FirstCopyServes
<1>1. PluginInv => FirstCopyServes
  <2> SUFFICES ASSUME PluginInv, phase \in {"parse", "prepare", "run", "report"}
               PROVE  \A sub \in Subcommands :
                         /\ tool_choices(sub) = {p[2] : p \in {q \in UNION {File(m).provides : m \in Served} :
                                                                q[1] = sub}}
                         /\ \A tool \in tool_choices(sub) : plugin_class(sub, tool) \in Served
    BY DEF FirstCopyServes
  <2>1. Range(modules) = Served
    <3>1. \A m \in sys_modules : m.at # 0 => m \in FirstCopies
      BY DEF PluginInv, Imported, Builtin
    <3>2. FirstCopies \subseteq sys_modules /\ \A m \in FirstCopies : m.at # 0
      BY PluginFilesAreOnPath DEF PluginInv, Imported
    <3> QED BY <3>1, <3>2 DEF PluginInv, Accepted, Served
  <2> QED BY <2>1, ClassIsAccepted DEF tool_choices
<1> QED BY <1>1, PluginInit, PluginStep, PTL DEF Spec

-----------------------------------------------------------------------------
LEMMA TypeStep == TypeOK /\ PluginInv' /\ [Next]_vars => TypeOK'
<1> SUFFICES ASSUME TypeOK, PluginInv', [Next]_vars PROVE TypeOK'
  OBVIOUS
<1>1. (\A k \in DOMAIN modules : File(modules[k]).loads)'
  <2>1. modules' \in Seq(FirstCopies')
    BY DEF PluginInv, Accepted
  <2>2. \A m \in FirstCopies' : File(m)'.loads
    BY DEF FirstCopies
  <2> QED BY <2>1, <2>2
<1>2. CASE Start
  <2>1. /\ phase' = "collect" /\ args' = NoArgs /\ outcome' \in Outcome /\ exit_code' = 1
        /\ files' = [f \in FileNames |-> Aged(files[f])] /\ log' = [log EXCEPT !.stats = Aged(@)]
    BY <1>2 DEF Start, NoOutcome, Outcome
  <2>2. \A x : Aged(x) \in Ages
    BY DEF Aged, Ages
  <2>3. log' \in Logs
    BY <2>1, <2>2 DEF TypeOK, Logs
  <2> QED BY <1>1, <2>1, <2>2, <2>3 DEF TypeOK
<1>3. CASE Collect \/ ImportNext \/ Organize
  BY <1>1, <1>3 DEF TypeOK, Collect, ImportNext, Organize, Exit, results
<1>4. CASE \E c \in Commands : Parse(c)
  BY <1>1, <1>4 DEF TypeOK, Parse, Exit
<1>5. CASE Prepare
  BY <1>1, <1>5 DEF TypeOK, Prepare, Exit, Ages
<1>6. CASE RunTool
  BY <1>1, <1>6 DEF TypeOK, RunTool, Ages
<1>7. CASE Report
  <2> DEFINE ok == CASE tool_of(args) = "verilator" -> verilator_success(outcome, args.elab_only)
                     [] tool_of(args) = "yosys" -> yosys_success(outcome, files["stats"], "absent")
                     [] OTHER -> slang_success(outcome)
  <2>1. /\ phase' = "exit" /\ UNCHANGED <<args, outcome>>
        /\ files' = [files EXCEPT !["log"] = "fresh"]
        /\ log' = IF tool_of(args) = "yosys" THEN yosys_report(files["stats"]) ELSE NoLog
        /\ exit_code' = IF ok THEN 0 ELSE 1
    BY <1>7 DEF Report, Exit
  <2>2. log' \in Logs
    BY <2>1 DEF TypeOK, NoLog, yosys_report, FileNames, Logs, Ages
  <2>3. exit_code' \in {0, 1}
    <3> HIDE DEF ok
    <3> QED BY <2>1
  <2>4. files' \in [FileNames -> Ages]
    BY <2>1 DEF TypeOK, Ages
  <2> HIDE DEF ok
  <2> QED BY <1>1, <2>1, <2>2, <2>3, <2>4 DEF TypeOK
<1>8. CASE Killed
  BY <1>1, <1>8 DEF TypeOK, Killed, Exit, Ages
<1>9. CASE UNCHANGED vars
  BY <1>1, <1>9 DEF TypeOK, vars, results, discovery
<1> QED BY <1>2, <1>3, <1>4, <1>5, <1>6, <1>7, <1>8, <1>9 DEF Next

(* Files, verdicts and reports have their types, and the modules that were   *)
(* accepted all loaded.                                                     *)
THEOREM TypeCorrect == Spec => []TypeOK
<1>1. Init => TypeOK
  BY DEF Init, TypeOK, NoOutcome, Outcome, NoLog, yosys_report, Logs, Ages
<1>2. PluginInv /\ PluginInv' /\ TypeOK /\ [Next]_vars => TypeOK'
  BY TypeStep
<1> QED BY <1>1, <1>2, PluginInit, PluginStep, PTL DEF Spec
=============================================================================
