-------------------------- MODULE VerilogRunnerTools --------------------------
(***************************************************************************)
(* What the bundled plugins of python/verilog_runner make of one run of     *)
(* their tool: the verdict, and, for Yosys, the report it leaves in the     *)
(* log.  An outcome is what the shell script returned and printed.          *)
(***************************************************************************)

Outcome == [return_code : {0, 1},        \* of the shell script
            asserted    : BOOLEAN,       \* an assertion macro reported an error
            test_passed : BOOLEAN]       \* "TEST PASSED" was printed

slang_success(o) == o.return_code = 0

(* check_simulation_success: when only elaborating there is no test.        *)
verilator_success(o, elab_only) ==
    /\ o.return_code = 0
    /\ ~elab_only => ~o.asserted /\ o.test_passed

(* run_cmd of Yosys writes the log whatever happened: the metadata, and the  *)
(* contents of <log>.stat.json, be it of this run or of an earlier one.     *)
yosys_report(stat_json) == [metadata |-> TRUE, stats |-> stat_json]

\* (mutant) Statistics are enough.
MutYosysSuccess(o, stat_json, absent) == stat_json # absent

yosys_success(o, stat_json, absent) == o.return_code = 0 /\ stat_json # absent

(* The default Tcl body writes the statistics after synthesis and before     *)
(* the longest path is reported; Tcl stops at the first error, so a run      *)
(* that returned 0 has written them, and one that failed may have.  A custom *)
(* body replaces these commands.                                            *)
StatsWritten(o, custom_body) ==
    IF ~custom_body /\ o.return_code = 0 THEN {TRUE} ELSE BOOLEAN
=============================================================================
