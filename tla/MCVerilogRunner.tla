--------------------------- MODULE MCVerilogRunner ---------------------------
(* The bundled plugins in "repo", and before and after them on the path     *)
(* directories with other copies, other versions and other names.           *)
EXTENDS VerilogRunner

Plugin(api, sub, tool) == [loads |-> TRUE, api |-> api, provides |-> {<<sub, tool>>}]
Broken == [Plugin(<<2, 0, 0>>, "elab", "slang") EXCEPT !.loads = FALSE]
Unversioned == [Plugin(NoVersion, "sim", "verilator") EXCEPT !.provides = {}]

Bundled ==
    [n \in {"slang", "verilator", "yosys"} |->
        CASE n = "slang"     -> Plugin(<<2, 0, 0>>, "elab", "slang")
          [] n = "verilator" -> Plugin(<<2, 0, 0>>, "sim", "verilator")
          [] n = "yosys"     -> Plugin(<<2, 0, 0>>, "synth", "yosys")]

One(n, f) == [x \in {n} |-> f]
NoFiles == [x \in {} |-> Broken]

Site ==
    {NoDirectory,
     One("slang", Plugin(<<2, 0, 1>>, "elab", "slang")),
     One("slang", Plugin(<<1, 9, 0>>, "elab", "slang")),
     One("slang", Broken),
     One("fast_slang", Plugin(<<2, 0, 0>>, "elab", "slang")),
     One("vcs", Plugin(<<2, 0, 0>>, "sim", "vcs")),
     One("verilator", Unversioned),
     One("util", Plugin(<<2, 0, 0>>, "lint", "verilator")),
     One("unnamed", Plugin(<<2, 0, 0>>, "elab", NoTool))}

Cwd == {NoFiles,
        One("yosys", Plugin(<<2, 1, 0>>, "synth", "yosys")),
        One("slang", Plugin(<<2, 0, 0>>, "elab", "slang"))}

MCLayouts ==
    {[d \in {"site", "repo", "."} |->
        CASE d = "site" -> l[1] [] d = "repo" -> Bundled [] d = "." -> l[2]] :
     l \in Site \X Cwd}

Plain == [subcommand |-> "elab", tool |-> NoTool, top |-> TRUE, opt |-> FALSE,
          dry_run |-> FALSE, compile_only |-> FALSE, elab_only |-> FALSE,
          custom_tcl_body |-> "none"]

MCCommands ==
    {Plain, [Plain EXCEPT !.top = FALSE, !.compile_only = TRUE], [Plain EXCEPT !.opt = TRUE],
     [Plain EXCEPT !.top = FALSE], [Plain EXCEPT !.tool = "verilator"],
     [Plain EXCEPT !.subcommand = "lint"]}
    \cup {[Plain EXCEPT !.subcommand = "sim", !.tool = "vcs", !.opt = TRUE]}
    \cup {[Plain EXCEPT !.subcommand = "sim", !.elab_only = e, !.opt = o] : e, o \in BOOLEAN}
    \cup {[Plain EXCEPT !.subcommand = "synth", !.tool = "yosys", !.dry_run = d,
                        !.custom_tcl_body = b] : d \in BOOLEAN, b \in {"none", "lines", "empty"}}

MCPluginPath == <<"site", "repo">>
=============================================================================
