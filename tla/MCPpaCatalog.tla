---------------------------- MODULE MCPpaCatalog ----------------------------
(* Three labels in two packages; two have the same name.  The second        *)
(* revision lets a sweep repeat another's configuration, the third moves    *)
(* parameters, so that a log kept from the first collides.                  *)
EXTENDS PpaCatalog

Config(top, params) == [top |-> top, params |-> params]

MCTargets == <<"//cdc:fifo", "//fifo:fifo", "//fifo:wide">>
MCName == [t \in {"//cdc:fifo", "//fifo:fifo", "//fifo:wide"} |->
              IF t = "//fifo:wide" THEN "wide" ELSE "fifo"]
MCBuilds ==
    <<[t \in {"//cdc:fifo", "//fifo:fifo"} |->
          IF t = "//cdc:fifo" THEN Config("cdc", 1) ELSE Config("fifo", 1)],
      [t \in {"//cdc:fifo", "//fifo:fifo", "//fifo:wide"} |->
          IF t = "//cdc:fifo" THEN Config("cdc", 1) ELSE Config("fifo", 2)],
      [t \in {"//cdc:fifo", "//fifo:fifo", "//fifo:wide"} |->
          CASE t = "//cdc:fifo"  -> Config("cdc", 1)
            [] t = "//fifo:fifo" -> Config("fifo", 2)
            [] t = "//fifo:wide" -> Config("fifo", 1)]>>
MCSelections == {{}, {"//fifo:fifo"}}
=============================================================================
