------------------------------ MODULE MCTools -------------------------------
(***************************************************************************)
(* Instances of the models of the Python scripts, which share nothing: a   *)
(* behaviour is one of one script; the others stay at one initial state.   *)
(***************************************************************************)
EXTENDS Synt, FileList, Autogen, RunStats, Hierarchy, Pll

VARIABLE tool

-----------------------------------------------------------------------------
(* run_synt.py.                                                             *)

YAML(extends, basename, own) == [extends |-> extends, basename |-> basename, own |-> own]

SomeFiles ==
  ("_base" :> YAML(NONE, "_base", [defines |-> [SIMD |-> "1", FREQ |-> "50", ARTY |-> "true"],
                                   hex_path |-> "hello.mem"]))
  @@ ("simd" :> YAML("_base", "simd", [defines |-> [FREQ |-> "60"]]))
  @@ ("cmod" :> YAML("simd", "cmod", [defines |-> [ARTY |-> "false", CMOD |-> "true"],
                                      run_root |-> "r"]))
  @@ ("copy" :> YAML("simd", "copy", [run_name |-> "simd"]))
  @@ ("nohex" :> YAML("_base", "nohex", [hex_path |-> "gone.mem"]))
  @@ ("loop" :> YAML("pool", "loop", [run_name |-> "loop"]))
  @@ ("pool" :> YAML("loop", "pool", [run_name |-> "pool"]))
  @@ ("lost" :> YAML("nowhere", "lost", [run_name |-> "lost"]))
  @@ ("bare" :> YAML(NONE, "bare", [run_root |-> "r"]))

Given == UNION {[1 .. n -> {"simd", "cmod", "copy", "nohex", "loop", "lost"}] : n \in 1 .. 2}
          \cup {<<"simd", "nohex", "cmod">>, <<"nohex", "simd", "cmod">>,
                <<"simd", "cmod", "nohex">>, <<"bare">>, <<"bare", "simd">>}

SomeLaunches ==
  [configs : Given, jobs : {1, 2}, dry_run : BOOLEAN, vivado : {TRUE}]
    \cup [configs : {<<"simd">>}, jobs : {1}, dry_run : {FALSE}, vivado : {FALSE}]

-----------------------------------------------------------------------------
(* parse_filelist.py: all lists of up to five tokens.                       *)

SomeTokens == UNION {[1 .. n -> {"-d", "--include", "rtl", "tb"}] : n \in 0 .. 5}

-----------------------------------------------------------------------------
(* autogen_perf_events.py: the list grows, shrinks and becomes too long; the *)
(* working tree is in step with the short one, lacks the submodule, or has   *)
(* markers in the wrong order.                                               *)

Event(name, keys) == [name |-> name, keys |-> keys]
Short == << Event("stall", {"rtl"}), Event("host", {"isa_sim"}),
            Event("mem", {"rtl", "isa_sim"}) >>
Long == << Event("host", {"isa_sim"}), Event("spec", {"rtl"}),
           Event("mem", {"rtl", "isa_sim"}), Event("miss", {"rtl", "isa_sim_hw_model"}) >>
TooLong == Append(Long, Event("div", {"rtl"}))
SomeConfigs == {Short, Long, TooLong}

\* File f with a pair of markers around each body and hand-written text between.
FileOf(f, contents) ==
  << <<"text", f, 0>> >>
    \o FlattenSeq([n \in DOMAIN contents |->
         <<OPEN>> \o contents[n] \o <<CLOSE, <<"text", f, n>> >>])
InTree == [f \in ToSet(FILES) |-> FileOf(f, TARGETS(Short)[f])]
Submodule == {"types.h", "main.cpp", "common.h", "zihpm_test"}

SomeCheckouts ==
  { InTree,
    [f \in ToSet(FILES) \ Submodule |-> InTree[f]],
    [InTree EXCEPT !["tb.sv"] = <<CLOSE, OPEN>> \o @] }

-----------------------------------------------------------------------------
(* get_run_stats.py: of a workload a log has text and at most two dicts, the *)
(* first of them possibly damaged.                                           *)

SomeWorkloads == <<"dhrystone", "coremark", "stream">>

Output(w) ==
  { <<Text>>, <<Text, Dict(w, 1, FALSE)>>, <<Text, Dict(w, 1, TRUE), Dict(w, 2, FALSE)>>,
    <<Text, Dict(w, 1, FALSE), Text, Dict(w, 2, FALSE)>> }
SomeLogs == {x \o y \o z : x \in Output("dhrystone"), y \in Output("coremark"),
                 z \in {<<Text>>, <<Dict("stream", 1, FALSE), Dict("stream", 2, FALSE)>>}}

-----------------------------------------------------------------------------
(* slang_hier.py: two parametrisations of module a, shared modules, an       *)
(* interface, generate blocks and loops.                                     *)

Body(module, with, is_module, members) ==
  [module |-> module, params |-> with, is_module |-> is_module, members |-> members]
One(b) == <<Instance("x", b)>>
Two(b, c) == <<Instance("x", b), Block("g", <<Instance("x", c)>>)>>
Loop(b, c) == <<Array("g", <<One(b), One(b)>>), Instance("y", c)>>

SomeDesigns ==
  {[tops |-> <<"top">>, body |->
      ("top" :> Body("top", "", TRUE, t)) @@ ("w" :> Body("w", "", TRUE, One("a1")))
      @@ ("a0" :> Body("a", "W=0", TRUE, a0)) @@ ("a1" :> Body("a", "W=1", TRUE, a1))
      @@ ("b" :> Body("b", "", TRUE, b)) @@ ("c" :> Body("c", "", TRUE, << >>))
      @@ ("if" :> Body("if", "", FALSE, One("c")))] :
     t \in {Two("a0", "a1"), Loop("a1", "b"), Two("w", "a0")},
     a0 \in {Two("if", "b"), Loop("b", "c")},
     a1 \in {One("b"), Two("b", "c")},
     b \in {<< >>, Two("c", "c")}}

-----------------------------------------------------------------------------
(* artix_7_pll_config.py: the pairs for which 100_000_000 * (m / d) is not   *)
(* the whole number it should be, all of them for 55 MHz.                    *)

RoundedPairs == {<<11, 20>>, <<22, 40>>, <<33, 60>>, <<44, 80>>, <<55, 100>>}

-----------------------------------------------------------------------------
ToolsInit ==
  /\ tool \in {"synt", "filelist", "autogen", "runstats", "hierarchy", "pll"}
  /\ SyntInit /\ (tool = "synt" \/ ~args.vivado)
  /\ FileListInit /\ (tool = "filelist" \/ rest = << >>)
  /\ AutogenInit /\ (tool = "autogen" \/ (config = Short /\ tree = InTree))
  /\ RunStatsInit /\ (tool = "runstats" \/ \A l \in DOMAIN logs : Len(logs[l]) = 3
                                                      /\ logs[l] = <<Text, Text, Text>>)
  /\ HierarchyInit
  /\ tool = "hierarchy" \/ /\ root = ANY /\ instances /\ params /\ interfaces
                           /\ ast.body["top"].members = Two("a0", "a1")
                           /\ ast.body["a0"].members = Two("if", "b")
                           /\ ast.body["a1"].members = One("b")
                           /\ ast.body["b"].members = << >>
  /\ PllInit

Others(t) ==
  /\ tool = t /\ UNCHANGED tool
  /\ t # "synt" => UNCHANGED svars
  /\ t # "filelist" => UNCHANGED fvars
  /\ t # "autogen" => UNCHANGED avars
  /\ t # "runstats" => UNCHANGED rvars
  /\ t # "hierarchy" => UNCHANGED hvars
  /\ t # "pll" => UNCHANGED pvars

ToolsNext ==
  \/ Others("synt") /\ SyntNext
  \/ Others("filelist") /\ FileListNext
  \/ Others("autogen") /\ AutogenNext
  \/ Others("runstats") /\ RunStatsNext
  \/ Others("hierarchy") /\ HierarchyNext
  \/ Others("pll") /\ PllNext

tvars == <<tool, svars, fvars, avars, rvars, hvars, pvars>>

ToolsSpec ==
  ToolsInit /\ [][ToolsNext]_tvars /\ WF_tvars(Others("synt") /\ SyntNext)

=============================================================================
