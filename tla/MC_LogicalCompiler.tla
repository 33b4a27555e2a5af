-------------------------- MODULE MC_LogicalCompiler --------------------------
(***************************************************************************)
(* Small modules for the compiler, in three families: call trees two       *)
(* levels deep for the expander; an entry program over one callee, with    *)
(* the bindings, returns and observations that the validations, the        *)
(* analyses and the readout plan distinguish; and programs without calls.  *)
(***************************************************************************)
EXTENDS LogicalCompiler, ExpansionReference

CONSTANT Positions      \* where the local of the innermost callee may stand

Definition(v, pos) == [id |-> v, pos |-> pos]

\* The position of the n-th instruction is 2n; a definition stands between.
\* Programs share their operation identifiers and local names, as programs
\* built against the public data model may, so that only the invocation tells
\* their values apart.
Instr(n, kind, refs) ==
    [op |-> <<"i1", "i2", "i3", "i4">>[n], kind |-> kind, refs |-> refs, pos |-> 2 * n,
     params |-> <<>>, callee |-> NoValue, callee_value |-> NoValue,
     result |-> NoValue, basis |-> NoValue]

Observe(n, v, bit, basis) ==
    [Instr(n, "observe", <<v>>) EXCEPT !.result = bit, !.basis = basis]

\* A call binds a result exactly when its callee returns one quantum value.
CallOf(n, name, callee, args, result) ==
    [Instr(n, "call", args) EXCEPT
        !.callee = name, !.params = callee.params,
        !.result = IF callee.shape = "none" THEN NoValue ELSE result,
        !.callee_value = IF callee.shape = "none" THEN NoValue ELSE callee.leaves[1].id]

Quantum(v) == [quantum |-> TRUE, id |-> v]
Classical(bit) == [quantum |-> FALSE, id |-> bit]

Prog(params, defs, code, leaves) ==
    [params |-> params, defs |-> defs, code |-> code,
     bits |-> SetToSeq({code[i].result : i \in {j \in DOMAIN code : code[j].kind = "observe"}}),
     shape |-> CASE Len(leaves) = 0 -> "none" [] Len(leaves) = 1 -> "scalar" [] OTHER -> "tuple",
     leaves |-> leaves]

Legal(programs) == {p \in programs : IsLogicalProgram(p)}

-----------------------------------------------------------------------------
(* Two call levels.                                                        *)

\* The inner callee, with one parameter: an identity, a value that escapes, a
\* value used before its definition or never.
InnerPrograms ==
    Legal({Prog(<<"a">>, <<Definition("a", 0), Definition("l", pos)>>, <<code>>, leaves) :
              pos \in Positions, leaves \in {<<>>, <<Quantum("a")>>, <<Quantum("l")>>},
              code \in {Instr(1, "gate", <<"l">>), Instr(1, "cx", <<"a", "l">>)}})

\* The outer callee calls it, perhaps on a local that the source defines after
\* the call, and may hand its result on.
OuterPrograms(g) ==
    Legal({Prog(<<"a", "b">>,
                <<Definition("a", 0), Definition("b", 0), Definition("l", 3)>>,
                <<CallOf(1, "g", g, <<arg>>, "r")>> \o rest, leaves) :
              arg \in {"a", "l"},
              rest \in {<<>>, <<Instr(2, "cx", <<"b", "r">>)>>,
                        <<Instr(2, "cx", <<"a", "b">>)>>},
              leaves \in {<<>>, <<Quantum("a")>>, <<Quantum("r")>>}})

\* The entry program invokes g below f and again by itself.  It borrows "a"
\* or owns it; called with <<"a", "a">>, f gets one value under two names.
EntryPrograms(f, g) ==
    Legal({Prog(entry.params, <<Definition("a", 0), Definition("l", 3)>>,
                <<CallOf(1, "f", f, entry.args, "r"), CallOf(2, "g", g, <<"a">>, "s")>>
                    \o end.code,
                end.leaves) :
              entry \in {[params |-> <<>>, args |-> <<"a", "a">>],
                         [params |-> <<"a">>, args |-> <<"a", "l">>]},
              end \in {[code |-> <<>>, leaves |-> <<Quantum("r")>>],
                       [code |-> <<Observe(3, "a", "c", "z")>>, leaves |-> <<Classical("c")>>],
                       [code |-> <<Observe(3, "a", "c", "z")>>, leaves |-> <<Quantum("s")>>],
                       [code |-> <<Instr(3, "cx", <<"l", "s">>)>>, leaves |-> <<>>]}})

-----------------------------------------------------------------------------
(* One callee invoked twice.                                               *)

\* The callee: an identity, a procedure, a value of its own that escapes, a
\* discarded local, an observation.
CalleePrograms ==
    Legal({Prog(<<"a", "b">>, <<Definition("a", 0), Definition("b", 0), Definition("l", 1)>>,
                code, leaves) :
              code \in {<<Instr(1, "cx", <<"a", "b">>)>>,
                        <<Instr(1, "cx", <<"l", "a">>), Instr(2, "reset", <<"l">>)>>,
                        <<Observe(1, "a", "c", "z")>>},
              leaves \in {<<>>, <<Quantum("a")>>, <<Quantum("l")>>}})

\* The entry program calls f twice on its own values or on its parameter, and
\* observes, returns or drops what it got.
CallerPrograms(f) ==
    Legal({Prog(params, <<Definition("q", 0), Definition("p", 0), Definition("l", 5)>>,
                <<CallOf(1, "f", f, <<"q", "p">>, "r"),
                  CallOf(2, "f", f, args, "s")>> \o rest,
                leaves) :
              params \in {<<>>, <<"q">>},
              args \in {<<"q", "p">>, <<"p", "p">>, <<"r", "q">>},
              rest \in {<<>>,
                        <<Instr(3, "cx", <<"r", "s">>)>>,
                        <<Observe(3, "q", "c", "z")>>,
                        <<Observe(3, "q", "c", "z"), Observe(4, "s", "d", "x")>>,
                        <<Observe(3, "p", "c", "z"), Observe(4, "s", "d", "z")>>},
              leaves \in {<<>>, <<Quantum("r")>>, <<Quantum("s"), Classical("c")>>,
                          <<Classical("c"), Classical("d")>>}})

\* Programs without calls, their values declared out of source order.
CallFreePrograms ==
    Legal({Prog(params, <<Definition("q", 0), Definition("p", pos), Definition("l", 2)>>,
                <<Instr(1, "cx", <<"p", "q">>), Observe(2, "q", "c", "z"), last>>, leaves) :
              params \in {<<>>, <<"q">>, <<"l">>}, pos \in {1, 3},
              last \in {Instr(3, "gate", <<"l">>), Observe(3, "p", "d", "x")},
              leaves \in {<<>>, <<Quantum("l")>>, <<Quantum("p"), Classical("c")>>}})

\* The programs of one module, by name.
ModuleOf(main, callees) == [entry |-> "main", programs |-> ("main" :> main) @@ callees]

SmallModules ==
    {ModuleOf(main, <<>>) : main \in CallFreePrograms}
    \union
    UNION {{ModuleOf(main, "f" :> f) : main \in CallerPrograms(f)} : f \in CalleePrograms}
    \union
    UNION {UNION {{ModuleOf(main, ("f" :> f) @@ ("g" :> g)) : main \in EntryPrograms(f, g)} :
                     f \in OuterPrograms(g)} : g \in InnerPrograms}
=============================================================================
