------------------------- MODULE ExpansionReference -------------------------
(***************************************************************************)
(* What call expansion promises, as a recursive definition over the call   *)
(* tree: calls are replaced by their bodies, a parameter stands for the    *)
(* argument, a result binding stands for the returned value, and a local   *)
(* definition stands for one value per invocation (specs/language.md,      *)
(* "Composition materializes calls before resource allocation").  There is *)
(* no stack, no pending list and no creation order here.                   *)
(***************************************************************************)
EXTENDS Expansion

Denotes(env, path, v) == IF v \in DOMAIN env THEN env[v] ELSE <<path, v>>

Extend(env, v, id) ==
    [x \in DOMAIN env \union {v} |-> IF x = v THEN id ELSE env[x]]

\* The inlined code of program p from instruction i on, and the names its
\* return leaves denote.
RECURSIVE Inline(_, _, _, _)
Inline(p, path, env, i) ==
    LET program == module.programs[p]
        Name(v) == Denotes(env, path, v)
    IN  IF i > Len(program.code)
        THEN [code   |-> <<>>,
              leaves |-> [k \in DOMAIN program.leaves |->
                            IF program.leaves[k].quantum
                            THEN Name(program.leaves[k].id)
                            ELSE program.leaves[k].id]]
        ELSE LET instr == program.code[i]
                 names == [r \in DOMAIN instr.refs |-> Name(instr.refs[r])]
             IN  IF instr.kind # "call"
                 THEN LET rest == Inline(p, path, env, i + 1)
                      IN  [rest EXCEPT !.code =
                             <<[id |-> <<path, instr.op>>, kind |-> instr.kind,
                                refs |-> names]>> \o @]
                 ELSE LET args   == [v \in ToSet(instr.params) |->
                                       names[CHOOSE k \in DOMAIN names : instr.params[k] = v]]
                          callee == Inline(instr.callee, Append(path, instr.op), args, 1)
                          after  == IF instr.result = NoValue THEN env
                                    ELSE Extend(env, instr.result, callee.leaves[1])
                          rest   == Inline(p, path, after, i + 1)
                      IN  [rest EXCEPT !.code = callee.code \o @]

\* Every invocation below one of program p: its call path and its program.
RECURSIVE Invocations(_, _)
Invocations(p, path) ==
    {<<path, p>>} \union
    UNION {LET instr == module.programs[p].code[i]
           IN  Invocations(instr.callee, Append(path, instr.op)) :
              i \in CallInstrs(module.programs[p])}

ReferenceIds ==
    {<<<<>>, v>> : v \in ParamIds(module.programs[module.entry])} \union
    UNION {LET program == module.programs[inv[2]]
           IN  {<<inv[1], program.defs[d].id>> : d \in LocalDefs(program)} :
              inv \in Invocations(module.entry, <<>>)}

\* A finished expansion is the inlining of the entry program: the same
\* instructions in the same order on the same values, the same return, and
\* one value for each definition of each invocation, used or not.
ExpansionIsInlining ==
    phase # "expanding" =>
        LET reference == Inline(module.entry, <<>>, <<>>, 1)
        IN  /\ reference.code =
                  [i \in DOMAIN instrs |->
                     [id |-> <<instrs[i].path, instrs[i].op>>,
                      kind |-> instrs[i].kind, refs |-> instrs[i].refs]]
            /\ reference.leaves = [k \in DOMAIN returned |-> returned[k].id]
            /\ QubitIds = ReferenceIds
            /\ {records[c].path : c \in DOMAIN records} =
                  {inv[1] : inv \in Invocations(module.entry, <<>>)} \ {<<>>}
=============================================================================
