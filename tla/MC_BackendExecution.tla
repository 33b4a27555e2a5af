------------------------- MODULE MC_BackendExecution -------------------------
(* Three slots.  Every backend runs circuits of up to MaxOperations of the *)
(* operations that tell slots, axes and kernels apart, after an operation  *)
(* that leaves no slot at rest.                                            *)
EXTENDS BackendExecution

CONSTANT MaxOperations

Gate(opcode, slot) == [opcode |-> opcode, targets |-> <<slot>>, control |-> slot]
Cx(control, slot)  == [opcode |-> "CX", targets |-> <<slot>>, control |-> control]
Measure(targets)   == [opcode |-> "MEASURE", targets |-> targets, control |-> targets[1]]

Operations ==
    {Gate("X", 2), Gate("RY", 0), Gate("RY", 1), Gate("Z", 1), Gate("H", 2), Cx(0, 2), Cx(1, 0),
     Gate("RESET", 1), Measure(<<0>>), Measure(<<2, 1>>)}

Prepared == <<Gate("RY", 0), Cx(0, 1)>>

BackendCircuits ==
    {Prepared \o rest : rest \in UNION {[1 .. n -> Operations] : n \in 0 .. MaxOperations}}

\* After X amplitude damping with probability 3/4, after RY a phase flip with 1/4.
Noise ==
    [X |-> <<[matrix |-> <<<<2, 0>>, <<0, 1>>>>, weight |-> 1],
             [matrix |-> <<<<0, 1>>, <<0, 0>>>>, weight |-> 3]>>,
     RY |-> <<[matrix |-> <<<<1, 0>>, <<0, 1>>>>, weight |-> 3],
              [matrix |-> Matrix.Z, weight |-> 1]>>]

BackendRequests ==
    {[engine |-> "exact", shots |-> 0, traced |-> FALSE, noise |-> [g \in {} |-> <<>>]],
     [engine |-> "sampled", shots |-> 1, traced |-> FALSE, noise |-> [g \in {} |-> <<>>]]}
    \union {[engine |-> "density", shots |-> 0, traced |-> FALSE, noise |-> noise] :
               noise \in {[g \in {} |-> <<>>], Noise}}

\* The earliest schedule when CX takes two units of time and all else takes one.
Duration(operation) == IF operation.opcode = "CX" THEN 2 ELSE 1

Uses(operation) == ToSet(operation.targets) \union {operation.control}

Latest(times) == CHOOSE t \in times \union {0} : \A u \in times : u <= t

AsapEnds(c) ==
    LET end[i \in DOMAIN c] ==
            Latest({end[j] : j \in {k \in 1 .. i - 1 : Uses(c[k]) \cap Uses(c[i]) # {}}})
                + Duration(c[i])
    IN  end

AsapTimings(c) ==
    LET ends == AsapEnds(c)
    IN  {[spans |-> [i \in DOMAIN c |-> [start |-> ends[i] - Duration(c[i]), end |-> ends[i]]],
          peak |-> Latest({ends[i] : i \in DOMAIN c}), decay |-> decay] :
            decay \in {{"amplitude"}} \union (IF Len(c) <= 3 THEN {{"amplitude", "phase"}} ELSE {})}
=============================================================================
