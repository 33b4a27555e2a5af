--------------------------- MODULE MC_TraceDebugger ---------------------------
(* Two slots.  A program of up to MaxOperations operations is run, stays as it  *)
(* is, loses its last operation or has one replaced, and is run again.          *)
EXTENDS TraceDebugger

CONSTANT MaxOperations

Gate(opcode, slot) == [opcode |-> opcode, targets |-> <<slot>>, control |-> slot]
Measure(targets)   == [opcode |-> "MEASURE", targets |-> targets, control |-> targets[1]]

Operations ==
    {Gate("H", 0), [opcode |-> "CX", targets |-> <<1>>, control |-> 0],
     Measure(<<0>>), Measure(<<1, 0>>), Gate("RESET", 0)}

SmallCircuits == UNION {[1 .. n -> Operations] : n \in 0 .. MaxOperations}

SmallEdits(c) ==
    {c} \cup {[c EXCEPT ![i] = operation] : i \in DOMAIN c, operation \in Operations}
        \cup {SubSeq(c, 1, n) : n \in {Len(c) - 1} \cap Nat}

Request(engine, count) ==
    [engine |-> engine, shots |-> count, traced |-> TRUE, noise |-> [g \in {} |-> <<>>]]

TracedRequests == {Request("exact", 0), Request("sampled", 1)}
=============================================================================
