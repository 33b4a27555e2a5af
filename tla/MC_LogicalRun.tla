---------------------------- MODULE MC_LogicalRun ----------------------------
(* Two slots.  Circuits of few kinds of operations up to one length bound  *)
(* and of all kinds up to another go through every engine; circuits of a   *)
(* third family are run for programs that return up to MaxLeaves results.  *)
EXTENDS LogicalRun

CONSTANTS MaxOperations,  \* operations in a circuit of the small kind
          MaxWide,        \* operations in a circuit of the wide kind
          MaxReturning,   \* operations in a circuit whose program returns results
          MaxLeaves       \* results that a program returns

Gate(opcode, slot) == [opcode |-> opcode, targets |-> <<slot>>, control |-> slot]
Cx(control, slot)  == [opcode |-> "CX", targets |-> <<slot>>, control |-> control]
Measure(targets)   == [opcode |-> "MEASURE", targets |-> targets, control |-> targets[1]]

SmallOperations ==
    {Gate("H", 0), Gate("X", 1), Cx(0, 1), Measure(<<0>>), Measure(<<1, 0>>), Gate("RESET", 0)}

WideOperations ==
    SmallOperations \union {Gate("Z", 0), Gate("H", 1), Gate("X", 0), Cx(1, 0),
                            Measure(<<1>>), Gate("RESET", 1)}

ReturningOperations ==
    {Gate("H", 0), Cx(0, 1), Gate("RESET", 0), Measure(<<0>>), Measure(<<1>>)}

UpTo(max, operations) == UNION {[1 .. n -> operations] : n \in 0 .. max}

ReturningCircuits == UpTo(MaxReturning, ReturningOperations)

SmallCircuits ==
    UpTo(MaxOperations, SmallOperations) \union UpTo(MaxWide, WideOperations)
        \union ReturningCircuits

\* What a program with this circuit may return.
SmallLeaves(c) ==
    IF c \in ReturningCircuits
    THEN UNION {[1 .. n -> {i \in DOMAIN c : c[i].opcode = "MEASURE"}] : n \in 0 .. MaxLeaves}
    ELSE {<<>>}

Identity == <<<<1, 0>>, <<0, 1>>>>

\* A bit flip after X and a phase flip after H, each with probability 1/4.
Flips ==
    [X |-> <<[matrix |-> Identity, weight |-> 3], [matrix |-> Matrix.X, weight |-> 1]>>,
     H |-> <<[matrix |-> Identity, weight |-> 3], [matrix |-> Matrix.Z, weight |-> 1]>>]

NoNoise == [g \in {} |-> <<>>]

Request(engine, count, traced, noise) ==
    [engine |-> engine, shots |-> count, traced |-> traced, noise |-> noise]

AllRequests ==
    {Request("exact", 0, TRUE, NoNoise), Request("sampled", 1, TRUE, NoNoise),
     Request("sampled", 2, FALSE, NoNoise), Request("sampled", 2, TRUE, NoNoise),
     Request("density", 0, FALSE, NoNoise), Request("density", 0, FALSE, Flips),
     Request("density", 0, TRUE, NoNoise)}

\* Zero is misread with probability 1/4, one with probability 1/2.
SmallChannels == {NoEvidence, (0 :> (0 :> 3 @@ 1 :> 1)) @@ (1 :> (0 :> 2 @@ 1 :> 2))}
=============================================================================
