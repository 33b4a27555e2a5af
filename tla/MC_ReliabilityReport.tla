------------------------ MODULE MC_ReliabilityReport ------------------------
(* Two slots.  Up to MaxGates operations of five kinds, then observations  *)
(* of none, one or both slots; programs return up to two of the observed   *)
(* results, in either order and also one of them twice.                    *)
EXTENDS ReliabilityReport

CONSTANTS MaxGates      \* operations before the observations

Gate(opcode, slot) == [opcode |-> opcode, targets |-> <<slot>>, control |-> slot]
Cx(control, slot)  == [opcode |-> "CX", targets |-> <<slot>>, control |-> control]
Measure(slot)      == Gate("MEASURE", slot)

Evolution == {Gate("H", 0), Gate("H", 1), Gate("X", 0), Cx(0, 1), Gate("RESET", 0)}

Observations == {<<>>, <<Measure(0)>>, <<Measure(0), Measure(1)>>}

ReportedCircuits ==
    {gates \o observing : gates \in UNION {[1 .. n -> Evolution] : n \in 0 .. MaxGates},
                         observing \in Observations}

ReportedLeaves(c) ==
    UNION {[1 .. n -> {i \in DOMAIN c : c[i].opcode = "MEASURE"}] : n \in 0 .. 2}

Identity == <<<<1, 0>>, <<0, 1>>>>

\* A bit flip after X and a phase flip after H, each with probability 1/4.
Flips ==
    [X |-> <<[matrix |-> Identity, weight |-> 3], [matrix |-> Matrix.X, weight |-> 1]>>,
     H |-> <<[matrix |-> Identity, weight |-> 3], [matrix |-> Matrix.Z, weight |-> 1]>>]

DensityRequests ==
    {[engine |-> "density", shots |-> 0, traced |-> FALSE, noise |-> noise] :
        noise \in {[g \in {} |-> <<>>], Flips}}

\* Zero is misread with probability 1/4, one with probability 1/2.
SmallChannels == {NoEvidence, (0 :> (0 :> 3 @@ 1 :> 1)) @@ (1 :> (0 :> 2 @@ 1 :> 2))}

ThreePercent == <<1, 32>>

\* Goals that failures of 0, 1/4, 1/2 meet, exceed, and miss by less than the
\* tolerance, and the goal of no failure, which is turned down; criteria that accept
\* nothing, all ones, or a set that tells the leaves apart, and one of another arity.
SmallQuestions(arity) ==
    LET Ones     == [i \in 1 .. arity |-> 1]
        FirstOne == [i \in 1 .. arity |-> IF i = 1 THEN 1 ELSE 0]
        Criteria == {[arity |-> arity, outcomes |-> s] : s \in {{}, {Ones}, {FirstOne}}}
                        \union {[arity |-> arity + 1, outcomes |-> {}]}
        Goals    == {[maximum |-> m, confident |-> FALSE] : m \in {<<0, 1>>, <<15, 64>>, <<1, 2>>, <<1, 1>>}}
                        \union {[maximum |-> <<1, 2>>, confident |-> TRUE]}
    IN  {[goal |-> g, acceptance |-> c, kind |-> k] :
            g \in Goals, c \in Criteria, k \in {"physical", "reported"}}
=============================================================================
