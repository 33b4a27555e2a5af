------------------------ MODULE MC_ScheduledExecution ------------------------
(* All circuits of three slots up to a length bound, with every timing, run *)
(* with their own schedules; some of two slots, run with each other's too,  *)
(* and with times that were shifted.                                        *)
EXTENDS ScheduledExecution

CONSTANT MaxOperations   \* operations in a circuit

Op(n, kind, slots) == [id |-> n, kind |-> kind, slots |-> slots]

\* The scheduler does not tell controls from targets: one order is enough.
SlotTuples ==
    {<<s>> : s \in Slots}
    \union {pair \in Slots \X Slots : pair[1] < pair[2]}

OwnCircuits ==
    UNION {{[n \in 1 .. length |-> Op(n, IF Len(choice[n]) = 2 THEN "cx" ELSE "gate", choice[n])] :
               choice \in [1 .. length -> SlotTuples]} :
             length \in 0 .. MaxOperations}

RelatedCircuits ==
    UNION {{<<Op(1, "gate", <<0>>), middle, last>> :
               last \in {Op(3, "observe", <<0>>), Op(3, "gate", <<1>>), Op(3, "cx", <<0, 1>>)}} :
             middle \in {Op(2, "gate", <<0>>), Op(2, "reset", <<0>>), Op(2, "gate", <<1>>),
                         Op(2, "cx", <<0, 1>>), Op(2, "cx", <<1, 0>>),
                         Op(2, "observe", <<0>>)}}
    \union {<<>>}

SmallCircuits == OwnCircuits \union RelatedCircuits

\* Two durations, one that is not positive, and none.
SmallProfiles == [OperationIds -> {3, 4, -1, NoTiming}]

SmallExchanged == RelatedCircuits \X {<<3, 4, 3>>, <<4, 3, 3>>, <<3, NoTiming, 3>>}

SmallShifts == -1 .. 2
=============================================================================
