----------------------------- MODULE MC_Capture -----------------------------
(***************************************************************************)
(* Python modules of up to three quantum functions: an entry function      *)
(* whose statements are chosen freely, and entry functions over callees    *)
(* that return, observe, hide names, share identifiers or call each other. *)
(***************************************************************************)
EXTENDS Capture

Assign(target, func, args) == [form |-> "assign", target |-> target, func |-> func, args |-> args]
Call(func, args)  == [form |-> "call", func |-> func, args |-> args]
Alias(target, n)  == [form |-> "alias", target |-> target, args |-> <<n>>]
Return(shape, args) == [form |-> "return", shape |-> shape, args |-> args]
Refused(code)     == [form |-> "refused", code |-> code]

Returns(shape, kinds) == [shape |-> shape, kinds |-> kinds]
ReturnsNone == Returns("none", <<>>)

Fn(id, params, returns, body) ==
    [id |-> id, params |-> params, returns |-> returns, body |-> body, available |-> TRUE,
     parses |-> TRUE, closure |-> FALSE, flat |-> TRUE, basis |-> "z",
     variables |-> {"q", "r", "s", "gate", "f"}]

Markers == [m \in Intrinsics \union {"Qubit"} |-> m]

World(functions, globals) ==
    [entry |-> "main", functions |-> functions,
     globals |-> [n \in (DOMAIN Markers \union DOMAIN functions \union DOMAIN globals) |->
                    IF n \in DOMAIN globals THEN globals[n]
                    ELSE IF n \in DOMAIN functions THEN n ELSE Markers[n]]]

AsWritten == [n \in {} |-> n]

Qubit(n) == Assign(n, "Qubit", <<>>)

Returning ==
    {[returns |-> Returns("tuple", kinds), statement |-> Return("tuple", args)] :
        kinds \in [1 .. 2 -> {"bit", "qubit"}], args \in {<<"q", "r">>, <<"r", "r">>, <<"r", "s">>}}
    \union {[returns |-> ReturnsNone, statement |-> Return("none", <<>>)],
            [returns |-> ReturnsNone, statement |-> Return("scalar", <<"q">>)],
            [returns |-> Returns("scalar", <<"bit">>), statement |-> Call("reset", <<"q">>)],
            [returns |-> Returns("scalar", <<"bit">>), statement |-> Return("tuple", <<"q">>)]}

\* One function on its own.
AloneStatements ==
    {Qubit("r"), Qubit("gate"), Alias("r", "q"), Alias("s", "r"), Assign("r", "observe", <<"q">>),
     Assign("s", "observe", <<"r">>), Assign("r", "reset", <<"q">>), Call("observe", <<"q">>),
     Call("cx", <<"q", "r">>), Call("gate", <<"q">>), Call("gate", <<"q", "r">>),
     Call("thing", <<"q">>), Refused("P102")}

AloneWorlds ==
    {World([f \in {"main"} |->
              Fn("main", params, end.returns,
                 (IF params = <<>> THEN <<Qubit("q")>> ELSE <<>>) \o <<one, two, end.statement>>)],
           AsWritten) :
        params \in {<<>>, <<"q">>}, one \in AloneStatements, two \in AloneStatements,
        end \in Returning}

\* Callees: an identity, a value of their own, a procedure, an observation, a
\* hidden name; g may call f.
CalleeFunctions(id) ==
    {Fn(id, <<"q">>, Returns("scalar", <<"qubit">>), <<Return("scalar", <<"q">>)>>),
     Fn(id, <<"q", "s">>, Returns("scalar", <<"qubit">>),
        <<Qubit("r"), Call("cx", <<"q", "r">>), Return("scalar", <<"r">>)>>),
     Fn(id, <<"q">>, ReturnsNone, <<Call("gate", <<"q">>), Call("rotation", <<"q">>)>>),
     Fn(id, <<"q">>, Returns("scalar", <<"bit">>), <<Return("scalar", <<"q">>)>>),
     Fn(id, <<"q">>, ReturnsNone, <<Call("observe", <<"q">>)>>),
     Fn(id, <<"gate">>, ReturnsNone, <<Call("gate", <<"gate">>)>>),
     [Fn(id, <<"q">>, ReturnsNone, <<>>) EXCEPT !.closure = TRUE],
     [Fn(id, <<"q">>, ReturnsNone, <<>>) EXCEPT !.available = FALSE],
     [Fn(id, <<"q">>, ReturnsNone, <<>>) EXCEPT !.parses = FALSE],
     [Fn(id, <<"q">>, ReturnsNone, <<>>) EXCEPT !.flat = FALSE],
     Fn(id, <<"q">>, Returns("missing", <<>>), <<>>),
     Fn(id, <<"q">>, Returns("unsupported", <<>>), <<>>)}

MiddleFunctions ==
    {Fn(id, <<"q">>, Returns("scalar", <<"qubit">>),
        <<Assign("r", callee, <<"q">>), Return("scalar", <<"r">>)>>) :
        id \in {"g", "f", "main"}, callee \in {"f", "g", "main"}}
    \union {Fn(id, <<"q">>, ReturnsNone, <<Call("f", <<"q">>)>>) : id \in {"g", "f"}}

CallingStatements ==
    {<<Assign("r", "f", <<"q">>), Assign("s", "f", <<"r">>)>>,
     <<Assign("r", "f", <<"q">>), Assign("s", "g", <<"r">>), Call("cx", <<"r", "s">>)>>,
     <<Assign("r", "g", <<"q">>), Call("observe", <<"r">>), Assign("s", "f", <<"q">>)>>,
     <<Call("f", <<"q">>), Call("g", <<"q">>)>>,
     <<Qubit("s"), Assign("r", "f", <<"q", "s">>), Call("cx", <<"s", "r">>)>>,
     <<Alias("f", "q"), Call("f", <<"q">>)>>}

Ending == {[returns |-> ReturnsNone, statement |-> Return("none", <<>>)],
           [returns |-> Returns("scalar", <<"qubit">>), statement |-> Return("scalar", <<"r">>)],
           [returns |-> Returns("tuple", <<"bit", "qubit">>), statement |-> Return("tuple", <<"s", "q">>)]}

CallingWorld(body, end, callee, middle, globals) ==
    World([f \in {"main", "f", "g"} |->
              CASE f = "main" -> Fn("main", <<>>, end.returns,
                                    <<Qubit("q")>> \o body \o <<end.statement>>)
                [] f = "f" -> callee [] f = "g" -> middle], globals)

CallingWorlds ==
    {CallingWorld(body, end, callee, middle, AsWritten) :
        body \in CallingStatements, end \in Ending, callee \in CalleeFunctions("f"),
        middle \in MiddleFunctions}
    \union
    {CallingWorld(body, end, callee, middle, globals) :
        body \in CallingStatements, end \in {CHOOSE e \in Ending : e.returns = ReturnsNone},
        callee \in CalleeFunctions("f"),
        middle \in {m \in MiddleFunctions : m.id = "g" /\ m.returns = ReturnsNone},
        globals \in {[n \in {"gate"} |-> "cx"], [n \in {"Qubit", "cx"} |-> "other"],
                     [n \in {"g"} |-> "f"]}}

SmallWorlds == AloneWorlds \union CallingWorlds
=============================================================================
