--------------------------- MODULE MCCaseSelection ---------------------------
(* A test with up to three operations from a small pool, between two fixed  *)
(* ones whose names share a prefix with its own.                            *)
EXTENDS CaseSelection

Whole(n)    == [type |-> "int", is |-> n]
Double(n) == [type |-> "double", is |-> n]
Format(n) == [type |-> "format", is |-> n]

(* One format is representative, two are not, and 0 is no format. *)
SmallFormats         == {Format(1), Format(2), Format(3)}
SmallRepresentatives == {Format(1)}

Pool ==
  {[kind |-> "combine", key |-> "format", values |-> <<Format(2), Format(1), Format(0)>>],
   [kind |-> "combine", key |-> "format", values |-> <<Format(2), Format(3)>>],
   [kind |-> "combine", key |-> "n", values |-> <<Whole(1), Whole(2)>>],
   [kind |-> "combine", key |-> "n", values |-> <<Whole(1), Double(1)>>],
   [kind |-> "with", records |-> <<<<<<"n", Whole(1)>>, <<"format", Format(2)>>>>,
                                   <<<<"n", Whole(2)>>, <<"format", Format(1)>>>>>>],
   [kind |-> "expand", key |-> "m", on |-> "n",
    table |-> (Whole(1) :> <<Whole(1), Whole(2)>> @@ Whole(2) :> <<>> @@ Double(1) :> <<Whole(3)>>)],
   [kind |-> "filter", on |-> "format", keep |-> {Format(0), Format(2)}],
   [kind |-> "filter", on |-> "n", keep |-> {Whole(2)}]}

InScope(op, subcase) == op @@ ("subcase" :> subcase)

Scoped   == {InScope(op, b) : op \in Pool, b \in BOOLEAN}
Programs == {ops \in UNION {[1 .. n -> Scoped] : n \in 0 .. 3} : WellFormed(ops)}

Test(file, name, ops) == [file |-> file, test |-> name, ops |-> ops]
Fixed == InScope([kind |-> "combine", key |-> "n", values |-> <<Whole(1), Whole(2)>>], FALSE)

SmallRegistries ==
  {<<Test(<<"api">>, <<"copy">>, <<Fixed>>), Test(<<"api">>, <<"copy", "all">>, ops),
     Test(<<"shader">>, <<"copy">>, <<>>)>> : ops \in Programs}

(* What the theorem on expansion supposes of the tests. *)
ASSUME ProgramsAssumption == TestsWellFormed

Starred(names) == [names |-> names, star |-> TRUE]
Exactly(names) == [names |-> names, star |-> FALSE]
Ask(file, test, params) == [file |-> file, test |-> test, params |-> params]

SmallQuerySets ==
  {{Ask(Starred(<<>>), Starred(<<>>), <<>>)},
   {Ask(Starred(<<"api">>), Starred(<<"copy", "all">>), <<>>)},
   {Ask(Exactly(<<"shader">>), Exactly(<<"copy">>), <<>>),
    Ask(Starred(<<"api">>), Starred(<<"copy">>), <<<<"n", Whole(1)>>>>)},
   {Ask(Starred(<<"api">>), Starred(<<>>), <<<<"format", Format(2)>>>>)}}
=============================================================================
