-------------------------------- MODULE MCJit ---------------------------------
(* Root module for TLC: small functions, one for every way a compilation   *)
(* or a call can end.                                                      *)
EXTENDS Jit

I(op, dest, args, val, name) == Instruction(op, dest, args, 0, val, name)
Constant(d, v) == I("Constant", d, <<>>, v, "")
Load(d, x)     == I("LoadVar", d, <<>>, Nil, x)
Op(op, d, args) == I(op, d, args, Nil, "")
Ret(r)         == I("Return", 0, <<r>>, Nil, "")

Struct == Val("struct", 1)

Function(params, regs, estimate, machine, code) ==
  [params |-> params, arity |-> Len(params), regs |-> regs, estimate |-> estimate,
   machine |-> machine, code |-> code]

MCFunctions ==
  <<Function(<<"p">>, 3, 4, 3, <<Load(1, "p"), Constant(2, Num(1)), Op("Add", 3, <<1, 2>>), Ret(3)>>),
    Function(<<"p">>, 3, 3, 3, <<Load(1, "p"), Op("Copy", 2, <<1>>), Op("Less", 3, <<1, 2>>), Ret(3)>>),
    Function(<<>>, 2, 2, 3, <<Load(1, "u"), Op("Not", 2, <<1>>), Ret(2)>>),
    Function(<<>>, 2, 2, 0, <<Load(1, "g"), Op("Equal", 2, <<1, 1>>), Ret(2)>>),
    Function(<<>>, 2, 2, 2, <<Op("Negate", 1, <<2>>), Ret(1)>>),
    Function(<<>>, 1, 2, 2, <<Constant(1, Num(1)), Ret(1), Constant(1, Nil), Ret(1)>>),
    Function(<<>>, 1, 1, 1, <<Load(1, "g")>>),
    Function(<<>>, 2, 2, 2, <<Constant(1, Num(1)), Op("Call", 2, <<1>>), Ret(2)>>),
    Function(<<>>, 1, 1, 1, <<Load(1, "v"), Ret(1)>>)>>

MCGlobals == [g |-> Num(2), u |-> Bool(FALSE)]
MCArguments == [f \in DOMAIN MCFunctions |->
                  IF MCFunctions[f].params = <<>> THEN {<<>>} ELSE {<<Num(1)>>, <<Struct>>}]
MCWhitelist == DOMAIN MCFunctions \ {9}
MCOrdered == Bool(TRUE)
=============================================================================
