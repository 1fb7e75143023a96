---------------------------------- MODULE Jit ---------------------------------
(***************************************************************************)
(* Compiled functions of the virtual machine: admission, the code cache    *)
(* and its handles (src/vm-rs/src/jit.rs), and the calls that run compiled *)
(* code through the helper bridge or fall back to the interpreter          *)
(* (src/vm-rs/src/vm.rs).                                                  *)
(*                                                                         *)
(* Generated code is the sequence of helper calls its function was lowered *)
(* to, one instruction of the function after the other; the code generator *)
(* itself is external, and what matters of it is whether it succeeds and   *)
(* how many bytes it emits.  The values that the compiled code handles are *)
(* entries of the bridge's table, and the token of a call may be set at    *)
(* any moment.  A capability that compares two structs answers Ordered and *)
(* charges no step here.                                                   *)
(***************************************************************************)
EXTENDS ControlFlow

CONSTANTS
  Functions,      \* the program's functions
  Globals,        \* the variables a function may load besides its parameters
  Arguments,      \* the arguments a call may pass
  Modes,          \* how the machine may be observed while a call runs
  Whitelist,      \* the functions that may be compiled
  Capacity,       \* bytes of the code cache
  Generations,    \* how many handles there are (u64::MAX)
  Limit,          \* the instruction limit
  MaxCalls,       \* calls of a behaviour
  MaxModules,     \* modules of the code generator after which it is not cleared again
  Ordered         \* what a comparison of structs answers

ASSUME JitAssumption ==
  /\ Capacity \in Nat /\ Generations \in Nat /\ Limit \in Nat /\ MaxCalls \in Nat /\ MaxModules \in Nat
  /\ Whitelist \subseteq DOMAIN Functions

(* The machine has verified the program (validate_program, in format.rs):  *)
(* registers exist, and a return has its operand.                          *)
ASSUME FunctionsAssumption ==
  \A f \in DOMAIN Functions :
    LET F == Functions[f] IN
    /\ {F.estimate, F.machine, F.regs} \subseteq Nat
    /\ F.code \in Seq(ToSet(F.code))
    /\ \A k \in DOMAIN F.code :
         /\ ToSet(F.code[k].args) \subseteq 1..F.regs
         /\ IF F.code[k].op = "Return" THEN 1 \in DOMAIN F.code[k].args ELSE F.code[k].dest \in 1..F.regs
    /\ \A args \in Arguments[f] : args \in Seq(ToSet(args))

MaxEntryArguments == 8      \* JIT_MAX_ENTRY_ARGUMENTS

VARIABLES
  cache,      \* the cached entries by function: generation, bytes, module
  used,       \* bytes reserved by them
  next,       \* next_generation
  module,     \* the live module of the code generator, 0 when there is none
  emitted,    \* what was emitted into the live module: function and bytes
  issued,     \* the handles that were given out
  steps,      \* instruction_steps
  cancelled,  \* the token
  call,       \* the call that runs
  calls       \* how many were made

vars == <<cache, used, next, module, emitted, issued, steps, cancelled, call, calls>>

NoCode == [function |-> 0, module |-> 0]
NoCall == [phase |-> "none"]

(* A handle, with the module its code was put in, which no one looks at.   *)
Handle(owner, f, g, m) == [owner |-> owner, function |-> f, generation |-> g, born |-> m]

Init ==
  /\ cache = <<>> /\ used = 0 /\ next = 0 /\ module = 1 /\ emitted = {}
  /\ issued = {Handle("other", f, 0, 0) : f \in Whitelist}
  /\ steps = 0 /\ cancelled = FALSE
  /\ call = NoCall /\ calls = 0

(***************************************************************************)
(* Eligibility and lowering.                                               *)
(***************************************************************************)
Compilable == {"Constant", "Copy", "LoadVar", "Negate", "Not", "Add", "Equal", "Less", "Return"}

Eligible(f, mode) ==
  /\ module # 0 /\ mode = "ordinary"
  /\ f \in Whitelist
  /\ Functions[f].arity <= MaxEntryArguments
  /\ \A k \in DOMAIN Functions[f].code : Functions[f].code[k].op \in Compilable

(* lower_to_cranelift_ir: nothing follows a return, there is one, and no   *)
(* register is read before it is written.                                  *)
Lowers(f) ==
  LET code == Functions[f].code IN
  /\ code # <<>>
  /\ \A k \in DOMAIN code : (code[k].op = "Return") = (k = Len(code))
  /\ \A k \in DOMAIN code : \A r \in ToSet(code[k].args) : \E j \in 1..k - 1 : code[j].dest = r

Remaining == Capacity - used

(***************************************************************************)
(* The cache.                                                              *)
(***************************************************************************)
(* Seeded fault: a cleared cache counts its generations anew.              *)
ClearCacheRestarts ==
  /\ cache' = <<>> /\ used' = 0 /\ next' = 0
  /\ \E m \in {0, module + 1} : module' = m
  /\ emitted' = {}

(* clear_cache: the entries go, then the module; a new one may not be      *)
(* available.                                                              *)
ClearCache ==
  /\ cache' = <<>> /\ used' = 0
  /\ \E m \in {0, module + 1} : module' = m
  /\ emitted' = {}
  /\ UNCHANGED next

(* Seeded fault: the function that grew too large stays in the module.     *)
TooLargeStays(f) ==
  /\ emitted' = emitted \cup {[function |-> f, bytes |-> Functions[f].machine]}
  /\ next' = next + 1
  /\ UNCHANGED <<cache, used, module, issued>>

(* A function whose code is larger than was reserved for it has been       *)
(* emitted by then: the whole module goes.                                 *)
TooLarge(f) ==
  /\ module' \in {0, module + 1}
  /\ cache' = <<>> /\ used' = 0 /\ emitted' = {}
  /\ next' = next + 1
  /\ UNCHANGED issued

Publish(f) ==
  LET handle == Handle("this", f, next, module)
      entry  == [generation |-> next, bytes |-> Functions[f].estimate, module |-> module]
  IN
  /\ cache' = [g \in DOMAIN cache \cup {f} |-> IF g = f THEN entry ELSE cache[g]]
  /\ used' = used + Functions[f].estimate
  /\ emitted' = emitted \cup {[function |-> f, bytes |-> Functions[f].machine]}
  /\ issued' = issued \cup {handle}
  /\ next' = next + 1
  /\ UNCHANGED module

(* admit: what becomes of a function that is asked for, "compiled" if      *)
(* there is an entry for it afterwards.                                    *)
Unchanged == UNCHANGED <<cache, used, next, module, emitted, issued>>

Admit(f, mode, how) ==
  \/ /\ how = "compiled" /\ Eligible(f, mode) /\ f \in DOMAIN cache
     /\ Unchanged
  \/ /\ how = "fallback"
     /\ ~ Eligible(f, mode) \/ (f \notin DOMAIN cache /\ ~ Lowers(f))
     /\ Unchanged
  \/ /\ Eligible(f, mode) /\ f \notin DOMAIN cache /\ Lowers(f)
     /\ \/ /\ Functions[f].estimate > Remaining \/ next = Generations
           /\ how = "fallback" /\ Unchanged
        \/ /\ Functions[f].estimate <= Remaining /\ next < Generations
           /\ \/ /\ Functions[f].machine = 0         \* the code generator fails
                 /\ how = "fallback" /\ next' = next + 1
                 /\ UNCHANGED <<cache, used, module, emitted, issued>>
              \/ /\ Functions[f].machine > Functions[f].estimate
                 /\ how = "fallback" /\ TooLarge(f)
              \/ /\ Functions[f].machine \in 1..Functions[f].estimate
                 /\ how = "compiled" /\ Publish(f)

(* resolve_code_pointer: the code a handle gives.                          *)
CodeOf(h) ==
  IF h.owner = "this" /\ h.function \in DOMAIN cache /\ cache[h.function].generation = h.generation
  THEN [function |-> h.function, module |-> cache[h.function].module] ELSE NoCode

(* The cache may be cleared while no entry runs.                           *)
Clear ==
  /\ call = NoCall /\ module # 0 /\ module < MaxModules
  /\ ClearCache
  /\ UNCHANGED <<issued, steps, cancelled, call, calls>>

Cancel ==
  /\ ~ cancelled /\ call # NoCall
  /\ cancelled' = TRUE
  /\ UNCHANGED <<cache, used, next, module, emitted, issued, steps, call, calls>>

(***************************************************************************)
(* Values and operations.  An operation gives a value, a runtime error, or *)
(* asks for the interpreter.                                               *)
(***************************************************************************)
Ok(v)     == [kind |-> "ok", value |-> v]
Error(e)  == [kind |-> e, value |-> Nil]

Variable(f, args, name) ==
  LET scope == Globals @@ [k \in {} |-> Nil]
      own   == {p \in DOMAIN Functions[f].params : Functions[f].params[p] = name}
  IN IF own # {} THEN Ok(args[CHOOSE p \in own : TRUE])
     ELSE IF name \in DOMAIN scope THEN Ok(scope[name]) ELSE Error("undefinedVariable")

Compute(f, args, i, vs) ==
  CASE i.op = "Constant" -> Ok(i.val)
    [] i.op = "Copy"     -> Ok(vs[1])
    [] i.op = "LoadVar"  -> Variable(f, args, i.name)
    [] i.op = "Negate"   -> IF vs[1].t = "num" THEN Ok(Num(- vs[1].n)) ELSE Error("typeError")
    [] i.op = "Not"      -> Ok(Bool(~ IsTruthy(vs[1])))
    [] i.op = "Equal"    -> Ok(Bool(vs[1] = vs[2]))
    [] i.op = "Call"     -> Ok(Nil)
    [] i.op = "Add"      -> IF vs[1].t = "num" /\ vs[2].t = "num" THEN Ok(Num(vs[1].n + vs[2].n))
                            ELSE Error("typeError")
    [] i.op = "Less"     -> IF vs[1].t = "num" /\ vs[2].t = "num" THEN Ok(Bool(vs[1].n < vs[2].n))
                            ELSE IF vs[1].t = "struct" /\ vs[2].t = "struct" THEN Ok(Ordered)
                            ELSE Error("typeError")

(* checkpoint_safepoint.                                                   *)
Checkpoint(charged) ==
  IF cancelled THEN Error("cancelled") ELSE IF charged >= Limit THEN Error("limit") ELSE Ok(Nil)

(***************************************************************************)
(* Calls.                                                                  *)
(***************************************************************************)
Registers(f) == [r \in 1..Functions[f].regs |-> Nil]

(* call_function, execute_jit_function up to the invocation: the arguments *)
(* are the first values of the bridge.                                     *)
Call ==
  /\ call = NoCall /\ calls < MaxCalls
  /\ calls' = calls + 1
  /\ \E f \in DOMAIN Functions, mode \in Modes, how \in {"compiled", "fallback"} :
     \E args \in Arguments[f] :
        /\ Admit(f, mode, how)
        /\ call' = [phase |-> IF how = "compiled" THEN "compiled" ELSE "interpreted",
                    function |-> f, args |-> args, at |-> 1,
                    regs |-> Registers(f), values |-> args, handles |-> Registers(f),
                    error |-> "none", start |-> steps, result |-> Nil]
  /\ UNCHANGED <<steps, cancelled>>

Now == Functions[call.function].code[call.at]
Operands(regs) == [k \in DOMAIN Now.args |-> regs[Now.args[k]]]
KeepCode == UNCHANGED <<cache, used, next, module, emitted, issued, cancelled, calls>>

(* One instruction of compiled code: the checkpoint, which makes the       *)
(* instruction the frame's, the helper, and the store into the register of *)
(* the frame.  Operands are handles of the bridge.  Once a helper has      *)
(* failed, every later one answers the error handle.                       *)
HelperOperands == [k \in DOMAIN Now.args |-> call.values[call.handles[Now.args[k]].n]]

HelperResult ==
  LET vs == HelperOperands
      structs == Now.op = "Less" /\ \A k \in DOMAIN vs : vs[k].t = "struct"
  IN IF structs THEN Error("fallback") ELSE Compute(call.function, call.args, Now, vs)

Fail(e) == call' = [call EXCEPT !.error = e, !.phase = "returned"]

(* The answers of the checkpoint, the helper and the store are values of   *)
(* the bridge; later instructions use the last.                            *)
StoreResult(value) ==
  call' = [call EXCEPT !.values = @ \o <<Nil, value, value>>,
                       !.handles[Now.dest] = Val("handle", Len(call.values) + 3),
                       !.regs[Now.dest] = value, !.at = @ + 1]

CompiledStep ==
  /\ call.phase = "compiled" /\ Now.op # "Return"
  /\ \/ Checkpoint(steps).kind # "ok" /\ Fail(Checkpoint(steps).kind) /\ UNCHANGED steps
     \/ /\ Checkpoint(steps).kind = "ok" /\ steps' = steps + 1
        /\ \/ HelperResult.kind # "ok" /\ Fail(HelperResult.kind)
           \/ HelperResult.kind = "ok" /\ StoreResult(HelperResult.value)
  /\ KeepCode

CompiledReturn ==
  /\ call.phase = "compiled" /\ Now.op = "Return"
  /\ \/ Checkpoint(steps).kind # "ok" /\ Fail(Checkpoint(steps).kind) /\ UNCHANGED steps
     \/ /\ Checkpoint(steps).kind = "ok" /\ steps' = steps + 1
        /\ call' = [call EXCEPT !.phase = "returned",
                                !.result = call.values[call.handles[Now.args[1]].n]]
  /\ KeepCode

(* Seeded fault: the steps of the compiled attempt stay charged.           *)
LeaveCompiledCharged ==
  /\ call.phase = "returned"
  /\ call' = IF call.error = "fallback"
             THEN [call EXCEPT !.phase = "interpreted", !.regs = Registers(call.function), !.at = 1,
                               !.error = "none"]
             ELSE [call EXCEPT !.phase = "done"]
  /\ UNCHANGED steps
  /\ KeepCode

(* Seeded fault: the compiled code is tried again.                         *)
LeaveCompiledRetries ==
  /\ call.phase = "returned"
  /\ IF call.error = "fallback"
     THEN /\ call' = [call EXCEPT !.phase = "compiled", !.regs = Registers(call.function),
                                  !.values = call.args, !.at = 1, !.error = "none"]
          /\ steps' = call.start
     ELSE call' = [call EXCEPT !.phase = "done"] /\ UNCHANGED steps
  /\ KeepCode

(* Back in execute_jit_function: a call that asks for the interpreter      *)
(* starts over, with the frame and the step count it was entered with.     *)
LeaveCompiled ==
  /\ call.phase = "returned"
  /\ IF call.error = "fallback"
     THEN /\ call' = [call EXCEPT !.phase = "interpreted", !.regs = Registers(call.function),
                                  !.at = 1, !.error = "none"]
          /\ steps' = call.start
     ELSE call' = [call EXCEPT !.phase = "done"] /\ UNCHANGED steps
  /\ KeepCode

(* execute_body, one instruction.                                          *)
InterpretedResult == Compute(call.function, call.args, Now, Operands(call.regs))

Done(e) == call' = [call EXCEPT !.error = e, !.phase = "done"]

InterpretedStep ==
  /\ call.phase = "interpreted" /\ call.at <= Len(Functions[call.function].code)
  /\ \/ Checkpoint(steps).kind # "ok" /\ Done(Checkpoint(steps).kind) /\ UNCHANGED steps
     \/ /\ Checkpoint(steps).kind = "ok" /\ steps' = steps + 1
        /\ \/ /\ Now.op = "Return"
              /\ call' = [call EXCEPT !.phase = "done", !.result = Operands(call.regs)[1]]
           \/ Now.op # "Return" /\ InterpretedResult.kind # "ok" /\ Done(InterpretedResult.kind)
           \/ /\ Now.op # "Return" /\ InterpretedResult.kind = "ok"
              /\ call' = [call EXCEPT !.regs[Now.dest] = InterpretedResult.value, !.at = @ + 1]
  /\ KeepCode

(* The end of a body without a return is a return of nil.                  *)
InterpretedEnd ==
  /\ call.phase = "interpreted" /\ call.at > Len(Functions[call.function].code)
  /\ Done("none") /\ UNCHANGED steps
  /\ KeepCode

(* The caller takes the result.                                            *)
Answer ==
  /\ call.phase = "done"
  /\ call' = NoCall
  /\ cancelled' = FALSE        \* the next call has a token of its own
  /\ UNCHANGED <<cache, used, next, module, emitted, issued, steps, calls>>

Next ==
  \/ Clear \/ Cancel \/ Call \/ CompiledStep \/ CompiledReturn \/ LeaveCompiled
  \/ InterpretedStep \/ InterpretedEnd \/ Answer

(* The machine does not leave a call half-way.                             *)
Running == CompiledStep \/ CompiledReturn \/ LeaveCompiled \/ InterpretedStep \/ InterpretedEnd

Spec == Init /\ [][Next]_vars /\ WF_vars(Running)
-----------------------------------------------------------------------------
(* The cache, the live module and the call fit each other: every entry is  *)
(* of the live module, and compiled code runs only from such an entry.     *)
TypeOK ==
  /\ DOMAIN cache \subseteq Whitelist /\ next \in 0..Generations /\ module \in Nat
  /\ \A f \in DOMAIN cache : cache[f].module = module /\ cache[f].generation < next
  /\ call.phase \in {"none", "compiled", "returned", "interpreted", "done"}
  /\ call.phase = "compiled" => call.function \in DOMAIN cache

(* The executable memory in use stays within the capacity of the cache,    *)
(* whatever the estimates were and whatever failed ("keeps executable      *)
(* bytes bounded", jit.rs).                                                *)
Bytes(E) == UNION {{e} \X (1..e.bytes) : e \in E}

ExecutableBounded ==
  /\ used <= Capacity
  /\ Cardinality(Bytes(emitted)) <= used

(* The code cache after any history of loads, rollbacks and calls.         *)
CacheBounded == TypeOK /\ ExecutableBounded

(* However old, a handle gives the code it was issued for or none: not     *)
(* what another module has in its place, nothing of a module that is gone. *)
HandlesCurrent ==
  \A h \in issued : CodeOf(h) # NoCode =>
     CodeOf(h) = [function |-> h.function, module |-> h.born] /\ h.born = module

(* What the interpreter makes of a call: the call as it stands after the   *)
(* first k instructions.                                                   *)
Begun(f, start) ==
  [running |-> TRUE, error |-> "none", result |-> Nil, steps |-> start, regs |-> Registers(f)]

InterpretOne(f, args, k, s) ==
  LET i  == Functions[f].code[k]
      vs == [j \in DOMAIN i.args |-> s.regs[i.args[j]]]
      o  == Compute(f, args, i, vs)
  IN IF ~ s.running THEN s
     ELSE IF s.steps >= Limit THEN [s EXCEPT !.running = FALSE, !.error = "limit"]
     ELSE IF i.op = "Return" THEN [s EXCEPT !.running = FALSE, !.result = vs[1], !.steps = @ + 1]
     ELSE IF o.kind # "ok" THEN [s EXCEPT !.running = FALSE, !.error = o.kind, !.steps = @ + 1]
     ELSE [s EXCEPT !.regs[i.dest] = o.value, !.steps = @ + 1]

Interpreted(f, args, start) ==
  LET after[k \in 0..Len(Functions[f].code)] ==
        IF k = 0 THEN Begun(f, start) ELSE InterpretOne(f, args, k, after[k - 1])
  IN after

(* What may come of the call: its end, or, once the token is set, a stop   *)
(* in front of any instruction it gets to.                                 *)
Outcome(s, e) == [error |-> e, result |-> s.result, steps |-> s.steps]

Outcomes(f, args, start, stop) ==
  LET after == Interpreted(f, args, start)
      n     == Len(Functions[f].code)
  IN {Outcome(after[n], after[n].error)}
       \cup {Outcome(after[k], "cancelled") : k \in {j \in 0..n - 1 : stop /\ after[j].running}}

(* Whether a function is compiled cannot be told from its calls: value,    *)
(* error and charged steps are what the interpreter alone would have made  *)
(* of the call, also when compiled code was given up half-way.             *)
CallsAsInterpreted ==
  call.phase = "done" =>
    [error |-> call.error, result |-> call.result, steps |-> steps]
      \in Outcomes(call.function, call.args, call.start, cancelled)

(* Every call comes to an end, once more in the interpreter at most.       *)
CallsEnd == call # NoCall ~> call.phase = "done"
=============================================================================
