------------------------- MODULE ExceptionHookProofs -------------------------
(***************************************************************************)
(* Proof, for every bound on the throws, of the action property the run  *)
(* hook_trace checks of arch/exception_handler.cc: trace_exception is     *)
(* never called once Install_Handler's destructor has run.                 *)
(*                                                                         *)
(* NoTraceAfterDestruction is an action property that rests on the state  *)
(* invariant HookOnlyWhileLive: trace_exception is the installed hook only *)
(* between the constructor and the destructor, because other code can     *)
(* only install its own hook or clear it, and the destructor removes      *)
(* trace_exception when it finds it.                                       *)
(***************************************************************************)
EXTENDS ExceptionHook, TLAPS

(* trace_exception is installed only while the Install_Handler object      *)
(* lives: its constructor is the only code that installs it.               *)
HookOnlyWhileLive == tracer = "trace" => phase = "live"

IInv ==
  /\ TypeOK
  /\ HookOnlyWhileLive

(* The entry trace_exception logs for a thrown object of any type is a   *)
(* log record.                                                             *)
LEMMA TraceExceptionEntry ==
  ASSUME NEW t \in Thrown
  PROVE  TraceException(t) \in [type: Thrown, what: BOOLEAN]
  BY DEF TraceException, Thrown

LEMMA InitIInv == Init => IInv
  BY HookAssumption DEF Init, IInv, TypeOK,
                        HookOnlyWhileLive, Hooks

LEMMA NextIInv == IInv /\ [Next]_vars => IInv'
  <1> SUFFICES ASSUME IInv, [Next]_vars PROVE IInv'
    OBVIOUS
  <1>1. CASE Construct
    BY <1>1 DEF Construct, IInv, TypeOK,
                HookOnlyWhileLive, Hooks
  <1>2. CASE Destruct
    BY <1>2 DEF Destruct, IInv, TypeOK,
                HookOnlyWhileLive, Hooks
  <1>3. ASSUME NEW h \in {"none", "other"}, OtherSets(h) PROVE IInv'
    BY <1>3 DEF OtherSets, IInv, TypeOK,
                HookOnlyWhileLive, Hooks
  <1>4. ASSUME NEW t \in Thrown, Throw(t) PROVE IInv'
    <2>1. TypeOK'
      <3>1. log' \in Seq([type: Thrown, what: BOOLEAN])
        <4>1. CASE tracer = "trace"
          <5>1. log' = Append(log, TraceException(t))
            BY <1>4, <4>1 DEF Throw
          <5>2. QED
            BY <5>1, TraceExceptionEntry DEF IInv, TypeOK
        <4>2. CASE tracer # "trace"
          BY <1>4, <4>2 DEF Throw, IInv, TypeOK
        <4>3. QED
          BY <4>1, <4>2
      <3>2. throws' \in 0 .. MaxThrows
        BY <1>4, HookAssumption DEF Throw, IInv, TypeOK
      <3>3. QED
        BY <1>4, <3>1, <3>2 DEF Throw, IInv, TypeOK
    <2>3. HookOnlyWhileLive'
      BY <1>4 DEF Throw, IInv, HookOnlyWhileLive
    <2>4. QED
      BY <2>1, <2>3 DEF IInv
  <1>5. CASE UNCHANGED vars
    BY <1>5 DEF vars, IInv, TypeOK, HookOnlyWhileLive
  <1>6. QED
    BY <1>1, <1>2, <1>3, <1>4, <1>5 DEF Next

(* No step after ~Install_Handler() adds to the log: once the destructor   *)
(* has run, trace_exception is not the installed hook, and no code but the *)
(* constructor installs it.                                                 *)
LEMMA AfterKeepsLog == IInv /\ [Next]_vars => [phase = "after" => log' = log]_vars
  <1> SUFFICES ASSUME IInv, [Next]_vars, phase = "after" PROVE log' = log
    BY DEF vars
  <1>1. tracer # "trace"
    BY DEF IInv, HookOnlyWhileLive
  <1>2. QED
    BY <1>1 DEF Next, Construct, Destruct, OtherSets, Throw, vars

(* For every bound on the throws, no throw after ~Install_Handler() is     *)
(* traced: the destructor's conditional clear at exception_handler.cc:69  *)
(* leaves trace_exception installed in no run.                             *)
THEOREM NoTraceOnceDestroyed == Spec => NoTraceAfterDestruction
  <1>1. Spec => []IInv
    BY InitIInv, NextIInv, PTL DEF Spec
  <1>2. QED
    BY <1>1, AfterKeepsLog, PTL DEF Spec, NoTraceAfterDestruction
=============================================================================
