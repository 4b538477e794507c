---------------------------- MODULE ExceptionHook ----------------------------
(***************************************************************************)
(* The exception-tracing hook of arch/exception_handler.cc: the static     *)
(* Install_Handler object sets the process-wide exception_tracer to        *)
(* trace_exception when the unit is initialised and clears it when the     *)
(* unit is destroyed, unless some other code has put its own hook there.   *)
(* Every throw calls the hook that is installed at that moment.            *)
(*                                                                         *)
(* exception_tracer itself is declared in exception_hook.h, which is not   *)
(* in this repository: other code may set it to its own hook, or clear it, *)
(* at any time, before or after this unit's static initialisation (the     *)
(* order of static initialisation between units is unspecified).  The     *)
(* model assumes no other code installs trace_exception itself.           *)
(*                                                                         *)
(* A thrown object is of a non-class type, of a class type that is not a  *)
(* std::exception, or a std::exception; trace_exception logs each one it   *)
(* sees, with its what() when it is a std::exception.                      *)
(***************************************************************************)
EXTENDS Naturals, Sequences

CONSTANTS MaxThrows   \* bound on the number of throws

ASSUME HookAssumption == MaxThrows \in Nat

Hooks  == {"none", "trace", "other"}            \* 0, trace_exception, another hook
Thrown == {"scalar", "object", "exception"}     \* the type of the thrown object

VARIABLES tracer,   \* exception_tracer
          phase,    \* install_handler: "before" its constructor, "live", "after" its destructor
          log,      \* what trace_exception wrote, one entry per call
          throws    \* the number of throws so far

vars == <<tracer, phase, log, throws>>

TypeOK ==
  /\ tracer \in Hooks
  /\ phase \in {"before", "live", "after"}
  /\ log \in Seq([type: Thrown, what: BOOLEAN])
  /\ throws \in 0 .. MaxThrows

Init ==
  /\ tracer = "none"
  /\ phase = "before"
  /\ log = << >>
  /\ throws = 0

(* Install_Handler(): exception_tracer = trace_exception.                  *)
Construct ==
  /\ phase = "before"
  /\ phase' = "live"
  /\ tracer' = "trace"
  /\ UNCHANGED <<log, throws>>

(* Mutant: the destructor leaves the hook in place.                       *)
DestructKeeps ==
  /\ phase = "live"
  /\ phase' = "after"
  /\ tracer' = tracer
  /\ UNCHANGED <<log, throws>>

(* ~Install_Handler(): if (exception_tracer == trace_exception)           *)
(* exception_tracer = 0.                                                   *)
Destruct ==
  /\ phase = "live"
  /\ phase' = "after"
  /\ tracer' = IF tracer = "trace" THEN "none" ELSE tracer
  /\ UNCHANGED <<log, throws>>

(* Other code sets exception_tracer to its own hook or clears it; it is   *)
(* assumed never to install trace_exception.                               *)
OtherSets(h) ==
  /\ tracer' = h
  /\ UNCHANGED <<phase, log, throws>>

(* trace_exception(object, tinfo): the type is logged; when tinfo is a    *)
(* class type (dynamic_cast to __class_type_info) and std::exception can  *)
(* catch it (__do_catch), the object is read as a std::exception and its  *)
(* what() is logged.                                                       *)
TraceException(t) ==
  LET ctinfo   == t # "scalar"
      canCatch == ctinfo /\ t = "exception"
  IN  [type |-> t, what |-> canCatch]

(* A throw calls the installed hook: trace_exception logs, another hook   *)
(* does whatever it does, and no hook does nothing.                        *)
Throw(t) ==
  /\ throws < MaxThrows
  /\ throws' = throws + 1
  /\ log' = IF tracer = "trace" THEN Append(log, TraceException(t)) ELSE log
  /\ UNCHANGED <<tracer, phase>>

Next ==
  \/ Construct
  \/ Destruct
  \/ \E h \in {"none", "other"} : OtherSets(h)
  \/ \E t \in Thrown : Throw(t)

Spec == Init /\ [][Next]_vars

-----------------------------------------------------------------------------
(* Once the unit is destroyed, trace_exception is never called again:    *)
(* the destructor removes the hook if it is still the installed one.      *)
NoTraceAfterDestruction ==
  [][phase = "after" => log' = log]_vars
=============================================================================
