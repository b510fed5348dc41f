------------------------------- MODULE Interrupts ------------------------------
(***************************************************************************)
(* Interrupts and exceptions of i686: kernel/arch/i686/intr.c, the stubs   *)
(* of intr.asm and the default handler of exceptions.c.  The two interrupt *)
(* controllers are external: they keep the lines that are requested and    *)
(* the lines in service, and a line in service holds back those of no      *)
(* higher priority until an EOI command.                                   *)
(***************************************************************************)
EXTENDS Integers, Sequences, FiniteSets, FiniteSetsExt

CONSTANTS
  Line,       \* the lines that devices are attached to
  Exception,  \* the processor's exceptions that happen
  None

VARIABLES
  handlers,  \* HANDLERS; a handler is named by what it was registered for
  default,   \* whether DEFAULT_HANDLER is set
  enabled,   \* whether interrupts are enabled outside of the handlers
  irr, isr,  \* the lines requested, and those in service
  running,   \* the contexts of irq_handler and isr_handler, the innermost last
  regs, regVals,  \* the store of prepare_panic_info
  fault      \* what has stopped the kernel

picVars == <<irr, isr>>
Master == 32   \* IRQ_MASTER_OFFSET
Slave == 40    \* IRQ_SLAVE_OFFSET
Cascade == 2
Default == <<"default", 0>>   \* default_handler

Registers == <<"EDI", "ESI", "EBP", "ESP", "EBX", "EDX", "ECX", "EAX", "EIP", "ESP">>
Report == INSTANCE KVStore WITH
  Key <- {Registers[i] : i \in DOMAIN Registers}, Value <- {"value"}, Capacity <- 20,
  keys <- regs, vals <- regVals

\* intr_init, after which lines and exceptions have their gates
Init ==
  /\ handlers = [v \in 0 .. 55 |-> None] /\ default = FALSE /\ enabled = FALSE
  /\ irr = {} /\ isr = {} /\ running = <<>>
  /\ Report!Init

-----------------------------------------------------------------------------
(* Registration *)

\* intr_handler_cpu_default by i686_setup_exception_handlers
SetDefault ==
  /\ running = <<>> /\ ~default
  /\ default' = TRUE
  /\ UNCHANGED <<handlers, enabled, picVars, running, regs, regVals, fault>>

Install(v, name) ==
  /\ IF handlers[v] = None THEN handlers' = [handlers EXCEPT ![v] = name] /\ UNCHANGED fault
     ELSE fault' = "handler twice" /\ UNCHANGED handlers
  /\ UNCHANGED <<default, enabled, picVars, running, regs, regVals>>

\* intr_handler_cpu
HandlerCpu(n) == running = <<>> /\ n < 22 /\ Install(n, <<"exception", n>>)

\* intr_handler_pic
HandlerPic(l) ==
  /\ running = <<>> /\ l # Cascade
  /\ Install(IF l > 7 THEN Slave + l - 8 ELSE Master + l, <<"line", l>>)

\* irq_enable, irq_disable
Enable(on) ==
  /\ running = <<>> /\ enabled # on
  /\ enabled' = on
  /\ UNCHANGED <<handlers, default, picVars, running, regs, regVals, fault>>

-----------------------------------------------------------------------------
(* The controllers, external *)

Raise(l) ==
  /\ irr' = irr \cup {l}
  /\ UNCHANGED <<handlers, default, enabled, isr, running, regs, regVals, fault>>

OfSlave(lines) == {l \in lines : l > 7}

\* The order of the lines: those of the slave come where the cascade is.
Rank(l) == IF l > 7 THEN l - 6 ELSE IF l > Cascade THEN l + 7 ELSE l

\* What is in service on the slave holds back lines of the slave only.
HeldBack(l) == \E s \in isr : Rank(s) <= Rank(l) /\ (l > 7 \/ s <= 7)

\* A non-specific EOI command ends the line in service of the highest priority.
AfterEoi(lines) == lines \ {Min(lines \cup {16})}
EoiSlave(lines) == (lines \ OfSlave(lines)) \cup AfterEoi(OfSlave(lines))
EoiMaster(lines) == OfSlave(lines) \cup AfterEoi(lines \ OfSlave(lines))

-----------------------------------------------------------------------------
(* Handling *)

\* call_handler: the handler of a vector, the default one, or none
HandlerOf(v) == IF handlers[v] # None THEN handlers[v] ELSE IF default THEN Default ELSE None

Enter(kind, n, vector) == running' = Append(running, [kind |-> kind, n |-> n, handler |-> HandlerOf(vector)])

\* irq_handler until its handler runs.  The second offset is added to the number of the line.
EnterLine(l) == Enter("line", l, IF l < 8 THEN l + Master ELSE l + Slave)

Interrupt(l) ==
  /\ enabled /\ running = <<>> /\ l \in irr /\ ~HeldBack(l)
  /\ \A k \in irr : HeldBack(k) \/ Rank(l) <= Rank(k)
  /\ irr' = irr \ {l}
  /\ isr' = isr \cup {l} \cup (IF l > 7 THEN {Cascade} ELSE {})
  /\ EnterLine(l)
  /\ UNCHANGED <<handlers, default, enabled, regs, regVals, fault>>

\* A request that is gone when the processor asks for it: only the master thinks that it is served.
Spurious(l) ==
  /\ enabled /\ running = <<>> /\ ~HeldBack(l)
  /\ isr' = isr \cup (IF l > 7 THEN {Cascade} ELSE {})
  /\ EnterLine(l)
  /\ UNCHANGED <<handlers, default, enabled, irr, regs, regVals, fault>>

\* The stubs of exceptions without an error code jump to isr_handler with no frame below them.
ErrorCode == {8, 10, 11, 12, 13, 14, 17, 21}

\* isr_handler until its handler runs; handlers can cause exceptions, too.
Trap(n) ==
  /\ \A i \in DOMAIN running : running[i].kind = "line" /\ running[i].handler # Default
  /\ IF n \in ErrorCode THEN Enter("exception", n, n) /\ UNCHANGED fault
     ELSE fault' = "no frame" /\ UNCHANGED running
  /\ UNCHANGED <<handlers, default, enabled, picVars, regs, regVals>>

Context == running[Len(running)]

\* Mutant of WriteEoi: one controller only.
WriteEoiOnce(intn) == IF intn - Master > 7 THEN EoiSlave(isr) ELSE EoiMaster(isr)

\* pic_write_eoi; its argument is the vector, so that both controllers get the command.
WriteEoi(intn) == EoiMaster(IF intn > 7 THEN EoiSlave(isr) ELSE isr)

\* The handler returns.
Leave ==
  /\ running # <<>> /\ Context.handler # Default
  /\ isr' = IF Context.kind = "line" THEN WriteEoi(Context.n + IF Context.n < 8 THEN Master ELSE Slave) ELSE isr
  /\ running' = SubSeq(running, 1, Len(running) - 1)
  /\ UNCHANGED <<handlers, default, enabled, irr, regs, regVals, fault>>

\* default_handler: prepare_panic_info appends one register after the other; kernel_panic does not return.
DefaultHandler ==
  /\ running # <<>> /\ Context.handler = Default
  /\ LET done == Report!Length
     IN  IF done < Len(Registers) THEN Report!Append(Registers[done + 1], "value")
         ELSE fault' = "kernel_panic" /\ UNCHANGED <<regs, regVals>>
  /\ UNCHANGED <<handlers, default, enabled, picVars, running>>

Next ==
  /\ fault = "none"
  /\ \/ SetDefault \/ Leave \/ DefaultHandler
     \/ \E on \in BOOLEAN : Enable(on)
     \/ \E n \in Exception : HandlerCpu(n) \/ Trap(n)
     \/ \E l \in Line : HandlerPic(l) \/ Raise(l) \/ Interrupt(l)
     \/ \E l \in {7, 15} : Spurious(l)

-----------------------------------------------------------------------------

\* Between interrupts no line is in service, so that none is held back for ever;
\* and what runs for a line of the master is the handler registered for it, if
\* there is one (intr.c, irq_handler and intr_handler_pic).
LinesHandled ==
  /\ running = <<>> => isr = {}
  /\ \A i \in DOMAIN running :
       LET c == running[i]
       IN  c.kind = "line" /\ c.n <= 7 =>
             /\ handlers[Master + c.n] # None => c.handler = <<"line", c.n>>
             /\ c.handler \in {None, Default, <<"line", c.n>>}

================================================================================
