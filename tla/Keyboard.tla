------------------------------- MODULE Keyboard -------------------------------
(***************************************************************************)
(* The keyboard from startup on: the controller, which init_8042 (module   *)
(* Ps2Init) reads by polling, is wired to line 1 of the interrupt          *)
(* controllers (module Irq), and from sti on isr33 reads it.  The line is  *)
(* high while the output register is full and the interrupt of the port is *)
(* on; the 8259 sees its edges.                                            *)
(***************************************************************************)
EXTENDS Irq, Ps2Init

VARIABLES
  pushed,        \* what isr33 has read and given to kbd_buff_push
  early          \* history: keys typed before interrupts were turned on

vars == <<irqVars, ps2Vars, pushed, early>>

Line == obf /\ Has(config, INT_FIRST)

(* A rising edge is a request, a falling one takes it back. *)
Wired == irr' = IF Line' THEN (IF Line THEN irr ELSE irr \cup {1}) ELSE irr \ {1}

Polling(step) ==
  /\ step
  /\ Wired
  /\ UNCHANGED <<master, slave, pic, cpu, todo, counters, history, pushed, early>>

-----------------------------------------------------------------------------
(* startup: the interrupt controllers, the keyboard controller, sti. *)

(* Mutant of TurnsOnLast: interrupts are on while init_8042 runs. *)
TurnsOnAnyTime == TRUE

TurnsOnLast == result # "running"

(* Mutant of RemapsFirst: the interrupt controllers are programmed afterwards. *)
RemapsAfterKeyboard == result # "running"

RemapsFirst == pc = 1

TurnOn ==
  /\ TurnsOnLast
  /\ sti
  /\ early' = typed
  /\ UNCHANGED <<ps2Vars, pushed>>

RemapIrqs ==
  /\ RemapsFirst
  /\ PortAccess
  /\ cpu = "boot"
  /\ UNCHANGED <<ps2Vars, pushed, early>>

(* init_8042 runs as long as no handler does. *)
InitKeyboard ==
  /\ RemapsFirst => todo = <<>>
  /\ cpu \in {"boot", "main"}
  /\ MasterReady = {} \/ cpu = "boot"
  /\ Polling(init_8042)

(* kbd_buff_push(keyboard_read()): inb(0x60), full or not. *)
isr33 ==
  /\ UseDevice(1)
  /\ obf' = FALSE
  /\ pushed' = Append(pushed, out)
  /\ Wired
  /\ UNCHANGED <<program, command, config, setConfig, out, own, keyboard, early>>

Controller == Polling(Take) \/ Polling(AnswerQuery) \/ Polling(Answer)

Handling ==
  /\ Interrupt \/ (PortAccess /\ cpu = "handler")
                \/ \E l \in Lines \ {1} : UseDevice(l) /\ UNCHANGED irr
  /\ UNCHANGED <<ps2Vars, pushed, early>>

Others ==
  /\ \E l \in Lines \ {1} : Raise(l) \/ Withdraw(l)
  /\ UNCHANGED <<ps2Vars, pushed, early>>

Init ==
  /\ IrqInit(remap_irqs)
  /\ Ps2Start
  /\ pushed = <<>>
  /\ early = 0

Next ==
  \/ RemapIrqs \/ InitKeyboard \/ TurnOn \/ isr33 \/ Handling
  \/ Controller \/ Polling(Type) \/ Others

(* The processor goes on; the controller and the keyboard answer in the end. *)
Spec ==
  /\ Init /\ [][Next]_vars
  /\ WF_vars(RemapIrqs \/ InitKeyboard \/ TurnOn \/ isr33 \/ Handling)
  /\ WF_vars(Polling(Take)) /\ WF_vars(Polling(AnswerQuery)) /\ WF_vars(Polling(Answer))
-----------------------------------------------------------------------------
(***************************************************************************)
(* isr33 reads every key that is typed once and nothing else, in           *)
(* particular no late answer to the reset and no configuration byte,       *)
(* provided the reset went as init_8042 expects and no key was typed       *)
(* before sti.                                                             *)
(***************************************************************************)
KeysPushedOnce ==
  cpu # "boot" /\ Initialized /\ reset = {"ack", "passed"} /\ early = 0 /\ resends = 0 =>
    /\ \A i \in DOMAIN pushed : pushed[i] = Key
    /\ typed = Len(pushed) + (IF obf THEN 1 ELSE 0)

(***************************************************************************)
(* From sti on no byte is stuck in the output register while the port's    *)
(* interrupt is on, which would silence the keyboard for ever: its edge    *)
(* was seen, also when the byte came before sti.                           *)
(***************************************************************************)
NoByteStuck == (cpu # "boot" /\ Line) ~> ~obf
=============================================================================
