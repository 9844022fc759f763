# Formal verification of the seL4 light controller

This directory models the vehicle light controller of this repository
(`src/domains/`, `src/core/`, `include/`, `systems/light.system`) and the
interrupt handling of its virtual machine monitor (`vmm/src/`) in TLA+,
model-checks it with TLC on small instances and proves its central invariants
with TLAPS for every instance. Paths below are relative to the root of the
repository.

## 1. The system

Six seL4/Microkit protection domains (PDs), each one thread with a fixed
priority on one core, share memory pages and send each other notifications that
carry no data and coalesce per channel.

    console --UART IRQ--> commandin (250)
                             | writes the one message slot, then signals one of
            +----------------+---------------------+
            v                v                     v
      scheduler (253)   vehicle_state (245)    faultmg (210)
            ^  ^             |                   |      |
            |  +-------------+                   |      |
            +------------------------------------+      |
            | writes target_output                      |
            v                                           v
      lightctl (200) ----- one channel per action --> gpio (252)
            +------- guard rejected: signal ------> faultmg

The priorities are what makes this hard: `faultmg` and `lightctl` are the lowest,
so everything they read may change between two of their instructions, while
`scheduler` and `gpio` run to completion whenever they are signalled.

The virtual machine monitor (`vmm/`) is a further PD for a Linux guest. It has
no channel to the six and is not in the image `systems/light.system` describes
(its lines of the `Makefile` are commented out), but it is part of the
repository and holds its most delicate protocol:

    device --seL4 masks the IRQ--> notified --+-> pending bit, overflow queue
    guest timer ------- VPPI fault -----------+        |
    guest ---- distributor writes, SGIs ------+        v
      ^                                          list registers of the vCPU
      +--------- takes and finishes the interrupt ----+  |
                     maintenance fault: next of the queue, ack to seL4

### Components

| Component (source) | State it keeps | Operations | Hard behaviour | Correct when |
|---|---|---|---|---|
| Fault-mode library (`src/core/light_fault_mode.c`) | `light_fault_state_t`: mode, lifecycle, active mask and counters, recovery clock | `reset`, `record_error`, `clear_active`, `observe_recovery`, transport encode/decode | sequences of faults, clears and recovery ticks; three views of one fact (lifecycle, mask, counters) | the views agree; the severity covers what is active; recovery falls one level per window |
| Fault manager (`src/domains/faultmg.c`) | `g_fault_state`, total count, copy of the message | `init`, `notified` on two channels, `publish_fault_state` | torn copy of the slot; in-place publication read by PDs of higher priority | whatever it changes is published in full, before the signal that announces it, and readers end up with it |
| commandin (`src/domains/commandin.c`) | parser, UART, message slot | UART interrupt, `handle_char`, `dispatch_transport_message`, status panel | a character arriving during the handler; one slot for three receivers | each thing typed is understood as documented, once |
| Transport parser, codec (`src/core/light_transport.c`, `light_command_codec.c`) | line buffer | `feed_char`, line parsing, encode/decode | immediate keys against line beginnings; a full buffer | documented words give documented messages |
| Scheduler (`src/domains/scheduler.c`) | operator request, target, speed copy (shared) | `init`, `notified` on three channels, `recompute_target_output` | three senders, coalesced notifications | the target answers the latest inputs |
| Control logic, output policy (`src/core/light_control_logic.c`, `light_output_policy.c`) | none | request updates, target computation | overlapping clamps | profiles of each mode hold |
| Vehicle state (`src/domains/vehicle_state.c`, `src/core/light_vehicle_state.c`) | vehicle state (shared) | `init`, `notified`: copy, validate, apply, notify | torn copy of the slot | state in range; a change always reaches the scheduler |
| lightctl, execution plan, runtime guard (`src/domains/lightctl.c`, `src/core/light_execution_plan.c`, `light_runtime_guard.c`) | execution state, cached mode | `sync_outputs`: copy target, plan, guard, report or trigger | torn target, stale mode, partial plans, a loop through `faultmg` | lamps exclusive; belief matches the pins; pins match the target at rest |
| gpio (`src/domains/gpio.c`) | output register, mode copy | fault mode, twelve lamp actions | ordering of signals on different channels | pins follow the actions |
| Shared-state contract (`src/core/light_contract.c`) | none | message and snapshot checks | messages copied in parts | a message acted upon has the type and length of its handler |
| Protocol structures (`include/`) | layouts, enums, defaults | - | - | - |
| Microkit, seL4 (external) | notification objects, threads | signal, wait, priorities | coalescing, lowest channel first | - |
| Virtual machine monitor (`vmm/src/vmm.c`, `fault.c`, `psci.c`, `smc.c`, `vgic/`) | distributor bits, shadow of the list registers, overflow queue | `init`, `notified`, `fault`: maintenance, VPPI, distributor writes, PSCI, SMC, system calls, restart | a device interrupt between the guest's acknowledgement and its maintenance; four places that know of one interrupt (seL4's mask, pending bit, list register, queue) | a pending interrupt is held once; one masked by seL4 is always on its way back; no assertion fails |
| Status snapshot, legacy policy, support library, virtual GICv3, tests and scripts | - | - | - | not modelled, section 8 |

`PROJECT.json` lists the components with their status, every hazard at the line
where it bites, and for each definition of the models the lines it stands for.

## 2. The modules

| Module | Models | How it corresponds to the code |
|---|---|---|
| `Microkit` | notifications, event loop, priorities (external) | `thread[p]` is the PD's program point, the channels it has received and those pending. `Signal`, `Wait`, `Called` are `microkit_notify`, the loop and its call of `notified`; `Runs(p)` is the fixed-priority scheduler |
| `LightFaultMode` | `light_fault_mode.c` | one operator per function from a state record to a state record; `WellFormed` and its parts are the invariants of that record |
| `LightContract` | `light_contract.c` | messages and their check, the result named as in the code |
| `FaultLifecycle` | abstract specification | the recovery rules of `docs/safety_case.md` over four variables, and where the code departs from them |
| `FaultMg` | `faultmg.c` | one action per handler step: each load of the message copy, the decision, each store and signal of `publish_fault_state`. commandin, lightctl and the readers are an environment that may do anything its priority allows |
| `FaultMgDelivery` | the same, with the number of messages injected | what the slot loses or repeats |
| `LightControl` | control logic, policy, plan, guard, vehicle state | pure operators; a target is the set of lamps asked for; an execution state a record |
| `LightSystem` | all six domains | `FaultMg` with its environment replaced by the real domains. scheduler and gpio handlers are one step; vehicle_state and lightctl are split at each shared access |
| `LightConsole` | UART, interrupt, parser | characters to messages; device and interrupt controller external |
| `VGic` | `vmm/src/vgic/` for GICv2 | operators from a state record to a state record: a distributor register is a set of interrupts, a `virq_handle` its number; `lr` is the shadow, `hw` what the kernel was last told to write |
| `IrqLifecycle` | abstract specification | the states b, c, d and g of the head comment of `vgic_v2.c` for a device interrupt: enabled, pending, masked; no list register, queue or order |
| `Vmm` | `vmm.c`, `fault.c`, `psci.c`, `smc.c` | one action per kind of fault and one for a notification, each handler whole, its failed assertions included; guest, devices and seL4 are the environment |
| `LightFaultModeProofs`, `FaultMgProofs`, `LightControlProofs`, `LightSystemProofs`, `LightOutputProofs`, `LightConsoleProofs`, `VGicProofs`, `VmmProofs` | theorems | section 6 |
| `MC*` | instances for TLC | messages, inputs, words |

Composition: `LightSystem` EXTENDS `FaultMg` and `LightControl`, so a handler of
the fault manager is the same definition in both. `FaultMgView` in `LightSystem`
maps the real threads to the environment of `FaultMg` (a reader with a received
fault channel is "woken", any other waits); `ImplementsFaultMg` states that every
step of the system is then a step of `FaultMg`. `FaultMg` in turn implements
`FaultLifecycle`. `LightConsole` is separate: it ends where `Dispatch` of
`LightSystem` begins, at a message. `Vmm` EXTENDS `VGic` and implements
`IrqLifecycle`; it shares nothing with the rest.

### What is abstracted

* The three loads of a message and of a vehicle request are separate steps
  because the build uses `-mstrict-align` (`Makefile`), so a packed structure is
  not copied at once. Header version and flags are constants of every message
  and left out.
* Counters nobody reads back (cumulative counts per code), the fault manager's
  history log, the decision record, `uart_cmd`, `allow_flags`, direction
  registers and the timer feed only the log or are written and never read by the
  program; they are left out. `active_fault_mask` is a set of codes; groups of
  0/1 members are sets of lamps.
* The recovery window's clock is the program's own: `observe_recovery` is given
  ticks built from those already seen, not a device timer. It is modelled with
  its arithmetic.
* The first message register that `faultmg` reads after lightctl's bare signal is
  not set by the signal: its value is any member of `LightctlCodes`. The value
  half of a message that is no vehicle update is not initialised by its maker:
  any member of `StackValues`.
* In the monitor, the program counter and the general registers of the guest
  are left out, and with them what a read of a register returns and the width of
  an access. The faults that reach no part of the interrupt controller differ
  only in whether the guest gets a reply: answered, stopped, or never answered
  (`dead`), which is what the code does with a fault it fails to handle. A
  handler is one step: the monitor is one thread, blocked guests change nothing,
  and a device interrupt that arrives meanwhile only sets its notification.
* In the console, only the first character of a line decides how it is read, so
  a run of characters that is only ever appended ("peed=") counts as one
  character, and the buffer of the run is correspondingly small.

## 3. What is checked

Runs that must pass:

| Run | Asks | Bounds | Distinct states |
|---|---|---|---|
| `MCFaultMg` | does the fault manager keep its invariants, with messages overwritten between any two of its loads and stores, do publications reach readers, and do repeated clears end in NORMAL? | both injections, a clear, a light command and a vehicle update; codes {0, 2} with lightctl's signal; 3 errors | 173,179 |
| `SystemRaces` | do six domains keep lamps exclusive, lose nothing and come to rest, with a second command at any moment of the first? | 9 inputs, 2 commands, both may race; 4 errors | 130,284 |
| `SystemPaced` | over a longer sequence, does each command take effect, do the profiles reach the pins, and do policy and guard agree? | 11 inputs, 6 commands entered at rest; 6 errors | 221,081 |
| `Console` | is what is typed slowly understood? | 16 words, every sequence with up to 3 messages, any number of words that mean nothing; buffer of 6 | 39,768 |
| `Vmm` | does every device interrupt come back, and is none held twice, dropped or left in a queue nobody empties? | 2 list registers of 4, a queue with no room to spare, the 4 interrupts `guest_start` registers and an SGI it does not; one interrupt per write that raises, any set per write that enables, disables or clears | 205,929 |

What the properties say:

* `LifecycleConsistent`, `SeverityCoversActiveFaults`, `RecoveryWindowBounded`:
  the library's record never contradicts itself, whatever the order of faults,
  clears and observations. These three are inductive together.
* `CountersWithinTotal`: what is counted since the last clear is part of the
  published total, and a run of mode conflicts ends with the clear that forgets
  the conflicts; so no counter runs ahead of the faults reported.
* `PublicationComplete`, `ReadersCurrent`, `PublicationReachesReaders`: no early
  return forgets to publish, no signal precedes the value it announces, and both
  readers end with the mode.
* `SnapshotNeverUnderstates`: a status query that falls into a publication shows
  new fields with old ones, but never an active fault with mode NORMAL. It
  depends on the order of the stores: the mode goes before the mask.
* `RecoveryDropsOneLevel`, `FaultInterruptsRecovery`, `ImplementsLifecycle`,
  `RecoveryCompletes`: recovery goes one level per window, a fault interrupts
  it, nothing else happens, and it ends. The last needs two premises, both in the
  formula: clears go on being accepted, and the system is not left ACTIVE without
  a marker for good (`[]<>ActiveIsMarked`). The second is there because the code
  can be (run `RecoveryLock` of section 5); the run has the codes that do it.
* `LampsExclusive`: in no moment of a plan are both beams or both turn lamps lit,
  even when the plan was built from halves of two targets.
* `ExecutionMatchesPins`: lightctl's belief follows what gpio did, not what was
  planned.
* `TargetCurrentAtRest`, `PinsShowTargetAtRest`, `SafePinsAtRest`: once all wait,
  target and speed copy answer the latest inputs, every lamp of the target is lit
  and no other (of two turn lamps asked for, the left one), and the profiles of
  DEGRADED and SAFE_MODE are on the pins.
* `GuardAgreesWithPolicy`: the guard rejects only what a race let through.
* `ComesToRest`: notifications do not go round the loop scheduler, lightctl,
  faultmg for ever.
* `SchedulerReadsItsCommand`: from the signal of a light command until the
  scheduler has read the slot, no other command is entered and nothing is written
  there, not even the same command again. Of the three receivers that share the
  slot the scheduler alone is sure to read the very message it was signalled for,
  and only because its priority is above that of the writer.
* `LastCommandTakesEffect`: a command entered at rest is what request and
  vehicle state say when all wait again.
* `WordsUnderstood`, `TypedIsRead`: each word typed is read, once and in order,
  with the meaning it has as a whole, and between two words nothing is left in
  the line buffer, after a rejected or an overlong word either.
* `HeldOnce`, `QueueOnlyBehindFullListRegs`, `ShadowMatchesHardware`: the four
  places that know of an interrupt agree at every moment, between the guest's
  acknowledgement and its maintenance too.
* `NoInterruptLost`, `InterruptsReturn`, `ImplementsIrqLifecycle`: an interrupt
  that seL4 masks is on its way to the guest, held for it, or disabled; if the
  guest wants it and goes on acknowledging, it is unmasked again; and the
  lifecycle is that of the head comment of `vgic_v2.c`.
* `AssertionsHold`: no assertion of the monitor fails. What the guest is trusted
  with is named in `Assumptions`: it turns the distributor on before it enables
  a device interrupt and off after the last is disabled (`distributor_first`;
  an interrupt that is dropped because the distributor is off stays masked), it
  leaves pending flags alone (`pending_flags_alone`, said by the head comment of
  `vgic_v2.c`, lines 38-40), it resets itself with its interrupts shut down
  (`quiescent_reset`), and it raises interrupts that exist and writes no
  register left unimplemented (`own_interrupts`). Linux does so; the code does
  not check it. What they keep out is not covered: a pending flag cleared under
  an interrupt that is held (`vdist.h:241`), an SGI raised with the distributor
  off (`vdist.h:584`), a reset with interrupts held. `StaleListRegister` shows
  what the last leads to.

Each property of a passing run has a mutant in `PROJECT.json`: a plausible bug in
a modelled function, under which TLC finds that property violated.

### Why the bounds are enough

* *Errors.* SAFE_MODE needs two hardware errors, DEGRADED three mode conflicts in a
  row. Three errors reach every severity, interrupt a recovery from SAFE_MODE
  with the mode held, and make recovery possible again after one that was
  interrupted without a marker. Sequences that need a fourth add only a mode
  derived anew from counters that were seen before; every safety property is
  proved for any number. `SystemRaces` has four, `SystemPaced` six.
* *Codes.* 0 after lightctl's signal is a code nobody set, 2 a known one; 1 and 17
  are recorded when a copy is torn, the one known, the other not.
* *Races.* A command entered while another is handled already reaches each
  two-writer conflict on the slot, the target, the mode and the vehicle state;
  with two, lightctl's own reports and the fault manager's publications provide
  the third actor.
* *Inputs of `LightSystem`* hold one of each thing the domains treat differently:
  both beams on and one off, both turns, the brake and a speed above the guard's limit, a speed
  out of range, the gear that forces low beam, a fault that leads to SAFE_MODE, a
  clear. Ambient light, ignition and the other drive modes only change which
  target is computed, by operators `LightControlProofs` covers for every value.
* *Words.* Any word leaves the parser with an empty line or it does not; three
  messages in a row cover what one word leaves for the next, and one of the words
  overflows the buffer, so that the reset of a full line is reached. For any
  words, any number and any buffer it is proved.

* *Interrupts of the monitor.* Two list registers and four interrupts fill both
  registers and put two behind one another in the queue: an order, a head and a
  tail. `QueueLen` is the smallest its assumption allows, so that a fifth entry
  would overflow it. The four are one of each class: two SGIs, the PPI of the
  timer and an SPI; the proofs cover any number of each.

`CHECK_DEADLOCK FALSE` appears where the system really stops: six waiting domains
and an operator who has entered all he may, or a console with nothing left to
type, or a guest that was stopped or is never answered, with its device
interrupts masked. In `FaultMg` a clear is always possible, and deadlock is
checked.

## 4. Fairness

* `FaultMg`: weak fairness of the handler and of the readers. A PD that is
  ready runs once those above it wait, and stays ready until then; the actions
  are guarded with `Runs`, so weak fairness asks no more of the kernel than that.
  commandin is above them and its step is taken whole: the assumption is that it
  leaves the processor time between two characters, which a serial line at its
  speed does; a console that kept commandin busy for ever would starve every
  domain below it.
* `LightSystem`: weak fairness of each domain below the console. `Dispatch` is
  not fair; nobody must enter a command.
* `LightConsole`: weak fairness of the device's reception of a character already
  being typed, of the interrupt's delivery and of commandin. Nothing makes the
  user begin another word.
* `Vmm`: weak fairness of the handling of each notification and of each fault:
  the monitor's event loop. Strong fairness of the guest's acknowledgement of
  what a list register holds: the guest is interrupted by other work and blocked
  in other faults again and again, but a guest that never finished an interrupt
  would have stopped taking any. Nothing obliges a device to interrupt.
* `RecoveryCompletes` assumes, in its own premises, clears accepted again and
  again, for recovery advances only when the operator asks, and a system that is
  not ACTIVE without a marker for ever. Errors are finitely
  many by the bound `MaxErrors`, which is the documented premise too: recovery
  ends only if faults do.

## 5. Where documents and code differ

Each run below must find its property violated; the finding in `PROJECT.json`
quotes the document.

| Run | The document says | The code does |
|---|---|---|
| `Delivery` | SAFE_MODE after two hardware errors (`docs/safety_case.md:22`) | one injected error read twice from the slot counts as two; a torn copy may even record the number of a vehicle field |
| `RecoveryLock` | ACTIVE means that markers exist, a clear removes them, and recovery follows down to NORMAL (`docs/safety_case.md:45`, 60-65) | an unknown code that interrupts a recovery leaves ACTIVE, no marker and the mode held; `clear_active` and `observe_recovery` then both return at once, for ever |
| `HazardTurns` | an emergency drives both turn outputs (`docs/requirements.md:21`) | the plan lights one of them |
| `StaleMode` | in SAFE_MODE the high beam is off (`docs/safety_case.md:38`) | a plan under way keeps the mode cached at its start and may light it after SAFE_MODE was published; the next synchronisation puts it out |
| `HazardLine` | `hazard=1` sets the hazard request and `brake=1` the brake pedal (`docs/architecture.md:69`, 66) | `h` and `b` are commands of their own at the start of a line |
| `ConsoleStall` | valid UART commands propagate (`docs/requirements.md:9`) | a character that arrives between the read of the register and the clear of the interrupts is never read, nor any after it |
| `StaleListRegister` | the list register a maintenance is about is in use (the assertion at `vmm/src/vgic/vgic.c:40`); "re-initialise all the VMM state" (`vmm.c:362`) | a PSCI reset clears the shadow of the list registers and not the registers; a guest that resets itself with an interrupt in one finishes it after the restart, and the assertion stops the monitor |

`FaultLifecycle` departs from the documents in two places: an unknown code makes
the lifecycle ACTIVE and sets no marker (`docs/safety_case.md:45` wants one; the
consequence is the run `RecoveryLock`), and a fault re-derives the mode from the
active counters, so that after a fault that interrupted a recovery the next may
lower it by two levels (`docs/requirements.md:33`: one at a time).

The model of the UART in `ConsoleStall` is external: one character in the receive
register, an interrupt raised on reception, lowered by a read or by the clear.
`uart_init` of `commandin.c` only sets the interrupt mask, so the FIFO stays off,
its reset state; a boot loader that enables it would hide the stall behind a few
characters of buffer.

## 6. What is proved

The theorems about the fault manager hold for every set of messages that pass
their contract, every set of codes lightctl's signal may yield and every
`MaxErrors`; those about the six domains for every set of inputs, every value an
uninitialised word may have and any number of commands and races; those about
the console for every set of words and every buffer; those about the monitor for
every set of interrupts, any number of list registers and any queue longer than
the registered interrupts are many. The assumptions are the `ASSUME`s of
`FaultMg`, `LightSystem`, `LightConsole` and `VGic`, which TLC evaluates on each
run. Every safety property of a passing run is a theorem. Before it was proved
each inductive invariant was an invariant of a TLC run of the instances in
section 3.

### The fault manager

`LightFaultModeProofs` proves the library alone: `WellFormed(state)` (type,
`Consistent`, `SeverityCovered`, `WindowBounded`) holds after a reset and is
preserved by `RecordError` for every byte, by `ClearActive` and by
`ObserveRecovery`; what each may do to the mode; and that the transport byte
keeps the mode. It is the layer at which the arithmetic of counters and windows
is dealt with, so that the next one need not open it.

`FaultMgProofs` proves `Soundness == Spec => []Sound`. `Sound` is the inductive
invariant, a conjunction of

* `ControlOK`: threads, labels and the publication index agree,
* `DataOK`: the remaining variables are typed,
* `WellFormed(fault_state)`, whose parts lean on one another: that an observation
  may lower the mode without uncovering a fault needs `Consistent` (in recovery
  nothing is active), and so does the bound on the clock (in recovery the mode is
  above NORMAL, so each further window has a level to pay for it). The bound
  itself is the strengthening `start + 2000 * mode <= 1 + 2000 * SAFE_MODE`:
  no bound on the start alone is inductive.

Each action has a step, with the library's lemmas under the three that change
the fault state. From it follow `TypeCorrect`, `LifecycleIsConsistent`,
`SeverityIsCovered`, `RecoveryWindowIsBounded` (the clock never leaves three
windows, so the 32-bit member cannot wrap), `CountersStayWithinTotal` (by the
same steps, since a clear that changes the state leaves nothing counted), the
action properties
`RecoveryDropsOneLevelAtMost` and `FaultInterrupts`, and the refinement
`RefinesLifecycle`: initial states map to initial states and every step to one
rule of `FaultLifecycle` or to a stutter. `PublicationIsComplete` is a second
induction over the index in `PublishSteps`; `ReadersAreCurrent` a third, over
`ReadersFollowPublication`, which strengthens `ReadersCurrent` by what is owed
to each reader while a publication is under way. `SnapshotsNeverUnderstate` adds
`ModeDueCovers` to its property: with the first store due, a mask still shown
from before belongs to a state whose mode is no lower than WARN, since a fault
adds to the markers and a clear keeps the mode. That, `PublicationComplete` and
the order of the stores give the rest.

### The six domains

`LightControlProofs` is about the operators. `GuardAcceptsPolicy`: with no
emergency on, the guard accepts every lamp the policy lets through, for every
request, vehicle state, fault mode and execution state that satisfies its stated
conditions; `GuardAcceptsOff`: it never denies switching off a lamp that is lit.
A plan is `PlanTo(state, wanted)`, and `NextOfPlan` is the fact the rest is built
on: what is left of a plan after its first action is the plan from the state
that action leads to, and if that action is denied it is still the plan to some
state. It holds of every pair of states, so it needs nothing about how the target
was read.

`LightSystemProofs` proves `CoreInvariant`. `Core` is a conjunction of

* `ThreadsOK`: commandin, scheduler and gpio are never inside a handler at the
  end of a step, and a waiting domain is owed no call;
* `FaultOK`: the fault manager's own invariant (`FaultMgProofs`, with the lemmas
  about its handlers used as they stand);
* `InputsOK`: request, vehicle state, target and speed are in range, whatever
  mixture of messages a request was copied from;
* `LightctlOK`: what is left of a plan is a plan, from what has been executed to
  some state.

One lemma for each domain says which threads its steps wake and which they leave
alone; that a domain of higher priority waits whenever a lower one runs is the
only fact about the kernel they use. As only the fault manager changes
the fault state, and by the same steps as alone (`FaultStateStep`), what
`FaultMgProofs` shows of a step holds here: `SystemKeepsFaultRecord`,
`SystemCountsWithinTotal`, `SystemRecoversByLevels`, `SystemFaultInterrupts` and
`SystemRefinesLifecycle`. From `Core` follows also `CommandsReachScheduler`:
the scheduler waits whenever commandin runs, so while a command is due to it no
command is entered, and no other domain writes the slot. `SystemReadersAreCurrent` is `ReadersCurrent` of
the real readers. Its invariant `ReadersOwed` says that a reader that has not
read the mode is owed its channel, or that the publication has yet to signal it:
the publication writes both copies of the mode before its first signal, and the
scheduler's signal is its last step.
`SystemImplementsFaultMg` is the refinement: with the threads mapped by
`ThreadView` and the readers by `ReaderView`, each step of a domain is a step of
`FaultMg`'s environment, of its handler, or a stutter.

`LightOutputProofs` carries the lamps from the inputs to the pins, in layers, each
an inductive invariant that uses those before it:

* `GpioOK`: the pins are what lightctl has executed, or gpio owes the one action
  that will make them so. lightctl cannot signal the next before, since gpio is
  above it. `LampsAreExclusive` and `ExecutionIsOnThePins` follow, for torn
  targets too: an execution state has one field for each group of lamps, and
  every intermediate state of a plan is one.
* `TargetOK`: a target that is not what request, vehicle state and published mode
  call for is owed another computation, by a channel pending at the scheduler, a
  vehicle state not yet announced or a publication not yet at its signal.
  `TargetIsCurrentAtRest` is that nothing is owed at rest.
* `SettledOK`: work of lightctl on a target that has changed is owed a repeat, and
  a denied action a fault, whose publication leads to a recompute. What has been
  copied of an unchanged target agrees with it (`CopyIsCurrent`).
  `PinsShowTheTarget` and `SevereModesReachThePins` follow.
* `PacedOK` (console that waits for each result, no emergency): the mode lightctl
  has cached is the mode the target was computed for, so `GuardAcceptsPolicy`
  applies to every action of every plan. `GuardNeverDisagrees` follows.
* `BufferOK`, `CommandApplied`, `UpdateOK`: the message in the slot has passed its
  contract, and a command or an update is on its way through copy, checks and
  handler or has taken effect. `CommandsTakeEffect` follows.

`SystemTypeCorrect` is the typing of all of it, with the bound on a plan's length.

### The console

`LightConsoleProofs` proves `ConsoleTypeCorrect` (the line with its terminating NUL
fits, the device holds one character, however fast is typed) and
`WordsAreUnderstood`. The latter's invariant `WordsInv` says where the console is:
between two words with an empty line, or within word `w` after `i` characters,
with what of the path from the device to the parser holds the character before.
What the buffer then holds is a closed form (`After`, over the remainder `Fill`),
not a recursion, so no induction over data is needed: each character changes it
by one step of `Feed`. Its hypothesis `IsWord` says what a word means when it is
seen whole: a command letter its command, a line what `Parsed` makes of what is
left of it once every `LineMax`-th character has emptied the buffer; and that no
character that meets an empty buffer is a command letter. TLC checks that each
word of the run `Console` is one (`MCWordsAssumption`), and the run `HazardLine`
shows what happens without it. The other hypothesis, `Paced`, is that a character is typed
only when the last has been read; the run `ConsoleStall` shows what happens
without that.

### The monitor

`VGicProofs` proves what an injection and a maintenance do to the record of the
controller: they keep `HeldExactlyOnce` and the order queue-behind-full-registers.
Its argument for the assertion of the overflow queue is counting:
`RoomInQueue` maps the places of the queue one to one into the registered
interrupts without the one to be injected, so there is room as long as
`MAX_IRQ_QUEUE_LEN` exceeds the number of handles.

`VmmProofs` proves two invariants. `TypeInv` holds whatever the guest does, and
with it `VmmTypeCorrect` and `VmmQueuesBehindFullListRegs`. `IInv` needs the four
assumptions on the guest (`AllTrusted \subseteq Assumptions`), and with it
`VmmHoldsOnce`, `VmmShadowIsTrue`, `VmmLosesNoInterrupt` and `VmmAssertionsHold`
hold. It adds to these

* `TrustedFault`: a guest's assumption is about the moment it faults, and must
  still hold when the fault is handled, after any number of notifications;
* `DistributorOn`: with the distributor off no device interrupt is enabled, or a
  notification would be dropped with its interrupt enabled and masked;
* the SGIs are always enabled, without which the assertion on SGIR fails.

The parts lean on one another: that a maintenance finds its list register is
`ShadowMatchesHardware`, that it acknowledges the right interrupt and no other
is `HeldOnce`, and no queue overflows because of both. `VmmImplementsIrqLifecycle`
then maps each step to a rule of `IrqLifecycle` or a stutter, with what is
enabled and pending restricted to device interrupts: an injection is `Injected`
if the interrupt can be injected and `Dropped` or a stutter if not, a maintenance
is `Acknowledged` of the interrupt its list register held.

## 7. What is only model-checked

* Liveness: `PublicationReachesReaders`, `RecoveryCompletes`, `ComesToRest`,
  `TypedIsRead`, `InterruptsReturn`. Fairness and ENABLED are out of the prover's
  reach.
* The seven runs of section 5 are counterexamples, found by TLC.
* Hypotheses of theorems that are no `ASSUME` of a module: `Paced` and the four
  assumptions on the guest are the constants of the runs `Console` and `Vmm`, and
  `IsWord` is evaluated there; the runs `ConsoleStall`, `HazardLine` and
  `StaleListRegister` show what happens without one of them.

## 8. What is not modelled

* *Emergency loop.* In an emergency with the brake on or above 120 km/h the
  guard denies a turn lamp the policy asks for; each denial is a fault, each
  fault a recompute. The loop does not end by itself. `ComesToRest` and
  `GuardAgreesWithPolicy` exclude emergencies and say so.
* *32-bit counters.* The active counters are unbounded naturals; four thousand
  million faults without a clear are not considered. By `CountersWithinTotal`
  none of them can wrap earlier.
* *Fault history ring, taxonomy table, names* of the fault library: written and
  printed, or constants.
* *Status snapshot*: a pure copy of shared state for host tests; no domain calls it.
* *Legacy light policy*: kept for its tests; no domain calls it.
* *Contract's snapshot check, channel table and layout version; allow-flag
  packing.* The snapshot check asks for the ranges of single fields, which
  `TypeOK` has them in.
* *Of the virtual machine monitor*: the guest's registers, program counter and
  the values it reads; the width and alignment of its accesses (the registers
  are read and written in words by Linux); the copying of kernel, device tree
  and initial RAM disk and the failures of it and of the registrations in
  `guest_start`, which end before the guest runs; the text the wordle client
  draws. Registers that are stored and never acted upon are one operation.
* *Virtual GICv3* (`vgic_v3.c`): the monitor's objects (`Makefile`, line 69) are linked
  with `vgic_v2.o`; both use the same `vdist.h`.
* *Support library, both copies of `printf.c`*: vendored.
* *Tests, scripts, reports*: read as statements of intent.

## 9. Plan

Done, in this order because the fault manager decides what every other domain
may do: `LightFaultMode`, `FaultMg` and its proofs; `LightControl`,
`LightSystem`; `LightConsole`; then the monitor with its proofs (`VGic`, `Vmm`,
`IrqLifecycle`).

What would extend the model:

1. the emergency loop as a question of its own, with the inputs that feed it;
2. the fault history ring (index, wrap, order of entries), which only host tests
   use;
3. overlong console lines whose tail begins with a command letter;
4. console and system together: `LightConsole` as the source of `Dispatch`.

To prove next:

1. what follows without the guest's assumptions: which parts of `IInv` each one
   of them is needed for;
2. the console and the system together, once item 4 above is modelled.

## 10. Running

    tlc -workers 2 -config MCFaultMg.cfg MCFaultMg.tla
    tlc -workers 2 -config SystemRaces.cfg MCLightSystem.tla
    tlc -workers 2 -config Vmm.cfg MCVmm.tla
    tlapm FaultMgProofs.tla

The run's module and configuration are listed in `PROJECT.json`. The longest run
takes two to three minutes, the longest proof one to two.
