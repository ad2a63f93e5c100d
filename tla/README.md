# Verification of USB_SPDT

TLA+ modules, TLC configurations and TLAPS proofs for the firmware and host tools of USB_SPDT, an STM32F411
board that throws two latching coax relays (SPDT) over USB. Paths below are relative to the repository's
root; `app/` and `perl/` are under `src/`.

    tlc -config SpdtBoth.cfg MCSpdtDrive.tla     # any run of the table below
    tlapm RelayBoardProofs.tla                   # any module named *Proofs

`PROJECT.json` holds what is tabular: the components, the runs, the code lines behind every definition, the
hazards with the properties aimed at each, one plausible bug ("mutant") per checked property that makes the
property fail, the findings and the theorems.

## 1. The system

Firmware: FreeRTOS with a 2 ms tick (`app/FreeRTOSConfig.h:94`), four tasks of equal priority, which the
kernel time-slices, and the timer daemon above them. The **USB task** reads the identity from the EEPROM,
creates the queues the others wait on, configures USB, and then polls the USB stack whenever the interrupt has woken it. The **instrument task**
takes command packets from a queue, performs them and answers. The **debug shell** reads lines from a CDC-ACM
console and performs them. An **LED task** shows the state of the USB. The instrument task and the shell call the same drivers
with no lock anywhere; that is where most of the hard behaviour comes from.

Host: the Perl library `AttenSwitch.pm` and programs on top of it: `setupUSB` and `AttenSwitchTool`, which
write the EEPROM, and the daemon `stacklightd`, which shows a file's contents on a light of the same family.

| Component | State | Operations | Interacts with | What is hard; what makes it correct |
|---|---|---|---|---|
| SPDT drive, 12 V supply (`app/spdt.c`, `app/bsp.c`, `app/command.c`) | coil pins, SWEnable, HVEnable, `hvState`, turn-off timer, polarities | `hvOn`, `s1_j1sel`, `s2_j1sel`, `setPulseHigh`, `vhvTimerExpired`, shell `hv`, `s1`, `s2`, `reboot` | called by both tasks; daemon calls back | two callers and a timer interleave at every pin access. No coil stays energised, the supply is never on untimed, no pulse is cut by the timer |
| Relays and supply (hardware) | voltage, coil energy, position | - | driven by the pins | a select must really throw its relay, and nothing else may |
| Command link (`perl/AttenSwitch.pm`, `app/cdcacm.c`, `app/instr_task.c`) | endpoints 0x01/0x81, interrupt enable, semaphore, `CTRLinQ`, packet buffers | `connect`, `send_packet`, ISR, USB task, dispatcher, `writePacket` | host, USB task, instrument task, blinker | hand-over of the interrupt; queue limit; retries given up; host dying half-way. Every request performed once, in order, answered with its own reply |
| ID blinker, red light (`app/instr_task.c`, `app/main.c`) | `IDBlinkOn`, task handle, the light | `id_blink`, `vIDBlinkerTask`, `vLEDTask1` | commands start and delete it | a task that returns, a flag and a handle set at different times, three users of one light. The light shows whether it is to blink |
| Start-up (`app/main.c`, `app/cdcacm.c`) | tasks, queues, `USBConfigured` | `main`, the head of each task | scheduler, host | a task waits on a queue that another task creates |
| Console output (`app/syscalls.c`, `app/printf-stdarg.c`) | ring buffer, endpoint 0x82 | `_write`, `enq`, `sendPacket` | the shell's echo, interrupted by `myprintf` of others; host collects | ring arithmetic at full, a writer coming in between two accesses. Characters come out in order, packets lie in the buffer |
| Heap (`app/syscalls.c`) | `heap_ptr` | `_sbrk`, `_sbrk_r` | shell's `malloc`, task creation | unprotected pointer. No byte is handed out twice |
| Console input, shell (`app/cdcacm.c`, `app/syscalls.c`, `app/debug_shell.c`) | `UARTinQ`, line buffer, argument vector, auxiliary outputs | receive callback, `_read`, `cmd_term_get`, `cmdParse` | USB task to shell | stale buffer, overflow, quoting, counter below zero. The command run is the one typed |
| EEPROM driver (`app/eeprom9366.c`) | chip select, `writeEnabled`, the chip | `read`, `write`, `erase`, `eraseAll` | both tasks | bit stream shared by two callers, fixed sleeps, cached flag. It is a memory |
| Identity and configuration (`app/cdcacm.c`, `AttenSwitch.pm`, `perl/test/*`) | EEPROM contents, identity in RAM | `readEEprom`, `setupUSB`, the buttons of `AttenSwitchTool`, `readEEStrings` | tools write byte by byte over the link; the shell's `eraseee` and `testee` at any time | power or tool lost between bytes; a shell that erases in between; two layouts that must agree |
| Measuring clock (`app/hiresTimer.c`) | `upperWord`, `lastReading` | `hiresTimer_getTime` | shell and kernel read it | shared `lastReading`, wrap of the counter |
| Stacklight daemon (`perl/stacklightd/stacklightd`) | file, event queue, `currentColor`, light | `_start`, `file_created`, `file_deleted` | inotify, the light | events read late, changes before the watch, light off the bus. The light shows the file |
| Formatted output (`app/printf-stdarg.c`) | - | `print`, `printi`, `prints` | shell commands | extreme numbers, buffer size |
| Packet checksum, USB descriptors, fault handlers, `ring_buf.c`, GUI, kernel and libraries, build | | | | not modelled, see section 8 |

## 2. The modules

Each detailed module has one action per step at which another actor can get in between; its comments name
the function each action is. `MC*` modules hold the constants of the runs and nothing else.

| Module | Models | State and actions against the code |
|---|---|---|
| `SpdtDrive` | drive, supply, turn-off timer, two callers, boot polarity, reboot | one action per access to a pin, to `hvState` or to the timer: `HvCheck` is bsp.c:72, `HvPower`, `HvWarmUp`, `HvMark`, `HvReset` are lines 73-77; `Enable`, `ClearOpposite`, `SetCoil`, `Pulse`, `IdleCoil`, `Disable` are the statements of `s1_j1sel` and `s2_j1sel`, in the different orders these have. `pc[t]` is the statement a task is at, `delay[t]` what is left of its `vTaskDelay`, `lag[t]` how long it has been ready and not run |
| `RelayBoard` | `SpdtDrive` composed with external hardware | a coil that is powered for `Throw` ticks latches its relay; `alone[t]` remembers whether another call overlapped |
| `Commands` | packets, commands and the reply due to each | `pkttype_t`, `copyPacket`, the dispatcher's switch |
| `CommandService` | what `send_packet` promises | abstract: ask, perform, answer, one at a time |
| `Blinker` | the red light and the ID blinker | `id_blink` in the three parts that a 100 ms delay and a `vTaskDelete` make of it, `vIDBlinkerTask` with the return of its function and what the kernel may do then, `vLEDTask1` as far as the red light goes |
| `CommandLink` | host, endpoints, interrupt, USB task, queue, instrument task, blinker | `otg_fs_isr`, `TakeSemaphore`, `PollIn`/`PollOut`, `EnableIrq` are one turn of the USB task; `ReadPacket`, `Execute`, `WritePacket`/`EndpointBusy` one of the instrument task, with `id_blinkOff`, `id_blinkEnd` around the delay of `id_blink(0)` |
| `Startup` | tasks from `vTaskStartScheduler` to their loops | `Program` is what each task does before it waits for good; `ready` is the kernel's list of ready tasks, `Preempt` the tick, `Yield` the loops on `USBConfigured`, `Assert` the `configASSERT` of a wait on a queue that is not there |
| `Device` | `Startup`, then `CommandLink` | the link runs once every task waits |
| `Console` | `_write` and its ring, with two kinds of writers | `myprintf` is one step per character, for interrupts are off; the echo (`Echo`, and the accesses that follow it) is one step per access to `wPtr`, `size`, `buffer` and the endpoint, in any order of stores; characters carry their ordinal |
| `Heap` | `_sbrk` | `SbrkLoad`, `SbrkStore` for the shell, which can be interrupted between them; `pvPortMalloc` for task creation, which suspends the scheduler |
| `Syscalls` | `Console` and `Heap` together | the shell is in one of them at a time |
| `Tokenizer`, `Shell` | the receive queue, line editor, tokenizer, dispatch, the results of all commands, the auxiliary outputs | `Turn` is one turn of the loop of `cmdParse` on an array of characters; `Words` is what the line should be cut into; `Dispatch` and `Run` are the tables and what a command returns and sets |
| `EepromCells`, `EepromStore` | the memory that the driver offers | abstract: invoke, perform, return |
| `Eeprom9366` | driver and chip, two callers | one action per access to the chip select, per byte and per delay |
| `EeMap`, `EeConfig` | layout, tools, boot | `readEEprom`, `readEEStrings`, `writeEEStrings` as operators on cells; a job of a tool is a list of calls of the driver (`DriverCall`) that can stop after any of them; a command of the shell is another list, whose calls come between those of the job (`ShellCall`) or overlap with them (`Overlap`) |
| `HiresTimer` | `hiresTimer_getTime` and `tics2us` in the command `timer`, kernel as second reader | one action per access to shared state |
| `Stacklight` | daemon, file, light | `Unlink` and `Monitor` are the two halves of `_start`; `file_created` and `file_deleted` are each followed by `Notify`, for connecting takes time |
| `Printf` | one conversion | `printi`, `prints` as operators; `Quotients` is the loop that divides, `Digits` the digits it leaves |

Composition: `RelayBoard` extends `SpdtDrive`; `CommandLink` extends `Blinker`; `Device` extends `CommandLink` and
`Startup`; `Syscalls` extends `Console` and `Heap`. `CommandLink` implements `CommandService` and `Eeprom9366` implements
`EepromStore` by `INSTANCE ... WITH`. `Eeprom9366` and `EeMap` share `EepromCells`, so that the memory the tools rely on is
the one the driver is shown to be. Proof modules (`*Proofs`) extend the module they are about and `TLAPS`:
`RelayBoardProofs` is about `SpdtDrive` and `RelayBoard`, `SyscallsProofs` about `Console`, `Heap` and their composition, `DeviceProofs` about `CommandLink`, `Startup` and theirs,
`Eeprom9366Proofs` about the driver and the store it implements, `EeConfigProofs` about `EeMap` and `EeConfig`,
`TextProofs` about `Printf` and `Shell` with its `Tokenizer`.

## 3. The runs

| Run | Module | States | What it shows |
|---|---|---|---|
| `SpdtBoth` | `SpdtDrive` | 333k | Both callers, all commands, reboots, every polarity: no coil or driver stays on outside a call (`NoCoilLeftOn`), the supply is on only under a running timer or a call about to start it (`HvAlwaysTimed`), the timer cannot expire inside a pulse begun after `xTimerReset` (`TimerSparesPulse`), every call returns (`CallsReturn`), and the supply goes off for good once callers stop (`SupplyGoesOff`) |
| `BoardBoth` | `RelayBoard` | 1.9M | With the hardware: a relay moves only to a position some call in progress asks for (`RelayMovesOnRequest`); a select that overlapped no other call and returns with the supply on has thrown its relay (`PoweredSelectThrowsRelay`) |
| `SelectRace` | `RelayBoard` | violated | *Finding 1.* `SelectThrowsRelay`, without those two conditions, fails for a single caller |
| `LinkServes` | `Device` | 481k | No task waits on a queue that is not there (`NobodyAsserts`), and all come up once the host has configured the device (`StartsUp`). Until a host process dies inside `send_packet` the link implements `CommandService` (`LinkServes`: each request performed once, answered with its own reply, and eventually). Whatever dies: no wake-up is lost (`NoLostWakeup`), commands run at most once and in order (`OnceInOrder`), after the last process the device comes to rest (`DeviceComesToRest`), flag, handle and blinker task agree (`BlinkerOwned`), and the red light blinks for ever or stays dark, as the last command said, whoever else touched it (`LightShowsBlinking`) |
| `StaleReply` | `Device` | violated | *Finding 2.* After a death, `ReplyAnswersRequest` fails |
| `ConsoleRing` | `Syscalls` | 3.4M | However the echo and `myprintf` mix, a packet lies inside the buffer (`PacketInsideBuffer`); unless they mixed, what is sent is the newest characters in order (`SendsNewest`) and, unless they mixed or the ring filled up, every character written has been handed over or is still in the ring (`NothingLost`). Blocks lie in the heap (`BlocksInHeap`) and are disjoint unless a task creation fell into the shell's `malloc` (`BlocksDisjoint`) |
| `ShellLines` | `Shell` | 3.6M | What is parsed is the line as edited, up to a NUL in it, whatever the buffer held before (`ParsesTheLine`); it is cut into its words, and result and auxiliary outputs are those of the command its first word names, for lines of any length up to and beyond what the parser takes (`CutsIntoWords`) |
| `EepromShared` | `Eeprom9366` | 125k | Until two calls overlap, driver and chip are one memory for both tasks and every call returns (`ImplementsStore`); even if they overlap, the chip is deselected at rest (`DeselectedAtRest`) |
| `EeJobs` | `EeConfig` | 4.9M | `setupUSB` on a device without MAGIC is all or nothing, after whichever byte it stops and whatever the shell does before and after it (`SetupIsAllOrNothing`); strings that a job wrote undisturbed are what host and device read, and other buttons leave them alone, until the shell programs a cell (`StringsReadBack`) |
| `HiresReads` | `HiresTimer` | 383k | A measurement without a wrap of the counter is exact, wherever the kernel's readings fall and though they send it into the rollover branch (`MeasuresElapsedTime`); what the command shows is right in microseconds without a wrap and never too much with one (`ShowsNoMore`) |
| `StackSettles` | `Stacklight` | 8.9k | With all events dealt with, the light shows the file, or is dark because it was off the bus since the last notification that reached it, or because the start-up missed a write (`SettledShowsFile`); a removed file ends in darkness (`RemovalExtinguishes`) |
| `PrintfWords` | `Printf` | 43k | Every 8-bit word in every format reads back as the number meant, sign first (`NumberReadsBack`), fills its field (`FillsField`), and fits `print_buf` (`BufferSuffices`) |

Each state machine also has one type invariant, checked by its run or, for `RelayBoard` and `Stacklight`, proved
(`BoardTypeCorrect`, `StackTypeCorrect`). `SelectRace`, `BoardBoth`, `ConsoleRing`, `EeJobs`, `HiresReads`, `ShellLines`,
`PrintfWords` and `StaleReply` check safety only and use the specification without fairness.

### Bounds, and why they are enough

Every bound is a constant in a `.cfg` or a definition in an `MC` module.

- *Times* (`SpdtBoth`, `BoardBoth`, `SelectRace`). The code waits 30, 40 and 5000 ticks (60 ms, 80 ms, 10 s);
  the runs wait 1 or 2, 1 or 2, and 5 to 9. What matters is the order of expiries. `MaxLag`, the ticks a
  ready task may be kept waiting between two steps, is 1 where the race between the timer and a waiting task
  is the subject; it is 0 in `BoardBoth`, where two callers and the hardware are. The proofs lift this: they
  hold for all times with `HVTimeout > PulseTime + 6 * MaxLag`, which the real constants satisfy up to a lag
  of 826 ticks (1.6 s). `PowerUp <= WarmUp` and `Throw <= PulseTime` are the code's own timing claims.
  `SpdtBoth` lets the USB caller use switch 1 and the shell both, so that the same relay and different
  relays overlap; `BoardBoth` lets both use both.
- *Start-up* (`Slice`). The tick is 2 ms, over 100 000 instructions; `Slice`, the number of statements (creations,
  waits, yields) that fit into one at least, is 3 in the runs, the least for which the claim is true: the timer task's
  wait and the creation of the two queues. The proof holds for every `Slice >= 3`.
- *Requests* (`LinkServes`: 5, `StaleReply`: 4). The queue holds two packets (its real size), so five let the
  queue overflow, which takes hosts that die one after another, and one more exchange follow. `Attempts` is
  2 (3 in `StaleReply`) instead of 10; each attempt is alike. The four commands are one for each way to reply and the two of the
  blinker. Order, one-at-a-time service and type correctness are also proved, for every bound.
- *Console ring* 3 instead of 64, with writes of one or two characters, and 5 characters: the size wraps, and every pair of
  accesses can be separated. The proofs hold for every size and every set of lengths (three echo a backspace).
- *Heap.* Eight bytes, blocks of 3 and 6, alignment 2: it fills, and refuses a large block where a small one fits. It begins at 3, which is not
  aligned, for the linker script aligns `__heap_start` to 4 (`app/standalone.ld:106-111`) and `_sbrk_r` only what it hands out
  later, to 8. The proofs hold for all.
- *Shell.* Lines of 9 instead of 1024, queue 2 instead of 256, seven characters out of a letter, a command's name, a digit,
  blank, quote, carriage return and backspace: enough to fill a line, to overflow the queue, to edit on an empty line
  and to have a quoted and two plain words. `COMMAND_SIZE` is 5 instead of 127, so that lines of just that length, which
  lose their last character, and longer ones, which lose nothing, occur. The letter is `h`, a command of its own, so that
  unknown, help and known commands all occur, and `aux` with its numbers. The counter below zero is 2^6 - 1. What reaches the
  parser is proved for all sizes and all packets, those with a NUL included; no key of the run is one.
- *EEPROM driver.* Two cells and an address that wraps; two byte values; each call once for one task or the
  other. `SelectLow` is 0 because `delayms(1)` is 0 ticks; `WriteTime` and `ChipTime` are 2 each: the chip may
  take as long as the driver waits.
- *Configuration.* 25 cells, strings from cell 22 on (0x30 in the code): of three cells the longest strings need exactly
  three, so both sides of the off-by-one at the end (`validStr`) occur. Two jobs of the tools (`MaxJobs`), so that one can follow
  another that was cut short or completed, and one command of the shell (`MaxCommands`), before, between or over their
  calls. `Garbled`, what two overlapping calls may leave in the memory, is the worst for what is claimed: MAGIC over
  erased cells. The proofs hold for any number of jobs and commands, and any such memories.
- *Clock.* A counter of 6 ticks at 2 per microsecond, two wraps. The proofs hold for every size and rate.
- *Stacklight.* Five changes and two absences of the light; the daemon's queue of events is bounded by the
  changes. The proofs hold for any number of both and for all requests.
- *Printf.* Words of 8 bits with a buffer of 5 bytes, which stands to them as 12 bytes to 32 bits: sign,
  digits and NUL, which "-2147483648" fills to the last byte. Widths from none to wider than any number. The proofs hold for every word
  size that the buffer was made for, and every width.

`CHECK_DEADLOCK FALSE` is set where the system rightly stops: `ConsoleRing`, `LinkServes`, `StaleReply`,
`ShellLines` and `StackSettles` when their bound on characters, requests, packets or changes is used up,
`PrintfWords` after its one conversion. In the other runs a deadlock would be an error.

### Fairness, and why the code justifies it

- `SpdtDrive`: weak fairness of each task's step (tasks of equal priority are time-sliced,
  `configUSE_PREEMPTION`), of the boot sequence and of the tick interrupt. Nothing makes anyone call.
- `Device`: weak fairness of the start-up (the scheduler always runs some task) and of the host configuring the device,
  without which nothing but the LED happens. Then weak fairness of the interrupt, and of the USB, instrument, LED and
  blinker tasks, which the kernel time-slices. Strong fairness of `PollOut`: a poll finds the OUT endpoint or an ended
  IN transfer, and `usbd_poll` takes them in the order the controller reports them, which does not pass over the same
  packet for ever. Weak fairness of `bulk_write` and `bulk_read`: a host inside `send_packet` goes on, or dies. No fairness
  for `connect` or a call.
- `Eeprom9366`: weak fairness of each task's step and of the tick.
- `Stacklight`: weak fairness of the daemon. None for programs, or for the light's return.

## 4. What is proved

| Theorem | Module | Property | For |
|---|---|---|---|
| `Inductive`, `TypeCorrect`, `NoCoilIsLeftOn`, `HvIsAlwaysTimed`, `TimerSparesEveryPulse` | `RelayBoardProofs` | `TypeOK`, `NoCoilLeftOn`, `HvAlwaysTimed`, `TimerSparesPulse` | all callers, targets, commands, timings |
| `BoardIsDrive`, `BoardTypeCorrect`, `RelaysMoveOnRequest`, `LoneSelectionThrows` | `RelayBoardProofs` | `BoardTypeOK`, `RelayMovesOnRequest`, `PoweredSelectThrowsRelay` | the same and any hardware timing |
| `LinkTypeCorrect`, `NoWakeupIsLost`, `BlinkerIsOwned`, `LinkPerformsInOrder`, `LinkImplementsService` | `DeviceProofs` | `TypeOK`, `NoLostWakeup`, `BlinkerOwned`, `OnceInOrder`, the safety half of `LinkServes` | all commands, queue lengths, retries, requests |
| `DeviceIsLink`, `DeviceKeepsLink`, `StartupInductive`, `NobodyEverAsserts` | `DeviceProofs` | `NobodyAsserts`, and all of the row above for the device that is model-checked | all `Slice >= 3` |
| `ConsoleInductive`, `ConsoleTypeCorrect`, `ConsolePacketInsideBuffer`, `ConsoleSendsNewest`, `ConsoleLosesNothing` | `SyscallsProofs` | `TypeOK`, `PacketInsideBuffer`, `SendsNewest`, `NothingLost` | all ring sizes and write lengths |
| `HeapInductive`, `HeapBlocksInHeap`, `HeapBlocksDisjoint`, `SyscallsConsole` | `SyscallsProofs` | `BlocksInHeap`, `BlocksDisjoint`, and the console's properties beside the heap | all heaps, aligned or not, and block sizes |
| `EepromTypeCorrect`, `ChipIsDeselectedAtRest`, `EepromImplementsStore` | `Eeprom9366Proofs` | `TypeOK`, `DeselectedAtRest`, the safety half of `ImplementsStore` | one or both callers, all calls, memory sizes and delays, the chip no slower than the driver's sleep |
| `ConfigTypeCorrect`, `SetupNeverHalf`, `StringsKeep` | `EeConfigProofs` | `TypeOK`, `SetupIsAllOrNothing`, `StringsReadBack` | all jobs that fit, any number of them and of shell commands, all layouts with strings behind the fields |
| `TimerTypeCorrect`, `MeasurementIsExact`, `MeasurementShowsNoMore` | `HiresTimerProofs` | `TypeOK`, `MeasuresElapsedTime`, `ShowsNoMore` | all counter sizes and rates |
| `StackInductive`, `SettledLightShowsFile`, `StackTypeCorrect` | `StacklightProofs` | `TypeOK`, `SettledShowsFile` | all requests, changes and restarts |
| `PrintReadsBack`, `PrintFillsField`, `PrintBufferSuffices` | `TextProofs` | `NumberReadsBack`, `FillsField`, `BufferSuffices` | all words, word sizes, widths and flags |
| `ShellTypeCorrect`, `ShellParsesTheLine`, `ShellCutsIntoWords` | `TextProofs` | `TypeOK`, `ParsesTheLine`, `CutsIntoWords` | all packets, line, queue and command sizes |

Assumptions are the named `ASSUME`s of the modules: ranges of the constants, and for the drive
`TimeoutAssumption` (`HVTimeout > PulseTime + 6 * MaxLag`), without which the timer really can cut a pulse, for
the relays `HardwareAssumption` (the supply comes up within the warm-up, a relay latches within the pulse), for the
start-up `SliceAssumption`, and for the EEPROM `ChipTimeAssumption` (the chip is done within the driver's sleep). For the
configuration, `MapAssumption` places the strings behind the fields and the cells that `eeprom9366_test` programs, as 0x30 does, and `JobsAssumption` says that every job
`Fits`: strings shorter than the device's buffers, all of them within the EEPROM, and for `setupUSB` a VID and PID of 16
bits other than 0; of `Garbled` it says only that these are memories. Neither tools nor device check that, so a job that does not fit is outside what is claimed here
(section 8). For the formatter, `BufferAssumption` says that `print_buf` without sign and NUL takes the decimal digits of
every word, as its 12 bytes do: 10^10 is more than 2^32. `ShellAssumption` takes packets for sequences of characters,
of any length and with any characters in them.

- **Drive.** `IndInv` is `TypeOK`, `CallsInOrder` (commands only after configuration, a task past `xTimerReset`
  has a switch, tasks sleep only in the two delays), `NoCoilLeftOn`, `HvAlwaysTimed` and `TimerBudget`.
  `TimerSparesPulse` is not inductive: a timer at 1 with a pulse still ahead satisfies it and breaks it in one
  tick. `TimerBudget` says, for each statement after `xTimerReset`, that the timer has left what the task may
  still need: its remaining steps, each `MaxLag` late, and the rest of the pulse. Each step uses up one item,
  each tick one unit on both sides. There is one lemma per conjunct and in it one case per action.
  `NoCoilLeftOn` needs `TypeOK'` for the coils that `ReadPolarity` sets, and boot order, for a polarity that
  changed during a call would strand a coil.
- **Board.** Every step of `BoardSpec` is a step of `Spec` or leaves its variables alone, so `NoCoilLeftOn`
  carries over. A relay moves only if its coil was active, and an active coil belongs to a call that asked
  for it. That a lone selection throws its relay (`LoneSelectionThrows`) rests on `PowerInv`: who is alone is alone
  (`AloneIsAlone`), so that between its steps only ticks occur; a supply that is on and not up has a task in its warm-up
  with enough delay left (`WarmUpPending`), which a task that is alone and past it is not, so its coil has supply;
  drivers and coil stay as it set them (`Gated`, `Driven`); and what the coil has gathered and the rest of the pulse
  together suffice (`Throwing`), by the same bookkeeping as `TimerBudget`.
- **Link.** Interrupt, semaphore and USB task pass one token round: `NoLostWakeup` states where it is, and is
  inductive together with `TypeOK`. `BlinkerOwned` needs `AskedToEnd`, what holds inside `id_blink(0)`. For `OnceInOrder`,
  `InOrder` says that ids increase from the command performed last through the queue and the endpoint to the request
  about to be written; a packet the queue drops leaves a gap only. For the refinement, `OneRequest` says where
  the one request is as long as nobody died (endpoint, queue, in work, being answered, answered), and each step maps to
  a step of `CommandService` or a stutter.
- **Start-up.** `QueuesFirst`: before both queues exist only the timer task and then the USB task have run, and what they
  did is counted in the first tick. After that, what a task is about to wait on exists (`AwaitedExists`).
- **Console.** `IndInv` is `Shape` (since `sendPacket` resets both pointers the ring never turns, and since `size` wraps it is
  never full), `Phases` (what the histories say of where the echo is) and `Ordered`: while the writers have not mixed
  the ring is `Clean` between calls, and inside the echo it is half way between two clean rings, by the stores made.
  `ConsoleLosesNothing` counts beside that: each store of a clean ring that does not fill it adds one character to what it
  holds, and each packet takes off what it carries.
- **Heap.** While the shell is between its load and its store another task can only have raised `heap_ptr` (`Holding`), so
  that all handed out lies below it (`Below`) until the calls really overlapped; even then ends are checked against
  values that lie in the heap. Alignment comes from `AlignUp` alone, so that a block at the very start of the heap is excepted.
- **EEPROM driver.** Types need `Bytewise`: what the chip holds is a sequence of bytes, each of some command. `DeselectedAtRest` rests on `Attended`: the chip is selected, or holds bytes, only for a task that is sending.
  For the refinement, `Orderly` says of the one task inside the driver, at each point of a call, which commands the chip has
  carried out, what it holds of the current one, and whether it is still busy; that a programming time has passed when
  the sleep has (`ChipTimeAssumption`); and `Lone`, that all of this holds until two calls overlap. Bytes and ticks map to
  stutters, the end of the call's last command (for a read, its last byte) to `StPerform`.
- **Configuration.** `Apart`: no job writes a cell twice, and none outside the EEPROM; so the calls a job has made are found
  in the memory, whatever was there before (`Found`). That is the lemma for each of the four jobs which the layout needs,
  for strings of any length. `IInv` then says: what is left to do is an end of the job's calls (`Pending`), what was done is
  in memory (`InProgress`), a setup on a device without MAGIC leaves it without until its last write (`Unmarked`) and is
  complete after it (`Settled`), and the strings known to be written are those of a complete job that no other has touched
  (`Kept`), for the other buttons write cells apart from theirs. All of it is said of a job that the shell has not come into
  (`meddled`); a chip that overlapping calls have left deaf is one (`Hears`). The shell's calls after a job leave a setup
  complete, or without MAGIC (`ShellSpares`). What `readEEprom` and `readEEStrings` make of such a memory
  are lemmas about the operators of `EeMap`.
- **Clock.** While the command is inside `hiresTimer_getTime` it holds the counter of the moment it read it,
  and the upper word it returns is 0: the strengthening says so, for this code, while the properties do not. `ShowsNoMore` follows from
  `MeasuredStep` and the monotony of the division in `tics2us`.
- **Stacklight.** `StackInv`: the last event outstanding says whether there is a file (`LastTells`), and with none
  outstanding what is lit, or about to be sent, is right (`LastShows`).

- **Formatter.** `Printed`: what is written is what `printi` makes of the word and the format. The rest is about operators,
  which `Quotients` and `ReadBack` define by recursion. `QuotientsEnd` counts: after n divisions less than WordSize / 10^n is
  left, so that the divisions end within `print_buf` (`DivisionsAre`). `ReadBackIs`: reading digit by digit meets the
  quotients again, last to first, for `v = (v / b) * b + v % b`, so that a text of the digits of u, with any blanks and signs
  around and zeros before them, is read as u. `TextIsLaid` says that the text is laid out so, in each of the ways that
  sign, padding and width allow; the flags - and 0 together put zeros behind the number, and are excepted.
- **Shell.** `IndInv` adds to `TypeOK` that `edited`, the history of the keys that count, is what stands at the start of
  the buffer, as long as the count is not below zero (`Holds`), and that `j` and `len` agree with it. That is not enough
  for the step in which the parser runs: it changes the line, so the tokenizer must be shown to keep the buffer's
  size, its characters and its last NUL for any line (`TurnIn`, `TurnsAre`, `TokenizedIs`), for the next line is edited in it.
  `CutsIntoWords` compares two ways to find words: a loop that marks their ends, and `Words`, which counts quotes. Where only
  the first word may be quoted, there are no quotes or just two, around that word (`QuotesAre`). `Loop` holds before every
  turn: `Stands` says where the loop is (between words, or in one that began at `argstart`) and that the line from there on is untouched, `Cut` that the words found so far
  are those that begin before that place, in order, each with a NUL behind it. One lemma
  per kind of turn keeps it (`BlankTurn`, `OtherTurn`, `QuotedTurn`): the turn ends a word (`CutGrows`) or none (`CutStays`). The order
  of `Words` is a matter of counting: whatever enumerates a set of numbers upwards is its `Nth` (`NthIs`). After the
  last turn `Finish` ends the word that the line ends in, and each argument reads as its word (`CutReads`, `CutsAre`).
- **Recursive functions.** The library's induction theorems take a predicate as a parameter, which the provers here cannot
  instantiate. `TextProofs` therefore derives induction for a *set* of numbers from the well-foundedness of `<`: a set of
  numbers that is not empty has a least one (`Least`), so a set with 0 and all successors up to n has all (`UpTo`), and
  a function that is defined by steps exists (`Recursion`). Lemmas on `Quotients`, `Decimals`, `ReadBack` and `Turns`
  name such a set.

### Only model-checked

- Liveness (`SupplyGoesOff`, `CallsReturn`, `StartsUp`, `DeviceComesToRest`, `LightShowsBlinking`, `RemovalExtinguishes`, the
  liveness halves of `LinkServes` and `ImplementsStore`): fairness, `ENABLED` and leads-to are beyond the prover here.
- The two findings, which are violations.

## 5. Findings

1. **A select without supply** (`SelectRace`, `app/bsp.c:72`). `hvOn` tests `hvState`, and restarts the turn-off
   timer only afterwards. If the timer expires in between, its callback turns the supply off, `hvOn` returns as
   if it were on, `s1_j1sel` pulses a relay with no supply, and the command is acknowledged. "If on==1, select
   J1-Common, else select J2-Common" (`app/spdt.c:52`) does not hold. It takes one caller and a tick at that
   place, ten seconds after the previous select.
2. **A stale reply** (`StaleReply`, `perl/AttenSwitch.pm:389`). Packets carry no sequence number and neither `connect` nor
   `send_packet` empties the IN endpoint. If a process dies between `bulk_write` and `bulk_read`, or times out,
   the next `connect` takes the old response for its identity, against "the device identity is queried, and this
   object reflects that info" (`perl/AttenSwitch.pm:131`), and every exchange that follows may stay one behind.

Departures met while modelling, reproduced in the modules as the code has them, without a run of their own:

- `app/spdt.c:82`: the first of two overlapping selects to end clears SWEnable and cuts the other's pulse short.
  Hence `alone` in `PoweredSelectThrowsRelay`.
- `app/bsp.c:79`: `hv 0` leaves the timer running; the old period can end in the warm-up of the next `hv 1`,
  which then returns with `hvState` set and the supply off.
- `app/syscalls.c:147`: `size` is reduced modulo the buffer size, so a full ring counts as empty and 64 characters
  are forgotten, against "Did we just fill a packet??" and "We wrote it all" (`app/syscalls.c:183`, `194`); the wait for room
  is never entered. Hence `filled` in `NothingLost`.
- `app/eeprom9366.c:28`: two overlapping calls mix their bytes; an enable command lost so leaves `writeEnabled` set
  and every later write ignored until a reset.
- `perl/AttenSwitch.pm:751`: `validStr` refuses a string that ends in the last cell, which the device accepts.
- `perl/test/AttenSwitchTool:478`: MAGIC is written over lengths that may still be erased (255); the device then
  copies 255 bytes into buffers of 24 and 64. Hence `fresh` in `SetupIsAllOrNothing`, which is of a device without MAGIC.
- `app/command.c:134`, `144`: the shell tests or erases the EEPROM in the middle of a tool's writes, for nothing serialises
  them: `setupUSB` then writes MAGIC over fields that were erased, and strings are not read back. Hence `meddled` in
  `SetupIsAllOrNothing` and in the history behind `StringsReadBack`, which both hold for what the shell does before and
  after a job.
- `perl/AttenSwitch.pm:833`: a second polarity of 0 is taken for a missing one.
- `perl/test/setupUSB:34`: the option `-s2` sets `$s1`: both polarities may differ from those asked for. Hence `Outcomes`, which
  claims nothing of the polarities of such a job.
- `app/debug_shell.c:43`: a backspace on an empty line takes the count below zero. `ParsesTheLine` excepts the line.
- `app/debug_shell.c:391`: two characters are cut off a line that filled the buffer, though it has no carriage return to lose.
- `app/debug_shell.c:146`: the search for a closing quote measures the line again after NULs were put into it, so
  only the first word can be quoted. Hence `FirstWordQuoted` in `CutsIntoWords`.
- `app/hiresTimer.c:38`: the value before the addition is stored back, so that the upper word never advances, against
  "Rollover?" (`app/hiresTimer.c:36`), and a measurement with a wrap in it is a counter's period too short.
  `MeasuresElapsedTime` is of the others.
- `perl/stacklightd/stacklightd:95`: a notification that finds no light is not sent again.
- `app/instr_task.c:163`: the task function of the blinker returns, which FreeRTOS forbids. Whether the kernel's
  assertion then lights the red light or it spins silently depends on its configuration: both are in `BlinkReturn`. As
  `id_blink(0)` deletes the task 100 ms later and the LED task darkens the light, `LightShowsBlinking` holds all the same.
- `app/syscalls.c:142`: an echo interrupted by `myprintf` of another task can store a stale `size` or `wPtr` and so repeat, lose or
  mix characters. They stay inside the buffer (`PacketInsideBuffer`); hence `mixed` in `SendsNewest`.
- `app/syscalls.c:38`: `_sbrk` of the shell is not protected against task creation by the instrument task. Hence `overlapped` in
  `BlocksDisjoint`.
- `app/debug_shell.c`: a line of `COMMAND_SIZE` characters loses the last. `CutsIntoWords` says so.

## 6. Abstractions

- *Packets* carry a number that no action looks at. Versions, lengths and checksums are left out: neither side
  looks at them. `readPacket`'s branch for an empty packet is unreachable.
- *`writePacket`* retries with `delayms(1)` in between, which is 0 ticks; the attempts follow each other without a tick.
- *Calls that overlap* in the EEPROM driver are one step in `EeConfig` (`Overlap`), which may leave any memory of `Garbled` and a
  chip that has lost its write-enable latch while the driver takes it for set (`deaf`); what can come of them byte by byte is in `Eeprom9366`.
- *One tool at a time*: a tool claims the command interface when it connects (`perl/AttenSwitch.pm:328`), and lets go
  of it when it ends.
- *`Notify`* is one step: that the light leaves the bus between `connect` and the transfer is left out (section 8).
- *`spi_xfer`* is one step. Two calls that interleave inside it would mix bits rather than bytes; `ChipMisreads`
  already lets the chip make anything of a mixed command.
- *Buffer overruns* (EEPROM strings, the byte before the shell's buffer) are recorded or left without effect; what
  they destroy is not modelled. The byte behind the shell's buffer is taken to be NUL.
- *An empty line* makes `cmdParse` call `strlen(NULL)`, which on this part reads the first word of the vector table, whose
  low byte is 0.
- *Commands.* What `r8` .. `w32`, `stack`, `tasks`, `heap` and `i` print or poke is left out; their result is not. A command's name
  is one character.
- *Task creation* succeeds. A task that spins after its function returned takes its time slice and nothing else.
- *`writeEE`* ignores what `send_packet` returns (`perl/AttenSwitch.pm:559`). The device acknowledges every write, and without
  a response `from_bytes` dies, so that a write that fails is a tool that dies (`ToolDies`).
- *The host* needs longer from configuring the device to its first request than the tasks need to get to their loops.
- *The C library's free lists* above `_sbrk` are external; blocks are what `_sbrk` hands out.
- *The default serial number* comes from the chip's unique id in the code and is a constant here.
- *The light* shows the last notification it was sent (`perl/AttenSwitch.pm:478`); its own firmware is not in the
  repository.
- *Reboot* is one step; `main` before the scheduler is the `Init` of the modules.
- *LEDs* D4 and D6 are kept as one variable `leds`; the panel LEDs `spdt_set` also lights are left out.

## 7. Plan

Order of work, the most important behaviour first. Done: 1 to 11.

1. `SpdtDrive`, then `RelayBoard`: what the device is for, and where its tasks and timer meet. Proved.
2. `Commands`, `CommandService`, `CommandLink`, then `Blinker`: the way every command takes. Safety proved.
3. `Eeprom9366` against `EepromStore`; `EeMap`, `EeConfig` on top of it, with the shell's erase and test of the EEPROM in their midst. Safety proved.
4. `Console` with both its writers, `Heap`, `Syscalls`. Proved.
5. `Tokenizer`, `Shell` with all its commands. Proved. 6. `HiresTimer`. Proved. 7. `Stacklight` with its start-up. Safety proved.
8. `Printf`. Proved. 9. `Startup`, `Device`: the tasks come up. Safety proved.
10. The safety half of the refinement of `CommandService`; `OnceInOrder`; `PoweredSelectThrowsRelay`.
11. The driver as a memory; `SetupIsAllOrNothing`, `StringsReadBack`, for all jobs that fit.
12. To extend: strings that together exceed 512 cells; the bound of 32 words of `cmdParse` (`app/debug_shell.c:179`), which needs lines too long for TLC unless it becomes a
    constant; literal text, `%s` and `%c` of the formatter; the checksum, as a lemma about `FLETCH`.

## 8. Not modelled

- *Packet checksum*: computed in two different ways by the two sides, verified by neither.
- *Start-up code before the scheduler*: clocks, pins and interrupt priorities, straight-line. *The green light* of the LED task
  shares nothing. The hooks of FreeRTOS hang or do nothing.
- *USB descriptors and driver glue, fault handlers, vector table, linker scripts*: tables and register set-up. `startup.c` is the table of
  vectors and the copy of `.data`; `endian.h` is macros.
- *`ring_buf.c`*: not part of the build.
- *GUI and one-shot test scripts*: widgets and single calls of the library; the writes of `AttenSwitchTool` are in `EeConfig`.
- *FreeRTOS, libopencm3*: submodules with empty directories. Their queues, timers, semaphores, time-slicing and
  endpoints are modelled where they are used, as external definitions.
- *Build files*: not part of the running system.
- *Inside modelled parts*: literal text, `%s` and `%c` of the formatter; `us2ticks`, `ns2ticks`, `tics2ms`, which nothing calls;
  failures of the USB library other than a process's death; strings longer than the device's buffers or, together, than the
  EEPROM, whose writes wrap round to the fields; a daemon that finds no
  light when it starts; the bound of 32 words.

`PROJECT.json` lists the hazards of the code, at their lines, with the properties aimed at each; those with no
property carry a note that says why.
