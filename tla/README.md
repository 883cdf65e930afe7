# TLA+ specification of Husky's Kernel

A verification project kept beside the kernel's C source. The modules model the
kernel's components at the grain at which they can go wrong; the `.cfg` files
check them with TLC on small instances; the `*Proofs` modules hold theorems that
TLAPS proves for every value of the constants. `PROJECT.json` lists the runs,
the mutants that show each property can fail, the source lines behind each
definition, the hazards and the findings.

Run `tlc -config <name>.cfg <module>` and `tlapm <module>Proofs.tla` in this
directory. Source paths below are relative to `src/src/kernel/`.

## 1. Inventory

The kernel is one sequential program: `kernel_main` initialises the terminal,
the editor and the interpreter, and runs `terminal_prompt`, which only `reboot` and
`shutdown` leave. There are no interrupts and no threads. What makes it hard to test is not scheduling but
(a) long sequences of keys that move several pieces of state that must agree,
(b) tables and arrays that run out, (c) byte and `size_t` counters at their
edges, (d) hardware that answers when it likes (keyboard, PCI, disk controller),
and (e) undefined behaviour that the build turns into something definite.

| Component | State | Operations | Interacts with |
|---|---|---|---|
| Text terminal (`kernel.c:44-126`) | `terminal_row`, `terminal_column`, the VGA cells | `terminal_initialize`, `terminal_putchar`, writers | every component prints through it; the editor assigns its cursor |
| Keyboard (`keyboard.c`, `keyboard_layouts.h`) | `current_layout`, the shift byte | `keyboard_read_key`, table lookups | polled by the prompt and the editor |
| Command line (`kernel.c:156-202, 469-500`, `system.c:134-202`) | `command`, `buffer_index`, `args`, `saved_token` | `terminal_input`, `split_command`, `strtok` | terminal (echo), keyboard, prompt |
| Editor (`kernel.c:272-411`) | `editor` (text, position, cursor, active), `ctrl`, shift | `editor_handle_input` | terminal, keyboard, `execute_buffer` |
| Prompt (`kernel.c:482-599`) | where it is | the commands help, cl, getkey, edit, run, lsdisks, reboot, shutdown | all of the above |
| Execution (`kernel.c:414-467`, `microshell.c`) | `editor_buffer`, interpreter context | `execute_buffer`, `msh_execute` | heap, terminal, keyboard |
| Heap (`system.c:6-8, 46-49, 100-105, 322-370`) | `heap_index`, `mappings` | `malloc`, `free`, `mmap`, `munmap` | PCI list, disk list, interpreter strings |
| Pages (`system.c:10-35`) | `page_bitmap` | `alloc_page`, `free_page` | no caller yet |
| PCI (`pci.c`) | the device list | `pci_enumerate_devices` | heap, hardware |
| Disk listing (`kernel.c:216-270, 567-575`, `disk.c:23-46`) | the two lists | `get_hba_port`, `check_type`, `get_ahci_devices` | heap, PCI |
| AHCI port (`disk.c:85-266`) | the port's registers, command list and tables | `port_rebase`, `start_cmd`, `stop_cmd`, `read`, `find_cmdslot` | the host bus adapter, which runs concurrently |
| ACPI, time (`acpi.c`, `time.c`) | table addresses, tick counter | `initAcpi`, `acpiEnable`, `acpiPowerOff`, `sleep` | hardware |
| USB, exFAT, program table, boot | - | stubs, or never called | - |

What makes each component correct: the terminal never loses its cursor and
behaves like a ring of cells; the arguments of a command are the words the user
typed; the screen shows the line or the text being edited; the editor can be
left and leaves nothing behind; memory is handed out once; a page has one owner;
the device list holds the devices and stays in its memory; the two passes over
the list agree; a program is executed line by line, each line once, and its text
survives; every string of the interpreter is its own; the disk controller's memory is not moved under it and a read
that reports success has succeeded.

## 2. Modules and how they correspond to the code

`Screen` holds `terminal_putchar` and its parts as operators on a record
`[row, col, cells]`; `screen` is that record for the three variables and `Show`
assigns a record back. `ScreenSpec` drives the terminal with any characters.
Indices are `size_t` and wrap at `SIZE_T`; a store outside the visible page shows
nothing. `RingScreen` is the abstract promise (print, newline, erase, clear on a
ring with one position), and `Screen!ImplementsRing` the refinement with
position `row * VGA_WIDTH + column`.

`Keyboard` has no state: the keys a read may return and the characters the
layout tables make of them. Only the US and German rows of the tables are
filled; a missing designated initialiser is a zero byte, as in C.

`LineInput` (instances in `MCLineInput`) extends `Screen` and `Keyboard`: one
action per branch of `terminal_input`, one (`Split`) per `strtok` call, and the actions
of `Answer` for what `terminal_prompt` makes of the arguments. An empty line
(`AnswerEmpty`) and the commands without a module of their own (`AnswerCommand`) print and
come back to the prompt. `reboot` and `shutdown` (`PowerOff`) break out of the loop
(`halted`) or wait for a power-off that never comes (`hung`); `lsdisks` comes back, or
enumerates for ever (`hung`); `edit` opens the editor, which need not be left, and
`LeaveEditor` may find the cursor anywhere (`EditorScreens`), as the editor's redraws set
it. Which line is which command is the comparison of its first argument with
`Spelling`; the other texts are short ones too (`Banner`, `Prompt`, `Replies`). `typed`,
`home` and `plain` are history variables. A store past `command` or `args` ends the model
in `line_overrun` or `args_overrun`, since nothing is known after it; the editor's own
overrun is in `Editor`.

`Editor` has one action per branch of `editor_handle_input`, each with its
redraw; `Console` (instances in `MCConsole`) extends it with the prompt, one
action per command. A command can be given only if its letters can be typed
under the current layout. What commands print is one short text, `ExitText`.
The history variable `drawn` says that the editor has redrawn the screen since it was
opened, and that its last redraw had room for the text (`Fits`).

`Heap` and `Pages` are the two allocators. Addresses are offsets; `blocks` and
`held` are histories of what was handed out. `Memory` interleaves the two, which
share a file and their callers. `PciScan` is the enumeration, one probe per step, over
any configuration space; alone, it may find memory for its list or not. `Disks` composes
`Heap` and `PciScan` into `lsdisks`: the `malloc` of the enumeration decides whether it
scans, its probes are steps of the command, its list is the one that
`get_ahci_devices` counts and fills, and every loop iteration of the latter is a step with
its `mmap`.

`Microshell` extends `Heap` with the interpreter: one action per kind of statement,
of operand and of result. `eval_expr` calls itself for the right operand behind
every operator, so `stack` holds the calls that wait, and an expression is
evaluated from the right. A whole name or number is one token of the text; what
is blank, and where a literal or a line ends, is decided as in the code. Strings
carry the address that `malloc` returned; a null pointer is address 0, which can
be read and written, so `low` is the string that is there. The word of the union
that a type does not name is not kept, except where the code reads it (`Word`).
Every test for a letter comes before the tests for `print(`, `if `, `while `, `True`,
`False`, `inw(`, `outw(` and `input(`, so those branches are never reached, and there
are neither Booleans nor floats.

`ExecBuffer` (instance in `MCExecBuffer`) extends `Microshell` with `execute_buffer`: the
newline behind a line is a NUL while the interpreter works on the line, and is put
back when it returns. `code` is the buffer that the loop writes and the interpreter
reads. Nothing writes `editor_buffer` in this commit (`ConsoleRun`), so `run` only ever
says that there is no program, and Ctrl+R executes an empty one; the action `Fill` stands for the editor that
`execute_buffer` was written for, and puts any text there. `program`, `returned`,
`equals` and `assigned` are histories. `ProgramRun` is the abstract promise: lines are
executed in turn until one fails, each counts once, and the run ends when one
failed or none is left. `ExecBuffer!ImplementsRunner` is the refinement, under which
the interpreter's steps and the second execution of a failing line stutter.

`Ahci` has one step per register access of `port_rebase` and `read`, interleaved
with steps of the host bus adapter (HBA): FR follows FRE, CR follows ST, commands
complete or fail, the device becomes busy or ready. These steps are outside the
repository; they are the answers the driver waits for or tests for. Clearing ST
drops the outstanding commands and the error, which is what a controller does
and what `port_rebase` relies on. `tables` follows which command tables are written:
a read clears as many entries as its count needs, behind each other with the tables
of the next slots, and the firmware's tables are taken to lie like those of
`port_rebase`. The caller may call the two functions in any
order. The firmware leaves the port stopped, with no command, or running with any
commands outstanding, in both cases with a device that is not busy and without an error;
other settings of the four engine bits, and a port handed over in an error, are not
among the initial states.

`Acpi` (instance in `MCAcpi`) is what `reboot` and `shutdown` call: a step per place
searched for the pointer, per table of the RSDT, and per access to a control
block. Signatures and checksums are reduced to the outcome of their test; the
package with the sleep types is a sequence of bytes that `SleepTypes` parses as
`initAcpi` does, and `Encode` is what the firmware wrote. The globals are assigned
together, so `facp` names the table they were taken from. The firmware may enable
the two control blocks at any moment after it was asked. The ends of `Acpi`,
`halted` and `asleep`, are the two ends of `Console!PowerOff`.

Undefined behaviour is resolved as the build (gcc -O2, 32-bit, no paging)
resolves it or left nondeterministic: the prompt's `shift` is a null pointer, so
the shift state is the byte at address 0 with any initial value; the editor's
`shifted` is never set and ends up as address 0 too, so both share the variable
`shift`; release scancodes index past `scancode_to_ascii` and may give any key;
a failed `mmap` is dereferenced at address -1 and reads low memory of any
content; an uninitialised `command` holds `JUNK`.

## 3. Runs

| Run | Instance | What it shows |
|---|---|---|
| `Screen` | 3 x 2 cells, two letters | every fill of the screen; cursor stays on screen, ring refinement |
| `LineWords` | line of 6, 2 arguments | words, spaces, zero bytes, shift and corrections over successive lines: arguments are the typed words, `strtok` stays in the line, every command but `edit` and `lsdisks` comes back to the prompt, `reboot` and `shutdown` never do |
| `LineEcho` | screen 2 x 2, line of 3 | while the echo keeps to one run of cells it matches the line and nothing before the line changes, with earlier output and every cursor of the editor around it, and control characters echoed under the Russian layout |
| `Memory` | heap of 7 bytes, 3 mappings; 3 pages of 4 bytes, 4 clients, 32 addresses | all orders of `malloc`, `mmap`, `munmap` until both are spent, interleaved with the pages and every stray pointer, below, inside and beyond the array |
| `ExecBuffer` | buffer of 11, 2 variables, heap of 4, ints of -2 .. 1 | programs of up to three lines one after the other, over every kind of expression, until table and heap are full: the verdict, the text, the assignments in order and once each, strings of their own, and that a run ends |
| `Console` | screen 2 x 3, text of 3 | several editor sessions, all layouts, Ctrl and Shift at every moment |
| `PciScan` | 2 x 2 x 2 places, list of 4 | all 3^8 configuration spaces, lists that wrap around, and a list without memory |
| `Disks` | 1 x 2 x 2 places, list of 2, 4 mappings, heap of 12 | calls until mappings and heap are spent, over all configuration spaces and any low memory: the second pass fills what the first one counted |
| `Ahci` | 3 slots, 2 spins, tables of 2 entries, reads of 0, 2 and 3 | all interleavings with the HBA, from a stopped port and from a running one with any commands outstanding; the count of 0 wraps to no entry, the count of 3 does not fit a table |
| `Acpi` | 2 places, up to 2 tables, 4 packages | every arrangement of valid and broken pointers and tables: the first FACP or none is used, each control block gets its declared sleep type, only after the handshake, and a machine that need not be asked is never kept waiting |

The bounds are small but reach every boundary of the code: each array, table,
screen edge and counter is filled and passed in its run. `Ahci` needs three slots
so that a slot can be found behind a used one, and two spins so that the bounded
wait can end early, late or not at all. `SIZE_T` and `ADDRESSES` are chosen just above
the largest legal index so that wrapping is visible. In `ExecBuffer` some program
fills the buffer, leaves it (`runaway`), divides the least int by -1 (`fault`), fills
the table, and concatenates at address 0 (`corrupt`); the heap holds one short string and
fails on the next. `WORD` is 64 there, which `TextAssumption` asks for: heap, program
and low memory are together too small for the sum of two lengths to wrap a `size_t`, as
they are in the code (1 MiB and 4096 bytes against 2^32). In `Console`, a text of 3 never
reaches the last of six cells; `ScreenShowsText` was also checked once on 2 x 2 cells with a
text of 5 and on 1 x 3 with one of 4, and the theorem `ScreenFollowsText` is about every size.

`ArgsAreWords` names the words of the typed line by where they begin and end (`Words`) and
compares them with the strings that begin at the arguments (`Word`). `SuccessRunsOnce`
says that the assignments of a successful run are in the order of the text, none
twice and nothing else, and that no line's first one is left out.

`CHECK_DEADLOCK FALSE` is used where the program really may stop: after an
overrun, after `reboot` or `shutdown` (`halted`) or in `sleep`, after a finished scan, and after a fault of
the interpreter.

Fairness. The kernel never blocks, so an unfinished loop takes its next step:
weak fairness of `Split \/ Answer` (the command line, from Enter to the next prompt), of the scan, of the driver's steps, of `ExecStep` once
`execute_buffer` was called (nothing makes anyone call it), and of the
steps of `Acpi` (nothing is assumed of the firmware's answer). Keys
are never forced, so a line need not be ended and the editor need not be left
(`LeaveEditor` is not fair). For the HBA, weak fairness says that FR and CR follow the bits
that control them and that a running port finishes each command, by completion
or by error; without that the driver's loops, which have no timeout, need not
end. Nothing is assumed about the busy bit: the loop on it is bounded.

### Disagreements between the code and what it says

Two runs check one sentence of the source each and end in a counterexample
(quotations in `PROJECT.json`):

- `ConsoleRun`: `run` and Ctrl+R look at `editor_buffer`, which nothing writes; the
  editor's text is in `editor.buffer`.
- `AhciSlot`: the slot search runs while `i < slots`, the register being shifted,
  so an idle port has no slot. After `port_rebase` the port is idle, and every read
  is refused; commands are issued only next to those the firmware left.

Others were met while modelling. The modules follow the code in them, so the
properties above are stated around them, and no run is spent on them:

- a line longer than `command`, or with more words than `args`, is stored past the
  array (`kernel.c:195, 474`; the phases `line_overrun`, `args_overrun`);
- once the echo has wrapped from the last row to the first, it overwrites what stands there
  (`kernel.c:104-106`), and Backspace at the top left corner shortens the line but cannot
  move the cursor (`kernel.c:93-98, 170`); a layout without characters can echo a newline
  or a backspace. `EchoMatchesLine` and `PromptKept` are about the lines before that
  happens (`plain`);
- the editor sets the terminal's cursor from its own, which may be off the screen
  (`kernel.c:408`), and an erased newline is compared after it was cleared, so the
  cursor does not go up (`kernel.c:366-381`);
- the newline of a line that is exactly as long as a row gives an empty row
  (`kernel.c:86-91, 102-106`), which the editor's cursor does not count: it stands one row
  above the end of the text. `Showable` leaves such lines out;
- a text that reaches the last cell is written on from the top of the screen, over its
  own beginning, and Backspace only blanks cells (`kernel.c:371-379`): what was overwritten
  stays so until the next full redraw. `ScreenShowsText` is about texts that the last
  redraw had room for (`drawn`), and about those only while the cursor is at their end, which
  an erased newline ends;
- the French, Spanish and Russian tables are empty, so no command can be typed
  after choosing them (`keyboard_layouts.h:34-93`);
- the PCI bus counter is a byte and cannot reach 256 (`pci.c:57-60`), so the scan
  ends only when the list is full, and never on a machine without a device
  (`ScanEnds` is stated for the others);
- on a machine with fewer devices than the list has room for, the list repeats
  them (`ListCycles` says how), and the word stored as a port is the id register
  read again, not BAR0 (`pci.c:91`);
- `lsdisks` tests fresh zeroed memory instead of the device's registers
  (`kernel.c:231`), and copies to address 0 when its list could not be allocated
  (`kernel.c:250-258`);
- `sleep` compares the address of a function with a number and never returns
  (`time.c:53-57`), so the three seconds of `acpi.c:143` never pass (`Acpi` ends in
  `asleep`);
- `execute_buffer` leaves its loop at a line that fails without restoring the newline,
  so what follows takes it for a last line without one and executes it again
  (`kernel.c:443, 455-461`), and the text stays cut there. The verdict does not change
  (`ImplementsRunner`), and `TextKept` is about runs that succeed;
- behind a line that ends in a blank, `pc` steps over the NUL and the interpreter goes
  on in the next line, which is executed again by itself (`microshell.c:363, 462`).
  `SuccessRunsOnce` is therefore stated for texts without such lines. At the end of a
  text that fills the buffer it leaves the buffer; `ReadsStayInside` says that this is
  the only case;
- an assignment overwrites the variable's name with that of the value
  (`microshell.c:388`), which is empty for a literal: every later use of the variable is an error,
  every assignment takes a new slot, and after 64 of them (`microshell.c:376`) the
  interpreter refuses all others until the machine is restarted. No name is ever found
  again, so the copy of a string variable (`microshell.c:214-217`) is never made;
- the 16 KiB of the C stack (`boot.s:36`) bound the operators of an expression, which nothing
  tests: `eval_expr` calls itself for each (`microshell.c:294`). The model's stack has no
  bound, so `ExecutionEnds` is about the expressions that the stack holds;
- the results of `malloc` are not tested (`microshell.c:202, 318`): with the heap spent,
  strings are written to address 0, and two that are concatenated there run into
  each other (`corrupt`);
- a quotient of the least int and -1 faults (`microshell.c:338`), and the guard of the
  division asks for zero only;
- the interpreter's keywords are names (`microshell.c:367, 394-460`), as said in section 2;
- the loop over the PRDT entries has no initialiser and never runs, so the only entry
  written is the one at index 1 (`disk.c:184`), and a read of more than 128 sectors
  clears the tables of the slots behind its own (`disk.c:179`).

## 4. What is proved

All theorems rest only on the named assumptions of the component's module, which
TLC evaluates on each run.

- `ScreenProofs`: `CursorStaysOnScreen` and `TerminalImplementsRing`. The type
  invariant alone is not inductive, since the wrap tests are equalities; the
  invariant adds that row and column are on the screen. The refinement then needs
  only arithmetic on `row * VGA_WIDTH + column`, isolated in lemmas. Assumption:
  the screen fits a `size_t`.
- `LineProofs`: `LineKeepsTypes`, `SplitStays`, `ArgsAreTheWords`, `EchoIsLine`, `PromptStays`. While
  keys are read, the line holds no junk before `buffer_index`; while it is cut up,
  there is a NUL at `buffer_index` that no call of `strtok` moves or passes (`SplitInv`). The
  echo needs beside itself that the cursor is on the screen, as long as the echo is plain
  (`EchoInv`), and what one character or one Backspace changes at the cursor's position; a
  Backspace blanks the cell before the cursor, which lies behind the prompt because the line is
  not empty. For the arguments, `WordsInv`
  says at the place `Rest` where the next call will start: the line is still as
  typed from there on, `Rest` is at a gap between words, every word before it is an argument,
  and every argument is a word that was cut out with a NUL behind it.
- `ConsoleProofs`: `ConsoleKeepsTypes`, `NoStaleCtrl`, `ErasedIsGone`, `EditorHasAnExit` from
  `ConsoleInv`, which adds to the properties that the editor is only open under a layout
  whose letters spell its command (`EditorLayout`); and `ScreenFollowsText`, for the texts and
  cursors that section 3 describes. An erased
  character blanks one cell and moves two cursors, so `ScreenInv` says something of every
  text that Backspace can still reach: for each prefix that the screen can show and whose end
  the cursor can be at, the two cursors agree, and every cell outside the rest of the text is
  what printing the prefix alone leaves there. `CursorAt` says where the column counts from;
  below zero it wraps. That printing a text the screen can show leaves the cursor at its end
  and everything behind it blank, also where its last line goes on in the next row, is the
  lemma `WrittenAt`. Assumption: the buffer's size
  fits a `size_t`.
- `MemoryProofs`: `BlocksStaySound`, `MappingsStaySound`, `FailureIsClean`,
  `MemoryIsSpentOnce`, `PagesStaySound`. The heap's invariant orders the blocks by address below
  `heap_index` and ties every mapping to a block; with it a new block lies behind all old
  ones. For the pages, bitmap and holders correspond; an aligned in-range offset is
  the start of a page, so a stray pointer changes nothing. Assumption: no requested
  size makes the sum in `malloc` wrap.
- `ExecProofs`: `RunsAsPromised`, `SuccessKeepsText` and `InterpreterStaysInside`, for
  every text and every size of the buffer, the heap and the table. The invariant
  says that at each point of the loop `code` is `program` except for the one NUL at
  `current`; that, unless a line has failed, the lines that have returned are those before
  `line_start`; and that the array ends in a NUL, so that `pc` stays inside while the
  interpreter works. `skip_whitespace`, `literal_end` and `LineEnd` choose the first position
  with a property; that there is one is the lemma `LeastElement`, from the
  well-foundedness of the naturals, so no induction is needed. The refinement maps
  each return to one more line done; that this is at most the number of lines,
  and equals it when the loop is over, is where the invariant is used.
  `SuccessMeansDone` adds `OrderInv`: what has been assigned is in order and behind `pc`,
  and the first assignment of every line up to the current one is done, being done, or
  still ahead of `pc`. `InterpreterKeepsTypes` and `StringsStayOwned` rest on `StoreInv`: the
  strings of the variables, of the calls that wait and of the current value are each a block
  of the heap and no two the same (`Strings`). That every length fits a `size_t`
  needs a bound that a step keeps: the texts that wait, and what was appended at
  address 0, are together no longer than what the heap has given out (`Bound`).
- `AhciProofs`: `ReadIsSafe`, `RebaseIsSafe`, `CommandsAreKept` and `ChosenSlotStaysFree`. The
  invariant `AhciInv` says what the driver knows at each point although the HBA moves in between: past each
  wait one more bit is clear and stays clear; a port with ST off has no commands;
  the registers read by `find_cmdslot` can only lose bits; a command that is no
  longer pending is completed, or failed with the error bit set. That a table's
  entries end before the next table is the lemma `WrittenFits`.
- `DisksProofs`: `ListIsSound` and `ListGoesInOrder` for the enumeration. A place's rank is the
  number of devices before it in bus order; `CycleInv` says that while there is room, the
  length of the list and the rank of the place to be probed are the same modulo the number of
  devices: a step from a device adds one to the rank, a step from any other place
  keeps it, and the step back to the first place has counted all of them. `FillsWhatItCounted` for
  `lsdisks`, from an invariant for the first call and one for the later ones. The first
  call finds fresh memory behind every entry, which is no drive, and spends the
  table exactly with its last entry: `next_mapping` follows the loop
  counter and `heap_index` is the list plus `next_mapping` ports. In a later call no
  mapping succeeds, so every entry looks like low memory; low memory only changes when
  the list could not be allocated, and then every entry had been counted.
  `EveryListIsRight` carries the enumeration's properties over to the list that `lsdisks`
  works on.
- `AcpiProofs`: `PowerOffKeepsTypes`, `FirstTableIsTaken`, `DeclaredTypesAreWritten` and
  `SleepsEnabled`. The invariant has two halves. Until a table is taken, everything before `place` and `ptr`
  has been passed over for a reason that the code's order implies (no pointer, no
  FACP, or the first FACP is broken and `entrys` is -2). From then on, the globals
  are those of the first table, and each point of `acpiPowerOff` knows which registers
  are enabled and written. That the sleep types are read off the package in every
  encoding is the lemma `TypesDecoded`, from the layout of a concatenation.

Every invariant and action property of the passing runs is the statement of a theorem.
Only model-checked are the liveness properties (`LineIsAnswered`, `ScanEnds`, `RebaseReturns`,
`ReadReturns`, `PowersOff`, `ExecutionEnds`), which need fairness.

The functions of the model that compute over a text are never unfolded by
induction over data. `skip_whitespace`, `FirstIn` and the like choose the first position with a
property. `terminal_write` is a fold, whose table of intermediate results has to be shown to exist:
`ScreenProofs` takes the least length for which it does not (`LeastElement`), and
obtains from the table what one more character changes (`WriteStep`). A fact about
every prefix of a text, like `WrittenAt`, is proved of the shortest prefix that would break it.

## 5. Not modelled

The branches of the interpreter that are never reached (`microshell.c:223-287,
394-460`, and the conversions to and from floats and to strings), `msh_read_line`, which only they call, the tick counter and the system calls of
`time.c` (no interrupt, no caller), `printk` and the number conversions, `probe_port` (prints
only), USB and the PS/2 initialisation (never called), stubs and boot code.
`Ahci` leaves out what is in a command table (FIS, PRDT entries). In `PciScan`, a
device whose two ids are both zero is treated like any other.

## 6. Plan

Done: Screen, RingScreen, Keyboard, LineInput, Editor, Console, Heap, Pages, Memory,
PciScan, Disks, Ahci, Acpi, Microshell, ExecBuffer, ProgramRun, and the proofs above.

Next, in this order:

1. `Strings`: `itoa` and the copying functions against reference definitions over
   bounded inputs.
2. A composition of `Console` and `Disks` in which low memory is shared: copies to
   a list that was not allocated reach the shift byte. `Console!ListDisks` has the
   outcome already: the shift byte may change.
3. An abstract specification of the command line (a line of words in, its arguments out) that
   `LineInput` implements, and its refinement, from `WordsInv`.
4. More initial states of `Ahci`: a port left in an error, or with FRE set and ST clear.

The number of runs is kept small: a new component's run takes the place of another
whose question moves to a run it shares, as `Heap` and `Pages` did in `Memory`.
