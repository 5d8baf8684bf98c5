# A verification of the Pano Term firmware

Pano Term turns a Pano Logic G2 thin client into a 160x64 ANSI terminal that is
fed over TCP. The FPGA holds a RISC-V CPU, an Ethernet MAC, an SPI flash, a DVI
text console and I2C; one C program (`src/fw/pano_term`) runs on it without an
operating system and with a single thread, around the lwIP stack. With the CPU
comes a simulator of its instruction set
(`src/cores/cpu/riscv/isa_sim`), a program of its own that runs on a host.

This directory holds TLA+ modules that model the program, TLC configurations
that check them on small instances, and proofs checked by TLAPS. Line numbers
refer to `src/fw/pano_term/main.c` unless another file is named.

    tlc -config Shell.cfg MC_Shell.tla       (a run: its cfg and its MC module)
    tlapm Vt100_proofs.tla                   (a module of proofs)

## 1. The system

### How the parts meet

`main()` (351-488) initialises everything and then goes round one loop: a keyboard
poll every 15 ms, `vt100_flush()`, `UpdateLEDs()`, `pano_netif_poll()`, the welcome
text for a new shell connection, and the command line when one is complete.

Everything that comes from the network comes out of `pano_netif_poll()` (634-685),
which feeds one Ethernet frame to lwIP and runs lwIP's timers; lwIP calls the
handlers of the two TCP servers and of the TFTP client from there. What makes
this program hard is that `pano_netif_poll()` is **not only called by the loop**:
`NetPrintf()` and `NetPuts()` wait in `NetWaitBufEmpty()` (1004-1014) for the peer's
acknowledgement, polling, and a handler that echoes calls `NetPuts()`; a TFTP
command polls until its transfer has ended. So handlers run in the middle of
commands and in the middle of other handlers, on the same globals.

Nothing is locked and nothing times out except through lwIP. The flash is the
only thing that outlives a reset.

### Inventory

| component | state | operations | what is hard | what makes it correct |
|---|---|---|---|---|
| **System time** (main.c 411-429, 525-539; timer.c) | the cycle CSR; two statics in `sys_now()`; `LastLoop` | `timer_now`, `sys_now`, `timer_sleep_us`, lwIP's timers | the counter wraps every 151 s, and it is divided before differences are taken | a sleep is as long as its clock's whole MHz make it, the keyboard is always polled again, timers fire when due |
| **Terminal emulator** (vt100.c) | `vt100_t`: parser state, arguments, cursor, scroll region, margins; the video RAM | `vt100_putc` of one byte | a byte sequence of any length; the cursor is drawn into the text; `for(;;)` behind range checks | writes stay in the video RAM and in `args[]`, one cursor, every byte does its own operation |
| **Command shell** (818-1085) | `gShellCon`, `gShellPrint` (buffer and three counters), `gRxBuf`, `gRxCount`, `gInputReady`, `gSendWelcome` | accept, recv, sent, poll, error; `NetPrintf`, `NetPuts`, `NetPrintFillPcb`, `NetWaitBufEmpty`; welcome, command, prompt | re-entrance, one buffer for all connections, running out of send memory | bytes go out once and in order, a line has its end, no wait is in vain, no freed pcb is used |
| **Command parser** (cmd_parser.c) | none | `ParseCmd`, `ConvertValue` | prefixes, reading past the end of a line | the command run is the one typed |
| **Configuration store** (1599-1815) | the last flash sector; `gTftp.ServerIP` | `ParseDataBlock`, `AddBoardInfo`, `tftp`, `commit` | power failure in an entry, a full block, lengths that are not | what was saved is found again |
| **SPI flash driver** (spi_drv.c) | the flash | read, write by pages, erase a sector | programming only clears bits; page boundaries | the bytes asked for, and no others |
| **TFTP loader** (tftp_ldr.c; 1163-1279, 1494-1597) | `gTftp`; lwIP's one TFTP client | flash, save, verify, erase, autoerase; open/close/read/write/error callbacks | erasing as blocks arrive, transfers that do not start, state left over from the last command | flash, verify and save do what they say |
| **Terminal server** (687-800; vt100.c 1046-1090) | `gTermCon`, the stream buffer | accept, recv, flush | a buffer filled by a handler and emptied by the loop, or by the handler when full; segments that lwIP chains | each stream's text reaches the emulator in order, none of it twice |
| **Network interface** (540-685; eth_axi4lite.v) | receive and transmit FIFOs of bytes | poll, output, clear | frames have no mark in the FIFO but their length | what is not a frame reaches no handler |
| **Boot, link, LEDs** (280-470, 1087-1133) | `gBoardID`, `gEthStatus`, LED | one pass | order of initialisation | the LED tells the truth |
| **I2C and keyboard** (1817-2081; i2c_master.v) | the I2C registers, the controller | read, write with a polling budget | a controller that moves on its own, a flag that starts it, devices that hang | a call makes its own transactions, and returns |
| **Flash and register commands** (1135-1161, 1307-1388, 1481-1530, 2083-2230) | the column and the region that is being shown | dump, map, info, gpio, aread, awrite | printing through the shell, whose connection may go | what is shown is what the flash holds |
| **ISA simulator** (isa_sim) | registers, CSRs, privilege, page tables, regions of memory | one instruction; trap, return, interrupt; load a file; the main loop | two trap levels in one status register, tables that are walked on every access, two decoders | a handler returns to what it interrupted, memory is bytes, an access is one that the tables grant |
| **FPGA logic** (src/fpga, src/cores/dvi) | AXI adapters, console, multiboot | bus handshakes | a strobe held while a read is answered | one access, one effect |

Third-party cores, lwIP (a submodule whose sources are not in the tree), build
files, tools and assets complete the list. `PROJECT.json` names the files of each
component and every hazard found, at its line, with the properties aimed at it.

## 2. The modules

| module | what it models |
|---|---|
| `SysTime` | the clock and everything in the firmware that reads it |
| `Vt100` | the emulator byte by byte, down to the linear video RAM |
| `VtScreen` | the abstract terminal: a page of text, a cursor, operations |
| `Shell` | the shell with its nested polling, and lwIP's pcbs and send buffers |
| `ConfigStore` | the log of entries in the last sector, word by word |
| `Setting` | the abstract store: one setting that is saved or is not |
| `SpiFlash` | the driver as functions on the flash (no state of its own) |
| `TftpLoader` | the commands that move files, over `SpiFlash` |
| `TermNet` | the way of a character stream from the MAC's FIFO to the emulator |
| `I2cHw` | the I2C driver against its controller |
| `FlashView` | the commands that show the flash, over `SpiFlash` |
| `RiscvPriv` | the simulator's privileged machine: traps, interrupts, page tables |
| `RiscvIsa` | its instructions as tables: patterns, both decoders, results |
| `RiscvMem` | its memory regions, masks and shifts |
| `RiscvExec` | a run of it: loading, fetching, computing, stopping |
| `FlatMem` | the abstract memory: bytes, some of which exist |
| `Vt100_proofs`, `Shell_proofs`, `ConfigStore_proofs`, `TftpLoader_proofs`, `I2cHw_proofs`, `FlashView_proofs`, `RiscvPriv_proofs` | the theorems about the module each is named after |
| `MainLoop_proofs` | the theorems about `SysTime` and `TermNet`, what `main()`'s loop polls |
| `MC_*` | small values for the constants, and the hosts of `MC_Vt100` |

The modules are composed in two ways. `Vt100` is shown to implement `VtScreen`,
`ConfigStore` to implement `Setting`, and `RiscvExec` to implement `FlatMem`, each
by `INSTANCE ... WITH` a refinement mapping (`ImplementsScreen`,
`ImplementsSetting`, `FlatMemory`). `TftpLoader` and `FlashView` are built on
`SpiFlash`, `RiscvExec` on `RiscvIsa` and `RiscvMem`.

In every module the definitions named `X_Something` under "A mistake:" are not
part of the model: each is `X` with a plausible slip, kept beside it because
some property must fail when `X` is replaced by it.

### SysTime

`Tick` lets cycles go by; `SysNow` is `sys_now()`, `CheckTimeouts` lwIP's
`sys_check_timeouts()` (683) with one cyclic timer, `PollInput` the gate of the
keyboard poll, `SleepBegin`/`SleepEnd` the two ends of `timer_sleep_us()`. Unsigned
differences are taken modulo `MsMod` and `CycleMod`. A sleep is asked for in
microseconds, and `Timeout` makes cycles of them as `timer.c:35` does: with
`CPU_KHZ / 1000` cut to whole MHz, and in a word that can overflow (`unsigned long`
and the counter have 32 bits both). `sleep.us` and `sleep.passed` remember what was
asked for and the cycles that really went by, and are there for the properties only.

`sys_now()` adds up differences of `timer_now()` to outlive its wrap, but a sum of
differences telescopes, and `timer_now()` does not wrap at 2^32, so the "local up time"
is `timer_now()` again and falls back every 151 s. What a cyclic timer is there for,
`TimerKeepsFiring`, is therefore false, and the run `SysTimers` shows it. (It holds of a
`sys_now()` that takes the differences modulo the range of `timer_now()`.)
`TimelyBeforeWrap` says what holds in between. `SleepsWholeMegahertz` is what a sleep
really guarantees: the microseconds asked for, of a clock rounded down to whole MHz.
At 28 320 kHz that is 1.1 % less than was asked for.

### Vt100 and VtScreen

The variable `term` is the struct `vt100_t` with its video RAM. One action per
parser state (`St_idle`, `St_escape`, `St_sq_bracket`, `St_question`,
`St_command_arg`, `St_one_byte`), as in the code; the handlers are operators from
terminal to terminal, composed in the order of the C statements: `RemoveCursor`,
the operation, `DrawCursor`. Arguments and coordinates wrap as `int16_t` and
`uint16_t`. `strayed` records a write outside the terminal's cells and `hung` one
of the `for(;;)` that follow a range check. An uninitialised `Start`/`Len` in
`_vt100_clearLine()`, and memory outside the video RAM, are a choice from `Junk`.

A cell is blank, ink or the cursor, and no character looks like the cursor: that
the bit which draws it may also be part of a cell's value is abstracted away.
Colours, and therefore the `m` sequence, and the separate status line are left out.
As in the code nothing checks `narg`, which is a byte that wraps: an argument too many
is written behind `args[]` (`Grown`), where the terminal counts as having strayed.

`VtScreen` gives every byte one operation: where each motion ends, which cells an
erasure blanks, what a line feed, `ESC D` and `ESC E` do to the column, which
characters take part in a sequence. `ImplementsScreen` says of every byte of the
host that the terminal takes the step that `VtScreen` has for that very byte. Where a
comment of vt100.c promises more than its code does, as at line 908 for `ESC M` in
the top row, `VtScreen` follows the comment. A step that leaves the whole terminal as it was
is a stutter to a temporal formula, so a byte that is wrongly ignored, and leaves
no trace at all, not even in the parser, is not seen.

The code does not defend itself against a host that addresses cells beyond the
screen (see section 5), so the correctness properties are about a **polite**
host: `Polite` says byte by byte what such a host does not send. It excludes
motion beyond the last row or column, a backspace in column 0, a rubout in the last
column of a screen that wraps, `ESC M` in the top row, scroll regions, `CSI P`, an
argument that overflows, and **more arguments than `args[]` holds**. Everything else
is sent in any order.

### Shell

The variable `stack` is the C stack: a frame for `main()`, for a list of calls a
command makes, for `NetPrintf`, `NetPuts`, `ShellRecv` and for
`NetWaitBufEmpty`. `Polling` holds when the frame on top is one that polls, and
then any callback may happen: it either runs at once or pushes a frame. That is
the nesting of the code, up to `MaxDepth` frames.

lwIP is a pcb state (`free`, `open`, `peer_closed`, `closed`) and the bytes on
the wire of each connection; `tcp_write()` may be out of memory in the worlds
where that is allowed. `Worlds` says what peers may do in a behaviour: users who
come one after the other, type ahead, erase during output, overlap, reset. Users
who come "again" wait for the prompt before they type, and may go at any time; in
worlds with "nomem" a `tcp_write()` may fail. `StreamIntact` is about these two, one
at a time, `NoWaitInVain` about the first, `LineTerminated` and `NeverWild` about all
worlds (`NeverWild` without resets). `NetPrintFillPcb` reads `tcp_sndbuf()` before it
looks whether there is a pcb (1059); what is read of a pcb that is not there is not
used. `wild` records a use of a pcb that lwIP has freed. Commands are represented by one
for each way of answering: `NetPrintf` (info), `NetPuts` (dump), exit, unknown.

### ConfigStore and Setting

A word of the sector is what it stands for: a tag, a length, an address, erased,
or torn. `Scan` is the loop of `ParseDataBlock()` as a recursive function,
`AddBoardInfo` programs an entry behind the last one and parses again. Power may
fail in any word of an entry (`PowerFails`), leaving the words before it, one torn
word and the rest erased; the next boot parses that. `CheckEmpty` compares as the
code does, with the second page of the buffer. Erasing and flashing the sector
are here in the one form that matters for this sector: an image is one word all
over it (`Fills`), zeros or another, so that it is **mistaken** for an empty sector
(`Mistaken`) and what is written there is ANDed with it. An entry that crosses into
the page behind the window takes words from behind `gTemp` along (`Crosses`,
`NewWord`): `Memory` is what may lie there.

### SpiFlash and TftpLoader

`spi_write` programs pages in closed form. The size of each piece is taken
from `Len` and not from what is left of it, so a write that begins inside a page, or
one of a length between one and two pages, goes on behind its data (`Wrote`);
those bytes are `Behind`. `Program` is the rule of NOR flash: `Mixed` is what two
different bytes leave when they are programmed over each other. Two `Mixed` bytes
count as equal, which can matter only where a file of garbage is compared with
garbage.

`TftpLoader` has one action for each command, one for each thing that comes from
the server (`DataArrives`, `AckArrives`, `ErrorArrives`) and `TftpTranserWait` for
the end of the wait. `ldr_tftp_init` has the three outcomes of the code: no pcb,
request not sent, transfer begun. lwIP's client is external: one state, one
expected block number, no timeout; a duplicate reaches no callback. A block is one
pbuf, because a frame of 558 bytes fits into a pool buffer of 592. An address
argument stands for whatever the parser reads: an address behind the flash and an
unreadable one become the default, and a name without arguments makes the parser
read on in the remains of an earlier line (`*cp++ = 0`, 1514). `OnlyItsSectors` is about
every command: a verify, and a save that was given its length, change nothing. A save
without one does what the transfer before it did (section 5); it is in the model, and
`OnlyItsSectors` and `SavedIsFlash` leave it out (`SaveWithoutLength`).

### TermNet

The FIFO is a sequence of the bytes of frames, each frame behind the two bytes of its
length, as a read of the FIFO finds them. `PollLength`, `ClearRead`/`ClearDone` and
`ReadByte`/`ReadDone` are `pano_netif_poll()`, the last two byte by byte, so that frames arrive
while one is read or cleared. Nothing marks where a frame begins, so reading may
begin in its middle, or at the second byte of its length; the length read there is
one of `Garbage`. `Whole` is what lwIP's checksums let through: that a frame misread
in this way is found out is an assumption about them, and what `StreamInOrder` shows
is that nothing else goes wrong around it. `Input` is lwIP with
segments that come twice (`OutOfTurn`), before their turn (`OutOfTurn`, `Ready`) or in
it (`InTurn`). `TermRecv` and `vt100_buffer`
are the handler and the stream buffer, `vt100_flush` the main loop's step; a turn
of the loop may be a poll only, as in `NetWaitBufEmpty()`. `lost` records the
segments that lwIP chained behind another's pbuf, which `TermRecv()` does not read.

### I2cHw

A call of the driver is the list of its steps (`Ops`): waits, checks of the
budget, writes to registers, and the result. The controller is the state machine of
`i2c_master.v` behind the registers of `i2c_master_axil.v`, one tick of its divider
at a time, a byte and its acknowledgement together: the driver looks at the busy
flag between ticks, at least once and at most `PPT` times. A slave refuses a byte,
stretches the clock for a few ticks, or for ever.

### FlashView

`DumpCmd`, `DumpChunk`, `DumpDone` and `MapCmd`, `MapSector`, `MapDone` are the two
loops, a chunk or a sector at a time, since each prints and so lets the network
run (`Connection`). `out` is what was shown: lines with an address, and regions.
`ShowsFlash` is about the range that was asked for. The last chunk is as long as
the others (1149), so a dump goes on behind its range, and that is in the model; what it
shows there, and what a dump shows whose range leaves the flash, is left open.

### RiscvPriv

`execute()` and `step()` for the instructions that have to do with privilege: a CSR
is the set of its bits, memory is the words that the page table walk reads, and
whatever computes in registers is `Compute`. `exception`, `Retired` and `Tick` are
composed in the order of the code: the instruction, the interrupt that is looked
for after it, the timer. `mmu_walk` follows the code even where it goes wrong: the
level counter is unsigned, so a table entry on the last level is followed
(`Lost` is a shift by a negative number), and a page number has 22 bits where the
address of a table has 32: a table behind the 32-bit addresses is read at its address
cut off (`Base`; riscv.cpp:385, 419), while a page there meets the assertion of line 435
(`PageEnd`). `frame` remembers what the trap that a
level is handling has interrupted.

### RiscvExec, RiscvIsa, RiscvMem and FlatMem

`RiscvIsa` has the masks and patterns of riscv_isa.h, the order in which riscv.cpp
and riscv_inst_dump.cpp try them (two orders), and the results of every
instruction; an instruction word is the record of its fields. `RiscvMem` is the
list of regions and the words behind each. `RiscvExec` loads a file (`ElfCreate`,
`ElfByte`), resets, and executes until `riscv_main()` stops. The width of a byte
is a constant: with bytes of one bit a machine word has four, and every pair of
operands can be tried.

## 3. What is checked

| run | states | result |
|---|---|---|
| `SysTime` | 14 960 | `TypeOK`, `TimelyBeforeWrap`, `SleepsWholeMegahertz`, `KeyboardPolled` hold |
| `SysTimers` | - | `TimerKeepsFiring` fails: a wrap of the clock stops a cyclic timer for good |
| `Vt100` | 37 359 | `TypeOK`, `StaysOnScreen`, `OneCursor`, `ImplementsScreen` hold |
| `Shell` | 1 831 964 | `TypeOK`, `StreamIntact`, `NoWaitInVain`, `LineTerminated`, `NeverWild` hold |
| `TftpLoader` | 492 335 | `TypeOK`, `FlashedIsFile`, `OnlyItsSectors`, `VerifyTells`, `SavedIsFlash`, `NeverAsserts`, `TransferEnds` hold |
| `ConfigStore` | 5 314 | `CompletedIsSaved`, `TornIsLocal`, `ProgrammedStays`, `CommitOnce`, `ImplementsSetting` hold |
| `ConfigLoop` | - | `InvalidLengthIgnored` fails: a torn length makes every boot hang |
| `TermNet` | 3 797 804 | `StreamInOrder` holds |
| `I2cHw` | 109 561 | `OwnTransactions`, `CallsReturn` hold |
| `FlashView` | 74 240 | `ShowsFlash` holds |
| `RiscvPriv` | 602 949 | `TypeOK`, `TrapFrame`, `IrqPrompt`, `TrapReturns`, `AccessIsMapped` hold |
| `RiscvExec` | 27 035 | `Arithmetic`, `DecodesOneWay`, `FlatMemory` hold |

The two runs that fail check what comments of the repository say; `PROJECT.json`
quotes the lines under "findings". Every property of the other runs is broken by at
least one "mistake" of its module, listed under "mutants".

### Bounds, and why they are enough

* **SysTime**: 3 cycles to the millisecond, a counter of 11 cycles, so that the
  wrap falls into the middle of a millisecond as 2^32 / 28 320 does, and a "thousand"
  of 2, of which `CPU_KHZ` is no multiple, as 28 320 is none of 1000. A behaviour
  runs through any number of wraps. The timer's and the keyboard's period (1 ms) are
  below the largest `timer_now()` (3 ms), as 250 and 15 are below 151 652. One sleep is
  of no time, one is shortened by the whole MHz, one does not fit the counter.
* **Vt100**: 2 columns and 3 rows: a first, a middle and a last row, and both
  columns at a margin; room for two arguments and a counter of four. Three alphabets, of
  a host that types, with wrap on or off, one that addresses and erases, and one that
  saves and restores, keep the state space small; the theorems of section 4 remove
  these bounds.
* **Shell**: a line of two characters and its end, and a print buffer and a send buffer of 2
  bytes: the smallest in which the terminator and a character compete, and in which
  every reply fills the buffer several times over. As in the code, the print buffer
  (120) is no larger than lwIP's room. Two connections: the pool can be empty, one can be
  replaced by another. `MaxDepth` 5 frames admit a handler that echoes, within a
  wait of a handler, within a command. The four worlds are users one after the other,
  one user and no memory, and two of rude ones, without resets and with them, who
  send segments that do the most (`MCRude`).
* **ConfigStore**: a window of ten words is three entries and one word, as the
  code's 1024 bytes are 85 entries and one word. All that happens at the end of
  the window and behind it happens at the fourth entry. A page of five words
  makes an entry cross a page. Images of zeros and of another word are both mistaken for
  an empty sector, and a torn length leads on, inside the window or out of it.
* **TftpLoader**: pages of 2 and blocks of 4 bytes (256 and 512), sectors of 8,
  three of them. The addresses lie at the start of sectors, inside a page, half a
  block before a sector's end, at its last byte and behind the flash; the files
  are shorter than a block, one block and two and a half. Two pcbs and three
  commands (`MaxCmds`) are enough to lose every pcb and then verify, and to flash
  twice with automatic erase. The run does not check for deadlock because the
  bound on commands stops it.
* **TermNet**: a FIFO of eight bytes, two frames and more, one of which may be half read; a stream of
  two segments and its end, the second before the first if it so comes, with
  telnet commands at every place, one of them cut by the end of its segment; a
  stream buffer of two bytes, which one segment overfills. Two connections that
  are alike (symmetry), open one after the other or at the same time. A clear that
  gives up after three bytes leaves off inside a frame or a length, and a misread
  length is zero, too short, or too long.
* **I2cHw**: a budget of 45 polls, two at most to the tick, is just enough for a
  block of two reads of ten ticks each and one stretch, as a million is for the
  real ones with a wide margin; the bound that `I2cAssumption` asks for is what
  makes a spent budget mean that the bus hangs. One encoder of two registers, a
  keyboard whose first register asks for any of its reads, and two commands.
* **FlashView**: a flash of four sectors of two pages, with every content; chunks
  of three bytes that do not divide into lines of two; addresses and lengths at
  0, inside, at the end, behind it and next to the word's end. A
  dump that runs on for ever (section 5) is cut off after nine lines, until its
  connection goes.
* **RiscvPriv**: four instructions from boot codes that have delegated or not, with
  four sets of page tables (large, small and bad pages, and a table behind the
  addresses, cut off to one that is there), tables of two entries and
  seven words of memory. A trap to the supervisor, one on to the machine, and both
  returns take four steps; the theorems of section 4 remove the bound. Deadlock is
  not checked because the simulator stops.
* **RiscvExec**: bytes of one bit. All 256 pairs of operands; all words of the
  fields' values that a pattern tells apart; regions whose size is no multiple of
  a word, that overlap, that touch the top of memory, and one too many. Each
  scenario takes up to three instructions. The simulator stops, so deadlock is not
  checked.

### Fairness

* **SysTime**: the counter runs (WF); the loop comes round many times within a
  millisecond, so each value of `timer_now()` that recurs is seen again and again
  by the checks (SF). There is no sleep in the loop, and `KeyboardPolled` and
  `TimerKeepsFiring` speak of the time when nobody sleeps any more. The keyboard is polled
  for ever under this fairness, the timer is not fired for ever.
* **Shell**: none. That an answer comes after a `tcp_write()` that failed rests on
  lwIP's slow timer, and that timer stops with the first wrap of the clock
  (`TimerKeepsFiring`), so no such fairness can be assumed. `NoWaitInVain` says
  as an invariant what the code does provide: whenever `NetWaitBufEmpty()` goes round,
  the bytes it waits for are on the wire, so an acknowledgement can end it.
* **TftpLoader**: a server that answers each block, and the loop that goes on
  (WF). An error from the server is not fair. Without a server that answers
  `TransferEnds` is false, and should be: neither lwIP's client nor
  `TftpTranserWait()` has a timeout, so a lost packet of the server's last retry
  leaves the shell waiting until a reset.
* **I2cHw**: the processor runs and the controller's clock ticks (WF of each). That
  a device lets go of the bus is not assumed.

## 4. What is proved

For every value of the constants that satisfies the named assumptions
(`ClockAssumption`, `ScreenAssumption`, `JunkAssumption`, `ShellAssumption`,
`WindowAssumption`, `WordAssumption`, `ChipAssumption`, `LoaderAssumption`,
`I2cAssumption`, `ViewAssumption`, `PrivAssumption`, `TermAssumption`,
`TextAssumption`); TLC evaluates the assumptions in
every run.

**MainLoop_proofs**, the clock: `TypeCorrect`, `SleepIsLongEnough`
(`SleepsWholeMegahertz`), `TimersAreTimely` (`TimelyBeforeWrap`) and `DeadForever`, which
says why `TimerKeepsFiring` fails: a timer that is due beyond the largest value of
`timer_now()` is never fired again. The inductive invariant `Inv` is `TypeOK` and that
the up time is the last `timer_now()`,
with `LastLoop <= Horizon`, `due <= Horizon + TimerPeriod`, and the relation of
`cycle` to the `start` of a sleep and the cycles it has `passed`, modulo the
counter, and of its cycles to its microseconds. Without them the end of a sleep says
nothing about the time that
went by; without the bound on `due` the signed comparison of times could take
a time far ahead for one long past. It rests on `MsMod > 2 * (CycleMod \div CPU_KHZ +
TimerPeriod)`, which `ClockAssumption` asks and 2^32 grants. `SleepIsLongEnough` is about
arguments whose cycles fit the counter, which is a condition of the property. The
preservation of
`Inv` has one step per action; the arithmetic of wrapping differences is in
lemmas of their own.

**MainLoop_proofs**, the stream: `TextInOrder` (`StreamInOrder`), for any number of
connections, any streams that `TextAssumption` allows, any frames of others, and
every size of the FIFO, the pool and the buffer, with no bound on how often a segment
is sent again. `TextAssumption` asks that no host cuts a telnet command in two, `Whole` that
lwIP finds out what was misread, and the property leaves out what is `lost` behind the first
pbuf of a chain. The invariant is `StreamInv`: `StreamInOrder` with `WordsTyped`,
that the FIFO and the pbuf hold words of frames whose segment exists, wherever reading
began, and `LostBefore`, that only a segment that was delivered can be lost. Without the
last a segment that is delivered might have been given up before, and its text would be
more than `Told` says. What the step itself needs are lemmas about the recursive
functions: a character more in the buffer is one more that was or will be shown,
full or not (`BufferAppends`), so that a segment's text goes to the end of its
connection's part and changes no other's (`BufferedPart`); a segment tells its text or
is gone (`ToldStep`, `ToldAgrees`, `ToldSkips`); and what waited for a segment is a run
of those behind it (`ReadyIsRun`).

**Vt100_proofs**: `PoliteTypeCorrect`, `PoliteStaysOnScreen`, `PoliteOneCursor` and
`PoliteImplementsScreen` (the refinement `ImplementsScreen`), for
every screen of at least two columns, any alphabet and any number of bytes. The
inductive invariant `PoliteInv` is the type, `Sound` and `Single` together, with the
facts about a parser inside an argument (its index is within `args[]`, it returns
into a sequence, no argument overflows) that its steps rely on. That the index is
within `args[]` is what `Polite` asks of the host, and nothing of the code's. None of the three is inductive
alone: to lift the cursor restores the text only if the cursor is drawn at one
place, and a draw stays in the video RAM only if the cursor is on the screen.
The argument goes through the **bare** page: `RemoveCursor` takes a terminal of
`PoliteInv` to a `Bare` one, each operator the handlers are composed of takes a
bare terminal to a bare one (one lemma each: `ScrollBare`, `MoveBare`,
`PutCellBare`, `MotionsBare`, `EraseBare`, ...), and `DrawCursor` returns to
`PoliteInv`.
The refinement is on top of it. What a terminal shows (`View`) is its page with the
character under the cursor in its place, the cursor, the saved place and the wrap mode.
A byte is either quiet, when the parser only takes it in, or completes an operation
(`StepIs`, `Handles`, the case split that `PoliteInv` is proved along as well); quiet
bytes, lifting the cursor and drawing it do not change the view (`QuietShows`,
`LiftShows`, `DrawShows`). For every operator that the handlers are composed of one
lemma says what it does to the view (`ScrollShows`, `MoveShows`, `PutShows`,
`EraseShows`, ...), where cells of the linear memory become places on the page
(`CellOf`, `LinesPoked`); `Does` lists the operations so found, and `DoesStep` that each is
a step of `VtScreen` or a stutter. Without `PoliteInv` it fails at once: a page whose
cursor is drawn twice, or not where it is, is no page of `VtScreen`'s.

**Shell_proofs**: `TypeCorrect`, `LinesEnd` (`LineTerminated`), `NoPcbAfterFree`
(`NeverWild`) and `StreamsIntact` (`StreamIntact`), for buffers and windows of any size and
any number of connections and of nested frames. Three invariants, each on top of the
one before. `TypeInv` adds to the types that `main()` is at the bottom of the stack and
nowhere else, a list of calls directly above it, and that a frame of `ShellRecv()`
never has more rounds than bytes left; `LineTerminated` is inductive with it. `Held`
says of every pcb that the firmware still refers to, in `gShellCon` or from a frame that
waits in the stack, that lwIP has not freed it: a pcb is freed while a handler sleeps
below, so the frames must be part of the invariant. `TameInv` is for the worlds in which
`StreamIntact` is meant to hold (`Tame`: users one after the other, or one user and
lwIP out of memory; `StreamIntact` has it as a hypothesis). It says that one connection is alive (`OneCon`), that what lwIP has of the
buffer and the peer has not acknowledged is exactly what is on the wire
(`BufferOK`), which frame may lie above which (`TameFrame`), and
what the function on top finds in the buffer when it goes on (`Ready`). Without
`Ready` nothing says that `NetPuts()`, back from a wait, may fill the buffer from its
start.

**ConfigStore_proofs**: `StoreIsSetting` (the refinement `ImplementsSetting`), and the
action properties `CompletedSaves`, `TornStaysLocal`, `OnlyErasedIsWritten` and
`CommitsOnce`, for any page, window and sector of the shape that `WindowAssumption`
asks (a page holds an entry, as 256 bytes do), and any sequence of commands, reboots
and power failures. All of them, and `BootsEnd`, have the hypothesis `Tame` about the
constants: a length, torn or an image's, leads the parser on, never back or
nowhere. It is needed, as the run
`ConfigLoop` shows; the instance of the run `ConfigStore` satisfies it. `OnlyErasedIsWritten`
and `CompletedSaves` leave out what is written to a sector that is mistaken for an empty
one. The inductive invariant `LogInv` says that everything from the place of
the next entry on is erased, or the window is full, or the sector is all one word, and that what
was found last is a value that can have been saved. `Scan` walks the entries from 0 and an
entry is appended far behind; the central lemma (`SameWay`) is that two
sectors that agree up to the place that one of them is parsed to are parsed alike up
to there, from which `EntryIsFound` says what the parser finds of a written or torn entry.
That the walk ends at all (`EveryWayEnds`) is an induction on the distance to the
window's end, done with the smallest counterexample.

**TftpLoader_proofs**: `TypeCorrect`, `StaysInItsSectors` (`OnlyItsSectors`),
`FlashHoldsFile` (`FlashedIsFile`), `VerifyIsRight` (`VerifyTells`), `SaveIsFlash`
(`SavedIsFlash`) and `ClientHasPcb` (`NeverAsserts`), with the conditions that the
properties state (for `FlashedIsFile` automatic erase, an address at the start of a page and a
first block within one sector; for the others no save without a length; `VerifyTells` is
one direction, and silent when nothing was received), for any chip whose pages divide
its sectors, and files, addresses and sequences of commands without bound.
`LoaderAssumption` asks that a block of TFTP is whole pages and no larger than a
sector (512, 256, 64K), which keeps `spi_write()` from going on behind its data. The
inductive invariant is `Parts`: the part that says most is `Flashed`, that the bytes so
far are the file's, that the sector erased last is the one of the last byte, and
that **behind** the last byte this sector is still erased. Without the rest of the
sector the next block might be programmed over something. `ErasedHere` and
`Changed` carry `OnlyItsSectors`; `Verified` relates the count of compared bytes to the
verdict, `Saved` the count of sent ones to what the server has. `PcbInv` is for
`NeverAsserts`: flash and save lose a pcb when a transfer cannot start, and verify calls
`tftp_cleanup()`, which asserts that there is one, even then. What saves it is the part
`freePcbs = 0 => upcb`: when every pcb is lost, the client still points to the last,
because only `tftp_cleanup()` clears the pointer and it also returns a pcb.

**I2cHw_proofs**: `CallsOwnTransactions` (`OwnTransactions`), for any devices, any setup of
the encoders, any requests, and every way in which polls fall between the
controller's ticks. `I2cAssumption` asks for a budget of polls above that of two
reads with every stretch, as a million is; a device that stretches the clock for longer, but
not for ever, is outside of it (section 5). The driver and the controller run at their own
pace, and what relates them is the inductive invariant `Inv`: either every device is
alive, and the call is at one of the points of its code (`At`) in one of the
phases of the controller that are possible there (`Unseen`, `Seen`, `Started`, `Busy`,
`Over`) with enough of the budget left for the ticks that the transaction still takes
(`Owes`); or a device holds the clock for ever, and then the controller stays busy
and the call can do nothing but spend its budget and fail (`Dead`). The budget belongs in
the invariant because a call that gave up early would leave the flag set for the
next one.

**FlashView_proofs**: `CommandsShowFlash` (`ShowsFlash`), for a flash of any size, any
content, and any chunk and line that do not divide each other, and every range that
lies within the flash. `ViewAssumption` asks that
the flash divides 2^32 and that what is followed of a dump stays below 2^32 bytes;
beyond, `BytesRead` wraps, and the dump goes round again (section 5). `Chunked`
counts what is read behind the range. The invariant
`Rows` says what the lines show of the first `BytesRead` bytes, with a last line of
`BytesOnLine`; one lemma takes it from byte to byte (`RowsNext`), one from chunk to chunk
(`RowsMore`). `Regions` says that all sectors from `LastAdr` to `Adr` are alike, which is
what makes a region right when it is shown.

**RiscvPriv_proofs**: `TypeCorrect`, `HandlersKeepTheirFrame` (`TrapFrame`),
`ReturnUndoesTrap` (`TrapReturns`), `InterruptsArePrompt` (`IrqPrompt`) and
`AccessesAreMapped` (`AccessIsMapped`), for programs of any length, any page tables and any boot code. `TypeOK` and `TrapFrame`
are inductive together: what a handler has saved is only found again because
`Delegated` sends a trap to the supervisor from the two levels that its one bit can
hold, and because the bits of the two levels in the status register are apart
(`ExceptionSaves`, `ReturnsSpare`, `BitCsrSpares`). The lemmas follow `step()`: one for
`exception()`, one for the end of `execute()` (`RetiredSaves`, `RetirePrompt`), one for
the timer. `TrapReturns` then follows from `TrapFrame` in the state before the
return; `IrqPrompt` from `NoneFound`: what `execute()` looks for is what the
property calls takeable. `AccessesAreMapped` has a hypothesis on the constants,
`Aligned`: what a root table holds at boot, and every entry that a program stores, has
larger pages aligned; without it the simulator computes an address that the tables do not
mean (section 5), and the instance of the run satisfies it. Walks through a table behind the
32-bit addresses are left open by the property itself (`Beyond`). That the root stays so is
inductive (`MapInv`); the rest is the arithmetic of an address that is an entry of the
root, one of a table and an offset (`Parts`), and the walk's cases one by one
(`TranslateMaps`).

Model-checked only:

* every liveness property (`KeyboardPolled`, `TransferEnds`, `CallsReturn`), which TLAPS
  cannot do under fairness;
* `NoWaitInVain` of `Shell`, whose invariant would have to follow the bytes of a
  connection that has gone through every frame that still waits for them;
* `Arithmetic` and `DecodesOneWay` of `RiscvExec`, which rest on bitwise operators that
  cannot be proved about, and `FlatMemory`, a refinement over the same operators.

What a recursive function computes is proved where an argument on positions does, as
in `ConfigStore_proofs` (`Iterate`, `Upward`), `MainLoop_proofs` (`Recursion`,
`SameRecursion`), `FlashView_proofs` (`TookExists`) and `I2cHw_proofs`: the function's equation is first shown to have a solution, value
by value up to the last, and the least position at which a claim fails is then
impossible.

## 5. Disagreements that no run shows

Met while modelling. Those of an emulator whose host is not polite are outside
`Polite`; the others are part of the models but break no property of a run.

* `timer_sleep_us()` waits up to 1.1 % less than it was asked for at 28 320 kHz, because
  `CPU_KHZ / 1000` is 28, and hardly at all when the product does not fit 32 bits
  (timer.c:35); `timer_sleep()` returns at once when `timer_now()` wraps below it
  (timer.c:29). `SleepsWholeMegahertz` says what remains of the first. Nothing calls the
  last.
* Scrolling a region moves `screen_h - lines` rows up to its first, wherever it
  ends, against "the first row of static region after scroll" (vt100.c 281, 665).
* Cursor motion is limited to `screen_h` and `screen_w` instead of the last row
  and column (vt100.c 486, 494, 512); a backspace in column 0 folds to a column
  and row that are not there (vt100.c 138, 358). The cursor then leaves the screen
  and the next character the video RAM.
* `ESC M` at the top does not scroll as its comment says (vt100.c 908). `VtScreen`
  follows the comment, and a polite host does not send it there.
* Nothing checks the number of arguments (vt100.c 440, 443): the 17th argument of
  a sequence is written behind `args[]`, and the next ones over the pointer to the state
  function.
* What a segment holds behind a complete line is dropped, not held back (863);
  after a backspace `cp` stays where it is while the count goes on (875), so a
  segment of a backspace and a byte erases twice and loses the byte.
* A reset leaves `gShellCon` at a freed pcb and the LED green (910, 1096); the
  acknowledgements of a connection that was replaced count for the new one (835,
  930). `NeverWild` therefore excludes resets, and `StreamIntact` second
  connections.
* With no memory for `tcp_write()`, the poll of another, leaked pcb hands it the
  bytes meant for the current one (915-923). When nothing is in flight only that poll
  tries again, and lwIP's timers that bring it stop at the first wrap of the clock: the
  answer never comes and `NetWaitBufEmpty()` (1008) waits for ever.
* `NetWaitBufEmpty()` also waits for ever after a reset or after a second connection took
  over the counters in the middle of an output. `NoWaitInVain` is for neither.
* An echo while output is on its way is sent as a second copy of bytes that are
  already queued (1070), against "Send back space, space, back space" (879).
* A connection that its peer closes is forgotten but never `tcp_close()`d (903, 758):
  when the pcbs, which both servers share, are spent so, nobody can connect.
* `BytesAvailable` is an unsigned difference (1782): the 86th entry is written behind
  the window that is read, as "The new data fits" (1785).
* A line is parsed in place while input for the next one may be written into it:
  `gInputReady` is cleared before `ParseCmd()` (479). `LineTerminated` is what
  remains true.
* **save without a length** (1529) leaves the transfer type of the last command
  and returns `RESULT_OK`: after a flash it erases and flashes the file it was to write,
  and reports "Saved". `OnlyItsSectors` and `SavedIsFlash` leave it out.
* flash, save and verify with an address they cannot use go on at the default
  address 0x900000 (1522-1525, the `break` is a comment).
* verify after a transfer that did not start reports "0 bytes verified", and
  after a failed comparison prints both the failure and a number of bytes
  verified (1269-1275). `VerifyTells` is what remains.
* flash with automatic erase at an address whose first block reaches into the
  next sector programs the tail of the block and then erases it, and at an
  address inside a page garbage from behind each block is programmed where the
  next one goes. `FlashedIsFile` asks for neither.
* `CheckEmpty()` compares with the second page of `gTemp`, which is the sector
  itself (1704): a sector of equal words passes for empty, and the entry that is
  written at its start is ANDed with them. It is then not found, or found wrong:
  `CompletedIsSaved` and `ProgrammedStays` do not speak of it (`Mistaken`).
* An image with a word such as 0xfffffff8 where a length is expected leads the parser back
  just as a torn length does (1677).
* An entry that begins in the last two words of `gTemp` is programmed with words from
  behind `gTemp` in the page after it (1782-1791 with spi_drv.c 158).
* An entry torn behind its tag has an erased length, which counts as 0, and the
  next tag lands where its address would be; a commit of a full block reverts
  the address in use; both are in `Setting` as `Crash` and `Reboot`.
* The receive loop stores a frame byte after byte from the first pbuf (655),
  whatever the chain: a frame longer than one pool buffer of 592 bytes runs on
  into the next.

* `TermRecv()` reads the first pbuf of a chain (741) and tells lwIP so
  (`tcp_recved(p->len)`, 754): after segments out of order text is lost and the
  window shrinks. A telnet command that a segment's end cuts shows its rest as
  text. After a clear that gives up, or a length that was invalid, the length is read from
  two bytes of another frame, or from one byte of a length and one of its frame (644); only
  lwIP's checksums stand between that and the handlers. `pano_netif_output()` does not look whether the FIFO is full (617).
* `I2CWrite()` does not look at the acknowledgement, and `i2cwrite` reports "Success"
  (2037) for a device that is not there. A budget that is spent in the very tick in
  which the controller sees the start leaves the transaction to the next call's
  registers; the models' devices stretch within the budget or for ever, which
  leaves no room for that.
* `dump` reads a full chunk at the end (1149 takes `Len`, not what is left of it)
  and shows up to 1023 bytes more than asked, against "<flash adr> <length>" (240); in the
  flash's last chunk these are bytes of its start, at addresses behind its end, against
  "Length reduced to 0x%x to stay within flash" (1484). An address and a length whose
  sum wraps pass `GetAdrAndLen()` (1482), and a length near 2^32 dumps until the
  connection goes. `ShowsFlash` is about the range asked for.
* The simulator, riscv.cpp: a write to sstatus, sie or sip clears the bits that
  the name does not show; no CSR asks for a privilege; a table entry on the last
  level is walked into, with a shift by a negative number; a page of a larger size
  that is not aligned is taken without a fault; a table whose page number has more than 20
  bits is read at its address modulo 2^32 (385, 419), another table if there is one; with SATP clear user mode always
  faults; `sret` in machine mode asserts; when mideleg changes between the timer's
  interrupt and its acknowledgement the interrupt stays; a threshold that has
  passed, or is skipped, is never met; `fence` and `wfi` with a destination clear it;
  a shift by 32 or more, which the mask lets through, is undefined in C.
  memory.h: the bytes behind the end of a region's last word are not set
  (73). A region that ends at 2^32 has no address. riscv_main.cpp: `-r` stops one
  instruction after the PC it names (133).

## 6. What is not modelled, and the plan

Left out for good: the RTL of third-party cores, the internals of lwIP, build files
and tools, colours and fonts, logging, the layout of text. The terms of lwIP's
behaviour that the models rest on are marked external in `PROJECT.json`.

Also left out, and why:

* **Command parser**: what its callers make of arguments is in the models as the
  set of values that get through; prefix matching on characters has no state
  and no caller that depends on more than the command chosen.
* **`pano_netif_output()`**: copies a chain of pbufs into a FIFO and waits for
  nothing; what a full FIFO does with a byte is the business of the imported MAC.
* **`TermSent()`, `TermPoll()`, `TermError()`**: act on a print buffer that stays empty.
* **i2c.c**: a bit-banging driver that nothing in main.c calls.
* **gpio, aread, awrite, info, link status, LEDs, boot**: straight-line code on
  registers. `ReBoot()` writes an address and a trigger bit for gpio.v.
* **The AXI adapters of src/fpga**: their handshakes are with an imported
  interconnect whose rules are not in the tree.
* **The simulator's console and statistics** and the interface for co-simulation.

Room that a further development would use:

* `CmdParser` against a reference definition over short lines.
