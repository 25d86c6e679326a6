# A verification project for sbu-operating-system

The repository is a small 64-bit operating system in C for one processor: a boot
path, a physical frame allocator, four-level paging with demand faults, a PS/2
keyboard driver with line input, a text console, an ELF loader over a read-only
tar archive, tasks with `fork`, `execve` and `waitpid`, descriptors, a libc and a
shell. This directory holds TLA+ models of it, TLC runs that check them, and
TLAPS proofs of what matters most. Paths below are relative to the repository.

Run `tlc -config X.cfg M` and `tlapm M.tla` in this directory. `PROJECT.json`
lists runs, properties, mutants, findings, hazards, theorems, and for each
definition the source lines it models.

## Inventory

| component | state it keeps | operations | what makes it hard |
|---|---|---|---|
| physical memory (`sys/physmemory.c`, `sys/main.c`) | the bitmap `freeList` at `physfree`; `maxBase`, `maxEnd` | `makeFreeList` per memory map entry, `allocatePage` | an uncleared bitmap, unaligned and overlapping entries in any order, exhaustion |
| boot page tables (`sys/paging.c`) | the kernel's tables | `setUpPageTables`, `identity_mapping`, `map_vir_phy` | tables that are only partly cleared, how far the direct map reaches, addresses that wrap at 2 GB |
| entry code (`sys/irq.s`, `sys/irq.c`, `sys/syscalls.c`, the wrappers of `libc/`) | saved registers, the handler table | stubs, dispatch, wrappers | registers lost on the way back, an error code on the stack, interrupts within a read |
| keyboard (`sys/keyboard.c`) | `scanBuffer`, `scanLength`, `scanFlag`, shift and control flags | `keyboard_handler` (interrupt), `readFromStdin` (system call) | the handler interrupts the reader anywhere; no bound on the buffer |
| console (`sys/kprintf.c`) | `x`, `y`, `vPointer`, video memory | `kprintf`, `clearChar`, `clearScreen`, scrolling | three variables for one cursor, rows that wrap in one path and not in another |
| demand paging (`sys/elf64.c`, `sys/irq.c`, `sys/paging.c`) | page tables, `mm_struct` with its areas and `brk`; what pages hold | `load_binaries`, the page fault handler, `grow_heap`, `map_vir_phy_userspace` | faults in any order, exec over a used address space, frames shared after fork, stale translations, limits off by one |
| processes (`sys/process.c`) | `processArray`, `currentTask`, `nextTask`, the list through `nextTask` fields, kernel stacks | `getPid`, `fork`, `waitpid`/`contextSwitch`, `execve` | a switch that saves nothing; stack arithmetic; a list kept by two globals |
| descriptors (`sys/process.c`, `sys/dir.c`, `libc/close.c`) | `fd[20]` of each task | `open`, `read`, `close`, inheritance | `getfd` answers -1 unchecked; the wrapper of `close` |
| tarfs and paths (`sys/tarfs.c`, `sys/dir.c`) | `tarfs_fs[100]`, `cwd` | archive walk, `getAbsolutePath`, `chdir`, `open`, `read_dir`, `getFileOffset` | two walks over one archive, `..`, strings written over by the kernel |
| shell (`bin/sbush/`) | a line, tokens, the environment, a script | tokenizer, built-ins, exports, scripts, `cat`, `sleep` | strings next to each other without bounds, counts that overflow |
| libc (`libc/`) | the heap pointer, the buffer of `printf` | `malloc`, `printf`, wrappers | an uninitialized variable, int and word arithmetic, a buffer never emptied |

Interactions: `sys/main.c` reads the loader's memory map into the allocator,
builds page tables up to the limit it computed, and starts the first process.
Everything that needs a frame calls `allocatePage` or `kmalloc`. User programs
enter through `int 0x80` with interrupts off; only `readFromStdin` turns them on
again, so only it is interrupted inside the kernel. The timer handler never
switches tasks: `waitpid` is the only switch. `open` writes into the task
structure the list of tasks runs through, and `read_dir` into the string the
shell handed over.

## Modules

| module | models | correspondence |
|---|---|---|
| `FrameAllocator` | abstract: a pool of frames handed out in ascending order, or refused | what callers of `allocatePage` may rely on |
| `PhysMemory` | the bitmap allocator and the loop over the memory map | `freeList` is the bitmap as sets of busy bits per word; `makeFreeList`, `AllocatePage`, `AllocateFails` are the functions; `FinishBoot` fixes how far the direct map reaches. Refines `FrameAllocator` (`Implements`) |
| `BootTables` | `setUpPageTables`, `identity_mapping`, `map_vir_phy` | every frame is looked at as a table of words; a step enters one page; what `memset(.., 512)` leaves of a table is what the memory held |
| `Traps` | the stubs of `irq.s`, registration and dispatch, `my_syscalls_function`, the wrappers of libc | a register's value says who put it there; a stub runs up to its handler in one step and from there to `iretq` in another; entries nest |
| `Keyboard` | `keyboard_handler` and `readFromStdin` | one action per kind of key, each the whole handler; the reader byte by byte, because a key may fall between any two bytes |
| `Console` | `kprintf` of strings and formats, the echo, erasing, clearing, scrolling | `x`, `y` and `vPointer` are kept apart; the ghost `rows` is what a terminal would hold |
| `DemandPaging` | one address space: limits, areas and tables | loading one page per step, then faults; `MapPage` is `allocatePage` and the whole walk of `map_vir_phy_userspace`; frames are a counter, which `PhysMemory` justifies (`AnswersAscend`) |
| `AddressSpace` | what processes find in their memory: the copies of `load_binaries`, the tables `fork` makes, `execve` over them, faults, stores | `space[p]` is a process's table, `mem` the frames, `tlb` translations the processor may still use |
| `FileTable` | descriptor calls of the running task | `node[t][i]` is `t->fd[i].node`; `link[t]` is `t->nextTask`, which is also `t->fd[-1].node` in the packed structure |
| `Process` | tasks, composed with `FileTable` (EXTENDS; `Files` is a step of it by the running task) | `next` and `current` are the globals; kernel stacks are depths in words and the depths at which frames of `fork` end |
| `Tarfs` | the archive, the table `tarfs_init` makes of it, the walk of `getFileOffset` | one header per step; a name is its components, sizes are octal digits |
| `Directories` | `cd`, `ls`, `cat`'s open and `execve`'s lookup, through libc and `sys/dir.c` (EXTENDS `Tarfs`) | a command is one step; `wiped` are the bytes of literals `read_dir` zeroed |
| `Shell` | the loop of `main`, the tokenizer, the commands, scripts, `setenv` | a line is its words; `env` is the memory of `envvars`, `path` with `PS1` behind it |
| `Libc` | `malloc` and `printf` | the ghost `blocks` is what was handed out; ints and words have their widths; the buffer is what was ever stored |
| `MC*` | constants for TLC | |
| `*_proofs` | theorems | `Keyboard_proofs` also holds those of `Console`, `Process_proofs` those of `FileTable`, `Libc_proofs` those of `Shell`, `BootTables_proofs` those of `Directories` |

`Process` is composed with `FileTable`, `Directories` with `Tarfs`. The others
meet through what they assume: `DemandPaging` and `AddressSpace` take frames that
`PhysMemory` shows are distinct and ascending; `BootTables` takes the limit that
`PhysMemory` computes, and writes to the frames it is given wherever they lie (a
stale one may lie beyond that limit, `DirectMapReaches`); `Shell` takes a read line from
`Keyboard` and leaves to `Directories` what a name stands for.

A system call or a fault is one step where interrupts stay off in it. The few
things the C code leaves undefined are choices: what the bitmap and the frames
of page tables held before boot (every value, a set of them), what entry 511 of a
fresh top page table holds (`fork` resets the machine or not), what unrestored
registers hold (a resumed `fork` answers 0 or -1, or goes astray), when the
processor drops a translation. `malloc` adds to its size a variable it does not
initialize when the size is a multiple of 8; the model has what the build does,
which adds 8. The layout facts used are those of `src/kernel` and of the programs
under `rootfs/` as built: `scanFlag`'s low byte follows `scanBuffer`; 55 words
lie between the gate and the label in `fork`; `task` is packed; "./" and "exit"
follow the literal an `ls` typed alone hands over. A machine that was reset,
halted or is astray is not followed: `machine` (or `stage`, `pc`) says so and no
action is enabled, which is why those runs have `CHECK_DEADLOCK FALSE`.

## Runs

| run | shows | bounds and why they are enough |
|---|---|---|
| `phys_memory` | a frame is handed out once (`NoFrameTwice`), never from the image or the bitmap (`ImageAndBitmapKept`), only from RAM or a bit that was clear before boot (`RamOrStale`); no whole frame of RAM that the scan covers is lost (`NoRamLost`); it implements `FrameAllocator` (`Implements`) | pages of 4 bytes and words of 3 bits keep the ratios that matter (unaligned entries, a word boundary, a scan shorter than the bitmap); six maps with a frame two entries share, ends on and inside a frame, holes, both orders and RAM that ends below the scan; every leftover bitmap |
| `boot_tables` | the direct map is right up to the last entry that was cleared (`DirectMapRight`), and nothing else is mapped where memory was clear (`NothingElseMapped`) | tables of 8 entries of which 4 are cleared, as 64 of 512 are; memory that ends below, at and beyond the last cleared entry; eleven leftovers: none, entries that all point to one frame (a table in use among them), in every table, in every second one or behind the cleared entries only, and mixtures of all frames |
| `traps` | the kernel stack is as deep after an entry as before it (`StackBalanced`), what interrupted code may rely on is given back (`Transparent`), arguments and answers are in the registers the other side uses (`ArgumentsArrive`, `AnswerArrives`) | a call and an interrupt or a fault within it, which is as deep as the code nests (`NestingBounded`); all wrappers |
| `keyboard` | a read returns exactly what was typed since it began unless the line ran past an end of the buffer (`DeliversLine`); it starts empty (`StartsFresh`); the machine stops only when an empty line was erased (`StopsOnlyWhenErased`); `scanFlag` is spoiled only by a line longer than the buffer (`HangsOnlyWhenOverlong`); Enter ends the read (`EnterEndsRead`) | two cells: a line fits, fills and overruns the buffer, and is erased below zero; six keys, one of each kind |
| `console` | the three variables of the cursor agree where the code keeps them so (`CursorAgrees`); the screen then shows what a terminal would (`ScreenShowsText`) | rows of two cells and two rows before scrolling: texts that fill a row, pass it, end in a newline, with zeros or another text behind them; lines typed up to two keys, and the scroll |
| `demand_paging` | no frame serves two uses (`FramesExclusive`); the heap below `brk` and the image stay present (`HeapBelowBrkPresent`, `ImagePresent`); a fault moves no page but the one at `brk` (`FaultKeepsPages`); the growable part of heap and stack becomes present (`GrowableBecomesPresent`) | pages of 2 bytes, tables of 2 entries: three levels of tables are shared and not shared; 40 frames allow two execs and growth, and running out |
| `address_space` | a frame is under the same page wherever it is shared (`SameFrameSamePage`); text is what the file begins with (`StartOfFileLoaded`); loading changes nothing of another process, whose frames fill the table it loads into (`LoadLeavesOthers`); a store reaches the process's own pages, or a heap page growth replaced (`StoreReachesOwnPage`) | two processes and two programs, one whose text and data share a page; a stack of one page right behind the heap, so that `HEAP_END` itself is a fault the heap grows for; stores to data and to the heap; 12 frames allow fork, exec in both and growth |
| `process` | inherited descriptors keep their files (`HeldStayOpen`), the list keeps all tasks although `open` overwrites `nextTask` (`ListReachesAll`), only one switch survives (`OneSwitchSurvives`), tasks behind the first two never run (`BehindNeverRuns`) | three forks, pids run out, children of children, `execve` before and after a switch; every descriptor call of `FileTable`, which fills and empties a table of two; FRAME is the real 55; six structures so that one is always left |
| `directories` | `ls` shows the children (`LsShowsChildren`); `execve` finds a file if the contents of the first one, taken for headers, lead on (`ExecFindsFile`); `cd` and `open` reach what the path names (`CdReaches`, `OpenFinds`) | blocks of 8 bytes, files of 0 to 17 bytes, octal sizes that read differently in base ten; eleven archives, whose first entry is a directory or a file that ends in or on a block and holds text, zeros, digits or the name of a program where a header would have them; every path of at most three of six components |
| `shell` | a script runs its lines in order (`ScriptInOrder`); exported values are kept while no copy for `path` leaves its cells (`EnvKept`); every line comes to its end (`EveryLineEnds`) | 42 lines, one of each form of each command, empty words with and without others behind them; scripts with lines before the shebang, blank lines and a read; `path` of 6 cells and `PS1` of 4, which exports fill and run over |
| `libc` | blocks are apart (`BlocksApart`); what `printf` shows of a number reads back as the number (`ReadsBack`) | ints of 8 bits and words of 16: sizes below zero, at a multiple of 8, at the largest int, where rounding overflows; numbers around every width; a heap of five blocks |
| `close_frees` | violation: `open` is refused to a program that holds nothing (`RefusedOnlyWhenHeld`) | the instance of `FileTable` |

Every property has a mutant in `PROJECT.json`: an operator beside the mapped one
with a plausible bug, under which TLC finds the property violated. The type
invariants are theorems, but for those of `Console`, `Directories`, `Shell` and
`Libc` (`ScreenTypeOK`, `DirTypeOK`, `ShellTypeOK`, `TypeOK`), of which the proofs
need a part only; they hold on the same instances and can be added to their `.cfg`.

## Where the code departs from what the repository says

`close_frees` is the run of the first row. The other statements are defined
beside the properties of their module. To see one refuted, name it in the
`.cfg` of the module in place of the properties (without `SYMMETRY`); the
constants are those of the `.cfg` but where the row names others.

| statement | the code | the repository says |
|---|---|---|
| `FileTable!RefusedOnlyWhenHeld` | `close` always clears entry 0 (`libc/close.c:10`) | `README:51` |
| `PhysMemory!DirectMapReaches` | a stale bit hands out a frame beyond the direct map (`physmemory.c:22`) | `main.c:47`, the limit the map is made for |
| `Keyboard!ShiftFollowsKeys` | only 0xAA clears `shiftFlag` (`keyboard.c:118`) | the table has a right shift key (`keyboard.c:81`) |
| `DemandPaging!StackReachesMaxSize` | nine pages of stack (`irq.c:11`) | `README:30`, ten pages |
| `DemandPaging!HeapReachesEnd` | the last page of the heap is never mapped (`irq.c:112`) | `README:33`, `libc/malloc.c:58` |
| `Process!ForkReturns` | the child's kernel entry is never written (`process.c:230`, `:403`) | `README:58` |
| `Process!ChildGetsZero` | the child compares unrestored registers (`process.c:484-493`) | `bin/test2/test2.c:109` |
| `Directories!CdReportsMissing` | `chdir` answers what happens to be in rax, never -1 (`dir.c:91`) | `README:38`, `sbush.c:152` |
| `Directories!MissingRefused` | an unsigned offset is compared with 0 (`elf64.c:48`) | `process.c:511` |
| `Directories!ExecFindsAlways` | the contents of the first file are taken for headers (`dir.c:217`) | `process.c:511` |
| `Directories!CdAloneStays` | `read_dir` clears literals of the shell (`dir.c:124`) | `README:38` |
| `Console!TextReadable` (COLS = 3, BOTTOM = 1, MAXPOS = 8, MAXLINE = 4, Texts <- MCLines) | the loop for `%s` neither wraps nor scrolls (`kprintf.c:189`) | `README:43` |
| `Console!ClearBlanks` (the same, without MCLines) | 23 rows are cleared (`kprintf.c:61`) | `README:39` |
| `Shell!PromptFollowsExport` | `setenv` appends without a bound (`sbush.c:177`) | `sbush.c:184` |
| `Shell!ShortPathHarmless` | `strcat` copies what lies behind an empty word (`libc/string.c:89`) | `sbush.c:184` |
| `Shell!ScriptRefused` | the search for the shebang has no end (`sbush.c:323`) | `sbush.c:347` |
| `Shell!CatReturns` | up to 1000 bytes into 100 (`libc/read.c:10`) | `README:43` |
| `Shell!SleepsLongEnough` | the count overflows an int (`sbush.c:228`) | `sbush.c:265` |
| `Traps!OnlyRaxChanges` | the stub pops rax into r13 (`irq.s:77`) | `libc/puts.c:8-10` |
| `Traps!FaultNotNoticed` | the stub pops the error code into rbp (`irq.s:146`) | the message at `irq.c:133` |
| `Traps!ExitEnds` | `sys_exit` is empty (`syscalls.c:123`) | `README:59` |
| `Traps!IrqHandled` | `sti` before any handler is registered (`irq.c:201`) | `idt.c:67` |
| `BootTables!KernelMapped` (FANOUT = 4, CLEARED = 4, KERNEL = 4, FREELIST = 5, VIDEO = 1, FRAMES = 48, Maxes <- MCBigMaxes, Leftovers <- MCNoLeftovers) | the direct map wraps at 2 GB (`paging.c:229`) | `README:24` |
| `AddressSpace!DataLoaded` | a segment is copied from 64 times its offset (`elf64.c:88`) | `malloc.c:14`, `README:32` |
| `Libc!ShowsItsText` | the buffer is never emptied (`libc/printf.c:149`) | `printf.c:158-160` |

Each of them is about one place; the run of the same module states what holds
around it. `console` speaks of texts the code keeps apart (the ghost `sound`),
`shell` of exports that stay in their cells, `directories` of archives whose
first file leads on, `address_space` of text and not of data.

## Fairness

- `Keyboard`: WF on the reader's steps. One processor runs it and nothing
  preempts it for good; no key is ever assumed to be pressed. `EnterEndsRead`
  says that once Enter was taken the call returns (or stops the machine).
- `DemandPaging`: WF on the fault handler. A faulting instruction restarts at
  once and faults again, with interrupts off in the handler.
- `Shell`: WF on the shell's own steps, not on the typing of a line. The shell is
  the running task; `EveryLineEnds` says that a line, or a whole script, leads
  back to the prompt or to a stop that the model names.
- All other modules: safety only.

## Proofs

All theorems hold for every value of the constants the assumptions of the module
allow.

`PhysMemory_proofs` proves every property of the run `phys_memory`: types, no
frame handed out twice, image and bitmap kept, RAM only, no RAM lost, ascending
answers, and the refinement of `FrameAllocator`. The invariants are not
inductive alone: `NoFrameTwice` needs that a frame handed out is busy in the
bitmap and that its word and bit are its own (`PageSplit`), `ImageAndBitmapKept`
that reserved frames are busy after each entry of the map and not only at the
end, `RamOrStale` that a clear bit was cleared by an entry or was clear before, and
`NoRamLost` that the whole frames of the entries read so far are free, or reserved
for the image (`RamIsFree`): an entry frees its own (`WholeFrameFreed`) and takes
none of another's but the reserved ones.
`Inductive` proves the conjunction, the others follow. Assumptions: sizes are
positive; the words the scan reads lie in the frame at `physfree`; the maps lie
within the bitmap; `physfree` is page aligned.

`Keyboard_proofs` proves the safety properties of the run `keyboard` for every
size of the buffer and every keyboard table (`OnlyOverlongHangs` among them), and that the handler changes nothing
the reader's loops walk over (`HandlerKeepsOff`). What a key does is a function on
the value `Scan`; `PutOK`, `BackspaceOK` and `EnterOK` show that it keeps `ScanOK`:
unless spoiled, the buffer holds the line as far as it was typed, the byte behind
the buffer included. `DeliversLine` alone is not inductive: `IInv` adds that
`scanFlag` is set only while the reader spins (`Armed`), so that from Enter on only
the reader moves, and that the copy has got the line up to its index (`Copied`).

The same module proves of the screen (`Console`), for every number of rows and
columns, every text and every line that is typed, that the cursor agrees and that
the cells show what a terminal would hold. Both follow from one fact about the
value `scr` (`Fits`): while `sound` is set, `vPointer` is the cell of `x` and `y`,
and each row of the screen is the line the ghost `rows` has there, blank behind
its end. Every part of a call keeps it: a character put, a row wrapped, a scroll,
an erasure. The text of a write is put character by character, so that the end of
it is reached by induction over the number of characters. Assumption: a screen of
at least one row and column, and texts of characters.

`Process_proofs` proves every property of the run `process`, and that pids are
unique, for any number of tasks, pids, files and entries and any odd `FRAME`.
`ListReachesAll` is stated with closed sets and not with recursion, so that it can
be proved: a set that holds the running task and is closed under the followed
fields is all of `tasks`. It is preserved because the field that `open` overwrites
belongs to the running task (`OnlyCurrentOverwritten`), and both `fork` and
`waitpid` rewrite that field before it is followed. `OneSwitchSurvives` needs
`Stacks`: frames of `fork` end at odd depths, a child of a child is left at an even
one, and after the first switch the next task is always one that can not be
resumed. Of `FileTable` alone it proves types, and that descriptors that are held stay
open (`DescriptorsStay`).

`Traps_proofs` proves every property of the run `traps`, and that the kernel is
never entered more than twice within itself (`NestingBounded`): the bound `DEPTH`
of the run bounds nothing. One part is about a stub as words and places: where a
register lies in what the stub saved, which pop reaches which word, so what comes
back (`StubRestores`) and what a handler finds (`FieldSaved`). The other is the
invariant: the stack is the frames of the entries one on top of the other, an
entry of a system call has the registers its wrapper loaded, and a stub never runs
without its handler, because only `irq_main` runs before all are registered.

`BootTables_proofs` proves both properties of the run `boot_tables` for tables of
any size and memory that ends anywhere, and that the kernel is mapped when cr3 is
loaded if memory is not longer than what the short `memset` cleared
(`KernelStays`). Two invariants of the tables carry it: of the little memory,
whatever the frames held before (`Little`: the cleared entries of the third table
lead to tables of their own, and the pages mapped so far lead to themselves), and
of the whole tree where they held nothing (`Tree`: each table has a level and the
part of an address that leads to it, each entry leads to the table of the next
level with one offset more, and an entry of the last level is direct).
`map_vir_phy` keeps each of them whatever page it is called for. Assumptions: the
kernel ends below 2 MB and the bitmap below 4 MB, and there are frames enough for
the tables the calls take before `identity_mapping`.

`DemandPaging_proofs` proves every safety property of the run `demand_paging`, and
that every present page can be walked to (`WalkReachesPage`). The
memory is a value in the model, so a walk is treated on values: `Sound(m)` says
that its frames are apart (`Apart`) and that every page it has can be walked to
(`Reach`), and `MapSound` that a walk keeps both and enters one page. A frame that
was handed out and is entered nowhere (`Loose`) stays so over the three levels
until the page takes it. `IInv` adds that `brk` begins a page and all below it is
present (`HeapInv`), that an area is present, or is being loaded and present as
far as the loader got (`AreasInv`), and that the page of a fault is not present
(`FaultInv`), which is what `FaultKeepsPages` needs. Assumptions: the layout of
the address space, and binaries linked below the heap.

`AddressSpace_proofs` proves every property of the run `address_space`:
`SameFrameSamePage`, `LoadLeavesOthers`, `StoreReachesOwnPage` and
`StartOfFileLoaded`. Its `IInv` is the types, that what tables hold was handed
out (`SpaceHandedOut`), that a frame is under one page (`SamePage`), and that while
a program is loaded a translation in use leads to a frame of no other process
(`TranslationsOwn`): a stale one can not reach the parent's copy of a page,
because the loader replaces the entry before it stores. For `StartOfFileLoaded`,
`SInv` adds the same of the headers the loader is done with (`Starts`), that a
translation is of the page it is used for (`TranslationsPage`) and, while a program
is loaded, of a page the program was given (`TranslationsLoad`), and that who
shares a page of its program runs the same program (`SharedSameProgram`): else a
store of one would be a word missing in the file of another. Frames are distinct
and ascending by assumption, which is what `PhysMemory_proofs` shows.

`Libc_proofs` proves that blocks are apart, and end to end (`NothingLost`), for
every width of int and word and every heap. A rounding that overflows yields a
negative size; the pointer then leaves the address space and the block is refused.
That needs `HEAP_END + ALIGN <= INTMAX`, as the build has it.

It also proves that every number `printf` printed reads back as the number that
was passed (`NumbersReadBack`), from `Decimal` and `Hexadecimal`, which say of every
number that the digits are a numeral of it. The conversions are recursive
functions; their values for every number are reached by induction over sets of
naturals, which needs no operator parameter.

The last part of the module proves both safety properties of the run `shell`.
`ExportsKept`: a place in the memory of `envvars` holds a string when its
characters lie there with the first NUL behind them (`HoldsText`); `CopyHolds`,
`CopyKeeps`, `CatHolds`, `EmptyCatHolds` and `CatKeeps` say what `strcpy` and
`strcat` do to the string at their place and to the one beside it. `strcat` is the
do-while of the source: of an empty word it copies the NUL and the next word. The
ghost `reach` is how far such copies went; while it is below the cells of `path`
none reaches `PS1`. That a short path is enough is false (`ShortPathHarmless`). The exported value is
one of the lines' because the words of a command are the words of its line
(`WordsOf`). `ScriptsRunInOrder`: `ScriptInOrder` is not inductive; `ScriptInv`
adds that what is left of the script is the end of the file, that before the
shebang no line was one, and which line is being run while a command waits for a
read (`InScript`). Assumption: exported values are C strings that fit in the
memory that is followed (`ShellConstants`).

The second half of `BootTables_proofs` proves every property of the run
`directories`, for every archive `tar` makes of a list of `find`, however many
entries, components, digits and typed names there are. `TableInv` is the inductive
invariant: the walk is at the header of the entry the table has no place for yet,
and each entry of the table is that of the archive, its parent the first entry
named like its directory. Three lemmas carry it: the digits read in base ten and
turned back digit by digit are the octal size (`SizeRead`); a step from a header
gets to the next (`Headers`); and the directory of an entry is in the table before
it, which is why `getPar` finds it although it searches a table half made
(`ParentFound`). With `TableInv`,
- `Listed` (`ls`): the entries behind a directory's number that begin with its
  name and have its number are those whose directory it is (`ShowsChildren`);
- `FilesFound` (`execve`): its walk begins in the contents of the first entry. If
  every block of those leads on (`LeadsOn`: it is neither a zero nor the name, and
  its digits lead no further than the second header), then by `BlocksBefore` the
  walk meets that header, and then every other (`FoundThere`);
- `CdGoes` and `OpensFile`: the working directory is always one (`CwdInv`); what
  `getAbsolutePath` puts together is the name of that directory with the
  components behind it (`AbsoluteIs`), and going component by component leads
  there or nowhere, because the directory of a directory is in the archive
  (`Leads`).

The recursive functions in these definitions (`Numeral`, `At`, `decimalSize`,
`getFileOffset`, `Resolve`) are reached by `Recursion`: a function that obeys the
equations exists, so `CHOOSE` obeys them, and what it is at each argument follows
by induction over a set of naturals (`NatInd`). Assumptions (`TarfsAssumption`,
`DirectoriesAssumption`): the archive is what `Made` says of `Makefile:60`: `find`
prints a directory before what is in it, no name twice and none with dots, and
`tar` ends the names of directories in a slash; it fits in `tarfs_fs`; names typed
are not empty. The contents of a file may be anything: a block of them, taken for a
header, has a name, a flag and digits like any other (`Block`). Digits make
numbers of at most INTMAX, of which the cast at `dir.c:228` changes nothing; behind
the archive the memory reads as zeros.

Only model-checked: the three liveness properties, `EnterEndsRead`,
`GrowableBecomesPresent` and `EveryLineEnds`. They need weak fairness, and so
ENABLED, which is beyond the prover. Every other property a run checks is a
theorem. What is proved of these three is why they hold, a variant that no step
undoes:
- `ReaderGoesOut`: once Enter has cleared `scanFlag`, a step brings the reader to
  the next loop or the current loop nearer to its end, or is a key, which leaves it
  where it is (`GoesOut`); what is left of a loop is a natural number, and while
  the reader copies a step of it can be taken (`ReaderHasWayOut`);
- `GrowableAdvances`: a fault in the stack window or the growable heap is over, or
  `brk` has gone up one page (`Advances`), since below `brk` all is present and
  `brk` stays below `HEAP_END`; and such a fault never stops the program
  (`GrowableRunsOn`);
- `LinesComeToAnEnd`: from a line typed the shell goes to a script at most once,
  and each step of a script leaves less of it (`GoesOn`).
Fairness has only to say that these steps are taken.

## What is left

1. `LineInput`: an abstract line discipline, refined by `Keyboard` as long as
   the line fits, and echoed by `Console`.
2. Exhaustion of frames inside `Process`, whose callers never look at a 0 from
   `allocatePage`.

## Not modelled

- `sys/gdt.c`, `sys/idt.c`, `sys/outbandinb.c`: processor tables filled once,
  and port I/O. What `idt.c` says of the lines is quoted by `IrqHandled`.
- `bin/ls`, `bin/test`, `bin/test2`: each calls one wrapper after the other. What
  `test2` expects is quoted by `ChildGetsZero`.
- Layout of what is printed beyond text and cursor; `taskState`, which is written
  once and only printed by `ps`; colours.
- A '\r' on the screen, which no text of the repository has. Behind the NUL of a
  text lies one more text (`Behinds`), and zeros behind that.
- The blank that each `write` of libc shows first (`libc/write.c:8`): `shown` in
  `Libc` is the text alone.
- `%d` of a negative number, which prints the glyph below '0' and more; no
  caller of the repository prints one.
- The string functions of libc, which are pure: the models take their effect.
- Reads of descriptors other than -1 to 19: `open` answers no other.
- The bound of `tarfs_fs`: it has 100 entries, the archive of the build 13. The
  mask of 24 bits on cr3: two constants, and no run hands out so many frames.
- The copies under `include/sys/*.c`, which no rule builds, and under
  `libc/libc/`: `libc.a` holds them too, but a program is linked with the member
  that comes first, the one of `libc/`.
- The boot loader and kernel images under `rootfs/`, which are third-party.
