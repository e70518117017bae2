# Verification of kajijOSta

TLA+ models of kajijOSta, a 32-bit teaching operating system in C (`src/`): its
start-up and interrupts, its disk driver, its FAT32 file-system driver, its page-frame
manager, its console and its shell are modelled, model-checked with TLC, and their
invariants and action properties proved with TLAPS for every value of the constants.
Line numbers below are those of the files under `src/src/`.

## 1. The system

| Part | State it keeps | Operations | Talks to |
|---|---|---|---|
| File-system driver, `fat32.c` | the cached FAT (`fat32_driver_state.fat_table`); on disk the signature, the FAT (cluster 1), directory tables and data clusters | `initialize_filesystem_fat32`, `create_fat32`, `read`, `read_directory`, `write`, `delete` | disk driver below, system calls 0-3 and the inserter above |
| Page-frame manager, `paging.c` | `page_frame_map`, `free_page_frame_count`, the kernel's page directory | `paging_allocate_user_page_frame`, `paging_free_user_page_frame` | start-up (one page for the shell) |
| Keyboard driver, `keyboard.c` | `keyboard_input_on`, a one-key `keyboard_buffer`, `print_mode`, row and column | `keyboard_isr` (interrupt), `get_keyboard_buffer`, `puts`, `puts_char`, `puts_newline`, `reset_keyboard_state`, `keyboard_state_activate` | framebuffer below, system calls 4-9 above |
| Framebuffer, `framebuffer.c` | 80x25 cells and the hardware cursor | `framebuffer_write`, `framebuffer_set_cursor`, `framebuffer_clear` | video memory |
| Interrupts and system calls, `interrupt.c`, `idt.c`, `intsetup.s` | the masks of the PIC, the gates, the stacked frames | dispatch of `int 0x30` and of the keyboard interrupt, both through interrupt gates (interrupts off until `iret`), acknowledgement | all of the above |
| User shell, `user-shell.c` | the line (`input`, `i`), `current_directory`, `directory_stack`, `top` | fetch-and-echo loop, `handle_command`: `cd ls mkdir cat cp rm mv find clear` | system calls only |
| Disk driver, `disk.c` | the ATA controller's | `read_blocks`, `write_blocks` | ports |
| External inserter, `external-inserter.c` | a disk image in memory | `delete` and `write` through `fat32.c` | a host program |
| Start-up, `kernel.c`, `kernel-entrypoint.s`, `gdt.c` | which tables are in place, what page 0 is mapped to | the loader, `kernel_setup` | every part, once, with interrupts on from the third step |
| Strings, `string.c`; ports, `portio.c` | none | `get_string` (cuts its argument up in place), `strcmp`, `memcpy`; `in`, `out` | |

What is hard about it:

* **Power failure.** Nothing is journalled. `write` puts the FAT, the data and
  the parent's entry on disk one after the other, cluster by cluster; `delete`
  the entry and then the FAT; formatting the signature, the FAT, the root. The
  FAT alone is four sectors. What a failure between any two sectors leaves
  depends on that order alone.
* **A cache that is written through by hand.** The FAT is read once and used from
  memory ever after.
* **Sequences of legal calls**: directories inside directories, holes left by
  deletions, allocation from a nearly full disk, the self entry in slot 0 that
  `read`, `read_directory` and `delete` scan and `write` does not.
* **Eight-bit counts** of clusters and of screen positions.
* **An interrupt that edits the screen** while the shell edits the line, with one
  byte of buffer and a mode flag between them.
* **Two numberings of one memory**: pages and frames.
* **Two machines in lockstep by polling**: the disk driver and its controller count
  the same words in loops of their own, and the driver looks at the wrong ready bit.
* **Interrupts while the tables they go through are being filled**: they are let in
  before there is a task state or a kernel stack.
* **A line that is cut up in place**, by words, through copies.

What makes each part correct:

* driver: what the root leads to on the disk is allocated, whole and a tree at
  every instant, so that a power failure may come at any time; names are unique in
  a directory; no cluster is lost while the power stays on; a call works on its own
  directory only; the cache is the disk's FAT between calls; calls return; and all
  of it together: the driver behaves as an atomic store of named files.
* page frames: the count counts, and no more pages are mapped than frames were given out.
* console: the line that will be run is the line on the screen, if it was typed in an
  order the code can follow, and a line that was not does not spoil the next.
* shell: the directory it believes it is in is the one it works on, no command but
  `rm` loses data (nor the inserter, the shell it replaces apart), `find` tells what is there, under conditions that section 2 names;
  the names a command passes are the words of the line.
* disk driver: with its controller it is a disk of blocks; calls return.
* start-up and interrupts: whatever interrupts whenever finds its tables, handlers do
  not nest, no key blocks those after it, and the shell starts.

Hazards are listed line by line in `PROJECT.json`.

## 2. Modules

```
FileStore <=refines= FAT32Store ---+<------------------+
    ^                              +--> MCFAT32        |
    |  FAT32 <- FAT32Safety <- FAT32Claims+            |
    |                ^------ FAT32_proof <--- FAT32Store_proof
    +-- Shell <- MCShell       Shell <- Shell_proof
BlockDevice <=refines= ATADisk <- MCATADisk   ATADisk <- ATADisk_proof
Paging <- MCPaging             Paging <- Paging_proof
Console <- MCConsole           Console <- Console_proof
CommandLine <- MCCommandLine   CommandLine <- CommandLine_proof
Boot <- Boot_proof
```

### FAT32: the driver, the disk and the power

One step is one disk write, or a whole call that writes nothing.

| Variable | Code |
|---|---|
| `signed`, `diskFat`, `content` | the boot sector, cluster 1 and clusters 2.. of the disk |
| `fat_table` | `fat32_driver_state.fat_table` |
| `dir_table`, `slot`, `slot_buf`, `j` | locals of `write` and `delete` |
| `sector` | the FAT sector `write_blocks` is at |
| `req`, `reply` | the request of the call, its return code and the caller's buffer |
| `pc` | where the call stands; `off` without power, `hung` in a walk that left the FAT |

`write` is `WriteRefuse` or `WriteStart`, then for a folder `WriteChild` (the new
directory's own table), then per cluster `LinkCluster` (the cached FAT),
`FlushSector`... `FlushLast` (the FAT goes to disk) and `WriteBlock` (the data), and
last `Commit` (the parent's table). `delete` is `DeleteRefuse` or `Delete` (memory),
`Unlink` (the parent's table) and the flush. `read` and `read_directory` are one
step each. `Format`, the flush and `FormatRoot` are `create_fat32`; `Mount` is the
start on a signed disk; `Crash` loses memory and keeps the disk.

Abstractions, each with its reason:

* a name stands for name and extension, all callers pass zeros as extension;
* a payload is a model value with a length in clusters; a block on disk is the pair
  (payload, index), so a short, mixed or stale chain can be told from a whole one;
* a sector is written entirely or not at all; a directory write changes one sector
  that matters and is one step; a data cluster is written before anything leads to
  it, so tearing it is not visible; the FAT is torn sector by sector;
* the clusters a chain visits are the least set closed under the FAT (`ChainSet`)
  and `Walk` is a recursive function: no RECURSIVE operator, so the module can be
  proved about;
* when the count of clusters wraps to 0, `slot_buf[0]` is never assigned: the entry's
  cluster is any cluster number.

The volumes it starts on are the two the makefile produces: an image of zeros
(`makefile:71`) or the sample image (`makefile:28`), an empty formatted volume
whose root is allocated. Clients are the shell, the kernel and the inserter. They name directories
that exist; the constant `Callers` says which odd calls they also make: `own_name` (a
directory's own name inside itself), `populated` (delete a directory with entries),
`no_name` (the empty name), `stale` (a directory's number kept past its deletion, as
the shell's stack keeps it, while the table is still on the disk: `Parents`). A stale
number whose cluster a file has taken is not passed: its data would be read as a table.

`OnlyCrashLosesClusters` is what can be said of leaks in a driver without recovery: the
set of allocated clusters that nothing reaches grows only when the power fails in the
middle of a call, or when a directory that has entries is deleted or has been.

### FileStore and FAT32Store: what the driver promises

`FileStore` is a tree of named files and directories in which a call takes effect at
once and a power failure changes nothing. `FAT32Store` maps the disk to that tree
(`absStore` reads the disk alone, files by the data in their chains) and states
`ImplementsFileStore`. The effect of `write` is at `Commit`, that of `delete` at
`Unlink`; all other disk writes are stutters.

### ATADisk and BlockDevice: below the driver

`ATADisk` is `read_blocks` and `write_blocks` at the ports, one step per register
group, wait or word, beside a controller that works at its own speed.

| Variable | Code |
|---|---|
| `call`, `pc`, `i`, `j`, `mem` | the call, where it stands, its loop counters, `target` |
| `regs` | the address and count ports, as four digits and a count |
| `ctl`, `job`, `at`, `left`, `buffer` | external: the controller's state, its command, the block it is at, how many are left, the words in it |
| `media` | external: the blocks of the disk |

`ATA_DRQ_wait` tests RDY, which the controller has set all the time, as the code does;
so nothing but the busy wait before it holds the driver back, and `InStep` asks
whether that is enough: yes, as long as the drive does not fail. When it fails
(`FailBlock`) the driver goes on moving words nobody wants, returns, and the next call
starts afresh. `BlockDevice` is what is promised above: blocks whole, in order, read as
they are; a write may return while its last block is still in the drive
(`pending`), though `disk.h:37` says "Will blocking until write is completed"; no call
begins on the drive before that block has arrived. `FAT32` takes a disk write as one
step that is done when the call returns; `ImplementsDevice` is what makes that right
while the power stays on, because the next command waits for the block and blocks arrive in order:
a power failure before it is one a step earlier.

### Boot: start-up and interrupts

`Setup` is the loader and `kernel_setup` in their order, each step an action. Beside it
the timer ticks and keys are struck; the PIC, with its requests, masks and services,
and the processor, with its flag, privilege and stacked frames, decide what is taken.
A step that raises something the tables in place (`ready`) cannot deliver sets
`dead`: the machine has reset. A handler is four steps: what it does (`keyboard_isr`,
`syscall`, `Ignore`), `pic_ack` where the code calls it, and `iret`. A system call may
also never return: a `delete` whose walk along a chain has left the FAT
(`claim_delete_returns`) comes to memory of zeros in the page of the shell, goes back to
cluster 0 and stays there (`Walk`), with its gate closed. No key is taken from then on;
`KeysServed` excepts that case (`NeverReturns`) and no other. `main_interrupt_handler`
does nothing about an exception and returns to the instruction that raised it, so a
machine without a shell faults for ever (`RunOff`); it still serves keys. `disk` says
whether the shell is on the disk.

`FAT32` and `Console` take a whole handler for one step. `OneHandler` is why they may.

The slave PIC is masked and left out; `keyboard_isr` acknowledges it all the same, since
it passes the vector, not the line, to `pic_ack` (`interrupt.h:156` says "request
number"). Keys before `pic_remap` are left out (`Strike`): the PIC would forget the
request and the keyboard never make another.

### CommandLine: from the line to the names

`AppendChar` and `EraseLast` edit `input`, `Dispatch` is `handle_command` up to its chain
of comparisons, `OneName`, `TwoNames` and `NoName` are what a branch does before its
command, `EndOfLine` is the clearing loop. `Pointer(b, n)` is where `get_string` points,
`Cut` what it leaves of its argument, `strcmp` the library's (true for equal). They are
compared with words defined without pointers (`WordOf`): for every line, whatever lines
came before. A word the line does not have is taken from address 0, the first bytes of
the shell, over which the shell's own system calls have stored their codes
(`AtAddress0`); a blank more makes an empty word. Passed to `rm`, the empty word never
comes back (`claim_delete_returns`).

### Paging

`Allocate(p)` and `Free(p)` are the two functions, `AllocateRefuse` and `FreeRefuse`
their early returns. Clients map any page but the kernel's, mapped already or not, and
free any page they have mapped whose number the frame map has (`Freeable`; the function
indexes the map with it). `paging_free_user_page_frame` takes the number of the page
for that of the frame, so the frame given back may be another page's or the kernel's, and
two pages may come to lie on one frame: the model does so too. What holds through all of it is
that the count is that of the map (`CountExact`) and that the pages mapped for users are
fewer than the frames given out, the kernel's among them (`NeverOvercommitted`): each call
changes directory, map and count together.

### Console: interrupt, screen, shell loop

`keyboard_isr(k)` may fire between any two steps of the shell, with any key. The
shell's steps are `Poll` (system call 4 and the tests on what it got), `Echo`, `AppendChar`,
`EraseLast`, `Enter` and `EndOfLine`; what a command and the prompt ask of the
console is a sequence `todo` of system calls, served one per step by `puts`,
`puts_newline`, `reset_keyboard_state`, `framebuffer_clear` and
`keyboard_state_activate`. What a command prints is a number of cells per piece, of any size
(`Outputs`, `MessageSizes`): `ls` puts its entries side by side and `cat` a line of any
length, and the row advances by one whatever was written, so a long piece spills onto the
rows below and the next prompt is printed over it. A line longer than `input` is written
behind it; there the model stops following the shell (`pc = "overrun"`). Rows run past
the last of the screen, where nothing is seen, up to `RowBound`.

The code keeps the screen and the line in two places with no common owner, and it does
not always keep them together. Three history variables, which no guard reads, say where:

* `orderly`: since the last Enter every key came when the code can follow it
  (`Orderly`), and the line is on the screen. A backspace struck before an earlier key is echoed takes the
  character in front of it, or, over an unfetched key, is fetched as a printable
  character because `print_mode` is still set; a key over an unfetched backspace leaves
  in the line what the screen has lost; and where `cd` to a missing directory has printed its
  message without a newline the prompt starts further right, while a backspace still stops at
  column 18, so one on the empty line rubs out the end of the prompt. Without any of
  these exceptions `ScreenShowsLine` fails at once. Characters and Enter
  may come at any time; the ones that overwrite each other are lost from line and screen
  alike. `Enter` sets `orderly`: what went wrong on one line, or was struck during the
  command, does not reach the next.
* `spilled`: something was written past the end of its row since the last `clear`. Otherwise
  `BlankBehindCursor` holds, however the keys are struck.
* `firstLine`: no line was run yet. `input` is on the stack and not cleared before the
  first one, so what the stack held stands behind it; `LineEndsAtCursor` says that no later
  line has that, however the keys are struck.

### Shell: commands as sequences of system calls

`Shell` runs over `FS == INSTANCE FileStore`, the store the driver is shown to implement:
a command asks (`Ask`), the store serves (`Serve`), the command goes on with the
answer. Between any two of these steps the power may fail, and while it is off the
inserter may run on the disk (`Insert`). Whatever it was called for, it deletes the
file `shell` in the root first; then it writes a file, or a folder if the file it was given is missing
or empty, or its write is refused.

| Variable | Code |
|---|---|
| `current_directory`, `directory_stack` | the globals; the length of the stack is `top + 1` |
| `job`, `step` | which command runs and which system call it made last |
| `filesize`, `buf` | locals of `mv` and `cp`; `Garbage` is an unassigned buffer |
| `walk`, `found` | the activations of `find` with the entries each has left, and whether it has printed |
| `ok` | none: it remembers whether the read of the source and the write of the destination succeeded |

`mkdir`, `rm`, `cat` and `ls` are one call each, `cd` a listing and `Enter` or
`NotFound`, `cd ..` (`cd_up`) no call. `mv` and `cp` are `copy` (the listing), `Load` (the
source), `Probe` (the destination, read into the same buffer), `Save` and, in `mv`,
`DeleteSource`. `find` is a walk: each activation reads a table (`TableRead`, whatever the
call answered), prints and ends at the name (`Matched`), or calls itself for a
subdirectory (`Descend`) with that directory's number as the parent of what lies below.
It begins at the current directory, named in the root: typed in the root it finds
exactly what the disk holds (`FindTells`), elsewhere it looks in the wrong place. The two numberings of a directory are kept apart as in the code: `mkdir`
and `rm` pass the number of the current directory (`Here`), all others its parent's
(`Above`) and, to list, its name.

The code checks none of the following, so the model assumes it of who types; without
each of them a property below fails:

* no directory gets the name of the one it is made in: listing it by name from its parent
  would find the parent's own entry (`ListsCurrentDirectory`);
* no command names a directory from inside it, and `mv` does not name the current one:
  the shell would stay in a directory that is gone (`CwdIsPath`);
* there are no more directories than a path on the full stack holds (`NestingBound`), so
  they are not nested deeper than the stack: `push_directory` drops what does not fit,
  and `cd ..` then returns to the wrong place.

`mv` keeps the file only in the root directory, where `Here` and `Above` are one, and
only if its calls succeed: it ignores the code of `write`, so an existing destination
costs the source. `OnlyRmLosesFiles` says so in its exceptions; the other exception is
the shell the inserter replaces, or all there is in a directory of that name (`Replaced`).
Files are one cluster long. The destination is read with the size of the source in whole
clusters as room, which is none for a part of a cluster: `Probe` has both.

## 3. Runs

Every cfg is a small instance; every property is broken by one `Bug...` definition,
a plausible mistake next to the definition it replaces.

| Run | What it asks | Instance |
|---|---|---|
| `fat32_crash` | `NoDanglingPointer`, `NoCrossLink`, `ContentIntact`, `UniqueNames`, `FatCoherent`, `OnlyOwnDirectoryChanges`, `OnlyCrashLosesClusters` with the power failing anywhere, formatting included, populated directories deleted, empty names and stale numbers passed | 6 clusters in 2 FAT sectors, both images, 2 names, 2 directory slots, files of two clusters |
| `fat32_store` | the driver implements `FileStore`, crashes included; every call returns unless the power fails (`Completes`, under `FairSpec`) | 6 clusters, a two-cluster payload |
| `paging_frames` | `CountExact`, `NeverOvercommitted`, wrong frames given back included | 4 frames, 7 pages |
| `disk_transfer` | driver and controller stay in step (`InStep`), implement `BlockDevice`, and calls return (`CallsReturn`), with errors and power failures | 16 blocks of 2 words, addresses of 4 binary digits, ranges of 1 and 2 blocks that carry and that meet |
| `boot` | `NeverDead`, `OneHandler`, `KeysServed`, `ShellStarts` | the machine as it is; both disks |
| `command_line` | `BufferIsLine`, `CommandIsFirstWord`, `NamesAreWords` | lines of up to 7 characters, 3 letters and the blank; commands of 1 and 2 letters, one a prefix of another; names of 2 |
| `console_line` | the screen shows the line (`ScreenShowsLine`), nothing stale behind the cursor (`BlankBehindCursor`) or in the line (`LineEndsAtCursor`), with any key at any time and the exceptions of section 2 | 7x2 cells, positions cut at 9, 5 columns of prompt, a message of 1, output of none, one or two rows or longer than a row, room for 2 characters, 2 letters, 3 rows |
| `shell_session` | the shell is where it believes to be (`CwdIsPath`), lists the directory it changes (`ListsCurrentDirectory`), finds what is there (`FindTells`), and loses files only by `rm` (`OnlyRmLosesFiles`), power failures between any two calls included | 3 directories, 3 names, the shell's among them, 2 files, a stack of 2 |

Runs whose property the code violates; each property is a sentence of a header:

| Run | Says the header | Does the code |
|---|---|---|
| `claim_root` | formatting initialises the root directory | leaves its cluster free: `write` and `read` refuse it with code 2 ever after |
| `claim_formatted` | a signed disk is formatted | the signature is written first; a power failure then leaves a FAT of zeros that is mounted |
| `claim_entry_allocated` | an entry's cluster is allocated | `delete` of a directory's own name inside it frees its cluster under the parent's entry |
| `claim_delete_returns` | `delete` of an unknown name returns 1 | the empty name matches a zeroed entry; the walk starts at cluster 0 and leaves the FAT |

Smaller disagreements with the headers that no run is spent on: `paging_free` takes the
page's number for the frame's, so another page's or the kernel's frame may be given back
that `page_frame_map` ("currently used", `paging.h:90`) should keep; a file of 256
clusters or more is written short with its full `filesize` (`fat32.h:75`) and
reported as success; `write_blocks` returns before the last block is written
(`disk.h:37`); `read` answers 2 for
a missing file and -1 for a small buffer (`fat32.h:215` says 3 and 2); `delete`
never answers 2 for a directory with entries (`fat32.h:231`); entry 1 of a table is
not about the parent (`fat32.h:149`); `paging_allocate_check` compares with all of
memory (`paging.h:124`) and is called by nobody.

### Bounds, and why they are enough

* Clusters 6 (of 512): boot, FAT, root and 3 free ones: enough for a directory within a
  directory, for a two-cluster file in two non-adjacent clusters, for a full disk and for
  the -1 it gives. (7 clusters and one-cluster files were run while the model was
  written and show nothing else.)
* `FAT_SECTOR` 4 puts those clusters in two sectors, so every FAT write can be torn
  and chains cross the sector border.
* `DIR_ENTRIES` 4: two usable slots, so a hole in front of a used slot, and a full
  directory, both happen.
* `COUNT_MOD` (256) is above every length.
* Disk: two words make the first and the last of a block differ, two blocks the first and
  the last of a call; base 2 makes addresses 5, 7 and 10 use every digit and the step
  from 7 to 8 carry through all of them.
* Line: `LineBound` ends a line `NAME_SIZE` characters before its buffer, as the
  screen's row does (62 of 256); 7 characters hold a two-letter command, three blanks and names longer
  than the field.
* Console: two rows and `RowBound` 3 hold a prompt on the last row, one below it and a cleared
  screen; a piece of 8 cells is longer than a row of 7 and spills onto the next; `INPUT_SIZE` 2
  lets a line overrun its buffer, and `BYTE` 9 cuts the column of a line that does so behind
  a message. Rows are not cut (256 are far below what the screen shows); the proof has no
  such bound. Two letters tell a misplaced character from the right one.
* Shell: three directories give a path of full depth (root and two below), which is what
  a stack of 2 holds; three names let a source, a destination and the current
  directory differ; two files tell an overwritten buffer from the right one. Read sizes are
  0 (source not listed), 1 (its length) and 2 (the whole buffer).
* Symmetry is over names, payloads, letters, the names of the shell's files and directories other than `shell`, and its directories other than the
  root, which only equality tells apart; it is not used where a name is also the root's
  label or where liveness is checked (`fat32_store`).

### Fairness

* FAT32: `FairSpec` is weak fairness of `DriverStep`, the driver's own steps: a call runs in
  the `int 0x30` gate with interrupts off and the only thread of control until it is done,
  so its next step always comes. Clients need not call, the power need not fail.
* ATADisk: the same of the driver, and of the controller, which ends what it began, well or in
  an error. Without the latter the busy wait, which has no bound, never ends.
* Boot: of `Processor`, which always has a next instruction or interrupt to take; in a loop
  without end that is the loop's next turn (`Walk`). Nobody need strike a key; who strikes
  keys for ever keeps the start-up from going on, so `ShellStarts` excepts that.

## 4. Proofs

A theorem holds for every value of the constants that satisfies the assumptions; TLC
evaluates the assumptions in every run.

| Assumption | Says | Why the code justifies it |
|---|---|---|
| `GeometryAssumption`, `DataAssumption`, `CallersAssumption` | sizes are positive, there is a cluster behind the root's, the end marks are no cluster numbers, a folder is no file, the zero name no directory's | `fat32.h`'s constants |
| `PagingAssumption` | there are frames behind the kernel's | `paging.h` |
| `CharAssumption`, `LineBound`, `CommandAssumption` | letters, blank and NUL differ; a name fits the line; a command's name fits it too | `user-shell.c`'s literals |
| `ConsoleAssumption` | sizes are positive, a row is shorter than a byte counts, the prompt ends at the column a backspace stops at; NUL, backspace and newline are not characters; output is no prompt | 80x25, the literals of `show_home`, the scancode map |
| `DiskAssumption` | blocks have words; calls ask for blocks the registers can address; a write brings the blocks it counts; noise is no word of a client | `disk.h`; callers pass clusters of the disk |
| `ShellAssumption`, `NestingBound` | the root is a directory and `shell` a name; an unassigned buffer is no file; a directory's number fits the path; see *Shell* above | `user-shell.c` checks nothing of it |

Seven theorems carry one more hypothesis each, the case outside of which the code breaks
the promise:

* the six of the volume, `OrdinaryCalls`: nobody names a directory inside itself
  (`claim_entry_allocated` shows what happens) and no file has 256 clusters or more (it
  is written short). Populated deletes, empty names, stale numbers, both images and power
  failures at any step are inside `OrdinaryCalls`;
* `DriverIsStore`, `StoreCalls`: `OrdinaryCalls`, on the sample image (the root of a
  volume formatted by the code is not allocated, `claim_root`, so there is no store), no
  empty name (it matches a zeroed entry, `claim_delete_returns`) and no number of a
  deleted directory (a store has no such directory, the disk may still have its table).
  Populated deletes and power failures are inside. `fat32_store` runs under the same.

* **FAT32_proof.** `TypeCorrect` (`Spec => []TypeOK`): the types of the locals are not
  inductive by themselves: that `slot_buf[j]` is a cluster needs that `j` is within the
  chain, which is a fact about where the call stands. The strengthening is `TypeInv ==
  TypeOK /\ Control`, where `Control` says of each `pc` which request is being served, how
  long `slot_buf` is and where `j` is in it. `CacheCoherent` (`Spec => []FatCoherent`)
  needs in addition that the sector counter is 0 wherever a flush begins (`CoherentInv`)
  and that the sectors are flushed in ascending order up to `LAST_SECTOR`, which covers
  every cluster (`SectorType`, over `\div`).
* **FAT32_proof**, its second half, under `OrdinaryCalls`: `NothingDangles`, `NothingCrosses`,
  `EverythingWhole`, `NamesUnique` (invariants of the disk at every instant) and
  `OwnDirectoryOnly`, `CrashAloneLoses` (action properties). What is reachable from the
  root is not inductive: a deleted directory keeps its entries on the disk, and a client
  that still knows it can delete through it. So the invariant (`VolumeInv`) says there is a
  set `O` of owned clusters, those of *every* entry of every table on the disk, reachable
  or not, in which every entry has its own chain, whole, and no cluster is in two; and then
  what each phase of a call has done to it: formatting finds a volume nothing was ever stored
  on (`FormatInv`); the clusters a write has found are free and nobody's, and those
  behind `j` hold its data in order (`WriteInv`); the chain a delete frees is that of the
  entry it takes out, and no owned one from then on (`UnlinkInv`, `FreeInv`). `Live` is
  a part of `O`. `Commit` gives `O` the chain it links, `Unlink` takes one away, no
  other step changes it. The action properties compare `Live` before and after: a step that
  changes only clusters that are not reachable leaves it alone.
* **FAT32Store_proof.** `DriverIsStore`: `Spec => ImplementsFileStore` under `StoreCalls`.
  The invariant is `StoreInv`: that of the volume and, what it leaves out, that each
  directory's label and the names in it are those callers pass (`SelfEntries`,
  `NamesKnown`), that the call is on a directory of the tree (`CallKnown`), and that the
  slot `delete` has found is the name's (`Served`). From it follows that the store the
  mapping reads off the disk is a tree of whole files (`StoreIsTree`): the walk of a file's
  chain, a recursive function, is shown to exist for every length and to visit the file's
  blocks in order (`WalkOfFile`, `PayloadOfFile`). Then step by step: `TreeStays` says that
  no step but `Commit` and `Unlink` changes the tree, a torn FAT, an allocated cluster
  nobody leads to yet and a freed chain included; those steps answer from the tree
  (`ReadMaps`, `ReadDirectoryMaps`, `RefuseMaps`) or are stutters (`StutterMaps`).
  `CommitMaps` and `UnlinkMaps` show the two disk writes that count: what is reachable
  afterwards is what it was with the new node, or what the store's own `Reachable`
  leaves without the removed one. The attempt found one flaw in the mapping: the arms of
  `absCall`'s `CASE` overlapped while the power is off, so that only TLC's choice of the
  first gave the call its value; the arm is now a condition in front.
* **Paging_proof.** `CountCorrect`, `PagingTyped`: by cardinality of the set of free frames
  with one frame added or removed; the count is a natural number because it is exact.
  `PagesWithinFrames` (`Spec => []NeverOvercommitted`): by the cardinality of the set of user
  pages too, which a call changes by one page at most, and only with the count.
* **ATADisk_proof.** `DriverInStep` (`Spec => []InStep`), `DiskTyped`, and `DriverIsDevice`:
  `Spec => ImplementsDevice`, the refinement of `BlockDevice`. Driver and controller share
  no variable that says where the other is; the invariant `Inv` says for each place of the
  driver what the controller can be doing (`BetweenInv`, `ClaimedInv`, `AwaitInv`,
  `MoveInv`): at block `i` of the call, or still with block `i - 1` on its way to the
  medium, or in error; and that the words moved so far are the block's (`MemoryInv`). Each
  step is then one of the device or a stutter (`NextImplements`): the command begins the
  call (`Begin`), the last word of a block read is the device's `Give`, the last word of
  a block written its `Take`, the block's arrival on the medium its `Persist`, an error
  its `Fail`, and a block nobody takes any more its `Skip`.
* **Console_proof.** `ScreenIsLine` (`Spec => []ScreenShowsLine`), `LineEndsRight`,
  `NothingBehindCursor` and `ConsoleTyped`, with any key at any time and output of any size.
  The screen is ahead of the
  line by a character echoed and not yet appended, and behind it by one that a backspace
  has rubbed out and the shell has not fetched: the invariant counts the key in the buffer
  and in hand, and relates the screen to the line so counted at every step of the shell as
  long as the line is orderly; what it says of the buffer, of the types and of what is
  blank does not depend on that. While a command prints, it says how much of its script and
  of the prompt is still to come, and that what is behind the position is blank unless
  something has spilled; `Enter` begins a new line, in agreement whatever the last one was.
* **CommandLine_proof.** `LineIsTyped` (`Spec => []BufferIsLine`) from `LineFits`: the
  length is the line's and leaves room behind it. `RightCommand`, `RightNames` and `WordsTyped`:
  the command is the line's first word and the names its others, by pointers, cuts and
  copies or by words alone. The end of the n-th word is characterised by how many words
  end before it, a cardinality; `Pointer`, recursive, is unfolded for the two words a
  command may have by exhibiting the function; two strings compare equal if they do up to
  the NUL, by the least difference.
* **Shell_proof.** `AlwaysOnPath` (`Spec => []CwdIsPath`), `ListingIsCurrent`, `FindIsRight`,
  `ShellTyped` and the action property `OnlyRmLoses`. The invariant has three parts.
  `ShellInv`: the store is a tree of labelled directories all of which the root reaches
  (`Tree`; "reaches" is "every closed set holds it", so no induction over paths is needed), the
  stack and the current directory are a path of it (`PathInv`), and a call under way is
  one the command at this step makes, on the current directory or the one above
  (`CallInv`): a delete cannot hit the path because it never names the current directory.
  `FindInv`: there is a set of listed directories without the name whose links lead back to it
  or to what is still pending; when nothing is pending it is closed, hence
  everything. `MvInv`: at each step of `mv` in the root the payload in the buffer is the
  source's, so the delete comes when both copies are there. The inserter's two calls
  keep the tree one (`InsertTree`) and take the shell alone (`InsertLoses`).
* **Boot_proof.** `TablesAlwaysInPlace`, `HandlersNeverNest` and `StartUpTyped`: `Spec =>
  []NeverDead`, `[]OneHandler` and `[]TypeOK`, without any assumption. The strengthening
  is `BootInv`: which tables the steps before `at` have put in place (`TablesInOrder`),
  that interrupts are on, or a handler runs, only past `sti`, that by then the vectors
  are remapped and the timer is masked, that user mode is the last step (`LetIn`), and
  that a handler runs alone with interrupts off, having interrupted user mode only if the
  shell was started (`Alone`). `Setup` is a literal sequence, so the proof has one case per
  statement; what each may do to the variables is `Statement(k)`. The run is already
  exhaustive here: what the theorem adds is the argument, step by step.

Induction over numbers is used as "a set of numbers has a least one" (`LeastNumber`, from
the well-foundedness of `<`), since the induction rule itself takes an operator.

Model-checked only: the volume under callers outside `OrdinaryCalls`, where the invariants
fail, and liveness (`Completes`, `CallsReturn`, `KeysServed`, `ShellStarts`), which with
ENABLED is out of the prover's reach.

## 5. Plan

1. (done) FAT32, its safety, the atomic store and the refinement; Paging; Console; Shell
   over the store with all its commands; ATADisk and the block device; Boot; CommandLine.
2. (done) Proofs of every invariant and action property of the runs, and of both
   refinements: the block device by `ATADisk`, the file store by `FAT32`.

## 6. Not modelled

The bits of segment descriptors, gates and page entries (constant data that one run of
the machine shows right), the words of the register frame, the bytes of the shell
program, colours and layout, dates in directory entries (never written by this code),
files longer than the shell's buffers, `memmove` and the other functions nothing calls, and the build.
