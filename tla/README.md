# Verification of the Pintos kernels

The repository holds two trees of the Pintos teaching kernel, each with the
students' changes:

- `pintos/src` (project 1): priority scheduling, priority donation, an alarm
  clock that sleeps.
- `pintos2/src` (projects 2 and 3): the round-robin scheduler with the original
  synchronization primitives, user processes, system calls, virtual memory with
  swapping.

Outside those changes the trees are copies of each other (devices, C library,
utilities, examples: 10 899 lines are byte for byte the same). What they share is
modelled once, from `pintos2/src`.

There are no design documents; the references are the code, its comments and the
programs under `tests/`. `pintos2/src/userprog/userprog` is an older copy that the
build does not use.

Pintos runs on one CPU. Kernel threads are preempted by the timer at any point
where interrupts are on; a stretch of code between `intr_disable()` and
`intr_set_level()` cannot be interrupted. The models take such a stretch as one
step, and every point outside it as a place where another thread or an interrupt
handler may come in.

## Inventory

| Component | State | Operations | Interaction | What is hard | What makes it correct |
|---|---|---|---|---|---|
| Scheduler (`threads/thread.c`) | `ready_list`, `status`, `idle_thread`, `thread_ticks`, `next_tid` | create, block, unblock, yield, exit, tick, idle | called by everything below; preempted by interrupts | preemption anywhere, the idle thread's start, one `elem` for all lists | one running thread, threads on the right list, ready threads run, unique tids |
| Synchronization (`threads/synch.c`) | semaphore values and wait lists, `lock->holder`, condition wait lists | down, try, up, acquire, release, wait, signal, broadcast | blocks and unblocks threads; `sema_up` also in interrupt handlers | wakeups that race with other takers, `holder` written with interrupts on, signals before the waiter sleeps | mutual exclusion, no lost wakeup, signals delivered once |
| Alarm clock (`pintos/src/devices/timer.c`) | `ticks`, `waiting_list`, `waiting_ticks` | `timer_sleep`, `timer_interrupt` | interrupt handler unblocks sleepers | clock read before interrupts are off, ordering of the list | every tick wakes exactly the due sleepers |
| Priority scheduling and donation (`pintos/src/threads`) | priorities, `lock_list`, `donation_nested_level`, `lock_waiting_for` | acquire with donation chain, release with restoration, priority-ordered waiters | locks change the priorities of threads on other lists | donation races with release, release order, stale orders | the highest priority runs, donated priority ends with the lock |
| Processes (`userprog/process.c`, `thread_exit`) | `child_thread_list`, `parent_thread`, `waiting_sema`, `exit_status` | exec, wait, exit | parent and child through one semaphore; freed pages | child exits early, parent exits early, freed semaphore | wait returns the status once, after the death; exec reports the load |
| System calls (`userprog/syscall.c`) | `fd_name_mapping`, `fd_index`, `syscall_lock` | create, remove, open, read, write, seek, tell, close | file system, processes | list shared by all processes, look-ups without the lock, death with the lock held | descriptors name open files of their owner |
| File system (`filesys/`) | free map, directory entries, open inodes with `open_cnt`, `deny_write_cnt`, `removed` | create, open, remove, close, read, write, deny, allow | block devices, syscall layer | removal while open, deny counts, failures half-way | no sector in two files, none lost, data read back |
| Virtual memory (`vm/`, `exception.c`, `pagedir.c`) | frame table, page table entries, swap slots, `swap_lock`, `exception_lock` | page fault, eviction, swap in and out, exit | allocator, block device, processes | eviction against the owner's accesses, errors that keep a lock | a page is in memory or in one slot |
| Page directories (`pagedir.c`, `paging_init()`) | page tables, the active directory, the translation buffer | set, clear, activate, destroy, accessed and dirty bits | processor, processes, eviction | stale translations, a directory freed while active | the processor translates as the tables say |
| Allocators (`palloc.c`, `malloc.c`) | bitmaps, arenas, free lists | get, free, malloc, calloc, realloc | everything | a freed page still in use, an arena freed with blocks on a list | no byte handed out twice |
| Console and input (`console.c`, `serial.c`, `intq.c`, `input.c`, `kbd.c`, `vga.c`) | queues, `console_lock` and its depth, shift states, cursor | putc, getc, interrupt handlers, flush at panic | interrupt handlers against threads | hand-over between handler and thread, polling beside queueing | no byte lost, doubled or overtaken |
| Disks (`ide.c`, `block.c`, `partition.c`) | channel lock, `completion_wait`, `expecting_interrupt`, registry, roles | detect, read, write, interrupt, scan | file system, swap, scratch | interrupts early, late, spurious or lost; tables that point outside | a transfer ends with its own completion and touches its own sector |
| Interrupts (`interrupt.c`, `gdt.c`, `tss.c`) | handlers, `in_external_intr`, `yield_on_return`, the two controllers | register, dispatch, acknowledge, yield | everything | nesting, acknowledgement of two controllers | every line served again, yield in the right context |
| Time (`timer.c`, `pit.c`, `rtc.c`, `speaker.c`) | none that threads share but ticks | calibrate, delay, configure, read | hardware | a clock that ticks while it is read, divisors at their limits | the values documented |
| Boot (`init.c`, `fsutil.c`, `shutdown.c`) | options, roles, both disks | parse, run, ls, cat, rm, extract, append, end | file system, scratch device | several boots, actions that fail half-way | what actions leave on the disks |
| Containers (`lib/kernel`) | lists, bitmaps, hash tables | all operations | everything | pointer surgery, failed rehash, words at the end | sequences, sets, bit strings |
| C library (`lib`) | none | strings, division, formatting, tar headers | everything | overlaps, sizes that leave no room, extremes | the reference definitions |
| Relays (`utils/squish-*.c`) | two bounded pipes, the child | read, write, child's death, accept | host processes | death seen at any point of the copying | all output copied in order, the child's fate passed on |

## Modules

| Module | Models | State and actions |
|---|---|---|
| `Scheduler` | `pintos2/src/threads/thread.c` | operators for `schedule()`, `thread_block()`, `thread_unblock()`, `thread_yield()`, `thread_tick()`; they are put together into steps by `Synch` |
| `Synch` | `pintos2/src/threads/synch.c`, thread creation and exit, idle, interrupts | one action per stretch of code between two points with interrupts on; `pc[t]` is the place of thread `t`, `sema[t]` the semaphore it works on, `op[t]`/`obj[t]` the enclosing `thread_create()`, `cond_wait()`, `cond_signal()` or `cond_broadcast()` |
| `Monitor` | the promise of `synch.c` | locks with one owner, Mesa condition variables, atomic release-and-wait |
| `Alarm` | `pintos/src/devices/timer.c` on `pintos/src/threads/thread.c` | the ready list ordered by priority, the sleepers ordered by deadline; `timer_sleep()` in two steps because the clock is read with interrupts on; `panicked` when the handler takes the end of an emptied list for a thread |
| `AlarmSpec` | the promise of an alarm clock | every tick wakes all sleepers that are due and no other |
| `Process` | `pintos2/src/userprog/process.c`, `thread_exit()`, `syscall_exec()`, `syscall_exit()`, `kill()` | parent and child as interleaved sequences of steps; `wild` records the first null, garbage or dangling pointer the kernel follows, after which the model stops |
| `Donation` | `pintos/src/threads/synch.c` with priority donation, on the priority scheduler | acquiring in steps (read the holder, every test and write of the donation, go on along `lock_waiting_for`, wait), releasing in steps (restore, clear the holder, lower the priority, up); `stopped` records the first bad pointer, after which the model stops |
| `Lists` | `pintos/src/lib/kernel/list.c` | ordered insertion, the stable sort and `list_remove()`, as operators on sequences, with the lemmas about them |
| `FileSys` | `pintos2/src/filesys` | `d_` variables are on disk, the others in memory; an operation is a sequence of steps (`op.at`) with at most one sector write each; `Crash` empties the memory; `leaked` are the sectors that a failed `dir_add()`, an entry it wrote over or a crash is known to lose; `starved` counts the times it wrote in the wrong place |
| `FileStore` | the promise of `filesys` | named files of a fixed size, open handles, atomic create and remove; a name has one file unless memory ran out in `dir_add()` |
| `Syscalls` | `pintos2/src/userprog/syscall.c` above `inode_open()`/`inode_close()` | `fd_name_mapping` as linked entries walked one at a time; `syscall_lock`, `filesys_lock`; `wild` is the first freed or null object used |
| `VirtualMemory` | `pintos2/src/vm`, `page_fault()`, loading and exit | frames, `pte`, page and frame entries, swap slots, `exception_lock` and `page_lock`; `wrote` is what a process last stored; `wild` as above |
| `PageDir` | `pagedir.c`, `process_activate()`, `process_exit()` | the page tables, CR3, a translation buffer that the processor fills at will |
| `Descriptors` | `gdt.c`, `tss.c`, `make_intr_gate()`, `paging_init()`, `pte.h` | functions from arguments to words, decoded the way the processor does |
| `Loader` | `load()` and the helpers under it, arguments on the stack, `lib/user` | functions over a small address space |
| `Malloc` | `malloc.c` and the pools of `palloc.c` | `used_map`, arenas, free lists; `handed` is what callers own |
| `KernelList`, `ListSpec` | `lib/kernel/list.c` and its promise | the heap of `prev`/`next` pointers; the sequences it stands for |
| `HashTable`, `Bitmap` | `hash.c`, `bitmap.c` | buckets; words of bits and the file they are saved to |
| `CString`, `Arithmetic`, `Stdio`, `Ustar` | `string.c`, `stdlib.c`, `arithmetic.c`, `random.c`, `stdio.c`, `ustar.c` | functions, with the sizes of words and fields as parameters |
| `Terminal`, `Peripherals` | `console.c`, `serial.c`, `intq.c`, `input.c`; `kbd.c`; `vga.c` | one record per device; `line`, `sent`, `taken` and `accepted` are the bytes on either side |
| `Ide`, `Block` | sector transfers of `ide.c` under `block_read()` and `block_write()`; on top of them `block.c`, `partition.c`, the detection | clients, one channel, a controller that may lose or invent interrupts |
| `Interrupts` | `interrupt.c` | the stack of interrupted contexts, pending and in-service lines of both controllers |
| `Clock` | `rtc.c`, `pit.c`, `speaker.c`, the delays of `timer.c` | functions |
| `Boot` | `init.c`, `fsutil.c`, `shutdown.c` | a machine over several boots; both disks survive |
| `Relay` | `squish-pty.c`, `squish-unix.c` | the pipes, the child, the signal |
| `SynchProofs`, `AlarmProofs`, `ProcessProofs`, `DonationProofs`, `FileSysProofs`, `SyscallsProofs` | theorems about the module of that name; `SynchProofs` also about `Interrupts`, `AlarmProofs` about `Relay`, `ProcessProofs` about `PageDir`, `FileSysProofs` about `Ide`, `SyscallsProofs` about `Terminal` | see Proofs |
| `MemoryProofs` | theorems about `VirtualMemory`, `Malloc` and `Bitmap` | see Proofs |
| `MCSynch`, `MCAlarm`, `MCDonation`, `MCFileSys`, `MCVirtualMemory` | constants for TLC; the runs of `Process` and `Syscalls` need none | |
| `MCLibrary`, `MCDevices` | the modules without a run of their own, one part per behaviour | `part` says which; `given` holds the input of a pure function |

Abstractions. A thread is one incarnation of `struct thread`; its stack and name
are left out, and a tid is a number only where tids are compared. Assertions are
not guards: what an `ASSERT` demands of the caller is (a lock is not acquired twice,
a condition is used with its lock held), and what it says about the kernel's own
state is a property. `Process` takes the scheduler as arbitrary interleaving, which
the time slices allow, and `syscall_lock` as a lock that excludes (proved for
`Synch`). A failed allocation of a thread's page changes nothing.

In `Donation`, `priority_donation()` and `priority_restoration()` run with interrupts
on. The first has a step for each of its tests and writes; the second is split where it
has decided what to restore. A preemption inside a list operation, a `++` or `--`, or the
second half of `priority_restoration()` is left out. The limit of `donation_nested_level`
is therefore not kept: every thread may be between the test and the increment, which is
what `LevelLimited` allows, and the second donor to link a lock ends the run
(`stopped = "relinked"`). Reads past the
end of an empty list and of the uninitialised `wt` are choices between the outcomes
of the comparison they feed. The four threads start with the lowest running and the
others in `timer_sleep()`, from which the timer wakes them at any time, so that a
higher thread can come in at every step. Four are needed: a holder, two waiters whose
order a donation reverses, and the donor.

In `Process`, reading the semaphore of a dead process is a read of a page that
`palloc_free_multiple()` has filled with `0xcc`, hence of a value that is not 0;
once an exec has allocated pages in the meantime, the read may also find foreign
data (`wild = "freed_sema"`). Following `parent_thread = -1`, a `NULL` look-up or a
record that is no longer there ends the model in the same way. The properties of
that run therefore hold up to the first such access; which accesses occur is
visible in the hazards.

`FileSys` runs one operation at a time, as `filesys_lock` makes it for create, open and
remove; reads and writes of two processes to one file are not interleaved. `Syscalls`
is where operations of several processes meet, with files reduced to their inodes.
`VirtualMemory` abstracts a page to the value last stored in it.

Memory may run out in all three. In `FileSys` an allocation that fails half-way is an
alternative of the step that makes it; an open or a look-up that then returns without a change
is a step not taken. In `Syscalls`, where what other processes do meanwhile matters,
`NoInode` is the open that gets nothing, and `file_open` one that has counted the inode up and
must count it down again, without `filesys_lock`; `create`, `remove` and `exec` may fail too.
In `VirtualMemory` a `pagedir_set_page()` without a page table is `InstallFails`. Where the
code does not test what `malloc()` gave it (`syscall_open()`, `process_execute()`,
`start_process()`, the page, frame and swap entries), the null pointer it then writes through
ends the model with `wild`.

`inode_read_at()` and `inode_write_at()` stop where they need a bounce buffer for part of a
sector and cannot have it. For a file this ends the transfer (`at = "starved"`). For the
directory, whose entries are parts of a sector, every read and write may fail: a look-up
finds nothing, an entry is not written, and `dir_add()` takes the place it could not read for
the end of the directory and writes there (`CreateAddStarved`). The free map is written
sector by sector, and only the part of a sector at its end needs a buffer: `Torn` is the map
that a failed write leaves on disk. `free_map_allocate()` notices and takes its sectors back
in memory, `free_map_release()` does not look; either way the map on disk marks at least what
the one in memory does, which is what `FSInv` keeps.

`Syscalls` and `VirtualMemory` meet accesses to freed entries, frames and inodes, null
entries and full swap. The code goes on with whatever it finds there; the models record
the cause in `wild` and stop, and their invariants are about the states before that.
`SlotsKeep` also says that the assertions of `page_swap_to_disk()` about its victim never
fail. The assertion-like error returns can be reached: with three processes a fault can
find no swap entry for its page (`wild = "no_entry"`, see Findings).

A page fault that brings a page back has three steps after the swap-in, as in
`exception.c:205-211`: the flag, the mapping with its frame entry, the page entry's frame.
Another process's eviction in between takes the frame the page entry had before; the
assertion against it is commented out (`pagetable.c:170`), and the model stops there
(`wild = "stale_kpage"`). What `vm/` does with a `NULL` from `malloc()`, which it never
tests, is `wild = "null_malloc"`.

`malloc()` is modelled with the wrap of `size_t`: a request near the largest number gets
too few pages (`malloc.c:109`), and a `calloc()` or `realloc()` of that size then writes past
its block (`overrun`, where the model stops). An empty `waiting_list` at the end of the loop
of `timer_interrupt()` makes `list_end()` a thread whose fields are what lies beside the list
head; that the loop goes on there is an alternative (`TimerPanics`).

Pure functions are written with the widths of the code's integers as parameters, scaled
down so that every input can be tried: a word of 4 bits has all the cases of long
division, a page of 10 bytes all those of `malloc()`.

## Runs

| Run | Bounds | Shows |
|---|---|---|
| `synch_monitor` | main, idle, two created threads; one lock and condition besides `tid_lock`; a time slice of 1 tick, so that preemption happens anywhere; semaphores upped to at most 1 by callers | mutual exclusion, `holder`, signal delivery, refinement of `Monitor` |
| `synch_sema` | three created threads, no condition; a time slice of 2, so that both outcomes of a tick occur; threads wait for each other's exit on one semaphore | lists, start of idle, wakeups, tids, and that ready threads run |
| `alarm` | three threads of two priorities, 4 ticks, sleeps of -1, 0, 1 and 2 ticks, time slice 2 | lists, priority order, refinement of `AlarmSpec`, sleepers wake |
| `process` | run_task() and three processes, each may exec and wait for any other, exit or be killed | exec/wait/exit guarantees and their termination |
| `process_wait` | the same | a violation: wait loses a status |
| `donation` | four threads of four priorities and idle; two locks; mid (priority 2) makes two calls, the others one; mid may set its priority; `MAX_NESTED_LEVEL` is 1, so that two donors pass the limit together (1 717 520 states) | locks under donation, wakeup order, order of yields |
| `donation_restore` | the same, with the limit of 8 | a violation: a donation outlives the lock |
| `filesys` | 6 sectors of 2 bytes, two of them reserved for the map and the directory; the bits of two are in the map file's last, partial sector (`MapTail`); 2 directory slots; 2 names; 2 handles; sizes that need one and two data sectors; a crash and a lack of memory anywhere; no more files are created once `dir_add()` has gone wrong (`MaxStarved`), but everything else goes on (1 875 979 states). Handles and names are interchangeable and symmetric (no liveness in this run) | `SectorsKept` (no sector in two files or lost but the known ones), `CountsMatch`, `ReadsExactly`, refinement of `FileStore` |
| `syscalls` | three processes, two of them started, three calls in all, one file, memory lacking anywhere (706 959 states) | descriptors of running processes stay, `open_cnt` is exact, calls return |
| `vm` | two processes with three and one pages, 2 frames, 2 slots: a third page forces an eviction, and slots that dead processes keep fill the swap disk (465 327 states) | pages keep their contents, slots and frames have one owner, locks come back |
| `library` | lists of 4 elements with equal keys, 6 hash elements of which two collide as equal and others in a bucket, 5 bits in words of 2, a heap of 3 pages and sizes of 5 bits, so that requests wrap round, strings of 5 bytes, all 8-bit operands, all combinations of two flags, width, precision and type | `ImplementsLists`, `HashFinds`, `BitmapScans`, `BlocksExact`, `CallsAgree` |
| `devices` | two readers and two writers, queues of 3 bytes, two disk clients on two disks, one spurious and one lost interrupt, two interrupt lines (one per controller), a screen of 4 by 2, three boots, a relay with a buffer of 2 bytes for 4 bytes of output | one property for each part with a state, `DevicesAgree` for the functions, and that everybody is served |

`Ide` takes a controller that works to be idle within the 10 ms that `wait_until_idle()`
waits: only a stuck one is still busy when `select_sector()` goes on. What happens to a command
given to a controller that is merely slow is up to the hardware and not modelled.

Two created threads are enough for a waiter, a signaller and, with main, a third
thread that takes a unit in between; three processes for a parent, a child and a
grandchild that are exiting at once, with run_task() waiting above them.

`MaxCalls` (Donation) limits the calls each thread makes. `MaxValue` (Synch) keeps callers and device interrupts from upping a semaphore
beyond it; `MaxTicks` (Alarm) stops the clock, and sleeps end before it. Threads and
processes are created once each. Apart from `filesys` no symmetry is used, since the runs
check liveness or name their threads. `MaxCalls` (Syscalls), `MaxArrivals`, `MaxKeys`,
`MaxPrints`, `MaxSpurious`, `MaxLost`, `MaxRaises`, `MaxPuts`, `MaxOutput`, `MaxInput` and
`MaxBoots` bound what the world does to a part, and `MaxLuck` says after how many successful
allocations and transfers of a boot one fails; each is large enough that a queue fills
up and empties, a buffer wraps around, a screen scrolls, a disk is booted after an
action failed.

Several properties are conjunctions of named parts, each with its own comment:
`SchedulerSound` (one list per thread, one running thread, unique tids), `ListsSound`,
`RecordsSound`, `CallsReturn` (exec and wait), `LocksSound`, `HighestRuns`, `SectorsKept`.

Fairness. `Synch!FairSpec`: the running thread's instructions are executed (weak
fairness of the steps inside a primitive), and the timer keeps ticking; strong,
because interrupts are off now and then while the request stays pending in the
interrupt controller. What a caller does between primitives is not assumed to
happen. `Alarm!FairSpec`: the timer interrupt. `Process!FairSpec`: every process
that is in kernel code and not blocked proceeds, which is `ReadyRuns` of `Synch`;
user programs need not make another call, so that `WaitReturns` is about children
that have died. `Syscalls!FairSpec` and `VirtualMemory!FairSpec`: the same for processes
inside a call or a fault; fairness is weak, so that a lock which is free only now and then
may never be got, as with the code's semaphores, where a third thread may take the unit
before the woken one. `MCDevices!Spec`: threads of the console and of the disk run, the
hardware answers what it was asked (an interrupt may be lost, and then nothing is
promised), the host schedules the relay and delivers its signal. Keys, bytes on the line
and the child's behaviour are not assumed.

Deadlock is checked in every run but `devices`, whose parts come to an end (the machine is
off, the relay has exited, everything is printed): idle and the timer keep `Synch`, `Alarm` and
`Donation` moving, and `Process` has a step only for the machine that was switched off or has
crashed.

## Findings

Two are shown by runs that expect a violation:

- `lock_release()` of the donation tree decides what priority to restore before it
  clears `holder`; a donation in between is kept for good. (The same run meets, and
  stops at, a `NULL` holder in `priority_donation()` and a lock linked into two
  `lock_list`s.)
- `process_wait()` misses a child that exits between the look for its record and the
  look for the thread, and returns -1 although the status is there.

Others met while modelling; the models follow the code, and the properties are stated so
that they hold with them:

- `process_execute()` decides by `ct->status` whether the load failed. A child that has
  run to its end before the parent is scheduled again looks the same, so exec returns its
  exit status as if it were a tid, and drops the record (`HandedOnce` counts this).
- `wait_until_idle()` waits for 1000 times 10 us, which is 10 ms; its comment says 10 seconds
  (`ide.c:435`).
- A position of 2^31 or more given to `seek` is negative as an `off_t`, and `file_seek()`
  asserts that it is not (`file.c:157`): the call panics the kernel (`wild = "negative_pos"`).
- `start_process()` opens `t->file` after a failed load as well (`process.c:172`), and nobody
  closes it when the process exits; `open_cnt` stays up, as it does for every process.
- `timer_sleep(0)` blocks until the next tick; `tests/threads/alarm-zero.c` says it
  returns immediately.
- `page_fault()` for an address without a page entry calls `page_entry_upage(NULL)` in a
  `printf()` (`exception.c:193`) before it tests for `NULL`: the kernel faults again with
  `exception_lock` held and its `lock_acquire()` asserts; lines 195-199 and
  `tests/userprog/bad-read.ck` expect `exit(-1)`. `wild = "null_entry"` in `vm` and `syscalls`.
- `find_swap_victim()` takes the victim off the frame table and `frame_entry_delete()`
  removes it again (`pagetable.c:183`).
- Slots are found by frame and owner only; a frame that held two pages of one process may
  give the wrong one (`wild = "other_page"`). Slots of dead processes stay taken
  (`wild = "swap_full"`).
- `page_swap_to_disk()` calls `flap_swapped_flag()` before `swap_frame_to_disk()`. If a
  third process exits and frees a frame in between, the owner can fault on the page and
  `swap_disk_to_frame()` finds no entry for it, prints an error and returns
  (`wild = "no_entry"`). The attempt to prove that this cannot happen showed how it does;
  it takes three processes, one more than `vm` has.
- `filesys_create()` loses the data sectors when `dir_add()` fails (`filesys.c:60`).
- `dir_add()` relies on "inode_read_at() will only return a short read at end of file"
  (`directory.c:164`), but a read also ends when `malloc()` fails (`inode.c:235`): a name can
  be entered twice, and an entry in use be written over. `FileStore` has a step of its own for
  this (`CreateStarved`), and `SectorsKept` counts the sectors that are lost.
- `priority_donation()` tests the limit of the nesting level and increments it with
  interrupts on, so that several donors of one holder pass the limit together
  (`synch.c:227`); the second of them links a lock that is linked (`stopped = "relinked"`).
- `page_fault()` enters the new frame after the page is on the frame table; an eviction in
  between frees or writes the frame the page had before (`wild = "stale_kpage"`).
- `malloc()` rounds up in `size_t` (`malloc.c:109`): near the largest size the sum wraps and
  one page is handed out, against "at least SIZE bytes" (`malloc.c:87`).
- The last step of squish-pty does not wait for its child: if the terminal closes before
  the child can be reaped, 0 is returned whatever the child's fate (`squish-pty.c:329`).
  squish-unix drops what it has buffered when a connection ends (line 214), and input typed
  after the socket was closed kills it by SIGPIPE, with what it still had to print (line 219).
- `read_partition_table()` reads sector 0 of the disk for every extended partition and not
  the partition's own (`partition.c:91`), against "in the given SECTOR of BLOCK"
  (`partition.c:36`): `ScanAgrees` promises what is found for primary partitions only.
- `rtc_get_time()` counts the days of the current month in full (`rtc.c:86`), against "Returns
  number of seconds since Unix epoch" (`rtc.c:40`): `ReadAgrees` says by how many days. `timer_calibrate()`
  tests `high_bit | test_bit` and not the sum so far (`timer.c:63`).
- `fsutil_append()` writes both sectors of the end marker to the same place, the second from
  one byte past the buffer's start (`fsutil.c:217`): the archive ends with one sector, whose
  last byte is arbitrary, and not with "two consecutive sectors full of zeros"
  (`fsutil.c:213`). `BootExact` promises an archive up to there; `-rs` has no effect, because `random_init()` is called again with the
  time (`init.c:281`).
- `memmove()` returns an advanced pointer when it copies upwards (DST below SRC), against
  "Returns DST" (`string.c:22`); `umod64()` and `smod64()` return 32 bits (`arithmetic.c:134`); the
  test for overflow in `calloc()` misses some.

`CallsAgree`, `DevicesAgree` and `BootExact` state what the comments of the functions promise
with exactly these exceptions, which their own comments list.

## Proofs

All theorems hold for every value of the constants, of which they assume what a named
assumption of the module says and no more: finite or non-empty sets, distinguished elements
that differ, positive sizes. Most are ASSUMEs; those of `Interrupts`, `Ide`, `PageDir`,
`Relay` and `Terminal` are hypotheses of their theorems, and `MCDevices` asserts them of its
constants. The bounds of the runs are constants too, so that no theorem depends on how large
they are. TLC checked the long inductive invariants on the instances of their runs before
they were proved (`FSInv` on 1 875 979 states, `DonationInv` on 1 717 520, `VMInv` on 465 327,
`TermInv` on 168 788, `MmuInv` on 94 704). The layout is the same everywhere: an invariant
with named parts, one lemma for each action, a lemma for `Next`, and the theorems from them.

**`SynchProofs`**, from `ThreadsAssumption`, `TimeSliceAssumption` and `SemaAssumption`.
`LockInvariant`, and from it `TypeCorrectness`, `LocksExclude`, `HolderCorrect`.
`MutualExclusion` alone is not inductive. Whether the step that follows a `sema_down()` or
precedes a `sema_up()` gains or loses a lock depends on where the thread is and which
semaphore it works on: a thread at `"up"` may be in `lock_release()` or in
`cond_signal()`. `CallInv` ties the place in the code to the locals (a thread that is to
set or clear `holder` works on a lock; one that is to release a lock no longer counts on
it; a thread allocating a tid owns `tid_lock`). `LockInv` is the conjunction of the type
invariant, `CallInv`, `MutualExclusion` and `HolderIsOwner`, the last because a thread that
clears `holder` must be the one it names. The lemmas on ownership (`KeepOwners`,
`GainOwner`, `LoseOwner`, `KeepHolder`, `OthersOwn`) serve all actions.

`SchedulerInvariant` builds on it: `SchedulerInv` adds that one thread runs (`OneRunning`),
where idle can be (`IdleInv`), that the ready list has the ready threads once each
(`ReadyInv`), that blocked threads are on the wait list of the semaphore they work on
(`WaitersInv`), how far a thread under creation has come (`BirthInv`) and which tids are
given out (`TidInv`). `SchedulerIsSound` states `SchedulerSound`, `WakeupsNotLost` states
`NoLostWakeup`: while threads wait, each unit of a semaphore has a thread on its way to it.
This one counts, by the cardinality of finite sets of threads. `SignalsDelivered` states
`SignalDelivered`, with `SignalInv` for the private semaphores of the waiters of a
condition: queued with 0, or taken off with the one signal under way or arrived.

`MonitorImplemented` is the refinement of `Monitor`. The owner of a lock is whoever is past
its `sema_down()` and before its `sema_up()`; the queue of a condition is `cond_waiters`
without the last to join while that thread still has the lock; the woken are those in
`cond_wait()` that are no longer queued. One step of each primitive is visible: the
`sema_down()` or `sema_try_down()` that takes the unit is Acquire, `sema_up()` is Release or,
inside `cond_wait()`, Wait, and popping a waiter is Signal. `CondInv` adds to the invariants
above which semaphore a thread in `cond_wait()` works on, that one which still has the lock
joined last, and that who signals has the lock.

`InterruptsInvariant` and `InterruptsAreExact` are about `Interrupts`, for any threads and
lines. `CpuInv` says that external vectors have interrupt gates (`GatesInv`), which line is in
service at which controllers and that its handler is the running thread's innermost frame,
with interrupts off (`ServiceInv`), and that a thread which is not running ends in the
`thread_yield()` of `intr_handler()`, with no handler unfinished below (`YieldInv`).

**`Lists`** proves what `list_sort()` does, for every list and key: `OrderSorts` (the
order by rank is an order by key, ties by place, and a permutation), `SortResult` (same
elements, none doubled, ordered), and for the two uses of a sorted list `PushSorted` and
`FirstOut`. The sort puts each element at its rank, the number of elements that precede it,
and is not a recursion: no induction over data is needed, finiteness makes the ranks cover
every place.

**`AlarmProofs`**, from `AlarmAssumption`. `AlarmInv` says that the two lists have exactly the
threads whose status says so and are ordered by priority and by deadline. The order of the
sleepers makes the early exit of `timer_interrupt()` right: what comes after the first
sleeper that is not due is not due. `ListsAreSound` states `ListsSound`;
`AlarmImplemented` is the refinement of `AlarmSpec`: a tick wakes exactly the sleepers that
are due, and every other step is a sleep or invisible.

`RelayInvariant` and `RelayIsExact` are about `Relay`, for any positive `BUFSIZ`. `SqInv` has
the ring of each pipe within its buffer (`PipeInv`), the equations that put together what was
copied, what is held and what is still in the terminal (`OutputInv`, `InputInv`), what is
known of the child before and after its signal (`ChildInv`), and what the place says when the
relay is on its way out (`PtyInv`, `UnixInv`): once the death is seen nothing more is written,
and the last copying ends with an empty pipe. TLC found the first version of `ChildInv` true,
but it was not inductive: before the set-up is done, the terminal and the pipe are empty.

**`DonationProofs`**, from `DonationAssumption`. `DonationInvariant` is about `DonationInv` and
`LevelInv`, which counts a level by the threads that may add to it: each is between the test
and the increment at most once. The ready list is not ordered between steps,
since donation changes the keys of queued threads; `DonationInv` therefore says nothing of
orders. It has the locals and `lock_waiting_for` at each place (`PlaceInv`), who may be on
which wait list (`WaitersInv`) and on the ready list (`QueueInv`), `MutualExclusion` and
`NoLostWakeup`. `LocksAreSound` states `LocksSound`. `HighestIsChosen` states `HighestRuns`:
`sema_up()` and `thread_yield()` sort before they choose, and `SortResult` and `FirstOut`
give that the first is of the highest priority at that moment. A bad pointer in
`priority_donation()` (`stopped`) changes nothing else, so that both hold with it.

**`ProcessProofs`**, from `ProcessAssumption`. `Inv` is the type invariant and, for each
process, what its place says of the process it works on (`ArgInv`), the units of its
`waiting_sema` (`ValueInv`: the load's unit is there from the report of the load until the
exec takes it, and never another), its record and the pointer to its parent (`RecordInv`),
and what a failed load leaves (`FailInv`). `WaitsForDeath`, `StatusHandedOnce`,
`RecordsAreSound` and the action property `FailureReported` follow.

`DirectoriesInvariant` and `TranslationIsExact` are about `PageDir`, provided that
`init_page_dir` is no process's directory. `MmuInv` says which directory a thread has and
that it is there until `pagedir_destroy()` (`DirsInv`), which one CR3 has at each step of
`process_exit()` (`ActiveInv`), that the translation buffer agrees with the active
directory's table unless the invalidation is the next step (`TlbInv`), and that the accessed
and dirty bits of present pages cover what the program did (`BitsInv`).
`invalidate_pagedir()` flushes only when the directory is the active one; `TlbInv` and
`ActiveInv` are why this is enough.

**`MemoryProofs`**, from `VirtualMemoryAssumption`, `MallocAssumption` and `BitmapAssumption`. `VMInv` says `VMGood` until `wild`
is set: types, who holds which lock (`LockInv`), the page each process works on (`NeedInv`),
that a page present is entered, in a frame of its own and holds what was written
(`PresentInv`, `MappedOnce`), that a fault about to enter its frame either has the page still
or lost it to an eviction that found the entry right (`UpdateInv`), that a frame in a process's hands is nobody else's (`HeldInv`),
that the frame table lists present pages once (`TableInv`), the victim at each step of its
eviction (`VictimInv`), and the swap table, its slots and their contents (`SlotInv`,
`EntryInv`, `BackInv`). `FramesAreOnce`, `PagesKeepContents` and `SlotsAreKept` state
`FramesOnce`, `PagesHoldUnlessWild` and `SlotsKeep`. `frame_delete_by_pid()` walks the frame
table; that its recursive function removes the process's entries and no other is shown by
taking the least index at which this would fail.

`MallocInvariant` and `BlocksAreExact` are about `Malloc`, for every pool, every smallest
block and every page size at least twice an arena's header. `MemInv` says that the pages in
use are those of the arenas, which do not overlap (`PagesInv`), that what callers have are
blocks of arenas with the room asked for and no two the same (`HandedInv`), that the free
lists have blocks of their descriptor's arenas, each once (`FreeInv`), and that a block is
free or handed out, as `free_cnt` counts (`ShareInv`); `UsedInv` adds that no arena is kept
without a block in use. Inside `realloc()` and `malloc()` there are states without `UsedInv`, hence
the two parts. That blocks do not overlap is arithmetic on their places: block `i` of a page
ends where `i + 1` begins, and the last one ends within the page.

`ScansAreExact` is about `Bitmap`, for any number of bits and any word size. The loops of
`bitmap_contains()`, `bitmap_count()` and `bitmap_scan()` are written as the sets of positions
they look for, over `bitmap_test()`, which is the code's arithmetic on words and masks.
`bitmap_set_multiple()` is a recursive function; that it sets every bit of the range and no
other is again shown with the least counterexample.

**`FileSysProofs`**, from `FileSysAssumption`. `FSInv` has the operation in progress
(`OpInv`), the disk and the memory (`DiskInv`, `MemoryInv`; the map on disk marks at least
what the one in memory does, since either may fail to be written), the owners of sectors (`OwnInv`),
the sectors of a file under creation (`FreshInv`), directory entries (`LinkInv`), that every
sector taken is accounted for (`Accounted`), and the counts (`CountInv`).
`CountsAreExact` and `SectorsAreKept` follow. `ReadsAreExact` needs `ReadInv` besides: what
has been read so far is the part of the file before the position, and where the loop has
ended. `StoreImplemented` is the refinement of `FileStore`, with `StoreInv` (a
write in progress is to a file that nobody denies writes to, a new file's sectors are zeroed
one by one before the file gets its name).
`dir_add()` is Create, or CreateStarved where it could not read the directory; that the link
lost is one and no other follows from `LinkInv`: no two entries lead to one inode.
`dir_remove()` is Unlink, opening and reopening Open, `file_close()`
Close, a turn of `inode_write_at()` Write, a power failure PowerFailure; allocation, zeroing,
reading and releasing are invisible.

`DiskInvariant` and `DiskIsExact` are about `Ide`, for any clients, registered disks and
partitions, and contents. `TransferInv` says who has the channel (`ChannelInv`), that what
the controller does is what the holder of the lock told it, or the rest of a write
(`CommandInv`), where the contents of the sector are at each step (`CopyInv`), and, as long as
no interrupt has come unasked, that a completion is due only to the holder who waits for it
(`CompletionInv`). The last is what keeps a late interrupt from completing another client's
transfer.

**`SyscallsProofs`**, from `SyscallsAssumption`, finiteness of the set of processes included.
`SyscallsInv` has types
(`TypeInv`), that pointers lead to what there has been (`BoundInv`), in which calls a process
can be where it is (`PlaceInv`), that `t->file` is not set before the load (`OwnInv`), that
`syscall_exit()` works on an entry of its own that is not freed yet (`ExitInv`), that
`fd_name_mapping` has the entries in use once each, but for one being pushed or removed
(`ListInv`), that `fd_index` is past every descriptor (`FdInv`), and that `open_cnt` is the
number of struct files (`CountInv`), by the cardinality of finite sets. The look-ups take no
lock, so nothing is claimed of the entry a walk has reached but that it once existed; when it
turns out to be freed the model stops with `wild`. `DescriptorsAreOwn`, `OpenCntIsExact` and
`MappingIsSound` follow.

`TerminalInvariant` and `ConsoleIsExact` are about `Terminal`, for any readers and writers,
any texts and any queue of at least two places. `TerminalAssumption` says that the text of a
writer is one call of the console's functions: `acquire_console()` comes first and its
`release_console()` last, whatever pairs are nested between. `TermInv` says that the bytes on
the line, in the transmitter and in the queue are those sent, and those taken and in the
input buffer those accepted (`OrderInv`); that the queue is unused before
`serial_init_queue()`, when nobody waits, and empty after a panic, and that nobody ever waits
for a byte to send (`IdleInv`); that a writer has the console exactly as often as its place in
its text says (`HeldAt`), and that whoever has begun a line and not finished it has the
console and was followed by no other (`Printing`). Both ends of a queue are shown to work on
the sequence that its ring stands for, at the wrap of either index; that the loop of
`serial_flush()` leaves nothing is shown with the least turn at which it would. A thread that
fails the assertion of `wait()` stops the terminal and moves no byte.

Model-checked only:

- liveness (`ReadyRuns`, `SleeperWakes`, `CallsReturn`, `LocksReturned`, `DevicesServe`), which
  is out of the prover's reach;
- `ImplementsLists` and `HashFinds`: pointer walks and rehashing are recursive operators, and
  what a recursion computes for every list needs induction over data; `HashTable` also uses
  bit operations;
- `CallsAgree` and `BootExact`: formatting, division, strings, tar headers and the parsing of
  command lines are recursive functions of their inputs;
- `DevicesAgree`, of which only the part about page directories is proved; the others are
  functions over small sets of inputs.

## Plan

Modelling left: condition variables ordered by priority, creation and exit in the first
tree; `all_list` as a list that is walked with interrupts on; `Syscalls` composed with
`Process` and `VirtualMemory` rather than beside them.

## Not modelled

- The second copy of everything the two trees share, and the older copy of `userprog`
  under `pintos2/src/userprog/userprog`, which the build does not use. Together with the
  tests these are most of the repository's lines; a definition here is mapped to one
  source, so that the share of lines mapped counts each shared file once of two.
- Example programs and the backtrace printing of `debug.c`: no state shared with the
  kernel. `setitimer-helper.c`: one call of the host.
- `loader.S`, `start.S`, `switch.S`, `intr-stubs.S`: assembly; what they do is part of the
  steps that use them (a context switch, the entry into a handler).
- Port input and output as such: registers appear as the bits the drivers test.
- Statistics counters, names for debugging and log messages.
- `hash_bytes()` and its relatives: an arbitrary function from elements to numbers.
- Two transfers to one file at the same time, and the sizes of kernel stacks.
