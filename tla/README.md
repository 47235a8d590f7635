# RDIX: a TLA+ model of the kernel

RDIX is a small 32-bit x86 kernel: a round-robin scheduler with processes and
kernel threads, paging with copy on write, a PS/2 keyboard, an AHCI disk driver,
an xHCI driver, a buffer cache and a Minix file system. This directory models the
parts with state of their own, above all where tasks, interrupts and devices
meet, checks them with TLC and proves their main safety properties with
TLAPS. Line numbers below are those of `src/`.

## 1. The system

| Part | State | Operations | What makes it correct |
|---|---|---|---|
| Scheduler: `kernel/task.c`, `list.c`, `clock.c` | `task_bucket`, lists ready/block/sleep/died, `running_task`, `jiffies` | `schedule`, `block`, `unblock`, `task_sleep`, `weakup`, `sys_yield`, clock interrupt | every task is on the list of its state; no assertion fails; nobody starves; sleepers are not early and hardly late |
| Process life cycle: `kernel/task.c` | state, `ppid`, `waitpid` of a TCB | `sys_fork`, `sys_exit`, `kernel_thread_exit`, `sys_waitpid` | only tasks that have exited are reaped; parents are alive; no wake-up of a waiting parent is lost |
| Mutex: `kernel/mutex.c` | value, list of waiters | lock, unlock with hand-over | one owner; first come, first served |
| Keyboard: `kernel/keyboard.c`, `queue.c` | ring `key_buf`, list `waiter`, `keymap`, prefix and caps-lock state | `keyboard_read`, the interrupt handler | no key lost, doubled or reordered; bytes are decoded into what was typed |
| Block requests: `kernel/device.c` | `request_list`, `do_request`, direction | `device_request`, `do_request`, `get_next_req` | one command at a time; the port never stays unused |
| AHCI: `kernel/hba.c` | `sending`, `timer`, port registers | `try_send_cmd`, the timer thread, the interrupt handler | every command is answered once; the handler returns |
| Buffer cache: `fs/buffer.c` | hash table, free list, wait list, buffers with count/dirty/valid/lock | `getblk`, `bread`, `bwrite`, `brelse`, `sync_dev` | one copy per block; a held buffer is not reused; a clean buffer agrees with the disk |
| Minix file system: `fs/minix1/` | inode table, inode and zone maps, directories, open files, working directories | `balloc`, `ialloc`, `bmap`, `iget`, `iput`, `_namei`, mkdir, link, unlink, chdir, open, close, read, write, lseek | each zone has one owner; no inode is freed while a name leads to it, as long as its link count has not wrapped; references are exact but for one call |
| Heap: `kernel/malloc.c` | chains of buckets with free lists, free descriptors | `malloc`, `free_s` | no block handed out twice; no page lost |
| Paging: `kernel/memory.c` | counts of frames, page tables, the kernel's pages | page fault, `copy_pde`, `free_pde`, `sys_brk`, `alloc_kpage`, `free_kpage` | each process has memory of its own; counts are exact |
| Bitmap: `kernel/bitmap.c` | bits, length, offset | init, test, set, scan | used by the three above |
| xHCI: `hd/usb3.0/` | device pool, list of devices to enumerate, command and transfer rings | port events, enumeration requests, event handling | completions find their waiter; driver and controller agree on the rings; devices get enumerated |
| Console | cursor and screen memory | write, scroll | not modelled |
| Boot, APIC, ACPI, PCI, partitions, library, shell | - | - | straight-line set-up and formatting: not modelled |

### How the parts interact

The kernel runs on one processor. System calls and interrupts enter through
gates that clear the interrupt flag, and a switch happens only inside
`schedule()`. A system call is therefore one atomic step from its entry to the
call of `block()`, `task_sleep()` or `schedule()` in it, and another step from
the return of that call on. Interrupts are taken while a task is outside the
kernel, and in kernel threads (idle, `usb_enum`, the timer thread of the disk),
which run with interrupts on. Devices run all the time: the disk and the xHCI
controller change memory and raise interrupts between any two steps. That is the concurrency of every module here, and it is
where the hard behaviours come from: what a function read before it blocked and
uses after it has been woken, a wake-up sent before the sleeper sleeps, an
interrupt that hits the thread it is about, one step of several that fails.
`PROJECT.json` lists these hazards at their lines, with the properties that
would show them going wrong.

At this commit `main.c:53-57` has the initialisation of the disk, the buffer cache and the
file system commented out; their modules start from the state these functions set up.

## 2. Modules

| Module | Models | Composed from |
|---|---|---|
| `Sched` | `list.c`, `clock.c` and the task moves of `task.c`, as functions from kernel state to kernel state | - |
| `Task` | preemption, fork, exit, waitpid, sleep, yield and `usb_enum` | extends `Sched`; refines `Process` |
| `Process` | abstract: the process life cycle without lists and a scheduler | - |
| `Keyboard` | `keyboard_read`, the push and wake-up of the interrupt handler, ring, mutex | extends `Sched`; refines `KeyStream` |
| `KeyStream` | abstract: one stream of keys, reads served in order | - |
| `Scancode` | the decoder in the keyboard interrupt | - |
| `Disk` | `device_request` and `get_next_req`, a command on the AHCI port, timer thread, interrupt | extends `Sched` |
| `Buffer` | the buffer cache over one device | - |
| `Bitmap` | `bitmap.c` as operators on a record | - |
| `Heap` | `malloc.c` and the kernel's pages, as functions from heap state to heap state | extends `Bitmap` |
| `Memory` | frames, page tables, page faults, fork, brk, exit and waitpid as far as memory goes | extends `Heap`; refines `AddressSpace` |
| `AddressSpace` | abstract: each process has pages of its own, fork copies them | - |
| `Minix` | maps, inode table, directories and the system calls on files | extends `Bitmap` |
| `Xhci` | the rings, the handler and the enumeration thread, with the controller and its ports | - |
| `SchedProofs` | lemmas about sequences and about `Sched` | extends `Sched` |
| `TaskProofs`, `KeyboardProofs`, `DiskProofs`, `BufferProofs`, `MemoryProofs`, `MinixProofs`, `XhciProofs` | the theorems about `Task`, `Keyboard` and `Scancode`, `Disk`, `Buffer`, `Memory` and `Heap`, `Minix`, `Xhci` | extend the modules they are about; the first three also `SchedProofs` |
| `MCTask`, `MCKeyboard`, `MCDisk`, `MCBuffer`, `MCMemory`, `MCMinix`, `MCXhci` | instances for TLC | extend the module they are named after |

**Sched.** The kernel state is one record `k`; its header gives the field of the
C structures each component stands for. A list is a sequence whose first element is
the node after `list->end`. `list_push` and `list_pushback` assert that the node is
on no list, as in the code; a failed assertion, a dereference of an empty slot
and a `PANIC` set `k.stop`, after which nothing happens. All operations that
components need are operators on `k`, so each component writes its atomic steps
as compositions of them.

**Task.** `pc[p]` is `"waitpid"` for a task blocked in, or just woken in,
`sys_waitpid`, and `child[p]` is that function's local variable, which the code
uses after `block()` without looking at the child again. The memory that fork
copies and exit frees is in `Memory`; the inodes both count are left out.

**Keyboard.** A reader that blocks is in `mutex_lock` (`pc` `"lock"`) or waits
for a key holding the mutex (`"keys"`). `value` stays FALSE when the mutex is
handed over. The n-th key typed is the number n, so a lost or doubled key shows.
A key typed into a full ring fails the code's assertion.

**Scancode.** The wire carries the bytes the keyboard has sent and the handler has not
read; the keyboard and typist are external. `meant` is what the typist meant by
each key press, with the shifts as they were at that time, and is compared with
what is decoded later.

**Disk.** A command is started by `Start` (down to `waitpid` in
`sata_sending_wait`), ended by `HbaInt` or `TimerExpire`, and its result taken by
`SentResume`. The drive may answer after the time limit, and the interrupt may hit
the timer thread itself while it runs. The first fails an assertion, the second leaves the
machine without further interrupts (`eoi` FALSE); the properties name both as
the only exceptions. The polling mode for QEMU is left out.

**Buffer.** Here which ready task runs next and which request the device serves next
are left open, which covers both the scheduler and the elevator; requests do not fail. A block's
contents are a version number; a task that changes a held buffer makes
the next version. `Change` and `Write` stand for the two ways the file system
marks a buffer dirty, without the lock (`bfree`) and under it (`inode_write`).

**Heap.** A bucket is a descriptor with its page, the list of its free blocks and
the count of blocks in use; a block is a page and a number in it. `malloc` and `free_s` are
one step each: fork, exit and waitpid, which call them here, run with interrupts off. What follows a
`PANIC` leaves the state alone, so calls can be chained.

**Memory.** One value stands for the contents of a page, and a process has one page
table, the one of its stack: the only pages whose bit `kernel_to_user` sets in
`vmap`. A heap that `sys_brk` grows cannot be used (`link_page` asserts the
bit) and one that it shrinks stops the kernel in `unlink_page`; both are stops
of the model. A store is `UserStore` where the entry has its write bit, else a fault
(`FaultAbsent`, `FaultWrite`, `FaultOutside`) and then the store. Stores by the
kernel into user memory (`SysResult`, the status of `sys_waitpid`) do not look at the write
bit; the constant `SharedStores` says whether they may hit a page that fork
shares. What a frame holds when it is first mapped is open: nobody clears it.

**Minix.** A call is one step: tasks interleave inside one only where a block is
not in the cache, which is the subject of `Buffer`. Sizes and offsets are counted in directory
entries. Each call is a chain of operators on the state `s`, one per function of
the code, each of which gives back or keeps the references it took; an assertion, a
`PANIC` and an access through `NULL` stop the kernel. `rmdir` refuses
every name, since its test of `childname` is inverted (`namei.c:313`), and with `"/"`, which has none,
returns without the `iput` of the root (`namei.c:322`): the history variable `lost` counts
these references. Link counts have a width (`LinkMod`, 2^8 in the code) and `sys_link` and
`sys_mkdir` increase them unchecked (`namei.c:401`, `238`); the history variable `wrapped` keeps the inodes whose
count went past it to 0.

What a process writes to a file may spell a directory entry (`Words`), and `NewInode`
leaves a number the zones it had, so `mkdir` may make a directory whose block a file had
written. Such words stay hidden: `sys_mkdir` sets the size to its two entries,
`find_entry` looks only below the size (`namei.c:37`), and `add_entry` makes the directory longer by
one entry only where the entry behind the last is free; where it is not, its
caller stores through `NULL`, which is a stop (`"page zero"`). The properties that
speak of entries mean those a look-up can find (`Found`).

Files have direct zones only and directories one block; permissions, times and the text of the working
directory (`abspath`) are left out.

**Xhci.** `usb_device_enumeration` is a list of requests computed from the
device's descriptors (`Requests`); each request is three steps, writing its TRBs, the
atomic block that rings the doorbell and sleeps, and what is done after the
wake-up. Interrupts come between any two. The controller executes a TRB when the doorbell
is rung and its cycle bit matches, may fail any of them, and reports ports at
any time. An unplugged device and a full pool stop the kernel.

The handler reads all events of one interrupt as being of the type of the first (`Handle`, `as`). A port event
read as a completion fails the assertion of `find_usb_device` on its slot. A completion or
a report read as a port event is taken for port 0 (its address is that of a page of the kernel, below
8 MB, and the register of port 0 reads 0, which is U0): a free container goes to the head of the list
(`Listed`) and the event is lost. The kernel goes on. The container is still free, so a
second event may take it again and put its node on the list twice (`Stale` is the
old place), and the slot enabled for it is nobody's. The history variable `misread` says that this
has happened.
 The event ring does not wrap, and no other ring does (`XhciAssumption`): `next_trb`
does not flip its cycle flag, so a ring that wraps would come to a halt. Four requests of
`ringProc.c` (194-354) that nobody calls are left out.

## 3. Runs

| Run | Instance | Shows |
|---|---|---|
| `task` | 5 slots, waitpid with pids, 3 ticks, sleeps of 1 and 2 ticks, `usb_enum` on | `TypeOK`, `NoAssert`, `Linked`, `NotLost`, `ParentAlive`, `Ancestry`, `WaitAwake`, `LatenessBound`, `ReapOnlyDied`, `ImplementsLifecycle`, `NeverEarly` |
| `task_live` | 4 slots, slices of 2 ticks | `ReadyRuns`, `WaitReturns` |
| `keyboard` | 3 readers, ring of 4 bytes, 5 keys, reads of 0 to 2 | `MutualExclusion`, `NoLostKey`, `PopSafe`, `ImplementsStream`, `KeysDelivered` |
| `scancode` | 4 bytes in flight, 2 keys down, 2 characters | `DecodesWhatWasTyped` |
| `disk` | 3 requesters, 2 sectors, limit of 1 tick, 5 ticks | `NoAssert`, `OneSender`, `NoStall`, `TimersReaped`, `SentReturns`, `PortUsed` |
| `buffer` | 3 tasks, 2 buffers, 3 blocks | `OneCopy`, `HeldStable`, `LockWakes`, `FullWakes` |
| `memory` | 3 processes, stacks of 2 pages, 9 frames, 19 kernel pages, 3 size classes | `RefCounts`, `WritableIsPrivate`, `HeapSafe`, `PagesOwned`, `ImplementsAddressSpace` |
| `minix` | 2 processes, 1 descriptor each, 4 inodes, 3 zones, an inode table of 3, link counts below 3, 1 lost reference | `ZonesOwned`, `LinksCovered`, `InodeRefs` |
| `xhci` | a keyboard and a disk on 2 ports, a pool of 2, rings of 12 TRBs | `WaiterReady`, `RingsAgree`, `Enumerated` |
| `buffer_sync`, `memory_shared`, `minix_links` | see section 6 | each refutes one property |

**Bounds.** Five slots hold idle, init, `usb_enum`, a child and one more:
enough for a parent to exit between its parent and its children, for two
children of one parent, for reuse of a slot, and for the full table. No sleep
may begin whose sleeper, as the last of three due at the same tick, would still wait
after the clock has stopped counting; three ticks leave room for sleeps that end together and apart. A ring of
four bytes wraps with five keys and fills with three. Three
readers make one owner and two waiters, the least for the order of waiters to matter. Three
requests on two sectors include equal sectors, a request between two others, and
both turns of the elevator; at the horizon of five ticks timeouts have happened
in every phase of the first commands. Two buffers for three blocks force reuse, and
three tasks allow one that holds, one that reuses and one that interferes.
Three processes share a page three ways and let each of them be the last
sharer; nine frames and 19 kernel pages run out in some orders and not in others, and
buckets of one and two blocks fill, empty and are given back. Three zones are the root directory's
and those of two files or directories; with four inodes, a table of three and
one descriptor each, everything runs out, and an open file is
unlinked and its inode used again. Link counts below 3 (`LinkMod`) wrap with the third link to a file
and with the first directory in the root; one lost reference (`MaxLost`) is as good as many, as nothing
but `i_count` shows it; what is written to a file is an entry for another inode (`Words`). Files are
opened for reading, for appending with creation, and with creation and truncation. Path names are the root, a name in it and a
name in the working directory, so that the same directory is reached both ways. Two
devices, one of each kind the driver tells apart, make one wait while the other
is enumerated.

**Symmetry and view.** `buffer` and `minix` use permutations of tasks (nothing but
safety is checked). `buffer` has a view without block contents, on which no
guard depends; `buffer_sync` has none. `memory` looks at states up to the
numbers of frames and kernel pages, which decide nothing while the invariants
hold; the invariants are part of the view, so no state that breaks one is merged
with one that does not. `minix` does not tell apart what free zones and free
entries hold, which is overwritten before it is read, nor the link count of a directory that has
wrapped, which no call reads, nor how many references to the root were lost, as long as they are
all it has too many of.

**Deadlock.** TLC checks it in every run. `Halted` or `Stopped` is a stuttering step for a
kernel that has stopped, `Quiet` one for a USB driver with nothing to do; nothing else may stop.

**Fairness.** The clock keeps ticking (weak fairness of `ClockTick`); a task
that has the processor inside the kernel goes on (weak fairness of the `...Resume`
steps: interrupts are off there, so nothing disables them), and a timer thread
that keeps the processor reaches its sleep. The disk's drive answers, unless the time limit comes first. An interrupt that is pending is taken if
interrupts are enabled again and again (strong fairness of `HbaInt`: the local
APIC holds it until then). The enumeration thread is scheduled like any other
task, its interrupt is delivered, and the controller works while a doorbell is rung
(weak fairness of each). No user task is assumed to read, exit, wait or make
a request, no key need be typed and no device plugged in.

Every property has a mutant: an operator named after the definition it replaces
(`unblock_mut`, `schedule_newest`, ...) that changes it as a plausible slip
would, and under which TLC finds the property violated.

## 4. Theorems

Each theorem holds for every value of the constants that satisfies the named
assumptions of its module: any number of slots, readers, requesters, tasks,
buffers, frames, stack pages, blocks of the heap, inodes and zones, any horizon of the clock. Where a theorem needs more,
its hypothesis is part of its statement.

| Module | Theorem | Property of the runs |
|---|---|---|
| `TaskProofs` | `TaskTypes`, `ListsLinked`, `NoTaskLost`, `NoAssertFails` | `TypeOK`, `Linked`, `NotLost`, `NoAssert` |
| | `ParentsAlive`, `ParentsLeadToIdle`, `WaitersAwake` | `ParentAlive`, `Ancestry`, `WaitAwake` |
| | `ReapSafe`, `SleepsLongEnough` (action properties) | `ReapOnlyDied`, `NeverEarly` |
| | `NeverTooLate` | `LatenessBound` |
| | `Refinement` | `ImplementsLifecycle` |
| `KeyboardProofs` | `OneOwner`, `NoSleepBesideKeys`, `NeverPopsEmpty` | `MutualExclusion`, `NoLostKey`, `PopSafe` |
| | `KeysInOrder` | `ImplementsStream` |
| | `TypedIsDecoded` | `DecodesWhatWasTyped` |
| `DiskProofs` | `OnlyLateAnswersAssert`, `OneCommandAtATime`, `NoRequestForgotten`, `NoTimerLeft` | `NoAssert`, `OneSender`, `NoStall`, `TimersReaped` |
| `BufferProofs` | `OneBufferPerBlock`, `HoldersKeepTheirBuffer`, `NoSleepAtAFreeLock`, `NoSleepAlone` | `OneCopy`, `HeldStable`, `LockWakes`, `FullWakes` |
| `MemoryProofs` | `EveryReferenceCounted`, `WritersAreAlone` | `RefCounts`, `WritableIsPrivate` |
| | `ProcessesKeptApart` | `ImplementsAddressSpace` |
| | `BlocksNeverShared`, `PagesNeverShared` | `HeapSafe`, `PagesOwned` |
| `MinixProofs` | `ZonesHaveOneOwner`, `NamesHaveLinks`, `ReferencesExact` | `ZonesOwned`, `LinksCovered`, `InodeRefs` |
| `XhciProofs` | `CompletionsFindTheirWaiter`, `RingsSeenAlike` | `WaiterReady`, `RingsAgree` |

Hypotheses beyond the assumptions of the modules: the theorems of `TaskProofs` are for
arguments of waitpid that are pids (`WaitArgs \subseteq Pid`, as in every call in the
repository); `ProcessesKeptApart` is for `SharedStores = FALSE`, since run
`memory_shared` refutes it otherwise. The theorems of `XhciProofs` are for a controller with more
slots than the driver has containers (`DevCnt < MaxSlot`; `USBDEVCNT` is 8, and a request
asserts that the number of its slot is below `max_slot`), and for `Lingering = FALSE`, as
the run is: with a controller that looks at a ring unasked, the assertion in
`xhc_handler` can fail (section 6). `CompletionsFindTheirWaiter` and `RingsSeenAlike` speak of
the time until an event is misread (`misread \/ WaiterReady`, `misread \/ RingsAgree`); what the
two properties claim after it is checked by the run alone. The assumptions ask for finite sets of tasks
(`BufferAssumption`), stack pages (`MemoryAssumption`) and processes (`MinixAssumption`),
because the counts are cardinalities; for a class of the heap that is not
named like one of the three uses of whole pages (`"tcb"`, `"vmap"`, `"pde"`); and for a disk
with a zone for the root directory, blocks of at least two entries, link counts up to 2 or more, and paths
made of names that are not empty.

Each module proves `Spec => []IInv` first (`Safety`, `KeyboardSafe`, `DiskSafe`,
`CacheSafe`, `FramesSafe`, `EnumerationSafe`; `HeapInOrder`, `DecoderSafe` and `DiskInOrder`
for the heap, the decoder and the file system), with one lemma per action, and derives the rest from it.

**Task.** `IInv` is `TypeOK`, `Linked`, `NotLost`, `NoAssert`,
`IdleRunnable`, `ParentAlive`, `Ancestry`, `BootOrder`, `WaitTarget` and
`WaitAwake`. `NoAssert` is not inductive alone. That `schedule()` finds a ready
task rests on `IdleRunnable`: idle is running or ready, and never
blocks. That `list_push` finds the node on no list and `remove_node` finds it on
one rests on `Linked` and `NotLost`; that `task_bucket[ppid]` is not empty on
`ParentAlive`, which exit preserves only because nobody is its own parent
(`Ancestry`). `BootOrder` is about the first switch, which starts idle without
making it RUNNING, and holds until then. `ReapOnlyDied` needs to know what a
blocked waitpid waits for: `WaitTarget` (its child is still its child and in the
table) and `WaitAwake` (it is awake only if that child has died). Steps that change no
life cycle (ticks, yield, sleep, the USB thread) share `QuietKeeps`, and the refinement has
one lemma per kind of abstract step. `LatenessBound` has an invariant of its own, `SleepOK`: the
sleep list is sorted by wake-up time and holds user tasks only, each once, so there are no more
sleepers than user tasks (`CountSleepers`). A tick then brings every sleeper one place
nearer to the front, or finds that nobody is due.

**Keyboard.** The mutex has no owner field: who owns it follows from where each task is
(`Owners`). `Waiting` ties that to the lists, and `Woken` says what a reader that has
been woken relies on when it pops without looking: the ring is not empty. It stays true because only
the owner pops, and the owner is that reader. The lengths of the ring are followed through
the remainder in `RingPop` and `RingPush`. The refinement of `KeyStream` follows order and not only
membership: the bytes from tail to head are the stream, and the owner, then the waiters
from the oldest to the newest, are its reads. It needs one more invariant, `Fresh` (a
reader that waits for the mutex has read nothing), and there is one lemma per kind of step.

**Scancode.** What the handler puts out is behind what was typed by the bytes on the wire. The
invariant says that these bytes, read one after the other, lead the decoder from the modes it is in
(extended code, shift, caps lock) to the modes the typist is in, and append to `out` what is missing
of `meant`. A key adds its bytes at the end, an interrupt takes one away at the front.
Where the code of an arrow is that of a digit, only the byte before it tells them apart, and it
is on the wire or in `extcode_state`.

**Disk.** `Where` says which states of the scheduler go with each place in the code. `Sent` is the
core: a sender sleeps in waitpid just while its timer thread lives, and the port is its own just
as long; `Reaped` says that there is no other timer thread. `NoStall` needs `Queue`
(each task in `device_request` has one request and nobody else has any) and `PortFree`. The
late answer of the drive remains as the one way to fail an assertion (`StopOK`).

**Buffer.** A call of the cache goes through many functions before the task rests again (blocks
or returns). `Core(t, T, h, l)` therefore speaks of the tasks `T` that rest, and of one
that does not, which may be counted in `b_count` of buffer `h` and hold the lock of
buffer `l`; `IInv` is the case where all rest. Each function has a lemma that leads from
one such state to another. `OneCopy` is in `BlocksOK`; that `getblk` may sleep between its
search and its insertion is harmless because it starts again (`Asks`). `FullOK` keeps track of who will wake
the tasks that wait for a buffer: `sync_dev` is inside the cache and wakes nobody.

**Memory.** `Counts` says that a frame's count is the number of entries and tables that use it,
and `Private` that a writable entry is its frame's only use; `WritableIsPrivate` then follows.
A step that fails half way (fork without memory for a table) leaves `Sound` true at
every point in between, so the lemmas are about parts of a step. The refinement maps a
process's page to the frame its entry names, and needs `Private` to see that a store
changes one process.

**Heap.** The invariant is about descriptors: each is on one list (free, or the chain of
one class), each page in use has one use (descriptors, a bucket, or whole pages of a process), and
of a bucket the free blocks and the blocks given out are together the blocks of its
page, each once, with `refcnt` counting the ones given out. `malloc` therefore
never takes from an empty bucket, and `free_s` gives a page back only when
nobody has a block of it. `fork` and `exit` go through states where a process has some of its pages and not
the others, so each function has a lemma with the pages and blocks `P` and `B` that are in use
before and after. The frames need nothing of this, so `FramesSafe` is proved whatever
the heap returns.

**Minix.** A call takes references and gives them back, and puts names in and takes
them out before or after it counts the link. `Whole(t, x, l)` is the invariant in the middle of a call:
`x` is the references in its hands, `l` the links that must cover the names of the inodes in its domain;
`DiskInv` is the case where `x` is `Lost`, the references to the root that `rmdir("/")` did not
give back, and `l` is `nlinks` of the inodes whose count has not wrapped (`LinksOf`). Each function has a
lemma that says how it moves `x` and `l` (`iget` adds to `x`, `iput` takes away; `add_entry`
adds to `l`), and each call is a path through them, its errors and rollbacks included. A
call that wraps a count takes the inode out of the domain of `l` (`Wraps`, `FewerLinks`). `Clean`
says that directories are in the map and stay directories: `sys_unlink` refuses
them and `sys_rmdir` removes nothing. Nothing need be known of what files hold: a block written by
a file that comes into a directory is beyond its size, and `add_entry` never moves the size
past an entry that is not free. Not proved away, but excluded: the states after an assertion has stopped the
kernel. The loops over blocks and over the names of a path are recursive functions,
treated as in `Xhci`.

**Xhci.** `IInv` relates four things that are each in another hand: where the thread is in its
list of requests (`ProgressOK`: what is done so far is in the container), how far the
controller is in each ring (`RingOK`, `LeftOK`: TRBs left are the last ones of the request
in hand, and their doorbell is rung once the thread is blocked), which slots have been
given out (`SlotsOK`: the slot just enabled belongs to no device yet), and the unread events
(`EventsOK`: at most one answers the request in hand, and one is there when no TRB is
left). `RoomOK` counts TRBs, which is why no ring wraps. The handler takes several
events in one interrupt; `Core(x, rg, h, E)` is the invariant with the events `E`
unread, and `HandleKeeps` takes one away. The loops of the handler and of a request are
recursive functions; that they have a value, and that each pass keeps the invariant, is
shown from the least index at which it would fail.

`SchedProofs` has the facts about sequences that the lists need (what `RemoveAt`,
`InsertAt`, pushing, popping and moving do to membership), and one lemma per
function of `list.c` and `task.c`: what it returns in terms of states and
containers, that lists stay well linked, that it does not assert, and which lists
keep their order. `TaskProofs`, `KeyboardProofs` and `DiskProofs` share them; the other
modules, which have lists of their own and no scheduler, state those few they need.

Only model-checked: liveness (`ReadyRuns`, `WaitReturns`, `KeysDelivered`, `SentReturns`,
`PortUsed`, `Enumerated`), which is outside the prover's reach, and what `WaiterReady` and `RingsAgree` claim after an
event has been misread. Every other invariant and every
safety property over steps that a passing run checks is also a theorem.

## 5. Not modelled, and what comes next

In this order:

1. `Minix` over `Buffer`: `iget` publishes an inode before its buffer is read
   (`inode.c:67`), `iput` frees it after a `brelse` that may block, and `sys_exit`
   calls it when the task is on the died list already (`task.c:386`). Files with indirect
   zones (`bmap.c:165`).
2. `Heap` with a caller whose interrupts are on: the search of the bucket list before
   interrupts are disabled (`malloc.c:87`) and the repair in `free_s` (`malloc.c:189`).
3. `jiffies` with a small width, for its wrap; the event ring with its wrap; console arithmetic.

Left out for good: boot, APIC, ACPI, PCI and partition set-up (straight-line register
traffic), formatting and string functions (no state), the shell (a user program).

## 6. Where the code and its text disagree

Each is a run with one property that TLC refutes.

- `buffer_sync`: `b_dirty`, which tells whether a buffer is in step with
  the disk (`fs.h:26`), is cleared when `device_request` has returned, not when the
  data were moved; a change made in between is taken for clean.
- `memory_shared`: each process is said to have memory of its own
  (`memory.c:187`), and copy on write relies on a fault at the store. `CR0.WP` is
  never set (`memory.c:231`), so the kernel's own stores into a shared page do not
  fault, and parent and child both see the result. Run `memory` shows that this is the only
  way it goes wrong.
- `minix_links`: `nlinks` is said to count the entries that point at an inode
  (`minix1.h:87`); `add_entry` cuts a directory off behind a name it puts in
  the place of a removed one (`namei.c:123`), and files behind it keep a link that nothing finds.

Three are part of the model, and the properties say so:

- `waitpid(-1)` (`task.c:423` says it releases some child) blocks
  for any child, but after it is woken releases the first one its loop met, which
  may be alive. With `AnyChild` among `WaitArgs`, TLC refutes `ReapOnlyDied`; the run and the
  theorems are about pids.
- The timer thread gives up a command without the reset its
  comment asks for (`hba.c:388`); a late answer fails
  `assert(port->sending != NULL)` at `hba.c:502` (`NoAssert` of `Disk`).
- The handler that interrupts the timer thread itself makes it
  exit, and `kernel_thread_exit` switches away for ever: the status register is not
  cleared, against the comment at `hba.c:517`, and the interrupt not ended
  (`SentReturns`, `PortUsed`).

Smaller ones, met on the way: `buffer.c:87` speaks of least recently used, but the
free list is first in, first out; a sleeper of `wait_list` can be overtaken
for ever, as that list is last in, first out; a single disk request can be
overtaken for ever by requests ahead of the elevator; `free_pages` counts the
frames of the kernel's mapping as free, so the `PANIC` for a full memory is not
reached; `create` on a directory empties it; a request that fails leaves the
enumeration thread asleep for good; a name for which the link count wrapped may
outlive its inode (`namei.c:401`); `rmdir("/")` keeps a reference to the root (`namei.c:322`); with a controller that looks at a ring again
before the doorbell (`Lingering`), the assertion of `xhc_handler` on the waiter fails; `sys_brk`
unlinks the same page once for every page it shrinks by (`memory.c:533`); the
rollbacks of link and unlink call `iput` for inodes they did not find
(`namei.c:461`); `inode_read` copies past the end of a buffer when the rest of the
file spans two blocks (`inode.c:116`); the index into an indirect block is taken from
the level above (`bmap.c:165`); `xhc_handler` uses the type of the first event for all
events of an interrupt (`xhcd.c:215`), so that a completion behind a port event is lost, the
thread sleeps for good, and a container without a port is put on the list.
