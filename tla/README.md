# A verification of linux-dev-framework

This directory holds TLA+ specifications of the stateful parts of the
framework, the TLC configurations that check them on small instances, and
proofs, checked by TLAPS, of what they promise for every instance. The
repository is a C library (`libs/app_utils`) and a collection of programs built
on it (`apps`, `simple_apps`, `misc`). Paths below are relative to `src/`.

`tlc -config X.cfg M.tla` runs a model, `tlapm M.tla` checks a proof module.
`PROJECT.json` lists the runs, which definition stands for which lines, the
hazards each property is aimed at, and the findings.

## 1. Inventory

| part | state | operations | interacts through |
|---|---|---|---|
| producer-consumer queue (`pc_queue.c`) | ring of entries with a `valid` flag, two pointers | enqueue and dequeue attempts, no locks | memory shared by two threads |
| buffer pool (`mm.c`, `list.h`) | list of free buffers and a count, list of all buffers, two mutexes | create, alloc, free, link, unlink, walk | called by table and p2p server |
| reference-counted table (`tab_xxx.c`) | two hash tables, a list, ids, counts; a lock for each line, one for add and delete | add, delete, get by key or id, put, count, dump | takes its entries from the pool; several threads |
| supervisor (`guard.c`) | list of processes with pid and restore mode, exit flag | start, poll, restart, reboot, quit | fork, waitpid, kill; SIGINT; reads a configuration |
| debug shell server (`telnetd4dbg.c`) | session descriptors, two flags, output cache, command history, the process's standard streams | accept, relay, log in, run commands, end a session | misc thread and shell thread; one client at a time |
| p2p server and client (`p2p_*.c`) | table of requests with hash lists; peer address, `connected`, missed heart beats | match requests; request, connect, heart beat, time out | UDP; SIGALRM handler against the main loop |
| configuration file (`config_file_ops.c`) | arrays of variables, values and their backups; the file | parse, get, set, write `<file>.tmp` and rename it | guard reads it; shares a disk with the log |
| log (`log.c`) | the open file of bounded size, named after the second | init, write, open the next file when one is full | many callers, no lock |
| disk monitor (`disk_monitor.c`) | an exit flag | poll the free space, delete the oldest log file | SIGINT; the disk of log and configuration |
| echo programs (`tcp_*.c`, `udp_*.c`, `io_utils.c`) | socket buffers, counters | send, receive, reflect, report | TCP, UDP, SIGALRM |
| performance meter (`tcp_perf.c`) | counters of its threads, an exit flag | send, receive, report, join | two threads at each end; SIGALRM, SIGINT |
| frame generator (`tap_writer.c`) | options, packets, time of the next round | check options, load a dump, send rounds | tap device; wall clock |
| audio modem (`apps/data_in_audio`) | bit and frame position | modulate, search for the sync word, demodulate | sound card |
| line editor (`vi_style_input_test.c`) | a line, a cursor, a mode | keys | terminal |
| kernel modules (`kernel_dev_frm.c`, `drop_packets.c`, `block_drv_test.c`) | device and its owner, packet counters, disks in memory | load, open, read, map, hook, request, unload | kernel: RCU, timers, tasklets, work queues, block layer |
| the rest of `libs/app_utils` | next to none | system calls, formatting, checksums, symbol lookup | |

What is hard in them: lock-free sharing (the queue), locks split over several
structures and a read made outside of the lock (table and pool), a parent and
children that die, stop and reuse pids (guard), two threads that share flags,
descriptors and blocking buffers, and wait for each other (the debug shell),
lossy datagrams and a signal handler (p2p), handlers that write to a socket
behind the back of a loop (echo), signals that any of three threads may get
(performance meter), steps of an initialisation that fail one by one, with the
kernel calling in meanwhile (modules). The full list, line by line, is
`hazards` in `PROJECT.json`.

What makes them correct, in a sentence each: the queue is a bounded FIFO; no
buffer of the table is free and reachable at the same time, or lost; guard knows
every child it has started and runs no program twice; the debug shell's threads
work on one session at a time and the process gets its streams back; a p2p client
that is connected has its peer's current address or notices that it has not; a
configuration read back is what was written, wherever the program stopped; the
counts that two ends of a connection print agree, and SIGINT ends both; the frame
generator sends what is due and nothing else; a kernel module that has gone
leaves nothing that can be called; an editor's screen is its buffer; a file sent
as sound arrives whole.

## 2. Modules

| module | stands for | checked by | proved in |
|---|---|---|---|
| `BoundedFifo` | what the queue promises (abstract) | through `RefinesFifo` | |
| `PcQueue` | `pc_queue.c`, a step per memory access | `MCPcQueue` | `PcQueueProofs` |
| `BufferPool` | `mm.c` and `list.h`, operators on a pool as a value | `MCTabXxx` | `TabXxxProofs` |
| `TabXxx` | `tab_xxx.c` over `BufferPool`, a step per critical section | `MCTabXxx` | `TabXxxProofs` |
| `Guard` | `guard.c` and the kernel's table of its children | `MCGuard` | `GuardProofs` |
| `Telnetd` | `telnetd4dbg.c`: both threads and the clients | `MCTelnetd` | `TelnetdProofs` |
| `ShellLine` | the line that the debug shell reads, its history, the user's terminal | `MCDevices` | `DevicesProofs` |
| `P2pDirectory` | what the p2p server promises (abstract) | through `RefinesDirectory` | `P2pProofs` |
| `P2p` | `p2p_server.c`, `p2p_client.c` and the network | `MCP2p` | `P2pProofs` |
| `LogFile` | `log.c` on a shared disk | `MCDiskMonitor` | `FilesProofs` |
| `ConfigFile` | `config_file_ops.c`, extends `LogFile` | `MCDiskMonitor` | `FilesProofs` |
| `DiskMonitor` | `disk_monitor.c`, extends `ConfigFile`: the three composed | `MCDiskMonitor` | `FilesProofs` (safety) |
| `Echo` | `tcp_tester.c`, `tcp_reflector.c`, `udp_tester.c`, `udp_reflector.c`, `io_utils.c` | `MCTraffic` | `TrafficProofs` |
| `TcpPerf` | `tcp_perf.c`, both ends | `MCTraffic` | `TrafficProofs` |
| `TapWriter` | `tap_writer.c` | `MCDevices` | `DevicesProofs` |
| `DropPackets`, `BlockDriver`, `DeviceModule` | `drop_packets.c`, `block_drv_test.c`, `kernel_dev_frm.c`, and the kernel around them | `MCDevices` | `DevicesProofs` |
| `LineEditor` | `vi_style_input_test.c`, and the terminal | `MCDevices` | `DevicesProofs` |
| `AudioModem` | `apps/data_in_audio` | `MCDevices` | `DevicesProofs` |

An operator named with a suffix after an underscore and commented "Fault:" is a
plausible bug in the definition of the same stem. No specification uses it; put
in the place of the original it makes the property that `mutants` in
`PROJECT.json` names fail.

**PcQueue.** `entry`, `pt_p_ptr` and `pt_c_ptr` are the fields of `t_pc_que`;
each call is a sequence of actions, one for each access that the other side can
see. Every field of an entry is `volatile` and the makefile builds for x86, which
keeps stores in order, so accesses are in program order. Items are numbered; the
three words of an entry are written one by one with the item's number, so that a
torn entry would be seen. A NULL item, which the code's users must not send, is
left out.

**BufferPool, TabXxx.** The free list is kept node by node, with the list head
as node 0, because what goes wrong in `alloc_buffer` is that it reads a node
outside of the mutex and unlinks it inside. The hash tables are kept as sets of
entries, each line's lock by its owner. `link_lock_all` and the lock in an entry
are held for one access only and make that access one step. The contents of a
buffer are blanked when it is freed: `build_new_entry` sets all of them.
`tab_xxx_entry_num` and `tab_xxx_dump_all_entry` read under `add_del_lock`; what
they see is `TableConsistent`.

**Guard.** `os` is the kernel's process table as far as guard's children go:
running, stopped (reported or not), zombie, or free for fork to use again.
`waitpid`, `Reported` and `SIGKILLed` are the system calls, with pid -1 meaning
any child or every process. A child may exit, stop and continue at any time, so
that an obeyed SIGINT is no step of its own. The sleeps are no steps either:
whatever happens during them happens between two steps.

**Telnetd.** `misc` and `shell` are the places of the two threads. A select that
reports nothing is no step; one that reports something is the action for what
the loop does first. A client's input is a sequence of lines, of the kinds the
shell tells apart; output is blocks, `PTY_BUF` of which fill the socket pair,
and a prompt goes into the block that is there. `CommandWrites` waits when the
pair is full, and the misc thread empties it unless it waits for the shell. The
environment says which of four troubles a behaviour may have (`Trouble`).
`ShellLine` is the inside of one `read_input`, which `Telnetd` takes as a step:
keys, rolling through the history, and what the terminal shows after each, on a line
that is as wide as `shell_buf` is long. `read_input` does not look at a size: a key
that falls behind `shell_buf` ends the behaviour (`Overruns`), and a password that is
longer than the string of stars, once refreshed, leaves on its line what lies behind them
(`garbled`). In `Telnetd` an escape takes the first two bytes of the next line, which then
may be any line; urgent data ends a session as select reports it.

**P2p, P2pDirectory.** The server's table is kept as the code has it: buffers,
the list `all_reqs`, the hash lines, the count. A datagram that reaches the server
is one step of its loop, whatever it evicts, finds too old and answers. A
client is two actors, `main` (`p2p_conn_loop` and the loop of a connection) and
the SIGALRM handler `timer_proc`, which comes between any two of its steps. The
network keeps a set of datagrams: it loses any, delivers in any order, and
repeats some. A client or the server may stop and start again; a client then
has another address. `P2pDirectory` has no lists and no buffers: a function from
pairs of users to an address and a time.

**LogFile, ConfigFile, DiskMonitor.** Units of one disk are shared by the log, the
configuration, `<file>.tmp` and others. `write_file` has a step for each read and
write of `fd_log_file`, which no lock protects. A configuration line is a
record of its kind; a long one is cut in pieces by `fgets` as in the code. The
program may stop at any step; a disk without room fails a write, or only
the last one, at `fclose`, whose result is not looked at (`torn` remembers it).
An unlinked file keeps its units while it is open. `deletable` says whether the monitor
can make and open its list of names and unlink the first of them.

**Echo.** The tester's handler sends, from inside the loop that receives, a step
for each `write` that takes a part; the reflector reads and writes. A variable
chooses TCP (a stream that holds `CAP` bytes each way, SIGPIPE, failure) or UDP
(datagrams, which may be lost). The counters are those the programs print.

**TcpPerf.** Each end has a main program and up to two threads; a signal
interrupts the blocking call of any one of them, after it has moved a part.

**TapWriter.** Time is the wall clock in ticks, `SEC` to a second; sending takes
any time. The packets are numbers, a dump a count of good packets.

**DropPackets, BlockDriver, DeviceModule.** `the_init` and `the_exit` step by step,
each call of the kernel that may fail doing so; against them packets on every
CPU with RCU's grace period, users that open disks and have requests split
into segments, processes that open, read and map the device, and the thread,
work item, tasklet and timer that start each other again. A `pread` behind the end of
the device's data may find nothing there, which crashes the kernel (`the_pread`).

**LineEditor, AudioModem.** The terminal is a variable that obeys the escape
sequences, a count of 0 standing for 1 as terminals have it. Sound is a sequence
of samples, of each of which the tone is kept; the filter finds the share that a
tone has of a window, and its power is the square of that. Bits have `BIT` samples,
and the receiver's windows fall anywhere in them: it starts anywhere, and a device
that loses the pace, from which `audio_play` and `audio_record` recover and return
success, puts silence anywhere or leaves samples out (`OutOfPace`); a call that fails
has done a part (`Cuts`), whether its caller looks at the result or not. `troubles`
counts what of this has happened unnoticed or cut the sound short. A byte is the set of the places of its bits that are 1, and
`Number` what it counts for in the size.

`MCTraffic` and `MCDevices` each hold programs that do not talk to each other: a
behaviour chooses one (`program`) and leaves the others in initial states.

## 3. Runs

| run | instance | shows |
|---|---|---|
| `pc_queue` | 3 entries, 8 items | `ExclusiveEntry`, `InOrder`, `RefinesFifo`, `EveryItemArrives` and the inductive invariant |
| `tab_xxx` | 2 threads, 2 keys in one line, 3 ids, pools of 1 and 3, a count that `malloc` left right, too low or too high | `FreeOrInUse`, `RefCntExact`, `TableConsistent`, `FreeCountExact`, `HeldIsStable` |
| `guard` | 2 items in every mix of modes, 3 pids, failing forks, stopped children | `ChildrenListed`, `OneInstance`, `RebootAfterKill`, `QuitLeavesNone`, `Restarted` |
| `telnetd` | 2 clients, 2 lines on their way, no trouble, each trouble, all troubles | `ShellOwnsSession`, `QuitIsOfSession`, `StreamsRestored`, `EveryLoginServed` |
| `p2p` | 2 clients that ask for each other and a third user, 3 addresses, a table of 2, 2 datagrams on their way, 1 crash, repetition or stranger | `BuffersAccounted`, `AddressOfPeer`, `RefinesDirectory`, `OneSidedEnds` |
| `files` | 2 threads, files of 1 record, a disk of 11 units, 2 log files, 3 events, 2 variables | `LogSizeBounded`, `DiskWhole`, `DiskAgrees`, `MonitorGetsOn` |
| `traffic` | blocks of 2 bytes over a connection of 2, 3 alarms; meters with 3 bytes to send, receiving or sending at both ends, one or none | `EchoAgrees`, `EchoEnds`, `PerfAgrees`, `PerfEnds` |
| `devices` | 4 ticks to a second for 12, every kind of option; 2 CPUs; 3 disks; 2 processes; 2 lines of 3; a `shell_buf` of 3, 1 star and 2 lines of history; bytes of 2 bits of 8 samples, 1 trouble | `TapSends`, `ModulesGoQuietly`, `EditorShows`, `ShellShows`, `AudioWhole` |
| `tab_xxx_race` | 2 threads, a pool of 1 | finding: `alloc_buffer` hands out the list head |
| `tab_xxx_id` | as `tab_xxx` | finding: id 0 is handed out |
| `guard_unknown` | as `guard` | finding: the death of a listed process is taken for a stranger's |
| `telnetd_login` | impatient clients | finding: the server hangs for good |

*Bounds.* Eight items take a ring of three round more than twice, with every
offset of the two ends; the proofs then cover every size. In the table two
threads on one key make every pair of calls meet, and two keys in one line make
searches see a neighbour; three ids make the id counter wrap. A pool that never
runs out while two threads use it is the precondition of the passing run, and
the race run is its complement: `alloc_buffer` is wrong exactly when the list is
empty as it looks. `garbage` is 1 or -1 only for a pool that does not run out: with a count
that is too high an empty one hands out its list head without any race. For guard two items are enough for one to disturb the other,
three pids for a pid to be free, in use, and leaked; the proofs cover every
number. For the shell one client more than the session is enough for a new login.
In `p2p` a third user makes the table of two full and shares a hash line, and an
age limit of 0 with two times makes a request too old; two datagrams are enough
for one to overtake another. In `files` the disk starts with room for one
rewriting of the configuration and two log records, so that every write can
fail; the third variable of the file is one too many. In `traffic` a block fills
the connection, so that writes take a part, and three are enough to fill
both directions while the reflector holds a part of one. In `devices` the options have a value that divides the second, one
that does not, and 0; a disk before and one after the one that fails; a line
and a history that fill up; every file of up to one byte, and longer ones that
hold the sync word or have more bytes than their size field can say; receivers
at each place of a window of 4 samples, and one that comes too late; pauses and losses that
are no multiple of a window, in the preamble and in each part of a byte. One trouble
is enough for wrong bytes, and without the condition on it `AudioWhole` fails.
A `shell_buf` of 3 for the code's 512 and 1 star for its 32 let a line overrun the one, and
a password the other. The proofs cover every value.

*Deadlock* is checked in all runs but `telnetd`, where a hang of the server is
what the troubled environments are about (that the untroubled one has none is
part of `EveryLoginServed`), and `files`, `traffic` and `devices`, whose programs
end, or stop when the bound on events is reached.

*Conditions in the properties.* `Restarted` speaks of behaviours in which fork
does not fail, `QuitLeavesNone` of those in which no child is stopped,
`StreamsRestored` of clients that do not hang up, connect or send urgent data during a login,
`EveryLoginServed` of no trouble at all; dropping one gives a counterexample, and
the violation runs show two of them. `AddressOfPeer` speaks of users that never
had the same address: the client does not compare names in a reply, and an
address may be given to somebody else. `DiskWhole` and `DiskAgrees` leave out a
file whose end `fclose` failed to write, and `DiskAgrees` the variables that
`set_config_var2`, which does not write, has changed. `MonitorGetsOn` allows the
monitor to delete for ever, to find nothing to delete, or no way to do it: when the
list of names cannot be opened (`disk_monitor.c:97`) the inner loop logs that and goes
on, when the name cannot be unlinked (108) it does not even notice, and in both it spins
and ignores `NeedExit` (`disk_monitor.c:187`). `EchoEnds` excepts two ends that
both write to a connection that is full, `PerfEnds` an end whose other call waits for
the peer: in both the programs do not end, and no text promises that they do.
`DisksQuiet` leaves out requests on a disk that was open when the module was
removed. `EditorShows` leaves the terminal raw after two keys in one read, and after a
signal that comes before `main` ignores or catches it (`vi_style_input_test.c:338-342`).
`ShellShows` ends where a line overruns `shell_buf`, which is at the 513th character or
at Enter after the 512th (`telnetd4dbg.c:236,244`), and says nothing of what is seen of
a password of more than 32 characters after it has been corrected (148), until the next
line. The terminal's lines are assumed to have room for all of `shell_buf`.
`AudioWhole` leaves out a receiver that starts too late for the sync word or fails to
hear it, a file longer than its size field, and sound that is not what was sent or is not
all read, which nothing notices: a device that ran dry or over (`audio_io.c:52,68`), an
`audio_play` that failed (its result is not looked at in the preamble and the sync word,
and only logged for the size, `main.c:45,58,60,66`), an `audio_record` that failed at
`demodulator.c:66`, or while the sync word was sought (`main.c:114,116`). That the
device does not run dry is needed: in an unbroken sound a start bit comes after
stop bits, and a window holds it when more than half of it does; after a pause it
comes after silence, any of it is enough, and the window may begin almost half a
bit before it (`demodulator.c:61`). The receiver then leaves the second half of the
last data bit unread, and if that bit is 0 the next call takes the rest of it for a
start bit.

*Fairness.* The queue's two sides keep calling, and no call blocks: weak fairness
of each. guard's main loop is one thread whose calls return (`WNOHANG`, sleeps
with an end): weak fairness of `main`, none of the children. Both threads of the
debug shell are scheduled, and a command ends: weak fairness of each thread and
of `CommandEnds`; the clients do as they like. The table has safety properties
only: spin locks are not fair. p2p's clients have fairness of their main program
and of the timer, the server and the network none: nothing makes a datagram
arrive. The disk monitor is one loop with sleeps that end: fairness of `main`.
Tester and reflector, and each thread of a meter, are threads that are
scheduled and block only where the model says so: fairness of each; the alarms
and SIGINT may stay away.

## 4. Findings

1. `mm.c:91`: `alloc_buffer` reads `free_pool.next` before it takes the mutex.
   On an empty list another thread's `free_buffer` in between makes it unlink the
   list head and return it as a buffer.
2. `tab_xxx.c:99`: `next_id > MAX_ENTRY_ID` cannot be true of a `uint16_t` when
   `MAX_ENTRY_ID` is 65535; after the last id comes 0, below `MIN_ENTRY_ID`.
3. `guard.c:117`: after a failed fork the item polls with pid -1, which reaps any
   child; the item that child belongs to never sees it go down.
4. `telnetd4dbg.c:263`: `login_auth` does not look at `shell_thread_should_exit`,
   and `term_session` waits for it without a limit.

## 5. Proofs

Every safety property that a passing run checks is a theorem, for every value of
the constants. Each module's assumptions are named and
checked by TLC on every instance; what they say of the code:

* `PcQueueAssumption`: the ring has at least one entry.
* `GuardAssumption`: the list has at least one item, and -1 is not a pid.
* `TabAssumption`: finitely many threads, at least one id and one hash line.
* `TelnetdAssumption`: the socket pair holds two blocks.
* `EchoAssumption`, `PerfAssumption`: a block and a buffer have at least one byte.
* `P2pAssumption`: the table has room for one request and the limits are numbers;
  each client knows one peer, which is one of the clients, and there are
  addresses for all of them at once; the requests of others come from users that
  are not clients.
* `LogAssumption`: finitely many threads and log files, and a file holds at
  least one record.
* `ConfigAssumption`: `Trimmed`, which is what the parser leaves of a value that
  has been written, leaves what it has trimmed once as it is (it takes away the
  blanks, quotes and slashes at the ends, and afterwards there are none), and each
  line of a file is a comment or names a variable and such a value.
* `TapAssumption`: an option's value is an integer of any sign, a dump has a number
  of good packets.
* `EditorAssumption`, `ShellLineAssumption`: there is a line; there is room for a
  command in the history and for a character in `shell_buf`; the blank is not a character that can be typed into
  the editor, and is one that can be typed into the shell.
* `AudioAssumption`: a bit has two samples or more, there are a data bit, a stop bit
  and a byte of the size, and `Number` gives each byte a number of its own, from 0
  to `BASE - 1`.
* `BlockAssumption`, `DeviceAssumption`: numbers are numbers, no process is `None`.

*PcQueueProofs.* `InOrder` is not inductive: it says nothing of entries that are
not being copied. `IInv` adds `WindowOK` (the valid entries are the window of the
ring from `ConsumerEnd` on, one for each item published and not released, in
order), `FillingOK` (what the producer has written so far, into an entry that is
not valid) and `CopyingOK` (what the consumer has copied so far, from one that
is). The ends of the window run ahead of the pointers while a call has yet to
move its own, which is why `Published` and `ProducerEnd` look at the program
counters. `Exclusion` and `DeliveryInOrder` follow.

In the same module, with `IInv`, the write of `valid = 1` maps to `Put`, the
write of `valid = 0` to `Take`, the answers "full" and "empty" to `PutFull` and
`TakeEmpty`, and everything else to a stutter, so that `Spec => RefinesFifo`.

*GuardProofs.* pids are reused, and after finding 3 an item may keep a pid that
is now another item's. What holds nevertheless is `ListedByProgram`: a live child
is in the field `pid` of the item whose program it runs. Around it `IInv` says
what each loop of the program has left behind: nothing started beyond the index,
nothing listed (reboot) or alive (quit) before it; and, unless children are
stopped, that a restarted item's zombie has been reaped. `ChildrenListed`,
`OneInstance`, `RebootAfterKill` and `QuitLeavesNone` follow without more.

*TabXxxProofs.* `alloc_buffer` reads `free_pool.next` outside of the mutex, and
finding 1 shows what becomes of that on an empty list. The theorems assume the
complement and nothing else: `HeadNotTaken`, that `alloc_buffer` never takes the list
head, because nobody frees a buffer between its read of an empty list and its mutex,
nor does a pool run out whose count `malloc` left too high. What has been read from a list
that is not empty stays the first node (`ReadFirst`), because only the holder of
`add_del_lock` takes buffers and `free_buffer` appends at the other end. `TabInv`
adds who holds `add_del_lock` (`Mutex`), what each step of an addition or a
deletion has linked so far (`Links`, `Counted`, `Distinct`), that a search has
its line's lock and its entry is still linked (`Getting`), that no two calls own
an entry (`Owners`), and the free list as a closed set of nodes linked both ways
(`FreeList`). From it follow `TypeOK`, `RefCntExact`, `TableConsistent`,
`HeldIsStable`, `AllocFresh` (what `alloc_buffer` hands out is used by nobody), and
`FreeCountExact`: the count is off by what `malloc` left in it, which `mm.c` does not
set to zero (`mm.c:145`), whatever that is, and by nothing else. `FreeOrInUse` says moreover that a walk of the free list
meets every buffer that nobody uses. That the nodes are linked both ways does not
give it: the list could be two circles. `OneCircle` excludes them (a set of free
nodes that has the head and, with a node, its successor is all of them), and
`alloc_take` and `free_buffer` keep it, as does `Closed` with it. That it holds when the
pool has been made is the one place where it takes an induction, done with the
least node outside of such a set.

*TelnetdProofs.* Of every environment: `Session` says that there is a shell thread
only while there is a session, its own, and that the flag it leaves when it quits is
cleared before the next one; it gives `TypeOK`, `ShellOwnsSession` and
`QuitIsOfSession`. `Patient` says where the two threads are if no client ends
or replaces a session during a login, and gives `StreamsRestored`.

*TrafficProofs.* `EchoAgrees` and `PerfAgrees` are inductive together with
the types and, for the echo, `Sends`: only a program that is sending has bytes
that are written and not counted yet. There is a lemma for each outcome of a
write and a read; arithmetic does the rest.

*P2pProofs.* The server first, as operators on a table: `Consistent(t, H)` says that
the list of all requests, the hash lines, the count and the free buffers agree, but
for the buffers in `H` that the code has taken out of one and not yet put into
another. There is a lemma for each function of the server (`delete_req`,
`release_req`, `add_req`, the searches, the eviction of what is too old), about what it
keeps of `Consistent` and what it does to the set of requests, and from these
`NoBufferLost`, and the step of the refinement: `P2pDirectory` has no buffers, and
each datagram that the server handles is one step of it or none
(`ImplementsDirectory`). Then the network: `AddressOfPeer` needs to know that what is on its
way is honest, so that `P2pInv` adds `RequestsOfOwners` (a client's request names
its own address of some time and its peer), `TableOfOwners` (so does what the server
keeps of it) and `RepliesToOwners` (an answer brings an address of the peer of the
client it goes to), which loss, repetition and overtaking do not change. A
restart forgets the client's peer, not the addresses it once had.

*FilesProofs.* `LogSizeBounded` is not inductive, as a thread that has passed the
test of the size may be anywhere: `LogSizes` counts such threads as the records that they may
still write (`Writers`). For the configuration, `ConfigInv` says where in memory, in
`<file>.tmp` and in the file the variables and the two arrays of values are at each step
of a call of `set_config_var`; nothing is said once `fclose` has missed the end
of a file (`torn`). What is read back is what was written because the third
variable of a file that has three is the third that the parser counts (`Hits`,
`Nth`), for a file that the program has written, of which every line is a variable. The disk
monitor deletes log files only.

*DevicesProofs.* For the packet filter the invariant follows the grace period: once
it is over no CPU has the memory in use. For the disks it follows the unwinding
of `add_one_disk`: the disks before the index have all of their resources and those
after it none. For the device it says which of the thread, work item, tasklet and
timer may still run at each step of `the_exit`, whose order is what makes it work.
For the frame generator, `time_a_smaller_than_b` and the carry of the microseconds are
shown to be comparison and addition of ticks, for a second of any length;
`TapSends` then is arithmetic, together with what holds before the thread begins
(`TapChecked`: its options have passed `check_args`) and in a round (`TapCounted`). For
the line editor and the shell's line the invariant is a picture: the row of cells
that a terminal shows of a line, to its last column; every escape sequence and
every print is a lemma about that picture (`Redrawn`, `Moved`; `Refreshed`,
`BackInput`, `KeyShown`). That no escape sequence has a count of 0, and that a shorter
command in the history is preceded by blanks, is what these proofs rest on.

In the same module, of the sound: `Sounded(n)` says of every sample of the first n
bytes which bit of which byte it belongs to, and `Resting(at, k)` where a receiver may
be that has taken k bytes: less than half a window before the end of the last
one's data, so that what it still has of a last bit that is 0 is too little to be
a start bit, and before the start bit of the next. From there every window before
that start bit has at least as much mark as space (`NoSpace`), and one that begins in its
first half is all space (`AllSpace`), so that the search ends less than half a
window before it and less than a window behind its beginning (`StartFound`). Then
more than half of each data window is the one bit's (`BitHeard`), the byte is the
one that was sent, and the receiver rests again (`Demod`). These lemmas count the
samples of a tone in a window as a set with a cardinality. The size needs `Power`, a
recursive function: that it satisfies its equation is shown up to each number by
the least one for which it would not (`PowerDefined`), and that the bytes of the
size give back the length, by what one more of them does to a quotient (`Digit`).
`AudioInv` puts them together, and `AudioWhole` follows. Of a sound with troubles it keeps
the types alone, for the reason given with `AudioWhole` in section 3.

*Model-checked only.* Liveness under fairness (`EveryItemArrives`, `Restarted`,
`EveryLoginServed`, `OneSidedEnds`, `MonitorGetsOn`, `EchoEnds`, `PerfEnds`) is
beyond the prover, which has no rule for fairness and `ENABLED` here. The theorems
of induction take an operator as a parameter, which the installed provers
cannot instantiate; the inductions that these proofs need are over a set that can be
named, and go by its least element, as for the pool, the parser and the powers. The findings are runs that fail, and
need no proof.

## 6. Not modelled

Parts of modelled components:

* *debug shell*: the bytes of the output path (after a partial write the rest is
  sent from the start of `pty2sock_cache`), and telnet commands in the input
  (`remove_iacs`). Both are listed as hazards. `Telnetd` counts blocks, because
  its properties are about who waits for whom; that a shell which quits is noticed
  only when the client types shows in it as a wait, and no text says otherwise.
* *buffer pool*: the list of all buffers in use (`add_to_all_link`,
  `for_each_buf_in_all_link`), which one example calls; `alloc_buffer` and
  `free_buffer` do not touch it.
* *queue*: NULL items, which the consumer cannot tell from an empty queue.
* *table*: `gen_id` with all ids in use, which needs 65536 entries.
* *guard*: processes that are not its children; signals to a reused pid of one.
* *echo*: repeated datagrams; SIGINT before a connection is made, which ends the
  process like any other signal without a handler.
* *p2p*: the password, which is the same for everybody; authentication is not a
  property here.
* *packet filter*: setting up netpoll at the same moment is an action of
  `DropPackets`, but only the flag and the handler have a property.
* *device module*: `INIT_WORK` on an item that is pending is undefined and is a
  crash in the model; what a `pread` behind the data copies, when there is memory, is left out.
* *audio*: the floating point of the filter, its threshold of 2e8, by which a window
  that is nearly all silence holds no start bit, noise, and sample rates. The model is
  of the code, not of `.ai/features/done/data_in_audio/design_spec.md`, which has
  another preamble (60 s at 1000 Hz; the code's is 5 s at `FREQ_MARK`), a baud rate of 300 or
  more (100), and packets with a length and a CRC16, which the code does not have.
* *frame generator*: the contents of packets and the display.

Components:

* `net.c`, `md5.c`: pure arithmetic on one frame or block, no state.
* `symbol_utils.c`: reads the program's own ELF tables; parsing without state.
* `sched.c`, `x86_arch_name.c` and the other small programs: demonstrations of the
  kernel's scheduler, of netlink, of the processor's registers.
* `socket.c`, `daemon.c`, `serial_port.c`, `tty_cfg.c`, `shell_ops.c`, `sys_utils.c`,
  `timer_utils.c`, `signal_utils.c`: wrappers of system calls, modelled where a
  component above calls them.
* `string_utils.c`, `mem_ops.c`, `debug_utils.c`, `trace_exception.c`: formatting
  and dumps; `insert_char`, `delete_char` and `str_trim_all` are in the editors.
* scripts for building and deployment.
