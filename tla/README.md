# A verification development for s-blktrace

s-blktrace traces what happens to the requests of Linux block devices: a kernel
part records events in relay buffers, `blktrace` copies them to files, a pipe or
a server, and a family of tools reads, merges, analyses, records and replays
them. `stat/` adds a disk driver that watches the file system of a guest from
the blocks it writes and has its files scanned. The TLA+ modules here model the
parts in which something can go wrong that a test would hardly reach. TLC checks
them on small instances; TLAPS proves invariants of all components but the
introspection of file systems, and the refinements of `PipedOutput`, `SemiQueue`
and `BlockCache`, for every value of the constants.

Paths below are relative to `src/`; U stands for
`blktrace-userspace/blktrace.c`, K for `blktrace-kernel/blktrace.c`, BP for
`blktrace-userspace/blkparse.c`, and `stat/`, `btt/`, `btreplay/` are below
`blktrace-userspace/`.

## 1. Inventory

| component | state it keeps | operations | meets others through |
|---|---|---|---|
| **blktrace, threads** (U) | list of tracers, three counters, `done`, `tracers_run`, `is_done` | `run_tracers`, `start_tracers`, `thread_main`, `handle_sigint`, `exit_tracing` | `mt_mutex` and `mt_cond`, the signal handler, the ioctls |
| **blktrace, data path** (U) | list of `trace_buf`s per device and CPU, `dp_entries`, left-over of an event | `handle_pfds_entries`, `__process_trace_bufs`, `handle_list_file`, `handle_list_net`, `clean_trace_bufs` | `dp_mutex`, a mutex per list |
| **blktrace, mapped files** (U) | a `struct mmap_info` per file | `setup_mmap`, `handle_pfds_file`, `net_client_read_data`, `close_iop` | none: one thread each |
| **blktrace, network** (U) | client: a descriptor per CPU; server: hosts, connections, devices | opens, data, closes and acknowledgements, `net_server` | TCP |
| **kernel, set-up** (K) | `q->blk_trace`, `blk_probes_ref`, the tracepoints, a `struct blk_trace` each | ioctls, sysfs files, `blk_trace_shutdown` | `bd_mutex`, `xchg` |
| **kernel, recording** (K) | sequence numbers per CPU, `dropped`, `btrace_seq`, the trace a task was last named in | `__blk_add_trace`, `trace_note`, relay callbacks, the hooks of the tracepoints | tracepoints, relay buffers |
| **blkparse, order** (BP) | red-black trees of records, sequence numbers and skips per CPU, streams of files, names of processes | `do_fifo`, `read_events`, `sort_entries`, `show_entries_rb`, `check_sequence`, `do_file`, `ms_*`, `handle` | a pipe, trace files |
| **blkparse, figures** (BP) | tracks of requests, depths, counts per device, CPU and process | `dump_trace`, `log_track_*`, `account_*` | the records it shows |
| **btt** | the tree of bios of a device, averages, depths, `iostat` intervals, ranges of activity | `trace_queue` .. `trace_complete`, `dip_*`, `iostat_*`, `p_live_add` | blkparse's binary output |
| **blkiomon** | hash table of traces, two trees of statistics, vacant structures | `blkiomon_do_fifo`, `blkiomon_account`, the interval thread | `dstat_mutex`, a pipe |
| **btrecord** | the bunch being filled, the header | `next_io`, `stream_add_io`, `stream_flush`, `stream_close` | trace files, record files |
| **btreplay** | iocbs of each file, five counters, genesis | `find_input_files`, `replay_sub`, `replay_rec`, `main` | a condition variable per file and per counter, asynchronous I/O |
| **stat, driver** | request slots, a queue between threads, a cache of blocks, files of copies | `tdssvd_*`, `queue_put`/`queue_get`, `encache`/`decache`, `acquire_tasks`, `ssvd_server_*` | compare-and-swap, a socket, files |
| **stat, introspection** | lists of inodes and blocks, caches of inode tables and indirect blocks, transactions of the journal | `ext_generic_introspection`, `journal_rw_introspection`, `diff_inode`, `remap_block`, `copy_inode` | the blocks a guest reads and writes |
| blkrawverify, verify_blkparse, scripts, man pages | none, or the last record of a CPU | one pass over a file | none |

What makes each of them right, and where it is hard:

* *Threads.* A tracer per CPU, main, and a signal handler that runs inside any of
  them share one mutex and one condition variable. Everybody must get past
  start-up, nobody may read a trace that was torn down, the data recorded until
  the signal must be read, and the process must end.
* *Data path.* Reads cut events anywhere; the two counts of a buffer (its list,
  `dp_entries`) are changed at different times by two threads; at the end all
  lists must be empty and every event be written whole, once, in order.
* *Mapped files.* Unsigned arithmetic over page size, buffer size and offsets: a
  wrong window means SIGBUS, a gap or lost data.
* *Network.* Opens and closes are counted per host by the server; a client may
  die or fall silent; a send may fail half-way or fall short, after which the two
  sides disagree on where a message begins; the one thread of the server waits
  until a message is whole.
* *Kernel.* Set-up is serialised by the block device and meets on the request
  queue, which partitions share. Events are numbered only when there was room,
  and the task of an event must have been named since the last start.
* *blkparse.* From a pipe, records of several CPUs come in any order and in
  batches; a missing number is either lost or not read yet. From files, streams
  are merged while they are read ahead. The figures go by the first sector of a
  request and by events that may be missing.
* *btt.* Bios are found again by their sectors in a tree that prunes; ranges are
  joined as they come.
* *blkiomon.* Statistics are found under a mutex and updated after it is
  released; structures are used again.
* *btrecord, btreplay.* A bunch is closed by time or by number and a header is
  written before the last one; all files count from one genesis; the I/Os of a
  file are accounted for by two threads, one of which may be behind the other.
* *Driver.* The queue is lock-free on one side; a cache keeps four pointers by
  hand; a file name comes round; closing joins a thread that reads from a client.
* *Introspection.* The map of a file system is kept from what is written: a
  transaction is understood only as a whole, in an order of the driver's, with
  times of one second.

`PROJECT.json` lists the hazards line by line, each with the property that would
fail.

## 2. Modules

| module | models | state and steps |
|---|---|---|
| `Tracers` | the life of blktrace's threads | main, every tracer and the signal handler have a program counter; `mt_mutex`, the sleepers on `mt_cond`, the three counters, `is_done`, `done`, `tracers_run`, the kernel trace. A critical section without a wait is one step; testing `is_done` and going to sleep are two, since `stop_tracers` does not take the mutex. |
| `EventStream` | what blktrace promises of its output | events recorded and events that came out, per stream |
| `PipedOutput` | tracers and main around the lists of `trace_buf`s, writing to a pipe | per device and CPU: the list, the left-over, the bytes read and written; a tracer's pass over the devices and the main thread's pass over the lists, one buffer per step |
| `MmapWindow` | a mapped output file | the fields of `struct mmap_info`, the length of the file, the base of the mapping |
| `NetTrace` | `blktrace -h` and `blktrace -l` | per client and CPU a step and the device it is about; per connection both ends, the messages and acknowledgements on their way; at the server the list of connections, what poll said of them, where the scan is, opens and devices per host, and what each file holds. A connection is up, lost, silent (lost, and the server is not told) or short (of a message only a part was sent). Whole messages travel; one of which only a part comes is marked as torn, and the server waits for the rest, takes the next message for it, or finds the end of the connection. |
| `KernelTrace` | setting up, starting, stopping and removing traces in the kernel | per task a program counter, an operation and its local variables; per queue `q->blk_trace`; per `struct blk_trace` its life, state, channel and directory; each access to shared state is a step |
| `KernelEvents` | recording events, notes and messages | per CPU the relay buffer and the number of the last event; per task the trace it was last named in; what a full buffer refuses |
| `Blkparse` | how blkparse puts records in order | a batch, the tree, per CPU the expected number and the skips, or the streams of files; one record shown per step |
| `LiveTrace` | both, with blktrace between them | the records on their way: those of a CPU in order, those of different CPUs in any, one damaged |
| `BlockEvents` | bios and requests of a device and the event of each step | external but for the hooks: queue, sleep, get a request, merge, insert, issue, requeue, complete, plug |
| `IoTrack` | blkparse's tracks, depths and counts | a step per event |
| `Btt` | btt's bios, averages, depths, `iostat` and ranges | a step per event |
| `Analysis` | both over `BlockEvents` | an event is read by both, or is missing from the trace |
| `BtRecord` | btrecord, then btreplay's reading and timing | record by record as the trace is chosen; the bunch, the files; a clock |
| `BtReplay` | btreplay's senders, reapers and main thread | per file: the counts of free and outstanding iocbs, the wait and done flags, the position in the bunches, the I/Os in flight; the five counters |
| `Blkiomon` | both threads of blkiomon | the hash table, trees, lists and vacant structures; a critical section is a step, each half of an update outside it is one |
| `Fifo`, `SemiQueue` | a queue, and the lock-free one | each access to shared memory is a step |
| `LruCache`, `BlockCache` | a cache, and the one of linked lists | an operation is a function of a bucket's header |
| `SsvdDriver` | tapdisk's, the scanner's and the control thread | slots, the queue and the cache above, copies in files, clients |
| `ExtLayout` | where things are in an ext3 file system | operators only, checked against what ext3 says |
| `ExtMap` | the map of inodes and blocks and how it is brought up to date | operators over the map: `diff_inode`, `remap_block`, `unmap_block`, `remove_sinode`, `copy_inode` |
| `Ext3Guest` | a guest that writes files | external: transactions, ordered data, a reset |
| `ExtIntrospection` | the driver's introspection | caches of inode tables and links, the open transaction, the map |

Modules named `MC...` give the constants of small instances where a `.cfg` cannot;
modules named `...Proofs` hold the theorems.

How they go together:

* `LiveTrace` extends `KernelEvents` and `Blkparse`; `Analysis` extends
  `BlockEvents`, `IoTrack` and `Btt`; `SsvdDriver` extends `SemiQueue` and
  `BlockCache`; `ExtIntrospection` extends `Ext3Guest`, `ExtMap` and `ExtLayout`.
  There the components run together, interleaved.
* `PipedOutput` implements `EventStream` (`ImplementsEventStream`): an event has
  come out when the bytes written are the bytes of the recorded events up to it,
  and nothing else. `SemiQueue` implements `Fifo` and `BlockCache` implements
  `LruCache` (`ImplementsFifo`, `ImplementsLru`), each within `SsvdDriver`.
* The other modules meet in what one shows and the next takes for granted.
  `Tracers` reduces the data path to a count of what waits in the relay buffers;
  `PipedOutput` and `MmapWindow` reduce the life cycle to the moments a tracer is
  told to quit and leaves, in the order `DrainedBeforeLeaving` shows. `NetTrace`
  takes the tracers as started together, and a server's read as one that appends,
  which `ReadsAppend` shows. `LiveTrace` passes records on as `PipedOutput` and
  `MmapWindow` show. `BtRecord` has the files that `BtReplay`'s senders read, and
  takes from it that a sender gets its iocbs. `SsvdDriver` looks at blocks in any
  order of caching and copying; `ExtIntrospection` says which.

## 3. Runs

Each run is the module's `.cfg` (and `MC` module where there is one).

| run | instance | what it shows |
|---|---|---|
| `tracers` | 2 CPUs, output through main, any set-up step may fail, up to 2 signals once tracing, 2 units of data waiting | start-up ends, tracers start together, counters exact, nothing freed in use, everything drained, and the process ends after a signal |
| `piped` | 1 device, 2 CPUs, events of 2 and 1 bytes, reads of up to 2 bytes | buffers are accounted for, `EventStream` is implemented, blktrace ends |
| `mmap` | pages of 4, buffers of 2, requests of 1, 2, 7 and 26 in a window of 32, 70 bytes of data, any call failing | windows are right, for the tracer's and the server's caller; a closed file is the data, unless cutting it failed |
| `kernel` | 2 tasks, 2 disks with their queues, 3 traces | life of traces, channels, reference count, tracepoints off, leaks |
| `replay` | 2 files of 2 iocbs, 2 iterations, bunches of 2 and of 1 packets, a signal at any time | accounting of iocbs, sleeps, asserts, senders finish |
| `network` | one client of 2 CPUs, of 2 devices, or of 3 pieces of data, or two clients on two machines, each with `send` or `sendfile`, otherwise 1 piece of data per CPU and device; deaths, lost and silent connections, short sends | poll and scan agree, files are right, tracing clients stay connected, one directory per client, clients end and their hosts are removed unless the server waits for good in half a message |
| `recording` | 2 trace files of up to 3 records at 3 times, bunches of 2 packets or 1 unit of time, replayed at twice the speed with 2 iocbs | what btrecord writes is what was queued, and btreplay releases it in order, never early |
| `monitor` | 2 requests on 2 devices, 4 traces, 3 times, 2 units to a microsecond, 1 vacant structure kept | memory is in one place, a pair is printed once and with its device |
| `driver` | 2 request slots, 3 blocks in a bucket of 2 entries, 3 rounds of blocks, 2 copies, versions of 2, 1 client | the queue is a queue, the cache an LRU cache, every copy is scanned as written unless its file was removed by name, closing returns |
| `live` | 1 task, 2 CPUs with buffers of 2, 4 events, batches of 2, 1 damaged record, with and without a stopwatch, by pipe and by files | tasks are named first, nothing is held back, skips are the gaps, files are merged, blkparse ends |
| `analysis` | 5 workloads of 1 or 2 bios: merged at either end, one bio twice, a write over another, odd events, up to 2 of them missing | depths, times, ranges and sums of blkparse and btt are those of the device |
| `introspection` | 21 blocks in 3 groups, 2 inodes, 4 data blocks, 1 direct and 1 indirect pointer of 2 entries, 3 changes by the guest, 1 block lost from a cache, descriptors of 2 tags, a reset | the map and the copies are the guest's files as of the last transaction looked at |

*Bounds.* Two CPUs are enough for one tracer to fail or be woken instead of main
while the other sleeps; two signals for one that finds the handler's work done.
The event lengths of `piped` make a read end inside an event, at its end and
beyond it. In `mmap`, 26 is the longest request the window's length allows with
pages of 4 (`2 * 3 + 26 = 32`), and 70 bytes move the window more than twice.
Two tasks and two disks give every pair of operations on one disk and on two;
three traces let one be leaked and two others be used. In `replay`, the bunch of
2 makes the sender wait for iocbs in the second iteration and the second file lets
one file be an iteration ahead. In `network` one client has two connections or
two devices on a connection, so that opens, closes and data of one client
interleave; with two machines one is removed, or is silent, while the other goes
on. Three pieces of a client alone are what it takes for the server to read over a
short piece: the part, the message that is taken for the rest of it, and, from the
last pass, one behind that, of which it may find the middle where a header should be. Of
each fragile client one thing goes wrong: it is killed, one connection is lost or
silent, or sends fall short. `Backlog` is what the kernel holds for `listen(fd, 1)`.

In `recording`, three records over three times close a bunch by number, by time
and by the end of the input, and two files make the genesis that of one and not
the other. In `monitor`, four traces are two pairs, or a pair and two that
overwrite each other; one vacant structure makes the second one be freed or
allocated. In `driver`, three blocks in two entries evict; a version that wraps
after two makes a name come round while its copy is still queued. In `live`,
buffers of two are filled by a note and an event, so the next are dropped; four
events are two batches. The workloads of `analysis` are chosen, not enumerated:
each has one way in which a bio may meet another, and all orders of the steps.
In `introspection` three groups have a last one that is shorter in metadata, one
direct pointer puts the second block behind the indirect one, and two tags make a
transaction of three blocks (inode table, indirect block, data) need a second
descriptor, whatever the order of its blocks. What the driver goes by after a reset is the
history `heard`, the file system of the last transaction it looked at; an inode is
left out of the properties (`missed`) by the step that lets something of it go,
and not by what the map then holds.

`MaxSignals`, `MaxPending`, `MaxData`, `Fragile`, `MaxRecords`, `MaxTime`, `MaxClock`,
`MaxTraces`, `MaxOps`, `MaxEvents`, `MaxDamaged`, `MaxWrites` and `MaxLosses` are the bounds that
cut behaviours off; no property depends on reaching them. The other constants are
the program's own options and sizes, made small.

*Symmetry* is used in `kernel` for tasks and traces, which are never compared
other than for equality; it has no liveness property.

*Deadlock.* `CHECK_DEADLOCK FALSE` where the modelled program may rightly stop:
`mmap` (the data is used up, or the process has exited), `kernel` (all traces of the
instance are used up), `replay` (a reaper that sleeps while its sender is done,
section 6), `network` (the clients have ended and the server waits, or a torn header
has ended the server), `recording`, `monitor` and `live` (the input is used up and the
process has ended), `driver` (closed), `analysis` and `introspection` (the workload or
the changes of the guest are used up).

*Fairness.* Threads are scheduled: weak fairness of each thread's steps, as a
preemptive scheduler gives.

* `Tracers` has strong fairness of the steps that take `mt_mutex` after a wait: main's
  timed wait returns again and again, so it is only ever waiting for the mutex, and
  a mutex that is released again and again is obtained. Signals and new events are
  never fair.
* In `BtReplay` the reaper's fairness includes `io_getevents` returning, that is, the
  device completing what was submitted.
* `wait_empty_entries` sleeps 50 ms at most and is a guard in `PipedOutput`.
* In `NetTrace` the server and each CPU of a client are scheduled; data, signals,
  deaths, losses and short sends are not fair. The server may stay in the middle
  of a message for ever: `Stuck` names that state, and `ClientsFinish` says what
  holds unless it lasts.
* In `BtRecord` both programs are scheduled and the input ends; further records need
  not come.
* In `Blkiomon` the interval thread's sleep ends, and the main thread completes an
  update it has begun; input need not go on.
* In `SsvdDriver` the device completes requests, the scanner and the control thread
  are scheduled, and a client sends its command and closes, as `ssvd-client` does.
  Nobody need close the disk.
* In `LiveTrace` blkparse is scheduled; events, signals and damage are not fair.

## 4. Theorems

All are proved for arbitrary constants that satisfy the assumptions named in the
modules, with no bound on the number of CPUs, tasks, devices, queues, traces,
files or items.

* `TraceControlProofs`, second part, about `Tracers`: `TracersTypeOK`; `NothingFreedInUse` from `LifeInv` (where main is
  says which tracers may still live, and `join` is only reached when all left);
  `CountersExact` from the fact that a step reports for at most one tracer;
  `StartedTogether` from `StartInv`, which adds that `tracers_run` is set only
  when every tracer runs. `TracersAccounted` is their conjunction.
  `DrainedBeforeLeaving` holds if no signal comes during start-up (`~EarlySignal`):
  `DrainInv` says that whoever tells a tracer to quit has stopped the trace before,
  and that main, which alone starts it, does so before anybody is told.
* `BlktraceOutputProofs`, second part, about `MmapWindow`: `WindowTypeOK`, `ReadsInside`,
  `WindowAligned`, `FileHoldsData`, and together `WindowSound`; `ReadsAppend`. The
  inductive invariant `MappedInv` adds to the types `WindowSpaceInv`, which relates the three lengths and the base of the mapping. The assumption `WindowAssumption` is
  what `setup_mmap` needs and nothing in the code tests: an empty window less the
  used part of its first page holds what is asked for. With 4K pages it holds for
  every `-b` of a tracer. It is an assumption about what the *clients* of a server
  announce.
* `TraceControlProofs`, first part, about `KernelTrace`: `TypeOK` and `RunningHasChannel` for any assignment of
  queues; `TracesInUseLive`, `AttrFindsTrace` and so `TracesSound` under `Exclusive`, no two
  block devices with one queue. `MutexInv` says that then at most one task is in an
  operation on a queue; `OwnInv`, that every trace is reached one way: from its
  queue, or from the one task that has taken it off or not put it on yet.
  `TracesCounted`, under `Exclusive` too: `CountInv` says which traces `blk_probes_ref`
  counts at every moment, in the middle of setups and removals (`Counted`; a trace
  not counted yet is left out, one freed and to be counted down is in);
  `HandsInv`, what the local variables of a task hold where they are about to be
  overwritten, so that no trace is lost; `ProbesInv`, that the probes of a count
  of zero are about to be unregistered.
* `BtReplayProofs`: `TypeOK`, `AiosAccounted` and so `IosAccounted`, for any number of
  files, iocbs, bunches and iterations. `CountInv` accounts for the iocbs of one
  file: free, taken, in flight, or reaped and not returned; each of the two threads
  goes by counts the other changes only in its favour. `RestInv` is about the
  counters. `NeverBothAsleep` follows from these and `SleepInv`: a sender that has
  been told to wait and not yet woken saw no free iocb, a reaper none outstanding,
  and all iocbs are one or the other. `AssertsHold` needs `MeetInv`, that every counter
  main waits on is the number of files that have got there, and that the starts of
  an iteration are waiting, in use or counted as done, whichever sender took them;
  and `FlagInv`, that a thread that has ended has left nothing outstanding.
  The second part is about `BtRecord`: `RecordingTrue` and `ReplayTrue`, for any number
  and length of trace files, any times, limits and acceleration. `RecInv` has the bunches
  of a file, with the one being filled, as a chain (`ChainOf`): each holds the records
  from its first packet on (`BunchOf`), the next goes on where it ends and begins with a
  packet that would have broken one of its limits (`Follows`), and the chain ends at
  the last record read. So the packets of all bunches, one after the other, are the records
  (`FlattenSeq` is taken apart bunch by bunch). `StreamInv` ties the fields of the stream
  (`start_time`, `last_time`, `genesis`) to the records read, `RecordedInv` the header's
  genesis to the first. While btreplay runs, `AtInv` says that a sender has submitted
  exactly what precedes the packet it is at, which makes `InOrder` inductive over
  bunches that take several submissions; `OnTime` rests on the genesis of every file
  opened being at least the one counted from.
* `SsvdDriverProofs`, in three parts, for any sizes. *Cache*: `CacheSound`, that
  `CacheLists` holds after any sequence of `encache` and `decache`, and `CacheIsLru`,
  that `BlockCache` implements `LruCache`. `CacheInv` says of each bucket that there are
  two sequences of entries, used and free, which its pointers spell out; the walk
  of `lookup_cache` is then a search in the first, and removing and inserting by
  hand, with their branches for head, tail and lone entries, take one entry out of
  a sequence (`Out`) or put one in front (`Front`). What an entry holds makes the
  sequence a list of stores (`View`), which is what `LruCache` keeps.
  *Queue*: `SemiQueue` implements `Fifo` for any number of threads on either side
  and any items (`QueueIsFifo`). A swap of the tail is `Put`, the moment a getter
  takes an item off its list is `Get`, all else stutters. `QueueInv`
  has the lists of linked nodes as sequences (`ListsLinked`: the links in memory are
  those of the sequences, with the one link a putter has not written yet missing),
  distinct (`ListsApart`), what a putter holds not linked (`PuttersApart`), the getters
  one at a time (`GettersLock`, `TurnsAlone`).
  *Driver*: `DriverIsSound`, `DriverIsFifo` and `DriverIsLru`, about the whole of
  `SsvdDriver`. `DriverInv` adds to the two above that the numbers of the items rise
  by one from those scanned through the one in the scanner's hands and the queue to
  the one being put (`ItemsInOrder`), in the order of copying (`CopiesInOrder`), and
  that a file which no failed scan has left behind holds exactly the last copy
  under its name (`FilesFresh`). The next copy under a name comes a whole round of
  versions after the one before, and that is what a scan that finds another copy
  has to show.
* `BlktraceOutputProofs`, first part, about `PipedOutput`: for any devices, CPUs, lengths of events, buffers and orders in
  which the threads pass over their lists: `TypeOK` and `EntriesAccounted`, with
  failing writes too; and where writes do not fail, `BuffersAccounted`, the
  refinement `ImplementsEventStream` and `LeftoverStartsAtEvent`. `IInv` is inductive:
  `StreamInv` has the bytes of a stream as one chain without a gap (written up to
  a position, the left-over from there, then the buffer main is at, those
  it has taken, those still listed, to what was read); `MainInv` and `TracerInv`
  say where main and each tracer are when lists and relay buffers are known to be
  empty, so that nothing is left when blktrace ends (`DrainedAtEnd`). `ExactInv` adds
  that what was written ends where the counted events end, which a failed write
  breaks. The step that counts is `HandleSound`: cutting a buffer with the
  left-over before it at the last whole event leaves a left-over that starts at an
  event. A stream of `EventStream` has emitted what blktrace counts in `nevents`.
* `NetTraceProofs`: for any clients, machines, CPUs, devices and lengths of the backlog:
  `ScanMatchesPoll`; that a file is a beginning of what was read, up to the first piece
  that is a part, and a client has one directory (`FilesStayPrefixes`), both whoever
  shares a machine and whatever is lost, silent or cut short; and, under
  `OneClientPerHost`, no two clients that run together on one machine, all of
  `ClientsServed`. `ScanInv` has the polled entries as a prefix of the list, and `events` as
  the number of ready ones from `pos` on, so that the scan ends before the entries
  that `realloc` left there. What there is of one device on one CPU of a client, on both
  sides, is a record (`View`), and what is known of it (`Sound`) is proved step by step on
  such records: the messages on their way are an open, or data without a gap and then a
  close (`QueueOk`, `DataOk`), the file continues with the first of them (`FileOk`), and a
  client has passed `open_ios` only if the server has heard all its opens (`PhaseOk`). The
  server keeps no list of what it has heard, only counts: `NetInv` says that there is
  an account `heard` that the counts, the messages and the clients agree with.
  Where a send fell
  short, the order of the messages and of the pieces in the file is claimed only up to
  the first torn one (`Intact`); `ThinSound` says that a stream stays sound when messages
  behind a torn one are gone, and the step of the server that reads on over a part, and
  takes what follows for the rest, does nothing else (`ReadOn`, `OverSound`). So what
  it has swallowed of one client changes no account of another's.
  `DroppedOver` adds that a client to which nothing happened is dropped only when all
  its data is in its files. This is where `open_ios` before `close_ios` matters: at the
  close that makes the count zero every other device was heard and is over.
* `BlkiomonProofs`: `MemoryOwned` and `ReportTrue`, for any input, any number kept
  vacant and any moments at which the interval ends, as long as `malloc` finds memory:
  the hypothesis `[]MemoryLeft` says that there is always a trace and a statistic left
  to allocate, which is so in every state of the run `monitor`. `TraceInv` and `DstatInv`
  have the lists as sequences without repetition, apart from each other and from what
  the two threads hold next to them. `ReadTrace` lists the five things that may become
  of a trace that is read; `ReadInv` keeps what is stored apart from what is paired, and
  `PairedInOrder` says of a request whose traces come in order that the one stored is
  its last, so that a C meets the D before it or none. For the statistics, `BookInv`
  says where both threads are: the one that is updated is in the current tree unless
  the interval ended meanwhile. `PlaceInv` follows every pair: nowhere before
  its update, then in one gathered statistic or, once that was printed, at one
  position of what was printed. `CountInv`, no more statistics than traces, is only
  needed because `PairsReportedOnce` counts positions up to `MaxTraces`.

* `LiveTraceProofs`: `ShownLive`, `SkipsAreTheGaps`, `FilesMerged` and `NamesTrue`, for any
  tasks, CPUs, buffers, batches, windows and damage, with the CPUs blkparse knows
  those that were traced (`LiveTraceAssumption`, which also says that a trace is shorter
  than the time that wraps). The invariant has three parts.
  `KernelInv` is about recording and the wire: per CPU (`StreamOK`), what has passed and
  then what waits in the buffer is in the order of time and number, and every
  number that was given is there, since a refused event takes none. `NamingOK` says that
  a task whose `btrace_seq` is the current one was named, until a record is refused. `NotesOK`
  says where the note is: before the event on its CPU, or on another CPU and no later;
  events on other CPUs may overtake it, which is why the order of time, and not that of
  arrival, has to carry it.
  `PipeInv` is about the tree. Of what has been read, nothing is lost (`NoneLost`): the
  numbers up to the next one a CPU waits for are there once the batch ends, so the
  tree empties; this needs both that no number is missing in the kernel's
  part and that a batch takes the records of a CPU in order. What is shown rises
  (`ShownOK`) and what is in the tree is behind it (`TreeOK`). `GapsOK` is the induction for
  the skips: after every record shown, and not just at the end, they cover exactly the
  numbers passed over. `InSkip`, `WithoutSkip`, `WithSkip` and `Skips` are shown to remove
  one number, to add one range, and to leave all else (`Covered`).
  `FilesInv` is about the streams. `FilePart` splits the good part of a file in three: a
  history that has been shown or fell outside the window, what has been read ahead, and
  what has not been read. `HeadsOK` has the list of streams in the order of their
  first records, through `Dequeue`, `Sorted` and a `Prime` in the middle of a pass; `TimesOK`
  bounds what was shown by the first records that remain. Together with `NotesRead`, what
  was read ahead has its names, they give `NamesKnown`: at the moment an event is shown
  every stream is past the times before it. At the event's very time a stream may
  not be (section 6), and `NamesKnown` says so.
  `Those`, which takes the elements at a set of positions, and `InsertedAll` are recursive
  functions; what they keep, and in what order, is derived by the same inductions over sets
  of naturals as in `BlktraceOutputProofs`.

* `AnalysisProofs`: `DepthsExact`, `TimesTrue`, `RangesTrue` and `BooksBalance`, for any
  workloads (bios of any number, place and length, commands, requeues and plugs),
  tasks, `range_delta` and interval (`AnalysisAssumption`). `AnalysisInv` has a part that
  holds whatever is missing or overlaps, and `PlainInv`, which holds as long as
  nothing does.
  The first part: `BlockInv` says what bios and requests are like: a request is
  covered by its bios (`Covers`), no bio is in two, no two were queued at one moment, so
  that times tell them apart. `KnownInv` has btt's bios as the tree can hold them,
  `RangesInv` the ranges of activity apart and over, through the joins of `WithLive`.
  `SpansCovered` is that they cover the times from issue to completion of the bios btt
  took out and nothing else, whatever is missing; that those are the times the bios
  really were on the device needs `PlainInv`. `BookInv` has the tracks one per sector and the counts of the processes adding up to
  the device's (`SumsOK`); an event enters the same difference on both sides
  (`Recounted`), a requeue two. `IoOK` is the same for the lines of `iostat`. `Balanced` holds
  while no event is missing, overlapping or not: what was issued is completed or on
  the device.
  `PlainInv`: `KnowsAll`, that btt has exactly the bios on their way, with the time of
  the last issue. It carries the rest of btt: a search by range finds exactly the
  bios of the request (`Covers` on one side, no overlap on the other), so that each
  event moves as many bios as the request has, which is what `DepthInv` counts,
  `TotalsTrue` sums up and `Covered` needs of the ranges. `Merged` is what `iostat.c` takes
  too many off: completed bios less their requests. For blkparse,
  `TracksAre` has a track for each request and no other, through front merges that move
  it, with its times and owner unless a command left a track at sector 0;
  `ElapsedTrue` and `LongestTrue` follow, the second with `PidsKnown`, since a wait
  is only put down for a process that has an entry.
  Sums are `Total`, a fold; `Sums` is the same as a recursive function, and
  `PickInduction` along its choices gives that a sum grows by what is added, in any order.

Model-checked only: every liveness property, and all of `ExtIntrospection`. Liveness and
ENABLED are beyond the prover.
The library's theorems of induction take an operator as a parameter, which none
of the provers can instantiate; `BlktraceOutputProofs`, `LiveTraceProofs` and `AnalysisProofs`
have their inductions (`InductionUpTo` from the well-foundedness of the naturals, and
`PickInduction` from that of finite sets) as facts about sets, which is enough for sums
over sets and positions in sequences. The maps of `ExtIntrospection` are recursive
operators over bags, graphs and records of the file system; a module that reaches
one cannot be proved about, and what they compute for every input is an induction
over that data. The layout of ext3
(`ExtLayout`) is compared with the file system's own for a range of shapes, by the
assumption `LayoutsTrue`, which TLC evaluates when `introspection` starts.

## 5. What is not modelled

Left out of the modelled parts:

* The contents of events in `PipedOutput`, which has their lengths and positions only;
  the records of `KernelEvents` have what blkparse orders and names them by.
* Calls whose failure ends the process at once (`fatal`, `exit`) without any
  state others see, such as `io_submit` in btreplay.
* Memory that cannot be had in blktrace: `malloc` in the data path is not checked by
  the code either, or ends the process.
* `KernelTrace` does not have the probes themselves, which read `q->blk_trace`
  with no lock, nor the memory they may use after it was freed.
* `NetTrace` has no failing `connect` or `accept`, no signal at the server and no
  message with a bad magic number (each ends the program, or loses that connection
  only), no second client after the first of a machine has died, and no file
  errors at the server. Where the server reads over a short piece, what it finds
  in the middle of a payload is no header (it ends, U:2466): data with the magic number of a
  trace where the header should be, as when the rest begins at an event, is not
  modelled. One thing goes wrong of a client, not two. A half-sent header comes from
  a lost or silent connection only: `net_send_header` that fails on a live one is not
  modelled.
* `BtRecord`: names of files and devices, `-v`, byte order, CPU pinning.
* `Blkiomon`: the outputs themselves, the message queue, drivers' data; a statistic is
  the set of pairs added to it.
* `KernelEvents`: filters by mask, sector and process, the ftrace variant.
* `Blkparse`, `LiveTrace`: one device; the blocking mode of the descriptor and part of
  reading payloads; the red-black tree is the order it keeps.
* `BlockEvents`, `IoTrack`, `Btt`: bounce, split, remap and abort, completion in parts,
  discards, several devices, seeks, histograms, tables and plots.
* `SsvdDriver`: starting up, the statistics log, `fast_decache` and `free_clamav`, which
  nothing calls.
* `ExtIntrospection`: ext2 without a journal, several partitions, bitmaps (which
  nothing reads), the directory of temporary files, a disk that is not ext3.
* Reads of `is_done`, `done` and `signal_done` are of single words and taken as
  atomic.

Not modelled at all: blktrace's command line, device table and statistics output,
the kernel's ftrace output and sysfs text, blkparse's output formats, btreplay's
arguments and device map, `blkrawverify` and `verify_blkparse`, scripts and man pages.
They parse, print, or pass over a file once; they keep no state that another step
could find wrong.

## 6. Where the code does not do what it says

Each of the first six can be seen with TLC; the definition and constants that show
it are named. None of these definitions is claimed by a run.

* **A tracer is not told** (U:1916; `Tracers`, `ToldTracersQuit` with `UsePipe = FALSE`,
  `MaxSignals = 0`, `MaxPending = 0`). `stop_tracers` broadcasts without the mutex: a tracer tests `is_done`,
  main sets it and broadcasts, the tracer goes to its untimed wait, and main waits
  for it for ever. Only start-up has the untimed wait, so a set-up step has to fail.
* **A control-C during start-up** (U:1912; `Tracers`, `Stops` with `EarlySignal = TRUE`,
  `UsePipe = FALSE`, `MayFail = FALSE`, `MaxSignals = 1`). It reaches the tracers already on the list; those created later
  run on, and the end takes a second signal.
* **A failed write drops part of an event** (U:1398; `PipedOutput`,
  `LeftoverStartsAtEvent` with `WriteFails = TRUE`, `NCPUs = 1`, `BufSize = 3` and
  `EventLens <- MCThreeEvents`). The
  bytes of the next buffer are then taken for an event's beginning.
* **Two disks race for the tracepoints** (K:439; `KernelTrace`, `RegisteredIffCounted`).
  A removal counts down to 0, another setup counts up to 1 and registers, and then
  the removal unregisters: a trace is set up and records nothing. Counting and
  registering are not one step.
* **Two clients on one machine** (U:2493; `NetTrace`, `TracingServed` with
  `HostOf <- MCSharedHost`, `Together <- MCBoth`, clients `safe` and `frail`). Opens are counted per machine, and the
  machine is removed when they are all closed. A client that has connected but
  whose opens were not read yet is removed with it; it takes the end of its
  connection for the acknowledgement and traces to nobody. The comment at
  U:1674-1676 promises that all connections are known before any close.
* **A reaper sleeps after its sender has ended** (`btreplay/btreplay.c:1031`; `BtReplay`,
  `ReapersFinish` with `MaySignal = FALSE`). The reaper tests `send_done` and finds it
  unset; the sender sets it (line 1375), waking nobody; the reaper finds nothing
  outstanding, sleeps, and btreplay does not end. Also when it slept already.

The rest was met while modelling. The models have it, or stay clear of it in the
workloads and the words of the properties, as the comments there say.

blktrace and kernel:

* With buffers through main (`-o -`, or a network client without sendfile), a
  start that fails never ends: `wait_tracers` calls `process_trace_bufs`, which
  waits for a `done` that only a signal sets (U:1935).
* Two partitions of one disk (K:656-660): the two `xchg`s of a setup that gives
  up are under the mutex of the block device and the pointer is the queue's; a
  removal through the other partition in between frees or loses a trace.
* A trace removed while running is taken off its queue, never freed, and its
  directory keeps the device from being traced again (K:451); `TracesCounted`
  says that this is the only leak.
* `setup_mmap` fails with 1, the tracer tests for a negative value (U:1705) and
  reads into a window that is gone; `ReadsAppend` and `WindowSound` hold in spite of it.
* `close_iop` ignores a failing `ftruncate` (U:1591-1595): the file keeps the room made
  for the next window behind its data, zeros that a reader takes for records.
* A `sendfile` that fails or falls short behind its header (U:1752-1757) only stops the
  polling of that device; the connection stays. The server waits for the rest in its
  one thread (U:822-845), and every other client with it; or it takes the tracer's
  next messages for the rest, headers and closes among them: bytes of headers get
  into the file, what is left of a message comes where a header should be and ends the
  server, or a close is swallowed, its acknowledgement never comes, the tracer waits
  for it for good, and the host stays on the server. `PrefixWritten` and `ClientsFinish` say what
  holds in spite of it.
* A client that falls silent in a message (a machine that is gone, no end of file)
  keeps the server in `recv` for good; nothing times out.
* A connection at its end stays on the server's list (U:2441), and `poll` returns at
  once for it from then on; `ClientsFinish` holds in spite of it.
* A client that died, or closed a connection after a failed send (U:1313), never
  sends its closes; its host stays for ever, and a later client of that machine
  with the same device appends to the files of the first (U:2399 compares names
  only).
* A header cut off by a lost connection ends the server for all clients (U:2446).
* `open_client_connections` closes `cl_fds[cpu]`, the one that failed, and not
  `cl_fds[0]` (U:1039).
* The request of a tracer's timed wait can have `tv_nsec` equal to 10^9 (U:526).
* `trace_note` leaves the sequence number of a note unset.

blkparse:

* From a pipe, a record earlier than the first batch's genesis gets a time that
  wraps below zero, and its CPU's order is lost.
* A bad magic number first in a batch ends reading for good.
* `check_current_skips` splits a skip by an end it has just overwritten (BP:467-474).
* Streams whose first records have the same time stay in the order they are in
  (`ms_resort`, BP:2333). With `-b 1` a stream is read on one record at a time; the note that names a
  task, when it has the very nanosecond of an event of that task on another CPU, may
  then be read after the event was shown. `NamesKnown` allows this and nothing else.
* `smallest_seq_read` stays 0 and the map of CPUs stays empty in pipe mode; the end
  of the stopwatch is exclusive from a pipe and inclusive from files; the youngest
  record of `sort_entries` is reset by a time of zero.
* The first name of a task is kept, so a second `exec` is not seen; and the kernel names
  a task in only one of several traces it is in.
* The G event of a packet command leaves a track at sector 0; a track from `malloc` is
  not initialised; a front merge can take the place of another track with its
  sector; `__account_pc_queue` adds a command's read to `qread_kb` (BP:1214).

btt:

* `p_live_get` leaves `t_start` 0; `__dump_stats` sums what was zeroed before, so its
  totals are 0, and when forced counts busy time as idle; `seek.c`'s `__median` is not
  the median; `aqd.c` knows no requeue; `iostat`'s `cur_qusz` and `cur_dev` go down once per
  bio and not per request.
* `rb_insert` drops a queued bio with the start of another, and `rb_foreach` prunes by
  start and misses bios that overlap.

blkiomon, btrecord and btreplay:

* The last interval is never printed; two traces at one time divide by zero and end
  blkiomon; an update that is late for its interval goes to a structure no longer
  in any list.
* A header counts all bunches but the last (`btreplay/btrecord.c:730`), and btreplay leaves
  a recording of one bunch out (`btreplay/btreplay.c:921`). `-x 0` divides by zero
  (`btreplay/btreplay.c:1197`).
* A fast sender may take two of the starts of one iteration (`btreplay/btreplay.c:475`), so
  iterations of different files drift apart; and a signal makes `nfree_current`
  return 0, on which an assert fails (`btreplay/btreplay.c:1281`).

stat:

* A request is completed before its data are looked at (`stat/block-ssvd.c:206`), so the
  guest may use the buffer again; closing waits for a client of the control socket;
  after an error the file that is scanned has blocks of an earlier one.
* Changes within the second of the last ones are let go (`stat/ext-generic.c:546`) and not
  mapped later; a file cut to nothing keeps its blocks (561-603 and 388-410).
* A transaction larger than one descriptor loses the rest (`begin_transaction`,
  220-231); a reset between descriptor and commit leaves the transaction open, and
  the next are not understood.
* `parse_indirect_block` counts the indirect block in the offsets and `remap_block` does not;
  double indirect offsets are off in both. `CEILING` is right only for what divides
  (`base-intro.c:21`); in file systems of 1K blocks, blocks are classified by one too
  few; `remap_block` unmaps by its own inode (432); `clear_sblock` clears the sibling of
  the next block (648-649); a second partition takes over the lists of
  `init_journal`.

## 7. Plan

What would come next, in this order:

1. The red-black tree that blkparse, btt and blkiomon share, against a set of keys.
2. Several devices in `Blkparse` and `Btt`, with remapping; the filters of `KernelEvents`;
   partitions that share a queue in `KernelEvents`.
3. The maps of `ExtMap` as recursive functions, and theorems about `ExtIntrospection`.
