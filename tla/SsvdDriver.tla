----------------------------- MODULE SsvdDriver -----------------------------
(***************************************************************************)
(* The disk driver that watches a guest's file system (stat/block-ssvd.c). *)
(* tapdisk's thread queues the guest's requests, and when one is complete  *)
(* has its blocks looked at: blocks go into a cache (BlockCache), and a    *)
(* file that changed is copied and put into a queue (SemiQueue), which the *)
(* scanner thread empties (ssvd-clamav.c).  A control thread serves        *)
(* clients (ssvd-server.c).                                                *)
(*                                                                         *)
(* What the blocks mean is module ExtIntrospection; here looking at a      *)
(* block is any short sequence of storing, forgetting and copying.         *)
(***************************************************************************)
EXTENDS SemiQueue, BlockCache

CONSTANTS tapdisk, scanner,  \* the putter and the getter of the queue
          MAX_SSVD_AIO_REQS, \* ssvd_requests
          Inodes,            \* files of the guest
          Versions,          \* global_version is 16 bits wide: 2^16
          Clients,           \* of the control thread
          MaxOps             \* bound: steps of looking at blocks

ASSUME SsvdDriverAssumption ==
    /\ Putters = {tapdisk} /\ Getters = {scanner}
    /\ {Versions, MAX_SSVD_AIO_REQS} \subseteq Nat \ {0} /\ MaxOps \in Nat
    /\ Contents = 0..MaxOps

Slots == 1..MAX_SSVD_AIO_REQS

VARIABLES
    ssvd_free_list, flying,  \* slots free, in order; slots queued for I/O
    ops,                     \* bound: operations so far
    tpc,                     \* tapdisk's thread
    started, items,          \* copies begun, and those queued: their number
                             \* among the begun, and the file
    tmpfs,                   \* per file name: the copies written to it
    spc, item,               \* the scanner thread and its item
    opened,                  \* history: per item scanned, what its file held,
                             \* and how many copies had been begun by then
    failed,                  \* history: a scan has left its file behind
    closed, cpc, client      \* the control thread

driver  == <<ssvd_free_list, flying, tpc>>
copies  == <<started, items, tmpfs>>
scanvars == <<spc, item, opened, failed>>
control == <<closed, cpc, client>>
vars == <<queue, cache, driver, ops, copies, scanvars, control>>

Init ==
    /\ QueueInit /\ CacheInit
    /\ ssvd_free_list = [k \in Slots |-> k]
    /\ flying = {} /\ ops = 0 /\ tpc = "loop"
    /\ started = 0 /\ items = <<>>
    /\ tmpfs = [n \in (0..Versions - 1) \X Inodes |-> {}]
    /\ spc = "get" /\ item = NULL /\ opened = <<>> /\ failed = FALSE
    /\ closed = FALSE /\ cpc = "select" /\ client = [c \in Clients |-> "none"]
-----------------------------------------------------------------------------
(* tapdisk's thread.                                                       *)

\* Mutant: ssvd_free_count is not decremented.
QueueRequestKept ==
    /\ tpc = "loop"
    /\ IF ssvd_free_list = <<>>
       THEN UNCHANGED <<ssvd_free_list, flying>>
       ELSE LET n == Len(ssvd_free_list)
            IN /\ ssvd_free_list' = ssvd_free_list
               /\ flying' = flying \cup {ssvd_free_list[n]}
    /\ UNCHANGED <<queue, cache, tpc, ops, copies, scanvars, control>>

\* tdssvd_queue_read and tdssvd_queue_write: the last free slot is used; with
\* none, the request is completed at once with -EBUSY.
QueueRequest ==
    /\ tpc = "loop"
    /\ IF ssvd_free_list = <<>>
       THEN UNCHANGED <<ssvd_free_list, flying>>
       ELSE LET n == Len(ssvd_free_list)
            IN /\ ssvd_free_list' = SubSeq(ssvd_free_list, 1, n - 1)
               /\ flying' = flying \cup {ssvd_free_list[n]}
    /\ UNCHANGED <<queue, cache, tpc, ops, copies, scanvars, control>>

\* tdssvd_complete: the slot is free again, and the blocks are looked at
\* unless the I/O failed.
Complete(s, err) ==
    /\ tpc = "loop" /\ s \in flying
    /\ flying' = flying \ {s}
    /\ ssvd_free_list' = Append(ssvd_free_list, s)
    /\ tpc' = IF err THEN "loop" ELSE "look"
    /\ UNCHANGED <<queue, cache, ops, copies, scanvars, control>>

Looking == tpc = "look" /\ ops < MaxOps /\ ops' = ops + 1

\* Every block that is stored has a content of its own.
StoreBlock(x) ==
    /\ Looking /\ Encache(x, ops')
    /\ UNCHANGED <<queue, driver, copies, scanvars, control>>

ForgetBlock(x) ==
    /\ Looking /\ Decache(x)
    /\ UNCHANGED <<queue, driver, copies, scanvars, control>>

\* The name of a copy's file: global_version, which comes round, and the inode.
NameOf(it) == <<it.start % Versions, it.inode>>

\* Mutant: global_version is not advanced.
CopyInodeSameVersion(i) ==
    LET n == Len(items) + 1
        it == [start |-> started, inode |-> i]
    IN /\ Looking /\ n \in Items
       /\ started' = started
       /\ items' = Append(items, it)
       /\ tmpfs' = [tmpfs EXCEPT ![NameOf(it)] = @ \cup {n}]
       /\ tpc' = "put"
       /\ UNCHANGED <<queue, cache, ssvd_free_list, flying, scanvars,
                      control>>

\* copy_inode: the blocks that are in the cache are written to a new version
\* of the file, which is queued.  The file is opened without O_TRUNC: what an
\* older file of that name held stays.
CopyInode(i) ==
    LET n == Len(items) + 1
        it == [start |-> started, inode |-> i]
    IN /\ Looking /\ n \in Items
       /\ started' = started + 1
       /\ items' = Append(items, it)
       /\ tmpfs' = [tmpfs EXCEPT ![NameOf(it)] = @ \cup {n}]
       /\ tpc' = "put"
       /\ UNCHANGED <<queue, cache, ssvd_free_list, flying, scanvars,
                      control>>

\* No block of the file is in the cache, or writing fails and the file is
\* removed: nothing is queued, and the version is used up.
CopyFails(i, written) ==
    LET name == NameOf([start |-> started, inode |-> i])
    IN /\ Looking
       /\ started' = started + 1
       /\ tmpfs' = IF written THEN [tmpfs EXCEPT ![name] = {}] ELSE tmpfs
       /\ UNCHANGED <<queue, cache, driver, items, scanvars, control>>

\* queue_put of the new item.
PutItem ==
    /\ tpc = "put"
    /\ \/ /\ putting[tapdisk].item = NULL
          /\ Link(tapdisk, Len(items))
          /\ UNCHANGED tpc
       \/ Relink(tapdisk) /\ UNCHANGED tpc
       \/ Push(tapdisk) /\ tpc' = "look"
    /\ UNCHANGED <<cache, ssvd_free_list, flying, ops, copies,
                   scanvars, control>>

Looked ==
    /\ tpc = "look" /\ tpc' = "loop"
    /\ UNCHANGED <<queue, cache, ssvd_free_list, flying, ops, copies,
                   scanvars, control>>

\* Mutant: the control thread is not told.
CloseQuietly ==
    /\ tpc = "loop" /\ flying = {}
    /\ closed' = closed /\ tpc' = "join"
    /\ UNCHANGED <<queue, cache, ssvd_free_list, flying, ops, copies,
                   scanvars, cpc, client>>

\* tdssvd_close, with no request left: ssvd_server_close tells the control
\* thread and joins it.  The scanner goes on.
Close ==
    /\ tpc = "loop" /\ flying = {}
    /\ closed' = TRUE /\ tpc' = "join"
    /\ UNCHANGED <<queue, cache, ssvd_free_list, flying, ops, copies,
                   scanvars, cpc, client>>

Joined ==
    /\ tpc = "join" /\ cpc = "ended" /\ tpc' = "closed"
    /\ UNCHANGED <<queue, cache, ssvd_free_list, flying, ops, copies,
                   scanvars, control>>

Finish == PutItem \/ Looked \/ Joined

Tapdisk ==
    \/ QueueRequest
    \/ \E s \in Slots, err \in BOOLEAN : Complete(s, err)
    \/ \E x \in Blocks : ForgetBlock(x) \/ StoreBlock(x)
    \/ \E i \in Inodes : CopyInode(i) \/ \E w \in BOOLEAN : CopyFails(i, w)
    \/ Close
    \/ Finish
-----------------------------------------------------------------------------
(* The scanner thread: acquire_tasks.                                      *)

\* queue_get.
GetItem ==
    /\ spc = "get"
    /\ \/ (Lock(scanner) \/ GetStep(scanner)) /\ UNCHANGED <<spc, item>>
       \/ PopOut(scanner) /\ item' = out_queue /\ spc' = "scan"
       \/ PopNothing(scanner) /\ spc' = "sleep" /\ UNCHANGED item
    /\ UNCHANGED <<cache, driver, ops, copies, opened, failed, control>>

\* scan_virus: the file is opened and scanned, and removed unless the scan
\* ended in an error, or the file was not there.
ScanVirus(ok) ==
    LET held == tmpfs[NameOf(items[item])]
    IN /\ spc = "scan"
       /\ opened' = Append(opened, [item |-> item, held |-> held,
                                     begun |-> started])
       /\ tmpfs' = IF ok THEN [tmpfs EXCEPT ![NameOf(items[item])] = {}] ELSE tmpfs
       /\ failed' = (failed \/ ~ok)
       /\ spc' = "get" /\ item' = NULL
       /\ UNCHANGED <<queue, cache, driver, ops, started, items, control>>

\* Mutant: the scanner goes when the driver is closed.
WakeUnlessClosed ==
    /\ spc = "sleep" /\ ~closed /\ spc' = "get"
    /\ UNCHANGED <<queue, cache, driver, ops, copies, item, opened, failed,
                   control>>

\* sleep(5).
Wake ==
    /\ spc = "sleep" /\ spc' = "get"
    /\ UNCHANGED <<queue, cache, driver, ops, copies, item, opened, failed,
                   control>>

Scanner == GetItem \/ Wake \/ \E ok \in BOOLEAN : ScanVirus(ok)
-----------------------------------------------------------------------------
(* The control thread and its clients.                                     *)

unchangedByControl == <<queue, cache, driver, ops, copies, scanvars>>

\* The thread looks at closed between two turns; select waits 10 ms.
EndControl ==
    /\ cpc = "select" /\ closed
    /\ cpc' = "ended"
    /\ UNCHANGED <<closed, client, unchangedByControl>>

\* A client with data: socket_readn reads until the client closes.
StartReading(c) ==
    /\ cpc = "select" /\ client[c] \in {"sent", "closed"}
    /\ cpc' = c
    /\ UNCHANGED <<closed, client, unchangedByControl>>

\* The read returns when the client has closed.  What the commands set is read
\* by the statistics log only, or by nothing.
Command(c) ==
    /\ cpc = c /\ client[c] = "closed"
    /\ cpc' = "select"
    /\ client' = [client EXCEPT ![c] = "drained"]
    /\ UNCHANGED <<closed, unchangedByControl>>

\* The next turn reads nothing and closes the socket.
Drop(c) ==
    /\ cpc = "select" /\ client[c] = "drained"
    /\ client' = [client EXCEPT ![c] = "gone"]
    /\ UNCHANGED <<closed, cpc, unchangedByControl>>

Connect(c) ==
    /\ client[c] = "none" /\ cpc # "ended"
    /\ client' = [client EXCEPT ![c] = "sent"]
    /\ UNCHANGED <<closed, cpc, unchangedByControl>>

Disconnect(c) ==
    /\ client[c] = "sent"
    /\ client' = [client EXCEPT ![c] = "closed"]
    /\ UNCHANGED <<closed, cpc, unchangedByControl>>

Serve(c) == StartReading(c) \/ Command(c) \/ Drop(c)

Next ==
    \/ Tapdisk
    \/ Scanner
    \/ EndControl
    \/ \E c \in Clients : Serve(c) \/ Connect(c) \/ Disconnect(c)

Spec == Init /\ [][Next]_vars

\* The threads run, and clients close their connections as ssvd-client does.
Fairness ==
    /\ WF_vars(Finish) /\ WF_vars(Scanner) /\ WF_vars(EndControl)
    /\ \A c \in Clients : WF_vars(Disconnect(c)) /\ WF_vars(Serve(c))

FairSpec == Spec /\ Fairness
-----------------------------------------------------------------------------
(* Properties.                                                             *)

\* No slot is free and in use at the same time, or free twice.
SlotsAccounted ==
    /\ \A j, k \in DOMAIN ssvd_free_list :
          ssvd_free_list[j] = ssvd_free_list[k] => j = k
    /\ {ssvd_free_list[k] : k \in DOMAIN ssvd_free_list} = Slots \ flying

\* The scanner finds in a file the copy it was queued for and nothing else, or
\* a later one that was begun after the version had come round; until a scan
\* has left its file behind.
ScannedAsCopied ==
    \A k \in DOMAIN opened :
        \A m \in opened[k].held :
            \/ m = opened[k].item
            \/ items[m].start >= items[opened[k].item].start + Versions
            \/ failed

\* The structures the threads of the driver share stay sound, and what goes
\* through them arrives as it was.
DriverSound == ListsLinked /\ CacheLists /\ SlotsAccounted /\ ScannedAsCopied

\* The file of copy n was removed by its name before n's turn came, as the
\* version had come round: by the scan of an earlier copy of that name, after
\* copy n was begun, or by a later copy, which failed.
RemovedByName(n) ==
    \/ \E m \in 1..n - 1 : /\ NameOf(items[m]) = NameOf(items[n])
                           /\ opened[m].begun > items[n].start
    \/ opened[n].begun > items[n].start + Versions

\* The scanner takes up every copy that was queued in the end, in the order of
\* queueing, though it sleeps while more are put, and though the driver closes;
\* and it finds the copy in the file unless the version had come round and the
\* file was removed as another's, at a scan or a copy that came between.
EveryCopyScanned ==
    \A n \in Items : (n \in DOMAIN items) ~>
        /\ n \in DOMAIN opened /\ opened[n].item = n
        /\ n \in opened[n].held \/ RemovedByName(n)

\* tdssvd_close returns, as long as every client closes its connection.
CloseEnds == (tpc = "join") ~> (tpc = "closed")
=============================================================================
