--------------------------- MODULE ExtIntrospection ---------------------------
(***************************************************************************)
(* The introspection of an ext3 disk (stat/ext-generic.c): the driver sees *)
(* the blocks a guest reads and writes, and keeps a map of the files of    *)
(* the file system from them alone, from which it copies the files that    *)
(* changed for the scanner.                                                *)
(***************************************************************************)
EXTENDS Ext3Guest

\* How many places there are in a descriptor block.
CONSTANT MaxTags

\* How often a cache loses a block or the guest is reset.
CONSTANT MaxLosses

\* The map of ExtMap, the cache of inode tables, the transaction that is open,
\* and (history) the file system as of the last transaction it has looked at.
VARIABLES map, itable, trans, heard, losses

driverVars == <<map, itable, trans, heard, losses>>
vars == <<guestVars, driverVars>>

Tables == {TableBlock[i] : i \in Inodes}
InodesIn == [b \in Tables |-> InodesAt(b) \cap Inodes]
TypeOf == [b \in Tables \cup Blocks |-> BlockType(b)]

View == [map |-> map, itable |-> itable]
Quiet(view) == [view EXCEPT !.map.copies = {}]
Sees(view) == map' = view.map /\ itable' = view.itable
-----------------------------------------------------------------------------
(* ext2_introspection of a block that is written.                          *)

\* ext2_cache_block.
DataCached(view, b, content) == [view EXCEPT !.map.data[b] = content]
TableCached(view, b, content) == [view EXCEPT !.itable[b] = content]

\* datablock_write_introspection.
DatablockWritten(view, b, links) ==
    LET sblock == view.map.blist[b]
    IN IF sblock.inode # 0 /\ sblock.level # 0
       THEN [view EXCEPT !.map = Remapped(@, b, links)] ELSE view

\* equal_inode.
EqualInode(a, b) == {a.mode, b.mode} = {"none"} \/ a = b

\* inodetable_write_introspection.
InodetableWritten(view, b, content) ==
    LET old == view.itable[b]
        OldInode(i) == IF old = NotCached THEN NotCached ELSE old[i]
        Step(map0, i) == IF old # NotCached /\ EqualInode(old[i], content[i]) THEN map0
                         ELSE Diffed(map0, i, content[i], OldInode(i))
    IN [view EXCEPT !.map = FoldLeft(Step, @, SetToSortSeq(InodesIn[b], <))]

\* A block as a transaction has it.
TableOf(fs, b) == [i \in InodesOf(b) |-> fs.inodes[i]]

Introspected(view, fs, b) ==
    IF TypeOf[b] = "INODETABLE"
    THEN TableCached(InodetableWritten(view, b, TableOf(fs, b)), b, TableOf(fs, b))
    ELSE DataCached(DatablockWritten(view, b, fs.links[b]), b, fs.links[b])
-----------------------------------------------------------------------------
(* journal_rw_introspection.                                               *)

\* get_journal_type: the order in which the blocks are looked at.
JournalType(view, b) ==
    LET sblock == view.map.blist[b]
    IN IF TypeOf[b] = "INODETABLE" THEN 3
       ELSE IF sblock.inode = 0 THEN 1
       ELSE IF sblock.level # 0 THEN 2 ELSE 4

\* Of the types, all found before the first block is looked at.
CommitOrder(view, tags) ==
    LET OfType(t) == SelectSeq(tags, LAMBDA b : JournalType(view, b) = t)
    IN OfType(1) \o OfType(2) \o OfType(3) \o OfType(4)

\* History: the inodes of which a descriptor that was refused had something.
Owners(fs, b) == IF b \in Tables THEN InodesOf(b)
                 ELSE {i \in Inodes : \E k \in DOMAIN fs.inodes[i].block :
                                         fs.inodes[i].block[k] = b}
Refused(transaction) ==
    UNION {Owners(transaction.fs, transaction.tags[k]) :
              k \in (MaxTags + 1)..Len(transaction.tags)}

CommitSeen(view, transaction) ==
    LET tags == SubSeq(transaction.tags, 1, Min({MaxTags, Len(transaction.tags)}))
        seen == FoldLeft(LAMBDA v, b : Introspected(v, transaction.fs, b), view,
                         CommitOrder(view, tags))
    IN [seen EXCEPT !.map.missed = @ \cup Refused(transaction)]
-----------------------------------------------------------------------------
(* The steps.                                                              *)

\* init_ext_introspection, of a disk with a file on it or none.
Init ==
    /\ GuestInit
    /\ map = Diskstat(committed.inodes, committed.links, Inodes)
    /\ itable = [b \in Tables |-> NotCached]
    /\ trans = NoTransaction
    /\ heard = committed
    /\ losses = 0

Unseen == Sees(Quiet(View)) /\ UNCHANGED <<trans, heard, losses>>

\* Data that is written to its place is cached.
DataSeen ==
    /\ Sees([Quiet(View) EXCEPT !.map.data =
                [b \in Blocks |-> IF disk'[b] # disk[b] THEN disk'[b] ELSE @[b]]])
    /\ UNCHANGED <<trans, heard, losses>>

\* begin_transaction: there is one transaction.
JournalSeen(tags) ==
    /\ Journal(tags)
    /\ trans' = IF trans = NoTransaction THEN committing' ELSE trans
    /\ Sees(Quiet(View))
    /\ UNCHANGED <<heard, losses>>

\* Mutant: any commit block ends the transaction that is open.
AnyCommitBlockSeen ==
    /\ Commit
    /\ IF trans # NoTransaction
       THEN /\ Sees(CommitSeen(Quiet(View), trans))
            /\ trans' = NoTransaction
            /\ heard' = committed'
            /\ UNCHANGED losses
       ELSE Unseen

\* Nothing of a commit block that is not of the transaction that is open.
CommitBlockSeen ==
    /\ Commit
    /\ IF trans # NoTransaction /\ trans.seq = committing.seq
       THEN /\ Sees(CommitSeen(Quiet(View), trans))
            /\ trans' = NoTransaction
            /\ heard' = committed'
            /\ UNCHANGED losses
       ELSE Unseen

\* A block is read, or goes from the journal to its place: it is cached.
TableReread(b) ==
    /\ Sees(TableCached(Quiet(View), b, TableOf(committed, b)))
    /\ UNCHANGED <<guestVars, trans, heard, losses>>

LinksReread(b) ==
    /\ committed.links[b] # NotCached
    /\ Sees(DataCached(Quiet(View), b, committed.links[b]))
    /\ UNCHANGED <<guestVars, trans, heard, losses>>

Loses == losses < MaxLosses /\ losses' = losses + 1

Reset ==
    /\ Crash /\ Loses
    /\ Sees(Quiet(View))
    /\ UNCHANGED <<trans, heard>>

\* A cache has no room.
TableEvicted(b) ==
    /\ itable[b] # NotCached /\ Loses
    /\ Sees(TableCached(Quiet(View), b, NotCached))
    /\ UNCHANGED <<guestVars, trans, heard>>

DataEvicted(b) ==
    /\ map.data[b] # NotCached /\ Loses
    /\ Sees(DataCached(Quiet(View), b, NotCached))
    /\ UNCHANGED <<guestVars, trans, heard>>

Next ==
    \/ \E i \in Inodes, t \in {now, now + 1} :
          \/ \E mode \in {"reg", "dir"} : Create(i, mode, t) /\ Unseen
          \/ Delete(i, t) /\ Unseen
          \/ \E size \in 0..(Direct + Entries - 1) : Truncate(i, size, t) /\ Unseen
          \/ \E count \in {1, Direct + 1}, order \in Orders(Free) :
                Extend(i, count, order, t) /\ DataSeen
          \/ Overwrite(i, t) /\ DataSeen
    \/ \E tags \in Orders(Changed(running)) : JournalSeen(tags)
    \/ CommitBlockSeen
    \/ Reset
    \/ \E b \in Tables : TableReread(b) \/ TableEvicted(b)
    \/ \E b \in Blocks : LinksReread(b) \/ DataEvicted(b)

Spec == Init /\ [][Next]_vars
-----------------------------------------------------------------------------
(* Properties.                                                             *)

\* The map goes by the transactions it has looked at: all that were committed,
\* until the guest is reset between a descriptor and its commit.  The
\* transaction then stays open, and nothing is understood any more.
Understood == Inodes \ map.missed
Deaf == trans # NoTransaction /\ trans.seq # committing.seq

\* The place of a block in its file as the map counts it: parse_indirect_block
\* counts the indirect block too.
Place(b, offset) == offset + (IF b \in map.parsed THEN 1 ELSE 0)

\* The lists of a file are its links, and each block says whose it is and where.
ListTrue(i) ==
    LET inode == heard.inodes[i]
        x == inode.block[Direct + 1]
        offsets == 0..(inode.size - 1)
    IN /\ ListFrom(map.blist, map.ilist[i].bh) = SelectSeq(inode.block, LAMBDA b : b # 0)
       /\ x # 0 => ListFrom(map.blist, map.blist[x].bh)
                     = SelectSeq(heard.links[x], LAMBDA b : b # 0)
       /\ \A offset \in offsets :
            LET b == BlockAt(heard, i, offset)
            IN /\ map.blist[b].inode = i /\ map.blist[b].level = 0
               /\ map.blist[b].offset = Place(b, offset)
       /\ x # 0 => map.blist[x].inode = i /\ map.blist[x].level = 1
       /\ {b \in Blocks : map.blist[b].inode = i}
            = {BlockAt(heard, i, offset) : offset \in offsets} \cup ({x} \ {0})

\* The map has the files as of the last transaction that was looked at: mode,
\* size, and every block in its file at its place (one further if it was parsed
\* below an indirect block at the start), none of them another file's.  That is
\* the last transaction the guest has committed, or, if it was reset between a
\* descriptor and the commit, the last before: the one that was not committed
\* never gets into the map, whatever is committed later.  Not of an inode of
\* which something was let go: a second change within a second, a cut to
\* nothing, what a second descriptor names, and what is below an indirect block
\* no longer cached.  diff_inode, remap_block, unmap_block, get_journal_type,
\* journal_rw_introspection.
ViewTrue ==
    /\ ~Deaf => heard = committed
    /\ \A i \in Understood :
          IF IsLive(heard.inodes[i])
          THEN /\ map.ilist[i].mode = heard.inodes[i].mode
               /\ map.ilist[i].size = heard.inodes[i].size
               /\ ListTrue(i)
          ELSE map.ilist[i].mode = "none" /\ map.ilist[i].bh = 0

\* What is copied for the scanner as a file's block is what the disk has there,
\* whichever files the block was of before and however long it was cached:
\* recur_copy_block, and unmap_block which takes blocks out of the cache.
CopyTrue ==
    \A copy \in {c \in map.copies : c.inode \in Understood} :
        \E offset \in 0..(heard.inodes[copy.inode].size - 1) :
            LET b == BlockAt(heard, copy.inode, offset)
            IN copy.content = disk[b] /\ copy.offset = Place(b, offset)

Layout(count, per_group, inodes, bitmap) ==
    INSTANCE ExtLayout WITH s_blocks_count <- count, s_blocks_per_group <- per_group,
                            s_inodes_per_group <- inodes, bg_block_bitmap <- bitmap

\* In file systems of several shapes, up to a tenth group that is not whole, every
\* block is taken for what the file system has there: _get_block_type,
\* is_backup_group, init_blockdesc.
ASSUME LayoutsTrue ==
    \A per_group \in 7..9, groups \in 2..10, more \in {0, 1, 4}, bitmap \in 1..3,
       inodes \in {inodes_per_block, 2 * inodes_per_block} :
        Layout(per_group * (groups - 1) + more, per_group, inodes, bitmap)!LayoutTrue
=============================================================================
