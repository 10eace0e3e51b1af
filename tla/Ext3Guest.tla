------------------------------ MODULE Ext3Guest ------------------------------
(***************************************************************************)
(* What writes to the disk: a guest with an ext3 file system, mounted with *)
(* its data in order, none of which is code of this repository.  Data goes *)
(* to its place before the change that makes it part of a file goes to the *)
(* journal.  Inodes and indirect blocks go to the journal, a transaction   *)
(* at a time: a descriptor with the blocks' places, the blocks, a commit.  *)
(* A block that was freed is not used again before that is committed.      *)
(* Times are in seconds.  Files have at most one indirect block and grow   *)
(* at the end, by free blocks in one order or the other, and those of a    *)
(* transaction are in its descriptor in one order or the other.            *)
(***************************************************************************)
EXTENDS ExtLayout, ExtMap

\* Existing: the inodes one of which may be that of a file from the start.
CONSTANTS Existing, MaxWrites

ASSUME GuestAssumption == Existing \subseteq Inodes /\ Indirect = 1 /\ MaxWrites \in Nat

VARIABLES running, committed, committing, disk, now, writes, seq

guestVars == <<running, committed, committing, disk, now, writes, seq>>

NoTransaction == [seq |-> 0]

NoInode == [mode |-> "none", size |-> 0, ctime |-> 0, mtime |-> 0, dtime |-> 0,
            block |-> [k \in 1..(Direct + Indirect) |-> 0]]
NewInode(mode, t) == [NoInode EXCEPT !.mode = mode, !.ctime = t, !.mtime = t]
IsLive(inode) == inode.ctime > inode.dtime

Nonzero(links) == {links[k] : k \in DOMAIN links} \ {0}

\* The blocks in use: those of the inodes, and those of indirect blocks.
InUse(fs) == UNION {Nonzero(fs.inodes[i].block) : i \in Inodes}
               \cup UNION {Nonzero(fs.links[b]) : b \in Blocks}
Free == Blocks \ (InUse(running) \cup InUse(committed)
                    \cup (IF committing = NoTransaction THEN {} ELSE InUse(committing.fs)))

Orders(blocks) == {SetToSortSeq(blocks, <), SetToSortSeq(blocks, >)}

\* The block of a file at an offset.
BlockAt(fs, i, offset) ==
    LET inode == fs.inodes[i]
    IN IF offset < Direct THEN inode.block[offset + 1]
       ELSE fs.links[inode.block[Direct + 1]][offset - Direct + 1]

TableBlock == [i \in Inodes |-> TrueTable(i)]
InodesOf(b) == {i \in Inodes : TableBlock[i] = b}

\* The blocks a transaction takes fs to the journal with.
Changed(fs) ==
    {TableBlock[i] : i \in {j \in Inodes : fs.inodes[j] # committed.inodes[j]}}
      \cup {b \in Blocks : fs.links[b] # NotCached /\ fs.links[b] # committed.links[b]}
-----------------------------------------------------------------------------
EmptyFs == [inodes |-> [i \in Inodes |-> NoInode],
            links |-> [b \in Blocks |-> NotCached]]

NoLinks == [k \in 1..Entries |-> 0]

\* The file system with a block more in a file.
Grown1(fs, i, b, x, t) ==
    LET size == fs.inodes[i].size
        grown == [fs EXCEPT !.inodes[i] = [@ EXCEPT !.size = size + 1, !.ctime = t,
                                                    !.mtime = t]]
    IN IF size < Direct THEN [grown EXCEPT !.inodes[i].block[size + 1] = b]
       ELSE IF size = Direct
            THEN [grown EXCEPT !.inodes[i].block[Direct + 1] = x,
                               !.links[x] = [NoLinks EXCEPT ![1] = b]]
       ELSE [grown EXCEPT
                !.links[fs.inodes[i].block[Direct + 1]][size - Direct + 1] = b]

\* The number of blocks it takes, and the file system with count blocks more.
Takes(size, count) == count + (IF size <= Direct /\ size + count > Direct THEN 1 ELSE 0)
Grown(fs, i, count, order, t) ==
    LET x == order[Takes(fs.inodes[i].size, count)]
    IN FoldLeft(LAMBDA f, k : Grown1(f, i, order[k], x, t), fs, [k \in 1..count |-> k])

\* The file system with a file cut to a size.
Cut(fs, i, size, t) ==
    LET inode == fs.inodes[i]
        x == inode.block[Direct + 1]
    IN [fs EXCEPT
          !.inodes[i] = [@ EXCEPT !.size = size, !.ctime = t, !.mtime = t,
              !.block = [k \in DOMAIN @ |-> IF k <= size THEN @[k] ELSE 0]],
          !.links = [b \in Blocks |->
              IF b # x \/ x = 0 THEN @[b]
              ELSE IF size <= Direct THEN NotCached
              ELSE [k \in 1..Entries |-> IF k <= size - Direct THEN @[b][k] ELSE 0]]]

\* There is a file on the disk, or none.
GuestInit ==
    /\ now = 1 /\ writes = 0 /\ seq = 1
    /\ \/ committed = EmptyFs
       \/ \E i \in Existing :
             committed = Grown([EmptyFs EXCEPT !.inodes[i] = NewInode("reg", 1)], i, Direct + 1,
                               SetToSortSeq(Blocks, <), 1)
    /\ running = committed
    /\ committing = NoTransaction
    /\ disk = [b \in Blocks |-> <<0>>]

\* The guest changes its file system in memory, this second or the next.
Changes(fs, t) ==
    /\ writes < MaxWrites
    /\ running' = fs /\ now' = t
    /\ writes' = writes + 1
    /\ UNCHANGED <<committed, committing, seq>>

\* Blocks of data are written to their places.
Written(blocks) == disk' = [b \in Blocks |-> IF b \in blocks THEN <<-(writes + 1)>> ELSE disk[b]]

Create(i, mode, t) ==
    /\ ~IsLive(running.inodes[i])
    /\ Changes([running EXCEPT !.inodes[i] = NewInode(mode, t)], t)
    /\ Written({})

Delete(i, t) ==
    /\ IsLive(running.inodes[i])
    /\ Changes([Cut(running, i, 0, t) EXCEPT !.inodes[i].dtime = t], t)
    /\ Written({})

Truncate(i, size, t) ==
    /\ IsLive(running.inodes[i]) /\ size < running.inodes[i].size
    /\ Changes(Cut(running, i, size, t), t)
    /\ Written({})

Extend(i, count, order, t) ==
    LET size == running.inodes[i].size
    IN /\ IsLive(running.inodes[i]) /\ size + count <= Direct + Entries
       /\ Takes(size, count) <= Len(order)
       /\ Changes(Grown(running, i, count, order, t), t)
       /\ Written({order[k] : k \in 1..count})

\* The last block.
Overwrite(i, t) ==
    LET size == running.inodes[i].size
    IN /\ IsLive(running.inodes[i]) /\ size > 0
       /\ Changes([running EXCEPT !.inodes[i].ctime = t, !.inodes[i].mtime = t], t)
       /\ Written({BlockAt(running, i, size - 1)})

Journal(tags) ==
    /\ committing = NoTransaction /\ running # committed
    /\ tags \in Orders(Changed(running))
    /\ committing' = [seq |-> seq, fs |-> running, tags |-> tags]
    /\ UNCHANGED <<running, committed, disk, now, writes, seq>>

Commit ==
    /\ committing # NoTransaction
    /\ committed' = committing.fs
    /\ committing' = NoTransaction
    /\ seq' = seq + 1
    /\ UNCHANGED <<running, disk, now, writes>>

\* The guest is reset: what was not committed is gone, and the number of the
\* transaction that was not is not used again.
Crash ==
    /\ running # committed
    /\ running' = committed
    /\ committing' = NoTransaction
    /\ seq' = IF committing = NoTransaction THEN seq ELSE seq + 1
    /\ UNCHANGED <<committed, disk, now, writes>>
=============================================================================
