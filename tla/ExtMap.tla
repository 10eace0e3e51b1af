-------------------------------- MODULE ExtMap --------------------------------
(***************************************************************************)
(* The introspection's map of a file system (stat/ext-generic.c): which    *)
(* blocks each file has, as lists through the blocks, and how the lists    *)
(* are brought up to date from the inodes and indirect blocks the guest    *)
(* writes.  Pure operators over a map                                      *)
(*    [ilist, blist, data, copies, missed, parsed]                         *)
(* where data is what the data cache has of the blocks, copies is what has *)
(* been copied for the scanner.  History: missed has the inodes of which   *)
(* something was let go, and parsed the blocks whose place in their file   *)
(* is as parse_indirect_block counted it at the start.                     *)
(*                                                                         *)
(* Indirect blocks of any level; no guest writes a block number out of     *)
(* range, and a block of block numbers is read as such only when it is.    *)
(***************************************************************************)
EXTENDS Integers, Sequences, SequencesExt

CONSTANTS Inodes, Blocks, Direct, Indirect, Entries

ASSUME MapAssumption ==
    /\ Inodes \subseteq Nat \ {0} /\ Blocks \subseteq Nat \ {0}
    /\ Direct \in Nat \ {0} /\ Indirect \in 0..3 /\ Entries \in Nat \ {0}

\* A block that is in no cache.
NotCached == <<>>

FreeBlock == [level |-> 0, inode |-> 0, offset |-> 0, bh |-> 0, sib |-> 0]
NoSinode == [mode |-> "none", size |-> 0, ctime |-> 0, mtime |-> 0, dtime |-> 0,
             bh |-> 0]
EmptyMap == [ilist |-> [i \in Inodes |-> NoSinode],
             blist |-> [b \in Blocks |-> FreeBlock],
             data |-> [b \in Blocks |-> NotCached], copies |-> {},
             missed |-> {}, parsed |-> {}]

\* The blocks of a list, from the first.
RECURSIVE ListFrom(_, _)
ListFrom(blist, b) == IF b = 0 THEN <<>> ELSE <<b>> \o ListFrom(blist, blist[b].sib)
-----------------------------------------------------------------------------
(* Levels and offsets: i_block[k - 1] for k in 1..Direct + Indirect.       *)

SlotLevel(k) == IF k <= Direct THEN 0 ELSE k - Direct
SlotOffset(k) ==
    CASE k <= Direct + 1 -> k - 1
      [] k = Direct + 2 -> k - 1 + Entries
      [] k = Direct + 3 -> k - 1 + (Entries + 1) * Entries

\* Mutant: the indirect block is counted.
EntryOffsetCounted(parent, k) == parent.offset + k + (k - 1) * Entries * (parent.level - 1)

\* Of the k-th block an indirect one points to, in remap_block.
EntryOffset(parent, k) ==
    CASE parent.level = 1 -> parent.offset + k - 1
      [] parent.level = 2 -> parent.offset + 1 + (k - 1) * (1 + Entries)
      [] parent.level = 3 -> parent.offset + 1
                               + (k - 1) * (1 + Entries * (1 + Entries))
-----------------------------------------------------------------------------
(* Taking blocks out.                                                      *)

\* unmap_block: a block of another inode is let be.
RECURSIVE Unmapped(_, _, _), UnmappedList(_, _, _)
Unmapped(map, b, inode) ==
    LET sblock == map.blist[b]
        freed == [map EXCEPT !.blist[b].inode = 0, !.blist[b].offset = 0,
                             !.data[b] = NotCached]
    IN IF sblock.inode # inode THEN map
       ELSE IF sblock.level = 0 /\ sblock.bh # 0 THEN freed
       ELSE [UnmappedList(freed, sblock.bh, inode) EXCEPT !.blist[b] = FreeBlock]
UnmappedList(map, b, inode) ==
    IF b = 0 THEN map
    ELSE UnmappedList(Unmapped(map, b, inode), map.blist[b].sib, inode)

\* remove_sinode.
Removed(map, i) ==
    [UnmappedList(map, map.ilist[i].bh, i) EXCEPT
        !.ilist[i].mode = "none", !.ilist[i].size = 0, !.ilist[i].bh = 0]
-----------------------------------------------------------------------------
(* Putting blocks in.  The holder of a list is an inode, or its indirect   *)
(* block parent if that is not 0.                                          *)

FirstOf(map, i, parent) == IF parent = 0 THEN map.ilist[i].bh ELSE map.blist[parent].bh
Used(links) == SelectSeq([k \in DOMAIN links |-> k], LAMBDA k : links[k] # 0)

\* The loops of diff_inode and remap_block that put in the links at some places,
\* after prev.  A block another inode has is taken from it by diff_inode, but
\* remap_block asks unmap_block to take it from its own inode, which does not
\* have it.  What is below a block that is not cached is missed.
RECURSIVE Linked(_, _, _, _, _, _), Remapped(_, _, _)
Linked(map, i, parent, prev, places, links) ==
    LET k == Head(places)
        b == links[k]
        owner == map.blist[b].inode
        taken == IF owner = 0 THEN map
                 ELSE Unmapped(map, b, IF parent = 0 THEN owner ELSE i)
        hung == IF prev # 0 THEN [taken EXCEPT !.blist[prev].sib = b]
                ELSE IF parent # 0 THEN [taken EXCEPT !.blist[parent].bh = b]
                ELSE [taken EXCEPT !.ilist[i].bh = b]
        level == IF parent = 0 THEN SlotLevel(k) ELSE map.blist[parent].level - 1
        put == [hung EXCEPT !.blist[b] =
                  [level |-> level, inode |-> i, sib |-> @.sib,
                   bh |-> IF level = 0 THEN 0 ELSE @.bh,
                   offset |-> IF parent = 0 THEN SlotOffset(k)
                              ELSE EntryOffset(map.blist[parent], k)],
                           !.parsed = @ \ {b}]
        deeper == IF level = 0 THEN put
                  ELSE IF put.data[b] = NotCached
                       THEN [put EXCEPT !.missed = @ \cup {i}]
                  ELSE Remapped(put, b, put.data[b])
    IN IF places = <<>>
       THEN IF prev = 0 THEN map ELSE [map EXCEPT !.blist[prev].sib = 0]
       ELSE Linked(deeper, i, parent, b, Tail(places), links)

\* Mutant: what is left of the list is let be.
BroughtKeepsRest(map, i, parent, links) ==
    LET list == ListFrom(map.blist, FirstOf(map, i, parent))
        places == Used(links)
        n == Len(LongestCommonPrefix({[k \in DOMAIN places |-> links[places[k]]], list}))
    IN Linked(map, i, parent, IF n = 0 THEN 0 ELSE links[places[n]],
              SubSeq(places, n + 1, Len(places)), links)

\* The list is kept as far as it agrees with the links, what is left of it is
\* taken out, and what is left of the links is put in.  If there are no links,
\* nothing is taken out.
Brought(map, i, parent, links) ==
    LET list == ListFrom(map.blist, FirstOf(map, i, parent))
        places == Used(links)
        n == Len(LongestCommonPrefix({[k \in DOMAIN places |-> links[places[k]]], list}))
        left == IF places = <<>> \/ n = Len(list) THEN 0 ELSE list[n + 1]
    IN Linked(UnmappedList(map, left, i), i, parent,
              IF n = 0 THEN 0 ELSE links[places[n]],
              SubSeq(places, n + 1, Len(places)), links)

\* remap_block.
Remapped(map, b, links) == Brought(map, map.blist[b].inode, b, links)
-----------------------------------------------------------------------------
(* Copying for the scanner.                                                *)

\* recur_copy_block: the blocks of a list that are cached, those below included.
RECURSIVE Copies(_, _, _)
Copies(map, i, b) ==
    LET block == map.blist[b]
        here == IF block.level # 0 THEN Copies(map, i, block.bh)
                ELSE IF map.data[b] = NotCached THEN {}
                ELSE {[inode |-> i, offset |-> block.offset, content |-> map.data[b]]}
    IN IF b = 0 THEN {} ELSE here \cup Copies(map, i, block.sib)

\* copy_inode, of regular files.
Copied(map, i) ==
    IF map.ilist[i].mode # "reg" THEN map
    ELSE [map EXCEPT !.copies = @ \cup Copies(map, i, map.ilist[i].bh)]
-----------------------------------------------------------------------------
(* diff_inode: what the guest wrote of an inode, against what the cache    *)
(* has of it (old), if it has anything, and against the map.               *)

\* Directories and regular files; everything else counts as removed.
LiveInode(inode) == inode.mode \in {"reg", "dir"} /\ inode.ctime > inode.dtime

SameTimes(a, b) == a.ctime = b.ctime /\ a.mtime = b.mtime
SameInode(old, inode) == old # NotCached /\ old.dtime = inode.dtime
                           /\ SameTimes(old, inode)
SameBlocks(old, inode) == old # NotCached /\ old.block = inode.block

\* The times tell of no change: they are in seconds.
LetGo(map, i, inode, old) ==
    \/ SameInode(old, inode) /\ SameBlocks(old, inode)
    \/ SameTimes(map.ilist[i], inode)

\* History: whether the map is that of the inode, but for what is below
\* indirect blocks.
Mapped(map, i, inode) ==
    /\ map.ilist[i].mode = inode.mode /\ map.ilist[i].size = inode.size
    /\ ListFrom(map.blist, map.ilist[i].bh) = SelectSeq(inode.block, LAMBDA b : b # 0)

Described(map, i, inode) ==
    [map EXCEPT !.ilist[i] = [mode |-> inode.mode, size |-> inode.size,
                              ctime |-> inode.ctime, mtime |-> inode.mtime,
                              dtime |-> inode.dtime, bh |-> @.bh]]

\* History: the inode has changed though the times are those the map knows of
\* an earlier change; missed until it is mapped anew from nothing.
LetGoNoted(map, i, inode) ==
    IF SameTimes(map.ilist[i], inode) /\ ~Mapped(map, i, inode)
    THEN [map EXCEPT !.missed = @ \cup {i}] ELSE map

\* History: the inode has no blocks any more, and keeps those it had.
EmptiedNoted(map, i, inode) ==
    IF Used(inode.block) = <<>> /\ map.ilist[i].bh # 0
    THEN [map EXCEPT !.missed = @ \cup {i}] ELSE map

Diffed(map, i, inode, old) ==
    LET known == map.ilist[i].mode # "none"
        described == Described(map, i, inode)
        anew == [described EXCEPT !.ilist[i].bh = 0, !.missed = @ \ {i}]
    IN IF known /\ ~LiveInode(inode)
       THEN [Removed(map, i) EXCEPT !.ilist[i].dtime = inode.dtime,
                                    !.missed = @ \ {i}]
       ELSE IF ~LiveInode(inode) THEN map
       ELSE IF ~known
       THEN Copied(Linked(anew, i, 0, 0, Used(inode.block), inode.block), i)
       ELSE IF LetGo(map, i, inode, old) THEN LetGoNoted(map, i, inode)
       ELSE LET brought == IF SameBlocks(old, inode) THEN described
                           ELSE Brought(described, i, 0, inode.block)
            IN EmptiedNoted(Copied(brought, i), i, inode)
-----------------------------------------------------------------------------
(* get_diskstat: what is on the disk at the start.                         *)

ParsedSlotOffset(k) ==
    IF k = Direct + 3 THEN k - 1 + Entries * (Entries + 2) ELSE SlotOffset(k)

\* parse_indirect_block counts the indirect block itself: one more than
\* remap_block for the blocks that hold data.
ParsedOffset(parent, k) ==
    EntryOffset(parent, k) + (IF parent.level = 1 THEN 1 ELSE 0)

\* init_sinode_sblock, parse_indirect_block: disk has the links of the indirect
\* blocks.
RECURSIVE Parsed(_, _, _, _, _, _, _)
Parsed(map, disk, i, parent, prev, places, links) ==
    LET k == Head(places)
        b == links[k]
        hung == IF prev # 0 THEN [map EXCEPT !.blist[prev].sib = b]
                ELSE IF parent # 0 THEN [map EXCEPT !.blist[parent].bh = b]
                ELSE [map EXCEPT !.ilist[i].bh = b]
        level == IF parent = 0 THEN SlotLevel(k) ELSE map.blist[parent].level - 1
        put == [hung EXCEPT !.blist[b] =
                  [level |-> level, inode |-> i, sib |-> 0, bh |-> 0,
                   offset |-> IF parent = 0 THEN ParsedSlotOffset(k)
                              ELSE ParsedOffset(map.blist[parent], k)],
                           !.parsed = IF parent = 0 THEN @ ELSE @ \cup {b}]
        deeper == IF level = 0 THEN put
                  ELSE Parsed(put, disk, i, b, 0, Used(disk[b]), disk[b])
    IN IF places = <<>> THEN map
       ELSE Parsed(deeper, disk, i, parent, b, Tail(places), links)

\* Of the inodes in their order.
RECURSIVE Diskstat(_, _, _)
Diskstat(inodes, disk, left) ==
    LET i == CHOOSE j \in left : \A k \in left : j >= k
        before == Diskstat(inodes, disk, left \ {i})
    IN IF left = {} THEN EmptyMap
       ELSE IF inodes[i].mode \notin {"reg", "dir"} THEN before
       ELSE Parsed(Described(before, i, inodes[i]), disk, i, 0, 0,
                   Used(inodes[i].block), inodes[i].block)
=============================================================================
