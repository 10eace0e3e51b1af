------------------------------ MODULE ExtLayout ------------------------------
(***************************************************************************)
(* Where things are in an ext2 or ext3 file system, as the introspection   *)
(* of the disk driver reckons it (stat/ext-struct.c).                      *)
(***************************************************************************)
EXTENDS Integers

\* The fields of the superblock, and the first block of the first group that is
\* no superblock and no group descriptor (bg_block_bitmap).
CONSTANTS s_first_data_block, s_blocks_count, s_blocks_per_group,
          s_inodes_per_group, inodes_per_block, bg_block_bitmap

ASSUME LayoutAssumption ==
    /\ s_first_data_block \in {0, 1}
    /\ {s_blocks_count, s_blocks_per_group, s_inodes_per_group, inodes_per_block,
        bg_block_bitmap} \subseteq Nat \ {0}
    /\ bg_block_bitmap < s_blocks_per_group

\* CEILING: right only if d divides a, or a is less than d.
Ceiling(a, d) == (a \div d) + (a % d)

\* init_ext_desc.
ed_groups == (s_blocks_count \div s_blocks_per_group)
               + (IF s_blocks_count % s_blocks_per_group # 0 THEN 1 ELSE 0)
ed_inode_table_blocks_per_group == Ceiling(s_inodes_per_group, inodes_per_block)

PowersOf(n, limit) == {p \in 1..limit : \E k \in 0..limit : p = n^k}

\* is_backup_group: the groups with a copy of the superblock.
IsBackupGroup(g) == g = 0 \/ g \in UNION {PowersOf(n, g) : n \in {3, 5, 7}}

\* init_blockdesc and init_blockdesc2, which refuse a block of no group.
GroupOf(block) == (block - s_first_data_block) \div s_blocks_per_group
GroupOffset(block) == (block - s_first_data_block) % s_blocks_per_group
InSomeGroup(block) == block >= s_first_data_block /\ GroupOf(block) < ed_groups
GroupFirstBlock(g) == IF IsBackupGroup(g) THEN bg_block_bitmap ELSE 0

\* _get_block_type.
BlockType(block) ==
    LET first == GroupFirstBlock(GroupOf(block))
        offset == GroupOffset(block) - first
    IN IF block < s_first_data_block THEN "BOOTRECORD"
       ELSE IF offset < 0
            THEN IF GroupOffset(block) = 0 THEN "SUPERBLOCK" ELSE "GROUPDESCTABLE"
       ELSE IF offset = 0 THEN "BLOCKBITMAP"
       ELSE IF offset = 1 THEN "INODEBITMAP"
       ELSE IF offset < ed_inode_table_blocks_per_group + 2 THEN "INODETABLE"
       ELSE "DATABLOCK"

\* inodetable_write_introspection: the inodes of a block of an inode table.
InodesAt(block) ==
    LET g == GroupOf(block)
        first == ((GroupOffset(block) - GroupFirstBlock(g) - 2) * inodes_per_block)
                   + (g * s_inodes_per_group) + 1
    IN first..(first + inodes_per_block - 1)

\* get_diskstat: where it reads the bitmaps and inode table of a group.
BitmapsOf(g) == (s_blocks_per_group * g) + GroupFirstBlock(g)
-----------------------------------------------------------------------------
(* What the file system's own documents say (external).                    *)

TrueCopies(g) == IF g \in {0, 1} \/ \E n \in {3, 5, 7}, k \in 1..g : g = n^k
                 THEN bg_block_bitmap - s_first_data_block ELSE 0

\* The block an inode is in.
TrueTable(i) == LET g == (i - 1) \div s_inodes_per_group
                    index == (i - 1) % s_inodes_per_group
                IN g * s_blocks_per_group + TrueCopies(g) + 2 + (index \div inodes_per_block)

\* The parts of a group in their order, each with its number of blocks.
TruePart(offset, g) ==
    LET copies == TrueCopies(g)
        tables == (s_inodes_per_group + inodes_per_block - 1) \div inodes_per_block
    IN CASE offset < copies -> IF offset = 0 THEN "SUPERBLOCK" ELSE "GROUPDESCTABLE"
         [] offset = copies -> "BLOCKBITMAP"
         [] offset = copies + 1 -> "INODEBITMAP"
         [] offset \in copies + 2..copies + 1 + tables -> "INODETABLE"
         [] OTHER -> "DATABLOCK"

\* Every block is what the file system keeps there, and the bitmaps are read
\* where they are, and so are the inodes: for blocks of 4096 bytes, the first of which is block 0.
\* With blocks of 1024 bytes all is off by one.
LayoutTrue ==
    s_first_data_block = 0 =>
        /\ \A block \in 0..(s_blocks_count - 1) :
              /\ InSomeGroup(block)
              /\ BlockType(block) = TruePart(block % s_blocks_per_group,
                                             block \div s_blocks_per_group)
        /\ \A g \in 0..(ed_groups - 1) : BlockType(BitmapsOf(g)) = "BLOCKBITMAP"
        /\ \A i \in 1..(ed_groups * s_inodes_per_group) : i \in InodesAt(TrueTable(i))
=============================================================================
