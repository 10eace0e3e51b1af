\* The introspection of a disk: three groups of seven blocks, two files.
SPECIFICATION Spec
CONSTANTS
    s_first_data_block = 0
    s_blocks_count = 21
    s_blocks_per_group = 7
    s_inodes_per_group = 2
    inodes_per_block = 2
    bg_block_bitmap = 2
    Inodes = {2, 3}
    Blocks = {5, 6, 12, 17}
    Direct = 1
    Indirect = 1
    Entries = 2
    Existing = {2}
    MaxTags = 2
    MaxWrites = 3
    MaxLosses = 1
INVARIANTS ViewTrue CopyTrue
CHECK_DEADLOCK FALSE
