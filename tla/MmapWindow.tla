----------------------------- MODULE MmapWindow -----------------------------
(***************************************************************************)
(* How blktrace writes a trace file (blktrace.c, setup_mmap): the end of   *)
(* the file is mapped, data is read straight into the mapping, and when    *)
(* the next read may not fit, the window is moved: the file is made        *)
(* longer and its new end is mapped, from the start of the page the data   *)
(* ends in.  A tracer reads at most buf_size bytes from the relay file     *)
(* (handle_pfds_file); the server reads what the client's header announces *)
(* (net_client_read_data), so the two differ in what they ask for and in   *)
(* what they do when the window cannot be moved.                           *)
(*                                                                         *)
(* One file, the struct mmap_info that goes with it, and one thread.  The  *)
(* lengths in it are unsigned long long; under WindowAssumption none of    *)
(* the subtractions wraps.                                                 *)
(***************************************************************************)
EXTENDS Integers

CONSTANTS PageSize, buf_size, buf_nr,
          Announced,  \* the lengths the server's clients announce
          MaxData     \* bound: the data the source has in all

\* max(16, mip->buf_nr) * mip->buf_size
WindowLen == (IF buf_nr > 16 THEN buf_nr ELSE 16) * buf_size

\* What a caller may ask for (maxlen).
Asks == Announced \cup {buf_size}

\* The last conjunct is what setup_mmap relies on: an empty window, less the
\* part of its first page that is in use, holds what is asked for.  A tracer
\* asks for buf_size, so with 4K pages any -b satisfies it and with 64K pages
\* a -b of at least 9 does; a server's clients have to use a -b that does.
ASSUME WindowAssumption ==
    /\ PageSize \in Nat \ {0} /\ buf_size \in Nat \ {0} /\ buf_nr \in Nat
    /\ Announced \subseteq Nat \ {0}
    /\ MaxData \in Nat
    /\ \A n \in Asks : 2 * (PageSize - 1) + n <= WindowLen

VARIABLES
    fs_size,      \* the data in the file
    fs_max_size,  \* what the file was last to be made long enough for
    fs_off,       \* where in the window the data ends
    fs_buf_len,   \* the length of the window
    fs_buf,       \* "null", "mapped" or "bad" (MAP_FAILED)
    base,         \* the offset in the file the window was mapped at
    filelen,      \* the length of the file
    asked,        \* what the call in progress asked for, 0 if none
    polled,       \* the source is polled for data
    is_done,      \* the tracer was told to quit: it also reads unasked
    server,       \* the caller is net_client_read_data
    st            \* "open", "closed", "uncut" if closed without being cut to
                  \* its data, or "exited" with the process

mip == <<fs_size, fs_max_size, fs_off, fs_buf_len, fs_buf, base>>
windowvars == <<mip, filelen, asked, polled, is_done, server, st>>

WindowInit ==
    /\ fs_size = 0 /\ fs_max_size = 0 /\ fs_off = 0 /\ fs_buf_len = 0
    /\ fs_buf = "null" /\ base = 0
    /\ filelen = 0 /\ asked = 0
    /\ polled = TRUE /\ is_done = FALSE /\ st = "open"
    /\ server \in BOOLEAN

WindowTypeOK ==
    /\ fs_size \in Nat /\ fs_max_size \in Nat /\ fs_off \in Nat
    /\ fs_buf_len \in Nat
    /\ fs_buf \in {"null", "mapped", "bad"} /\ base \in Nat
    /\ filelen \in Nat /\ asked \in Asks \cup {0}
    /\ polled \in BOOLEAN /\ is_done \in BOOLEAN /\ server \in BOOLEAN
    /\ st \in {"open", "closed", "uncut", "exited"}
-----------------------------------------------------------------------------
\* setup_mmap is called: the source has data, or the tracer, done, tries all.
Called(maxlen) ==
    /\ st = "open" /\ asked = 0 /\ (polled \/ is_done)
    /\ maxlen \in IF server THEN Announced ELSE {buf_size}

\* setup_mmap finds room in the window.
WindowFits(maxlen) ==
    /\ Called(maxlen)
    /\ fs_off + maxlen <= fs_buf_len
    /\ asked' = maxlen
    /\ UNCHANGED <<mip, filelen, polled, is_done, server, st>>

\* Mutant: the new window starts where the data ends, page or not.
OffZero == 0

\* fs_size & (pagesize - 1)
OffInPage == fs_size % PageSize

\* setup_mmap unmaps the window and works out the new one.
NewWindow(maxlen) ==
    /\ Called(maxlen)
    /\ fs_off + maxlen > fs_buf_len
    /\ fs_off' = OffInPage
    /\ fs_buf_len' = WindowLen - OffInPage
    /\ fs_max_size' = fs_max_size + fs_buf_len'
    /\ UNCHANGED <<fs_size, polled, is_done, server>>

\* Mutant: the window is moved without making the file longer.
RemapNoTruncate(maxlen) ==
    /\ NewWindow(maxlen)
    /\ fs_buf' = "mapped" /\ base' = fs_size - OffInPage
    /\ asked' = maxlen
    /\ UNCHANGED <<filelen, st>>

\* setup_mmap, all of ftruncate, mmap and mlock working.
Remap(maxlen) ==
    /\ NewWindow(maxlen)
    /\ filelen' = fs_max_size'
    /\ fs_buf' = "mapped" /\ base' = fs_size - OffInPage
    /\ asked' = maxlen
    /\ UNCHANGED st

\* setup_mmap returns 1: the server exits; handle_pfds_file, which tests for
\* a negative value, goes on to read.
AfterFailure(maxlen) ==
    /\ asked' = IF server THEN 0 ELSE maxlen
    /\ st' = IF server THEN "exited" ELSE st

\* ftruncate fails: the window is gone, though its length says otherwise.
TruncateFails(maxlen) ==
    /\ NewWindow(maxlen)
    /\ fs_buf' = "null"
    /\ AfterFailure(maxlen)
    /\ UNCHANGED <<filelen, base>>

\* mmap fails.
MapFails(maxlen) ==
    /\ NewWindow(maxlen)
    /\ filelen' = fs_max_size'
    /\ fs_buf' = "bad"
    /\ AfterFailure(maxlen)
    /\ UNCHANGED base

\* mlock fails: the new window is in place all the same.
LockFails(maxlen) ==
    /\ NewWindow(maxlen)
    /\ filelen' = fs_max_size'
    /\ fs_buf' = "mapped" /\ base' = fs_size - OffInPage
    /\ AfterFailure(maxlen)

SetupMmap(maxlen) ==
    \/ WindowFits(maxlen) \/ Remap(maxlen)
    \/ TruncateFails(maxlen) \/ MapFails(maxlen) \/ LockFails(maxlen)

\* Mutant: fs_off is not moved past what was read.
ReadKeepsOff ==
    /\ asked > 0 /\ fs_buf = "mapped"
    /\ \E ret \in 1..asked :
          fs_size + ret <= MaxData /\ fs_size' = fs_size + ret
    /\ asked' = 0
    /\ UNCHANGED <<fs_max_size, fs_off, fs_buf_len, fs_buf, base, filelen,
                   polled, is_done, server, st>>

\* read or net_recv_data returns data, into the mapping at fs_off.
Read ==
    /\ asked > 0 /\ fs_buf = "mapped"
    /\ \E ret \in 1..asked :
          /\ fs_size + ret <= MaxData
          /\ fs_size' = fs_size + ret /\ fs_off' = fs_off + ret
    /\ asked' = 0
    /\ UNCHANGED <<fs_max_size, fs_buf_len, fs_buf, base, filelen, polled,
                   is_done, server, st>>

\* Mutant: the result of a failed read is accounted like any other.
ReadErrorCounted ==
    /\ asked > 0
    /\ asked' = 0
    /\ fs_size' = fs_size - 1 /\ fs_off' = fs_off - 1
    /\ UNCHANGED <<fs_max_size, fs_buf_len, fs_buf, base, filelen, polled,
                   is_done, server, st>>

\* There is nothing to read, or the connection failed (net_recv_data then
\* returns what it has got, never an error): a tracer that is done stops
\* polling.
ReadNothing ==
    /\ asked > 0
    /\ asked' = 0
    /\ polled' = (polled /\ ~is_done)
    /\ UNCHANGED <<mip, filelen, is_done, server, st>>

\* The window could not be mapped: read fails with EFAULT and writes nothing.
ReadFaults ==
    /\ asked > 0 /\ fs_buf # "mapped"
    /\ asked' = 0
    /\ polled' = FALSE
    /\ UNCHANGED <<mip, filelen, is_done, server, st>>

\* stop_tracers, from elsewhere, at any time.
Told ==
    /\ ~server /\ ~is_done
    /\ is_done' = TRUE
    /\ UNCHANGED <<mip, filelen, asked, polled, server, st>>

\* Mutant: the file keeps the length of its last window.
CloseNoTruncate ==
    /\ st = "open" /\ asked = 0 /\ (is_done \/ server)
    /\ fs_buf' = "null"
    /\ st' = "closed"
    /\ UNCHANGED <<fs_size, fs_max_size, fs_off, fs_buf_len, base, filelen,
                   asked, polled, is_done, server>>

\* close_iop: unmap, and cut the file to the data in it; "Ignoring err" if
\* ftruncate fails, the file stays as long as it was made.
CloseIop ==
    /\ st = "open" /\ asked = 0 /\ (is_done \/ server)
    /\ fs_buf' = "null"
    /\ \/ filelen' = fs_size /\ st' = "closed"
       \/ filelen' = filelen /\ st' = "uncut"
    /\ UNCHANGED <<fs_size, fs_max_size, fs_off, fs_buf_len, base, asked,
                   polled, is_done, server>>

WindowNext ==
    \/ \E maxlen \in Asks : SetupMmap(maxlen)
    \/ Read \/ ReadNothing \/ ReadFaults
    \/ Told
    \/ CloseIop

WindowSpec == WindowInit /\ [][WindowNext]_windowvars
-----------------------------------------------------------------------------
(* Properties.                                                             *)

\* What read may fill lies inside the mapping, and the mapping inside the
\* file: data never goes past the window setup_mmap made room in, and never
\* to a page of the mapping the file does not back.
ReadsInside ==
    asked > 0 /\ fs_buf = "mapped"
        => /\ fs_off + asked <= fs_buf_len
           /\ base + fs_buf_len <= filelen

\* A window starts at a page, as mmap demands of its offset.
WindowAligned == fs_buf = "mapped" => base % PageSize = 0

\* Data read is put right behind the data in the file, wherever the window
\* has moved in between, and however the move failed.
ReadsAppend == [][fs_size' # fs_size => base + fs_off = fs_size]_windowvars

\* The file always holds all the data, and behind the data nothing but room
\* setup_mmap has counted in fs_max_size.  A file that close_iop has cut holds
\* the data and nothing else.  One whose last ftruncate failed does not: the
\* room behind the data stays, as zeros a reader takes for records.
FileHoldsData ==
    /\ fs_size <= filelen /\ filelen <= fs_max_size
    /\ st = "closed" => filelen = fs_size

\* The window is where the data goes, however it moves and whatever fails; of
\* the file that is left, what FileHoldsData says.
WindowSound == WindowTypeOK /\ ReadsInside /\ WindowAligned /\ FileHoldsData
=============================================================================
