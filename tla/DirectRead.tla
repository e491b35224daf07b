---------------------------- MODULE DirectRead ----------------------------
(***************************************************************************)
(* adapter/row_store.cpp, row_store_open and read_bytes: opening a table   *)
(* inside a checkpoint shard and reading one block of one row with         *)
(* O_DIRECT.  Direct reads must start at a page boundary and ask for whole *)
(* pages, so a block is cut out of a window of at most two pages on the    *)
(* stack.  The kernel may deliver fewer bytes than asked for.              *)
(*                                                                         *)
(* A byte of the file is represented by its offset, so that a wrong byte   *)
(* shows; Garbage is what the window held before.  Arithmetic on uint64_t  *)
(* wraps at Word, 2^64 in the code.                                        *)
(***************************************************************************)
EXTENDS Integers

CONSTANTS
  Page,         \* 4096 in the code
  Word,         \* 2^64 in the code
  Garbage,      \* a byte that no read has delivered
  WeightBytes,  \* 256
  ScaleBytes,   \* 8
  FileSizes,    \* sizes a shard can have
  Offsets,      \* table offsets a header can name, right or wrong
  RowCounts     \* row counts the model's configuration can name

Block == {"weight", "scale"}
Length(block) == IF block = "weight" THEN WeightBytes ELSE ScaleBytes

ASSUME PageAssumption == Page \in Nat \ {0} /\ Garbage \notin Nat
ASSUME LengthAssumption ==
  WeightBytes \in 1..Page /\ ScaleBytes \in 1..Page
ASSUME WordAssumption == Word \in Nat \ {0}
ASSUME InputsAssumption ==
  /\ FileSizes \subseteq 0..(Word - 1) /\ Offsets \subseteq 0..(Word - 1)
  /\ RowCounts \subseteq 0..(Word - 1)

VARIABLES
  phase,   \* "unopened", "open", "reading", "done" or "aborted"
  size,    \* bytes of the file
  start,   \* block kind -> file offset of its table
  rows,
  offset, length,          \* the arguments of read_bytes
  base, delta, requested,  \* its window
  copied,                  \* what it copied out
  wanted                   \* history: the block's place in the file, unwrapped

arguments == <<offset, length>>
window == <<base, delta, requested>>
directVars == <<phase, size, start, rows, arguments, window, copied, wanted>>

\* Subtraction of two uint64_t.
Minus(a, b) == (a - b) % Word

DirectInit ==
  /\ phase = "unopened"
  /\ size \in FileSizes
  /\ start = [block \in Block |-> 0] /\ rows = 0
  /\ offset = 0 /\ length = 0
  /\ base = 0 /\ delta = 0 /\ requested = 0
  /\ copied = << >> /\ wanted = 0

\* The extent of one table lies inside the file.  The order matters: the
\* offset is compared first because the subtraction would wrap.
Extent_NoOffsetCheck(count, soff, n) == count <= Minus(size, soff) \div n  \* mutation
Extent(count, soff, n) == soff <= size /\ count <= Minus(size, soff) \div n

OpenTable(count, woff, soff) ==
  /\ phase = "unopened"
  /\ rows' = count
  /\ start' = [block \in Block |-> IF block = "weight" THEN woff ELSE soff]
  /\ phase' = IF Extent(count, woff, WeightBytes) /\ Extent(count, soff, ScaleBytes)
              THEN "open" ELSE "aborted"
  /\ UNCHANGED <<size, arguments, window, copied, wanted>>

\* The page boundary a window starts at.
WindowStart_RoundedUp(o) == ((o + Page - 1) \div Page) * Page  \* mutation
WindowStart(o) == o - (o % Page)

\* Mutation: whole pages from the start of the block, not of its page.
Pages_NoDelta(d, n) == ((n + Page - 1) \div Page) * Page
Pages(d, n) == ((d + n + Page - 1) \div Page) * Page

\* read_bytes(start + id * length, length), up to the system call.
ReadBytes(id, block) ==
  /\ phase \in {"open", "done"}
  /\ id < rows
  /\ wanted' = start[block] + id * Length(block)
  /\ offset' = wanted' % Word
  /\ length' = Length(block)
  /\ base' = WindowStart(offset')
  /\ delta' = offset' - base'
  /\ requested' = Pages(delta', length')
  /\ copied' = << >>
  /\ phase' = "reading"
  /\ UNCHANGED <<size, start, rows>>

\* What pread can deliver: at most what was asked for and what is there.
Available == IF size <= base THEN 0
             ELSE IF size - base < requested THEN size - base ELSE requested

\* Mutation: any answer as long as the block is taken.
Pread_NoDelta(got) ==
  /\ phase = "reading"
  /\ IF got < length
     THEN phase' = "aborted" /\ copied' = copied
     ELSE /\ phase' = "done"
          /\ copied' = [j \in 0..(length - 1) |->
                       IF delta + j < got THEN base + delta + j ELSE Garbage]
  /\ UNCHANGED <<size, start, rows, arguments, window, wanted>>
\* pread delivers got bytes, or fails (-1); a short answer aborts.  An
\* interrupted call is repeated unchanged, which is a stuttering step.
Pread(got) ==
  /\ phase = "reading"
  /\ IF got < delta + length
     THEN phase' = "aborted" /\ copied' = copied
     ELSE /\ phase' = "done"
          /\ copied' = [j \in 0..(length - 1) |->
                       IF delta + j < got THEN base + delta + j ELSE Garbage]
  /\ UNCHANGED <<size, start, rows, arguments, window, wanted>>

\* The process has aborted, or the table is open and empty.
DirectStopped == (phase = "aborted" \/ (phase = "open" /\ rows = 0)) /\ UNCHANGED directVars

DirectNext ==
  \/ \E count \in RowCounts, woff, soff \in Offsets : OpenTable(count, woff, soff)
  \/ \E id \in 0..(rows - 1), block \in Block : ReadBytes(id, block)
  \/ \E got \in -1..Available : Pread(got)
  \/ DirectStopped

DirectSpec == DirectInit /\ [][DirectNext]_directVars
-----------------------------------------------------------------------------
DirectTypeOK ==
  /\ phase \in {"unopened", "open", "reading", "done", "aborted"}
  /\ size \in FileSizes /\ rows \in RowCounts \cup {0}
  /\ start \in [Block -> Offsets \cup {0}]
  /\ offset \in 0..(Word - 1) /\ length \in Nat /\ wanted \in Nat
  /\ base \in Nat /\ delta \in Nat /\ requested \in Nat

\* The window is legal for O_DIRECT (page-aligned start and length), fits
\* the two-page stack buffer and covers the block (row_store.cpp:43-46).
WindowLegal ==
  phase = "reading" =>
    /\ base % Page = 0 /\ requested % Page = 0
    /\ delta + length <= requested /\ requested <= 2 * Page

\* Whatever the kernel delivers, a block copied out is byte for byte the
\* row's block of the file (row_store.cpp:47-50 and 105-106).
SliceExact ==
  phase = "done" => copied = [j \in 0..(length - 1) |-> wanted + j]

\* A table that passed the extent check never makes a read fail by itself:
\* when the kernel delivers all there is, the block is complete, even in the
\* last, partial page of the file (row_store.cpp:49 and 62-64).
ReadSatisfiable == phase = "reading" => delta + length <= Available
=============================================================================
