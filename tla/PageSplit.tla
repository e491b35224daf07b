----------------------------- MODULE PageSplit -----------------------------
(***************************************************************************)
(* runtime/flash_mla_sm120.py: how sparse attention reads the paged        *)
(* key-value caches.  A page holds the data of its tokens one after the    *)
(* other, then their scales, so the same token lies at different addresses *)
(* in pages of different sizes.  The fast kernel wants pages of Dst tokens *)
(* (64): larger ones are split into a persistent scratch buffer before     *)
(* each call, and only those pages are copied that the call refers to.     *)
(* The buffer is shared by all layers and never shrinks, so it is full of  *)
(* bytes of other layers and earlier calls.                                *)
(*                                                                         *)
(* Everything a call launches runs on one stream, in order; only the       *)
(* programs of one kernel run in any order.  Attention arithmetic is left  *)
(* out: a byte is represented by the cache, the token and the place in the *)
(* token it belongs to and the version of the token's content.             *)
(***************************************************************************)
EXTENDS Integers, Sequences, FiniteSets

CONSTANTS
  Primaries, Extras,   \* caches: sliding-window ones, compressed ones
  NoCache,             \* no extra cache
  Pages, PageSize,     \* cache -> its pages, and tokens per page
  Dst,                 \* tokens of a page the kernel wants, 64
  Data, Scale,         \* bytes of a token's data (576) and scales (8)
  DstStride,           \* bytes from one page of the buffer to the next
  Blank,               \* a byte of uninitialised or padding memory
  Indices,             \* token index lists; -1 is no token
  MaxWrites, MaxCalls  \* bounds on token writes and on calls

Caches == Primaries \cup Extras
Tags == {"primary", "extra"}

ASSUME CachesAssumption ==
  /\ NoCache \notin Caches /\ Primaries \cap Extras = {}
  /\ Pages \in [Caches -> Nat \ {0}] /\ PageSize \in [Caches -> Nat \ {0}]
ASSUME LayoutAssumption ==
  /\ Dst \in Nat \ {0} /\ Data \in Nat \ {0} /\ Scale \in Nat \ {0}
  /\ \A c \in Caches : PageSize[c] % Dst = 0
  /\ DstStride \in Nat /\ DstStride >= Dst * (Data + Scale)
ASSUME InputsAssumption ==
  Indices \subseteq Seq(Nat \cup {-1}) /\ MaxWrites \in Nat /\ MaxCalls \in Nat

VARIABLES
  version,  \* cache -> token -> how often the token was written
  buffers,  \* tag -> page -> address -> byte; no page before its first use
  masks,    \* tag -> page of the source -> 1 when touched
  pc,       \* "idle", "split", "mark", "copy" or "attend"
  call,     \* the call under way, see Begin
  tag,      \* which of its caches is being split
  left,     \* the programs of the copy kernel that have not run
  written   \* history: token writes so far

scratch == <<buffers, masks>>
vars == <<version, scratch, pc, call, tag, left, written>>

Tokens(c) == 0..(Pages[c] * PageSize[c] - 1)
Size(f) == Cardinality(DOMAIN f)
Ratio(c) == PageSize[c] \div Dst

CacheOf(g) == IF g = "primary" THEN call.cache ELSE call.extra
IndicesOf(g) == IF g = "primary" THEN call.indices ELSE call.extraIndices
ValidIn(idx) == {idx[i] : i \in DOMAIN idx} \ {-1}
-----------------------------------------------------------------------------
(* Layout                                                                  *)

\* Where byte j of the token at offset o lies in a page of n tokens.
Address(n, o, j) == IF j < Data THEN o * Data + j ELSE n * Data + o * Scale + (j - Data)

\* Byte j of token t of cache c.
Byte(c, t, j) == <<c, t, j, version[c][t]>>
Content(c, t) == [j \in 0..(Data + Scale - 1) |-> Byte(c, t, j)]

\* The byte a source page holds at an address (external: the cache's writer).
SourceByte(c, page, a) ==
  LET n == PageSize[c]
      s == a - n * Data
  IN  IF a < n * Data THEN Byte(c, page * n + (a \div Data), a % Data)
      ELSE IF s < n * Scale THEN Byte(c, page * n + (s \div Scale), Data + (s % Scale))
      ELSE Blank

\* What _gather_and_dequant, and a kernel given the cache as it is, read of
\* token t.
Gathered(c, t) ==
  LET n == PageSize[c] IN
  [j \in 0..(Data + Scale - 1) |-> SourceByte(c, t \div n, Address(n, t % n, j))]

\* What the kernel reads of token t in the split pages (external): token
\* indices stay as they are, pages are Dst tokens long.
FromSplit(g, t) ==
  [j \in 0..(Data + Scale - 1) |-> buffers[g][t \div Dst][Address(Dst, t % Dst, j)]]
-----------------------------------------------------------------------------
Init ==
  /\ version = [c \in Caches |-> [t \in Tokens(c) |-> 0]]
  /\ buffers = [g \in Tags |-> << >>] /\ masks = [g \in Tags |-> << >>]
  /\ pc = "idle" /\ tag = "primary" /\ left = {}
  /\ call = [number |-> 0, path |-> "torch", cache |-> NoCache, indices |-> << >>,
             extra |-> NoCache, extraIndices |-> << >>]
  /\ written = 0

\* The runtime stores a token, or reuses its place (external).
Write(c, t) ==
  /\ pc = "idle" /\ written < MaxWrites
  /\ version' = [version EXCEPT ![c][t] = @ + 1]
  /\ written' = written + 1
  /\ UNCHANGED <<scratch, pc, call, tag, left>>

\* flash_mla_with_kvcache_sm120: more than 64 tokens go to "prefill", fewer
\* to "decode"; the "torch" fallback reads the caches as they are.
Begin(path, c, idx, x, xidx) ==
  /\ pc = "idle" /\ call.number < MaxCalls
  /\ ValidIn(idx) \subseteq Tokens(c)
  /\ IF x = NoCache THEN xidx = << >> ELSE ValidIn(xidx) \subseteq Tokens(x)
  /\ call' = [number |-> call.number + 1, path |-> path, cache |-> c, indices |-> idx,
              extra |-> x, extraIndices |-> xidx]
  /\ pc' = "split" /\ tag' = "primary"
  /\ UNCHANGED <<version, scratch, left, written>>

\* Which caches of a call are split: the primary one for both kernels, the
\* extra one only for prefill, each unless its pages already have Dst tokens.
IsSplit(g) ==
  /\ \/ g = "primary" /\ call.path \in {"prefill", "decode"}
     \/ g = "extra" /\ call.path = "prefill" /\ call.extra # NoCache
  /\ PageSize[CacheOf(g)] # Dst

\* On to the next cache of the call, or to the attention kernel.
Onward ==
  /\ pc' = IF tag = "primary" THEN "split" ELSE "attend"
  /\ tag' = "extra"
  /\ UNCHANGED <<version, call, written>>

Skip == pc = "split" /\ ~IsSplit(tag) /\ Onward /\ UNCHANGED <<scratch, left>>

\* The buffer of each cache of a call.
Buffer_Shared(g) == "primary"  \* mutation: one scratch buffer for both caches
Buffer(g) == g

\* A buffer of at least n entries: torch.empty when the present one is too
\* short, otherwise that one.
Grown_Never(f, n, fresh) ==  \* mutation: only the first call allocates
  IF Size(f) = 0 THEN [i \in 0..(n - 1) |-> fresh] ELSE f
Grown(f, n, fresh) == IF Size(f) < n THEN [i \in 0..(n - 1) |-> fresh] ELSE f

\* The mask of a call before its pages are marked: zeroed as far as it is used.
Cleared(f, n) == [i \in DOMAIN Grown(f, n, 0) |-> IF i < n THEN 0 ELSE f[i]]

\* _split_kv_pages_to_64 up to its first kernel.  A call without any index
\* has no mask: every page will be copied.
Prepare ==
  LET c == CacheOf(tag)
      masked == IndicesOf(tag) # << >>
      b == Buffer(tag)
  IN  /\ pc = "split" /\ IsSplit(tag)
      /\ buffers' = [buffers EXCEPT ![b] =
                       Grown(@, Pages[c] * Ratio(c), [a \in 0..(DstStride - 1) |-> Blank])]
      /\ masks' = IF masked THEN [masks EXCEPT ![b] = Cleared(@, Pages[c])] ELSE masks
      /\ left' = (0..(Pages[c] - 1)) \X (0..(Ratio(c) - 1))
      /\ pc' = IF masked THEN "mark" ELSE "copy"
      /\ UNCHANGED <<version, call, tag, written>>

\* _page_mark_kernel: its lanes all store the same 1.
Marked_Invalid(mask, idx, n) ==  \* mutation: -1 is taken for a token
  LET touched == {idx[i] \div n : i \in DOMAIN idx}
  IN  [p \in DOMAIN mask \cup touched |-> IF p \in touched THEN 1 ELSE mask[p]]
Marked(mask, idx, n) ==
  [p \in DOMAIN mask |-> IF \E t \in ValidIn(idx) : p = t \div n THEN 1 ELSE mask[p]]

Mark ==
  /\ pc = "mark"
  /\ masks' = [masks EXCEPT ![Buffer(tag)] = Marked(@, IndicesOf(tag), PageSize[CacheOf(tag)])]
  /\ pc' = "copy"
  /\ UNCHANGED <<version, buffers, call, tag, left, written>>

\* _page_split_kernel, the program of one part of one page: the part's data,
\* then its scales, move to a page of the buffer; what follows stays.
Split_ScalesByPart(f, c, page, sub) ==  \* mutation: scales looked for after the part's data
  [a \in DOMAIN f |->
     IF a < Dst * Data THEN SourceByte(c, page, sub * Dst * Data + a)
     ELSE IF a < Dst * (Data + Scale)
     THEN SourceByte(c, page, (sub + 1) * Dst * Data + (a - Dst * Data)) ELSE f[a]]
Split(f, c, page, sub) ==
  [a \in DOMAIN f |->
     IF a < Dst * Data THEN SourceByte(c, page, sub * Dst * Data + a)
     ELSE IF a < Dst * (Data + Scale)
     THEN SourceByte(c, page, PageSize[c] * Data + sub * Dst * Scale + (a - Dst * Data))
     ELSE f[a]]

Copy(page, sub) ==
  LET c == CacheOf(tag)
      b == Buffer(tag)
  IN  /\ pc = "copy" /\ <<page, sub>> \in left
      /\ left' = left \ {<<page, sub>>}
      /\ buffers' = IF IndicesOf(tag) = << >> \/ masks[b][page] = 1
                    THEN [buffers EXCEPT ![b][page * Ratio(c) + sub] = Split(@, c, page, sub)]
                    ELSE buffers
      /\ UNCHANGED <<version, masks, pc, call, tag, written>>

Copied == pc = "copy" /\ left = {} /\ Onward /\ UNCHANGED <<scratch, left>>

\* The attention kernel reads (see TokensExact) and the call returns.
Attend ==
  /\ pc = "attend" /\ pc' = "idle"
  /\ UNCHANGED <<version, scratch, call, tag, left, written>>

\* Both bounds are reached.
Stopped ==
  /\ pc = "idle" /\ call.number = MaxCalls
  /\ UNCHANGED vars

Next ==
  \/ \E c \in Caches : \E t \in Tokens(c) : Write(c, t)
  \/ \E path \in {"prefill", "decode", "torch"}, c \in Primaries, idx, xidx \in Indices,
        x \in Extras \cup {NoCache} : Begin(path, c, idx, x, xidx)
  \/ Skip \/ Prepare \/ Mark
  \/ \E program \in left : Copy(program[1], program[2])
  \/ Copied \/ Attend
  \/ Stopped

Spec == Init /\ [][Next]_vars
-----------------------------------------------------------------------------
(* Properties                                                              *)

TypeOK ==
  /\ \A c \in Caches : version[c] \in [Tokens(c) -> 0..MaxWrites]
  /\ \A g \in Tags :
       /\ DOMAIN buffers[g] = 0..(Size(buffers[g]) - 1)
       /\ masks[g] \in [0..(Size(masks[g]) - 1) -> {0, 1}]
  /\ pc \in {"idle", "split", "mark", "copy", "attend"} /\ tag \in Tags

\* Every program of the copy kernel finds its flag in the mask and its page
\* in the buffer, which another, smaller cache may have allocated
\* (flash_mla_sm120.py:486-498 and 515-523).
ProgramsFit ==
  pc \in {"mark", "copy"} =>
    LET c == CacheOf(tag) IN
    /\ Pages[c] * Ratio(c) <= Size(buffers[Buffer(tag)])
    /\ IndicesOf(tag) # << >> => Pages[c] <= Size(masks[Buffer(tag)])

\* When the attention kernel runs, every token the call refers to reads, in
\* whichever form its cache is passed, the content the cache holds now:
\* nothing stale, nothing of the other cache, no other token's scales
\* (flash_mla_sm120.py:49-118, 249-256, 416-430 and 462-470).
TokensExact ==
  pc = "attend" =>
    \A g \in Tags : \A t \in ValidIn(IndicesOf(g)) :
      (IF IsSplit(g) THEN FromSplit(Buffer(g), t) ELSE Gathered(CacheOf(g), t))
        = Content(CacheOf(g), t)

=============================================================================
