-------------------------- MODULE PageSplitProofs --------------------------
(***************************************************************************)
(* Proofs about PageSplit, for caches of any number and size of pages, any *)
(* layout of a page and any calls:                                         *)
(*                                                                         *)
(*   PagesTypes    the types (TypeOK)                                      *)
(*   ProgramsStay  no program of the mark and copy kernels leaves the mask *)
(*                 or the buffer (ProgramsFit)                             *)
(*   TokensAgree   every token a call refers to reads as the cache holds   *)
(*                 it now (TokensExact)                                    *)
(*                                                                         *)
(* The buffers are full of old bytes, so the argument follows one call:    *)
(* the marks cover the pages of its tokens, a program that has run leaves  *)
(* its part of a page exact, no other program writes there, and nothing    *)
(* written for one cache is disturbed while the other one is split.  That  *)
(* a part lies where the kernel looks for it is arithmetic: see            *)
(* SourceOfToken, PartOfToken and PartsApart.                              *)
(***************************************************************************)
EXTENDS PageSplit, FiniteSetTheorems, TLAPS

-----------------------------------------------------------------------------
(* The inductive invariant                                                 *)

\* A family of n entries, numbered from 0.
IsBlock(f, n) == n \in Nat /\ f = [i \in 0..(n - 1) |-> f[i]]

StateInv ==
  /\ version = [c \in Caches |-> version[c]]
  /\ \A c \in Caches : version[c] \in [Tokens(c) -> 0..written]
  /\ written \in 0..MaxWrites
  /\ pc \in {"idle", "split", "mark", "copy", "attend"} /\ tag \in Tags

ScratchInv ==
  /\ buffers = [g \in Tags |-> buffers[g]] /\ masks = [g \in Tags |-> masks[g]]
  /\ \A g \in Tags :
       /\ \E n \in Nat :
            /\ IsBlock(buffers[g], n)
            /\ \A i \in 0..(n - 1) : IsBlock(buffers[g][i], DstStride)
       /\ \E n \in Nat : masks[g] \in [0..(n - 1) -> {0, 1}]

\* The caches of a call and the tokens it refers to.
CallInv ==
  pc # "idle" =>
    /\ call.cache \in Primaries /\ ValidIn(call.indices) \subseteq Tokens(call.cache)
    /\ IF call.extra = NoCache THEN call.extraIndices = << >>
       ELSE call.extra \in Extras /\ ValidIn(call.extraIndices) \subseteq Tokens(call.extra)

\* The programs of the copy kernel.
Programs(c) == (0..(Pages[c] - 1)) \X (0..(Ratio(c) - 1))

\* What the kernels of a split find, and which programs have still to run.
KernelInv ==
  /\ pc \in {"mark", "copy"} =>
       /\ IsSplit(tag)
       /\ 0..(Pages[CacheOf(tag)] * Ratio(CacheOf(tag)) - 1) \subseteq DOMAIN buffers[tag]
       /\ IndicesOf(tag) # << >> => 0..(Pages[CacheOf(tag)] - 1) \subseteq DOMAIN masks[tag]
       /\ left \subseteq Programs(CacheOf(tag))
  /\ pc = "mark" => left = Programs(CacheOf(tag))
  /\ pc = "attend" => tag = "extra"

\* What a program writes to its page of the buffer, read back.
PartByte(c, page, sub, a) ==
  IF a < Dst * Data THEN SourceByte(c, page, sub * Dst * Data + a)
  ELSE SourceByte(c, page, PageSize[c] * Data + sub * Dst * Scale + (a - Dst * Data))
PartExact(g, page, sub) ==
  \A a \in 0..(Dst * (Data + Scale) - 1) :
    buffers[g][page * Ratio(CacheOf(g)) + sub][a] = PartByte(CacheOf(g), page, sub, a)

\* The page, and the part of it, that token t of cache c lies in.
PageOf(c, t) == t \div PageSize[c]
PartOf(c, t) == (t % PageSize[c]) \div Dst

\* The pages of the call's tokens are marked before the first program runs.
MarkedInv ==
  pc = "copy" /\ IndicesOf(tag) # << >> =>
    \A t \in ValidIn(IndicesOf(tag)) : masks[tag][PageOf(CacheOf(tag), t)] = 1

\* A program that has run leaves its part exact.
CopiedInv ==
  pc = "copy" =>
    \A program \in Programs(CacheOf(tag)) \ left :
      IndicesOf(tag) = << >> \/ masks[tag][program[1]] = 1
        => PartExact(tag, program[1], program[2])

\* The caches of the call whose split is over.
Finished(g) == pc = "attend" \/ (pc \in {"split", "mark", "copy"} /\ g = "primary" /\ tag = "extra")

FinishedInv ==
  \A g \in Tags :
    Finished(g) /\ IsSplit(g) =>
      \A t \in ValidIn(IndicesOf(g)) :
        PartExact(g, PageOf(CacheOf(g), t), PartOf(CacheOf(g), t))

PInv ==
  /\ StateInv /\ ScratchInv /\ CallInv /\ KernelInv
  /\ MarkedInv /\ CopiedInv /\ FinishedInv

-----------------------------------------------------------------------------
(* Arithmetic                                                              *)

\* Quotient and remainder.
LEMMA Division ==
  ASSUME NEW x \in Nat, NEW n \in Nat \ {0}
  PROVE  x \div n \in Nat /\ x % n \in 0..(n - 1) /\ x = (x \div n) * n + (x % n)
OBVIOUS

\* Products of naturals are naturals.
LEMMA ProductIsNat ==
  ASSUME NEW a \in Nat, NEW b \in Nat
  PROVE  a * b \in Nat
OBVIOUS

\* Multiplication keeps the order.
LEMMA ProductGrows ==
  ASSUME NEW a \in Nat, NEW b \in Nat, NEW n \in Nat, a <= b
  PROVE  a * n <= b * n
<1>1. (b - a) * n \in Nat
  BY ProductIsNat
<1>2. b * n = a * n + (b - a) * n
  OBVIOUS
<1>3. QED
  BY <1>1, <1>2, ProductIsNat

\* They are unique.
LEMMA Quotient ==
  ASSUME NEW q \in Nat, NEW n \in Nat \ {0}, NEW r \in 0..(n - 1)
  PROVE  (q * n + r) \div n = q /\ (q * n + r) % n = r
<1> DEFINE x == q * n + r
<1>1. q * n \in Nat /\ x \in Nat
  BY ProductIsNat
<1>2. x \div n \in Nat /\ x % n \in 0..(n - 1) /\ x = (x \div n) * n + (x % n)
  BY <1>1, Division
<1> HIDE DEF x
<1> DEFINE d == x \div n
           m == x % n
<1>3. d \in Nat /\ m \in 0..(n - 1) /\ x = d * n + m
  BY <1>2
<1>4. x = q * n + r
  BY DEF x
<1> HIDE DEF d, m
<1>5. ~(d < q)
  <2> SUFFICES ASSUME d < q PROVE FALSE
    OBVIOUS
  <2>1. (d + 1) * n <= q * n /\ (d + 1) * n = d * n + n
    BY <1>3, ProductGrows
  <2>2. d * n \in Nat
    BY <1>3, ProductIsNat
  <2>3. QED
    BY <1>1, <1>3, <1>4, <2>1, <2>2
<1>6. ~(q < d)
  <2> SUFFICES ASSUME q < d PROVE FALSE
    OBVIOUS
  <2>1. (q + 1) * n <= d * n /\ (q + 1) * n = q * n + n
    BY <1>3, ProductGrows
  <2>2. d * n \in Nat
    BY <1>3, ProductIsNat
  <2>3. QED
    BY <1>1, <1>3, <1>4, <2>1, <2>2
<1>7. d = q
  BY <1>3, <1>5, <1>6
<1>8. m = r
  BY <1>1, <1>3, <1>4, <1>7
<1>9. QED
  BY <1>7, <1>8 DEF d, m, x

\* An index into q groups of n.
LEMMA Grouped ==
  ASSUME NEW k \in Nat, NEW n \in Nat, NEW q \in 0..(k - 1), NEW r \in 0..(n - 1)
  PROVE  q * n + r \in 0..(k * n - 1)
<1>1. (q + 1) * n <= k * n /\ (q + 1) * n = q * n + n
  BY ProductGrows
<1>2. q * n \in Nat /\ k * n \in Nat
  BY ProductIsNat
<1>3. QED
  BY <1>1, <1>2

\* An index below k groups of n is in one of the k groups.
LEMMA Ungrouped ==
  ASSUME NEW k \in Nat, NEW n \in Nat \ {0}, NEW x \in 0..(k * n - 1)
  PROVE  x \div n \in 0..(k - 1)
<1>1. k * n \in Nat
  BY ProductIsNat
<1>2. x \in Nat
  BY <1>1
<1>3. x \div n \in Nat /\ x % n \in 0..(n - 1) /\ x = (x \div n) * n + (x % n)
  BY <1>2, Division
<1> DEFINE q == x \div n
<1> HIDE DEF q
<1>4. ~(k <= q)
  <2> SUFFICES ASSUME k <= q PROVE FALSE
    OBVIOUS
  <2>1. k * n <= q * n /\ q * n \in Nat
    BY <1>3, ProductGrows, ProductIsNat DEF q
  <2>2. QED
    BY <1>1, <1>3, <2>1 DEF q
<1>5. QED
  BY <1>3, <1>4 DEF q

-----------------------------------------------------------------------------
(* The layout of a page                                                    *)

\* The pages of a cache are whole multiples of the kernel's pages.
LEMMA CacheTypes ==
  ASSUME NEW c \in Caches
  PROVE  /\ Pages[c] \in Nat \ {0} /\ PageSize[c] \in Nat \ {0} /\ Ratio(c) \in Nat \ {0}
         /\ PageSize[c] = Ratio(c) * Dst /\ Dst \in Nat \ {0}
         /\ Data \in Nat \ {0} /\ Scale \in Nat \ {0} /\ DstStride >= Dst * (Data + Scale)
         /\ DstStride \in Nat
<1>1. /\ Pages[c] \in Nat \ {0} /\ PageSize[c] \in Nat \ {0} /\ Dst \in Nat \ {0}
      /\ PageSize[c] % Dst = 0
  BY CachesAssumption, LayoutAssumption
<1>2. /\ PageSize[c] \div Dst \in Nat
      /\ PageSize[c] = (PageSize[c] \div Dst) * Dst + (PageSize[c] % Dst)
  BY <1>1, Division
<1>3. Ratio(c) \in Nat /\ PageSize[c] = Ratio(c) * Dst
  BY <1>1, <1>2, ProductIsNat DEF Ratio
<1>4. Ratio(c) # 0
  BY <1>1, <1>3
<1>5. QED
  BY <1>1, <1>3, <1>4, LayoutAssumption

\* A page of the source holds its tokens where Address says.
LEMMA SourceOfToken ==
  ASSUME NEW c \in Caches, NEW page \in Nat, NEW o \in 0..(PageSize[c] - 1),
         NEW j \in 0..(Data + Scale - 1)
  PROVE  SourceByte(c, page, Address(PageSize[c], o, j)) = Byte(c, page * PageSize[c] + o, j)
<1> DEFINE n == PageSize[c]
           a == Address(n, o, j)
<1>1. n \in Nat \ {0} /\ Data \in Nat \ {0} /\ Scale \in Nat \ {0} /\ o \in 0..(n - 1)
  BY CacheTypes
<1> HIDE DEF n
<1>2. o * Data \in Nat /\ o * Scale \in Nat /\ n * Data \in Nat /\ n * Scale \in Nat
  BY <1>1, ProductIsNat
<1>3. CASE j < Data
  <2>1. a = o * Data + j /\ j \in 0..(Data - 1) /\ o \in Nat
    BY <1>1, <1>3 DEF Address
  <2>2. a \div Data = o /\ a % Data = j
    <3>1. (o * Data + j) \div Data = o /\ (o * Data + j) % Data = j
      BY <1>1, <2>1, Quotient
    <3>2. QED
      BY <2>1, <3>1
  <2>3. a \in 0..(n * Data - 1)
    BY <1>1, <2>1, Grouped
  <2>4. a < n * Data
    BY <1>2, <2>3
  <2>5. QED
    BY <2>2, <2>4 DEF SourceByte, n
<1>4. CASE ~(j < Data)
  <2> DEFINE s == a - n * Data
             k == j - Data
  <2>1. a = n * Data + o * Scale + k /\ k \in 0..(Scale - 1) /\ o \in Nat
    BY <1>1, <1>2, <1>4 DEF Address
  <2>2. s = o * Scale + k /\ Data + k = j
    BY <1>1, <1>2, <2>1
  <2> HIDE DEF s, k
  <2>3. s \div Scale = o /\ s % Scale = k
    <3>1. (o * Scale + k) \div Scale = o /\ (o * Scale + k) % Scale = k
      BY <1>1, <2>1, Quotient
    <3>2. QED
      BY <2>2, <3>1
  <2>4. s \in 0..(n * Scale - 1)
    BY <1>1, <2>1, <2>2, Grouped
  <2>5. s < n * Scale /\ ~(a < n * Data)
    BY <1>1, <1>2, <2>1, <2>2, <2>4
  <2>6. SourceByte(c, page, a) = Byte(c, page * n + (s \div Scale), Data + (s % Scale))
    BY <2>5 DEF SourceByte, n, s
  <2>7. QED
    BY <2>2, <2>3, <2>6 DEF n
<1>5. QED
  BY <1>3, <1>4

\* A part of it, read back as a page of Dst tokens, holds the part's tokens.
LEMMA PartOfToken ==
  ASSUME NEW c \in Caches, NEW page \in Nat, NEW sub \in 0..(Ratio(c) - 1),
         NEW o \in 0..(Dst - 1), NEW j \in 0..(Data + Scale - 1)
  PROVE  LET a == Address(Dst, o, j) IN
         /\ a \in 0..(Dst * (Data + Scale) - 1)
         /\ PartByte(c, page, sub, a) = Byte(c, page * PageSize[c] + (sub * Dst + o), j)
<1> DEFINE a == Address(Dst, o, j)
           whole == sub * Dst + o
<1>1. /\ Dst \in Nat \ {0} /\ Data \in Nat \ {0} /\ Scale \in Nat \ {0}
      /\ Ratio(c) \in Nat \ {0} /\ PageSize[c] = Ratio(c) * Dst
  BY CacheTypes
<1>2. whole \in 0..(PageSize[c] - 1)
  BY <1>1, Grouped
<1>3. /\ Dst * Data \in Nat /\ Dst * Scale \in Nat /\ o * Data \in Nat /\ o * Scale \in Nat
      /\ sub * Dst \in Nat
      /\ Dst * (Data + Scale) = Dst * Data + Dst * Scale
  BY <1>1, ProductIsNat
<1>4. PartByte(c, page, sub, a) = SourceByte(c, page, Address(PageSize[c], whole, j))
      /\ a \in 0..(Dst * (Data + Scale) - 1)
  <2>1. CASE j < Data
    <3>1. a = o * Data + j /\ j \in 0..(Data - 1)
      BY <1>1, <2>1 DEF Address
    <3>2. a \in 0..(Dst * Data - 1)
      BY <1>1, <3>1, Grouped
    <3>3. a < Dst * Data /\ a \in 0..(Dst * (Data + Scale) - 1)
      BY <1>3, <3>2
    <3>4. sub * Dst * Data + a = Address(PageSize[c], whole, j)
      BY <1>1, <1>3, <2>1, <3>1 DEF Address
    <3>5. QED
      BY <3>3, <3>4 DEF PartByte
  <2>2. CASE ~(j < Data)
    <3> DEFINE k == j - Data
    <3>1. a = Dst * Data + o * Scale + k /\ k \in 0..(Scale - 1)
      BY <1>1, <1>3, <2>2 DEF Address
    <3>2. o * Scale + k \in 0..(Dst * Scale - 1)
      BY <1>1, <3>1, Grouped
    <3>3. ~(a < Dst * Data) /\ a \in 0..(Dst * (Data + Scale) - 1)
      BY <1>3, <3>1, <3>2
    <3>4. PageSize[c] * Data + sub * Dst * Scale + (a - Dst * Data)
            = Address(PageSize[c], whole, j)
      BY <1>1, <1>3, <2>2, <3>1 DEF Address
    <3>5. QED
      BY <3>3, <3>4 DEF PartByte
  <2>3. QED
    BY <2>1, <2>2
<1>5. QED
  BY <1>2, <1>4, SourceOfToken

\* Where a token lies: in a page, in a part of the page, at an offset.
LEMMA TokenPlace ==
  ASSUME NEW c \in Caches, NEW t \in Tokens(c)
  PROVE  /\ t \in Nat
         /\ PageOf(c, t) \in 0..(Pages[c] - 1) /\ PartOf(c, t) \in 0..(Ratio(c) - 1)
         /\ t % PageSize[c] \in 0..(PageSize[c] - 1) /\ t % Dst \in 0..(Dst - 1)
         /\ t = PageOf(c, t) * PageSize[c] + (t % PageSize[c])
         /\ t % PageSize[c] = PartOf(c, t) * Dst + (t % Dst)
         /\ t \div Dst = PageOf(c, t) * Ratio(c) + PartOf(c, t)
<1> DEFINE n == PageSize[c]
           r == Ratio(c)
           q == t \div n
           o == t % n
           s == o \div Dst
           u == o % Dst
<1>1. /\ Pages[c] \in Nat \ {0} /\ n \in Nat \ {0} /\ r \in Nat \ {0} /\ n = r * Dst
      /\ Dst \in Nat \ {0}
  BY CacheTypes
<1>2. t \in 0..(Pages[c] * n - 1) /\ t \in Nat
  BY DEF Tokens
<1>3. q \in 0..(Pages[c] - 1)
  BY <1>1, <1>2, Ungrouped
<1>4. o \in 0..(n - 1) /\ t = q * n + o
  BY <1>1, <1>2, Division
<1> HIDE DEF n, r, q, o
<1>5. s \in 0..(r - 1)
  BY <1>1, <1>4, Ungrouped
<1>6. u \in 0..(Dst - 1) /\ o = s * Dst + u
  BY <1>1, <1>4, Division
<1> HIDE DEF s, u
<1>7. t = (q * r + s) * Dst + u /\ q * r + s \in Nat
  BY <1>1, <1>3, <1>4, <1>5, <1>6, ProductIsNat
<1>8. t \div Dst = q * r + s /\ t % Dst = u
  BY <1>1, <1>6, <1>7, Quotient
<1>9. QED
  BY <1>2, <1>3, <1>4, <1>5, <1>6, <1>8 DEF PageOf, PartOf, n, r, q, o, s, u

\* Every program has a page of the buffer of its own.
LEMMA PartsApart ==
  ASSUME NEW c \in Caches, NEW one \in Programs(c), NEW other \in Programs(c)
  PROVE  /\ one[1] * Ratio(c) + one[2] \in 0..(Pages[c] * Ratio(c) - 1)
         /\ one # other => one[1] * Ratio(c) + one[2] # other[1] * Ratio(c) + other[2]
<1> DEFINE r == Ratio(c)
<1>1. Pages[c] \in Nat /\ r \in Nat \ {0}
  BY CacheTypes
<1> HIDE DEF r
<1>2. /\ one[1] \in 0..(Pages[c] - 1) /\ one[2] \in 0..(r - 1) /\ one = <<one[1], one[2]>>
      /\ other[1] \in 0..(Pages[c] - 1) /\ other[2] \in 0..(r - 1)
      /\ other = <<other[1], other[2]>>
  BY DEF Programs, r
<1>3. one[1] * r + one[2] \in 0..(Pages[c] * r - 1)
  BY <1>1, <1>2, Grouped
<1>4. /\ (one[1] * r + one[2]) \div r = one[1] /\ (one[1] * r + one[2]) % r = one[2]
      /\ (other[1] * r + other[2]) \div r = other[1] /\ (other[1] * r + other[2]) % r = other[2]
  BY <1>1, <1>2, Quotient
<1>5. QED
  BY <1>2, <1>3, <1>4 DEF r

-----------------------------------------------------------------------------
(* The scratch buffers                                                     *)

\* The size of a buffer is the number of its entries.
LEMMA BlockSize ==
  ASSUME NEW f, NEW n \in Nat, DOMAIN f = 0..(n - 1)
  PROVE  Size(f) = n
<1>1. Cardinality(0..(n - 1)) = IF 0 > n - 1 THEN 0 ELSE (n - 1) - 0 + 1
  BY FS_Interval
<1>2. QED
  BY <1>1 DEF Size

\* A buffer of at least n entries is the old one or a new one.
LEMMA GrownIs ==
  ASSUME NEW f, NEW size \in Nat, DOMAIN f = 0..(size - 1), NEW n \in Nat, NEW fresh
  PROVE  \/ n <= size /\ Grown(f, n, fresh) = f
         \/ Grown(f, n, fresh) = [i \in 0..(n - 1) |-> fresh]
<1>1. Size(f) = size
  BY BlockSize
<1>2. QED
  BY <1>1 DEF Grown

\* Its pages are whole, and there are enough of them.
LEMMA GrownPages ==
  ASSUME NEW f, NEW n \in Nat,
         \E size \in Nat : IsBlock(f, size) /\ \A i \in 0..(size - 1) : IsBlock(f[i], DstStride)
  PROVE  LET g == Grown(f, n, [a \in 0..(DstStride - 1) |-> Blank]) IN
         \E size \in Nat : /\ IsBlock(g, size) /\ n <= size
                           /\ \A i \in 0..(size - 1) : IsBlock(g[i], DstStride)
<1> DEFINE fresh == [a \in 0..(DstStride - 1) |-> Blank]
           g == Grown(f, n, fresh)
<1> SUFFICES \E size \in Nat : /\ IsBlock(g, size) /\ n <= size
                              /\ \A i \in 0..(size - 1) : IsBlock(g[i], DstStride)
  OBVIOUS
<1>1. PICK size \in Nat :
        IsBlock(f, size) /\ \A i \in 0..(size - 1) : IsBlock(f[i], DstStride)
  OBVIOUS
<1>2. DOMAIN f = 0..(size - 1)
  BY <1>1 DEF IsBlock
<1> HIDE DEF fresh
<1>3. CASE n <= size /\ g = f
  BY <1>1, <1>3
<1>4. CASE g = [i \in 0..(n - 1) |-> fresh]
  <2>1. \A i \in 0..(n - 1) : g[i] = fresh
    BY <1>4
  <2>2. IsBlock(fresh, DstStride)
    BY LayoutAssumption DEF IsBlock, fresh
  <2>3. IsBlock(g, n)
    BY <1>4 DEF IsBlock
  <2> HIDE DEF g
  <2>4. QED
    BY <2>1, <2>2, <2>3
<1>5. \/ n <= size /\ g = f
      \/ g = [i \in 0..(n - 1) |-> fresh]
  BY <1>2, GrownIs
<1>6. QED
  BY <1>3, <1>4, <1>5

\* The mask that a split clears.
LEMMA ClearedMask ==
  ASSUME NEW f, NEW n \in Nat, \E size \in Nat : f \in [0..(size - 1) -> {0, 1}]
  PROVE  \E size \in Nat : Cleared(f, n) \in [0..(size - 1) -> {0, 1}] /\ n <= size
<1>1. PICK size \in Nat : f \in [0..(size - 1) -> {0, 1}]
  OBVIOUS
<1>2. CASE n <= size /\ Grown(f, n, 0) = f
  <2>1. Cleared(f, n) = [i \in 0..(size - 1) |-> IF i < n THEN 0 ELSE f[i]]
    BY <1>1, <1>2 DEF Cleared
  <2>2. QED
    BY <1>1, <1>2, <2>1
<1>3. CASE Grown(f, n, 0) = [i \in 0..(n - 1) |-> 0]
  <2>1. Cleared(f, n) = [i \in 0..(n - 1) |-> IF i < n THEN 0 ELSE f[i]]
    BY <1>3 DEF Cleared
  <2>2. Cleared(f, n) \in [0..(n - 1) -> {0, 1}]
    BY <2>1
  <2>3. QED
    BY <2>2
<1>4. QED
  BY <1>1, <1>2, <1>3, GrownIs

-----------------------------------------------------------------------------
(* What a step leaves alone                                                *)

\* The caches of the call under way.
LEMMA CallTypes ==
  ASSUME CallInv, pc # "idle", NEW g \in Tags
  PROVE  /\ IsSplit(g) => CacheOf(g) \in Caches
         /\ ValidIn(IndicesOf(g)) # {} => CacheOf(g) \in Caches
         /\ \A t \in ValidIn(IndicesOf(g)) : t \in Tokens(CacheOf(g))
<1>1. ValidIn(<< >>) = {}
  BY DEF ValidIn
<1>2. CASE g = "primary"
  BY <1>2 DEF CallInv, CacheOf, IndicesOf, Caches
<1>3. CASE g = "extra" /\ call.extra # NoCache
  BY <1>3 DEF CallInv, CacheOf, IndicesOf, Caches
<1>4. CASE g = "extra" /\ call.extra = NoCache
  BY <1>1, <1>4 DEF CallInv, IndicesOf, IsSplit
<1>5. QED
  BY <1>2, <1>3, <1>4 DEF Tags

\* A part stays exact while the call, the tokens and the buffer stay.
LEMMA ExactStays ==
  ASSUME NEW g, NEW page, NEW sub, UNCHANGED <<version, call>>, buffers'[g] = buffers[g],
         PartExact(g, page, sub)
  PROVE  PartExact(g, page, sub)'
<1>1. CacheOf(g)' = CacheOf(g)
  BY DEF CacheOf
<1>2. \A a : PartByte(CacheOf(g), page, sub, a)' = PartByte(CacheOf(g), page, sub, a)
  BY <1>1 DEF PartByte, SourceByte, Byte
<1>3. QED
  BY <1>1, <1>2 DEF PartExact

\* It becomes exact when its page of the buffer does.
LEMMA ExactNow ==
  ASSUME NEW g, NEW page, NEW sub, UNCHANGED <<version, call>>,
         \A a \in 0..(Dst * (Data + Scale) - 1) :
           buffers'[g][page * Ratio(CacheOf(g)) + sub][a] = PartByte(CacheOf(g), page, sub, a)
  PROVE  PartExact(g, page, sub)'
<1>1. CacheOf(g)' = CacheOf(g)
  BY DEF CacheOf
<1>2. \A a : PartByte(CacheOf(g), page, sub, a)' = PartByte(CacheOf(g), page, sub, a)
  BY <1>1 DEF PartByte, SourceByte, Byte
<1>3. QED
  BY <1>1, <1>2 DEF PartExact, Ratio

\* While a call lasts, its caches and their indices stay.
LEMMA SplitStays ==
  ASSUME UNCHANGED call
  PROVE  \A g : /\ IsSplit(g)' = IsSplit(g) /\ CacheOf(g)' = CacheOf(g)
                /\ IndicesOf(g)' = IndicesOf(g)
BY DEF IsSplit, CacheOf, IndicesOf

-----------------------------------------------------------------------------
(* The initial state and the steps                                         *)

\* The invariant holds before any call.
LEMMA InitKeeps ==
  ASSUME Init
  PROVE  PInv
<1>1. StateInv
  <2>1. \A c \in Caches : version[c] = [t \in Tokens(c) |-> 0]
    BY DEF Init
  <2>2. QED
    BY <2>1, InputsAssumption DEF Init, StateInv, Tags
<1>2. ScratchInv
  <2>1. \A g \in Tags : buffers[g] = << >> /\ masks[g] = << >>
    BY DEF Init
  <2>2. IsBlock(<< >>, 0) /\ << >> \in [0..(0 - 1) -> {0, 1}] /\ 0..(0 - 1) = {} /\ 0 \in Nat
    BY DEF IsBlock
  <2>3. \A i \in 0..(0 - 1) : IsBlock(<< >>[i], DstStride)
    BY <2>2
  <2>4. \A g \in Tags : /\ \E n \in Nat : /\ IsBlock(buffers[g], n)
                                          /\ \A i \in 0..(n - 1) : IsBlock(buffers[g][i], DstStride)
                        /\ \E n \in Nat : masks[g] \in [0..(n - 1) -> {0, 1}]
    BY <2>1, <2>2, <2>3
  <2>5. buffers = [g \in Tags |-> buffers[g]] /\ masks = [g \in Tags |-> masks[g]]
    BY DEF Init
  <2>6. QED
    BY <2>4, <2>5 DEF ScratchInv
<1>3. pc = "idle"
  BY DEF Init
<1>4. CallInv /\ KernelInv /\ MarkedInv /\ CopiedInv /\ FinishedInv
  BY <1>3 DEF CallInv, KernelInv, MarkedInv, CopiedInv, FinishedInv, Finished
<1>5. QED
  BY <1>1, <1>2, <1>4 DEF PInv

\* Between calls nothing is being split.
LEMMA IdleKeeps ==
  ASSUME PInv, pc' = "idle", UNCHANGED <<scratch, tag>>, StateInv'
  PROVE  PInv'
BY DEF PInv, scratch, ScratchInv, CallInv, KernelInv, MarkedInv, CopiedInv, FinishedInv, Finished

\* Writing a token between two calls keeps it: the buffers are not promised anything.
LEMMA WriteKeeps ==
  ASSUME PInv, NEW c \in Caches, NEW t \in Tokens(c), Write(c, t)
  PROVE  PInv'
<1>1. /\ pc' = "idle" /\ UNCHANGED <<scratch, tag>> /\ written' = written + 1
      /\ written \in Nat /\ MaxWrites \in Nat /\ written < MaxWrites
      /\ version' = [version EXCEPT ![c][t] = @ + 1]
  BY InputsAssumption DEF Write, PInv, StateInv
<1>2. version' = [d \in Caches |-> IF d = c THEN [version[c] EXCEPT ![t] = @ + 1] ELSE version[d]]
  BY <1>1 DEF PInv, StateInv
<1>3. \A d \in Caches : version[d] \in [Tokens(d) -> 0..written]
  BY DEF PInv, StateInv
<1>4. ASSUME NEW d \in Caches
      PROVE  version'[d] \in [Tokens(d) -> 0..written']
  <2>1. CASE d = c
    BY <1>1, <1>2, <1>3, <2>1
  <2>2. CASE d # c
    BY <1>1, <1>2, <1>3, <2>2
  <2>3. QED
    BY <2>1, <2>2
<1>5. StateInv'
  <2>1. tag' \in Tags /\ pc' = "idle"
    BY <1>1 DEF PInv, StateInv
  <2>2. version' = [d \in Caches |-> version'[d]]
    BY <1>2
  <2>3. QED
    BY <1>1, <1>4, <2>1, <2>2 DEF StateInv
<1>6. QED
  BY <1>1, <1>5, IdleKeeps

\* A new call has its caches yet to split.
LEMMA BeginKeeps ==
  ASSUME PInv, NEW path, NEW c \in Primaries, NEW idx, NEW xidx, NEW x \in Extras \cup {NoCache},
         Begin(path, c, idx, x, xidx)
  PROVE  PInv'
<1>1. /\ pc' = "split" /\ tag' = "primary" /\ UNCHANGED <<version, scratch, left, written>>
      /\ call'.cache = c /\ call'.indices = idx /\ call'.extra = x /\ call'.extraIndices = xidx
  BY DEF Begin
<1>2. StateInv' /\ ScratchInv'
  BY <1>1 DEF PInv, StateInv, ScratchInv, scratch, Tags
<1>3. CallInv'
  BY <1>1 DEF Begin, CallInv
<1>4. KernelInv' /\ MarkedInv' /\ CopiedInv' /\ FinishedInv'
  BY <1>1 DEF KernelInv, MarkedInv, CopiedInv, FinishedInv, Finished
<1>5. QED
  BY <1>2, <1>3, <1>4 DEF PInv

\* A cache is left behind when its split is over, or when it needs none.
LEMMA OnwardKeeps ==
  ASSUME PInv, Onward, UNCHANGED <<scratch, left>>, pc \in {"split", "copy"},
         IsSplit(tag) =>
           \A t \in ValidIn(IndicesOf(tag)) :
             PartExact(tag, PageOf(CacheOf(tag), t), PartOf(CacheOf(tag), t))
  PROVE  PInv'
<1>1. /\ pc' = IF tag = "primary" THEN "split" ELSE "attend"
      /\ tag' = "extra" /\ UNCHANGED <<version, call, written, buffers, masks>>
      /\ tag \in Tags
  BY DEF Onward, scratch, PInv, StateInv
<1>2. StateInv' /\ ScratchInv' /\ CallInv'
  BY <1>1 DEF PInv, StateInv, ScratchInv, CallInv, Tags
<1>3. KernelInv' /\ MarkedInv' /\ CopiedInv'
  BY <1>1 DEF KernelInv, MarkedInv, CopiedInv
<1>4. FinishedInv'
  <2> SUFFICES ASSUME NEW g \in Tags, Finished(g)', IsSplit(g)', NEW t \in ValidIn(IndicesOf(g))'
               PROVE  PartExact(g, PageOf(CacheOf(g), t), PartOf(CacheOf(g), t))'
    BY DEF FinishedInv
  <2>1. IsSplit(g) /\ CacheOf(g)' = CacheOf(g) /\ t \in ValidIn(IndicesOf(g))
    BY <1>1, SplitStays DEF ValidIn
  <2>2. g = tag \/ Finished(g)
    BY <1>1 DEF Finished, Tags
  <2>3. PartExact(g, PageOf(CacheOf(g), t), PartOf(CacheOf(g), t))
    BY <2>1, <2>2 DEF PInv, FinishedInv
  <2>4. QED
    BY <1>1, <2>1, <2>3, ExactStays DEF PageOf, PartOf
<1>5. QED
  BY <1>2, <1>3, <1>4 DEF PInv

\* Leaving a cache as it is keeps the invariant.
LEMMA SkipKeeps ==
  ASSUME PInv, Skip
  PROVE  PInv'
BY OnwardKeeps DEF Skip

\* When every program has run, every token of the call has been copied.
LEMMA CopiedKeeps ==
  ASSUME PInv, Copied
  PROVE  PInv'
<1>1. pc = "copy" /\ left = {} /\ Onward /\ UNCHANGED <<scratch, left>>
  BY DEF Copied
<1>2. tag \in Tags /\ IsSplit(tag) /\ CacheOf(tag) \in Caches
  BY <1>1, CallTypes DEF PInv, StateInv, KernelInv
<1>3. ASSUME NEW t \in ValidIn(IndicesOf(tag))
      PROVE  PartExact(tag, PageOf(CacheOf(tag), t), PartOf(CacheOf(tag), t))
  <2> DEFINE program == <<PageOf(CacheOf(tag), t), PartOf(CacheOf(tag), t)>>
  <2>1. t \in Tokens(CacheOf(tag))
    BY <1>1, <1>2, CallTypes DEF PInv
  <2>2. program \in Programs(CacheOf(tag)) \ left
    BY <1>1, <1>2, <2>1, TokenPlace DEF Programs
  <2>3. IndicesOf(tag) = << >> \/ masks[tag][program[1]] = 1
    BY <1>1 DEF PInv, MarkedInv
  <2>4. PartExact(tag, program[1], program[2])
    BY <1>1, <2>2, <2>3 DEF PInv, CopiedInv
  <2>5. QED
    BY <2>4
<1>4. QED
  BY <1>1, <1>3, OnwardKeeps

\* The kernel changes no buffer.
LEMMA AttendKeeps ==
  ASSUME PInv, Attend
  PROVE  PInv'
<1>1. StateInv'
  BY DEF PInv, StateInv, Attend
<1>2. QED
  BY <1>1, IdleKeeps DEF Attend

\* While a cache is being split the caches split before it stay exact.
LEMMA FinishedStays ==
  ASSUME PInv, pc \in {"split", "mark", "copy"}, pc' \in {"mark", "copy"},
         UNCHANGED <<version, call, tag>>, \A g \in Tags : g # tag => buffers'[g] = buffers[g]
  PROVE  FinishedInv'
<1> SUFFICES ASSUME NEW g \in Tags, Finished(g)', IsSplit(g)', NEW t \in ValidIn(IndicesOf(g))'
             PROVE  PartExact(g, PageOf(CacheOf(g), t), PartOf(CacheOf(g), t))'
  BY DEF FinishedInv
<1>1. IsSplit(g) /\ CacheOf(g)' = CacheOf(g) /\ t \in ValidIn(IndicesOf(g))
  BY SplitStays DEF ValidIn
<1>2. Finished(g) /\ g # tag
  BY DEF Finished
<1>3. PartExact(g, PageOf(CacheOf(g), t), PartOf(CacheOf(g), t))
  BY <1>1, <1>2 DEF PInv, FinishedInv
<1>4. QED
  BY <1>1, <1>2, <1>3, ExactStays DEF PageOf, PartOf

\* The buffer and the mask are made long enough before the first kernel.
LEMMA PrepareKeeps ==
  ASSUME PInv, Prepare
  PROVE  PInv'
<1> DEFINE c == CacheOf(tag)
           n == Pages[c] * Ratio(c)
           fresh == [a \in 0..(DstStride - 1) |-> Blank]
<1>1. /\ pc = "split" /\ IsSplit(tag) /\ tag \in Tags /\ c \in Caches
      /\ buffers' = [buffers EXCEPT ![tag] = Grown(buffers[tag], n, fresh)]
      /\ masks' = IF IndicesOf(tag) # << >>
                  THEN [masks EXCEPT ![tag] = Cleared(masks[tag], Pages[c])] ELSE masks
      /\ left' = Programs(c) /\ pc' = IF IndicesOf(tag) # << >> THEN "mark" ELSE "copy"
      /\ UNCHANGED <<version, call, tag, written>>
  BY CallTypes DEF Prepare, PInv, StateInv, Buffer, Programs
<1>2. Pages[c] \in Nat /\ n \in Nat
  BY <1>1, CacheTypes, ProductIsNat
<1> HIDE DEF n, fresh
<1>3. StateInv' /\ CallInv'
  BY <1>1 DEF PInv, StateInv, CallInv
<1>4. /\ buffers' = [g \in Tags |-> IF g = tag THEN Grown(buffers[tag], n, fresh) ELSE buffers[g]]
      /\ masks' = [g \in Tags |-> IF g = tag /\ IndicesOf(tag) # << >>
                                  THEN Cleared(masks[tag], Pages[c]) ELSE masks[g]]
  BY <1>1 DEF PInv, ScratchInv
<1>5. \E size \in Nat : /\ IsBlock(buffers'[tag], size) /\ n <= size
                        /\ \A i \in 0..(size - 1) : IsBlock(buffers'[tag][i], DstStride)
  <2>1. buffers'[tag] = Grown(buffers[tag], n, fresh)
    BY <1>1, <1>4
  <2>2. \E size \in Nat : /\ IsBlock(buffers[tag], size)
                          /\ \A i \in 0..(size - 1) : IsBlock(buffers[tag][i], DstStride)
    BY <1>1 DEF PInv, ScratchInv
  <2>3. QED
    BY <1>2, <2>1, <2>2, GrownPages DEF fresh
<1>6. \E size \in Nat : /\ masks'[tag] \in [0..(size - 1) -> {0, 1}]
                        /\ IndicesOf(tag) # << >> => Pages[c] <= size
  <2>1. \E size \in Nat : masks[tag] \in [0..(size - 1) -> {0, 1}]
    BY <1>1 DEF PInv, ScratchInv
  <2>2. CASE IndicesOf(tag) # << >>
    <3>1. masks'[tag] = Cleared(masks[tag], Pages[c])
      BY <1>1, <1>4, <2>2
    <3>2. QED
      BY <1>2, <2>1, <3>1, ClearedMask
  <2>3. CASE IndicesOf(tag) = << >>
    BY <1>1, <1>4, <2>1, <2>3
  <2>4. QED
    BY <2>2, <2>3
<1>7. ScratchInv'
  <2>1. ASSUME NEW g \in Tags
        PROVE  /\ \E size \in Nat : /\ IsBlock(buffers'[g], size)
                                    /\ \A i \in 0..(size - 1) : IsBlock(buffers'[g][i], DstStride)
               /\ \E size \in Nat : masks'[g] \in [0..(size - 1) -> {0, 1}]
    <3>1. CASE g = tag
      BY <1>5, <1>6, <3>1
    <3>2. CASE g # tag
      BY <1>4, <3>2 DEF PInv, ScratchInv
    <3>3. QED
      BY <3>1, <3>2
  <2>2. buffers' = [g \in Tags |-> buffers'[g]] /\ masks' = [g \in Tags |-> masks'[g]]
    BY <1>4
  <2>3. QED
    BY <2>1, <2>2 DEF ScratchInv
<1>8. KernelInv'
  <2>1. 0..(n - 1) \subseteq DOMAIN buffers'[tag]
    <3>1. PICK size \in Nat : IsBlock(buffers'[tag], size) /\ n <= size
      BY <1>5
    <3>2. QED
      BY <1>2, <3>1 DEF IsBlock
  <2>2. IndicesOf(tag) # << >> => 0..(Pages[c] - 1) \subseteq DOMAIN masks'[tag]
    BY <1>2, <1>6
  <2>3. CacheOf(tag)' = c /\ IndicesOf(tag)' = IndicesOf(tag) /\ IsSplit(tag)'
    BY <1>1, SplitStays
  <2>4. left' = Programs(CacheOf(tag))'
    BY <1>1, <2>3 DEF Programs, Ratio
  <2>5. pc' \in {"mark", "copy"}
    BY <1>1
  <2>6. n = (Pages[CacheOf(tag)] * Ratio(CacheOf(tag)))'
    BY <2>3 DEF n, Ratio
  <2>7. QED
    BY <1>1, <2>1, <2>2, <2>3, <2>4, <2>5, <2>6 DEF KernelInv
<1>9. MarkedInv' /\ CopiedInv'
  <2>1. IndicesOf(tag)' = IndicesOf(tag) /\ left' = Programs(CacheOf(tag))'
    BY <1>1, SplitStays DEF Programs, Ratio
  <2>2. QED
    BY <1>1, <2>1 DEF MarkedInv, CopiedInv
<1>10. FinishedInv'
  BY <1>1, <1>4, FinishedStays
<1>11. QED
  BY <1>3, <1>7, <1>8, <1>9, <1>10 DEF PInv

\* The pages of the call's tokens are marked.
LEMMA MarkKeeps ==
  ASSUME PInv, Mark
  PROVE  PInv'
<1> DEFINE c == CacheOf(tag)
           mask == Marked(masks[tag], IndicesOf(tag), PageSize[c])
<1>1. /\ pc = "mark" /\ pc' = "copy" /\ IsSplit(tag) /\ tag \in Tags /\ c \in Caches
      /\ masks' = [masks EXCEPT ![tag] = mask]
      /\ UNCHANGED <<version, buffers, call, tag, left, written>>
  BY CallTypes DEF Mark, PInv, StateInv, KernelInv, Buffer
<1>2. CacheOf(tag)' = c /\ IndicesOf(tag)' = IndicesOf(tag) /\ IsSplit(tag)'
  BY <1>1, SplitStays
<1>3. PICK size \in Nat : masks[tag] \in [0..(size - 1) -> {0, 1}]
  BY <1>1 DEF PInv, ScratchInv
<1>4. /\ mask = [p \in 0..(size - 1) |->
                   IF \E t \in ValidIn(IndicesOf(tag)) : p = PageOf(c, t) THEN 1 ELSE masks[tag][p]]
      /\ DOMAIN mask = DOMAIN masks[tag]
  BY <1>3 DEF Marked, PageOf
<1> HIDE DEF mask
<1>5. mask \in [0..(size - 1) -> {0, 1}]
  BY <1>3, <1>4
<1>6. masks' = [g \in Tags |-> IF g = tag THEN mask ELSE masks[g]]
  BY <1>1 DEF PInv, ScratchInv
<1>7. StateInv' /\ CallInv'
  BY <1>1 DEF PInv, StateInv, CallInv
<1>8. ScratchInv'
  <2>1. \A g \in Tags : \E n \in Nat : masks'[g] \in [0..(n - 1) -> {0, 1}]
    BY <1>5, <1>6 DEF PInv, ScratchInv
  <2>2. masks' = [g \in Tags |-> masks'[g]]
    BY <1>6
  <2>3. QED
    BY <1>1, <2>1, <2>2 DEF PInv, ScratchInv
<1>9. KernelInv' /\ left' = Programs(CacheOf(tag))'
  <2>1. DOMAIN masks'[tag] = DOMAIN masks[tag]
    BY <1>1, <1>4, <1>6
  <2>2. QED
    BY <1>1, <1>2, <2>1 DEF PInv, KernelInv, Programs, Ratio
<1>10. MarkedInv'
  <2> SUFFICES ASSUME IndicesOf(tag) # << >>, NEW t \in ValidIn(IndicesOf(tag))
               PROVE  masks'[tag][PageOf(c, t)] = 1
    BY <1>1, <1>2 DEF MarkedInv, ValidIn, PageOf
  <2>1. t \in Tokens(c)
    BY <1>1, CallTypes DEF PInv
  <2>2. PageOf(c, t) \in 0..(Pages[c] - 1)
    BY <1>1, <2>1, TokenPlace
  <2>3. PageOf(c, t) \in 0..(size - 1)
    BY <1>1, <1>3, <2>2 DEF PInv, KernelInv
  <2>4. QED
    BY <1>1, <1>4, <1>6, <2>3
<1>11. CopiedInv'
  BY <1>9 DEF CopiedInv
<1>12. FinishedInv'
  BY <1>1, FinishedStays
<1>13. QED
  BY <1>7, <1>8, <1>9, <1>10, <1>11, <1>12 DEF PInv

\* A program makes its own part exact and touches no other.
LEMMA CopyKeeps ==
  ASSUME PInv, NEW program \in left, Copy(program[1], program[2])
  PROVE  PInv'
<1> DEFINE c == CacheOf(tag)
           place == program[1] * Ratio(c) + program[2]
           moved == IndicesOf(tag) = << >> \/ masks[tag][program[1]] = 1
           part == Split(buffers[tag][place], c, program[1], program[2])
<1>1. /\ pc = "copy" /\ pc' = "copy" /\ IsSplit(tag) /\ tag \in Tags /\ c \in Caches
      /\ left \subseteq Programs(c)
      /\ left' = left \ {<<program[1], program[2]>>}
      /\ buffers' = IF moved THEN [buffers EXCEPT ![tag][place] = part] ELSE buffers
      /\ UNCHANGED <<version, masks, call, tag, written>>
  BY CallTypes DEF Copy, PInv, StateInv, KernelInv, Buffer
<1>2. program \in Programs(c) /\ program = <<program[1], program[2]>>
  BY <1>1 DEF Programs
<1>3. /\ place \in 0..(Pages[c] * Ratio(c) - 1)
      /\ \A other \in Programs(c) : program # other => place # other[1] * Ratio(c) + other[2]
  BY <1>1, <1>2, PartsApart
<1>4. CacheOf(tag)' = c /\ IndicesOf(tag)' = IndicesOf(tag) /\ IsSplit(tag)'
  BY <1>1, SplitStays
<1> HIDE DEF place, part
<1>5. PICK size \in Nat :
        IsBlock(buffers[tag], size) /\ \A i \in 0..(size - 1) : IsBlock(buffers[tag][i], DstStride)
  BY <1>1 DEF PInv, ScratchInv
<1>6. place \in 0..(size - 1) /\ DOMAIN buffers[tag] = 0..(size - 1)
  BY <1>1, <1>3, <1>5 DEF PInv, KernelInv, IsBlock
<1>7. IsBlock(part, DstStride) /\ \A a \in 0..(Dst * (Data + Scale) - 1) :
                                    part[a] = PartByte(c, program[1], program[2], a)
  <2>1. /\ IsBlock(buffers[tag][place], DstStride) /\ DstStride \in Nat
        /\ Dst * (Data + Scale) <= DstStride /\ Dst * (Data + Scale) \in Nat
    BY <1>1, <1>5, <1>6, CacheTypes, ProductIsNat
  <2> DEFINE n == Dst * (Data + Scale)
  <2>2. /\ DOMAIN part = 0..(DstStride - 1)
        /\ part = [a \in 0..(DstStride - 1) |->
                     IF a < Dst * Data THEN SourceByte(c, program[1], program[2] * Dst * Data + a)
                     ELSE IF a < n
                     THEN SourceByte(c, program[1], PageSize[c] * Data + program[2] * Dst * Scale
                                                      + (a - Dst * Data))
                     ELSE buffers[tag][place][a]]
    BY <2>1 DEF part, Split, IsBlock
  <2> HIDE DEF n
  <2>3. IsBlock(part, DstStride)
    BY <2>1, <2>2 DEF IsBlock
  <2>4. ASSUME NEW a \in 0..(n - 1)
        PROVE  part[a] = PartByte(c, program[1], program[2], a)
    <3>1. a \in 0..(DstStride - 1) /\ a < n
      BY <2>1 DEF n
    <3>2. QED
      BY <2>2, <3>1 DEF PartByte
  <2>5. QED
    BY <2>3, <2>4 DEF n
<1>8. \A g \in Tags : g # tag => buffers'[g] = buffers[g]
  BY <1>1 DEF PInv, ScratchInv
<1>9. /\ ~moved => buffers' = buffers
      /\ moved => /\ buffers' = [g \in Tags |-> IF g = tag THEN [buffers[tag] EXCEPT ![place] = part]
                                                ELSE buffers[g]]
                  /\ buffers'[tag] = [i \in 0..(size - 1) |->
                                        IF i = place THEN part ELSE buffers[tag][i]]
  BY <1>1, <1>6 DEF PInv, ScratchInv
<1> HIDE DEF moved
<1>10. StateInv' /\ CallInv'
  BY <1>1 DEF PInv, StateInv, CallInv
<1>11. ScratchInv' /\ DOMAIN buffers'[tag] = DOMAIN buffers[tag]
  <2>1. CASE ~moved
    BY <1>1, <1>9, <2>1 DEF PInv, ScratchInv
  <2>2. CASE moved
    <3>1. IsBlock(buffers'[tag], size)
      BY <1>9, <2>2 DEF IsBlock
    <3>2. \A i \in 0..(size - 1) : IsBlock(buffers'[tag][i], DstStride)
      BY <1>5, <1>7, <1>9, <2>2
    <3>3. \A g \in Tags : \E n \in Nat : /\ IsBlock(buffers'[g], n)
                                         /\ \A i \in 0..(n - 1) : IsBlock(buffers'[g][i], DstStride)
      BY <1>8, <3>1, <3>2 DEF PInv, ScratchInv
    <3>4. buffers' = [g \in Tags |-> buffers'[g]]
      BY <1>9, <2>2
    <3>5. DOMAIN buffers'[tag] = 0..(size - 1)
      BY <1>9, <2>2
    <3>6. QED
      BY <1>1, <1>6, <3>3, <3>4, <3>5 DEF PInv, ScratchInv
  <2>3. QED
    BY <2>1, <2>2
<1>12. KernelInv'
  BY <1>1, <1>4, <1>11 DEF PInv, KernelInv, Programs, Ratio
<1>13. MarkedInv'
  BY <1>1, <1>4 DEF PInv, MarkedInv, ValidIn, PageOf
<1>14. CopiedInv'
  <2> SUFFICES ASSUME NEW other \in Programs(c) \ left',
                      IndicesOf(tag) = << >> \/ masks[tag][other[1]] = 1
               PROVE  \A a \in 0..(Dst * (Data + Scale) - 1) :
                        buffers'[tag][other[1] * Ratio(c) + other[2]][a]
                          = PartByte(c, other[1], other[2], a)
    <3>1. Programs(CacheOf(tag))' = Programs(c)
      BY <1>4 DEF Programs, Ratio
    <3>2. ASSUME NEW other \in Programs(c) \ left',
                 IndicesOf(tag) = << >> \/ masks[tag][other[1]] = 1
          PROVE  PartExact(tag, other[1], other[2])'
      BY <1>1, <3>2, ExactNow
    <3>3. QED
      BY <1>1, <1>4, <3>1, <3>2 DEF CopiedInv
  <2>1. CASE other = program
    BY <1>3, <1>6, <1>7, <1>9, <2>1 DEF moved, place
  <2>2. CASE other # program
    <3> DEFINE there == other[1] * Ratio(c) + other[2]
    <3>1. other \in Programs(c) \ left
      BY <1>1, <1>2, <2>2
    <3>2. PartExact(tag, other[1], other[2])
      BY <1>1, <3>1 DEF PInv, CopiedInv
    <3>3. there # place /\ there \in 0..(Pages[c] * Ratio(c) - 1)
      BY <1>1, <1>3, <2>2, PartsApart
    <3>4. there \in 0..(size - 1)
      BY <1>1, <1>6, <3>3 DEF PInv, KernelInv
    <3> HIDE DEF there
    <3>5. buffers'[tag][there] = buffers[tag][there]
      BY <1>9, <3>3, <3>4
    <3>6. QED
      BY <3>2, <3>5 DEF PartExact, there
  <2>3. QED
    BY <2>1, <2>2
<1>15. FinishedInv'
  BY <1>1, <1>8, FinishedStays
<1>16. QED
  BY <1>10, <1>11, <1>12, <1>13, <1>14, <1>15 DEF PInv

\* Every step keeps the invariant.
LEMMA NextKeeps ==
  ASSUME PInv, [Next]_vars
  PROVE  PInv'
<1>1. CASE \E c \in Caches : \E t \in Tokens(c) : Write(c, t)
  BY <1>1, WriteKeeps
<1>2. CASE \E path \in {"prefill", "decode", "torch"}, c \in Primaries, idx, xidx \in Indices,
              x \in Extras \cup {NoCache} : Begin(path, c, idx, x, xidx)
  BY <1>2, BeginKeeps
<1>3. CASE \E program \in left : Copy(program[1], program[2])
  BY <1>3, CopyKeeps
<1>4. CASE UNCHANGED vars
  <2>1. StateInv' /\ ScratchInv' /\ CallInv'
    BY <1>4 DEF vars, scratch, PInv, StateInv, ScratchInv, CallInv
  <2>2. KernelInv'
    BY <1>4 DEF vars, scratch, PInv, KernelInv, Programs, Ratio, CacheOf, IndicesOf, IsSplit
  <2>3. MarkedInv'
    BY <1>4 DEF vars, scratch, PInv, MarkedInv, ValidIn, PageOf, CacheOf, IndicesOf
  <2>4. CopiedInv'
    <3>1. /\ UNCHANGED <<version, buffers, masks, pc, call, tag, left>>
          /\ Programs(CacheOf(tag))' = Programs(CacheOf(tag)) /\ IndicesOf(tag)' = IndicesOf(tag)
      BY <1>4, SplitStays DEF vars, scratch, Programs, Ratio
    <3>2. ASSUME NEW program, PartExact(tag, program[1], program[2])
          PROVE  PartExact(tag, program[1], program[2])'
      BY <3>1, <3>2, ExactStays
    <3>3. QED
      BY <3>1, <3>2 DEF PInv, CopiedInv
  <2>5. FinishedInv'
    <3> SUFFICES ASSUME NEW g \in Tags, Finished(g)', IsSplit(g)', NEW t \in ValidIn(IndicesOf(g))'
                 PROVE  PartExact(g, PageOf(CacheOf(g), t), PartOf(CacheOf(g), t))'
      BY DEF FinishedInv
    <3>1. UNCHANGED <<version, buffers, pc, call, tag>>
      BY <1>4 DEF vars, scratch
    <3>2. /\ IsSplit(g) /\ CacheOf(g)' = CacheOf(g) /\ t \in ValidIn(IndicesOf(g))
          /\ Finished(g)
      BY <3>1, SplitStays DEF ValidIn, Finished
    <3>3. PartExact(g, PageOf(CacheOf(g), t), PartOf(CacheOf(g), t))
      BY <3>2 DEF PInv, FinishedInv
    <3>4. QED
      BY <3>1, <3>2, <3>3, ExactStays DEF PageOf, PartOf
  <2>6. QED
    BY <2>1, <2>2, <2>3, <2>4, <2>5 DEF PInv
<1>5. QED
  BY <1>1, <1>2, <1>3, <1>4, SkipKeeps, PrepareKeeps, MarkKeeps, CopiedKeeps, AttendKeeps
     DEF Next, Stopped

\* The invariant of the split holds in every state (flash_mla_sm120.py:462-523).
THEOREM PagesInvariance == Spec => []PInv
<1>1. Init => PInv
  BY InitKeeps
<1>2. PInv /\ [Next]_vars => PInv'
  BY NextKeeps
<1>3. QED
  BY <1>1, <1>2, PTL DEF Spec

-----------------------------------------------------------------------------
(* The properties                                                          *)

\* The types: buffers and masks are whole, every flag is 0 or 1, and tokens
\* are counted within the bound (flash_mla_sm120.py:486-523).
THEOREM PagesTypes == Spec => []TypeOK
<1>1. ASSUME PInv
      PROVE  TypeOK
  <2>1. \A c \in Caches : version[c] \in [Tokens(c) -> 0..MaxWrites]
    <3>1. written \in 0..MaxWrites /\ MaxWrites \in Nat
      BY <1>1, InputsAssumption DEF PInv, StateInv
    <3>2. 0..written \subseteq 0..MaxWrites
      BY <3>1
    <3>3. QED
      BY <1>1, <3>2 DEF PInv, StateInv
  <2>2. ASSUME NEW g \in Tags
        PROVE  /\ DOMAIN buffers[g] = 0..(Size(buffers[g]) - 1)
               /\ masks[g] \in [0..(Size(masks[g]) - 1) -> {0, 1}]
    <3>1. PICK n \in Nat : IsBlock(buffers[g], n)
      BY <1>1 DEF PInv, ScratchInv
    <3>2. DOMAIN buffers[g] = 0..(n - 1)
      BY <3>1 DEF IsBlock
    <3>3. PICK m \in Nat : masks[g] \in [0..(m - 1) -> {0, 1}]
      BY <1>1 DEF PInv, ScratchInv
    <3>4. DOMAIN masks[g] = 0..(m - 1)
      BY <3>3
    <3>5. Size(buffers[g]) = n /\ Size(masks[g]) = m
      BY <3>2, <3>4, BlockSize
    <3>6. QED
      BY <3>2, <3>3, <3>5
  <2>3. QED
    BY <1>1, <2>1, <2>2 DEF PInv, StateInv, TypeOK
<1>2. QED
  BY <1>1, PagesInvariance, PTL

\* A mask or a buffer that holds what a split needs is long enough.
LEMMA LongEnough ==
  ASSUME NEW f, NEW size \in Nat, DOMAIN f = 0..(size - 1), NEW n \in Nat,
         0..(n - 1) \subseteq DOMAIN f
  PROVE  n <= Size(f)
<1>1. Size(f) = size
  BY BlockSize
<1>2. CASE n = 0
  BY <1>1, <1>2
<1>3. CASE n # 0
  <2>1. n - 1 \in 0..(n - 1)
    BY <1>3
  <2>2. n - 1 \in 0..(size - 1)
    BY <2>1
  <2>3. QED
    BY <1>1, <2>2
<1>4. QED
  BY <1>2, <1>3

\* Every program of the mark and copy kernels finds its flag and its page,
\* whatever the caches of earlier calls allocated
\* (flash_mla_sm120.py:486-498 and 515-523).
THEOREM ProgramsStay == Spec => []ProgramsFit
<1>1. ASSUME PInv
      PROVE  ProgramsFit
  <2> SUFFICES ASSUME pc \in {"mark", "copy"}
               PROVE  /\ Pages[CacheOf(tag)] * Ratio(CacheOf(tag)) <= Size(buffers[tag])
                      /\ IndicesOf(tag) # << >> => Pages[CacheOf(tag)] <= Size(masks[tag])
    BY DEF ProgramsFit, Buffer
  <2> DEFINE c == CacheOf(tag)
             n == Pages[c] * Ratio(c)
  <2>1. /\ tag \in Tags /\ c \in Caches /\ 0..(n - 1) \subseteq DOMAIN buffers[tag]
        /\ IndicesOf(tag) # << >> => 0..(Pages[c] - 1) \subseteq DOMAIN masks[tag]
    BY <1>1, CallTypes DEF PInv, StateInv, KernelInv
  <2>2. Pages[c] \in Nat /\ n \in Nat
    BY <2>1, CacheTypes, ProductIsNat
  <2> HIDE DEF n
  <2>3. PICK size \in Nat : DOMAIN buffers[tag] = 0..(size - 1)
    BY <1>1, <2>1 DEF PInv, ScratchInv, IsBlock
  <2>4. PICK length \in Nat : DOMAIN masks[tag] = 0..(length - 1)
    BY <1>1, <2>1 DEF PInv, ScratchInv
  <2>5. n <= Size(buffers[tag])
    BY <2>1, <2>2, <2>3, LongEnough
  <2>6. IndicesOf(tag) # << >> => Pages[c] <= Size(masks[tag])
    BY <2>1, <2>2, <2>4, LongEnough
  <2>7. QED
    BY <2>5, <2>6 DEF n
<1>2. QED
  BY <1>1, PagesInvariance, PTL

\* When the attention kernel runs, every token of the call reads, from the
\* split pages or from the cache itself, what the cache holds now
\* (flash_mla_sm120.py:49-118, 249-256, 416-430 and 462-470).
THEOREM TokensAgree == Spec => []TokensExact
<1>1. ASSUME PInv
      PROVE  TokensExact
  <2> SUFFICES ASSUME pc = "attend", NEW g \in Tags, NEW t \in ValidIn(IndicesOf(g))
               PROVE  (IF IsSplit(g) THEN FromSplit(g, t) ELSE Gathered(CacheOf(g), t))
                        = Content(CacheOf(g), t)
    BY DEF TokensExact, Buffer
  <2> DEFINE c == CacheOf(g)
             bytes == 0..(Data + Scale - 1)
  <2>1. c \in Caches /\ t \in Tokens(c)
    BY <1>1, CallTypes DEF PInv
  <2>2. /\ t \in Nat /\ PageOf(c, t) \in 0..(Pages[c] - 1) /\ PartOf(c, t) \in 0..(Ratio(c) - 1)
        /\ t % PageSize[c] \in 0..(PageSize[c] - 1) /\ t % Dst \in 0..(Dst - 1)
        /\ t = PageOf(c, t) * PageSize[c] + (t % PageSize[c])
        /\ t % PageSize[c] = PartOf(c, t) * Dst + (t % Dst)
        /\ t \div Dst = PageOf(c, t) * Ratio(c) + PartOf(c, t)
    BY <2>1, TokenPlace
  <2>3. Content(c, t) = [j \in bytes |-> Byte(c, t, j)]
    BY DEF Content
  <2> HIDE DEF c
  <2>4. CASE ~IsSplit(g)
    <3>1. ASSUME NEW j \in bytes
          PROVE  SourceByte(c, t \div PageSize[c], Address(PageSize[c], t % PageSize[c], j))
                   = Byte(c, t, j)
      <4>1. SourceByte(c, PageOf(c, t), Address(PageSize[c], t % PageSize[c], j))
              = Byte(c, PageOf(c, t) * PageSize[c] + (t % PageSize[c]), j)
        BY <2>1, <2>2, SourceOfToken
      <4>2. QED
        BY <2>2, <4>1 DEF PageOf
    <3>2. Gathered(c, t) = [j \in bytes |-> Byte(c, t, j)]
      BY <3>1 DEF Gathered
    <3>3. QED
      BY <2>3, <2>4, <3>2 DEF c
  <2>5. CASE IsSplit(g)
    <3>1. PartExact(g, PageOf(c, t), PartOf(c, t))
      BY <1>1, <2>5 DEF PInv, FinishedInv, Finished, c
    <3>2. ASSUME NEW j \in bytes
          PROVE  buffers[g][t \div Dst][Address(Dst, t % Dst, j)] = Byte(c, t, j)
      <4> DEFINE a == Address(Dst, t % Dst, j)
      <4>1. /\ a \in 0..(Dst * (Data + Scale) - 1)
            /\ PartByte(c, PageOf(c, t), PartOf(c, t), a)
                 = Byte(c, PageOf(c, t) * PageSize[c] + (PartOf(c, t) * Dst + (t % Dst)), j)
        BY <2>1, <2>2, PartOfToken
      <4>2. buffers[g][PageOf(c, t) * Ratio(c) + PartOf(c, t)][a]
              = PartByte(c, PageOf(c, t), PartOf(c, t), a)
        BY <3>1, <4>1 DEF PartExact, c
      <4>3. QED
        BY <2>2, <4>1, <4>2
    <3>3. FromSplit(g, t) = [j \in bytes |-> Byte(c, t, j)]
      BY <3>2 DEF FromSplit
    <3>4. QED
      BY <2>3, <2>5, <3>3 DEF c
  <2>6. QED
    BY <2>4, <2>5
<1>2. QED
  BY <1>1, PagesInvariance, PTL

=============================================================================
