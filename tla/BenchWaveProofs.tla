-------------------------- MODULE BenchWaveProofs --------------------------
(***************************************************************************)
(* Proofs about BenchWave, for any waves and any bounds on time, events    *)
(* and tokens.                                                             *)
(***************************************************************************)
EXTENDS BenchWave, FiniteSetTheorems, SequenceTheorems, NaturalsInduction,
        WellFoundedInduction, TLAPS

-----------------------------------------------------------------------------
(* Least and greatest elements, running totals                             *)

\* A set of naturals that is not empty has a least element.
LEMMA LeastElement ==
  ASSUME NEW T, T \subseteq Nat, T # {}
  PROVE  \E x \in T : \A y \in T : x <= y
<1>1. IsWellFoundedOn(OpToRel(<, Nat), Nat)
  BY NatLessThanWellFounded
<1>2. PICK x \in T : \A y \in T : ~(<<y, x>> \in OpToRel(<, Nat))
  BY <1>1, WFMin
<1>3. \A y \in T : ~(y < x)
  BY <1>2 DEF OpToRel
<1>4. QED
  BY <1>3

\* Min is the least element.
LEMMA MinOf ==
  ASSUME NEW S, S \subseteq Nat, S # {}
  PROVE  Min(S) \in S /\ \A x \in S : Min(S) <= x
<1>1. \E x \in S : \A y \in S : x <= y
  BY LeastElement
<1>2. QED
  BY <1>1 DEF Min

\* Max is the greatest element of a set that has a bound.
LEMMA MaxOf ==
  ASSUME NEW S, S \subseteq Int, S # {}, NEW b \in Int, \A x \in S : x <= b
  PROVE  Max(S) \in S /\ \A x \in S : x <= Max(S)
<1> DEFINE T == {b - x : x \in S}
<1>1. T \subseteq Nat /\ T # {}
  <2>1. ASSUME NEW x \in S PROVE b - x \in Nat
    OBVIOUS
  <2>2. QED
    BY <2>1
<1>2. PICK t \in T : \A u \in T : t <= u
  BY <1>1, LeastElement
<1>3. PICK x \in S : t = b - x
  BY <1>2
<1>4. \A y \in S : x >= y
  BY <1>2, <1>3
<1>5. QED
  BY <1>3, <1>4 DEF Max

\* The length of a sequence given as a function.
LEMMA LengthOf ==
  ASSUME NEW S, NEW n \in Nat, NEW s \in [1..n -> S]
  PROVE  s \in Seq(S) /\ Len(s) = n
<1>1. s \in Seq(S)
  BY IsASeq
<1>2. 1..Len(s) = 1..n /\ Len(s) \in Nat
  BY <1>1, LenProperties
<1>3. ASSUME NEW l \in Nat, NEW m \in Nat, 1..l = 1..m PROVE l = m
  <2>1. l < m => m \in 1..m /\ m \notin 1..l
    OBVIOUS
  <2>2. m < l => l \in 1..l /\ l \notin 1..m
    OBVIOUS
  <2>3. QED
    BY <1>3, <2>1, <2>2
<1>4. Len(s) = n
  BY ONLY n \in Nat, <1>2, <1>3
<1>5. QED
  BY <1>1, <1>4

\* What running totals are.
LEMMA TotalsAre ==
  ASSUME NEW values \in Seq(Int)
  PROVE  /\ Totals(values) \in [0..Len(values) -> Int]
         /\ Totals(values)[0] = 0
         /\ \A n \in 1..Len(values) : Totals(values)[n] = Totals(values)[n - 1] + values[n]
<1> DEFINE Adds(g, n) == g = [m \in 0..n |-> IF m = 0 THEN 0 ELSE g[m - 1] + values[m]]
           Bad == {n \in 0..Len(values) : ~\E g \in [0..n -> Int] : Adds(g, n)}
<1>1. Len(values) \in Nat /\ \A n \in 1..Len(values) : values[n] \in Int
  BY ElementOfSeq, LenProperties
<1>2. Bad = {}
  <2>1. SUFFICES ASSUME Bad # {} PROVE FALSE
    OBVIOUS
  <2>2. PICK n \in Bad : \A m \in Bad : n <= m
    <3>1. Bad \subseteq Nat
      BY <1>1
    <3>2. QED
      BY <2>1, <3>1, LeastElement
  <2>3. CASE n = 0
    <3>1. [m \in 0..0 |-> 0] \in [0..0 -> Int] /\ Adds([m \in 0..0 |-> 0], 0)
      OBVIOUS
    <3>2. QED
      BY <2>2, <2>3, <3>1
  <2>4. CASE n # 0
    <3>1. n \in 1..Len(values) /\ n - 1 \in 0..Len(values) /\ n - 1 \notin Bad
      <4>1. n \in 1..Len(values)
        BY <1>1, <2>4
      <4>2. n - 1 \in 0..Len(values) /\ ~(n <= n - 1)
        BY <1>1, <4>1
      <4> HIDE DEF Bad
      <4>3. QED
        BY <2>2, <4>1, <4>2
    <3>2. PICK h \in [0..(n - 1) -> Int] : Adds(h, n - 1)
      BY <3>1
    <3> DEFINE g == [m \in 0..n |-> IF m = 0 THEN 0 ELSE h[m - 1] + values[m]]
    <3>3. g \in [0..n -> Int]
      <4>1. ASSUME NEW m \in 0..n, m # 0 PROVE h[m - 1] + values[m] \in Int
        <5>1. m - 1 \in 0..(n - 1) /\ m \in 1..Len(values)
          BY <1>1, <3>1, <4>1
        <5>2. h[m - 1] \in Int /\ values[m] \in Int
          <6> HIDE DEF Adds
          <6>1. QED
            BY <1>1, <3>2, <5>1
        <5>3. QED
          BY <5>2
      <4>2. QED
        BY <4>1
    <3>4. ASSUME NEW m \in 0..(n - 1) PROVE g[m] = h[m]
      <4>1. m \in 0..n
        BY <3>1
      <4>2. QED
        BY <3>2, <4>1
    <3>5. Adds(g, n)
      <4>1. ASSUME NEW m \in 0..n, m # 0 PROVE g[m - 1] = h[m - 1]
        <5>1. m - 1 \in 0..(n - 1)
          BY <3>1, <4>1
        <5>2. QED
          BY <3>4, <5>1
      <4>2. QED
        BY <4>1
    <3> HIDE DEF g
    <3>6. QED
      BY <2>2, <3>3, <3>5
  <2>5. QED
    BY <2>3, <2>4
<1>3. PICK g \in [0..Len(values) -> Int] : Adds(g, Len(values))
  BY <1>1, <1>2
<1>4. Totals(values) = CHOOSE h : Adds(h, Len(values))
  BY DEF Totals
<1>5. Adds(Totals(values), Len(values))
  BY <1>3, <1>4
<1>6. \A n \in 0..Len(values) : Totals(values)[n] = g[n]
  <2> DEFINE Differs == {n \in 0..Len(values) : Totals(values)[n] # g[n]}
  <2>1. SUFFICES ASSUME Differs # {} PROVE FALSE
    OBVIOUS
  <2>2. PICK n \in Differs : \A m \in Differs : n <= m
    <3>1. Differs \subseteq Nat
      BY <1>1
    <3>2. QED
      BY <2>1, <3>1, LeastElement
  <2>3. n \in 0..Len(values) /\ (n # 0 => n - 1 \in 0..Len(values) /\ ~(n <= n - 1))
    BY <1>1
  <2>4. n # 0 => Totals(values)[n - 1] = g[n - 1]
    BY <2>2, <2>3
  <2>5. Totals(values)[n] = g[n]
    BY <1>3, <1>5, <2>3, <2>4
  <2>6. QED
    BY <2>5
<1>7. Totals(values) = g
  BY <1>3, <1>5, <1>6
<1>8. ASSUME NEW n \in 1..Len(values) PROVE g[n] = g[n - 1] + values[n]
  BY <1>1, <1>3
<1>9. g[0] = 0
  BY <1>1, <1>3
<1>10. QED
  BY <1>3, <1>7, <1>8, <1>9
-----------------------------------------------------------------------------
(* The records                                                             *)

Times == 0..MaxTime
Events == Seq([seconds : Times, count : 0..MaxTokens])
Stream == [status : {"running", "error", "done"}, events : Events,
           first : Times \cup {None}, finished : Times \cup {None}]

\* Counts and times never fall.
Rising(events) ==
  \A j, k \in 1..Len(events) : j < k =>
    events[j].count <= events[k].count /\ events[j].seconds <= events[k].seconds

Until(events, t) == \A k \in 1..Len(events) : events[k].seconds <= t

\* A complete record has a token, and its times are those of its events.
Complete(stream) ==
  /\ Count(stream.events) > 0
  /\ stream.first = At(stream.events, 1)
  /\ stream.finished \in Times /\ Until(stream.events, stream.finished)

RecordsInv ==
  /\ wave \in 1..Len(Waves) /\ now \in Times
  /\ streams \in [1..Waves[wave] -> Stream]
  /\ \A i \in 1..Waves[wave] :
       /\ Rising(streams[i].events) /\ Until(streams[i].events, now)
       /\ streams[i].status = "done" => Complete(streams[i])

PhaseInv ==
  /\ phase \in {"running", "summarised", "raised", "finished"}
  /\ phase = "running" => summary = None
  /\ phase # "running" => \A i \in 1..Waves[wave] : streams[i].status # "running"

WaveInv == RecordsInv /\ PhaseInv

\* An event that does not go back in count or time keeps the record rising.
LEMMA Appended ==
  ASSUME NEW events \in Events, Rising(events), NEW t \in Times, Until(events, t),
         NEW count \in 0..MaxTokens, Count(events) <= count
  PROVE  LET more == Append(events, [seconds |-> t, count |-> count]) IN
         more \in Events /\ Rising(more) /\ Until(more, t)
<1> DEFINE e == [seconds |-> t, count |-> count]
           more == Append(events, e)
           n == Len(events)
<1>1. n \in Nat /\ e \in [seconds : Times, count : 0..MaxTokens]
  BY LenProperties DEF Events
<1>2. /\ more \in Events /\ Len(more) = n + 1 /\ more[n + 1] = e
      /\ \A k \in 1..n : more[k] = events[k]
  BY <1>1, AppendProperties DEF Events
<1>3. \A k \in 1..n : events[k] \in [seconds : Times, count : 0..MaxTokens]
  BY ElementOfSeq DEF Events
<1>4. \A k \in 1..n : events[k].count <= count
  <2>1. SUFFICES ASSUME NEW k \in 1..n PROVE events[k].count <= count
    OBVIOUS
  <2>2. events # << >> /\ n \in 1..n
    BY <1>1, <2>1, EmptySeq DEF Events
  <2>3. events[n].count <= count
    BY <2>2 DEF Count
  <2>4. events[k].count <= events[n].count
    <3>1. CASE k = n
      BY <1>3, <2>2, <3>1
    <3>2. CASE k # n
      BY <1>1, <2>2, <3>2 DEF Rising
    <3>3. QED
      BY <3>1, <3>2
  <2>5. QED
    BY <1>3, <2>2, <2>3, <2>4
<1> HIDE DEF more, n
<1>5. \A k \in 1..(n + 1) : k \in 1..n \/ k = n + 1
  BY <1>1
<1>6. ASSUME NEW j \in 1..(n + 1), NEW k \in 1..(n + 1), j < k
      PROVE  more[j].count <= more[k].count /\ more[j].seconds <= more[k].seconds
  <2>1. j \in 1..n
    BY <1>1, <1>6
  <2>2. CASE k \in 1..n
    BY <1>2, <1>6, <2>1, <2>2 DEF Rising, n
  <2>3. CASE k = n + 1
    BY <1>2, <1>4, <2>1, <2>3 DEF Until, n
  <2>4. QED
    BY <1>5, <2>2, <2>3
<1>7. Rising(more)
  BY <1>2, <1>6 DEF Rising
<1>8. Until(more, t)
  <2>1. \A k \in 1..(n + 1) : more[k].seconds <= t
    BY <1>2, <1>5 DEF Until, n, Times
  <2>2. QED
    BY <1>2, <2>1 DEF Until
<1>9. QED
  BY <1>2, <1>7, <1>8 DEF more

\* The count of a record is a natural number.
LEMMA CountType ==
  ASSUME NEW events \in Events
  PROVE  Count(events) \in 0..MaxTokens
<1>1. events # << >> => Len(events) \in 1..Len(events)
  BY EmptySeq, LenProperties DEF Events
<1>2. events # << >> => events[Len(events)] \in [seconds : Times, count : 0..MaxTokens]
  BY <1>1, ElementOfSeq DEF Events
<1>3. QED
  BY <1>2, BoundsAssumption DEF Count

\* The time of the first event with a token, when there is one.
LEMMA FirstToken ==
  ASSUME NEW events \in Events, Rising(events)
  PROVE  /\ At(events, 1) \in Times \cup {None}
         /\ At(events, 1) # None =>
              /\ Count(events) > 0
              /\ \E k \in 1..Len(events) :
                   /\ At(events, 1) = events[k].seconds
                   /\ events[k].count > 0 /\ \A j \in 1..(k - 1) : events[j].count = 0
<1> DEFINE reached == {k \in DOMAIN events : events[k].count >= 1}
           n == Len(events)
<1>1. n \in Nat /\ DOMAIN events = 1..n
      /\ \A k \in 1..n : events[k] \in [seconds : Times, count : 0..MaxTokens]
  BY LenProperties, ElementOfSeq DEF Events
<1>2. CASE reached = {}
  BY <1>2 DEF At
<1>3. CASE reached # {}
  <2>1. reached \subseteq Nat
    BY <1>1
  <2>2. PICK k \in reached : k = Min(reached) /\ \A j \in reached : k <= j
    BY <1>3, <2>1, MinOf
  <2>3. At(events, 1) = events[k].seconds
    BY <1>3, <2>2 DEF At
  <2>4. k \in 1..n /\ events[k].count >= 1 /\ events[k].count \in Nat
    BY <1>1
  <2>5. ASSUME NEW j \in 1..(k - 1) PROVE events[j].count = 0
    <3>1. j \in 1..n /\ ~(k <= j)
      BY <1>1, <2>4
    <3>2. j \notin reached
      <4> HIDE DEF reached
      <4>1. QED
        BY <2>2, <3>1
    <3>3. events[j].count \in Nat /\ ~(events[j].count >= 1)
      BY <1>1, <3>1, <3>2
    <3>4. QED
      BY <3>3
  <2>6. Count(events) > 0
    <3>1. events # << >> /\ n \in 1..n
      BY <1>1, <2>4, EmptySeq DEF Events
    <3>2. events[k].count <= events[n].count
      BY <1>1, <2>4, <3>1 DEF Rising
    <3>3. events[n].count \in Nat
      BY <1>1, <3>1
    <3>4. QED
      BY <2>4, <3>1, <3>2, <3>3 DEF Count
  <2>7. QED
    BY <1>1, <2>3, <2>4, <2>5, <2>6
<1>4. QED
  BY <1>2, <1>3

\* One record changes in place.
LEMMA SetKeeps ==
  ASSUME WaveInv, NEW i \in DOMAIN streams, streams[i].status = "running",
         NEW stream \in Stream, Set(i, stream),
         Rising(stream.events), Until(stream.events, now),
         stream.status = "done" => Complete(stream)
  PROVE  WaveInv'
<1>1. /\ i \in 1..Waves[wave] /\ phase = "running"
      /\ UNCHANGED <<wave, now, summary, phase>> /\ streams' = [streams EXCEPT ![i] = stream]
  BY DEF WaveInv, RecordsInv, PhaseInv, Set
<1>2. \A j \in 1..Waves[wave] : streams'[j] = IF j = i THEN stream ELSE streams[j]
  BY <1>1 DEF WaveInv, RecordsInv
<1>3. RecordsInv'
  BY <1>1, <1>2 DEF WaveInv, RecordsInv, Rising, Until, Complete
<1>4. PhaseInv'
  BY <1>1 DEF WaveInv, PhaseInv
<1>5. QED
  BY <1>3, <1>4 DEF WaveInv

\* Whatever a stream does keeps the records in order.
LEMMA StreamKeeps ==
  ASSUME WaveInv, NEW i \in DOMAIN streams,
         Breaks(i) \/ End(i) \/ \E count \in 0..MaxTokens : Event(i, count)
  PROVE  WaveInv'
<1> DEFINE s == streams[i]
<1>1. /\ s \in Stream /\ s.events \in Events /\ Rising(s.events) /\ Until(s.events, now)
      /\ now \in Times
  BY DEF WaveInv, RecordsInv, Stream
<1>2. CASE Breaks(i)
  <2>1. [s EXCEPT !.status = "error"] \in Stream
    BY <1>1 DEF Stream
  <2>2. QED
    BY <1>1, <1>2, <2>1, SetKeeps DEF Breaks, Stream
<1>3. CASE End(i)
  <2> DEFINE first == At(s.events, 1)
             t == [s EXCEPT !.status = IF first = None THEN "error" ELSE "done",
                            !.first = first, !.finished = now]
  <2>1. first \in Times \cup {None} /\ (first # None => Count(s.events) > 0)
    BY <1>1, FirstToken
  <2>2. s.status = "running" /\ Set(i, t)
    BY <1>3 DEF End
  <2>3. /\ t \in Stream /\ t.events = s.events /\ t.first = first /\ t.finished = now
        /\ t.status = "done" => first # None
    <3> HIDE DEF first
    <3>1. QED
      BY <1>1, <2>1 DEF Stream
  <2>4. t.status = "done" => Complete(t)
    BY <1>1, <2>1, <2>3 DEF Complete
  <2> HIDE DEF t
  <2>5. QED
    BY <1>1, <2>2, <2>3, <2>4, SetKeeps
<1>4. ASSUME NEW count \in 0..MaxTokens, Event(i, count) PROVE WaveInv'
  <2>1. CASE count < Count(s.events)
    <3>1. [s EXCEPT !.status = "error"] \in Stream
      BY <1>1 DEF Stream
    <3>2. s.status = "running" /\ Set(i, [s EXCEPT !.status = "error"])
      BY <1>4, <2>1 DEF Event
    <3>3. QED
      BY <1>1, <3>1, <3>2, SetKeeps DEF Stream
  <2>2. CASE ~(count < Count(s.events))
    <3> DEFINE more == Append(s.events, [seconds |-> now, count |-> count])
               t == [s EXCEPT !.events = more]
    <3>1. s.status = "running" /\ Set(i, t)
      BY <1>4, <2>2 DEF Event
    <3>2. Count(s.events) \in Nat
      BY <1>1, CountType
    <3>3. more \in Events /\ Rising(more) /\ Until(more, now)
      BY <1>1, <2>2, <3>2, Appended
    <3>4. t \in Stream /\ t.events = more /\ t.status = "running"
      BY <1>1, <3>1, <3>3 DEF Stream
    <3>5. QED
      BY <3>1, <3>3, <3>4, SetKeeps
  <2>3. QED
    BY <2>1, <2>2
<1>5. QED
  BY <1>2, <1>3, <1>4

\* New records are empty.
LEMMA NewRecords ==
  ASSUME NEW w \in 1..Len(Waves)
  PROVE  /\ Records(w) \in [1..Waves[w] -> Stream]
         /\ \A i \in 1..Waves[w] :
              /\ Records(w)[i].status = "running"
              /\ Rising(Records(w)[i].events) /\ Until(Records(w)[i].events, 0)
<1>1. << >> \in Events /\ Len(<< >>) = 0
  BY EmptySeq DEF Events
<1>2. Running \in Stream /\ Rising(Running.events) /\ Until(Running.events, 0)
  BY <1>1 DEF Running, Stream, Rising, Until
<1>3. Running.status = "running"
  BY DEF Running
<1>4. QED
  BY <1>2, <1>3 DEF Records

\* The first wave.
LEMMA WaveInit == Init => WaveInv
<1> SUFFICES ASSUME Init PROVE WaveInv
  OBVIOUS
<1>1. 1 \in 1..Len(Waves)
  BY WavesAssumption, EmptySeq, LenProperties
<1>2. RecordsInv
  BY <1>1, NewRecords, BoundsAssumption DEF Init, RecordsInv, Times
<1>3. QED
  BY <1>2 DEF Init, WaveInv, PhaseInv

\* The records stay in order whatever happens next.
LEMMA WaveStep == WaveInv /\ [Next]_vars => WaveInv'
<1> SUFFICES ASSUME WaveInv, [Next]_vars PROVE WaveInv'
  OBVIOUS
<1>1. ASSUME NEW i \in DOMAIN streams,
             Breaks(i) \/ End(i) \/ \E count \in 0..MaxTokens : Event(i, count)
      PROVE  WaveInv'
  BY <1>1, StreamKeeps
<1>2. CASE Tick
  <2>1. now' \in Times /\ now <= now'
    BY <1>2, BoundsAssumption DEF Tick, WaveInv, RecordsInv, Times
  <2>2. ASSUME NEW i \in 1..Waves[wave] PROVE Until(streams[i].events, now')
    <3>1. streams[i].events \in Events /\ Until(streams[i].events, now) /\ now \in Times
      BY DEF WaveInv, RecordsInv, Stream
    <3>2. ASSUME NEW k \in 1..Len(streams[i].events)
          PROVE  streams[i].events[k].seconds \in Times
      <4>1. streams[i].events[k] \in [seconds : Times, count : 0..MaxTokens]
        BY <3>1, ElementOfSeq DEF Events
      <4>2. QED
        BY <4>1
    <3>3. QED
      BY <2>1, <3>1, <3>2 DEF Until, Times
  <2>3. QED
    BY <1>2, <2>1, <2>2 DEF Tick, WaveInv, RecordsInv, PhaseInv
<1>3. CASE Summarise
  <2>1. /\ phase' \in {"summarised", "raised"} /\ UNCHANGED <<wave, now, streams>>
        /\ \A i \in DOMAIN streams : streams[i].status # "running"
    BY <1>3 DEF Summarise
  <2>2. QED
    BY <2>1 DEF WaveInv, RecordsInv, PhaseInv
<1>4. CASE NextWave
  <2>1. CASE wave < Len(Waves)
    <3>1. /\ wave' = wave + 1 /\ now' = 0 /\ summary' = None /\ phase' = "running"
          /\ streams' = Records(wave + 1)
      BY <1>4, <2>1 DEF NextWave
    <3>2. wave + 1 \in 1..Len(Waves)
      BY <2>1, WavesAssumption, LenProperties DEF WaveInv, RecordsInv
    <3>3. RecordsInv'
      BY <3>1, <3>2, NewRecords, BoundsAssumption DEF RecordsInv, Times
    <3>4. QED
      BY <3>1, <3>3 DEF WaveInv, PhaseInv
  <2>2. CASE ~(wave < Len(Waves))
    BY <1>4, <2>2 DEF NextWave, WaveInv, RecordsInv, PhaseInv
  <2>3. QED
    BY <2>1, <2>2
<1>5. CASE Stopped \/ UNCHANGED vars
  BY <1>5 DEF Stopped, vars, WaveInv, RecordsInv, PhaseInv
<1>6. QED
  BY <1>1, <1>2, <1>3, <1>4, <1>5 DEF Next

\* The records of every wave are in order, and while it runs it has no summary.
THEOREM WaveInvariance == Spec => []WaveInv
  BY WaveInit, WaveStep, PTL DEF Spec
-----------------------------------------------------------------------------
(* What a stream had delivered                                             *)

\* The count of the first k events.
Upto(events, k) == IF k = 0 THEN 0 ELSE events[k].count

\* a is the number of events by time t.
Prefix(events, t, a) ==
  /\ a \in 0..Len(events)
  /\ \A k \in 1..Len(events) : events[k].seconds <= t <=> k <= a

\* What an event is made of.
LEMMA EventType ==
  ASSUME NEW events \in Events
  PROVE  /\ Len(events) \in Nat /\ DOMAIN events = 1..Len(events)
         /\ \A k \in 1..Len(events) :
              events[k].seconds \in Times /\ events[k].count \in 0..MaxTokens
<1>1. Len(events) \in Nat /\ DOMAIN events = 1..Len(events)
  BY LenProperties DEF Events
<1>2. ASSUME NEW k \in 1..Len(events)
      PROVE  events[k] \in [seconds : Times, count : 0..MaxTokens]
  BY ElementOfSeq DEF Events
<1>3. QED
  BY <1>1, <1>2

\* The counts of the prefixes never fall.
LEMMA UptoRises ==
  ASSUME NEW events \in Events, Rising(events)
  PROVE  \A j, k \in 0..Len(events) :
           /\ Upto(events, k) \in 0..MaxTokens
           /\ j <= k => Upto(events, j) <= Upto(events, k)
<1>1. /\ Len(events) \in Nat
      /\ \A k \in 1..Len(events) : events[k].count \in 0..MaxTokens
  BY EventType
<1>2. ASSUME NEW k \in 0..Len(events) PROVE Upto(events, k) \in 0..MaxTokens
  BY <1>1, BoundsAssumption DEF Upto
<1>3. ASSUME NEW j \in 0..Len(events), NEW k \in 0..Len(events), j <= k
      PROVE  Upto(events, j) <= Upto(events, k)
  <2>1. CASE j = 0
    BY <1>2, <2>1, BoundsAssumption DEF Upto
  <2>2. CASE j = k
    BY <1>2, <2>2, BoundsAssumption
  <2>3. CASE j # 0 /\ j < k
    <3>1. j \in 1..Len(events) /\ k \in 1..Len(events) /\ k # 0
      BY <1>1, <2>3
    <3>2. QED
      BY <2>3, <3>1 DEF Upto, Rising
  <2>4. QED
    BY <1>1, <1>3, <2>1, <2>2, <2>3
<1>4. QED
  BY <1>2, <1>3

\* The events by a time are a prefix.
LEMMA PrefixIs ==
  ASSUME NEW events \in Events, Rising(events), NEW t \in Int
  PROVE  \E a \in 0..Len(events) : Prefix(events, t, a)
<1> DEFINE n == Len(events)
           by == {0} \cup {k \in 1..n : events[k].seconds <= t}
<1>1. n \in Nat /\ \A k \in 1..n : events[k].seconds \in Times
  BY EventType
<1>2. by \subseteq 0..n /\ 0 \in by
  BY <1>1
<1>3. Max(by) \in by /\ \A x \in by : x <= Max(by)
  <2>1. by \subseteq Int /\ by # {} /\ n \in Int /\ \A x \in by : x <= n
    BY <1>1, <1>2
  <2> HIDE DEF by
  <2>2. QED
    BY <2>1, MaxOf
<1>4. PICK a \in by : \A x \in by : x <= a
  BY <1>3
<1>5. ASSUME NEW k \in 1..n PROVE events[k].seconds <= t <=> k <= a
  <2>1. events[k].seconds <= t => k <= a
    BY <1>4, <1>5
  <2>2. ASSUME k <= a PROVE events[k].seconds <= t
    <3>1. a \in 1..n /\ events[a].seconds <= t
      BY <1>1, <2>2
    <3>2. k = a \/ events[k].seconds <= events[a].seconds
      BY <1>1, <2>2, <3>1 DEF Rising
    <3>3. QED
      BY <1>1, <3>1, <3>2 DEF Times
  <2>3. QED
    BY <2>1, <2>2
<1>6. QED
  BY <1>2, <1>4, <1>5 DEF Prefix

\* The greatest element is the one that is.
LEMMA MaxIs ==
  ASSUME NEW S, S \subseteq Int, NEW m \in S, \A x \in S : x <= m
  PROVE  Max(S) = m
<1>1. PICK n \in S : n = Max(S) /\ \A x \in S : n >= x
  BY DEF Max
<1>2. m \in Int /\ n \in Int /\ n <= m /\ n >= m
  BY <1>1
<1>3. QED
  BY <1>1, <1>2

\* What a stream holds is the count of its last event by then.
LEMMA HeldIs ==
  ASSUME NEW stream \in Stream, Rising(stream.events), NEW t \in Int,
         NEW a \in 0..Len(stream.events), Prefix(stream.events, t, a)
  PROVE  Held(stream, t) = Upto(stream.events, a)
<1> DEFINE events == stream.events
           n == Len(events)
           counts == {0} \cup {events[k].count : k \in {j \in DOMAIN events : events[j].seconds <= t}}
<1>1. events \in Events
  BY DEF Stream
<1>2. /\ n \in Nat /\ DOMAIN events = 1..n
      /\ \A k \in 1..n : events[k].seconds \in Times /\ events[k].count \in 0..MaxTokens
  BY <1>1, EventType
<1>3. \A k \in 0..n : Upto(events, k) \in 0..MaxTokens /\ (k <= a => Upto(events, k) <= Upto(events, a))
  BY <1>1, UptoRises
<1>4. Upto(events, a) \in counts
  <2>1. CASE a = 0
    BY <2>1 DEF Upto
  <2>2. CASE a # 0
    <3>1. a \in 1..n /\ events[a].seconds <= t
      BY <1>2, <2>2 DEF Prefix
    <3>2. QED
      BY <1>2, <2>2, <3>1 DEF Upto
  <2>3. QED
    BY <2>1, <2>2
<1>5. ASSUME NEW x \in counts PROVE x \in Int /\ x <= Upto(events, a)
  <2>1. CASE x = 0
    BY <1>3, <2>1, BoundsAssumption
  <2>2. CASE x # 0
    <3>1. PICK k \in 1..n : x = events[k].count /\ events[k].seconds <= t
      BY <1>2, <2>2
    <3>2. k <= a /\ k \in 0..n /\ k # 0
      BY <1>2, <3>1 DEF Prefix
    <3>3. x = Upto(events, k)
      BY <3>1, <3>2 DEF Upto
    <3>4. QED
      BY <1>3, <3>2, <3>3, BoundsAssumption
  <2>3. QED
    BY <2>1, <2>2
<1>6. Held(stream, t) = Max(counts)
  BY DEF Held
<1> HIDE DEF counts
<1>7. QED
  BY <1>4, <1>5, <1>6, MaxIs

\* Between bursts the count stands still.
LEMMA Level ==
  ASSUME NEW events \in Events, Rising(events),
         NEW j \in 0..Len(events), NEW k \in 0..Len(events), j <= k,
         \A m \in 1..Len(events) : j < m /\ m <= k => m \notin Bursts(events)
  PROVE  Upto(events, k) = Upto(events, j)
<1> DEFINE Bad == {m \in 0..Len(events) : j <= m /\ m <= k /\ Upto(events, m) # Upto(events, j)}
<1>1. Len(events) \in Nat /\ DOMAIN events = 1..Len(events)
  BY EventType
<1>2. SUFFICES ASSUME Bad # {} PROVE FALSE
  OBVIOUS
<1>3. PICK m \in Bad : \A x \in Bad : m <= x
  <2>1. Bad \subseteq Nat
    BY <1>1
  <2>2. QED
    BY <1>2, <2>1, LeastElement
<1>4. m \in 1..Len(events) /\ j < m /\ m <= k /\ m - 1 \in 0..Len(events)
      /\ j <= m - 1 /\ m - 1 <= k /\ ~(m <= m - 1)
  BY <1>1
<1>5. Upto(events, m - 1) = Upto(events, j)
  BY <1>3, <1>4
<1>6. ~(events[m].count > Previous(events, m))
  BY <1>1, <1>4 DEF Bursts
<1>7. Previous(events, m) = Upto(events, m - 1) /\ events[m].count = Upto(events, m)
  BY <1>4 DEF Previous, Upto
<1>8. /\ Upto(events, m - 1) <= Upto(events, m)
      /\ Upto(events, m - 1) \in Int /\ Upto(events, m) \in Int
  <2>1. m \in 0..Len(events) /\ m - 1 <= m
    OBVIOUS
  <2>2. QED
    BY <1>4, <2>1, UptoRises, BoundsAssumption
<1>9. Upto(events, m) = Upto(events, j)
  BY <1>5, <1>6, <1>7, <1>8
<1>10. QED
  BY <1>9

\* What an event of the window adds to the sum.
Gain(events, begin, end) ==
  [k \in DOMAIN events |->
     IF k \in Bursts(events) /\ begin < events[k].seconds /\ events[k].seconds <= end
     THEN events[k].count - Previous(events, k) ELSE 0]

\* An event of the window adds what the count rises by.
LEMMA GainIs ==
  ASSUME NEW events \in Events, Rising(events), NEW begin \in Int, NEW end \in Int,
         NEW a \in 0..Len(events), Prefix(events, begin, a),
         NEW b \in 0..Len(events), Prefix(events, end, b)
  PROVE  /\ Gain(events, begin, end) \in Seq(Int) /\ Len(Gain(events, begin, end)) = Len(events)
         /\ \A k \in 1..Len(events) :
              Gain(events, begin, end)[k] =
                IF a < k /\ k <= b THEN Upto(events, k) - Upto(events, k - 1) ELSE 0
<1> DEFINE n == Len(events)
           gain == Gain(events, begin, end)
<1>1. /\ n \in Nat /\ DOMAIN events = 1..n
      /\ \A k \in 1..n : events[k].seconds \in Times /\ events[k].count \in 0..MaxTokens
  BY EventType
<1>2. ASSUME NEW k \in 1..n
      PROVE  /\ gain[k] = IF a < k /\ k <= b THEN Upto(events, k) - Upto(events, k - 1) ELSE 0
             /\ gain[k] \in Int
  <2>1. k \in 0..n /\ k - 1 \in 0..n /\ k - 1 <= k /\ k # 0
    BY <1>1
  <2>2. /\ Upto(events, k) \in Int /\ Upto(events, k - 1) \in Int
        /\ Upto(events, k - 1) <= Upto(events, k)
    BY <2>1, UptoRises, BoundsAssumption
  <2>3. Previous(events, k) = Upto(events, k - 1) /\ events[k].count = Upto(events, k)
    BY <2>1 DEF Previous, Upto
  <2>4. begin < events[k].seconds /\ events[k].seconds <= end <=> a < k /\ k <= b
    <3>1. /\ events[k].seconds <= begin <=> k <= a
          /\ events[k].seconds <= end <=> k <= b
      BY DEF Prefix
    <3>2. events[k].seconds \in Int /\ a \in Int /\ k \in Int
      BY <1>1, <2>1 DEF Times
    <3>3. QED
      BY <3>1, <3>2
  <2>5. k \in Bursts(events) <=> Upto(events, k) > Upto(events, k - 1)
    BY <1>1, <2>3 DEF Bursts
  <2>6. gain[k] = IF k \in Bursts(events) /\ a < k /\ k <= b
                  THEN Upto(events, k) - Upto(events, k - 1) ELSE 0
    BY <1>1, <2>3, <2>4 DEF Gain
  <2>7. QED
    BY <2>2, <2>5, <2>6
<1>3. gain = [k \in 1..n |-> gain[k]]
  BY <1>1 DEF Gain
<1>4. gain \in [1..n -> Int]
  <2> HIDE DEF gain, n
  <2>1. QED
    BY <1>2, <1>3
<1>5. gain \in Seq(Int) /\ Len(gain) = n
  <2> HIDE DEF gain
  <2>1. QED
    BY <1>1, <1>4, LengthOf
<1>6. QED
  BY <1>2, <1>5

\* The sum over the window is what the count rises by in it.
LEMMA SharedIs ==
  ASSUME NEW events \in Events, Rising(events), NEW begin \in Int, NEW end \in Int,
         begin <= end,
         NEW a \in 0..Len(events), Prefix(events, begin, a),
         NEW b \in 0..Len(events), Prefix(events, end, b)
  PROVE  Shared(events, begin, end) = Upto(events, b) - Upto(events, a)
<1> DEFINE n == Len(events)
           C(k) == Upto(events, k)
           gain == Gain(events, begin, end)
           total == Totals(gain)
           T(k) == IF k <= a THEN 0 ELSE IF k <= b THEN C(k) - C(a) ELSE C(b) - C(a)
           Bad == {k \in 0..n : total[k] # T(k)}
<1>1. n \in Nat /\ \A k \in 1..n : events[k].seconds \in Times
  BY EventType
<1>2. \A k \in 0..n : C(k) \in Int
  BY UptoRises, BoundsAssumption
<1>3. gain \in Seq(Int) /\ Len(gain) = n
      /\ \A k \in 1..n : gain[k] = IF a < k /\ k <= b THEN C(k) - C(k - 1) ELSE 0
  BY GainIs
<1>4. total[0] = 0 /\ \A k \in 1..n : total[k] = total[k - 1] + gain[k]
  <2> HIDE DEF gain
  <2>1. QED
    BY <1>3, TotalsAre
<1>5. a <= b
  <2>1. CASE a = 0
    BY <1>1, <2>1
  <2>2. CASE a # 0
    <3>1. a \in 1..n /\ events[a].seconds <= begin
      BY <1>1, <2>2 DEF Prefix
    <3>2. events[a].seconds <= end
      BY <1>1, <3>1 DEF Times
    <3>3. QED
      BY <3>1, <3>2 DEF Prefix
  <2>3. QED
    BY <2>1, <2>2
<1>6. Bad = {}
  <2>1. SUFFICES ASSUME Bad # {} PROVE FALSE
    OBVIOUS
  <2>2. PICK k \in Bad : \A x \in Bad : k <= x
    <3>1. Bad \subseteq Nat
      BY <1>1
    <3> HIDE DEF Bad
    <3>2. QED
      BY <2>1, <3>1, LeastElement
  <2>3. k # 0
    BY <1>1, <1>4
  <2>4. k \in 1..n /\ k - 1 \in 0..n /\ ~(k <= k - 1)
    BY <1>1, <2>3
  <2>5. total[k - 1] = T(k - 1)
    BY <2>2, <2>4
  <2>6. total[k] = T(k - 1) + (IF a < k /\ k <= b THEN C(k) - C(k - 1) ELSE 0)
    <3> HIDE DEF T, total, gain
    <3>1. QED
      BY <1>3, <1>4, <2>4, <2>5
  <2>7. C(k) \in Int /\ C(k - 1) \in Int /\ C(a) \in Int /\ C(b) \in Int
    BY <1>2, <2>4
  <2>8. T(k - 1) + (IF a < k /\ k <= b THEN C(k) - C(k - 1) ELSE 0) = T(k)
    <3> HIDE DEF C
    <3>1. CASE k <= a
      <4>1. k - 1 <= a /\ ~(a < k)
        BY <1>1, <2>4, <3>1
      <4>2. QED
        BY <3>1, <4>1
    <3>2. CASE a < k /\ k <= b
      <4>1. k - 1 = a \/ (a < k - 1 /\ k - 1 <= b)
        BY <1>1, <2>4, <3>2
      <4>2. CASE k - 1 = a
        BY <1>1, <2>4, <2>7, <3>2, <4>2
      <4>3. CASE a < k - 1 /\ k - 1 <= b
        BY <1>1, <2>4, <2>7, <3>2, <4>3
      <4>4. QED
        BY <4>1, <4>2, <4>3
    <3>3. CASE ~(k <= a) /\ ~(k <= b)
      <4>1. k - 1 = b \/ b < k - 1
        BY <1>1, <2>4, <3>3
      <4>2. CASE k - 1 = b
        BY <1>1, <1>5, <2>4, <2>7, <3>3, <4>2
      <4>3. CASE b < k - 1
        BY <1>1, <1>5, <2>4, <2>7, <3>3, <4>3
      <4>4. QED
        BY <4>1, <4>2, <4>3
    <3>4. QED
      BY <1>1, <2>4, <3>1, <3>2, <3>3
  <2>9. total[k] = T(k)
    BY <2>6, <2>8
  <2>10. QED
    BY <2>9
<1>7. total[n] = T(n)
  BY <1>1, <1>6
<1>8. T(n) = C(b) - C(a)
  <2>1. C(a) \in Int /\ C(b) \in Int
    BY <1>2
  <2> HIDE DEF C
  <2>2. CASE n <= a
    <3>1. b = a
      BY <1>1, <1>5, <2>2
    <3>2. QED
      BY <2>1, <2>2, <3>1
  <2>3. CASE ~(n <= a)
    <3>1. n <= b => b = n
      BY <1>1
    <3>2. QED
      BY <2>3, <3>1
  <2>4. QED
    BY <2>2, <2>3
<1>9. Shared(events, begin, end) = total[n]
  BY DEF Shared, Gain
<1>10. QED
  BY <1>7, <1>8, <1>9

\* The count of a record is that of all its events.
LEMMA CountIs ==
  ASSUME NEW events \in Events
  PROVE  Count(events) = Upto(events, Len(events))
<1>1. Len(events) \in Nat /\ (events = << >> <=> Len(events) = 0)
  BY LenProperties, EmptySeq DEF Events
<1>2. QED
  BY <1>1 DEF Count, Upto

\* What a burst is.
LEMMA BurstIs ==
  ASSUME NEW events \in Events, Rising(events)
  PROVE  /\ Bursts(events) \subseteq 1..Len(events)
         /\ \A k \in 1..Len(events) :
              k \in Bursts(events) <=> Upto(events, k) > Upto(events, k - 1)
<1>1. Len(events) \in Nat /\ DOMAIN events = 1..Len(events)
  BY EventType
<1>2. ASSUME NEW k \in 1..Len(events)
      PROVE  Previous(events, k) = Upto(events, k - 1) /\ events[k].count = Upto(events, k)
  BY <1>1 DEF Previous, Upto
<1>3. QED
  BY <1>1, <1>2 DEF Bursts

\* A record with a token has a first and a last burst.
LEMMA BurstsAre ==
  ASSUME NEW events \in Events, Rising(events), Count(events) > 0
  PROVE  /\ Min(Bursts(events)) \in Bursts(events)
         /\ \A k \in Bursts(events) : Min(Bursts(events)) <= k
         /\ Max(Bursts(events)) \in Bursts(events)
         /\ \A k \in Bursts(events) : k <= Max(Bursts(events))
<1>1. Len(events) \in Nat /\ Bursts(events) \subseteq 1..Len(events)
  BY EventType, BurstIs
<1>2. Bursts(events) # {}
  <2>1. SUFFICES ASSUME Bursts(events) = {} PROVE FALSE
    OBVIOUS
  <2>2. 0 \in 0..Len(events) /\ Len(events) \in 0..Len(events) /\ 0 <= Len(events)
    BY <1>1
  <2>3. Upto(events, Len(events)) = Upto(events, 0)
    BY <2>1, <2>2, Level
  <2>4. QED
    BY <2>3, CountIs DEF Upto
<1>3. Bursts(events) \subseteq Nat /\ Bursts(events) \subseteq Int
      /\ Len(events) \in Int /\ \A k \in Bursts(events) : k <= Len(events)
  BY <1>1
<1>4. QED
  BY <1>2, <1>3, MinOf, MaxOf

\* A stream holds a token from its first burst on.
LEMMA FirstBurst ==
  ASSUME NEW events \in Events, Rising(events), Count(events) > 0, NEW t \in Int,
         NEW a \in 0..Len(events), Prefix(events, t, a)
  PROVE  Upto(events, a) > 0 <=> t >= events[Min(Bursts(events))].seconds
<1> DEFINE n == Len(events)
<1>1. PICK f \in 1..n : f = Min(Bursts(events)) /\ f \in Bursts(events)
                        /\ \A k \in Bursts(events) : f <= k
  BY BurstsAre, BurstIs
<1>2. n \in Nat /\ events[f].seconds \in Int /\ a \in Int /\ f \in Int
  BY EventType DEF Times
<1>3. \A k \in 0..n : Upto(events, k) \in Nat
  BY UptoRises, BoundsAssumption
<1>4. t >= events[f].seconds <=> f <= a
  BY <1>2 DEF Prefix
<1>5. CASE f <= a
  <2>1. Upto(events, f) > Upto(events, f - 1) /\ f - 1 \in 0..n /\ f \in 0..n
    BY <1>1, <1>2, BurstIs
  <2>2. Upto(events, f) <= Upto(events, a)
    BY <1>5, <2>1, UptoRises
  <2>3. Upto(events, a) > 0
    BY <1>3, <2>1, <2>2
  <2>4. QED
    BY <1>1, <1>4, <1>5, <2>3
<1>6. CASE ~(f <= a)
  <2>1. \A m \in 1..n : 0 < m /\ m <= a => m \notin Bursts(events)
    <3>1. \A m \in 1..n : m <= a => ~(f <= m)
      BY <1>2, <1>6
    <3>2. QED
      BY <1>1, <3>1
  <2>2. 0 \in 0..n /\ 0 <= a
    BY <1>2
  <2>3. Upto(events, a) = Upto(events, 0)
    BY <2>1, <2>2, Level
  <2>4. ~(Upto(events, a) > 0)
    BY <2>3 DEF Upto
  <2>5. QED
    BY <1>1, <1>4, <1>6, <2>4
<1>7. QED
  BY <1>5, <1>6

\* A stream lacks a token until its last burst.
LEMMA LastBurst ==
  ASSUME NEW events \in Events, Rising(events), Count(events) > 0, NEW t \in Int,
         NEW a \in 0..Len(events), Prefix(events, t, a)
  PROVE  Upto(events, a) < Count(events) <=> t < events[Max(Bursts(events))].seconds
<1> DEFINE n == Len(events)
<1>1. PICK l \in 1..n : l = Max(Bursts(events)) /\ l \in Bursts(events)
                        /\ \A k \in Bursts(events) : k <= l
  BY BurstsAre, BurstIs
<1>2. n \in Nat /\ events[l].seconds \in Int /\ a \in Int /\ l \in Int
  BY EventType DEF Times
<1>3. \A k \in 0..n : Upto(events, k) \in Nat
  BY UptoRises, BoundsAssumption
<1>4. t < events[l].seconds <=> a < l
  BY <1>2 DEF Prefix
<1>5. /\ \A m \in 1..n : l < m => m \notin Bursts(events)
      /\ l \in 0..n /\ n \in 0..n /\ l <= n
  <2>1. \A m \in 1..n : l < m => ~(m <= l)
    BY <1>2
  <2>2. l \in 0..n /\ n \in 0..n /\ l <= n
    BY <1>2
  <2>3. QED
    BY <1>1, <2>1, <2>2
<1>6. Count(events) = Upto(events, l)
  BY <1>5, Level, CountIs
<1>7. CASE a < l
  <2>1. Upto(events, l) > Upto(events, l - 1) /\ l - 1 \in 0..n /\ a <= l - 1
    BY <1>1, <1>2, <1>7, BurstIs
  <2>2. Upto(events, a) <= Upto(events, l - 1)
    BY <2>1, UptoRises
  <2>3. Upto(events, a) < Upto(events, l)
    BY <1>3, <1>5, <2>1, <2>2
  <2>4. QED
    BY <1>1, <1>4, <1>6, <1>7, <2>3
<1>8. CASE ~(a < l)
  <2>1. l <= a
    BY <1>2, <1>8
  <2>2. Upto(events, l) <= Upto(events, a)
    BY <1>5, <2>1, UptoRises
  <2>3. ~(Upto(events, a) < Upto(events, l))
    BY <1>3, <1>5, <2>2
  <2>4. QED
    BY <1>1, <1>4, <1>6, <1>8, <2>3
<1>9. QED
  BY <1>7, <1>8
-----------------------------------------------------------------------------
(* The shared window                                                       *)

\* What is known of the streams, and of the complete ones.
LEMMA StreamType ==
  ASSUME RecordsInv
  PROVE  /\ Waves[wave] \in Nat \ {0} /\ DOMAIN streams = 1..Waves[wave]
         /\ Good \subseteq 1..Waves[wave]
         /\ \A i \in 1..Waves[wave] :
              streams[i] \in Stream /\ streams[i].events \in Events /\ Rising(streams[i].events)
         /\ \A i \in Good : Complete(streams[i])
<1>1. Waves[wave] \in Nat \ {0}
  BY WavesAssumption, ElementOfSeq DEF RecordsInv
<1>2. QED
  BY <1>1 DEF RecordsInv, Good, Stream

\* The time at which a stream delivered its first token, and its last.
FirstAt(i) == streams[i].events[Min(Bursts(streams[i].events))].seconds
LastAt(i) == streams[i].events[Max(Bursts(streams[i].events))].seconds

\* A complete stream holds a token from its first burst on, and lacks one
\* until its last.
LEMMA HeldFrom ==
  ASSUME RecordsInv, NEW i \in Good, NEW t \in Int
  PROVE  /\ FirstAt(i) \in Times /\ LastAt(i) \in Times
         /\ Held(streams[i], t) > 0 <=> t >= FirstAt(i)
         /\ Held(streams[i], t) < Count(streams[i].events) <=> t < LastAt(i)
<1> DEFINE events == streams[i].events
<1>1. /\ streams[i] \in Stream /\ events \in Events /\ Rising(events) /\ Count(events) > 0
  BY StreamType DEF Complete
<1>2. PICK a \in 0..Len(events) : Prefix(events, t, a)
  BY <1>1, PrefixIs
<1>3. Held(streams[i], t) = Upto(events, a)
  BY <1>1, <1>2, HeldIs
<1>4. /\ Upto(events, a) > 0 <=> t >= FirstAt(i)
      /\ Upto(events, a) < Count(events) <=> t < LastAt(i)
  BY <1>1, <1>2, FirstBurst, LastBurst DEF FirstAt, LastAt
<1>5. FirstAt(i) \in Times /\ LastAt(i) \in Times
  BY <1>1, BurstsAre, BurstIs, EventType DEF FirstAt, LastAt
<1>6. QED
  BY <1>3, <1>4, <1>5

\* The window opens when the last stream has started and closes when the
\* first one stops.
LEMMA WindowIs ==
  ASSUME RecordsInv, Good = DOMAIN streams
  PROVE  /\ WindowBegin \in Times /\ WindowEnd \in Times
         /\ \A t \in Int :
              /\ t >= WindowBegin <=> \A i \in Good : t >= FirstAt(i)
              /\ t < WindowEnd <=> \A i \in Good : t < LastAt(i)
<1> DEFINE firsts == {FirstAt(i) : i \in Good}
           lasts == {LastAt(i) : i \in Good}
<1>1. 1 \in Good
  BY StreamType
<1>2. \A i \in Good : FirstAt(i) \in Times /\ LastAt(i) \in Times
  BY HeldFrom
<1>3. /\ firsts \subseteq Int /\ firsts # {} /\ \A x \in firsts : x \in Times /\ x <= MaxTime
      /\ lasts \subseteq Nat /\ lasts # {} /\ \A x \in lasts : x \in Times
  BY <1>1, <1>2, BoundsAssumption DEF Times
<1>4. WindowBegin = Max(firsts) /\ WindowEnd = Min(lasts)
  BY DEF WindowBegin, WindowEnd, FirstAt, LastAt
<1>5. /\ WindowBegin \in firsts /\ \A x \in firsts : x <= WindowBegin
      /\ WindowEnd \in lasts /\ \A x \in lasts : WindowEnd <= x
  <2> HIDE DEF firsts, lasts
  <2>1. MaxTime \in Int
    BY BoundsAssumption
  <2>2. QED
    BY <1>3, <1>4, <2>1, MaxOf, MinOf
<1>6. WindowBegin \in Times /\ WindowEnd \in Times
  BY <1>3, <1>5
<1>7. ASSUME NEW t \in Int
      PROVE  t >= WindowBegin <=> \A i \in Good : t >= FirstAt(i)
  BY <1>2, <1>5, <1>6 DEF Times
<1>8. ASSUME NEW t \in Int
      PROVE  t < WindowEnd <=> \A i \in Good : t < LastAt(i)
  BY <1>2, <1>5, <1>6 DEF Times
<1>9. QED
  BY <1>6, <1>7, <1>8

\* What a stream adds in the window is what it held at its end less what it
\* held at its begin.
LEMMA SharedHeld ==
  ASSUME RecordsInv, Good = DOMAIN streams, WindowEnd > WindowBegin, NEW i \in Good
  PROVE  Shared(streams[i].events, WindowBegin, WindowEnd) =
           Held(streams[i], WindowEnd) - Held(streams[i], WindowBegin)
<1> DEFINE events == streams[i].events
<1>1. /\ streams[i] \in Stream /\ events \in Events /\ Rising(events)
  BY StreamType
<1>2. WindowBegin \in Int /\ WindowEnd \in Int /\ WindowBegin <= WindowEnd
  BY WindowIs DEF Times
<1>3. PICK a \in 0..Len(events) : Prefix(events, WindowBegin, a)
  BY <1>1, <1>2, PrefixIs
<1>4. PICK b \in 0..Len(events) : Prefix(events, WindowEnd, b)
  BY <1>1, <1>2, PrefixIs
<1>5. QED
  BY <1>1, <1>2, <1>3, <1>4, HeldIs, SharedIs

\* What a complete wave's summary says of its window.
SharedFor(shared) ==
  /\ \A i \in DOMAIN streams :
       /\ Count(streams[i].events) > 0
       /\ \A j, k \in DOMAIN streams[i].events : j < k =>
            /\ streams[i].events[j].count <= streams[i].events[k].count
            /\ streams[i].events[j].seconds <= streams[i].events[k].seconds
  /\ shared # None =>
       \E begin, end \in 0..MaxTime :
         /\ begin < end
         /\ \A t \in 0..MaxTime :
              /\ t >= begin <=> \A i \in DOMAIN streams : Held(streams[i], t) > 0
              /\ t < end <=> \A i \in DOMAIN streams : Held(streams[i], t) < Count(streams[i].events)
         /\ \A i \in DOMAIN streams :
              shared[i] = Held(streams[i], end) - Held(streams[i], begin)

\* The records of a complete wave.
LEMMA CompleteRecords ==
  ASSUME RecordsInv, Good = DOMAIN streams
  PROVE  \A i \in DOMAIN streams :
           /\ Count(streams[i].events) > 0
           /\ \A j, k \in DOMAIN streams[i].events : j < k =>
                /\ streams[i].events[j].count <= streams[i].events[k].count
                /\ streams[i].events[j].seconds <= streams[i].events[k].seconds
<1>1. SUFFICES ASSUME NEW i \in Good
      PROVE  /\ Count(streams[i].events) > 0
             /\ \A j, k \in DOMAIN streams[i].events : j < k =>
                  /\ streams[i].events[j].count <= streams[i].events[k].count
                  /\ streams[i].events[j].seconds <= streams[i].events[k].seconds
  OBVIOUS
<1>2. streams[i].events \in Events /\ Rising(streams[i].events) /\ Complete(streams[i])
  BY StreamType
<1>3. DOMAIN streams[i].events = 1..Len(streams[i].events)
  BY <1>2, EventType
<1>4. QED
  BY <1>2, <1>3 DEF Rising, Complete

\* The summary of a complete wave is exact.
LEMMA SharedForWindow ==
  ASSUME RecordsInv, Good = DOMAIN streams, NEW shared,
         shared = IF WindowEnd > WindowBegin
                  THEN [i \in Good |-> Shared(streams[i].events, WindowBegin, WindowEnd)]
                  ELSE None
  PROVE  SharedFor(shared)
<1> DEFINE begin == WindowBegin
           end == WindowEnd
<1>1. SUFFICES ASSUME shared # None
      PROVE  \E b, e \in 0..MaxTime :
         /\ b < e
         /\ \A t \in 0..MaxTime :
              /\ t >= b <=> \A i \in DOMAIN streams : Held(streams[i], t) > 0
              /\ t < e <=> \A i \in DOMAIN streams : Held(streams[i], t) < Count(streams[i].events)
         /\ \A i \in DOMAIN streams :
              shared[i] = Held(streams[i], e) - Held(streams[i], b)
  BY CompleteRecords DEF SharedFor
<1>2. end > begin /\ shared = [i \in Good |-> Shared(streams[i].events, begin, end)]
  BY <1>1
<1>3. begin \in 0..MaxTime /\ end \in 0..MaxTime /\ begin < end
  BY <1>2, WindowIs DEF Times
<1>4. ASSUME NEW t \in 0..MaxTime
      PROVE  /\ t >= begin <=> \A i \in DOMAIN streams : Held(streams[i], t) > 0
             /\ t < end <=> \A i \in DOMAIN streams : Held(streams[i], t) < Count(streams[i].events)
  <2>1. t \in Int
    OBVIOUS
  <2>2. \A i \in Good : /\ Held(streams[i], t) > 0 <=> t >= FirstAt(i)
                        /\ Held(streams[i], t) < Count(streams[i].events) <=> t < LastAt(i)
    BY <2>1, HeldFrom
  <2>3. /\ t >= begin <=> \A i \in Good : t >= FirstAt(i)
        /\ t < end <=> \A i \in Good : t < LastAt(i)
    BY <2>1, WindowIs
  <2>4. QED
    BY <2>2, <2>3
<1>5. ASSUME NEW i \in DOMAIN streams
      PROVE  shared[i] = Held(streams[i], end) - Held(streams[i], begin)
  BY <1>2, SharedHeld
<1> HIDE DEF begin, end
<1>6. QED
  BY <1>3, <1>4, <1>5

\* All streams are good when as many are.
LEMMA AllGood ==
  ASSUME RecordsInv
  PROVE  /\ IsFiniteSet(Good) /\ Cardinality(Good) \in Nat /\ Cardinality(Good) <= Waves[wave]
         /\ Cardinality(Good) = Waves[wave] => Good = DOMAIN streams
         /\ Good = DOMAIN streams => Cardinality(Good) = Waves[wave]
<1>1. /\ Waves[wave] \in Nat \ {0} /\ DOMAIN streams = 1..Waves[wave]
      /\ Good \in SUBSET (1..Waves[wave])
  BY StreamType
<1>2. IsFiniteSet(1..Waves[wave]) /\ Cardinality(1..Waves[wave]) = Waves[wave]
  BY <1>1, FS_Interval
<1>3. /\ IsFiniteSet(Good) /\ Cardinality(Good) <= Waves[wave]
      /\ Waves[wave] = Cardinality(Good) => 1..Waves[wave] = Good
  BY <1>1, <1>2, FS_Subset
<1>4. Cardinality(Good) \in Nat
  BY <1>3, FS_CardinalityType
<1>5. QED
  BY <1>1, <1>2, <1>3, <1>4

\* The summary is exact when it is written.
LEMMA SummaryShared ==
  ASSUME WaveInv, Summarise
  PROVE  SharedExact'
<1>1. UNCHANGED <<wave, now, streams>>
  BY DEF Summarise
<1>2. CASE Good = DOMAIN streams
  <2>1. summary'.shared = IF WindowEnd > WindowBegin
                  THEN [i \in Good |-> Shared(streams[i].events, WindowBegin, WindowEnd)]
                  ELSE None
    BY <1>2 DEF Summarise
  <2>2. SharedFor(summary'.shared)
    BY <1>2, <2>1, SharedForWindow DEF WaveInv
  <2>3. QED
    BY <1>1, <2>2 DEF SharedFor, SharedExact
<1>3. CASE Good # DOMAIN streams
  <2>1. summary'.successes = Cardinality(Good)
    BY DEF Summarise
  <2>2. summary'.successes # Waves[wave]
    BY <1>3, <2>1, AllGood DEF WaveInv
  <2>3. QED
    BY <1>1, <2>2 DEF SharedExact
<1>4. QED
  BY <1>2, <1>3

\* Apart from Summarise, a step leaves no summary or leaves summary and
\* records alone.
LEMMA SummaryStays ==
  ASSUME WaveInv, [Next]_vars
  PROVE  Summarise \/ summary' = None \/ UNCHANGED <<wave, streams, summary>>
<1>1. ASSUME NEW i \in DOMAIN streams,
             Breaks(i) \/ End(i) \/ \E count \in 0..MaxTokens : Event(i, count)
      PROVE  summary' = None
  <2>1. i \in 1..Waves[wave] /\ streams[i].status = "running" /\ UNCHANGED summary
    BY <1>1 DEF Breaks, End, Event, Set, WaveInv, RecordsInv
  <2>2. QED
    BY <2>1 DEF WaveInv, PhaseInv
<1>2. CASE Tick
  BY <1>2 DEF Tick
<1>3. CASE NextWave
  BY <1>3 DEF NextWave
<1>4. CASE Stopped \/ UNCHANGED vars
  BY <1>4 DEF Stopped, vars
<1>5. QED
  BY <1>1, <1>2, <1>3, <1>4 DEF Next

\* The window's counts are what each stream delivered between the start of the
\* last one and the end of the first (matrix.py:122-137).
THEOREM SharedCounts == Spec => []SharedExact
<1>1. Init => SharedExact
  BY DEF Init, SharedExact
<1>2. WaveInv /\ SharedExact /\ [Next]_vars => SharedExact'
  <2> SUFFICES ASSUME WaveInv, SharedExact, [Next]_vars PROVE SharedExact'
    OBVIOUS
  <2>1. CASE Summarise
    BY <2>1, SummaryShared
  <2>2. CASE summary' = None
    BY <2>2 DEF SharedExact
  <2>3. CASE UNCHANGED <<wave, streams, summary>>
    BY <2>3 DEF SharedExact
  <2>4. QED
    BY <2>1, <2>2, <2>3, SummaryStays
<1>3. QED
  BY <1>1, <1>2, WaveInvariance, PTL DEF Spec
-----------------------------------------------------------------------------
(* Sorting                                                                 *)

\* f lists S in the order of the ranks.
Lists(f, S, rank) ==
  /\ f \in Bijection(1..Cardinality(S), S)
  /\ \A m, n \in 1..Cardinality(S) : m < n => rank[f[m]] <= rank[f[n]]

\* A finite set can be listed in the order of its ranks.
LEMMA SortedExists ==
  ASSUME NEW S, IsFiniteSet(S), NEW rank \in [S -> Nat],
         NEW top \in Nat, \A s \in S : rank[s] <= top
  PROVE  \E f : Lists(f, S, rank)
<1> DEFINE Bad == {n \in Nat : \E T \in SUBSET S : Cardinality(T) = n /\ ~\E f : Lists(f, T, rank)}
<1>1. SUFFICES ASSUME Bad # {} PROVE FALSE
  <2>1. Cardinality(S) \in Nat /\ S \in SUBSET S
    BY FS_CardinalityType
  <2>2. QED
    BY <1>1, <2>1
<1>2. PICK n \in Bad : \A x \in Bad : n <= x
  <2>1. Bad \subseteq Nat
    OBVIOUS
  <2> HIDE DEF Bad
  <2>2. QED
    BY <1>1, <2>1, LeastElement
<1>3. PICK T \in SUBSET S : Cardinality(T) = n /\ ~\E f : Lists(f, T, rank)
  BY <1>2
<1>4. n \in Nat /\ IsFiniteSet(T) /\ T \subseteq S
  BY <1>2, <1>3, FS_Subset
<1>5. T # {}
  <2>1. SUFFICES ASSUME T = {} PROVE FALSE
    OBVIOUS
  <2>2. Cardinality(T) = 0
    BY <2>1, FS_EmptySet
  <2> DEFINE f == [m \in 1..0 |-> 0]
  <2>3. f \in Bijection(1..0, T)
    BY <2>1 DEF Bijection, Injection, Surjection, IsInjective
  <2>4. Lists(f, T, rank)
    BY <2>2, <2>3 DEF Lists
  <2>5. QED
    BY <1>3, <2>4
<1>6. PICK x \in T : \A y \in T : rank[y] <= rank[x]
  <2> DEFINE ranks == {rank[y] : y \in T}
  <2>1. ranks \subseteq Int /\ ranks # {} /\ top \in Int /\ \A r \in ranks : r <= top
    BY <1>4, <1>5
  <2>2. Max(ranks) \in ranks /\ \A r \in ranks : r <= Max(ranks)
    <3> HIDE DEF ranks
    <3>1. QED
      BY <2>1, MaxOf
  <2>3. QED
    BY <2>2
<1>7. /\ T \ {x} \in SUBSET S /\ Cardinality(T \ {x}) = n - 1 /\ n - 1 \in Nat
  <2>1. IsFiniteSet(T \ {x}) /\ Cardinality(T \ {x}) = n - 1
    BY <1>3, <1>4, <1>6, FS_RemoveElement
  <2>2. n - 1 \in Nat
    BY <2>1, FS_CardinalityType
  <2>3. QED
    BY <1>4, <2>1, <2>2
<1>8. n - 1 \notin Bad
  <2>1. ~(n <= n - 1)
    BY <1>4
  <2> HIDE DEF Bad
  <2>2. QED
    BY <1>2, <2>1
<1>9. PICK g : Lists(g, T \ {x}, rank)
  BY <1>7, <1>8
<1>10. /\ g \in [1..(n - 1) -> T \ {x}]
       /\ \A a, b \in 1..(n - 1) : g[a] = g[b] => a = b
       /\ \A y \in T \ {x} : \E a \in 1..(n - 1) : g[a] = y
       /\ \A a, b \in 1..(n - 1) : a < b => rank[g[a]] <= rank[g[b]]
  BY <1>7, <1>9 DEF Lists, Bijection, Injection, Surjection, IsInjective
<1> DEFINE f == [m \in 1..n |-> IF m = n THEN x ELSE g[m]]
<1>11. \A m \in 1..n : m = n \/ m \in 1..(n - 1)
  BY <1>4
<1>12. /\ n \in 1..n /\ 1..(n - 1) \subseteq 1..n /\ n \notin 1..(n - 1)
  BY <1>4, <1>7
<1>13. /\ f[n] = x /\ \A m \in 1..(n - 1) : f[m] = g[m] /\ f[m] \in T \ {x}
       /\ f \in [1..n -> T]
  BY <1>6, <1>10, <1>11, <1>12
<1> HIDE DEF f
<1>14. ASSUME NEW a \in 1..n, NEW b \in 1..n, f[a] = f[b] PROVE a = b
  BY <1>10, <1>11, <1>13, <1>14
<1>15. ASSUME NEW y \in T PROVE \E a \in 1..n : f[a] = y
  <2>1. CASE y = x
    BY <1>12, <1>13, <2>1
  <2>2. CASE y # x
    BY <1>10, <1>12, <1>13, <2>2
  <2>3. QED
    BY <2>1, <2>2
<1>16. ASSUME NEW a \in 1..n, NEW b \in 1..n, a < b PROVE rank[f[a]] <= rank[f[b]]
  <2>1. a \in 1..(n - 1)
    BY <1>4, <1>16
  <2>2. CASE b = n
    BY <1>6, <1>13, <2>1, <2>2
  <2>3. CASE b # n
    BY <1>10, <1>11, <1>13, <1>16, <2>1, <2>3
  <2>4. QED
    BY <2>2, <2>3
<1>17. f \in Bijection(1..n, T)
  BY <1>13, <1>14, <1>15 DEF Bijection, Injection, Surjection, IsInjective
<1>18. Lists(f, T, rank)
  BY <1>3, <1>16, <1>17 DEF Lists
<1>19. QED
  BY <1>3, <1>18
-----------------------------------------------------------------------------
(* The starts and the ends                                                 *)

\* A record's first token is its first burst.
LEMMA AtIs ==
  ASSUME NEW events \in Events, Rising(events), Count(events) > 0
  PROVE  At(events, 1) = events[Min(Bursts(events))].seconds
<1> DEFINE n == Len(events)
           reached == {k \in DOMAIN events : events[k].count >= 1}
<1>1. PICK f \in 1..n : f = Min(Bursts(events)) /\ f \in Bursts(events)
                        /\ \A k \in Bursts(events) : f <= k
  BY BurstsAre, BurstIs
<1>2. n \in Nat /\ DOMAIN events = 1..n /\ \A k \in 0..n : Upto(events, k) \in Nat
  BY EventType, UptoRises, BoundsAssumption
<1>3. \A k \in 1..n : events[k].count = Upto(events, k)
  BY <1>2 DEF Upto
<1>4. f \in reached
  <2>1. Upto(events, f) > Upto(events, f - 1) /\ f - 1 \in 0..n /\ f \in 0..n
    BY <1>1, <1>2, BurstIs
  <2>2. QED
    BY <1>1, <1>2, <1>3, <2>1
<1>5. ASSUME NEW k \in reached PROVE f <= k
  <2>1. SUFFICES ASSUME k < f PROVE FALSE
    BY <1>2
  <2>2. \A m \in 1..n : 0 < m /\ m <= k => m \notin Bursts(events)
    <3>1. \A m \in 1..n : m <= k => ~(f <= m)
      BY <1>2, <2>1
    <3>2. QED
      BY <1>1, <3>1
  <2>3. 0 \in 0..n /\ k \in 0..n /\ 0 <= k
    BY <1>2
  <2>4. Upto(events, k) = Upto(events, 0)
    BY <2>2, <2>3, Level
  <2>5. QED
    BY <1>2, <1>3, <2>4 DEF Upto
<1>6. reached \subseteq Nat
  BY <1>2
<1>7. Min(reached) = f
  <2> HIDE DEF reached
  <2>1. Min(reached) \in reached /\ \A k \in reached : Min(reached) <= k
    BY <1>4, <1>6, MinOf
  <2>2. Min(reached) \in Nat /\ f \in Nat /\ Min(reached) <= f /\ f <= Min(reached)
    BY <1>4, <1>5, <1>6, <2>1
  <2>3. QED
    BY <2>2
<1>8. QED
  BY <1>1, <1>4, <1>7 DEF At

\* A good stream starts at its first burst and ends after its last one.
LEMMA Bounds ==
  ASSUME RecordsInv, NEW i \in Good
  PROVE  /\ streams[i].first \in Times /\ streams[i].finished \in Times
         /\ streams[i].first = FirstAt(i) /\ LastAt(i) <= streams[i].finished
         /\ streams[i].first <= streams[i].finished
<1> DEFINE events == streams[i].events
<1>1. events \in Events /\ Rising(events) /\ Complete(streams[i])
  BY StreamType
<1>2. streams[i].first = FirstAt(i)
  BY <1>1, AtIs DEF Complete, FirstAt
<1>3. 0 \in Int
  OBVIOUS
<1>4. FirstAt(i) \in Times /\ LastAt(i) \in Times
  BY <1>3, HeldFrom
<1>5. /\ streams[i].finished \in Times
      /\ \A k \in 1..Len(events) : events[k].seconds <= streams[i].finished
  BY <1>1 DEF Complete, Until
<1>6. FirstAt(i) <= streams[i].finished /\ LastAt(i) <= streams[i].finished
  <2>1. Min(Bursts(events)) \in 1..Len(events) /\ Max(Bursts(events)) \in 1..Len(events)
    BY <1>1, BurstsAre, BurstIs DEF Complete
  <2>2. QED
    BY <1>5, <2>1 DEF FirstAt, LastAt
<1>7. QED
  BY <1>2, <1>4, <1>5, <1>6

\* The start and the end of a stream.
Start(i) == [stream |-> i, delta |-> 1]
Stop(i) == [stream |-> i, delta |-> -1]

\* The starts and ends are finitely many.
LEMMA SpansAre ==
  ASSUME RecordsInv
  PROVE  /\ IsFiniteSet(Spans) /\ Cardinality(Spans) \in Nat
         /\ \A i \in Good : /\ Start(i) \in Spans /\ Stop(i) \in Spans /\ Start(i) # Stop(i)
                            /\ Time(Start(i)) = streams[i].first
                            /\ Time(Stop(i)) = streams[i].finished
         /\ \A s \in Spans : \E i \in Good : s = Start(i) \/ s = Stop(i)
<1> DEFINE pairs == Good \X {1, -1}
           make == [p \in pairs |-> [stream |-> p[1], delta |-> p[2]]]
<1>1. IsFiniteSet({1, -1})
  <2>1. {1, -1} = {1} \cup {-1}
    OBVIOUS
  <2>2. IsFiniteSet({1})
    BY FS_Singleton
  <2>3. QED
    BY <2>1, <2>2, FS_AddElement
<1>2. IsFiniteSet(pairs)
  BY <1>1, AllGood, FS_Product
<1>3. make \in Surjection(pairs, Spans)
  <2>1. make \in [pairs -> Spans]
    BY DEF Spans
  <2>2. ASSUME NEW s \in Spans PROVE \E p \in pairs : make[p] = s
    <3>1. <<s.stream, s.delta>> \in pairs /\ s = [stream |-> s.stream, delta |-> s.delta]
      BY DEF Spans
    <3>2. make[<<s.stream, s.delta>>] = s
      BY <3>1
    <3>3. QED
      BY <3>1, <3>2
  <2>3. QED
    BY <2>1, <2>2 DEF Surjection
<1>4. IsFiniteSet(Spans) /\ Cardinality(Spans) \in Nat
  BY <1>2, <1>3, FS_Surjection, FS_CardinalityType
<1>5. ASSUME NEW i \in Good
      PROVE  /\ Start(i) \in Spans /\ Stop(i) \in Spans /\ Start(i) # Stop(i)
             /\ Time(Start(i)) = streams[i].first
             /\ Time(Stop(i)) = streams[i].finished
  <2>1. Start(i).delta = 1 /\ Stop(i).delta = -1 /\ Start(i).stream = i /\ Stop(i).stream = i
    BY DEF Start, Stop
  <2>2. Start(i) \in Spans /\ Stop(i) \in Spans
    BY DEF Spans, Start, Stop
  <2>3. QED
    BY <2>1, <2>2 DEF Time
<1>6. ASSUME NEW s \in Spans PROVE \E i \in Good : s = Start(i) \/ s = Stop(i)
  BY DEF Spans, Start, Stop
<1>7. QED
  BY <1>4, <1>5, <1>6

\* spans lists the starts and ends as the sort does.
InOrder(spans) ==
  /\ spans \in Bijection(1..Cardinality(Spans), Spans)
  /\ \A m, n \in 1..Cardinality(Spans) : m < n => ~Before(spans[n], spans[m])

\* The sorted list exists.
LEMMA SortedIs ==
  ASSUME RecordsInv
  PROVE  InOrder(Sorted) /\ DOMAIN Sorted = 1..Cardinality(Spans)
<1> DEFINE Rank(s) == 2 * Time(s) + (IF s.delta = 1 THEN 1 ELSE 0)
           rank == [s \in Spans |-> Rank(s)]
           N == Cardinality(Spans)
<1>1. ASSUME NEW s \in Spans
      PROVE  Time(s) \in Times /\ s.delta \in {1, -1}
  <2>1. PICK i \in Good : s = Start(i) \/ s = Stop(i)
    BY SpansAre
  <2>2. Time(s) \in Times
    BY <2>1, SpansAre, Bounds
  <2>3. QED
    BY <2>2 DEF Spans
<1>2. /\ rank \in [Spans -> Nat] /\ 2 * MaxTime + 1 \in Nat
      /\ \A s \in Spans : rank[s] <= 2 * MaxTime + 1
  BY <1>1, BoundsAssumption DEF Times
<1>3. \A a, b \in Spans : rank[a] <= rank[b] => ~Before(b, a)
  <2> SUFFICES ASSUME NEW a \in Spans, NEW b \in Spans, rank[a] <= rank[b] PROVE ~Before(b, a)
    OBVIOUS
  <2>1. /\ Time(a) \in Nat /\ Time(b) \in Nat /\ a.delta \in {1, -1} /\ b.delta \in {1, -1}
        /\ Rank(a) <= Rank(b)
    BY <1>1 DEF Times
  <2>2. QED
    BY <2>1 DEF Before
<1>4. PICK f : Lists(f, Spans, rank)
  <2> HIDE DEF rank
  <2>1. QED
    BY <1>2, SpansAre, SortedExists
<1>5. f \in Bijection(1..N, Spans) /\ f \in [1..N -> Spans] /\ DOMAIN f = 1..N
  BY <1>4 DEF Lists, Bijection, Injection
<1>6. \A m, n \in DOMAIN f : m < n => ~Before(f[n], f[m])
  <2> HIDE DEF rank
  <2>1. QED
    BY <1>3, <1>4, <1>5 DEF Lists
<1>7. /\ Sorted \in Bijection(1..N, Spans)
      /\ \A m, n \in DOMAIN Sorted : m < n => ~Before(Sorted[n], Sorted[m])
  BY <1>5, <1>6 DEF Sorted
<1>8. DOMAIN Sorted = 1..N
  BY <1>7 DEF Bijection, Injection
<1>9. QED
  BY <1>7, <1>8 DEF InOrder
-----------------------------------------------------------------------------
(* The running count of active streams                                     *)

\* The streams that start, and that end, within the first n.
Begun(spans, n) == {i \in Good : \E m \in 1..n : spans[m] = Start(i)}
Ended(spans, n) == {i \in Good : \E m \in 1..n : spans[m] = Stop(i)}

\* The list as a sequence of changes.
Deltas(spans) == [n \in DOMAIN spans |-> spans[n].delta]

\* What is in the list.
LEMMA Listed ==
  ASSUME RecordsInv, NEW spans, InOrder(spans)
  PROVE  /\ DOMAIN spans = 1..Cardinality(Spans) /\ Cardinality(Spans) \in Nat
         /\ \A n \in 1..Cardinality(Spans) :
              spans[n] \in Spans /\ \E i \in Good : spans[n] = Start(i) \/ spans[n] = Stop(i)
         /\ \A m, n \in 1..Cardinality(Spans) : spans[m] = spans[n] => m = n
         /\ \A s \in Spans : \E n \in 1..Cardinality(Spans) : spans[n] = s
         /\ \A m, n \in 1..Cardinality(Spans) : m < n => Time(spans[m]) <= Time(spans[n])
         /\ \A s \in Spans : Time(s) \in Times
<1> DEFINE N == Cardinality(Spans)
<1>1. /\ N \in Nat /\ spans \in [1..N -> Spans]
      /\ \A m, n \in 1..N : spans[m] = spans[n] => m = n
      /\ \A s \in Spans : \E n \in 1..N : spans[n] = s
  BY SpansAre DEF InOrder, Bijection, Injection, Surjection, IsInjective
<1>2. ASSUME NEW s \in Spans PROVE Time(s) \in Times
  <2>1. PICK i \in Good : s = Start(i) \/ s = Stop(i)
    BY SpansAre
  <2>2. QED
    BY <2>1, SpansAre, Bounds
<1>3. ASSUME NEW m \in 1..N, NEW n \in 1..N, m < n
      PROVE  Time(spans[m]) <= Time(spans[n])
  <2>1. ~Before(spans[n], spans[m])
    BY <1>3 DEF InOrder
  <2>2. Time(spans[m]) \in Nat /\ Time(spans[n]) \in Nat
    BY <1>1, <1>2 DEF Times
  <2>3. QED
    BY <2>1, <2>2 DEF Before
<1>4. QED
  BY <1>1, <1>2, <1>3, SpansAre

\* The totals run over the changes.
LEMMA Runs ==
  ASSUME RecordsInv, NEW spans, InOrder(spans)
  PROVE  LET total == Totals(Deltas(spans)) IN
         /\ total \in [0..Cardinality(Spans) -> Int] /\ total[0] = 0
         /\ \A n \in 1..Cardinality(Spans) : total[n] = total[n - 1] + spans[n].delta
<1> DEFINE N == Cardinality(Spans)
<1>1. /\ N \in Nat /\ DOMAIN spans = 1..N
      /\ \A n \in 1..N : spans[n] \in Spans
  BY Listed
<1>2. Deltas(spans) \in [1..N -> Int]
  <2>1. \A s \in Spans : s.delta \in Int
    BY DEF Spans
  <2>2. QED
    BY <1>1, <2>1 DEF Deltas
<1>3. Deltas(spans) \in Seq(Int) /\ Len(Deltas(spans)) = N
  BY <1>1, <1>2, LengthOf
<1>4. \A n \in 1..N : Deltas(spans)[n] = spans[n].delta
  BY <1>1 DEF Deltas
<1>5. QED
  BY <1>3, <1>4, TotalsAre

\* The running total is the number of streams begun less those ended.
LEMMA Balance ==
  ASSUME RecordsInv, NEW spans, InOrder(spans)
  PROVE  \A n \in 0..Cardinality(Spans) :
           /\ Totals(Deltas(spans))[n] \in Int
           /\ Totals(Deltas(spans))[n] =
                Cardinality(Begun(spans, n)) - Cardinality(Ended(spans, n))
<1> DEFINE N == Cardinality(Spans)
           total == Totals(Deltas(spans))
           B(n) == Cardinality(Begun(spans, n))
           E(n) == Cardinality(Ended(spans, n))
           Bad == {n \in 0..N : total[n] # B(n) - E(n)}
<1>1. /\ N \in Nat /\ DOMAIN spans = 1..N
      /\ \A n \in 1..N : spans[n] \in Spans /\ \E i \in Good : spans[n] = Start(i) \/ spans[n] = Stop(i)
  BY Listed
<1>4. /\ total \in [0..N -> Int] /\ total[0] = 0
      /\ \A n \in 1..N : total[n] = total[n - 1] + spans[n].delta
  BY Runs
<1>5. \A n : /\ IsFiniteSet(Begun(spans, n)) /\ IsFiniteSet(Ended(spans, n))
             /\ B(n) \in Nat /\ E(n) \in Nat
  <2> TAKE n
  <2>1. IsFiniteSet(Begun(spans, n)) /\ IsFiniteSet(Ended(spans, n))
    <3>1. Begun(spans, n) \in SUBSET Good /\ Ended(spans, n) \in SUBSET Good
      BY DEF Begun, Ended
    <3>2. QED
      BY <3>1, AllGood, FS_Subset
  <2>2. QED
    BY <2>1, FS_CardinalityType
<1>6. B(0) = 0 /\ E(0) = 0
  <2>1. Begun(spans, 0) = {} /\ Ended(spans, 0) = {}
    BY DEF Begun, Ended
  <2>2. QED
    BY <2>1, FS_EmptySet
<1>7. ASSUME NEW n \in 1..N
      PROVE  B(n) - E(n) = B(n - 1) - E(n - 1) + spans[n].delta
  <2>1. n - 1 \in Nat /\ \A m \in 1..n : m \in 1..N /\ (m = n \/ m \in 1..(n - 1))
    BY <1>1
  <2>2. \A m \in 1..(n - 1) : m \in 1..n /\ m \in 1..N /\ m # n
    BY <1>1
  <2>3. PICK i \in Good : spans[n] = Start(i) \/ spans[n] = Stop(i)
    BY <1>1
  <2>4. \A m \in 1..(n - 1) : spans[m] # spans[n]
    BY <2>2, Listed
  <2>5. \A j, k \in Good : Start(j) # Stop(k) /\ (Start(j) = Start(k) => j = k) /\ (Stop(j) = Stop(k) => j = k)
    <3> TAKE j, k \in Good
    <3>1. /\ Start(j).delta = 1 /\ Stop(k).delta = -1 /\ Start(j).stream = j /\ Start(k).stream = k
          /\ Stop(j).stream = j /\ Stop(k).stream = k
      BY DEF Start, Stop
    <3>2. QED
      BY <3>1
  <2>6. n \in 1..n
    BY <1>1
  <2>7. CASE spans[n] = Start(i)
    <3>1. Begun(spans, n) = Begun(spans, n - 1) \cup {i} /\ i \notin Begun(spans, n - 1)
      BY <2>1, <2>2, <2>4, <2>5, <2>6, <2>7 DEF Begun
    <3>2. Ended(spans, n) = Ended(spans, n - 1)
      BY <2>1, <2>2, <2>5, <2>6, <2>7 DEF Ended
    <3>3. B(n) = B(n - 1) + 1
      BY <1>5, <3>1, FS_AddElement
    <3>4. spans[n].delta = 1
      BY <2>7 DEF Start
    <3> HIDE DEF B, E
    <3>5. E(n) = E(n - 1)
      BY <3>2 DEF E
    <3>6. QED
      BY <1>5, <3>3, <3>4, <3>5
  <2>8. CASE spans[n] = Stop(i)
    <3>1. Ended(spans, n) = Ended(spans, n - 1) \cup {i} /\ i \notin Ended(spans, n - 1)
      BY <2>1, <2>2, <2>4, <2>5, <2>6, <2>8 DEF Ended
    <3>2. Begun(spans, n) = Begun(spans, n - 1)
      BY <2>1, <2>2, <2>5, <2>6, <2>8 DEF Begun
    <3>3. E(n) = E(n - 1) + 1
      BY <1>5, <3>1, FS_AddElement
    <3>4. spans[n].delta = -1
      BY <2>8 DEF Stop
    <3> HIDE DEF B, E
    <3>5. B(n) = B(n - 1)
      BY <3>2 DEF B
    <3>6. QED
      BY <1>5, <3>3, <3>4, <3>5
  <2>9. QED
    BY <2>3, <2>7, <2>8
<1> HIDE DEF B, E, total
<1>8. Bad = {}
  <2>1. SUFFICES ASSUME Bad # {} PROVE FALSE
    OBVIOUS
  <2>2. PICK n \in Bad : \A m \in Bad : n <= m
    <3>1. Bad \subseteq Nat
      BY <1>1
    <3> HIDE DEF Bad
    <3>2. QED
      BY <2>1, <3>1, LeastElement
  <2>3. n # 0
    BY <1>4, <1>6
  <2>4. n \in 1..N /\ n - 1 \in 0..N /\ ~(n <= n - 1)
    BY <1>1, <2>3
  <2>5. total[n - 1] = B(n - 1) - E(n - 1)
    BY <2>2, <2>4
  <2>6. total[n] = B(n) - E(n)
    BY <1>4, <1>7, <2>4, <2>5
  <2>7. QED
    BY <2>6
<1>9. \A n \in 0..N : total[n] \in Int /\ total[n] = B(n) - E(n)
  BY <1>4, <1>8
<1>10. QED
  BY <1>9 DEF total, B, E

\* The streams that have emitted tokens and are unfinished.
ActiveAt(t) ==
  {i \in DOMAIN streams : streams[i].status = "done" /\ streams[i].first <= t /\ t < streams[i].finished}
Started(t) == {i \in Good : streams[i].first <= t}
Finished(t) == {i \in Good : streams[i].finished <= t}

\* The active streams are those started less those finished.
LEMMA ActiveIs ==
  ASSUME RecordsInv, NEW t \in Int
  PROVE  /\ IsFiniteSet(Started(t)) /\ IsFiniteSet(Finished(t)) /\ IsFiniteSet(ActiveAt(t))
         /\ Cardinality(Started(t)) \in Nat /\ Cardinality(Finished(t)) \in Nat
         /\ Cardinality(ActiveAt(t)) \in Nat
         /\ Cardinality(ActiveAt(t)) = Cardinality(Started(t)) - Cardinality(Finished(t))
<1>1. ASSUME NEW i \in Good
      PROVE  /\ streams[i].first \in Int /\ streams[i].finished \in Int
             /\ streams[i].first <= streams[i].finished
  BY Bounds DEF Times
<1>2. ActiveAt(t) = Started(t) \ Finished(t)
  <2>1. \A i \in Good : t < streams[i].finished <=> ~(streams[i].finished <= t)
    BY <1>1
  <2>2. QED
    BY <2>1 DEF ActiveAt, Started, Finished, Good
<1>3. Started(t) \cap Finished(t) = Finished(t)
  <2>1. \A i \in Good : streams[i].finished <= t => streams[i].first <= t
    BY <1>1
  <2>2. QED
    BY <2>1 DEF Started, Finished
<1>4. IsFiniteSet(Started(t)) /\ IsFiniteSet(Finished(t))
  <2>1. Started(t) \in SUBSET Good /\ Finished(t) \in SUBSET Good
    BY DEF Started, Finished
  <2>2. QED
    BY <2>1, AllGood, FS_Subset
<1>5. /\ IsFiniteSet(ActiveAt(t))
      /\ Cardinality(ActiveAt(t)) = Cardinality(Started(t)) - Cardinality(Finished(t))
  BY <1>2, <1>3, <1>4, FS_Difference
<1>6. QED
  BY <1>4, <1>5, FS_CardinalityType

\* The running total passes the number active at any time.
LEMMA Reached ==
  ASSUME RecordsInv, NEW spans, InOrder(spans), NEW t \in Int
  PROVE  \E n \in 0..Cardinality(Spans) : Totals(Deltas(spans))[n] = Cardinality(ActiveAt(t))
<1> DEFINE N == Cardinality(Spans)
           by == {0} \cup {n \in 1..N : Time(spans[n]) <= t}
<1>1. /\ N \in Nat
      /\ \A n \in 1..N : spans[n] \in Spans /\ Time(spans[n]) \in Times
      /\ \A m, n \in 1..N : m < n => Time(spans[m]) <= Time(spans[n])
      /\ \A s \in Spans : \E n \in 1..N : spans[n] = s
  BY Listed
<1>2. by \subseteq 0..N /\ 0 \in by
  BY <1>1
<1>3. PICK n \in by : \A x \in by : x <= n
  <2>1. by \subseteq Int /\ by # {} /\ N \in Int /\ \A x \in by : x <= N
    BY <1>1, <1>2
  <2> HIDE DEF by
  <2>2. QED
    BY <2>1, MaxOf
<1>4. ASSUME NEW m \in 1..N PROVE Time(spans[m]) <= t <=> m \in 1..n
  <2>1. Time(spans[m]) <= t => m <= n
    BY <1>3, <1>4
  <2>2. ASSUME m <= n PROVE Time(spans[m]) <= t
    <3>1. n \in 1..N /\ Time(spans[n]) <= t
      BY <1>1, <2>2
    <3>2. m = n \/ Time(spans[m]) <= Time(spans[n])
      BY <1>1, <2>2, <3>1
    <3>3. QED
      BY <1>1, <3>1, <3>2 DEF Times
  <2>3. QED
    BY <1>1, <1>2, <2>1, <2>2
<1>5. n \in 0..N /\ 1..n \subseteq 1..N
  BY <1>1, <1>2
<1>6. ASSUME NEW s \in Spans PROVE Time(s) <= t <=> \E m \in 1..n : spans[m] = s
  <2>1. PICK m \in 1..N : spans[m] = s
    BY <1>1
  <2>2. QED
    BY <1>4, <1>5, <2>1
<1>7. Begun(spans, n) = Started(t) /\ Ended(spans, n) = Finished(t)
  <2>1. ASSUME NEW i \in Good
        PROVE  /\ streams[i].first <= t <=> \E m \in 1..n : spans[m] = Start(i)
               /\ streams[i].finished <= t <=> \E m \in 1..n : spans[m] = Stop(i)
    BY <1>6, SpansAre
  <2>2. QED
    BY <2>1 DEF Begun, Ended, Started, Finished
<1>8. QED
  BY <1>5, <1>7, Balance, ActiveIs

\* The running total never exceeds the number active at some time.
LEMMA Bounded ==
  ASSUME RecordsInv, NEW spans, InOrder(spans), NEW n \in 0..Cardinality(Spans)
  PROVE  \E t \in Times : Totals(Deltas(spans))[n] <= Cardinality(ActiveAt(t))
<1> DEFINE N == Cardinality(Spans)
           total == Totals(Deltas(spans))
           high == {m \in 0..N : total[m] >= total[n]}
<1>1. /\ N \in Nat
      /\ \A m \in 1..N : spans[m] \in Spans /\ \E i \in Good : spans[m] = Start(i) \/ spans[m] = Stop(i)
      /\ \A m, k \in 1..N : m < k => Time(spans[m]) <= Time(spans[k])
      /\ \A s \in Spans : Time(s) \in Times /\ \E m \in 1..N : spans[m] = s
  BY Listed
<1>2. \A m \in 0..N : /\ total[m] \in Int
                      /\ total[m] = Cardinality(Begun(spans, m)) - Cardinality(Ended(spans, m))
  BY Balance
<1>3. PICK m \in high : \A x \in high : m <= x
  <2>1. high \subseteq Nat /\ n \in high
    BY <1>1, <1>2
  <2> HIDE DEF high
  <2>2. QED
    BY <2>1, LeastElement
<1> HIDE DEF total
<1>4. m \in 0..N /\ total[m] >= total[n] /\ total[m] \in Int /\ total[n] \in Int
  BY <1>2
<1>5. CASE m = 0
  <2>1. Begun(spans, 0) = {} /\ Ended(spans, 0) = {}
    BY DEF Begun, Ended
  <2>2. total[0] = 0
    BY <1>2, <1>4, <1>5, <2>1, FS_EmptySet
  <2>3. 0 \in Times /\ Cardinality(ActiveAt(0)) \in Nat
    BY ActiveIs, BoundsAssumption DEF Times
  <2>4. total[n] <= Cardinality(ActiveAt(0))
    BY <1>4, <1>5, <2>2, <2>3
  <2>5. QED
    BY <2>3, <2>4 DEF total
<1>6. CASE m # 0
  <2>1. m \in 1..N /\ m - 1 \in 0..N /\ ~(m <= m - 1)
    BY <1>1, <1>4, <1>6
  <2>2. total[m - 1] < total[m]
    <3>1. m - 1 \notin high
      <4> HIDE DEF high
      <4>1. QED
        BY <1>3, <2>1
    <3>2. ~(total[m - 1] >= total[n]) /\ total[m - 1] \in Int
      BY <1>2, <2>1, <3>1
    <3>3. QED
      BY <1>4, <3>2
  <2>3. PICK i \in Good : spans[m] = Start(i)
    <3>1. PICK i \in Good : spans[m] = Start(i) \/ spans[m] = Stop(i)
      BY <1>1, <2>1
    <3>2. SUFFICES ASSUME spans[m] = Stop(i) PROVE FALSE
      BY <3>1
    <3>3. spans[m].delta = -1
      BY <3>2 DEF Stop
    <3>4. total[m] = total[m - 1] + spans[m].delta
      BY <2>1, Runs DEF total
    <3>5. QED
      BY <1>2, <2>1, <2>2, <3>3, <3>4
  <2> DEFINE t == Time(spans[m])
  <2>4. t \in Times /\ t \in Int
    BY <1>1, <2>1 DEF Times
  <2>5. Begun(spans, m) \subseteq Started(t)
    <3> SUFFICES ASSUME NEW j \in Good, NEW k \in 1..m, spans[k] = Start(j)
                 PROVE  streams[j].first <= t
      BY DEF Begun, Started
    <3>1. k \in 1..N /\ (k = m \/ k < m)
      BY <1>1, <2>1
    <3>2. Time(spans[k]) <= t
      BY <1>1, <2>1, <2>4, <3>1 DEF Times
    <3>3. QED
      BY <3>2, SpansAre
  <2>6. Finished(t) \subseteq Ended(spans, m)
    <3> SUFFICES ASSUME NEW j \in Good, streams[j].finished <= t
                 PROVE  \E k \in 1..m : spans[k] = Stop(j)
      BY DEF Ended, Finished
    <3>1. PICK k \in 1..N : spans[k] = Stop(j)
      BY <1>1, SpansAre
    <3>2. SUFFICES ASSUME m < k PROVE FALSE
      BY <1>1, <2>1, <3>1
    <3>3. ~Before(Stop(j), Start(i))
      BY <2>1, <2>3, <3>1, <3>2 DEF InOrder
    <3>4. /\ Time(Stop(j)) \in Nat /\ Time(Start(i)) = t /\ Time(Stop(j)) <= t
          /\ Stop(j).delta = -1 /\ Start(i).delta = 1
      <4>1. Stop(j) \in Spans /\ Time(Stop(j)) = streams[j].finished
        BY SpansAre
      <4>2. Time(Stop(j)) \in Nat
        BY <1>1, <4>1 DEF Times
      <4>3. Stop(j).delta = -1 /\ Start(i).delta = 1
        BY DEF Stop, Start
      <4>4. QED
        BY <2>3, <4>1, <4>2, <4>3
    <3>5. Before(Stop(j), Start(i))
      <4>1. Time(Stop(j)) < t \/ Time(Stop(j)) = t
        BY <2>4, <3>4
      <4> HIDE DEF t
      <4>2. QED
        BY <3>4, <4>1 DEF Before
    <3>6. QED
      BY <3>3, <3>5
  <2>7. /\ Cardinality(Begun(spans, m)) <= Cardinality(Started(t))
        /\ Cardinality(Finished(t)) <= Cardinality(Ended(spans, m))
        /\ Cardinality(Begun(spans, m)) \in Nat /\ Cardinality(Ended(spans, m)) \in Nat
    <3>1. IsFiniteSet(Started(t)) /\ IsFiniteSet(Ended(spans, m))
      <4>1. Ended(spans, m) \in SUBSET Good
        BY DEF Ended
      <4>2. QED
        BY <2>4, <4>1, ActiveIs, AllGood, FS_Subset
    <3> HIDE DEF t
    <3>2. IsFiniteSet(Begun(spans, m)) /\ Cardinality(Begun(spans, m)) <= Cardinality(Started(t))
      BY <2>5, <3>1, FS_Subset
    <3>3. Cardinality(Finished(t)) <= Cardinality(Ended(spans, m))
      BY <2>6, <3>1, FS_Subset
    <3>4. QED
      BY <3>1, <3>2, <3>3, FS_CardinalityType
  <2> HIDE DEF t
  <2>8. total[m] <= Cardinality(ActiveAt(t))
    <3>1. /\ Cardinality(ActiveAt(t)) = Cardinality(Started(t)) - Cardinality(Finished(t))
          /\ Cardinality(Started(t)) \in Nat /\ Cardinality(Finished(t)) \in Nat
      BY <2>4, ActiveIs
    <3>2. total[m] = Cardinality(Begun(spans, m)) - Cardinality(Ended(spans, m))
      BY <1>2, <1>4
    <3>3. QED
      BY <2>7, <3>1, <3>2
  <2>9. total[n] <= Cardinality(ActiveAt(t))
    <3>1. Cardinality(ActiveAt(t)) \in Nat
      BY <2>4, ActiveIs
    <3>2. QED
      BY <1>4, <2>8, <3>1
  <2>10. QED
    BY <2>4, <2>9 DEF total
<1>7. QED
  BY <1>5, <1>6

\* The peak is the largest number active at one time.
LEMMA PeakIs ==
  ASSUME RecordsInv
  PROVE  Peak = Max({Cardinality(ActiveAt(t)) : t \in Times})
<1> DEFINE N == Cardinality(Spans)
           total == Totals(Deltas(Sorted))
           counts == {Cardinality(ActiveAt(t)) : t \in Times}
           totals == Range(total)
<1>1. InOrder(Sorted) /\ N \in Nat
  BY SortedIs, SpansAre
<1>2. total \in [0..N -> Int]
  BY <1>1, Runs
<1>3. totals = {total[n] : n \in 0..N}
  <2> HIDE DEF total
  <2>1. QED
    BY <1>2 DEF Range
<1>4. ASSUME NEW c \in counts PROVE c \in Int /\ \E x \in totals : x = c
  <2>1. PICK t \in Times : c = Cardinality(ActiveAt(t))
    OBVIOUS
  <2>2. t \in Int
    BY <2>1 DEF Times
  <2>3. c \in Int
    BY <2>1, <2>2, ActiveIs
  <2>4. \E n \in 0..N : total[n] = c
    BY <1>1, <2>1, <2>2, Reached
  <2> HIDE DEF totals, total
  <2>5. QED
    BY <1>3, <2>3, <2>4
<1>5. ASSUME NEW x \in totals PROVE x \in Int /\ \E c \in counts : x <= c
  <2>1. PICK n \in 0..N : x = total[n]
    <3> HIDE DEF totals, total
    <3>1. QED
      BY <1>3
  <2>2. \E t \in Times : total[n] <= Cardinality(ActiveAt(t))
    BY <1>1, Bounded
  <2>3. total[n] \in Int
    <3> HIDE DEF total
    <3>1. QED
      BY <1>2
  <2>4. QED
    BY <2>1, <2>2, <2>3
<1>6. /\ Waves[wave] \in Int
      /\ \A c \in counts : c <= Waves[wave]
  <2>1. Waves[wave] \in Nat /\ Good \in SUBSET (1..Waves[wave])
    BY StreamType
  <2>2. IsFiniteSet(Good) /\ Cardinality(Good) <= Waves[wave] /\ Cardinality(Good) \in Nat
    BY AllGood
  <2>3. ASSUME NEW t \in Times PROVE Cardinality(ActiveAt(t)) <= Waves[wave]
    <3>1. t \in Int
      BY DEF Times
    <3>2. ActiveAt(t) \in SUBSET Good
      BY DEF ActiveAt, Good
    <3>3. Cardinality(ActiveAt(t)) <= Cardinality(Good) /\ Cardinality(ActiveAt(t)) \in Nat
      BY <2>2, <3>1, <3>2, FS_Subset, ActiveIs
    <3>4. QED
      BY <2>1, <2>2, <3>3
  <2>4. QED
    BY <2>1, <2>3
<1>7. totals # {} /\ counts # {} /\ totals \subseteq Int /\ counts \subseteq Int
  <2>1. 0 \in Times /\ 0 \in 0..N
    BY <1>1, BoundsAssumption DEF Times
  <2>2. totals # {}
    <3> HIDE DEF total, totals
    <3>1. QED
      BY <1>3, <2>1
  <2>3. QED
    BY <1>4, <1>5, <2>1, <2>2
<1> HIDE DEF totals, counts
<1>8. \A x \in totals : x <= Waves[wave]
  BY <1>4, <1>5, <1>6
<1>9. Max(totals) \in totals /\ \A x \in totals : x <= Max(totals)
  BY <1>6, <1>7, <1>8, MaxOf
<1>10. PICK c \in counts : Max(totals) <= c
  BY <1>5, <1>9
<1>11. c = Max(totals) /\ \A d \in counts : d <= c
  <2>1. c \in totals /\ c <= Max(totals) /\ Max(totals) \in Int /\ c \in Int
    BY <1>4, <1>7, <1>9, <1>10
  <2>2. c = Max(totals)
    BY <1>10, <2>1
  <2>3. QED
    BY <1>4, <1>9, <2>2
<1>12. Max(counts) = c
  BY <1>7, <1>11, MaxIs
<1>13. Peak = Max(totals)
  BY DEF Peak, Deltas, totals, total
<1>14. QED
  BY <1>11, <1>12, <1>13 DEF counts

\* With a shared window all streams are active at once.
LEMMA AllAtOnce ==
  ASSUME RecordsInv, Good = DOMAIN streams, WindowEnd > WindowBegin
  PROVE  Max({Cardinality(ActiveAt(t)) : t \in Times}) = Waves[wave]
<1> DEFINE counts == {Cardinality(ActiveAt(t)) : t \in Times}
<1>1. /\ Waves[wave] \in Nat /\ Good = 1..Waves[wave]
      /\ IsFiniteSet(Good) /\ Cardinality(Good) = Waves[wave]
  BY StreamType, AllGood
<1>2. /\ WindowBegin \in Times /\ WindowBegin \in Int
      /\ WindowBegin >= WindowBegin /\ WindowBegin < WindowEnd
  BY WindowIs DEF Times
<1>3. \A i \in Good : WindowBegin >= FirstAt(i) /\ WindowBegin < LastAt(i)
  BY <1>2, WindowIs
<1>4. ActiveAt(WindowBegin) = Good
  <2>1. ASSUME NEW i \in Good
        PROVE  streams[i].first <= WindowBegin /\ WindowBegin < streams[i].finished
    <3>1. /\ WindowBegin >= FirstAt(i) /\ WindowBegin < LastAt(i) /\ WindowBegin \in Int
          /\ streams[i].first = FirstAt(i) /\ LastAt(i) <= streams[i].finished
          /\ streams[i].finished \in Int /\ FirstAt(i) \in Int /\ LastAt(i) \in Int
      BY <1>2, <1>3, Bounds, HeldFrom DEF Times
    <3>2. QED
      BY <3>1
  <2>2. QED
    BY <2>1 DEF ActiveAt, Good
<1>5. Waves[wave] \in counts
  BY <1>1, <1>2, <1>4
<1>6. ASSUME NEW c \in counts PROVE c \in Int /\ c <= Waves[wave]
  <2>1. PICK t \in Times : c = Cardinality(ActiveAt(t))
    OBVIOUS
  <2>2. t \in Int /\ ActiveAt(t) \in SUBSET Good
    BY <2>1 DEF Times, ActiveAt, Good
  <2>3. QED
    BY <1>1, <2>1, <2>2, ActiveIs, FS_Subset
<1> HIDE DEF counts
<1>7. Max(counts) = Waves[wave]
  BY <1>5, <1>6, MaxIs
<1>8. QED
  BY <1>7 DEF counts

\* The overlap is exact when the summary is written.
LEMMA SummaryOverlap ==
  ASSUME WaveInv, Summarise
  PROVE  OverlapExact'
<1>1. /\ UNCHANGED <<wave, now, streams>> /\ summary'.peak = Peak
      /\ summary'.shared # None => Good = DOMAIN streams /\ WindowEnd > WindowBegin
  BY DEF Summarise
<1>2. summary'.peak = Max({Cardinality(ActiveAt(t)) : t \in 0..MaxTime})
  BY <1>1, PeakIs DEF WaveInv, Times
<1>3. summary'.shared # None => summary'.peak = Waves[wave]
  BY <1>1, <1>2, AllAtOnce DEF WaveInv, Times
<1>4. QED
  BY <1>1, <1>2, <1>3 DEF OverlapExact, ActiveAt

\* The peak is the number of streams that had emitted tokens and remained
\* unfinished at one time (matrix.py:83-96).
THEOREM PeakIsOverlap == Spec => []OverlapExact
<1>1. Init => OverlapExact
  BY DEF Init, OverlapExact
<1>2. WaveInv /\ OverlapExact /\ [Next]_vars => OverlapExact'
  <2> SUFFICES ASSUME WaveInv, OverlapExact, [Next]_vars PROVE OverlapExact'
    OBVIOUS
  <2>1. CASE Summarise
    BY <2>1, SummaryOverlap
  <2>2. CASE summary' = None
    BY <2>2 DEF OverlapExact
  <2>3. CASE UNCHANGED <<wave, streams, summary>>
    BY <2>3 DEF OverlapExact
  <2>4. QED
    BY <2>1, <2>2, <2>3, SummaryStays
<1>3. QED
  BY <1>1, <1>2, WaveInvariance, PTL DEF Spec
=============================================================================
