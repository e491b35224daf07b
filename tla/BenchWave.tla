----------------------------- MODULE BenchWave -----------------------------
(***************************************************************************)
(* benchmarks/matrix.py: waves of concurrent streams and what is computed  *)
(* from their records.  A wave starts one thread per stream; each thread   *)
(* records an event [seconds, count] for every line it receives, where     *)
(* count is the number of tokens so far.  When the last thread has         *)
(* returned, the wave is summarised: the peak overlap of its streams, and  *)
(* the tokens each delivered in the window that all of them share.         *)
(* common_window.py computes the window again from the saved records.      *)
(*                                                                         *)
(* Time is a clock of MaxTime ticks per wave that can stand still between  *)
(* two events.  The ids of the tokens are left out: an event that does not *)
(* continue the ids before it makes the stream fail, as a lost connection  *)
(* does.                                                                   *)
(***************************************************************************)
EXTENDS Integers, Sequences, FiniteSetsExt

CONSTANTS
  Waves,     \* the concurrency of each wave, in order
  MaxTime,   \* bound on the clock within a wave
  MaxEvents, \* bound on the events of a stream
  MaxTokens, \* bound on the tokens of a stream
  None

ASSUME WavesAssumption == Waves \in Seq(Nat \ {0}) /\ Waves # <<>>
ASSUME NoneAssumption == None \notin Nat
ASSUME BoundsAssumption == MaxTime \in Nat /\ MaxEvents \in Nat /\ MaxTokens \in Nat

VARIABLES
  wave,    \* the wave that runs
  now,     \* time.monotonic() - wave_start
  streams, \* the records of the wave's streams
  summary, \* the wave's summary, or None while it runs
  phase    \* "running", "summarised", "raised" or "finished"

vars == <<wave, now, streams, summary, phase>>

Running == [status |-> "running", events |-> <<>>, first |-> None, finished |-> None]
Records(w) == [i \in 1..Waves[w] |-> Running]

Init ==
  /\ wave = 1 /\ now = 0 /\ phase = "running"
  /\ streams = Records(1)
  /\ summary = None

Count(events) == IF events = <<>> THEN 0 ELSE events[Len(events)].count
\* The time of the first event with n tokens, or None.
At(events, n) ==
  LET reached == {k \in DOMAIN events : events[k].count >= n}
  IN IF reached = {} THEN None ELSE events[Min(reached)].seconds

Set(i, stream) == streams' = [streams EXCEPT ![i] = stream] /\ UNCHANGED <<wave, now, summary, phase>>

\* A line arrives.  An answer shorter than the one before fails the assertion.
Event(i, count) ==
  /\ streams[i].status = "running" /\ Len(streams[i].events) < MaxEvents
  /\ Set(i, IF count < Count(streams[i].events)
            THEN [streams[i] EXCEPT !.status = "error"]
            ELSE [streams[i] EXCEPT !.events = Append(@, [seconds |-> now, count |-> count])])

\* The request fails, or its ids do not continue those received before.
Breaks(i) == streams[i].status = "running" /\ Set(i, [streams[i] EXCEPT !.status = "error"])

\* The stream ends; without a token the record cannot be completed.
End(i) ==
  LET first == At(streams[i].events, 1)
  IN /\ streams[i].status = "running"
     /\ Set(i, [streams[i] EXCEPT !.status = IF first = None THEN "error" ELSE "done",
                                  !.first = first, !.finished = now])

Tick ==
  /\ phase = "running" /\ now < MaxTime
  /\ now' = now + 1
  /\ UNCHANGED <<wave, streams, summary, phase>>

\* The streams whose record is complete.
Good == {i \in DOMAIN streams : streams[i].status = "done"}

\* Running totals: the sum of the first n values, for each n.
Totals(values) ==
  LET total[n \in 0..Len(values)] == IF n = 0 THEN 0 ELSE total[n - 1] + values[n]
  IN  total

\* The starts and ends of the good streams, sorted; ends come before the
\* starts of the same time.
Spans == [stream : Good, delta : {1, -1}]
Time(span) == IF span.delta = 1 THEN streams[span.stream].first ELSE streams[span.stream].finished
Before_StartsFirst(a, b) ==  \* mutation
  Time(a) < Time(b) \/ (Time(a) = Time(b) /\ a.delta > b.delta)
Before(a, b) == Time(a) < Time(b) \/ (Time(a) = Time(b) /\ a.delta < b.delta)
Sorted ==
  CHOOSE spans \in Bijection(1..Cardinality(Spans), Spans) :
    \A m, n \in DOMAIN spans : m < n => ~Before(spans[n], spans[m])
Peak ==
  LET spans == Sorted
      active == Totals([n \in DOMAIN spans |-> spans[n].delta])
  IN  Max(Range(active))

\* The events that brought tokens, and how many.
Previous(events, k) == IF k = 1 THEN 0 ELSE events[k - 1].count
Bursts(events) == {k \in DOMAIN events : events[k].count > Previous(events, k)}
WindowBegin == Max({streams[i].events[Min(Bursts(streams[i].events))].seconds : i \in Good})
WindowEnd == Min({streams[i].events[Max(Bursts(streams[i].events))].seconds : i \in Good})
Shared_Closed(events, begin, end) ==  \* mutation: the bursts that open the window are counted
  Totals([k \in DOMAIN events |->
            IF k \in Bursts(events) /\ begin <= events[k].seconds /\ events[k].seconds <= end
            THEN events[k].count - Previous(events, k) ELSE 0])[Len(events)]
Shared(events, begin, end) ==
  Totals([k \in DOMAIN events |->
            IF k \in Bursts(events) /\ begin < events[k].seconds /\ events[k].seconds <= end
            THEN events[k].count - Previous(events, k) ELSE 0])[Len(events)]

\* The threads have returned: the summary is written, and a wave that had a
\* failed stream ends the program.
Summarise ==
  LET complete == Good = DOMAIN streams
      begin == WindowBegin
      end == WindowEnd
  IN /\ phase = "running" /\ \A i \in DOMAIN streams : streams[i].status # "running"
     /\ summary' =
          [successes |-> Cardinality(Good), peak |-> Peak,
           shared |-> IF complete /\ end > begin
                      THEN [i \in Good |-> Shared(streams[i].events, begin, end)] ELSE None]
     /\ phase' = IF complete THEN "summarised" ELSE "raised"
     /\ UNCHANGED <<wave, now, streams>>

NextWave ==
  /\ phase = "summarised"
  /\ IF wave < Len(Waves)
     THEN /\ wave' = wave + 1 /\ now' = 0 /\ summary' = None /\ phase' = "running"
          /\ streams' = Records(wave + 1)
     ELSE phase' = "finished" /\ UNCHANGED <<wave, now, streams, summary>>

Stopped == phase \in {"raised", "finished"} /\ UNCHANGED vars

Next ==
  \/ \E i \in DOMAIN streams : Breaks(i) \/ End(i) \/ \E count \in 0..MaxTokens : Event(i, count)
  \/ Tick \/ Summarise \/ NextWave \/ Stopped

Spec == Init /\ [][Next]_vars
-----------------------------------------------------------------------------
(* Properties                                                              *)

\* The tokens a stream had delivered by time t.
Held(stream, t) ==
  Max({0} \cup {stream.events[k].count : k \in {j \in DOMAIN stream.events : stream.events[j].seconds <= t}})

\* The records of a complete wave are what common_window.py assumes of them
\* (20-27): counts and times never fall, and every stream delivered a token.
\* The window's counts (matrix.py:126-130, common_window.py:33-39) are what
\* each stream delivered after the last one had started and until the first
\* one stopped: the burst that opens the window is left out, whole bursts and
\* events without tokens count as they should, whatever arrives at one time.
SharedExact ==
  summary # None /\ summary.successes = Waves[wave] =>
    /\ \A i \in DOMAIN streams : LET events == streams[i].events IN
         /\ Count(events) > 0
         /\ \A j, k \in DOMAIN events : j < k =>
              events[j].count <= events[k].count /\ events[j].seconds <= events[k].seconds
    /\ summary.shared # None =>
         \E begin, end \in 0..MaxTime :
           /\ begin < end
           /\ \A t \in 0..MaxTime :
                /\ t >= begin <=> \A i \in DOMAIN streams : Held(streams[i], t) > 0
                /\ t < end <=> \A i \in DOMAIN streams : Held(streams[i], t) < Count(streams[i].events)
           /\ \A i \in DOMAIN streams :
                summary.shared[i] = Held(streams[i], end) - Held(streams[i], begin)

\* "how many streams had emitted tokens and remained unfinished"
\* (matrix.py:84): the peak is the largest number at any one time, counted
\* over the good records only, and a wave with a shared window had all of its
\* streams at once.  A stream that ends as another starts does not overlap it.
OverlapExact ==
  summary # None =>
    LET Active(t) == {i \in DOMAIN streams :
          streams[i].status = "done" /\ streams[i].first <= t /\ t < streams[i].finished}
    IN /\ summary.peak = Max({Cardinality(Active(t)) : t \in 0..MaxTime})
       /\ summary.shared # None => summary.peak = Waves[wave]
=============================================================================
