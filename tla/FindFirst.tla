----------------------------- MODULE FindFirst -----------------------------
(* DatapointDirectory::FindFirstPotentialFile (src/vqro/db/                  *)
(* datapoint_directory.cc): the search for the file a read or a write of a   *)
(* timestamp begins at, among the directory's files in order of              *)
(* min_timestamp.                                                            *)
EXTENDS Integers, Sequences

CONSTANT Timestamps     \* the timestamps: integers

ASSUME TimestampsAssumption == Timestamps \subseteq Int

VARIABLES mins,        \* min_timestamp of datapoint_files, in order
          timestamp,   \* the timestamp looked for
          left, middle, right,
          phase        \* "searching", "found"

searchVars == <<mins, timestamp, left, middle, right, phase>>

\* datapoint_files is ordered, and may hold files with the same min_timestamp: a full
\* file is followed by a new one that starts where a point was written again.
InOrder(s) == \A i, j \in 1..Len(s) : i < j => s[i] <= s[j]

MinOf(i) == mins[i + 1]   \* the code counts from 0

SearchInit == /\ mins \in Seq(Timestamps) /\ InOrder(mins)
              /\ timestamp \in Timestamps
              /\ left = 0
              /\ middle = 0
              /\ right = Len(mins)
              /\ phase = "searching"

MiddleOfTheRange == (left + right) \div 2
Probed == (right - left) \div 2

GoLeft == /\ phase = "searching" /\ left < right
          /\ MinOf(Probed) > timestamp
          /\ middle' = Probed
          /\ right' = Probed
          /\ UNCHANGED <<mins, timestamp, left, phase>>

GoRight == /\ phase = "searching" /\ left < right
           /\ MinOf(Probed) < timestamp
           /\ middle' = Probed
           /\ left' = Probed + 1
           /\ UNCHANGED <<mins, timestamp, right, phase>>

\* The break at a file that starts at the timestamp.
Hit == /\ phase = "searching" /\ left < right
       /\ MinOf(Probed) = timestamp
       /\ middle' = Probed
       /\ phase' = "found"
       /\ UNCHANGED <<mins, timestamp, left, right>>

ExhaustedPastRight == /\ phase = "searching" /\ left > right
                      /\ phase' = "found"
                      /\ UNCHANGED <<mins, timestamp, left, middle, right>>
Exhausted == /\ phase = "searching" /\ left >= right
             /\ phase' = "found"
             /\ UNCHANGED <<mins, timestamp, left, middle, right>>

SearchOnce == GoLeft \/ GoRight \/ Hit \/ Exhausted

\* The caller uses datapoint_files.begin() + middle and searches for something else later.
Return == phase = "found" /\ UNCHANGED searchVars

SearchNext == SearchOnce \/ Return

SearchSpec == SearchInit /\ [][SearchNext]_searchVars
FairSearchSpec == SearchSpec /\ WF_searchVars(SearchOnce)

----------------------------------------------------------------------------
(* Properties.                                                               *)

SearchTypeOK == /\ mins \in Seq(Timestamps)
                /\ timestamp \in Timestamps
                /\ left \in 0..Len(mins)
                /\ right \in 0..Len(mins)
                /\ middle \in Nat
                /\ phase \in {"searching", "found"}

\* The iterator returned is begin() + middle: it names a file unless there is none.
ReturnsAFile == phase = "found" => middle = 0 \/ middle < Len(mins)

\* When the search returns, it returns the file the comment asks for (src/vqro/db/
\* datapoint_directory.cc:136), up to files that start at the same time: no later file
\* could hold the timestamp, and the file itself does not start after it, unless all do.
ReturnsLastNotAfter ==
    phase = "found" =>
        /\ \A i \in 0..(Len(mins) - 1) :
               i > middle /\ MinOf(i) <= timestamp => MinOf(i) = MinOf(middle)
        /\ middle > 0 => MinOf(middle) <= timestamp

\* The middle is (right - left) / 2, not left + (right - left) / 2: a file in the middle
\* of the range from 0 that starts before the timestamp sends the search to the right,
\* and from there it only ever probes files before that one.
Stuck == phase = "searching" /\ right >= 3 /\ MinOf(right \div 2) < timestamp

\* A search that is stuck never returns: the flush or the read that asked spins.
StuckForGood == [][Stuck => Stuck']_searchVars

\* Nothing else keeps a search from returning.
ReturnsOrGetsStuck == <>(phase = "found" \/ Stuck)

\* What the comment asks of every search (src/vqro/db/datapoint_directory.cc:136):
\* that it returns a file.
Returns == <>(phase = "found")
=============================================================================
