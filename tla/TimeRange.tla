----------------------------- MODULE TimeRange -----------------------------
(* The time range vqro-read asks for (src/vqro_read.cc: NanosecondsPerTick,  *)
(* Now, GetTimeInTicks and the first half of DoReadDatapoints). A flag is    *)
(* what the parser has recognised: now, min, max, a number with a unit       *)
(* relative to the other flag, or a date as seconds of the epoch.            *)
EXTENDS Integers

CONSTANTS NanosecondsPerTick,   \* [unit |-> nanoseconds]; 0 for "none"
          Clock,                \* nanoseconds since the epoch
          MaxTime               \* the greatest int64_t, INT64_MAX

ASSUME TimeAssumption ==
    /\ {"none", "s"} \subseteq DOMAIN NanosecondsPerTick /\ NanosecondsPerTick["none"] = 0
    /\ \A u \in DOMAIN NanosecondsPerTick : NanosecondsPerTick[u] \in Nat
    /\ \A u, v \in DOMAIN NanosecondsPerTick \ {"none"} :   \* of two units, the coarser is a multiple
          /\ NanosecondsPerTick[u] > 0
          /\ NanosecondsPerTick[u] >= NanosecondsPerTick[v] =>
                NanosecondsPerTick[u] % NanosecondsPerTick[v] = 0
    /\ Clock \in Nat /\ MaxTime \in Nat

\* Signed overflow is undefined; this build's outcome is the sum modulo 2^64.
MinTime == -MaxTime - 1
Wrapped(t) == ((t - MinTime) % (MaxTime - MinTime + 1)) + MinTime
\* Division rounds towards 0.
Quotient(t, n) == IF t < 0 THEN -((-t) \div n) ELSE t \div n

IsRelative(flag) == flag.kind = "relative"
IsFlag(flag) == \/ flag.kind \in {"now", "min", "max"}
                \/ flag.kind = "relative" /\ flag.number \in Int /\ flag.unit \in DOMAIN NanosecondsPerTick
                \/ flag.kind = "date" /\ flag.seconds \in Int

\* Without a tick unit there is no relative time and no date.
Fails(flag, tick) == flag.kind \in {"relative", "date"} /\ NanosecondsPerTick[tick] = 0

\* A unit finer than the tick, or none, makes 0 ticks.
GetTimeInTicks(flag, tick) ==
    LET ns == NanosecondsPerTick[tick]
    IN  CASE flag.kind = "now" -> IF ns = 0 THEN 0 ELSE Clock \div ns
          [] flag.kind = "min" -> MinTime
          [] flag.kind = "max" -> MaxTime
          [] flag.kind = "relative" -> Wrapped((NanosecondsPerTick[flag.unit] \div ns) * flag.number)
          [] flag.kind = "date" -> Quotient(Wrapped(flag.seconds * NanosecondsPerTick["s"]), ns)

TimeRangeOf(start, end, tick) ==
    LET s == GetTimeInTicks(start, tick)
        e == GetTimeInTicks(end, tick)
    IN  [start |-> IF IsRelative(start) THEN Wrapped(s + e) ELSE s,
         end |-> IF IsRelative(end) /\ ~IsRelative(start) THEN Wrapped(e + s) ELSE e]

\* What DoReadDatapoints lets through.
AcceptedIfNotReversed(start, end, tick) ==
    /\ ~Fails(start, tick) /\ ~Fails(end, tick)
    /\ ~(IsRelative(start) /\ IsRelative(end))
    /\ TimeRangeOf(start, end, tick).start <= TimeRangeOf(start, end, tick).end
Accepted(start, end, tick) ==
    /\ ~Fails(start, tick) /\ ~Fails(end, tick)
    /\ ~(IsRelative(start) /\ IsRelative(end))
    /\ TimeRangeOf(start, end, tick).start < TimeRangeOf(start, end, tick).end
=============================================================================
