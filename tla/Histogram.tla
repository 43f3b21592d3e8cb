----------------------------- MODULE Histogram -----------------------------
(***************************************************************************)
(* The histogram of query durations (common/metrics/metrics.go): a ring    *)
(* buffer that is written at pos and has wrapped around when full is set.  *)
(* Every method holds the histogram's lock throughout, so it is one step.  *)
(***************************************************************************)
EXTENDS Integers, FiniteSets, Sequences, Functions

CONSTANTS
    MaxSize,     \* the capacity, 10000 in the code
    Durations,   \* the values that are observed
    Shares       \* the quantiles asked for, in percent: 50, 90 and 99 in the code

ASSUME HistogramAssumption ==
    /\ MaxSize \in Nat \ {0}
    /\ Durations \subseteq Nat
    /\ Shares \subseteq 0 .. 100

VARIABLES buf, pos, full

histogramVars == <<buf, pos, full>>

Slots == 0 .. MaxSize - 1

HistogramInit ==
    /\ buf = [i \in Slots |-> 0]
    /\ pos = 0
    /\ full = FALSE

\* A slip: the position starts over and nothing records it.
ObserveForgetsWrap(value) ==
    /\ buf' = [buf EXCEPT ![pos] = value]
    /\ pos' = (pos + 1) % MaxSize
    /\ UNCHANGED full

\* A slip: off by one at the end of the buffer.
ObserveOffByOne(value) ==
    /\ buf' = [buf EXCEPT ![pos] = value]
    /\ pos' = IF pos + 1 > MaxSize THEN 0 ELSE pos + 1
    /\ full' = IF pos + 1 > MaxSize THEN TRUE ELSE full

Observe(value) ==
    LET wraps == pos + 1 >= MaxSize IN
    /\ buf' = [buf EXCEPT ![pos] = value]
    /\ pos' = IF wraps THEN 0 ELSE pos + 1
    /\ full' = IF wraps THEN TRUE ELSE full

\* A slip: what lies before the position is taken for everything.
SnapshotBeforePos == [i \in 1 .. pos |-> buf[i - 1]]

\* The active values, in the order they lie in the buffer.
Snapshot == [i \in 1 .. (IF full THEN MaxSize ELSE pos) |-> buf[i - 1]]

\* sort.Float64s of the Go library.
Sorted(values) ==
    LET order == CHOOSE p \in Bijection(DOMAIN values, DOMAIN values) :
                    \A i, j \in DOMAIN values : i <= j => values[p[i]] <= values[p[j]]
    IN  [i \in DOMAIN values |-> values[order[i]]]

\* A slip: up to the next index where the code cuts off.
QuantileIndexRoundedUp(percent) == ((Len(Snapshot) - 1) * percent + 99) \div 100

\* The code computes with floating point, which for 50, 90 and 99 percent and up to
\* 10000 values gives the same index.
QuantileIndex(percent) == ((Len(Snapshot) - 1) * percent) \div 100

Quantile(percent) ==
    IF Snapshot = <<>> THEN 0
    ELSE Sorted(Snapshot)[1 + QuantileIndex(percent)]

HistogramSpec == HistogramInit /\ [][\E d \in Durations : Observe(d)]_histogramVars

-----------------------------------------------------------------------------

\* The shape of the histogram.
HistogramTypeOK ==
    /\ buf \in [Slots -> Nat]
    /\ pos \in Slots
    /\ full \in BOOLEAN

\* The observations in the order they were made: once the buffer has wrapped
\* around, the oldest is the one to be overwritten next.
Recent ==
    [i \in 1 .. (IF full THEN MaxSize ELSE pos) |->
        IF ~full THEN buf[i - 1]
        ELSE IF pos + i <= MaxSize THEN buf[pos + i - 1]
        ELSE buf[pos + i - 1 - MaxSize]]

\* The ring buffer implements the sliding window: nothing is lost before MaxSize
\* later observations, and nothing stays longer.
Window == INSTANCE SlidingWindow WITH recent <- Recent

WindowExact == Window!WindowSpec

\* A quantile is the value of the recent observations that it should be, found
\* without sorting them: the share of the other observations that may be smaller is
\* not exceeded by those that are, and is by those no greater.  It is so before the
\* buffer has wrapped around and after, in whatever order the values lie in it.
QuantileRank ==
    \A percent \in Shares :
        LET value == Quantile(percent)
            smaller == Cardinality({i \in DOMAIN Recent : Recent[i] < value})
            noGreater == Cardinality({i \in DOMAIN Recent : Recent[i] <= value})
        IN  Recent # <<>> =>
                /\ 100 * smaller <= (Len(Recent) - 1) * percent
                /\ (Len(Recent) - 1) * percent < 100 * noGreater

=============================================================================
