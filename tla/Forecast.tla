------------------------------ MODULE Forecast -------------------------------
(***************************************************************************)
(* The time-series-forecast tool from the rows of its query to its answer: *)
(* parse.ts drops what is no observation, fill.ts puts each series on a    *)
(* grid of timestamps, the handler refuses or truncates series, and the    *)
(* Chronos-2 endpoint predicts the steps after the last value of a target  *)
(* whose first value it is told to be at `start`.  Time is counted in days *)
(* of a calendar with months of different lengths.                         *)
(***************************************************************************)
EXTENDS Integers, Sequences, FiniteSets

CONSTANTS
  MonthDays,        \* lengths of the months of the calendar
  RowSets,          \* inputs: rows of a query result
  Freqs,            \* inputs: [unit, n]; "D" stands for every unit of fixed length
  Horizons,         \* inputs: prediction_length
  Policies,         \* inputs: fill_missing_policy
  MaxSeries,        \* MAX_SERIES, 100
  PageRows,         \* rows on the first page of GetQueryResults, 999 and the header
  MinObservations,  \* MIN_OBSERVATIONS, 5
  MaxContext,       \* CHRONOS_MAX_CONTEXT, 8192
  MaxHorizon        \* 1024

VARIABLES
  event,    \* the arguments of the call and the rows that its query returned
  response  \* whether there is none yet, an error or the answered series

tsVars == <<event, response>>

NoResponse == [kind |-> "none", reason |-> "", series |-> << >>]
Error(reason) == [NoResponse EXCEPT !.kind = "error", !.reason = reason]
Success(series) == [NoResponse EXCEPT !.kind = "success", !.series = series]

-----------------------------------------------------------------------------
(* Calendar.  A time is the number of a day, the first one is 0. *)

FirstDay[m \in 1 .. Len(MonthDays) + 1] ==
  IF m = 1 THEN 0 ELSE FirstDay[m - 1] + MonthDays[m - 1]
MonthOf(t) == CHOOSE m \in DOMAIN MonthDays : FirstDay[m] <= t /\ t < FirstDay[m + 1]
DayOf(t) == t - FirstDay[MonthOf(t)] + 1
Months(freq) == IF freq.unit = "Q" THEN 3 * freq.n ELSE freq.n

\* Mutant: setUTCDate(1) is forgotten.
StepKeepingDay(freq, t) ==
  IF freq.unit = "D" THEN t + freq.n
  ELSE FirstDay[MonthOf(t) + Months(freq)] + DayOf(t) - 1

\* freqToStepFn.  setUTCMonth keeps the day, and a day that the month has not
\* runs over into the next one; setUTCDate(1) comes after.
Step(freq, t) ==
  IF freq.unit = "D" THEN t + freq.n
  ELSE FirstDay[MonthOf(FirstDay[MonthOf(t) + Months(freq)] + DayOf(t) - 1)]

-----------------------------------------------------------------------------
(* parse.ts and fill.ts *)

\* runAthenaQuery reads the first page of the result.
Page(rows) == IF Len(rows) <= PageRows THEN rows ELSE SubSeq(rows, 1, PageRows)

\* What is no time, or no finite number.
Unreadable == -1

\* The members of a sequence at some of its places, in their order.
Picked(seq, places) ==
  LET upTo[i \in 0 .. Len(seq)] ==
        IF i = 0 THEN << >>
        ELSE IF i \in places THEN Append(upTo[i - 1], seq[i]) ELSE upTo[i - 1]
  IN  upTo[Len(seq)]

\* parseRowsToSeries: a row without a time or without a finite number is dropped.
Observations(rows) ==
  Picked(rows, {i \in DOMAIN rows : rows[i].ts # Unreadable /\ rows[i].y # Unreadable})

Items(obs) == {obs[i].item : i \in DOMAIN obs}
Of(obs, item) == Picked(obs, {i \in DOMAIN obs : obs[i].item = item})
Times(list) == {list[i].ts : i \in DOMAIN list}
Start(list) == CHOOSE t \in Times(list) : \A u \in Times(list) : t <= u
End(list) == CHOOSE t \in Times(list) : \A u \in Times(list) : t >= u

\* Mutant: the first of two rows with one time wins.
FirstByTime(list, t) ==
  list[CHOOSE i \in DOMAIN list :
         list[i].ts = t /\ \A j \in DOMAIN list : list[j].ts = t => i <= j].y

\* byTime: of two rows with one time the later one counts; sorting is stable.
ByTime(list, t) ==
  list[CHOOSE i \in DOMAIN list :
         list[i].ts = t /\ \A j \in DOMAIN list : list[j].ts = t => i >= j].y

\* The timestamps that the loop visits; a step that stays where it is ends it.
Grid(list, freq) ==
  LET from[t \in Nat] ==
        IF t > End(list) THEN << >>
        ELSE IF Step(freq, t) = t THEN <<t>>
        ELSE <<t>> \o from[Step(freq, t)]
  IN  from[Start(list)]

\* A visited time without a row: 0, or the last value that a row had.
Filler(list, grid, i, policy) ==
  LET before == {j \in 1 .. i : grid[j] \in Times(list)}
      j == CHOOSE k \in before : \A l \in before : k >= l
  IN  IF policy = "forward_fill" THEN ByTime(list, grid[j]) ELSE 0

FillSeries(list, freq, policy) ==
  LET grid == Grid(list, freq)
  IN  [start |-> Start(list), end |-> End(list),
       values |-> [i \in DOMAIN grid |->
                     IF grid[i] \in Times(list) THEN ByTime(list, grid[i])
                     ELSE Filler(list, grid, i, policy)]]

Gap(list, freq) == \E i \in DOMAIN Grid(list, freq) : Grid(list, freq)[i] \notin Times(list)

-----------------------------------------------------------------------------
(* The handler *)

\* Mutant: one value too many is kept.
LastOnes(values) ==
  IF Len(values) <= MaxContext THEN values
  ELSE SubSeq(values, Len(values) - MaxContext, Len(values))

\* The last MaxContext values are sent; start stays what it was.
Truncate(values) ==
  IF Len(values) <= MaxContext THEN values
  ELSE SubSeq(values, Len(values) - MaxContext + 1, Len(values))

\* What the endpoint answers for one input: the time of the first prediction.
PredictionStart(start, length, freq) ==
  LET after[k \in 0 .. length] == IF k = 0 THEN start ELSE Step(freq, after[k - 1])
  IN  after[length]

Answer(list, freq, policy) ==
  LET s == FillSeries(list, freq, policy)
      target == Truncate(s.values)
  IN  [target |-> target, start |-> s.start, end |-> s.end,
       predicted |-> PredictionStart(s.start, Len(target), freq)]

\* The checks in their order; the last case is the success response.
Handle(e) ==
  LET obs == Observations(Page(e.rows))
      lists == [item \in Items(obs) |-> Of(obs, item)]
      short(item) == Len(Grid(lists[item], e.freq)) < MinObservations
  IN  CASE e.horizon \notin 1 .. MaxHorizon -> Error("prediction_length")
        [] obs = << >> -> Error("no usable rows")
        [] e.policy = "error" /\ \E item \in Items(obs) : Gap(lists[item], e.freq) ->
             Error("missing timestamp")
        [] Cardinality(Items(obs)) > MaxSeries -> Error("too many series")
        [] \E item \in Items(obs) : short(item) -> Error("too few observations")
        [] OTHER -> Success([item \in Items(obs) |-> Answer(lists[item], e.freq, e.policy)])

Events == [rows : RowSets, freq : Freqs, horizon : Horizons, policy : Policies]

Init ==
  /\ event \in Events
  /\ response = NoResponse

Forecasts == response = NoResponse /\ response' = Handle(event) /\ UNCHANGED event

Next == Forecasts
Spec == Init /\ [][Next]_tsVars

-----------------------------------------------------------------------------
(* Reference: the calendar as a person reads it. *)

NextPeriod(freq, t) ==
  IF freq.unit = "D" THEN t + freq.n ELSE FirstDay[MonthOf(t) + Months(freq)]

\* The periods of a series, in order.
Periods(list, freq) ==
  LET on == {t \in Start(list) .. End(list) :
               IF freq.unit = "D" THEN (t - Start(list)) % freq.n = 0
               ELSE t = Start(list) \/ ( /\ DayOf(t) = 1
                                         /\ (MonthOf(t) - MonthOf(Start(list))) % Months(freq) = 0)}
  IN  [i \in 1 .. Cardinality(on) |->
         CHOOSE t \in on : Cardinality({u \in on : u <= t}) = i]

SeriesIn(rows) == LET obs == Observations(rows) IN [item \in Items(obs) |-> Of(obs, item)]
Answered == response.kind = "success"

\* An answered series has the value of the last row of every period and nothing
\* is lost, and the predictions go on with the period after the last one, if the
\* result fits on a page, the series begins before the 29th (setUTCMonth skips
\* the next month otherwise), its times are period starts, and it is not
\* truncated (its start would not move along).
SeriesFollowsCalendar ==
  Answered /\ Len(event.rows) <= PageRows =>
    \A item \in DOMAIN response.series :
      LET list == SeriesIn(event.rows)[item]
          times == Periods(list, event.freq)
          s == response.series[item]
      IN  /\ DayOf(Start(list)) < 29 \/ event.freq.unit = "D"
          /\ Times(list) \subseteq {times[i] : i \in DOMAIN times}
          /\ Len(times) <= MaxContext
          => /\ Len(s.target) = Len(times)
             /\ \A i \in DOMAIN times :
                  times[i] \in Times(list) => s.target[i] = ByTime(list, times[i])
             /\ s.predicted = NextPeriod(event.freq, End(list))
=============================================================================
