--------------------------- MODULE ScheduleCalendar ---------------------------
(***************************************************************************)
(* When an event is due: the builder methods that write the five cron      *)
(* fields of an Event as text, and IsDue, which reads them with matchField *)
(* (api/internal/capabilities/workflow/scheduler.go).  Text is a sequence  *)
(* of character codes.  Beside each field the model keeps the set of       *)
(* values the method names, the reference that IsDue is checked against.   *)
(* A time is what t.In(timezone) returned.                                 *)
(***************************************************************************)
EXTENDS Integers, SequencesExt

CONSTANTS
  Minutes, Hours, Days,  \* arguments of the builder methods
  MaxCalls               \* bound: builder methods called on one event

VARIABLES
  field,       \* the text of minute, hour, dayOfMonth, month and dayOfWeek
  meaning,     \* history: the values each field was meant to match
  expression,  \* the expression of Cron: the values of its fields, or empty
  calls        \* methods called, for MaxCalls

vars == <<field, meaning, expression, calls>>

Values == [minute |-> 0..59, hour |-> 0..23, dayOfMonth |-> 1..31,
           month |-> 1..12, dayOfWeek |-> 0..6]
Unit == DOMAIN Values

-----------------------------------------------------------------------------
(* Text.                                                                   *)

Zero == 48
Star == 42
Comma == 44
Dash == 45
Slash == 47
Colon == 58

Itoa(i) ==
  IF i < 10 THEN <<Zero + i>> ELSE <<Zero + (i \div 10), Zero + (i % 10)>>

IsDigit(c) == c \in Zero..(Zero + 9)

(* parseNum skips what is not a digit. *)
ParseNum(s) ==
  FoldLeft(LAMBDA n, c : IF IsDigit(c) THEN n * 10 + (c - Zero) ELSE n, 0, s)

(* parseTime: anything but HH:MM is midnight. *)
ParseTime(s) ==
  IF Len(s) >= 5 /\ s[3] = Colon
  THEN [hour |-> (s[1] - Zero) * 10 + (s[2] - Zero),
        minute |-> (s[4] - Zero) * 10 + (s[5] - Zero)]
  ELSE [hour |-> 0, minute |-> 0]

(* The parts between commas; an empty one after the last comma is dropped. *)
Parts(s) ==
  LET starts == {i \in 1..Len(s) : i = 1 \/ s[i - 1] = Comma}
      end(i) == CHOOSE j \in i..(Len(s) + 1) :
                  /\ j = Len(s) + 1 \/ s[j] = Comma
                  /\ \A k \in i..(j - 1) : s[k] # Comma
  IN {SubSeq(s, i, end(i) - 1) : i \in starts}

(* The text before and after the first dash. *)
Bounds(s) ==
  LET d == SelectInSeq(s, LAMBDA c : c = Dash)
  IN <<SubSeq(s, 1, d - 1), SubSeq(s, d + 1, Len(s))>>

IsStep(s) == Len(s) > 2 /\ s[1] = Star /\ s[2] = Slash

Step(s) == IF Len(s) > 3 THEN (s[3] - Zero) * 10 + (s[4] - Zero) ELSE s[3] - Zero

MatchField(s, value) ==
  CASE s = <<Star>> -> TRUE
    [] IsStep(s) -> value % Step(s) = 0
    [] Dash \in ToSet(s) /\ ~IsStep(s) ->
         ParseNum(Bounds(s)[1]) <= value /\ value <= ParseNum(Bounds(s)[2])
    [] OTHER -> \E part \in Parts(s) : ParseNum(part) = value

IsDue(time) == \A u \in Unit : MatchField(field[u], time[u])

-----------------------------------------------------------------------------
(* Builder methods.                                                        *)

NoExpression == << >>

Init ==
  /\ field = [u \in Unit |-> <<Star>>]
  /\ meaning = Values
  /\ expression = NoExpression
  /\ calls = 0

(* A method that writes the fields of text, meant to match values. *)
Set(text, values) ==
  /\ calls < MaxCalls
  /\ calls' = calls + 1
  /\ field' = text @@ field
  /\ meaning' = values @@ meaning
  /\ UNCHANGED expression

(* A field that lists numbers: "8", "8,20". *)
List(ns) ==
  LET join(s, n) == IF s = << >> THEN Itoa(n) ELSE s \o <<Comma>> \o Itoa(n)
  IN FoldLeft(join, << >>, ns)

At(ms, hs) ==
  Set([minute |-> List(ms), hour |-> List(hs)],
      [minute |-> ToSet(ms), hour |-> ToSet(hs)])

EveryMinute == Set([minute |-> <<Star>>], [minute |-> 0..59])

EveryMinutes(n) ==
  Set([minute |-> <<Star, Slash>> \o Itoa(n)],
      [minute |-> {m \in 0..59 : m % n = 0}])

HourlyAt(m) == Set([minute |-> Itoa(m)], [minute |-> {m}])
DailyAt(h, m) == At(<<m>>, <<h>>)
TwiceDaily(h1, h2) == At(<<0>>, <<h1, h2>>)

Weekly ==
  Set([minute |-> Itoa(0), hour |-> Itoa(0), dayOfWeek |-> Itoa(0)],
      [minute |-> {0}, hour |-> {0}, dayOfWeek |-> {0}])

(* The text HH:MM. *)
Clock(h, m) ==
  <<Zero + (h \div 10), Zero + (h % 10), Colon, Zero + (m \div 10), Zero + (m % 10)>>

WeeklyOn(d, h, m) ==
  LET time == ParseTime(Clock(h, m))
  IN Set([minute |-> Itoa(time.minute), hour |-> Itoa(time.hour),
          dayOfWeek |-> Itoa(d)],
         [minute |-> {m}, hour |-> {h}, dayOfWeek |-> {d}])

MonthlyOn(d, h, m) ==
  Set([minute |-> Itoa(m), hour |-> Itoa(h), dayOfMonth |-> Itoa(d)],
      [minute |-> {m}, hour |-> {h}, dayOfMonth |-> {d}])

(* Quarterly and Yearly. *)
InMonths(months) ==
  Set([minute |-> Itoa(0), hour |-> Itoa(0), dayOfMonth |-> Itoa(1),
       month |-> List(months)],
      [minute |-> {0}, hour |-> {0}, dayOfMonth |-> {1},
       month |-> ToSet(months)])

Weekdays == Set([dayOfWeek |-> Itoa(1) \o <<Dash>> \o Itoa(5)],
                [dayOfWeek |-> 1..5])
Weekends == Set([dayOfWeek |-> List(<<0, 6>>)], [dayOfWeek |-> {0, 6}])
OnDay(d) == Set([dayOfWeek |-> Itoa(d)], [dayOfWeek |-> {d}])

(* Cron keeps the expression and touches no field. *)
Cron(minutes, hours) ==
  /\ calls < MaxCalls
  /\ calls' = calls + 1
  /\ expression' = [Values EXCEPT !.minute = minutes, !.hour = hours]
  /\ UNCHANGED <<field, meaning>>

Next ==
  \/ EveryMinute
  \/ \E n \in {2, 5, 10, 15, 30} : EveryMinutes(n)
  \/ \E m \in Minutes : HourlyAt(m)
  \/ \E h \in Hours, m \in Minutes : DailyAt(h, m)
  \/ \E h1, h2 \in Hours : TwiceDaily(h1, h2)
  \/ Weekly
  \/ \E d \in 0..6, h \in Hours, m \in Minutes : WeeklyOn(d, h, m)
  \/ \E d \in Days, h \in Hours, m \in Minutes : MonthlyOn(d, h, m)
  \/ InMonths(<<1, 4, 7, 10>>) \/ InMonths(<<1>>)
  \/ Weekdays \/ Weekends
  \/ \E d \in 0..6 : OnDay(d)
  \/ \E h \in Hours, m \in Minutes : Cron({m}, {h})

Spec == Init /\ [][Next]_vars

-----------------------------------------------------------------------------
(* Properties.                                                             *)

(* A time in all of the given values. *)
Sample(values) == [u \in Unit |-> CHOOSE v \in values[u] : TRUE]

(* IsDue reads back what the builder methods wrote: an event is due at     *)
(* exactly the times its methods name, for every value of every field,     *)
(* however many digits it takes and whatever methods were chained.         *)
DueAsMeant ==
  \A u \in Unit : \A v \in Values[u] :
    IsDue([Sample(meaning) EXCEPT ![u] = v]) <=> v \in meaning[u]
=============================================================================
