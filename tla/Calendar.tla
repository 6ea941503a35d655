--------------------------------- MODULE Calendar ---------------------------------
(***************************************************************************)
(* The exchange's calendar computed by rule (packages/core/src/calendar/   *)
(* nyse.ts), that of the federal agencies (calendar/us-federal.ts), and    *)
(* the instants from which what they publish is known (data/lag-rules.ts). *)
(* A date is its number of days since Monday 3 January 2000, an instant is *)
(* [day, minute] on the exchange's clock.                                  *)
(***************************************************************************)
EXTENDS Integers, FiniteSets, Sequences, FiniteSetsExt

(* Any other year is refused.                                              *)
SupportedYears == 2000..2100

-----------------------------------------------------------------------------
(* Dates.                                                                  *)

LeapDays(y) == (y \div 4) - (y \div 100) + (y \div 400)

DaysBefore == <<0, 31, 59, 90, 120, 151, 181, 212, 243, 273, 304, 334>>

IsLeap(y) == y % 4 = 0 /\ (y % 100 # 0 \/ y % 400 = 0)

Ymd(y, month, d) ==
  365 * (y - 2000) + LeapDays(y - 1) - LeapDays(1999) + DaysBefore[month]
  + (IF month > 2 /\ IsLeap(y) THEN 1 ELSE 0) + d - 3

(* Monday is 1 and Sunday 0.                                               *)
Weekday(date) == (date + 1) % 7

(* A supported one, or the one before or after.                            *)
YearOf(date) ==
  LET near == 2000 + (date \div 366) IN CHOOSE y \in near..(near + 1) : Ymd(y, 1, 1) <= date /\ date < Ymd(y + 1, 1, 1)

NthWeekdayOfMonth(y, month, wd, n) ==
  LET first == Ymd(y, month, 1) IN first + ((wd - Weekday(first) + 7) % 7) + (n - 1) * 7

LastWeekdayOfMonth(y, month, wd) ==
  LET last == (IF month = 12 THEN Ymd(y + 1, 1, 1) ELSE Ymd(y, month + 1, 1)) - 1
  IN last - ((Weekday(last) - wd + 7) % 7)

(* Saturday's is kept on Friday and Sunday's on Monday.                    *)
Observed(date) == CASE Weekday(date) = 6 -> date - 1 [] Weekday(date) = 0 -> date + 1 [] OTHER -> date

EasterSunday(y) ==
  LET a == y % 19
      b == y \div 100
      c == y % 100
      g == (b - ((b + 8) \div 25) + 1) \div 3
      h == (19 * a + b - (b \div 4) - g + 15) % 30
      l == (32 + 2 * (b % 4) + 2 * (c \div 4) - h - (c % 4)) % 7
      n == h + l - 7 * ((a + 11 * h + 22 * l) \div 451) + 114
  IN Ymd(y, n \div 31, (n % 31) + 1)

-----------------------------------------------------------------------------
(* The exchange.                                                           *)

(* A New Year's Day on a Saturday is not made up for.                      *)
NyseHolidays(y) ==
  LET jan1 == Ymd(y, 1, 1)
  IN (IF Weekday(jan1) = 6 THEN {} ELSE {Observed(jan1)})
     \cup {NthWeekdayOfMonth(y, 1, 1, 3), NthWeekdayOfMonth(y, 2, 1, 3), EasterSunday(y) - 2, LastWeekdayOfMonth(y, 5, 1)}
     \cup {Observed(Ymd(y, 6, 19)) : x \in {z \in {y} : z >= 2022}}
     \cup {Observed(Ymd(y, 7, 4)), NthWeekdayOfMonth(y, 9, 1, 1), NthWeekdayOfMonth(y, 11, 4, 4), Observed(Ymd(y, 12, 25))}

NyseEarlyCloses(y) ==
  {NthWeekdayOfMonth(y, 11, 4, 4) + 1}
  \cup {d \in {Ymd(y, 7, 3), Ymd(y, 12, 24)} : Weekday(d) \notin {0, 6} /\ d \notin NyseHolidays(y)}

(* Mourning and disasters.                                                 *)
AdhocClosures ==
  {Ymd(2001, 9, d) : d \in 11..14} \cup {Ymd(2012, 10, d) : d \in {29, 30}}
  \cup {Ymd(2004, 6, 11), Ymd(2007, 1, 2), Ymd(2018, 12, 5), Ymd(2025, 1, 9)}

IsHoliday(date) == date \in NyseHolidays(YearOf(date)) \cup AdhocClosures

IsSession(date) == Weekday(date) \notin {0, 6} /\ ~IsHoliday(date)

IsEarlyClose(date) == IsSession(date) /\ date \in NyseEarlyCloses(YearOf(date))

SessionOpen(date) == [day |-> date, minute |-> 9 * 60 + 30]

SessionClose(date) == [day |-> date, minute |-> IF IsEarlyClose(date) THEN 13 * 60 ELSE 16 * 60]

Later(a, b) == a.day > b.day \/ (a.day = b.day /\ a.minute > b.minute)

(* Thirty days at most are searched, in order: none is an error.           *)
SearchDays == 0..29

NextSession(after) ==
  LET found == {i \in SearchDays : IsSession(after.day + i) /\ Later(SessionOpen(after.day + i), after)}
  IN {after.day + Min(found) : x \in {s \in {found} : s # {}}}

PreviousSession(before) ==
  LET found == {i \in SearchDays : IsSession(before.day - i) /\ ~Later(SessionClose(before.day - i), before)}
  IN {before.day - Min(found) : x \in {s \in {found} : s # {}}}

SessionDates(from, to) == {d \in from..to : IsSession(d)}

-----------------------------------------------------------------------------
(* The agencies. A holiday of the next year can be kept in this one.       *)

Candidates(y) ==
  {Observed(Ymd(y, 1, 1)), NthWeekdayOfMonth(y, 1, 1, 3), NthWeekdayOfMonth(y, 2, 1, 3), LastWeekdayOfMonth(y, 5, 1)}
  \cup {Observed(Ymd(y, 6, 19)) : x \in {z \in {y} : z >= 2021}}
  \cup {Observed(Ymd(y, 7, 4)), NthWeekdayOfMonth(y, 9, 1, 1), NthWeekdayOfMonth(y, 10, 1, 2), Observed(Ymd(y, 11, 11)),
        NthWeekdayOfMonth(y, 11, 4, 4), Observed(Ymd(y, 12, 25))}

FederalHolidays(y) ==
  {d \in Candidates(y - 1) \cup Candidates(y) \cup Candidates(y + 1) : Ymd(y, 1, 1) <= d /\ d < Ymd(y + 1, 1, 1)}

IsFederalBusinessDay(date) == Weekday(date) \notin {0, 6} /\ date \notin FederalHolidays(YearOf(date))

-----------------------------------------------------------------------------
(* When a source's observation may be known (data/lag-rules.ts).           *)

At(date, hour, minute) == [day |-> date, minute |-> 60 * hour + minute]

Known(instant, flags) == [at |-> instant, flags |-> flags]

(* The next session's morning, unless accepted in time on a session.       *)
SecDissemination(accepted) ==
  LET next == Min({d \in {accepted.day + 1 + i : i \in SearchDays} : IsSession(d)})
  IN IF IsSession(accepted.day) /\ ~Later(accepted, At(accepted.day, 17, 30)) THEN Known(accepted, {})
     ELSE Known(At(next, 6, 0), {"AFTER_HOURS_ACCEPTANCE"})

(* The end of the second session after the transaction.                    *)
Form4Deadline(transaction) ==
  LET sessions == {d \in {transaction + 1 + i : i \in SearchDays} : IsSession(d)}
  IN At(Min(sessions \ {Min(sessions)}), 22, 0)

Form4Known(transaction, accepted) ==
  LET seen == SecDissemination(accepted)
  IN Known(seen.at, seen.flags \cup IF Later(accepted, Form4Deadline(transaction)) THEN {"LATE_FILING"} ELSE {})

(* The report as of a Tuesday comes on its Friday, or after the weekend    *)
(* when an agency was closed in between.                                   *)
CotRelease(tuesday) ==
  LET friday == tuesday + 3
      closed == {d \in tuesday..friday : d \in FederalHolidays(YearOf(d))}
      next == Min({d \in {friday + 3 + i : i \in SearchDays} : IsFederalBusinessDay(d)})
  IN IF closed = {} THEN Known(At(friday, 15, 30), {})
     ELSE Known(At(next, 15, 30), {"RELEASE_DELAYED"} \cup IF tuesday \in closed THEN {"AVAILABLE_AT_ESTIMATED"} ELSE {})

Estimated(instant) == Known(instant, {"AVAILABLE_AT_ESTIMATED"})

FredRelease(vintage) == Estimated(At(vintage, 8, 30))

TreasuryPublication(date) == Estimated(At(date, 16, 0))

DailyBarKnown(session) ==
  LET close == SessionClose(session) IN Estimated([close EXCEPT !.minute = @ + 60])

(* The quarter's last day, and 45 days on.                                 *)
QuarterEnd(y, month) ==
  LET last == 3 * ((month + 2) \div 3)
  IN (IF last = 12 THEN Ymd(y + 1, 1, 1) ELSE Ymd(y, last + 1, 1)) - 1

ThirteenFDeadline(quarterEnd) == At(quarterEnd + 45, 17, 30)

=============================================================================
