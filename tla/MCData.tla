--------------------------------- MODULE MCData ---------------------------------
(***************************************************************************)
(* The data plane on two symbols: seeds, jobs, crashes, failed requests    *)
(* and lost files in every order.                                          *)
(***************************************************************************)
EXTENDS DataPlane, HttpClient

MCActionDays == {<<1, 2>>}

MCSeeds == {<<MaxSession, "none">>}

-----------------------------------------------------------------------------
(* The sessions the plan counts in are the exchange's.                     *)

Nyse == INSTANCE Calendar

MCDates == UNION {Nyse!Ymd(y, 1, 1)..Nyse!Ymd(y, 1, 5) \cup Nyse!Ymd(y, 7, 1)..Nyse!Ymd(y, 7, 6) \cup Nyse!Ymd(y, 12, 22)..Nyse!Ymd(y, 12, 31) :
                    y \in {2021, 2022, 2023, 2027, 2028}}
           \cup Nyse!Ymd(2001, 9, 7)..Nyse!Ymd(2001, 9, 18) \cup Nyse!Ymd(2012, 10, 26)..Nyse!Ymd(2012, 11, 1)

(* The rules never close the exchange on a weekend or twice for one day,   *)
(* and Easter is a Sunday between 22 March and 25 April.                   *)
ASSUME HolidaysAreWeekdays ==
  \A y \in Nyse!SupportedYears :
    /\ \A d \in Nyse!NyseHolidays(y) : Nyse!Weekday(d) \in 1..5 /\ Nyse!Ymd(y, 1, 1) <= d /\ d < Nyse!Ymd(y + 1, 1, 1)
    /\ Cardinality(Nyse!NyseHolidays(y)) = 9 + (IF y >= 2022 THEN 1 ELSE 0) - (IF Nyse!Weekday(Nyse!Ymd(y, 1, 1)) = 6 THEN 1 ELSE 0)
    /\ Nyse!Weekday(Nyse!EasterSunday(y)) = 0 /\ Nyse!EasterSunday(y) \in Nyse!Ymd(y, 3, 22)..Nyse!Ymd(y, 4, 25)
    /\ Nyse!NyseEarlyCloses(y) \cap Nyse!NyseHolidays(y) = {}
    /\ \A d \in Nyse!FederalHolidays(y) : Nyse!Weekday(d) \in 1..5

(* Before and after a session lie the sessions that have it after and      *)
(* before, across weekends, holidays and disasters.                        *)
ASSUME SessionsAreInOrder ==
  \A d \in MCDates : Nyse!IsSession(d) =>
    /\ \A n \in Nyse!NextSession(Nyse!SessionOpen(d)) : n > d /\ Nyse!PreviousSession(Nyse!SessionOpen(n)) = {d}
    /\ Nyse!NextSession(Nyse!SessionOpen(d)) # {} /\ Nyse!PreviousSession(Nyse!SessionClose(d)) = {d}

(* A filing is known on acceptance or on the morning of the first session  *)
(* after it, never before; and it is late exactly when two sessions have    *)
(* passed since the transaction, the day of acceptance counted only when   *)
(* it is over.                                                             *)
MCInstants == {Nyse!At(d, h, 0) : d \in MCDates, h \in {5, 17, 18, 23}}

ASSUME FilingsWaitForTheMorning ==
  \A a \in MCInstants :
    LET known == Nyse!SecDissemination(a).at
        eve == Nyse!At(known.day, 6, 0)
    IN /\ ~Nyse!Later(a, known) /\ Nyse!IsSession(known.day)
       /\ Nyse!SessionDates(a.day + 1, known.day - 1) = {} /\ (known # a => known = eve)
       /\ \A t \in (a.day - 9)..a.day :
            ("LATE_FILING" \in Nyse!Form4Known(t, a).flags)
              = (Cardinality(Nyse!SessionDates(t + 1, a.day)) > (IF Nyse!IsSession(a.day) /\ a.minute <= 22 * 60 THEN 2 ELSE 1))

(* Reports come out in the order of their Tuesdays, on a day the agency    *)
(* works, three to eight days later, and one that is not delayed on a      *)
(* Friday; a bar is known before its next session opens, and a quarter's   *)
(* holdings before the next quarter ends.                                  *)
ASSUME ReportsComeInOrder ==
  /\ \A y \in {2004, 2021, 2026, 2027, 2032} : \A t \in {d \in Nyse!Ymd(y, 1, 1)..Nyse!Ymd(y, 12, 31) : Nyse!Weekday(d) = 2} :
       LET known == Nyse!CotRelease(t)
       IN /\ known.at.day \in (t + 3)..(t + 8) /\ Nyse!IsFederalBusinessDay(known.at.day)
          /\ (known.flags = {}) = (Nyse!Weekday(known.at.day) = 5)
          /\ Nyse!Later(Nyse!CotRelease(t + 7).at, known.at)
  /\ \A d \in MCDates : Nyse!IsSession(d) =>
       \A n \in Nyse!NextSession(Nyse!SessionOpen(d)) : Nyse!Later(Nyse!SessionOpen(n), Nyse!DailyBarKnown(d).at)
  /\ \A y \in {2023, 2024}, month \in 1..12 :
       LET q == Nyse!QuarterEnd(y, month)
           next == Nyse!QuarterEnd(Nyse!YearOf(q + 1), 1 + ((month + 2) % 12))
       IN q - Nyse!Ymd(y, month, 1) \in 27..91 /\ Nyse!ThirteenFDeadline(q).day < next

-----------------------------------------------------------------------------
(* The requests go out through the client.                                 *)

MCUrl == [https |-> TRUE, host |-> "api"]

MCAnswers ==
  {[status |-> s, bytes |-> 1, after |-> Absent] : s \in {200, 304, 404, Absent}}
  \cup {[status |-> 429, bytes |-> 1, after |-> a] : a \in {Absent, 0, 7, 900}} \cup {[status |-> 200, bytes |-> 99, after |-> Absent]}

(* The first answer that is not a throttle decides, unless the retries are *)
(* spent before it comes; nothing is sent after it, or to another host.    *)
ASSUME RetriesAreBounded ==
  \A a, b, c, d \in MCAnswers :
    LET answers == <<a, b, c, d>>
        r == HttpRequest(MCUrl, answers)
        plain == {i \in 1..4 : answers[i].status # 429 \/ i = MaxRetries + 1}
    IN /\ r.sent = Min(plain)
       /\ (r.outcome = "body") = (answers[r.sent].status = 200 /\ answers[r.sent].bytes <= MaxBytes)
       /\ \A i \in DOMAIN r.waits : \A w \in r.waits[i] : 0 <= w /\ w <= MaxRetryDelay
       /\ HttpRequest([MCUrl EXCEPT !.https = FALSE], answers).sent = 0

(* The bucket starts full and refills: any second sees at most twice the   *)
(* rate, and a burst does reach it.                                        *)
ASSUME RateIsBounded ==
  LET grants == {Grants(2, <<a, b, c, d, e>>) : a, b, c, d, e \in {0, 300, 1100}}
      within(g) == {Cardinality({j \in DOMAIN g : g[i] <= g[j] /\ g[j] < g[i] + 1000}) : i \in DOMAIN g}
  IN /\ \A g \in grants : \A n \in within(g) : n <= 4
     /\ \A g \in grants : \A i \in 2..Len(g) : g[i] >= g[i - 1]
     /\ \E g \in grants : 3 \in within(g)

-----------------------------------------------------------------------------
(* The database is copied, and the copies are pruned.             *)

MCFiles == {[day |-> d, time |-> 1] : d \in {0, 3, 6, 7, 8, 13, 14, 20}} \cup {[day |-> 6, time |-> 2], [day |-> 20, time |-> 2]}

(* Whatever there is, the newest copy survives, a copy of each of the last *)
(* days and weeks does, and pruning what was pruned deletes nothing.       *)
ASSUME PruningKeepsTheNewest ==
  \A copies \in SUBSET MCFiles, n \in {1, 2}, w \in {1, 2} :
    LET kept == PruneBackups(copies, n, w).kept
    IN /\ \A f \in copies : (\A o \in copies \ {f} : NewerFile(f, o)) => f \in kept
       /\ \A f \in copies : \E k \in kept : k.day >= f.day
       /\ \A f \in copies : Cardinality({d \in {o.day : o \in copies} : d > f.day}) < n => \E k \in kept : k.day = f.day
       /\ Cardinality(kept) <= n + w /\ PruneBackups(kept, n, w).deleted = {}

=============================================================================
