------------------------------ MODULE Reports ------------------------------
(***************************************************************************)
(* The reports: pkg/reporting, which the finance, project and purchase     *)
(* services share, says which days a named range covers and which bars a   *)
(* chart of it has; the services count their rows into the bars, and the   *)
(* finance service adds up its ledger.                                     *)
(*                                                                         *)
(* A day is a number; day 0 is Monday, 1 January 2024.  A month is a number *)
(* too, month 0 being that January.  Of the time of day only this matters: *)
(* whether it is after 23:59:59, the last moment that a window includes.   *)
(* The label of a bar is the number of its week, month, quarter or year.   *)
(*                                                                         *)
(* Services and database are taken to count days in the same time zone.    *)
(***************************************************************************)
EXTENDS Integers, FiniteSets, FiniteSetsExt

CONSTANTS
  MinYear, MaxYear,  \* the years that there is a calendar for; 2024 is year 0
  Day,        \* the days on which something happens
  Line,       \* identifiers of ledger entries
  Row,        \* the projects and purchases that there may be
  MaxWrites   \* bound: rows created and entries recorded

ASSUME YearsAssumption ==
  MinYear \in Int /\ MaxYear \in Int /\ MinYear + 3 <= MaxYear

Month == 12 * MinYear..(12 * MaxYear + 11)

(* Years are counted from 2024, which is a multiple of 4, and 24 after 2000. *)
IsLeap(year) == year % 4 = 0 /\ ((year + 24) % 100 # 0 \/ (year + 24) % 400 = 0)

(* The first day of a year, a day later for each leap year before it; and   *)
(* the days of a year before each of its months, but for 29 February.       *)
NewYear(year) ==
  365 * year + (year + 3) \div 4 - (year + 23) \div 100 + (year + 23) \div 400
DaysBefore == <<0, 31, 59, 90, 120, 151, 181, 212, 243, 273, 304, 334>>

(* The first day of each month, and the month of each day.                  *)
MonthStart == [m \in 12 * MinYear..(12 * MaxYear + 12) |->
  NewYear(m \div 12) + DaysBefore[(m % 12) + 1]
    + (IF IsLeap(m \div 12) /\ m % 12 >= 2 THEN 1 ELSE 0)]

MonthAt == [n \in NewYear(MinYear)..(NewYear(MaxYear + 1) - 1) |->
  CHOOSE m \in Month : MonthStart[m] <= n /\ n < MonthStart[m + 1]]

(* Reports look back three years, and a week may run into the next.         *)
ASSUME DayAssumption ==
  Day \subseteq MonthStart[12 * (MinYear + 3)]..(MonthStart[12 * MaxYear] - 1)
ASSUME WritesAssumption == MaxWrites \in Nat

VARIABLES
  today,    \* time.Now(), to the day
  ledger,   \* lapkeus, by identifier
  counted,  \* the projects and purchases there are
  writes

reports == <<today, ledger, counted, writes>>

Kind   == {"purchase", "penjualan", "distribusi"}
Filter == {"ALL", "DONE", "CANCELLED"}

(* A project or a purchase, as far as reports look at it.                  *)
Report == [kind : Kind, status : {"open", "done", "cancelled"}, day : Day, late : BOOLEAN]

(* An entry; -1 stands for NULL, and what its date says is for InWindow.    *)
Activity == {"penjualan", "distribusi", "pembelian", "maintenance"}
Lapkeu == [type : Activity, income : -1..2, expense : -1..1, dated : BOOLEAN,
           day : Day, late : BOOLEAN]

Absent == [kind |-> "absent"]

ReportsInit ==
  /\ today \in {d \in Day : \A e \in Day : d <= e}
  /\ ledger = [l \in Line |-> Absent]
  /\ counted = [r \in Row |-> Absent]
  /\ writes = 0

-----------------------------------------------------------------------------
(* pkg/reporting: dates and windows.                                       *)

DayInMonth(n) == n - MonthStart[MonthAt[n]]

(* time.AddDate: a day that the month does not have runs into the next one. *)
AddDate(n, years, months, days) ==
  MonthStart[MonthAt[n] + 12 * years + months] + DayInMonth(n) + days

YearStart(n)    == MonthStart[12 * (MonthAt[n] \div 12)]
QuarterStart(n) == MonthStart[3 * (MonthAt[n] \div 3)]
StartOfMonth(n) == MonthStart[MonthAt[n]]
MondayOf(n)     == n - (n % 7)

Window(start, end) == [start |-> start, end |-> end]

RangeName == {"THIS_MONTH", "THIS_QUARTER", "THIS_YEAR", "LAST_YEAR"}

LastYear(n) == Window(YearStart(YearStart(n) - 1), YearStart(n) - 1)

RangeWindow(range, n) ==
  CASE range = "THIS_MONTH"   -> Window(StartOfMonth(n), n)
    [] range = "THIS_QUARTER" -> Window(QuarterStart(n), n)
    [] range = "THIS_YEAR"    -> Window(YearStart(n), n)
    [] range = "LAST_YEAR"    -> LastYear(n)

AllowedPeriods(range) ==
  CASE range = "THIS_MONTH"   -> {"WEEKLY"}
    [] range = "THIS_QUARTER" -> {"MONTHLY"}
    [] OTHER                  -> {"MONTHLY", "QUARTERLY"}

YearBefore(w) == Window(AddDate(w.start, -1, 0, 0), AddDate(w.end, -1, 0, 0))

(* The WHERE clause of every report: start <= date <= end, to the second.   *)
InWindow(x, w) == w.start <= x.day /\ (x.day < w.end \/ (x.day = w.end /\ ~x.late))

(* The number of a week, counted from the one the window's first month begins in. *)
WeekLabel(n, w) == (MondayOf(n) - MondayOf(StartOfMonth(w.start))) \div 7 + 1

-----------------------------------------------------------------------------
(* Slips: definitions of this module as a careless change to the code would *)
(* leave them.  None is part of the specification; each breaks a property.  *)

(* only the weeks that begin in the opening month *)
WeeksBegunIn(w) ==
  {WeekLabel(n, w) : n \in {m \in MondayOf(w.start)..w.end :
     m % 7 = 0 /\ MonthAt[m] = MonthAt[w.start]}}

(* the month before, found by moving both ends of the month *)
BothEndsMoved(range, n) ==
  LET month == Window(StartOfMonth(n), AddDate(StartOfMonth(n), 0, 1, -1))
      year  == LastYear(n)
      quarter == Window(QuarterStart(n), AddDate(QuarterStart(n), 0, 3, -1))
      this == Window(YearStart(n), AddDate(YearStart(n), 0, 11, 30))
      w == CASE range = "THIS_YEAR" -> this [] range = "THIS_QUARTER" -> quarter
             [] range = "THIS_MONTH" -> month [] range = "LAST_YEAR" -> year
  IN [current |-> w, previous |-> IF range # "THIS_MONTH" THEN YearBefore(w)
        ELSE Window(AddDate(w.start, 0, -1, 0), AddDate(w.end, 0, -1, 0))]

(* an ALL that leaves nothing out, as its name would have it *)
ScopeOfAll(filter, status) ==
  CASE filter = "CANCELLED" -> status = "cancelled"
    [] filter = "DONE"      -> status = "done"
    [] filter = "ALL"       -> TRUE

(* sums that take a row without a date as one of every window *)
UndatedToo(w) == {l \in Line : ledger[l] # Absent /\ (~ledger[l].dated \/ InWindow(ledger[l], w))}

-----------------------------------------------------------------------------
(* A window that is compared with the one of a year before, except a month, *)
(* which is compared with the month before.                                 *)
SummaryWindows(range, n) ==
  LET year    == Window(YearStart(n), AddDate(YearStart(n), 0, 11, 30))
      quarter == Window(QuarterStart(n), AddDate(QuarterStart(n), 0, 3, -1))
      month   == Window(StartOfMonth(n), AddDate(StartOfMonth(n), 0, 1, -1))
      before  == AddDate(StartOfMonth(n), 0, -1, 0)
      With(w) == [current |-> w, previous |-> YearBefore(w)]
  IN CASE range = "THIS_YEAR"    -> With(year)
       [] range = "THIS_QUARTER" -> With(quarter)
       [] range = "THIS_MONTH"   -> [current |-> month,
                                     previous |-> Window(before, AddDate(before, 0, 1, -1))]
       [] range = "LAST_YEAR"    -> With(LastYear(n))

-----------------------------------------------------------------------------
(* The bars of a chart.                                                    *)

(* The weeks of a window of which a day lies in its opening month.          *)
WeekPeriods(w) ==
  {WeekLabel(n, w) : n \in {m \in MondayOf(w.start)..w.end :
     m % 7 = 0 /\ \E k \in 0..6 : MonthAt[m + k] = MonthAt[w.start]}}

Months(w) == MonthAt[w.start]..MonthAt[w.end]

Periods(period, w) ==
  CASE period = "WEEKLY"    -> WeekPeriods(w)
    [] period = "MONTHLY"   -> Months(w)
    [] period = "QUARTERLY" -> {m \div 3 : m \in Months(w)}

(* to_char and date_trunc: the bar that a row is counted in.               *)
PeriodOf(period, n, w) ==
  CASE period = "WEEKLY"    -> WeekLabel(n, w)
    [] period = "MONTHLY"   -> MonthAt[n]
    [] period = "QUARTERLY" -> MonthAt[n] \div 3

-----------------------------------------------------------------------------
(* ActivityLine, of the purchase and of the project service.                *)

Scope(filter, status) ==
  CASE filter = "CANCELLED" -> status = "cancelled"
    [] filter = "DONE"      -> status = "done"
    [] filter = "ALL"       -> status # "cancelled"

Selected(kind, filter) ==
  {r \in Row : counted[r] # Absent /\ counted[r].kind = kind /\ Scope(filter, counted[r].status)}

(* aggregate: the groups that the database finds rows for, by their labels. *)
Aggregate(kind, period, w, filter) ==
  LET rows == {r \in Selected(kind, filter) : InWindow(counted[r], w)}
      Label(r) == PeriodOf(period, counted[r].day, w)
  IN [p \in {Label(r) : r \in rows} |-> Cardinality({r \in rows : Label(r) = p})]

(* A bar for every period of the window; a group that is not one of them is *)
(* dropped.                                                                 *)
ActivityLine(kind, period, range, filter) ==
  LET w == RangeWindow(range, today)
      counts == Aggregate(kind, period, w, filter)
  IN [p \in Periods(period, w) |-> IF p \in DOMAIN counts THEN counts[p] ELSE 0]

(* SummaryByRange counts every status, over the whole of the period.        *)
SummaryByRange(kind, range) ==
  LET w == SummaryWindows(range, today)
      rows == {r \in Row : counted[r] # Absent /\ counted[r].kind = kind}
  IN [current  |-> Cardinality({r \in rows : InWindow(counted[r], w.current)}),
      previous |-> Cardinality({r \in rows : InWindow(counted[r], w.previous)})]

(* ListByRange of the purchase service: the list of purchases takes its end *)
(* for the midnight a day begins with, adds a day, and is given 23:59:59.   *)
ListByRange(range) ==
  LET w == RangeWindow(range, today)
  IN {r \in Row : /\ counted[r] # Absent /\ counted[r].kind = "purchase"
                  /\ InWindow(counted[r], Window(w.start, AddDate(w.end, 0, 0, 1)))}

-----------------------------------------------------------------------------
(* The ledger: sums that take NULL for nothing.                            *)

Between(w) == {l \in Line : ledger[l] # Absent /\ ledger[l].dated /\ InWindow(ledger[l], w)}

Total(f) == MapThenSumSet(LAMBDA x : f[x], {x \in DOMAIN f : f[x] # 0})

Amount(n) == IF n = -1 THEN 0 ELSE n
Pemasukan(lines)   == Total([l \in lines |-> Amount(ledger[l].income)])
Pengeluaran(lines) == Total([l \in lines |-> Amount(ledger[l].expense)])

OfType(lines, types) == {l \in lines : ledger[l].type \in types}

(* aggregate: the groups of entries, by their labels.                       *)
Groups(period, w) ==
  LET Label(l) == PeriodOf(period, ledger[l].day, w)
  IN [p \in {Label(l) : l \in Between(w)} |-> {l \in Between(w) : Label(l) = p}]

IncomeExpenseChart(period, range) ==
  LET w == RangeWindow(range, today)
      groups == Groups(period, w)
      In(p) == IF p \in DOMAIN groups THEN groups[p] ELSE {}
      bars == Periods(period, w)
  IN [income  |-> [p \in bars |-> Pemasukan(In(p))],
      expense |-> [p \in bars |-> Pengeluaran(In(p))]]

IncomeExpenseTotals(period, range) ==
  LET chart == IncomeExpenseChart(period, range)
  IN [income |-> Total(chart.income), expense |-> Total(chart.expense)]

(* ExpenseByActivityType leaves out what has no outgoings.                  *)
ExpenseChart(range) ==
  LET lines == {l \in Between(RangeWindow(range, today)) : ledger[l].expense # -1}
  IN [type \in {ledger[l].type : l \in lines} |-> Pengeluaran(OfType(lines, {type}))]

FinancialSummary(range) ==
  LET lines == Between(SummaryWindows(range, today).current)
  IN [income      |-> Pemasukan(lines),
      distribusi  |-> Pemasukan(OfType(lines, {"distribusi"})),
      penjualan   |-> Pemasukan(OfType(lines, {"penjualan"})),
      purchase    |-> Pengeluaran(OfType(lines, {"pembelian"})),
      maintenance |-> Pengeluaran(OfType(lines, {"maintenance"})),
      project     |-> Pengeluaran(OfType(lines, {"distribusi", "penjualan"})),
      profit      |-> Pemasukan(lines) - Pengeluaran(lines)]

-----------------------------------------------------------------------------
(* What the reports are about comes about.                                  *)

Midnight ==
  /\ today' \in {d \in Day : d > today /\ \A e \in Day : e > today => d <= e}
  /\ UNCHANGED <<ledger, counted, writes>>

Written == writes < MaxWrites /\ writes' = writes + 1

(* A purchase is submitted or a project recorded; later it ends.            *)
Submit(r, kind, late) ==
  /\ counted[r] = Absent
  /\ Written
  /\ counted' = [counted EXCEPT ![r] = [kind |-> kind, status |-> "open", day |-> today, late |-> late]]
  /\ UNCHANGED <<today, ledger>>

Settle(r, status) ==
  /\ counted[r] # Absent /\ counted[r].status = "open"
  /\ counted' = [counted EXCEPT ![r].status = status]
  /\ UNCHANGED <<today, ledger, writes>>

(* What the services send: a sale costs nothing, a purchase and a job in    *)
(* the workshop bring nothing in.                                           *)
Sent(type) ==
  CASE type = "penjualan"   -> [income |-> 2, expense |-> 0]
    [] type = "distribusi"  -> [income |-> 2, expense |-> 1]
    [] type = "pembelian"   -> [income |-> -1, expense |-> 1]
    [] type = "maintenance" -> [income |-> -1, expense |-> 1]

(* Record: Upsert replaces the entry that has the identifier already.       *)
Upsert(l, type, dated, day, late) ==
  /\ Written
  /\ ledger' = [ledger EXCEPT ![l] =
       [type |-> type, income |-> Sent(type).income, expense |-> Sent(type).expense,
        dated |-> dated, day |-> day, late |-> late]]
  /\ UNCHANGED <<today, counted>>

Remove(l) ==
  /\ ledger[l] # Absent
  /\ ledger' = [ledger EXCEPT ![l] = Absent]
  /\ UNCHANGED <<today, counted, writes>>

ReportsNext ==
  \/ Midnight
  \/ \E r \in Row, kind \in Kind, late \in BOOLEAN : Submit(r, kind, late)
  \/ \E r \in Row, status \in {"done", "cancelled"} : Settle(r, status)
  \/ \E l \in Line, type \in Activity, day \in Day, late \in BOOLEAN :
       Upsert(l, type, TRUE, day, late)
  \/ \E l \in Line, type \in Activity : Upsert(l, type, FALSE, today, FALSE)
  \/ \E l \in Line : Remove(l)

ReportsSpec == ReportsInit /\ [][ReportsNext]_reports

-----------------------------------------------------------------------------
(* Properties.                                                             *)

ReportsTypeOK ==
  /\ today \in Day
  /\ ledger \in [Line -> Lapkeu \cup {Absent}]
  /\ counted \in [Row -> Report \cup {Absent}]
  /\ writes \in 0..MaxWrites

Entries  == {l \in Line : ledger[l] # Absent}
Recorded == {r \in Row : counted[r] # Absent}

(* What the reports rely on, whatever was recorded: entries have the sums   *)
(* that the services send for their types, and nothing is submitted on a    *)
(* day to come; however many identifiers there may be, finitely many are    *)
(* in use.                                                                  *)
ReportsInv ==
  /\ ReportsTypeOK
  /\ IsFiniteSet(Entries) /\ IsFiniteSet(Recorded)
  /\ \A l \in Entries : /\ ledger[l].income = Sent(ledger[l].type).income
                         /\ ledger[l].expense = Sent(ledger[l].type).expense
  /\ \A r \in Recorded : counted[r].day <= today

(* EndOfDay: "so a closed range includes everything recorded on the final   *)
(* date".  Whatever the range, its granularity, the kind and the filter,    *)
(* the bars of a chart together count every row of the window's days, and   *)
(* none twice, although the labels come from one piece of code and the      *)
(* groups from another; all but what is recorded after 23:59:59 of the last.*)
BarsAddUp ==
  \A kind \in {counted[r].kind : r \in Row} \cap Kind, filter \in Filter :
    \A range \in RangeName : \A period \in AllowedPeriods(range) :
      LET w == RangeWindow(range, today)
      IN Total(ActivityLine(kind, period, range, filter))
           = Cardinality({r \in Selected(kind, filter) :
               /\ counted[r].day \in w.start..w.end
               /\ ~(counted[r].late /\ counted[r].day = w.end)})

(* What a dashboard shows side by side tells the same: the number of a      *)
(* summary, counted over a whole period, and the list of purchases of the   *)
(* range, which no status filters, have what the bars of ALL ("all active") *)
(* and of CANCELLED count together.  Besides, a period that is not over has *)
(* the last moment of today; and the list, which should be "the purchases   *)
(* submitted in a named range", has those of the day after as well, which   *)
(* for LAST_YEAR are the first purchases of this year.                      *)
CountsTellTheSame ==
  \A kind \in {counted[r].kind : r \in Row} \cap Kind :
    \A range \in RangeName : \A period \in AllowedPeriods(range) :
      LET w == RangeWindow(range, today)
          whole == SummaryWindows(range, today).current
          bars == Total(ActivityLine(kind, period, range, "ALL"))
                    + Total(ActivityLine(kind, period, range, "CANCELLED"))
          On(day, late) == {r \in Row : /\ counted[r] # Absent /\ counted[r].kind = kind
                                       /\ counted[r].day = day /\ counted[r].late = late}
          end == On(w.end, TRUE)
      IN /\ SummaryByRange(kind, range).current
              = bars + (IF w.end < whole.end THEN Cardinality(end) ELSE 0)
         /\ kind = "purchase" =>
              Cardinality(ListByRange(range)) = bars + Cardinality(end \cup On(w.end + 1, FALSE))

(* FinancialSummary and the charts of the same range tell the same story:   *)
(* the panel says what the bars and the slices add up to, and what is dated *)
(* after today; and its parts make its totals.                              *)
PanelAgreesWithCharts ==
  (\E l \in Line : ledger[l] # Absent) => \A range \in RangeName :
    LET panel == FinancialSummary(range)
        whole == SummaryWindows(range, today).current
        until == RangeWindow(range, today)
        ahead == {l \in Between(whole) : ~InWindow(ledger[l], until) /\ ledger[l].day >= today}
        expense == panel.purchase + panel.maintenance + panel.project
        slices == ExpenseChart(range)
    IN /\ panel.income = panel.distribusi + panel.penjualan
       /\ panel.profit = panel.income - expense
       /\ expense = Total(slices) + Pengeluaran(ahead)
       /\ \A period \in AllowedPeriods(range) :
            LET total == IncomeExpenseTotals(period, range)
            IN /\ panel.income = total.income + Pemasukan(ahead)
               /\ expense = total.expense + Pengeluaran(ahead)

(* SummaryWindows: a month is compared with the month before, a quarter or  *)
(* year with the same of the year before.  Whatever day it becomes, that is *)
(* a whole such period, the one that a summary asked for on its first or    *)
(* last day reported, and it shares no day with the current one.            *)
ComparedLikeWithLike ==
  [][today' # today =>
       \A range \in RangeName :
         LET w == SummaryWindows(range, today')
             asked == IF range = "LAST_YEAR" THEN w.current ELSE w.previous
         IN /\ w.previous.end < w.current.start
            /\ MonthAt[w.current.start] - MonthAt[w.previous.start]
                 = (IF range = "THIS_MONTH" THEN 1 ELSE 12)
            /\ \A n \in {asked.start, asked.end} :
                 SummaryWindows(range, n).current = w.previous]_reports
=============================================================================
