----------------------------- MODULE Scheduler -----------------------------
(***************************************************************************)
(* When run-scheduled finds a source due.  The launcher starts it every    *)
(* Period minutes: the crontab entry at fixed minutes of the hour, the     *)
(* systemd timer counting from its first start after the boot.  A start    *)
(* may come late, and the timer counts from there.                         *)
(*                                                                         *)
(* A schedule has a field for each unit of time: any value (`*`), every    *)
(* n-th (`*`/n) or exactly n.                                              *)
(***************************************************************************)
EXTENDS Integers

CONSTANTS
  Schedule,  \* the schedules of the sources
  First,     \* the minutes of the day at which the launcher may start first
  Period,    \* minutes from one start to the next
  Late,      \* by how many minutes a start may be late
  Today      \* day of the month, month and day of the week: they do not change

ASSUME SchedulerAssumption ==
  /\ First \subseteq 0 .. 1439
  /\ Period \in 1 .. 1439 /\ Late \in 0 .. 1439

VARIABLES
  schedule,  \* the schedule of a source
  now        \* the minute of the day of the last start

schedulerVars == <<schedule, now>>

Unit == {"minute", "hour", "dayOfMonth", "month", "dayOfWeek"}

Clock(m) == [Today EXCEPT !.minute = m % 60, !.hour = m \div 60]

\* Mutant: every n-th value is counted from 1.
ParseFieldFromOne(field, value) ==
  \/ field.kind = "any"
  \/ field.kind = "every" /\ field.n > 0 /\ value % field.n = 1
  \/ field.kind = "exact" /\ value = field.n

ParseField(field, value) ==
  \/ field.kind = "any"
  \/ field.kind = "every" /\ field.n > 0 /\ value % field.n = 0
  \/ field.kind = "exact" /\ value = field.n

IsScheduleDue(s, time) == \A u \in Unit : ParseField(s[u], time[u])

SchedulerInit == schedule \in Schedule /\ now \in First

\* The launcher starts the next run-scheduled.
Launch ==
  /\ \E late \in 0 .. Late : now' = (now + Period + late) % 1440
  /\ UNCHANGED schedule

SchedulerSpec == SchedulerInit /\ [][Launch]_schedulerVars /\ WF_schedulerVars(Launch)

-----------------------------------------------------------------------------
\* infra/systemd/mempalace-sync.timer, line 2: the timer runs the sync daemon on
\* schedule, so a source with a schedule is due time and again.
RunsOnSchedule == []<>IsScheduleDue(schedule, Clock(now))
=============================================================================
