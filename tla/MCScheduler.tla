----------------------------- MODULE MCScheduler -----------------------------
(***************************************************************************)
(* The schedules of the examples under the systemd timer: it starts first  *)
(* two minutes after the boot, and then every 15 minutes.                  *)
(***************************************************************************)
EXTENDS Scheduler

Star == [kind |-> "any", n |-> 0]

ExampleSchedules ==
  [minute : {[kind |-> "every", n |-> 30], [kind |-> "exact", n |-> 0]}, hour : {Star},
   dayOfMonth : {Star}, month : {Star}, dayOfWeek : {Star}]

AfterBoot == {(boot + 2) % 1440 : boot \in 0 .. 59}

ADay == [minute |-> 0, hour |-> 0, dayOfMonth |-> 1, month |-> 1, dayOfWeek |-> 4]
=============================================================================
