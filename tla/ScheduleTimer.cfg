SPECIFICATION SchedulerSpec
CONSTANTS
  Schedule <- ExampleSchedules
  First <- AfterBoot
  Period = 15
  Late = 1
  Today <- ADay
PROPERTY RunsOnSchedule
