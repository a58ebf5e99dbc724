\* The defaults of settings.py in minutes; runs late, dropped, restarted.
SPECIFICATION Spec
CONSTANTS
  ReminderAfter = 30
  AutoAfter = 180
  Interval = 10
  Late = 1
  MaxDisturbed = 2
INVARIANTS RemindedOnce ResolvedInTime
CHECK_DEADLOCK FALSE
