--------------------------- MODULE BackupScheduler ---------------------------
(***************************************************************************)
(* When the scheduler backs up (service.rs backup_scheduler): it sleeps    *)
(* until 03:00 local time of the next day.  Time is counted in hours.      *)
(* What a backup does is in Backups.                                       *)
(***************************************************************************)
EXTENDS Naturals

CONSTANTS
    HoursPerDay,  \* 24
    BackupHour,   \* 3, less than HoursPerDay
    Days,         \* bound on the days followed
    Ambiguous     \* those whose 03:00 the local clock shows twice or skips

VARIABLES now, wake, pc

vars == <<now, wake, pc>>

(* The daemon starts at any hour of the first day.                         *)
Init == now \in 0 .. HoursPerDay - 1 /\ wake = 0 /\ pc = "loop"

Tomorrow == now \div HoursPerDay + 1

(* .single().unwrap_or(now) - now                                          *)
Schedule ==
    /\ pc = "loop" /\ pc' = "sleep"
    /\ wake' = IF Tomorrow \in Ambiguous THEN now ELSE Tomorrow * HoursPerDay + BackupHour
    /\ UNCHANGED now

Sleep ==
    /\ pc = "sleep" /\ now < wake /\ now < Days * HoursPerDay
    /\ now' = now + 1
    /\ UNCHANGED <<wake, pc>>

Wake == pc = "sleep" /\ now >= wake /\ pc' = "backup" /\ UNCHANGED <<now, wake>>

(* The hour may pass before the loop comes round.                          *)
Finish ==
    /\ pc = "backup" /\ pc' = "loop"
    /\ now' \in {now, now + 1} /\ now' <= Days * HoursPerDay
    /\ UNCHANGED wake

Next == Schedule \/ Sleep \/ Wake \/ Finish

Spec == Init /\ [][Next]_vars

------------------------------------------------------------------------------
(* "The scheduler runs daily at 03:00" (README.md:59): it backs up at no   *)
(* other hour.                                                             *)
RunsAtThree == pc = "backup" => now % HoursPerDay = BackupHour
===============================================================================
