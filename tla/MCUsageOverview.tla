-------------------------- MODULE MCUsageOverview --------------------------
(***************************************************************************)
(* A small instance of the usage queries: hours of 4 ticks, days of 8.     *)
(***************************************************************************)
EXTENDS UsageOverview

MCMidnights == {-8, 0, 8, 16, 24}
HalfHourMidnights == {-6, 2, 10, 18, 26}      \* a time zone half an hour off
LongDayMidnights == {-8, 0, 12, 20, 28}        \* a day of three hours, the others of two
MCPresets == [h6 |-> 6, d7 |-> 12]
MCEventTimes == {8, 15, 16, 20}
HalfHourEventTimes == {10, 20}
MCCustom == {<<1, 18>>, <<13, 17>>, <<15, 23>>}

=============================================================================
