SPECIFICATION Spec
CONSTANTS
    FirstYear = 1917
    LastYear = 2100
INVARIANTS
    GanZhiFollowsTheLunarYear
    RoundTrip
    PageShowsItsDays
    MonthsAsInTheTable
PROPERTIES
    CalendarRunsOn
CHECK_DEADLOCK FALSE
