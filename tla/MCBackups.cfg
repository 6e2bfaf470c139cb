CONSTANTS
    Admins = {a1}
    Scheduler = Scheduler
    Uploads = {"receipt"}
    Types = {"database", "full"}
    KeepLast = 0
    MaxJobs = 2
    MaxClock = 1
    MaxDeletes = 2
    MaxCrashes = 1
    None = None
SPECIFICATION Spec
INVARIANT LatestSurvives
PROPERTY WayBack
