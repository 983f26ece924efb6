----------------------------- MODULE ScanFeeds ------------------------------
\* One process that loads both caches, then scans again and again: the RTDS
\* reader runs to its end, the sports reader after it, and the markets are
\* evaluated on what both caches hold.  The process may crash anywhere, and is
\* started again by its operator.
EXTENDS RtdsFeed, SportsFeed

VARIABLE cut  \* history: a crash fell into a load or into the writing of a file

vars == <<processVars, rtdsVars, sportsVars, cut>>

TypeOK == ProcessTypeOK /\ RtdsTypeOK /\ SportsTypeOK /\ cut \in BOOLEAN

Init ==
    /\ phase = "down" /\ cause = "none" /\ elapsed = 0 /\ wait = 0 /\ cut = FALSE
    /\ budget = [crashes |-> MaxCrashes, scans |-> MaxScans, drops |-> MaxDrops,
                  messages |-> MaxMessages]
    /\ RtdsInit /\ SportsInit

\* PaperPipeline is built: its caches are created empty and loaded.
Start ==
    /\ phase = "down" /\ budget.scans > 0
    /\ phase' = "load_twap" /\ cause' = "none"
    /\ prints' = <<>> /\ games' = <<>>
    /\ UNCHANGED <<clock, budget, rtds, link, printFile, seenPrints, venue,
                   sports, feed, gameFile, seenGames, stadium, cut>>

\* run_scan with or without each of its readers.
RunScan ==
    /\ phase = "ready" /\ budget.scans > 0
    /\ budget' = [budget EXCEPT !.scans = @ - 1]
    /\ phase' \in {"rtds", "sports", "evaluate"}
    /\ UNCHANGED <<cause, clock, rtdsVars, sportsVars, cut>>

Evaluated ==
    /\ phase = "evaluate" /\ phase' = "ready"
    /\ UNCHANGED <<cause, clock, budget, rtdsVars, sportsVars, cut>>

Loading == phase \in {"load_twap", "load_games"}
Writing == rtds.at = "save" \/ sports.at = "save"

\* The process dies: what is in memory is lost, the files stay as they are.
Crash ==
    /\ phase # "down" /\ budget.crashes > 0
    /\ phase' = "down" /\ cause' = "crash" /\ elapsed' = 0 /\ wait' = 0
    /\ budget' = [budget EXCEPT !.crashes = @ - 1]
    /\ rtds' = Idle /\ link' = NoLink /\ prints' = <<>>
    /\ sports' = Away /\ feed' = NoFeed /\ games' = <<>>
    /\ cut' = (cut \/ Loading \/ Writing)
    /\ UNCHANGED <<printFile, seenPrints, venue, gameFile, seenGames, stadium>>

ProcessStep ==
    \/ RtdsStep /\ UNCHANGED <<sportsVars, cut>>
    \/ SportsStep /\ UNCHANGED <<rtdsVars, cut>>
    \/ RunScan \/ Evaluated

Environment ==
    \/ (Publish \/ RtdsDrop) /\ UNCHANGED <<sportsVars, cut>>
    \/ (Update \/ ServerPing \/ SportsDrop) /\ UNCHANGED <<rtdsVars, cut>>
    \/ Start \/ Crash

TimeStep == Tick /\ UNCHANGED <<rtdsVars, sportsVars, cut>>

Next == ProcessStep \/ Environment \/ TimeStep

\* The event loop runs a task that can run, and time passes.  Nothing is
\* assumed of the venues, of crashes or of restarts.
Spec == Init /\ [][Next]_vars /\ WF_vars(ProcessStep) /\ WF_vars(TimeStep)

-----------------------------------------------------------------------------
\* Unless a crash fell into a load or a write, every print and every game
\* update that was accepted is still there: in the cache while the process runs,
\* and in the file after a crash, so a restart forgets nothing.  What it is
\* about: put saves after it assigns, load saves a shorter file at every row,
\* save rewrites in place.
NothingForgotten ==
    ~cut =>
        /\ phase \notin {"down", "load_twap"} => Complete(prints, seenPrints)
        /\ phase \notin {"down", "load_twap", "load_games"} => Complete(games, seenGames)
        /\ phase = "down" => Complete(printFile.rows, seenPrints) /\ Complete(gameFile.rows, seenGames)

\* A scan ends: each reader stops at its deadline or by an exception, whatever
\* frames, losses and backoffs come before it.
ReadersEnd == phase \in {"rtds", "sports"} ~> phase \notin {"rtds", "sports"}

\* After a disconnect the reader reconnects and resubscribes, or the run ends:
\* at its deadline, by a crash, or because the new connection fails too.
DisconnectRecovers ==
    (phase = "rtds" /\ ~link.up)
        ~> \/ phase = "rtds" /\ link.up /\ link.subscribed
           \/ phase \notin {"rtds", "down"}
           \/ phase = "down" /\ cause \in {"crash", "connect", "send"}
=============================================================================
