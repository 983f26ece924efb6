------------------------------ MODULE Outputs -------------------------------
\* What a paper process leaves outside itself: the SQLite tables and the
\* dashboard.  An operation of the pipeline or session decides in memory and
\* then writes its effects one at a time, in the order of the code; a crash may
\* fall between any two of them, and readers of the dashboard run beside them.
EXTENDS StoreRules, DashboardHub

CONSTANTS Results,    \* what a round trip beside the markets may make, a loss being negative
          MaxOrders,  \* bound on orders over all runs
          MaxOps,     \* bound on operations over all runs
          MaxServed,  \* the same while a run serves the dashboard
          MaxTrips,   \* bound on trips over all runs
          MaxRuns     \* process starts

ASSUME OutputsAssumption ==
    /\ Lots \subseteq Nat /\ Prices \subseteq Nat \ {0} /\ Results \subseteq Int
    /\ MaxOrders \in Nat /\ MaxOps \in Nat /\ MaxServed \in Nat /\ MaxTrips \in Nat /\ MaxRuns \in Nat \ {0}

VARIABLES proc,   \* memory of the process: ledger, switch, marks, and the effects still to come
          db,     \* the tables
          runs,   \* process starts so far
          orders, \* orders so far
          spent   \* operations and trips so far

outputVars == <<proc, db, runs, orders, spent>>
vars == <<outputVars, hubVars>>

\* the operation under way: its market where it trades, the lots it fills and how it was decided
NoOp == [token |-> 1, lots |-> 0, price |-> 1, taken |-> FALSE, cause |-> NoReason]

\* start_http is called or not, as the command asks.  `beside` is what the round trips of
\* the run made that no row will ever tell: the code has it in the ledger's events only.
NewProcess(serves) ==
    [up |-> TRUE, serves |-> serves, agenda |-> <<>>, op |-> NoOp, ledger |-> FreshLedger, events |-> 0,
     beside |-> 0, unsaved |-> <<>>, kill |-> NoReason, marks |-> [t \in Tokens |-> NoMark],
     fresh |-> FALSE]

NoProcess == [NewProcess(FALSE) EXCEPT !.up = FALSE]

Init ==
    /\ \E serves \in BOOLEAN : proc = NewProcess(serves)
    /\ db = EmptyTables /\ runs = 1 /\ orders = 0 /\ spent = [ops |-> 0, trips |-> 0]
    /\ HubInit

-----------------------------------------------------------------------------
\* Operations: what each will do, in order

Idle == proc.up /\ proc.agenda = <<>>

\* the kill drill is about to evaluate its market
Probing == proc.up /\ proc.agenda = <<"probe">>

\* some more operations, which may trip the switch; a round trip pays for two, a drill's
\* evaluation for none
Spend(ops, trips) ==
    /\ spent' = [ops |-> spent.ops + ops, trips |-> spent.trips + IF trips THEN 1 ELSE 0]
    /\ spent'.ops <= (IF proc.serves THEN MaxServed ELSE MaxOps) /\ spent'.trips <= MaxTrips
    /\ UNCHANGED <<db, runs, orders, hubVars>>

Begin(agenda, op, trips) ==
    /\ Idle \/ Probing
    /\ Spend(IF Idle THEN 1 ELSE 0, trips)
    /\ proc' = [proc EXCEPT !.agenda = agenda, !.op = op]

\* KillSwitchBoard.trip and its callback on_kill_event
Tripping(trips) == IF trips THEN <<"trip", "flag", "reason">> ELSE <<>>

\* the gates refuse the market before a feature row is written
Filtered == Begin(<<"signal", "decision">>, NoOp, FALSE)

StaleCritical ==
    Begin(Tripping(TRUE) \o <<"signal", "decision", "resync">>,
          [NoOp EXCEPT !.cause = "STALE_CRITICAL_DATA"], TRUE)

\* decide refuses; the streak of rejects may trip the switch
Vetoed(trips) ==
    Begin(<<"feature", "risk">> \o Tripping(trips) \o <<"signal", "decision", "resync">>,
          [NoOp EXCEPT !.cause = "RUNAWAY_REJECTS"], trips)

\* mutant: the event of a fill is stored before its trade
SavesEventFirst(lots) ==
    <<"order">> \o (IF lots > 0 THEN <<"event", "trade">> ELSE <<>>) \o <<"snapshot">>

\* the store calls of _commit_prepared after a fill
SavesOf(lots) ==
    <<"order">> \o (IF lots > 0 THEN <<"trade", "event">> ELSE <<>>) \o <<"snapshot">>

\* decide allows, and the order is created, filled and booked
Traded(t, lots, price, trips) ==
    /\ proc.kill = NoReason /\ orders < MaxOrders
    /\ Begin(<<"feature", "risk", "fill">> \o Tripping(trips) \o <<"publish">> \o SavesOf(lots)
               \o <<"signal", "decision", "resync">>,
             [token |-> t, lots |-> lots, price |-> price, taken |-> TRUE, cause |-> "DRAWDOWN_EXCEEDED"],
             trips)

\* _remember_marks, one market after the other
Marked(ledger, price) ==
    LET upTo[t \in 0..NumTokens] == IF t = 0 THEN ledger ELSE ApplyMark(upTo[t - 1], t, price)
    IN  upTo[NumTokens]

\* _remember_marks for every market, then snapshot_pipeline and a last publish
EndCycle(price) ==
    /\ Spend(1, FALSE)
    /\ proc' = [proc EXCEPT
         !.ledger = Marked(@, price),
         !.events = @ + NumTokens,
         !.marks = [t \in Tokens |-> price],
         !.agenda = <<"publish", "sync flag", "sync reason", "feeds">>
                      \o (IF proc.fresh THEN <<"cycle">> ELSE <<>>) \o <<"publish">>,
         !.fresh = FALSE]

\* PaperSession.flatten: all closes in memory, then their rows one by one
Flatten(trips) ==
    /\ Spend(1, trips)
    /\ OpenTokens(proc.ledger) # {}
    /\ \A t \in OpenTokens(proc.ledger) : proc.marks[t] # NoMark
    /\ \E order \in SetToSeqs(OpenTokens(proc.ledger)) :
         proc' = [proc EXCEPT
           !.ledger = FlattenRun(@, order, proc.marks)[Len(order)],
           !.events = @ + Len(order),
           !.unsaved = [i \in DOMAIN order |->
              FlattenRow(runs, order[i], CloseSide(proc.ledger.pos[order[i]]),
                         Abs(proc.ledger.pos[order[i]].qty), proc.marks[order[i]])],
           !.agenda = [i \in DOMAIN order |-> "event"] \o Tripping(trips) \o <<"publish", "snapshot">>,
           !.op = [NoOp EXCEPT !.cause = "DAILY_LOSS_EXCEEDED"]]

\* check_external_positions found a difference: nothing is published for it
PositionMismatch ==
    Begin(Tripping(TRUE), [NoOp EXCEPT !.cause = "POSITION_MISMATCH"], TRUE)

\* Bought, marked and sold under a token of its own, with no call of the store: no lot is
\* left, cash and realized P&L move by what it made, and its best mark may raise the peak.
RoundTrip(ledger, best, made) ==
    [ledger EXCEPT !.cash = @ + made, !.realized = @ + made, !.peak = Greater(@, Equity(ledger) + best)]

Practices(best, made, events, trips, agenda) ==
    /\ Spend(2, trips)
    /\ proc' = [proc EXCEPT
         !.ledger = RoundTrip(@, best, made),
         !.beside = @ + made,
         !.events = @ + events,
         !.agenda = Tripping(trips) \o <<"publish">> \o agenda,
         !.op = [NoOp EXCEPT !.cause = "DAILY_LOSS_EXCEEDED"]]

\* run_kill_recovery_drill: a trip that should lose, then a market that should be refused;
\* the operator's reset, if any, is Reset
KillDrill(made, trips) == Practices(Greater(0, made), made, 2, trips, <<"probe">>)

\* one lot of run_labeled_long_soak, marked down, then up by `rise`, and sold below that
SoakLot(rise, made, trips) ==
    /\ proc.kill = NoReason /\ made <= rise
    /\ Practices(rise, made, 4, trips, <<>>)

\* an acknowledged KillSwitchBoard.reset and its callback note_kill_clear
Reset == Begin(<<"clear", "unflag", "unreason">>, NoOp, FALSE)

\* evaluate_market, by a session or by the drill
Evaluate ==
    \/ Filtered
    \/ StaleCritical
    \/ \E trips \in BOOLEAN : Vetoed(trips)
    \/ \E t \in Tokens, lots \in Lots, price \in Prices, trips \in BOOLEAN : Traded(t, lots, price, trips)

Operate ==
    /\ Idle
    /\ \/ \E price \in Prices : EndCycle(price)
       \/ \E trips \in BOOLEAN : Flatten(trips)
       \/ \E trips \in BOOLEAN, made \in Results : KillDrill(made, trips)
       \/ \E trips \in BOOLEAN, rise \in Prices, made \in Results : SoakLot(rise, made, trips)
       \/ PositionMismatch
       \/ Reset

-----------------------------------------------------------------------------
\* Effects: the first of the agenda

Does(effect) == proc.agenda # <<>> /\ Head(proc.agenda) = effect

Rest == [proc EXCEPT !.agenda = Tail(@)]

\* one commit
Commits(tables) ==
    /\ db' = tables
    /\ proc' = Rest
    /\ UNCHANGED <<runs, orders, spent, hubVars>>

Remembers(memory) ==
    /\ proc' = memory
    /\ UNCHANGED <<db, runs, spent, hubVars>>

Sets(changed) == SetHealth(changed) /\ proc' = Rest /\ UNCHANGED <<db, runs, orders, spent>>

Shows(note) == note /\ proc' = Rest /\ UNCHANGED <<db, runs, orders, spent>>

RiskRow == [run |-> runs, allowed |-> proc.op.taken]

OrderRow ==
    [run |-> runs, cid |-> orders, token |-> proc.op.token, size |-> Max(Lots) + 1, filled |-> proc.op.lots]

SaveFeature == Does("feature") /\ Commits(InsertOne(db, "features"))

SaveRisk == Does("risk") /\ Commits(Insert(db, "risk", RiskRow))

\* create, submit, simulate_fill: memory only
Fill ==
    LET op == proc.op
    IN  /\ Does("fill")
        /\ orders' = orders + 1
        /\ Remembers(IF op.lots = 0 THEN Rest
                     ELSE [Rest EXCEPT !.ledger = ApplyFill(@, op.token, "BUY", op.lots, op.price, 0),
                                       !.events = @ + 1,
                                       !.unsaved = <<FillRow(runs, orders + 1, op.token, op.lots, op.price)>>])

SaveOrderRow == Does("order") /\ Commits(SaveOrder(db, OrderRow))

SaveTrade ==
    /\ Does("trade")
    /\ Commits(Insert(db, "trades", FillRow(runs, orders, proc.op.token, proc.op.lots, proc.op.price)))

SaveEvent ==
    /\ Does("event")
    /\ db' = Insert(db, "events", Head(proc.unsaved))
    /\ proc' = [Rest EXCEPT !.unsaved = Tail(@)]
    /\ UNCHANGED <<runs, orders, spent, hubVars>>

SaveLedgerSnapshot == Does("snapshot") /\ Commits(SaveSnapshot(db, runs, proc.ledger, proc.events, proc.beside))

\* _audit: the audit is kept in memory, too
SaveSignal ==
    /\ Does("signal")
    /\ db' = InsertOne(db, "signals")
    /\ proc' = [Rest EXCEPT !.fresh = TRUE]
    /\ UNCHANGED <<runs, orders, spent, hubVars>>

Trip ==
    /\ Does("trip")
    /\ Remembers([Rest EXCEPT !.kill = proc.op.cause])
    /\ UNCHANGED orders

Clear == Does("clear") /\ Remembers([Rest EXCEPT !.kill = NoReason]) /\ UNCHANGED orders

\* on_kill_event and note_kill_clear set the flag, then the reason
FlagKill ==
    \/ Does("flag") /\ Sets([health EXCEPT !.kill = TRUE])
    \/ Does("unflag") /\ Sets([health EXCEPT !.kill = FALSE])

NameReason ==
    \/ Does("reason") /\ Sets([health EXCEPT !.reason = proc.op.cause])
    \/ Does("unreason") /\ Sets([health EXCEPT !.reason = NoReason])

\* snapshot_pipeline copies the board
SyncKill ==
    \/ Does("sync flag") /\ Sets([health EXCEPT !.kill = proc.kill # NoReason])
    \/ Does("sync reason") /\ Sets([health EXCEPT !.reason = proc.kill])

\* after_evaluate, when the market was refused as stale or by the switch
Resync ==
    Does("resync") /\ Sets(IF proc.kill # NoReason /\ ~proc.op.taken THEN [health EXCEPT !.kill = TRUE] ELSE health)

PublishLedger == Does("publish") /\ Shows(NoteLedger(proc.events, Cardinality(OpenTokens(proc.ledger))))

ShowDecision == Does("decision") /\ Shows(NoteDecision(IF proc.op.taken THEN "TRADE" ELSE "SKIP"))

ShowFeeds == Does("feeds") /\ Shows(NoteFeeds)

ShowCycle == Does("cycle") /\ Shows(NoteCycle)

Effect ==
    \/ SaveFeature \/ SaveRisk \/ Fill \/ SaveOrderRow \/ SaveTrade \/ SaveEvent \/ SaveLedgerSnapshot
    \/ SaveSignal \/ Trip \/ Clear \/ FlagKill \/ NameReason \/ SyncKill \/ Resync
    \/ PublishLedger \/ ShowDecision \/ ShowFeeds \/ ShowCycle

-----------------------------------------------------------------------------
\* The process and the readers

\* killed, or an exception that leaves evaluate_markets: the CLI catches none
Crash ==
    /\ proc.up
    /\ proc' = NoProcess
    /\ HubDown
    /\ UNCHANGED <<db, runs, orders, spent>>

\* the same file, the same session id, a fresh ledger
Start ==
    /\ ~proc.up /\ runs < MaxRuns
    /\ \E serves \in BOOLEAN : proc' = NewProcess(serves)
    /\ runs' = runs + 1
    /\ UNCHANGED <<db, orders, spent, hubVars>>

Serve == proc.serves /\ HubStep /\ UNCHANGED outputVars

Next == Evaluate \/ Operate \/ Effect \/ Crash \/ Start \/ Serve

\* An operation that has begun goes on (one thread, no wait but the hub's lock),
\* and so does every reader thread.
Spec ==
    Init /\ [][Next]_vars /\ WF_vars(Effect) /\ WF_vars(Probing /\ Evaluate)
         /\ \A r \in Readers : WF_vars(proc.serves /\ Reads(r) /\ UNCHANGED outputVars)

-----------------------------------------------------------------------------
Row == [run : 1..MaxRuns, kind : {"FILL", "FLATTEN"}, cid : 0..MaxOrders, token : Tokens,
        side : Sides, size : Nat \ {0}, price : Prices]

Decision == [run : 1..MaxRuns, allowed : BOOLEAN]

TypeOK ==
    /\ proc.ledger \in LedgerType /\ Range(proc.unsaved) \subseteq Row
    /\ (proc.agenda = <<>> => proc.unsaved = <<>>)
    /\ Range(db.events) \cup Range(db.trades) \subseteq Row
    /\ Range(db.risk) \subseteq Decision /\ db.signals \in Nat /\ db.features \in Nat
    /\ db.snapshot.run \in 0..MaxRuns /\ db.snapshot.ledger \in LedgerType
    /\ runs \in 1..MaxRuns /\ orders \in 0..MaxOrders
    /\ HubTypeOK

\* A reader of the tables, after any crashes and restarts, finds for every run that
\* each trade has its order, each fill event its trade, and at most the last of each
\* is missing the next; that an order was allowed by a risk row; that the snapshot is
\* what the first event rows of the run that saved it add up to, but for the result of
\* drills and soak lots, which have no rows; and that between two operations the rows
\* tell the lots of the ledger, and its money but for that result.
Follows(later, earlier) ==
    /\ IsPrefix(later, earlier)
    /\ Len(earlier) - Len(later) <= 1

TablesAgree ==
    /\ \A run \in 1..runs :
         /\ Follows(CidsOf(RowsOf(db.trades, run)), CidsOf(FilledOrders(db, run)))
         /\ Follows(FillEvents(db, run), RowsOf(db.trades, run))
         /\ Len(RowsOf(db.orders, run)) <= Len(Allowed(db, run))
    /\ LET rows == RowsOf(db.events, db.snapshot.run)
       IN  \E n \in 0..Len(rows) : SameBookBut(ReplayedTo(rows, n), db.snapshot.ledger, db.snapshot.beside)
    /\ Idle => /\ SameBookBut(Replayed(RowsOf(db.events, runs)), proc.ledger, proc.beside)
               /\ CidsOf(FillEvents(db, runs)) = CidsOf(FilledOrders(db, runs))

\* A connected dashboard catches up: when the process rests long enough, the page
\* shows the last generation and the switch as it is, though trips and resets outside
\* an evaluation are not published and a copy may fall between a flag and its reason.
UpToDate(r) ==
    /\ reader[r].at \in {"ask", "waiting", "woken"} /\ reader[r].current
    /\ reader[r].status = reader[r].kill
    /\ reader[r].kill = [kill |-> proc.kill # NoReason, reason |-> proc.kill]

ReadersCatchUp == \A r \in Readers : []<>(reader[r].at = "off" \/ ~Idle \/ UpToDate(r))
=============================================================================
