---------------------------- MODULE FeedProcess ----------------------------
\* What the two public feed readers share: the process that runs them one
\* after the other (PaperPipeline.run_scan), its clock, the backoff of
\* ReconnectingWebSocket, and the print caches: a dict in insertion order and
\* the JSON file it is written to.
EXTENDS Naturals, Sequences, SequencesExt

CONSTANTS
    PingInterval,    \* ping_interval_s
    CollectSeconds,  \* collect_seconds, the duration of one run of a reader
    MaxBackoff,      \* reconnect_max_backoff_s
    ClosedRaises,    \* what recv raises on a lost connection
    MaxMessages,     \* bound: messages the two venues send
    MaxWire,         \* bound: messages in flight on a connection
    MaxDrops,        \* bound: connections the venues lose
    MaxCrashes,      \* bound: crashes of the process
    MaxScans         \* bound: scans begun

ASSUME FeedAssumption ==
    /\ PingInterval \in Nat \ {0} /\ CollectSeconds \in Nat /\ MaxBackoff \in Nat
    /\ ClosedRaises \in {"ConnectionError", "ConnectionClosed"}
    /\ {MaxMessages, MaxWire, MaxDrops, MaxCrashes, MaxScans} \subseteq Nat

VARIABLES
    phase,    \* what the process is doing
    cause,    \* why it is down
    elapsed,  \* seconds since the running reader started, up to CollectSeconds
    wait,     \* seconds until its recv times out or its backoff is over
    budget    \* what is left of the bounds: crashes, scans, drops, messages

clock == <<elapsed, wait>>
processVars == <<phase, cause, clock, budget>>

Phases == {"down", "load_twap", "load_games", "ready", "rtds", "sports", "evaluate"}
Causes == {"none", "crash", "file", "connect", "send", "recv"}

ProcessTypeOK ==
    /\ phase \in Phases /\ cause \in Causes
    /\ elapsed \in 0..CollectSeconds /\ wait \in 0..(PingInterval + MaxBackoff)
    /\ budget \in [crashes: 0..MaxCrashes, scans: 0..MaxScans, drops: 0..MaxDrops,
                   messages: 0..MaxMessages]

\* An exception that no handler of the readers or of run_scan catches.
Raise(why) == phase' = "down" /\ cause' = why /\ elapsed' = 0 /\ wait' = 0 /\ UNCHANGED budget

\* 0.5 * 2 ** attempt seconds, for the attempts 1, 2, ... that are made.
Backoff(attempt) ==
    LET delay[n \in 1..attempt] == IF n = 1 THEN 1 ELSE 2 * delay[n - 1]
    IN  IF delay[attempt] < MaxBackoff THEN delay[attempt] ELSE MaxBackoff

\* recv waits for a ping interval, or less when the deadline is nearer.
RecvTimeout ==
    IF PingInterval < CollectSeconds - elapsed THEN PingInterval ELSE CollectSeconds - elapsed

\* The loop takes its next turn, or waits.
Await(seconds) == wait' = seconds /\ UNCHANGED <<phase, cause, elapsed, budget>>

\* The deadline has passed: the reader closes its connection and returns.
Finish(next) == phase' = next /\ elapsed' = 0 /\ wait' = 0 /\ UNCHANGED <<cause, budget>>

-----------------------------------------------------------------------------
\* The rows of a cache: one row per key, in the order of first insertion, as a
\* dict keeps them when an existing key is assigned.

KeysOf(rows) == {rows[i].key : i \in DOMAIN rows}

\* mutant: a key that is cached already gets a second row
PutRowAppended(rows, row) == Append(rows, row)

PutRow(rows, row) ==
    IF row.key \in KeysOf(rows)
    THEN [i \in DOMAIN rows |-> IF rows[i].key = row.key THEN row ELSE rows[i]]
    ELSE Append(rows, row)

\* The version of the newest row accepted for a key, whatever became of it.
Remember(newest, row) == [newest EXCEPT ![row.key] = row.version]

\* The rows are the newest accepted for every key.
Complete(rows, newest) ==
    {<<rows[i].key, rows[i].version>> : i \in DOMAIN rows} =
    {<<k, newest[k]>> : k \in {x \in DOMAIN newest : newest[x] > 0}}

\* The cache file: write_text truncates it before it writes the new text.
NoFile      == [state |-> "absent", rows |-> <<>>]
TornFile    == [state |-> "torn", rows |-> <<>>]
Saved(rows) == [state |-> "whole", rows |-> rows]

\* One message less to send.
SpendMessage ==
    /\ budget.messages > 0 /\ budget' = [budget EXCEPT !.messages = @ - 1]
    /\ UNCHANGED <<phase, cause, clock>>

\* Time passes while a reader runs.
Tick ==
    /\ phase \in {"rtds", "sports"}
    /\ elapsed < CollectSeconds \/ wait > 0
    /\ elapsed' = IF elapsed < CollectSeconds THEN elapsed + 1 ELSE elapsed
    /\ wait' = IF wait > 0 THEN wait - 1 ELSE 0
    /\ UNCHANGED <<phase, cause, budget>>
=============================================================================
