---------------------------- MODULE DashboardHub ----------------------------
\* DashboardHub and HealthState behind the server-sent events of http.py: the
\* pipeline's thread publishes under a lock and notifies; each reader thread
\* waits for a new generation, for a second at most, copies and sends.
\* Health fields are written and read without the lock's protection.
EXTENDS Integers, Sequences, FiniteSets

CONSTANTS Readers,         \* handler threads that may serve /events
          MaxRecent,       \* length of the ring of decisions
          MaxConnections,  \* bound on connections over all readers
          NoReason         \* kill_reason is None

ASSUME HubAssumption ==
    MaxRecent \in Nat \ {0} /\ MaxConnections \in Nat /\ "free" \notin Readers

VARIABLES hub,         \* what is published
          health,      \* kill_switch and kill_reason of HealthState
          lock,        \* the reader inside the lock, or "free"
          reader,      \* where each reader is, what it copied last, and whether that is the
                       \* hub's generation still: generations only grow and are only compared
          connections  \* connections so far

hubVars == <<hub, health, lock, reader, connections>>

NewHub == [events |-> 0, open |-> 0, recent |-> <<>>, feeds |-> FALSE, cycles |-> 0]

Healthy == [kill |-> FALSE, reason |-> NoReason]

Off == [at |-> "off", current |-> FALSE, status |-> Healthy, kill |-> Healthy]

HubInit ==
    /\ hub = NewHub /\ health = Healthy /\ lock = "free"
    /\ reader = [r \in Readers |-> Off] /\ connections = 0

HubDown ==
    /\ hub' = NewHub /\ health' = Healthy /\ lock' = "free"
    /\ reader' = [r \in Readers |-> Off]
    /\ UNCHANGED connections

-----------------------------------------------------------------------------
\* The pipeline's side: a change under the lock, _bump and notify_all

Outdated(r) == [r EXCEPT !.current = FALSE, !.at = IF @ = "waiting" THEN "woken" ELSE @]

Publish(content) ==
    /\ lock = "free"
    /\ hub' = content
    /\ reader' = [r \in Readers |-> Outdated(reader[r])]
    /\ UNCHANGED <<health, lock, connections>>

\* mutant: the ring of decisions has no end
PushedForever(recent, decision) == <<decision>> \o recent

\* deque(maxlen): the newest first, the oldest falls off
Pushed(recent, decision) ==
    SubSeq(<<decision>> \o recent, 1, IF Len(recent) < MaxRecent THEN Len(recent) + 1 ELSE MaxRecent)

NoteDecision(decision) == Publish([hub EXCEPT !.recent = Pushed(@, decision)])

NoteLedger(events, open) == Publish([hub EXCEPT !.events = events, !.open = open])

NoteFeeds == Publish([hub EXCEPT !.feeds = TRUE])

NoteCycle == Publish([hub EXCEPT !.cycles = @ + 1])

SetHealth(changed) ==
    /\ health' = changed
    /\ UNCHANGED <<hub, lock, reader, connections>>

-----------------------------------------------------------------------------
\* A reader's side: _stream_sse around wait_snapshot

Step(r, changed) ==
    /\ reader' = [reader EXCEPT ![r] = changed]
    /\ UNCHANGED <<hub, health, connections>>

Connect(r) ==
    /\ reader[r].at = "off" /\ connections < MaxConnections
    /\ reader' = [reader EXCEPT ![r] = [Off EXCEPT !.at = "ask"]]
    /\ connections' = connections + 1
    /\ UNCHANGED <<hub, health, lock>>

\* inside the lock, about to copy
Copying == [Off EXCEPT !.at = "copy"]

\* wait_snapshot: wait only if nothing was published since
Ask(r) ==
    /\ reader[r].at = "ask" /\ lock = "free"
    /\ IF reader[r].current
       THEN Step(r, [reader[r] EXCEPT !.at = "waiting"]) /\ UNCHANGED lock
       ELSE Step(r, Copying) /\ lock' = r

\* mutant: the wait has no timeout
WaitsForNotify(r) == FALSE /\ UNCHANGED <<hubVars, reader[r]>>

\* a second has passed
TimesOut(r) ==
    /\ reader[r].at = "waiting"
    /\ Step(r, [reader[r] EXCEPT !.at = "woken"])
    /\ UNCHANGED lock

Reacquire(r) ==
    /\ reader[r].at = "woken" /\ lock = "free"
    /\ Step(r, Copying)
    /\ lock' = r

\* _snapshot_unlocked reads health twice: for the status, and again for the kill switch
CopyStatus(r) ==
    /\ reader[r].at = "copy"
    /\ Step(r, [reader[r] EXCEPT !.at = "rest", !.status = health])
    /\ UNCHANGED lock

CopyRest(r) ==
    /\ reader[r].at = "rest"
    /\ Step(r, [reader[r] EXCEPT !.at = "send", !.current = TRUE, !.kill = health])
    /\ lock' = "free"

\* the chunk is written, and the loop asks for what is newer
Send(r) ==
    /\ reader[r].at = "send"
    /\ Step(r, [reader[r] EXCEPT !.at = "ask"])
    /\ UNCHANGED lock

\* writing raises: the client has gone
Gone(r) ==
    /\ reader[r].at = "send"
    /\ Step(r, Off)
    /\ UNCHANGED lock

Reads(r) == Ask(r) \/ TimesOut(r) \/ Reacquire(r) \/ CopyStatus(r) \/ CopyRest(r) \/ Send(r)

HubStep == \E r \in Readers : Connect(r) \/ Reads(r) \/ Gone(r)

-----------------------------------------------------------------------------
HubTypeOK ==
    /\ hub.events \in Nat /\ hub.open \in Nat /\ hub.cycles \in Nat
    /\ hub.recent \in Seq({"TRADE", "SKIP"}) /\ Len(hub.recent) <= MaxRecent /\ hub.feeds \in BOOLEAN
    /\ health.kill \in BOOLEAN
    /\ lock \in Readers \cup {"free"}
    /\ \A r \in Readers : /\ reader[r].at \in {"off", "ask", "waiting", "woken", "copy", "rest", "send"}
                          /\ (lock = r <=> reader[r].at \in {"copy", "rest"})
                          /\ reader[r].current \in BOOLEAN
    /\ connections \in 0..MaxConnections
=============================================================================
