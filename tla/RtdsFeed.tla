------------------------------ MODULE RtdsFeed ------------------------------
\* PublicRtdsSubscriber and TwapPrintCache: the receive loop with its pings,
\* reconnects and resubscriptions, the parser, and the cache that is saved
\* after every print.  The venue sends what it publishes, in order, on a
\* connection that asked for it, and replays nothing.
EXTENDS FeedProcess

CONSTANTS
    TwapSymbols,  \* RTDS_CHAINLINK_SYMBOLS
    TwapFrames    \* frames the venue may send: [topic, window, symbol]

VARIABLES
    rtds,      \* the subscriber: where run() is, and what it counts
    link,      \* the connection: up, subscribed, and the frames in flight
    prints,    \* rows of TwapPrintCache
    printFile, \* the file of the cache
    seenPrints,\* history: the newest print accepted for every key
    venue      \* prints published so far

rtdsVars == <<rtds, link, prints, printFile, seenPrints, venue>>

Windows   == {30, 60}
PrintKeys == TwapSymbols \X Windows
NoLink    == [up |-> FALSE, subscribed |-> FALSE, wire |-> <<>>]
NewLink   == [NoLink EXCEPT !.up = TRUE]
Idle      == [at |-> "idle", accepted |-> 0, reconnects |-> 0, todo |-> <<>>, after |-> "idle"]

PrintRows == [key : PrintKeys, version : 1..MaxMessages, topic : {f.topic : f \in TwapFrames}]

RtdsTypeOK ==
    /\ rtds.at \in {"idle", "load", "connect", "subscribe", "top", "receive", "reconnect", "sleep", "save"}
    /\ rtds.accepted \in 0..MaxMessages /\ rtds.reconnects \in 0..MaxDrops
    /\ rtds.after \in {"idle", "load", "top"}
    /\ link.up \in BOOLEAN /\ link.subscribed \in BOOLEAN /\ Len(link.wire) <= MaxWire
    /\ Range(prints) \subseteq PrintRows /\ IsInjective([i \in DOMAIN prints |-> prints[i].key])
    /\ printFile.state \in {"absent", "torn", "whole"} /\ Range(printFile.rows) \subseteq PrintRows
    /\ venue \in 0..MaxMessages

RtdsInit ==
    /\ rtds = Idle /\ link = NoLink /\ prints = <<>> /\ printFile = NoFile
    /\ seenPrints = [k \in PrintKeys |-> 0] /\ venue = 0

-----------------------------------------------------------------------------
\* parse_official_rtds_twap_event: the topic sets the window, and any other
\* topic keeps the one its payload names.
ParsedWindow(frame) ==
    CASE frame.topic = "twap_thirty" -> 30
      [] frame.topic = "twap_sixty"  -> 60
      [] OTHER                       -> frame.window

Parses(frame) == ParsedWindow(frame) \in Windows

\* TwapPrintCache.put refuses what is not in the documented set.
Cacheable(frame) == Parses(frame) /\ frame.symbol \in TwapSymbols

PrintOf(message) ==
    [key |-> <<message.frame.symbol, ParsedWindow(message.frame)>>,
     version |-> message.version, topic |-> message.frame.topic]

\* mutant: the file is written from the rows the cache held before the print
PutPrintAfterSaving(row, next) ==
    /\ prints' = PutRow(prints, row)
    /\ printFile' = Saved(prints)
    /\ rtds' = [rtds EXCEPT !.at = next]

\* put: the row is replaced, then the file is rewritten in place (WritePrints).
PutPrint(row, next) ==
    /\ prints' = PutRow(prints, row)
    /\ printFile' = TornFile
    /\ rtds' = [rtds EXCEPT !.at = "save", !.after = next]

-----------------------------------------------------------------------------
\* make_twap_source with persist_cache: the cache is filled from its file, and
\* every put of the load saves the rows loaded so far.  A torn file raises.
LoadPrints ==
    /\ phase = "load_twap" /\ rtds.at = "idle"
    /\ \/ printFile.state = "torn" /\ Raise("file") /\ UNCHANGED rtds
       \/ printFile.state = "absent" /\ phase' = "load_games" /\ UNCHANGED <<rtds, cause, clock, budget>>
       \/ /\ printFile.state = "whole"
          /\ rtds' = [rtds EXCEPT !.at = "load", !.todo = printFile.rows]
          /\ UNCHANGED processVars
    /\ UNCHANGED <<link, prints, printFile, seenPrints, venue>>

LoadPrint ==
    /\ phase = "load_twap" /\ rtds.at = "load"
    /\ IF rtds.todo = <<>>
       THEN /\ rtds' = Idle /\ phase' = "load_games"
            /\ UNCHANGED <<prints, printFile, cause, clock, budget>>
       ELSE /\ prints' = PutRow(prints, Head(rtds.todo))
            /\ printFile' = TornFile
            /\ rtds' = [rtds EXCEPT !.at = "save", !.after = "load", !.todo = Tail(@)]
            /\ UNCHANGED processVars
    /\ UNCHANGED <<link, seenPrints, venue>>

WritePrints ==
    /\ phase \in {"load_twap", "rtds"} /\ rtds.at = "save"
    /\ printFile' = Saved(prints)
    /\ rtds' = [rtds EXCEPT !.at = rtds.after, !.accepted = IF rtds.after = "top" THEN @ + 1 ELSE @]
    /\ UNCHANGED <<link, prints, seenPrints, venue, processVars>>

-----------------------------------------------------------------------------
\* run(): connect and subscribe, then one turn of the loop after the other.
RtdsConnect ==
    /\ phase = "rtds" /\ rtds.at = "idle"
    /\ \/ link' = NewLink /\ rtds' = [Idle EXCEPT !.at = "subscribe"] /\ UNCHANGED processVars
       \/ Raise("connect") /\ link' = NoLink /\ rtds' = Idle
    /\ UNCHANGED <<prints, printFile, seenPrints, venue>>

\* mutant: the loop has no deadline
RtdsTopForever ==
    /\ phase = "rtds" /\ rtds.at = "top"
    /\ rtds' = [rtds EXCEPT !.at = "receive"] /\ Await(PingInterval)
    /\ UNCHANGED <<link, prints, printFile, seenPrints, venue>>

\* Sending on a lost connection raises, and the loop does not catch it.
Subscribe ==
    /\ phase = "rtds" /\ rtds.at = "subscribe"
    /\ IF link.up
       THEN /\ link' = [link EXCEPT !.subscribed = TRUE]
            /\ rtds' = [rtds EXCEPT !.at = "top"]
            /\ UNCHANGED processVars
       ELSE Raise("send") /\ link' = NoLink /\ rtds' = Idle
    /\ UNCHANGED <<prints, printFile, seenPrints, venue>>

RtdsTop ==
    /\ phase = "rtds" /\ rtds.at = "top"
    /\ IF elapsed >= CollectSeconds
       THEN /\ rtds' = Idle /\ link' = NoLink
            /\ Finish("sports") \/ Finish("evaluate")
       ELSE rtds' = [rtds EXCEPT !.at = "receive"] /\ Await(RecvTimeout) /\ UNCHANGED link
    /\ UNCHANGED <<prints, printFile, seenPrints, venue>>

Ingest ==
    /\ phase = "rtds" /\ rtds.at = "receive" /\ link.wire # <<>>
    /\ link' = [link EXCEPT !.wire = Tail(@)]
    /\ LET message == Head(link.wire) IN
       IF Cacheable(message.frame)
       THEN /\ PutPrint(PrintOf(message), "top")
            /\ seenPrints' = Remember(seenPrints, PrintOf(message))
       ELSE rtds' = [rtds EXCEPT !.at = "top"] /\ UNCHANGED <<prints, printFile, seenPrints>>
    /\ UNCHANGED <<venue, processVars>>

\* A PING is sent when nothing arrived for a ping interval, and only then.
Heartbeat ==
    /\ phase = "rtds" /\ rtds.at = "receive" /\ wait = 0
    /\ IF link.up
       THEN rtds' = [rtds EXCEPT !.at = "top"] /\ UNCHANGED <<link, processVars>>
       ELSE Raise("send") /\ link' = NoLink /\ rtds' = Idle
    /\ UNCHANGED <<prints, printFile, seenPrints, venue>>

\* mutant: no exception of recv is caught
RtdsLostUncaught ==
    /\ phase = "rtds" /\ rtds.at = "receive" /\ ~link.up /\ link.wire = <<>>
    /\ Raise("recv") /\ link' = NoLink /\ rtds' = Idle
    /\ UNCHANGED <<prints, printFile, seenPrints, venue>>

\* The loop catches ConnectionError; what websockets raises on a closed
\* connection is no subclass of it.
RtdsLost ==
    /\ phase = "rtds" /\ rtds.at = "receive" /\ ~link.up /\ link.wire = <<>>
    /\ IF ClosedRaises = "ConnectionError"
       THEN rtds' = [rtds EXCEPT !.at = "reconnect"] /\ UNCHANGED <<link, processVars>>
       ELSE Raise("recv") /\ link' = NoLink /\ rtds' = Idle
    /\ UNCHANGED <<prints, printFile, seenPrints, venue>>

Reconnect ==
    /\ phase = "rtds" /\ rtds.at = "reconnect"
    /\ \/ /\ link' = NewLink
          /\ rtds' = [rtds EXCEPT !.at = "sleep", !.reconnects = @ + 1]
          /\ Await(Backoff(rtds.reconnects + 1))
       \/ Raise("connect") /\ link' = NoLink /\ rtds' = Idle
    /\ UNCHANGED <<prints, printFile, seenPrints, venue>>

\* After the backoff the reader subscribes again: there is no replay.
Resubscribe ==
    /\ phase = "rtds" /\ rtds.at = "sleep" /\ wait = 0
    /\ rtds' = [rtds EXCEPT !.at = "subscribe"]
    /\ UNCHANGED <<link, prints, printFile, seenPrints, venue, processVars>>

RtdsStep ==
    \/ LoadPrints \/ LoadPrint \/ WritePrints \/ RtdsConnect \/ Subscribe \/ RtdsTop
    \/ Ingest \/ Heartbeat \/ RtdsLost \/ Reconnect \/ Resubscribe

-----------------------------------------------------------------------------
\* The venue and the network.
Publish ==
    /\ phase = "rtds" /\ link.up /\ link.subscribed /\ Len(link.wire) < MaxWire
    /\ SpendMessage
    /\ venue' = venue + 1
    /\ \E f \in TwapFrames :
          link' = [link EXCEPT !.wire = Append(@, [frame |-> f, version |-> venue + 1])]
    /\ UNCHANGED <<rtds, prints, printFile, seenPrints>>

\* The connection drops; what was in flight may be lost.
RtdsDrop ==
    /\ phase = "rtds" /\ link.up /\ budget.drops > 0
    /\ budget' = [budget EXCEPT !.drops = @ - 1]
    /\ \E n \in 0..Len(link.wire) :
          link' = [link EXCEPT !.up = FALSE, !.subscribed = FALSE, !.wire = SubSeq(@, 1, n)]
    /\ UNCHANGED <<rtds, prints, printFile, seenPrints, venue, phase, cause, clock>>
=============================================================================
