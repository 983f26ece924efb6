----------------------------- MODULE SportsFeed -----------------------------
\* PublicSportsSubscriber and SportsGameCache.  The venue needs no subscription
\* and pings by itself; the reader answers and never pings.
EXTENDS FeedProcess

CONSTANTS
    Games,       \* game ids
    Leagues,     \* SPORTS_DOCUMENTED_LEAGUES
    GameFrames,  \* updates the venue may send: [game, league]
    NoGame       \* an update without a game id

ASSUME SportsAssumption ==
    \A f \in GameFrames : (f.game # NoGame /\ f.league \in Leagues) => f.game \in Games

VARIABLES
    sports,    \* the subscriber
    feed,      \* its connection: up, messages in flight
    games,     \* rows of SportsGameCache
    gameFile,  \* the file of the cache
    seenGames, \* history: the newest update accepted for every game
    stadium    \* updates published so far

sportsVars == <<sports, feed, games, gameFile, seenGames, stadium>>

NoFeed  == [up |-> FALSE, wire |-> <<>>]
NewFeed == [NoFeed EXCEPT !.up = TRUE]
Away    == [at |-> "idle", accepted |-> 0, frames |-> 0, pongs |-> 0,
            reconnects |-> 0, todo |-> <<>>, after |-> "idle"]

GameRows == [key : Games, version : 1..MaxMessages]

SportsTypeOK ==
    /\ sports.at \in {"idle", "load", "top", "receive", "pong", "reconnect", "sleep", "save"}
    /\ sports.accepted <= sports.frames /\ sports.frames <= MaxMessages
    /\ sports.reconnects \in 0..MaxDrops
    /\ feed.up \in BOOLEAN /\ Len(feed.wire) <= MaxWire
    /\ Range(games) \subseteq GameRows /\ IsInjective([i \in DOMAIN games |-> games[i].key])
    /\ gameFile.state \in {"absent", "torn", "whole"} /\ Range(gameFile.rows) \subseteq GameRows
    /\ stadium \in 0..MaxMessages

SportsInit ==
    /\ sports = Away /\ feed = NoFeed /\ games = <<>> /\ gameFile = NoFile
    /\ seenGames = [g \in Games |-> 0] /\ stadium = 0

\* parse_official_sports_message drops what has no game id.
ParsesAsGame(frame) == frame.game # NoGame

\* canonicalize_sports_league answers none for a league that is not documented.
CanonicalLeague(league) == IF league \in Leagues THEN {league} ELSE {}

\* SportsGameCache.put
AcceptsGame(frame) == ParsesAsGame(frame) /\ CanonicalLeague(frame.league) # {}

-----------------------------------------------------------------------------
LoadGames ==
    /\ phase = "load_games" /\ sports.at = "idle"
    /\ \/ gameFile.state = "torn" /\ Raise("file") /\ UNCHANGED sports
       \/ gameFile.state = "absent" /\ phase' = "ready" /\ UNCHANGED <<sports, cause, clock, budget>>
       \/ /\ gameFile.state = "whole"
          /\ sports' = [sports EXCEPT !.at = "load", !.todo = gameFile.rows]
          /\ UNCHANGED processVars
    /\ UNCHANGED <<feed, games, gameFile, seenGames, stadium>>

LoadGame ==
    /\ phase = "load_games" /\ sports.at = "load"
    /\ IF sports.todo = <<>>
       THEN /\ sports' = Away /\ phase' = "ready"
            /\ UNCHANGED <<games, gameFile, cause, clock, budget>>
       ELSE /\ games' = PutRow(games, Head(sports.todo))
            /\ gameFile' = TornFile
            /\ sports' = [sports EXCEPT !.at = "save", !.after = "load", !.todo = Tail(@)]
            /\ UNCHANGED processVars
    /\ UNCHANGED <<feed, seenGames, stadium>>

WriteGames ==
    /\ phase \in {"load_games", "sports"} /\ sports.at = "save"
    /\ gameFile' = Saved(games)
    /\ sports' = [sports EXCEPT !.at = sports.after, !.accepted = IF sports.after = "top" THEN @ + 1 ELSE @]
    /\ UNCHANGED <<feed, games, seenGames, stadium, processVars>>

-----------------------------------------------------------------------------
SportsConnect ==
    /\ phase = "sports" /\ sports.at = "idle"
    /\ \/ feed' = NewFeed /\ sports' = [Away EXCEPT !.at = "top"] /\ UNCHANGED processVars
       \/ Raise("connect") /\ feed' = NoFeed /\ sports' = Away
    /\ UNCHANGED <<games, gameFile, seenGames, stadium>>

SportsTop ==
    /\ phase = "sports" /\ sports.at = "top"
    /\ IF elapsed >= CollectSeconds
       THEN /\ sports' = Away /\ feed' = NoFeed
            /\ Finish("evaluate")
       ELSE sports' = [sports EXCEPT !.at = "receive"] /\ Await(RecvTimeout) /\ UNCHANGED feed
    /\ UNCHANGED <<games, gameFile, seenGames, stadium>>

\* A ping of the server goes to reply_pong, anything else is a frame.
SportsReceive ==
    /\ phase = "sports" /\ sports.at = "receive" /\ feed.wire # <<>>
    /\ feed' = [feed EXCEPT !.wire = Tail(@)]
    /\ IF Head(feed.wire).kind = "ping"
       THEN sports' = [sports EXCEPT !.at = "pong"] /\ UNCHANGED <<games, gameFile, seenGames>>
       ELSE LET message == Head(feed.wire)
                row     == [key |-> message.frame.game, version |-> message.version] IN
            IF AcceptsGame(message.frame)
            THEN /\ games' = PutRow(games, row)
                 /\ gameFile' = TornFile
                 /\ seenGames' = Remember(seenGames, row)
                 /\ sports' = [sports EXCEPT !.at = "save", !.after = "top", !.frames = @ + 1]
            ELSE /\ sports' = [sports EXCEPT !.at = "top", !.frames = @ + 1]
                 /\ UNCHANGED <<games, gameFile, seenGames>>
    /\ UNCHANGED <<stadium, processVars>>

ReplyPong ==
    /\ phase = "sports" /\ sports.at = "pong"
    /\ IF feed.up
       THEN sports' = [sports EXCEPT !.at = "top", !.pongs = @ + 1] /\ UNCHANGED <<feed, processVars>>
       ELSE Raise("send") /\ feed' = NoFeed /\ sports' = Away
    /\ UNCHANGED <<games, gameFile, seenGames, stadium>>

\* Nothing arrived in time: an unsolicited pong is never sent.
SportsTimeout ==
    /\ phase = "sports" /\ sports.at = "receive" /\ wait = 0
    /\ sports' = [sports EXCEPT !.at = "top"]
    /\ UNCHANGED <<feed, games, gameFile, seenGames, stadium, processVars>>

SportsLost ==
    /\ phase = "sports" /\ sports.at = "receive" /\ ~feed.up /\ feed.wire = <<>>
    /\ IF ClosedRaises = "ConnectionError"
       THEN sports' = [sports EXCEPT !.at = "reconnect"] /\ UNCHANGED <<feed, processVars>>
       ELSE Raise("recv") /\ feed' = NoFeed /\ sports' = Away
    /\ UNCHANGED <<games, gameFile, seenGames, stadium>>

SportsReconnect ==
    /\ phase = "sports" /\ sports.at = "reconnect"
    /\ \/ /\ feed' = NewFeed
          /\ sports' = [sports EXCEPT !.at = "sleep", !.reconnects = @ + 1]
          /\ Await(Backoff(sports.reconnects + 1))
       \/ Raise("connect") /\ feed' = NoFeed /\ sports' = Away
    /\ UNCHANGED <<games, gameFile, seenGames, stadium>>

SportsResume ==
    /\ phase = "sports" /\ sports.at = "sleep" /\ wait = 0
    /\ sports' = [sports EXCEPT !.at = "top"]
    /\ UNCHANGED <<feed, games, gameFile, seenGames, stadium, processVars>>

SportsStep ==
    \/ LoadGames \/ LoadGame \/ WriteGames \/ SportsConnect \/ SportsTop \/ SportsReceive
    \/ ReplyPong \/ SportsTimeout \/ SportsLost \/ SportsReconnect \/ SportsResume

-----------------------------------------------------------------------------
Update ==
    /\ phase = "sports" /\ feed.up /\ Len(feed.wire) < MaxWire
    /\ SpendMessage
    /\ stadium' = stadium + 1
    /\ \E f \in GameFrames :
          feed' = [feed EXCEPT !.wire = Append(@, [kind |-> "update", frame |-> f,
                                                          version |-> stadium + 1])]
    /\ UNCHANGED <<sports, games, gameFile, seenGames>>

ServerPing ==
    /\ phase = "sports" /\ feed.up /\ Len(feed.wire) < MaxWire
    /\ SpendMessage
    /\ feed' = [feed EXCEPT !.wire = Append(@, [kind |-> "ping"])]
    /\ UNCHANGED <<sports, games, gameFile, seenGames, stadium>>

SportsDrop ==
    /\ phase = "sports" /\ feed.up /\ budget.drops > 0
    /\ budget' = [budget EXCEPT !.drops = @ - 1]
    /\ \E n \in 0..Len(feed.wire) : feed' = [up |-> FALSE, wire |-> SubSeq(feed.wire, 1, n)]
    /\ UNCHANGED <<sports, games, gameFile, seenGames, stadium, phase, cause, clock>>
=============================================================================
