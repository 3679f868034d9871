------------------------------- MODULE World -------------------------------
(***************************************************************************)
(* The game world of the RIO build (Room.cpp, Zone.cpp, Player.cpp, the    *)
(* containers of Sector.h and Room.h, PacketHandler.h,                     *)
(* RioServerSession.cpp).  Each session is served by its core's thread,    *)
(* one packet at a time.  The login runs in the packet handler; moves are  *)
(* jobs of the zone the player stands in, logouts jobs of the room.  A     *)
(* room or zone runs one job at a time (SerialExecutor), but the room, the *)
(* zones and the handlers run in parallel.                                 *)
(*                                                                         *)
(* A player is its session: a session logs in once.  The map is a line;    *)
(* what the code does on its two axes is the same.                         *)
(***************************************************************************)
EXTENDS Integers, Sequences, FiniteSets, FiniteSetsExt

CONSTANTS Players,
          Positions,     \* distances from MAP_MIN that clients may report
          SECTOR_WIDTH, ZONE_WIDTH, MAP_WIDTH, VIEW_DISTANCE,
          MaxPackets     \* bound: moves and logouts that clients send

ASSUME MapAssumption ==
    /\ Positions \subseteq Int
    /\ {SECTOR_WIDTH, ZONE_WIDTH, MAP_WIDTH, VIEW_DISTANCE} \subseteq Nat \ {0}
    /\ MAP_WIDTH % SECTOR_WIDTH = 0 /\ MAP_WIDTH % ZONE_WIDTH = 0
    /\ MaxPackets \in Nat

\* Positions beyond the map belong to its border.
IndexOf(x, width) ==
    LET i == x \div width
        last == MAP_WIDTH \div width - 1
    IN  IF i < 0 THEN 0 ELSE IF i > last THEN last ELSE i

GetPlayerSectorIdx(x) == IndexOf(x, SECTOR_WIDTH)
GetPlayerZoneIdx(x) == IndexOf(x, ZONE_WIDTH)

\* The sectors and zones a position lies in; nothing is ever in another one.
Sectors == {GetPlayerSectorIdx(x) : x \in Positions}
Zones == {GetPlayerZoneIdx(x) : x \in Positions}
room == -1
Queues == Zones \cup {room}

GetAdjacentSectors(x) ==
    {s \in Sectors : GetPlayerSectorIdx(x) - 2 <= s /\ s <= GetPlayerSectorIdx(x) + 2}

IsNear(x, y) == x - y < VIEW_DISTANCE /\ y - x < VIEW_DISTANCE

VARIABLES
    m_loginCnt, m_players, \* of gRoom: its counter, and the players in its map
    sector,       \* Sector::m_players
    m_playerState, sectorIdx, pos, m_viewList, \* of each Player
    m_ownPlayer,  \* does the session still have its player
    session,      \* where the session's handlers are
    jobs,         \* of each queue: whose jobs it holds, the one that runs first
    pc,           \* of each queue: where its job is
    to, newViewList, view, targets, \* locals of Zone::MovePlayer
    crashed,      \* the process died of a null m_ownPlayer
    known,        \* history: the players each client was told of and not told to forget
    packets,      \* history: moves and logouts sent
    loggedOut,    \* history: players whose client sent a logout
    overlapped    \* history: pairs of players whose jobs ran at the same time

roomVars == <<m_loginCnt, m_players>>
sessionVars == <<m_ownPlayer, session, packets, loggedOut>>
jobVars == <<jobs, pc, overlapped>>
localVars == <<to, newViewList, view, targets>>

vars == <<roomVars, sector, m_playerState, sectorIdx, pos, m_viewList,
          sessionVars, jobVars, localVars, crashed, known>>

Init ==
    /\ m_loginCnt = 0 /\ m_players = {}
    /\ sector = [s \in Sectors |-> {}]
    /\ m_playerState = [p \in Players |-> "Disconnected"]
    /\ pos \in [Players -> {x \in Positions : 0 <= x /\ x < MAP_WIDTH}] \* SetInitialPos
    /\ sectorIdx = [p \in Players |-> GetPlayerSectorIdx(pos[p])]
    /\ m_viewList = [p \in Players |-> {}]
    /\ m_ownPlayer = [p \in Players |-> FALSE]
    /\ session = [p \in Players |-> "connected"]
    /\ jobs = [q \in Queues |-> <<>>]
    /\ pc = [q \in Queues |-> "idle"]
    /\ to = [z \in Zones |-> 0]
    /\ newViewList = [z \in Zones |-> {}]
    /\ view = [z \in Zones |-> {}]
    /\ targets = [z \in Zones |-> {}]
    /\ crashed = FALSE
    /\ known = [p \in Players |-> {}]
    /\ packets = 0 /\ loggedOut = {}
    /\ overlapped = {}

Serve(p, from, label) == session[p] = from /\ session' = [session EXCEPT ![p] = label]
Goto(q, from, label) == pc[q] = from /\ pc' = [pc EXCEPT ![q] = label]
DoAsync(q, p) == jobs' = [jobs EXCEPT ![q] = Append(@, p)]

SendPacket == packets < MaxPackets /\ packets' = packets + 1

IsValidPlayer(p) == m_playerState[p] = "Connected"

\* A zone holds the ReadLock of the sector whose players it visits.
Visited(z) == Min(view[z])
ReadLocked(s) == \E z \in Zones : pc[z] = "targets" /\ Visited(z) = s

Insert(s, p) == ~ReadLocked(s) /\ sector' = [sector EXCEPT ![s] = @ \cup {p}]
Erase(s, p) == ~ReadLocked(s) /\ sector' = [sector EXCEPT ![s] = @ \ {p}]
-----------------------------------------------------------------------------
\* Handle_LOGIN and Room::Login.  Others see each step.
LoginInsert(p) ==
    /\ Serve(p, "connected", "login_map")
    /\ m_ownPlayer' = [m_ownPlayer EXCEPT ![p] = TRUE]
    /\ m_loginCnt' = m_loginCnt + 1
    /\ Insert(GetPlayerSectorIdx(pos[p]), p)
    /\ UNCHANGED <<m_players, m_playerState, sectorIdx, pos, m_viewList, packets,
                   loggedOut, jobVars, localVars, crashed, known>>

LoginMap(p) ==
    /\ Serve(p, "login_map", "login_state")
    /\ m_players' = m_players \cup {p}
    /\ UNCHANGED <<m_loginCnt, sector, m_playerState, sectorIdx, pos, m_viewList,
                   m_ownPlayer, packets, loggedOut, jobVars, localVars, crashed, known>>

\* No job of the player is there yet to read its index.
LoginState(p) ==
    /\ Serve(p, "login_state", "playing")
    /\ m_playerState' = [m_playerState EXCEPT ![p] = "Connected"]
    /\ sectorIdx' = [sectorIdx EXCEPT ![p] = GetPlayerSectorIdx(pos[p])]
    /\ UNCHANGED <<roomVars, sector, pos, m_viewList, m_ownPlayer, packets,
                   loggedOut, jobVars, localVars, crashed, known>>

\* Handle_C2S_MOVE and Room::MovePlayer.
Handle_C2S_MOVE(p) ==
    /\ session[p] = "playing"
    /\ SendPacket
    /\ \E x \in Positions :
          /\ pos' = [pos EXCEPT ![p] = x]
          /\ DoAsync(GetPlayerZoneIdx(x), p)
    /\ UNCHANGED <<roomVars, sector, m_playerState, sectorIdx, m_viewList,
                   m_ownPlayer, session, loggedOut, pc, overlapped, localVars,
                   crashed, known>>

\* Handle_LOGOUT up to Disconnect, which calls OnDisconnected.
Handle_LOGOUT(p) ==
    /\ SendPacket /\ loggedOut' = loggedOut \cup {p}
    /\ Serve(p, "playing", "disconnect")
    /\ DoAsync(room, p)
    /\ UNCHANGED <<roomVars, sector, m_playerState, sectorIdx, pos, m_viewList,
                   m_ownPlayer, pc, overlapped, localVars, crashed, known>>

\* OnDisconnected, after a logout or because the connection is lost.
OnDisconnected(p) ==
    /\ Serve(p, session[p], "release") /\ session[p] \in {"playing", "disconnect"}
    /\ IF IsValidPlayer(p)
       THEN /\ m_playerState' = [m_playerState EXCEPT ![p] = "Disconnected"]
            /\ DoAsync(room, p)
       ELSE UNCHANGED <<m_playerState, jobs>>
    /\ UNCHANGED <<roomVars, sector, sectorIdx, pos, m_viewList, m_ownPlayer,
                   packets, loggedOut, pc, overlapped, localVars, crashed, known>>

ReleasePlayer(p) ==
    /\ Serve(p, "release", "ended")
    /\ m_ownPlayer' = [m_ownPlayer EXCEPT ![p] = FALSE]
    /\ UNCHANGED <<roomVars, sector, m_playerState, sectorIdx, pos, m_viewList,
                   packets, loggedOut, jobVars, localVars, crashed, known>>

\* OnRecv goes on with the packets behind a logout, and ProcessRecv with what was
\* received before a failed send ended the session: a move or a chat of a null
\* m_ownPlayer, or a Room::Logout of it when its job runs.  The process dies.
HandleLatePacket(p) ==
    /\ session[p] = "ended" /\ SendPacket
    /\ crashed' = TRUE
    /\ UNCHANGED <<roomVars, sector, m_playerState, sectorIdx, pos, m_viewList,
                   m_ownPlayer, session, loggedOut, jobVars, localVars, known>>
-----------------------------------------------------------------------------
\* The job that runs on a queue is the first of its jobs, until it ends.
Owner(q) == Head(jobs[q])
Running == {q \in Queues : pc[q] # "idle"}
EndJob(q) == jobs' = [jobs EXCEPT ![q] = Tail(@)]

\* The job of q starts beside those that run.
NoteOverlap(q) ==
    overlapped' = overlapped \cup {{Owner(q), Owner(r)} : r \in Running \ {q}}

\* Zone::MovePlayer, up to the comparison of the sectors.
MovePlayer(z) ==
    /\ jobs[z] # <<>>
    /\ IsValidPlayer(Owner(z))
    /\ to' = [to EXCEPT ![z] = GetPlayerSectorIdx(pos[Owner(z)])]
    /\ Goto(z, "idle", IF to'[z] = sectorIdx[Owner(z)] THEN "look" ELSE "erase")
    /\ NoteOverlap(z)
    /\ UNCHANGED <<roomVars, sector, m_playerState, sectorIdx, pos, m_viewList,
                   sessionVars, jobs, newViewList, view, targets, crashed, known>>

MovePlayerInvalid(z) ==
    /\ pc[z] = "idle" /\ jobs[z] # <<>>
    /\ ~IsValidPlayer(Owner(z))
    /\ EndJob(z)
    /\ UNCHANGED <<roomVars, sector, m_playerState, sectorIdx, pos, m_viewList,
                   sessionVars, pc, overlapped, localVars, crashed, known>>

\* Mutant: the player is erased from the sector it goes to.
MoveEraseTo(z) ==
    /\ Goto(z, "erase", "insert")
    /\ Erase(to[z], Owner(z))
    /\ UNCHANGED <<roomVars, m_playerState, sectorIdx, pos, m_viewList,
                   sessionVars, jobs, overlapped, localVars, crashed, known>>

MoveErase(z) ==
    /\ Goto(z, "erase", "insert")
    /\ Erase(sectorIdx[Owner(z)], Owner(z))
    /\ UNCHANGED <<roomVars, m_playerState, sectorIdx, pos, m_viewList,
                   sessionVars, jobs, overlapped, localVars, crashed, known>>

MoveInsert(z) ==
    /\ Goto(z, "insert", "index")
    /\ Insert(to[z], Owner(z))
    /\ UNCHANGED <<roomVars, m_playerState, sectorIdx, pos, m_viewList,
                   sessionVars, jobs, overlapped, localVars, crashed, known>>

\* The sectors that the new view list is built from, one by one.
AdjacentView(z) == view' = [view EXCEPT ![z] = GetAdjacentSectors(pos[Owner(z)])]

\* Nobody can tell the two assignments apart.
MoveIndex(z) ==
    /\ Goto(z, "index", "visit")
    /\ sectorIdx' = [sectorIdx EXCEPT ![Owner(z)] = to[z]]
    /\ AdjacentView(z)
    /\ UNCHANGED <<roomVars, sector, m_playerState, pos, m_viewList, sessionVars,
                   jobs, overlapped, to, newViewList, targets, crashed, known>>

\* The sector is the same, or was when it was compared.
Look(z) ==
    /\ Goto(z, "look", "visit")
    /\ AdjacentView(z)
    /\ UNCHANGED <<roomVars, sector, m_playerState, sectorIdx, pos, m_viewList,
                   sessionVars, jobs, overlapped, to, newViewList, targets,
                   crashed, known>>

\* The next sector is locked, for as long as it has other players to visit.
VisitSector(z) ==
    LET others == sector[Visited(z)] \ {Owner(z)} IN
    /\ pc[z] = "visit" /\ view[z] # {}
    /\ IF others = {}
       THEN /\ view' = [view EXCEPT ![z] = @ \ {Visited(z)}]
            /\ UNCHANGED <<pc, targets>>
       ELSE /\ targets' = [targets EXCEPT ![z] = others]
            /\ Goto(z, "visit", "targets")
            /\ UNCHANGED view
    /\ UNCHANGED <<roomVars, sector, m_playerState, sectorIdx, pos, m_viewList,
                   sessionVars, jobs, overlapped, to, newViewList, crashed, known>>

\* Whether p's client is to be told of t.
SendsEnter(p, t) == t \notin m_viewList[p]

\* t learns of p by an enter or a move, p of t by an enter.
VisitTarget(z) == \E t \in targets[z] :
    LET p == Owner(z)
        sees == IsValidPlayer(t) /\ IsNear(pos[p], pos[t])
        rest == targets[z] \ {t} IN
    /\ Goto(z, "targets", IF rest = {} THEN "visit" ELSE "targets")
    /\ targets' = [targets EXCEPT ![z] = rest]
    /\ view' = IF rest = {} THEN [view EXCEPT ![z] = @ \ {Visited(z)}] ELSE view
    /\ newViewList' = IF sees THEN [newViewList EXCEPT ![z] = @ \cup {t}] ELSE newViewList
    /\ known' = [c \in Players |->
          known[c] \cup (IF sees /\ c = t /\ SendsEnter(t, p) THEN {p} ELSE {})
                   \cup (IF sees /\ c = p /\ SendsEnter(p, t) THEN {t} ELSE {})]
    /\ UNCHANGED <<roomVars, sector, m_playerState, sectorIdx, pos, m_viewList,
                   sessionVars, jobs, overlapped, to, crashed>>

\* Mutant: only the client of p is told.
ForgetsOwn(c, p, gone) == IF c = p THEN gone ELSE {}

\* Whom client c is told to forget when gone leave p's view: both sides are
\* told, the other one if it is in the map still.
Forgets(c, p, gone) ==
    IF c = p THEN gone ELSE IF c \in gone \cap m_players THEN {p} ELSE {}

SendLeaves(z) ==
    LET p == Owner(z)
        gone == m_viewList[p] \ newViewList[z] IN
    /\ view[z] = {}
    /\ Goto(z, "visit", "set_view")
    /\ known' = [c \in Players |-> known[c] \ Forgets(c, p, gone)]
    /\ UNCHANGED <<roomVars, sector, m_playerState, sectorIdx, pos, m_viewList,
                   sessionVars, jobs, overlapped, localVars, crashed>>

\* SendMoveResultMsg reads m_ownPlayer if the client asked for a result.
SendMoveResult(z) ==
    /\ \E m_bRequestResult \in BOOLEAN :
          crashed' = (m_bRequestResult /\ ~m_ownPlayer[Owner(z)])
    /\ EndJob(z)
    /\ to' = [to EXCEPT ![z] = 0] /\ newViewList' = [newViewList EXCEPT ![z] = {}]

\* Mutant: the old view list is kept.
SetViewListAdds(z) ==
    /\ Goto(z, "set_view", "idle")
    /\ m_viewList' = [m_viewList EXCEPT ![Owner(z)] = @ \cup newViewList[z]]
    /\ SendMoveResult(z)
    /\ UNCHANGED <<roomVars, sector, m_playerState, sectorIdx, pos, sessionVars,
                   overlapped, view, targets, known>>

\* The new view list, and the result: m_ownPlayer does not depend on the list,
\* nor the next job on what is sent.
SetViewList(z) ==
    /\ Goto(z, "set_view", "idle")
    /\ m_viewList' = [m_viewList EXCEPT ![Owner(z)] = newViewList[z]]
    /\ SendMoveResult(z)
    /\ UNCHANGED <<roomVars, sector, m_playerState, sectorIdx, pos, sessionVars,
                   overlapped, view, targets, known>>
-----------------------------------------------------------------------------
\* Room::Logout.
Logout ==
    /\ jobs[room] # <<>>
    /\ Goto(room, "idle", "logout_map")
    /\ Erase(sectorIdx[Owner(room)], Owner(room))
    /\ NoteOverlap(room)
    /\ UNCHANGED <<roomVars, m_playerState, sectorIdx, pos, m_viewList,
                   sessionVars, jobs, localVars, crashed, known>>

\* Mutant: the player stays in the map.
LogoutMapKeeps ==
    /\ Goto(room, "logout_map", "logout_state")
    /\ UNCHANGED <<roomVars, sector, m_playerState, sectorIdx, pos, m_viewList,
                   sessionVars, jobs, overlapped, localVars, crashed, known>>

LogoutMap ==
    /\ Goto(room, "logout_map", "logout_state")
    /\ m_players' = m_players \ {Owner(room)}
    /\ UNCHANGED <<m_loginCnt, sector, m_playerState, sectorIdx, pos, m_viewList,
                   sessionVars, jobs, overlapped, localVars, crashed, known>>

\* Mutant: only a player who is Connected still is counted off.
LogoutStateIfValid ==
    /\ Goto(room, "logout_state", "idle")
    /\ m_playerState' = [m_playerState EXCEPT ![Owner(room)] = "Disconnected"]
    /\ m_loginCnt' = IF IsValidPlayer(Owner(room)) THEN m_loginCnt - 1 ELSE m_loginCnt
    /\ EndJob(room)
    /\ UNCHANGED <<m_players, sector, sectorIdx, pos, m_viewList,
                   sessionVars, overlapped, localVars, crashed, known>>

LogoutState ==
    /\ Goto(room, "logout_state", "idle")
    /\ m_playerState' = [m_playerState EXCEPT ![Owner(room)] = "Disconnected"]
    /\ m_loginCnt' = m_loginCnt - 1
    /\ EndJob(room)
    /\ UNCHANGED <<m_players, sector, sectorIdx, pos, m_viewList,
                   sessionVars, overlapped, localVars, crashed, known>>
-----------------------------------------------------------------------------
LoginStep(p) == LoginInsert(p) \/ LoginMap(p) \/ LoginState(p)

Handler(p) == \/ LoginStep(p) \/ Handle_C2S_MOVE(p) \/ Handle_LOGOUT(p)
              \/ OnDisconnected(p) \/ ReleasePlayer(p) \/ HandleLatePacket(p)

ZoneStep(z) == \/ MovePlayer(z) \/ MovePlayerInvalid(z)
               \/ MoveErase(z) \/ MoveInsert(z) \/ MoveIndex(z)
               \/ Look(z) \/ VisitSector(z) \/ VisitTarget(z)
               \/ SendLeaves(z) \/ SetViewList(z)

RoomStep == Logout \/ LogoutMap \/ LogoutState

Next == /\ ~crashed
        /\ \/ \E p \in Players : Handler(p)
           \/ \E z \in Zones : ZoneStep(z)
           \/ RoomStep

Spec == Init /\ [][Next]_vars
-----------------------------------------------------------------------------
LoginPCs == {"login_map", "login_state"}
ZonePCs == {"idle", "erase", "insert", "index", "look", "visit", "targets", "set_view"}
RoomPCs == {"idle", "logout_map", "logout_state"}
Sessions == LoginPCs \cup {"connected", "playing", "disconnect", "release", "ended"}

\* Every variable has its type.
TypeOK ==
    /\ m_loginCnt \in Int /\ m_players \subseteq Players
    /\ sector \in [Sectors -> SUBSET Players]
    /\ m_playerState \in [Players -> {"Connected", "Disconnected"}]
    /\ sectorIdx \in [Players -> 0 .. MAP_WIDTH \div SECTOR_WIDTH - 1]
    /\ pos \in [Players -> Positions]
    /\ m_viewList \in [Players -> SUBSET Players]
    /\ m_ownPlayer \in [Players -> BOOLEAN]
    /\ session \in [Players -> Sessions]
    /\ jobs \in [Queues -> Seq(Players)]
    /\ pc \in [Queues -> ZonePCs \cup RoomPCs] /\ pc[room] \in RoomPCs
    /\ \A z \in Zones : pc[z] \in ZonePCs
    /\ \A q \in Running : jobs[q] # <<>>
    /\ to \in [Zones -> Sectors \cup {0}]
    /\ newViewList \in [Zones -> SUBSET Players]
    /\ view \in [Zones -> SUBSET Sectors] /\ targets \in [Zones -> SUBSET Players]
    /\ crashed \in BOOLEAN
    /\ known \in [Players -> SUBSET Players]
    /\ packets \in 0 .. MaxPackets /\ loggedOut \subseteq Players
    /\ overlapped \subseteq {{p, t} : p \in Players, t \in Players}

\* The room counts who is in its map, but for a login or logout on its way: no
\* player is forgotten, and none is logged out twice unless its client sent a
\* C2S_LOGOUT (Handle_LOGOUT and OnDisconnected may both queue a Room::Logout).
LoginCountIsExact ==
    LET onTheWay == {p \in Players : session[p] = "login_map"}
                    \cup (IF pc[room] = "logout_state" THEN {Owner(room)} ELSE {})
        present == Cardinality(m_players \cup onTheWay)
    IN  m_loginCnt <= present /\ (loggedOut = {} => m_loginCnt = present)

\* Nothing is on its way for p.
Settled(p) ==
    /\ session[p] \in {"connected", "playing", "ended"}
    /\ \A q \in Queues : \A i \in DOMAIN jobs[q] : jobs[q][i] # p

\* A sector holds the "players that belong to the sector" (Sector.h:24): those
\* in the room who are in it, and nobody else.
SectorIsRight(p) ==
    {s \in Sectors : p \in sector[s]} =
        IF p \in m_players THEN {GetPlayerSectorIdx(pos[p])} ELSE {}

\* That is so for every player with nothing on its way, whatever ran beside what.
\* It fails: Zone::MovePlayer may run beside Room::Logout, or beside itself in
\* another zone.
SectorsHoldTheirPlayers == \A p \in Players : Settled(p) => SectorIsRight(p)

\* It holds for every player of whom two jobs never ran at the same time: the
\* handlers, and the jobs of others, do not disturb it.
SectorsHoldSerialPlayers ==
    \A p \in Players : Settled(p) /\ {p} \notin overlapped => SectorIsRight(p)

\* No avatar is left behind: whom a client was told of and not told to forget
\* is in its player's view list, or has that player in its own, so that a later
\* move sends the leave; while both are in the room and as long as jobs of the
\* two did not run at the same time.
KnownIsSeen ==
    \A p, t \in m_players :
        t \in known[p] /\ Settled(p) /\ Settled(t)
            /\ {{p, t}, {p}, {t}} \cap overlapped = {}
        => t \in m_viewList[p] \/ p \in m_viewList[t]

\* Players who have each other in their view lists are near each other, with
\* the same conditions: whoever moved last has seen where the other one is.
MutualViewIsNear ==
    \A p, t \in m_players :
        t \in m_viewList[p] /\ p \in m_viewList[t] /\ Settled(p) /\ Settled(t)
            /\ {{p, t}, {p}, {t}} \cap overlapped = {}
        => IsNear(pos[p], pos[t])

\* Whoever left is out of the room once its jobs are done.
NobodyStays ==
    \A p \in Players : session[p] = "ended" /\ Settled(p) =>
        p \notin m_players /\ ~IsValidPlayer(p)
=============================================================================
