---------------------------- MODULE World_proofs ----------------------------
(***************************************************************************)
(* Theorems about World, for every map and every set of players.           *)
(*                                                                         *)
(* TypeCorrect first, then LInv: the life of a session and its jobs, from  *)
(* which LoginCountIsExact and NobodyStays follow.  WInv adds, in four     *)
(* parts of this module, what jobs leave behind: BInv (which jobs ran side *)
(* by side, what the zones' locals hold), SectorsFit, ViewsNear and        *)
(* KnownInView.  Each part proves first what a step of a handler, of a     *)
(* zone and of the room does to the players it is not about.               *)
(***************************************************************************)
EXTENDS World, FiniteSetTheorems, SequenceTheorems, WellFoundedInduction, TLAPS

LEMMA Widths ==
    /\ SECTOR_WIDTH \in Nat /\ SECTOR_WIDTH > 0 /\ ZONE_WIDTH \in Nat /\ ZONE_WIDTH > 0
    /\ MAP_WIDTH \in Nat /\ MAP_WIDTH > 0 /\ MaxPackets \in Nat
    /\ Positions \subseteq Int
    /\ MAP_WIDTH % SECTOR_WIDTH = 0 /\ MAP_WIDTH % ZONE_WIDTH = 0
  BY MapAssumption

LEMMA Quotient ==
    ASSUME NEW m \in Nat, NEW w \in Nat, m > 0, w > 0, m % w = 0
    PROVE  m \div w \in Nat /\ m \div w > 0
<1>1. m = w * (m \div w) + (m % w)
  OBVIOUS
<1>2. m \div w \in Int
  OBVIOUS
<1> DEFINE q == m \div w
<1>3. q \in Int /\ m = w * q
  BY <1>1, <1>2
<1> HIDE DEF q
<1>4. q > 0
  BY <1>3
<1>5. QED
  BY <1>3, <1>4 DEF q

LEMMA IndexInMap ==
    ASSUME NEW x \in Int, NEW w \in Nat, w > 0, MAP_WIDTH % w = 0
    PROVE  IndexOf(x, w) \in 0 .. MAP_WIDTH \div w - 1
<1>1. MAP_WIDTH \div w \in Nat /\ MAP_WIDTH \div w > 0
  BY Widths, Quotient
<1>2. x \div w \in Int
  OBVIOUS
<1>3. QED
  BY <1>1, <1>2 DEF IndexOf

\* Positions have a sector and a zone; the room is no zone.
LEMMA Indices ==
    /\ \A x \in Positions : /\ GetPlayerSectorIdx(x) \in Sectors
                            /\ GetPlayerSectorIdx(x) \in 0 .. MAP_WIDTH \div SECTOR_WIDTH - 1
                            /\ GetPlayerZoneIdx(x) \in Zones
    /\ Sectors \subseteq Nat /\ Zones \subseteq Nat
    /\ room \notin Zones /\ room \in Queues /\ Zones \subseteq Queues
<1>1. ASSUME NEW x \in Positions
      PROVE  /\ GetPlayerSectorIdx(x) \in 0 .. MAP_WIDTH \div SECTOR_WIDTH - 1
             /\ GetPlayerZoneIdx(x) \in 0 .. MAP_WIDTH \div ZONE_WIDTH - 1
  BY Widths, IndexInMap DEF GetPlayerSectorIdx, GetPlayerZoneIdx
<1>2. MAP_WIDTH \div SECTOR_WIDTH \in Nat /\ MAP_WIDTH \div ZONE_WIDTH \in Nat
  BY Widths, Quotient
<1>3. Sectors \subseteq Nat /\ Zones \subseteq Nat
  BY <1>1, <1>2 DEF Sectors, Zones
<1>4. room \notin Nat
  BY DEF room
<1>5. QED
  BY <1>1, <1>3, <1>4 DEF Sectors, Zones, Queues

\* There is a first sector among those left to visit.
LEMMA VisitedIsInView ==
    ASSUME NEW S, S \subseteq Nat, S # {}
    PROVE  Min(S) \in S
<1>1. PICK x \in S : \A y \in S : ~(<<y, x>> \in OpToRel(<, Nat))
  BY NatLessThanWellFounded, WFMin
<1>2. \A y \in S : ~(y < x)
  BY <1>1 DEF OpToRel
<1>3. \A y \in S : x <= y
  BY <1>2
<1>4. QED
  BY <1>3 DEF Min

LEMMA Tails ==
    ASSUME NEW S, NEW s \in Seq(S), s # <<>>
    PROVE  /\ Head(s) \in S /\ Head(s) = s[1] /\ Tail(s) \in Seq(S)
           /\ Len(s) \in Nat \ {0} /\ Len(Tail(s)) = Len(s) - 1
           /\ \A i \in 1 .. Len(s) - 1 : Tail(s)[i] = s[i + 1]
  OBVIOUS

LEMMA Appends ==
    ASSUME NEW S, NEW s \in Seq(S), NEW e \in S
    PROVE  /\ Append(s, e) \in Seq(S) /\ Append(s, e) # <<>> /\ Len(s) \in Nat
           /\ Len(Append(s, e)) = Len(s) + 1 /\ Append(s, e)[Len(s) + 1] = e
           /\ \A i \in 1 .. Len(s) : Append(s, e)[i] = s[i]
           /\ s # <<>> => Head(Append(s, e)) = Head(s)
  BY AppendProperties
-----------------------------------------------------------------------------
\* Who owns a job that runs is a player.
LEMMA OwnerTyped ==
    ASSUME TypeOK, NEW q \in Queues, jobs[q] # <<>>
    PROVE  Owner(q) \in Players /\ jobs[q] \in Seq(Players)
  BY Tails DEF TypeOK, Owner

\* A queue that gets another job keeps the one that runs.
LEMMA DoAsyncTyped ==
    ASSUME TypeOK, NEW q \in Queues, NEW p \in Players, DoAsync(q, p)
    PROVE  /\ jobs' \in [Queues -> Seq(Players)]
           /\ \A r \in Running : jobs'[r] # <<>>
           /\ \A r \in Running : Head(jobs'[r]) = Head(jobs[r])
<1>1. jobs \in [Queues -> Seq(Players)] /\ \A r \in Running : jobs[r] # <<>>
  BY DEF TypeOK
<1>2. jobs' = [jobs EXCEPT ![q] = Append(jobs[q], p)]
  BY DEF DoAsync
<1>3. /\ Append(jobs[q], p) \in Seq(Players) /\ Append(jobs[q], p) # <<>>
      /\ jobs[q] # <<>> => Head(Append(jobs[q], p)) = Head(jobs[q])
  BY <1>1, Appends
<1>4. \A r \in Running : r \in Queues
  BY DEF Running
<1>5. QED
  BY <1>1, <1>2, <1>3, <1>4

\* A job that ends leaves the queue, and the queue idle.
LEMMA EndJobTyped ==
    ASSUME TypeOK, NEW q \in Queues, jobs[q] # <<>>, EndJob(q)
    PROVE  /\ jobs' \in [Queues -> Seq(Players)]
           /\ \A r \in Running \ {q} : jobs'[r] = jobs[r] /\ jobs'[r] # <<>>
<1>1. jobs \in [Queues -> Seq(Players)] /\ \A r \in Running : jobs[r] # <<>>
  BY DEF TypeOK
<1>2. jobs' = [jobs EXCEPT ![q] = Tail(jobs[q])] /\ Tail(jobs[q]) \in Seq(Players)
  BY <1>1, Tails DEF EndJob
<1>3. \A r \in Running : r \in Queues
  BY DEF Running
<1>4. QED
  BY <1>1, <1>2, <1>3

\* The pairs of players whose jobs overlap are pairs of players.
LEMMA OverlapTyped ==
    ASSUME TypeOK, NEW q \in Queues, jobs[q] # <<>>, NoteOverlap(q)
    PROVE  overlapped' \subseteq {{p, t} : p \in Players, t \in Players}
<1>1. ASSUME NEW r \in Running
      PROVE  Owner(r) \in Players
  <2>1. r \in Queues /\ jobs[r] # <<>>
    BY DEF Running, TypeOK
  <2>2. QED
    BY <2>1, OwnerTyped
<1>2. Owner(q) \in Players
  BY OwnerTyped
<1>3. {{Owner(q), Owner(r)} : r \in Running \ {q}} \subseteq {{p, t} : p \in Players, t \in Players}
  BY <1>1, <1>2
<1>4. overlapped \subseteq {{p, t} : p \in Players, t \in Players}
  BY DEF TypeOK
<1>5. QED
  BY <1>3, <1>4 DEF NoteOverlap

\* A sector changes by players only.
LEMMA SectorTyped ==
    ASSUME TypeOK, NEW s, NEW p \in Players, Insert(s, p) \/ Erase(s, p)
    PROVE  sector' \in [Sectors -> SUBSET Players]
<1>1. sector \in [Sectors -> SUBSET Players]
  BY DEF TypeOK
<1>2. CASE sector' = [sector EXCEPT ![s] = sector[s] \cup {p}]
  BY <1>1, <1>2
<1>3. CASE sector' = [sector EXCEPT ![s] = sector[s] \ {p}]
  BY <1>1, <1>3
<1>4. QED
  BY <1>2, <1>3 DEF Insert, Erase

LEMMA InitTypeOK == Init => TypeOK
<1> SUFFICES ASSUME Init PROVE TypeOK
  OBVIOUS
<1>1. pos \in [Players -> Positions]
  BY DEF Init
<1>2. sectorIdx \in [Players -> 0 .. MAP_WIDTH \div SECTOR_WIDTH - 1]
  BY <1>1, Indices DEF Init
<1>3. jobs \in [Queues -> Seq(Players)] /\ Running = {}
  BY DEF Init, Running
<1>4. /\ pc \in [Queues -> ZonePCs \cup RoomPCs] /\ pc[room] \in RoomPCs
      /\ \A z \in Zones : pc[z] \in ZonePCs
  BY Indices DEF Init, ZonePCs, RoomPCs
<1>5. /\ sector \in [Sectors -> SUBSET Players]
      /\ m_playerState \in [Players -> {"Connected", "Disconnected"}]
      /\ m_viewList \in [Players -> SUBSET Players]
      /\ m_ownPlayer \in [Players -> BOOLEAN]
      /\ session \in [Players -> Sessions]
      /\ known \in [Players -> SUBSET Players]
  BY DEF Init, Sessions
<1>6. /\ to \in [Zones -> Sectors \cup {0}]
      /\ newViewList \in [Zones -> SUBSET Players]
      /\ view \in [Zones -> SUBSET Sectors] /\ targets \in [Zones -> SUBSET Players]
  BY DEF Init
<1>7. m_loginCnt = 0 /\ packets = 0 /\ crashed = FALSE
  BY DEF Init
<1>8. m_players = {} /\ loggedOut = {} /\ overlapped = {}
  BY DEF Init
<1>9. m_loginCnt \in Int /\ packets \in 0 .. MaxPackets
  BY <1>7, Widths
<1>10. crashed \in BOOLEAN
  BY <1>7, Zenon
<1>11. /\ m_players \subseteq Players /\ loggedOut \subseteq Players
       /\ overlapped \subseteq {{p, t} : p \in Players, t \in Players}
  BY <1>8
<1>12. QED
  BY <1>1, <1>2, <1>3, <1>4, <1>5, <1>6, <1>9, <1>10, <1>11 DEF TypeOK
-----------------------------------------------------------------------------
\* TypeOK in four parts: what the actions of the handlers, the zones and the
\* room change.
WorldTyped ==
    /\ m_loginCnt \in Int /\ m_players \subseteq Players
    /\ sector \in [Sectors -> SUBSET Players]
    /\ m_playerState \in [Players -> {"Connected", "Disconnected"}]
    /\ sectorIdx \in [Players -> 0 .. MAP_WIDTH \div SECTOR_WIDTH - 1]
    /\ pos \in [Players -> Positions]
    /\ m_viewList \in [Players -> SUBSET Players]
    /\ crashed \in BOOLEAN
    /\ known \in [Players -> SUBSET Players]

SessionTyped ==
    /\ m_ownPlayer \in [Players -> BOOLEAN]
    /\ session \in [Players -> Sessions]
    /\ packets \in 0 .. MaxPackets /\ loggedOut \subseteq Players

JobsTyped ==
    /\ jobs \in [Queues -> Seq(Players)]
    /\ pc \in [Queues -> ZonePCs \cup RoomPCs] /\ pc[room] \in RoomPCs
    /\ \A z \in Zones : pc[z] \in ZonePCs
    /\ \A q \in Queues : pc[q] # "idle" => jobs[q] # <<>>
    /\ overlapped \subseteq {{p, t} : p \in Players, t \in Players}

LocalsTyped ==
    /\ to \in [Zones -> Sectors \cup {0}]
    /\ newViewList \in [Zones -> SUBSET Players]
    /\ view \in [Zones -> SUBSET Sectors] /\ targets \in [Zones -> SUBSET Players]

LEMMA Parts == TypeOK <=> WorldTyped /\ SessionTyped /\ JobsTyped /\ LocalsTyped
  BY DEF TypeOK, WorldTyped, SessionTyped, JobsTyped, LocalsTyped, Running

LEMMA PartsNext == WorldTyped' /\ SessionTyped' /\ JobsTyped' /\ LocalsTyped' => TypeOK'
  BY DEF TypeOK, WorldTyped, SessionTyped, JobsTyped, LocalsTyped, Running

\* Whoever serves a session, its label stays one.
LEMMA ServeTyped ==
    ASSUME TypeOK, NEW p \in Players, NEW from, NEW label \in Sessions, Serve(p, from, label)
    PROVE  session' \in [Players -> Sessions]
  BY DEF Serve, TypeOK

LEMMA SendPacketTyped ==
    ASSUME TypeOK, SendPacket
    PROVE  packets' \in 0 .. MaxPackets
<1>1. packets \in Nat /\ packets < MaxPackets /\ packets' = packets + 1
  BY Widths DEF SendPacket, TypeOK
<1>2. QED
  BY <1>1, Widths

\* A step of a job keeps the queues' types.
LEMMA ZoneGotoTyped ==
    ASSUME TypeOK, NEW z \in Zones, NEW from, NEW label \in ZonePCs, Goto(z, from, label),
           jobs[z] # <<>>, UNCHANGED <<jobs, overlapped>>
    PROVE  JobsTyped'
<1>1. z \in Queues /\ z # room /\ pc' = [pc EXCEPT ![z] = label]
  BY Indices DEF Goto
<1>2. QED
  BY <1>1, Parts DEF JobsTyped

LEMMA HandlerTyped ==
    ASSUME TypeOK, NEW p \in Players, Handler(p)
    PROVE  TypeOK'
<1>1. WorldTyped /\ SessionTyped /\ JobsTyped /\ LocalsTyped
  BY Parts
<1> USE DEF roomVars, sessionVars, jobVars, localVars
<1>2. CASE LoginInsert(p)
  <2>1. session' \in [Players -> Sessions]
    BY <1>2, ServeTyped DEF LoginInsert, Sessions, LoginPCs
  <2>2. sector' \in [Sectors -> SUBSET Players]
    BY <1>2, SectorTyped DEF LoginInsert
  <2>3. WorldTyped'
    BY <1>1, <1>2, <2>2 DEF LoginInsert, WorldTyped
  <2>4. SessionTyped'
    BY <1>1, <1>2, <2>1 DEF LoginInsert, SessionTyped
  <2>5. JobsTyped' /\ LocalsTyped'
    BY <1>1, <1>2 DEF LoginInsert, JobsTyped, LocalsTyped
  <2>6. QED
    BY <2>3, <2>4, <2>5, PartsNext
<1>3. CASE LoginMap(p)
  <2>1. session' \in [Players -> Sessions]
    BY <1>3, ServeTyped DEF LoginMap, Sessions, LoginPCs
  <2>2. WorldTyped'
    BY <1>1, <1>3 DEF LoginMap, WorldTyped
  <2>3. SessionTyped' /\ JobsTyped' /\ LocalsTyped'
    BY <1>1, <1>3, <2>1 DEF LoginMap, SessionTyped, JobsTyped, LocalsTyped
  <2>4. QED
    BY <2>2, <2>3, PartsNext
<1>4. CASE LoginState(p)
  <2>1. session' \in [Players -> Sessions]
    BY <1>4, ServeTyped DEF LoginState, Sessions, LoginPCs
  <2>2. GetPlayerSectorIdx(pos[p]) \in 0 .. MAP_WIDTH \div SECTOR_WIDTH - 1
    BY <1>1, Indices DEF WorldTyped
  <2>3. WorldTyped'
    BY <1>1, <1>4, <2>2 DEF LoginState, WorldTyped
  <2>4. SessionTyped' /\ JobsTyped' /\ LocalsTyped'
    BY <1>1, <1>4, <2>1 DEF LoginState, SessionTyped, JobsTyped, LocalsTyped
  <2>5. QED
    BY <2>3, <2>4, PartsNext
<1>5. CASE Handle_C2S_MOVE(p)
  <2>1. PICK x \in Positions : /\ pos' = [pos EXCEPT ![p] = x]
                               /\ DoAsync(GetPlayerZoneIdx(x), p)
    BY <1>5 DEF Handle_C2S_MOVE
  <2>2. packets' \in 0 .. MaxPackets
    BY <1>5, SendPacketTyped DEF Handle_C2S_MOVE
  <2>3. GetPlayerZoneIdx(x) \in Queues
    BY Indices
  <2>4. jobs' \in [Queues -> Seq(Players)] /\ \A r \in Running : jobs'[r] # <<>>
    BY <2>1, <2>3, DoAsyncTyped
  <2>5. UNCHANGED <<pc, overlapped, m_ownPlayer, session, loggedOut, to, newViewList, view, targets>>
    BY <1>5 DEF Handle_C2S_MOVE
  <2>6. WorldTyped'
    BY <1>1, <1>5, <2>1 DEF Handle_C2S_MOVE, WorldTyped
  <2>7. SessionTyped' /\ LocalsTyped'
    BY <1>1, <2>2, <2>5 DEF SessionTyped, LocalsTyped
  <2>8. JobsTyped'
    BY <1>1, <2>4, <2>5 DEF JobsTyped, Running
  <2>9. QED
    BY <2>6, <2>7, <2>8, PartsNext
<1>6. CASE Handle_LOGOUT(p)
  <2>1. session' \in [Players -> Sessions]
    BY <1>6, ServeTyped DEF Handle_LOGOUT, Sessions
  <2>2. packets' \in 0 .. MaxPackets
    BY <1>6, SendPacketTyped DEF Handle_LOGOUT
  <2>3. jobs' \in [Queues -> Seq(Players)] /\ \A r \in Running : jobs'[r] # <<>>
    BY <1>6, DoAsyncTyped, Indices DEF Handle_LOGOUT
  <2>4. WorldTyped' /\ LocalsTyped'
    BY <1>1, <1>6 DEF Handle_LOGOUT, WorldTyped, LocalsTyped
  <2>5. SessionTyped'
    BY <1>1, <1>6, <2>1, <2>2 DEF Handle_LOGOUT, SessionTyped
  <2>6. JobsTyped'
    BY <1>1, <1>6, <2>3 DEF Handle_LOGOUT, JobsTyped, Running
  <2>7. QED
    BY <2>4, <2>5, <2>6, PartsNext
<1>7. CASE OnDisconnected(p)
  <2>1. session' \in [Players -> Sessions]
    BY <1>7, ServeTyped DEF OnDisconnected, Sessions
  <2>2. jobs' \in [Queues -> Seq(Players)] /\ \A r \in Running : jobs'[r] # <<>>
    <3>1. DoAsync(room, p) \/ jobs' = jobs
      BY <1>7 DEF OnDisconnected
    <3>2. QED
      BY <1>1, <3>1, DoAsyncTyped, Indices DEF JobsTyped, Running
  <2>3. m_playerState' \in [Players -> {"Connected", "Disconnected"}]
    BY <1>1, <1>7 DEF OnDisconnected, WorldTyped
  <2>4. WorldTyped' /\ LocalsTyped'
    BY <1>1, <1>7, <2>3 DEF OnDisconnected, WorldTyped, LocalsTyped
  <2>5. SessionTyped'
    BY <1>1, <1>7, <2>1 DEF OnDisconnected, SessionTyped
  <2>6. JobsTyped'
    BY <1>1, <1>7, <2>2 DEF OnDisconnected, JobsTyped, Running
  <2>7. QED
    BY <2>4, <2>5, <2>6, PartsNext
<1>8. CASE ReleasePlayer(p)
  <2>1. session' \in [Players -> Sessions]
    BY <1>8, ServeTyped DEF ReleasePlayer, Sessions
  <2>2. WorldTyped' /\ LocalsTyped' /\ JobsTyped'
    BY <1>1, <1>8 DEF ReleasePlayer, WorldTyped, LocalsTyped, JobsTyped
  <2>3. SessionTyped'
    BY <1>1, <1>8, <2>1 DEF ReleasePlayer, SessionTyped
  <2>4. QED
    BY <2>2, <2>3, PartsNext
<1>9. CASE HandleLatePacket(p)
  <2>1. packets' \in 0 .. MaxPackets
    BY <1>9, SendPacketTyped DEF HandleLatePacket
  <2>2. WorldTyped' /\ LocalsTyped' /\ JobsTyped'
    BY <1>1, <1>9 DEF HandleLatePacket, WorldTyped, LocalsTyped, JobsTyped, Running
  <2>3. SessionTyped'
    BY <1>1, <1>9, <2>1 DEF HandleLatePacket, SessionTyped
  <2>4. QED
    BY <2>2, <2>3, PartsNext
<1>10. QED
  BY <1>2, <1>3, <1>4, <1>5, <1>6, <1>7, <1>8, <1>9 DEF Handler, LoginStep

\* A step that leaves a player's sector, or enters one.
LEMMA ZoneTyped ==
    ASSUME TypeOK, NEW z \in Zones, ZoneStep(z)
    PROVE  TypeOK'
<1>1. WorldTyped /\ SessionTyped /\ JobsTyped /\ LocalsTyped /\ z \in Queues /\ z # room
  BY Parts, Indices
<1>2. jobs[z] # <<>> => Owner(z) \in Players
  BY <1>1, OwnerTyped
<1>3. pc[z] # "idle" => jobs[z] # <<>>
  BY <1>1 DEF JobsTyped
<1> USE DEF roomVars, sessionVars, jobVars, localVars
<1>4. CASE MovePlayer(z)
  <2>1. /\ jobs[z] # <<>> /\ NoteOverlap(z) /\ UNCHANGED jobs
        /\ to' = [to EXCEPT ![z] = GetPlayerSectorIdx(pos[Owner(z)])]
    BY <1>4 DEF MovePlayer
  <2>2. \E label \in {"look", "erase"} : pc' = [pc EXCEPT ![z] = label]
    BY <1>4 DEF MovePlayer, Goto
  <2>3. GetPlayerSectorIdx(pos[Owner(z)]) \in Sectors
    BY <1>1, <1>2, <2>1, Indices DEF WorldTyped
  <2>4. overlapped' \subseteq {{p, t} : p \in Players, t \in Players}
    BY <1>1, <2>1, OverlapTyped
  <2>5. JobsTyped'
    BY <1>1, <2>1, <2>2, <2>4 DEF JobsTyped, ZonePCs
  <2>6. LocalsTyped'
    BY <1>1, <1>4, <2>1, <2>3 DEF MovePlayer, LocalsTyped
  <2>7. WorldTyped' /\ SessionTyped'
    BY <1>1, <1>4 DEF MovePlayer, WorldTyped, SessionTyped
  <2>8. QED
    BY <2>5, <2>6, <2>7, PartsNext
<1>5. CASE MovePlayerInvalid(z)
  <2>1. /\ jobs' \in [Queues -> Seq(Players)]
        /\ \A r \in Running \ {z} : jobs'[r] = jobs[r] /\ jobs'[r] # <<>>
    BY <1>1, <1>5, EndJobTyped DEF MovePlayerInvalid
  <2>2. pc[z] = "idle" /\ UNCHANGED <<pc, overlapped>>
    BY <1>5 DEF MovePlayerInvalid
  <2>3. JobsTyped'
    BY <1>1, <2>1, <2>2 DEF JobsTyped, Running
  <2>4. WorldTyped' /\ SessionTyped' /\ LocalsTyped'
    BY <1>1, <1>5 DEF MovePlayerInvalid, WorldTyped, SessionTyped, LocalsTyped
  <2>5. QED
    BY <2>3, <2>4, PartsNext
<1>6. CASE MoveErase(z)
  <2>1. Goto(z, "erase", "insert") /\ UNCHANGED <<jobs, overlapped>> /\ pc[z] # "idle"
    BY <1>6 DEF MoveErase, Goto
  <2>2. JobsTyped'
    BY <1>3, <2>1, ZoneGotoTyped DEF ZonePCs
  <2>3. sector' \in [Sectors -> SUBSET Players]
    BY <1>2, <1>3, <1>6, <2>1, SectorTyped DEF MoveErase
  <2>4. WorldTyped' /\ SessionTyped' /\ LocalsTyped'
    BY <1>1, <1>6, <2>3 DEF MoveErase, WorldTyped, SessionTyped, LocalsTyped
  <2>5. QED
    BY <2>2, <2>4, PartsNext
<1>7. CASE MoveInsert(z)
  <2>1. Goto(z, "insert", "index") /\ UNCHANGED <<jobs, overlapped>> /\ pc[z] # "idle"
    BY <1>7 DEF MoveInsert, Goto
  <2>2. JobsTyped'
    BY <1>3, <2>1, ZoneGotoTyped DEF ZonePCs
  <2>3. sector' \in [Sectors -> SUBSET Players]
    BY <1>2, <1>3, <1>7, <2>1, SectorTyped DEF MoveInsert
  <2>4. WorldTyped' /\ SessionTyped' /\ LocalsTyped'
    BY <1>1, <1>7, <2>3 DEF MoveInsert, WorldTyped, SessionTyped, LocalsTyped
  <2>5. QED
    BY <2>2, <2>4, PartsNext
<1>8. CASE MoveIndex(z)
  <2>1. Goto(z, "index", "visit") /\ UNCHANGED <<jobs, overlapped>> /\ pc[z] # "idle"
    BY <1>8 DEF MoveIndex, Goto
  <2>2. JobsTyped'
    BY <1>3, <2>1, ZoneGotoTyped DEF ZonePCs
  <2>3. to[z] \in 0 .. MAP_WIDTH \div SECTOR_WIDTH - 1
    <3>1. 0 \in 0 .. MAP_WIDTH \div SECTOR_WIDTH - 1
      BY Widths, Quotient
    <3>2. QED
      BY <1>1, <3>1, Indices DEF LocalsTyped, Sectors
  <2>4. WorldTyped' /\ SessionTyped'
    BY <1>1, <1>2, <1>3, <1>8, <2>1, <2>3 DEF MoveIndex, WorldTyped, SessionTyped
  <2>5. LocalsTyped'
    BY <1>1, <1>8 DEF MoveIndex, AdjacentView, GetAdjacentSectors, LocalsTyped
  <2>6. QED
    BY <2>2, <2>4, <2>5, PartsNext
<1>9. CASE Look(z)
  <2>1. Goto(z, "look", "visit") /\ UNCHANGED <<jobs, overlapped>> /\ pc[z] # "idle"
    BY <1>9 DEF Look, Goto
  <2>2. JobsTyped'
    BY <1>3, <2>1, ZoneGotoTyped DEF ZonePCs
  <2>3. WorldTyped' /\ SessionTyped'
    BY <1>1, <1>9 DEF Look, WorldTyped, SessionTyped
  <2>4. LocalsTyped'
    BY <1>1, <1>9 DEF Look, AdjacentView, GetAdjacentSectors, LocalsTyped
  <2>5. QED
    BY <2>2, <2>3, <2>4, PartsNext
<1>10. CASE VisitSector(z)
  <2> DEFINE others == sector[Visited(z)] \ {Owner(z)}
  <2>1. pc[z] = "visit" /\ view[z] # {} /\ UNCHANGED <<jobs, overlapped, to, newViewList>>
    BY <1>10 DEF VisitSector
  <2>2. Visited(z) \in Sectors
    BY <1>1, <2>1, VisitedIsInView, Indices DEF LocalsTyped, Visited
  <2>3. others \subseteq Players
    BY <1>1, <2>2 DEF WorldTyped
  <2>4. \/ UNCHANGED pc
        \/ Goto(z, "visit", "targets")
    BY <1>10 DEF VisitSector
  <2>5. JobsTyped'
    <3>1. CASE UNCHANGED pc
      BY <1>1, <2>1, <3>1 DEF JobsTyped
    <3>2. CASE Goto(z, "visit", "targets")
      BY <1>3, <2>1, <3>2, ZoneGotoTyped DEF ZonePCs
    <3>3. QED
      BY <2>4, <3>1, <3>2
  <2>6. \/ view' = [view EXCEPT ![z] = view[z] \ {Visited(z)}] /\ UNCHANGED targets
        \/ targets' = [targets EXCEPT ![z] = others] /\ UNCHANGED view
    BY <1>10 DEF VisitSector
  <2>7. LocalsTyped'
    <3> HIDE DEF others
    <3>1. QED
      BY <1>1, <2>1, <2>3, <2>6 DEF LocalsTyped
  <2>8. WorldTyped' /\ SessionTyped'
    BY <1>1, <1>10 DEF VisitSector, WorldTyped, SessionTyped
  <2>9. QED
    BY <2>5, <2>7, <2>8, PartsNext
<1>11. CASE VisitTarget(z)
  <2>1. PICK t \in targets[z] :
           LET p == Owner(z)
               sees == IsValidPlayer(t) /\ IsNear(pos[p], pos[t])
               rest == targets[z] \ {t}
           IN  /\ Goto(z, "targets", IF rest = {} THEN "visit" ELSE "targets")
               /\ targets' = [targets EXCEPT ![z] = rest]
               /\ view' = IF rest = {} THEN [view EXCEPT ![z] = @ \ {Visited(z)}] ELSE view
               /\ newViewList' = IF sees THEN [newViewList EXCEPT ![z] = @ \cup {t}]
                                         ELSE newViewList
               /\ known' = [c \in Players |->
                     known[c] \cup (IF sees /\ c = t /\ SendsEnter(t, p) THEN {p} ELSE {})
                              \cup (IF sees /\ c = p /\ SendsEnter(p, t) THEN {t} ELSE {})]
               /\ UNCHANGED <<roomVars, sector, m_playerState, sectorIdx, pos, m_viewList,
                              sessionVars, jobs, overlapped, to, crashed>>
    BY <1>11, Zenon DEF VisitTarget
  <2>2. t \in Players /\ pc[z] = "targets" /\ Owner(z) \in Players /\ jobs[z] # <<>>
    BY <1>1, <1>2, <1>3, <2>1 DEF LocalsTyped, Goto
  <2>3. \E label \in ZonePCs : Goto(z, "targets", label)
    BY <2>1 DEF ZonePCs
  <2>4. UNCHANGED <<jobs, overlapped>>
    BY <2>1
  <2>5. JobsTyped'
    BY <2>2, <2>3, <2>4, ZoneGotoTyped
  <2>6. known' \in [Players -> SUBSET Players]
    <3>1. \A c \in Players : known'[c] \subseteq known[c] \cup {Owner(z)} \cup {t}
      BY <2>1
    <3>2. known' = [c \in Players |-> known'[c]]
      BY <2>1
    <3>3. \A c \in Players : known'[c] \in SUBSET Players
      BY <1>1, <2>2, <3>1 DEF WorldTyped
    <3>4. QED
      BY <3>2, <3>3
  <2>7. WorldTyped' /\ SessionTyped'
    BY <1>1, <2>1, <2>6 DEF WorldTyped, SessionTyped
  <2>8. LocalsTyped'
    <3>1. targets' \in [Zones -> SUBSET Players]
      BY <1>1, <2>1 DEF LocalsTyped
    <3>2. view' \in [Zones -> SUBSET Sectors]
      <4>1. view' = [view EXCEPT ![z] = @ \ {Visited(z)}] \/ view' = view
        BY <2>1
      <4>2. QED
        BY <1>1, <4>1 DEF LocalsTyped
    <3>3. newViewList' \in [Zones -> SUBSET Players]
      <4>1. newViewList' = [newViewList EXCEPT ![z] = @ \cup {t}] \/ newViewList' = newViewList
        BY <2>1
      <4>2. QED
        BY <1>1, <2>2, <4>1 DEF LocalsTyped
    <3>4. QED
      BY <1>1, <2>1, <3>1, <3>2, <3>3 DEF LocalsTyped
  <2>9. QED
    BY <2>5, <2>7, <2>8, PartsNext
<1>12. CASE SendLeaves(z)
  <2>1. Goto(z, "visit", "set_view") /\ UNCHANGED <<jobs, overlapped>> /\ pc[z] # "idle"
    BY <1>12 DEF SendLeaves, Goto
  <2>2. JobsTyped'
    BY <1>3, <2>1, ZoneGotoTyped DEF ZonePCs
  <2>3. known' \in [Players -> SUBSET Players]
    BY <1>1, <1>12 DEF SendLeaves, WorldTyped
  <2>4. WorldTyped' /\ SessionTyped' /\ LocalsTyped'
    BY <1>1, <1>12, <2>3 DEF SendLeaves, WorldTyped, SessionTyped, LocalsTyped
  <2>5. QED
    BY <2>2, <2>4, PartsNext
<1>13. CASE SetViewList(z)
  <2>1. /\ pc[z] = "set_view" /\ pc' = [pc EXCEPT ![z] = "idle"] /\ SendMoveResult(z)
        /\ m_viewList' = [m_viewList EXCEPT ![Owner(z)] = newViewList[z]]
    BY <1>13 DEF SetViewList, Goto
  <2>2. jobs[z] # <<>>
    BY <1>3, <2>1
  <2>3. /\ jobs' \in [Queues -> Seq(Players)]
        /\ \A r \in Running \ {z} : jobs'[r] = jobs[r] /\ jobs'[r] # <<>>
    BY <1>1, <2>1, <2>2, EndJobTyped DEF SendMoveResult
  <2>4. JobsTyped'
    <3>1. \A q \in Queues : pc'[q] # "idle" => q \in Running \ {z}
      BY <1>1, <2>1 DEF JobsTyped, Running
    <3>2. \A q \in Queues : pc'[q] # "idle" => jobs'[q] # <<>>
      BY <2>3, <3>1
    <3>3. UNCHANGED overlapped
      BY <1>13 DEF SetViewList
    <3>4. /\ pc' \in [Queues -> ZonePCs \cup RoomPCs] /\ pc'[room] \in RoomPCs
          /\ \A y \in Zones : pc'[y] \in ZonePCs
      BY <1>1, <2>1 DEF JobsTyped, ZonePCs
    <3>5. QED
      BY <1>1, <2>3, <3>2, <3>3, <3>4 DEF JobsTyped
  <2>5. crashed' \in BOOLEAN
    BY <2>1 DEF SendMoveResult
  <2>6. m_viewList' \in [Players -> SUBSET Players]
    BY <1>1, <1>2, <2>1, <2>2 DEF WorldTyped, LocalsTyped
  <2>7. WorldTyped' /\ SessionTyped'
    BY <1>1, <1>13, <2>5, <2>6 DEF SetViewList, WorldTyped, SessionTyped
  <2>8. LocalsTyped'
    BY <1>1, <1>13, <2>1 DEF SetViewList, SendMoveResult, LocalsTyped
  <2>9. QED
    BY <2>4, <2>7, <2>8, PartsNext
<1>14. QED
  BY <1>4, <1>5, <1>6, <1>7, <1>8, <1>9, <1>10, <1>11, <1>12, <1>13 DEF ZoneStep

LEMMA RoomTyped ==
    ASSUME TypeOK, RoomStep
    PROVE  TypeOK'
<1>1. /\ WorldTyped /\ SessionTyped /\ JobsTyped /\ LocalsTyped
      /\ room \in Queues /\ \A z \in Zones : z # room
  BY Parts, Indices
<1>2. jobs[room] # <<>> => Owner(room) \in Players
  BY <1>1, OwnerTyped
<1>3. pc[room] # "idle" => jobs[room] # <<>>
  BY <1>1 DEF JobsTyped
<1> USE DEF roomVars, sessionVars, jobVars, localVars
<1>4. CASE Logout
  <2>1. /\ jobs[room] # <<>> /\ NoteOverlap(room) /\ UNCHANGED jobs
        /\ pc' = [pc EXCEPT ![room] = "logout_map"]
    BY <1>4 DEF Logout, Goto
  <2>2. overlapped' \subseteq {{p, t} : p \in Players, t \in Players}
    BY <1>1, <2>1, OverlapTyped
  <2>3. JobsTyped'
    BY <1>1, <2>1, <2>2 DEF JobsTyped, RoomPCs
  <2>4. sector' \in [Sectors -> SUBSET Players]
    BY <1>2, <1>4, <2>1, SectorTyped DEF Logout
  <2>5. WorldTyped' /\ SessionTyped' /\ LocalsTyped'
    BY <1>1, <1>4, <2>4 DEF Logout, WorldTyped, SessionTyped, LocalsTyped
  <2>6. QED
    BY <2>3, <2>5, PartsNext
<1>5. CASE LogoutMap
  <2>1. pc[room] = "logout_map" /\ pc' = [pc EXCEPT ![room] = "logout_state"]
    BY <1>5 DEF LogoutMap, Goto
  <2>2. JobsTyped'
    BY <1>1, <1>3, <1>5, <2>1 DEF LogoutMap, JobsTyped, RoomPCs
  <2>3. WorldTyped' /\ SessionTyped' /\ LocalsTyped'
    BY <1>1, <1>5 DEF LogoutMap, WorldTyped, SessionTyped, LocalsTyped
  <2>4. QED
    BY <2>2, <2>3, PartsNext
<1>6. CASE LogoutState
  <2>1. /\ pc[room] = "logout_state" /\ pc' = [pc EXCEPT ![room] = "idle"] /\ EndJob(room)
        /\ UNCHANGED overlapped
    BY <1>6 DEF LogoutState, Goto
  <2>2. /\ jobs' \in [Queues -> Seq(Players)]
        /\ \A r \in Running \ {room} : jobs'[r] = jobs[r] /\ jobs'[r] # <<>>
    BY <1>1, <1>3, <2>1, EndJobTyped
  <2>3. JobsTyped'
    <3>1. \A q \in Queues : pc'[q] # "idle" => q \in Running \ {room}
      BY <1>1, <2>1 DEF JobsTyped, Running
    <3>2. \A q \in Queues : pc'[q] # "idle" => jobs'[q] # <<>>
      BY <2>2, <3>1
    <3>3. /\ pc' \in [Queues -> ZonePCs \cup RoomPCs] /\ pc'[room] \in RoomPCs
          /\ \A y \in Zones : pc'[y] \in ZonePCs
      BY <1>1, <2>1 DEF JobsTyped, RoomPCs
    <3>4. QED
      BY <1>1, <2>1, <2>2, <3>2, <3>3 DEF JobsTyped
  <2>4. WorldTyped'
    BY <1>1, <1>2, <1>3, <1>6, <2>1 DEF LogoutState, WorldTyped
  <2>5. SessionTyped' /\ LocalsTyped'
    BY <1>1, <1>6 DEF LogoutState, SessionTyped, LocalsTyped
  <2>6. QED
    BY <2>3, <2>4, <2>5, PartsNext
<1>7. QED
  BY <1>4, <1>5, <1>6 DEF RoomStep

LEMMA StepTypeOK == TypeOK /\ [Next]_vars => TypeOK'
<1> SUFFICES ASSUME TypeOK, [Next]_vars PROVE TypeOK'
  OBVIOUS
<1>1. CASE UNCHANGED vars
  BY <1>1 DEF vars, roomVars, sessionVars, jobVars, localVars, TypeOK, Running
<1>2. QED
  BY <1>1, HandlerTyped, ZoneTyped, RoomTyped DEF Next

\* Every state of the specification has the type of TypeOK.
THEOREM TypeCorrect == Spec => []TypeOK
  BY InitTypeOK, StepTypeOK, PTL DEF Spec
-----------------------------------------------------------------------------
\* The players with a Room::Logout in the room's queue.
LoggingOut == {jobs[room][i] : i \in DOMAIN jobs[room]}

\* What a session's stage says of its player; one that is in the room is on its
\* way in, is playing, or has a Logout to take it out.
Lifecycle == \A p \in Players :
    /\ session[p] \in LoginPCs \cup {"connected"} =>
          m_playerState[p] # "Connected" /\ p \notin LoggingOut
    /\ session[p] \in {"connected", "login_map"} => p \notin m_players
    /\ session[p] \in {"release", "ended"} => m_playerState[p] # "Connected"
    /\ p \in m_players =>
          session[p] = "login_state" \/ m_playerState[p] = "Connected" \/ p \in LoggingOut

LogoutErased == pc[room] = "logout_state" => Owner(room) \notin m_players

\* If no client sends C2S_LOGOUT, a player has one Logout, and is in the room
\* until it runs.
OneLogout == loggedOut = {} =>
    /\ \A p \in Players :
          session[p] \in {"login_state", "playing", "disconnect"} => p \in m_players
    /\ \A p \in LoggingOut :
          /\ session[p] \in {"release", "ended"}
          /\ p \in m_players \/ (pc[room] = "logout_state" /\ p = Owner(room))
    /\ \A i, j \in DOMAIN jobs[room] : jobs[room][i] = jobs[room][j] => i = j

\* The players LoginCountIsExact counts.
Present ==
    m_players \cup {p \in Players : session[p] = "login_map"}
              \cup (IF pc[room] = "logout_state" THEN {Owner(room)} ELSE {})

CountRight ==
    /\ IsFiniteSet(Present) /\ m_loginCnt <= Cardinality(Present)
    /\ loggedOut = {} => m_loginCnt = Cardinality(Present)

LInv == TypeOK /\ Lifecycle /\ LogoutErased /\ OneLogout /\ CountRight

LEMMA InitLInv == Init => LInv
<1> SUFFICES ASSUME Init PROVE LInv
  OBVIOUS
<1>1. TypeOK
  BY InitTypeOK
<1>2. jobs[room] = <<>> /\ pc[room] = "idle" /\ LoggingOut = {}
  BY Indices DEF Init, LoggingOut
<1>3. /\ m_players = {} /\ m_loginCnt = 0
      /\ \A p \in Players : session[p] = "connected" /\ m_playerState[p] = "Disconnected"
  BY DEF Init
<1>4. Present = {}
  BY <1>2, <1>3 DEF Present
<1>5. CountRight
  BY <1>3, <1>4, FS_EmptySet DEF CountRight
<1>6. Lifecycle /\ LogoutErased /\ OneLogout
  BY <1>2, <1>3 DEF Lifecycle, LogoutErased, OneLogout, LoginPCs
<1>7. QED
  BY <1>1, <1>5, <1>6 DEF LInv

\* A queue's job that is added is the last, and the only new one.
LEMMA LogoutQueued ==
    ASSUME TypeOK, NEW p \in Players, DoAsync(room, p)
    PROVE  /\ LoggingOut' = LoggingOut \cup {p}
           /\ jobs[room] # <<>> => Head(jobs'[room]) = Head(jobs[room])
           /\ p \notin LoggingOut
              /\ (\A i, j \in DOMAIN jobs[room] : jobs[room][i] = jobs[room][j] => i = j)
              => \A i, j \in DOMAIN jobs'[room] : jobs'[room][i] = jobs'[room][j] => i = j
<1> DEFINE old == jobs[room]
           new == jobs'[room]
           n == Len(old)
<1>1. old \in Seq(Players) /\ jobs' = [jobs EXCEPT ![room] = Append(old, p)]
  BY Indices DEF TypeOK, DoAsync
<1>2. new = Append(old, p)
  BY <1>1, Indices DEF TypeOK
<1>3. /\ n \in Nat /\ DOMAIN old = 1 .. n /\ DOMAIN new = 1 .. n + 1
      /\ \A i \in 1 .. n : new[i] = old[i]
      /\ new[n + 1] = p
      /\ old # <<>> => Head(new) = Head(old)
  <2> HIDE DEF old, new
  <2>1. new \in Seq(Players) /\ Len(new) = n + 1
    BY <1>1, <1>2, Appends
  <2>2. QED
    BY <1>1, <1>2, <2>1, Appends
<1> HIDE DEF n
<1>4. LoggingOut = {old[i] : i \in 1 .. n} /\ LoggingOut' = {new[i] : i \in 1 .. n + 1}
  BY <1>3 DEF LoggingOut
<1> HIDE DEF old, new
<1>5. LoggingOut' = LoggingOut \cup {p}
  <2>1. \A i \in 1 .. n + 1 : new[i] = p \/ new[i] \in LoggingOut
    BY <1>3, <1>4
  <2>2. \A i \in 1 .. n : i \in 1 .. n + 1 /\ old[i] = new[i]
    BY <1>3
  <2>3. n + 1 \in 1 .. n + 1
    BY <1>3
  <2>4. QED
    BY <1>3, <1>4, <2>1, <2>2, <2>3
<1>6. ASSUME p \notin LoggingOut, \A i, j \in DOMAIN old : old[i] = old[j] => i = j,
             NEW i \in DOMAIN new, NEW j \in DOMAIN new, new[i] = new[j]
      PROVE  i = j
  <2>1. \A k \in 1 .. n : new[k] # p
    BY <1>3, <1>4, <1>6
  <2>2. i \in 1 .. n \/ i = n + 1
    BY <1>3
  <2>3. j \in 1 .. n \/ j = n + 1
    BY <1>3
  <2>4. QED
    BY <1>3, <1>6, <2>1, <2>2, <2>3
<1>7. QED
  BY <1>3, <1>5, <1>6 DEF old, new

\* The Logout that ends leaves the queue; the others stay.
LEMMA LogoutEnded ==
    ASSUME TypeOK, jobs[room] # <<>>, EndJob(room)
    PROVE  /\ LoggingOut' \subseteq LoggingOut /\ LoggingOut \subseteq LoggingOut' \cup {Owner(room)}
           /\ Owner(room) \in LoggingOut
           /\ (\A i, j \in DOMAIN jobs[room] : jobs[room][i] = jobs[room][j] => i = j)
              => /\ Owner(room) \notin LoggingOut'
                 /\ \A i, j \in DOMAIN jobs'[room] : jobs'[room][i] = jobs'[room][j] => i = j
<1> DEFINE old == jobs[room]
           new == jobs'[room]
           n == Len(old)
<1>1. old \in Seq(Players) /\ old # <<>> /\ jobs' = [jobs EXCEPT ![room] = Tail(old)]
  BY Indices DEF TypeOK, EndJob
<1>2. new = Tail(old)
  BY <1>1, Indices DEF TypeOK
<1>3. /\ n \in Nat \ {0} /\ DOMAIN old = 1 .. n /\ DOMAIN new = 1 .. n - 1
      /\ \A i \in 1 .. n - 1 : new[i] = old[i + 1] /\ i + 1 \in 1 .. n
      /\ Owner(room) = old[1]
  <2>1. Owner(room) = Head(old)
    BY DEF Owner
  <2> HIDE DEF old, new
  <2>2. new \in Seq(Players) /\ Len(new) = n - 1 /\ n \in Nat \ {0} /\ Head(old) = old[1]
    BY <1>1, <1>2, Tails
  <2>3. \A i \in 1 .. n - 1 : new[i] = old[i + 1] /\ i + 1 \in 1 .. n
    BY <1>1, <1>2, <2>2, Tails
  <2>4. QED
    BY <1>1, <2>1, <2>2, <2>3
<1> HIDE DEF n
<1>4. LoggingOut = {old[i] : i \in 1 .. n} /\ LoggingOut' = {new[i] : i \in 1 .. n - 1}
  BY <1>3 DEF LoggingOut
<1> HIDE DEF old, new
<1>5. LoggingOut' \subseteq LoggingOut
  BY <1>3, <1>4
<1>6. LoggingOut \subseteq LoggingOut' \cup {Owner(room)}
  <2>1. \A i \in 1 .. n : i = 1 \/ (i - 1 \in 1 .. n - 1 /\ old[i] = new[i - 1])
    BY <1>3
  <2>2. QED
    BY <1>3, <1>4, <2>1
<1>7. Owner(room) \in LoggingOut
  <2>1. 1 \in 1 .. n
    BY <1>3
  <2>2. QED
    BY <1>3, <1>4, <2>1
<1>8. ASSUME \A i, j \in DOMAIN old : old[i] = old[j] => i = j
      PROVE  /\ Owner(room) \notin LoggingOut'
             /\ \A i, j \in DOMAIN new : new[i] = new[j] => i = j
  <2>1. \A i \in 1 .. n - 1 : i + 1 # 1 /\ i + 1 \in 1 .. n
    BY <1>3
  <2>2. 1 \in 1 .. n
    BY <1>3
  <2>3. \A i \in 1 .. n - 1 : new[i] # old[1]
    BY <1>3, <1>8, <2>1, <2>2
  <2>4. ASSUME NEW i \in 1 .. n - 1, NEW j \in 1 .. n - 1, new[i] = new[j]
        PROVE  i = j
    <3>1. i + 1 = j + 1
      BY <1>3, <1>8, <2>1, <2>4
    <3>2. QED
      BY <3>1
  <2>5. QED
    BY <1>3, <1>4, <2>3, <2>4
<1>9. QED
  BY <1>5, <1>6, <1>7, <1>8 DEF old, new

LEMMA OwnerLogsOut ==
    ASSUME TypeOK, jobs[room] # <<>>
    PROVE  Owner(room) \in LoggingOut /\ Owner(room) \in Players
<1>1. jobs[room] \in Seq(Players)
  BY Indices DEF TypeOK
<1>2. Owner(room) = jobs[room][1] /\ 1 \in DOMAIN jobs[room] /\ Owner(room) \in Players
  BY <1>1, Tails DEF Owner
<1>3. QED
  BY <1>2 DEF LoggingOut

\* A step that leaves the room, its queue and the sessions alone.
LEMMA RoomUntouched ==
    ASSUME LInv, TypeOK', UNCHANGED <<session, m_playerState, m_players, m_loginCnt>>,
           jobs'[room] = jobs[room], pc'[room] = pc[room], loggedOut \subseteq loggedOut'
    PROVE  LInv'
<1>1. Owner(room)' = Owner(room) /\ LoggingOut' = LoggingOut
  BY DEF Owner, LoggingOut
<1>2. Present' = Present
  BY <1>1 DEF Present
<1>3. loggedOut' = {} => loggedOut = {}
  OBVIOUS
<1>4. Lifecycle' /\ LogoutErased'
  BY <1>1 DEF LInv, Lifecycle, LogoutErased
<1>5. OneLogout'
  BY <1>1, <1>3 DEF LInv, OneLogout
<1>6. CountRight'
  BY <1>2, <1>3 DEF LInv, CountRight
<1>7. QED
  BY <1>4, <1>5, <1>6 DEF LInv

LEMMA ZoneLInv ==
    ASSUME LInv, NEW z \in Zones, ZoneStep(z)
    PROVE  LInv'
<1> USE DEF roomVars, sessionVars, jobVars, localVars
<1>0. TypeOK
  BY DEF LInv
<1>a. TypeOK'
  BY <1>0, ZoneTyped
<1>b. JobsTyped
  BY <1>0, Parts
<1>1. TypeOK /\ TypeOK' /\ z # room /\ jobs \in [Queues -> Seq(Players)]
      /\ pc \in [Queues -> ZonePCs \cup RoomPCs] /\ room \in Queues
  BY <1>0, <1>a, <1>b, Indices DEF JobsTyped
<1>2. UNCHANGED <<session, m_playerState, m_players, m_loginCnt, loggedOut>>
  BY DEF ZoneStep, MovePlayer, MovePlayerInvalid, MoveErase, MoveInsert, MoveIndex, Look,
     VisitSector, VisitTarget, SendLeaves, SetViewList
<1>3. jobs'[room] = jobs[room]
  <2>1. jobs' = jobs \/ EndJob(z)
    BY DEF ZoneStep, MovePlayer, MovePlayerInvalid, MoveErase, MoveInsert, MoveIndex, Look,
       VisitSector, VisitTarget, SendLeaves, SetViewList, SendMoveResult
  <2>2. QED
    BY <1>1, <2>1 DEF EndJob
<1>4. pc'[room] = pc[room]
  <2>1. pc' = pc \/ \E label : pc' = [pc EXCEPT ![z] = label]
    BY DEF ZoneStep, MovePlayer, MovePlayerInvalid, MoveErase, MoveInsert, MoveIndex, Look,
       VisitSector, VisitTarget, SendLeaves, SetViewList, Goto
  <2>2. QED
    BY <1>1, <2>1
<1>5. QED
  BY <1>1, <1>2, <1>3, <1>4, RoomUntouched

LEMMA HandlerLInv ==
    ASSUME LInv, NEW p \in Players, Handler(p)
    PROVE  LInv'
<1> USE DEF roomVars, sessionVars, jobVars, localVars
<1>1. TypeOK /\ TypeOK' /\ Lifecycle /\ LogoutErased /\ OneLogout /\ CountRight
  BY HandlerTyped DEF LInv
<1>2. /\ jobs \in [Queues -> Seq(Players)] /\ room \in Queues
      /\ session \in [Players -> Sessions]
      /\ m_playerState \in [Players -> {"Connected", "Disconnected"}]
      /\ pc[room] # "idle" => jobs[room] # <<>>
  <2>1. JobsTyped /\ SessionTyped /\ WorldTyped
    BY <1>1, Parts
  <2>2. QED
    BY <2>1, Indices DEF JobsTyped, SessionTyped, WorldTyped
<1>3. CASE LoginInsert(p)
  <2>1. /\ session[p] = "connected" /\ session' = [session EXCEPT ![p] = "login_map"]
        /\ m_loginCnt' = m_loginCnt + 1
        /\ UNCHANGED <<m_players, m_playerState, jobs, pc, loggedOut>>
    BY <1>3 DEF LoginInsert, Serve
  <2>2. LoggingOut' = LoggingOut /\ Owner(room)' = Owner(room)
    BY <2>1 DEF LoggingOut, Owner
  <2>3. p \notin LoggingOut /\ p \notin m_players
    BY <1>1, <2>1 DEF Lifecycle
  <2>4. p \notin Present /\ Present' = Present \cup {p}
    <3>1. pc[room] = "logout_state" => Owner(room) # p
      BY <1>1, <1>2, <2>3, OwnerLogsOut
    <3>2. {q \in Players : session'[q] = "login_map"}
             = {q \in Players : session[q] = "login_map"} \cup {p}
      BY <1>2, <2>1
    <3>3. QED
      BY <2>1, <2>2, <2>3, <3>1, <3>2 DEF Present
  <2>5. CountRight'
    <3>1. /\ IsFiniteSet(Present') /\ Cardinality(Present') = Cardinality(Present) + 1
          /\ Cardinality(Present) \in Nat
      BY <1>1, <2>4, FS_AddElement, FS_CardinalityType DEF CountRight
    <3>2. m_loginCnt \in Int
      BY <1>1 DEF TypeOK
    <3>3. QED
      BY <1>1, <2>1, <3>1, <3>2 DEF CountRight
  <2>6. Lifecycle'
    BY <1>1, <1>2, <2>1, <2>2, <2>3 DEF Lifecycle, LoginPCs
  <2>7. LogoutErased' /\ OneLogout'
    BY <1>1, <1>2, <2>1, <2>2, <2>3 DEF LogoutErased, OneLogout
  <2>8. QED
    BY <1>1, <2>5, <2>6, <2>7 DEF LInv
<1>4. CASE LoginMap(p)
  <2>1. /\ session[p] = "login_map" /\ session' = [session EXCEPT ![p] = "login_state"]
        /\ m_players' = m_players \cup {p}
        /\ UNCHANGED <<m_loginCnt, m_playerState, jobs, pc, loggedOut>>
    BY <1>4 DEF LoginMap, Serve
  <2>2. LoggingOut' = LoggingOut /\ Owner(room)' = Owner(room)
    BY <2>1 DEF LoggingOut, Owner
  <2>3. p \notin LoggingOut /\ m_playerState[p] # "Connected"
    BY <1>1, <2>1 DEF Lifecycle, LoginPCs
  <2>4. pc[room] = "logout_state" => Owner(room) # p
    BY <1>1, <1>2, <2>3, OwnerLogsOut
  <2>5. Present' = Present
    <3>1. {q \in Players : session'[q] = "login_map"}
             = {q \in Players : session[q] = "login_map"} \ {p}
      BY <1>2, <2>1
    <3>2. QED
      BY <2>1, <2>2, <3>1 DEF Present
  <2>6. CountRight'
    BY <1>1, <2>1, <2>5 DEF CountRight
  <2>7. Lifecycle'
    BY <1>1, <1>2, <2>1, <2>2, <2>3 DEF Lifecycle, LoginPCs
  <2>8. LogoutErased' /\ OneLogout'
    BY <1>1, <1>2, <2>1, <2>2, <2>3, <2>4 DEF LogoutErased, OneLogout
  <2>9. QED
    BY <1>1, <2>6, <2>7, <2>8 DEF LInv
<1>5. CASE LoginState(p)
  <2>1. /\ session[p] = "login_state" /\ session' = [session EXCEPT ![p] = "playing"]
        /\ m_playerState' = [m_playerState EXCEPT ![p] = "Connected"]
        /\ UNCHANGED <<m_loginCnt, m_players, jobs, pc, loggedOut>>
    BY <1>5 DEF LoginState, Serve
  <2>2. LoggingOut' = LoggingOut /\ Owner(room)' = Owner(room)
    BY <2>1 DEF LoggingOut, Owner
  <2>3. {q \in Players : session'[q] = "login_map"} = {q \in Players : session[q] = "login_map"}
    BY <1>2, <2>1
  <2>4. Present' = Present
    BY <2>1, <2>2, <2>3 DEF Present
  <2>5. CountRight'
    BY <1>1, <2>1, <2>4 DEF CountRight
  <2>6. p \notin LoggingOut
    BY <1>1, <2>1 DEF Lifecycle, LoginPCs
  <2>7. Lifecycle'
    BY <1>1, <1>2, <2>1, <2>2 DEF Lifecycle, LoginPCs
  <2>8. LogoutErased' /\ OneLogout'
    BY <1>1, <1>2, <2>1, <2>2, <2>6 DEF LogoutErased, OneLogout
  <2>9. QED
    BY <1>1, <2>5, <2>7, <2>8 DEF LInv
<1>6. CASE Handle_C2S_MOVE(p)
  <2>1. PICK x \in Positions : DoAsync(GetPlayerZoneIdx(x), p)
    BY <1>6 DEF Handle_C2S_MOVE
  <2>2. jobs'[room] = jobs[room]
    BY <1>2, <2>1, Indices DEF DoAsync
  <2>3. QED
    BY <1>1, <1>6, <2>2, RoomUntouched DEF Handle_C2S_MOVE
<1>7. CASE Handle_LOGOUT(p)
  <2>1. /\ session[p] = "playing" /\ session' = [session EXCEPT ![p] = "disconnect"]
        /\ p \in loggedOut' /\ DoAsync(room, p)
        /\ UNCHANGED <<m_loginCnt, m_players, m_playerState, pc>>
        /\ loggedOut \subseteq loggedOut'
    BY <1>7 DEF Handle_LOGOUT, Serve
  <2>2. LoggingOut' = LoggingOut \cup {p}
    BY <1>1, <2>1, LogoutQueued
  <2>3. pc[room] = "logout_state" => Owner(room)' = Owner(room)
    BY <1>1, <1>2, <2>1, LogoutQueued DEF Owner
  <2>4. {q \in Players : session'[q] = "login_map"} = {q \in Players : session[q] = "login_map"}
    BY <1>2, <2>1
  <2>5. Present' = Present
    BY <2>1, <2>3, <2>4 DEF Present
  <2>6. CountRight' /\ OneLogout'
    BY <1>1, <2>1, <2>5 DEF CountRight, OneLogout
  <2>7. Lifecycle'
    BY <1>1, <1>2, <2>1, <2>2 DEF Lifecycle, LoginPCs
  <2>8. LogoutErased'
    BY <1>1, <2>1, <2>3 DEF LogoutErased
  <2>9. QED
    BY <1>1, <2>6, <2>7, <2>8 DEF LInv
<1>8. CASE OnDisconnected(p) /\ IsValidPlayer(p)
  <2>1. /\ session[p] \in {"playing", "disconnect"}
        /\ session' = [session EXCEPT ![p] = "release"]
        /\ m_playerState' = [m_playerState EXCEPT ![p] = "Disconnected"]
        /\ DoAsync(room, p)
        /\ UNCHANGED <<m_loginCnt, m_players, loggedOut, pc>>
    BY <1>8 DEF OnDisconnected, Serve
  <2>2. LoggingOut' = LoggingOut \cup {p}
    BY <1>1, <2>1, LogoutQueued
  <2>3. pc[room] = "logout_state" => Owner(room)' = Owner(room)
    BY <1>1, <1>2, <2>1, LogoutQueued DEF Owner
  <2>4. {q \in Players : session'[q] = "login_map"} = {q \in Players : session[q] = "login_map"}
    BY <1>2, <2>1
  <2>5. Present' = Present
    BY <2>1, <2>3, <2>4 DEF Present
  <2>6. CountRight'
    BY <1>1, <2>1, <2>5 DEF CountRight
  <2>7. Lifecycle'
    BY <1>1, <1>2, <2>1, <2>2 DEF Lifecycle, LoginPCs
  <2>8. LogoutErased'
    BY <1>1, <2>1, <2>3 DEF LogoutErased
  <2>9. OneLogout'
    <3> SUFFICES ASSUME loggedOut = {} PROVE OneLogout'
      BY <2>1 DEF OneLogout
    <3>1. p \in m_players /\ p \notin LoggingOut
      BY <1>1, <2>1 DEF OneLogout
    <3>2. \A i, j \in DOMAIN jobs'[room] : jobs'[room][i] = jobs'[room][j] => i = j
      BY <1>1, <2>1, <3>1, LogoutQueued DEF OneLogout
    <3>3. \A q \in Players :
             session'[q] \in {"login_state", "playing", "disconnect"} => q \in m_players'
      BY <1>1, <1>2, <2>1 DEF OneLogout
    <3>4. LoggingOut \subseteq Players
      <4>1. jobs[room] \in Seq(Players)
        BY <1>2
      <4>2. QED
        BY <4>1 DEF LoggingOut
    <3>5. \A q \in LoggingOut' : session'[q] \in {"release", "ended"}
      BY <1>1, <1>2, <2>1, <2>2, <3>4 DEF OneLogout
    <3>6. \A q \in LoggingOut' :
             q \in m_players' \/ (pc'[room] = "logout_state" /\ q = Owner(room)')
      BY <1>1, <2>1, <2>2, <2>3, <3>1 DEF OneLogout
    <3>7. QED
      BY <3>2, <3>3, <3>5, <3>6 DEF OneLogout
  <2>10. QED
    BY <1>1, <2>6, <2>7, <2>8, <2>9 DEF LInv
<1>9. CASE OnDisconnected(p) /\ ~IsValidPlayer(p)
  <2>1. /\ session[p] \in {"playing", "disconnect"}
        /\ session' = [session EXCEPT ![p] = "release"]
        /\ UNCHANGED <<m_loginCnt, m_players, m_playerState, loggedOut, pc, jobs>>
        /\ m_playerState[p] # "Connected"
    BY <1>9 DEF OnDisconnected, Serve, IsValidPlayer
  <2>2. LoggingOut' = LoggingOut /\ Owner(room)' = Owner(room)
    BY <2>1 DEF LoggingOut, Owner
  <2>3. {q \in Players : session'[q] = "login_map"} = {q \in Players : session[q] = "login_map"}
    BY <1>2, <2>1
  <2>4. Present' = Present
    BY <2>1, <2>2, <2>3 DEF Present
  <2>5. CountRight'
    BY <1>1, <2>1, <2>4 DEF CountRight
  <2>6. Lifecycle' /\ LogoutErased'
    BY <1>1, <1>2, <2>1, <2>2 DEF Lifecycle, LogoutErased, LoginPCs
  <2>7. OneLogout'
    BY <1>1, <1>2, <2>1, <2>2 DEF OneLogout
  <2>8. QED
    BY <1>1, <2>5, <2>6, <2>7 DEF LInv
<1>10. CASE ReleasePlayer(p)
  <2>1. /\ session[p] = "release" /\ session' = [session EXCEPT ![p] = "ended"]
        /\ UNCHANGED <<m_loginCnt, m_players, m_playerState, loggedOut, pc, jobs>>
    BY <1>10 DEF ReleasePlayer, Serve
  <2>2. LoggingOut' = LoggingOut /\ Owner(room)' = Owner(room)
    BY <2>1 DEF LoggingOut, Owner
  <2>3. {q \in Players : session'[q] = "login_map"} = {q \in Players : session[q] = "login_map"}
    BY <1>2, <2>1
  <2>4. Present' = Present
    BY <2>1, <2>2, <2>3 DEF Present
  <2>5. CountRight'
    BY <1>1, <2>1, <2>4 DEF CountRight
  <2>6. Lifecycle' /\ LogoutErased'
    BY <1>1, <1>2, <2>1, <2>2 DEF Lifecycle, LogoutErased, LoginPCs
  <2>7. OneLogout'
    BY <1>1, <1>2, <2>1, <2>2 DEF OneLogout
  <2>8. QED
    BY <1>1, <2>5, <2>6, <2>7 DEF LInv
<1>11. CASE HandleLatePacket(p)
  BY <1>1, <1>11, RoomUntouched DEF HandleLatePacket
<1>12. QED
  BY <1>3, <1>4, <1>5, <1>6, <1>7, <1>8, <1>9, <1>10, <1>11 DEF Handler, LoginStep

LEMMA RoomLInv ==
    ASSUME LInv, RoomStep
    PROVE  LInv'
<1> USE DEF roomVars, sessionVars, jobVars, localVars
<1>1. TypeOK /\ TypeOK' /\ Lifecycle /\ LogoutErased /\ OneLogout /\ CountRight
  BY RoomTyped DEF LInv
<1>2. /\ room \in Queues /\ pc \in [Queues -> ZonePCs \cup RoomPCs]
      /\ m_playerState \in [Players -> {"Connected", "Disconnected"}]
      /\ pc[room] # "idle" => jobs[room] # <<>>
  BY <1>1, Indices DEF TypeOK, Running
<1>3. CASE Logout
  <2>1. /\ pc[room] = "idle" /\ pc'[room] = "logout_map"
        /\ UNCHANGED <<m_loginCnt, m_players, m_playerState, session, loggedOut, jobs>>
    BY <1>2, <1>3 DEF Logout, Goto
  <2>2. LoggingOut' = LoggingOut /\ Present' = Present
    BY <2>1 DEF LoggingOut, Present
  <2>3. Lifecycle' /\ CountRight'
    BY <1>1, <2>1, <2>2 DEF Lifecycle, CountRight
  <2>4. LogoutErased' /\ OneLogout'
    BY <1>1, <2>1, <2>2 DEF LogoutErased, OneLogout
  <2>5. QED
    BY <1>1, <2>3, <2>4 DEF LInv
<1>4. CASE LogoutMap
  <2> DEFINE p == Owner(room)
  <2>1. /\ pc[room] = "logout_map" /\ pc'[room] = "logout_state"
        /\ m_players' = m_players \ {p}
        /\ UNCHANGED <<m_loginCnt, m_playerState, session, loggedOut, jobs>>
    BY <1>2, <1>4 DEF LogoutMap, Goto
  <2>2. LoggingOut' = LoggingOut /\ Owner(room)' = p
    BY <2>1 DEF LoggingOut, Owner
  <2>3. p \in LoggingOut /\ p \in Players
    BY <1>1, <1>2, <2>1, OwnerLogsOut
  <2> HIDE DEF p
  <2>4. session[p] # "login_map" /\ session[p] \notin LoginPCs
    BY <1>1, <2>3 DEF Lifecycle, LoginPCs
  <2>5. Present' = Present \cup {p}
    BY <2>1, <2>2 DEF Present
  <2>6. CountRight'
    <3>1. /\ IsFiniteSet(Present') /\ Cardinality(Present) \in Nat
          /\ Cardinality(Present') = IF p \in Present THEN Cardinality(Present)
                                                      ELSE Cardinality(Present) + 1
      BY <1>1, <2>5, FS_AddElement, FS_CardinalityType DEF CountRight
    <3>2. loggedOut = {} => p \in Present
      BY <1>1, <2>1, <2>3 DEF OneLogout, Present
    <3>3. m_loginCnt \in Int
      BY <1>1 DEF TypeOK
    <3>4. QED
      BY <1>1, <2>1, <3>1, <3>2, <3>3 DEF CountRight
  <2>7. Lifecycle'
    BY <1>1, <2>1, <2>2 DEF Lifecycle
  <2>8. LogoutErased'
    BY <2>1, <2>2 DEF LogoutErased
  <2>9. OneLogout'
    <3> SUFFICES ASSUME loggedOut = {} PROVE OneLogout'
      BY <2>1 DEF OneLogout
    <3>1. session[p] \in {"release", "ended"}
      BY <1>1, <2>3 DEF OneLogout
    <3>2. QED
      BY <1>1, <2>1, <2>2, <3>1 DEF OneLogout
  <2>10. QED
    BY <1>1, <2>6, <2>7, <2>8, <2>9 DEF LInv
<1>5. CASE LogoutState
  <2> DEFINE p == Owner(room)
  <2>1. /\ pc[room] = "logout_state" /\ pc'[room] = "idle" /\ EndJob(room)
        /\ m_playerState' = [m_playerState EXCEPT ![p] = "Disconnected"]
        /\ m_loginCnt' = m_loginCnt - 1
        /\ UNCHANGED <<m_players, session, loggedOut>>
    BY <1>2, <1>5 DEF LogoutState, Goto
  <2>2. /\ LoggingOut' \subseteq LoggingOut /\ LoggingOut \subseteq LoggingOut' \cup {p}
        /\ p \in LoggingOut /\ p \in Players
        /\ (\A i, j \in DOMAIN jobs[room] : jobs[room][i] = jobs[room][j] => i = j)
           => /\ p \notin LoggingOut'
              /\ \A i, j \in DOMAIN jobs'[room] : jobs'[room][i] = jobs'[room][j] => i = j
    BY <1>1, <1>2, <2>1, LogoutEnded, OwnerLogsOut
  <2>3. p \notin m_players
    BY <1>1, <2>1 DEF LogoutErased
  <2>4. Present = m_players \cup {q \in Players : session[q] = "login_map"} \cup {p}
    BY <2>1 DEF Present
  <2> HIDE DEF p
  <2>5. session[p] \notin LoginPCs /\ session[p] # "login_map"
    BY <1>1, <2>2 DEF Lifecycle, LoginPCs
  <2>6. Present' = m_players \cup {q \in Players : session[q] = "login_map"}
    BY <2>1 DEF Present
  <2>7. Present' = Present \ {p} /\ p \in Present
    BY <2>3, <2>4, <2>5, <2>6
  <2>8. CountRight'
    <3>1. /\ IsFiniteSet(Present') /\ Cardinality(Present') = Cardinality(Present) - 1
          /\ Cardinality(Present) \in Nat
      BY <1>1, <2>7, FS_RemoveElement, FS_CardinalityType DEF CountRight
    <3>2. m_loginCnt \in Int
      BY <1>1 DEF TypeOK
    <3>3. QED
      BY <1>1, <2>1, <3>1, <3>2 DEF CountRight
  <2>9. Lifecycle'
    BY <1>1, <1>2, <2>1, <2>2, <2>3 DEF Lifecycle
  <2>10. LogoutErased'
    BY <2>1 DEF LogoutErased
  <2>11. OneLogout'
    <3> SUFFICES ASSUME loggedOut = {} PROVE OneLogout'
      BY <2>1 DEF OneLogout
    <3>1. /\ p \notin LoggingOut'
          /\ \A i, j \in DOMAIN jobs'[room] : jobs'[room][i] = jobs'[room][j] => i = j
      BY <1>1, <2>2 DEF OneLogout
    <3>2. \A q \in LoggingOut : q \in m_players \/ q = p
      BY <1>1 DEF OneLogout, p
    <3>3. QED
      BY <1>1, <2>1, <2>2, <3>1, <3>2 DEF OneLogout
  <2>12. QED
    BY <1>1, <2>8, <2>9, <2>10, <2>11 DEF LInv
<1>6. QED
  BY <1>3, <1>4, <1>5 DEF RoomStep

LEMMA StepLInv == LInv /\ [Next]_vars => LInv'
<1> SUFFICES ASSUME LInv, [Next]_vars PROVE LInv'
  OBVIOUS
<1>1. CASE UNCHANGED vars
  <2>1. TypeOK'
    BY StepTypeOK DEF LInv
  <2>2. QED
    BY <1>1, <2>1, RoomUntouched DEF vars, roomVars, sessionVars, jobVars
<1>2. QED
  BY <1>1, HandlerLInv, ZoneLInv, RoomLInv DEF Next

\* The room's counter is the number of players in it, or on their way in or
\* out, and at most that if a client sends C2S_LOGOUT, for every map and every
\* set of players.
THEOREM LoginCountAlwaysExact == Spec => []LoginCountIsExact
<1>1. LInv => LoginCountIsExact
  <2> SUFFICES ASSUME LInv PROVE LoginCountIsExact
    OBVIOUS
  <2>1. Present = m_players \cup ({p \in Players : session[p] = "login_map"}
                             \cup (IF pc[room] = "logout_state" THEN {Owner(room)} ELSE {}))
    BY DEF Present
  <2>2. QED
    BY <2>1 DEF LInv, CountRight, LoginCountIsExact
<1>2. QED
  BY <1>1, InitLInv, StepLInv, PTL DEF Spec

\* Nobody who left stays in the room once its jobs are done.
THEOREM NobodyEverStays == Spec => []NobodyStays
<1>1. LInv => NobodyStays
  <2> SUFFICES ASSUME LInv, NEW p \in Players, session[p] = "ended", Settled(p)
               PROVE  p \notin m_players /\ ~IsValidPlayer(p)
    BY DEF NobodyStays
  <2>1. p \notin LoggingOut
    BY Indices DEF Settled, LoggingOut
  <2>2. QED
    BY <2>1 DEF LInv, Lifecycle, IsValidPlayer
<1>2. QED
  BY <1>1, InitLInv, StepLInv, PTL DEF Spec
-----------------------------------------------------------------------------
HasJob(q, p) == \E i \in DOMAIN jobs[q] : jobs[q][i] = p
Runs(q, p) == pc[q] # "idle" /\ Owner(q) = p
Waits(q, p) == \E i \in DOMAIN jobs[q] : jobs[q][i] = p /\ (i > 1 \/ pc[q] = "idle")
Pending(p) == \E q \in Queues : Waits(q, p)
Free(p) == \A q \in Queues : ~Runs(q, p)

\* A step leaves p's jobs running or not; its waiting jobs wait.
RunsKept(p) == \A q \in Queues : Runs(q, p)' <=> Runs(q, p)
WaitsKept(p) == Pending(p) => Pending(p)'
NoNewJob(p) == \A q \in Queues : HasJob(q, p)' => HasJob(q, p)

LEMMA Idle ==
    ASSUME TypeOK, NEW q \in Queues
    PROVE  /\ jobs \in [Queues -> Seq(Players)] /\ jobs[q] \in Seq(Players)
           /\ pc[q] # "idle" => jobs[q] # <<>>
           /\ pc \in [Queues -> ZonePCs \cup RoomPCs]
  BY DEF TypeOK, Running

LEMMA SameJobs ==
    ASSUME TypeOK, UNCHANGED <<jobs, pc>>, NEW p
    PROVE  RunsKept(p) /\ WaitsKept(p) /\ NoNewJob(p)
  BY DEF RunsKept, WaitsKept, NoNewJob, Runs, Owner, Pending, Waits, HasJob

LEMMA Appended ==
    ASSUME TypeOK, NEW o \in Queues, NEW p \in Players, DoAsync(o, p), UNCHANGED pc
    PROVE  /\ \A t \in Players : RunsKept(t) /\ WaitsKept(t) /\ (t # p => NoNewJob(t))
           /\ Pending(p)'
<1> DEFINE old == jobs[o]
           new == jobs'[o]
           n == Len(old)
<1>1. old \in Seq(Players) /\ new = Append(old, p) /\ \A q \in Queues \ {o} : jobs'[q] = jobs[q]
  BY Idle DEF DoAsync
<1>2. /\ n \in Nat /\ DOMAIN old = 1 .. n /\ DOMAIN new = 1 .. n + 1
      /\ \A i \in 1 .. n : new[i] = old[i] /\ i \in 1 .. n + 1
      /\ new[n + 1] = p /\ n + 1 \in 1 .. n + 1
      /\ old # <<>> => Head(new) = Head(old)
      /\ old = <<>> \/ n + 1 > 1
  <2> HIDE DEF old, new
  <2>1. new \in Seq(Players) /\ Len(new) = n + 1
    BY <1>1, Appends
  <2>2. QED
    BY <1>1, <2>1, Appends
<1> HIDE DEF old, new, n
<1>3. ASSUME NEW q \in Queues, NEW t \in Players
      PROVE  Runs(q, t)' <=> Runs(q, t)
  <2>1. pc[q] # "idle" => Head(jobs'[q]) = Head(jobs[q])
    BY <1>1, <1>2, Idle DEF old, new
  <2>2. QED
    BY <2>1 DEF Runs, Owner
<1>4. ASSUME NEW q \in Queues, NEW t \in Players, Waits(q, t)
      PROVE  Waits(q, t)'
  <2>1. CASE q = o
    <3>1. PICK i \in 1 .. n : old[i] = t /\ (i > 1 \/ pc[o] = "idle")
      BY <1>2, <1>4, <2>1 DEF Waits, old
    <3>2. i \in DOMAIN new /\ new[i] = t
      BY <1>2, <3>1
    <3>3. QED
      BY <2>1, <3>1, <3>2 DEF Waits, new
  <2>2. CASE q # o
    BY <1>1, <1>4, <2>2 DEF Waits
  <2>3. QED
    BY <2>1, <2>2
<1>5. ASSUME NEW q \in Queues, NEW t \in Players, t # p, HasJob(q, t)'
      PROVE  HasJob(q, t)
  <2>1. CASE q = o
    <3>1. PICK i \in 1 .. n + 1 : new[i] = t
      BY <1>2, <1>5, <2>1 DEF HasJob, new
    <3>2. i \in 1 .. n
      BY <1>2, <1>5, <3>1
    <3>3. QED
      BY <1>2, <2>1, <3>1, <3>2 DEF HasJob, old
  <2>2. CASE q # o
    BY <1>1, <1>5, <2>2 DEF HasJob
  <2>3. QED
    BY <2>1, <2>2
<1>6. Waits(o, p)'
  <2>1. n + 1 \in DOMAIN new /\ new[n + 1] = p
    BY <1>2
  <2>2. n + 1 > 1 \/ pc'[o] = "idle"
    BY <1>2, Idle DEF old
  <2>3. QED
    BY <2>1, <2>2 DEF Waits, new
<1>7. QED
  BY <1>3, <1>4, <1>5, <1>6 DEF RunsKept, WaitsKept, NoNewJob, Pending

\* The first job of a queue is removed.
LEMMA Shifted ==
    ASSUME TypeOK, NEW q \in Queues, jobs[q] # <<>>, EndJob(q),
           pc' = [pc EXCEPT ![q] = "idle"]
    PROVE  /\ \A r \in Queues \ {q} : jobs'[r] = jobs[r] /\ pc'[r] = pc[r]
           /\ pc'[q] = "idle" /\ Owner(q) \in Players
           /\ \A t : NoNewJob(t)
           /\ \A t : pc[q] # "idle" \/ t # Owner(q) => (Waits(q, t) => Waits(q, t)')
<1> DEFINE old == jobs[q]
           new == jobs'[q]
           n == Len(old)
<1>1. /\ old \in Seq(Players) /\ old # <<>> /\ new = Tail(old)
      /\ \A r \in Queues \ {q} : jobs'[r] = jobs[r] /\ pc'[r] = pc[r]
      /\ pc'[q] = "idle"
  BY Idle DEF EndJob
<1>2. /\ n \in Nat \ {0} /\ DOMAIN old = 1 .. n /\ DOMAIN new = 1 .. n - 1
      /\ \A i \in 1 .. n - 1 : new[i] = old[i + 1] /\ i + 1 \in 1 .. n
      /\ Owner(q) = old[1] /\ Owner(q) \in Players
  <2>1. Owner(q) = Head(old)
    BY DEF Owner
  <2> HIDE DEF old, new
  <2>2. new \in Seq(Players) /\ Len(new) = n - 1 /\ n \in Nat \ {0} /\ Head(old) = old[1]
    BY <1>1, Tails
  <2>3. Head(old) \in Players /\ \A i \in 1 .. n - 1 : new[i] = old[i + 1] /\ i + 1 \in 1 .. n
    BY <1>1, <2>2, Tails
  <2>4. QED
    BY <1>1, <2>1, <2>2, <2>3
<1> HIDE DEF old, new, n
<1>3. ASSUME NEW r \in Queues, NEW t, HasJob(r, t)'
      PROVE  HasJob(r, t)
  <2>1. CASE r = q
    <3>1. PICK i \in 1 .. n - 1 : new[i] = t
      BY <1>2, <1>3, <2>1 DEF HasJob, new
    <3>2. i + 1 \in DOMAIN old /\ old[i + 1] = t
      BY <1>2, <3>1
    <3>3. QED
      BY <2>1, <3>2 DEF HasJob, old
  <2>2. CASE r # q
    BY <1>1, <1>3, <2>2 DEF HasJob
  <2>3. QED
    BY <2>1, <2>2
<1>4. ASSUME NEW t, pc[q] # "idle" \/ t # Owner(q), Waits(q, t)
      PROVE  Waits(q, t)'
  <2>1. PICK i \in 1 .. n : old[i] = t /\ (i > 1 \/ pc[q] = "idle")
    BY <1>2, <1>4 DEF Waits, old
  <2>2. i # 1
    BY <1>2, <1>4, <2>1
  <2>3. i - 1 \in DOMAIN new /\ (i - 1) + 1 = i
    BY <1>2, <2>1, <2>2
  <2>4. new[i - 1] = t
    BY <1>2, <2>1, <2>3
  <2>5. QED
    BY <1>1, <2>3, <2>4 DEF Waits, new
<1>5. QED
  BY <1>1, <1>2, <1>3, <1>4 DEF NoNewJob

\* The job that ran ends.
LEMMA Ended ==
    ASSUME TypeOK, NEW q \in Queues, pc[q] # "idle", EndJob(q), pc' = [pc EXCEPT ![q] = "idle"]
    PROVE  /\ \A t \in Players : WaitsKept(t) /\ NoNewJob(t) /\ (t # Owner(q) => RunsKept(t))
           /\ \A t : \A r \in Queues : Runs(r, t)' => Runs(r, t) /\ r # q
<1>1. /\ \A r \in Queues \ {q} : jobs'[r] = jobs[r] /\ pc'[r] = pc[r]
      /\ pc'[q] = "idle"
      /\ \A t : NoNewJob(t)
      /\ \A t : Waits(q, t) => Waits(q, t)'
  BY Idle, Shifted
<1>2. ASSUME NEW r \in Queues, r # q, NEW t
      PROVE  (Runs(r, t)' <=> Runs(r, t)) /\ (Waits(r, t) => Waits(r, t)')
  BY <1>1, <1>2 DEF Runs, Owner, Waits
<1>3. \A t : ~Runs(q, t)'
  BY <1>1 DEF Runs
<1>4. \A t : t # Owner(q) => ~Runs(q, t)
  BY DEF Runs
<1>5. \A t : WaitsKept(t)
  BY <1>1, <1>2 DEF WaitsKept, Pending
<1>6. \A t : t # Owner(q) => RunsKept(t)
  BY <1>2, <1>3, <1>4 DEF RunsKept
<1>7. ASSUME NEW r \in Queues, NEW t, Runs(r, t)'
      PROVE  Runs(r, t) /\ r # q
  BY <1>2, <1>3, <1>7
<1>8. QED
  BY <1>1, <1>5, <1>6, <1>7

\* The first job is dropped without running.
LEMMA Dropped ==
    ASSUME TypeOK, NEW q \in Queues, pc[q] = "idle", jobs[q] # <<>>, EndJob(q), UNCHANGED pc
    PROVE  \A t \in Players : RunsKept(t) /\ NoNewJob(t) /\ (t # Owner(q) => WaitsKept(t))
<1>0. pc' = [pc EXCEPT ![q] = "idle"]
  BY Idle
<1>1. /\ \A r \in Queues \ {q} : jobs'[r] = jobs[r] /\ pc'[r] = pc[r]
      /\ pc'[q] = "idle"
      /\ \A t : NoNewJob(t)
      /\ \A t : t # Owner(q) => (Waits(q, t) => Waits(q, t)')
  BY <1>0, Shifted
<1>2. ASSUME NEW r \in Queues, r # q, NEW t
      PROVE  (Runs(r, t)' <=> Runs(r, t)) /\ (Waits(r, t) => Waits(r, t)')
  BY <1>1, <1>2 DEF Runs, Owner, Waits
<1>3. \A t : ~Runs(q, t)' /\ ~Runs(q, t)
  BY <1>1 DEF Runs
<1>4. QED
  BY <1>1, <1>2, <1>3 DEF WaitsKept, Pending, RunsKept

\* The first job starts.
LEMMA Started ==
    ASSUME TypeOK, NEW q \in Queues, pc[q] = "idle", jobs[q] # <<>>, UNCHANGED jobs,
           NEW label, label # "idle", pc' = [pc EXCEPT ![q] = label]
    PROVE  /\ \A t \in Players : t # Owner(q) => RunsKept(t) /\ WaitsKept(t)
           /\ \A t \in Players : NoNewJob(t)
           /\ \A t : t = Owner(q) => \A r \in Queues : Runs(r, t)' <=> Runs(r, t) \/ r = q
<1>1. pc'[q] = label /\ \A r \in Queues \ {q} : pc'[r] = pc[r]
  BY Idle
<1>2. ASSUME NEW r \in Queues, NEW t, r # q
      PROVE  (Runs(r, t)' <=> Runs(r, t)) /\ (Waits(r, t) => Waits(r, t)')
  BY <1>1, <1>2 DEF Runs, Owner, Waits
<1>3. Owner(q)' = Owner(q) /\ Owner(q) = jobs[q][1]
  BY Idle, Tails DEF Owner
<1>4. \A t : ~Runs(q, t) /\ (Runs(q, t)' <=> t = Owner(q))
  BY <1>1, <1>3 DEF Runs
<1>5. ASSUME NEW t, t # Owner(q), Waits(q, t)
      PROVE  Waits(q, t)'
  <2>1. PICK i \in DOMAIN jobs[q] : jobs[q][i] = t
    BY <1>5 DEF Waits
  <2>2. i # 1 /\ i \in Nat \ {0}
    BY <1>3, <1>5, <2>1, Idle
  <2>3. i > 1
    BY <2>2
  <2>4. QED
    BY <2>1, <2>3 DEF Waits
<1>6. \A t : NoNewJob(t)
  BY DEF NoNewJob, HasJob
<1>7. \A t : t # Owner(q) => RunsKept(t) /\ WaitsKept(t)
  BY <1>2, <1>4, <1>5 DEF RunsKept, WaitsKept, Pending
<1>8. \A t : t = Owner(q) => \A r \in Queues : Runs(r, t)' <=> Runs(r, t) \/ r = q
  BY <1>2, <1>4
<1>9. QED
  BY <1>6, <1>7, <1>8

\* A job that runs goes on.
LEMMA Goes ==
    ASSUME TypeOK, NEW q \in Queues, pc[q] # "idle", UNCHANGED jobs,
           NEW label, label # "idle", pc' = [pc EXCEPT ![q] = label]
    PROVE  \A t \in Players : RunsKept(t) /\ WaitsKept(t) /\ NoNewJob(t)
<1>1. \A r \in Queues : pc'[r] = "idle" <=> pc[r] = "idle"
  BY Idle
<1>2. QED
  BY <1>1 DEF RunsKept, WaitsKept, NoNewJob, Runs, Owner, Pending, Waits, HasJob
-----------------------------------------------------------------------------
\* The sectors that hold p.
In(p) == {s \in Sectors : p \in sector[s]}

LEMMA Moved ==
    ASSUME TypeOK, NEW s, NEW p \in Players
    PROVE  /\ Insert(s, p) \/ Erase(s, p) => \A t : t # p => In(t)' = In(t)
           /\ Insert(s, p) /\ s \in Sectors => In(p)' = In(p) \cup {s}
           /\ Erase(s, p) => In(p)' = In(p) \ {s}
<1>1. sector \in [Sectors -> SUBSET Players]
  BY DEF TypeOK
<1>2. CASE sector' = [sector EXCEPT ![s] = sector[s] \cup {p}]
  <2>1. \A r \in Sectors : sector'[r] = IF r = s THEN sector[r] \cup {p} ELSE sector[r]
    BY <1>1, <1>2
  <2>2. \A t : t # p => In(t)' = In(t)
    BY <2>1 DEF In
  <2>3. s \in Sectors => In(p)' = In(p) \cup {s}
    BY <2>1 DEF In
  <2>4. Erase(s, p) => In(p)' = In(p) \ {s}
    BY <1>1, <1>2 DEF In, Erase
  <2>5. QED
    BY <2>2, <2>3, <2>4
<1>3. CASE sector' = [sector EXCEPT ![s] = sector[s] \ {p}]
  <2>1. \A r \in Sectors : sector'[r] = IF r = s THEN sector[r] \ {p} ELSE sector[r]
    BY <1>1, <1>3
  <2>2. \A t : t # p => In(t)' = In(t)
    BY <2>1 DEF In
  <2>3. In(p)' = In(p) \ {s}
    BY <2>1 DEF In
  <2>4. s \in Sectors /\ Insert(s, p) => In(p)' = In(p) \cup {s}
    BY <1>1, <1>3 DEF In, Insert
  <2>5. QED
    BY <2>2, <2>3, <2>4
<1>4. QED
  BY <1>2, <1>3 DEF Insert, Erase

\* What a step leaves of a player that is not its own.
OthersKept(p) == \A t \in Players \ {p} :
    /\ RunsKept(t) /\ WaitsKept(t) /\ NoNewJob(t)
    /\ In(t)' = In(t) /\ sectorIdx'[t] = sectorIdx[t] /\ pos'[t] = pos[t]
    /\ m_viewList'[t] = m_viewList[t]
    /\ session'[t] = session[t] /\ m_playerState'[t] = m_playerState[t]
    /\ t \in m_players' <=> t \in m_players

LEMMA HandlerEffect ==
    ASSUME TypeOK, NEW p \in Players, Handler(p)
    PROVE  /\ OthersKept(p) /\ RunsKept(p) /\ WaitsKept(p)
           /\ UNCHANGED <<pc, overlapped, to, newViewList, view, targets, m_viewList, known>>
<1> USE DEF roomVars, sessionVars, jobVars, localVars
<1>1. UNCHANGED <<pc, overlapped, to, newViewList, view, targets, m_viewList, known>>
  BY DEF Handler, LoginStep, LoginInsert, LoginMap, LoginState, Handle_C2S_MOVE, Handle_LOGOUT,
     OnDisconnected, ReleasePlayer, HandleLatePacket
<1>2. jobs' = jobs \/ \E q \in Queues : DoAsync(q, p)
  <2>1. \A x \in Positions : GetPlayerZoneIdx(x) \in Queues
    BY Indices
  <2>2. QED
    BY <2>1, Indices DEF Handler, LoginStep, LoginInsert, LoginMap, LoginState, Handle_C2S_MOVE,
       Handle_LOGOUT, OnDisconnected, ReleasePlayer, HandleLatePacket
<1>3. /\ \A t \in Players : RunsKept(t) /\ WaitsKept(t)
      /\ \A t \in Players : t # p => NoNewJob(t)
  BY <1>1, <1>2, SameJobs, Appended
<1>4. \A t \in Players \ {p} : In(t)' = In(t)
  <2>1. sector' = sector \/ \E s : Insert(s, p)
    BY DEF Handler, LoginStep, LoginInsert, LoginMap, LoginState, Handle_C2S_MOVE, Handle_LOGOUT,
       OnDisconnected, ReleasePlayer, HandleLatePacket
  <2>2. QED
    BY <2>1, Moved DEF In
<1>5. \A t \in Players \ {p} : sectorIdx'[t] = sectorIdx[t] /\ pos'[t] = pos[t]
  <2>1. sectorIdx' = sectorIdx \/ \E i : sectorIdx' = [sectorIdx EXCEPT ![p] = i]
    BY DEF Handler, LoginStep, LoginInsert, LoginMap, LoginState, Handle_C2S_MOVE, Handle_LOGOUT,
       OnDisconnected, ReleasePlayer, HandleLatePacket
  <2>2. pos' = pos \/ \E x : pos' = [pos EXCEPT ![p] = x]
    BY DEF Handler, LoginStep, LoginInsert, LoginMap, LoginState, Handle_C2S_MOVE, Handle_LOGOUT,
       OnDisconnected, ReleasePlayer, HandleLatePacket
  <2>3. QED
    BY <2>1, <2>2 DEF TypeOK
<1>6. \A t \in Players \ {p} : session'[t] = session[t] /\ m_playerState'[t] = m_playerState[t]
  <2>1. \E label : session' = session \/ session' = [session EXCEPT ![p] = label]
    BY DEF Handler, LoginStep, LoginInsert, LoginMap, LoginState, Handle_C2S_MOVE, Handle_LOGOUT,
       OnDisconnected, ReleasePlayer, HandleLatePacket, Serve
  <2>2. \E label : m_playerState' = m_playerState
                   \/ m_playerState' = [m_playerState EXCEPT ![p] = label]
    BY DEF Handler, LoginStep, LoginInsert, LoginMap, LoginState, Handle_C2S_MOVE, Handle_LOGOUT,
       OnDisconnected, ReleasePlayer, HandleLatePacket
  <2>3. QED
    BY <2>1, <2>2 DEF TypeOK
<1>7. m_players' = m_players \/ m_players' = m_players \cup {p}
  BY DEF Handler, LoginStep, LoginInsert, LoginMap, LoginState, Handle_C2S_MOVE, Handle_LOGOUT,
     OnDisconnected, ReleasePlayer, HandleLatePacket
<1>8. QED
  BY <1>1, <1>3, <1>4, <1>5, <1>6, <1>7 DEF OthersKept

\* The queue of a zone or of the room in a step of its own: a job starts, is
\* dropped, goes on or ends.
QueueStep(q) == \/ /\ pc[q] = "idle" /\ jobs[q] # <<>> /\ UNCHANGED jobs
                   /\ \E label : label # "idle" /\ pc' = [pc EXCEPT ![q] = label]
                \/ pc[q] = "idle" /\ jobs[q] # <<>> /\ EndJob(q) /\ UNCHANGED pc
                \/ /\ pc[q] # "idle" /\ UNCHANGED jobs
                   /\ pc' = pc \/ \E label : label # "idle" /\ pc' = [pc EXCEPT ![q] = label]
                \/ pc[q] # "idle" /\ EndJob(q) /\ pc' = [pc EXCEPT ![q] = "idle"]

LEMMA QueueKeeps ==
    ASSUME TypeOK, NEW q \in Queues, QueueStep(q)
    PROVE  /\ jobs[q] # <<>> /\ Owner(q) \in Players
           /\ \A t \in Players : NoNewJob(t) /\ (t # Owner(q) => RunsKept(t) /\ WaitsKept(t))
           /\ \A r \in Queues \ {q} : pc'[r] = pc[r] /\ jobs'[r] = jobs[r]
<1>1. jobs[q] # <<>> /\ Owner(q) \in Players
  <2>1. jobs[q] # <<>>
    BY Idle DEF QueueStep
  <2>2. QED
    BY <2>1, OwnerTyped
<1>2. \A r \in Queues \ {q} : pc'[r] = pc[r] /\ jobs'[r] = jobs[r]
  BY Idle DEF QueueStep, EndJob
<1>3. \A t \in Players : NoNewJob(t) /\ (t # Owner(q) => RunsKept(t) /\ WaitsKept(t))
  <2>1. CASE /\ pc[q] = "idle" /\ jobs[q] # <<>> /\ UNCHANGED jobs
             /\ \E label : label # "idle" /\ pc' = [pc EXCEPT ![q] = label]
    BY <2>1, Started
  <2>2. CASE pc[q] = "idle" /\ jobs[q] # <<>> /\ EndJob(q) /\ UNCHANGED pc
    BY <2>2, Dropped
  <2>3. CASE pc[q] # "idle" /\ UNCHANGED jobs /\ UNCHANGED pc
    BY <2>3, SameJobs
  <2>4. CASE /\ pc[q] # "idle" /\ UNCHANGED jobs
             /\ \E label : label # "idle" /\ pc' = [pc EXCEPT ![q] = label]
    BY <2>4, Goes
  <2>5. CASE pc[q] # "idle" /\ EndJob(q) /\ pc' = [pc EXCEPT ![q] = "idle"]
    BY <2>5, Ended
  <2>6. QED
    BY <2>1, <2>2, <2>3, <2>4, <2>5 DEF QueueStep
<1>4. QED
  BY <1>1, <1>2, <1>3

LEMMA ZoneQueue ==
    ASSUME NEW z \in Zones, ZoneStep(z)
    PROVE  QueueStep(z)
<1> USE DEF roomVars, sessionVars, jobVars, localVars
<1>1. CASE MovePlayer(z)
  <2>1. pc[z] = "idle" /\ jobs[z] # <<>> /\ UNCHANGED jobs
    BY <1>1 DEF MovePlayer, Goto
  <2>2. \E label \in {"look", "erase"} : pc' = [pc EXCEPT ![z] = label]
    BY <1>1 DEF MovePlayer, Goto
  <2>3. QED
    BY <2>1, <2>2 DEF QueueStep
<1>2. CASE MovePlayerInvalid(z)
  BY <1>2 DEF MovePlayerInvalid, QueueStep
<1>3. CASE MoveErase(z) \/ MoveInsert(z) \/ MoveIndex(z) \/ Look(z)
  BY <1>3 DEF MoveErase, MoveInsert, MoveIndex, Look, Goto, QueueStep
<1>4. CASE VisitSector(z)
  <2>1. pc[z] # "idle" /\ UNCHANGED jobs
    BY <1>4 DEF VisitSector
  <2>2. pc' = pc \/ pc' = [pc EXCEPT ![z] = "targets"]
    BY <1>4 DEF VisitSector, Goto
  <2>3. QED
    BY <2>1, <2>2 DEF QueueStep
<1>5. CASE VisitTarget(z)
  <2>1. pc[z] # "idle" /\ UNCHANGED jobs
    BY <1>5 DEF VisitTarget, Goto
  <2>2. \E label \in {"visit", "targets"} : pc' = [pc EXCEPT ![z] = label]
    BY <1>5 DEF VisitTarget, Goto
  <2>3. QED
    BY <2>1, <2>2 DEF QueueStep
<1>6. CASE SendLeaves(z)
  BY <1>6 DEF SendLeaves, Goto, QueueStep
<1>7. CASE SetViewList(z)
  BY <1>7 DEF SetViewList, SendMoveResult, Goto, QueueStep
<1>8. QED
  BY <1>1, <1>2, <1>3, <1>4, <1>5, <1>6, <1>7 DEF ZoneStep

LEMMA RoomQueue ==
    ASSUME RoomStep
    PROVE  QueueStep(room)
<1>1. CASE Logout
  BY <1>1 DEF Logout, Goto, QueueStep
<1>2. CASE LogoutMap
  BY <1>2 DEF LogoutMap, Goto, QueueStep
<1>3. CASE LogoutState
  BY <1>3 DEF LogoutState, Goto, QueueStep
<1>4. QED
  BY <1>1, <1>2, <1>3 DEF RoomStep

LEMMA ZoneEffect ==
    ASSUME TypeOK, NEW z \in Zones, ZoneStep(z)
    PROVE  /\ UNCHANGED <<m_players, pos, session, m_playerState>>
           /\ overlapped \subseteq overlapped'
           /\ jobs[z] # <<>> /\ Owner(z) \in Players
           /\ OthersKept(Owner(z)) /\ \A t \in Players : NoNewJob(t)
           /\ \A q \in Queues \ {z} : pc'[q] = pc[q] /\ jobs'[q] = jobs[q]
           /\ \A y \in Zones \ {z} : /\ to'[y] = to[y] /\ newViewList'[y] = newViewList[y]
                                     /\ targets'[y] = targets[y]
<1> USE DEF roomVars, sessionVars, jobVars, localVars
<1>1. z \in Queues /\ QueueStep(z)
  BY Indices, ZoneQueue
<1>2. /\ jobs[z] # <<>> /\ Owner(z) \in Players
      /\ \A t \in Players : NoNewJob(t) /\ (t # Owner(z) => RunsKept(t) /\ WaitsKept(t))
      /\ \A q \in Queues \ {z} : pc'[q] = pc[q] /\ jobs'[q] = jobs[q]
  BY <1>1, QueueKeeps
<1>3. UNCHANGED <<m_players, pos, session, m_playerState>>
  BY DEF ZoneStep, MovePlayer, MovePlayerInvalid, MoveErase, MoveInsert, MoveIndex, Look,
     VisitSector, VisitTarget, SendLeaves, SetViewList
<1>4. overlapped \subseteq overlapped'
  BY DEF ZoneStep, MovePlayer, MovePlayerInvalid, MoveErase, MoveInsert, MoveIndex, Look,
     VisitSector, VisitTarget, SendLeaves, SetViewList, NoteOverlap
<1>5. \A t \in Players : t # Owner(z) => In(t)' = In(t)
  <2>1. sector' = sector \/ \E s : Insert(s, Owner(z)) \/ Erase(s, Owner(z))
    BY DEF ZoneStep, MovePlayer, MovePlayerInvalid, MoveErase, MoveInsert, MoveIndex, Look,
       VisitSector, VisitTarget, SendLeaves, SetViewList
  <2>2. QED
    BY <1>2, <2>1, Moved DEF In
<1>6. \A t \in Players : t # Owner(z) => sectorIdx'[t] = sectorIdx[t]
  <2>1. sectorIdx' = sectorIdx \/ \E i : sectorIdx' = [sectorIdx EXCEPT ![Owner(z)] = i]
    BY DEF ZoneStep, MovePlayer, MovePlayerInvalid, MoveErase, MoveInsert, MoveIndex, Look,
       VisitSector, VisitTarget, SendLeaves, SetViewList
  <2>2. QED
    BY <2>1 DEF TypeOK
<1>7. \A t \in Players : t # Owner(z) => m_viewList'[t] = m_viewList[t]
  <2>1. m_viewList' = m_viewList \/ \E i : m_viewList' = [m_viewList EXCEPT ![Owner(z)] = i]
    BY DEF ZoneStep, MovePlayer, MovePlayerInvalid, MoveErase, MoveInsert, MoveIndex, Look,
       VisitSector, VisitTarget, SendLeaves, SetViewList
  <2>2. QED
    BY <2>1 DEF TypeOK
<1>8. \A y \in Zones \ {z} : to'[y] = to[y]
  <2>1. to' = to \/ \E i : to' = [to EXCEPT ![z] = i]
    BY DEF ZoneStep, MovePlayer, MovePlayerInvalid, MoveErase, MoveInsert, MoveIndex, Look,
       VisitSector, VisitTarget, SendLeaves, SetViewList, SendMoveResult
  <2>2. QED
    BY <2>1 DEF TypeOK
<1>9. \A y \in Zones \ {z} : newViewList'[y] = newViewList[y]
  <2>1. newViewList' = newViewList \/ \E i : newViewList' = [newViewList EXCEPT ![z] = i]
    BY DEF ZoneStep, MovePlayer, MovePlayerInvalid, MoveErase, MoveInsert, MoveIndex, Look,
       VisitSector, VisitTarget, SendLeaves, SetViewList, SendMoveResult
  <2>2. QED
    BY <2>1 DEF TypeOK
<1>10. \A y \in Zones \ {z} : targets'[y] = targets[y]
  <2>1. targets' = targets \/ \E i : targets' = [targets EXCEPT ![z] = i]
    BY DEF ZoneStep, MovePlayer, MovePlayerInvalid, MoveErase, MoveInsert, MoveIndex, Look,
       VisitSector, VisitTarget, SendLeaves, SetViewList, SendMoveResult
  <2>2. QED
    BY <2>1 DEF TypeOK
<1>11. QED
  BY <1>2, <1>3, <1>4, <1>5, <1>6, <1>7, <1>8, <1>9, <1>10 DEF OthersKept

LEMMA RoomEffect ==
    ASSUME TypeOK, RoomStep
    PROVE  /\ UNCHANGED <<sectorIdx, pos, m_viewList, session, to, newViewList, targets, known>>
           /\ overlapped \subseteq overlapped'
           /\ jobs[room] # <<>> /\ Owner(room) \in Players
           /\ OthersKept(Owner(room)) /\ \A t \in Players : NoNewJob(t)
           /\ \A z \in Zones : pc'[z] = pc[z]
           /\ m_players' \subseteq m_players
<1> USE DEF roomVars, sessionVars, jobVars, localVars
<1>1. room \in Queues /\ QueueStep(room) /\ Zones \subseteq Queues \ {room}
  BY Indices, RoomQueue
<1>2. /\ jobs[room] # <<>> /\ Owner(room) \in Players
      /\ \A t \in Players : NoNewJob(t) /\ (t # Owner(room) => RunsKept(t) /\ WaitsKept(t))
      /\ \A q \in Queues \ {room} : pc'[q] = pc[q]
  BY <1>1, QueueKeeps
<1>3. UNCHANGED <<sectorIdx, pos, m_viewList, session, to, newViewList, targets, known>>
  BY DEF RoomStep, Logout, LogoutMap, LogoutState
<1>4. overlapped \subseteq overlapped'
  BY DEF RoomStep, Logout, LogoutMap, LogoutState, NoteOverlap
<1>5. \A t \in Players : t # Owner(room) => In(t)' = In(t)
  <2>1. sector' = sector \/ \E s : Erase(s, Owner(room))
    BY DEF RoomStep, Logout, LogoutMap, LogoutState
  <2>2. QED
    BY <1>2, <2>1, Moved DEF In
<1>6. \A t \in Players : t # Owner(room) => m_playerState'[t] = m_playerState[t]
  <2>1. \E l : m_playerState' = m_playerState
                \/ m_playerState' = [m_playerState EXCEPT ![Owner(room)] = l]
    BY DEF RoomStep, Logout, LogoutMap, LogoutState
  <2>2. QED
    BY <2>1 DEF TypeOK
<1>7. m_players' = m_players \/ m_players' = m_players \ {Owner(room)}
  BY DEF RoomStep, Logout, LogoutMap, LogoutState
<1>8. QED
  BY <1>1, <1>2, <1>3, <1>4, <1>5, <1>6, <1>7 DEF OthersKept
-----------------------------------------------------------------------------
\* Jobs that run side by side were noted when the second of them started.
Beside == \A q, r \in Queues : \A p, t \in Players :
    q # r /\ Runs(q, p) /\ Runs(r, t) => {p, t} \in overlapped

\* What the locals of a zone hold between and during its jobs.
LocalsFit == \A z \in Zones :
    /\ pc[z] = "idle" => newViewList[z] = {}
    /\ pc[z] # "idle" => to[z] \in Sectors
    /\ \A p \in Players : pc[z] = "targets" /\ Runs(z, p) => p \notin targets[z]

\* A player whose login is not over has no job, and nobody has seen it.
Connecting == LoginPCs \cup {"connected"}

Newcomer(p) == session[p] \in Connecting =>
    /\ \A q \in Queues : ~HasJob(q, p)
    /\ known[p] = {}
    /\ \A t \in Players : p \notin known[t] /\ p \notin m_viewList[t]
    /\ \A z \in Zones : p \notin newViewList[z]
    /\ sectorIdx[p] = GetPlayerSectorIdx(pos[p])
    /\ In(p) = IF session[p] = "connected" THEN {} ELSE {sectorIdx[p]}
    /\ session[p] = "login_state" => p \in m_players

Newcomers == \A p \in Players : Newcomer(p)

NobodyKnowsItself == \A p \in Players : p \notin known[p]

BInv == Beside /\ LocalsFit /\ Newcomers /\ NobodyKnowsItself

LEMMA InitBInv == Init => BInv
<1> SUFFICES ASSUME Init PROVE BInv
  OBVIOUS
<1>1. /\ \A q \in Queues : pc[q] = "idle" /\ jobs[q] = <<>>
      /\ \A z \in Zones : pc[z] = "idle" /\ newViewList[z] = {}
  BY Indices DEF Init
<1>2. Beside /\ LocalsFit
  BY <1>1 DEF Beside, LocalsFit, Runs
<1>3. ASSUME NEW p \in Players
      PROVE  Newcomer(p) /\ p \notin known[p]
  <2>1. /\ known[p] = {} /\ session[p] = "connected"
        /\ \A t \in Players : p \notin known[t] /\ p \notin m_viewList[t]
        /\ sectorIdx[p] = GetPlayerSectorIdx(pos[p])
        /\ In(p) = {}
    BY DEF Init, In
  <2>2. \A q \in Queues : ~HasJob(q, p)
    BY <1>1 DEF HasJob
  <2>3. QED
    BY <1>1, <2>1, <2>2 DEF Newcomer
<1>4. QED
  BY <1>2, <1>3 DEF BInv, Newcomers, NobodyKnowsItself

\* A newcomer that a step is not about stays as it was.
LEMMA NewcomerKept ==
    ASSUME NEW p \in Players, NEW t \in Players, p # t, Newcomer(p), OthersKept(t),
           session[p] \in Connecting => /\ known'[p] = known[p]
                                       /\ \A c \in Players : p \notin known'[c] /\ p \notin m_viewList'[c]
                                       /\ \A z \in Zones : p \notin newViewList'[z]
    PROVE  Newcomer(p)'
<1> SUFFICES ASSUME session'[p] \in Connecting PROVE Newcomer(p)'
  BY DEF Newcomer
<1>1. /\ NoNewJob(p) /\ In(p)' = In(p) /\ sectorIdx'[p] = sectorIdx[p] /\ pos'[p] = pos[p]
      /\ session'[p] = session[p] /\ (p \in m_players' <=> p \in m_players)
  BY DEF OthersKept
<1>2. \A q \in Queues : ~HasJob(q, p)'
  BY <1>1 DEF Newcomer, NoNewJob
<1>3. QED
  BY <1>1, <1>2 DEF Newcomer

LEMMA HandlerBInv ==
    ASSUME TypeOK, BInv, NEW p \in Players, Handler(p)
    PROVE  BInv'
<1>1. /\ OthersKept(p) /\ RunsKept(p)
      /\ UNCHANGED <<pc, overlapped, to, newViewList, view, targets, m_viewList, known>>
  BY HandlerEffect
<1>2. Beside /\ LocalsFit /\ Newcomers /\ NobodyKnowsItself
  BY DEF BInv
<1>3. \A t \in Players : RunsKept(t)
  BY <1>1 DEF OthersKept
<1>4. \A t \in Players : \A q \in Queues : Runs(q, t)' <=> Runs(q, t)
  BY <1>3 DEF RunsKept
<1>5. Beside'
  BY <1>1, <1>2, <1>4 DEF Beside
<1>6. LocalsFit'
  BY <1>1, <1>2, <1>4, Indices DEF LocalsFit
<1>7. ASSUME NEW t \in Players, t # p
      PROVE  Newcomer(t)'
  <2>1. Newcomer(t)
    BY <1>2 DEF Newcomers
  <2>2. session[t] \in Connecting =>
          /\ known'[t] = known[t]
          /\ \A c \in Players : t \notin known'[c] /\ t \notin m_viewList'[c]
          /\ \A z \in Zones : t \notin newViewList'[z]
    BY <1>1, <2>1 DEF Newcomer
  <2>3. QED
    BY <1>1, <1>7, <2>1, <2>2, NewcomerKept
<1>8. Newcomer(p)'
  <2> USE DEF roomVars, sessionVars, jobVars, localVars
  <2>1. Newcomer(p) /\ session \in [Players -> Sessions]
    BY <1>2 DEF Newcomers, TypeOK
  <2>2. CASE LoginInsert(p)
    <3>1. /\ session[p] = "connected" /\ session'[p] = "login_map"
          /\ Insert(GetPlayerSectorIdx(pos[p]), p) /\ UNCHANGED <<jobs, sectorIdx, pos>>
      BY <2>1, <2>2 DEF LoginInsert, Serve
    <3>2. GetPlayerSectorIdx(pos[p]) \in Sectors
      BY Indices DEF TypeOK
    <3>3. In(p)' = In(p) \cup {GetPlayerSectorIdx(pos[p])}
      BY <3>1, <3>2, Moved
    <3>4. \A q \in Queues : HasJob(q, p)' <=> HasJob(q, p)
      BY <3>1 DEF HasJob
    <3>5. QED
      BY <1>1, <2>1, <3>1, <3>3, <3>4 DEF Newcomer, Connecting, LoginPCs
  <2>3. CASE LoginMap(p)
    <3>1. /\ session[p] = "login_map" /\ session'[p] = "login_state" /\ p \in m_players'
          /\ UNCHANGED <<jobs, sectorIdx, pos, sector>>
      BY <2>1, <2>3 DEF LoginMap, Serve
    <3>2. \A q \in Queues : HasJob(q, p)' <=> HasJob(q, p)
      BY <3>1 DEF HasJob
    <3>3. In(p)' = In(p)
      BY <3>1 DEF In
    <3>4. QED
      BY <1>1, <2>1, <3>1, <3>2, <3>3 DEF Newcomer, Connecting, LoginPCs
  <2>4. CASE Handle_C2S_MOVE(p)
    BY <2>4 DEF Handle_C2S_MOVE, Newcomer, Connecting, LoginPCs
  <2>5. CASE LoginState(p) \/ Handle_LOGOUT(p) \/ OnDisconnected(p) \/ ReleasePlayer(p)
             \/ HandleLatePacket(p)
    <3>1. session'[p] \in {"playing", "disconnect", "release", "ended"}
      BY <2>1, <2>5 DEF LoginState, Handle_LOGOUT, OnDisconnected, ReleasePlayer, HandleLatePacket, Serve
    <3>2. QED
      BY <3>1 DEF Newcomer, Connecting, LoginPCs
  <2>6. QED
    BY <2>2, <2>3, <2>4, <2>5 DEF Handler, LoginStep
<1>9. NobodyKnowsItself'
  BY <1>1, <1>2 DEF NobodyKnowsItself
<1>10. QED
  BY <1>5, <1>6, <1>7, <1>8, <1>9 DEF BInv, Newcomers

\* Whether the job of z that visits x takes it into its new view list.
Sees(z, x) == IsValidPlayer(x) /\ IsNear(pos[Owner(z)], pos[x])

\* Who is told of whom by a visit.
LEMMA Visit ==
    ASSUME TypeOK, NEW z \in Zones, VisitTarget(z)
    PROVE  /\ pc[z] = "targets" /\ pc'[z] \in {"visit", "targets"}
           /\ targets'[z] \subseteq targets[z] /\ UNCHANGED <<jobs, m_viewList, sector, sectorIdx, to>>
           /\ overlapped' = overlapped
           /\ \E x \in targets[z] :
                 /\ x \in Players
                 /\ newViewList'[z] = IF Sees(z, x) THEN newViewList[z] \cup {x} ELSE newViewList[z]
                 /\ \A c \in Players : \A t :
                       t \in known'[c] => \/ t \in known[c]
                                          \/ Sees(z, x) /\ c = x /\ t = Owner(z)
                                          \/ Sees(z, x) /\ c = Owner(z) /\ t = x
                 /\ \A c \in Players : known[c] \subseteq known'[c]
<1> USE DEF roomVars, sessionVars, jobVars, localVars
<1>1. /\ pc \in [Queues -> ZonePCs \cup RoomPCs] /\ z \in Queues
      /\ targets \in [Zones -> SUBSET Players] /\ newViewList \in [Zones -> SUBSET Players]
      /\ known \in [Players -> SUBSET Players]
  BY Indices DEF TypeOK
<1>2. PICK x \in targets[z] :
         /\ Goto(z, "targets", IF targets[z] \ {x} = {} THEN "visit" ELSE "targets")
         /\ targets' = [targets EXCEPT ![z] = targets[z] \ {x}]
         /\ newViewList' = IF Sees(z, x) THEN [newViewList EXCEPT ![z] = @ \cup {x}]
                                        ELSE newViewList
         /\ known' = [c \in Players |->
               known[c] \cup (IF Sees(z, x) /\ c = x /\ SendsEnter(x, Owner(z)) THEN {Owner(z)} ELSE {})
                        \cup (IF Sees(z, x) /\ c = Owner(z) /\ SendsEnter(Owner(z), x) THEN {x} ELSE {})]
         /\ UNCHANGED <<roomVars, sector, m_playerState, sectorIdx, pos, m_viewList,
                        sessionVars, jobs, overlapped, to, crashed>>
  BY Zenon DEF VisitTarget, Sees
<1>3. /\ pc[z] = "targets" /\ pc'[z] \in {"visit", "targets"}
      /\ targets'[z] \subseteq targets[z] /\ x \in Players
  BY <1>1, <1>2 DEF Goto
<1>4. UNCHANGED <<jobs, m_viewList, sector, sectorIdx, to, overlapped>>
  BY <1>2
<1>5. newViewList'[z] = IF Sees(z, x) THEN newViewList[z] \cup {x} ELSE newViewList[z]
  <2>1. CASE Sees(z, x)
    BY <1>1, <1>2, <2>1
  <2>2. CASE ~Sees(z, x)
    BY <1>2, <2>2
  <2>3. QED
    BY <2>1, <2>2
<1>6. ASSUME NEW c \in Players
      PROVE  /\ known[c] \subseteq known'[c]
             /\ \A t : t \in known'[c] => \/ t \in known[c]
                                          \/ Sees(z, x) /\ c = x /\ t = Owner(z)
                                          \/ Sees(z, x) /\ c = Owner(z) /\ t = x
  <2>1. known'[c] = known[c]
           \cup (IF Sees(z, x) /\ c = x /\ SendsEnter(x, Owner(z)) THEN {Owner(z)} ELSE {})
           \cup (IF Sees(z, x) /\ c = Owner(z) /\ SendsEnter(Owner(z), x) THEN {x} ELSE {})
    BY <1>2
  <2>2. QED
    BY <2>1
<1>7. QED
  BY <1>3, <1>4, <1>5, <1>6

\* Any other step of a zone tells nobody of anyone, and adds nobody to the new
\* view list.
LEMMA NoVisit ==
    ASSUME TypeOK, NEW z \in Zones, ZoneStep(z), ~VisitTarget(z)
    PROVE  /\ \A c \in Players : known'[c] \subseteq known[c]
           /\ newViewList'[z] \subseteq newViewList[z]
<1> USE DEF roomVars, sessionVars, jobVars, localVars
<1>1. known' = known \/ known' = [c \in Players |->
                  known[c] \ Forgets(c, Owner(z), m_viewList[Owner(z)] \ newViewList[z])]
  BY DEF ZoneStep, MovePlayer, MovePlayerInvalid, MoveErase, MoveInsert, MoveIndex, Look,
     VisitSector, SendLeaves, SetViewList
<1>2. newViewList' = newViewList \/ newViewList' = [newViewList EXCEPT ![z] = {}]
  BY DEF ZoneStep, MovePlayer, MovePlayerInvalid, MoveErase, MoveInsert, MoveIndex, Look,
     VisitSector, SendLeaves, SetViewList, SendMoveResult
<1>3. QED
  BY <1>1, <1>2 DEF TypeOK

\* A view list that a step of a zone sets is the new one.
LEMMA Viewed ==
    ASSUME TypeOK, NEW z \in Zones, ZoneStep(z)
    PROVE  \/ m_viewList' = m_viewList
           \/ /\ SetViewList(z) /\ pc[z] = "set_view" /\ Runs(z, Owner(z))
              /\ m_viewList' = [m_viewList EXCEPT ![Owner(z)] = newViewList[z]]
  BY DEF ZoneStep, MovePlayer, MovePlayerInvalid, MoveErase, MoveInsert, MoveIndex, Look,
     VisitSector, VisitTarget, SendLeaves, SetViewList, Goto, Runs

\* Jobs beside the one that starts are noted.
LEMMA QueueBeside ==
    ASSUME TypeOK, Beside, NEW q \in Queues, QueueStep(q), overlapped \subseteq overlapped',
           pc[q] = "idle" /\ UNCHANGED jobs => NoteOverlap(q)
    PROVE  Beside'
<1>1. jobs[q] # <<>> /\ Owner(q) \in Players
  BY QueueKeeps
<1>2. CASE /\ pc[q] = "idle" /\ jobs[q] # <<>> /\ UNCHANGED jobs
           /\ \E label : label # "idle" /\ pc' = [pc EXCEPT ![q] = label]
  <2>1. \A r \in Queues : \A p \in Players : Runs(r, p)' <=> Runs(r, p) \/ (r = q /\ p = Owner(q))
    <3>1. /\ \A p \in Players : p # Owner(q) => RunsKept(p)
          /\ \A p : p = Owner(q) => \A r \in Queues : Runs(r, p)' <=> Runs(r, p) \/ r = q
      BY <1>2, Started
    <3>2. QED
      BY <3>1 DEF RunsKept
  <2>2. \A r \in Queues \ {q} : \A p \in Players :
           Runs(r, p) => {Owner(q), p} \in overlapped'
    BY <1>2 DEF NoteOverlap, Running, Runs
  <2>3. ASSUME NEW r \in Queues, NEW s \in Queues, NEW p \in Players, NEW t \in Players,
               r # s, Runs(r, p)', Runs(s, t)'
        PROVE  {p, t} \in overlapped'
    <3>1. CASE Runs(r, p) /\ Runs(s, t)
      BY <2>3, <3>1 DEF Beside
    <3>2. CASE r = q /\ p = Owner(q) /\ Runs(s, t)
      BY <2>2, <2>3, <3>2
    <3>3. CASE s = q /\ t = Owner(q) /\ Runs(r, p)
      <4>1. {t, p} \in overlapped'
        BY <2>2, <2>3, <3>3
      <4>2. {t, p} = {p, t}
        OBVIOUS
      <4>3. QED
        BY <4>1, <4>2
    <3>4. QED
      BY <2>1, <2>3, <3>1, <3>2, <3>3
  <2>4. QED
    BY <2>3 DEF Beside
<1>3. CASE ~(/\ pc[q] = "idle" /\ jobs[q] # <<>> /\ UNCHANGED jobs
             /\ \E label : label # "idle" /\ pc' = [pc EXCEPT ![q] = label])
  <2>1. \A r \in Queues : \A p \in Players : Runs(r, p)' => Runs(r, p)
    <3>1. CASE pc[q] = "idle" /\ jobs[q] # <<>> /\ EndJob(q) /\ UNCHANGED pc
      BY <3>1, Dropped DEF RunsKept
    <3>2. CASE pc[q] # "idle" /\ UNCHANGED jobs /\ UNCHANGED pc
      BY <3>2, SameJobs DEF RunsKept
    <3>3. CASE /\ pc[q] # "idle" /\ UNCHANGED jobs
               /\ \E label : label # "idle" /\ pc' = [pc EXCEPT ![q] = label]
      BY <3>3, Goes DEF RunsKept
    <3>4. CASE pc[q] # "idle" /\ EndJob(q) /\ pc' = [pc EXCEPT ![q] = "idle"]
      BY <3>4, Ended
    <3>5. QED
      BY <1>3, <3>1, <3>2, <3>3, <3>4 DEF QueueStep
  <2>2. QED
    BY <2>1 DEF Beside
<1>4. QED
  BY <1>2, <1>3

LEMMA ZoneBInv ==
    ASSUME TypeOK, LInv, BInv, NEW z \in Zones, ZoneStep(z)
    PROVE  BInv'
<1> USE DEF roomVars, sessionVars, jobVars, localVars
<1> DEFINE o == Owner(z)
<1>1. /\ UNCHANGED <<m_players, pos, session, m_playerState>>
      /\ overlapped \subseteq overlapped'
      /\ jobs[z] # <<>> /\ o \in Players
      /\ OthersKept(o) /\ \A t \in Players : NoNewJob(t)
      /\ \A q \in Queues \ {z} : pc'[q] = pc[q] /\ jobs'[q] = jobs[q]
      /\ \A y \in Zones \ {z} : /\ to'[y] = to[y] /\ newViewList'[y] = newViewList[y]
                                /\ targets'[y] = targets[y]
  BY ZoneEffect
<1>2. /\ Beside /\ LocalsFit /\ Newcomers /\ NobodyKnowsItself
      /\ z \in Queues /\ QueueStep(z) /\ Zones \subseteq Queues
      /\ jobs \in [Queues -> Seq(Players)] /\ pc \in [Queues -> ZonePCs \cup RoomPCs]
      /\ m_viewList \in [Players -> SUBSET Players]
      /\ to \in [Zones -> Sectors \cup {0}] /\ newViewList \in [Zones -> SUBSET Players]
      /\ targets \in [Zones -> SUBSET Players]
  BY ZoneQueue, Indices DEF BInv, TypeOK
<1>3. Beside'
  <2>1. ASSUME pc[z] = "idle", UNCHANGED jobs PROVE NoteOverlap(z)
    <3>1. MovePlayer(z) \/ MovePlayerInvalid(z)
      BY <2>1 DEF ZoneStep, MoveErase, MoveInsert, MoveIndex, Look,
         VisitSector, VisitTarget, SendLeaves, SetViewList, Goto
    <3>2. ~EndJob(z)
      <4>1. Len(Tail(jobs[z])) # Len(jobs[z])
        BY <1>1, <1>2, Tails
      <4>2. QED
        BY <1>2, <2>1, <4>1 DEF EndJob
    <3>3. QED
      BY <3>1, <3>2 DEF MovePlayer, MovePlayerInvalid
  <2>2. QED
    BY <1>1, <1>2, <2>1, QueueBeside
<1>4. ASSUME NEW y \in Zones, y # z
      PROVE  /\ pc'[y] = "idle" => newViewList'[y] = {}
             /\ pc'[y] # "idle" => to'[y] \in Sectors
             /\ \A p \in Players : pc'[y] = "targets" /\ Runs(y, p)' => p \notin targets'[y]
  <2>1. \A p : Runs(y, p)' <=> Runs(y, p)
    BY <1>1, <1>2, <1>4 DEF Runs, Owner
  <2>2. QED
    BY <1>1, <1>2, <1>4, <2>1 DEF LocalsFit
<1>5. /\ pc'[z] = "idle" => newViewList'[z] = {}
      /\ pc'[z] # "idle" => to'[z] \in Sectors
      /\ \A p \in Players : pc'[z] = "targets" /\ Runs(z, p)' => p \notin targets'[z]
  <2>1. CASE MovePlayer(z)
    <3>1. pc'[z] \in {"look", "erase"} /\ to'[z] = GetPlayerSectorIdx(pos[o])
      BY <1>2, <2>1 DEF MovePlayer, Goto
    <3>2. GetPlayerSectorIdx(pos[o]) \in Sectors
      BY <1>1, Indices DEF TypeOK
    <3>3. QED
      BY <3>1, <3>2
  <2>2. CASE MovePlayerInvalid(z)
    BY <1>2, <2>2 DEF MovePlayerInvalid, LocalsFit
  <2>3. CASE MoveErase(z) \/ MoveInsert(z) \/ MoveIndex(z) \/ Look(z) \/ SendLeaves(z)
    <3>1. /\ pc[z] # "idle" /\ pc'[z] \in {"insert", "index", "visit", "set_view"}
          /\ UNCHANGED to
      BY <1>2, <2>3 DEF MoveErase, MoveInsert, MoveIndex, Look, SendLeaves, Goto
    <3>2. QED
      BY <1>2, <3>1 DEF LocalsFit
  <2>4. CASE VisitSector(z)
    <3>1. pc[z] = "visit" /\ UNCHANGED <<to, jobs>>
      BY <2>4 DEF VisitSector
    <3>2. pc'[z] = "visit" \/ (pc'[z] = "targets" /\ o \notin targets'[z])
      BY <1>2, <2>4, <3>1 DEF VisitSector, Goto
    <3>3. \A p : Runs(z, p)' => p = o
      BY <3>1 DEF Runs, Owner
    <3>4. QED
      BY <1>2, <3>1, <3>2, <3>3 DEF LocalsFit
  <2>5. CASE VisitTarget(z)
    <3>1. /\ pc[z] = "targets" /\ pc'[z] # "idle"
          /\ targets'[z] \subseteq targets[z] /\ UNCHANGED <<to, jobs>>
      BY <2>5, Visit
    <3>2. \A p : Runs(z, p)' => Runs(z, p)
      BY <3>1 DEF Runs, Owner
    <3>3. QED
      BY <1>2, <3>1, <3>2 DEF LocalsFit
  <2>6. CASE SetViewList(z)
    BY <1>2, <2>6 DEF SetViewList, SendMoveResult, Goto
  <2>7. QED
    BY <2>1, <2>2, <2>3, <2>4, <2>5, <2>6 DEF ZoneStep
<1>6. LocalsFit'
  BY <1>4, <1>5 DEF LocalsFit
<1>7. ASSUME NEW p \in Players, session[p] \in Connecting
      PROVE  /\ p # o /\ known'[p] = known[p]
             /\ \A c \in Players : p \notin known'[c] /\ p \notin m_viewList'[c]
             /\ \A y \in Zones : p \notin newViewList'[y]
  <2>1. Newcomer(p) /\ ~IsValidPlayer(p)
    BY <1>2, <1>7 DEF Newcomers, LInv, Lifecycle, Connecting, IsValidPlayer
  <2>2. p # o
    <3>1. o = jobs[z][1] /\ 1 \in DOMAIN jobs[z]
      BY <1>1, <1>2, Tails DEF Owner
    <3>2. HasJob(z, o)
      BY <3>1 DEF HasJob
    <3>3. QED
      BY <1>2, <1>7, <2>1, <3>2 DEF Newcomer
  <2>3. p \notin newViewList'[z]
    <3>1. CASE VisitTarget(z)
      BY <1>7, <2>1, <3>1, Visit DEF Newcomer, Sees
    <3>2. CASE ~VisitTarget(z)
      BY <1>7, <2>1, <3>2, NoVisit DEF Newcomer
    <3>3. QED
      BY <3>1, <3>2
  <2>4. \A c \in Players : p \notin m_viewList'[c]
    BY <1>1, <1>2, <1>7, <2>1, Viewed DEF Newcomer
  <2>5. known'[p] = {} /\ \A c \in Players : p \notin known'[c]
    <3>1. CASE VisitTarget(z)
      <4>1. PICK x \in targets[z] : \A c \in Players : \A t :
               t \in known'[c] => \/ t \in known[c]
                                  \/ Sees(z, x) /\ c = x /\ t = o
                                  \/ Sees(z, x) /\ c = o /\ t = x
        BY <3>1, Visit
      <4>2. x = p => ~Sees(z, x)
        BY <2>1 DEF Sees
      <4>3. \A t : t \notin known'[p]
        BY <1>7, <2>1, <2>2, <4>1, <4>2 DEF Newcomer
      <4>4. \A c \in Players : p \notin known'[c]
        BY <1>7, <2>1, <2>2, <4>1, <4>2 DEF Newcomer
      <4>5. QED
        BY <4>3, <4>4
    <3>2. CASE ~VisitTarget(z)
      BY <1>7, <2>1, <3>2, NoVisit DEF Newcomer
    <3>3. QED
      BY <3>1, <3>2
  <2>6. QED
    BY <1>1, <1>7, <2>1, <2>2, <2>3, <2>4, <2>5 DEF Newcomer
<1>8. Newcomers'
  <2>1. ASSUME NEW p \in Players PROVE Newcomer(p)'
    <3>1. CASE session[p] \in Connecting
      <4>1. Newcomer(p) /\ p # o
        BY <1>2, <1>7, <3>1 DEF Newcomers
      <4> HIDE DEF o
      <4>2. QED
        BY <1>1, <1>7, <3>1, <4>1, NewcomerKept
    <3>2. CASE session[p] \notin Connecting
      BY <1>1, <3>2 DEF Newcomer
    <3>3. QED
      BY <3>1, <3>2
  <2>2. QED
    BY <2>1 DEF Newcomers
<1>9. NobodyKnowsItself'
  <2>1. ASSUME NEW p \in Players PROVE p \notin known'[p]
    <3>1. p \notin known[p]
      BY <1>2 DEF NobodyKnowsItself
    <3>2. CASE VisitTarget(z)
      <4>1. o \notin targets[z]
        BY <1>1, <1>2, <3>2, Visit DEF LocalsFit, Runs
      <4>2. QED
        BY <3>1, <3>2, <4>1, Visit
    <3>3. CASE ~VisitTarget(z)
      BY <3>1, <3>3, NoVisit
    <3>4. QED
      BY <3>2, <3>3
  <2>2. QED
    BY <2>1 DEF NobodyKnowsItself
<1>10. QED
  BY <1>3, <1>6, <1>8, <1>9 DEF BInv

LEMMA RoomBInv ==
    ASSUME TypeOK, LInv, BInv, RoomStep
    PROVE  BInv'
<1> DEFINE o == Owner(room)
<1>1. /\ UNCHANGED <<sectorIdx, pos, m_viewList, session, to, newViewList, targets, known>>
      /\ overlapped \subseteq overlapped'
      /\ jobs[room] # <<>> /\ o \in Players
      /\ OthersKept(o) /\ \A t \in Players : NoNewJob(t)
      /\ \A z \in Zones : pc'[z] = pc[z]
  BY RoomEffect
<1>2. /\ Beside /\ LocalsFit /\ Newcomers /\ NobodyKnowsItself
      /\ room \in Queues /\ QueueStep(room) /\ Zones \subseteq Queues \ {room}
      /\ jobs \in [Queues -> Seq(Players)]
  BY RoomQueue, Indices DEF BInv, TypeOK
<1>3. \A q \in Queues \ {room} : jobs'[q] = jobs[q]
  BY <1>2, QueueKeeps
<1>4. Beside'
  <2>1. pc[room] = "idle" /\ UNCHANGED jobs => NoteOverlap(room)
    BY DEF RoomStep, Logout, LogoutMap, LogoutState, Goto
  <2>2. QED
    BY <1>1, <1>2, <2>1, QueueBeside
<1>5. LocalsFit'
  <2>1. \A z \in Zones : \A p : Runs(z, p)' <=> Runs(z, p)
    BY <1>1, <1>2, <1>3 DEF Runs, Owner
  <2>2. QED
    BY <1>1, <1>2, <2>1 DEF LocalsFit
<1>6. ASSUME NEW p \in Players PROVE Newcomer(p)'
  <2>1. Newcomer(p)
    BY <1>2 DEF Newcomers
  <2>2. CASE session[p] \in Connecting
    <3>1. p # o
      <4>1. o = jobs[room][1] /\ 1 \in DOMAIN jobs[room]
        BY <1>1, <1>2, Tails DEF Owner
      <4>2. QED
        BY <1>2, <2>1, <2>2, <4>1 DEF Newcomer, HasJob
    <3> HIDE DEF o
    <3>2. /\ \A c \in Players : p \notin known'[c] /\ p \notin m_viewList'[c]
          /\ \A z \in Zones : p \notin newViewList'[z]
      BY <1>1, <2>1, <2>2 DEF Newcomer
    <3>3. QED
      BY <1>1, <2>1, <3>1, <3>2, NewcomerKept
  <2>3. CASE session[p] \notin Connecting
    BY <1>1, <2>3 DEF Newcomer
  <2>4. QED
    BY <2>2, <2>3
<1>7. NobodyKnowsItself'
  BY <1>1, <1>2 DEF NobodyKnowsItself
<1>8. QED
  BY <1>4, <1>5, <1>6, <1>7 DEF BInv, Newcomers
-----------------------------------------------------------------------------
\* The sectors that hold p while zone z moves it.
Held(z, p) == IF pc[z] = "insert" THEN {}
              ELSE IF pc[z] = "index" THEN {to[z]} ELSE {sectorIdx[p]}

\* A sector is the one p stands in, or a job of p is yet to come.
UpToDate(p, s) == s = GetPlayerSectorIdx(pos[p]) \/ Pending(p)

\* Where the sectors hold a player whose login is over and who never had two
\* jobs at the same time.
SectorOf(p) == session[p] \notin Connecting /\ {p} \notin overlapped =>
    /\ Free(p) => In(p) = IF p \in m_players THEN {sectorIdx[p]} ELSE {}
    /\ Free(p) /\ p \notin m_players => ~IsValidPlayer(p)
    /\ Free(p) /\ p \in m_players => UpToDate(p, sectorIdx[p])
    /\ Runs(room, p) => In(p) = {}
    /\ \A z \in Zones : Runs(z, p) =>
          /\ p \in m_players /\ In(p) = Held(z, p) /\ UpToDate(p, to[z])
          /\ pc[z] \notin {"erase", "insert", "index"} => to[z] = sectorIdx[p]

SectorsFit == \A p \in Players : SectorOf(p)

LEMMA RunsOwnJob ==
    ASSUME TypeOK, NEW q \in Queues, NEW p, Runs(q, p)
    PROVE  HasJob(q, p)
<1>1. jobs[q] \in Seq(Players) /\ jobs[q] # <<>>
  BY Idle DEF Runs
<1>2. p = jobs[q][1] /\ 1 \in DOMAIN jobs[q]
  BY <1>1, Tails DEF Runs, Owner
<1>3. QED
  BY <1>2 DEF HasJob

\* Two jobs of a player that never had two do not run.
LEMMA Alone ==
    ASSUME Beside, NEW p \in Players, {p} \notin overlapped,
           NEW q \in Queues, NEW r \in Queues, Runs(q, p), Runs(r, p)
    PROVE  q = r
<1>1. {p, p} = {p}
  OBVIOUS
<1>2. QED
  BY <1>1 DEF Beside

\* A player that a step does not move and that keeps its jobs.
LEMMA SectorKept ==
    ASSUME NEW p \in Players, Beside, SectorOf(p), RunsKept(p), overlapped \subseteq overlapped',
           In(p)' = In(p), sectorIdx'[p] = sectorIdx[p], p \in m_players' <=> p \in m_players,
           m_playerState'[p] = "Connected" => m_playerState[p] = "Connected",
           session'[p] \notin Connecting => session[p] \notin Connecting,
           \A z \in Zones : Runs(z, p) => pc'[z] = pc[z] /\ to'[z] = to[z],
           p \in m_players /\ ~Runs(room, p) /\ (Pending(p) \/ pos'[p] # pos[p]) => Pending(p)'
    PROVE  SectorOf(p)'
<1> SUFFICES ASSUME session'[p] \notin Connecting, {p} \notin overlapped'
             PROVE  SectorOf(p)'
  BY DEF SectorOf
<1>1. /\ \A q \in Queues : Runs(q, p)' <=> Runs(q, p)
      /\ Free(p)' <=> Free(p)
  BY DEF RunsKept, Free
<1>2. /\ session[p] \notin Connecting /\ {p} \notin overlapped
      /\ room \in Queues /\ Zones \subseteq Queues /\ room \notin Zones
  BY Indices
<1>3. /\ Free(p) => In(p) = IF p \in m_players THEN {sectorIdx[p]} ELSE {}
      /\ Free(p) /\ p \notin m_players => ~IsValidPlayer(p)
      /\ Free(p) /\ p \in m_players => UpToDate(p, sectorIdx[p])
      /\ Runs(room, p) => In(p) = {}
      /\ \A z \in Zones : Runs(z, p) =>
            /\ p \in m_players /\ In(p) = Held(z, p) /\ UpToDate(p, to[z])
            /\ pc[z] \notin {"erase", "insert", "index"} => to[z] = sectorIdx[p]
  BY <1>2 DEF SectorOf
<1>4. ASSUME p \in m_players, ~Runs(room, p), NEW s, UpToDate(p, s)
      PROVE  UpToDate(p, s)'
  BY <1>4 DEF UpToDate
<1>5. Free(p)' => In(p)' = IF p \in m_players' THEN {sectorIdx'[p]} ELSE {}
  BY <1>1, <1>3
<1>6. Free(p)' /\ p \notin m_players' => ~IsValidPlayer(p)'
  BY <1>1, <1>3 DEF IsValidPlayer
<1>7. Free(p)' /\ p \in m_players' => UpToDate(p, sectorIdx[p])'
  <2> SUFFICES ASSUME Free(p), p \in m_players PROVE UpToDate(p, sectorIdx[p])'
    BY <1>1
  <2>1. UpToDate(p, sectorIdx[p]) /\ ~Runs(room, p)
    BY <1>2, <1>3 DEF Free
  <2>2. QED
    BY <2>1 DEF UpToDate
<1>8. ASSUME NEW z \in Zones, Runs(z, p)'
      PROVE  /\ p \in m_players' /\ In(p)' = Held(z, p)' /\ UpToDate(p, to[z])'
             /\ pc'[z] \notin {"erase", "insert", "index"} => to'[z] = sectorIdx'[p]
  <2>1. Runs(z, p) /\ ~Runs(room, p)
    BY <1>1, <1>2, <1>8, Alone
  <2>2. /\ p \in m_players /\ In(p) = Held(z, p) /\ UpToDate(p, to[z])
        /\ pc[z] \notin {"erase", "insert", "index"} => to[z] = sectorIdx[p]
        /\ pc'[z] = pc[z] /\ to'[z] = to[z]
    BY <1>3, <2>1
  <2>3. Held(z, p)' = Held(z, p)
    BY <2>2 DEF Held
  <2>4. UpToDate(p, to[z])'
    BY <2>1, <2>2 DEF UpToDate
  <2>5. QED
    BY <2>2, <2>3, <2>4
<1>9. QED
  BY <1>1, <1>2, <1>3, <1>5, <1>6, <1>7, <1>8 DEF SectorOf

\* A player whose job runs after the step in zone z.
LEMMA SectorRunning ==
    ASSUME NEW p \in Players, NEW z \in Zones, Beside', Runs(z, p)',
           {p} \notin overlapped' =>
              /\ p \in m_players' /\ In(p)' = Held(z, p)' /\ UpToDate(p, to[z])'
              /\ pc'[z] \notin {"erase", "insert", "index"} => to'[z] = sectorIdx'[p]
    PROVE  SectorOf(p)'
<1> SUFFICES ASSUME {p} \notin overlapped' PROVE SectorOf(p)'
  BY DEF SectorOf
<1>1. room \in Queues /\ Zones \subseteq Queues /\ room \notin Zones
  BY Indices
<1>2. \A q \in Queues : Runs(q, p)' => q = z
  <2>1. {p, p} = {p}
    OBVIOUS
  <2>2. QED
    BY <1>1, <2>1 DEF Beside
<1>3. ~Free(p)' /\ ~Runs(room, p)'
  BY <1>1, <1>2 DEF Free
<1>4. \A y \in Zones : Runs(y, p)' => y = z
  BY <1>1, <1>2
<1>5. QED
  BY <1>3, <1>4 DEF SectorOf

LEMMA HandlerSectors ==
    ASSUME TypeOK, LInv, BInv, SectorsFit, NEW p \in Players, Handler(p)
    PROVE  SectorsFit'
<1> USE DEF roomVars, sessionVars, jobVars, localVars
<1>1. /\ OthersKept(p) /\ RunsKept(p) /\ WaitsKept(p)
      /\ UNCHANGED <<pc, overlapped, to, newViewList, view, targets, m_viewList, known>>
  BY HandlerEffect
<1>2. Beside /\ Newcomers /\ room \in Queues /\ Zones \subseteq Queues
  BY Indices DEF BInv
<1>3. ASSUME NEW t \in Players, t # p PROVE SectorOf(t)'
  BY <1>1, <1>2, <1>3, SectorKept DEF OthersKept, WaitsKept, SectorsFit
<1>4. SectorOf(p)'
  <2>1. SectorOf(p) /\ Newcomer(p) /\ session \in [Players -> Sessions]
    BY <1>2 DEF SectorsFit, Newcomers, TypeOK
  <2>2. CASE LoginInsert(p) \/ LoginMap(p)
    <3>1. session'[p] \in LoginPCs
      BY <2>1, <2>2 DEF LoginInsert, LoginMap, Serve, LoginPCs
    <3>2. QED
      BY <3>1 DEF SectorOf, Connecting
  <2>3. CASE LoginState(p)
    <3>1. /\ session[p] = "login_state" /\ UNCHANGED <<m_players, sector, pos>>
          /\ sectorIdx'[p] = GetPlayerSectorIdx(pos[p])
      BY <2>3 DEF LoginState, Serve, TypeOK
    <3>2. /\ \A q \in Queues : ~HasJob(q, p)
          /\ In(p) = {GetPlayerSectorIdx(pos[p])} /\ p \in m_players
      BY <2>1, <3>1 DEF Newcomer, Connecting, LoginPCs
    <3>3. \A q \in Queues : ~Runs(q, p)'
      BY <1>1, <3>2, RunsOwnJob DEF RunsKept
    <3>4. In(p)' = In(p) /\ Free(p)' /\ UpToDate(p, sectorIdx[p])'
      BY <3>1, <3>3 DEF In, Free, UpToDate
    <3>5. QED
      BY <1>2, <3>1, <3>2, <3>3, <3>4 DEF SectorOf
  <2>4. CASE Handle_C2S_MOVE(p)
    <3>1. /\ session[p] = "playing"
          /\ UNCHANGED <<m_players, sector, sectorIdx, m_playerState, session>>
          /\ \E q \in Queues : DoAsync(q, p)
      BY <2>4, Indices DEF Handle_C2S_MOVE
    <3>2. Pending(p)'
      BY <1>1, <3>1, Appended
    <3>3. In(p)' = In(p)
      BY <3>1 DEF In
    <3>4. QED
      BY <1>1, <1>2, <2>1, <3>1, <3>2, <3>3, SectorKept
  <2>5. CASE Handle_LOGOUT(p) \/ OnDisconnected(p) \/ ReleasePlayer(p)
             \/ HandleLatePacket(p)
    <3>1. UNCHANGED <<m_players, sector, sectorIdx, pos>>
      BY <2>5 DEF Handle_LOGOUT, OnDisconnected, ReleasePlayer, HandleLatePacket
    <3>2. m_playerState'[p] = "Connected" => m_playerState[p] = "Connected"
      BY <2>5 DEF Handle_LOGOUT, OnDisconnected, ReleasePlayer, HandleLatePacket, TypeOK
    <3>3. session[p] \notin Connecting
      BY <2>5 DEF Handle_LOGOUT, OnDisconnected, ReleasePlayer, HandleLatePacket, Serve, Connecting, LoginPCs
    <3>4. In(p)' = In(p)
      BY <3>1 DEF In
    <3>5. QED
      BY <1>1, <1>2, <2>1, <3>1, <3>2, <3>3, <3>4, SectorKept DEF WaitsKept
  <2>6. QED
    BY <2>2, <2>3, <2>4, <2>5 DEF Handler, LoginStep
<1>5. QED
  BY <1>3, <1>4 DEF SectorsFit

\* A move that is dropped is of a player who has left or is about to.
LEMMA DroppedStillWaits ==
    ASSUME TypeOK, LInv, BInv, NEW z \in Zones, MovePlayerInvalid(z), Owner(z) \in m_players
    PROVE  \A p : p = Owner(z) => Pending(p)' \/ Runs(room, p)
<1> SUFFICES ASSUME NEW p, p = Owner(z), ~Runs(room, p) PROVE Pending(p)'
  OBVIOUS
<1>1. /\ pc[z] = "idle" /\ jobs[z] # <<>> /\ ~IsValidPlayer(p) /\ EndJob(z) /\ UNCHANGED pc
      /\ jobs \in [Queues -> Seq(Players)] /\ z \in Queues /\ room \in Queues /\ room # z
  BY Idle, Indices DEF MovePlayerInvalid
<1>2. p \in Players /\ HasJob(z, p)
  <2>1. p \in Players /\ p = jobs[z][1] /\ 1 \in DOMAIN jobs[z]
    BY <1>1, Tails DEF Owner
  <2>2. QED
    BY <2>1 DEF HasJob
<1>3. session[p] \notin Connecting
  BY <1>1, <1>2 DEF BInv, Newcomers, Newcomer
<1>4. p \in LoggingOut
  BY <1>1, <1>2, <1>3 DEF LInv, Lifecycle, IsValidPlayer, Connecting, LoginPCs
<1>5. PICK i \in DOMAIN jobs[room] : jobs[room][i] = p
  BY <1>4 DEF LoggingOut
<1>6. i > 1 \/ pc[room] = "idle"
  <2>1. i \in Nat \ {0}
    BY <1>1, <1>5
  <2>2. CASE i = 1
    <3>1. jobs[room] # <<>>
      BY <1>1, <1>5
    <3>2. Owner(room) = p
      BY <1>1, <1>5, <2>2, <3>1, Tails DEF Owner
    <3>3. QED
      BY <3>2 DEF Runs
  <2>3. QED
    BY <2>1, <2>2
<1>7. jobs'[room] = jobs[room] /\ pc'[room] = pc[room]
  BY <1>1 DEF EndJob
<1>8. Waits(room, p)'
  BY <1>5, <1>6, <1>7 DEF Waits
<1>9. QED
  BY <1>1, <1>8 DEF Pending

LEMMA ZoneSectors ==
    ASSUME TypeOK, LInv, BInv, BInv', SectorsFit, NEW z \in Zones, ZoneStep(z)
    PROVE  SectorsFit'
<1> USE DEF roomVars, sessionVars, jobVars, localVars
<1>1. /\ UNCHANGED <<m_players, pos, session, m_playerState>>
      /\ overlapped \subseteq overlapped'
      /\ jobs[z] # <<>> /\ Owner(z) \in Players
      /\ OthersKept(Owner(z)) /\ \A t \in Players : NoNewJob(t)
      /\ \A q \in Queues \ {z} : pc'[q] = pc[q] /\ jobs'[q] = jobs[q]
      /\ \A y \in Zones \ {z} : /\ to'[y] = to[y] /\ newViewList'[y] = newViewList[y]
                                /\ targets'[y] = targets[y]
  BY ZoneEffect
<1>2. /\ Beside /\ LocalsFit /\ Newcomers /\ Beside' /\ LocalsFit'
      /\ z \in Queues /\ Zones \subseteq Queues /\ room \in Queues /\ room # z
      /\ pc \in [Queues -> ZonePCs \cup RoomPCs]
      /\ to \in [Zones -> Sectors \cup {0}] /\ sector \in [Sectors -> SUBSET Players]
  BY Indices DEF BInv, TypeOK
<1>3. ASSUME NEW t \in Players, t # Owner(z) PROVE SectorOf(t)'
  <2>1. \A y \in Zones : Runs(y, t) => pc'[y] = pc[y] /\ to'[y] = to[y]
    BY <1>1, <1>2, <1>3 DEF Runs
  <2>2. SectorOf(t) /\ RunsKept(t) /\ WaitsKept(t) /\ In(t)' = In(t)
        /\ sectorIdx'[t] = sectorIdx[t]
    BY <1>1, <1>3 DEF SectorsFit, OthersKept
  <2>3. QED
    BY <1>1, <1>2, <2>1, <2>2, SectorKept DEF WaitsKept
<1>4. PICK p \in Players : p = Owner(z)
  BY <1>1
<1>5. /\ SectorOf(p) /\ session[p] \notin Connecting
  <2>1. p = jobs[z][1] /\ 1 \in DOMAIN jobs[z]
    BY <1>1, <1>2, <1>4, Idle, Tails DEF Owner
  <2>2. HasJob(z, p)
    BY <2>1 DEF HasJob
  <2>3. QED
    BY <1>2, <1>4, <2>2 DEF SectorsFit, Newcomers, Newcomer
<1>6. SectorOf(p)'
  <2>1. CASE MovePlayer(z)
    <3>0. /\ pc[z] = "idle" /\ UNCHANGED <<jobs, sector, sectorIdx>> /\ IsValidPlayer(p)
          /\ to' = [to EXCEPT ![z] = GetPlayerSectorIdx(pos[p])]
          /\ pc' = [pc EXCEPT ![z] = IF to'[z] = sectorIdx[p] THEN "look" ELSE "erase"]
      BY <1>4, <2>1 DEF MovePlayer, Goto
    <3>1. /\ pc[z] = "idle" /\ UNCHANGED <<jobs, sector, sectorIdx>> /\ IsValidPlayer(p)
          /\ to'[z] = GetPlayerSectorIdx(pos[p])
          /\ pc'[z] = IF to'[z] = sectorIdx[p] THEN "look" ELSE "erase"
          /\ \E label : label # "idle" /\ pc' = [pc EXCEPT ![z] = label]
      <4>1. (IF to'[z] = sectorIdx[p] THEN "look" ELSE "erase") # "idle"
        OBVIOUS
      <4>2. QED
        BY <1>2, <3>0, <4>1
    <3>2. \A q \in Queues : Runs(q, p)' <=> Runs(q, p) \/ q = z
      BY <1>1, <1>2, <1>4, <3>1, Started
    <3>3. {p} \notin overlapped' => Free(p) /\ {p} \notin overlapped
      <4>1. ASSUME {p} \notin overlapped', NEW q \in Queues, Runs(q, p) PROVE FALSE
        <5>1. q # z
          BY <3>1, <4>1 DEF Runs
        <5>2. Runs(q, p)' /\ Runs(z, p)' /\ {p, p} = {p}
          BY <1>2, <3>2, <4>1
        <5>3. QED
          BY <1>2, <4>1, <5>1, <5>2 DEF Beside
      <4>2. QED
        BY <1>1, <4>1 DEF Free
    <3>4. {p} \notin overlapped' => p \in m_players /\ In(p) = {sectorIdx[p]}
      BY <1>5, <3>1, <3>3 DEF SectorOf
    <3>5. In(p)' = In(p) /\ Held(z, p)' = {sectorIdx[p]}
      BY <3>1 DEF In, Held
    <3>6. UpToDate(p, to[z])'
      BY <1>1, <3>1 DEF UpToDate
    <3>7. Runs(z, p)'
      BY <1>2, <3>2
    <3>8. QED
      BY <1>1, <1>2, <3>1, <3>4, <3>5, <3>6, <3>7, SectorRunning
  <2>2. CASE MovePlayerInvalid(z)
    <3>1. /\ pc[z] = "idle" /\ EndJob(z) /\ UNCHANGED <<pc, sector, sectorIdx, to>>
      BY <2>2 DEF MovePlayerInvalid
    <3>2. RunsKept(p)
      BY <1>1, <1>2, <3>1, Dropped
    <3>3. p \in m_players /\ ~Runs(room, p) => Pending(p)'
      BY <1>4, <2>2, DroppedStillWaits
    <3>4. In(p)' = In(p)
      BY <3>1 DEF In
    <3>5. QED
      BY <1>1, <1>2, <1>5, <3>1, <3>2, <3>3, <3>4, SectorKept
  <2>3. ASSUME pc[z] # "idle", UNCHANGED jobs,
               pc' = pc \/ \E l : l # "idle" /\ pc' = [pc EXCEPT ![z] = l],
               (/\ {p} \notin overlapped' /\ p \in m_players /\ In(p) = Held(z, p)
                /\ pc[z] \notin {"erase", "insert", "index"} => to[z] = sectorIdx[p])
               => /\ In(p)' = Held(z, p)'
                  /\ pc'[z] \notin {"erase", "insert", "index"} => to'[z] = sectorIdx'[p],
               to'[z] = to[z]
        PROVE  SectorOf(p)'
    <3>1. RunsKept(p) /\ WaitsKept(p)
      BY <1>2, <2>3, SameJobs, Goes
    <3>2. Runs(z, p) /\ Runs(z, p)'
      BY <1>2, <1>4, <2>3, <3>1 DEF Runs, RunsKept
    <3>3. {p} \notin overlapped' =>
             /\ p \in m_players /\ In(p) = Held(z, p) /\ UpToDate(p, to[z])
             /\ pc[z] \notin {"erase", "insert", "index"} => to[z] = sectorIdx[p]
      BY <1>1, <1>5, <3>2 DEF SectorOf
    <3>4. UpToDate(p, to[z]) => UpToDate(p, to[z])'
      BY <1>1, <2>3, <3>1 DEF UpToDate, WaitsKept
    <3>5. QED
      BY <1>1, <1>2, <2>3, <3>2, <3>3, <3>4, SectorRunning
  <2>4. CASE MoveErase(z)
    <3>1. /\ pc[z] = "erase" /\ pc'[z] = "insert" /\ UNCHANGED <<jobs, sectorIdx, to>>
          /\ pc' = [pc EXCEPT ![z] = "insert"] /\ Erase(sectorIdx[p], p)
      BY <1>2, <1>4, <2>4 DEF MoveErase, Goto
    <3>2. In(p)' = In(p) \ {sectorIdx[p]}
      BY <3>1, Moved
    <3>3. QED
      BY <2>3, <3>1, <3>2 DEF Held
  <2>5. CASE MoveInsert(z)
    <3>1. /\ pc[z] = "insert" /\ pc'[z] = "index" /\ UNCHANGED <<jobs, sectorIdx, to>>
          /\ pc' = [pc EXCEPT ![z] = "index"] /\ Insert(to[z], p)
      BY <1>2, <1>4, <2>5 DEF MoveInsert, Goto
    <3>2. to[z] \in Sectors
      BY <1>2, <3>1 DEF LocalsFit
    <3>3. In(p)' = In(p) \cup {to[z]}
      BY <3>1, <3>2, Moved
    <3>4. QED
      BY <2>3, <3>1, <3>3 DEF Held
  <2>6. CASE MoveIndex(z)
    <3>1. /\ pc[z] = "index" /\ pc'[z] = "visit" /\ UNCHANGED <<jobs, sector, to>>
          /\ pc' = [pc EXCEPT ![z] = "visit"] /\ sectorIdx'[p] = to[z]
      BY <1>2, <1>4, <2>6 DEF MoveIndex, Goto, TypeOK
    <3>2. In(p)' = In(p)
      BY <3>1 DEF In
    <3>3. QED
      BY <2>3, <3>1, <3>2 DEF Held
  <2>7. CASE Look(z) \/ VisitSector(z) \/ VisitTarget(z) \/ SendLeaves(z)
    <3>1. /\ pc[z] \in {"look", "visit", "targets"} /\ pc'[z] \in {"visit", "targets", "set_view"}
          /\ UNCHANGED <<jobs, sectorIdx, sector, to>>
          /\ pc' = pc \/ \E l \in {"visit", "targets", "set_view"} : pc' = [pc EXCEPT ![z] = l]
      <4>1. CASE Look(z)
        BY <1>2, <4>1 DEF Look, Goto
      <4>2. CASE VisitSector(z)
        BY <1>2, <4>2 DEF VisitSector, Goto
      <4>3. CASE VisitTarget(z)
        <5>1. \E l \in {"visit", "targets"} : Goto(z, "targets", l)
          BY <4>3 DEF VisitTarget
        <5>2. QED
          BY <1>2, <4>3, <5>1, Visit DEF Goto
      <4>4. CASE SendLeaves(z)
        BY <1>2, <4>4 DEF SendLeaves, Goto
      <4>5. QED
        BY <2>7, <4>1, <4>2, <4>3, <4>4
    <3>2. In(p)' = In(p)
      BY <3>1 DEF In
    <3>3. QED
      BY <2>3, <3>1, <3>2 DEF Held
  <2>8. CASE SetViewList(z)
    <3>1. /\ pc[z] = "set_view" /\ EndJob(z) /\ UNCHANGED <<sectorIdx, sector>>
          /\ pc' = [pc EXCEPT ![z] = "idle"]
      BY <2>8 DEF SetViewList, SendMoveResult, Goto
    <3>2. /\ WaitsKept(p) /\ \A q \in Queues : Runs(q, p)' => Runs(q, p) /\ q # z
      BY <1>2, <3>1, Ended
    <3>3. Runs(z, p)
      BY <1>4, <3>1 DEF Runs
    <3> SUFFICES ASSUME {p} \notin overlapped' PROVE SectorOf(p)'
      BY DEF SectorOf
    <3>4. \A q \in Queues : ~Runs(q, p)'
      BY <1>1, <1>2, <3>2, <3>3, Alone
    <3>5. p \in m_players /\ In(p) = {sectorIdx[p]} /\ UpToDate(p, sectorIdx[p])
      BY <1>1, <1>5, <3>1, <3>3 DEF SectorOf, Held
    <3>6. UpToDate(p, sectorIdx[p])'
      BY <1>1, <3>1, <3>2, <3>5 DEF UpToDate, WaitsKept
    <3>7. In(p)' = In(p)
      BY <3>1 DEF In
    <3>8. QED
      BY <1>1, <1>2, <3>1, <3>4, <3>5, <3>6, <3>7 DEF SectorOf
  <2>9. QED
    BY <2>1, <2>2, <2>4, <2>5, <2>6, <2>7, <2>8 DEF ZoneStep
<1>7. QED
  BY <1>3, <1>4, <1>6 DEF SectorsFit

LEMMA RoomSectors ==
    ASSUME TypeOK, LInv, BInv, BInv', SectorsFit, RoomStep
    PROVE  SectorsFit'
<1> USE DEF roomVars, sessionVars, jobVars, localVars
<1>1. /\ UNCHANGED <<sectorIdx, pos, m_viewList, session, to, newViewList, targets, known>>
      /\ overlapped \subseteq overlapped'
      /\ jobs[room] # <<>> /\ Owner(room) \in Players
      /\ OthersKept(Owner(room)) /\ \A t \in Players : NoNewJob(t)
      /\ \A z \in Zones : pc'[z] = pc[z]
  BY RoomEffect
<1>2. /\ Beside /\ Beside' /\ Newcomers
      /\ Zones \subseteq Queues /\ room \in Queues /\ room \notin Zones
      /\ pc \in [Queues -> ZonePCs \cup RoomPCs]
  BY Indices DEF BInv, TypeOK
<1>3. ASSUME NEW t \in Players, t # Owner(room) PROVE SectorOf(t)'
  BY <1>1, <1>2, <1>3, SectorKept DEF SectorsFit, OthersKept, WaitsKept
<1>4. PICK p \in Players : p = Owner(room)
  BY <1>1
<1>5. SectorOf(p) /\ session[p] \notin Connecting
  <2>1. p = jobs[room][1] /\ 1 \in DOMAIN jobs[room]
    BY <1>1, <1>2, <1>4, Idle, Tails DEF Owner
  <2>2. HasJob(room, p)
    BY <2>1 DEF HasJob
  <2>3. QED
    BY <1>2, <1>4, <2>2 DEF SectorsFit, Newcomers, Newcomer
<1>6. SectorOf(p)'
  <2> SUFFICES ASSUME {p} \notin overlapped' PROVE SectorOf(p)'
    BY DEF SectorOf
  <2>0. {p, p} = {p}
    OBVIOUS
  <2>1. ASSUME Runs(room, p)', In(p)' = {} PROVE SectorOf(p)'
    <3>1. \A z \in Zones : ~Runs(z, p)'
      BY <1>2, <2>0, <2>1 DEF Beside
    <3>2. ~Free(p)'
      BY <1>2, <2>1 DEF Free
    <3>3. QED
      BY <2>1, <3>1, <3>2 DEF SectorOf
  <2>2. CASE Logout
    <3>1. /\ pc[room] = "idle" /\ UNCHANGED jobs /\ Erase(sectorIdx[p], p)
          /\ pc' = [pc EXCEPT ![room] = "logout_map"]
      BY <1>4, <2>2 DEF Logout, Goto
    <3>2. \A q \in Queues : Runs(q, p)' <=> Runs(q, p) \/ q = room
      BY <1>1, <1>2, <1>4, <3>1, Started
    <3>3. Free(p)
      <4>1. ASSUME NEW q \in Queues, Runs(q, p) PROVE FALSE
        <5>1. q # room
          BY <3>1, <4>1 DEF Runs
        <5>2. Runs(q, p)' /\ Runs(room, p)'
          BY <1>2, <3>2, <4>1
        <5>3. QED
          BY <1>2, <2>0, <5>1, <5>2 DEF Beside
      <4>2. QED
        BY <4>1 DEF Free
    <3>4. In(p) = {} \/ In(p) = {sectorIdx[p]}
      BY <1>1, <1>5, <3>3 DEF SectorOf
    <3>5. In(p)' = {}
      BY <3>1, <3>4, Moved
    <3>6. Runs(room, p)'
      BY <1>2, <3>2
    <3>7. QED
      BY <2>1, <3>5, <3>6
  <2>3. CASE LogoutMap
    <3>1. /\ pc[room] = "logout_map" /\ UNCHANGED <<jobs, sector>>
          /\ pc' = [pc EXCEPT ![room] = "logout_state"]
      BY <2>3 DEF LogoutMap, Goto
    <3>2. Runs(room, p) /\ Runs(room, p)'
      BY <1>2, <1>4, <3>1 DEF Runs, Owner
    <3>3. In(p)' = In(p)
      BY <3>1 DEF In
    <3>4. QED
      BY <1>1, <1>5, <2>1, <3>2, <3>3 DEF SectorOf
  <2>4. CASE LogoutState
    <3>1. /\ pc[room] = "logout_state" /\ EndJob(room) /\ UNCHANGED <<m_players, sector>>
          /\ pc' = [pc EXCEPT ![room] = "idle"] /\ m_playerState'[p] = "Disconnected"
      BY <1>4, <2>4 DEF LogoutState, Goto, TypeOK
    <3>2. \A q \in Queues : Runs(q, p)' => Runs(q, p) /\ q # room
      BY <1>2, <3>1, Ended
    <3>3. Runs(room, p)
      BY <1>4, <3>1 DEF Runs
    <3>4. \A q \in Queues : ~Runs(q, p)'
      BY <1>1, <1>2, <3>2, <3>3, Alone
    <3>5. In(p) = {} /\ p \notin m_players
      BY <1>1, <1>4, <1>5, <3>1, <3>3 DEF SectorOf, LInv, LogoutErased
    <3>6. In(p)' = In(p)
      BY <3>1 DEF In
    <3>7. QED
      BY <1>1, <1>2, <3>1, <3>4, <3>5, <3>6 DEF SectorOf, IsValidPlayer
  <2>5. QED
    BY <2>2, <2>3, <2>4 DEF RoomStep
<1>7. QED
  BY <1>3, <1>4, <1>6 DEF SectorsFit
-----------------------------------------------------------------------------
\* Two players whose jobs never ran side by side, and of whom neither had two
\* jobs at the same time.
Apart(p, t) == {{p, t}, {p}, {t}} \cap overlapped = {}

LEMMA ApartSame ==
    ASSUME NEW p, NEW t
    PROVE  /\ Apart(p, t) <=> Apart(t, p)
           /\ Apart(p, t)' <=> Apart(t, p)'
           /\ overlapped \subseteq overlapped' => (Apart(p, t)' => Apart(p, t))
<1>1. {{p, t}, {p}, {t}} = {{t, p}, {t}, {p}}
  OBVIOUS
<1>2. (Apart(p, t) <=> Apart(t, p)) /\ (Apart(p, t)' <=> Apart(t, p)')
  BY <1>1 DEF Apart
<1>3. overlapped \subseteq overlapped' => (Apart(p, t)' => Apart(p, t))
  BY DEF Apart
<1>4. QED
  BY <1>2, <1>3

\* The only job of the two that runs.
LEMMA PairAlone ==
    ASSUME NEW p \in Players, NEW t \in Players, NEW o \in {p, t}, NEW q \in Queues
    PROVE  /\ Beside /\ Apart(p, t) /\ Runs(q, o) =>
                \A r \in Queues : Runs(r, p) => r = q /\ p = o
           /\ (Beside /\ Apart(p, t) /\ Runs(q, o))' =>
                \A r \in Queues : Runs(r, p)' => r = q /\ p = o
<1>0. {p, p} = {p}
  OBVIOUS
<1>1. ASSUME Beside, Apart(p, t), Runs(q, o), NEW r \in Queues, Runs(r, p)
      PROVE  r = q /\ p = o
  <2>1. CASE p = o
    BY <1>0, <1>1, <2>1 DEF Beside, Apart
  <2>2. CASE p # o
    <3>1. t = o /\ r # q
      BY <1>1, <2>2 DEF Runs
    <3>2. {p, t} \in overlapped
      BY <1>1, <3>1 DEF Beside
    <3>3. QED
      BY <1>1, <3>2 DEF Apart
  <2>3. QED
    BY <2>1, <2>2
<1>2. ASSUME (Beside /\ Apart(p, t) /\ Runs(q, o))', NEW r \in Queues, Runs(r, p)'
      PROVE  r = q /\ p = o
  <2>1. CASE p = o
    BY <1>0, <1>2, <2>1 DEF Beside, Apart
  <2>2. CASE p # o
    <3>1. t = o /\ r # q
      BY <1>2, <2>2 DEF Runs
    <3>2. {p, t} \in overlapped'
      BY <1>2, <3>1 DEF Beside
    <3>3. QED
      BY <1>2, <3>2 DEF Apart
  <2>3. QED
    BY <2>1, <2>2
<1>3. QED
  BY <1>1, <1>2

\* Two players are near each other, or a job of one of them is yet to come.
NearOrPending(p, t) == IsNear(pos[p], pos[t]) \/ Pending(p) \/ Pending(t)

\* Whom a job of p has seen so far was near p, and is still unless one of the
\* two has moved since.
NearOf(p, t) == Apart(p, t) /\ p \in m_players /\ t \in m_players =>
    /\ \A z \in Zones : Runs(z, p) /\ t \in newViewList[z] => NearOrPending(p, t)
    /\ Free(p) /\ Free(t) /\ t \in m_viewList[p] /\ p \in m_viewList[t] => NearOrPending(p, t)

ViewsNear == \A p, t \in Players : NearOf(p, t)

LEMMA NearSame ==
    ASSUME NEW p, NEW t
    PROVE  NearOrPending(p, t) <=> NearOrPending(t, p)
  BY DEF NearOrPending, IsNear

\* A pair with a newcomer in it.
LEMMA NewcomerNear ==
    ASSUME TypeOK', BInv', NEW p \in Players, NEW t \in Players,
           session'[p] \in Connecting \/ session'[t] \in Connecting
    PROVE  NearOf(p, t)'
<1>1. /\ Newcomer(p)' /\ Newcomer(t)' /\ Zones \subseteq Queues
  BY Indices DEF BInv, Newcomers
<1>2. CASE session'[p] \in Connecting
  <2>1. \A q \in Queues : ~Runs(q, p)'
    <3>1. ASSUME NEW q \in Queues, Runs(q, p)' PROVE FALSE
      <4>1. jobs'[q] \in Seq(Players) /\ jobs'[q] # <<>>
        BY <3>1 DEF TypeOK, Running, Runs
      <4>2. p = jobs'[q][1] /\ 1 \in DOMAIN jobs'[q]
        BY <3>1, <4>1, Tails DEF Runs, Owner
      <4>3. QED
        BY <1>1, <1>2, <4>2 DEF Newcomer, HasJob
    <3>2. QED
      BY <3>1
  <2>2. p \notin m_viewList'[t]
    BY <1>1, <1>2 DEF Newcomer
  <2>3. QED
    BY <1>1, <2>1, <2>2 DEF NearOf
<1>3. CASE session'[t] \in Connecting
  <2>1. t \notin m_viewList'[p] /\ \A z \in Zones : t \notin newViewList'[z]
    BY <1>1, <1>3 DEF Newcomer
  <2>2. QED
    BY <2>1 DEF NearOf
<1>4. QED
  BY <1>2, <1>3

\* A pair that a step does not bring together.
LEMMA NearKept ==
    ASSUME NEW p \in Players, NEW t \in Players, Beside, NearOf(p, t),
           RunsKept(p), RunsKept(t), overlapped \subseteq overlapped',
           m_viewList'[p] = m_viewList[p], m_viewList'[t] = m_viewList[t],
           p \in m_players' => p \in m_players, t \in m_players' => t \in m_players,
           \A z \in Zones : Runs(z, p) /\ t \in newViewList'[z] =>
              t \in newViewList[z] \/ NearOrPending(p, t),
           /\ p \in m_players /\ t \in m_players /\ ~Runs(room, p) /\ ~Runs(room, t)
           /\ NearOrPending(p, t)
           => NearOrPending(p, t)'
    PROVE  NearOf(p, t)'
<1> SUFFICES ASSUME Apart(p, t)', p \in m_players', t \in m_players'
             PROVE  NearOf(p, t)'
  BY DEF NearOf
<1>1. /\ Apart(p, t) /\ p \in m_players /\ t \in m_players
      /\ \A q \in Queues : (Runs(q, p)' <=> Runs(q, p)) /\ (Runs(q, t)' <=> Runs(q, t))
      /\ (Free(p)' <=> Free(p)) /\ (Free(t)' <=> Free(t))
      /\ room \in Queues /\ Zones \subseteq Queues /\ room \notin Zones
  BY ApartSame, Indices DEF RunsKept, Free
<1>2. ASSUME NEW z \in Zones, Runs(z, p)', t \in newViewList'[z]
      PROVE  NearOrPending(p, t)'
  <2>1. Runs(z, p) /\ z # room
    BY <1>1, <1>2
  <2>2. ~Runs(room, p)
    BY <1>1, <2>1, PairAlone
  <2>3. ~Runs(room, t)
    BY <1>1, <2>1, PairAlone
  <2>4. NearOrPending(p, t)
    BY <1>1, <1>2, <2>1 DEF NearOf
  <2>5. QED
    BY <1>1, <2>2, <2>3, <2>4
<1>3. ASSUME Free(p), Free(t), t \in m_viewList[p], p \in m_viewList[t]
      PROVE  NearOrPending(p, t)'
  <2>1. ~Runs(room, p) /\ ~Runs(room, t)
    BY <1>1, <1>3 DEF Free
  <2>2. QED
    BY <1>1, <1>3, <2>1 DEF NearOf
<1>4. QED
  BY <1>1, <1>2, <1>3 DEF NearOf

LEMMA HandlerNear ==
    ASSUME TypeOK, LInv, BInv, TypeOK', BInv', ViewsNear, NEW o \in Players, Handler(o)
    PROVE  ViewsNear'
<1> USE DEF roomVars, sessionVars, jobVars, localVars
<1>1. /\ OthersKept(o) /\ RunsKept(o) /\ WaitsKept(o)
      /\ UNCHANGED <<pc, overlapped, to, newViewList, view, targets, m_viewList, known>>
  BY HandlerEffect
<1>2. Beside
  BY DEF BInv
<1>3. \A t \in Players : RunsKept(t) /\ WaitsKept(t)
  BY <1>1 DEF OthersKept
<1>4. pos'[o] # pos[o] => Pending(o)'
  <2>1. CASE Handle_C2S_MOVE(o)
    <3>1. \E q \in Queues : DoAsync(q, o)
      BY <2>1, Indices DEF Handle_C2S_MOVE
    <3>2. QED
      BY <1>1, <3>1, Appended
  <2>2. CASE ~Handle_C2S_MOVE(o)
    BY <2>2 DEF Handler, LoginStep, LoginInsert, LoginMap, LoginState, Handle_LOGOUT,
       OnDisconnected, ReleasePlayer, HandleLatePacket
  <2>3. QED
    BY <2>1, <2>2
<1>5. \A t \in Players : t \in m_players' => t \in m_players \/ session'[t] \in Connecting
  <2>1. CASE LoginMap(o)
    BY <2>1 DEF LoginMap, Serve, TypeOK, Connecting, LoginPCs
  <2>2. CASE ~LoginMap(o)
    BY <2>2 DEF Handler, LoginStep, LoginInsert, LoginState, Handle_C2S_MOVE, Handle_LOGOUT,
       OnDisconnected, ReleasePlayer, HandleLatePacket
  <2>3. QED
    BY <2>1, <2>2
<1>6. ASSUME NEW p \in Players, NEW t \in Players
      PROVE  NearOf(p, t)'
  <2>1. CASE session'[p] \in Connecting \/ session'[t] \in Connecting
    BY <2>1, NewcomerNear
  <2>2. CASE session'[p] \notin Connecting /\ session'[t] \notin Connecting
    <3>1. NearOrPending(p, t) => NearOrPending(p, t)'
      <4>1. CASE o \in {p, t} /\ pos'[o] # pos[o]
        BY <1>4, <4>1 DEF NearOrPending
      <4>2. CASE o \notin {p, t} \/ pos'[o] = pos[o]
        <5>1. pos'[p] = pos[p] /\ pos'[t] = pos[t]
          BY <1>1, <4>2 DEF OthersKept
        <5>2. QED
          BY <1>3, <5>1 DEF NearOrPending, WaitsKept
      <4>3. QED
        BY <4>1, <4>2
    <3>2. QED
      BY <1>1, <1>2, <1>3, <1>5, <2>2, <3>1, NearKept DEF ViewsNear
  <2>3. QED
    BY <2>1, <2>2
<1>7. QED
  BY <1>6 DEF ViewsNear

LEMMA ZoneNear ==
    ASSUME TypeOK, LInv, BInv, BInv', ViewsNear, NEW z \in Zones, ZoneStep(z)
    PROVE  ViewsNear'
<1> USE DEF roomVars, sessionVars, jobVars, localVars
<1>1. /\ UNCHANGED <<m_players, pos, session, m_playerState>>
      /\ overlapped \subseteq overlapped'
      /\ jobs[z] # <<>> /\ Owner(z) \in Players
      /\ OthersKept(Owner(z)) /\ \A t \in Players : NoNewJob(t)
      /\ \A q \in Queues \ {z} : pc'[q] = pc[q] /\ jobs'[q] = jobs[q]
      /\ \A y \in Zones \ {z} : /\ to'[y] = to[y] /\ newViewList'[y] = newViewList[y]
                                /\ targets'[y] = targets[y]
  BY ZoneEffect
<1>2. /\ Beside /\ LocalsFit /\ Beside' /\ LocalsFit'
      /\ z \in Queues /\ Zones \subseteq Queues /\ room \in Queues /\ room # z
      /\ pc \in [Queues -> ZonePCs \cup RoomPCs]
      /\ m_viewList \in [Players -> SUBSET Players]
  BY Indices DEF BInv, TypeOK
<1>3. PICK o \in Players : o = Owner(z)
  BY <1>1
<1>4. ASSUME NEW p \in Players, NEW t \in Players PROVE NearOf(p, t)'
  <2>1. NearOf(p, t) /\ NearOf(t, p)
    BY DEF ViewsNear
  <2>2. CASE o \notin {p, t}
    <3>1. /\ RunsKept(p) /\ WaitsKept(p) /\ m_viewList'[p] = m_viewList[p]
          /\ RunsKept(t) /\ WaitsKept(t) /\ m_viewList'[t] = m_viewList[t]
      BY <1>1, <1>3, <2>2 DEF OthersKept
    <3>2. \A y \in Zones : Runs(y, p) => newViewList'[y] = newViewList[y]
      BY <1>1, <1>3, <2>2 DEF Runs
    <3>3. NearOrPending(p, t) => NearOrPending(p, t)'
      BY <1>1, <3>1 DEF NearOrPending, WaitsKept
    <3>4. QED
      BY <1>1, <1>2, <2>1, <3>1, <3>2, <3>3, NearKept
  <2>3. CASE o \in {p, t} /\ MovePlayer(z)
    <3> SUFFICES ASSUME Apart(p, t)' PROVE NearOf(p, t)'
      BY DEF NearOf
    <3>1. /\ pc[z] = "idle" /\ UNCHANGED <<jobs, newViewList>>
          /\ \E label \in {"look", "erase"} : pc' = [pc EXCEPT ![z] = label]
      BY <2>3 DEF MovePlayer, Goto
    <3>2. Runs(z, o)'
      BY <1>2, <1>3, <3>1 DEF Runs, Owner
    <3>3. \A y \in Zones : Runs(y, p)' => y = z
      BY <1>2, <2>3, <3>2, PairAlone
    <3>4. newViewList'[z] = {}
      BY <1>2, <3>1 DEF LocalsFit
    <3>5. ~Free(p)' \/ ~Free(t)'
      BY <1>2, <2>3, <3>2 DEF Free
    <3>6. QED
      BY <3>3, <3>4, <3>5 DEF NearOf
  <2>4. CASE o \in {p, t} /\ MovePlayerInvalid(z)
    <3>1. /\ pc[z] = "idle" /\ EndJob(z) /\ UNCHANGED <<pc, newViewList, m_viewList>>
      BY <2>4 DEF MovePlayerInvalid
    <3>2. \A u \in Players : RunsKept(u) /\ (u # o => WaitsKept(u))
      BY <1>1, <1>2, <1>3, <3>1, Dropped
    <3>3. o \in m_players /\ ~Runs(room, o) => Pending(o)'
      BY <1>3, <2>4, DroppedStillWaits
    <3>4. p \in m_players /\ t \in m_players /\ ~Runs(room, p) /\ ~Runs(room, t) =>
             Pending(p)' \/ Pending(t)'
      BY <2>4, <3>3
    <3>5. QED
      BY <1>1, <1>2, <2>1, <3>1, <3>2, <3>4, NearKept DEF NearOrPending
  <2>5. CASE o \in {p, t} /\ pc[z] # "idle" /\ ~SetViewList(z)
    <3>1. /\ UNCHANGED <<jobs, m_viewList>>
          /\ pc' = pc \/ \E l : l # "idle" /\ pc' = [pc EXCEPT ![z] = l]
      <4>1. UNCHANGED <<jobs, m_viewList>>
        BY <2>5 DEF ZoneStep, MovePlayer, MovePlayerInvalid, MoveErase, MoveInsert, MoveIndex,
           Look, VisitSector, VisitTarget, SendLeaves, Goto
      <4>2. CASE VisitTarget(z)
        <5>1. \E l \in {"visit", "targets"} : Goto(z, "targets", l)
          BY <4>2 DEF VisitTarget
        <5>2. QED
          BY <4>1, <5>1 DEF Goto
      <4>3. CASE VisitSector(z)
        <5>1. pc' = pc \/ pc' = [pc EXCEPT ![z] = "targets"]
          BY <4>3 DEF VisitSector, Goto
        <5>2. QED
          BY <4>1, <5>1
      <4>4. CASE MoveErase(z) \/ MoveInsert(z) \/ MoveIndex(z) \/ Look(z) \/ SendLeaves(z)
        <5>1. \E l \in {"insert", "index", "visit", "set_view"} : pc' = [pc EXCEPT ![z] = l]
          BY <4>4 DEF MoveErase, MoveInsert, MoveIndex, Look, SendLeaves, Goto
        <5>2. QED
          BY <4>1, <5>1
      <4>5. ~MovePlayer(z) /\ ~MovePlayerInvalid(z)
        BY <2>5 DEF MovePlayer, MovePlayerInvalid, Goto
      <4>6. QED
        BY <2>5, <4>2, <4>3, <4>4, <4>5 DEF ZoneStep
    <3>2. \A u \in Players : RunsKept(u) /\ WaitsKept(u)
      BY <1>2, <2>5, <3>1, SameJobs, Goes
    <3>3. ASSUME NEW y \in Zones, Runs(y, p), t \in newViewList'[y]
          PROVE  t \in newViewList[y] \/ NearOrPending(p, t)
      <4>1. CASE y # z
        BY <1>1, <3>3, <4>1
      <4>2. CASE y = z /\ VisitTarget(z)
        <5>1. p = Owner(z)
          BY <3>3, <4>2 DEF Runs
        <5>2. t \in newViewList[z] \/ Sees(z, t)
          BY <3>3, <4>2, Visit
        <5>3. QED
          BY <4>2, <5>1, <5>2 DEF Sees, NearOrPending
      <4>3. CASE y = z /\ ~VisitTarget(z)
        BY <3>3, <4>3, NoVisit
      <4>4. QED
        BY <4>1, <4>2, <4>3
    <3>4. NearOrPending(p, t) => NearOrPending(p, t)'
      BY <1>1, <3>2 DEF NearOrPending, WaitsKept
    <3>5. QED
      BY <1>1, <1>2, <2>1, <3>1, <3>2, <3>3, <3>4, NearKept
  <2>6. CASE o \in {p, t} /\ SetViewList(z)
    <3> SUFFICES ASSUME Apart(p, t)', p \in m_players, t \in m_players PROVE NearOf(p, t)'
      BY <1>1 DEF NearOf
    <3>1. /\ pc[z] = "set_view" /\ EndJob(z) /\ pc' = [pc EXCEPT ![z] = "idle"]
          /\ m_viewList' = [m_viewList EXCEPT ![o] = newViewList[z]]
      BY <1>3, <2>6 DEF SetViewList, SendMoveResult, Goto
    <3>2. /\ \A u \in Players : WaitsKept(u)
          /\ \A u : \A q \in Queues : Runs(q, u)' => Runs(q, u) /\ q # z
      BY <1>2, <3>1, Ended
    <3>3. Runs(z, o) /\ Apart(p, t) /\ Apart(t, p)
      BY <1>1, <1>3, <3>1, ApartSame DEF Runs
    <3>4. \A y \in Zones : ~Runs(y, p)'
      BY <1>2, <2>6, <3>2, <3>3, PairAlone
    <3>5. NearOrPending(p, t) => NearOrPending(p, t)'
      BY <1>1, <3>2 DEF NearOrPending, WaitsKept
    <3>6. ASSUME t \in m_viewList'[p], p \in m_viewList'[t]
          PROVE  NearOrPending(p, t)
      <4>1. CASE p = o
        BY <1>2, <2>1, <3>1, <3>3, <3>6, <4>1 DEF NearOf
      <4>2. CASE t = o
        <5>1. NearOrPending(t, p)
          BY <1>2, <2>1, <3>1, <3>3, <3>6, <4>2 DEF NearOf
        <5>2. QED
          BY <5>1, NearSame
      <4>3. QED
        BY <2>6, <4>1, <4>2
    <3>7. QED
      BY <3>4, <3>5, <3>6 DEF NearOf
  <2>7. pc[z] # "idle" \/ MovePlayer(z) \/ MovePlayerInvalid(z)
    BY DEF ZoneStep, MoveErase, MoveInsert, MoveIndex, Look, VisitSector, VisitTarget,
       SendLeaves, SetViewList, Goto
  <2>8. QED
    BY <2>2, <2>3, <2>4, <2>5, <2>6, <2>7
<1>5. QED
  BY <1>4 DEF ViewsNear

\* After a step of the room its job still runs, or its player is out.
LEMMA RoomAfter ==
    ASSUME TypeOK, LInv, RoomStep
    PROVE  \A o : o = Owner(room) => Runs(room, o)' \/ o \notin m_players'
<1> SUFFICES ASSUME NEW o, o = Owner(room) PROVE Runs(room, o)' \/ o \notin m_players'
  OBVIOUS
<1>0. room \in Queues /\ pc \in [Queues -> ZonePCs \cup RoomPCs]
  BY Indices DEF TypeOK
<1>1. CASE Logout
  <2>1. UNCHANGED jobs /\ pc'[room] = "logout_map"
    BY <1>0, <1>1 DEF Logout, Goto
  <2>2. QED
    BY <2>1 DEF Runs, Owner
<1>2. CASE LogoutMap
  <2>1. UNCHANGED jobs /\ pc'[room] = "logout_state"
    BY <1>0, <1>2 DEF LogoutMap, Goto
  <2>2. QED
    BY <2>1 DEF Runs, Owner
<1>3. CASE LogoutState
  BY <1>3 DEF LogoutState, Goto, LInv, LogoutErased, roomVars
<1>4. QED
  BY <1>1, <1>2, <1>3 DEF RoomStep

LEMMA RoomNear ==
    ASSUME TypeOK, LInv, BInv, BInv', ViewsNear, RoomStep
    PROVE  ViewsNear'
<1>1. /\ UNCHANGED <<sectorIdx, pos, m_viewList, session, to, newViewList, targets, known>>
      /\ overlapped \subseteq overlapped'
      /\ jobs[room] # <<>> /\ Owner(room) \in Players
      /\ OthersKept(Owner(room)) /\ \A t \in Players : NoNewJob(t)
      /\ \A z \in Zones : pc'[z] = pc[z]
      /\ m_players' \subseteq m_players
  BY RoomEffect
<1>2. /\ Beside /\ Beside' /\ Zones \subseteq Queues /\ room \in Queues /\ room \notin Zones
  BY Indices DEF BInv
<1>3. PICK o \in Players : o = Owner(room) /\ (Runs(room, o)' \/ o \notin m_players')
  BY <1>1, RoomAfter
<1>4. ASSUME NEW p \in Players, NEW t \in Players PROVE NearOf(p, t)'
  <2>1. CASE o \notin {p, t}
    <3>1. RunsKept(p) /\ WaitsKept(p) /\ RunsKept(t) /\ WaitsKept(t)
      BY <1>1, <1>3, <2>1 DEF OthersKept
    <3>2. NearOrPending(p, t) => NearOrPending(p, t)'
      BY <1>1, <3>1 DEF NearOrPending, WaitsKept
    <3>3. QED
      BY <1>1, <1>2, <3>1, <3>2, NearKept DEF ViewsNear
  <2>2. CASE o \in {p, t}
    <3> SUFFICES ASSUME Apart(p, t)', Runs(room, o)' PROVE NearOf(p, t)'
      BY <1>3, <2>2 DEF NearOf
    <3>1. \A z \in Zones : ~Runs(z, p)'
      BY <1>2, <2>2, PairAlone
    <3>2. ~Free(p)' \/ ~Free(t)'
      BY <1>2, <2>2 DEF Free
    <3>3. QED
      BY <3>1, <3>2 DEF NearOf
  <2>3. QED
    BY <2>1, <2>2
<1>5. QED
  BY <1>4 DEF ViewsNear
-----------------------------------------------------------------------------
\* One of the two clients has been told of the other player.
Know(p, t) == t \in known[p] \/ p \in known[t]

\* Then one of the two has the other in its view list, or is about to; once the
\* job of p has told whom to forget, only its new view list counts.
KnownOf(p, t) == Apart(p, t) /\ p \in m_players /\ t \in m_players /\ Know(p, t) =>
    /\ Free(p) /\ Free(t) => t \in m_viewList[p] \/ p \in m_viewList[t]
    /\ \A z \in Zones : Runs(z, p) =>
          \/ t \in newViewList[z] \/ p \in m_viewList[t]
          \/ pc[z] # "set_view" /\ t \in m_viewList[p]

KnownInView == \A p, t \in Players : KnownOf(p, t)

\* A pair that a step does not make known to each other.
LEMMA KnownKept ==
    ASSUME NEW p \in Players, NEW t \in Players, KnownOf(p, t),
           RunsKept(p), RunsKept(t), overlapped \subseteq overlapped',
           m_viewList'[p] = m_viewList[p], m_viewList'[t] = m_viewList[t],
           p \in m_players' => p \in m_players, t \in m_players' => t \in m_players,
           Know(p, t)' => Know(p, t),
           \A z \in Zones : Runs(z, p) => /\ newViewList[z] \subseteq newViewList'[z]
                                          /\ pc'[z] = "set_view" => pc[z] = "set_view"
    PROVE  KnownOf(p, t)'
<1> SUFFICES ASSUME Apart(p, t)', p \in m_players', t \in m_players', Know(p, t)'
             PROVE  KnownOf(p, t)'
  BY DEF KnownOf
<1>1. /\ Apart(p, t) /\ p \in m_players /\ t \in m_players /\ Know(p, t)
      /\ \A q \in Queues : (Runs(q, p)' <=> Runs(q, p)) /\ (Runs(q, t)' <=> Runs(q, t))
      /\ (Free(p)' <=> Free(p)) /\ (Free(t)' <=> Free(t))
      /\ Zones \subseteq Queues
  BY ApartSame, Indices DEF RunsKept, Free
<1>2. Free(p)' /\ Free(t)' => t \in m_viewList'[p] \/ p \in m_viewList'[t]
  BY <1>1 DEF KnownOf
<1>3. ASSUME NEW z \in Zones, Runs(z, p)'
      PROVE  \/ t \in newViewList'[z] \/ p \in m_viewList'[t]
             \/ pc'[z] # "set_view" /\ t \in m_viewList'[p]
  BY <1>1, <1>3 DEF KnownOf
<1>4. QED
  BY <1>2, <1>3 DEF KnownOf

LEMMA HandlerKnown ==
    ASSUME TypeOK, BInv, BInv', KnownInView, NEW o \in Players, Handler(o)
    PROVE  KnownInView'
<1> USE DEF roomVars, sessionVars, jobVars, localVars
<1>1. /\ OthersKept(o) /\ RunsKept(o) /\ WaitsKept(o)
      /\ UNCHANGED <<pc, overlapped, to, newViewList, view, targets, m_viewList, known>>
  BY HandlerEffect
<1>2. \A t \in Players : RunsKept(t)
  BY <1>1 DEF OthersKept
<1>3. \A t \in Players : t \in m_players' => t \in m_players \/ session'[t] \in Connecting
  <2>1. CASE LoginMap(o)
    BY <2>1 DEF LoginMap, Serve, TypeOK, Connecting, LoginPCs
  <2>2. CASE ~LoginMap(o)
    BY <2>2 DEF Handler, LoginStep, LoginInsert, LoginState, Handle_C2S_MOVE, Handle_LOGOUT,
       OnDisconnected, ReleasePlayer, HandleLatePacket
  <2>3. QED
    BY <2>1, <2>2
<1>4. ASSUME NEW p \in Players, NEW t \in Players
      PROVE  KnownOf(p, t)'
  <2>1. CASE session'[p] \in Connecting \/ session'[t] \in Connecting
    <3>1. ~Know(p, t)'
      BY <2>1 DEF BInv, Newcomers, Newcomer, Know
    <3>2. QED
      BY <3>1 DEF KnownOf
  <2>2. CASE session'[p] \notin Connecting /\ session'[t] \notin Connecting
    <3>1. Know(p, t)' => Know(p, t)
      BY <1>1 DEF Know
    <3>2. QED
      BY <1>1, <1>2, <1>3, <2>2, <3>1, KnownKept DEF KnownInView
  <2>3. QED
    BY <2>1, <2>2
<1>5. QED
  BY <1>4 DEF KnownInView

LEMMA ZoneKnown ==
    ASSUME TypeOK, LInv, BInv, BInv', KnownInView, NEW z \in Zones, ZoneStep(z)
    PROVE  KnownInView'
<1> USE DEF roomVars, sessionVars, jobVars, localVars
<1>1. /\ UNCHANGED <<m_players, pos, session, m_playerState>>
      /\ overlapped \subseteq overlapped'
      /\ jobs[z] # <<>> /\ Owner(z) \in Players
      /\ OthersKept(Owner(z)) /\ \A t \in Players : NoNewJob(t)
      /\ \A q \in Queues \ {z} : pc'[q] = pc[q] /\ jobs'[q] = jobs[q]
      /\ \A y \in Zones \ {z} : /\ to'[y] = to[y] /\ newViewList'[y] = newViewList[y]
                                /\ targets'[y] = targets[y]
  BY ZoneEffect
<1>2. /\ Beside /\ LocalsFit /\ Beside' /\ LocalsFit' /\ NobodyKnowsItself'
      /\ z \in Queues /\ Zones \subseteq Queues /\ room \in Queues /\ room # z
      /\ pc \in [Queues -> ZonePCs \cup RoomPCs]
      /\ m_viewList \in [Players -> SUBSET Players] /\ newViewList \in [Zones -> SUBSET Players]
      /\ known \in [Players -> SUBSET Players]
  BY Indices DEF BInv, TypeOK
<1>3. PICK o \in Players : o = Owner(z)
  BY <1>1
<1>4. ASSUME NEW p \in Players, NEW t \in Players PROVE KnownOf(p, t)'
  <2>1. KnownOf(p, t) /\ KnownOf(t, p)
    BY DEF KnownInView
  <2>2. CASE o \notin {p, t}
    <3>1. /\ RunsKept(p) /\ m_viewList'[p] = m_viewList[p]
          /\ RunsKept(t) /\ m_viewList'[t] = m_viewList[t]
      BY <1>1, <1>3, <2>2 DEF OthersKept
    <3>2. \A y \in Zones : Runs(y, p) => newViewList'[y] = newViewList[y] /\ pc'[y] = pc[y]
      BY <1>1, <1>2, <1>3, <2>2 DEF Runs
    <3>3. Know(p, t)' => Know(p, t)
      <4>1. CASE VisitTarget(z)
        BY <1>3, <2>2, <4>1, Visit DEF Know
      <4>2. CASE ~VisitTarget(z)
        BY <4>2, NoVisit DEF Know
      <4>3. QED
        BY <4>1, <4>2
    <3>4. QED
      BY <1>1, <2>1, <3>1, <3>2, <3>3, KnownKept
  <2>3. CASE o \in {p, t} /\ MovePlayer(z)
    <3> SUFFICES ASSUME Apart(p, t)', p \in m_players', t \in m_players', Know(p, t)'
                 PROVE  KnownOf(p, t)'
      BY DEF KnownOf
    <3>1. /\ pc[z] = "idle" /\ UNCHANGED <<jobs, newViewList, m_viewList, known>>
          /\ \E label \in {"look", "erase"} : pc' = [pc EXCEPT ![z] = label]
      BY <2>3 DEF MovePlayer, Goto
    <3>2. Runs(z, o)' /\ pc'[z] # "set_view"
      BY <1>2, <1>3, <3>1 DEF Runs, Owner
    <3>3. \A y \in Queues : Runs(y, p)' => y = z
      BY <1>2, <2>3, <3>2, PairAlone
    <3>4. \A y \in Queues : Runs(y, t)' => y = z
      BY <1>2, <2>3, <3>2, PairAlone, ApartSame
    <3>5. \A q \in Queues : \A u : Runs(q, u) => q # z /\ Runs(q, u)'
      BY <1>1, <3>1 DEF Runs, Owner
    <3>6. Free(p) /\ Free(t)
      BY <3>3, <3>4, <3>5 DEF Free
    <3>7. Know(p, t) /\ Apart(p, t)
      BY <1>1, <3>1, ApartSame DEF Know
    <3>8. t \in m_viewList[p] \/ p \in m_viewList[t]
      BY <1>1, <2>1, <3>6, <3>7 DEF KnownOf
    <3>9. ~Free(p)' \/ ~Free(t)'
      BY <1>2, <2>3, <3>2 DEF Free
    <3>10. QED
      BY <1>2, <3>1, <3>2, <3>3, <3>8, <3>9 DEF KnownOf
  <2>4. CASE o \in {p, t} /\ MovePlayerInvalid(z)
    <3>1. /\ pc[z] = "idle" /\ EndJob(z) /\ UNCHANGED <<pc, newViewList, m_viewList, known>>
      BY <2>4 DEF MovePlayerInvalid
    <3>2. \A u \in Players : RunsKept(u)
      BY <1>1, <1>2, <1>3, <3>1, Dropped
    <3>3. Know(p, t)' => Know(p, t)
      BY <3>1 DEF Know
    <3>4. QED
      BY <1>1, <2>1, <3>1, <3>2, <3>3, KnownKept
  <2>5. CASE MoveErase(z) \/ MoveInsert(z) \/ MoveIndex(z) \/ Look(z) \/ VisitSector(z)
    <3>1. /\ pc[z] # "idle" /\ UNCHANGED <<jobs, newViewList, m_viewList, known>>
          /\ \/ pc' = pc
             \/ \E l \in {"insert", "index", "visit", "targets"} : pc' = [pc EXCEPT ![z] = l]
      BY <2>5 DEF MoveErase, MoveInsert, MoveIndex, Look, VisitSector, Goto
    <3>2. \A u \in Players : RunsKept(u)
      BY <1>2, <3>1, SameJobs, Goes
    <3>3. Know(p, t)' => Know(p, t)
      BY <3>1 DEF Know
    <3>4. \A y \in Zones : pc'[y] = "set_view" => pc[y] = "set_view"
      BY <1>2, <3>1
    <3>5. QED
      BY <1>1, <2>1, <3>1, <3>2, <3>3, <3>4, KnownKept
  <2>6. ASSUME o \in {p, t}, pc[z] \notin {"idle", "set_view"}, UNCHANGED <<jobs, m_viewList>>,
               NEW label, label # "idle", pc' = [pc EXCEPT ![z] = label],
               p = o => \/ ~Know(p, t)' \/ t \in newViewList'[z]
                        \/ /\ label # "set_view" /\ Know(p, t)
                           /\ newViewList[z] \subseteq newViewList'[z]
                        \/ /\ Know(p, t) /\ t \notin m_viewList[p]
                           /\ newViewList[z] \subseteq newViewList'[z]
        PROVE  KnownOf(p, t)'
    <3> SUFFICES ASSUME Apart(p, t)', p \in m_players', t \in m_players', Know(p, t)'
                 PROVE  KnownOf(p, t)'
      BY DEF KnownOf
    <3>1. Runs(z, o) /\ Runs(z, o)' /\ Apart(p, t)
      BY <1>1, <1>2, <1>3, <2>6, ApartSame DEF Runs, Owner
    <3>2. \A y \in Queues : Runs(y, p)' => y = z /\ p = o
      BY <1>2, <2>6, <3>1, PairAlone
    <3>3. ~Free(p)' \/ ~Free(t)'
      BY <1>2, <2>6, <3>1 DEF Free
    <3>4. ASSUME p = o
          PROVE  \/ t \in newViewList'[z] \/ p \in m_viewList'[t]
                 \/ pc'[z] # "set_view" /\ t \in m_viewList'[p]
      <4>1. Know(p, t) => t \in newViewList[z] \/ p \in m_viewList[t] \/ t \in m_viewList[p]
        BY <1>1, <2>1, <3>1, <3>4 DEF KnownOf
      <4>2. pc'[z] = label
        BY <1>2, <2>6
      <4>3. QED
        BY <2>6, <3>4, <4>1, <4>2
    <3>5. QED
      BY <1>2, <3>2, <3>3, <3>4 DEF KnownOf
  <2>7. CASE o \in {p, t} /\ VisitTarget(z)
    <3>1. PICK label \in {"visit", "targets"} : Goto(z, "targets", label)
      BY <2>7 DEF VisitTarget
    <3>2. /\ pc[z] = "targets" /\ pc' = [pc EXCEPT ![z] = label] /\ UNCHANGED <<jobs, m_viewList>>
      BY <2>7, <3>1, Visit DEF Goto
    <3>3. ASSUME p = o, Know(p, t)'
          PROVE  \/ t \in newViewList'[z]
                 \/ Know(p, t) /\ newViewList[z] \subseteq newViewList'[z]
      <4>1. PICK x \in targets[z] :
              /\ newViewList'[z] = IF Sees(z, x) THEN newViewList[z] \cup {x} ELSE newViewList[z]
              /\ \A c \in Players : \A u :
                    u \in known'[c] => \/ u \in known[c]
                                       \/ Sees(z, x) /\ c = x /\ u = Owner(z)
                                       \/ Sees(z, x) /\ c = Owner(z) /\ u = x
        BY <2>7, Visit
      <4>2. p # t
        BY <1>2, <3>3 DEF NobodyKnowsItself, Know
      <4>3. Know(p, t) \/ (Sees(z, x) /\ x = t)
        BY <1>3, <3>3, <4>1, <4>2 DEF Know
      <4>4. QED
        BY <4>1, <4>3
    <3>4. QED
      BY <2>6, <2>7, <3>2, <3>3
  <2>8. CASE o \in {p, t} /\ SendLeaves(z)
    <3>1. /\ pc[z] = "visit" /\ pc' = [pc EXCEPT ![z] = "set_view"]
          /\ UNCHANGED <<jobs, m_viewList, newViewList>>
          /\ known' = [c \in Players |-> known[c] \ Forgets(c, o, m_viewList[o] \ newViewList[z])]
      BY <1>3, <2>8 DEF SendLeaves, Goto
    <3>2. ASSUME p = o, Know(p, t)', t \in m_players, t \notin newViewList[z]
          PROVE  Know(p, t) /\ t \notin m_viewList[p]
      <4> DEFINE gone == m_viewList[o] \ newViewList[z]
      <4>1. /\ known'[p] = known[p] \ Forgets(p, o, gone)
            /\ known'[t] = known[t] \ Forgets(t, o, gone)
        BY <3>1
      <4>2. p # t
        BY <1>2, <3>2 DEF NobodyKnowsItself, Know
      <4>3. Forgets(p, o, gone) = gone
        BY <3>2 DEF Forgets
      <4>4. t \in gone => Forgets(t, o, gone) = {o}
        BY <3>2, <4>2 DEF Forgets
      <4>5. Know(p, t) /\ t \notin gone
        BY <3>2, <4>1, <4>3, <4>4 DEF Know
      <4>6. QED
        BY <3>2, <4>5
    <3>3. CASE t \in m_players
      BY <2>6, <2>8, <3>1, <3>2, <3>3
    <3>4. CASE t \notin m_players
      BY <1>1, <3>4 DEF KnownOf
    <3>5. QED
      BY <3>3, <3>4
  <2>9. CASE o \in {p, t} /\ SetViewList(z)
    <3> SUFFICES ASSUME Apart(p, t)', p \in m_players, t \in m_players, Know(p, t)'
                 PROVE  KnownOf(p, t)'
      BY <1>1 DEF KnownOf
    <3>1. /\ pc[z] = "set_view" /\ EndJob(z) /\ pc' = [pc EXCEPT ![z] = "idle"]
          /\ m_viewList' = [m_viewList EXCEPT ![o] = newViewList[z]] /\ UNCHANGED known
      BY <1>3, <2>9 DEF SetViewList, SendMoveResult, Goto
    <3>2. \A u : \A q \in Queues : Runs(q, u)' => Runs(q, u) /\ q # z
      BY <1>2, <3>1, Ended
    <3>3. Runs(z, o) /\ Apart(p, t) /\ Apart(t, p) /\ Know(p, t) /\ Know(t, p)
      BY <1>1, <1>3, <3>1, ApartSame DEF Runs, Know
    <3>4. \A y \in Zones : ~Runs(y, p)'
      BY <1>2, <2>9, <3>2, <3>3, PairAlone
    <3>5. p # t
      BY <1>2 DEF NobodyKnowsItself, Know
    <3>6. t \in m_viewList'[p] \/ p \in m_viewList'[t]
      <4>1. CASE p = o
        <5>1. t \in newViewList[z] \/ p \in m_viewList[t]
          BY <2>1, <3>1, <3>3, <4>1 DEF KnownOf
        <5>2. QED
          BY <1>2, <3>1, <3>5, <4>1, <5>1
      <4>2. CASE t = o
        <5>1. p \in newViewList[z] \/ t \in m_viewList[p]
          BY <2>1, <3>1, <3>3, <4>2 DEF KnownOf
        <5>2. QED
          BY <1>2, <3>1, <3>5, <4>2, <5>1
      <4>3. QED
        BY <2>9, <4>1, <4>2
    <3>7. QED
      BY <3>4, <3>6 DEF KnownOf
  <2>10. QED
    BY <2>2, <2>3, <2>4, <2>5, <2>7, <2>8, <2>9 DEF ZoneStep
<1>5. QED
  BY <1>4 DEF KnownInView

LEMMA RoomKnown ==
    ASSUME TypeOK, LInv, BInv, BInv', KnownInView, RoomStep
    PROVE  KnownInView'
<1>1. /\ UNCHANGED <<sectorIdx, pos, m_viewList, session, to, newViewList, targets, known>>
      /\ overlapped \subseteq overlapped'
      /\ jobs[room] # <<>> /\ Owner(room) \in Players
      /\ OthersKept(Owner(room)) /\ \A t \in Players : NoNewJob(t)
      /\ \A z \in Zones : pc'[z] = pc[z]
      /\ m_players' \subseteq m_players
  BY RoomEffect
<1>2. /\ Beside /\ Beside' /\ Zones \subseteq Queues /\ room \in Queues /\ room \notin Zones
  BY Indices DEF BInv
<1>3. PICK o \in Players : o = Owner(room) /\ (Runs(room, o)' \/ o \notin m_players')
  BY <1>1, RoomAfter
<1>4. ASSUME NEW p \in Players, NEW t \in Players PROVE KnownOf(p, t)'
  <2>1. CASE o \notin {p, t}
    <3>1. RunsKept(p) /\ RunsKept(t)
      BY <1>1, <1>3, <2>1 DEF OthersKept
    <3>2. Know(p, t)' => Know(p, t)
      BY <1>1 DEF Know
    <3>3. QED
      BY <1>1, <3>1, <3>2, KnownKept DEF KnownInView
  <2>2. CASE o \in {p, t}
    <3> SUFFICES ASSUME Apart(p, t)', Runs(room, o)' PROVE KnownOf(p, t)'
      BY <1>3, <2>2 DEF KnownOf
    <3>1. \A z \in Zones : ~Runs(z, p)'
      BY <1>2, <2>2, PairAlone
    <3>2. ~Free(p)' \/ ~Free(t)'
      BY <1>2, <2>2 DEF Free
    <3>3. QED
      BY <3>1, <3>2 DEF KnownOf
  <2>3. QED
    BY <2>1, <2>2
<1>5. QED
  BY <1>4 DEF KnownInView
-----------------------------------------------------------------------------
WInv == LInv /\ BInv /\ SectorsFit /\ ViewsNear /\ KnownInView

LEMMA InitWInv == Init => WInv
<1> SUFFICES ASSUME Init PROVE WInv
  OBVIOUS
<1>1. LInv /\ BInv
  BY InitLInv, InitBInv
<1>2. /\ \A p \in Players : session[p] = "connected"
      /\ m_players = {}
  BY DEF Init
<1>3. SectorsFit
  BY <1>2 DEF SectorsFit, SectorOf, Connecting
<1>4. ViewsNear /\ KnownInView
  BY <1>2 DEF ViewsNear, NearOf, KnownInView, KnownOf
<1>5. QED
  BY <1>1, <1>3, <1>4 DEF WInv

LEMMA StepWInv == WInv /\ [Next]_vars => WInv'
<1> SUFFICES ASSUME WInv, [Next]_vars PROVE WInv'
  OBVIOUS
<1>1. LInv /\ BInv /\ SectorsFit /\ ViewsNear /\ KnownInView /\ TypeOK
  BY DEF WInv, LInv
<1>2. LInv' /\ TypeOK'
  BY <1>1, StepLInv DEF LInv
<1>3. CASE UNCHANGED vars
  <2>1. UNCHANGED <<m_players, sector, m_playerState, sectorIdx, pos, m_viewList, session, jobs,
                    pc, to, newViewList, targets, known, overlapped>>
    BY <1>3 DEF vars, roomVars, sessionVars, jobVars, localVars
  <2>2. BInv'
    BY <1>1, <2>1 DEF BInv, Beside, LocalsFit, Newcomers, Newcomer, NobodyKnowsItself, Runs,
       Owner, HasJob, In
  <2>3. SectorsFit'
    BY <1>1, <2>1 DEF SectorsFit, SectorOf, Free, Runs, Owner, In, UpToDate, Held, Pending,
       Waits, IsValidPlayer
  <2>4. ViewsNear'
    <3>1. \A p \in Players : RunsKept(p) /\ WaitsKept(p)
      BY <1>1, <2>1, SameJobs
    <3>2. \A p, t \in Players : NearOrPending(p, t) => NearOrPending(p, t)'
      BY <2>1, <3>1 DEF NearOrPending, WaitsKept
    <3>3. \A p, t \in Players : NearOf(p, t)'
      BY <1>1, <2>1, <3>1, <3>2, NearKept DEF ViewsNear, BInv
    <3>4. QED
      BY <3>3 DEF ViewsNear
  <2>5. KnownInView'
    BY <1>1, <2>1 DEF KnownInView, KnownOf, Know, Apart, Free, Runs, Owner
  <2>6. QED
    BY <1>2, <2>2, <2>3, <2>4, <2>5 DEF WInv
<1>4. ASSUME NEW p \in Players, Handler(p) PROVE WInv'
  <2>1. BInv'
    BY <1>1, <1>4, HandlerBInv
  <2>2. QED
    BY <1>1, <1>2, <1>4, <2>1, HandlerSectors, HandlerNear, HandlerKnown DEF WInv
<1>5. ASSUME NEW z \in Zones, ZoneStep(z) PROVE WInv'
  <2>1. BInv'
    BY <1>1, <1>5, ZoneBInv
  <2>2. QED
    BY <1>1, <1>2, <1>5, <2>1, ZoneSectors, ZoneNear, ZoneKnown DEF WInv
<1>6. CASE RoomStep
  <2>1. BInv'
    BY <1>1, <1>6, RoomBInv
  <2>2. QED
    BY <1>1, <1>2, <1>6, <2>1, RoomSectors, RoomNear, RoomKnown DEF WInv
<1>7. QED
  BY <1>3, <1>4, <1>5, <1>6 DEF Next

\* Nothing of a settled player runs or waits.
LEMMA SettledFree ==
    ASSUME TypeOK, NEW p \in Players, Settled(p)
    PROVE  Free(p) /\ ~Pending(p) /\ session[p] \in {"connected", "playing", "ended"}
<1>1. \A q \in Queues : ~HasJob(q, p)
  BY DEF Settled, HasJob
<1>2. \A q \in Queues : ~Runs(q, p) /\ ~Waits(q, p)
  BY <1>1, RunsOwnJob DEF Waits, HasJob
<1>3. QED
  BY <1>2 DEF Free, Pending, Settled

\* The sectors hold each player whose jobs are done in the one it stands in,
\* if it never had two jobs at the same time, whatever ran beside them.
THEOREM SectorsAlwaysHoldSerialPlayers == Spec => []SectorsHoldSerialPlayers
<1>1. WInv => SectorsHoldSerialPlayers
  <2> SUFFICES ASSUME WInv, NEW p \in Players, Settled(p), {p} \notin overlapped
               PROVE  In(p) = IF p \in m_players THEN {GetPlayerSectorIdx(pos[p])} ELSE {}
    BY DEF SectorsHoldSerialPlayers, SectorIsRight, In
  <2>1. TypeOK /\ Lifecycle /\ Newcomer(p) /\ SectorOf(p)
    BY DEF WInv, LInv, BInv, Newcomers, SectorsFit
  <2>2. Free(p) /\ ~Pending(p) /\ session[p] \in {"connected", "playing", "ended"}
    BY <2>1, SettledFree
  <2>3. CASE session[p] = "connected"
    BY <2>1, <2>3 DEF Newcomer, Connecting, Lifecycle
  <2>4. CASE session[p] # "connected"
    <3>1. session[p] \notin Connecting
      BY <2>2, <2>4 DEF Connecting, LoginPCs
    <3>2. QED
      BY <2>1, <2>2, <3>1 DEF SectorOf, UpToDate
  <2>5. QED
    BY <2>3, <2>4
<1>2. QED
  BY <1>1, InitWInv, StepWInv, PTL DEF Spec

\* Players who have each other in their view lists are near each other, once
\* the jobs of both are done, if those never ran side by side.
THEOREM MutualViewsAreNear == Spec => []MutualViewIsNear
<1>1. WInv => MutualViewIsNear
  <2> SUFFICES ASSUME WInv, NEW p \in m_players, NEW t \in m_players,
                      t \in m_viewList[p], p \in m_viewList[t], Settled(p), Settled(t),
                      {{p, t}, {p}, {t}} \cap overlapped = {}
               PROVE  IsNear(pos[p], pos[t])
    BY DEF MutualViewIsNear
  <2>1. TypeOK /\ p \in Players /\ t \in Players
    BY DEF WInv, LInv, TypeOK
  <2>2. NearOf(p, t)
    BY <2>1 DEF WInv, ViewsNear
  <2>3. Free(p) /\ ~Pending(p) /\ Free(t) /\ ~Pending(t)
    BY <2>1, SettledFree
  <2>4. QED
    BY <2>2, <2>3 DEF NearOf, Apart, NearOrPending
<1>2. QED
  BY <1>1, InitWInv, StepWInv, PTL DEF Spec

\* No avatar is left behind: whom a client was told of and not told to forget
\* is in its player's view list or has that player in its own, once the jobs of
\* both are done, if those never ran side by side.
THEOREM KnownAlwaysSeen == Spec => []KnownIsSeen
<1>1. WInv => KnownIsSeen
  <2> SUFFICES ASSUME WInv, NEW p \in m_players, NEW t \in m_players,
                      t \in known[p], Settled(p), Settled(t),
                      {{p, t}, {p}, {t}} \cap overlapped = {}
               PROVE  t \in m_viewList[p] \/ p \in m_viewList[t]
    BY DEF KnownIsSeen
  <2>1. TypeOK /\ p \in Players /\ t \in Players
    BY DEF WInv, LInv, TypeOK
  <2>2. KnownOf(p, t)
    BY <2>1 DEF WInv, KnownInView
  <2>3. Free(p) /\ Free(t)
    BY <2>1, SettledFree
  <2>4. QED
    BY <2>2, <2>3 DEF KnownOf, Apart, Know
<1>2. QED
  BY <1>1, InitWInv, StepWInv, PTL DEF Spec
=============================================================================
