-------------------------- MODULE MatchmakerProofs --------------------------
(***************************************************************************)
(* Theorems about the room service, for any number of rooms, endpoints and *)
(* requests in flight.                                                     *)
(***************************************************************************)
EXTENDS MatchmakingClient, FiniteSetTheorems, TLAPS

Inv ==
  /\ TypeOK
  /\ TokensExclusive
  /\ \A c \in Codes : InStep(c)

-----------------------------------------------------------------------------
(* What a reap does to one room                                            *)

\* A failed room and no room are rooms as far as types go.
LEMMA RoomTypes ==
  /\ \A r \in Room : FailedRoom(r) \in Room
  /\ \A s \in RoomStates : NoRoom(s) \in Room
  /\ WaitingRoom \in Room
BY MatchmakerAssumption
   DEF FailedRoom, NoRoom, WaitingRoom, Room, RoomStates, TicketStates,
       Endpoints, NoEndpoint

\* A reap leaves a room alone, fails it because its process is over, or
\* removes it; and a room that loses its child loses a process that is over
\* or killed.
LEMMA ReapRoom ==
  ASSUME Inv, NEW refused \in Refusals, NEW c \in Codes
  PROVE  LET r == Reaped(refused)[c] IN
         /\ r \in Room
         /\ r.child => r = rooms[c]
         /\ \/ r = rooms[c]
            \/ r = FailedRoom(rooms[c]) /\ rooms[c].child
            \/ r = NoRoom("Gone") /\ Present(c)
         /\ c \in KilledByReap(refused) => rooms[c].child /\ ~r.child
         /\ rooms[c].child /\ ~r.child
              => process[c] = "exited" \/ c \in KilledByReap(refused)
<1> DEFINE r == Reaped(refused)[c]
<1>1. rooms[c] \in Room /\ InStep(c)
  BY DEF Inv, TypeOK
<1>2. rooms[c].child => c \in Children /\ rooms[c].state = "Ready"
  BY <1>1 DEF InStep, Children, Present, TicketStates
<1>3. c \in Children => rooms[c].child
  BY DEF Children
<1>4. \/ ~ChildOver(c, refused) /\ Inspected(c, refused) = rooms[c]
      \/ /\ ChildOver(c, refused)
         /\ rooms[c].child
         /\ Inspected(c, refused) = FailedRoom(rooms[c])
  BY <1>2, <1>3 DEF Inspected, ChildOver
<1>5. refused \subseteq Children
  BY DEF Refusals
<1>6. FailedRoom(rooms[c]) \in Room /\ ~FailedRoom(rooms[c]).child
  BY <1>1, RoomTypes DEF FailedRoom, Room
<1>7. NoRoom("Gone") \in Room /\ ~NoRoom("Gone").child
  BY RoomTypes DEF NoRoom, RoomStates
<1>8. CASE c \in Expired(refused)
  <2>1. r = NoRoom("Gone") /\ Present(c)
    BY <1>8 DEF Reaped, Expired
  <2>2. rooms[c].child => process[c] = "exited" \/ c \in KilledByReap(refused)
    BY <1>4, <1>8 DEF KilledByReap, ChildOver
  <2>3. c \in KilledByReap(refused) => rooms[c].child
    BY <1>3, <1>4, <1>5 DEF KilledByReap
  <2> QED
    BY <1>7, <2>1, <2>2, <2>3
<1>9. CASE c \notin Expired(refused)
  <2>1. r = Inspected(c, refused)
    BY <1>9 DEF Reaped
  <2>2. c \in KilledByReap(refused) <=> c \in refused
    BY <1>9 DEF KilledByReap
  <2>3. CASE ~ChildOver(c, refused)
    <3>1. c \notin refused
      BY <1>5, <2>3 DEF ChildOver
    <3> QED
      BY <1>1, <1>4, <2>1, <2>2, <2>3, <3>1
  <2>4. CASE ChildOver(c, refused)
    <3>1. r = FailedRoom(rooms[c]) /\ rooms[c].child
      BY <1>4, <2>1, <2>4
    <3>2. process[c] = "exited" \/ c \in refused
      BY <2>4 DEF ChildOver
    <3> QED
      BY <1>6, <2>2, <3>1, <3>2
  <2> QED
    BY <2>3, <2>4
<1> QED
  BY <1>8, <1>9

\* A room that failed or is gone holds no tokens; so tokens stay exclusive
\* when rooms are only reaped.
LEMMA ReapTokens ==
  ASSUME Inv, NEW refused \in Refusals
  PROVE  /\ \A c \in Codes : Reaped(refused)[c].tokens
              => rooms[c].tokens /\ Reaped(refused)[c] = rooms[c]
         /\ \A c \in Codes : Reaped(refused)[c].tokens
              => Active(Reaped(refused)[c])
<1> SUFFICES ASSUME NEW c \in Codes, Reaped(refused)[c].tokens
             PROVE  /\ rooms[c].tokens /\ Reaped(refused)[c] = rooms[c]
                    /\ Active(Reaped(refused)[c])
  OBVIOUS
<1>1. rooms[c] \in Room
  BY DEF Inv, TypeOK
<1>2. ~FailedRoom(rooms[c]).tokens /\ ~NoRoom("Gone").tokens
  BY <1>1 DEF FailedRoom, NoRoom, Room
<1>3. Reaped(refused)[c] = rooms[c]
  BY <1>2, ReapRoom
<1> QED
  BY <1>3 DEF Inv, TypeOK

\* The process of a room after the processes in S were killed.
LEMMA KilledType ==
  ASSUME Inv, NEW S, NEW c \in Codes
  PROVE  /\ Killed(S) \in [Codes -> {"none", "running", "exited"}]
         /\ Killed(S)[c] = IF c \in S THEN "exited" ELSE process[c]
BY DEF Inv, TypeOK, Killed

\* A room stays in step through a reap that its join call and the phase of
\* the service do not notice.
LEMMA ReapInStep ==
  ASSUME Inv, NEW refused \in Refusals, NEW c \in Codes,
         rooms'[c] = Reaped(refused)[c],
         process' = Killed(KilledByReap(refused)),
         handler'[c] = handler[c], phase' = phase
  PROVE  InStep(c)'
<1>1. rooms[c] \in Room /\ InStep(c)
  BY DEF Inv, TypeOK
<1>2. process'[c] = IF c \in KilledByReap(refused) THEN "exited" ELSE process[c]
  BY KilledType
<1>3. CASE rooms'[c] = rooms[c]
  <2>1. c \notin KilledByReap(refused)
    BY <1>3, ReapRoom
  <2> QED
    BY <1>1, <1>2, <1>3, <2>1 DEF InStep, Present, Idle
<1>4. CASE rooms'[c] = FailedRoom(rooms[c]) /\ rooms[c].child
  <2>1. /\ ~rooms'[c].child
        /\ rooms'[c].state = "Failed"
        /\ rooms'[c].endpoint = rooms[c].endpoint
    BY <1>1, <1>4 DEF FailedRoom, Room
  <2>2. process'[c] = "exited"
    BY <1>2, <1>4, <2>1, ReapRoom
  <2>3. Present(c)
    BY <1>1, <1>4 DEF InStep, Present, TicketStates
  <2> QED
    BY <1>1, <1>4, <2>1, <2>2, <2>3 DEF InStep, Present, Idle
<1>5. CASE rooms'[c] = NoRoom("Gone") /\ Present(c)
  <2>1. ~rooms'[c].child /\ rooms'[c].state = "Gone"
    BY <1>5 DEF NoRoom
  <2>2. rooms[c].child => process'[c] = "exited"
    BY <1>2, <1>5, <2>1, ReapRoom
  <2>3. ~rooms[c].child => process'[c] = process[c]
    BY <1>2, ReapRoom
  <2> QED
    BY <1>1, <1>5, <2>1, <2>2, <2>3 DEF InStep, Present, Idle, TicketStates
<1> QED
  BY <1>3, <1>4, <1>5, ReapRoom

-----------------------------------------------------------------------------
(* The initial state and the requests                                      *)

\* A service without rooms.
LEMMA InitInv == Init => Inv
BY MatchmakerAssumption
   DEF Init, Inv, TypeOK, TokensExclusive, InStep, NoRoom, Room, RoomStates,
       TicketStates, HandlerStates, Active, NoEndpoint, Endpoints, Present

\* A step that reaps the rooms and does nothing else.
LEMMA ReapInv ==
  ASSUME Inv, NEW refused \in Refusals, Reap(refused), UNCHANGED phase,
         handler' \in [Codes -> HandlerStates],
         \A c \in Codes :
           \/ handler'[c] = handler[c]
           \/ handler[c] = "answering" /\ handler'[c] = "done"
  PROVE  Inv'
<1>1. rooms' = Reaped(refused) /\ process' = Killed(KilledByReap(refused))
  BY DEF Reap
<1>2. \A c \in Codes : Reaped(refused)[c] \in Room
  BY ReapRoom
<1>3. Reaped(refused) \in [Codes -> Room]
  BY <1>2 DEF Reaped
<1>4. TypeOK'
  BY <1>1, <1>3, ReapTokens, KilledType DEF Inv, TypeOK, Killed
<1>5. TokensExclusive'
  BY <1>1, ReapTokens DEF Inv, TokensExclusive
<1>6. ASSUME NEW c \in Codes
      PROVE  InStep(c)'
  <2>1. CASE handler'[c] = handler[c]
    BY <1>1, <2>1, ReapInStep
  <2>2. CASE handler[c] = "answering" /\ handler'[c] = "done"
    <3>1. rooms[c] \in Room /\ InStep(c)
      BY DEF Inv, TypeOK
    <3>2. process[c] \in {"none", "running", "exited"}
      BY DEF Inv, TypeOK
    <3>3. process'[c] = IF c \in KilledByReap(refused) THEN "exited"
                        ELSE process[c]
      BY <1>1, KilledType
    <3>4. phase # "stopped"
      BY <2>2, <3>1 DEF InStep, Idle
    <3>5. CASE rooms'[c] = rooms[c]
      <4>1. c \notin KilledByReap(refused)
        BY <1>1, <3>5, ReapRoom
      <4> QED
        BY <2>2, <3>1, <3>3, <3>4, <3>5, <4>1 DEF InStep, Present, Idle
    <3>6. CASE rooms'[c] = FailedRoom(rooms[c]) /\ rooms[c].child
      <4>1. /\ ~rooms'[c].child
            /\ rooms'[c].state = "Failed"
            /\ rooms'[c].endpoint = rooms[c].endpoint
        BY <3>1, <3>6 DEF FailedRoom, Room
      <4>2. process'[c] = "exited"
        BY <1>1, <3>3, <3>6, <4>1, ReapRoom
      <4> QED
        BY <2>2, <3>1, <3>4, <3>6, <4>1, <4>2 DEF InStep, Present, Idle
    <3>7. CASE rooms'[c] = NoRoom("Gone") /\ Present(c)
      <4>1. ~rooms'[c].child /\ rooms'[c].state = "Gone"
        BY <3>7 DEF NoRoom
      <4>2. rooms[c].child => process'[c] = "exited"
        BY <1>1, <3>3, <3>7, <4>1, ReapRoom
      <4>3. ~rooms[c].child => process'[c] = process[c]
        BY <3>3, ReapRoom
      <4> QED
        BY <2>2, <3>1, <3>4, <3>7, <4>1, <4>2, <4>3
           DEF InStep, Present, Idle, TicketStates
    <3> QED
      BY <1>1, <3>5, <3>6, <3>7, ReapRoom
  <2> QED
    BY <2>1, <2>2
<1> QED
  BY <1>4, <1>5, <1>6 DEF Inv

\* A new room.
LEMMA CreateInv ==
  ASSUME Inv, NEW c \in Codes, CreateRoom(c)
  PROVE  Inv'
<1>1. PICK refused \in Refusals :
         /\ rooms' = [Reaped(refused) EXCEPT ![c] = WaitingRoom]
         /\ process' = Killed(KilledByReap(refused))
  BY DEF CreateRoom
<1>2. /\ UNCHANGED <<handler, phase>>
      /\ phase = "serving"
      /\ rooms[c].state = "NotYet"
  BY DEF CreateRoom
<1>3. \A d \in Codes : Reaped(refused)[d] \in Room
  BY ReapRoom
<1>4. Reaped(refused) \in [Codes -> Room]
  BY <1>3 DEF Reaped
<1>5. /\ rooms' \in [Codes -> Room]
      /\ rooms'[c] = WaitingRoom
      /\ \A d \in Codes : d # c => rooms'[d] = Reaped(refused)[d]
  BY <1>1, <1>4, RoomTypes
<1>6. /\ WaitingRoom.state = "WaitingForOpponent"
      /\ ~WaitingRoom.child /\ ~WaitingRoom.tokens
  BY DEF WaitingRoom, NoRoom
<1>7. TypeOK'
  BY <1>1, <1>2, <1>5, <1>6, ReapTokens, KilledType
     DEF Inv, TypeOK, Killed
<1>8. TokensExclusive'
  BY <1>5, <1>6, ReapTokens DEF Inv, TokensExclusive
<1>9. ASSUME NEW d \in Codes, d # c
      PROVE  InStep(d)'
  BY <1>1, <1>2, <1>5, <1>9, ReapInStep
<1>10. InStep(c)'
  <2>1. InStep(c)
    BY DEF Inv
  <2>2. ~rooms[c].child
    BY <1>2, <2>1 DEF InStep
  <2>3. process'[c] = process[c]
    BY <1>1, <2>2, ReapRoom, KilledType
  <2> QED
    BY <1>2, <1>5, <1>6, <2>1, <2>3 DEF InStep
<1> QED
  BY <1>7, <1>8, <1>9, <1>10 DEF Inv

\* A join takes an endpoint no active room has; only active rooms hold
\* tokens, so the new tokens are for an endpoint no other tokens are for.
LEMMA ReserveInv ==
  ASSUME Inv, NEW c \in Codes, ReserveJoin(c)
  PROVE  Inv'
<1>1. PICK refused \in Refusals, e \in Endpoints :
         /\ Reaped(refused)[c].state = "WaitingForOpponent"
         /\ FirstFree(Reaped(refused), e)
         /\ rooms' = [Reaped(refused) EXCEPT
                        ![c] = [@ EXCEPT !.state = "StartingServer",
                                         !.endpoint = e,
                                         !.overdue = FALSE,
                                         !.tokens = TRUE]]
         /\ process' = Killed(KilledByReap(refused))
  BY DEF ReserveJoin
<1>2. /\ handler' = [handler EXCEPT ![c] = "spawning"]
      /\ phase' = phase /\ phase = "serving"
  BY DEF ReserveJoin
<1>3. \A d \in Codes : Reaped(refused)[d] \in Room
  BY ReapRoom
<1>4. Reaped(refused) \in [Codes -> Room]
  BY <1>3 DEF Reaped
<1>5. /\ rooms' \in [Codes -> Room]
      /\ rooms'[c] = [Reaped(refused)[c] EXCEPT !.state = "StartingServer",
                                                !.endpoint = e,
                                                !.overdue = FALSE,
                                                !.tokens = TRUE]
      /\ \A d \in Codes : d # c => rooms'[d] = Reaped(refused)[d]
  BY <1>1, <1>3, <1>4 DEF Room, RoomStates, TicketStates
<1>6. /\ rooms'[c].state = "StartingServer" /\ rooms'[c].endpoint = e
      /\ rooms'[c].child = Reaped(refused)[c].child
  BY <1>3, <1>5 DEF Room
<1>7. handler' \in [Codes -> HandlerStates]
      /\ handler'[c] = "spawning"
      /\ \A d \in Codes : d # c => handler'[d] = handler[d]
  BY <1>2 DEF Inv, TypeOK, HandlerStates
<1>8. TypeOK'
  BY <1>1, <1>2, <1>5, <1>6, <1>7, ReapTokens, KilledType
     DEF Inv, TypeOK, Killed, Active
<1>9. TokensExclusive'
  <2> SUFFICES ASSUME NEW a \in Codes, NEW b \in Codes, a # b,
                      rooms'[a].tokens, rooms'[b].tokens
               PROVE  rooms'[a].endpoint # rooms'[b].endpoint
    BY DEF TokensExclusive
  <2>1. ASSUME NEW d \in Codes, d # c, rooms'[d].tokens
        PROVE  rooms'[d].endpoint # e
    <3>1. rooms'[d] = Reaped(refused)[d] /\ Active(Reaped(refused)[d])
      BY <1>5, <2>1, ReapTokens
    <3> QED
      BY <1>1, <3>1 DEF FirstFree, UsedEndpoints
  <2>2. CASE a # c /\ b # c
    BY <1>5, <2>2, ReapTokens DEF Inv, TokensExclusive
  <2> QED
    BY <1>6, <2>1, <2>2
<1>10. ASSUME NEW d \in Codes, d # c
       PROVE  InStep(d)'
  BY <1>1, <1>2, <1>5, <1>7, <1>10, ReapInStep
<1>11. InStep(c)'
  <2>1. InStep(c)
    BY DEF Inv
  <2>2. Reaped(refused)[c] = rooms[c]
    <3>1. FailedRoom(rooms[c]).state = "Failed"
      BY DEF FailedRoom, Inv, TypeOK, Room
    <3>2. NoRoom("Gone").state = "Gone"
      BY DEF NoRoom
    <3> QED
      BY <1>1, <3>1, <3>2, ReapRoom
  <2>3. ~rooms[c].child /\ handler[c] = "none" /\ process[c] = "none"
    BY <1>1, <2>1, <2>2 DEF InStep
  <2>4. process'[c] = "none"
    BY <1>1, <2>3, ReapRoom, KilledType
  <2> QED
    BY <1>2, <1>6, <1>7, <2>2, <2>3, <2>4 DEF InStep
<1> QED
  BY <1>8, <1>9, <1>10, <1>11 DEF Inv

\* A step that concerns one room, its process and its join call, and hands
\* out no tokens.
LEMMA LocalInv ==
  ASSUME Inv, NEW c \in Codes, NEW r \in Room,
         r.tokens => /\ rooms[c].tokens /\ r.endpoint = rooms[c].endpoint
                     /\ Active(r),
         rooms' = [rooms EXCEPT ![c] = r],
         NEW p \in {"none", "running", "exited"},
         process' = [process EXCEPT ![c] = p],
         NEW h \in HandlerStates,
         handler' = [handler EXCEPT ![c] = h],
         UNCHANGED phase,
         InStep(c)'
  PROVE  Inv'
<1>1. TypeOK'
  BY DEF Inv, TypeOK
<1>2. TokensExclusive'
  BY DEF Inv, TypeOK, TokensExclusive
<1>3. ASSUME NEW d \in Codes, d # c
      PROVE  InStep(d)'
  <2>1. /\ rooms'[d] = rooms[d] /\ process'[d] = process[d]
        /\ handler'[d] = handler[d]
    BY <1>3 DEF Inv, TypeOK
  <2>2. InStep(d)
    BY DEF Inv
  <2> QED
    BY <2>1, <2>2 DEF InStep, Present, Idle
<1> QED
  BY <1>1, <1>2, <1>3 DEF Inv

\* The process of one room, killed or left alone, as an update of its entry.
LEMMA KilledOne ==
  ASSUME Inv, NEW c \in Codes, NEW S \in SUBSET {c}
  PROVE  Killed(S) = [process EXCEPT ![c] = IF S = {} THEN @ ELSE "exited"]
BY DEF Killed, Inv, TypeOK

\* Leaving removes a waiting room and fails any other, and kills its child.
LEMMA LeaveInv ==
  ASSUME Inv, NEW c \in Codes, Leave(c)
  PROVE  Inv'
<1>1. /\ rooms[c] \in Room /\ InStep(c)
      /\ process[c] \in {"none", "running", "exited"}
      /\ handler[c] \in HandlerStates
      /\ Present(c) /\ phase = "serving" /\ UNCHANGED <<handler, phase>>
  BY DEF Inv, TypeOK, Leave
<1>2. handler' = [handler EXCEPT ![c] = handler[c]]
  BY <1>1 DEF Inv, TypeOK
<1>3. CASE rooms[c].state = "WaitingForOpponent"
  <2>1. /\ rooms' = [rooms EXCEPT ![c] = NoRoom("Gone")]
        /\ process' = [process EXCEPT ![c] = process[c]]
    BY <1>3 DEF Leave, Inv, TypeOK
  <2>2. /\ NoRoom("Gone") \in Room
        /\ ~NoRoom("Gone").tokens /\ ~NoRoom("Gone").child
        /\ NoRoom("Gone").state = "Gone"
    BY RoomTypes DEF NoRoom, RoomStates
  <2>3. InStep(c)'
    BY <1>1, <1>3, <2>1, <2>2 DEF InStep, Present, Inv, TypeOK
  <2> QED
    BY <1>1, <1>2, <2>1, <2>2, <2>3, LocalInv
<1>4. CASE rooms[c].state # "WaitingForOpponent"
  <2> DEFINE r == FailedRoom(rooms[c])
             p == IF {c} \cap Children = {} THEN process[c] ELSE "exited"
  <2>1. /\ rooms' = [rooms EXCEPT ![c] = r]
        /\ process' = [process EXCEPT ![c] = p]
    BY <1>4, KilledOne DEF Leave
  <2>2. /\ r \in Room /\ ~r.tokens /\ ~r.child /\ r.state = "Failed"
        /\ r.endpoint = rooms[c].endpoint
    BY <1>1, RoomTypes DEF FailedRoom, Room
  <2>3. rooms[c].child => p = "exited"
    BY <1>1 DEF Children
  <2>4. ~rooms[c].child => p = process[c]
    BY DEF Children
  <2>5. rooms'[c] = r /\ process'[c] = p
    BY <2>1 DEF Inv, TypeOK
  <2>6. InStep(c)'
    <3> HIDE DEF r, p
    <3> QED
      BY <1>1, <1>4, <2>2, <2>3, <2>4, <2>5
         DEF InStep, Present, TicketStates
  <2>7. p \in {"none", "running", "exited"}
    BY <1>1
  <2> HIDE DEF r, p
  <2> QED
    BY <1>1, <1>2, <2>1, <2>2, <2>6, <2>7, LocalInv
<1> QED
  BY <1>3, <1>4

-----------------------------------------------------------------------------
(* The join call and the environment                                       *)

\* A step of the join call of a room, or of its environment, that leaves the
\* room itself alone.
LEMMA SameRoomInv ==
  ASSUME Inv, NEW c \in Codes, UNCHANGED <<rooms, phase>>,
         NEW p \in {"none", "running", "exited"},
         process' = [process EXCEPT ![c] = p],
         NEW h \in HandlerStates,
         handler' = [handler EXCEPT ![c] = h],
         InStep(c)'
  PROVE  Inv'
<1>1. rooms' = [rooms EXCEPT ![c] = rooms[c]] /\ rooms[c] \in Room
  BY DEF Inv, TypeOK
<1>2. rooms[c].tokens => Active(rooms[c])
  BY DEF Inv, TypeOK
<1> QED
  BY <1>1, <1>2, LocalInv

\* Spawning, inspecting and losing the process.
LEMMA ProcessStepInv ==
  ASSUME Inv, NEW c \in Codes,
         \/ SpawnGame(c) \/ SpawnFails(c) \/ FindAlive(c) \/ FindDead(c)
         \/ ClientGone(c) \/ ProcessExits(c)
  PROVE  Inv'
<1>1. /\ InStep(c)
      /\ process[c] \in {"none", "running", "exited"}
      /\ handler[c] \in HandlerStates
      /\ process \in [Codes -> {"none", "running", "exited"}]
      /\ handler \in [Codes -> HandlerStates]
  BY DEF Inv, TypeOK
<1>2. UNCHANGED <<rooms, phase>>
  BY DEF SpawnGame, SpawnFails, FindAlive, FindDead, ClientGone, ProcessExits
<1>3. PICK p \in {"none", "running", "exited"}, h \in HandlerStates :
         /\ process' = [process EXCEPT ![c] = p]
         /\ handler' = [handler EXCEPT ![c] = h]
         /\ \/ handler[c] = "spawning" /\ h = "sleeping" /\ p = "running"
            \/ handler[c] = "spawning" /\ h = "dead" /\ p = process[c]
            \/ handler[c] = "sleeping" /\ h = "alive" /\ p = process[c]
            \/ handler[c] = "sleeping" /\ h = "dead" /\ p = "exited"
            \/ handler[c] = "sleeping" /\ h = "dropped" /\ p = process[c]
            \/ process[c] = "running" /\ h = handler[c] /\ p = "exited"
  <2>1. CASE SpawnGame(c)
    BY <1>1, <2>1 DEF SpawnGame, Moves, HandlerStates
  <2>2. CASE SpawnFails(c)
    BY <1>1, <2>2 DEF SpawnFails, Moves, HandlerStates
  <2>3. CASE FindAlive(c)
    BY <1>1, <2>3 DEF FindAlive, Moves, HandlerStates
  <2>4. CASE FindDead(c)
    <3>1. process' = [process EXCEPT ![c] = "exited"]
      BY <2>4, KilledOne DEF FindDead
    <3> QED
      BY <1>1, <2>4, <3>1 DEF FindDead, Moves, HandlerStates
  <2>5. CASE ClientGone(c)
    BY <1>1, <2>5 DEF ClientGone, Moves, HandlerStates
  <2>6. CASE ProcessExits(c)
    BY <1>1, <2>6 DEF ProcessExits, HandlerStates
  <2> QED
    BY <2>1, <2>2, <2>3, <2>4, <2>5, <2>6
<1>4. process'[c] = p /\ handler'[c] = h
  BY <1>1, <1>3
<1>5. InStep(c)'
  BY <1>1, <1>2, <1>3, <1>4 DEF InStep, Present, Idle
<1> QED
  BY <1>2, <1>3, <1>5, SameRoomInv

\* A room that is still there becomes Ready and owns its process; else the
\* process is killed.
LEMMA MarkReadyInv ==
  ASSUME Inv, NEW c \in Codes, MarkReady(c)
  PROVE  Inv'
<1>1. /\ rooms[c] \in Room /\ InStep(c)
      /\ process[c] \in {"none", "running", "exited"}
      /\ handler[c] = "alive"
      /\ rooms[c].tokens => Active(rooms[c])
      /\ UNCHANGED phase
  BY DEF Inv, TypeOK, MarkReady, Moves
<1>2. CASE Present(c)
  <2> DEFINE r == [rooms[c] EXCEPT !.child = TRUE, !.state = "Ready"]
  <2>1. /\ rooms' = [rooms EXCEPT ![c] = r]
        /\ process' = [process EXCEPT ![c] = process[c]]
        /\ handler' = [handler EXCEPT ![c] = "answering"]
    BY <1>2 DEF MarkReady, Moves, Inv, TypeOK
  <2>2. /\ r \in Room /\ r.child /\ r.state = "Ready"
        /\ r.tokens = rooms[c].tokens /\ r.endpoint = rooms[c].endpoint
    BY <1>1 DEF Room, RoomStates, TicketStates
  <2>3. /\ rooms'[c] = r /\ handler'[c] = "answering"
        /\ process'[c] = process[c]
    BY <2>1 DEF Inv, TypeOK
  <2> HIDE DEF r
  <2>4. Active(r) /\ "answering" \in HandlerStates
    BY <2>2 DEF Active, HandlerStates
  <2>5. InStep(c)'
    <3>1. rooms[c].endpoint \in Endpoints /\ phase # "stopped"
      BY <1>1, <1>2 DEF InStep, Present, TicketStates
    <3> QED
      BY <1>1, <1>2, <2>2, <2>3, <3>1 DEF InStep
  <2> QED
    BY <1>1, <2>1, <2>2, <2>4, <2>5, LocalInv
<1>3. CASE ~Present(c)
  <2>1. /\ UNCHANGED rooms
        /\ process' = [process EXCEPT ![c] = "exited"]
        /\ handler' = [handler EXCEPT ![c] = "done"]
    BY <1>3, KilledOne DEF MarkReady, Moves
  <2>2. process'[c] = "exited" /\ handler'[c] = "done"
    BY <2>1 DEF Inv, TypeOK
  <2>3. InStep(c)' /\ "done" \in HandlerStates
    BY <1>1, <1>3, <2>1, <2>2
       DEF InStep, Present, Idle, HandlerStates, TicketStates
  <2> QED
    BY <1>1, <2>1, <2>3, SameRoomInv
<1> QED
  BY <1>2, <1>3

\* A failed start fails its room, if the room is still there.
LEMMA MarkFailedInv ==
  ASSUME Inv, NEW c \in Codes, MarkFailed(c)
  PROVE  Inv'
<1>1. /\ rooms[c] \in Room /\ InStep(c)
      /\ process[c] \in {"none", "running", "exited"}
      /\ handler[c] = "dead"
      /\ UNCHANGED phase
      /\ handler' = [handler EXCEPT ![c] = "done"]
      /\ handler'[c] = "done" /\ "done" \in HandlerStates
  BY DEF Inv, TypeOK, MarkFailed, Moves, HandlerStates
<1>2. CASE Present(c)
  <2> DEFINE r == FailedRoom(rooms[c])
             p == IF {c} \cap Children = {} THEN process[c] ELSE "exited"
  <2>1. /\ rooms' = [rooms EXCEPT ![c] = r]
        /\ process' = [process EXCEPT ![c] = p]
    BY <1>2, KilledOne DEF MarkFailed
  <2>2. /\ r \in Room /\ ~r.tokens /\ ~r.child /\ r.state = "Failed"
        /\ r.endpoint = rooms[c].endpoint
    BY <1>1, RoomTypes DEF FailedRoom, Room
  <2>3. p \in {"none", "running", "exited"} /\ (p = process[c] \/ p = "exited")
    BY <1>1
  <2>4. rooms'[c] = r /\ process'[c] = p
    BY <2>1 DEF Inv, TypeOK
  <2> HIDE DEF r, p
  <2>5. InStep(c)'
    BY <1>1, <1>2, <2>2, <2>3, <2>4 DEF InStep, Present, TicketStates, Idle
  <2> QED
    BY <1>1, <2>1, <2>2, <2>3, <2>5, LocalInv
<1>3. CASE ~Present(c)
  <2>1. /\ UNCHANGED rooms
        /\ process' = [process EXCEPT ![c] = process[c]]
        /\ process'[c] = process[c]
    BY <1>3 DEF MarkFailed, Inv, TypeOK
  <2>2. InStep(c)'
    BY <1>1, <1>3, <2>1 DEF InStep, Present, TicketStates, Idle
  <2> QED
    BY <1>1, <2>1, <2>2, SameRoomInv
<1> QED
  BY <1>2, <1>3

\* The clock only makes a lease overdue.
LEMMA LeaseInv ==
  ASSUME Inv, NEW c \in Codes, LeaseEnds(c)
  PROVE  Inv'
<1> DEFINE r == [rooms[c] EXCEPT !.overdue = TRUE]
<1>1. /\ rooms[c] \in Room /\ InStep(c)
      /\ process[c] \in {"none", "running", "exited"}
      /\ handler[c] \in HandlerStates
      /\ rooms[c].tokens => Active(rooms[c])
      /\ process' = [process EXCEPT ![c] = process[c]]
      /\ handler' = [handler EXCEPT ![c] = handler[c]]
      /\ rooms' = [rooms EXCEPT ![c] = r]
      /\ rooms'[c] = r
      /\ UNCHANGED <<process, handler, phase>>
  BY DEF Inv, TypeOK, LeaseEnds
<1>2. /\ r \in Room /\ r.tokens = rooms[c].tokens
      /\ r.endpoint = rooms[c].endpoint /\ r.child = rooms[c].child
      /\ r.state = rooms[c].state
  BY <1>1 DEF Room
<1> HIDE DEF r
<1>3. InStep(c)'
  BY <1>1, <1>2 DEF InStep, Present, Idle
<1>4. Active(rooms[c]) <=> Active(r)
  BY <1>2 DEF Active
<1> QED
  BY <1>1, <1>2, <1>3, <1>4, LocalInv

\* Shutdown kills every child, and no call is in flight that holds another.
LEMMA ShutdownInv ==
  ASSUME Inv, Shutdown
  PROVE  Inv'
<1>1. /\ \A c \in Codes : Idle(c)
      /\ phase' = "stopped" /\ handler' = handler
      /\ rooms' = [c \in Codes |-> IF Present(c) THEN NoRoom("Gone")
                                   ELSE rooms[c]]
      /\ process' = Killed(Children)
  BY DEF Shutdown
<1>2. /\ NoRoom("Gone") \in Room /\ ~NoRoom("Gone").tokens
      /\ ~NoRoom("Gone").child /\ NoRoom("Gone").state = "Gone"
  BY RoomTypes DEF NoRoom, RoomStates
<1>3. \A c \in Codes : ~Present(c) => ~Active(rooms[c])
  BY DEF Present, Active, TicketStates
<1>4. \A c \in Codes : ~rooms'[c].tokens
  <2> SUFFICES ASSUME NEW c \in Codes
               PROVE  ~rooms'[c].tokens
    OBVIOUS
  <2>1. CASE Present(c)
    <3>1. rooms'[c] = NoRoom("Gone")
      BY <1>1, <2>1
    <3> QED
      BY <1>2, <3>1
  <2>2. CASE ~Present(c)
    <3>1. rooms'[c] = rooms[c]
      BY <1>1, <2>2
    <3> QED
      BY <1>3, <2>2, <3>1 DEF Inv, TypeOK
  <2> QED
    BY <2>1, <2>2
<1>5. TypeOK'
  <2>1. rooms' \in [Codes -> Room]
    BY <1>1, <1>2 DEF Inv, TypeOK
  <2>2. process' \in [Codes -> {"none", "running", "exited"}]
    BY <1>1 DEF Inv, TypeOK, Killed
  <2> QED
    BY <1>1, <1>4, <2>1, <2>2 DEF Inv, TypeOK
<1>6. TokensExclusive'
  BY <1>4 DEF TokensExclusive
<1>7. ASSUME NEW c \in Codes
      PROVE  InStep(c)'
  <2>1. InStep(c) /\ rooms[c] \in Room
    BY DEF Inv, TypeOK
  <2>2. process'[c] = IF c \in Children THEN "exited" ELSE process[c]
    BY <1>1, KilledType
  <2>3. c \in Children <=> rooms[c].child
    BY <2>1 DEF Children, InStep, Present, TicketStates
  <2>4. rooms'[c] = IF Present(c) THEN NoRoom("Gone") ELSE rooms[c]
    BY <1>1
  <2>5. ~Present(c)' /\ Idle(c)'
    BY <1>1, <1>2, <2>4 DEF Present, Idle, TicketStates
  <2> QED
    BY <1>1, <1>2, <2>1, <2>2, <2>3, <2>4, <2>5
       DEF InStep, Present, Idle, TicketStates
<1> QED
  BY <1>5, <1>6, <1>7 DEF Inv

-----------------------------------------------------------------------------
(* The theorems                                                            *)

\* Every step keeps the invariant.
LEMMA StepInv == Inv /\ [Next]_vars => Inv'
<1> SUFFICES ASSUME Inv, [Next]_vars
             PROVE  Inv'
  OBVIOUS
<1>0. handler \in [Codes -> HandlerStates]
  BY DEF Inv, TypeOK
<1>1. ASSUME NEW c \in Codes, Request(c)
      PROVE  Inv'
  BY <1>1, CreateInv, ReserveInv, LeaveInv DEF Request
<1>2. ASSUME NEW c \in Codes, JoinStep(c)
      PROVE  Inv'
  <2>1. CASE Answer(c)
    <3>1. /\ handler[c] = "answering"
          /\ handler' = [handler EXCEPT ![c] = "done"]
          /\ UNCHANGED phase
          /\ \E refused \in Refusals : Reap(refused)
      BY <2>1 DEF Answer, Moves
    <3>2. handler' \in [Codes -> HandlerStates]
      BY <1>0, <3>1 DEF HandlerStates
    <3>3. \A d \in Codes :
            \/ handler'[d] = handler[d]
            \/ handler[d] = "answering" /\ handler'[d] = "done"
      BY <1>0, <3>1
    <3> QED
      BY <3>1, <3>2, <3>3, ReapInv
  <2> QED
    BY <1>2, <2>1, ProcessStepInv, MarkReadyInv, MarkFailedInv DEF JoinStep
<1>3. ASSUME NEW c \in Codes, Environment(c)
      PROVE  Inv'
  BY <1>3, LeaseInv, ProcessStepInv DEF Environment
<1>4. CASE Cleanup
  <2>1. /\ handler' \in [Codes -> HandlerStates]
        /\ \A c \in Codes : handler'[c] = handler[c]
        /\ UNCHANGED phase
        /\ \E refused \in Refusals : Reap(refused)
    BY <1>0, <1>4 DEF Cleanup
  <2> QED
    BY <2>1, ReapInv
<1>5. CASE Signal
  BY <1>5 DEF Signal, Inv, TypeOK, TokensExclusive, InStep, Present, Idle
<1>6. CASE Shutdown
  BY <1>6, ShutdownInv
<1>7. CASE UNCHANGED vars
  BY <1>7 DEF vars, Inv, TypeOK, TokensExclusive, InStep, Present, Idle
<1> QED
  BY <1>1, <1>2, <1>3, <1>4, <1>5, <1>6, <1>7 DEF Next

\* The inductive invariant of the room service.
THEOREM RoomsInductive == Spec => []Inv
BY InitInv, StepInv, PTL DEF Spec

\* The rooms keep their types, and only active rooms hold tokens.
THEOREM RoomsTypeCorrect == Spec => []TypeOK
<1>1. Inv => TypeOK
  BY DEF Inv
<1> QED
  BY <1>1, RoomsInductive, PTL

\* The players of two rooms are never given tokens for one game server.
THEOREM TokensExclusiveCorrect == Spec => []TokensExclusive
<1>1. Inv => TokensExclusive
  BY DEF Inv
<1> QED
  BY <1>1, RoomsInductive, PTL

\* A running game server is owned by its room or by its join call, or its
\* handle was lost with a dropped call; never by two of them.
THEOREM OneOwnerCorrect == Spec => []OneOwner
<1>1. Inv => OneOwner
  BY DEF Inv, InStep, OneOwner
<1> QED
  BY <1>1, RoomsInductive, PTL

\* A Ready room has an endpoint and a process.
THEOREM ReadyServedCorrect == Spec => []ReadyIsServed
<1>1. Inv => ReadyIsServed
  BY DEF Inv, InStep, ReadyIsServed
<1> QED
  BY <1>1, RoomsInductive, PTL

\* Nothing runs after an orderly shutdown but what a dropped call left behind.
THEOREM ShutdownCorrect == Spec => []ShutdownStopsAll
<1>1. Inv => ShutdownStopsAll
  <2> SUFFICES ASSUME Inv, phase = "stopped", NEW c \in Codes,
                      process[c] = "running"
               PROVE  handler[c] = "dropped"
    BY DEF ShutdownStopsAll
  <2>1. InStep(c) /\ ~Present(c) /\ Idle(c)
    BY DEF Inv, InStep
  <2> QED
    BY <2>1 DEF InStep, Present, Idle, TicketStates
<1> QED
  BY <1>1, RoomsInductive, PTL

-----------------------------------------------------------------------------
(* The limit of waiting rooms                                              *)

Waiting(rs) == {c \in Codes : rs[c].state = "WaitingForOpponent"}

\* A reap makes no room wait.
LEMMA ReapWaiting ==
  ASSUME Inv, NEW refused \in Refusals
  PROVE  Waiting(Reaped(refused)) \subseteq Waiting(rooms)
<1> SUFFICES ASSUME NEW c \in Codes,
                    Reaped(refused)[c].state = "WaitingForOpponent"
             PROVE  rooms[c].state = "WaitingForOpponent"
  BY DEF Waiting
<1>1. rooms[c] \in Room
  BY DEF Inv, TypeOK
<1>2. FailedRoom(rooms[c]).state = "Failed" /\ NoRoom("Gone").state = "Gone"
  BY <1>1 DEF FailedRoom, NoRoom, Room
<1> QED
  BY <1>2, ReapRoom

\* Only a creation adds a waiting room, and it looks at the limit after it has
\* reaped.
LEMMA WaitingStep ==
  ASSUME Inv, [Next]_vars
  PROVE  \/ Waiting(rooms') \subseteq Waiting(rooms)
         \/ \E refused \in Refusals, c \in Codes :
              /\ BelowWaitingLimit(Reaped(refused))
              /\ Waiting(rooms') \subseteq Waiting(Reaped(refused)) \cup {c}
<1>0. rooms \in [Codes -> Room]
  BY DEF Inv, TypeOK
<1>1. ASSUME NEW c \in Codes, CreateRoom(c)
      PROVE  \E refused \in Refusals, d \in Codes :
               /\ BelowWaitingLimit(Reaped(refused))
               /\ Waiting(rooms') \subseteq Waiting(Reaped(refused)) \cup {d}
  <2>1. PICK refused \in Refusals :
          /\ BelowWaitingLimit(Reaped(refused))
          /\ rooms' = [Reaped(refused) EXCEPT ![c] = WaitingRoom]
    BY <1>1 DEF CreateRoom
  <2>2. \A d \in Codes : d # c => rooms'[d] = Reaped(refused)[d]
    BY <2>1 DEF Reaped
  <2>3. Waiting(rooms') \subseteq Waiting(Reaped(refused)) \cup {c}
    BY <2>2 DEF Waiting
  <2> QED
    BY <2>1, <2>3
<1>2. ASSUME \E refused \in Refusals : Reap(refused)
      PROVE  Waiting(rooms') \subseteq Waiting(rooms)
  BY <1>2, ReapWaiting DEF Reap
<1>3. ASSUME NEW c \in Codes, ReserveJoin(c)
      PROVE  Waiting(rooms') \subseteq Waiting(rooms)
  <2>1. PICK refused \in Refusals, e \in Endpoints :
          rooms' = [Reaped(refused) EXCEPT
                      ![c] = [@ EXCEPT !.state = "StartingServer",
                                       !.endpoint = e,
                                       !.overdue = FALSE,
                                       !.tokens = TRUE]]
    BY <1>3 DEF ReserveJoin
  <2>2. \A d \in Codes : d # c => rooms'[d] = Reaped(refused)[d]
    BY <2>1 DEF Reaped
  <2>3. Reaped(refused)[c] \in Room
    BY ReapRoom
  <2>4. rooms'[c] = [Reaped(refused)[c] EXCEPT !.state = "StartingServer",
                                               !.endpoint = e,
                                               !.overdue = FALSE,
                                               !.tokens = TRUE]
    BY <2>1 DEF Reaped
  <2>5. rooms'[c].state = "StartingServer"
    BY <2>3, <2>4 DEF Room
  <2>6. Waiting(rooms') \subseteq Waiting(Reaped(refused))
    BY <2>2, <2>5 DEF Waiting
  <2> QED
    BY <2>6, ReapWaiting
<1>4. ASSUME NEW c \in Codes, NEW r \in Room, r.state # "WaitingForOpponent",
             rooms' = [rooms EXCEPT ![c] = r]
      PROVE  Waiting(rooms') \subseteq Waiting(rooms)
  BY <1>0, <1>4 DEF Waiting
<1>5. \A r \in Room : /\ FailedRoom(r) \in Room
                      /\ FailedRoom(r).state # "WaitingForOpponent"
  BY RoomTypes DEF FailedRoom, Room
<1>6. ASSUME NEW c \in Codes, Leave(c)
      PROVE  Waiting(rooms') \subseteq Waiting(rooms)
  <2>1. NoRoom("Gone") \in Room /\ NoRoom("Gone").state # "WaitingForOpponent"
    BY RoomTypes DEF NoRoom, RoomStates
  <2>2. rooms[c] \in Room
    BY <1>0
  <2>3. \/ rooms' = [rooms EXCEPT ![c] = NoRoom("Gone")]
        \/ rooms' = [rooms EXCEPT ![c] = FailedRoom(rooms[c])]
    BY <1>6 DEF Leave
  <2> QED
    BY <1>4, <1>5, <2>1, <2>2, <2>3
<1>7. ASSUME NEW c \in Codes, JoinStep(c)
      PROVE  Waiting(rooms') \subseteq Waiting(rooms)
  <2>0. rooms[c] \in Room
    BY <1>0
  <2>1. CASE SpawnGame(c) \/ SpawnFails(c) \/ FindAlive(c) \/ FindDead(c)
    BY <2>1 DEF SpawnGame, SpawnFails, FindAlive, FindDead, Waiting
  <2>2. CASE MarkReady(c)
    <3> DEFINE r == [rooms[c] EXCEPT !.child = TRUE, !.state = "Ready"]
    <3>1. r \in Room /\ r.state # "WaitingForOpponent"
      BY <2>0 DEF Room, RoomStates, TicketStates
    <3>2. rooms' = [rooms EXCEPT ![c] = r] \/ UNCHANGED rooms
      BY <2>2 DEF MarkReady
    <3> HIDE DEF r
    <3>3. CASE rooms' = [rooms EXCEPT ![c] = r]
      BY <1>4, <3>1, <3>3
    <3> QED
      BY <3>2, <3>3 DEF Waiting
  <2>3. CASE MarkFailed(c)
    <3>1. rooms' = [rooms EXCEPT ![c] = FailedRoom(rooms[c])] \/ UNCHANGED rooms
      BY <2>3 DEF MarkFailed
    <3>2. CASE UNCHANGED rooms
      BY <3>2 DEF Waiting
    <3> QED
      BY <1>4, <1>5, <2>0, <3>1, <3>2
  <2>4. CASE Answer(c)
    BY <1>2, <2>4 DEF Answer
  <2> QED
    BY <1>7, <2>1, <2>2, <2>3, <2>4 DEF JoinStep
<1>8. ASSUME NEW c \in Codes, Environment(c)
      PROVE  Waiting(rooms') \subseteq Waiting(rooms)
  <2>1. CASE LeaseEnds(c)
    <3>1. rooms' = [rooms EXCEPT ![c] = [rooms[c] EXCEPT !.overdue = TRUE]]
      BY <2>1 DEF LeaseEnds
    <3>2. [rooms[c] EXCEPT !.overdue = TRUE].state = rooms[c].state
      BY <1>0 DEF Room
    <3> QED
      BY <1>0, <3>1, <3>2 DEF Waiting
  <2>2. CASE ProcessExits(c) \/ ClientGone(c)
    BY <2>2 DEF ProcessExits, ClientGone, Waiting
  <2> QED
    BY <1>8, <2>1, <2>2 DEF Environment
<1>9. CASE Cleanup
  BY <1>2, <1>9 DEF Cleanup
<1>10. CASE Signal \/ UNCHANGED vars
  BY <1>10 DEF Signal, vars, Waiting
<1>11. CASE Shutdown
  BY <1>11 DEF Shutdown, NoRoom, Waiting
<1> QED
  BY <1>1, <1>3, <1>6, <1>7, <1>8, <1>9, <1>10, <1>11 DEF Next, Request

\* Never more rooms wait for an opponent than the limit, however creations,
\* joins, failures and reaps come together.
THEOREM WaitingCorrect == Spec => []WaitingBounded
<1>1. \A rs : IsFiniteSet(Waiting(rs)) /\ Cardinality(Waiting(rs)) \in Nat
  BY FS_Subset, FS_CardinalityType, MatchmakerAssumption DEF Waiting
<1>2. Init => WaitingBounded
  <2> SUFFICES ASSUME Init
               PROVE  Cardinality(Waiting(rooms)) <= MaxWaiting
    BY DEF WaitingBounded, Waiting
  <2>1. Waiting(rooms) = {}
    BY DEF Init, NoRoom, Waiting
  <2> QED
    BY <2>1, FS_EmptySet, MatchmakerAssumption
<1>3. Inv /\ WaitingBounded /\ [Next]_vars => WaitingBounded'
  <2> SUFFICES ASSUME Inv, [Next]_vars, Cardinality(Waiting(rooms)) <= MaxWaiting
               PROVE  Cardinality(Waiting(rooms')) <= MaxWaiting
    BY DEF WaitingBounded, Waiting
  <2>1. CASE Waiting(rooms') \subseteq Waiting(rooms)
    <3>1. Cardinality(Waiting(rooms')) <= Cardinality(Waiting(rooms))
      BY <1>1, <2>1, FS_Subset
    <3> QED
      BY <1>1, <3>1, MatchmakerAssumption
  <2>2. ASSUME NEW refused \in Refusals, NEW c \in Codes,
               BelowWaitingLimit(Reaped(refused)),
               Waiting(rooms') \subseteq Waiting(Reaped(refused)) \cup {c}
        PROVE  Cardinality(Waiting(rooms')) <= MaxWaiting
    <3> DEFINE W == Waiting(Reaped(refused))
    <3>1. IsFiniteSet(W) /\ Cardinality(W) \in Nat
      BY <1>1
    <3>2. Cardinality(W) < MaxWaiting
      BY <2>2 DEF BelowWaitingLimit, Waiting
    <3> HIDE DEF W
    <3>3. IsFiniteSet(W \cup {c}) /\ Cardinality(W \cup {c}) <= Cardinality(W) + 1
      <4>1. /\ IsFiniteSet(W \cup {c})
            /\ Cardinality(W \cup {c})
                 = IF c \in W THEN Cardinality(W) ELSE Cardinality(W) + 1
        BY <3>1, FS_AddElement
      <4> QED
        BY <3>1, <4>1
    <3>4. Waiting(rooms') \in SUBSET (W \cup {c})
      BY <2>2 DEF W
    <3>5. Cardinality(Waiting(rooms')) <= Cardinality(W \cup {c})
      BY <3>3, <3>4, FS_Subset
    <3>6. Cardinality(W \cup {c}) \in Nat /\ Cardinality(Waiting(rooms')) \in Nat
      BY <1>1, <3>3, FS_CardinalityType
    <3> QED
      BY <3>1, <3>2, <3>3, <3>5, <3>6, MatchmakerAssumption
  <2> QED
    BY <2>1, <2>2, WaitingStep
<1> QED
  BY <1>2, <1>3, RoomsInductive, PTL DEF Spec

-----------------------------------------------------------------------------
(* The service and its clients                                             *)

\* A poll reaps, as the cleanup does.
LEMMA PollIsCleanup ==
  ASSUME phase = "serving", \E gone \in Refusals : Reap(gone),
         UNCHANGED <<handler, phase>>
  PROVE  Cleanup
BY DEF Cleanup

LEMMA WaitServed ==
  ASSUME NEW c \in Codes, NEW s \in Seats, Wait(c, s)
  PROVE  [Next]_vars
<1>1. CASE HearReady(c, s) \/ TimesOut(c, s) \/ LeaveUnserved(c, s)
  BY <1>1 DEF HearReady, TimesOut, LeaveUnserved
<1>2. CASE Poll(c, s)
  BY <1>2, PollIsCleanup DEF Poll, Next
<1>3. CASE PollFails(c, s)
  BY <1>3, PollIsCleanup DEF PollFails, Next
<1>4. CASE LeaveRoom(c, s)
  BY <1>4 DEF LeaveRoom, Next, Request
<1> QED
  BY <1>1, <1>2, <1>3, <1>4 DEF Wait

\* A client's call is one of the requests and join steps the service takes from
\* anyone.
LEMMA CallServed ==
  ASSUME NEW c \in Codes, Create(c) \/ JoinRoom(c) \/ JoinCall(c) \/ JoinUnheard(c)
  PROVE  Next
<1>1. CASE Create(c) \/ JoinRoom(c)
  BY <1>1 DEF Create, JoinRoom, Next, Request
<1>2. CASE Serve(c) \/ JoinFails(c) \/ JoinAnswered(c)
  BY <1>2 DEF Serve, JoinFails, JoinAnswered, Next, JoinStep
<1>3. CASE JoinUnheard(c)
  BY <1>3 DEF JoinUnheard, Next, JoinStep, Environment
<1> QED
  BY <1>1, <1>2, <1>3 DEF JoinCall

\* With its clients the service does nothing it could not do on its own, for
\* any rooms and any subset of them followed; hence every theorem about the
\* service holds with the clients that poll, give up and lose their answers
\* (src/matchmaking.rs).
THEOREM RoomsServed == RoomsSpec => Spec
<1>1. PlayersInit => Init
  BY DEF PlayersInit
<1>2. [RoomsNext]_roomsVars => [Next]_vars
  <2> SUFFICES ASSUME [RoomsNext]_roomsVars
               PROVE  [Next]_vars
    OBVIOUS
  <2>1. CASE ServiceStep
    BY <2>1 DEF ServiceStep, Next, Environment
  <2>2. ASSUME NEW c \in Codes \ Followed, OtherRoom(c)
        PROVE  [Next]_vars
    BY <2>2 DEF OtherRoom, Next, Environment
  <2>3. ASSUME NEW c \in Followed,
               \/ Create(c) \/ JoinRoom(c) \/ JoinCall(c) \/ JoinUnheard(c)
               \/ \E s \in Seats : Wait(c, s)
        PROVE  [Next]_vars
    <3>1. c \in Codes
      BY FollowedAssumption
    <3> QED
      BY <2>3, <3>1, CallServed, WaitServed
  <2>4. CASE UNCHANGED roomsVars
    BY <2>4 DEF roomsVars
  <2> QED
    BY <2>1, <2>2, <2>3, <2>4 DEF RoomsNext
<1> QED
  BY <1>1, <1>2, PTL DEF RoomsSpec, Spec
=============================================================================
