----------------------------- MODULE Matchmaker -----------------------------
(***************************************************************************)
(* The room service of src/bin/arena-matchmaker.rs: rooms, the endpoint    *)
(* pool, and one arena-server process per full room.                       *)
(*                                                                         *)
(* Every operation on the rooms holds one lock, and most of them begin by  *)
(* reaping.  A join does not keep the lock: it reserves an endpoint, then  *)
(* spawns the process, sleeps, inspects the process and locks the rooms    *)
(* again, and anything may happen to its room in between.  A handler is    *)
(* dropped at its only await, the sleep, when its HTTP client goes away.   *)
(*                                                                         *)
(* Abstractions.  A room is named by its code; codes are random and do not *)
(* repeat.  A ticket is a random secret of one seat of one room, so a      *)
(* request with a valid ticket is a request on the room.  Time is kept as  *)
(* whether a room's lease is over.  A process is named by its room: only   *)
(* one is ever spawned for it.  The player bindings are left out: a join   *)
(* with the creator's name or key is one of the rejected requests, which   *)
(* do nothing but reap.                                                    *)
(***************************************************************************)
EXTENDS Integers, FiniteSets

CONSTANTS
  Codes,          \* room codes; also a bound on the rooms created
  NumEndpoints,   \* --game-endpoint arguments
  MaxWaiting,     \* max_waiting_rooms
  NoRetention     \* failed_retention_ms is 0

Endpoints == 1 .. NumEndpoints
NoEndpoint == 0

ASSUME MatchmakerAssumption ==
  /\ NumEndpoints \in Nat \ {0}
  /\ MaxWaiting \in Nat \ {0}
  /\ NoRetention \in BOOLEAN
  /\ IsFiniteSet(Codes)

TicketStates == {"WaitingForOpponent", "StartingServer", "Ready", "Failed"}

VARIABLES
  rooms,          \* rooms[c]: the room with code c, or no room
  process,        \* process[c]: the arena-server process spawned for room c
  handler,        \* handler[c]: where the join_room call on room c is
  phase           \* the service: serving, draining after a signal, stopped

vars == <<rooms, process, handler, phase>>

RoomStates == TicketStates \cup {"NotYet", "Gone"}
HandlerStates ==
  {"none", "spawning", "sleeping", "alive", "dead", "answering", "done",
   "dropped"}

Room == [state : RoomStates, overdue : BOOLEAN,
         endpoint : Endpoints \cup {NoEndpoint},
         child : BOOLEAN, tokens : BOOLEAN]

NoRoom(s) == [state |-> s, overdue |-> FALSE, endpoint |-> NoEndpoint,
              child |-> FALSE, tokens |-> FALSE]
WaitingRoom == NoRoom("WaitingForOpponent")

Init ==
  /\ rooms = [c \in Codes |-> NoRoom("NotYet")]
  /\ process = [c \in Codes |-> "none"]
  /\ handler = [c \in Codes |-> "none"]
  /\ phase = "serving"

Present(c) == rooms[c].state \in TicketStates

\* Mutant: the tokens survive the failure.
FailedWithTokens(r) ==
  [r EXCEPT !.state = "Failed", !.overdue = NoRetention, !.child = FALSE]

\* A room that failed keeps its endpoint on record, but no tokens, no child,
\* and only the retention time.
FailedRoom(r) ==
  [r EXCEPT !.state = "Failed", !.overdue = NoRetention, !.child = FALSE,
            !.tokens = FALSE]

Killed(S) == [c \in Codes |-> IF c \in S THEN "exited" ELSE process[c]]

-----------------------------------------------------------------------------
(* reap_locked: rooms whose child exited fail, rooms whose lease is over   *)
(* are removed with their child.  The operating system may refuse to       *)
(* report on a child; such a child is killed.                              *)

Children == {c \in Codes : Present(c) /\ rooms[c].child}
Refusals == SUBSET Children

ChildOver(c, refused) ==
  c \in Children /\ (process[c] = "exited" \/ c \in refused)

\* Mutant: the room of a child that exited stays Ready.
InspectedOnly(c, refused) ==
  IF ~ChildOver(c, refused) THEN rooms[c] ELSE [rooms[c] EXCEPT !.child = FALSE]

Inspected(c, refused) ==
  IF ~ChildOver(c, refused) THEN rooms[c]
  ELSE IF rooms[c].state = "Ready" THEN FailedRoom(rooms[c])
  ELSE [rooms[c] EXCEPT !.child = FALSE]

\* Mutant: a room with players in it is never removed.
ExpiredUnlessReady(refused) ==
  {c \in Codes : /\ Present(c) /\ rooms[c].state # "Ready"
                 /\ Inspected(c, refused).overdue}

\* Mutant: only a room with an endpoint is removed.
ExpiredOnceFull(refused) ==
  {c \in Codes : /\ Present(c) /\ rooms[c].endpoint # NoEndpoint
                 /\ Inspected(c, refused).overdue}

Expired(refused) == {c \in Codes : Present(c) /\ Inspected(c, refused).overdue}

\* Mutant: a removed room forgets its child.
KillRefused(refused) == refused

KilledByReap(refused) ==
  refused \cup {c \in Expired(refused) : Inspected(c, refused).child}

Reaped(refused) ==
  [c \in Codes |-> IF c \in Expired(refused) THEN NoRoom("Gone")
                   ELSE Inspected(c, refused)]

\* The first endpoint of the configured list that no active room uses.
Active(r) == r.state \in {"StartingServer", "Ready"}

\* Mutant: a room that is still starting does not count.
UsedWhenReady(rs) == {rs[c].endpoint : c \in {d \in Codes : rs[d].state = "Ready"}}

UsedEndpoints(rs) == {rs[c].endpoint : c \in {d \in Codes : Active(rs[d])}}

FirstFree(rs, e) ==
  /\ e \in Endpoints \ UsedEndpoints(rs)
  /\ \A f \in Endpoints \ UsedEndpoints(rs) : e <= f

-----------------------------------------------------------------------------
(* Requests                                                                *)

\* What health, the cleanup task, a poll and every rejected request do.
Reap(refused) ==
  /\ rooms' = Reaped(refused)
  /\ process' = Killed(KilledByReap(refused))

Cleanup ==
  /\ phase # "stopped"
  /\ \E refused \in Refusals : Reap(refused)
  /\ UNCHANGED <<handler, phase>>

\* Mutant: the limit is off by one.
HasRoomForOneMore(rs) ==
  Cardinality({c \in Codes : rs[c].state = "WaitingForOpponent"}) <= MaxWaiting

BelowWaitingLimit(rs) ==
  Cardinality({c \in Codes : rs[c].state = "WaitingForOpponent"}) < MaxWaiting

CreateRoom(c) ==
  /\ phase = "serving"
  /\ rooms[c].state = "NotYet"
  /\ \E refused \in Refusals :
       /\ BelowWaitingLimit(Reaped(refused))
       /\ rooms' = [Reaped(refused) EXCEPT ![c] = WaitingRoom]
       /\ process' = Killed(KilledByReap(refused))
  /\ UNCHANGED <<handler, phase>>

\* reserve_join: the room takes its second player, an endpoint, a match lease
\* and a token for each seat.
ReserveJoin(c) ==
  /\ phase = "serving"
  /\ \E refused \in Refusals, e \in Endpoints :
       /\ Reaped(refused)[c].state = "WaitingForOpponent"
       /\ FirstFree(Reaped(refused), e)
       /\ rooms' = [Reaped(refused) EXCEPT
                      ![c] = [@ EXCEPT !.state = "StartingServer",
                                       !.endpoint = e,
                                       !.overdue = FALSE,
                                       !.tokens = TRUE]]
       /\ process' = Killed(KilledByReap(refused))
  /\ handler' = [handler EXCEPT ![c] = "spawning"]
  /\ UNCHANGED phase

\* leave, with the ticket of a seat of the room.  It does not reap.
Leave(c) ==
  /\ phase = "serving"
  /\ Present(c)
  /\ \/ /\ rooms[c].state = "WaitingForOpponent"
        /\ rooms' = [rooms EXCEPT ![c] = NoRoom("Gone")]
        /\ UNCHANGED process
     \/ /\ rooms[c].state # "WaitingForOpponent"
        /\ rooms' = [rooms EXCEPT ![c] = FailedRoom(@)]
        /\ process' = Killed({c} \cap Children)
  /\ UNCHANGED <<handler, phase>>

-----------------------------------------------------------------------------
(* The rest of join_room, step by step                                     *)

Moves(c, from, to) ==
  /\ handler[c] = from
  /\ handler' = [handler EXCEPT ![c] = to]

SpawnGame(c) ==
  /\ Moves(c, "spawning", "sleeping")
  /\ process' = [process EXCEPT ![c] = "running"]
  /\ UNCHANGED <<rooms, phase>>

SpawnFails(c) ==
  /\ Moves(c, "spawning", "dead")
  /\ UNCHANGED <<rooms, process, phase>>

\* try_wait after the sleep.  A process it cannot inspect is killed.
FindAlive(c) ==
  /\ process[c] = "running"
  /\ Moves(c, "sleeping", "alive")
  /\ UNCHANGED <<rooms, process, phase>>

FindDead(c) ==
  /\ Moves(c, "sleeping", "dead")
  /\ process' = Killed({c})
  /\ UNCHANGED <<rooms, phase>>

\* Mutant: the child of a room that disappeared is only dropped.
MarkReadyLeaking(c) ==
  /\ IF Present(c)
     THEN /\ rooms' = [rooms EXCEPT ![c] = [@ EXCEPT !.child = TRUE,
                                                    !.state = "Ready"]]
          /\ Moves(c, "alive", "answering")
     ELSE /\ Moves(c, "alive", "done")
          /\ UNCHANGED rooms
  /\ UNCHANGED <<process, phase>>

\* mark_ready: whatever the state of the room is by now, it becomes Ready.
\* When the room is gone the child is killed.
MarkReady(c) ==
  \/ /\ Present(c)
     /\ Moves(c, "alive", "answering")
     /\ rooms' = [rooms EXCEPT ![c] = [@ EXCEPT !.child = TRUE,
                                               !.state = "Ready"]]
     /\ UNCHANGED <<process, phase>>
  \/ /\ ~Present(c)
     /\ Moves(c, "alive", "done")
     /\ process' = Killed({c})
     /\ UNCHANGED <<rooms, phase>>

MarkFailed(c) ==
  /\ Moves(c, "dead", "done")
  /\ \/ /\ Present(c)
        /\ rooms' = [rooms EXCEPT ![c] = FailedRoom(@)]
        /\ process' = Killed({c} \cap Children)
     \/ /\ ~Present(c)
        /\ UNCHANGED <<rooms, process>>
  /\ UNCHANGED phase

\* The response is read from the room, after another reap.
Answer(c) ==
  /\ Moves(c, "answering", "done")
  /\ \E refused \in Refusals : Reap(refused)
  /\ UNCHANGED phase

\* The client's connection goes away during the sleep: the handler, and with
\* it the only handle of the process, is dropped, and the process runs on.
ClientGone(c) ==
  /\ Moves(c, "sleeping", "dropped")
  /\ UNCHANGED <<rooms, process, phase>>

JoinStep(c) ==
  \/ SpawnGame(c) \/ SpawnFails(c) \/ FindAlive(c) \/ FindDead(c)
  \/ MarkReady(c) \/ MarkFailed(c) \/ Answer(c)

-----------------------------------------------------------------------------
(* The environment: the clock, the game servers, and a termination signal  *)

LeaseEnds(c) ==
  /\ Present(c) /\ ~rooms[c].overdue
  /\ rooms' = [rooms EXCEPT ![c] = [@ EXCEPT !.overdue = TRUE]]
  /\ UNCHANGED <<process, handler, phase>>

ProcessExits(c) ==
  /\ process[c] = "running"
  /\ process' = [process EXCEPT ![c] = "exited"]
  /\ UNCHANGED <<rooms, handler, phase>>

Signal ==
  /\ phase = "serving"
  /\ phase' = "draining"
  /\ UNCHANGED <<rooms, process, handler>>

\* Mutant: the service stops without waiting for the calls in flight.
StopAtOnce ==
  /\ phase = "draining"
  /\ phase' = "stopped"
  /\ rooms' = [c \in Codes |-> IF Present(c) THEN NoRoom("Gone") ELSE rooms[c]]
  /\ process' = Killed(Children)
  /\ UNCHANGED handler

Idle(c) == handler[c] \in {"none", "done", "dropped"}

\* axum returns once no call is in flight; then every child is killed.
Shutdown ==
  /\ phase = "draining"
  /\ \A c \in Codes : Idle(c)
  /\ phase' = "stopped"
  /\ rooms' = [c \in Codes |-> IF Present(c) THEN NoRoom("Gone") ELSE rooms[c]]
  /\ process' = Killed(Children)
  /\ UNCHANGED handler

Request(c) == CreateRoom(c) \/ ReserveJoin(c) \/ Leave(c)
Environment(c) == LeaseEnds(c) \/ ProcessExits(c) \/ ClientGone(c)

Next ==
  \/ \E c \in Codes : Request(c) \/ JoinStep(c) \/ Environment(c)
  \/ Cleanup \/ Signal \/ Shutdown

Spec == Init /\ [][Next]_vars

\* The cleanup task runs every second, time passes, and the runtime resumes a
\* handler that can go on.  Requests, exits and signals need not happen, and
\* the operating system need not refuse anything.
QuietCleanup ==
  /\ phase # "stopped"
  /\ Reap({})
  /\ UNCHANGED <<handler, phase>>

Fairness ==
  /\ WF_vars(QuietCleanup)
  /\ \A c \in Codes : WF_vars(LeaseEnds(c)) /\ WF_vars(JoinStep(c))

FairSpec == Spec /\ Fairness

-----------------------------------------------------------------------------
(* Properties                                                              *)

\* The types of the service's state; only active rooms hold tokens.
TypeOK ==
  /\ rooms \in [Codes -> Room]
  /\ process \in [Codes -> {"none", "running", "exited"}]
  /\ handler \in [Codes -> HandlerStates]
  /\ phase \in {"serving", "draining", "stopped"}
  /\ \A c \in Codes : rooms[c].tokens => Active(rooms[c])

\* No two rooms have connect tokens for the same game server at the same time,
\* even while rooms fail, expire and come back during a start; what a player
\* was given before its room lost its tokens is not looked at (reserve_join,
\* leave, reap_locked, mark_ready).
TokensExclusive ==
  \A c, d \in Codes :
    c # d /\ rooms[c].tokens /\ rooms[d].tokens
      => rooms[c].endpoint # rooms[d].endpoint

\* A running game server is in exactly one pair of hands, that of its room or
\* of the join call that started it, unless that call was dropped.
OneOwner ==
  \A c \in Codes :
    process[c] = "running" =>
      \/ handler[c] = "dropped" /\ ~rooms[c].child
      \/ handler[c] \in {"sleeping", "alive"} /\ ~rooms[c].child
      \/ handler[c] \in {"answering", "done"} /\ rooms[c].child

\* A player who is told Ready is sent to a room that has a server process and
\* an endpoint (room_ticket relies on it).
ReadyIsServed ==
  \A c \in Codes :
    rooms[c].state = "Ready" => /\ rooms[c].child
                                /\ rooms[c].endpoint \in Endpoints
                                /\ process[c] # "none"

\* Never more rooms wait for an opponent than the configured limit.
WaitingBounded ==
  Cardinality({c \in Codes : rooms[c].state = "WaitingForOpponent"})
    <= MaxWaiting

\* After an orderly shutdown no game server runs, but for those whose handle
\* was lost with a dropped call.
ShutdownStopsAll ==
  phase = "stopped" =>
    \A c \in Codes : process[c] = "running" => handler[c] = "dropped"

\* An endpoint does not stay occupied: the room that uses it ends, whatever
\* its players, its process and its join call do.
EndpointReleased ==
  \A c \in Codes : Active(rooms[c]) ~> ~Active(rooms[c])

\* A game server does not run for ever, unless its handle was lost.
ProcessStopped ==
  \A c \in Codes :
    process[c] = "running"
      ~> (process[c] # "running" \/ handler[c] = "dropped")

\* Where a room, its process and its join call stand together: what makes
\* OneOwner, ReadyIsServed and ShutdownStopsAll inductive.
InStep(c) ==
  /\ rooms[c].child => /\ rooms[c].state = "Ready"
                       /\ handler[c] \in {"answering", "done"}
  /\ rooms[c].state = "Ready" => rooms[c].child
  /\ rooms[c].state \in {"NotYet", "WaitingForOpponent"} => handler[c] = "none"
  /\ rooms[c].state \in {"StartingServer", "Ready", "Failed"}
       => rooms[c].endpoint \in Endpoints
  /\ handler[c] \in {"none", "spawning"} => process[c] = "none"
  /\ handler[c] \in {"sleeping", "alive"} \/ rooms[c].child
       => process[c] # "none"
  /\ process[c] = "running" => \/ handler[c] \in {"sleeping", "alive", "dropped"}
                               \/ rooms[c].child
  /\ phase = "stopped" => ~Present(c) /\ Idle(c)

\* docs/public-matchmaking.md says that a full room occupies exactly one
\* endpoint and one process: no two active rooms share an endpoint.
EndpointExclusive ==
  \A c, d \in Codes :
    c # d /\ Active(rooms[c]) /\ Active(rooms[d])
      => rooms[c].endpoint # rooms[d].endpoint

\* docs/public-matchmaking.md says that the matchmaker kills any remaining
\* child when the room's lease is over: no process outlives its room, but for
\* the moment its join call needs to notice.
RoomTakesItsProcess ==
  \A c \in Codes :
    process[c] = "running" /\ ~Present(c) => handler[c] \in {"sleeping", "alive"}
=============================================================================
