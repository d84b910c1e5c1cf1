------------------------- MODULE MatchmakingClient -------------------------
(***************************************************************************)
(* The players' side of the room service: MatchmakerClient of              *)
(* src/matchmaking.rs as resolve_connection of both clients uses it,       *)
(* composed with the service.  Seat A of a room creates it, seat B joins   *)
(* it with the code A was told; each then polls its ticket until the room  *)
(* is ready, it failed, or its patience is over, and leaves in the end.    *)
(*                                                                         *)
(* A request is carried out or never arrives, and the answer to one that   *)
(* was carried out may be lost: the caller then has an error, after ten    *)
(* seconds at the latest.                                                  *)
(*                                                                         *)
(* Abstractions.  Requests that the service rejects without a change are   *)
(* left out, but for the polls.  Ctrl-C is the loss of whatever comes      *)
(* next.                                                                   *)
(***************************************************************************)
EXTENDS Matchmaker

CONSTANT Followed   \* the rooms whose clients are followed

ASSUME FollowedAssumption == Followed \subseteq Codes

VARIABLE player     \* player[c][s]: where the client at seat s of room c is

roomsVars == <<vars, player>>

Seats == {"A", "B"}

\* What a client makes of the ticket of a room that is there.  ready_connection:
\* a ready ticket without a connect token is an error, after which the client
\* does not leave.
Heard(room) ==
  CASE room.state = "Ready" -> IF room.tokens THEN "told ready" ELSE "refused"
    [] room.state = "Failed" -> "giving up"
    [] room.state \in {"WaitingForOpponent", "StartingServer"} -> "waiting"

PlayersInit ==
  /\ Init
  /\ player = [c \in Followed |-> [s \in Seats |-> "none"]]

Turns(c, s, from, to) ==
  /\ player[c][s] = from
  /\ player' = [player EXCEPT ![c][s] = to]

\* The code of a room is known once its creator was answered.
CodeKnown(c) == player[c]["A"] \notin {"none", "unknown"}

-----------------------------------------------------------------------------
(* create_room, join_room                                                  *)

Create(c) ==
  /\ CreateRoom(c)
  /\ \E answer \in {"waiting", "unknown"} : Turns(c, "A", "none", answer)

JoinRoom(c) ==
  /\ CodeKnown(c)
  /\ ReserveJoin(c)
  /\ Turns(c, "B", "none", "calling")

\* The call is still under way.
Serve(c) ==
  /\ SpawnGame(c) \/ SpawnFails(c) \/ FindAlive(c) \/ FindDead(c)
     \/ (MarkReady(c) /\ handler'[c] = "answering")
  /\ UNCHANGED player

\* It ends in an error: the client has no ticket, and does not leave.
JoinFails(c) ==
  /\ MarkFailed(c) \/ (MarkReady(c) /\ handler'[c] = "done")
  /\ player' = [player EXCEPT ![c]["B"] = "ended"]

\* It answers with the ticket, read after another reap.
JoinAnswered(c) ==
  /\ Answer(c)
  /\ player' = [player EXCEPT ![c]["B"] =
                  IF Present(c)' THEN Heard(rooms'[c]) ELSE "ended"]

\* The client does not hear of it: the answer is lost, or the client has given
\* up, during the sleep or before it.
JoinUnheard(c) ==
  \/ Answer(c) /\ player' = [player EXCEPT ![c]["B"] = "ended"]
  \/ /\ ClientGone(c)
     /\ Turns(c, "B", "calling", "ended")

-----------------------------------------------------------------------------
(* wait_until_ready                                                        *)

\* Mutant: the deadline is looked at before the ticket.
OverdueBeforeReady(state) == state \in {"waiting", "told ready"}

\* The deadline only counts for a ticket that says to wait.
OverdueMatters(state) == state = "waiting"

HearReady(c, s) ==
  /\ Turns(c, s, "told ready", "connecting")
  /\ UNCHANGED vars

TimesOut(c, s) ==
  /\ OverdueMatters(player[c][s])
  /\ player' = [player EXCEPT ![c][s] = "giving up"]
  /\ UNCHANGED vars

\* What the service answers to a poll: the ticket, or that there is no room.
PollAnswer(c) == IF Present(c)' THEN Heard(rooms'[c]) ELSE "giving up"

\* The sleep of half a second and the next request, and its answer.
Poll(c, s) ==
  /\ phase = "serving"
  /\ player[c][s] = "waiting"
  /\ \E refused \in Refusals : Reap(refused)
  /\ player' = [player EXCEPT ![c][s] = PollAnswer(c)]
  /\ UNCHANGED <<handler, phase>>

\* Any error of the request ends the loop.
PollFails(c, s) ==
  /\ Turns(c, s, "waiting", "giving up")
  /\ \/ UNCHANGED vars
     \/ /\ phase = "serving"
        /\ \E refused \in Refusals : Reap(refused)
        /\ UNCHANGED <<handler, phase>>

\* The leave after an error is tried once; its outcome is ignored.
LeaveRoom(c, s) ==
  /\ Turns(c, s, "giving up", "ended")
  /\ Leave(c)

LeaveUnserved(c, s) ==
  /\ Turns(c, s, "giving up", "ended")
  /\ UNCHANGED vars

-----------------------------------------------------------------------------
Wait(c, s) ==
  \/ HearReady(c, s) \/ TimesOut(c, s) \/ Poll(c, s) \/ PollFails(c, s)
  \/ LeaveRoom(c, s) \/ LeaveUnserved(c, s)

ServiceStep ==
  /\ Cleanup \/ Signal \/ Shutdown \/ \E c \in Codes : LeaseEnds(c) \/ ProcessExits(c)
  /\ UNCHANGED player

JoinCall(c) == Serve(c) \/ JoinFails(c) \/ JoinAnswered(c)

\* The requests on the other rooms come as they like.
OtherRoom(c) ==
  /\ Request(c) \/ JoinStep(c) \/ ClientGone(c)
  /\ UNCHANGED player

RoomsNext ==
  \/ ServiceStep
  \/ \E c \in Codes \ Followed : OtherRoom(c)
  \/ \E c \in Followed :
       \/ Create(c) \/ JoinRoom(c) \/ JoinCall(c) \/ JoinUnheard(c)
       \/ \E s \in Seats : Wait(c, s)

RoomsSpec == PlayersInit /\ [][RoomsNext]_roomsVars

\* The loop goes on: it polls, and without a service the request fails.
GoesOn(c, s) ==
  \/ HearReady(c, s) \/ Poll(c, s) \/ (phase # "serving" /\ PollFails(c, s))
  \/ LeaveRoom(c, s) \/ LeaveUnserved(c, s)

\* The fairness of the service, and of the players' loops.  Nobody has to create
\* or join a room, and no deadline has to pass.
RoomsFairness ==
  /\ WF_roomsVars(UNCHANGED player /\ QuietCleanup)
  /\ \A c \in Codes : WF_roomsVars(UNCHANGED player /\ LeaseEnds(c))
  /\ \A c \in Codes \ Followed : WF_roomsVars(UNCHANGED player /\ JoinStep(c))
  /\ \A c \in Followed :
       /\ WF_roomsVars(JoinCall(c))
       /\ \A s \in Seats : WF_roomsVars(GoesOn(c, s))

FairRoomsSpec == RoomsSpec /\ RoomsFairness

-----------------------------------------------------------------------------
(* Properties                                                              *)

\* Nobody waits for ever, whatever becomes of the room, of the opponent and of
\* the answers, and even if the deadline never came: every loop ends at a game
\* server or in an error.  And who was told Ready connects, however late: he
\* does not give up at his deadline, and so does not take the match from an
\* opponent who connects (wait_until_ready).
WaitEnds ==
  \A c \in Followed, s \in Seats :
    /\ player[c][s] \in {"waiting", "giving up"}
         ~> player[c][s] \in {"connecting", "refused", "ended"}
    /\ player[c][s] = "told ready" ~> player[c][s] = "connecting"

\* Somebody waits for an opponent in c.
Attended(c) == player[c]["A"] = "waiting"

\* A waiting room whose creator never learned its code, or whose leave was
\* lost, does not count against the limit of waiting rooms for ever
\* (create_room, leave).
GhostRoomExpires ==
  \A c \in Followed :
    rooms[c].state = "WaitingForOpponent" /\ ~Attended(c)
      ~> rooms[c].state # "WaitingForOpponent"
=============================================================================
