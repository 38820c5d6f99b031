--------------------------- MODULE CreatureMoves ---------------------------
(***************************************************************************)
(* rzclientreconnect: the position the proxy keeps of a moving creature    *)
(* (ConnectionToServer::updateCreaturePosition).  A TS_SC_MOVE gives the   *)
(* targets of the way and its start time; the position is brought up to    *)
(* date when the next move comes, every five seconds and whenever the game *)
(* data is read.                                                           *)
(*                                                                         *)
(* Positions are on a line and a creature goes one unit per tick, so that  *)
(* every division is exact; a move may also have speed 0.  goal is where,  *)
(* from and when the last move began, for the properties.  KeepsStart is a *)
(* mutated form of the definition that follows it.                         *)
(***************************************************************************)
EXTENDS Integers, Sequences

CONSTANTS
  Places,       \* the positions of targets
  MaxTargets,   \* bound: targets of a move
  MaxTime       \* bound: game time

VARIABLES
  now,          \* getGameTime
  x,            \* the position kept
  move,         \* activeMove: its targets left, start_time, and whether it has a speed
  goal

vars == <<now, x, move, goal>>

Abs(n) == IF n < 0 THEN -n ELSE n
Sign(n) == IF n < 0 THEN -1 ELSE 1

Init ==
  /\ now = 0 /\ x = 0
  /\ move = [path |-> << >>, start |-> 0, speed |-> TRUE]
  /\ goal = [from |-> 0, start |-> 0, path |-> <<0>>, speed |-> TRUE]

\* The position taken over at the end of a step: the target is read through a
\* reference after it was erased, when the next target has moved into its place
\* (the last one's memory still holds it).
StepTarget(path) == IF Len(path) > 1 THEN path[2] ELSE path[1]

KeepsStart(s) == [s EXCEPT !.x = @ + Sign(s.path[1] - s.x) * (now - s.start), !.done = TRUE]

\* A step that has not ended: the part of the way that was gone.
Partly(s) ==
  [s EXCEPT !.x = @ + Sign(s.path[1] - s.x) * (now - s.start), !.start = now, !.done = TRUE]

\* One turn of the loop of updateCreaturePosition.
Turn(s) ==
  LET end == s.start + Abs(s.path[1] - s.x)
  IN IF ~s.speed THEN [s EXCEPT !.path = Tail(@), !.x = StepTarget(s.path)]
     ELSE IF end <= now THEN [s EXCEPT !.path = Tail(@), !.x = StepTarget(s.path), !.start = end]
     ELSE Partly(s)

RECURSIVE Turns(_)
Turns(s) == IF s.path = << >> \/ s.done THEN s ELSE Turns(Turn(s))

\* updateCreaturePosition at game time now.
updateCreaturePosition ==
  Turns([x |-> x, path |-> move.path, start |-> move.start, speed |-> move.speed, done |-> FALSE])

\* updateAllPositions.
updateAllPositions ==
  /\ \E s \in {updateCreaturePosition} :
       x' = s.x /\ move' = [path |-> s.path, start |-> s.start, speed |-> s.speed]
  /\ UNCHANGED <<now, goal>>

\* onMove, with a start time that is not after the game time.
onMove(path, start, speed) ==
  /\ start <= now
  /\ \E s \in {updateCreaturePosition} :
       x' = s.x /\ goal' = [from |-> s.x, start |-> start, path |-> path, speed |-> speed]
  /\ move' = [path |-> path, start |-> start, speed |-> speed]
  /\ UNCHANGED now

Tick == now < MaxTime /\ now' = now + 1 /\ UNCHANGED <<x, move, goal>>

Next ==
  \/ Tick \/ updateAllPositions
  \/ \E n \in 1..MaxTargets : \E path \in [1..n -> Places], start \in {now - 1, now}, speed \in BOOLEAN :
       onMove(path, start, speed)

Spec == Init /\ [][Next]_vars

-----------------------------------------------------------------------------
(* Properties *)

\* When the first leg of the way that the server sent is over.
LegEnd == goal.start + Abs(goal.path[1] - goal.from)

LastTarget == goal.path[Len(goal.path)]

\* On the first leg a moving creature is where the way puts it, however often
\* and whenever its position was brought up to date (start_time moves along).
FirstLeg ==
  goal.speed /\ now < LegEnd =>
    updateCreaturePosition.x = goal.from + Sign(goal.path[1] - goal.from) * (now - goal.start)

\* From the end of the first leg on the creature is at its last target, and its
\* move is over.  That is right for one target.  With more, the server's creature
\* is still on its way: the code, which takes the next target's position for the
\* one it erased, is ahead of it by all the other legs, whenever it looks.
NothingLeft ==
  ~goal.speed \/ now >= LegEnd =>
    /\ updateCreaturePosition.path = << >>
    /\ updateCreaturePosition.x = LastTarget

\* Where updateCreaturePosition puts a creature depends on the move and the time
\* only, and not on the updates made in between.
OnTheWay == FirstLeg /\ NothingLeft

=============================================================================
