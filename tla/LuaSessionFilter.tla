--------------------------- MODULE LuaSessionFilter ---------------------------
(***************************************************************************)
(* The filter module lua of rzfilter: every connection has a Lua state of  *)
(* its own, which is made anew when rzfilter.lua changes.                  *)
(*                                                                         *)
(* One connection: its filter, the timers of its script, which are never   *)
(* collected while their Lua state is open, and the last packet that went  *)
(* through.  An answer of a handler is "none" when it fails or returns no  *)
(* Boolean.  The packets of id 9999 (lua/PacketFilter.cpp:205), which are  *)
(* passed on without asking the script, are left out.                      *)
(***************************************************************************)
EXTENDS Naturals, FiniteSets

CONSTANTS
  Timers,       \* timers that a script creates
  MaxStates     \* bound: Lua states made, and changes of the script

VARIABLES
  filter,       \* the Lua state, 0 for none; handlers; times of the script; what was loaded
  disk,         \* rzfilter.lua: its time and what it defines
  timers,       \* LuaTimer: its Lua state, 0 for none, and is it running, again and again?
  strict,       \* strictforward of the client's and of the server's side
  packet,       \* the last packet, what became of it and what the script said
  made

vars == <<filter, disk, timers, strict, packet, made>>

Sides == {"client", "server"}
Scripts == [ok : BOOLEAN, defines : {{}, {"onPacket"}, {"onPacket", "onUnknownPacket"}}]
NoTimer == [of |-> 0, running |-> FALSE, repeats |-> FALSE]
NoPacket == [from |-> "client", understood |-> TRUE, asked |-> "nobody", answer |-> "none", forwarded |-> TRUE]

\* The handlers that initLuaVM finds; none in a script that does not load.
Defined(script) == IF script.ok THEN script.defines ELSE {}

\* initLuaVM in a new Lua state.
NewState(time) ==
  [state |-> made + 1, handlers |-> Defined(disk.script), current |-> time, new |-> time, loaded |-> disk.script]

\* deinitLuaVM: lua_close collects the timers, which ends them.
deinitLuaVM(ts, state) == [t \in Timers |-> IF ts[t].of = state THEN NoTimer ELSE ts[t]]

\* The script that is loaded may create and start a timer.
Loaded(ts) ==
  {ts} \cup {[ts EXCEPT ![t] = [of |-> made + 1, running |-> TRUE, repeats |-> r]] :
               t \in {t \in Timers : ts[t].of = 0}, r \in BOOLEAN}

Made == made < MaxStates /\ made' = made + 1

Init ==
  /\ filter = [state |-> 0, handlers |-> {}, current |-> 0, new |-> 0, loaded |-> [ok |-> FALSE, defines |-> {}]]
  /\ \E script \in Scripts : disk = [time |-> 1, script |-> script]
  /\ timers = [t \in Timers |-> NoTimer]
  /\ strict \in [Sides -> BOOLEAN]
  /\ packet = NoPacket
  /\ made = 0

\* createFilter: for a new connection, or in place of the old filter, which is
\* destroyed, and its Lua state closed, once there is the new one.
createFilter ==
  /\ Made
  /\ filter' = NewState(disk.time)
  /\ timers' \in {deinitLuaVM(ts, filter.state) : ts \in Loaded(timers)}
  /\ UNCHANGED <<disk, strict, packet>>

\* ~PacketFilter
destroyFilter ==
  /\ filter.state # 0
  /\ filter' = [filter EXCEPT !.state = 0, !.handlers = {}]
  /\ timers' = deinitLuaVM(timers, filter.state)
  /\ UNCHANGED <<disk, strict, packet, made>>

Write ==
  /\ disk.time <= MaxStates
  /\ \E script \in Scripts : disk' = [time |-> disk.time + 1, script |-> script]
  /\ UNCHANGED <<filter, timers, strict, packet, made>>

\* onCheckReload: the old Lua state is closed before there is a new one.
onCheckReload ==
  /\ filter.state # 0
  /\ IF filter.new # filter.current /\ filter.new = disk.time
     THEN /\ Made
          /\ filter' = NewState(disk.time)
          /\ timers' \in Loaded(deinitLuaVM(timers, filter.state))
     ELSE filter' = [filter EXCEPT !.new = disk.time] /\ UNCHANGED <<timers, made>>
  /\ UNCHANGED <<disk, strict, packet>>

-----------------------------------------------------------------------------
(* LuaTimer *)

\* createTimer and start, from a handler or a callback of an open Lua state.
start(t) ==
  /\ filter.state # 0 /\ timers[t].of \in {0, filter.state}
  /\ \E repeats \in BOOLEAN :
       timers' = [timers EXCEPT ![t] = [of |-> filter.state, running |-> TRUE, repeats |-> repeats]]
  /\ UNCHANGED <<filter, disk, strict, packet, made>>

stop(t) ==
  /\ timers[t].of # 0 /\ timers[t].of = filter.state
  /\ timers' = [timers EXCEPT ![t].running = FALSE]
  /\ UNCHANGED <<filter, disk, strict, packet, made>>

again(t) ==
  /\ timers[t].of # 0 /\ timers[t].of = filter.state
  /\ timers' = [timers EXCEPT ![t].running = @ \/ timers[t].repeats]
  /\ UNCHANGED <<filter, disk, strict, packet, made>>

\* onTimerCallback: a call into the timer's Lua state.
onTimerCallback(t) ==
  /\ timers[t].running
  /\ timers' = [timers EXCEPT ![t].running = timers[t].repeats]
  /\ UNCHANGED <<filter, disk, strict, packet, made>>

-----------------------------------------------------------------------------
(* Packets *)

\* luaCallUnknownPacket
AskUnknown(from, answer) ==
  LET asked == "onUnknownPacket" \in filter.handlers
  IN  [asked |-> IF asked THEN "onUnknownPacket" ELSE "strictforward",
       forwarded |-> IF asked /\ answer # "none" THEN answer = "yes" ELSE ~strict[from]]

\* luaCallPacket: without a handler every packet passes.
Call(from, understood, answer) ==
  IF "onPacket" \notin filter.handlers THEN [asked |-> "nobody", forwarded |-> TRUE]
  ELSE IF ~understood THEN AskUnknown(from, answer)
  ELSE [asked |-> "onPacket", forwarded |-> answer # "no"]

\* onServerPacket and onClientPacket
onPacket ==
  /\ filter.state # 0
  /\ \E from \in Sides, understood \in BOOLEAN, answer \in {"yes", "no", "none"} :
       LET called == Call(from, understood, answer)
       IN  packet' = [from |-> from, understood |-> understood, asked |-> called.asked,
                      answer |-> IF called.asked \in {"nobody", "strictforward"} THEN "none" ELSE answer, forwarded |-> called.forwarded]
  /\ UNCHANGED <<filter, disk, timers, strict, made>>

Next ==
  \/ createFilter \/ destroyFilter \/ Write \/ onCheckReload \/ onPacket
  \/ \E t \in Timers : start(t) \/ stop(t) \/ again(t) \/ onTimerCallback(t)

-----------------------------------------------------------------------------
(* Properties *)

\* No timer outlives its Lua state, which it would call into.
TimersEnd == \A t \in Timers : timers[t].of \in {0, filter.state}

\* Handlers are those of the script that was loaded, and a script that has not
\* changed is the one that was loaded.
ScriptLoaded ==
  filter.state # 0 =>
    /\ filter.handlers = Defined(filter.loaded)
    /\ filter.current = disk.time => filter.loaded = disk.script

\* Under strictforward, what could not be understood is passed on only when the
\* script says so, or when there is no handler that would have looked at it.
StrictForward ==
  packet.forwarded /\ ~packet.understood /\ strict[packet.from] => packet.answer = "yes" \/ packet.asked = "nobody"

SessionScriptKept == TimersEnd /\ ScriptLoaded /\ StrictForward
=============================================================================
