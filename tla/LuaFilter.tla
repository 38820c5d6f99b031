------------------------------- MODULE LuaFilter -------------------------------
(***************************************************************************)
(* The filter module lua_global_state of rzfilter: all connections share   *)
(* one Lua state, whose registry keeps what C++ objects refer to by        *)
(* numbers: the endpoints that scripts see, a table for each of them, the  *)
(* handlers of the script, timers and their callbacks.                     *)
(*                                                                         *)
(* A number that is given back is given out again first.  What only a      *)
(* script refers to may be collected at any time or never; a script is     *)
(* supposed to keep a timer while that calls back.  Kept is a mutated form *)
(* of the definition that follows it.                                      *)
(***************************************************************************)
EXTENDS Integers, Sequences, FiniteSets, SequencesExt

CONSTANTS
  Conns,        \* connections
  Handlers,     \* handlers that scripts define: luaFunctions
  Timers,       \* timers that scripts create
  MaxEvents     \* bound: starts of timers, changes of rzfilter.lua and, twice, filters created

VARIABLES
  vm,           \* registry (slots, free numbers), live endpoints, filters, number of endpoints so far
  script,       \* rzfilter.lua on disk, its times as last seen, the references of the handlers
  timers,       \* LuaTimer: state, references to itself and to its callback
  events

vars == <<vm, script, timers, events>>

\* The handlers that rzfilter.lua may define.
luaFunctions ==
  <<"onServerPacket", "onClientPacket", "onUnknownPacket", "onClientConnected",
    "onServerDisconnected", "onClientDisconnected">>

Counted(n) == events + n <= MaxEvents /\ events' = events + n

NoRef == -2
Free == <<"free">>
\* A script that does not load defines nothing.
Scripts == {s \in [ok : BOOLEAN, defines : SUBSET ToSet(Handlers)] : s.ok \/ s.defines = {}}
NoTimer == [state |-> "none", repeats |-> FALSE, self |-> NoRef, callback |-> NoRef]

-----------------------------------------------------------------------------
(* The registry: luaL_ref and luaL_unref *)

RefOf(r) == IF r.free = << >> THEN Len(r.slots) + 1 ELSE Head(r.free)
Ref(r, value) ==
  IF r.free = << >> THEN [r EXCEPT !.slots = Append(@, value)]
  ELSE [r EXCEPT !.slots[Head(r.free)] = value, !.free = Tail(@)]
Unref(r, i) ==
  IF i = NoRef THEN r ELSE [r EXCEPT !.slots[i] = Free, !.free = <<i>> \o @]

-----------------------------------------------------------------------------
(* Endpoints and filters *)

\* LuaEndpoint::createInstance, and the reference of the filter to it.
CreateEndpoint(r, c) ==
  LET id == r.made + 1
      withTable == Ref(r, <<"table", id>>)
  IN  [Ref(withTable, <<"endpoint", id>>) EXCEPT
         !.made = id,
         !.endpoints = @ \cup {[id |-> id, conn |-> c, table |-> RefOf(r), attached |-> TRUE]}]

\* PacketFilter: an endpoint for the client, then one for the server.
NewFilter(r, c) ==
  LET one == CreateEndpoint(r, c)
      two == CreateEndpoint(one, c)
      refOf(q, id) == CHOOSE i \in DOMAIN q.slots : q.slots[i] = <<"endpoint", id>>
  IN  [two EXCEPT !.filters[c] =
         [alive |-> TRUE, clientEndpoint |-> one.made, client |-> refOf(one, one.made),
          serverEndpoint |-> two.made, server |-> refOf(two, two.made)]]

Detached(r, id) ==
  {IF e.id = id THEN [e EXCEPT !.attached = FALSE] ELSE e : e \in r.endpoints}
Drop(r, id, ref) == Unref([r EXCEPT !.endpoints = Detached(r, id)], ref)

\* ~PacketFilter
DeleteFilter(r, filter) ==
  LET first == IF filter.clientEndpoint # 0 THEN Drop(r, filter.clientEndpoint, filter.client) ELSE r
  IN  Drop(first, filter.serverEndpoint, filter.server)

NoFilter == [alive |-> FALSE, clientEndpoint |-> 0, client |-> NoRef, serverEndpoint |-> 0, server |-> NoRef]

\* What the script is given, in every call of a handler: the client's and the
\* server's endpoint.
Arguments(filter) == <<vm.slots[filter.client], vm.slots[filter.server]>>

-----------------------------------------------------------------------------
(* The script *)

\* deinitLuaVM: the references to the handlers are given back.
RECURSIVE Deinit(_, _, _)
Deinit(r, refs, n) ==
  IF n > Len(Handlers) THEN r ELSE Deinit(Unref(r, refs[Handlers[n]]), refs, n + 1)

\* initLuaVM: those that the script defines.
RECURSIVE Define(_, _, _)
Define(r, content, n) ==
  IF n > Len(Handlers) THEN r
  ELSE Define(IF Handlers[n] \in content.defines THEN Ref(r, <<"handler", Handlers[n]>>) ELSE r, content, n + 1)

RefsIn(r, content) ==
  [h \in ToSet(Handlers) |->
     IF h \in content.defines THEN CHOOSE i \in DOMAIN r.slots : r.slots[i] = <<"handler", h>> ELSE NoRef]

EmptyVm ==
  [slots |-> << >>, free |-> << >>, endpoints |-> {}, filters |-> [c \in Conns |-> NoFilter], made |-> 0]

\* GlobalLuaState: created with the first filter.
Init ==
  /\ \E content \in Scripts :
       /\ vm = Define(EmptyVm, content, 1)
       /\ script = [onDisk |-> content, mtime |-> 1, current |-> 1, new |-> 1, loaded |-> content,
                    refs |-> RefsIn(Define(EmptyVm, content, 1), content)]
  /\ timers = [t \in Timers |-> NoTimer]
  /\ events = 0

\* An editor writes the script, and whatever it writes has a new time.
Write ==
  /\ Counted(1)
  /\ \E content \in Scripts : script' = [script EXCEPT !.onDisk = content, !.mtime = @ + 1]
  /\ UNCHANGED <<vm, timers>>

\* onCheckReload, every five seconds: a script that has changed, and not since
\* the last check, is loaded.
onCheckReload ==
  IF script.new # script.current /\ script.new = script.mtime
  THEN LET r == Define(Deinit(vm, script.refs, 1), script.onDisk, 1)
       IN  /\ vm' = r
           /\ script' = [script EXCEPT !.current = script.mtime, !.loaded = script.onDisk, !.refs = RefsIn(r, script.onDisk)]
           /\ UNCHANGED <<timers, events>>
  ELSE /\ script' = [script EXCEPT !.new = script.mtime]
       /\ UNCHANGED <<vm, timers, events>>

-----------------------------------------------------------------------------
(* Connections *)

\* createFilter for a new connection
createFilter(c) ==
  /\ ~vm.filters[c].alive
  /\ Counted(2)
  /\ vm' = NewFilter(vm, c)
  /\ UNCHANGED <<script, timers>>

\* createFilter in place of an old filter, which is destroyed then.
recreateFilter(c) ==
  /\ vm.filters[c].alive
  /\ Counted(2)
  /\ vm' = DeleteFilter(NewFilter(vm, c), vm.filters[c])
  /\ UNCHANGED <<script, timers>>

Kept(filter) == filter

\* The filter forgets the client's endpoint, and keeps the number it had.
Forgotten(filter) == [filter EXCEPT !.clientEndpoint = 0]

\* onClientDisconnected: the handler may keep the server's connection.
onClientDisconnected(c) ==
  LET filter == vm.filters[c]
  IN  /\ filter.alive /\ filter.clientEndpoint # 0
      /\ vm' = [Drop(vm, filter.clientEndpoint, filter.client) EXCEPT !.filters[c] = Forgotten(filter)]
      /\ UNCHANGED <<script, timers, events>>

\* The session to the server is deleted, and its filter with it.
destroyFilter(c) ==
  /\ vm.filters[c].alive
  /\ vm' = [DeleteFilter(vm, vm.filters[c]) EXCEPT !.filters[c] = NoFilter]
  /\ UNCHANGED <<script, timers, events>>

\* __gc of endpoints that no filter refers to, the last one first; a script
\* may hold on to one of them.
CollectEndpoints ==
  LET unused == {e \in vm.endpoints : <<"endpoint", e.id>> \notin ToSet(vm.slots)}
  IN  /\ \E collected \in {unused} \cup {unused \ {e} : e \in unused} :
           /\ collected # {}
           /\ vm' = [FoldSeq(LAMBDA e, r : Unref(r, e.table), vm, SetToSortSeq(collected, LAMBDA d, e : d.id < e.id))
                       EXCEPT !.endpoints = @ \ collected]
      /\ UNCHANGED <<script, timers, events>>

-----------------------------------------------------------------------------
(* LuaTimer: a registry and a timer, after each operation *)

\* updateRef: a running timer refers to itself.
UpdateRef(r, t, timer) ==
  IF timer.state = "running" /\ timer.self = NoRef
  THEN <<Ref(r, <<"timer", t>>), [timer EXCEPT !.self = RefOf(r)]>>
  ELSE IF timer.state # "running" /\ timer.self # NoRef
  THEN <<Unref(r, timer.self), [timer EXCEPT !.self = NoRef]>>
  ELSE <<r, timer>>

Started(r, t, timer, repeats) ==
  LET referred == UpdateRef(r, t, [timer EXCEPT !.state = "running", !.repeats = repeats])
      unset == Unref(referred[1], timer.callback)
  IN  <<Ref(unset, <<"callback", t>>), [referred[2] EXCEPT !.callback = RefOf(unset)]>>

Stopped(r, t, timer) == UpdateRef(r, t, [timer EXCEPT !.state = "stopped"])

Timed(t, result) ==
  /\ vm' = result[1]
  /\ timers' = [timers EXCEPT ![t] = result[2]]
  /\ UNCHANGED script

\* createTimer and start
start(t) ==
  /\ Counted(1)
  /\ \E repeats \in BOOLEAN : Timed(t, Started(vm, t, timers[t], repeats))

stop(t) ==
  /\ timers[t].state # "none"
  /\ Timed(t, Stopped(vm, t, timers[t]))
  /\ UNCHANGED events

\* again: an error when it was never started, nothing when it does not repeat.
again(t) ==
  /\ timers[t].callback # NoRef /\ timers[t].repeats
  /\ Counted(1)
  /\ Timed(t, UpdateRef(vm, t, [timers[t] EXCEPT !.state = "running"]))

\* onTimerCallback: the callback may stop its timer, or start it again with
\* another callback; then the timer's reference to itself is looked at.
onTimerCallback(t) ==
  LET timer == IF timers[t].repeats THEN timers[t] ELSE [timers[t] EXCEPT !.state = "stopped"]
      done(result) == UpdateRef(result[1], t, result[2])
  IN  /\ timers[t].state = "running"
      /\ \/ Timed(t, done(<<vm, timer>>)) /\ UNCHANGED events
         \/ Timed(t, done(Stopped(vm, t, timer))) /\ UNCHANGED events
         \/ /\ Counted(1)
            /\ Timed(t, done(Started(vm, t, timer, FALSE)))

\* __gc of a timer
CollectTimer(t) ==
  /\ timers[t].state # "none" /\ <<"timer", t>> \notin ToSet(vm.slots)
  /\ Timed(t, <<Unref(vm, timers[t].callback), NoTimer>>)
  /\ UNCHANGED events

Next ==
  \/ Write \/ onCheckReload \/ CollectEndpoints
  \/ \E c \in Conns : createFilter(c) \/ recreateFilter(c) \/ onClientDisconnected(c) \/ destroyFilter(c)
  \/ \E t \in Timers : start(t) \/ stop(t) \/ again(t) \/ onTimerCallback(t) \/ CollectTimer(t)

Spec == Init /\ [][Next]_vars

-----------------------------------------------------------------------------
(* Properties *)

\* A handler is given its own connection's endpoints.  After the client went,
\* nothing is said of the first one: the number it had may be anybody's.
OwnArguments ==
  \A c \in Conns : LET f == vm.filters[c] IN
    f.alive =>
      /\ Arguments(f)[2] = <<"endpoint", f.serverEndpoint>>
      /\ f.clientEndpoint # 0 => Arguments(f)[1] = <<"endpoint", f.clientEndpoint>>

\* An endpoint leads to a connection that is there, or nowhere, and has a table
\* of its own.
EndpointsLead ==
  \A e \in vm.endpoints :
    /\ vm.slots[e.table] = <<"table", e.id>>
    /\ e.attached => e.id \in {vm.filters[e.conn].clientEndpoint, vm.filters[e.conn].serverEndpoint}

\* The handlers called are those of the script that was loaded.
HandlersLoaded ==
  \A h \in ToSet(Handlers) :
    IF h \in script.loaded.defines
    THEN script.refs[h] # NoRef /\ vm.slots[script.refs[h]] = <<"handler", h>>
    ELSE script.refs[h] = NoRef

\* A timer that runs is not collected, and calls what it was started with.
TimersCall ==
  \A t \in Timers :
    timers[t].state = "running" =>
      /\ timers[t].self # NoRef /\ vm.slots[timers[t].self] = <<"timer", t>>
      /\ timers[t].callback # NoRef /\ vm.slots[timers[t].callback] = <<"callback", t>>

\* A number is given out once, and nothing is kept that nobody refers to.
NumbersOnce ==
  /\ \A i \in DOMAIN vm.slots : vm.slots[i] = Free <=> i \in ToSet(vm.free)
  /\ IsInjective(vm.free)
  /\ Cardinality({i \in DOMAIN vm.slots : vm.slots[i] # Free}) =
       Cardinality(vm.endpoints)
       + Cardinality({c \in Conns : vm.filters[c].alive}) + Cardinality({c \in Conns : vm.filters[c].clientEndpoint # 0})
       + Cardinality({h \in ToSet(Handlers) : script.refs[h] # NoRef})
       + Cardinality({t \in Timers : timers[t].self # NoRef}) + Cardinality({t \in Timers : timers[t].callback # NoRef})

\* A script that has not changed since two checks is the one that is loaded.
ScriptFollowed ==
  script.current = script.mtime => script.loaded = script.onDisk

RegistryKept ==
  OwnArguments /\ EndpointsLead /\ HandlersLoaded /\ TimersCall /\ NumbersOnce /\ ScriptFollowed

\* The first argument of a handler that the script defines is the client's
\* endpoint of the connection that the handler is called for, or nothing, also
\* after that client went.
ClientIsOwn ==
  \A c \in Conns :
    vm.filters[c].alive /\ script.loaded.defines # {} =>
      \A e \in vm.endpoints : Arguments(vm.filters[c])[1] = <<"endpoint", e.id>> => e.conn = c
=============================================================================
