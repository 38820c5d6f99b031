------------------------------ MODULE CombatLog ------------------------------
(***************************************************************************)
(* The filter module combatlog of rzfilter: names of what the client sees, *)
(* and a line for each change of health or mana that a packet of the game  *)
(* server tells of.                                                        *)
(*                                                                         *)
(* Handles are given again to others; an entity is what has a handle, and  *)
(* the server names it in a TS_SC_ENTER before anything else.  An amount   *)
(* is -1, 0 or 1.                                                          *)
(***************************************************************************)
EXTENDS Integers, Sequences

CONSTANTS
  Handles,
  MaxEntities   \* bound: entities that enter

VARIABLES
  world,        \* handle -> what has it: kind, number, master
  filter,       \* Data: names, and is the file open?
  line,         \* the last packet, until the world changes: event, who is in it, lines
  count

vars == <<world, filter, line, count>>

Nobody == [kind |-> "none", number |-> 0, master |-> 0]
NoName == <<"handle">>
NoLine == [event |-> << >>, who |-> << >>, lines |-> << >>]

Init ==
  /\ world = [h \in Handles |-> Nobody]
  /\ filter = [players |-> [h \in Handles |-> NoName], file |-> FALSE]
  /\ line = NoLine
  /\ count = 0

\* The data an old filter hands over; its file is closed.
TakenOver(data) == [data EXCEPT !.file = FALSE]

\* createFilter in place of an old filter.
createFilter ==
  /\ filter' = TakenOver(filter)
  /\ line' = NoLine
  /\ UNCHANGED <<world, count>>

\* TS_SC_LOGIN_RESULT and TS_SC_ENTER: the name replaces one the handle had; a
\* pet is named with its master, when that is known.
NameOf(e) ==
  IF e.kind = "pet" /\ filter.players[e.master] # NoName
  THEN <<"pet", e.number, filter.players[e.master]>> ELSE <<e.kind, e.number>>

onEnterMessage(h) ==
  /\ count < MaxEntities
  /\ count' = count + 1
  /\ \E kind \in {"player", "pet", "monster", "item"}, master \in Handles \ {h} :
       LET e == [kind |-> kind, number |-> count + 1, master |-> master]
       IN  /\ world' = [world EXCEPT ![h] = e]
           /\ filter' = IF kind = "item" THEN filter ELSE [filter EXCEPT !.players[h] = NameOf(e)]
  /\ line' = NoLine

\* What leaves is not told to the filter.
Leave(h) ==
  /\ world[h].kind # "none"
  /\ world' = [world EXCEPT ![h] = Nobody]
  /\ line' = NoLine
  /\ UNCHANGED <<filter, count>>

getHandleName(h) == filter.players[h]

-----------------------------------------------------------------------------
(* What a packet tells: events, each of health or mana *)

Line(type, damage) == [type |-> type, damage |-> damage]
None == << >>
When(condition, l) == IF condition THEN <<l>> ELSE None

Sign(n, plus, minus) == Line(IF n >= 0 THEN plus ELSE minus, n)

\* The event of a packet: how it is coded, and its amount as the packet has it.
Codes ==
  {"attack", "attack mana", "skill damage", "add hp", "add mp", "add hp mp: hp", "add hp mp: mp", "chain heal",
   "rebirth: hp", "rebirth: mp", "no effect", "state damage", "state magic damage", "state heal", "state magic heal"}

\* onAttackEventMessage, onSkillMessage, onStateResultMessage
LinesOf(e) ==
  CASE e.code = "attack" -> When(e.amount # 0 \/ e.missed, Sign(e.amount, "Melee", "Healing"))
    [] e.code = "attack mana" -> When(e.amount # 0, Line("ManaDrain", e.amount))
    [] e.code = "skill damage" -> When(e.amount # 0, Line("NonMelee", e.amount))
    [] e.code = "add hp" -> <<Sign(e.amount, "Healing", "NonMelee")>>
    [] e.code = "add mp" -> <<Sign(e.amount, "ManaHealing", "ManaDrain")>>
    [] e.code = "add hp mp: hp" -> When(e.amount # 0, Sign(e.amount, "Healing", "NonMelee"))
    [] e.code = "add hp mp: mp" -> When(e.amount # 0, Sign(e.amount, "ManaHealing", "ManaDrain"))
    [] e.code = "chain heal" -> <<Sign(e.amount, "Healing", "NonMelee")>>
    [] e.code = "rebirth: hp" -> When(e.amount # 0, Line("Healing", e.amount))
    [] e.code = "rebirth: mp" -> When(e.amount # 0, Line("ManaHealing", e.amount))
    [] e.code = "no effect" -> When(e.missed, Line("NonMelee", 0))
    [] e.code = "state damage" -> <<Sign(e.amount, "NonMelee", "Healing")>>
    [] e.code = "state magic damage" -> <<Sign(e.amount, "ManaDrain", "ManaHealing")>>
    [] e.code = "state heal" -> <<Sign(e.amount, "Healing", "NonMelee")>>
    [] e.code = "state magic heal" -> <<Sign(e.amount, "ManaHealing", "ManaDrain")>>

\* onServerPacket, with sendCombatLogLine, which opens the file when it is not.
onServerPacket ==
  /\ \E h, g \in {h \in Handles : world[h].kind # "none"} :
     \E e \in {e \in [code : Codes, amount : -1 .. 1, missed : BOOLEAN] : e.missed => e.code \in {"attack", "no effect"}} :
       LET lines == LinesOf(e)
       IN  /\ line' = [event |-> <<e>>, who |-> <<h, g>>,
                       lines |-> [i \in DOMAIN lines |-> <<lines[i], getHandleName(h), getHandleName(g)>>]]
           /\ filter' = [filter EXCEPT !.file = @ \/ lines # None]
  /\ UNCHANGED <<world, count>>

Next ==
  \/ createFilter \/ onServerPacket
  \/ \E h \in Handles : onEnterMessage(h) \/ Leave(h)

-----------------------------------------------------------------------------
(* Properties *)

\* A line names who it is about: the one that has the handle now, however
\* often the filter was made anew; items have no name.
Named ==
  \A i \in DOMAIN line.lines : \A k \in {1, 2} :
    LET e == world[line.who[k]]
        name == line.lines[i][k + 1]
    IN  e.kind # "item" => Len(name) >= 2 /\ name[1] = e.kind /\ name[2] = e.number

\* Is it health or mana that the code of an event is about, and does the amount
\* in the packet count what is taken or what is given?
OfMana(code) == code \in {"attack mana", "add mp", "add hp mp: mp", "rebirth: mp", "state magic damage", "state magic heal"}
Takes(code) == code \in {"attack", "attack mana", "skill damage", "no effect", "state damage", "state magic damage"}
Raises(type) == type \in {"Healing", "ManaHealing"}
IsMana(type) == type \in {"ManaDrain", "ManaHealing"}

\* A line is about what the event is about, and tells a gain of a gain and a loss
\* of a loss, except where the code has one type for both.
ToldRight ==
  \A i \in DOMAIN line.lines :
    LET e == line.event[1]
        code == e.code
        type == line.lines[i][1].type
        gain == IF Takes(code) THEN e.amount < 0 ELSE e.amount >= 0
    IN  /\ IsMana(type) = OfMana(code)
        /\ code \notin {"attack mana", "skill damage", "no effect", "rebirth: hp", "rebirth: mp"} => Raises(type) = gain

\* Every event that changed something has its line.
Told == \A i \in DOMAIN line.event : line.event[i].amount # 0 /\ line.event[i].code # "no effect" => line.lines # << >>

CombatTold == Named /\ ToldRight /\ Told
=============================================================================
