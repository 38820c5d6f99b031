----------------------------- MODULE PacketTable -----------------------------
(***************************************************************************)
(* A packet on its way: PacketSession::sendPacket of one side,             *)
(* PacketMetadata::convertPacketIdToTypeId and TS_MESSAGE::process of the  *)
(* other, for every packet librzu declares, in every version it knows.     *)
(*                                                                         *)
(* A behaviour sends one packet.  pkt is its place in Registered, version  *)
(* the protocol version of both sides, contents what the packet holds.     *)
(***************************************************************************)
EXTENDS GameClientPackets, AuthPackets

CONSTANTS
  Versions,   \* the versions considered, flags included
  Sizes       \* the numbers of elements of vectors and strings

VARIABLES pkt, session, version, contents, phase, message, result

packetVars == <<pkt, session, version, contents, phase, message, result>>

\* iteratePackets: the order in which packets are registered.
RegisteredAuth == <<
  TS_AC_ACCOUNT_NAME, TS_AC_AES_KEY_IV, TS_AC_RESULT, TS_AC_RESULT_WITH_STRING, TS_AC_SELECT_SERVER,
  TS_AC_SERVER_LIST, TS_AC_UPDATE_PENDING_TIME, TS_CA_ACCOUNT, TS_CA_DISTRIBUTION_INFO,
  TS_CA_IMBC_ACCOUNT, TS_CA_OTP_ACCOUNT, TS_CA_RSA_PUBLIC_KEY, TS_CA_SELECT_SERVER, TS_CA_SERVER_LIST,
  TS_CA_VERSION>>
RegisteredGame == <<
  TS_CS_ACCOUNT, TS_CS_ACCOUNT_WITH_AUTH, TS_CS_ANTI_HACK, TS_CS_ARRANGE_ITEM, TS_CS_ATTACK_REQUEST,
  TS_CS_AUCTION_BID, TS_CS_AUCTION_BIDDED_LIST, TS_CS_AUCTION_CANCEL, TS_CS_AUCTION_INSTANT_PURCHASE,
  TS_CS_AUCTION_REGISTER, TS_CS_AUCTION_SEARCH, TS_CS_AUCTION_SELLING_LIST,
  TS_CS_BATTLE_ARENA_ABSENCE_CHECK_ANSWER, TS_CS_BATTLE_ARENA_ABSENCE_CHECK_REQUEST,
  TS_CS_BATTLE_ARENA_ENTER_WHILE_COUNTDOWN, TS_CS_BATTLE_ARENA_EXERCISE_READY,
  TS_CS_BATTLE_ARENA_EXERCISE_START, TS_CS_BATTLE_ARENA_JOIN_QUEUE, TS_CS_BATTLE_ARENA_LEAVE,
  TS_CS_BIND_SKILLCARD, TS_CS_BOOKMARK_TITLE, TS_CS_BUY_FROM_BOOTH, TS_CS_BUY_ITEM, TS_CS_CANCEL_ACTION,
  TS_CS_CHANGE_ALIAS, TS_CS_CHANGE_ITEM_POSITION, TS_CS_CHANGE_LOCATION, TS_CS_CHANGE_SECURITY_NO,
  TS_CS_CHANGE_SUMMON_NAME, TS_CS_CHARACTER_LIST, TS_CS_CHAT_REQUEST, TS_CS_CHECK_BOOTH_STARTABLE,
  TS_CS_CHECK_CHARACTER_NAME, TS_CS_CHECK_ILLEGAL_USER, TS_CS_CLEAR_SECURITY_NO, TS_CS_COMPETE_ANSWER,
  TS_CS_COMPETE_REQUEST, TS_CS_CONTACT, TS_CS_CREATE_CHARACTER, TS_CS_CREATE_SECURITY_NO, TS_CS_DECOMPOSE,
  TS_CS_DELETE_CHARACTER, TS_CS_DIALOG, TS_CS_DONATE_ITEM, TS_CS_DONATE_REWARD, TS_CS_DROP_ITEM,
  TS_CS_DROP_QUEST, TS_CS_EMOTION, TS_CS_END_QUEST, TS_CS_ENTER_EVENT_AREA, TS_CS_ERASE_ITEM,
  TS_CS_FOSTER_CREATURE, TS_CS_GAME_GUARD_AUTH_ANSWER, TS_CS_GAME_TIME, TS_CS_GET_BOOTHS_NAME,
  TS_CS_GET_REGION_INFO, TS_CS_GET_SUMMON_SETUP_INFO, TS_CS_GET_WEATHER_INFO, TS_CS_HIDE_EQUIP_INFO,
  TS_CS_HUNTAHOLIC_BEGIN_HUNTING, TS_CS_HUNTAHOLIC_CREATE_INSTANCE, TS_CS_HUNTAHOLIC_INSTANCE_LIST,
  TS_CS_HUNTAHOLIC_JOIN_INSTANCE, TS_CS_HUNTAHOLIC_LEAVE_INSTANCE, TS_CS_HUNTAHOLIC_LEAVE_LOBBY,
  TS_CS_INSTANCE_GAME_ENTER, TS_CS_INSTANCE_GAME_EXIT, TS_CS_INSTANCE_GAME_SCORE_REQUEST,
  TS_CS_ITEM_KEEPING_LIST, TS_CS_ITEM_KEEPING_TAKE, TS_CS_JOB_LEVEL_UP, TS_CS_LEARN_SKILL,
  TS_CS_LEAVE_EVENT_AREA, TS_CS_LOGIN, TS_CS_LOGOUT, TS_CS_MIX, TS_CS_MONSTER_RECOGNIZE,
  TS_CS_MOVE_REQUEST, TS_CS_NURSE_CREATURE, TS_CS_OPEN_ITEM_SHOP, TS_CS_PARTYMATCH_ACTION,
  TS_CS_PUTOFF_CARD, TS_CS_PUTOFF_ITEM, TS_CS_PUTON_CARD, TS_CS_PUTON_ITEM, TS_CS_PUTON_ITEM_SET,
  TS_CS_QUERY, TS_CS_QUEST_INFO, TS_CS_RANKING_TOP_RECORD, TS_CS_REGION_UPDATE, TS_CS_REPAIR_SOULSTONE,
  TS_CS_REPORT, TS_CS_REQUEST, TS_CS_REQUEST_CLEAR_SECURITY_NO, TS_CS_REQUEST_FARM_INFO,
  TS_CS_REQUEST_FARM_MARKET, TS_CS_REQUEST_LOGOUT, TS_CS_REQUEST_REMOVE_STATE, TS_CS_REQUEST_RETURN_LOBBY,
  TS_CS_REQUEST_SECURITY_NO_CHANGE, TS_CS_RESURRECTION, TS_CS_RETRIEVE_CREATURE, TS_CS_RETURN_LOBBY,
  TS_CS_SELL_ITEM, TS_CS_SELL_TO_BOOTH, TS_CS_SET_MAIN_TITLE, TS_CS_SET_PET_NAME, TS_CS_SET_PROPERTY,
  TS_CS_SET_SUB_TITLE, TS_CS_SKILL, TS_CS_SOULSTONE_CRAFT, TS_CS_START_BOOTH, TS_CS_STOP_BOOTH,
  TS_CS_STOP_WATCH_BOOTH, TS_CS_STORAGE, TS_CS_SUMMON, TS_CS_SUMMON_CARD_SKILL_LIST, TS_CS_SWAP_EQUIP,
  TS_CS_TAKEOUT_COMMERCIAL_ITEM, TS_CS_TAKE_ITEM, TS_CS_TARGETING, TS_CS_TRANSMIT_ETHEREAL_DURABILITY,
  TS_CS_TRANSMIT_ETHEREAL_DURABILITY_TO_EQUIPMENT, TS_CS_TURN_OFF_PK_MODE, TS_CS_TURN_ON_PK_MODE,
  TS_CS_UNBIND_SKILLCARD, TS_CS_UPDATE, TS_CS_USE_ITEM, TS_CS_VERSION, TS_CS_WATCH_BOOTH,
  TS_CS_XTRAP_CHECK, TS_EQUIP_SUMMON, TS_SC_ACHIEVE_TITLE, TS_SC_ADDED_SKILL_LIST, TS_SC_ADD_PET_INFO,
  TS_SC_ADD_SUMMON_INFO, TS_SC_ANTI_HACK, TS_SC_ATTACK_EVENT, TS_SC_AUCTION_BIDDED_LIST,
  TS_SC_AUCTION_SEARCH, TS_SC_AUCTION_SELLING_LIST, TS_SC_AURA, TS_SC_BATTLE_ARENA_ABSENCE_CHECK,
  TS_SC_BATTLE_ARENA_BATTLE_INFO, TS_SC_BATTLE_ARENA_BATTLE_SCORE, TS_SC_BATTLE_ARENA_BATTLE_STATUS,
  TS_SC_BATTLE_ARENA_DISCONNECT_BATTLE, TS_SC_BATTLE_ARENA_EXERCISE_READY_STATUS,
  TS_SC_BATTLE_ARENA_JOIN_BATTLE, TS_SC_BATTLE_ARENA_JOIN_QUEUE, TS_SC_BATTLE_ARENA_LEAVE,
  TS_SC_BATTLE_ARENA_PENALTY_INFO, TS_SC_BATTLE_ARENA_RECONNECT_BATTLE, TS_SC_BATTLE_ARENA_RESULT,
  TS_SC_BATTLE_ARENA_UPDATE_WAIT_USER_COUNT, TS_SC_BELT_SLOT_INFO, TS_SC_BONUS_EXP_JP,
  TS_SC_BOOKMARK_TITLE, TS_SC_BOOTH_CLOSED, TS_SC_BOOTH_TRADE_INFO, TS_SC_CANT_ATTACK,
  TS_SC_CHANGE_LOCATION, TS_SC_CHANGE_NAME, TS_SC_CHANGE_SECURITY_NO, TS_SC_CHANGE_TITLE_CONDITION,
  TS_SC_CHARACTER_LIST, TS_SC_CHAT, TS_SC_CHAT_LOCAL, TS_SC_CHAT_RESULT, TS_SC_CLEAR_SECURITY_NO,
  TS_SC_COMMERCIAL_STORAGE_INFO, TS_SC_COMMERCIAL_STORAGE_LIST, TS_SC_COMPETE_ANSWER,
  TS_SC_COMPETE_COUNTDOWN, TS_SC_COMPETE_END, TS_SC_COMPETE_REQUEST, TS_SC_COMPETE_START,
  TS_SC_CREATE_SECURITY_NO, TS_SC_DEATHMATCH_RANKING, TS_SC_DEATHMATCH_RANKING_OPEN,
  TS_SC_DEATHMATCH_RANKING_REOPEN, TS_SC_DECOMPOSE_RESULT, TS_SC_DESTROY_ITEM, TS_SC_DETECT_RANGE_UPDATE,
  TS_SC_DIALOG, TS_SC_DISCONNECT_DESC, TS_SC_DOUBLE_WEAPON_ATTACK_EVENT, TS_SC_DROP_RESULT, TS_SC_EMOTION,
  TS_SC_ENERGY, TS_SC_ENTER, TS_SC_ERASE_ITEM, TS_SC_EXP_UPDATE, TS_SC_FARM_INFO,
  TS_SC_GAME_GUARD_AUTH_QUERY, TS_SC_GAME_TIME, TS_SC_GENERAL_MESSAGE_BOX, TS_SC_GET_BOOTHS_NAME,
  TS_SC_GET_CHAOS, TS_SC_GOLD_UPDATE, TS_SC_HAIR_INFO, TS_SC_HIDE_EQUIP_INFO, TS_SC_HPMP,
  TS_SC_HUNTAHOLIC_BEGIN_COUNTDOWN, TS_SC_HUNTAHOLIC_BEGIN_HUNTING, TS_SC_HUNTAHOLIC_HUNTING_SCORE,
  TS_SC_HUNTAHOLIC_INSTANCE_INFO, TS_SC_HUNTAHOLIC_INSTANCE_LIST, TS_SC_HUNTAHOLIC_MAX_POINT_ACHIEVED,
  TS_SC_HUNTAHOLIC_UPDATE_SCORE, TS_SC_INSTANCE_GAME_SCORE_REQUEST, TS_SC_INVENTORY, TS_SC_ITEM_COOL_TIME,
  TS_SC_ITEM_DROP_INFO, TS_SC_ITEM_KEEPING_LIST, TS_SC_ITEM_WEAR_INFO, TS_SC_LEAVE, TS_SC_LEVEL_UPDATE,
  TS_SC_LOGIN_RESULT, TS_SC_MARKET, TS_SC_MIX_RESULT, TS_SC_MOUNT_SUMMON, TS_SC_MOVE, TS_SC_MOVE_ACK,
  TS_SC_NPC_TRADE_INFO, TS_SC_OPEN_GUILD_WINDOW, TS_SC_OPEN_ITEM_SHOP, TS_SC_OPEN_PAID_STORAGE,
  TS_SC_OPEN_STORAGE, TS_SC_OPEN_TITLE, TS_SC_OPEN_URL, TS_SC_PARTYMATCH_LIST, TS_SC_PARTYMATCH_MEMBER,
  TS_SC_PROPERTY, TS_SC_QUEST_INFOMATION, TS_SC_QUEST_LIST, TS_SC_QUEST_STATUS, TS_SC_RAGE,
  TS_SC_RANKING_TOP_RECORD, TS_SC_REGEN_HPMP, TS_SC_REGEN_INFO, TS_SC_REGION_ACK, TS_SC_REMAIN_TITLE_TIME,
  TS_SC_REMOVE_PET_INFO, TS_SC_REMOVE_SUMMON_INFO, TS_SC_REQUEST_SECURITY_NO, TS_SC_RESULT,
  TS_SC_RESULT_FOSTER, TS_SC_RESULT_NURSE, TS_SC_RESULT_RETRIEVE, TS_SC_SET_MAIN_TITLE,
  TS_SC_SET_SUB_TITLE, TS_SC_SET_TIME, TS_SC_SHOW_CREATE_ALLIANCE, TS_SC_SHOW_CREATE_GUILD,
  TS_SC_SHOW_SET_PET_NAME, TS_SC_SHOW_SOULSTONE_CRAFT_WINDOW, TS_SC_SHOW_SOULSTONE_REPAIR_WINDOW,
  TS_SC_SHOW_SUMMON_NAME_CHANGE, TS_SC_SHOW_WINDOW, TS_SC_SKILL, TS_SC_SKILLCARD_INFO,
  TS_SC_SKILL_CASTING_TIME, TS_SC_SKILL_LEVEL_LIST, TS_SC_SKILL_LIST, TS_SC_SKIN_INFO, TS_SC_SP,
  TS_SC_STATE, TS_SC_STATE_RESULT, TS_SC_STATUS_CHANGE, TS_SC_STAT_INFO, TS_SC_SUMMON_EVOLUTION,
  TS_SC_TAKE_ITEM_RESULT, TS_SC_TAMING_INFO, TS_SC_TARGET, TS_SC_TITLE_CONDITION_LIST, TS_SC_TITLE_LIST,
  TS_SC_UNMOUNT_SUMMON, TS_SC_UNSUMMON, TS_SC_UNSUMMON_NOTICE, TS_SC_UNSUMMON_PET,
  TS_SC_UPDATE_GUILD_ICON, TS_SC_UPDATE_ITEM_COUNT, TS_SC_URL_LIST, TS_SC_USE_ITEM_RESULT, TS_SC_WARP,
  TS_SC_WATCH_BOOTH, TS_SC_WEAR_INFO, TS_SC_WEATHER_INFO, TS_SC_XTRAP_CHECK, TS_SECURITY_NO, TS_TIMESYNC,
  TS_TRADE>>
RegisteredUpload == <<
  TS_CU_DOWNLOAD_ICON, TS_CU_LOGIN, TS_CU_UPLOAD, TS_UC_DOWNLOAD_ICON, TS_UC_LOGIN_RESULT, TS_UC_UPLOAD>>
Registered == RegisteredAuth \o RegisteredGame \o RegisteredUpload

\* The parts of a layout, at every depth.
RECURSIVE Fields(_)
Fields(L) ==
  UNION {IF L[i].kind \in {"in", "part", "when", "repeat", "list", "endlist"}
         THEN {[kind |-> L[i].kind, name |-> IF L[i].kind = "when" THEN L[i].name ELSE ""]} \cup Fields(L[i].of)
         ELSE {[kind |-> IF L[i].kind = "count" /\ L[i].from > Oldest THEN "default" ELSE L[i].kind, name |-> ""]}
         : i \in DOMAIN L}
Kinds(L) == {f.kind : f \in Fields(L)}
TagsOf(L) == {f.name : f \in Fields(L)}

\* Values of the fields that conditions name: TS_SC_ENTER__OBJ_TYPE,
\* TS_SKILL__TYPE, TS_SKILL__HIT_TYPE and the type of an item.
TagValues ==
  [objType |-> 0..7, skillType |-> 0..5, hitType |-> {0, 1, 2, 10, 20, 21, 22, 23, 30, 40, 41, 42, 100},
   itemType |-> 0..4]

\* The contents a caller may give to packet p: any number of elements where
\* there are any, but at least one where old versions always send one.
ContentsOf(p) ==
  LET kinds == Kinds(p.of)
      dynamic == kinds \cap {"count", "default", "endarray", "endlist", "endstr"} # {}
      n == IF ~dynamic THEN {0} ELSE IF "default" \in kinds THEN Sizes \ {0} ELSE Sizes
  IN [n : n, tags : [objType : IF "objType" \in TagsOf(p.of) THEN TagValues.objType ELSE {0},
                     skillType : IF "skillType" \in TagsOf(p.of) THEN TagValues.skillType ELSE {0},
                     hitType : IF "hitType" \in TagsOf(p.of) THEN TagValues.hitType ELSE {0},
                     itemType : IF "itemType" \in TagsOf(p.of) THEN TagValues.itemType ELSE {0}]]

None == [none |-> TRUE]

packetInit ==
  /\ pkt \in DOMAIN Registered
  /\ session = IF Registered[pkt].session = "Any" THEN "GameClient" ELSE Registered[pkt].session
  /\ contents \in ContentsOf(Registered[pkt])
  /\ version \in Versions
  /\ phase = "built" /\ message = None /\ result = None

-----------------------------------------------------------------------------
\* The size of a packet: that of its structure and seven bytes of header.
StructSize(p, v, c) == getSize(p.of, v, c)
PacketSize(p, v, c) == HeaderBytes + getSize(p.of, v, c)

\* PacketSession::sendPacket: a packet whose serialization does not fit the
\* size that was computed for it aborts the session.
sendPacket ==
  LET p == Registered[pkt]
      size == PacketSize(p, version, contents)
      buffer == serialize(p.of, version, contents, MessageBuffer(size, <<>>))
  IN /\ phase = "built"
     /\ IF checkPacketFinalSize(buffer)
        THEN /\ phase' = "sent"
             /\ message' = [id |-> getId(p, version), size |-> size, wire |-> buffer.wire, said |-> buffer.said]
        ELSE /\ phase' = "refused"
             /\ message' = [size |-> size]
     /\ UNCHANGED <<pkt, session, version, contents, result>>

-----------------------------------------------------------------------------
\* Whether a registered packet may be what a session receives from origin.
Fits(p, sess, origin) == p.session \in {"Any", sess} /\ p.origin \in {"Any", origin}

\* getPacketMetadata: packetsInfo lists a packet under each of its identifiers,
\* in the order of registration.
getPacketMetadata(id, sess, origin, v) ==
  SelectInSeq(Registered, LAMBDA p : id \in PACKET_IDS(p) /\ Fits(p, sess, origin) /\ getId(p, v) = id)

\* convertPacketIdToTypeId: an unknown identifier stands for itself.
convertPacketIdToTypeId(id, sess, origin, v) ==
  LET i == getPacketMetadata(id, sess, origin, v)
  IN IF i # 0 THEN packetID(Registered[i]) ELSE id

\* processPacket: the case whose packetID is the type; 0 when there is none.
processPacket(type, sess, origin) == SelectInSeq(Registered, LAMBDA p : packetID(p) = type /\ Fits(p, sess, origin))

\* The side a packet comes from.
OriginOf(p) == IF p.origin = "Any" THEN {"Server", "Client"} ELSE {p.origin}

\* TS_MESSAGE::process, for the type the identifier stands for; the dummy
\* packet 9999 is ignored.
process ==
  /\ phase = "sent"
  /\ \E origin \in OriginOf(Registered[pkt]) :
     \E type \in {convertPacketIdToTypeId(message.id, session, origin, version)} :
     \E i \in {processPacket(type, session, origin)} :
       IF i = 0 \/ message.id = 9999 THEN phase' = "unknown" /\ result' = None
       ELSE \E buffer \in {deserialize(Registered[i].of, version, MessageBuffer(message.size, message.wire))} :
              IF checkPacketFinalSize(buffer)
              THEN phase' = "processed" /\ result' = [type |-> i, said |-> buffer.said, astray |-> buffer.astray]
              ELSE phase' = "invalid" /\ result' = [type |-> i]
  /\ UNCHANGED <<pkt, session, version, contents, message>>

packetNext == sendPacket \/ process

-----------------------------------------------------------------------------
\* In every version an identifier means one packet: what is received is taken
\* for the packet that was sent, whatever identifiers it has in other versions.
Recognized == phase \in {"processed", "invalid"} => result.type = pkt

\* What is sent is read back to the last byte, with the same sizes of every
\* vector and string: no count, condition or padding is read differently.
RoundTrip == phase # "unknown" /\ phase # "invalid" /\
  (phase = "processed" => result.said = message.said /\ ~result.astray)

\* getSize announces exactly what serialize writes: a packet is refused, and
\* the session aborted, only for a field of 64 kilobytes or more.
RefusedOnlyWhenHuge == phase = "refused" => message.size >= 65536

\* Whatever packet is sent, in any epic, the other side understands: it is
\* recognised, read back as written, and its announced size is right.
Understood == Recognized /\ RoundTrip /\ RefusedOnlyWhenHuge
=============================================================================
