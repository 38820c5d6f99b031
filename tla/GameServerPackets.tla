---------------------------- MODULE GameServerPackets ----------------------------
(***************************************************************************)
(* The packets a game server sends (packets/GameClient/TS_SC_*.h), those   *)
(* both sides send, and the structures they are made of: one definition    *)
(* per CREATE_STRUCT or CREATE_PACKET_VER_ID, in the vocabulary of         *)
(* PacketLayout.                                                           *)
(***************************************************************************)
EXTENDS PacketLayout

\* Structures of an item whose presence depends on its type since EPIC_9_8_1,
\* or that are always there.
Extra(typed, k, L) == IF typed THEN When("itemType", k..32767, L) ELSE Part(L)

SC(ids, L) == Packet("GameClient", "Server", ids, L)
AnySC(ids, L) == Packet("Any", "Server", ids, L)
Both(ids, L) == Packet("GameClient", "Any", ids, L)

TS_EQUIP_SUMMON == Both(Ids(303, EPIC_9_6_3, 1303), <<Bytes(25)>>)
TS_SC_ACHIEVE_TITLE == SC(Ids(634, EPIC_9_6_3, 1634), <<Bytes(4)>>)
TS_ADDED_SKILL_LIST == <<Bytes(6)>>
TS_SC_ADDED_SKILL_LIST == SC(Ids(404, EPIC_9_6_3, 1404), <<Bytes(4), Count(U16, "skills"),
    List("skills", TS_ADDED_SKILL_LIST)>>)
TS_SC_ADD_PET_INFO == SC(Ids(351, EPIC_9_6_3, 1351), <<Bytes(8), Changed(EPIC_9_6, 19, 20), Bytes(4)>>)
TS_SC_ADD_SUMMON_INFO == SC(Ids(301, EPIC_9_6_3, 1301), <<Bytes(8), Changed(EPIC_9_6, 19, 20),
    Bytes(12)>>)
TS_SC_ANTI_HACK == SC(Ids(53, EPIC_9_6_3, 1053), <<Bytes(402)>>)
ATTACK_INFO == <<Changed(EPIC_7_3, 4, 8), Mark("flag_padding"), Bytes(1),
    In(EPIC_9_6_2, Newest, <<Pad(4, "flag_padding")>>), Changed(EPIC_7_3, 14, 28), Bytes(4),
    Changed(EPIC_7_3, 6, 12), Bytes(4), Changed(EPIC_7_3, 2, 4)>>
TS_SC_ATTACK_EVENT == SC(Ids(101, EPIC_9_6_3, 1101), <<Bytes(14), Count(U8, "attack"),
    List("attack", ATTACK_INFO)>>)
TS_ITEM_SOCKETS == <<Bytes(16), Before(EPIC_6_1, 8)>>
TS_ITEM_AWAKEN_OPTION == <<Changed(EPIC_9_8_0, 40, 56)>>
TS_ITEM_RANDOM_STATS == <<Before(EPIC_9_6_1, 40), Within(EPIC_9_6_1, EPIC_9_8_1, 28),
    Since(EPIC_9_8_1, 14), Before(EPIC_9_6_1, 80), Within(EPIC_9_6_1, EPIC_9_6_7, 56),
    Within(EPIC_9_6_7, EPIC_9_8_1, 28), Since(EPIC_9_8_1, 28), Before(EPIC_9_6_1, 80),
    Within(EPIC_9_6_1, EPIC_9_6_7, 56), Since(EPIC_9_6_7, 28)>>
TS_ITEM_ELEMENTAL_EFFECT == <<Changed(EPIC_9_8_1, 13, 10)>>
TS_ITEM_BASE_INFO(typed) == <<Bytes(16), Changed(EPIC_4_1_1, 4, 8), Since(EPIC_9_8_1, 8),
    Within(EPIC_6_3, EPIC_9_8_1, 4), Before(EPIC_4_1, 2), Within(EPIC_4_1, EPIC_9_8_1, 4), Bytes(2),
    Since(EPIC_9_2, 2), Since(EPIC_9_8_1, 20), Before(EPIC_9_8_1, 4),
    In(Oldest, EPIC_9_8_1, <<Part(TS_ITEM_SOCKETS)>>), In(EPIC_9_8_1, Newest, <<Extra(typed, 2, TS_ITEM_SOCKETS)>>),
    In(EPIC_8_1, EPIC_9_8_1, <<Part(TS_ITEM_AWAKEN_OPTION)>>),
    In(EPIC_9_8_1, Newest, <<Extra(typed, 3, TS_ITEM_AWAKEN_OPTION)>>),
    In(EPIC_8_2, EPIC_9_8_1, <<Part(TS_ITEM_RANDOM_STATS)>>),
    In(EPIC_9_8_1, Newest, <<Extra(typed, 3, TS_ITEM_RANDOM_STATS)>>), Before(EPIC_9_8_1, 4),
    In(EPIC_6_1, EPIC_9_8_1, <<Part(TS_ITEM_ELEMENTAL_EFFECT)>>),
    In(EPIC_9_8_1, Newest, <<Extra(typed, 4, TS_ITEM_ELEMENTAL_EFFECT)>>), Within(EPIC_7_4, EPIC_9_8_1, 4),
    Within(EPIC_8_2, EPIC_9_8_1, 4), Within(EPIC_9_6_1, EPIC_9_8_1, 4)>>
TS_ITEM_FIXED_INFO == <<Since(EPIC_9_8_1, 10)>> \o TS_ITEM_BASE_INFO(FALSE)
TS_AUCTION_INFO == <<Bytes(4), Part(TS_ITEM_FIXED_INFO), Bytes(17)>>
TS_BIDDED_AUCTION_LIST == <<Part(TS_AUCTION_INFO), Bytes(1)>>
TS_SC_AUCTION_BIDDED_LIST == SC(Ids(1305, EPIC_9_6_3, 2305), <<Bytes(12),
    Repeat(40, TS_BIDDED_AUCTION_LIST)>>)
TS_SEARCHED_AUCTION_INFO == <<Part(TS_AUCTION_INFO), Bytes(32)>>
TS_SC_AUCTION_SEARCH == SC(Ids(1301, EPIC_9_6_3, 2301), <<Bytes(12),
    Repeat(40, TS_SEARCHED_AUCTION_INFO)>>)
TS_REGISTERED_AUCTION_INFO == <<Part(TS_AUCTION_INFO), Bytes(1)>>
TS_SC_AUCTION_SELLING_LIST == SC(Ids(1303, EPIC_9_6_3, 2303), <<Bytes(12),
    Repeat(40, TS_REGISTERED_AUCTION_INFO)>>)
TS_SC_AURA == SC(Ids(407, EPIC_9_6_3, 1407), <<Bytes(7)>>)
TS_SC_BATTLE_ARENA_ABSENCE_CHECK == SC(Id(4718), <<Bytes(4)>>)
TS_BATTLE_ARENA_PLAYER_INFO == <<Bytes(8), Changed(EPIC_9_6, 19, 20)>>
TS_SC_BATTLE_ARENA_BATTLE_INFO == SC(Id(4706), <<Bytes(20), Count(I8, "team_1"), Count(I8, "team_2"),
    List("team_1", TS_BATTLE_ARENA_PLAYER_INFO), List("team_2", TS_BATTLE_ARENA_PLAYER_INFO)>>)
TS_BATTLE_ARENA_TEAM_SCORE == <<Bytes(6)>>
TS_BATTLE_ARENA_PLAYER_SCORE == <<Changed(EPIC_9_6, 19, 20), Bytes(10)>>
TS_SC_BATTLE_ARENA_BATTLE_SCORE == SC(Id(4712), <<Repeat(2, TS_BATTLE_ARENA_TEAM_SCORE),
    Count(I8, "nPlayerScore"), List("nPlayerScore", TS_BATTLE_ARENA_PLAYER_SCORE)>>)
TS_SC_BATTLE_ARENA_BATTLE_STATUS == SC(Id(4711), <<Bytes(4)>>)
TS_SC_BATTLE_ARENA_DISCONNECT_BATTLE == SC(Id(4714), <<Bytes(4)>>)
TS_SC_BATTLE_ARENA_EXERCISE_READY_STATUS == SC(Id(4709), <<Bytes(4)>>)
TS_SC_BATTLE_ARENA_JOIN_BATTLE == SC(Id(4713), <<Bytes(12), Changed(EPIC_9_6, 19, 20)>>)
TS_SC_BATTLE_ARENA_JOIN_QUEUE == SC(Id(4702), <<Bytes(8)>>)
TS_SC_BATTLE_ARENA_LEAVE == SC(Id(4705), <<Bytes(4), Changed(EPIC_9_6, 19, 20)>>)
TS_SC_BATTLE_ARENA_PENALTY_INFO == SC(Id(4700), <<Bytes(12)>>)
TS_SC_BATTLE_ARENA_RECONNECT_BATTLE == SC(Id(4715), <<Changed(EPIC_9_6, 19, 20), Bytes(4)>>)
TS_ARENA_MVP == <<Changed(EPIC_9_6, 19, 20)>>
TS_SC_BATTLE_ARENA_RESULT == SC(Id(4716), <<Bytes(12), Count(I8, "MVPs"), List("MVPs", TS_ARENA_MVP)>>)
TS_SC_BATTLE_ARENA_UPDATE_WAIT_USER_COUNT == SC(Id(4703), <<Bytes(4)>>)
TS_SC_BELT_SLOT_INFO == SC(Ids(216, EPIC_9_6_3, 1216), <<Changed(EPIC_9_5, 24, 32)>>)
TS_BONUS_INFO == <<Bytes(4), Since(EPIC_5_1, 4), Changed(EPIC_6_1, 4, 8), Bytes(4)>>
TS_SC_BONUS_EXP_JP == SC(Ids(1004, EPIC_9_6_3, 2004), <<Bytes(4), Count(U16, "bonus"),
    List("bonus", TS_BONUS_INFO)>>)
TS_SC_BOOKMARK_TITLE == SC(Ids(633, EPIC_9_6_3, 1633), <<Bytes(5)>>)
TS_SC_BOOTH_CLOSED == SC(Ids(709, EPIC_9_6_3, 1709), <<Bytes(4)>>)
TS_ITEM_FIXED_BASE_INFO == TS_ITEM_BASE_INFO(FALSE)
TS_BOOTH_TRADE_ITEM_INFO == <<Since(EPIC_9_8_1, 10), Part(TS_ITEM_FIXED_BASE_INFO),
    Before(EPIC_9_8_1, 8)>>
TS_SC_BOOTH_TRADE_INFO == SC(Ids(710, EPIC_9_6_3, 1710), <<Bytes(5), Count(U16, "trades"),
    List("trades", TS_BOOTH_TRADE_ITEM_INFO)>>)
TS_SC_CANT_ATTACK == SC(Ids(102, EPIC_9_6_3, 1102), <<Bytes(12)>>)
TS_SC_CHANGE_LOCATION == SC(Ids(901, EPIC_9_6_3, 1901), <<Bytes(8)>>)
TS_SC_CHANGE_NAME == SC(Ids(30, EPIC_9_6_3, 1030), <<Bytes(4), Changed(EPIC_9_6, 19, 20)>>)
TS_SC_CHANGE_SECURITY_NO == SC(Ids(9009, EPIC_9_6_3, 8109), <<>>)
TS_SC_CHANGE_TITLE_CONDITION == SC(Ids(636, EPIC_9_6_3, 1636), <<Bytes(12)>>)
LOBBY_CHARACTER_INFO == <<Bytes(28), Since(EPIC_7_1, 12), Since(EPIC_6_3, 4), Before(EPIC_4_1, 56),
    Within(EPIC_4_1, EPIC_9_5, 96), Within(EPIC_9_5, EPIC_9_6, 112), Within(EPIC_9_6, EPIC_9_6_7, 128),
    Within(EPIC_9_6_7, EPIC_9_7_2, 96), Bytes(29), Changed(EPIC_9_6, 19, 20), Since(EPIC_4_1, 4),
    Before(EPIC_9_6_7, 60), Since(EPIC_9_7_2, 40), Before(EPIC_4_1, 56), Within(EPIC_4_1, EPIC_9_5, 96),
    Within(EPIC_9_5, EPIC_9_6, 112), Within(EPIC_9_6, EPIC_9_6_7, 128),
    Within(EPIC_9_6_7, EPIC_9_7_2, 24), Before(EPIC_4_1, 56), Within(EPIC_4_1, EPIC_9_5, 96),
    Within(EPIC_9_5, EPIC_9_6, 112), Within(EPIC_9_6, EPIC_9_6_7, 128),
    Within(EPIC_9_6_7, EPIC_9_7_2, 24), Within(EPIC_6_1, EPIC_9_5, 24), Within(EPIC_9_5, EPIC_9_6, 28),
    Within(EPIC_9_6, EPIC_9_6_7, 32), Within(EPIC_9_6_7, EPIC_9_7_2, 24),
    Within(EPIC_7_4, EPIC_9_5, 96), Within(EPIC_9_5, EPIC_9_6, 112), Within(EPIC_9_6, EPIC_9_6_7, 128),
    Within(EPIC_9_6_7, EPIC_9_7_2, 96), Since(EPIC_9_7_2, 10)>>
TS_SC_CHARACTER_LIST == SC(Ids(2004, EPIC_9_6_3, 2404), <<Bytes(4), Since(EPIC_4_1, 2),
    Count(U16, "characters"), List("characters", LOBBY_CHARACTER_INFO)>>)
TS_SC_CHAT == SC(Ids(22, EPIC_9_6_3, 1022), <<Bytes(21), Count(U16, "message"), Bytes(1),
    Str("message", 1)>>)
TS_SC_CHAT_LOCAL == SC(Ids(21, EPIC_9_6_3, 1021), <<Bytes(4), Count(U8, "message"), Bytes(1),
    Str("message", 1)>>)
TS_SC_CHAT_RESULT == SC(Ids(24, EPIC_9_6_3, 1024), <<Bytes(10)>>)
TS_SC_CLEAR_SECURITY_NO == SC(Ids(9011, EPIC_9_6_3, 8111), <<Bytes(1)>>)
TS_SC_COMMERCIAL_STORAGE_INFO == SC(Ids(10003, EPIC_9_6_3, 9003), <<Bytes(4)>>)
TS_COMMERCIAL_ITEM_INFO == <<Bytes(10)>>
TS_SC_COMMERCIAL_STORAGE_LIST == SC(Ids(10004, EPIC_9_6_3, 9004), <<Count(U16, "items"),
    List("items", TS_COMMERCIAL_ITEM_INFO)>>)
TS_SC_COMPETE_ANSWER == SC(Id(4503), <<Bytes(33)>>)
TS_SC_COMPETE_COUNTDOWN == SC(Id(4504), <<Bytes(36)>>)
TS_SC_COMPETE_END == SC(Id(4506), <<Bytes(64)>>)
TS_SC_COMPETE_REQUEST == SC(Id(4501), <<Bytes(32)>>)
TS_SC_COMPETE_START == SC(Id(4505), <<Bytes(32)>>)
TS_SC_CREATE_SECURITY_NO == SC(Ids(9002, EPIC_9_6_3, 8102), <<>>)
TS_DEATHMATCH_RANKING_INFO == <<Bytes(16), Changed(EPIC_9_6_5, 16, 20)>>
TS_SC_DEATHMATCH_RANKING == SC(Id(4301), <<Bytes(4), Repeat(30, TS_DEATHMATCH_RANKING_INFO)>>)
TS_SC_DEATHMATCH_RANKING_OPEN == SC(Id(4300), <<Repeat(5, TS_DEATHMATCH_RANKING_INFO)>>)
TS_SC_DEATHMATCH_RANKING_REOPEN == SC(Id(4302), <<Bytes(4)>>)
TS_DECOMPOSE_INFO == <<Bytes(8)>>
TS_SC_DECOMPOSE_RESULT == SC(Ids(266, EPIC_9_6_3, 1266), <<Count(U32, "decompositions"),
    List("decompositions", TS_DECOMPOSE_INFO)>>)
TS_SC_DESTROY_ITEM == SC(Ids(254, EPIC_9_6_3, 1254), <<Bytes(4)>>)
TS_SC_DETECT_RANGE_UPDATE == SC(Ids(1005, EPIC_9_6_3, 2005), <<Bytes(8)>>)
TS_SC_DIALOG == SC(Id(3000), <<Bytes(8), Count(U16, "title"), Count(U16, "text"), Count(U16, "menu"),
    In(EPIC_9_6_2, Newest, <<Count(U16, "script")>>), Str("title", 0), Str("text", 0), Str("menu", 0),
    In(EPIC_9_6_2, Newest, <<Str("script", 0)>>)>>)
TS_SC_DISCONNECT_DESC == SC(Ids(28, EPIC_9_6_3, 1028), <<Bytes(1)>>)
TS_SC_DOUBLE_WEAPON_ATTACK_EVENT == SC(Ids(103, EPIC_9_6_3, 1103), <<Bytes(31)>>)
TS_SC_DROP_RESULT == SC(Ids(205, EPIC_9_6_3, 1205), <<Bytes(5)>>)
TS_SC_EMOTION == SC(Ids(1201, EPIC_9_6_3, 2201), <<Bytes(8)>>)
TS_SC_ENERGY == SC(Ids(515, EPIC_9_6_3, 1515), <<Bytes(6)>>)
TS_SC_ENTER__ITEM_PICK_UP_ORDER == <<Bytes(28), Since(EPIC_9_6_7, 4)>>
TS_SC_ENTER__ITEM_INFO == <<Bytes(8), Changed(EPIC_4_1, 4, 8), Part(TS_SC_ENTER__ITEM_PICK_UP_ORDER)>>
TS_SC_ENTER__SKILL_INFO == <<Since(EPIC_4_1, 4), Bytes(8)>>
TS_SC_ENTER__FIELD_PROP_INFO == <<Bytes(24), Since(EPIC_4_1, 13)>>
TS_SC_ENTER__CREATURE_INFO == <<Bytes(28), Before(EPIC_9_6_7, 1), Within(EPIC_4_1, EPIC_9_6_7, 4),
    Before(EPIC_9_6_7, 1), Within(EPIC_4_1, EPIC_9_6_7, 4)>>
TS_SC_ENTER__MONSTER_INFO == <<Part(TS_SC_ENTER__CREATURE_INFO), Since(EPIC_9_6_7, 4), Bytes(9)>>
TS_SC_ENTER__SUMMON_INFO == <<Part(TS_SC_ENTER__CREATURE_INFO), Bytes(12), Within(EPIC_3, EPIC_9_6, 19),
    Since(EPIC_9_6, 20), Since(EPIC_7_1, 1)>>
TS_SC_ENTER__NPC_INFO == <<In(Oldest, EPIC_9_6_7, <<Part(TS_SC_ENTER__CREATURE_INFO)>>),
    Since(EPIC_9_6_7, 8), Bytes(8)>>
TS_SC_ENTER__PLAYER_INFO == <<Part(TS_SC_ENTER__CREATURE_INFO), Since(EPIC_9_6_7, 8), Bytes(5),
    Since(EPIC_6_3, 4), Bytes(4), Since(EPIC_7_1, 12), Changed(EPIC_9_6, 19, 20), Bytes(10),
    Since(EPIC_8_1, 4), Since(EPIC_9_3, 4), Before(EPIC_4_1, 4), Since(EPIC_9_6_7, 4)>>
TS_SC_ENTER__PET_INFO == <<In(Oldest, EPIC_9_6_7, <<Part(TS_SC_ENTER__CREATURE_INFO)>>),
    Since(EPIC_9_6_7, 12), Bytes(12), Changed(EPIC_9_6, 19, 20)>>
TS_SC_ENTER == SC(Ids(3, EPIC_9_6_3, 1003), <<Bytes(1),
    In(EPIC_9_6_7, Newest, <<Tag("objType", 1), Bytes(2)>>), Bytes(16), Before(EPIC_9_6_7, 1),
    In(Oldest, EPIC_9_6_7, <<Tag("objType", 1)>>), When("objType", {0}, TS_SC_ENTER__PLAYER_INFO),
    When("objType", {1}, TS_SC_ENTER__NPC_INFO), When("objType", {2}, TS_SC_ENTER__ITEM_INFO),
    When("objType", {3}, TS_SC_ENTER__MONSTER_INFO), When("objType", {4}, TS_SC_ENTER__SUMMON_INFO),
    When("objType", {5}, TS_SC_ENTER__SKILL_INFO), When("objType", {6}, TS_SC_ENTER__FIELD_PROP_INFO),
    When("objType", {7}, TS_SC_ENTER__PET_INFO)>>)
TS_ERASE_ITEM_INFO_RESULT == <<Bytes(12)>>
TS_SC_ERASE_ITEM == SC(Ids(209, EPIC_9_6_3, 1209), <<Count(I8, "erased_items"),
    List("erased_items", TS_ERASE_ITEM_INFO_RESULT)>>)
TS_SC_EXP_UPDATE == SC(Ids(1003, EPIC_9_6_3, 2003), <<Bytes(12), Changed(EPIC_7_3, 4, 8)>>)
TS_FARM_SUMMON_INFO == <<Bytes(12), Since(EPIC_9_8_1, 8), Changed(EPIC_9_6, 19, 20), Bytes(14),
    Part(TS_ITEM_FIXED_INFO)>>
TS_SC_FARM_INFO == SC(Id(6001), <<Count(I8, "summons"), List("summons", TS_FARM_SUMMON_INFO)>>)
TS_GAME_GUARD_AUTH_V1 == <<Bytes(16)>>
TS_GAME_GUARD_AUTH_V2 == <<Count(U16, "data"), Bytes(2), Array("data", 1)>>
TS_GAME_GUARD_AUTH == <<In(Oldest, EPIC_9_1, <<Part(TS_GAME_GUARD_AUTH_V1)>>),
    In(EPIC_9_1, Newest, <<Part(TS_GAME_GUARD_AUTH_V2)>>)>>
TS_SC_GAME_GUARD_AUTH_QUERY == SC(Ids(55, EPIC_9_6_3, 1055), <<Part(TS_GAME_GUARD_AUTH)>>)
TS_SC_GAME_TIME == SC(Ids(1101, EPIC_9_6_3, 2101), <<Bytes(4), Changed(EPIC_4_1_1, 4, 8)>>)
TS_SC_GENERAL_MESSAGE_BOX == SC(Id(3004), <<Count(U16, "text"), Str("text", 0)>>)
TS_BOOTH_NAME == <<Bytes(53)>>
TS_SC_GET_BOOTHS_NAME == SC(Ids(708, EPIC_9_6_3, 1708), <<Count(I32, "booths"),
    List("booths", TS_BOOTH_NAME)>>)
TS_SC_GET_CHAOS == SC(Ids(213, EPIC_9_6_3, 1213), <<Bytes(12), Within(EPIC_4_1, EPIC_9_6_2, 1),
    Since(EPIC_9_6_2, 4), Within(EPIC_4_1, EPIC_9_6_2, 1), Since(EPIC_9_6_2, 4), Since(EPIC_4_1, 4)>>)
TS_SC_GOLD_UPDATE == SC(Ids(1001, EPIC_9_6_3, 2001), <<Changed(EPIC_4_1_1, 4, 8),
    Since(EPIC_4_1_1 + 1, 4)>>)
TS_SC_HAIR_INFO == SC(Ids(220, EPIC_9_6_3, 1220), <<Bytes(16)>>)
TS_SC_HIDE_EQUIP_INFO == SC(Ids(222, EPIC_9_6_3, 1222), <<Bytes(8)>>)
TS_SC_HPMP == SC(Ids(509, EPIC_9_6_3, 1509), <<Bytes(16), Changed(EPIC_4_1, 6, 12),
    Since(EPIC_4_1, 1)>>)
TS_SC_HUNTAHOLIC_BEGIN_COUNTDOWN == SC(Id(4012), <<>>)
TS_SC_HUNTAHOLIC_BEGIN_HUNTING == SC(Id(4009), <<Bytes(4)>>)
TS_SC_HUNTAHOLIC_HUNTING_SCORE == SC(Id(4006), <<Bytes(41)>>)
TS_HUNTAHOLIC_INSTANCE_INFO == <<Bytes(38)>>
TS_SC_HUNTAHOLIC_INSTANCE_INFO == SC(Id(4002), <<Part(TS_HUNTAHOLIC_INSTANCE_INFO)>>)
TS_SC_HUNTAHOLIC_INSTANCE_LIST == SC(Id(4001), <<Bytes(8), Count(I32, "infos"), Bytes(4),
    List("infos", TS_HUNTAHOLIC_INSTANCE_INFO)>>)
TS_SC_HUNTAHOLIC_MAX_POINT_ACHIEVED == SC(Id(4010), <<>>)
TS_SC_HUNTAHOLIC_UPDATE_SCORE == SC(Id(4007), <<Bytes(8)>>)
TS_SC_INSTANCE_GAME_SCORE_REQUEST == SC(Id(4253), <<Bytes(16), Since(EPIC_8_1, 32)>>)
TS_ITEM_DYNAMIC_INFO(typed) ==
  <<In(EPIC_9_8_1, Newest, <<Tag("itemType", 2), Bytes(8)>>)>> \o TS_ITEM_BASE_INFO(typed)
    \o <<Before(EPIC_9_8_1, 6), Within(EPIC_4_1_1, EPIC_9_8_1, 4)>>
TS_ITEM_TRADE_INFO == TS_ITEM_DYNAMIC_INFO(FALSE)
TS_ITEM_INFO == TS_ITEM_DYNAMIC_INFO(TRUE)
TS_SC_INVENTORY == SC(Ids(207, EPIC_9_6_3, 1207), <<Count(U16, "items"), List("items", TS_ITEM_INFO)>>)
TS_SC_ITEM_COOL_TIME == SC(Ids(217, EPIC_9_6_3, 1217), <<Changed(EPIC_6_2, 80, 160)>>)
TS_SC_ITEM_DROP_INFO == SC(Ids(282, EPIC_9_6_3, 1282), <<Bytes(8)>>)
TS_ITEM_KEEPING_INFO == <<Bytes(4), Part(TS_ITEM_FIXED_INFO), Bytes(17)>>
TS_SC_ITEM_KEEPING_LIST == SC(Ids(1351, EPIC_9_6_3, 2351), <<Bytes(12),
    Repeat(40, TS_ITEM_KEEPING_INFO)>>)
TS_SC_ITEM_WEAR_INFO == SC(Ids(287, EPIC_9_6_3, 1287), <<Bytes(14), Since(EPIC_6_1, 1),
    Since(EPIC_7_4, 4)>>)
TS_SC_LEAVE == SC(Ids(9, EPIC_9_6_3, 1009), <<Bytes(4)>>)
TS_SC_LEVEL_UPDATE == SC(Ids(1002, EPIC_9_6_3, 2002), <<Bytes(12)>>)
TS_SC_LOGIN_RESULT == SC(<<Alias(4, Oldest, EPIC_9_2), Alias(64, EPIC_9_2, EPIC_9_6_3),
    Alias(1064, EPIC_9_6_3, Newest)>>, <<Changed(EPIC_7_1, 1, 2), Bytes(16), Changed(EPIC_9_6_2, 1, 4),
    Bytes(12), Changed(EPIC_7_3, 2, 4), Bytes(4), Changed(EPIC_7_3, 2, 4),
    Within(EPIC_4_1, EPIC_8_2, 8), Bytes(8), Since(EPIC_4_1, 4), Bytes(8), Changed(EPIC_9_6, 19, 20),
    Bytes(8), Since(EPIC_9_2, 4), Since(EPIC_9_6_2, 4)>>)
TS_MARKET_ITEM_INFO == <<Bytes(4), Changed(EPIC_4_1_1, 4, 8), Since(EPIC_5_2, 4), Since(EPIC_8_1, 4)>>
TS_SC_MARKET == SC(Ids(250, EPIC_9_6_3, 1250), <<Bytes(4), Count(U16, "items"),
    List("items", TS_MARKET_ITEM_INFO), Mark("item_list_marker"),
    PadPer(4, "items", "item_list_marker")>>)
TS_SC_MIX_RESULT == SC(Ids(257, EPIC_9_6_3, 1257), <<Count(U32, "handles"), Since(EPIC_8_1, 1),
    Array("handles", 4)>>)
TS_SC_MOUNT_SUMMON == SC(Ids(320, EPIC_9_6_3, 1320), <<Bytes(17)>>)
MOVE_INFO == <<Bytes(8)>>
TS_SC_MOVE == SC(Ids(8, EPIC_9_6_3, 1008), <<Bytes(10), Count(U16, "move_infos"),
    List("move_infos", MOVE_INFO)>>)
TS_SC_MOVE_ACK == SC(<<Alias(6, Oldest, EPIC_9_2), Alias(66, EPIC_9_2, EPIC_9_6_3),
    Alias(1066, EPIC_9_6_3, Newest)>>, <<Bytes(5)>>)
TS_SC_NPC_TRADE_INFO == SC(Ids(240, EPIC_9_6_3, 1240), <<Bytes(21), Since(EPIC_5_2, 4),
    Since(EPIC_8_1, 4), Bytes(4)>>)
TS_SC_OPEN_GUILD_WINDOW == SC(Ids(651, EPIC_9_6_3, 1651), <<Bytes(44)>>)
TS_SC_OPEN_ITEM_SHOP == SC(Ids(10001, EPIC_9_6_3, 9001), <<Bytes(44)>>)
TS_SC_OPEN_PAID_STORAGE == SC(Ids(10002, EPIC_9_6_3, 9002), <<>>)
TS_SC_OPEN_STORAGE == SC(Ids(211, EPIC_9_6_3, 1211), <<Since(EPIC_7_4, 4)>>)
TS_SC_OPEN_TITLE == SC(Ids(635, EPIC_9_6_3, 1635), <<Bytes(4)>>)
TS_SC_OPEN_URL == SC(Ids(9000, EPIC_9_6_3, 8100), <<Bytes(9), Count(U16, "url"), Str("url", 0)>>)
TS_GROUP_FINDER_GROUP == <<Bytes(48)>>
TS_SC_PARTYMATCH_LIST == SC(Id(7001), <<Bytes(8), Repeat(10, TS_GROUP_FINDER_GROUP)>>)
TS_GROUP_FINDER_DETAIL == <<Bytes(28)>>
TS_SC_PARTYMATCH_MEMBER == SC(Id(7002), <<Bytes(8), Repeat(10, TS_GROUP_FINDER_DETAIL)>>)
TS_SC_PROPERTY == SC(Ids(507, EPIC_9_6_3, 1507), <<Bytes(21), Changed(EPIC_4_1_1, 4, 8), EndStr(1)>>)
TS_SC_QUEST_INFOMATION == SC(Ids(602, EPIC_9_6_3, 1602), <<Bytes(10)>>)
TS_QUEST_INFO == <<Bytes(32), Changed(EPIC_6_1, 12, 24), Since(EPIC_6_3, 5)>>
TS_QUEST_PENDING == <<Bytes(8)>>
TS_SC_QUEST_LIST == SC(Ids(600, EPIC_9_6_3, 1600), <<Count(U16, "activeQuests"),
    In(EPIC_6_3, Newest, <<Count(U16, "pendingQuests")>>), List("activeQuests", TS_QUEST_INFO),
    In(EPIC_6_3, Newest, <<List("pendingQuests", TS_QUEST_PENDING)>>)>>)
TS_SC_QUEST_STATUS == SC(Ids(601, EPIC_9_6_3, 1601), <<Bytes(4), Changed(EPIC_6_1, 12, 24),
    Since(EPIC_6_3, 5)>>)
TS_SC_RAGE == SC(Ids(506, EPIC_9_6_3, 1506), <<Bytes(6)>>)
TS_RANKING_RECORD == <<Bytes(41)>>
TS_SC_RANKING_TOP_RECORD == SC(Id(5001), <<Bytes(11), Count(U16, "records"),
    List("records", TS_RANKING_RECORD)>>)
TS_SC_REGEN_HPMP == SC(Ids(516, EPIC_9_6_3, 1516), <<Bytes(4), Changed(EPIC_7_3, 4, 8), Bytes(4),
    Changed(EPIC_7_3, 2, 4)>>)
TS_SC_REGEN_INFO == SC(Ids(510, EPIC_9_6_3, 1510), <<Bytes(6), Changed(EPIC_7_3, 2, 4), Bytes(2),
    Changed(EPIC_7_3, 2, 4)>>)
TS_SC_REGION_ACK == SC(Ids(11, EPIC_9_6_3, 1011), <<Bytes(8)>>)
TS_SC_REMAIN_TITLE_TIME == SC(Ids(627, EPIC_9_6_3, 1627), <<Bytes(4)>>)
TS_SC_REMOVE_PET_INFO == SC(Ids(352, EPIC_9_6_3, 1352), <<Bytes(4)>>)
TS_SC_REMOVE_SUMMON_INFO == SC(Ids(302, EPIC_9_6_3, 1302), <<Bytes(4)>>)
TS_SC_REQUEST_SECURITY_NO == SC(Ids(9004, EPIC_9_6_3, 8104), <<Bytes(4)>>)
TS_SC_RESULT == AnySC(Ids(0, EPIC_9_6_3, 1000), <<Bytes(8)>>)
TS_SC_RESULT_FOSTER == SC(Id(6003), <<Bytes(1)>>)
TS_SC_RESULT_NURSE == SC(Id(6007), <<Bytes(1)>>)
TS_SC_RESULT_RETRIEVE == SC(Id(6005), <<Bytes(1)>>)
TS_SC_SET_MAIN_TITLE == SC(Ids(629, EPIC_9_6_3, 1629), <<Bytes(8)>>)
TS_SC_SET_SUB_TITLE == SC(Ids(631, EPIC_9_6_3, 1631), <<Bytes(8)>>)
TS_SC_SET_TIME == SC(Ids(10, EPIC_9_6_3, 1010), <<Bytes(4)>>)
TS_SC_SHOW_CREATE_ALLIANCE == SC(Ids(660, EPIC_9_6_3, 1660), <<>>)
TS_SC_SHOW_CREATE_GUILD == SC(Ids(650, EPIC_9_6_3, 1650), <<>>)
TS_SC_SHOW_SET_PET_NAME == SC(Ids(353, EPIC_9_6_3, 1353), <<Bytes(4)>>)
TS_SC_SHOW_SOULSTONE_CRAFT_WINDOW == SC(Ids(259, EPIC_9_6_3, 1259), <<>>)
TS_SC_SHOW_SOULSTONE_REPAIR_WINDOW == SC(Ids(261, EPIC_9_6_3, 1261), <<>>)
TS_SC_SHOW_SUMMON_NAME_CHANGE == SC(Ids(322, EPIC_9_6_3, 1322), <<Bytes(4)>>)
TS_SC_SHOW_WINDOW == SC(Id(3003), <<Count(U16, "window"),
    In(EPIC_5_1, Newest, <<Count(U16, "argument")>>), Count(U16, "trigger"), Str("window", 0),
    In(EPIC_5_1, Newest, <<Str("argument", 0)>>), Str("trigger", 0)>>)
TS_SC_SKILL__HIT_DAMAGE_INFO == <<Bytes(27)>>
TS_SC_SKILL__HIT_DAMAGE == <<Part(TS_SC_SKILL__HIT_DAMAGE_INFO)>>
TS_SC_SKILL__HIT_DAMAGE_WITH_KNOCKBACK == <<Part(TS_SC_SKILL__HIT_DAMAGE_INFO), Bytes(13)>>
TS_SC_SKILL__HIT_RESULT == <<Bytes(5)>>
TS_SC_SKILL__HIT_ADD_STAT == <<Bytes(8)>>
TS_SC_SKILL__HIT_ADDHPMPSP == <<Bytes(16), Changed(EPIC_7_1, 2, 4)>>
TS_SC_SKILL__HIT_REBIRTH == <<Bytes(16), Changed(EPIC_7_1, 2, 4)>>
TS_SC_SKILL__HIT_RUSH == <<Bytes(14)>>
TS_SC_SKILL__HIT_CHAIN_DAMAGE == <<Part(TS_SC_SKILL__HIT_DAMAGE_INFO), Bytes(4)>>
TS_SC_SKILL__HIT_CHAIN_HEAL == <<Bytes(12)>>
TS_SC_SKILL__HIT_DETAILS == <<Tag("hitType", 1), Bytes(4),
    When("hitType", {0, 1}, TS_SC_SKILL__HIT_DAMAGE),
    When("hitType", {2}, TS_SC_SKILL__HIT_DAMAGE_WITH_KNOCKBACK),
    When("hitType", {10}, TS_SC_SKILL__HIT_RESULT),
    When("hitType", {20, 21}, TS_SC_SKILL__HIT_ADD_STAT),
    When("hitType", {22}, TS_SC_SKILL__HIT_ADDHPMPSP), When("hitType", {23}, TS_SC_SKILL__HIT_REBIRTH),
    When("hitType", {30}, TS_SC_SKILL__HIT_RUSH),
    When("hitType", {40, 41}, TS_SC_SKILL__HIT_CHAIN_DAMAGE),
    When("hitType", {42}, TS_SC_SKILL__HIT_CHAIN_HEAL)>>
TS_SC_SKILL__FIRE == <<Bytes(7), Count(U16, "hits"), Mark("before_hit_marker"),
    List("hits", TS_SC_SKILL__HIT_DETAILS), PadPer(45, "hits", "before_hit_marker")>>
TS_SC_SKILL__CAST == <<Bytes(6)>>
TS_SC_SKILL == SC(Ids(401, EPIC_9_6_3, 1401), <<Bytes(24), Tag("skillType", 1), Changed(EPIC_7_3, 4, 8),
    Bytes(4), Changed(EPIC_7_3, 2, 4), Mark("skill_type_marker"),
    When("skillType", {0, 4}, TS_SC_SKILL__FIRE), When("skillType", {1, 2}, TS_SC_SKILL__CAST),
    Pad(9, "skill_type_marker")>>)
TS_SC_SKILLCARD_INFO == SC(Ids(286, EPIC_9_6_3, 1286), <<Bytes(8)>>)
TS_SC_SKILL_CASTING_TIME == SC(Ids(405, EPIC_9_6_3, 1405), <<Bytes(8)>>)
TS_SKILL_LEVEL_INFO == <<Bytes(5)>>
TS_SC_SKILL_LEVEL_LIST == SC(Ids(451, EPIC_9_6_3, 1451), <<Count(U16, "skill_levels"),
    List("skill_levels", TS_SKILL_LEVEL_INFO)>>)
TS_SKILL_INFO == <<Bytes(14)>>
TS_SC_SKILL_LIST == SC(Ids(403, EPIC_9_6_3, 1403), <<Bytes(4), Count(U16, "skills"), Since(EPIC_4_1, 1),
    List("skills", TS_SKILL_INFO)>>)
TS_SC_SKIN_INFO == SC(Ids(224, EPIC_9_6_3, 1224), <<Bytes(8)>>)
TS_SC_SP == SC(Ids(514, EPIC_9_6_3, 1514), <<Bytes(8)>>)
TS_SC_STATE == SC(Ids(505, EPIC_9_6_3, 1505), <<Bytes(6), Since(EPIC_9_5_2, 2), Bytes(4),
    Within(EPIC_4_1, EPIC_9_5_2, 2), Before(EPIC_4_1, 1), Bytes(4), Since(EPIC_3, 4),
    Since(EPIC_4_1, 4), Within(EPIC_4_1, EPIC_9_5_2, 32)>>)
TS_SC_STATE_RESULT == SC(Ids(406, EPIC_9_6_3, 1406), <<Bytes(29)>>)
TS_SC_STATUS_CHANGE == SC(Ids(500, EPIC_9_6_3, 1500), <<Bytes(8)>>)
TS_STAT_INFO_BASE == <<Bytes(16)>>
TS_STAT_INFO_ATTRIB == <<Bytes(4), Changed(EPIC_9_3, 4, 8), Changed(EPIC_9_5_1, 4, 8),
    Changed(EPIC_9_3, 2, 4), Changed(EPIC_9_5_1, 2, 4), Since(EPIC_9_7_0, 4), Bytes(2),
    Before(EPIC_9_6_2, 2), Bytes(10), Since(EPIC_9_7_0, 2), Bytes(4), Within(EPIC_7_4, EPIC_9_7_0, 4),
    Before(EPIC_7_4, 2), Bytes(14), Since(EPIC_7_3, 2), Within(EPIC_7_3, EPIC_9_6_2, 8),
    Since(EPIC_7_3, 8)>>
TS_SC_STAT_INFO == SC(Ids(1000, EPIC_9_6_3, 2000), <<Bytes(4), Part(TS_STAT_INFO_BASE),
    Part(TS_STAT_INFO_ATTRIB), Bytes(1)>>)
TS_SC_SUMMON_EVOLUTION == SC(Ids(307, EPIC_9_6_3, 1307), <<Bytes(8), Changed(EPIC_9_6, 19, 20),
    Bytes(4)>>)
TS_SC_TAKE_ITEM_RESULT == SC(Ids(210, EPIC_9_6_3, 1210), <<Bytes(8)>>)
TS_SC_TAMING_INFO == SC(Ids(310, EPIC_9_6_3, 1310), <<Bytes(9)>>)
TS_SC_TARGET == SC(Ids(512, EPIC_9_6_3, 1512), <<Bytes(4)>>)
TS_TITLE_CONDITION_INFO == <<Bytes(12)>>
TS_SC_TITLE_CONDITION_LIST == SC(Ids(626, EPIC_9_6_3, 1626), <<Count(U16, "title_condition_infos"),
    List("title_condition_infos", TS_TITLE_CONDITION_INFO)>>)
TS_TITLE_INFO == <<Bytes(8)>>
TS_SC_TITLE_LIST == SC(Ids(625, EPIC_9_6_3, 1625), <<Count(U16, "titles"),
    List("titles", TS_TITLE_INFO)>>)
TS_SC_UNMOUNT_SUMMON == SC(Ids(321, EPIC_9_6_3, 1321), <<Bytes(9)>>)
TS_SC_UNSUMMON == SC(Ids(305, EPIC_9_6_3, 1305), <<Bytes(4)>>)
TS_SC_UNSUMMON_NOTICE == SC(Ids(306, EPIC_9_6_3, 1306), <<Bytes(8)>>)
TS_SC_UNSUMMON_PET == SC(Ids(350, EPIC_9_6_3, 1350), <<Bytes(4)>>)
TS_SC_UPDATE_GUILD_ICON == SC(Ids(652, EPIC_9_6_3, 1652), <<Bytes(44)>>)
TS_SC_UPDATE_ITEM_COUNT == SC(Ids(255, EPIC_9_6_3, 1255), <<Bytes(4), Changed(EPIC_4_1, 4, 8)>>)
TS_SC_URL_LIST == SC(Ids(9001, EPIC_9_6_3, 8101), <<In(EPIC_9_6_2, Newest, <<Count(U32, "url_list")>>),
    In(Oldest, EPIC_9_6_2, <<Count(U16, "url_list")>>), Str("url_list", 0)>>)
TS_SC_USE_ITEM_RESULT == SC(Ids(283, EPIC_9_6_3, 1283), <<Bytes(8)>>)
TS_SC_WARP == SC(Ids(12, EPIC_9_6_3, 1012), <<Bytes(13)>>)
TS_BOOTH_ITEM_INFO == <<Since(EPIC_9_8_1, 10), Part(TS_ITEM_FIXED_BASE_INFO),
    Within(EPIC_4_1_1, EPIC_9_8_1, 8), Before(EPIC_4_1_1, 4)>>
TS_SC_WATCH_BOOTH == SC(Ids(703, EPIC_9_6_3, 1703), <<Bytes(5), Count(U16, "items"),
    List("items", TS_BOOTH_ITEM_INFO)>>)
TS_SC_WEAR_INFO__ITEM_WEAR_INFO == <<Bytes(4)>>
TS_SC_WEAR_INFO == SC(Ids(202, EPIC_9_6_3, 1202), <<Bytes(4), Before(EPIC_4_1, 56),
    Within(EPIC_4_1, EPIC_9_5, 96), Within(EPIC_9_5, EPIC_9_6, 112), Within(EPIC_9_6, EPIC_9_7_2, 128),
    Since(EPIC_9_7_2, 40), Before(EPIC_4_1, 56), Within(EPIC_4_1, EPIC_9_5, 96),
    Within(EPIC_9_5, EPIC_9_6, 112), Within(EPIC_9_6, EPIC_9_7_2, 128), Before(EPIC_4_1, 56),
    Within(EPIC_4_1, EPIC_9_5, 96), Within(EPIC_9_5, EPIC_9_6, 112), Within(EPIC_9_6, EPIC_9_7_2, 128),
    Within(EPIC_6_1, EPIC_9_5, 24), Within(EPIC_9_5, EPIC_9_6, 28), Within(EPIC_9_6, EPIC_9_7_2, 32),
    Within(EPIC_7_4, EPIC_9_5, 96), Within(EPIC_9_5, EPIC_9_6, 112), Within(EPIC_9_6, EPIC_9_7_2, 128),
    In(EPIC_9_7_2, Newest, <<Repeat(10, TS_SC_WEAR_INFO__ITEM_WEAR_INFO)>>), Mark("padding"),
    Within(EPIC_9_3, EPIC_9_5, 2), In(EPIC_9_3, EPIC_9_5, <<Pad(8, "padding")>>)>>)
TS_SC_WEATHER_INFO == SC(Ids(902, EPIC_9_6_3, 1902), <<Bytes(6)>>)
TS_SC_XTRAP_CHECK == SC(Ids(58, EPIC_9_6_3, 1058), <<Bytes(128)>>)
TS_SECURITY_NO == Both(Ids(9005, EPIC_9_6_3, 8105), <<Since(EPIC_9_6_7, 64), Bytes(4),
    Changed(EPIC_9_6_7, 19, 12)>>)
TS_TIMESYNC == Both(Ids(2, EPIC_9_6_3, 1002), <<Bytes(4)>>)
TS_TRADE == Both(Ids(280, EPIC_9_6_3, 1280), <<Bytes(5), Part(TS_ITEM_TRADE_INFO)>>)
=============================================================================
