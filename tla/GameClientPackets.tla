---------------------------- MODULE GameClientPackets ----------------------------
(***************************************************************************)
(* The packets a client sends to a game server                             *)
(* (packets/GameClient/TS_CS_*.h).                                         *)
(***************************************************************************)
EXTENDS GameServerPackets

CS(ids, L) == Packet("GameClient", "Client", ids, L)

TS_CS_ACCOUNT == CS(Ids(2000, EPIC_9_6_3, 2400), <<Bytes(51)>>)
TS_CS_ACCOUNT_WITH_AUTH == CS(Ids(2005, EPIC_9_6_3, 2405), <<Since(EPIC_9_6_6, 64),
    Within(EPIC_5_2, EPIC_9_6_6, 61), Before(EPIC_5_2, 19), Bytes(8)>>)
TS_CS_ANTI_HACK == CS(Ids(54, EPIC_9_6_3, 1054), <<Bytes(402)>>)
TS_CS_ARRANGE_ITEM == CS(Ids(219, EPIC_9_6_3, 1219), <<Bytes(1)>>)
TS_CS_ATTACK_REQUEST == CS(Ids(100, EPIC_9_6_3, 1100), <<Bytes(8)>>)
TS_CS_AUCTION_BID == CS(Ids(1306, EPIC_9_6_3, 2306), <<Bytes(12)>>)
TS_CS_AUCTION_BIDDED_LIST == CS(Ids(1304, EPIC_9_6_3, 2304), <<Bytes(4)>>)
TS_CS_AUCTION_CANCEL == CS(Ids(1310, EPIC_9_6_3, 2310), <<Bytes(4)>>)
TS_CS_AUCTION_INSTANT_PURCHASE == CS(Ids(1308, EPIC_9_6_3, 2308), <<Bytes(4)>>)
TS_CS_AUCTION_REGISTER == CS(Ids(1309, EPIC_9_6_3, 2309), <<Bytes(25)>>)
TS_CS_AUCTION_SEARCH == CS(Ids(1300, EPIC_9_6_3, 2300), <<Bytes(43), Since(EPIC_7_2, 1)>>)
TS_CS_AUCTION_SELLING_LIST == CS(Ids(1302, EPIC_9_6_3, 2302), <<Bytes(4)>>)
TS_CS_BATTLE_ARENA_ABSENCE_CHECK_ANSWER == CS(Id(4719), <<Bytes(1)>>)
TS_CS_BATTLE_ARENA_ABSENCE_CHECK_REQUEST == CS(Id(4717), <<Bytes(4)>>)
TS_CS_BATTLE_ARENA_ENTER_WHILE_COUNTDOWN == CS(Id(4707), <<>>)
TS_CS_BATTLE_ARENA_EXERCISE_READY == CS(Id(4708), <<Bytes(1)>>)
TS_CS_BATTLE_ARENA_EXERCISE_START == CS(Id(4710), <<>>)
TS_CS_BATTLE_ARENA_JOIN_QUEUE == CS(Id(4701), <<Bytes(4)>>)
TS_CS_BATTLE_ARENA_LEAVE == CS(Id(4704), <<>>)
TS_CS_BIND_SKILLCARD == CS(Ids(284, EPIC_9_6_3, 1284), <<Bytes(8)>>)
TS_CS_BOOKMARK_TITLE == CS(Ids(632, EPIC_9_6_3, 1632), <<Bytes(4)>>)
TS_CS_BUY_FROM_BOOTH == CS(Ids(705, EPIC_9_6_3, 1705), <<Bytes(4), Count(I16, "items"),
    List("items", TS_ITEM_FIXED_INFO)>>)
TS_CS_BUY_ITEM == CS(Ids(251, EPIC_9_6_3, 1251), <<Bytes(4), Changed(EPIC_4_1, 1, 2)>>)
TS_CS_CANCEL_ACTION == CS(Ids(150, EPIC_9_6_3, 1150), <<Bytes(4)>>)
TS_CS_CHANGE_ALIAS == CS(Ids(31, EPIC_9_6_3, 1031), <<Bytes(19)>>)
TS_CS_CHANGE_ITEM_POSITION == CS(Ids(218, EPIC_9_6_3, 1218), <<Bytes(9)>>)
TS_CS_CHANGE_LOCATION == CS(Ids(900, EPIC_9_6_3, 1900), <<Bytes(8)>>)
TS_CS_CHANGE_SECURITY_NO == CS(Ids(9007, EPIC_9_6_3, 8107), <<Bytes(38)>>)
TS_CS_CHANGE_SUMMON_NAME == CS(Ids(323, EPIC_9_6_3, 1323), <<Changed(EPIC_9_6, 19, 20)>>)
TS_CS_CHARACTER_LIST == CS(<<Alias(2407, EPIC_9_6_3, Newest), Alias(2007, EPIC_9_4, EPIC_9_4_AR),
    Alias(2007, EPIC_9_4_AR + 1, EPIC_9_6_3), Alias(2179, EPIC_9_4_AR, EPIC_9_4_AR + 1),
    OnFlag(2008, EPIC_FLAG_TESTSERVER), Alias(2001, Oldest, EPIC_9_4)>>, <<Since(EPIC_9_6, 64),
    Within(EPIC_5_2, EPIC_9_6, 61), Before(EPIC_5_2, 19)>>)
TS_CS_CHAT_REQUEST == CS(Ids(20, EPIC_9_6_3, 1020), <<Bytes(22), Count(U8, "message"), Bytes(1),
    Str("message", 0)>>)
TS_CS_CHECK_BOOTH_STARTABLE == CS(Ids(711, EPIC_9_6_3, 1711), <<>>)
TS_CS_CHECK_CHARACTER_NAME == CS(Ids(2006, EPIC_9_6_3, 2406), <<Changed(EPIC_9_6, 19, 20)>>)
TS_CS_CHECK_ILLEGAL_USER == CS(Ids(57, EPIC_9_6_3, 1057), <<Bytes(4)>>)
TS_CS_CLEAR_SECURITY_NO == CS(Ids(9012, EPIC_9_6_3, 8112), <<Bytes(38)>>)
TS_CS_COMPETE_ANSWER == CS(Id(4502), <<Bytes(2)>>)
TS_CS_COMPETE_REQUEST == CS(Id(4500), <<Bytes(32)>>)
TS_CS_CONTACT == CS(Id(3002), <<Bytes(4)>>)
TS_CS_CREATE_CHARACTER == CS(Ids(2002, EPIC_9_6_3, 2402), <<Part(LOBBY_CHARACTER_INFO)>>)
TS_CS_CREATE_SECURITY_NO == CS(Ids(9006, EPIC_9_6_3, 8106), <<Bytes(38)>>)
TS_DECOMPOSE_ITEM_INFO == <<Bytes(4), Since(EPIC_8_2, 4)>>
TS_CS_DECOMPOSE == CS(Ids(265, EPIC_9_6_3, 1265), <<Count(U32, "items"),
    List("items", TS_DECOMPOSE_ITEM_INFO)>>)
TS_CS_DELETE_CHARACTER == CS(Ids(2003, EPIC_9_6_3, 2403), <<Since(EPIC_9_6, 40),
    Within(EPIC_8_1, EPIC_9_6, 38), Before(EPIC_8_1, 19)>>)
TS_CS_DIALOG == CS(Id(3001), <<Count(U16, "trigger"), Str("trigger", 0)>>)
TS_DONATE_ITEM_INFO == <<Bytes(4), Changed(EPIC_6_3, 2, 8)>>
TS_CS_DONATE_ITEM == CS(Ids(258, EPIC_9_6_3, 1258), <<Bytes(8), Since(EPIC_6_2, 4), Count(I8, "items"),
    List("items", TS_DONATE_ITEM_INFO)>>)
TS_REWARD_INFO == <<Bytes(3)>>
TS_CS_DONATE_REWARD == CS(Ids(259, EPIC_9_6_3, 1259), <<Count(I8, "rewards"),
    List("rewards", TS_REWARD_INFO)>>)
TS_CS_DROP_ITEM == CS(Ids(203, EPIC_9_6_3, 1203), <<Bytes(4), Changed(EPIC_4_1, 2, 4)>>)
TS_CS_DROP_QUEST == CS(Ids(603, EPIC_9_6_3, 1603), <<Bytes(4)>>)
TS_CS_EMOTION == CS(Ids(1202, EPIC_9_6_3, 2202), <<Bytes(4)>>)
TS_CS_END_QUEST == CS(Ids(605, EPIC_9_6_3, 1605), <<Bytes(5)>>)
TS_CS_ENTER_EVENT_AREA == CS(Ids(15, EPIC_9_6_3, 1015), <<Bytes(8)>>)
TS_ERASE_ITEM_INFO == <<Bytes(4), Since(EPIC_7_2, 8), Within(EPIC_7_4, EPIC_9_6_7, 1)>>
TS_CS_ERASE_ITEM == CS(Ids(208, EPIC_9_6_3, 1208), <<CountOr(I8, "items", EPIC_7_2, 1),
    List("items", TS_ERASE_ITEM_INFO)>>)
TS_TICKET_INFO == <<Bytes(8)>>
TS_CRACKER_INFO == <<Bytes(8)>>
TS_CS_FOSTER_CREATURE == CS(Id(6002), <<Bytes(4), Count(I32, "ticket_info"), Count(I32, "cracker_info"),
    List("ticket_info", TS_TICKET_INFO), List("cracker_info", TS_CRACKER_INFO)>>)
TS_CS_GAME_GUARD_AUTH_ANSWER == CS(Ids(56, EPIC_9_6_3, 1056), <<Part(TS_GAME_GUARD_AUTH)>>)
TS_CS_GAME_TIME == CS(Ids(1100, EPIC_9_6_3, 2100), <<>>)
TS_CS_GET_BOOTHS_NAME == CS(Ids(707, EPIC_9_6_3, 1707), <<Count(I32, "handles"), Array("handles", 4)>>)
TS_CS_GET_REGION_INFO == CS(Ids(550, EPIC_9_6_3, 1550), <<Bytes(8)>>)
TS_CS_GET_SUMMON_SETUP_INFO == CS(Ids(324, EPIC_9_6_3, 1324), <<Bytes(1)>>)
TS_CS_GET_WEATHER_INFO == CS(Ids(903, EPIC_9_6_3, 1903), <<Bytes(4)>>)
TS_CS_HIDE_EQUIP_INFO == CS(Ids(221, EPIC_9_6_3, 1221), <<Bytes(4)>>)
TS_CS_HUNTAHOLIC_BEGIN_HUNTING == CS(Id(4011), <<>>)
TS_CS_HUNTAHOLIC_CREATE_INSTANCE == CS(Id(4003), <<Bytes(49)>>)
TS_CS_HUNTAHOLIC_INSTANCE_LIST == CS(Id(4000), <<Bytes(4)>>)
TS_CS_HUNTAHOLIC_JOIN_INSTANCE == CS(Id(4004), <<Bytes(21)>>)
TS_CS_HUNTAHOLIC_LEAVE_INSTANCE == CS(Id(4005), <<>>)
TS_CS_HUNTAHOLIC_LEAVE_LOBBY == CS(Id(4008), <<>>)
TS_CS_INSTANCE_GAME_ENTER == CS(Id(4250), <<Bytes(4)>>)
TS_CS_INSTANCE_GAME_EXIT == CS(Id(4251), <<>>)
TS_CS_INSTANCE_GAME_SCORE_REQUEST == CS(Id(4252), <<>>)
TS_CS_ITEM_KEEPING_LIST == CS(Ids(1350, EPIC_9_6_3, 2350), <<Bytes(4)>>)
TS_CS_ITEM_KEEPING_TAKE == CS(Ids(1352, EPIC_9_6_3, 2352), <<Bytes(4)>>)
TS_CS_JOB_LEVEL_UP == CS(Ids(410, EPIC_9_6_3, 1410), <<Bytes(4)>>)
TS_CS_LEARN_SKILL == CS(Ids(402, EPIC_9_6_3, 1402), <<Bytes(8), Since(EPIC_8_2, 4),
    Since(EPIC_4_1_1, 2)>>)
TS_CS_LEAVE_EVENT_AREA == CS(Ids(16, EPIC_9_6_3, 1016), <<Bytes(8)>>)
TS_CS_LOGIN == CS(<<Alias(1, Oldest, EPIC_9_2), Alias(61, EPIC_9_2, EPIC_9_4_2),
    Alias(62, EPIC_9_4_2, EPIC_9_6_3), Alias(1062, EPIC_9_6_3, Newest)>>, <<Changed(EPIC_9_3, 20, 24),
    Since(EPIC_9_5_2, 256)>>)
TS_CS_LOGOUT == CS(Ids(27, EPIC_9_6_3, 1027), <<>>)
TS_MIX_INFO == <<Bytes(6)>>
TS_CS_MIX == CS(Ids(256, EPIC_9_6_3, 1256), <<Part(TS_MIX_INFO), Count(U16, "sub_items"),
    List("sub_items", TS_MIX_INFO)>>)
TS_CS_MONSTER_RECOGNIZE == CS(Ids(517, EPIC_9_6_3, 1517), <<Bytes(8)>>)
MOVE_REQUEST_INFO == <<Bytes(8)>>
TS_CS_MOVE_REQUEST == CS(<<Alias(5, Oldest, EPIC_9_2), Alias(65, EPIC_9_2, EPIC_9_4_2),
    Alias(63, EPIC_9_4_2, EPIC_9_6_3), Alias(1063, EPIC_9_6_3, Newest)>>, <<Bytes(17),
    Count(U16, "move_infos"), List("move_infos", MOVE_REQUEST_INFO), EndArray(1)>>)
TS_CS_NURSE_CREATURE == CS(Id(6006), <<Bytes(4)>>)
TS_CS_OPEN_ITEM_SHOP == CS(Ids(10000, EPIC_9_6_3, 9000), <<>>)
TS_CS_PARTYMATCH_ACTION == CS(Id(7000), <<Bytes(60)>>)
TS_CS_PUTOFF_CARD == CS(Ids(215, EPIC_9_6_3, 1215), <<Bytes(1)>>)
TS_CS_PUTOFF_ITEM == CS(Ids(201, EPIC_9_6_3, 1201), <<Before(EPIC_9_6_7, 1), Bytes(4),
    Since(EPIC_9_6_7, 4)>>)
TS_CS_PUTON_CARD == CS(Ids(214, EPIC_9_6_3, 1214), <<Before(EPIC_9_6_7, 1), Bytes(4),
    Since(EPIC_9_6_7, 4)>>)
TS_CS_PUTON_ITEM == CS(Ids(200, EPIC_9_6_3, 1200), <<Before(EPIC_9_6_7, 1), Bytes(8),
    Since(EPIC_9_6_7, 1)>>)
TS_CS_PUTON_ITEM_SET == CS(Ids(281, EPIC_9_6_3, 1281), <<Changed(EPIC_4_1, 56, 96)>>)
TS_CS_QUERY == CS(Ids(13, EPIC_9_6_3, 1013), <<Bytes(4)>>)
TS_CS_QUEST_INFO == CS(Ids(604, EPIC_9_6_3, 1604), <<Bytes(4)>>)
TS_CS_RANKING_TOP_RECORD == CS(Id(5000), <<Bytes(1)>>)
TS_CS_REGION_UPDATE == CS(<<Alias(7, Oldest, EPIC_9_2), Alias(67, EPIC_9_2, EPIC_9_6_3),
    Alias(1067, EPIC_9_6_3, Newest)>>, <<Bytes(17)>>)
TS_CS_REPAIR_SOULSTONE == CS(Ids(262, EPIC_9_6_3, 1262), <<Bytes(24)>>)
TS_CS_REPORT == CS(Id(8000), <<Count(U16, "report"), Str("report", 0)>>)
TS_CS_REQUEST == CS(Ids(60, EPIC_9_6_3, 1060), <<Bytes(1), EndStr(1)>>)
TS_CS_REQUEST_CLEAR_SECURITY_NO == CS(Ids(9010, EPIC_9_6_3, 8110), <<>>)
TS_CS_REQUEST_FARM_INFO == CS(Id(6000), <<>>)
TS_CS_REQUEST_FARM_MARKET == CS(Id(6008), <<>>)
TS_CS_REQUEST_LOGOUT == CS(Ids(26, EPIC_9_6_3, 1026), <<>>)
TS_CS_REQUEST_REMOVE_STATE == CS(Ids(408, EPIC_9_6_3, 1408), <<Bytes(8)>>)
TS_CS_REQUEST_RETURN_LOBBY == CS(Ids(25, EPIC_9_6_3, 1025), <<>>)
TS_CS_REQUEST_SECURITY_NO_CHANGE == CS(Ids(9008, EPIC_9_6_3, 8108), <<>>)
TS_CS_RESURRECTION == CS(Ids(513, EPIC_9_6_3, 1513), <<Since(EPIC_4_1, 4), Changed(EPIC_6_1, 1, 1),
    Within(EPIC_4_1, EPIC_6_1, 1)>>)
TS_CS_RETRIEVE_CREATURE == CS(Id(6004), <<Bytes(4)>>)
TS_CS_RETURN_LOBBY == CS(Ids(23, EPIC_9_6_3, 1023), <<>>)
TS_CS_SELL_ITEM == CS(Ids(252, EPIC_9_6_3, 1252), <<Bytes(4), Since(EPIC_8_2, 8),
    Within(EPIC_4_1, EPIC_8_2, 2), Before(EPIC_4_1, 1)>>)
TS_CS_SELL_TO_BOOTH == CS(Ids(706, EPIC_9_6_3, 1706), <<Bytes(12)>>)
TS_CS_SET_MAIN_TITLE == CS(Ids(628, EPIC_9_6_3, 1628), <<Bytes(4)>>)
TS_CS_SET_PET_NAME == CS(Ids(354, EPIC_9_6_3, 1354), <<Bytes(4), Changed(EPIC_9_6, 19, 20)>>)
TS_CS_SET_PROPERTY == CS(Ids(508, EPIC_9_6_3, 1508), <<Bytes(16), EndStr(1)>>)
TS_CS_SET_SUB_TITLE == CS(Ids(630, EPIC_9_6_3, 1630), <<Bytes(8)>>)
TS_CS_SKILL == CS(Ids(400, EPIC_9_6_3, 1400), <<Bytes(24)>>)
TS_CS_SOULSTONE_CRAFT == CS(Ids(260, EPIC_9_6_3, 1260), <<Bytes(20)>>)
TS_BOOTH_OPEN_ITEM_INFO == <<Bytes(8), Changed(EPIC_4_1_1, 4, 8)>>
TS_CS_START_BOOTH == CS(Ids(700, EPIC_9_6_3, 1700), <<Bytes(50), Count(U16, "items"),
    List("items", TS_BOOTH_OPEN_ITEM_INFO)>>)
TS_CS_STOP_BOOTH == CS(Ids(701, EPIC_9_6_3, 1701), <<>>)
TS_CS_STOP_WATCH_BOOTH == CS(Ids(704, EPIC_9_6_3, 1704), <<Bytes(4)>>)
TS_CS_STORAGE == CS(Ids(212, EPIC_9_6_3, 1212), <<Bytes(5), Changed(EPIC_4_1_1, 4, 8)>>)
TS_CS_SUMMON == CS(Ids(304, EPIC_9_6_3, 1304), <<Bytes(5)>>)
TS_CS_SUMMON_CARD_SKILL_LIST == CS(Ids(452, EPIC_9_6_3, 1452), <<Bytes(4)>>)
TS_CS_SWAP_EQUIP == CS(Ids(223, EPIC_9_6_3, 1223), <<>>)
TS_CS_TAKEOUT_COMMERCIAL_ITEM == CS(Ids(10005, EPIC_9_6_3, 9005), <<Bytes(6)>>)
TS_CS_TAKE_ITEM == CS(Ids(204, EPIC_9_6_3, 1204), <<Since(EPIC_5_2, 4), Bytes(4)>>)
TS_CS_TARGETING == CS(Ids(511, EPIC_9_6_3, 1511), <<Bytes(4)>>)
TS_CS_TRANSMIT_ETHEREAL_DURABILITY == CS(Ids(263, EPIC_9_6_3, 1263), <<Bytes(4)>>)
TS_CS_TRANSMIT_ETHEREAL_DURABILITY_TO_EQUIPMENT == CS(Ids(264, EPIC_9_6_3, 1264), <<Bytes(4),
    Since(EPIC_8_1, 1)>>)
TS_CS_TURN_OFF_PK_MODE == CS(Ids(801, EPIC_9_6_3, 1801), <<>>)
TS_CS_TURN_ON_PK_MODE == CS(Ids(800, EPIC_9_6_3, 1800), <<>>)
TS_CS_UNBIND_SKILLCARD == CS(Ids(285, EPIC_9_6_3, 1285), <<Bytes(8)>>)
TS_CS_UPDATE == CS(Ids(503, EPIC_9_6_3, 1503), <<Bytes(4), Since(EPIC_9_2, 8)>>)
TS_CS_USE_ITEM == CS(Ids(253, EPIC_9_6_3, 1253), <<Bytes(8), Since(EPIC_4_1, 32)>>)
TS_CS_VERSION == CS(<<Alias(50, Oldest, EPIC_7_4), Alias(51, EPIC_7_4, EPIC_9_6_3),
    Alias(1051, EPIC_9_6_3, Newest)>>, <<Bytes(20), Since(EPIC_9_5_2, 256)>>)
TS_CS_WATCH_BOOTH == CS(Ids(702, EPIC_9_6_3, 1702), <<Bytes(4)>>)
TS_CS_XTRAP_CHECK == CS(Ids(59, EPIC_9_6_3, 1059), <<Bytes(128)>>)
=============================================================================
