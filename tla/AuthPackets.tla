---------------------------- MODULE AuthPackets ----------------------------
(***************************************************************************)
(* The packets between a client and the auth server (packets/AuthClient)   *)
(* and between a client and the upload server (packets/UploadClient).      *)
(***************************************************************************)
EXTENDS PacketLayout

AC(ids, L) == Packet("AuthClient", "Server", ids, L)
CA(ids, L) == Packet("AuthClient", "Client", ids, L)
UC(ids, L) == Packet("UploadClient", "Server", ids, L)
CU(ids, L) == Packet("UploadClient", "Client", ids, L)

TS_AC_ACCOUNT_NAME == AC(Id(10014), <<Changed(EPIC_9_6_6, 61, 64), Bytes(8),
    In(EPIC_9_6_3, Newest, <<EndStr(1)>>)>>)
TS_AC_AES_KEY_IV == AC(Ids(72, EPIC_9_6_3, 1072), <<Count(U32, "data"), Array("data", 1)>>)
TS_AC_RESULT == AC(Id(10000), <<Bytes(8)>>)
TS_AC_RESULT_WITH_STRING == AC(Id(10002), <<Bytes(8), Count(I32, "string"), Str("string", 0)>>)
TS_AC_SELECT_SERVER == AC(Id(10024), <<Bytes(2), Changed(EPIC_8_1_1_RSA, 8, 28), Bytes(4)>>)
TS_SERVER_INFO == <<Changed(EPIC_9_6_5, 2, 4), Bytes(21), Since(EPIC_4_1, 257), Bytes(22)>>
TS_AC_SERVER_LIST == AC(Id(10022), <<Within(EPIC_4_1, EPIC_9_6_5, 2), Since(EPIC_9_6_5, 4),
    In(Oldest, EPIC_9_6_5, <<Count(U16, "servers")>>),
    In(EPIC_9_6_5, Newest, <<Count(U32, "servers")>>), List("servers", TS_SERVER_INFO)>>)
TS_AC_UPDATE_PENDING_TIME == AC(Id(10025), <<Bytes(4)>>)
TS_ACCOUNT_ADDITIONAL_INFO == <<Bytes(1), Count(U16, "data"), Array("data", 1)>>
TS_ACCOUNT_PASSWORD_DES == <<Changed(EPIC_5_2, 32, 61)>>
TS_ACCOUNT_PASSWORD_AES == <<Bytes(4), Within(EPIC_9_6_6, EPIC_9_6_7, 516), Before(EPIC_9_6_6, 77),
    In(EPIC_9_6_7, Newest, <<EndArray(1)>>)>>
TS_CA_ACCOUNT == CA(Id(10010), <<Since(EPIC_9_6_6, 56), Within(EPIC_5_2, EPIC_9_6_6, 61),
    Before(EPIC_5_2, 19), Since(EPIC_9_6_6, 8),
    In(Oldest, EPIC_8_1_1_RSA, <<Part(TS_ACCOUNT_PASSWORD_DES)>>),
    In(EPIC_8_1_1_RSA, Newest, <<Part(TS_ACCOUNT_PASSWORD_AES)>>),
    In(Oldest, EPIC_9_6_6, <<EndList(TS_ACCOUNT_ADDITIONAL_INFO)>>)>>)
TS_CA_DISTRIBUTION_INFO == CA(Id(10026), <<EndStr(1)>>)
TS_IMBC_ACCOUNT_PASSWORD_PLAIN == <<Bytes(48)>>
TS_IMBC_ACCOUNT_PASSWORD_AES == <<Bytes(4), EndArray(1)>>
TS_CA_IMBC_ACCOUNT == CA(Id(10012), <<Since(EPIC_9_6_6, 64), Within(EPIC_7_4, EPIC_9_6_6, 61),
    Before(EPIC_7_4, 24), In(Oldest, EPIC_8_1_1_RSA, <<Part(TS_IMBC_ACCOUNT_PASSWORD_PLAIN)>>),
    In(EPIC_8_1_1_RSA, Newest, <<Part(TS_IMBC_ACCOUNT_PASSWORD_AES)>>)>>)
TS_OTP_ACCOUNT_PASSWORD_PLAIN == <<Bytes(48)>>
TS_OTP_ACCOUNT_PASSWORD_AES == <<Bytes(4), EndArray(1)>>
TS_CA_OTP_ACCOUNT == CA(Id(10011), <<Since(EPIC_9_6_6, 64), Within(EPIC_5_1, EPIC_9_6_6, 61),
    Before(EPIC_5_1, 19), In(Oldest, EPIC_8_1_1_RSA, <<Part(TS_OTP_ACCOUNT_PASSWORD_PLAIN)>>),
    In(EPIC_8_1_1_RSA, Newest, <<Part(TS_OTP_ACCOUNT_PASSWORD_AES)>>)>>)
TS_CA_RSA_PUBLIC_KEY == CA(Ids(71, EPIC_9_6_3, 1071), <<Count(I32, "key"), Array("key", 1)>>)
TS_CA_SELECT_SERVER == CA(Id(10023), <<Changed(EPIC_9_6_5, 2, 4)>>)
TS_CA_SERVER_LIST == CA(Id(10021), <<>>)
TS_CA_VERSION == CA(Id(10001), <<Bytes(20)>>)
TS_CU_DOWNLOAD_ICON == CU(Id(50009), <<Bytes(136)>>)
TS_CU_LOGIN == CU(Id(50005), <<Bytes(48)>>)
TS_CU_UPLOAD == CU(Id(50007), <<Count(U32, "file_contents"), Array("file_contents", 1)>>)
TS_UC_DOWNLOAD_ICON == UC(Id(50010), <<Bytes(136), EndArray(1)>>)
TS_UC_LOGIN_RESULT == UC(Id(50006), <<Bytes(2)>>)
TS_UC_UPLOAD == UC(Id(50008), <<Bytes(2)>>)
=============================================================================
