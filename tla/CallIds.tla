------------------------------- MODULE CallIds -------------------------------
(***************************************************************************)
(* The calls of the protocol and the protocol version each one came with   *)
(* (src/supla-common/proto.h, srpc.c). A call is known by its number. Its  *)
(* name in the source, SUPLA_DS_CALL_REGISTER_DEVICE, is here a field of   *)
(* the table of its direction, DS.REGISTER_DEVICE: D is a device, C a      *)
(* client, S the server, and DCS what a device or a client says to the     *)
(* server (proto.h:114-119).                                               *)
(***************************************************************************)
EXTENDS Naturals

DCS == [GETVERSION |-> 10, PING_SERVER |-> 40, SET_ACTIVITY_TIMEOUT |-> 210,
        GET_REGISTRATION_ENABLED |-> 320, GET_USER_LOCALTIME |-> 480,
        GET_USER_LOCALTIME_RESULT |-> 490, SET_CHANNEL_CAPTION |-> 640]
SDC == [GETVERSION_RESULT |-> 20, VERSIONERROR |-> 30,
        PING_SERVER_RESULT |-> 50, SET_ACTIVITY_TIMEOUT_RESULT |-> 220,
        GET_REGISTRATION_ENABLED_RESULT |-> 330]
DS == [REGISTER_DEVICE |-> 60, REGISTER_DEVICE_B |-> 65,
       REGISTER_DEVICE_C |-> 67, REGISTER_DEVICE_D |-> 68,
       REGISTER_DEVICE_E |-> 69, REGISTER_DEVICE_F |-> 75,
       REGISTER_DEVICE_G |-> 76, DEVICE_CHANNEL_VALUE_CHANGED |-> 100,
       DEVICE_CHANNEL_VALUE_CHANGED_B |-> 102,
       DEVICE_CHANNEL_VALUE_CHANGED_C |-> 103,
       DEVICE_CHANNEL_EXTENDEDVALUE_CHANGED |-> 105,
       CHANNEL_SET_VALUE_RESULT |-> 120, GET_FIRMWARE_UPDATE_URL |-> 300,
       DEVICE_CALCFG_RESULT |-> 470, GET_CHANNEL_FUNCTIONS |-> 620,
       GET_CHANNEL_CONFIG |-> 680, SET_CHANNEL_CONFIG |-> 681,
       SET_CHANNEL_CONFIG_RESULT |-> 692, SET_DEVICE_CONFIG |-> 684,
       SET_DEVICE_CONFIG_RESULT |-> 695, ACTIONTRIGGER |-> 700,
       REGISTER_PUSH_NOTIFICATION |-> 1100, SEND_PUSH_NOTIFICATION |-> 1110,
       SET_SUBDEVICE_DETAILS |-> 1260]
SD == [REGISTER_DEVICE_RESULT |-> 70, REGISTER_DEVICE_RESULT_B |-> 71,
       CHANNEL_SET_VALUE |-> 110, CHANNELGROUP_SET_VALUE |-> 115,
       GET_FIRMWARE_UPDATE_URL_RESULT |-> 310, DEVICE_CALCFG_REQUEST |-> 460,
       GET_CHANNEL_FUNCTIONS_RESULT |-> 630,
       GET_CHANNEL_CONFIG_RESULT |-> 690, SET_CHANNEL_CONFIG_RESULT |-> 691,
       SET_CHANNEL_CONFIG |-> 682, CHANNEL_CONFIG_FINISHED |-> 683,
       SET_DEVICE_CONFIG_RESULT |-> 694, SET_DEVICE_CONFIG |-> 685]
CS == [REGISTER_CLIENT |-> 80, REGISTER_CLIENT_B |-> 85,
       REGISTER_CLIENT_C |-> 86, REGISTER_CLIENT_D |-> 87, GET_NEXT |-> 180,
       CHANNEL_SET_VALUE |-> 200, CHANNEL_SET_VALUE_B |-> 205,
       OAUTH_TOKEN_REQUEST |-> 340, SET_VALUE |-> 410,
       SUPERUSER_AUTHORIZATION_REQUEST |-> 420,
       GET_SUPERUSER_AUTHORIZATION_RESULT |-> 425,
       DEVICE_CALCFG_REQUEST |-> 440, DEVICE_CALCFG_REQUEST_B |-> 445,
       GET_CHANNEL_BASIC_CFG |-> 520, SET_CHANNEL_FUNCTION |-> 540,
       CLIENTS_RECONNECT_REQUEST |-> 560, SET_REGISTRATION_ENABLED |-> 580,
       DEVICE_RECONNECT_REQUEST |-> 600, SET_CHANNEL_GROUP_CAPTION |-> 642,
       SET_LOCATION_CAPTION |-> 645, TIMER_ARM |-> 800,
       EXECUTE_ACTION |-> 1000, EXECUTE_ACTION_WITH_AUTH |-> 1010,
       GET_CHANNEL_VALUE_WITH_AUTH |-> 1030, SET_SCENE_CAPTION |-> 1045,
       REGISTER_PN_CLIENT_TOKEN |-> 1120, GET_CHANNEL_CONFIG |-> 1200,
       SET_CHANNEL_CONFIG |-> 1220, GET_DEVICE_CONFIG |-> 1240]
SC == [REGISTER_CLIENT_RESULT |-> 90, REGISTER_CLIENT_RESULT_B |-> 92,
       REGISTER_CLIENT_RESULT_C |-> 94, REGISTER_CLIENT_RESULT_D |-> 96,
       LOCATION_UPDATE |-> 130, LOCATIONPACK_UPDATE |-> 140,
       CHANNELPACK_UPDATE |-> 160, CHANNEL_VALUE_UPDATE |-> 170,
       CHANNEL_VALUE_UPDATE_B |-> 171, EVENT |-> 190,
       OAUTH_TOKEN_REQUEST_RESULT |-> 350, CHANNELPACK_UPDATE_B |-> 360,
       CHANNELPACK_UPDATE_C |-> 361, CHANNELPACK_UPDATE_D |-> 362,
       CHANNELPACK_UPDATE_E |-> 363, CHANNELGROUP_PACK_UPDATE |-> 380,
       CHANNELGROUP_PACK_UPDATE_B |-> 381,
       CHANNELGROUP_RELATION_PACK_UPDATE |-> 390,
       CHANNEL_RELATION_PACK_UPDATE |-> 395, CHANNELVALUE_PACK_UPDATE |-> 400,
       CHANNELVALUE_PACK_UPDATE_B |-> 401,
       CHANNELEXTENDEDVALUE_PACK_UPDATE |-> 405,
       CHANNEL_STATE_PACK_UPDATE |-> 408,
       SUPERUSER_AUTHORIZATION_RESULT |-> 430, DEVICE_CALCFG_RESULT |-> 450,
       CHANNEL_BASIC_CFG_RESULT |-> 530, SET_CHANNEL_FUNCTION_RESULT |-> 550,
       CLIENTS_RECONNECT_REQUEST_RESULT |-> 570,
       SET_REGISTRATION_ENABLED_RESULT |-> 590,
       DEVICE_RECONNECT_REQUEST_RESULT |-> 610,
       SET_CHANNEL_GROUP_CAPTION_RESULT |-> 652,
       SET_LOCATION_CAPTION_RESULT |-> 655, SCENE_PACK_UPDATE |-> 900,
       SCENE_STATE_PACK_UPDATE |-> 910, ACTION_EXECUTION_RESULT |-> 1020,
       GET_CHANNEL_VALUE_RESULT |-> 1040, SET_SCENE_CAPTION_RESULT |-> 1055,
       REGISTER_PN_CLIENT_TOKEN_RESULT |-> 1121,
       CHANNEL_CONFIG_UPDATE_OR_RESULT |-> 1210,
       DEVICE_CONFIG_UPDATE_OR_RESULT |-> 1250]
CSD == [GET_CHANNEL_STATE |-> 500]
DSC == [CHANNEL_STATE_RESULT |-> 510]
SCD == [SET_CHANNEL_CAPTION_RESULT |-> 650]

(* The version of the protocol that a call came with; 255, of no version   *)
(* yet, for what is not a call.                                            *)
SinceTheFirst ==
    {DCS.GETVERSION, SDC.GETVERSION_RESULT, SDC.VERSIONERROR,
     DCS.PING_SERVER, SDC.PING_SERVER_RESULT, DS.REGISTER_DEVICE,
     SD.REGISTER_DEVICE_RESULT, CS.REGISTER_CLIENT,
     SC.REGISTER_CLIENT_RESULT, DS.DEVICE_CHANNEL_VALUE_CHANGED,
     SD.CHANNEL_SET_VALUE, DS.CHANNEL_SET_VALUE_RESULT, SC.LOCATION_UPDATE,
     SC.LOCATIONPACK_UPDATE, SC.CHANNELPACK_UPDATE, SC.CHANNEL_VALUE_UPDATE,
     CS.GET_NEXT, SC.EVENT, CS.CHANNEL_SET_VALUE}
SinceLater(call) ==
    CASE call \in {DS.REGISTER_DEVICE_B, DCS.SET_ACTIVITY_TIMEOUT,
                   SDC.SET_ACTIVITY_TIMEOUT_RESULT} -> 2
      [] call \in {CS.CHANNEL_SET_VALUE_B} -> 3
      [] call \in {DS.GET_FIRMWARE_UPDATE_URL,
                   SD.GET_FIRMWARE_UPDATE_URL_RESULT} -> 5
      [] call \in {DS.REGISTER_DEVICE_C, CS.REGISTER_CLIENT_B} -> 6
      [] call \in {CS.REGISTER_CLIENT_C, DS.REGISTER_DEVICE_D,
                   DCS.GET_REGISTRATION_ENABLED,
                   SDC.GET_REGISTRATION_ENABLED_RESULT} -> 7
      [] call \in {SC.CHANNELPACK_UPDATE_B} -> 8
      [] call \in {SC.REGISTER_CLIENT_RESULT_B, SC.CHANNELGROUP_PACK_UPDATE,
                   SC.CHANNELGROUP_RELATION_PACK_UPDATE,
                   SC.CHANNELVALUE_PACK_UPDATE, CS.SET_VALUE} -> 9
      [] call \in {DS.DEVICE_CHANNEL_EXTENDEDVALUE_CHANGED,
                   SC.CHANNELEXTENDEDVALUE_PACK_UPDATE,
                   CS.OAUTH_TOKEN_REQUEST, SC.OAUTH_TOKEN_REQUEST_RESULT,
                   DS.REGISTER_DEVICE_E, CS.SUPERUSER_AUTHORIZATION_REQUEST,
                   SC.SUPERUSER_AUTHORIZATION_RESULT,
                   CS.DEVICE_CALCFG_REQUEST, SC.DEVICE_CALCFG_RESULT,
                   SD.DEVICE_CALCFG_REQUEST, DS.DEVICE_CALCFG_RESULT,
                   SC.CHANNELGROUP_PACK_UPDATE_B, SC.CHANNELPACK_UPDATE_C}
                   -> 10
      [] call \in {DCS.GET_USER_LOCALTIME, DCS.GET_USER_LOCALTIME_RESULT,
                   CS.DEVICE_CALCFG_REQUEST_B} -> 11
      [] call \in {CS.REGISTER_CLIENT_D, CSD.GET_CHANNEL_STATE,
                   DSC.CHANNEL_STATE_RESULT, CS.GET_CHANNEL_BASIC_CFG,
                   SC.CHANNEL_BASIC_CFG_RESULT, CS.SET_CHANNEL_FUNCTION,
                   SC.SET_CHANNEL_FUNCTION_RESULT, DCS.SET_CHANNEL_CAPTION,
                   SCD.SET_CHANNEL_CAPTION_RESULT,
                   CS.CLIENTS_RECONNECT_REQUEST,
                   SC.CLIENTS_RECONNECT_REQUEST_RESULT,
                   CS.SET_REGISTRATION_ENABLED,
                   SC.SET_REGISTRATION_ENABLED_RESULT,
                   CS.DEVICE_RECONNECT_REQUEST,
                   SC.DEVICE_RECONNECT_REQUEST_RESULT,
                   DS.DEVICE_CHANNEL_VALUE_CHANGED_B,
                   DS.DEVICE_CHANNEL_VALUE_CHANGED_C,
                   DS.GET_CHANNEL_FUNCTIONS,
                   SD.GET_CHANNEL_FUNCTIONS_RESULT,
                   CS.GET_SUPERUSER_AUTHORIZATION_RESULT} -> 12
      [] call \in {SD.CHANNELGROUP_SET_VALUE} -> 13
      [] call \in {CS.SET_LOCATION_CAPTION, SC.SET_LOCATION_CAPTION_RESULT}
                   -> 14
      [] call \in {SC.CHANNELPACK_UPDATE_D, SC.CHANNEL_VALUE_UPDATE_B,
                   SC.CHANNELVALUE_PACK_UPDATE_B} -> 15
      [] call \in {DS.GET_CHANNEL_CONFIG, SD.GET_CHANNEL_CONFIG_RESULT,
                   DS.ACTIONTRIGGER} -> 16
      [] call \in {SC.REGISTER_CLIENT_RESULT_C, CS.TIMER_ARM} -> 17
      [] call \in {SC.SCENE_PACK_UPDATE, SC.SCENE_STATE_PACK_UPDATE} -> 18
      [] call \in {CS.EXECUTE_ACTION, CS.EXECUTE_ACTION_WITH_AUTH,
                   SC.ACTION_EXECUTION_RESULT, SC.REGISTER_CLIENT_RESULT_D,
                   CS.GET_CHANNEL_VALUE_WITH_AUTH,
                   SC.GET_CHANNEL_VALUE_RESULT, CS.SET_SCENE_CAPTION,
                   SC.SET_SCENE_CAPTION_RESULT} -> 19
      [] call \in {DS.REGISTER_PUSH_NOTIFICATION, DS.SEND_PUSH_NOTIFICATION,
                   CS.REGISTER_PN_CLIENT_TOKEN,
                   SC.REGISTER_PN_CLIENT_TOKEN_RESULT,
                   CS.SET_CHANNEL_GROUP_CAPTION,
                   SC.SET_CHANNEL_GROUP_CAPTION_RESULT} -> 20
      [] call \in {DS.SET_CHANNEL_CONFIG, SD.SET_CHANNEL_CONFIG_RESULT,
                   SD.SET_CHANNEL_CONFIG, DS.SET_CHANNEL_CONFIG_RESULT,
                   DS.SET_DEVICE_CONFIG, SD.SET_DEVICE_CONFIG_RESULT,
                   SD.SET_DEVICE_CONFIG, DS.SET_DEVICE_CONFIG_RESULT,
                   SC.CHANNEL_RELATION_PACK_UPDATE, CS.GET_CHANNEL_CONFIG,
                   SC.CHANNEL_CONFIG_UPDATE_OR_RESULT,
                   CS.SET_CHANNEL_CONFIG, CS.GET_DEVICE_CONFIG,
                   SC.DEVICE_CONFIG_UPDATE_OR_RESULT,
                   SD.CHANNEL_CONFIG_FINISHED} -> 21
      [] call \in {SC.CHANNELPACK_UPDATE_E, DS.REGISTER_DEVICE_F} -> 23
      [] call \in {DS.REGISTER_DEVICE_G, SD.REGISTER_DEVICE_RESULT_B,
                   DS.SET_SUBDEVICE_DETAILS} -> 25
      [] call \in {SC.CHANNEL_STATE_PACK_UPDATE} -> 26
      [] OTHER -> 255
srpc_call_min_version_required(call) ==
    IF call \in SinceTheFirst THEN 1 ELSE SinceLater(call)

Numbers(table) == {table[name] : name \in DOMAIN table}

(* Who may say what: the answer to GET_USER_LOCALTIME is the server's,     *)
(* although its name has the direction of the question.                    *)
FromDevice == (Numbers(DS) \cup Numbers(DCS) \cup Numbers(DSC))
              \ {DCS.GET_USER_LOCALTIME_RESULT}
FromClient == (Numbers(CS) \cup Numbers(DCS) \cup Numbers(CSD))
              \ {DCS.GET_USER_LOCALTIME_RESULT}
ToDevice == Numbers(SD) \cup Numbers(SDC) \cup Numbers(CSD) \cup Numbers(SCD)
            \cup {DCS.GET_USER_LOCALTIME_RESULT}
ToClient == Numbers(SC) \cup Numbers(SDC) \cup Numbers(DSC) \cup Numbers(SCD)
            \cup {DCS.GET_USER_LOCALTIME_RESULT}
Calls == FromDevice \cup FromClient \cup ToDevice \cup ToClient

==============================================================================
