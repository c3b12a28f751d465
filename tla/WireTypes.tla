------------------------------ MODULE WireTypes ------------------------------
(***************************************************************************)
(* The layouts of the messages of the protocol: the packed structures of   *)
(* src/supla-common/proto.h, as far as the bytes on the wire depend on     *)
(* them. What is kept of a structure is its size. A structure whose last   *)
(* field is an array of which only a part is sent (a caption, the channels *)
(* of a registration, the items of a pack) is a record: the bytes before   *)
(* the array, the bytes of one item and how many there is room for.        *)
(*                                                                         *)
(* The structures are packed (#pragma pack(push, 1)): their size is the    *)
(* sum of the sizes of their fields, in the order of the fields below but  *)
(* for fields of one type, which are counted together. A union counts with *)
(* its largest alternative and a bit field of eight bits as a character.   *)
(*                                                                         *)
(* Three sizes depend on how the library is built and are the parameters   *)
(* of this module (proto.h:121-139, 377-383, 1924-1930).                   *)
(***************************************************************************)
EXTENDS Naturals, Sequences

CONSTANTS SUPLA_MAX_DATA_SIZE,              \* largest data of a packet
          SUPLA_CHANNELEXTENDEDVALUE_SIZE,  \* largest extended value
          EM_MEASUREMENT_COUNT              \* measurements of a meter's value

(* The types of the fields, in bytes. *)
Char == 1
Int16 == 2
Int32 == 4
Int64 == 8
Timeval == 2 * Int64
TimevalCompat == 2 * Int32

(* A structure of which only so many items of the last array are sent; the *)
(* array may be one of characters, or the structure may end in another one *)
(* of this kind.                                                           *)
Counted(fixed, item, max) == [fixed |-> fixed, item |-> item, max |-> max]
CharTail(fixed, max) == Counted(fixed, Char, max)
After(prefix, T) == [T EXCEPT !.fixed = prefix + @]

(* A union is as large as its largest alternative. *)
Union(sizes) == CHOOSE m \in sizes : \A n \in sizes : n <= m

(* sizeof() of such a structure, and its size when n items are sent. *)
SizeOf(T) == T.fixed + T.item * T.max
SizeWith(T, n) == T.fixed + T.item * n

(* Sizes added up.                                                         *)
Total(sizes) ==
    LET sum[i \in 0 .. Len(sizes)] == IF i = 0 THEN 0 ELSE sum[i - 1] + sizes[i]
    IN  sum[Len(sizes)]

(* Limits of the protocol ************************************************)
SUPLA_SOFTVER_MAXSIZE == 21
SUPLA_CAPTION_MAXSIZE == 401
SUPLA_GUID_SIZE == 16
SUPLA_LOCATION_PWD_MAXSIZE == 33
SUPLA_ACCESSID_PWD_MAXSIZE == 33
SUPLA_LOCATION_CAPTION_MAXSIZE == SUPLA_CAPTION_MAXSIZE
SUPLA_LOCATIONPACK_MAXCOUNT == 20
SUPLA_CHANNEL_CAPTION_MAXSIZE == SUPLA_CAPTION_MAXSIZE
SUPLA_CHANNELPACK_MAXCOUNT == 20
SUPLA_URL_HOST_MAXSIZE == 101
SUPLA_URL_PATH_MAXSIZE == 101
SUPLA_SERVER_NAME_MAXSIZE == 65
SUPLA_EMAIL_MAXSIZE == 256
SUPLA_PASSWORD_MAXSIZE == 64
SUPLA_AUTHKEY_SIZE == 16
SUPLA_OAUTH_TOKEN_MAXSIZE == 256
SUPLA_CHANNELGROUP_PACK_MAXCOUNT == 20
SUPLA_CHANNELGROUP_CAPTION_MAXSIZE == 401
SUPLA_CHANNELVALUE_PACK_MAXCOUNT == 20
SUPLA_CHANNELEXTENDEDVALUE_PACK_MAXCOUNT == 5
SUPLA_CHANNELEXTENDEDVALUE_PACK_MAXDATASIZE == SUPLA_MAX_DATA_SIZE - 50
SUPLA_CALCFG_DATA_MAXSIZE == 128
SUPLA_TIMEZONE_MAXSIZE == 51
SUPLA_ACTION_PARAM_MAXSIZE == 500
SUPLA_CHANNELGROUP_RELATION_PACK_MAXCOUNT == 100
SUPLA_SCENE_CAPTION_MAXSIZE == SUPLA_CAPTION_MAXSIZE
SUPLA_SCENE_PACK_MAXCOUNT == 20
SUPLA_SCENE_STATE_PACK_MAXCOUNT == 20
SUPLA_CHANNEL_RELATION_PACK_MAXCOUNT == 100
SUPLA_CHANNEL_STATE_PACK_MAXCOUNT == 20
SUPLA_DEVICE_NAME_MAXSIZE == 201
SUPLA_CLIENT_NAME_MAXSIZE == 201
SUPLA_SENDER_NAME_MAXSIZE == 201
SUPLA_INITIATOR_NAME_MAXSIZE == SUPLA_SENDER_NAME_MAXSIZE
SUPLA_CHANNELMAXCOUNT == 128
SUPLA_CHANNELVALUE_SIZE == 8
CHANNEL_REPORT_MAXSIZE == 256
SUPLA_CHANNEL_CONFIG_MAXSIZE == 512
SUPLA_DEVICE_CONFIG_MAXSIZE == 512
SUPLA_PN_TITLE_MAXSIZE == 101
SUPLA_PN_BODY_MAXSIZE == 256
SUPLA_PN_PROFILE_NAME_MAXSIZE == 51
SUPLA_SUBDEVICE_PRODUCT_CODE_MAXSIZE == 51
SUPLA_SUBDEVICE_SERIAL_NUMBER_MAXSIZE == 51
SUPLA_PN_CLIENT_TOKEN_MAXSIZE == 256

(* The calls both a device and a client make *****************************)
TSDC_SuplaGetVersionResult == 2 * Char + SUPLA_SOFTVER_MAXSIZE
TSDC_SuplaVersionError == 2 * Char
TDCS_SuplaPingServer == Timeval
TDCS_SuplaPingServer_COMPAT == TimevalCompat
TSDC_SuplaPingServerResult == Timeval
TDCS_SuplaSetActivityTimeout == Char
TSDC_SuplaSetActivityTimeoutResult == 3 * Char

(* Values of channels and locations **************************************)
TSuplaChannelValue == 2 * SUPLA_CHANNELVALUE_SIZE
TSuplaChannelValue_B == 2 * SUPLA_CHANNELVALUE_SIZE + Char
TSuplaChannelExtendedValue ==
    CharTail(Char + Int32, SUPLA_CHANNELEXTENDEDVALUE_SIZE)
TSC_SuplaLocation == CharTail(Char + 2 * Int32, SUPLA_LOCATION_CAPTION_MAXSIZE)
TSC_SuplaLocationPack ==
    Counted(2 * Int32, SizeOf(TSC_SuplaLocation), SUPLA_LOCATIONPACK_MAXCOUNT)

(* What a device registers with ******************************************)
TDS_SuplaDeviceChannel == Char + Int32 + SUPLA_CHANNELVALUE_SIZE
TDS_SuplaRegisterDevice ==
    Counted(Int32 + SUPLA_LOCATION_PWD_MAXSIZE + SUPLA_GUID_SIZE
            + SUPLA_DEVICE_NAME_MAXSIZE + SUPLA_SOFTVER_MAXSIZE + Char,
            TDS_SuplaDeviceChannel, SUPLA_CHANNELMAXCOUNT)
TDS_SuplaDeviceChannel_B == Char + 3 * Int32 + SUPLA_CHANNELVALUE_SIZE
TActionTriggerProperties == Char + Int32
THVACValue == 2 * Char + 3 * Int16
ChannelValueUnion ==
    Union({SUPLA_CHANNELVALUE_SIZE, TActionTriggerProperties, THVACValue})
TDS_SuplaDeviceChannel_C == Char + 4 * Int32 + ChannelValueUnion
TDS_SuplaDeviceChannel_D ==
    3 * Char + 4 * Int32 + Int64 + ChannelValueUnion
TDS_SuplaDeviceChannel_E ==
    4 * Char + 4 * Int32 + Int64 + ChannelValueUnion
TDS_SuplaRegisterDevice_B ==
    Counted(Int32 + SUPLA_LOCATION_PWD_MAXSIZE + SUPLA_GUID_SIZE
            + SUPLA_DEVICE_NAME_MAXSIZE + SUPLA_SOFTVER_MAXSIZE + Char,
            TDS_SuplaDeviceChannel_B, SUPLA_CHANNELMAXCOUNT)
TDS_SuplaRegisterDevice_C ==
    Counted(Int32 + SUPLA_LOCATION_PWD_MAXSIZE + SUPLA_GUID_SIZE
            + SUPLA_DEVICE_NAME_MAXSIZE + SUPLA_SOFTVER_MAXSIZE
            + SUPLA_SERVER_NAME_MAXSIZE + Char,
            TDS_SuplaDeviceChannel_B, SUPLA_CHANNELMAXCOUNT)
TDS_SuplaRegisterDevice_D ==
    Counted(SUPLA_EMAIL_MAXSIZE + SUPLA_AUTHKEY_SIZE + SUPLA_GUID_SIZE
            + SUPLA_DEVICE_NAME_MAXSIZE + SUPLA_SOFTVER_MAXSIZE
            + SUPLA_SERVER_NAME_MAXSIZE + Char,
            TDS_SuplaDeviceChannel_B, SUPLA_CHANNELMAXCOUNT)
TDS_SuplaRegisterDevice_E ==
    Counted(SUPLA_EMAIL_MAXSIZE + SUPLA_AUTHKEY_SIZE + SUPLA_GUID_SIZE
            + SUPLA_DEVICE_NAME_MAXSIZE + SUPLA_SOFTVER_MAXSIZE
            + SUPLA_SERVER_NAME_MAXSIZE + Int32 + 2 * Int16 + Char,
            TDS_SuplaDeviceChannel_C, SUPLA_CHANNELMAXCOUNT)
TDS_SuplaRegisterDeviceHeader ==
    SUPLA_EMAIL_MAXSIZE + SUPLA_AUTHKEY_SIZE + SUPLA_GUID_SIZE
    + SUPLA_DEVICE_NAME_MAXSIZE + SUPLA_SOFTVER_MAXSIZE
    + SUPLA_SERVER_NAME_MAXSIZE + Int32 + 2 * Int16 + Char
TDS_SuplaRegisterDevice_F ==
    Counted(SUPLA_EMAIL_MAXSIZE + SUPLA_AUTHKEY_SIZE + SUPLA_GUID_SIZE
            + SUPLA_DEVICE_NAME_MAXSIZE + SUPLA_SOFTVER_MAXSIZE
            + SUPLA_SERVER_NAME_MAXSIZE + Int32 + 2 * Int16 + Char,
            TDS_SuplaDeviceChannel_D, SUPLA_CHANNELMAXCOUNT)
TDS_SuplaRegisterDevice_G ==
    Counted(SUPLA_EMAIL_MAXSIZE + SUPLA_AUTHKEY_SIZE + SUPLA_GUID_SIZE
            + SUPLA_DEVICE_NAME_MAXSIZE + SUPLA_SOFTVER_MAXSIZE
            + SUPLA_SERVER_NAME_MAXSIZE + Int32 + 2 * Int16 + Char,
            TDS_SuplaDeviceChannel_E, SUPLA_CHANNELMAXCOUNT)
TSD_SuplaRegisterDeviceResult == Int32 + 3 * Char
TSD_SuplaRegisterDeviceResult_B ==
    CharTail(Int32 + 3 * Char + Int16, CHANNEL_REPORT_MAXSIZE)

(* Values between a device and the server ********************************)
TDS_SuplaDeviceChannelValue == Char + SUPLA_CHANNELVALUE_SIZE
TDS_SuplaDeviceChannelValue_B == 2 * Char + SUPLA_CHANNELVALUE_SIZE
TDS_SuplaDeviceChannelValue_C == 2 * Char + Int32 + SUPLA_CHANNELVALUE_SIZE
TDS_SuplaDeviceChannelExtendedValue == After(Char, TSuplaChannelExtendedValue)
TSD_SuplaChannelNewValue == 2 * Int32 + Char + SUPLA_CHANNELVALUE_SIZE
TSD_SuplaChannelGroupNewValue == 3 * Int32 + 2 * Char + SUPLA_CHANNELVALUE_SIZE
TDS_SuplaChannelNewValueResult == 2 * Char + Int32

(* What a client is told of the channels *********************************)
TSC_SuplaChannelValue == 2 * Char + Int32 + TSuplaChannelValue
TSC_SuplaChannelValue_B == 2 * Char + Int32 + TSuplaChannelValue_B
TSC_SuplaChannelValuePack ==
    Counted(2 * Int32, TSC_SuplaChannelValue, SUPLA_CHANNELVALUE_PACK_MAXCOUNT)
TSC_SuplaChannelValuePack_B ==
    Counted(2 * Int32,
            TSC_SuplaChannelValue_B, SUPLA_CHANNELVALUE_PACK_MAXCOUNT)
TSC_SuplaChannelExtendedValuePack ==
    CharTail(3 * Int32, SUPLA_CHANNELEXTENDEDVALUE_PACK_MAXDATASIZE)
TSC_SuplaChannel ==
    CharTail(2 * Char + 4 * Int32 + TSuplaChannelValue,
             SUPLA_CHANNEL_CAPTION_MAXSIZE)
TSC_SuplaChannelPack ==
    Counted(2 * Int32, SizeOf(TSC_SuplaChannel), SUPLA_CHANNELPACK_MAXCOUNT)
TSC_SuplaChannel_B ==
    CharTail(3 * Char + 6 * Int32 + TSuplaChannelValue,
             SUPLA_CHANNEL_CAPTION_MAXSIZE)
TSC_SuplaChannelPack_B ==
    Counted(2 * Int32, SizeOf(TSC_SuplaChannel_B), SUPLA_CHANNELPACK_MAXCOUNT)
TSC_SuplaChannel_C ==
    CharTail(3 * Char + 9 * Int32 + 2 * Int16 + TSuplaChannelValue,
             SUPLA_CHANNEL_CAPTION_MAXSIZE)
TSC_SuplaChannel_D ==
    CharTail(3 * Char + 9 * Int32 + 2 * Int16 + TSuplaChannelValue_B,
             SUPLA_CHANNEL_CAPTION_MAXSIZE)
TSC_SuplaChannel_E ==
    CharTail(3 * Char + 9 * Int32 + 2 * Int16 + Int64 + TSuplaChannelValue_B,
             SUPLA_CHANNEL_CAPTION_MAXSIZE)
TSC_SuplaChannelPack_C ==
    Counted(2 * Int32, SizeOf(TSC_SuplaChannel_C), SUPLA_CHANNELPACK_MAXCOUNT)
TSC_SuplaChannelPack_D ==
    Counted(2 * Int32, SizeOf(TSC_SuplaChannel_D), SUPLA_CHANNELPACK_MAXCOUNT)
TSC_SuplaChannelPack_E ==
    Counted(2 * Int32, SizeOf(TSC_SuplaChannel_E), SUPLA_CHANNELPACK_MAXCOUNT)
TSC_SuplaChannelGroup ==
    CharTail(Char + 6 * Int32, SUPLA_CHANNELGROUP_CAPTION_MAXSIZE)
TSC_SuplaChannelGroup_B ==
    CharTail(Char + 7 * Int32, SUPLA_CHANNELGROUP_CAPTION_MAXSIZE)
TSC_SuplaChannelGroupPack ==
    Counted(2 * Int32,
            SizeOf(TSC_SuplaChannelGroup), SUPLA_CHANNELGROUP_PACK_MAXCOUNT)
TSC_SuplaChannelGroupPack_B ==
    Counted(2 * Int32,
            SizeOf(TSC_SuplaChannelGroup_B), SUPLA_CHANNELGROUP_PACK_MAXCOUNT)
TSC_SuplaChannelGroupRelation == Char + 2 * Int32
TSC_SuplaChannelGroupRelationPack ==
    Counted(2 * Int32, TSC_SuplaChannelGroupRelation,
            SUPLA_CHANNELGROUP_RELATION_PACK_MAXCOUNT)
TSC_SuplaChannelRelation == Char + 2 * Int32 + Int16
TSC_SuplaChannelRelationPack ==
    Counted(2 * Int32,
            TSC_SuplaChannelRelation, SUPLA_CHANNEL_RELATION_PACK_MAXCOUNT)
TSC_SuplaScene ==
    CharTail(Char + 4 * Int32 + Int16, SUPLA_SCENE_CAPTION_MAXSIZE)
TSC_SuplaScenePack ==
    Counted(2 * Int32, SizeOf(TSC_SuplaScene), SUPLA_SCENE_PACK_MAXCOUNT)
TSC_SuplaSceneState ==
    CharTail(Char + 4 * Int32 + Int16, SUPLA_INITIATOR_NAME_MAXSIZE)
TSC_SuplaSceneStatePack ==
    Counted(2 * Int32,
            SizeOf(TSC_SuplaSceneState), SUPLA_SCENE_STATE_PACK_MAXCOUNT)

(* Actions and values on request *****************************************)
TCS_Action == CharTail(2 * Int32 + Char + Int16, SUPLA_ACTION_PARAM_MAXSIZE)
TCS_ClientAuthorizationDetails ==
    Int32 + SUPLA_ACCESSID_PWD_MAXSIZE + SUPLA_EMAIL_MAXSIZE
    + SUPLA_AUTHKEY_SIZE + SUPLA_GUID_SIZE + SUPLA_SERVER_NAME_MAXSIZE
TCS_ActionWithAuth == After(TCS_ClientAuthorizationDetails, TCS_Action)
TSC_ActionExecutionResult == Char + 3 * Int32
TSC_GetChannelValueResult ==
    After(Char + 2 * Int32 + TSuplaChannelValue_B, TSuplaChannelExtendedValue)
TCS_GetChannelValueWithAuth == TCS_ClientAuthorizationDetails + Int32

(* What a client registers with ******************************************)
TCS_SuplaRegisterClient ==
    Int32 + SUPLA_ACCESSID_PWD_MAXSIZE + SUPLA_GUID_SIZE
    + SUPLA_CLIENT_NAME_MAXSIZE + SUPLA_SOFTVER_MAXSIZE
TCS_SuplaRegisterClient_B ==
    Int32 + SUPLA_ACCESSID_PWD_MAXSIZE + SUPLA_GUID_SIZE
    + SUPLA_CLIENT_NAME_MAXSIZE + SUPLA_SOFTVER_MAXSIZE
    + SUPLA_SERVER_NAME_MAXSIZE
TCS_SuplaRegisterClient_C ==
    SUPLA_EMAIL_MAXSIZE + SUPLA_AUTHKEY_SIZE + SUPLA_GUID_SIZE
    + SUPLA_CLIENT_NAME_MAXSIZE + SUPLA_SOFTVER_MAXSIZE
    + SUPLA_SERVER_NAME_MAXSIZE
TCS_SuplaRegisterClient_D ==
    SUPLA_EMAIL_MAXSIZE + SUPLA_PASSWORD_MAXSIZE + SUPLA_AUTHKEY_SIZE
    + SUPLA_GUID_SIZE + SUPLA_CLIENT_NAME_MAXSIZE + SUPLA_SOFTVER_MAXSIZE
    + SUPLA_SERVER_NAME_MAXSIZE
TSC_SuplaRegisterClientResult == 4 * Int32 + 3 * Char
TSC_SuplaRegisterClientResult_B == 6 * Int32 + 3 * Char
TSC_SuplaRegisterClientResult_C == 7 * Int32 + 3 * Char
TSC_SuplaRegisterClientResult_D == 4 * Int32 + 4 * Int16 + 3 * Char

(* New values, events, firmware and tokens *******************************)
TCS_SuplaChannelNewValue == Char + SUPLA_CHANNELVALUE_SIZE
TCS_SuplaChannelNewValue_B == Int32 + SUPLA_CHANNELVALUE_SIZE
TCS_SuplaNewValue == Int32 + Char + SUPLA_CHANNELVALUE_SIZE
TSC_SuplaEvent == CharTail(5 * Int32, SUPLA_SENDER_NAME_MAXSIZE)
TDS_FirmwareUpdateParams == Char + 4 * Int32
TSD_FirmwareUpdate_Url ==
    Char + SUPLA_URL_HOST_MAXSIZE + Int32 + SUPLA_URL_PATH_MAXSIZE
TSD_FirmwareUpdate_UrlResult == Char + TSD_FirmwareUpdate_Url
TSDC_RegistrationEnabled == 2 * Int32
TSC_OAuthToken == CharTail(2 * Int32, SUPLA_OAUTH_TOKEN_MAXSIZE)
TSC_OAuthTokenRequestResult == After(Char, TSC_OAuthToken)

(* Extended values *******************************************************)
TElectricityMeter_Measurement == 13 * Int16 + 9 * Int32
TElectricityMeter_ExtendedValue ==
    Counted(12 * Int64 + 5 * Int32 + 3 * Char,
            TElectricityMeter_Measurement, EM_MEASUREMENT_COUNT)
TElectricityMeter_ExtendedValue_V2 ==
    Counted(14 * Int64 + 6 * Int32 + 3 * Char,
            TElectricityMeter_Measurement, EM_MEASUREMENT_COUNT)
TElectricityMeter_ExtendedValue_V3 ==
    Counted(14 * Int64 + 2 * Int16 + 4 * Char + 6 * Int32,
            TElectricityMeter_Measurement, EM_MEASUREMENT_COUNT)
TTimerState_ExtendedValue ==
    3 * Int32 + SUPLA_CHANNELVALUE_SIZE + SUPLA_SENDER_NAME_MAXSIZE
TSC_ImpulseCounter_ExtendedValue == 3 * Int32 + 12 * Char + 2 * Int64

(* Authorization and calibration *****************************************)
TCS_SuperUserAuthorizationRequest ==
    SUPLA_EMAIL_MAXSIZE + SUPLA_PASSWORD_MAXSIZE
TSC_SuperUserAuthorizationResult == Int32
TCS_DeviceCalCfgRequest == CharTail(4 * Int32, SUPLA_CALCFG_DATA_MAXSIZE)
TCS_DeviceCalCfgRequest_B ==
    CharTail(4 * Int32 + Char, SUPLA_CALCFG_DATA_MAXSIZE)
TSC_DeviceCalCfgResult == CharTail(4 * Int32, SUPLA_CALCFG_DATA_MAXSIZE)
TSD_DeviceCalCfgRequest == CharTail(5 * Int32 + Char, SUPLA_CALCFG_DATA_MAXSIZE)
TDS_DeviceCalCfgResult == CharTail(5 * Int32, SUPLA_CALCFG_DATA_MAXSIZE)

(* The thermostat ********************************************************)
TThermostat_Time == 4 * Char
TThermostat_Schedule == 169 * Char
TThermostat_ExtendedValue ==
    Char + 36 * Int16 + TThermostat_Time + TThermostat_Schedule

(* Local time, states, captions and functions ****************************)
TSDC_UserLocalTimeResult ==
    CharTail(Int16 + 6 * Char + Int32, SUPLA_TIMEZONE_MAXSIZE)
TCSD_ChannelStateRequest == 2 * Int32
TDSC_ChannelState == 8 * Int32 + 16 * Char + Int16
TCS_ChannelBasicCfgRequest == Int32
TSC_ChannelBasicCfg ==
    CharTail(SUPLA_DEVICE_NAME_MAXSIZE + SUPLA_SOFTVER_MAXSIZE + 8 * Int32
             + 2 * Int16 + Char,
             SUPLA_CHANNEL_CAPTION_MAXSIZE)
TCS_SetChannelFunction == 2 * Int32
TSC_SetChannelFunctionResult == 2 * Int32 + Char
TDCS_SetCaption == CharTail(2 * Int32, SUPLA_CAPTION_MAXSIZE)
TSCD_SetCaptionResult == CharTail(2 * Int32 + Char, SUPLA_CAPTION_MAXSIZE)
TSC_ClientsReconnectRequestResult == Char
TCS_SetRegistrationEnabled == 2 * Int32
TSC_SetRegistrationEnabledResult == Char
TCS_DeviceReconnectRequest == Int32
TSC_DeviceReconnectRequestResult == Int32 + Char
TSD_ChannelFunctions == Counted(Char, Int32, SUPLA_CHANNELMAXCOUNT)

(* Configurations of devices and channels ********************************)
TSDS_SetDeviceConfig ==
    CharTail(9 * Char + 2 * Int64 + Int16, SUPLA_DEVICE_CONFIG_MAXSIZE)
TSDS_SetDeviceConfigResult == 10 * Char
TSCS_DeviceConfig ==
    CharTail(Int32 + 9 * Char + 2 * Int64 + Int16, SUPLA_DEVICE_CONFIG_MAXSIZE)
TSC_DeviceConfigUpdateOrResult == After(Char, TSCS_DeviceConfig)
TCS_GetDeviceConfigRequest == Int32 + Int64 + 8 * Char
TCS_GetChannelConfigRequest == 2 * Int32 + Char
TSCS_ChannelConfig ==
    CharTail(2 * Int32 + Char + Int16, SUPLA_CHANNEL_CONFIG_MAXSIZE)
TSC_ChannelConfigUpdateOrResult == After(Char, TSCS_ChannelConfig)
TDS_GetChannelConfigRequest == 2 * Char + Int32
TSD_ChannelConfig ==
    CharTail(2 * Char + Int32 + Int16, SUPLA_CHANNEL_CONFIG_MAXSIZE)
TSDS_SetChannelConfig == TSD_ChannelConfig
TSDS_SetChannelConfigResult == 3 * Char
TSD_ChannelConfigFinished == Char

(* Timers, action triggers and notifications *****************************)
TCS_TimerArmRequest == 2 * Int32 + Char
TDS_ActionTrigger == 11 * Char + Int32
TDS_RegisterPushNotification == 9 * Char + Int16
TDS_PushNotification ==
    CharTail(3 * Int16 + 32 * Char + Int32,
             SUPLA_PN_TITLE_MAXSIZE + SUPLA_PN_BODY_MAXSIZE)
TDS_SubdeviceDetails ==
    Char + SUPLA_DEVICE_NAME_MAXSIZE + SUPLA_SOFTVER_MAXSIZE
    + SUPLA_SUBDEVICE_PRODUCT_CODE_MAXSIZE
    + SUPLA_SUBDEVICE_SERIAL_NUMBER_MAXSIZE
TCS_PnClientToken ==
    CharTail(Char + 2 * Int32 + SUPLA_PN_PROFILE_NAME_MAXSIZE + 2 * Int16,
             SUPLA_PN_CLIENT_TOKEN_MAXSIZE)
TCS_RegisterPnClientToken ==
    After(TCS_ClientAuthorizationDetails, TCS_PnClientToken)
TSC_RegisterPnClientTokenResult == Int32
TSC_SuplaChannelStatePack ==
    Counted(2 * Int32, TDSC_ChannelState, SUPLA_CHANNEL_STATE_PACK_MAXCOUNT)

==============================================================================
