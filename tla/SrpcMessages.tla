----------------------------- MODULE SrpcMessages -----------------------------
(***************************************************************************)
(* What every call looks like on the wire, twice: as the async functions   *)
(* of src/supla-common/srpc.c write it and as srpc_getdata reads it. The   *)
(* two are separate code, some 1500 lines and 850 lines apart, and nothing *)
(* but the sizes of the structures of WireTypes ties them together.        *)
(*                                                                         *)
(* The data of a message is [n, caps]: n is the number of items of its     *)
(* last array, or its size when it has no such array, and caps the sizes   *)
(* of the captions when its items end in captions (a pack).                *)
(***************************************************************************)
EXTENDS WireTypes, CallIds

(* The forms of a message: no data, a structure sent whole (one of a few   *)
(* sizes), a structure cut after its last item, and a pack; and what is no  *)
(* call of the protocol has none.                                          *)
NoMessage == [form |-> "unknown"]
NoData == [form |-> "none"]
OneOf(sizes) == [form |-> "whole", sizes |-> sizes]
Whole(T) == OneOf({T})
ItemsFrom(least, T) == [form |-> "items", least |-> least, layout |-> T]
UpTo(T) == ItemsFrom(0, T)
SomeOf(T) == ItemsFrom(1, T)
Pack(P, I) == [form |-> "pack", layout |-> P, item |-> I]

(* The bytes before the array and of one item: what the two ends must      *)
(* agree on to read each other.                                            *)
Shape(e) ==
    CASE e.form = "items" -> <<e.layout.fixed, e.layout.item>>
      [] e.form = "pack"  -> <<e.layout.fixed, e.item.fixed>>
      [] OTHER            -> <<>>

(***************************************************************************)
(* The async functions: what each call sends. A group of functions leaves  *)
(* the calls it has none for to the next one.                              *)
(***************************************************************************)

AsyncCommon(call, otherwise) ==
    CASE call = DCS.GETVERSION -> NoData
      [] call = SDC.GETVERSION_RESULT -> Whole(TSDC_SuplaGetVersionResult)
      [] call = SDC.VERSIONERROR -> Whole(TSDC_SuplaVersionError)
      [] call = DCS.PING_SERVER -> Whole(TDCS_SuplaPingServer)
      [] call = SDC.PING_SERVER_RESULT -> Whole(TSDC_SuplaPingServerResult)
      [] call = DCS.SET_ACTIVITY_TIMEOUT -> Whole(TDCS_SuplaSetActivityTimeout)
      [] call = SDC.SET_ACTIVITY_TIMEOUT_RESULT
             -> Whole(TSDC_SuplaSetActivityTimeoutResult)
      [] call = DCS.GET_REGISTRATION_ENABLED -> NoData
      [] call = SDC.GET_REGISTRATION_ENABLED_RESULT
             -> Whole(TSDC_RegistrationEnabled)
      [] call = DCS.GET_USER_LOCALTIME -> NoData
      [] call = DCS.GET_USER_LOCALTIME_RESULT -> UpTo(TSDC_UserLocalTimeResult)
      [] call = CSD.GET_CHANNEL_STATE -> Whole(TCSD_ChannelStateRequest)
      [] call = DSC.CHANNEL_STATE_RESULT -> Whole(TDSC_ChannelState)
      [] OTHER -> otherwise

(* Every caption is set by the same function, and answered by the same.    *)
SetCaption == UpTo(TDCS_SetCaption)
SetCaptionResult == UpTo(TSCD_SetCaptionResult)

AsyncCaption(call, otherwise) ==
    CASE call = DCS.SET_CHANNEL_CAPTION -> SetCaption
      [] call = SCD.SET_CHANNEL_CAPTION_RESULT -> SetCaptionResult
      [] OTHER -> otherwise

AsyncRegisterDevice(call, otherwise) ==
    CASE call = DS.GET_FIRMWARE_UPDATE_URL -> Whole(TDS_FirmwareUpdateParams)
      [] call = DS.REGISTER_DEVICE -> UpTo(TDS_SuplaRegisterDevice)
      [] call = DS.REGISTER_DEVICE_B -> UpTo(TDS_SuplaRegisterDevice_B)
      [] call = DS.REGISTER_DEVICE_C -> UpTo(TDS_SuplaRegisterDevice_C)
      [] call = DS.REGISTER_DEVICE_D -> UpTo(TDS_SuplaRegisterDevice_D)
      [] call = DS.REGISTER_DEVICE_E -> UpTo(TDS_SuplaRegisterDevice_E)
      [] OTHER -> otherwise

AsyncRegisterDeviceFG(call, otherwise) ==
    CASE call = DS.REGISTER_DEVICE_F -> UpTo(TDS_SuplaRegisterDevice_F)
      [] call = DS.REGISTER_DEVICE_G -> UpTo(TDS_SuplaRegisterDevice_G)
      [] call = SD.REGISTER_DEVICE_RESULT
             -> Whole(TSD_SuplaRegisterDeviceResult)
      [] call = SD.REGISTER_DEVICE_RESULT_B
             -> UpTo(TSD_SuplaRegisterDeviceResult_B)
      [] OTHER -> otherwise

(* A firmware is announced with its address, or a byte says there is none. *)
AsyncDeviceValues(call, otherwise) ==
    CASE call = SD.CHANNEL_SET_VALUE -> Whole(TSD_SuplaChannelNewValue)
      [] call = SD.CHANNELGROUP_SET_VALUE
             -> Whole(TSD_SuplaChannelGroupNewValue)
      [] call = DS.CHANNEL_SET_VALUE_RESULT
             -> Whole(TDS_SuplaChannelNewValueResult)
      [] call = SD.GET_FIRMWARE_UPDATE_URL_RESULT
             -> OneOf({TSD_FirmwareUpdate_UrlResult, Char})
      [] call = DS.DEVICE_CHANNEL_VALUE_CHANGED
             -> Whole(TDS_SuplaDeviceChannelValue)
      [] call = DS.DEVICE_CHANNEL_VALUE_CHANGED_B
             -> Whole(TDS_SuplaDeviceChannelValue_B)
      [] call = DS.DEVICE_CHANNEL_VALUE_CHANGED_C
             -> Whole(TDS_SuplaDeviceChannelValue_C)
      [] call = DS.DEVICE_CHANNEL_EXTENDEDVALUE_CHANGED
             -> SomeOf(TDS_SuplaDeviceChannelExtendedValue)
      [] OTHER -> otherwise

AsyncDeviceConfig(call, otherwise) ==
    CASE call = SD.DEVICE_CALCFG_REQUEST -> UpTo(TSD_DeviceCalCfgRequest)
      [] call = DS.DEVICE_CALCFG_RESULT -> UpTo(TDS_DeviceCalCfgResult)
      [] call = DS.GET_CHANNEL_FUNCTIONS -> NoData
      [] call = SD.GET_CHANNEL_FUNCTIONS_RESULT -> UpTo(TSD_ChannelFunctions)
      [] call = DS.GET_CHANNEL_CONFIG -> Whole(TDS_GetChannelConfigRequest)
      [] call = SD.GET_CHANNEL_CONFIG_RESULT -> UpTo(TSD_ChannelConfig)
      [] call = SD.SET_CHANNEL_CONFIG -> UpTo(TSDS_SetChannelConfig)
      [] call = DS.SET_CHANNEL_CONFIG_RESULT
             -> Whole(TSDS_SetChannelConfigResult)
      [] call = DS.SET_CHANNEL_CONFIG -> UpTo(TSDS_SetChannelConfig)
      [] call = SD.SET_CHANNEL_CONFIG_RESULT
             -> Whole(TSDS_SetChannelConfigResult)
      [] call = SD.CHANNEL_CONFIG_FINISHED -> Whole(TSD_ChannelConfigFinished)
      [] OTHER -> otherwise

(* The title and the body of a notification are one array on the wire.     *)
AsyncDeviceSettings(call, otherwise) ==
    CASE call = SD.SET_DEVICE_CONFIG -> UpTo(TSDS_SetDeviceConfig)
      [] call = DS.SET_DEVICE_CONFIG_RESULT
             -> Whole(TSDS_SetDeviceConfigResult)
      [] call = DS.SET_DEVICE_CONFIG -> UpTo(TSDS_SetDeviceConfig)
      [] call = SD.SET_DEVICE_CONFIG_RESULT
             -> Whole(TSDS_SetDeviceConfigResult)
      [] call = DS.ACTIONTRIGGER -> Whole(TDS_ActionTrigger)
      [] call = DS.REGISTER_PUSH_NOTIFICATION
             -> Whole(TDS_RegisterPushNotification)
      [] call = DS.SEND_PUSH_NOTIFICATION -> UpTo(TDS_PushNotification)
      [] call = DS.SET_SUBDEVICE_DETAILS -> Whole(TDS_SubdeviceDetails)
      [] OTHER -> otherwise

AsyncRegisterClient(call, otherwise) ==
    CASE call = CS.REGISTER_CLIENT -> Whole(TCS_SuplaRegisterClient)
      [] call = CS.REGISTER_CLIENT_B -> Whole(TCS_SuplaRegisterClient_B)
      [] call = CS.REGISTER_CLIENT_C -> Whole(TCS_SuplaRegisterClient_C)
      [] call = CS.REGISTER_CLIENT_D -> Whole(TCS_SuplaRegisterClient_D)
      [] call = SC.REGISTER_CLIENT_RESULT
             -> Whole(TSC_SuplaRegisterClientResult)
      [] call = SC.REGISTER_CLIENT_RESULT_B
             -> Whole(TSC_SuplaRegisterClientResult_B)
      [] call = SC.REGISTER_CLIENT_RESULT_C
             -> Whole(TSC_SuplaRegisterClientResult_C)
      [] call = SC.REGISTER_CLIENT_RESULT_D
             -> Whole(TSC_SuplaRegisterClientResult_D)
      [] call = SC.LOCATION_UPDATE -> UpTo(TSC_SuplaLocation)
      [] OTHER -> otherwise

AsyncPacks(call, otherwise) ==
    CASE call = SC.LOCATIONPACK_UPDATE
             -> Pack(TSC_SuplaLocationPack, TSC_SuplaLocation)
      [] call = SC.CHANNELPACK_UPDATE
             -> Pack(TSC_SuplaChannelPack, TSC_SuplaChannel)
      [] call = SC.CHANNELPACK_UPDATE_B
             -> Pack(TSC_SuplaChannelPack_B, TSC_SuplaChannel_B)
      [] call = SC.CHANNELPACK_UPDATE_C
             -> Pack(TSC_SuplaChannelPack_C, TSC_SuplaChannel_C)
      [] call = SC.CHANNELPACK_UPDATE_D
             -> Pack(TSC_SuplaChannelPack_D, TSC_SuplaChannel_D)
      [] call = SC.CHANNELPACK_UPDATE_E
             -> Pack(TSC_SuplaChannelPack_E, TSC_SuplaChannel_E)
      [] call = SC.CHANNEL_VALUE_UPDATE -> Whole(TSC_SuplaChannelValue)
      [] call = SC.CHANNEL_VALUE_UPDATE_B -> Whole(TSC_SuplaChannelValue_B)
      [] call = SC.CHANNELGROUP_PACK_UPDATE
             -> Pack(TSC_SuplaChannelGroupPack, TSC_SuplaChannelGroup)
      [] call = SC.CHANNELGROUP_PACK_UPDATE_B
             -> Pack(TSC_SuplaChannelGroupPack_B, TSC_SuplaChannelGroup_B)
      [] OTHER -> otherwise

(* An extended value pack is an array of bytes: of its two counts only the *)
(* one of the bytes matters on the wire.                                   *)
AsyncValuePacks(call, otherwise) ==
    CASE call = SC.CHANNELGROUP_RELATION_PACK_UPDATE
             -> SomeOf(TSC_SuplaChannelGroupRelationPack)
      [] call = SC.CHANNEL_RELATION_PACK_UPDATE
             -> SomeOf(TSC_SuplaChannelRelationPack)
      [] call = SC.CHANNELVALUE_PACK_UPDATE
             -> SomeOf(TSC_SuplaChannelValuePack)
      [] call = SC.CHANNELVALUE_PACK_UPDATE_B
             -> SomeOf(TSC_SuplaChannelValuePack_B)
      [] call = SC.CHANNELEXTENDEDVALUE_PACK_UPDATE
             -> SomeOf(TSC_SuplaChannelExtendedValuePack)
      [] call = SC.CHANNEL_STATE_PACK_UPDATE
             -> SomeOf(TSC_SuplaChannelStatePack)
      [] OTHER -> otherwise

AsyncClientCalls(call, otherwise) ==
    CASE call = CS.GET_NEXT -> NoData
      [] call = SC.EVENT -> UpTo(TSC_SuplaEvent)
      [] call = CS.CHANNEL_SET_VALUE -> Whole(TCS_SuplaChannelNewValue)
      [] call = CS.CHANNEL_SET_VALUE_B -> Whole(TCS_SuplaChannelNewValue_B)
      [] call = CS.SET_VALUE -> Whole(TCS_SuplaNewValue)
      [] call = CS.OAUTH_TOKEN_REQUEST -> NoData
      [] call = SC.OAUTH_TOKEN_REQUEST_RESULT
             -> UpTo(TSC_OAuthTokenRequestResult)
      [] call = CS.SUPERUSER_AUTHORIZATION_REQUEST
             -> Whole(TCS_SuperUserAuthorizationRequest)
      [] call = CS.GET_SUPERUSER_AUTHORIZATION_RESULT -> NoData
      [] call = SC.SUPERUSER_AUTHORIZATION_RESULT
             -> Whole(TSC_SuperUserAuthorizationResult)
      [] call = CS.DEVICE_CALCFG_REQUEST -> UpTo(TCS_DeviceCalCfgRequest)
      [] call = CS.DEVICE_CALCFG_REQUEST_B -> UpTo(TCS_DeviceCalCfgRequest_B)
      [] call = SC.DEVICE_CALCFG_RESULT -> UpTo(TSC_DeviceCalCfgResult)
      [] call = CS.GET_CHANNEL_BASIC_CFG -> Whole(TCS_ChannelBasicCfgRequest)
      [] call = SC.CHANNEL_BASIC_CFG_RESULT -> UpTo(TSC_ChannelBasicCfg)
      [] call = CS.SET_CHANNEL_FUNCTION -> Whole(TCS_SetChannelFunction)
      [] call = SC.SET_CHANNEL_FUNCTION_RESULT
             -> Whole(TSC_SetChannelFunctionResult)
      [] OTHER -> otherwise

AsyncClientCaptions(call, otherwise) ==
    CASE call \in {CS.SET_CHANNEL_GROUP_CAPTION, CS.SET_LOCATION_CAPTION,
                   CS.SET_SCENE_CAPTION}
             -> SetCaption
      [] call \in {SC.SET_CHANNEL_GROUP_CAPTION_RESULT,
                   SC.SET_LOCATION_CAPTION_RESULT, SC.SET_SCENE_CAPTION_RESULT}
             -> SetCaptionResult
      [] OTHER -> otherwise

AsyncClientRequests(call, otherwise) ==
    CASE call = CS.CLIENTS_RECONNECT_REQUEST -> NoData
      [] call = SC.CLIENTS_RECONNECT_REQUEST_RESULT
             -> Whole(TSC_ClientsReconnectRequestResult)
      [] call = CS.SET_REGISTRATION_ENABLED
             -> Whole(TCS_SetRegistrationEnabled)
      [] call = SC.SET_REGISTRATION_ENABLED_RESULT
             -> Whole(TSC_SetRegistrationEnabledResult)
      [] call = CS.DEVICE_RECONNECT_REQUEST
             -> Whole(TCS_DeviceReconnectRequest)
      [] call = SC.DEVICE_RECONNECT_REQUEST_RESULT
             -> Whole(TSC_DeviceReconnectRequestResult)
      [] call = CS.TIMER_ARM -> Whole(TCS_TimerArmRequest)
      [] call = SC.SCENE_PACK_UPDATE
             -> Pack(TSC_SuplaScenePack, TSC_SuplaScene)
      [] call = SC.SCENE_STATE_PACK_UPDATE
             -> Pack(TSC_SuplaSceneStatePack, TSC_SuplaSceneState)
      [] OTHER -> otherwise

AsyncClientActions(call, otherwise) ==
    CASE call = CS.EXECUTE_ACTION -> UpTo(TCS_Action)
      [] call = CS.EXECUTE_ACTION_WITH_AUTH -> UpTo(TCS_ActionWithAuth)
      [] call = SC.ACTION_EXECUTION_RESULT -> Whole(TSC_ActionExecutionResult)
      [] call = CS.GET_CHANNEL_VALUE_WITH_AUTH
             -> Whole(TCS_GetChannelValueWithAuth)
      [] call = SC.GET_CHANNEL_VALUE_RESULT -> UpTo(TSC_GetChannelValueResult)
      [] call = CS.REGISTER_PN_CLIENT_TOKEN -> UpTo(TCS_RegisterPnClientToken)
      [] call = SC.REGISTER_PN_CLIENT_TOKEN_RESULT
             -> Whole(TSC_RegisterPnClientTokenResult)
      [] call = CS.GET_CHANNEL_CONFIG -> Whole(TCS_GetChannelConfigRequest)
      [] call = SC.CHANNEL_CONFIG_UPDATE_OR_RESULT
             -> UpTo(TSC_ChannelConfigUpdateOrResult)
      [] call = CS.SET_CHANNEL_CONFIG -> UpTo(TSCS_ChannelConfig)
      [] call = CS.GET_DEVICE_CONFIG -> Whole(TCS_GetDeviceConfigRequest)
      [] call = SC.DEVICE_CONFIG_UPDATE_OR_RESULT
             -> UpTo(TSC_DeviceConfigUpdateOrResult)
      [] OTHER -> otherwise

Async(call) ==
    AsyncCommon(call, AsyncCaption(call,
    AsyncRegisterDevice(call, AsyncRegisterDeviceFG(call,
    AsyncDeviceValues(call, AsyncDeviceConfig(call, AsyncDeviceSettings(call,
    AsyncRegisterClient(call, AsyncPacks(call, AsyncValuePacks(call,
    AsyncClientCalls(call, AsyncClientCaptions(call,
    AsyncClientRequests(call, AsyncClientActions(call,
        NoMessage))))))))))))))

(***************************************************************************)
(* srpc_getdata. A case checks the size of what came (Whole, OneOf), its   *)
(* size against its count (UpTo, by VALID_SIZE), or takes a pack apart.    *)
(***************************************************************************)

(* The packs, which srpc_getpack reads item by item.                       *)
GetChannelPack == Pack(TSC_SuplaChannelPack, TSC_SuplaChannel)
GetChannelPack_B == Pack(TSC_SuplaChannelPack_B, TSC_SuplaChannel_B)
GetChannelPack_C == Pack(TSC_SuplaChannelPack_C, TSC_SuplaChannel_C)
GetChannelPack_DAsE == Pack(TSC_SuplaChannelPack_E, TSC_SuplaChannel_E)
GetChannelPack_D == Pack(TSC_SuplaChannelPack_D, TSC_SuplaChannel_D)
GetChannelPack_E == Pack(TSC_SuplaChannelPack_E, TSC_SuplaChannel_E)
GetChannelGroupPack == Pack(TSC_SuplaChannelGroupPack, TSC_SuplaChannelGroup)
GetChannelGroupPack_B ==
    Pack(TSC_SuplaChannelGroupPack_B, TSC_SuplaChannelGroup_B)
GetLocationPack == Pack(TSC_SuplaLocationPack, TSC_SuplaLocation)
GetScenePack == Pack(TSC_SuplaScenePack, TSC_SuplaScene)
GetSceneStatePack == Pack(TSC_SuplaSceneStatePack, TSC_SuplaSceneState)

GetDataCommon(call, otherwise) ==
    CASE call \in {DCS.GETVERSION, CS.GET_NEXT, DCS.GET_REGISTRATION_ENABLED}
             -> NoData
      [] call = SDC.GETVERSION_RESULT -> Whole(TSDC_SuplaGetVersionResult)
      [] call = SDC.VERSIONERROR -> Whole(TSDC_SuplaVersionError)
      [] call = DCS.PING_SERVER
             -> OneOf({TDCS_SuplaPingServer, TDCS_SuplaPingServer_COMPAT})
      [] call = SDC.PING_SERVER_RESULT -> Whole(TSDC_SuplaPingServerResult)
      [] call = DCS.SET_ACTIVITY_TIMEOUT -> Whole(TDCS_SuplaSetActivityTimeout)
      [] call = SDC.SET_ACTIVITY_TIMEOUT_RESULT
             -> Whole(TSDC_SuplaSetActivityTimeoutResult)
      [] call = SDC.GET_REGISTRATION_ENABLED_RESULT
             -> Whole(TSDC_RegistrationEnabled)
      [] call = DCS.GET_USER_LOCALTIME -> NoData
      [] call = DCS.GET_USER_LOCALTIME_RESULT -> UpTo(TSDC_UserLocalTimeResult)
      [] call = CSD.GET_CHANNEL_STATE -> Whole(TCSD_ChannelStateRequest)
      [] call = DSC.CHANNEL_STATE_RESULT -> Whole(TDSC_ChannelState)
      [] call = SCD.SET_CHANNEL_CAPTION_RESULT -> UpTo(TSCD_SetCaptionResult)
      [] OTHER -> otherwise

GetDataRegistration(call, otherwise) ==
    CASE call = DS.REGISTER_DEVICE -> UpTo(TDS_SuplaRegisterDevice)
      [] call = DS.REGISTER_DEVICE_B -> UpTo(TDS_SuplaRegisterDevice_B)
      [] call = DS.REGISTER_DEVICE_C -> UpTo(TDS_SuplaRegisterDevice_C)
      [] call = DS.REGISTER_DEVICE_D -> UpTo(TDS_SuplaRegisterDevice_D)
      [] call = DS.REGISTER_DEVICE_E -> UpTo(TDS_SuplaRegisterDevice_E)
      [] call = DS.REGISTER_DEVICE_F -> UpTo(TDS_SuplaRegisterDevice_F)
      [] call = DS.REGISTER_DEVICE_G -> UpTo(TDS_SuplaRegisterDevice_G)
      [] call = SD.REGISTER_DEVICE_RESULT
             -> Whole(TSD_SuplaRegisterDeviceResult)
      [] call = SD.REGISTER_DEVICE_RESULT_B
             -> UpTo(TSD_SuplaRegisterDeviceResult_B)
      [] OTHER -> otherwise

GetDataDeviceValues(call, otherwise) ==
    CASE call = DS.DEVICE_CHANNEL_VALUE_CHANGED
             -> Whole(TDS_SuplaDeviceChannelValue)
      [] call = DS.DEVICE_CHANNEL_VALUE_CHANGED_B
             -> Whole(TDS_SuplaDeviceChannelValue_B)
      [] call = DS.DEVICE_CHANNEL_VALUE_CHANGED_C
             -> Whole(TDS_SuplaDeviceChannelValue_C)
      [] call = DS.DEVICE_CHANNEL_EXTENDEDVALUE_CHANGED
             -> UpTo(TDS_SuplaDeviceChannelExtendedValue)
      [] call = SD.CHANNEL_SET_VALUE -> Whole(TSD_SuplaChannelNewValue)
      [] call = SD.CHANNELGROUP_SET_VALUE
             -> Whole(TSD_SuplaChannelGroupNewValue)
      [] call = DS.CHANNEL_SET_VALUE_RESULT
             -> Whole(TDS_SuplaChannelNewValueResult)
      [] call = DS.GET_FIRMWARE_UPDATE_URL -> Whole(TDS_FirmwareUpdateParams)
      [] call = SD.GET_FIRMWARE_UPDATE_URL_RESULT
             -> OneOf({TSD_FirmwareUpdate_UrlResult, Char})
      [] OTHER -> otherwise

GetDataDeviceConfig(call, otherwise) ==
    CASE call = SD.DEVICE_CALCFG_REQUEST -> UpTo(TSD_DeviceCalCfgRequest)
      [] call = DS.DEVICE_CALCFG_RESULT -> UpTo(TDS_DeviceCalCfgResult)
      [] call = DS.GET_CHANNEL_FUNCTIONS -> NoData
      [] call = SD.GET_CHANNEL_FUNCTIONS_RESULT -> UpTo(TSD_ChannelFunctions)
      [] call = DS.GET_CHANNEL_CONFIG -> Whole(TDS_GetChannelConfigRequest)
      [] call = SD.GET_CHANNEL_CONFIG_RESULT -> UpTo(TSD_ChannelConfig)
      [] call = DS.ACTIONTRIGGER -> Whole(TDS_ActionTrigger)
      [] call = DS.REGISTER_PUSH_NOTIFICATION
             -> Whole(TDS_RegisterPushNotification)
      [] call = DS.SEND_PUSH_NOTIFICATION -> UpTo(TDS_PushNotification)
      [] call \in {DS.SET_CHANNEL_CONFIG, SD.SET_CHANNEL_CONFIG}
             -> UpTo(TSDS_SetChannelConfig)
      [] call \in {DS.SET_CHANNEL_CONFIG_RESULT, SD.SET_CHANNEL_CONFIG_RESULT}
             -> Whole(TSDS_SetChannelConfigResult)
      [] call = SD.CHANNEL_CONFIG_FINISHED -> Whole(TSD_ChannelConfigFinished)
      [] call \in {DS.SET_DEVICE_CONFIG, SD.SET_DEVICE_CONFIG}
             -> UpTo(TSDS_SetDeviceConfig)
      [] call \in {SD.SET_DEVICE_CONFIG_RESULT, DS.SET_DEVICE_CONFIG_RESULT}
             -> Whole(TSDS_SetDeviceConfigResult)
      [] call = DS.SET_SUBDEVICE_DETAILS -> Whole(TDS_SubdeviceDetails)
      [] OTHER -> otherwise

GetDataClientRegistration(call, otherwise) ==
    CASE call = CS.REGISTER_CLIENT -> Whole(TCS_SuplaRegisterClient)
      [] call = CS.REGISTER_CLIENT_B -> Whole(TCS_SuplaRegisterClient_B)
      [] call = CS.REGISTER_CLIENT_C -> Whole(TCS_SuplaRegisterClient_C)
      [] call = CS.REGISTER_CLIENT_D -> Whole(TCS_SuplaRegisterClient_D)
      [] call = SC.REGISTER_CLIENT_RESULT
             -> Whole(TSC_SuplaRegisterClientResult)
      [] call = SC.REGISTER_CLIENT_RESULT_B
             -> Whole(TSC_SuplaRegisterClientResult_B)
      [] call = SC.REGISTER_CLIENT_RESULT_C
             -> Whole(TSC_SuplaRegisterClientResult_C)
      [] call = SC.REGISTER_CLIENT_RESULT_D
             -> Whole(TSC_SuplaRegisterClientResult_D)
      [] call = SC.LOCATION_UPDATE -> UpTo(TSC_SuplaLocation)
      [] OTHER -> otherwise

GetDataClientUpdates(call, otherwise) ==
    CASE call = SC.LOCATIONPACK_UPDATE -> GetLocationPack
      [] call = SC.CHANNELPACK_UPDATE -> GetChannelPack
      [] call = SC.CHANNELPACK_UPDATE_B -> GetChannelPack_B
      [] call = SC.CHANNELPACK_UPDATE_C -> GetChannelPack_C
      [] call = SC.CHANNELPACK_UPDATE_D -> GetChannelPack_D
      [] call = SC.CHANNELPACK_UPDATE_E -> GetChannelPack_E
      [] call = SC.CHANNEL_VALUE_UPDATE -> Whole(TSC_SuplaChannelValue)
      [] call = SC.CHANNEL_VALUE_UPDATE_B -> Whole(TSC_SuplaChannelValue_B)
      [] call = SC.CHANNELGROUP_PACK_UPDATE -> GetChannelGroupPack
      [] call = SC.CHANNELGROUP_PACK_UPDATE_B -> GetChannelGroupPack_B
      [] call = SC.CHANNELGROUP_RELATION_PACK_UPDATE
             -> UpTo(TSC_SuplaChannelGroupRelationPack)
      [] call = SC.CHANNEL_RELATION_PACK_UPDATE
             -> UpTo(TSC_SuplaChannelRelationPack)
      [] call = SC.CHANNELVALUE_PACK_UPDATE -> UpTo(TSC_SuplaChannelValuePack)
      [] call = SC.CHANNELVALUE_PACK_UPDATE_B
             -> UpTo(TSC_SuplaChannelValuePack_B)
      [] call = SC.CHANNELEXTENDEDVALUE_PACK_UPDATE
             -> UpTo(TSC_SuplaChannelExtendedValuePack)
      [] call = SC.CHANNEL_STATE_PACK_UPDATE -> UpTo(TSC_SuplaChannelStatePack)
      [] OTHER -> otherwise

GetDataClientCalls(call, otherwise) ==
    CASE call = CS.CHANNEL_SET_VALUE -> Whole(TCS_SuplaChannelNewValue)
      [] call = CS.SET_VALUE -> Whole(TCS_SuplaNewValue)
      [] call = CS.CHANNEL_SET_VALUE_B -> Whole(TCS_SuplaChannelNewValue_B)
      [] call = SC.EVENT -> UpTo(TSC_SuplaEvent)
      [] call = CS.OAUTH_TOKEN_REQUEST -> NoData
      [] call = SC.OAUTH_TOKEN_REQUEST_RESULT
             -> UpTo(TSC_OAuthTokenRequestResult)
      [] call = CS.SUPERUSER_AUTHORIZATION_REQUEST
             -> Whole(TCS_SuperUserAuthorizationRequest)
      [] call = CS.GET_SUPERUSER_AUTHORIZATION_RESULT -> NoData
      [] call = SC.SUPERUSER_AUTHORIZATION_RESULT
             -> Whole(TSC_SuperUserAuthorizationResult)
      [] call = CS.DEVICE_CALCFG_REQUEST -> UpTo(TCS_DeviceCalCfgRequest)
      [] call = CS.DEVICE_CALCFG_REQUEST_B -> UpTo(TCS_DeviceCalCfgRequest_B)
      [] call = SC.DEVICE_CALCFG_RESULT -> UpTo(TSC_DeviceCalCfgResult)
      [] call = CS.GET_CHANNEL_BASIC_CFG -> Whole(TCS_ChannelBasicCfgRequest)
      [] call = SC.CHANNEL_BASIC_CFG_RESULT -> UpTo(TSC_ChannelBasicCfg)
      [] call = CS.SET_CHANNEL_FUNCTION -> Whole(TCS_SetChannelFunction)
      [] call = SC.SET_CHANNEL_FUNCTION_RESULT
             -> Whole(TSC_SetChannelFunctionResult)
      [] call \in {DCS.SET_CHANNEL_CAPTION, CS.SET_CHANNEL_GROUP_CAPTION,
                   CS.SET_LOCATION_CAPTION, CS.SET_SCENE_CAPTION}
             -> UpTo(TDCS_SetCaption)
      [] call \in {SC.SET_CHANNEL_GROUP_CAPTION_RESULT,
                   SC.SET_LOCATION_CAPTION_RESULT, SC.SET_SCENE_CAPTION_RESULT}
             -> UpTo(TSCD_SetCaptionResult)
      [] call = CS.CLIENTS_RECONNECT_REQUEST -> NoData
      [] call = SC.CLIENTS_RECONNECT_REQUEST_RESULT
             -> Whole(TSC_ClientsReconnectRequestResult)
      [] OTHER -> otherwise

GetDataClientRequests(call, otherwise) ==
    CASE call = CS.SET_REGISTRATION_ENABLED
             -> Whole(TCS_SetRegistrationEnabled)
      [] call = SC.SET_REGISTRATION_ENABLED_RESULT
             -> Whole(TSC_SetRegistrationEnabledResult)
      [] call = CS.DEVICE_RECONNECT_REQUEST
             -> Whole(TCS_DeviceReconnectRequest)
      [] call = SC.DEVICE_RECONNECT_REQUEST_RESULT
             -> Whole(TSC_DeviceReconnectRequestResult)
      [] call = CS.TIMER_ARM -> Whole(TCS_TimerArmRequest)
      [] call = SC.SCENE_PACK_UPDATE -> GetScenePack
      [] call = SC.SCENE_STATE_PACK_UPDATE -> GetSceneStatePack
      [] call = CS.EXECUTE_ACTION -> UpTo(TCS_Action)
      [] call = CS.EXECUTE_ACTION_WITH_AUTH -> UpTo(TCS_ActionWithAuth)
      [] call = SC.ACTION_EXECUTION_RESULT -> Whole(TSC_ActionExecutionResult)
      [] call = CS.GET_CHANNEL_VALUE_WITH_AUTH
             -> Whole(TCS_GetChannelValueWithAuth)
      [] call = SC.GET_CHANNEL_VALUE_RESULT -> UpTo(TSC_GetChannelValueResult)
      [] call = CS.REGISTER_PN_CLIENT_TOKEN -> UpTo(TCS_RegisterPnClientToken)
      [] call = SC.REGISTER_PN_CLIENT_TOKEN_RESULT
             -> Whole(TSC_RegisterPnClientTokenResult)
      [] call = CS.SET_CHANNEL_CONFIG -> UpTo(TSCS_ChannelConfig)
      [] call = CS.GET_CHANNEL_CONFIG -> Whole(TCS_GetChannelConfigRequest)
      [] call = SC.CHANNEL_CONFIG_UPDATE_OR_RESULT
             -> UpTo(TSC_ChannelConfigUpdateOrResult)
      [] call = CS.GET_DEVICE_CONFIG -> Whole(TCS_GetDeviceConfigRequest)
      [] call = SC.DEVICE_CONFIG_UPDATE_OR_RESULT
             -> UpTo(TSC_DeviceConfigUpdateOrResult)
      [] OTHER -> otherwise

GetData(call) ==
    GetDataCommon(call, GetDataRegistration(call,
    GetDataDeviceValues(call, GetDataDeviceConfig(call,
    GetDataClientRegistration(call, GetDataClientUpdates(call,
    GetDataClientCalls(call, GetDataClientRequests(call,
        NoMessage))))))))

(***************************************************************************)
(* Writing and reading one message.                                        *)
(***************************************************************************)

(* What a function accepts of its caller.                                  *)
Accepts(e, data) ==
    CASE e.form = "none"  -> data.n = 0
      [] e.form = "whole" -> data.n \in e.sizes
      [] e.form = "items" -> data.n \in e.least .. e.layout.max
      [] e.form = "pack"  -> data.n \in 1 .. e.layout.max

(* srpc_set_pack leaves out an item whose caption is too long: what goes   *)
(* out may have fewer items than it was given, or none.                    *)
Kept(caps, max) ==
    LET kept[i \in 0 .. Len(caps)] ==
            IF i = 0 THEN <<>>
            ELSE IF caps[i] <= max THEN Append(kept[i - 1], caps[i])
            ELSE kept[i - 1]
    IN  kept[Len(caps)]
Sent(e, data) ==
    IF e.form = "pack"
      THEN LET caps == Kept(data.caps, e.item.max)
           IN  [n |-> Len(caps), caps |-> caps]
      ELSE data

(* The bytes it takes.                                                     *)
ItemsSize(e, caps) ==
    Total([i \in DOMAIN caps |-> SizeWith(e.item, caps[i])])
SentSize(e, data) ==
    CASE e.form = "none"  -> 0
      [] e.form = "whole" -> data.n
      [] e.form = "items" -> SizeWith(e.layout, data.n)
      [] e.form = "pack"  -> e.layout.fixed + ItemsSize(e, data.caps)

(* VALID_SIZE: a size that the structure can have, and that n items take.  *)
VALID_SIZE(T, size, n) ==
    /\ size \in T.fixed .. SizeOf(T)
    /\ n * T.item = size - T.fixed

(* srpc_getpack copies item after item as long as the caption is not too   *)
(* long and the data reaches, and fails unless it comes to the last one.   *)
srpc_getpack(e, size, data) ==
    /\ size \in e.layout.fixed .. SizeOf(e.layout)
    /\ data.n \in 0 .. e.layout.max
    /\ \A i \in DOMAIN data.caps :
           /\ data.caps[i] <= e.item.max
           /\ e.layout.fixed + ItemsSize(e, SubSeq(data.caps, 1, i)) <= size

Readable(e, size, data) ==
    CASE e.form = "none"  -> TRUE
      [] e.form = "whole" -> size \in e.sizes
      [] e.form = "items" -> VALID_SIZE(e.layout, size, data.n)
      [] e.form = "pack"  -> srpc_getpack(e, size, data)

==============================================================================
