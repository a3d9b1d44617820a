------------------------------- MODULE WebApi -------------------------------
(***************************************************************************)
(* The REST calls of the web client, web/app/src/lib/api/.  A call reads or *)
(* changes the collection its URL names; what it carries is not modelled.  *)
(* A page is judged by these tables: the views that read a collection are  *)
(* the ones a change of it makes stale, whatever the page reloads.         *)
(***************************************************************************)
EXTENDS TLC

Get(collection, calls) == [c \in calls |-> [sends |-> FALSE, collection |-> collection]]
Send(collection, calls) == [c \in calls |-> [sends |-> TRUE, collection |-> collection]]

AdminCatalogueApi ==
  Get("stats", {"getServerPing", "getStats", "getStatsTrend", "getStatsTop"})
    @@ Get("channels", {"listChannels", "previewChannelUpstreamCost"})
    @@ Send("channels", {"createChannel", "updateChannel", "toggleChannel", "refreshChannelRuntime", "deleteChannel", "syncChannelUpstreamCost"})
    @@ Get("model-providers", {"listModelProviders"})
    @@ Send("model-providers", {"createModelProvider", "updateModelProvider", "toggleModelProvider", "deleteModelProvider"})
    @@ Get("model-official-prices", {"listModelOfficialPrices"})
    @@ Send("model-official-prices",
            {"createModelOfficialPrice", "updateModelOfficialPrice", "setModelOfficialPriceStatus", "deleteModelOfficialPrice"})
    @@ Get("model-groups", {"listModelGroups"})
    @@ Send("model-groups", {"createModelGroup", "updateModelGroup", "toggleModelGroup", "deleteModelGroup"})
    @@ Get("model-group-models", {"listModelGroupModels"})
    @@ Send("model-group-models", {"bindModelGroupModel", "unbindModelGroupModel"})

AdminUserApi ==
  Get("users", {"listUsers"})
    @@ Send("users", {"batchUpdateUsers", "rechargeUser", "resetUserPassword", "setUserGroup", "setUserVipGroup", "refreshUserVipGroup",
                      "setUserRole", "freezeUser", "createUser", "deleteUser", "setUserRebateRatio"})
    @@ Get("model-credits", {"listModelCredits"}) @@ Send("model-credits", {"grantModelCredit"})
    @@ Get("transactions", {"listTransactions"}) @@ Get("tasks", {"listTasks", "getAdminTask"})
    @@ Get("llm-logs", {"listLogs", "getLog"}) @@ Get("cleanup", {"previewCleanup"}) @@ Send("tasks", {"runCleanup"})
    @@ Get("settings", {"getSettings"}) @@ Send("settings", {"updateSettings"}) @@ Get("me", {"getAdminMe"})

AdminPartnerApi ==
  Get("vendors", {"listVendors"}) @@ Send("vendors", {"updateVendor"})
    @@ Get("resellers", {"listResellers"}) @@ Send("resellers", {"createReseller", "updateReseller"})
    @@ Get("reseller-sites", {"listResellerSites"})
    @@ Get("build-jobs", {"listResellerSiteBuildJobs"}) @@ Send("build-jobs", {"retryResellerBuildJob"})
    @@ Get("key-pools", {"listKeyPools"})
    @@ Send("key-pools", {"createKeyPool", "deleteKeyPool", "toggleKeyPool", "toggleVendorSubmittable"})
    @@ Get("pool-keys", {"listPoolKeys"})
    @@ Send("pool-keys", {"addPoolKey", "importPoolKeys", "removePoolKey", "updatePoolKey", "setPoolKeyVendor"})
    @@ Get("key-pool-channels", {"getKeyPoolChannels"}) @@ Send("key-pool-channels", {"replaceKeyPoolChannels"})

AdminFinanceApi ==
  Get("ocpc", {"getOcpcSchedule", "listOcpcPlatforms"})
    @@ Send("ocpc", {"updateOcpcSchedule", "createOcpcPlatform", "updateOcpcPlatform", "deleteOcpcPlatform", "toggleOcpcPlatform"})
    @@ Send("ocpc-uploads", {"triggerOcpcUpload"})
    @@ Get("cards", {"listCards", "listCardBatches"})
    @@ Send("cards", {"generateCards", "deleteCard", "voidCard", "voidCardBatch"})
    @@ Get("withdrawals", {"listWithdrawals", "getPendingWithdrawCount"})
    @@ Send("withdrawals", {"approveWithdrawal", "csApproveWithdrawal", "rejectWithdrawal", "uploadWithdrawalProof"})
    @@ Send("channels", {"batchUpdateChannels"}) @@ Get("channel-stats", {"getChannelHealth", "getChannelTokenStats"})
    @@ Get("channel-logs", {"listChannelLogs"})
    @@ Get("referrals", {"getUserReferrals"}) @@ Get("portrait", {"getUserPortrait"}) @@ Get("operation-log", {"getUserOperationLog"})
    @@ Send("portrait", {"addRiskLabel", "deleteRiskLabel"})
    @@ Get("api-keys", {"listApiKeys"}) @@ Send("api-keys", {"revokeApiKey"})
    @@ Get("transactions", {"getTransactionAggregate"}) @@ Send("transactions", {"adjustTransaction"})

AdminOperationsApi ==
  Get("audit", {"listAuditLogs"})
    @@ Get("notifications", {"listNotifications"})
    @@ Send("notifications", {"createNotification", "sendNotification", "deleteNotification"})
    @@ Get("alerts", {"listAlerts"}) @@ Send("alerts", {"ackAlert", "resolveAlert"})
    @@ Get("exports", {"listExportTasks"}) @@ Send("exports", {"createExportTask"})
    @@ Get("upstream-platforms", {"listUpstreamPlatforms", "getUpstreamModels", "previewUpstreamChannelBindings"})
    @@ Send("upstream-platforms",
            {"createUpstreamPlatform", "updateUpstreamPlatform", "deleteUpstreamPlatform", "syncUpstreamBalance", "createUpstreamApiKey"})
    @@ Send("channels", {"syncUpstreamChannels", "batchCreateChannelsFromUpstream", "bindUpstreamChannels"})

AdminAccessApi ==
  Get("roles", {"listRoles"}) @@ Send("roles", {"createRole", "updateRole", "deleteRole"})
    @@ Get("coupons", {"listCoupons"}) @@ Send("coupons", {"createCoupon", "voidCoupon"}) @@ Get("coupon-uses", {"listCouponUses"})
    @@ Get("vip-groups", {"listVipGroups"}) @@ Send("vip-groups", {"createVipGroup", "updateVipGroup", "deleteVipGroup"})
    @@ Send("users", {"refreshAllVipUsers"})
    @@ Get("payments", {"listPaymentOrders"}) @@ Get("setting-logs", {"listSettingLogs"}) @@ Get("password", {"verifyAdminPassword"})
    @@ Get("admins", {"listAdminUsers"}) @@ Send("admins", {"setAdminRoles"})

UploadApi == Send("uploads", {"uploadImage", "uploadVideo", "uploadReferenceImage"})

UserApi ==
  Get("credits", {"getTransferBalance", "getBalance"}) @@ Send("credits", {"transferCredits"})
    @@ Get("profile", {"getProfile"}) @@ Get("user-stats", {"getStats", "getTokenStats"}) @@ Get("my-transactions", {"getTransactions"})
    @@ Get("apikeys", {"listApiKeys"}) @@ Send("apikeys", {"createApiKey", "deleteApiKey"})
    @@ Get("my-model-groups", {"listModelGroups"})
    @@ Get("key-model-groups", {"listApiKeyModelGroups"}) @@ Send("key-model-groups", {"replaceApiKeyModelGroups"})
    @@ Get("my-channels", {"listChannels", "getModelAvailability"})
    @@ Send("redeemed-cards", {"redeemCard"}) @@ Get("redeemed-cards", {"getRedeemHistory"})
    @@ Get("invite", {"getInviteInfo"}) @@ Send("invite", {"bindInviteCode", "convertFrozen"}) @@ Get("invitees", {"getInviteeList"})
    @@ Get("payment-qr", {"getPaymentQR"}) @@ Send("payment-qr", {"savePaymentQR"})
    @@ Get("my-withdrawals", {"listWithdrawHistory"}) @@ Send("my-withdrawals", {"submitWithdraw"})
    @@ Get("my-tasks", {"listTasks", "getTask", "getTaskBilling"}) @@ Send("my-tasks", {"clearTaskHistory"})
    @@ Get("my-logs", {"listLogs", "getLog"}) @@ Get("my-orders", {"getPaymentOrders"})
    @@ Send("profile", {"changePassword", "bindEmail"}) @@ Get("my-model-credits", {"getModelCredits"})
    @@ Get("conversations", {"listConversations"}) @@ Send("conversations", {"saveConversation", "deleteConversation"})

ResellerApi ==
  Get("profile", {"getProfile"}) @@ Get("reseller-keys", {"getKeys"}) @@ Send("reseller-keys", {"createKey"})
    @@ Get("my-model-groups", {"listModelGroups"}) @@ Get("sites", {"getSites"}) @@ Get("site-build", {"getBuildProgress"}) @@ Send("sites", {"createSite"})

VendorApi == Get("profile", {"getProfile"}) @@ Get("vendor-keys", {"getKeys"}) @@ Get("pools", {"getPools"}) @@ Send("vendor-keys", {"submitKey"})

PublicApi ==
  Get("public-settings", {"getSettings"}) @@ Send("session", {"login", "register", "forgotPassword", "sendCode"})

\* The client of each role: createHttpClient(role) and the calls that use it.
AdminClient == AdminCatalogueApi @@ AdminUserApi @@ AdminPartnerApi @@ AdminFinanceApi @@ AdminOperationsApi @@ AdminAccessApi @@ UploadApi
UserClient == UserApi @@ UploadApi @@ PublicApi
=============================================================================
