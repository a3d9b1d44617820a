----------------------------- MODULE AdminPages -----------------------------
(***************************************************************************)
(* The pages of the administrators (web/app/src/pages/admin/): what each     *)
(* loads, what its handlers change and reload, and what their buttons       *)
(* allow.  A busy flag counts only where a button or a guard reads it.  *)
(***************************************************************************)
EXTENDS PageTables

\* Alerts: two row buttons without confirmation.
AdminAlertsPage ==
  Page({Hook("alerts", {"listAlerts"}, {"page", "status"})},
       {Do("ack", <<"ackAlert">>, {"alerts"}), Do("resolve", <<"resolveAlert">>, {"alerts"})},
       Free({"ack", "resolve"}))

\* The keys of all users; the search button reloads even when no filter changed.
AdminApiKeysPage ==
  Page({Hook("keys", {"listApiKeys"}, {"page", "email", "userId"})},
       {Do("revoke", <<"revokeApiKey">>, {"keys"})},
       Asks({"revoke"}) @@ Reloads({"keys"}))

AdminAuditPage == Page({Hook("logs", {"listAuditLogs"}, {"page", "action", "resource"})}, {}, NoControls)

\* Transactions and their aggregate; the adjustment reloads the list only.
AdminBillingControls ==
  While({"adjust"}) @@ While({"export"}) @@ Retries({"detail"})
AdminBillingPage ==
  Page({Hook("detail", {"listTransactions"}, {"query"}), Hook("aggregate", {"getTransactionAggregate"}, {"dim"})},
       Under("adjusting", LeavesStale({"aggregate"}, {Do("adjust", <<"adjustTransaction">>, {"detail"})}))
         \cup Under("exporting", {Do("export", <<"createExportTask">>, {})}),
       AdminBillingControls)

\* Card batches, cards and redeemed cards are three lists over one table.
AdminCardsViews ==
  {Hook("batches", {"listCardBatches"}, {}), Hook("cards", {"listCards"}, {"query"}),
   Hook("uses", {"listCards"}, {"tab"}), Hook("vendors", {"listVendors"}, {})}
AdminCardsActs ==
  LeavesStale({"batches", "uses"},
              {Do("generate", <<"generateCards">>, {"cards"}), Do("voidCard", <<"voidCard">>, {"cards"}), Do("deleteCard", <<"deleteCard">>, {"cards"})})
    \cup LeavesStale({"uses"}, {Do("voidBatch", <<"voidCardBatch">>, {"batches", "cards"})})
    \cup Under("exportingUnused", {Do("exportUnused", <<"verifyAdminPassword", "listCards">>, {})})

\* Enter in the password box submits the export without looking at the flag.
AdminCardsControls ==
  Free({"generate", "exportUnused"}) @@ Asks({"voidCard", "voidBatch", "deleteCard"}) @@ Retries({"cards"})

AdminChannelTokenStatsPage ==
  Page({Hook("stats", {"getChannelTokenStats"}, {"channel", "range", "bucket"})}, {}, Reloads({"stats"}))

AdminCouponsControls == Free({"create"}) @@ Asks({"void"})
AdminCouponsPage ==
  Page({Hook("coupons", {"listCoupons"}, {"page"}), Detail("uses", {"listCouponUses"})},
       {Do("create", <<"createCoupon">>, {"coupons"}), Do("void", <<"voidCoupon">>, {"coupons"})},
       AdminCouponsControls)

\* The three parts of the dashboard load on their own.
TrendSection == {Hook("trend", {"getStatsTrend"}, {"days", "dim"})}

TopSection == {Hook("top", {"getStatsTop"}, {})}

AdminDashboardPage == Page({Hook("stats", {"getStats"}, {})} \cup TrendSection \cup TopSection, {}, Retries({"stats"}))

AdminExportsPage ==
  Page({Hook("tasks", {"listExportTasks"}, {})},
       {Do("create", <<"createExportTask">>, {"tasks"})}, Free({"create"}) @@ Reloads({"tasks"}))

\* The gallery is one setting edited as a draft: the draft is filled once, by the
\* first load that ends, also by one that failed.
AdminInspirationControls == WhileLoading("settings", {"save"}) @@ PerRow({"upload"})
AdminInspirationPage ==
  Page({SeedsOnce("any", Hook("settings", {"getSettings"}, {}))},
       Under("saving", Saving("settings", {Do("save", <<"updateSettings">>, {"settings"})}))
         \cup Under("uploadingId", {Do("upload", <<"uploadImage">>, {})}),
       AdminInspirationControls)

AdminLogsControls == Reloads({"logs"})
AdminLogsPage ==
  Page({Loosely({"page", "filters"}, Hook("logs", {"listLogs"}, {})), Detail("detail", {"getLog"})}, {}, AdminLogsControls)

AdminNotificationsControls == Free({"create", "send", "delete"})
AdminNotificationsPage ==
  Page({Hook("notifications", {"listNotifications"}, {})},
       {Do("create", <<"createNotification">>, {"notifications"}), Do("send", <<"sendNotification">>, {"notifications"}),
               Do("delete", <<"deleteNotification">>, {"notifications"})},
       AdminNotificationsControls)

AdminOcpcControls ==
  Free({"save", "create", "toggle", "saveSchedule", "upload"}) @@ Asks({"delete"}) @@ Retries({"platforms"})
AdminOcpcPage ==
  Page({Hook("platforms", {"listOcpcPlatforms", "getOcpcSchedule"}, {})},
       {Do("save", <<"updateOcpcPlatform">>, {"platforms"}), Do("create", <<"createOcpcPlatform">>, {"platforms"}),
        Do("toggle", <<"toggleOcpcPlatform">>, {"platforms"}), Do("delete", <<"deleteOcpcPlatform">>, {"platforms"}),
        Do("upload", <<"triggerOcpcUpload">>, {})}
         \cup LeavesStale({"platforms"}, {Do("saveSchedule", <<"updateOcpcSchedule">>, {})}),
       AdminOcpcControls)

AdminPaymentsPage == Page({Hook("orders", {"listPaymentOrders"}, {"query"})}, {}, Retries({"orders"}))

AdminResellersControls ==
  While({"create"}) @@ Free({"toggle", "retryJob"}) @@ Retries({"resellers"})
AdminResellersPage ==
  Page({Hook("resellers", {"listResellers", "listResellerSites", "listResellerSiteBuildJobs"}, {})},
       Under("submitting", {Do("create", <<"createReseller">>, {"resellers"})})
         \cup {Do("toggle", <<"updateReseller">>, {"resellers"}), Do("retryJob", <<"retryResellerBuildJob">>, {"resellers"})},
       AdminResellersControls)

\* Roles and the administrators they are assigned to; deleting a role leaves the
\* administrators' list as it was.
AdminRolesControls == Free({"save", "create", "delete", "assign"})
AdminRolesPage ==
  Page({Hook("roles", {"listRoles"}, {}), Hook("admins", {"listAdminUsers"}, {})},
       {Do("save", <<"updateRole">>, {"roles"}), Do("create", <<"createRole">>, {"roles"}), Do("delete", <<"deleteRole">>, {"roles"})}
         \cup {Do("assign", <<"setAdminRoles">>, {"admins"})},
       AdminRolesControls)

\* The settings form is filled once, by a load that returned settings; nothing
\* disables the save button while it is empty.
AdminSettingsViews ==
  {SeedsOnce("data", Hook("settings", {"getSettings"}, {})), Hook("logs", {"listSettingLogs"}, {})}
AdminSettingsActs ==
  Under("saving", LeavesStale({"settings"}, Saving("settings", {Do("save", <<"updateSettings">>, {})})))
    \cup Under("uploadingLogo", {Do("uploadLogo", <<"uploadImage">>, {})}) \cup {Do("uploadImage", <<"uploadImage">>, {})}
AdminSettingsControls ==
  WhileLoading("settings", {"save"}) @@ While({"uploadLogo"}) @@ Free({"uploadImage"})

\* Tasks of all users with the clean-up of old rows behind a preview and a typed confirmation.
AdminTasksViews ==
  {Hook("tasks", {"listTasks"}, {"query"}), Hook("me", {"getAdminMe"}, {})}
AdminTasksActs ==
  Under("cleanupLoading", {Do("preview", <<"previewCleanup">>, {})})
    \cup Under("cleanupRunning", {Do("cleanup", <<"runCleanup">>, {"tasks"})})
AdminTasksControls == While({"preview"}) @@ While({"cleanup"}) @@ Retries({"tasks"})

\* Upstream platforms, reloaded every ten seconds.
AdminUpstreamControls == Free({"save", "create", "delete"}) @@ PerRow({"sync"})
AdminUpstreamPage ==
  Page({Ticking(Hook("platforms", {"listUpstreamPlatforms"}, {}))},
       {Do("save", <<"updateUpstreamPlatform">>, {"platforms"}), Do("create", <<"createUpstreamPlatform">>, {"platforms"}),
        Do("delete", <<"deleteUpstreamPlatform">>, {"platforms"})}
         \cup Under("syncingId", {Do("sync", <<"syncUpstreamBalance">>, {"platforms"})}),
       AdminUpstreamControls)

UserPortraitTab ==
  Page({Hook("portrait", {"getUserPortrait"}, {"user"})},
       {Do("addLabel", <<"addRiskLabel">>, {"portrait"})} \cup {Do("removeLabel", <<"deleteRiskLabel">>, {"portrait"})},
       Free({"addLabel", "removeLabel"}))

UserOplogTab == Page({Hook("oplog", {"getUserOperationLog"}, {"user"})}, {}, NoControls)

UserReferralsSection == Page({Hook("referrals", {"getUserReferrals"}, {"user"})}, {}, NoControls)

\* Users: the fetcher of the list also clears the selected rows, whether or not
\* its answer is still wanted.
AdminUsersViews ==
  {Selecting(Hook("users", {"listUsers"}, {"page", "query"})), Hook("vipGroups", {"listVipGroups"}, {})}
AdminUsersActs ==
  {Do(c[1], <<c[2]>>, {"users"}) :
     c \in {<<"create", "createUser">>, <<"freeze", "freezeUser">>, <<"unfreeze", "freezeUser">>, <<"delete", "deleteUser">>,
            <<"recharge", "rechargeUser">>, <<"password", "resetUserPassword">>, <<"group", "setUserVipGroup">>,
            <<"rebate", "setUserRebateRatio">>, <<"modelCredit", "grantModelCredit">>, <<"refreshVip", "refreshUserVipGroup">>}}
AdminUsersBatch == OnSelection({Do("batch", <<"batchUpdateUsers">>, {"users"})})
AdminUsersControls ==
  Free({"create", "freeze", "unfreeze", "delete", "recharge", "password", "group", "rebate", "modelCredit", "refreshVip", "batch"})
    @@ Retries({"users"})

AdminVendorsControls == Asks({"toggle"}) @@ Free({"save"}) @@ Retries({"vendors"})
AdminVendorsPage ==
  Page({Hook("vendors", {"listVendors"}, {})},
       {Do("toggle", <<"updateVendor">>, {"vendors"}), Do("save", <<"updateVendor">>, {"vendors"})},
       AdminVendorsControls)

AdminCardsPage == Page(AdminCardsViews, AdminCardsActs, AdminCardsControls)

AdminSettingsPage == Page(AdminSettingsViews, AdminSettingsActs, AdminSettingsControls)

AdminTasksPage == Page(AdminTasksViews, AdminTasksActs, AdminTasksControls)

AdminUsersPage == Page(AdminUsersViews, AdminUsersActs \cup AdminUsersBatch, AdminUsersControls)

PagesOfAdmins ==
  {AdminAlertsPage, AdminApiKeysPage, AdminAuditPage, AdminBillingPage, AdminChannelTokenStatsPage, AdminCouponsPage,
   AdminDashboardPage, AdminExportsPage, AdminInspirationPage, AdminLogsPage, AdminNotificationsPage, AdminOcpcPage,
   AdminPaymentsPage, AdminResellersPage, AdminRolesPage, AdminUpstreamPage, UserPortraitTab, UserOplogTab,
   UserReferralsSection, AdminVendorsPage, AdminCardsPage, AdminSettingsPage, AdminTasksPage, AdminUsersPage}
=============================================================================
