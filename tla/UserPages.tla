----------------------------- MODULE UserPages ------------------------------
(***************************************************************************)
(* The pages of a user of the gateway (web/app/src/pages/user/) and what    *)
(* their controls allow.  The pages with a machine of their own keep only   *)
(* their lists here: payments, gifts, generation, the playground and the    *)
(* detail of a task: Checkout, CreditGift, Generation, Playground, TaskWatch)*)
(***************************************************************************)
EXTENDS PageTables

\* The balance page: five lists that load on their own.
UserBillingViews ==
  {Hook("balance", {"getBalance"}, {}), Hook("modelCredits", {"getModelCredits"}, {}), Hook("apiKeys", {"listApiKeys"}, {}),
   Hook("transactions", {"getTransactions"}, {"page", "task", "correlation", "key"}), Hook("orders", {"getPaymentOrders"}, {"page"})}

\* Redeeming a card is guarded by a ref, so that not even two clicks of one render pass.
CardRedemptionViews == {Hook("redeemed", {"getRedeemHistory"}, {})}
CardRedemptionActs == Under("submittingRef", {Do("redeem", <<"redeemCard">>, {"redeemed", "balance"})})
CardRedemptionControls == While({"redeem"})
UserBillingControls == Reloads({"transactions"}) @@ CardRedemptionControls
UserBillingPage == Page(UserBillingViews \cup CardRedemptionViews, CardRedemptionActs, UserBillingControls)

UserDashboardPage == Page({Hook("overview", {"getBalance", "getStats"}, {})}, {}, Retries({"overview"}))

\* The invite page: the form of payment codes is filled by the first load that ends,
\* also by one that failed, and sent as it is by a button that is always enabled.
UserInviteViews ==
  {SeedsOnce("any", Hook("invite", {"getInviteInfo", "getPaymentQR", "listWithdrawHistory"}, {"historyPage"})),
   Hook("invitees", {"getInviteeList"}, {})}
UserInviteActs ==
  Each({"invite"}, {"convertFrozen", "submitWithdraw"}) \cup Saving("invite", Each({"invite"}, {"savePaymentQR"}))
    \cup {Do("pickQr", <<"uploadImage">>, {})}
UserInviteControls == Free({"convertFrozen", "submitWithdraw", "savePaymentQR", "pickQr"}) @@ Retries({"invite"})
UserInvitePage == Page(UserInviteViews, UserInviteActs, UserInviteControls)

\* API keys: the groups of a key are edited from the row and not loaded again.
UserKeysViews == {Hook("keys", {"listApiKeys"}, {}), Hook("groups", {"listModelGroups"}, {})}
UserKeysActs ==
  Under("submitting", Each({"keys"}, {"createApiKey"})) \cup Each({"keys"}, {"replaceApiKeyModelGroups", "deleteApiKey"})
UserKeysControls == While({"createApiKey"}) @@ Free({"replaceApiKeyModelGroups"}) @@ Asks({"deleteApiKey"})
UserKeysPage == Page(UserKeysViews, UserKeysActs, UserKeysControls)

\* Request logs: the drawer shows the row until its detail arrives, or another row's.
UserLogsViews == {Hook("logs", {"listLogs"}, {"queryParams"}), Hook("keys", {"listApiKeys"}, {}), Detail("detail", {"getLog"})}
UserLogsControls == Retries({"logs"})
UserLogsPage == Page(UserLogsViews, {}, UserLogsControls)

\* The catalogue of models: availability is optional, its failure is not the page's.
UserModelsControls == Retries({"channels"})
UserModelsPage == Page({Hook("channels", {"listChannels", "getModelAvailability"}, {})}, {}, UserModelsControls)

\* Three cards over the profile, each with a busy flag; sending the code has none.
UserProfileViews ==
  {Hook("profile", {"getProfile"}, {}), Hook("balance", {"getBalance"}, {}), Hook("invite", {"getInviteInfo"}, {})}
UserProfileActs ==
  Under("inviteBindLoading", Each({"invite"}, {"bindInviteCode"})) \cup Under("emailLoading", Each({"profile"}, {"bindEmail"}))
    \cup Under("pwdLoading", LeavesStale({"profile"}, Each({}, {"changePassword"}))) \cup Each({}, {"sendCode"})
\* Enter in the box of the invite code or of the password submits without looking at the flag.
UserProfileControls ==
  Free({"bindInviteCode", "changePassword", "sendCode"}) @@ While({"bindEmail"}) @@ Retries({"profile"})
UserProfilePage == Page(UserProfileViews, UserProfileActs, UserProfileControls)

\* The transfer of credits: CreditGift has its request ids.
CreditTransferCard ==
  Page({Hook("transferable", {"getTransferBalance"}, {}), Hook("balance", {"getBalance"}, {})},
       Under("submitting", Each({"transferable", "balance"}, {"transferCredits"})), While({"transferCredits"}))

UserStatsPage == Page({Hook("stats", {"getTokenStats"}, {"range", "model", "page"})}, {}, Retries({"stats"}))

UserTasksViews == {Hook("tasks", {"listTasks"}, {"queryParams"}), Detail("billing", {"getTaskBilling"})}
UserTasksControls == Retries({"tasks"})
UserTasksPage == Page(UserTasksViews, {}, UserTasksControls)

\* The history beside a generation page is loaded without a guard, by a button, on
\* arrival and after each result.
GenerationHistory == Page({Detail("history", {"listTasks"})}, {}, Reloads({"history"}))

\* useAuth: the profile, loaded once by each component that asks who the user is.
UseAuth == Page({Hook("user", {"getProfile"}, {})}, {}, NoControls)

\* The balance beside the user's menu, loaded once under a cancelled flag of its own.
HeaderBalanceChip == Page({Hook("balance", {"getBalance"}, {})}, {}, NoControls)

PagesOfUser ==
  {UserBillingPage, UserDashboardPage, UserInvitePage, UserKeysPage, UserLogsPage, UserModelsPage, UserProfilePage,
   CreditTransferCard, UserStatsPage, UserTasksPage, GenerationHistory, UseAuth, HeaderBalanceChip}
=============================================================================
