-------------------------- MODULE AdminModelPages ---------------------------
(***************************************************************************)
(* The administrators' pages for channels, key pools, model groups and       *)
(* providers, prices, VIP groups and withdrawals (web/app/src/pages/admin/). *)
(* The editor of a channel is the module ChannelEditor.  *)
(***************************************************************************)
EXTENDS PageTables

\* Channels: the list answer clears the ticked rows, as on the users' page. The
\* editor of a channel is the module ChannelEditor.
AdminChannelsViews == {Selecting(Hook("channels", {"listChannels", "listKeyPools", "listUpstreamPlatforms", "listModelProviders"}, {"page", "query"}))}

ChannelHealthBadge == {Hook("health", {"getChannelHealth"}, {"channelId"})}

ChannelLogPanel == {Hook("logs", {"listChannelLogs"}, {"channelId"})}

AdminChannelsActs ==
  Each({"channels"}, {"toggleChannel", "refreshChannelRuntime", "deleteChannel"})
    \cup Under("batchMutating", OnSelection({Do("batchToggle", <<"batchUpdateChannels">>, {"channels"}), Do("batchSetRate", <<"batchUpdateChannels">>, {"channels"})}))
AdminChannelsControls ==
  Free({"toggleChannel", "refreshChannelRuntime"}) @@ Asks({"deleteChannel"}) @@ While({"batchToggle", "batchSetRate"}) @@ Retries({"channels"})
AdminChannelsPage == Page(AdminChannelsViews \cup ChannelHealthBadge \cup ChannelLogPanel, AdminChannelsActs, AdminChannelsControls)

\* Key pools: the keys of a pool and its channel bindings are details loaded by the
\* dialog of a row; the bindings are saved as they were loaded and edited.
AdminKeyPoolsViews ==
  {Hook("pools", {"listKeyPools", "listChannels"}, {}), Detail("keys", {"listPoolKeys"}), Editing(Detail("binding", {"getKeyPoolChannels"}))}
AdminKeyPoolsActs ==
  Each({"pools"}, {"createKeyPool", "toggleKeyPool", "toggleVendorSubmittable", "deleteKeyPool"})
    \cup Saving("binding", LeavesStale({"binding"}, {Do("saveBinding", <<"replaceKeyPoolChannels">>, {"pools"})}))
    \cup Each({"keys"}, {"addPoolKey", "updatePoolKey", "removePoolKey", "setPoolKeyVendor"})
    \cup Under("importing", {Do("importKeys", <<"importPoolKeys">>, {"keys"})})
AdminKeyPoolsControls ==
  Free({"createKeyPool", "toggleKeyPool", "toggleVendorSubmittable", "saveBinding", "addPoolKey", "updatePoolKey", "removePoolKey", "setPoolKeyVendor"})
    @@ Asks({"deleteKeyPool"}) @@ While({"importKeys"}) @@ Retries({"pools"})
AdminKeyPoolsPage == Page(AdminKeyPoolsViews, AdminKeyPoolsActs, AdminKeyPoolsControls)

\* Model groups: saving is a sequence of calls, one for the group and one for each
\* binding that is removed or added; what fails in the middle is not taken back.
AdminModelGroupsViews ==
  {Hook("groups", {"listModelGroups", "listChannels", "listModelProviders"}, {}), Editing(Detail("bindings", {"listModelGroupModels"}))}
AdminModelGroupsActs ==
  {Do("remove", <<"deleteModelGroup">>, {"groups"})}
    \cup Under("togglingGroupID", {Do("toggle", <<"toggleModelGroup">>, {"groups"})})
    \cup Under("saving", Saving("bindings",
           {Do("save", <<"updateModelGroup", "unbindModelGroupModel", "bindModelGroupModel">>, {"bindings", "groups"})}))
AdminModelGroupsControls == Free({"remove"}) @@ PerRow({"toggle"}) @@ While({"save"})
AdminModelGroupsPage == Page(AdminModelGroupsViews, AdminModelGroupsActs, AdminModelGroupsControls)

\* Model providers: the confirmation stays open, under its own flag, until the answer.
AdminModelProvidersControls ==
  While({"updateModelProvider", "createModelProvider", "toggleModelProvider", "deleteModelProvider"})
AdminModelProvidersPage ==
  Page({Hook("providers", {"listModelProviders"}, {})},
       Under("saving", Each({"providers"}, {"updateModelProvider", "createModelProvider"}))
         \cup Under("acting", Each({"providers"}, {"toggleModelProvider", "deleteModelProvider"})),
       AdminModelProvidersControls)

AdminOfficialPricesControls ==
  While({"updateModelOfficialPrice", "createModelOfficialPrice", "setModelOfficialPriceStatus", "deleteModelOfficialPrice"})
AdminOfficialPricesTab ==
  Page({Hook("providers", {"listModelProviders"}, {}),
        Hook("prices", {"listModelOfficialPrices"}, {"page", "provider", "model", "billing", "status"})},
       Under("saving", Each({"prices"}, {"updateModelOfficialPrice", "createModelOfficialPrice"}))
         \cup Under("acting", Each({"prices"}, {"setModelOfficialPriceStatus", "deleteModelOfficialPrice"})),
       AdminOfficialPricesControls)

\* VIP groups: every button but the refresh of all users works without a flag.
AdminVipGroupsControls == Free({"updateVipGroup", "createVipGroup", "deleteVipGroup"}) @@ While({"refreshAll"})
AdminVipGroupsPage ==
  Page({Hook("groups", {"listVipGroups"}, {})},
       Each({"groups"}, {"updateVipGroup", "createVipGroup", "deleteVipGroup"})
         \cup Under("refreshingUsers", {Do("refreshAll", <<"refreshAllVipUsers">>, {"groups"})}),
       AdminVipGroupsControls)

\* Withdrawals: the list is reloaded every thirty seconds; an approval asks in the
\* list and goes through at once from the detail dialog.
AdminWithdrawViews == {Ticking(Hook("withdrawals", {"listWithdrawals", "getPendingWithdrawCount"}, {"query"}))}
AdminWithdrawActs ==
  Each({"withdrawals"}, {"csApproveWithdrawal", "approveWithdrawal", "rejectWithdrawal"})
    \cup Under("proofUploading", {Do("proof", <<"uploadWithdrawalProof">>, {"withdrawals"})})
AdminWithdrawControls ==
  Asks({"csApproveWithdrawal"}) @@ Free({"approveWithdrawal", "rejectWithdrawal"}) @@ While({"proof"}) @@ Retries({"withdrawals"})
AdminWithdrawPage == Page(AdminWithdrawViews, AdminWithdrawActs, AdminWithdrawControls)

ModelPagesOfAdmins ==
  {AdminChannelsPage, AdminKeyPoolsPage, AdminModelGroupsPage, AdminModelProvidersPage, AdminOfficialPricesTab,
   AdminVipGroupsPage, AdminWithdrawPage}
=============================================================================
