---------------------------- MODULE PartnerPages ----------------------------
(***************************************************************************)
(* The pages of resellers and vendors, and the settings of the site every   *)
(* page reads (web/app/src/pages/{reseller,vendor}/, hooks/).               *)
(***************************************************************************)
EXTENDS PageTables

ResellerDashboardPage == Page({Hook("overview", {"getProfile", "getKeys", "getSites"}, {})}, {}, Retries({"overview"}))

ResellerKeysActs == Under("submitting", Each({"keys"}, {"createKey"}))
ResellerKeysControls == While({"createKey"}) @@ Retries({"keys"})
ResellerKeysPage ==
  Page({Hook("keys", {"getKeys"}, {}), Hook("groups", {"listModelGroups"}, {})}, ResellerKeysActs, ResellerKeysControls)

\* The progress of a site's build is a detail, asked again by its dialog's button
\* while no answer is awaited.
ResellerSitesViews == {Hook("sites", {"getKeys", "getSites"}, {}), Detail("progress", {"getBuildProgress"})}
ResellerSitesActs == Under("submitting", Each({"sites"}, {"createSite"}))
ResellerSitesControls == While({"createSite"}) @@ Retries({"sites"}) @@ Reloads({"progress"})
ResellerSitesPage == Page(ResellerSitesViews, ResellerSitesActs, ResellerSitesControls)

VendorDashboardPage == Page({Hook("overview", {"getProfile", "getKeys"}, {})}, {}, Retries({"overview"}))

\* A key is submitted without a busy flag.
VendorKeysActs == Each({"keys"}, {"submitKey"})
VendorKeysControls == Free({"submitKey"}) @@ Retries({"keys"})
VendorKeysPage == Page({Hook("keys", {"getKeys", "getPools"}, {})}, VendorKeysActs, VendorKeysControls)

\* SiteSettingsProvider: loaded once, and again by the button of its error screen.
SiteSettingsProvider == Page({Hook("settings", {"getSettings"}, {})}, {}, Retries({"settings"}))

PagesOfResellers == {ResellerDashboardPage, ResellerKeysPage, ResellerSitesPage}
PagesOfVendors == {VendorDashboardPage, VendorKeysPage}
PublicPages == {SiteSettingsProvider}
=============================================================================
