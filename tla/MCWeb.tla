-------------------------------- MODULE MCWeb --------------------------------
(***************************************************************************)
(* Model checking of the pages of the web client, one page at a time: a     *)
(* view of any shape the page tables give, the channel dialog of the        *)
(* administrators, or the chat of the playground.  `part` is the page that  *)
(* is open; the state of the others is pinned.                              *)
(***************************************************************************)
EXTENDS WebView, FiniteSets

CONSTANTS Channels, Costs,                  \* of ChannelEditor
          MaxMessages, MaxConversations,    \* of Playground
          MaxSaves                          \* of both

VARIABLES
  part,
  channels, listed, editing, form, gate, costCalls, saving, synced, rebound,
  stored, conversations, messages, convId, streaming, made, saves, deleting, thrown, overlapped

LOCAL INSTANCE WebApi
LOCAL INSTANCE PageTables
Admins == INSTANCE AdminPages
AdminModels == INSTANCE AdminModelPages
Users == INSTANCE UserPages
Partners == INSTANCE PartnerPages
Editor == INSTANCE ChannelEditor
Chat == INSTANCE Playground WITH listed <- conversations

\* The shapes of every page of every role.
AllShapes ==
  ShapesOf(AdminClient, Admins!PagesOfAdmins \cup AdminModels!ModelPagesOfAdmins)
    \cup ShapesOf(UserClient, Users!PagesOfUser)
    \cup ShapesOf(ResellerApi, Partners!PagesOfResellers)
    \cup ShapesOf(VendorApi, Partners!PagesOfVendors)
    \cup ShapesOf(PublicApi, Partners!PublicPages)

editorState == <<channels, listed, editing, form, gate, costCalls, saving, synced, rebound>>
chatState == <<stored, conversations, messages, convId, streaming, made, saves, deleting, thrown, overlapped>>
webVars == <<part, vars, editorState, chatState>>

Pinned ==
  /\ part # "view" => shape = CHOOSE s \in Shapes : TRUE
  /\ part # "editor" => channels = [c \in Channels |-> [cost |-> Editor!NoPlatform, auto |-> FALSE]]

WebInit ==
  /\ part \in {"view", "editor", "chat"}
  /\ Init /\ Editor!EditorInit /\ Chat!ChatInit
  /\ Pinned

WebNext ==
  \/ part = "view" /\ Next /\ UNCHANGED <<part, editorState, chatState>>
  \/ part = "editor" /\ Editor!EditorNext /\ UNCHANGED <<part, vars, chatState>>
  \/ part = "chat" /\ Chat!ChatNext /\ UNCHANGED <<part, vars, editorState>>

WebSpec == WebInit /\ [][WebNext]_webVars

\* The types of the page that is open.
WebTypeOK == CASE part = "view" -> TypeOK [] part = "editor" -> Editor!TypeOK [] part = "chat" -> Chat!TypeOK

\* ChannelEditor: cost is synced automatically only from an upstream that has
\* priced the channel at those settings (AdminChannelsPage.tsx, upstream cost box).
AutoSyncWasSynced == part = "editor" => Editor!AutoSyncWasSynced

\* Playground: no message of the chat disappears unless the user throws it away
\* (UserPlaygroundPage.tsx, saveCurrentConversation).
MessagesKept == part = "chat" => Chat!MessagesKept
=============================================================================
