------------------------------ MODULE Playground ------------------------------
(***************************************************************************)
(* The chat of UserPlaygroundPage.tsx and the conversations the server      *)
(* keeps (internal/handler/conversation.go).  Messages live on the page; a  *)
(* conversation is written only by "new chat", which saves what is on       *)
(* screen, reloads the list, and then clears the screen.  Send, open and    *)
(* delete stay possible while that save is under way, and so does "new      *)
(* chat".  Messages are numbered in the order they are made; a conversation *)
(* is a set of them.  One delete is under way at a time.                    *)
(***************************************************************************)
EXTENDS Integers, FiniteSets

CONSTANTS MaxMessages,       \* bound: messages made
          MaxConversations,  \* bound: conversations created
          MaxSaves           \* bound: saves under way at once

NoConversation == 0
Conversations == 1 .. MaxConversations
Saves == 1 .. MaxSaves
NoCall == [at |-> "no"]

VARIABLES
  stored,     \* the server's conversations: id -> messages, {} where there is none
  listed,     \* the page's list of them
  messages,   \* messages on screen
  convId,     \* currentConvId
  streaming,  \* an answer is being received
  made,       \* messages made so far
  saves,      \* calls of saveCurrentConversation under way: slot -> [at, id, messages]
  deleting,   \* deleteConversation under way: [at, id, open], open: it was on screen
  thrown,     \* history: messages the user deleted or replaced by opening another
  overlapped  \* history: an action met a save or a delete under way, or a stale list

chatVars == <<stored, listed, messages, convId, streaming, made, saves, deleting, thrown, overlapped>>
screen == <<messages, convId, streaming, made>>

ChatInit ==
  /\ stored = [c \in Conversations |-> {}] /\ listed = stored
  /\ messages = {} /\ convId = NoConversation /\ streaming = FALSE /\ made = 0
  /\ saves = [i \in Saves |-> NoCall] /\ deleting = NoCall
  /\ thrown = {} /\ overlapped = FALSE

Quiet == deleting = NoCall /\ \A i \in Saves : saves[i] = NoCall
Meets == overlapped' = (overlapped \/ ~Quiet)

sendMessage ==
  /\ ~streaming /\ made < MaxMessages
  /\ made' = made + 1 /\ messages' = messages \cup {made'}
  /\ streaming' = TRUE
  /\ Meets
  /\ UNCHANGED <<stored, listed, convId, saves, deleting, thrown>>

\* The stream ends, is aborted or fails: a message of the assistant is added to
\* what is on screen by then, unless it was aborted before the first chunk.
StreamEnds ==
  /\ streaming /\ streaming' = FALSE
  /\ \/ made < MaxMessages /\ made' = made + 1 /\ messages' = messages \cup {made'}
     \/ UNCHANGED <<made, messages>>
  /\ UNCHANGED <<stored, listed, convId, saves, deleting, thrown, overlapped>>

\* "New chat": an empty screen needs no call.
NewChatEmpty ==
  /\ ~streaming /\ messages = {} /\ convId # NoConversation
  /\ convId' = NoConversation
  /\ Meets
  /\ UNCHANGED <<stored, listed, messages, streaming, made, saves, deleting, thrown>>

NewChat(i) ==
  /\ ~streaming /\ messages # {}
  /\ saves[i] = NoCall /\ \A j \in 1 .. (i - 1) : saves[j] # NoCall
  /\ saves' = [saves EXCEPT ![i] = [at |-> "asked", id |-> convId, messages |-> messages]]
  /\ Meets
  /\ UNCHANGED <<stored, listed, screen, deleting, thrown>>

\* SaveConversation: an id is updated, none is a new conversation. An id that was
\* deleted is an error.
ServeSave(i) ==
  /\ saves[i].at = "asked"
  /\ \E c \in Conversations :
       /\ IF saves[i].id = NoConversation THEN stored[c] = {} ELSE c = saves[i].id /\ stored[c] # {}
       /\ stored' = [stored EXCEPT ![c] = saves[i].messages]
       /\ saves' = [saves EXCEPT ![i].at = "saved", ![i].id = c]
  /\ UNCHANGED <<listed, screen, deleting, thrown, overlapped>>

\* The conversation is known by its id; then the list is loaded.
SaveAnswered(i) ==
  /\ saves[i].at = "saved"
  /\ convId' = saves[i].id
  /\ saves' = [saves EXCEPT ![i].at = "listing"]
  /\ UNCHANGED <<stored, listed, messages, streaming, made, deleting, thrown, overlapped>>

\* A list that fails to load is ignored; the screen is cleared all the same.
ListLoaded(i) ==
  /\ saves[i].at = "listing" /\ saves' = [saves EXCEPT ![i] = NoCall]
  /\ listed' \in {listed, stored}
  /\ messages' = {} /\ convId' = NoConversation
  /\ UNCHANGED <<stored, streaming, made, deleting, thrown, overlapped>>

\* Mutant of KeepScreen: the screen is cleared although the save failed.
ClearScreen == messages' = {} /\ convId' = NoConversation /\ UNCHANGED <<streaming, made>>

\* The save fails, or its answer is lost after the server wrote it.
KeepScreen == UNCHANGED screen
SaveFails(i) ==
  /\ saves[i].at \in {"asked", "saved"} /\ saves' = [saves EXCEPT ![i] = NoCall]
  /\ KeepScreen
  /\ UNCHANGED <<stored, listed, deleting, thrown, overlapped>>

\* What was on screen and not saved is gone: the page does not ask.
OpenConversation(c) ==
  /\ ~streaming /\ listed[c] # {}
  /\ thrown' = thrown \cup messages
  /\ messages' = listed[c] /\ convId' = c
  /\ overlapped' = (overlapped \/ ~Quiet \/ listed[c] # stored[c])
  /\ UNCHANGED <<stored, listed, streaming, made, saves, deleting>>

DeleteConversation(c) ==
  /\ ~streaming /\ listed[c] # {} /\ deleting = NoCall
  /\ deleting' = [at |-> "asked", id |-> c, open |-> convId = c]
  /\ Meets
  /\ UNCHANGED <<stored, listed, screen, saves, thrown>>

ServeDelete ==
  /\ deleting.at = "asked"
  /\ thrown' = thrown \cup stored[deleting.id] \cup (IF deleting.open THEN messages ELSE {})
  /\ stored' = [stored EXCEPT ![deleting.id] = {}]
  /\ deleting' = [deleting EXCEPT !.at = "deleted"]
  /\ UNCHANGED <<listed, screen, saves, overlapped>>

\* Which conversation was on screen is what it was when the button was clicked.
DeleteAnswered ==
  /\ deleting.at = "deleted" /\ deleting' = NoCall
  /\ listed' = [listed EXCEPT ![deleting.id] = {}]
  /\ messages' = IF deleting.open THEN {} ELSE messages
  /\ convId' = IF deleting.open THEN NoConversation ELSE convId
  /\ UNCHANGED <<stored, streaming, made, saves, thrown, overlapped>>

DeleteFails ==
  /\ deleting # NoCall /\ deleting' = NoCall
  /\ UNCHANGED <<stored, listed, screen, saves, thrown, overlapped>>

\* The refresh button of the list.
Refresh ==
  /\ listed # stored /\ listed' = stored
  /\ UNCHANGED <<stored, screen, saves, deleting, thrown, overlapped>>

ChatNext ==
  \/ sendMessage \/ StreamEnds \/ NewChatEmpty
  \/ \E i \in Saves : NewChat(i) \/ ServeSave(i) \/ SaveAnswered(i) \/ ListLoaded(i) \/ SaveFails(i)
  \/ \E c \in Conversations : OpenConversation(c) \/ DeleteConversation(c)
  \/ ServeDelete \/ DeleteAnswered \/ DeleteFails \/ Refresh

ChatSpec == ChatInit /\ [][ChatNext]_chatVars

TypeOK ==
  /\ {stored, listed} \subseteq [Conversations -> SUBSET (1 .. MaxMessages)]
  /\ messages \subseteq 1 .. made /\ thrown \subseteq 1 .. made /\ made \in 0 .. MaxMessages
  /\ convId \in Conversations \cup {NoConversation}
  /\ streaming \in BOOLEAN /\ overlapped \in BOOLEAN
  /\ \A i \in Saves : saves[i].at \in {"no", "asked", "saved", "listing"}
  /\ deleting.at \in {"no", "asked", "deleted"}

\* No message disappears: each one made is on screen, at the server, or thrown away
\* by the user, whatever saves, lists and deletes failed or lost their answers. It
\* may break once something was sent, opened or deleted while a save or a delete
\* was under way, or a conversation was opened from a list older than the server.
MessagesKept ==
  ~overlapped => \A m \in 1 .. made : m \in messages \cup thrown \cup UNION {stored[c] : c \in Conversations}
=============================================================================
