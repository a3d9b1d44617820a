------------------------------ MODULE CreditGift ------------------------------
(***************************************************************************)
(* A gift of credits from one user to another: CreditTransferCard.tsx on    *)
(* one side, TransferCredits (internal/service/credit_transfer.go) on the   *)
(* other.  The card keeps the id of a request whose outcome it does not     *)
(* know and sends it again while recipient and amount are the same; the     *)
(* server writes one transfer_out row per id.  An answer may be lost, and a *)
(* request the card has given up may be applied much later.                 *)
(***************************************************************************)
EXTENDS Integers, FiniteSets

CONSTANTS Signatures,   \* what a form can say: recipient and amount
          Credits,      \* what the sender has; each gift takes one
          MaxSubmits    \* bound: clicks on confirm

NoSignature == "none"
NoRequest == [signature |-> NoSignature, id |-> 0]
Ids == 1 .. MaxSubmits

VARIABLES
  filled,     \* the form
  request,    \* request.current
  awaited,    \* the post the card awaits, or 0
  posts,      \* posts not served yet, abandoned ones too: [n, id, intent]
  replies,    \* what the server said to a post: n -> "none", "ok" or "refused"
  rows,       \* transfer_out rows per request id
  balance,    \* the sender's free balance
  submits,    \* clicks so far
  intents,    \* history: the gift the user means: its form, and the click it began with
  reported,   \* history: intents the card reported as done
  given       \* history: rows per intent

giftVars == <<filled, request, awaited, posts, replies, rows, balance, submits, intents, reported, given>>

GiftInit ==
  /\ filled = NoSignature /\ request = NoRequest /\ awaited = 0
  /\ posts = {} /\ replies = [n \in Ids |-> "none"]
  /\ rows = [i \in Ids |-> 0] /\ balance = Credits
  /\ submits = 0 /\ intents = [signature |-> NoSignature, number |-> 0]
  /\ reported = {} /\ given = [i \in Ids |-> 0]

Fill(s) ==
  /\ awaited = 0 /\ s # filled /\ filled' = s
  /\ UNCHANGED <<request, awaited, posts, replies, rows, balance, submits, intents, reported, given>>

\* Mutant of RequestFor: every click makes a new id.
FreshRequest(s, fresh) == [signature |-> s, id |-> fresh]

\* The id of an unresolved request is kept while the form says the same.
RequestFor(s, fresh) == IF request.signature = s THEN request ELSE [signature |-> s, id |-> fresh]
IntentFor(s, fresh) == IF intents.signature = s THEN intents ELSE [signature |-> s, number |-> fresh]

Submit ==
  /\ awaited = 0 /\ filled # NoSignature /\ submits < MaxSubmits
  /\ submits' = submits + 1
  /\ request' = RequestFor(filled, submits')
  /\ intents' = IntentFor(filled, submits')
  /\ awaited' = submits'
  /\ posts' = posts \cup {[n |-> submits', id |-> request'.id, intent |-> intents'.number]}
  /\ UNCHANGED <<filled, replies, rows, balance, reported, given>>

\* TransferCredits under the advisory locks of both users: a row of the id is
\* success; otherwise balances, rows and sync jobs commit together.
AlreadyWritten(p) == rows[p.id] > 0
ServeTransfer(p) ==
  /\ p \in posts /\ posts' = posts \ {p}
  /\ IF AlreadyWritten(p) \/ balance < 1
       THEN /\ replies' = [replies EXCEPT ![p.n] = IF AlreadyWritten(p) THEN "ok" ELSE "refused"]
            /\ UNCHANGED <<rows, balance, given>>
       ELSE /\ replies' = [replies EXCEPT ![p.n] = "ok"]
            /\ rows' = [rows EXCEPT ![p.id] = @ + 1]
            /\ given' = [given EXCEPT ![p.intent] = @ + 1]
            /\ balance' = balance - 1
  /\ UNCHANGED <<filled, request, awaited, submits, intents, reported>>

Accepted ==
  /\ awaited # 0 /\ replies[awaited] = "ok"
  /\ awaited' = 0 /\ request' = NoRequest /\ filled' = NoSignature
  /\ reported' = reported \cup {intents.number}
  /\ intents' = [intents EXCEPT !.signature = NoSignature]
  /\ UNCHANGED <<posts, replies, rows, balance, submits, given>>

\* Refused, timed out or lost: the form and the request stay.
Failed ==
  /\ awaited # 0 /\ awaited' = 0
  /\ UNCHANGED <<filled, request, posts, replies, rows, balance, submits, intents, reported, given>>

\* A post that never reaches the server.
PostLost(p) ==
  /\ p \in posts /\ posts' = posts \ {p}
  /\ UNCHANGED <<filled, request, awaited, replies, rows, balance, submits, intents, reported, given>>

GiftNext ==
  \/ \E s \in Signatures \cup {NoSignature} : Fill(s)
  \/ Submit \/ Accepted \/ Failed
  \/ \E p \in posts : ServeTransfer(p) \/ PostLost(p)

GiftSpec == GiftInit /\ [][GiftNext]_giftVars

GiftTypeOK ==
  /\ filled \in Signatures \cup {NoSignature}
  /\ request \in [signature : Signatures \cup {NoSignature}, id : Ids \cup {0}]
  /\ awaited \in Ids \cup {0} /\ submits \in Ids \cup {0}
  /\ posts \subseteq [n : Ids, id : Ids, intent : Ids]
  /\ replies \in [Ids -> {"none", "ok", "refused"}] /\ rows \in [Ids -> Nat] /\ given \in [Ids -> Nat]
  /\ balance \in 0 .. Credits /\ reported \subseteq Ids
  /\ intents \in [signature : Signatures \cup {NoSignature}, number : Ids \cup {0}]

\* A gift the user confirms, and confirms again after errors and lost answers, is
\* made once; one that is reported as done was made. Requests the card gave up
\* may still arrive, and even after the answer to their retry.
OneGiftPerIntent ==
  /\ \A i \in Ids : given[i] <= 1
  /\ \A i \in reported : given[i] = 1
=============================================================================
