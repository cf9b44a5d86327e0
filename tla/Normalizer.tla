---------------------------- MODULE Normalizer ----------------------------
(***************************************************************************)
(* What the consumer's webhook says of an event (internal/webhook:         *)
(* EventHandler.Handle and normalizeEvent, calls.go, broadcast.go,         *)
(* edited_text.go), and what else handling it changes: the JID resolver,   *)
(* the mark of the last inbound message, the contact's reach-out block.    *)
(*                                                                         *)
(* One account (Me) talks with contacts, each known by a number ("pn") and *)
(* a LID; an event carries one, and perhaps the other in an Alt field.  A  *)
(* sender's JID, and its Alt, also carry the sender's device.  The store's *)
(* LID map learns the number of a LID with time.                           *)
(***************************************************************************)
EXTENDS Naturals, FiniteSets

CONSTANTS Contacts, Me

VARIABLES known,     \* whatsmeow_lid_map: who the store has the number of
          webhook,   \* HasWebhook: the instance has one
          blocked,   \* reachoutNegCache: the addresses that have refused (463)
          replied,   \* of contacts that have written since, the number if the store or
                     \* the event gives it, else the LID
          event,     \* the event just handled
          inbound,   \* the chat it called TrackInbound for
          confirmed, \* the JID it called ConfirmJID for
          out        \* its payload, of type "none" or "ignore" if there is none

vars == <<known, webhook, blocked, replied, inbound, confirmed, event, out>>

Users == Contacts \cup {Me}
Modes == {"pn", "lid"}
Devices == {0, 1} \* the phone, a linked device
JID(s, u) == [server |-> s, user |-> u, device |-> 0]
Addresses(users) == [server : Modes, user : users, device : {0}]
ToNonAD(j) == [j EXCEPT !.device = 0]
NoJID == JID("none", Me)
Group == JID("g.us", Me)
List == JID("broadcast", Me)
PN(u) == JID("pn", u)
LID(u) == JID("lid", u)
IsPN(j) == j.server = "pn"
IsLID(j) == j.server = "lid"
Other(j) == [j EXCEPT !.server = IF @ = "pn" THEN "lid" ELSE "pn"]

(* MessageSource, as whatsmeow fills it.                                    *)

Source(chat, sender, senderAlt, recipientAlt, own) ==
    [chat |-> chat, sender |-> sender, senderAlt |-> senderAlt, recipientAlt |-> recipientAlt,
     fromMe |-> own, isGroup |-> chat \in {Group, List}]

Persons == [server : Modes, user : Users, device : Devices]
Alts == Persons \cup {NoJID}
Alt(a, j) == a = NoJID \/ a = Other(j)

\* From a contact, to a contact (by the account's phone, or another of its devices), in a
\* group, to a broadcast list.
Inbound == {Source(ToNonAD(j), j, a, NoJID, FALSE) :
                j \in [server : Modes, user : Contacts, device : Devices], a \in Alts}
Outgoing == {Source(j, JID(j.server, Me), a, b, TRUE) :
                j \in Addresses(Contacts), a \in Alts, b \in Alts}
Grouped == {Source(g, j, a, NoJID, j.user = Me) : g \in {Group, List}, j \in Persons, a \in Alts}
Sources == {i \in Inbound \cup Outgoing \cup Grouped :
                Alt(i.senderAlt, i.sender) /\ (i.recipientAlt = NoJID \/ Alt(i.recipientAlt, i.chat))}

Nothing == [kind |-> "none"]
Silent == [type |-> "none"]

Init ==
    /\ known = {} /\ webhook \in BOOLEAN
    /\ blocked = {} /\ replied = {}
    /\ inbound = NoJID /\ confirmed = NoJID
    /\ event = Nothing /\ out = Silent
-----------------------------------------------------------------------------
(* Identities.                                                              *)

\* resolvePNFromStore
StorePN(j) == IF IsLID(j) /\ j.user \in known THEN PN(j.user) ELSE NoJID

SenderOf(i) == IF IsLID(i.sender) /\ i.senderAlt # NoJID THEN i.senderAlt ELSE i.sender

\* On an own message, SenderAlt is the own number; on a contact's it has the device.
ChatByAlt(i) ==
    LET alt == IF i.fromMe THEN i.recipientAlt ELSE i.senderAlt
    IN  IF IsLID(i.chat) /\ IsPN(alt) THEN alt ELSE i.chat

\* Slip: the store is asked for the sender, who is the account itself on an own message.
MessageChatSender(i) ==
    LET chat == ChatByAlt(i)
    IN  IF IsLID(chat) /\ StorePN(i.sender) # NoJID THEN StorePN(i.sender) ELSE chat

\* What the event does not say, the store may know.
MessageChat(i) ==
    LET chat == ChatByAlt(i)
    IN  IF IsLID(chat) /\ StorePN(chat) # NoJID THEN StorePN(chat) ELSE chat

\* The store's answer for the chat also stands in for a sender known by LID alone.
MessageFrom(i) ==
    IF /\ IsLID(ChatByAlt(i)) /\ StorePN(i.chat) # NoJID
       /\ IsLID(SenderOf(i))
    THEN StorePN(i.chat) ELSE SenderOf(i)

\* lidForEvent
LidFor(i) ==
    IF IsLID(i.chat) THEN ToNonAD(i.chat)
    ELSE IF IsLID(i.sender) THEN ToNonAD(i.sender)
    ELSE LET alt == IF i.fromMe THEN i.recipientAlt ELSE i.senderAlt
         IN  IF IsLID(alt) THEN ToNonAD(alt) ELSE NoJID

FirstPN(a, b) == IF IsPN(a) THEN a ELSE IF IsPN(b) THEN b ELSE NoJID

\* confirmJIDFromEvent: of a message, or of a receipt or presence
Confirmed(i) ==
    IF i.isGroup THEN NoJID
    ELSE LET s == FirstPN(i.sender, i.senderAlt)
         IN  IF s = NoJID /\ i.fromMe THEN FirstPN(i.chat, i.recipientAlt) ELSE s

\* callMeta and events.Receipt: a LID by its number, from the event or else the store.
NumberOf(j, alt) ==
    LET pn == IF IsPN(alt) THEN alt ELSE StorePN(j)
    IN  IF IsLID(j) /\ pn # NoJID THEN ToNonAD(pn) ELSE j

\* Sets a list's recipients may be: the event's, the stored list's, or none known.
ListRecipients == {{}} \cup {{[pn |-> p, lid |-> l]} : p \in {NoJID} \cup {PN(c) : c \in Contacts},
                                                     l \in {NoJID} \cup {LID(c) : c \in Contacts}}

\* broadcastRecipients: of the event, or else of the stored list (perhaps unknown).  Each
\* entry is addressable, by number where that is known.
Recipients(r) ==
    LET entry(e) == [e EXCEPT !.pn = IF @ = NoJID THEN StorePN(e.lid) ELSE @]
    IN  {entry(e) : e \in {d \in r : d.pn # NoJID \/ d.lid # NoJID}}
-----------------------------------------------------------------------------
(* Contents.                                                                *)

MediaOrder == <<"image", "video", "ptv", "document", "audio", "location", "contact", "sticker">>

MediaSorts == {MediaOrder[n] : n \in DOMAIN MediaOrder}

\* The first of MediaOrder that the message carries; "ptv" is told as a video.
MediaType(carried) ==
    LET i == {n \in DOMAIN MediaOrder : MediaOrder[n] \in carried}
        first == MediaOrder[CHOOSE n \in i : \A k \in i : n <= k]
    IN  IF i = {} THEN "" ELSE IF first = "ptv" THEN "video" ELSE first

\* An answer to buttons or a list: its label and id, as far as they can be read.  NativeFlow's
\* are in paramsJson, its label perhaps in the body; a list's count if it has a selection.
Clicks == [form : {"buttons", "list", "template", "native"}, label : {"", "label"}, id : {"", "id"},
           body : {"", "body"}, readable : BOOLEAN]

Readable(k) == k.form \in {"native", "list"} => k.readable

ClickLabel(k) ==
    LET label == IF Readable(k) THEN k.label ELSE ""
    IN  IF k.form = "native" /\ label = "" THEN k.body ELSE label
ClickId(k) == IF Readable(k) THEN k.id ELSE ""

\* Slip: the text of a NativeFlow answer is its body, or nothing.
ClickTextBody(k) == IF k.form = "native" THEN k.body ELSE ClickLabel(k)

ClickText(k) ==
    IF k.form # "native" THEN ClickLabel(k)
    ELSE IF k.body # "" THEN k.body
    ELSE IF ClickLabel(k) # "" THEN ClickLabel(k) ELSE ClickId(k)

\* Buttons and lists that a message offers.  A NativeFlow button whose parameters cannot be
\* read is left out, as is one of an unknown sort without a label.
Buttons == [sort : {"reply", "other", "select"}, label : {"", "label"}, readable : BOOLEAN]

Offered(b) == b.readable /\ (b.sort = "other" => b.label # "")
Kind(bs) == IF \E b \in bs : b.readable /\ b.sort = "select" THEN "list" ELSE "buttons"

\* An edit: wrappers around the new content, which may have no text; the key of its target;
\* whether the stored secret decrypts it.
maxUnwrapDepth == 4
Edits == [wraps : 0..(maxUnwrapDepth + 1), text : {"", "new"}, target : BOOLEAN, decrypts : BOOLEAN]

\* editedText: a wrapper that is left has no text of its own.
EditedText(e) == IF e.wraps <= maxUnwrapDepth THEN e.text ELSE ""

Edited(e) ==
    IF e.decrypts /\ EditedText(e) # "" /\ e.target THEN [id |-> "target", text |-> EditedText(e)]
                                                    ELSE [id |-> "", text |-> ""]

(* What a message contains: the field that is looked at, each with its inputs. *)
Plain == [what |-> "plain"]
Contents ==
    {Plain} \cup [what : {"media"}, carried : {s \in SUBSET MediaSorts : Cardinality(s) = 2}]
    \cup [what : {"offer"}, buttons : {s \in SUBSET Buttons : Cardinality(s) <= 2}]
    \cup [what : {"click"}, click : Clicks] \cup [what : {"edit"}, edit : Edits]

Body(m) ==
    CASE m.what = "media" -> [mediaType |-> MediaType(m.carried)]
      [] m.what = "offer" -> [kind |-> Kind(m.buttons), buttons |-> {b \in m.buttons : Offered(b)}]
      [] m.what = "click" -> [text |-> ClickText(m.click), selectedLabel |-> ClickLabel(m.click),
                              selectedId |-> ClickId(m.click)]
      [] m.what = "edit" -> Edited(m.edit)
      [] OTHER -> [text |-> "text"]
-----------------------------------------------------------------------------
(* EventHandler.Handle of each kind of event.  Handlers run in goroutines of *)
(* their own, but what one does to the state below is guarded at its place: *)
(* here they run one at a time.                                             *)

Emit(e, payload) == /\ event' = e
                    /\ out' = payload
                    /\ UNCHANGED <<known, webhook>>

Confirm(j) == confirmed' = ToNonAD(j)
Quiet == UNCHANGED <<blocked, replied, inbound>>

\* The number of a direct message's contact is in the event, or in the store.
Numbered(i) == i.chat.user \in known \/ \E j \in {i.chat, i.senderAlt, i.recipientAlt} : IsPN(j) /\ j.user = i.chat.user

\* Who has written, by the best address there is.
Writes(i) == replied' = IF i.isGroup THEN replied
                        ELSE replied \cup {IF Numbered(i) THEN PN(i.chat.user) ELSE LID(i.chat.user)}

\* Slip: the contact's block is looked for under the chat of the event.
ReleaseRaw(i) ==
    /\ inbound' = i.chat
    /\ blocked' = blocked \ {i.chat}
    /\ Writes(i)

\* TrackInbound and ReleaseReachoutOnInbound, by the chat of the payload without a device.
Release(i) ==
    /\ inbound' = ToNonAD(MessageChat(i))
    /\ blocked' = blocked \ {ToNonAD(MessageChat(i))}
    /\ Writes(i)

\* events.Message
OnMessage(i, m) ==
    /\ Confirm(Confirmed(i))
    /\ IF i.fromMe THEN Quiet ELSE Release(i)
    /\ \E r \in IF i.chat = List THEN ListRecipients ELSE {{}} :
          Emit([kind |-> "message", source |-> i, content |-> m],
               [type |-> "message", chat |-> MessageChat(i), from |-> MessageFrom(i), lid |-> LidFor(i),
                recipients |-> Recipients(r), body |-> Body(m), raw |-> TRUE])

\* A reaction is a Message, too; neither the store nor the block is looked at.
OnReaction(i) ==
    /\ Confirm(Confirmed(i)) /\ Quiet
    /\ Emit([kind |-> "reaction", source |-> i],
            [type |-> "reaction", chat |-> ChatByAlt(i), from |-> SenderOf(i), raw |-> FALSE])

\* A pointer to a history sync.
OnHistoryNotice(i) ==
    /\ Confirm(Confirmed(i)) /\ Quiet
    /\ Emit([kind |-> "history", source |-> i], [type |-> "ignore"])

\* events.UndecryptableMessage: an own one counts only if it can be viewed once.
OnUndecryptable(i, once) ==
    /\ UNCHANGED confirmed /\ Quiet
    /\ Emit([kind |-> "undecryptable", source |-> i],
            IF (i.fromMe /\ ~once) \/ i.isGroup THEN [type |-> "ignore"]
            ELSE [type |-> "message", chat |-> ChatByAlt(i), from |-> SenderOf(i), raw |-> TRUE])

\* events.Receipt; the statuses of its messages are the subject of Receipts.
OnReceipt(i) ==
    /\ Confirm(IF i.isGroup THEN NoJID ELSE FirstPN(i.sender, NoJID)) /\ Quiet
    /\ Emit([kind |-> "receipt", source |-> i],
            [type |-> "receipt", chat |-> i.chat, from |-> NumberOf(i.sender, i.senderAlt), raw |-> TRUE])

\* events.Presence, of a contact.
OnPresence(j) ==
    /\ Confirm(FirstPN(j, NoJID)) /\ Quiet
    /\ Emit([kind |-> "presence"], [type |-> "presence", from |-> j, raw |-> TRUE])

\* events.ChatPresence: only the store is asked.
OnChatPresence(i) ==
    /\ ~i.fromMe
    /\ UNCHANGED confirmed /\ Quiet
    /\ Emit([kind |-> "chatPresence", source |-> i],
            [type |-> "chat_presence", chat |-> NumberOf(i.chat, NoJID), from |-> NumberOf(i.sender, NoJID),
             raw |-> TRUE])

\* events.Contact: only one with a username is told.
OnContact(j, username) ==
    /\ UNCHANGED confirmed /\ Quiet
    /\ Emit([kind |-> "contact"],
            IF ~username THEN [type |-> "ignore"]
            ELSE [type |-> "contact_update", jid |-> j, lid |-> IF IsLID(j) THEN j ELSE NoJID, raw |-> TRUE])

\* The connection's events, and those without a case.
OnOther(t) ==
    /\ UNCHANGED confirmed /\ Quiet
    /\ Emit([kind |-> "other"], [type |-> t, raw |-> TRUE])

\* CallOffer (also of a call that has ended elsewhere), CallTerminate, CallReject: callMeta
\* names the caller by number when it can; an own device that rejects is told by its LID.
OnCall(t, j, alt, by) ==
    /\ UNCHANGED confirmed /\ Quiet
    /\ Emit([kind |-> "call", caller |-> j],
            [type |-> IF t = "call.offer" THEN t ELSE "call.ended", from |-> ToNonAD(NumberOf(j, alt)),
             lid |-> IF IsLID(j) THEN ToNonAD(j) ELSE NoJID, raw |-> FALSE,
             reason |-> IF t # "call.rejected" THEN "" ELSE IF by = LID(Me) THEN "rejected_elsewhere" ELSE "rejected"])

\* voip.StateEvent, of the call engine: the LID only next to a number.
OnCallState(j) ==
    /\ UNCHANGED confirmed /\ Quiet
    /\ Emit([kind |-> "call", caller |-> j],
            [type |-> "call.state", from |-> NumberOf(j, NoJID), lid |-> IF StorePN(j) = NoJID THEN NoJID ELSE j,
             raw |-> FALSE])

\* An event of an instance that has no webhook: Handle returns before anything else.
Unheard ==
    /\ ~webhook /\ event = Nothing
    /\ event' = [kind |-> "unheard"] /\ out' = Silent
    /\ UNCHANGED <<known, webhook, blocked, replied, inbound, confirmed>>
-----------------------------------------------------------------------------
(* The rest of the process.                                                 *)

Elsewhere == event = Nothing /\ UNCHANGED <<event, out>>

\* The handler returns; the payload is in the queue.
Return ==
    /\ event # Nothing
    /\ event' = Nothing /\ out' = Silent
    /\ inbound' = NoJID /\ confirmed' = NoJID
    /\ UNCHANGED <<known, webhook, blocked, replied>>

\* whatsmeow learns a number; a send to a number, or to a LID, is refused; PUT changes the
\* webhook.
Learn(u) ==
    /\ known' = known \cup {u}
    /\ Elsewhere
    /\ UNCHANGED <<webhook, blocked, replied, inbound, confirmed>>

Refuse(j) ==
    /\ blocked' = blocked \cup {j}
    /\ replied' = replied \ {j}
    /\ Elsewhere
    /\ UNCHANGED <<known, webhook, inbound, confirmed>>

SetWebhook ==
    /\ webhook' = ~webhook
    /\ Elsewhere
    /\ UNCHANGED <<known, blocked, replied, inbound, confirmed>>

AContact == Source(PN(CHOOSE c \in Contacts : TRUE), PN(CHOOSE c \in Contacts : TRUE), NoJID, NoJID, FALSE)

Handled ==
    \/ \E i \in Sources : \/ OnMessage(i, Plain) \/ OnReaction(i) \/ OnHistoryNotice(i) \/ OnReceipt(i)
                          \/ OnChatPresence(i) \/ \E once \in BOOLEAN : OnUndecryptable(i, once)
    \/ \E m \in Contents : OnMessage(AContact, m)
    \/ \E c \in Contacts, s \in Modes : OnPresence(JID(s, c)) \/ \E b \in BOOLEAN : OnContact(JID(s, c), b)
    \/ \E t \in {"connected", "disconnected", "temporary_ban", "unknown"} : OnOther(t)
    \/ \E t \in {"call.offer", "call.ended", "call.rejected"}, u \in Users, s \in Modes :
            \E alt \in {NoJID, Other(JID(s, u))}, by \in Addresses(Users) : OnCall(t, JID(s, u), alt, by)
    \/ \E j \in Addresses(Users) : OnCallState(j)

Next ==
    \/ webhook /\ event = Nothing /\ Handled
    \/ Unheard \/ Return
    \/ \E u \in Users : Learn(u)
    \/ \E j \in Addresses(Contacts) : Refuse(j)
    \/ SetWebhook

Spec == Init /\ [][Next]_vars
-----------------------------------------------------------------------------
TypeOK ==
    /\ known \subseteq Users /\ webhook \in BOOLEAN
    /\ blocked \cup replied \subseteq Addresses(Contacts)
    /\ {inbound, confirmed} \subseteq {NoJID, Group, List} \cup Addresses(Users)

\* Up to the device, a contact's events go to the contact's conversation, never to the
\* account's own number; a message or a typing notice goes to that of the number, once the
\* store has it.  (A reaction and an undecryptable message do not ask the store.)  What a
\* linked device of the contact writes under the LID with the number in SenderAlt, and
\* nothing else, goes to that number with the device, another conversation to who compares
\* chats; a message told under anything but the plain number names the contact's LID.
ThreadIsContacts ==
    event.kind \in {"message", "reaction", "undecryptable", "chatPresence"} /\ ~event.source.isGroup
    /\ out.type # "ignore"
    => LET i == event.source
           c == i.chat.user
           chat == ToNonAD(out.chat)
       IN  /\ chat \in {PN(c), LID(c)}
           /\ out.chat # chat => IsLID(i.chat) /\ ~i.fromMe /\ out.chat = i.senderAlt
           /\ event.kind = "message" /\ Numbered(i) => chat = PN(c)
           /\ event.kind = "chatPresence" /\ c \in known => out.chat = PN(c)
           /\ event.kind = "message" =>
                  out.lid = LID(c) \/ (out.lid = NoJID /\ out.chat = PN(c))

\* "releases its reach-out (463) block": a contact that has answered, from whichever device
\* and under whichever identity, is not barred under its number if the event or the store
\* gives that, and else not under its LID.  (A send to the LID that was refused bars the LID,
\* and an answer that comes with the number leaves that block in place.)
ReplyReleases == replied \cap blocked = {}

\* "Id and text travel together", and an edit that can be read is told; an answer whose label
\* can be read has a text, one whose id can be read has the id.
NothingHalf ==
    event.kind = "message" =>
        /\ event.content.what = "edit" =>
               LET e == event.content.edit
               IN  /\ out.body.id = "" <=> out.body.text = ""
                   /\ e.decrypts /\ e.target /\ e.wraps <= maxUnwrapDepth => out.body.text = e.text
        /\ event.content.what = "click" =>
               LET k == event.content.click
               IN  /\ Readable(k) /\ k.label # "" => out.body.text # ""
                   /\ Readable(k) => out.body.selectedId = k.id
=============================================================================
