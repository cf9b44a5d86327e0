--------------------------- MODULE NormalizerProofs ---------------------------
(***************************************************************************)
(* Proofs about Normalizer, in the bridge, for any contacts.  What the     *)
(* webhook is told is decided in one section of the handler; the store may *)
(* learn a number before or after it, and the send path may bar a contact, *)
(* but not in between.                                                     *)
(***************************************************************************)
EXTENDS MCBridge, TLAPS

-----------------------------------------------------------------------------
(* Identities of an event.                                                  *)

Contact(i) == i.chat.user

\* The chat of a direct message is one of the identities of the contact, and an Alt field
\* of it, the sender's of an inbound and the recipient's of an own message, another.
Direct(i) ==
    /\ i.chat \in Nor!Addresses({Contact(i)})
    /\ i.fromMe => Contact(i) # Me
    /\ ~i.fromMe => /\ i.sender \in [server : Nor!Modes, user : {Contact(i)}, device : Nor!Devices]
                    /\ i.chat = Nor!ToNonAD(i.sender)
                    /\ i.senderAlt = Nor!NoJID \/ i.senderAlt = Nor!Other(i.sender)
                    /\ i.recipientAlt = Nor!NoJID
    /\ i.fromMe => i.sender = Nor!JID(i.chat.server, Me)
                   /\ (i.senderAlt = Nor!NoJID \/ i.senderAlt = Nor!Other(i.sender))
                   /\ (i.recipientAlt = Nor!NoJID \/ i.recipientAlt = Nor!Other(i.chat))

\* A device's JID, its other identity, and both without the device.
LEMMA JIDs ==
    ASSUME NEW U, NEW j \in [server : Nor!Modes, user : U, device : Nor!Devices]
    PROVE  /\ Nor!IsPN(j) => /\ Nor!ToNonAD(j) = Nor!PN(j.user)
                             /\ Nor!IsLID(Nor!Other(j)) /\ Nor!ToNonAD(Nor!Other(j)) = Nor!LID(j.user)
           /\ Nor!IsLID(j) => /\ Nor!ToNonAD(j) = Nor!LID(j.user)
                              /\ Nor!IsPN(Nor!Other(j)) /\ Nor!ToNonAD(Nor!Other(j)) = Nor!PN(j.user)
           /\ Nor!IsPN(j) \/ Nor!IsLID(j)
           /\ ~(Nor!IsPN(j) /\ Nor!IsLID(j))
<1>1. /\ j = [server |-> j.server, user |-> j.user, device |-> j.device]
      /\ j.server \in {"pn", "lid"}
  BY DEF Nor!Modes
<1>2. Nor!ToNonAD(j) = [server |-> j.server, user |-> j.user, device |-> 0]
  BY DEF Nor!ToNonAD
<1>3. j.server = "pn" => Nor!Other(j) = [server |-> "lid", user |-> j.user, device |-> j.device]
  BY DEF Nor!Other
<1>4. j.server = "lid" => Nor!Other(j) = [server |-> "pn", user |-> j.user, device |-> j.device]
  BY DEF Nor!Other
<1>5. /\ j.server = "pn" => Nor!ToNonAD(Nor!Other(j)) = [server |-> "lid", user |-> j.user, device |-> 0]
      /\ j.server = "lid" => Nor!ToNonAD(Nor!Other(j)) = [server |-> "pn", user |-> j.user, device |-> 0]
  BY <1>3, <1>4 DEF Nor!ToNonAD
<1> QED BY <1>1, <1>2, <1>3, <1>4, <1>5 DEF Nor!IsPN, Nor!IsLID, Nor!PN, Nor!LID, Nor!JID

\* Without a device the other identity has none, and nothing is stripped.
LEMMA Plain ==
    ASSUME NEW U, NEW j \in Nor!Addresses(U)
    PROVE  /\ j \in [server : Nor!Modes, user : U, device : Nor!Devices]
           /\ Nor!IsPN(j) => j = Nor!PN(j.user) /\ Nor!Other(j) = Nor!LID(j.user)
           /\ Nor!IsLID(j) => j = Nor!LID(j.user) /\ Nor!Other(j) = Nor!PN(j.user)
<1>1. /\ j = [server |-> j.server, user |-> j.user, device |-> 0]
      /\ j.server \in {"pn", "lid"} /\ j.user \in U
  BY DEF Nor!Modes, Nor!Addresses
<1>2. j.server = "pn" => Nor!Other(j) = [server |-> "lid", user |-> j.user, device |-> 0]
  BY <1>1 DEF Nor!Other
<1>3. j.server = "lid" => Nor!Other(j) = [server |-> "pn", user |-> j.user, device |-> 0]
  BY <1>1 DEF Nor!Other
<1>4. j \in [server : Nor!Modes, user : U, device : Nor!Devices]
  BY <1>1 DEF Nor!Modes, Nor!Devices
<1> QED BY <1>1, <1>2, <1>3, <1>4 DEF Nor!IsPN, Nor!IsLID, Nor!PN, Nor!LID, Nor!JID

LEMMA Kinds ==
    ASSUME NEW u
    PROVE  /\ Nor!IsPN(Nor!PN(u)) /\ ~Nor!IsLID(Nor!PN(u)) /\ Nor!PN(u).user = u
           /\ Nor!IsLID(Nor!LID(u)) /\ ~Nor!IsPN(Nor!LID(u)) /\ Nor!LID(u).user = u
           /\ ~Nor!IsPN(Nor!NoJID) /\ ~Nor!IsLID(Nor!NoJID)
           /\ Nor!PN(u) # Nor!NoJID /\ Nor!LID(u) # Nor!NoJID
           /\ Nor!ToNonAD(Nor!PN(u)) = Nor!PN(u) /\ Nor!ToNonAD(Nor!LID(u)) = Nor!LID(u)
           /\ \A w : Nor!PN(u) = Nor!PN(w) => u = w
           /\ \A w : Nor!PN(u) # Nor!LID(w)
BY DEF Nor!IsPN, Nor!IsLID, Nor!PN, Nor!LID, Nor!JID, Nor!NoJID, Nor!ToNonAD

\* A source that is neither of a group nor of a list is of a direct message.
LEMMA SourcesAreDirect ==
    ASSUME NEW i \in Nor!Sources, ~i.isGroup
    PROVE  Direct(i)
<1>1. CASE i \in Nor!Inbound
  <2>1. PICK j \in [server : Nor!Modes, user : Contacts, device : Nor!Devices], a \in Nor!Alts :
            i = Nor!Source(Nor!ToNonAD(j), j, a, Nor!NoJID, FALSE)
    BY <1>1 DEF Nor!Inbound, Nor!Source, Nor!ToNonAD, Nor!NoJID, Nor!JID
  <2>2. /\ i.chat = Nor!ToNonAD(j) /\ i.sender = j /\ i.fromMe = FALSE /\ i.senderAlt = a
        /\ i.recipientAlt = Nor!NoJID
    BY <2>1 DEF Nor!Source
  <2>3. /\ i.chat \in Nor!Addresses({Contact(i)}) /\ Contact(i) = j.user
    BY <2>2 DEF Nor!ToNonAD, Nor!Addresses, Contact
  <2>4. i.sender \in [server : Nor!Modes, user : {Contact(i)}, device : Nor!Devices]
    BY <2>2, <2>3
  <2> QED BY <2>2, <2>3, <2>4 DEF Direct, Nor!Sources, Nor!Alt
<1>2. CASE i \in Nor!Outgoing
  <2>1. PICK j \in Nor!Addresses(Contacts), a \in Nor!Alts, b \in Nor!Alts :
            i = Nor!Source(j, Nor!JID(j.server, Me), a, b, TRUE)
    BY <1>2 DEF Nor!Outgoing, Nor!Source, Nor!JID, Nor!Addresses
  <2>2. /\ i.chat = j /\ i.sender = Nor!JID(j.server, Me) /\ i.fromMe = TRUE
        /\ i.senderAlt = a /\ i.recipientAlt = b
    BY <2>1 DEF Nor!Source
  <2>3. j \in Nor!Addresses({j.user}) /\ j.user \in Contacts
    BY DEF Nor!Addresses
  <2> QED BY <2>2, <2>3, RecipientsAssumption DEF Direct, Contact, Nor!Sources, Nor!Alt
<1>3. CASE i \in Nor!Grouped
  <2>1. PICK g \in {Nor!Group, Nor!List}, j \in Nor!Persons, a \in Nor!Alts :
            i = Nor!Source(g, j, a, Nor!NoJID, j.user = Me)
    BY <1>3 DEF Nor!Grouped
  <2> QED BY <2>1 DEF Nor!Source
<1> QED BY <1>1, <1>2, <1>3 DEF Nor!Sources

\* The Alt field that may name the chat's contact.
AltOf(i) == IF i.fromMe THEN i.recipientAlt ELSE i.senderAlt

\* The two cases of a direct message, by the identity WhatsApp chose for its chat.
LEMMA DirectChat ==
    ASSUME NEW i, Direct(i)
    PROVE  /\ i.chat = Nor!PN(Contact(i)) \/ i.chat = Nor!LID(Contact(i))
           /\ \/ AltOf(i) = Nor!NoJID
              \/ /\ i.chat = Nor!PN(Contact(i))
                 /\ Nor!IsLID(AltOf(i)) /\ Nor!ToNonAD(AltOf(i)) = Nor!LID(Contact(i))
              \/ /\ i.chat = Nor!LID(Contact(i))
                 /\ Nor!IsPN(AltOf(i)) /\ Nor!ToNonAD(AltOf(i)) = Nor!PN(Contact(i))
                 /\ i.fromMe => AltOf(i) = Nor!PN(Contact(i))
<1>1. /\ Nor!IsPN(i.chat) => i.chat = Nor!PN(Contact(i)) /\ Nor!Other(i.chat) = Nor!LID(Contact(i))
      /\ Nor!IsLID(i.chat) => i.chat = Nor!LID(Contact(i)) /\ Nor!Other(i.chat) = Nor!PN(Contact(i))
      /\ Nor!IsPN(i.chat) \/ Nor!IsLID(i.chat)
  BY Plain, JIDs DEF Direct, Contact
<1>2. CASE i.fromMe
  BY <1>1, <1>2, Kinds DEF Direct, AltOf
<1>3. CASE ~i.fromMe
  <2>1. i.sender \in [server : Nor!Modes, user : {Contact(i)}, device : Nor!Devices]
    BY <1>3 DEF Direct
  <2>2. /\ i.sender.user = Contact(i)
        /\ Nor!IsPN(i.sender) <=> Nor!IsPN(i.chat)
        /\ Nor!IsLID(i.sender) <=> Nor!IsLID(i.chat)
    BY <1>3, <2>1 DEF Direct, Nor!IsPN, Nor!IsLID, Nor!ToNonAD
  <2>3. AltOf(i) = Nor!NoJID \/ AltOf(i) = Nor!Other(i.sender)
    BY <1>3 DEF Direct, AltOf
  <2> QED BY <1>1, <1>3, <2>1, <2>2, <2>3, JIDs
<1> QED BY <1>2, <1>3

\* resolvePNFromStore
LEMMA Store ==
    ASSUME NEW u
    PROVE  /\ Nor!StorePN(Nor!LID(u)) = IF u \in known THEN Nor!PN(u) ELSE Nor!NoJID
           /\ Nor!StorePN(Nor!PN(u)) = Nor!NoJID
BY Kinds DEF Nor!StorePN

\* The chat of the payload, by the event's own fields: the contact's number or LID, its
\* number if the event gives it, with the device of the sender at most.
LEMMA ByAlt ==
    ASSUME NEW i, Direct(i)
    PROVE  \/ /\ Nor!IsPN(Nor!ChatByAlt(i)) /\ Nor!ToNonAD(Nor!ChatByAlt(i)) = Nor!PN(Contact(i))
              /\ \/ Nor!ChatByAlt(i) = Nor!PN(Contact(i))
                 \/ i.chat = Nor!LID(Contact(i)) /\ ~i.fromMe /\ Nor!ChatByAlt(i) = i.senderAlt
           \/ /\ Nor!ChatByAlt(i) = Nor!LID(Contact(i))
              /\ i.chat = Nor!LID(Contact(i)) /\ AltOf(i) = Nor!NoJID
<1>1. Nor!ChatByAlt(i) = IF Nor!IsLID(i.chat) /\ Nor!IsPN(AltOf(i)) THEN AltOf(i) ELSE i.chat
  BY DEF Nor!ChatByAlt, AltOf
<1>2. CASE i.chat = Nor!PN(Contact(i))
  BY <1>1, <1>2, Kinds
<1>3. CASE i.chat = Nor!LID(Contact(i)) /\ AltOf(i) = Nor!NoJID
  BY <1>1, <1>3, Kinds
<1>4. CASE i.chat = Nor!LID(Contact(i)) /\ AltOf(i) # Nor!NoJID
  <2>1. /\ Nor!IsPN(AltOf(i)) /\ Nor!ToNonAD(AltOf(i)) = Nor!PN(Contact(i))
        /\ i.fromMe => AltOf(i) = Nor!PN(Contact(i))
    BY <1>4, DirectChat, Kinds
  <2>2. Nor!ChatByAlt(i) = AltOf(i)
    BY <1>1, <1>4, <2>1, Kinds
  <2> QED BY <1>4, <2>1, <2>2 DEF AltOf
<1> QED BY <1>2, <1>3, <1>4, DirectChat

\* The chat of the payload is the contact's, under its number if that is known.
LEMMA ChatIsContacts ==
    ASSUME NEW i, Direct(i)
    PROVE  LET chat == Nor!ToNonAD(Nor!MessageChat(i))
           IN  /\ chat \in {Nor!PN(Contact(i)), Nor!LID(Contact(i))}
               /\ Contact(i) \in known => chat = Nor!PN(Contact(i))
               /\ Nor!MessageChat(i) # chat =>
                      i.chat = Nor!LID(Contact(i)) /\ ~i.fromMe /\ Nor!MessageChat(i) = i.senderAlt
               /\ chat = Nor!LID(Contact(i)) =>
                      /\ Nor!MessageChat(i) = Nor!LID(Contact(i))
                      /\ i.chat = Nor!LID(Contact(i)) /\ AltOf(i) = Nor!NoJID
<1>1. Nor!MessageChat(i) = IF Nor!IsLID(Nor!ChatByAlt(i)) /\ Nor!StorePN(Nor!ChatByAlt(i)) # Nor!NoJID
                           THEN Nor!StorePN(Nor!ChatByAlt(i)) ELSE Nor!ChatByAlt(i)
  BY DEF Nor!MessageChat
<1>2. CASE Nor!ChatByAlt(i) = Nor!LID(Contact(i))
  BY <1>1, <1>2, ByAlt, Store, Kinds
<1>3. CASE Nor!ChatByAlt(i) # Nor!LID(Contact(i))
  <2>1. /\ Nor!IsPN(Nor!ChatByAlt(i)) /\ Nor!ToNonAD(Nor!ChatByAlt(i)) = Nor!PN(Contact(i))
        /\ \/ Nor!ChatByAlt(i) = Nor!PN(Contact(i))
           \/ i.chat = Nor!LID(Contact(i)) /\ ~i.fromMe /\ Nor!ChatByAlt(i) = i.senderAlt
    BY <1>3, ByAlt
  <2>2. Nor!MessageChat(i) = Nor!ChatByAlt(i)
    BY <1>1, <2>1 DEF Nor!IsPN, Nor!IsLID
  <2> QED BY <2>1, <2>2, Kinds
<1> QED BY <1>2, <1>3

-----------------------------------------------------------------------------
(* What is told, and who is barred.                                         *)

\* A number that the event or the store gives is the payload's.
LEMMA NumberedChat ==
    ASSUME NEW i, Direct(i), Nor!Numbered(i)
    PROVE  Nor!ToNonAD(Nor!MessageChat(i)) = Nor!PN(Contact(i))
<1>1. ASSUME Contact(i) \notin known, Nor!ToNonAD(Nor!MessageChat(i)) = Nor!LID(Contact(i)) PROVE FALSE
  <2>1. PICK j \in {i.chat, i.senderAlt, i.recipientAlt} : Nor!IsPN(j) /\ j.user = Contact(i)
    BY <1>1 DEF Nor!Numbered, Contact
  <2>2. i.chat = Nor!LID(Contact(i)) /\ AltOf(i) = Nor!NoJID
    BY <1>1, ChatIsContacts
  <2>3. CASE i.fromMe
    <3>1. i.recipientAlt = Nor!NoJID
      BY <2>2, <2>3 DEF AltOf
    <3>2. i.sender = Nor!LID(Me)
      BY <2>2, <2>3 DEF Direct, Nor!LID, Nor!JID
    <3>3. Nor!LID(Me) \in Nor!Addresses({Me})
      BY DEF Nor!Addresses, Nor!LID, Nor!JID, Nor!Modes
    <3>4. i.senderAlt \in {Nor!NoJID, Nor!PN(Me)}
      BY <2>3, <3>2, <3>3, Kinds, Plain DEF Direct
    <3> QED BY <2>1, <2>2, <2>3, <3>1, <3>4, Kinds DEF Direct
  <2>4. CASE ~i.fromMe
    <3>1. i.recipientAlt = Nor!NoJID /\ i.senderAlt = Nor!NoJID
      BY <2>2, <2>4 DEF Direct, AltOf
    <3> QED BY <2>1, <2>2, <3>1, Kinds
  <2> QED BY <2>3, <2>4
<1> QED BY <1>1, ChatIsContacts

\* A number that is not given leaves the LID.
LEMMA UnnumberedChat ==
    ASSUME NEW i, Direct(i), ~Nor!Numbered(i), ~i.fromMe
    PROVE  Nor!ToNonAD(Nor!MessageChat(i)) = Nor!LID(Contact(i))
<1>1. Contact(i) \notin known /\ i.chat # Nor!PN(Contact(i))
  BY Kinds DEF Nor!Numbered, Contact
<1>2. i.chat = Nor!LID(Contact(i))
  BY <1>1, DirectChat
<1>3. AltOf(i) = Nor!NoJID
  <2>1. CASE Nor!IsPN(AltOf(i)) /\ Nor!ToNonAD(AltOf(i)) = Nor!PN(Contact(i))
    <3>1. AltOf(i) = i.senderAlt /\ Nor!IsPN(i.senderAlt)
      BY <2>1 DEF AltOf
    <3>2. i.senderAlt.user # Contact(i)
      BY <3>1 DEF Nor!Numbered, Contact
    <3>3. i.senderAlt = Nor!Other(i.sender)
      BY <3>1, Kinds DEF Direct
    <3>4. i.senderAlt.user = Contact(i)
      BY <3>3 DEF Direct, Nor!Other
    <3> QED BY <3>2, <3>4
  <2> QED BY <1>2, <2>1, DirectChat, Kinds
<1>4. Nor!ChatByAlt(i) = Nor!LID(Contact(i))
  BY <1>2, <1>3, Kinds DEF Nor!ChatByAlt, AltOf
<1> QED BY <1>1, <1>4, Store, Kinds DEF Nor!MessageChat

\* lidForEvent: the LID is the contact's, and the chat's if the chat is told by LID.
LEMMA LidIsContacts ==
    ASSUME NEW i, Direct(i)
    PROVE  /\ Nor!LidFor(i) \in {Nor!NoJID, Nor!LID(Contact(i))}
           /\ i.chat = Nor!LID(Contact(i)) => Nor!LidFor(i) = Nor!LID(Contact(i))
<1>1. CASE i.chat = Nor!LID(Contact(i))
  BY <1>1, Kinds DEF Nor!LidFor
<1>2. CASE i.chat = Nor!PN(Contact(i))
  <2>1. ~Nor!IsLID(i.chat) /\ ~Nor!IsLID(i.sender)
    BY <1>2, Kinds DEF Direct, Nor!PN, Nor!JID, Nor!IsLID, Nor!ToNonAD
  <2>2. Nor!LidFor(i) = IF Nor!IsLID(AltOf(i)) THEN Nor!ToNonAD(AltOf(i)) ELSE Nor!NoJID
    BY <2>1 DEF Nor!LidFor, AltOf
  <2> QED BY <1>2, <2>2, DirectChat, Kinds
<1> QED BY <1>1, <1>2, DirectChat

LEMMA AContactIsDirect == Direct(Nor!AContact) /\ ~Nor!AContact.isGroup
<1> DEFINE c == CHOOSE d \in Contacts : TRUE
<1>1. Nor!AContact = Nor!Source(Nor!PN(c), Nor!PN(c), Nor!NoJID, Nor!NoJID, FALSE)
  BY DEF Nor!AContact
<1> HIDE DEF c
<1>2. /\ Nor!PN(c) = [server |-> "pn", user |-> c, device |-> 0]
      /\ Nor!PN(c) \notin {Nor!Group, Nor!List}
  BY DEF Nor!PN, Nor!JID, Nor!Group, Nor!List
<1>3. /\ Nor!AContact.chat = Nor!PN(c) /\ Nor!AContact.sender = Nor!PN(c)
      /\ Nor!AContact.senderAlt = Nor!NoJID /\ Nor!AContact.recipientAlt = Nor!NoJID
      /\ Nor!AContact.fromMe = FALSE
      /\ Nor!AContact.isGroup = (Nor!PN(c) \in {Nor!Group, Nor!List})
  BY <1>1 DEF Nor!Source
<1>4. /\ Nor!PN(c) \in Nor!Addresses({c}) /\ Nor!PN(c).user = c
      /\ Nor!PN(c) \in [server : Nor!Modes, user : {c}, device : Nor!Devices]
      /\ Nor!ToNonAD(Nor!PN(c)) = Nor!PN(c)
  BY <1>2, Kinds DEF Nor!Modes, Nor!Addresses, Nor!Devices
<1>5. ~Nor!AContact.isGroup
  BY <1>2, <1>3
<1> QED BY <1>3, <1>4, <1>5 DEF Direct, Contact

LEMMA MessageTold ==
    ASSUME NEW i, NEW m, i.isGroup \/ Direct(i), Nor!OnMessage(i, m)
    PROVE  Nor!ThreadIsContacts'
<1>1. PICK r : Nor!Emit([kind |-> "message", source |-> i, content |-> m],
               [type |-> "message", chat |-> Nor!MessageChat(i), from |-> Nor!MessageFrom(i),
                lid |-> Nor!LidFor(i), recipients |-> Nor!Recipients(r), body |-> Nor!Body(m), raw |-> TRUE])
  BY DEF Nor!OnMessage
<1>2. /\ event'.kind = "message" /\ event'.source = i /\ known' = known
      /\ out'.type = "message" /\ out'.chat = Nor!MessageChat(i) /\ out'.lid = Nor!LidFor(i)
  BY <1>1 DEF Nor!Emit
<1>3. CASE i.isGroup
  BY <1>2, <1>3 DEF Nor!ThreadIsContacts
<1>4. CASE Direct(i)
  <2>1. Nor!Numbered(i)' => Nor!Numbered(i)
    BY <1>2 DEF Nor!Numbered
  <2> DEFINE chat == Nor!ToNonAD(Nor!MessageChat(i))
  <2>2. /\ chat \in {Nor!PN(Contact(i)), Nor!LID(Contact(i))}
        /\ Nor!MessageChat(i) # chat => Nor!IsLID(i.chat) /\ ~i.fromMe /\ Nor!MessageChat(i) = i.senderAlt
    BY <1>4, ChatIsContacts, Kinds
  <2>3. Nor!Numbered(i) => chat = Nor!PN(Contact(i))
    BY <1>4, NumberedChat
  <2>4. \/ Nor!LidFor(i) = Nor!LID(Contact(i))
        \/ Nor!LidFor(i) = Nor!NoJID /\ Nor!MessageChat(i) = Nor!PN(Contact(i))
    BY <1>4, ChatIsContacts, LidIsContacts, Kinds
  <2> QED BY <1>2, <2>1, <2>2, <2>3, <2>4 DEF Nor!ThreadIsContacts, Contact
<1> QED BY <1>3, <1>4

LEMMA OtherTold ==
    ASSUME NEW i, i.isGroup \/ Direct(i),
           \/ Nor!OnReaction(i) \/ Nor!OnHistoryNotice(i) \/ Nor!OnReceipt(i)
           \/ \E once \in BOOLEAN : Nor!OnUndecryptable(i, once)
    PROVE  Nor!ThreadIsContacts' /\ event'.kind # "message"
<1>1. CASE i.isGroup
  BY <1>1 DEF Nor!OnReaction, Nor!OnHistoryNotice, Nor!OnReceipt, Nor!OnUndecryptable, Nor!Emit,
              Nor!ThreadIsContacts
<1>2. CASE Nor!OnHistoryNotice(i) \/ Nor!OnReceipt(i)
  BY <1>2 DEF Nor!OnHistoryNotice, Nor!OnReceipt, Nor!Emit, Nor!ThreadIsContacts
<1>3. CASE Direct(i) /\ (Nor!OnReaction(i) \/ \E once \in BOOLEAN : Nor!OnUndecryptable(i, once))
  <2>1. /\ event'.kind \in {"reaction", "undecryptable"} /\ event'.source = i
        /\ out'.type = "ignore" \/ out'.chat = Nor!ChatByAlt(i)
    BY <1>3 DEF Nor!OnReaction, Nor!OnUndecryptable, Nor!Emit
  <2>2. /\ Nor!ToNonAD(Nor!ChatByAlt(i)) \in {Nor!PN(Contact(i)), Nor!LID(Contact(i))}
        /\ Nor!ChatByAlt(i) # Nor!ToNonAD(Nor!ChatByAlt(i)) =>
               Nor!IsLID(i.chat) /\ ~i.fromMe /\ Nor!ChatByAlt(i) = i.senderAlt
    BY <1>3, ByAlt, Kinds
  <2> QED BY <2>1, <2>2 DEF Nor!ThreadIsContacts, Contact
<1> QED BY <1>1, <1>2, <1>3

LEMMA TypingTold ==
    ASSUME NEW i, i.isGroup \/ Direct(i), Nor!OnChatPresence(i)
    PROVE  Nor!ThreadIsContacts' /\ event'.kind # "message"
<1>1. /\ event'.kind = "chatPresence" /\ event'.source = i /\ known' = known
      /\ out'.type = "chat_presence" /\ out'.chat = Nor!NumberOf(i.chat, Nor!NoJID)
  BY DEF Nor!OnChatPresence, Nor!Emit
<1>2. CASE i.isGroup
  BY <1>1, <1>2 DEF Nor!ThreadIsContacts
<1>3. CASE Direct(i)
  <2>1. /\ Nor!NumberOf(i.chat, Nor!NoJID) \in {Nor!PN(Contact(i)), Nor!LID(Contact(i))}
        /\ Contact(i) \in known => Nor!NumberOf(i.chat, Nor!NoJID) = Nor!PN(Contact(i))
    BY <1>3, DirectChat, Store, Kinds DEF Nor!NumberOf
  <2>2. Nor!ToNonAD(out'.chat) = out'.chat
    BY <1>1, <2>1, Kinds
  <2> QED BY <1>1, <2>1, <2>2 DEF Nor!ThreadIsContacts, Contact
<1> QED BY <1>2, <1>3
-----------------------------------------------------------------------------
(* What a message says.                                                     *)

LEMMA ContentFields ==
    ASSUME NEW m \in Nor!Contents
    PROVE  /\ m.what = "edit" => m.edit \in Nor!Edits
           /\ m.what = "click" => m.click \in Nor!Clicks
<1>1. Nor!Plain.what = "plain"
  BY DEF Nor!Plain
<1> QED BY <1>1 DEF Nor!Contents

LEMMA EditWhole ==
    ASSUME NEW e \in Nor!Edits
    PROVE  /\ Nor!Edited(e).id = "" <=> Nor!Edited(e).text = ""
           /\ e.decrypts /\ e.target /\ e.wraps <= Nor!maxUnwrapDepth => Nor!Edited(e).text = e.text
<1>1. e.text \in {"", "new"}
  BY DEF Nor!Edits
<1>2. CASE e.decrypts /\ Nor!EditedText(e) # "" /\ e.target
  BY <1>1, <1>2 DEF Nor!Edited, Nor!EditedText
<1>3. CASE ~(e.decrypts /\ Nor!EditedText(e) # "" /\ e.target)
  BY <1>1, <1>3 DEF Nor!Edited, Nor!EditedText
<1> QED BY <1>2, <1>3

LEMMA ClickWhole ==
    ASSUME NEW k \in Nor!Clicks, Nor!Readable(k)
    PROVE  /\ k.label # "" => Nor!ClickText(k) # ""
           /\ Nor!ClickId(k) = k.id
BY DEF Nor!Clicks, Nor!ClickText, Nor!ClickLabel, Nor!ClickId

LEMMA MessageWhole ==
    ASSUME NEW i, NEW m \in Nor!Contents, Nor!OnMessage(i, m)
    PROVE  Nor!NothingHalf'
<1>1. event'.kind = "message" /\ event'.content = m /\ out'.body = Nor!Body(m)
  BY DEF Nor!OnMessage, Nor!Emit
<1>2. ASSUME m.what = "edit"
      PROVE  /\ out'.body.id = "" <=> out'.body.text = ""
             /\ m.edit.decrypts /\ m.edit.target /\ m.edit.wraps <= Nor!maxUnwrapDepth
                    => out'.body.text = m.edit.text
  <2>1. Nor!Body(m) = Nor!Edited(m.edit)
    BY <1>2 DEF Nor!Body
  <2> QED BY <1>1, <1>2, <2>1, ContentFields, EditWhole
<1>3. ASSUME m.what = "click", Nor!Readable(m.click)
      PROVE  /\ m.click.label # "" => out'.body.text # ""
             /\ out'.body.selectedId = m.click.id
  <2>1. /\ Nor!Body(m).text = Nor!ClickText(m.click)
        /\ Nor!Body(m).selectedId = Nor!ClickId(m.click)
    BY <1>3 DEF Nor!Body
  <2> QED BY <1>1, <1>3, <2>1, ContentFields, ClickWhole
<1> QED BY <1>1, <1>2, <1>3 DEF Nor!NothingHalf
-----------------------------------------------------------------------------
(* The invariant, step by step.                                             *)

NorInv == Nor!ThreadIsContacts /\ Nor!ReplyReleases /\ Nor!NothingHalf

LEMMA NorInitInv == Nor!Init => NorInv
BY DEF Nor!Init, Nor!Nothing, NorInv, Nor!ThreadIsContacts, Nor!ReplyReleases, Nor!NothingHalf

\* A contact that has answered is no longer barred under the address it answered from.
LEMMA AnswerReleases ==
    ASSUME NorInv, NEW i, NEW m, i.isGroup \/ Direct(i), Nor!OnMessage(i, m)
    PROVE  Nor!ReplyReleases'
<1>1. CASE i.fromMe
  BY <1>1 DEF Nor!OnMessage, Nor!Quiet, NorInv, Nor!ReplyReleases
<1>2. CASE ~i.fromMe
  <2>1. blocked' = blocked \ {Nor!ToNonAD(Nor!MessageChat(i))} /\ Nor!Writes(i)
    BY <1>2 DEF Nor!OnMessage, Nor!Release
  <2>2. CASE i.isGroup
    BY <2>1, <2>2 DEF Nor!Writes, NorInv, Nor!ReplyReleases
  <2>3. CASE Direct(i) /\ ~i.isGroup
    <3>1. replied' = replied \cup {Nor!ToNonAD(Nor!MessageChat(i))}
      BY <1>2, <2>1, <2>3, NumberedChat, UnnumberedChat DEF Nor!Writes, Contact
    <3> QED BY <2>1, <3>1 DEF NorInv, Nor!ReplyReleases
  <2> QED BY <2>2, <2>3
<1> QED BY <1>1, <1>2

LEMMA QuietReleases ==
    ASSUME NorInv, Nor!Quiet
    PROVE  Nor!ReplyReleases'
BY DEF NorInv, Nor!ReplyReleases, Nor!Quiet

\* An event without a conversation.
Aside == /\ Nor!Quiet
         /\ event'.kind \notin {"message", "reaction", "undecryptable", "chatPresence"}

LEMMA AsideKeeps ==
    ASSUME NorInv, Aside
    PROVE  NorInv'
BY QuietReleases DEF NorInv, Aside, Nor!ThreadIsContacts, Nor!NothingHalf

LEMMA HandledKeeps ==
    ASSUME NorInv, Nor!Handled
    PROVE  NorInv'
<1>1. ASSUME NEW i \in Nor!Sources,
             \/ Nor!OnReaction(i) \/ Nor!OnHistoryNotice(i) \/ Nor!OnReceipt(i)
             \/ \E once \in BOOLEAN : Nor!OnUndecryptable(i, once)
             \/ Nor!OnChatPresence(i)
      PROVE  NorInv'
  <2>1. i.isGroup \/ Direct(i)
    BY SourcesAreDirect
  <2>2. Nor!Quiet
    BY <1>1 DEF Nor!OnReaction, Nor!OnHistoryNotice, Nor!OnReceipt, Nor!OnUndecryptable,
                Nor!OnChatPresence
  <2>3. Nor!ThreadIsContacts' /\ event'.kind # "message"
    BY <1>1, <2>1, OtherTold, TypingTold
  <2> QED BY <2>2, <2>3, QuietReleases DEF NorInv, Nor!NothingHalf
<1>2. ASSUME NEW i \in Nor!Sources, Nor!OnMessage(i, Nor!Plain) PROVE NorInv'
  <2>1. i.isGroup \/ Direct(i)
    BY SourcesAreDirect
  <2>2. Nor!Plain \in Nor!Contents
    BY DEF Nor!Contents
  <2> QED BY <1>2, <2>1, <2>2, MessageTold, AnswerReleases, MessageWhole DEF NorInv
<1>3. ASSUME NEW m \in Nor!Contents, Nor!OnMessage(Nor!AContact, m) PROVE NorInv'
  BY <1>3, AContactIsDirect, MessageTold, AnswerReleases, MessageWhole DEF NorInv
<1>4. ASSUME NEW j, Nor!OnPresence(j) \/ \E b \in BOOLEAN : Nor!OnContact(j, b) PROVE NorInv'
  BY <1>4, AsideKeeps DEF Nor!OnPresence, Nor!OnContact, Nor!Emit, Aside
<1>5. ASSUME NEW t, Nor!OnOther(t) PROVE NorInv'
  BY <1>5, AsideKeeps DEF Nor!OnOther, Nor!Emit, Aside
<1>6. ASSUME NEW t, NEW j, NEW alt, NEW by, Nor!OnCall(t, j, alt, by) PROVE NorInv'
  BY <1>6, AsideKeeps DEF Nor!OnCall, Nor!Emit, Aside
<1>7. ASSUME NEW j, Nor!OnCallState(j) PROVE NorInv'
  BY <1>7, AsideKeeps DEF Nor!OnCallState, Nor!Emit, Aside
<1> QED BY <1>1, <1>2, <1>3, <1>4, <1>5, <1>6, <1>7 DEF Nor!Handled

LEMMA NorKeeps == NorInv /\ Nor!Next => NorInv'
<1> SUFFICES ASSUME NorInv, Nor!Next PROVE NorInv'
  OBVIOUS
<1>1. CASE Nor!Handled
  BY <1>1, HandledKeeps
<1>2. CASE Nor!Unheard \/ Nor!Return
  <2>1. event'.kind \in {"unheard", "none"} /\ UNCHANGED <<blocked, replied>>
    BY <1>2 DEF Nor!Unheard, Nor!Return, Nor!Nothing
  <2> QED BY <2>1 DEF NorInv, Nor!ThreadIsContacts, Nor!NothingHalf, Nor!ReplyReleases
<1>3. CASE Nor!SetWebhook \/ \E u \in Nor!Users : Nor!Learn(u)
  <2>1. event' = Nor!Nothing /\ UNCHANGED <<blocked, replied>>
    BY <1>3 DEF Nor!SetWebhook, Nor!Learn, Nor!Elsewhere
  <2> QED BY <2>1 DEF Nor!Nothing, NorInv, Nor!ThreadIsContacts, Nor!NothingHalf, Nor!ReplyReleases
<1>4. ASSUME NEW j \in Nor!Addresses(Contacts), Nor!Refuse(j) PROVE NorInv'
  BY <1>4 DEF Nor!Refuse, Nor!Elsewhere, Nor!Nothing, NorInv, Nor!ThreadIsContacts,
              Nor!NothingHalf, Nor!ReplyReleases
<1> QED BY <1>1, <1>2, <1>3, <1>4 DEF Nor!Next
-----------------------------------------------------------------------------
(* Types.  The chats of a payload are the event's, or the contact's number.  *)

Chats == {Nor!NoJID, Nor!Group, Nor!List} \cup Nor!Addresses(Nor!Users)

\* What the handlers read of an event's source.
Typed(i) ==
    /\ i.chat \in Chats /\ i.sender \in Nor!Persons
    /\ i.isGroup => i.chat \in {Nor!Group, Nor!List}
    /\ i.senderAlt \in Nor!Alts /\ i.recipientAlt \in Nor!Alts
    /\ i.isGroup \/ Contact(i) \in Contacts

LEMMA AddressOf ==
    ASSUME NEW U, NEW s \in Nor!Modes, NEW u \in U
    PROVE  Nor!JID(s, u) \in Nor!Addresses(U)
BY DEF Nor!JID, Nor!Addresses

\* Without its device the JID of a person is an address.
LEMMA Stripped ==
    ASSUME NEW j \in Nor!Alts \cup Chats
    PROVE  Nor!ToNonAD(j) \in Chats
<1>1. CASE j \in Nor!Persons
  <2>1. Nor!ToNonAD(j) = [server |-> j.server, user |-> j.user, device |-> 0]
    BY <1>1 DEF Nor!ToNonAD, Nor!Persons
  <2> QED BY <1>1, <2>1 DEF Nor!Persons, Nor!Addresses, Chats
<1>2. CASE j \in Nor!Addresses(Nor!Users)
  <2>1. Nor!ToNonAD(j) = j
    BY <1>2 DEF Nor!ToNonAD, Nor!Addresses
  <2> QED BY <1>2, <2>1 DEF Chats
<1>3. CASE j \in {Nor!NoJID, Nor!Group, Nor!List}
  <2>1. Nor!ToNonAD(j) = j
    BY <1>3 DEF Nor!ToNonAD, Nor!NoJID, Nor!Group, Nor!List, Nor!JID
  <2> QED BY <1>3, <2>1 DEF Chats
<1> QED BY <1>1, <1>2, <1>3 DEF Nor!Alts, Chats

LEMMA SourcesAreTyped ==
    ASSUME NEW i \in Nor!Sources
    PROVE  Typed(i)
<1>1. CASE i \in Nor!Inbound
  <2>1. PICK j \in [server : Nor!Modes, user : Contacts, device : Nor!Devices], a \in Nor!Alts :
            i = Nor!Source(Nor!ToNonAD(j), j, a, Nor!NoJID, FALSE)
    BY <1>1 DEF Nor!Inbound, Nor!Source, Nor!ToNonAD, Nor!NoJID, Nor!JID
  <2>2. /\ i.chat = Nor!ToNonAD(j) /\ i.sender = j /\ i.senderAlt = a /\ i.recipientAlt = Nor!NoJID
        /\ i.isGroup = (Nor!ToNonAD(j) \in {Nor!Group, Nor!List})
    BY <2>1 DEF Nor!Source
  <2>3. j \in Nor!Persons /\ j.user \in Contacts
    BY DEF Nor!Persons, Nor!Users
  <2>4. i.chat \in Chats /\ i.chat.user = j.user
    BY <2>2, <2>3, Stripped DEF Nor!Alts, Nor!ToNonAD
  <2> QED BY <2>2, <2>3, <2>4 DEF Typed, Contact, Nor!Alts
<1>2. CASE i \in Nor!Outgoing
  <2>1. PICK j \in Nor!Addresses(Contacts), a \in Nor!Alts, b \in Nor!Alts :
            i = Nor!Source(j, Nor!JID(j.server, Me), a, b, TRUE)
    BY <1>2 DEF Nor!Outgoing, Nor!Source, Nor!JID, Nor!Addresses
  <2>2. /\ i.chat = j /\ i.sender = Nor!JID(j.server, Me)
        /\ i.senderAlt = a /\ i.recipientAlt = b
        /\ i.isGroup = (j \in {Nor!Group, Nor!List})
    BY <2>1 DEF Nor!Source
  <2>3. j \in Nor!Addresses(Nor!Users) /\ j.user \in Contacts /\ j.server \in Nor!Modes
    BY DEF Nor!Addresses, Nor!Users
  <2>4. Nor!JID(j.server, Me) \in Nor!Persons
    BY <2>3 DEF Nor!JID, Nor!Persons, Nor!Users, Nor!Devices
  <2> QED BY <2>2, <2>3, <2>4 DEF Typed, Contact, Chats
<1>3. CASE i \in Nor!Grouped
  <2>1. PICK g \in {Nor!Group, Nor!List}, j \in Nor!Persons, a \in Nor!Alts :
            i = Nor!Source(g, j, a, Nor!NoJID, j.user = Me)
    BY <1>3 DEF Nor!Grouped
  <2>2. /\ i.chat = g /\ i.sender = j /\ i.senderAlt = a /\ i.recipientAlt = Nor!NoJID
        /\ i.isGroup = (g \in {Nor!Group, Nor!List})
    BY <2>1 DEF Nor!Source
  <2> QED BY <2>1, <2>2 DEF Typed, Chats, Nor!Alts
<1> QED BY <1>1, <1>2, <1>3 DEF Nor!Sources

LEMMA AContactIsTyped == Typed(Nor!AContact)
<1> DEFINE c == CHOOSE d \in Contacts : TRUE
<1>1. Nor!AContact = Nor!Source(Nor!PN(c), Nor!PN(c), Nor!NoJID, Nor!NoJID, FALSE)
  BY DEF Nor!AContact
<1>2. c \in Contacts
  BY RecipientsAssumption
<1> HIDE DEF c
<1>3. Nor!PN(c) \in Nor!Addresses(Nor!Users) /\ Nor!PN(c).user = c
  BY <1>2, AddressOf DEF Nor!PN, Nor!JID, Nor!Modes, Nor!Users
<1>4. Nor!PN(c) \in Nor!Persons
  BY <1>3 DEF Nor!Addresses, Nor!Persons, Nor!Devices
<1>5. /\ Nor!AContact.chat = Nor!PN(c) /\ Nor!AContact.sender = Nor!PN(c)
      /\ Nor!AContact.senderAlt = Nor!NoJID /\ Nor!AContact.recipientAlt = Nor!NoJID
  BY <1>1 DEF Nor!Source
<1> QED BY <1>2, <1>3, <1>4, <1>5, AContactIsDirect DEF Typed, Contact, Chats, Nor!Alts

\* resolvePNFromStore
LEMMA StoreTyped ==
    ASSUME NEW j \in Chats \cup Nor!Alts
    PROVE  Nor!StorePN(j) \in Chats
<1>1. CASE Nor!IsLID(j)
  <2>1. j \in Nor!Persons \cup Nor!Addresses(Nor!Users)
    BY <1>1 DEF Chats, Nor!Alts, Nor!IsLID, Nor!NoJID, Nor!Group, Nor!List, Nor!JID
  <2>2. j.user \in Nor!Users
    BY <2>1 DEF Nor!Persons, Nor!Addresses
  <2>3. Nor!PN(j.user) \in Nor!Addresses(Nor!Users)
    BY <2>2, AddressOf DEF Nor!PN, Nor!Modes
  <2> QED BY <2>3 DEF Nor!StorePN, Chats
<1>2. CASE ~Nor!IsLID(j)
  BY <1>2 DEF Nor!StorePN, Chats
<1> QED BY <1>1, <1>2

LEMMA ChatTyped ==
    ASSUME NEW i, Typed(i)
    PROVE  Nor!ToNonAD(Nor!MessageChat(i)) \in Chats
<1>1. Nor!ChatByAlt(i) \in Chats \cup Nor!Alts
  BY DEF Nor!ChatByAlt, Typed
<1>2. Nor!StorePN(Nor!ChatByAlt(i)) \in Chats
  BY <1>1, StoreTyped
<1>3. Nor!MessageChat(i) \in Chats \cup Nor!Alts
  BY <1>1, <1>2 DEF Nor!MessageChat
<1> QED BY <1>3, Stripped

LEMMA ConfirmedTyped ==
    ASSUME NEW i, Typed(i)
    PROVE  /\ Nor!ToNonAD(Nor!Confirmed(i)) \in Chats
           /\ Nor!ToNonAD(Nor!FirstPN(i.sender, Nor!NoJID)) \in Chats
<1>1. Nor!NoJID \in Nor!Alts /\ i.sender \in Nor!Alts
  BY DEF Typed, Nor!Alts
<1>2. Nor!Confirmed(i) \in Nor!Alts \cup Chats
  BY <1>1 DEF Typed, Nor!Confirmed, Nor!FirstPN
<1>3. Nor!FirstPN(i.sender, Nor!NoJID) \in Nor!Alts
  BY <1>1 DEF Nor!FirstPN
<1> QED BY <1>2, <1>3, Stripped

NorTypes ==
    /\ known \subseteq Nor!Users /\ webhook \in BOOLEAN
    /\ blocked \subseteq Nor!Addresses(Contacts) /\ replied \subseteq Nor!Addresses(Contacts)
    /\ inbound \in Chats /\ confirmed \in Chats

LEMMA NorTypesImply == NorTypes => Nor!TypeOK
BY DEF NorTypes, Nor!TypeOK, Chats

LEMMA NorTypesInit == Nor!Init => NorTypes
BY DEF Nor!Init, NorTypes, Chats

LEMMA HandledTypes ==
    ASSUME NorTypes, Nor!Handled
    PROVE  NorTypes'
<1> USE DEF NorTypes, Nor!Emit, Nor!Confirm, Nor!Quiet
<1>1. ASSUME NEW i, NEW m, Typed(i), Nor!OnMessage(i, m) PROVE NorTypes'
  <2>1. UNCHANGED <<known, webhook>>
    BY <1>1 DEF Nor!OnMessage
  <2>2. confirmed' \in Chats
    BY <1>1, ConfirmedTyped DEF Nor!OnMessage
  <2>3. /\ inbound' \in Chats /\ blocked' \subseteq blocked
        /\ \/ replied' = replied
           \/ ~i.isGroup /\ replied' = replied \cup {Nor!PN(Contact(i))}
           \/ ~i.isGroup /\ replied' = replied \cup {Nor!LID(Contact(i))}
    BY <1>1, ChatTyped DEF Nor!OnMessage, Nor!Release, Nor!Writes, Contact
  <2>4. ~i.isGroup => {Nor!PN(Contact(i)), Nor!LID(Contact(i))} \subseteq Nor!Addresses(Contacts)
    BY <1>1, AddressOf DEF Typed, Nor!PN, Nor!LID, Nor!Modes
  <2>5. replied' \subseteq Nor!Addresses(Contacts)
    BY <2>3, <2>4
  <2> QED BY <2>1, <2>2, <2>3, <2>5
<1>2. ASSUME NEW i \in Nor!Sources,
             \/ Nor!OnReaction(i) \/ Nor!OnHistoryNotice(i) \/ Nor!OnReceipt(i)
             \/ \E once \in BOOLEAN : Nor!OnUndecryptable(i, once)
             \/ Nor!OnChatPresence(i)
      PROVE  NorTypes'
  <2>1. UNCHANGED <<known, webhook, blocked, replied, inbound>>
    BY <1>2 DEF Nor!OnReaction, Nor!OnHistoryNotice, Nor!OnReceipt, Nor!OnUndecryptable,
                Nor!OnChatPresence
  <2>2. confirmed' \in {confirmed, Nor!ToNonAD(Nor!Confirmed(i)), Nor!ToNonAD(Nor!NoJID),
                        Nor!ToNonAD(Nor!FirstPN(i.sender, Nor!NoJID))}
    BY <1>2 DEF Nor!OnReaction, Nor!OnHistoryNotice, Nor!OnReceipt, Nor!OnUndecryptable,
                Nor!OnChatPresence
  <2>3. Nor!ToNonAD(Nor!NoJID) \in Chats
    BY Stripped DEF Chats
  <2> QED BY <2>1, <2>2, <2>3, SourcesAreTyped, ConfirmedTyped
<1>3. ASSUME NEW c \in Contacts, NEW s \in Nor!Modes,
             Nor!OnPresence(Nor!JID(s, c)) \/ \E b \in BOOLEAN : Nor!OnContact(Nor!JID(s, c), b)
      PROVE  NorTypes'
  <2>1. UNCHANGED <<known, webhook, blocked, replied, inbound>>
    BY <1>3 DEF Nor!OnPresence, Nor!OnContact
  <2>2. confirmed' \in {confirmed, Nor!ToNonAD(Nor!FirstPN(Nor!JID(s, c), Nor!NoJID))}
    BY <1>3 DEF Nor!OnPresence, Nor!OnContact
  <2>3. Nor!ToNonAD(Nor!FirstPN(Nor!JID(s, c), Nor!NoJID)) \in Chats
    BY AddressOf, Stripped DEF Nor!FirstPN, Chats, Nor!Users
  <2> QED BY <2>1, <2>2, <2>3
<1>4. ASSUME NEW t, Nor!OnOther(t) PROVE NorTypes'
  BY <1>4 DEF Nor!OnOther
<1>5. ASSUME NEW t, NEW j, NEW alt, NEW by, Nor!OnCall(t, j, alt, by) PROVE NorTypes'
  BY <1>5 DEF Nor!OnCall
<1>6. ASSUME NEW j, Nor!OnCallState(j) PROVE NorTypes'
  BY <1>6 DEF Nor!OnCallState
<1> QED
  BY <1>1, <1>2, <1>3, <1>4, <1>5, <1>6, SourcesAreTyped, AContactIsTyped DEF Nor!Handled

LEMMA NorTypesKept == NorTypes /\ Nor!Next => NorTypes'
<1> SUFFICES ASSUME NorTypes, Nor!Next PROVE NorTypes'
  OBVIOUS
<1>1. CASE Nor!Handled
  BY <1>1, HandledTypes
<1>2. CASE Nor!Unheard \/ Nor!Return \/ Nor!SetWebhook
  BY <1>2 DEF NorTypes, Chats, Nor!Unheard, Nor!Return, Nor!SetWebhook
<1>3. ASSUME NEW u \in Nor!Users, Nor!Learn(u) PROVE NorTypes'
  BY <1>3 DEF NorTypes, Nor!Learn
<1>4. ASSUME NEW j \in Nor!Addresses(Contacts), Nor!Refuse(j) PROVE NorTypes'
  BY <1>4 DEF NorTypes, Nor!Refuse
<1> QED BY <1>1, <1>2, <1>3, <1>4 DEF Nor!Next
-----------------------------------------------------------------------------
LEMMA NorBridgeInit == BridgeInit => NorInv
BY NorInitInv DEF BridgeInit

LEMMA NorBridgeKeeps == NorInv /\ [BridgeNext]_vars => NorInv'
<1> SUFFICES ASSUME NorInv, [BridgeNext]_vars PROVE NorInv'
  OBVIOUS
<1>1. Nor!Next \/ UNCHANGED norVars
  BY DEF BridgeNext, vars
<1>2. CASE UNCHANGED norVars
  BY <1>2 DEF norVars, NorInv, Nor!ThreadIsContacts, Nor!Numbered, Nor!NothingHalf, Nor!ReplyReleases
<1> QED BY <1>1, <1>2, NorKeeps

\* An event of a contact is told in the contact's conversation, under its number as soon
\* as the event or the store gives it, and never in the account's own.  A device stays in the
\* chat in one case only, of a SenderAlt that has it, and the contact's LID is named then
\* (normalizer.go: the chat of a Message, resolvePNFromStore, lidForEvent).
THEOREM ThreadAlwaysContacts == BridgeSpec => []ThreadIsContacts
<1>1. NorInv => ThreadIsContacts
  BY DEF NorInv, ThreadIsContacts
<1> QED BY <1>1, NorBridgeInit, NorBridgeKeeps, PTL DEF BridgeSpec

\* A contact that has answered since is not barred under its number if the event or the
\* store gives it, and under its LID if neither does, from whichever device the answer came
\* (normalizer.go: ReleaseReachoutOnInbound with the chat of the payload).
THEOREM ReplyAlwaysReleases == BridgeSpec => []ReplyReleases
<1>1. NorInv => ReplyReleases
  BY DEF NorInv, ReplyReleases
<1> QED BY <1>1, NorBridgeInit, NorBridgeKeeps, PTL DEF BridgeSpec

\* The id and the text of an edit are told together, as are the text and id of an answer
\* to buttons or a list that can be read (edited_text.go; event_handler.go).
THEOREM NothingIsHalf == BridgeSpec => []NothingHalf
<1>1. NorInv => NothingHalf
  BY DEF NorInv, NothingHalf
<1> QED BY <1>1, NorBridgeInit, NorBridgeKeeps, PTL DEF BridgeSpec
=============================================================================
