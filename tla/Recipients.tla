------------------------------ MODULE Recipients ------------------------------
(***************************************************************************)
(* How a chat is named on the command line (internal/wa/helpers.go): `send'  *)
(* and `messages --chat' take a phone number as a person writes it, or a    *)
(* JID as another command returned it.  A text is a sequence of characters: *)
(* digits, separators, "@" and, for brevity, the name of a server as one.   *)
(* The store keeps JIDs as whatsmeow prints them.                           *)
(***************************************************************************)
EXTENDS MessageStore

CONSTANTS
    Separator,       \* characters of a number that are neither digits nor "@"
    At,
    Server,          \* the part of a JID after the "@"
    UserServer,      \* the server of phone numbers
    MinPhoneDigits,
    Invalid          \* the error of a text that names no chat

Digit == 0..9

JID == [user : Seq(Digit), server : Server]

ASSUME RecipientAssumption ==
    /\ Chat \subseteq JID
    /\ UserServer \in Server
    /\ At \notin Separator \cup Digit \cup Server
    /\ Separator \cap Digit = {}
    /\ MinPhoneDigits \in Nat \ {0}
    /\ Invalid \notin JID \cup Seq(Digit)

(* How many digits stand before the i-th character. *)
DigitsBefore(s, i) == Cardinality({j \in 1..(i - 1) : s[j] \in Digit})

(* The digits, in the order they stand in. *)
Digits(s) ==
    [n \in 1..DigitsBefore(s, Len(s) + 1) |->
        s[CHOOSE i \in DOMAIN s : s[i] \in Digit /\ DigitsBefore(s, i) = n - 1]]

TrimZeros(s) ==
    SubSeq(s, Min({i \in DOMAIN s : s[i] # 0} \cup {Len(s) + 1}), Len(s))

\* Mutant: leading zeros are trimmed before the rest is removed.
NormalizeDigitsTrimmedFirst(s) == Digits(TrimZeros(s))

(* The digits, from the first that is not zero. *)
NormalizeDigits(s) == TrimZeros(Digits(s))

NormalizePhone(s) ==
    LET digits == NormalizeDigits(s)
    IN  IF Len(digits) < MinPhoneDigits THEN Invalid ELSE digits

(* whatsmeow's JID.String and ParseJID; a text of another form is an error. *)
String(jid) == jid.user \o <<At, jid.server>>

ParseJID(s) ==
    LET at == CHOOSE i \in DOMAIN s : s[i] = At
        jid == [user |-> SubSeq(s, 1, at - 1), server |-> s[at + 1]]
    IN  IF Len(s) = at + 1 /\ jid \in JID THEN jid ELSE Invalid

(* Either error is passed on. *)
ParseRecipient(s) ==
    IF At \in ToSet(s) THEN ParseJID(s)
    ELSE IF NormalizePhone(s) = Invalid THEN Invalid
    ELSE [user |-> NormalizePhone(s), server |-> UserServer]

(* The chat of a phone number in international form.                        *)
IsNumber(jid) ==
    jid.server = UserServer /\ Len(jid.user) >= MinPhoneDigits /\ jid.user[1] # 0

(* Such a number as people write it: up to two zeros before it, one         *)
(* separator somewhere.                                                     *)
Spellings(jid) ==
    IF ~IsNumber(jid) THEN {}
    ELSE {InsertAt(zeros \o jid.user, i, x) :
             zeros \in {<<>>, <<0>>, <<0, 0>>}, i \in 1..(Len(jid.user) + 1), x \in Separator}

-----------------------------------------------------------------------------
(* Asked for by that name, `messages' lists the message the overview         *)
(* previews last and as many unread ones as the overview counted.           *)
AnswersTo(entry, name) ==
    LET listed(unread) == List(table, Browse(ParseRecipient(name), unread))
    IN  /\ Len(listed(TRUE)) = entry.unread
        /\ listed(FALSE) # <<>>
        /\ Last(listed(FALSE)) = entry.last

(* A chat answers to each of its names: to the JID that the overview        *)
(* returned ("use the returned jid verbatim", SKILL.md) and, if it is a     *)
(* person's, to its number with up to two zeros before it and one separator *)
(* anywhere in it (helpers.go, daemon.go: messages; store.go: Chats).       *)
ChatsAnswerToTheirNames ==
    \A entry \in ToSet(Overview(table, Cardinality(DOMAIN table))) :
        \A name \in {String(entry.jid)} \cup Spellings(entry.jid) :
            AnswersTo(entry, name)
=============================================================================
