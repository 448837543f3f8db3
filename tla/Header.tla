-------------------------------- MODULE Header --------------------------------
(***************************************************************************)
(* What becomes of a subscription and of a publication between the         *)
(* application and the matching engine: the library writes their header    *)
(* (scbr_api.cpp) and wraps it in a Message (message.cpp), the enclave     *)
(* decrypts it in a buffer of 512 bytes (CBR_Enclave_Filter.cpp), splits   *)
(* and parses it (cbr.cc), and the receiver of a publication reads the     *)
(* copy of the header that travels in the payload (scbr_api.cpp).          *)
(*                                                                         *)
(* A header is a sequence of fields, separated by one space each: words,   *)
(* decimals (in tenths) and words in base64.  Its length is counted in     *)
(* bytes.  A cipher stands for its contents.  No key, word or base64 text  *)
(* contains the letter i, for which fillattributes searches.               *)
(***************************************************************************)
EXTENDS Integers, Sequences, SequencesExt, FiniteSets

CONSTANTS
    KeyOrder,       \* the attribute names, in the order of std::map
    Spelled,        \* the fields a name consists of: a name may hold a space
    KeyWidths,      \* the sets of names that are considered, with their lengths
    Numbers,        \* the values of attributes and predicates, in tenths
    Words,          \* the textual ones; "" is the empty text
    WordWidth,      \* the length of their base64
    Leading,        \* the number that their base64 starts with
    DigitFirst,     \* the words whose base64 starts with a digit
    Ops,            \* the comparison operators in use
    MaxEntries,     \* bound: predicates and attributes together
    MaxVaried,      \* bound: the same, where payloads and several sends vary
    MaxSends,       \* bound: calls of send for a publication
    MaxSeals,       \* bound: calls of encrypt_payload
    NoMessage, NotYet, Ignored  \* what variables hold in place of a message
                                \* or of a subscription of the engine

Keys == Range(KeyOrder)

ASSUME HeaderAssumption ==
    /\ IsInjective(KeyOrder)
    /\ \A w \in KeyWidths : DOMAIN w \subseteq Keys /\ Range(w) \subseteq Nat
    /\ Numbers \subseteq Int /\ DigitFirst \subseteq Words
    /\ Leading \in [Words -> Nat] /\ WordWidth \in [Words -> Nat]
    /\ Ops \subseteq {"EQ", "LT", "GT", "LE", "GE"}

VARIABLES
    keyWidth,   \* the names in use and their lengths, in bytes
    hpayload,   \* hpayload_ of the publications: the header travels twice
    sub,        \* data_ of the library's Subscription
    pub,        \* data_ and payload_ of the library's Publication
    sends,      \* the publications sent
    seals,      \* the calls of encrypt_payload
    meant,      \* the publication as it was when it was sent last
    wire,       \* the message that the router is given, or NoMessage
    stored,     \* the engine's subscription, NotYet, or Ignored by its parser
    read,       \* the fields that the engine read of the last publication
    stray,      \* a parser has read beyond its vector: anything may follow
    notified,   \* did the last publication match?
    mail,       \* the payload on its way to the subscriber, or NoMessage
    got         \* the Publication that the subscriber reads, and how it ended

vars == <<keyWidth, hpayload, sub, pub, sends, seals, meant, wire, stored,
          read, stray, notified, mail, got>>

E == INSTANCE Subscription WITH
        Key <- {[text |-> w] : w \in UNION {Range(Spelled[k]) : k \in Keys}
                                     \cup {"i", "stub"}}
               \cup {[tenths |-> t] : t \in Numbers} \cup {[b64 |-> w] : w \in Words}

Text(s) == [text |-> s]
I == Text("i")
Gap == Text("")     \* what stands between two spaces
Values == {[tenths |-> t] : t \in Numbers} \cup {[word |-> w] : w \in Words}

Put(f, k, v) == [x \in DOMAIN f \cup {k} |-> IF x = k THEN v ELSE f[x]]
EmptyMap == [k \in {} |-> Gap]
InOrder(f) == SelectSeq(KeyOrder, LAMBDA k : k \in DOMAIN f)

-----------------------------------------------------------------------------
(* Lengths.                                                                *)

Digits(t) == LET n == IF t < 0 THEN -t ELSE t IN IF n >= 1000 THEN 3 ELSE IF n >= 100 THEN 2 ELSE 1

\* std::to_string(double): a sign, the digits, a point and six decimals.
NumeralWidth(t) == (IF t < 0 THEN 1 ELSE 0) + Digits(t) + 7

\* The length of a name of several words counts its spaces once, in its first.
NameWidth(w) ==
    LET of == {k \in DOMAIN keyWidth : Spelled[k][1] = w}
    IN  IF of = {} THEN 1 ELSE keyWidth[CHOOSE k \in of : TRUE]

Width(f) ==
    IF "tenths" \in DOMAIN f THEN NumeralWidth(f.tenths)
    ELSE IF "b64" \in DOMAIN f THEN WordWidth[f.b64]
    ELSE IF f.text \in {"<=", ">="} THEN 2 ELSE IF f = Gap THEN 0 ELSE NameWidth(f.text)

HeaderWidth(h) == FoldLeft(LAMBDA n, f : n + Width(f), Len(h) - 1, h)

-----------------------------------------------------------------------------
(* The library: how a header is written.                                   *)

\* attribute and predicate: a double becomes a decimal, a text its base64.
Encoded(v) ==
    IF v = [word |-> ""] THEN Gap ELSE IF "word" \in DOMAIN v THEN [b64 |-> v.word] ELSE v

Name(k) == [i \in 1 .. Len(Spelled[k]) |-> Text(Spelled[k][i])]

\* (Slip: the bound of <= is written as a strict one.)
OpTextStrict(op) ==
    CASE op = "EQ" -> "=" [] op \in {"LT", "LE"} -> "<" [] op = "GT" -> ">" [] op = "GE" -> ">="

OpText(op) ==
    CASE op = "EQ" -> "=" [] op = "LT" -> "<" [] op = "GT" -> ">"
      [] op = "LE" -> "<=" [] op = "GE" -> ">="

\* Subscription::serialize and Publication::serialize, the header.
SubHeader ==
    <<Text("0"), Text("id"), Text("S")>> \o
    FlattenSeq([i \in 1 .. Len(InOrder(sub)) |->
        LET k == InOrder(sub)[i]
        IN  <<I>> \o Name(k) \o <<Text(OpText(sub[k].op)), sub[k].val>>])

PubHeader ==
    <<Text("0"), Text("0"), Text("P")>> \o
    FlattenSeq([i \in 1 .. Len(InOrder(pub.data)) |->
        LET k == InOrder(pub.data)[i] IN <<I>> \o Name(k) \o <<pub.data[k]>>])

\* The cipher of a header is its initial vector and as many bytes as it has.
CipherWidth(h) == 16 + HeaderWidth(h)

\* Message::Message, setpub and setsub, as they come out of Message::parse:
\* the flags ENC_HEADER, PUB_BIT and SUB_BIT, the header, and the payload.
AsMessage(kind, h, p) ==
    [flags |-> 1 + (IF kind = "pub" THEN 2 ELSE 4), header |-> h, payload |-> p]

-----------------------------------------------------------------------------
(* The enclave: how a header is read.                                      *)

\* strtol on the first n bytes of a decimal: the sign and the digits there are.
NumeralPrefix(t, n) ==
    LET size == IF t < 0 THEN -t ELSE t
        seen == n - (IF t < 0 THEN 1 ELSE 0)
        whole == IF seen <= 0 THEN 0
                 ELSE IF seen >= Digits(t) THEN size \div 10
                 ELSE (size \div 10) \div (10 ^ (Digits(t) - seen))
    IN  IF t < 0 THEN -whole ELSE whole

\* (Slip: the sign is not read.)
AtoiUnsigned(f) ==
    IF "tenths" \in DOMAIN f THEN (IF f.tenths < 0 THEN -f.tenths ELSE f.tenths) \div 10
    ELSE IF "part" \in DOMAIN f THEN f.part
    ELSE IF "b64" \in DOMAIN f THEN Leading[f.b64] ELSE 0

\* atoi: a fraction is cut towards zero, a text counts for its leading digits.
Atoi(f) ==
    IF "tenths" \in DOMAIN f THEN NumeralPrefix(f.tenths, NumeralWidth(f.tenths))
    ELSE IF "part" \in DOMAIN f THEN f.part
    ELSE IF "b64" \in DOMAIN f THEN Leading[f.b64] ELSE 0

\* The first n bytes of a field.
Part(f, n) ==
    IF "tenths" \in DOMAIN f THEN [part |-> NumeralPrefix(f.tenths, n)]
    ELSE IF "b64" \in DOMAIN f THEN [part |-> Leading[f.b64]]
    ELSE IF f.text = "<=" THEN Text("<") ELSE IF f.text = ">=" THEN Text(">")
    ELSE Text("stub")

\* What fits in a number of bytes: whole fields, and a part of the next one.
FitIn(h, bytes) ==
    FoldLeft(LAMBDA a, f :
                IF a.room <= 0 THEN a
                ELSE [room |-> a.room - Width(f) - 1,
                      kept |-> Append(a.kept, IF Width(f) <= a.room THEN f ELSE Part(f, a.room))],
             [room |-> bytes, kept |-> <<>>], h).kept

\* (Slip: the initial vector is taken off the buffer once more.)
RecoveredTwice(h) == FitIn(h, 512 - 32)

\* ecall_add_evt decrypts min(len, 512) - 16 bytes.
Recovered(h) == FitIn(h, 512 - 16)

\* split: the fields between spaces that are not empty.
Split(h) == SelectSeq(h, LAMBDA f : f # Gap)

\* (Slip: the groups of a publication are taken four by four as well.)
GroupsOfFour(v, size) == [n \in 1 .. (Len(v) \div 4) |-> 4 * n]

\* (Slip: the loops end one group early.)
GroupsButLast(v, size) == [n \in 1 .. ((Len(v) - 4) \div size) |-> 4 + (n - 1) * size]

\* The places where the loops of parse_sub and parse_pub look for a group.
Groups(v, size) == [n \in 1 .. ((Len(v) - 4) \div size + 1) |-> 4 + (n - 1) * size]

IsOp(f) == f \in {Text("="), Text("!="), Text("<"), Text(">"), Text("<="), Text(">=")}
OpOf(f) ==
    CASE f.text = "=" -> "EQ" [] f.text = "!=" -> "NE" [] f.text = "<" -> "LT"
      [] f.text = ">" -> "GT" [] f.text = "<=" -> "LE" [] f.text = ">=" -> "GE"

\* What is not a group, or has no known operator, is skipped.
ParseSub(v) ==
    FoldLeft(LAMBDA s, i :
                IF v[i] = I /\ IsOp(v[i + 2])
                THEN E!Add(s, v[i + 1], [op |-> OpOf(v[i + 2]), val |-> Atoi(v[i + 3])])
                ELSE s,
             E!EmptySubscription, Groups(v, 4))

ParsePub(v) ==
    FoldLeft(LAMBDA e, i : IF v[i] = I THEN Put(e, v[i + 1], Atoi(v[i + 2])) ELSE e,
             EmptyMap, Groups(v, 3))

IsSub(v) == Len(v) >= 7 /\ v[3] = Text("S")
IsPub(v) == Len(v) >= 6 /\ v[3] = Text("P")

\* The parsers test the size of the vector once, for the first group.
SubStrays(v) ==
    \E i \in Range(Groups(v, 4)) :
        v[i] = I /\ (i + 2 <= Len(v) => IsOp(v[i + 2]) /\ i + 3 > Len(v))
PubStrays(v) == \E i \in Range(Groups(v, 3)) : v[i] = I /\ i + 2 > Len(v)

-----------------------------------------------------------------------------
(* The receiver of a publication.                                          *)

\* The first of some places that is not before p, or 0.
FirstFrom(p, places) ==
    LET after == {i \in places : i >= p} IN IF after = {} THEN 0 ELSE Min(after)

\* (Slip: what starts with a digit is decoded, the rest is kept.)
ValueReadInverted(f) ==
    IF "tenths" \in DOMAIN f /\ f.tenths < 0 THEN f
    ELSE IF "b64" \in DOMAIN f /\ f.b64 \notin DigitFirst THEN f
    ELSE [decoded |-> f]

\* What starts with a digit is kept as it is, the rest is decoded from base64.
ValueRead(f) ==
    IF "tenths" \in DOMAIN f /\ f.tenths >= 0 THEN f
    ELSE IF "b64" \in DOMAIN f /\ f.b64 \in DigitFirst THEN f
    ELSE [decoded |-> f]

\* fillattributes: from the next "i", a name and a value, until the value ends
\* with the header.  Without an "i", or with a name that ends the header, the
\* searches start again from the front and for ever; with nothing but spaces
\* after the name, substr throws.
FillAttributes(h) ==
    LET marks == {i \in DOMAIN h : h[i] = I}
        words == {i \in DOMAIN h : h[i] # Gap}
        Fill[p \in 1 .. Len(h) + 1] ==
          LET i == FirstFrom(p, marks)
              k == FirstFrom(i + 1, words)
              v == FirstFrom(k + 1, words)
          IN  IF i = 0 THEN [how |-> "hangs", data |-> EmptyMap]
              ELSE IF k = 0 THEN [how |-> "throws", data |-> EmptyMap]
              ELSE IF v = 0 THEN [how |-> IF k = Len(h) THEN "hangs" ELSE "throws",
                                  data |-> EmptyMap]
              ELSE IF v = Len(h) THEN [how |-> "read", data |-> h[k] :> ValueRead(h[v])]
              ELSE LET rest == Fill[v + 1]
                   IN  [how |-> rest.how, data |-> rest.data @@ (h[k] :> ValueRead(h[v]))]
    IN  Fill[1]

\* Crypto::decrypt_aes_inline of a payload: noise, unless all of it is one cipher.
Decrypted(p) ==
    IF Len(p) = 1 /\ "sealed" \in DOMAIN p[1] THEN p[1].sealed ELSE <<[noise |-> TRUE]>>

\* (Slip: a header that just fits is refused as well.)
TooLargeOrEqual(size) == size >= 512

\* MAX_HEADER_SIZE
TooLarge(size) == size > 512

\* Publication::deserialize, of a new object.
Deserialize(p) ==
    IF ~hpayload THEN [how |-> "read", data |-> EmptyMap, payload |-> Decrypted(p)]
    ELSE IF TooLarge(p[1].size) THEN [how |-> "refused", data |-> EmptyMap, payload |-> <<>>]
    ELSE LET f == FillAttributes(p[2].header)
         IN  [how |-> f.how, data |-> f.data,
              payload |-> IF f.how = "read" THEN Decrypted(Tail(Tail(p))) ELSE <<>>]

-----------------------------------------------------------------------------
Nobody == [how |-> "none", data |-> EmptyMap, payload |-> <<>>]

Init ==
    /\ keyWidth \in KeyWidths
    /\ hpayload \in BOOLEAN
    /\ hpayload \/ \A k \in DOMAIN keyWidth : keyWidth[k] = 1     \* bound
    /\ sub = EmptyMap
    /\ pub = [data |-> EmptyMap, payload |-> <<>>]
    /\ sends = 0 /\ seals = 0
    /\ meant = pub
    /\ wire = NoMessage /\ mail = NoMessage
    /\ stored = NotYet
    /\ read = <<>> /\ stray = FALSE /\ notified = FALSE
    /\ got = Nobody

Entries == Cardinality(DOMAIN sub) + Cardinality(DOMAIN pub.data)

\* The program is between two messages; bound: the subscription is written and
\* sent before the publication is.
Writing(subscription) ==
    /\ ~stray /\ wire = NoMessage /\ mail = NoMessage
    /\ subscription <=> stored = NotYet

\* Subscription::predicate: one predicate per name, a text only with equality.
SetPredicate(k, op, v) ==
    /\ Writing(TRUE)
    /\ Entries + 1 < MaxEntries \/ k \in DOMAIN sub
    /\ "word" \in DOMAIN v => op = "EQ"
    /\ sub' = Put(sub, k, [op |-> op, val |-> Encoded(v)])
    /\ UNCHANGED <<keyWidth, hpayload, pub, sends, seals, meant, wire, stored,
                   read, stray, notified, mail, got>>

SendSubscription ==
    /\ Writing(TRUE)
    /\ wire' = AsMessage("sub", SubHeader, <<>>)
    /\ UNCHANGED <<keyWidth, hpayload, sub, pub, sends, seals, meant, stored,
                   read, stray, notified, mail, got>>

\* Publication::attribute; bound: the attributes are written before the payload.
SetAttribute(k, v) ==
    /\ Writing(FALSE) /\ sends = 0 /\ pub.payload = <<>>
    /\ Entries < MaxEntries \/ k \in DOMAIN pub.data
    /\ pub' = [pub EXCEPT !.data = Put(@, k, Encoded(v))]
    /\ UNCHANGED <<keyWidth, hpayload, sub, sends, seals, meant, wire, stored,
                   read, stray, notified, mail, got>>

\* Publication::payload
SetPayload ==
    /\ Writing(FALSE) /\ sends < MaxSends /\ Entries <= MaxVaried
    /\ pub.payload # <<[body |-> TRUE]>>
    /\ pub' = [pub EXCEPT !.payload = <<[body |-> TRUE]>>]
    /\ UNCHANGED <<keyWidth, hpayload, sub, sends, seals, meant, wire, stored,
                   read, stray, notified, mail, got>>

\* Publication::encrypt_payload
EncryptPayload ==
    /\ Writing(FALSE) /\ sends < MaxSends /\ Entries <= MaxVaried
    /\ seals < MaxSeals
    /\ pub' = [pub EXCEPT !.payload = <<[sealed |-> @]>>]
    /\ seals' = seals + 1
    /\ UNCHANGED <<keyWidth, hpayload, sub, sends, meant, wire, stored,
                   read, stray, notified, mail, got>>

\* What serialize puts in front of payload_, and leaves there.
WithHeader(p) == <<[size |-> CipherWidth(PubHeader)], [header |-> PubHeader]>> \o p

SendPublication ==
    /\ Writing(FALSE) /\ sends < (IF Entries > MaxVaried THEN 1 ELSE MaxSends)
    /\ sends' = sends + 1
    /\ meant' = pub
    /\ pub' = [pub EXCEPT !.payload = IF hpayload THEN WithHeader(@) ELSE @]
    /\ wire' = AsMessage("pub", PubHeader, pub'.payload)
    /\ got' = Nobody
    /\ UNCHANGED <<keyWidth, hpayload, sub, seals, stored, read, stray, notified, mail>>

\* ecall_add_evt, for a message that PubSubCo hands over: a subscription is
\* stored, a publication that it matches is forwarded with its payload.
EcallAddEvt ==
    /\ wire # NoMessage
    /\ wire' = NoMessage
    /\ LET v == Split(Recovered(wire.header)) IN
         \/ /\ IsSub(v) /\ ~SubStrays(v)
            /\ stored' = ParseSub(v)
            /\ UNCHANGED <<read, stray, notified, mail>>
         \/ /\ IsPub(v) /\ ~PubStrays(v)
            /\ read' = v
            /\ notified' = (stored # Ignored /\ E!Matches(stored, ParsePub(v)))
            /\ mail' = IF notified' THEN wire.payload ELSE NoMessage
            /\ UNCHANGED <<stored, stray>>
         \/ /\ (IsSub(v) /\ SubStrays(v)) \/ (IsPub(v) /\ PubStrays(v))
            /\ stray' = TRUE
            /\ UNCHANGED <<stored, read, notified, mail>>
         \/ /\ ~IsSub(v) /\ ~IsPub(v)
            /\ stored' = IF stored = NotYet THEN Ignored ELSE stored
            /\ read' = v
            /\ notified' = FALSE
            /\ UNCHANGED <<stray, mail>>
    /\ UNCHANGED <<keyWidth, hpayload, sub, pub, sends, seals, meant, got>>

\* The subscriber's callback.
Callback ==
    /\ mail # NoMessage
    /\ got' = Deserialize(mail)
    /\ mail' = NoMessage
    /\ UNCHANGED <<keyWidth, hpayload, sub, pub, sends, seals, meant, wire, stored,
                   read, stray, notified>>

Next ==
    \/ \E k \in DOMAIN keyWidth, op \in Ops, v \in Values : SetPredicate(k, op, v)
    \/ \E k \in DOMAIN keyWidth, v \in Values : SetAttribute(k, v)
    \/ SendSubscription \/ SetPayload \/ EncryptPayload \/ SendPublication
    \/ EcallAddEvt \/ Callback

Spec == Init /\ [][Next]_vars
=============================================================================
