------------------------------- MODULE MCHeader -------------------------------
(***************************************************************************)
(* Headers over two plain names and one with a space between them, with    *)
(* numbers that are whole, fractional and negative, a word, a word whose   *)
(* base64 starts with a digit, and the empty text.  The lengths of the     *)
(* name "b" put each field of some header on the 512 byte border, with a   *)
(* group before it or after it.                                            *)
(***************************************************************************)
EXTENDS Header

CONSTANTS
    Lengths,    \* those of the name "b" where "a" goes before it
    Followed    \* and where "e" comes after it

MCKeyOrder == <<"a", "b", "c d", "e">>
MCSpelled == [k \in {"a", "b", "c d", "e"} |-> IF k = "c d" THEN <<"c", "d">> ELSE <<k>>]
WithLong(other, n) == [k \in {other, "b"} |-> IF k = "b" THEN n ELSE 1]
MCKeyWidths ==
    {[k \in {"a", "c d", "e"} |-> 1]}
    \cup {WithLong("a", n) : n \in Lengths} \cup {WithLong("e", n) : n \in Followed}
MCNumbers == {-10, 5, 10}
MCWords == {"latin", "cjk", ""}
MCWordWidth == [w \in MCWords |-> IF w = "" THEN 0 ELSE 8]
MCLeading == [w \in MCWords |-> IF w = "cjk" THEN 4 ELSE 0]

-----------------------------------------------------------------------------
\* A name without a space and a value that is not empty: what a header can hold.
Clean(data) == \A k \in DOMAIN data : Len(Spelled[k]) = 1
Written(data, value(_)) == \A k \in DOMAIN data : value(data[k]) # Gap
SubVal(p) == p.val
PubVal(v) == v
PlainSub == Clean(sub) /\ Written(sub, SubVal)
PlainPub == Clean(meant.data) /\ Written(meant.data, PubVal)
Fit(h) == CipherWidth(h) <= 512
Whole(f) == "tenths" \in DOMAIN f /\ f.tenths % 10 = 0

\* What the application means: every predicate holds of the value, as numbers
\* or as texts.
Wanted ==
    \A k \in DOMAIN sub :
        LET p == sub[k] IN
            /\ k \in DOMAIN meant.data
            /\ IF "tenths" \in DOMAIN p.val /\ "tenths" \in DOMAIN meant.data[k]
               THEN E!Holds([op |-> p.op, val |-> p.val.tenths], meant.data[k].tenths)
               ELSE p.op = "EQ" /\ p.val = meant.data[k]

\* The engine has read both headers, and the publication sent last.
Answered == sends > 0 /\ wire = NoMessage /\ ~stray

\* Plain headers of whole numbers that fit: the engine notifies exactly when the
\* application would, through text, order of the names, groups and atoi.
MeaningKept ==
    Answered /\ PlainSub /\ PlainPub /\ Fit(SubHeader) /\ Fit(PubHeader)
    /\ DOMAIN sub # {} /\ DOMAIN meant.data # {}
    /\ (\A k \in DOMAIN sub : Whole(sub[k].val))
    /\ (\A k \in DOMAIN meant.data : Whole(meant.data[k]))
    => (notified <=> Wanted)

\* Fractions and texts lose meaning to atoi, but only towards more
\* notifications, unless a strict bound meets a fraction.
NothingLost ==
    Answered /\ PlainSub /\ PlainPub /\ Fit(SubHeader) /\ Fit(PubHeader)
    /\ DOMAIN sub # {} /\ DOMAIN meant.data # {} /\ Wanted
    /\ (\A k \in DOMAIN sub : sub[k].op \in {"EQ", "LE", "GE"})
    => notified

\* parse_sub and parse_pub stay within a vector they test for one group only,
\* names with a space included, unless the buffer of the enclave cuts the
\* header or its last value is empty.
ParserInBounds ==
    stray => \/ ~Fit(SubHeader) \/ ~Fit(PubHeader)
             \/ Last(SubHeader) = Gap \/ Last(PubHeader) = Gap

\* The first i predicates of the header, to the last byte, are before the border.
BeforeBorder(i) == HeaderWidth(SubSeq(SubHeader, 1, 3 + 4 * i)) <= 512 - 16

\* A subscription that is cut keeps every predicate before the border with its
\* meaning, may keep something of the one on the border, under its name, and
\* nothing of those behind it.
CutKeepsPrefix ==
    stored \notin {NotYet, Ignored} /\ PlainSub /\ (\A k \in DOMAIN sub : Whole(sub[k].val)) =>
        LET names == InOrder(sub)
            kept == {i \in DOMAIN names : BeforeBorder(i)}
        IN  /\ \A i \in kept : LET p == sub[names[i]] IN
                stored[Text(names[i])] = <<[op |-> p.op, val |-> p.val.tenths \div 10]>>
            /\ \A i \in DOMAIN names :
                i > Cardinality(kept) + 1 => stored[Text(names[i])] = <<>>
            /\ \A f \in DOMAIN stored \ {Text(k) : k \in DOMAIN sub} : stored[f] = <<>>

\* The engine's buffer and the receiver's MAX_HEADER_SIZE are two constants of
\* two programs: a publication is refused exactly when the engine cut it.
CutIsRefused ==
    hpayload /\ got.how # "none" => (got.how = "refused" <=> Split(PubHeader) # read)

\* A payload that is encrypted once after it was last written arrives, and the
\* attributes with it: plain ones, numbers from 0 on, texts that decode.
ReceiverReads ==
    got.how # "none" /\ meant.payload = <<[sealed |-> <<[body |-> TRUE]>>]>>
    /\ PlainPub /\ Fit(PubHeader)
    => /\ got.how = "read" /\ got.payload = <<[body |-> TRUE]>>
       /\ hpayload => \A k \in DOMAIN meant.data :
            LET v == meant.data[k] IN
            \/ got.data[Text(k)] = IF "b64" \in DOMAIN v THEN [decoded |-> v] ELSE v
            \/ v \in {[b64 |-> w] : w \in DigitFirst} \/ v \in {[tenths |-> t] : t \in Numbers \ Nat}
=============================================================================
