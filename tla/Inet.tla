-------------------------------- MODULE Inet --------------------------------
(***************************************************************************)
(* inet_ntop and inet_pton of zbaselib_socket.c: how an address becomes a  *)
(* text and a text an address.                                             *)
(*                                                                         *)
(* An IPv6 address is a sequence of 8 words.  Its text is a sequence of    *)
(* tokens: a colon, a group of hexadecimal digits with its value and       *)
(* length, or the dotted form of the last two words.  The loops over the   *)
(* text and over the words are functions of the number of turns: what the  *)
(* variables of the loop are after so many.  The text of an IPv4 address   *)
(* is a sequence of characters, the digits 0 .. 9 and Dot.                 *)
(*                                                                         *)
(* A text starts as what ntop makes of an address, is edited, as a user or *)
(* a file may do, and whatever it has become is read back by pton.         *)
(***************************************************************************)
EXTENDS Integers, Sequences, FiniteSets

LOCAL Seqs == INSTANCE SequencesExt

CONSTANTS
    Words,        \* the values of the words of the addresses
    Octets,       \* the values of the bytes of the IPv4 addresses
    Edited6,      \* the addresses whose texts are edited
    Edited4,
    MaxEdits      \* bound: changes that are made to a text

MaxWord == 65535
Word == 0 .. MaxWord

ASSUME InetAssumption ==
    /\ Words \subseteq Word /\ Octets \subseteq 0 .. 255
    /\ Edited6 \subseteq [1 .. 8 -> Word]
    /\ Edited4 \subseteq [1 .. 4 -> 0 .. 255]
    /\ MaxEdits \in Nat

VARIABLES
    family,       \* "none", "inet" or "inet6"
    addr,         \* the address that the text was made of
    text,
    edits         \* how often the text was changed since then

inetVars == <<family, addr, text, edits>>

Failed == <<>>    \* -1: no address

LastOf(s) == s[Len(s)]

Zeros(n) == [i \in 1 .. n |-> 0]

-----------------------------------------------------------------------------
(* IPv4 *)

Dot == 10
Letter == 11      \* any character that is in no IPv4 address

Decimal(n) == IF n < 10 THEN <<n>>
              ELSE IF n < 100 THEN <<n \div 10, n % 10>>
              ELSE <<n \div 100, (n \div 10) % 10, n % 10>>

(* inet_ntop4: the format %u.%u.%u.%u.                                     *)
Ntop4(bytes) == Decimal(bytes[1]) \o <<Dot>> \o Decimal(bytes[2]) \o <<Dot>>
                \o Decimal(bytes[3]) \o <<Dot>> \o Decimal(bytes[4])

(* inet_pton4: tp points to the last of the bytes read so far.             *)
Pton4Start == [bytes |-> <<0>>, octets |-> 0, saw_digit |-> FALSE, ok |-> TRUE]

Pton4Digit(s, ch) ==
    LET nw == LastOf(s.bytes) * 10 + ch
    IN  [s EXCEPT !.bytes[Len(s.bytes)] = nw,
                  !.octets = IF s.saw_digit THEN @ ELSE @ + 1,
                  !.saw_digit = TRUE,
                  !.ok = /\ ~(s.saw_digit /\ LastOf(s.bytes) = 0)
                         /\ nw <= 255
                         /\ s.saw_digit \/ s.octets < 4]

Pton4Dot(s) ==
    [s EXCEPT !.ok = s.saw_digit /\ s.octets # 4,
              !.bytes = Append(@, 0),
              !.saw_digit = FALSE]

Pton4Step(s, ch) ==
    IF ~s.ok THEN s
    ELSE IF ch \in 0 .. 9 THEN Pton4Digit(s, ch)
    ELSE IF ch = Dot THEN Pton4Dot(s)
    ELSE [s EXCEPT !.ok = FALSE]

Reading4(chars) ==
    LET states[i \in 0 .. Len(chars)] ==
            IF i = 0 THEN Pton4Start ELSE Pton4Step(states[i - 1], chars[i])
    IN  states

Pton4(chars) ==
    LET s == Reading4(chars)[Len(chars)]
    IN  IF s.ok /\ s.octets = 4 THEN SubSeq(s.bytes, 1, 4) ELSE Failed

-----------------------------------------------------------------------------
(* inet_ntop6 *)

Token(kind, words, len, first) ==
    [kind |-> kind, words |-> words, len |-> len, first |-> first]

HexLen(w) == IF w < 16 THEN 1 ELSE IF w < 256 THEN 2 ELSE IF w < 4096 THEN 3 ELSE 4

Colon   == Token("colon", <<>>, 1, 1)
Percent == Token("percent", <<>>, 1, 1)
Hex(w)  == Token("hex", <<w>>, HexLen(w), HexLen(w))

(* The dotted form of two words; first is the length of its first number.  *)
Bytes(high, low) == <<high \div 256, high % 256, low \div 256, low % 256>>

Quad(high, low) ==
    Token("quad", <<high, low>>, Len(Ntop4(Bytes(high, low))),
          Len(Decimal(high \div 256)))

NoRun == [base |-> 0, len |-> 0]   \* base 0 is -1 of the code

Later_BetterRun(best, cur) == best.base = 0 \/ cur.len >= best.len
BetterRun(best, cur) == best.base = 0 \/ cur.len > best.len

RunStep(words, s, i) ==
    IF words[i] = 0
    THEN [s EXCEPT !.cur = IF s.cur.base = 0 THEN [base |-> i, len |-> 1]
                           ELSE [s.cur EXCEPT !.len = @ + 1]]
    ELSE [best |-> IF s.cur.base # 0 /\ BetterRun(s.best, s.cur)
                   THEN s.cur ELSE s.best,
          cur |-> [s.cur EXCEPT !.base = 0]]

Scanning(words) ==
    LET states[i \in 0 .. 8] ==
            IF i = 0 THEN [best |-> NoRun, cur |-> NoRun]
            ELSE RunStep(words, states[i - 1], i)
    IN  states

(* The run of zero words that :: stands for, or NoRun.                     *)
BestRun(words) ==
    LET s == Scanning(words)[8]
        best == IF s.cur.base # 0 /\ BetterRun(s.best, s.cur)
                THEN s.cur ELSE s.best
    IN  IF best.len < 2 THEN NoRun ELSE best

InRun(best, i) == best.base # 0 /\ i >= best.base /\ i < best.base + best.len

(* An encapsulated IPv4 address.  The case of length 7 never gets here, as *)
(* the seventh word is then inside the run.                                *)
IsQuad(words, best, i) ==
    /\ i = 7 /\ best.base = 1
    /\ \/ best.len = 6
       \/ best.len = 7 /\ words[8] # 1
       \/ best.len = 5 /\ words[6] = 65535

TextStep(words, best, s, i) ==
    LET colon == IF i # 1 THEN <<Colon>> ELSE <<>>
    IN  IF s.done THEN s
        ELSE IF InRun(best, i)
        THEN [s EXCEPT !.text = IF i = best.base THEN Append(@, Colon) ELSE @]
        ELSE IF IsQuad(words, best, i)
        THEN [text |-> s.text \o colon \o <<Quad(words[7], words[8])>>,
              done |-> TRUE]
        ELSE [s EXCEPT !.text = @ \o colon \o <<Hex(words[i])>>]

Writing6(words, best) ==
    LET states[i \in 0 .. 8] ==
            IF i = 0 THEN [text |-> <<>>, done |-> FALSE]
            ELSE TextStep(words, best, states[i - 1], i)
    IN  states

Ntop6(words) ==
    LET best == BestRun(words)
        s    == Writing6(words, best)[8]
    IN  IF best.base # 0 /\ best.base + best.len = 9
        THEN Append(s.text, Colon) ELSE s.text

-----------------------------------------------------------------------------
(* inet_pton6 *)

(* words are those stored so far, tp - tmp of the code; gap is colonp.     *)
NoGap == -1
Pton6Start == [words |-> <<>>, gap |-> NoGap, seen |-> 0, val |-> 0,
               done |-> FALSE, ok |-> TRUE]

Reject(s) == [s EXCEPT !.ok = FALSE]

(* Every digit moves those in front of it by four bits.                    *)
Shift == <<16, 256, 4096, 65536>>

Pton6Hex(s, token) ==
    IF s.seen + token.len > 4 THEN Reject(s)
    ELSE [s EXCEPT !.val = @ * Shift[token.len] + token.words[1],
                   !.seen = @ + token.len]

Stored6(s) ==
    [s EXCEPT !.words = Append(@, s.val), !.seen = 0, !.val = 0,
              !.ok = Len(s.words) < 8]

Pton6Colon(s, isLast) ==
    IF s.seen = 0
    THEN IF s.gap # NoGap THEN Reject(s) ELSE [s EXCEPT !.gap = Len(s.words)]
    ELSE IF isLast THEN Reject(s) ELSE Stored6(s)

(* The dot of the quad is met behind its first number; inet_pton4 is given *)
(* all that follows the last colon, and needs it to be the rest.           *)
Pton6Quad(s, token, isLast) ==
    IF s.seen + token.first <= 4 /\ Len(s.words) <= 6 /\ isLast
    THEN [s EXCEPT !.words = @ \o token.words, !.seen = 0, !.done = TRUE]
    ELSE Reject(s)

Pton6Step(tokens, s, i) ==
    LET token == tokens[i]  isLast == i = Len(tokens)
    IN  IF ~s.ok \/ s.done THEN s
        ELSE IF token.kind = "hex" THEN Pton6Hex(s, token)
        ELSE IF token.kind = "colon" THEN Pton6Colon(s, isLast)
        ELSE IF token.kind = "quad" THEN Pton6Quad(s, token, isLast)
        ELSE Reject(s)

(* The words behind :: move to the end, and zeros come in between.         *)
NoFullCheck_Widened(s) ==
    IF s.gap = NoGap THEN s.words
    ELSE SubSeq(s.words, 1, s.gap) \o Zeros(8 - Len(s.words))
         \o SubSeq(s.words, s.gap + 1, Len(s.words))
Widened(s) ==
    IF s.gap = NoGap THEN s.words
    ELSE IF Len(s.words) = 8 THEN Failed
    ELSE SubSeq(s.words, 1, s.gap) \o Zeros(8 - Len(s.words))
         \o SubSeq(s.words, s.gap + 1, Len(s.words))

Reading6(tokens) ==
    LET states[i \in 0 .. Len(tokens)] ==
            IF i = 0 THEN Pton6Start ELSE Pton6Step(tokens, states[i - 1], i)
    IN  states

Pton6(chars) ==
    LET leading == chars # <<>> /\ chars[1] = Colon
        tokens  == IF leading THEN Tail(chars) ELSE chars
        s    == Reading6(tokens)[Len(tokens)]
        last == IF s.ok /\ s.seen # 0 THEN Stored6(s) ELSE s
    IN  IF leading /\ (tokens = <<>> \/ tokens[1] # Colon) THEN Failed
        ELSE IF ~last.ok \/ Len(Widened(last)) # 8 THEN Failed
        ELSE Widened(last)

-----------------------------------------------------------------------------
(* zbaselib_inet_pton: of the text of an IPv6 address what is in front of  *)
(* the first % is copied, if it fits, and read.                            *)

AddrStrLen4 == 16      \* UV__INET_ADDRSTRLEN
AddrStrLen6 == 46      \* UV__INET6_ADDRSTRLEN

Lengths(tokens) ==
    LET lengths[i \in 0 .. Len(tokens)] ==
            IF i = 0 THEN 0 ELSE lengths[i - 1] + tokens[i].len
    IN  lengths

CharLen(tokens) == Lengths(tokens)[Len(tokens)]

Zones(tokens) == {i \in DOMAIN tokens : tokens[i] = Percent}
FirstZone(tokens) ==
    CHOOSE i \in Zones(tokens) : \A j \in Zones(tokens) : i <= j
BeforeZone(tokens) ==
    IF Zones(tokens) = {} THEN tokens
    ELSE SubSeq(tokens, 1, FirstZone(tokens) - 1)

InetPton(af, chars) ==
    IF af = "inet" THEN Pton4(chars)
    ELSE IF Zones(chars) # {} /\ CharLen(BeforeZone(chars)) > AddrStrLen6 - 1
    THEN Failed
    ELSE Pton6(BeforeZone(chars))

-----------------------------------------------------------------------------
(* The life of a text *)

(* zbaselib_inet_ntop *)
Format(af, a) ==
    /\ family = "none"
    /\ family' = af /\ addr' = a
    /\ text' = IF af = "inet" THEN Ntop4(a) ELSE Ntop6(a)
    /\ UNCHANGED edits

(* The other form of the same address, with its last two words dotted.     *)
Dotted ==
    /\ family = "inet6" /\ edits = 0 /\ addr \in Edited6
    /\ \A i \in 1 .. 8 : addr[i] # 0
    /\ text' = SubSeq(text, 1, 12) \o <<Quad(addr[7], addr[8])>>
    /\ UNCHANGED <<family, addr, edits>>

(* What is put into a text: every token that tells two branches of the     *)
(* code apart, and characters of IPv4 addresses with one that is in none.  *)
Insertions == IF family = "inet" THEN {0, 2, 5, Dot, Letter}
          ELSE {Colon, Hex(0), Hex(65535), Quad(0, 1), Quad(65535, 65535), Percent}

(* Digits in front of a dotted form, or behind it, would be digits of its  *)
(* first or last number: that is another dotted form.                      *)
Separate(t) ==
    \A i \in 1 .. Len(t) - 1 : {t[i].kind, t[i + 1].kind} # {"hex", "quad"}

Edit ==
    /\ family # "none" /\ edits < MaxEdits
    /\ addr \in IF family = "inet" THEN Edited4 ELSE Edited6
    /\ \/ \E i \in DOMAIN text : text' = Seqs!RemoveAt(text, i)
       \/ \E i \in 1 .. Len(text) + 1, p \in Insertions : text' = Seqs!InsertAt(text, i, p)
    /\ family = "inet6" => Separate(text')
    /\ edits' = edits + 1
    /\ UNCHANGED <<family, addr>>

InetInit == family = "none" /\ addr = <<>> /\ text = <<>> /\ edits = 0

InetNext ==
    \/ \E b \in [1 .. 4 -> Octets] \cup Edited4 : Format("inet", b)
    \/ \E w \in [1 .. 8 -> Words] \cup Edited6 : Format("inet6", w)
    \/ Dotted
    \/ Edit

InetSpec == InetInit /\ [][InetNext]_inetVars

-----------------------------------------------------------------------------
(* What an address is, said by the form of the whole text and not by a     *)
(* loop over it: RFC 4291, 2.2, and the dotted form of four numbers.       *)

(* The parts of s between the separators.                                  *)
GroupsOf(s, sep) ==
    LET stops == SelectSeq([i \in 1 .. Len(s) + 2 |-> i - 1],
                           LAMBDA i : i \in {0, Len(s) + 1} \/ s[i] = sep)
    IN  [k \in 1 .. Len(stops) - 1 |-> SubSeq(s, stops[k] + 1, stops[k + 1] - 1)]

IsByte(g) ==
    /\ Len(g) \in 1 .. 3 /\ \A i \in DOMAIN g : g[i] \in 0 .. 9
    /\ \E n \in 0 .. 255 : g = Decimal(n)

Meaning4(chars) ==
    LET groups == GroupsOf(chars, Dot)
    IN  IF Len(groups) = 4 /\ \A k \in 1 .. 4 : IsByte(groups[k])
        THEN [k \in 1 .. 4 |-> CHOOSE n \in 0 .. 255 : groups[k] = Decimal(n)]
        ELSE Failed

IsDotted(g) == Len(g) = 1 /\ g[1].kind = "quad"
IsWord(g)   == g # <<>> /\ CharLen(g) <= 4 /\ \A i \in DOMAIN g : g[i].kind = "hex"

WordsOf(g) ==
    IF IsDotted(g) THEN g[1].words
    ELSE <<Seqs!FoldLeft(LAMBDA n, token : n * Shift[token.len] + token.words[1], 0, g)>>

(* One side of ::, or all of a text without it.                            *)
Side(tokens) == IF tokens = <<>> THEN <<>> ELSE GroupsOf(tokens, Colon)
IsSide(side, mayEndDotted) ==
    \A k \in DOMAIN side :
        \/ IsWord(side[k])
        \/ mayEndDotted /\ k = Len(side) /\ IsDotted(side[k])
SideWords(side) == Seqs!FlattenSeq([k \in DOMAIN side |-> WordsOf(side[k])])

Cuts(tokens) ==
    {i \in 1 .. Len(tokens) - 1 : tokens[i] = Colon /\ tokens[i + 1] = Colon}
LeftOf(tokens, i)  == Side(SubSeq(tokens, 1, i - 1))
RightOf(tokens, i) == Side(SubSeq(tokens, i + 2, Len(tokens)))

Meaning6(tokens) ==
    IF Cuts(tokens) = {}
    THEN LET all == Side(tokens)
         IN  IF IsSide(all, TRUE) /\ Len(SideWords(all)) = 8
             THEN SideWords(all) ELSE Failed
    ELSE LET cut   == CHOOSE i \in Cuts(tokens) : TRUE
             left  == LeftOf(tokens, cut)
             right == RightOf(tokens, cut)
         IN  IF /\ Cuts(tokens) = {cut} /\ IsSide(left, FALSE) /\ IsSide(right, TRUE)
                /\ Len(SideWords(left)) + Len(SideWords(right)) < 8
             THEN LET zeros == 8 - Len(SideWords(left)) - Len(SideWords(right))
                  IN  SideWords(left) \o Zeros(zeros) \o SideWords(right)
             ELSE Failed

Runs(words) ==
    {r \in (1 .. 8) \X (2 .. 8) :
        r[1] + r[2] <= 9 /\ \A i \in r[1] .. r[1] + r[2] - 1 : words[i] = 0}

(* The words that are at some places of a text.                            *)
WordsAt(tokens, places) ==
    Cardinality({i \in places : tokens[i].kind = "hex"})
    + 2 * Cardinality({i \in places : tokens[i].kind = "quad"})

(* :: stands for the first of the longest runs of zero words, RFC 5952.    *)
Compressed(words, tokens) ==
    IF Runs(words) = {} THEN Cuts(tokens) = {}
    ELSE \E cut \in Cuts(tokens), r \in Runs(words) :
            /\ Cuts(tokens) = {cut}
            /\ \A q \in Runs(words) : q[2] < r[2] \/ (q[2] = r[2] /\ q[1] >= r[1])
            /\ WordsAt(tokens, 1 .. cut - 1) = r[1] - 1
            /\ WordsAt(tokens, cut + 2 .. Len(tokens)) = 9 - r[1] - r[2]

-----------------------------------------------------------------------------
(* Properties *)

(* The text that inet_ntop makes of any address reads back as this address *)
(* and as no other, fits into the buffer on its stack with the NUL, and    *)
(* has :: for the longest run of zero words, the first one of several.     *)
InetRoundTrip ==
    edits = 0 /\ family # "none" =>
        /\ InetPton(family, text) = addr
        /\ IF family = "inet" THEN Len(text) < AddrStrLen4
           ELSE /\ CharLen(text) < AddrStrLen6
                /\ Compressed(addr, text)

(* inet_pton takes exactly the texts that are addresses, and takes them    *)
(* for the address they mean, whatever was lost in a text, doubled or put  *)
(* where it does not belong: a second ::, a ninth word, a dotted form that *)
(* is not at the end, a leading zero, a zone.                              *)
InetPtonExact ==
    family # "none" =>
        InetPton(family, text) =
            IF family = "inet" THEN Meaning4(text) ELSE Meaning6(BeforeZone(text))
=============================================================================
