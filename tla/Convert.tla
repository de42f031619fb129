------------------------------- MODULE Convert -------------------------------
(***************************************************************************)
(* The conversions between the elements of a structure and text: the       *)
(* ELEM_OPS of struct_ops.c and enum_flag_ops.c, with radix64.c and the    *)
(* string functions of memfunc.c they call.  Every structure that leaves   *)
(* an instance as JSON is written by the get_text_value operations and     *)
(* read back, here or on another instance, by the set_text_value ones.     *)
(*                                                                         *)
(* A conversion is followed through its two halves: a value is written,    *)
(* and the text is read into an element of the same type; or a text that   *)
(* somebody typed is read.  Behind the element lies another one (next).    *)
(* Widths are scaled: an int has CvInt bits, a char CvByte, and a digest   *)
(* CvDigest bytes.  A text is a sequence of one-character strings, where   *)
(* its characters matter, and a sequence of names where they do not.       *)
(***************************************************************************)
EXTENDS Integers, Sequences, SequencesExt

CONSTANTS CvInt, CvByte, CvDigest, CvFlags, CvTexts

(* A digest is at least four bytes (a quarter of it tells a name from it). *)
ASSUME CvAssumption ==
    /\ {CvInt, CvByte, CvDigest} \subseteq Nat /\ CvByte < CvInt /\ CvDigest % 4 = 0

VARIABLE cv  \* [pc, kind, val, text, back, next]

EINVAL == -1  \* no reader yields a negative number otherwise

Wrapped(n, bits) == n % 2^bits
Signed(n, bits) ==
    LET m == Wrapped(n, bits) IN IF m >= 2^(bits - 1) THEN m - 2^bits ELSE m

-----------------------------------------------------------------------------
(* Digits *)

DigitChars == <<"0", "1", "2", "3", "4", "5", "6", "7", "8", "9">>
HexChars == DigitChars \o <<"a", "b", "c", "d", "e", "f">>
UpperChars == <<"A", "B", "C", "D", "E", "F">>

Indices(s, c) == {k \in DOMAIN s : s[k] = c}

(* _get_char_value of memfunc.c *)
CharValue(c) ==
    CASE c \in Range(HexChars)   -> (CHOOSE k \in Indices(HexChars, c) : TRUE) - 1
      [] c \in Range(UpperChars) -> (CHOOSE k \in Indices(UpperChars, c) : TRUE) + 9
      [] OTHER                   -> -1

(* _get_char_value of struct_ops.c: 'a' is worth 9, and capitals are       *)
(* subtracted from 'a' too                                                 *)
ElemCharValue(c) ==
    CASE c \in Range(UpperChars) -> -1
      [] CharValue(c) > 9 -> CharValue(c) - 1
      [] OTHER -> CharValue(c)

Decimal[n \in Nat] ==
    IF n < 10 THEN <<DigitChars[n + 1]>>
    ELSE Append(Decimal[n \div 10], DigitChars[(n % 10) + 1])

(* Itoa *)
Itoa(n) == IF n < 0 THEN <<"-">> \o Decimal[-n] ELSE Decimal[n]

(* Mutant: every value is taken for signed. *)
IntText_Signed(kind, v) == Itoa(Signed(v, IF kind = "UCHAR" THEN CvByte ELSE CvInt))

(* int_get_text_value: a UCHAR is read through a char; the last digit of a *)
(* 64-bit value is split off before its sign can matter                    *)
IntText(kind, v) ==
    CASE kind = "UCHAR" -> Itoa(Signed(v, CvByte))
      [] kind = "UINT64" -> (IF v \div 10 = 0 THEN <<>> ELSE Decimal[v \div 10])
                            \o <<DigitChars[(v % 10) + 1]>>
      [] OTHER -> Itoa(v)

(* The head of a number in int_set_text_value and Atoi: the base, and where*)
(* the digits begin; a space is skipped with the character behind it.      *)
NumberHead(t) ==
    LET h[i \in Nat] ==
          CASE i > Len(t) -> [base |-> 10, at |-> i]
            [] i <= Len(t) /\ t[i] = " " -> h[i + 2]
            [] i <= Len(t) /\ t[i] = "0" ->
                 CASE i = Len(t) -> [base |-> 10, at |-> i]
                   [] i < Len(t) /\ t[i + 1] \in {"b", "B"} -> [base |-> 2, at |-> i + 2]
                   [] i < Len(t) /\ t[i + 1] \in {"x", "X"} -> [base |-> 16, at |-> i + 2]
                   [] OTHER -> [base |-> 8, at |-> i + 1]
            [] OTHER -> [base |-> 10, at |-> i]
    IN  h[1]

(* Mutant: a text that starts with 0 is decimal. *)
StringHead_Decimal(t) == [base |-> 10, at |-> 1]

(* The head in get_string_value, whose loop is not left at the first digit:*)
(* it runs on to a 0 anywhere in the text                                  *)
StringHead(t) ==
    LET zeros == {k \in DOMAIN t : t[k] = "0" /\ \A j \in 1 .. k - 1 : t[j] \notin {"0", " "}}
    IN  IF zeros = {} THEN [base |-> 10, at |-> Len(t) + 1]
        ELSE LET z == CHOOSE k \in zeros : TRUE
                 n == NumberHead(SubSeq(t, z, Len(t)))
             IN  [n EXCEPT !.at = @ + z - 1]

(* The digits, by their values: -EINVAL for one outside the base *)
NumberTail(values, head) ==
    LET ds == SubSeq(values, head.at, Len(values))
    IN  IF \E k \in DOMAIN ds : ds[k] \notin 0 .. head.base - 1 THEN EINVAL
        ELSE FoldLeft(LAMBDA n, d : Wrapped(n * head.base + d, CvInt), 0, ds)

(* int_set_text_value up to its Memcpy *)
IntRead(t) == NumberTail([k \in DOMAIN t |-> ElemCharValue(t[k])], NumberHead(t))

(* Atoi *)
Atoi(t) == NumberTail([k \in DOMAIN t |-> CharValue(t[k])], NumberHead(t))

(* get_string_value *)
StringValue(t) == NumberTail([k \in DOMAIN t |-> ElemCharValue(t[k])], StringHead(t))

IntBits(kind) ==
    CASE kind \in {"INT", "UINT32"} -> CvInt
      [] kind = "UCHAR" -> CvByte
      [] kind = "UINT64" -> 2 * CvInt

(* What Memcpy leaves in the element: of an element wider than an int the  *)
(* upper half is whatever lies behind the int on the stack.                *)
IntStored(kind, n) ==
    CASE kind = "UINT64" -> {n + 2^CvInt * g : g \in 0 .. 2^CvInt - 1}
      [] kind = "INT" -> {Signed(n, CvInt)}
      [] OTHER -> {Wrapped(n, IntBits(kind))}

-----------------------------------------------------------------------------
(* Enumerations and flags over the name list CvFlags, entries [v, n] *)

EntryBits(kind) == IF kind \in {"ENUM", "FLAG"} THEN CvInt ELSE CvByte
Bits(v) == {b \in 0 .. CvInt - 1 : (v \div 2^b) % 2 = 1}
NamesJoined(v, w) == LET s == Bits(v) \cup Bits(w)
                IN  FoldSet(LAMBDA b, n : n + 2^b, 0, s)

(* enum_get_text_value *)
EnumText(v) ==
    LET at == {k \in DOMAIN CvFlags : CvFlags[k].v = v}
    IN  CASE at # {} -> <<CvFlags[CHOOSE k \in at : \A j \in at : k <= j].n>>
          [] at = {} /\ v = 0 -> <<"NULL">>
          [] OTHER -> <<>>

(* enum_set_text_value: the last entry with the name; without one the value*)
(* was never set.  A char holds no value over 127.                         *)
EnumRead(kind, t) ==
    LET at == {k \in DOMAIN CvFlags : <<CvFlags[k].n>> = t}
        found == IF at # {} THEN {CvFlags[CHOOSE k \in at : \A j \in at : k >= j].v}
                 ELSE 0 .. 2^CvInt - 1
    IN  CASE t = <<"NULL">> -> {0}
          [] t # <<"NULL">> /\ kind = "BENUM" ->
               {IF v > 2^(CvByte - 1) - 1 THEN EINVAL ELSE v : v \in found}
          [] OTHER -> found

(* Mutant: an entry needs all its bits, and the first one ends the loop. *)
FlagText_First(v) ==
    LET in == SelectSeq(CvFlags, LAMBDA e : Bits(e.v) \cap Bits(v) # {})
    IN  IF in = <<>> THEN <<"NULL">> ELSE <<in[1].n>>

(* flag_get_text_value: the names of the entries that share a bit *)
FlagText(v) ==
    LET in == SelectSeq(CvFlags, LAMBDA e : Bits(e.v) \cap Bits(v) # {})
    IN  IF in = <<>> THEN <<"NULL">> ELSE [k \in DOMAIN in |-> in[k].n]

(* flag_set_text_value *)
FlagRead(kind, t) ==
    LET of(n) == {k \in DOMAIN CvFlags : CvFlags[k].n = n}
    IN  CASE t = <<"NULL">> -> 0
          [] t # <<"NULL">> /\ \E k \in DOMAIN t : of(t[k]) = {} -> EINVAL
          [] OTHER -> Wrapped(FoldLeft(LAMBDA v, n :
                                  NamesJoined(v, CvFlags[CHOOSE k \in of(n) : \A j \in of(n) : k <= j].v),
                                0, t), EntryBits(kind))

(* Mutant: every text is stored as an int. *)
NextAfter_Int(kind, t) == IF EntryBits(kind) < CvInt THEN 0 ELSE 1

(* Both store a "NULL" as an int, whatever the width of the element. *)
NextAfter(kind, t) == IF t = <<"NULL">> /\ EntryBits(kind) < CvInt THEN 0 ELSE 1

-----------------------------------------------------------------------------
(* Digests: CvDigest bytes, which may hold a name filled up with zeros *)

NameLimit == (CvDigest \div 4) * 3

(* Strnlen *)
StrLen(d) ==
    LET zeros == {k \in DOMAIN d : d[k] = 0}
    IN  IF zeros = {} THEN Len(d) ELSE (CHOOSE k \in zeros : \A j \in zeros : k <= j) - 1

(* Isstrinuuid *)
IsName(d) == StrLen(d) <= NameLimit /\ \A k \in StrLen(d) + 1 .. Len(d) : d[k] = 0

HexOf(b) == <<HexChars[(b \div 16) + 1], HexChars[(b % 16) + 1]>>

(* uuid_get_text_value and _digest_to_uuid: [name] or [hex] *)
UuidText(d) ==
    IF IsName(d) THEN [name |-> SubSeq(d, 1, StrLen(d)), hex |-> <<>>]
    ELSE [name |-> <<>>, hex |-> FoldLeft(LAMBDA s, b : s \o HexOf(b), <<>>, d)]

(* Mutant: the low digit comes first. *)
UuidRead_Swap(t) ==
    [k \in 1 .. CvDigest |-> IF t.hex = <<>> THEN 0
                             ELSE CharValue(t.hex[2 * k - 1]) + CharValue(t.hex[2 * k]) * 16]

(* uuid_set_text_value and _uuid_to_digest: a text as long as the limit is *)
(* taken for hex digits, and the bytes of a name are none                  *)
UuidRead(t) ==
    CASE Len(t.name) > 0 /\ Len(t.name) < NameLimit ->
           [k \in 1 .. CvDigest |-> IF k <= Len(t.name) THEN t.name[k] ELSE 0]
      [] Len(t.name) >= NameLimit -> <<>>
      [] Len(t.name) = 0 /\ t.hex = <<>> -> [k \in 1 .. CvDigest |-> 0]
      [] OTHER -> [k \in 1 .. CvDigest |->
                     CharValue(t.hex[2 * k - 1]) * 16 + CharValue(t.hex[2 * k])]

(* bin_2_hex *)
HexText(b) == FoldLeft(LAMBDA s, x : s \o HexOf(x), <<>>, b)

(* Mutant: the digits of a byte the other way round. *)
HexRead_Swap(t, size, old) ==
    [k \in 1 .. size |-> IF k <= size \div 2
       THEN CharValue(t[2 * k - 1]) + CharValue(t[2 * k]) * 16 ELSE old[k]]

(* hex_2_bin, called with the size of the element in bytes: so many digits *)
(* are read, and a letter is worth its place in the alphabet               *)
HexDigit(c) == IF CharValue(c) > 9 THEN CharValue(c) - 10 ELSE CharValue(c)

HexRead(t, size, old) ==
    LET n == IF Len(t) < size THEN Len(t) ELSE size
    IN  IF n % 2 # 0 THEN old
        ELSE [k \in 1 .. size |-> IF k <= n \div 2
                THEN HexDigit(t[2 * k - 1]) * 16 + HexDigit(t[2 * k]) ELSE old[k]]

-----------------------------------------------------------------------------
(* radix64: three bytes in four characters, here numbers below 64 *)

(* bin_to_radix64 *)
Radix64(b) ==
    LET at(k) == IF k > Len(b) THEN 0 ELSE b[k]
        four(i) == <<at(i) \div 4, (at(i) % 4) * 16 + at(i + 1) \div 16,
                     (at(i + 1) % 16) * 4 + at(i + 2) \div 64, at(i + 2) % 64>>
        groups == [g \in 1 .. (Len(b) + 2) \div 3 |->
                     LET i == 3 * g - 2
                     IN  SubSeq(four(i), 1, IF Len(b) - i + 1 >= 3 THEN 4 ELSE Len(b) - i + 2)]
    IN  FlattenSeq(groups)

(* bin_to_radix64_len and radix_to_bin_len *)
Radix64Len(n) == (n * 4 + 2) \div 3
RadixBinLen(n) ==
    CASE n % 4 = 1 -> -1 [] n % 4 = 0 -> (n \div 4) * 3
      [] OTHER -> (n \div 4) * 3 + (n % 4) - 1

(* Mutant: the last group is taken for a full one. *)
RadixBin_Full(t, size) == IF Len(t) % 4 # 0 THEN <<EINVAL>> ELSE <<>>

(* radix64_to_bin behind the length check of bindata_set_text_value; a     *)
(* byte keeps eight bits                                                   *)
RadixBin(t, size) ==
    LET at(k) == IF k > Len(t) THEN 0 ELSE t[k]
        three(i) == <<(at(i) * 4 + at(i + 1) \div 16) % 256,
                      (at(i + 1) * 16 + at(i + 2) \div 4) % 256,
                      (at(i + 2) * 64 + at(i + 3)) % 256>>
        groups == [g \in 1 .. (Len(t) + 3) \div 4 |->
                     LET i == 4 * g - 3
                     IN  SubSeq(three(i), 1, IF Len(t) - i + 1 >= 4 THEN 3 ELSE Len(t) - i)]
    IN  IF Len(t) = 0 THEN <<>> ELSE IF RadixBinLen(Len(t)) # size THEN <<EINVAL>>
        ELSE FlattenSeq(groups)

-----------------------------------------------------------------------------
(* A name list as text: "A,B=5,C"; an entry's value is written where it is *)
(* not one more than the last                                              *)

(* Mutant: the value is written where it is the expected one. *)
NamelistText_Inverse(l) ==
    [k \in DOMAIN l |->
       IF l[k].v = (IF k = 1 THEN 0 ELSE l[k - 1].v) + 1 THEN [n |-> l[k].n, eq |-> Itoa(l[k].v)]
       ELSE [n |-> l[k].n, eq |-> <<>>]]

(* namelist_get_text_value of every entry *)
NamelistText(l) ==
    [k \in DOMAIN l |->
       LET next == (IF k = 1 THEN 0 ELSE l[k - 1].v) + 1
       IN  IF l[k].v > next THEN [n |-> l[k].n, eq |-> Itoa(l[k].v)]
           ELSE [n |-> l[k].n, eq |-> <<>>]]

(* namelist_set_text_value of every entry *)
NamelistRead(t) ==
    LET read(l, e) ==
          LET next == (IF l = <<>> THEN 0 ELSE l[Len(l)].v) + 1
          IN  Append(l, [v |-> IF e.eq = <<>> THEN next ELSE Atoi(e.eq), n |-> e.n])
    IN  FoldLeft(read, <<>>, t)

-----------------------------------------------------------------------------
(* Arrays: an item is the text of one value; the pieces of a text are what *)
(* stands between its commas                                               *)

(* _elem_get_text_value *)
ArrayText(v) ==
    FlattenSeq([k \in DOMAIN v |-> IF k = 1 THEN v[k] ELSE <<",">> \o v[k]])

(* _getjsonstr: each piece in quotes, but for the empty ones *)
JsonArray(t) ==
    LET piece(ps, c) == IF c = "," THEN Append(ps, <<>>) ELSE Append(Front(ps), Append(Last(ps), c))
    IN  SelectSeq(FoldLeft(piece, <<<<>>>>, t), LAMBDA p : p # <<>>)

(* Mutant: the closing quotes are taken away like the others. *)
StripArray_Quotes(ps) == FlattenSeq(ps)

(* json_print_str, and _stripjsonarraychar in the same buffer: a closing   *)
(* quote becomes a comma; a bracket in quotes is not copied, and what the  *)
(* buffer had there stays ("?").                                           *)
StripArray(ps) ==
    FlattenSeq([k \in DOMAIN ps |->
                  Append([i \in DOMAIN ps[k] |-> IF ps[k][i] = "]" THEN "?" ELSE ps[k][i]], ",")])

(* Getfiledfromstr at offset i: the piece, and where it ends; blanks before*)
(* it are skipped, and behind them nothing is found at the end of the text.*)
Field(t, i) ==
    LET from == SelectInSeq(SubSeq(t, i, Len(t)) \o <<"end">>, LAMBDA c : c # " ") + i - 1
        to == SelectInSeq(SubSeq(t, from, Len(t)) \o <<",">>, LAMBDA c : c = ",") + from - 1
    IN  IF from > Len(t) THEN [found |-> FALSE, to |-> i, item |-> <<>>]
        ELSE [found |-> TRUE, to |-> to, item |-> SubSeq(t, from, to - 1)]

(* _elem_set_text_value of an array of n items.  An item that is not found *)
(* gets the text of the one before it, or what the stack holds; one that   *)
(* no comma follows is the last, and an error, but it is stored.           *)
ArrayRead(t, n) ==
    LET read(s, k) ==
          LET f == Field(t, s.at)
              item == IF f.found THEN f.item ELSE s.buf
          IN  IF s.bad THEN s
              ELSE [at |-> IF f.found THEN f.to + 1 ELSE f.to,
                    buf |-> item, bad |-> f.to > Len(t), items |-> [s.items EXCEPT ![k] = item]]
        start == [at |-> 1, buf |-> <<"?">>, bad |-> FALSE, items |-> [k \in 1 .. n |-> <<>>]]
    IN  FoldLeft(read, start, [k \in 1 .. n |-> k])

-----------------------------------------------------------------------------
(* The binary form: get_bin_value and set_bin_value.  Octets are scaled to *)
(* one bit, so that a 64-bit value has eight.                              *)

(* UINT16ToArray, UINT32ToArray, UINT64ToArray: the highest octet first *)
Octets(v, n) == [k \in 1 .. n |-> (v \div 2^(n - k)) % 2]

(* tpm16_, tpm32_ and tpm64_get_bin_value of an element of n octets: each  *)
(* reads an int.                                                           *)
NumberBin(n, v) == Octets(IF n = 8 THEN Signed(v, 4) ELSE v, n)

(* tpm16_, tpm32_ and tpm64_set_bin_value with Decode_UINT16 and so on; no *)
(* statement of Decode_UINT32 returns the number.                          *)
NumberFromBin(n, b) ==
    IF n = 4 THEN 0 .. 2^4 - 1 ELSE {FoldLeft(LAMBDA v, o : 2 * v + o, 0, b)}

(* namelist_get_bin_value of every entry: the name, which ends with a 0,   *)
(* and the value *)
NamesBin(l) == FlattenSeq([k \in DOMAIN l |-> l[k].n \o <<0, l[k].v>>])

(* Mutant: the value is looked for at the end of the name. *)
NamesFromBin_Short(b, n) ==
    LET read(s, k) == LET len == StrLen(SubSeq(b, s.at, Len(b)))
                      IN  [at |-> s.at + len + 2,
                           l |-> Append(s.l, [v |-> b[s.at + len], n |-> SubSeq(b, s.at, s.at + len - 1)])]
    IN  FoldLeft(read, [at |-> 1, l |-> <<>>], [k \in 1 .. n |-> k]).l

(* namelist_set_bin_value of n entries *)
NamesFromBin(b, n) ==
    LET read(s, k) == LET len == StrLen(SubSeq(b, s.at, Len(b)))
                      IN  [at |-> s.at + len + 2,
                           l |-> Append(s.l, [v |-> b[s.at + len + 1], n |-> SubSeq(b, s.at, s.at + len - 1)])]
    IN  FoldLeft(read, [at |-> 1, l |-> <<>>], [k \in 1 .. n |-> k]).l

(* define_set_text_value of an element whose count says size: it reads as  *)
(* many characters as define_get_text_value wrote, whatever more there is. *)
DefineRead(t, size) == RadixBin(SubSeq(t, 1, Radix64Len(size)), size)

-----------------------------------------------------------------------------
(* The steps *)

IntKinds == {"INT", "UINT32", "UCHAR", "UINT64"}
EntryKinds == {"ENUM", "BENUM", "FLAG", "BFLAG"}

IntValues(kind) ==
    CASE kind = "INT" -> -(2^(CvInt - 1)) .. 2^(CvInt - 1) - 1
      [] OTHER -> 0 .. 2^IntBits(kind) - 1

DigestBytes == {0, 7, 16, 255}
NameLists == {<<>>} \cup {<<[v |-> a, n |-> "p"]>> : a \in 1 .. 3}
             \cup {<<[v |-> p[1], n |-> "p"], [v |-> p[2], n |-> "q"]>> :
                     p \in {x \in (1 .. 4) \X (1 .. 12) : x[1] < x[2]}}

BinKinds == {"BIN16", "BIN32", "BIN64", "NAMESBIN"}
BinSize(kind) == CASE kind = "BIN16" -> 2 [] kind = "BIN32" -> 4 [] kind = "BIN64" -> 8

Items(n) == UNION {[1 .. k -> {"a", " ", ",", "]"}] : k \in 0 .. n}

CvValues(kind) ==
    CASE kind \in IntKinds   -> IntValues(kind)
      [] kind = "ARRAY"      -> UNION {[1 .. n -> Items(2)] : n \in 0 .. 2} \cup [1 .. 3 -> Items(1)]
      [] kind \in EntryKinds -> 0 .. 2^EntryBits(kind) - 1
      [] kind = "UUID"       -> [1 .. CvDigest -> DigestBytes]
      [] kind = "HEXDATA"    -> [1 .. 2 -> DigestBytes \cup {9 * 16 + 3}]
      [] kind = "NAMESBIN"   ->
           UNION {[1 .. n -> [v : {0, 7}, n : {<<>>, <<7>>, <<7, 16>>}]] : n \in 0 .. 2}
      [] kind \in BinKinds   -> 0 .. 2^BinSize(kind) - 1
      [] kind \in {"BINDATA", "DEFINE"} -> UNION {[1 .. n -> DigestBytes] : n \in 1 .. 4}
      [] kind = "NAMELIST"   -> NameLists

CvKinds == IntKinds \cup EntryKinds \cup {"UUID", "HEXDATA", "BINDATA", "DEFINE", "NAMELIST", "ARRAY"}
           \cup BinKinds

CvStart(kind, v) == [pc |-> "value", kind |-> kind, val |-> v]
CvTyped(t) == [pc |-> "typed", kind |-> "TEXT", text |-> t]

CvInit ==
    \/ \E kind \in CvKinds : \E v \in CvValues(kind) : cv = CvStart(kind, v)
    \/ \E t \in CvTexts : cv = CvTyped(t)

(* The element is written: get_text_value *)
TextOf(kind, v) ==
    CASE kind \in IntKinds          -> IntText(kind, v)
      [] kind \in {"ENUM", "BENUM"} -> EnumText(v)
      [] kind \in {"FLAG", "BFLAG"} -> FlagText(v)
      [] kind = "UUID"              -> UuidText(v)
      [] kind = "HEXDATA"           -> HexText(v)
      [] kind = "NAMESBIN"          -> NamesBin(v)
      [] kind \in BinKinds          -> NumberBin(BinSize(kind), v)
      [] kind \in {"BINDATA", "DEFINE"} -> Radix64(v)
      [] kind = "NAMELIST"          -> NamelistText(v)
      [] kind = "ARRAY"             -> ArrayText(v)

Write ==
    /\ cv.pc = "value"
    /\ ~(cv.kind \in {"ENUM", "BENUM"} /\ EnumText(cv.val) = <<>>)
    /\ cv' = [pc |-> "text", kind |-> cv.kind, val |-> cv.val, text |-> TextOf(cv.kind, cv.val)]

(* The text is read into a fresh element: set_text_value.  What int, enum  *)
(* and flag leave in it may depend on the stack.                           *)
BackOf(kind, v, t) ==
    CASE kind \in IntKinds -> IF IntRead(t) = EINVAL THEN {EINVAL} ELSE IntStored(kind, IntRead(t))
      [] kind \in {"ENUM", "BENUM"} -> EnumRead(kind, t)
      [] kind \in {"FLAG", "BFLAG"} -> {FlagRead(kind, t)}
      [] kind = "UUID"     -> {UuidRead(t)}
      [] kind = "HEXDATA"  -> {HexRead(t, Len(v), [k \in DOMAIN v |-> 0])}
      [] kind = "NAMESBIN" -> {NamesFromBin(t, Len(v))}
      [] kind \in BinKinds -> NumberFromBin(BinSize(kind), t)
      [] kind = "BINDATA"  -> {RadixBin(t, Len(v))}
      [] kind = "DEFINE"   -> {DefineRead(t \o <<1>>, Len(v))}
      [] kind = "NAMELIST" -> {NamelistRead(t)}
      [] kind = "ARRAY"    -> {ArrayRead(StripArray(JsonArray(t)), Len(v)).items}

Refused(kind, t) ==
    \/ kind \in IntKinds /\ IntRead(t) = EINVAL
    \/ kind = "BENUM" /\ EINVAL \in EnumRead(kind, t)
    \/ kind \in {"FLAG", "BFLAG"} /\ FlagRead(kind, t) = EINVAL

ReadBack ==
    /\ cv.pc = "text"
    /\ \E b \in BackOf(cv.kind, cv.val, cv.text) :
         cv' = [pc |-> "done", kind |-> cv.kind, val |-> cv.val, text |-> cv.text, back |-> b,
                refused |-> Refused(cv.kind, cv.text),
                next |-> IF cv.kind \in EntryKinds THEN NextAfter(cv.kind, cv.text) ELSE 1]

(* A typed text is read as an int, as a count and by Atoi. *)
ReadTyped ==
    /\ cv.pc = "typed"
    /\ cv' = [pc |-> "read", kind |-> "TEXT", text |-> cv.text,
              int |-> <<IntRead(cv.text)>>, string |-> <<StringValue(cv.text)>>,
              atoi |-> <<Atoi(cv.text)>>]

CvNext == Write \/ ReadBack \/ ReadTyped

CvSpec == CvInit /\ [][CvNext]_cv

-----------------------------------------------------------------------------
(* Properties *)

Done(kinds) == cv.pc = "done" /\ cv.kind \in kinds

(* A number written as text is read back by int_set_text_value, also the   *)
(* largest of its type; but a negative int, and a UCHAR in the upper half, *)
(* which is written as a negative number, are refused, and of a 64-bit     *)
(* number only the lower half is sure.                                     *)
CvIntReadsBack ==
    /\ Done({"UINT32"}) => cv.back = cv.val
    /\ Done({"INT"}) => IF cv.val >= 0 THEN cv.back = cv.val ELSE cv.refused
    /\ Done({"UCHAR"}) => IF cv.val < 2^(CvByte - 1) THEN cv.back = cv.val ELSE cv.refused
    /\ Done({"UINT64"}) => Wrapped(cv.back, CvInt) = Wrapped(cv.val, CvInt)

Single == \A j, k \in DOMAIN CvFlags :
            j # k => Bits(CvFlags[j].v) \cap Bits(CvFlags[k].v) = {}

(* The text of an enumeration is read back; so is the text of flags, as    *)
(* far as the list has names for the bits.                                 *)
CvNamesReadBack ==
    /\ Done({"ENUM", "BENUM"}) /\ ~cv.refused => cv.back = cv.val
    /\ Done({"FLAG", "BFLAG"}) /\ Single =>
         Bits(cv.back) = UNION {Bits(CvFlags[k].v) : k \in
                                 {j \in DOMAIN CvFlags : Bits(CvFlags[j].v) \cap Bits(cv.val) # {}}}

(* Reading an enumeration or flags changes nothing but the element, except *)
(* that "NULL" in a short element clears what lies behind it.              *)
CvNeighbourKept ==
    Done(EntryKinds) /\ ~(cv.text = <<"NULL">> /\ cv.kind \in {"BENUM", "BFLAG"}) => cv.next = 1

(* A digest reads back from its text, and so does a name, unless it is as  *)
(* long as the longest name uuid_get_text_value takes for one.             *)
CvUuidReadsBack ==
    Done({"UUID"}) =>
      IF IsName(cv.val) /\ StrLen(cv.val) = NameLimit THEN cv.back = <<>> ELSE cv.back = cv.val

(* Binary data of every length read back from radix64, and both sides      *)
(* compute the length the other one produces.                              *)
CvBinReadsBack ==
    Done({"BINDATA", "DEFINE"}) =>
      /\ cv.back = cv.val
      /\ Len(cv.text) = Radix64Len(Len(cv.val)) /\ RadixBinLen(Len(cv.text)) = Len(cv.val)

(* In the binary form a 16-bit number and a name list come back as they    *)
(* were; of a 64-bit number only its lower half is sent, with the sign of  *)
(* an int, and of a 32-bit number nothing is sure (Decode_UINT32).         *)
CvBlobReadsBack ==
    /\ Done({"BIN16", "NAMESBIN"}) => cv.back = cv.val
    /\ Done({"BIN64"}) => (cv.back = cv.val <=> (cv.val < 2^3 \/ cv.val >= 2^8 - 2^3))

(* Of hexadecimal data the first half reads back, and it only where it has *)
(* no letters.                                                             *)
CvHexReadsBack ==
    Done({"HEXDATA"}) =>
      \A k \in 1 .. Len(cv.val) \div 2 :
        cv.val[k] % 16 < 10 /\ cv.val[k] \div 16 < 10 => cv.back[k] = cv.val[k]

(* A name list reads back from its text with every value, those that are   *)
(* left out included.                                                      *)
CvNamelistReadsBack == Done({"NAMELIST"}) => cv.back = cv.val

(* Items that are not empty and have no comma, bracket or leading blank    *)
(* come back from JSON, each in its place; the same text in a string, as   *)
(* struct_write_elem_text takes it, is stored like that and then refused.  *)
Plainly(item) == item # <<>> /\ item[1] # " " /\ \A c \in {",", "]"} : c \notin Range(item)
CvArrayReadsBack ==
    Done({"ARRAY"}) /\ (\A k \in DOMAIN cv.val : Plainly(cv.val[k])) =>
      /\ cv.back = cv.val
      /\ ArrayRead(cv.text, Len(cv.val)).items = cv.val
      /\ ArrayRead(cv.text, Len(cv.val)).bad = (cv.val # <<>>)

(* The reference: the number a text means, its spaces and its base aside. *)
Meaning(t) ==
    IF t # <<>> /\ \A k \in DOMAIN t : t[k] \in Range(DigitChars)
    THEN IF t[1] # "0" THEN FoldLeft(LAMBDA n, c : Wrapped(n * 10 + CharValue(c), CvInt), 0, t)
         ELSE IF Len(t) = 1 THEN 0 ELSE EINVAL
    ELSE EINVAL

(* A decimal text is read as the number it means, by int_set_text_value    *)
(* and by Atoi alike.  get_string_value agrees only where the text starts  *)
(* with its first 0.                                                       *)
CvTypedNumber ==
    cv.pc = "read" =>
      /\ Meaning(cv.text) # EINVAL => cv.int = <<Meaning(cv.text)>> /\ cv.atoi = cv.int
      /\ cv.text # <<>> /\ cv.text[1] = "0" => cv.string = cv.int

(* What struct_ops.c and enum_flag_ops.c write for an element, as text or  *)
(* as bytes, they read back, within the limits named above.                *)
CvReadsBack ==
    /\ CvIntReadsBack /\ CvNamesReadBack
    /\ CvUuidReadsBack /\ CvBinReadsBack /\ CvBlobReadsBack
    /\ CvHexReadsBack /\ CvNamelistReadsBack /\ CvArrayReadsBack

(* A text somebody typed becomes the number it denotes or none, and no     *)
(* text reaches the element behind the one it is for.                      *)
CvStaysInField == CvNeighbourKept /\ CvTypedNumber
=============================================================================
