-------------------------------- MODULE Strings --------------------------------
(***************************************************************************)
(* The texts of bitpowder (simplestring.h, simplestring.cpp) and the parser *)
(* that takes them apart (stringparse.h).  A String is a view on characters *)
(* that others own: here a sequence of character codes.                     *)
(***************************************************************************)
EXTENDS SequencesExt, Integers, Bitwise

CONSTANTS Texts,     \* that are converted
          Parsed,    \* those of them that are taken apart
          Classes,   \* sets of characters, to span and to split on
          Markers,   \* texts to look for and to accept
          Names,     \* those of Texts that are compared
          Bits       \* of the number type, a signed one

VARIABLES text,        \* the text as it was
          parser,      \* StringParse: what is left of it, the result, the error
          front, back, \* history: what was taken from either end, delimiters included
          step         \* history: the last operation, its argument and what was left before

stringVars == <<text, parser, front, back, step>>

Ch == [space |-> 32, percent |-> 37, plus |-> 43, comma |-> 44, minus |-> 45, dot |-> 46,
       slash |-> 47, zero |-> 48, nine |-> 57, colon |-> 58, equals |-> 61, A |-> 65, F |-> 70,
       Z |-> 90, underscore |-> 95, a |-> 97, f |-> 102, z |-> 122, tilde |-> 126,
       ampersand |-> 38]

Digits == Ch.zero .. Ch.nine
Capitals == Ch.A .. Ch.Z
Letters == Ch.a .. Ch.z

toUpper(c) == IF c \in Letters THEN c - Ch.a + Ch.A ELSE c
toLower(c) == IF c \in Capitals THEN c - Ch.A + Ch.a ELSE c
Lower(t) == [i \in DOMAIN t |-> toLower(t[i])]
-------------------------------------------------------------------------------
(* substring(pos), and the first characters: String(ptr, length).           *)
From(t, pos) == SubSeq(t, pos + 1, Len(t))
Upto(t, length) == SubSeq(t, 1, length)

(* What an operation returns, what it stores in next, and what is in neither. *)
Cut(piece, next, delim) == [piece |-> piece, next |-> next, delim |-> delim]
Whole(t) == Cut(t, <<>>, <<>>)

Span(t, class) ==
    LET l == SelectInSeq(t, LAMBDA c : c \notin class)
    IN  IF l = 0 THEN Whole(t) ELSE Cut(Upto(t, l - 1), From(t, l - 1), <<>>)

RSpan(t, class) ==
    LET l == SelectLastInSeq(t, LAMBDA c : c \notin class)
    IN  IF l = 0 THEN Whole(t) ELSE Cut(From(t, l), Upto(t, l), <<>>)

Trim(t) == RSpan(Span(t, {Ch.space}).next, {Ch.space}).next

SplitOn(t, class) ==
    LET l == SelectInSeq(t, LAMBDA c : c \in class)
    IN  IF l = 0 THEN Whole(t) ELSE Cut(Upto(t, l - 1), From(t, l), <<t[l]>>)

(* The last delimiter; the first is as if it stayed in what is left.         *)
RSplitOnKeeping(t, class) ==
    LET l == SelectLastInSeq(t, LAMBDA c : c \in class)
    IN  IF l = 0 THEN Whole(t) ELSE Cut(From(t, l), Upto(t, l), <<t[l]>>)
RSplitOn(t, class) ==
    LET l == SelectLastInSeq(t, LAMBDA c : c \in class)
    IN  IF l = 0 THEN Whole(t) ELSE Cut(From(t, l), Upto(t, l - 1), <<t[l]>>)

(* memcmp or strncasecmp with the characters behind l.                      *)
HasAt(t, s, l, ignoreCase) ==
    LET here == SubSeq(t, l + 1, l + Len(s))
    IN  IF ignoreCase THEN Lower(here) = Lower(s) ELSE here = s
Places(t, s, ignoreCase) ==
    IF s = <<>> THEN {} ELSE {l \in 0 .. Len(t) - Len(s) : HasAt(t, s, l, ignoreCase)}

(* split() and rsplit() do not say whether they found s: search() compares. *)
Found(t, piece, s) == IF piece = t THEN <<>> ELSE s

Split(t, s, ignoreCase) ==
    LET at == Places(t, s, ignoreCase)
        l  == Min(at)
    IN  IF at = {} THEN Whole(t)
        ELSE Cut(Upto(t, l), From(t, l + Len(s)), Found(t, Upto(t, l), s))

RSplit(t, s, ignoreCase) ==
    LET at == Places(t, s, ignoreCase)
        l  == Max(at)
    IN  IF at = {} THEN Whole(t)
        ELSE Cut(From(t, l + Len(s)), Upto(t, l), Found(t, From(t, l + Len(s)), s))

ContainsText(t, s, ignoreCase) == Len(Split(t, s, ignoreCase).piece) < Len(t)
StartsWith(t, s) == Len(s) <= Len(t) /\ Upto(t, Len(s)) = s
EndsWith(t, s) == Len(s) <= Len(t) /\ From(t, Len(t) - Len(s)) = s

(* File names.                                                              *)
Base(t) == RSplitOn(t, {Ch.slash}).piece
Dir(t) ==
    LET dir == RSplitOn(t, {Ch.slash}).next
    IN  IF dir # <<>> THEN dir
        ELSE IF t # <<>> /\ t[1] = Ch.slash THEN <<Ch.slash>> ELSE <<Ch.dot>>
Extension(t) ==
    LET cut == RSplitOn(Base(t), {Ch.dot}) IN IF cut.next = <<>> THEN <<>> ELSE cut.piece
-------------------------------------------------------------------------------
(* Numbers.  toNumber() takes any letter of either case in a base over ten; *)
(* maxToNumber() tells the cases apart.                                     *)
Wrapped(n) ==
    LET m == n % (2 ^ Bits) IN IF m >= 2 ^ (Bits - 1) THEN m - 2 ^ Bits ELSE m

DigitsOf(max, base) ==
    Digits \cup (IF base > 10 THEN Letters ELSE {})
           \cup (IF base > 10 /\ (max => base > 36) THEN Capitals ELSE {})
           \cup (IF max /\ base > 62 THEN {Ch.underscore} ELSE {})
           \cup (IF max /\ base > 63 THEN {Ch.dot} ELSE {})

DigitValue(c, max) ==
    CASE c \in Digits        -> c - Ch.zero
      [] c \in Letters       -> c - Ch.a + 10
      [] c \in Capitals      -> c - Ch.A + (IF max THEN 36 ELSE 10)
      [] c = Ch.underscore   -> 62
      [] c = Ch.dot          -> 63

ToNumber(t, max, base) ==
    LET isNegative == t # <<>> /\ t[1] = Ch.minus
        digits == Span(IF isNegative THEN From(t, 1) ELSE t, DigitsOf(max, base))
        value  == FoldLeft(LAMBDA n, c : Wrapped(Wrapped(n * base) + DigitValue(c, max)), 0,
                           digits.piece)
    IN  [value |-> IF isNegative THEN Wrapped(-value) ELSE value,
         next  |-> IF digits.piece = <<>> THEN t ELSE digits.next]

(* NumberToStringObject: the digits from the last on, then zeros up to the  *)
(* precision and a minus sign, in a buffer that ends with the last digit.   *)
Chr(r) ==
    CASE r < 10 -> Ch.zero + r
      [] r \in 10 .. 35 -> Ch.a + r - 10
      [] r \in 36 .. 61 -> Ch.A + r - 36
      [] r = 62 -> Ch.underscore
      [] r = 63 -> Ch.dot

BufferSize(base) ==
    1 + 1 + (IF base = 10 THEN Max({n \in 0 .. Bits : 10 ^ n <= 2 ^ (Bits - 1)})
             ELSE IF base = 16 THEN (Bits - 1) \div 4 ELSE (Bits - 1) \div 6)

NumberToString(n, precision, base) ==
    LET size == IF n < 0 THEN -n ELSE n
        digits[i \in 0 .. size] ==
            IF i = 0 THEN <<>> ELSE Append(digits[i \div base], Chr(i % base))
        zeros == Min({precision, BufferSize(base)}) - Len(digits[size])
        padded == [i \in 1 .. zeros |-> Ch.zero] \o digits[size]
    IN  IF n < 0 THEN <<Ch.minus>> \o padded ELSE padded
-------------------------------------------------------------------------------
(* Escapes, and base 64.                                                    *)
Plain == Letters \cup Capitals \cup Digits \cup
         {Ch.minus, Ch.tilde, Ch.dot, Ch.slash, Ch.comma, Ch.equals, Ch.ampersand, Ch.colon}

toDigit(value) == IF value < 10 THEN Ch.zero + value ELSE Ch.A + value - 10
fromDigit(c) ==
    CASE c \in Ch.A .. Ch.F -> 10 + c - Ch.A
      [] c \in Ch.a .. Ch.f -> 10 + c - Ch.a
      [] c \in Digits -> c - Ch.zero
      [] OTHER -> 0

Escape(t) ==
    FlattenSeq([i \in DOMAIN t |->
        IF t[i] \in Plain THEN <<t[i]>>
        ELSE <<Ch.percent, toDigit(t[i] \div 16), toDigit(t[i] % 16)>>])

RECURSIVE Unescape(_)
Unescape(t) ==
    IF t = <<>> THEN <<>>
    ELSE IF t[1] = Ch.plus THEN <<Ch.space>> \o Unescape(From(t, 1))
    ELSE IF t[1] = Ch.percent /\ Len(t) > 2
         THEN <<fromDigit(t[2]) * 16 + fromDigit(t[3])>> \o Unescape(From(t, 3))
    ELSE <<t[1]>> \o Unescape(From(t, 1))

Padding == -2
Bad == -1
FromBase64(c) ==
    CASE c \in Capitals -> c - Ch.A
      [] c \in Letters  -> c - Ch.a + 26
      [] c \in Digits   -> c - Ch.zero + 52
      [] c = Ch.plus    -> 62
      [] c = Ch.slash   -> 63
      [] c = Ch.equals  -> Padding
      [] OTHER          -> Bad

(* The bytes of a group; the last one may be short, bad or padded.          *)
Bytes(d) ==
    LET first  == (d[1] * 4 + d[2] \div 16) % 256
        second == (d[2] % 16) * 16 + d[3] \div 4
        third  == (d[3] % 4) * 64 + d[4]
    IN  IF Bad \in Range(d) \/ d[2] < 0 THEN <<>>
        ELSE IF d[3] < 0 THEN <<first>>
        ELSE IF d[4] < 0 THEN <<first, second>> ELSE <<first, second, third>>

RECURSIVE Base64Decode(_)
Base64Decode(t) ==
    LET d == [j \in 1 .. 4 |-> IF j > Len(t) THEN Bad ELSE FromBase64(t[j])]
    IN  IF t = <<>> THEN <<>>
        ELSE IF Len(t) > 4 /\ Range(d) \cap {Padding, Bad} = {}
             THEN Bytes(d) \o Base64Decode(From(t, 4))
        ELSE Bytes(d)
-------------------------------------------------------------------------------
(* Comparisons.                                                             *)
EqualsIgnoreCase(a, b) ==
    Len(a) = Len(b) /\ \A i \in DOMAIN a : toUpper(a[i]) = toUpper(b[i])

(* memcmp, and lexicographical_compare.                                     *)
Precedes(a, b) ==
    LET n == Len(LongestCommonPrefix({a, b}))
    IN  n < Len(b) /\ (n = Len(a) \/ a[n + 1] < b[n + 1])

LessText(a, b) == IF Len(a) # Len(b) THEN Len(a) < Len(b) ELSE Precedes(a, b)
LessIgnoreCaseAlfa(a, b) == Precedes(Lower(a), Lower(b))
LessIgnoreCase(a, b) == IF Len(a) # Len(b) THEN Len(a) < Len(b) ELSE LessIgnoreCaseAlfa(a, b)

(* djb2a, of 32 bits: the upper and the lower 16.                           *)
StableHash(t, ignoreCase) ==
    LET Mix(hash, c) ==
            LET low  == hash[2] * 33
                high == (hash[1] * 33 + low \div 2 ^ 16) % 2 ^ 16
            IN  <<high, (low % 2 ^ 16) ^^ (IF ignoreCase THEN toUpper(c) ELSE c)>>
    IN  FoldLeft(Mix, <<0, 5381>>, t)

(* compareUsingVersion(): states of the table, and classes of characters.   *)
Class(c) == IF c = Ch.zero THEN "0" ELSE IF c \in Digits THEN "d" ELSE "x"
NextState ==
    [N |-> [x |-> "N", d |-> "I"] @@ ("0" :> "Z"),
     I |-> [x |-> "N", d |-> "I"] @@ ("0" :> "I"),
     F |-> [x |-> "N", d |-> "F"] @@ ("0" :> "F"),
     Z |-> [x |-> "N", d |-> "F"] @@ ("0" :> "Z")]

(* What the first difference means: its sign, a longer number, or a table's.*)
ResultType(state, c1, c2) ==
    CASE state \in {"N", "F"} /\ c1 = "d" /\ c2 = "d" -> "LEN"
      [] state = "I" /\ c1 # "x" /\ c2 # "x" -> "LEN"
      [] state = "I" /\ c1 = "x" /\ c2 # "x" -> "less"
      [] state = "I" /\ c1 # "x" /\ c2 = "x" -> "more"
      [] state = "Z" /\ c1 = "x" /\ c2 # "x" -> "more"
      [] state = "Z" /\ c1 # "x" /\ c2 = "x" -> "less"
      [] OTHER -> "CMP"

CompareUsingVersion(a, b) ==
    LET At(t, i) == IF i > Len(t) THEN 0 ELSE t[i]
        i == Len(LongestCommonPrefix({a, b})) + 1
        state[n \in 0 .. i] == IF n = 0 THEN "N" ELSE NextState[state[n - 1]][Class(At(a, n))]
        result == ResultType(state[i - 1], Class(At(a, i)), Class(At(b, i)))
        diff == At(a, i) - At(b, i)
        more(t) == Len(Span(From(t, Min({i, Len(t)})), Digits).piece)
    IN  IF a = b THEN 0
        ELSE CASE result = "CMP" -> diff
               [] result = "less" -> -1
               [] result = "more" -> 1
               [] more(a) > more(b) -> 1
               [] more(a) < more(b) -> -1
               [] OTHER -> diff
-------------------------------------------------------------------------------
(* StringParse.  All but parse() leave it as it is after an error.          *)
Step(op, arg, cut) ==
    step' = [op |-> op, arg |-> arg, before |-> parser.left, piece |-> cut.piece,
             delim |-> cut.delim]

TakeFront(cut) ==
    /\ parser' = [parser EXCEPT !.left = cut.next]
    /\ front' = front \o cut.piece \o cut.delim /\ UNCHANGED <<text, back>>
TakeBack(cut) ==
    /\ parser' = [parser EXCEPT !.left = cut.next]
    /\ back' = cut.delim \o cut.piece \o back /\ UNCHANGED <<text, front>>

span(class) ==
    LET cut == Span(parser.left, class)
    IN  parser.error = 0 /\ TakeFront(cut) /\ Step("span", class, cut)
rspan(class) ==
    LET cut == RSpan(parser.left, class)
    IN  parser.error = 0 /\ TakeBack(cut) /\ Step("rspan", class, cut)
splitOn(class) ==
    LET cut == SplitOn(parser.left, class)
    IN  parser.error = 0 /\ TakeFront(cut) /\ Step("splitOn", class, cut)
rsplitOn(class) ==
    LET cut == RSplitOn(parser.left, class)
    IN  parser.error = 0 /\ TakeBack(cut) /\ Step("rsplitOn", class, cut)
split(s, ignoreCase) ==
    LET cut == Split(parser.left, s, ignoreCase)
    IN  parser.error = 0 /\ TakeFront(cut) /\ Step("split", <<s, ignoreCase>>, cut)
rsplit(s, ignoreCase) ==
    LET cut == RSplit(parser.left, s, ignoreCase)
    IN  parser.error = 0 /\ TakeBack(cut) /\ Step("rsplit", <<s, ignoreCase>>, cut)

Fail == parser' = [parser EXCEPT !.error = 1] /\ UNCHANGED <<text, front, back>>

search(s, ignoreCase) ==
    LET cut == Split(parser.left, s, ignoreCase)
    IN  /\ parser.error = 0 /\ Step("search", <<s, ignoreCase>>, cut)
        /\ IF cut.piece = parser.left THEN Fail ELSE TakeFront(cut)
rsearch(s) ==
    LET cut == RSplit(parser.left, s, FALSE)
    IN  /\ parser.error = 0 /\ Step("search", <<s, FALSE>>, cut)
        /\ IF cut.piece = parser.left THEN Fail ELSE TakeBack(cut)

parse ==
    LET number == ToNumber(parser.left, FALSE, 10)
        read   == Upto(parser.left, Len(parser.left) - Len(number.next))
    IN  /\ Step("parse", <<>>, Cut(read, number.next, <<>>))
        /\ IF number.next = parser.left THEN Fail
           ELSE /\ parser' = [parser EXCEPT !.left = number.next, !.result = number.value]
                /\ front' = front \o read /\ UNCHANGED <<text, back>>

(* A path is the texts that it accepts, one after the other.                *)
AcceptText(p, s) ==
    IF p.error # 0 THEN p
    ELSE IF StartsWith(p.left, s) THEN [p EXCEPT !.left = From(@, Len(s))]
    ELSE [p EXCEPT !.error = 1]
Perform(p, path) == FoldLeft(AcceptText, p, path)

RECURSIVE Choose(_, _), First(_, _)
Choose(p, paths) ==
    LET q == Perform(p, Head(paths))
    IN  IF Len(paths) = 1 \/ q.error = 0 THEN q ELSE Choose(p, Tail(paths))

(* Of two paths the one that leaves more: a failed one may well.            *)
First(p, paths) ==
    LET q1 == Perform(p, Head(paths))
        q2 == First(p, Tail(paths))
    IN  IF Len(paths) = 1 THEN q1
        ELSE IF q1.error # 0 /\ q2.error # 0 THEN [p EXCEPT !.error = q1.error]
        ELSE [p EXCEPT !.left = IF q2.error # 0 \/ Len(q1.left) > Len(q2.left)
                                THEN q1.left ELSE q2.left]

TakePath(op, paths, p) ==
    /\ parser.error = 0 /\ parser' = p
    /\ Step(op, paths, Whole(Upto(parser.left, Len(parser.left) - Len(p.left))))
    /\ front' = front \o step'.piece /\ UNCHANGED <<text, back>>

perform(path) == TakePath("perform", <<path>>, Perform(parser, path))
opt(path) ==
    LET p == Perform(parser, path)
    IN  TakePath("opt", <<path>>, IF p.error = 0 THEN p ELSE parser)
choose(paths) == TakePath("choose", paths, Choose(parser, paths))
first(paths) == TakePath("first", paths, First(parser, paths))
-------------------------------------------------------------------------------
StringInit ==
    /\ text \in Texts
    /\ parser = [left |-> text, result |-> 0, error |-> 0]
    /\ front = <<>> /\ back = <<>>
    /\ step = [op |-> "none"]

Paths == {<<s>> : s \in Markers} \cup {<<s1, s2>> : s1, s2 \in Markers}

StringNext ==
    /\ text \in Parsed
    /\ \/ parse
       \/ \E class \in Classes :
             span(class) \/ rspan(class) \/ splitOn(class) \/ rsplitOn(class)
       \/ \E s \in Markers, ignoreCase \in BOOLEAN :
             split(s, ignoreCase) \/ rsplit(s, ignoreCase) \/ search(s, ignoreCase)
       \/ \E s \in Markers : rsearch(s)
       \/ \E path \in Paths : perform(path) \/ opt(path)
       \/ \E path1, path2 \in Paths : choose(<<path1, path2>>) \/ first(<<path1, path2>>)
-------------------------------------------------------------------------------
(* Where s is in t, of all places.                                          *)
Occurs(s, t, ignoreCase) ==
    \E t1 \in Prefixes(t) : IF ignoreCase THEN IsSuffix(Lower(s), Lower(t1)) ELSE IsSuffix(s, t1)

Avoids(t, class) == Range(t) \cap class = {}

(* What one operation gave is what its name says of the text it was given.  *)
(* Of first nothing is said when its first path fails: _first may then keep  *)
(* what the failed path left (stringparse.h:433).                           *)
PieceIsRight ==
    LET left   == parser.left
        whole  == step.delim = <<>>
        s      == step.arg[1]
        Matches(path) == IsPrefix(FlattenSeq(path), step.before)
        Goes(path) == step.piece = FlattenSeq(path)
    IN  CASE step.op = "span" ->
               Range(step.piece) \subseteq step.arg /\ (left # <<>> => left[1] \notin step.arg)
          [] step.op = "rspan" ->
               Range(step.piece) \subseteq step.arg /\ (left # <<>> => Last(left) \notin step.arg)
          [] step.op \in {"splitOn", "rsplitOn"} ->
               /\ Avoids(step.piece, step.arg) /\ Range(step.delim) \subseteq step.arg
               /\ whole => left = <<>>
          [] step.op = "split" ->
               ~ Occurs(s, IF whole THEN step.before ELSE step.piece \o Front(s), step.arg[2])
          [] step.op = "rsplit" ->
               ~ Occurs(s, IF whole THEN step.before ELSE Tail(s) \o step.piece, step.arg[2])
          [] step.op = "search" ->
               parser.error = 0 <=> Occurs(s, step.before, step.arg[2])
          [] step.op = "perform" -> parser.error = 0 <=> Matches(s) /\ Goes(s)
          [] step.op = "opt" -> IF Matches(s) THEN Goes(s) ELSE left = step.before
          [] step.op = "choose" ->
               IF Matches(s) THEN Goes(s)
               ELSE parser.error = 0 <=> Matches(step.arg[2]) /\ Goes(step.arg[2])
          [] step.op = "first" /\ Matches(s) ->
               /\ Goes(s) \/ (Matches(step.arg[2]) /\ Goes(step.arg[2]))
               /\ Matches(step.arg[2]) =>
                      \A path \in Range(step.arg) : Len(step.piece) <= Len(FlattenSeq(path))
          [] OTHER -> TRUE

(* A text of bytes in base 64, as RFC 4648 has it.                          *)
Base64Digit(d) == CHOOSE c \in 0 .. 127 : FromBase64(c) = d
Base64(t) ==
    LET At(i) == IF i > Len(t) THEN 0 ELSE t[i]
        group(k) == LET i == 3 * k - 2
                        d == <<At(i) \div 4, (At(i) % 4) * 16 + At(i + 1) \div 16,
                               (At(i + 1) % 16) * 4 + At(i + 2) \div 64, At(i + 2) % 64>>
                    IN  [j \in 1 .. 4 |-> IF i + j - 2 > Len(t) THEN Ch.equals
                                         ELSE Base64Digit(d[j])]
    IN  FlattenSeq([k \in 1 .. (Len(t) + 2) \div 3 |-> group(k)])

ConversionsKeepText ==
    LET slash == RSplitOn(text, {Ch.slash}).delim
        trimmed == Trim(text)
    IN  /\ Unescape(Escape(text)) = text
        /\ Base64Decode(Base64(text)) = text
        /\ \E n, m \in 0 .. Len(text) :
              text = [i \in 1 .. n |-> Ch.space] \o trimmed \o [i \in 1 .. m |-> Ch.space]
        /\ trimmed # <<>> => trimmed[1] # Ch.space /\ Last(trimmed) # Ch.space
        /\ Avoids(Base(text), {Ch.slash}) /\ EndsWith(text, Base(text))
        /\ slash # <<>> => text \in {Dir(text) \o slash \o Base(text), slash \o Base(text)}
        /\ slash = <<>> => Dir(text) = <<Ch.dot>>
        /\ Extension(text) # <<>> => EndsWith(Base(text), <<Ch.dot>> \o Extension(text))
        /\ \A s \in Markers, ignoreCase \in BOOLEAN :
              ContainsText(text, s, ignoreCase) <=> Occurs(s, text, ignoreCase)

(* A number of the type, with a precision that leaves room for the sign.    *)
NumbersAreKept ==
    \A base \in {10, 16, 64}, n \in -(2 ^ (Bits - 1)) .. 2 ^ (Bits - 1) - 1 :
        \A precision \in 1 .. BufferSize(base) - 1 :
            LET t == NumberToString(n, precision, base)
            IN  /\ Len(t) <= BufferSize(base)
                /\ ToNumber(t, base = 64, base) = [value |-> n, next |-> <<>>]

(* less is what a map needs of it, and takes those for equal that same says.*)
OrdersAre(less, same, names) ==
    text \in names =>
        \A b, c \in names :
            /\ ~ (less[text][b] /\ less[b][text])
            /\ less[text][b] /\ less[b][c] => less[text][c]
            /\ ~ less[text][b] /\ ~ less[b][text] <=> same[text][b]

ByText == [a \in Names |-> [b \in Names |-> LessText(a, b)]]
ByLength == [a \in Names |-> [b \in Names |-> LessIgnoreCase(a, b)]]
ByLetter == [a \in Names |-> [b \in Names |-> LessIgnoreCaseAlfa(a, b)]]
ByVersion == [a \in Names |-> [b \in Names |-> CompareUsingVersion(a, b) < 0]]
Equal == [a \in Names |-> [b \in Names |-> a = b]]
EqualButCase == [a \in Names |-> [b \in Names |-> EqualsIgnoreCase(a, b)]]

(* No number begins with a zero and goes on: 012, 0112, 011a, 012 is a cycle.*)
Numbered ==
    {t \in Names \ {<<>>} : \A i \in 1 .. Len(t) - 1 :
        t[i] = Ch.zero /\ t[i + 1] \in Digits => i > 1 /\ t[i - 1] \in Digits}

NamesAreOrdered ==
    /\ OrdersAre(ByText, Equal, Names)
    /\ OrdersAre(ByLength, EqualButCase, Names)
    /\ OrdersAre(ByLetter, EqualButCase, Names)
    /\ OrdersAre(ByVersion, Equal, Numbered)
    /\ \A b \in Names : EqualButCase[text][b] => StableHash(text, TRUE) = StableHash(b, TRUE)

(* A text that is taken apart from both ends stays the same text: what was  *)
(* taken, with the delimiters the caller was told of, and what is left make *)
(* it up, and every piece is the one its operation promises.  Escaped,      *)
(* encoded and numbers come back as they were, and the comparisons that     *)
(* maps are kept in are strict orders that agree with equality and hashes.  *)
(* Excepted are first after a failed path (PieceIsRight), and the order by   *)
(* version of names in which a number begins with a zero (Numbered).        *)
TextsAreKept ==
    /\ Lower(front \o parser.left \o back) = Lower(text)
    /\ PieceIsRight
    /\ step.op = "none" => ConversionsKeepText
    /\ step.op = "none" /\ text = <<>> => NumbersAreKept
    /\ step.op = "none" /\ text \in Names => NamesAreOrdered
===============================================================================
