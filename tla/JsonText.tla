------------------------------- MODULE JsonText -------------------------------
(***************************************************************************)
(* JSON as it is written (xmv/datamodel/jsonprinter) and read              *)
(* (bitpowder/parser_json over bitpowder/parser).  A text is a sequence of *)
(* tokens, those that the lexer makes of the characters; a string is one   *)
(* token, also while it is written piece by piece.                         *)
(***************************************************************************)
EXTENDS SequencesExt, Integers

CONSTANTS Strings,     \* plain strings, the empty one "" among them
          Encoded,     \* of strings with a character that encodeString() escapes:
                       \* the tokens that the lexer makes of what is written
          Literals,    \* the same of booleans and of numbers with a fraction
          Letter,      \* what lessIgnoreCaseAlfa sees of each string token
          Numerals,    \* whole numbers and null, which are read alike
          Beginnings,  \* of files that are not written by the printer
          MaxText,     \* tokens the printer may write
          MaxTyped     \* tokens that may follow a beginning

VARIABLES printer,  \* JsonPrinter: its text, states and firstItem
          told,     \* history: the values that it was told to write, innermost last,
                    \* strings as they are escaped
          flawed,   \* history: a string was started where startString() goes wrong
          unread,   \* history: something was written that the lexer has no token for
          file      \* another text, and how much of it follows the beginning

jsonVars == <<printer, told, flawed, unread, file>>

(* What the lexer cannot tokenize, or a string right behind another one:    *)
(* nothing accepts either.                                                  *)
NoToken == "?"

(* encodeString(), operator<< and recognise(): what is written, as tokens.  *)
(* An escape is never undone: a backslash or a line break is read with the  *)
(* backslash before it, a quotation mark ends the string at its backslash;  *)
(* "true" is no token, and a number ends before its point.                  *)
Tokens(t) ==
    IF t \in DOMAIN Encoded THEN Encoded[t]
    ELSE IF t \in DOMAIN Literals THEN Literals[t] ELSE <<t>>
Escaped(t) == Tokens(t)[1]
Lost(t) == Last(Tokens(t)) = NoToken

StringTokens == Strings \cup ({Escaped(t) : t \in DOMAIN Encoded} \ {NoToken})
AnyString == Strings \cup DOMAIN Encoded

(* JSONData. *)
Value(type, leaf, array, object) ==
    [type |-> type, leaf |-> leaf, array |-> array, object |-> object]
Leaf(t) == Value("leaf", t, <<>>, {})
Array(s) == Value("array", "", s, {})
Object(s) == Value("object", "", <<>>, s)

(* Map::insert: a field whose name is there already is not inserted; the    *)
(* first is as a map that assigns would do it.                              *)
InsertLast(object, k, v) ==
    {f \in object : Letter[f[1]] # Letter[k]} \cup {<<k, v>>}
Insert(object, k, v) ==
    IF \E f \in object : Letter[f[1]] = Letter[k] THEN object ELSE object \cup {<<k, v>>}
------------------------------------------------------------------------------
(* The parser: at is the next token, value the result so far.               *)
Parse(at, err, value) == [at |-> at, err |-> err, value |-> value]

Sees(text, r, tokens) == r.at <= Len(text) /\ text[r.at] \in tokens
Failed(r) == [r EXCEPT !.err = TRUE]
Accept(text, r, tokens) ==
    IF r.err \/ ~ Sees(text, r, tokens) THEN Failed(r) ELSE [r EXCEPT !.at = @ + 1]

Firsts == StringTokens \cup Numerals \cup {"[", "{"}

RECURSIVE Expr(_, _), Entries(_, _), Fields(_, _)

(* arrayEntry(): the array with an entry more.                              *)
ArrayEntry(text, r) ==
    LET e == Expr(text, r)
    IN  [e EXCEPT !.value = IF e.err THEN r.value ELSE Array(Append(r.value.array, e.value))]

(* objectField(): a name, a colon and a value.                              *)
ObjectField(text, r) ==
    LET colon == Accept(text, Accept(text, r, StringTokens), {":"})
        e     == IF colon.err THEN colon ELSE Expr(text, colon)
    IN  [e EXCEPT !.value = IF e.err THEN r.value
                            ELSE Object(Insert(r.value.object, text[r.at], e.value))]

(* repeat(COMMA, ...): it ends before a token that is no comma, and after   *)
(* what fails behind a comma, which is then not an error any more.          *)
Forgiven(r) == [r EXCEPT !.err = FALSE]
Entries(text, r) ==
    IF r.err THEN Forgiven(r)
    ELSE IF ~ Sees(text, r, {","}) THEN r
    ELSE Entries(text, ArrayEntry(text, [r EXCEPT !.at = @ + 1]))
Fields(text, r) ==
    IF r.err THEN Forgiven(r)
    ELSE IF ~ Sees(text, r, {","}) THEN r
    ELSE Fields(text, ObjectField(text, [r EXCEPT !.at = @ + 1]))

(* arrayOp() and objectOp(): opt() looks at one token only, and what fails  *)
(* after it is an error.                                                    *)
ArrayOp(text, r) ==
    LET open  == [r EXCEPT !.at = @ + 1, !.value = Array(<<>>)]
        first == IF Sees(text, open, Firsts) THEN ArrayEntry(text, open) ELSE open
    IN  IF first.err THEN first ELSE Accept(text, Entries(text, first), {"]"})
ObjectOp(text, r) ==
    LET open  == [r EXCEPT !.at = @ + 1, !.value = Object({})]
        first == IF Sees(text, open, StringTokens) THEN ObjectField(text, open) ELSE open
    IN  IF first.err THEN first ELSE Accept(text, Fields(text, first), {"}"})

Expr(text, r) ==
    CASE Sees(text, r, StringTokens \cup Numerals) -> Parse(r.at + 1, FALSE, Leaf(text[r.at]))
      [] Sees(text, r, {"{"}) -> ObjectOp(text, r)
      [] Sees(text, r, {"["}) -> ArrayOp(text, r)
      [] OTHER -> Failed(r)

(* ParseJSON(): the values that the text is read as, one or none.           *)
ParseJSON(text) ==
    LET r == Expr(text, Parse(1, FALSE, Leaf("")))
    IN  IF r.err \/ r.at <= Len(text) THEN {} ELSE {r.value}
------------------------------------------------------------------------------
(* JsonPrinter *)
Top == Last(printer.states)
Comma == IF printer.firstItem THEN <<>> ELSE <<",">>

Push(state, tokens, firstItem) ==
    printer' = [text |-> printer.text \o tokens, states |-> Append(printer.states, state),
                firstItem |-> firstItem]
Pop(tokens, firstItem) ==
    printer' = [text |-> printer.text \o tokens, states |-> Front(printer.states),
                firstItem |-> firstItem]

(* Where its users write a value: into an array, after the name of a        *)
(* property, and once at the outermost level.                               *)
ValueExpected ==
    /\ Len(printer.text) < MaxText /\ file.text = <<>>
    /\ \/ Top = "InArray"
       \/ Top = "InProperty" /\ told = Front(told) \o <<Leaf(":")>>
       \/ Top = "Init" /\ told = <<>>

(* The value is done: it goes into what is around it.                       *)
Give(stack, v) ==
    IF stack = <<>> THEN <<v>>
    ELSE LET l == Last(stack) IN
         Append(Front(stack), IF l.type = "array" THEN Array(Append(l.array, v)) ELSE v)

StartObject ==
    /\ ValueExpected
    /\ Push("InObject", Comma \o <<"{">>, TRUE)
    /\ told' = Append(told, Object({})) /\ UNCHANGED <<flawed, unread, file>>

EndObject ==
    /\ Top = "InObject"
    /\ Pop(<<"}">>, FALSE)
    /\ told' = Give(Front(told), Last(told)) /\ UNCHANGED <<flawed, unread, file>>

StartArray ==
    /\ ValueExpected
    /\ Push("InArray", Comma \o <<"[">>, TRUE)
    /\ told' = Append(told, Array(<<>>)) /\ UNCHANGED <<flawed, unread, file>>

EndArray ==
    /\ Top = "InArray"
    /\ Pop(<<"]">>, FALSE)
    /\ told' = Give(Front(told), Last(told)) /\ UNCHANGED <<flawed, unread, file>>

(* told keeps the name and a place for the value.                           *)
StartProperty ==
    /\ Top = "InObject" /\ Len(printer.text) < MaxText
    /\ \E k \in AnyString :
          /\ Push("InProperty", Comma \o Tokens(k) \o <<":">>, TRUE)
          /\ told' = told \o <<Leaf(Escaped(k)), Leaf(":")>>
          /\ unread' = (unread \/ Lost(k))
    /\ UNCHANGED <<flawed, file>>

EndProperty ==
    /\ Top = "InProperty" /\ Last(told) # Leaf(":")
    /\ Pop(<<>>, printer.firstItem)
    /\ LET n == Len(told) IN
       told' = Append(SubSeq(told, 1, n - 3),
                      Object(Insert(told[n - 2].object, told[n - 1].leaf, told[n])))
    /\ UNCHANGED <<flawed, unread, file>>

(* writeString(), writeNumber(), writeBool(), writeNull(): only in an array *)
(* is there a comma, and only without one does firstItem change.            *)
WriteValue ==
    /\ ValueExpected /\ Top # "Init"
    /\ \E t \in (AnyString \ {""}) \cup Numerals \cup DOMAIN Literals :
          /\ printer' = [printer EXCEPT
                !.text = @ \o (IF Top = "InArray" THEN Comma ELSE <<>>) \o Tokens(t),
                !.firstItem = FALSE]
          /\ told' = Give(told, Leaf(Escaped(t)))
          /\ unread' = (unread \/ Lost(t))
    /\ UNCHANGED <<flawed, file>>

(* A string in pieces: one piece here.  startString() writes no comma.      *)
StartString ==
    /\ ValueExpected
    /\ Push("InString", <<"">>, printer.firstItem)
    /\ told' = Append(told, Leaf(""))
    /\ flawed' = (flawed \/ (Top = "InArray" /\ ~ printer.firstItem))
    /\ UNCHANGED <<unread, file>>

WriteInString ==
    /\ Top = "InString" /\ Last(printer.text) = ""
    /\ \E t \in AnyString \ {""} :
          /\ printer' = [printer EXCEPT !.text = Front(@) \o Tokens(t), !.firstItem = FALSE]
          /\ told' = Append(Front(told), Leaf(Escaped(t)))
          /\ unread' = (unread \/ Lost(t))
    /\ UNCHANGED <<flawed, file>>

EndString ==
    /\ Top = "InString"
    /\ Pop(<<>>, printer.firstItem)
    /\ told' = Give(Front(told), Last(told))
    /\ flawed' = (flawed \/ Last(printer.text) = "")
    /\ UNCHANGED <<unread, file>>
------------------------------------------------------------------------------
(* A file from elsewhere: a beginning, and any tokens.                      *)
Type ==
    /\ printer.text = <<>> /\ file.typed < MaxTyped
    /\ \E t \in {",", "[", "]", "{", "}", ":"} \cup (Strings \ {""}) \cup Numerals,
         before \in (IF file.text = <<>> THEN Beginnings ELSE {file.text}) :
          file' = [text |-> Append(before, t), typed |-> file.typed + 1]
    /\ UNCHANGED <<printer, told, flawed, unread>>

JsonInit ==
    /\ printer = [text |-> <<>>, states |-> <<"Init">>, firstItem |-> TRUE]
    /\ told = <<>> /\ flawed = FALSE /\ unread = FALSE
    /\ file = [text |-> <<>>, typed |-> 0]

JsonNext ==
    \/ StartObject \/ EndObject \/ StartArray \/ EndArray \/ StartProperty \/ EndProperty
    \/ WriteValue \/ StartString \/ WriteInString \/ EndString \/ Type
------------------------------------------------------------------------------
(* What a text means as JSON, by taking it apart at the commas between its  *)
(* outermost brackets.                                                      *)
Depth(s, i) ==
    Cardinality({j \in 1 .. i : s[j] \in {"[", "{"}}) - Cardinality({j \in 1 .. i : s[j] \in {"]", "}"}})

Pieces(s) ==
    LET cuts == SetToSortSeq({0, Len(s) + 1} \cup {i \in DOMAIN s : s[i] = "," /\ Depth(s, i) = 0}, <)
    IN  [k \in 1 .. Len(cuts) - 1 |-> SubSeq(s, cuts[k] + 1, cuts[k + 1] - 1)]

RECURSIVE Means(_)
Means(s) ==
    LET inner == SubSeq(s, 2, Len(s) - 1)
        ps    == IF inner = <<>> THEN <<>> ELSE Pieces(inner)
        item  == [k \in DOMAIN ps |-> Means(ps[k])]
        field == [k \in DOMAIN ps |-> IF Len(ps[k]) >= 3 /\ ps[k][1] \in StringTokens /\ ps[k][2] = ":"
                                      THEN Means(SubSeq(ps[k], 3, Len(ps[k]))) ELSE {}]
        only(S) == CHOOSE v \in S : TRUE
    IN  CASE Len(s) = 1 /\ s[1] \in StringTokens \cup Numerals -> {Leaf(s[1])}
          [] Len(s) >= 2 /\ s[1] = "[" /\ Last(s) = "]" /\ (\A k \in DOMAIN ps : item[k] # {}) ->
                {Array([k \in DOMAIN ps |-> only(item[k])])}
          [] Len(s) >= 2 /\ s[1] = "{" /\ Last(s) = "}" /\ (\A k \in DOMAIN ps : field[k] # {}) ->
                {Object({<<ps[k][1], only(field[k])>> : k \in
                    {j \in DOMAIN ps : \A i \in 1 .. j - 1 : Letter[ps[i][1]] # Letter[ps[j][1]]}})}
          [] OTHER -> {}

(* The texts that are left when commas are removed, each with some of what  *)
(* follows it.                                                              *)
Shortened(s) ==
    LET less(D) == SelectSeq([i \in DOMAIN s |-> IF i \in D THEN "" ELSE s[i]], LAMBDA t : t # "")
    IN  {less(D) : D \in {E \in SUBSET DOMAIN s :
            \A i \in E : s[i] = "," \/ i - 1 \in E}}

(* What is written is read: the printer's text is JSON for what it was told,*)
(* and ParseJSON reads JSON as what it means.  Three things are excepted.   *)
(* Strings are read as they are escaped, for nothing undoes that (told has  *)
(* them so); a text with a boolean, a fraction or a quotation mark in a     *)
(* string is not read at all (unread); and startString() writes no comma    *)
(* (flawed).  Of other texts ParseJSON reads those that are JSON without    *)
(* some commas and without something after them, because repeat() forgets   *)
(* the error of what it has begun: "{a:1,b:[2}" is {a:1}.                   *)
WrittenIsRead ==
    /\ printer.states = <<"Init">> /\ told # <<>> /\ ~ flawed =>
          IF unread THEN ParseJSON(printer.text) = {}
          ELSE Means(printer.text) = {told[1]} /\ ParseJSON(printer.text) = {told[1]}
    /\ file.text # <<>> =>
          \/ Means(file.text) # {} /\ ParseJSON(file.text) = Means(file.text)
          \/ Means(file.text) = {} /\ ParseJSON(file.text) \subseteq
                                         UNION {Means(s) : s \in Shortened(file.text)}
==============================================================================
