------------------------------ MODULE JsonText -------------------------------
(***************************************************************************)
(* The text form of json::Value: FastWriter and StyleWriter write it, the  *)
(* recursive descent of Reader reads it.                                   *)
(*                                                                         *)
(* A text is a sequence of symbols: characters where the code tells them   *)
(* apart (a new line stands for all white space), and one symbol for a     *)
(* literal, for the digits of a number (`7', or `2^40' for digits beyond   *)
(* int32_t), for a fraction or exponent that six decimals hold (`.5',      *)
(* `.0') or do not (`.0000002'), for a suffix and for the escape \u0001.   *)
(* A value is a pair <<type, data>>, data a sequence or, for an object, a  *)
(* function on its keys.  Bytes beyond ASCII are copied both ways and other *)
(* \u escapes are written by no writer: both left out.                     *)
(***************************************************************************)
EXTENDS Integers, Sequences, SequencesExt

ScalarTypes == {"null", "bool", "int32", "int64", "double"}
Control == {"\n", "^A"}              \* characters below 0x20
Fractions == {".5", ".0", ".0000002"}

-----------------------------------------------------------------------------
(* Writing: w is the writer, [out, stack, depth, seen, asserts] *)

writer(style) ==
    [style |-> style, out |-> <<>>, stack |-> <<>>, depth |-> 0, seen |-> FALSE,
     asserts |-> TRUE]

put(w, symbols) == [w EXCEPT !.out = @ \o symbols]

\* Mutant of separator: an off-by-one in the count loses the first comma.
separatorLate(level) ==
    CASE ~level.inArray /\ level.valueCount % 2 = 1 -> <<":">>
      [] level.inArray /\ level.valueCount > 1 -> <<",">>
      [] ~level.inArray /\ level.valueCount % 2 = 0 /\ level.valueCount > 0 -> <<",">>
      [] OTHER -> <<>>

\* What comes before the next value or key of an array or object.
separator(level) ==
    CASE ~level.inArray /\ level.valueCount % 2 = 1 -> <<":">>
      [] level.inArray /\ level.valueCount > 0 -> <<",">>
      [] ~level.inArray /\ level.valueCount % 2 = 0 /\ level.valueCount > 0 -> <<",">>
      [] OTHER -> <<>>

prefix(w, type) ==
    IF w.stack = <<>> THEN [w EXCEPT !.seen = TRUE, !.asserts = @ /\ ~w.seen]
    ELSE LET level == Last(w.stack)
             isKey == ~level.inArray /\ level.valueCount % 2 = 0
         IN [put(w, separator(level)) EXCEPT
               !.seen = TRUE,
               !.stack = Append(Front(@), [level EXCEPT !.valueCount = @ + 1]),
               !.asserts = @ /\ (isKey => type = "string")]

escaped(c) ==
    CASE c = "\n" -> <<"\\", "n">>
      [] c \in {"\"", "\\"} -> <<"\\", c>>
      [] c = "^A" -> <<"\\", "u0001">>
      [] OTHER -> <<c>>

String(w, s) ==
    LET body == FlattenSeq([i \in DOMAIN s |-> escaped(s[i])])
    IN put(prefix(w, "string"), <<"\"">> \o body \o <<"\"">>)

\* A key is written as it is.
Key(w, s) == put(prefix(w, "string"), <<"\"">> \o s \o <<"\"">>)

\* std::to_string of a double: what lies beyond six decimals is lost.
toString(d) ==
    LET n == SelectInSeq(d, LAMBDA c : c = ".0000002")
    IN IF n = 0 THEN d ELSE SubSeq(d, 1, n - 1) \o <<".0">>

\* Null, Bool, Int32, Int64, Double.
Scalar(w, v) ==
    put(prefix(w, v[1]),
        CASE v[1] = "null" -> <<"null">>
          [] v[1] = "int32" -> v[2] \o <<"i32">>
          [] v[1] = "int64" -> v[2] \o <<"i64">>
          [] v[1] = "double" -> toString(v[2])
          [] OTHER -> v[2])

Start(w, type) ==
    [put(prefix(w, type), <<IF type = "array" THEN "[" ELSE "{">>) EXCEPT
       !.stack = Append(@, [inArray |-> type = "array", valueCount |-> 0])]

End(w, type) ==
    [put(w, <<IF type = "array" THEN "]" ELSE "}">>) EXCEPT
       !.stack = Front(@),
       !.asserts = @ /\ Last(w.stack).inArray = (type = "array")]

\* StyleWriter hands everything to a FastWriter and puts a new line and the
\* indentation after scalars and brackets and before keys and closing brackets.
keepIndent(w) == IF w.style /\ w.depth > 0 THEN put(w, <<"\n">>) ELSE w
incrIndent(w) == keepIndent([w EXCEPT !.depth = @ + 1])
decrIndent(w) == keepIndent([w EXCEPT !.depth = @ - 1, !.asserts = @ /\ w.depth > 0])

StyleScalar(w, v) == keepIndent(Scalar(w, v))
StyleString(w, s) == keepIndent(String(w, s))
StyleStart(w, type) == incrIndent(Start(w, type))
StyleEnd(w, type) == End(decrIndent(w), type)
StyleKey(w, s) == Key(keepIndent(w), s)

\* Value::writeTo
RECURSIVE writeTo(_, _)
writeTo(w, v) ==
    CASE v[1] \in ScalarTypes -> StyleScalar(w, v)
      [] v[1] = "string" -> StyleString(w, v[2])
      [] v[1] = "array" -> StyleEnd(FoldLeft(writeTo, StyleStart(w, "array"), v[2]), "array")
      [] v[1] = "object" ->
           LET member(x, k) == writeTo(StyleKey(x, k), v[2][k])
               keys == SetToSeq(DOMAIN v[2])
           IN StyleEnd(FoldLeft(member, StyleStart(w, "object"), keys), "object")

Written(style, v) == writeTo(writer(style), v)

-----------------------------------------------------------------------------
(* Reading: a parse function takes what is left of the text and returns      *)
(* [err, value, rest].  After an error only the code is used.                 *)

front(t) == IF t = <<>> THEN "end" ELSE Head(t)
next(t) == IF t = <<>> THEN t ELSE Tail(t)
got(value, rest) == [err |-> "PARSE_OK", value |-> value, rest |-> rest]
failed(err) == [err |-> err, value |-> <<"null", <<>>>>, rest |-> <<>>]

RECURSIVE parseWhitespace(_)
parseWhitespace(t) == IF front(t) = "\n" THEN parseWhitespace(Tail(t)) ELSE t

\* The longest run of digits t starts with.
digits(t) ==
    SubSeq(t, 1, CHOOSE n \in 0 .. Len(t) :
                   /\ \A i \in 1 .. n : t[i] \in {"7", "2^40"}
                   /\ n < Len(t) => t[n + 1] \notin {"7", "2^40"})

\* A number of either integer type has a suffix, a double has none.
parseNumber(t) ==
    LET sign == IF front(t) = "-" THEN <<"-">> ELSE <<>>
        whole == digits(SubSeq(t, Len(sign) + 1, Len(t)))
        tail == SubSeq(t, Len(sign) + Len(whole) + 1, Len(t))
        fraction == IF front(tail) \in Fractions THEN <<Head(tail)>> \o digits(Tail(tail)) ELSE <<>>
        end == SubSeq(tail, Len(fraction) + 1, Len(tail))
        suffix == front(end)
        ended == whole # <<>>
    IN CASE ended /\ fraction # <<>> /\ suffix \notin {"i32", "i64"} ->
              got(<<"double", sign \o whole \o fraction>>, end)
         [] ended /\ fraction = <<>> /\ suffix = "i64" -> got(<<"int64", sign \o whole>>, Tail(end))
         [] ended /\ fraction = <<>> /\ suffix = "i32" ->
              IF Contains(whole, "2^40") THEN failed("PARSE_NUMBER_TOO_BIG")
              ELSE got(<<"int32", sign \o whole>>, Tail(end))
         [] OTHER -> failed("PARSE_INVALID_VALUE")

parseLiteral(t) ==
    CASE front(t) = "null" -> got(<<"null", <<>>>>, Tail(t))
      [] front(t) \in {"true", "false"} -> got(<<"bool", <<front(t)>>>>, Tail(t))
      [] OTHER -> failed("PARSE_EXPECT_VALUE")

\* What follows a backslash, and the character it stands for.
Unescaped == [e \in {"\"", "\\", "n", "u0001"} |->
                CASE e = "n" -> "\n" [] e = "u0001" -> "^A" [] OTHER -> e]

\* t follows the opening quotation mark.  A text that ends within the string is
\* accepted, and leaves the null value in place.
RECURSIVE parseString(_, _)
parseString(t, buffer) ==
    LET e == front(next(t))
    IN CASE t = <<>> -> got(<<"null", <<>>>>, <<>>)
         [] front(t) = "\"" -> got(<<"string", buffer>>, Tail(t))
         [] front(t) = "\\" ->
              IF e \in DOMAIN Unescaped THEN parseString(Tail(Tail(t)), Append(buffer, Unescaped[e]))
              ELSE failed("PARSE_INVALID_STRING_ESCAPE")
         [] front(t) \in Control -> failed("PARSE_INVALID_STRING_CHAR")
         [] OTHER -> parseString(Tail(t), Append(buffer, Head(t)))

RECURSIVE parseValue(_)

\* The elements of an array from t on.  A symbol that is neither a comma nor a
\* bracket is an error that the loop forgets: it goes on behind the symbol.
RECURSIVE parseArray(_, _)
parseArray(t, data) ==
    LET element == parseValue(t)
        after == parseWhitespace(element.rest)
        all == Append(data, element.value)
    IN CASE element.err # "PARSE_OK" -> element
         [] element.err = "PARSE_OK" /\ front(after) = "]" -> got(<<"array", all>>, Tail(after))
         [] element.err = "PARSE_OK" /\ front(after) = "," -> parseArray(parseWhitespace(Tail(after)), all)
         [] OTHER -> parseArray(next(after), all)

\* The members of an object from t on.  A second member of the same key fails an
\* assertion of addMember.
RECURSIVE parseObject(_, _)
parseObject(t, data) ==
    LET key == parseString(Tail(t), <<>>)
        colon == parseWhitespace(key.rest)
        value == parseValue(parseWhitespace(Tail(colon)))
        after == parseWhitespace(value.rest)
        all == data @@ (key.value[2] :> value.value)
    IN CASE front(t) # "\"" -> failed("PARSE_MISS_KEY")
         [] front(t) = "\"" -> 
            IF key.err # "PARSE_OK" THEN key
            ELSE IF front(colon) # ":" THEN failed("PARSE_MISS_COLON")
            ELSE IF value.err # "PARSE_OK" THEN value
            ELSE IF key.value[2] \in DOMAIN data THEN failed("assert")
            ELSE CASE front(after) = "," -> parseObject(parseWhitespace(Tail(after)), all)
                   [] front(after) = "}" -> got(<<"object", all>>, Tail(after))
                   [] OTHER -> failed("PARSE_MISS_COMMA_OR_CURLY_BRACKET")

\* An opening bracket may be closed at once.
parseValue(t) ==
    LET inside == parseWhitespace(next(t))
    IN CASE front(t) \in {"null", "n", "true", "false"} -> parseLiteral(t)
         [] front(t) = "\"" -> parseString(Tail(t), <<>>)
         [] front(t) = "[" ->
              IF front(inside) = "]" THEN got(<<"array", <<>>>>, Tail(inside)) ELSE parseArray(inside, <<>>)
         [] front(t) = "{" ->
              IF front(inside) = "}" THEN got(<<"object", <<>>>>, Tail(inside)) ELSE parseObject(inside, <<>>)
         [] OTHER -> parseNumber(t)

parse(t) ==
    LET root == parseValue(parseWhitespace(t))
    IN IF root.err = "PARSE_OK" /\ parseWhitespace(root.rest) # <<>>
       THEN failed("PARSE_ROOT_NOT_SINGULAR") ELSE root
=============================================================================
