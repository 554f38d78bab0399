-------------------------------- MODULE Json ---------------------------------
(***************************************************************************)
(* The two sides of the JSON library, checked side by side: the values in  *)
(* memory (JsonValue), and a document that is written, perhaps damaged by   *)
(* one symbol, and read (JsonText).  A behaviour shows one of them.         *)
(***************************************************************************)
EXTENDS JsonValue, JsonText, TLC

VARIABLES
    document,   \* the value written, or Null in a behaviour of the other side
    text,
    reading     \* what parse made of the text, at first Unread

textVars == <<document, text, reading>>
vars == <<heapVars, textVars>>

Unread == failed("unread")

-----------------------------------------------------------------------------
(* The documents *)

Texts == {<<>>, <<"a">>, <<"\"", "a">>, <<"\\", "n">>, <<"\n", "^A">>}
Keys == {<<"a">>, <<"n">>, <<"\"">>, <<"\\", "n">>}
Scalars ==
    {<<"null", <<>>>>, <<"bool", <<"true">>>>, <<"int32", <<"-", "7">>>>, <<"int64", <<"2^40">>>>,
     <<"double", <<"7", ".5">>>>, <<"double", <<"-", "7", ".0000002">>>>} \union ({"string"} \X Texts)

ArraysOf(S) == {<<"array", <<>>>>} \union {<<"array", <<x>>>> : x \in S}
               \union {<<"array", <<x, y>>>> : x, y \in S}
ObjectsOf(S) == {<<"object", <<>>>>} \union {<<"object", k :> x>> : k \in Keys, x \in S}
                \union {<<"object", k :> x @@ l :> y>> : k, l \in Keys, x, y \in S}

Few == {<<"int32", <<"7">>>>, <<"string", <<"a">>>>}
Documents ==
    Scalars \union ArraysOf(Scalars) \union {<<"object", k :> x>> : k \in Keys, x \in Scalars}
    \union ObjectsOf(Few) \union ArraysOf(ArraysOf(Few) \union ObjectsOf({<<"bool", <<"true">>>>}))

\* No key needs an escape.
RECURSIVE PlainKeys(_)
PlainKeys(v) ==
    CASE v[1] = "array" -> \A i \in DOMAIN v[2] : PlainKeys(v[2][i])
      [] v[1] = "object" ->
           \A k \in DOMAIN v[2] : (\A i \in DOMAIN k : escaped(k[i]) = <<k[i]>>) /\ PlainKeys(v[2][k])
      [] OTHER -> TRUE

\* What is left of a value when its doubles keep six decimals.
RECURSIVE Rounded(_)
Rounded(v) ==
    CASE v[1] = "double" -> <<"double", toString(v[2])>>
      [] v[1] = "array" -> <<"array", [i \in DOMAIN v[2] |-> Rounded(v[2][i])]>>
      [] v[1] = "object" -> <<"object", [k \in DOMAIN v[2] |-> Rounded(v[2][k])]>>
      [] OTHER -> v

-----------------------------------------------------------------------------
textInit ==
    /\ document \in Documents \union {Null}
    /\ text = <<>> /\ reading = Unread

write(style) ==
    /\ text = <<>> /\ document # <<"unknown">>
    /\ text' = Written(style, document).out
    /\ UNCHANGED <<document, reading>>

\* One symbol is lost, or one is added; the document is then unknown.
damage ==
    /\ text # <<>> /\ reading = Unread /\ document # <<"unknown">>
    /\ \/ \E i \in DOMAIN text : text' = RemoveAt(text, i)
       \/ \E i \in 1 .. Len(text) + 1, c \in {"7", "\"", "\\", "]", "}", ",", "null"} :
            text' = InsertAt(text, i, c)
    /\ document' = <<"unknown">>
    /\ UNCHANGED reading

read ==
    /\ text # <<>> \/ document = <<"unknown">>
    /\ reading = Unread
    /\ reading' = parse(text)
    /\ UNCHANGED <<document, text>>

textStep == (\E style \in BOOLEAN : write(style)) \/ damage \/ read

Init == heapInit /\ textInit

Next ==
    \/ document = Null /\ heapStep /\ UNCHANGED textVars
    \/ document # Null /\ textStep /\ UNCHANGED heapVars

Spec == Init /\ [][Next]_vars

Symmetry == {f @@ g @@ h : f \in Permutations(Threads), g \in Permutations(Containers),
                           h \in Permutations(Variables)}

-----------------------------------------------------------------------------
\* What a writer makes of a document is read as that document with its doubles
\* rounded to six decimals (FastWriter.h:52), so as the document itself only if
\* they have no more, where testReader.cpp:277-293 expects any double to come
\* back; and whatever the reader accepts, damaged or not, is a value that can be
\* written and read again, up to the rounding.  Keys that need an escape, which
\* no writer escapes (FastWriter.h:119-126), are left out of both.
RoundTrip ==
    /\ reading # Unread /\ document # <<"unknown">> /\ PlainKeys(document) =>
         reading.err = "PARSE_OK" /\ reading.value = Rounded(document)
    /\ reading.err = "PARSE_OK" /\ PlainKeys(reading.value) =>
         \A style \in BOOLEAN :
            LET again == Written(style, reading.value)
            IN again.asserts /\ parse(again.out) = [reading EXCEPT !.value = Rounded(@)]
=============================================================================
