------------------------------ MODULE DumpText ------------------------------
(***************************************************************************)
(* ciphra-migrate and the lexer of ciphra-sql, on text: how the INSERTs of *)
(* a MySQL dump are cut into statements, tuples and values, each value     *)
(* decoded and written again as a Ciphra literal, and how the lexer of the *)
(* engine reads the result.                                                *)
(*                                                                         *)
(* Text is a sequence of characters. "I1" and "I2" stand for the head of   *)
(* the first and the second INSERT, down to the word VALUES, "N" for NULL, *)
(* "x" for a hexadecimal literal, "nl" for a line feed, "tick" for a       *)
(* backtick, "e2" for a character of two bytes; a number is one character. *)
(* A value of a dump is a list of glyphs: a glyph is the text of one       *)
(* character, and what that text means to MySQL.                           *)
(***************************************************************************)
EXTENDS Integers, SequencesExt

CONSTANTS Plain,   \* characters a string may hold as they are
          Letters  \* letters a backslash turns into a control character

-----------------------------------------------------------------------------
(* The dump, as mysqldump and its kin write it.                            *)
Quotes == {"'", "\""}
Glyph(text, char) == [text |-> text, char |-> char]

(* The control characters MySQL writes as a backslash and a letter.        *)
Control == [c \in {"n", "t", "r", "0", "b", "Z"} |->
              CASE c = "n" -> "nl" [] c = "t" -> "tab" [] c = "r" -> "cr"
                [] c = "0" -> "nul" [] c = "b" -> "bs" [] c = "Z" -> "sub"]

(* What a string between quotes q may hold: a plain character, the other   *)
(* quote, an escape, or the quote written twice.                           *)
Glyphs(q) ==
  {Glyph(<<c>>, c) : c \in Plain \cup (Quotes \ {q})}
  \cup {Glyph(<<"\\", c>>, Control[c]) : c \in Letters}
  \cup {Glyph(<<"\\", "\\">>, "\\"), Glyph(<<"\\", q>>, q), Glyph(<<q, q>>, q)}

AsString(q, gs) == [quote |-> q, glyphs |-> gs, atom |-> ""]
AsAtom(a)       == [quote |-> "", glyphs |-> <<>>, atom |-> a]

TextOfValue(v) ==
  IF v.atom # "" THEN <<v.atom>>
  ELSE <<v.quote>> \o FlattenSeq([i \in DOMAIN v.glyphs |-> v.glyphs[i].text]) \o <<v.quote>>
Commas(texts)   == FoldLeft(LAMBDA a, b : a \o <<",">> \o b, texts[1], Tail(texts))
TextOfRow(r)    == <<"(">> \o Commas([i \in DOMAIN r |-> TextOfValue(r[i])]) \o <<")">>
Heads           == <<"I1", "I2">>
TextOfInsert(i, s) ==
  s.comment \o <<Heads[i]>> \o Commas([r \in DOMAIN s.rows |-> TextOfRow(s.rows[r])]) \o <<";">>
Text(inserts)   == FlattenSeq([i \in DOMAIN inserts |-> TextOfInsert(i, inserts[i])])

-----------------------------------------------------------------------------
(* split_statements works on bytes: inside quotes every byte becomes a     *)
(* character of its own, outside them a character stays whole.             *)
Bytes(c) == IF c = "e2" THEN <<"byte 1", "byte 2">> ELSE <<c>>

OpensQuote(c) == c \in Quotes \cup {"tick"}

(* A backslash and what it escapes, in the string that q opened.           *)
BugNoEscapes(t, i, q) == FALSE
Escapes(t, i, q) == t[i] = "\\" /\ q # "tick" /\ i < Len(t)

LineEnd(t, i)    == IF \E j \in i..Len(t) : t[j] = "nl"
                    THEN CHOOSE j \in i..Len(t) : t[j] = "nl" /\ \A k \in i..(j - 1) : t[k] # "nl"
                    ELSE Len(t) + 1
CommentEnd(t, i) ==
  LET ends == {j \in i..(Len(t) - 1) : t[j] = "*" /\ t[j + 1] = "/"}
  IN  IF ends = {} THEN Len(t) + 1 ELSE (CHOOSE j \in ends : \A k \in ends : j <= k) + 2

(* The statements of t from i on; q is the open quote, cur the statement   *)
(* so far.                                                                 *)
RECURSIVE Cut(_, _, _, _)
Cut(t, i, q, cur) ==
  LET two(a, b) == t[i] = a /\ i < Len(t) /\ t[i + 1] = b
  IN  IF i > Len(t) THEN <<cur>>
      ELSE IF q # ""
           THEN IF Escapes(t, i, q) THEN Cut(t, i + 2, q, cur \o Bytes(t[i]) \o Bytes(t[i + 1]))
                ELSE Cut(t, i + 1, IF t[i] = q THEN "" ELSE q, cur \o Bytes(t[i]))
      ELSE IF OpensQuote(t[i]) THEN Cut(t, i + 1, t[i], Append(cur, t[i]))
      ELSE IF two("-", "-") \/ t[i] = "#" THEN Cut(t, LineEnd(t, i), "", cur)
      ELSE IF two("/", "*") THEN Cut(t, CommentEnd(t, i + 2), "", cur)
      ELSE IF t[i] = ";" THEN <<cur>> \o Cut(t, i + 1, "", <<>>)
      ELSE Cut(t, i + 1, "", Append(cur, t[i]))

(* trim, of the white space the model has.                                 *)
Trim(s) == LET In == {i \in DOMAIN s : s[i] # "nl"}
           IN  IF In = {} THEN <<>>
               ELSE SubSeq(s, CHOOSE i \in In : \A k \in In : i <= k, CHOOSE i \in In : \A k \in In : k <= i)

SplitStatements(t) ==
  LET cut == Cut(t, 1, "", <<>>)
  IN  SelectSeq([i \in DOMAIN cut |-> Trim(cut[i])], LAMBDA s : s # <<>>)

(* top_level_split at commas: not in quotes, not nested.                   *)
Depth(c) == IF c \in {"(", "["} THEN 1 ELSE IF c \in {")", "]"} THEN -1 ELSE 0

RECURSIVE Parts(_, _, _, _, _)
Parts(t, i, q, depth, cur) ==
  IF i > Len(t) THEN <<cur>>
  ELSE IF q # ""
       THEN IF Escapes(t, i, q) THEN Parts(t, i + 2, q, depth, cur \o <<t[i], t[i + 1]>>)
            ELSE Parts(t, i + 1, IF t[i] = q THEN "" ELSE q, depth, Append(cur, t[i]))
  ELSE IF OpensQuote(t[i]) THEN Parts(t, i + 1, t[i], depth, Append(cur, t[i]))
  ELSE IF t[i] = "," /\ depth = 0 THEN <<cur>> \o Parts(t, i + 1, "", depth, <<>>)
  ELSE Parts(t, i + 1, "", depth + Depth(t[i]), Append(cur, t[i]))
TopLevelSplit(t) == Parts(t, 1, "", 0, <<>>)

-----------------------------------------------------------------------------
(* decode_mysql_string, between the quotes.                                *)
Unescaped(c) ==
  IF c \in DOMAIN Control THEN <<Control[c]>> ELSE IF c \in {"%", "_"} THEN <<"\\", c>> ELSE <<c>>
RECURSIVE Decode(_, _, _)
Decode(t, i, q) ==
  IF i > Len(t) THEN <<>>
  ELSE IF t[i] = "\\" THEN (IF i = Len(t) THEN <<>> ELSE Unescaped(t[i + 1])) \o Decode(t, i + 2, q)
  ELSE IF t[i] = q THEN <<q>> \o Decode(t, IF i < Len(t) /\ t[i + 1] = q THEN i + 2 ELSE i + 1, q)
  ELSE <<t[i]>> \o Decode(t, i + 1, q)

CiphraString(s) ==
  <<"'">> \o FlattenSeq([i \in DOMAIN s |-> IF s[i] = "'" THEN <<"'", "'">> ELSE <<s[i]>>]) \o <<"'">>

(* A number is written back by its value: an i64 in decimal, anything else *)
(* as an f64, which Rust prints in full and without an exponent.           *)
NumberText == [n \in {"1", "1.5", "-2^63", "1e300"} |->
                 CASE n = "-2^63" -> <<"-", "2^63">> [] n = "1e300" -> <<"10^300">> [] OTHER -> <<n>>]

KeptAsText(t) == t[1] \notin Quotes \cup {"N"} \cup DOMAIN NumberText

TranslateValue(t) ==
  IF t = <<"N">> THEN t
  ELSE IF t[1] \in Quotes THEN CiphraString(Decode(SubSeq(t, 2, Len(t) - 1), 1, t[1]))
  ELSE IF t[1] \in DOMAIN NumberText THEN NumberText[t[1]]
  ELSE CiphraString(t)

(* translate_insert, behind the head: the texts of the values, tuple by    *)
(* tuple, and the tuples that are written of them.                         *)
Tuples(t) ==
  LET groups == SelectSeq(TopLevelSplit(t), LAMBDA g : g # <<>> /\ g[1] = "(" /\ Last(g) = ")")
  IN  [i \in DOMAIN groups |-> TopLevelSplit(SubSeq(groups[i], 2, Len(groups[i]) - 1))]

TranslateTuples(t) ==
  LET tuples == Tuples(t)
  IN  Commas([i \in DOMAIN tuples |->
        <<"(">> \o Commas([j \in DOMAIN tuples[i] |-> TranslateValue(tuples[i][j])]) \o <<")">>])

-----------------------------------------------------------------------------
(* tokenize: strings, numbers that fit an i64, marks, words; a `--` starts *)
(* a comment. lex_string reads '' inside a string as one quote.            *)
RECURSIVE LexString(_, _, _)
LexString(t, i, out) ==
  IF i > Len(t) THEN [ok |-> FALSE, str |-> <<>>, next |-> i]
  ELSE IF t[i] # "'" THEN LexString(t, i + 1, Append(out, t[i]))
  ELSE IF i < Len(t) /\ t[i + 1] = "'" THEN LexString(t, i + 2, Append(out, "'"))
  ELSE [ok |-> TRUE, str |-> out, next |-> i + 1]

Lexable == {"N", "(", ")", ",", ";", "-", "*", "=", "1", "1.5", "a", "n"}
Error  == <<"error">>
Mark(c) == <<"mark", c>>
Str(s)  == <<"string">> \o s

RECURSIVE Tokens(_, _)
Tokens(t, i) ==
  IF i > Len(t) THEN <<>>
  ELSE IF t[i] = "nl" THEN Tokens(t, i + 1)
  ELSE IF t[i] = "-" /\ i < Len(t) /\ t[i + 1] = "-" THEN Tokens(t, LineEnd(t, i))
  ELSE IF t[i] = "'" THEN LET s == LexString(t, i + 1, <<>>)
                          IN  IF s.ok THEN <<Str(s.str)>> \o Tokens(t, s.next) ELSE <<Error>>
  ELSE IF t[i] \in Lexable THEN <<Mark(t[i])>> \o Tokens(t, i + 1)
  ELSE <<Error>>

-----------------------------------------------------------------------------
(* The token a value of the dump means, the string MySQL holds, the number *)
(* or NULL, and those of rows. Garbled is what becomes of a string whose   *)
(* characters of several bytes are taken byte by byte: the same string     *)
(* where there are none.                                                   *)
Meaning(v) ==
  IF v.atom = "" THEN Str([i \in DOMAIN v.glyphs |-> v.glyphs[i].char])
  ELSE IF v.atom = "x" THEN Str(<<"x">>) ELSE Mark(v.atom)
Garbled(tok) == FlattenSeq([i \in DOMAIN tok |-> Bytes(tok[i])])
Between(tokens) == Tail(FlattenSeq([i \in DOMAIN tokens |-> <<Mark(",")>> \o tokens[i]]))
TokensOfRows(rows) ==
  Between([r \in DOMAIN rows |->
    <<Mark("(")>> \o Between([i \in DOMAIN rows[r] |-> <<rows[r][i]>>]) \o <<Mark(")")>>])

(* The rows of VALUES, as the parser of the engine (module SqlParser)      *)
(* reads them; <<>> where it refuses the statement.                        *)
RowsRead(t) ==
  LET toks   == Tokens(t, 1)
      at(m)  == SetToSortSeq({i \in DOMAIN toks : toks[i] = Mark(m)}, LAMBDA i, j : i < j)
      row(o, c) == [i \in 1..((c - o) \div 2) |-> toks[o + 2 * i - 1]]
      rows   == [r \in 1..Len(at("(")) |-> row(at("(")[r], at(")")[r])]
  IN  IF Error \in Range(toks) \/ at("(") = <<>> \/ Len(at("(")) # Len(at(")")) \/ TokensOfRows(rows) # toks
      THEN <<>> ELSE rows
=============================================================================
