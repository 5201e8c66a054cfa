----------------------------- MODULE SqlParser ------------------------------
(***************************************************************************)
(* ciphra-sql: the recursive-descent parser, from a sequence of tokens to  *)
(* a list of statements. A token is a string; keywords are not reserved,   *)
(* so every word is also an identifier. The lexer is in module DumpText.   *)
(*                                                                         *)
(* The input is typed a chunk at a time, until the parser can no longer    *)
(* accept any continuation: each state is one input.                       *)
(***************************************************************************)
EXTENDS Integers, SequencesExt

CONSTANTS Starts,     \* what to start from: [input, more], more bounding the chunks behind
          Chunks(_)   \* what may be typed behind an input: sequences of tokens

ASSUME StartsAreBounded == \A s \in Starts : s.more \in Nat

VARIABLES tokens,  \* the input
          more     \* chunks that may still be typed

vars == <<tokens, more>>

-----------------------------------------------------------------------------
Ints      == {"0", "1"}
Numbers   == Ints \cup {"0.5", "1.0"}
Texts     == {"'s'"}
CmpTokens == {"=", "!=", "<", ">", "<=", ">="}
Marks     == CmpTokens \cup {",", "(", ")", "[", "]", "*", ";", "-"}
Aggregates == {"count", "sum", "avg", "min", "max"}

(* What a parsing method returns: a value and the position behind it, or   *)
(* the position of the token that was not expected.                        *)
Ok(v, p) == [ok |-> TRUE, val |-> v, pos |-> p]
Fail(p)  == [ok |-> FALSE, val |-> <<>>, pos |-> p]
Then(r, K(_)) == IF r.ok THEN K(r) ELSE r

(* peek, check, eat, expect, keyword, identifier, unsigned.                *)
At(t, p, tok)     == p <= Len(t) /\ t[p] = tok
OneOf(t, p, toks) == IF p <= Len(t) /\ t[p] \in toks THEN Ok(t[p], p + 1) ELSE Fail(p)
Expect(t, p, tok) == OneOf(t, p, {tok})
Identifier(t, p)  == IF p <= Len(t) /\ t[p] \notin Marks \cup Numbers \cup Texts
                     THEN Ok(t[p], p + 1) ELSE Fail(p)

(* Words that must follow each other; the value is the first.              *)
RECURSIVE ExpectAll(_, _, _)
ExpectAll(t, p, toks) ==
  IF toks = <<>> THEN Ok(<<>>, p)
  ELSE Then(Expect(t, p, toks[1]), LAMBDA r : ExpectAll(t, r.pos, Tail(toks)))

(* One Item, and another behind every separator.                           *)
Separated(t, p, sep, Item(_, _)) ==
  LET From[q \in 1..(Len(t) + 2)] ==
        Then(Item(t, q), LAMBDA r :
          IF ~At(t, r.pos, sep) THEN Ok(<<r.val>>, r.pos)
          ELSE Then(From[r.pos + 1], LAMBDA s : Ok(<<r.val>> \o s.val, s.pos)))
  IN  From[p]

Parenthesised(t, p, Inner(_, _)) ==
  Then(Expect(t, p, "("), LAMBDA o :
  Then(Inner(t, o.pos), LAMBDA e :
  Then(Expect(t, e.pos, ")"), LAMBDA c : Ok(e.val, c.pos))))

(* `kw` and what follows it, or nothing.                                   *)
Optional(t, p, kws, Clause(_, _)) ==
  IF ~At(t, p, kws[1]) THEN Ok(<<>>, p)
  ELSE Then(ExpectAll(t, p, kws), LAMBDA k :
       Then(Clause(t, k.pos), LAMBDA c : Ok(<<c.val>>, c.pos)))

-----------------------------------------------------------------------------
(* A number with its sign; -0 is 0.                                        *)
Number(t, p) ==
  LET minus == At(t, p, "-")
  IN  Then(OneOf(t, IF minus THEN p + 1 ELSE p, Numbers), LAMBDA n :
        Ok(IF minus /\ n.val # "0" THEN <<"-", n.val>> ELSE <<n.val>>, n.pos))

(* Rust's `{}` of a number: a REAL without a fraction has no point.        *)
Numeral(x) == IF x = "1.0" THEN "1" ELSE x
Numerals(seq) == [i \in DOMAIN seq |-> Numeral(seq[i])]

(* A vector's components are f32, however they are written.                *)
VectorComponent(t, p) == Then(Number(t, p), LAMBDA n : Ok(Numerals(n.val), n.pos))
Vector(t, p) ==
  Then(Separated(t, p + 1, ",", VectorComponent), LAMBDA v :
  Then(Expect(t, v.pos, "]"), LAMBDA c : Ok([vector |-> v.val], c.pos)))

Literal(t, p) ==
  IF At(t, p, "[") THEN Vector(t, p)
  ELSE IF p <= Len(t) /\ t[p] \in Texts \cup {"null"} THEN Ok([lit |-> <<t[p]>>], p + 1)
  ELSE Then(Number(t, p), LAMBDA n : Ok([lit |-> n.val], n.pos))

(* peek_aggregate and what follows it: `*` is for COUNT only.              *)
AggregateAhead(t, p) == p <= Len(t) /\ t[p] \in Aggregates /\ At(t, p + 1, "(")
SelectItem(t, p) ==
  IF ~AggregateAhead(t, p) THEN Then(Identifier(t, p), LAMBDA c : Ok([fn |-> "", arg |-> c.val], c.pos))
  ELSE Then(IF At(t, p + 2, "*") THEN IF t[p] = "count" THEN Ok("*", p + 3) ELSE Fail(p + 2)
            ELSE Identifier(t, p + 2), LAMBDA a :
       Then(Expect(t, a.pos, ")"), LAMBDA c : Ok([fn |-> t[p], arg |-> a.val], c.pos)))

-----------------------------------------------------------------------------
(* Expressions, OR < AND < NOT < primary; the same grammar for WHERE and   *)
(* HAVING (h), whose operands may be aggregates and which has no IS NULL.  *)
Not(e)       == [node |-> "not", of |-> e]
Join(w, a, b) == [node |-> w, left |-> a, right |-> b]
LeftDeep(w, es) == FoldLeft(LAMBDA a, b : Join(w, a, b), Head(es), Tail(es))

Chain(t, p, w, Sub(_, _)) ==
  Then(Separated(t, p, w, Sub), LAMBDA r : Ok(LeftDeep(w, r.val), r.pos))

Operand(t, p, h) ==
  IF h THEN SelectItem(t, p)
  ELSE Then(Identifier(t, p), LAMBDA c : Ok([fn |-> "", arg |-> c.val], c.pos))

Comparison(t, p, h) ==
  Then(Operand(t, p, h), LAMBDA c :
    IF ~h /\ At(t, c.pos, "is")
    THEN LET negated == At(t, c.pos + 1, "not")
         IN  Then(Expect(t, c.pos + (IF negated THEN 2 ELSE 1), "null"), LAMBDA n :
               Ok([node |-> "null", of |-> c.val, negated |-> negated], n.pos))
    ELSE Then(OneOf(t, c.pos, CmpTokens), LAMBDA o :
         Then(Literal(t, o.pos), LAMBDA v :
           Ok([node |-> "compare", of |-> c.val, op |-> o.val, value |-> v.val], v.pos))))

RECURSIVE Expr(_, _, _)
Primary(t, p, h) ==
  IF At(t, p, "(") THEN Parenthesised(t, p, LAMBDA u, q : Expr(u, q, h)) ELSE Comparison(t, p, h)

(* not_expr: a run of NOTs in front of a primary.                          *)
RECURSIVE NotExpr(_, _, _)
BugNotTakesAnd(t, p, h) ==
  IF At(t, p, "not") THEN Then(Chain(t, p + 1, "and", LAMBDA u, q : NotExpr(u, q, h)), LAMBDA e : Ok(Not(e.val), e.pos))
  ELSE Primary(t, p, h)

NotExpr(t, p, h) ==
  IF At(t, p, "not") THEN Then(NotExpr(t, p + 1, h), LAMBDA e : Ok(Not(e.val), e.pos))
  ELSE Primary(t, p, h)

AndExpr(t, p, h) == Chain(t, p, "and", LAMBDA u, q : NotExpr(u, q, h))
Expr(t, p, h)    == Chain(t, p, "or", LAMBDA u, q : AndExpr(u, q, h))

Where(t, p)  == Optional(t, p, <<"where">>, LAMBDA u, q : Expr(u, q, FALSE))
Having(t, p) == Optional(t, p, <<"having">>, LAMBDA u, q : Expr(u, q, TRUE))

-----------------------------------------------------------------------------
(* The statements.                                                         *)
Names(t, p) == Separated(t, p, ",", Identifier)

IndexTarget(t, p, verb, range) ==
  Then(Expect(t, p, "on"), LAMBDA o :
  Then(Identifier(t, o.pos), LAMBDA n :
  Then(Parenthesised(t, n.pos, Identifier), LAMBDA c :
    Ok([stmt |-> verb, table |-> n.val, column |-> c.val, range |-> range], c.pos))))

(* `INDEX`, `RANGE INDEX` or a table, behind CREATE and DROP.              *)
IndexOr(t, p, verb, Table(_, _)) ==
  IF At(t, p, "index") THEN IndexTarget(t, p + 1, verb, FALSE)
  ELSE IF At(t, p, "range")
       THEN Then(Expect(t, p + 1, "index"), LAMBDA i : IndexTarget(t, i.pos, verb, TRUE))
  ELSE Then(Expect(t, p, "table"), LAMBDA k : Table(t, k.pos))

ColumnType(t, p) ==
  IF ~At(t, p, "vector") 
  THEN Then(OneOf(t, p, {"int", "integer", "real", "float", "double", "text", "varchar"}), LAMBDA y :
         Ok(<<y.val>>, y.pos))
  ELSE Then(Parenthesised(t, p + 1, LAMBDA u, q : OneOf(u, q, Ints)), LAMBDA d :
         IF d.val = "0" THEN Fail(p + 2) ELSE Ok(<<"vector", d.val>>, d.pos))

RECURSIVE Flags(_, _)
Flags(t, p) ==
  IF At(t, p, "encrypted") THEN Then(Flags(t, p + 1), LAMBDA f : Ok(f.val \cup {"encrypted"}, f.pos))
  ELSE IF At(t, p, "primary")
       THEN Then(Expect(t, p + 1, "key"), LAMBDA k :
            Then(Flags(t, k.pos), LAMBDA f : Ok(f.val \cup {"primary"}, f.pos)))
  ELSE Ok({}, p)

ColumnDef(t, p) ==
  Then(Identifier(t, p), LAMBDA n :
  Then(ColumnType(t, n.pos), LAMBDA y :
  Then(Flags(t, y.pos), LAMBDA f : Ok([name |-> n.val, type |-> y.val, flags |-> f.val], f.pos))))

CreateTable(t, p) ==
  Then(Identifier(t, p), LAMBDA n :
  Then(Parenthesised(t, n.pos, LAMBDA u, q : Separated(u, q, ",", ColumnDef)), LAMBDA c :
    Ok([stmt |-> "create table", table |-> n.val, columns |-> c.val], c.pos)))

DropTable(t, p) == Then(Identifier(t, p), LAMBDA n : Ok([stmt |-> "drop table", table |-> n.val], n.pos))

ValueTuple(t, p) == Parenthesised(t, p, LAMBDA u, q : Separated(u, q, ",", Literal))

Insert(t, p) ==
  Then(Expect(t, p, "into"), LAMBDA i :
  Then(Identifier(t, i.pos), LAMBDA n :
  Then(IF At(t, n.pos, "(") THEN Parenthesised(t, n.pos, Names) ELSE Ok(<<>>, n.pos), LAMBDA c :
  Then(Expect(t, c.pos, "values"), LAMBDA k :
  Then(Separated(t, k.pos, ",", ValueTuple), LAMBDA r :
    Ok([stmt |-> "insert", table |-> n.val, columns |-> c.val, rows |-> r.val], r.pos))))))

Assignment(t, p) ==
  Then(Identifier(t, p), LAMBDA c :
  Then(Expect(t, c.pos, "="), LAMBDA e :
  Then(Literal(t, e.pos), LAMBDA v : Ok([column |-> c.val, value |-> v.val], v.pos))))

Update(t, p) ==
  Then(Identifier(t, p), LAMBDA n :
  Then(Expect(t, n.pos, "set"), LAMBDA k :
  Then(Separated(t, k.pos, ",", Assignment), LAMBDA a :
  Then(Where(t, a.pos), LAMBDA w :
    Ok([stmt |-> "update", table |-> n.val, set |-> a.val, where |-> w.val], w.pos)))))

Delete(t, p) ==
  Then(Expect(t, p, "from"), LAMBDA f :
  Then(Identifier(t, f.pos), LAMBDA n :
  Then(Where(t, n.pos), LAMBDA w :
    Ok([stmt |-> "delete", table |-> n.val, where |-> w.val], w.pos))))
(* `*`, or a list of columns and aggregates.                               *)
Projection(t, p) ==
  IF At(t, p, "*") THEN Ok(<<>>, p + 1) ELSE Separated(t, p, ",", SelectItem)

OrderBy(t, p) ==
  Then(Identifier(t, p), LAMBDA c :
    IF At(t, c.pos, "nearest")
    THEN Then(Expect(t, c.pos + 1, "to"), LAMBDA k :
         Then(Literal(t, k.pos), LAMBDA v :
           IF "vector" \notin DOMAIN v.val THEN Fail(k.pos)
           ELSE Ok([column |-> c.val, desc |-> FALSE, nearest |-> v.val.vector], v.pos)))
    ELSE Ok([column |-> c.val, desc |-> At(t, c.pos, "desc"), nearest |-> <<>>],
            IF At(t, c.pos, "desc") \/ At(t, c.pos, "asc") THEN c.pos + 1 ELSE c.pos))

BugOffsetIgnored(t, p) ==
  Then(OneOf(t, p, Ints), LAMBDA n :
    IF ~At(t, n.pos, "offset") THEN Ok([count |-> n.val, offset |-> "0"], n.pos)
    ELSE Then(OneOf(t, n.pos + 1, Ints), LAMBDA o : Ok([count |-> n.val, offset |-> "0"], o.pos)))

Limit(t, p) ==
  Then(OneOf(t, p, Ints), LAMBDA n :
    IF ~At(t, n.pos, "offset") THEN Ok([count |-> n.val, offset |-> "0"], n.pos)
    ELSE Then(OneOf(t, n.pos + 1, Ints), LAMBDA o : Ok([count |-> n.val, offset |-> o.val], o.pos)))

(* Which executor a SELECT is for: plain columns collapse to the row path, *)
(* an aggregate, GROUP BY or HAVING keeps the aggregate path.              *)
PathOf(items, group, having) ==
  IF items = <<>> THEN "all"
  ELSE IF group = <<>> /\ having = <<>> /\ \A i \in DOMAIN items : items[i].fn = "" THEN "columns"
  ELSE "items"

Select(t, p) ==
  Then(Projection(t, p), LAMBDA i :
  Then(Expect(t, i.pos, "from"), LAMBDA f :
  Then(Identifier(t, f.pos), LAMBDA n :
  Then(Where(t, n.pos), LAMBDA w :
  Then(Optional(t, w.pos, <<"group", "by">>, Names), LAMBDA g :
  Then(Having(t, g.pos), LAMBDA h :
  IF i.val = <<>> /\ g.val # <<>> THEN Fail(p) ELSE
  Then(Optional(t, h.pos, <<"order", "by">>, OrderBy), LAMBDA o :
  Then(Optional(t, o.pos, <<"limit">>, Limit), LAMBDA l :
    Ok([stmt |-> "select", path |-> PathOf(i.val, g.val, h.val), items |-> i.val, table |-> n.val,
        where |-> w.val, group |-> g.val, having |-> h.val, order |-> o.val, limit |-> l.val],
       l.pos)))))))))

(* BEGIN, COMMIT and ROLLBACK take a noise word.                           *)
Transactional(t, p, stmt) ==
  Ok([stmt |-> stmt], IF At(t, p, "transaction") \/ At(t, p, "work") THEN p + 1 ELSE p)

RECURSIVE Statement(_, _)
Statement(t, p) ==
  Then(Identifier(t, p), LAMBDA k :
    CASE k.val = "create"   -> IndexOr(t, k.pos, "create index", CreateTable)
      [] k.val = "drop"     -> IndexOr(t, k.pos, "drop index", DropTable)
      [] k.val = "insert"   -> Insert(t, k.pos)
      [] k.val = "select"   -> Select(t, k.pos)
      [] k.val = "update"   -> Update(t, k.pos)
      [] k.val = "delete"   -> Delete(t, k.pos)
      [] k.val = "explain"  -> Then(Statement(t, k.pos), LAMBDA s :
                                 IF s.val.stmt \notin {"select", "update", "delete"} THEN Fail(p)
                                 ELSE Ok([stmt |-> "explain", of |-> s.val], s.pos))
      [] k.val \in {"begin", "commit", "rollback"} -> Transactional(t, k.pos, k.val)
      [] k.val = "start"    -> Then(Expect(t, k.pos, "transaction"), LAMBDA x : Ok([stmt |-> "begin"], x.pos))
      [] OTHER              -> Fail(p))

(* parse_statements: any number of `;` in front of each statement, and one *)
(* behind it unless the input ends.                                        *)
RECURSIVE Batch(_, _)
BugSemicolonEnds(t, p) ==
  IF p > Len(t) \/ t[p] = ";" THEN Ok(<<>>, Len(t) + 1)
  ELSE Then(Statement(t, p), LAMBDA s :
         IF s.pos <= Len(t) /\ t[s.pos] # ";" THEN Fail(s.pos)
         ELSE Then(Batch(t, s.pos), LAMBDA b : Ok(<<s.val>> \o b.val, b.pos)))
Batch(t, p) ==
  IF p > Len(t) THEN Ok(<<>>, p)
  ELSE IF t[p] = ";" THEN Batch(t, p + 1)
  ELSE Then(Statement(t, p), LAMBDA s :
         IF s.pos <= Len(t) /\ t[s.pos] # ";" THEN Fail(s.pos)
         ELSE Then(Batch(t, s.pos), LAMBDA b : Ok(<<s.val>> \o b.val, b.pos)))

Parse(t) == Batch(t, 1)
-----------------------------------------------------------------------------
(* Display for Expr and Literal, as the tokens of the text.                *)
BracketNumbers(v) ==
  <<"[">> \o FoldLeft(LAMBDA x, y : x \o <<",">> \o y, v.vector[1], Tail(v.vector)) \o <<"]">>
DisplayLiteral(v) == IF "lit" \in DOMAIN v THEN Numerals(v.lit) ELSE BracketNumbers(v)

RECURSIVE Display(_)
Display(e) ==
  CASE e.node = "compare" -> <<e.of.arg, e.op>> \o DisplayLiteral(e.value)
    [] e.node = "null"    -> <<e.of.arg, "is">> \o (IF e.negated THEN <<"not">> ELSE <<>>) \o <<"null">>
    [] e.node = "not"     -> <<"not", "(">> \o Display(e.of) \o <<")">>
    [] OTHER              -> <<"(">> \o Display(e.left) \o <<e.node>> \o Display(e.right) \o <<")">>

-----------------------------------------------------------------------------
(* Some continuation may still be accepted.                                *)
Viable == LET r == Parse(tokens) IN r.ok \/ r.pos > Len(tokens)

Init == \E s \in Starts : tokens = s.input /\ more = s.more
Type(c) ==
  /\ more > 0 /\ Viable
  /\ tokens' = tokens \o c
  /\ more' = more - 1
Next == \E c \in Chunks(tokens) : Type(c)
Spec == Init /\ [][Next]_vars

-----------------------------------------------------------------------------
(* The statements of the input.                                            *)
Statements == Parse(tokens)

(* The parser stays inside its input: it accepts nothing but a whole input *)
(* and rejects at a token of it or at its end (parse_statements, next).    *)
TypeOK ==
  /\ tokens \in Seq(STRING) /\ \E s \in Starts : IsPrefix(s.input, tokens) /\ more \in 0..s.more
  /\ Statements.pos \in 1..(Len(tokens) + 1)
  /\ Statements.ok => Statements.pos = Len(tokens) + 1

(* The trees the grammar gives the tokens i..j, whatever order a parser    *)
(* looks at them in: OR binds weaker than AND, AND weaker than NOT.        *)
Leaf(t, i, j) ==
  LET r == Comparison(t, i, FALSE)
  IN  IF t[i] # "not" /\ r.ok /\ r.pos = j + 1 THEN {r.val} ELSE {}
RECURSIVE Trees(_, _, _, _)
Trees(t, i, j, level) ==
  LET splits(w, lower) == UNION {{Join(w, a, b) : a \in Trees(t, i, k - 1, w), b \in Trees(t, k + 1, j, lower)} :
                                 k \in {m \in i..j : t[m] = w}}
  IN  IF i > j THEN {}
      ELSE CASE level = "or"  -> splits("or", "and") \cup Trees(t, i, j, "and")
             [] level = "and" -> splits("and", "not") \cup Trees(t, i, j, "not")
             [] OTHER ->
                  (IF t[i] = "not" THEN {Not(e) : e \in Trees(t, i + 1, j, "not")} ELSE {})
                  \cup (IF t[i] = "(" /\ t[j] = ")" THEN Trees(t, i + 1, j - 1, "or") ELSE {})
                  \cup Leaf(t, i, j)

DeleteWhere == <<"delete", "from", "t", "where">>

(* A condition is accepted exactly when the grammar derives it, and the    *)
(* tree that selects the rows is the only one the grammar has for it       *)
(* (expr, and_expr, not_expr, primary_expr).                               *)
ExpressionIsGrammar ==
  IsPrefix(DeleteWhere, tokens) =>
    LET trees == Trees(tokens, 5, Len(tokens), "or")
    IN  IF Statements.ok THEN trees = {Statements.val[1].where[1]} ELSE trees = {}

(* A condition with its whole REALs, 1.0, turned into INTs, 1.             *)
RECURSIVE Rounded(_)
Rounded(e) ==
  CASE e.node = "compare" -> IF "lit" \in DOMAIN e.value THEN [e EXCEPT !.value.lit = Numerals(@)] ELSE e
    [] e.node = "null"    -> e
    [] e.node = "not"     -> Not(Rounded(e.of))
    [] OTHER              -> Join(e.node, Rounded(e.left), Rounded(e.right))

(* What EXPLAIN prints of a condition is read back as the same condition,  *)
(* with the same columns, operators and values in the same tree, but for   *)
(* one thing: a REAL without a fraction comes back as an INT (impl Display *)
(* for Expr and for Literal).                                              *)
DisplayIsReadBack ==
  \A i \in DOMAIN Statements.val :
    LET s == Statements.val[i]
    IN  "where" \in DOMAIN s /\ s.where # <<>> =>
          LET r == Parse(DeleteWhere \o Display(s.where[1])) IN r.ok /\ r.val[1].where = <<Rounded(s.where[1])>>

(* A `;` ends a statement wherever it stands: a batch means what its       *)
(* pieces mean one after the other, and is refused when one of them is     *)
(* (parse_statements).                                                     *)
BatchIsItsPieces ==
  \A k \in DOMAIN tokens :
    tokens[k] = ";" =>
      LET a == Parse(SubSeq(tokens, 1, k - 1))
          b == Parse(SubSeq(tokens, k + 1, Len(tokens)))
      IN  /\ Statements.ok <=> a.ok /\ b.ok
          /\ Statements.ok => Statements.val = a.val \o b.val
(* The names and literals of a statement, in the order they are written.   *)
Flat(F(_), seq) == FlattenSeq([i \in DOMAIN seq |-> F(seq[i])])
InItem(x) == <<x.arg>>
InLiteral(v) == IF "lit" \in DOMAIN v THEN v.lit ELSE BracketNumbers(v)
RECURSIVE InCondition(_)
InCondition(e) ==
  CASE e.node = "compare" -> <<e.of.arg>> \o InLiteral(e.value)
    [] e.node = "null"    -> <<e.of.arg>>
    [] e.node = "not"     -> InCondition(e.of)
    [] OTHER              -> InCondition(e.left) \o InCondition(e.right)
RECURSIVE Written(_)
Written(s) ==
  CASE s.stmt = "create table" -> <<s.table>> \o Flat(LAMBDA c : <<c.name>> \o Tail(c.type), s.columns)
    [] s.stmt = "drop table"   -> <<s.table>>
    [] s.stmt \in {"create index", "drop index"} -> <<s.table, s.column>>
    [] s.stmt = "insert" -> <<s.table>> \o s.columns \o Flat(LAMBDA r : Flat(InLiteral, r), s.rows)
    [] s.stmt = "update" -> <<s.table>> \o Flat(LAMBDA a : <<a.column>> \o InLiteral(a.value), s.set)
                                        \o Flat(InCondition, s.where)
    [] s.stmt = "delete" -> <<s.table>> \o Flat(InCondition, s.where)
    [] s.stmt = "select" ->
         Flat(InItem, s.items) \o <<s.table>> \o Flat(InCondition, s.where) \o FlattenSeq(s.group)
         \o Flat(InCondition, s.having)
         \o Flat(LAMBDA o : <<o.column>> \o FlattenSeq(o.nearest), s.order)
         \o Flat(LAMBDA l : <<l.count, l.offset>>, s.limit)
    [] s.stmt = "explain" -> Written(s.of)
    [] OTHER -> <<>>

(* Nothing a client wrote is dropped or moved by the parser: the names and *)
(* literals of an accepted batch are those of its statements, in order (0  *)
(* aside, the default OFFSET). A lost WHERE or LIMIT would widen what a    *)
(* statement does.                                                         *)
NothingWrittenIsLost ==
  Statements.ok =>
    LET named(seq) == SelectSeq(seq, LAMBDA x : x \in {"t", "a", "b", "1", "0.5", "1.0", "'s'"})
    IN  named(tokens) = named(Flat(Written, Statements.val))

(* Together: a condition is read, and printed, as the grammar has it.      *)
ConditionsAreExact == ExpressionIsGrammar /\ DisplayIsReadBack

(* Together: a batch is parsed to its end, piece by piece.                 *)
BatchIsWhole == TypeOK /\ BatchIsItsPieces
=============================================================================
