------------------------------- MODULE Import -------------------------------
(***************************************************************************)
(* ciphra --import-mysql: a dump of one table is translated to Ciphra      *)
(* statements with notes about what was left out, and the statements are   *)
(* run one by one, past the ones that fail. The text of the values and its *)
(* way to the engine are in module DumpText.                               *)
(*                                                                         *)
(* Names are quoted, as mysqldump quotes them.                             *)
(***************************************************************************)
EXTENDS DumpText

CONSTANTS Safe,      \* column names the translator keeps, in the order a dump uses them
          Unsafe,    \* column names it refuses
          Ints,      \* numbers of an INT column
          Comments,  \* what may stand in front of an INSERT
          MaxSize    \* bound: values and glyphs of the dump, by the parts of its table

ASSUME SizesAreNat == MaxSize \in Seq(Nat)

VARIABLES parts,      \* the CREATE TABLE of the dump: columns and keys
          inserts,    \* the INSERTs of the dump
          statements, \* Migration.statements, still to run
          notes,      \* Migration.notes
          table,      \* the table in the engine, <<>> when there is none
          failed,     \* kinds of the statements that failed
          phase       \* "dump", "load" or "done"

vars == <<parts, inserts, statements, notes, table, failed, phase>>

-----------------------------------------------------------------------------
(* The dump: columns with distinct names, at most one primary key, keys    *)
(* over declared columns, rows as wide as their column list.               *)
Names == Unsafe \cup Range(Safe)
MySqlTypes == {"int", "text", "year", "decimal"}
Options    == {"", "PRIMARY KEY", "COMMENT 'no primary key'"}
Column(n, ty, o) == [kind |-> "column", names |-> <<n>>, type |-> ty, option |-> o]
Key(kind, ns)    == [kind |-> kind, names |-> ns, type |-> "", option |-> ""]

ColumnParts  == SelectSeq(parts, LAMBDA p : p.kind = "column")
Declared     == [i \in DOMAIN ColumnParts |-> ColumnParts[i].names[1]]
IsKey(p)     == p.option = "PRIMARY KEY" \/ p.kind = "primary key"
Unused       == {n \in Names \ Range(Declared) :
                   \A i, j \in DOMAIN Safe : n = Safe[j] /\ i < j => Safe[i] \in Range(Declared)}
HasKey       == \E i \in DOMAIN parts : IsKey(parts[i])
Lists(n)     == {ns \in [1..n -> Range(Declared)] : \A i, j \in 1..n : ns[i] = ns[j] => i = j}

-----------------------------------------------------------------------------
(* translate_create_table.                                                 *)
IsColumn(p)  == p.kind = "column"
SingleKey(p) == p.kind = "key" /\ Len(p.names) = 1

(* map_type, on one type of each kind: a year is TEXT, though a dump has   *)
(* its values as numbers.                                                  *)
MapType(ty) == CASE ty = "int" -> "INT" [] ty = "decimal" -> "REAL" [] OTHER -> "TEXT"
Lossy(p)    == p.type = "decimal"

NoteOf(p) ==
  IF IsColumn(p) THEN IF Lossy(p) THEN {"lossy type"} ELSE {}
  ELSE IF p.kind = "primary key" \/ SingleKey(p) THEN {}
  ELSE IF p.kind = "foreign key" THEN {"foreign key"}
  ELSE {"multi-column index"}

(* The single primary key: the last column with the words PRIMARY KEY      *)
(* anywhere behind its name, else a declared one.                          *)
SaysPrimaryKey(p) == p.option # ""
PrimaryKey(cols) ==
  LET inline   == SelectSeq(cols, SaysPrimaryKey)
      declared == SelectSeq(parts, LAMBDA p : p.kind = "primary key" /\ Len(p.names) = 1)
  IN  IF inline # <<>> THEN {Last(inline).names[1]}
      ELSE IF declared # <<>> THEN {Last(declared).names[1]} ELSE {}

(* One index for each single-column key over a column that has none yet.   *)
BugIndexTwice(keys, cols, pk) ==
  LET chosen == SelectSeq([i \in DOMAIN keys |-> i], LAMBDA i : keys[i] \in cols \ pk)
  IN  [i \in DOMAIN chosen |-> [kind |-> "index", column |-> keys[chosen[i]]]]
CreateIndexes(keys, cols, pk) ==
  LET chosen == SelectSeq([i \in DOMAIN keys |-> i],
                  LAMBDA i : keys[i] \in cols \ pk /\ \A j \in 1..(i - 1) : keys[j] # keys[i])
  IN  [i \in DOMAIN chosen |-> [kind |-> "index", column |-> keys[chosen[i]]]]

TypeOf(n) == (CHOOSE p \in Range(parts) : IsColumn(p) /\ p.names[1] = n).type

CreateTable ==
  LET cols  == SelectSeq(parts, IsColumn)
      names == [i \in DOMAIN cols |-> cols[i].names[1]]
      keys  == LET ks == SelectSeq(parts, SingleKey) IN [i \in DOMAIN ks |-> ks[i].names[1]]
      unsafe == {i \in DOMAIN parts : IsColumn(parts[i]) /\ parts[i].names[1] \in Unsafe}
      read   == {i \in DOMAIN parts : \A u \in unsafe : i < u}
      noted  == UNION {NoteOf(parts[i]) : i \in read}
      composite == \E i \in DOMAIN parts : parts[i].kind = "primary key" /\ Len(parts[i].names) > 1
  IN  IF unsafe # {} \/ names = <<>> THEN [stmts |-> <<>>, notes |-> noted \cup {"skipped table"}]
      ELSE [stmts |-> <<[kind |-> "create", columns |-> names, pk |-> PrimaryKey(cols),
                        type |-> [n \in Range(names) |-> MapType(TypeOf(n))]]>>
                      \o CreateIndexes(keys, Range(names), PrimaryKey(cols)),
            notes |-> noted \cup (IF composite THEN {"composite key"} ELSE {})]

(* translate_insert, for a statement t of the cut-up dump: the list of its *)
(* head, then the tuples.                                                  *)
BugListDropped(t) ==
  [stmts |-> <<[kind |-> "insert", columns |-> <<>>, text |-> TranslateTuples(Tail(t))]>>, notes |-> {}]
Insert(t) ==
  LET list == inserts[CHOOSE i \in DOMAIN Heads : Heads[i] = t[1]].list
      kept == \E r \in Range(Tuples(Tail(t))) : \E v \in Range(r) : KeptAsText(v)
  IN  IF Range(list) \cap Unsafe # {} THEN [stmts |-> <<>>, notes |-> {"skipped insert"}]
      ELSE IF Tuples(Tail(t)) = <<>> THEN [stmts |-> <<>>, notes |-> {}]
      ELSE [stmts |-> <<[kind |-> "insert", columns |-> list, text |-> TranslateTuples(Tail(t))]>>,
            notes |-> IF kept THEN {"value kept as text"} ELSE {}]

Migration ==
  LET cut == SelectSeq(SplitStatements(Text(inserts)), LAMBDA t : t[1] \in Range(Heads))
      out == <<CreateTable>> \o [i \in DOMAIN cut |-> Insert(cut[i])]
  IN  [stmts |-> FlattenSeq([i \in DOMAIN out |-> out[i].stmts]),
       notes |-> UNION {out[i].notes : i \in DOMAIN out}]

-----------------------------------------------------------------------------
(* The engine, as the import meets it: each statement succeeds or fails as *)
(* a whole. A row is a function from columns to values.                    *)
Null == Mark("N")
Positions(s) == IF s.columns = <<>> THEN table[1].columns ELSE s.columns
RowOf(s, r) ==
  [c \in Range(table[1].columns) |->
     IF c \in Range(Positions(s)) THEN r[CHOOSE i \in DOMAIN Positions(s) : Positions(s)[i] = c] ELSE Null]
Stored(s) == LET rows == RowsRead(s.text) IN table[1].rows \o [r \in DOMAIN rows |-> RowOf(s, rows[r])]
Fits(ty, v) == v = Null \/ (v[1] = "string" <=> ty = "TEXT")
UniqueKey(k, rows) ==
  \A i, j \in DOMAIN rows : rows[i][k] # Null /\ (rows[i][k] = rows[j][k] => i = j)

Insertable(s) ==
  LET rows == RowsRead(s.text)
  IN  /\ table # <<>> /\ rows # <<>> /\ Range(s.columns) \subseteq Range(table[1].columns)
      /\ \A r \in DOMAIN rows : /\ Len(rows[r]) = Len(Positions(s))
                                 /\ \A i \in DOMAIN rows[r] : Fits(table[1].type[Positions(s)[i]], rows[r][i])
      /\ \A k \in table[1].pk : UniqueKey(k, Stored(s))

Accepts(s) ==
  CASE s.kind = "create" -> table = <<>>
    [] s.kind = "index"  -> table # <<>> /\ s.column \in Range(table[1].columns) \ (table[1].pk \cup table[1].indexed)
    [] OTHER             -> Insertable(s)
Execute(s) ==
  CASE s.kind = "create" -> <<[columns |-> s.columns, type |-> s.type, pk |-> s.pk, indexed |-> {}, rows |-> <<>>]>>
    [] s.kind = "index"  -> <<[table[1] EXCEPT !.indexed = @ \cup {s.column}]>>
    [] OTHER             -> <<[table[1] EXCEPT !.rows = Stored(s)]>>

-----------------------------------------------------------------------------
Init ==
  /\ parts = <<>> /\ inserts = <<>> /\ statements = <<>> /\ notes = {}
  /\ table = <<>> /\ failed = {} /\ phase = "dump"

Declare(p) ==
  /\ phase = "dump" /\ inserts = <<>> /\ Len(parts) < Len(MaxSize)
  /\ parts' = Append(parts, p)
  /\ UNCHANGED <<inserts, statements, notes, table, failed, phase>>
DeclareColumn ==
  \E n \in Unused, ty \in MySqlTypes, o \in Options :
    /\ o = "PRIMARY KEY" => ~HasKey
    /\ n \in Unsafe => ty = "int" /\ o = ""   \* bound: the translator reads no more of it
    /\ Declare(Column(n, ty, o))
DeclareKey ==
  \E kind \in {"primary key", "key", "foreign key"}, n \in 1..2 : \E ns \in Lists(n) :
    (kind = "primary key" => ~HasKey) /\ Declare(Key(kind, ns))

(* The rows of the dump, as functions from columns to what MySQL holds.    *)
ListOf(s)   == IF s.list = <<>> THEN Declared ELSE s.list
DumpRows(s) ==
  [r \in DOMAIN s.rows |->
     [c \in Range(Declared) |-> Meaning(s.rows[r][CHOOSE i \in DOMAIN ListOf(s) : ListOf(s)[i] = c])]]
AllRows(ins) == FlattenSeq([i \in DOMAIN ins |-> DumpRows(ins[i])])

(* A dump as a MySQL server holds it: its key is unique.                   *)
Legal(ins) ==
  \A i \in DOMAIN parts : IsKey(parts[i]) /\ Len(parts[i].names) = 1 =>
    UniqueKey(parts[i].names[1], AllRows(ins))

SizeOf(v)   == 1 + Len(v.glyphs)
Size(ins)   == LET values == FlattenSeq(FlattenSeq([i \in DOMAIN ins |-> ins[i].rows]))
               IN  FoldLeft(LAMBDA n, v : n + SizeOf(v), 0, values)
ValuesOf(ty) ==
  CASE ty = "int"  -> {AsAtom(n) : n \in Ints}
    [] ty = "year" -> {AsAtom("1"), AsAtom("N")}
    [] ty = "text" -> {AsString(q, <<>>) : q \in Quotes} \cup {AsAtom("N"), AsAtom("x")}
    [] OTHER       -> {AsAtom("1.5"), AsAtom("1e300")}

Dump(ins) ==
  /\ phase = "dump" /\ Declared # <<>> /\ Size(ins) <= MaxSize[Len(parts)] /\ Legal(ins)
  /\ inserts' = ins
  /\ UNCHANGED <<parts, statements, notes, table, failed, phase>>
Rows(list) == LET n == Len(Declared)
                  cols == IF list = <<>> THEN Declared ELSE list
              IN  {r \in [1..n -> UNION {ValuesOf(ty) : ty \in MySqlTypes}] :
                     \A i \in 1..n : r[i] \in ValuesOf(TypeOf(cols[i]))}
DumpInsert ==
  /\ Len(inserts) < Len(Heads)
  /\ \E list \in Lists(Len(Declared)) \cup {<<>>}, c \in Comments : \E r \in Rows(list) :
       Dump(Append(inserts, [comment |-> c, list |-> list, rows |-> <<r>>]))
DumpRow ==
  /\ inserts # <<>>
  /\ \E r \in Rows(Last(inserts).list) : Dump([inserts EXCEPT ![Len(inserts)].rows = Append(@, r)])
(* One more glyph in a string of the last row.                             *)
DumpGlyph ==
  /\ inserts # <<>>
  /\ LET s == Len(inserts)
         r == Len(inserts[s].rows)
     IN  \E i \in DOMAIN inserts[s].rows[r] :
           /\ inserts[s].rows[r][i].atom = ""
           /\ \E g \in Glyphs(inserts[s].rows[r][i].quote) :
                Dump([inserts EXCEPT ![s].rows[r][i].glyphs = Append(@, g)])

(* translate: the whole dump, before anything runs.                        *)
Translate ==
  /\ phase = "dump" /\ Declared # <<>>
  /\ LET m == Migration
     IN  /\ statements' = m.stmts /\ notes' = m.notes
         /\ phase' = IF m.stmts = <<>> THEN "done" ELSE "load"
  /\ UNCHANGED <<parts, inserts, table, failed>>

(* import_mysql_dump: the next statement, whatever became of the others.   *)
RunStatement ==
  /\ phase = "load"
  /\ LET s == Head(statements)
     IN  IF Accepts(s) THEN table' = Execute(s) /\ UNCHANGED failed
         ELSE failed' = failed \cup {s.kind} /\ UNCHANGED table
  /\ statements' = Tail(statements)
  /\ phase' = IF Len(statements) = 1 THEN "done" ELSE "load"
  /\ UNCHANGED <<parts, inserts, notes>>

Done == phase = "done" /\ UNCHANGED vars

Next == DeclareColumn \/ DeclareKey \/ DumpInsert \/ DumpRow \/ DumpGlyph \/ Translate \/ RunStatement \/ Done
Spec == Init /\ [][Next]_vars

-----------------------------------------------------------------------------
(* The rows of INSERTs as they arrive: every value in its column, as it    *)
(* was but for characters of several bytes.                                *)
Arrived(ins) ==
  LET rows == AllRows(ins)
  IN  [r \in DOMAIN rows |-> [c \in DOMAIN rows[r] |-> Garbled(rows[r][c])]]

(* Why an INSERT may fail: a number the lexer refuses, a year as a number  *)
(* in a TEXT column; and, of any INSERT, a column that is no key but whose *)
(* comment or default says PRIMARY KEY.                                    *)
Refused(s) ==
  \E r \in Range(s.rows) : \E i \in DOMAIN r :
    \/ r[i].atom \in {"-2^63", "1e300"}
    \/ TypeOf(ListOf(s)[i]) = "year" /\ r[i].atom # "N"
Misread == {p \in Range(parts) : SaysPrimaryKey(p) /\ ~IsKey(p)}

(* An INSERT of the dump is loaded exactly, every value character for      *)
(* character in its column (a character of several bytes as one for each   *)
(* byte, which is no character of the dump), or not at all, and that only  *)
(* for one of the reasons above: no quote, comma, semicolon, escape or     *)
(* comment moves a boundary on the way (split_statements, top_level_split, *)
(* decode_mysql_string, ciphra_string, lex_string).                        *)
ValuesSurvive ==
  phase = "done" /\ table # <<>> =>
    \E kept \in SUBSET DOMAIN inserts :
      /\ table[1].rows = Arrived(SelectSeq([i \in DOMAIN inserts |->
                           IF i \in kept THEN inserts[i] ELSE [inserts[i] EXCEPT !.rows = <<>>]],
                           LAMBDA s : s.rows # <<>>))
      /\ \A i \in DOMAIN inserts \ kept : Refused(inserts[i]) \/ Misread # {}
      /\ \A i \in kept : ~Refused(inserts[i])

(* An import that reports no failure and no note has loaded the table of   *)
(* the dump: its columns in order, its rows with every value in its        *)
(* column, and an index for every single-column key. Two things it changes *)
(* without a word: characters of several bytes, and the primary key, which *)
(* is the dump's only when no comment or default speaks of one.            *)
CleanImportIsExact ==
  phase = "done" /\ failed = {} /\ notes = {} =>
    /\ table # <<>>
    /\ table[1].columns = Declared
    /\ table[1].rows = Arrived(inserts)
    /\ Misread = {} => table[1].pk = UNION {Range(p.names) : p \in {q \in Range(parts) : IsKey(q)}}
    /\ \A p \in Range(parts) :
         p.kind = "key" => Range(p.names) \subseteq table[1].indexed \cup table[1].pk

(* The schema of a dump is never what fails: into an empty database every  *)
(* CREATE the translator writes is executed, so that an INSERT fails for   *)
(* its own rows or because its table was skipped with a note.              *)
SchemaIsExecutable == failed \subseteq {"insert"}
=============================================================================
