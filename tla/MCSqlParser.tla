---------------------------- MODULE MCSqlParser -----------------------------
(***************************************************************************)
(* Inputs for module SqlParser: conditions built from whole comparisons,   *)
(* behind DELETE FROM t WHERE, and statements typed token by token behind  *)
(* a start of each kind.                                                   *)
(***************************************************************************)
EXTENDS SqlParser

ConditionChunks == {<<"a", "=", "1">>, <<"a", "=", "1.0">>, <<"a", "<", "[", "-", "1", ",", "0.5", "]">>,
                    <<"is", "is", "not", "null">>, <<"and">>, <<"or">>, <<"not">>, <<"(">>, <<")">>}
StatementStarts == {
  <<"create", "table", "t", "(", "a">>,
  <<"create", "table", "t", "(", "a", "vector", "(">>,
  <<"create">>,
  <<"drop">>,
  <<"insert", "into", "t">>,
  <<"insert", "into", "t", "values", "(">>,
  <<"update", "t", "set", "a">>,
  <<"delete", "from", "t">>,
  <<"select", "a", ",">>,
  <<"select", "*", "from", "t">>,
  <<"select", "count", "(">>,
  <<"select", "a", "from", "t", "group", "by">>,
  <<"select", "a", "from", "t", "group", "by", "a", "having">>,
  <<"select", "a", "from", "t", "where", "a", "=">>,
  <<"select", "a", "from", "t", "order", "by", "a">>,
  <<"select", "a", "from", "t", "limit">>,
  <<"explain">>,
  <<"begin">>,
  <<";", "start">>}
StatementChunks ==
  {<<x>> : x \in {"t", "a", "0", "1", "0.5", "'s'", "-", "*", ",", "(", ")", ";", "="}} \cup
  {<<"index", "on", "t">>, <<"range">>, <<"table">>, <<"int">>, <<"encrypted">>, <<"primary", "key">>,
   <<"values">>, <<"where">>, <<"having">>, <<"group", "by">>, <<"order", "by">>, <<"nearest", "to">>,
   <<"[", "1">>, <<"]">>, <<"asc">>, <<"desc">>, <<"limit">>, <<"offset">>, <<"from">>,
   <<"transaction">>, <<"work">>, <<"null">>, <<"sum">>, <<"commit">>, <<"delete">>, <<"select">>, <<"explain">>}

MCStarts == {[input |-> DeleteWhere, more |-> 7]} \cup {[input |-> s, more |-> 4] : s \in StatementStarts}
MCChunks(t) == IF IsPrefix(DeleteWhere, t) THEN ConditionChunks ELSE StatementChunks
=============================================================================
