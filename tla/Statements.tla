----------------------------- MODULE Statements -----------------------------
(***************************************************************************)
(* Parser::parse for the statements that change a table: what an INSERT,   *)
(* UPDATE or DELETE is taken to say (parser/Parser.cpp).  The parser reads *)
(* its tokens one after the other and never backs up; it is modelled as a  *)
(* function of the token sequence that Lexer makes of a line.              *)
(*                                                                         *)
(* A token has its type, the name of an identifier, and what its lexeme    *)
(* converts to as a number (atoi) and as a text.                           *)
(***************************************************************************)
EXTENDS Integers, SequencesExt

CONSTANT MAX_COLUMNS   \* src: 32

Token(type, name, n, s) == [type |-> type, name |-> name, n |-> n, s |-> s]

\* Type of token k; nextToken answers END_OF_INPUT as often as it is asked.
TypeAt(sql, k) == IF k \in DOMAIN sql THEN sql[k].type ELSE "END"

\* Where a loop that skips from token k on stops.
Until(sql, k, types) ==
  IF k > Len(sql) THEN k
  ELSE LET rest == SubSeq(sql, k, Len(sql))
           i == SelectInSeq(rest, LAMBDA tok : tok.type \in types)
       IN  IF i = 0 THEN Len(sql) + 1 ELSE k + i - 1

\* The elements of s at the places in A, one behind the other.
Chosen(s, A) ==
  FoldLeftDomain(LAMBDA kept, i : IF i \in A THEN Append(kept, s[i]) ELSE kept, << >>, s)

NameAt(sql, k) == IF k \in DOMAIN sql THEN sql[k].name ELSE ""

\* The fields of ParsedQuery that parse sets first; ok is what it returns.
EmptyQuery == [ok |-> FALSE, type |-> "UNKNOWN", tableName |-> "", insertVals |-> << >>,
               updateCol |-> "", updateVal |-> Token("END", "", 0, << >>),
               hasWhere |-> FALSE, where |-> << >>]

\* The clause starts at the token after WHERE, if token k is one; what else
\* stands there is not looked at.
parseWhere(q, sql, k) ==
  IF TypeAt(sql, k) = "WHERE"
  THEN [q EXCEPT !.ok = TRUE, !.hasWhere = TRUE,
                 !.where = SubSeq(sql, k + 1, Until(sql, k + 1, {"SEMICOLON", "ORDER"}) - 1)]
  ELSE [q EXCEPT !.ok = TRUE]

\* The values are the tokens between the second parentheses that are no
\* commas, a sign being a token of its own.  The column list is skipped: it
\* is stored, and executeInsert makes no use of it.
parseInsert(q, sql) ==
  LET values == IF TypeAt(sql, 4) = "LPAREN" THEN Until(sql, 5, {"RPAREN"}) + 1 ELSE 4
      open == IF TypeAt(sql, values) = "VALUES" THEN values + 1 ELSE values
      inside == SubSeq(sql, open + 1, Until(sql, open + 1, {"RPAREN"}) - 1)
      vals == Chosen(inside, {i \in DOMAIN inside : inside[i].type # "COMMA"})
  IN  IF TypeAt(sql, 2) # "INTO" \/ TypeAt(sql, 3) # "IDENTIFIER" THEN q
      ELSE [q EXCEPT !.ok = TRUE, !.tableName = NameAt(sql, 3),
                     !.insertVals = IF TypeAt(sql, open) # "LPAREN" THEN << >>
                                    ELSE SubSeq(vals, 1, IF Len(vals) < MAX_COLUMNS
                                                         THEN Len(vals) ELSE MAX_COLUMNS)]

\* The token after the assignment sign is the value, whatever it is.
parseUpdate(q, sql) ==
  IF \/ TypeAt(sql, 2) # "IDENTIFIER" \/ TypeAt(sql, 3) # "SET"
     \/ TypeAt(sql, 4) # "IDENTIFIER"
  THEN q
  ELSE parseWhere([q EXCEPT !.tableName = NameAt(sql, 2), !.updateCol = NameAt(sql, 4),
                            !.updateVal = IF 6 \in DOMAIN sql THEN sql[6] ELSE @], sql, 7)

parseDelete(q, sql) ==
  LET k == IF TypeAt(sql, 2) = "FROM" THEN 3 ELSE 2
  IN  IF TypeAt(sql, k) # "IDENTIFIER" THEN q
      ELSE parseWhere([q EXCEPT !.tableName = NameAt(sql, k)], sql, k + 1)

parse(sql) ==
  LET q == [EmptyQuery EXCEPT !.type = TypeAt(sql, 1)]
  IN  CASE q.type = "INSERT" -> parseInsert(q, sql)
        [] q.type = "UPDATE" -> parseUpdate(q, sql)
        [] q.type = "DELETE" -> parseDelete(q, sql)
        [] OTHER -> EmptyQuery
=============================================================================
