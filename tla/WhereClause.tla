----------------------------- MODULE WhereClause -----------------------------
(***************************************************************************)
(* The WHERE clause of a statement: Parser::parseWhere collects its        *)
(* tokens, Parser::shuntingYard puts them in postfix order with a stack of *)
(* operators, Executor::evalWhere evaluates the postfix for a row with a   *)
(* stack of values (src/parser/Parser.cpp, src/executor/Executor.cpp).     *)
(*                                                                         *)
(* A row gives every operand, column or literal, its value; the double and *)
(* the int of a value are one integer here, a text is its rank in the      *)
(* order of texts, 0 for the empty one.  Division is left out, because its *)
(* results are fractions; it is parsed as multiplication is.               *)
(*                                                                         *)
(* The text given to the parser is any well-formed clause of at most       *)
(* MaxTokens tokens.  Its meaning is defined below from the grammar, with  *)
(* no stack: an expression is split at its weakest operator outside        *)
(* parentheses, at the last one if there are several.                      *)
(***************************************************************************)
EXTENDS Integers, Sequences, FiniteSetsExt

CONSTANTS Operands,     \* literals and columns
          Operators,    \* the binary operators that clauses use
          Rows,         \* rows, as functions from operands to values
          MAX_POSTFIX,  \* src: 256
          MaxTokens,    \* bound on the length of a clause
          Signed        \* TRUE: a minus may stand before an operand

ASSUME WhereAssumption ==
    /\ Operators \subseteq {"or", "and", "==", "!=", "<", ">", "<=", ">=",
                            "+", "-", "*", "%"}
    /\ Operands \cap (Operators \cup {"(", ")", "-"}) = {}
    /\ \A r \in Rows : \A x \in Operands : r[x] \in [kind : {"num", "str"}, v : Int]
    /\ MAX_POSTFIX \in Nat /\ MAX_POSTFIX > 0 /\ MAX_POSTFIX % 2 = 0
    /\ MaxTokens \in Nat /\ Signed \in BOOLEAN

VARIABLES pc,           \* "collect", "convert", "evaluate" or "done"
          clause,       \* the tokens of the text read so far
          whereTokens,  \* parseWhere: those of them that were kept
          opStack,      \* shuntingYard: its operators, the top last
          postfix,      \* ParsedQuery::postfix
          stk,          \* evalWhere: its values, the top last
          i,            \* the next token of the loop that is running
          row,          \* evalWhere: the row it is called for
          result        \* what evalWhere returned

vars == <<pc, clause, whereTokens, opStack, postfix, stk, i, row, result>>

-----------------------------------------------------------------------------
(* Tokens and values.                                                      *)

Logical == {"or", "and"}
Comparing == {"==", "!=", "<", ">", "<=", ">="}

precedence(op) == CASE op = "or"        -> 1
                    [] op = "and"       -> 2
                    [] op \in Comparing -> 4
                    [] op \in {"+", "-"} -> 5
                    [] OTHER            -> 6

Num(n) == [kind |-> "num", v |-> n]
Bool(b) == [kind |-> "bool", v |-> IF b THEN 1 ELSE 0]

\* A text counts as false.
Truth(e) == e.kind # "str" /\ e.v # 0

\* asNum reads fval, which a truth value leaves 0.
AsNum(e) == IF e.kind = "num" THEN e.v ELSE 0
AsText(e) == IF e.kind = "str" THEN e.v ELSE 0

Compare(op, l, r) == CASE op = "==" -> l = r
                       [] op = "!=" -> l # r
                       [] op = "<"  -> l < r
                       [] op = ">"  -> l > r
                       [] op = "<=" -> l <= r
                       [] op = ">=" -> l >= r

\* The remainder of C++, which has the sign of the dividend.
Remainder(l, r) == LET abs(n) == IF n < 0 THEN -n ELSE n
                       m == abs(l) % abs(r)
                   IN IF r = 0 THEN 0 ELSE IF l < 0 THEN -m ELSE m

Compute(op, l, r) == CASE op = "+" -> l + r
                       [] op = "-" -> l - r
                       [] op = "*" -> l * r
                       [] op = "%" -> Remainder(l, r)

applyOp(op, L, R) ==
    CASE op = "and" -> Bool(Truth(L) /\ Truth(R))
      [] op = "or"  -> Bool(Truth(L) \/ Truth(R))
      [] op \in Comparing ->
           IF "str" \in {L.kind, R.kind}
           THEN Bool(Compare(op, AsText(L), AsText(R)))
           ELSE Bool(Compare(op, AsNum(L), AsNum(R)))
      [] OTHER ->
           IF "str" \in {L.kind, R.kind}
           THEN Bool(FALSE)
           ELSE Num(Compute(op, AsNum(L), AsNum(R)))

-----------------------------------------------------------------------------
(* The text.                                                               *)

Count(tok, s) == Cardinality({k \in DOMAIN s : s[k] = tok})
Unclosed(s) == Count("(", s) - Count(")", s)

\* An operand has to come next.
Expecting(s) == s = <<>> \/ s[Len(s)] \in Operators \cup {"("}
AfterSign(s) == Expecting(s) /\ Len(s) > 0 /\ s[Len(s)] = "-"
                /\ Expecting(SubSeq(s, 1, Len(s) - 1))

NextTokens(s) ==
    IF AfterSign(s) THEN Operands
    ELSE IF Expecting(s)
    THEN Operands \cup {"("} \cup (IF Signed THEN {"-"} ELSE {})
    ELSE Operators \cup (IF Unclosed(s) > 0 THEN {")"} ELSE {})

\* The tokens a text needs at least until it is a clause.
Missing(s) == Unclosed(s) + (IF Expecting(s) THEN 1 ELSE 0)

\* Before evalWhere is called there is no row.
AnyRow == CHOOSE r \in Rows : TRUE

Init == /\ pc = "collect" /\ clause = <<>> /\ whereTokens = <<>>
        /\ opStack = <<>> /\ postfix = <<>> /\ stk = <<>>
        /\ i = 1 /\ row = AnyRow /\ result = FALSE

-----------------------------------------------------------------------------
(* Parser::parseWhere: what does not fit into its array is dropped.        *)

\* Mutant of Collect: one token more than the array holds.
CollectOneTooMany(tok) ==
    /\ pc = "collect"
    /\ tok \in NextTokens(clause)
    /\ clause' = Append(clause, tok)
    /\ Len(clause') + Missing(clause') <= MaxTokens
    /\ whereTokens' = IF Len(whereTokens) <= MAX_POSTFIX
                      THEN Append(whereTokens, tok) ELSE whereTokens
    /\ UNCHANGED <<pc, opStack, postfix, stk, i, row, result>>

Collect(tok) ==
    /\ pc = "collect"
    /\ tok \in NextTokens(clause)
    /\ clause' = Append(clause, tok)
    /\ Len(clause') + Missing(clause') <= MaxTokens
    /\ whereTokens' = IF Len(whereTokens) < MAX_POSTFIX
                      THEN Append(whereTokens, tok) ELSE whereTokens
    /\ UNCHANGED <<pc, opStack, postfix, stk, i, row, result>>

EndOfText ==
    /\ pc = "collect"
    /\ Missing(clause) = 0
    /\ pc' = "convert"
    /\ UNCHANGED <<clause, whereTokens, opStack, postfix, stk, i, row, result>>

-----------------------------------------------------------------------------
(* Parser::shuntingYard, one step for each token.                          *)

\* The n topmost elements of a stack, in the order in which they are popped.
Popped(s, n) == [k \in 1 .. n |-> s[Len(s) + 1 - k]]
Remaining(s, n) == SubSeq(s, 1, Len(s) - n)

\* How many elements a loop pops that goes on while Goes holds for the top.
PopCount(s, Goes(_)) ==
    Max({n \in 0 .. Len(s) : \A k \in Len(s) + 1 - n .. Len(s) : Goes(s[k])})

pushOut(toks) == LET out == postfix \o toks
                 IN postfix' = IF Len(out) <= MAX_POSTFIX
                               THEN out ELSE SubSeq(out, 1, MAX_POSTFIX)

ShuntOperand ==
    /\ whereTokens[i] \in Operands
    /\ pushOut(<<whereTokens[i]>>)
    /\ UNCHANGED opStack

ShuntOpen ==
    /\ whereTokens[i] = "("
    /\ opStack' = Append(opStack, "(")
    /\ UNCHANGED postfix

ShuntClose ==
    /\ whereTokens[i] = ")"
    /\ LET Inside(op) == op # "("
           n == PopCount(opStack, Inside)
       IN /\ pushOut(Popped(opStack, n))
          /\ opStack' = IF n < Len(opStack) THEN Remaining(opStack, n + 1)
                                            ELSE <<>>

\* Mutant of ShuntOperator: operators of one precedence associate to the
\* right.
ShuntOperatorRight ==
    /\ whereTokens[i] \in Operators
    /\ LET Binds(op) == /\ op # "("
                        /\ precedence(whereTokens[i]) < precedence(op)
           n == PopCount(opStack, Binds)
       IN /\ pushOut(Popped(opStack, n))
          /\ opStack' = Append(Remaining(opStack, n), whereTokens[i])

\* Every binary operator associates to the left.
ShuntOperator ==
    /\ whereTokens[i] \in Operators
    /\ LET Binds(op) == /\ op # "("
                        /\ precedence(whereTokens[i]) <= precedence(op)
           n == PopCount(opStack, Binds)
       IN /\ pushOut(Popped(opStack, n))
          /\ opStack' = Append(Remaining(opStack, n), whereTokens[i])

Convert ==
    /\ pc = "convert"
    /\ i <= Len(whereTokens)
    /\ ShuntOperand \/ ShuntOpen \/ ShuntClose \/ ShuntOperator
    /\ i' = i + 1
    /\ UNCHANGED <<pc, clause, whereTokens, stk, row, result>>

\* The operators that are left go to the output.  A scan then calls
\* evalWhere for each row.
Converted ==
    /\ pc = "convert"
    /\ i > Len(whereTokens)
    /\ pushOut(Popped(opStack, Len(opStack)))
    /\ opStack' = <<>>
    /\ pc' = "evaluate" /\ i' = 1
    /\ row' \in Rows
    /\ UNCHANGED <<clause, whereTokens, stk, result>>

-----------------------------------------------------------------------------
(* Executor::evalWhere, one step for each token.  A parenthesis that a     *)
(* truncated clause left in the postfix is passed over.                    *)

Return(b) == pc' = "done" /\ result' = b

\* Mutant of Evaluate: an operator that lacks a value is passed over.
EvaluateLenient ==
    /\ pc = "evaluate"
    /\ i <= Len(postfix)
    /\ LET tok == postfix[i]
           n == Len(stk)
       IN stk' = IF tok \in Operands THEN Append(stk, row[tok])
                 ELSE IF tok \in Operators /\ n >= 2
                 THEN Append(SubSeq(stk, 1, n - 2),
                             applyOp(tok, stk[n - 1], stk[n]))
                 ELSE stk
    /\ i' = i + 1
    /\ UNCHANGED <<pc, clause, whereTokens, opStack, postfix, row, result>>

Evaluate ==
    /\ pc = "evaluate"
    /\ i <= Len(postfix)
    /\ LET tok == postfix[i]
           n == Len(stk)
       IN \/ /\ tok \in Operands
             /\ stk' = Append(stk, row[tok])
             /\ UNCHANGED <<pc, result>>
          \/ /\ tok \in Operators
             /\ n >= 2
             /\ stk' = Append(SubSeq(stk, 1, n - 2),
                              applyOp(tok, stk[n - 1], stk[n]))
             /\ UNCHANGED <<pc, result>>
          \/ /\ tok \in Operators
             /\ n < 2
             /\ Return(FALSE)
             /\ UNCHANGED stk
          \/ /\ tok = "("
             /\ UNCHANGED <<pc, stk, result>>
    /\ i' = i + 1
    /\ UNCHANGED <<clause, whereTokens, opStack, postfix, row>>

Evaluated ==
    /\ pc = "evaluate"
    /\ i > Len(postfix)
    /\ Return(stk = <<>> \/ Truth(stk[Len(stk)]))
    /\ UNCHANGED <<clause, whereTokens, opStack, postfix, stk, i, row>>

\* The next statement: all of these are locals or in a fresh ParsedQuery.
NextStatement ==
    /\ pc = "done"
    /\ pc' = "collect" /\ clause' = <<>> /\ whereTokens' = <<>>
    /\ opStack' = <<>> /\ postfix' = <<>> /\ stk' = <<>>
    /\ i' = 1 /\ row' = AnyRow /\ result' = FALSE

Next == \/ \E tok \in Operands \cup Operators \cup {"(", ")"} : Collect(tok)
        \/ EndOfText \/ Convert \/ Converted
        \/ Evaluate \/ Evaluated \/ NextStatement

Spec == Init /\ [][Next]_vars

-----------------------------------------------------------------------------
(* What a clause means.                                                    *)

Sign(s, k) == s[k] = "-" /\ Expecting(SubSeq(s, 1, k - 1))

\* The binary operators of the tokens a .. b of s that no parenthesis encloses.
Outer(s, a, b) == {k \in a .. b : /\ s[k] \in Operators
                                  /\ ~Sign(s, k)
                                  /\ Unclosed(SubSeq(s, a, k)) = 0}

\* The usual order of the operators, the weakest first.
Levels == << {"or"}, {"and"}, Comparing, {"+", "-"}, {"*", "%"} >>
Level(op) == CHOOSE n \in DOMAIN Levels : op \in Levels[n]

SplitAt(s, a, b) ==
    Max({k \in Outer(s, a, b) : \A m \in Outer(s, a, b) : Level(s[k]) <= Level(s[m])})

NoMeaning == [kind |-> "none", v |-> 0]

\* Logic on conditions, order on two numbers or two texts, arithmetic on
\* numbers; anything else is left without a meaning.  A number is a condition
\* that holds if it is not 0.
Condition(e) == e.kind \in {"bool", "num"}
Holds(e) == e.v # 0

Combine(op, l, r) ==
    CASE op = "and" /\ Condition(l) /\ Condition(r) -> Bool(Holds(l) /\ Holds(r))
      [] op = "or" /\ Condition(l) /\ Condition(r)  -> Bool(Holds(l) \/ Holds(r))
      [] op \in Comparing /\ l.kind = r.kind /\ l.kind \in {"num", "str"} ->
           Bool(Compare(op, l.v, r.v))
      [] op \notin Logical \cup Comparing /\ l.kind = "num" /\ r.kind = "num" ->
           Num(Compute(op, l.v, r.v))
      [] OTHER -> NoMeaning

\* What the tokens a .. b of s mean for the row r, if m is what fewer tokens mean.
MeaningBy(s, r, m, a, b) ==
    IF a > b THEN NoMeaning
    ELSE IF Outer(s, a, b) # {}
    THEN LET k == SplitAt(s, a, b)
         IN Combine(s[k], m[<<a, k - 1>>], m[<<k + 1, b>>])
    ELSE IF s[a] = "(" THEN m[<<a + 1, b - 1>>]
    ELSE IF Sign(s, a) THEN Combine("-", Num(0), m[<<a + 1, b>>])
    ELSE r[s[a]]

Spans(s) == (1 .. Len(s) + 1) \X (0 .. Len(s))

Meanings(s, r) ==
    LET m[ab \in Spans(s)] == MeaningBy(s, r, m, ab[1], ab[2])
    IN m

Meaning == Meanings(clause, row)[<<1, Len(clause)>>]

-----------------------------------------------------------------------------
(* Properties.                                                             *)

HasSign == \E k \in DOMAIN clause : Sign(clause, k)

\* A statement with the clause reads exactly the rows that the clause
\* describes.
ClauseMeans ==
    pc = "done" /\ Len(clause) <= MAX_POSTFIX /\ Condition(Meaning)
    => result = Holds(Meaning)

\* A well-typed clause that fits into parseWhere's array selects the row
\* exactly if the clause holds for it: precedence, left association and
\* parentheses survive the conversion and the evaluation.
SelectsByMeaning == ~HasSign => ClauseMeans

\* A clause that does not fit loses its end.  MAX_POSTFIX is even, so what
\* is left of a clause without parentheses ends with an operator and
\* evalWhere meets it with one value: the statement selects no row.  (With a
\* parenthesis cut off from its partner the rest may be a clause of its own,
\* which selects rows that the whole clause excludes.)
OverlongSelectsNothing ==
    /\ pc = "done"
    /\ Len(clause) > MAX_POSTFIX
    /\ ~HasSign /\ Count("(", clause) = 0
    => ~result

(***************************************************************************)
(* A minus sign before an operand is a binary operator to the conversion:  *)
(* wherever it stands, the postfix has an operator too many, evalWhere     *)
(* meets one with a single value, and the clause selects no row, not even  *)
(* one that another part of it describes (queries.txt:38 and 48 ask for    *)
(* such rows).  A DELETE or UPDATE with such a clause changes nothing.     *)
(***************************************************************************)
SignedSelectsNothing ==
    pc = "done" /\ HasSign /\ Len(clause) <= MAX_POSTFIX => ~result
=============================================================================
