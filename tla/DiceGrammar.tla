----------------------------- MODULE DiceGrammar -----------------------------
(***************************************************************************)
(* Dice expressions as trees and as text (core/dice/dice_expression.cpp):  *)
(* how a tree is typed, with as few brackets as the grammar allows, and    *)
(* the recursive-descent parser that reads it.  Text is a sequence of      *)
(* tokens.                                                                 *)
(***************************************************************************)
EXTENDS Integers, Sequences

CONSTANTS
    MaxDepth,      \* bound: how deep expressions are nested
    Half           \* an int is a number in -Half..(Half - 1); 2^31 in the code

ASSUME GrammarAssumption == MaxDepth \in Nat /\ Half \in Nat \ {0}

MakeNumber(n) == [kind |-> "number", value |-> n]
MakeDiceRoll(count, sides) == [kind |-> "roll", left |-> count, right |-> sides]
MakeBinaryOp(op, l, r) == [kind |-> "binary", op |-> op, left |-> l, right |-> r]
MakeUnaryMinus(t) == [kind |-> "minus", left |-> t]

(* The expressions whose parts are nested at most n deep.                  *)
Op == {"+", "-", "*", "/"}
Leaves == [kind : {"number"}, value : Nat]
Negated(T) == [kind : {"minus"}, left : T]
Rolls(T, U) == [kind : {"roll"}, left : T, right : U]
Operations(T, U) == [kind : {"binary"}, op : Op, left : T, right : U]

Deeper(T) == Leaves \cup Negated(T) \cup Rolls(T, T) \cup Operations(T, T)

Nested[n \in 0..MaxDepth] == IF n = 0 THEN Leaves ELSE Deeper(Nested[n - 1])
Tree == Nested[MaxDepth]

Tok(type) == <<[type |-> type, value |-> 0]>>
Num(n) == <<[type |-> "number", value |-> n]>>
Bracketed(text) == Tok("(") \o text \o Tok(")")

IsBinary(t, ops) == t.kind = "binary" /\ t.op \in ops

-----------------------------------------------------------------------------
(* How a tree is typed: brackets only where the grammar needs them.        *)
Level(t) == IF t.kind = "number" THEN 5
            ELSE IF t.kind = "roll" THEN 4
            ELSE IF t.kind = "minus" THEN 3
            ELSE IF t.op \in {"*", "/"} THEN 2
            ELSE 1

Within(t, text, least) == IF Level(t) < least THEN Bracketed(text) ELSE text

TypedText[t \in Tree] ==
    IF t.kind = "number" THEN Num(t.value)
    ELSE IF t.kind = "minus" THEN Tok("-") \o Within(t.left, TypedText[t.left], 3)
    ELSE IF t.kind = "roll"
    THEN Within(t.left, TypedText[t.left], 4) \o Tok("d") \o
         (IF t.right.kind = "minus"
          THEN Tok("-") \o Within(t.right.left, TypedText[t.right.left], 5)
          ELSE Within(t.right, TypedText[t.right], 5))
    ELSE Within(t.left, TypedText[t.left], Level(t)) \o Tok(t.op) \o
         Within(t.right, TypedText[t.right], Level(t) + 1)

-----------------------------------------------------------------------------
(* The parser.  A call of one of its functions begins at a position of the *)
(* text; the loops "sums", "products" and "rolls" also have what stands on *)
(* their left.  It returns a tree and the next position, or fails.         *)
Failed == [ok |-> FALSE]
Parsed(t, p) == [ok |-> TRUE, tree |-> t, next |-> p]

Call(fn, p) == [fn |-> fn, at |-> p]
Loop(fn, left, p) == [fn |-> fn, at |-> p, left |-> left]
Signs(negative, p) == [fn |-> "signs", at |-> p, negative |-> negative]
Calls == [fn : {"expression", "term", "factor", "primary"}, at : Nat \ {0}]
    \cup [fn : {"sums", "products", "rolls"}, at : Nat \ {0}, left : Tree]
    \cup [fn : {"signs"}, at : Nat \ {0}, negative : BOOLEAN]

Peek(s, p) == IF p <= Len(s) THEN s[p].type ELSE "eof"

(* The tree and the position that one call returns are given to the next.  *)
Continue(x, fn, read) == IF x.ok THEN read[Loop(fn, x.tree, x.next)] ELSE Failed

(* In what follows, read gives the results of the calls made.              *)
ParseExpression(s, read, p) == Continue(read[Call("term", p)], "sums", read)

(* Terms are joined from left to right, and so are factors and rolls.      *)
ExpressionRest(s, read, left, p) ==
    IF Peek(s, p) \notin {"+", "-"} THEN Parsed(left, p)
    ELSE LET right == read[Call("term", p + 1)] IN
         IF ~right.ok THEN Failed
         ELSE read[Loop("sums", MakeBinaryOp(Peek(s, p), left, right.tree), right.next)]

ParseTerm(s, read, p) == Continue(read[Call("factor", p)], "products", read)

TermRest(s, read, left, p) ==
    IF Peek(s, p) \notin {"*", "/"} THEN Parsed(left, p)
    ELSE LET right == read[Call("factor", p + 1)] IN
         IF ~right.ok THEN Failed
         ELSE read[Loop("products", MakeBinaryOp(Peek(s, p), left, right.tree), right.next)]

(* A sign applies to the whole factor that follows it.                     *)
ParseFactor(s, read, p) ==
    IF Peek(s, p) = "+" THEN read[Call("factor", p + 1)]
    ELSE IF Peek(s, p) = "-"
    THEN LET x == read[Call("factor", p + 1)] IN
         IF x.ok THEN Parsed(MakeUnaryMinus(x.tree), x.next) ELSE Failed
    ELSE Continue(read[Call("primary", p)], "rolls", read)

(* 10d10d1 is (10d10)d1; the sign of the sides does not reach past them.   *)
RollRest(s, read, left, p) ==
    IF Peek(s, p) # "d" THEN Parsed(left, p)
    ELSE LET right == read[Signs(FALSE, p + 1)] IN
         IF ~right.ok THEN Failed
         ELSE read[Loop("rolls", MakeDiceRoll(left, right.tree), right.next)]

(* Mutant: the sign of the sides is skipped.                               *)
ParseSignSkipped(s, read, negative, p) ==
    IF Peek(s, p) \in {"+", "-"} THEN read[Signs(FALSE, p + 1)] ELSE read[Call("primary", p)]

(* The sides of a roll: signs, then a primary.                             *)
ParseSigned(s, read, negative, p) ==
    IF Peek(s, p) \in {"+", "-"} THEN read[Signs(negative # (Peek(s, p) = "-"), p + 1)]
    ELSE LET x == read[Call("primary", p)] IN
         IF x.ok /\ negative THEN Parsed(MakeUnaryMinus(x.tree), x.next) ELSE x

ParsePrimary(s, read, p) ==
    IF Peek(s, p) = "number" THEN Parsed(MakeNumber(s[p].value), p + 1)
    ELSE IF Peek(s, p) = "("
    THEN LET x == read[Call("expression", p + 1)] IN
         IF x.ok /\ Peek(s, x.next) = ")" THEN Parsed(x.tree, x.next + 1) ELSE Failed
    ELSE Failed

Returned(s, read, c) ==
    IF c.fn = "expression" THEN ParseExpression(s, read, c.at)
    ELSE IF c.fn = "term" THEN ParseTerm(s, read, c.at)
    ELSE IF c.fn = "factor" THEN ParseFactor(s, read, c.at)
    ELSE IF c.fn = "primary" THEN ParsePrimary(s, read, c.at)
    ELSE IF c.fn = "sums" THEN ExpressionRest(s, read, c.left, c.at)
    ELSE IF c.fn = "products" THEN TermRest(s, read, c.left, c.at)
    ELSE IF c.fn = "rolls" THEN RollRest(s, read, c.left, c.at)
    ELSE ParseSigned(s, read, c.negative, c.at)

(* The results of calls nested at most n deep, on the text s; four of them *)
(* follow each other at most before a token is read.                       *)
Deepest(s) == 4 * (Len(s) + 2)
Reading(s) ==
    LET read[n \in 0..Deepest(s)] ==
          IF n = 0 THEN [c \in Calls |-> Failed]
          ELSE [c \in Calls |-> Returned(s, read[n - 1], c)]
    IN read

(* The whole text must be one expression.                                  *)
ParseAll(s) ==
    LET x == Reading(s)[Deepest(s)][Call("expression", 1)]
    IN IF x.ok /\ x.next = Len(s) + 1 THEN x ELSE Failed

(* std::stoi: a number that is no int makes the whole input fail.          *)
Lexes(s) == \A i \in 1..Len(s) : s[i].type = "number" => s[i].value < Half
=============================================================================
