---------------------------- MODULE DiceExpression ----------------------------
(***************************************************************************)
(* The dice engine (core/dice/dice_expression.cpp): what was typed is      *)
(* parsed, evaluated in machine integers and explained to the players by a *)
(* text, e.g. (4+2)×3=18.  Without "checked arithmetic" every operation    *)
(* wraps, with it an overflow is an error.                                 *)
(***************************************************************************)
EXTENDS DiceGrammar, FiniteSets

CONSTANTS
    Trees,         \* the expressions that are typed
    MaxDice        \* the most dice of one roll (1000 in the code)

ASSUME DiceAssumption == Trees \subseteq Tree /\ MaxDice \in Nat

VARIABLES
    tree,          \* what was meant
    dice,          \* the DiceExpression: checkedArithmetic_, and how the dice fall, low or high
    phase,         \* "typed", "parsed" or "done"
    ast,           \* the parsed tree
    result         \* DiceResult: total, the expanded terms, the terms' subtotals

diceVars == <<tree, dice, phase, ast, result>>

-----------------------------------------------------------------------------
(* checkedValue: what becomes of a 64-bit value that is stored in an int.  *)
Wrap(n) == ((n + Half) % (2 * Half)) - Half
Fits(n) == n \in -Half..(Half - 1)

(* Division truncates toward zero.                                         *)
Abs(n) == IF n < 0 THEN -n ELSE n
Quotient(a, b) == IF (a < 0) = (b < 0) THEN Abs(a) \div Abs(b) ELSE -(Abs(a) \div Abs(b))
Apply(op, a, b) == IF op = "+" THEN a + b ELSE IF op = "-" THEN a - b
                   ELSE IF op = "*" THEN a * b ELSE Quotient(a, b)

Face(d, sides) == IF d.faces = "high" THEN sides ELSE 1
Legal(count, sides) == count >= 0 /\ sides >= 1 /\ count <= MaxDice

(* Precedences of a rendered fragment.                                     *)
Additive == 1
Multiplicative == 2
Negation == 3
Atom == 4
LeadingMinus(text) == text # <<>> /\ Head(text).type = "-"
(* std::to_string                                                          *)
Digits(n) == IF n < 0 THEN Tok("-") \o Num(-n) ELSE Num(n)

Rendered(d, value, text, precedence) ==
    IF d.checked /\ ~Fits(value) THEN Failed
    ELSE [ok |-> TRUE, value |-> Wrap(value), text |-> text, precedence |-> precedence]

(* The faces of n dice, added up.                                          *)
Faces(n, face) ==
    [i \in 1..(2 * n - 1) |-> [type |-> IF i % 2 = 1 THEN "number" ELSE "+",
                               value |-> IF i % 2 = 1 THEN face ELSE 0]]

(* renderEval of a roll: a roll of plain numbers shows its dice, in        *)
(* brackets beside other operators; a computed one {dice}(sum), one unit.  *)
RenderRoll(d, t, count, sides, parenDice) ==
    LET sum == count * Face(d, sides)
        dynamic == t.left.kind # "number" \/ t.right.kind # "number"
        shown == Faces(count, Face(d, sides)) IN
    IF ~Legal(count, sides) THEN Failed
    ELSE IF dynamic THEN Rendered(d, sum, Bracketed(Digits(Wrap(sum))), Atom)
    ELSE IF count > 1 /\ parenDice THEN Rendered(d, sum, Bracketed(shown), Atom)
    ELSE Rendered(d, sum, shown, IF count > 1 THEN Additive ELSE Atom)

RenderMinus(d, x) ==
    Rendered(d, -x.value,
             Tok("-") \o (IF x.precedence < Atom THEN Bracketed(x.text) ELSE x.text), Negation)

(* Mutant: multiplication is taken to be associative with division.        *)
SameLevelNeedsOfMinus(op, right) == op \in {"-", "/"}

(* A right operand of the same precedence keeps its brackets, except where *)
(* regrouping changes nothing.                                             *)
SameLevelNeeds(op, right) == op \in {"-", "/"} \/ (op = "*" /\ IsBinary(right, {"/"}))

(* renderEval of an operator: the brackets that the tree implies are       *)
(* restored.                                                               *)
RenderBinary(d, t, l, r) ==
    LET precedence == IF t.op \in {"*", "/"} THEN Multiplicative ELSE Additive
        left == IF l.precedence < precedence THEN Bracketed(l.text) ELSE l.text
        right == IF \/ r.precedence < precedence
                    \/ LeadingMinus(r.text)
                    \/ r.precedence = precedence /\ SameLevelNeeds(t.op, t.right)
                 THEN Bracketed(r.text) ELSE r.text IN
    IF t.op = "/" /\ r.value = 0 THEN Failed
    ELSE Rendered(d, Apply(t.op, l.value, r.value), left \o Tok(t.op) \o right, precedence)

(* renderEval of a node, of whose operands the results are l and r.        *)
RenderNode(d, t, l, r, parenDice) ==
    IF ~l.ok \/ ~r.ok THEN Failed
    ELSE IF t.kind = "roll" THEN RenderRoll(d, t, l.value, r.value, parenDice)
    ELSE RenderBinary(d, t, l, r)

RenderEval(d) ==
    LET render[t \in Tree] == [parenDice \in BOOLEAN |->
        IF t.kind = "number"
        THEN [ok |-> TRUE, value |-> Wrap(t.value), text |-> Num(t.value), precedence |-> Atom]
        ELSE IF t.kind = "minus"
        THEN LET x == render[t.left][TRUE] IN IF x.ok THEN RenderMinus(d, x) ELSE Failed
        ELSE RenderNode(d, t, render[t.left][TRUE], render[t.right][TRUE], parenDice)]
    IN render

(* The signed terms of the top-level sum.                                  *)
FlattenAdditive[t \in Tree] == [negative \in BOOLEAN |->
    IF IsBinary(t, {"+", "-"})
    THEN FlattenAdditive[t.left][negative] \o
         FlattenAdditive[t.right][IF t.op = "-" THEN ~negative ELSE negative]
    ELSE <<[negative |-> negative, term |-> t]>>]

(* One turn of the loop in evaluate(): a term is rendered and joined to    *)
(* those before it by its sign.                                            *)
JoinTerm(d, before, neg, x, first) ==
    LET sign == IF neg THEN Tok("-") ELSE IF first THEN <<>> ELSE Tok("+")
        Joined(text) == sign \o (IF (~first \/ neg) /\ LeadingMinus(text)
                                 THEN Bracketed(text) ELSE text)
        signed == IF neg THEN Rendered(d, -x.value, <<>>, Atom) ELSE x
        total == Rendered(d, before.total + signed.value, <<>>, Atom) IN
    IF ~signed.ok \/ ~total.ok THEN Failed
    ELSE [ok |-> TRUE, total |-> total.value,
          sep |-> before.sep \o Joined(x.text),
          combined |-> before.combined \o Joined(Digits(x.value))]

Nothing == [ok |-> TRUE, total |-> 0, sep |-> <<>>, combined |-> <<>>]
JoinTerms(d, terms) ==
    LET join[n \in 0..Len(terms)] ==
          IF n = 0 THEN Nothing
          ELSE LET x == RenderEval(d)[terms[n].term]
                            [Len(terms) > 1 \/ terms[n].term.kind = "binary"]
               IN IF ~join[n - 1].ok \/ ~x.ok THEN Failed
                  ELSE JoinTerm(d, join[n - 1], terms[n].negative, x, n = 1)
    IN join

Evaluate(d, t) ==
    LET terms == FlattenAdditive[t][FALSE] IN JoinTerms(d, terms)[Len(terms)]

-----------------------------------------------------------------------------
DiceInit ==
    /\ tree \in Trees
    /\ dice \in [checked : BOOLEAN, faces : {"low", "high"}]
    /\ phase = "typed"
    /\ ast = Failed /\ result = Failed

Parse ==
    /\ phase = "typed" /\ phase' = "parsed"
    /\ ast' = IF Lexes(TypedText[tree]) THEN ParseAll(TypedText[tree]) ELSE Failed
    /\ UNCHANGED <<tree, dice, result>>

Answer ==
    /\ phase = "parsed" /\ phase' = "done"
    /\ result' = IF ast.ok THEN Evaluate(dice, ast.tree) ELSE Failed
    /\ UNCHANGED <<tree, dice, ast>>

DiceNext == Parse \/ Answer
DiceSpec == DiceInit /\ [][DiceNext]_diceVars

-----------------------------------------------------------------------------
DiceTypeOK ==
    /\ tree \in Trees /\ dice \in [checked : BOOLEAN, faces : {"low", "high"}]
    /\ phase \in {"typed", "parsed", "done"}
    /\ ast.ok \in BOOLEAN /\ (ast.ok => ast.tree \in Tree)
    /\ result.ok \in BOOLEAN /\ (result.ok => Fits(result.total))

(* What an expression means, in integers without bounds.                   *)
Meant(d, t, l, r) ==
    IF ~l.ok \/ ~r.ok THEN Failed
    ELSE IF t.kind = "roll"
    THEN IF Legal(l.value, r.value) THEN [ok |-> TRUE, value |-> l.value * Face(d, r.value)]
         ELSE Failed
    ELSE IF t.op = "/" /\ r.value = 0 THEN Failed
    ELSE [ok |-> TRUE, value |-> Apply(t.op, l.value, r.value)]

Meaning(d) ==
    LET meaning[t \in Tree] ==
        IF t.kind = "number" THEN [ok |-> TRUE, value |-> t.value]
        ELSE IF t.kind = "minus"
        THEN IF meaning[t.left].ok THEN [ok |-> TRUE, value |-> -meaning[t.left].value]
             ELSE Failed
        ELSE Meant(d, t, meaning[t.left], meaning[t.right])
    IN meaning

Nodes[t \in Tree] ==
    {t} \cup (IF t.kind = "number" THEN {} ELSE Nodes[t.left])
        \cup (IF t.kind \in {"roll", "binary"} THEN Nodes[t.right] ELSE {})

(* dice_expression.cpp:111-115, 264-271, 177-178.  The total is what the   *)
(* typed expression means.  With checked arithmetic this holds of every    *)
(* total that is not an error; without, a sum or product of ints that      *)
(* overflows (at any point) still has the value modulo 2 * Half.           *)
TotalExact ==
    phase = "done" =>
        LET exact == Meaning(dice)[tree] IN
        /\ dice.checked /\ result.ok => exact.ok /\ result.total = exact.value
        /\ ~dice.checked /\ (\A t \in Nodes[tree] : IF t.kind = "number" THEN t.value < Half
                                                    ELSE t.kind # "roll" /\ ~IsBinary(t, {"/"}))
              => result.ok /\ result.total = Wrap(exact.value)

(* The first factors of a product, read from the left, begin with a        *)
(* quotient.                                                               *)
BeginsWithQuotient[t \in Tree] ==
    IsBinary(t, {"/"}) \/ (IsBinary(t, {"*"}) /\ BeginsWithQuotient[t.left])
Regroups(t) == /\ IsBinary(t, {"*"})
               /\ IsBinary(t.right, {"*"})
               /\ BeginsWithQuotient[t.right.left]
(* A roll of no dice renders as nothing at all.                            *)
NoDice(t) == t.kind = "roll" /\ t.left = MakeNumber(0)

(* MaxDepth leaves room to read every explanation that is given: a text is *)
(* read as a tree no deeper than the text has signs and operators.  (What  *)
(* an expression is rendered as does not depend on MaxDepth, so that some  *)
(* MaxDepth is enough for any finite set of expressions.)                  *)
Operators(text) ==
    Cardinality({i \in 1..Len(text) : text[i].type \in {"+", "-", "*", "/", "d"}})
Room ==
    \A d \in [checked : {FALSE}, faces : {"low", "high"}], t \in Trees :
        LET x == Evaluate(d, t) IN
        x.ok => Operators(x.sep) <= MaxDepth /\ Operators(x.combined) <= MaxDepth

ASSUME RoomAssumption == Room

ReadAs(text) ==
    LET x == ParseAll(text) IN IF x.ok THEN Evaluate(dice, x.tree) ELSE Failed

(* dice_expression.cpp:251-259.  The explanation adds up: each stage of    *)
(* the rendered text, read by the rules of the same grammar, gives the     *)
(* total.  (Two kinds of expression are excepted: a roll of no dice, and a *)
(* product whose right factor is a product that begins with a quotient,    *)
(* which loses its brackets.)                                              *)
ReadsBack ==
    (phase = "done" /\ result.ok /\ ~dice.checked
        /\ ~(\E t \in Nodes[tree] : Regroups(t) \/ NoDice(t))) =>
        \A text \in {result.sep, result.combined} :
            ReadAs(text).ok /\ ReadAs(text).total = result.total
==============================================================================
