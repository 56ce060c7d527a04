----------------------------- MODULE Calculator -----------------------------
(***************************************************************************)
(* The calculator: a line is evaluated from left to right with a stack of  *)
(* operands and one of operators.                                          *)
(***************************************************************************)
EXTENDS Integers, Sequences, FiniteSets, SequencesExt, TLC

CONSTANTS
  Digits,         \* digits: "0" to "9", or some of them
  Others,         \* characters that are neither digit, operator nor space
  STACK_CAPACITY  \* of both stacks; the line is shorter

VARIABLES
  expression,
  here,           \* the next character
  operandStack, operatorStack,
  outcome         \* "none", "error" or "result"

lineVars == <<expression, here, operandStack, operatorStack, outcome>>

Operators == {"+", "-", "*", "/"}
Space == " "

(* Every character is of one kind. *)
ASSUME LineAssumption ==
  /\ Digits \intersect (Operators \union {Space}) = {}
  /\ Others \intersect (Digits \union Operators \union {Space}) = {}
  /\ STACK_CAPACITY \in Nat \ {0}

Value(d) == CHOOSE n \in 0 .. 9 : ToString(n) = d
Characters == Digits \union Others \union Operators \union {Space}
AtEnd == here > Len(expression)
This == expression[here]

Ready == here = 1 /\ operandStack = <<>> /\ operatorStack = <<>> /\ outcome = "none"

LineInit == expression \in SeqOf(Characters, STACK_CAPACITY - 1) /\ Ready

-----------------------------------------------------------------------------
(* The top of a stack is its end. *)
Top(s) == s[Len(s)]
Popped(s, n) == SubSeq(s, 1, Len(s) - n)
push(s, x) == IF Len(s) < STACK_CAPACITY THEN Append(s, x) ELSE s

getOperatorPrecedence(op) == IF op \in {"*", "/"} THEN 2 ELSE 1

(* The quotient is cut towards zero. *)
Quotient(x, y) ==
  LET abs(n) == IF n < 0 THEN -n ELSE n
      q == abs(x) \div abs(y)
  IN  IF (x < 0) = (y < 0) THEN q ELSE -q

Undefined(op, y) == op = "/" /\ y = 0
applyOperator(x, y, op) ==
  CASE op = "+" -> x + y
    [] op = "-" -> x - y
    [] op = "*" -> x * y
    [] op = "/" -> Quotient(x, y)

SkipSpace ==
  /\ outcome = "none" /\ ~AtEnd /\ This = Space /\ here' = here + 1
  /\ UNCHANGED <<expression, operandStack, operatorStack, outcome>>

(* A number is read as far as it goes. *)
EndOfNumber(s, k) == CHOOSE e \in k .. Len(s) :
                       /\ \A j \in k .. e : s[j] \in Digits
                       /\ e < Len(s) => s[e + 1] \notin Digits
NumberAt(s, k) == FoldLeft(LAMBDA n, d : n * 10 + Value(d), 0, SubSeq(s, k, EndOfNumber(s, k)))

ReadNumber ==
  /\ outcome = "none" /\ ~AtEnd /\ This \in Digits
  /\ operandStack' = push(operandStack, NumberAt(expression, here))
  /\ here' = EndOfNumber(expression, here) + 1
  /\ UNCHANGED <<expression, operatorStack, outcome>>

(* The operator on top is due when it binds as tightly as the next one, or *)
(* there is no next one.                                                   *)
Weight == IF AtEnd THEN 0 ELSE IF This \in Operators THEN getOperatorPrecedence(This) ELSE 3
DueSlip ==                                   \* slip: only when it binds more tightly
  outcome = "none" /\ operatorStack # <<>> /\ getOperatorPrecedence(Top(operatorStack)) > Weight
Due ==
  outcome = "none" /\ operatorStack # <<>> /\ getOperatorPrecedence(Top(operatorStack)) >= Weight

(* It needs two operands, and a divisor that is not zero. *)
Applicable == Len(operandStack) >= 2 /\ ~Undefined(Top(operatorStack), Top(operandStack))

Apply ==
  /\ Due /\ Applicable
  /\ LET x == operandStack[Len(operandStack) - 1]
         y == Top(operandStack)
     IN  operandStack' = push(Popped(operandStack, 2), applyOperator(x, y, Top(operatorStack)))
  /\ operatorStack' = Popped(operatorStack, 1)
  /\ UNCHANGED <<expression, here, outcome>>

Refuse ==
  /\ \/ Due /\ ~Applicable
     \/ outcome = "none" /\ ~AtEnd /\ This \in Others
     \/ outcome = "none" /\ AtEnd /\ operatorStack = <<>> /\ operandStack = <<>>
  /\ outcome' = "error" /\ UNCHANGED <<expression, here, operandStack, operatorStack>>

PushOperator ==
  /\ outcome = "none" /\ ~AtEnd /\ This \in Operators /\ ~Due
  /\ operatorStack' = push(operatorStack, This) /\ here' = here + 1
  /\ UNCHANGED <<expression, operandStack, outcome>>

Show ==
  /\ outcome = "none" /\ AtEnd /\ operatorStack = <<>> /\ operandStack # <<>>
  /\ outcome' = "result" /\ UNCHANGED <<expression, here, operandStack, operatorStack>>

LineNext == SkipSpace \/ ReadNumber \/ Apply \/ Refuse \/ PushOperator \/ Show

LineSpec == LineInit /\ [][LineNext]_lineVars

-----------------------------------------------------------------------------
(* What an expression means: numbers alternate with operators, and it is a *)
(* sum of products.  A number is known by its first digit, an operator by  *)
(* its place, and what is read up to a place by that place.                *)
Weak == {"+", "-"}
Where(s, S) == {k \in DOMAIN s : s[k] \in S}
Numbers(s) == {k \in Where(s, Digits) : k > 1 => s[k - 1] \notin Digits}
Ends(s) == Where(s, Operators) \union {Len(s) + 1}
Upto(s) == 1 .. Len(s) + 1

Opening(s, S, e) == Max({0} \union {k \in Where(s, S) : k < e})    \* 0: none before e
Stretch(s, e) == {k \in Numbers(s) : Opening(s, Operators, e) < k /\ k < e}
Expression(s) ==
  Where(s, Others) = {} /\ \A e \in Ends(s) : \E k \in Numbers(s) : Stretch(s, e) = {k}

(* All results there are: none when a divisor is zero. *)
Combined(xs, op, ys) ==
  {applyOperator(x, y, op) : x \in xs, y \in {y \in ys : ~Undefined(op, y)}}

LeftToRight(s, left, at) ==
  LET upto[e \in Upto(s)] == IF left[e] = 0 THEN at[e]
                             ELSE Combined(upto[left[e]], s[left[e]], at[e])
  IN  upto

NumberTo(s) == [e \in Upto(s) |-> {NumberAt(s, k) : k \in Stretch(s, e)}]
InProduct(s) == [e \in Upto(s) |-> LET o == Opening(s, Operators, e)
                                   IN  IF o \in Where(s, Weak) THEN 0 ELSE o]
InSum(s) == [e \in Upto(s) |-> Opening(s, Weak, e)]
ProductTo(s) == LeftToRight(s, InProduct(s), NumberTo(s))
SumTo(s) == LeftToRight(s, InSum(s), ProductTo(s))
Meaning(s) == SumTo(s)[Len(s) + 1]

(* An expression gets its meaning, products before sums and from left to   *)
(* right, or an error if it divides by zero (lines 109-164).               *)
Result == IF outcome = "result" THEN {Top(operandStack)} ELSE {}
GetsMeaning == outcome # "none" /\ Expression(expression) => Result = Meaning(expression)

(* No other line gets a result unless it has more numbers than operators   *)
(* and no other characters: operands are counted, not their places, so "1  *)
(* 2 +" is one of those that do (lines 109-198).                           *)
RefusesMissing ==
  outcome = "result" =>
    /\ Where(expression, Others) = {}
    /\ Cardinality(Numbers(expression)) > Cardinality(Where(expression, Operators))

(* Both, for every line and at the end of every path through the loops: an *)
(* expression gets its meaning, whatever is on the two stacks on the way,  *)
(* and a line with too few numbers or an unknown character gets no result. *)
Evaluates == GetsMeaning /\ RefusesMissing
=============================================================================
