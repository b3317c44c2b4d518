----------------------------- MODULE CostModel -----------------------------
(***************************************************************************)
(* The price list, in units of 10^-8 dollars, and what a step is charged:  *)
(* a whole number of micro-dollars, that is, of hundreds of units.         *)
(***************************************************************************)
EXTENDS Integers

CONSTANT TiesUp  \* the amounts half way between two micro-dollars that their binary
                 \* representation rounds up

\* Per token.
MODEL_CATALOG ==
  [model \in {"sim-fast", "sim-standard", "sim-reasoning"} |->
     CASE model = "sim-fast"      -> [input |-> 25,   output |-> 125]
       [] model = "sim-standard"  -> [input |-> 300,  output |-> 1500]
       [] model = "sim-reasoning" -> [input |-> 1500, output |-> 7500]]

TOOL_CALL_COST == 80000

Tokens == [input: Nat, output: Nat]
NoTokens == [input |-> 0, output |-> 0]

Price(model, tokens) ==
  tokens.input * MODEL_CATALOG[model].input + tokens.output * MODEL_CATALOG[model].output

\* round(x, 6).
Rounded(x) ==
  IF x % 100 < 50 \/ (x % 100 = 50 /\ x \notin TiesUp) THEN x - (x % 100)
  ELSE x - (x % 100) + 100

model_call_cost(model, tokens) == Rounded(Price(model, tokens))
=============================================================================
