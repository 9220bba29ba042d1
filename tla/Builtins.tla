------------------------------- MODULE Builtins -------------------------------
(***************************************************************************)
(* The functions every VM starts with (src/src/vm/builtins.c): what each   *)
(* returns for the values of its arguments.  A function that is given too  *)
(* few arguments, or arguments of other types, returns a default.          *)
(***************************************************************************)
EXTENDS Expressions

CONSTANTS
  Spelling,          \* Spelling[s]: the characters of text s
  Upper, Lower,      \* what toupper and tolower make of a character
  Spaces,            \* the characters isspace accepts
  Instant,           \* Instant[s]: the date text s is, or NoDate
  TypeName,          \* TypeName[t]: the text of the name of a type
  Now,               \* time(NULL)
  Epsilon            \* CDSL_DEFAULT_FLOAT_EPSILON, in parts of one

NoDate == -1

Text(s) == Value("STRING", s)
Date(t) == Value("DATE", t)
NullText == Text(0)

(***************************************************************************)
(* Strings.  The text of a result is the one with its characters.          *)
(***************************************************************************)
IsText(v) == v.type = "STRING" /\ v.data # 0
Chars(v) == Spelling[v.data]
Written(chars) == Text(CHOOSE s \in DOMAIN Spelling : Spelling[s] = chars)

DecimalLength(n) ==
  (IF n < 0 THEN 1 ELSE 0)
    + CHOOSE d \in 1 .. 10 : /\ Magnitude(n) < 10 ^ d
                             /\ d = 1 \/ Magnitude(n) >= 10 ^ (d - 1)

StrLen(v) ==
  CASE IsText(v) -> Number(Len(Chars(v)))
    [] v.type = "INT" -> Number(DecimalLength(v.data))
    [] OTHER -> Number(0)

\* The characters of p stand in s from place i + 1 on.
StandsAt(p, s, i) == i + Len(p) <= Len(s) /\ SubSeq(s, i + 1, i + Len(p)) = p

ContainsText(s, p) ==
  Bool(IsText(s) /\ IsText(p)
         /\ \E i \in 0 .. Len(Chars(s)) : StandsAt(Chars(p), Chars(s), i))

StartsWith(s, p) == Bool(IsText(s) /\ IsText(p) /\ StandsAt(Chars(p), Chars(s), 0))

EndsWith(s, p) ==
  Bool(IsText(s) /\ IsText(p) /\ Len(Chars(s)) >= Len(Chars(p))
         /\ StandsAt(Chars(p), Chars(s), Len(Chars(s)) - Len(Chars(p))))

\* uppercase and lowercase.
Changed(v, case) ==
  IF IsText(v) THEN Written([i \in DOMAIN Chars(v) |-> case[Chars(v)[i]]])
  ELSE NullText

Trim(v) ==
  IF ~IsText(v) THEN NullText
  ELSE LET s == Chars(v)
           kept == {i \in DOMAIN s : s[i] \notin Spaces}
       IN IF kept = {} THEN Text(EmptyText)
          ELSE Written(SubSeq(s, Min(kept), Max(kept)))

(***************************************************************************)
(* Dates.  A date may be written as a string.                              *)
(***************************************************************************)
InstantOf(v, otherwise) ==
  CASE v.type = "DATE" -> v.data
    [] v.type = "STRING" -> IF v.data = 0 THEN NoDate ELSE Instant[v.data]
    [] OTHER -> otherwise

\* is_before and is_after.
Compared(op, a, b) ==
  LET s == InstantOf(a, NoDate)
      t == InstantOf(b, NoDate)
  IN Bool(s # NoDate /\ t # NoDate /\ Holds(op, s, t))

\* What is no date at all counts as the instant 0.
DaysBetween(a, b) ==
  LET s == InstantOf(a, 0)
      t == InstantOf(b, 0)
  IN Number(IF s # NoDate /\ t # NoDate THEN Quotient(s - t, Day) ELSE 0)

WholeDays(n) ==
  CASE n.type = "INT" -> n.data
    [] n.type = "FLOAT" -> Quotient(n.data, Parts)
    [] OTHER -> 0


\* Nothing to add is no date.
DateAdd(d, n) ==
  LET s == InstantOf(d, NoDate) IN
  Date(IF s # NoDate /\ WholeDays(n) # 0 THEN s + WholeDays(n) * Day ELSE NoDate)

(***************************************************************************)
(* Numbers                                                                 *)
(***************************************************************************)
\* The type of the result is that of the argument; abs(INT_MIN) stays as it is.
Abs(v) ==
  CASE v.type = "INT" -> Number(IF v.data = IntMin THEN IntMin ELSE Magnitude(v.data))
    [] v.type = "FLOAT" -> Value("FLOAT", Magnitude(v.data))
    [] OTHER -> Number(0)

IsNumber(v) == v.type \in Numeric \cup {"BOOL"}

\* min and max.  A LONG beyond INT gives what the conversion of a double to int
\* gives: INT_MIN.
Chosen(f, a, b) ==
  LET both == {AsParts(a), AsParts(b)}
      n == IF f = "min" THEN Min(both) ELSE Max(both)
      whole == Quotient(n, Parts)
  IN IF ~IsNumber(a) \/ ~IsNumber(b) THEN Number(0)
     ELSE IF "FLOAT" \in {a.type, b.type} THEN Value("FLOAT", n)
     ELSE Number(IF whole \in Width("INT") THEN whole ELSE IntMin)

\* To the nearest INT, halves away from zero.
Round(v) ==
  CASE v.type = "FLOAT" ->
         LET n == (Magnitude(v.data) * 2 + Parts) \div (2 * Parts) IN
         Number(IF v.data < 0 THEN -n ELSE n)
    [] v.type = "INT" -> v
    [] OTHER -> Number(0)

\* The difference is within epsilon, or within epsilon of the larger one.
ApproxEq(a, b, eps) ==
  LET x == AsParts(a)
      y == AsParts(b)
      e == AsParts(eps)
      larger == Max({Magnitude(x), Magnitude(y)})
  IN Bool(/\ IsNumber(a) /\ IsNumber(b) /\ IsNumber(eps) /\ e >= 0
          /\ x = y \/ Magnitude(x - y) * Parts <= Max({e * Parts, e * larger}))

(***************************************************************************)
(* Types and arrays                                                        *)
(***************************************************************************)
TypeOf(v) == Text(TypeName[v.type])

CountItems(v) == Number(IF v.type = "ARRAY" THEN Len(v.items) ELSE 0)

\* The INT items; int wraps around.
SumItems(v) ==
  LET total == IF v.type # "ARRAY" THEN 0
               ELSE MapThenSumSet(LAMBDA i : v.items[i].data,
                      {i \in DOMAIN v.items : v.items[i].type = "INT"})
  IN Number(IntMin + ((total - IntMin) % (IntMax - IntMin + 1)))

(***************************************************************************)
(* cdsl_vm_register_builtins                                               *)
(***************************************************************************)
BuiltinNames ==
  {"strlen", "contains", "is_before", "is_after", "now", "days_between", "uppercase",
   "lowercase", "trim", "startswith", "endswith", "abs", "min", "max", "round",
   "typeof", "count", "sum", "date_add", "approx_eq"}

Arity(f) ==
  CASE f = "now" -> 0
    [] f \in {"contains", "is_before", "is_after", "days_between", "startswith",
              "endswith", "min", "max", "date_add", "approx_eq"} -> 2
    [] OTHER -> 1

\* What is returned when arguments are missing.
WithoutArguments(f) ==
  CASE f \in {"uppercase", "lowercase", "trim", "typeof"} -> NullText
    [] f = "date_add" -> Date(NoDate)
    [] f \in {"contains", "startswith", "endswith", "is_before", "is_after",
              "approx_eq"} -> Bool(FALSE)
    [] OTHER -> Number(0)

Builtin(f, args) ==
  IF Len(args) < Arity(f) \/ (f = "approx_eq" /\ Len(args) > 3) THEN WithoutArguments(f)
  ELSE CASE f = "strlen" -> StrLen(args[1])
    [] f = "contains" -> ContainsText(args[1], args[2])
    [] f = "startswith" -> StartsWith(args[1], args[2])
    [] f = "endswith" -> EndsWith(args[1], args[2])
    [] f = "uppercase" -> Changed(args[1], Upper)
    [] f = "lowercase" -> Changed(args[1], Lower)
    [] f = "trim" -> Trim(args[1])
    [] f = "now" -> Date(Now)
    [] f = "is_before" -> Compared("LT", args[1], args[2])
    [] f = "is_after" -> Compared("GT", args[1], args[2])
    [] f = "days_between" -> DaysBetween(args[1], args[2])
    [] f = "date_add" -> DateAdd(args[1], args[2])
    [] f = "abs" -> Abs(args[1])
    [] f \in {"min", "max"} -> Chosen(f, args[1], args[2])
    [] f = "round" -> Round(args[1])
    [] f = "approx_eq" ->
         ApproxEq(args[1], args[2],
                  IF Len(args) = 3 THEN args[3] ELSE Value("FLOAT", Epsilon))
    [] f = "typeof" -> TypeOf(args[1])
    [] f = "count" -> CountItems(args[1])
    [] f = "sum" -> SumItems(args[1])
=============================================================================
