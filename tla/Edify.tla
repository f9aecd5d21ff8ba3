------------------------------- MODULE Edify --------------------------------
(***************************************************************************)
(* edify/expr.c: the evaluation of an updater-script.  The C stack is a    *)
(* sequence of frames, the innermost first: an expression and the values   *)
(* of the arguments evaluated so far.  Every step begins the evaluation of *)
(* an argument, hands a value to the function that asked for it, or runs a *)
(* function's body; the functions of updater/install.c are in Updater.     *)
(*                                                                         *)
(* An expression is a record with its function fn, its arguments args and, *)
(* for a literal, its text.  A string is a sequence of characters, of      *)
(* which those of a number matter; any other word may be one character.    *)
(***************************************************************************)
EXTENDS Integers, Sequences, SequencesExt, FiniteSets

VARIABLES
    stack,      \* frames, innermost first
    ret,        \* value just returned, None while a function runs
    errmsg      \* state->errmsg

edify == <<stack, ret, errmsg>>

True == <<"t">>
False == <<>>
NoMessage == [set |-> FALSE, text |-> <<>>]
Message(s) == [set |-> TRUE, text |-> s]

None == [type |-> "none", s |-> <<>>]
Null == [type |-> "null", s |-> <<>>]
StringValue(s) == [type |-> "string", s |-> s]
Blob(d) == [type |-> "blob", s |-> <<d>>]

BooleanString(s) == s # <<>>

Frame(e) == [e |-> e, vals |-> <<>>]
Top == Head(stack)
Argc == Len(Top.e.args)
Got == Len(Top.vals)
A(i) == Top.vals[i].s

\* The body of a function of this name is running.
In(fns) == stack # <<>> /\ ret = None /\ Top.e.fn \in fns

Arg(i) == stack' = <<Frame(Top.e.args[i])>> \o stack /\ UNCHANGED <<ret, errmsg>>
Return(v) == stack' = Tail(stack) /\ ret' = v
Value(v) == Return(v) /\ UNCHANGED errmsg
Bool(b) == Value(StringValue(IF b THEN True ELSE False))
ErrorAbort(msg) == Return(Null) /\ errmsg' = Message(msg)

-----------------------------------------------------------------------------
(* Arguments *)

\* What is evaluated with EvaluateValue(), which takes a blob as well as a
\* string: the argument being evaluated is the one after the Got-th.
TakesAnyValue ==
    \/ Top.e.fn = ";" \/ Top.e.fn = "sha1_check"
    \/ Top.e.fn \in {"ifelse", "&&", "||"} /\ Got = 1
    \/ Top.e.fn = "apply_patch" /\ Got >= 4

\* Evaluate(), ReadArgs(): the next argument has a value.
Deliver ==
    /\ stack # <<>> /\ ret \notin {None, Null}
    /\ \/ /\ ret.type = "string" \/ TakesAnyValue
          /\ stack' = [stack EXCEPT ![1].vals = Append(@, ret)]
          /\ ret' = None /\ UNCHANGED errmsg
       \/ /\ ret.type # "string" /\ ~TakesAnyValue
          /\ ret' = Null /\ errmsg' = Message(<<"expecting string">>)
          /\ UNCHANGED stack

\* An argument is NULL: the function frees what it has and returns NULL.
GivesUp(fns) == stack # <<>> /\ ret = Null /\ Top.e.fn \in fns /\ Value(Null)

\* Functions that evaluate so many arguments, however many there are.
Fixed == [sleep |-> 1, is_substring |-> 2,
          file_getprop |-> 2, write_raw_image |-> 2, apply_patch_space |-> 1]
Reads == IF Top.e.fn \in DOMAIN Fixed THEN Fixed[Top.e.fn] ELSE Argc

\* The next argument of a function that evaluates them in order.
ReadArgs(fns) == In(fns) /\ Got < Reads /\ Got < Argc /\ Arg(Got + 1)

-----------------------------------------------------------------------------
(* Functions of the language *)

Literal == In({"literal"}) /\ Value(StringValue(Top.e.text))

\* The arguments one after the other.
Joined == FlattenSeq([i \in 1..Got |-> A(i)])

ConcatFn ==
    \/ ReadArgs({"concat"})
    \/ GivesUp({"concat"})
    \/ In({"concat"}) /\ Got = Argc /\ Value(StringValue(Joined))

IfElseFn ==
    \/ GivesUp({"ifelse"})
    \/ /\ In({"ifelse"})
       /\ \/ Argc \notin {2, 3} /\ ErrorAbort(<<"ifelse expects 2 or 3 arguments">>)
          \/ /\ Argc \in {2, 3}
             /\ \/ Got = 0 /\ Arg(1)
                \/ Got = 1 /\ BooleanString(A(1)) /\ Arg(2)
                \/ Got = 1 /\ ~BooleanString(A(1)) /\ Argc = 3 /\ Arg(3)
                \/ Got = 1 /\ ~BooleanString(A(1)) /\ Argc = 2 /\ Value(Top.vals[1])
                \/ Got = 2 /\ Value(Top.vals[2])

\* Whatever the message evaluates to, NULL included, the result is NULL.
AbortFn ==
    \/ In({"abort"}) /\ Got = 0 /\ Argc > 0 /\ Arg(1)
    \/ In({"abort"}) /\ Got = 1 /\ ErrorAbort(A(1))
    \/ In({"abort"}) /\ Argc = 0 /\ ErrorAbort(<<"called abort()">>)
    \/ /\ stack # <<>> /\ ret = Null /\ Top.e.fn = "abort"
       /\ ErrorAbort(<<"called abort()">>)

AssertFn ==
    \/ GivesUp({"assert"})
    \/ /\ In({"assert"})
       /\ \/ Got > 0 /\ ~BooleanString(A(Got)) /\ ErrorAbort(<<"assert failed">>)
          \/ /\ Got > 0 => BooleanString(A(Got))
             /\ \/ Got < Argc /\ Arg(Got + 1)
                \/ Got = Argc /\ Value(StringValue(False))

SleepFn ==
    \/ ReadArgs({"sleep"})
    \/ GivesUp({"sleep"})
    \/ In({"sleep"}) /\ Got = 1 /\ Value(Top.vals[1])

StdoutFn ==
    \/ ReadArgs({"stdout"})
    \/ GivesUp({"stdout"})
    \/ In({"stdout"}) /\ Got = Argc /\ Value(StringValue(False))

\* NULL of the left side, or of the right one, whose value is returned.
LogicalAndFn ==
    \/ GivesUp({"&&"})
    \/ /\ In({"&&"})
       /\ \/ Got = 0 /\ Arg(1)
          \/ Got = 1 /\ BooleanString(A(1)) /\ Arg(2)
          \/ Got = 1 /\ ~BooleanString(A(1)) /\ Value(Top.vals[1])
          \/ Got = 2 /\ Value(Top.vals[2])

LogicalOrFn ==
    \/ GivesUp({"||"})
    \/ /\ In({"||"})
       /\ \/ Got = 0 /\ Arg(1)
          \/ Got = 1 /\ ~BooleanString(A(1)) /\ Arg(2)
          \/ Got = 1 /\ BooleanString(A(1)) /\ Value(Top.vals[1])
          \/ Got = 2 /\ Value(Top.vals[2])

LogicalNotFn ==
    \/ ReadArgs({"!"})
    \/ GivesUp({"!"})
    \/ In({"!"}) /\ Got = 1 /\ Bool(~BooleanString(A(1)))

IsSubstring(needle, haystack) ==
    \E i \in 0..(Len(haystack) - Len(needle)) :
        SubSeq(haystack, i + 1, i + Len(needle)) = needle

SubstringFn ==
    \/ ReadArgs({"is_substring"})
    \/ GivesUp({"is_substring"})
    \/ In({"is_substring"}) /\ Got = 2 /\ Bool(IsSubstring(A(1), A(2)))

EqualityFn ==
    \/ ReadArgs({"=="})
    \/ GivesUp({"=="})
    \/ In({"=="}) /\ Got = 2 /\ Bool(A(1) = A(2))

InequalityFn ==
    \/ ReadArgs({"!="})
    \/ GivesUp({"!="})
    \/ In({"!="}) /\ Got = 2 /\ Bool(A(1) # A(2))

\* The result of the left side is discarded, but its NULL is not.
SequenceFn ==
    \/ ReadArgs({";"})
    \/ GivesUp({";"})
    \/ In({";"}) /\ Got = 2 /\ Value(Top.vals[2])

-----------------------------------------------------------------------------
(* Numbers: strtol(), which skips blanks, takes a sign and as many digits  *)
(* as there are and stops at a limit, here the same for both signs.        *)

LONG_MAX == 2147483647

Blanks == {" ", "\t", "\n", "\\v", "\f", "\r"}
Digits == <<{"0"}, {"1"}, {"2"}, {"3"}, {"4"}, {"5"}, {"6"}, {"7"}, {"8"}, {"9"},
            {"a", "A"}, {"b", "B"}, {"c", "C"}, {"d", "D"}, {"e", "E"}, {"f", "F"}>>
InBase(base) == UNION {Digits[n] : n \in 1..base}
DigitOf(c) == CHOOSE n \in 0..15 : c \in Digits[n + 1]

\* How many characters at the beginning of s are in C, and what follows.
Span(s, C) == Cardinality({i \in DOMAIN s : \A j \in 1..i : s[j] \in C})
From(s, i) == SubSeq(s, i, Len(s))

Numeral(s) == From(s, Span(s, Blanks) + 1)
Negative(s) == Numeral(s) # <<>> /\ Numeral(s)[1] = "-"
Unsigned(s) ==
    LET t == Numeral(s) IN IF t # <<>> /\ t[1] \in {"+", "-"} THEN Tail(t) ELSE t
Whole(u, base) == u # <<>> /\ Span(u, InBase(base)) = Len(u)
ValueOf(u, base) ==
    LET v[i \in 0..Len(u)] ==
            IF i = 0 THEN 0
            ELSE LET d == DigitOf(u[i])
                 IN  IF v[i - 1] > (LONG_MAX - d) \div base THEN LONG_MAX
                     ELSE base * v[i - 1] + d
    IN  v[Span(u, InBase(base))]
WithSign(s, n) == IF Negative(s) THEN -n ELSE n

\* The whole string is a number, or at least its beginning.
IsInt(s) == Whole(Unsigned(s), 10)
StartsInt(s) == Span(Unsigned(s), InBase(10)) > 0
IntOf(s) == WithSign(s, ValueOf(Unsigned(s), 10))
LessThan(l, r) == IsInt(l) /\ IsInt(r) /\ IntOf(l) < IntOf(r)

\* strtoul() with base 0, of the whole string.
Hex(u) == Len(u) > 2 /\ u[1] = "0" /\ u[2] \in {"x", "X"}
Radix(u) == IF Hex(u) THEN 16 ELSE IF u # <<>> /\ u[1] = "0" THEN 8 ELSE 10
AfterPrefix(u) == IF Hex(u) THEN From(u, 3) ELSE u
IsNumber(s) == Whole(AfterPrefix(Unsigned(s)), Radix(Unsigned(s)))
NumberOf(s) == WithSign(s, ValueOf(AfterPrefix(Unsigned(s)), Radix(Unsigned(s))))

LessThanIntFn ==
    \/ In({"less_than_int"}) /\ Argc # 2 /\ ErrorAbort(<<"less_than_int expects 2 arguments">>)
    \/ In({"less_than_int"}) /\ Argc = 2 /\ ReadArgs({"less_than_int"})
    \/ GivesUp({"less_than_int"})
    \/ In({"less_than_int"}) /\ Argc = 2 /\ Got = 2 /\ Bool(LessThan(A(1), A(2)))

\* Mutant: the arguments are evaluated in order.
GreaterThanIntInOrder ==
    \/ GivesUp({"greater_than_int"})
    \/ /\ In({"greater_than_int"})
       /\ \/ Argc # 2 /\ ErrorAbort(<<"greater_than_int expects 2 arguments">>)
          \/ Argc = 2 /\ Got < 2 /\ Arg(Got + 1)
          \/ Argc = 2 /\ Got = 2 /\ Bool(LessThan(A(2), A(1)))

\* The second argument is evaluated first.
GreaterThanIntFn ==
    \/ GivesUp({"greater_than_int"})
    \/ /\ In({"greater_than_int"})
       /\ \/ Argc # 2 /\ ErrorAbort(<<"greater_than_int expects 2 arguments">>)
          \/ Argc = 2 /\ Got < 2 /\ Arg(2 - Got)
          \/ Argc = 2 /\ Got = 2 /\ Bool(LessThan(A(1), A(2)))

Builtin ==
    \/ Deliver \/ Literal \/ ConcatFn \/ IfElseFn \/ AbortFn \/ AssertFn
    \/ SleepFn \/ StdoutFn \/ LogicalAndFn \/ LogicalOrFn \/ LogicalNotFn
    \/ SubstringFn \/ EqualityFn \/ InequalityFn \/ SequenceFn
    \/ LessThanIntFn \/ GreaterThanIntFn
=============================================================================
