-------------------------------- MODULE Json --------------------------------
(***************************************************************************)
(* The JSON reader and writer (c/json.h), over symbols instead of bytes.   *)
(* A text is a sequence of symbols: the brackets, "," and ":", a whole     *)
(* string ("a", "b", and "a0" with a NUL behind its "a"), a whole number   *)
(* ("1.0", and "1." that JSON has not but the code takes for the same), a  *)
(* literal "T" (true, false, null), a blank " " and "x" for any other      *)
(* byte.  Strings and numbers are read in layers of their own, over the    *)
(* symbols their code tells apart.  Every reader returns where it stopped; *)
(* Bad is the NULL of the code.  The definitions named Grammar, Spell,     *)
(* JsonNumber, Repr and Dict are what the readers and writers are compared *)
(* with: JSON's grammar, and Python's dict and repr.                       *)
(***************************************************************************)
EXTENDS Integers, Sequences, SequencesExt, FiniteSetsExt

CONSTANTS
    MaxDepth,   \* JSON_MAX_DEPTH
    MaxText     \* bound: the symbols of one text

Bad == [ok |-> FALSE]
Read(val, at) == [ok |-> TRUE, val |-> val, at |-> at]

Strings == {"a", "b", "a0"}
Scalars == Strings \cup {"1.0", "1.", "T"}
Symbols == Scalars \cup {"{", "}", "[", "]", ",", ":", " ", "x"}

Scalar(s)      == [t |-> "scalar", s |-> IF s = "1." THEN "1.0" ELSE s]
Array(items)   == [t |-> "arr", items |-> items]
Object(pairs)  == [t |-> "obj", pairs |-> pairs]

At(text, i) == IF i <= Len(text) THEN text[i] ELSE "end"

-----------------------------------------------------------------------------
(* The parser: depth is the number of containers open around i             *)

RECURSIVE SkipWs(_, _), Value(_, _, _), Items(_, _, _, _), Pairs(_, _, _, _)

SkipWs(text, i) == IF At(text, i) = " " THEN SkipWs(text, i + 1) ELSE i

\* p_array after its first value position: a value, then "," or "]".
Items(text, at, depth, got) ==
    LET v == Value(text, SkipWs(text, at), depth) IN
    IF ~v.ok THEN Bad
    ELSE LET i == SkipWs(text, v.at) IN
         CASE At(text, i) = "," -> Items(text, i + 1, depth, Append(got, v.val))
           [] At(text, i) = "]" -> Read(Array(Append(got, v.val)), i + 1)
           [] OTHER             -> Bad

\* A key is kept as a C string.
KeyOf(s) == IF s = "a0" THEN "a" ELSE s

\* p_object after "{" or ",": a key, ":", a value; duplicates are kept.
Pairs(text, at, depth, got) ==
    LET i == SkipWs(text, at)
        j == SkipWs(text, i + 1)
    IN  IF At(text, i) \notin Strings \/ At(text, j) # ":" THEN Bad
        ELSE LET v == Value(text, SkipWs(text, j + 1), depth) IN
             IF ~v.ok THEN Bad
             ELSE LET e   == SkipWs(text, v.at)
                      now == Append(got, <<KeyOf(text[i]), v.val>>)
                  IN  CASE At(text, e) = "," -> Pairs(text, e + 1, depth, now)
                        [] At(text, e) = "}" -> Read(Object(now), e + 1)
                        [] OTHER             -> Bad

TooDeep(depth) == depth + 1 > MaxDepth

Value(text, at, depth) ==
    LET i == SkipWs(text, at)
        c == At(text, i)
        j == SkipWs(text, i + 1)
    IN  CASE c \in Scalars -> Read(Scalar(c), i + 1)
          [] c = "[" -> IF TooDeep(depth) THEN Bad
                        ELSE IF At(text, j) = "]" THEN Read(Array(<<>>), j + 1)
                        ELSE Items(text, j, depth + 1, <<>>)
          [] c = "{" -> IF TooDeep(depth) THEN Bad
                        ELSE IF At(text, j) = "}" THEN Read(Object(<<>>), j + 1)
                        ELSE Pairs(text, j, depth + 1, <<>>)
          [] OTHER   -> Bad

\* Regression: what follows the value is not looked at.
ParseLoose(text) == Value(text, 1, 0)

\* json_parse: nothing but blanks may follow the value.
Parse(text) ==
    LET v == Value(text, 1, 0) IN
    IF v.ok /\ SkipWs(text, v.at) = Len(text) + 1 THEN v ELSE Bad

-----------------------------------------------------------------------------
(* Objects: the last of several pairs with one key is the one that counts  *)

\* obj_find; 0 is the code's (size_t)-1.
ObjFind(pairs, key) ==
    Max({0} \cup {i \in DOMAIN pairs : pairs[i][1] = key})

ObjSet(pairs, key, v) ==
    LET i == ObjFind(pairs, key) IN
    IF i = 0 THEN Append(pairs, <<key, v>>) ELSE [pairs EXCEPT ![i] = <<key, v>>]

RECURSIVE Clone(_), Dumps(_)

\* json_clone sets key by key: one pair per key stays.
Clone(v) ==
    CASE v.t = "scalar" -> v
      [] v.t = "arr"    -> Array([i \in DOMAIN v.items |-> Clone(v.items[i])])
      [] v.t = "obj"    -> Object(FoldLeft(LAMBDA ps, p : ObjSet(ps, p[1], Clone(p[2])),
                                           <<>>, v.pairs))

\* json_dumps_sb: ", " between the entries and ": " after a key.
Dumps(v) ==
    LET Join(parts) ==
          FoldLeftDomain(LAMBDA acc, i :
              acc \o (IF i = 1 THEN <<>> ELSE <<",", " ">>) \o parts[i], <<>>, parts)
    IN  CASE v.t = "scalar" -> <<v.s>>
          [] v.t = "arr"    -> <<"[">> \o Join([i \in DOMAIN v.items |-> Dumps(v.items[i])])
                                       \o <<"]">>
          [] v.t = "obj"    -> <<"{">>
                \o Join([i \in DOMAIN v.pairs |-> <<v.pairs[i][1], ":", " ">>
                                                    \o Dumps(v.pairs[i][2])])
                \o <<"}">>

-----------------------------------------------------------------------------
(* Inside a string: p_string and dumps_str.  Units of a value: "c" a plain *)
(* character, "n" a plain letter that also names an escape, "quote" and    *)
(* "bslash", "nl" a control character with a name, "ctl" one without,      *)
(* "nul" among them, "hi" and "lo" the halves of a surrogate pair,         *)
(* "astral" the whole.  Symbols of a source: the units, "u" and the hex    *)
(* codes "xhi" "xlo" "xctl" "xnul" "xbad" that follow it.                  *)

CodeOf(hex) == CASE hex = "xhi" -> "hi" [] hex = "xlo" -> "lo"
                 [] hex = "xctl" -> "ctl" [] hex = "xnul" -> "nul"
IsHex(s) == s \in {"xhi", "xlo", "xctl", "xnul"}

RECURSIVE StringFrom(_, _, _)

\* From position i behind the opening quote, with the units got so far.
StringFrom(src, i, got) ==
    LET c == At(src, i)
        e == At(src, i + 1)
        h == At(src, i + 2)
        pair == h = "xhi" /\ At(src, i + 3) = "bslash" /\ At(src, i + 4) = "u"
                          /\ At(src, i + 5) = "xlo"
    IN  CASE c = "quote" -> Read(got, i + 1)
          [] c \in {"end", "nl", "ctl", "nul"} -> Bad
          [] c = "bslash" /\ e \in {"quote", "bslash"} -> StringFrom(src, i + 2, Append(got, e))
          [] c = "bslash" /\ e = "n" -> StringFrom(src, i + 2, Append(got, "nl"))
          [] c = "bslash" /\ e = "u" /\ pair -> StringFrom(src, i + 6, Append(got, "astral"))
          [] c = "bslash" /\ e = "u" /\ IsHex(h) /\ ~pair
                -> StringFrom(src, i + 3, Append(got, CodeOf(h)))
          [] c = "bslash" /\ (e = "u" => ~IsHex(h)) /\ e \notin {"quote", "bslash", "n"} -> Bad
          [] OTHER -> StringFrom(src, i + 1, Append(got, c))

\* The reader of a string's body and its closing quote.
PString(src) == StringFrom(src, 1, <<>>)

\* dumps_str: one unit's escape; bytes of halves and pairs go out raw.
Escaped(u) == CASE u \in {"quote", "bslash"} -> <<"bslash", u>>
                [] u = "nl"  -> <<"bslash", "n">>
                [] u = "ctl" -> <<"bslash", "u", "xctl">>
                [] u = "nul" -> <<"bslash", "u", "xnul">>
                [] OTHER     -> <<u>>

DumpsStr(units) == FlattenSeq([i \in DOMAIN units |-> Escaped(units[i])]) \o <<"quote">>

-----------------------------------------------------------------------------
(* Numbers, a symbol for each byte.  A double is its kind ("zero", "fin",  *)
(* "inf", "nan"), its sign, and of a finite one the digits d1 .. dn, d1    *)
(* and dn not 0, with the point behind digit decpt (which may lie outside  *)
(* them): as many digits as a double carries are not told apart from more. *)

DigitSyms == <<"0", "1", "2", "3", "4", "5", "6", "7", "8", "9">>
Sym(d)    == DigitSyms[d + 1]
Val(s)    == (CHOOSE i \in DOMAIN DigitSyms : DigitSyms[i] = s) - 1
IsDigit(s) == s \in Range(DigitSyms)

Count(syms) == FoldLeft(LAMBDA n, s : 10 * n + Val(s), 0, syms)

\* Past the digits from i.
DigitsEnd(text, i) == Min({j \in i .. Len(text) + 1 : ~IsDigit(At(text, j))})

\* What p_number scans: "-", digits, "." and digits, "e", a sign and digits,
\* any of them or none.
Scan(text, i) ==
    LET a == IF At(text, i) = "-" THEN i + 1 ELSE i
        b == DigitsEnd(text, a)
        c == IF At(text, b) = "." THEN DigitsEnd(text, b + 1) ELSE b
        s == IF At(text, c + 1) \in {"+", "-"} THEN c + 2 ELSE c + 1
        e == IF At(text, c) = "e" THEN DigitsEnd(text, s) ELSE c
    IN  [neg |-> a > i, int |-> SubSeq(text, a, b - 1), frac |-> SubSeq(text, b + 1, c - 1),
         pow |-> IF e = c THEN 0
                 ELSE Count(SubSeq(text, s, e - 1)) * (IF At(text, c + 1) = "-" THEN -1 ELSE 1),
         at  |-> e]

MaxPoint == 309     \* bounds: the decpt of the largest
MinPoint == -323    \* and of the smallest double

\* The double of a row of digits and where its point stands.
Double(neg, row, point) ==
    LET set == {i \in DOMAIN row : row[i] # "0"}
        dec == point - (Min(set) - 1)
    IN  IF set = {} \/ dec < MinPoint THEN [kind |-> "zero", neg |-> neg]
        ELSE IF dec > MaxPoint THEN [kind |-> "inf", neg |-> neg]
        ELSE [kind |-> "fin", neg |-> neg, decpt |-> dec,
              digits |-> SubSeq(row, Min(set), Max(set))]

\* strtod of what was scanned: nothing to convert without a digit before the
\* exponent.
Strtod(p) == IF p.int \o p.frac = <<>> THEN [kind |-> "zero", neg |-> FALSE]
             ELSE Double(p.neg, p.int \o p.frac, Len(p.int) + p.pow)

\* p_value calls p_number for "-" and digits only.
PNumber(text, i) ==
    IF At(text, i) # "-" /\ ~IsDigit(At(text, i)) THEN Bad
    ELSE LET p == Scan(text, i)
         IN  Read([raw |-> SubSeq(text, i, p.at - 1), d |-> Strtod(p)], p.at)

RECURSIVE Decimal(_)
Decimal(n) == (IF n < 10 THEN <<>> ELSE Decimal(n \div 10)) \o <<Sym(n % 10)>>

Zeros(n) == [i \in 1..n |-> "0"]
Minus(neg) == IF neg THEN <<"-">> ELSE <<>>

\* json_py_float_repr from where the exponent is: the exponential form.
Exponential(digits, pow) ==
    <<digits[1]>> \o (IF Len(digits) > 1 THEN <<".">> \o Tail(digits) ELSE <<>>)
        \o <<"e", IF pow < 0 THEN "-" ELSE "+">>
        \o (LET n == IF pow < 0 THEN -pow ELSE pow
            IN  (IF n < 10 THEN <<"0">> ELSE <<>>) \o Decimal(n))

FloatRepr(d) ==
    Minus(d.neg) \o
    CASE d.kind = "nan"  -> <<"NaN">>
      [] d.kind = "inf"  -> <<"Infinity">>
      [] d.kind = "zero" -> <<"0", ".", "0">>
      [] d.kind = "fin"  ->
           LET n == Len(d.digits) IN
           CASE d.decpt <= -4 \/ d.decpt > 16 -> Exponential(d.digits, d.decpt - 1)
             [] d.decpt \in -3..0 -> <<"0", ".">> \o Zeros(0 - d.decpt) \o d.digits
             [] d.decpt \in n..16 -> d.digits \o Zeros(d.decpt - n) \o <<".", "0">>
             [] d.decpt \in 1..(n-1) -> SubSeq(d.digits, 1, d.decpt) \o <<".">>
                                          \o SubSeq(d.digits, d.decpt + 1, n)

\* raw_is_int: a sign and digits, and nothing else.
RawIsInt(raw) ==
    LET body == IF raw # <<>> /\ raw[1] = "-" THEN Tail(raw) ELSE raw
    IN  body # <<>> /\ \A i \in DOMAIN body : IsDigit(body[i])

\* json_dumps_sb of a number.
DumpsNumber(v) ==
    IF ~RawIsInt(v.raw) THEN FloatRepr(v.d)
    ELSE IF v.raw = <<"-", "0">> THEN <<"0">> ELSE v.raw

-----------------------------------------------------------------------------
(* JSON's grammar: the texts of n symbols, each with what it denotes        *)

RECURSIVE Depth(_), Cut(_), Dict(_)

Depth(v) == CASE v.t = "scalar" -> 0
              [] v.t = "arr" -> 1 + Max({0} \cup {Depth(v.items[i]) : i \in DOMAIN v.items})
              [] v.t = "obj" -> 1 + Max({0} \cup {Depth(v.pairs[i][2]) : i \in DOMAIN v.pairs})

\* Blanks stand anywhere between the tokens, so the grammar leaves them out.
Tokens(text) == SelectSeq(text, LAMBDA s : s # " ")

\* Lists of n symbols: entries of the table below with "," between them.
Lists(n, of) ==
    LET ls[m \in 0..n] ==
          of[m] \cup UNION {{[text |-> x.text \o <<",">> \o y.text, val |-> x.val \o y.val] :
                               x \in of[k], y \in ls[m - k - 1]} : k \in 1..(m - 2)}
    IN  ls[n]

\* Values of exactly n symbols.
Grammar ==
    LET vs[n \in 0..MaxText] ==
          IF n = 0 THEN {}
          ELSE IF n = 1 THEN {[text |-> <<s>>, val |-> Scalar(s)] : s \in Scalars}
          ELSE LET one == [m \in 0..n-2 |-> {[text |-> x.text, val |-> <<x.val>>] : x \in vs[m]}]
                   two == [m \in 0..n-2 |-> IF m < 3 THEN {} ELSE
                             {[text |-> <<k, ":">> \o x.text, val |-> <<(<<k, x.val>>)>>] :
                                k \in Strings, x \in vs[m - 2]}]
                   none == IF n = 2 THEN {[text |-> <<>>, val |-> <<>>]} ELSE {}
               IN  {[text |-> <<"[">> \o l.text \o <<"]">>, val |-> Array(l.val)] :
                      l \in none \cup Lists(n - 2, one)}
                   \cup {[text |-> <<"{">> \o l.text \o <<"}">>, val |-> Object(l.val)] :
                      l \in none \cup Lists(n - 2, two)}
    IN  UNION {vs[n] : n \in 1..MaxText}

\* A text that can still become one of the grammar's.
Begun == UNION {Prefixes(g.text) : g \in Grammar}
Viable(text) == Tokens(text) \in Begun

\* What the reader keeps of a value: a key up to its first NUL.
Cut(v) ==
    CASE v.t = "scalar" -> v
      [] v.t = "arr" -> Array([i \in DOMAIN v.items |-> Cut(v.items[i])])
      [] v.t = "obj" -> Object([i \in DOMAIN v.pairs |->
                                 <<KeyOf(v.pairs[i][1]), Cut(v.pairs[i][2])>>])

\* What Python makes of a value: a dict keeps the last value of a key.
Dict(v) ==
    CASE v.t = "scalar" -> v
      [] v.t = "arr" -> Array([i \in DOMAIN v.items |-> Dict(v.items[i])])
      [] v.t = "obj" ->
           [t |-> "dict", of |-> [k \in {v.pairs[i][1] : i \in DOMAIN v.pairs} |->
              Dict(v.pairs[Max({i \in DOMAIN v.pairs : v.pairs[i][1] = k})][2])]]

\* The parser takes the grammar's texts of at most MaxDepth nested containers
\* and no others, whatever it takes for a number in them, and reads what each
\* denotes, but that a key ends at its first NUL; the lookup finds Python's value
\* of a key, and neither a copy nor writing and reading again changes any of it
\* (json_parse, obj_find, json_clone, json_dumps).
DocumentRead(text) ==
    LET p    == Parse(text)
        refs == {g \in Grammar : g.text = Tokens(text) /\ Depth(g.val) <= MaxDepth}
    IN  IF refs = {} THEN p = Bad
        ELSE \A g \in refs :
               /\ p = Read(Cut(g.val), p.at)
               /\ Parse(Dumps(p.val)).val = p.val
               /\ Dict(Clone(p.val)) = Dict(p.val)
               /\ p.val.t = "obj" => \A k \in Strings :
                    LET i == ObjFind(p.val.pairs, k) IN
                    IF i = 0 THEN k \notin DOMAIN Dict(p.val).of
                    ELSE Dict(p.val.pairs[i][2]) = Dict(p.val).of[k]

\* The ways a unit can be spelled in a source.
Spell(u) == CASE u \in {"c", "n"}          -> {<<u>>}
              [] u \in {"quote", "bslash"} -> {<<"bslash", u>>}
              [] u = "nl"     -> {<<"bslash", "n">>}
              [] u = "ctl"    -> {<<"bslash", "u", "xctl">>}
              [] u = "nul"    -> {<<"bslash", "u", "xnul">>}
              [] u = "hi"     -> {<<u>>, <<"bslash", "u", "xhi">>}
              [] u = "lo"     -> {<<u>>, <<"bslash", "u", "xlo">>}
              [] u = "astral" -> {<<u>>, <<"bslash", "u", "xhi", "bslash", "u", "xlo">>}

Units == {"c", "n", "quote", "bslash", "nl", "ctl", "nul", "hi", "lo", "astral"}

\* Every spelling of a string reads as that string, halves of surrogate pairs
\* that stand alone included, unless two escaped halves meet (they are a pair);
\* and what the writer puts out reads as what went in (p_string, dumps_str).
StringRead(units) ==
    /\ \A sp \in {f \in [DOMAIN units -> UNION {Spell(u) : u \in Units}] :
               \A i \in DOMAIN units : f[i] \in Spell(units[i])} :
         LET src == FlattenSeq([i \in DOMAIN units |-> sp[i]]) \o <<"quote">>
             met == \E i \in DOMAIN units : /\ i < Len(units)
                                            /\ sp[i] = <<"bslash", "u", "xhi">>
                                            /\ sp[i+1] = <<"bslash", "u", "xlo">>
         IN  ~met => PString(src) = Read(units, Len(src) + 1)
    /\ PString(DumpsStr(units)).val = units

\* JSON's grammar of a number: where a text splits into a sign, first digits,
\* ".", digits and "e", sign, digits.  When it is not strict a row of digits
\* may be empty, and the first one begin with any zeros.
Splits(text, strict) ==
    LET Digits(syms) == (strict => syms # <<>>) /\ \A i \in DOMAIN syms : IsDigit(syms[i])
    IN  {f \in [1..3 -> 0..Len(text)] : f[1] <= f[2] /\ f[2] <= f[3] /\
            LET int  == SubSeq(text, f[1] + 1, f[2])
                frac == SubSeq(text, f[2] + 1, f[3])
                exp  == SubSeq(text, f[3] + 1, Len(text))
            IN  /\ SubSeq(text, 1, f[1]) \in {<<>>, <<"-">>}
                /\ Digits(int) /\ (strict /\ int[1] = "0" => Len(int) = 1)
                /\ (frac # <<>> => frac[1] = "." /\ Digits(Tail(frac)))
                /\ exp # <<>> => /\ exp[1] = "e"
                                 /\ \/ Digits(Tail(exp))
                                    \/ At(exp, 2) \in {"+", "-"} /\ Digits(SubSeq(exp, 3, Len(exp)))}
JsonNumber(text) == Splits(text, TRUE) # {}

\* The double that a text denotes; a row of no digits is 0.
Denotes(text) ==
    LET f    == CHOOSE g \in Splits(text, FALSE) : TRUE
        int  == SubSeq(text, f[1] + 1, f[2])
        frac == SubSeq(text, f[2] + 2, f[3])
        sign == At(text, f[3] + 2)
        pow  == IF sign = "-" THEN -Count(SubSeq(text, f[3] + 3, Len(text)))
                ELSE Count(SubSeq(text, f[3] + (IF sign = "+" THEN 3 ELSE 2), Len(text)))
    IN  Double(f[1] = 1, int \o frac, Len(int) + pow)

SameNumber(c, d) == c = d \/ (c.kind = "zero" /\ d.kind = "zero")

\* An integer behind zeros that JSON has not.
ZeroLed(text) == RawIsInt(text) /\ \E i \in 1..2 : At(text, i) = "0" /\ IsDigit(At(text, i + 1))

\* A text of JSON's grammar is taken as the number it denotes.  The code takes
\* more: a row of digits may be missing (then it is 0, and the sign of a zero may
\* be lost) and the first one may begin with zeros; what is neither stays behind.
\* Integers are written as they were read, zeros in front included, "-0" as "0",
\* and other numbers so that they read as the same double again; but one that is
\* too large for a double is written as Infinity, which is no JSON (p_number,
\* json_dumps_sb).
NumberRead(text) ==
    LET p     == PNumber(text, 1)
        whole == p.ok /\ p.at = Len(text) + 1
        w     == DumpsNumber(p.val)
    IN  /\ whole <=> /\ At(text, 1) = "-" \/ IsDigit(At(text, 1))
                     /\ Splits(text, FALSE) # {}
        /\ whole => SameNumber(p.val.d, Denotes(text))
        /\ JsonNumber(text) =>
             /\ whole /\ p.val.d = Denotes(text)
             /\ RawIsInt(text) => w = IF text = <<"-", "0">> THEN <<"0">> ELSE text
             /\ JsonNumber(w) <=> RawIsInt(text) \/ p.val.d.kind # "inf"
        /\ whole /\ p.val.d.kind # "inf" =>
             /\ JsonNumber(w) \/ ZeroLed(text)
             /\ ~RawIsInt(text) => Denotes(w) = p.val.d /\ ~RawIsInt(w)

\* The layout of Python's repr of a float: from 10^16 and below 10^-4 one digit
\* before the point and a signed exponent of two digits or more, else a point
\* with digits on both sides; and no zero that could be left out.
Repr(w, d) ==
    LET f    == CHOOSE g \in Splits(w, TRUE) : TRUE
        frac == SubSeq(w, f[2] + 2, f[3])
        exp  == SubSeq(w, f[3] + 3, Len(w))
        far  == d.kind = "fin" /\ (d.decpt - 1 >= 16 \/ d.decpt - 1 < -4)
    IN  /\ far <=> f[3] < Len(w)
        /\ IF far THEN /\ f[2] - f[1] = 1 /\ (frac # <<>> => Last(frac) # "0")
                       /\ w[f[3] + 2] \in {"+", "-"}
                       /\ Len(exp) >= 2 /\ (Len(exp) > 2 => exp[1] # "0")
           ELSE frac # <<>> /\ (Len(frac) > 1 => Last(frac) # "0")

\* The text of a double is Python's repr of it: that number, and not an integer,
\* when it is read again; the parser does not take an infinity or a NaN
\* (json_py_float_repr, raw_is_int, p_number).
FloatRead(d) ==
    LET w == FloatRepr(d) IN
    IF d.kind \in {"inf", "nan"} THEN ~(PNumber(w, 1).ok /\ PNumber(w, 1).at = Len(w) + 1)
    ELSE /\ PNumber(w, 1) = Read([raw |-> w, d |-> d], Len(w) + 1)
         /\ ~RawIsInt(w) /\ JsonNumber(w) /\ Repr(w, d)
=============================================================================
