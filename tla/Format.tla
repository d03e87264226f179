------------------------------- MODULE Format -------------------------------
(***************************************************************************)
(* vsnprintf, as printk uses it, with lltoa, ulltoa, abs and strlen.       *)
(*                                                                         *)
(* A character is a string of length one, NUL and TAB are named.  A format *)
(* is put together from Items: literal characters, tabs and conversions    *)
(* %[.precision][length]type with their argument; the text an item stands  *)
(* for is stated by Meaning, without looking at the characters.  int has   *)
(* IntBits bits, long and long long have LongBits.                         *)
(***************************************************************************)
EXTENDS Integers, Sequences, SequencesExt, FiniteSetsExt

CONSTANTS
  Items,        \* bound: the items formats are made of
  MaxItems,     \* bound: items of a format
  BufSize,      \* buf_size
  TmpSize,      \* size of tmp_buf in process_format
  Space,        \* bound: bytes that are looked at, from buf on
  IntBits, LongBits

VARIABLES
  items,        \* the format, as the caller means it
  fmt,          \* and its characters
  i,            \* vsnprintf: characters of the format consumed
  args,         \* the arguments left
  buf,          \* the bytes from buf on
  read_chars,
  done

vars == <<items, fmt, i, args, buf, read_chars, done>>

NUL == "NUL"
TAB == "TAB"
Digits == <<"0", "1", "2", "3", "4", "5", "6", "7", "8", "9", "a", "b", "c", "d", "e", "f">>
Digit == {Digits[k] : k \in 1..10}
Value(c) == (CHOOSE k \in 1..10 : Digits[k] = c) - 1
DecodeError == <<"<", "D", "E", "C", ">">>     \* PRINTK_DECD_ERROR_MSG, shortened

(* the characters of an item, as a programmer writes them *)
Chars(it) ==
  CASE it.kind = "char" -> <<it.chr>>
    [] it.kind = "spec" -> <<"%">> \o it.prec \o [k \in 1..it.length |-> "l"] \o <<it.chr>>
    [] it.kind = "bad" -> <<"%", it.chr>>

At(k) == IF k < Len(fmt) THEN fmt[k + 1] ELSE NUL
-----------------------------------------------------------------------------
(* Numbers to text *)

Text(digits) == [k \in DOMAIN digits |-> Digits[digits[k] + 1]]

Signed(n, bits) == LET u == n % (2^bits) IN IF u >= 2^(bits - 1) THEN u - 2^bits ELSE u

ulltoa(value, radix) ==
  LET digit[n \in Nat] == IF n = 0 THEN <<>> ELSE digit[n \div radix] \o <<n % radix>>
  IN  IF value = 0 THEN <<"0">> ELSE Text(digit[value])

(* abs takes and returns an int, and leaves the least int as it is *)
abs(value) == LET int == Signed(value, IntBits) IN IF int < 0 THEN Signed(-int, IntBits) ELSE int

(* digits of a number that is negative still are characters below '0' *)
lltoa(value, radix) ==
  IF value >= 0 THEN ulltoa(value, radix)
  ELSE <<"-">> \o (CASE abs(value) = 0 -> <<>>
                     [] abs(value) > 0 -> ulltoa(abs(value), radix)
                     [] abs(value) < 0 -> [k \in DOMAIN ulltoa(-abs(value), radix) |-> "/"])
-----------------------------------------------------------------------------
(* format_decode *)

(* how many characters from k on are of S *)
Run(k, S) == Min({n \in 0..Len(fmt) : At(k + n) \notin S})

(* the characters of is_type *)
Types == {"d", "i", "u", "x", "o", "c", "s", "p"}
base(type) == CASE type \in {"d", "i", "u"} -> 10 [] type = "o" -> 8
                [] type \in {"x", "p"} -> 16 [] OTHER -> 0

(* a plausible bug: only the last digit counts *)
read_precision_digit(spec, k) == Value(At(k + Run(k, Digit) - 1))

read_precision(spec, k) ==
  FoldLeft(LAMBDA p, c : (p * 10 + Value(c)) % 256, spec.precision, SubSeq(fmt, k + 1, k + Run(k, Digit)))

(* 3 is ERROR_LENGTH *)
read_length(spec, k) == Min({spec.length + Run(k, {"l"}), 3})

(* every further type character makes it ERROR_TYPE *)
read_type(k) == IF Run(k, Types) = 1 THEN At(k) ELSE "ERROR"

(* from a % on: the specification, and how many characters it has *)
RECURSIVE decode(_, _, _)
decode(k, dot, spec) ==
  LET c == At(k)
      next(n, d, s) == decode(k + n, d, s)
  IN  CASE c = "%" -> [spec EXCEPT !.type = "%", !.end = k + 1]
        [] c = "." /\ ~dot -> next(1, TRUE, spec)
        [] c \in Digit /\ dot ->
             next(Run(k, Digit), FALSE, [spec EXCEPT !.precision = read_precision(spec, k)])
        [] c = "l" /\ ~dot ->
             next(Run(k, {"l"}), FALSE, [spec EXCEPT !.length = read_length(spec, k)])
        [] c \in Types /\ ~dot -> [spec EXCEPT !.type = read_type(k), !.base = base(c),
                                              !.end = k + Run(k, Types)]
        [] OTHER -> [spec EXCEPT !.type = "ERROR", !.length = 3]

format_decode(k) ==
  decode(k + 1, FALSE, [type |-> "", length |-> 0, base |-> 0, precision |-> 0, end |-> k])
-----------------------------------------------------------------------------
(* process_format and vsnprintf *)

Width(length) == IF length = 0 THEN IntBits ELSE LongBits

(* tmp_buf up to tmp_buf_idx, before the precision is looked at *)
tmp_buf(spec, arg) ==
  CASE spec.type = "c" -> <<arg.str[1]>>
    [] spec.type = "s" -> SubSeq(arg.str, 1, Min({TmpSize, Len(arg.str)}))
    [] spec.type = "%" -> <<"%">>
    [] spec.type \in {"u", "o", "x"} -> ulltoa(arg.num % (2^Width(spec.length)), spec.base)
    [] spec.type \in {"d", "i"} -> lltoa(Signed(arg.num, Width(spec.length)), spec.base)
    [] spec.type = "p" -> <<"0", "x">> \o ulltoa(arg.num % (2^LongBits), spec.base)

(* "case A || B || C || D" is case 1, LITERAL_TYPE; only strings are cut *)
process_format(spec, arg) ==
  LET tmp == tmp_buf(spec, arg)
  IN  IF spec.type = "%" /\ spec.precision > 1
      THEN [k \in 1..(spec.precision - 1) |-> "0"] \o tmp
      ELSE IF spec.type = "s" /\ spec.precision \in 1..(Len(tmp) - 1)
      THEN SubSeq(tmp, 1, spec.precision)
      ELSE tmp

(* memcpy of n characters to buf + at; what lies past Space is not looked at *)
memcpy(at, text, n) ==
  [k \in DOMAIN buf |-> IF k >= at /\ k < at + n /\ k - at < Len(text) THEN text[k - at + 1] ELSE buf[k]]

(* buf_size - read_chars, unsigned: without end if it is negative *)
room == IF read_chars <= BufSize THEN BufSize - read_chars ELSE Space

conversion ==
  LET spec == format_decode(i)
      text == process_format(spec, Head(args))
  IN  /\ ~done /\ At(i) = "%"
      /\ IF spec.type # "ERROR" /\ spec.length # 3
         THEN /\ buf' = memcpy(read_chars, text, Min({room, Len(text)}))
              /\ read_chars' = read_chars + Len(text)
              /\ i' = spec.end /\ args' = IF spec.type = "%" THEN args ELSE Tail(args)
              /\ done' = (read_chars' = BufSize)
         ELSE /\ buf' = memcpy(read_chars, DecodeError \o <<NUL>>, Min({room, Len(DecodeError) + 1}))
              /\ read_chars' = read_chars + Len(DecodeError)
              /\ done' = TRUE /\ UNCHANGED <<i, args>>
      /\ UNCHANGED <<items, fmt>>

tab ==
  /\ ~done /\ At(i) = TAB
  /\ buf' = memcpy(read_chars, <<" ", " ", " ", " ">>, 4) /\ read_chars' = read_chars + 4
  /\ i' = i + 1
  /\ UNCHANGED <<items, fmt, args, done>>

literal ==
  /\ ~done /\ At(i) \notin {"%", TAB, NUL}
  /\ buf' = memcpy(read_chars, <<At(i)>>, 1) /\ read_chars' = read_chars + 1
  /\ i' = i + 1
  /\ UNCHANGED <<items, fmt, args, done>>

end ==
  /\ ~done /\ At(i) = NUL
  /\ done' = TRUE
  /\ UNCHANGED <<items, fmt, i, args, buf, read_chars>>

(* printk clears the buffer first *)
Init ==
  /\ items \in UNION {[1..n -> Items] : n \in 0..MaxItems}
  /\ fmt = FlattenSeq([k \in DOMAIN items |-> Chars(items[k])])
  /\ i = 0 /\ read_chars = 0 /\ done = FALSE
  /\ args = LET specs == SelectSeq(items, LAMBDA it : it.kind = "spec" /\ it.chr # "%")
            IN  [k \in DOMAIN specs |-> specs[k].arg] \o <<[num |-> 0, str |-> <<>>]>>
  /\ buf = [k \in 0..(Space - 1) |-> NUL]

Next == conversion \/ tab \/ literal \/ end
-----------------------------------------------------------------------------
(* Properties *)

(* n in a base, digit by digit from the most significant one *)
InBase(n, b) ==
  LET k == CHOOSE m \in 1..LongBits : n < b^m /\ (m > 1 => n >= b^(m - 1))
  IN  [j \in 1..k |-> Digits[((n \div b^(k - j)) % b) + 1]]

Precision(it) == FoldLeft(LAMBDA p, c : IF c = "." THEN p ELSE 10 * p + Value(c), 0, it.prec)

(* a number: the sign, zeros up to the precision, which counts the sign as   *)
(* the padding code does, and the digits                                     *)
Padded(sign, digits, precision) ==
  sign \o [k \in 1..(precision - Len(sign) - Len(digits)) |-> "0"] \o digits

(* the text an item stands for *)
Meaning(it) ==
  LET u == it.arg.num % (2^Width(it.length))
      s == Signed(it.arg.num, Width(it.length))
      digits == CASE it.chr = "x" -> InBase(u, 16) [] it.chr = "o" -> InBase(u, 8)
                  [] it.chr = "u" -> InBase(u, 10)
                  [] OTHER -> InBase(IF s < 0 THEN -s ELSE s, 10)
      sign == IF it.chr \in {"d", "i"} /\ s < 0 THEN <<"-">> ELSE <<>>
  IN  CASE it.kind = "char" -> IF it.chr = TAB THEN <<" ", " ", " ", " ">> ELSE <<it.chr>>
        [] it.kind = "bad" -> DecodeError
        [] it.kind = "spec" /\ it.chr = "%" -> <<"%">>
        [] it.kind = "spec" /\ it.chr = "c" -> <<it.arg.str[1]>>
        [] it.kind = "spec" /\ it.chr = "s" ->
             IF Precision(it) = 0 THEN it.arg.str
             ELSE SubSeq(it.arg.str, 1, Min({Precision(it), Len(it.arg.str)}))
        [] it.kind = "spec" /\ it.chr = "p" -> <<"0", "x">> \o InBase(it.arg.num % (2^LongBits), 16)
        [] OTHER -> Padded(sign, digits, Precision(it))

(* the items up to the first bad one *)
Printed ==
  LET bad == {k \in DOMAIN items : items[k].kind = "bad"}
  IN  IF bad = {} THEN items ELSE SubSeq(items, 1, Min(bad))

Whole == FlattenSeq([k \in DOMAIN Printed |-> Meaning(Printed[k])])

(* Excepted is what the code does not do: the absolute value of a number     *)
(* that is no int or the least one; a letter of the text behind a conversion *)
(* that is a type letter; and the zeros in front of a number, because "case  *)
(* UNSIGNED_INT_DEC_TYPE || ..." (vsnprintf.c:248) is the case of "%%".      *)
Number == {"d", "i", "u", "x", "o"}
Supported ==
  \A k \in DOMAIN items :
    /\ items[k].chr \in {"d", "i"} => Signed(items[k].arg.num, Width(items[k].length)) > -(2^(IntBits - 1))
    /\ (items[k].kind = "char" /\ items[k].chr \in Types /\ k > 1) =>
         (items[k - 1].kind # "spec" \/ items[k - 1].chr = "%")
    /\ (items[k].kind = "spec" /\ items[k].chr \in Number) =>
         Meaning(items[k]) = Meaning([items[k] EXCEPT !.prec = <<>>])

Holds(text) ==
  /\ read_chars = Len(text)
  /\ \A k \in DOMAIN buf : buf[k] = IF k < Len(text) THEN text[k + 1] ELSE NUL

(* A text that fits is in the buffer, whole and followed by NUL bytes, and   *)
(* its length is returned: every conversion takes its own argument, with the *)
(* width and the sign its length and type say, tabs are four blanks, strings *)
(* are cut to their precision, a precision that needs no zeros changes no    *)
(* number, and a conversion that cannot be decoded ends the text with the    *)
(* error message.                                                            *)
Rendered == done /\ Supported /\ Len(Whole) <= BufSize => Holds(Whole)
=============================================================================
