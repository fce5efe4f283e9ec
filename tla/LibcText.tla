------------------------------ MODULE LibcText ------------------------------
(***************************************************************************)
(* Functions of libc on text: libc/string on a memory, the numbers of      *)
(* libc/stdlib, the wide characters and UTF-8 of libc/wchar, and the formatted*)
(* output of libc/stdio.  The loops over pointers are recursive operators. *)
(***************************************************************************)
EXTENDS Integers, Sequences, SequencesExt, Bitwise, Once

CONSTANTS
  LONG_MAX,    \* LONG_MIN is -LONG_MAX - 1 and ULONG_MAX is 2 * LONG_MAX + 1
  LLONG_MAX,   \* of long long and intmax_t
  SIZE_MAX,    \* the greatest value of size_t
  DigitOf,     \* character -> its value in base 36, for digits and letters
  MAXPREC,                              \* characters a printed number may have
  CharMod, ShortMod, IntMod, LongMod    \* the integer types count modulo these

-----------------------------------------------------------------------------
(* libc/string on a memory m, a function from addresses to bytes.  A       *)
(* function that writes returns the memory after it; one that returns a    *)
(* pointer returns an address, NULL for none.  char is signed.             *)

NULL == -1
Char(c) == IF c > 127 THEN c - 256 ELSE c
UChar(c) == c % 256
Put(m, i, c) == [m EXCEPT ![i] = c]

RECURSIVE memcpy(_, _, _, _), memset(_, _, _, _), Backwards(_, _, _, _), memchr(_, _, _, _), memcmp(_, _, _, _)
memcpy(m, d, s, n) == IF n = 0 THEN m ELSE memcpy(Put(m, d, m[s]), d + 1, s + 1, n - 1)
Backwards(m, d, s, n) == IF n = 0 THEN m ELSE Backwards(Put(m, d, m[s]), d - 1, s - 1, n - 1)
memmove(m, d, s, n) == IF d < s THEN memcpy(m, d, s, n) ELSE Backwards(m, d + n - 1, s + n - 1, n)
memset(m, s, c, n) == IF n = 0 THEN m ELSE memset(Put(m, s, UChar(c)), s + 1, c, n - 1)

\* c is compared as it comes, not as an unsigned char.
memchr(m, s, c, n) == IF n = 0 THEN NULL ELSE IF m[s] # c THEN memchr(m, s + 1, c, n - 1) ELSE s
memcmp(m, s, t, n) == IF n = 0 THEN 0 ELSE IF m[s] = m[t] THEN memcmp(m, s + 1, t + 1, n - 1) ELSE m[s] - m[t]

RECURSIVE End(_, _), strcpy(_, _, _), strncpy(_, _, _, _), Append1(_, _, _, _), Zeros(_, _, _)
End(m, s) == IF m[s] # 0 THEN End(m, s + 1) ELSE s
strlen(m, s) == End(m, s) - s

strcpy(m, d, s) == IF m[s] = 0 THEN Put(m, d, 0) ELSE strcpy(Put(m, d, m[s]), d + 1, s + 1)
strcat(m, d, s) == strcpy(m, End(m, d), s)
Append1(m, d, s, n) ==
  IF n > 0 /\ m[s] # 0 THEN Append1(Put(m, d, m[s]), d + 1, s + 1, n - 1) ELSE Put(m, d, 0)
strncat(m, d, s, n) == Append1(m, End(m, d), s, n)
Zeros(m, d, n) == IF n > 0 THEN Zeros(Put(m, d, 0), d + 1, n - 1) ELSE m
strncpy(m, d, s, n) ==
  IF n > 0 /\ m[s] # 0 THEN strncpy(Put(m, d, m[s]), d + 1, s + 1, n - 1) ELSE Zeros(m, d, n)
strxfrm(m, d, s, n) == IF strlen(m, s) < n THEN strcpy(m, d, s) ELSE m

RECURSIVE strchr(_, _, _), Backto(_, _, _, _), strcmp(_, _, _), strcoll(_, _, _), strncmp(_, _, _, _)
strchr(m, s, c) ==
  IF m[s] # 0 /\ Char(m[s]) # c THEN strchr(m, s + 1, c) ELSE IF Char(m[s]) = c THEN s ELSE NULL
Backto(m, s, t, c) ==
  IF t > s /\ Char(m[t]) # c THEN Backto(m, s, t - 1, c) ELSE IF Char(m[t]) = c THEN t ELSE NULL
strrchr(m, s, c) == Backto(m, s, End(m, s), c)
strcmp(m, s, t) == IF m[s] # 0 /\ m[s] = m[t] THEN strcmp(m, s + 1, t + 1) ELSE m[s] - m[t]
strcoll(m, s, t) == IF m[s] # 0 /\ m[t] # 0 /\ m[s] = m[t] THEN strcoll(m, s + 1, t + 1) ELSE m[s] - m[t]
\* Equal characters are passed over, the end of both strings too, and what
\* is outside of the memory is anything.
Outside == 256
strncmp(m, s, t, n) ==
  IF n > 0 /\ {s, t} \subseteq DOMAIN m /\ m[s] = m[t] THEN strncmp(m, s + 1, t + 1, n - 1)
  ELSE IF n = 0 THEN 0 ELSE IF {s, t} \subseteq DOMAIN m THEN m[s] - m[t] ELSE Outside

RECURSIVE Map(_, _), Span(_, _, _), Cspan(_, _, _), Find(_, _, _, _)
Map(m, s) == IF m[s] = 0 THEN {} ELSE {m[s]} \cup Map(m, s + 1)
Span(m, s, map) == IF m[s] # 0 /\ m[s] \in map THEN 1 + Span(m, s + 1, map) ELSE 0
Cspan(m, s, map) == IF m[s] # 0 /\ m[s] \notin map THEN 1 + Cspan(m, s + 1, map) ELSE 0
strspn(m, s, t) == Span(m, s, Map(m, t))
strcspn(m, s, t) == Cspan(m, s, Map(m, t))
strpbrk(m, s, t) == LET p == s + strcspn(m, s, t) IN IF m[p] # 0 THEN p ELSE NULL

Find(m, p, t, len) ==
  With(strchr(m, p, Char(m[t])), LAMBDA q :
  IF q = NULL THEN NULL ELSE IF strncmp(m, q, t, len) = 0 THEN q ELSE Find(m, q + 1, t, len))
strstr(m, s, t) == IF strlen(m, t) = 0 THEN s ELSE Find(m, s, t, strlen(m, t))

\* strtok(): line is the static pointer; returns [m, line, ret].
Token(m, line, ret) == [m |-> m, line |-> line, ret |-> ret]
strtok(m, line, s, t) ==
  LET l == IF s # NULL THEN s ELSE line
  IN With(l + strspn(m, l, t), LAMBDA p :
  With(p + strcspn(m, p, t), LAMBDA e :
  IF l = NULL THEN Token(m, line, NULL)
  ELSE IF m[p] = 0 THEN Token(m, NULL, NULL)
  ELSE IF m[e] = 0 THEN Token(m, NULL, p) ELSE Token(Put(m, e, 0), e + 1, p)))

-----------------------------------------------------------------------------
(* Wide characters and UTF-8: mbrtowc() may be given a character in pieces *)
(* and keeps what it has seen in a state [oc, wc, sh].                     *)

MB_CUR_MAX == 4
MB_LEN_MAX == 4

\* [valid, nbytes] of a wide character; the surrogates are taken to end at
\* 0xDD00.
_validutf8(wc) ==
  CASE wc < 128 -> [valid |-> TRUE, nbytes |-> 1]
    [] wc \in 128 .. 2047 -> [valid |-> TRUE, nbytes |-> 2]
    [] wc \in 2048 .. 55295 -> [valid |-> TRUE, nbytes |-> 3]
    [] wc \in 55296 .. 56575 -> [valid |-> FALSE, nbytes |-> 3]
    [] wc \in 56576 .. 65535 -> [valid |-> TRUE, nbytes |-> 3]
    [] wc \in 65536 .. 1114111 -> [valid |-> TRUE, nbytes |-> 4]
    [] OTHER -> [valid |-> FALSE, nbytes |-> 0]

Initial == [oc |-> 0, wc |-> 0, sh |-> 0]
mbsinit(ps) == ps.oc = 0

Returned(ps, ret, wc) == [ps |-> ps, ret |-> ret, wc |-> wc]
EILSEQ == Returned(Initial, -1, 0)

\* The loop of mbrtowc(): bytes i and on of s.
RECURSIVE Continue(_, _, _, _, _)
Continue(s, i, oc, wc, sh) ==
  LET w == wc * 64 + (s[i] % 64)
      o == oc * 2
      full == w + (((o % 256) \div 2 ^ (sh + 1)) * 64 ^ sh)
      v == _validutf8(full)
  IN IF i > Len(s) THEN Returned([oc |-> oc % 256, wc |-> wc, sh |-> sh], -2, 0)
     ELSE IF sh > MB_CUR_MAX \/ s[i] \div 64 # 2 THEN EILSEQ
     ELSE IF (o \div 128) % 2 = 1 THEN Continue(s, i + 1, o, w, sh + 1)
     ELSE IF ~v.valid \/ sh + 1 # v.nbytes THEN EILSEQ
     ELSE Returned(Initial, i, full)

\* Mutant of mbrtowc: the bits that were read before are lost.
mbrtowcForgets(ps, s) ==
  IF s = <<>> THEN Returned(ps, -2, 0)
  ELSE IF ps.sh # 0 THEN Continue(s, 1, ps.oc, 0, ps.sh)
  ELSE IF s[1] = 0 THEN Returned(ps, 0, 0)
  ELSE IF s[1] < 128 THEN Returned(ps, 1, s[1])
  ELSE IF s[1] < 192 THEN EILSEQ
  ELSE Continue(s, 2, s[1] * 2, 0, 1)

\* With a complete character the state is cleared, not with an ASCII one.
mbrtowc(ps, s) ==
  IF s = <<>> THEN Returned(ps, -2, 0)
  ELSE IF ps.sh # 0 THEN Continue(s, 1, ps.oc, ps.wc, ps.sh)
  ELSE IF s[1] = 0 THEN Returned(ps, 0, 0)
  ELSE IF s[1] < 128 THEN Returned(ps, 1, s[1])
  ELSE IF s[1] < 192 THEN EILSEQ
  ELSE Continue(s, 2, s[1] * 2, 0, 1)

\* mbtowc(): an incomplete character is an error, and forgotten.
mbtowc(s) == With(mbrtowc(Initial, s), LAMBDA r :
             IF r.ret = -2 THEN EILSEQ ELSE r)

\* wcrtomb(): <<>> is the error.  The first byte is built by shifts to the
\* right of a signed char.
RECURSIVE Lead(_, _), Rest(_, _)
Lead(b, n) == IF n = 0 THEN b ELSE Lead((b \div 2 + 128) | 128, n - 1)
Rest(c, n) == IF n = 0 THEN <<>> ELSE Rest(c \div 64, n - 1) \o <<128 + (c % 64)>>
wcrtomb(wc) ==
  LET v == _validutf8(wc)
  IN With(v.nbytes - 1, LAMBDA n :
  IF wc < 128 THEN <<wc>>
  ELSE IF ~v.valid THEN <<>>
  ELSE <<Lead(128, n) | (wc \div 64 ^ n)>> \o Rest(wc, n))

\* wcsrtombs() of the wide string src (ending in 0) into len bytes: the bytes
\* written, how many wide characters were taken and what is returned.
RECURSIVE Bytes(_, _, _, _)
Bytes(src, i, len, dest) ==
  With(wcrtomb(src[i]), LAMBDA b :
  IF b = <<>> THEN [dest |-> dest, taken |-> i - 1, ret |-> -1]
  ELSE IF Len(dest) + Len(b) > len THEN [dest |-> dest, taken |-> i - 1, ret |-> Len(dest)]
  ELSE IF src[i] = 0 THEN [dest |-> dest \o b, taken |-> i, ret |-> Len(dest)]
  ELSE Bytes(src, i + 1, len, dest \o b))
wcsrtombs(src, len) == Bytes(src, 1, len, <<>>)

\* mbsrtowcs() of the bytes src into len wide characters.
RECURSIVE Chars(_, _, _, _, _)
Chars(ps, src, i, len, dest) ==
  With(mbrtowc(ps, SubSeq(src, i, IF i + MB_LEN_MAX - 1 < Len(src) THEN i + MB_LEN_MAX - 1 ELSE Len(src))), LAMBDA r :
  IF r.ret = -2 THEN Chars(r.ps, src, i + MB_LEN_MAX, len, dest)
  ELSE IF r.ret = -1 THEN [dest |-> dest, taken |-> 0, ret |-> -1]
  ELSE IF Len(dest) = len THEN [dest |-> dest, taken |-> i - 1, ret |-> len]
  ELSE IF r.wc = 0 THEN [dest |-> Append(dest, 0), taken |-> Len(src), ret |-> Len(dest)]
  ELSE Chars(r.ps, src, i + r.ret, len, Append(dest, r.wc)))
mbsrtowcs(src, len) == Chars(Initial, src, 1, len, <<>>)

-----------------------------------------------------------------------------
(* Numbers written in strings, integer division and binary search.  A      *)
(* string is a sequence of characters, each a string of its own; past its  *)
(* end there is the character "".                                          *)

LONG_MIN == -LONG_MAX - 1
ULONG_MAX == 2 * LONG_MAX + 1
LLONG_MIN == -LLONG_MAX - 1
ULLONG_MAX == 2 * LLONG_MAX + 1
NoDigit == LLONG_MAX

At(str, i) == IF i <= Len(str) THEN str[i] ELSE ""
isspace(c) == c = " "

\* The terminating NUL is found in digits too, after the last one.
_dtoi(c) == IF c \in DOMAIN DigitOf THEN DigitOf[c] ELSE IF c = "" THEN 36 ELSE NoDigit

RECURSIVE Spaces(_, _)
Spaces(str, i) == IF isspace(At(str, i)) THEN Spaces(str, i + 1) ELSE i

\* The position after spaces and sign, and whether there was a minus.
Sign(str) ==
  LET i == Spaces(str, 1) IN
  [i |-> IF At(str, i) \in {"-", "+"} THEN i + 1 ELSE i, minus |-> At(str, i) = "-"]

Base(str, i, base) ==
  IF base # 0 THEN base ELSE IF At(str, i) # "0" THEN 10 ELSE IF At(str, i + 1) = "x" THEN 16 ELSE 8
Prefix(str, i, base) == IF base = 16 /\ At(str, i) = "0" /\ At(str, i + 1) = "x" THEN i + 2 ELSE i

Result(val, end, range) == [val |-> val, end |-> end, range |-> range]

\* The loops: digits from t on; n is kept negative by strtol().
RECURSIVE Down(_, _, _, _, _, _, _), Up(_, _, _, _, _), Atoi(_, _, _)
Down(str, t, base, minus, n, max, alone) ==
  LET d == _dtoi(At(str, t))
      min == -max - 1
      over == Result(IF minus THEN min ELSE max, t, TRUE)
  IN IF d >= base THEN Result(IF minus THEN n ELSE -n, t, FALSE)
     ELSE IF n < -((-min) \div base) THEN over
     ELSE IF -d < min - n * base THEN over
     ELSE IF n * base - d = alone /\ ~minus THEN over
     ELSE Down(str, t + 1, base, minus, n * base - d, max, alone)
Up(str, t, base, n, max) ==
  LET d == _dtoi(At(str, t)) IN
  IF d >= base THEN Result(n, t, FALSE)
  ELSE IF n > max \div base THEN Result(max, t, TRUE)
  ELSE IF d > max - n * base THEN Result(max, t, TRUE)
  ELSE Up(str, t + 1, base, n * base + d, max)

\* end stays at the string when there is no digit.
Ended(r, s) == IF r.end = s /\ ~r.range THEN [r EXCEPT !.end = 1] ELSE r

\* What strtol(), strtoll() and strtoimax() share, and strtoul() and its
\* likes: max is the greatest value, alone the one that has no positive.
Signed(str, base0, max, alone) ==
  With(Sign(str), LAMBDA g :
  With(Base(str, g.i, base0), LAMBDA base :
  With(Prefix(str, g.i, base), LAMBDA s :
  Ended(Down(str, s, base, g.minus, 0, max, alone), s))))
Unsign(str, base0, max) ==
  With(Sign(str), LAMBDA g :
  With(Base(str, g.i, base0), LAMBDA base :
  With(Prefix(str, g.i, base), LAMBDA s :
  With(Ended(Up(str, s, base, 0, max), s), LAMBDA r :
  IF g.minus /\ ~r.range THEN [r EXCEPT !.val = (-r.val) % (max + 1)] ELSE r))))

strtol(str, base) == Signed(str, base, LONG_MAX, LONG_MIN)
strtoll(str, base) == Signed(str, base, LLONG_MAX, LONG_MIN)    \* LONG_MIN, where LLONG_MIN was meant
strtoimax(str, base) == Signed(str, base, LLONG_MAX, LLONG_MIN)
strtoul(str, base) == Unsign(str, base, ULONG_MAX)
strtoull(str, base) == Unsign(str, base, ULLONG_MAX)
strtoumax(str, base) == Unsign(str, base, ULLONG_MAX)

Atoi(str, i, n) == LET d == _dtoi(At(str, i)) IN IF d < 10 THEN Atoi(str, i + 1, n * 10 - d) ELSE n
atoi(str) == With(Sign(str), LAMBDA g :
             (IF g.minus THEN 1 ELSE -1) * Atoi(str, g.i, 0))
atol(str) == atoi(str)
atoll(str) == atoi(str)

\* C's / and % round towards zero.
Quot(a, b) == (IF (a < 0) = (b < 0) THEN 1 ELSE -1) * ((IF a < 0 THEN -a ELSE a) \div (IF b < 0 THEN -b ELSE b))
div(a, b) == [quot |-> Quot(a, b), rem |-> a - b * Quot(a, b)]

\* bsearch() of key in a: the index found, 0 for none, -1 when it looks at an
\* element that is not of the array.
RECURSIVE Search(_, _, _, _)
Search(key, a, low, high) ==
  LET mid == low + (high - low) \div 2
      t == key - a[mid + 1]
  IN IF low > high THEN 0
     ELSE IF mid + 1 \notin DOMAIN a THEN -1
     ELSE IF t = 0 THEN mid + 1
     ELSE IF t > 0 THEN (IF mid < SIZE_MAX THEN Search(key, a, mid + 1, high) ELSE 0)
     ELSE IF mid > 0 THEN Search(key, a, low, mid - 1) ELSE 0
bsearch(key, a) == Search(key, a, 0, (Len(a) - 1) % (SIZE_MAX + 1))

-----------------------------------------------------------------------------
(* vfprintf() and vsnprintf().  A format is a sequence of items, each a    *)
(* character [ch] or a conversion with its flags, width, precision (-1 is  *)
(* none), length and the letter in conv.                                   *)

Digs == <<"0", "1", "2", "3", "4", "5", "6", "7", "8", "9", "a", "b", "c", "d", "e", "f">>
Unsigned == {"u", "x", "o"}
BaseOf(conv) == IF conv = "o" THEN 8 ELSE IF conv = "x" THEN 16 ELSE 10

\* [sign, uval]: what is left of the operand, and a minus where it is
\* negative; a short or char operand is negative when the int is.
getnum(it, arg) ==
  LET mod == CASE it.len = "hh" -> CharMod [] it.len = "h" -> ShortMod
               [] it.len \in {"l", "ll", "z", "j"} -> LongMod [] OTHER -> IntMod
  IN IF it.conv \notin Unsigned /\ it.len # "z" /\ arg < 0
     THEN [sign |-> "-", uval |-> -arg] ELSE [sign |-> it.sign, uval |-> arg % mod]

RECURSIVE DigitsOf(_, _)
DigitsOf(val, base) ==
  (IF val < base THEN <<>> ELSE DigitsOf(val \div base, base)) \o <<Digs[(val % base) + 1]>>

Fill(c, n) == [i \in 1 .. (IF n > 0 THEN n ELSE 0) |-> c]

numtostr(val, sign, it) ==
  LET ds == DigitsOf(val, BaseOf(it.conv))
      prec == IF it.prec > MAXPREC THEN MAXPREC ELSE it.prec
  IN With(Fill("0", prec - Len(ds)) \o ds, LAMBDA full :
  LET alt == IF ~it.alt THEN full
             ELSE IF it.conv = "o" THEN (IF full[1] = "0" THEN full ELSE <<"0">> \o full)
             ELSE IF it.conv = "x" /\ val # 0 THEN <<"0", "x">> \o full ELSE full
  IN (IF sign = "" THEN <<>> ELSE <<sign>>) \o alt)

\* strout(): a negative width puts the text to the left.
strout(s, width, fill) ==
  LET w == IF width < 0 THEN -width ELSE width
      adjust == IF Len(s) < w THEN w - Len(s) ELSE 0
      prefix == IF fill # "0" \/ s = <<>> THEN 0
                ELSE IF s[1] \in {"-", "+"} THEN 1
                ELSE IF Len(s) > 1 /\ s[1] = "0" /\ s[2] = "x" THEN 2 ELSE 0
  IN SubSeq(s, 1, prefix) \o (IF width < 0 THEN <<>> ELSE Fill(fill, adjust))
     \o SubSeq(s, prefix + 1, Len(s)) \o (IF width < 0 THEN Fill(" ", adjust) ELSE <<>>)

\* A width from the arguments replaces the one '-' has made negative.
WidthOf(it) == IF it.left /\ ~it.star THEN -it.width ELSE it.width

\* The text of one conversion; <<>> in a list of its own where there is none.
Converted(it, arg) ==
  CASE it.conv \in {"d", "u", "o", "x"} ->
         LET g == getnum(it, arg) IN strout(numtostr(g.uval, g.sign, it), WidthOf(it), IF it.zero THEN "0" ELSE " ")
    [] it.conv = "s" ->
         strout(IF it.prec >= 0 /\ Len(arg) > it.prec THEN SubSeq(arg, 1, it.prec) ELSE arg, WidthOf(it), " ")
    [] it.conv = "%" -> strout(<<"%">>, WidthOf(it), " ")
    [] OTHER -> <<>>

\* vfprintf(): what is written, the count, and what %n has stored.  inc is
\* what the last conversion has added: %n and floating point leave it alone.
RECURSIVE Format(_, _, _, _)
Format(fmt, i, st, args) ==
  IF i > Len(fmt) THEN st
  ELSE LET it == fmt[i]
       IN With(IF "ch" \in DOMAIN it THEN <<it.ch>> ELSE Converted(it, args[i]), LAMBDA text :
       LET kept == "ch" \notin DOMAIN it /\ it.conv \in {"n", "f"}
       IN With(IF kept THEN st.inc ELSE Len(text), LAMBDA inc :
       Format(fmt, i + 1, [out |-> st.out \o text, cnt |-> st.cnt + inc, inc |-> inc,
                           saved |-> IF kept /\ it.conv = "n" THEN st.cnt ELSE st.saved], args)))
vfprintf(fmt, args) == Format(fmt, 1, [out |-> <<>>, cnt |-> 0, inc |-> 0, saved |-> -1], args)

\* vsnprintf(): the buffer, of siz characters, with "NUL" at the end.
vsnprintf(siz, fmt, args) ==
  With(vfprintf(fmt, args), LAMBDA r :
  LET n == IF Len(r.out) < siz THEN Len(r.out) ELSE siz - 1
  IN [buf |-> IF siz = 0 THEN <<>> ELSE SubSeq(r.out, 1, n) \o <<"NUL">>, ret |-> r.cnt, saved |-> r.saved])

=============================================================================
