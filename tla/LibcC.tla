------------------------------- MODULE LibcC -------------------------------
(***************************************************************************)
(* What the C standard says of these functions, without loops: as strings, *)
(* positions and values; and the properties of libc.                       *)
(***************************************************************************)
EXTENDS Libc

-----------------------------------------------------------------------------
(* Strings *)

LengthOf(m, s) == CHOOSE n \in 0 .. 99 : m[s + n] = 0 /\ \A k \in 0 .. n - 1 : m[s + k] # 0
Str(m, s) == [k \in 1 .. LengthOf(m, s) |-> m[s + k - 1]]
Part(m, s, n) == [k \in 1 .. n |-> m[s + k - 1]]
Written(m, d, seq) == [i \in DOMAIN m |-> IF i \in d .. d + Len(seq) - 1 THEN seq[i - d + 1] ELSE m[i]]
Begin(q, n) == SubSeq(q, 1, Lesser(n, Len(q)))

FirstOf(S) == IF S = {} THEN NULL ELSE CHOOSE i \in S : \A j \in S : i <= j
LastOf(S) == IF S = {} THEN NULL ELSE CHOOSE i \in S : \A j \in S : i >= j
CharOf(c) == c % 256

\* The order of two sequences of bytes: the sign of what is returned.
Order(p, q) ==
  LET D == {i \in 1 .. Len(p) + Len(q) : i > Len(p) \/ i > Len(q) \/ p[i] # q[i]}
      i == FirstOf(D)
      at(r) == IF i > Len(r) THEN 0 ELSE r[i]
  IN IF p = q THEN 0 ELSE IF at(p) < at(q) THEN -1 ELSE 1
SignOf(n) == IF n < 0 THEN -1 ELSE IF n > 0 THEN 1 ELSE 0

MemoryAfter(k, m) ==
  CASE k.f \in {"memcpy", "memmove"} -> Written(m, k.d, Part(m, k.s, k.n))
    [] k.f = "memset" -> Written(m, k.s, [i \in 1 .. k.n |-> CharOf(k.c)])
    [] k.f = "strcpy" -> Written(m, k.d, Str(m, k.s) \o <<0>>)
    [] k.f = "strcat" -> Written(m, k.d, Str(m, k.d) \o Str(m, k.s) \o <<0>>)
    [] k.f = "strncat" -> Written(m, k.d, Str(m, k.d) \o Begin(Str(m, k.s), k.n) \o <<0>>)
    [] k.f = "strncpy" ->
         Written(m, k.d, [i \in 1 .. k.n |-> IF i <= LengthOf(m, k.s) THEN m[k.s + i - 1] ELSE 0])
    [] k.f = "strxfrm" -> IF LengthOf(m, k.s) < k.n THEN Written(m, k.d, Str(m, k.s) \o <<0>>) ELSE m
    [] OTHER -> m

\* Comparisons give any number of the right sign.
Answer(k, m) ==
  CASE k.f = "memchr" -> FirstOf({i \in k.s .. k.s + k.n - 1 : m[i] = CharOf(k.c)})
    [] k.f = "strchr" -> FirstOf({i \in k.s .. k.s + LengthOf(m, k.s) : m[i] = CharOf(k.c)})
    [] k.f = "strrchr" -> LastOf({i \in k.s .. k.s + LengthOf(m, k.s) : m[i] = CharOf(k.c)})
    [] k.f = "memcmp" -> Order(Part(m, k.d, k.n), Part(m, k.s, k.n))
    [] k.f \in {"strcmp", "strcoll"} -> Order(Str(m, k.d), Str(m, k.s))
    [] k.f = "strncmp" -> Order(Begin(Str(m, k.d), k.n), Begin(Str(m, k.s), k.n))
    [] k.f \in {"strlen", "strxfrm"} -> LengthOf(m, k.s)
    [] k.f \in {"strspn", "strcspn", "strpbrk"} ->
         LET p == Str(m, k.d)
         IN With({i \in DOMAIN p : (p[i] \in ToSet(Str(m, k.s))) = (k.f # "strspn")}, LAMBDA stop :
         With(IF stop = {} THEN Len(p) ELSE FirstOf(stop) - 1, LAMBDA n :
         IF k.f # "strpbrk" THEN n ELSE IF stop = {} THEN NULL ELSE k.d + n))
    [] k.f = "strstr" ->
         LET p == Str(m, k.d)  q == Str(m, k.s) IN
         FirstOf({i \in k.d .. k.d + Len(p) - Len(q) : SubSeq(p, i - k.d + 1, i - k.d + Len(q)) = q})
    [] k.f = "memset" -> k.s
    [] OTHER -> k.d

\* c of strchr(), strrchr() and memchr() is not converted to a character.
NotConverted(k) ==
  \/ k.f \in {"strchr", "strrchr"} /\ k.c \notin -128 .. 127
  \/ k.f = "memchr" /\ k.c \notin 0 .. 255

\* strncmp() goes on after the end of two strings that are equal.
PastTheEnd(k, m) == k.f = "strncmp" /\ Str(m, k.d) = Str(m, k.s) /\ LengthOf(m, k.s) < k.n

\* The string functions write and return what C says, whatever the overlap
\* memmove() is given and wherever the string ends.
StringsAsInC ==
  last.f \in Two \cup Three \cup {"memset", "memchr", "strchr", "strrchr", "strlen"} =>
    LET k == last.k
        ret == IF k.f \in {"memcmp", "strcmp", "strcoll", "strncmp"} THEN SignOf(last.ret) ELSE last.ret
    IN /\ mem = MemoryAfter(k, last.before)
       /\ NotConverted(k) \/ PastTheEnd(k, last.before) \/ ret = Answer(k, last.before)

\* The parts of a string between separators, none of them empty.
RECURSIVE PartsOf(_, _)
PartsOf(p, seps) ==
  IF p = <<>> THEN <<>>
  ELSE IF p[1] \in seps THEN PartsOf(Tail(p), seps)
  ELSE LET stop == {i \in DOMAIN p : p[i] \in seps}
           n == IF stop = {} THEN Len(p) ELSE FirstOf(stop) - 1
       IN <<SubSeq(p, 1, n)>> \o PartsOf(SubSeq(p, n + 1, Len(p)), seps)

\* A series of strtok() calls gives the parts of the string in order, all of
\* them before NULL, and the memory outside of the string is as it was.
TokensAsInC ==
  last.f = "strtok" =>
    LET m == last.t[1]
    IN With(PartsOf(Str(m, last.t[2]), ToSet(Str(m, last.t[3]))), LAMBDA parts :
    /\ tokens = SubSeq(parts, 1, Len(tokens))
    /\ last.ret = NULL => tokens = parts
    /\ \A i \in DOMAIN m : i \in last.t[2] .. last.t[2] + LengthOf(m, last.t[2]) \/ mem[i] = m[i])

-----------------------------------------------------------------------------
(* Numbers *)

DigitsIn(base) == {c \in DOMAIN DigitOf : DigitOf[c] < base}

\* Spaces, a sign, a prefix and as many digits as there are.
Subject(str, base0) ==
  With(FirstOf({i \in 1 .. Len(str) + 1 : At(str, i) # " "}), LAMBDA sp :
  With(IF At(str, sp) \in {"-", "+"} THEN sp + 1 ELSE sp, LAMBDA sg :
  With(At(str, sg) = "0" /\ At(str, sg + 1) = "x" /\ At(str, sg + 2) \in DigitsIn(16), LAMBDA hex :
  With(IF base0 # 0 THEN base0 ELSE IF hex THEN 16 ELSE IF At(str, sg) = "0" THEN 8 ELSE 10, LAMBDA base :
  With(IF base = 16 /\ hex THEN sg + 2 ELSE sg, LAMBDA from :
  With(FirstOf({i \in from .. Len(str) + 1 : At(str, i) \notin DigitsIn(base)}), LAMBDA to :
  [minus |-> At(str, sp) = "-", base |-> base, digits |-> SubSeq(str, from, to - 1), end |-> to]))))))

RECURSIVE ValueOf(_, _)
ValueOf(ds, base) == IF ds = <<>> THEN 0 ELSE ValueOf(SubSeq(ds, 1, Len(ds) - 1), base) * base + DigitOf[ds[Len(ds)]]

\* "0x" without a digit after it is read as no number at all, not as 0.
BarePrefix(str, base) ==
  \E i \in 1 .. Len(str) - 1 : str[i] = "0" /\ str[i + 1] = "x" /\ At(str, i + 2) \notin DigitsIn(16) /\ base \in {0, 16}

\* strtoll() compares with LONG_MIN where LLONG_MIN was meant: where long is
\* the shorter type -LONG_MIN is outside for it, and -LLONG_MIN is not.
LongMinMistaken(f, n) == f = "strtoll" /\ n \in {-LONG_MIN, -LLONG_MIN}

\* strtol(), strtoul(), atoi() and their likes give the value of the longest
\* number at the start, its end, and the limit of the type with ERANGE when
\* it is outside.  When it is, end is left inside the number.
NumbersAsInC ==
  last.f \in {"strtol", "strtoul", "strtoll", "strtoull", "strtoimax", "strtoumax", "atoi", "atol", "atoll"} =>
    With(Subject(last.str, last.base), LAMBDA q :
    With(ValueOf(q.digits, q.base), LAMBDA v :
    With(IF q.minus THEN -v ELSE v, LAMBDA n :
    LET unsigned == last.f \in {"strtoul", "strtoull", "strtoumax"}
    IN With(IF last.f = "strtol" THEN LONG_MAX ELSE IF last.f = "strtoul" THEN ULONG_MAX ELSE IF unsigned THEN ULLONG_MAX ELSE LLONG_MAX, LAMBDA max :
    With(IF unsigned THEN v > max ELSE n < -max - 1 \/ n > max, LAMBDA out :
    LET end == IF q.digits = <<>> THEN 1 ELSE q.end
        r == last.ret
    IN \/ BarePrefix(last.str, last.base)
       \/ LongMinMistaken(last.f, n)
       \/ IF last.f \in {"atoi", "atol", "atoll"} THEN out \/ r = n
          ELSE /\ r.range = out
               /\ out \/ r.end = end
               /\ r.val = IF unsigned THEN (IF out THEN max ELSE n % (max + 1))
                          ELSE IF n < -max - 1 THEN -max - 1 ELSE IF n > max THEN max ELSE n)))))

\* The quotient is rounded towards zero and the remainder completes it.
DivisionAsInC ==
  last.f = "div" =>
    /\ last.ret.quot * last.b + last.ret.rem = last.a
    /\ last.ret.rem * last.a >= 0
    /\ last.ret.rem * last.ret.rem < last.b * last.b

\* bsearch() finds an element when there is one, and looks only at elements
\* of the array, but for an array without any: there n - 1 is SIZE_MAX.
SearchFinds ==
  last.f = "bsearch" =>
    \/ last.a = <<>>
    \/ IF \E i \in DOMAIN last.a : last.a[i] = last.key
       THEN last.ret \in DOMAIN last.a /\ last.a[last.ret] = last.key ELSE last.ret = 0

-----------------------------------------------------------------------------
(* UTF-8 *)

\* The bytes of a character and the characters that may be written.
Utf8(c) ==
  IF c < 128 THEN <<c>>
  ELSE IF c < 2048 THEN <<192 + (c \div 64), 128 + (c % 64)>>
  ELSE IF c < 65536 THEN <<224 + (c \div 4096), 128 + ((c \div 64) % 64), 128 + (c % 64)>>
  ELSE <<240 + (c \div 262144), 128 + ((c \div 4096) % 64), 128 + ((c \div 64) % 64), 128 + (c % 64)>>
Surrogate(c) == c \in 55296 .. 57343
Character(c) == c \in 0 .. 1114111 /\ ~Surrogate(c)

RECURSIVE Encoded(_)
Encoded(cs) == IF cs = <<>> THEN <<>> ELSE Utf8(cs[1]) \o Encoded(Tail(cs))

\* Whether the bytes are those of one character.
Begins(b) ==
  LET n == Len(b)
      c == IF n = 1 THEN b[1] ELSE FoldLeft(LAMBDA v, x : v * 64 + (x % 64), b[1] % 2 ^ (7 - n), Tail(b))
  IN Character(c) /\ Utf8(c) = b

\* However UTF-8 is cut in pieces, what mbrtowc() gives are characters, their
\* bytes are the bytes that arrived up to the state, a state is kept only for
\* less than one character, and what is refused is not a character of UTF-8.
\* The surrogates from 0xDD00 on are let through, and a first byte no
\* character has (0xF8 and on) is refused only with the bytes after it.
Utf8Restarts ==
  /\ \A i \in DOMAIN chars : Character(chars[i]) \/ chars[i] \in 56576 .. 57343
  /\ With(Encoded(chars), LAMBDA done :
     With(SubSeq(bytes, Len(done) + 1, Len(bytes)), LAMBDA rest :
     /\ done = SubSeq(bytes, 1, Len(done))
     /\ last.f = "fed" => (Len(rest) < 4 \/ rest[1] >= 248) /\ (mbsinit(ps) <=> rest = <<>>)
     /\ last.f = "illegal" =>
          /\ mbsinit(ps)
          /\ ~\E n \in 1 .. Lesser(4, Len(rest)) : Begins(SubSeq(rest, 1, n))))

\* wcsrtombs() stops before the character that does not fit, and mbsrtowcs()
\* of its bytes gives the characters back.  mbtowc() gives the first, or an
\* error when it is given less than its bytes.
WideRoundTrip ==
  last.f = "wcsrtombs" =>
    LET s == last.src  r == last.ret  good == \A i \in DOMAIN s : Character(s[i]) IN
    good =>
      /\ r.dest = Encoded(SubSeq(s, 1, r.taken))
      /\ Len(r.dest) <= last.len
      /\ r.taken = Len(s) \/ Len(Encoded(SubSeq(s, 1, r.taken + 1))) > last.len
      /\ r.ret = Len(r.dest) - (IF r.taken = Len(s) THEN 1 ELSE 0)
      /\ IF last.len < Len(Utf8(s[1])) THEN last.begin.ret = -1
         ELSE last.begin.wc = s[1] /\ last.begin.ret = (IF s[1] = 0 THEN 0 ELSE Len(Utf8(s[1])))
      /\ last.back[1].dest = SubSeq(s, 1, Lesser(last.len, Len(s)))

-----------------------------------------------------------------------------
(* Calendar *)

Leap(y) == (y % 4 = 0 /\ y % 100 # 0) \/ y % 400 = 0
Cumulative == <<0, 31, 59, 90, 120, 151, 181, 212, 243, 273, 304, 334>>
\* Days from the first of January 1970 to a date of the Gregorian calendar.
DayNumber(y, mon, mday) ==
  LET p == y - 1 IN
  365 * (y - 1970) + ((p \div 4) - (p \div 100) + (p \div 400)) - 477
  + Cumulative[mon + 1] + (IF mon > 1 /\ Leap(y) THEN 1 ELSE 0) + mday - 1

Proper(tm) == tm.sec \in 0 .. 59 /\ tm.min \in 0 .. 59 /\ tm.hour \in 0 .. 23 /\ tm.mon \in 0 .. 11
              /\ tm.mday \in 1 .. Daysmon(tm.year + 1900)[tm.mon + 1]
Instant(tm) == DayNumber(tm.year + 1900, tm.mon, tm.mday) * 86400 + tm.hour * 3600 + tm.min * 60 + tm.sec

\* The instant any fields stand for, those out of their range too.
Meant(tm) ==
  LET y == tm.year + 1900 + (tm.mon \div 12) IN
  DayNumber(y, tm.mon % 12, 1) * 86400 + (tm.mday - 1) * 86400 + tm.hour * 3600 + tm.min * 60 + tm.sec

\* gmtime() gives the date of the instant, with its weekday and the day of
\* its year, mktime() gives the instant back; and mktime() of any fields the
\* instant they stand for, with the fields brought into their ranges.  An
\* instant before 1970 is not told from one after.
CalendarExact ==
  /\ last.f = "gmtime" =>
       LET tm == last.ret IN
       /\ Proper(tm) /\ Instant(tm) = last.t /\ last.back = last.t
       /\ tm.yday = DayNumber(tm.year + 1900, tm.mon, tm.mday) - DayNumber(tm.year + 1900, 0, 1)
       /\ tm.wday = ((last.t \div 86400) + 4) % 7
  /\ last.f = "mktime" /\ Meant(last.tm) >= 0 =>
       IF last.norm = <<>>
       THEN last.ret = -1 /\ (\/ last.tm.year + (last.tm.mon \div 12) \notin 0 .. MAXYEAR - 1900
                             \/ Meant(last.tm) >= DayNumber(MAXYEAR + 1, 0, 1) * 86400)
       ELSE LET n == last.norm[1] IN
            /\ Proper(n) /\ Instant(n) = Meant(last.tm) /\ last.ret = Meant(last.tm)
            /\ n.wday = ((last.ret \div 86400) + 4) % 7
            /\ n.yday = DayNumber(n.year + 1900, n.mon, n.mday) - DayNumber(n.year + 1900, 0, 1)

\* The week of ISO 8601 is the one of its Thursday: <<year, week>>.
IsoWeek(t) ==
  LET d == t \div 86400
  IN With(gmtime((d - ((d + 3) % 7) + 3) * 86400), LAMBDA thu :
  <<thu.year, thu.yday \div 7 + 1>>)
Mondays(tm) == (tm.wday + 6) % 7

\* The number and text of each conversion, as C defines them.
NumberIn(c, t, tm) ==
  CASE c = "%U" -> <<2, (tm.yday + 7 - tm.wday) \div 7>> [] c = "%W" -> <<2, (tm.yday + 7 - Mondays(tm)) \div 7>>
    [] c = "%V" -> <<2, IsoWeek(t)[2]>> [] c = "%G" -> <<4, IsoWeek(t)[1] + 1900>> [] c = "%g" -> <<2, IsoWeek(t)[1] % 100>>
    [] c = "%u" -> <<1, Mondays(tm) + 1>> [] c = "%I" -> <<2, ((tm.hour + 11) % 12) + 1>>
    [] OTHER -> <<Value(c, tm)[1], Value(c, tm)[3] % 10 ^ Value(c, tm)[1]>>
TextIn(c, t, tm) ==
  IF Value(c, tm) # <<>>
  THEN With(NumberIn(c, t, tm), LAMBDA q :
       LET f == Value(c, tm)[2]
       IN [i \in 1 .. q[1] |-> IF i < q[1] /\ q[2] < 10 ^ (q[1] - i) THEN f ELSE Numeral[((q[2] \div 10 ^ (q[1] - i)) % 10) + 1]])
  ELSE IF c = "%p" THEN (IF tm.hour < 12 THEN <<"AM", "AM">> ELSE <<"PM", "PM">>)
  ELSE IF c = "%z" THEN <<"+", "0", "0", "0", "0">>
  ELSE Simple(c, 99, tm)
RECURSIVE TimeText(_, _, _)
TimeText(fmt, t, tm) ==
  IF fmt = <<>> THEN <<>>
  ELSE (IF Composite(fmt[1]) = <<>> THEN TextIn(fmt[1], t, tm) ELSE TimeText(Composite(fmt[1]), t, tm))
       \o TimeText(Tail(fmt), t, tm)

\* What strftime() gets wrong: noon is AM, %z has a hole, the Sunday before
\* a year of ISO weeks is given to it, the weeks of 2000 are counted to 365
\* days, and a composite that fills the buffer is written one cell too far
\* and forgotten.
Noon(fmt, tm) == tm.hour = 12 /\ ("%p" \in ToSet(fmt) \/ "%r" \in ToSet(fmt))
IsoEdge(fmt, t, tm) ==
  /\ ToSet(fmt) \cap {"%V", "%G", "%g"} # {}
  /\ \/ tm.yday > 357 /\ IsoWeek(t)[1] = tm.year /\ IsoWeek(t + 86400)[1] = tm.year + 1
     \/ tm.year = 101 /\ IsoWeek(t)[1] = 100
CompositeFills(fmt, max, t, tm) ==
  \E i \in DOMAIN fmt : Composite(fmt[i]) # <<>> /\ Len(TimeText(SubSeq(fmt, 1, i), t, tm)) >= max

\* strftime() writes inside of the buffer, and the text C says when it and
\* its NUL fit; it returns 0 when they do not.
StrftimeAsInC ==
  last.f = "strftime" =>
    With(gmtime(last.t), LAMBDA tm :
    With(TimeText(last.fmt, last.t, tm), LAMBDA text :
    LET r == last.ret
    IN \/ Noon(last.fmt, tm)
       \/ "%z" \in ToSet(last.fmt)
       \/ IsoEdge(last.fmt, last.t, tm)
       \/ CompositeFills(last.fmt, last.max, last.t, tm)
       \/ /\ r.reach <= last.max
          /\ IF Len(text) < last.max THEN r.out = text /\ r.ret = Len(text) ELSE r.ret = 0))

-----------------------------------------------------------------------------
(* Formatted output *)

ModOf(it) == CASE it.len = "hh" -> CharMod [] it.len = "h" -> ShortMod
               [] it.len \in {"l", "ll", "z", "j"} -> LongMod [] OTHER -> IntMod
InType(it, v) ==
  LET m == ModOf(it)  r == v % m IN IF it.conv = "d" /\ r >= m \div 2 THEN r - m ELSE r

\* The text of a conversion: prefix, zeros and digits, in the width.
Printed(it, arg) ==
  IF it.conv = "s" \/ it.conv = "%"
  THEN LET s == IF it.conv = "%" THEN <<"%">> ELSE arg
           q == IF it.prec >= 0 THEN Begin(s, it.prec) ELSE s
           pad == Fill(" ", it.width - Len(q))
       IN IF it.left THEN q \o pad ELSE pad \o q
  ELSE IF it.conv = "n" THEN <<>>
  ELSE With(InType(it, arg), LAMBDA v :
       With(IF v = 0 /\ it.prec = 0 THEN <<>> ELSE DigitsOf(IF v < 0 THEN -v ELSE v, BaseOf(it.conv)), LAMBDA ds :
       LET oct == it.alt /\ it.conv = "o" /\ (ds = <<>> \/ ds[1] # "0") /\ Len(ds) >= it.prec
       IN With(Fill("0", it.prec - Len(ds)) \o (IF oct THEN <<"0">> ELSE <<>>) \o ds, LAMBDA body :
       With(IF it.conv = "d" THEN (IF v < 0 THEN <<"-">> ELSE IF it.sign = "" THEN <<>> ELSE <<it.sign>>)
            ELSE IF it.alt /\ it.conv = "x" /\ v # 0 THEN <<"0", "x">> ELSE <<>>, LAMBDA pre :
       With(it.width - Len(pre) - Len(body), LAMBDA n :
       IF it.left THEN pre \o body \o Fill(" ", n)
       ELSE IF it.zero /\ it.prec < 0 THEN pre \o Fill("0", n) \o body
       ELSE Fill(" ", n) \o pre \o body)))))

\* What vfprintf() gets wrong of a conversion.
Numeric(it) == it.conv \in {"d", "u", "o", "x"}
Unlike(it, arg) ==
  \/ it.left /\ it.star /\ it.width # 0                            \* %-*d goes to the right
  \/ /\ Numeric(it)
     /\ \/ it.conv # "d" /\ it.sign # ""                           \* %+u has a sign
        \/ it.conv = "d" /\ (InType(it, arg) # arg \/ (it.len = "z" /\ arg < 0))
        \/ it.prec = 0 /\ InType(it, arg) = 0                      \* %.0d of 0 is not empty
        \/ it.zero /\ it.prec >= 0                                 \* %05.3d has zeros for spaces
        \/ it.zero /\ it.sign = " "                                \* % 05d has the space after the zeros
        \/ it.prec > MAXPREC                                       \* %.60d has MAXPREC digits

\* The text of a number with its sign or 0x may leave the array it is made in.
TooLong(it, arg) ==
  it.prec + (IF it.sign # "" \/ arg < 0 \/ (it.alt /\ it.conv = "x") THEN 2 ELSE 0) > MAXPREC

RECURSIVE PrintedAll(_, _)
PrintedAll(fmt, args) ==
  IF fmt = <<>> THEN <<>>
  ELSE (IF "ch" \in DOMAIN fmt[1] THEN <<fmt[1].ch>> ELSE Printed(fmt[1], args[1])) \o PrintedAll(Tail(fmt), Tail(args))

\* vsnprintf() writes the text C says, cut to the buffer and ended by NUL,
\* and returns its whole length, which %n does not disturb but by counting
\* what came before it twice; a number stays in the array it is made in.
PrintfAsInC ==
  last.f = "vsnprintf" =>
    LET p == last.p
    IN With(PrintedAll(p.fmt, p.args), LAMBDA text :
    LET convs == {i \in DOMAIN p.fmt : "ch" \notin DOMAIN p.fmt[i]}
        stale == \E i \in convs : p.fmt[i].conv = "n"
    IN \/ \E i \in convs : Unlike(p.fmt[i], p.args[i])
       \/ /\ last.ret.buf = (IF p.siz = 0 THEN <<>> ELSE Append(Begin(text, p.siz - 1), "NUL"))
          /\ stale \/ last.ret.ret = Len(text)
          /\ \A i \in convs : p.fmt[i].conv = "n" => last.ret.saved = Len(PrintedAll(SubSeq(p.fmt, 1, i), p.args))
          /\ \A i \in convs : Numeric(p.fmt[i]) /\ ~TooLong(p.fmt[i], p.args[i]) =>
               LET g == getnum(p.fmt[i], p.args[i]) IN Len(numtostr(g.uval, g.sign, p.fmt[i])) <= MAXPREC)

\* The calls that look at text, numbers and arrays answer as C says.
CallsAsInC == /\ StringsAsInC /\ TokensAsInC /\ NumbersAsInC /\ DivisionAsInC /\ SearchFinds
              /\ Utf8Restarts /\ WideRoundTrip

\* Dates and formatted text are the ones C says.
FormatsAsInC == CalendarExact /\ StrftimeAsInC /\ PrintfAsInC
=============================================================================
