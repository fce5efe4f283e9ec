-------------------------------- MODULE Libc --------------------------------
(***************************************************************************)
(* A program that calls libc: one call of a string, number, search or      *)
(* calendar function, a series of strtok() calls on one string, or UTF-8   *)
(* that arrives in pieces.  Before it, calendar time, from libc/time:      *)
(* gmtime(), mktime() and what they share, the lengths of the months,      *)
(* where February's is set by each of them; and strftime().                *)
(***************************************************************************)
EXTENDS LibcText

CONSTANTS
  INT_MAX,      \* of the fields of struct tm
  MAXYEAR,      \* _MAXYEAR
  Memories,     \* the memories a string function may find
  Tokenized,    \* <<memory, string, separators>> for strtok()
  Numerals,     \* the strings that are read as numbers
  Bases,        \* the bases asked for
  Arrays,       \* the sorted arrays that are searched
  Pieces,       \* pieces of UTF-8
  MaxBytes,     \* bound: bytes of a stream of UTF-8
  WideStrings,  \* strings of wide characters, ending in 0
  Times,        \* the values of time_t
  Calendars,    \* the values of struct tm given to mktime()
  TimeFormats,  \* <<format, size of the buffer>> for strftime()
  Prints        \* [fmt, args, siz] for vsnprintf()

-----------------------------------------------------------------------------
(* Calendar time. *)

EPOCH == 1970
MINYEAR == 1900
SECDAY == 86400

_daysyear(year) ==
  IF year % 4 # 0 THEN 365 ELSE IF year % 100 = 0 /\ year % 400 # 0 THEN 365 ELSE 366
FEBDAYS(year) == IF _daysyear(year) = 366 THEN 29 ELSE 28
Daysmon(year) == <<31, FEBDAYS(year), 31, 30, 31, 30, 31, 31, 30, 31, 30, 31>>

\* The day of the week of the first of January.
_newyear(y) ==
  LET year == y + 1899 IN (1 + year + (year \div 4) - (year \div 100) + (year \div 400)) % 7

RECURSIVE Years(_, _), Months(_, _, _)
Years(day, i) == IF day >= _daysyear(i) THEN Years(day - _daysyear(i), i + 1) ELSE <<day, i>>
Months(day, mon, days) == IF day >= days[mon + 1] THEN Months(day - days[mon + 1], mon + 1, days) ELSE <<day, mon>>

gmtime(t) ==
  LET sec == t % SECDAY
      day == t \div SECDAY
  IN With(Years(day, EPOCH), LAMBDA y :
  With(Months(y[1], 0, Daysmon(y[2])), LAMBDA m :
  [sec |-> sec % 60, min |-> (sec \div 60) % 60, hour |-> sec \div 3600, wday |-> (day + 4) % 7,
   year |-> y[2] - 1900, yday |-> y[1], mon |-> m[2], mday |-> m[1] + 1, gmtoff |-> 0]))

\* norm(): v into 0 .. max - 1, what is over into n; <<>> when it would not fit.
norm(v, n, max) ==
  LET d == (-v) \div max + 1
      low == IF v < 0 THEN v + d * max ELSE v
      n1 == IF v < 0 THEN n - d ELSE n
      e == low \div max
  IN IF v < 0 /\ n > INT_MAX - d THEN <<>>
     ELSE IF low >= max /\ n1 < (-INT_MAX - 1) + e THEN <<>>
     ELSE <<low % max, n1 + e>>

RECURSIVE Before(_, _, _), After(_, _, _), Sum(_, _)
Sum(days, mon) == IF mon = 0 THEN 0 ELSE days[mon] + Sum(days, mon - 1)

\* The loops over months: day is too low, day is too high.
Before(day, mon, year) ==
  IF day >= 1 THEN <<day, mon, year>>
  ELSE IF mon # 0 THEN Before(day + Daysmon(year)[mon], mon - 1, year)
  ELSE IF year = MINYEAR THEN <<>>
  ELSE Before(day + Daysmon(year - 1)[12], 11, year - 1)
After(day, mon, year) ==
  LET len == Daysmon(year)[mon + 1] IN
  IF day <= len THEN <<day, mon, year>>
  ELSE IF mon < 11 THEN After(day - len, mon + 1, year)
  ELSE IF year = MAXYEAR THEN <<>>
  ELSE After(day - len, 0, year + 1)

\* normalize(): <<>> when the time cannot be represented.
normalize(tm) ==
  With(norm(tm.sec, tm.min, 60), LAMBDA s :
  With(norm(s[2], tm.hour, 60), LAMBDA m :
  With(norm(m[2], tm.mday, 24), LAMBDA h :
  With(norm(tm.mon, tm.year, 12), LAMBDA y :
  With(Before(h[2], y[1], y[2] + MINYEAR), LAMBDA b :
  With(After(b[1], b[2], b[3]), LAMBDA a :
  With(Sum(Daysmon(a[3]), a[2]) + a[1] - 1, LAMBDA yday :
  IF s = <<>> THEN <<>> ELSE IF m = <<>> THEN <<>> ELSE IF h = <<>> \/ y = <<>> THEN <<>>
  ELSE IF y[2] < 0 \/ y[2] + MINYEAR > MAXYEAR THEN <<>>
  ELSE IF b = <<>> THEN <<>> ELSE IF a = <<>> THEN <<>>
  ELSE <<[sec |-> s[1], min |-> m[1], hour |-> h[1], mday |-> a[1], mon |-> a[2], year |-> a[3] - MINYEAR,
          yday |-> yday, wday |-> (_newyear(a[3] - MINYEAR) + yday) % 7]>>)))))))

\* _systime(): years before the epoch count nothing.
RECURSIVE Since(_)
Since(year) == IF year <= EPOCH THEN 0 ELSE Since(year - 1) + _daysyear(year - 1)
_systime(tm) ==
  LET year == tm.year + MINYEAR IN
  (Since(year) + Sum(Daysmon(year), tm.mon) + tm.mday - 1) * SECDAY + tm.sec + tm.min * 60 + tm.hour * 3600

\* Mutant of mktime: the seconds are not brought into their range.
mktimeAsIs(tm) == With(normalize(tm), LAMBDA n :
                  IF n = <<>> THEN -1 ELSE _systime([n[1] EXCEPT !.sec = tm.sec]))
mktime(tm) == With(normalize(tm), LAMBDA n :
              IF n = <<>> THEN -1 ELSE _systime(n[1]))

-----------------------------------------------------------------------------
(* strftime().  A format is a sequence of strings: "%d" is a conversion,   *)
(* "x" and the like a character.  A character of the result is a string    *)
(* too, and each one of a name is the name.  %z is modelled for an offset  *)
(* of hours and minutes in tm.gmtoff.                                      *)

days == <<"Sunday", "Monday", "Tuesday", "Wednesday", "Thursday", "Friday", "Saturday">>
daylen == <<6, 6, 7, 9, 8, 6, 8>>
months == <<"January", "February", "March", "April", "May", "June", "July", "August", "September", "October",
            "November", "December">>
monthlen == <<7, 8, 5, 5, 3, 4, 4, 6, 9, 7, 8, 8>>
SUN == 0
MON == 1
THU == 4
Numeral == <<"0", "1", "2", "3", "4", "5", "6", "7", "8", "9">>

\* Days from New Year to the first such day of the week.
first(day, year) == LET ny == _newyear(year) IN IF day - ny < 0 THEN 7 - (ny - day) ELSE day - ny

weeknum(tm, day) ==
  With(first(day, tm.year), LAMBDA f :
  IF tm.yday < f THEN 0 ELSE (tm.yday - f) \div 7 + 1)

isoyear(tm) ==
  LET here == first(THU, tm.year) - 3  next == first(THU, tm.year + 1) - 3 IN
  IF tm.yday < 7 THEN (IF tm.yday < here THEN tm.year - 1 ELSE tm.year)
  ELSE IF tm.yday > 357 /\ tm.mday >= 31 + next THEN tm.year + 1 ELSE tm.year

\* The year that is asked for its days is the one counted from 1900.
isoweek(tm) ==
  With(isoyear(tm), LAMBDA year :
  With(first(THU, year) - 3, LAMBDA monday :
  LET yday == IF year > tm.year THEN tm.mday - 31 + monday
              ELSE IF year < tm.year THEN _daysyear(year) + tm.yday ELSE tm.yday
  IN With(yday - monday, LAMBDA v :
  (IF v < 0 THEN -((-v) \div 7) ELSE v \div 7) + 1)))

isoday(tm) == IF tm.wday = 0 THEN 7 ELSE tm.wday

\* sval() and dval(): a name, or the last digits of a number, in siz cells.
Least(a, b) == IF a < b THEN a ELSE b
sval(siz, name, len) == [i \in 1 .. Least(len, siz) |-> name]
Fills(siz, width, fill, val) ==
  LET n == Least(width, siz) IN
  [i \in 1 .. n |-> IF i < n /\ val < 10 ^ (n - i) THEN fill ELSE Numeral[((val \div 10 ^ (n - i)) % 10) + 1]]
dval(siz, width, fill, val) == IF val < 0 /\ siz > 0 THEN <<"?">> ELSE Fills(siz, width, fill, val)

\* %z: the minutes are written two cells after the hours instead of next to
\* them, and the count does not say so.
timezone(siz, off) ==
  LET abs == IF off >= 0 THEN off ELSE -off
  IN With(dval(siz - 1, 2, "0", abs \div 3600), LAMBDA h :
  With(1 + Len(h), LAMBDA n :
  With(dval(siz - n, 2, "0", (abs % 3600) \div 60), LAMBDA m :
  [out |-> SubSeq(<<IF off >= 0 THEN "+" ELSE "-">> \o h \o <<"stale">> \o m, 1, n + Len(m)),
   reach |-> IF m = <<>> THEN n ELSE n + 1 + Len(m)])))

Composite(c) ==
  CASE c = "%c" -> <<"%a", " ", "%b", " ", "%e", " ", "%T", " ", "%Y">>
    [] c \in {"%D", "%x"} -> <<"%m", "/", "%d", "/", "%y">>
    [] c = "%F" -> <<"%Y", "-", "%m", "-", "%d">>
    [] c = "%r" -> <<"%I", ":", "%M", ":", "%S", " ", "%p">>
    [] c = "%R" -> <<"%H", ":", "%M">>
    [] c \in {"%T", "%X"} -> <<"%H", ":", "%M", ":", "%S">>
    [] OTHER -> <<>>

\* <<width, fill, value>> of a conversion that is a number.
Value(c, tm) ==
  CASE c = "%C" -> <<2, "0", (tm.year + 1900) \div 100>> [] c = "%d" -> <<2, "0", tm.mday>>
    [] c = "%e" -> <<2, " ", tm.mday>> [] c = "%g" -> <<2, "0", isoyear(tm)>>
    [] c = "%G" -> <<4, "0", isoyear(tm) + 1900>> [] c = "%H" -> <<2, "0", tm.hour>>
    [] c = "%I" -> <<2, "0", IF tm.hour = 0 THEN 12 ELSE IF tm.hour > 12 THEN tm.hour - 12 ELSE tm.hour>>
    [] c = "%j" -> <<3, "0", tm.yday + 1>> [] c = "%m" -> <<2, "0", tm.mon + 1>>
    [] c = "%M" -> <<2, "0", tm.min>> [] c = "%S" -> <<2, "0", tm.sec>>
    [] c = "%u" -> <<1, "0", isoday(tm)>> [] c = "%U" -> <<2, "0", weeknum(tm, SUN)>>
    [] c = "%V" -> <<2, "0", isoweek(tm)>> [] c = "%w" -> <<1, "0", tm.wday>>
    [] c = "%W" -> <<2, "0", weeknum(tm, MON)>> [] c = "%y" -> <<2, "0", tm.year % 100>>
    [] c = "%Y" -> <<4, "0", 1900 + tm.year>>
    [] OTHER -> <<>>

\* One item of a format in n cells that is no composite.
Simple(c, n, tm) ==
  With(Value(c, tm), LAMBDA v :
  CASE v # <<>> -> dval(n, v[1], v[2], v[3])
    [] c = "%a" -> sval(n, days[tm.wday + 1], 3) [] c = "%A" -> sval(n, days[tm.wday + 1], daylen[tm.wday + 1])
    [] c \in {"%b", "%h"} -> sval(n, months[tm.mon + 1], 3) [] c = "%B" -> sval(n, months[tm.mon + 1], monthlen[tm.mon + 1])
    [] c = "%p" -> sval(n, IF tm.hour > 12 THEN "PM" ELSE "AM", 2)
    [] OTHER -> <<c>>)

\* The loop of strftime(): out is up to the pointer s, reach is how far the
\* buffer has been written; [ret, out, reach] at the end.  A composite is
\* given one cell more than there is.
RECURSIVE Loop(_, _, _, _, _, _)
Loop(fmt, i, max, out, reach, tm) ==
  LET n == max - Len(out)  c == fmt[i] IN
  IF i > Len(fmt) \/ n = 0
  THEN IF n = 0 THEN [ret |-> 0, out |-> out, reach |-> reach]
       ELSE [ret |-> Len(out), out |-> out, reach |-> IF reach > Len(out) THEN reach ELSE Len(out) + 1]
  ELSE LET comp == Composite(c)
       IN With(Loop(comp, 1, n + 1, <<>>, 0, tm), LAMBDA sub :
       With(timezone(n, tm.gmtoff), LAMBDA zone :
       With(IF comp # <<>> THEN SubSeq(sub.out, 1, sub.ret) ELSE IF c = "%z" THEN zone.out ELSE Simple(c, n, tm), LAMBDA text :
       With(Len(out) + (IF comp # <<>> THEN sub.reach ELSE IF c = "%z" THEN zone.reach ELSE Len(text)), LAMBDA to :
       Loop(fmt, i + 1, max, out \o text, IF to > reach THEN to ELSE reach, tm)))))
strftime(max, fmt, tm) == Loop(fmt, 1, max, <<>>, 0, tm)

-----------------------------------------------------------------------------
(* The program. *)

VARIABLES
  mem,      \* the memory
  line,     \* strtok()'s pointer
  tokens,   \* the strings strtok() has returned
  ps,       \* the mbstate_t of mbrtowc()
  bytes,    \* the UTF-8 that has arrived
  chars,    \* the wide characters that came out
  last      \* the last call: its name, operands, the memory before, the result

libcvars == <<mem, line, tokens, ps, bytes, chars, last>>

None == [f |-> "none"]
Init ==
  /\ mem \in Memories \cup {t[1] : t \in Tokenized}
  /\ line = NULL
  /\ tokens = <<>>
  /\ ps = Initial
  /\ bytes = <<>>
  /\ chars = <<>>
  /\ last = None

Call(f, d, s, c, n) == [f |-> f, d |-> d, s |-> s, c |-> c, n |-> n]
Addresses == DOMAIN mem
Counts == 0 .. 4
Values == {-56, 0, 1, 200}

Two == {"strcpy", "strcat", "strcmp", "strcoll", "strspn", "strcspn", "strpbrk", "strstr"}
Three == {"memcpy", "memmove", "memcmp", "strncpy", "strncat", "strncmp", "strxfrm"}
StringCalls ==
  {Call(f, d, s, 0, 0) : f \in Two, d \in Addresses, s \in Addresses}
  \cup {Call(f, d, s, 0, n) : f \in Three, d \in Addresses, s \in Addresses, n \in Counts}
  \cup {Call(f, 0, s, c, n) : f \in {"memset", "memchr"}, s \in Addresses, c \in Values, n \in Counts}
  \cup {Call(f, 0, s, c, 0) : f \in {"strchr", "strrchr"}, s \in Addresses, c \in Values}
  \cup {Call("strlen", 0, s, 0, 0) : s \in Addresses}

\* What a call may be given: no object ends inside it, and restrict pointers
\* do not overlap.
Room(a, n) == n = 0 \/ a + n - 1 \in Addresses
Apart(a, n, b, k) == a + n <= b \/ b + k <= a
Ending(a) == \E i \in Addresses : i >= a /\ mem[i] = 0
Size(a) == strlen(mem, a) + 1
Lesser(a, b) == IF a < b THEN a ELSE b
Legal(k) ==
  CASE k.f = "memcpy" -> Room(k.d, k.n) /\ Room(k.s, k.n) /\ Apart(k.d, k.n, k.s, k.n)
    [] k.f \in {"memmove", "memcmp"} -> Room(k.d, k.n) /\ Room(k.s, k.n)
    [] k.f \in {"memset", "memchr"} -> Room(k.s, k.n)
    [] k.f \in {"strlen", "strchr", "strrchr"} -> Ending(k.s)
    [] ~Ending(k.s) -> FALSE
    [] k.f = "strcpy" -> Room(k.d, Size(k.s)) /\ Apart(k.d, Size(k.s), k.s, Size(k.s))
    [] k.f = "strncpy" -> Room(k.d, k.n) /\ Apart(k.d, k.n, k.s, Lesser(k.n, Size(k.s)))
    [] k.f = "strxfrm" -> Room(k.d, k.n) /\ Apart(k.d, k.n, k.s, Size(k.s))
    [] ~Ending(k.d) -> FALSE
    [] k.f = "strcat" ->
         LET n == Size(k.d) + Size(k.s) - 1 IN Room(k.d, n) /\ Apart(k.d, n, k.s, Size(k.s))
    [] k.f = "strncat" ->
         LET n == Size(k.d) + Lesser(k.n, Size(k.s) - 1) IN Room(k.d, n) /\ Apart(k.d, n, k.s, Lesser(k.n, Size(k.s)))
    [] OTHER -> TRUE

Writes(k, m) ==
  CASE k.f = "memcpy" -> memcpy(m, k.d, k.s, k.n) [] k.f = "memmove" -> memmove(m, k.d, k.s, k.n)
    [] k.f = "memset" -> memset(m, k.s, k.c, k.n) [] k.f = "strcpy" -> strcpy(m, k.d, k.s)
    [] k.f = "strcat" -> strcat(m, k.d, k.s) [] k.f = "strncat" -> strncat(m, k.d, k.s, k.n)
    [] k.f = "strncpy" -> strncpy(m, k.d, k.s, k.n) [] k.f = "strxfrm" -> strxfrm(m, k.d, k.s, k.n)
    [] OTHER -> m
Returns(k, m) ==
  CASE k.f = "memchr" -> memchr(m, k.s, k.c, k.n) [] k.f = "memcmp" -> memcmp(m, k.d, k.s, k.n)
    [] k.f = "strlen" -> strlen(m, k.s) [] k.f = "strchr" -> strchr(m, k.s, k.c)
    [] k.f = "strrchr" -> strrchr(m, k.s, k.c) [] k.f = "strcmp" -> strcmp(m, k.d, k.s)
    [] k.f = "strcoll" -> strcoll(m, k.d, k.s) [] k.f = "strncmp" -> strncmp(m, k.d, k.s, k.n)
    [] k.f = "strspn" -> strspn(m, k.d, k.s) [] k.f = "strcspn" -> strcspn(m, k.d, k.s)
    [] k.f = "strpbrk" -> strpbrk(m, k.d, k.s) [] k.f = "strstr" -> strstr(m, k.d, k.s)
    [] k.f = "strxfrm" -> strlen(m, k.s) [] k.f = "memset" -> k.s [] OTHER -> k.d

Fresh == last = None /\ tokens = <<>> /\ bytes = <<>>

StringCall ==
  /\ Fresh
  /\ mem \in Memories
  /\ \E k \in StringCalls :
       /\ Legal(k)
       /\ mem' = Writes(k, mem)
       /\ last' = [f |-> k.f, k |-> k, before |-> mem, ret |-> Returns(k, mem)]
  /\ UNCHANGED <<line, tokens, ps, bytes, chars>>

\* strtok() on one string, then on NULL until it returns NULL.
TokenCall ==
  /\ last.f \in {"none", "strtok"} /\ bytes = <<>>
  /\ \E t \in Tokenized :
       /\ IF last.f = "none" THEN mem = t[1] ELSE last.t = t /\ last.ret # NULL
       /\ \E r \in {strtok(mem, line, IF last.f = "none" THEN t[2] ELSE NULL, t[3])} :
          /\ mem' = r.m
          /\ line' = r.line
          /\ tokens' = IF r.ret = NULL THEN tokens
                       ELSE Append(tokens, [i \in 1 .. strlen(r.m, r.ret) |-> r.m[r.ret + i - 1]])
          /\ last' = [f |-> "strtok", t |-> t, ret |-> r.ret]
  /\ UNCHANGED <<ps, bytes, chars>>

One == CHOOSE m \in Memories : TRUE
NumberCall ==
  /\ Fresh
  /\ mem = One
  /\ \E str \in Numerals : \E base \in Bases :
       last' \in {[f |-> "strtol", str |-> str, base |-> base, ret |-> strtol(str, base)],
                  [f |-> "strtoul", str |-> str, base |-> base, ret |-> strtoul(str, base)],
                  [f |-> "strtoll", str |-> str, base |-> base, ret |-> strtoll(str, base)],
                  [f |-> "strtoull", str |-> str, base |-> base, ret |-> strtoull(str, base)],
                  [f |-> "strtoimax", str |-> str, base |-> base, ret |-> strtoimax(str, base)],
                  [f |-> "strtoumax", str |-> str, base |-> base, ret |-> strtoumax(str, base)],
                  [f |-> "atoi", str |-> str, base |-> 10, ret |-> atoi(str)],
                  [f |-> "atol", str |-> str, base |-> 10, ret |-> atol(str)],
                  [f |-> "atoll", str |-> str, base |-> 10, ret |-> atoll(str)]}
  /\ UNCHANGED <<mem, line, tokens, ps, bytes, chars>>

DivCall ==
  /\ Fresh
  /\ mem = One
  /\ \E a \in -9 .. 9 : \E b \in (-4 .. 4) \ {0} : last' = [f |-> "div", a |-> a, b |-> b, ret |-> div(a, b)]
  /\ UNCHANGED <<mem, line, tokens, ps, bytes, chars>>

SearchCall ==
  /\ Fresh
  /\ mem = One
  /\ \E a \in Arrays : \E key \in 0 .. 6 : last' = [f |-> "bsearch", a |-> a, key |-> key, ret |-> bsearch(key, a)]
  /\ UNCHANGED <<mem, line, tokens, ps, bytes, chars>>

\* mbrtowc() on a piece until it is used up or there is an error.
RECURSIVE Decode(_, _, _)
Decode(s, p, out) ==
  With(mbrtowc(s, p), LAMBDA r :
  IF p = <<>> \/ r.ret = -2 THEN [ps |-> r.ps, out |-> out, ok |-> TRUE]
  ELSE IF r.ret = -1 THEN [ps |-> r.ps, out |-> out, ok |-> FALSE]
  ELSE Decode(r.ps, SubSeq(p, (IF r.ret = 0 THEN 1 ELSE r.ret) + 1, Len(p)), Append(out, r.wc)))

Feed ==
  /\ last.f \in {"none", "fed"} /\ tokens = <<>>
  /\ mem = One
  /\ \E p \in Pieces :
       /\ Len(bytes) + Len(p) <= MaxBytes
       /\ \E r \in {Decode(ps, p, chars)} :
          /\ ps' = r.ps
          /\ chars' = r.out
          /\ last' = [f |-> IF r.ok THEN "fed" ELSE "illegal"]
       /\ bytes' = bytes \o p
  /\ UNCHANGED <<mem, line, tokens>>

WideCall ==
  /\ Fresh
  /\ mem = One
  /\ \E src \in WideStrings : \E len \in 0 .. 9 :
       last' = [f |-> "wcsrtombs", src |-> src, len |-> len, ret |-> wcsrtombs(src, len),
                back |-> With(wcsrtombs(src, 99), LAMBDA all :
                         IF all.ret = -1 THEN <<>> ELSE <<mbsrtowcs(all.dest, len)>>),
                begin |-> mbtowc(SubSeq(wcsrtombs(src, 99).dest, 1, IF len < Len(wcrtomb(src[1])) THEN len ELSE Len(wcrtomb(src[1]))))]
  /\ UNCHANGED <<mem, line, tokens, ps, bytes, chars>>

TimeCall ==
  /\ Fresh
  /\ mem = One
  /\ \/ \E t \in Times : last' = [f |-> "gmtime", t |-> t, ret |-> gmtime(t), back |-> mktime(gmtime(t))]
     \/ \E t \in Times : \E f \in TimeFormats :
          last' = [f |-> "strftime", t |-> t, fmt |-> f[1], max |-> f[2], ret |-> strftime(f[2], f[1], gmtime(t))]
     \/ \E tm \in Calendars : last' = [f |-> "mktime", tm |-> tm, ret |-> mktime(tm), norm |-> normalize(tm)]
  /\ UNCHANGED <<mem, line, tokens, ps, bytes, chars>>

PrintCall ==
  /\ Fresh
  /\ mem = One
  /\ \E p \in Prints : last' = [f |-> "vsnprintf", p |-> p, ret |-> vsnprintf(p.siz, p.fmt, p.args)]
  /\ UNCHANGED <<mem, line, tokens, ps, bytes, chars>>

Over == last # None /\ UNCHANGED libcvars

Next == StringCall \/ TokenCall \/ NumberCall \/ DivCall \/ SearchCall \/ Feed \/ WideCall \/ TimeCall \/ PrintCall \/ Over

Spec == Init /\ [][Next]_libcvars
=============================================================================
