------------------------------- MODULE MCLibc -------------------------------
(***************************************************************************)
(* Five cells of memory, strings of four characters, years around leap     *)
(* days; streams with buffers of two characters.  A program makes one of   *)
(* Libc's calls, or works with streams.                                    *)
(***************************************************************************)
EXTENDS LibcC, Stdio, TLC

MCMemories == {[i \in 0 .. 4 |-> IF i = 4 THEN 0 ELSE f[i]] : f \in [0 .. 3 -> {0, 1, 200}]}
MCTokenized ==
  {<<[i \in 0 .. 8 |-> IF i < 5 THEN f[i] ELSE IF i = 5 THEN 0 ELSE IF i = 6 THEN 1 ELSE IF i = 7 THEN x ELSE 0], 0, 6>> :
     f \in [0 .. 4 -> 0 .. 3], x \in {0, 2}}
Characters == {" ", "-", "0", "1", "7", "9", "a", "x"}
MCNumerals == UNION {[1 .. n -> Characters] : n \in 0 .. 4}
MCDigitOf == [c \in {"0", "1", "7", "9", "a", "x"} |->
  CASE c = "0" -> 0 [] c = "1" -> 1 [] c = "7" -> 7 [] c = "9" -> 9 [] c = "a" -> 10 [] OTHER -> 33]
MCArrays == {a \in UNION {[1 .. n -> 1 .. 5] : n \in 0 .. 4} : \A i \in 1 .. Len(a) - 1 : a[i] <= a[i + 1]}

Octets == {0, 65, 128, 159, 160, 189, 191, 192, 194, 223, 224, 237, 240, 244, 248, 255}
MCPieces == {<<b>> : b \in Octets} \cup {<<226, 130>>, <<240, 159, 146>>, <<195, 169, 65>>, <<237, 180, 128>>, <<244, 143, 191, 191>>}
Wide == {65, 233, 8364, 55295, 57344, 65535, 65536, 1114111}
MCWideStrings == {<<0>>} \cup {<<c, 0>> : c \in Wide} \cup {<<c, d, 0>> : c \in Wide, d \in Wide} \cup {<<55296, 0>>, <<1114112, 0>>}

MCTimes == {d * 86400 + s : d \in 0 .. 1500, s \in {0, 46799}} \cup {d * 86400 : d \in 10900 .. 11400}
Cal(s, mi, h, d, mo, y) == [sec |-> s, min |-> mi, hour |-> h, mday |-> d, mon |-> mo, year |-> y, wday |-> 0, yday |-> 0]
MCCalendars ==
  {Cal(0, 0, 0, d, mo, y) : d \in {-400, -31, -1, 0, 1, 28, 29, 30, 31, 60, 366, 800}, mo \in {-13, -1, 0, 1, 2, 11, 12, 25},
                            y \in {69, 70, 71, 72, 99, 100, 101, 120}}
  \cup {Cal(s, mi, h, 1, 0, 72) : s \in {-61, -60, -1, 0, 59, 60, 3600}, mi \in {-60, 0, 59, 61}, h \in {-25, 0, 23, 24, 49}}

One4(c) == {<<<<c>>, n>> : n \in {1, 3, 10}}
MCTimeFormats ==
  UNION {One4(c) : c \in {"%a", "%b", "%d", "%e", "%g", "%G", "%I", "%j", "%U", "%V", "%W", "%p", "%u", "%z"}}
  \cup {<<<<"%c", "n">>, n>> : n \in {24, 25, 26}} \cup {<<<<"x", "%T", "x">>, n>> : n \in {8, 9, 10, 11, 12}}
  \cup {<<<<"%A", "%B">>, 30>>, <<<<"%F">>, 11>>, <<<<"%r">>, 12>>, <<<<"%D", "%y", "%C">>, 16>>}

Conv(c, sign, alt, zero, left, star, width, prec, len) ==
  [conv |-> c, sign |-> sign, alt |-> alt, zero |-> zero, left |-> left, star |-> star, width |-> width, prec |-> prec, len |-> len]
Plain(c) == Conv(c, "", FALSE, FALSE, FALSE, FALSE, 0, -1, "")
MCPrint(fmt, args, siz) == [fmt |-> fmt, args |-> args, siz |-> siz]
MCPrints ==
  {MCPrint(<<Conv(c, sign, alt, zero, left, star, width, prec, len)>>, <<arg>>, 12) :
     c \in {"d", "u", "o", "x"}, sign \in {"", " ", "+"}, alt \in BOOLEAN, zero \in BOOLEAN, left \in BOOLEAN, star \in BOOLEAN,
     width \in {0, 3, 6}, prec \in {-1, 0, 2, 5, 7}, len \in {"", "h"}, arg \in {-8, 0, 9, 70}}
  \cup {MCPrint(<<Plain("d"), x, [ch |-> "c"], Plain("n"), Plain("d")>>, <<5, <<"a", "b">>, 0, 0, 17>>, siz) :
          x \in {Conv("s", "", FALSE, FALSE, l, FALSE, w, p, "") : l \in BOOLEAN, w \in {0, 1, 4}, p \in {-1, 0, 1, 3}} \cup {Plain("%")},
          siz \in 0 .. 9}
  \cup {MCPrint(<<Conv("d", "", FALSE, FALSE, FALSE, FALSE, 0, -1, len)>>, <<arg>>, 12) : len \in {"hh", "h", "l", "ll", "z", "j"}, arg \in -40 .. 40}

MCContents == {<<>>, <<97, 10, 98>>}
MCTexts == {<<97, 10>>}
MCMoves == {<<0, "SET">>, <<-1, "CUR">>, <<0, "CUR">>, <<-1, "END">>}

MCInit == Init /\ StdioInit /\ (mem # One => disk[FOPEN_MAX] = <<>>)
MCNext ==
  \/ ops = 0 /\ phase = "run" /\ disk[FOPEN_MAX] = <<>> /\ Next /\ UNCHANGED stdiovars
  \/ mem = One /\ Fresh /\ StdioNext /\ UNCHANGED libcvars
MCSpec == MCInit /\ [][MCNext]_<<libcvars, stdiovars>>
=============================================================================
