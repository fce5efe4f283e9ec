------------------------------- MODULE Stdio -------------------------------
(***************************************************************************)
(* Streams, from libc/stdio: a program opens files, reads and writes them   *)
(* through buffers in the order C allows, and ends with exit().  Reads and  *)
(* writes of the system may do less than asked, or fail.                    *)
(*                                                                          *)
(* Pointers are offsets in the buffer.  A character is one of Letters,       *)
(* NL being the end of a line.                                              *)
(***************************************************************************)
EXTENDS Integers, Sequences, SequencesExt, FiniteSets

CONSTANTS
  FOPEN_MAX,    \* entries of __iob; the first is stdout
  BUFSIZ,       \* size of a buffer
  Letters, NL,  \* the characters, and the end of line among them
  Texts,        \* what fputs() and the like write
  Contents,     \* contents of the files at the start
  Modes,        \* the modes files are opened in
  Moves,        \* <<offset, whence>> of fseek()
  MaxOps,       \* bound: calls the program makes
  MaxFaults,    \* bound: reads and writes that fail
  MaxLen        \* bound: size of a file

ASSUME BuffersAssumption == FOPEN_MAX \in Nat \ {0} /\ BUFSIZ \in Nat \ {0}
ASSUME TextsAssumption   == Letters \subseteq Nat /\ NL \in Letters /\ Texts \subseteq Seq(Letters) /\ Contents \subseteq Seq(Nat)
ASSUME CallsAssumption   == /\ Modes \subseteq {"r", "w", "a", "r+", "w+", "a+"}
                            /\ \A move \in Moves : move[1] \in Int /\ move[2] \in {"SET", "CUR", "END"}

EOF == -1
Streams == 1 .. FOPEN_MAX
stdout == 1

VARIABLES
  disk,      \* stream -> the characters of its file
  iob,       \* __iob: stream -> FILE
  faults,    \* system calls that have failed
  ops,       \* calls the program has made
  hooks,     \* the functions given to atexit(): characters they write
  phase,     \* "run", "exit" (functions of atexit()), "flush", "over"
  turn,      \* the stream fflush(NULL) comes to next, in "flush"
  flushall,  \* _flushall is set
  want,      \* stream -> the characters its file has once all is written
  at,        \* stream -> the position of the stream, as C has it
  doing,     \* stream -> "new", "any", "read" or "write": what C lets it do next
  synced,    \* the streams that were told all is written
  told,      \* the streams that were told of an error
  astray,    \* the streams that were moved with pointers left in the buffer
  wrong      \* the calls that gave something else than C says

stdiovars == <<disk, iob, faults, ops, hooks, phase, turn, flushall, want, at, doing, synced, told, astray, wrong>>

Free == [flags |-> {}, buf |-> <<>>, len |-> 0, rp |-> 0, wp |-> 0, lp |-> 0, pos |-> 0, mode |-> ""]

StdioInit ==
  /\ disk \in [Streams -> Contents]
  /\ disk[stdout] = <<>>
  /\ iob = [s \in Streams |-> IF s = stdout THEN [Free EXCEPT !.flags = {"WRITE", "LBF"}, !.mode = "w"] ELSE Free]
  /\ faults = 0 /\ ops = 0 /\ hooks = <<>> /\ phase = "run" /\ turn = 1 /\ flushall = FALSE
  /\ want = disk
  /\ at = [s \in Streams |-> 0]
  /\ doing = [s \in Streams |-> "new"]
  /\ synced = {} /\ told = {} /\ astray = {} /\ wrong = {}

Has(fp, f) == f \in fp.flags
Flagged(fp, F) == [fp EXCEPT !.flags = @ \cup F]
Unflagged(fp, F) == [fp EXCEPT !.flags = @ \ F]
Open(fp) == fp.flags \cap {"READ", "WRITE", "RW"} # {}

-----------------------------------------------------------------------------
(* The system: a file as a sequence, with an offset in the stream.          *)

\* Writing nothing leaves the file alone, wherever the offset is.
Overlay(file, pos, s) ==
  IF s = <<>> THEN file
  ELSE [i \in 1 .. (IF pos + Len(s) > Len(file) THEN pos + Len(s) ELSE Len(file)) |->
          IF i > pos /\ i <= pos + Len(s) THEN s[i - pos] ELSE IF i <= Len(file) THEN file[i] ELSE 0]
OffsetOf(fp, file) == IF fp.mode \in {"a", "a+"} THEN Len(file) ELSE fp.pos

\* A step of one stream: [fp, file, fail] with its FILE, its file and how many
\* system calls have failed so far.
Step(fp, file, fail) == [fp |-> fp, file |-> file, fail |-> fail]
On(st, fp) == [st EXCEPT !.fp = fp]

\* A cell of the buffer, or of what is after it in memory.
Cell(fp, i) == IF i <= fp.len THEN fp.buf[i] ELSE 0

\* _write() of the first n characters of the buffer: all, or a part of them
\* (-1 is what it returns for none).
_write(st, n) ==
  LET s == [i \in 1 .. n |-> Cell(st.fp, i)]
      pos == OffsetOf(st.fp, st.file)
      to(k, fail) == Step([st.fp EXCEPT !.pos = pos + k], Overlay(st.file, pos, SubSeq(s, 1, k)), fail)
  IN {[st |-> to(n, st.fail), all |-> TRUE]}
     \cup IF st.fail < MaxFaults THEN {[st |-> to(k, st.fail + 1), all |-> FALSE] : k \in 0 .. n - 1} ELSE {}

-----------------------------------------------------------------------------
(* The functions of libc, each the set of what it may do: [st, ret].        *)

Ret(st, ret) == [st |-> st, ret |-> ret]

\* Mutant of _flsbuf: a write that fails sets no error.
_flsbufQuiet(st) ==
  IF Has(st.fp, "READ") \/ st.fp.wp = 0 THEN {Ret(st, 0)}
  ELSE {Ret(On(w.st, [w.st.fp EXCEPT !.wp = 0]), 0) : w \in _write(st, st.fp.wp)}
_flsbuf(st) ==
  IF Has(st.fp, "READ") \/ st.fp.wp = 0 THEN {Ret(st, 0)}
  ELSE {IF w.all THEN Ret(On(w.st, [w.st.fp EXCEPT !.wp = 0]), 0) ELSE Ret(On(w.st, Flagged(w.st.fp, {"ERR"})), EOF) :
          w \in _write(st, st.fp.wp)}

\* fp with a buffer of n characters, empty.
Placed(fp, buf, n) ==
  [flags |-> fp.flags, buf |-> buf, len |-> n, rp |-> 0, wp |-> 0, lp |-> n, pos |-> fp.pos, mode |-> fp.mode]
Blank(n) == [i \in 1 .. n |-> NL]

\* malloc() does not fail here.
_allocbuf(fp) == Placed(fp, Blank(BUFSIZ), BUFSIZ)
Buffered(fp) == IF fp.buf = <<>> THEN _allocbuf(fp) ELSE fp

\* *fp->wp++ = ch.  Past the end of the buffer it is remembered as "PAST".
Store(fp, ch) ==
  LET moved == [fp EXCEPT !.wp = @ + 1]
  IN IF fp.wp < fp.len THEN [moved EXCEPT !.buf = [fp.buf EXCEPT ![fp.wp + 1] = ch]] ELSE Flagged(moved, {"PAST"})
Stored(st, ch) == On(st, Store(st.fp, ch))
Wrote(st, ch) == Ret(On(st, Flagged(st.fp, {"WRITE"})), ch)

\* The three ways of buffering.  A full buffer of lines is flushed first, and so is
\* any other: putc() stores into the rest of it, up to rp.
PutLine(ch, st) ==
  UNION {IF a.ret = EOF THEN {a}
         ELSE IF ch # NL THEN {Wrote(Stored(a.st, ch), ch)}
         ELSE {IF b.ret = EOF THEN b ELSE Wrote(b.st, ch) : b \in _flsbuf(Stored(a.st, ch))} :
         a \in IF st.fp.wp = st.fp.lp THEN _flsbuf(st) ELSE {Ret(st, 0)}}
PutFull(ch, st) ==
  {IF a.ret = EOF THEN a
   ELSE LET b == Stored(a.st, ch) IN Wrote(On(b, [b.fp EXCEPT !.rp = b.fp.len]), ch) : a \in _flsbuf(st)}
PutNow(ch, st) == {IF a.ret = EOF THEN a ELSE Wrote(a.st, ch) : a \in _flsbuf(Stored(st, ch))}

__putc(ch, st0) ==
  LET st == On(st0, Buffered(st0.fp)) IN
  IF Has(st0.fp, "ERR") THEN {Ret(st0, EOF)}
  ELSE IF Has(st0.fp, "READ") THEN {Ret(On(st0, Flagged(st0.fp, {"ERR"})), EOF)}
  ELSE IF Has(st.fp, "LBF") THEN PutLine(ch, st)
  ELSE IF Has(st.fp, "FBF") THEN PutFull(ch, st)
  ELSE PutNow(ch, st)
putc(ch, st) == IF st.fp.wp >= st.fp.rp THEN __putc(ch, st) ELSE {Ret(Stored(st, ch), ch)}

\* _read() may give less than the buffer takes.
Filled(fp, file, n) ==
  [flags |-> fp.flags \cup {"READ"}, buf |-> [i \in 1 .. fp.len |-> IF i <= n THEN file[fp.pos + i] ELSE fp.buf[i]], len |-> fp.len,
   rp |-> 1, wp |-> n, lp |-> fp.lp, pos |-> fp.pos + n, mode |-> fp.mode]
__getc(st0) ==
  LET st == On(st0, Buffered(st0.fp))
      left == Len(st.file) - st.fp.pos
      most == IF left < st.fp.len THEN left ELSE st.fp.len
      erring == On(st, Flagged(st.fp, {"ERR"}))
  IN IF st0.fp.flags \cap {"EOF", "ERR"} # {} THEN {Ret(st0, EOF)}
     ELSE IF st0.fp.flags \cap {"READ", "RW"} = {} THEN {Ret(On(st0, Flagged(st0.fp, {"ERR"})), EOF)}
     ELSE (IF most <= 0 THEN {Ret(On(st, Flagged(st.fp, {"EOF"})), EOF)}
           ELSE {Ret(On(st, Filled(st.fp, st.file, n)), st.file[st.fp.pos + 1]) : n \in 1 .. most})
          \cup IF st.fail < MaxFaults THEN {Ret([erring EXCEPT !.fail = @ + 1], EOF)} ELSE {}
getc(st) ==
  IF st.fp.rp >= st.fp.wp THEN __getc(st) ELSE {Ret(On(st, [st.fp EXCEPT !.rp = @ + 1]), Cell(st.fp, st.fp.rp + 1))}

\* ungetc() refuses every stream that has something in its buffer.
ungetc(c, st) ==
  LET back == [st.fp EXCEPT !.rp = @ - 1]
  IN IF Has(st.fp, "WRITE") \/ st.fp.rp = 0 \/ st.fp.wp # 0 THEN Ret(st, EOF)
     ELSE Ret(On(st, Unflagged([back EXCEPT !.buf = [st.fp.buf EXCEPT ![st.fp.rp] = c]], {"EOF"})), c)

\* The system calls of seeking do not fail here but for an offset below 0.
Offset(st, off, whence) ==
  (IF whence = "CUR" /\ Has(st.fp, "READ") THEN off - (st.fp.wp - st.fp.rp) ELSE off)
  + (IF whence = "SET" THEN 0 ELSE IF whence = "CUR" THEN st.fp.pos ELSE Len(st.file))
Seeked(st, pos) ==
  IF pos < 0 THEN Ret(st, EOF)
  ELSE Ret(On(st, Unflagged([st.fp EXCEPT !.pos = pos], {"EOF"} \cup IF Has(st.fp, "RW") THEN {"READ", "WRITE"} ELSE {})), 0)
fseek(st, off, whence) ==
  IF Has(st.fp, "ERR") THEN {Ret(st, EOF)}
  ELSE IF Has(st.fp, "WRITE") THEN {IF a.ret = EOF THEN a ELSE Seeked(a.st, Offset(a.st, off, whence)) : a \in _flsbuf(st)}
  ELSE {Seeked(st, Offset(st, off, whence))}
clearerr(fp) == Unflagged(fp, {"ERR", "EOF"})
rewind(st) == {Ret(On(a.st, clearerr(a.st.fp)), a.ret) : a \in fseek(On(st, Unflagged(st.fp, {"ERR"})), 0, "SET")}

\* ftell() of a line buffered stream counts the whole buffer.
ftellRaw(fp) == IF Has(fp, "ERR") THEN EOF ELSE IF Has(fp, "WRITE") THEN fp.pos + fp.wp ELSE fp.pos
ftell(fp) ==
  IF Has(fp, "ERR") THEN EOF
  ELSE IF Has(fp, "READ") THEN fp.pos - (fp.wp - fp.rp)
  ELSE IF Has(fp, "WRITE") THEN fp.pos + (IF Has(fp, "LBF") THEN fp.lp ELSE fp.wp)
  ELSE fp.pos

\* setvbuf() without a buffer keeps the one there is; with one, it has size.
setvbuf(st, mode, size) ==
  {IF a.ret = EOF THEN a
   ELSE LET n == IF mode = "NBF" THEN 1 ELSE IF size > 0 THEN size ELSE a.st.fp.len
            buf == IF mode # "NBF" /\ size = 0 THEN a.st.fp.buf ELSE Blank(n)
        IN Ret(On(a.st, Flagged(Unflagged(Placed(a.st.fp, buf, n), {"NBF", "LBF", "FBF"}), {mode})), 0) :
   a \in _flsbuf(st)}

\* _fpopen(): the flags an earlier stream left in the entry stay, and so does len.
_fpopen(fp, file, mode) ==
  LET access == IF mode = "r" THEN "READ" ELSE IF mode \in {"w", "a"} THEN "WRITE" ELSE "RW" IN
  Step([flags |-> fp.flags \cup {access}, buf |-> <<>>, len |-> fp.len, rp |-> 0, wp |-> 0, lp |-> 0, pos |-> 0, mode |-> mode],
       IF mode \in {"w", "w+"} THEN <<>> ELSE file, 0)

\* fclose(): 0 only when all is written; the buffer stays with the entry.
fclose(st) ==
  {Ret(On(a.st, Unflagged(a.st.fp, {"WRITE", "READ", "RW", "ERR", "EOF", "PAST"})), a.ret) : a \in _flsbuf(st)}

\* The loops over characters.  putc() of all of text; ret is how many went well.
PutAll(text, st) ==
  LET put[k \in 0 .. Len(text)] ==
        IF k = 0 THEN {Ret(st, 0)}
        ELSE UNION {{Ret(a.st, IF a.ret = EOF \/ Has(a.st.fp, "ERR") THEN b.ret ELSE b.ret + 1) : a \in putc(text[k], b.st)} :
                    b \in put[k - 1]}
  IN put[Len(text)]

\* getc() n times or until it fails or gives a character of stop; text is what was
\* read, and ends says that it came to an end before.
Got(st, text, ends) == [st |-> st, text |-> text, ends |-> ends]
GetAll(n, stop, st) ==
  LET get[k \in 0 .. n] ==
        IF k = 0 THEN {Got(st, <<>>, FALSE)}
        ELSE UNION {IF b.ends THEN {b}
                    ELSE {IF a.ret = EOF THEN Got(a.st, b.text, TRUE) ELSE Got(a.st, Append(b.text, a.ret), a.ret \in stop) :
                            a \in getc(b.st)} :
                    b \in get[k - 1]}
  IN get[n]

\* fwrite() counts whole members of size characters, and stops at an error.
fwrite(text, size, st) ==
  LET put[k \in 0 .. Len(text) \div size] ==
        IF k = 0 THEN {Ret(st, 0)}
        ELSE UNION {IF b.ret < k - 1 THEN {b}
                    ELSE {Ret(a.st, IF Has(a.st.fp, "ERR") THEN b.ret ELSE k) :
                            a \in PutAll(SubSeq(text, (k - 1) * size + 1, k * size), b.st)} :
                    b \in put[k - 1]}
  IN IF size = 0 THEN {Ret(st, 0)} ELSE put[Len(text) \div size]
fputs(text, st) == PutAll(text, st)
puts(text, st) == PutAll(Append(text, NL), st)
fread(size, nmemb, st) ==
  IF size = 0 THEN {[st |-> st, ret |-> 0, text |-> <<>>]}
  ELSE {[st |-> a.st, ret |-> Len(a.text) \div size, text |-> a.text] : a \in GetAll(size * nmemb, {}, st)}
fgets(n, st) ==
  {[st |-> a.st, ret |-> IF a.ends /\ a.text = <<>> THEN EOF ELSE 0, text |-> a.text] : a \in GetAll(n - 1, {NL}, st)}

-----------------------------------------------------------------------------
(* The program.                                                             *)

Running == phase = "run" /\ ops < MaxOps
Now(s) == Step(iob[s], disk[s], faults)
Commit(s, st) ==
  /\ iob' = [iob EXCEPT ![s] = st.fp]
  /\ disk' = [disk EXCEPT ![s] = st.file]
  /\ faults' = st.fail
Same == <<hooks, phase, turn>>
Tell(s, failed) == told' = IF failed THEN told \cup {s} ELSE told
Blame(s, call, bad) == wrong' = IF bad /\ s \notin told' \cup astray THEN wrong \cup {call} ELSE wrong

Writable(s) == Open(iob[s]) /\ iob[s].mode # "r" /\ doing[s] # "read"
Readable(s) == Open(iob[s]) /\ iob[s].mode \in {"r", "r+", "w+", "a+"} /\ doing[s] # "write"
Adds(s, text) ==
  LET pos == IF iob[s].mode \in {"a", "a+"} THEN Len(want[s]) ELSE at[s] IN
  /\ want' = [want EXCEPT ![s] = Overlay(@, pos, text)]
  /\ at' = IF text = <<>> THEN at ELSE [at EXCEPT ![s] = pos + Len(text)]

\* The entry is the first that is free; file is as it is on the disk.
Entered(s, mode, file) ==
  /\ want' = [want EXCEPT ![s] = IF mode \in {"w", "w+"} THEN <<>> ELSE file]
  /\ at' = [at EXCEPT ![s] = 0]
  /\ doing' = [doing EXCEPT ![s] = "new"]
  /\ synced' = synced \ {s}

Fopen(mode) ==
  /\ Running
  /\ ops' = ops + 1
  /\ \E s \in Streams :
       /\ ~Open(iob[s])
       /\ \A r \in Streams : r < s => Open(iob[r])
       /\ LET st == _fpopen(iob[s], disk[s], mode) IN Commit(s, [st EXCEPT !.fail = faults])
       /\ Entered(s, mode, disk[s])
       /\ told' = told \ {s}
       /\ astray' = astray \ {s}
  /\ UNCHANGED <<Same, flushall, wrong>>

Setvbuf(s, mode, size) ==
  /\ Running
  /\ Open(iob[s]) /\ doing[s] = "new"
  /\ ops' = ops + 1
  /\ \E r \in setvbuf(Now(s), mode, size) :
       /\ Commit(s, r.st)
       /\ Tell(s, r.ret = EOF)
  /\ doing' = [doing EXCEPT ![s] = "any"]
  /\ UNCHANGED <<Same, flushall, want, at, synced, astray, wrong>>

\* putc(), fputs(), puts(), fwrite(): text is written; whole is what a good
\* call returns.
Write(s, results, text, whole) ==
  /\ Running
  /\ Writable(s) /\ Len(want[s]) + Len(text) <= MaxLen
  /\ ops' = ops + 1
  /\ \E r \in results : Commit(s, r.st) /\ Tell(s, r.ret # whole)
  /\ Adds(s, text)
  /\ doing' = [doing EXCEPT ![s] = "write"]
  /\ synced' = synced \ {s}
  /\ flushall' = TRUE
  /\ UNCHANGED <<Same, astray, wrong>>

Putc(s, ch) == Write(s, putc(ch, Now(s)), <<ch>>, ch)
Fputs(s, text) == Write(s, fputs(text, Now(s)), text, Len(text))
Puts(text) == Write(stdout, puts(text, Now(stdout)), Append(text, NL), Len(text) + 1)
\* Members of two characters.
Fwrite(s, text) == Len(text) % 2 = 0 /\ Write(s, fwrite(text, 2, Now(s)), text, Len(text) \div 2)

\* What a read of n characters up to one of stop gives.
Expected(s, n, stop) ==
  LET rest == SubSeq(want[s], at[s] + 1, Len(want[s]))
      ends == {i \in 1 .. Len(rest) : rest[i] \in stop}
      k == IF ends = {} THEN n ELSE CHOOSE i \in ends : \A j \in ends : i <= j
  IN SubSeq(rest, 1, IF k < n THEN (IF k < Len(rest) THEN k ELSE Len(rest)) ELSE IF n < Len(rest) THEN n ELSE Len(rest))

\* getc(), fread(), fgets(); right(r) is what C lets it return.
Read(s, results, n, stop, call, ret(_)) ==
  /\ Running
  /\ Readable(s)
  /\ ops' = ops + 1
  /\ \E r \in results :
       LET text == Expected(s, n, stop) IN
       /\ Commit(s, r.st)
       /\ Tell(s, Has(r.st.fp, "ERR"))
       /\ Blame(s, call, r.text # text \/ r.ret # ret(text))
       /\ at' = [at EXCEPT ![s] = @ + Len(r.text)]
  /\ doing' = [doing EXCEPT ![s] = "read"]
  /\ UNCHANGED <<Same, flushall, want, synced, astray>>

Getc(s) ==
  Read(s, {[st |-> r.st, ret |-> r.ret, text |-> IF r.ret = EOF THEN <<>> ELSE <<r.ret>>] : r \in getc(Now(s))}, 1, {}, "getc",
       LAMBDA text : IF text = <<>> THEN EOF ELSE text[1])
Fread(s) == Read(s, fread(2, 1, Now(s)), 2, {}, "fread", LAMBDA text : Len(text) \div 2)
Fgets(s, n) == Read(s, fgets(n, Now(s)), n - 1, {NL}, "fgets", LAMBDA text : IF text = <<>> THEN EOF ELSE 0)

\* ungetc() after a character was read.
Ungetc(s, c) ==
  /\ Running
  /\ Readable(s) /\ doing[s] = "read" /\ at[s] > 0
  /\ ops' = ops + 1
  /\ Commit(s, ungetc(c, Now(s)).st)
  /\ UNCHANGED <<Same, flushall, want, at, doing, synced, told, astray, wrong>>

Fflush(s) ==
  /\ Running
  /\ Writable(s)
  /\ ops' = ops + 1
  /\ \E r \in _flsbuf(Now(s)) :
       /\ Commit(s, r.st)
       /\ Tell(s, r.ret = EOF)
       /\ synced' = IF r.ret = EOF THEN synced ELSE synced \cup {s}
  /\ doing' = [doing EXCEPT ![s] = "any"]
  /\ UNCHANGED <<Same, flushall, want, at, astray, wrong>>

\* fseek() and rewind() leave the pointers as they are: characters that were
\* read ahead are read after the move, and on an update stream they are
\* written again, or what is written next is not marked to be flushed.
Left(fp) == (Has(fp, "READ") /\ fp.rp < fp.wp) \/ (Has(fp, "RW") /\ (fp.rp # 0 \/ fp.wp # 0))
Moved(s, results, target) ==
  /\ Running
  /\ Open(iob[s]) /\ target <= MaxLen
  /\ ops' = ops + 1
  /\ \E r \in results :
       /\ Commit(s, r.st)
       /\ Tell(s, r.ret = EOF /\ (target >= 0 \/ Has(r.st.fp, "ERR")))
       /\ Blame(s, "fseek", target < 0 /\ r.ret # EOF)
       /\ at' = IF r.ret = EOF \/ target < 0 THEN at ELSE [at EXCEPT ![s] = target]
       /\ astray' = IF Left(r.st.fp) THEN astray \cup {s} ELSE astray
  /\ doing' = [doing EXCEPT ![s] = "any"]
  /\ UNCHANGED <<Same, flushall, want, synced>>

Fseek(s, off, whence) ==
  Moved(s, fseek(Now(s), off, whence),
        off + (CASE whence = "SET" -> 0 [] whence = "CUR" -> at[s] [] OTHER -> Len(want[s])))
Rewind(s) == Moved(s, rewind(Now(s)), 0)

Ftell(s) ==
  /\ Running
  /\ Open(iob[s])
  /\ ops' = ops + 1
  /\ LET r == ftell(iob[s]) IN
       /\ Tell(s, r = EOF)
       /\ Blame(s, "ftell", r # at[s] /\ ~(Has(iob[s], "WRITE") /\ (Has(iob[s], "LBF") \/ iob[s].mode \in {"a", "a+"})))
  /\ UNCHANGED <<disk, iob, faults, Same, flushall, want, at, doing, synced, astray>>

Clearerr(s) ==
  /\ Running
  /\ Open(iob[s]) /\ Has(iob[s], "ERR")
  /\ ops' = ops + 1
  /\ Commit(s, [Now(s) EXCEPT !.fp = clearerr(@)])
  /\ UNCHANGED <<Same, flushall, want, at, doing, synced, told, astray, wrong>>

Fclose(s) ==
  /\ Running
  /\ Open(iob[s])
  /\ ops' = ops + 1
  /\ \E r \in fclose(Now(s)) :
       /\ Commit(s, r.st)
       /\ Tell(s, r.ret = EOF)
       /\ synced' = IF r.ret = EOF THEN synced ELSE synced \cup {s}
  /\ UNCHANGED <<Same, flushall, want, at, doing, astray, wrong>>

\* freopen() of the same file, in another mode.
Freopen(s, mode) ==
  /\ Running
  /\ Open(iob[s])
  /\ ops' = ops + 1
  /\ \E r \in fclose(Now(s)) :
       /\ Tell(s, r.ret = EOF)
       /\ IF r.ret = EOF THEN Commit(s, r.st) /\ UNCHANGED <<want, at, doing, synced>>
          ELSE /\ Commit(s, [_fpopen(r.st.fp, r.st.file, mode) EXCEPT !.fail = r.st.fail])
               /\ Entered(s, mode, r.st.file)
  /\ UNCHANGED <<Same, flushall, astray, wrong>>

Atexit(c) ==
  /\ Running
  /\ ops' = ops + 1
  /\ hooks' = Append(hooks, c)
  /\ UNCHANGED <<disk, iob, faults, phase, turn, flushall, want, at, doing, synced, told, astray, wrong>>

Exit ==
  /\ phase = "run"
  /\ phase' = "exit"
  /\ UNCHANGED <<disk, iob, faults, ops, hooks, turn, flushall, want, at, doing, synced, told, astray, wrong>>

\* callhdls(): the last function first.  Each writes a character to stdout.
RunHook ==
  /\ phase = "exit" /\ hooks # <<>>
  /\ hooks' = Front(hooks)
  /\ IF Writable(stdout) /\ Len(want[stdout]) < MaxLen
     THEN /\ \E r \in putc(Last(hooks), Now(stdout)) : Commit(stdout, r.st) /\ Tell(stdout, r.ret = EOF)
          /\ Adds(stdout, <<Last(hooks)>>)
          /\ doing' = [doing EXCEPT ![stdout] = "write"]
          /\ flushall' = TRUE
          /\ synced' = synced \ {stdout}
     ELSE UNCHANGED <<disk, iob, faults, told, want, at, doing, flushall, synced>>
  /\ UNCHANGED <<ops, phase, turn, astray, wrong>>

HooksDone ==
  /\ phase = "exit" /\ hooks = <<>>
  /\ phase' = IF flushall THEN "flush" ELSE "over"
  /\ UNCHANGED <<disk, iob, faults, ops, hooks, turn, flushall, want, at, doing, synced, told, astray, wrong>>

\* fflush(NULL): nobody hears of an error.
FlushNext ==
  /\ phase = "flush"
  /\ turn' = turn + 1
  /\ phase' = IF turn = FOPEN_MAX THEN "over" ELSE "flush"
  /\ IF Has(iob[turn], "WRITE")
     THEN \E r \in _flsbuf(Now(turn)) :
            /\ Commit(turn, r.st)
            /\ synced' = IF r.ret = EOF THEN synced ELSE synced \cup {turn}
            /\ Tell(turn, r.ret = EOF)
     ELSE UNCHANGED <<disk, iob, faults, synced, told>>
  /\ UNCHANGED <<ops, hooks, flushall, want, at, doing, astray, wrong>>

AtEnd == phase = "over" /\ UNCHANGED stdiovars

StdioNext ==
  \/ \E mode \in Modes : Fopen(mode)
  \/ \E s \in Streams :
       \/ \E mode \in {"NBF", "LBF", "FBF"} : \E size \in {0, BUFSIZ} : Setvbuf(s, mode, size)
       \/ \E ch \in Letters : Putc(s, ch) \/ Ungetc(s, ch)
       \/ \E text \in Texts : Fputs(s, text) \/ Fwrite(s, text)
       \/ Getc(s) \/ Fread(s) \/ Fgets(s, BUFSIZ + 1)
       \/ Fflush(s) \/ Rewind(s) \/ Ftell(s) \/ Clearerr(s) \/ Fclose(s)
       \/ \E move \in Moves : Fseek(s, move[1], move[2])
       \/ \E mode \in {"r", "a"} : Freopen(s, mode)
  \/ \E text \in Texts : Puts(text)
  \/ \E ch \in Letters : Atexit(ch)
  \/ Exit \/ RunHook \/ HooksDone \/ FlushNext \/ AtEnd

StdioSpec == StdioInit /\ [][StdioNext]_stdiovars

-----------------------------------------------------------------------------
(* Properties                                                               *)

\* Every read gives the characters of the file in their order, whatever part
\* of them each _read() gave, and ftell() and fseek() agree with C, unless
\* the stream was moved with characters read ahead, which fseek() keeps.
AnswersAsInC == wrong = {}

\* When fflush() or fclose() returned 0, or the program ended with exit(), the
\* file has every character written to the stream, once and in its place: no
\* failed or partial _write() goes unreported.
NothingLost ==
  \A s \in Streams \ (told \cup astray) :
    s \in synced \/ phase = "over" \/ ~Open(iob[s]) => disk[s] = want[s]

\* No character is stored outside of the buffer of its stream, in any mode
\* and however the buffer is replaced.  The exception: the
\* character an unbuffered stream could not write stays in its place, and once
\* the error is cleared the next one is stored after it.
InsideBuffer ==
  \A s \in Streams \ astray : Has(iob[s], "PAST") => s \in told /\ ~Has(iob[s], "LBF") /\ ~Has(iob[s], "FBF")

\* A call fails only after a system call has failed.
ErrorsHaveCause == faults = 0 => told \subseteq astray

\* A program sees of its streams what C says, and the streams stay whole: calls
\* answer as on the file itself, store inside of the buffer, and fail for a cause.
StreamsAsInC == AnswersAsInC /\ InsideBuffer /\ ErrorsHaveCause
=============================================================================
