# A verification of scc

scc is a C toolchain: a compiler driver, a compiler in two passes, an assembler,
a linker, the tools around object files, a make, and a C library. This directory
holds TLA+ models of its parts, TLC configurations that check them on small
instances, and proofs that TLAPS checks. Paths below are relative to the
repository's `src/`; line numbers are those of `PROJECT.json`, whose `map` gives the
source lines behind every definition.

## 1. The system

| component | state it keeps | what is hard | modelled in |
|---|---|---|---|
| libc heap (`libc/stdlib/malloc.c`, `realloc.c`, `calloc.c`) | headers of chunks, the circular free list, `_freep`, the break | long sequences of split and join, stale `_freep`, unbounded walks, wrap of `size_t` | `Malloc`, `Allocator`, `LibcProofs` |
| make: bringing targets up to date (`cmd/scc-make/rules.c`, `posix.c`, `main.c`) | time stamps, activations of `rebuild()`, the recipe in progress, `stop`, `exitstatus` | signals between any two steps, a forked shell, failures with `-k` and `-i`, coarse times, a second run over what the first left | `MakeBuild`, `MakeBuildProofs` |
| make: text, rules, macros (`parser.c`, `rules.c`, `main.c`) | the stack of inputs, the database of targets, the macro table with origins, the environment, `MAKEFLAGS` | continuations and comments, expansion into the input, `include`, order of lines, five sources of a macro, a make started by a make | `MakeText`, `MakeRules`, `MakeMacros`, `MakeFiles`, `MakeFilesProofs`, `FoldLemmas` |
| cc driver (`cmd/scc-cc/posix/cc.c`) | pipeline of tools, descriptors, temporary objects | concurrent processes on pipes, tools that die, truncated input that looks whole | `CcDriver`, `CcDriverProofs` |
| cc1: preprocessor (`cc1/cpp.c`, part of `lex.c`) | stack of inputs, macros, groups, hide sets | state shared by lexer and preprocessor, macros that call what follows them | `Cpp`, `CppProofs` |
| cc1: statements (`cc1/stmt.c`) | labels, switches, nesting | what is legal where, limits | `Cc1Stmt` |
| cc1: expressions, folding (`cc1/expr.c`, `fold.c`) | trees, constants | conversions, widths, rewriting that must keep the value | `Cc1Expr`, `CcExpr` |
| cc1: declarations, scopes, types (`cc1/decl.c`, `symbol.c`, `types.c`) | symbols, hash chains, contexts, shared types | scopes and name spaces, linkage, what is freed at the end of a block | `Cc1Decl`, `CcDecl` |
| cc2: control flow (`cc2/parser.c`, `sethi.c`, `swtch.c`, `cfg.c`) | list of statements, labels and their counts, blocks | labels on statements that are rewritten or deleted, chains of jumps | `Cc2Flow`, `CcFlow` |
| as (`cmd/scc-as`, `x80`) | symbols, sections, inputs, the pass | values that move between passes, table of operand formats | `AsZ80`, `As`, `AsC` |
| libc: strings, numbers, wide characters, time, formats | the state of `strtok`, of `mbrtowc` | boundaries, overflow, pieces | `LibcText`, `Libc`, `LibcC` |
| libc: stdio, program end | buffers of a `FILE`, functions of `atexit` | any legal sequence of calls, short and failing reads and writes | `Stdio`, `LibcProofs` |
| ar (`cmd/scc-ar.c`) | three temporaries, the arguments left | failure or signal in the middle, repeated names, positions | `Ar`, `ArProofs`, `FoldLemmas` |
| libmach: COFF objects, maps, members of libraries | header, sections, symbols, relocations | two passes that must agree on positions, damaged files | `Coff32`, `ObjTools` |
| strip, ranlib, nm, size | a copy that replaces a file; the index | failure between remove and rename, unnoticed errors | `ObjTools`, `ObjToolsProofs` |

How they interact. The driver forks cc1, cc2, as and ld and joins them by pipes;
it sees only exit statuses. cc1 and cc2 meet in the text of the intermediate code.
make forks shells, sees their exit statuses and the times of files, and hands
options to the makes below it through the environment. ar, ranlib, strip, nm and
size meet only through files. Everything calls the heap and stdio. Nothing in the
system has threads: concurrency is between processes, and between a program and its
signal handlers.

`PROJECT.json` lists the components with what is left out of each, and the hazards
of the code at the line where they bite, each with the properties that would catch
it going wrong or with a note on why none does.

## 2. Modules

Reference definitions, which say what C, POSIX or the tool's task asks for, stand
apart from the model: `LibcC`, `CcFlow`, `AsC`, `Allocator`, the first part of `CcDecl`
and the last parts of `CcExpr`, `MakeFiles` and `ObjTools`. They are written without the
loops and the order of the code. Where the code is known to differ from its
reference, the property names the rule it excuses and the definition of that rule
is in the module; section 6 lists them. In the modules that no theorem is about, arms
of a `CASE` may overlap, and the first one that holds is meant, as TLC takes it; in
the others they are disjoint.

### Malloc, Allocator, LibcProofs

Memory is counted in units of `sizeof(Header)`. A header at unit `a` is the pair
`size[a]`, `next[a]`; unit 0 is the static header `base`. Each iteration of the two
walks of the free list, in `_prevchunk()` and in the first-fit scan of `malloc()`, is
one step, so that their ends are a property and not an assumption. `free()` is
called by the program, by `morecore()` and by `realloc()`; the variable `caller` says
to whom it returns. `live` is the program's view, the bytes it owns at each block,
and `kept` the bytes the last `realloc()` carried over. `size_t` arithmetic is modulo
`SIZE`. The program is well behaved: it frees and reallocates what it owns.

`Allocator` is what a program may expect: blocks that share no memory, given up
only by `free()` and `realloc()`, the latter carrying the contents over. `Malloc`
implements it under `owned <- live`, `carried <- kept`.

### MakeBuild, MakeBuildProofs

One run of make, and another one after it. `rebuild()` is recursive and its
activations are the variable `stack`; `job` is the activation of `run()`, `pc` the
place in `run()`, `execline()` or `launch()`. Three actors interleave: make, the shell
it forked (`new` before `execve()`, then `run`), and the user, who sends signals to
make or to its process group. A signal interrupts `wait()` and nothing else; before
`execve()` the child still has make's handler. The clock of files may stand still
between two writes. The makefiles are a constant, in the form in which `MakeRules`
leaves its database; a scenario chooses one. A command is what it does: it may write
`$@`, and it ends well or badly. A child whose second `wait()` failed takes no further
steps. Makefiles with a circle are not among the instances, because `rebuild()` does
not end on them (section 6); the proofs cover them.

### MakeText, MakeRules, MakeMacros, MakeFiles, MakeFilesProofs, FoldLemmas

`MakeText` is the text side of `parser.c`: `nextc()` takes characters from a stack of
inputs on which a file, an included file and the expansions of macros lie over each
other; `next()`, `item()`, `readmacrodef()`, `readcmd()`, `comment()` each have their
own idea of a continued line, as in the code. A character is a short string, so that
a suffix or `.SUFFIXES` may be one.

`MakeRules` is the database of rules as one record, with `addtarget()`, `adddep()` and
`addrule()`; `read` keeps the rules entered, and the reference definitions (`Named`,
`GivenTo`, `About`, `FirstOnes`) say from `read` alone what the record has to be.
`MakeMacros` is the macro table: `macro[n]`
is the value and the origin of `n`. The phases of `main()` follow each other: built-in
definitions, the words of `MAKEFLAGS`, the arguments, the makefiles; then a command
may start another make, which begins with the environment and the `MAKEFLAGS` that
this one leaves. The textual form of `MAKEFLAGS` is kept as words, because reading
splits it at blanks. Values of `SHELL` never come from the environment, as in the
code.

`MakeFiles` composes the three: every turn of `parseinput()` reads one statement with
the macros of that moment and enters it in the table or in the database. `StatementsOf`
says what a text means by its logical lines; `Meant` expands macros without an input
stack.

### CcDriver, CcDriverProofs

The driver, and the tools it forked as processes: each has read and written some of
its chunks, and `rd`, `wr` say who holds the ends of each pipe, the children's
inherited copies included. Pipes hold `Cap` chunks; a writer blocks when the pipe is
full and someone holds the read end, and dies when no one does; a reader sees the
end of its input when no one holds the write end. A file on disk is the set of
sources that went into it, empty when it was made from a part of its input. The names
of outputs are taken to differ from those of inputs and from the one given with `-o`.

### Cpp, CppProofs

The recursion of `next()`, `expand()`, `parsepars()` and `expandarg()` is the stack `ctl`;
the stack `input` of files, macros and parameters is the code's. Any line of `Lines` may
come next. `groups` and `ref` are the nesting and the expansion that C defines, `exact`
says that only object-like macros have been met, and `broken` that a directive came
among the arguments of a call, where C defines nothing.

### Cc1Stmt, Cc2Flow, CcFlow

A function is chosen statement by statement. `Cc1Stmt` has one action that opens and
one that closes each statement; the frames of `stack` are the activations of the
recursive descent. It emits the intermediate code, which `Cc2Flow` reads and lowers
(conditions, `&&` and `||` as values, ternaries, switches) and, on z80, optimises
and trims as `gencfg()` does. `CcFlow` follows text and code from event to event.

### Cc1Expr, CcExpr

The functions of `expr.c` build a tree bottom-up, `simplify()` rewrites it, `code.c`
writes it in postfix and the stack of `parser.c` in cc2 reads it back. `CVal` is the value
that C gives the text, with the calls made and the memory left; `Run` is what the tree
that cc2 has computes.

### Cc1Decl, CcDecl

cc1 is the record `S`: every symbol and type ever allocated, by address, one hash
chain, the current context, and what was printed. A freed symbol keeps its place
and loses its `live`, so that a use after its end shows. `G` is the state of the same
text by the rules of C: scopes, linkage, composite types.

### AsZ80, As, AsC

What a line does and the two passes over the files and an included file (`As`), and
how operands select an entry of `x80/ins.dat` and are encoded (`AsZ80`). `AsC`
decodes bytes by the fields of the opcode and knows nothing of the table; it lays the lines out again in their order.

### LibcText, Libc, LibcC, Stdio, LibcProofs

Loops over pointers as recursive operators on a memory, in the shape of the C code;
`Libc` has calendar time, and makes one call, a series of `strtok()` calls, or feeds `mbrtowc()` piece by piece.
`Stdio` is a program that opens files and makes calls in the orders that C allows,
with `read()` and `write()` that may do less than asked and fail; `exit()` runs the
functions of `atexit()` and flushes. A stream has the pointers `rp`, `wp`, `lp` and the
flags of `struct _FILE`. What a function may do is the set of its results, `[st, ret]`
with the FILE, the file and the number of system calls failed in `st`; the loops over
characters (`PutAll`, `GetAll`, `fwrite`) are recursive functions into sets of results,
so that the proofs can speak of them. A read that goes well gives any number of characters
from one up to what there is. `want` and `at` are what C says of the stream: its characters
once all is written and its position. `told` are the streams with an error reported,
`astray` those moved with pointers left in the buffer, `doing` what C lets the program do
next with the stream, which the functions of `atexit()` change too. Members of `fwrite()`
have two characters, and the program gives it whole members.

### Coff32, ObjTools, ObjToolsProofs

A file is a sequence of pieces with sizes, so that what the writer puts in the
pointers and where it puts the contents can differ. strip and ranlib (`ObjTools`) have one
step per system call that can fail or be preceded by a signal; a session is two commands
on the same files, because what one leaves is what the next reads. `orig` keeps the
files of the first moment, `lost`, `damaged`, `left` and `clean` what happened to which
of them.

### Ar, ArProofs

One run of ar on any of the archives, files and command lines of the instance, one
member or one file a step. `tmp` is the contents of the three temporaries, `named`
and `local` the names `cleanup()` knows and the files that exist, `pending` what is
written to the archive and still in a buffer. Failures of opening, reading and
closing, and a signal, may come at every step. `Expected` says in terms of the first
state what each command should give.

## 3. Runs

`make_files`, `cc_flow`, `cc_expr` and `cc_decl` are run without the check for deadlock:
their programs come to the end of their input. The others stutter at their end.

Most invariants of a run are conjunctions of named parts, defined just before them
with a comment each (`Inv` of `Malloc` has seven, `CallsAsInC` of `LibcC` seven,
`MeaningAsInC` of `CcDecl` four). The mutant of a property is a definition with a
plausible error, kept beside the one it stands for and marked as such.

| run | what it asks | answer |
|---|---|---|
| `malloc` | any sequence of calls on a heap of eight units | the inductive invariant holds, every call returns, `Allocator` is implemented |
| `make_build` | a diamond with inference rules and `.DEFAULT`, a chain with recipes of two commands, `.IGNORE`; options, failures, signals at any moment, edits between two runs | prerequisites come first, exit 0 is honest, targets are up to date, a second run starts nothing, half-written targets go, at most one command starts after the signal, make ends |
| `make_files` | makefiles as text: every short sequence of pieces of lines, sequences of rules and definitions, every mix of sources of a macro, the make below | a text means what its logical lines say, the database is the one they define, the strongest source wins, the make below agrees |
| `cc_driver` | twenty-one kinds of command line, dying tools, failing `fork()` and `pipe()`, signals | exit 0 means whole outputs, nothing truncated or temporary stays, the driver ends unless a tool waits on its own pipe |
| `cpp` | every file of up to four lines out of a menu of directives and texts | groups are those of C, no macro expands inside itself (but for a directive among arguments), hiding is undone, object-like macros expand as in C, lines are counted right, expansion ends |
| `cc_flow` | every function of up to three statements beside its body, three case labels, both kinds of back end | cc1 accepts what C allows; the code has the flow of the text |
| `cc_expr` | every expression of up to three tokens and the longer ones that folding rewrites, on two targets | accepted, typed and valued as in C, for every value of the variables |
| `cc_decl` | every file of three declarations, heads and braces, and five from a short list | scopes, linkage, composite types, storage as in C; the table holds nothing freed |
| `as` | every Z80 instruction, every source of up to three lines in one or two files and an included one | the bytes say what the source says, nothing legal is refused, the passes agree, the output is whole or absent |
| `libc` | calls of the string, number, search, UTF-8, time and format functions; programs of five calls on two streams | as in the C standard; nothing is lost unreported or stored outside of a buffer |
| `objects` | sessions of two commands on good, odd and damaged objects and libraries, with a failing call and a signal | no object or member is lost, copies are whole, the index leads to definitions, reports agree with the file |
| `ar` | all keys, positions, `-u`, `-l`, on seven archives with failures and signals | a run that gets to its end gives what was asked, the old archive is safe until `merge()`, no temporary stays |

### Bounds and why they are enough

- `malloc`: `HDR = 2` bytes, at least 3 units from the system, 8 units, requests of
  0, 1, 3, 5 and 63 bytes. Several blocks and several free chunks coexist, `morecore()`
  is called for less and for more than `NALLOC`, grows beside a free chunk and is
  refused, and 63 is over the limit. The proofs are for every value.
- `make_build`: two runs of make, because what one leaves shows only in the next.
  Three levels of targets are enough for an error to pass through a target that has
  none of its own; two commands per recipe, for a signal between them; two
  candidates, for the choice of the first that exists. One signal is allowed where a
  target is written, two for a target of `.IGNORE`; two signals while a target is
  written are in section 6. The chain is also made with `-i` and a signal, where the
  last command is forgiven although it was cut short.
- `make_files`: texts of four pieces out of eleven (names, blanks, punctuation,
  continuations, ends of lines, tabs, uses of a macro), alone and after the beginning
  of a rule or a definition; three rules in a row, so that one can add to, replace
  and follow another; two definitions and uses; two arguments and a definition in
  each of two makes. `Followed` limits the database to the names of the instance. A
  macro that refers to itself stops at `MaxDepth` expansions. Lengths of lines and
  names are not limited.
- `cc_driver`: pipes of one chunk and sources of one or two: a source of two does
  not fit, which is what blocks a writer. Two files, so that the second pipeline runs
  after the first failed; in one scenario both have the same base name. The proofs are
  for any numbers and sizes.
- `cpp`: four lines, because a function-like macro, a macro that leaves its `(` to the
  next line, a use and the line after it are four; `NR_COND` and `NR_MACROARG` are
  small enough to be met.
- `cc_flow`: four statements with the body: enough for a loop in a branch in a loop and
  for a jump over it; quotas for the kinds (`MCQuota`). `NR_BLOCK` and `NR_SWITCH` are 3.
- `cc_expr`: a byte has one bit, so that the size of a type is its width and all
  values of the variables can be tried; `long` has at least two bits more than `int`,
  since with one more some comparisons of the code would be right by accident. Five
  tokens where folding has rules for that depth, three otherwise. The enumerator occurs
  at most once. Floating types, fields and arrays are left out.
- `cc_decl`: two names, one tag, one member and one enumerator, one hash bucket, so
  that every symbol is a neighbour of every other; after the third declaration a
  short list, which closes scopes and declares once more. `NR_BLOCK` is 3, so that
  braces and lists of parameters reach it and go past it.
- `as`: instructions alone cover the table; in sources of three lines a label can be
  used before, at and after its line and across sections and files. The third line
  is from a short list.
- `libc`: widths are scaled (`LONG_MAX = 63`, `LLONG_MAX = 127`, `CharMod = 16`), so that
  every boundary is inside the inputs; numerals have four characters; five cells of
  memory let two strings overlap in every way; years around 1900, 1970, 2000 and 2001
  have every kind of February and January; buffers of two characters fill in two
  calls; five calls are an open, a write, a change of direction, a read and a close.
- `objects`: pieces instead of bytes; one fault and one signal per session.
- `ar`: archives of up to three members with a repeated name, two arguments, files
  that are missing, as old as the member or newer.

### Fairness

- `Malloc`: weak fairness of the steps of the library. It runs on its caller's
  thread and has nothing to wait for.
- `MakeBuild`: weak fairness of make and of the child: both are scheduled, and every
  command ends. There is none on the user.
- `CcDriver`: weak fairness of the driver and of the ordinary work of each tool
  (starting, reading, writing, ending well). A tool that dies and a signal are never
  forced.
- `Cpp`, `As`: weak fairness of the next step: one process that waits for nothing.

## 4. Proofs

`LibcProofs` proves, about `Malloc` and for every header size, `NALLOC`, heap limit, `SIZE` and set
of requests for which `NoWrap` holds:

- `InvHolds`: the inductive invariant `Inv`. Its parts need each other. `HeapTiled`
  (chunks tile the heap) and `FreeListOrdered` (the list is one circle through
  `base`, sorted) are kept by `join` only because `ControlOK` says that the cursor
  is on the list and the chunk to link is not; `Coalesced` follows from what the exit
  condition of `_prevchunk()` says about the two neighbours; `LiveBlocksFit` and
  `NoChunkLost` tie the program's view to the headers. One lemma per action, one
  step per conjunct the action can disturb.
- `TypeCorrect`, `HeapStaysTiled`, `FreeListStaysSorted`, `BlocksStaySafe`: the parts
  a reader wants by name.
- `LibraryIsAllocator`: every step of `Malloc` is a step of `Allocator` or leaves
  `live` and `kept` alone. Blocks do not share memory because chunks do not overlap
  and each block fits its chunk.

`NoWrap` says that no request that passes the guard of `malloc()` makes the byte
count for `sbrk()` wrap. It cannot be dropped: without it, section 6 has a call for which
the library hands out memory that nobody granted.

About `Stdio` it proves, for every number of streams, size of buffer, file, text,
mode and move, any number of calls and any number of reads and writes that do less
than asked or fail:

- `StreamsHold`: `StreamsAsInC`. Calls answer as on the file itself, nothing is stored
  outside of a buffer (with one exception) and a call fails only for a cause.
- `NothingWrittenIsLost`: `NothingLost`. After a good `fflush()`, `fclose()` or at
  the end of the program the file has every character written, once and in its place.

Neither is inductive: both speak of what the program sees and nothing of the buffer. The
invariant `SInv` says of every stream that is not `astray` (`StreamHolds`):

- `Straight` and `Fits`, whether there was an error or not: the pointers are in order
  and in the buffer, and what C lets the program do next is what the flags allow. This is
  all that is known of a stream with an error, and what keeps `putc()` inside of the buffer.
- `Agrees`, when the program was told of no error. `Carries`: the file with the buffer
  laid over it at the offset is `want`, so that a flush, in one piece, gives it; a flush
  in part is reported. `Ahead`: what is left between `rp` and `wp` is what the file has
  at `at`, so that `getc()` gives the file's characters however short each `read()` was.
- `Doing`: a stream with something to write is one that the program writes. It is here
  that the rule of C about a flush or a move between writing and reading is needed.
- `Flat`, when all should be written (`Settled`: after a good flush, when nothing was
  ever put in a buffer, or when `fflush(NULL)` has passed the stream): nothing waits in
  the buffer. With `Carries` it gives `NothingLost`.

`Entries`, `Books` and `Programs` add types and how far `exit()` is; `Caused` is
`ErrorsHaveCause`. Each function of libc has its lemma, from `_write()` and `_flsbuf()` up to
the loops, whose lemmas are inductions over the characters with the invariant fixed.
The assumptions are `BuffersAssumption`, `TextsAssumption` and `CallsAssumption`.

The proof corrected the model in places that the run had not reached. The exception of
`InsideBuffer` is for every stream without `_IOLBF` and `_IOFBF` (a stream that
`setvbuf()` never saw is one too), not only for `_IONBF`; it needs an error that was told.
Writing an empty text with the position after the end leaves the file and the position alone.

`MakeFilesProofs` proves three results. `PrecedenceHolds`: once the makefiles are being read, each
macro has the value of its strongest source, for any macros, values and options and
any number of arguments, definitions and nested makes. The invariant `MInv` adds
types, that the table is empty before the defaults (`Fresh`), that `MAKEFLAGS` is
read before any argument (`FlagsFirst`), and for each macro what its entry is in
terms of what each source said (`Entry`). The order of the phases is essential:
`-e` after a definition of a makefile would break it.

`SubMakeUnderstands`: a make started by a command has the options of its parent and its
macros of the command line. `Handed`, added to `MInv`, follows a definition from the
argument through the words of `MAKEFLAGS` and the environment to the table of the next
make. `SingleWords` (no value has several words) is needed, because `MAKEFLAGS` is split
at blanks (`main.c:218`, `main.c:269`): section 6.

`RulesAreRead`: after any number of rules the table is the one that the rules define.
Both sides are folds over sequences of unbounded length. The theorems of the library
on induction take an operator as a parameter, so `FoldLemmas` starts from the existence
of a least number (`AllNumbers`), shows that `FoldLeft()` is the last state of a run
over the sequence (`FoldIsRun`), and that such runs exist and are unique; then a rule
is a step on both sides. The invariant `RulesInv` adds types and that, until a rule
names a target among its own prerequisites, no target depends on itself. The first
form of `PrerequisitesAddUp` asked this of the table of the moment, and the proof failed
for a good reason: `.SUFFIXES: .SUFFIXES`, `a: .SUFFIXES`, `.SUFFIXES:` leaves no trace of
the circle but the missing prerequisite of `a`. It now asks it of what was read.

`MakeBuildProofs` proves the three invariants of `MakeBuild` for any makefiles, files,
command lines, failures and signals, each from a part of the inductive invariant:

- `SignalsAreHandled` from `Signalled`: where make may be once a signal came, that at
  most one command starts after it, and that a recipe with a command that was cut
  short is followed by `cleanup()` or was forgiven. The exceptions of
  `InterruptedRemoved` are what is left of the attempt to prove it without them.
- `BuildIsSound` from `InOrder`: the activations are a chain of prerequisites, and
  while no error has been seen, what an activation has passed is done. That a
  prerequisite is not in progress while a command runs is true of a circle too, for
  another reason: no member of a set each of whose members needs another one (`Trap`)
  is ever done, since the first to be done would need one done before it. The chain
  of activations between two visits of a target is such a set.
- `ExitStatusIsHonest` from `Status`: while the exit status is 0, each goal is done, in
  progress or to come, and no activation has seen an error.

`Typed` carries types and `Shape`, how the place in the code, the stack, the recipe in
progress and the child go together.

`CcDriverProofs` proves the two invariants of `CcDriver` for any command line, any sizes
of pipes and outputs, any tool or system call that fails and signals at any moment.
No process ever knows that its input was whole, so the argument is about descriptors:
a running writer holds the write end of its pipe (`Process`), hence a reader that met
the end of its input did so after the writer ended, and its input was whole if the
writer succeeded on the whole of its own. `Waiting` carries that along the pipeline in
the order in which `validatetools()` waits: while no tool has failed, all those waited
for did their work and their files are whole. The other parts say what lies on disk:

- `Tidy`: no file but those in progress is partial, and each temporary object is in
  progress, is the one `validatetools()` will remove, or is known to `terminate()`.
- `Outputs`: until something fails, what was asked of the files dealt with is there, or
  belongs to a later file of the same name by now.
- `Arguments`, `Executable`: the linker is given one whole object per file, and makes
  the executable from all of them.

`SuccessIsWhole` and `ExitIsClean` follow at the step of `exit`. The attempt to prove
`SuccessMeansWhole` in an earlier form found the files of one name under `-k` (section
6), which the property now names (`Overwritten`).

`CppProofs` proves two results. `InputsTogether`, that is `InputsAgree`, holds for any
macros, lines and depth of nesting. Nothing is assumed of the replacement lists. The
invariant `CInv`:

- `Stack`, `Calls`, `Placed`: files are under everything else; `copymacro()` works on an
  input of its own macro, the input above it is the parameter that it expands, and an
  outer call works on an input further down.
- `Hides`: an open macro is hidden, no input above it is of the same macro, and no input
  above it has it in its hide set, so that popping one cannot unhide it; nothing is
  expanded while arguments are collected, and the macro that is called is not hidden.
  This part is under `~broken`: the attempt to prove it found the case of section 6.
- `Marks`, `Located`: each mark is that of an input on the stack, and the line kept with
  every input that was left is that of the last file under it.
- `Groups`: a group whose outer groups are on is on exactly when C selects it
  (`Faithful`). Nothing is said of a group inside one that is off, where `#else` flips
  states as well; that is harmless because `cppoff` counts the outer one (`Conds`).

`TextIsAsInC`: as long as every macro is object-like, the parser gets what C defines of
the lines of the selected groups, in order, and at the end all of it. This is for any
finite set of macro names, with definitions that name each other and themselves in any
way. The definition in C is recursive over the sets of hidden names; `FullExpands` proves
that it is well defined, since a name is hidden once on the way down (`Deep`, by
induction on how many are left). The invariant `TInv`:

- `Texts`, `Rest`, `Pending`: what the parser was given, and then what each input still
  holds, expanded with the macros of the inputs up to it hidden (`Below`), the current
  input first, is what C defines. `Carries` says what a step must show of the current
  input; `RestPush` and `RestPop` are `addinput()` and `delinput()`.
- `hide` is the set of macros on the stack (`Read`); this and `OpenIsHidden` are why the
  expansion stops where C stops it.
- `Plain`: no parameter is read and no token of a file waits under another input;
  `copymacro()` is at work on the current input, and what it has is pending too
  (`Content`).

It rests on `LinesAssumption`, that the lines and the macros predefined are of their types,
and on `Macro`: a body without parameters has tokens only, since `getdefs()` looks for
parameters and `#` only in macros that have some.

`ArProofs` proves two results. `NothingLost` puts `TypesHold`, `OldArchiveStays` and
`TemporariesGo` together, for any names, archives, files and command lines. The
invariant `AInv` adds `Temps` (the names `cleanup()` knows include every file that
exists) and `Phases` (what the archive and the buffer are in each phase, and which
keys reach it). The heart is that `error()` and the handler flush or lose only what
is pending, and that nothing is pending before `merge()` but with q, whose writes
only add at the end.

`ResultIsAsked`: what each key leaves when ar comes to its end, whatever names repeat in
the archive and on the command line. The invariant `RInv` says where each phase is in
terms of the first state:

- `Dealt`: each of the first p members has taken the argument that names it, if one was
  left. A member is matched or not by its place among those of its name (`Before`),
  so this is an induction over members, with the lemmas of `FoldLemmas`.
- `Sorted`, `Cut`: the members that stay are cut in two at the only place of `posname`,
  before it or after it.
- `Inserting`, `Complete`, `Joined`, `Appending`: the new members follow the order of the
  arguments left, and `merge()` puts the three temporaries one after the other.

It needs `ArchivesAssumption`: an archive that is missing or foreign has no members. The
attempt to prove it found that arms of a `CASE` in `openar` and `ran` overlapped, of which
TLC takes the first and TLA+ either; they are disjoint now.

`ObjToolsProofs` proves `NothingIsLost`, that is `FilesKept`, for any files, libraries and
commands, any failures and a signal at any step. The invariant `KInv`:

- `Placed`, `Tooled`: where a tool is, and that the file it is at exists in the instance.
- `Stripping`, `Indexing`: which of the file and its temporary is there in each step.
  strip removes the file only when its copy is whole, and has not a library before it
  (`Probe`); ranlib's copy is the library with one member more in front.
- `Accounted`: a temporary is the one in progress or was left by a tool that was killed.
- `LibraryKept`: indexes pile up in front of what the library had. This is what is
  inductive; an earlier form said that the members other than indexes stay, which would
  have allowed a library to lose an index that it came with.

It also proves `IndexIsRight`, that is `IndexFindsDefinitions`, for libraries of any
members. The argument is an induction over the symbols of a member (`SymbolsEntered`, with
the fold of `newsymbol` as a run of steps) inside one over the members (`Scanned`):

- `Met(mem, a)`: the symbols of the members before number `a`, each with its member.
- `Table(t, D)`: a name has one entry; every symbol of `D` that may be looked for has one;
  and an entry is a symbol of `D` (`Given`), which is common or a use only if `D` has no
  real definition, and a use only if no later member has it common. `SymbolEntered` says
  that the switch of `newsymbol()` keeps this; `TableLeads` that for all the members it is
  what `IndexFindsDefinitions` asks.
- `Begun`, `Scanned`, `Gathered`, `Written`: `Table` of the members before the next one
  while the status is good, of all of them after the loop, and in the temporary when the
  name is about to change. They were checked by TLC on the instance of `objects` before
  the proof.
- `LibrariesKnown`: the members are read as their pieces say (`ReadAsIs`). For the files
  that are there at first this is `MembersAssumption`; for the libraries that ranlib
  writes it is proved.

`MembersAssumption` is about the reading of an object, which folds over its pieces: TLC
evaluates it for every member of the instance.

Assumptions on constants are the `ASSUME`s of the modules, which TLC evaluates in the
runs, and `NoWrap` in the theorems that name it.

Only model-checked: liveness (`CallReturns`, `MakeEnds`, `DriverEnds`, `Terminates`,
`AsEnds`), which the prover does not reach; everything that is
stated against a recursive definition, that is `MakeText`, the compiler, the assembler
and the texts, numbers and times of libc; what the object tools do to the contents of an
object (`StripKeepsObject`, `ReadAsInFile`); `UpToDateOnce`, which is not true of all
makefiles (section 6) and is stated for those of the run.

## 5. Not modelled

- scc-ld. It is not finished: passes 3 to 5 are empty or commented out, an archive
  with an index ends in a crash in `coff32xgetidx()`, `newsym()` ignores the undefined
  symbols of objects, `define()` never sets the type of a symbol, and `main()` removes
  its output when it succeeds. There is no behaviour to state a property of.
- scc-objcopy is an empty `main()`.
- scc-addr2line, scc-objdump and scc-dump print what libmach reads; the ELF half of
  libmach is a second format behind the interface that `Coff32` models, without the
  operations that strip and ranlib need.
- The spelling of tokens in cc1, initializers with designators, the tables of output
  text in `code.c` and the code generators of cc2.
- ctype, locale, assert, `qsort`, the environment and floating point in libc; libcrt.

Inside the modelled parts: texts, messages and the bytes of files everywhere, and
what `components` in `PROJECT.json` names part by part. In ar, writes to the
temporaries are taken to succeed (they are not checked before the archive is
overwritten), and members are as long as their headers say. `ResultAsAsked` is
stated for positions that appear once in the archive and are not themselves
arguments: `update()` does not set `m->cur` when it replaces `posname` itself
(`scc-ar.c:274`), so that new files then go to the end. In `CcFlow`, nothing is said of
programs that are `Tangled` (section 6) or repeat a case value, which cc1 does not
detect; nothing is read after an error; a label of a deleted statement keeps its
address. In cc1's declarations and the assembler nothing is read after an error
either, as the first one decides.

## 6. Where the code differs from its reference

Found while modelling, by a counterexample or by reading. The properties excuse
each case by a rule named after it; nothing else is excused.

### The heap and make

- A request close to `SIZE_MAX` that passes the guard (`malloc.c:139`) wraps in
  `morecore()` (`malloc.c:105`), and `malloc()` returns memory nobody granted.
- After a signal between two commands of an inference rule `cleanup()` gets the name of
  the rule (`rules.c:352`), so the half-written file stays, where
  `tests/make/execute/0098-signal.sh:38` expects that it goes. `InterruptedRemoved`
  excuses files made by an inference rule. A command that the signal cut short while
  its errors are ignored (`-`, `-i`, `.IGNORE`) counts as one that ended well, so the
  half-written file stays too when it was the last (`rules.c:264`, `Forgiven`).
- A signal between the test of `stop` and `wait()` does not end make (`posix.c:89`);
  0098-signal.sh:24 gives it a second to do so. `OneStartAfterSignal` allows the one
  command.
- After a second signal `launch()` returns a status that was never written
  (`posix.c:91`); the model chooses any (`giveUp`), and a target can be kept half
  written: `InterruptedRemoved` is stated for one signal.
- `depends()` looks for the wrong name (`rules.c:95`): a circle of two rules is never
  found, although there is a warning for it (`rules.c:159`), and `rebuild()` does not
  end. A target that a rule names among its own prerequisites is not added to those of
  any other target afterwards (`SelfDependent`).
- `touch()` is called with `silent` and `ignore` in each other's place (`rules.c:303`):
  under `-t` a target of `.IGNORE` may fail, which `IgnoredNeverFails` excuses.
- A target whose prerequisite is no file is remade once for every target that needs
  it (`rules.c:499`); `UpToDate` is stated for prerequisites that are files.
- `-e` hides definitions of `MAKEFLAGS` (`parser.c:105`); a definition on the command
  line with a value of two words reads back from `MAKEFLAGS` as two arguments
  (`main.c:218`, `main.c:269`): the instance has values of one word.
- Text: a blank line ends a rule, so that a command after it is an error, and so is
  one after an included file, which ends with an empty line; `$?` names files in the
  inverse order with a blank at the end; `$` at the end of a text vanishes; a macro
  that refers to itself expands until the stack ends; the value of `X = \` followed by
  a newline is a blank; `:`, `=` and `;` in the value of a macro are punctuation.

### The driver and ar

- Each tool keeps the read end of its own output pipe (`cc.c:300`), so a tool whose
  reader died early blocks instead of failing, and the driver waits for it for ever,
  where `cc.c:442` has a message for a tool that fails. `DriverEnds` excuses
  `BlocksItself`.
- With `-k`, two files that differ only in directory or suffix share the name of their
  object (`cc.c:276`), although both stay arguments of the linker: it then links the
  second one twice. `SuccessMeansWhole` excuses the files that are `Overwritten`.
- With `-k`, a failed link removes the last object, which was to be kept (`cc.c:467`).
- A signal while a file is compiled leaves tools running and a temporary object.
- `merge()` of ar truncates the archive and copies three temporaries into it: what
  fails there loses every member (`scc-ar.c:459`). Two runs with `-l` in one directory
  use the same temporaries.

### The compiler

- Preprocessor: `#if 1`, `#elif 1`, `#else` emits the last group (`cpp.c:929`; the
  property excuses `Odd`); macros met in an argument stay hidden in the rest of the
  replacement list; a line read by `ahead()` may replace the token in hand; `#undef`
  or a second `#define` of a macro whose call is being read, or a file that ends in the name of a function-like
  macro, crashes. Any directive inside the arguments clears `disexpand` (`cpp.c:1036`):
  macros are then expanded while the arguments are collected, a `)` of the macro itself
  can end its call, and it is read inside itself and stays visible after the inner one
  (`OpenIsHidden` excuses `broken`).
- Control flow: cc2 for z80 hangs on a `goto` to itself that another jump leads to
  (`HangNeedsGoto`), reads through a null pointer for a function that cannot end
  (`CrashOnlyEndless`), and meets its assertion at `cfg.c:268` when chained jumps lose a
  count (`cfg.c:343`). A condition of `&&`, `||` or `!` whose next statement is lowered
  itself gets its label in the wrong place (`Tangled`). `default` outside of a switch
  crashes cc1.
- Expressions: `1 < x` becomes `x >= 1` (`Mirrored`); `x % 1` is 1 (`ModByOne`); signed
  `x % 2^n` is a mask (`SignedMod`); `x % A` decrements the enumerator `A`
  (`EnumeratorKept`); `0 << f()` drops the call (`LostCall`); a constant cast to a
  narrower type keeps its high bits (`WideCast`); shifts bring both operands to one type
  (`MixedShift`); `c *= l` and `c /= i` are computed in the type of `c` (`NarrowOp`); `+x`
  is emitted with one operand, and `+x + 1` crashes (`UnaryPlus`); `c++` of a `char` ends
  in an assertion of cc2 (`CastStep`, and `SizeOfStep` under `sizeof`); `i - p` and
  `i += p` are accepted (`IntMinusPtr`); `p - q` has type `int` (`PtrDifference`); only
  the literal 0 is a null pointer constant (`HiddenNull`).
- Declarations: an inner `struct S { ... }` adds to the outer one (`InnerTag`); the
  size given to one array of a `typedef int A[]` is that of all (`SharedArray`); sizes
  and prototypes of later declarations are lost (`SizeGivenLater`, `MixedFunctions`,
  `RedeclaredInBlock`, `BlockExternOfStatic`); legal declarations are refused
  (`TentativeIncomplete`, `StaticTentative`, `ExternInitialized`, `FunctionParameter`,
  `ConstantHidden`, and `TypeHidden`: an enumerator named like a `typedef` of an outer
  block, `decl.c:848`) and illegal ones accepted (`FunctionInside`,
  `LocalStaticFunction`, `ParameterHidden`, `NamelessParameter`, `VoidNamed`); a tag in
  a prototype is used after it was freed (`PrototypeTag`). A list of parameters counts
  as a block for `NR_BLOCK` (`BlockLimit`): what reaches `NR_BLOCK + 1` is refused, and
  nothing that is less deep is refused for its depth (`symbol.c:113`). `int x; int x = 1;`
  prints two lines for `x` (`InitializedAgain`). A static function is printed with the
  letter of a local (`T`) when its declarator has its own parameters.

### The assembler

`RegisterLabel`: a label named like a register changes the register.
`DotBeforeLabel`: a local name before the first label changes in the second pass.
`WordOrder`: `.DW $0x512` gives 05 00. `Comparison`: `<` means `>`, and `>=`, `<=`, `>>` and
`<<` are refused. `Numbers`: 8 is an octal digit, and values near `TUINT_MAX` are refused.
`Truncated`: displacements, ports and relative jumps lose their high bits, and a
displacement counts from the wrong end. `FirstUnchecked`: the first operand of a list is
not checked. `OddAlignment`, `AnyZero`: `.ALIGN` and the encoding of zero.
`EquNotAbsolute`: `.EQU` names are never absolute. Besides: `as a.s b.s` writes only what
b.s says, `.END` leaves its file open under the next one, `*`, `/`, `%`, `&`, `(` and forward
references inside expressions crash, an operation without operands crashes, an
undefined symbol counts as 0, `.GLOBL a,b` marks only `a`, `.STRING` adds no NUL.

### libc

`strncmp()` goes on after the end (`PastTheEnd`); `memchr()` and its likes do not
convert their character (`NotConverted`); `0x` without a digit reads no number
(`BarePrefix`); `strtoll()` compares with `LONG_MIN` (`LongMinMistaken`); `bsearch()` of
nothing reads an element; surrogates are taken to end at 0xDD00. Noon is AM (`Noon`); ISO
weeks are off at the edges of some years (`IsoEdge`); a composite conversion of
`strftime()` that fills the buffer counts as nothing written (`CompositeFills`); before
1970 nothing is told. `printf` of `+` with `u`, `.0` of 0, zeros with a precision or a
blank, `h` and `hh`, and precisions over `MAXPREC` differ from C (`Unlike`, `TooLong`).
`fseek()` keeps the pointers of the buffer (`astray`), an unbuffered stream stores past its
buffer after a failed write and `clearerr()` (`InsideBuffer`), a partial write is written again,
`ungetc()` refuses all streams with something read, and `exit()` ignores a flush that
fails.

### The object tools

The offsets in the index of ranlib are those of the library before the index was
put in front, an old index is never recognised, and undefined names enter the index
(`TakenByUser`: a use after a common symbol takes its entry). strip loses both files
when `rename()` fails (`lost`), copies from a source it cannot read without noticing
(`damaged`), and drops the contents of sections that are not loaded (`Copied`). Reading
COFF: relocations are stored under the number of their section, the last symbol may
claim more auxiliary entries than there are, the string table is written with a size
that the reader refuses. ELF objects make strip and ranlib call a null function.

## 7. Plan

Done: the heap with its refinement, make with its texts, rules and macros, the
driver, ar; the preprocessor, statements, expressions and declarations of cc1, the
control flow of cc2, the assembler, libc but for what section 5 names, the object
tools; the proofs of section 4. Left, in this order:

1. Composition: make with the rules that `MakeFiles` reads; the driver, ar and the
   object tools over one disk.
2. cc1's initializers and tokens; the ELF half of libmach.
3. scc-ld, when it is finished: pass 1 against an abstract closure of symbols, the
   layout of sections against an abstract one without overlap.
