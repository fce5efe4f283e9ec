-------------------------------- MODULE MCAr --------------------------------
(***************************************************************************)
(* Instances of Ar for TLC.                                                *)
(***************************************************************************)
EXTENDS Ar

M(n) == [name |-> n, ver |-> 1]
Arch(state, members) == [st |-> state, mem |-> members]

\* A name twice in an archive is what q leaves.
MCArchives ==
  {Arch("absent", <<>>), Arch("foreign", <<>>), Arch("cut", <<M("a")>>),
   Arch("corrupt", <<M("a")>>), Arch("ok", <<>>),
   Arch("ok", <<M("a"), M("b"), M("c")>>), Arch("ok", <<M("b"), M("a"), M("b")>>)}

Lists == {<<>>, <<"a">>, <<"b">>, <<"c", "a">>, <<"b", "b">>, <<"b", "c">>}

MCFiles == {[n \in Names |-> IF n \in BadNames THEN 1 ELSE f[n]] :
              f \in [Names \ BadNames -> 0 .. MaxVersion]}

Command(keys, places, newer, locals) ==
  {[key |-> k, pos |-> p[1], b |-> p[2], u |-> u, c |-> FALSE, l |-> l, args |-> s] :
     k \in keys, p \in places, u \in newer, l \in locals, s \in Lists}

\* No position, after a or b, before a or b.
NoPlace == {<<NULL, FALSE>>}
Places  == NoPlace \cup ({"a", "b"} \X BOOLEAN)

\* Commands that main() and checkfnames() refuse.
Refused ==
  {[key |-> "t", pos |-> "a", b |-> FALSE, u |-> FALSE, c |-> FALSE, l |-> FALSE, args |-> <<>>],
   [key |-> "d", pos |-> NULL, b |-> FALSE, u |-> TRUE, c |-> FALSE, l |-> FALSE, args |-> <<"a">>],
   [key |-> "m", pos |-> NULL, b |-> FALSE, u |-> FALSE, c |-> TRUE, l |-> FALSE, args |-> <<"a">>],
   [key |-> "r", pos |-> NULL, b |-> FALSE, u |-> FALSE, c |-> TRUE, l |-> FALSE, args |-> <<"long">>]}

MCCommands ==
  Refused
  \cup Command({"r"}, Places, BOOLEAN, BOOLEAN)
  \cup Command({"m"}, Places, {FALSE}, BOOLEAN)
  \cup Command({"d", "q", "t", "p", "x"}, NoPlace, {FALSE}, BOOLEAN)
=============================================================================
