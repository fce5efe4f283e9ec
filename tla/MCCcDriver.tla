----------------------------- MODULE MCCcDriver -----------------------------
(***************************************************************************)
(* Instances of CcDriver for TLC.                                          *)
(***************************************************************************)
EXTENDS CcDriver

\* Two C sources, an assembler source with the name of one of them, an object
\* and a file of unknown type.
MCKind == [f \in Sources |-> CASE f = "a.c" -> CC1 [] f = "b.c" -> CC1 [] f = "c.s" -> AS
                               [] f = "d.o" -> LD [] OTHER -> NONE]
MCBase == [f \in Sources |-> CASE f = "a.c" -> "a" [] f = "b.c" -> "b" [] f = "c.s" -> "a"
                               [] f = "d.o" -> "d" [] OTHER -> "x"]

Scenario(names, flagsets, size, early, fault, signals) ==
  [files : {names}, flags : flagsets, size : {size}, early : {early}, faults : {fault},
   signals : {signals}]

DriverScenarios ==
  Scenario(<<"a.c", "d.o">>, {{}, {"k"}, {"Q"}, {"S"}, {"c"}}, 1, TRUE, FALSE, 0)
  \cup Scenario(<<"a.c">>, {{"Q", "k"}}, 1, FALSE, FALSE, 0)
  \cup Scenario(<<"a.c">>, {{"Q"}, {"k"}, {"S"}, {"E"}, {"E", "o"}, {"M"}, {"c", "o"}, {"E", "M"}}, 2, FALSE, FALSE, 0)
  \cup Scenario(<<"a.c", "b.c">>, {{}, {"c", "o"}}, 1, TRUE, FALSE, 1)
  \cup Scenario(<<"c.s", "a.c">>, {{}, {"c"}, {"k"}}, 2, FALSE, TRUE, 0)
  \cup Scenario(<<"a.c", "x">>, {{}}, 1, FALSE, FALSE, 0)
  \cup Scenario(<<"a.c">>, {{"c"}}, 2, TRUE, FALSE, 0)
=============================================================================
