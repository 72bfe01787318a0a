------------------------------ MODULE MCDinner ------------------------------
(* Small instances of Dinner: a plain file, a program, a path that is not  *)
(* there, and a method dinner does not implement.                          *)
EXTENDS Dinner, TLC

CONSTANTS c1, c2, c3, file, prog, gone

MCPaths == {file, prog, gone}
Ask(m, p, q) == [method |-> m, path |-> p, query |-> q]

JustFile == {Ask("GET", file, FALSE)}
FileOrNot == {Ask("GET", file, FALSE), Ask("GET", gone, TRUE)}
FileOrProgram == {Ask("GET", file, FALSE), Ask("GET", prog, TRUE), Ask("OTHER", gone, FALSE)}

Symmetry == Permutations(Conns)
=============================================================================
