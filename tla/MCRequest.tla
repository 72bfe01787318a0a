----------------------------- MODULE MCRequest -----------------------------
(* Small instances of Request: a file, a program, and a directory with a   *)
(* plain index file; a buffer of Size bytes that is asked for one less, as *)
(* 16384 and 16383 in the code; heads shorter and longer than it.          *)
EXTENDS Request

MCPaths == {"file", "program", "missing", "dir", "dir/index.html"}
MCIndex == [d \in {"dir"} |-> "dir/index.html"]

Asked(methods, lengths) ==
  {r \in [method : methods, path : MCPaths, query : BOOLEAN, slash : BOOLEAN,
          long : {"none", "method", "path", "index"},
          line : {1}, head : lengths, total : lengths] :
     /\ r.head <= r.total
     /\ r.slash \/ r.long = "index" => r.path = "dir"
     /\ r.long # "none" => r.head = 3 /\ r.total <= 5}

EveryRequest == Asked({"GET", "POST", "OTHER"}, 2 .. 7)
=============================================================================
