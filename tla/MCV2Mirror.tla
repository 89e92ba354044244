----------------------------- MODULE MCV2Mirror -----------------------------
(* Two names that may be files or directories, each with one name below it. *)
EXTENDS V2Mirror

a == <<"a">>
b == <<"b">>

MCPaths     == {a, a \o <<"x">>, b, b \o <<"x">>, <<"~t">>, <<".DS_Store">>}
MCIgnored   == {<<".DS_Store">>}
MCForbidden == {<<"~t">>}
MCContents  == {Empty, "text"}

(* The trees to start from: nothing; a directory with a file, and a file.  *)
Start(dirs, files) ==
  [p \in Nodes |-> IF p \in dirs THEN Dir ELSE IF p \in files THEN Empty ELSE Absent]

MCStarts == {Start({WorkDir}, {}), Start({WorkDir, a}, {a \o <<"x">>, b})}
=============================================================================
