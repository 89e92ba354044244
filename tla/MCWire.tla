------------------------------- MODULE MCWire -------------------------------
(* Messages for Wire: bytes 97 and 98 are letters, 200 is not UTF-8.       *)
EXTENDS Wire

Login(token, name) == [EmptyTokenLogin EXCEPT !.token = token, !.name = name]

Diff(path, content, status) ==
  [EmptyFileDiff EXCEPT !.relative_path = path, !.content = content, !.status = status]

Verification(root, contents) ==
  [EmptyVerification EXCEPT !.root_name = root, !.contents = contents]

(* main.cpp always has a name, but the token may be empty.                 *)
MCLogins == {Login(<<>>, <<97>>), Login(<<98>>, <<97>>)}

(* Of the work directory "/", with nothing listed, no byte is left.        *)
MCVerifications ==
  {Verification(<<>>, <<>>),
   Verification(<<98>>, <<97>> :> <<98>>),
   Verification(<<97>>, (<<97>> :> <<97>>) @@ (<<98>> :> <<>>))}

(* The last is from a client of a later .proto: it has a field 15.         *)
MCDiffs ==
  {Diff(<<97>>, <<98, 98>>, 1), Diff(<<97>>, <<>>, 3), Diff(<<98>>, <<200>>, 2),
   [Diff(<<97>>, <<97>>, 2) EXCEPT !.unknown = <<122, 1, 97>>]}

MCPassword == <<>>
MCRootName == <<97>>

(* The ids after -2 take ten bytes and, for 0, none; those after 126 one   *)
(* and two; after the largest the counter wraps.                           *)
MCFirstIds == {-2, 126, MaxInt32}

MCTexts == {<<97, 98>>}
=============================================================================
