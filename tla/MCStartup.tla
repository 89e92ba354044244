----------------------------- MODULE MCStartup -----------------------------
(* Names of one letter: the work tree w with a file f and a file d/f, and  *)
(* for one client a directory wd beside it.  For another one, and for one  *)
(* server, the work tree is the root of the file system.                   *)
EXTENDS Startup, TLC

w     == <<"/", "w">>
f     == <<"f">>
df    == <<"d", "/", "f">>
ef    == <<"e", "/", "f">>
In(p) == w \o <<"/">> \o p

MCCwd        == w
MCDefaultPath == w
MCTestPaths  == {w, w \o <<"/">>, <<"/">>}

Both == In(f) :> "1" @@ In(df) :> "1"
Rooted == (<<"/">> \o df) :> "1" @@ (<<"/">> \o ef) :> "2"

At(sections, key, value) == <<sections, key>> :> value

(* An ordinary ini file, one without a host, and one with nested groups.   *)
Ordinary ==
  At(<<"server">>, "host", "localhost") @@ At(<<"local">>, "path", w)
    @@ At(<<"local">>, "strict", TRUE)
Hostless == At(<<"server">>, "port", 1) @@ At(<<"local">>, "strict", TRUE)
Nested ==
  LET l == "local" IN
  At(<<"server", "server", l>>, "path", w)
    @@ At(<<"server", "server", l, l>>, "path", w)
    @@ At(<<"server", "server", l, l, l>>, "strict", TRUE)
    @@ At(<<"server", "server", l, l, l, l>>, "strict", TRUE)

MCMachines ==
  { [ini |-> Ordinary, head |-> {f, df}, disk |-> Both],
    [ini |-> Hostless, head |-> {f, df}, disk |-> Both],
    [ini |-> Nested, head |-> {f, df}, disk |-> Both],
    [ini |-> Nested, head |-> {df}, disk |-> (w \o df) :> "1"],
    [ini |-> Hostless, head |-> {df, ef}, disk |-> Rooted] }

Remote(head, disk, ini) ==
  [head |-> head, disk |-> disk, ini |-> ini, committed |-> TRUE,
   cwd |-> <<"/">>, folders |-> {w, <<"/">>}]

MCRemotes ==
  { Remote({}, Both, << >>), Remote({f, df}, Both, << >>),
    Remote({f}, Both, [watchPath |-> w \o <<"/">>]),
    Remote({f}, In(f) :> "2", << >>), Remote({f}, In(df) :> "1", << >>),
    Remote({}, Both, [port |-> 1]), Remote({}, Both, [watchPath |-> <<"/", "x">>]),
    Remote({df, ef}, Rooted, [watchPath |-> <<>>]),
    [Remote({}, Both, [watchPath |-> <<"w">>]) EXCEPT !.committed = FALSE] }
=============================================================================
