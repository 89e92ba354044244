------------------------------ MODULE Settings ------------------------------
(***************************************************************************)
(* Configure and Section over one QSettings object (settings/*.cpp).  Its  *)
(* current group is a stack of names: each lookup begins one or two groups *)
(* and ends none, so that the next one starts from a deeper group.         *)
(*                                                                         *)
(* An ini file is a function from <<group, key>> to a value; [server] host *)
(* is at << <<"server">>, "host" >>.                                       *)
(***************************************************************************)
EXTENDS Sequences

CONSTANT Invalid   \* QVariant(), which converts to "", 0 or false

(* QSettings::childKeys and value, in the current group. *)
ChildKeys(ini, group) == {key \in {at[2] : at \in DOMAIN ini} :
                            <<group, key>> \in DOMAIN ini}

Lookup(ini, group, key) ==
  IF <<group, key>> \in DOMAIN ini THEN ini[<<group, key>>] ELSE Invalid

(* BUG: a key that is not there has no default. *)
GetWithoutDefault(ini, group, section, key, default) ==
  LET inner == Append(group, section) \o <<section>>
  IN  [value |-> Lookup(ini, inner, key), group |-> inner]

(* Section::get: what it returns, and the group it leaves behind. *)
Get(ini, group, section, key, default) ==
  LET outer == Append(group, section)   \* Configure::childKeysForSection
      inner == Append(outer, section)   \* Configure::value
  IN  IF key \in ChildKeys(ini, outer)
      THEN [value |-> Lookup(ini, inner, key), group |-> inner]
      ELSE [value |-> default, group |-> outer]

(* An ini file without nested groups. *)
Flat(ini) == \A at \in DOMAIN ini : Len(at[1]) = 1
=============================================================================
