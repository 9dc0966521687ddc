----------------------------- MODULE MCNonstop -----------------------------
(* What three clients ask for, in any order of arrival: uploads of two      *)
(* sizes that replace each other, requests for the same file, and           *)
(* requests with a name that is too long.                                   *)
EXTENDS Nonstop

CONSTANTS file, long

Ask(verb, name, size) == [verb |-> verb, name |-> name, size |-> size]

put0 == Ask(PUT, file, 0)
put2 == Ask(PUT, file, 2)
putLong == Ask(PUT, long, 1)
get == Ask(GET, file, 0)
getLong == Ask(GET, long, 0)
delete == Ask(DELETE, file, 0)
list == Ask(LIST, file, 0)

Selections ==
  {<<put2, put0, get>>, <<put2, put0, delete>>, <<put2, delete, get>>,
   <<put2, put2, list>>, <<put2, list, get>>,
   <<put0, putLong, delete>>, <<list, getLong, get>>}
=============================================================================
