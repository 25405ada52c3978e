---- MODULE MCNbtEdit ----
(* The empty name, which comes first, and "a", "an", "b" and "root", where n
   stands for a byte above 127.
   The first letter decides, but for a name that begins another: nbt_find()
   looks for it at the prev, while nbt_add(), which compares the 0 after "a"
   with n as signed characters, takes "a" to the next of "an". *)
EXTENDS NbtEdit

Names == {"a", "an", "b", "root"}
MCKey == Names \cup {NoName}
MCFindNext ==
  (Names \X {NoName}) \cup ({"b"} \X {"a", "an"}) \cup ({"root"} \X {"a", "an", "b"})
MCAddNext == MCFindNext \cup {<<"a", "an">>}
Elem(k, kind, elems) == [key |-> k, kind |-> kind, elems |-> elems]
MCFiles == {<<Elem("an", "lista", << <<Elem("root", "root", << >>)>> >>), Elem("root", "str", << >>)>>}
MCKinds == {"zd", "list"}
====
