---- MODULE MC_Toolbox ----
(***************************************************************************)
(* Two servers whose prefixed names may meet, and types and values with    *)
(* every kind, tag and mistake one level deep.                             *)
(***************************************************************************)
EXTENDS Toolbox

MCPrefixes == <<"fs_", "fs">>

\* "fs_" + "list" and "fs" + "_list" are the same name.
MCJoined ==
    [p \in {"fs_", "fs"} \X {"list", "_list", "read", "fslist"} |->
        CASE p = <<"fs_", "list">> -> "fs_list"
          [] p = <<"fs", "_list">> -> "fs_list"
          [] p = <<"fs", "read">> -> "fsread"
          [] p = <<"fs_", "read">> -> "fs_read"
          [] p = <<"fs", "list">> -> "fslist"
          [] p = <<"fs_", "_list">> -> "fs__list"
          [] OTHER -> "fsfslist"]

MCLocalTools == <<"read", "fslist">>
MCRepairConfigs == {-1, 0, 2}

MCToolNames == {"read", "list", "_list", "fslist"}

MCPages == {<<>>, <<"list">>, <<"_list">>, <<"read", "list">>}

\* Types.
Of(k) == [k |-> k]
Int8 == [k |-> "int", lo |-> -4, hi |-> 3]
Ptr(T) == [k |-> "ptr", of |-> T]
Slice(T) == [k |-> "slice", of |-> T]
MapOf(key, T) == [k |-> "map", key |-> key, of |-> T]
Field(name, T) ==
    [name |-> name, type |-> T, omitempty |-> FALSE, tag |-> NoTag,
     exported |-> TRUE, hidden |-> FALSE, embedded |-> FALSE]
Struct(fields) == [k |-> "struct", fields |-> fields]
Tree == [k |-> "named", name |-> "Tree"]
Pair == [k |-> "named", name |-> "Pair"]

MCNamed ==
    [Tree |-> Struct(<<Field("a", Slice(Tree))>>),
     Pair |-> Struct(<<Field("a", Of("string")), Field("b", Ptr(Int8))>>)]

MCTypes ==
    {Of("string"), Of("bool"), Of("float"), Of("bytes"), Of("time"), Of("any"), Of("chan"), Int8,
     Slice(Int8), Slice(Ptr(Of("string"))), MapOf("string", Int8), MapOf("int", Int8), Tree, Pair, Slice(Pair),
     MapOf("string", Pair),
     Struct(<<[Field("a", Of("string")) EXCEPT !.tag.enum = {"x", "y"}],
              [Field("b", Int8) EXCEPT !.tag.bounds = <<0, 2>>, !.omitempty = TRUE]>>),
     Struct(<<[Field("a", Ptr(Of("string"))) EXCEPT !.tag.req = "yes"],
              [Field("b", Of("any")) EXCEPT !.tag.req = "no"]>>),
     Struct(<<[Field("", Ptr(Pair)) EXCEPT !.embedded = TRUE], Field("c", Of("bool")),
              [Field("d", Of("chan")) EXCEPT !.hidden = TRUE]>>),
     Struct(<<[Field("", Pair) EXCEPT !.embedded = TRUE, !.exported = FALSE], Field("c", Of("bool")),
              [Field("d", Of("chan")) EXCEPT !.exported = FALSE]>>),
     Struct(<<Field("a", MapOf("int", Int8))>>)}

\* Values.
Null == [t |-> "null"]
Str(s) == [t |-> "string", s |-> s]
Bool == [t |-> "bool"]
Num(half, fraction) == [t |-> "number", half |-> half, fraction |-> fraction]
Arr(a) == [t |-> "array", a |-> a]
Obj(o) == [t |-> "object", o |-> o]

Scalars == {Null, Str("x"), Str("z"), Bool, Num(2, FALSE), Num(2, TRUE), Num(1, TRUE), Num(-2, FALSE), Num(8, FALSE)}

Flat == Scalars \cup {Arr(<<v>>) : v \in Scalars} \cup {Arr(<<>>), Obj(<<>>)}
        \cup {Obj(n :> v) : n \in {"a", "b", "c", "e"}, v \in Scalars}

MCReplies ==
    Flat \cup {Obj("a" :> v @@ "b" :> w) : v \in Scalars, w \in Scalars}
         \cup {Obj("a" :> Str("x") @@ "c" :> v) : v \in Scalars}
         \cup {Arr(<<Obj("a" :> v)>>) : v \in Scalars}
         \cup {Obj("e" :> Obj("a" :> v)) : v \in Scalars}

====
